\* Three contexts (a transcript, a fork of it, and a fork of the fork),
\* two data values, up to three updates each.
CONSTANTS
    C1 = C1
    C2 = C2
    C3 = C3
    D1 = D1
    D2 = D2
    Contexts <- MC_Contexts
    Data <- MC_Data
    MaxLen = 3
SPECIFICATION Spec
PROPERTY ImplementsIncrementalHash
