CONSTANTS
    R1 = R1
    R2 = R2
    M1 = M1
    M2 = M2
    KeyPairs = {R1, R2}
    Messages = {M1, M2}
    MaxSigned = 2
SPECIFICATION Spec
INVARIANT VerdictIsValidity
CHECK_DEADLOCK FALSE
