CONSTANTS
    NoContext = NoContext
    PeerKeys = {"valid", "invalid"}
    ExporterLabels <- MC_ExporterLabels
    ExporterContexts <- MC_ExporterContexts
    MaxExports = 2
SPECIFICATION Spec
INVARIANT PrfNeverPanics
\* A connection ends aborted, panicked or after MaxExports exports.
CHECK_DEADLOCK FALSE
