CONSTANTS
    Types <- MCTypes
    BufLens <- MCBufLens
    WCharSize = 4
    LongSize = 8
    Half <- MCHalf
    Exact <- MCExact
    Data <- MCData
    Rows = 2
SPECIFICATION Spec
\* A fault ends the process.
CHECK_DEADLOCK FALSE
INVARIANT ElementsApart
 
INVARIANT LengthIsFresh
INVARIANT ReadsBack
