CONSTANTS
    NULL = NULL
    Server <- MCServer
    Upper <- MCUpper
    TableCalls <- MCTableCalls
    ColumnCalls <- MCColumnCalls
    TypeCalls <- MCTypeCalls
    MaxChanges = 1
SPECIFICATION Spec
INVARIANT PlacedAsAnnounced
INVARIANT TablesAreThoseMatching
INVARIANT LossIsRecorded
INVARIANT NoNullWhereDeclared
INVARIANT TypesAreListed
