SPECIFICATION Spec
CONSTANTS
    Kinds = {"data", "tables", "columns", "types", "empty"}
    MaxRows = 3
    ArraySizes = {0, 1, 2, 4}
INVARIANT RowsInOrder
INVARIANT EndIsFinal
INVARIANT RowNumberCounts
PROPERTY FetchAnswers
