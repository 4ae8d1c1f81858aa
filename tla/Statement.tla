------------------------------ MODULE Statement ------------------------------
(***************************************************************************)
(* One Statement (statement.cpp) and the query object it owns, seen        *)
(* through the Query interface.  A query is one of                         *)
(*   "data"     DataQuery (module DataQuery; here only its cursor),        *)
(*   "tables"   TableMetadataQuery, "columns" ColumnMetadataQuery and      *)
(*   "types"    TypeInfoQuery, which keep their rows in a vector,          *)
(*   "empty"    the eight catalog functions that have no data.             *)
(* The rows are numbered 1 .. size, as this execution yields them; size is *)
(* what the service (or the type table) holds and is chosen when the query *)
(* is executed.  A rowset fetch takes one step for every row of the        *)
(* rowset.                                                                 *)
(***************************************************************************)
EXTENDS Naturals, Sequences, FiniteSets, FiniteSetsExt

CONSTANTS
    Kinds,          \* the kinds of query the application uses
    MaxRows,        \* bound on the rows of a result
    ArraySizes      \* values given to SQL_ATTR_ROW_ARRAY_SIZE

ASSUME KindsAssumption ==
    Kinds \subseteq {"data", "tables", "columns", "types", "empty"}
ASSUME StatementBounds == MaxRows \in Nat \ {0} /\ ArraySizes \subseteq Nat

VARIABLES
    query,          \* currentQuery
    rowArraySize,
    rowsFetched,    \* *rowsFetched
    rowStatuses,    \* rowStatuses[0 .. i - 1] of the fetch under way or done
    fetching,       \* "no", or the function that runs InternalFetchRow
    rowCount,       \* *rowCount of SQLExtendedFetch
    ret,            \* return code of the last call
    consumed,       \* rows read since the execution, in order
    rowset          \* rows the elements of the bound arrays hold

result == <<query, consumed>>
arrays == <<rowsFetched, rowStatuses, rowCount, rowset>>
vars   == <<query, rowArraySize, rowsFetched, rowStatuses, fetching, rowCount,
            ret, consumed, rowset>>

NoRow     == 0
Succeeded == {"AI_SUCCESS", "AI_SUCCESS_WITH_INFO"}

\* executed of the vector queries; for "data", cursor_ is not null.
\* cursor: index of the current row in the vector, size at its end; for
\* "data", TrinoCursor's count of the rows it has stepped to.
NewQuery(k) == [kind |-> k, size |-> 0, executed |-> FALSE, fetched |-> FALSE,
                cursor |-> 0]
NoQuery == NewQuery("none")

-----------------------------------------------------------------------------
(* The Query interface *)

Vector(q) == q.kind \in {"tables", "columns", "types"}

DataAvailable(q) ==
    /\ q.executed
    /\ Vector(q) => q.cursor < q.size

\* Close of each kind of query.
CloseQuery(q) ==
    IF q.kind = "types" THEN [q EXCEPT !.executed = FALSE, !.cursor = q.size]
    ELSE IF q.kind \in {"tables", "columns"}
    THEN [q EXCEPT !.executed = FALSE, !.size = 0, !.cursor = 0]
    ELSE IF q.kind = "data" THEN [q EXCEPT !.executed = FALSE, !.cursor = 0]
    ELSE q

Opened(q, n) == [q EXCEPT !.size = n, !.executed = TRUE, !.fetched = FALSE,
                          !.cursor = 0]

\* What Execute of each kind may answer, with the query it leaves behind.

Rows(q) == {<<"AI_SUCCESS", Opened(q, n)>> : n \in 1 .. MaxRows}

\* DataQuery: a failure and an empty result leave cursor_ null.
DataExecutions(q) ==
    Rows(q) \cup {<<r, CloseQuery(q)>> : r \in {"AI_ERROR", "AI_NO_DATA"}}

\* Mutant of TypeExecutions: fetched is not reset.
TypeExecutionsKeepFetched(q) ==
    {<<e[1], [e[2] EXCEPT !.fetched = q.fetched]>> : e \in Rows(q)}

TypeExecutions(q) == Rows(q)

\* TableMetadataQuery: executed by any success, with rows or without.
TableExecutions(q) ==
    Rows(q) \cup {<<r, Opened(CloseQuery(q), 0)>> : r \in Succeeded}
            \cup {<<"AI_ERROR", CloseQuery(q)>>}

\* ColumnMetadataQuery: executed by AI_SUCCESS only.
ColumnExecutions(q) ==
    Rows(q) \cup {<<"AI_SUCCESS", Opened(CloseQuery(q), 0)>>}
            \cup {<<r, CloseQuery(q)>> :
                     r \in {"AI_SUCCESS_WITH_INFO", "AI_NO_DATA", "AI_ERROR"}}

\* ForeignKeysQuery and its like: a warning, nothing else.
EmptyExecutions(q) == {<<"AI_SUCCESS_WITH_INFO", q>>}

Executions(q) ==
    CASE q.kind = "data"    -> DataExecutions(q)
      [] q.kind = "types"   -> TypeExecutions(q)
      [] q.kind = "tables"  -> TableExecutions(q)
      [] q.kind = "columns" -> ColumnExecutions(q)
      [] q.kind = "empty"   -> EmptyExecutions(q)

\* What FetchNextRow may answer: <<result, row read or NoRow, query>>.

NoData(q) == <<"AI_NO_DATA", NoRow, q>>

\* DataQuery: it may fail to convert the row (it has stepped to it), or to get
\* the page the row is on (its cursor is reset).
DataFetches(q) ==
    LET step == [q EXCEPT !.cursor = q.cursor + 1]
    IN  IF q.executed /\ q.cursor < q.size
        THEN {<<"AI_SUCCESS", q.cursor + 1, step>>,
              <<"AI_ERROR", q.cursor + 1, step>>}
             \cup (IF q.cursor = 0 THEN {}
                   ELSE {<<"AI_ERROR", NoRow, CloseQuery(q)>>})
        ELSE {NoData(q)}

\* Mutants of VectorCursor: the first fetch steps past the first row; the
\* cursor steps past the end.
VectorCursorEager(q) == IF q.cursor < q.size THEN q.cursor + 1 ELSE q.cursor
VectorCursorUnguarded(q) == IF q.fetched THEN q.cursor + 1 ELSE q.cursor

\* The vector cursor FetchNextRow moves to: the first row is under it already.
VectorCursor(q) ==
    IF q.fetched /\ q.cursor < q.size THEN q.cursor + 1 ELSE q.cursor

\* TypeInfoQuery and ColumnMetadataQuery.
VectorFetches(q) ==
    LET c     == VectorCursor(q)
        moved == [q EXCEPT !.fetched = TRUE, !.cursor = c]
    IN  {IF ~q.executed THEN <<"AI_ERROR", NoRow, q>>
         ELSE IF c = q.size THEN NoData(moved)
         ELSE <<"AI_SUCCESS", c + 1, moved>>}

\* TableMetadataQuery looks for an empty vector first.
TableFetches(q) ==
    IF q.executed /\ q.size = 0 THEN {NoData(q)} ELSE VectorFetches(q)

EmptyFetches(q) == {NoData(q)}

Fetches(q) ==
    CASE q.kind = "data"    -> DataFetches(q)
      [] q.kind = "types"   -> VectorFetches(q)
      [] q.kind = "tables"  -> TableFetches(q)
      [] q.kind = "columns" -> VectorFetches(q)
      [] q.kind = "empty"   -> EmptyFetches(q)

\* RowNumber: only the vector queries count by position.
RowNumber(q) == IF Vector(q) /\ q.executed /\ q.cursor < q.size
                THEN q.cursor + 1 ELSE 0

-----------------------------------------------------------------------------
Init ==
    /\ query = NoQuery
    /\ rowArraySize = 1
    /\ rowsFetched = 0 /\ rowStatuses = <<>> /\ rowCount = 0
    /\ fetching = "no"
    /\ ret = "none"
    /\ consumed = <<>> /\ rowset = <<>>

Idle == fetching = "no"

\* The execution of q: its answer, which SQLExecute turns from AI_NO_DATA into
\* AI_SUCCESS_WITH_INFO, becomes the return code of the call.
Run(q, emptyIsInfo) ==
    /\ \E e \in Executions(q) :
         /\ query' = e[2]
         /\ ret' = IF emptyIsInfo /\ e[1] = "AI_NO_DATA"
                   THEN "AI_SUCCESS_WITH_INFO" ELSE e[1]
    /\ consumed' = <<>>
    /\ UNCHANGED <<rowArraySize, arrays, fetching>>

\* SQLPrepare: the old query is closed and destroyed.
PrepareSqlQuery ==
    /\ Idle /\ "data" \in Kinds
    /\ query' = NewQuery("data")
    /\ ret' = "AI_SUCCESS" /\ consumed' = <<>>
    /\ UNCHANGED <<rowArraySize, arrays, fetching>>

\* SQLExecDirect.
ExecDirect == Idle /\ "data" \in Kinds /\ Run(NewQuery("data"), TRUE)

\* SQLExecute: whatever query the statement holds is executed (again).
ExecuteSqlQuery ==
    /\ Idle
    /\ \/ /\ query = NoQuery
          /\ ret' = "AI_ERROR"
          /\ UNCHANGED <<result, rowArraySize, arrays, fetching>>
       \/ query # NoQuery /\ Run(query, TRUE)

\* The catalog functions and SQLGetTypeInfo of a supported type.
ExecuteCatalogQuery ==
    Idle /\ \E k \in Kinds \ {"data"} : Run(NewQuery(k), FALSE)

\* Calls refused before they touch the query: SQLGetTypeInfo of a type that is
\* not supported, SQLFetchScroll with another orientation.
Refused ==
    /\ Idle
    /\ ret' = "AI_ERROR"
    /\ UNCHANGED <<result, rowArraySize, arrays, fetching>>

\* SQLCancel.
CancelSqlQuery ==
    /\ Idle
    /\ \/ /\ query # NoQuery
          /\ query' = CloseQuery(query) /\ ret' = "AI_SUCCESS"
       \/ /\ query.kind \in {"none", "data"}
          /\ ret' = "AI_ERROR" /\ UNCHANGED query
    /\ UNCHANGED <<consumed, rowArraySize, arrays, fetching>>

\* SQLCloseCursor and SQLFreeStmt(SQL_CLOSE).
Close ==
    /\ Idle
    /\ \/ /\ query = NoQuery
          /\ ret' = "AI_SUCCESS" /\ UNCHANGED query
       \/ /\ query # NoQuery /\ ~DataAvailable(query)
          /\ ret' = "AI_ERROR" /\ UNCHANGED query
       \/ /\ query # NoQuery /\ DataAvailable(query)
          /\ query' = CloseQuery(query)
          /\ ret' = "AI_SUCCESS"
    /\ UNCHANGED <<consumed, rowArraySize, arrays, fetching>>

\* SQLSetStmtAttr(SQL_ATTR_ROW_ARRAY_SIZE).
SetRowArraySize ==
    /\ Idle
    /\ rowArraySize' \in {n \in ArraySizes : n <= 1000}
    /\ ret' = "AI_SUCCESS"
    /\ UNCHANGED <<result, arrays, fetching>>

\* SQLGetData: the row under the cursor is converted again, if there is one.
GetColumnData ==
    /\ Idle
    /\ \/ DataAvailable(query) /\ ret' \in {"AI_SUCCESS", "AI_ERROR"}
       \/ /\ ~DataAvailable(query)
          /\ ret' = IF \/ query.kind \in {"data", "empty"}
                       \/ query.kind = "tables" /\ query.executed
                          /\ query.size = 0
                    THEN "AI_NO_DATA" ELSE "AI_ERROR"
    /\ UNCHANGED <<result, rowArraySize, arrays, fetching>>

-----------------------------------------------------------------------------
(* SQLFetch, SQLFetchScroll and SQLExtendedFetch *)

\* InternalFetchRow begins.
FetchRow ==
    /\ Idle
    /\ rowsFetched' = 0
    /\ rowStatuses' = <<>> /\ rowset' = <<>>
    /\ IF query = NoQuery
       THEN ret' = "AI_ERROR" /\ UNCHANGED fetching
       ELSE fetching' \in {"SQLFetch", "SQLExtendedFetch"} /\ UNCHANGED ret
    /\ UNCHANGED <<result, rowArraySize, rowCount>>

\* SqlResultToRowResult.
SqlResultToRowResult(r) ==
    CASE r = "AI_NO_DATA" -> "SQL_ROW_NOROW"
      [] r = "AI_SUCCESS" -> "SQL_ROW_SUCCESS"
      [] r = "AI_SUCCESS_WITH_INFO" -> "SQL_ROW_SUCCESS_WITH_INFO"
      [] r = "AI_ERROR" -> "SQL_ROW_ERROR"

\* One turn of its loop: the next row goes to the next element.  The loop does
\* not stop at an error or at the end of the data.
FetchElement ==
    /\ ~Idle /\ Len(rowStatuses) < rowArraySize
    /\ \E f \in Fetches(query) :
         /\ query' = f[3]
         /\ rowStatuses' = Append(rowStatuses, SqlResultToRowResult(f[1]))
         /\ rowset' = Append(rowset, f[2])
         /\ consumed' = IF f[2] = NoRow THEN consumed
                        ELSE Append(consumed, f[2])
    /\ UNCHANGED <<rowArraySize, rowsFetched, fetching, rowCount, ret>>

Elements(status) == {i \in DOMAIN rowStatuses : rowStatuses[i] \in status}
GoodRow == {"SQL_ROW_SUCCESS", "SQL_ROW_SUCCESS_WITH_INFO"}

\* Mutant of FetchResult: an error hides the rows that were read.
FetchResultErrorFirst(fetched, errors) ==
    IF errors > 0 THEN "AI_ERROR"
    ELSE IF fetched > 0 THEN "AI_SUCCESS" ELSE "AI_NO_DATA"

FetchResult(fetched, errors) ==
    IF fetched > 0
    THEN IF errors = 0 THEN "AI_SUCCESS" ELSE "AI_SUCCESS_WITH_INFO"
    ELSE IF errors = 0 THEN "AI_NO_DATA" ELSE "AI_ERROR"

\* InternalFetchRow returns.  SQLExtendedFetch then writes its row count, and
\* the status of the first row only.
FetchDone ==
    /\ ~Idle /\ Len(rowStatuses) = rowArraySize
    /\ LET fetched == Cardinality(Elements(GoodRow))
           errors  == Cardinality(Elements({"SQL_ROW_ERROR"}))
       IN  /\ rowsFetched' = fetched
           /\ ret' = FetchResult(fetched, errors)
    /\ rowCount' = IF fetching = "SQLFetch" THEN rowCount
                   ELSE IF ret' = "AI_SUCCESS" THEN 1
                   ELSE IF ret' = "AI_NO_DATA" THEN 0 ELSE rowCount
    /\ fetching' = "no"
    /\ UNCHANGED <<result, rowArraySize, rowStatuses, rowset>>

Next ==
    \/ PrepareSqlQuery \/ ExecDirect \/ ExecuteSqlQuery \/ ExecuteCatalogQuery
    \/ Refused \/ CancelSqlQuery \/ Close \/ SetRowArraySize \/ GetColumnData
    \/ FetchRow \/ FetchElement \/ FetchDone

Spec == Init /\ [][Next]_vars

-----------------------------------------------------------------------------
(* Properties *)

\* The rows read since the execution are the rows 1, 2, 3, ... of the result,
\* over any mixture of rowset sizes, failed rows and executions of the query.
RowsInOrder == \A i \in DOMAIN consumed : consumed[i] = i

\* Within a rowset, no row follows an element that has no row: an application
\* may stop at the first SQL_ROW_NOROW.
EndIsFinal ==
    \A i, j \in DOMAIN rowStatuses :
        i < j /\ rowStatuses[i] = "SQL_ROW_NOROW"
            => rowStatuses[j] = "SQL_ROW_NOROW"

\* A fetch of one row or more answers with success exactly when some element
\* holds a row, and with SQL_NO_DATA only when the open result has no row left.
FetchAnswers ==
    [][ ~Idle /\ Idle' /\ rowArraySize > 0 =>
        /\ ret' \in Succeeded
             <=> \E i \in DOMAIN rowset :
                   rowset[i] # NoRow /\ rowStatuses[i] # "SQL_ROW_ERROR"
        /\ ret' = "AI_NO_DATA" /\ query.executed
             => Len(consumed) = query.size ]_vars

\* SQL_ATTR_ROW_NUMBER on a row of a catalog result is the number of rows read
\* to get there (RowNumber, "Row number starts at 1", query.h).
RowNumberCounts ==
    Vector(query) /\ query.fetched /\ DataAvailable(query)
        => RowNumber(query) = Len(consumed)
=============================================================================
