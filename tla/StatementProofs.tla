--------------------------- MODULE StatementProofs ---------------------------
(* The rows a statement hands out, for results of any size and rowsets of   *)
(* any size: they come in order, none is skipped or repeated, and the       *)
(* answer of a fetch tells the end of the result from a failure.            *)
EXTENDS Statement, FiniteSetTheorems, TLAPS

QueryKind == {"none", "data", "tables", "columns", "types", "empty"}
QueryType == [kind : QueryKind, size : Nat, executed : BOOLEAN,
              fetched : BOOLEAN, cursor : Nat]
RowResult == {"SQL_ROW_NOROW", "SQL_ROW_SUCCESS", "SQL_ROW_ERROR"}

\* The query is one of the program's, and its cursor is not past the end.  A
\* statement without a query holds no state of one, and the catalog functions
\* without data never have a result.
GoodQuery(q) ==
    /\ q \in QueryType
    /\ q.cursor <= q.size
    /\ q.kind = "none" => q = NoQuery
    /\ q.kind = "empty" => ~q.executed

StatementTypeOK ==
    /\ GoodQuery(query)
    /\ rowArraySize \in Nat
    /\ fetching \in {"no", "SQLFetch", "SQLExtendedFetch"}
    /\ ~Idle => query # NoQuery
    /\ consumed \in Seq(Nat)
    /\ rowStatuses \in Seq(RowResult)
    /\ rowset \in Seq(Nat)
    /\ Len(rowset) = Len(rowStatuses)

\* The number of rows read is what the cursor of the open result says: the
\* cursor of a vector rests on the row read last, that of "data" behind it.
ReadSoFar(q) ==
    IF Vector(q) /\ q.fetched /\ q.cursor < q.size
    THEN q.cursor + 1 ELSE q.cursor

CursorCounts ==
    query.executed =>
        /\ Len(consumed) = ReadSoFar(query)
        /\ Vector(query) /\ ~query.fetched => query.cursor = 0

\* No fetch of q finds a row any more.
Exhausted(q) ==
    /\ q.kind = "data" => ~q.executed \/ q.cursor = q.size
    /\ Vector(q) => q.executed /\ q.cursor = q.size
    /\ q.kind # "none"

\* An element of the rowset without a row was found at the end of the result.
NoRowMeansEnd ==
    ~Idle /\ (\E i \in DOMAIN rowStatuses : rowStatuses[i] = "SQL_ROW_NOROW")
        => Exhausted(query)

\* An element has a row when its status says so.
StatusTellsRow ==
    \A i \in DOMAIN rowStatuses :
        /\ rowStatuses[i] = "SQL_ROW_SUCCESS" => rowset[i] # NoRow
        /\ rowStatuses[i] = "SQL_ROW_NOROW" => rowset[i] = NoRow

StatementInv ==
    /\ StatementTypeOK
    /\ RowsInOrder
    /\ CursorCounts
    /\ NoRowMeansEnd
    /\ EndIsFinal
    /\ StatusTellsRow

-----------------------------------------------------------------------------
(* The Query interface *)

\* A new query is a query of the program that is not executed.
LEMMA NewFacts ==
    ASSUME NEW k \in QueryKind
    PROVE  /\ GoodQuery(NewQuery(k)) /\ ~NewQuery(k).executed
           /\ NewQuery(k).kind = k
<1>1. NewQuery(k) \in QueryType
  BY DEF QueryType, NewQuery
<1>2. NewQuery(k).cursor <= NewQuery(k).size
  BY DEF NewQuery
<1>3. NewQuery(k).kind = k /\ ~NewQuery(k).executed
  BY DEF NewQuery
<1>4. k = "none" => NewQuery(k) = NoQuery
  BY DEF NoQuery
<1>5. QED
  BY <1>1, <1>2, <1>3, <1>4 DEF GoodQuery

\* So is a closed one, of the same kind.
LEMMA CloseFacts ==
    ASSUME NEW q, GoodQuery(q)
    PROVE  /\ GoodQuery(CloseQuery(q)) /\ CloseQuery(q).kind = q.kind
           /\ ~CloseQuery(q).executed
<1>1. q \in QueryType /\ q.kind \in QueryKind
  BY DEF GoodQuery, QueryType
<1>2. CASE q.kind = "types"
  <2> DEFINE c == [q EXCEPT !.executed = FALSE, !.cursor = q.size]
  <2>1. CloseQuery(q) = c
    BY <1>2 DEF CloseQuery
  <2>2. c \in QueryType
    BY <1>1, Zenon DEF QueryType
  <2>3. c.kind = q.kind /\ ~c.executed /\ c.cursor <= c.size
    BY <1>1 DEF QueryType
  <2>4. QED
    BY <1>2, <2>1, <2>2, <2>3 DEF GoodQuery
<1>3. CASE q.kind \in {"tables", "columns"}
  <2> DEFINE c == [q EXCEPT !.executed = FALSE, !.size = 0, !.cursor = 0]
  <2>1. CloseQuery(q) = c
    BY <1>3 DEF CloseQuery
  <2>0. 0 \in Nat
    OBVIOUS
  <2>2. c \in QueryType
    BY <1>1, <2>0, Zenon DEF QueryType
  <2>3. c.kind = q.kind /\ ~c.executed /\ c.cursor <= c.size
    BY <1>1 DEF QueryType
  <2>4. QED
    BY <1>3, <2>1, <2>2, <2>3 DEF GoodQuery
<1>4. CASE q.kind = "data"
  <2> DEFINE c == [q EXCEPT !.executed = FALSE, !.cursor = 0]
  <2>1. CloseQuery(q) = c
    BY <1>4 DEF CloseQuery
  <2>0. 0 \in Nat
    OBVIOUS
  <2>2. c \in QueryType
    BY <1>1, <2>0, Zenon DEF QueryType
  <2>3. c.kind = q.kind /\ ~c.executed /\ c.cursor <= c.size
    BY <1>1 DEF QueryType
  <2>4. QED
    BY <1>4, <2>1, <2>2, <2>3 DEF GoodQuery
<1>5. CASE q.kind \in {"none", "empty"}
  <2>1. CloseQuery(q) = q
    BY <1>5 DEF CloseQuery
  <2>2. ~q.executed
    BY <1>5, NewFacts DEF GoodQuery, NoQuery, QueryKind
  <2>3. QED
    BY <2>1, <2>2
<1>6. QED
  BY <1>1, <1>2, <1>3, <1>4, <1>5 DEF QueryKind

\* An opened one is executed, and its cursor is before the first row.
LEMMA OpenFacts ==
    ASSUME NEW q, GoodQuery(q), q.kind \notin {"none", "empty"}, NEW n \in Nat
    PROVE  /\ GoodQuery(Opened(q, n)) /\ Opened(q, n).kind = q.kind
           /\ Opened(q, n).executed /\ ~Opened(q, n).fetched
           /\ Opened(q, n).cursor = 0
<1>0. q \in QueryType /\ 0 \in Nat
  BY DEF GoodQuery
<1>1. Opened(q, n) \in QueryType
  BY <1>0, Zenon DEF QueryType, Opened
<1>2. /\ Opened(q, n).kind = q.kind /\ Opened(q, n).cursor <= Opened(q, n).size
      /\ Opened(q, n).executed /\ ~Opened(q, n).fetched
      /\ Opened(q, n).cursor = 0
  BY <1>0 DEF QueryType, Opened
<1>3. QED
  BY <1>1, <1>2 DEF GoodQuery

\* An execution of any kind of query leaves it with nothing read.
LEMMA ExecutionFacts ==
    ASSUME NEW q, GoodQuery(q), q.kind # "none", NEW e \in Executions(q)
    PROVE  /\ GoodQuery(e[2]) /\ e[2].kind = q.kind
           /\ e[2].executed => e[2].cursor = 0 /\ ~e[2].fetched
<1> DEFINE Good(x) ==
      /\ GoodQuery(x[2]) /\ x[2].kind = q.kind
      /\ x[2].executed => x[2].cursor = 0 /\ ~x[2].fetched
<1>0. q.kind \in QueryKind
  BY DEF GoodQuery, QueryType
<1>1. ASSUME q.kind # "empty", NEW x \in Rows(q) PROVE Good(x)
  <2>1. PICK n \in 1 .. MaxRows : x = <<"AI_SUCCESS", Opened(q, n)>>
    BY <1>1 DEF Rows
  <2>2. n \in Nat
    BY StatementBounds
  <2>3. QED
    BY <1>1, <2>1, <2>2, OpenFacts, CloseFacts
<1>2. CASE q.kind = "empty"
  BY <1>2 DEF Executions, EmptyExecutions, GoodQuery
<1>3. ASSUME NEW r \in {"AI_SUCCESS", "AI_SUCCESS_WITH_INFO"}, q.kind # "empty"
      PROVE  Good(<<r, Opened(CloseQuery(q), 0)>>)
  BY <1>3, OpenFacts, CloseFacts
<1>4. ASSUME NEW r \in {"AI_SUCCESS_WITH_INFO", "AI_NO_DATA", "AI_ERROR"}
      PROVE  Good(<<r, CloseQuery(q)>>)
  BY <1>4, OpenFacts, CloseFacts DEF Succeeded
<1>5. CASE q.kind = "data"
  BY <1>1, <1>4, <1>5 DEF Executions, DataExecutions
<1>6. CASE q.kind = "types"
  BY <1>1, <1>6 DEF Executions, TypeExecutions
<1>7. CASE q.kind = "tables"
  BY <1>1, <1>3, <1>4, <1>7 DEF Executions, TableExecutions, Succeeded
<1>8. CASE q.kind = "columns"
  BY <1>1, <1>3, <1>4, <1>8 DEF Executions, ColumnExecutions
<1>9. QED
  BY <1>0, <1>2, <1>5, <1>6, <1>7, <1>8 DEF QueryKind

\* What a fetch of one row answers: the row after those read, none when it fails
\* or the result is at its end, and from there on never a row again.
FetchFacts(q, f) ==
    /\ GoodQuery(f[3]) /\ f[3].kind = q.kind
    /\ f[1] \in {"AI_SUCCESS", "AI_NO_DATA", "AI_ERROR"} /\ f[2] \in Nat
    /\ f[1] = "AI_SUCCESS" => f[2] # NoRow
    /\ f[1] = "AI_NO_DATA" => f[2] = NoRow
    /\ f[3].executed => q.executed
    /\ Vector(q) => f[3].executed = q.executed
    /\ Vector(q) /\ f[3].executed /\ ~f[3].fetched => f[3].cursor = 0
    /\ f[2] # NoRow => /\ q.executed
                       /\ f[2] = ReadSoFar(q) + 1
                       /\ ReadSoFar(f[3]) = ReadSoFar(q) + 1
    /\ f[2] = NoRow /\ f[3].executed => ReadSoFar(f[3]) = ReadSoFar(q)
    /\ Exhausted(q) => f[1] = "AI_NO_DATA"
    /\ f[1] = "AI_NO_DATA" => Exhausted(f[3])

\* The end of the result, found with the query at it.
LEMMA NoDataLemma ==
    ASSUME NEW q, GoodQuery(q), Exhausted(q),
           Vector(q) /\ q.executed /\ ~q.fetched => q.cursor = 0
    PROVE  FetchFacts(q, NoData(q))
<1>1. NoData(q)[1] = "AI_NO_DATA" /\ NoData(q)[2] = NoRow /\ NoData(q)[3] = q
  BY DEF NoData
<1>2. NoRow \in Nat
  BY DEF NoRow
<1>3. QED
  BY <1>1, <1>2 DEF FetchFacts

LEMMA FetchLemma ==
    ASSUME NEW q, GoodQuery(q), q.kind # "none",
           Vector(q) /\ q.executed /\ ~q.fetched => q.cursor = 0,
           NEW f \in Fetches(q)
    PROVE  FetchFacts(q, f)
<1>0. q \in QueryType /\ q.kind \in QueryKind
  BY DEF GoodQuery, QueryType
<1>1. CASE q.kind = "data"
  <2> DEFINE step == [q EXCEPT !.cursor = q.cursor + 1]
  <2>0. ~Vector(q)
    BY <1>1 DEF Vector
  <2>1. CASE q.executed /\ q.cursor < q.size /\ f[2] # NoRow
    <3>1. f \in {<<"AI_SUCCESS", q.cursor + 1, step>>, <<"AI_ERROR", q.cursor + 1, step>>}
      BY <1>1, <2>1 DEF Fetches, DataFetches
    <3>2. /\ f[1] \in {"AI_SUCCESS", "AI_ERROR"} /\ f[2] = q.cursor + 1
          /\ f[3] = step
      BY <3>1
    <3>3. step \in QueryType
      BY <1>0 DEF QueryType
    <3>4. /\ step.kind = q.kind /\ step.cursor = q.cursor + 1
          /\ step.size = q.size /\ step.executed = q.executed
      BY <1>0 DEF QueryType
    <3>5. GoodQuery(step) /\ ~Vector(step)
      BY <1>0, <1>1, <2>0, <2>1, <3>3, <3>4 DEF GoodQuery, QueryType, Vector
    <3>6. ReadSoFar(q) = q.cursor /\ ReadSoFar(step) = q.cursor + 1
      BY <2>0, <3>4, <3>5 DEF ReadSoFar
    <3>7. q.cursor + 1 \in Nat /\ ~Exhausted(q)
      BY <1>0, <1>1, <2>1 DEF QueryType, Exhausted
    <3>8. QED
      BY <2>0, <2>1, <3>2, <3>4, <3>5, <3>6, <3>7 DEF FetchFacts
  <2>2. CASE q.executed /\ q.cursor < q.size /\ f[2] = NoRow
    <3>1. f = <<"AI_ERROR", NoRow, CloseQuery(q)>>
      BY <1>0, <1>1, <2>2 DEF Fetches, DataFetches, NoRow, QueryType
    <3>2. f[1] = "AI_ERROR" /\ f[2] = NoRow /\ f[3] = CloseQuery(q) /\ NoRow \in Nat
      BY <3>1 DEF NoRow
    <3>3. ~Exhausted(q)
      BY <1>0, <1>1, <2>2 DEF QueryType, Exhausted
    <3>4. QED
      BY <2>0, <2>2, <3>2, <3>3, CloseFacts DEF FetchFacts
  <2>3. CASE ~(q.executed /\ q.cursor < q.size)
    <3>1. f = NoData(q)
      BY <1>1, <2>3 DEF Fetches, DataFetches
    <3>2. Exhausted(q)
      BY <1>0, <1>1, <2>0, <2>3 DEF Exhausted, GoodQuery, QueryType
    <3>3. QED
      BY <3>1, <3>2, NoDataLemma
  <2>4. QED
    BY <2>1, <2>2, <2>3
<1>2. ASSUME Vector(q), f \in VectorFetches(q) PROVE FetchFacts(q, f)
  <2> DEFINE c     == VectorCursor(q)
             moved == [q EXCEPT !.fetched = TRUE, !.cursor = c]
  <2>0. q.kind # "data"
    BY <1>2 DEF Vector
  <2>1. CASE ~q.executed
    <3>1. f = <<"AI_ERROR", NoRow, q>>
      BY <1>2, <2>1 DEF VectorFetches
    <3>2. f[1] = "AI_ERROR" /\ f[2] = NoRow /\ f[3] = q /\ NoRow \in Nat
      BY <3>1 DEF NoRow
    <3>3. QED
      BY <1>2, <2>1, <3>2 DEF FetchFacts, Exhausted
  <2>2. CASE q.executed
    <3>1. c \in Nat /\ c <= q.size
      BY <1>0 DEF VectorCursor, GoodQuery, QueryType
    <3>2. moved \in QueryType
      BY <1>0, <3>1, Zenon DEF QueryType
    <3>3. /\ moved.kind = q.kind /\ moved.cursor = c /\ moved.size = q.size
          /\ moved.executed = q.executed /\ moved.fetched
      BY <1>0 DEF QueryType
    <3>4. GoodQuery(moved) /\ Vector(moved)
      BY <1>2, <2>2, <3>1, <3>2, <3>3 DEF GoodQuery, Vector
    <3>5. ReadSoFar(moved) = IF c < q.size THEN c + 1 ELSE c
      BY <3>3, <3>4 DEF ReadSoFar
    <3>6. CASE c = q.size
      <4>1. f = NoData(moved)
        BY <1>2, <2>2, <3>6 DEF VectorFetches
      <4>2. f[1] = "AI_NO_DATA" /\ f[2] = NoRow /\ f[3] = moved /\ NoRow \in Nat
        BY <4>1 DEF NoData, NoRow
      <4>3. ReadSoFar(q) = q.size
        BY <1>0, <1>2, <2>2, <3>6 DEF ReadSoFar, VectorCursor, GoodQuery, QueryType
      <4>4. ReadSoFar(moved) = q.size
        BY <1>0, <3>5, <3>6 DEF QueryType
      <4>5. Exhausted(moved)
        BY <1>2, <2>0, <2>2, <3>3, <3>6 DEF Exhausted
      <4>6. QED
        BY <1>2, <2>2, <3>3, <3>4, <4>2, <4>3, <4>4, <4>5 DEF FetchFacts
    <3>7. CASE c # q.size
      <4>1. f = <<"AI_SUCCESS", c + 1, moved>>
        BY <1>2, <2>2, <3>7 DEF VectorFetches
      <4>2. f[1] = "AI_SUCCESS" /\ f[2] = c + 1 /\ f[3] = moved /\ c + 1 \in Nat
        BY <4>1, <3>1
      <4>3. ReadSoFar(q) = c
        BY <1>0, <1>2, <2>2, <3>1, <3>7 DEF ReadSoFar, VectorCursor, GoodQuery, QueryType
      <4>4. ReadSoFar(moved) = c + 1
        BY <1>0, <3>1, <3>5, <3>7 DEF QueryType
      <4>5. ~Exhausted(q)
        BY <1>0, <1>2, <3>1, <3>7 DEF Exhausted, VectorCursor, QueryType
      <4>6. c + 1 # NoRow
        BY <3>1 DEF NoRow
      <4>7. QED
        BY <1>2, <2>2, <3>3, <3>4, <4>2, <4>3, <4>4, <4>5, <4>6 DEF FetchFacts
    <3>8. QED
      BY <3>6, <3>7
  <2>3. QED
    BY <2>1, <2>2
<1>3. CASE q.kind = "tables" /\ q.executed /\ q.size = 0
  <2>1. f = NoData(q)
    BY <1>3 DEF Fetches, TableFetches
  <2>2. Exhausted(q)
    BY <1>0, <1>3 DEF Exhausted, GoodQuery, QueryType
  <2>3. QED
    BY <2>1, <2>2, NoDataLemma
<1>4. CASE q.kind = "empty"
  <2>1. f = NoData(q)
    BY <1>4 DEF Fetches, EmptyFetches
  <2>2. Exhausted(q)
    BY <1>4 DEF Exhausted, Vector
  <2>3. QED
    BY <2>1, <2>2, NoDataLemma
<1>5. QED
  BY <1>0, <1>1, <1>2, <1>3, <1>4 DEF Fetches, TableFetches, QueryKind, Vector

-----------------------------------------------------------------------------
(* The invariant *)

\* The initial state satisfies the invariant.
LEMMA StatementInit == Init => StatementInv
<1> SUFFICES ASSUME Init PROVE StatementInv
  OBVIOUS
<1> USE DEF Init
<1>1. GoodQuery(query) /\ ~query.executed /\ query.kind = "none"
  BY NewFacts DEF NoQuery, QueryKind
<1>2. StatementTypeOK
  <2>1. /\ consumed \in Seq(Nat) /\ rowStatuses \in Seq(RowResult)
        /\ rowset \in Seq(Nat) /\ Len(rowset) = Len(rowStatuses)
    OBVIOUS
  <2>2. Idle /\ rowArraySize \in Nat
    BY DEF Idle
  <2>3. QED
    BY <1>1, <2>1, <2>2 DEF StatementTypeOK, Idle
<1>3. CursorCounts
  BY <1>1 DEF CursorCounts
<1>4. RowsInOrder /\ NoRowMeansEnd /\ EndIsFinal /\ StatusTellsRow
  BY DEF RowsInOrder, NoRowMeansEnd, EndIsFinal, StatusTellsRow, Idle
<1>5. QED
  BY <1>2, <1>3, <1>4 DEF StatementInv

\* A call that leaves the rowset alone preserves what is said about it.
LEMMA ArraysStep ==
    ASSUME StatementInv, Idle, UNCHANGED <<arrays, fetching>>
    PROVE  NoRowMeansEnd' /\ EndIsFinal' /\ StatusTellsRow'
BY DEF StatementInv, NoRowMeansEnd, EndIsFinal, StatusTellsRow, arrays, Idle

\* An execution: nothing of the result has been read.
LEMMA RunStep ==
    ASSUME StatementInv, Idle, NEW q, GoodQuery(q), q.kind # "none",
           NEW info \in BOOLEAN, Run(q, info)
    PROVE  StatementInv'
<1>1. PICK e \in Executions(q) :
         /\ query' = e[2]
         /\ ret' = IF info /\ e[1] = "AI_NO_DATA"
                   THEN "AI_SUCCESS_WITH_INFO" ELSE e[1]
  BY DEF Run
<1>2. /\ consumed' = <<>>
      /\ UNCHANGED <<rowArraySize, arrays, fetching>>
  BY DEF Run
<1>3. /\ GoodQuery(query') /\ query'.kind = q.kind
      /\ query'.executed => query'.cursor = 0 /\ ~query'.fetched
  BY <1>1, ExecutionFacts
<1>4. StatementTypeOK'
  BY <1>2, <1>3 DEF StatementInv, StatementTypeOK, Idle, arrays
<1>6. RowsInOrder'
  BY <1>2 DEF RowsInOrder
<1>7. CursorCounts'
  BY <1>2, <1>3 DEF CursorCounts, ReadSoFar
<1>8. QED
  BY <1>2, <1>4, <1>6, <1>7, ArraysStep DEF StatementInv

\* A query that is closed has no result to count the rows of.
LEMMA ClosedStep ==
    ASSUME StatementInv, Idle, GoodQuery(query'), ~query'.executed,
           consumed' \in {consumed, <<>>},
           UNCHANGED <<rowArraySize, arrays, fetching>>
    PROVE  StatementInv'
<1>1. StatementTypeOK'
  <2>1. CASE consumed' = consumed
    BY <2>1 DEF StatementInv, StatementTypeOK, Idle, arrays
  <2>2. CASE consumed' = <<>>
    BY <2>2 DEF StatementInv, StatementTypeOK, Idle, arrays
  <2>3. QED
    BY <2>1, <2>2
<1>2. CursorCounts'
  BY DEF CursorCounts
<1>3. RowsInOrder'
  BY DEF RowsInOrder, StatementInv
<1>4. QED
  BY <1>1, <1>2, <1>3, ArraysStep DEF StatementInv

\* A call that only answers.
LEMMA AnswerStep ==
    ASSUME StatementInv, Idle, UNCHANGED <<result, arrays, fetching>>,
           rowArraySize' \in Nat
    PROVE  StatementInv'
<1>1. StatementTypeOK'
  BY DEF StatementInv, StatementTypeOK, Idle, arrays, result
<1>2. CursorCounts' /\ RowsInOrder'
  BY DEF StatementInv, CursorCounts, RowsInOrder, result
<1>3. QED
  BY <1>1, <1>2, ArraysStep DEF StatementInv

\* A statement holds no query exactly when its kind says so.
LEMMA HeldQuery ==
    ASSUME StatementInv
    PROVE  /\ GoodQuery(query) /\ (query = NoQuery <=> query.kind = "none")
           /\ rowArraySize \in Nat
BY NewFacts DEF StatementInv, StatementTypeOK, GoodQuery, NoQuery, QueryKind

\* One turn of the loop of InternalFetchRow.
LEMMA FetchStep == ASSUME StatementInv, FetchElement PROVE StatementInv'
<1>1. PICK f \in Fetches(query) :
         /\ query' = f[3]
         /\ rowStatuses' = Append(rowStatuses, SqlResultToRowResult(f[1]))
         /\ rowset' = Append(rowset, f[2])
         /\ consumed' = IF f[2] = NoRow THEN consumed ELSE Append(consumed, f[2])
  BY DEF FetchElement
<1>2. /\ UNCHANGED <<rowArraySize, rowsFetched, fetching, rowCount, ret>>
      /\ ~Idle
  BY DEF FetchElement
<1>t. StatementTypeOK
  BY DEF StatementInv
<1>3. /\ GoodQuery(query) /\ query.kind # "none"
      /\ Vector(query) /\ query.executed /\ ~query.fetched => query.cursor = 0
  BY <1>2, HeldQuery DEF StatementInv, CursorCounts, StatementTypeOK
<1>4. FetchFacts(query, f)
  BY <1>3, FetchLemma
<1> DEFINE s == SqlResultToRowResult(f[1])
<1>5. /\ s \in RowResult
      /\ s = "SQL_ROW_SUCCESS" => f[2] # NoRow
      /\ s = "SQL_ROW_NOROW" <=> f[1] = "AI_NO_DATA"
  BY <1>4 DEF FetchFacts, SqlResultToRowResult, RowResult
<1> HIDE DEF s
<1>6. /\ rowStatuses' = Append(rowStatuses, s) /\ rowset' = Append(rowset, f[2])
      /\ rowStatuses \in Seq(RowResult) /\ rowset \in Seq(Nat) /\ f[2] \in Nat
      /\ Len(rowset) = Len(rowStatuses) /\ consumed \in Seq(Nat)
  BY <1>1, <1>4, <1>t DEF s, FetchFacts, StatementTypeOK
<1>7. StatementTypeOK'
  <2>1. query' # NoQuery
    BY <1>1, <1>3, <1>4, NewFacts DEF FetchFacts, NoQuery, QueryKind
  <2>2. /\ rowStatuses' \in Seq(RowResult) /\ rowset' \in Seq(Nat)
        /\ Len(rowset') = Len(rowStatuses') /\ consumed' \in Seq(Nat)
    BY <1>1, <1>5, <1>6
  <2>3. QED
    BY <1>1, <1>2, <1>4, <1>t, <2>1, <2>2 DEF StatementTypeOK, FetchFacts, Idle
<1>9. CursorCounts' /\ RowsInOrder'
  <2>1. CASE f[2] = NoRow
    <3>1. consumed' = consumed
      BY <1>1, <2>1
    <3>2. RowsInOrder'
      BY <3>1 DEF StatementInv, RowsInOrder
    <3>3. CursorCounts'
      BY <1>1, <1>4, <2>1, <3>1 DEF StatementInv, CursorCounts, FetchFacts, Vector
    <3>4. QED
      BY <3>2, <3>3
  <2>2. CASE f[2] # NoRow
    <3>1. consumed' = Append(consumed, f[2]) /\ f[2] = Len(consumed) + 1
      BY <1>1, <1>4, <2>2 DEF FetchFacts, StatementInv, CursorCounts
    <3>2. RowsInOrder'
      BY <1>6, <3>1 DEF StatementInv, RowsInOrder
    <3>3. Len(consumed') = Len(consumed) + 1
      BY <1>6, <3>1
    <3>4. CursorCounts'
      BY <1>1, <1>4, <2>2, <3>3 DEF StatementInv, CursorCounts, FetchFacts, Vector
    <3>5. QED
      BY <3>2, <3>4
  <2>3. QED
    BY <2>1, <2>2
<1>10. DOMAIN rowStatuses' = 1 .. Len(rowStatuses) + 1
  BY <1>5, <1>6
<1>11. /\ \A i \in DOMAIN rowStatuses :
            rowStatuses'[i] = rowStatuses[i] /\ rowset'[i] = rowset[i]
       /\ rowStatuses'[Len(rowStatuses) + 1] = s
       /\ rowset'[Len(rowStatuses) + 1] = f[2]
       /\ DOMAIN rowStatuses = 1 .. Len(rowStatuses) /\ Len(rowStatuses) \in Nat
  BY <1>5, <1>6
<1>12. StatusTellsRow'
  BY <1>4, <1>5, <1>10, <1>11 DEF StatementInv, StatusTellsRow, FetchFacts
<1>13. NoRowMeansEnd' /\ EndIsFinal'
  <2>1. ASSUME NEW i \in DOMAIN rowStatuses, rowStatuses[i] = "SQL_ROW_NOROW"
        PROVE  f[1] = "AI_NO_DATA" /\ s = "SQL_ROW_NOROW"
    BY <1>2, <1>4, <1>5, <2>1 DEF StatementInv, NoRowMeansEnd, FetchFacts
  <2>2. EndIsFinal'
    BY <2>1, <1>10, <1>11 DEF StatementInv, EndIsFinal
  <2>3. NoRowMeansEnd'
    BY <1>1, <1>4, <1>5, <2>1, <1>10, <1>11 DEF NoRowMeansEnd, FetchFacts
  <2>4. QED
    BY <2>2, <2>3
<1>14. QED
  BY <1>7, <1>9, <1>12, <1>13 DEF StatementInv

\* Every call preserves the invariant.
LEMMA StatementStep == ASSUME StatementInv, [Next]_vars PROVE StatementInv'
<1>h. /\ GoodQuery(query) /\ (query = NoQuery <=> query.kind = "none")
      /\ rowArraySize \in Nat
  BY HeldQuery
<1>d. /\ GoodQuery(NewQuery("data")) /\ ~NewQuery("data").executed
      /\ NewQuery("data").kind = "data"
  BY NewFacts DEF QueryKind
<1>1. CASE PrepareSqlQuery
  BY <1>1, <1>d, ClosedStep, <1>h DEF PrepareSqlQuery
<1>2. CASE ExecDirect
  BY <1>2, <1>d, RunStep DEF ExecDirect
<1>3. CASE ExecuteSqlQuery
  <2>1. CASE query = NoQuery
    BY <1>3, <2>1, AnswerStep, <1>h DEF ExecuteSqlQuery
  <2>2. CASE query # NoQuery
    BY <1>3, <2>2, RunStep, <1>h DEF ExecuteSqlQuery
  <2>3. QED
    BY <2>1, <2>2
<1>4. CASE ExecuteCatalogQuery
  <2>1. PICK k \in Kinds \ {"data"} : Run(NewQuery(k), FALSE)
    BY <1>4 DEF ExecuteCatalogQuery
  <2>2. k \in QueryKind /\ k # "none"
    BY KindsAssumption DEF QueryKind
  <2>3. QED
    BY <1>4, <2>1, <2>2, NewFacts, RunStep DEF ExecuteCatalogQuery
<1>5. CASE Refused
  BY <1>5, <1>h, AnswerStep DEF Refused
<1>6. CASE CancelSqlQuery
  BY <1>6, <1>h, AnswerStep, ClosedStep, CloseFacts DEF CancelSqlQuery, result
<1>7. CASE Close
  BY <1>7, <1>h, AnswerStep, ClosedStep, CloseFacts DEF Close, result
<1>8. CASE SetRowArraySize
  BY <1>8, AnswerStep, StatementBounds DEF SetRowArraySize
<1>9. CASE GetColumnData
  BY <1>9, <1>h, AnswerStep DEF GetColumnData
<1>10. CASE FetchRow
  <2>1. StatementTypeOK'
    BY <1>10 DEF FetchRow, StatementInv, StatementTypeOK, Idle, result
  <2>2. CursorCounts' /\ RowsInOrder'
    BY <1>10 DEF FetchRow, StatementInv, CursorCounts,
         RowsInOrder, result
  <2>3. NoRowMeansEnd' /\ EndIsFinal' /\ StatusTellsRow'
    BY <1>10 DEF FetchRow, NoRowMeansEnd, EndIsFinal, StatusTellsRow
  <2>4. QED
    BY <2>1, <2>2, <2>3 DEF StatementInv
<1>11. CASE FetchElement
  BY <1>11, FetchStep
<1>12. CASE FetchDone
  <2>1. UNCHANGED <<result, rowArraySize, rowStatuses, rowset>> /\ fetching' = "no"
    BY <1>12 DEF FetchDone
  <2>2. StatementTypeOK'
    BY <2>1 DEF StatementInv, StatementTypeOK, Idle, result
  <2>3. CursorCounts' /\ RowsInOrder'
    BY <2>1 DEF StatementInv, CursorCounts, RowsInOrder, result
  <2>4. NoRowMeansEnd' /\ EndIsFinal' /\ StatusTellsRow'
    BY <2>1 DEF StatementInv, NoRowMeansEnd, EndIsFinal, StatusTellsRow, Idle
  <2>5. QED
    BY <2>2, <2>3, <2>4 DEF StatementInv
<1>13. CASE UNCHANGED vars
  <2>1. StatementTypeOK'
    BY <1>13 DEF vars, StatementInv, StatementTypeOK, Idle
  <2>2. CursorCounts' /\ RowsInOrder'
    BY <1>13 DEF vars, StatementInv, CursorCounts, RowsInOrder
  <2>3. NoRowMeansEnd' /\ EndIsFinal' /\ StatusTellsRow'
    BY <1>13 DEF vars, StatementInv, NoRowMeansEnd, EndIsFinal, StatusTellsRow, Idle
  <2>4. QED
    BY <2>1, <2>2, <2>3 DEF StatementInv
<1>14. QED
  BY <1>1, <1>2, <1>3, <1>4, <1>5, <1>6, <1>7, <1>8, <1>9, <1>10, <1>11, <1>12,
     <1>13 DEF Next

-----------------------------------------------------------------------------
(* The theorems *)

\* The invariant holds of every behaviour of a statement: an inductive invariant
\* of the calls, over results and rowsets of any size.
THEOREM StatementSafe == Spec => []StatementInv
<1>1. Init => StatementInv
  BY StatementInit
<1>2. StatementInv /\ [Next]_vars => StatementInv'
  BY StatementStep
<1>3. QED
  BY <1>1, <1>2, PTL DEF Spec

\* FetchNextRow hands out the rows 1, 2, 3, ... of the result, over any mixture
\* of rowsets, failed rows and executions.
THEOREM ReadInOrder == Spec => []RowsInOrder
<1>1. StatementInv => RowsInOrder
  BY DEF StatementInv
<1>2. QED
  BY <1>1, StatementSafe, PTL

\* The loop of InternalFetchRow never puts a row behind an element without one.
THEOREM NoRowAfterTheEnd == Spec => []EndIsFinal
<1>1. StatementInv => EndIsFinal
  BY DEF StatementInv
<1>2. QED
  BY <1>1, StatementSafe, PTL

\* RowNumber of a catalog query is the number of rows read to get to the row
\* under its cursor.
THEOREM RowNumberIsCount == Spec => []RowNumberCounts
<1>1. StatementInv => RowNumberCounts
  BY DEF StatementInv, RowNumberCounts, CursorCounts, ReadSoFar, RowNumber,
       DataAvailable
<1>2. QED
  BY <1>1, StatementSafe, PTL

\* The elements of a status are finitely many, so counting them tells whether
\* there is one.
LEMMA ElementsCounted ==
    ASSUME StatementTypeOK, NEW status
    PROVE  /\ Cardinality(Elements(status)) \in Nat
           /\ Cardinality(Elements(status)) > 0 <=> Elements(status) # {}
<1>1. DOMAIN rowStatuses = 1 .. Len(rowStatuses) /\ Len(rowStatuses) \in Nat
  BY DEF StatementTypeOK
<1>2. IsFiniteSet(DOMAIN rowStatuses)
  BY <1>1, FS_Interval
<1>3. IsFiniteSet(Elements(status))
  BY <1>2, FS_Subset DEF Elements
<1>4. QED
  BY <1>3, FS_CardinalityType, FS_EmptySet

\* A fetch answers with success exactly when it read a row, and with SQL_NO_DATA
\* only when every row of the open result has been read.
THEOREM FetchTellsTheTruth == Spec => FetchAnswers
<1> DEFINE Answer ==
      ~Idle /\ Idle' /\ rowArraySize > 0 =>
        /\ ret' \in Succeeded
             <=> \E i \in DOMAIN rowset :
                   rowset[i] # NoRow /\ rowStatuses[i] # "SQL_ROW_ERROR"
        /\ ret' = "AI_NO_DATA" /\ query.executed
             => Len(consumed) = query.size
<1>1. ASSUME StatementInv, [Next]_vars PROVE [Answer]_vars
  <2> SUFFICES ASSUME ~Idle, Idle', rowArraySize > 0 PROVE Answer
    OBVIOUS
  <2>1. FetchDone
    BY <1>1 DEF Next, vars, Idle, PrepareSqlQuery, ExecDirect, ExecuteSqlQuery,
         ExecuteCatalogQuery, Refused, CancelSqlQuery, Close, SetRowArraySize,
         GetColumnData, FetchRow, FetchElement
  <2> DEFINE fetched == Cardinality(Elements(GoodRow))
             errors  == Cardinality(Elements({"SQL_ROW_ERROR"}))
  <2>2. Len(rowStatuses) = rowArraySize /\ ret' = FetchResult(fetched, errors)
    BY <2>1 DEF FetchDone
  <2>t. StatementTypeOK
    BY <1>1 DEF StatementInv
  <2>3. /\ fetched \in Nat /\ (fetched > 0 <=> Elements(GoodRow) # {})
        /\ errors \in Nat /\ (errors > 0 <=> Elements({"SQL_ROW_ERROR"}) # {})
    BY <2>t, ElementsCounted
  <2> HIDE DEF fetched, errors
  <2>4. /\ ret' \in Succeeded <=> fetched > 0
        /\ ret' = "AI_NO_DATA" <=> fetched = 0 /\ errors = 0
    BY <2>2, <2>3 DEF FetchResult, Succeeded
  <2>5. /\ DOMAIN rowset = 1 .. Len(rowStatuses)
        /\ DOMAIN rowStatuses = 1 .. Len(rowStatuses)
        /\ \A i \in DOMAIN rowStatuses : rowStatuses[i] \in RowResult
    BY <2>t DEF StatementTypeOK
  <2>6. \A i \in DOMAIN rowStatuses :
           (rowset[i] # NoRow /\ rowStatuses[i] # "SQL_ROW_ERROR")
             <=> i \in Elements(GoodRow)
    BY <1>1, <2>5 DEF StatementInv, StatusTellsRow, Elements, GoodRow, RowResult
  <2>7. ret' \in Succeeded
          <=> \E i \in DOMAIN rowset :
                rowset[i] # NoRow /\ rowStatuses[i] # "SQL_ROW_ERROR"
    BY <2>3, <2>4, <2>5, <2>6 DEF Elements
  <2>8. ASSUME ret' = "AI_NO_DATA", query.executed
        PROVE  Len(consumed) = query.size
    <3>1. 1 \in DOMAIN rowStatuses
      BY <2>2, <2>5, <2>t DEF StatementTypeOK
    <3>2. 1 \notin Elements(GoodRow) /\ 1 \notin Elements({"SQL_ROW_ERROR"})
      BY <2>3, <2>4, <2>8
    <3>3. rowStatuses[1] = "SQL_ROW_NOROW"
      BY <2>5, <3>1, <3>2 DEF Elements, GoodRow, RowResult
    <3>4. Exhausted(query)
      BY <1>1, <3>1, <3>3 DEF StatementInv, NoRowMeansEnd
    <3>5. query.cursor = query.size
      BY <2>8, <2>t, <3>4 DEF Exhausted, StatementTypeOK, GoodQuery, QueryType,
           QueryKind, Vector
    <3>6. QED
      BY <1>1, <2>8, <2>t, <3>5 DEF StatementInv, CursorCounts, ReadSoFar,
           StatementTypeOK, GoodQuery, QueryType
  <2>9. QED
    BY <2>7, <2>8
<1>2. QED
  BY <1>1, StatementSafe, PTL DEF Spec, FetchAnswers
=============================================================================
