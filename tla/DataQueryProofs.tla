--------------------------- MODULE DataQueryProofs ---------------------------
(* Proofs about DataQuery, for every set of results, every set of threads  *)
(* and every number of executions.                                         *)
EXTENDS DataQuery, SequenceTheorems, TLAPS

-----------------------------------------------------------------------------
(* What the proofs use about sequences *)

LEMMA AppendFacts ==
    ASSUME NEW S, NEW s \in Seq(S), NEW e \in S
    PROVE  /\ Append(s, e) \in Seq(S)
           /\ Append(s, e) # <<>>
           /\ Len(Append(s, e)) = Len(s) + 1
           /\ s = <<>> => Append(s, e) = <<e>> /\ Len(Append(s, e)) = 1
<1>1. Append(s, e) \in Seq(S) /\ Append(s, e) # <<>> /\ Len(Append(s, e)) = Len(s) + 1
  BY AppendProperties
<1>2. ASSUME s = <<>> PROVE Append(s, e) = <<e>> /\ Len(Append(s, e)) = 1
  BY <1>1, <1>2, EmptySeq
<1>3. QED  BY <1>1, <1>2

LEMMA TailFacts ==
    ASSUME NEW S, NEW s \in Seq(S), s # <<>>
    PROVE  /\ Tail(s) \in Seq(S)
           /\ Head(s) \in S
           /\ Len(Tail(s)) = Len(s) - 1
           /\ Len(s) <= 1 => Tail(s) = <<>> /\ s = <<Head(s)>>
<1>1. Tail(s) \in Seq(S) /\ Head(s) \in S /\ Len(Tail(s)) = Len(s) - 1
  BY HeadTailProperties
<1>2. Len(s) \in Nat \ {0}
  BY EmptySeq
<1>3. ASSUME Len(s) <= 1 PROVE Tail(s) = <<>> /\ s = <<Head(s)>>
  <2>1. Len(s) = 1 /\ Len(Tail(s)) = 0
    BY <1>1, <1>2, <1>3
  <2>2. Tail(s) = <<>>
    BY <1>1, <2>1, EmptySeq
  <2>3. s = <<Head(s)>>
    BY <2>1, <1>1
  <2>4. QED  BY <2>2, <2>3
<1>4. QED  BY <1>1, <1>3

LEMMA LengthFacts ==
    ASSUME NEW S, NEW s \in Seq(S)
    PROVE  /\ Len(s) \in Nat
           /\ (Len(s) = 0) <=> (s = <<>>)
BY EmptySeq, LenProperties
-----------------------------------------------------------------------------
(* The result has a first page, and the page after one that is not the     *)
(* last is a page.                                                         *)
LEMMA PageFacts ==
    ASSUME pages \in Results
    PROVE  /\ Len(pages) \in Nat \ {0}
           /\ pages \in [Page -> Nat]
           /\ \A p \in Outcome : NextToken(p) \in Outcome
           /\ token \in Outcome => Query \subseteq Outcome /\ Requested \in Page
<1>1. pages \in Seq(Nat) /\ pages # <<>>
  BY ResultsAssumption
<1>2. Len(pages) \in Nat \ {0} /\ pages \in [Page -> Nat]
  BY <1>1, EmptySeq, LenProperties DEF Page
<1>3. QED
  BY <1>2 DEF Page, Outcome, NextToken, NoToken, Query, Requested, Failed

\* ReadRow keeps the types of what it writes.
LEMMA ReadRowTypes ==
    ASSUME TypeOK, NEW p \in Nat, NEW r \in Nat, ReadRow(p, r)
    PROVE  /\ consumed' \in Seq(Nat \X Nat) /\ rowCounter' \in Nat
           /\ pc' = "idle" /\ next' = next /\ ret' \in {"AI_SUCCESS", "AI_ERROR"}
<1>1. <<p, r>> \in Nat \X Nat
  OBVIOUS
<1>2. consumed \in Seq(Nat \X Nat) /\ rowCounter \in Nat
  BY DEF TypeOK
<1>3. consumed' = Append(consumed, <<p, r>>)
  BY DEF ReadRow
<1>4. consumed' \in Seq(Nat \X Nat)
  BY <1>1, <1>2, <1>3, AppendProperties
<1>5. QED
  BY <1>2, <1>4 DEF ReadRow, Return

\* Every action keeps the types.
LEMMA TypeStep == TypeOK /\ [Next]_vars => TypeOK'
<1> SUFFICES ASSUME TypeOK, [Next]_vars PROVE TypeOK'
  OBVIOUS
<1> USE BoundAssumption DEF TypeOK, vars, request, position, context, pool,
        call, Page, Outcome, NoToken, NoPage, Failed, Returned, Control
<1>1. CASE Execute
  <2>1. consumed' \in Seq(Nat \X Nat)
    BY <1>1, EmptySeq DEF Execute
  <2>2. executions' \in 0 .. MaxExecute
    BY <1>1 DEF Execute
  <2>3. QED  BY <1>1, <2>1, <2>2 DEF Execute, BeginClose
<1>2. CASE ExecuteFails
  BY <1>2 DEF ExecuteFails, BeginClose
<1>3. CASE ExecuteEmptyPage
  BY <1>3, PageFacts DEF ExecuteEmptyPage, Query, Requested, NextToken, Return
<1>4. CASE ExecutePage
  <2>1. PICK p \in Page : ExecutePage!2!(p)
    BY <1>4, PageFacts DEF ExecutePage, Query
  <2>2. CASE UNCHANGED <<token, pool, hasAsyncFetch>>
    BY <1>4, <2>1, <2>2 DEF ExecutePage, Return
  <2>3. CASE StartWorker(NextToken(p), threads) /\ hasAsyncFetch' = TRUE
    <3>1. token' \in Outcome /\ threads' \in Seq(Thread) /\ fetched' = fetched
          /\ worker' \in [Thread -> {"querying", "holding", "ended"}]
      BY <2>3, AppendFacts, PageFacts DEF StartWorker, Launch
    <3>2. QED  BY <1>4, <2>1, <2>3, <3>1 DEF ExecutePage, Return
  <2>4. QED  BY <2>1, <2>2, <2>3
<1>5. CASE FetchNoData
  BY <1>5 DEF FetchNoData, Return
<1>6. CASE FetchRow
  BY <1>6, ReadRowTypes DEF FetchRow
<1>7. CASE FetchEndOfPage
  BY <1>7 DEF FetchEndOfPage
<1>8. CASE SwitchCursorWait
  BY <1>8 DEF SwitchCursorWait
<1>9. CASE SwitchCursorStops
  <2>1. queue' \in Seq(Outcome) /\ Head(queue) \in Outcome
    BY <1>9, TailFacts DEF SwitchCursorStops
  <2>2. /\ pages' = pages
        /\ \/ result' = result /\ cursor' = NoPage /\ curPos' = 0
           \/ result' = Head(queue) /\ cursor' = cursor /\ curPos' = curPos
    BY <1>9 DEF SwitchCursorStops
  <2>3. hasAsyncFetch' \in BOOLEAN /\ pc' \in Control /\ ret' \in Returned /\ next' = next
    BY <1>9 DEF SwitchCursorStops, Return
  <2>4. UNCHANGED <<token, resultMetaAvailable, rowCounter, isClosing, waiters, threads,
                    worker, fetched, executions, consumed>>
    BY <1>9 DEF SwitchCursorStops
  <2>5. QED  BY <2>1, <2>2, <2>3, <2>4
<1>10. CASE SwitchCursorPage
  <2>1. queue' \in Seq(Outcome) /\ Head(queue) \in Outcome
    BY <1>10, TailFacts DEF SwitchCursorPage
  <2>2. CASE ReadRow(Head(queue), 1) /\ hasAsyncFetch' = FALSE
    <3>1. /\ consumed' \in Seq(Nat \X Nat) /\ rowCounter' \in Nat
          /\ pc' = "idle" /\ next' = next /\ ret' \in {"AI_SUCCESS", "AI_ERROR"}
      <4>1. Head(queue) \in Nat /\ 1 \in Nat
        BY <2>1
      <4>2. QED  BY <2>2, <4>1, ReadRowTypes
    <3>2. QED  BY <1>10, <2>1, <2>2, <3>1 DEF SwitchCursorPage
  <2>3. CASE pc' = "join" /\ UNCHANGED <<hasAsyncFetch, consumed, rowCounter, next, ret>>
    BY <1>10, <2>1, <2>3 DEF SwitchCursorPage
  <2>4. QED  BY <1>10, <2>2, <2>3 DEF SwitchCursorPage
<1>11. CASE SwitchCursorPrefetch
  <2> DEFINE kept == IF threads = <<>> THEN <<>> ELSE Tail(threads)
  <2>1. kept \in Seq(Thread)
    BY TailFacts, EmptySeq
  <2>2. token' \in Outcome /\ threads' \in Seq(Thread) /\ fetched' = fetched
        /\ worker' \in [Thread -> {"querying", "holding", "ended"}]
    <3> HIDE DEF kept
    <3>1. StartWorker(NextToken(result), kept)
      BY <1>11 DEF SwitchCursorPrefetch, kept
    <3>2. QED  BY <2>1, <3>1, AppendFacts, PageFacts DEF StartWorker, Launch
  <2>3. /\ consumed' \in Seq(Nat \X Nat) /\ rowCounter' \in Nat
        /\ pc' = "idle" /\ next' = next /\ ret' \in {"AI_SUCCESS", "AI_ERROR"}
    <3>1. cursor \in Nat /\ curPos \in Nat /\ ReadRow(cursor, curPos)
      BY <1>11 DEF SwitchCursorPrefetch
    <3>2. QED  BY <3>1, ReadRowTypes
  <2>4. QED  BY <1>11, <2>2, <2>3 DEF SwitchCursorPrefetch
<1>12. CASE Cancel
  BY <1>12 DEF Cancel, BeginClose, Return
<1>13. CASE Close
  BY <1>13 DEF Close, BeginClose
<1>14. CASE GetMeta
  BY <1>14 DEF GetMeta, BeginClose, Return
<1>15. CASE GetColumn
  BY <1>15 DEF GetColumn, Return
<1>16. CASE Destroy
  BY <1>16 DEF Destroy, BeginClose
<1>17. CASE CloseJoin
  BY <1>17, TailFacts DEF CloseJoin
<1>18. CASE CloseDone
  BY <1>18 DEF CloseDone
<1>19. ASSUME NEW t \in Thread, WorkerQuery(t) PROVE TypeOK'
  BY <1>19, PageFacts DEF WorkerQuery
<1>20. ASSUME NEW t \in Thread, WorkerDeliver(t) PROVE TypeOK'
  <2>1. queue' \in Seq(Outcome)
    BY <1>20, AppendFacts DEF WorkerDeliver
  <2>2. waiters' \subseteq Thread \cup {App}
    BY <1>20 DEF WorkerDeliver, NotifyOne
  <2>3. worker' \in [Thread -> {"querying", "holding", "ended"}]
    BY <1>20 DEF WorkerDeliver
  <2>4. QED  BY <1>20, <2>1, <2>2, <2>3 DEF WorkerDeliver
<1>21. ASSUME NEW w \in Thread \cup {App}, SpuriousWakeup(w) PROVE TypeOK'
  BY <1>21 DEF SpuriousWakeup
<1>22. CASE UNCHANGED vars
  BY <1>22
<1>23. QED
  BY <1>1, <1>2, <1>3, <1>4, <1>5, <1>6, <1>7, <1>8, <1>9, <1>10, <1>11, <1>12, <1>13, <1>14, <1>15, <1>16, <1>17, <1>18, <1>19, <1>20, <1>21, <1>22 DEF Next, Destroyed

LEMMA TypeInit == Init => TypeOK
<1> SUFFICES ASSUME Init PROVE TypeOK
  OBVIOUS
<1>1. queue \in Seq(Outcome) /\ threads \in Seq(Thread) /\ consumed \in Seq(Nat \X Nat)
  BY EmptySeq DEF Init
<1>2. executions \in 0 .. MaxExecute
  BY BoundAssumption DEF Init
<1>3. QED
  BY <1>1, <1>2 DEF Init, TypeOK, Outcome, NoToken, NoPage, Failed, Returned, Control

\* The variables of a query always have their types.
THEOREM TypeCorrect == Spec => []TypeOK
BY TypeInit, TypeStep, PTL DEF Spec

-----------------------------------------------------------------------------
(* Threads, queue and request *)

\* Every action keeps the inductive invariant.
LEMMA IndStep == IndInv /\ [Next]_vars => IndInv'
<1> SUFFICES ASSUME IndInv, [Next]_vars PROVE IndInv'
  OBVIOUS
<1> DEFINE Rest == /\ OneWorker /\ ThreadsHaveResult /\ DestroyedQuiet
                   /\ OneOutcomeQueued /\ WorkersNeverSleep
                   /\ LeftoverMeansClosing /\ ExecuteAlone /\ JoinAfterPop
<1>0. TypeOK /\ TypeOK' /\ Rest
  BY TypeStep DEF IndInv
<1> SUFFICES Rest'
  BY <1>0 DEF IndInv
<1>t. /\ threads \in Seq(Thread) /\ queue \in Seq(Outcome) /\ result \in Outcome
      /\ worker \in [Thread -> {"querying", "holding", "ended"}]
      /\ waiters \subseteq Thread \cup {App} /\ isClosing \in BOOLEAN
      /\ Len(threads) \in Nat /\ Len(queue) \in Nat
  BY <1>0, LengthFacts DEF TypeOK
<1> USE <1>0, <1>t DEF OneWorker, ThreadsHaveResult, DestroyedQuiet, OneOutcomeQueued,
        WorkersNeverSleep, LeftoverMeansClosing, ExecuteAlone, JoinAfterPop, Running
<1> USE DEF vars, request, position, context, pool, call, NoPage
<1>1. CASE Execute
  BY <1>1 DEF Execute, BeginClose
<1>2. CASE ExecuteFails
  BY <1>2 DEF ExecuteFails, BeginClose
<1>3. CASE ExecuteEmptyPage
  BY <1>3 DEF ExecuteEmptyPage, Query, Requested, Page, Return
<1>4. CASE ExecutePage
  <2>1. /\ pc = "MakeRequestExecute" /\ pc' = "idle" /\ result' # NoPage
        /\ UNCHANGED <<queue, waiters, isClosing>>
    BY <1>4 DEF ExecutePage, Query, Requested, Failed, Return
  <2>2. \A t \in Thread : worker[t] = "ended"
    BY <2>1
  <2>3. \/ UNCHANGED <<threads, worker>>
        \/ \E t \in Thread : threads' = <<t>> /\ worker' = [worker EXCEPT ![t] = "querying"]
    BY <1>4, <2>1 DEF ExecutePage, StartWorker, Launch
  <2>4. CASE UNCHANGED <<threads, worker>>
    BY <2>1, <2>2, <2>4
  <2>5. CASE \E t \in Thread : threads' = <<t>> /\ worker' = [worker EXCEPT ![t] = "querying"]
    <3>1. PICK t \in Thread : threads' = <<t>> /\ worker' = [worker EXCEPT ![t] = "querying"]
      BY <2>5
    <3>2. Len(threads') = 1
      BY <3>1
    <3>3. QED  BY <2>1, <2>2, <3>1, <3>2
  <2>6. QED  BY <2>3, <2>4, <2>5
<1>5. CASE FetchNoData
  BY <1>5 DEF FetchNoData, Return
<1>6. CASE FetchRow
  BY <1>6 DEF FetchRow, ReadRow, Return
<1>7. CASE FetchEndOfPage
  BY <1>7 DEF FetchEndOfPage
<1>8. CASE SwitchCursorWait
  BY <1>8 DEF SwitchCursorWait
<1>9. CASE SwitchCursorStops
  <2>1. queue' = <<>> /\ Len(queue') = 0
    BY <1>9, TailFacts, EmptySeq DEF SwitchCursorStops
  <2>2. result # NoPage => result' # NoPage
    BY <1>9 DEF SwitchCursorStops, Failed
  <2>3. UNCHANGED <<threads, worker, waiters, isClosing>> /\ pc' = "idle" /\ pc = "SwitchCursor"
    BY <1>9 DEF SwitchCursorStops, Return
  <2>4. QED  BY <2>1, <2>2, <2>3
<1>10. CASE SwitchCursorPage
  <2>1. queue # <<>> /\ queue' = <<>> /\ Len(queue') = 0
    BY <1>10, TailFacts, EmptySeq DEF SwitchCursorPage
  <2>2. result' # NoPage
    BY <1>10 DEF SwitchCursorPage, Failed
  <2>3. UNCHANGED <<threads, worker, waiters, isClosing>> /\ pc' \in {"idle", "join"}
    BY <1>10 DEF SwitchCursorPage, ReadRow, Return
  <2>4. QED  BY <2>1, <2>2, <2>3
<1>11. CASE SwitchCursorPrefetch
  <2>1. \A t \in Thread : worker[t] = "ended"
    <3> SUFFICES ASSUME NEW t \in Thread, worker[t] # "ended" PROVE FALSE
      OBVIOUS
    <3>1. threads = <<t>>
      OBVIOUS
    <3>2. threads # <<>> /\ Head(threads) = t
      BY <3>1
    <3>3. QED  BY <1>11, <3>2 DEF SwitchCursorPrefetch
  <2>2. PICK t \in Thread : threads' = <<t>> /\ worker' = [worker EXCEPT ![t] = "querying"]
    <3>1. (IF threads = <<>> THEN <<>> ELSE Tail(threads)) = <<>>
      BY TailFacts
    <3>2. StartWorker(NextToken(result), <<>>)
      BY <1>11, <3>1 DEF SwitchCursorPrefetch
    <3>3. QED  BY <3>2, AppendFacts, EmptySeq DEF StartWorker, Launch
  <2>3. UNCHANGED <<result, queue, waiters, isClosing>> /\ pc' = "idle" /\ pc = "join"
    BY <1>11 DEF SwitchCursorPrefetch, ReadRow, Return
  <2>4. Len(threads') = 1
    BY <2>2
  <2>5. QED  BY <2>1, <2>2, <2>3, <2>4
<1>12. CASE Cancel
  BY <1>12 DEF Cancel, BeginClose, Return
<1>13. CASE Close
  BY <1>13 DEF Close, BeginClose
<1>14. CASE GetMeta
  BY <1>14 DEF GetMeta, BeginClose, Return
<1>15. CASE GetColumn
  BY <1>15 DEF GetColumn, Return
<1>16. CASE Destroy
  BY <1>16 DEF Destroy, BeginClose
<1>17. CASE CloseJoin
  BY <1>17 DEF CloseJoin
<1>18. CASE CloseDone
  <2>1. next \in {"idle", "MakeRequestExecute", "destroyed"}
    BY DEF TypeOK
  <2>2. \A t \in Thread : worker[t] = "ended"
    BY <1>18 DEF CloseDone
  <2>3. threads = <<>> /\ isClosing
    BY <1>18 DEF CloseDone
  <2>4. UNCHANGED <<threads, worker, queue, waiters, isClosing>> /\ pc' = next
    BY <1>18 DEF CloseDone
  <2>5. QED  BY <2>1, <2>2, <2>3, <2>4
<1>19. ASSUME NEW t \in Thread, WorkerQuery(t) PROVE Rest'
  BY <1>19 DEF WorkerQuery
<1>20. ASSUME NEW t \in Thread, WorkerDeliver(t) PROVE Rest'
  BY <1>20 DEF WorkerDeliver, NotifyOne
<1>21. ASSUME NEW w \in Thread \cup {App}, SpuriousWakeup(w) PROVE Rest'
  BY <1>21 DEF SpuriousWakeup
<1>22. CASE UNCHANGED vars
  BY <1>22
<1>23. QED
  BY <1>1, <1>2, <1>3, <1>4, <1>5, <1>6, <1>7, <1>8, <1>9, <1>10, <1>11, <1>12, <1>13, <1>14, <1>15, <1>16, <1>17, <1>18, <1>19, <1>20, <1>21, <1>22 DEF Next, Destroyed

LEMMA IndInit == Init => IndInv
<1> SUFFICES ASSUME Init PROVE IndInv
  OBVIOUS
<1>1. TypeOK /\ Len(threads) = 0 /\ Len(queue) = 0
  BY TypeInit, EmptySeq DEF Init
<1>2. QED
  BY <1>1 DEF Init, IndInv, OneWorker, ThreadsHaveResult, DestroyedQuiet,
       OneOutcomeQueued, WorkersNeverSleep, LeftoverMeansClosing, ExecuteAlone,
       JoinAfterPop, Running

LEMMA IndCorrect == Spec => []IndInv
BY IndInit, IndStep, PTL DEF Spec

\* However calls, failures, empty pages and re-executions are interleaved with
\* the prefetch: at most one worker exists and threads_ holds it; the
\* destructor's test of result_ finds it; the queue never holds two outcomes.
THEOREM ThreadsAccounted ==
    Spec => [](OneWorker /\ ThreadsHaveResult /\ DestroyedQuiet /\ OneOutcomeQueued)
<1>1. IndInv => OneWorker /\ ThreadsHaveResult /\ DestroyedQuiet /\ OneOutcomeQueued
  BY DEF IndInv
<1>2. QED  BY <1>1, IndCorrect, PTL

\* No worker ever sleeps on the condition variable, which nobody would notify
\* for it: the joins of SwitchCursor and InternalClose wait only for a call of
\* the service.
THEOREM NoWorkerSleeps == Spec => []WorkersNeverSleep
<1>1. IndInv => WorkersNeverSleep
  BY DEF IndInv
<1>2. QED  BY <1>1, IndCorrect, PTL

\* The unlocked sharing of request_ with the worker is free of races: the
\* application writes it only while no worker is inside Query.
THEOREM RequestNeverRaces == Spec => RequestStable
<1> DEFINE Quiet == \A t \in Thread : worker[t] # "querying"
<1>1. ASSUME IndInv, Next,
             token' # token \/ (pc' = "MakeRequestExecute" /\ pc # pc')
      PROVE  Quiet
  <2> USE <1>1
  <2>1. CASE threads = <<>>
    BY <2>1 DEF IndInv, OneWorker
  <2>2. CASE threads # <<>> /\ SwitchCursorPrefetch
    BY <2>2 DEF SwitchCursorPrefetch, IndInv, OneWorker
  <2>3. CASE Execute
    BY <2>1, <2>3 DEF Execute, BeginClose, request, IndInv, ThreadsHaveResult
  <2>4. CASE ExecuteEmptyPage \/ ExecutePage \/ CloseDone
    BY <2>1, <2>4 DEF ExecuteEmptyPage, ExecutePage, CloseDone, IndInv, ExecuteAlone
  <2>5. QED
    BY <2>1, <2>2, <2>3, <2>4
       DEF Next, vars, request, call, ExecuteFails, BeginClose, FetchNoData, FetchRow,
           ReadRow, Return, FetchEndOfPage, SwitchCursorWait, SwitchCursorStops,
           SwitchCursorPage, Cancel, Close, GetMeta, GetColumn, Destroy, CloseJoin,
           WorkerQuery, WorkerDeliver, SpuriousWakeup, Destroyed
<1>2. IndInv /\ [Next]_vars =>
        [token' # token \/ (pc' = "MakeRequestExecute" /\ pc # pc') => Quiet]_vars
  BY <1>1
<1>3. QED
  BY <1>2, IndCorrect, PTL DEF Spec, RequestStable

-----------------------------------------------------------------------------
(* The delivery of rows by the first execution of a query.  A second one can *)
(* find the outcome that an earlier prefetch left in the queue, so every     *)
(* part says what holds while Execute was called once at most.               *)

\* Before Execute there is no result to read, and an InternalClose (GetMeta can
\* start one) does not return into an execution.
NothingExecuted ==
    /\ next # "MakeRequestExecute"
    /\ pc \in {"SwitchCursor", "join"} => cursor # NoPage
    /\ executions = 0 =>
        /\ pc \in {"idle", "InternalClose", "destroyed"}
        /\ result = NoPage /\ cursor = NoPage /\ token = NoToken
        /\ threads = <<>> /\ queue = <<>> /\ consumed = <<>> /\ ~hasAsyncFetch

\* MakeRequestExecute has found no row on the pages before the one it asks for.
ExecuteSkipsEmpty ==
    pc = "MakeRequestExecute" =>
        /\ cursor = NoPage /\ queue = <<>> /\ consumed = <<>> /\ ~hasAsyncFetch
        /\ \A q \in 1 .. Requested - 1 : pages[q] = 0

LastRead == consumed[Len(consumed)]

Reading == cursor # NoPage /\ pc \in {"idle", "SwitchCursor"}

\* The row read last is the one the cursor stands on, or the last of its page.
CursorAtLast ==
    Reading =>
        /\ pages[cursor] > 0
        /\ curPos = 0 => consumed = <<>> /\ FirstRow(<<cursor, 1>>)
        /\ curPos > 0 =>
             /\ consumed # <<>>
             /\ LastRead = <<cursor, IF curPos <= pages[cursor] THEN curPos
                                     ELSE pages[cursor]>>
        /\ pc = "SwitchCursor" => curPos > pages[cursor] /\ hasAsyncFetch

\* SwitchCursor has moved to the first row of the next page and not read it.
JoinBeforeRow ==
    pc = "join" =>
        /\ result = cursor /\ curPos = 1 /\ hasAsyncFetch
        /\ pages[cursor] > 0 /\ NextToken(cursor) # NoToken
        /\ queue = <<>> /\ ~Running
        /\ consumed # <<>> /\ RowAfter(LastRead, <<cursor, 1>>)

\* What is queued, held by the worker or asked for is the page after the
\* cursor's, and there is one such page at most.
NextPageAhead ==
    Reading =>
        /\ Running => queue = <<>>
        /\ queue # <<>> => Head(queue) \in {Failed, cursor + 1}
        /\ \A t \in Thread :
             /\ worker[t] = "querying" => token = cursor + 1
             /\ worker[t] = "holding" => fetched[t] \in {Failed, cursor + 1}

DeliveryParts ==
    /\ NothingExecuted /\ ExecuteSkipsEmpty /\ CursorAtLast
    /\ JoinBeforeRow /\ NextPageAhead /\ DeliveredInOrder

DeliveryInv == executions <= 1 => DeliveryParts

\* The service answers no page without rows behind one with rows.
SolidResults ==
    \A r \in Results : \A p, q \in DOMAIN r : p < q /\ r[p] > 0 => r[q] > 0

\* On such results a page that is not the last has its successor prefetched, and
\* "no data" is answered at the end of the last page only.
EndParts ==
    /\ PageOnItsWay
    /\ Reading /\ ~hasAsyncFetch => cursor = Len(pages)
    /\ Reading /\ pc = "idle" /\ ret = "AI_NO_DATA"
         => ~hasAsyncFetch /\ curPos > pages[cursor]
    /\ pc \in {"SwitchCursor", "join", "destroyed"} /\ cursor # NoPage
         => ret # "AI_NO_DATA"

EndInv == executions <= 1 => EndParts

\* Only Execute counts as an execution.
LEMMA ExecutionsGrow ==
    ASSUME TypeOK, [Next]_vars
    PROVE  /\ executions \in Nat
           /\ executions' = executions \/ (Execute /\ executions' = executions + 1)
<1>1. executions \in Nat
  BY BoundAssumption DEF TypeOK
<1>2. Execute => executions' = executions + 1
  BY DEF Execute
<1>3. ~Execute => executions' = executions
  BY DEF Next, vars, ExecuteFails, ExecuteEmptyPage, ExecutePage, FetchNoData, FetchRow,
       FetchEndOfPage, SwitchCursorWait, SwitchCursorStops, SwitchCursorPage,
       SwitchCursorPrefetch, Cancel, Close, GetMeta, GetColumn, Destroy, CloseJoin,
       CloseDone, WorkerQuery, WorkerDeliver, SpuriousWakeup, Destroyed
<1>4. QED  BY <1>1, <1>2, <1>3

\* A row put behind the rows read, when it is the one that comes next.
LEMMA NextRowRead ==
    ASSUME TypeOK, DeliveredInOrder, pages' = pages,
           NEW y \in Nat \X Nat, consumed' = Append(consumed, y),
           consumed = <<>> => FirstRow(y),
           consumed # <<>> => RowAfter(LastRead, y)
    PROVE  DeliveredInOrder' /\ consumed' # <<>> /\ LastRead' = y
<1>1. consumed \in Seq(Nat \X Nat) /\ Len(consumed) \in Nat
  BY LengthFacts DEF TypeOK
<1>2. /\ consumed' # <<>> /\ Len(consumed') = Len(consumed) + 1
      /\ \A i \in 1 .. Len(consumed) : consumed'[i] = consumed[i]
      /\ consumed'[Len(consumed) + 1] = y
  BY <1>1, AppendProperties
<1>3. LastRead' = y
  BY <1>2 DEF LastRead
<1>4. FirstRow(consumed'[1])
  BY <1>1, <1>2, LengthFacts DEF DeliveredInOrder
<1>5. ASSUME NEW i \in 2 .. Len(consumed')
      PROVE  RowAfter(consumed'[i - 1], consumed'[i])
  <2>1. CASE i <= Len(consumed)
    <3>1. consumed'[i - 1] = consumed[i - 1] /\ consumed'[i] = consumed[i]
      BY <1>1, <1>2, <1>5, <2>1
    <3>2. i \in 2 .. Len(consumed)
      BY <1>1, <2>1
    <3>3. QED  BY <3>1, <3>2 DEF DeliveredInOrder
  <2>2. CASE i = Len(consumed) + 1
    <3>1. consumed # <<>> /\ Len(consumed) \in 1 .. Len(consumed)
      BY <1>1, <2>2, LengthFacts
    <3>2. consumed'[i - 1] = LastRead /\ consumed'[i] = y
      BY <1>1, <1>2, <2>2, <3>1 DEF LastRead
    <3>3. QED  BY <3>1, <3>2
  <2>3. QED  BY <1>1, <1>2, <2>1, <2>2
<1>6. DeliveredInOrder'
  BY <1>2, <1>4, <1>5 DEF DeliveredInOrder, FirstRow, RowAfter
<1>7. QED  BY <1>2, <1>3, <1>6

\* A step that leaves the result, the queue and the workers alone, and stays
\* where it is or leaves for InternalClose, keeps the parts.
LEMMA DeliveryFrame ==
    ASSUME DeliveryParts, next' # "MakeRequestExecute", threads = <<>> => threads' = <<>>,
           UNCHANGED <<pages, token, position, hasAsyncFetch, consumed, executions,
                       queue, worker, fetched>>,
           pc' = pc \/ pc' \in {"InternalClose", "destroyed"}
    PROVE  DeliveryParts'
<1> USE DEF position
<1>1. NothingExecuted' /\ ExecuteSkipsEmpty'
  BY DEF DeliveryParts, NothingExecuted, ExecuteSkipsEmpty, Requested
<1>2. CursorAtLast'
  BY DEF DeliveryParts, CursorAtLast, Reading, LastRead, FirstRow
<1>3. JoinBeforeRow'
  BY DEF DeliveryParts, JoinBeforeRow, LastRead, RowAfter, NextToken, Running
<1>4. NextPageAhead'
  BY DEF DeliveryParts, NextPageAhead, Reading, Running
<1>5. DeliveredInOrder'
  BY DEF DeliveryParts, DeliveredInOrder, FirstRow, RowAfter
<1>6. QED
  BY <1>1, <1>2, <1>3, <1>4, <1>5 DEF DeliveryParts

\* Every action keeps the delivery invariant.
LEMMA DeliveryStep ==
    ASSUME IndInv, DeliveryInv, [Next]_vars PROVE DeliveryInv'
<1> SUFFICES ASSUME executions' <= 1 PROVE DeliveryParts'
  BY DEF DeliveryInv, DeliveryParts
<1>0. TypeOK /\ TypeOK'
  BY TypeStep DEF IndInv
<1>a. executions \in Nat /\ (executions' = executions \/ (Execute /\ executions' = executions + 1))
  BY <1>0, ExecutionsGrow
<1>p. DeliveryParts /\ next # "MakeRequestExecute"
  BY <1>a DEF DeliveryInv, DeliveryParts, NothingExecuted
<1>t. /\ pages \in [Page -> Nat] /\ Len(pages) \in Nat \ {0}
      /\ token \in Outcome /\ cursor \in Outcome /\ result \in Outcome
      /\ curPos \in Nat /\ queue \in Seq(Outcome)
      /\ consumed \in Seq(Nat \X Nat)
      /\ worker \in [Thread -> {"querying", "holding", "ended"}]
      /\ fetched \in [Thread -> Outcome] /\ threads \in Seq(Thread)
      /\ Len(queue) \in Nat /\ Len(consumed) \in Nat
      /\ hasAsyncFetch \in BOOLEAN /\ Requested \in Page
  BY <1>0, PageFacts, LengthFacts DEF TypeOK
<1>i. OneWorker /\ OneOutcomeQueued /\ ExecuteAlone /\ ThreadsHaveResult
  BY DEF IndInv
<1> USE DEF vars, request, position, context, pool, call
<1>u. ASSUME pages' = pages, consumed' = consumed PROVE DeliveredInOrder'
  BY <1>p, <1>u DEF DeliveryParts, DeliveredInOrder, FirstRow, RowAfter
\* Execute is called for the first time.
<1>1. CASE Execute
  <2>1. executions = 0
    BY <1>1, <1>a DEF Execute
  <2>2. /\ pc = "idle" /\ result = NoPage /\ cursor = NoPage /\ token = NoToken
        /\ threads = <<>> /\ queue = <<>> /\ consumed = <<>> /\ ~hasAsyncFetch
    BY <1>1, <1>p, <2>1 DEF DeliveryParts, NothingExecuted, Execute
  <2>3. /\ pc' = "MakeRequestExecute" /\ consumed' = <<>> /\ executions' = 1
        /\ UNCHANGED <<pages, token, cursor, next, hasAsyncFetch, queue>>
    BY <1>1, <2>1, <2>2 DEF Execute
  <2>4. NothingExecuted' /\ ExecuteSkipsEmpty'
    BY <1>p, <2>2, <2>3 DEF NothingExecuted, ExecuteSkipsEmpty, Requested
  <2>5. CursorAtLast' /\ JoinBeforeRow' /\ NextPageAhead'
    BY <2>2, <2>3 DEF CursorAtLast, JoinBeforeRow, NextPageAhead, Reading
  <2>6. DeliveredInOrder'
    BY <2>3, <1>u, <2>2
  <2>7. QED  BY <2>4, <2>5, <2>6 DEF DeliveryParts
<1>2. CASE ExecuteFails
  BY <1>2, <1>p, DeliveryFrame DEF ExecuteFails, BeginClose
\* A page without rows is skipped.
<1>3. CASE ExecuteEmptyPage
  <2>1. PICK p \in Query \ {Failed} : ExecuteEmptyPage!2!(p)
    BY <1>3 DEF ExecuteEmptyPage
  <2>2. p = Requested /\ pages[p] = 0 /\ p \in Nat
    BY <1>t, <2>1 DEF Query, Page
  <2>3. /\ pc = "MakeRequestExecute" /\ pc' \in {"idle", "MakeRequestExecute"}
        /\ UNCHANGED <<pages, cursor, next, hasAsyncFetch, queue, consumed, executions>>
    BY <1>3, <2>1 DEF ExecuteEmptyPage, Return
  <2>4. /\ cursor = NoPage /\ queue = <<>> /\ consumed = <<>> /\ ~hasAsyncFetch
        /\ \A q \in 1 .. Requested - 1 : pages[q] = 0 /\ executions # 0
    BY <1>p, <2>3 DEF DeliveryParts, ExecuteSkipsEmpty, NothingExecuted
  <2>5. NothingExecuted'
    BY <1>p, <2>3, <2>4 DEF DeliveryParts, NothingExecuted
  <2>6. ExecuteSkipsEmpty'
    <3> SUFFICES ASSUME pc' = "MakeRequestExecute"
                 PROVE  \A q \in 1 .. Requested' - 1 : pages[q] = 0
      BY <2>3, <2>4 DEF ExecuteSkipsEmpty
    <3>1. Requested' = p + 1
      BY <1>t, <2>1, <2>2, <2>3 DEF Requested, NextToken, NoToken, Return
    <3>2. QED  BY <2>2, <2>4, <3>1
  <2>7. CursorAtLast' /\ JoinBeforeRow' /\ NextPageAhead'
    BY <2>3, <2>4 DEF CursorAtLast, JoinBeforeRow, NextPageAhead, Reading
  <2>8. QED  BY <1>u, <2>3, <2>5, <2>6, <2>7 DEF DeliveryParts
\* The first page with rows: its first row is the first of the result.
<1>4. CASE ExecutePage
  <2>1. PICK p \in Query \ {Failed} : ExecutePage!2!(p)
    BY <1>4 DEF ExecutePage
  <2>2. p = Requested /\ pages[p] > 0 /\ p \in Nat /\ p # NoPage
    BY <1>t, <2>1 DEF Query, Page, NoPage
  <2>3. /\ pc = "MakeRequestExecute" /\ pc' = "idle"
        /\ UNCHANGED <<pages, next, queue, consumed, executions>>
        /\ result' = p /\ cursor' = p /\ curPos' = 0
    BY <1>4, <2>1 DEF ExecutePage, Return
  <2>4. /\ queue = <<>> /\ consumed = <<>>
        /\ \A q \in 1 .. Requested - 1 : pages[q] = 0 /\ executions # 0
        /\ \A t \in Thread : worker[t] = "ended"
    BY <1>p, <1>i, <2>3 DEF DeliveryParts, ExecuteSkipsEmpty, NothingExecuted, ExecuteAlone,
         OneWorker
  <2>5. NothingExecuted' /\ ExecuteSkipsEmpty' /\ JoinBeforeRow'
    BY <1>p, <2>3, <2>4 DEF DeliveryParts, NothingExecuted, ExecuteSkipsEmpty, JoinBeforeRow
  <2>6. CursorAtLast'
    BY <2>2, <2>3, <2>4 DEF CursorAtLast, FirstRow
  <2>7. NextPageAhead'
    <3>1. CASE worker' = worker
      BY <2>3, <2>4, <3>1 DEF NextPageAhead, Running
    <3>2. CASE StartWorker(NextToken(p), threads) /\ NextToken(p) # NoToken
      <4>1. token' = p + 1 /\ \A t \in Thread : worker'[t] \in {"querying", "ended"}
        BY <1>t, <2>2, <2>4, <3>2 DEF StartWorker, Launch, NextToken
      <4>2. QED  BY <2>3, <2>4, <4>1 DEF NextPageAhead, Running
    <3>3. QED  BY <2>1, <3>1, <3>2
  <2>8. QED  BY <1>u, <2>3, <2>5, <2>6, <2>7 DEF DeliveryParts
\* Past the end of the page: the row read last is the last of its page.
<1>5. CASE FetchNoData \/ FetchEndOfPage
  <2>1. /\ pc = "idle" /\ pc' \in {"idle", "SwitchCursor"}
        /\ UNCHANGED <<pages, token, result, cursor, hasAsyncFetch, queue, worker, fetched,
                       threads, next, consumed, executions>>
        /\ cursor # NoPage => curPos >= pages[cursor] /\ curPos' = curPos + 1
        /\ pc' = "SwitchCursor" => cursor # NoPage /\ hasAsyncFetch
    <3>1. cursor # NoPage => pages[cursor] \in Nat
      BY <1>t DEF Outcome, NoPage, Failed
    <3>2. CASE FetchNoData
      BY <1>t, <3>1, <3>2 DEF FetchNoData, Return
    <3>3. CASE FetchEndOfPage
      BY <1>t, <3>1, <3>3 DEF FetchEndOfPage
    <3>4. QED  BY <1>5, <3>2, <3>3
  <2>2. NothingExecuted' /\ ExecuteSkipsEmpty' /\ JoinBeforeRow'
    BY <1>p, <2>1 DEF DeliveryParts, NothingExecuted, ExecuteSkipsEmpty, JoinBeforeRow
  <2>3. NextPageAhead'
    BY <1>p, <2>1 DEF DeliveryParts, NextPageAhead, Reading, Running
  <2>4. CursorAtLast'
    <3> SUFFICES ASSUME cursor # NoPage
                 PROVE  /\ pages[cursor] > 0 /\ curPos' > pages[cursor] /\ curPos' > 0
                        /\ consumed # <<>> /\ LastRead = <<cursor, pages[cursor]>>
      BY <1>t, <2>1 DEF CursorAtLast, Reading, LastRead, Page, Outcome, NoPage
    <3>1. pages[cursor] \in Nat
      BY <1>t DEF Outcome, NoPage, Failed
    <3>2. pages[cursor] > 0
      BY <1>p, <2>1 DEF DeliveryParts, CursorAtLast, Reading
    <3>3. curPos > 0
      BY <1>t, <2>1, <3>1, <3>2
    <3>4. consumed # <<>> /\ LastRead = <<cursor, pages[cursor]>>
      BY <1>p, <1>t, <2>1, <3>1, <3>3 DEF DeliveryParts, CursorAtLast, Reading
    <3>5. QED  BY <1>t, <2>1, <3>1, <3>2, <3>4
  <2>5. QED  BY <1>u, <2>1, <2>2, <2>3, <2>4 DEF DeliveryParts
\* The next row of the page.
<1>6. CASE FetchRow
  <2> DEFINE y == <<cursor, curPos + 1>>
  <2>1. /\ pc = "idle" /\ pc' = "idle" /\ cursor # NoPage
        /\ curPos + 1 <= pages[cursor] /\ curPos' = curPos + 1
        /\ consumed' = Append(consumed, y)
        /\ UNCHANGED <<pages, token, result, cursor, hasAsyncFetch, queue, worker, fetched,
                       threads, next, executions>>
    BY <1>6 DEF FetchRow, ReadRow, Return
  <2>2. y \in Nat \X Nat /\ pages[cursor] \in Nat
    BY <1>t, <2>1 DEF Page, Outcome, NoPage, Failed
  <2>3. ASSUME consumed = <<>> PROVE FirstRow(y)
    <3>1. curPos = 0 /\ FirstRow(<<cursor, 1>>)
      BY <1>p, <1>t, <2>1, <2>3 DEF DeliveryParts, CursorAtLast, Reading
    <3>2. y = <<cursor, 1>>
      BY <3>1
    <3>3. QED  BY <3>1, <3>2
  <2>4. ASSUME consumed # <<>> PROVE RowAfter(LastRead, y)
    <3>1. curPos > 0 /\ curPos <= pages[cursor]
      BY <1>p, <1>t, <2>1, <2>2, <2>4 DEF DeliveryParts, CursorAtLast, Reading
    <3>2. LastRead = <<cursor, curPos>>
      BY <1>p, <2>1, <3>1 DEF DeliveryParts, CursorAtLast, Reading
    <3>3. QED  BY <2>1, <3>2 DEF RowAfter
  <2>5. DeliveredInOrder' /\ consumed' # <<>> /\ LastRead' = y
    BY <1>0, <1>p, <2>1, <2>2, <2>3, <2>4, NextRowRead DEF DeliveryParts
  <2>6. NothingExecuted' /\ ExecuteSkipsEmpty' /\ JoinBeforeRow'
    BY <1>p, <2>1 DEF DeliveryParts, NothingExecuted, ExecuteSkipsEmpty, JoinBeforeRow
  <2>7. CursorAtLast'
    BY <1>p, <1>t, <2>1, <2>2, <2>5 DEF DeliveryParts, CursorAtLast, Reading
  <2>8. NextPageAhead'
    BY <1>p, <2>1 DEF DeliveryParts, NextPageAhead, Reading, Running
  <2>9. QED  BY <2>5, <2>6, <2>7, <2>8 DEF DeliveryParts
<1>8. CASE SwitchCursorWait
  BY <1>8, <1>p, DeliveryFrame DEF SwitchCursorWait
\* The prefetch failed, or its page has no rows: nothing is read.
<1>9. CASE SwitchCursorStops
  <2>1. /\ pc = "SwitchCursor" /\ pc' = "idle" /\ queue' = <<>>
        /\ UNCHANGED <<pages, token, worker, fetched, next, consumed, executions>>
        /\ cursor' = NoPage \/ UNCHANGED <<cursor, curPos>>
    BY <1>9, <1>i, <1>t, TailFacts DEF SwitchCursorStops, Return, OneOutcomeQueued
  <2>2. NothingExecuted' /\ ExecuteSkipsEmpty' /\ JoinBeforeRow'
    BY <1>p, <2>1 DEF DeliveryParts, NothingExecuted, ExecuteSkipsEmpty, JoinBeforeRow
  <2>3. CursorAtLast'
    BY <1>p, <2>1 DEF DeliveryParts, CursorAtLast, Reading, LastRead, FirstRow
  <2>4. NextPageAhead'
    BY <1>p, <2>1 DEF DeliveryParts, NextPageAhead, Reading, Running
  <2>5. QED  BY <1>u, <2>1, <2>2, <2>3, <2>4 DEF DeliveryParts
\* The next page, whose first row comes after the last row of this one.
<1>10. CASE SwitchCursorPage
  <2> DEFINE p == Head(queue)
             y == <<p, 1>>
  <2>1. /\ pc = "SwitchCursor" /\ queue # <<>> /\ p # Failed /\ pages[p] > 0
        /\ result' = p /\ cursor' = p /\ curPos' = 1 /\ queue' = <<>>
        /\ UNCHANGED <<pages, token, worker, fetched, threads, executions>>
    BY <1>10, <1>i, <1>t, TailFacts DEF SwitchCursorPage, OneOutcomeQueued
  <2>2. \/ NextToken(p) = NoToken /\ ReadRow(p, 1)
        \/ /\ NextToken(p) # NoToken /\ pc' = "join"
           /\ UNCHANGED <<hasAsyncFetch, consumed, next>>
    BY <1>10 DEF SwitchCursorPage
  <2>3. cursor # NoPage /\ p = cursor + 1 /\ executions # 0 /\ ~Running
    BY <1>p, <2>1 DEF DeliveryParts, NextPageAhead, NothingExecuted, Reading
  <2>4. /\ p \in Nat /\ p # NoPage /\ pages[p] \in Nat
        /\ cursor \in Nat /\ pages[cursor] \in Nat
    <3>1. p \in Outcome
      BY <1>t, <2>1, TailFacts
    <3> HIDE DEF p
    <3>2. p \in Page /\ cursor \in Page
      BY <1>t, <2>1, <2>3, <3>1 DEF Outcome, NoPage, Failed
    <3>3. p \in Nat \ {0} /\ cursor \in Nat
      BY <1>t, <3>2 DEF Page
    <3>4. pages[p] \in Nat /\ pages[cursor] \in Nat
      BY <1>t, <3>2
    <3>5. QED  BY <3>3, <3>4 DEF NoPage
  <2>5. consumed # <<>> /\ LastRead = <<cursor, pages[cursor]>>
    BY <1>p, <1>t, <2>1, <2>3, <2>4 DEF DeliveryParts, CursorAtLast, Reading
  <2>6. RowAfter(LastRead, y)
    BY <2>1, <2>3, <2>4, <2>5 DEF RowAfter
  <2>a. hasAsyncFetch
    BY <1>p, <2>1, <2>3 DEF DeliveryParts, CursorAtLast, Reading
  <2> HIDE DEF p
  <2>7. CASE NextToken(p) = NoToken /\ ReadRow(p, 1)
    <3>1. consumed' = Append(consumed, y) /\ pc' = "idle" /\ next' = next
      BY <2>7 DEF ReadRow, Return
    <3>2. y \in Nat \X Nat
      BY <2>4
    <3>3. DeliveredInOrder' /\ consumed' # <<>> /\ LastRead' = y
      BY <1>0, <1>p, <2>1, <2>5, <2>6, <3>1, <3>2, NextRowRead DEF DeliveryParts
    <3>4. NothingExecuted' /\ ExecuteSkipsEmpty' /\ JoinBeforeRow'
      BY <1>p, <2>1, <2>3, <3>1 DEF DeliveryParts, NothingExecuted, ExecuteSkipsEmpty,
           JoinBeforeRow
    <3>5. CursorAtLast'
      BY <2>1, <2>4, <3>1, <3>3 DEF CursorAtLast
    <3>6. NextPageAhead'
      BY <2>1, <2>3 DEF NextPageAhead, Running
    <3>7. QED  BY <3>3, <3>4, <3>5, <3>6 DEF DeliveryParts
  <2>8. CASE /\ NextToken(p) # NoToken /\ pc' = "join"
             /\ UNCHANGED <<hasAsyncFetch, consumed, next>>
    <3>1. NothingExecuted' /\ ExecuteSkipsEmpty' /\ CursorAtLast' /\ NextPageAhead'
      BY <1>p, <2>1, <2>3, <2>4, <2>8 DEF DeliveryParts, NothingExecuted,
           ExecuteSkipsEmpty, CursorAtLast, NextPageAhead, Reading
    <3>2. JoinBeforeRow'
      BY <2>1, <2>3, <2>4, <2>5, <2>6, <2>8, <2>a DEF JoinBeforeRow, Running, LastRead,
           RowAfter, NextToken
    <3>3. QED  BY <1>u, <2>1, <2>8, <3>1, <3>2 DEF DeliveryParts
  <2>9. QED  BY <2>2, <2>7, <2>8
\* The worker of that page has been joined: the next one starts, the row is read.
<1>11. CASE SwitchCursorPrefetch
  <2> DEFINE y == <<cursor, 1>>
  <2>1. /\ pc = "join" /\ pc' = "idle" /\ next' = next
        /\ UNCHANGED <<pages, result, cursor, curPos, hasAsyncFetch, queue, fetched,
                       executions>>
        /\ consumed' = Append(consumed, <<cursor, curPos>>)
    BY <1>11 DEF SwitchCursorPrefetch, ReadRow, Return, StartWorker, Launch
  <2>2. /\ result = cursor /\ curPos = 1 /\ queue = <<>> /\ ~Running
        /\ pages[cursor] > 0 /\ NextToken(cursor) # NoToken
        /\ consumed # <<>> /\ RowAfter(LastRead, y) /\ cursor # NoPage
    BY <1>p, <2>1 DEF DeliveryParts, JoinBeforeRow, NothingExecuted
  <2>3. y \in Nat \X Nat /\ pages[cursor] \in Nat
    BY <1>t, <2>2 DEF Outcome, Page, NoPage, Failed
  <2>4. DeliveredInOrder' /\ consumed' # <<>> /\ LastRead' = y
    BY <1>0, <1>p, <2>1, <2>2, <2>3, NextRowRead DEF DeliveryParts
  <2>5. NothingExecuted' /\ ExecuteSkipsEmpty' /\ JoinBeforeRow'
    BY <1>p, <2>1 DEF DeliveryParts, NothingExecuted, ExecuteSkipsEmpty, JoinBeforeRow
  <2>6. CursorAtLast'
    BY <2>1, <2>2, <2>3, <2>4 DEF CursorAtLast
  <2>7. token' = cursor + 1 /\ \A t \in Thread : worker'[t] \in {"querying", "ended"}
    BY <1>11, <1>t, <2>2 DEF SwitchCursorPrefetch, StartWorker, Launch, NextToken, Running
  <2>8. NextPageAhead'
    BY <2>1, <2>2, <2>7 DEF NextPageAhead, Running
  <2>9. QED  BY <2>4, <2>5, <2>6, <2>8 DEF DeliveryParts
<1>12. CASE Cancel
  BY <1>12, <1>p, DeliveryFrame DEF Cancel, BeginClose, Return
<1>13. CASE Close
  BY <1>13, <1>p, DeliveryFrame DEF Close, BeginClose
<1>14. CASE GetMeta
  BY <1>14, <1>p, DeliveryFrame DEF GetMeta, BeginClose, Return
<1>15. CASE GetColumn
  BY <1>15, <1>p, DeliveryFrame DEF GetColumn, Return
<1>16. CASE Destroy
  BY <1>16, <1>p, DeliveryFrame DEF Destroy, BeginClose
<1>17. CASE CloseJoin
  BY <1>17, <1>p, DeliveryFrame DEF CloseJoin
<1>18. CASE CloseDone
  <2>1. /\ pc' \in {"idle", "destroyed"} /\ next' = "idle" /\ cursor' = NoPage
        /\ result' = NoPage
        /\ UNCHANGED <<pages, token, hasAsyncFetch, queue, threads, consumed, executions>>
    BY <1>0, <1>p, <1>18 DEF CloseDone, TypeOK
  <2>2. NothingExecuted' /\ ExecuteSkipsEmpty' /\ JoinBeforeRow'
    BY <1>p, <2>1 DEF DeliveryParts, NothingExecuted, ExecuteSkipsEmpty, JoinBeforeRow
  <2>3. CursorAtLast' /\ NextPageAhead'
    BY <2>1 DEF CursorAtLast, NextPageAhead, Reading
  <2>4. QED  BY <1>u, <2>1, <2>2, <2>3 DEF DeliveryParts
\* A worker asks for the page its token names, and delivers it to an empty queue.
<1>19. ASSUME NEW t \in Thread, WorkerQuery(t) PROVE DeliveryParts'
  <2>1. /\ worker[t] = "querying" /\ worker' = [worker EXCEPT ![t] = "holding"]
        /\ fetched' = [fetched EXCEPT ![t] = fetched'[t]] /\ fetched'[t] \in Query
        /\ UNCHANGED <<pages, token, result, cursor, curPos, hasAsyncFetch, queue,
                       threads, pc, next, consumed, executions>>
    BY <1>19, <1>t DEF WorkerQuery
  <2>2. NothingExecuted' /\ ExecuteSkipsEmpty'
    BY <1>p, <2>1 DEF DeliveryParts, NothingExecuted, ExecuteSkipsEmpty, Requested
  <2>3. CursorAtLast'
    BY <1>p, <2>1 DEF DeliveryParts, CursorAtLast, Reading, LastRead, FirstRow
  <2>4. JoinBeforeRow'
    BY <1>p, <1>t, <2>1 DEF DeliveryParts, JoinBeforeRow, Running
  <2>5. NextPageAhead'
    <3> SUFFICES ASSUME Reading PROVE NextPageAhead'
      BY <2>1 DEF NextPageAhead, Reading
    <3>1. queue = <<>> /\ token = cursor + 1 /\ cursor # NoPage
      BY <1>p, <2>1 DEF DeliveryParts, NextPageAhead, Running, Reading
    <3>2. fetched'[t] \in {Failed, cursor + 1}
      BY <1>t, <2>1, <3>1 DEF Query, Requested, NoToken, Outcome, Page, Failed
    <3>3. \A u \in Thread : u # t => worker'[u] = worker[u] /\ fetched'[u] = fetched[u]
      BY <1>t, <2>1
    <3>4. \A u \in Thread : worker'[u] = "holding" => fetched'[u] \in {Failed, cursor + 1}
      BY <1>p, <3>2, <3>3 DEF DeliveryParts, NextPageAhead
    <3>5. QED  BY <2>1, <3>1, <3>4 DEF NextPageAhead
  <2>6. QED  BY <1>u, <2>1, <2>2, <2>3, <2>4, <2>5 DEF DeliveryParts
<1>20. ASSUME NEW t \in Thread, WorkerDeliver(t) PROVE DeliveryParts'
  <2>1. /\ worker[t] = "holding" /\ fetched' = fetched
        /\ UNCHANGED <<pages, token, result, cursor, curPos, hasAsyncFetch,
                       threads, pc, next, consumed, executions>>
    BY <1>20 DEF WorkerDeliver
  <2>2. threads # <<>>
    BY <1>i, <2>1 DEF OneWorker
  <2>3. NothingExecuted'
    BY <1>p, <2>1, <2>2 DEF DeliveryParts, NothingExecuted
  <2>4. CursorAtLast'
    BY <1>p, <2>1 DEF DeliveryParts, CursorAtLast, Reading, LastRead, FirstRow
  <2>5. JoinBeforeRow' /\ ExecuteSkipsEmpty'
    BY <1>p, <1>i, <2>1, <2>2 DEF DeliveryParts, JoinBeforeRow, Running, ExecuteSkipsEmpty,
         ExecuteAlone
  <2>6. NextPageAhead'
    <3> SUFFICES ASSUME Reading PROVE NextPageAhead'
      BY <2>1 DEF NextPageAhead, Reading
    <3>1. queue = <<>> /\ fetched[t] \in {Failed, cursor + 1}
      BY <1>p, <2>1 DEF DeliveryParts, NextPageAhead, Running
    <3>2. /\ queue' = Append(queue, fetched[t])
          /\ worker' = [worker EXCEPT ![t] = "ended"]
      BY <1>20, <3>1 DEF WorkerDeliver
    <3>3. Head(queue') = fetched[t]
      BY <1>t, <3>1, <3>2, AppendFacts
    <3>4. \A u \in Thread : worker'[u] = "ended"
      BY <1>i, <1>t, <2>1, <3>2 DEF OneWorker
    <3>5. QED  BY <2>1, <3>1, <3>3, <3>4 DEF NextPageAhead, Running
  <2>7. QED  BY <1>u, <2>1, <2>3, <2>4, <2>5, <2>6 DEF DeliveryParts
<1>21. ASSUME NEW w \in Thread \cup {App}, SpuriousWakeup(w) PROVE DeliveryParts'
  BY <1>21, <1>p, DeliveryFrame DEF SpuriousWakeup
<1>22. CASE UNCHANGED vars
  BY <1>22, <1>p, DeliveryFrame
<1>23. QED
  BY <1>1, <1>2, <1>3, <1>4, <1>5, <1>6, <1>8, <1>9, <1>10, <1>11, <1>12, <1>13,
     <1>14, <1>15, <1>16, <1>17, <1>18, <1>19, <1>20, <1>21, <1>22 DEF Next, Destroyed

\* Initially nothing is executed.
LEMMA DeliveryInit == Init => DeliveryInv
<1> SUFFICES ASSUME Init PROVE DeliveryParts
  BY DEF DeliveryInv
<1>1. NothingExecuted /\ ExecuteSkipsEmpty /\ JoinBeforeRow
  BY DEF Init, NothingExecuted, ExecuteSkipsEmpty, JoinBeforeRow
<1>2. CursorAtLast /\ NextPageAhead
  BY DEF Init, CursorAtLast, NextPageAhead, Reading
<1>3. DeliveredInOrder
  BY EmptySeq DEF Init, DeliveredInOrder
<1>4. QED  BY <1>1, <1>2, <1>3 DEF DeliveryParts

LEMMA DeliveryCorrect == Spec => []DeliveryInv
<1>1. Init => DeliveryInv
  BY DeliveryInit
<1>2. IndInv /\ DeliveryInv /\ [Next]_vars => DeliveryInv'
  BY DeliveryStep
<1>3. QED  BY <1>1, <1>2, IndCorrect, PTL DEF Spec

\* A step that leaves the result, the queue and the workers alone and answers
\* something else than "no data", or finds no cursor.
LEMMA EndFrame ==
    ASSUME EndParts,
           cursor # NoPage => ret' = ret \/ ret' # "AI_NO_DATA",
           UNCHANGED <<pages, position, hasAsyncFetch, queue, worker>>,
           \/ pc' = pc \/ pc' = "InternalClose"
           \/ pc' = "destroyed" /\ ret' # "AI_NO_DATA"
    PROVE  EndParts'
BY DEF EndParts, PageOnItsWay, Reading, position

\* Every action keeps what is said about the end of the result.
LEMMA EndStep ==
    ASSUME SolidResults, IndInv, DeliveryInv, EndInv, [Next]_vars PROVE EndInv'
<1> SUFFICES ASSUME executions' <= 1 PROVE EndParts'
  BY DEF EndInv, EndParts
<1>0. TypeOK /\ TypeOK'
  BY TypeStep DEF IndInv
<1>a. executions <= 1
  BY <1>0, ExecutionsGrow
<1>p. /\ EndParts /\ NothingExecuted /\ ExecuteSkipsEmpty /\ CursorAtLast
      /\ JoinBeforeRow /\ NextPageAhead
  BY <1>a DEF DeliveryInv, DeliveryParts, EndInv
<1>t. /\ pages \in [Page -> Nat] /\ Len(pages) \in Nat \ {0}
      /\ cursor \in Outcome /\ curPos \in Nat /\ queue \in Seq(Outcome)
      /\ worker \in [Thread -> {"querying", "holding", "ended"}]
      /\ hasAsyncFetch \in BOOLEAN /\ Requested \in Page
      /\ cursor # NoPage => cursor \in Page /\ cursor \in Nat /\ pages[cursor] \in Nat
  <2>1. /\ pages \in [Page -> Nat] /\ Len(pages) \in Nat \ {0}
        /\ cursor \in Outcome /\ curPos \in Nat /\ queue \in Seq(Outcome)
        /\ worker \in [Thread -> {"querying", "holding", "ended"}]
        /\ hasAsyncFetch \in BOOLEAN /\ Requested \in Page
    BY <1>0, PageFacts DEF TypeOK
  <2>2. cursor # NoPage => cursor \in Page
    BY <2>1 DEF Outcome, NoPage, Failed
  <2>3. QED  BY <2>1, <2>2 DEF Page
<1> USE DEF vars, request, position, context, pool, call
<1>1. CASE Execute
  <2>1. pc' \in {"InternalClose", "MakeRequestExecute"}
    BY <1>1 DEF Execute, BeginClose
  <2>2. QED  BY <2>1 DEF EndParts, PageOnItsWay, Reading
<1>2. CASE ExecuteFails
  BY <1>2, <1>p, EndFrame DEF ExecuteFails, BeginClose
<1>3. CASE ExecuteEmptyPage
  <2>1. cursor' = NoPage
    BY <1>3, <1>p DEF ExecuteEmptyPage, ExecuteSkipsEmpty
  <2>2. QED  BY <2>1 DEF EndParts, PageOnItsWay, Reading
<1>4. CASE ExecutePage
  <2>1. PICK p \in Query \ {Failed} : ExecutePage!2!(p)
    BY <1>4 DEF ExecutePage
  <2>2. /\ p = Requested /\ p \in Page /\ p \in Nat /\ p <= Len(pages)
        /\ cursor' = p /\ pages' = pages /\ pc' = "idle" /\ ret' = "AI_SUCCESS"
    BY <1>4, <1>t, <2>1 DEF ExecutePage, Query, Page, Return
  <2>3. CASE NextToken(p) = NoToken /\ UNCHANGED <<token, pool, hasAsyncFetch>>
    <3>1. p = Len(pages)
      BY <1>t, <2>2, <2>3 DEF NextToken, NoToken
    <3>2. ~hasAsyncFetch'
      BY <1>4, <1>p, <2>3 DEF ExecutePage, ExecuteSkipsEmpty
    <3>3. QED  BY <2>2, <3>1, <3>2 DEF EndParts, PageOnItsWay
  <2>4. CASE StartWorker(NextToken(p), threads) /\ hasAsyncFetch' = TRUE
    <3>1. \E t \in Thread : worker'[t] # "ended"
      BY <1>t, <2>4 DEF StartWorker, Launch
    <3>2. QED  BY <2>2, <2>4, <3>1 DEF EndParts, PageOnItsWay
  <2>5. QED  BY <2>1, <2>3, <2>4
<1>5. CASE FetchNoData
  BY <1>5, <1>p, <1>t DEF FetchNoData, Return, EndParts, PageOnItsWay, Reading
<1>6. CASE FetchRow
  BY <1>6, <1>p DEF FetchRow, ReadRow, Return, EndParts, PageOnItsWay, Reading
<1>7. CASE FetchEndOfPage
  BY <1>7, <1>p DEF FetchEndOfPage, EndParts, PageOnItsWay, Reading
<1>8. CASE SwitchCursorWait
  BY <1>8, <1>p, EndFrame DEF SwitchCursorWait
\* The page in the queue is behind a page with rows: it has rows.
<1>9. CASE SwitchCursorStops
  <2>1. pc = "SwitchCursor" /\ queue # <<>>
    BY <1>9 DEF SwitchCursorStops
  <2>2. cursor # NoPage /\ Head(queue) \in {Failed, cursor + 1} /\ pages[cursor] > 0
    BY <1>p, <2>1 DEF NothingExecuted, NextPageAhead, CursorAtLast, Reading
  <2>3. Head(queue) \in Outcome
    BY <1>t, <2>1, TailFacts
  <2>4. Head(queue) # Failed => pages[Head(queue)] > 0
    <3> SUFFICES ASSUME Head(queue) # Failed PROVE pages[Head(queue)] > 0
      OBVIOUS
    <3>1. Head(queue) = cursor + 1 /\ Head(queue) \in Page
      BY <2>2, <2>3 DEF Outcome
    <3>2. pages \in Results /\ DOMAIN pages = Page
      BY <1>0, <1>t DEF TypeOK
    <3>3. QED  BY <1>t, <2>2, <3>1, <3>2 DEF SolidResults
  <2>5. cursor' = NoPage
    <3> HIDE DEF SolidResults
    <3>1. Head(queue) = Failed \/ pages[Head(queue)] # 0
      BY <2>4
    <3>2. QED  BY <1>9, <3>1 DEF SwitchCursorStops
  <2>6. QED  BY <2>5 DEF EndParts, PageOnItsWay, Reading
<1>10. CASE SwitchCursorPage
  <2> DEFINE p == Head(queue)
  <2>1. queue # <<>> /\ cursor' = p /\ pages' = pages /\ p # Failed
    BY <1>10 DEF SwitchCursorPage
  <2>2. \/ /\ NextToken(p) = NoToken /\ hasAsyncFetch' = FALSE
           /\ pc' = "idle" /\ ret' # "AI_NO_DATA"
        \/ pc' = "join" /\ ret' # "AI_NO_DATA"
    BY <1>10, <1>p DEF SwitchCursorPage, ReadRow, Return, EndParts, NothingExecuted
  <2>3. p \in Page
    <3>1. p \in Outcome
      BY <1>t, <2>1, TailFacts
    <3>2. QED  BY <2>1, <3>1 DEF Outcome
  <2> HIDE DEF p
  <2>4. NextToken(p) = NoToken => p = Len(pages)
    <3>1. p \in Nat /\ p <= Len(pages) /\ Len(pages) \in Nat
      BY <1>t, <2>3 DEF Page
    <3>2. QED  BY <3>1 DEF NextToken, NoToken
  <2>5. QED  BY <2>1, <2>2, <2>4 DEF EndParts, PageOnItsWay, Reading
<1>11. CASE SwitchCursorPrefetch
  <2>1. /\ pc = "join" /\ pc' = "idle" /\ ret' # "AI_NO_DATA"
        /\ UNCHANGED <<pages, cursor, hasAsyncFetch>>
    BY <1>11 DEF SwitchCursorPrefetch, ReadRow, Return
  <2>2. hasAsyncFetch
    BY <1>p, <2>1 DEF JoinBeforeRow
  <2>3. \E t \in Thread : worker'[t] # "ended"
    BY <1>11, <1>t DEF SwitchCursorPrefetch, StartWorker, Launch
  <2>4. QED  BY <2>1, <2>2, <2>3 DEF EndParts, PageOnItsWay, Reading
<1>12. CASE Cancel
  BY <1>12, <1>p, EndFrame DEF Cancel, BeginClose, Return
<1>13. CASE Close
  BY <1>13, <1>p, EndFrame DEF Close, BeginClose
<1>14. CASE GetMeta
  BY <1>14, <1>p, EndFrame DEF GetMeta, BeginClose, Return
<1>15. CASE GetColumn
  BY <1>15, <1>p, EndFrame DEF GetColumn, Return, HasData
<1>16. CASE Destroy
  BY <1>16, <1>p, EndFrame DEF Destroy, BeginClose
<1>17. CASE CloseJoin
  BY <1>17, <1>p, EndFrame DEF CloseJoin
<1>18. CASE CloseDone
  BY <1>18 DEF CloseDone, EndParts, PageOnItsWay, Reading
<1>19. ASSUME NEW t \in Thread, WorkerQuery(t) PROVE EndParts'
  <2>1. /\ worker'[t] = "holding"
        /\ UNCHANGED <<pages, position, hasAsyncFetch, queue, pc, ret>>
    BY <1>19, <1>t DEF WorkerQuery
  <2>2. QED  BY <1>p, <2>1 DEF EndParts, PageOnItsWay, Reading
<1>20. ASSUME NEW t \in Thread, WorkerDeliver(t) PROVE EndParts'
  <2>1. /\ worker[t] = "holding"
        /\ UNCHANGED <<pages, position, hasAsyncFetch, pc, ret>>
    BY <1>20 DEF WorkerDeliver
  <2>2. queue' # <<>>
    <3>1. fetched[t] \in Outcome
      BY <1>0 DEF TypeOK
    <3>2. QED  BY <1>20, <1>t, <3>1, AppendFacts DEF WorkerDeliver
  <2>3. QED  BY <1>p, <2>1, <2>2 DEF EndParts, PageOnItsWay, Reading
<1>21. ASSUME NEW w \in Thread \cup {App}, SpuriousWakeup(w) PROVE EndParts'
  BY <1>21, <1>p, EndFrame DEF SpuriousWakeup
<1>22. CASE UNCHANGED vars
  BY <1>22, <1>p, EndFrame
<1>23. QED
  BY <1>1, <1>2, <1>3, <1>4, <1>5, <1>6, <1>7, <1>8, <1>9, <1>10, <1>11, <1>12, <1>13,
     <1>14, <1>15, <1>16, <1>17, <1>18, <1>19, <1>20, <1>21, <1>22 DEF Next, Destroyed

\* The rows read since Execute are the first rows of the result in its order,
\* none skipped and none twice, for every result, with pages without rows anywhere
\* in it, and for every timing of the prefetch, until Execute is called again.
THEOREM RowsDelivered == Spec => [](executions <= 1 => DeliveredInOrder)
<1>1. DeliveryInv => (executions <= 1 => DeliveredInOrder)
  BY DEF DeliveryInv, DeliveryParts
<1>2. QED  BY <1>1, DeliveryCorrect, PTL

\* When the service answers no page without rows behind one with rows,
\* SwitchCursor never waits for a page nobody fetches, and SQL_NO_DATA on an open
\* cursor means that the whole result was read.
THEOREM EndReported ==
    ASSUME SolidResults
    PROVE  Spec => [](executions <= 1 => PageOnItsWay /\ NoDataMeansComplete)
<1>1. Init => EndInv
  BY DEF Init, EndInv, EndParts, PageOnItsWay, Reading
<1>2. IndInv /\ DeliveryInv /\ EndInv /\ [Next]_vars => EndInv'
  BY EndStep
<1>3. IndInv /\ DeliveryInv /\ EndInv
        => (executions <= 1 => PageOnItsWay /\ NoDataMeansComplete)
  <2> SUFFICES ASSUME IndInv, DeliveryInv, EndInv, executions <= 1,
                      pc = "idle", ret = "AI_NO_DATA", cursor # NoPage
               PROVE  LET last == consumed[Len(consumed)]
                      IN  /\ consumed # <<>> /\ last[2] = pages[last[1]]
                          /\ \A q \in last[1] + 1 .. Len(pages) : pages[q] = 0
    BY DEF EndInv, EndParts, NoDataMeansComplete
  <2>1. cursor = Len(pages) /\ curPos > pages[cursor]
    BY DEF EndInv, EndParts, Reading
  <2>2. CursorAtLast /\ TypeOK
    BY DEF DeliveryInv, DeliveryParts, IndInv
  <2>3. curPos \in Nat /\ cursor \in Nat /\ pages[cursor] \in Nat
    <3>1. curPos \in Nat /\ cursor \in Page
      BY <2>2 DEF TypeOK, Outcome, Failed, NoPage
    <3>2. pages \in [Page -> Nat] /\ Len(pages) \in Nat
      BY <2>2, PageFacts DEF TypeOK
    <3>3. QED  BY <3>1, <3>2 DEF Page
  <2>4. consumed # <<>> /\ consumed[Len(consumed)] = <<cursor, pages[cursor]>>
    BY <2>1, <2>2, <2>3 DEF CursorAtLast, Reading, LastRead
  <2>5. QED  BY <2>1, <2>3, <2>4
<1>4. QED
  BY <1>1, <1>2, <1>3, IndCorrect, DeliveryCorrect, PTL DEF Spec

\* For such results, and for every timing of the prefetch: a FetchNextRow that
\* waits in SwitchCursor has a worker under way or an outcome in the queue, and
\* does not wait for a page that no thread will ever deliver.
THEOREM PagesOnTheirWay ==
    ASSUME SolidResults PROVE Spec => [](executions <= 1 => PageOnItsWay)
<1>1. (executions <= 1 => PageOnItsWay /\ NoDataMeansComplete)
        => (executions <= 1 => PageOnItsWay)
  OBVIOUS
<1>2. QED  BY <1>1, EndReported, PTL

\* When ~DataQuery returns no worker is left that uses the object, and no joinable
\* thread is destroyed with it.
THEOREM NothingOutlivesTheQuery == Spec => []DestroyedQuiet
<1>1. IndInv => DestroyedQuiet
  BY DEF IndInv
<1>2. QED  BY <1>1, IndCorrect, PTL

-----------------------------------------------------------------------------
(* The refinement of RowStream *)

IsRead(z) == \E i \in DOMAIN consumed : consumed[i] = z

\* The rows read are the rows of the result up to the one read last.
ReadUpToLast ==
    /\ consumed # <<>> => LastRead \in Rows
    /\ \A z \in Rows :
         IsRead(z) <=> consumed # <<>> /\ ~Stream!Before(LastRead, z)

StreamInv == executions <= 1 => ReadUpToLast

\* The rows are pairs of a page and the number of a row on it.
LEMMA RowsFacts ==
    ASSUME pages \in Results
    PROVE  /\ \A z \in Rows : /\ z = <<z[1], z[2]>> /\ z[1] \in Page
                              /\ z[1] \in Nat /\ z[2] \in Nat \ {0}
                              /\ pages[z[1]] \in Nat /\ z[2] <= pages[z[1]]
           /\ \A p \in Page, n \in Nat \ {0} : n <= pages[p] => <<p, n>> \in Rows
<1>1. pages \in [Page -> Nat] /\ Page \subseteq Nat
  BY PageFacts DEF Page
<1>2. ASSUME NEW z \in Rows
      PROVE  /\ z = <<z[1], z[2]>> /\ z[1] \in Page
             /\ z[1] \in Nat /\ z[2] \in Nat \ {0}
             /\ pages[z[1]] \in Nat /\ z[2] <= pages[z[1]]
  <2>1. PICK p \in Page : \E n \in 1 .. pages[p] : z = <<p, n>>
    BY DEF Rows
  <2>2. PICK n \in 1 .. pages[p] : z = <<p, n>>
    BY <2>1
  <2>3. QED  BY <1>1, <2>2
<1>3. ASSUME NEW p \in Page, NEW n \in Nat \ {0}, n <= pages[p]
      PROVE  <<p, n>> \in Rows
  <2>1. n \in 1 .. pages[p]
    BY <1>1, <1>3
  <2>2. QED  BY <2>1 DEF Rows
<1>4. QED  BY <1>2, <1>3

\* The row that comes next is a row of the result that was not read, and comes
\* before the others that were not.
LEMMA NextIsLeast ==
    ASSUME TypeOK, ReadUpToLast, NEW y \in Nat \X Nat, y[1] \in Page,
           consumed = <<>> => FirstRow(y),
           consumed # <<>> => RowAfter(LastRead, y)
    PROVE  /\ y \in Rows /\ ~IsRead(y)
           /\ \A z \in Rows : IsRead(z) \/ z = y \/ Stream!Before(y, z)
           /\ \A z \in Rows : IsRead(z) => Stream!Before(z, y)
<1>r. /\ \A z \in Rows : /\ z = <<z[1], z[2]>> /\ z[1] \in Page
                         /\ z[1] \in Nat /\ z[2] \in Nat \ {0}
                         /\ pages[z[1]] \in Nat /\ z[2] <= pages[z[1]]
      /\ \A p \in Page, n \in Nat \ {0} : n <= pages[p] => <<p, n>> \in Rows
      /\ pages \in [Page -> Nat] /\ Len(pages) \in Nat
  BY RowsFacts, PageFacts DEF TypeOK
<1>0. y = <<y[1], y[2]>> /\ y[1] \in Nat /\ y[2] \in Nat /\ pages[y[1]] \in Nat
  BY <1>r
<1>1. CASE consumed = <<>>
  <2>1. y[2] = 1 /\ pages[y[1]] > 0 /\ \A q \in 1 .. y[1] - 1 : pages[q] = 0
    BY <1>1 DEF FirstRow
  <2>2. y \in Rows
    BY <1>r, <1>0, <2>1
  <2>3. \A z \in Rows : ~IsRead(z)
    BY <1>1 DEF ReadUpToLast
  <2>4. ASSUME NEW z \in Rows PROVE z = y \/ Stream!Before(y, z)
    <3>1. z[1] >= y[1]
      BY <1>r, <1>0, <2>1, <2>4 DEF Page
    <3>2. QED  BY <1>r, <1>0, <2>1, <2>4, <3>1 DEF Stream!Before
  <2>5. QED  BY <2>2, <2>3, <2>4
<1>2. CASE consumed # <<>>
  <2> DEFINE x == LastRead
  <2>0. /\ x \in Rows /\ RowAfter(x, y)
        /\ \A z \in Rows : IsRead(z) <=> ~Stream!Before(x, z)
    BY <1>2 DEF ReadUpToLast
  <2> HIDE DEF x
  <2>1. x[1] \in Nat /\ x[2] \in Nat \ {0} /\ x[1] \in Page /\ x[2] <= pages[x[1]]
        /\ pages[x[1]] \in Nat
    BY <1>r, <2>0
  <2>2. y \in Rows /\ Stream!Before(x, y)
    BY <1>r, <1>0, <2>0, <2>1 DEF RowAfter, Stream!Before
  <2>3. ASSUME NEW z \in Rows, Stream!Before(x, z) PROVE z = y \/ Stream!Before(y, z)
    <3>0. /\ z = <<z[1], z[2]>> /\ z[1] \in Page /\ z[1] \in Nat /\ z[2] \in Nat \ {0}
          /\ pages[z[1]] \in Nat /\ z[2] <= pages[z[1]]
      BY <1>r, <2>3
    <3>1. CASE y[1] = x[1] /\ y[2] = x[2] + 1
      BY <1>0, <2>1, <2>3, <3>0, <3>1 DEF Stream!Before
    <3>2. CASE /\ x[2] = pages[x[1]]
               /\ y[1] > x[1] /\ y[2] = 1 /\ pages[y[1]] > 0
               /\ \A q \in x[1] + 1 .. y[1] - 1 : pages[q] = 0
      <4>1. z[1] > x[1]
        BY <2>1, <2>3, <3>0, <3>2 DEF Stream!Before
      <4>2. z[1] >= y[1]
        BY <1>0, <2>1, <3>0, <3>2, <4>1
      <4>3. QED  BY <1>0, <3>0, <3>2, <4>2 DEF Stream!Before
    <3>3. QED  BY <2>0, <3>1, <3>2 DEF RowAfter
  <2>4. ASSUME NEW z \in Rows, ~Stream!Before(x, z) PROVE Stream!Before(z, y)
    <3>0. z[1] \in Nat /\ z[2] \in Nat
      BY <1>r, <2>4
    <3>1. QED  BY <1>0, <2>1, <2>2, <2>4, <3>0 DEF Stream!Before
  <2>5. QED  BY <2>0, <2>2, <2>3, <2>4
<1>3. QED  BY <1>1, <1>2

\* How a step may change the rows read: not at all, by a new execution, or by the
\* row the cursor has moved to.
LEMMA ReadShape ==
    ASSUME TypeOK, [Next]_vars
    PROVE  /\ pages' = pages
           /\ \/ consumed' = consumed
              \/ Execute /\ consumed' = <<>>
              \/ /\ FetchRow \/ SwitchCursorPage \/ SwitchCursorPrefetch
                 /\ \E y \in Nat \X Nat : consumed' = Append(consumed, y)
<1>1. cursor \in Nat /\ curPos \in Nat
  BY PageFacts DEF TypeOK, Outcome, Page, Failed
<1>2. CASE FetchRow
  <2>1. pages' = pages /\ consumed' = Append(consumed, <<cursor, curPos + 1>>)
    BY <1>2 DEF FetchRow, ReadRow
  <2>2. <<cursor, curPos + 1>> \in Nat \X Nat
    BY <1>1
  <2>3. QED  BY <1>2, <2>1, <2>2
<1>3. CASE SwitchCursorPrefetch
  BY <1>1, <1>3 DEF SwitchCursorPrefetch, ReadRow
<1>4. CASE SwitchCursorPage
  <2>1. Head(queue) \in Nat
    <3>1. Head(queue) \in Outcome
      BY <1>4, TailFacts DEF TypeOK, SwitchCursorPage
    <3>2. QED  BY <3>1 DEF Outcome, Page, Failed
  <2>2. QED  BY <1>4, <2>1 DEF SwitchCursorPage, ReadRow
<1>5. QED
  BY <1>2, <1>3, <1>4
     DEF Next, vars, Execute, ExecuteFails, ExecuteEmptyPage, ExecutePage, FetchNoData,
         FetchEndOfPage, SwitchCursorWait, SwitchCursorStops, Cancel, Close, GetMeta,
         GetColumn, Destroy, CloseJoin, CloseDone, WorkerQuery, WorkerDeliver,
         SpuriousWakeup, Destroyed

\* A step that reads a row: it comes next, and is a row of the page of the cursor.
LEMMA ReadStep ==
    ASSUME TypeOK, TypeOK', DeliveryParts, DeliveryParts', pages' = pages,
           FetchRow \/ SwitchCursorPage \/ SwitchCursorPrefetch,
           NEW y \in Nat \X Nat, consumed' = Append(consumed, y)
    PROVE  /\ cursor # NoPage /\ cursor' # NoPage /\ pc' = "idle"
           /\ ret' # "AI_NO_DATA" /\ pc \in {"idle", "SwitchCursor", "join"}
           /\ consumed' # <<>> /\ LastRead' = y /\ y[1] \in Page
           /\ consumed = <<>> => FirstRow(y)
           /\ consumed # <<>> => RowAfter(LastRead, y)
<1>1. consumed \in Seq(Nat \X Nat) /\ Len(consumed) \in Nat
  BY LengthFacts DEF TypeOK
<1>2. /\ consumed' # <<>> /\ Len(consumed') = Len(consumed) + 1
      /\ \A i \in 1 .. Len(consumed) : consumed'[i] = consumed[i]
      /\ consumed'[Len(consumed) + 1] = y /\ consumed' # consumed
  <2>1. /\ consumed' # <<>> /\ Len(consumed') = Len(consumed) + 1
        /\ \A i \in 1 .. Len(consumed) : consumed'[i] = consumed[i]
        /\ consumed'[Len(consumed) + 1] = y
    BY <1>1, AppendProperties
  <2>2. Len(consumed) + 1 # Len(consumed)
    BY <1>1
  <2>3. QED  BY <2>1, <2>2
<1>3. LastRead' = y
  BY <1>2 DEF LastRead
<1>4. /\ pc' = "idle" /\ ret' # "AI_NO_DATA" /\ pc \in {"idle", "SwitchCursor", "join"}
      /\ pc = "idle" => cursor # NoPage
      /\ \/ cursor' = cursor
         \/ pc = "SwitchCursor" /\ cursor' # NoPage
  BY <1>2 DEF FetchRow, SwitchCursorPage, SwitchCursorPrefetch, ReadRow, Return, position,
       NoPage, Failed
<1>5. cursor # NoPage /\ cursor' # NoPage
  BY <1>4 DEF DeliveryParts, NothingExecuted
<1>6. y[1] = cursor'
  BY <1>2, <1>3, <1>4, <1>5 DEF DeliveryParts, CursorAtLast, Reading, TypeOK
<1>7. cursor' \in Page
  BY <1>5 DEF TypeOK, Outcome, Page, NoPage, Failed
<1>8. ASSUME consumed = <<>> PROVE FirstRow(y)
  <2>1. Len(consumed) = 0
    BY <1>8, LengthFacts, <1>1
  <2>2. consumed'[1] = y
    BY <1>2, <2>1
  <2>3. QED  BY <1>2, <2>2 DEF DeliveryParts, DeliveredInOrder, FirstRow
<1>9. ASSUME consumed # <<>> PROVE RowAfter(LastRead, y)
  <2>1. Len(consumed) > 0
    BY <1>9, LengthFacts, <1>1
  <2>2. /\ Len(consumed) + 1 \in 2 .. Len(consumed')
        /\ consumed'[Len(consumed) + 1 - 1] = LastRead
    BY <1>1, <1>2, <2>1 DEF LastRead
  <2>3. QED  BY <1>2, <2>2 DEF DeliveryParts, DeliveredInOrder, RowAfter
<1>10. QED
  BY <1>2, <1>3, <1>4, <1>5, <1>6, <1>7, <1>8, <1>9

\* Every action keeps the set of rows read.
LEMMA StreamInvStep ==
    ASSUME IndInv, DeliveryInv, StreamInv, [Next]_vars PROVE StreamInv'
<1> SUFFICES ASSUME executions' <= 1 PROVE ReadUpToLast'
  BY DEF StreamInv
<1>0. TypeOK /\ TypeOK' /\ DeliveryInv'
  BY TypeStep, DeliveryStep DEF IndInv
<1>a. executions <= 1
  BY <1>0, ExecutionsGrow
<1>p. DeliveryParts /\ DeliveryParts' /\ ReadUpToLast
  BY <1>0, <1>a DEF DeliveryInv, StreamInv
<1>s. pages' = pages /\ Rows' = Rows
  BY <1>0, ReadShape DEF Rows, Page
<1>1. CASE consumed' = consumed
  BY <1>p, <1>s, <1>1 DEF ReadUpToLast, IsRead, LastRead, Stream!Before
<1>2. CASE consumed' = <<>>
  BY <1>2 DEF ReadUpToLast, IsRead
<1>3. CASE /\ FetchRow \/ SwitchCursorPage \/ SwitchCursorPrefetch
           /\ \E y \in Nat \X Nat : consumed' = Append(consumed, y)
  <2>1. PICK y \in Nat \X Nat : consumed' = Append(consumed, y)
    BY <1>3
  <2>2. /\ consumed' # <<>> /\ LastRead' = y /\ y[1] \in Page
        /\ consumed = <<>> => FirstRow(y)
        /\ consumed # <<>> => RowAfter(LastRead, y)
    BY <1>0, <1>p, <1>s, <1>3, <2>1, ReadStep
  <2>3. /\ y \in Rows /\ ~IsRead(y)
        /\ \A z \in Rows : IsRead(z) \/ z = y \/ Stream!Before(y, z)
        /\ \A z \in Rows : IsRead(z) => Stream!Before(z, y)
    BY <1>0, <1>p, <2>2, NextIsLeast
  <2>4. \A z : IsRead(z)' <=> IsRead(z) \/ z = y
    <3>1. consumed \in Seq(Nat \X Nat) /\ Len(consumed) \in Nat
      BY <1>0, LengthFacts DEF TypeOK
    <3>2. /\ DOMAIN consumed = 1 .. Len(consumed)
          /\ DOMAIN consumed' = 1 .. Len(consumed) + 1
          /\ \A i \in 1 .. Len(consumed) : consumed'[i] = consumed[i]
          /\ consumed'[Len(consumed) + 1] = y
      BY <2>1, <3>1, AppendProperties, LenProperties
    <3>3. ASSUME NEW z, IsRead(z) \/ z = y PROVE IsRead(z)'
      <4>1. Len(consumed) + 1 \in DOMAIN consumed' /\ DOMAIN consumed \subseteq DOMAIN consumed'
        BY <3>1, <3>2
      <4>2. QED  BY <3>2, <3>3, <4>1 DEF IsRead
    <3>4. ASSUME NEW z, IsRead(z)' PROVE IsRead(z) \/ z = y
      <4>1. PICK i \in DOMAIN consumed' : consumed'[i] = z
        BY <3>4 DEF IsRead
      <4>2. i \in DOMAIN consumed \/ i = Len(consumed) + 1
        BY <3>1, <3>2
      <4>3. QED  BY <3>2, <4>1, <4>2 DEF IsRead
    <3>5. QED  BY <3>3, <3>4
  <2>5. \A z \in Rows : z[1] \in Nat /\ z[2] \in Nat
    BY <1>0, RowsFacts DEF TypeOK
  <2>6. \A z \in Rows : ~(Stream!Before(y, z) /\ Stream!Before(z, y)) /\ ~Stream!Before(y, y)
    BY <2>3, <2>5 DEF Stream!Before
  <2>7. \A z \in Rows : IsRead(z)' <=> ~Stream!Before(y, z)
    BY <2>3, <2>4, <2>6
  <2>8. QED
    BY <1>s, <2>2, <2>3, <2>7 DEF ReadUpToLast, Stream!Before
<1>4. QED  BY <1>0, <1>1, <1>2, <1>3, ReadShape

\* The stream's reader is told of the end when no row is left.
EndMeansEmpty == StreamState = "end" => Stream!Left = {}

LEMMA EndMeansAll ==
    ASSUME TypeOK, DeliveryParts, EndParts, ReadUpToLast, StreamState = "end"
    PROVE  Stream!Left = {}
<1>1. cursor # NoPage /\ pc # "InternalClose" /\ ret = "AI_NO_DATA"
  BY DEF StreamState
<1>2. pc = "idle"
  BY <1>1 DEF TypeOK, Control, EndParts, DeliveryParts, ExecuteSkipsEmpty
<1>3. cursor = Len(pages) /\ curPos > pages[cursor]
  BY <1>1, <1>2 DEF EndParts, Reading
<1>4. pages \in [Page -> Nat] /\ Len(pages) \in Nat \ {0}
  BY PageFacts DEF TypeOK
<1>5. pages[cursor] \in Nat /\ curPos \in Nat /\ cursor \in Nat
  BY <1>3, <1>4 DEF Page, TypeOK
<1>6. consumed # <<>> /\ LastRead = <<cursor, pages[cursor]>>
  BY <1>1, <1>2, <1>3, <1>5 DEF DeliveryParts, CursorAtLast, Reading
<1>7. ASSUME NEW z \in Rows PROVE IsRead(z)
  <2>1. z[1] \in 1 .. Len(pages) /\ z[2] \in Nat /\ z[2] <= pages[z[1]]
    BY RowsFacts DEF TypeOK, Page
  <2>2. ~Stream!Before(LastRead, z)
    BY <1>3, <1>4, <1>5, <1>6, <2>1 DEF Stream!Before
  <2>3. QED  BY <1>6, <2>2 DEF ReadUpToLast
<1>8. QED  BY <1>7 DEF Stream!Left, IsRead

\* Every step of the application and of the workers is a step of the stream, or is
\* invisible to its reader.
LEMMA StreamStep ==
    ASSUME TypeOK, TypeOK', DeliveryParts, DeliveryParts', EndParts, EndParts',
           ReadUpToLast, ReadUpToLast', EndMeansEmpty', [Next]_vars
    PROVE  [Stream!Next]_(Stream!vars)
<1>s. pages' = pages /\ Rows' = Rows
  BY ReadShape DEF Rows, Page
<1>1. CASE Execute /\ consumed' = <<>>
  <2>1. pc' \in {"InternalClose", "MakeRequestExecute"}
    BY <1>1 DEF Execute, BeginClose
  <2>2. StreamState' = "closed"
    BY <2>1 DEF StreamState, DeliveryParts, ExecuteSkipsEmpty
  <2>3. QED  BY <1>1, <1>s, <2>2 DEF Stream!Next, Stream!Restart
<1>2. CASE /\ FetchRow \/ SwitchCursorPage \/ SwitchCursorPrefetch
           /\ \E y \in Nat \X Nat : consumed' = Append(consumed, y)
  <2>1. PICK y \in Nat \X Nat : consumed' = Append(consumed, y)
    BY <1>2
  <2>2. /\ cursor # NoPage /\ cursor' # NoPage /\ pc' = "idle"
        /\ ret' # "AI_NO_DATA" /\ pc \in {"idle", "SwitchCursor", "join"}
        /\ y[1] \in Page
        /\ consumed = <<>> => FirstRow(y)
        /\ consumed # <<>> => RowAfter(LastRead, y)
    BY <1>2, <1>s, <2>1, ReadStep
  <2>3. ret # "AI_NO_DATA"
    <3>1. CASE pc = "idle"
      <4>1. curPos + 1 <= pages[cursor]
        BY <1>2, <3>1 DEF FetchRow, SwitchCursorPage, SwitchCursorPrefetch
      <4>2. curPos \in Nat /\ pages[cursor] \in Nat
        BY <2>2, PageFacts DEF TypeOK, Outcome, NoPage, Failed
      <4>3. QED  BY <2>2, <3>1, <4>1, <4>2 DEF EndParts, Reading
    <3>2. QED  BY <2>2, <3>1 DEF EndParts
  <2>4. StreamState = "open" /\ StreamState' = "open"
    BY <2>2, <2>3 DEF StreamState
  <2>5. /\ y \in Rows /\ ~IsRead(y)
        /\ \A z \in Rows : IsRead(z) \/ z = y \/ Stream!Before(y, z)
    BY <2>2, NextIsLeast
  <2>6. y \in Stream!Left /\ \A z \in Stream!Left \ {y} : Stream!Before(y, z)
    BY <2>5 DEF Stream!Left, IsRead
  <2>7. Stream!Read
    BY <1>s, <2>1, <2>4, <2>6 DEF Stream!Read
  <2>8. QED  BY <2>7 DEF Stream!Next
<1>3. CASE consumed' = consumed
  <2>0. UNCHANGED <<Rows, consumed>>
    BY <1>s, <1>3
  <2>1. CASE StreamState' = StreamState
    BY <2>0, <2>1 DEF Stream!vars
  <2>2. CASE StreamState' = "closed" /\ StreamState # "closed"
    BY <2>0, <2>2 DEF Stream!Next, Stream!Close
  <2>3. CASE StreamState = "end" /\ StreamState' = "open"
    BY <2>0, <2>3 DEF Stream!Next, Stream!Ask
  <2>4. CASE StreamState = "open" /\ StreamState' = "end"
    <3>1. Stream!Left' = {}
      BY <2>4 DEF EndMeansEmpty
    <3>2. Stream!Left = {}
      BY <2>0, <3>1 DEF Stream!Left
    <3>3. QED  BY <2>0, <2>4, <3>2 DEF Stream!Next, Stream!End
  <2>5. CASE StreamState = "closed" /\ StreamState' # "closed"
    <3>1. /\ cursor = NoPage \/ pc = "InternalClose"
          /\ cursor' # NoPage /\ pc' # "InternalClose"
      BY <2>5 DEF StreamState
    <3>2. cursor' # cursor \/ (pc = "InternalClose" /\ pc' # pc)
      BY <3>1
    <3>3. pc # "SwitchCursor" \/ cursor # NoPage
      BY DEF DeliveryParts, NothingExecuted
    <3>4. ExecutePage
      BY <3>1, <3>2, <3>3
         DEF Next, vars, position, call, Execute, ExecuteFails, ExecuteEmptyPage,
             FetchNoData, FetchRow, FetchEndOfPage, SwitchCursorWait, SwitchCursorStops,
             SwitchCursorPage, SwitchCursorPrefetch, Cancel, Close, GetMeta, GetColumn,
             Destroy, CloseJoin, CloseDone, WorkerQuery, WorkerDeliver, SpuriousWakeup,
             Destroyed, BeginClose
    <3>5. ret' = "AI_SUCCESS" /\ pc = "MakeRequestExecute"
      BY <3>4 DEF ExecutePage, Return
    <3>6. consumed = <<>>
      BY <3>5 DEF DeliveryParts, ExecuteSkipsEmpty
    <3>7. StreamState' = "open"
      BY <3>1, <3>5 DEF StreamState
    <3>8. QED  BY <2>0, <2>5, <3>6, <3>7 DEF Stream!Next, Stream!Open
  <2>6. /\ StreamState \in {"closed", "open", "end"}
        /\ StreamState' \in {"closed", "open", "end"}
    BY DEF StreamState
  <2>7. QED  BY <2>1, <2>2, <2>3, <2>4, <2>5, <2>6
<1>4. QED  BY <1>1, <1>2, <1>3, ReadShape

\* A query executed once implements RowStream: its pages, its prefetch and its
\* handshake are invisible to the reader of the rows.
THEOREM QueryIsAStream ==
    ASSUME SolidResults, MaxExecute <= 1 PROVE Spec => StreamsRows
<1> DEFINE Inv == IndInv /\ DeliveryInv /\ EndInv /\ StreamInv
<1>1. Init => Inv
  <2> SUFFICES ASSUME Init PROVE Inv
    OBVIOUS
  <2>1. IndInv
    BY IndInit
  <2>2. DeliveryInv
    BY DeliveryInit
  <2>3. EndInv
    BY DEF Init, EndInv, EndParts, PageOnItsWay, Reading
  <2>4. StreamInv
    BY DEF Init, StreamInv, ReadUpToLast, IsRead
  <2>5. QED  BY <2>1, <2>2, <2>3, <2>4
<1>2. Inv /\ [Next]_vars => Inv'
  BY IndStep, DeliveryStep, EndStep, StreamInvStep
<1>3. Init => Stream!Init
  BY DEF Init, Stream!Init, StreamState
<1>4. Inv => EndMeansEmpty
  <2> SUFFICES ASSUME Inv, StreamState = "end" PROVE Stream!Left = {}
    BY DEF EndMeansEmpty
  <2>1. executions <= 1 /\ TypeOK
    BY BoundAssumption DEF IndInv, TypeOK
  <2>2. DeliveryParts /\ EndParts /\ ReadUpToLast
    BY <2>1 DEF DeliveryInv, EndInv, StreamInv
  <2>3. QED  BY <2>1, <2>2, EndMeansAll
<1>5. Inv /\ Inv' /\ EndMeansEmpty' /\ [Next]_vars => [Stream!Next]_(Stream!vars)
  <2> SUFFICES ASSUME Inv, Inv', EndMeansEmpty', [Next]_vars
               PROVE  [Stream!Next]_(Stream!vars)
    OBVIOUS
  <2>1. executions <= 1 /\ executions' <= 1 /\ TypeOK /\ TypeOK'
    BY BoundAssumption DEF IndInv, TypeOK
  <2>2. /\ DeliveryParts /\ DeliveryParts' /\ EndParts /\ EndParts'
        /\ ReadUpToLast /\ ReadUpToLast'
    BY <2>1 DEF DeliveryInv, EndInv, StreamInv
  <2>3. QED  BY <2>1, <2>2, StreamStep
<1>6. QED
  BY <1>1, <1>2, <1>3, <1>4, <1>5, PTL DEF Spec, StreamsRows, Stream!Spec

=============================================================================
