------------------------------ MODULE DataQuery ------------------------------
(***************************************************************************)
(* One DataQuery object (query/data_query.cpp): the result of one SQL text *)
(* is read page by page, the page after the current one being prefetched   *)
(* by a worker thread (AsyncFetchOnePage) that hands it over through       *)
(* DataQueryContext: a mutex, a condition variable and a one-place queue.  *)
(*                                                                         *)
(* Two kinds of process share the object: the application thread, which    *)
(* makes one ODBC call at a time (pc says where inside the call it is),    *)
(* and the workers it starts.  A lock region is one atomic step; between   *)
(* two lock regions, and while a thread waits in join() or on the          *)
(* condition variable, the others run.                                     *)
(*                                                                         *)
(* The query service is outside the repository: it is modelled from the    *)
(* calls made on it.  The result of the SQL text is a sequence of pages;   *)
(* page i has pages[i] rows, row r of it is <<i, r>>, and its next token   *)
(* names the page after it.  An outcome is the page that was answered, or  *)
(* Failed.                                                                 *)
(***************************************************************************)
EXTENDS Naturals, Sequences, FiniteSets

CONSTANTS
    Results,        \* the possible results: sequences of page sizes
    Thread,         \* identities of std::thread objects
    App,            \* the application thread, as a waiter on cv_
    MaxExecute,     \* bound on the number of calls of Execute
    MaxOverrun      \* bound on the fetches made past the end of a page

ASSUME ResultsAssumption == Results \subseteq Seq(Nat) \ {<<>>}
ASSUME ThreadAssumption  == App \notin Thread
ASSUME BoundAssumption   == MaxExecute \in Nat /\ MaxOverrun \in Nat

VARIABLES
    pages,               \* the service: sizes of the result's pages
    token,               \* request_.NextToken
    result,              \* result_: the page it holds
    cursor,              \* cursor_: the page it iterates over
    curPos,              \* cursor_->curPos_
    resultMetaAvailable, \* resultMetaAvailable_
    hasAsyncFetch,       \* hasAsyncFetch
    rowCounter,          \* rowCounter
    queue,               \* context_.queue_
    isClosing,           \* context_.isClosing_
    waiters,             \* the threads asleep on context_.cv_
    threads,             \* threads_
    worker,              \* where each worker thread is
    fetched,             \* the outcome a worker holds
    pc,                  \* where the application thread is
    next,                \* where InternalClose returns to
    ret,                 \* result of the call that returned last
    executions,          \* number of calls of Execute
    consumed             \* rows read by FetchNextRow since the last Execute

request  == <<token>>
position == <<result, cursor, curPos>>
context  == <<queue, isClosing, waiters>>
pool     == <<threads, worker, fetched>>
call     == <<pc, next, ret>>
vars == <<pages, request, position, resultMetaAvailable, hasAsyncFetch,
          rowCounter, context, pool, call, executions, consumed>>

NoToken == 0    \* an empty next token
NoPage  == 0    \* a null result_ or cursor_
Failed  == 0    \* an outcome that is not a success

Page    == 1 .. Len(pages)
Outcome == {Failed} \cup Page

Returned == {"none", "AI_SUCCESS", "AI_NO_DATA", "AI_ERROR"}
Control  == {"idle", "MakeRequestExecute", "SwitchCursor", "join",
             "InternalClose", "destroyed"}

-----------------------------------------------------------------------------
(* The query service *)

\* The page a request asks for: an empty token asks for the first one.
Requested == IF token = NoToken THEN 1 ELSE token

\* Any call of Query may fail.
Query == {Failed, Requested}

\* GetNextToken of page p.
NextToken(p) == IF p < Len(pages) THEN p + 1 ELSE NoToken

-----------------------------------------------------------------------------
(* Helpers of the class *)

\* TrinoCursor::HasData: also true before the first Increment.
HasData == cursor # NoPage /\ curPos <= pages[cursor]

\* request_.SetNextToken(tok); a thread is started on AsyncFetchOnePage, and
\* addThreads puts it behind the threads in kept.
Launch(tok, kept) ==
    /\ token' = tok
    /\ \E t \in Thread :
         /\ worker[t] = "ended" /\ \A i \in DOMAIN kept : kept[i] # t
         /\ threads' = Append(kept, t)
         /\ worker' = [worker EXCEPT ![t] = "querying"]
    /\ UNCHANGED fetched

\* Mutants of StartWorker: the request keeps its old token; the thread that was
\* joined stays in threads_.
StartWorkerSameToken(tok, kept) == Launch(token, kept)
StartWorkerNoPop(tok, kept)     == Launch(tok, threads)

\* The next page is asked for; kept is what is left of threads_.
StartWorker(tok, kept) == Launch(tok, kept)

\* The call returns r to the application.
Return(r) == pc' = "idle" /\ ret' = r /\ UNCHANGED next

\* Mutant of BeginClose: isClosing_ is not set.
BeginCloseUnmarked(then, r) ==
    /\ pc' = "InternalClose" /\ next' = then /\ ret' = r
    /\ UNCHANGED isClosing

\* InternalClose begins: isClosing_ is set without the mutex and without a
\* notification; threads_ is then joined one by one.
BeginClose(then, r) ==
    /\ isClosing' = TRUE
    /\ pc' = "InternalClose"
    /\ next' = then
    /\ ret' = r

\* FetchNextRow copies row r of page p to the bound buffers.  rowCounter
\* counts the rows whose every column was converted.
ReadRow(p, r) ==
    /\ consumed' = Append(consumed, <<p, r>>)
    /\ \/ rowCounter' = rowCounter + 1 /\ Return("AI_SUCCESS")
       \/ UNCHANGED rowCounter /\ Return("AI_ERROR")

-----------------------------------------------------------------------------
Init ==
    /\ pages \in Results
    /\ token = NoToken
    /\ result = NoPage /\ cursor = NoPage /\ curPos = 0
    /\ resultMetaAvailable = FALSE
    /\ hasAsyncFetch = FALSE
    /\ rowCounter = 0
    /\ queue = <<>> /\ isClosing = FALSE /\ waiters = {}
    /\ threads = <<>>
    /\ worker = [t \in Thread |-> "ended"]
    /\ fetched = [t \in Thread |-> Failed]
    /\ pc = "idle" /\ next = "idle" /\ ret = "none"
    /\ executions = 0
    /\ consumed = <<>>

-----------------------------------------------------------------------------
(* Execute *)

\* DataQuery::Execute: an earlier result is closed first.
Execute ==
    /\ pc = "idle" /\ executions < MaxExecute
    /\ executions' = executions + 1
    /\ consumed' = <<>>
    /\ \/ /\ result # NoPage
          /\ BeginClose("MakeRequestExecute", "none")
       \/ /\ result = NoPage
          /\ pc' = "MakeRequestExecute" /\ ret' = "none"
          /\ UNCHANGED <<next, isClosing>>
    /\ UNCHANGED <<pages, request, position, resultMetaAvailable,
                   hasAsyncFetch, rowCounter, queue, waiters, pool>>

\* MakeRequestExecute, the query failed.
ExecuteFails ==
    /\ pc = "MakeRequestExecute"
    /\ Failed \in Query
    /\ BeginClose("idle", "AI_ERROR")
    /\ UNCHANGED <<pages, request, position, resultMetaAvailable,
                   hasAsyncFetch, rowCounter, queue, waiters, pool,
                   executions, consumed>>

\* MakeRequestExecute, a page without rows: the next page is asked for, or
\* there is none.
ExecuteEmptyPage ==
    /\ pc = "MakeRequestExecute"
    /\ \E p \in Query \ {Failed} :
         /\ pages[p] = 0
         /\ result' = p
         /\ \/ /\ NextToken(p) = NoToken
               /\ Return("AI_NO_DATA")
               /\ UNCHANGED token
            \/ /\ NextToken(p) # NoToken
               /\ token' = NextToken(p)
               /\ UNCHANGED call
    /\ UNCHANGED <<pages, cursor, curPos, resultMetaAvailable, hasAsyncFetch,
                   rowCounter, context, pool, executions, consumed>>

\* MakeRequestExecute, a page with rows, and MakeRequestFetch: the cursor is
\* placed before its first row, and the page after it is prefetched.
ExecutePage ==
    /\ pc = "MakeRequestExecute"
    /\ \E p \in Query \ {Failed} :
         /\ pages[p] > 0
         /\ result' = p /\ cursor' = p /\ curPos' = 0
         /\ \/ /\ NextToken(p) = NoToken
               /\ UNCHANGED <<token, pool, hasAsyncFetch>>
            \/ /\ NextToken(p) # NoToken
               /\ StartWorker(NextToken(p), threads)
               /\ hasAsyncFetch' = TRUE
    /\ resultMetaAvailable' \in {TRUE, resultMetaAvailable}
    /\ Return("AI_SUCCESS")
    /\ UNCHANGED <<pages, rowCounter, context, executions, consumed>>

-----------------------------------------------------------------------------
(* FetchNextRow and SwitchCursor *)

\* Mutant of FetchNoData: the end of any page is the end of the result.
FetchNoDataAtPageEnd ==
    /\ pc = "idle" /\ cursor # NoPage
    /\ curPos + 1 > pages[cursor] /\ curPos < pages[cursor] + MaxOverrun
    /\ curPos' = curPos + 1
    /\ Return("AI_NO_DATA")
    /\ UNCHANGED <<pages, request, result, cursor, resultMetaAvailable,
                   hasAsyncFetch, rowCounter, context, pool, executions,
                   consumed>>

\* FetchNextRow when the cursor is null, or past the end with no page to come.
FetchNoData ==
    /\ pc = "idle"
    /\ \/ /\ cursor = NoPage
          /\ UNCHANGED curPos
       \/ /\ cursor # NoPage /\ ~hasAsyncFetch
          /\ curPos + 1 > pages[cursor] /\ curPos < pages[cursor] + MaxOverrun
          /\ curPos' = curPos + 1
    /\ Return("AI_NO_DATA")
    /\ UNCHANGED <<pages, request, result, cursor, resultMetaAvailable,
                   hasAsyncFetch, rowCounter, context, pool, executions,
                   consumed>>

\* FetchNextRow when the page has a next row.
FetchRow ==
    /\ pc = "idle"
    /\ cursor # NoPage /\ curPos + 1 <= pages[cursor]
    /\ curPos' = curPos + 1
    /\ ReadRow(cursor, curPos + 1)
    /\ UNCHANGED <<pages, request, result, cursor, resultMetaAvailable,
                   hasAsyncFetch, context, pool, executions>>

\* Mutant of FetchEndOfPage: the last row of a page is taken for its end.
FetchEndOfPageEarly ==
    /\ pc = "idle"
    /\ cursor # NoPage /\ hasAsyncFetch
    /\ curPos + 1 >= pages[cursor] /\ curPos < pages[cursor] + MaxOverrun
    /\ curPos' = curPos + 1
    /\ pc' = "SwitchCursor" /\ ret' = "none"
    /\ UNCHANGED <<pages, request, result, cursor, resultMetaAvailable,
                   hasAsyncFetch, rowCounter, context, pool, next, executions,
                   consumed>>

\* FetchNextRow at the end of the page: SwitchCursor is called.
FetchEndOfPage ==
    /\ pc = "idle"
    /\ cursor # NoPage /\ hasAsyncFetch
    /\ curPos + 1 > pages[cursor] /\ curPos < pages[cursor] + MaxOverrun
    /\ curPos' = curPos + 1
    /\ pc' = "SwitchCursor" /\ ret' = "none"
    /\ UNCHANGED <<pages, request, result, cursor, resultMetaAvailable,
                   hasAsyncFetch, rowCounter, context, pool, next, executions,
                   consumed>>

\* SwitchCursor finds the queue empty and sleeps on the condition variable.
SwitchCursorWait ==
    /\ pc = "SwitchCursor" /\ App \notin waiters
    /\ queue = <<>>
    /\ waiters' = waiters \cup {App}
    /\ UNCHANGED <<pages, request, position, resultMetaAvailable,
                   hasAsyncFetch, rowCounter, queue, isClosing, pool, call,
                   executions, consumed>>

\* SwitchCursor pops a failed outcome, or a page without rows.  Nobody is
\* notified of the pop.
SwitchCursorStops ==
    /\ pc = "SwitchCursor" /\ App \notin waiters
    /\ queue # <<>>
    /\ queue' = Tail(queue)
    /\ \/ /\ Head(queue) = Failed
          /\ cursor' = NoPage /\ curPos' = 0
          /\ hasAsyncFetch' = FALSE
          /\ Return("AI_ERROR")
          /\ UNCHANGED result
       \/ /\ Head(queue) # Failed /\ pages[Head(queue)] = 0
          /\ result' = Head(queue)
          /\ Return("AI_NO_DATA")
          /\ UNCHANGED <<cursor, curPos, hasAsyncFetch>>
    /\ UNCHANGED <<pages, request, resultMetaAvailable, rowCounter, isClosing,
                   waiters, pool, executions, consumed>>

\* SwitchCursor pops a page with rows: the cursor moves to its first row.
\* The last page ends the call; otherwise the worker is joined first.
SwitchCursorPage ==
    /\ pc = "SwitchCursor" /\ App \notin waiters
    /\ queue # <<>>
    /\ LET p == Head(queue) IN
         /\ p # Failed /\ pages[p] > 0
         /\ queue' = Tail(queue)
         /\ result' = p /\ cursor' = p /\ curPos' = 1
         /\ \/ /\ NextToken(p) = NoToken
               /\ hasAsyncFetch' = FALSE
               /\ ReadRow(p, 1)
            \/ /\ NextToken(p) # NoToken
               /\ pc' = "join"
               /\ UNCHANGED <<hasAsyncFetch, consumed, rowCounter, next, ret>>
    /\ UNCHANGED <<pages, request, resultMetaAvailable, isClosing, waiters,
                   pool, executions>>

\* Mutant of SwitchCursorPrefetch: the front thread is popped without a join.
SwitchCursorPrefetchUnjoined ==
    /\ pc = "join"
    /\ StartWorker(NextToken(result),
                   IF threads = <<>> THEN <<>> ELSE Tail(threads))
    /\ ReadRow(cursor, curPos)
    /\ UNCHANGED <<pages, position, resultMetaAvailable, hasAsyncFetch,
                   context, executions>>

\* The rest of SwitchCursor once the front thread, if any, has ended: it is
\* popped, the token is stored and the next worker started; FetchNextRow then
\* reads the row.
SwitchCursorPrefetch ==
    /\ pc = "join"
    /\ threads # <<>> => worker[Head(threads)] = "ended"
    /\ StartWorker(NextToken(result),
                   IF threads = <<>> THEN <<>> ELSE Tail(threads))
    /\ ReadRow(cursor, curPos)
    /\ UNCHANGED <<pages, position, resultMetaAvailable, hasAsyncFetch,
                   context, executions>>

-----------------------------------------------------------------------------
(* AsyncFetchOnePage *)

\* Mutant of WorkerQuery: a worker whose query failed ends at once.
WorkerQueryGivesUp(t) ==
    /\ worker[t] = "querying"
    /\ \E o \in Query :
         /\ fetched' = [fetched EXCEPT ![t] = o]
         /\ worker' = [worker EXCEPT ![t] =
                          IF o = Failed THEN "ended" ELSE "holding"]
    /\ UNCHANGED <<pages, request, position, resultMetaAvailable,
                   hasAsyncFetch, rowCounter, context, threads, call,
                   executions, consumed>>

\* The worker's call of Query returns; it has read the shared request_.
WorkerQuery(t) ==
    /\ worker[t] = "querying"
    /\ \E o \in Query : fetched' = [fetched EXCEPT ![t] = o]
    /\ worker' = [worker EXCEPT ![t] = "holding"]
    /\ UNCHANGED <<pages, request, position, resultMetaAvailable,
                   hasAsyncFetch, rowCounter, context, threads, call,
                   executions, consumed>>

\* Mutant of NotifyOne: the notification is forgotten.
NotifyNobody == UNCHANGED waiters

\* notify_one wakes one of the threads asleep, if there is one.
NotifyOne ==
    \/ waiters = {} /\ UNCHANGED waiters
    \/ \E w \in waiters : waiters' = waiters \ {w}

\* The lock region of AsyncFetchOnePage: push to an empty queue, sleep on a
\* full one, drop the outcome when the query is closing.
WorkerDeliver(t) ==
    /\ worker[t] = "holding" /\ t \notin waiters
    /\ IF queue = <<>>
       THEN /\ queue' = Append(queue, fetched[t])
            /\ NotifyOne
            /\ worker' = [worker EXCEPT ![t] = "ended"]
       ELSE IF isClosing
       THEN /\ worker' = [worker EXCEPT ![t] = "ended"]
            /\ UNCHANGED <<queue, waiters>>
       ELSE /\ waiters' = waiters \cup {t}
            /\ UNCHANGED <<queue, worker>>
    /\ UNCHANGED <<pages, request, position, resultMetaAvailable,
                   hasAsyncFetch, rowCounter, isClosing, threads, fetched,
                   call, executions, consumed>>

\* A condition variable may wake a thread that nobody notified.
SpuriousWakeup(w) ==
    /\ w \in waiters
    /\ waiters' = waiters \ {w}
    /\ UNCHANGED <<pages, request, position, resultMetaAvailable,
                   hasAsyncFetch, rowCounter, queue, isClosing, pool, call,
                   executions, consumed>>

-----------------------------------------------------------------------------
(* Cancel, Close, GetMeta, GetColumn, the destructor *)

\* DataQuery::Cancel.  CancelQuery of the service may succeed, say that the
\* query has ended (ValidationException), or fail.
Cancel ==
    /\ pc = "idle"
    /\ \/ /\ ~hasAsyncFetch \/ result # NoPage
          /\ BeginClose("idle", "AI_SUCCESS")
       \/ /\ hasAsyncFetch
          /\ Return("AI_ERROR")
          /\ UNCHANGED isClosing
    /\ UNCHANGED <<pages, request, position, resultMetaAvailable,
                   hasAsyncFetch, rowCounter, queue, waiters, pool,
                   executions, consumed>>

\* DataQuery::Close, called by Statement::InternalClose when DataAvailable.
Close ==
    /\ pc = "idle" /\ cursor # NoPage
    /\ BeginClose("idle", "AI_SUCCESS")
    /\ UNCHANGED <<pages, request, position, resultMetaAvailable,
                   hasAsyncFetch, rowCounter, queue, waiters, pool,
                   executions, consumed>>

\* DataQuery::GetMeta without metadata: MakeRequestResultsetMeta sends a
\* request of its own; its failure closes the query, and a result without
\* column information leaves the metadata unavailable.
GetMeta ==
    /\ pc = "idle" /\ ~resultMetaAvailable
    /\ \/ /\ BeginClose("idle", "AI_ERROR")
          /\ UNCHANGED resultMetaAvailable
       \/ /\ resultMetaAvailable' \in BOOLEAN
          /\ Return(IF resultMetaAvailable' THEN "AI_SUCCESS" ELSE "AI_ERROR")
          /\ UNCHANGED isClosing
    /\ UNCHANGED <<pages, request, position, hasAsyncFetch, rowCounter, queue,
                   waiters, pool, executions, consumed>>

\* DataQuery::GetColumn.
GetColumn ==
    /\ pc = "idle"
    /\ \/ cursor = NoPage /\ Return("AI_NO_DATA")
       \/ cursor # NoPage /\ ~HasData /\ Return("AI_ERROR")
       \/ HasData /\ \E r \in {"AI_SUCCESS", "AI_ERROR"} : Return(r)
    /\ UNCHANGED <<pages, request, position, resultMetaAvailable,
                   hasAsyncFetch, rowCounter, context, pool, executions,
                   consumed>>

\* Mutant of Destroy: it closes only a query whose cursor is open.
DestroyIfCursor ==
    /\ pc = "idle"
    /\ \/ /\ cursor # NoPage
          /\ BeginClose("destroyed", "none")
       \/ /\ cursor = NoPage
          /\ pc' = "destroyed" /\ ret' = "none"
          /\ UNCHANGED <<next, isClosing>>
    /\ UNCHANGED <<pages, request, position, resultMetaAvailable,
                   hasAsyncFetch, rowCounter, queue, waiters, pool,
                   executions, consumed>>

\* ~DataQuery: threads are joined only when there is a result.
Destroy ==
    /\ pc = "idle"
    /\ \/ /\ result # NoPage
          /\ BeginClose("destroyed", "none")
       \/ /\ result = NoPage
          /\ pc' = "destroyed" /\ ret' = "none"
          /\ UNCHANGED <<next, isClosing>>
    /\ UNCHANGED <<pages, request, position, resultMetaAvailable,
                   hasAsyncFetch, rowCounter, queue, waiters, pool,
                   executions, consumed>>

\* One turn of InternalClose's loop: join and pop the front thread.
CloseJoin ==
    /\ pc = "InternalClose"
    /\ threads # <<>> /\ worker[Head(threads)] = "ended"
    /\ threads' = Tail(threads)
    /\ UNCHANGED <<pages, request, position, resultMetaAvailable,
                   hasAsyncFetch, rowCounter, context, worker, fetched, call,
                   executions, consumed>>

\* The end of InternalClose.  queue_, isClosing_, hasAsyncFetch, rowCounter
\* and the token of request_ keep their values.
CloseDone ==
    /\ pc = "InternalClose" /\ threads = <<>>
    /\ result' = NoPage /\ cursor' = NoPage /\ curPos' = 0
    /\ pc' = next /\ next' = "idle"
    /\ UNCHANGED <<pages, request, resultMetaAvailable, hasAsyncFetch,
                   rowCounter, context, pool, ret, executions, consumed>>

-----------------------------------------------------------------------------
\* A destroyed query takes no step: the ODBC handle is gone.
Destroyed == pc = "destroyed" /\ UNCHANGED vars

Next ==
    \/ Execute \/ ExecuteFails \/ ExecuteEmptyPage \/ ExecutePage
    \/ FetchNoData \/ FetchRow \/ FetchEndOfPage
    \/ SwitchCursorWait \/ SwitchCursorStops \/ SwitchCursorPage
    \/ SwitchCursorPrefetch
    \/ Cancel \/ Close \/ GetMeta \/ GetColumn \/ Destroy
    \/ CloseJoin \/ CloseDone
    \/ \E t \in Thread : WorkerQuery(t) \/ WorkerDeliver(t)
    \/ \E w \in Thread \cup {App} : SpuriousWakeup(w)
    \/ Destroyed

Spec == Init /\ [][Next]_vars

\* The steps the application thread takes inside a call: it does not stop
\* there, but waits for join() and for the condition variable.
InsideCall ==
    \/ ExecuteFails \/ ExecuteEmptyPage \/ ExecutePage
    \/ SwitchCursorWait \/ SwitchCursorStops \/ SwitchCursorPage
    \/ SwitchCursorPrefetch \/ CloseJoin \/ CloseDone

\* The operating system runs every thread that can run, and a call of the
\* service returns.
Fairness ==
    /\ WF_vars(InsideCall)
    /\ \A t \in Thread : WF_vars(WorkerQuery(t)) /\ WF_vars(WorkerDeliver(t))

FairSpec == Spec /\ Fairness

-----------------------------------------------------------------------------
(* Properties *)

TypeOK ==
    /\ pages \in Results
    /\ token \in Outcome
    /\ result \in Outcome /\ cursor \in Outcome /\ curPos \in Nat
    /\ resultMetaAvailable \in BOOLEAN
    /\ hasAsyncFetch \in BOOLEAN
    /\ rowCounter \in Nat
    /\ queue \in Seq(Outcome)
    /\ isClosing \in BOOLEAN
    /\ waiters \subseteq Thread \cup {App}
    /\ threads \in Seq(Thread)
    /\ worker \in [Thread -> {"querying", "holding", "ended"}]
    /\ fetched \in [Thread -> Outcome]
    /\ pc \in Control /\ next \in {"idle", "MakeRequestExecute", "destroyed"}
    /\ ret \in Returned
    /\ executions \in 0 .. MaxExecute
    /\ consumed \in Seq(Nat \X Nat)

\* A thread that has not ended is the one in threads_, and threads_ holds one
\* at most: SwitchCursor joins the front thread before it starts another, and
\* InternalClose drains the queue.
OneWorker ==
    /\ Len(threads) <= 1
    /\ \A t \in Thread : worker[t] # "ended" => threads = <<t>>

\* ~DataQuery and Execute look at result_ to decide whether there are threads
\* to join: a query that has threads has a result, whatever failed before.
ThreadsHaveResult ==
    threads # <<>> => result # NoPage \/ pc = "InternalClose"

\* When the object is gone no thread is left that uses its request_ and its
\* context_, and threads_ is empty (a joinable std::thread would terminate the
\* process).
DestroyedQuiet ==
    pc = "destroyed" =>
        threads = <<>> /\ \A t \in Thread : worker[t] = "ended"

\* "context_.queue_ hold one element at most" (data_query.cpp, in
\* AsyncFetchOnePage).
OneOutcomeQueued == Len(queue) <= 1

\* Neither SwitchCursor's pop nor InternalClose notifies the condition
\* variable, so a worker asleep on it would sleep forever and every join on it
\* would hang: no worker ever goes to sleep.
WorkersNeverSleep == waiters \subseteq {App}

\* request_ is shared with the worker by reference and without a lock: the
\* application thread writes it (SetQueryString, SetNextToken) only while no
\* worker is inside Query.
RequestStable ==
    [][ token' # token \/ (pc' = "MakeRequestExecute" /\ pc # pc')
        => \A t \in Thread : worker[t] # "querying" ]_vars

-----------------------------------------------------------------------------
(* The inductive invariant behind the properties above *)

Running == \E t \in Thread : worker[t] # "ended"

\* An outcome is left in the queue while the next worker runs only after an
\* InternalClose, and isClosing_ is never reset: that worker drops its page.
LeftoverMeansClosing ==
    /\ queue # <<>> => isClosing \/ (~Running /\ result # NoPage)
    /\ pc = "InternalClose" => isClosing

\* MakeRequestExecute runs without threads, and what it finds in the queue was
\* left by an earlier execution.
ExecuteAlone ==
    pc = "MakeRequestExecute" => threads = <<>> /\ (queue # <<>> => isClosing)

\* SwitchCursor waits in join() for a worker that has delivered its page,
\* except after an InternalClose.
JoinAfterPop ==
    pc = "join" => /\ result # NoPage
                   /\ isClosing \/ (queue = <<>> /\ ~Running)

IndInv ==
    /\ TypeOK
    /\ OneWorker
    /\ ThreadsHaveResult
    /\ DestroyedQuiet
    /\ OneOutcomeQueued
    /\ WorkersNeverSleep
    /\ LeftoverMeansClosing
    /\ ExecuteAlone
    /\ JoinAfterPop

-----------------------------------------------------------------------------
(* Delivery of rows.  These hold for the first execution of a query whose  *)
(* pages all have rows from the first such page on.                        *)

\* Row y is the first of the result; row y is the one after row x.
FirstRow(y) ==
    y[2] = 1 /\ pages[y[1]] > 0 /\ \A q \in 1 .. y[1] - 1 : pages[q] = 0

RowAfter(x, y) ==
    \/ y[1] = x[1] /\ y[2] = x[2] + 1 /\ y[2] <= pages[y[1]]
    \/ /\ x[2] = pages[x[1]]
       /\ y[1] > x[1] /\ y[2] = 1 /\ pages[y[1]] > 0
       /\ \A q \in x[1] + 1 .. y[1] - 1 : pages[q] = 0

\* The rows FetchNextRow has read since Execute are the first rows of the
\* result in its order: none skipped, none twice, at every page boundary and
\* whatever the timing of the prefetch.
DeliveredInOrder ==
    /\ consumed # <<>> => FirstRow(consumed[1])
    /\ \A i \in 2 .. Len(consumed) : RowAfter(consumed[i - 1], consumed[i])

\* While the cursor is open, SQL_NO_DATA means that the whole result was read:
\* no page after the last row read has rows.
NoDataMeansComplete ==
    pc = "idle" /\ ret = "AI_NO_DATA" /\ cursor # NoPage =>
        LET last == consumed[Len(consumed)]
        IN  /\ consumed # <<>> /\ last[2] = pages[last[1]]
            /\ \A q \in last[1] + 1 .. Len(pages) : pages[q] = 0

\* A page that SwitchCursor would wait for is queued or still on its way.
PageOnItsWay ==
    pc \in {"idle", "SwitchCursor"} /\ cursor # NoPage /\ hasAsyncFetch
        => queue # <<>> \/ \E t \in Thread : worker[t] # "ended"

\* Every call returns: the handshake on the condition variable and the joins
\* never block the application for good.
CallsReturn == pc \notin {"idle", "destroyed"} ~> pc \in {"idle", "destroyed"}

-----------------------------------------------------------------------------
(* The stream of rows a DataQuery implements *)

\* The rows of the result.
Rows == UNION {{<<p, r>> : r \in 1 .. pages[p]} : p \in Page}

StreamState ==
    IF cursor = NoPage \/ pc = "InternalClose" THEN "closed"
    ELSE IF ret = "AI_NO_DATA" THEN "end" ELSE "open"

Stream == INSTANCE RowStream
            WITH rows <- Rows, out <- consumed, state <- StreamState

\* The paged, prefetching query is a RowStream: every step of the application
\* and of the workers is a step of the stream or invisible to its reader.
StreamsRows == Stream!Spec

=============================================================================
