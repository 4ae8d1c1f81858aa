# TLA+ verification of the Trino ODBC driver

The driver (`src/odbc`) is a C++ library that an ODBC driver manager loads. An
application calls its C functions; the driver sends SQL to a query service, which
answers page by page, and hands the rows to the application's buffers. The project
models the parts whose behaviour depends on the order of events (the prefetching
result reader, the statement and its rowset fetch, the cursor names and descriptors that
statements share, the logger that all threads share, the handles and their diagnostics)
and the parts where many cases meet: catalog calls, conversion into bound buffers,
connection strings, and the DSN registry with its dialog. Paths below are relative to
`src/src/odbc/`.

## The system

| Component | State | Operations | What makes it hard |
|---|---|---|---|
| `DataQuery` (`src/query/data_query.cpp`) with `TrinoCursor` | `request_`, `result_`, `cursor_`, `threads_`, `context_` (mutex, condition variable, one-place queue, closing flag), `hasAsyncFetch`, `rowCounter` | Execute, FetchNextRow, SwitchCursor, Cancel, Close, GetMeta, GetColumn, destructor; `AsyncFetchOnePage` in a worker thread | a thread per prefetched page, a request shared by reference, a hand-over that is notified one way only, failures and closes at any point, re-execution |
| `Statement` (`src/statement.cpp`) | `currentQuery`, `rowArraySize`, `rowsFetched`, `rowStatuses`, bindings, four descriptors, attributes | prepare, execute, catalog functions, fetch, get data, close, cancel, attributes | any call may follow any other; a rowset goes on after errors and after the end |
| Vector queries (`table_metadata_query.cpp`, `column_metadata_query.cpp`, `type_info_query.cpp`) | rows in a vector, an iterator, `executed`, `fetched` | as above; the rows come from several `DataQuery` runs (SHOW, DESCRIBE) | a kept iterator over a vector that is cleared; partial failure of the gathering |
| Empty queries (eight catalog functions) | none | answer "no data" with a warning | - |
| Cursor names (`connection.cpp`, `statement.cpp`) | `cursorNames_`, `cursorNameMap_`, `cursorNameMutex_` | SQLSetCursorName, SQLGetCursorName, SQLFreeStmt(SQL_DROP) | statements in different threads, a test outside the mutex, addresses used as keys |
| Connection (`connection.cpp`), environment (`environment.cpp`), entry points (`odbc.cpp`, `entry_points.cpp`) | the handles, configuration, attributes, options | allocate, free, establish, release, set and get attributes, SQLGetFunctions, unsupported functions | attributes kept on another handle than the one they are set on; calls made of several calls; children that outlive a disconnect |
| Diagnostics (`src/diagnostic`, `common_types.cpp`) | header and status records per handle | reset per API call, add, SQLGetDiagRec, SQLGetDiagField, SQLError | calls that reset, or do not reset, the records of their own and of other handles |
| Descriptors (`odbc.cpp`, `descriptor.cpp`) | descriptor records, the statement's active and implicit ARD, back pointers | allocate, free, attach, copy, set fields | freeing in any order; two owners of one pointer |
| Connection string and configuration (`src/config`, `authentication/auth_type.cpp`) | twelve settings, each with a "set" flag | parse, merge with a DSN, write as map or string | parsing from the right, repeated and refused attributes, precedence, numeric width |
| DSN registry and dialog (`dsn_config.cpp`, `os/timestream/win`) | a section per DSN, the dialog's fields, the configuration it edits | ConfigDSN, read, register, remove, edit, OK, cancel, TEST | a write of several that fails, fields taken over before the last is validated, values that change on the way through text |
| Application data buffers (`src/app`, `timestream_column.cpp`) | target pointer, length, element offset | put and get of every type | truncation, elements of a rowset, lengths left from the row before |
| Type tables, SQLGetInfo (`type_traits.cpp`, `connection_info.cpp`) | constant tables; a switch read from the environment | look-up, translation | tables that must agree with each other and with the catalog rows |
| Logger (`log.cpp`, `log.h`) | singleton with stream, level, path, file | write, set level, set path | all threads share it; tests outside the mutex |
| SAML, helpers for time, interval and text, the Ignite common library | | network and pure value functions | not protocol state |

Calls go from the ODBC functions to `Statement`, to its query object, to the
service; a worker thread reports back through `context_`. Catalog queries own
`DataQuery` objects of their own. Statements meet in the connection's cursor names and
in the explicit descriptors that the application attaches to them.

## Modules

**`DataQuery`** - one query object, its application thread and its workers. `pc` says
where inside a call the application thread is (`MakeRequestExecute`, `SwitchCursor`,
waiting in `join`, `InternalClose`); `worker[t]` is where a thread is inside
`AsyncFetchOnePage`. A lock region is one step; waiting on the condition variable is
membership in `waiters`, so a lost or missing notification shows as a thread that
stays there. Spurious wake-ups are included. The service is external and modelled
from the calls made on it: the result is a sequence of pages (`pages[i]` rows in page
`i`), a token names the next page, every request may fail. Columns are not modelled: a
row is `<<page, row>>`, and converting one succeeds or fails. The application makes
one call at a time on the object.

**`RowStream`** - what a query promises its reader, with no pages and no threads: rows
once each, in order, and "no data" only after the last one. `DataQuery` implements it
(`StreamsRows`, an `INSTANCE` with the set of rows of all pages, the rows consumed and the
state of the cursor), which is checked and proved.

**`CursorNames`** - the names of one connection; a statement is used by a thread of its
own. `CursorNameExists` reads the set without the mutex: while a lock region of another
thread is under way its outcome is either answer. `overlap` records whether two calls
have ever been under way together.

**`Statement`** - one statement and the query it owns, seen through the `Query`
interface: what `Execute` and `FetchNextRow` of each kind may answer, and the query
object they leave. A fetch is one step per element of the rowset, because the query
answers each element separately and the loop goes on after an error. For SQL text only
the cursor of the `DataQuery` is kept; its pages are in module `DataQuery`.

**`Descriptors`** - statements, their implicit descriptors (`ardi`, `apdi`, `irdi`, `ipdi`),
explicit descriptors, and the pointers between them: the active `ard` of a statement,
`type_`, `conn_` and `stmt_` of a descriptor. Handles are addresses, so a freed one may be
allocated again while an old pointer to it is still kept. Records and header fields are
left out. A write through the pointer of a dropped statement changes nothing in the model
unless the address is a statement again; the driver manager's refusal to free an implicit
descriptor is taken for granted. `CopyOnto` says which descriptors the application copies
onto: unattached ones, as the repository's tests do, or any.

**`Diagnostics`, `SupportedFunctions`, `Handles`** - the handles and the calls an application
makes on them. `Diagnostics` has the storage of records as values and operators on them
(`ApiCall` is the macro `IGNITE_ODBC_API_CALL`: reset, run, set the header);
`SupportedFunctions` the exported functions that are not supported and what `SQLGetFunctions`
says; `Handles` has `live`, `parent`, the attributes of every kind of handle and `diag`, the
storage of each. Three variables are history: `accepted`, what was last set with success,
`taken`, the statements that are to have a row array size set on their connection, and
`answer`, the last answer, with a mark (`meta`) if the call needed the columns of the result. An action is one ODBC function, with every reset and every record it
leaves on its own and on other handles; what the query of a statement does is a choice of
outcomes there, since it is modelled in `Statement`. The driver manager (external) keeps an
application from freeing a handle before those allocated on it.

**`Tables`, `ConnectionInfo`, `TypeTraits`, `Catalog`** - `ConnectionInfo` holds the tables of
SQLGetInfo, `TypeTraits` the type tables, both as functions put together from smaller ones (`@@` of
`Tables`); `Catalog` extends them with the three catalog calls that have rows. `Execute` takes a step per SHOW or DESCRIBE it
sends (`job`), the service may fail or cut a reply short at each, and
`DATABASE_AS_SCHEMA`, which the code reads again at every use, may change in between. `calm`
records that nothing of the kind has happened in this call. Of the constants it assumes that NULL is no
value of a row (`NullAssumption`), that the service lists a database, and a table of a database, once and
by a name that is not empty (`ServerAssumption`), and that an argument is a text or null (`CallsAssumption`).

**`AppBuffer`** - one bound column and the elements of a rowset. A value is its kind, the
length of its text, its number and the set of its parts that are not zero; a conversion is
modelled by its result, the bytes it writes, the length it stores and the parts that arrive.
The sizes of `long` and of a wide character are parameters, as they are of the build, and so are the
ranges of the integers (`Half`) and the whole numbers a floating type holds exactly (`Exact`): a cast
is the remainder or the rounding that `static_cast` gives. The target may be null beside an
indicator; a conversion into a struct then faults, which ends the behaviour. What a
datum can be (`DataAssumption`: an empty text has no parts, an integer has a digit and no fraction,
a date no time) is stated of the constant `Data`; the elements of a list are scalars.

**`Configuration`, `Setup`** - `Configuration` has the settings, the parser and the
conversions to and from text as operators over sequences of tokens; the characters the parser
looks for are tokens of their own. `Setup` has the process: `SQLDriverConnect`, `SQLConnect`,
`ConfigDSN`, and the dialog's events, over a registry (external) whose every write may fail.

**`Logger`** - the singleton and its threads. Every access to level, path, stream pointer or
file without the mutex is a step of its own; a lock region is taken, and what it does is
one step or several while `mutex` names the thread. `overlapped` records that two threads
were about to open the file at the same time, `skipped` that a change of the path found the
log off or its file closed.

**`MCDataQuery`, ... `MCLogger`** - instances for TLC, one per run's module.
**`DataQueryProofs`, `StatementProofs`, `CursorNamesProofs`, `DescriptorsProofs`, `HandlesProofs`,
`AppBufferProofs`, `LoggerProofs`, `CatalogProofs`** - theorems.

Operators named "Mutant of ..." are deliberately wrong variants of the definition that
follows them. They are not part of any specification; replacing the definition by its
variant makes TLC find the property it belongs to violated, which shows that the
property depends on that line of the code.

## Runs

| Run | Checks | Instance |
|---|---|---|
| `dataquery_threads` | `OneWorker`, `DestroyedQuiet`, `WorkersNeverSleep`, `RequestStable` | pages with and without rows, three executions, two thread identities |
| `dataquery_delivery` | `DeliveredInOrder`, `NoDataMeansComplete`, `PageOnItsWay`, `CallsReturn`, `StreamsRows` | one execution, pages with rows from the first such page on |
| `dataquery_reexecute` | `DeliveredInOrder` is violated | two executions |
| `cursornames_threads` | `NoPhantomName`, `UniqueWhenApart`, `OwnedWhenApart` | three statements, two plain names, a long one, a reserved one |
| `statement_all` | `RowsInOrder`, `EndIsFinal`, `RowNumberCounts`, `FetchAnswers` | every kind of query, up to three rows, rowsets of 0, 1, 2, 4 |
| `descriptors_all` | `ActiveIsLive`, `ActiveExclusive` | two statements on one connection, one on another, three explicit descriptors, copies onto unattached ones |
| `descriptors_copy` | `ActiveIsLive` is violated | copies onto any descriptor |
| `appbuffer_rows` | `ElementsApart`, `NoSilentLoss`, `LengthIsFresh`, `ReadsBack` | 19 C types, 10 buffer lengths, 28 values, with and without target and indicator, rowsets of two rows |
| `catalog_all` | `PlacedAsAnnounced`, `TablesAreThoseMatching`, `LossIsRecorded`, `NoNullWhereDeclared`, `TypesAreListed` | three databases, 160 argument lists of SQLTables and 112 of SQLColumns, one change of the switch |
| `handles_all` | `ErrorIsExplained`, `AttributesReadBack`, `OthersDiagnosticsKept` | one environment, connection and descriptor, two statements, seven calls |
| `setup_all` | `FirstWins`, `RefusalIsRecorded`, `UneditedSurvives`, `TestPredicts` | some 880 connection strings, four registries, four calls or events of the dialog |
| `logger_threads` | `OneInstance`, `FailsOnlyByOverlap`, `PlacedInPath`, `CallsReturn` | two threads, two paths, five calls |

What the passing runs show: the threading discipline of `DataQuery` holds however often the
query is executed, closed, cancelled or destroyed and whatever the service answers; a first
execution delivers the result; the statement's rowsets are consistent with the cursor of every
kind of query; a statement's active descriptor exists and is its own. A conversion never leaves
its element and, given a target, never leaves the length of another row; it tells when it loses a
text, a timestamp or a time, or an integer in a type that can hold it (a cast into a smaller type says
nothing). Catalog rows are those that match, in the columns SQLGetInfo announces. A call that fails
can be explained from the records of its handle, whatever was called before, unless it is one of
three that need the columns of the result. On a new connection a setting comes from the first source
that gives an acceptable one, a refused one leaves a record, and a setting survives a reconfiguration
that does not touch it. The logger is created once, its calls return, and its messages go to the path
in force as long as no change of the path met a log that was off or a closed file.

The violated runs are disagreements between the code and what it says of itself:

* **Re-execution.** `InternalClose` resets `result_` and `cursor_` only. The next token,
  the queue, the closing flag, `hasAsyncFetch` and the row counter survive, so a second
  execution of a prepared query starts from a later page and may read a page queued for
  the first. The driver reports `SQL_CB_CLOSE`: prepared statements can be executed again.
* **Copying onto an active descriptor.** `SQLCopyDesc` overwrites the destination's type and
  back pointers. Freeing it then restores nothing in the statement where it is active, which is
  left with a pointer to a deleted descriptor.

### Where the properties stop

Each property states the case in which the code keeps it. What lies outside was met while
modelling, and is in the models as the code has it:

* *Empty page* (`NoDataMeansComplete`, `CallsReturn` assume pages with rows). `SwitchCursor` takes
  a page without rows for the end of the data even if it has a next token, and leaves
  `hasAsyncFetch` set: the next fetch waits for a page that no thread fetches.
* *Unique names* (`UniqueWhenApart`). The test is made outside the mutex; two overlapping calls
  both pass it. A name passed with SQL_NTS skips the length limit.
* *SQLColumns without a result.* For arguments that select nothing the call answers `SQL_SUCCESS_WITH_INFO`
  and its record says that an empty result set is returned (`column_metadata_query.cpp:178-184`), but `executed` stays false: the
  fetch that follows is an HY010 error instead of no data. No property is about this; the model has it.
* *Options of a connection* (`AttributesReadBack`). "Set statement attributes that are set to this connection"
  (`connection.cpp:219`): `Statement::SetAttribute` passes the address of each option where the value belongs, every one is
  refused, and the new statement keeps its defaults (`statement.cpp:432-438`). `taken` is the set of statements this is true of.
* *Rowsets.* A row array size of 0 answers no data; `SQLExtendedFetch` reports one row whatever
  the size; a row whose conversion failed is under the cursor but not in the row number.
* *Freeing a descriptor that is not active* restores the implicit ARD of the statement `stmt_`
  names although another descriptor is active there.
* *Buffers.* Interval types and `SQL_C_DEFAULT` have elements of size 0 (`ElementsApart`). Numbers
  are cast without a word: to the low bytes in a smaller integer, rounded in a floating type; the smallest
  integer has no absolute value for NUMERIC; a date in a wide buffer and fractions are cut silently, too (`Guarded` of
  `NoSilentLoss` lists what is not). A null target with an indicator gets no length from a text (`LengthIsFresh`), and
  a struct faults. A date or time in a wide buffer has its length stored in characters and read as bytes, so that a
  part of the text is parsed (`ReadsBack`). A NULL into a date or timestamp writes nothing; `LONG` is written as 32 bits and
  read as a `long` (`ReadsBack`); a timestamp without a fraction gets an uninitialised one.
* *Catalog.* `ORDINAL_POSITION` counts the columns that matched, not those of the table; a DESCRIBE
  that fails ends the list, with a record; an identifier finds the first database equal but for case only.
* *Diagnostics.* SQLNumResultCols and SQLColAttribute answer SQL_ERROR without a record when the result has
  no columns, and SQLDescribeCol when one of its five requests failed and a later one, which starts with a reset,
  did not (`ErrorIsExplained`). Unsupported functions add to the records of earlier calls; a new statement may start
  with records of its own; states HY004 and HY008 read as an empty SQLSTATE; SQLGetDiagField does
  not know descriptors.
* *Settings.* Three statements of `docs/markdown/setup/connection-string.md` are not what the code does. A request timeout
  of 0 disables the timeout (line 83): the parser refuses it with a warning and the default stays. A number of retries is
  non-negative (line 85): one of 2^31 to 2^32 - 1 is accepted and stored as a negative `int32_t`. An option given twice
  leaves 01S02 (line 183): only UID and PWD do. `FirstWins` takes what the parser accepts as acceptable and leaves out the numbers
  that `int32_t` does not hold; `RefusalIsRecorded` leaves out repetitions, pieces without `=` and a log path
  that is no directory. A second connect on a connection finds the settings of the first; a DSN section with an empty number reads as an uninitialised one; the dialog lists four
  of six authentication types, keeps what it had taken over when OK is refused and then cancelled,
  and TEST changes the logging of the process; a registration that fails leaves a section that is
  partly written.
* *Logger.* Two threads that find the file closed both open it, and the second open sets the fail
  bit: from then on messages are lost (`FailsOnlyByOverlap`). A change of path while the log is off
  keeps the old file's name (`PlacedInPath`).

The commit is in the middle of a port, and some code does not fit together: `Connection` uses an
environment it has no member for, its client is never set (so a release always warns 08003), the
dialog reads a region and a number of connections that `Configuration` does not have. The models follow the uses.

### Bounds

* `MaxExecute` (3 in `dataquery_threads`): leftovers of one execution meet the next, and
  leftovers of that one the third; `isClosing_` never returns to false, so a fourth
  execution starts in a state like the third's.
* `MaxOverrun` (2): fetches past the end of a page; nothing but `curPos` changes there.
* Pages: three or four with at most three rows make a first, a middle and a last page,
  with a first, a middle and a last row, and empty pages in every place.
* Two thread identities: `OneWorker` shows one is alive at most; the second lets a new
  thread be started while the old one is still in `threads_`.
* `MaxRows` 3 and rowsets of 0, 1, 2, 4: the rowset ends before, at and after the end of the
  result, and in two fetches.
* Three explicit descriptors: one active, one that replaced it or is its copy, one more to attach;
  three statements so that two share a connection and one does not.
* `appbuffer_rows`: buffer lengths below, at and above every text and element size, in bytes and in wide
  characters; two rows, so that a row has a neighbour; a rowset after the first, so that an element was used before.
  `LongSize` 8 and `WCharSize` 4 are the Linux build. Integers have 3, 6, 12 and 24 bits, with FLOAT between the second
  and the third and DOUBLE between the last two as in the build, so that values fall on either side of every width.
  `CHECK_DEADLOCK FALSE` because a fault ends the process.
* `catalog_all`: two tables that differ in case, a database without tables, a table name in two databases; null,
  empty, pattern, exact and unknown arguments in every combination. `MaxChanges` 1: the switch changes before,
  between or after any two requests of a call.
* `handles_all`: `MaxCalls` 7 allocates the handles and leaves three calls to interact; `MaxRecords` 2 bounds
  the records that calls without a reset pile up. `CHECK_DEADLOCK FALSE` because the calls run out.
* `setup_all`: connection strings are two pieces of every kind in either order, with a DSN or without; integers
  have 8 bits, so that 200 and 300 are what 2^31 and 2^32 are to the code; `MaxCalls` 4 opens the dialog, edits,
  tests and accepts. Writes may fail at once or midway (`FailAt`). The calls run out here, too.
* `logger_threads`: two threads make every race of the code between two accesses; five calls open the file, change the
  path and write before and after it. The calls run out.
* Three statements in `cursornames_threads`: two in conflict and one that renames or drops in between. Statements
  are symmetric, and so are thread identities; symmetry is used only in runs without
  liveness properties.

### Fairness

`FairSpec` assumes weak fairness of the steps the application thread takes inside a call
and of each worker: the operating system schedules runnable threads, and a request to the
service returns (with success or failure; the client has a timeout). Nothing is assumed of
the application, which may never call again, nor of spurious wake-ups: `CallsReturn` holds
because of the notifications alone.

In `Logger` every step of a thread inside a call is weakly fair, its calls are not. Waiting for the mutex is a
step that is enabled only while the mutex is free; since the threads make a bounded number of calls, none can
find it taken for ever, and weak fairness is enough.

## Proofs

`DataQueryProofs` proves, for every set of results, every set of threads and every bound:

* `TypeCorrect` - `Spec => []TypeOK`;
* `ThreadsAccounted` - one worker at most and it is the one in `threads_`; threads imply a
  result (so that the destructor joins them); a destroyed query is quiet; one outcome queued
  at most;
* `NoWorkerSleeps` - no worker ever waits on the condition variable. Nothing notifies a worker,
  so this is what rules out a hanging join;
* `RequestNeverRaces` - the shared request is written only while no worker is inside `Query`.

They rest on `IndInv`. `OneWorker` and the others are not inductive: whether a worker finds a
leftover outcome in the queue depends on what an earlier execution did. The strengthening says
that an outcome can only be left over next to a running worker after a close
(`LeftoverMeansClosing`: then `isClosing_` is set for good and the worker drops its page instead
of waiting), that `MakeRequestExecute` runs without threads (`ExecuteAlone`), and that the worker
`SwitchCursor` joins has delivered already unless the query is closing (`JoinAfterPop`).

On a first execution (`executions <= 1`) it also proves what the reader of the rows sees:

* `RowsDelivered` - `DeliveredInOrder`, for any results, empty pages anywhere in them included;
* `EndReported` and `PagesOnTheirWay` - `NoDataMeansComplete` and `PageOnItsWay`, for results with no empty
  page behind one with rows (`SolidResults`);
* `QueryIsAStream` - `Spec => StreamsRows`, the refinement of `RowStream`, for such results and
  `MaxExecute <= 1`;
* `NothingOutlivesTheQuery` - `DestroyedQuiet`, for any number of executions.

The two provisos are what the code needs. After a re-execution an outcome queued for the first execution may be
read as a page of the second: `dataquery_reexecute` is the counterexample. An empty page behind one with
rows ends the data early (see "Where the properties stop"). `DeliveryInv` relates the cursor, the queue, the
next token and the worker's page: nothing is there before Execute (`NothingExecuted`), Execute skips empty pages only
(`ExecuteSkipsEmpty`), the row read last is the one the cursor stands on or the last of its page (`CursorAtLast`),
`SwitchCursor` joins before it reads the first row of the new page (`JoinBeforeRow`), and the page queued, held by the
worker or asked for is the one after the cursor's (`NextPageAhead`).
`EndInv` adds that a page that is not the last has its successor on the way, and `StreamInv` that the rows read are
exactly those up to the last one.

`StatementProofs` proves `StatementSafe`, `ReadInOrder`
(`RowsInOrder`), `NoRowAfterTheEnd` (`EndIsFinal`), `RowNumberIsCount` (`RowNumberCounts`) and `FetchTellsTheTruth`
(`FetchAnswers`, an action property), for results and rowsets of any size and any sequence of calls. `StatementInv` adds
to the properties that the number of rows read is what the cursor of the query says, which differs between `DataQuery` and
the vector queries (`CursorCounts`), that an element without a row was found at the end of the result (`NoRowMeansEnd`), and
that an element has a row when its status says so (`StatusTellsRow`).

`CursorNamesProofs` proves, for every set of statements and names:

* `NamesReclaimed` - with any number of threads the lock regions exclude each other, each name in
  use has an owner and a dropped statement leaves no entry;
* `NamesUniqueApart` - until two calls overlap, names are unique and the set is exactly the owned
  names (`NamesOwnedApart` is the second half). The strengthening (`TestedStaysUnused`) says that a name that
  passed the test is still unused when it is entered, and what the set lacks inside a lock region.

`DescriptorsProofs` proves `ActiveSafe`, for every set of statements, descriptors and connections,
provided the application copies onto unattached descriptors only: the active ARD of a live statement
exists, belongs to its connection and is no other statement's, and a descriptor whose type makes
`Deregister` write to a statement points to one. The strengthening (`ActivePointsBack`) says that an
explicit active ARD points back to its statement with type ARD, which is what `Deregister` and the
test in `InternalSetAttribute` rely on; `ImplicitOwned` keeps implicit descriptors out of reach of
other statements. `ActiveIsExclusive` is its part about `ActiveExclusive`. Without the proviso
`descriptors_copy` refutes `ActiveIsLive`.

`HandlesProofs` proves, for any number of environments, connections, statements, descriptors and calls:

* `HandlesSafe` - `HandlesInv`: the handles are a forest of three levels (`TreeOK`), each object's members hold what was last
  accepted for them (`EnvKeeps`, `ConnKeeps`, `StmtKeeps`), and every storage of records is well formed (`DiagOK`);
* `ErrorsExplained` - `ErrorIsExplained`, for every call but the three that need the columns of the result. It needs the forest, since a call may go through the handles its own was
  allocated on, and `DiagOK`, since records are looked up by their number;
* `AttributesKept` - `AttributesReadBack`, but for a row array size that an option of the connection is to give (see "Where the properties stop").
  A statement reads `SQL_ATTR_METADATA_ID` through the connection for as long as it lives, which the forest keeps in place;
* `OthersKept` - `OthersDiagnosticsKept`, an action property.

`AppBufferProofs` proves all four properties of `AppBuffer` for every C type, buffers, texts, lists and rowsets of any size and every
value that satisfies `DataAssumption`, integers of any width (`NumberAssumption`) and targets that may be null: `RowsApart` (`ElementsApart`),
`SuccessIsWhole` (`NoSilentLoss`, where the code looks for a loss and there is a target), `LengthsFresh` (`LengthIsFresh`, but for a text without
a target) and `PutIsReadBack` (`ReadsBack`, but for a date or time in a wide buffer with an indicator). The inductive invariant `BufferInv` says of every element that it holds what the
conversion of its own datum left, where `SetElementOffset` puts it, untouched by later rows. Under it lies one lemma for each Put
function: the bytes written stay inside the element (`Inside`, with `RoomFits` for the characters next to the terminating zero), a success
stores a length (`Fresh`, with a target) and is the whole text (`WholeText`). No later row touches an earlier one because the offsets are multiples of
the element size (`Spacing`).

`LoggerProofs` proves, for every set of threads, paths and levels and every number of calls:

* `TypeCorrect` - `Spec => []TypeOK`;
* `CreatedOnce` - `OneInstance`: the second test and the creation are one lock region, so however many threads
  passed the first test, only one of them finds the logger missing;
* `FileFailsOnlyByOverlap` - `FailsOnlyByOverlap`. The invariant (`OverlapInv`) adds `OverlapSeen`: until two threads
  overlap, a thread that is about to open the file is the only one and finds it closed;
* `MessagesPlaced` - `PlacedInPath`, an action property. The invariant (`PlaceInv`) says which thread holds
  the mutex (`Holder`), that the open file is the one named (`FileNamed`), that the name lies in the log path except while a thread changes it (`PathKept`), and that
  a thread in a call has seen the path and the directory of the named file (`SeenPath`).

`CatalogProofs` proves all five invariants of `Catalog`, for every service, every set of argument lists, replies that fail or are cut
short at any point, and the environment variable changing at any time:

* `TablesMatched` - `TablesAreThoseMatching`, provided no two databases of the service differ in case only (`NamesApart`). The proviso
  is what the code needs: with `SQL_ATTR_METADATA_ID` it stops at the first database equal but for case, while
  `Matching` counts the tables of each such database;
* `LossRecorded` - `LossIsRecorded`;
* `DatabasesPlaced` - `PlacedAsAnnounced`. The two entries of SQLGetInfo it compares with are looked up in the merged tables, for which
  each table in front is shown not to have them (`Announced`);
* `NullsDeclared` - `NoNullWhereDeclared`;
* `TypesListed` - `TypesAreListed`, from the type tables alone once a row is known to have one of the scalar types.

None of them is inductive: they speak of a finished call, which several requests led to. `CatalogInv` (theorem `CatalogSafe`) says what
holds between two replies. A call that waits has a query, no rows yet unless it describes tables, and requests
to come (`JobOK`); the database of each row gathered so far is on the side of the variable, as long as
that has not changed (`PlaceOK`); the tables gathered are those of the databases that are done, and those to do are databases that match, each
once (`MatchOK`, with `Gathered`); each table that matches has rows or is still to be described, unless a record was left (`CoverOK`); and a call that is no longer
`calm` has left a record or met a change of the variable (`Good`). Filtering (`Keep`) is defined by ranks rather than by recursion, so that what it returns
can be proved: it returns the elements of the set, each position once (`KeepIndex`).

Only model-checked: the properties of `Setup`, and liveness (`CallsReturn` of `DataQuery` and of `Logger`), which the prover
does not reach. `Setup` parses with a recursive function and with folds over sequences of tokens, and its numbers are tokens that TLC's `ToString` writes, of
which no prover knows anything: what the parser computes for every string would need induction over data with an operator as parameter. Where an
induction over numbers was needed (`HandlesProofs`), it was replaced by the least element of a set of numbers, which the library's `WFMin` gives.

## Not modelled

Descriptor records and column bindings: the records are a copy of the bindings that no fetch reads, and
their type fields can be set so that they contradict each other; what would make them right is not said.
Credentials, SAML, proxies and TLS (external services; an outcome of establishing a connection). Digits and
characters of converted values, message texts, layout of the dialog. The value classes of the Ignite library.
Two calls at the same time on one statement (SQLCancel from another thread): most members are then
accessed without synchronisation. Examples, performance tests and the installers.

## Plan

1. `Setup`: a form of the parser without folds (the pieces of a string and the first that sets a key, which `FirstWins` takes as its reference)
   and numerals as a constant, after which `UneditedSurvives` and `FirstWins` could be proved.
2. Bindings: withdrawal of a buffer through every way to unbind it, composed with `Descriptors`.
