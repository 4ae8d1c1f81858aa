----------------------------- MODULE CursorNames -----------------------------
(***************************************************************************)
(* The cursor names of one connection: cursorNames_ (the names in use) and *)
(* cursorNameMap_ (the name of each statement), written under              *)
(* cursorNameMutex_ by SQLSetCursorName and SQLFreeStmt(SQL_DROP) of       *)
(* statements used by different threads, one thread to a statement, and    *)
(* read by CursorNameExists without the mutex.                             *)
(***************************************************************************)
EXTENDS FiniteSets

CONSTANTS
    Stmt,           \* statement handles (addresses: reused after a drop)
    Name,           \* cursor names
    LongName,       \* those longer than CURSOR_NAME_MAX_LENGTH
    ReservedName,   \* those that start with SQL_CUR
    NoName,         \* no entry in cursorNameMap_
    Free            \* nobody holds cursorNameMutex_

ASSUME NameAssumption ==
    /\ LongName \subseteq Name /\ ReservedName \subseteq Name
    /\ NoName \notin Name
ASSUME MutexAssumption == Free \notin Stmt

VARIABLES
    live,           \* statements that are allocated
    cursorNameMap,
    cursorNames,
    mutex,          \* holder of cursorNameMutex_
    pc,             \* where the thread of each statement is
    want,           \* the name its SQLSetCursorName is about
    overlap         \* some call was under way when another one took a step

vars == <<live, cursorNameMap, cursorNames, mutex, pc, want, overlap>>

Owned == {cursorNameMap[s] : s \in Stmt} \ {NoName}

Init ==
    /\ live = {}
    /\ cursorNameMap = [s \in Stmt |-> NoName]
    /\ cursorNames = {}
    /\ mutex = Free
    /\ pc = [s \in Stmt |-> "idle"]
    /\ want = [s \in Stmt |-> NoName]
    /\ overlap = FALSE

Goto(s, l) == pc' = [pc EXCEPT ![s] = l]

\* SQLAllocStmt.
AllocStmt(s) ==
    /\ s \notin live /\ pc[s] = "idle"
    /\ live' = live \cup {s}
    /\ UNCHANGED <<cursorNameMap, cursorNames, mutex, pc, want>>

\* SQLSetCursorName up to the uniqueness test: the length is checked only when
\* it is given (SQL_NTS is negative), then the reserved prefix.
SetCursorName(s) ==
    /\ s \in live /\ pc[s] = "idle"
    /\ \E n \in Name \ ReservedName, nts \in BOOLEAN :
         /\ n \in LongName => nts
         /\ want' = [want EXCEPT ![s] = n]
    /\ Goto(s, "check")
    /\ UNCHANGED <<live, cursorNameMap, cursorNames, mutex>>

\* Mutant of CursorNameExists: every name is taken for unused.
CursorNameExistsNever(s) ==
    /\ pc[s] = "check"
    /\ Goto(s, "add")
    /\ UNCHANGED <<live, cursorNameMap, cursorNames, mutex, want>>

\* CursorNameExists reads cursorNames_ without the mutex.  While another
\* thread is writing the set the outcome of the read is undefined.
CursorNameExists(s) ==
    /\ pc[s] = "check"
    /\ \E exists \in IF mutex = Free THEN {want[s] \in cursorNames}
                     ELSE BOOLEAN :
         Goto(s, IF exists THEN "idle" ELSE "add")
    /\ UNCHANGED <<live, cursorNameMap, cursorNames, mutex, want>>

\* Mutant of AddCursorNameErase: the old name is kept.
AddCursorNameEraseNothing(s) ==
    /\ pc[s] = "add" /\ mutex = Free
    /\ mutex' = s
    /\ Goto(s, "insert")
    /\ UNCHANGED <<live, cursorNameMap, cursorNames, want>>

\* AddCursorName takes the mutex and erases the statement's old name.
AddCursorNameErase(s) ==
    /\ pc[s] = "add" /\ mutex = Free
    /\ mutex' = s
    /\ cursorNames' = cursorNames \ {cursorNameMap[s]}
    /\ Goto(s, "insert")
    /\ UNCHANGED <<live, cursorNameMap, want>>

\* AddCursorName enters the new name and releases the mutex.
AddCursorNameInsert(s) ==
    /\ pc[s] = "insert"
    /\ cursorNameMap' = [cursorNameMap EXCEPT ![s] = want[s]]
    /\ cursorNames' = cursorNames \cup {want[s]}
    /\ mutex' = Free
    /\ Goto(s, "idle")
    /\ UNCHANGED <<live, want>>

\* Mutant of RemoveCursorNameErase: the name stays in use.
RemoveCursorNameEraseNothing(s) ==
    /\ s \in live /\ pc[s] = "idle" /\ mutex = Free
    /\ mutex' = s
    /\ Goto(s, "drop")
    /\ UNCHANGED <<live, cursorNameMap, cursorNames, want>>

\* SQLFreeStmt(SQL_DROP): RemoveCursorName takes the mutex and erases the name.
RemoveCursorNameErase(s) ==
    /\ s \in live /\ pc[s] = "idle" /\ mutex = Free
    /\ mutex' = s
    /\ cursorNames' = cursorNames \ {cursorNameMap[s]}
    /\ Goto(s, "drop")
    /\ UNCHANGED <<live, cursorNameMap, want>>

\* RemoveCursorName erases the map entry; the statement is deleted.
RemoveCursorNameDone(s) ==
    /\ pc[s] = "drop"
    /\ cursorNameMap' = [cursorNameMap EXCEPT ![s] = NoName]
    /\ mutex' = Free
    /\ live' = live \ {s}
    /\ Goto(s, "idle")
    /\ UNCHANGED <<cursorNames, want>>

Step(s) ==
    \/ AllocStmt(s) \/ SetCursorName(s) \/ CursorNameExists(s)
    \/ AddCursorNameErase(s) \/ AddCursorNameInsert(s)
    \/ RemoveCursorNameErase(s) \/ RemoveCursorNameDone(s)

Busy(s) == pc[s] # "idle"

Next ==
    \E s \in Stmt :
      /\ Step(s)
      /\ overlap' = (overlap \/ \E u \in Stmt \ {s} : Busy(u))

Spec == Init /\ [][Next]_vars

-----------------------------------------------------------------------------
(* Properties *)

TypeOK ==
    /\ live \subseteq Stmt
    /\ cursorNameMap \in [Stmt -> Name \cup {NoName}]
    /\ cursorNames \subseteq Name
    /\ mutex \in Stmt \cup {Free}
    /\ pc \in [Stmt -> {"idle", "check", "add", "insert", "drop"}]
    /\ want \in [Stmt -> Name \cup {NoName}]
    /\ overlap \in BOOLEAN

\* The lock regions of AddCursorName and RemoveCursorName exclude each other.
MutexExcludes ==
    \A s \in Stmt : pc[s] \in {"insert", "drop"} <=> mutex = s

\* Every name in use has an owner, with any interleaving of threads: renaming
\* and dropping statements leaves no name blocked on the connection.
NoPhantomName == cursorNames \subseteq Owned

\* A dropped statement leaves no entry for a statement that is later allocated
\* at its address.
DroppedHasNoName == \A s \in Stmt \ live : cursorNameMap[s] = NoName

\* "cursor name must be unique for a connection" (statement.cpp, in
\* InternalSetCursorName).
UniqueCursorName ==
    \A s, u \in Stmt : s # u /\ cursorNameMap[s] = cursorNameMap[u]
                         => cursorNameMap[s] = NoName

\* Cursor names are unique as long as no two calls have overlapped: the test and
\* the entry of InternalSetCursorName then act as one.
UniqueWhenApart == ~overlap => UniqueCursorName

\* So far, and between the lock regions, cursorNames_ is exactly the set of
\* owned names, so that the uniqueness test can be answered from it.
OwnedWhenApart == ~overlap /\ mutex = Free => cursorNames = Owned

\* A call is made on a live statement and carries a name; the name being
\* replaced or dropped is out of cursorNames while the mutex is held.
CallsOnLive ==
    \A s \in Stmt :
      /\ pc[s] # "idle" => s \in live
      /\ pc[s] \in {"check", "add", "insert"} => want[s] \in Name
      /\ pc[s] \in {"insert", "drop"} => cursorNameMap[s] \notin cursorNames

\* The inductive invariant that holds with any number of threads.
ThreadsInv ==
    TypeOK /\ MutexExcludes /\ NoPhantomName /\ DroppedHasNoName /\ CallsOnLive

\* While calls do not overlap, the name whose uniqueness was tested is still
\* unused when it is entered.
TestedStaysUnused ==
    ~overlap => \A s \in Stmt :
      /\ Busy(s) => \A u \in Stmt \ {s} : ~Busy(u)
      /\ pc[s] \in {"add", "insert"} => want[s] \notin Owned
      /\ pc[s] \in {"insert", "drop"}
           => cursorNames = Owned \ {cursorNameMap[s]}

ApartInv == ThreadsInv /\ UniqueWhenApart /\ OwnedWhenApart /\ TestedStaysUnused
=============================================================================
