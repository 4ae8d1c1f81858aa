-------------------------- MODULE CursorNamesProofs --------------------------
(* Proofs about CursorNames, for every set of statements and of names.     *)
EXTENDS CursorNames, TLAPS

\* Every step of every thread keeps the invariant.
LEMMA ThreadsStep == ThreadsInv /\ [Next]_vars => ThreadsInv'
<1> SUFFICES ASSUME ThreadsInv, [Next]_vars PROVE ThreadsInv'
  OBVIOUS
<1>0. overlap' \in BOOLEAN
  BY DEF ThreadsInv, TypeOK, Next, vars
<1> USE NameAssumption, MutexAssumption, <1>0
    DEF ThreadsInv, TypeOK, MutexExcludes, NoPhantomName, DroppedHasNoName, CallsOnLive,
        Owned, Goto
<1>1. ASSUME NEW s \in Stmt, AllocStmt(s) PROVE ThreadsInv'
  BY <1>1 DEF AllocStmt
<1>2. ASSUME NEW s \in Stmt, SetCursorName(s) PROVE ThreadsInv'
  BY <1>2 DEF SetCursorName
<1>3. ASSUME NEW s \in Stmt, CursorNameExists(s) PROVE ThreadsInv'
  BY <1>3 DEF CursorNameExists
<1>4. ASSUME NEW s \in Stmt, AddCursorNameErase(s) PROVE ThreadsInv'
  BY <1>4 DEF AddCursorNameErase
<1>5. ASSUME NEW s \in Stmt, AddCursorNameInsert(s) PROVE ThreadsInv'
  BY <1>5 DEF AddCursorNameInsert
<1>6. ASSUME NEW s \in Stmt, RemoveCursorNameErase(s) PROVE ThreadsInv'
  BY <1>6 DEF RemoveCursorNameErase
<1>7. ASSUME NEW s \in Stmt, RemoveCursorNameDone(s) PROVE ThreadsInv'
  BY <1>7 DEF RemoveCursorNameDone
<1>8. CASE UNCHANGED vars
  BY <1>8 DEF vars
<1>9. QED
  BY <1>1, <1>2, <1>3, <1>4, <1>5, <1>6, <1>7, <1>8 DEF Next, Step

LEMMA ThreadsInit == Init => ThreadsInv
BY NameAssumption, MutexAssumption
   DEF Init, ThreadsInv, TypeOK, MutexExcludes, NoPhantomName, DroppedHasNoName,
       CallsOnLive, Owned

\* With any number of threads, no name is left blocked on the connection and no
\* dropped statement leaves a name behind.
THEOREM NamesReclaimed == Spec => [](MutexExcludes /\ NoPhantomName /\ DroppedHasNoName)
<1>1. ThreadsInv => MutexExcludes /\ NoPhantomName /\ DroppedHasNoName
  BY DEF ThreadsInv
<1>2. QED  BY <1>1, ThreadsInit, ThreadsStep, PTL DEF Spec

-----------------------------------------------------------------------------
\* A step keeps what holds while no two calls have overlapped.
LEMMA ApartStep == ApartInv /\ [Next]_vars => ApartInv'
<1> SUFFICES ASSUME ApartInv, [Next]_vars PROVE ApartInv'
  OBVIOUS
<1>0. ThreadsInv'
  BY ThreadsStep DEF ApartInv
<1> DEFINE Rest == UniqueWhenApart /\ OwnedWhenApart /\ TestedStaysUnused
<1> SUFFICES ASSUME ~overlap' PROVE Rest'
  BY <1>0 DEF ApartInv, UniqueWhenApart, OwnedWhenApart, TestedStaysUnused
<1> USE NameAssumption, MutexAssumption
    DEF ApartInv, ThreadsInv, TypeOK, MutexExcludes, DroppedHasNoName, CallsOnLive,
        UniqueWhenApart, OwnedWhenApart, UniqueCursorName, TestedStaysUnused, Owned,
        Goto, Busy
<1>a. ASSUME NEW s \in Stmt, Step(s), ~overlap,
             \A u \in Stmt \ {s} : pc[u] = "idle"
      PROVE  Rest'
  <2>1. CASE AllocStmt(s)
    BY <1>a, <2>1 DEF AllocStmt
  <2>2. CASE SetCursorName(s)
    BY <1>a, <2>2 DEF SetCursorName
  <2>3. CASE CursorNameExists(s)
    <3>1. mutex = Free /\ cursorNames = Owned
      BY <1>a, <2>3 DEF CursorNameExists
    <3>2. pc[s] = "check" /\ pc' = [pc EXCEPT ![s] = IF want[s] \in cursorNames
                                                       THEN "idle" ELSE "add"]
      BY <2>3, <3>1 DEF CursorNameExists
    <3>3. UNCHANGED <<live, cursorNameMap, cursorNames, mutex, want>>
      BY <2>3 DEF CursorNameExists
    <3>4. pc'[s] = "add" => want[s] \notin Owned
      BY <3>1, <3>2
    <3>5. QED  BY <1>a, <3>1, <3>2, <3>3, <3>4
  <2>4. CASE AddCursorNameErase(s)
    BY <1>a, <2>4 DEF AddCursorNameErase
  <2>5. CASE AddCursorNameInsert(s)
    BY <1>a, <2>5 DEF AddCursorNameInsert
  <2>6. CASE RemoveCursorNameErase(s)
    BY <1>a, <2>6 DEF RemoveCursorNameErase
  <2>7. CASE RemoveCursorNameDone(s)
    BY <1>a, <2>7 DEF RemoveCursorNameDone
  <2>8. QED
    BY <1>a, <2>1, <2>2, <2>3, <2>4, <2>5, <2>6, <2>7 DEF Step
<1>b. CASE UNCHANGED vars
  BY <1>b DEF vars
<1>c. QED
  BY <1>a, <1>b DEF Next

\* Cursor names are unique on a connection, and cursorNames_ is exactly the set
\* of names the statements have, as long as no two calls overlap.
THEOREM NamesUniqueApart == Spec => [](UniqueWhenApart /\ OwnedWhenApart)
<1>1. Init => ApartInv
  BY ThreadsInit, NameAssumption
     DEF Init, ApartInv, UniqueWhenApart, OwnedWhenApart, UniqueCursorName,
         TestedStaysUnused, Owned, Busy
<1>2. ApartInv => UniqueWhenApart /\ OwnedWhenApart
  BY DEF ApartInv
<1>3. QED  BY <1>1, <1>2, ApartStep, PTL DEF Spec

\* As long as no two calls overlap, AddCursorName and RemoveCursorName keep
\* cursorNames_ equal to the names in cursorNameMap_: no name is lost to the
\* test of a later SQLSetCursorName, and none stays after its statement.
THEOREM NamesOwnedApart == Spec => []OwnedWhenApart
<1>1. UniqueWhenApart /\ OwnedWhenApart => OwnedWhenApart
  OBVIOUS
<1>2. QED  BY <1>1, NamesUniqueApart, PTL
=============================================================================
