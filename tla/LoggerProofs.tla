---------------------------- MODULE LoggerProofs ----------------------------
(* What Logger guarantees for any number of threads, directories and calls:   *)
(* the singleton is created once, the open file fails only by an overlap of    *)
(* two opens, and every message lands in a directory in use during its call.   *)
EXTENDS Logger, TLAPS

\* The parts of Next, with the thread they belong to.
LEMMA StepCases ==
  ASSUME NEW t \in Thread, Step(t) \/ Call(t)
  PROVE  \/ \E l \in MsgLevels : LogMessage(t, l)
         \/ \E p \in Paths : SetLogPath(t, p)
         \/ \E l \in SetLevels : SetLogLevel(t, l)
         \/ GetLoggerInstance(t) \/ CreateInstance(t) \/ TestLevel(t) \/ TestEnabled(t)
         \/ EnableLog(t) \/ Lock(t) \/ NameFile(t) \/ OpenFile(t) \/ TestAgain(t)
         \/ WriteMessage(t) \/ PutMessage(t) \/ ChangePath(t) \/ ResetPath(t) \/ CloseFile(t)
         \/ SetLogStream(t)
BY DEF Step, Call

\* What setting the fail bit of a stream leaves of it.
LEMMA SetFailed ==
  ASSUME NEW f \in File, NEW b \in BOOLEAN, NEW g, g = [f EXCEPT !.failed = b]
  PROVE  g \in File /\ g.open = f.open /\ g.dir = f.dir /\ g.failed = b
BY DEF File

\* What closing a stream leaves of it.
LEMMA SetClosed ==
  ASSUME NEW f \in File, NEW b \in BOOLEAN, NEW g,
         g = [f EXCEPT !.open = FALSE, !.failed = b]
  PROVE  g \in File /\ g.open = FALSE /\ g.dir = f.dir /\ g.failed = b
BY DEF File

\* The fail bit that writing to, or closing, a stream leaves is a Boolean.
LEMMA FailBit == ASSUME NEW f \in File PROVE (f.failed \/ ~ f.open) \in BOOLEAN
BY DEF File

\* Every step keeps the types, whatever the interleaving.
LEMMA TypeStep == ASSUME TypeOK, [Next]_vars PROVE TypeOK'
<1> USE LoggerAssumption DEF TypeOK, OFF, ERROR, WARNING, INFO, DEBUG
<1>0. ASSUME UNCHANGED vars PROVE TypeOK'
  BY <1>0 DEF vars
<1>a. ASSUME NEW t \in Thread, Step(t) \/ Call(t) PROVE TypeOK'
  <2>1. ASSUME NEW l \in MsgLevels, LogMessage(t, l) PROVE TypeOK'
    BY <2>1 DEF LogMessage, Begin, Go, Steps, Backs, shared, flags
  <2>2. ASSUME NEW p \in Paths, SetLogPath(t, p) PROVE TypeOK'
    BY <2>2 DEF SetLogPath, Begin, Go, Steps, Backs, shared, flags
  <2>3. ASSUME NEW l \in SetLevels, SetLogLevel(t, l) PROVE TypeOK'
    BY <2>3 DEF SetLogLevel, flags
  <2>4. CASE GetLoggerInstance(t) \/ CreateInstance(t)
    BY <2>4 DEF GetLoggerInstance, CreateInstance, Entry, Go, Steps, Backs, shared, local, flags
  <2>5. CASE TestLevel(t) \/ TestEnabled(t) \/ TestAgain(t) \/ WriteMessage(t)
    BY <2>5 DEF TestLevel, TestEnabled, TestAgain, WriteMessage, Go, Steps, Backs, shared, local, flags
  <2>6. CASE EnableLog(t)
    BY <2>6 DEF EnableLog, Opening, Go, Steps, Backs, local
  <2>7. CASE Lock(t) \/ NameFile(t)
    BY <2>7 DEF Lock, NameFile, Go, Steps, Backs, local, flags
  <2>8. CASE OpenFile(t) \/ PutMessage(t)
    <3>1. file' \in File
      <4>1. CASE OpenFile(t)
        <5>1. ASSUME file' = [file EXCEPT !.failed = TRUE] PROVE file' \in File
          BY <5>1, SetFailed
        <5>2. ASSUME file' = [open |-> TRUE, dir |-> filePath, failed |-> FALSE]
              PROVE file' \in File
          BY <5>2 DEF File
        <5>3. QED
          BY <4>1, <5>1, <5>2 DEF OpenFile
      <4>2. CASE PutMessage(t)
        BY <4>2, FailBit, SetFailed DEF PutMessage
      <4>3. QED
        BY <2>8, <4>1, <4>2
    <3>2. QED
      BY <2>8, <3>1 DEF OpenFile, PutMessage, Go, Steps, Backs, local, flags
  <2>9. CASE ChangePath(t)
    BY <2>9 DEF ChangePath, LogWithin, Go, Steps, Backs, flags
  <2>10. CASE ResetPath(t)
    BY <2>10 DEF ResetPath, LogWithin, Go, Steps, Backs, shared
  <2>11. CASE CloseFile(t) \/ SetLogStream(t)
    <3>1. file' \in File
      BY <2>11, FailBit, SetClosed DEF CloseFile, SetLogStream
    <3>2. named' \in BOOLEAN /\ overlapped' \in BOOLEAN /\ skipped' \in BOOLEAN
      BY <2>11 DEF CloseFile, SetLogStream, flags
    <3>3. arg' \in [Thread -> OFF .. DEBUG] /\ at' \in [Thread -> Steps]
          /\ back' \in [Thread -> Backs]
      BY <2>11 DEF CloseFile, SetLogStream, LogWithin, Go, Steps, Backs, local
    <3>4. QED
      BY <2>11, <3>1, <3>2, <3>3 DEF CloseFile, SetLogStream, local, flags
  <2>12. QED
    BY <1>a, <2>1, <2>2, <2>3, <2>4, <2>5, <2>6, <2>7, <2>8, <2>9, <2>10, <2>11, StepCases
<1>1. QED
  BY <1>0, <1>a DEF Next

\* The initial state has the types.
LEMMA TypeInit == Init => TypeOK
<1> SUFFICES ASSUME Init PROVE TypeOK
  OBVIOUS
<1>1. file \in File
  BY LoggerAssumption DEF Init, File
<1>2. named \in BOOLEAN /\ overlapped \in BOOLEAN /\ skipped \in BOOLEAN
  BY DEF Init
<1>3. /\ at \in [Thread -> Steps] /\ back \in [Thread -> Backs]
      /\ newPath \in [Thread -> Paths] /\ seen \in [Thread -> SUBSET Paths]
  BY LoggerAssumption DEF Init, Steps, Backs
<1>4. arg \in [Thread -> OFF .. DEBUG]
  BY DEF Init, OFF, ERROR, DEBUG
<1>5. instances \in Nat /\ level \in OFF .. DEBUG /\ calls \in 0 .. MaxCalls
  BY LoggerAssumption DEF Init, OFF, WARNING, DEBUG
<1>6. QED
  BY <1>1, <1>2, <1>3, <1>4, <1>5, LoggerAssumption DEF Init, TypeOK

\* The logger's state keeps its types in every interleaving of the calls.
THEOREM TypeCorrect == Spec => []TypeOK
<1>1. TypeOK /\ [Next]_vars => TypeOK'
  BY TypeStep
<1>2. QED
  BY TypeInit, <1>1, PTL DEF Spec

\* GetLoggerInstance creates the logger at most once, for any number of threads.
THEOREM CreatedOnce == Spec => []OneInstance
<1>1. Init => OneInstance
  BY DEF Init, OneInstance
<1>2. TypeOK /\ OneInstance /\ [Next]_vars => OneInstance'
  <2> SUFFICES ASSUME TypeOK, OneInstance, [Next]_vars PROVE OneInstance'
    OBVIOUS
  <2> USE DEF TypeOK, OneInstance
  <2>0. CASE UNCHANGED vars
    BY <2>0 DEF vars
  <2>a. ASSUME NEW t \in Thread, Step(t) \/ Call(t) PROVE OneInstance'
    <3>1. CASE CreateInstance(t) \/ \E l \in SetLevels : SetLogLevel(t, l)
      BY <3>1 DEF CreateInstance, SetLogLevel
    <3>2. CASE ~ (CreateInstance(t) \/ \E l \in SetLevels : SetLogLevel(t, l))
      <4>1. instances' = instances
        BY <2>a, <3>2, StepCases
           DEF LogMessage, SetLogPath, GetLoggerInstance, TestLevel, TestEnabled, EnableLog,
               Lock, NameFile, OpenFile, TestAgain, WriteMessage, PutMessage, ChangePath,
               ResetPath, CloseFile, SetLogStream, shared
      <4>2. QED
        BY <4>1
    <3>3. QED
      BY <3>1, <3>2
  <2>1. QED
    BY <2>0, <2>a DEF Next
<1>3. QED
  BY TypeCorrect, <1>1, <1>2, PTL DEF Spec
-----------------------------------------------------------------------------
\* A step moves one thread only, and the history flags are never taken back.
LEMMA OneMoves ==
  ASSUME TypeOK, NEW t \in Thread, Step(t) \/ Call(t)
  PROVE  /\ \A u \in Thread \ {t} : at'[u] = at[u] /\ back'[u] = back[u]
         /\ overlapped => overlapped'
         /\ skipped => skipped'
<1> USE DEF TypeOK
<1>1. CASE Call(t)
  BY <1>1 DEF Call, LogMessage, SetLogPath, SetLogLevel, Begin, Go, flags
<1>2. CASE ChangePath(t) \/ ResetPath(t) \/ CloseFile(t) \/ SetLogStream(t)
  BY <1>2 DEF ChangePath, ResetPath, CloseFile, SetLogStream, LogWithin, Go, local, flags
<1>3. CASE EnableLog(t) \/ Lock(t) \/ NameFile(t) \/ OpenFile(t) \/ PutMessage(t)
  BY <1>3 DEF EnableLog, Lock, NameFile, OpenFile, PutMessage, Go, local, flags
<1>4. CASE \/ GetLoggerInstance(t) \/ CreateInstance(t) \/ TestLevel(t) \/ TestEnabled(t)
           \/ TestAgain(t) \/ WriteMessage(t)
  BY <1>4 DEF GetLoggerInstance, CreateInstance, TestLevel, TestEnabled, TestAgain,
              WriteMessage, Go, local, flags
<1>5. QED
  BY <1>1, <1>2, <1>3, <1>4 DEF Step

\* Every step other than the four that open, write and close the file leaves
\* the file alone and brings no thread to opening it.
LEMMA OtherSteps ==
  ASSUME TypeOK, NEW t \in Thread, Step(t) \/ Call(t),
         ~ (EnableLog(t) \/ Lock(t) \/ NameFile(t) \/ OpenFile(t) \/ PutMessage(t) \/ CloseFile(t))
  PROVE  file' = file /\ mutex' = mutex /\ ~ Opening(t)' /\ ~ Opening(t)
<1> USE DEF TypeOK, Opening, Steps, Backs
<1>1. CASE Call(t)
  BY <1>1 DEF Call, LogMessage, SetLogPath, SetLogLevel, Begin, Go, shared
<1>2. CASE ChangePath(t) \/ ResetPath(t) \/ SetLogStream(t)
  BY <1>2 DEF ChangePath, ResetPath, SetLogStream, LogWithin, Go, shared
<1>3. CASE \/ GetLoggerInstance(t) \/ CreateInstance(t) \/ TestLevel(t) \/ TestEnabled(t)
           \/ TestAgain(t) \/ WriteMessage(t)
  BY <1>3 DEF GetLoggerInstance, CreateInstance, TestLevel, TestEnabled, TestAgain,
              WriteMessage, Entry, Go, shared
<1>4. QED
  BY <1>1, <1>2, <1>3 DEF Step

\* An overlap of two opens is recorded before it can set the fail bit.
LEMMA OverlapStep == ASSUME OverlapInv, [Next]_vars PROVE OverlapInv'
<1>0. TypeOK'
  BY TypeStep DEF OverlapInv
<1> SUFFICES FailsOnlyByOverlap' /\ OverlapSeen'
  BY <1>0 DEF OverlapInv
<1>1. CASE UNCHANGED vars
  BY <1>1 DEF vars, OverlapInv, FailsOnlyByOverlap, OverlapSeen, Opening
<1>2. ASSUME NEW t \in Thread, Step(t) \/ Call(t) PROVE FailsOnlyByOverlap' /\ OverlapSeen'
  <2> USE DEF OverlapInv, FailsOnlyByOverlap, OverlapSeen
  <2>0. /\ \A u \in Thread \ {t} : Opening(u)' <=> Opening(u)
        /\ overlapped => overlapped'
    BY <1>2, OneMoves DEF Opening
  <2>1. CASE EnableLog(t)
    <3>1. file' = file
      BY <2>1 DEF EnableLog
    <3>2. Opening(t)' => /\ ~ file.open
                         /\ (\E u \in Thread \ {t} : Opening(u)) => overlapped'
      BY <2>1 DEF EnableLog, Opening, Go, TypeOK
    <3>3. QED
      BY <2>0, <3>1, <3>2
  <2>2. CASE Lock(t) \/ NameFile(t)
    <3>1. file' = file /\ Opening(t)
      BY <2>2 DEF Lock, NameFile, Opening
    <3>2. QED
      BY <2>0, <3>1
  <2>3. CASE OpenFile(t)
    <3>1. Opening(t) /\ ~ Opening(t)'
      BY <2>3 DEF OpenFile, Opening, Go, TypeOK
    <3>2. CASE ~ file.open /\ file' = [open |-> TRUE, dir |-> filePath, failed |-> FALSE]
      <4>1. file'.open = TRUE /\ file'.failed = FALSE
        BY <3>2
      <4>2. QED
        BY <2>0, <3>1, <4>1
    <3>3. CASE file' = [file EXCEPT !.failed = TRUE]
      <4>1. file'.open = file.open
        BY <3>3, SetFailed DEF TypeOK
      <4>2. QED
        BY <2>0, <3>1, <4>1
    <3>4. QED
      BY <2>3, <3>2, <3>3 DEF OpenFile
  <2>4. CASE PutMessage(t)
    <3>1. file'.open = file.open /\ file'.failed = (file.failed \/ ~ file.open)
      BY <2>4, FailBit, SetFailed DEF PutMessage, TypeOK
    <3>2. ~ Opening(t)'
      BY <2>4 DEF PutMessage, Opening, Go, TypeOK, Backs
    <3>3. QED
      BY <2>0, <3>1, <3>2
  <2>5. CASE CloseFile(t)
    <3>1. ~ file'.open
      BY <2>5, FailBit, SetClosed DEF CloseFile, TypeOK
    <3>2. ~ Opening(t)'
      BY <2>5 DEF CloseFile, LogWithin, Opening, Go, TypeOK
    <3>3. QED
      BY <2>0, <3>1, <3>2
  <2>6. CASE ~ (EnableLog(t) \/ Lock(t) \/ NameFile(t) \/ OpenFile(t) \/ PutMessage(t)
                \/ CloseFile(t))
    BY <1>2, <2>0, <2>6, OtherSteps
  <2>7. QED
    BY <2>1, <2>2, <2>3, <2>4, <2>5, <2>6
<1>3. QED
  BY <1>1, <1>2 DEF Next

\* An open log file stops taking messages only where two threads, both past
\* the test of EnableLog, were about to open it at a time.
THEOREM FileFailsOnlyByOverlap == Spec => []FailsOnlyByOverlap
<1>1. Init => OverlapInv
  <2> SUFFICES ASSUME Init PROVE OverlapInv
    OBVIOUS
  <2>1. FailsOnlyByOverlap /\ OverlapSeen
    BY DEF Init, FailsOnlyByOverlap, OverlapSeen, Opening
  <2>2. QED
    BY <2>1, TypeInit DEF OverlapInv
<1>2. OverlapInv /\ [Next]_vars => OverlapInv'
  BY OverlapStep
<1>3. OverlapInv => FailsOnlyByOverlap
  BY DEF OverlapInv
<1>4. QED
  BY <1>1, <1>2, <1>3, PTL DEF Spec
-----------------------------------------------------------------------------
\* Steps other than the ones below leave alone what the places of messages
\* depend on, and bring their thread neither to opening the file nor to
\* changing the path.
LEMMA QuietSteps ==
  ASSUME PlaceInv, NEW t \in Thread,
         \/ GetLoggerInstance(t) \/ CreateInstance(t) \/ TestLevel(t) \/ TestEnabled(t)
         \/ EnableLog(t) \/ TestAgain(t) \/ WriteMessage(t) \/ PutMessage(t)
         \/ SetLogStream(t) \/ \E l \in SetLevels : SetLogLevel(t, l)
  PROVE  /\ UNCHANGED <<path, named, filePath, mutex, back, seen, skipped>>
         /\ file'.open = file.open /\ file'.dir = file.dir
         /\ at[t] \notin {"name", "open", "reset", "close"}
         /\ at'[t] \notin {"name", "open", "reset"}
         /\ at'[t] = "close" => back[t] = "close"
         /\ at[t] = "idle" => at'[t] = "idle"
         /\ back[t] = "close" => /\ at[t] # "idle"
                                /\ at'[t] \in {"level", "enabled", "enable", "lock", "again",
                                              "write", "put", "close"}
<1> USE DEF PlaceInv, TypeOK, Steps, Backs
<1>1. CASE \/ GetLoggerInstance(t) \/ CreateInstance(t) \/ TestLevel(t) \/ TestEnabled(t)
           \/ TestAgain(t) \/ WriteMessage(t)
  BY <1>1 DEF BackToClose, GetLoggerInstance, CreateInstance, TestLevel, TestEnabled,
              TestAgain, WriteMessage, Entry, Go, shared, local, flags
<1>2. CASE EnableLog(t) \/ SetLogStream(t)
  BY <1>2 DEF BackToClose, EnableLog, SetLogStream, Go, local, flags
<1>3. CASE PutMessage(t)
  <2>1. file'.open = file.open /\ file'.dir = file.dir
    BY <1>3, FailBit, SetFailed DEF PutMessage
  <2>2. QED
    BY <1>3, <2>1 DEF BackToClose, PutMessage, Go, local, flags
<1>4. CASE \E l \in SetLevels : SetLogLevel(t, l)
  BY <1>4 DEF BackToClose, SetLogLevel, flags
<1>5. QED
  BY <1>1, <1>2, <1>3, <1>4

\* Those steps keep the invariant of the places.
LEMMA QuietKeeps ==
  ASSUME PlaceInv, TypeOK', NEW t \in Thread, Step(t) \/ Call(t),
         \/ GetLoggerInstance(t) \/ CreateInstance(t) \/ TestLevel(t) \/ TestEnabled(t)
         \/ EnableLog(t) \/ TestAgain(t) \/ WriteMessage(t) \/ PutMessage(t)
         \/ SetLogStream(t) \/ \E l \in SetLevels : SetLogLevel(t, l)
  PROVE  PlaceInv'
<1> USE DEF PlaceInv
<1>0. \A u \in Thread \ {t} : at'[u] = at[u] /\ back'[u] = back[u]
  BY OneMoves
<1>1. Holder'
  BY <1>0, QuietSteps DEF Holder
<1>2. FileNamed'
  BY <1>0, QuietSteps DEF FileNamed
<1>3. Changing' <=> Changing
  BY <1>0, QuietSteps DEF Changing
<1>4. PathKept'
  BY <1>3, QuietSteps DEF PathKept
<1>5. SeenPath'
  BY <1>0, QuietSteps DEF SeenPath
<1>6. BackToClose'
  BY <1>0, QuietSteps DEF BackToClose
<1>7. QED
  BY <1>1, <1>2, <1>4, <1>5, <1>6

\* The start of a message or of a change of the path keeps the invariant.
LEMMA BeginKeeps ==
  ASSUME PlaceInv, TypeOK', NEW t \in Thread, Begin(t),
         UNCHANGED <<path, named, filePath, file, mutex, skipped>>,
         \E b \in {"idle", "path"} : back' = [back EXCEPT ![t] = b]
  PROVE  PlaceInv'
<1> USE DEF PlaceInv
<1>0. /\ \A u \in Thread \ {t} : at'[u] = at[u] /\ back'[u] = back[u] /\ seen'[u] = seen[u]
      /\ at[t] = "idle" /\ at'[t] = "get" /\ back'[t] # "close" /\ back[t] # "close"
      /\ path \in seen'[t] /\ (Changing => filePath \in seen'[t])
  BY DEF Begin, Go, TypeOK, BackToClose
<1>1. Holder' /\ FileNamed'
  BY <1>0 DEF Holder, FileNamed
<1>2. Changing' <=> Changing
  BY <1>0 DEF Changing
<1>3. PathKept'
  BY <1>2 DEF PathKept
<1>4. SeenPath'
  BY <1>0 DEF SeenPath, PathKept
<1>5. BackToClose'
  BY <1>0 DEF BackToClose
<1>6. QED
  BY <1>1, <1>3, <1>4, <1>5

\* Every step keeps the invariant of the places of messages.
LEMMA PlaceStep == ASSUME PlaceInv, [Next]_vars PROVE PlaceInv'
<1>0. TypeOK'
  BY TypeStep DEF PlaceInv
<1> USE DEF PlaceInv
<1>1. CASE UNCHANGED vars
  BY <1>0, <1>1 DEF vars, Holder, FileNamed, PathKept, SeenPath, BackToClose, Changing
<1>2. ASSUME NEW t \in Thread, Step(t) \/ Call(t) PROVE PlaceInv'
  <2>0. \A u \in Thread \ {t} : at'[u] = at[u] /\ back'[u] = back[u]
    BY <1>2, OneMoves
  <2>1. ASSUME NEW l \in MsgLevels, LogMessage(t, l) PROVE PlaceInv'
    BY <1>0, <2>1, BeginKeeps DEF LogMessage, shared, flags
  <2>2. ASSUME NEW p \in Paths, SetLogPath(t, p) PROVE PlaceInv'
    BY <1>0, <2>2, BeginKeeps DEF SetLogPath, shared, flags
  <2>3. CASE Lock(t)
    <3>1. /\ UNCHANGED <<path, named, filePath, file, seen, skipped, back>>
          /\ at[t] = "lock" /\ at'[t] = "name" /\ mutex = NoThread /\ mutex' = t
      BY <2>3 DEF Lock, Go, TypeOK, local, flags
    <3>2. Holder'
      BY <2>0, <3>1, LoggerAssumption DEF Holder
    <3>3. FileNamed' /\ SeenPath' /\ BackToClose'
      BY <2>0, <3>1 DEF FileNamed, SeenPath, BackToClose
    <3>4. PathKept'
      BY <2>0, <3>1 DEF PathKept, Changing
    <3>5. QED
      BY <1>0, <3>2, <3>3, <3>4
  <2>4. CASE NameFile(t)
    <3>1. /\ UNCHANGED <<path, file, seen, skipped, back, mutex>>
          /\ at[t] = "name" /\ at'[t] = "open"
          /\ named' /\ (named => filePath' = filePath) /\ (~ named => filePath' = path)
      BY <2>4 DEF NameFile, Go, TypeOK, local, flags
    <3>2. Holder' /\ BackToClose'
      BY <2>0, <3>1 DEF Holder, BackToClose
    <3>3. FileNamed' /\ SeenPath'
      BY <2>0, <3>1 DEF FileNamed, SeenPath
    <3>4. PathKept'
      BY <2>0, <3>1 DEF PathKept, Changing
    <3>5. QED
      BY <1>0, <3>2, <3>3, <3>4
  <2>5. CASE OpenFile(t)
    <3>1. /\ UNCHANGED <<path, named, filePath, seen, skipped, back>>
          /\ at[t] = "open" /\ at'[t] = "again" /\ mutex' = NoThread
      BY <2>5 DEF OpenFile, Go, TypeOK, local, flags
    <3>2. file'.open => file'.dir = filePath /\ named
      <4>1. CASE file' = [open |-> TRUE, dir |-> filePath, failed |-> FALSE]
        BY <3>1, <4>1 DEF FileNamed
      <4>2. CASE file' = [file EXCEPT !.failed = TRUE]
        <5>1. file'.open = file.open /\ file'.dir = file.dir
          BY <4>2, SetFailed DEF TypeOK
        <5>2. QED
          BY <5>1 DEF FileNamed
      <4>3. QED
        BY <2>5, <4>1, <4>2 DEF OpenFile
    <3>3. Holder'
      BY <2>0, <3>1, LoggerAssumption DEF Holder
    <3>4. FileNamed' /\ SeenPath' /\ BackToClose'
      BY <2>0, <3>1, <3>2 DEF FileNamed, SeenPath, BackToClose
    <3>5. PathKept'
      BY <2>0, <3>1 DEF PathKept, Changing
    <3>6. QED
      BY <1>0, <3>3, <3>4, <3>5
  <2>6. CASE ChangePath(t)
    <3>1. /\ UNCHANGED <<named, filePath, file, mutex, skipped>>
          /\ at[t] = "path" /\ at'[t] \in {"level", "reset"} /\ back'[t] # "close"
          /\ at'[t] # "reset" => path' = path
          /\ \A u \in Thread : path' \in seen'[u] \/ (path' = path /\ seen' = seen)
          /\ \A u \in Thread : seen[u] \subseteq seen'[u]
      BY <2>6 DEF ChangePath, LogWithin, Go, TypeOK, BackToClose, flags
    <3>2. Holder' /\ FileNamed' /\ BackToClose'
      BY <2>0, <3>1 DEF Holder, FileNamed, BackToClose
    <3>3. SeenPath'
      BY <2>0, <3>1 DEF SeenPath
    <3>4. PathKept'
      BY <2>0, <3>1 DEF PathKept, Changing, BackToClose
    <3>5. QED
      BY <1>0, <3>2, <3>3, <3>4
  <2>7. CASE ResetPath(t)
    <3>1. /\ UNCHANGED <<path, named, filePath, file, mutex, seen>>
          /\ at[t] = "reset" /\ (skipped => skipped')
          /\ \/ at'[t] = "level" /\ back'[t] = "close"
             \/ at'[t] = "stream" /\ back'[t] = back[t] /\ (named => skipped')
      BY <2>7 DEF ResetPath, LogWithin, Go, TypeOK, shared
    <3>2. Holder' /\ FileNamed' /\ SeenPath'
      BY <2>0, <3>1 DEF Holder, FileNamed, SeenPath
    <3>3. BackToClose' /\ PathKept'
      BY <2>0, <3>1 DEF BackToClose, PathKept, Changing
    <3>4. QED
      BY <1>0, <3>2, <3>3
  <2>8. CASE CloseFile(t)
    <3>1. /\ UNCHANGED <<path, filePath, mutex, seen, skipped>> /\ mutex = NoThread
          /\ at[t] = "close" /\ at'[t] = "level" /\ back'[t] = "stream" /\ ~ named'
      BY <2>8 DEF CloseFile, LogWithin, Go, TypeOK, flags
    <3>2. ~ file'.open
      BY <2>8, FailBit, SetClosed DEF CloseFile, TypeOK
    <3>3. Holder' /\ SeenPath' /\ BackToClose' /\ PathKept'
      BY <2>0, <3>1 DEF Holder, SeenPath, BackToClose, PathKept
    <3>4. FileNamed'
      BY <2>0, <3>1, <3>2, LoggerAssumption DEF FileNamed, Holder
    <3>5. QED
      BY <1>0, <3>3, <3>4
  <2>9. QED
    BY <1>0, <1>2, <2>1, <2>2, <2>3, <2>4, <2>5, <2>6, <2>7, <2>8, StepCases, QuietKeeps
<1>3. QED
  BY <1>1, <1>2 DEF Next

\* A message lands in a directory in use during its call, for any number of
\* threads that log and change the path at the same time, unless a change of
\* the path was skipped.
THEOREM MessagesPlaced == Spec => PlacedInPath
<1>1. Init => PlaceInv
  <2> SUFFICES ASSUME Init PROVE PlaceInv
    OBVIOUS
  <2>1. Holder /\ FileNamed /\ PathKept /\ SeenPath /\ BackToClose
    BY LoggerAssumption
       DEF Init, Holder, FileNamed, PathKept, SeenPath, BackToClose, Changing
  <2>2. QED
    BY <2>1, TypeInit DEF PlaceInv
<1>2. PlaceInv /\ [Next]_vars => PlaceInv'
  BY PlaceStep
<1>3. PlaceInv /\ [Next]_vars
        => [\A t \in Thread : at[t] = "put" /\ at'[t] # "put" /\ file.open /\ ~ file.failed
              => file.dir \in seen[t] \/ skipped]_vars
  BY DEF PlaceInv, FileNamed, SeenPath
<1>4. QED
  BY <1>1, <1>2, <1>3, PTL DEF Spec, PlacedInPath
=============================================================================
