------------------------------- MODULE Logger -------------------------------
(* The logger of the process (log.cpp, the macro WRITE_MSG_TO_STREAM of       *)
(* log.h).  Every thread of the application and every prefetch thread logs   *)
(* through it, and a connection changes its level and path at any time.       *)
(*                                                                            *)
(* The mutex guards the file stream, but IsEnabled, the level, the path and   *)
(* the stream pointer are read and written without it: each access is a step  *)
(* of its own.  A thread keeps the step it is at, and the step at which a     *)
(* message logged on the way returns.  Message texts are left out; the macros *)
(* that override the stream for one message are used by tests only.  A path   *)
(* that is no directory is ignored by SetLogPath, so Paths are directories.   *)
(*                                                                            *)
(* External: the file stream.  Opening a stream that is open fails and sets   *)
(* its fail bit, a successful open clears it, a write to a stream that is     *)
(* closed sets it, and nothing is written while it is set.                    *)
EXTENDS Naturals

CONSTANTS Thread,     \* the threads of the process
          NoThread,
          Paths,      \* the directories the log may go to
          DefaultPath,
          MsgLevels,  \* the levels of the messages logged by the code
          SetLevels,  \* the levels connections set
          MaxCalls    \* bound: the calls the threads make

OFF == 0
ERROR == 1
WARNING == 2
INFO == 3
DEBUG == 4

ASSUME LoggerAssumption ==
  /\ NoThread \notin Thread /\ DefaultPath \in Paths
  /\ MsgLevels \subseteq ERROR .. DEBUG /\ SetLevels \subseteq OFF .. DEBUG
  /\ MaxCalls \in Nat

VARIABLES instances,   \* the number of times the singleton was created
          level, path, \* logLevel, logPath
          stream,      \* stream: "null" or "file"
          named,       \* logFileName is not empty
          filePath,    \* the directory of logFilePath
          file,        \* fileStream: whether it is open, where, and its fail bit
          mutex,       \* the thread that holds mutex
          at,          \* the step each thread is at,
          back,        \* the step after the message it logs,
          arg,         \* the level of the message, or
          newPath,     \* the path to set,
          seen,        \* history: the paths in use while the thread was in the call,
          calls,       \* history: the number of calls made
          overlapped,  \* history: two threads were about to open the file at a time
          skipped      \* history: a path was set and the named file was not given up

vars == <<instances, level, path, stream, named, filePath, file, mutex, at, back, arg,
          newPath, seen, calls, overlapped, skipped>>
shared == <<instances, level, path, stream, named, filePath, file, mutex>>
local == <<back, arg, newPath, seen, calls>>
flags == <<overlapped, skipped>>

Steps == {"idle", "get", "create", "level", "enabled", "enable", "lock", "name", "open",
          "again", "write", "put", "path", "reset", "close", "stream"}
Backs == {"idle", "path", "close", "stream"}

IsEnabled == stream = "file" /\ file.open

Init ==
  /\ instances = 0 /\ level = WARNING /\ path = DefaultPath /\ stream = "null"
  /\ named = FALSE /\ filePath = DefaultPath
  /\ file = [open |-> FALSE, dir |-> DefaultPath, failed |-> FALSE]
  /\ mutex = NoThread
  /\ at = [t \in Thread |-> "idle"] /\ back = [t \in Thread |-> "idle"]
  /\ arg = [t \in Thread |-> ERROR] /\ newPath = [t \in Thread |-> DefaultPath]
  /\ seen = [t \in Thread |-> {}] /\ calls = 0
  /\ overlapped = FALSE /\ skipped = FALSE

Go(t, step) == at' = [at EXCEPT ![t] = step]

(* A message logged within a call; after it the thread goes on at step.      *)
LogWithin(t, msgLevel, step) ==
  /\ Go(t, "level")
  /\ arg' = [arg EXCEPT ![t] = msgLevel]
  /\ back' = [back EXCEPT ![t] = step]
-----------------------------------------------------------------------------
(* Calls begin.                                                              *)

(* A thread has set a path and not yet closed the file.                      *)
Changing == \E u \in Thread : at[u] \in {"reset", "close"} \/ back[u] = "close"

Begin(t) ==
  /\ at[t] = "idle" /\ calls < MaxCalls
  /\ calls' = calls + 1
  /\ seen' = [seen EXCEPT ![t] = {path} \cup IF Changing THEN {filePath} ELSE {}]
  /\ Go(t, "get")

LogMessage(t, msgLevel) ==
  /\ Begin(t)
  /\ arg' = [arg EXCEPT ![t] = msgLevel]
  /\ back' = [back EXCEPT ![t] = "idle"]
  /\ UNCHANGED <<shared, newPath, flags>>

SetLogPath(t, p) ==
  /\ Begin(t)
  /\ newPath' = [newPath EXCEPT ![t] = p]
  /\ back' = [back EXCEPT ![t] = "path"]
  /\ UNCHANGED <<shared, arg, flags>>

SetLogLevel(t, l) ==
  /\ at[t] = "idle" /\ calls < MaxCalls
  /\ calls' = calls + 1
  /\ instances' = IF instances = 0 THEN 1 ELSE instances
  /\ level' = l
  /\ UNCHANGED <<path, stream, named, filePath, file, mutex, at, back, arg, newPath, seen, flags>>

(* GetLoggerInstance: tested without the mutex of the creation, and again      *)
(* with it.                                                                    *)
Entry(t) == IF back[t] = "path" THEN "path" ELSE "level"

GetLoggerInstance(t) ==
  /\ at[t] = "get"
  /\ Go(t, IF instances = 0 THEN "create" ELSE Entry(t))
  /\ UNCHANGED <<shared, local, flags>>

CreateInstanceUntested(t) ==
  /\ at[t] = "create"
  /\ instances' = instances + 1
  /\ Go(t, Entry(t))
  /\ UNCHANGED <<level, path, stream, named, filePath, file, mutex, local, flags>>
CreateInstance(t) ==
  /\ at[t] = "create"
  /\ instances' = IF instances = 0 THEN 1 ELSE instances
  /\ Go(t, Entry(t))
  /\ UNCHANGED <<level, path, stream, named, filePath, file, mutex, local, flags>>
-----------------------------------------------------------------------------
(* A message: the tests of the macro, EnableLog, WriteMessage.               *)

TestLevel(t) ==
  /\ at[t] = "level"
  /\ Go(t, IF level >= arg[t] THEN "enabled" ELSE back[t])
  /\ UNCHANGED <<shared, local, flags>>

TestEnabled(t) ==
  /\ at[t] = "enabled"
  /\ Go(t, IF IsEnabled THEN "write" ELSE "enable")
  /\ UNCHANGED <<shared, local, flags>>

(* The file is not open and the level is not off: the tests come before the   *)
(* mutex.  Opening is the part from there to the end of the open.             *)
Opening(t) == at[t] \in {"lock", "name", "open"}

EnableLogUntested(t) ==
  /\ at[t] = "enable"
  /\ stream' = "file"
  /\ Go(t, "lock")
  /\ overlapped' = (overlapped \/ \E u \in Thread \ {t} : Opening(u))
  /\ UNCHANGED <<instances, level, path, named, filePath, file, mutex, local, skipped>>
EnableLog(t) ==
  /\ at[t] = "enable"
  /\ stream' = "file"
  /\ \/ /\ ~ file.open /\ level # OFF
        /\ Go(t, "lock")
        /\ overlapped' = (overlapped \/ \E u \in Thread \ {t} : Opening(u))
     \/ /\ file.open \/ level = OFF
        /\ Go(t, "again")
        /\ UNCHANGED overlapped
  /\ UNCHANGED <<instances, level, path, named, filePath, file, mutex, local, skipped>>

Lock(t) ==
  /\ at[t] = "lock" /\ mutex = NoThread
  /\ mutex' = t
  /\ Go(t, "name")
  /\ UNCHANGED <<instances, level, path, stream, named, filePath, file, local, flags>>

NameFile(t) ==
  /\ at[t] = "name"
  /\ named' = TRUE
  /\ filePath' = IF named THEN filePath ELSE path
  /\ Go(t, "open")
  /\ UNCHANGED <<instances, level, path, stream, file, mutex, local, flags>>

(* The open fails when the stream is open, and may fail otherwise.           *)
OpenFile(t) ==
  /\ at[t] = "open"
  /\ \/ /\ ~ file.open
        /\ file' = [open |-> TRUE, dir |-> filePath, failed |-> FALSE]
     \/ file' = [file EXCEPT !.failed = TRUE]
  /\ mutex' = NoThread
  /\ Go(t, "again")
  /\ UNCHANGED <<instances, level, path, stream, named, filePath, local, flags>>

TestAgain(t) ==
  /\ at[t] = "again"
  /\ Go(t, IF IsEnabled THEN "write" ELSE back[t])
  /\ UNCHANGED <<shared, local, flags>>

WriteMessage(t) ==
  /\ at[t] = "write"
  /\ Go(t, IF IsEnabled THEN "put" ELSE back[t])
  /\ UNCHANGED <<shared, local, flags>>

(* With the mutex, for the length of this step.                              *)
PutMessage(t) ==
  /\ at[t] = "put" /\ mutex = NoThread
  /\ file' = [file EXCEPT !.failed = @ \/ ~ file.open]
  /\ Go(t, back[t])
  /\ UNCHANGED <<instances, level, path, stream, named, filePath, mutex, local, flags>>
-----------------------------------------------------------------------------
(* SetLogPath.                                                               *)

ChangePath(t) ==
  /\ at[t] = "path"
  /\ IF path = newPath[t]
     THEN LogWithin(t, DEBUG, "idle") /\ UNCHANGED <<path, seen>>
     ELSE /\ path' = newPath[t]
          /\ seen' = [u \in Thread |-> seen[u] \cup {newPath[t]}]
          /\ Go(t, "reset")
          /\ UNCHANGED <<arg, back>>
  /\ UNCHANGED <<instances, level, stream, named, filePath, file, mutex, newPath, calls, flags>>

ResetPath(t) ==
  /\ at[t] = "reset"
  /\ IF IsEnabled /\ level # OFF
     THEN LogWithin(t, INFO, "close") /\ UNCHANGED skipped
     ELSE Go(t, "stream") /\ skipped' = (skipped \/ named) /\ UNCHANGED <<arg, back>>
  /\ UNCHANGED <<shared, newPath, seen, calls, overlapped>>

(* The file is closed and its name erased with the mutex; the second message  *)
(* is logged without it.                                                      *)
CloseFileLocked(t) ==
  /\ at[t] = "close" /\ mutex = NoThread
  /\ mutex' = t
  /\ file' = [file EXCEPT !.open = FALSE, !.failed = @ \/ ~ file.open]
  /\ named' = FALSE
  /\ LogWithin(t, INFO, "stream")
  /\ UNCHANGED <<instances, level, path, stream, filePath, newPath, seen, calls, flags>>
CloseFileKeepName(t) ==
  /\ at[t] = "close" /\ mutex = NoThread
  /\ file' = [file EXCEPT !.open = FALSE, !.failed = @ \/ ~ file.open]
  /\ LogWithin(t, INFO, "stream")
  /\ UNCHANGED <<instances, level, path, stream, named, filePath, mutex, newPath, seen, calls, flags>>
CloseFile(t) ==
  /\ at[t] = "close" /\ mutex = NoThread
  /\ file' = [file EXCEPT !.open = FALSE, !.failed = @ \/ ~ file.open]
  /\ named' = FALSE
  /\ LogWithin(t, INFO, "stream")
  /\ UNCHANGED <<instances, level, path, stream, filePath, mutex, newPath, seen, calls, flags>>

SetLogStream(t) ==
  /\ at[t] = "stream"
  /\ stream' = "file"
  /\ Go(t, "idle")
  /\ UNCHANGED <<instances, level, path, named, filePath, file, mutex, local, flags>>

Step(t) ==
  \/ GetLoggerInstance(t) \/ CreateInstance(t)
  \/ TestLevel(t) \/ TestEnabled(t) \/ EnableLog(t) \/ Lock(t) \/ NameFile(t) \/ OpenFile(t)
  \/ TestAgain(t) \/ WriteMessage(t) \/ PutMessage(t)
  \/ ChangePath(t) \/ ResetPath(t) \/ CloseFile(t) \/ SetLogStream(t)

Call(t) ==
  \/ \E l \in MsgLevels : LogMessage(t, l)
  \/ \E p \in Paths : SetLogPath(t, p)
  \/ \E l \in SetLevels : SetLogLevel(t, l)

Next == \E t \in Thread : Step(t) \/ Call(t)

(* The operating system runs every thread; the calls are the application's.  *)
Fairness == \A t \in Thread : WF_vars(Step(t))
Spec == Init /\ [][Next]_vars /\ Fairness
-----------------------------------------------------------------------------
(* Properties.                                                               *)

File == [open : BOOLEAN, dir : Paths, failed : BOOLEAN]

TypeOK ==
  /\ instances \in Nat /\ level \in OFF .. DEBUG /\ path \in Paths
  /\ stream \in {"null", "file"} /\ named \in BOOLEAN /\ filePath \in Paths
  /\ file \in File
  /\ mutex \in Thread \cup {NoThread}
  /\ at \in [Thread -> Steps] /\ back \in [Thread -> Backs]
  /\ arg \in [Thread -> OFF .. DEBUG] /\ newPath \in [Thread -> Paths]
  /\ seen \in [Thread -> SUBSET Paths] /\ calls \in 0 .. MaxCalls
  /\ overlapped \in BOOLEAN /\ skipped \in BOOLEAN

(* The singleton is created once, however many threads find it missing at     *)
(* the same time (GetLoggerInstance).                                         *)
OneInstance == instances <= 1

(* An open log file stops taking messages only after two threads found it      *)
(* closed and were about to open it at the same time: neither a failed open,   *)
(* a change of the path, nor a message that finds the file just closed leaves  *)
(* the fail bit set on the file that is opened next (EnableLog, SetLogPath).   *)
FailsOnlyByOverlap == file.open /\ file.failed => overlapped

(* A message goes to a directory that was the log path at some time during     *)
(* the call, or was then being given up for another, unless an earlier change  *)
(* of the path found the log off or its file closed and kept the old file's    *)
(* name (SetLogPath, EnableLog).                                               *)
PlacedInPath ==
  [][\A t \in Thread : at[t] = "put" /\ at'[t] # "put" /\ file.open /\ ~ file.failed
       => file.dir \in seen[t] \/ skipped]_vars

(* Every call returns: no thread waits for the mutex while it holds it, also   *)
(* where changing the path logs messages itself (SetLogPath, CsLockGuard).     *)
CallsReturn == \A t \in Thread : at[t] # "idle" ~> at[t] = "idle"
-----------------------------------------------------------------------------
(* The parts of the inductive invariants of LoggerProofs.                    *)

(* The thread that names and opens the file holds the mutex.                 *)
Holder == \A t \in Thread : at[t] \in {"name", "open"} <=> mutex = t

(* The open file is the one that is named.                                   *)
FileNamed ==
  /\ file.open => named /\ file.dir = filePath
  /\ \A t \in Thread : at[t] = "open" => named

(* The named file lies in the log path, except while a thread changes it.    *)
PathKept == named /\ ~ Changing /\ ~ skipped => filePath = path

(* A thread in a call has seen the path and the directory of the named file. *)
SeenPath ==
  \A t \in Thread : at[t] # "idle" =>
    path \in seen[t] /\ (named /\ ~ skipped => filePath \in seen[t])

(* A thread on its way back to closing the file is within a message.         *)
BackToClose ==
  \A t \in Thread : back[t] = "close" =>
    at[t] \in {"level", "enabled", "enable", "lock", "name", "open", "again", "write", "put",
              "close"}

PlaceInv == TypeOK /\ Holder /\ FileNamed /\ PathKept /\ SeenPath /\ BackToClose

(* Two threads about to open the file, or one about to open a file that is    *)
(* open by now, are seen as overlapping.                                      *)
OverlapSeen ==
  /\ \A t, u \in Thread : t # u /\ Opening(t) /\ Opening(u) => overlapped
  /\ \A t \in Thread : Opening(t) /\ file.open => overlapped

OverlapInv == TypeOK /\ FailsOnlyByOverlap /\ OverlapSeen
=============================================================================
