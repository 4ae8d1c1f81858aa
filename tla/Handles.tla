------------------------------ MODULE Handles ------------------------------
(* The handles of the driver and the calls an application makes on them:     *)
(* odbc.cpp, environment.cpp, connection.cpp, the attributes of statement.cpp *)
(* and the unsupported functions of entry_points.cpp.  The module is about    *)
(* what a call leaves in the diagnostics of every handle, and about the       *)
(* attributes that several handles share.  What the query of a statement      *)
(* does is in Statement and DataQuery; here its results are a choice.         *)
(*                                                                            *)
(* The Driver Manager stands between application and driver.  Of it the       *)
(* model keeps that a handle is freed after those allocated on it (external). *)
EXTENDS Diagnostics, SupportedFunctions

CONSTANTS Envs, Conns, Stmts, Descs,   \* the handles that may be allocated
          NoHandle,
          Sizes,                       \* row array sizes the application sets
          Pointers,                    \* buffers it passes, NullPtr among them
          NullPtr,
          StmtSets,                    \* the statement attributes it sets,
          ConnSets,                    \* and the connection attributes and options
          MaxRecords,                  \* bound: records a handle is given without reset
          MaxCalls                     \* bound: calls the application makes

ASSUME HandlesAssumption ==
  /\ Envs \cap (Conns \cup Stmts \cup Descs) = {}
  /\ Conns \cap (Stmts \cup Descs) = {} /\ Stmts \cap Descs = {}
  /\ NoHandle \notin Envs \cup Conns \cup Stmts \cup Descs
  /\ MaxRecords \in Nat /\ MaxCalls \in Nat /\ NullPtr \in Pointers

VARIABLES live,       \* the handles that are allocated
          parent,     \* the handle each was allocated on
          connections,\* Environment::connections
          version,    \* Environment::odbcVersion
          connAttr,   \* Connection: autoCommit_, metadataID_, stmtAttr_
          stmtAttr,   \* Statement: rowArraySize, rowStatuses, rowsFetched, columnBindOffset
          hasQuery,   \* Statement: currentQuery is set
          diag,       \* diagnosticRecords of every handle
          answer,     \* history: the handle and the code of the last call, its value, and
                      \*   whether it needed the columns of the result (GetMeta)
          accepted,   \* history: the value of each attribute last set with success
          taken,      \* history: the statements whose row array size is to be the one set
                      \*   on their connection
          calls       \* history: the number of calls made

(* What most calls leave alone.                                              *)
members == <<live, parent, connections, version, connAttr, stmtAttr, hasQuery, accepted,
             taken>>
vars == <<live, parent, connections, version, connAttr, stmtAttr, hasQuery, diag, answer,
          accepted, taken, calls>>

Handles == Envs \cup Conns \cup Stmts \cup Descs
Kind(h) == CASE h \in Envs -> "ENV" [] h \in Conns -> "DBC" [] h \in Stmts -> "STMT"
             [] OTHER -> "DESC"
EnvOf(h) == IF parent[h] \in Envs THEN parent[h] ELSE parent[parent[h]]

(* A value that is the address of a member: larger than any row array size,  *)
(* and none of the values an attribute may have.                             *)
Address == 1048576
Uninitialised == 2097152

(* What a call answers that reports through the storage of its handle.       *)
AnswersWith(h, code, value) ==
  answer' = [on |-> h, code |-> code, value |-> value, meta |-> FALSE]
AnswersMeta(s, code) ==
  answer' = [on |-> s, code |-> code, value |-> << >>, meta |-> TRUE]
Answers(h, d) == AnswersWith(h, GetReturnCode(d), << >>)

(* A member function wrapped in IGNITE_ODBC_API_CALL, called on h.           *)
Call(h, o) == /\ diag' = [diag EXCEPT ![h] = ApiCall(@, o)]
              /\ Answers(h, ApiCall(diag[h], o))

Init ==
  /\ live = {} /\ parent = [h \in Handles |-> NoHandle]
  /\ connections = [e \in Envs |-> {}]
  /\ version = [e \in Envs |-> "ODBC3"]
  /\ connAttr = [c \in Conns |-> << >>] /\ stmtAttr = [s \in Stmts |-> << >>]
  /\ hasQuery = [s \in Stmts |-> FALSE]
  /\ diag = [h \in Handles |-> NewStorage]
  /\ answer = [on |-> NoHandle, code |-> "SQL_SUCCESS", value |-> << >>, meta |-> FALSE]
  /\ accepted = [h \in Handles |-> << >>] /\ taken = {}
  /\ calls = 0
-----------------------------------------------------------------------------
(* Attributes of a statement.                                                *)

NewStmtAttr == [ROW_ARRAY_SIZE |-> 1, ROW_STATUS_PTR |-> NullPtr,
                ROWS_FETCHED_PTR |-> NullPtr, ROW_BIND_OFFSET_PTR |-> NullPtr]

(* The one value an attribute may be set to.                                 *)
OnlyValue == [CONCURRENCY |-> 1, CURSOR_TYPE |-> 0, RETRIEVE_DATA |-> 1,
              PARAM_BIND_TYPE |-> 0, ROW_BIND_TYPE |-> 0]

StmtSetOutcome(a, v) ==
  CASE a \in DOMAIN OnlyValue -> IF v = OnlyValue[a] THEN Done ELSE Failed("HYC00")
    [] a = "METADATA_ID"      -> IF v \in {0, 1} THEN Done ELSE Failed("HY024")
    [] a = "ROW_ARRAY_SIZE"   -> IF v <= 1000 THEN Done ELSE Failed("IM001")
    [] a \in {"ROW_STATUS_PTR", "ROWS_FETCHED_PTR", "ROW_BIND_OFFSET_PTR",
              "ROW_OPERATION_PTR"} -> Done
    [] OTHER                  -> Failed("HYC00")

StmtStoredAnyway(sa, a, v) == IF a \in DOMAIN sa THEN [sa EXCEPT ![a] = v] ELSE sa
StmtStored(sa, a, v) ==
  IF a \in DOMAIN sa /\ StmtSetOutcome(a, v) = Done THEN [sa EXCEPT ![a] = v] ELSE sa

(* The other SetAttribute passes the address of each member of stmtAttr_,     *)
(* where the first one takes the value.                                       *)
SetOne(st, a, v) ==
  [attr |-> StmtStored(st.attr, a, v), diag |-> ApiCall(st.diag, StmtSetOutcome(a, v))]
SetAttributesByValue(sa) ==
  LET new         == [attr |-> NewStmtAttr, diag |-> NewStorage]
      bindType    == SetOne(new, "ROW_BIND_TYPE", sa.bindType)
      concurrency == SetOne(bindType, "CONCURRENCY", sa.concurrency)
      cursorType  == SetOne(concurrency, "CURSOR_TYPE", sa.cursorType)
      retrievData == SetOne(cursorType, "RETRIEVE_DATA", sa.retrievData)
  IN SetOne(retrievData, "ROW_ARRAY_SIZE", sa.rowsetSize)
SetAttributes(sa) ==
  SetAttributesByValue([m \in DOMAIN sa |-> Address])

SQLSetStmtAttr(s, a, v) ==
  /\ s \in live
  /\ stmtAttr' = [stmtAttr EXCEPT ![s] = StmtStored(@, a, v)]
  /\ LET o == StmtSetOutcome(a, v)
         c == parent[s]
         through == a = "METADATA_ID" /\ o = Done
     IN /\ diag' = [diag EXCEPT ![s] = ApiCall(@, o),
                                ![c] = IF through THEN ApiCall(@, Done) ELSE @]
        /\ connAttr' = IF through THEN [connAttr EXCEPT ![c].metadataID = v] ELSE connAttr
        /\ accepted' = [accepted EXCEPT
             ![s] = IF o = Done /\ a \in DOMAIN @ THEN [@ EXCEPT ![a] = v] ELSE @,
             ![c] = IF through THEN [@ EXCEPT !.METADATA_ID = v] ELSE @]
        /\ taken' = IF o = Done /\ a = "ROW_ARRAY_SIZE" THEN taken \ {s} ELSE taken
        /\ Answers(s, ApiCall(diag[s], o))
  /\ UNCHANGED <<live, parent, connections, version, hasQuery>>

(* What SQLGetStmtAttr reads; SQLGetStmtOption differs in the name of the     *)
(* row array size only.                                                       *)
StmtGet(s, a) ==
  CASE a \in DOMAIN OnlyValue   -> OnlyValue[a]
    [] a = "METADATA_ID"        -> connAttr[parent[s]].metadataID
    [] a \in DOMAIN stmtAttr[s] -> stmtAttr[s][a]
    [] OTHER                    -> 0
StmtGets == DOMAIN OnlyValue \cup DOMAIN NewStmtAttr
              \cup {"METADATA_ID", "CURSOR_SCROLLABLE", "CURSOR_SENSITIVITY",
                    "ENABLE_AUTO_IPD"}

(* ROW_NUMBER without a query leaves a record and still succeeds.             *)
StmtGetOutcome(s, a) ==
  CASE a \in StmtGets   -> Done
    [] a = "ROW_NUMBER" -> IF hasQuery[s] THEN Done
                           ELSE Outcome("AI_SUCCESS", << "24000" >>)
    [] OTHER            -> Failed("HYC00")

SQLGetStmtAttr(s, a) ==
  /\ s \in live
  /\ Call(s, StmtGetOutcome(s, a))
  /\ UNCHANGED members

SQLGetStmtOption(s, option) ==
  SQLGetStmtAttr(s, IF option = "ROWSET_SIZE" THEN "ROW_ARRAY_SIZE" ELSE option)
-----------------------------------------------------------------------------
(* Allocation and release.                                                   *)

NewConnAttr ==
  [autoCommit |-> TRUE, metadataID |-> 0,
   stmtAttr |-> [m \in {"bindType", "concurrency", "cursorType", "retrievData", "rowsetSize"}
                   |-> Uninitialised]]

SQLAllocEnv(e) ==
  /\ e \notin live
  /\ live' = live \cup {e}
  /\ connections' = [connections EXCEPT ![e] = {}]
  /\ version' = [version EXCEPT ![e] = "ODBC3"]
  /\ diag' = [diag EXCEPT ![e] = NewStorage]
  /\ accepted' = [accepted EXCEPT ![e] = [ODBC_VERSION |-> "ODBC3"]]
  /\ AnswersWith(NoHandle, "SQL_SUCCESS", << >>)
  /\ UNCHANGED <<parent, connAttr, stmtAttr, hasQuery, taken>>

(* InternalCreateConnection.                                                 *)
SQLAllocConnect(e, c) ==
  /\ e \in live /\ c \notin live
  /\ live' = live \cup {c} /\ parent' = [parent EXCEPT ![c] = e]
  /\ connections' = [connections EXCEPT ![e] = @ \cup {c}]
  /\ connAttr' = [connAttr EXCEPT ![c] = NewConnAttr]
  /\ diag' = [diag EXCEPT ![e] = ApiCall(@, Done), ![c] = NewStorage]
  /\ accepted' = [accepted EXCEPT ![c] =
       [AUTOCOMMIT |-> TRUE, METADATA_ID |-> 0, ROWSET_SIZE |-> NewStmtAttr.ROW_ARRAY_SIZE]]
  /\ AnswersWith(e, "SQL_SUCCESS", << >>)
  /\ UNCHANGED <<version, stmtAttr, hasQuery, taken>>

(* InternalCreateStatement: "set statement attributes that are set to this     *)
(* connection".                                                              *)
SQLAllocStmt(c, s) ==
  /\ c \in live /\ s \notin live
  /\ live' = live \cup {s} /\ parent' = [parent EXCEPT ![s] = c]
  /\ LET new == SetAttributes(connAttr[c].stmtAttr)
     IN /\ stmtAttr' = [stmtAttr EXCEPT ![s] = new.attr]
        /\ diag' = [diag EXCEPT ![c] = ApiCall(@, Done), ![s] = new.diag]
  /\ hasQuery' = [hasQuery EXCEPT ![s] = FALSE]
  /\ LET size == accepted[c].ROWSET_SIZE
     IN /\ accepted' = [accepted EXCEPT ![s] = [NewStmtAttr EXCEPT !.ROW_ARRAY_SIZE = size]]
        /\ taken' = IF size = NewStmtAttr.ROW_ARRAY_SIZE THEN taken ELSE taken \cup {s}
  /\ Answers(c, ApiCall(diag[c], Done))
  /\ UNCHANGED <<connections, version, connAttr>>

(* InternalCreateDescriptor.                                                 *)
SQLAllocDesc(c, d) ==
  /\ c \in live /\ d \notin live
  /\ live' = live \cup {d} /\ parent' = [parent EXCEPT ![d] = c]
  /\ diag' = [diag EXCEPT ![c] = ApiCall(@, Done), ![d] = NewStorage]
  /\ Answers(c, ApiCall(diag[c], Done))
  /\ UNCHANGED <<connections, version, connAttr, stmtAttr, hasQuery, accepted, taken>>

Childless(h) == \A k \in live : parent[k] # h

(* The object is deleted; a handle allocated later is a new object.          *)
Freed(h) ==
  /\ h \in live /\ Childless(h)
  /\ live' = live \ {h} /\ parent' = [parent EXCEPT ![h] = NoHandle]
  /\ diag' = [diag EXCEPT ![h] = NewStorage]
  /\ accepted' = [accepted EXCEPT ![h] = << >>] /\ taken' = taken \ {h}
  /\ AnswersWith(NoHandle, "SQL_SUCCESS", << >>)
  /\ UNCHANGED version

SQLFreeEnv(e) == Freed(e) /\ UNCHANGED <<connections, connAttr, stmtAttr, hasQuery>>

SQLFreeConnect(c) ==
  /\ Freed(c)
  /\ connections' = [connections EXCEPT ![parent[c]] = @ \ {c}]
  /\ connAttr' = [connAttr EXCEPT ![c] = << >>]
  /\ UNCHANGED <<stmtAttr, hasQuery>>

(* SQLFreeStmt(SQL_DROP); the cursor name is in module CursorNames.          *)
SQLFreeStmtDrop(s) ==
  /\ Freed(s)
  /\ stmtAttr' = [stmtAttr EXCEPT ![s] = << >>] /\ hasQuery' = [hasQuery EXCEPT ![s] = FALSE]
  /\ UNCHANGED <<connections, connAttr>>

SQLFreeDescriptor(d) == Freed(d) /\ UNCHANGED <<connections, connAttr, stmtAttr, hasQuery>>
-----------------------------------------------------------------------------
(* Calls on an environment.                                                  *)

(* Values other than the supported ones are refused with a warning.          *)
EnvSetOutcome(a, v) ==
  CASE a = "ODBC_VERSION" -> IF v \in {"ODBC2", "ODBC3"} THEN Done ELSE Warned("01S02")
    [] a = "OUTPUT_NTS"   -> IF v = "TRUE" THEN Done ELSE Warned("01S02")
    [] OTHER              -> Failed("HYC00")

SQLSetEnvAttr(e, a, v) ==
  /\ e \in live
  /\ LET o == EnvSetOutcome(a, v)
         set == a = "ODBC_VERSION" /\ o = Done
     IN /\ Call(e, o)
        /\ version' = IF set THEN [version EXCEPT ![e] = v] ELSE version
        /\ accepted' = IF set THEN [accepted EXCEPT ![e][a] = v] ELSE accepted
  /\ UNCHANGED <<live, parent, connections, connAttr, stmtAttr, hasQuery, taken>>

SQLGetEnvAttr(e, a) ==
  /\ e \in live
  /\ Call(e, IF a \in {"ODBC_VERSION", "OUTPUT_NTS"} THEN Done ELSE Failed("HYC00"))
  /\ UNCHANGED members

(* Connection::GetEnvODBCVer asks through the environment's own API call.     *)
GetEnvODBCVer(d) == ApiCall(d, Done)
-----------------------------------------------------------------------------
(* Calls on a connection.                                                    *)

CallOnConnection(c, outcomes) ==
  /\ c \in live
  /\ \E o \in outcomes : Call(c, o)
  /\ UNCHANGED members

(* Warnings of the connection string are kept and turn the result into a      *)
(* success with information; Validate may refuse and the user cancel the      *)
(* dialog.  Module Setup has the rest.                                        *)
EstablishOutcomes ==
  {Done, Warned("01S02"), Failed("01S00"), Outcome("AI_ERROR", <<"01S02", "01S00">>),
   Failed("HY008")}
SQLDriverConnect(c) == CallOnConnection(c, EstablishOutcomes)

(* ReadDsnConfiguration takes the connection's records and adds none, so a    *)
(* DSN leaves no warning.                                                     *)
SQLConnect(c) == CallOnConnection(c, {Done, Failed("01S00")})

(* queryClient_ is set by no function of this commit.                         *)
SQLDisconnectEverywhere(c) ==
  /\ c \in live
  /\ diag' = [h \in Handles |-> IF h = c \/ parent[h] = c THEN ApiCall(diag[h], Warned("08003"))
                                                      ELSE diag[h]]
  /\ Answers(c, ApiCall(diag[c], Warned("08003")))
  /\ UNCHANGED members
SQLDisconnect(c) == CallOnConnection(c, {Warned("08003")})

(* GetInfo of module ConnectionInfo fails for the types it does not list.     *)
SQLGetInfo(c) == CallOnConnection(c, {Done, Failed("HYC00")})

(* A null query, a length that is not valid, a buffer too short.              *)
SQLNativeSql(c) ==
  CallOnConnection(c, {Done, Failed("HY009"), Failed("HY090"), Warned("01004")})

(* On macOS.  A function without a case leaves the value, and succeeds.       *)
SQLGetFunctions(c, f) ==
  /\ c \in live
  /\ diag' = [diag EXCEPT ![c] = ApiCall(@, Done)]
  /\ AnswersWith(c, "SQL_SUCCESS",
       <<f, CASE f = "ODBC3_ALL" -> SetODBC3FunctionsValue
              [] f = "ODBC2_ALL" -> SetODBC2FunctionsValue
              [] OTHER           -> {f} \cap GetFunctions>>)
  /\ UNCHANGED members

ConnGetOutcome(a) ==
  IF a \in {"CONNECTION_DEAD", "CONNECTION_TIMEOUT", "AUTOCOMMIT", "METADATA_ID", "AUTO_IPD",
            "ASYNC_ENABLE", "TRINOLOG_DEBUG"}
  THEN Done ELSE Failed("HYC00")
(* The case of CONNECTION_DEAD falls through to that of CONNECTION_TIMEOUT.   *)
ConnGet(c, a) ==
  CASE a = "AUTOCOMMIT"  -> connAttr[c].autoCommit
    [] a = "METADATA_ID" -> connAttr[c].metadataID
    [] OTHER             -> 0

SQLGetConnectAttr(c, a, buf) ==
  CallOnConnection(c, {IF buf THEN ConnGetOutcome(a) ELSE Failed("HY009")})

IgnoredOptions == {"TRANSLATE_DLL", "TRANSLATE_OPTION", "TXN_ISOLATION", "ACCESS_MODE",
                   "CURRENT_QUALIFIER", "PACKET_SIZE", "QUIET_MODE", "LOGIN_TIMEOUT"}

SQLGetConnectOption(c, a) ==
  IF a \in IgnoredOptions \cup {"QUERY_TIMEOUT"}
  THEN CallOnConnection(c, {Warned("01000")}) ELSE SQLGetConnectAttr(c, a, TRUE)

(* InternalSetAttribute of the connection.                                    *)
ConnSetOutcome(a, v) ==
  CASE a = "AUTOCOMMIT"      -> IF v \in BOOLEAN THEN Done ELSE Failed("HYC00")
    [] a = "METADATA_ID"     -> IF v \in {0, 1} THEN Done ELSE Failed("HY024")
    [] a = "TRINOLOG_DEBUG"  -> Done
    [] a = "CONNECTION_DEAD" -> Failed("HY092")
    [] a = "ANSI_APP"        -> Failed("HY000")
    [] OTHER                 -> Failed("HYC00")

(* InternalSetStmtAttribute: options kept for the statements to come.         *)
OptionMember == [BIND_TYPE |-> "bindType", CONCURRENCY |-> "concurrency",
                 CURSOR_TYPE |-> "cursorType", RETRIEVE_DATA |-> "retrievData",
                 ROWSET_SIZE |-> "rowsetSize"]
StmtOptionOutcome(a, v) ==
  CASE a = "ROWSET_SIZE" -> IF v <= 1000 THEN Done ELSE Failed("IM001")
    [] a = "BIND_TYPE"   -> IF v = 0 THEN Done ELSE Failed("HYC00")
    [] a \in {"CONCURRENCY", "CURSOR_TYPE", "RETRIEVE_DATA"} ->
         IF v = OnlyValue[a] THEN Done ELSE Failed("HYC00")
    [] a \in {"NOSCAN", "QUERY_TIMEOUT", "MAX_ROWS", "MAX_LENGTH", "KEYSET_SIZE",
              "ASYNC_ENABLE"} -> Warned("01000")
    [] OTHER             -> Failed("HYC00")    \* USE_BOOKMARKS, SIMULATE_CURSOR

StmtOptions == DOMAIN OptionMember
                 \cup {"NOSCAN", "QUERY_TIMEOUT", "MAX_ROWS", "MAX_LENGTH", "KEYSET_SIZE",
                       "ASYNC_ENABLE", "USE_BOOKMARKS", "SIMULATE_CURSOR"}

ConnStored(ca, a, v) ==
  CASE a = "AUTOCOMMIT"           -> [ca EXCEPT !.autoCommit = v]
    [] a = "METADATA_ID"          -> [ca EXCEPT !.metadataID = v]
    [] a \in DOMAIN OptionMember  -> [ca EXCEPT !.stmtAttr[OptionMember[a]] = v]
    [] OTHER                      -> ca

SetOnConnection(c, a, v, o) ==
  /\ c \in live
  /\ Call(c, o)
  /\ connAttr' = IF o = Done THEN [connAttr EXCEPT ![c] = ConnStored(@, a, v)] ELSE connAttr
  /\ accepted' = IF o = Done /\ a \in DOMAIN accepted[c]
                 THEN [accepted EXCEPT ![c][a] = v] ELSE accepted
  /\ UNCHANGED <<live, parent, connections, version, stmtAttr, hasQuery, taken>>

SQLSetConnectAttr(c, a, v) ==
  SetOnConnection(c, a, v, ConnSetOutcome(a, v))

SQLSetConnectOption(c, a, v) ==
  SetOnConnection(c, a, v, CASE a \in StmtOptions    -> StmtOptionOutcome(a, v)
                             [] a \in IgnoredOptions -> Warned("01000")
                             [] OTHER                -> ConnSetOutcome(a, v))
-----------------------------------------------------------------------------
(* Calls on a statement: what each may answer, without (q = FALSE) and with a *)
(* query.  Every one begins by resetting the statement's records.             *)

Needs(q, state, outcomes) == IF q THEN outcomes ELSE {Failed(state)}
Executions == {Done, Warned("01000"), Failed("HY000")}

(* GetMeta asks the service for the columns at every call until it has them:  *)
(* the request fails, or it answers without a column and nothing is recorded. *)
MetaFailures == {Failed("HY000"), Outcome("AI_ERROR", << >>)}
MetaCalls    == {"NumResultCols", "ColAttribute"}

ExecutionCalls(q) ==
  [Prepare    |-> {Done},
   Execute    |-> Needs(q, "HY010", Executions),
   ExecDirect |-> Executions,
   Cancel     |-> Needs(q, "HY010", {Done, Failed("HY000")})]

(* Only the next row can be fetched.                                          *)
FetchCalls(q) ==
  [Fetch          |-> Needs(q, "24000", {Done, NoData, Warned("01S01"), Failed("HY010")}),
   FetchPrevious  |-> {Failed("HYC00")},
   MoreResults    |-> Needs(q, "HY010", {NoData}),
   NumResultCols  |-> Needs(q, "HY010", {Done} \cup MetaFailures),
   RowCount       |-> Needs(q, "HY010", {Done}),
   GetData        |-> Needs(q, "24000", {Done, NoData, Warned("01004"), Failed("HY010")})]

(* The catalog functions make a query of their own; those without data warn.  *)
CatalogCalls ==
  [Tables |-> Executions, Columns |-> Executions, GetTypeInfo |-> {Done, Failed("HYC00")},
   ColumnPrivileges |-> {Warned("01000")}, TablePrivileges |-> {Warned("01000")}]
KeyCalls == [ForeignKeys |-> {Warned("01000")}, PrimaryKeys |-> {Warned("01000")}]
ProcedureCalls ==
  [SpecialColumns |-> {Warned("01000")}, Statistics |-> {Warned("01000")},
   ProcedureColumns |-> {Warned("01000")}, Procedures |-> {Warned("01000")}]

(* SQLFreeStmt other than SQL_DROP, and SQLCloseCursor.                       *)
CloseCalls(q) ==
  [Close |-> IF q THEN {Done, Failed("24000")} ELSE {Done}, Unbind |-> {Done},
   FreeOther |-> {Failed("HY092")}]

(* The name of a column may be cut: a success with information, no record.    *)
(* A column that does not exist is HY000 too.                                 *)
NameCut == Outcome("AI_SUCCESS_WITH_INFO", << >>)
ColumnOutcomes(q) ==
  Needs(q, "HY010", {Done, Failed("HYC00"), NameCut} \cup MetaFailures)
ColumnCalls(q) == [ColAttribute |-> ColumnOutcomes(q)]

NewQueryCalls == DOMAIN CatalogCalls \cup DOMAIN KeyCalls \cup DOMAIN ProcedureCalls
                   \cup {"Prepare", "ExecDirect"}
StatementCalls(q) == {ExecutionCalls(q), FetchCalls(q), CatalogCalls, KeyCalls,
                      ProcedureCalls, CloseCalls(q), ColumnCalls(q)}

(* SQLStatistics and SQLColAttributes ask the environment for its version.    *)
AsksEnvironment == {"Statistics", "ColAttribute"}

CallOnStatement(s, f, outcomes) ==
  /\ s \in live
  /\ \E o \in outcomes, asks \in BOOLEAN :
       /\ asks => f \in AsksEnvironment
       /\ f = "Statistics" => asks
       /\ diag' = [diag EXCEPT ![s] = ApiCall(@, o),
                               ![EnvOf(s)] = IF asks THEN GetEnvODBCVer(@) ELSE @]
       /\ IF f \in MetaCalls THEN AnswersMeta(s, GetReturnCode(ApiCall(diag[s], o)))
                            ELSE Answers(s, ApiCall(diag[s], o))
  /\ hasQuery' = [hasQuery EXCEPT ![s] = @ \/ f \in NewQueryCalls]
  /\ UNCHANGED <<live, parent, connections, version, connAttr, stmtAttr, accepted, taken>>

(* SQLDescribeCol makes five calls, each with its own reset and its own        *)
(* GetMeta: requests may fail until one succeeds, and then only the name, the  *)
(* first of the five, can be cut.                                              *)
DescribeCalls ==
  {o \in [1..5 -> MetaFailures \cup {Done, NameCut}] :
     \A i \in 2..5 : /\ o[i] # NameCut
                    /\ o[i - 1] \notin MetaFailures => o[i] = Done}

(* It answers the worst of the five codes and leaves the records of the last.  *)
DescribeAnswer(o) ==
  LET results == {o[i].result : i \in 1..5}
  IN [last |-> o[5],
      code |-> SqlResultToReturnCode(
                 IF "AI_ERROR" \in results THEN "AI_ERROR" ELSE o[1].result)]
DescribeAnswers(q) ==
  IF q THEN {DescribeAnswer(o) : o \in DescribeCalls}
       ELSE {[last |-> Failed("HY010"), code |-> "SQL_ERROR"]}

SQLDescribeCol(s) ==
  /\ s \in live
  /\ \E a \in DescribeAnswers(hasQuery[s]) :
       /\ diag' = [diag EXCEPT ![s] = ApiCall(@, a.last)]
       /\ AnswersMeta(s, a.code)
  /\ UNCHANGED members

(* A record is added without a reset, and no header is set.                    *)
AddedWithoutReset(h, state, code) ==
  /\ h \in live /\ Len(diag[h].records) < MaxRecords
  /\ diag' = [diag EXCEPT ![h] = AddStatusRecord(@, state)]
  /\ AnswersWith(h, code, << >>)
  /\ UNCHANGED members

(* SQLColumns with an empty catalog name and an empty schema name.             *)
SQLColumnsUnnamed(s) == AddedWithoutReset(s, "01000", "SQL_SUCCESS_WITH_INFO")

(* The functions at the end of entry_points.cpp.                               *)
UnsupportedCallSilent(h) ==
  /\ h \in live /\ Unsupported(Kind(h)) # {} /\ diag' = diag
  /\ AnswersWith(h, "SQL_ERROR", << >>)
  /\ UNCHANGED members
UnsupportedCall(h) ==
  Unsupported(Kind(h)) # {} /\ AddedWithoutReset(h, "HYC00", "SQL_ERROR")
-----------------------------------------------------------------------------
(* Reading diagnostics.  These calls do not report through the storage, so     *)
(* answer.on is no handle.                                                     *)

SQLError(h) ==
  /\ h \in live \ Descs
  /\ AnswersWith(NoHandle, ErrorAnswer(diag[h]).code, <<ErrorAnswer(diag[h]).value>>)
  /\ diag' = [diag EXCEPT ![h] = MarkRetrieved(@)]
  /\ UNCHANGED members

SQLGetDiagRec(h, n, room, msgLen) ==
  /\ h \in live
  /\ LET a == DiagRec(diag[h], n, room, msgLen) IN AnswersWith(NoHandle, a.code, <<a.value>>)
  /\ UNCHANGED <<members, diag>>

SQLGetDiagField(h, n, f) ==
  /\ h \in live
  /\ LET a == DiagField(Kind(h), diag[h], n, f) IN AnswersWith(NoHandle, a.code, <<a.value>>)
  /\ UNCHANGED <<members, diag>>
-----------------------------------------------------------------------------
StmtValues(a) ==
  CASE a = "ROW_ARRAY_SIZE"      -> Sizes
    [] a = "ROW_BIND_OFFSET_PTR" -> Pointers \ {NullPtr}    \* it is read at once
    [] a \in {"ROW_STATUS_PTR", "ROWS_FETCHED_PTR", "ROW_OPERATION_PTR"} -> Pointers
    [] OTHER                     -> 0..2

ACall ==
  \/ \E e \in Envs :
       \/ SQLAllocEnv(e) \/ SQLFreeEnv(e)
       \/ \E v \in {"ODBC2", "ODBC3", "ODBC4"} : SQLSetEnvAttr(e, "ODBC_VERSION", v)
       \/ \E v \in {"TRUE", "FALSE"} : SQLSetEnvAttr(e, "OUTPUT_NTS", v)
       \/ \E a \in {"ODBC_VERSION", "CONNECTION_POOLING"} : SQLGetEnvAttr(e, a)
       \/ \E c \in Conns : SQLAllocConnect(e, c)
  \/ \E c \in Conns :
       \/ SQLFreeConnect(c) \/ SQLDriverConnect(c) \/ SQLConnect(c) \/ SQLDisconnect(c)
       \/ SQLGetInfo(c) \/ SQLNativeSql(c)
       \/ \E f \in {"ODBC3_ALL", "ODBC2_ALL", "SetPos", "ColAttributes"} : SQLGetFunctions(c, f)
       \/ \E a \in ConnSets \cup {"CONNECTION_DEAD"}, buf \in BOOLEAN :
            SQLGetConnectAttr(c, a, buf) \/ SQLGetConnectOption(c, a)
       \/ \E a \in ConnSets :
            \E v \in IF a = "AUTOCOMMIT" THEN BOOLEAN
                     ELSE IF a = "ROWSET_SIZE" THEN Sizes ELSE 0..2 :
              SQLSetConnectAttr(c, a, v) \/ SQLSetConnectOption(c, a, v)
       \/ \E s \in Stmts : SQLAllocStmt(c, s)
       \/ \E d \in Descs : SQLAllocDesc(c, d)
  \/ \E s \in Stmts :
       \/ SQLFreeStmtDrop(s) \/ SQLDescribeCol(s) \/ SQLColumnsUnnamed(s)
       \/ \E a \in StmtSets : \E v \in StmtValues(a) : SQLSetStmtAttr(s, a, v)
       \/ \E a \in StmtSets \cup {"ROW_NUMBER"} : SQLGetStmtAttr(s, a)
       \/ SQLGetStmtOption(s, "ROWSET_SIZE")
       \/ \E table \in StatementCalls(hasQuery[s]) :
            \E f \in DOMAIN table : CallOnStatement(s, f, table[f])
  \/ \E d \in Descs : SQLFreeDescriptor(d)
  \/ \E h \in Handles :
       \/ UnsupportedCall(h) \/ SQLError(h)
       \/ \E n \in 0..MaxRecords + 1 :
            \/ \E room, msgLen \in BOOLEAN : SQLGetDiagRec(h, n, room, msgLen)
            \/ \E f \in {"NUMBER", "RETURNCODE", "SQLSTATE", "SUBCLASS_ORIGIN", "UNKNOWN"} :
                 SQLGetDiagField(h, n, f)

Next == calls < MaxCalls /\ calls' = calls + 1 /\ ACall

Spec == Init /\ [][Next]_vars
-----------------------------------------------------------------------------
(* A call that answers SQL_ERROR leaves, on the handle it was made on, a      *)
(* record that SQLError has not handed out yet, for every handler but the     *)
(* three that need the columns of the result: SQLNumResultCols,               *)
(* SQLColAttribute and SQLDescribeCol may fail without a word.                *)
ErrorIsExplained ==
  answer.code = "SQL_ERROR" /\ answer.on \in live /\ ~ answer.meta
    => \E i \in DOMAIN diag[answer.on].records : ~ diag[answer.on].records[i].retrieved

(* An attribute reads as the value it was last set to with success, on the    *)
(* handle itself or, for SQL_ATTR_METADATA_ID, on any statement of the        *)
(* connection; refused values leave no trace (InternalSetAttribute and        *)
(* InternalGetAttribute of Connection, Statement and Environment).  Of the    *)
(* row array size this is said unless the connection's option is to give it.  *)
AttributesReadBack ==
  \A h \in live :
    /\ h \in Envs  => accepted[h].ODBC_VERSION = version[h]
    /\ h \in Conns => \A a \in {"AUTOCOMMIT", "METADATA_ID"} : ConnGet(h, a) = accepted[h][a]
    /\ h \in Stmts => /\ \A a \in DOMAIN accepted[h] :
                           \/ h \in taken /\ a = "ROW_ARRAY_SIZE"
                           \/ StmtGet(h, a) = accepted[h][a]
                      /\ StmtGet(h, "METADATA_ID") = accepted[parent[h]].METADATA_ID

(* A call changes the diagnostics of the handle it is made on and of the      *)
(* handles that one was allocated on, never those of another statement,       *)
(* connection or descriptor (METADATA_ID, GetEnvODBCVer and SQLAlloc* go      *)
(* through an ancestor).                                                      *)
OthersDiagnosticsKept ==
  [][\A h \in live \cap live' :
       diag'[h].records # diag[h].records /\ answer'.on # NoHandle
         => \/ h = answer'.on \/ h = parent[answer'.on]
            \/ answer'.on \in Stmts \cup Descs /\ h = EnvOf(answer'.on)]_vars
=============================================================================
