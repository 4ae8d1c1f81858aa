--------------------------- MODULE HandlesProofs ---------------------------
(* What the handles of the driver keep, for any number of handles and calls. *)
EXTENDS Handles, SequenceTheorems, WellFoundedInduction, TLAPS

Results == {"AI_SUCCESS", "AI_SUCCESS_WITH_INFO", "AI_NO_DATA", "AI_NEED_DATA", "AI_ERROR"}
Record == [state : SqlStates, retrieved : BOOLEAN]
Storage == [result : Results, records : Seq(Record)]

(* The allocated handles form a forest of three levels: a handle is freed     *)
(* after those allocated on it.                                               *)
TreeOK ==
  /\ live \subseteq Handles /\ DOMAIN parent = Handles
  /\ \A c \in live \cap Conns : parent[c] \in live \cap Envs
  /\ \A s \in live \cap (Stmts \cup Descs) : parent[s] \in live \cap Conns

DiagOK == diag \in [Handles -> Storage]

(* The members an attribute is kept in hold the value last accepted.          *)
EnvKeeps ==
  /\ DOMAIN version = Envs /\ DOMAIN accepted = Handles
  /\ \A e \in live \cap Envs :
       DOMAIN accepted[e] = {"ODBC_VERSION"} /\ accepted[e].ODBC_VERSION = version[e]

StmtMembers == {"bindType", "concurrency", "cursorType", "retrievData", "rowsetSize"}

ConnMembers(ca) ==
  DOMAIN ca = {"autoCommit", "metadataID", "stmtAttr"} /\ DOMAIN ca.stmtAttr = StmtMembers

ConnAttrs == {"AUTOCOMMIT", "METADATA_ID", "ROWSET_SIZE"}

ConnKeeps ==
  /\ DOMAIN connAttr = Conns
  /\ \A c \in live \cap Conns :
       /\ ConnMembers(connAttr[c])
       /\ DOMAIN accepted[c] = ConnAttrs
       /\ accepted[c].AUTOCOMMIT = connAttr[c].autoCommit
       /\ accepted[c].METADATA_ID = connAttr[c].metadataID

(* The row array size is left out while a connection's option is to give it.  *)
StmtKeeps ==
  /\ DOMAIN stmtAttr = Stmts
  /\ \A s \in live \cap Stmts :
       /\ DOMAIN accepted[s] = DOMAIN NewStmtAttr /\ DOMAIN stmtAttr[s] = DOMAIN NewStmtAttr
       /\ \A a \in DOMAIN NewStmtAttr :
            (s \in taken /\ a = "ROW_ARRAY_SIZE") \/ stmtAttr[s][a] = accepted[s][a]

Keeps == TreeOK /\ EnvKeeps /\ ConnKeeps /\ StmtKeeps

HandlesInv == Keeps /\ DiagOK
-----------------------------------------------------------------------------
(* Storages and outcomes *)

(* An outcome that the driver may give, and one whose error has a record.     *)
Typed(o) == o \in [result : Results, states : Seq(SqlStates)]
Explained(o) == Typed(o) /\ (o.result = "AI_ERROR" => o.states # << >>)

(* The storage holds a record that SQLError has not handed out.               *)
Unread(d) == \E i \in DOMAIN d.records : ~ d.records[i].retrieved

LEMMA EmptyOutcome ==
  ASSUME NEW r \in Results
  PROVE  Typed(Outcome(r, << >>)) /\ (r # "AI_ERROR" => Explained(Outcome(r, << >>)))
BY DEF Typed, Explained, Outcome

LEMMA OneState ==
  ASSUME NEW r \in Results, NEW s \in SqlStates PROVE Explained(Outcome(r, << s >>))
<1>1. << s >> \in Seq(SqlStates) /\ << s >> # << >>
  OBVIOUS
<1>2. QED  BY <1>1 DEF Typed, Explained, Outcome

LEMMA TwoStates ==
  ASSUME NEW r \in Results, NEW s \in SqlStates, NEW t \in SqlStates
  PROVE  Explained(Outcome(r, << s, t >>))
<1>1. << s, t >> \in Seq(SqlStates) /\ << s, t >> # << >>
  OBVIOUS
<1>2. QED  BY <1>1 DEF Typed, Explained, Outcome

(* The outcomes a handler is written with.                                    *)
LEMMA Outcomes ==
  /\ Explained(Done) /\ Explained(NoData)
  /\ \A s \in SqlStates : Explained(Warned(s)) /\ Explained(Failed(s))
BY EmptyOutcome, OneState DEF Done, NoData, Warned, Failed, Results

LEMMA NewStorageFacts == NewStorage \in Storage
BY DEF NewStorage, Storage, Results

(* A storage has the two fields, and any two values of their types make one.  *)
LEMMA StorageFields ==
  /\ \A d \in Storage : d = [result |-> d.result, records |-> d.records]
  /\ \A r \in Results, q \in Seq(Record) : [result |-> r, records |-> q] \in Storage
<1>1. \A d \in Storage : d = [result |-> d.result, records |-> d.records]
  BY DEF Storage
<1>2. \A r \in Results, q \in Seq(Record) : [result |-> r, records |-> q] \in Storage
  BY DEF Storage
<1>3. QED  BY <1>1, <1>2

(* IGNITE_ODBC_API_CALL: the records of a call are those of its outcome, and  *)
(* an error leaves one that was not handed out.                               *)
LEMMA ApiCallFacts ==
  ASSUME NEW d \in Storage, NEW o, Typed(o)
  PROVE  /\ ApiCall(d, o) \in Storage
         /\ Explained(o) /\ GetReturnCode(ApiCall(d, o)) = "SQL_ERROR"
              => Unread(ApiCall(d, o))
<1> DEFINE recs == [i \in DOMAIN o.states |-> DiagnosticRecord(o.states[i])]
<1>0. o.result \in Results /\ o.states \in Seq(SqlStates)
  BY DEF Typed
<1>1. ApiCall(d, o) = [result |-> o.result, records |-> recs]
  <2>1. SetHeaderRecord(d, "AI_ERROR") = [result |-> "AI_ERROR", records |-> d.records]
    BY StorageFields DEF SetHeaderRecord
  <2>2. Reset(d) = [result |-> "AI_ERROR", records |-> << >>]
    BY <2>1 DEF Reset
  <2>3. ApiCall(d, o) = SetHeaderRecord([Reset(d) EXCEPT !.records = recs], o.result)
    BY DEF ApiCall
  <2> HIDE DEF recs
  <2>4. [Reset(d) EXCEPT !.records = recs] = [result |-> "AI_ERROR", records |-> recs]
    BY <2>2
  <2>5. QED  BY <2>3, <2>4 DEF SetHeaderRecord
<1>2. DOMAIN o.states = 1 .. Len(o.states) /\ Len(o.states) \in Nat
      /\ \A i \in 1 .. Len(o.states) : o.states[i] \in SqlStates
  BY <1>0, LenProperties, ElementOfSeq
<1>3. \A i \in 1 .. Len(o.states) : DiagnosticRecord(o.states[i]) \in Record
  BY <1>2, Zenon DEF DiagnosticRecord, Record
<1>4. recs \in [1 .. Len(o.states) -> Record]
  BY <1>2, <1>3
<1>5. recs \in Seq(Record)
  BY <1>2, <1>4, SeqDef
<1> HIDE DEF recs
<1>6. ApiCall(d, o) \in Storage
  BY <1>0, <1>1, <1>5, StorageFields
<1>7. ASSUME Explained(o), GetReturnCode(ApiCall(d, o)) = "SQL_ERROR"
      PROVE  Unread(ApiCall(d, o))
  <2>1. o.result = "AI_ERROR"
    BY <1>0, <1>1, <1>7 DEF GetReturnCode, SqlResultToReturnCode, Results
  <2>2. o.states # << >>
    BY <1>7, <2>1 DEF Explained
  <2>3. 1 \in 1 .. Len(o.states)
    BY <1>0, <1>2, <2>2, EmptySeq
  <2>4. 1 \in DOMAIN recs /\ ~ recs[1].retrieved
    BY <1>2, <2>3 DEF recs, DiagnosticRecord
  <2>5. QED  BY <1>1, <2>4 DEF Unread
<1>8. QED  BY <1>6, <1>7

LEMMA AddStatusFacts ==
  ASSUME NEW d \in Storage, NEW s \in SqlStates
  PROVE  AddStatusRecord(d, s) \in Storage /\ Unread(AddStatusRecord(d, s))
<1> DEFINE recs == Append(d.records, DiagnosticRecord(s))
<1>1. AddStatusRecord(d, s) = [result |-> d.result, records |-> recs]
  BY StorageFields DEF AddStatusRecord
<1>2. DiagnosticRecord(s) \in Record
  BY Zenon DEF DiagnosticRecord, Record
<1>3. d.records \in Seq(Record) /\ d.result \in Results
  BY DEF Storage
<1>4. /\ recs \in Seq(Record) /\ Len(recs) = Len(d.records) + 1
      /\ recs[Len(d.records) + 1] = DiagnosticRecord(s) /\ Len(d.records) \in Nat
      /\ DOMAIN recs = 1 .. Len(recs)
  BY <1>2, <1>3, AppendProperties, LenProperties
<1> HIDE DEF recs
<1>5. Len(d.records) + 1 \in DOMAIN recs
  BY <1>4
<1>6. ~ recs[Len(d.records) + 1].retrieved
  BY <1>4 DEF DiagnosticRecord
<1>7. AddStatusRecord(d, s) \in Storage
  BY <1>1, <1>3, <1>4, StorageFields
<1>8. QED  BY <1>1, <1>5, <1>6, <1>7 DEF Unread

LEMMA LeastElement ==
  ASSUME NEW S \in SUBSET Nat, S # {} PROVE \E m \in S : \A j \in S : m <= j
<1> DEFINE R == OpToRel(<, Nat)
<1>1. \E m \in S : \A j \in S : ~ (<<j, m>> \in R)
  <2>1. IsWellFoundedOn(R, Nat)
    BY NatLessThanWellFounded
  <2> HIDE DEF R
  <2>2. QED  BY <2>1, WFMin
<1>2. \A j, m \in Nat : ~ (<<j, m>> \in R) => m <= j
  BY DEF OpToRel
<1> HIDE DEF R
<1>3. QED  BY <1>1, <1>2

(* SQLError marks a record, and its storage stays one.                        *)
LEMMA MarkFacts ==
  ASSUME NEW d \in Storage PROVE MarkRetrieved(d) \in Storage
<1> DEFINE n == GetLastNonRetrieved(d)
           new == {i \in DOMAIN d.records : ~ d.records[i].retrieved}
<1>1. CASE n = 0
  BY <1>1 DEF MarkRetrieved
<1>2. CASE n # 0
  <2>0. d.records \in Seq(Record) /\ d.result \in Results
    BY DEF Storage
  <2>1. /\ DOMAIN d.records = 1 .. Len(d.records) /\ Len(d.records) \in Nat
        /\ \A i \in 1 .. Len(d.records) : d.records[i] \in Record
    BY <2>0, LenProperties, ElementOfSeq
  <2>2. new # {}
    BY <1>2 DEF GetLastNonRetrieved
  <2>3. new \subseteq Nat
    BY <2>1
  <2>4. PICK m \in new : \A j \in new : m <= j
    BY <2>2, <2>3, LeastElement
  <2>5. n \in new
    BY <2>2, <2>4 DEF GetLastNonRetrieved
  <2> HIDE DEF n
  <2>6. n \in 1 .. Len(d.records) /\ d.records[n] \in Record
    BY <2>1, <2>5
  <2> DEFINE rec == [d.records[n] EXCEPT !.retrieved = TRUE]
             recs == [d.records EXCEPT ![n] = rec]
  <2>7. rec \in Record
    BY <2>6, Zenon DEF Record
  <2> HIDE DEF rec
  <2>8. recs \in Seq(Record)
    BY <2>0, <2>6, <2>7, ExceptSeq
  <2>9. MarkRetrieved(d) = [d EXCEPT !.records = recs]
    BY <1>2 DEF MarkRetrieved, n, rec
  <2> HIDE DEF recs
  <2>10. MarkRetrieved(d) = [result |-> d.result, records |-> recs]
    BY <2>9, StorageFields
  <2>11. QED  BY <2>0, <2>8, <2>10, StorageFields
<1>3. QED  BY <1>1, <1>2
-----------------------------------------------------------------------------
(* The outcomes of the calls *)

LEMMA States ==
  {"01000", "01004", "01S00", "01S01", "01S02", "08003", "24000", "HY000", "HY008", "HY009",
   "HY010", "HY024", "HY090", "HY092", "HYC00", "IM001"} \subseteq SqlStates
BY DEF SqlStates

LEMMA AttributeOutcomes ==
  /\ \A a, v : Explained(EnvSetOutcome(a, v)) /\ Explained(ConnSetOutcome(a, v))
  /\ \A a, v : Explained(StmtSetOutcome(a, v)) /\ Explained(StmtOptionOutcome(a, v))
  /\ \A a : Explained(ConnGetOutcome(a))
  /\ \A s, a : Explained(StmtGetOutcome(s, a))
<1>1. \A a, v : Explained(EnvSetOutcome(a, v))
  BY Outcomes, States DEF EnvSetOutcome
<1>2. \A a, v : Explained(ConnSetOutcome(a, v))
  BY Outcomes, States DEF ConnSetOutcome
<1>3. \A a, v : Explained(StmtSetOutcome(a, v))
  BY Outcomes, States DEF StmtSetOutcome
<1>4. \A a, v : Explained(StmtOptionOutcome(a, v))
  BY Outcomes, States DEF StmtOptionOutcome
<1>5. \A a : Explained(ConnGetOutcome(a))
  BY Outcomes, States DEF ConnGetOutcome
<1>6. \A s, a : Explained(StmtGetOutcome(s, a))
  BY Outcomes, States, OneState DEF StmtGetOutcome, Results
<1>7. QED  BY <1>1, <1>2, <1>3, <1>4, <1>5, <1>6

LEMMA EstablishExplained == \A o \in EstablishOutcomes : Explained(o)
BY Outcomes, States, TwoStates DEF EstablishOutcomes, Results

(* A request for the columns may fail without a record.                       *)
LEMMA MetaTyped ==
  /\ \A o \in MetaFailures \cup {Done, NameCut} : Typed(o)
  /\ \A q : \A o \in ColumnOutcomes(q) : Typed(o)
<1>1. \A s \in SqlStates : Typed(Failed(s))
  BY Outcomes DEF Explained
<1>2. Typed(Done) /\ Typed(NameCut)
  BY Outcomes, EmptyOutcome DEF Explained, NameCut, Results
<1>3. \A o \in MetaFailures : Typed(o)
  BY <1>1, States, EmptyOutcome DEF MetaFailures, Results
<1>4. \A q : \A o \in ColumnOutcomes(q) : Typed(o)
  BY <1>1, <1>2, <1>3, States DEF ColumnOutcomes, Needs
<1>5. QED  BY <1>2, <1>3, <1>4

LEMMA DescribeTyped ==
  ASSUME NEW q, NEW a \in DescribeAnswers(q) PROVE Typed(a.last)
<1>1. CASE q
  <2>1. PICK o \in DescribeCalls : a = DescribeAnswer(o)
    BY <1>1 DEF DescribeAnswers
  <2>2. o[5] \in MetaFailures \cup {Done, NameCut}
    BY <2>1 DEF DescribeCalls
  <2>3. a.last = o[5]
    BY <2>1 DEF DescribeAnswer
  <2>4. QED  BY <2>2, <2>3, MetaTyped
<1>2. CASE ~ q
  BY <1>2, Outcomes, States DEF DescribeAnswers, Explained
<1>3. QED  BY <1>1, <1>2

(* Every call has a record for its error, but those that need the columns.    *)
LEMMA StatementExplained ==
  ASSUME NEW q, NEW table \in StatementCalls(q), NEW f \in DOMAIN table, NEW o \in table[f]
  PROVE  Typed(o) /\ (f \notin MetaCalls => Explained(o))
<1>0. \A x : Explained(x) => Typed(x)
  BY DEF Explained
<1>1. \A x \in Executions : Explained(x)
  BY Outcomes, States DEF Executions
<1>2. CASE table = ExecutionCalls(q)
  BY <1>0, <1>1, <1>2, Outcomes, States DEF ExecutionCalls, Needs
<1>3. CASE table = FetchCalls(q)
  <2>1. CASE f = "NumResultCols"
    BY <1>0, <1>3, <2>1, Outcomes, States, MetaTyped DEF FetchCalls, Needs, MetaCalls
  <2>2. CASE f # "NumResultCols"
    BY <1>0, <1>3, <2>2, Outcomes, States DEF FetchCalls, Needs
  <2>3. QED  BY <2>1, <2>2
<1>4. CASE table = CatalogCalls
  BY <1>0, <1>1, <1>4, Outcomes, States DEF CatalogCalls
<1>5. CASE table = KeyCalls
  BY <1>0, <1>5, Outcomes, States DEF KeyCalls
<1>6. CASE table = ProcedureCalls
  BY <1>0, <1>6, Outcomes, States DEF ProcedureCalls
<1>7. CASE table = CloseCalls(q)
  BY <1>0, <1>7, Outcomes, States DEF CloseCalls
<1>8. CASE table = ColumnCalls(q)
  BY <1>8, MetaTyped DEF ColumnCalls, MetaCalls
<1>9. QED
  BY <1>2, <1>3, <1>4, <1>5, <1>6, <1>7, <1>8 DEF StatementCalls
-----------------------------------------------------------------------------
(* The attributes *)

LEMMA NewStmtDomain ==
  DOMAIN NewStmtAttr
    = {"ROW_ARRAY_SIZE", "ROW_STATUS_PTR", "ROWS_FETCHED_PTR", "ROW_BIND_OFFSET_PTR"}
BY DEF NewStmtAttr

LEMMA SetOneFacts ==
  ASSUME NEW st, st.diag \in Storage, NEW a, NEW v
  PROVE  /\ SetOne(st, a, v).diag \in Storage
         /\ a \notin DOMAIN st.attr \/ StmtSetOutcome(a, v) # Done
              => SetOne(st, a, v).attr = st.attr
<1>1. Typed(StmtSetOutcome(a, v))
  BY AttributeOutcomes DEF Explained
<1>2. QED  BY <1>1, ApiCallFacts DEF SetOne, StmtStored

(* The attributes of a connection never reach a new statement: it has those   *)
(* its constructor sets, and the records of the refused row array size.       *)
LEMMA NewStatement ==
  ASSUME NEW sa, DOMAIN sa = StmtMembers
  PROVE  SetAttributes(sa).attr = NewStmtAttr /\ SetAttributes(sa).diag \in Storage
<1> DEFINE ad == [m \in DOMAIN sa |-> Address]
           new == [attr |-> NewStmtAttr, diag |-> NewStorage]
           s1 == SetOne(new, "ROW_BIND_TYPE", ad.bindType)
           s2 == SetOne(s1, "CONCURRENCY", ad.concurrency)
           s3 == SetOne(s2, "CURSOR_TYPE", ad.cursorType)
           s4 == SetOne(s3, "RETRIEVE_DATA", ad.retrievData)
           s5 == SetOne(s4, "ROW_ARRAY_SIZE", ad.rowsetSize)
<1>0. SetAttributes(sa) = s5
  BY DEF SetAttributes, SetAttributesByValue
<1>1. ad.rowsetSize = 1048576
  BY DEF StmtMembers, Address
<1>2. StmtSetOutcome("ROW_ARRAY_SIZE", 1048576) # Done
  BY DEF StmtSetOutcome, OnlyValue, Done, Failed, Outcome
<1>3. new.attr = NewStmtAttr /\ new.diag \in Storage
  BY NewStorageFacts
<1> HIDE DEF ad, new
<1>4. s1.attr = NewStmtAttr /\ s1.diag \in Storage
  BY <1>3, SetOneFacts, NewStmtDomain
<1> HIDE DEF s1
<1>5. s2.attr = NewStmtAttr /\ s2.diag \in Storage
  BY <1>4, SetOneFacts, NewStmtDomain
<1> HIDE DEF s2
<1>6. s3.attr = NewStmtAttr /\ s3.diag \in Storage
  BY <1>5, SetOneFacts, NewStmtDomain
<1> HIDE DEF s3
<1>7. s4.attr = NewStmtAttr /\ s4.diag \in Storage
  BY <1>6, SetOneFacts, NewStmtDomain
<1> HIDE DEF s4
<1>8. s5.attr = NewStmtAttr /\ s5.diag \in Storage
  BY <1>1, <1>2, <1>7, SetOneFacts
<1>9. QED  BY <1>0, <1>8

LEMMA Apart ==
  /\ \A e \in Envs : e \notin Conns /\ e \notin Stmts /\ e \notin Descs /\ e \in Handles
  /\ \A c \in Conns : c \notin Stmts /\ c \notin Descs /\ c \in Handles
  /\ \A s \in Stmts : s \notin Descs /\ s \in Handles
  /\ \A d \in Descs : d \in Handles
  /\ NoHandle \notin Handles
BY HandlesAssumption DEF Handles

LEMMA KeepsInit == Init => Keeps /\ DiagOK
<1> SUFFICES ASSUME Init PROVE Keeps /\ DiagOK
  OBVIOUS
<1>1. Keeps
  BY DEF Init, Keeps, TreeOK, EnvKeeps, ConnKeeps, StmtKeeps
<1>2. DiagOK
  BY NewStorageFacts DEF Init, DiagOK
<1>3. QED  BY <1>1, <1>2

(* Most calls leave the attributes alone.                                     *)
LEMMA KeepsFrame ==
  ASSUME Keeps, UNCHANGED <<live, parent, version, connAttr, stmtAttr, accepted, taken>>
  PROVE  Keeps'
BY DEF Keeps, TreeOK, EnvKeeps, ConnKeeps, StmtKeeps

LEMMA KeepsAlloc ==
  ASSUME Keeps,
         \/ \E e \in Envs : SQLAllocEnv(e)
         \/ \E e \in Envs, c \in Conns : SQLAllocConnect(e, c)
         \/ \E c \in Conns, s \in Stmts : SQLAllocStmt(c, s)
         \/ \E c \in Conns, d \in Descs : SQLAllocDesc(c, d)
  PROVE  Keeps'
<1> USE Apart DEF Keeps, TreeOK, EnvKeeps, ConnKeeps, StmtKeeps
<1>1. CASE \E e \in Envs : SQLAllocEnv(e)
  BY <1>1 DEF SQLAllocEnv
<1>2. CASE \E e \in Envs, c \in Conns : SQLAllocConnect(e, c)
  <2>1. /\ ConnMembers(NewConnAttr)
        /\ NewConnAttr.autoCommit = TRUE /\ NewConnAttr.metadataID = 0
    BY DEF NewConnAttr, ConnMembers, StmtMembers
  <2> PICK e \in Envs, c \in Conns : SQLAllocConnect(e, c)
    BY <1>2
  <2> DEFINE set == [AUTOCOMMIT |-> TRUE, METADATA_ID |-> 0,
                     ROWSET_SIZE |-> NewStmtAttr.ROW_ARRAY_SIZE]
  <2>2. /\ DOMAIN set = ConnAttrs
        /\ set.AUTOCOMMIT = TRUE /\ set.METADATA_ID = 0
    BY DEF ConnAttrs
  <2>3. /\ live' = live \cup {c} /\ parent' = [parent EXCEPT ![c] = e] /\ e \in live
        /\ connAttr' = [connAttr EXCEPT ![c] = NewConnAttr] /\ c \notin live
        /\ accepted' = [accepted EXCEPT ![c] = set]
        /\ UNCHANGED <<version, stmtAttr, taken>>
    BY DEF SQLAllocConnect
  <2> HIDE DEF set
  <2>4. TreeOK' /\ EnvKeeps' /\ StmtKeeps'
    BY <2>3
  <2>5. ConnKeeps'
    BY <2>1, <2>2, <2>3
  <2>6. QED  BY <2>4, <2>5
<1>3. CASE \E c \in Conns, s \in Stmts : SQLAllocStmt(c, s)
  <2> PICK c \in Conns, s \in Stmts : SQLAllocStmt(c, s)
    BY <1>3
  <2>1. stmtAttr' = [stmtAttr EXCEPT ![s] = NewStmtAttr] /\ c \in live
    BY NewStatement DEF SQLAllocStmt, ConnMembers
  <2>2. /\ live' = live \cup {s} /\ parent' = [parent EXCEPT ![s] = c] /\ s \notin live
        /\ UNCHANGED <<version, connAttr>>
    BY DEF SQLAllocStmt
  <2> DEFINE size == accepted[c].ROWSET_SIZE
             set == [NewStmtAttr EXCEPT !.ROW_ARRAY_SIZE = size]
  <2>3. /\ accepted' = [accepted EXCEPT ![s] = set]
        /\ taken' = IF size = NewStmtAttr.ROW_ARRAY_SIZE THEN taken ELSE taken \cup {s}
    BY DEF SQLAllocStmt
  <2>4. /\ DOMAIN set = DOMAIN NewStmtAttr
        /\ \A a \in DOMAIN NewStmtAttr : a # "ROW_ARRAY_SIZE" => set[a] = NewStmtAttr[a]
        /\ set["ROW_ARRAY_SIZE"] = size
    BY NewStmtDomain
  <2>5. \A k \in Stmts \ {s} : k \in taken' <=> k \in taken
    BY <2>3
  <2>6. \A a \in DOMAIN NewStmtAttr :
          (s \in taken' /\ a = "ROW_ARRAY_SIZE") \/ NewStmtAttr[a] = set[a]
    BY <2>3, <2>4
  <2> HIDE DEF size, set
  <2>7. StmtKeeps'
    BY <2>1, <2>2, <2>3, <2>4, <2>5, <2>6
  <2>8. TreeOK' /\ EnvKeeps' /\ ConnKeeps'
    BY <2>1, <2>2, <2>3
  <2>9. QED  BY <2>7, <2>8
<1>4. CASE \E c \in Conns, d \in Descs : SQLAllocDesc(c, d)
  BY <1>4 DEF SQLAllocDesc
<1>5. QED  BY <1>1, <1>2, <1>3, <1>4

LEMMA KeepsFree ==
  ASSUME Keeps,
         \/ \E e \in Envs : SQLFreeEnv(e)
         \/ \E c \in Conns : SQLFreeConnect(c)
         \/ \E s \in Stmts : SQLFreeStmtDrop(s)
         \/ \E d \in Descs : SQLFreeDescriptor(d)
  PROVE  Keeps'
<1> USE Apart DEF Keeps, TreeOK, EnvKeeps, ConnKeeps, StmtKeeps, Freed, Childless
<1>1. CASE \E e \in Envs : SQLFreeEnv(e)
  BY <1>1 DEF SQLFreeEnv
<1>2. CASE \E c \in Conns : SQLFreeConnect(c)
  BY <1>2 DEF SQLFreeConnect
<1>3. CASE \E s \in Stmts : SQLFreeStmtDrop(s)
  BY <1>3 DEF SQLFreeStmtDrop
<1>4. CASE \E d \in Descs : SQLFreeDescriptor(d)
  BY <1>4 DEF SQLFreeDescriptor
<1>5. QED  BY <1>1, <1>2, <1>3, <1>4

LEMMA KeepsSetEnv ==
  ASSUME Keeps, NEW e \in Envs, NEW a, NEW v, SQLSetEnvAttr(e, a, v)
  PROVE  Keeps'
<1> USE Apart DEF Keeps, TreeOK, EnvKeeps, ConnKeeps, StmtKeeps
<1>0. UNCHANGED <<live, parent, connAttr, stmtAttr, taken>> /\ e \in live
  BY DEF SQLSetEnvAttr
<1>1. CASE UNCHANGED <<version, accepted>>
  BY <1>0, <1>1
<1>2. CASE /\ version' = [version EXCEPT ![e] = v]
           /\ accepted' = [accepted EXCEPT ![e]["ODBC_VERSION"] = v]
  <2> DEFINE set == [accepted[e] EXCEPT !["ODBC_VERSION"] = v]
  <2>1. DOMAIN set = {"ODBC_VERSION"} /\ set.ODBC_VERSION = v
    BY <1>0
  <2>2. accepted' = [accepted EXCEPT ![e] = set]
    BY <1>2
  <2> HIDE DEF set
  <2>3. QED  BY <1>0, <1>2, <2>1, <2>2
<1>3. QED  BY <1>1, <1>2 DEF SQLSetEnvAttr

(* The members of a connection after an attribute or an option is set.        *)
LEMMA ConnStoredFacts ==
  ASSUME NEW ca, NEW a, NEW v, ConnMembers(ca)
  PROVE  /\ ConnMembers(ConnStored(ca, a, v))
         /\ ConnStored(ca, a, v).autoCommit = (IF a = "AUTOCOMMIT" THEN v ELSE ca.autoCommit)
         /\ ConnStored(ca, a, v).metadataID = (IF a = "METADATA_ID" THEN v ELSE ca.metadataID)
<1> USE DEF ConnMembers
<1>0. "AUTOCOMMIT" # "METADATA_ID" /\ "autoCommit" # "metadataID"
      /\ "autoCommit" # "stmtAttr" /\ "metadataID" # "stmtAttr"
      /\ "AUTOCOMMIT" \notin DOMAIN OptionMember /\ "METADATA_ID" \notin DOMAIN OptionMember
  BY DEF OptionMember
<1>1. CASE a = "AUTOCOMMIT"
  <2>1. ConnStored(ca, a, v) = [ca EXCEPT !.autoCommit = v]
    BY <1>0, <1>1, Zenon DEF ConnStored
  <2>2. QED  BY <1>0, <1>1, <2>1, Zenon
<1>2. CASE a = "METADATA_ID"
  <2>1. ConnStored(ca, a, v) = [ca EXCEPT !.metadataID = v]
    BY <1>0, <1>2, Zenon DEF ConnStored
  <2>2. QED  BY <1>0, <1>2, <2>1, Zenon
<1>3. CASE a \in DOMAIN OptionMember /\ a # "AUTOCOMMIT" /\ a # "METADATA_ID"
  <2> DEFINE sa == [ca.stmtAttr EXCEPT ![OptionMember[a]] = v]
  <2>1. ConnStored(ca, a, v) = [ca EXCEPT !.stmtAttr = sa]
    BY <1>3, Zenon DEF ConnStored
  <2>2. DOMAIN sa = StmtMembers
    BY Zenon
  <2> HIDE DEF sa
  <2>3. QED  BY <1>3, <2>1, <2>2, Zenon
<1>4. CASE a \notin DOMAIN OptionMember /\ a # "AUTOCOMMIT" /\ a # "METADATA_ID"
  BY <1>4 DEF ConnStored
<1>5. QED  BY <1>1, <1>2, <1>3, <1>4

LEMMA KeepsSetConn ==
  ASSUME Keeps, NEW c \in Conns, NEW a, NEW v, NEW o, SetOnConnection(c, a, v, o)
  PROVE  Keeps'
<1> USE Apart DEF Keeps, TreeOK, EnvKeeps, ConnKeeps, StmtKeeps
<1>0. UNCHANGED <<live, parent, version, stmtAttr, taken>> /\ c \in live
  BY DEF SetOnConnection
<1>1. CASE o # Done
  BY <1>0, <1>1 DEF SetOnConnection
<1>2. CASE o = Done
  <2> DEFINE new == ConnStored(connAttr[c], a, v)
             set == IF a \in DOMAIN accepted[c] THEN [accepted[c] EXCEPT ![a] = v]
                                                ELSE accepted[c]
  <2>1. connAttr' = [connAttr EXCEPT ![c] = new]
    BY <1>2 DEF SetOnConnection
  <2>2. /\ DOMAIN accepted' = Handles /\ accepted'[c] = set
        /\ \A h \in Handles \ {c} : accepted'[h] = accepted[h]
    BY <1>0, <1>2 DEF SetOnConnection
  <2>3. /\ ConnMembers(new)
        /\ new.autoCommit = IF a = "AUTOCOMMIT" THEN v ELSE connAttr[c].autoCommit
        /\ new.metadataID = IF a = "METADATA_ID" THEN v ELSE connAttr[c].metadataID
    BY <1>0, ConnStoredFacts
  <2>4. /\ DOMAIN set = ConnAttrs
        /\ set.AUTOCOMMIT = IF a = "AUTOCOMMIT" THEN v ELSE accepted[c].AUTOCOMMIT
        /\ set.METADATA_ID = IF a = "METADATA_ID" THEN v ELSE accepted[c].METADATA_ID
    <3>0. /\ DOMAIN accepted[c] = ConnAttrs
          /\ "AUTOCOMMIT" \in ConnAttrs /\ "METADATA_ID" \in ConnAttrs
          /\ "AUTOCOMMIT" # "METADATA_ID"
      BY <1>0 DEF ConnAttrs
    <3>1. CASE a \in ConnAttrs
      <4>1. set = [accepted[c] EXCEPT ![a] = v]
        BY <3>0, <3>1
      <4>2. QED  BY <3>0, <4>1, Zenon
    <3>2. CASE a \notin ConnAttrs
      BY <3>0, <3>2
    <3>3. QED  BY <3>1, <3>2
  <2> HIDE DEF new, set
  <2>5. QED  BY <1>0, <2>1, <2>2, <2>3, <2>4
<1>3. QED  BY <1>1, <1>2

LEMMA KeepsSetStmt ==
  ASSUME Keeps, NEW s \in Stmts, NEW a, NEW v, SQLSetStmtAttr(s, a, v)
  PROVE  Keeps'
<1> USE Apart DEF Keeps, TreeOK, EnvKeeps, ConnKeeps, StmtKeeps
<1> DEFINE c == parent[s]
           o == StmtSetOutcome(a, v)
<1>0. UNCHANGED <<live, parent, version>> /\ s \in live
  BY DEF SQLSetStmtAttr
<1>1. c \in Conns /\ c \in live /\ c # s
  BY <1>0
<1>2. DOMAIN stmtAttr[s] = DOMAIN accepted[s] /\ "METADATA_ID" \notin DOMAIN accepted[s]
  <2>1. /\ DOMAIN accepted[s] = DOMAIN NewStmtAttr
        /\ DOMAIN stmtAttr[s] = DOMAIN NewStmtAttr
    BY <1>0
  <2>2. "METADATA_ID" \notin DOMAIN NewStmtAttr
    BY NewStmtDomain
  <2>3. QED  BY <2>1, <2>2, Zenon
<1>3. CASE a = "METADATA_ID" /\ o = Done
  <2> DEFINE ca == [connAttr[c] EXCEPT !.metadataID = v]
             set == [accepted[c] EXCEPT !.METADATA_ID = v]
  <2>1. /\ stmtAttr' = [stmtAttr EXCEPT ![s] = stmtAttr[s]]
        /\ connAttr' = [connAttr EXCEPT ![c] = ca] /\ taken' = taken
    <3>1. stmtAttr' = [stmtAttr EXCEPT ![s] = stmtAttr[s]]
      BY <1>0, <1>1, <1>2, <1>3 DEF SQLSetStmtAttr, StmtStored
    <3>2. connAttr' = [connAttr EXCEPT ![c] = ca]
      BY <1>3 DEF SQLSetStmtAttr
    <3>3. taken' = taken
      BY <1>3 DEF SQLSetStmtAttr
    <3>4. QED  BY <3>1, <3>2, <3>3
  <2>2. accepted' = [accepted EXCEPT ![c] = set]
    BY <1>0, <1>1, <1>2, <1>3 DEF SQLSetStmtAttr
  <2>3. /\ ConnMembers(ca)
        /\ ca.autoCommit = connAttr[c].autoCommit /\ ca.metadataID = v
    <3>1. ConnMembers(connAttr[c])
      BY <1>1
    <3>2. ca = ConnStored(connAttr[c], "METADATA_ID", v)
      BY DEF ConnStored, OptionMember
    <3>3. QED  BY <3>1, <3>2, ConnStoredFacts
  <2>4. /\ DOMAIN set = ConnAttrs
        /\ set.AUTOCOMMIT = accepted[c].AUTOCOMMIT /\ set.METADATA_ID = v
    BY <1>1 DEF ConnAttrs
  <2> HIDE DEF ca, set
  <2>5. QED  BY <1>0, <1>1, <2>1, <2>2, <2>3, <2>4
<1>4. CASE ~ (a = "METADATA_ID" /\ o = Done)
  <2> DEFINE new == StmtStored(stmtAttr[s], a, v)
             set == StmtStored(accepted[s], a, v)
  <2>1. connAttr' = connAttr
    BY <1>4 DEF SQLSetStmtAttr
  <2>2. stmtAttr' = [stmtAttr EXCEPT ![s] = new]
    BY DEF SQLSetStmtAttr
  <2>3. accepted' = [accepted EXCEPT ![s] = set]
    BY <1>0, <1>1, <1>4 DEF SQLSetStmtAttr, StmtStored
  <2>4. DOMAIN set = DOMAIN NewStmtAttr /\ DOMAIN new = DOMAIN NewStmtAttr
    BY <1>0 DEF StmtStored
  <2>5. /\ \A k \in Stmts \ {s} : k \in taken' <=> k \in taken
        /\ s \in taken' <=> s \in taken /\ ~ (o = Done /\ a = "ROW_ARRAY_SIZE")
    BY DEF SQLSetStmtAttr
  <2>6. ASSUME NEW b \in DOMAIN NewStmtAttr
        PROVE  (s \in taken' /\ b = "ROW_ARRAY_SIZE") \/ new[b] = set[b]
    <3>0. /\ DOMAIN stmtAttr[s] = DOMAIN NewStmtAttr /\ DOMAIN accepted[s] = DOMAIN NewStmtAttr
          /\ (s \in taken /\ b = "ROW_ARRAY_SIZE") \/ stmtAttr[s][b] = accepted[s][b]
      BY <1>0, <2>6
    <3>1. CASE o = Done /\ a = b
      BY <2>6, <3>0, <3>1 DEF StmtStored
    <3>2. CASE ~ (o = Done /\ a = b)
      <4>1. new[b] = stmtAttr[s][b] /\ set[b] = accepted[s][b]
        BY <2>6, <3>0, <3>2 DEF StmtStored
      <4>2. QED  BY <2>5, <3>0, <3>2, <4>1
    <3>3. QED  BY <3>1, <3>2
  <2> HIDE DEF new, set
  <2>7. StmtKeeps'
    BY <1>0, <2>2, <2>3, <2>4, <2>5, <2>6
  <2>8. TreeOK' /\ EnvKeeps' /\ ConnKeeps'
    BY <1>0, <2>1, <2>3
  <2>9. QED  BY <2>7, <2>8
<1>5. QED  BY <1>3, <1>4

LEMMA KeepsStep == Keeps /\ [Next]_vars => Keeps'
<1> SUFFICES ASSUME Keeps, [Next]_vars PROVE Keeps'
  OBVIOUS
<1>1. CASE UNCHANGED <<live, parent, version, connAttr, stmtAttr, accepted, taken>>
  BY <1>1, KeepsFrame
<1>2. CASE ACall
  <2>1. CASE \E e \in Envs :
               \/ SQLAllocEnv(e) \/ SQLFreeEnv(e)
               \/ \E v \in {"ODBC2", "ODBC3", "ODBC4"} : SQLSetEnvAttr(e, "ODBC_VERSION", v)
               \/ \E v \in {"TRUE", "FALSE"} : SQLSetEnvAttr(e, "OUTPUT_NTS", v)
               \/ \E a \in {"ODBC_VERSION", "CONNECTION_POOLING"} : SQLGetEnvAttr(e, a)
               \/ \E c \in Conns : SQLAllocConnect(e, c)
    BY <1>1, <2>1, KeepsAlloc, KeepsFree, KeepsSetEnv DEF SQLGetEnvAttr, members
  <2>2. CASE \E c \in Conns :
               \/ SQLFreeConnect(c)
               \/ \E s \in Stmts : SQLAllocStmt(c, s)
               \/ \E d \in Descs : SQLAllocDesc(c, d)
    BY <2>2, KeepsAlloc, KeepsFree
  <2>3. CASE \E c \in Conns, a \in ConnSets :
               \E v : SQLSetConnectAttr(c, a, v) \/ SQLSetConnectOption(c, a, v)
    BY <2>3, KeepsSetConn DEF SQLSetConnectAttr, SQLSetConnectOption
  <2>4. CASE \E c \in Conns :
               \/ SQLDriverConnect(c) \/ SQLConnect(c) \/ SQLDisconnect(c)
               \/ SQLGetInfo(c) \/ SQLNativeSql(c)
               \/ \E f : SQLGetFunctions(c, f)
               \/ \E a, buf : SQLGetConnectAttr(c, a, buf) \/ SQLGetConnectOption(c, a)
    BY <1>1, <2>4
       DEF SQLDriverConnect, SQLConnect, SQLDisconnect, SQLGetInfo, SQLNativeSql,
           SQLGetFunctions, SQLGetConnectAttr, SQLGetConnectOption, CallOnConnection, members
  <2>5. CASE \E s \in Stmts :
               \/ SQLFreeStmtDrop(s)
               \/ \E a \in StmtSets : \E v \in StmtValues(a) : SQLSetStmtAttr(s, a, v)
    BY <2>5, KeepsFree, KeepsSetStmt
  <2>6. CASE \E s \in Stmts :
               \/ SQLDescribeCol(s) \/ SQLColumnsUnnamed(s)
               \/ \E a : SQLGetStmtAttr(s, a)
               \/ SQLGetStmtOption(s, "ROWSET_SIZE")
               \/ \E f, outcomes : CallOnStatement(s, f, outcomes)
    BY <1>1, <2>6
       DEF SQLDescribeCol, SQLColumnsUnnamed, SQLGetStmtAttr, SQLGetStmtOption,
           CallOnStatement, AddedWithoutReset, members
  <2>7. CASE \E d \in Descs : SQLFreeDescriptor(d)
    BY <2>7, KeepsFree
  <2>8. CASE \E h \in Handles :
               \/ UnsupportedCall(h) \/ SQLError(h)
               \/ \E n, room, msgLen : SQLGetDiagRec(h, n, room, msgLen)
               \/ \E n, f : SQLGetDiagField(h, n, f)
    BY <1>1, <2>8
       DEF UnsupportedCall, SQLError, SQLGetDiagRec, SQLGetDiagField, AddedWithoutReset,
           members
  <2>9. QED
    BY <1>2, <2>1, <2>2, <2>3, <2>4, <2>5, <2>6, <2>7, <2>8, Zenon DEF ACall
<1>3. QED  BY <1>1, <1>2 DEF Next, vars
-----------------------------------------------------------------------------
(* The diagnostics *)

(* The step that OthersDiagnosticsKept allows.                                *)
OnlyAncestors ==
  \A h \in live \cap live' :
    diag'[h].records # diag[h].records /\ answer'.on # NoHandle
      => \/ h = answer'.on \/ h = parent[answer'.on]
         \/ answer'.on \in Stmts \cup Descs /\ h = EnvOf(answer'.on)

(* What every step does to the diagnostics.                                   *)
DiagGoal == DiagOK' /\ ErrorIsExplained' /\ OnlyAncestors

LEMMA DiagTyped ==
  ASSUME DiagOK, NEW h \in Handles, NEW d \in Storage, diag' = [diag EXCEPT ![h] = d]
  PROVE  DiagOK' /\ diag'[h] = d /\ \A k \in Handles \ {h} : diag'[k] = diag[k]
BY DEF DiagOK

LEMMA DiagTyped2 ==
  ASSUME DiagOK, NEW h \in Handles, NEW k \in Handles, NEW d \in Storage, NEW e \in Storage,
         h # k, diag' = [diag EXCEPT ![h] = d, ![k] = e]
  PROVE  /\ DiagOK' /\ diag'[h] = d /\ diag'[k] = e
         /\ \A j \in Handles \ {h, k} : diag'[j] = diag[j]
BY DEF DiagOK

(* A call that reports through the storage of h.                              *)
LEMMA CallDiag ==
  ASSUME DiagOK, TreeOK, NEW h \in live, NEW o, Explained(o), Call(h, o), live' = live
  PROVE  DiagGoal
<1>0. h \in Handles /\ live \subseteq Handles /\ diag[h] \in Storage
  BY DEF TreeOK, DiagOK
<1>1. /\ ApiCall(diag[h], o) \in Storage
      /\ GetReturnCode(ApiCall(diag[h], o)) = "SQL_ERROR" => Unread(ApiCall(diag[h], o))
  BY <1>0, ApiCallFacts DEF Explained
<1>2. /\ diag' = [diag EXCEPT ![h] = ApiCall(diag[h], o)]
      /\ answer' = [on |-> h, code |-> GetReturnCode(ApiCall(diag[h], o)), value |-> << >>,
                    meta |-> FALSE]
  BY DEF Call, Answers, AnswersWith
<1>3. /\ DiagOK' /\ diag'[h] = ApiCall(diag[h], o)
      /\ \A k \in Handles \ {h} : diag'[k] = diag[k]
  BY <1>0, <1>1, <1>2, DiagTyped
<1>4. answer'.on = h /\ answer'.code = GetReturnCode(ApiCall(diag[h], o))
  BY <1>2
<1>5. ErrorIsExplained'
  BY <1>1, <1>3, <1>4 DEF ErrorIsExplained, Unread
<1>6. OnlyAncestors
  BY <1>0, <1>3, <1>4 DEF OnlyAncestors
<1>7. QED  BY <1>3, <1>5, <1>6 DEF DiagGoal

(* A call that does not report through a storage: it changes one at most.     *)
LEMMA QuietDiag ==
  ASSUME DiagOK, TreeOK', NEW code, NEW value, AnswersWith(NoHandle, code, value),
         \/ diag' = diag
         \/ \E h \in Handles, d \in Storage : diag' = [diag EXCEPT ![h] = d]
  PROVE  DiagGoal
<1>1. DiagOK'
  BY DEF DiagOK
<1>2. answer'.on = NoHandle
  BY DEF AnswersWith
<1>3. ErrorIsExplained'
  BY <1>2, Apart DEF ErrorIsExplained, TreeOK
<1>4. OnlyAncestors
  BY <1>2 DEF OnlyAncestors
<1>5. QED  BY <1>1, <1>3, <1>4 DEF DiagGoal

(* An object is made on h: the new storage is that of a handle not live yet.  *)
LEMMA AllocDiag ==
  ASSUME DiagOK, TreeOK, NEW h \in live, NEW k \in Handles \ live, NEW d \in Storage,
         diag' = [diag EXCEPT ![h] = ApiCall(@, Done), ![k] = d],
         \/ Answers(h, ApiCall(diag[h], Done))
         \/ AnswersWith(h, "SQL_SUCCESS", << >>)
  PROVE  DiagGoal
<1>0. h \in Handles /\ live \subseteq Handles /\ diag[h] \in Storage /\ h # k
  BY DEF TreeOK, DiagOK
<1>1. /\ ApiCall(diag[h], Done) \in Storage
      /\ GetReturnCode(ApiCall(diag[h], Done)) = "SQL_ERROR"
           => Unread(ApiCall(diag[h], Done))
  BY <1>0, ApiCallFacts, Outcomes DEF Explained
<1>2. /\ DiagOK' /\ diag'[h] = ApiCall(diag[h], Done)
      /\ \A j \in Handles \ {h, k} : diag'[j] = diag[j]
  BY <1>0, <1>1, DiagTyped2
<1>3. /\ answer'.on = h
      /\ answer'.code \in {GetReturnCode(ApiCall(diag[h], Done)), "SQL_SUCCESS"}
  BY DEF Answers, AnswersWith
<1>4. ErrorIsExplained'
  BY <1>1, <1>2, <1>3 DEF ErrorIsExplained, Unread
<1>5. OnlyAncestors
  BY <1>0, <1>2, <1>3 DEF OnlyAncestors
<1>6. QED  BY <1>2, <1>4, <1>5 DEF DiagGoal

(* A record added without a reset.                                            *)
LEMMA AddedDiag ==
  ASSUME DiagOK, TreeOK, NEW h \in live, NEW s \in SqlStates, NEW code,
         AddedWithoutReset(h, s, code)
  PROVE  DiagGoal
<1>0. h \in Handles /\ live \subseteq Handles /\ diag[h] \in Storage /\ live' = live
  BY DEF TreeOK, DiagOK, AddedWithoutReset, members
<1>1. AddStatusRecord(diag[h], s) \in Storage /\ Unread(AddStatusRecord(diag[h], s))
  BY <1>0, AddStatusFacts
<1>2. /\ diag' = [diag EXCEPT ![h] = AddStatusRecord(diag[h], s)]
      /\ answer'.on = h
  BY DEF AddedWithoutReset, AnswersWith
<1>3. /\ DiagOK' /\ diag'[h] = AddStatusRecord(diag[h], s)
      /\ \A k \in Handles \ {h} : diag'[k] = diag[k]
  BY <1>0, <1>1, <1>2, DiagTyped
<1>4. ErrorIsExplained'
  BY <1>1, <1>2, <1>3 DEF ErrorIsExplained, Unread
<1>5. OnlyAncestors
  BY <1>0, <1>2, <1>3 DEF OnlyAncestors
<1>6. QED  BY <1>3, <1>4, <1>5 DEF DiagGoal

(* A call on a statement that goes through an ancestor of it: the connection  *)
(* for SQL_ATTR_METADATA_ID, the environment for its version.                 *)
LEMMA ThroughDiag ==
  ASSUME DiagOK, TreeOK, NEW s \in live, NEW k \in {parent[s], EnvOf(s)}, s \in Stmts,
         k \in Handles \ {s}, NEW o, Typed(o), NEW through \in BOOLEAN, live' = live,
         diag' = [diag EXCEPT ![s] = ApiCall(@, o),
                              ![k] = IF through THEN ApiCall(@, Done) ELSE @],
         \/ Explained(o) /\ Answers(s, ApiCall(diag[s], o))
         \/ AnswersMeta(s, GetReturnCode(ApiCall(diag[s], o)))
  PROVE  DiagGoal
<1>0. /\ s \in Handles /\ live \subseteq Handles /\ diag[s] \in Storage
      /\ diag[k] \in Storage
  BY DEF TreeOK, DiagOK
<1>1. /\ ApiCall(diag[s], o) \in Storage /\ ApiCall(diag[k], Done) \in Storage
      /\ Explained(o) /\ GetReturnCode(ApiCall(diag[s], o)) = "SQL_ERROR"
           => Unread(ApiCall(diag[s], o))
  BY <1>0, ApiCallFacts, Outcomes DEF Explained
<1>2. PICK d \in Storage : diag' = [diag EXCEPT ![s] = ApiCall(diag[s], o), ![k] = d]
  <2>1. CASE through
    BY <1>1, <2>1
  <2>2. CASE ~ through
    BY <1>0, <2>2
  <2>3. QED  BY <2>1, <2>2
<1>3. /\ DiagOK' /\ diag'[s] = ApiCall(diag[s], o)
      /\ \A j \in Handles \ {s, k} : diag'[j] = diag[j]
  <2> DEFINE own == ApiCall(diag[s], o)
  <2>1. /\ own \in Storage /\ s # k /\ s \in Handles /\ k \in Handles
        /\ diag' = [diag EXCEPT ![s] = own, ![k] = d]
    BY <1>0, <1>1, <1>2
  <2> HIDE DEF own
  <2>2. diag' \in [Handles -> Storage]
    BY <2>1 DEF DiagOK
  <2>3. diag'[s] = own /\ \A j \in Handles \ {s, k} : diag'[j] = diag[j]
    BY <2>1 DEF DiagOK
  <2>4. QED  BY <2>2, <2>3 DEF DiagOK, own
<1>4. /\ answer'.on = s /\ answer'.code = GetReturnCode(ApiCall(diag[s], o))
      /\ Explained(o) \/ answer'.meta
  BY DEF Answers, AnswersWith, AnswersMeta
<1>5. ErrorIsExplained'
  BY <1>1, <1>3, <1>4 DEF ErrorIsExplained, Unread
<1>6. OnlyAncestors
  BY <1>0, <1>3, <1>4 DEF OnlyAncestors
<1>7. QED  BY <1>3, <1>5, <1>6 DEF DiagGoal

OutcomesOK(f, outcomes) ==
  \A o \in outcomes : Typed(o) /\ (f \notin MetaCalls => Explained(o))

LEMMA StatementDiag ==
  ASSUME DiagOK, TreeOK, NEW s \in Stmts,
         \/ \E a, v : SQLSetStmtAttr(s, a, v)
         \/ \E f, outcomes : OutcomesOK(f, outcomes) /\ CallOnStatement(s, f, outcomes)
         \/ SQLDescribeCol(s)
  PROVE  DiagGoal
<1>0. s \in live /\ live' = live
  BY DEF SQLSetStmtAttr, CallOnStatement, SQLDescribeCol, members
<1>1. parent[s] \in Conns /\ parent[s] \in live /\ parent[parent[s]] \in Envs
  BY <1>0, Apart DEF TreeOK
<1>2. EnvOf(s) \in Envs
  BY <1>1, Apart DEF EnvOf
<1>3. CASE \E a, v : SQLSetStmtAttr(s, a, v)
  <2>1. PICK a, v : SQLSetStmtAttr(s, a, v)
    BY <1>3
  <2> DEFINE o == StmtSetOutcome(a, v)
             through == a = "METADATA_ID" /\ o = Done
  <2>2. /\ diag' = [diag EXCEPT ![s] = ApiCall(@, o),
                               ![parent[s]] = IF through THEN ApiCall(@, Done) ELSE @]
        /\ Answers(s, ApiCall(diag[s], o))
    BY <2>1 DEF SQLSetStmtAttr
  <2>3. Typed(o) /\ Explained(o) /\ through \in BOOLEAN
    BY AttributeOutcomes DEF Explained
  <2> HIDE DEF o, through
  <2>4. QED  BY <1>0, <1>1, <2>2, <2>3, Apart, ThroughDiag
<1>4. CASE \E f, outcomes : OutcomesOK(f, outcomes) /\ CallOnStatement(s, f, outcomes)
  <2>1. PICK f, outcomes : OutcomesOK(f, outcomes) /\ CallOnStatement(s, f, outcomes)
    BY <1>4
  <2>2. PICK o \in outcomes, asks \in BOOLEAN :
          /\ diag' = [diag EXCEPT ![s] = ApiCall(@, o),
                                  ![EnvOf(s)] = IF asks THEN GetEnvODBCVer(@) ELSE @]
          /\ IF f \in MetaCalls THEN AnswersMeta(s, GetReturnCode(ApiCall(diag[s], o)))
                               ELSE Answers(s, ApiCall(diag[s], o))
    BY <2>1 DEF CallOnStatement
  <2>3. diag' = [diag EXCEPT ![s] = ApiCall(@, o),
                             ![EnvOf(s)] = IF asks THEN ApiCall(@, Done) ELSE @]
    BY <2>2 DEF GetEnvODBCVer
  <2>4. Typed(o) /\ (f \notin MetaCalls => Explained(o))
    BY <2>1 DEF OutcomesOK
  <2>5. QED  BY <1>0, <1>2, <2>2, <2>3, <2>4, Apart, ThroughDiag
<1>5. CASE SQLDescribeCol(s)
  <2>1. PICK a \in DescribeAnswers(hasQuery[s]) :
          diag' = [diag EXCEPT ![s] = ApiCall(@, a.last)] /\ AnswersMeta(s, a.code)
    BY <1>5 DEF SQLDescribeCol
  <2>2. s \in Handles /\ live \subseteq Handles /\ diag[s] \in Storage
    BY <1>0 DEF TreeOK, DiagOK
  <2>3. ApiCall(diag[s], a.last) \in Storage
    BY <2>2, ApiCallFacts, DescribeTyped
  <2>4. DiagOK' /\ \A k \in Handles \ {s} : diag'[k] = diag[k]
    BY <2>1, <2>2, <2>3, DiagTyped
  <2>5. answer'.on = s /\ answer'.meta
    BY <2>1 DEF AnswersMeta
  <2>6. ErrorIsExplained' /\ OnlyAncestors
    BY <2>2, <2>4, <2>5 DEF ErrorIsExplained, OnlyAncestors
  <2>7. QED  BY <2>4, <2>6 DEF DiagGoal
<1>6. QED  BY <1>3, <1>4, <1>5

(* Every call leaves the diagnostics in order.                                *)
LEMMA DiagStep ==
  ASSUME Keeps, Keeps', DiagOK, ACall PROVE DiagGoal
<1>0. TreeOK /\ TreeOK'
  BY DEF Keeps
<1> USE <1>0
<1>1. CASE \E e \in Envs : SQLAllocEnv(e)
  BY <1>1, Apart, NewStorageFacts, QuietDiag DEF SQLAllocEnv
<1>2. CASE \E e \in Envs, c \in Conns : SQLAllocConnect(e, c)
  BY <1>2, Apart, NewStorageFacts, AllocDiag DEF SQLAllocConnect
<1>3. CASE \E c \in Conns, s \in Stmts : SQLAllocStmt(c, s)
  <2>1. PICK c \in Conns, s \in Stmts : SQLAllocStmt(c, s)
    BY <1>3
  <2>2. c \in live /\ s \notin live /\ DOMAIN connAttr[c].stmtAttr = StmtMembers
    BY <2>1 DEF SQLAllocStmt, Keeps, ConnKeeps, ConnMembers
  <2>3. SetAttributes(connAttr[c].stmtAttr).diag \in Storage
    BY <2>2, NewStatement
  <2>4. /\ diag' = [diag EXCEPT ![c] = ApiCall(@, Done),
                               ![s] = SetAttributes(connAttr[c].stmtAttr).diag]
        /\ Answers(c, ApiCall(diag[c], Done))
    BY <2>1 DEF SQLAllocStmt
  <2>5. QED  BY <2>2, <2>3, <2>4, Apart, AllocDiag
<1>4. CASE \E c \in Conns, d \in Descs : SQLAllocDesc(c, d)
  BY <1>4, Apart, NewStorageFacts, AllocDiag DEF SQLAllocDesc
<1>5. CASE \E h \in Handles : Freed(h)
  BY <1>5, NewStorageFacts, QuietDiag DEF Freed
<1>6. CASE \E e \in Envs : (\E a, v : SQLSetEnvAttr(e, a, v)) \/ \E a : SQLGetEnvAttr(e, a)
  BY <1>6, CallDiag, AttributeOutcomes, Outcomes, States
     DEF SQLSetEnvAttr, SQLGetEnvAttr, members
<1>7. CASE \E c, outcomes : /\ \A o \in outcomes : Explained(o)
                            /\ CallOnConnection(c, outcomes)
  BY <1>7, CallDiag DEF CallOnConnection, members
<1>8. CASE \E c, a, v, o : Explained(o) /\ SetOnConnection(c, a, v, o)
  BY <1>8, CallDiag DEF SetOnConnection
<1>9. CASE \E s, a : SQLGetStmtAttr(s, a)
  BY <1>9, CallDiag, AttributeOutcomes DEF SQLGetStmtAttr, members
<1>10. CASE \E h, state, code : state \in SqlStates /\ AddedWithoutReset(h, state, code)
  <2>1. PICK h, state, code : state \in SqlStates /\ AddedWithoutReset(h, state, code)
    BY <1>10
  <2>2. QED  BY <2>1, AddedDiag DEF AddedWithoutReset
<1>11. CASE \E c, f : SQLGetFunctions(c, f)
  <2>1. PICK c, f : SQLGetFunctions(c, f)
    BY <1>11
  <2>2. /\ c \in live /\ live' = live /\ answer'.on = c /\ answer'.code = "SQL_SUCCESS"
        /\ diag' = [diag EXCEPT ![c] = ApiCall(diag[c], Done)]
    BY <2>1 DEF SQLGetFunctions, AnswersWith, members
  <2>3. c \in Handles /\ live \subseteq Handles /\ ApiCall(diag[c], Done) \in Storage
    BY <2>2, ApiCallFacts, Outcomes DEF TreeOK, DiagOK, Explained
  <2>4. DiagOK' /\ \A k \in Handles \ {c} : diag'[k] = diag[k]
    BY <2>2, <2>3, DiagTyped
  <2>5. ErrorIsExplained' /\ OnlyAncestors
    BY <2>2, <2>3, <2>4 DEF ErrorIsExplained, OnlyAncestors
  <2>6. QED  BY <2>4, <2>5 DEF DiagGoal
<1>12. CASE \E h \in Handles : SQLError(h)
  BY <1>12, MarkFacts, QuietDiag DEF SQLError, DiagOK
<1>13. CASE \E h : \/ \E n, room, msgLen : SQLGetDiagRec(h, n, room, msgLen)
                  \/ \E n, f : SQLGetDiagField(h, n, f)
  BY <1>13, QuietDiag DEF SQLGetDiagRec, SQLGetDiagField
<1>14. CASE \E s \in Stmts :
              \/ \E a, v : SQLSetStmtAttr(s, a, v)
              \/ \E f, outcomes : OutcomesOK(f, outcomes) /\ CallOnStatement(s, f, outcomes)
              \/ SQLDescribeCol(s)
  BY <1>14, StatementDiag
<1>15. CASE \E e \in Envs :
              \/ SQLAllocEnv(e) \/ SQLFreeEnv(e)
              \/ \E v \in {"ODBC2", "ODBC3", "ODBC4"} : SQLSetEnvAttr(e, "ODBC_VERSION", v)
              \/ \E v \in {"TRUE", "FALSE"} : SQLSetEnvAttr(e, "OUTPUT_NTS", v)
              \/ \E a \in {"ODBC_VERSION", "CONNECTION_POOLING"} : SQLGetEnvAttr(e, a)
              \/ \E c \in Conns : SQLAllocConnect(e, c)
  BY <1>1, <1>2, <1>5, <1>6, <1>15, Apart DEF SQLFreeEnv
<1>16. CASE \E c \in Conns :
              \/ SQLFreeConnect(c)
              \/ \E s \in Stmts : SQLAllocStmt(c, s)
              \/ \E d \in Descs : SQLAllocDesc(c, d)
  BY <1>3, <1>4, <1>5, <1>16, Apart DEF SQLFreeConnect
<1>17. CASE \E c \in Conns, a \in ConnSets :
              \E v : SQLSetConnectAttr(c, a, v) \/ SQLSetConnectOption(c, a, v)
  <2>1. PICK c \in Conns, a \in ConnSets :
               \E v : SQLSetConnectAttr(c, a, v) \/ SQLSetConnectOption(c, a, v)
    BY <1>17
  <2>2. PICK v : SQLSetConnectAttr(c, a, v) \/ SQLSetConnectOption(c, a, v)
    BY <2>1
  <2> DEFINE option == CASE a \in StmtOptions    -> StmtOptionOutcome(a, v)
                         [] a \in IgnoredOptions -> Warned("01000")
                         [] OTHER                -> ConnSetOutcome(a, v)
  <2>3. Explained(option) /\ Explained(ConnSetOutcome(a, v))
    BY AttributeOutcomes, Outcomes, States
  <2>4. SetOnConnection(c, a, v, option) \/ SetOnConnection(c, a, v, ConnSetOutcome(a, v))
    BY <2>2 DEF SQLSetConnectAttr, SQLSetConnectOption
  <2> HIDE DEF option
  <2>5. QED  BY <1>8, <2>3, <2>4
<1>18. CASE \E c \in Conns :
              \/ SQLDriverConnect(c) \/ SQLConnect(c) \/ SQLDisconnect(c)
              \/ SQLGetInfo(c) \/ SQLNativeSql(c)
              \/ \E f : SQLGetFunctions(c, f)
              \/ \E a, buf : SQLGetConnectAttr(c, a, buf) \/ SQLGetConnectOption(c, a)
  <2>1. PICK c \in Conns :
              \/ SQLDriverConnect(c) \/ SQLConnect(c) \/ SQLDisconnect(c)
              \/ SQLGetInfo(c) \/ SQLNativeSql(c)
              \/ \E f : SQLGetFunctions(c, f)
              \/ \E a, buf : SQLGetConnectAttr(c, a, buf) \/ SQLGetConnectOption(c, a)
    BY <1>18
  <2>2. CASE SQLDriverConnect(c)
    BY <1>7, <2>2, EstablishExplained DEF SQLDriverConnect
  <2>3. CASE SQLConnect(c) \/ SQLDisconnect(c) \/ SQLGetInfo(c) \/ SQLNativeSql(c)
    <3>1. /\ \A o \in {Done, Failed("01S00")} : Explained(o)
          /\ \A o \in {Warned("08003")} : Explained(o)
          /\ \A o \in {Done, Failed("HYC00")} : Explained(o)
          /\ \A o \in {Done, Failed("HY009"), Failed("HY090"), Warned("01004")} :
               Explained(o)
      BY Outcomes, States
    <3>2. QED
      BY <1>7, <2>3, <3>1, Zenon DEF SQLConnect, SQLDisconnect, SQLGetInfo, SQLNativeSql
  <2>4. CASE \E a, buf : SQLGetConnectAttr(c, a, buf)
    <3>1. PICK a, buf : SQLGetConnectAttr(c, a, buf)
      BY <2>4
    <3>2. Explained(IF buf THEN ConnGetOutcome(a) ELSE Failed("HY009"))
      BY AttributeOutcomes, Outcomes, States
    <3>3. QED  BY <1>7, <3>1, <3>2 DEF SQLGetConnectAttr
  <2>5. CASE \E a : SQLGetConnectOption(c, a)
    <3>1. Explained(Warned("01000"))
      BY Outcomes, States
    <3>2. QED  BY <1>7, <2>4, <2>5, <3>1 DEF SQLGetConnectOption
  <2>6. QED  BY <1>11, <2>1, <2>2, <2>3, <2>4, <2>5
<1>19. CASE \E s \in Stmts :
              \/ SQLFreeStmtDrop(s) \/ SQLColumnsUnnamed(s)
              \/ \E a : SQLGetStmtAttr(s, a)
              \/ SQLGetStmtOption(s, "ROWSET_SIZE")
  BY <1>5, <1>9, <1>10, <1>19, Apart, States
     DEF SQLFreeStmtDrop, SQLColumnsUnnamed, SQLGetStmtOption
<1>20. CASE \E s \in Stmts :
              \/ SQLDescribeCol(s)
              \/ \E a \in StmtSets : \E v \in StmtValues(a) : SQLSetStmtAttr(s, a, v)
  BY <1>14, <1>20
<1>21. CASE \E s \in Stmts : \E table \in StatementCalls(hasQuery[s]) :
              \E f \in DOMAIN table : CallOnStatement(s, f, table[f])
  <2>1. PICK s \in Stmts : \E table \in StatementCalls(hasQuery[s]) :
               \E f \in DOMAIN table : CallOnStatement(s, f, table[f])
    BY <1>21
  <2>2. PICK table \in StatementCalls(hasQuery[s]) :
               \E f \in DOMAIN table : CallOnStatement(s, f, table[f])
    BY <2>1
  <2>3. PICK f \in DOMAIN table : CallOnStatement(s, f, table[f])
    BY <2>2
  <2>4. OutcomesOK(f, table[f])
    BY StatementExplained DEF OutcomesOK
  <2>5. QED  BY <1>14, <2>3, <2>4
<1>22. CASE \E d \in Descs : SQLFreeDescriptor(d)
  BY <1>5, <1>22, Apart DEF SQLFreeDescriptor
<1>23. CASE \E h \in Handles :
              \/ UnsupportedCall(h) \/ SQLError(h)
              \/ \E n, room, msgLen : SQLGetDiagRec(h, n, room, msgLen)
              \/ \E n, f : SQLGetDiagField(h, n, f)
  BY <1>10, <1>12, <1>13, <1>23, States DEF UnsupportedCall
<1>24. QED
  BY <1>15, <1>16, <1>17, <1>18, <1>19, <1>20, <1>21, <1>22, <1>23, Zenon DEF ACall
-----------------------------------------------------------------------------
LEMMA HandlesStep == HandlesInv /\ [Next]_vars => HandlesInv'
<1> SUFFICES ASSUME HandlesInv, [Next]_vars PROVE HandlesInv'
  OBVIOUS
<1>1. Keeps'
  BY KeepsStep DEF HandlesInv
<1>2. CASE UNCHANGED vars
  BY <1>1, <1>2 DEF HandlesInv, DiagOK, vars
<1>3. CASE ACall
  BY <1>1, <1>3, DiagStep DEF HandlesInv, DiagGoal
<1>4. QED  BY <1>2, <1>3 DEF Next

(* The handles stay a forest, the storages well formed, and the members of    *)
(* every object hold what was last accepted.                                  *)
THEOREM HandlesSafe == Spec => []HandlesInv
<1>1. Init => HandlesInv
  BY KeepsInit DEF HandlesInv
<1>2. QED  BY <1>1, HandlesStep, PTL DEF Spec

(* Every error an application is given is explained by a record of the handle *)
(* that SQLError has not handed out, but for the three calls that need the    *)
(* columns of the result.                                                     *)
THEOREM ErrorsExplained == Spec => []ErrorIsExplained
<1>1. Init => ErrorIsExplained
  BY DEF Init, ErrorIsExplained
<1>2. HandlesInv /\ HandlesInv' /\ ErrorIsExplained /\ [Next]_vars => ErrorIsExplained'
  <2> SUFFICES ASSUME HandlesInv, HandlesInv', ErrorIsExplained, [Next]_vars
               PROVE  ErrorIsExplained'
    OBVIOUS
  <2>1. CASE UNCHANGED vars
    BY <2>1 DEF ErrorIsExplained, vars
  <2>2. CASE ACall
    BY <2>2, DiagStep DEF HandlesInv, DiagGoal
  <2>3. QED  BY <2>1, <2>2 DEF Next
<1>3. QED  BY <1>1, <1>2, HandlesSafe, PTL DEF Spec

(* An attribute reads as the value last accepted, through every handle that   *)
(* shares it, for any number of connections and statements, but for a row     *)
(* array size that the connection's option is to give.                        *)
THEOREM AttributesKept == Spec => []AttributesReadBack
<1>1. HandlesInv => AttributesReadBack
  <2> SUFFICES ASSUME HandlesInv, NEW h \in live
               PROVE  /\ h \in Envs  => accepted[h].ODBC_VERSION = version[h]
                      /\ h \in Conns => \A a \in {"AUTOCOMMIT", "METADATA_ID"} :
                                          ConnGet(h, a) = accepted[h][a]
                      /\ h \in Stmts =>
                           /\ \A a \in DOMAIN accepted[h] :
                                \/ h \in taken /\ a = "ROW_ARRAY_SIZE"
                                \/ StmtGet(h, a) = accepted[h][a]
                           /\ StmtGet(h, "METADATA_ID") = accepted[parent[h]].METADATA_ID
    BY DEF AttributesReadBack
  <2> USE DEF HandlesInv, Keeps, TreeOK
  <2>1. h \in Envs => accepted[h].ODBC_VERSION = version[h]
    BY DEF EnvKeeps
  <2>2. ASSUME h \in Conns, NEW a \in {"AUTOCOMMIT", "METADATA_ID"}
        PROVE  ConnGet(h, a) = accepted[h][a]
    BY <2>2 DEF ConnKeeps, ConnGet
  <2>3. ASSUME h \in Stmts, NEW a \in DOMAIN accepted[h]
        PROVE  (h \in taken /\ a = "ROW_ARRAY_SIZE") \/ StmtGet(h, a) = accepted[h][a]
    <3>1. /\ a \in DOMAIN NewStmtAttr /\ a \in DOMAIN stmtAttr[h]
          /\ (h \in taken /\ a = "ROW_ARRAY_SIZE") \/ stmtAttr[h][a] = accepted[h][a]
      BY <2>3 DEF StmtKeeps
    <3>2. a \notin DOMAIN OnlyValue /\ a # "METADATA_ID"
      BY <3>1, NewStmtDomain DEF OnlyValue
    <3>3. QED  BY <2>3, <3>1, <3>2 DEF StmtGet
  <2>4. ASSUME h \in Stmts
        PROVE  StmtGet(h, "METADATA_ID") = accepted[parent[h]].METADATA_ID
    <3>1. parent[h] \in live /\ parent[h] \in Conns
      BY <2>4
    <3>2. DOMAIN stmtAttr[h] = DOMAIN NewStmtAttr
      BY <2>4 DEF StmtKeeps
    <3>3. "METADATA_ID" \notin DOMAIN OnlyValue /\ "METADATA_ID" \notin DOMAIN stmtAttr[h]
      BY <3>2, NewStmtDomain DEF OnlyValue
    <3>4. StmtGet(h, "METADATA_ID") = connAttr[parent[h]].metadataID
      BY <3>3 DEF StmtGet
    <3>5. QED  BY <3>1, <3>4 DEF ConnKeeps
  <2>5. QED  BY <2>1, <2>2, <2>3, <2>4
<1>2. QED  BY <1>1, HandlesSafe, PTL

(* A call touches the diagnostics of its handle and of the handles that one   *)
(* was allocated on, and no others.                                           *)
THEOREM OthersKept == Spec => OthersDiagnosticsKept
<1>1. HandlesInv /\ HandlesInv' /\ [Next]_vars => [OnlyAncestors]_vars
  <2> SUFFICES ASSUME HandlesInv, HandlesInv', [Next]_vars, ~ UNCHANGED vars
               PROVE  OnlyAncestors
    OBVIOUS
  <2>1. ACall
    BY DEF Next
  <2>2. QED  BY <2>1, DiagStep DEF HandlesInv, DiagGoal
<1>2. QED
  BY <1>1, HandlesSafe, PTL DEF Spec, OthersDiagnosticsKept, OnlyAncestors
=============================================================================
