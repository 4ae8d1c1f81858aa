--------------------------- MODULE CatalogProofs ---------------------------
(***************************************************************************)
(* The five invariants of Catalog hold of every service, every set of      *)
(* calls and any number of changes of the environment variable.            *)
(*                                                                         *)
(* The inductive invariant, CatalogInv, follows a call over its requests.  *)
(* Each reply only adds to what the last one left, so the invariant says   *)
(* what holds between two replies: which requests are still to come        *)
(* (JobOK), where the database of each row gathered so far is (PlaceOK),   *)
(* that the tables gathered are those of the databases that are done       *)
(* (MatchOK), that each table that matches has rows or is still to be      *)
(* described (CoverOK), and that a call which lost something has left a    *)
(* record (Good). Good takes the state as parameters, so that one lemma    *)
(* serves each way a handler ends: it returns, or it waits for the next    *)
(* reply.                                                                  *)
(*                                                                         *)
(* The order is: the helpers on sequences, the invariant, the ways a       *)
(* handler ends, one section per action, and the invariants from           *)
(* CatalogInv.                                                             *)
(***************************************************************************)
EXTENDS Catalog, FiniteSetTheorems, SequenceTheorems, TLAPS

\* The elements of a sequence over R are of R.
LEMMA SeqRange ==
    ASSUME NEW R, NEW s \in Seq(R)
    PROVE  Range(s) \subseteq R /\ \A i \in DOMAIN s : s[i] \in R /\ s[i] \in Range(s)
BY DEF Range

-----------------------------------------------------------------------------
(* Keep *)

\* Keep filters: what it returns is at positions of the sequence, each position of
\* an element of the set comes once.
LEMMA KeepIndex ==
    ASSUME NEW R, NEW s \in Seq(R), NEW T
    PROVE  /\ Keep(s, T) \in Seq(R)
           /\ \E f \in [DOMAIN Keep(s, T) -> {i \in DOMAIN s : s[i] \in T}] :
                 /\ \A n \in DOMAIN Keep(s, T) : Keep(s, T)[n] = s[f[n]]
                 /\ \A i \in DOMAIN s : s[i] \in T => \E n \in DOMAIN Keep(s, T) : f[n] = i
                 /\ \A m, n \in DOMAIN Keep(s, T) : f[m] = f[n] => m = n
<1> DEFINE at == {i \in DOMAIN s : s[i] \in T}
           Upto(i) == {j \in at : j <= i}
           Rank(i) == Cardinality(Upto(i))
           N == Cardinality(at)
           R1 == [i \in at |-> Rank(i)]
           f == [n \in 1 .. N |-> CHOOSE i \in at : Rank(i) = n]
<1>1. at \subseteq 1 .. Len(s) /\ Len(s) \in Nat
  OBVIOUS
<1>2. IsFiniteSet(at)
  <2>1. IsFiniteSet(1 .. Len(s))
    BY <1>1, FS_Interval
  <2> QED BY <1>1, <2>1, FS_Subset
<1>3. N \in Nat
  BY <1>2, FS_CardinalityType
<1>4. \A i \in at : IsFiniteSet(Upto(i)) /\ Rank(i) \in Nat /\ Rank(i) <= N
  <2> SUFFICES ASSUME NEW i \in at PROVE IsFiniteSet(Upto(i)) /\ Rank(i) \in Nat /\ Rank(i) <= N
    OBVIOUS
  <2>1. Upto(i) \in SUBSET at
    OBVIOUS
  <2>2. IsFiniteSet(Upto(i)) /\ Cardinality(Upto(i)) <= N
    BY <1>2, <2>1, FS_Subset
  <2> QED BY <2>2, FS_CardinalityType
<1>5. \A i \in at : Rank(i) \in 1 .. N
  <2> SUFFICES ASSUME NEW i \in at PROVE Rank(i) \in 1 .. N
    OBVIOUS
  <2>1. Upto(i) # {}
    BY <1>1
  <2>2. Rank(i) # 0
    BY <1>4, <2>1, FS_EmptySet
  <2>3. Rank(i) \in Nat /\ Rank(i) <= N
    BY <1>4
  <2> HIDE DEF Rank, N, at
  <2> QED BY <1>3, <2>2, <2>3
<1>6. \A i, j \in at : i < j => Rank(i) # Rank(j)
  <2> SUFFICES ASSUME NEW i \in at, NEW j \in at, i < j PROVE Rank(i) # Rank(j)
    OBVIOUS
  <2>1. Upto(i) \in SUBSET Upto(j) /\ Upto(i) # Upto(j)
    BY <1>1
  <2>2. IsFiniteSet(Upto(j))
    BY <1>4
  <2> HIDE DEF Upto
  <2> QED BY <2>1, <2>2, FS_Subset
<1>7. \A i, j \in at : Rank(i) = Rank(j) => i = j
  <2> HIDE DEF Rank
  <2> QED BY <1>1, <1>6
<1>8. R1 \in Injection(at, 1 .. N)
  <2> HIDE DEF Rank, N, at
  <2> QED BY <1>5, <1>7 DEF Injection, IsInjective
<1>9. IsFiniteSet(1 .. N) /\ Cardinality(1 .. N) = N
  <2> HIDE DEF N
  <2> QED BY <1>3, FS_Interval
<1>10. R1 \in Surjection(at, 1 .. N)
  <2> HIDE DEF R1
  <2> QED BY <1>8, <1>9, FS_Injection
<1>11. \A n \in 1 .. N : \E i \in at : Rank(i) = n
  <2> HIDE DEF Rank, N, at
  <2> QED BY <1>10 DEF Surjection
<1>12. \A n \in 1 .. N : f[n] \in at /\ Rank(f[n]) = n
  <2> HIDE DEF Rank, N, at
  <2> QED BY <1>11
<1>13. Keep(s, T) = [n \in 1 .. N |-> s[f[n]]]
  BY DEF Keep
<1>14. Keep(s, T) \in Seq(R) /\ DOMAIN Keep(s, T) = 1 .. N
  <2>1. \A n \in 1 .. N : s[f[n]] \in R
    <3> HIDE DEF f, N, Rank
    <3> QED BY <1>12
  <2> HIDE DEF f, N, Rank, at
  <2> QED BY <1>3, <1>13, <2>1
<1>15. f \in [1 .. N -> at]
  <2> HIDE DEF N, Rank, at
  <2> QED BY <1>12
<1>16. \A i \in DOMAIN s : s[i] \in T => \E n \in 1 .. N : f[n] = i
  <2> SUFFICES ASSUME NEW i \in at PROVE \E n \in 1 .. N : f[n] = i
    OBVIOUS
  <2>1. Rank(i) \in 1 .. N
    BY <1>5
  <2>2. f[Rank(i)] \in at /\ Rank(f[Rank(i)]) = Rank(i)
    <3> HIDE DEF f, N, Rank, at
    <3> QED BY <2>1, <1>12
  <2> HIDE DEF f, N, Rank, at
  <2> QED BY <2>1, <2>2, <1>7
<1>17. \A m, n \in 1 .. N : f[m] = f[n] => m = n
  <2> HIDE DEF f, N, Rank, at
  <2> QED BY <1>12
<1>18. \A n \in 1 .. N : Keep(s, T)[n] = s[f[n]]
  <2> HIDE DEF f, N, Rank, at
  <2> QED BY <1>13
<1>19. /\ f \in [DOMAIN Keep(s, T) -> at]
       /\ \A n \in DOMAIN Keep(s, T) : Keep(s, T)[n] = s[f[n]]
       /\ \A i \in DOMAIN s : s[i] \in T => \E n \in DOMAIN Keep(s, T) : f[n] = i
       /\ \A m, n \in DOMAIN Keep(s, T) : f[m] = f[n] => m = n
  <2> HIDE DEF f, N, Rank, at
  <2> QED BY <1>14, <1>15, <1>16, <1>17, <1>18
<1> HIDE DEF f, N, Rank
<1> QED BY <1>14, <1>19, Zenon

\* What is kept is what the sequence has of the set.
LEMMA KeepRange ==
    ASSUME NEW R, NEW s \in Seq(R), NEW T
    PROVE  /\ Keep(s, T) \in Seq(R)
           /\ Range(Keep(s, T)) = {e \in Range(s) : e \in T}
           /\ Keep(s, T) = <<>> <=> Range(s) \cap T = {}
<1> DEFINE K == Keep(s, T)
<1>1. K \in Seq(R)
  BY KeepIndex
<1>2. PICK f \in [DOMAIN K -> {i \in DOMAIN s : s[i] \in T}] :
        /\ \A n \in DOMAIN K : K[n] = s[f[n]]
        /\ \A i \in DOMAIN s : s[i] \in T => \E n \in DOMAIN K : f[n] = i
  BY KeepIndex
<1> HIDE DEF K
<1>3. Range(K) = {e \in Range(s) : e \in T}
  BY <1>2 DEF Range
<1>4. K = <<>> <=> DOMAIN K = {}
  BY <1>1
<1>5. DOMAIN K = {} <=> Range(K) = {}
  BY DEF Range
<1> QED BY <1>1, <1>3, <1>4, <1>5 DEF K

\* Keep repeats nothing.
LEMMA KeepDistinct ==
    ASSUME NEW R, NEW s \in Seq(R), NEW T
    PROVE  /\ (\A i, j \in DOMAIN s : s[i] = s[j] => i = j) =>
                 \A m, n \in DOMAIN Keep(s, T) : Keep(s, T)[m] = Keep(s, T)[n] => m = n
           /\ (\A i, j \in DOMAIN s : s[i].name = s[j].name => i = j) =>
                 \A m, n \in DOMAIN Keep(s, T) :
                    Keep(s, T)[m].name = Keep(s, T)[n].name => m = n
<1> DEFINE K == Keep(s, T)
<1>1. PICK f \in [DOMAIN K -> {i \in DOMAIN s : s[i] \in T}] :
        /\ \A n \in DOMAIN K : K[n] = s[f[n]]
        /\ \A m, n \in DOMAIN K : f[m] = f[n] => m = n
  BY KeepIndex
<1> HIDE DEF K
<1>2. \A n \in DOMAIN K : f[n] \in DOMAIN s
  BY <1>1
<1>3. (\A i, j \in DOMAIN s : s[i] = s[j] => i = j) =>
          \A m, n \in DOMAIN K : K[m] = K[n] => m = n
  BY <1>1, <1>2
<1>4. (\A i, j \in DOMAIN s : s[i].name = s[j].name => i = j) =>
          \A m, n \in DOMAIN K : K[m].name = K[n].name => m = n
  BY <1>1, <1>2
<1> QED BY <1>3, <1>4 DEF K

-----------------------------------------------------------------------------
(* Shapes *)

Str       == STRING \cup Literals
Text      == Str \cup {NULL}
Columns   == [name : STRING, type : STRING, remarks : STRING]
Tabs      == [name : STRING \ {""}, columns : Seq(Columns)]
Databases == [name : STRING \ {""}, tables : Seq(Tabs)]

TableArgs  == [catalog : Text, schema : Text, table : Text, type : {NULL} \cup SUBSET STRING]
ColumnArgs == [catalog : Text, schema : Text, table : Text, column : Text]

TableRows  == [TABLE_CAT : Str, TABLE_SCHEM : Str, TABLE_NAME : Str,
               TABLE_TYPE : {"TABLE"}, REMARKS : {NULL}]
ColumnRows == [TABLE_CAT : Text, TABLE_SCHEM : Text, TABLE_NAME : Str,
               COLUMN_NAME : STRING, ORDINAL_POSITION : Nat, type : ScalarTypes,
               NULLABLE : {"NULLABLE", "NO_NULLS"}]
Places     == [db : Str, table : Str]

\* The fields of a query and of a job; what arg, meta and todo hold is said below.
IsQuery(p) ==
    p \in [fn : {"tables", "columns", "types"}, arg : {p.arg}, catalogs : BOOLEAN,
           schemas : BOOLEAN, types : BOOLEAN, noNull : {p.noNull},
           home : {"none", "TABLE_SCHEM", "TABLE_CAT"}, meta : {p.meta},
           executed : BOOLEAN, ret : {p.ret}]
IsJob(j) ==
    j \in [step : {"idle", "databases", "tables", "describe"},
           mode : {"none", "all", "identifier", "pattern"}, db : Text,
           todo : {j.todo}, tables : Seq(TableRows)]

\* The names of the databases.
DatabaseNames == {Server[i].name : i \in DOMAIN Server}

\* What the rows of a query are, and the columns it declares without NULL.
QueryOK(p) ==
    /\ IsQuery(p)
    /\ p.fn = "tables" =>
          /\ p.arg \in TableArgs
          /\ p.noNull \subseteq {"TABLE_CAT", "TABLE_SCHEM", "TABLE_NAME", "TABLE_TYPE"}
          /\ p.types => p.noNull = {"TABLE_TYPE"}
          /\ \/ p.meta \in Seq(TableRows)
             \/ p.types /\ p.meta = <<TypeOnly>>
    /\ p.fn = "columns" =>
          /\ p.arg \in ColumnArgs /\ p.noNull = ColumnsNoNull /\ p.home # "none"
          /\ p.meta \in Seq(ColumnRows)
    /\ p.fn = "types" =>
          /\ p.arg \in STRING /\ p.noNull = TypesNoNull
          /\ p.meta \in Seq(ScalarTypes)
          /\ p.arg # "ALL_TYPES" => p.meta = <<SqlTypeToBinary(p.arg)>>

\* Where a call waits for a reply, and what it still has to ask for.
JobOK(p, j) ==
    /\ IsJob(j)
    /\ j.step # "idle" => QueryOK(p) /\ p.fn \in {"tables", "columns"}
    /\ j.step \in {"databases", "tables"} =>
          /\ p.meta = <<>>
          /\ j.mode # "none" /\ (p.fn = "columns" => j.mode = "pattern")
    /\ j.step = "tables" =>
          /\ j.mode # "all" /\ j.todo \in Seq(DatabaseNames) /\ j.todo # <<>>
    /\ j.step = "describe" =>
          /\ p.fn = "columns" /\ j.todo \in Seq(Places) /\ j.todo # <<>>

CallOK(p, j) ==
    /\ p = NoQuery \/ QueryOK(p)
    /\ JobOK(p, j)
    /\ p = NoQuery \/ j.step = "idle" => j = Idle

-----------------------------------------------------------------------------
(* Invariants *)

PlacedTable(e, r) ==
    /\ (IF e THEN r.TABLE_CAT ELSE r.TABLE_SCHEM) = ""
    /\ (IF e THEN r.TABLE_SCHEM ELSE r.TABLE_CAT) \in DatabaseNames
PlacedColumn(e, r) ==
    /\ (IF e THEN r.TABLE_CAT ELSE r.TABLE_SCHEM) = NULL
    /\ (IF e THEN r.TABLE_SCHEM ELSE r.TABLE_CAT) \notin {NULL, ""}

\* The database of each row is where the variable, which is e, puts it.
PlaceOK(e, p, j) ==
    /\ p.fn = "tables" => \A i \in DOMAIN p.meta :
                             p.meta[i] = TypeOnly \/ PlacedTable(e, p.meta[i])
    /\ p.fn = "columns" => /\ p.home = IF e THEN "TABLE_SCHEM" ELSE "TABLE_CAT"
                           /\ \A i \in DOMAIN p.meta : PlacedColumn(e, p.meta[i])
    /\ j.step = "tables" => \A i \in DOMAIN j.tables : PlacedTable(e, j.tables[i])
    /\ j.step = "describe" => \A i \in DOMAIN j.todo : j.todo[i].db # ""

\* Matching, with the two variables it reads as parameters: e is the environment
\* variable, m is SQL_ATTR_METADATA_ID.
SameName(m, x, n) == IF m THEN Upper[x] = Upper[n] ELSE Like(OrAll(x), n)
MainOf(e, a)  == IF e THEN a.schema ELSE a.catalog
OtherOf(e, a) == IF e THEN a.catalog ELSE a.schema
TablesOf(m, a, d) ==
    {<<d.name, t.name>> : t \in {u \in Range(d.tables) : SameName(m, a.table, u.name)}}
DatabasesFor(e, m, a) == {d \in Range(Server) : SameName(m, MainOf(e, a), d.name)}
MatchingFor(e, m, a) == UNION {TablesOf(m, a, d) : d \in DatabasesFor(e, m, a)}

Pair(row) == <<DatabaseOf(row), row.TABLE_NAME>>
Pairs(rows) == {Pair(rows[i]) : i \in DOMAIN rows}
Apart(rows) == \A i, j \in DOMAIN rows : Pair(rows[i]) = Pair(rows[j]) => i = j

\* No two databases differ in case only.
NamesApart == \A d1, d2 \in Range(Server) : Upper[d1.name] = Upper[d2.name] => d1 = d2

Placeless == {NULL, "", ALL}
Plain(p)  == ~p.catalogs /\ ~p.schemas /\ ~p.types

\* A call that gathers tables looks for those that match.
Asks(e, m, p, j) ==
    /\ j.mode = "identifier" <=> m
    /\ j.db = MainOf(e, p.arg)
    /\ j.mode = "all" => ~Plain(p)
    /\ p.fn = "tables" => /\ ValidTableType(p.arg.type)
                          /\ Plain(p) => m \/ OtherOf(e, p.arg) \in Placeless

\* The tables found are those of the databases that are done.
Gathered(e, m, a, j) ==
    LET dbs == DatabasesFor(e, m, a) IN
    /\ Range(j.todo) \subseteq {d.name : d \in dbs}
    /\ \A i, k \in DOMAIN j.todo : j.todo[i] = j.todo[k] => i = k
    /\ Pairs(j.tables) = UNION {TablesOf(m, a, d) : d \in {b \in dbs : b.name \notin Range(j.todo)}}
    /\ Apart(j.tables)

Expected(e, m, a) ==
    IF ValidTableType(a.type) /\ (m \/ OtherOf(e, a) \in Placeless)
    THEN MatchingFor(e, m, a) ELSE {}

MatchOK(e, m, p, j) ==
    /\ j.step \in {"databases", "tables"} => Asks(e, m, p, j)
    /\ j.step = "tables" /\ (~m \/ NamesApart) => Gathered(e, m, p.arg, j)
    /\ j.step = "idle" /\ p.fn = "tables" /\ p.ret \in Succeeded /\ Plain(p)
       /\ (~m \/ NamesApart) =>
          Pairs(p.meta) = Expected(e, m, p.arg) /\ Apart(p.meta)

\* Each table that matches is described, or is going to be.
CoverOK(e, m, p, j, rec) ==
    (p.fn = "columns" /\ ~m /\ p.arg.column \in {NULL, ALL}) =>
        /\ j.step = "describe" =>
              MatchingFor(e, m, p.arg) \subseteq
                 Pairs(p.meta) \cup {<<j.todo[i].db, j.todo[i].table>> : i \in DOMAIN j.todo}
        /\ j.step = "idle" /\ p.ret \in Succeeded /\ ~rec =>
              MatchingFor(e, m, p.arg) \subseteq Pairs(p.meta)

\* All of it, of the state a step leaves: the environment variable e, METADATA_ID
\* m, the number of changes ch, query p, job j, and whether a record was left and
\* nothing disturbed the call.
Good(e, m, ch, p, j, rec, c) ==
    /\ CallOK(p, j)
    /\ c \/ ch = 0 => PlaceOK(e, p, j)
    /\ p.fn \in {"tables", "columns"} /\ ch = 0 /\ ~rec => c
    /\ c => MatchOK(e, m, p, j)
    /\ c => CoverOK(e, m, p, j, rec)

CatalogInv ==
    /\ env \in BOOLEAN /\ metadataID \in BOOLEAN /\ calm \in BOOLEAN /\ changes \in Nat
    /\ changes = 0 => env = infoEnv
    /\ Good(env, metadataID, changes, q, job, recorded, calm)

-----------------------------------------------------------------------------
(* Returning and waiting *)

\* Between calls there is a job all the same.
LEMMA IdleIsJob == IsJob(Idle) /\ Idle.step = "idle"
BY DEF IsJob, Idle, Waiting, Text

\* The fields of a query that returns.
LEMMA ReturnFields ==
    ASSUME NEW p, IsQuery(p), NEW r, NEW rec, NEW s, s = Return(p, r, rec)
    PROVE  /\ IsQuery(s.q) /\ s.q.ret = r
           /\ s.q.fn = p.fn /\ s.q.arg = p.arg /\ s.q.catalogs = p.catalogs
           /\ s.q.schemas = p.schemas /\ s.q.types = p.types /\ s.q.noNull = p.noNull
           /\ s.q.home = p.home /\ s.q.meta = p.meta
           /\ s.job = Idle /\ s.recorded = rec
<1> DEFINE x == IF p.fn = "columns" THEN r = "AI_SUCCESS" ELSE r \in Succeeded
<1>1. x \in BOOLEAN
  <2>1. (r = "AI_SUCCESS") \in BOOLEAN /\ (r \in Succeeded) \in BOOLEAN
    OBVIOUS
  <2> QED BY <2>1, Zenon
<1>2. s = [q |-> [p EXCEPT !.ret = r, !.executed = x], job |-> Idle, ret |-> r,
           recorded |-> rec]
  BY DEF Return
<1> HIDE DEF x
<1>3. s.q = [p EXCEPT !.ret = r, !.executed = x] /\ s.job = Idle /\ s.recorded = rec
  BY <1>2
<1>4. IsQuery(s.q)
  BY <1>1, <1>3, Zenon DEF IsQuery
<1> QED BY <1>3, <1>4 DEF IsQuery

\* The fields of a query that keeps its rows.
LEMMA MetaFields ==
    ASSUME NEW p, IsQuery(p), NEW rows, NEW s, s = [p EXCEPT !.meta = rows]
    PROVE  /\ IsQuery(s) /\ s.meta = rows /\ s.ret = p.ret
           /\ s.fn = p.fn /\ s.arg = p.arg /\ s.catalogs = p.catalogs
           /\ s.schemas = p.schemas /\ s.types = p.types /\ s.noNull = p.noNull
           /\ s.home = p.home
BY DEF IsQuery

\* What a step of a call does not touch.
Kept == UNCHANGED <<env, infoEnv, changes, metadataID>>

\* The variables that are true or false.
Flags == /\ env \in BOOLEAN /\ metadataID \in BOOLEAN /\ changes \in Nat
         /\ calm \in BOOLEAN /\ calm' \in BOOLEAN

\* The state after the step.
GoodNow == Good(env, metadataID, changes, q', job', recorded', calm')

\* The variable still is what it was when the call, or the connection, was made.
SettledNow == calm' \/ changes = 0

HomeOK(p) == p.fn = "columns" => p.home = IF env THEN "TABLE_SCHEM" ELSE "TABLE_CAT"

\* A call that returns keeps the query it has; what it answers is judged now.
LEMMA GoodReturn ==
    ASSUME NEW p, QueryOK(p), p.fn \in {"tables", "columns"}, NEW r, NEW rec,
           Becomes(Return(p, r, rec)),
           SettledNow => PlaceOK(env, p, Idle),
           changes = 0 /\ ~recorded' => calm',
           calm' /\ r \in Succeeded /\ p.fn = "tables" /\ Plain(p)
               /\ (~metadataID \/ NamesApart) =>
               Pairs(p.meta) = Expected(env, metadataID, p.arg) /\ Apart(p.meta),
           calm' /\ ~recorded' /\ r \in Succeeded /\ p.fn = "columns" /\ ~metadataID
               /\ p.arg.column \in {NULL, ALL} =>
               MatchingFor(env, metadataID, p.arg) \subseteq Pairs(p.meta)
    PROVE  GoodNow
<1>1. IsQuery(p)
  BY DEF QueryOK
<1> DEFINE s == Return(p, r, rec)
<1>2. q' = s.q /\ job' = s.job /\ recorded' = s.recorded
  BY DEF Becomes
<1>3. /\ IsQuery(s.q) /\ s.q.ret = r
      /\ s.q.fn = p.fn /\ s.q.arg = p.arg /\ s.q.catalogs = p.catalogs
      /\ s.q.schemas = p.schemas /\ s.q.types = p.types /\ s.q.noNull = p.noNull
      /\ s.q.home = p.home /\ s.q.meta = p.meta
      /\ s.job = Idle /\ s.recorded = rec
  BY <1>1, ReturnFields
<1> HIDE DEF s
<1>4. job'.step = "idle" /\ IsJob(job')
  BY <1>2, <1>3, IdleIsJob
<1>5. QueryOK(q')
  BY <1>2, <1>3 DEF QueryOK
<1>6. CallOK(q', job')
  BY <1>2, <1>3, <1>4, <1>5 DEF CallOK, JobOK
<1>7. SettledNow => PlaceOK(env, q', job')
  BY <1>2, <1>3 DEF PlaceOK
<1>8. calm' => MatchOK(env, metadataID, q', job')
  BY <1>2, <1>3, <1>4 DEF MatchOK, Plain
<1>9. calm' => CoverOK(env, metadataID, q', job', recorded')
  BY <1>2, <1>3, <1>4 DEF CoverOK
<1> QED BY <1>2, <1>3, <1>6, <1>7, <1>8, <1>9 DEF Good, GoodNow, SettledNow

\* A call that answers without a row, and leaves a record.
LEMMA GoodWarning ==
    ASSUME NEW p, QueryOK(p), p.fn \in {"tables", "columns"}, p.meta = <<>>, NEW r,
           Becomes(Return(p, r, TRUE)),
           SettledNow => HomeOK(p),
           calm' /\ r \in Succeeded /\ p.fn = "tables" /\ Plain(p)
               /\ (~metadataID \/ NamesApart) =>
               Expected(env, metadataID, p.arg) = {}
    PROVE  GoodNow
<1>1. DOMAIN p.meta = {}
  OBVIOUS
<1>2. Pairs(p.meta) = {} /\ Apart(p.meta)
  BY <1>1 DEF Pairs, Apart
<1>3. SettledNow => PlaceOK(env, p, Idle)
  BY <1>1, IdleIsJob DEF PlaceOK, HomeOK
<1>4. recorded' = TRUE
  BY DEF Becomes, Return
<1> QED BY <1>2, <1>3, <1>4, GoodReturn

\* A call that waits: the query is as it was.
LEMMA GoodWait ==
    ASSUME NEW p, QueryOK(p), p.fn \in {"tables", "columns"}, NEW j, NEW rec,
           Becomes(Wait(p, j, rec)),
           JobOK(p, j), j.step # "idle",
           SettledNow => PlaceOK(env, p, j),
           changes = 0 /\ ~recorded' => calm',
           calm' => MatchOK(env, metadataID, p, j),
           calm' => CoverOK(env, metadataID, p, j, recorded')
    PROVE  GoodNow
<1>1. q' = p /\ job' = j
  BY DEF Wait, Becomes
<1>2. p # NoQuery
  BY DEF NoQuery
<1>3. CallOK(p, j)
  BY <1>2 DEF CallOK
<1> QED BY <1>1, <1>3 DEF Good, GoodNow, SettledNow

-----------------------------------------------------------------------------
(* The service *)

\* What the assumption on the service says of each database, by index and by element.
LEMMA ServerIs ==
    /\ Server \in Seq(Databases) /\ DatabaseNames \subseteq STRING \ {""}
    /\ NULL \notin DatabaseNames
    /\ \A i, j \in DOMAIN Server : Server[i].name = Server[j].name => i = j
    /\ \A d \in Range(Server) : /\ d \in Databases /\ d.tables \in Seq(Tabs)
                                /\ d.name \in DatabaseNames
                                /\ \A i, j \in DOMAIN d.tables :
                                      d.tables[i].name = d.tables[j].name => i = j
    /\ \A d1, d2 \in Range(Server) : d1.name = d2.name => d1 = d2
<1>1. Server \in Seq(Databases)
  BY ServerAssumption DEF Databases, Tabs, Columns
<1>2. \A i \in DOMAIN Server : Server[i] \in Databases
  BY <1>1
<1>3. DatabaseNames \subseteq STRING \ {""}
  BY <1>2 DEF DatabaseNames, Databases
<1>4. \A d \in Range(Server) : d \in Databases /\ d.tables \in Seq(Tabs) /\ d.name \in DatabaseNames
  BY <1>2 DEF Range, DatabaseNames, Databases
<1>5. \A d1, d2 \in Range(Server) : d1.name = d2.name => d1 = d2
  BY ServerAssumption DEF Range
<1>6. \A d \in Range(Server) : \A i, j \in DOMAIN d.tables :
          d.tables[i].name = d.tables[j].name => i = j
  BY ServerAssumption
<1>7. \A i, j \in DOMAIN Server : Server[i].name = Server[j].name => i = j
  BY ServerAssumption
<1> QED BY <1>1, <1>3, <1>4, <1>5, <1>6, <1>7, NullAssumption

\* The database of a row of SQLTables is found where the variable puts it.
LEMMA PlacedPair ==
    ASSUME NEW e \in BOOLEAN, NEW r \in TableRows, PlacedTable(e, r)
    PROVE  /\ DatabaseOf(r) = r[IF e THEN "TABLE_SCHEM" ELSE "TABLE_CAT"]
           /\ DatabaseOf(r) \in DatabaseNames
BY ServerIs, NullAssumption DEF DatabaseOf, PlacedTable, TableRows

\* The gathering of tables is over, for SQLTables and for SQLColumns.
LEMMA GoodTablesDone ==
    ASSUME NEW p, QueryOK(p), p.fn \in {"tables", "columns"}, p.meta = <<>>,
           NEW r \in {"AI_ERROR", "AI_SUCCESS", "AI_SUCCESS_WITH_INFO"},
           NEW rows \in Seq(TableRows), NEW rec, env \in BOOLEAN,
           Becomes(TablesDone(p, r, rows, rec)),
           SettledNow => HomeOK(p) /\ \A i \in DOMAIN rows : PlacedTable(env, rows[i]),
           changes = 0 /\ ~recorded' => calm',
           p.fn = "columns" /\ r = "AI_SUCCESS" => rows # <<>>,
           calm' /\ r \in Succeeded /\ p.fn = "tables" /\ Plain(p)
               /\ (~metadataID \/ NamesApart) =>
               Pairs(rows) = Expected(env, metadataID, p.arg) /\ Apart(rows),
           calm' /\ r = "AI_SUCCESS" /\ p.fn = "columns" /\ ~metadataID =>
               MatchingFor(env, metadataID, p.arg) = Pairs(rows)
    PROVE  GoodNow
<1>1. CASE p.fn = "tables"
  <2> DEFINE p2 == [p EXCEPT !.meta = rows]
  <2>1. Becomes(Return(p2, r, rec))
    BY <1>1 DEF TablesDone
  <2>2. /\ IsQuery(p2) /\ p2.meta = rows /\ p2.ret = p.ret
        /\ p2.fn = p.fn /\ p2.arg = p.arg /\ p2.catalogs = p.catalogs
        /\ p2.schemas = p.schemas /\ p2.types = p.types /\ p2.noNull = p.noNull
        /\ p2.home = p.home
    BY MetaFields DEF QueryOK
  <2> HIDE DEF p2
  <2>3. QueryOK(p2)
    BY <1>1, <2>2 DEF QueryOK
  <2>4. SettledNow => PlaceOK(env, p2, Idle)
    BY <1>1, <2>2, IdleIsJob DEF PlaceOK
  <2>5. Plain(p2) <=> Plain(p)
    BY <2>2 DEF Plain
  <2>6. p2.fn \in {"tables", "columns"} /\ p2.fn # "columns"
    BY <1>1, <2>2
  <2>7. calm' /\ r \in Succeeded /\ p2.fn = "tables" /\ Plain(p2)
           /\ (~metadataID \/ NamesApart) =>
           Pairs(p2.meta) = Expected(env, metadataID, p2.arg) /\ Apart(p2.meta)
    BY <2>2, <2>5
  <2> QED BY <2>1, <2>3, <2>4, <2>6, <2>7, GoodReturn
<1>2. CASE p.fn = "columns" /\ r # "AI_SUCCESS"
  <2>1. Becomes(Return(p, "AI_SUCCESS_WITH_INFO", TRUE))
    BY <1>2 DEF TablesDone
  <2>2. p.fn # "tables" /\ (SettledNow => HomeOK(p))
    BY <1>2
  <2> QED BY <2>1, <2>2, GoodWarning
<1>3. CASE p.fn = "columns" /\ r = "AI_SUCCESS"
  <2> DEFINE todo == [i \in DOMAIN rows |-> [db    |-> rows[i][p.home],
                                             table |-> rows[i].TABLE_NAME]]
             j == Waiting("describe", "pattern", NULL, todo, <<>>)
  <2>1. Becomes(Wait(p, j, rec))
    BY <1>3 DEF TablesDone
  <2>2. DOMAIN todo = DOMAIN rows /\ \A i \in DOMAIN rows :
            todo[i] = [db |-> rows[i][p.home], table |-> rows[i].TABLE_NAME]
    OBVIOUS
  <2>3. p.home \in {"TABLE_SCHEM", "TABLE_CAT"}
    BY <1>3 DEF QueryOK, IsQuery
  <2>4. \A i \in DOMAIN rows : rows[i] \in TableRows
    OBVIOUS
  <2>5. \A i \in DOMAIN rows : rows[i][p.home] \in Str /\ rows[i].TABLE_NAME \in Str
    BY <2>3, <2>4 DEF TableRows
  <2>6. todo \in Seq(Places) /\ todo # <<>>
    <3>1. \A i \in DOMAIN rows : todo[i] \in Places
      BY <2>2, <2>5 DEF Places
    <3>2. DOMAIN rows = 1 .. Len(rows) /\ Len(rows) \in Nat /\ Len(rows) # 0
      BY <1>3
    <3> QED BY <2>2, <3>1, <3>2
  <2>7. \A i \in DOMAIN todo : todo[i].db = rows[i][p.home] /\ todo[i].table = rows[i].TABLE_NAME
    BY <2>2
  <2> HIDE DEF todo
  <2>8. /\ IsJob(j) /\ j.step = "describe" /\ j.mode = "pattern" /\ j.todo = todo
        /\ j.tables = <<>>
    BY DEF Waiting, IsJob, Text
  <2> HIDE DEF j
  <2>9. JobOK(p, j)
    BY <1>3, <2>6, <2>8 DEF JobOK
  <2>10. SettledNow => \A i \in DOMAIN rows :
             /\ DatabaseOf(rows[i]) = rows[i][p.home]
             /\ DatabaseOf(rows[i]) \in DatabaseNames
    BY <1>3, <2>4, PlacedPair DEF HomeOK
  <2>11. SettledNow => PlaceOK(env, p, j)
    <3>1. DOMAIN p.meta = {}
      OBVIOUS
    <3>2. SettledNow => \A i \in DOMAIN todo : todo[i].db # ""
      <4>1. "" \notin DatabaseNames
        BY ServerIs
      <4> SUFFICES ASSUME SettledNow, NEW i \in DOMAIN todo PROVE todo[i].db # ""
        OBVIOUS
      <4>2. i \in DOMAIN rows
        BY <2>2
      <4>3. todo[i].db = DatabaseOf(rows[i])
        BY <2>7, <2>10, <4>2
      <4> QED BY <2>10, <4>1, <4>2, <4>3
    <3> QED BY <1>3, <2>8, <3>1, <3>2 DEF PlaceOK, HomeOK
  <2>12. MatchOK(env, metadataID, p, j)
    BY <1>3, <2>8 DEF MatchOK
  <2>13. calm' => Pairs(rows) \subseteq {<<todo[i].db, todo[i].table>> : i \in DOMAIN todo}
    BY <2>2, <2>7, <2>10 DEF Pairs, Pair, SettledNow
  <2>14. calm' => CoverOK(env, metadataID, p, j, recorded')
    BY <1>3, <2>8, <2>13 DEF CoverOK
  <2> QED BY <1>3, <2>1, <2>8, <2>9, <2>11, <2>12, <2>14, GoodWait
<1> QED BY <1>1, <1>2, <1>3

\* What DataQuery may answer: a prefix of the rows, and whole says it is all of them.
LEMMA ReplyIs ==
    ASSUME NEW R, NEW rows \in Seq(R), NEW x \in Replies(rows)
    PROVE  /\ x.r \in {"AI_ERROR", "AI_NO_DATA", "AI_SUCCESS"} /\ x.whole \in BOOLEAN
           /\ x.rows \in Seq(R)
           /\ \A i \in DOMAIN x.rows : i \in DOMAIN rows /\ x.rows[i] = rows[i]
           /\ x.whole => x.rows = rows
           /\ x.r = "AI_ERROR" => ~x.whole
           /\ x.r = "AI_NO_DATA" => rows = <<>>
           /\ x.r = "AI_SUCCESS" => rows # <<>>
           /\ x.r # "AI_SUCCESS" => x.rows = <<>>
<1>1. CASE x = [r |-> "AI_ERROR", rows |-> <<>>, whole |-> FALSE]
  BY <1>1
<1>2. CASE rows = <<>> /\ x = [r |-> "AI_NO_DATA", rows |-> <<>>, whole |-> TRUE]
  BY <1>2
<1>3. ASSUME rows # <<>>, NEW n \in 0 .. Len(rows),
             x = [r |-> "AI_SUCCESS", rows |-> SubSeq(rows, 1, n), whole |-> n = Len(rows)]
      PROVE  /\ x.r = "AI_SUCCESS" /\ x.whole \in BOOLEAN /\ x.rows \in Seq(R)
             /\ \A i \in DOMAIN x.rows : i \in DOMAIN rows /\ x.rows[i] = rows[i]
             /\ x.whole => x.rows = rows
  <2>1. x.r = "AI_SUCCESS" /\ x.rows = SubSeq(rows, 1, n) /\ x.whole = (n = Len(rows))
    BY <1>3
  <2>2. SubSeq(rows, 1, n) \in Seq(R) /\ Len(SubSeq(rows, 1, n)) = n
        /\ \A i \in 1 .. n : SubSeq(rows, 1, n)[i] = rows[i]
    OBVIOUS
  <2>3. n = Len(rows) => SubSeq(rows, 1, n) = rows
    OBVIOUS
  <2>4. x.whole \in BOOLEAN
    <3>1. (n = Len(rows)) \in BOOLEAN
      OBVIOUS
    <3> QED BY <2>1, <3>1, Zenon
  <2>5. x.whole => x.rows = rows
    BY <2>1, <2>3, Zenon
  <2>6. \A i \in DOMAIN x.rows : i \in DOMAIN rows /\ x.rows[i] = rows[i]
    BY <1>3, <2>1, <2>2
  <2> QED BY <2>1, <2>2, <2>4, <2>5, <2>6
<1> QED BY <1>1, <1>2, <1>3 DEF Replies

\* The names of a sequence of records.
LEMMA NamedIs ==
    ASSUME NEW R, NEW s \in Seq(R), \A r \in R : r.name \in STRING
    PROVE  /\ Named(s) \in Seq(STRING) /\ DOMAIN Named(s) = DOMAIN s
           /\ \A i \in DOMAIN s : Named(s)[i] = s[i].name
           /\ Range(Named(s)) = {r.name : r \in Range(s)}
           /\ Named(s) = <<>> <=> s = <<>>
<1>1. DOMAIN s = 1 .. Len(s) /\ Len(s) \in Nat
  OBVIOUS
<1>2. DOMAIN Named(s) = DOMAIN s /\ \A i \in DOMAIN s : Named(s)[i] = s[i].name
  BY DEF Named
<1>3. \A i \in DOMAIN s : s[i].name \in STRING
  OBVIOUS
<1>4. Named(s) \in Seq(STRING)
  <2>1. Named(s) = [i \in 1 .. Len(s) |-> s[i].name]
    BY <1>1 DEF Named
  <2> QED BY <1>1, <1>3, <2>1
<1>5. Range(Named(s)) = {r.name : r \in Range(s)}
  BY <1>2 DEF Range
<1>6. Named(s) = <<>> <=> s = <<>>
  BY <1>1, <1>2, <1>4
<1> QED BY <1>2, <1>4, <1>5, <1>6

-----------------------------------------------------------------------------
(* The start of a call *)

\* An empty name matches nothing.
LEMMA EmptyMatchesNothing ==
    ASSUME NEW e, NEW m, ~m, NEW a, MainOf(e, a) = "" \/ a.table = ""
    PROVE  MatchingFor(e, m, a) = {}
<1>1. NULL # "" /\ OrAll("") = ""
  BY NullAssumption DEF OrAll, Literals
<1>2. \A d \in Range(Server) : d.name # "" /\ \A t \in Range(d.tables) : t.name # ""
  <2> SUFFICES ASSUME NEW d \in Range(Server)
               PROVE  d.name # "" /\ \A t \in Range(d.tables) : t.name # ""
    OBVIOUS
  <2>1. d \in Databases /\ d.tables \in Seq(Tabs)
    BY ServerIs
  <2>2. Range(d.tables) \subseteq Tabs
    BY <2>1, SeqRange
  <2> QED BY <2>1, <2>2 DEF Databases, Tabs
<1>3. \A n : n # "" => ~SameName(m, "", n)
  BY <1>1 DEF SameName, Like, ALL
<1>4. CASE MainOf(e, a) = ""
  <2>1. DatabasesFor(e, m, a) = {}
    BY <1>2, <1>3, <1>4 DEF DatabasesFor
  <2> QED BY <2>1 DEF MatchingFor
<1>5. CASE a.table = ""
  <2>1. \A d \in Range(Server) : TablesOf(m, a, d) = {}
    BY <1>2, <1>3, <1>5 DEF TablesOf
  <2> QED BY <2>1 DEF MatchingFor, DatabasesFor
<1> QED BY <1>4, <1>5

\* A query that is about to ask for databases.
LEMMA GoodDatabases ==
    ASSUME NEW p, QueryOK(p), p.fn \in {"tables", "columns"}, p.meta = <<>>, HomeOK(p),
           Flags, calm', NEW mode \in {"all", "identifier", "pattern"},
           Becomes(Wait(p, Waiting("databases", mode, MainOf(env, p.arg), <<>>, <<>>), FALSE)),
           p.fn = "columns" => mode = "pattern",
           p.fn = "tables" => ValidTableType(p.arg.type),
           mode = "identifier" <=> metadataID, mode = "all" => ~Plain(p),
           mode = "pattern" => OtherOf(env, p.arg) \in Placeless
    PROVE  GoodNow
<1> DEFINE j == Waiting("databases", mode, MainOf(env, p.arg), <<>>, <<>>)
<1>1. MainOf(env, p.arg) \in Text
  BY DEF QueryOK, MainOf, TableArgs, ColumnArgs, Flags
<1>2. /\ IsJob(j) /\ j.step = "databases" /\ j.mode = mode /\ j.db = MainOf(env, p.arg)
      /\ j.tables = <<>>
  BY <1>1 DEF Waiting, IsJob
<1>3. Becomes(Wait(p, j, FALSE))
  OBVIOUS
<1> HIDE DEF j
<1>4. JobOK(p, j)
  BY <1>2 DEF JobOK
<1>5. DOMAIN p.meta = {}
  OBVIOUS
<1>6. PlaceOK(env, p, j)
  BY <1>2, <1>5 DEF PlaceOK, HomeOK
<1>7. metadataID \in BOOLEAN /\ (mode = "identifier" <=> metadataID)
  BY DEF Flags
<1>8. Asks(env, metadataID, p, j)
  BY <1>2, <1>7 DEF Asks
<1>9. MatchOK(env, metadataID, p, j)
  BY <1>2, <1>8 DEF MatchOK
<1>10. CoverOK(env, metadataID, p, j, recorded')
  BY <1>2 DEF CoverOK
<1>11. j.step # "idle"
  BY <1>2
<1> QED BY <1>3, <1>4, <1>6, <1>9, <1>10, <1>11, GoodWait

\* Nothing matches a name in the wrong place, or an empty name.
LEMMA NothingExpected ==
    ASSUME NEW a, ~metadataID,
           \/ OtherOf(env, a) \notin Placeless
           \/ MainOf(env, a) = "" \/ a.table = ""
    PROVE  Expected(env, metadataID, a) = {}
<1>1. CASE OtherOf(env, a) \notin Placeless
  BY <1>1 DEF Expected
<1>2. CASE MainOf(env, a) = "" \/ a.table = ""
  <2>1. MatchingFor(env, metadataID, a) = {}
    BY <1>2, EmptyMatchesNothing
  <2> QED BY <2>1 DEF Expected
<1> QED BY <1>1, <1>2

\* getTables, up to its first request.
LEMMA GoodGetTables ==
    ASSUME NEW p, QueryOK(p), p.fn \in {"tables", "columns"}, p.meta = <<>>, HomeOK(p),
           Flags, calm', Becomes(GetTables(p, p.arg)),
           p.fn = "columns" => ~metadataID /\ Plain(p),
           p.fn = "tables" => ValidTableType(p.arg.type),
           metadataID => ~p.catalogs /\ ~p.schemas
    PROVE  GoodNow
<1> DEFINE main == MainOf(env, p.arg)
           other == OtherOf(env, p.arg)
           everything == IF env THEN p.schemas ELSE p.catalogs
           nothing    == IF env THEN p.catalogs ELSE p.schemas
           empty == nothing \/ other \notin Placeless \/ main = "" \/ p.arg.table = ""
           Ask(mode) == Wait(p, Waiting("databases", mode, main, <<>>, <<>>), FALSE)
<1>1. GetTables(p, p.arg) =
        CASE metadataID ->
               IF main = NULL \/ p.arg.table = NULL THEN Return(p, "AI_ERROR", TRUE)
               ELSE Ask("identifier")
          [] ~metadataID /\ everything -> Ask("all")
          [] ~metadataID /\ ~everything /\ empty -> Return(p, "AI_SUCCESS_WITH_INFO", TRUE)
          [] OTHER -> Ask("pattern")
  BY DEF GetTables, Main, Other, MainOf, OtherOf, Placeless
<1>2. everything => ~Plain(p)
  BY DEF Plain
<1>3. nothing => ~Plain(p)
  BY DEF Plain
<1>4. metadataID => p.fn = "tables"
  OBVIOUS
<1>5. everything => p.fn = "tables"
  BY <1>2
<1> HIDE DEF everything, nothing
<1>6. CASE metadataID /\ (main = NULL \/ p.arg.table = NULL)
  <2>1. GetTables(p, p.arg) = Return(p, "AI_ERROR", TRUE)
    BY <1>1, <1>6
  <2>2. Becomes(Return(p, "AI_ERROR", TRUE))
    BY <2>1
  <2>3. "AI_ERROR" \notin Succeeded
    BY DEF Succeeded
  <2> QED BY <2>2, <2>3, GoodWarning
<1>7. CASE metadataID /\ ~(main = NULL \/ p.arg.table = NULL)
  <2>1. GetTables(p, p.arg) = Ask("identifier")
    BY <1>1, <1>7
  <2>2. Becomes(Ask("identifier"))
    BY <2>1
  <2> QED BY <1>4, <1>7, <2>2, GoodDatabases
<1>8. CASE ~metadataID /\ everything
  <2>1. GetTables(p, p.arg) = Ask("all")
    BY <1>1, <1>8
  <2>2. Becomes(Ask("all"))
    BY <2>1
  <2> QED BY <1>2, <1>5, <1>8, <2>2, GoodDatabases
<1>9. CASE ~metadataID /\ ~everything /\ empty
  <2>1. GetTables(p, p.arg) = Return(p, "AI_SUCCESS_WITH_INFO", TRUE)
    BY <1>1, <1>9
  <2>2. Becomes(Return(p, "AI_SUCCESS_WITH_INFO", TRUE))
    BY <2>1
  <2>3. Plain(p) => Expected(env, metadataID, p.arg) = {}
    BY <1>3, <1>9, NothingExpected
  <2> QED BY <2>2, <2>3, GoodWarning
<1>10. CASE ~metadataID /\ ~everything /\ ~empty
  <2>1. GetTables(p, p.arg) = Ask("pattern")
    BY <1>1, <1>10
  <2>2. Becomes(Ask("pattern"))
    BY <2>1
  <2> QED BY <1>10, <2>2, GoodDatabases
<1> QED BY <1>6, <1>7, <1>8, <1>9, <1>10

\* The fields of the query of SQLTables.
LEMMA NewTablesFields ==
    ASSUME NEW a, NEW p, p = NewTablesQuery(a)
    PROVE  /\ IsQuery(p) /\ p.fn = "tables" /\ p.arg = a /\ p.home = "none" /\ p.meta = <<>>
           /\ p.catalogs <=> ~metadataID /\ a.catalog = ALL /\ a.schema = "" /\ a.table = ""
           /\ p.schemas <=> ~metadataID /\ a.schema = ALL /\ a.catalog = "" /\ a.table = ""
           /\ p.types <=> a.type = {ALL} /\ a.catalog = "" /\ a.schema = "" /\ a.table = ""
           /\ p.noNull = TablesNoNull(p.catalogs, p.schemas, p.types)
<1> DEFINE c == ~metadataID /\ a.catalog = ALL /\ a.schema = "" /\ a.table = ""
           s == ~metadataID /\ a.schema = ALL /\ a.catalog = "" /\ a.table = ""
           t == a.type = {ALL} /\ a.catalog = "" /\ a.schema = "" /\ a.table = ""
           n == TablesNoNull(c, s, t)
<1>1. p = [fn |-> "tables", arg |-> a, catalogs |-> c, schemas |-> s,
           types |-> t, noNull |-> n,
           home |-> "none", meta |-> <<>>, executed |-> FALSE, ret |-> "none"]
  BY DEF NewTablesQuery
<1>2. c \in BOOLEAN /\ s \in BOOLEAN /\ t \in BOOLEAN
  OBVIOUS
<1>3. /\ p.fn = "tables" /\ p.arg = a /\ p.home = "none" /\ p.meta = <<>>
      /\ p.catalogs = c /\ p.schemas = s /\ p.types = t /\ p.noNull = n
  <2> HIDE DEF c, s, t, n
  <2> QED BY <1>1
<1>4. IsQuery(p)
  <2> HIDE DEF c, s, t, n
  <2>1. p \in [fn : {"tables", "columns", "types"}, arg : {a}, catalogs : BOOLEAN,
               schemas : BOOLEAN, types : BOOLEAN, noNull : {n},
               home : {"none", "TABLE_SCHEM", "TABLE_CAT"}, meta : {<<>>},
               executed : BOOLEAN, ret : {"none"}]
    BY <1>1, <1>2
  <2> QED BY <2>1 DEF IsQuery
<1>5. p.noNull = TablesNoNull(p.catalogs, p.schemas, p.types)
  <2> HIDE DEF c, s, t
  <2> QED BY <1>3, Zenon DEF n
<1>6. (p.catalogs <=> c) /\ (p.schemas <=> s) /\ (p.types <=> t)
  <2> HIDE DEF c, s, t, n
  <2> QED BY <1>2, <1>3, Zenon
<1> HIDE DEF n
<1> QED BY <1>3, <1>4, <1>5, <1>6

\* The query that SQLTables makes.
LEMMA NewTablesIs ==
    ASSUME NEW a \in TableCalls, env \in BOOLEAN, metadataID \in BOOLEAN,
           NEW p, p = NewTablesQuery(a)
    PROVE  /\ QueryOK(p) /\ p.fn = "tables" /\ p.arg = a /\ p.meta = <<>>
           /\ metadataID => ~p.catalogs /\ ~p.schemas
<1>1. a \in TableArgs
  BY CallsAssumption DEF TableArgs, Text, Str
<1>2. /\ IsQuery(p) /\ p.fn = "tables" /\ p.arg = a /\ p.meta = <<>>
      /\ p.catalogs <=> ~metadataID /\ a.catalog = ALL /\ a.schema = "" /\ a.table = ""
      /\ p.schemas <=> ~metadataID /\ a.schema = ALL /\ a.catalog = "" /\ a.table = ""
      /\ p.types <=> a.type = {ALL} /\ a.catalog = "" /\ a.schema = "" /\ a.table = ""
      /\ p.noNull = TablesNoNull(p.catalogs, p.schemas, p.types)
  BY NewTablesFields
<1>3. p.types => ~p.catalogs /\ ~p.schemas
  BY <1>2 DEF ALL
<1>4. p.catalogs \in BOOLEAN /\ p.schemas \in BOOLEAN /\ p.types \in BOOLEAN
  BY <1>2 DEF IsQuery
<1>5. /\ p.noNull \subseteq {"TABLE_CAT", "TABLE_SCHEM", "TABLE_NAME", "TABLE_TYPE"}
      /\ p.types => p.noNull = {"TABLE_TYPE"}
  BY <1>2, <1>3, <1>4 DEF TablesNoNull
<1>6. p.meta \in Seq(TableRows)
  <2>1. p.meta = <<>>
    BY <1>2
  <2> QED BY <2>1
<1>7. metadataID => ~p.catalogs /\ ~p.schemas
  BY <1>2
<1>8. QueryOK(p)
  BY <1>1, <1>2, <1>5, <1>6 DEF QueryOK
<1> QED BY <1>2, <1>7, <1>8

\* The query that SQLColumns makes.
LEMMA NewColumnsIs ==
    ASSUME NEW a \in ColumnCalls, env \in BOOLEAN, metadataID \in BOOLEAN,
           NEW p, p = NewColumnsQuery(a)
    PROVE  /\ QueryOK(p) /\ p.fn = "columns" /\ p.arg = a /\ p.meta = <<>> /\ HomeOK(p)
           /\ a.table # "" => Plain(p)
<1> DEFINE b == [catalog |-> a.catalog, schema |-> a.schema, table |-> a.table,
                 type |-> NULL]
           h == IF env THEN "TABLE_SCHEM" ELSE "TABLE_CAT"
           u == NewTablesQuery(b)
<1>1. a \in ColumnArgs
  BY CallsAssumption DEF ColumnArgs, Text, Str
<1>2. p = [u EXCEPT !.fn = "columns", !.arg = a, !.noNull = ColumnsNoNull, !.home = h]
  BY DEF NewColumnsQuery
<1>3. /\ IsQuery(u) /\ u.meta = <<>>
      /\ u.catalogs <=> ~metadataID /\ b.catalog = ALL /\ b.schema = "" /\ b.table = ""
      /\ u.schemas <=> ~metadataID /\ b.schema = ALL /\ b.catalog = "" /\ b.table = ""
      /\ u.types <=> b.type = {ALL} /\ b.catalog = "" /\ b.schema = "" /\ b.table = ""
  <2> HIDE DEF b
  <2> QED BY NewTablesFields
<1>4. b.table = a.table
  OBVIOUS
<1>5. a.table # "" => ~u.catalogs /\ ~u.schemas /\ ~u.types
  BY <1>3, <1>4
<1>6. h \in {"TABLE_SCHEM", "TABLE_CAT"}
  OBVIOUS
<1> HIDE DEF u, b, h
<1>7. /\ p.fn = "columns" /\ p.arg = a /\ p.noNull = ColumnsNoNull /\ p.home = h
      /\ p.meta = <<>> /\ p.catalogs = u.catalogs /\ p.schemas = u.schemas
      /\ p.types = u.types /\ p.ret = u.ret /\ p.executed = u.executed
  BY <1>2, <1>3 DEF IsQuery
<1>8. IsQuery(p)
  BY <1>2, <1>3, <1>6, Zenon DEF IsQuery
<1>9. p.meta \in Seq(ColumnRows)
  BY <1>7
<1>10. QueryOK(p)
  BY <1>1, <1>6, <1>7, <1>8, <1>9 DEF QueryOK
<1>11. a.table # "" => Plain(p)
  BY <1>5, <1>7 DEF Plain
<1>12. HomeOK(p)
  BY <1>7 DEF HomeOK, h
<1> QED BY <1>7, <1>10, <1>11, <1>12

-----------------------------------------------------------------------------
(* The actions *)

\* A step of a call leaves the rest of the state alone.
LEMMA KeptGood ==
    ASSUME CatalogInv, Kept, calm' \in BOOLEAN, GoodNow
    PROVE  CatalogInv'
BY DEF CatalogInv, Kept, GoodNow, Good, CallOK, PlaceOK, MatchOK, CoverOK

\* SQLTables keeps the invariant.
LEMMA TablesStep ==
    ASSUME CatalogInv, SQLTables
    PROVE  CatalogInv'
<1>1. Kept /\ calm' /\ calm' \in BOOLEAN /\ Flags
  BY DEF CatalogInv, SQLTables, Kept, Flags
<1>2. PICK a \in TableCalls : Becomes(MakeRequestGetTablesMeta(NewTablesQuery(a), a))
  BY DEF SQLTables
<1> DEFINE p == NewTablesQuery(a)
<1>3. /\ QueryOK(p) /\ p.fn = "tables" /\ p.arg = a /\ p.meta = <<>>
      /\ metadataID => ~p.catalogs /\ ~p.schemas
  BY NewTablesIs DEF CatalogInv
<1>4. Becomes(MakeRequestGetTablesMeta(p, a))
  BY <1>2
<1> HIDE DEF p
<1>5. HomeOK(p)
  BY <1>3 DEF HomeOK
<1>6. CASE p.types
  <2> DEFINE p2 == [p EXCEPT !.meta = <<TypeOnly>>]
  <2>1. Becomes(Return(p2, "AI_SUCCESS", FALSE))
    BY <1>4, <1>6 DEF MakeRequestGetTablesMeta
  <2>2. /\ IsQuery(p2) /\ p2.meta = <<TypeOnly>> /\ p2.ret = p.ret
        /\ p2.fn = p.fn /\ p2.arg = p.arg /\ p2.catalogs = p.catalogs
        /\ p2.schemas = p.schemas /\ p2.types = p.types /\ p2.noNull = p.noNull
        /\ p2.home = p.home
    <3>1. IsQuery(p)
      BY <1>3 DEF QueryOK
    <3> QED BY <3>1, MetaFields
  <2> HIDE DEF p2
  <2>3. QueryOK(p2)
    BY <1>3, <1>6, <2>2 DEF QueryOK
  <2>4. \A i \in DOMAIN p2.meta : p2.meta[i] = TypeOnly
    BY <2>2
  <2>5. PlaceOK(env, p2, Idle)
    BY <1>3, <2>2, <2>4, IdleIsJob DEF PlaceOK
  <2>6. ~Plain(p2) /\ p2.fn = "tables"
    BY <1>3, <1>6, <2>2 DEF Plain
  <2>7. GoodNow
    BY <1>1, <2>1, <2>3, <2>5, <2>6, GoodReturn
  <2> QED BY <1>1, <2>7, KeptGood
<1>7. CASE ~p.types /\ ValidTableType(a.type)
  <2>1. Becomes(GetTables(p, p.arg))
    BY <1>3, <1>4, <1>7 DEF MakeRequestGetTablesMeta
  <2>2. GoodNow
    BY <1>1, <1>3, <1>5, <1>7, <2>1, GoodGetTables
  <2> QED BY <1>1, <2>2, KeptGood
<1>8. CASE ~p.types /\ ~ValidTableType(a.type)
  <2>1. Becomes(Return(p, "AI_SUCCESS_WITH_INFO", TRUE))
    BY <1>4, <1>8 DEF MakeRequestGetTablesMeta
  <2>2. Expected(env, metadataID, p.arg) = {}
    BY <1>3, <1>8 DEF Expected
  <2>3. GoodNow
    BY <1>1, <1>3, <1>5, <2>1, <2>2, GoodWarning
  <2> QED BY <1>1, <2>3, KeptGood
<1> QED BY <1>6, <1>7, <1>8

\* A call that is refused leaves the query as it was, and a record.
LEMMA Refused ==
    ASSUME CatalogInv, Kept, q' = q, job' = job, calm' = calm, recorded' = TRUE
    PROVE  CatalogInv'
<1>1. CoverOK(env, metadataID, q, job, recorded) => CoverOK(env, metadataID, q, job, TRUE)
  BY DEF CoverOK
<1>2. Good(env, metadataID, changes, q, job, recorded, calm)
  BY DEF CatalogInv
<1>3. Good(env, metadataID, changes, q, job, TRUE, calm)
  BY <1>1, <1>2 DEF Good
<1>4. GoodNow /\ calm' \in BOOLEAN
  BY <1>3 DEF GoodNow, CatalogInv
<1> QED BY <1>4, KeptGood

\* An empty sequence has no positions.
LEMMA NoRows ==
    ASSUME NEW s, s = <<>>
    PROVE  DOMAIN s = {}
OBVIOUS

\* A sequence that is not empty has a first element.
LEMMA FirstOf ==
    ASSUME NEW R, NEW s \in Seq(R), s # <<>>
    PROVE  1 \in DOMAIN s
OBVIOUS

\* A sequence of one element.
LEMMA OneOf ==
    ASSUME NEW R, NEW r \in R, NEW s, s = <<r>>
    PROVE  s \in Seq(R) /\ s # <<>> /\ DOMAIN s = {1} /\ s[1] = r
OBVIOUS

\* The fields of the job of a column query.
LEMMA DescribeFields ==
    ASSUME NEW mode \in {"identifier", "pattern"}, NEW todo, NEW j,
           j = Waiting("describe", mode, NULL, todo, <<>>)
    PROVE  IsJob(j) /\ j.step = "describe" /\ j.todo = todo
BY DEF Waiting, IsJob, Text

\* SQLColumns by identifiers describes the one table they name.
LEMMA GoodIdentifier ==
    ASSUME NEW p, QueryOK(p), p.fn = "columns", p.meta = <<>>, HomeOK(p), calm', metadataID,
           NEW db \in Str, db # "", NEW table \in Str,
           Becomes(Wait(p, Waiting("describe", "identifier", NULL,
                                   <<[db |-> db, table |-> table]>>, <<>>), FALSE))
    PROVE  GoodNow
<1> DEFINE todo == <<[db |-> db, table |-> table]>>
           j == Waiting("describe", "identifier", NULL, todo, <<>>)
<1>1. [db |-> db, table |-> table] \in Places
  BY DEF Places
<1>2. todo \in Seq(Places) /\ todo # <<>> /\ \A i \in DOMAIN todo : todo[i].db = db
  <2> DEFINE r == [db |-> db, table |-> table]
  <2>1. r.db = db /\ r \in Places /\ todo = <<r>>
    BY <1>1
  <2> HIDE DEF r, todo
  <2>2. todo \in Seq(Places) /\ todo # <<>> /\ DOMAIN todo = {1} /\ todo[1] = r
    BY <2>1, OneOf
  <2> QED BY <2>1, <2>2
<1>3. Becomes(Wait(p, j, FALSE))
  OBVIOUS
<1> HIDE DEF todo
<1>4. IsJob(j) /\ j.step = "describe" /\ j.todo = todo
  BY DescribeFields
<1> HIDE DEF j
<1>5. JobOK(p, j)
  BY <1>2, <1>4 DEF JobOK
<1>6. DOMAIN p.meta = {}
  BY NoRows
<1>7. PlaceOK(env, p, j)
  BY <1>2, <1>4, <1>6 DEF PlaceOK, HomeOK
<1>8. MatchOK(env, metadataID, p, j) /\ CoverOK(env, metadataID, p, j, recorded')
  BY <1>4 DEF MatchOK, CoverOK
<1>9. j.step # "idle"
  BY <1>4
<1> QED BY <1>3, <1>5, <1>7, <1>8, <1>9, GoodWait

\* SQLColumns keeps the invariant.
LEMMA ColumnsStep ==
    ASSUME CatalogInv, SQLColumns
    PROVE  CatalogInv'
<1>1. Kept
  BY DEF SQLColumns, Kept
<1>2. PICK a \in ColumnCalls :
          IF a.catalog = "" /\ a.schema = ""
          THEN /\ ret' = "AI_SUCCESS_WITH_INFO" /\ recorded' = TRUE
               /\ UNCHANGED <<q, job, calm>>
          ELSE /\ Becomes(ExecuteColumns(NewColumnsQuery(a), a))
               /\ calm' = TRUE
  BY DEF SQLColumns
<1>3. CASE a.catalog = "" /\ a.schema = ""
  <2>1. q' = q /\ job' = job /\ calm' = calm /\ recorded' = TRUE
    BY <1>2, <1>3
  <2> QED BY <1>1, <2>1, Refused
<1>4. CASE ~(a.catalog = "" /\ a.schema = "")
  <2> DEFINE p == NewColumnsQuery(a)
  <2>1. Becomes(ExecuteColumns(p, a)) /\ calm'
    BY <1>2, <1>4
  <2>2. calm' \in BOOLEAN /\ Flags
    BY <1>2, <1>4 DEF Flags, CatalogInv
  <2>3. /\ QueryOK(p) /\ p.fn = "columns" /\ p.arg = a /\ p.meta = <<>> /\ HomeOK(p)
        /\ a.table # "" => Plain(p)
    BY NewColumnsIs DEF CatalogInv
  <2> HIDE DEF p
  <2>4. a \in ColumnArgs
    BY <2>3 DEF QueryOK
  <2>5. MainOf(env, a) \in Text /\ a.table \in Text
    BY <2>2, <2>4 DEF ColumnArgs, MainOf, Flags
  <2> SUFFICES GoodNow
    BY <1>1, <2>2, KeptGood
  <2> DEFINE misplaced == OtherOf(env, a) \notin Placeless
             missing   == metadataID /\ NULL \in {MainOf(env, a), a.table, a.column}
             empty     == MainOf(env, a) = "" \/ a.table = ""
  <2>6. ExecuteColumns(p, a) =
          CASE misplaced -> Return(p, "AI_SUCCESS_WITH_INFO", TRUE)
            [] ~misplaced /\ missing -> Return(p, "AI_ERROR", TRUE)
            [] ~misplaced /\ empty /\ ~missing -> Return(p, "AI_SUCCESS_WITH_INFO", TRUE)
            [] OTHER -> IF metadataID
                        THEN Wait(p, Waiting("describe", "identifier", NULL,
                                    <<[db |-> MainOf(env, a), table |-> a.table]>>, <<>>),
                                  FALSE)
                        ELSE GetTables(p, a)
    BY DEF ExecuteColumns, Main, Other, MainOf, OtherOf, Placeless
  <2>7. CASE misplaced \/ missing \/ empty
    <3>1. PICK r : ExecuteColumns(p, a) = Return(p, r, TRUE)
      <4> HIDE DEF misplaced, missing, empty
      <4> QED BY <2>6, <2>7
    <3>2. Becomes(Return(p, r, TRUE))
      BY <2>1, <3>1
    <3> QED BY <2>3, <3>2, GoodWarning
  <2>8. CASE ~misplaced /\ ~missing /\ ~empty /\ metadataID
    <3>1. Becomes(Wait(p, Waiting("describe", "identifier", NULL,
                           <<[db |-> MainOf(env, a), table |-> a.table]>>, <<>>), FALSE))
      <4> HIDE DEF misplaced, missing, empty
      <4> QED BY <2>1, <2>6, <2>8
    <3>2. MainOf(env, a) \in Str /\ MainOf(env, a) # "" /\ a.table \in Str
      BY <2>5, <2>8 DEF Text
    <3> QED BY <2>1, <2>3, <2>8, <3>1, <3>2, GoodIdentifier
  <2>9. CASE ~misplaced /\ ~missing /\ ~empty /\ ~metadataID
    <3>1. Becomes(GetTables(p, p.arg))
      <4> HIDE DEF misplaced, missing, empty
      <4> QED BY <2>1, <2>3, <2>6, <2>9
    <3>2. Plain(p)
      BY <2>3, <2>9
    <3> QED BY <2>1, <2>2, <2>3, <2>9, <3>1, <3>2, GoodGetTables
  <2> QED BY <2>7, <2>8, <2>9
<1> QED BY <1>3, <1>4

-----------------------------------------------------------------------------
(* Replies *)

\* A list without repetition.
Distinct(s) == \A i, j \in DOMAIN s : s[i] = s[j] => i = j

\* The elements of a list that a request with a pattern asks for.
Hits(s, pattern) == {e \in Range(s) : Like(pattern, e.name)}

\* The names in the reply to a SHOW request: some of those that match, each once;
\* all of them when the reply is whole.
LEMMA Shown ==
    ASSUME NEW R, NEW s \in Seq(R), \A r \in R : r.name \in STRING,
           \A i, j \in DOMAIN s : s[i].name = s[j].name => i = j,
           NEW pattern, NEW x \in Replies(Listed(s, pattern))
    PROVE  /\ x.r \in {"AI_ERROR", "AI_NO_DATA", "AI_SUCCESS"} /\ x.whole \in BOOLEAN
           /\ Named(x.rows) \in Seq(STRING)
           /\ \A n \in Range(Named(x.rows)) : \E e \in Hits(s, pattern) : n = e.name
           /\ Distinct(Named(x.rows))
           /\ x.whole => \A e \in Hits(s, pattern) : e.name \in Range(Named(x.rows))
           /\ x.r = "AI_ERROR" => ~x.whole
           /\ x.r = "AI_NO_DATA" => Hits(s, pattern) = {}
           /\ x.r # "AI_SUCCESS" => Named(x.rows) = <<>>
           /\ x.r = "AI_SUCCESS" /\ x.whole => Named(x.rows) # <<>>
<1> DEFINE L == Listed(s, pattern)
           hits == Hits(s, pattern)
           names == Named(x.rows)
<1>1. hits \subseteq Range(s)
  BY DEF Hits
<1>2. L = Keep(s, hits)
  BY DEF Listed, Hits
<1>3. L \in Seq(R) /\ Range(L) = {e \in Range(s) : e \in hits}
      /\ (L = <<>> <=> Range(s) \cap hits = {})
  BY <1>2, KeepRange
<1>4. Range(L) = hits /\ (L = <<>> <=> hits = {})
  <2> HIDE DEF L
  <2> QED BY <1>1, <1>3
<1>5. \A i, j \in DOMAIN L : L[i].name = L[j].name => i = j
  BY <1>2, KeepDistinct
<1> HIDE DEF L, hits
<1>6. x \in Replies(L)
  BY DEF L
<1>7. /\ x.r \in {"AI_ERROR", "AI_NO_DATA", "AI_SUCCESS"} /\ x.whole \in BOOLEAN
      /\ x.rows \in Seq(R)
      /\ \A i \in DOMAIN x.rows : i \in DOMAIN L /\ x.rows[i] = L[i]
      /\ x.whole => x.rows = L
      /\ x.r = "AI_ERROR" => ~x.whole
      /\ x.r = "AI_NO_DATA" => L = <<>>
      /\ x.r = "AI_SUCCESS" => L # <<>>
      /\ x.r # "AI_SUCCESS" => x.rows = <<>>
  BY <1>3, <1>6, ReplyIs
<1>8. /\ names \in Seq(STRING) /\ DOMAIN names = DOMAIN x.rows
      /\ \A i \in DOMAIN x.rows : names[i] = x.rows[i].name
      /\ Range(names) = {r.name : r \in Range(x.rows)}
      /\ names = <<>> <=> x.rows = <<>>
  <2>1. x.rows \in Seq(R)
    BY <1>7
  <2> QED BY <2>1, NamedIs
<1> HIDE DEF names
<1>9. Range(x.rows) \subseteq hits
  <2>1. \A i \in DOMAIN x.rows : i \in DOMAIN L /\ x.rows[i] = L[i]
    BY <1>7
  <2> QED BY <1>4, <2>1 DEF Range
<1>10. \A n \in Range(names) : \E e \in hits : n = e.name
  BY <1>8, <1>9
<1>11. x.whole => \A e \in hits : e.name \in Range(names)
  BY <1>4, <1>7, <1>8
<1>12. Distinct(names)
  <2>1. \A i \in DOMAIN x.rows : i \in DOMAIN L /\ x.rows[i] = L[i]
    BY <1>7
  <2> QED BY <1>5, <1>8, <2>1 DEF Distinct
<1> QED BY <1>4, <1>7, <1>8, <1>10, <1>11, <1>12 DEF names, hits

\* The names of the reply that differ from n in case only.
LEMMA SameUpperIs ==
    ASSUME NEW names \in Seq(STRING), NEW n
    PROVE  /\ SameUpper(names, n) \in Seq(STRING)
           /\ \A m : m \in Range(SameUpper(names, n)) <=> m \in Range(names) /\ Upper[m] = Upper[n]
           /\ SameUpper(names, n) = <<>> <=> \A m \in Range(names) : Upper[m] # Upper[n]
           /\ Distinct(names) => Distinct(SameUpper(names, n))
<1> DEFINE same == SameUpper(names, n)
           T == {m \in Range(names) : Upper[m] = Upper[n]}
<1>1. same = Keep(names, T)
  BY DEF SameUpper
<1> HIDE DEF same
<1>2. same \in Seq(STRING) /\ Range(same) = {e \in Range(names) : e \in T}
      /\ (same = <<>> <=> Range(names) \cap T = {})
  BY <1>1, KeepRange
<1>3. Distinct(names) => Distinct(same)
  BY <1>1, KeepDistinct DEF Distinct
<1>4. Range(same) = T /\ (same = <<>> <=> T = {})
  BY <1>2
<1> QED BY <1>2, <1>3, <1>4 DEF same

\* A row that the driver makes for a table.
LEMMA TableRowIs ==
    ASSUME env \in BOOLEAN, NEW db \in DatabaseNames, NEW table \in Str,
           NEW r, r = TableRow(db, table)
    PROVE  /\ r \in TableRows /\ PlacedTable(env, r)
           /\ DatabaseOf(r) = db /\ r.TABLE_NAME = table
<1>1. db \in Str /\ "" \in Str /\ db # "" /\ db # NULL
  BY ServerIs DEF Str, Literals
<1>2. /\ r.TABLE_CAT = (IF env THEN "" ELSE db) /\ r.TABLE_SCHEM = (IF env THEN db ELSE "")
      /\ r.TABLE_NAME = table
  BY DEF TableRow
<1>3. r \in TableRows
  BY <1>1 DEF TableRow, TableRows
<1>4. PlacedTable(env, r)
  BY <1>2 DEF PlacedTable
<1> QED BY <1>1, <1>2, <1>3, <1>4 DEF DatabaseOf

\* What an invariant state says of a call that waits for databases or tables.
LEMMA Gathering ==
    ASSUME CatalogInv, job.step \in {"databases", "tables"}
    PROVE  /\ QueryOK(q) /\ q.fn \in {"tables", "columns"} /\ q.meta = <<>>
           /\ IsJob(job) /\ job.mode \in {"all", "identifier", "pattern"}
           /\ q.fn = "columns" => job.mode = "pattern"
           /\ calm \/ changes = 0 => HomeOK(q)
           /\ calm => Asks(env, metadataID, q, job)
           /\ changes = 0 /\ ~recorded => calm
BY DEF CatalogInv, Good, CallOK, JobOK, PlaceOK, MatchOK, HomeOK, IsJob

\* A reply that is not whole, or brings nothing, is recorded.
LEMMA LossKept ==
    ASSUME NEW x, x.whole \in BOOLEAN, calm \in BOOLEAN, calm' = (calm /\ x.whole),
           changes = 0 /\ ~recorded => calm
    PROVE  /\ changes = 0 /\ ~Recorded(x) => calm'
           /\ SettledNow => calm \/ changes = 0
           /\ calm' => calm /\ x.whole
           /\ calm' \in BOOLEAN
BY DEF Recorded, SettledNow

\* How many databases a request that lists them asks for.
LEMMA DatabasesAsked ==
    ASSUME NEW m \in BOOLEAN, NEW e, NEW a, NEW mode \in {"identifier", "pattern"},
           mode = "identifier" <=> m, NEW db, db = MainOf(e, a), NEW hits,
           hits = {d \in Range(Server) :
                     Like(IF mode = "pattern" THEN OrAll(db) ELSE ALL, d.name)}
    PROVE  /\ mode = "pattern" => hits = DatabasesFor(e, m, a)
           /\ mode = "identifier" => hits = Range(Server)
           /\ DatabasesFor(e, m, a) \subseteq hits
<1>1. CASE mode = "pattern"
  BY <1>1 DEF DatabasesFor, SameName
<1>2. CASE mode = "identifier"
  <2>1. hits = Range(Server)
    BY <1>2 DEF Like
  <2> QED BY <1>2, <2>1 DEF DatabasesFor
<1> QED BY <1>1, <1>2

\* Without a database there is nothing to expect.
LEMMA NoDatabase ==
    ASSUME NEW e, NEW m, NEW a, DatabasesFor(e, m, a) = {}
    PROVE  Expected(e, m, a) = {} /\ MatchingFor(e, m, a) = {}
BY DEF Expected, MatchingFor

\* No rows, no pairs.
LEMMA NoPairs ==
    ASSUME NEW rows, rows = <<>>
    PROVE  Pairs(rows) = {} /\ Apart(rows) /\ DOMAIN rows = {} /\ Range(rows) = {}
BY NoRows DEF Pairs, Apart, Range

\* The databases are known: their tables are asked for, one after the other.
LEMMA GoodTables ==
    ASSUME CatalogInv, job.step = "databases", Flags,
           NEW dbs \in Seq(DatabaseNames), dbs # <<>>, job.mode # "all", NEW rec,
           Becomes(Wait(q, Waiting("tables", job.mode, job.db, dbs, <<>>), rec)),
           SettledNow => calm \/ changes = 0,
           changes = 0 /\ ~recorded' => calm', calm' => calm,
           calm' /\ (~metadataID \/ NamesApart) =>
              /\ Range(dbs) = {d.name : d \in DatabasesFor(env, metadataID, q.arg)}
              /\ \A i, k \in DOMAIN dbs : dbs[i] = dbs[k] => i = k
    PROVE  GoodNow
<1> DEFINE j == Waiting("tables", job.mode, job.db, dbs, <<>>)
<1>1. /\ QueryOK(q) /\ q.fn \in {"tables", "columns"} /\ q.meta = <<>>
      /\ IsJob(job) /\ job.mode \in {"all", "identifier", "pattern"}
      /\ q.fn = "columns" => job.mode = "pattern"
      /\ calm \/ changes = 0 => HomeOK(q)
      /\ calm => Asks(env, metadataID, q, job)
  BY Gathering
<1>2. job.db \in Text
  BY <1>1 DEF IsJob
<1>3. /\ IsJob(j) /\ j.step = "tables" /\ j.mode = job.mode /\ j.db = job.db
      /\ j.todo = dbs /\ j.tables = <<>>
  BY <1>1, <1>2 DEF Waiting, IsJob
<1>4. Becomes(Wait(q, j, rec))
  OBVIOUS
<1> HIDE DEF j
<1>5. JobOK(q, j)
  BY <1>1, <1>3 DEF JobOK
<1>6. Pairs(j.tables) = {} /\ Apart(j.tables) /\ DOMAIN j.tables = {} /\ DOMAIN q.meta = {}
  BY <1>1, <1>3, NoPairs
<1>7. SettledNow => PlaceOK(env, q, j)
  BY <1>1, <1>3, <1>6 DEF PlaceOK, HomeOK
<1>8. calm' => Asks(env, metadataID, q, j)
  BY <1>1, <1>3 DEF Asks
<1>9. calm' /\ (~metadataID \/ NamesApart) => Gathered(env, metadataID, q.arg, j)
  <2> SUFFICES ASSUME calm', ~metadataID \/ NamesApart
               PROVE  Gathered(env, metadataID, q.arg, j)
    OBVIOUS
  <2> DEFINE for == DatabasesFor(env, metadataID, q.arg)
  <2>1. Range(j.todo) = {d.name : d \in for}
        /\ \A i, k \in DOMAIN j.todo : j.todo[i] = j.todo[k] => i = k
    BY <1>3
  <2>2. {b \in for : b.name \notin Range(j.todo)} = {}
    BY <2>1
  <2> QED BY <1>6, <2>1, <2>2 DEF Gathered
<1>10. calm' => MatchOK(env, metadataID, q, j)
  BY <1>3, <1>8, <1>9 DEF MatchOK
<1>11. CoverOK(env, metadataID, q, j, recorded')
  BY <1>3 DEF CoverOK
<1>12. j.step # "idle"
  BY <1>3
<1> QED BY <1>1, <1>4, <1>5, <1>7, <1>10, <1>11, <1>12, GoodWait

\* The reply to the request for the databases keeps the invariant.
LEMMA ShowDatabasesStep ==
    ASSUME CatalogInv, ShowDatabases
    PROVE  CatalogInv'
<1> DEFINE pattern == IF job.mode = "pattern" THEN OrAll(job.db) ELSE ALL
           hits == Hits(Server, pattern)
           for  == DatabasesFor(env, metadataID, q.arg)
<1>1. PICK x \in Replies(Listed(Server, pattern)) :
          Becomes(DatabasesKnown(x)) /\ calm' = (calm /\ x.whole)
  BY DEF ShowDatabases
<1>2. job.step = "databases" /\ Kept
  BY DEF ShowDatabases, Kept
<1> DEFINE names == Named(x.rows)
<1>3. /\ x.r \in {"AI_ERROR", "AI_NO_DATA", "AI_SUCCESS"} /\ x.whole \in BOOLEAN
      /\ names \in Seq(STRING) /\ \A n \in Range(names) : \E e \in hits : n = e.name
      /\ Distinct(names)
      /\ x.whole => \A e \in hits : e.name \in Range(names)
      /\ x.r = "AI_NO_DATA" => hits = {}
      /\ x.r = "AI_SUCCESS" /\ x.whole => names # <<>>
  <2>1. Server \in Seq(Databases)
        /\ \A i, j \in DOMAIN Server : Server[i].name = Server[j].name => i = j
    BY ServerIs
  <2>2. \A r \in Databases : r.name \in STRING
    BY DEF Databases
  <2> HIDE DEF pattern
  <2>3. x.r \in {"AI_ERROR", "AI_NO_DATA", "AI_SUCCESS"} /\ x.whole \in BOOLEAN
    BY <1>1, <2>1, <2>2, Shown
  <2>4. names \in Seq(STRING)
    BY <1>1, <2>1, <2>2, Shown
  <2>5. \A n \in Range(names) : \E e \in hits : n = e.name
    BY <1>1, <2>1, <2>2, Shown
  <2>6. Distinct(names)
    BY <1>1, <2>1, <2>2, Shown
  <2>7. x.whole => \A e \in hits : e.name \in Range(names)
    BY <1>1, <2>1, <2>2, Shown
  <2>8. (x.r = "AI_NO_DATA" => hits = {}) /\ (x.r = "AI_SUCCESS" /\ x.whole => names # <<>>)
    BY <1>1, <2>1, <2>2, Shown
  <2> HIDE DEF hits, names
  <2> QED BY <2>3, <2>4, <2>5, <2>6, <2>7, <2>8
<1>4. /\ QueryOK(q) /\ q.fn \in {"tables", "columns"} /\ q.meta = <<>>
      /\ IsJob(job) /\ job.mode \in {"all", "identifier", "pattern"}
      /\ q.fn = "columns" => job.mode = "pattern"
      /\ calm \/ changes = 0 => HomeOK(q)
      /\ calm => Asks(env, metadataID, q, job)
      /\ changes = 0 /\ ~recorded => calm
  BY <1>2, Gathering
<1>5. calm \in BOOLEAN /\ env \in BOOLEAN /\ metadataID \in BOOLEAN
  BY DEF CatalogInv
<1>6. /\ changes = 0 /\ ~Recorded(x) => calm'
      /\ SettledNow => calm \/ changes = 0
      /\ calm' => calm /\ x.whole
      /\ calm' \in BOOLEAN
  BY <1>1, <1>3, <1>4, <1>5, LossKept
<1>7. Flags
  BY <1>5, <1>6 DEF Flags, CatalogInv
<1> SUFFICES GoodNow
  BY <1>2, <1>6, KeptGood
<1>8. calm' /\ job.mode # "all" =>
        /\ metadataID <=> job.mode = "identifier"
        /\ job.mode = "pattern" => hits = for
        /\ job.mode = "identifier" => hits = Range(Server)
        /\ for \subseteq hits
  <2> SUFFICES ASSUME calm', job.mode # "all"
               PROVE  /\ metadataID <=> job.mode = "identifier"
                      /\ job.mode = "pattern" => hits = for
                      /\ job.mode = "identifier" => hits = Range(Server)
                      /\ for \subseteq hits
    OBVIOUS
  <2>1. (job.mode = "identifier" <=> metadataID) /\ job.db = MainOf(env, q.arg)
    BY <1>4, <1>6 DEF Asks
  <2>2. job.mode \in {"identifier", "pattern"}
    BY <1>4
  <2>3. hits = {d \in Range(Server) :
                 Like(IF job.mode = "pattern" THEN OrAll(job.db) ELSE ALL, d.name)}
    BY DEF Hits
  <2> HIDE DEF hits
  <2>4. /\ job.mode = "pattern" => hits = DatabasesFor(env, metadataID, q.arg)
        /\ job.mode = "identifier" => hits = Range(Server)
        /\ DatabasesFor(env, metadataID, q.arg) \subseteq hits
    BY <1>5, <2>1, <2>2, <2>3, DatabasesAsked
  <2> QED BY <2>1, <2>4
<1>9. calm' /\ job.mode = "all" => ~Plain(q)
  BY <1>4, <1>6 DEF Asks
<1>10. Range(names) \subseteq DatabaseNames
  <2>1. \A e \in hits : e.name \in DatabaseNames
    <3>1. \A e \in Range(Server) : e.name \in DatabaseNames
      BY ServerIs
    <3> QED BY <3>1 DEF Hits
  <2> HIDE DEF hits, names
  <2> QED BY <1>3, <2>1
<1> HIDE DEF pattern, hits, for, names
<1>11. names \in Seq(DatabaseNames)
  <2>1. \A i \in DOMAIN names : names[i] \in DatabaseNames
    BY <1>10 DEF Range
  <2> QED BY <1>3, <2>1
<1> DEFINE same == SameUpper(names, job.db)
           known == Waiting("tables", job.mode, job.db, names, <<>>)
           one == Waiting("tables", job.mode, job.db, <<same[1]>>, <<>>)
           rows == [i \in DOMAIN names |-> TableRow(names[i], "")]
<1>12. DatabasesKnown(x) =
         CASE x.r = "AI_ERROR"   -> TablesDone(q, "AI_ERROR", <<>>, TRUE)
           [] x.r = "AI_NO_DATA" -> TablesDone(q, "AI_SUCCESS_WITH_INFO", <<>>, TRUE)
           [] x.r = "AI_SUCCESS" /\ job.mode = "all" ->
                 TablesDone(q, "AI_SUCCESS", rows, Recorded(x))
           [] x.r = "AI_SUCCESS" /\ job.mode = "identifier" /\ same # <<>> ->
                 Wait(q, one, Recorded(x))
           [] x.r = "AI_SUCCESS" /\ job.mode = "pattern" /\ names # <<>>   ->
                 Wait(q, known, Recorded(x))
           [] OTHER -> TablesDone(q, "AI_SUCCESS_WITH_INFO", <<>>, TRUE)
  BY DEF DatabasesKnown, names
<1>13. /\ same \in Seq(STRING)
       /\ \A m : m \in Range(same) <=> m \in Range(names) /\ Upper[m] = Upper[job.db]
       /\ same = <<>> => \A m \in Range(names) : Upper[m] # Upper[job.db]
  <2>1. names \in Seq(STRING)
    BY <1>3
  <2>2. same \in Seq(STRING)
    BY <2>1, SameUpperIs
  <2>3. \A m : m \in Range(same) <=> m \in Range(names) /\ Upper[m] = Upper[job.db]
    BY <2>1, SameUpperIs
  <2> HIDE DEF same
  <2>4. same = <<>> => Range(same) = {}
    BY NoPairs
  <2> QED BY <2>2, <2>3, <2>4
<1> HIDE DEF same, known, one, rows
<1>14. ASSUME NEW r \in {"AI_ERROR", "AI_SUCCESS_WITH_INFO"},
              Becomes(TablesDone(q, r, <<>>, TRUE)),
              calm' /\ r \in Succeeded /\ Plain(q) => for = {}
       PROVE  GoodNow
  <2>1. DOMAIN <<>> = {} /\ Pairs(<<>>) = {} /\ Apart(<<>>) /\ <<>> \in Seq(TableRows)
    BY NoPairs
  <2>2. calm' /\ r \in Succeeded /\ Plain(q) => Expected(env, metadataID, q.arg) = {}
    BY <1>14, NoDatabase DEF for
  <2>3. r # "AI_SUCCESS" /\ r \in {"AI_ERROR", "AI_SUCCESS", "AI_SUCCESS_WITH_INFO"}
    BY <1>14
  <2>4. recorded' = TRUE
    BY <1>4, <1>14, <2>3 DEF Becomes, TablesDone, Return
  <2> QED BY <1>4, <1>5, <1>6, <1>14, <2>1, <2>2, <2>3, <2>4, GoodTablesDone
<1>15. CASE x.r = "AI_ERROR"
  <2>1. Becomes(TablesDone(q, "AI_ERROR", <<>>, TRUE))
    BY <1>1, <1>12, <1>15
  <2>2. "AI_ERROR" \notin Succeeded
    BY DEF Succeeded
  <2> QED BY <1>14, <2>1, <2>2
<1>16. CASE x.r = "AI_NO_DATA"
  <2>1. Becomes(TablesDone(q, "AI_SUCCESS_WITH_INFO", <<>>, TRUE))
    BY <1>1, <1>12, <1>16
  <2>2. calm' /\ Plain(q) => for = {}
    BY <1>3, <1>8, <1>9, <1>16
  <2> QED BY <1>14, <2>1, <2>2
<1>17. CASE x.r = "AI_SUCCESS" /\ job.mode = "all"
  <2>1. Becomes(TablesDone(q, "AI_SUCCESS", rows, Recorded(x)))
    BY <1>1, <1>12, <1>17
  <2>2. \A i \in DOMAIN names : TableRow(names[i], "") \in TableRows
                                /\ PlacedTable(env, TableRow(names[i], ""))
    <3>1. "" \in Str
      BY DEF Str, Literals
    <3>2. \A i \in DOMAIN names : names[i] \in DatabaseNames
      BY <1>11
    <3> QED BY <1>5, <3>1, <3>2, TableRowIs
  <2>3. DOMAIN rows = DOMAIN names /\ \A i \in DOMAIN names : rows[i] = TableRow(names[i], "")
    BY DEF rows
  <2>4. rows \in Seq(TableRows)
    <3>1. DOMAIN names = 1 .. Len(names) /\ Len(names) \in Nat
      BY <1>11
    <3>2. \A i \in 1 .. Len(names) : rows[i] \in TableRows
      BY <2>2, <2>3, <3>1
    <3>3. rows \in [1 .. Len(names) -> TableRows]
      BY <2>3, <3>1, <3>2 DEF rows
    <3> QED BY <3>1, <3>3
  <2>5. \A i \in DOMAIN rows : PlacedTable(env, rows[i])
    BY <2>2, <2>3
  <2>6. recorded' = Recorded(x)
    BY <1>4, <1>17, <2>1 DEF Becomes, TablesDone, Return
  <2>7. q.fn # "columns" /\ (calm' => ~Plain(q))
    BY <1>4, <1>9, <1>17
  <2> QED BY <1>4, <1>5, <1>6, <2>1, <2>4, <2>5, <2>6, <2>7, GoodTablesDone
<1>18. CASE x.r = "AI_SUCCESS" /\ job.mode = "identifier" /\ same # <<>>
  <2>1. Becomes(Wait(q, one, Recorded(x)))
    BY <1>1, <1>12, <1>18
  <2>2. 1 \in DOMAIN same
    BY <1>13, <1>18
  <2>3. same[1] \in Range(names) /\ Upper[same[1]] = Upper[job.db]
    BY <1>13, <2>2 DEF Range
  <2>4. same[1] \in DatabaseNames
    BY <1>10, <2>3
  <2> DEFINE dbs == <<same[1]>>
  <2>5. dbs \in Seq(DatabaseNames) /\ dbs # <<>> /\ DOMAIN dbs = {1} /\ dbs[1] = same[1]
    BY <2>4, OneOf
  <2>6. Range(dbs) = {same[1]}
    <3> HIDE DEF dbs
    <3> QED BY <2>5 DEF Range
  <2>7. recorded' = Recorded(x)
    BY <2>1 DEF Becomes, Wait
  <2>8. Becomes(Wait(q, Waiting("tables", job.mode, job.db, dbs, <<>>), Recorded(x)))
    BY <2>1 DEF one
  <2>9. calm' /\ (~metadataID \/ NamesApart) => Range(dbs) = {d.name : d \in for}
    <3> SUFFICES ASSUME calm', ~metadataID \/ NamesApart
                 PROVE  {same[1]} = {d.name : d \in for}
      BY <2>6
    <3>1. metadataID /\ NamesApart /\ job.db = MainOf(env, q.arg)
      BY <1>4, <1>6, <1>8, <1>18 DEF Asks
    <3>2. for = {d \in Range(Server) : Upper[d.name] = Upper[job.db]}
      <4>1. \A d : SameName(metadataID, MainOf(env, q.arg), d.name)
                   <=> Upper[d.name] = Upper[job.db]
        BY <3>1 DEF SameName
      <4> QED BY <4>1 DEF for, DatabasesFor
    <3>3. PICK d0 \in Range(Server) : d0.name = same[1]
      BY <2>4 DEF DatabaseNames, Range
    <3>4. d0 \in for
      BY <2>3, <3>2, <3>3
    <3>5. \A d \in for : d = d0
      BY <3>1, <3>2, <3>3, <3>4 DEF NamesApart
    <3> QED BY <3>3, <3>4, <3>5
  <2>10. \A i, k \in DOMAIN dbs : dbs[i] = dbs[k] => i = k
    BY <2>5
  <2>11. job.mode # "all"
    BY <1>18
  <2>12. calm' => calm
    BY <1>6
  <2>13. calm' /\ (~metadataID \/ NamesApart) =>
              /\ Range(dbs) = {d.name : d \in DatabasesFor(env, metadataID, q.arg)}
              /\ \A i, k \in DOMAIN dbs : dbs[i] = dbs[k] => i = k
    BY <2>9, <2>10 DEF for
  <2>14. changes = 0 /\ ~recorded' => calm'
    BY <1>6, <2>7
  <2> HIDE DEF dbs
  <2> QED BY <1>2, <1>6, <1>7, <2>5, <2>8, <2>11, <2>12, <2>13, <2>14, GoodTables
<1>19. CASE x.r = "AI_SUCCESS" /\ job.mode = "pattern" /\ names # <<>>
  <2>1. Becomes(Wait(q, known, Recorded(x)))
    BY <1>1, <1>12, <1>19
  <2>2. recorded' = Recorded(x)
    BY <2>1 DEF Becomes, Wait
  <2>3. Becomes(Wait(q, Waiting("tables", job.mode, job.db, names, <<>>), Recorded(x)))
    BY <2>1 DEF known
  <2>4. calm' /\ (~metadataID \/ NamesApart) =>
              /\ Range(names) = {d.name : d \in DatabasesFor(env, metadataID, q.arg)}
              /\ \A i, k \in DOMAIN names : names[i] = names[k] => i = k
    BY <1>3, <1>6, <1>8, <1>19 DEF for, Distinct
  <2>5. job.mode # "all" /\ names # <<>>
    BY <1>19
  <2>6. changes = 0 /\ ~recorded' => calm'
    BY <1>6, <2>2
  <2>7. calm' => calm
    BY <1>6
  <2> QED BY <1>2, <1>6, <1>7, <1>11, <2>3, <2>4, <2>5, <2>6, <2>7, GoodTables
<1>20. CASE /\ x.r = "AI_SUCCESS"
            /\ \/ job.mode = "identifier" /\ same = <<>>
               \/ job.mode = "pattern" /\ names = <<>>
  <2>1. Becomes(TablesDone(q, "AI_SUCCESS_WITH_INFO", <<>>, TRUE))
    BY <1>1, <1>12, <1>20
  <2>2. calm' => for = {}
    <3> SUFFICES ASSUME calm', NEW d \in for PROVE FALSE
      OBVIOUS
    <3>1. job.mode = "identifier" /\ same = <<>> /\ x.whole /\ metadataID
          /\ job.db = MainOf(env, q.arg)
      BY <1>3, <1>4, <1>6, <1>8, <1>20 DEF Asks
    <3>2. Upper[d.name] = Upper[job.db]
      BY <3>1 DEF for, DatabasesFor, SameName
    <3>3. d.name \in Range(names)
      BY <1>3, <1>8, <3>1
    <3> QED BY <1>13, <3>1, <3>2, <3>3
  <2> QED BY <1>14, <2>1, <2>2
<1>21. x.r \in {"AI_ERROR", "AI_NO_DATA", "AI_SUCCESS"}
       /\ job.mode \in {"all", "identifier", "pattern"}
  BY <1>3, <1>4
<1> QED BY <1>15, <1>16, <1>17, <1>18, <1>19, <1>20, <1>21

-----------------------------------------------------------------------------
(* Lists *)

\* The position of an element of two lists put together.
LEMMA CatIndex ==
    ASSUME NEW R, NEW s \in Seq(R), NEW t \in Seq(R)
    PROVE  /\ s \o t \in Seq(R)
           /\ \A i \in DOMAIN s : i \in DOMAIN (s \o t) /\ (s \o t)[i] = s[i]
           /\ \A k \in DOMAIN t : Len(s) + k \in DOMAIN (s \o t) /\ (s \o t)[Len(s) + k] = t[k]
           /\ \A i \in DOMAIN (s \o t) :
                 \/ i \in DOMAIN s /\ (s \o t)[i] = s[i]
                 \/ \E k \in DOMAIN t : i = Len(s) + k /\ (s \o t)[i] = t[k]
           /\ s \o t = <<>> => s = <<>> /\ t = <<>>
<1>1. /\ s \o t \in Seq(R) /\ DOMAIN (s \o t) = 1 .. Len(s) + Len(t)
      /\ DOMAIN s = 1 .. Len(s) /\ DOMAIN t = 1 .. Len(t) /\ Len(s) \in Nat /\ Len(t) \in Nat
  OBVIOUS
<1>2. \A i \in DOMAIN (s \o t) : (s \o t)[i] = IF i <= Len(s) THEN s[i] ELSE t[i - Len(s)]
  OBVIOUS
<1> DEFINE u == s \o t
<1>3. \A i \in DOMAIN s : i \in DOMAIN u /\ u[i] = s[i]
  BY <1>1, <1>2
<1>4. \A k \in DOMAIN t : Len(s) + k \in DOMAIN u /\ u[Len(s) + k] = t[k]
  BY <1>1, <1>2
<1>5. \A i \in DOMAIN u : \/ i \in DOMAIN s /\ u[i] = s[i]
                          \/ \E k \in DOMAIN t : i = Len(s) + k /\ u[i] = t[k]
  <2> SUFFICES ASSUME NEW i \in DOMAIN u, i \notin DOMAIN s
               PROVE  \E k \in DOMAIN t : i = Len(s) + k /\ u[i] = t[k]
    BY <1>3
  <2>1. i \in Nat /\ i > Len(s) /\ i <= Len(s) + Len(t)
    BY <1>1
  <2>2. i - Len(s) \in DOMAIN t /\ i = Len(s) + (i - Len(s)) /\ u[i] = t[i - Len(s)]
    BY <1>1, <1>2, <2>1
  <2> QED BY <2>2
<1>6. u = <<>> => s = <<>> /\ t = <<>>
  BY <1>1
<1> QED BY <1>1, <1>3, <1>4, <1>5, <1>6

\* The rest of a list without repetition.
LEMMA TailIs ==
    ASSUME NEW R, NEW s \in Seq(R), s # <<>>
    PROVE  /\ Head(s) \in R /\ Head(s) \in Range(s) /\ Tail(s) \in Seq(R) /\ Len(s) \in Nat \ {0}
           /\ Len(s) = 1 => Tail(s) = <<>>
           /\ Len(s) > 1 => Tail(s) # <<>>
           /\ Len(s) = 1 <=> ~(Len(s) > 1)
           /\ \A n \in Range(s) : n = Head(s) \/ n \in Range(Tail(s))
           /\ Range(Tail(s)) \subseteq Range(s)
           /\ Distinct(s) => Distinct(Tail(s)) /\ Head(s) \notin Range(Tail(s))
<1> DEFINE t == Tail(s)
<1>1. /\ Len(s) \in Nat \ {0} /\ DOMAIN s = 1 .. Len(s) /\ Head(s) = s[1]
      /\ t \in Seq(R) /\ DOMAIN t = 1 .. Len(s) - 1 /\ Len(t) = Len(s) - 1
  OBVIOUS
<1>2. \A i \in DOMAIN t : t[i] = s[i + 1] /\ i + 1 \in DOMAIN s
  BY <1>1
<1> HIDE DEF t
<1>3. Head(s) \in R /\ Head(s) \in Range(s)
  BY <1>1 DEF Range
<1>4. (Len(s) = 1 => t = <<>>) /\ (Len(s) > 1 => t # <<>>) /\ (Len(s) = 1 <=> ~(Len(s) > 1))
  BY <1>1
<1>5. \A n \in Range(s) : n = Head(s) \/ n \in Range(t)
  <2> SUFFICES ASSUME NEW i \in DOMAIN s, i # 1 PROVE s[i] \in Range(t)
    BY <1>1 DEF Range
  <2>1. i - 1 \in DOMAIN t /\ t[i - 1] = s[i]
    BY <1>1, <1>2
  <2> QED BY <2>1 DEF Range
<1>6. Range(t) \subseteq Range(s)
  BY <1>2 DEF Range
<1>7. Distinct(s) => Distinct(t)
  BY <1>1, <1>2 DEF Distinct
<1>8. Distinct(s) => Head(s) \notin Range(t)
  <2> SUFFICES ASSUME Distinct(s), NEW i \in DOMAIN t, t[i] = Head(s) PROVE FALSE
    BY DEF Range
  <2>1. 1 \in DOMAIN s /\ s[i + 1] = s[1] /\ i + 1 \in DOMAIN s /\ i + 1 # 1
    BY <1>1, <1>2
  <2> QED BY <2>1 DEF Distinct
<1> QED BY <1>1, <1>3, <1>4, <1>5, <1>6, <1>7, <1>8 DEF t

\* The element that a name names.
LEMMA FindIs ==
    ASSUME NEW R, NEW s \in Seq(R), NEW n
    PROVE  /\ Find(s, n) \in Seq(R)
           /\ Find(s, n) = <<>> <=> \A e \in Range(s) : e.name # n
           /\ Find(s, n) # <<>> => Find(s, n)[1] \in Range(s) /\ Find(s, n)[1].name = n
<1> DEFINE T == {e \in Range(s) : e.name = n}
           f == Find(s, n)
<1>1. f = Keep(s, T)
  BY DEF Find
<1> HIDE DEF f
<1>2. f \in Seq(R) /\ Range(f) = {e \in Range(s) : e \in T}
      /\ (f = <<>> <=> Range(s) \cap T = {})
  BY <1>1, KeepRange
<1>3. f # <<>> => f[1] \in Range(f)
  <2>1. f # <<>> => 1 \in DOMAIN f
    BY <1>2
  <2> QED BY <2>1 DEF Range
<1> QED BY <1>2, <1>3 DEF f

\* What is known of two lists of rows is known of both put together.
LEMMA PairsCat ==
    ASSUME NEW R, NEW s \in Seq(R), NEW t \in Seq(R)
    PROVE  /\ Pairs(s \o t) = Pairs(s) \cup Pairs(t)
           /\ Apart(s) /\ Apart(t) /\ Pairs(s) \cap Pairs(t) = {} => Apart(s \o t)
<1> DEFINE u == s \o t
<1>1. /\ \A i \in DOMAIN s : i \in DOMAIN u /\ u[i] = s[i]
      /\ \A k \in DOMAIN t : Len(s) + k \in DOMAIN u /\ u[Len(s) + k] = t[k]
  BY CatIndex
<1>2. \A i \in DOMAIN u : \/ i \in DOMAIN s /\ u[i] = s[i]
                          \/ \E k \in DOMAIN t : i = Len(s) + k /\ u[i] = t[k]
  BY CatIndex
<1> HIDE DEF u
<1>3. Pairs(u) \subseteq Pairs(s) \cup Pairs(t)
  BY <1>2 DEF Pairs
<1>4. Pairs(s) \cup Pairs(t) \subseteq Pairs(u)
  BY <1>1 DEF Pairs
<1>5. ASSUME Apart(s), Apart(t), Pairs(s) \cap Pairs(t) = {}
      PROVE  Apart(u)
  <2>1. \A i \in DOMAIN s : Pair(s[i]) \in Pairs(s)
    BY DEF Pairs
  <2>2. \A i \in DOMAIN t : Pair(t[i]) \in Pairs(t)
    BY DEF Pairs
  <2> SUFFICES ASSUME NEW i \in DOMAIN u, NEW j \in DOMAIN u, Pair(u[i]) = Pair(u[j])
               PROVE  i = j
    BY DEF Apart
  <2>3. CASE i \in DOMAIN s /\ u[i] = s[i] /\ j \in DOMAIN s /\ u[j] = s[j]
    BY <1>5, <2>3 DEF Apart
  <2>4. CASE \E k \in DOMAIN t, l \in DOMAIN t : i = Len(s) + k /\ u[i] = t[k]
                                                /\ j = Len(s) + l /\ u[j] = t[l]
    BY <1>5, <2>4 DEF Apart
  <2>5. CASE i \in DOMAIN s /\ u[i] = s[i] /\ \E k \in DOMAIN t : u[j] = t[k]
    BY <1>5, <2>1, <2>2, <2>5
  <2>6. CASE j \in DOMAIN s /\ u[j] = s[j] /\ \E k \in DOMAIN t : u[i] = t[k]
    BY <1>5, <2>1, <2>2, <2>6
  <2> QED BY <1>2, <2>3, <2>4, <2>5, <2>6
<1> QED BY <1>3, <1>4, <1>5 DEF u

\* The rows of the tables found in one database.
RowsOf(db, found) == [i \in DOMAIN found |-> TableRow(db, found[i])]

\* The rows made of the tables of a database.
LEMMA RowsOfIs ==
    ASSUME env \in BOOLEAN, NEW db \in DatabaseNames, NEW found \in Seq(STRING)
    PROVE  /\ RowsOf(db, found) \in Seq(TableRows)
           /\ \A i \in DOMAIN RowsOf(db, found) : PlacedTable(env, RowsOf(db, found)[i])
           /\ Pairs(RowsOf(db, found)) = {<<db, n>> : n \in Range(found)}
           /\ Distinct(found) => Apart(RowsOf(db, found))
           /\ RowsOf(db, found) = <<>> <=> found = <<>>
<1> DEFINE rows == RowsOf(db, found)
<1>1. DOMAIN rows = DOMAIN found /\ \A i \in DOMAIN found : rows[i] = TableRow(db, found[i])
  BY DEF RowsOf
<1>2. \A i \in DOMAIN found : found[i] \in Str
  BY DEF Str
<1>3. \A i \in DOMAIN found :
        /\ rows[i] \in TableRows /\ PlacedTable(env, rows[i])
        /\ DatabaseOf(rows[i]) = db /\ rows[i].TABLE_NAME = found[i]
  BY <1>1, <1>2, TableRowIs
<1>4. DOMAIN found = 1 .. Len(found) /\ Len(found) \in Nat
  OBVIOUS
<1>5. rows \in [1 .. Len(found) -> TableRows]
  <2>1. \A i \in 1 .. Len(found) : rows[i] \in TableRows
    BY <1>3, <1>4
  <2> QED BY <1>1, <1>4, <2>1 DEF RowsOf
<1> HIDE DEF rows
<1>6. rows \in Seq(TableRows)
  BY <1>4, <1>5
<1>7. \A i \in DOMAIN found : Pair(rows[i]) = <<db, found[i]>>
  BY <1>3 DEF Pair
<1>8. Pairs(rows) = {<<db, n>> : n \in Range(found)}
  BY <1>1, <1>7 DEF Pairs, Range
<1>9. Distinct(found) => Apart(rows)
  BY <1>1, <1>7 DEF Distinct, Apart
<1>10. rows = <<>> <=> found = <<>>
  BY <1>1, <1>4, <1>6
<1> QED BY <1>1, <1>3, <1>6, <1>8, <1>9, <1>10 DEF rows

\* The tables found in database d are those of d that match, when the reply is whole.
LEMMA FoundIs ==
    ASSUME CatalogInv, job.step = "tables", NEW d \in Range(Server), NEW pattern,
           pattern = (IF job.mode = "pattern" THEN OrAll(q.arg.table) ELSE ALL),
           NEW x \in Replies(Listed(d.tables, pattern)), NEW found,
           found = (IF job.mode = "identifier" THEN SameUpper(Named(x.rows), q.arg.table)
                    ELSE Named(x.rows))
    PROVE  /\ x.r \in {"AI_ERROR", "AI_NO_DATA", "AI_SUCCESS"} /\ x.whole \in BOOLEAN
           /\ found \in Seq(STRING) /\ Distinct(found)
           /\ x.whole /\ calm =>
                 {<<d.name, n>> : n \in Range(found)} = TablesOf(metadataID, q.arg, d)
<1> DEFINE names == Named(x.rows)
           hits  == Hits(d.tables, pattern)
<1>1. /\ d.tables \in Seq(Tabs)
      /\ \A i, j \in DOMAIN d.tables : d.tables[i].name = d.tables[j].name => i = j
  BY ServerIs
<1>2. \A r \in Tabs : r.name \in STRING
  BY DEF Tabs
<1>3. x.r \in {"AI_ERROR", "AI_NO_DATA", "AI_SUCCESS"} /\ x.whole \in BOOLEAN
  BY <1>1, <1>2, Shown
<1>4. names \in Seq(STRING)
  BY <1>1, <1>2, Shown
<1>5. \A n \in Range(names) : \E e \in hits : n = e.name
  BY <1>1, <1>2, Shown
<1>6. Distinct(names)
  BY <1>1, <1>2, Shown
<1>7. x.whole => \A e \in hits : e.name \in Range(names)
  BY <1>1, <1>2, Shown
<1>8. calm => Asks(env, metadataID, q, job)
  BY Gathering
<1>9. job.mode \in {"identifier", "pattern"}
  BY DEF CatalogInv, Good, CallOK, JobOK, IsJob
<1>10. metadataID \in BOOLEAN /\ calm \in BOOLEAN
  BY DEF CatalogInv
<1> DEFINE a == q.arg
           tables == Range(d.tables)
           mine == {u \in tables : SameName(metadataID, a.table, u.name)}
<1>11. TablesOf(metadataID, q.arg, d) = {<<d.name, t.name>> : t \in mine}
  BY DEF TablesOf
<1>12. hits \subseteq tables /\ \A t \in tables : t \in hits <=> Like(pattern, t.name)
  BY DEF Hits
<1> HIDE DEF names, hits, tables
<1>13. CASE job.mode = "pattern"
  <2>1. found = names /\ pattern = OrAll(q.arg.table)
    BY <1>13 DEF names
  <2>2. calm => hits = mine
    <3>1. calm => ~metadataID
      BY <1>8, <1>10, <1>13 DEF Asks
    <3> QED BY <1>12, <2>1, <3>1 DEF SameName
  <2>3. x.whole /\ calm => {<<d.name, n>> : n \in Range(found)} = {<<d.name, t.name>> : t \in mine}
    <3> SUFFICES ASSUME x.whole, calm
                 PROVE  {<<d.name, n>> : n \in Range(found)} = {<<d.name, t.name>> : t \in mine}
      OBVIOUS
    <3>1. \A n \in Range(found) : \E e \in mine : n = e.name
      BY <1>5, <2>1, <2>2
    <3>2. \A e \in mine : e.name \in Range(found)
      BY <1>7, <2>1, <2>2
    <3> HIDE DEF mine
    <3> QED BY <3>1, <3>2
  <2> QED BY <1>3, <1>4, <1>6, <1>11, <2>1, <2>3
<1>14. CASE job.mode = "identifier"
  <2>1. found = SameUpper(names, q.arg.table) /\ pattern = ALL
    BY <1>14 DEF names
  <2>2. found \in Seq(STRING)
    BY <1>4, <2>1, SameUpperIs
  <2>3. Distinct(found)
    BY <1>4, <1>6, <2>1, SameUpperIs
  <2>4. \A m : m \in Range(found) <=> m \in Range(names) /\ Upper[m] = Upper[q.arg.table]
    <3>1. \A n, m : m \in Range(SameUpper(names, n))
                   <=> m \in Range(names) /\ Upper[m] = Upper[n]
      BY <1>4, SameUpperIs
    <3> QED BY <2>1, <3>1
  <2>5. hits = tables
    BY <1>12, <2>1 DEF Like
  <2>6. x.whole /\ calm => {<<d.name, n>> : n \in Range(found)} = {<<d.name, t.name>> : t \in mine}
    <3> SUFFICES ASSUME x.whole, calm
                 PROVE  {<<d.name, n>> : n \in Range(found)} = {<<d.name, t.name>> : t \in mine}
      OBVIOUS
    <3>1. metadataID
      BY <1>8, <1>14 DEF Asks
    <3>2. \A u \in tables : u \in mine <=> Upper[u.name] = Upper[q.arg.table]
      BY <3>1 DEF SameName
    <3>3. \A n \in Range(found) : \E e \in mine : n = e.name
      <4> SUFFICES ASSUME NEW n \in Range(found) PROVE \E e \in mine : n = e.name
        OBVIOUS
      <4>1. n \in Range(names) /\ Upper[n] = Upper[q.arg.table]
        BY <2>4
      <4>2. PICK e \in tables : n = e.name
        BY <1>5, <2>5, <4>1
      <4>3. e \in mine
        BY <3>2, <4>1, <4>2
      <4> HIDE DEF mine
      <4> QED BY <4>2, <4>3
    <3>4. \A e \in mine : e.name \in Range(found)
      <4> SUFFICES ASSUME NEW e \in mine PROVE e.name \in Range(found)
        OBVIOUS
      <4>1. e \in tables /\ Upper[e.name] = Upper[q.arg.table]
        BY <3>2
      <4>2. e.name \in Range(names)
        BY <1>7, <2>5, <4>1
      <4> QED BY <2>4, <4>1, <4>2
    <3> HIDE DEF mine
    <3> QED BY <3>3, <3>4
  <2> QED BY <1>3, <1>11, <2>2, <2>3, <2>6
<1> QED BY <1>9, <1>13, <1>14

\* One more database is done.
LEMMA Progress ==
    ASSUME Gathered(env, metadataID, q.arg, job), job.todo \in Seq(DatabaseNames),
           job.todo # <<>>, job.tables \in Seq(TableRows),
           NEW d \in Range(Server), d.name = Head(job.todo),
           NEW new \in Seq(TableRows), Pairs(new) = TablesOf(metadataID, q.arg, d), Apart(new)
    PROVE  LET dbs  == DatabasesFor(env, metadataID, q.arg)
               rest == Tail(job.todo)
               rows == job.tables \o new IN
           /\ Range(rest) \subseteq {b.name : b \in dbs} /\ Distinct(rest)
           /\ Pairs(rows) = UNION {TablesOf(metadataID, q.arg, b) :
                                     b \in {c \in dbs : c.name \notin Range(rest)}}
           /\ Apart(rows)
           /\ rest = <<>> => Pairs(rows) = MatchingFor(env, metadataID, q.arg)
<1> DEFINE dbs  == DatabasesFor(env, metadataID, q.arg)
           todo == job.todo
           rest == Tail(job.todo)
           rows == job.tables \o new
           Found(b) == TablesOf(metadataID, q.arg, b)
           done == {c \in dbs : c.name \notin Range(todo)}
           now  == {c \in dbs : c.name \notin Range(rest)}
<1>1. /\ Range(todo) \subseteq {b.name : b \in dbs} /\ Distinct(todo)
      /\ Pairs(job.tables) = UNION {Found(b) : b \in done} /\ Apart(job.tables)
  BY DEF Gathered, Distinct
<1>2. /\ Head(todo) \in Range(todo)
      /\ \A n \in Range(todo) : n = Head(todo) \/ n \in Range(rest)
      /\ Range(rest) \subseteq Range(todo)
      /\ Distinct(rest) /\ Head(todo) \notin Range(rest)
  BY <1>1, TailIs
<1>3. dbs \subseteq Range(Server)
  BY DEF DatabasesFor
<1>4. \A b \in Range(Server) : b.name = d.name => b = d
  BY ServerIs
<1>5. \A b, p : p \in Found(b) => p[1] = b.name
  BY DEF TablesOf
<1> HIDE DEF dbs, todo, rest, rows, Found
<1>6. d \in dbs /\ d.name = Head(todo)
  <2>1. d.name = Head(todo)
    BY DEF todo
  <2>2. PICK b \in dbs : b.name = Head(todo)
    BY <1>1, <1>2
  <2> QED BY <1>3, <1>4, <2>1, <2>2
<1>7. now = done \cup {d}
  BY <1>2, <1>3, <1>4, <1>6
<1>8. Range(rest) \subseteq {b.name : b \in dbs}
  BY <1>1, <1>2
<1>9. Pairs(rows) = Pairs(job.tables) \cup Found(d)
  BY PairsCat DEF rows, Found
<1>10. Pairs(rows) = UNION {Found(b) : b \in now}
  <2> HIDE DEF done, now
  <2> QED BY <1>1, <1>7, <1>9
<1>11. Apart(rows)
  <2>1. Pairs(job.tables) \cap Pairs(new) = {}
    <3> SUFFICES ASSUME NEW p \in Pairs(job.tables), p \in Found(d) PROVE FALSE
      BY DEF Found
    <3>1. PICK b \in done : p \in Found(b)
      BY <1>1
    <3> QED BY <1>2, <1>5, <1>6, <3>1
  <2> QED BY <1>1, <2>1, PairsCat DEF rows
<1>12. rest = <<>> => Pairs(rows) = MatchingFor(env, metadataID, q.arg)
  <2> SUFFICES ASSUME rest = <<>> PROVE Pairs(rows) = UNION {Found(b) : b \in dbs}
    BY DEF MatchingFor, Found, dbs
  <2>1. Range(rest) = {}
    BY NoPairs
  <2>2. now = dbs
    BY <2>1
  <2> QED BY <1>10, <2>2
<1>13. Distinct(rest)
  BY <1>2
<1> QED BY <1>8, <1>10, <1>11, <1>12, <1>13 DEF dbs, rest, rows, Found

\* The reply to the request for the tables of a database keeps the invariant.
LEMMA ShowTablesStep ==
    ASSUME CatalogInv, ShowTables
    PROVE  CatalogInv'
<1> DEFINE pattern == IF job.mode = "pattern" THEN OrAll(q.arg.table) ELSE ALL
           d == Find(Server, Head(job.todo))[1]
<1>1. PICK x \in Replies(Listed(d.tables, pattern)) :
          Becomes(TablesKnown(x)) /\ calm' = (calm /\ x.whole)
  BY DEF ShowTables
<1>2. job.step = "tables" /\ Kept
  BY DEF ShowTables, Kept
<1>3. /\ QueryOK(q) /\ q.fn \in {"tables", "columns"} /\ q.meta = <<>>
      /\ IsJob(job) /\ job.mode \in {"all", "identifier", "pattern"}
      /\ q.fn = "columns" => job.mode = "pattern"
      /\ calm \/ changes = 0 => HomeOK(q)
      /\ calm => Asks(env, metadataID, q, job)
      /\ changes = 0 /\ ~recorded => calm
  BY <1>2, Gathering
<1>4. calm \in BOOLEAN /\ env \in BOOLEAN /\ metadataID \in BOOLEAN
  BY DEF CatalogInv
<1>5. /\ job.mode # "all" /\ job.todo \in Seq(DatabaseNames) /\ job.todo # <<>>
      /\ job.tables \in Seq(TableRows)
      /\ calm \/ changes = 0 => \A i \in DOMAIN job.tables : PlacedTable(env, job.tables[i])
      /\ calm /\ (~metadataID \/ NamesApart) => Gathered(env, metadataID, q.arg, job)
  BY <1>2 DEF CatalogInv, Good, CallOK, JobOK, IsJob, PlaceOK, MatchOK
<1> DEFINE last == Len(job.todo) = 1
           more == Len(job.todo) > 1
<1>6. /\ Head(job.todo) \in DatabaseNames /\ Tail(job.todo) \in Seq(DatabaseNames)
      /\ last => Tail(job.todo) = <<>>
      /\ more => Tail(job.todo) # <<>>
      /\ last <=> ~more
  BY <1>5, TailIs
<1>7. d \in Range(Server) /\ d.name = Head(job.todo)
  <2>1. \E e \in Range(Server) : e.name = Head(job.todo)
    BY <1>6 DEF DatabaseNames, Range
  <2>2. Server \in Seq(Databases)
    BY ServerIs
  <2>3. Find(Server, Head(job.todo)) # <<>>
    BY <2>1, <2>2, FindIs
  <2> QED BY <2>2, <2>3, FindIs
<1> DEFINE found == IF job.mode = "identifier" THEN SameUpper(Named(x.rows), q.arg.table)
                    ELSE Named(x.rows)
           new  == RowsOf(Head(job.todo), found)
           rows == job.tables \o new
           rec  == Recorded(x)
           wait == [job EXCEPT !.todo = Tail(@), !.tables = rows]
<1>8. TablesKnown(x) =
        CASE x.r = "AI_ERROR" -> TablesDone(q, "AI_ERROR", job.tables, TRUE)
          [] x.r # "AI_ERROR" /\ more -> Wait(q, wait, rec)
          [] x.r # "AI_ERROR" /\ last /\ rows = <<>> ->
                TablesDone(q, "AI_SUCCESS_WITH_INFO", <<>>, TRUE)
          [] OTHER -> TablesDone(q, "AI_SUCCESS", rows, rec)
  BY DEF TablesKnown, RowsOf
<1>9. /\ x.r \in {"AI_ERROR", "AI_NO_DATA", "AI_SUCCESS"} /\ x.whole \in BOOLEAN
      /\ found \in Seq(STRING) /\ Distinct(found)
      /\ x.whole /\ calm =>
           {<<d.name, n>> : n \in Range(found)} = TablesOf(metadataID, q.arg, d)
  <2> HIDE DEF d
  <2> QED BY <1>1, <1>2, <1>7, FoundIs
<1> HIDE DEF d, found, pattern, last, more
<1>10. /\ changes = 0 /\ ~rec => calm'
       /\ SettledNow => calm \/ changes = 0
       /\ calm' => calm /\ x.whole
       /\ calm' \in BOOLEAN
  BY <1>1, <1>3, <1>4, <1>9, LossKept
<1>11. Flags
  BY <1>4, <1>10 DEF Flags, CatalogInv
<1> SUFFICES GoodNow
  BY <1>2, <1>10, KeptGood
<1>12. new \in Seq(TableRows)
  BY <1>4, <1>6, <1>9, RowsOfIs
<1>13. \A i \in DOMAIN new : PlacedTable(env, new[i])
  BY <1>4, <1>6, <1>9, RowsOfIs
<1>14. Apart(new)
  BY <1>4, <1>6, <1>9, RowsOfIs
<1>15. calm' => Pairs(new) = TablesOf(metadataID, q.arg, d)
  <2>1. Pairs(new) = {<<Head(job.todo), n>> : n \in Range(found)}
    BY <1>4, <1>6, <1>9, RowsOfIs
  <2> QED BY <1>7, <1>9, <1>10, <2>1
<1> HIDE DEF new
<1>16. rows \in Seq(TableRows)
  BY <1>5, <1>12, CatIndex
<1>17. SettledNow => \A i \in DOMAIN rows : PlacedTable(env, rows[i])
  <2> SUFFICES ASSUME SettledNow, NEW i \in DOMAIN rows PROVE PlacedTable(env, rows[i])
    OBVIOUS
  <2>1. \/ i \in DOMAIN job.tables /\ rows[i] = job.tables[i]
        \/ \E k \in DOMAIN new : i = Len(job.tables) + k /\ rows[i] = new[k]
    BY <1>5, <1>12, CatIndex
  <2> HIDE DEF rows
  <2> QED BY <1>5, <1>10, <1>13, <2>1
<1> DEFINE dbs  == DatabasesFor(env, metadataID, q.arg)
           rest == Tail(job.todo)
<1>18. calm' /\ (~metadataID \/ NamesApart) =>
          /\ Range(rest) \subseteq {b.name : b \in dbs} /\ Distinct(rest)
          /\ Pairs(rows) = UNION {TablesOf(metadataID, q.arg, b) :
                                     b \in {c \in dbs : c.name \notin Range(rest)}}
          /\ Apart(rows)
          /\ rest = <<>> => Pairs(rows) = MatchingFor(env, metadataID, q.arg)
  BY <1>5, <1>7, <1>10, <1>12, <1>14, <1>15, Progress
<1>19. calm' /\ q.fn = "tables" /\ Plain(q) =>
          Expected(env, metadataID, q.arg) = MatchingFor(env, metadataID, q.arg)
  BY <1>3, <1>10 DEF Asks, Expected
<1> HIDE DEF rows, dbs, rest, rec
<1>20. CASE x.r = "AI_ERROR"
  <2>1. Becomes(TablesDone(q, "AI_ERROR", job.tables, TRUE))
    BY <1>1, <1>6, <1>8, <1>20
  <2>2. "AI_ERROR" \notin Succeeded
    BY DEF Succeeded
  <2>3. recorded' = TRUE
    BY <1>3, <2>1 DEF Becomes, TablesDone, Return
  <2> QED BY <1>3, <1>4, <1>5, <1>10, <2>1, <2>2, <2>3, GoodTablesDone
<1>21. CASE x.r # "AI_ERROR" /\ more
  <2>1. Becomes(Wait(q, wait, rec))
    BY <1>1, <1>6, <1>8, <1>21
  <2>2. /\ wait.step = "tables" /\ wait.mode = job.mode /\ wait.db = job.db
        /\ wait.todo = rest /\ wait.tables = rows
    BY <1>2, <1>3 DEF IsJob, rest
  <2>3. IsJob(wait)
    BY <1>3, <1>16 DEF IsJob
  <2> HIDE DEF wait
  <2>4. rest \in Seq(DatabaseNames) /\ rest # <<>>
    BY <1>6, <1>21 DEF rest
  <2>5. JobOK(q, wait)
    BY <1>3, <1>5, <2>2, <2>3, <2>4 DEF JobOK
  <2>6. DOMAIN q.meta = {}
    BY <1>3, NoRows
  <2>7. SettledNow => PlaceOK(env, q, wait)
    BY <1>3, <1>10, <1>17, <2>2, <2>6 DEF PlaceOK, HomeOK
  <2>8. calm' => Asks(env, metadataID, q, wait)
    BY <1>3, <1>10, <2>2 DEF Asks
  <2>9. calm' /\ (~metadataID \/ NamesApart) => Gathered(env, metadataID, q.arg, wait)
    BY <1>18, <2>2 DEF Gathered, dbs, Distinct
  <2>10. calm' => MatchOK(env, metadataID, q, wait)
    BY <2>2, <2>8, <2>9 DEF MatchOK
  <2>11. CoverOK(env, metadataID, q, wait, recorded')
    BY <2>2 DEF CoverOK
  <2>12. recorded' = rec
    BY <2>1 DEF Becomes, Wait
  <2>13. (changes = 0 /\ ~recorded' => calm') /\ wait.step # "idle"
    BY <1>10, <2>2, <2>12
  <2> QED BY <1>3, <2>1, <2>5, <2>7, <2>10, <2>11, <2>13, GoodWait
<1>22. CASE x.r # "AI_ERROR" /\ last /\ rows = <<>>
  <2>1. Becomes(TablesDone(q, "AI_SUCCESS_WITH_INFO", <<>>, TRUE))
    BY <1>1, <1>6, <1>8, <1>22
  <2>2. DOMAIN <<>> = {} /\ Pairs(<<>>) = {} /\ Apart(<<>>) /\ <<>> \in Seq(TableRows)
    BY NoPairs
  <2>3. Pairs(rows) = {}
    BY <1>22, NoPairs
  <2>4. calm' /\ q.fn = "tables" /\ Plain(q) /\ (~metadataID \/ NamesApart) =>
           Expected(env, metadataID, q.arg) = {}
    BY <1>6, <1>18, <1>19, <1>22, <2>3 DEF rest
  <2>5. recorded' = TRUE
    BY <1>3, <2>1 DEF Becomes, TablesDone, Return
  <2> QED BY <1>3, <1>4, <1>10, <2>1, <2>2, <2>4, <2>5, GoodTablesDone
<1>23. CASE x.r # "AI_ERROR" /\ last /\ rows # <<>>
  <2>1. Becomes(TablesDone(q, "AI_SUCCESS", rows, rec))
    BY <1>1, <1>6, <1>8, <1>23
  <2>2. recorded' = rec
    BY <1>3, <2>1 DEF Becomes, TablesDone, Return, Wait
  <2>3. rest = <<>>
    BY <1>6, <1>23 DEF rest
  <2>4. calm' /\ q.fn = "tables" /\ Plain(q) /\ (~metadataID \/ NamesApart) =>
           Pairs(rows) = Expected(env, metadataID, q.arg) /\ Apart(rows)
    BY <1>18, <1>19, <2>3
  <2>5. calm' /\ ~metadataID => MatchingFor(env, metadataID, q.arg) = Pairs(rows)
    BY <1>18, <2>3
  <2>6. changes = 0 /\ ~recorded' => calm'
    BY <1>10, <2>2
  <2> QED BY <1>3, <1>4, <1>10, <1>16, <1>17, <1>23, <2>1, <2>4, <2>5, <2>6, GoodTablesDone
<1> QED BY <1>6, <1>20, <1>21, <1>22, <1>23

-----------------------------------------------------------------------------
(* Describing *)

\* A row that the driver makes for a column.
LEMMA ColumnRowIs ==
    ASSUME env \in BOOLEAN, NEW db \in Str, NEW table \in Str, NEW c \in Columns,
           NEW i \in Nat
    PROVE  /\ ColumnRow(db, table, c, i) \in ColumnRows
           /\ ColumnRow(db, table, c, i).TABLE_NAME = table
           /\ db # "" => /\ PlacedColumn(env, ColumnRow(db, table, c, i))
                         /\ DatabaseOf(ColumnRow(db, table, c, i)) \in {db}
<1>1. db # NULL
  BY NullAssumption DEF Str
<1> DEFINE r == ColumnRow(db, table, c, i)
           type == IF c.type \in ScalarTypes THEN c.type ELSE "UNKNOWN"
           null == IF c.remarks \in {"MEASURE_VALUE", "MULTI"} THEN "NULLABLE"
                   ELSE "NO_NULLS"
<1>2. type \in ScalarTypes
  BY DEF ScalarTypes
<1>3. null \in {"NULLABLE", "NO_NULLS"}
  OBVIOUS
<1>4. r = [TABLE_CAT |-> IF env THEN NULL ELSE db, TABLE_SCHEM |-> IF env THEN db ELSE NULL,
           TABLE_NAME |-> table, COLUMN_NAME |-> c.name, ORDINAL_POSITION |-> i,
           type |-> type, NULLABLE |-> null]
  BY DEF ColumnRow
<1>5. c.name \in STRING
  BY DEF Columns
<1> HIDE DEF type, null, r
<1>6. r \in ColumnRows
  BY <1>2, <1>3, <1>4, <1>5 DEF ColumnRows, Text
<1>7. /\ r.TABLE_CAT = (IF env THEN NULL ELSE db) /\ r.TABLE_SCHEM = (IF env THEN db ELSE NULL)
      /\ r.TABLE_NAME = table
  BY <1>4
<1> QED BY <1>1, <1>6, <1>7 DEF PlacedColumn, DatabaseOf, r

\* The rows of the columns found in one table.
ColumnsOf(t, found) == [i \in DOMAIN found |-> ColumnRow(t.db, t.table, found[i], i)]

\* The rows made of the columns of a table.
LEMMA ColumnsOfIs ==
    ASSUME env \in BOOLEAN, NEW t \in Places, NEW found \in Seq(Columns)
    PROVE  /\ ColumnsOf(t, found) \in Seq(ColumnRows)
           /\ t.db # "" => \A i \in DOMAIN ColumnsOf(t, found) :
                              PlacedColumn(env, ColumnsOf(t, found)[i])
           /\ t.db # "" /\ found # <<>> => <<t.db, t.table>> \in Pairs(ColumnsOf(t, found))
<1> DEFINE rows == ColumnsOf(t, found)
<1>1. DOMAIN rows = DOMAIN found
      /\ \A i \in DOMAIN found : rows[i] = ColumnRow(t.db, t.table, found[i], i)
  BY DEF ColumnsOf
<1>2. DOMAIN found = 1 .. Len(found) /\ Len(found) \in Nat
  OBVIOUS
<1>3. t.db \in Str /\ t.table \in Str
  BY DEF Places
<1>4. \A i \in DOMAIN found :
        /\ rows[i] \in ColumnRows /\ rows[i].TABLE_NAME = t.table
        /\ t.db # "" => PlacedColumn(env, rows[i]) /\ DatabaseOf(rows[i]) = t.db
  <2> SUFFICES ASSUME NEW i \in DOMAIN found
               PROVE  /\ rows[i] \in ColumnRows /\ rows[i].TABLE_NAME = t.table
                      /\ t.db # "" => PlacedColumn(env, rows[i]) /\ DatabaseOf(rows[i]) = t.db
    OBVIOUS
  <2>1. found[i] \in Columns /\ i \in Nat /\ rows[i] = ColumnRow(t.db, t.table, found[i], i)
    BY <1>1, <1>2
  <2> HIDE DEF rows
  <2> DEFINE c == found[i]
  <2>2. c \in Columns /\ i \in Nat
    BY <2>1
  <2>3. rows[i] = ColumnRow(t.db, t.table, c, i)
    BY <2>1
  <2> HIDE DEF c
  <2>4. \A db, table \in Str :
          /\ ColumnRow(db, table, c, i) \in ColumnRows
          /\ ColumnRow(db, table, c, i).TABLE_NAME = table
          /\ db # "" => /\ PlacedColumn(env, ColumnRow(db, table, c, i))
                        /\ DatabaseOf(ColumnRow(db, table, c, i)) \in {db}
    BY <2>2, ColumnRowIs
  <2>5. /\ ColumnRow(t.db, t.table, c, i) \in ColumnRows
        /\ ColumnRow(t.db, t.table, c, i).TABLE_NAME = t.table
        /\ t.db # "" => /\ PlacedColumn(env, ColumnRow(t.db, t.table, c, i))
                        /\ DatabaseOf(ColumnRow(t.db, t.table, c, i)) \in {t.db}
    BY <1>3, <2>4
  <2> QED BY <2>3, <2>5
<1>5. rows \in [1 .. Len(found) -> ColumnRows]
  <2>1. \A i \in 1 .. Len(found) : rows[i] \in ColumnRows
    BY <1>2, <1>4
  <2> QED BY <1>1, <1>2, <2>1 DEF ColumnsOf
<1> HIDE DEF rows
<1>6. rows \in Seq(ColumnRows)
  BY <1>2, <1>5
<1>7. t.db # "" => \A i \in DOMAIN rows : PlacedColumn(env, rows[i])
  BY <1>1, <1>4
<1>8. t.db # "" /\ found # <<>> => <<t.db, t.table>> \in Pairs(rows)
  <2> SUFFICES ASSUME t.db # "", found # <<>> PROVE <<t.db, t.table>> \in Pairs(rows)
    OBVIOUS
  <2>1. 1 \in DOMAIN found
    BY FirstOf
  <2>2. DatabaseOf(rows[1]) = t.db /\ rows[1].TABLE_NAME = t.table
    BY <1>4, <2>1
  <2>3. Pair(rows[1]) = <<t.db, t.table>>
    BY <2>2 DEF Pair
  <2> QED BY <1>1, <2>1, <2>3 DEF Pairs
<1> QED BY <1>6, <1>7, <1>8 DEF rows

\* What DESCRIBE may answer for a table.
Description(t) ==
    LET db     == Find(Server, t.db)
        tables == IF db = <<>> THEN <<>> ELSE Find(db[1].tables, t.table) IN
    IF tables = <<>> THEN {[r |-> "AI_ERROR", rows |-> <<>>, whole |-> FALSE]}
    ELSE Replies(tables[1].columns)

\* What the request for the columns of a table may answer.
LEMMA DescriptionIs ==
    ASSUME NEW t, NEW x \in Description(t)
    PROVE  /\ x.r \in {"AI_ERROR", "AI_NO_DATA", "AI_SUCCESS"} /\ x.whole \in BOOLEAN
           /\ x.rows \in Seq(Columns)
           /\ x.r = "AI_SUCCESS" /\ x.whole => x.rows # <<>>
<1> DEFINE db     == Find(Server, t.db)
           tables == IF db = <<>> THEN <<>> ELSE Find(db[1].tables, t.table)
<1>1. CASE tables = <<>>
  <2>1. x = [r |-> "AI_ERROR", rows |-> <<>>, whole |-> FALSE]
    BY <1>1 DEF Description
  <2> QED BY <2>1
<1>2. CASE tables # <<>>
  <2>1. x \in Replies(tables[1].columns)
    BY <1>2 DEF Description
  <2>2. db # <<>> /\ tables = Find(db[1].tables, t.table)
    BY <1>2
  <2>3. db[1].tables \in Seq(Tabs)
    <3>1. Server \in Seq(Databases)
      BY ServerIs
    <3>2. db[1] \in Range(Server)
      BY <2>2, <3>1, FindIs
    <3> HIDE DEF db
    <3> QED BY <3>2, ServerIs
  <2> HIDE DEF db
  <2>4. tables[1] \in Range(db[1].tables)
    BY <1>2, <2>2, <2>3, FindIs
  <2> HIDE DEF tables
  <2>5. tables[1] \in Tabs
    BY <2>3, <2>4, SeqRange
  <2>6. tables[1].columns \in Seq(Columns)
    BY <2>5 DEF Tabs
  <2>7. /\ x.r \in {"AI_ERROR", "AI_NO_DATA", "AI_SUCCESS"} /\ x.whole \in BOOLEAN
        /\ x.rows \in Seq(Columns)
        /\ x.whole => x.rows = tables[1].columns
        /\ x.r = "AI_SUCCESS" => tables[1].columns # <<>>
    BY <2>1, <2>6, ReplyIs
  <2> QED BY <2>7
<1> QED BY <1>1, <1>2

\* The reply to the request for the columns of a table keeps the invariant.
LEMMA DescribeStep ==
    ASSUME CatalogInv, Describe
    PROVE  CatalogInv'
<1> DEFINE t == Head(job.todo)
           rest == Tail(job.todo)
           last == Len(job.todo) = 1
           more == Len(job.todo) > 1
<1>1. PICK x \in Description(t) : Becomes(Described(x)) /\ calm' = (calm /\ x.whole)
  BY DEF Describe, Description
<1>2. job.step = "describe" /\ Kept
  BY DEF Describe, Kept
<1>3. /\ QueryOK(q) /\ q.fn = "columns" /\ IsJob(job)
      /\ job.todo \in Seq(Places) /\ job.todo # <<>>
      /\ calm \/ changes = 0 => PlaceOK(env, q, job)
      /\ calm => CoverOK(env, metadataID, q, job, recorded)
      /\ changes = 0 /\ ~recorded => calm
  BY <1>2 DEF CatalogInv, Good, CallOK, JobOK
<1>4. calm \in BOOLEAN /\ env \in BOOLEAN /\ metadataID \in BOOLEAN
  BY DEF CatalogInv
<1>5. /\ t \in Places /\ t \in Range(job.todo) /\ rest \in Seq(Places)
      /\ last => rest = <<>>
      /\ more => rest # <<>>
      /\ last <=> ~more
      /\ \A n \in Range(job.todo) : n = t \/ n \in Range(rest)
      /\ Range(rest) \subseteq Range(job.todo)
  BY <1>3, TailIs
<1> DEFINE found == Listed(x.rows, OrAll(q.arg.column))
           new  == ColumnsOf(t, found)
           rows == q.meta \o new
           p    == [q EXCEPT !.meta = rows]
           rec  == Recorded(x) \/ rows = <<>>
           wait == [job EXCEPT !.todo = Tail(job.todo)]
           ans  == IF rows = <<>> THEN "AI_SUCCESS_WITH_INFO" ELSE "AI_SUCCESS"
<1>6. Described(x) =
        IF x.r # "AI_SUCCESS" THEN Return(q, "AI_NO_DATA", TRUE)
        ELSE IF more THEN Wait(p, wait, rec)
        ELSE Return(p, ans, rec)
  BY DEF Described, ColumnsOf
<1> HIDE DEF t, rest, last, more
<1>7. /\ x.r \in {"AI_ERROR", "AI_NO_DATA", "AI_SUCCESS"} /\ x.whole \in BOOLEAN
      /\ x.rows \in Seq(Columns)
      /\ x.r = "AI_SUCCESS" /\ x.whole => x.rows # <<>>
  BY DescriptionIs
<1>8. /\ changes = 0 /\ ~Recorded(x) => calm'
      /\ SettledNow => calm \/ changes = 0
      /\ calm' => calm /\ x.whole
      /\ calm' \in BOOLEAN
  BY <1>1, <1>3, <1>4, <1>7, LossKept
<1> SUFFICES GoodNow
  BY <1>2, <1>8, KeptGood
<1>9. found \in Seq(Columns)
  BY <1>7, KeepRange DEF Listed
<1>10. q.arg.column \in {NULL, ALL} /\ x.rows # <<>> => found # <<>>
  <2> SUFFICES ASSUME q.arg.column \in {NULL, ALL}, x.rows # <<>> PROVE found # <<>>
    OBVIOUS
  <2> DEFINE all == {e \in Range(x.rows) : Like(OrAll(q.arg.column), e.name)}
  <2>1. found = Keep(x.rows, all)
    BY DEF Listed
  <2>2. 1 \in DOMAIN x.rows
    BY <1>7, FirstOf
  <2>3. x.rows[1] \in Range(x.rows)
    BY <2>2 DEF Range
  <2>4. x.rows[1] \in all
    BY <2>3 DEF Like, OrAll
  <2> HIDE DEF all, found
  <2>5. Range(x.rows) \cap all # {}
    BY <2>3, <2>4
  <2> QED BY <1>7, <2>1, <2>5, KeepRange
<1> HIDE DEF found
<1>11. new \in Seq(ColumnRows)
  BY <1>4, <1>5, <1>9, ColumnsOfIs
<1>12. t.db # "" => \A i \in DOMAIN new : PlacedColumn(env, new[i])
  BY <1>4, <1>5, <1>9, ColumnsOfIs
<1>13. t.db # "" /\ found # <<>> => <<t.db, t.table>> \in Pairs(new)
  BY <1>4, <1>5, <1>9, ColumnsOfIs
<1> HIDE DEF new
<1>14. q.meta \in Seq(ColumnRows)
  BY <1>3 DEF QueryOK
<1>15. rows \in Seq(ColumnRows)
  BY <1>11, <1>14, CatIndex
<1>16. Pairs(rows) = Pairs(q.meta) \cup Pairs(new)
  BY <1>11, <1>14, PairsCat
<1>17. \A i \in DOMAIN rows : \/ i \in DOMAIN q.meta /\ rows[i] = q.meta[i]
                              \/ \E k \in DOMAIN new : i = Len(q.meta) + k /\ rows[i] = new[k]
  BY <1>11, <1>14, CatIndex
<1> HIDE DEF rows, rec, ans
<1>18. /\ IsQuery(p) /\ p.meta = rows /\ p.ret = q.ret
       /\ p.fn = q.fn /\ p.arg = q.arg /\ p.catalogs = q.catalogs
       /\ p.schemas = q.schemas /\ p.types = q.types /\ p.noNull = q.noNull
       /\ p.home = q.home
  <2>1. IsQuery(q)
    BY <1>3 DEF QueryOK
  <2> QED BY <2>1, MetaFields
<1> HIDE DEF p
<1>19. QueryOK(p) /\ p.fn = "columns"
  BY <1>3, <1>15, <1>18 DEF QueryOK
<1>20. SettledNow => /\ HomeOK(q) /\ \A i \in DOMAIN q.meta : PlacedColumn(env, q.meta[i])
                     /\ \A n \in Range(job.todo) : n.db # ""
  <2>1. SettledNow => PlaceOK(env, q, job)
    BY <1>3, <1>8
  <2> QED BY <1>2, <1>3, <2>1 DEF PlaceOK, HomeOK, Range
<1>21. SettledNow => \A i \in DOMAIN rows : PlacedColumn(env, rows[i])
  BY <1>5, <1>12, <1>17, <1>20
<1>22. SettledNow => \A i \in DOMAIN rest : rest[i].db # ""
  BY <1>5, <1>20 DEF Range
<1> DEFINE match == MatchingFor(env, metadataID, q.arg)
           left  == {<<rest[i].db, rest[i].table>> : i \in DOMAIN rest}
<1>23. calm' /\ x.r = "AI_SUCCESS" /\ ~metadataID /\ q.arg.column \in {NULL, ALL} =>
          match \subseteq Pairs(rows) \cup left
  <2> SUFFICES ASSUME calm', x.r = "AI_SUCCESS", ~metadataID, q.arg.column \in {NULL, ALL},
                      NEW m \in match, m \notin Pairs(rows)
               PROVE  m \in left
    OBVIOUS
  <2>1. match \subseteq Pairs(q.meta) \cup
                        {<<job.todo[i].db, job.todo[i].table>> : i \in DOMAIN job.todo}
    BY <1>2, <1>3, <1>8 DEF CoverOK
  <2> HIDE DEF match
  <2>2. PICK i \in DOMAIN job.todo : m = <<job.todo[i].db, job.todo[i].table>>
    BY <1>16, <2>1
  <2>3. <<t.db, t.table>> \in Pairs(new)
    <3>1. found # <<>>
      BY <1>7, <1>8, <1>10
    <3>2. t.db # ""
      BY <1>5, <1>20 DEF SettledNow
    <3> QED BY <1>13, <3>1, <3>2
  <2>4. job.todo[i] \in Range(job.todo) /\ job.todo[i] # t
    BY <1>16, <2>2, <2>3 DEF Range
  <2>5. job.todo[i] \in Range(rest)
    BY <1>5, <2>4
  <2> QED BY <2>2, <2>5 DEF Range
<1> HIDE DEF match, left
<1>24. CASE x.r # "AI_SUCCESS"
  <2>1. Becomes(Return(q, "AI_NO_DATA", TRUE))
    BY <1>1, <1>6, <1>24
  <2>2. "AI_NO_DATA" \notin Succeeded
    BY DEF Succeeded
  <2>3. recorded' = TRUE
    BY <2>1 DEF Becomes, Return
  <2>4. SettledNow => PlaceOK(env, q, Idle)
    BY <1>3, <1>20, IdleIsJob DEF PlaceOK, HomeOK
  <2> QED BY <1>3, <2>1, <2>2, <2>3, <2>4, GoodReturn
<1>25. CASE x.r = "AI_SUCCESS" /\ more
  <2>1. Becomes(Wait(p, wait, rec))
    BY <1>1, <1>6, <1>25
  <2>2. wait.step = "describe" /\ wait.todo = rest
    BY <1>2, <1>3 DEF IsJob, rest
  <2>3. IsJob(wait)
    BY <1>3 DEF IsJob
  <2> HIDE DEF wait
  <2>4. JobOK(p, wait)
    BY <1>5, <1>19, <1>25, <2>2, <2>3 DEF JobOK
  <2>5. SettledNow => PlaceOK(env, p, wait)
    BY <1>18, <1>19, <1>20, <1>21, <1>22, <2>2 DEF PlaceOK, HomeOK
  <2>6. MatchOK(env, metadataID, p, wait)
    BY <1>19, <2>2 DEF MatchOK
  <2>7. calm' => CoverOK(env, metadataID, p, wait, recorded')
    BY <1>18, <1>23, <1>25, <2>2 DEF CoverOK, match, left
  <2>8. recorded' = rec
    BY <2>1 DEF Becomes, Wait
  <2>9. (changes = 0 /\ ~recorded' => calm') /\ wait.step # "idle"
    BY <1>8, <2>2, <2>8 DEF rec
  <2> QED BY <1>19, <2>1, <2>4, <2>5, <2>6, <2>7, <2>9, GoodWait
<1>26. CASE x.r = "AI_SUCCESS" /\ ~more
  <2>1. Becomes(Return(p, ans, rec))
    BY <1>1, <1>6, <1>26
  <2>2. recorded' = rec
    BY <2>1 DEF Becomes, Return
  <2>3. changes = 0 /\ ~recorded' => calm'
    BY <1>8, <2>2 DEF rec
  <2>4. SettledNow => PlaceOK(env, p, Idle)
    BY <1>18, <1>19, <1>20, <1>21, IdleIsJob DEF PlaceOK, HomeOK
  <2>5. left = {}
    <3>1. rest = <<>>
      BY <1>5, <1>26
    <3>2. DOMAIN rest = {}
      BY <3>1, NoRows
    <3> QED BY <3>2 DEF left
  <2>6. calm' /\ ~metadataID /\ p.arg.column \in {NULL, ALL} =>
            MatchingFor(env, metadataID, p.arg) \subseteq Pairs(p.meta)
    BY <1>18, <1>23, <1>26, <2>5 DEF match
  <2> QED BY <1>19, <2>1, <2>3, <2>4, <2>6, GoodReturn
<1> QED BY <1>24, <1>25, <1>26

-----------------------------------------------------------------------------
(* The other calls *)

\* The query of SQLGetTypeInfo.
LEMMA TypesQueryIs ==
    ASSUME NEW t \in TypeCalls, NEW p, p = NewTypesQuery(t)
    PROVE  QueryOK(p) /\ p.fn = "types"
<1> DEFINE a == [catalog |-> NULL, schema |-> NULL, table |-> NULL, type |-> NULL]
           u == NewTablesQuery(a)
           rows == IF t = "ALL_TYPES" THEN AllTypes ELSE <<SqlTypeToBinary(t)>>
<1>1. p = [u EXCEPT !.fn = "types", !.arg = t, !.noNull = TypesNoNull, !.executed = TRUE,
                    !.ret = "AI_SUCCESS", !.meta = rows]
  BY DEF NewTypesQuery
<1>2. IsQuery(u)
  <2> HIDE DEF a
  <2> QED BY NewTablesFields
<1>3. SqlTypeToBinary(t) \in ScalarTypes
  BY DEF SqlTypeToBinary, ScalarTypes, Intervals
<1>4. AllTypes \in Seq(ScalarTypes)
  BY DEF AllTypes, ScalarTypes
<1>5. <<SqlTypeToBinary(t)>> \in Seq(ScalarTypes)
  BY <1>3
<1>6. rows \in Seq(ScalarTypes) /\ (t # "ALL_TYPES" => rows = <<SqlTypeToBinary(t)>>)
  BY <1>4, <1>5
<1>7. t \in STRING
  BY CallsAssumption
<1> HIDE DEF u, a, rows
<1>8. /\ p.fn = "types" /\ p.arg = t /\ p.noNull = TypesNoNull /\ p.meta = rows
  BY <1>1, <1>2 DEF IsQuery
<1>9. IsQuery(p)
  BY <1>1, <1>2, Zenon DEF IsQuery
<1> QED BY <1>6, <1>7, <1>8, <1>9 DEF QueryOK

\* Without a query of SQLTables or SQLColumns there is nothing to say.
LEMMA Quiet ==
    ASSUME q' = NoQuery \/ (QueryOK(q') /\ q'.fn = "types"), job' = Idle
    PROVE  Good(env', metadataID', changes', q', job', recorded', calm')
<1>1. q'.fn \in {"none", "types"}
  BY DEF NoQuery
<1>2. IsJob(job') /\ job'.step = "idle"
  BY IdleIsJob
<1>3. CallOK(q', job')
  BY <1>2 DEF CallOK, JobOK
<1>4. PlaceOK(env', q', job')
  BY <1>1, <1>2 DEF PlaceOK
<1>5. MatchOK(env', metadataID', q', job')
  BY <1>1, <1>2 DEF MatchOK
<1>6. CoverOK(env', metadataID', q', job', recorded')
  BY <1>1 DEF CoverOK
<1> QED BY <1>1, <1>3, <1>4, <1>5, <1>6 DEF Good

\* Between calls the job is idle.
LEMMA ReadyIsIdle ==
    ASSUME CatalogInv, Ready
    PROVE  job = Idle
BY DEF CatalogInv, Good, CallOK, Ready

\* SQLGetTypeInfo keeps the invariant.
LEMMA TypeInfoStep ==
    ASSUME CatalogInv, SQLGetTypeInfo
    PROVE  CatalogInv'
<1>1. Kept /\ job' = job /\ job = Idle
  BY ReadyIsIdle DEF SQLGetTypeInfo, Kept
<1>2. PICK t \in TypeCalls :
          IF t = "ALL_TYPES" \/ IsSqlTypeSupported(t)
          THEN /\ q' = NewTypesQuery(t) /\ ret' = "AI_SUCCESS"
               /\ recorded' = FALSE /\ calm' = TRUE
          ELSE /\ ret' = "AI_ERROR" /\ recorded' = TRUE /\ UNCHANGED <<q, calm>>
  BY DEF SQLGetTypeInfo
<1>3. CASE t = "ALL_TYPES" \/ IsSqlTypeSupported(t)
  <2>1. q' = NewTypesQuery(t) /\ calm' = TRUE
    BY <1>2, <1>3
  <2>2. QueryOK(q') /\ q'.fn = "types"
    BY <2>1, TypesQueryIs
  <2>3. Good(env', metadataID', changes', q', job', recorded', calm')
    BY <1>1, <2>2, Quiet
  <2> QED BY <1>1, <2>1, <2>3 DEF CatalogInv, Kept
<1>4. CASE ~(t = "ALL_TYPES" \/ IsSqlTypeSupported(t))
  <2>1. q' = q /\ calm' = calm /\ recorded' = TRUE
    BY <1>2, <1>4
  <2> QED BY <1>1, <2>1, Refused
<1> QED BY <1>3, <1>4

\* SQLCloseCursor, SQL_ATTR_METADATA_ID and a new connection drop the query.
LEMMA DropStep ==
    ASSUME CatalogInv, CloseCatalog \/ SetMetadataID \/ Connect
    PROVE  CatalogInv'
<1>1. job = Idle
  BY ReadyIsIdle DEF CloseCatalog, SetMetadataID, Connect
<1>2. q' = NoQuery /\ job' = Idle
  BY <1>1 DEF CloseCatalog, SetMetadataID, Connect
<1>3. Good(env', metadataID', changes', q', job', recorded', calm')
  BY <1>2, Quiet
<1>4. /\ env' \in BOOLEAN /\ metadataID' \in BOOLEAN /\ calm' \in BOOLEAN /\ changes' \in Nat
      /\ changes' = 0 => env' = infoEnv'
  <2>1. /\ env \in BOOLEAN /\ metadataID \in BOOLEAN /\ calm \in BOOLEAN /\ changes \in Nat
        /\ changes = 0 => env = infoEnv
    BY DEF CatalogInv
  <2>2. CASE CloseCatalog
    BY <2>1, <2>2 DEF CloseCatalog
  <2>3. CASE SetMetadataID
    BY <2>1, <2>3 DEF SetMetadataID
  <2>4. CASE Connect
    BY <2>1, <2>4 DEF Connect
  <2> QED BY <2>2, <2>3, <2>4
<1> QED BY <1>3, <1>4 DEF CatalogInv

\* A change of the environment variable keeps the invariant.
LEMMA SetEnvStep ==
    ASSUME CatalogInv, SetEnv
    PROVE  CatalogInv'
<1>1. changes \in Nat /\ env \in BOOLEAN /\ metadataID \in BOOLEAN /\ CallOK(q, job)
  BY DEF CatalogInv, Good
<1>2. /\ env' \in BOOLEAN /\ metadataID' \in BOOLEAN /\ calm' = FALSE /\ changes' \in Nat
      /\ changes' # 0 /\ q' = q /\ job' = job
  BY <1>1 DEF SetEnv
<1>3. CallOK(q', job')
  BY <1>1, <1>2
<1> QED BY <1>2, <1>3 DEF CatalogInv, Good

\* The invariant holds at the start.
LEMMA CatalogInit ==
    ASSUME Init
    PROVE  CatalogInv
<1>1. q = NoQuery /\ job = Idle /\ q.fn = "none"
  BY DEF Init, NoQuery
<1>2. IsJob(job) /\ job.step = "idle"
  BY <1>1, IdleIsJob
<1>3. CallOK(q, job)
  BY <1>1, <1>2 DEF CallOK, JobOK
<1>4. PlaceOK(env, q, job) /\ MatchOK(env, metadataID, q, job)
      /\ CoverOK(env, metadataID, q, job, recorded)
  BY <1>1, <1>2 DEF PlaceOK, MatchOK, CoverOK
<1> QED BY <1>1, <1>3, <1>4 DEF Good, CatalogInv, Init

\* Every step keeps the invariant.
LEMMA CatalogStep ==
    ASSUME CatalogInv, [Next]_vars
    PROVE  CatalogInv'
<1>1. CASE UNCHANGED vars
  <2>1. /\ env' = env /\ metadataID' = metadataID /\ calm' = calm /\ changes' = changes
        /\ infoEnv' = infoEnv /\ q' = q /\ job' = job /\ recorded' = recorded
    BY <1>1 DEF vars
  <2> QED BY <2>1 DEF CatalogInv
<1>2. CASE Next
  BY <1>2, TablesStep, ColumnsStep, TypeInfoStep, ShowDatabasesStep, ShowTablesStep,
     DescribeStep, DropStep, SetEnvStep DEF Next
<1> QED BY <1>1, <1>2

\* The invariant that the properties below follow from, for every service, every
\* set of calls and every bound on the changes of the environment variable.
THEOREM CatalogSafe == Spec => []CatalogInv
<1>1. Init => CatalogInv
  BY CatalogInit
<1>2. CatalogInv /\ [Next]_vars => CatalogInv'
  BY CatalogStep
<1> QED BY <1>1, <1>2, PTL DEF Spec

-----------------------------------------------------------------------------
(* Types and NULLs *)

\* What is a text, a number or a flag is not NULL.
LEMMA TextIsNoNull ==
    /\ \A s \in Str : s # NULL
    /\ \A s \in STRING : s # NULL
    /\ \A s \in Literals : s # NULL
    /\ \A n \in Nat : n # NULL
    /\ \A b \in BOOLEAN : b # NULL
BY NullAssumption DEF Str

\* What the driver says of a type is a text.
LEMMA TypeNames ==
    ASSUME NEW b \in ScalarTypes
    PROVE  BinaryToSqlType(b) \in Literals /\ BinaryTypeToSqlTypeName(b) \in Literals
<1>1. /\ b \in Literals /\ "BIT" \in Literals /\ "VARCHAR" \in Literals
      /\ "TYPE_DATE" \in Literals /\ "TYPE_TIME" \in Literals /\ "TYPE_TIMESTAMP" \in Literals
  BY DEF Literals, ScalarTypes
<1> QED BY <1>1 DEF BinaryToSqlType, BinaryTypeToSqlTypeName, Intervals

\* The columns of a row of SQLColumns that follow from its type.
LEMMA ColumnOfIs ==
    ASSUME NEW r
    PROVE  LET t == BinaryToSqlType(r.type) IN
           /\ ColumnOf(r).TABLE_NAME = r.TABLE_NAME /\ ColumnOf(r).COLUMN_NAME = r.COLUMN_NAME
           /\ ColumnOf(r).DATA_TYPE = t /\ ColumnOf(r).SQL_DATA_TYPE = t
           /\ ColumnOf(r).TYPE_NAME = BinaryTypeToSqlTypeName(r.type)
           /\ ColumnOf(r).COLUMN_SIZE = SqlTypeColumnSize(t)
           /\ ColumnOf(r).NUM_PREC_RADIX = SqlTypeNumPrecRadix(t)
           /\ ColumnOf(r).NULLABLE = r.NULLABLE
           /\ ColumnOf(r).ORDINAL_POSITION = r.ORDINAL_POSITION
BY DEF ColumnOf

\* The columns of a row of SQLGetTypeInfo that follow from its type.
LEMMA TypeOfIs ==
    ASSUME NEW b
    PROVE  LET t == BinaryToSqlType(b) IN
           /\ TypeOf(b).TYPE_NAME = BinaryTypeToSqlTypeName(b)
           /\ TypeOf(b).DATA_TYPE = t /\ TypeOf(b).SQL_DATA_TYPE = t
           /\ TypeOf(b).COLUMN_SIZE = SqlTypeColumnSize(t)
           /\ TypeOf(b).NUM_PREC_RADIX = SqlTypeNumPrecRadix(t)
           /\ TypeOf(b).NULLABLE = "NULLABLE_UNKNOWN" /\ TypeOf(b).SEARCHABLE = "SEARCHABLE"
           /\ TypeOf(b).CASE_SENSITIVE = (b = "VARCHAR") /\ TypeOf(b).FIXED_PREC_SCALE = FALSE
BY DEF TypeOf

\* A row of each kind has no NULL where its query declares none.
LEMMA TableRowFull ==
    ASSUME NEW r \in TableRows,
           NEW c \in {"TABLE_CAT", "TABLE_SCHEM", "TABLE_NAME", "TABLE_TYPE"}
    PROVE  r[c] # NULL
<1>1. r.TABLE_CAT \in Str /\ r.TABLE_SCHEM \in Str /\ r.TABLE_NAME \in Str /\ r.TABLE_TYPE \in Str
  BY DEF TableRows, Str, Literals
<1> QED BY <1>1, TextIsNoNull

\* A row of SQLColumns has no NULL where that is declared.
LEMMA ColumnFull ==
    ASSUME NEW r \in ColumnRows, NEW c \in ColumnsNoNull
    PROVE  ColumnOf(r)[c] # NULL
<1> DEFINE x == ColumnOf(r)
           t == BinaryToSqlType(r.type)
<1>1. /\ r.TABLE_NAME \in Str /\ r.COLUMN_NAME \in STRING /\ r.type \in ScalarTypes
      /\ r.ORDINAL_POSITION \in Nat /\ r.NULLABLE \in {"NULLABLE", "NO_NULLS"}
  BY DEF ColumnRows
<1>2. t \in Literals /\ BinaryTypeToSqlTypeName(r.type) \in Literals
  BY <1>1, TypeNames
<1>3. r.NULLABLE \in Literals
  BY <1>1 DEF Literals
<1>4. /\ x.TABLE_NAME = r.TABLE_NAME /\ x.COLUMN_NAME = r.COLUMN_NAME
      /\ x.DATA_TYPE = t /\ x.SQL_DATA_TYPE = t
      /\ x.TYPE_NAME = BinaryTypeToSqlTypeName(r.type)
      /\ x.NULLABLE = r.NULLABLE /\ x.ORDINAL_POSITION = r.ORDINAL_POSITION
  BY ColumnOfIs
<1> HIDE DEF x, t
<1>5. /\ x.TABLE_NAME # NULL /\ x.COLUMN_NAME # NULL /\ x.DATA_TYPE # NULL
      /\ x.SQL_DATA_TYPE # NULL /\ x.TYPE_NAME # NULL /\ x.NULLABLE # NULL
  BY <1>1, <1>2, <1>3, <1>4, TextIsNoNull
<1>6. x.ORDINAL_POSITION # NULL
  BY <1>1, <1>4, TextIsNoNull
<1> QED BY <1>5, <1>6 DEF ColumnsNoNull, x

\* A row of SQLGetTypeInfo has no NULL where that is declared.
LEMMA TypeFull ==
    ASSUME NEW b \in ScalarTypes, NEW c \in TypesNoNull
    PROVE  TypeOf(b)[c] # NULL
<1> DEFINE x == TypeOf(b)
           t == BinaryToSqlType(b)
<1>1. t \in Literals /\ BinaryTypeToSqlTypeName(b) \in Literals
  BY TypeNames
<1>2. /\ x.TYPE_NAME = BinaryTypeToSqlTypeName(b)
      /\ x.DATA_TYPE = t /\ x.SQL_DATA_TYPE = t
      /\ x.NULLABLE = "NULLABLE_UNKNOWN" /\ x.SEARCHABLE = "SEARCHABLE"
      /\ x.CASE_SENSITIVE = (b = "VARCHAR") /\ x.FIXED_PREC_SCALE = FALSE
  BY TypeOfIs
<1> HIDE DEF x, t
<1>3. "NULLABLE_UNKNOWN" \in Literals /\ "SEARCHABLE" \in Literals
  BY DEF Literals
<1>4. /\ x.TYPE_NAME # NULL /\ x.DATA_TYPE # NULL /\ x.SQL_DATA_TYPE # NULL
      /\ x.NULLABLE # NULL /\ x.SEARCHABLE # NULL
  BY <1>1, <1>2, <1>3, TextIsNoNull
<1>5. x.CASE_SENSITIVE # NULL /\ x.FIXED_PREC_SCALE # NULL
  <2>1. (b = "VARCHAR") \in BOOLEAN /\ FALSE \in BOOLEAN
    OBVIOUS
  <2>2. NULL \notin BOOLEAN
    BY NullAssumption
  <2> QED BY <1>2, <2>1, <2>2, Zenon
<1> QED BY <1>4, <1>5 DEF TypesNoNull, x

\* The invariant gives NoNullWhereDeclared.
LEMMA NoNullInv ==
    ASSUME CatalogInv
    PROVE  NoNullWhereDeclared
<1> SUFFICES ASSUME Ready, NEW i \in DOMAIN q.meta, NEW c \in q.noNull
             PROVE  RowOf(q.meta[i])[c] # NULL
  BY DEF NoNullWhereDeclared
<1>1. q # NoQuery
  BY DEF NoQuery
<1>2. QueryOK(q)
  BY <1>1 DEF CatalogInv, Good, CallOK
<1>3. q.fn \in {"tables", "columns", "types"}
  BY <1>2 DEF QueryOK, IsQuery
<1>4. CASE q.fn = "tables"
  <2>1. RowOf(q.meta[i]) = q.meta[i]
    BY <1>4 DEF RowOf
  <2>2. CASE q.meta \in Seq(TableRows)
    <3>1. q.meta[i] \in TableRows
      BY <2>2, SeqRange
    <3>2. c \in {"TABLE_CAT", "TABLE_SCHEM", "TABLE_NAME", "TABLE_TYPE"}
      BY <1>2, <1>4 DEF QueryOK
    <3> QED BY <2>1, <3>1, <3>2, TableRowFull
  <2>3. CASE q.types /\ q.meta = <<TypeOnly>>
    <3>1. c = "TABLE_TYPE"
      BY <1>2, <1>4, <2>3 DEF QueryOK
    <3>2. q.meta[i] = TypeOnly
      BY <2>3
    <3>3. TypeOnly.TABLE_TYPE = "TABLE" /\ "TABLE" \in Literals
      BY DEF TypeOnly, Literals
    <3> QED BY <2>1, <3>1, <3>2, <3>3, TextIsNoNull
  <2> QED BY <1>2, <1>4, <2>2, <2>3 DEF QueryOK
<1>5. CASE q.fn = "columns"
  <2>1. RowOf(q.meta[i]) = ColumnOf(q.meta[i])
    BY <1>5 DEF RowOf
  <2>2. q.meta \in Seq(ColumnRows) /\ c \in ColumnsNoNull
    BY <1>2, <1>5 DEF QueryOK
  <2>3. q.meta[i] \in ColumnRows
    BY <2>2, SeqRange
  <2> QED BY <2>1, <2>2, <2>3, ColumnFull
<1>6. CASE q.fn = "types"
  <2>1. RowOf(q.meta[i]) = TypeOf(q.meta[i])
    BY <1>6 DEF RowOf
  <2>2. q.meta \in Seq(ScalarTypes) /\ c \in TypesNoNull
    BY <1>2, <1>6 DEF QueryOK
  <2>3. q.meta[i] \in ScalarTypes
    BY <2>2, SeqRange
  <2> QED BY <2>1, <2>2, <2>3, TypeFull
<1> QED BY <1>3, <1>4, <1>5, <1>6

\* Each type is in the list of SQLGetTypeInfo.
LEMMA AllTypesListed ==
    ASSUME NEW b \in ScalarTypes
    PROVE  \E j \in DOMAIN AllTypes : AllTypes[j] = b
<1>1. DOMAIN AllTypes = 1 .. 12
  BY DEF AllTypes
<1>2. /\ AllTypes[1] = "VARCHAR" /\ AllTypes[2] = "BOOLEAN" /\ AllTypes[3] = "BIGINT"
      /\ AllTypes[4] = "DOUBLE" /\ AllTypes[5] = "TIMESTAMP" /\ AllTypes[6] = "DATE"
      /\ AllTypes[7] = "TIME" /\ AllTypes[8] = "INTERVAL_DAY_TO_SECOND"
      /\ AllTypes[9] = "INTERVAL_YEAR_TO_MONTH" /\ AllTypes[10] = "INTEGER"
      /\ AllTypes[11] = "NOT_SET" /\ AllTypes[12] = "UNKNOWN"
  BY DEF AllTypes
<1> QED BY <1>1, <1>2 DEF ScalarTypes

\* The SQL type of a type is the SQL type of the type it is read back as.
LEMMA TypeRoundTrip ==
    ASSUME NEW b \in ScalarTypes, NEW t, t = BinaryToSqlType(b)
    PROVE  BinaryToSqlType(SqlTypeToBinary(t)) = t
<1>1. CASE b \in {"VARCHAR", "NOT_SET", "UNKNOWN"}
  BY <1>1 DEF BinaryToSqlType, SqlTypeToBinary, Intervals
<1>2. CASE b \in Intervals \cup {"INTEGER", "BIGINT", "DOUBLE"}
  BY <1>2 DEF BinaryToSqlType, SqlTypeToBinary, Intervals
<1>3. CASE b \in {"BOOLEAN", "DATE", "TIME", "TIMESTAMP"}
  BY <1>3 DEF BinaryToSqlType, SqlTypeToBinary, Intervals
<1> QED BY <1>1, <1>2, <1>3 DEF ScalarTypes, Intervals

\* The invariant gives TypesAreListed.
LEMMA TypesListedInv ==
    ASSUME CatalogInv
    PROVE  TypesAreListed
<1>1. q = NoQuery \/ QueryOK(q)
  BY DEF CatalogInv, Good, CallOK
<1>2. ASSUME Answered("columns"), NEW i \in DOMAIN q.meta
      PROVE  \E j \in DOMAIN AllTypes :
                \A c \in {"TYPE_NAME", "DATA_TYPE", "SQL_DATA_TYPE", "COLUMN_SIZE",
                          "NUM_PREC_RADIX"} :
                    ColumnOf(q.meta[i])[c] = TypeOf(AllTypes[j])[c]
  <2>1. q.fn = "columns" /\ q # NoQuery
    BY <1>2 DEF Answered, NoQuery
  <2>2. q.meta \in Seq(ColumnRows)
    BY <1>1, <2>1 DEF QueryOK
  <2>3. q.meta[i] \in ColumnRows
    BY <1>2, <2>2, SeqRange
  <2> DEFINE r == q.meta[i]
             b == r.type
  <2>4. b \in ScalarTypes
    BY <2>3 DEF ColumnRows
  <2> HIDE DEF r, b
  <2>5. PICK j \in DOMAIN AllTypes : AllTypes[j] = b
    BY <2>4, AllTypesListed
  <2> DEFINE x == ColumnOf(r)
             y == TypeOf(b)
             t == BinaryToSqlType(b)
  <2>6. /\ x.DATA_TYPE = t /\ x.SQL_DATA_TYPE = t
        /\ x.TYPE_NAME = BinaryTypeToSqlTypeName(b)
        /\ x.COLUMN_SIZE = SqlTypeColumnSize(t) /\ x.NUM_PREC_RADIX = SqlTypeNumPrecRadix(t)
    BY ColumnOfIs DEF b
  <2>7. /\ y.DATA_TYPE = t /\ y.SQL_DATA_TYPE = t
        /\ y.TYPE_NAME = BinaryTypeToSqlTypeName(b)
        /\ y.COLUMN_SIZE = SqlTypeColumnSize(t) /\ y.NUM_PREC_RADIX = SqlTypeNumPrecRadix(t)
    BY TypeOfIs
  <2> HIDE DEF x, y, t
  <2>8. \A c \in {"TYPE_NAME", "DATA_TYPE", "SQL_DATA_TYPE", "COLUMN_SIZE",
                  "NUM_PREC_RADIX"} : x[c] = y[c]
    BY <2>6, <2>7
  <2>9. x = ColumnOf(q.meta[i]) /\ y = TypeOf(AllTypes[j])
    BY <2>5 DEF x, y, r
  <2> QED BY <2>8, <2>9
<1>3. ASSUME Answered("types"), q.arg \in {BinaryToSqlType(b) : b \in ScalarTypes}
      PROVE  TypeOf(q.meta[1]).DATA_TYPE = q.arg
  <2>1. q.fn = "types" /\ q # NoQuery
    BY <1>3 DEF Answered, NoQuery
  <2>2. PICK b \in ScalarTypes : q.arg = BinaryToSqlType(b)
    BY <1>3
  <2>3. q.arg # "ALL_TYPES"
    BY <2>2 DEF ScalarTypes, BinaryToSqlType
  <2>4. q.meta = <<SqlTypeToBinary(q.arg)>>
    BY <1>1, <2>1, <2>3 DEF QueryOK
  <2>5. q.meta[1] = SqlTypeToBinary(q.arg)
    BY <2>4
  <2>6. BinaryToSqlType(SqlTypeToBinary(q.arg)) = q.arg
    BY <2>2, TypeRoundTrip
  <2> QED BY <2>5, <2>6, TypeOfIs
<1> QED BY <1>2, <1>3 DEF TypesAreListed

-----------------------------------------------------------------------------
(* Tables *)

\* Matching, as the invariant has it.
LEMMA MatchingIs ==
    ASSUME NEW a
    PROVE  /\ Matching(a) = MatchingFor(env, metadataID, a)
           /\ Main(a) = MainOf(env, a) /\ Other(a) = OtherOf(env, a)
BY DEF Matching, MatchingFor, TablesOf, DatabasesFor, SameName, Main, MainOf, Other, OtherOf

\* The invariant gives LossIsRecorded.
LEMMA LossRecordedInv ==
    ASSUME CatalogInv
    PROVE  LossIsRecorded
<1>1. Good(env, metadataID, changes, q, job, recorded, calm)
  BY DEF CatalogInv
<1>2. (Answered("tables") \/ Answered("columns")) /\ changes = 0 /\ ~recorded => calm
  BY <1>1 DEF Good, Answered
<1>3. ASSUME Answered("columns"), changes = 0, ~recorded, ~metadataID,
             q.arg.column \in {NULL, ALL}, NEW m \in Matching(q.arg)
      PROVE  \E i \in DOMAIN q.meta : m = <<DatabaseOf(q.meta[i]), q.meta[i].TABLE_NAME>>
  <2>1. CoverOK(env, metadataID, q, job, recorded)
    BY <1>1, <1>2, <1>3 DEF Good
  <2>2. q.fn = "columns" /\ job.step = "idle" /\ q.ret \in Succeeded
    BY <1>3 DEF Answered, Ready
  <2>3. MatchingFor(env, metadataID, q.arg) \subseteq Pairs(q.meta)
    BY <1>3, <2>1, <2>2 DEF CoverOK
  <2>4. m \in Pairs(q.meta)
    BY <1>3, <2>3, MatchingIs
  <2> QED BY <2>4 DEF Pairs, Pair
<1> QED BY <1>2, <1>3 DEF LossIsRecorded

\* As many pairs as rows.
LEMMA ApartCount ==
    ASSUME NEW R, NEW rows \in Seq(R), Apart(rows)
    PROVE  Cardinality(Pairs(rows)) = Len(rows)
<1> DEFINE f == [i \in 1 .. Len(rows) |-> Pair(rows[i])]
<1>1. DOMAIN rows = 1 .. Len(rows) /\ Len(rows) \in Nat
  OBVIOUS
<1>2. f \in Injection(1 .. Len(rows), Pairs(rows))
  BY <1>1 DEF Injection, IsInjective, Apart, Pairs
<1>3. f \in Surjection(1 .. Len(rows), Pairs(rows))
  BY <1>1 DEF Surjection, Pairs
<1>4. f \in Bijection(1 .. Len(rows), Pairs(rows))
  BY <1>2, <1>3 DEF Bijection
<1>5. IsFiniteSet(1 .. Len(rows)) /\ Cardinality(1 .. Len(rows)) = Len(rows)
  BY <1>1, FS_Interval
<1> HIDE DEF f
<1>6. ExistsBijection(1 .. Len(rows), Pairs(rows))
  BY <1>4 DEF ExistsBijection
<1>7. Cardinality(Pairs(rows)) = Cardinality(1 .. Len(rows))
  BY <1>5, <1>6, FS_Bijection
<1> QED BY <1>5, <1>7

\* The invariant gives TablesAreThoseMatching, where names tell databases apart.
LEMMA TablesMatchedInv ==
    ASSUME CatalogInv, NamesApart
    PROVE  TablesAreThoseMatching
<1> SUFFICES ASSUME Answered("tables"), calm, ~q.catalogs, ~q.schemas, ~q.types
             PROVE  LET rows == {<<DatabaseOf(q.meta[i]), q.meta[i].TABLE_NAME>> :
                                   i \in DOMAIN q.meta}
                    IN /\ rows = IF ValidTableType(q.arg.type)
                                    /\ (metadataID \/ Other(q.arg) \in {NULL, "", ALL})
                                 THEN Matching(q.arg) ELSE {}
                       /\ Cardinality(rows) = Len(q.meta)
  BY DEF TablesAreThoseMatching
<1>1. MatchOK(env, metadataID, q, job)
  BY DEF CatalogInv, Good
<1>2. q.fn = "tables" /\ job.step = "idle" /\ q.ret \in Succeeded /\ Plain(q)
  BY DEF Answered, Ready, Plain
<1>3. Pairs(q.meta) = Expected(env, metadataID, q.arg) /\ Apart(q.meta)
  BY <1>1, <1>2 DEF MatchOK
<1>4. q # NoQuery
  BY <1>2 DEF NoQuery
<1>5. QueryOK(q)
  BY <1>4 DEF CatalogInv, Good, CallOK
<1>6. q.meta \in Seq(TableRows)
  BY <1>2, <1>5 DEF QueryOK, Plain
<1>7. Cardinality(Pairs(q.meta)) = Len(q.meta)
  BY <1>3, <1>6, ApartCount
<1>8. Pairs(q.meta) = {<<DatabaseOf(q.meta[i]), q.meta[i].TABLE_NAME>> : i \in DOMAIN q.meta}
  BY DEF Pairs, Pair
<1>9. Expected(env, metadataID, q.arg) =
        IF ValidTableType(q.arg.type) /\ (metadataID \/ Other(q.arg) \in {NULL, "", ALL})
        THEN Matching(q.arg) ELSE {}
  BY MatchingIs DEF Expected, Placeless
<1> QED BY <1>3, <1>7, <1>8, <1>9

-----------------------------------------------------------------------------
(* SQLGetInfo and the place of the database *)

\* The infix form of Merged.
LEMMA JoinIs ==
    ASSUME NEW f, NEW g
    PROVE  f @@ g = Merged(f, g)
BY DEF @@

\* An entry of two tables put together comes from the first that has it.
LEMMA JoinFinds ==
    ASSUME NEW f, NEW g, NEW x, x \in DOMAIN f
    PROVE  x \in DOMAIN (f @@ g) /\ (f @@ g)[x] = f[x]
BY JoinIs DEF Merged

\* ... or from the second ...
LEMMA JoinSkips ==
    ASSUME NEW f, NEW g, NEW x, x \notin DOMAIN f, x \in DOMAIN g
    PROVE  x \in DOMAIN (f @@ g) /\ (f @@ g)[x] = g[x]
BY JoinIs DEF Merged

\* ... and is missing when neither has it.
LEMMA JoinLacks ==
    ASSUME NEW f, NEW g, NEW x, x \notin DOMAIN f, x \notin DOMAIN g
    PROVE  x \notin DOMAIN (f @@ g)
BY JoinIs DEF Merged

\* SQL_CATALOG_NAME and SQL_SCHEMA_USAGE follow the variable as it was when the
\* connection was made.
LEMMA Announced ==
    ASSUME infoEnv \in BOOLEAN
    PROVE  /\ GetInfo(Info[infoEnv], "CATALOG_NAME", "room").value = "Y" <=> ~infoEnv
           /\ GetInfo(Info[infoEnv], "SCHEMA_USAGE", "room").value # {} <=> infoEnv
<1> DEFINE texts == Identity @@ Abilities @@ DeprecatedTexts
           own   == QualifierTexts(infoEnv)
           lib   == [DRIVER_NAME |-> "driver", DRIVER_VER |-> "version"]
           strs  == texts @@ own @@ lib
           i1    == Interface @@ ScalarFunctions @@ CursorsAndConversions
           i2    == i1 @@ ParametersAndScrolling @@ Creation @@ CreationOfTables
           i3    == i2 @@ Removal @@ DynamicCursors @@ ForwardOnlyCursors
           i4    == i3 @@ SchemaViews @@ KeysetCursors @@ Rights @@ Deprecated
           usage == QualifierUsage(infoEnv)
           ints  == i4 @@ usage @@ CatalogLocation(infoEnv)
           info  == Info[infoEnv]
<1>1. info.strParams = strs /\ info.intParams = ints
  BY DEF Info, NewInfo
<1>2. \A x \in {"CATALOG_NAME", "SCHEMA_USAGE"} : x \notin DOMAIN texts
  <2> SUFFICES ASSUME NEW x \in {"CATALOG_NAME", "SCHEMA_USAGE"}
               PROVE  x \notin DOMAIN texts
    OBVIOUS
  <2>1. x \notin DOMAIN Identity
    BY JoinLacks DEF Identity, Blank, All
  <2>2. x \notin DOMAIN Abilities
    BY JoinLacks DEF Abilities, Blank, All
  <2>3. x \notin DOMAIN DeprecatedTexts
    BY DEF DeprecatedTexts, Blank, All
  <2>4. x \notin DOMAIN (Identity @@ Abilities)
    BY <2>1, <2>2, JoinLacks
  <2> QED BY <2>3, <2>4, JoinLacks
<1>3. "SCHEMA_USAGE" \notin DOMAIN i4
  <2> DEFINE x == "SCHEMA_USAGE"
  <2>1. x \notin DOMAIN Interface
    BY JoinLacks DEF Interface, None, All
  <2>2. x \notin DOMAIN ScalarFunctions
    BY JoinLacks DEF ScalarFunctions, None, All
  <2>3. x \notin DOMAIN CursorsAndConversions
    BY JoinLacks DEF CursorsAndConversions, None, All
  <2>4. x \notin DOMAIN ParametersAndScrolling
    BY JoinLacks DEF ParametersAndScrolling, None, All
  <2>5. x \notin DOMAIN Creation
    BY DEF Creation, None, All
  <2>6. x \notin DOMAIN CreationOfTables
    BY JoinLacks DEF CreationOfTables, None, All
  <2>7. x \notin DOMAIN Removal
    BY JoinLacks DEF Removal, None, All
  <2>8. x \notin DOMAIN DynamicCursors
    BY DEF DynamicCursors, None, All
  <2>9. x \notin DOMAIN ForwardOnlyCursors
    BY JoinLacks DEF ForwardOnlyCursors, None, All
  <2>10. x \notin DOMAIN SchemaViews
    BY DEF SchemaViews, None, All
  <2>11. x \notin DOMAIN KeysetCursors
    BY DEF KeysetCursors, None, All
  <2>12. x \notin DOMAIN Rights
    BY JoinLacks DEF Rights, None, All
  <2>13. x \notin DOMAIN Deprecated
    <3>1. x \notin DOMAIN (None({"TXN_ISOLATION_OPTION", "POSITIONED_STATEMENTS",
                                 "STATIC_SENSITIVITY"})
                           @@ All({"UNION"}, {"U_UNION", "U_UNION_ALL"}))
      BY JoinLacks DEF None, All
    <3> QED BY <3>1, JoinLacks DEF Deprecated
  <2> HIDE DEF x
  <2>14. x \notin DOMAIN i1
    <3>1. x \notin DOMAIN (Interface @@ ScalarFunctions)
      BY <2>1, <2>2, JoinLacks
    <3> QED BY <2>3, <3>1, JoinLacks
  <2> HIDE DEF i1
  <2>15. x \notin DOMAIN i2
    <3>1. x \notin DOMAIN (i1 @@ ParametersAndScrolling)
      BY <2>4, <2>14, JoinLacks
    <3>2. x \notin DOMAIN (i1 @@ ParametersAndScrolling @@ Creation)
      BY <2>5, <3>1, JoinLacks
    <3> QED BY <2>6, <3>2, JoinLacks
  <2> HIDE DEF i2
  <2>16. x \notin DOMAIN i3
    <3>1. x \notin DOMAIN (i2 @@ Removal)
      BY <2>7, <2>15, JoinLacks
    <3>2. x \notin DOMAIN (i2 @@ Removal @@ DynamicCursors)
      BY <2>8, <3>1, JoinLacks
    <3> QED BY <2>9, <3>2, JoinLacks
  <2> HIDE DEF i3
  <2>17. x \notin DOMAIN i4
    <3>1. x \notin DOMAIN (i3 @@ SchemaViews)
      BY <2>10, <2>16, JoinLacks
    <3>2. x \notin DOMAIN (i3 @@ SchemaViews @@ KeysetCursors)
      BY <2>11, <3>1, JoinLacks
    <3>3. x \notin DOMAIN (i3 @@ SchemaViews @@ KeysetCursors @@ Rights)
      BY <2>12, <3>2, JoinLacks
    <3> QED BY <2>13, <3>3, JoinLacks
  <2> QED BY <2>17 DEF x
<1>4. /\ "CATALOG_NAME" \in DOMAIN own /\ "SCHEMA_USAGE" \notin DOMAIN own
      /\ own["CATALOG_NAME"] = IF infoEnv THEN "N" ELSE "Y"
      /\ "SCHEMA_USAGE" \notin DOMAIN lib
  BY DEF QualifierTexts
<1>5. /\ "SCHEMA_USAGE" \in DOMAIN usage
      /\ usage["SCHEMA_USAGE"] # {} <=> infoEnv
  BY DEF QualifierUsage
<1> HIDE DEF texts, own, lib, i4, usage
<1>6. "CATALOG_NAME" \in DOMAIN strs /\ strs["CATALOG_NAME"] = own["CATALOG_NAME"]
  <2>1. /\ "CATALOG_NAME" \in DOMAIN (texts @@ own)
        /\ (texts @@ own)["CATALOG_NAME"] = own["CATALOG_NAME"]
    BY <1>2, <1>4, JoinSkips
  <2> QED BY <2>1, JoinFinds
<1>7. "SCHEMA_USAGE" \notin DOMAIN strs
  <2>1. "SCHEMA_USAGE" \notin DOMAIN (texts @@ own)
    BY <1>2, <1>4, JoinLacks
  <2> QED BY <1>4, <2>1, JoinLacks
<1>8. "SCHEMA_USAGE" \in DOMAIN ints /\ ints["SCHEMA_USAGE"] = usage["SCHEMA_USAGE"]
  <2>1. /\ "SCHEMA_USAGE" \in DOMAIN (i4 @@ usage)
        /\ (i4 @@ usage)["SCHEMA_USAGE"] = usage["SCHEMA_USAGE"]
    BY <1>3, <1>5, JoinSkips
  <2> QED BY <2>1, JoinFinds
<1> HIDE DEF strs, ints, info
<1>9. GetInfo(info, "CATALOG_NAME", "room").value = strs["CATALOG_NAME"]
  BY <1>1, <1>6 DEF GetInfo
<1>10. GetInfo(info, "SCHEMA_USAGE", "room").value = ints["SCHEMA_USAGE"]
  BY <1>1, <1>7, <1>8 DEF GetInfo
<1>11. GetInfo(info, "CATALOG_NAME", "room").value = "Y" <=> ~infoEnv
  BY <1>4, <1>6, <1>9
<1>12. GetInfo(info, "SCHEMA_USAGE", "room").value # {} <=> infoEnv
  BY <1>5, <1>8, <1>10
<1> QED BY <1>11, <1>12 DEF info

\* The invariant gives PlacedAsAnnounced.
LEMMA PlacedInv ==
    ASSUME CatalogInv
    PROVE  PlacedAsAnnounced
<1> SUFFICES ASSUME changes = 0, Ready, q.fn \in {"tables", "columns"},
                    NEW i \in DOMAIN q.meta, q.meta[i] # TypeOnly
             PROVE  LET catalogs == GetInfo(Info[infoEnv], "CATALOG_NAME", "room").value = "Y"
                        schemas  == GetInfo(Info[infoEnv], "SCHEMA_USAGE", "room").value # {}
                    IN /\ (q.meta[i].TABLE_CAT \notin {NULL, ""}) <=> catalogs
                       /\ (q.meta[i].TABLE_SCHEM \notin {NULL, ""}) <=> schemas
                       /\ catalogs # schemas
  BY DEF PlacedAsAnnounced
<1>1. env = infoEnv /\ infoEnv \in BOOLEAN /\ PlaceOK(env, q, job)
  BY DEF CatalogInv, Good
<1>2. PlacedTable(env, q.meta[i]) \/ PlacedColumn(env, q.meta[i])
  BY <1>1 DEF PlaceOK
<1>3. NULL \notin DatabaseNames /\ "" \notin DatabaseNames
  BY ServerIs
<1>4. (q.meta[i].TABLE_CAT \notin {NULL, ""}) <=> ~env
  BY <1>1, <1>2, <1>3 DEF PlacedTable, PlacedColumn
<1>5. (q.meta[i].TABLE_SCHEM \notin {NULL, ""}) <=> env
  BY <1>1, <1>2, <1>3 DEF PlacedTable, PlacedColumn
<1> DEFINE catalogs == GetInfo(Info[infoEnv], "CATALOG_NAME", "room").value = "Y"
           schemas  == GetInfo(Info[infoEnv], "SCHEMA_USAGE", "room").value # {}
<1>6. (catalogs <=> ~env) /\ (schemas <=> env)
  BY <1>1, Announced
<1>7. catalogs # schemas
  BY <1>6, Zenon
<1> QED BY <1>4, <1>5, <1>6, <1>7

-----------------------------------------------------------------------------
(* The theorems *)

\* Whatever the service answers and whenever the environment variable changes, a
\* column that a result set describes as NO_NULL is NULL in none of its rows.
THEOREM NullsDeclared == Spec => []NoNullWhereDeclared
<1>1. CatalogInv => NoNullWhereDeclared
  BY NoNullInv
<1> QED BY <1>1, CatalogSafe, PTL

\* The type of each column that SQLColumns returns is one that SQLGetTypeInfo lists,
\* with the same name, size and radix; and SQLGetTypeInfo for one type answers it.
THEOREM TypesListed == Spec => []TypesAreListed
<1>1. CatalogInv => TypesAreListed
  BY TypesListedInv
<1> QED BY <1>1, CatalogSafe, PTL

\* While DATABASE_AS_SCHEMA stays as it was, a call of SQLTables or SQLColumns that
\* succeeded and left no diagnostic record lost nothing: SQLTables was not disturbed,
\* and SQLColumns for every column has rows of each table that matches.
THEOREM LossRecorded == Spec => []LossIsRecorded
<1>1. CatalogInv => LossIsRecorded
  BY LossRecordedInv
<1> QED BY <1>1, CatalogSafe, PTL

\* Where no two databases differ in case only, an undisturbed SQLTables that succeeds
\* returns the tables that match its arguments, each once.  The hypothesis is needed:
\* with SQL_ATTR_METADATA_ID the driver asks the first database of that name only.
THEOREM TablesMatched == ASSUME NamesApart PROVE Spec => []TablesAreThoseMatching
<1>1. CatalogInv => TablesAreThoseMatching
  BY TablesMatchedInv
<1> QED BY <1>1, CatalogSafe, PTL

\* While DATABASE_AS_SCHEMA stays as it was when the connection was made, the database
\* of each row of SQLTables and SQLColumns is where SQLGetInfo announced it, and only
\* there.
THEOREM DatabasesPlaced == Spec => []PlacedAsAnnounced
<1>1. CatalogInv => PlacedAsAnnounced
  BY PlacedInv
<1> QED BY <1>1, CatalogSafe, PTL
=============================================================================
