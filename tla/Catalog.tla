------------------------------ MODULE Catalog ------------------------------
(***************************************************************************)
(* SQLTables, SQLColumns and SQLGetTypeInfo (query/table_metadata_query,   *)
(* query/column_metadata_query, query/type_info_query): how the arguments  *)
(* become SHOW and DESCRIBE requests, how the replies become rows, and     *)
(* whether a database is reported as a catalog or as a schema.             *)
(*                                                                         *)
(* The choice is the environment variable DATABASE_AS_SCHEMA, which the    *)
(* code reads again at every use: once when the Connection fills the       *)
(* tables of SQLGetInfo, several times in every call, once for every row.  *)
(* A call takes one step for every request it sends, since the reply is    *)
(* waited for; whoever shares the process may change the variable between  *)
(* two of them.  Reading the rows is module Statement's; here a row is     *)
(* what GetColumn would put into the bound buffers.                        *)
(***************************************************************************)
EXTENDS Naturals, Sequences, FiniteSets, Functions, ConnectionInfo, TypeTraits

CONSTANTS
    NULL,           \* a null argument, boost::none, a NULL in a row
    Server,         \* databases, in the order SHOW DATABASES lists them:
                    \* [name, tables: Seq([name, columns: Seq(column)])]
    Upper,          \* a name |-> its upper case
    TableCalls,     \* arguments of SQLTables: [catalog, schema, table, type]
    ColumnCalls,    \* arguments of SQLColumns: [catalog, schema, table, column]
    TypeCalls,      \* arguments of SQLGetTypeInfo
    MaxChanges      \* bound on the changes of the environment variable

ASSUME CatalogBounds == MaxChanges \in Nat

\* The texts that the driver itself puts into rows.
Literals == {"", "TABLE", "NULLABLE", "NO_NULLS", "NULLABLE_UNKNOWN", "SEARCHABLE", "BIT",
             "TYPE_DATE", "TYPE_TIME", "TYPE_TIMESTAMP"} \cup ScalarTypes

\* No value of a row is taken for a NULL.  The literals are in STRING, but no
\* prover says so.
ASSUME NullAssumption == NULL \notin STRING \cup Literals \cup BOOLEAN \cup Nat

\* The service lists a database, and a table of a database, once, by its name.
ASSUME ServerAssumption ==
    /\ Server \in Seq([name : STRING \ {""},
                       tables : Seq([name : STRING \ {""},
                                     columns : Seq([name : STRING, type : STRING,
                                                    remarks : STRING])])])
    /\ \A i, j \in DOMAIN Server : Server[i].name = Server[j].name => i = j
    /\ \A d \in Range(Server) : \A i, j \in DOMAIN d.tables :
          d.tables[i].name = d.tables[j].name => i = j

\* An argument is a text or null; the table types are a list.
ASSUME CallsAssumption ==
    LET Text == STRING \cup {NULL} IN
    /\ \A a \in TableCalls : /\ a \in [catalog : Text, schema : Text, table : Text,
                                        type : {a.type}]
                             /\ a.type = NULL \/ a.type \subseteq STRING
    /\ \A a \in ColumnCalls : a \in [catalog : Text, schema : Text, table : Text,
                                      column : Text]
    /\ TypeCalls \subseteq STRING

VARIABLES
    env,            \* DATABASE_AS_SCHEMA is "true"
    infoEnv,        \* ... when the connection's info tables were filled
    changes,        \* times env was changed since then
    metadataID,     \* SQL_ATTR_METADATA_ID of the connection
    q,              \* currentQuery
    job,            \* where its Execute waits for a reply
    ret,            \* what the last call answered
    recorded,       \* the call left a status record
    calm            \* no reply was cut, no request failed, env stayed

vars == <<env, infoEnv, changes, metadataID, q, job, ret, recorded, calm>>

ALL       == "%"    \* SQL_ALL_CATALOGS, SQL_ALL_SCHEMAS, SQL_ALL_TABLE_TYPES
Succeeded == {"AI_SUCCESS", "AI_SUCCESS_WITH_INFO"}

\* The argument that names the database, and the one that must not.
Main(a)  == IF env THEN a.schema ELSE a.catalog
Other(a) == IF env THEN a.catalog ELSE a.schema

OrAll(x)   == IF x = NULL THEN ALL ELSE x
Like(p, n) == p \in {ALL, n}            \* LIKE; no other wildcard is used
Named(seq) == [i \in DOMAIN seq |-> seq[i].name]

\* The elements of seq that are in set, in their order: the loops that push_back
\* what they find.  The n-th one has n positions of such elements up to its own.
Keep(seq, set) ==
    LET at      == {i \in DOMAIN seq : seq[i] \in set}
        Rank(i) == Cardinality({j \in at : j <= i}) IN
    [n \in 1 .. Cardinality(at) |-> seq[CHOOSE i \in at : Rank(i) = n]]

Find(seq, n) == Keep(seq, {e \in Range(seq) : e.name = n})
Listed(seq, pattern) == Keep(seq, {e \in Range(seq) : Like(pattern, e.name)})
SameUpper(names, n) == Keep(names, {m \in Range(names) : Upper[m] = Upper[n]})

-----------------------------------------------------------------------------
(* The query objects *)

\* columnsMeta: the columns of a result declared NO_NULL.
\* Mutant: a table has a name, whatever the result lists.
TablesNoNullNamed(catalogs, schemas, types) ==
    IF catalogs \/ schemas THEN {} ELSE {"TABLE_NAME", "TABLE_TYPE"}

TablesNoNull(catalogs, schemas, types) ==
    CASE catalogs -> IF env THEN {} ELSE {"TABLE_CAT"}
      [] ~catalogs /\ schemas -> IF env THEN {"TABLE_SCHEM"} ELSE {}
      [] ~catalogs /\ ~schemas /\ types -> {"TABLE_TYPE"}
      [] OTHER -> {"TABLE_NAME", "TABLE_TYPE"}
ColumnsNoNull == {"TABLE_NAME", "COLUMN_NAME", "DATA_TYPE", "TYPE_NAME", "NULLABLE",
                  "SQL_DATA_TYPE", "ORDINAL_POSITION"}
TypesNoNull   == {"TYPE_NAME", "DATA_TYPE", "NULLABLE", "CASE_SENSITIVE", "SEARCHABLE",
                  "FIXED_PREC_SCALE", "SQL_DATA_TYPE"}

NewTablesQuery(a) ==
    LET catalogs == ~metadataID /\ a.catalog = ALL /\ a.schema = "" /\ a.table = ""
        schemas  == ~metadataID /\ a.schema = ALL /\ a.catalog = "" /\ a.table = ""
        types    == a.type = {ALL} /\ a.catalog = "" /\ a.schema = "" /\ a.table = "" IN
    [fn |-> "tables", arg |-> a, catalogs |-> catalogs, schemas |-> schemas,
     types |-> types, noNull |-> TablesNoNull(catalogs, schemas, types),
     home |-> "none", meta |-> <<>>, executed |-> FALSE, ret |-> "none"]

\* ColumnMetadataQuery owns a TableMetadataQuery without a table type; home is the
\* column of that query's rows the database's name is read back from.
NewColumnsQuery(a) ==
    [NewTablesQuery([catalog |-> a.catalog, schema |-> a.schema, table |-> a.table,
                     type |-> NULL])
     EXCEPT !.fn = "columns", !.arg = a, !.noNull = ColumnsNoNull,
            !.home = IF env THEN "TABLE_SCHEM" ELSE "TABLE_CAT"]

\* db: the database argument that getTables passed on.
Waiting(step, mode, db, todo, tables) ==
    [step |-> step, mode |-> mode, db |-> db, todo |-> todo, tables |-> tables]
Idle == Waiting("idle", "none", NULL, <<>>, <<>>)

\* The state a call is left in: Execute returned r, or waits for a reply.
Return(p, r, rec) ==
    [q |-> [p EXCEPT !.ret = r, !.executed = IF p.fn = "columns" THEN r = "AI_SUCCESS"
                                  ELSE r \in Succeeded],
     job |-> Idle, ret |-> r, recorded |-> rec]
Wait(p, j, rec) == [q |-> p, job |-> j, ret |-> ret, recorded |-> rec]

Becomes(s) == q' = s.q /\ job' = s.job /\ ret' = s.ret /\ recorded' = s.recorded

-----------------------------------------------------------------------------
(* TableMetadataQuery *)

\* TableMeta as getAllDatabases and its like fill it.
TableRow(db, table) ==
    [TABLE_CAT |-> IF env THEN "" ELSE db, TABLE_SCHEM |-> IF env THEN db ELSE "",
     TABLE_NAME |-> table, TABLE_TYPE |-> "TABLE", REMARKS |-> NULL]
TypeOnly == [TABLE_CAT |-> NULL, TABLE_SCHEM |-> NULL, TABLE_NAME |-> NULL,
             TABLE_TYPE |-> "TABLE", REMARKS |-> NULL]

\* A list of types is accepted when one of them is TABLE.
ValidTableType(type) == type = NULL \/ type \in {{}, {ALL}} \/ "TABLE" \in type

\* What getTables does before its first request.
GetTables(p, a) ==
    LET everything == IF env THEN p.schemas ELSE p.catalogs
        nothing    == IF env THEN p.catalogs ELSE p.schemas
        Databases(mode) == Wait(p, Waiting("databases", mode, Main(a), <<>>, <<>>), FALSE) IN
    CASE metadataID ->
            IF Main(a) = NULL \/ a.table = NULL THEN Return(p, "AI_ERROR", TRUE)
            ELSE Databases("identifier")
      [] ~metadataID /\ everything -> Databases("all")
      [] ~metadataID /\ ~everything /\
         (nothing \/ Other(a) \notin {NULL, "", ALL} \/ Main(a) = "" \/ a.table = "") ->
            Return(p, "AI_SUCCESS_WITH_INFO", TRUE)
      [] OTHER -> Databases("pattern")

MakeRequestGetTablesMeta(p, a) ==
    IF p.types THEN Return([p EXCEPT !.meta = <<TypeOnly>>], "AI_SUCCESS", FALSE)
    ELSE IF ValidTableType(a.type) THEN GetTables(p, a)
    ELSE Return(p, "AI_SUCCESS_WITH_INFO", TRUE)

\* Execute of the tables query that a columns query runs first: anything but
\* AI_SUCCESS ends the call with a warning, otherwise each table is described.
TablesDone(p, r, rows, rec) ==
    IF p.fn = "tables" THEN Return([p EXCEPT !.meta = rows], r, rec)
    ELSE IF r # "AI_SUCCESS" THEN Return(p, "AI_SUCCESS_WITH_INFO", TRUE)
    ELSE Wait(p, Waiting("describe", "pattern", NULL,
                  [i \in DOMAIN rows |-> [db    |-> rows[i][p.home],
                                          table |-> rows[i].TABLE_NAME]], <<>>), rec)

\* DataQuery, as module DataQuery has it: Execute fails, or finds no row, or
\* yields rows; a fetch that fails adds a record and ends the caller's loop.
Replies(rows) ==
    {[r |-> "AI_ERROR", rows |-> <<>>, whole |-> FALSE]} \cup
    IF rows = <<>> THEN {[r |-> "AI_NO_DATA", rows |-> <<>>, whole |-> TRUE]}
    ELSE {[r |-> "AI_SUCCESS", rows |-> SubSeq(rows, 1, n), whole |-> n = Len(rows)] :
             n \in 0 .. Len(rows)}

\* Mutant of Recorded: a failing fetch ends the loop without a record.
RecordedFailures(x) == recorded \/ x.r # "AI_SUCCESS"

Recorded(x) == recorded \/ ~x.whole \/ x.r # "AI_SUCCESS"

\* getMatchedDatabases returned to getAllDatabases, getTablesWithIdentifier or
\* getTablesWithSearchPattern.
DatabasesKnown(x) ==
    LET names == Named(x.rows)
        same  == SameUpper(names, job.db)
        rec   == Recorded(x)
        Tables(dbs) == Wait(q, Waiting("tables", job.mode, job.db, dbs, <<>>), rec) IN
    CASE x.r = "AI_ERROR"   -> TablesDone(q, "AI_ERROR", <<>>, TRUE)
      [] x.r = "AI_NO_DATA" -> TablesDone(q, "AI_SUCCESS_WITH_INFO", <<>>, TRUE)
      [] x.r = "AI_SUCCESS" /\ job.mode = "all" ->
            TablesDone(q, "AI_SUCCESS",
                       [i \in DOMAIN names |-> TableRow(names[i], "")], rec)
      [] x.r = "AI_SUCCESS" /\ job.mode = "identifier" /\ same # <<>> -> Tables(<<same[1]>>)
      [] x.r = "AI_SUCCESS" /\ job.mode = "pattern" /\ names # <<>>   -> Tables(names)
      [] OTHER -> TablesDone(q, "AI_SUCCESS_WITH_INFO", <<>>, TRUE)

ShowDatabases ==
    /\ job.step = "databases"
    /\ LET pattern == IF job.mode = "pattern" THEN OrAll(job.db) ELSE ALL IN
       \E x \in Replies(Listed(Server, pattern)) :
          /\ Becomes(DatabasesKnown(x))
          /\ calm' = (calm /\ x.whole)
    /\ UNCHANGED <<env, infoEnv, changes, metadataID>>

\* Mutant of TablesKnown: each database's tables replace the ones before.
TablesKnownLast(x) ==
    LET found == IF job.mode = "identifier"
                 THEN SameUpper(Named(x.rows), q.arg.table)
                 ELSE Named(x.rows)
        rows  == [i \in DOMAIN found |-> TableRow(Head(job.todo), found[i])] IN
    CASE x.r = "AI_ERROR" -> TablesDone(q, "AI_ERROR", job.tables, TRUE)
      [] x.r # "AI_ERROR" /\ Len(job.todo) > 1 ->
            Wait(q, [job EXCEPT !.todo = Tail(@), !.tables = rows], Recorded(x))
      [] x.r # "AI_ERROR" /\ Len(job.todo) = 1 /\ rows = <<>> ->
            TablesDone(q, "AI_SUCCESS_WITH_INFO", <<>>, TRUE)
      [] OTHER -> TablesDone(q, "AI_SUCCESS", rows, Recorded(x))

\* getMatchedTables returned for the first database of todo.
TablesKnown(x) ==
    LET found == IF job.mode = "identifier"
                 THEN SameUpper(Named(x.rows), q.arg.table)
                 ELSE Named(x.rows)
        rows  == job.tables \o [i \in DOMAIN found |-> TableRow(Head(job.todo), found[i])]
        rec   == Recorded(x) IN
    CASE x.r = "AI_ERROR" -> TablesDone(q, "AI_ERROR", job.tables, TRUE)
      [] x.r # "AI_ERROR" /\ Len(job.todo) > 1 ->
            Wait(q, [job EXCEPT !.todo = Tail(@), !.tables = rows], rec)
      [] x.r # "AI_ERROR" /\ Len(job.todo) = 1 /\ rows = <<>> ->
            TablesDone(q, "AI_SUCCESS_WITH_INFO", <<>>, TRUE)
      [] OTHER -> TablesDone(q, "AI_SUCCESS", rows, rec)

ShowTables ==
    /\ job.step = "tables"
    /\ LET pattern == IF job.mode = "pattern" THEN OrAll(q.arg.table) ELSE ALL
           tables  == Find(Server, Head(job.todo))[1].tables IN
       \E x \in Replies(Listed(tables, pattern)) :
          /\ Becomes(TablesKnown(x))
          /\ calm' = (calm /\ x.whole)
    /\ UNCHANGED <<env, infoEnv, changes, metadataID>>

-----------------------------------------------------------------------------
(* ColumnMetadataQuery *)

\* ColumnMeta: the database goes to one of two fields, the other stays none.
\* What GetColumn derives from the type is left to ColumnOf.
ColumnRow(db, table, c, position) ==
    [TABLE_CAT |-> IF env THEN NULL ELSE db, TABLE_SCHEM |-> IF env THEN db ELSE NULL,
     TABLE_NAME |-> table, COLUMN_NAME |-> c.name, ORDINAL_POSITION |-> position,
     type |-> IF c.type \in ScalarTypes THEN c.type ELSE "UNKNOWN",
     NULLABLE |-> IF c.remarks \in {"MEASURE_VALUE", "MULTI"} THEN "NULLABLE"
                  ELSE "NO_NULLS"]

\* Execute, up to its first request.
ExecuteColumns(p, a) ==
    CASE Other(a) \notin {NULL, "", ALL} -> Return(p, "AI_SUCCESS_WITH_INFO", TRUE)
      [] Other(a) \in {NULL, "", ALL} /\ metadataID /\ NULL \in {Main(a), a.table, a.column}
            -> Return(p, "AI_ERROR", TRUE)
      [] Other(a) \in {NULL, "", ALL} /\ (Main(a) = "" \/ a.table = "")
         /\ ~(metadataID /\ NULL \in {Main(a), a.table, a.column})
            -> Return(p, "AI_SUCCESS_WITH_INFO", TRUE)
      [] OTHER -> IF metadataID
                  THEN Wait(p, Waiting("describe", "identifier", NULL,
                              <<[db |-> Main(a), table |-> a.table]>>, <<>>), FALSE)
                  ELSE GetTables(p, a)

\* MakeRequestGetColumnsMetaPerTable returned for the first table of todo.  The
\* columns are kept whose name is the argument; only those are counted.  A table
\* that cannot be described ends the loop.
Described(x) ==
    LET t     == Head(job.todo)
        found == Listed(x.rows, OrAll(q.arg.column))
        rows  == q.meta \o [i \in DOMAIN found |-> ColumnRow(t.db, t.table, found[i], i)]
        p     == [q EXCEPT !.meta = rows]
        rec   == Recorded(x) \/ rows = <<>> IN
    IF x.r # "AI_SUCCESS" THEN Return(q, "AI_NO_DATA", TRUE)
    ELSE IF Len(job.todo) > 1 THEN Wait(p, [job EXCEPT !.todo = Tail(job.todo)], rec)
    ELSE Return(p, IF rows = <<>> THEN "AI_SUCCESS_WITH_INFO" ELSE "AI_SUCCESS", rec)

\* The service finds the table the quoted names name, or answers an error.
Describe ==
    /\ job.step = "describe"
    /\ LET t      == Head(job.todo)
           db     == Find(Server, t.db)
           tables == IF db = <<>> THEN <<>> ELSE Find(db[1].tables, t.table) IN
       \E x \in IF tables = <<>> THEN {[r |-> "AI_ERROR", rows |-> <<>>, whole |-> FALSE]}
                ELSE Replies(tables[1].columns) :
          /\ Becomes(Described(x))
          /\ calm' = (calm /\ x.whole)
    /\ UNCHANGED <<env, infoEnv, changes, metadataID>>

\* What GetColumn puts for a row of SQLColumns.
ColumnOf(row) ==
    LET t == BinaryToSqlType(row.type) IN
    [TABLE_CAT |-> row.TABLE_CAT, TABLE_SCHEM |-> row.TABLE_SCHEM,
     TABLE_NAME |-> row.TABLE_NAME, COLUMN_NAME |-> row.COLUMN_NAME,
     DATA_TYPE |-> t, SQL_DATA_TYPE |-> t,
     TYPE_NAME |-> BinaryTypeToSqlTypeName(row.type),
     COLUMN_SIZE |-> SqlTypeColumnSize(t), BUFFER_LENGTH |-> SqlTypeTransferLength(t),
     DECIMAL_DIGITS |-> IF SqlTypeDecimalDigits(t) < 0 THEN NULL
                        ELSE SqlTypeDecimalDigits(t),
     NUM_PREC_RADIX |-> SqlTypeNumPrecRadix(t), NULLABLE |-> row.NULLABLE,
     REMARKS |-> "remarks", COLUMN_DEF |-> NULL, SQL_DATETIME_SUB |-> NULL,
     CHAR_OCTET_LENGTH |-> SqlTypeCharOctetLength(t),
     ORDINAL_POSITION |-> row.ORDINAL_POSITION,
     IS_NULLABLE |-> NullabilityToIsNullable(row.NULLABLE)]

-----------------------------------------------------------------------------
(* TypeInfoQuery *)

\* Mutant of AllTypes: the types of columns that no ODBC type fits are left out.
AllTypesKnown == <<"VARCHAR", "BOOLEAN", "BIGINT", "DOUBLE", "TIMESTAMP", "DATE", "TIME",
                   "INTERVAL_DAY_TO_SECOND", "INTERVAL_YEAR_TO_MONTH", "INTEGER">>

AllTypes == <<"VARCHAR", "BOOLEAN", "BIGINT", "DOUBLE", "TIMESTAMP", "DATE", "TIME",
              "INTERVAL_DAY_TO_SECOND", "INTERVAL_YEAR_TO_MONTH", "INTEGER", "NOT_SET",
              "UNKNOWN">>

NewTypesQuery(t) ==
    [NewTablesQuery([catalog |-> NULL, schema |-> NULL, table |-> NULL, type |-> NULL])
     EXCEPT !.fn = "types", !.arg = t, !.noNull = TypesNoNull, !.executed = TRUE,
            !.ret = "AI_SUCCESS",
            !.meta = IF t = "ALL_TYPES" THEN AllTypes ELSE <<SqlTypeToBinary(t)>>]

\* What GetColumn puts for a row of SQLGetTypeInfo.
TypeOf(b) ==
    LET t == BinaryToSqlType(b)
        quote == IF b = "VARCHAR" THEN "'" ELSE NULL IN
    [TYPE_NAME |-> BinaryTypeToSqlTypeName(b), DATA_TYPE |-> t, SQL_DATA_TYPE |-> t,
     COLUMN_SIZE |-> SqlTypeColumnSize(t), LITERAL_PREFIX |-> quote,
     LITERAL_SUFFIX |-> quote, CREATE_PARAMS |-> NULL, NULLABLE |-> "NULLABLE_UNKNOWN",
     CASE_SENSITIVE |-> b = "VARCHAR", SEARCHABLE |-> "SEARCHABLE",
     UNSIGNED_ATTRIBUTE |-> SqlTypeUnsigned(t), FIXED_PREC_SCALE |-> FALSE,
     AUTO_UNIQUE_VALUE |-> FALSE, LOCAL_TYPE_NAME |-> NULL,
     MINIMUM_SCALE |-> SqlTypeDecimalDigits(t), MAXIMUM_SCALE |-> SqlTypeDecimalDigits(t),
     SQL_DATETIME_SUB |-> NULL, NUM_PREC_RADIX |-> SqlTypeNumPrecRadix(t),
     INTERVAL_PRECISION |-> NULL]

-----------------------------------------------------------------------------
(* Calls *)

NoQuery == [fn |-> "none", meta |-> <<>>, noNull |-> {}, executed |-> FALSE, ret |-> "none"]

Init ==
    /\ env \in BOOLEAN /\ infoEnv = env /\ changes = 0
    /\ metadataID = FALSE
    /\ q = NoQuery /\ job = Idle /\ ret = "none" /\ recorded = FALSE /\ calm = TRUE

Ready == job.step = "idle"

SQLTables ==
    /\ Ready
    /\ \E a \in TableCalls :
          Becomes(MakeRequestGetTablesMeta(NewTablesQuery(a), a))
    /\ calm' = TRUE
    /\ UNCHANGED <<env, infoEnv, changes, metadataID>>

\* Two empty names are answered before the statement hears of the call.
SQLColumns ==
    /\ Ready
    /\ \E a \in ColumnCalls :
          IF a.catalog = "" /\ a.schema = ""
          THEN /\ ret' = "AI_SUCCESS_WITH_INFO" /\ recorded' = TRUE
               /\ UNCHANGED <<q, job, calm>>
          ELSE /\ Becomes(ExecuteColumns(NewColumnsQuery(a), a))
               /\ calm' = TRUE
    /\ UNCHANGED <<env, infoEnv, changes, metadataID>>

SQLGetTypeInfo ==
    /\ Ready
    /\ \E t \in TypeCalls :
          IF t = "ALL_TYPES" \/ IsSqlTypeSupported(t)
          THEN /\ q' = NewTypesQuery(t) /\ ret' = "AI_SUCCESS"
               /\ recorded' = FALSE /\ calm' = TRUE
          ELSE /\ ret' = "AI_ERROR" /\ recorded' = TRUE /\ UNCHANGED <<q, calm>>
    /\ UNCHANGED <<env, infoEnv, changes, metadataID, job>>

\* SQLCloseCursor.
CloseCatalog ==
    /\ Ready
    /\ q' = NoQuery /\ ret' = "AI_SUCCESS" /\ recorded' = FALSE
    /\ UNCHANGED <<env, infoEnv, changes, metadataID, job, calm>>

SetMetadataID ==
    /\ Ready
    /\ metadataID' \in BOOLEAN
    /\ q' = NoQuery /\ ret' = "AI_SUCCESS" /\ recorded' = FALSE
    /\ UNCHANGED <<env, infoEnv, changes, job, calm>>

\* A new connection: its tables are filled, its attributes are at their defaults.
Connect ==
    /\ Ready
    /\ infoEnv' = env /\ changes' = 0 /\ metadataID' = FALSE
    /\ q' = NoQuery /\ ret' = "none" /\ recorded' = FALSE
    /\ UNCHANGED <<env, job, calm>>

\* setenv, by the application or by another thread while a call waits.
SetEnv ==
    /\ changes < MaxChanges
    /\ env' = ~env /\ changes' = changes + 1 /\ calm' = FALSE
    /\ UNCHANGED <<infoEnv, metadataID, q, job, ret, recorded>>

Next == SQLTables \/ SQLColumns \/ SQLGetTypeInfo \/ ShowDatabases \/ ShowTables
        \/ Describe \/ CloseCatalog \/ SetMetadataID \/ Connect \/ SetEnv

Spec == Init /\ [][Next]_vars

-----------------------------------------------------------------------------
(* Properties *)

Info == [b \in BOOLEAN |-> NewInfo(b)]

Answered(fn) == Ready /\ q.fn = fn /\ q.ret \in Succeeded

\* While DATABASE_AS_SCHEMA stays as it was when the connection was made, the
\* database of every row of SQLTables and SQLColumns is where SQLGetInfo says:
\* in TABLE_CAT when SQL_CATALOG_NAME is "Y", in TABLE_SCHEM when SQL_SCHEMA_USAGE
\* names a use, and never in both.
PlacedAsAnnounced ==
    (changes = 0 /\ Ready /\ q.fn \in {"tables", "columns"}) =>
        LET catalogs == GetInfo(Info[infoEnv], "CATALOG_NAME", "room").value = "Y"
            schemas  == GetInfo(Info[infoEnv], "SCHEMA_USAGE", "room").value # {} IN
        \A i \in DOMAIN q.meta : q.meta[i] # TypeOnly =>
            /\ (q.meta[i].TABLE_CAT \notin {NULL, ""}) <=> catalogs
            /\ (q.meta[i].TABLE_SCHEM \notin {NULL, ""}) <=> schemas
            /\ catalogs # schemas

\* The tables of the service that match the arguments of the call: identifiers
\* ignoring case with SQL_ATTR_METADATA_ID, patterns without.
Matching(a) ==
    LET Same(x, n) == IF metadataID THEN Upper[x] = Upper[n] ELSE Like(OrAll(x), n) IN
    UNION {{<<d.name, t.name>> : t \in {u \in Range(d.tables) : Same(a.table, u.name)}} :
              d \in {e \in Range(Server) : Same(Main(a), e.name)}}

DatabaseOf(row) == IF row.TABLE_CAT \in {NULL, ""} THEN row.TABLE_SCHEM ELSE row.TABLE_CAT

\* SQLTables that was not disturbed returns each table that matches its arguments
\* once, and nothing else; a table type other than TABLE and a name in the place
\* the driver does not use match nothing.
TablesAreThoseMatching ==
    (Answered("tables") /\ calm /\ ~q.catalogs /\ ~q.schemas /\ ~q.types) =>
        LET rows == {<<DatabaseOf(q.meta[i]), q.meta[i].TABLE_NAME>> : i \in DOMAIN q.meta}
        IN /\ rows = IF ValidTableType(q.arg.type)
                        /\ (metadataID \/ Other(q.arg) \in {NULL, "", ALL})
                     THEN Matching(q.arg) ELSE {}
           /\ Cardinality(rows) = Len(q.meta)

\* What a call that answers AI_SUCCESS is missing has left a status record: a list
\* of databases, tables or columns that a failing fetch cut short is not flagged
\* by the return code, only by the record that DataQuery added.
LossIsRecorded ==
    /\ (Answered("tables") /\ changes = 0 /\ ~recorded /\ ~q.catalogs /\ ~q.schemas
        /\ ~q.types) => calm
    /\ (Answered("columns") /\ changes = 0 /\ ~recorded /\ ~metadataID
        /\ q.arg.column \in {NULL, ALL}) =>
        \A m \in Matching(q.arg) : \E i \in DOMAIN q.meta :
            m = <<DatabaseOf(q.meta[i]), q.meta[i].TABLE_NAME>>

RowOf(r) == CASE q.fn = "columns" -> ColumnOf(r) [] q.fn = "types" -> TypeOf(r)
              [] OTHER -> r

\* A column that the result describes as NO_NULL is never NULL, although the
\* description is made before the first request and the rows after the last.
NoNullWhereDeclared ==
    Ready => \A i \in DOMAIN q.meta, c \in q.noNull : RowOf(q.meta[i])[c] # NULL

\* Every column that SQLColumns reports is of a type SQLGetTypeInfo lists, under
\* the same name, SQL type, size and radix; and SQLGetTypeInfo for such a type
\* answers with that type.
TypesAreListed ==
    /\ Answered("columns") =>
        \A i \in DOMAIN q.meta : \E j \in DOMAIN AllTypes :
            \A c \in {"TYPE_NAME", "DATA_TYPE", "SQL_DATA_TYPE", "COLUMN_SIZE",
                      "NUM_PREC_RADIX"} :
                ColumnOf(q.meta[i])[c] = TypeOf(AllTypes[j])[c]
    /\ (Answered("types") /\ q.arg \in {BinaryToSqlType(b) : b \in ScalarTypes}) =>
        TypeOf(q.meta[1]).DATA_TYPE = q.arg
=============================================================================
