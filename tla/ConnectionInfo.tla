--------------------------- MODULE ConnectionInfo ---------------------------
(***************************************************************************)
(* The tables behind SQLGetInfo (config/connection_info.cpp).  The         *)
(* constructor fills three maps: texts (strParams), bit masks of 32 bits   *)
(* (intParams) and words of 16 bits (shortParams).  A bit mask is the set  *)
(* of its bits by name, without the SQL_ prefix; 0 is the empty set, which *)
(* for a limit means that there is none.  Six entries depend on the        *)
(* environment variable DATABASE_AS_SCHEMA as it is when the Connection is *)
(* constructed.                                                            *)
(***************************************************************************)
EXTENDS Naturals, Tables

NAMEDATALEN    == 64
MAX_CURSOR_LEN == 32

None(types)  == All(types, {})
Blank(types) == All(types, "")

\* What the driver and the data source are called.
Identity ==
    Blank({"DBMS_VER", "COLLATION_SEQ"})
 @@ [DBMS_NAME |-> "Trino", DRIVER_ODBC_VER |-> "03.00",
     COLUMN_ALIAS |-> "Y", IDENTIFIER_QUOTE_CHAR |-> "\"",
     CATALOG_NAME_SEPARATOR |-> ".", SPECIAL_CHARACTERS |-> "_",
     TABLE_TERM |-> "table", NEED_LONG_DATA_LEN |-> "N",
     ACCESSIBLE_PROCEDURES |-> "N", ACCESSIBLE_TABLES |-> "N"]

\* Names and yes-or-no abilities.
Abilities ==
    Blank({"DATA_SOURCE_NAME", "DATABASE_NAME", "KEYWORDS",
     "PROCEDURE_TERM", "SEARCH_PATTERN_ESCAPE", "USER_NAME"})
 @@ [DATA_SOURCE_READ_ONLY |-> "Y", DESCRIBE_PARAMETER |-> "N",
     EXPRESSIONS_IN_ORDERBY |-> "Y", INTEGRITY |-> "N",
     LIKE_ESCAPE_CLAUSE |-> "Y", MAX_ROW_SIZE_INCLUDES_LONG |-> "Y",
     MULT_RESULT_SETS |-> "N", MULTIPLE_ACTIVE_TXN |-> "Y",
     ORDER_BY_COLUMNS_IN_SELECT |-> "Y", PROCEDURES |-> "N",
     ROW_UPDATES |-> "N", SERVER_NAME |-> "AWS Trino"]

\* Asynchronous calls, batches, SQLGetData and conformance.
Interface ==
    None({"BATCH_ROW_COUNT", "BATCH_SUPPORT", "BOOKMARK_PERSISTENCE"})
 @@ [ASYNC_DBC_FUNCTIONS |-> {"ASYNC_DBC_NOT_CAPABLE"},
     ASYNC_MODE |-> {"AM_NONE"},
     ASYNC_NOTIFICATION |-> {"ASYNC_NOTIFICATION_NOT_CAPABLE"},
     GETDATA_EXTENSIONS |-> {"GD_ANY_COLUMN", "GD_ANY_ORDER", "GD_BOUND",
     "GD_BLOCK"}, ODBC_INTERFACE_CONFORMANCE |-> {"OIC_CORE"},
     SQL_CONFORMANCE |-> {"SC_SQL92_ENTRY"}]

\* Scalar functions, predicates and joins.
ScalarFunctions ==
    None({"DATETIME_LITERALS", "POS_OPERATIONS",
     "SQL92_NUMERIC_VALUE_FUNCTIONS"})
 @@ [AGGREGATE_FUNCTIONS |-> {"AF_ALL"},
     NUMERIC_FUNCTIONS |-> {"FN_NUM_ABS", "FN_NUM_ATAN", "FN_NUM_ATAN2",
     "FN_NUM_COS", "FN_NUM_COT", "FN_NUM_DEGREES", "FN_NUM_FLOOR",
     "FN_NUM_LOG", "FN_NUM_LOG10", "FN_NUM_PI", "FN_NUM_POWER",
     "FN_NUM_RADIANS", "FN_NUM_ROUND", "FN_NUM_SIGN", "FN_NUM_SIN",
     "FN_NUM_SQRT", "FN_NUM_TAN"}, STRING_FUNCTIONS |-> {"FN_STR_ASCII",
     "FN_STR_LENGTH", "FN_STR_LTRIM", "FN_STR_REPLACE", "FN_STR_RTRIM",
     "FN_STR_SUBSTRING"}, TIMEDATE_FUNCTIONS |-> {"FN_TD_CURDATE",
     "FN_TD_DAYOFMONTH", "FN_TD_MONTH", "FN_TD_MONTHNAME", "FN_TD_NOW",
     "FN_TD_YEAR"}, TIMEDATE_ADD_INTERVALS |-> {"FN_TSI_FRAC_SECOND",
     "FN_TSI_SECOND", "FN_TSI_MINUTE", "FN_TSI_HOUR", "FN_TSI_DAY",
     "FN_TSI_WEEK", "FN_TSI_MONTH", "FN_TSI_QUARTER", "FN_TSI_YEAR"},
     TIMEDATE_DIFF_INTERVALS |-> {"FN_TSI_FRAC_SECOND", "FN_TSI_SECOND",
     "FN_TSI_MINUTE", "FN_TSI_HOUR", "FN_TSI_DAY", "FN_TSI_WEEK",
     "FN_TSI_MONTH", "FN_TSI_QUARTER", "FN_TSI_YEAR"},
     SYSTEM_FUNCTIONS |-> {"FN_SYS_IFNULL"},
     CONVERT_FUNCTIONS |-> {"FN_CVT_CAST"}, OJ_CAPABILITIES |-> {"OJ_LEFT",
     "OJ_RIGHT", "OJ_NOT_ORDERED", "OJ_ALL_COMPARISON_OPS"},
     SQL92_STRING_FUNCTIONS |-> {"SSF_CONVERT", "SSF_LOWER", "SSF_UPPER",
     "SSF_SUBSTRING", "SSF_TRANSLATE", "SSF_TRIM_BOTH", "SSF_TRIM_LEADING",
     "SSF_TRIM_TRAILING"}, SQL92_DATETIME_FUNCTIONS |-> {"SDF_CURRENT_DATE",
     "SDF_CURRENT_TIME", "SDF_CURRENT_TIMESTAMP"},
     SQL92_VALUE_EXPRESSIONS |-> {"SVE_CASE", "SVE_CAST"},
     SQL92_PREDICATES |-> {"SP_BETWEEN", "SP_COMPARISON", "SP_IN",
     "SP_ISNULL", "SP_LIKE"},
     SQL92_RELATIONAL_JOIN_OPERATORS |-> {"SRJO_CROSS_JOIN",
     "SRJO_INNER_JOIN", "SRJO_LEFT_OUTER_JOIN", "SRJO_RIGHT_OUTER_JOIN"}]

\* Static cursors and CONVERT.
CursorsAndConversions ==
    None({"CONVERT_BINARY", "CONVERT_BIT", "CONVERT_CHAR",
     "CONVERT_LONGVARCHAR", "CONVERT_WCHAR", "CONVERT_WVARCHAR",
     "CONVERT_WLONGVARCHAR", "CONVERT_GUID", "CONVERT_DECIMAL",
     "CONVERT_FLOAT", "CONVERT_REAL", "CONVERT_NUMERIC", "CONVERT_SMALLINT",
     "CONVERT_TINYINT"})
 @@ [STATIC_CURSOR_ATTRIBUTES1 |-> {"CA1_NEXT", "CA1_ABSOLUTE",
     "CA1_RELATIVE", "CA1_BOOKMARK", "CA1_LOCK_NO_CHANGE",
     "CA1_POS_POSITION", "CA1_POS_REFRESH"},
     STATIC_CURSOR_ATTRIBUTES2 |-> {"CA2_READ_ONLY_CONCURRENCY",
     "CA2_CRC_EXACT"}, CONVERT_BIGINT |-> {"CVT_BIGINT", "CVT_DOUBLE"},
     CONVERT_VARCHAR |-> {"CVT_VARCHAR"}, CONVERT_DATE |-> {"CVT_DATE"},
     CONVERT_DOUBLE |-> {"CVT_INTEGER", "CVT_BIGINT", "CVT_DOUBLE"},
     CONVERT_INTEGER |-> {"CVT_INTEGER", "CVT_BIGINT", "CVT_DOUBLE"},
     CONVERT_TIME |-> {"CVT_TIME"}, CONVERT_TIMESTAMP |-> {"CVT_TIMESTAMP"}]

\* Parameter arrays and scrolling.
ParametersAndScrolling ==
    None({"CONVERT_INTERVAL_DAY_TIME", "CONVERT_INTERVAL_YEAR_MONTH",
     "CONVERT_VARBINARY", "CONVERT_LONGVARBINARY", "ALTER_DOMAIN"})
 @@ [PARAM_ARRAY_ROW_COUNTS |-> {"PARC_BATCH"},
     PARAM_ARRAY_SELECTS |-> {"PAS_NO_BATCH"},
     SCROLL_OPTIONS |-> {"SO_FORWARD_ONLY", "SO_STATIC"}]

\* ALTER and CREATE.
Creation ==
    None({"ALTER_TABLE", "CREATE_ASSERTION", "CREATE_CHARACTER_SET",
     "CREATE_COLLATION", "CREATE_DOMAIN", "CREATE_SCHEMA"})

\* CREATE, and what a transaction does to a cursor.
CreationOfTables ==
    None({"CREATE_TABLE", "CREATE_TRANSLATION", "CREATE_VIEW"})
 @@ [CURSOR_COMMIT_BEHAVIOR |-> {"CB_CLOSE"},
     CURSOR_ROLLBACK_BEHAVIOR |-> {"CB_PRESERVE"},
     CURSOR_SENSITIVITY |-> {"INSENSITIVE"}]

\* Indexes, isolation and DROP.
Removal ==
    None({"DEFAULT_TXN_ISOLATION", "DROP_ASSERTION", "DROP_CHARACTER_SET",
     "DROP_COLLATION", "DROP_DOMAIN", "DROP_SCHEMA", "DROP_TABLE",
     "DROP_TRANSLATION", "DROP_VIEW"})
 @@ [DDL_INDEX |-> {"DI_CREATE_INDEX", "DI_DROP_INDEX"}]

\* Dynamic cursors.
DynamicCursors ==
    None({"DYNAMIC_CURSOR_ATTRIBUTES1"})

\* Forward-only cursors.
ForwardOnlyCursors ==
    None({"DYNAMIC_CURSOR_ATTRIBUTES2"})
 @@ [FORWARD_ONLY_CURSOR_ATTRIBUTES1 |-> {"CA1_NEXT"},
     FORWARD_ONLY_CURSOR_ATTRIBUTES2 |-> {"CA2_READ_ONLY_CONCURRENCY",
     "CA2_CRC_EXACT"}, INDEX_KEYWORDS |-> {"IK_NONE"}]

\* INFORMATION_SCHEMA and INSERT.
SchemaViews ==
    None({"INFO_SCHEMA_VIEWS", "INSERT_STATEMENT"})

\* Keyset cursors and lengths without a limit.
KeysetCursors ==
    None({"KEYSET_CURSOR_ATTRIBUTES1", "KEYSET_CURSOR_ATTRIBUTES2",
     "MAX_ASYNC_CONCURRENT_STATEMENTS", "MAX_BINARY_LITERAL_LEN",
     "MAX_CATALOG_NAME_LEN", "MAX_CHAR_LITERAL_LEN", "MAX_INDEX_SIZE",
     "MAX_ROW_SIZE", "MAX_STATEMENT_LEN"})

\* Rights, row values and subqueries.
Rights ==
    None({"SQL92_FOREIGN_KEY_DELETE_RULE", "SQL92_FOREIGN_KEY_UPDATE_RULE",
     "SQL92_GRANT", "SQL92_REVOKE", "STANDARD_CLI_CONFORMANCE"})
 @@ [SQL92_ROW_VALUE_CONSTRUCTOR |-> {"SRVC_VALUE_EXPRESSION", "SRVC_NULL"},
     SUBQUERIES |-> {"SQ_QUANTIFIED", "SQ_IN", "SQ_EXISTS", "SQ_COMPARISON"}]

\* Isolation, UNION, and types kept for old applications.
Deprecated ==
    None({"TXN_ISOLATION_OPTION", "POSITIONED_STATEMENTS",
     "STATIC_SENSITIVITY"})
 @@ All({"UNION"}, {"U_UNION", "U_UNION_ALL"})
 @@ [FETCH_DIRECTION |-> {"FD_FETCH_NEXT", "FD_FETCH_FIRST", "FD_FETCH_LAST",
     "FD_FETCH_PRIOR", "FD_FETCH_ABSOLUTE", "FD_FETCH_RELATIVE",
     "FD_FETCH_BOOKMARK"}, LOCK_TYPES |-> {"LCK_NO_CHANGE"},
     ODBC_API_CONFORMANCE |-> {"OAC_LEVEL1"},
     ODBC_SQL_CONFORMANCE |-> {"OSC_CORE"},
     SCROLL_CONCURRENCY |-> {"SCCO_READ_ONLY"}]

\* Isolation, UNION, and types kept for old applications.
DeprecatedTexts ==
    Blank({"DM_VER", "XOPEN_CLI_YEAR"})

\* Transactions, identifiers and NULL.
Semantics ==
    None({"MAX_CONCURRENT_ACTIVITIES", "ACTIVE_ENVIRONMENTS"})
 @@ [TXN_CAPABLE |-> {"TC_NONE"},
     QUOTED_IDENTIFIER_CASE |-> {"IC_SENSITIVE"},
     CONCAT_NULL_BEHAVIOR |-> {"CB_NULL"}, CORRELATION_NAME |-> {"CN_ANY"},
     FILE_USAGE |-> {"FILE_NOT_SUPPORTED"},
     GROUP_BY |-> {"GB_GROUP_BY_CONTAINS_SELECT"},
     IDENTIFIER_CASE |-> {"IC_SENSITIVE"}]

\* Lengths and counts; 0 is no limit.
Limits ==
    None({"MAX_COLUMNS_IN_GROUP_BY", "MAX_COLUMNS_IN_INDEX",
     "MAX_COLUMNS_IN_ORDER_BY", "MAX_COLUMNS_IN_SELECT",
     "MAX_COLUMNS_IN_TABLE", "MAX_DRIVER_CONNECTIONS",
     "MAX_PROCEDURE_NAME_LEN", "MAX_TABLES_IN_SELECT", "MAX_USER_NAME_LEN"})
 @@ [MAX_COLUMN_NAME_LEN |-> NAMEDATALEN,
     MAX_CURSOR_NAME_LEN |-> MAX_CURSOR_LEN,
     MAX_IDENTIFIER_LEN |-> NAMEDATALEN, MAX_SCHEMA_NAME_LEN |-> NAMEDATALEN,
     MAX_TABLE_NAME_LEN |-> NAMEDATALEN,
     NON_NULLABLE_COLUMNS |-> {"NNC_NON_NULL"},
     NULL_COLLATION |-> {"NC_HIGH"}]

-----------------------------------------------------------------------------
(* The entries that follow DATABASE_AS_SCHEMA *)

\* Mutant of QualifierTexts: the catalog is offered whatever the variable says.
QualifierTextsOneWay(asSchema) ==
    [CATALOG_TERM |-> IF asSchema THEN "" ELSE "database",
     SCHEMA_TERM  |-> IF asSchema THEN "schema" ELSE "",
     CATALOG_NAME |-> "Y"]

QualifierTexts(asSchema) ==
    [CATALOG_TERM |-> IF asSchema THEN "" ELSE "database",
     SCHEMA_TERM  |-> IF asSchema THEN "schema" ELSE "",
     CATALOG_NAME |-> IF asSchema THEN "N" ELSE "Y"]

CatalogLocation(asSchema) ==
    [CATALOG_LOCATION |-> IF asSchema THEN {} ELSE {"CL_START"}]

QualifierUsage(asSchema) ==
    [CATALOG_USAGE |-> IF asSchema THEN {} ELSE {"CU_DML_STATEMENTS"},
     SCHEMA_USAGE  |-> IF asSchema
                       THEN {"SU_DML_STATEMENTS", "SU_TABLE_DEFINITION",
                             "SU_PRIVILEGE_DEFINITION", "SU_INDEX_DEFINITION"}
                       ELSE {}]

\* Driver: the name and the version of the library, which differ by platform.
NewInfo(asSchema) ==
    [strParams   |-> Identity @@ Abilities @@ DeprecatedTexts
                     @@ QualifierTexts(asSchema)
                     @@ [DRIVER_NAME |-> "driver", DRIVER_VER |-> "version"],
     intParams   |-> Interface @@ ScalarFunctions @@ CursorsAndConversions
                     @@ ParametersAndScrolling @@ Creation @@ CreationOfTables
                     @@ Removal @@ DynamicCursors @@ ForwardOnlyCursors
                     @@ SchemaViews @@ KeysetCursors @@ Rights @@ Deprecated
                     @@ QualifierUsage(asSchema) @@ CatalogLocation(asSchema),
     shortParams |-> Semantics @@ Limits]

\* buf: "null", "none" (a buffer of length 0), "short" (the text does not fit)
\* or "room".  A text that is cut is answered like one that fits; numbers need
\* a buffer and ignore its length.
GetInfo(info, type, buf) ==
    LET Failure   == [ret |-> "AI_ERROR", value |-> "nothing"]
        Done(out) == [ret |-> "AI_SUCCESS", value |-> out] IN
    IF type \in DOMAIN info.strParams
    THEN CASE buf = "none"  -> Failure
           [] buf = "null"  -> Done("nothing")
           [] buf = "short" -> Done("part")
           [] OTHER         -> Done(info.strParams[type])
    ELSE IF buf = "null" THEN Failure
    ELSE IF type \in DOMAIN info.intParams THEN Done(info.intParams[type])
    ELSE IF type \in DOMAIN info.shortParams THEN Done(info.shortParams[type])
    ELSE Failure
=============================================================================
