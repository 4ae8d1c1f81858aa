----------------------------- MODULE TypeTraits -----------------------------
(***************************************************************************)
(* The three type systems the driver translates between (type_traits.cpp): *)
(* Trino's scalar types, the SQL types of ODBC and the C types of bound    *)
(* buffers.  Every function is a table; SQL types are named without SQL_,  *)
(* C types without SQL_C_, buffer types without AI_.                       *)
(***************************************************************************)
EXTENDS Integers, Tables

ScalarTypes == {"BOOLEAN", "INTEGER", "BIGINT", "DOUBLE", "DATE", "TIME", "TIMESTAMP",
                "INTERVAL_DAY_TO_SECOND", "INTERVAL_YEAR_TO_MONTH", "VARCHAR",
                "NOT_SET", "UNKNOWN"}

MaxLength == 65532     \* TRINO_SQL_MAX_LENGTH
SizeOfSqlWChar == 2    \* sizeof(SQLWCHAR), of Windows and unixODBC; iODBC has 4

Strings   == {"VARCHAR", "WVARCHAR", "CHAR", "WCHAR", "LONGVARCHAR", "WLONGVARCHAR"}
Decimals  == {"DECIMAL", "NUMERIC"}
Intervals == {"INTERVAL_DAY_TO_SECOND", "INTERVAL_YEAR_TO_MONTH"}
Floats    == {"REAL", "FLOAT", "DOUBLE"}
Whole     == {"TINYINT", "SMALLINT", "INTEGER", "BIGINT"}

IsSqlTypeSupported(t) ==
    t \in Strings \cup Decimals \cup Intervals \cup Floats \cup Whole
          \cup {"BIT", "TYPE_DATE", "TYPE_TIME", "TYPE_TIMESTAMP", "TYPE_NULL"}

BinaryTypeToSqlTypeName(b) == IF b = "BOOLEAN" THEN "BIT" ELSE b

BinaryToSqlType(b) ==
    CASE b = "BOOLEAN" -> "BIT"
      [] b = "DATE" -> "TYPE_DATE"
      [] b = "TIME" -> "TYPE_TIME"
      [] b = "TIMESTAMP" -> "TYPE_TIMESTAMP"
      [] b \in Intervals \cup {"INTEGER", "BIGINT", "DOUBLE"} -> b
      [] OTHER -> "VARCHAR"

SqlTypeToBinary(t) ==
    CASE t = "BIT" -> "BOOLEAN"
      [] t = "TYPE_DATE" -> "DATE"
      [] t = "TYPE_TIME" -> "TIME"
      [] t = "TYPE_TIMESTAMP" -> "TIMESTAMP"
      [] t \in Intervals \cup {"INTEGER", "BIGINT", "DOUBLE", "VARCHAR"} -> t
      [] OTHER -> "UNKNOWN"

IntervalTypes ==
    Intervals \cup
    {"INTERVAL_YEAR", "INTERVAL_MONTH", "INTERVAL_DAY", "INTERVAL_HOUR", "INTERVAL_MINUTE",
     "INTERVAL_SECOND", "INTERVAL_DAY_TO_HOUR", "INTERVAL_DAY_TO_MINUTE",
     "INTERVAL_HOUR_TO_MINUTE", "INTERVAL_HOUR_TO_SECOND", "INTERVAL_MINUTE_TO_SECOND"}

\* C type |-> buffer type: the same name for most.
ToDriverType(c) ==
    CASE c \in {"SSHORT", "SHORT"}       -> "SIGNED_SHORT"
      [] c = "USHORT"                    -> "UNSIGNED_SHORT"
      [] c \in {"SLONG", "LONG"}         -> "SIGNED_LONG"
      [] c = "ULONG"                     -> "UNSIGNED_LONG"
      [] c \in {"STINYINT", "TINYINT"}   -> "SIGNED_TINYINT"
      [] c = "UTINYINT"                  -> "UNSIGNED_TINYINT"
      [] c = "SBIGINT"                   -> "SIGNED_BIGINT"
      [] c = "UBIGINT"                   -> "UNSIGNED_BIGINT"
      [] c \in {"DATE", "TYPE_DATE"}     -> "TDATE"
      [] c \in {"TIME", "TYPE_TIME"}     -> "TTIME"
      [] c \in {"TIMESTAMP", "TYPE_TIMESTAMP"} -> "TTIMESTAMP"
      [] c \in {"CHAR", "WCHAR", "FLOAT", "DOUBLE", "BIT", "BINARY", "NUMERIC", "DEFAULT"}
               \cup IntervalTypes               -> c
      [] OTHER                           -> "UNSUPPORTED"

IsApplicationTypeSupported(c) == ToDriverType(c) # "UNSUPPORTED"

-----------------------------------------------------------------------------
(* Sizes *)

SqlTypeDisplaySize(t) ==
    At(All(Strings \cup Decimals, MaxLength) @@ All({"BIT", "TYPE_NULL"}, 1)
       @@ All({"FLOAT", "DOUBLE"}, 24)
       @@ [TINYINT |-> 4, SMALLINT |-> 6, INTEGER |-> 11, BIGINT |-> 20, REAL |-> 14,
           TYPE_DATE |-> 10, TYPE_TIME |-> 8, TYPE_TIMESTAMP |-> 20, GUID |-> 36,
           INTERVAL_DAY_TO_SECOND |-> 25, INTERVAL_YEAR_TO_MONTH |-> 12], t, 0)

SqlTypeColumnSize(t) ==
    At(All(Strings \cup Decimals, MaxLength) @@ All({"BIT", "TYPE_NULL"}, 1)
       @@ All({"FLOAT", "DOUBLE"}, 15)
       @@ [TINYINT |-> 3, SMALLINT |-> 5, INTEGER |-> 10, BIGINT |-> 19, REAL |-> 7,
           TYPE_DATE |-> 10, TYPE_TIME |-> 8, TYPE_TIMESTAMP |-> 19, GUID |-> 36,
           INTERVAL_DAY_TO_SECOND |-> 25, INTERVAL_YEAR_TO_MONTH |-> 12], t, 0)

SqlTypeTransferLength(t) ==
    At(All(Strings \cup Decimals, MaxLength) @@ All({"BIT", "TINYINT", "TYPE_NULL"}, 1)
       @@ All({"INTEGER", "FLOAT", "REAL"}, 4) @@ All({"BIGINT", "DOUBLE"}, 8)
       @@ All({"TYPE_DATE", "TYPE_TIME"}, 6) @@ All({"TYPE_TIMESTAMP", "GUID"}, 16)
       @@ All(Intervals, 34) @@ [SMALLINT |-> 2], t, 0)

SqlTypePrecision(t) ==
    At(All(Decimals \cup Floats, 15)
       @@ [TINYINT |-> 3, SMALLINT |-> 5, INTEGER |-> 10, BIGINT |-> 19, TYPE_TIME |-> 6,
           INTERVAL_DAY_TO_SECOND |-> 11, INTERVAL_YEAR_TO_MONTH |-> 9], t, 0)

SqlTypeScale(t) == IF t \in Decimals \cup Floats THEN 15 ELSE 0

SqlTypeNumPrecRadix(t) ==
    CASE t \in Floats -> 2 [] t \in Whole \cup {"BIT"} -> 10 [] OTHER -> 0

SqlTypeDecimalDigits(t) ==
    CASE t \in Whole -> 0 [] t = "DOUBLE" -> 15 [] OTHER -> -1

SqlTypeCharOctetLength(t) ==
    CASE t \in {"CHAR", "VARCHAR", "LONGVARCHAR"} -> MaxLength
      [] t \in {"WCHAR", "WVARCHAR", "WLONGVARCHAR"} -> SizeOfSqlWChar * MaxLength
      [] OTHER -> 0

SqlTypeUnsigned(t) == t \notin Floats \cup Whole \cup {"BIT"}

NullabilityToIsNullable(n) ==
    CASE n = "NO_NULLS" -> "NO" [] n = "NULLABLE" -> "YES" [] OTHER -> "null"
=============================================================================
