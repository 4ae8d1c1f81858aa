----------------------------- MODULE MCCatalog -----------------------------
(* Three databases; two tables of one differ only in case. *)
EXTENDS Catalog

Col(n, t, r) == [name |-> n, type |-> t, remarks |-> r]
Tab(n, cs) == [name |-> n, columns |-> cs]
MCServer ==
    <<[name |-> "db", tables |->
        <<Tab("t", <<Col("a", "VARCHAR", "DIMENSION"), Col("b", "DOUBLE", "MEASURE_VALUE")>>),
          Tab("T", <<Col("b", "array", "MULTI"), Col("c", "TIMESTAMP", "TIMESTAMP")>>)>>],
      [name |-> "empty", tables |-> <<>>],
      [name |-> "other", tables |-> <<Tab("t", <<Col("b", "DATE", "DIMENSION")>>)>>]>>
MCUpper == [n \in {"db", "empty", "other", "t", "T", "DB", "", "%", "x"} |->
               CASE n = "db" -> "DB" [] n = "t" -> "T" [] OTHER -> n]

Names == {NULL, "", "%", "db"}
MCTableCalls ==
    [catalog : Names, schema : Names, table : {NULL, "", "t"},
     type : {NULL, {"%"}, {"VIEW"}}]
    \cup [catalog : {NULL, "DB"}, schema : {NULL, "DB"}, table : {"%", "T"},
          type : {{}, {"VIEW", "TABLE"}}]
MCColumnCalls ==
    [catalog : Names, schema : Names, table : {NULL, "t"}, column : {NULL, "%", "b"}]
    \cup [catalog : {NULL, "db"}, schema : {NULL, "db"}, table : {"", "x"}, column : {"b", "x"}]
MCTypeCalls == {"ALL_TYPES", "VARCHAR", "BIT", "TYPE_DATE", "TYPE_TIME", "TYPE_TIMESTAMP",
                "SMALLINT", "GUID"}
=============================================================================
