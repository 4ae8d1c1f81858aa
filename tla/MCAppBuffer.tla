---------------------------- MODULE MCAppBuffer ----------------------------
(* Values of every kind, at the edges of the buffers and of the types. *)
EXTENDS AppBuffer

Value(kind, n, v, parts) ==
    [kind |-> kind, n |-> n, v |-> v, num |-> v # 0, frac |-> FALSE, digits |-> n,
     parts |-> parts, bare |-> FALSE, items |-> <<>>]
Number(kind, n, v) == Value(kind, n, v, {"number"})
Long == Value("VARCHAR", 1100, 0, {"text"})
Short == Value("VARCHAR", 3, 0, {"text"})
NullValue == Value("NULL", 0, 0, {"null"})
ListOf(kind, items) == [Value(kind, 0, 0, {"list"}) EXCEPT !.items = items]

MCTypes == {"CHAR", "WCHAR", "BINARY", "DEFAULT", "SIGNED_TINYINT",
            "UNSIGNED_TINYINT", "SIGNED_SHORT", "SIGNED_LONG", "SIGNED_BIGINT",
            "UNSIGNED_BIGINT", "FLOAT", "DOUBLE", "NUMERIC", "TDATE", "TTIME", "TTIMESTAMP",
            "INTERVAL_YEAR", "INTERVAL_YEAR_TO_MONTH", "INTERVAL_DAY_TO_SECOND"}

MCData ==
    {Short, Long, NullValue, Number("VARCHAR", 2, 12), Value("NOT_SET", 0, 0, {"null"}),
     Number("INTEGER", 3, 300), Number("INTEGER", 2, -1), Number("INTEGER", 5, -2048),
     Number("INTEGER", 4, 2047), Number("BIGINT", 5, 40000), Number("BIGINT", 7, 300000),
     Number("BIGINT", 8, -8388608), Number("VARCHAR", 9, 16777216),
     Number("BOOLEAN", 1, 1),
     [Number("DOUBLE", 3, 1) EXCEPT !.frac = TRUE],
     [Number("DOUBLE", 7, 2) EXCEPT !.frac = TRUE, !.digits = 9],
     Value("TIMESTAMP", 29, 0, {"date", "time", "ns"}),
     [Value("TIMESTAMP", 19, 0, {"date", "time"}) EXCEPT !.bare = TRUE],
     Value("DATE", 10, 0, {"date"}), Value("TIME", 18, 0, {"time", "ns"}),
     Value("INTERVAL_YEAR_TO_MONTH", 3, 0, {"year", "month"}),
     Value("INTERVAL_YEAR_TO_MONTH", 3, 0, {"month", "sign"}),
     Value("INTERVAL_DAY_TO_SECOND", 20, 0, {"day", "hour", "sign"}),
     ListOf("ARRAY", <<>>), ListOf("ARRAY", <<Short, NullValue>>),
     ListOf("ROW", <<Long>>), ListOf("ROW", <<>>), ListOf("TIMESERIES", <<Short>>)}

\* The widths of the build, scaled down: 3, 6, 12 and 24 bits for the integers
\* of 1, 2, 4 and 8 bytes; FLOAT lies between 2 and 4 bytes and DOUBLE between 4
\* and 8, as 24 and 53 bits do.
MCHalf == [size \in {1, 2, 4, 8} |-> 2 ^ (3 * size - 1)]
MCExact == [FLOAT |-> 2 ^ 9, DOUBLE |-> 2 ^ 18]

MCBufLens == {1, 2, 4, 8, 12, 20, 32, 44, 120, 2048}
=============================================================================
