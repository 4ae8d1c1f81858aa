------------------------------ MODULE AppBuffer ------------------------------
(***************************************************************************)
(* A bound column (ApplicationDataBuffer) and the values TrinoColumn puts  *)
(* into its elements, one element for every row of a rowset.  A value is   *)
(* known by its kind, the number of characters of its text, its number     *)
(* (with a fraction or without) or its parts: the fields that are not      *)
(* zero.  What a conversion does is the result it answers, the bytes it    *)
(* writes, the length it stores and what the element then holds.  A target *)
(* may be null with an indicator beside it: some conversions then store    *)
(* the length, some do not, and the structs fault.                         *)
(***************************************************************************)
EXTENDS Integers, Sequences, FiniteSetsExt, Functions

CONSTANTS
    Types,          \* the C types the application binds
    BufLens,        \* buffer lengths in bytes
    WCharSize,      \* sizeof(SQLWCHAR): 2 or 4, by the driver manager
    LongSize,       \* sizeof(long): 4 on Windows, 8 on Linux
    Half,           \* half the values of an integer of 1, 2, 4 or 8 bytes:
                    \* 2^7, 2^15, 2^31 and 2^63 in the build
    Exact,          \* the whole numbers FLOAT and DOUBLE hold exactly: up to
                    \* 2^24 and 2^53 in the build
    Data,           \* the values of the column
    Rows            \* the size of the rowset

ASSUME AppBufferAssumption ==
    /\ WCharSize \in {2, 4} /\ LongSize \in {4, 8} /\ Rows \in Nat \ {0}
    /\ BufLens \subseteq Nat \ {0}

ASSUME NumberAssumption ==
    /\ Half \in [{1, 2, 4, 8} -> Nat \ {0}]
    /\ 2 <= Half[4] /\ Half[4] <= Half[8]
    /\ Exact \in [{"FLOAT", "DOUBLE"} -> Nat] /\ Half[4] <= Exact["DOUBLE"]

(* A Datum of the client and the ScalarType of its column.  The parts of a  *)
(* value are those that are not zero; bare: the text has no fraction.       *)
ScalarKinds == {"VARCHAR", "BOOLEAN", "INTEGER", "BIGINT", "DOUBLE", "NOT_SET",
                "TIMESTAMP", "DATE", "TIME", "INTERVAL_YEAR_TO_MONTH",
                "INTERVAL_DAY_TO_SECOND", "NULL"}
ListKinds   == {"TIMESERIES", "ARRAY", "ROW"}
WholeKinds  == {"BOOLEAN", "INTEGER", "BIGINT"}
Parts == {"text", "number", "list", "null", "sign", "date", "time", "ns",
          "year", "month", "day", "hour", "minute", "second"}

\* A number fits a signed integer of size bytes.
InRange(v, size) == -Half[size] <= v /\ v < Half[size]

Datum(kinds, items) ==
    {d \in [kind : kinds, n : Nat, v : Int, num : BOOLEAN, frac : BOOLEAN,
            digits : Nat, parts : SUBSET Parts, bare : BOOLEAN, items : items] :
        /\ d.kind = "VARCHAR" /\ d.n = 0 => d.parts = {}
        /\ d.kind \in WholeKinds => d.n > 0 /\ ~d.frac
        /\ d.kind = "BOOLEAN" => d.v \in {0, 1}
        /\ d.kind = "INTEGER" => InRange(d.v, 4)
        /\ d.kind = "BIGINT" => InRange(d.v, 8)
        /\ d.kind = "NOT_SET" => d.parts = {"null"}
        /\ d.kind = "DATE" => d.parts \subseteq {"date"}
        /\ d.kind = "TIME" => d.parts \subseteq {"time", "ns"}
        /\ d.kind = "TIMESTAMP" => d.parts \subseteq {"date", "time", "ns"}
        /\ d.bare => d.kind \in {"TIME", "TIMESTAMP"}}
Scalars == Datum(ScalarKinds, {<<>>})

ASSUME DataAssumption == Data \subseteq Scalars \cup Datum(ListKinds, Seq(Scalars))

VARIABLES
    buf,            \* the binding: type, buflen, ptr (buffer is not null), ind
                    \* (reslen is not null)
    cells           \* the elements filled so far; elementOffset of the next one
                    \* is their number

vars == <<buf, cells>>

-----------------------------------------------------------------------------
(* Types and sizes *)

IntTypes ==
    [SIGNED_TINYINT |-> 1, BIT |-> 1, UNSIGNED_TINYINT |-> 1, SIGNED_SHORT |-> 2,
     UNSIGNED_SHORT |-> 2, SIGNED_LONG |-> 4, UNSIGNED_LONG |-> 4,
     SIGNED_BIGINT |-> 8, UNSIGNED_BIGINT |-> 8]
FixedTypes == [FLOAT |-> 4, DOUBLE |-> 8, NUMERIC |-> 19, TDATE |-> 6,
               TTIME |-> 6, TTIMESTAMP |-> 16]
Unsigned == {"BIT", "UNSIGNED_TINYINT", "UNSIGNED_SHORT", "UNSIGNED_LONG",
             "UNSIGNED_BIGINT"}
IntervalSize == 28

\* SetIntervalType, and the fields each type has in its struct.
IntervalFields ==
    [INTERVAL_YEAR |-> {"year"}, INTERVAL_MONTH |-> {"month"},
     INTERVAL_YEAR_TO_MONTH |-> {"year", "month"},
     INTERVAL_DAY |-> {"day"}, INTERVAL_HOUR |-> {"hour"},
     INTERVAL_MINUTE |-> {"minute"}, INTERVAL_SECOND |-> {"second", "ns"},
     INTERVAL_DAY_TO_HOUR |-> {"day", "hour"},
     INTERVAL_DAY_TO_MINUTE |-> {"day", "hour", "minute"},
     INTERVAL_HOUR_TO_MINUTE |-> {"hour", "minute"},
     INTERVAL_HOUR_TO_SECOND |-> {"hour", "minute", "second", "ns"},
     INTERVAL_MINUTE_TO_SECOND |-> {"minute", "second", "ns"},
     INTERVAL_DAY_TO_SECOND |-> {"day", "hour", "minute", "second", "ns"}]

Ints      == DOMAIN IntTypes
Intervals == DOMAIN IntervalFields
Texts     == {"CHAR", "WCHAR"}
TextTypes == Texts \cup {"BINARY", "DEFAULT"}   \* where PutString copies
Unit(type) == IF type = "WCHAR" THEN WCharSize ELSE 1

\* GetElementSize: the distance of two elements.
ElementSize(b) ==
    IF b.type \in Texts \cup {"BINARY"} THEN b.buflen
    ELSE IF b.type \in Ints THEN IntTypes[b.type]
    ELSE IF b.type \in DOMAIN FixedTypes THEN FixedTypes[b.type] ELSE 0

-----------------------------------------------------------------------------
(* What a Put does.  len: the value stored through reslen, if any.         *)
(* kept: the parts of the value the element holds.                         *)

Unset    == -10
NullData == -1

Put(res, size, len, kept) == [res |-> res, size |-> size, len |-> len,
                              kept |-> kept]
Refused(res) == Put(res, 0, Unset, {})

\* The case of a struct writes without a look at the pointer.
Struct(b, res, size, kept) == IF b.ptr THEN Put(res, size, size, kept)
                              ELSE Refused("FAULT")

\* The others write where there is a target, and store the length anyway.
Fill(b, res, size, len, kept) == IF b.ptr THEN Put(res, size, len, kept)
                                 ELSE Put(res, 0, len, {})

\* Room for characters next to the terminating zero.
Room(b, unit) == (b.buflen \div unit) - 1
Fits(n, b, unit) == n <= Room(b, unit)

\* Mutant of PutStrToStrBuffer: the room for the zero is forgotten.
PutStrToStrBufferNoZero(n, b, unit, parts) ==
    LET k == Min({n, b.buflen \div unit})
    IN  IF ~b.ptr THEN Put("SUCCESS", 0, Unset, {})
        ELSE IF b.buflen < unit THEN Refused("VARLEN_DATA_TRUNCATED")
        ELSE Put(IF k < n THEN "VARLEN_DATA_TRUNCATED" ELSE "SUCCESS",
                 (k + 1) * unit, k * unit, IF k < n THEN {} ELSE parts)

\* PutStrToStrBuffer and the copy functions of utility.cpp under it: the
\* length stored is that of the characters copied, and there is none without
\* a target.
PutStrToStrBuffer(n, b, unit, parts) ==
    LET k == Min({n, Room(b, unit)})
    IN  IF ~b.ptr THEN Put("SUCCESS", 0, Unset, {})
        ELSE IF b.buflen < unit THEN Refused("VARLEN_DATA_TRUNCATED")
        ELSE Put(IF k < n THEN "VARLEN_DATA_TRUNCATED" ELSE "SUCCESS",
                 (k + 1) * unit, k * unit, IF k < n THEN {} ELSE parts)

\* The CHAR case of PutDate, PutTime, PutTimestamp and PutInterval: strncpy,
\* and the whole length stored before.
PutCharText(n, b, parts) ==
    LET whole == n + 1 <= b.buflen
    IN  Fill(b, IF whole \/ ~b.ptr THEN "SUCCESS" ELSE "VARLEN_DATA_TRUNCATED",
             Min({n + 1, b.buflen}), n, IF whole THEN parts ELSE {})

\* Their WCHAR case: CopyStringToBuffer with the length in bytes.
PutWcharText(n, b, parts) ==
    LET whole == Fits(n, b, WCharSize)
        k     == Min({n, Room(b, WCharSize)})
    IN  Fill(b, IF whole \/ ~b.ptr THEN "SUCCESS" ELSE "VARLEN_DATA_TRUNCATED",
             (k + 1) * WCharSize, n, IF whole THEN parts ELSE {})

PutText(n, b, parts) == IF b.type = "CHAR" THEN PutCharText(n, b, parts)
                        ELSE PutWcharText(n, b, parts)

Date == {"date"}
Time == {"time"}

\* PutDate.  The result of the WCHAR case compares characters with bytes.
PutDate(parts, b) ==
    IF b.type = "CHAR" THEN PutCharText(10, b, parts \cap Date)
    ELSE IF b.type = "WCHAR"
    THEN [PutWcharText(10, b, parts \cap Date) EXCEPT
             !.res = IF 11 > b.buflen THEN "VARLEN_DATA_TRUNCATED" ELSE "SUCCESS"]
    ELSE IF b.type = "TDATE"
    THEN Struct(b, "SUCCESS", FixedTypes.TDATE, parts \ {"time", "ns"})
    ELSE IF b.type = "TTIMESTAMP"
    THEN Struct(b, "SUCCESS", FixedTypes.TTIMESTAMP, parts \ {"ns"})
    ELSE Refused("UNSUPPORTED_CONVERSION")

\* Mutant of PutTimestamp: TDATE drops the time and says nothing.
PutTimestampSilent(parts, b) ==
    IF b.type \in Texts THEN PutText(29, b, parts)
    ELSE IF b.type = "TDATE"
    THEN Struct(b, "SUCCESS", FixedTypes.TDATE, parts \cap Date)
    ELSE IF b.type = "TTIME"
    THEN Struct(b, "SUCCESS", FixedTypes.TTIME, parts \cap Time)
    ELSE IF b.type = "TTIMESTAMP"
    THEN Struct(b, "SUCCESS", FixedTypes.TTIMESTAMP, parts)
    ELSE Refused("UNSUPPORTED_CONVERSION")

\* PutTimestamp: the text has nine digits of the fraction.
PutTimestamp(parts, b) ==
    IF b.type \in Texts THEN PutText(29, b, parts)
    ELSE IF b.type = "TDATE"
    THEN Struct(b, "FRACTIONAL_TRUNCATED", FixedTypes.TDATE, parts \cap Date)
    ELSE IF b.type = "TTIME"
    THEN Struct(b, "FRACTIONAL_TRUNCATED", FixedTypes.TTIME, parts \cap Time)
    ELSE IF b.type = "TTIMESTAMP"
    THEN Struct(b, "SUCCESS", FixedTypes.TTIMESTAMP, parts)
    ELSE Refused("UNSUPPORTED_CONVERSION")

\* PutTime: a TTIME buffer always answers that data was truncated.
PutTime(parts, b) ==
    IF b.type \in Texts THEN PutText(18, b, parts \ Date)
    ELSE IF b.type = "TTIME"
    THEN Struct(b, "VARLEN_DATA_TRUNCATED", FixedTypes.TTIME, parts \cap Time)
    ELSE IF b.type = "TTIMESTAMP"
    THEN Struct(b, "SUCCESS", FixedTypes.TTIMESTAMP, parts)
    ELSE Refused("UNSUPPORTED_CONVERSION")

\* The sign of an interval is that of its first field, as sscanf reads it from
\* the text: a sign on a zero is not seen.
Signed(parts, lead) == IF lead \in parts THEN parts ELSE parts \ {"sign"}

\* SetIntervalBufferValue: the fields of the type, 0 where the value has none.
SetYearMonthValue(type, parts) ==
    parts \cap (IntervalFields[type] \cup {"sign"})
SetDaySecondValue(type, parts) ==
    parts \cap (IntervalFields[type] \cup {"sign"})

PutIntervalYearMonth(d, b) ==
    IF b.type \in Texts THEN PutText(d.n, b, Signed(d.parts, "year"))
    ELSE IF b.type \in Intervals
    THEN Struct(b, "SUCCESS", IntervalSize,
                SetYearMonthValue(b.type, Signed(d.parts, "year")))
    ELSE Refused("UNSUPPORTED_CONVERSION")

PutIntervalDaySecond(d, b) ==
    IF b.type \in Texts THEN PutText(d.n, b, Signed(d.parts, "day"))
    ELSE IF b.type \in Intervals
    THEN Struct(b, "SUCCESS", IntervalSize,
                SetDaySecondValue(b.type, Signed(d.parts, "day")))
    ELSE Refused("UNSUPPORTED_CONVERSION")

\* static_cast to an integer type: what the width holds, silently.
Cast(v, type) ==
    LET h == Half[IntTypes[type]]
    IN  IF type \in Unsigned THEN v % (2 * h) ELSE ((v + h) % (2 * h)) - h

\* static_cast to a floating type.  Beyond Exact some whole numbers have a
\* value and some are rounded to one: all count as rounded.
Rounded(d, type) == \/ d.v > Exact[type] \/ -d.v > Exact[type]
                    \/ type = "FLOAT" /\ d.frac /\ d.digits > 6

\* The magnitude of NUMERIC is a uint64_t, and negating the smallest integer of
\* size bytes overflows: anything may be stored for it.
NumericLost(d, size) ==
    \/ d.frac \/ d.v >= 2 * Half[8] \/ -d.v >= 2 * Half[8]
    \/ d.v = -Half[size] /\ d.kind # "DOUBLE"

\* PutNum of the number of d, a value of size bytes.  A double becomes text
\* with six digits.
PutNum(d, size, b) ==
    LET keep(lost) == IF lost THEN {} ELSE d.parts
        num(width, lost) == Fill(b, "SUCCESS", width, width, keep(lost))
    IN  IF b.type \in Ints
        THEN num(IntTypes[b.type], d.frac \/ Cast(d.v, b.type) # d.v)
        ELSE IF b.type \in {"FLOAT", "DOUBLE"}
        THEN num(FixedTypes[b.type], Rounded(d, b.type))
        ELSE IF b.type \in Texts
        THEN PutStrToStrBuffer(d.n, b, Unit(b.type),
                               keep(d.kind = "DOUBLE" /\ d.digits > 6))
        ELSE IF b.type = "NUMERIC" THEN num(FixedTypes.NUMERIC, NumericLost(d, size))
        ELSE IF b.type \in {"BINARY", "DEFAULT"}
        THEN Fill(b, IF b.buflen < size THEN "VARLEN_DATA_TRUNCATED" ELSE "SUCCESS",
                  Min({size, b.buflen}), size, keep(b.buflen < size))
        ELSE IF b.type = "TDATE" THEN PutDate(keep(d.v # 0 \/ d.frac), b)
        ELSE IF b.type = "TTIMESTAMP" THEN PutTimestamp(keep(d.frac), b)
        ELSE IF b.type = "TTIME" THEN PutTime(d.parts, b)
        ELSE Refused("UNSUPPORTED_CONVERSION")

\* Mutant of PutNull: a missing indicator is passed over.
PutNullSilent(b) == Put("SUCCESS", 0, Unset, {})

PutNull(b) == IF b.ind THEN Put("SUCCESS", 0, NullData, {"null"})
              ELSE Refused("INDICATOR_NEEDED")

\* PutInt8 ... PutDouble: a missing number is a NULL.
PutNumber(d, size, b) == IF d.kind = "NOT_SET" THEN PutNull(b) ELSE PutNum(d, size, b)

\* The number a stream reads from the text of d: 0 where there is none, and
\* the nearest int64_t for a whole number out of range.
Scanned(d, type) ==
    IF ~d.num THEN [d EXCEPT !.v = 0, !.parts = {}]
    ELSE IF type \in {"FLOAT", "DOUBLE"} \/ InRange(d.v, 8) THEN d
    ELSE [d EXCEPT !.v = IF d.v < 0 THEN -Half[8] ELSE Half[8] - 1, !.parts = {}]

\* PutString of the text of d.
PutString(d, b) ==
    IF b.type \in Ints \cup {"NUMERIC", "FLOAT", "DOUBLE"}
    THEN PutNum(Scanned(d, b.type), 8, b)
    ELSE IF b.type \in TextTypes
    THEN PutStrToStrBuffer(d.n, b, Unit(b.type), d.parts)
    ELSE Refused("UNSUPPORTED_CONVERSION")

-----------------------------------------------------------------------------
(* TrinoColumn *)

Text(n, parts) == [kind |-> "VARCHAR", n |-> n, v |-> 0, num |-> FALSE,
                   frac |-> FALSE, digits |-> 0, parts |-> parts]
Dash(parts) == Text(1, parts)

\* ParseScalarType, and the NULL of ParseDatum, which is put as the text "-",
\* whatever becomes of that.
ParseScalarType(d, b) ==
    CASE d.kind = "VARCHAR"   -> PutString(d, b)
      [] d.kind = "BOOLEAN"   -> PutNumber(d, 1, b)
      [] d.kind = "INTEGER"   -> PutNumber(d, 4, b)
      [] d.kind \in {"BIGINT", "DOUBLE"} -> PutNumber(d, 8, b)
      [] d.kind = "NOT_SET"   -> PutNull(b)
      [] d.kind = "TIMESTAMP" -> PutTimestamp(d.parts, b)
      [] d.kind = "DATE"      -> PutDate(d.parts, b)
      [] d.kind = "TIME"      -> PutTime(d.parts, b)
      [] d.kind = "INTERVAL_YEAR_TO_MONTH" -> PutIntervalYearMonth(d, b)
      [] d.kind = "INTERVAL_DAY_TO_SECOND" -> PutIntervalDaySecond(d, b)
      [] d.kind = "NULL"      -> [PutString(Dash({}), b) EXCEPT !.res = "SUCCESS"]

NestedSize == 1024      \* BUFFER_SIZE
Nested == [type |-> "CHAR", buflen |-> NestedSize, ptr |-> TRUE,
           ind |-> TRUE]

\* An element of a list becomes text in a buffer of its own, whose result
\* nobody looks at.
Chars(d) == Max({ParseScalarType(d, Nested).size - 1, 0})
Whole(items) == \A i \in DOMAIN items : ParseScalarType(items[i], Nested).res = "SUCCESS"
\* The characters of all items, each with per characters around it.
Sum(items, per) ==
    Cardinality(UNION {{i} \X (1 .. Chars(items[i]) + per) : i \in DOMAIN items})
Joined(d, n) == Text(n, IF Whole(d.items) THEN d.parts ELSE {})

\* [{time: t, value: v},...], with 29 characters of time.
ParseTimeSeriesType(d, b) ==
    PutString(Joined(d, IF d.items = <<>> THEN 2 ELSE 1 + Sum(d.items, 46)), b)

\* [v,...], and "-" for an empty array.
ParseArrayType(d, b) ==
    IF d.items = <<>> THEN PutString(Dash({}), b)
    ELSE PutString(Joined(d, 1 + Sum(d.items, 1)), b)

\* (v,...); a row without data is no value.
ParseRowType(d, b) ==
    IF d.items = <<>> THEN Refused("NO_DATA")
    ELSE PutString(Joined(d, 1 + Sum(d.items, 1)), b)

\* sscanf leaves the fraction of a TIMESTAMP or TIME as it was when the text
\* has none: any value may be there.
Read(d, junk) == IF d.bare THEN [d EXCEPT !.parts = @ \cup junk] ELSE d

ParseDatum(d, b) ==
    CASE d.kind = "TIMESERIES" -> ParseTimeSeriesType(d, b)
      [] d.kind = "ARRAY"      -> ParseArrayType(d, b)
      [] d.kind = "ROW"        -> ParseRowType(d, b)
      [] OTHER                 -> ParseScalarType(d, b)

-----------------------------------------------------------------------------
Bindings ==
    {b \in [type : Types, buflen : BufLens, ptr : BOOLEAN, ind : BOOLEAN] :
        \* asserted by CopyUtf8StringToWcharString
        b.type = "WCHAR" => b.buflen % WCharSize = 0}

Init == buf \in Bindings /\ cells = <<>>

Overlap(c, from, size) ==
    /\ c.put.size > 0 /\ size > 0
    /\ from < c.from + c.put.size /\ c.from < from + size

\* The process ends with a fault.
Running == \A c \in Range(cells) : c.put.res # "FAULT"

\* ReadToBuffer for the next row, after SetElementOffset: an element that comes
\* to lie on an earlier one destroys it.
ReadToBuffer ==
    /\ Running /\ Len(cells) < Rows
    /\ \E d \in Data, junk \in {{}, {"ns"}} :
         LET p    == ParseDatum(Read(d, junk), buf)
             from == Len(cells) * ElementSize(buf)
             old  == [i \in DOMAIN cells |-> [cells[i] EXCEPT
                          !.clobbered = @ \/ Overlap(cells[i], from, p.size)]]
         IN  cells' = Append(old, [datum |-> d, put |-> p, from |-> from,
                                   clobbered |-> FALSE])
    /\ UNCHANGED buf

\* The next fetch starts again at the first element.
NextRowset == Running /\ Len(cells) > 0 /\ cells' = <<>> /\ UNCHANGED buf

Next == ReadToBuffer \/ NextRowset

Spec == Init /\ [][Next]_vars

-----------------------------------------------------------------------------
(* Reading an element back: the parts each Get function takes from it.     *)

All == Date \cup Time
NTS == -3

IsDataAtExec(len) == len <= -100 \/ len = -2

\* GetInputSize, of an element whose length is stored.
GetInputSize(c) == IF ~buf.ind THEN NTS
                   ELSE IF IsDataAtExec(c.put.len) THEN 0 ELSE c.put.len

\* The characters of an element up to its zero, and those SqlCharToString and
\* SqlWcharToString take: the length of a wide text is read as bytes, whoever
\* stored it.
TextLen(c) == (c.put.size \div Unit(buf.type)) - 1
CharsRead(c) == IF GetInputSize(c) = NTS THEN TextLen(c)
                ELSE Max({GetInputSize(c), 0}) \div Unit(buf.type)

\* sscanf of "HHHH-MM-DD HH:MM:SS", as far as the text goes.
ScanTimestamp(k) == {part \in All : k >= IF part = "date" THEN 10 ELSE 19}

GetDate(c) ==
    IF buf.type = "TDATE" THEN Date ELSE IF buf.type = "TTIME" THEN Time
    ELSE IF buf.type = "TTIMESTAMP" THEN All
    ELSE IF buf.type \in Texts THEN ScanTimestamp(CharsRead(c)) ELSE {}

\* Mutant of GetTimestamp: the fraction of the struct is forgotten.
GetTimestampSeconds(c) == GetDate(c)

\* The text is scanned up to the seconds; the struct has the fraction.
GetTimestamp(c) ==
    IF buf.type = "TDATE" THEN Date ELSE IF buf.type = "TTIME" THEN Time
    ELSE IF buf.type = "TTIMESTAMP" THEN All \cup {"ns"}
    ELSE IF buf.type \in Texts THEN ScanTimestamp(CharsRead(c)) ELSE {}

GetTime(c) ==
    IF \/ buf.type \in {"TTIME", "TTIMESTAMP"}
       \/ buf.type \in Texts /\ CharsRead(c) >= 8 THEN Time ELSE {}

\* GetNum: the bytes it reads.  The LONG types are read as long, which is
\* wider than SQLINTEGER on Linux.
GetNumWidth(type) ==
    IF type \in {"SIGNED_LONG", "UNSIGNED_LONG"} THEN LongSize
    ELSE IF type \in Ints THEN IntTypes[type]
    ELSE IF type \in {"FLOAT", "DOUBLE", "NUMERIC"} THEN FixedTypes[type] ELSE 0

\* GetString: a text as it is, a number through GetNum.
GetString(c) ==
    IF buf.type \in Texts
    THEN IF CharsRead(c) >= TextLen(c) THEN c.put.kept ELSE {}
    ELSE IF GetNumWidth(buf.type) \in 1 .. c.put.size THEN c.put.kept ELSE {}

Get(c) == CASE c.datum.kind = "DATE"      -> GetDate(c)
            [] c.datum.kind = "TIMESTAMP" -> GetTimestamp(c)
            [] c.datum.kind = "TIME"      -> GetTime(c)
            [] OTHER                      -> GetString(c)

-----------------------------------------------------------------------------
Lost(c)  == c.put.kept # c.datum.parts
Filled   == Range(cells)
Done(c)  == c.put.res = "SUCCESS"

\* The rows of a rowset do not share memory: as GetElementSize spaces the
\* elements, no value written for a later row (SetElementOffset) lies on the
\* value of an earlier one, and none leaves its own element.  The interval
\* types and AI_DEFAULT, whose elements have size 0, are left out.
ElementsApart ==
    ElementSize(buf) > 0 =>
        \A c \in Filled : ~c.clobbered /\ c.put.size <= ElementSize(buf)

\* What the driver promises to keep or to complain about.  Left out, because
\* the code loses it with AI_SUCCESS: a wide date, a BIGINT in a four-byte or
\* floating type, integers in the types narrower than they are, the smallest
\* integer in NUMERIC, fractions.
Guarded(d, type) ==
    \/ d.kind = "VARCHAR" /\ type \in TextTypes
    \/ d.kind \in {"TIMESTAMP", "TIME"} /\ ~d.bare
    \/ d.kind = "DATE" /\ type # "WCHAR"
    \/ d.kind \in WholeKinds /\ type \in Texts
    \/ d.kind \in {"BOOLEAN", "INTEGER"}
         /\ type \in {"SIGNED_LONG", "SIGNED_BIGINT", "DOUBLE"}
    \/ d.kind = "BIGINT" /\ type = "SIGNED_BIGINT"
    \/ d.kind = "INTEGER" /\ type = "NUMERIC" /\ d.v # -Half[4]
    \/ d.kind = "BIGINT" /\ type = "NUMERIC" /\ d.v # -Half[8]
    \/ d.kind = "NOT_SET"

\* AI_SUCCESS means that nothing was cut, where there is a target: a string, a
\* timestamp or a time in any type that takes it, a date outside a wide buffer
\* and an integer in a text or in a type that holds all of its kind are whole
\* when the conversion says so.
NoSilentLoss ==
    \A c \in Filled : buf.ptr /\ Done(c) /\ Guarded(c.datum, buf.type) => ~Lost(c)

\* The length of an element is that of the value in it and never that of the
\* row that was there in the rowset before: every conversion that succeeds
\* stores through reslen.  Two cases store nothing and are left out: a text
\* for a null target (PutStrToStrBuffer), and a NULL put as "-" into a type
\* that takes no text.
LengthIsFresh ==
    \A c \in Filled :
        /\ Done(c) /\ buf.ind
        /\ buf.ptr \/ buf.type \notin TextTypes
        /\ c.datum.kind = "NULL" =>
             buf.type \in Ints \cup TextTypes \cup {"NUMERIC", "FLOAT", "DOUBLE"}
        => c.put.len # Unset

\* A value put without loss is read back by the Get function of its own kind:
\* strings and numbers as they were (but for the LONG types where long is
\* wider), dates and times up to the second, timestamps in a struct with their
\* fraction.  Dates and times in a wide buffer with an indicator are left out:
\* their length is stored in characters and read as bytes.
ReadsBack ==
    \A c \in Filled :
        /\ Done(c) /\ ~Lost(c) /\ c.put.size > 0
        /\ c.datum.kind \in {"DATE", "TIME", "TIMESTAMP", "VARCHAR", "INTEGER"}
        /\ buf.type \in Ints => GetNumWidth(buf.type) = IntTypes[buf.type]
        /\ IF c.datum.kind \in {"VARCHAR", "INTEGER"} THEN buf.type \in Texts \cup Ints
           ELSE buf.type = "WCHAR" => ~buf.ind
        => c.datum.parts \subseteq
              Get(c) \cup (IF buf.type = "TTIMESTAMP" /\ c.datum.kind = "TIMESTAMP"
                           THEN {} ELSE {"ns"})
=============================================================================
