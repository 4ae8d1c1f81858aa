--------------------------- MODULE AppBufferProofs ---------------------------
(* Conversion into bound buffers, for buffers, texts and rowsets of any size *)
(* and every C type: no row's value leaves its element, a success lost       *)
(* nothing it is meant to keep, stored its own length and is read back.      *)
EXTENDS AppBuffer, FiniteSetTheorems, TLAPS

(***************************************************************************)
(* Operators                                                               *)
(***************************************************************************)

LEMMA MinOfTwo ==
    \A a, c \in Int : Min({a, c}) = IF a <= c THEN a ELSE c
BY DEF Min

LEMMA MaxOfTwo ==
    \A a, c \in Int : Max({a, c}) = IF a >= c THEN a ELSE c
BY DEF Max

\* The integer types and their sizes.
LEMMA IntSizes ==
    /\ Ints = {"SIGNED_TINYINT", "BIT", "UNSIGNED_TINYINT", "SIGNED_SHORT",
               "UNSIGNED_SHORT", "SIGNED_LONG", "UNSIGNED_LONG", "SIGNED_BIGINT",
               "UNSIGNED_BIGINT"}
    /\ \A type \in Ints : IntTypes[type] \in {1, 2, 4, 8}
    /\ IntTypes["SIGNED_LONG"] = 4 /\ IntTypes["SIGNED_BIGINT"] = 8
BY DEF Ints, IntTypes

LEMMA FixedSizes ==
    /\ DOMAIN FixedTypes = {"FLOAT", "DOUBLE", "NUMERIC", "TDATE", "TTIME",
                            "TTIMESTAMP"}
    /\ FixedTypes["FLOAT"] = 4 /\ FixedTypes["DOUBLE"] = 8
    /\ FixedTypes["NUMERIC"] = 19 /\ FixedTypes["TDATE"] = 6
    /\ FixedTypes["TTIME"] = 6 /\ FixedTypes["TTIMESTAMP"] = 16
BY DEF FixedTypes

LEMMA IntervalTypes ==
    Intervals = {"INTERVAL_YEAR", "INTERVAL_MONTH", "INTERVAL_YEAR_TO_MONTH",
                 "INTERVAL_DAY", "INTERVAL_HOUR", "INTERVAL_MINUTE",
                 "INTERVAL_SECOND", "INTERVAL_DAY_TO_HOUR",
                 "INTERVAL_DAY_TO_MINUTE", "INTERVAL_HOUR_TO_MINUTE",
                 "INTERVAL_HOUR_TO_SECOND", "INTERVAL_MINUTE_TO_SECOND",
                 "INTERVAL_DAY_TO_SECOND"}
BY DEF Intervals, IntervalFields

\* A buffer as Bindings has them, and as ParseArrayType makes them.
Bound(b) ==
    /\ b.buflen \in Nat \ {0}
    /\ b.type = "WCHAR" => b.buflen % WCharSize = 0

\* The number of characters that fit with the zero.
LEMMA RoomFits ==
    ASSUME NEW n \in Nat, NEW b, Bound(b), NEW unit \in Nat,
           unit \in {1, WCharSize}, unit = WCharSize => b.type = "WCHAR",
           NEW k \in Int, k = Min({n, Room(b, unit)})
    PROVE  /\ b.buflen >= unit
           /\ k \in Nat /\ k <= n
           /\ (k + 1) * unit \in Nat /\ (k + 1) * unit <= b.buflen
           /\ k * unit \in Nat /\ (k > 0 => k * unit > 0)
<1> DEFINE r == Room(b, unit)
<1>0. unit \in {1, 2, 4} /\ b.buflen \in Nat \ {0}
  BY AppBufferAssumption DEF Bound
<1>1. b.buflen >= unit /\ r \in Nat /\ (r + 1) * unit <= b.buflen
  <2>1. CASE unit = 1
    BY <1>0, <2>1 DEF Room
  <2>2. CASE unit = 2
    BY <1>0, <2>2 DEF Room, Bound
  <2>3. CASE unit = 4
    BY <1>0, <2>3 DEF Room, Bound
  <2>4. QED
    BY <1>0, <2>1, <2>2, <2>3
<1>2. k \in Nat /\ k <= n /\ k <= r
  BY <1>1, MinOfTwo
<1> HIDE DEF r
<1>3. /\ (k + 1) * unit \in Nat /\ (k + 1) * unit <= b.buflen
      /\ k * unit \in Nat /\ (k > 0 => k * unit > 0)
  <2>1. CASE unit = 1
    BY <1>0, <1>1, <1>2, <2>1
  <2>2. CASE unit = 2
    BY <1>0, <1>1, <1>2, <2>2
  <2>3. CASE unit = 4
    BY <1>0, <1>1, <1>2, <2>3
  <2>4. QED
    BY <1>0, <2>1, <2>2, <2>3
<1>4. QED
  BY <1>1, <1>2, <1>3

(***************************************************************************)
(* What every Put leaves                                                   *)
(***************************************************************************)

IsPut(p) == p = Put(p.res, p.size, p.len, p.kept)

\* The bytes written stay inside the element.
Inside(p, b) ==
    /\ IsPut(p)
    /\ p.size \in Nat
    /\ ElementSize(b) > 0 => p.size <= ElementSize(b)

\* Where a length is stored for certain: PutStrToStrBuffer needs a target.
Stores(b) == b.ptr \/ b.type \notin TextTypes

\* A success stores a length.
Fresh(p, b) == p.res = "SUCCESS" /\ Stores(b) => p.len \in Nat \cup {NullData}

Sound(p, b) == Inside(p, b) /\ Fresh(p, b)

\* A text of n characters that stands for parts: a success is the whole text,
\* if there is a target.
WholeText(p, b, parts) == b.ptr /\ p.res = "SUCCESS" => p.kept = parts

\* The length of a copied text is that of its bytes without the zero.
Measured(p, b) ==
    b.ptr => \E k \in Nat : /\ p.size = (k + 1) * Unit(b.type)
                           /\ p.len = k * Unit(b.type)

\* Where something was kept of a text, its n characters and the zero were.
TextOf(p, n, b) == p.kept # {} => p.size = (n + 1) * Unit(b.type)

LEMMA Fields ==
    \A res, size, len, kept :
        LET p == Put(res, size, len, kept)
        IN  /\ IsPut(p) /\ p.res = res /\ p.size = size /\ p.len = len
            /\ p.kept = kept
BY DEF Put, IsPut

LEMMA ExceptRes ==
    ASSUME NEW p, IsPut(p), NEW other
    PROVE  [p EXCEPT !.res = other] = Put(other, p.size, p.len, p.kept)
<1> DEFINE res == p.res
           size == p.size
           len == p.len
           kept == p.kept
<1>1. p = Put(res, size, len, kept)
  BY DEF IsPut
<1> HIDE DEF res, size, len, kept
<1>2. [p EXCEPT !.res = other] = Put(other, size, len, kept)
  <2>1. [p EXCEPT !.res = other]
          = [Put(res, size, len, kept) EXCEPT !.res = other]
    BY <1>1, Zenon
  <2>2. [Put(res, size, len, kept) EXCEPT !.res = other]
          = Put(other, size, len, kept)
    BY DEF Put
  <2>3. QED
    BY <2>1, <2>2, Zenon
<1>3. QED
  BY <1>2 DEF size, len, kept

LEMMA ElementSizes ==
    ASSUME NEW b, Bound(b)
    PROVE  /\ ElementSize(b) \in Nat
           /\ b.type \in Texts \cup {"BINARY"} => ElementSize(b) = b.buflen
           /\ b.type \in Ints => ElementSize(b) = IntTypes[b.type]
           /\ b.type \in DOMAIN FixedTypes => ElementSize(b) = FixedTypes[b.type]
           /\ b.type \in Intervals \cup {"DEFAULT"} => ElementSize(b) = 0
<1> USE DEF Bound, Texts
<1>1. CASE b.type \in Texts \cup {"BINARY"}
  BY <1>1, IntSizes, FixedSizes, IntervalTypes DEF ElementSize
<1>2. CASE b.type \in Ints
  BY <1>2, IntSizes, FixedSizes, IntervalTypes DEF ElementSize
<1>3. CASE b.type \in DOMAIN FixedTypes
  BY <1>3, IntSizes, FixedSizes, IntervalTypes DEF ElementSize
<1>4. CASE b.type \notin Texts \cup {"BINARY"} \cup Ints \cup DOMAIN FixedTypes
  BY <1>4 DEF ElementSize
<1>5. QED
  BY <1>1, <1>2, <1>3, <1>4

LEMMA PutSound ==
    ASSUME NEW b, Bound(b), NEW res, NEW size \in Nat, NEW len, NEW kept,
           ElementSize(b) > 0 => size <= ElementSize(b),
           res = "SUCCESS" /\ Stores(b) => len \in Nat \cup {NullData}
    PROVE  Sound(Put(res, size, len, kept), b)
BY Fields DEF Sound, Inside, Fresh

LEMMA RefusedSound ==
    ASSUME NEW b, Bound(b), NEW res, res # "SUCCESS"
    PROVE  Sound(Refused(res), b) /\ Refused(res).res = res
BY Fields, ElementSizes, PutSound DEF Refused

LEMMA StructSound ==
    ASSUME NEW b, Bound(b), NEW res, NEW size \in Nat, NEW kept,
           ElementSize(b) > 0 => size <= ElementSize(b)
    PROVE  LET p == Struct(b, res, size, kept)
           IN  /\ Sound(p, b)
               /\ p.res = "SUCCESS" => p.res = res /\ p.kept = kept /\ p.size = size
<1>1. CASE b.ptr
  <2>1. Struct(b, res, size, kept) = Put(res, size, size, kept)
    BY <1>1 DEF Struct
  <2>2. QED
    BY <2>1, PutSound, Fields
<1>2. CASE ~b.ptr
  <2>1. Struct(b, res, size, kept) = Refused("FAULT")
    BY <1>2 DEF Struct
  <2>2. QED
    BY <2>1, RefusedSound
<1>3. QED
  BY <1>1, <1>2

LEMMA FillSound ==
    ASSUME NEW b, Bound(b), NEW res, NEW size \in Nat, NEW len \in Nat, NEW kept,
           ElementSize(b) > 0 => size <= ElementSize(b),
           NEW p, p = Fill(b, res, size, len, kept)
    PROVE  /\ Sound(p, b) /\ p.res = res /\ p.len = len
           /\ b.ptr => p.kept = kept /\ p.size = size
           /\ ~b.ptr => p.kept = {} /\ p.size = 0
<1>1. CASE b.ptr
  <2>1. p = Put(res, size, len, kept)
    BY <1>1 DEF Fill
  <2>2. QED
    BY <1>1, <2>1, PutSound, Fields
<1>2. CASE ~b.ptr
  <2>1. p = Put(res, 0, len, {})
    BY <1>2 DEF Fill
  <2>2. 0 \in Nat /\ (ElementSize(b) > 0 => 0 <= ElementSize(b))
    BY ElementSizes
  <2>3. QED
    BY <1>2, <2>1, <2>2, PutSound, Fields
<1>3. QED
  BY <1>1, <1>2

\* PutStrToStrBuffer.
LEMMA StrPut ==
    ASSUME NEW n \in Nat, NEW b, Bound(b), NEW parts,
           b.type \in TextTypes
    PROVE  LET p == PutStrToStrBuffer(n, b, Unit(b.type), parts)
           IN  /\ Sound(p, b) /\ WholeText(p, b, parts) /\ Measured(p, b)
               /\ b.ptr => p.len \in Nat
               /\ p.size > 0 => b.ptr
<1>p. CASE ~b.ptr
  <2>1. PutStrToStrBuffer(n, b, Unit(b.type), parts) = Put("SUCCESS", 0, Unset, {})
    BY <1>p DEF PutStrToStrBuffer
  <2>2. 0 \in Nat /\ (ElementSize(b) > 0 => 0 <= ElementSize(b)) /\ ~Stores(b)
    BY <1>p, ElementSizes DEF Stores
  <2>3. QED
    BY <1>p, <2>1, <2>2, PutSound, Fields DEF WholeText, Measured
<1>q. CASE b.ptr
  <2> DEFINE unit == Unit(b.type)
             k == Min({n, Room(b, unit)})
  <2>1. unit \in {1, WCharSize} /\ (unit = WCharSize => b.type = "WCHAR")
    BY AppBufferAssumption DEF Unit
  <2> HIDE DEF unit
  <2>0. k = Min({n, Room(b, unit)}) /\ unit \in Nat /\ b.buflen \in Nat
    BY <2>1, AppBufferAssumption DEF Bound
  <2>a. k \in Int
    <3>1. Room(b, unit) \in Int
      BY <2>0, <2>1, AppBufferAssumption DEF Room
    <3>2. QED
      BY <3>1, MinOfTwo
  <2> HIDE DEF k
  <2>2. /\ b.buflen >= unit /\ k \in Nat /\ k <= n
        /\ (k + 1) * unit \in Nat /\ (k + 1) * unit <= b.buflen
        /\ k * unit \in Nat
    BY <2>0, <2>1, <2>a, RoomFits
  <2>3. PutStrToStrBuffer(n, b, unit, parts)
          = Put(IF k < n THEN "VARLEN_DATA_TRUNCATED" ELSE "SUCCESS",
                (k + 1) * unit, k * unit, IF k < n THEN {} ELSE parts)
    <3>0. b.buflen >= unit
      BY <2>2
    <3>1. ~(b.buflen < unit)
      BY <2>0, <3>0
    <3>2. QED
      BY <1>q, <2>0, <3>1 DEF PutStrToStrBuffer
  <2>4. ElementSize(b) > 0 => (k + 1) * unit <= ElementSize(b)
    BY <2>2, ElementSizes DEF TextTypes
  <2>5. WholeText(PutStrToStrBuffer(n, b, unit, parts), b, parts)
    BY <2>2, <2>3, Fields DEF WholeText
  <2> DEFINE p == PutStrToStrBuffer(n, b, unit, parts)
  <2>6. p.size = (k + 1) * unit /\ p.len = k * unit
    BY <2>3, Fields
  <2>7. Sound(p, b)
    BY <2>2, <2>3, <2>4, PutSound
  <2> HIDE DEF p
  <2>8. Measured(p, b)
    BY <2>2, <2>6 DEF Measured, unit
  <2>9. QED
    BY <1>q, <2>2, <2>5, <2>6, <2>7, <2>8 DEF unit, p
<1>r. QED
  BY <1>p, <1>q

\* The CHAR and WCHAR cases of dates, times, timestamps and intervals.
LEMMA TextPut ==
    ASSUME NEW n \in Nat, NEW b, Bound(b), NEW parts, b.type \in Texts
    PROVE  LET p == PutText(n, b, parts)
           IN  /\ Sound(p, b) /\ WholeText(p, b, parts) /\ p.len = n
               /\ p.size > 0 => b.ptr
               /\ TextOf(p, n, b)
<1>1. CASE b.type = "CHAR"
  <2> DEFINE whole == n + 1 <= b.buflen
             size == Min({n + 1, b.buflen})
             res == IF whole \/ ~b.ptr THEN "SUCCESS" ELSE "VARLEN_DATA_TRUNCATED"
             kept == IF whole THEN parts ELSE {}
             p == PutText(n, b, parts)
  <2>1. p = Fill(b, res, size, n, kept)
    BY <1>1 DEF PutText, PutCharText
  <2>2. /\ size \in Nat /\ size <= b.buflen /\ (whole => size = n + 1)
        /\ Unit(b.type) = 1
    BY <1>1, MinOfTwo DEF Bound, Unit
  <2>3. ElementSize(b) > 0 => size <= ElementSize(b)
    BY <1>1, <2>2, ElementSizes DEF Texts
  <2>4. (res = "SUCCESS" /\ b.ptr => kept = parts) /\ (kept # {} => whole)
    OBVIOUS
  <2> HIDE DEF whole, size, res, kept, p
  <2>5. /\ Sound(p, b) /\ p.res = res /\ p.len = n
        /\ b.ptr => p.kept = kept /\ p.size = size
        /\ ~b.ptr => p.kept = {} /\ p.size = 0
    BY <2>1, <2>2, <2>3, FillSound
  <2>6. WholeText(p, b, parts)
    BY <2>4, <2>5 DEF WholeText
  <2>7. TextOf(p, n, b)
    BY <2>2, <2>4, <2>5 DEF TextOf
  <2>8. QED
    BY <2>5, <2>6, <2>7 DEF p
<1>2. CASE b.type = "WCHAR"
  <2> DEFINE whole == Fits(n, b, WCharSize)
             k == Min({n, Room(b, WCharSize)})
             size == (k + 1) * WCharSize
             res == IF whole \/ ~b.ptr THEN "SUCCESS" ELSE "VARLEN_DATA_TRUNCATED"
             kept == IF whole THEN parts ELSE {}
             p == PutText(n, b, parts)
  <2>1. p = Fill(b, res, size, n, kept)
    BY <1>2 DEF PutText, PutWcharText
  <2>a. /\ k = Min({n, Room(b, WCharSize)}) /\ k \in Int /\ WCharSize \in Nat
        /\ Unit(b.type) = WCharSize /\ (whole => k = n)
    BY <1>2, AppBufferAssumption, MinOfTwo DEF Room, Bound, Unit, Fits
  <2> HIDE DEF k
  <2>2. size \in Nat /\ size <= b.buflen
    BY <1>2, <2>a, RoomFits
  <2>3. ElementSize(b) > 0 => size <= ElementSize(b)
    BY <1>2, <2>2, ElementSizes DEF Texts
  <2>4. (res = "SUCCESS" /\ b.ptr => kept = parts) /\ (kept # {} => whole)
    OBVIOUS
  <2>b. whole => size = (n + 1) * WCharSize
    BY <2>a
  <2> HIDE DEF whole, size, res, kept, p
  <2>5. /\ Sound(p, b) /\ p.res = res /\ p.len = n
        /\ b.ptr => p.kept = kept /\ p.size = size
        /\ ~b.ptr => p.kept = {} /\ p.size = 0
    BY <2>1, <2>2, <2>3, FillSound
  <2>6. WholeText(p, b, parts)
    BY <2>4, <2>5 DEF WholeText
  <2>7. TextOf(p, n, b)
    BY <2>4, <2>5, <2>a, <2>b DEF TextOf
  <2>8. QED
    BY <1>2, <2>5, <2>6, <2>7 DEF p
<1>3. QED
  BY <1>1, <1>2 DEF Texts

\* PutDate.
LEMMA DatePut ==
    ASSUME NEW b, Bound(b), NEW parts
    PROVE  LET p == PutDate(parts, b)
           IN  /\ Sound(p, b)
               /\ p.res = "SUCCESS" => b.type \in Texts \cup {"TDATE", "TTIMESTAMP"}
               /\ b.ptr /\ p.res = "SUCCESS" /\ b.type = "CHAR"
                    => p.kept = parts \cap Date
               /\ b.type \in Texts => p.len = 10 /\ TextOf(p, 10, b)
               /\ p.res = "SUCCESS" /\ b.type = "TDATE"
                    => p.kept = parts \ {"time", "ns"}
               /\ p.res = "SUCCESS" /\ b.type = "TTIMESTAMP" => p.kept = parts \ {"ns"}
<1> DEFINE p == PutDate(parts, b)
<1>1. CASE b.type = "CHAR"
  <2> DEFINE kept == parts \cap Date
  <2>1. p = PutText(10, b, kept)
    BY <1>1 DEF PutDate, PutText
  <2> HIDE DEF kept, p
  <2>2. /\ Sound(p, b) /\ p.len = 10 /\ WholeText(p, b, kept) /\ TextOf(p, 10, b)
    BY <1>1, <2>1, TextPut DEF Texts
  <2>3. QED
    BY <1>1, <2>2 DEF Texts, WholeText, kept, p
<1>2. CASE b.type = "WCHAR"
  <2> DEFINE kept == parts \cap Date
             text == PutText(10, b, kept)
             res == IF 11 > b.buflen THEN "VARLEN_DATA_TRUNCATED" ELSE "SUCCESS"
  <2>1. p = [text EXCEPT !.res = res]
    BY <1>2, Zenon DEF PutDate, PutText
  <2> HIDE DEF kept, res, p
  <2>2. Sound(text, b) /\ text.len = 10 /\ TextOf(text, 10, b)
    BY <1>2, TextPut DEF Texts
  <2> HIDE DEF text
  <2>3. p = Put(res, text.size, 10, text.kept)
    <3>1. IsPut(text)
      BY <2>2 DEF Sound, Inside
    <3>2. p = Put(res, text.size, text.len, text.kept)
      BY <2>1, <3>1, ExceptRes, Zenon
    <3>3. QED
      BY <2>2, <3>2
  <2>4. Sound(p, b)
    BY <2>2, <2>3, PutSound DEF Sound, Inside
  <2>5. TextOf(p, 10, b)
    BY <2>2, <2>3, Fields DEF TextOf
  <2>6. QED
    BY <1>2, <2>3, <2>4, <2>5, Fields DEF Texts, p
<1>3. CASE b.type = "TDATE"
  <2>1. p = Struct(b, "SUCCESS", 6, parts \ {"time", "ns"})
    BY <1>3, FixedSizes DEF PutDate
  <2>2. ElementSize(b) = 6
    BY <1>3, ElementSizes, FixedSizes
  <2>3. QED
    BY <1>3, <2>1, <2>2, StructSound DEF Texts
<1>4. CASE b.type = "TTIMESTAMP"
  <2>1. p = Struct(b, "SUCCESS", 16, parts \ {"ns"})
    BY <1>4, FixedSizes DEF PutDate
  <2>2. ElementSize(b) = 16
    BY <1>4, ElementSizes, FixedSizes
  <2>3. QED
    BY <1>4, <2>1, <2>2, StructSound DEF Texts
<1>5. CASE b.type \notin Texts \cup {"TDATE", "TTIMESTAMP"}
  <2>1. p = Refused("UNSUPPORTED_CONVERSION")
    BY <1>5 DEF PutDate, Texts
  <2>2. QED
    BY <1>5, <2>1, RefusedSound DEF Texts
<1>6. QED
  BY <1>1, <1>2, <1>3, <1>4, <1>5 DEF Texts

\* PutTimestamp.
LEMMA TimestampPut ==
    ASSUME NEW b, Bound(b), NEW parts
    PROVE  LET p == PutTimestamp(parts, b)
           IN  /\ Sound(p, b)
               /\ p.res = "SUCCESS" => b.type \in Texts \cup {"TTIMESTAMP"}
               /\ b.ptr /\ p.res = "SUCCESS" => p.kept = parts
               /\ b.type \in Texts => p.len = 29 /\ TextOf(p, 29, b)
<1> DEFINE p == PutTimestamp(parts, b)
<1>1. CASE b.type \in Texts
  <2>1. p = PutText(29, b, parts)
    BY <1>1 DEF PutTimestamp
  <2>2. QED
    BY <1>1, <2>1, TextPut DEF WholeText
<1>2. CASE b.type \in {"TDATE", "TTIME"}
  <2> DEFINE kept == IF b.type = "TDATE" THEN parts \cap Date ELSE parts \cap Time
  <2>0. b.type \notin Texts
    BY <1>2 DEF Texts
  <2>1. p = Struct(b, "FRACTIONAL_TRUNCATED", 6, kept)
    BY <1>2, <2>0, FixedSizes DEF PutTimestamp
  <2>2. ElementSize(b) = 6
    BY <1>2, ElementSizes, FixedSizes
  <2> HIDE DEF kept, p
  <2>3. Sound(p, b) /\ p.res # "SUCCESS"
    BY <2>1, <2>2, StructSound
  <2>4. QED
    BY <2>0, <2>3 DEF p
<1>3. CASE b.type = "TTIMESTAMP"
  <2>1. p = Struct(b, "SUCCESS", 16, parts)
    BY <1>3, FixedSizes DEF PutTimestamp, Texts
  <2>2. ElementSize(b) = 16
    BY <1>3, ElementSizes, FixedSizes
  <2>3. QED
    BY <1>3, <2>1, <2>2, StructSound DEF Texts
<1>4. CASE b.type \notin Texts \cup {"TDATE", "TTIME", "TTIMESTAMP"}
  <2>1. p = Refused("UNSUPPORTED_CONVERSION")
    BY <1>4 DEF PutTimestamp
  <2>2. QED
    BY <1>4, <2>1, RefusedSound
<1>5. QED
  BY <1>1, <1>2, <1>3, <1>4

\* PutTime.
LEMMA TimePut ==
    ASSUME NEW b, Bound(b), NEW parts
    PROVE  LET p == PutTime(parts, b)
           IN  /\ Sound(p, b)
               /\ p.res = "SUCCESS" => b.type \in Texts \cup {"TTIMESTAMP"}
               /\ b.ptr /\ p.res = "SUCCESS"
                    => p.kept = IF b.type = "TTIMESTAMP" THEN parts ELSE parts \ Date
               /\ b.type \in Texts => p.len = 18 /\ TextOf(p, 18, b)
<1> DEFINE p == PutTime(parts, b)
<1>1. CASE b.type \in Texts
  <2> DEFINE kept == parts \ Date
  <2>1. p = PutText(18, b, kept)
    BY <1>1 DEF PutTime
  <2>2. b.type # "TTIMESTAMP"
    BY <1>1 DEF Texts
  <2> HIDE DEF kept, p
  <2>3. Sound(p, b) /\ p.len = 18 /\ WholeText(p, b, kept) /\ TextOf(p, 18, b)
    BY <1>1, <2>1, TextPut
  <2>4. QED
    BY <1>1, <2>2, <2>3 DEF WholeText, kept, p
<1>2. CASE b.type = "TTIME"
  <2>0. b.type \notin Texts
    BY <1>2 DEF Texts
  <2>1. p = Struct(b, "VARLEN_DATA_TRUNCATED", 6, parts \cap Time)
    BY <1>2, <2>0, FixedSizes DEF PutTime
  <2>2. ElementSize(b) = 6
    BY <1>2, ElementSizes, FixedSizes
  <2> HIDE DEF p
  <2>3. Sound(p, b) /\ p.res # "SUCCESS"
    BY <2>1, <2>2, StructSound
  <2>4. QED
    BY <2>0, <2>3 DEF p
<1>3. CASE b.type = "TTIMESTAMP"
  <2>1. p = Struct(b, "SUCCESS", 16, parts)
    BY <1>3, FixedSizes DEF PutTime, Texts
  <2>2. ElementSize(b) = 16
    BY <1>3, ElementSizes, FixedSizes
  <2>3. QED
    BY <1>3, <2>1, <2>2, StructSound DEF Texts
<1>4. CASE b.type \notin Texts \cup {"TTIME", "TTIMESTAMP"}
  <2>1. p = Refused("UNSUPPORTED_CONVERSION")
    BY <1>4 DEF PutTime
  <2>2. QED
    BY <1>4, <2>1, RefusedSound
<1>5. QED
  BY <1>1, <1>2, <1>3, <1>4

\* PutInterval, of both kinds of interval.
LEMMA PutIntervalYearMonthSound ==
    ASSUME NEW b, Bound(b), NEW d, d.n \in Nat
    PROVE  Sound(PutIntervalYearMonth(d, b), b)
<1> DEFINE parts == Signed(d.parts, "year")
<1>1. CASE b.type \in Texts
  <2>1. PutIntervalYearMonth(d, b) = PutText(d.n, b, parts)
    BY <1>1 DEF PutIntervalYearMonth
  <2> HIDE DEF parts
  <2>2. QED
    BY <1>1, <2>1, TextPut
<1>2. CASE b.type \notin Texts /\ b.type \in Intervals
  <2> DEFINE kept == SetYearMonthValue(b.type, parts)
  <2>1. PutIntervalYearMonth(d, b) = Struct(b, "SUCCESS", 28, kept)
    BY <1>2 DEF PutIntervalYearMonth, IntervalSize
  <2>2. ElementSize(b) = 0
    BY <1>2, ElementSizes
  <2> HIDE DEF kept
  <2>3. QED
    BY <2>1, <2>2, StructSound
<1>3. CASE b.type \notin Texts /\ b.type \notin Intervals
  <2>1. PutIntervalYearMonth(d, b) = Refused("UNSUPPORTED_CONVERSION")
    BY <1>3 DEF PutIntervalYearMonth
  <2>2. QED
    BY <2>1, RefusedSound
<1>4. QED
  BY <1>1, <1>2, <1>3

LEMMA PutIntervalDaySecondSound ==
    ASSUME NEW b, Bound(b), NEW d, d.n \in Nat
    PROVE  Sound(PutIntervalDaySecond(d, b), b)
<1> DEFINE parts == Signed(d.parts, "day")
<1>1. CASE b.type \in Texts
  <2>1. PutIntervalDaySecond(d, b) = PutText(d.n, b, parts)
    BY <1>1 DEF PutIntervalDaySecond
  <2> HIDE DEF parts
  <2>2. QED
    BY <1>1, <2>1, TextPut
<1>2. CASE b.type \notin Texts /\ b.type \in Intervals
  <2> DEFINE kept == SetDaySecondValue(b.type, parts)
  <2>1. PutIntervalDaySecond(d, b) = Struct(b, "SUCCESS", 28, kept)
    BY <1>2 DEF PutIntervalDaySecond, IntervalSize
  <2>2. ElementSize(b) = 0
    BY <1>2, ElementSizes
  <2> HIDE DEF kept
  <2>3. QED
    BY <2>1, <2>2, StructSound
<1>3. CASE b.type \notin Texts /\ b.type \notin Intervals
  <2>1. PutIntervalDaySecond(d, b) = Refused("UNSUPPORTED_CONVERSION")
    BY <1>3 DEF PutIntervalDaySecond
  <2>2. QED
    BY <2>1, RefusedSound
<1>4. QED
  BY <1>1, <1>2, <1>3

\* The types PutString reads a number for.
NumberTypes == Ints \cup {"NUMERIC", "FLOAT", "DOUBLE"}

\* A cast to a signed type keeps what its width holds.
LEMMA CastKeeps ==
    ASSUME NEW type \in Ints, type \notin Unsigned, NEW v \in Int,
           InRange(v, IntTypes[type])
    PROVE  Cast(v, type) = v
<1> DEFINE h == Half[IntTypes[type]]
<1>1. h \in Nat \ {0} /\ -h <= v /\ v < h
  BY IntSizes, NumberAssumption DEF InRange
<1>2. Cast(v, type) = ((v + h) % (2 * h)) - h
  BY DEF Cast
<1> HIDE DEF h
<1>3. v + h \in 0 .. (2 * h - 1)
  BY <1>1
<1>4. (v + h) % (2 * h) = v + h
  BY <1>1, <1>3
<1>5. QED
  BY <1>1, <1>2, <1>4

\* PutNum into a number: the element is filled, and what it loses.
LEMMA NumberPut ==
    ASSUME NEW b, Bound(b), NEW d, NEW size, b.type \in NumberTypes
    PROVE  LET p == PutNum(d, size, b)
           IN  /\ Sound(p, b) /\ p.res = "SUCCESS"
               /\ p.len = ElementSize(b) /\ p.len \in Nat /\ p.len > 0
               /\ IF b.ptr THEN p.size = ElementSize(b) ELSE p.size = 0
               /\ b.ptr /\ b.type \in Ints /\ ~d.frac /\ Cast(d.v, b.type) = d.v
                    => p.kept = d.parts
               /\ b.ptr /\ b.type = "DOUBLE" /\ ~Rounded(d, b.type)
                    => p.kept = d.parts
               /\ b.ptr /\ b.type = "NUMERIC" /\ ~NumericLost(d, size)
                    => p.kept = d.parts
<1> DEFINE p == PutNum(d, size, b)
<1>1. CASE b.type \in Ints
  <2> DEFINE kept == IF d.frac \/ Cast(d.v, b.type) # d.v THEN {} ELSE d.parts
             w == IntTypes[b.type]
  <2>1. p = Fill(b, "SUCCESS", w, w, kept)
    BY <1>1 DEF PutNum
  <2>2. ElementSize(b) = w /\ w \in Nat /\ w > 0
    BY <1>1, ElementSizes, IntSizes
  <2>3. ~d.frac /\ Cast(d.v, b.type) = d.v => kept = d.parts
    OBVIOUS
  <2>4. b.type \notin {"DOUBLE", "NUMERIC"}
    BY <1>1, IntSizes
  <2> HIDE DEF w, kept, p
  <2>5. /\ Sound(p, b) /\ p.res = "SUCCESS" /\ p.len = w
        /\ b.ptr => p.kept = kept /\ p.size = w
        /\ ~b.ptr => p.size = 0
    BY <2>1, <2>2, FillSound
  <2>6. QED
    BY <2>2, <2>3, <2>4, <2>5 DEF p
<1>2. CASE b.type \in {"FLOAT", "DOUBLE"}
  <2> DEFINE kept == IF Rounded(d, b.type) THEN {} ELSE d.parts
             w == FixedTypes[b.type]
  <2>0. b.type \notin Ints /\ b.type # "NUMERIC"
    BY <1>2, IntSizes
  <2>1. p = Fill(b, "SUCCESS", w, w, kept)
    BY <1>2, <2>0 DEF PutNum
  <2>2. ElementSize(b) = w /\ w \in Nat /\ w > 0
    BY <1>2, ElementSizes, FixedSizes
  <2>3. ~Rounded(d, b.type) => kept = d.parts
    OBVIOUS
  <2> HIDE DEF w, kept, p
  <2>4. /\ Sound(p, b) /\ p.res = "SUCCESS" /\ p.len = w
        /\ b.ptr => p.kept = kept /\ p.size = w
        /\ ~b.ptr => p.size = 0
    BY <2>1, <2>2, FillSound
  <2>5. QED
    BY <2>0, <2>2, <2>3, <2>4 DEF p
<1>3. CASE b.type = "NUMERIC"
  <2> DEFINE kept == IF NumericLost(d, size) THEN {} ELSE d.parts
  <2>0. b.type \notin Ints /\ b.type \notin {"FLOAT", "DOUBLE"} \cup Texts
    BY <1>3, IntSizes DEF Texts
  <2>1. p = Fill(b, "SUCCESS", 19, 19, kept)
    BY <1>3, <2>0, FixedSizes DEF PutNum
  <2>2. ElementSize(b) = 19
    BY <1>3, ElementSizes, FixedSizes
  <2>3. ~NumericLost(d, size) => kept = d.parts
    OBVIOUS
  <2> HIDE DEF kept, p
  <2>4. /\ Sound(p, b) /\ p.res = "SUCCESS" /\ p.len = 19
        /\ b.ptr => p.kept = kept /\ p.size = 19
        /\ ~b.ptr => p.size = 0
    BY <2>1, <2>2, FillSound
  <2>5. QED
    BY <2>0, <2>2, <2>3, <2>4 DEF p
<1>4. QED
  BY <1>1, <1>2, <1>3 DEF NumberTypes

\* PutNum into any type.
LEMMA NumPut ==
    ASSUME NEW b, Bound(b), NEW d, d.n \in Nat, NEW size \in Nat
    PROVE  LET p == PutNum(d, size, b)
           IN  /\ Sound(p, b)
               /\ b.type \in Texts /\ d.kind # "DOUBLE"
                    => WholeText(p, b, d.parts) /\ Measured(p, b)
<1> DEFINE p == PutNum(d, size, b)
<1>0. /\ Texts \cap NumberTypes = {} /\ "BINARY" \notin NumberTypes
      /\ "DEFAULT" \notin NumberTypes /\ "TDATE" \notin NumberTypes
      /\ "TTIMESTAMP" \notin NumberTypes /\ "TTIME" \notin NumberTypes
  BY IntSizes DEF Texts, NumberTypes
<1>1. CASE b.type \in NumberTypes
  BY <1>0, <1>1, NumberPut
<1>2. CASE b.type \in Texts
  <2> DEFINE kept == IF d.kind = "DOUBLE" /\ d.digits > 6 THEN {} ELSE d.parts
  <2>1. p = PutStrToStrBuffer(d.n, b, Unit(b.type), kept)
    BY <1>0, <1>2 DEF PutNum, NumberTypes
  <2>2. d.kind # "DOUBLE" => kept = d.parts
    OBVIOUS
  <2> HIDE DEF kept, p
  <2>3. Sound(p, b) /\ WholeText(p, b, kept) /\ Measured(p, b)
    BY <1>2, <2>1, StrPut DEF TextTypes
  <2>4. QED
    BY <2>2, <2>3 DEF p
<1>3. CASE b.type \in {"BINARY", "DEFAULT"}
  <2> DEFINE kept == IF b.buflen < size THEN {} ELSE d.parts
             res == IF b.buflen < size THEN "VARLEN_DATA_TRUNCATED" ELSE "SUCCESS"
             k == Min({size, b.buflen})
  <2>0. b.type \notin Texts
    BY <1>3 DEF Texts
  <2>1. p = Fill(b, res, k, size, kept)
    BY <1>0, <1>3, <2>0 DEF PutNum, NumberTypes
  <2>2. k \in Nat /\ k <= b.buflen
    BY MinOfTwo DEF Bound
  <2>3. ElementSize(b) > 0 => k <= ElementSize(b)
    BY <1>3, <2>2, ElementSizes
  <2> HIDE DEF kept, res, k, p
  <2>4. Sound(p, b)
    BY <2>1, <2>2, <2>3, FillSound
  <2>5. QED
    BY <2>0, <2>4 DEF p
<1>4. CASE b.type = "TDATE"
  <2> DEFINE kept == IF d.v # 0 \/ d.frac THEN {} ELSE d.parts
  <2>0. b.type \notin Texts
    BY <1>4 DEF Texts
  <2>1. p = PutDate(kept, b)
    BY <1>0, <1>4, <2>0 DEF PutNum, NumberTypes
  <2> HIDE DEF kept
  <2>2. QED
    BY <2>0, <2>1, DatePut
<1>5. CASE b.type = "TTIMESTAMP"
  <2> DEFINE kept == IF d.frac THEN {} ELSE d.parts
  <2>0. b.type \notin Texts
    BY <1>5 DEF Texts
  <2>1. p = PutTimestamp(kept, b)
    BY <1>0, <1>5, <2>0 DEF PutNum, NumberTypes
  <2> HIDE DEF kept
  <2>2. QED
    BY <2>0, <2>1, TimestampPut
<1>6. CASE b.type = "TTIME"
  <2>0. b.type \notin Texts
    BY <1>6 DEF Texts
  <2>1. p = PutTime(d.parts, b)
    BY <1>0, <1>6, <2>0 DEF PutNum, NumberTypes
  <2>2. QED
    BY <2>0, <2>1, TimePut
<1>7. CASE b.type \notin NumberTypes \cup Texts
                     \cup {"BINARY", "DEFAULT", "TDATE", "TTIMESTAMP", "TTIME"}
  <2>1. p = Refused("UNSUPPORTED_CONVERSION")
    BY <1>7 DEF PutNum, NumberTypes
  <2>2. QED
    BY <1>7, <2>1, RefusedSound
<1>8. QED
  BY <1>1, <1>2, <1>3, <1>4, <1>5, <1>6, <1>7

\* PutNull.
LEMMA NullPut ==
    ASSUME NEW b, Bound(b)
    PROVE  /\ Sound(PutNull(b), b)
           /\ PutNull(b).res = "SUCCESS" => PutNull(b).kept = {"null"}
<1>1. CASE b.ind
  <2>1. PutNull(b) = Put("SUCCESS", 0, NullData, {"null"})
    BY <1>1 DEF PutNull
  <2>2. QED
    BY <2>1, PutSound, ElementSizes, Fields
<1>2. CASE ~b.ind
  <2>1. PutNull(b) = Refused("INDICATOR_NEEDED")
    BY <1>2 DEF PutNull
  <2>2. QED
    BY <2>1, RefusedSound
<1>3. QED
  BY <1>1, <1>2

\* The types PutString takes.
StringTypes == NumberTypes \cup TextTypes

\* PutString.
LEMMA StringPut ==
    ASSUME NEW b, Bound(b), NEW d, d.n \in Nat
    PROVE  LET p == PutString(d, b)
           IN  /\ Sound(p, b)
               /\ b.type \in TextTypes => WholeText(p, b, d.parts) /\ Measured(p, b)
               /\ b.type \in StringTypes /\ Stores(b) => p.len \in Nat
               /\ p.res = "SUCCESS" => b.type \in StringTypes
<1> DEFINE p == PutString(d, b)
<1>0. TextTypes \cap NumberTypes = {}
  BY IntSizes DEF Texts, NumberTypes, TextTypes
<1>1. CASE b.type \in NumberTypes
  <2> DEFINE e == Scanned(d, b.type)
  <2>1. p = PutNum(e, 8, b)
    BY <1>1, Zenon DEF PutString, NumberTypes
  <2> HIDE DEF e, p
  <2>2. Sound(p, b) /\ p.len \in Nat
    BY <1>1, <2>1, NumberPut
  <2>3. QED
    BY <1>0, <1>1, <2>2 DEF p, StringTypes
<1>2. CASE b.type \in TextTypes
  <2>1. p = PutStrToStrBuffer(d.n, b, Unit(b.type), d.parts)
    BY <1>0, <1>2, Zenon DEF PutString, NumberTypes
  <2>2. QED
    BY <1>2, <2>1, StrPut DEF StringTypes, Stores
<1>3. CASE b.type \notin StringTypes
  <2>1. p = Refused("UNSUPPORTED_CONVERSION")
    BY <1>3, Zenon DEF PutString, NumberTypes, StringTypes
  <2>2. QED
    BY <1>3, <2>1, RefusedSound DEF StringTypes
<1>4. QED
  BY <1>1, <1>2, <1>3 DEF StringTypes

(***************************************************************************)
(* What TrinoColumn makes of a datum                                       *)
(***************************************************************************)

\* What ParseScalarType and ParseDatum leave of a value of the given kind.
Converted(p, kind, b) ==
    /\ Inside(p, b)
    /\ (kind = "NULL" => b.type \in StringTypes) => Fresh(p, b)

LEMMA ScalarPut ==
    ASSUME NEW b, Bound(b), NEW d, d.n \in Nat, d.kind \in ScalarKinds
    PROVE  Converted(ParseScalarType(d, b), d.kind, b)
<1> DEFINE p == ParseScalarType(d, b)
<1>1. CASE d.kind = "VARCHAR"
  <2>1. p = PutString(d, b)
    BY <1>1 DEF ParseScalarType
  <2>2. QED
    BY <2>1, StringPut DEF Converted, Sound
<1>2. CASE d.kind = "BOOLEAN"
  <2>1. p = PutNum(d, 1, b)
    BY <1>2 DEF ParseScalarType, PutNumber
  <2>2. QED
    BY <2>1, NumPut DEF Converted, Sound
<1>3. CASE d.kind = "INTEGER"
  <2>1. p = PutNum(d, 4, b)
    BY <1>3 DEF ParseScalarType, PutNumber
  <2>2. QED
    BY <2>1, NumPut DEF Converted, Sound
<1>4. CASE d.kind \in {"BIGINT", "DOUBLE"}
  <2>1. p = PutNum(d, 8, b)
    BY <1>4 DEF ParseScalarType, PutNumber
  <2>2. QED
    BY <2>1, NumPut DEF Converted, Sound
<1>5. CASE d.kind = "NOT_SET"
  <2>1. p = PutNull(b)
    BY <1>5 DEF ParseScalarType
  <2>2. QED
    BY <2>1, NullPut DEF Converted, Sound
<1>6. CASE d.kind = "TIMESTAMP"
  <2>1. p = PutTimestamp(d.parts, b)
    BY <1>6 DEF ParseScalarType
  <2>2. QED
    BY <2>1, TimestampPut DEF Converted, Sound
<1>7. CASE d.kind = "DATE"
  <2>1. p = PutDate(d.parts, b)
    BY <1>7 DEF ParseScalarType
  <2>2. QED
    BY <2>1, DatePut DEF Converted, Sound
<1>8. CASE d.kind = "TIME"
  <2>1. p = PutTime(d.parts, b)
    BY <1>8 DEF ParseScalarType
  <2>2. QED
    BY <2>1, TimePut DEF Converted, Sound
<1>9. CASE d.kind = "INTERVAL_YEAR_TO_MONTH"
  <2>1. p = PutIntervalYearMonth(d, b)
    BY <1>9 DEF ParseScalarType
  <2>2. QED
    BY <2>1, PutIntervalYearMonthSound DEF Converted, Sound
<1>10. CASE d.kind = "INTERVAL_DAY_TO_SECOND"
  <2>1. p = PutIntervalDaySecond(d, b)
    BY <1>10 DEF ParseScalarType
  <2>2. QED
    BY <2>1, PutIntervalDaySecondSound DEF Converted, Sound
<1>11. CASE d.kind = "NULL"
  <2> DEFINE dash == Dash({})
             text == PutString(dash, b)
  <2>1. p = [text EXCEPT !.res = "SUCCESS"]
    BY <1>11 DEF ParseScalarType
  <2>2. dash.n \in Nat
    BY DEF Dash, Text
  <2> HIDE DEF dash
  <2>3. Inside(text, b) /\ (b.type \in StringTypes /\ Stores(b) => text.len \in Nat)
    BY <2>2, StringPut DEF Sound
  <2> HIDE DEF text, p
  <2>4. IsPut(text)
    BY <2>3 DEF Inside
  <2>5. p = Put("SUCCESS", text.size, text.len, text.kept)
    BY <2>1, <2>4, ExceptRes, Zenon
  <2>6. Inside(p, b)
    BY <2>3, <2>5, Fields DEF Inside
  <2>7. b.type \in StringTypes => Fresh(p, b)
    BY <2>3, <2>5, Fields DEF Fresh
  <2>8. QED
    BY <1>11, <2>6, <2>7 DEF Converted, p
<1>12. QED
  BY <1>1, <1>2, <1>3, <1>4, <1>5, <1>6, <1>7, <1>8, <1>9, <1>10, <1>11
     DEF ScalarKinds

\* The text of a list has a length.
LEMMA CharsNat ==
    ASSUME NEW d \in Scalars
    PROVE  Chars(d) \in Nat
<1>1. Bound(Nested) /\ d.n \in Nat /\ d.kind \in ScalarKinds
  BY DEF Bound, Nested, NestedSize, Scalars, Datum
<1>2. ParseScalarType(d, Nested).size \in Nat
  BY <1>1, ScalarPut DEF Converted, Inside
<1>3. QED
  BY <1>2, MaxOfTwo DEF Chars

LEMMA SumNat ==
    ASSUME NEW items \in Seq(Scalars), NEW per \in Nat
    PROVE  Sum(items, per) \in Nat
<1> DEFINE of(i) == {i} \X (1 .. Chars(items[i]) + per)
           all == {of(i) : i \in DOMAIN items}
<1>1. IsFiniteSet(DOMAIN items)
  <2>1. DOMAIN items = 1 .. Len(items) /\ Len(items) \in Nat
    OBVIOUS
  <2>2. QED
    BY <2>1, FS_Interval
<1>2. ASSUME NEW i \in DOMAIN items PROVE IsFiniteSet(of(i))
  <2>1. Chars(items[i]) + per \in Nat
    BY CharsNat
  <2>2. IsFiniteSet(1 .. Chars(items[i]) + per)
    BY <2>1, FS_Interval
  <2>3. IsFiniteSet({i})
    BY FS_Singleton
  <2>4. QED
    BY <2>2, <2>3, FS_Product
<1>3. IsFiniteSet(all)
  <2> DEFINE f == [i \in DOMAIN items |-> of(i)]
  <2>1. f \in [DOMAIN items -> all] /\ \A x \in all : \E i \in DOMAIN items : f[i] = x
    OBVIOUS
  <2>2. f \in Surjection(DOMAIN items, all)
    BY <2>1, Zenon DEF Surjection
  <2> HIDE DEF f, all
  <2>3. QED
    BY <1>1, <2>2, FS_Surjection
<1>4. \A x \in all : IsFiniteSet(x)
  BY <1>2
<1>5. IsFiniteSet(UNION all)
  BY <1>3, <1>4, FS_UNION
<1>6. QED
  BY <1>5, FS_CardinalityType DEF Sum

\* A datum as ParseDatum reads it: the parts differ where there is no fraction.
Junk == {{}, {"ns"}}

LEMMA ReadKeeps ==
    ASSUME NEW d \in Data, NEW junk \in Junk
    PROVE  /\ Read(d, junk).kind = d.kind
           /\ Read(d, junk).n = d.n /\ d.n \in Nat
           /\ Read(d, junk).items = d.items
           /\ ~d.bare => Read(d, junk) = d
           /\ d.kind \in ScalarKinds \cup ListKinds
           /\ d.kind \in ListKinds => d.items \in Seq(Scalars)
           /\ d.bare => d.kind \in {"TIME", "TIMESTAMP"}
<1>1. CASE d \in Scalars
  <2>1. d.kind \in ScalarKinds /\ d.kind \notin ListKinds
    BY <1>1 DEF Scalars, Datum, ScalarKinds, ListKinds
  <2>2. QED
    BY <1>1, <2>1 DEF Scalars, Datum, Read
<1>2. CASE d \in Datum(ListKinds, Seq(Scalars))
  BY <1>2 DEF Datum, Read
<1>3. QED
  BY <1>1, <1>2, DataAssumption

LEMMA DatumPut ==
    ASSUME NEW b, Bound(b), NEW d \in Data, NEW junk \in Junk
    PROVE  Converted(ParseDatum(Read(d, junk), b), d.kind, b)
<1> DEFINE e == Read(d, junk)
           p == ParseDatum(e, b)
<1>1. /\ e.kind = d.kind /\ e.n \in Nat /\ e.items = d.items
      /\ d.kind \in ScalarKinds \cup ListKinds
      /\ d.kind \in ListKinds => d.items \in Seq(Scalars)
  BY ReadKeeps
<1> SUFFICES Converted(p, d.kind, b)
  OBVIOUS
<1> HIDE DEF e
<1>2. ASSUME NEW n \in Nat, NEW parts
      PROVE  Sound(PutString(Text(n, parts), b), b)
  <2>1. Text(n, parts).n = n
    BY DEF Text
  <2>2. QED
    BY <2>1, StringPut
<1>3. ASSUME NEW n \in Nat PROVE Sound(PutString(Joined(e, n), b), b)
  <2> DEFINE parts == IF Whole(e.items) THEN e.parts ELSE {}
  <2>1. Joined(e, n) = Text(n, parts)
    BY DEF Joined
  <2> HIDE DEF parts
  <2>2. QED
    BY <1>2, <2>1
<1>4. CASE d.kind = "TIMESERIES"
  <2> DEFINE n == IF e.items = <<>> THEN 2 ELSE 1 + Sum(e.items, 46)
  <2>1. p = PutString(Joined(e, n), b)
    BY <1>1, <1>4 DEF ParseDatum, ParseTimeSeriesType
  <2>2. n \in Nat
    BY <1>1, <1>4, SumNat DEF ListKinds
  <2> HIDE DEF n
  <2>3. QED
    BY <1>3, <1>4, <2>1, <2>2 DEF Converted, Sound
<1>5. CASE d.kind = "ARRAY"
  <2>1. CASE e.items = <<>>
    <3>1. p = PutString(Text(1, {}), b)
      BY <1>1, <1>5, <2>1 DEF ParseDatum, ParseArrayType, Dash
    <3>2. QED
      BY <1>2, <1>5, <3>1 DEF Converted, Sound
  <2>2. CASE e.items # <<>>
    <3>1. p = PutString(Joined(e, 1 + Sum(e.items, 1)), b)
      BY <1>1, <1>5, <2>2 DEF ParseDatum, ParseArrayType
    <3>2. 1 + Sum(e.items, 1) \in Nat
      BY <1>1, <1>5, SumNat DEF ListKinds
    <3>3. QED
      BY <1>3, <1>5, <3>1, <3>2 DEF Converted, Sound
  <2>3. QED
    BY <2>1, <2>2
<1>6. CASE d.kind = "ROW"
  <2>1. CASE e.items = <<>>
    <3>1. p = Refused("NO_DATA")
      BY <1>1, <1>6, <2>1 DEF ParseDatum, ParseRowType
    <3>2. QED
      BY <1>6, <3>1, RefusedSound DEF Converted, Sound
  <2>2. CASE e.items # <<>>
    <3>1. p = PutString(Joined(e, 1 + Sum(e.items, 1)), b)
      BY <1>1, <1>6, <2>2 DEF ParseDatum, ParseRowType
    <3>2. 1 + Sum(e.items, 1) \in Nat
      BY <1>1, <1>6, SumNat DEF ListKinds
    <3>3. QED
      BY <1>3, <1>6, <3>1, <3>2 DEF Converted, Sound
  <2>3. QED
    BY <2>1, <2>2
<1>7. CASE d.kind \notin ListKinds
  <2>1. p = ParseScalarType(e, b)
    BY <1>1, <1>7 DEF ParseDatum, ListKinds
  <2>2. QED
    BY <1>1, <1>7, <2>1, ScalarPut
<1>8. QED
  BY <1>4, <1>5, <1>6, <1>7 DEF ListKinds

\* What the parts of a datum can be.
LEMMA DatumParts ==
    ASSUME NEW d \in Data
    PROVE  /\ d.kind = "VARCHAR" /\ d.n = 0 => d.parts = {}
           /\ d.kind \in WholeKinds => d.n > 0 /\ ~d.frac
           /\ d.v \in Int
           /\ d.kind = "BOOLEAN" => d.v \in {0, 1}
           /\ d.kind = "INTEGER" => InRange(d.v, 4)
           /\ d.kind = "BIGINT" => InRange(d.v, 8)
           /\ d.kind = "NOT_SET" => d.parts = {"null"}
           /\ d.kind = "DATE" => d.parts \subseteq {"date"}
           /\ d.kind = "TIME" => d.parts \subseteq {"time", "ns"}
           /\ d.kind = "TIMESTAMP" => d.parts \subseteq {"date", "time", "ns"}
<1>1. CASE d \in Scalars
  BY <1>1 DEF Scalars, Datum
<1>2. CASE d \in Datum(ListKinds, Seq(Scalars))
  BY <1>2 DEF Datum
<1>3. QED
  BY <1>1, <1>2, DataAssumption

\* The kinds that are put without change of their parts.
LEMMA ParseKinds ==
    ASSUME NEW b, NEW e
    PROVE  LET p == ParseDatum(e, b)
           IN  /\ e.kind = "VARCHAR" => p = PutString(e, b)
               /\ e.kind = "BOOLEAN" => p = PutNum(e, 1, b)
               /\ e.kind = "INTEGER" => p = PutNum(e, 4, b)
               /\ e.kind = "BIGINT" => p = PutNum(e, 8, b)
               /\ e.kind = "NOT_SET" => p = PutNull(b)
               /\ e.kind = "TIMESTAMP" => p = PutTimestamp(e.parts, b)
               /\ e.kind = "DATE" => p = PutDate(e.parts, b)
               /\ e.kind = "TIME" => p = PutTime(e.parts, b)
BY DEF ParseDatum, ParseScalarType, PutNumber

\* An integer in a type that holds all of its kind.
LEMMA NumberIntact ==
    ASSUME NEW b, Bound(b), b.ptr, NEW d \in Data, NEW size \in {1, 4, 8},
           Guarded(d, b.type), d.kind \in WholeKinds,
           d.kind = "BOOLEAN" => size = 1, d.kind = "INTEGER" => size = 4,
           d.kind = "BIGINT" => size = 8,
           PutNum(d, size, b).res = "SUCCESS"
    PROVE  PutNum(d, size, b).kept = d.parts
<1>0. /\ ~d.frac /\ d.v \in Int /\ d.n \in Nat
      /\ d.kind = "BOOLEAN" => d.v \in {0, 1}
      /\ d.kind = "INTEGER" => InRange(d.v, 4)
      /\ d.kind = "BIGINT" => InRange(d.v, 8)
      /\ d.kind \in {"BOOLEAN", "INTEGER", "BIGINT"}
  BY DatumParts, ReadKeeps DEF WholeKinds, Junk
<1>h. /\ Half[4] \in Nat /\ Half[8] \in Nat /\ 2 <= Half[4] /\ Half[4] <= Half[8]
      /\ Exact["DOUBLE"] \in Nat /\ Half[4] <= Exact["DOUBLE"]
  BY NumberAssumption
<1>1. CASE b.type \in Texts
  BY <1>0, <1>1, NumPut DEF WholeText, WholeKinds
<1>2. CASE b.type \in {"SIGNED_LONG", "SIGNED_BIGINT"}
  <2>1. InRange(d.v, IntTypes[b.type])
    <3>1. \/ d.kind \in {"BOOLEAN", "INTEGER"}
          \/ d.kind = "BIGINT" /\ b.type = "SIGNED_BIGINT"
      BY <1>0, <1>2 DEF Guarded, Texts
    <3>2. QED
      BY <1>0, <1>2, <1>h, <3>1, IntSizes DEF InRange
  <2>2. b.type \in Ints /\ b.type \notin Unsigned
    BY <1>2, IntSizes DEF Unsigned
  <2>3. Cast(d.v, b.type) = d.v
    BY <1>0, <2>1, <2>2, CastKeeps
  <2>4. QED
    BY <1>0, <2>2, <2>3, NumberPut DEF NumberTypes
<1>3. CASE b.type = "DOUBLE"
  <2>1. d.kind \in {"BOOLEAN", "INTEGER"}
    BY <1>0, <1>3 DEF Guarded, Texts
  <2>2. -Half[4] <= d.v /\ d.v <= Half[4]
    BY <1>0, <1>h, <2>1 DEF InRange
  <2>3. ~Rounded(d, b.type)
    BY <1>0, <1>3, <1>h, <2>2 DEF Rounded
  <2>4. QED
    BY <1>3, <2>3, NumberPut DEF NumberTypes
<1>4. CASE b.type = "NUMERIC"
  <2>1. \/ d.kind = "INTEGER" /\ d.v # -Half[4]
        \/ d.kind = "BIGINT" /\ d.v # -Half[8]
    BY <1>0, <1>4 DEF Guarded, Texts
  <2>2. d.v # -Half[size] /\ -Half[8] <= d.v /\ d.v < Half[8]
    BY <1>0, <1>h, <2>1 DEF InRange
  <2>3. ~NumericLost(d, size)
    BY <1>0, <1>h, <2>2 DEF NumericLost
  <2>4. QED
    BY <1>4, <2>3, NumberPut DEF NumberTypes
<1>5. QED
  BY <1>0, <1>1, <1>2, <1>3, <1>4 DEF Guarded

\* A success keeps what the driver promises to keep.
LEMMA GuardedKept ==
    ASSUME NEW b, Bound(b), b.ptr, NEW d \in Data, NEW junk \in Junk,
           Guarded(d, b.type), ParseDatum(Read(d, junk), b).res = "SUCCESS"
    PROVE  ParseDatum(Read(d, junk), b).kept = d.parts
<1> DEFINE p == ParseDatum(d, b)
<1>0. d.n \in Nat /\ (d.bare => d.kind \in {"TIME", "TIMESTAMP"})
  BY ReadKeeps
<1>1. Read(d, junk) = d
  <2>1. ~d.bare
    BY <1>0 DEF Guarded, WholeKinds
  <2>2. QED
    BY <2>1, ReadKeeps
<1>2. SUFFICES ASSUME p.res = "SUCCESS" PROVE p.kept = d.parts
  BY <1>1
<1> HIDE DEF p
<1>3. CASE d.kind = "VARCHAR" /\ b.type \in TextTypes
  <2>1. p = PutString(d, b)
    BY <1>3, ParseKinds DEF p
  <2>2. QED
    BY <1>0, <1>2, <1>3, <2>1, StringPut DEF WholeText
<1>4. CASE d.kind = "TIMESTAMP"
  <2>1. p = PutTimestamp(d.parts, b)
    BY <1>4, ParseKinds DEF p
  <2>2. QED
    BY <1>2, <2>1, TimestampPut
<1>5. CASE d.kind = "TIME"
  <2>1. p = PutTime(d.parts, b)
    BY <1>5, ParseKinds DEF p
  <2>2. d.parts \ Date = d.parts
    BY <1>5, DatumParts DEF Date
  <2>3. p.kept = IF b.type = "TTIMESTAMP" THEN d.parts ELSE d.parts \ Date
    BY <1>2, <2>1, TimePut
  <2>4. QED
    BY <2>2, <2>3, Zenon
<1>6. CASE d.kind = "DATE" /\ b.type # "WCHAR"
  <2>1. p = PutDate(d.parts, b)
    BY <1>6, ParseKinds DEF p
  <2>2. /\ d.parts \cap Date = d.parts /\ d.parts \ {"time", "ns"} = d.parts
        /\ d.parts \ {"ns"} = d.parts
    BY <1>6, DatumParts DEF Date
  <2>3. b.type \in {"CHAR", "TDATE", "TTIMESTAMP"}
    BY <1>2, <1>6, <2>1, DatePut DEF Texts
  <2>4. QED
    <3>1. /\ b.type = "CHAR" => p.kept = d.parts \cap Date
          /\ b.type = "TDATE" => p.kept = d.parts \ {"time", "ns"}
          /\ b.type = "TTIMESTAMP" => p.kept = d.parts \ {"ns"}
      BY <1>2, <2>1, DatePut
    <3>2. QED
      BY <2>2, <2>3, <3>1, Zenon
<1>7. CASE d.kind \in WholeKinds
  <2>1. PICK size \in {1, 4, 8} :
          /\ p = PutNum(d, size, b)
          /\ d.kind = "BOOLEAN" => size = 1
          /\ d.kind = "INTEGER" => size = 4
          /\ d.kind = "BIGINT" => size = 8
    BY <1>7, ParseKinds DEF p, WholeKinds
  <2>2. QED
    BY <1>2, <1>7, <2>1, NumberIntact
<1>8. CASE d.kind = "NOT_SET"
  <2>1. p = PutNull(b)
    BY <1>8, ParseKinds DEF p
  <2>2. QED
    BY <1>2, <1>8, <2>1, NullPut, DatumParts
<1>9. QED
  BY <1>3, <1>4, <1>5, <1>6, <1>7, <1>8 DEF Guarded, WholeKinds

(***************************************************************************)
(* The elements of a rowset                                                *)
(***************************************************************************)

\* An element holds what the conversion of its datum left.
Holds(c, b) ==
    /\ c.datum \in Data
    /\ \E junk \in Junk : c.put = ParseDatum(Read(c.datum, junk), b)

\* Element i lies where SetElementOffset puts it, and no later one on it.
Lies(c, i, b) ==
    /\ c = [datum |-> c.datum, put |-> c.put, from |-> c.from,
            clobbered |-> c.clobbered]
    /\ c.from = (i - 1) * ElementSize(b)
    /\ ElementSize(b) > 0 => ~c.clobbered

BufferInv ==
    /\ Bound(buf)
    /\ \E n \in Nat : DOMAIN cells = 1 .. n /\ Len(cells) = n
    /\ \A i \in DOMAIN cells : Holds(cells[i], buf) /\ Lies(cells[i], i, buf)

\* The elements do not overlap.
LEMMA Spacing ==
    ASSUME NEW e \in Nat, NEW i \in Nat, NEW n \in Nat, i >= 1, i <= n
    PROVE  (i - 1) * e + e <= n * e
<1>1. PICK k \in Nat : n = i + k
  <2>1. n - i \in Nat /\ n = i + (n - i)
    OBVIOUS
  <2>2. QED
    BY <2>1
<1>2. n * e = i * e + k * e
  BY <1>1
<1>3. k * e \in Nat
  OBVIOUS
<1>4. (i - 1) * e + e = i * e
  OBVIOUS
<1>5. i * e \in Nat
  OBVIOUS
<1>6. QED
  BY <1>2, <1>3, <1>4, <1>5

\* The value of an element stays inside it.
LEMMA HeldInside ==
    ASSUME NEW c, NEW b, Bound(b), Holds(c, b)
    PROVE  Converted(c.put, c.datum.kind, b)
BY DatumPut DEF Holds

LEMMA BufferInit == Init => BufferInv
<1> SUFFICES ASSUME Init PROVE BufferInv
  OBVIOUS
<1>1. Bound(buf)
  BY AppBufferAssumption DEF Init, Bindings, Bound
<1>2. DOMAIN cells = 1 .. 0 /\ Len(cells) = 0
  BY DEF Init
<1>3. QED
  BY <1>1, <1>2 DEF BufferInv

LEMMA BufferStep == BufferInv /\ [Next]_vars => BufferInv'
<1> SUFFICES ASSUME BufferInv, [Next]_vars PROVE BufferInv'
  OBVIOUS
<1>1. CASE ReadToBuffer
  <2> DEFINE es == ElementSize(buf)
             n == Len(cells)
             from == n * es
  <2>1. PICK d \in Data, junk \in Junk :
          cells' = Append([i \in DOMAIN cells |-> [cells[i] EXCEPT
                             !.clobbered = @ \/ Overlap(cells[i], from,
                                ParseDatum(Read(d, junk), buf).size)]],
                          [datum |-> d, put |-> ParseDatum(Read(d, junk), buf),
                           from |-> from, clobbered |-> FALSE])
    BY <1>1, Zenon DEF ReadToBuffer, Junk
  <2> DEFINE p == ParseDatum(Read(d, junk), buf)
             new == [datum |-> d, put |-> p, from |-> from, clobbered |-> FALSE]
             moved(c) == [datum |-> c.datum, put |-> c.put, from |-> c.from,
                          clobbered |-> c.clobbered \/ Overlap(c, from, p.size)]
             old == [i \in DOMAIN cells |-> moved(cells[i])]
  <2>2. n \in Nat /\ DOMAIN cells = 1 .. n
    BY DEF BufferInv
  <2>3. buf' = buf /\ Bound(buf) /\ es \in Nat
    BY <1>1, ElementSizes DEF ReadToBuffer, BufferInv
  <2>4. cells' = Append(old, new)
    <3>1. ASSUME NEW i \in DOMAIN cells
          PROVE  [cells[i] EXCEPT !.clobbered = @ \/ Overlap(cells[i], from, p.size)]
                   = moved(cells[i])
      <4> DEFINE c == cells[i]
                 hit == Overlap(c, from, p.size)
      <4>1. c = [datum |-> c.datum, put |-> c.put, from |-> c.from,
                 clobbered |-> c.clobbered]
        BY DEF BufferInv, Lies
      <4> HIDE DEF c, hit
      <4>2. [c EXCEPT !.clobbered = @ \/ hit]
              = [datum |-> c.datum, put |-> c.put, from |-> c.from,
                 clobbered |-> c.clobbered \/ hit]
        BY <4>1
      <4>3. QED
        BY <4>2, Zenon DEF c, hit
    <3>2. QED
      BY <2>1, <3>1, Zenon
  <2>5. /\ DOMAIN cells' = 1 .. (n + 1) /\ Len(cells') = n + 1
        /\ cells'[n + 1] = new
        /\ \A i \in 1 .. n : cells'[i] = moved(cells[i])
    <3>1. old \in Seq({moved(cells[i]) : i \in DOMAIN cells}) /\ Len(old) = n
      BY <2>2
    <3>2. QED
      BY <2>2, <2>4, <3>1
  <2>6. Holds(new, buf) /\ Lies(new, n + 1, buf)
    BY <2>2, <2>3 DEF Holds, Lies
  <2>7. ASSUME NEW i \in 1 .. n
        PROVE  Holds(moved(cells[i]), buf) /\ Lies(moved(cells[i]), i, buf)
    <3> DEFINE c == cells[i]
    <3>1. Holds(c, buf) /\ Lies(c, i, buf)
      BY <2>2 DEF BufferInv
    <3> HIDE DEF c
    <3>2. Holds(moved(c), buf)
      BY <3>1 DEF Holds
    <3>3. ASSUME es > 0 PROVE ~Overlap(c, from, p.size)
      <4>1. c.put.size \in Nat /\ c.put.size <= es
        BY <2>3, <3>1, <3>3, HeldInside DEF Converted, Inside
      <4>2. c.from = (i - 1) * es
        BY <3>1 DEF Lies
      <4>3. (i - 1) * es + es <= from /\ (i - 1) * es \in Nat /\ from \in Nat
        BY <2>2, <2>3, Spacing
      <4> HIDE DEF es, from
      <4>4. ~(from < c.from + c.put.size)
        BY <2>3, <4>1, <4>2, <4>3
      <4>5. QED
        BY <4>4 DEF Overlap
    <3>4. Lies(moved(c), i, buf)
      BY <3>1, <3>3 DEF Lies
    <3>5. QED
      BY <3>2, <3>4 DEF c
  <2> HIDE DEF new, moved, old, p
  <2>8. n + 1 \in Nat /\ \A i \in 1 .. (n + 1) : i \in 1 .. n \/ i = n + 1
    BY <2>2
  <2>9. \A i \in DOMAIN cells' :
          Holds(cells'[i], buf) /\ Lies(cells'[i], i, buf)
    BY <2>5, <2>6, <2>7, <2>8
  <2>10. QED
    BY <2>3, <2>5, <2>8, <2>9 DEF BufferInv
<1>2. CASE NextRowset
  <2>1. buf' = buf /\ DOMAIN cells' = 1 .. 0 /\ Len(cells') = 0
    BY <1>2 DEF NextRowset
  <2>2. QED
    BY <2>1 DEF BufferInv
<1>3. CASE UNCHANGED vars
  BY <1>3 DEF vars, BufferInv
<1>4. QED
  BY <1>1, <1>2, <1>3 DEF Next

\* The binding is one of Bindings, every element holds what the conversion of
\* its own row's datum left, at the offset SetElementOffset gives it, and no
\* later row has written over it.
THEOREM BufferSafe == Spec => []BufferInv
BY BufferInit, BufferStep, PTL DEF Spec

\* As GetElementSize spaces the elements, no value written for a later row
\* lies on the value of an earlier one and none leaves its own element, for
\* buffers, texts and rowsets of any size and every C type that has a size.
THEOREM RowsApart == Spec => []ElementsApart
<1>1. BufferInv => ElementsApart
  <2> SUFFICES ASSUME BufferInv, ElementSize(buf) > 0, NEW c \in Filled
               PROVE  ~c.clobbered /\ c.put.size <= ElementSize(buf)
    BY DEF ElementsApart
  <2>1. PICK i \in DOMAIN cells : c = cells[i]
    BY DEF Filled, Range
  <2>2. Bound(buf) /\ Holds(c, buf) /\ Lies(c, i, buf)
    BY <2>1 DEF BufferInv
  <2>3. QED
    BY <2>2, HeldInside DEF Lies, Converted, Inside
<1>2. QED
  BY <1>1, BufferSafe, PTL

\* AI_SUCCESS means that nothing was cut, where there is a target: a string, a
\* timestamp or a time in any type that takes it, a date outside a wide buffer
\* and an integer in a text or in a type that holds all of its kind, whatever
\* the lengths of text and buffer and the widths of the numbers, are whole when
\* the Put function says so.
THEOREM SuccessIsWhole == Spec => []NoSilentLoss
<1>1. BufferInv => NoSilentLoss
  <2> SUFFICES ASSUME BufferInv, NEW c \in Filled, buf.ptr, Done(c),
                      Guarded(c.datum, buf.type)
               PROVE  ~Lost(c)
    BY DEF NoSilentLoss
  <2>1. Bound(buf) /\ Holds(c, buf)
    BY DEF Filled, Range, BufferInv
  <2>2. QED
    BY <2>1, GuardedKept DEF Holds, Lost, Done
<1>2. QED
  BY <1>1, BufferSafe, PTL

\* Every conversion that succeeds stores a length of its own through reslen, so
\* that no element keeps the length of the row that was there before; but for
\* a text without a target and a NULL in a type that takes no text.
THEOREM LengthsFresh == Spec => []LengthIsFresh
<1>1. BufferInv => LengthIsFresh
  <2> SUFFICES ASSUME BufferInv, NEW c \in Filled, Done(c), Stores(buf),
                      c.datum.kind = "NULL" => buf.type \in
                         Ints \cup TextTypes \cup {"NUMERIC", "FLOAT", "DOUBLE"}
               PROVE  c.put.len # Unset
    BY DEF LengthIsFresh, Stores
  <2>1. Bound(buf) /\ Holds(c, buf)
    BY DEF Filled, Range, BufferInv
  <2>2. c.datum.kind = "NULL" => buf.type \in StringTypes
    BY DEF StringTypes, NumberTypes
  <2>3. Fresh(c.put, buf)
    BY <2>1, <2>2, HeldInside DEF Converted
  <2>4. QED
    BY <2>3 DEF Fresh, Done, NullData, Unset
<1>2. QED
  BY <1>1, BufferSafe, PTL

\* A text copied with its length in bytes is read to its end.
LEMMA CopyIsRead ==
    ASSUME NEW c, Bound(buf), buf.type \in Texts, buf.ptr, Measured(c.put, buf)
    PROVE  CharsRead(c) >= TextLen(c)
<1> DEFINE unit == Unit(buf.type)
<1>1. PICK k \in Nat : c.put.size = (k + 1) * unit /\ c.put.len = k * unit
  BY DEF Measured
<1>2. unit \in {1, 2, 4}
  BY AppBufferAssumption DEF Unit
<1> HIDE DEF unit
<1>3. /\ ((k + 1) * unit) \div unit = k + 1 /\ (k * unit) \div unit = k
      /\ k * unit \in Nat
  <2>1. CASE unit = 1
    BY <2>1
  <2>2. CASE unit = 2
    BY <2>2
  <2>3. CASE unit = 4
    BY <2>3
  <2>4. QED
    BY <1>2, <2>1, <2>2, <2>3
<1>4. TextLen(c) = k
  BY <1>1, <1>3 DEF TextLen, unit
<1>5. CASE GetInputSize(c) = NTS
  BY <1>4, <1>5 DEF CharsRead
<1>6. CASE GetInputSize(c) # NTS
  <2>1. GetInputSize(c) = k * unit
    BY <1>1, <1>3, <1>6 DEF GetInputSize, IsDataAtExec
  <2>2. Max({k * unit, 0}) = k * unit
    BY <1>3, MaxOfTwo
  <2>3. CharsRead(c) = (k * unit) \div unit
    BY <1>6, <2>1, <2>2 DEF CharsRead, unit
  <2>4. QED
    BY <1>3, <1>4, <2>3
<1>7. QED
  BY <1>5, <1>6

\* A text of n characters with its length in characters is read to its end
\* where characters are bytes or nobody stored a length.
LEMMA TextIsRead ==
    ASSUME NEW c, buf.type \in Texts, buf.type = "WCHAR" => ~buf.ind,
           NEW n \in Nat, c.put.len = n, c.put.kept # {}, TextOf(c.put, n, buf)
    PROVE  CharsRead(c) = n
<1> DEFINE unit == Unit(buf.type)
<1>1. c.put.size = (n + 1) * unit
  BY DEF TextOf
<1>2. unit \in {1, 2, 4} /\ (buf.type = "CHAR" => unit = 1)
  BY AppBufferAssumption DEF Unit
<1> HIDE DEF unit
<1>3. ((n + 1) * unit) \div unit = n + 1
  <2>1. CASE unit = 1
    BY <2>1
  <2>2. CASE unit = 2
    BY <2>2
  <2>3. CASE unit = 4
    BY <2>3
  <2>4. QED
    BY <1>2, <2>1, <2>2, <2>3
<1>4. TextLen(c) = n
  BY <1>1, <1>3 DEF TextLen, unit
<1>5. CASE GetInputSize(c) = NTS
  BY <1>4, <1>5 DEF CharsRead
<1>6. CASE GetInputSize(c) # NTS
  <2>0. buf.ind /\ buf.type = "CHAR"
    BY <1>6 DEF GetInputSize, Texts
  <2>1. GetInputSize(c) = n
    BY <1>6, <2>0 DEF GetInputSize, IsDataAtExec
  <2>2. Max({n, 0}) = n
    BY MaxOfTwo
  <2>3. CharsRead(c) = n \div unit
    BY <1>6, <2>1, <2>2 DEF CharsRead, unit
  <2>4. n \div unit = n
    BY <1>2, <2>0
  <2>5. QED
    BY <2>3, <2>4
<1>7. QED
  BY <1>5, <1>6

\* What a value put without loss gives back.
LEMMA HeldReadsBack ==
    ASSUME BufferInv, NEW c \in Filled, Done(c), ~Lost(c), c.put.size > 0,
           c.datum.kind \in {"DATE", "TIME", "TIMESTAMP", "VARCHAR", "INTEGER"},
           buf.type \in Ints => GetNumWidth(buf.type) = IntTypes[buf.type],
           IF c.datum.kind \in {"VARCHAR", "INTEGER"} THEN buf.type \in Texts \cup Ints
           ELSE buf.type = "WCHAR" => ~buf.ind,
           c.datum.parts # {}
    PROVE  c.datum.parts \subseteq
              Get(c) \cup (IF buf.type = "TTIMESTAMP" /\ c.datum.kind = "TIMESTAMP"
                           THEN {} ELSE {"ns"})
<1> DEFINE d == c.datum
           p == c.put
<1>0. Bound(buf) /\ Holds(c, buf)
  BY DEF Filled, Range, BufferInv
<1>1. PICK junk \in Junk : p = ParseDatum(Read(d, junk), buf)
  BY <1>0 DEF Holds
<1> DEFINE e == Read(d, junk)
<1>2. /\ d \in Data /\ p.res = "SUCCESS" /\ p.kept = d.parts /\ p.size \in Nat
      /\ p.kept # {}
  BY <1>0, HeldInside DEF Done, Lost, Holds, Converted, Inside
<1>3. /\ e.kind = d.kind /\ e.n = d.n /\ d.n \in Nat
      /\ d.kind \in {"VARCHAR", "INTEGER"} => e = d
  BY <1>2, ReadKeeps
<1>4. Ints \cap Texts = {}
  BY IntSizes DEF Texts
<1> HIDE DEF e
<1>5. p = ParseDatum(e, buf)
  BY <1>1 DEF e
<1> HIDE DEF d, p
<1>6. CASE d.kind = "DATE"
  <2>1. p = PutDate(e.parts, buf)
    BY <1>3, <1>5, <1>6, ParseKinds
  <2>2. buf.type \in Texts \cup {"TDATE", "TTIMESTAMP"}
    BY <1>0, <1>2, <2>1, DatePut
  <2>3. ASSUME buf.type \in Texts PROVE CharsRead(c) = 10
    <3>1. p.len = 10 /\ TextOf(p, 10, buf)
      BY <1>0, <2>1, <2>3, DatePut
    <3>2. buf.type = "WCHAR" => ~buf.ind
      BY <1>6 DEF d
    <3>3. QED
      BY <1>2, <2>3, <3>1, <3>2, TextIsRead DEF p
  <2>4. "date" \in GetDate(c)
    BY <2>2, <2>3 DEF GetDate, ScanTimestamp, All, Date, Texts
  <2>5. Get(c) = GetDate(c)
    BY <1>6 DEF Get, d
  <2>6. d.parts \subseteq {"date"}
    BY <1>2, <1>6, DatumParts
  <2>7. QED
    BY <2>4, <2>5, <2>6 DEF d
<1>7. CASE d.kind = "TIMESTAMP"
  <2>1. p = PutTimestamp(e.parts, buf)
    BY <1>3, <1>5, <1>7, ParseKinds
  <2>2. buf.type \in Texts \cup {"TTIMESTAMP"}
    BY <1>0, <1>2, <2>1, TimestampPut
  <2>3. ASSUME buf.type \in Texts PROVE CharsRead(c) = 29
    <3>1. p.len = 29 /\ TextOf(p, 29, buf)
      BY <1>0, <2>1, <2>3, TimestampPut
    <3>2. buf.type = "WCHAR" => ~buf.ind
      BY <1>7 DEF d
    <3>3. QED
      BY <1>2, <2>3, <3>1, <3>2, TextIsRead DEF p
  <2>4. /\ "date" \in GetTimestamp(c) /\ "time" \in GetTimestamp(c)
        /\ buf.type = "TTIMESTAMP" => "ns" \in GetTimestamp(c)
    BY <2>2, <2>3 DEF GetTimestamp, ScanTimestamp, All, Date, Time, Texts
  <2>5. Get(c) = GetTimestamp(c)
    BY <1>7 DEF Get, d
  <2>6. d.parts \subseteq {"date", "time", "ns"}
    BY <1>2, <1>7, DatumParts
  <2>7. QED
    BY <1>7, <2>4, <2>5, <2>6 DEF d
<1>8. CASE d.kind = "TIME"
  <2>1. p = PutTime(e.parts, buf)
    BY <1>3, <1>5, <1>8, ParseKinds
  <2>2. buf.type \in Texts \cup {"TTIMESTAMP"}
    BY <1>0, <1>2, <2>1, TimePut
  <2>3. ASSUME buf.type \in Texts PROVE CharsRead(c) = 18
    <3>1. p.len = 18 /\ TextOf(p, 18, buf)
      BY <1>0, <2>1, <2>3, TimePut
    <3>2. buf.type = "WCHAR" => ~buf.ind
      BY <1>8 DEF d
    <3>3. QED
      BY <1>2, <2>3, <3>1, <3>2, TextIsRead DEF p
  <2>4. "time" \in GetTime(c)
    BY <2>2, <2>3 DEF GetTime, Time, Texts
  <2>5. Get(c) = GetTime(c)
    BY <1>8 DEF Get, d
  <2>6. d.parts \subseteq {"time", "ns"}
    BY <1>2, <1>8, DatumParts
  <2>7. QED
    BY <1>8, <2>4, <2>5, <2>6 DEF d
<1>9. CASE d.kind \in {"VARCHAR", "INTEGER"}
  <2>1. Get(c) = GetString(c)
    BY <1>9 DEF Get, d
  <2>2. CASE buf.type \in Texts
    <3>1. Measured(p, buf) /\ buf.ptr
      <4>1. CASE d.kind = "VARCHAR"
        <5>1. p = PutString(d, buf)
          BY <1>3, <1>5, <4>1, ParseKinds
        <5>2. p = PutStrToStrBuffer(d.n, buf, Unit(buf.type), d.parts)
          BY <1>4, <2>2, <5>1 DEF PutString, TextTypes, Texts
        <5>3. QED
          BY <1>0, <1>3, <2>2, <5>2, StrPut DEF p, TextTypes
      <4>2. CASE d.kind = "INTEGER"
        <5>1. p = PutNum(d, 4, buf)
          BY <1>2, <1>3, <1>5, <4>2, ParseKinds
        <5>2. p = PutStrToStrBuffer(d.n, buf, Unit(buf.type), d.parts)
          BY <1>4, <2>2, <4>2, <5>1 DEF PutNum, Texts
        <5>3. QED
          BY <1>0, <1>3, <2>2, <5>2, StrPut DEF p, TextTypes
      <4>3. QED
        BY <1>9, <4>1, <4>2
    <3>2. CharsRead(c) >= TextLen(c)
      BY <1>0, <2>2, <3>1, CopyIsRead DEF p
    <3>3. Get(c) = p.kept
      BY <2>1, <2>2, <3>2 DEF GetString, p
    <3>4. QED
      BY <1>2, <3>3 DEF d
  <2>3. CASE buf.type \in Ints
    <3>1. \E f, size : p = PutNum(f, size, buf)
      <4>1. CASE d.kind = "VARCHAR"
        <5>1. p = PutString(d, buf)
          BY <1>3, <1>5, <4>1, ParseKinds
        <5>2. PutString(d, buf) = PutNum(Scanned(d, buf.type), 8, buf)
          BY <2>3, Zenon DEF PutString
        <5>3. QED
          BY <5>1, <5>2, Zenon
      <4>2. CASE d.kind = "INTEGER"
        BY <1>3, <1>5, <4>2, ParseKinds
      <4>3. QED
        BY <1>9, <4>1, <4>2
    <3>2. p.size = IntTypes[buf.type]
      <4>1. buf.ptr
        BY <1>0, <2>3, <3>1, NumberPut DEF NumberTypes, p
      <4>2. QED
        BY <1>0, <2>3, <3>1, <4>1, NumberPut, ElementSizes DEF NumberTypes
    <3>3. GetNumWidth(buf.type) \in 1 .. p.size
      BY <2>3, <3>2, IntSizes
    <3>4. Get(c) = p.kept
      BY <1>4, <2>1, <2>3, <3>3 DEF GetString, p
    <3>5. QED
      BY <1>2, <3>4 DEF d
  <2>4. QED
    BY <1>9, <2>2, <2>3 DEF d
<1>10. QED
  BY <1>6, <1>7, <1>8, <1>9 DEF d

\* A value put without loss is read back by the Get function of its own kind:
\* strings and numbers as they were (but for the LONG types where long is
\* wider), dates and times up to the second, timestamps in a struct with their
\* fraction, whatever the lengths of buffer and text; but for dates and times
\* in a wide buffer whose length is stored.
THEOREM PutIsReadBack == Spec => []ReadsBack
<1>1. BufferInv => ReadsBack
  BY HeldReadsBack DEF ReadsBack
<1>2. QED
  BY <1>1, BufferSafe, PTL
=============================================================================
