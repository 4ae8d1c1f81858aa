--------------------------- MODULE Configuration ---------------------------
(* The settings of a connection (config/configuration.cpp), the parser of    *)
(* connection strings (config/connection_string_parser.cpp) and the texts of *)
(* the settings in a DSN section (dsn_config.cpp).                            *)
(*                                                                            *)
(* A text is a sequence of tokens: "=", ";", " ", "{", "}" and NUL are the   *)
(* characters the code looks for, every other token is a run of characters    *)
(* it does not look into.  A number is one token, ToString(n).  Letter case   *)
(* is left out: a token stands for its lower-case form.                       *)
EXTENDS Integers, Sequences, SequencesExt, TLC

CONSTANTS Bits,            \* width of int32_t and uint32_t
          DefaultTimeout,  \* DEFAULT_REQ_TIMEOUT
          Directories,     \* the texts that name a directory (IsValidDirectory)
          LargestNumber    \* bound: the largest number a text holds

ASSUME ConfigurationAssumption ==
  /\ Bits \in Nat \ {0} /\ DefaultTimeout \in 0 .. 2^(Bits - 1) - 1
  /\ LargestNumber \in Nat /\ LargestNumber >= 2^Bits

NUL == "NUL"
UINT32_MAX == 2^Bits - 1
Int32s == (- (2^(Bits - 1))) .. (2^(Bits - 1) - 1)

(* The keys, in the order std::map keeps them.                               *)
KeyOrder == << "auth", "driver", "dsn", "endpointoverride", "loglevel", "logoutput",
               "maxretrycountclient", "maxrowperpage", "profilename", "pwd",
               "requesttimeout", "uid" >>
Keys == Range(KeyOrder)
NumberKeys == {"maxretrycountclient", "maxrowperpage", "requesttimeout"}

(* The enumerators of AuthType and LogLevel, in their order.                 *)
AuthTypes == << "password", "oauth2", "kerberos", "certificate", "jwt", "header" >>
LogLevels == << "off", "error", "warning", "info", "debug" >>

(* What a cast of -1 to AuthType::Type leaves: no enumerator.                *)
NoAuthType == "no_auth_type"

DefaultValue ==
  [k \in Keys |->
     CASE k = "dsn"            -> << "Trino DSN" >>
       [] k = "driver"         -> << "Trino ODBC Driver" >>
       [] k = "requesttimeout" -> DefaultTimeout
       [] k = "maxretrycountclient" -> 0
       [] k = "maxrowperpage"  -> -1
       [] k = "auth"           -> "password"
       [] k = "loglevel"       -> "warning"
       [] k = "logoutput"      -> << "home" >>
       [] OTHER                -> << >>]

(* SettableValue: a value, and whether it was set.                           *)
NewConfiguration == [k \in Keys |-> [val |-> DefaultValue[k], set |-> FALSE]]
IsSet(cfg, k) == cfg[k].set /\ (k = "profilename" => cfg[k].val # << >>)
-----------------------------------------------------------------------------
(* Conversions between texts and values.                                     *)

Trim(t) == LET ink == {i \in DOMAIN t : t[i] # " "}
           IN IF ink = {} THEN << >>
              ELSE SubSeq(t, CHOOSE i \in ink : \A j \in ink : i <= j,
                             CHOOSE i \in ink : \A j \in ink : i >= j)

AuthFromString(t, dflt) ==
  LET name == Trim(t)
  IN IF Len(name) = 1 /\ name[1] \in Range(AuthTypes) THEN name[1] ELSE dflt
AuthToString(a) == IF a \in Range(AuthTypes) THEN << a >> ELSE << "password" >>

LevelFromString(t, dflt) ==
  LET meant == {i \in DOMAIN LogLevels : Trim(t) = << ToString(i - 1) >>}
  IN IF meant = {} THEN dflt ELSE LogLevels[CHOOSE i \in meant : TRUE]
LevelToString(l) == << ToString((CHOOSE i \in DOMAIN LogLevels : LogLevels[i] = l) - 1) >>

(* The numbers, by the token that writes them.                               *)
Numeral ==
  [token \in {ToString(n) : n \in (- LargestNumber) .. LargestNumber} |->
     CHOOSE n \in (- LargestNumber) .. LargestNumber : token = ToString(n)]
HasNumber(t) == Len(t) = 1 /\ t[1] \in DOMAIN Numeral
NumberOf(t) == Numeral[t[1]]

(* AllDigits, of a text that is not empty.                                   *)
IsNumber(t) == HasNumber(t) /\ NumberOf(t) >= 0

(* static_cast of a uint32_t to the int32_t parameter of a setter.           *)
AsInt32(n) == IF n \in Int32s THEN n ELSE n - 2^Bits

(* LexicalCast to int of a text from the registry or an edit field: garbage   *)
(* gives 0, a number out of range the nearest bound, and an empty text leaves *)
(* the result as it was created: uninitialised, here junk.                    *)
LexicalCast(t, junk) ==
  CASE t = << >> -> junk
    [] HasNumber(t) ->
         IF NumberOf(t) > 2^(Bits - 1) - 1 THEN 2^(Bits - 1) - 1
         ELSE IF NumberOf(t) < - (2^(Bits - 1)) THEN - (2^(Bits - 1)) ELSE NumberOf(t)
    [] OTHER -> 0

(* AddToMap: the text of a setting.                                          *)
SettingText(k, v) ==
  CASE k \in NumberKeys -> << ToString(v) >>
    [] k = "auth"       -> AuthToString(v)
    [] k = "loglevel"   -> LevelToString(v)
    [] OTHER            -> v

ToMapForgetful(cfg) ==
  [k \in {key \in Keys \ {"maxrowperpage"} : cfg[key].set} |-> SettingText(k, cfg[k].val)]
ToMap(cfg) == [k \in {key \in Keys : cfg[key].set} |-> SettingText(k, cfg[k].val)]

Braced(t) == IF \E i \in DOMAIN t : t[i] = " " THEN << "{" >> \o t \o << "}" >> ELSE t

(* Empty values are left out.                                                *)
ToConnectString(cfg) ==
  LET map == ToMap(cfg)
      shown == SelectSeq(KeyOrder, LAMBDA k : k \in DOMAIN map /\ map[k] # << >>)
  IN FoldLeft(LAMBDA text, k : text \o << k, "=" >> \o Braced(map[k]) \o << ";" >>, << >>, shown)
-----------------------------------------------------------------------------
(* Setting a value.  A state of the settings is the configuration, the       *)
(* process-wide logger, which SetLogLevel and SetLogPath change as well, and  *)
(* the attributes that left a status record (01S02).                          *)

Put(st, k, v) ==
  IF k = "logoutput" /\ v \notin Directories THEN st
  ELSE [st EXCEPT !.cfg[k] = [val |-> v, set |-> TRUE],
                  !.logger = CASE k = "logoutput" -> [@ EXCEPT !.path = v]
                               [] k = "loglevel"  -> [@ EXCEPT !.level = v]
                               [] OTHER           -> @]

Warn(st, pair) == [st EXCEPT !.warned = @ \cup {pair}]

Unbrace(t) ==
  IF Len(t) > 1 /\ t[1] = "{" /\ t[Len(t)] = "}" THEN SubSeq(t, 2, Len(t) - 1) ELSE t

(* A pair is [key, value], texts both.  The key, when it is one of Keys.     *)
KeyOf(pair) == IF Len(pair.key) = 1 THEN pair.key[1] ELSE "unknown"

(* A number is refused when it is empty, has other characters than digits,   *)
(* or is out of range of uint32_t; a request timeout of 0 is refused as well. *)
NumberAccepted(k, t) ==
  IsNumber(t) /\ NumberOf(t) <= UINT32_MAX /\ (k = "requesttimeout" => NumberOf(t) > 0)

HandleAttributePairSilent(st, pair) ==
  LET k == KeyOf(pair)
      t == pair.value
  IN CASE k \in NumberKeys -> IF NumberAccepted(k, t) THEN Put(st, k, AsInt32(NumberOf(t)))
                              ELSE Warn(st, pair)
       [] k = "auth" -> Put(st, k, AuthFromString(t, "password"))
       [] k = "loglevel" -> IF LevelFromString(t, "unknown") = "unknown" THEN Warn(st, pair)
                            ELSE Put(st, k, LevelFromString(t, "unknown"))
       [] k \in Keys \ (NumberKeys \cup {"auth", "loglevel"}) -> Put(st, k, t)
       [] OTHER -> Warn(st, pair)
HandleAttributePair(st, pair) ==
  LET k == KeyOf(pair)
      t == pair.value
  IN CASE k \in NumberKeys -> IF NumberAccepted(k, t) THEN Put(st, k, AsInt32(NumberOf(t)))
                              ELSE Warn(st, pair)
       [] k = "auth" -> IF AuthFromString(t, "password") = "password" /\ Trim(t) # << "password" >>
                        THEN Warn(st, pair)
                        ELSE Put(st, k, AuthFromString(t, "password"))
       [] k = "loglevel" -> IF LevelFromString(t, "unknown") = "unknown" THEN Warn(st, pair)
                            ELSE Put(st, k, LevelFromString(t, "unknown"))
       [] k \in {"uid", "pwd"} ->
            Put(IF st.cfg[k].val # << >> THEN Warn(st, pair) ELSE st, k, t)
       [] k \in Keys \ (NumberKeys \cup {"auth", "loglevel", "uid", "pwd"}) -> Put(st, k, t)
       [] OTHER -> Warn(st, pair)

(* The position of the last c among the first n tokens, 0 without one.       *)
LastOf(s, n, c) == LET at == {i \in 1 .. n : s[i] = c}
                   IN IF at = {} THEN 0 ELSE CHOOSE i \in at : \A j \in at : i >= j

(* The string is taken apart from its end: what follows the last delimiter,   *)
(* cut at the last '='.  A piece whose '=' is missing or comes first is       *)
(* passed over.  The pairs, in the order they are handled.                    *)
Pairs(s, delimiter) ==
  LET before[n \in 0 .. Len(s)] ==
        IF n = 0 THEN << >>
        ELSE LET b == LastOf(s, n, delimiter)
                 e == LastOf(s, n, "=")
                 pair == [key |-> Trim(SubSeq(s, b + 1, e - 1)),
                          value |-> Unbrace(Trim(SubSeq(s, e + 1, n)))]
             IN (IF b < e - 1 THEN << pair >> ELSE << >>)
                  \o (IF b = 0 THEN << >> ELSE before[b - 1])
  IN before[Len(s)]

(* Trailing NULs are dropped first.                                          *)
WithoutNuls(s) ==
  LET ink == {i \in DOMAIN s : s[i] # NUL}
  IN IF ink = {} THEN << >> ELSE SubSeq(s, 1, CHOOSE i \in ink : \A j \in ink : i >= j)

ParseConnectionStringForwards(st, s, delimiter) ==
  FoldLeft(HandleAttributePair, st, Reverse(Pairs(WithoutNuls(s), delimiter)))
ParseConnectionString(st, s, delimiter) ==
  FoldLeft(HandleAttributePair, st, Pairs(WithoutNuls(s), delimiter))

ParseConfigAttributes(st, s) == ParseConnectionString(st, s, NUL)

(* Whether Validate throws.                                                  *)
Invalid(cfg) == cfg["auth"].val = "password" /\ (cfg["uid"].val = << >> \/ cfg["pwd"].val = << >>)
-----------------------------------------------------------------------------
(* A section of the registry: the texts of its keys.  What is set already    *)
(* stays; log level and log path are set like any other.                      *)

ReadKeyAlways(st, section, k, junk) ==
  IF k \notin DOMAIN section THEN st
  ELSE Put(st, k, CASE k \in NumberKeys -> LexicalCast(section[k], junk)
                    [] k = "auth"       -> AuthFromString(section[k], "password")
                    [] k = "loglevel"   -> LevelFromString(section[k], "warning")
                    [] OTHER            -> section[k])
ReadKey(st, section, k, junk) ==
  IF k \notin DOMAIN section \/ IsSet(st.cfg, k) THEN st
  ELSE Put(st, k, CASE k \in NumberKeys -> LexicalCast(section[k], junk)
                    [] k = "auth"       -> AuthFromString(section[k], "password")
                    [] k = "loglevel"   -> LevelFromString(section[k], "warning")
                    [] OTHER            -> section[k])

(* In the order of the code; dsn and driver are no keys of a section.        *)
ReadDsnConfiguration(st, section, junk) ==
  FoldLeft(LAMBDA s, k : ReadKey(s, section, k, junk), st,
           << "uid", "pwd", "profilename", "requesttimeout", "maxretrycountclient",
              "endpointoverride", "auth", "loglevel", "logoutput", "maxrowperpage" >>)
=============================================================================
