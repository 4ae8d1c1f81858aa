------------------------------- MODULE Setup -------------------------------
(* How settings reach a connection and a DSN: Connection::Establish with a   *)
(* connection string or a DSN (connection.cpp, odbc.cpp), the installer's    *)
(* ConfigDSN (system_dsn.cpp), the registry of DSNs (dsn_config.cpp) and the *)
(* configuration dialog (dsn_configuration_window.cpp).                      *)
(*                                                                           *)
(* One connection of one process.  The registry is the installer's           *)
(* (external): a section per DSN, written key by key, and every write may    *)
(* fail.  The dialog is modal for the call that opened it.  Layout, labels,  *)
(* balloons and which tab is shown are left out: no setting depends on them. *)
(* The region and the maximum number of connections, which the dialog shows  *)
(* and Configuration has no member for, are not settings here; a number of   *)
(* connections that is not positive refuses the dialog's OK all the same.    *)
EXTENDS Configuration

CONSTANTS ConnectStrings,   \* the connection strings of a process that makes one call,
          LaterStrings,     \* bound: and those of a process that makes several
          Logins,           \* <<DSN, uid, pwd>> it passes to SQLConnect; NoArgument is NULL
          NoArgument,
          Attributes,       \* the attribute lists passed to ConfigDSN
          ValidNames,       \* the names SQLValidDSN accepts
          Registries,       \* the registries the process may start with
          Edits,            \* <<field, entry>>: what the user enters
          FailAt,           \* bound: the number of writes after which a next one may fail
          Junk,             \* what an uninitialised int may hold
          MaxCalls          \* bound: calls, and events of the dialog

ASSUME SetupAssumption ==
  /\ Junk \subseteq Int32s /\ MaxCalls \in Nat /\ FailAt \subseteq Nat
  /\ \A r \in Registries : \A d \in DOMAIN r : DOMAIN r[d] \subseteq Keys \ {"dsn", "driver"}

VARIABLES registry,  \* the sections of the registered DSNs, by name
          logger,    \* Logger: level and path, one for the process
          config,    \* Connection::config_
          dialog,    \* the open DsnConfigurationWindow and the call that waits for it
          done,      \* history: the call that returned last
          calls      \* history: the number of calls and events

vars == <<registry, logger, config, dialog, done, calls>>

Closed == [for |-> "none"]
NoCall == [call |-> "none"]
IsOpen == dialog.for # "none"

Init ==
  /\ registry \in Registries
  /\ logger = [level |-> DefaultValue["loglevel"], path |-> DefaultValue["logoutput"]]
  /\ config = NewConfiguration
  /\ dialog = Closed /\ done = NoCall /\ calls = 0

Settings(cfg) == [cfg |-> cfg, logger |-> logger, warned |-> {}]
Section(dsn) == IF dsn \in DOMAIN registry THEN registry[dsn] ELSE << >>
GetDsn(cfg) == cfg["dsn"].val

(* A string, then the DSN it names.                                          *)
Given(st, s, junk) ==
  LET parsed == ParseConnectionString(st, s, ";")
  IN IF IsSet(parsed.cfg, "dsn")
     THEN ReadDsnConfiguration(parsed, Section(GetDsn(parsed.cfg)), junk)
     ELSE parsed

Established(cfg, warned) ==
  IF Invalid(cfg) THEN "SQL_ERROR"
  ELSE IF warned = {} THEN "SQL_SUCCESS" ELSE "SQL_SUCCESS_WITH_INFO"
-----------------------------------------------------------------------------
(* The dialog.  A field holds a text, or the index its combo box selects,    *)
(* -1 for none.                                                              *)

Fields == {"name", "endpoint", "profile", "timeout", "retries", "connections", "auth",
           "level", "path"}
FieldKey == [name |-> "dsn", endpoint |-> "endpointoverride", profile |-> "profilename",
             timeout |-> "requesttimeout", retries |-> "maxretrycountclient", auth |-> "auth",
             level |-> "loglevel", path |-> "logoutput"]

(* The combo box of the authentication types lists the first four.           *)
AuthListed == 4

(* SetCBSelection of an index that is not listed selects nothing.            *)
Selection(list, v) ==
  IF \E i \in DOMAIN list : list[i] = v THEN (CHOOSE i \in DOMAIN list : list[i] = v) - 1 ELSE -1

OnCreate(cfg) ==
  [f \in Fields |->
     CASE f \in {"timeout", "retries"} -> << ToString(cfg[FieldKey[f]].val) >>
       [] f = "connections" -> << "1" >>
       [] f = "auth"  -> Selection(SubSeq(AuthTypes, 1, AuthListed), cfg["auth"].val)
       [] f = "level" -> Selection(LogLevels, cfg["loglevel"].val)
       [] OTHER       -> cfg[FieldKey[f]].val]

(* An empty number is 0 and a negative one the default.                      *)
FieldNumber(key, t) ==
  LET n == IF Trim(t) = << >> THEN 0 ELSE LexicalCast(Trim(t), 0)
  IN IF n < 0 THEN DefaultValue[key] ELSE n

ConnectionsRefused(fields) ==
  Trim(fields["connections"]) = << >> \/ LexicalCast(Trim(fields["connections"]), 0) <= 0

(* RetrieveParameters, group by group: logging first, the numbers last, and   *)
(* none of the numbers when the connections are refused (an exception).       *)
RetrieveLogParameters(st, fields) ==
  Put(Put(st, "loglevel", LogLevels[fields["level"] + 1]), "logoutput", Trim(fields["path"]))
RetrieveBasicParameters(st, fields) ==
  Put(Put(st, "dsn", Trim(fields["name"])), "endpointoverride", Trim(fields["endpoint"]))
RetrieveBasicAuthParameters(st, fields) == Put(st, "profilename", Trim(fields["profile"]))
RetrieveAdvanceAuthParameters(st, fields) ==
  Put(st, "auth", IF fields["auth"] = -1 THEN NoAuthType ELSE AuthTypes[fields["auth"] + 1])
RetrieveConnectionParameters(st, fields) ==
  IF ConnectionsRefused(fields) THEN st
  ELSE Put(Put(st, "requesttimeout", FieldNumber("requesttimeout", fields["timeout"])),
           "maxretrycountclient", FieldNumber("maxretrycountclient", fields["retries"]))

RetrieveParameters(st, fields) ==
  RetrieveConnectionParameters(
    RetrieveAdvanceAuthParameters(
      RetrieveBasicAuthParameters(
        RetrieveBasicParameters(RetrieveLogParameters(st, fields), fields), fields),
      fields), fields)

(* A new window for a call that waits for it: CONNECT, ADD or CONFIG.  The    *)
(* rest is history: the keys the call's string gave, the fields edited since, *)
(* the section as it was, and what the last TEST answered for these fields.   *)
Display(for, cfg, old, warned, given) ==
  [for |-> for, cfg |-> cfg, fields |-> OnCreate(cfg), old |-> old, warned |-> warned,
   given |-> given, edited |-> {}, before |-> Section(old), tested |-> "no"]

Edit(field, entry) ==
  /\ IsOpen /\ dialog.fields[field] # entry
  /\ dialog' = [dialog EXCEPT !.fields[field] = entry, !.tested = "no",
                              !.edited = @ \cup {field}]
  /\ UNCHANGED <<registry, logger, config, done>>
-----------------------------------------------------------------------------
(* The registry.                                                             *)

(* RegisterDsn replaces the section and writes it key by key; only the first  *)
(* n writes succeed, -1 when not even the section is made.                    *)
Entries(cfg) == SelectSeq(KeyOrder, LAMBDA k : k \in DOMAIN ToMap(cfg) \ {"dsn", "driver"})
RegisterDsn(cfg, n) ==
  IF n = -1 THEN registry
  ELSE (GetDsn(cfg) :> [k \in {Entries(cfg)[i] : i \in 1 .. n} |-> ToMap(cfg)[k]]) @@ registry
Registered(cfg, n) == n = Len(Entries(cfg))

UnregisterDsn(reg, dsn) == [d \in DOMAIN reg \ {dsn} |-> reg[d]]

(* What ConfigDSN does with the configuration, after the dialog if any: a     *)
(* DSN that was renamed is unregistered once the new one is written.          *)
Configure(req, cfg, old, history) ==
  \E n \in {-1, Len(Entries(cfg))} \cup {i \in FailAt : i < Len(Entries(cfg))},
     removed \in BOOLEAN :
    LET renamed == req = "CONFIG" /\ GetDsn(cfg) # old
        reg == RegisterDsn(cfg, n)
    IN /\ GetDsn(cfg) \notin ValidNames => n = -1
       /\ removed => renamed /\ Registered(cfg, n) /\ old \in DOMAIN reg
       /\ registry' = IF removed THEN UnregisterDsn(reg, old) ELSE reg
       /\ done' = [call |-> req, ok |-> Registered(cfg, n) /\ (renamed => removed),
                   old |-> old, name |-> GetDsn(cfg), history |-> history]
-----------------------------------------------------------------------------
(* Calls.                                                                    *)

GivenKeys(s, delimiter) == {KeyOf(p) : p \in Range(Pairs(WithoutNuls(s), delimiter))}

(* config_ is what earlier calls left in it.  With a parent window the dialog *)
(* is shown and the call goes on when it is closed.                           *)
SQLDriverConnect(s, window) ==
  /\ ~ IsOpen
  /\ \E junk \in Junk :
       LET st == Given(Settings(config), s, junk)
       IN /\ config' = st.cfg /\ logger' = st.logger
          /\ IF window
             THEN /\ dialog' = Display("CONNECT", st.cfg, GetDsn(st.cfg), st.warned,
                                       GivenKeys(s, ";"))
                  /\ done' = NoCall
             ELSE /\ dialog' = dialog
                  /\ done' = [call |-> "CONNECT", code |-> Established(st.cfg, st.warned),
                              string |-> s, earlier |-> config, warned |-> st.warned,
                              section |-> Section(GetDsn(st.cfg))]
  /\ UNCHANGED registry

SQLConnect(login) ==
  /\ ~ IsOpen
  /\ \E junk \in Junk :
       LET read == ReadDsnConfiguration(Settings(NewConfiguration), Section(login[1]), junk)
           named == IF login[2] = NoArgument THEN read ELSE Put(read, "uid", login[2])
           st == IF login[3] = NoArgument THEN named ELSE Put(named, "pwd", login[3])
       IN /\ config' = st.cfg /\ logger' = st.logger
          /\ done' = [call |-> "LOGIN", code |-> Established(st.cfg, {})]
  /\ UNCHANGED <<registry, dialog>>

(* ODBC_ADD_DSN and ODBC_CONFIG_DSN.                                         *)
ConfigDSN(req, attributes, window) ==
  /\ ~ IsOpen
  /\ \E junk \in Junk :
       LET parsed == ParseConfigAttributes(Settings(NewConfiguration), attributes)
           old == GetDsn(parsed.cfg)
           st == IF req = "CONFIG" THEN ReadDsnConfiguration(parsed, Section(old), junk)
                 ELSE parsed
           shown == Display(req, st.cfg, old, {}, GivenKeys(attributes, NUL))
       IN /\ logger' = IF old \in ValidNames THEN st.logger ELSE parsed.logger
          /\ CASE old \notin ValidNames -> /\ done' = [call |-> req, ok |-> FALSE]
                                           /\ UNCHANGED <<registry, dialog>>
               [] old \in ValidNames /\ window -> /\ dialog' = shown /\ done' = NoCall
                                                  /\ UNCHANGED registry
               [] OTHER -> /\ Configure(req, st.cfg, old, shown)
                           /\ UNCHANGED dialog
  /\ UNCHANGED config

RemoveDSN(attributes) ==
  /\ ~ IsOpen
  /\ LET parsed == ParseConfigAttributes(Settings(NewConfiguration), attributes)
         dsn == GetDsn(parsed.cfg)
     IN /\ logger' = parsed.logger
        /\ \E removed \in BOOLEAN :
             /\ removed => dsn \in ValidNames \cap DOMAIN registry
             /\ registry' = IF removed THEN UnregisterDsn(registry, dsn) ELSE registry
             /\ done' = [call |-> "REMOVE", ok |-> removed]
  /\ UNCHANGED <<config, dialog>>
-----------------------------------------------------------------------------
(* The end of the dialog, for the call that waits.                           *)

(* The configuration of a connection is config_ itself, whatever the result.  *)
Finish(cfg, accepted) ==
  /\ dialog' = Closed
  /\ IF dialog.for = "CONNECT"
     THEN /\ config' = cfg /\ UNCHANGED registry
          /\ done' = [call |-> "DIALOG", code |-> IF accepted THEN Established(cfg, dialog.warned)
                                                  ELSE "SQL_ERROR"]
     ELSE /\ UNCHANGED config
          /\ IF accepted THEN Configure(dialog.for, cfg, dialog.old, dialog)
             ELSE /\ done' = [call |-> dialog.for, ok |-> FALSE]
                  /\ UNCHANGED registry

(* The button is enabled while the name has text.  A refusal leaves what was  *)
(* retrieved before it in the configuration, and the dialog open.             *)
OK ==
  /\ IsOpen /\ dialog.fields["name"] # << >>
  /\ LET st == RetrieveParameters(Settings(dialog.cfg), dialog.fields)
     IN /\ logger' = st.logger
        /\ IF ConnectionsRefused(dialog.fields)
           THEN dialog' = [dialog EXCEPT !.cfg = st.cfg] /\ UNCHANGED <<registry, config, done>>
           ELSE Finish(st.cfg, TRUE)

Cancel == IsOpen /\ Finish(dialog.cfg, FALSE) /\ UNCHANGED logger

(* A temporary configuration, and a connection of its own.  A refusal is an   *)
(* exception DisplayConnectionWindow catches: the dialog is over.             *)
TestConnection ==
  /\ IsOpen
  /\ LET temp == RetrieveParameters(Settings(NewConfiguration), dialog.fields)
     IN IF ConnectionsRefused(dialog.fields)
        THEN logger' = temp.logger /\ Finish(dialog.cfg, FALSE)
        ELSE \E junk \in Junk :
               LET st == Given([temp EXCEPT !.cfg = NewConfiguration],
                               ToConnectString(temp.cfg), junk)
               IN /\ logger' = st.logger
                  /\ dialog' = [dialog EXCEPT !.tested = Established(st.cfg, st.warned)]
                  /\ UNCHANGED <<registry, config, done>>

Next ==
  \/ /\ calls = 0 /\ calls' = MaxCalls
     /\ \E s \in ConnectStrings : SQLDriverConnect(s, FALSE)
  \/ /\ calls < MaxCalls /\ calls' = calls + 1
     /\ \/ \E s \in LaterStrings, window \in BOOLEAN : SQLDriverConnect(s, window)
        \/ \E login \in Logins : SQLConnect(login)
        \/ \E req \in {"ADD", "CONFIG"}, a \in Attributes, window \in BOOLEAN :
             ConfigDSN(req, a, window)
        \/ \E a \in Attributes : RemoveDSN(a)
        \/ \E e \in Edits : Edit(e[1], e[2])
        \/ OK
        \/ Cancel
        \/ TestConnection

Spec == Init /\ [][Next]_vars
-----------------------------------------------------------------------------
(* Properties.                                                               *)

(* Reference: the pieces of a string between its semicolons, left to right,   *)
(* as <<from, to>>, and the pair a piece is read as.                          *)
Pieces(s) ==
  {<<i, j>> \in (1 .. Len(s)) \X (1 .. Len(s)) :
     /\ i <= j
     /\ \A n \in i .. j : s[n] # ";"
     /\ (i = 1 \/ s[i - 1] = ";") /\ (j = Len(s) \/ s[j + 1] = ";")}
CutAt(s, piece) == {n \in piece[1] + 1 .. piece[2] :
                      s[n] = "=" /\ \A m \in n + 1 .. piece[2] : s[m] # "="}
PairOf(s, piece) ==
  LET cut == CHOOSE n \in CutAt(s, piece) : TRUE
  IN [key |-> Trim(SubSeq(s, piece[1], cut - 1)),
      value |-> Unbrace(Trim(SubSeq(s, cut + 1, piece[2])))]

(* Whether a pair sets its key, and to what.                                 *)
Usable(p) ==
  LET k == KeyOf(p)
  IN /\ k \in Keys
     /\ k \in NumberKeys => NumberAccepted(k, p.value)
     /\ k = "auth"       => AuthFromString(p.value, "none") # "none"
     /\ k = "loglevel"   => LevelFromString(p.value, "none") # "none"
     /\ k = "logoutput"  => p.value \in Directories
Meaning(k, t) ==
  CASE k \in NumberKeys -> NumberOf(t)
    [] k = "auth"       -> AuthFromString(t, "none")
    [] k = "loglevel"   -> LevelFromString(t, "none")
    [] OTHER            -> t

(* The pieces that name k, those of them that set it, and the first.         *)
Naming(s, k) == {x \in Pieces(s) : CutAt(s, x) # {} /\ KeyOf(PairOf(s, x)) = k}
PiecesFor(s, k) == {x \in Naming(s, k) : Usable(PairOf(s, x))}
First(pieces) == CHOOSE x \in pieces : \A y \in pieces : x[1] <= y[1]

(* A setting as a DSN section alone gives it.                                *)
Loaded(section, k) ==
  ReadDsnConfiguration(Settings(NewConfiguration), section, 0).cfg[k].val

Expected(s, section, k) ==
  LET here == PiecesFor(s, k)
      text == PairOf(s, First(here)).value
  IN IF here # {} /\ ~ (k = "profilename" /\ text = << >>) THEN Meaning(k, text)
     ELSE IF PiecesFor(s, "dsn") # {} THEN Loaded(section, k)
     ELSE DefaultValue[k]

(* An empty number in a section is read as an uninitialised value.           *)
Unspecified(section, k) == k \in NumberKeys /\ k \in DOMAIN section /\ section[k] = << >>

(* On a new connection each setting is the first acceptable one of the        *)
(* connection string, else that of the DSN the string names, else the         *)
(* default: neither the order of the attributes, a repeated key, one that is  *)
(* refused, nor what stands between the semicolons changes another setting    *)
(* (ParseConnectionString, HandleAttributePair, ReadDsnConfiguration).  What  *)
(* is acceptable is the parser's own rule, by which a request timeout of 0 is *)
(* not.  A number that uint32_t holds and int32_t does not is left out.       *)
FirstWins ==
  done.call = "CONNECT" /\ done.earlier = NewConfiguration =>
    \A k \in Keys :
      LET expected == Expected(done.string, done.section, k)
      IN \/ Unspecified(done.section, k)
         \/ k \in NumberKeys /\ expected \notin Int32s
         \/ config[k].val = expected

(* x gives a user or a password over one given further right.                *)
Rewrites(s, x) ==
  /\ CutAt(s, x) # {}
  /\ LET later == {y \in Naming(s, KeyOf(PairOf(s, x))) : y[1] > x[1]}
     IN /\ KeyOf(PairOf(s, x)) \in {"uid", "pwd"}
        /\ later # {} /\ PairOf(s, First(later)).value # << >>

(* An attribute whose key is not known or whose value is refused, and a user  *)
(* or a password given over another, has left a status record, and            *)
(* SQLDriverConnect does not answer plain success; only a log path that is no *)
(* directory goes unmentioned (HandleAttributePair).  A piece without '=' and *)
(* the repetition of another option are not recorded, and not meant here.     *)
RefusalIsRecorded ==
  done.call = "CONNECT" =>
    \A x \in Pieces(done.string) :
      LET p == PairOf(done.string, x)
          refused == CutAt(done.string, x) # {} /\ ~ Usable(p) /\ KeyOf(p) # "logoutput"
      IN refused \/ Rewrites(done.string, x)
           => p \in done.warned /\ done.code # "SQL_SUCCESS"

(* Reconfiguring a DSN, with the dialog or without, keeps every setting that  *)
(* neither the attributes gave nor the user edited: it reads back from the    *)
(* new section as it did from the old one.  The dialog keeps no authentication *)
(* type its combo box does not list and no negative number (ConfigDSN,        *)
(* RetrieveParameters, ToMap, RegisterDsn, ReadDsnConfiguration).             *)
UneditedSurvives ==
  done.call = "CONFIG" /\ done.ok =>
    LET h == done.history
        edited == {FieldKey[f] : f \in h.edited \ {"connections"}}
    IN \A k \in Keys \ (h.given \cup edited \cup {"dsn", "driver"}) :
         \/ Unspecified(h.before, k)
         \/ k = "auth" /\ Selection(SubSeq(AuthTypes, 1, AuthListed), Loaded(h.before, k)) = -1
         \/ k \in NumberKeys /\ Loaded(h.before, k) < 0
         \/ Loaded(registry[done.name], k) = Loaded(h.before, k)

(* What TEST answered for the fields the user then accepted is what a         *)
(* connection with the registered DSN answers: the temporary configuration,   *)
(* its connection string, and the section it is read with come to the same    *)
(* as the section RegisterDsn writes (TestConnection, ToConnectString).       *)
TestPredicts ==
  done.call = "CONFIG" /\ done.ok =>
    LET h == done.history
        saved == ReadDsnConfiguration(Settings(NewConfiguration), registry[done.name], 0).cfg
    IN h.tested # "no" /\ h.given = {"dsn"} /\ done.name = h.old
         => (h.tested = "SQL_ERROR") = Invalid(saved)
=============================================================================
