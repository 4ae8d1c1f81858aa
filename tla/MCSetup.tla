------------------------------ MODULE MCSetup ------------------------------
(* An instance of Setup for TLC: int32_t has 8 bits, so that 200 is a number *)
(* uint32_t holds and int32_t does not, and 300 one that neither holds.      *)
EXTENDS Setup

A == << "a" >>
Spaced == << "x", " ", "y" >>
D1 == << "d1" >>
D2 == << "d2" >>
Logs == << "logs" >>
MCDirectories == {Logs}
MCValidNames == {D1, D2, << "Trino DSN" >>}

(* Connection strings are two or three pieces: well formed, refused, cut     *)
(* at the wrong '=', without '=' or without a key, with braces and blanks.    *)
Piece == { << "uid", "=", "a" >>, << "uid", "=", "b" >>, << " ", "pwd", " ", "=", " ", "c" >>,
           << "dsn", "=", "d1" >>, << "requesttimeout", "=", "0" >>,
           << "requesttimeout", "=", "7" >>, << "maxretrycountclient", "=", "200" >>,
           << "maxretrycountclient", "=", "300" >>, << "auth", "=", "iam" >>,
           << "auth", "=", "oauth2" >>, << "loglevel", "=", "4" >>,
           << "logoutput", "=", "nowhere" >>, << "logoutput", "=", "logs" >>,
           << "profilename", "=", "{", "p", " ", "q", "}" >>, << "profilename", "=" >>,
           << "uid", "=", "a", "=", "b" >>, << "=", "a" >>, << "uid" >>, << >>,
           << "maxrowperpage", "=" >>, << "maxrowperpage", "=", "9" >> }
MCConnectStrings ==
  {p \o << ";" >> \o q : p, q \in Piece}
    \cup {p \o << ";" >> \o q \o << ";", "dsn", "=", "d1" >> : p, q \in Piece}

MCLaterStrings == { << "uid", "=", "b", ";", "dsn", "=", "d1" >> }

MCNoArgument == << "NULL" >>
MCJunk == {-1, 0}
MCLogins == { <<D1, MCNoArgument, A>> }

MCAttributes == { << "dsn", "=", "d1" >>, << "dsn", "=", "d2", NUL, "uid", "=", "a", NUL >>,
                  << "dsn", "=", "bad;name" >> }

(* Sections as RegisterDsn writes them, and one edited by hand.              *)
Full == [uid |-> A, pwd |-> A, auth |-> << "password" >>, requesttimeout |-> << "7" >>,
         maxrowperpage |-> << "9" >>, endpointoverride |-> Spaced, logoutput |-> Logs]
Token == [auth |-> << "jwt" >>, loglevel |-> << "1" >>, profilename |-> A]
ByHand == [requesttimeout |-> << >>, maxretrycountclient |-> << "-5" >>,
           auth |-> << " ", "oauth2" >>, loglevel |-> << "9" >>, maxrowperpage |-> << "many" >>,
           logoutput |-> << "nowhere" >>, uid |-> << >>]
MCRegistries == { << >>, D1 :> Full, D1 :> Token, D1 :> ByHand }

MCEdits == { <<"name", D2>>, <<"name", << >> >>, <<"auth", 1>>, <<"auth", 0>>,
             <<"connections", << "0" >> >>, <<"timeout", << >> >>, <<"level", 4>> }
=============================================================================
