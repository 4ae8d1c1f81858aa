------------------------------ MODULE MCLogger ------------------------------
(* Instances of Logger for TLC: two threads, the default directory and        *)
(* another one, messages at the level the logger starts with.                 *)
EXTENDS Logger

CONSTANTS t1, t2, home, logs
=============================================================================
