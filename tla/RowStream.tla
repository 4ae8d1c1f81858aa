------------------------------ MODULE RowStream ------------------------------
(***************************************************************************)
(* What executing a query promises to the caller of FetchNextRow, with no  *)
(* pages, no threads and no handshake: the rows of the result come once    *)
(* each and in order, and the end is reported only after the last of them. *)
(***************************************************************************)
EXTENDS Naturals, Sequences

VARIABLES
    rows,   \* the rows of the result: a set of pairs of numbers
    out,    \* the rows handed to the application
    state   \* "closed", "open", or "end" when the last answer was "no data"

vars == <<rows, out, state>>

\* The rows not handed out yet, and the order of the rows.
Left == rows \ {out[i] : i \in DOMAIN out}
Before(x, y) == x[1] < y[1] \/ (x[1] = y[1] /\ x[2] < y[2])

Init == out = <<>> /\ state = "closed"

\* A new execution: what was handed out before is forgotten.
Restart ==
    /\ out' = <<>> /\ state' = "closed"
    /\ UNCHANGED rows

Open ==
    /\ state = "closed" /\ out = <<>>
    /\ state' = "open"
    /\ UNCHANGED <<rows, out>>

Read ==
    /\ state = "open"
    /\ \E y \in Left : /\ \A z \in Left \ {y} : Before(y, z)
                       /\ out' = Append(out, y)
    /\ UNCHANGED <<rows, state>>

\* "No data" is an answer only when everything was read.
End ==
    /\ state = "open" /\ Left = {}
    /\ state' = "end"
    /\ UNCHANGED <<rows, out>>

\* Another call is made after the end; the stream has nothing left to read.
Ask ==
    /\ state = "end"
    /\ state' = "open"
    /\ UNCHANGED <<rows, out>>

\* The cursor is closed, by the application or by a failure.
Close ==
    /\ state # "closed"
    /\ state' = "closed"
    /\ UNCHANGED <<rows, out>>

Next == Restart \/ Open \/ Read \/ End \/ Ask \/ Close

Spec == Init /\ [][Next]_vars
=============================================================================
