----------------------------- MODULE Descriptors -----------------------------
(***************************************************************************)
(* Statements, descriptors and the pointers between them.  A statement owns *)
(* implicit descriptors and has an active ARD, its implicit one or an       *)
(* explicit descriptor of its connection; a descriptor has a type and points*)
(* back to a connection and to a statement.  The application allocates,     *)
(* attaches, copies and frees them in any order.  Handles are addresses: a  *)
(* freed one may be handed out again.  Records of a descriptor are left out.*)
(***************************************************************************)
EXTENDS FiniteSets

CONSTANTS
    Stmt, Desc, Conn,   \* handles: statements, explicit descriptors, connections
    Implicit,           \* handles of implicit descriptors
    OwnerOf, KindOf,    \* the statement and the type of each of them
    Ardi,               \* the implicit ARD of each statement
    ConnOf,             \* the connection each statement is allocated on
    NoStmt, NoConn,     \* null pointers
    CopyOnto            \* the descriptors the application copies onto:
                        \* "unattached" (as the tests do) or "any"

Handle == Desc \cup Implicit
DescType == {"ARD", "APD", "IRD", "IPD", "UNKNOWN"}

ASSUME HandleAssumption ==
    /\ ConnOf \in [Stmt -> Conn]
    /\ OwnerOf \in [Implicit -> Stmt]
    /\ KindOf \in [Implicit -> DescType \ {"UNKNOWN"}]
    /\ Ardi \in [Stmt -> Implicit]
    /\ \A s \in Stmt : OwnerOf[Ardi[s]] = s /\ KindOf[Ardi[s]] = "ARD"
    /\ Desc \cap Implicit = {}
    /\ NoStmt \notin Stmt /\ NoConn \notin Conn
ASSUME CopyAssumption == CopyOnto \in {"unattached", "any"}

VARIABLES
    live,               \* allocated statements
    alloc,              \* allocated explicit descriptors
    ard,                \* ard of each statement: the active ARD
    type, conn, stmt    \* type_, conn_ and stmt_ of each descriptor

vars == <<live, alloc, ard, type, conn, stmt>>

\* The object behind the handle exists.
Exists(h) == h \in alloc \/ (h \in Implicit /\ OwnerOf[h] \in live)

Init ==
    /\ live = {} /\ alloc = {}
    /\ ard = [s \in Stmt |-> Ardi[s]]
    /\ type = [h \in Handle |-> "UNKNOWN"]
    /\ conn = [h \in Handle |-> NoConn]
    /\ stmt = [h \in Handle |-> NoStmt]

\* SQLAllocStmt: the constructor makes the implicit descriptors.
AllocStmt(s) ==
    /\ s \notin live
    /\ live' = live \cup {s}
    /\ ard' = [ard EXCEPT ![s] = Ardi[s]]
    /\ LET Made(h) == h \in Implicit /\ OwnerOf[h] = s IN
         /\ type' = [h \in Handle |-> IF Made(h) THEN KindOf[h] ELSE type[h]]
         /\ stmt' = [h \in Handle |-> IF Made(h) THEN s ELSE stmt[h]]
         /\ conn' = [h \in Handle |-> IF Made(h) THEN NoConn ELSE conn[h]]
    /\ UNCHANGED alloc

\* SQLFreeStmt(SQL_DROP) deletes the statement with its implicit descriptors and
\* leaves stmt_ of the explicit ones as it is.
DropStmt(s) ==
    /\ s \in live
    /\ live' = live \ {s}
    /\ UNCHANGED <<alloc, ard, type, conn, stmt>>

\* Connection::InternalCreateDescriptor.
AllocDesc(d, c) ==
    /\ d \notin alloc
    /\ alloc' = alloc \cup {d}
    /\ type' = [type EXCEPT ![d] = "UNKNOWN"]
    /\ conn' = [conn EXCEPT ![d] = c]
    /\ stmt' = [stmt EXCEPT ![d] = NoStmt]
    /\ UNCHANGED <<live, ard>>

\* Mutant of RestoreDescriptor: the statement keeps its active ARD.
RestoreDescriptorNot(s, t) == ard

\* Statement::RestoreDescriptor.  Through the pointer of a dropped statement it
\* writes memory that is no statement's.  The active IRD is always the implicit
\* one, so restoring it changes nothing.
RestoreDescriptor(s, t) ==
    [u \in Stmt |-> IF u = s /\ u \in live /\ t = "ARD" THEN Ardi[u] ELSE ard[u]]

\* SQLFreeDescriptor: Deregister, then delete.  The driver manager rejects the
\* handle of an implicit descriptor.
FreeDescriptor(d) ==
    /\ d \in alloc
    /\ ard' = RestoreDescriptor(stmt[d], type[d])
    /\ alloc' = alloc \ {d}
    /\ conn' = [conn EXCEPT ![d] = NoConn]
    /\ stmt' = [stmt EXCEPT ![d] = NoStmt]
    /\ type' = [type EXCEPT ![d] = "UNKNOWN"]
    /\ UNCHANGED live

\* Mutant of Attachable: a descriptor attached elsewhere is accepted.
AttachableTaken(s, h) == conn[h] = ConnOf[s]

\* The tests of SQL_ATTR_APP_ROW_DESC in InternalSetAttribute.
Attachable(s, h) == conn[h] = ConnOf[s] /\ stmt[h] \in {NoStmt, s}

\* SQLSetStmtAttr(SQL_ATTR_APP_ROW_DESC) with a descriptor.
SetARDDesc(s, h) ==
    /\ s \in live /\ Exists(h)
    /\ Attachable(s, h)
    /\ type' = [type EXCEPT ![h] = "ARD"]
    /\ stmt' = [stmt EXCEPT ![h] = s]
    /\ ard' = [ard EXCEPT ![s] = h]
    /\ UNCHANGED <<live, alloc, conn>>

\* The same with a null pointer: back to the implicit ARD.
ResetARDDesc(s) ==
    /\ s \in live
    /\ ard' = [ard EXCEPT ![s] = Ardi[s]]
    /\ UNCHANGED <<live, alloc, type, conn, stmt>>

\* Descriptor::InternalCopyDesc: everything but an IRD is overwritten, the back
\* pointers too.
CopyDesc(h, d) ==
    /\ Exists(h) /\ Exists(d) /\ type[d] # "IRD"
    /\ CopyOnto = "unattached" => stmt[d] = NoStmt
    /\ type' = [type EXCEPT ![d] = type[h]]
    /\ conn' = [conn EXCEPT ![d] = conn[h]]
    /\ stmt' = [stmt EXCEPT ![d] = stmt[h]]
    /\ UNCHANGED <<live, alloc, ard>>

Next ==
    \/ \E s \in Stmt : \/ AllocStmt(s) \/ DropStmt(s)
                       \/ ResetARDDesc(s)
    \/ \E s \in Stmt, h \in Handle : SetARDDesc(s, h)
    \/ \E d \in Desc, c \in Conn : AllocDesc(d, c)
    \/ \E d \in Desc : FreeDescriptor(d)
    \/ \E h, d \in Handle : CopyDesc(h, d)

Spec == Init /\ [][Next]_vars

-----------------------------------------------------------------------------
(* Properties *)

TypeOK ==
    /\ live \subseteq Stmt
    /\ alloc \subseteq Desc
    /\ ard \in [Stmt -> Handle]
    /\ type \in [Handle -> DescType]
    /\ conn \in [Handle -> Conn \cup {NoConn}]
    /\ stmt \in [Handle -> Stmt \cup {NoStmt}]

\* The active ARD of a statement, which SQLBindCol and SQLSetStmtAttr write
\* through, exists: freeing a descriptor takes it away from the statement.
ActiveIsLive == \A s \in live : Exists(ard[s])

\* "Descriptor has been set to another statement." (statement.cpp): no two
\* statements write through the same descriptor.
ActiveExclusive == \A s, u \in live : s # u => ard[s] # ard[u]

\* "Descriptor does not belong to the statement connection." (statement.cpp): an
\* explicit active ARD belongs to the connection of its statement, also after
\* a descriptor has been copied.
ActiveOfConnection ==
    \A s \in live : ard[s] \in Desc => conn[ard[s]] = ConnOf[s]

\* A descriptor whose type makes Deregister write to a statement has one: freeing
\* it never goes through a null pointer.
RestorableHasStatement ==
    \A d \in alloc : type[d] \in {"ARD", "IRD"} => stmt[d] # NoStmt

\* The active ARD points back to its statement; implicit descriptors belong to
\* no connection and are never unattached.
ActivePointsBack ==
    \A s \in live :
      \/ ard[s] = Ardi[s]
      \/ ard[s] \in alloc /\ stmt[ard[s]] = s /\ type[ard[s]] = "ARD"

ImplicitOwned ==
    \A h \in Implicit : OwnerOf[h] \in live =>
      conn[h] = NoConn /\ stmt[h] = OwnerOf[h]

TypedHasStatement ==
    \A h \in Handle : type[h] # "UNKNOWN" => stmt[h] # NoStmt

\* The inductive invariant, for applications that copy onto unattached descriptors.
ActiveInv ==
    /\ TypeOK /\ ActivePointsBack /\ ActiveOfConnection
    /\ ImplicitOwned /\ TypedHasStatement
=============================================================================
