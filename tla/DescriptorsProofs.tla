-------------------------- MODULE DescriptorsProofs --------------------------
(* The active ARD of every statement exists and is its own, for any number  *)
(* of statements, descriptors and connections, as long as the application   *)
(* copies onto unattached descriptors only.                                 *)
EXTENDS Descriptors, TLAPS

\* The constants of TypeOK's and the other parts' obligations.
LEMMA ImplicitFacts ==
    /\ \A s \in Stmt : Ardi[s] \in Implicit /\ Ardi[s] \in Handle
    /\ \A h \in Handle : h \in Desc <=> h \notin Implicit
    /\ \A h \in Implicit : OwnerOf[h] \in Stmt
    /\ \A s, u \in Stmt : Ardi[s] = Ardi[u] => s = u
BY HandleAssumption DEF Handle

\* The initial state satisfies the invariant: nothing is allocated.
LEMMA ActiveInit == Init => ActiveInv
BY ImplicitFacts, HandleAssumption
   DEF Init, ActiveInv, TypeOK, ActivePointsBack, ActiveOfConnection,
       ImplicitOwned, TypedHasStatement, DescType

\* Every call preserves the types of the pointers.
LEMMA TypeStep == ASSUME TypeOK, Next PROVE TypeOK'
<1> USE ImplicitFacts, HandleAssumption DEF TypeOK
<1>1. ASSUME NEW s \in Stmt, AllocStmt(s) PROVE TypeOK'
  BY <1>1 DEF AllocStmt
<1>2. ASSUME NEW s \in Stmt, DropStmt(s) \/ ResetARDDesc(s) PROVE TypeOK'
  BY <1>2 DEF DropStmt, ResetARDDesc
<1>3. ASSUME NEW s \in Stmt, NEW h \in Handle, SetARDDesc(s, h) PROVE TypeOK'
  BY <1>3 DEF SetARDDesc, DescType
<1>4. ASSUME NEW d \in Desc, NEW c \in Conn, AllocDesc(d, c) PROVE TypeOK'
  BY <1>4 DEF AllocDesc, DescType
<1>5. ASSUME NEW d \in Desc, FreeDescriptor(d) PROVE TypeOK'
  BY <1>5 DEF FreeDescriptor, RestoreDescriptor, DescType
<1>6. ASSUME NEW h \in Handle, NEW d \in Handle, CopyDesc(h, d) PROVE TypeOK'
  BY <1>6 DEF CopyDesc
<1>7. QED
  BY <1>1, <1>2, <1>3, <1>4, <1>5, <1>6 DEF Next

\* Every call preserves the invariant.  The two that could break it are freeing a
\* descriptor, which must be taken from the statement it is active on, and copying
\* onto one, which must not be active.
LEMMA ActiveStep ==
    ASSUME CopyOnto = "unattached", ActiveInv, Next PROVE ActiveInv'
<1>t. TypeOK /\ TypeOK'
  BY TypeStep DEF ActiveInv
<1> USE ImplicitFacts, HandleAssumption DEF TypeOK
<1> DEFINE Parts == /\ ActivePointsBack /\ ActiveOfConnection
                    /\ ImplicitOwned /\ TypedHasStatement
<1>p. Parts
  BY DEF ActiveInv
<1>1. ASSUME NEW s \in Stmt, AllocStmt(s) PROVE Parts'
  <2>1. \A h \in Desc : type'[h] = type[h] /\ stmt'[h] = stmt[h] /\ conn'[h] = conn[h]
    BY <1>1, <1>t DEF AllocStmt, Handle
  <2>2. ActivePointsBack'
    BY <1>1, <1>t, <1>p, <2>1 DEF AllocStmt, ActivePointsBack
  <2>3. ActiveOfConnection'
    BY <1>1, <1>t, <1>p, <2>1 DEF AllocStmt, ActiveOfConnection
  <2>4. ImplicitOwned' /\ TypedHasStatement'
    BY <1>1, <1>t, <1>p DEF AllocStmt, ImplicitOwned, TypedHasStatement, Handle
  <2>5. QED
    BY <2>2, <2>3, <2>4
<1>2. ASSUME NEW s \in Stmt, DropStmt(s) \/ ResetARDDesc(s) PROVE Parts'
  BY <1>2, <1>t, <1>p DEF DropStmt, ResetARDDesc, ActivePointsBack,
       ActiveOfConnection, ImplicitOwned, TypedHasStatement
<1>3. ASSUME NEW s \in Stmt, NEW h \in Handle, SetARDDesc(s, h) PROVE Parts'
  <2>1. h \in alloc
    BY <1>3, <1>t, <1>p DEF SetARDDesc, Attachable, Exists, ImplicitOwned
  <2>2. ActivePointsBack' /\ ActiveOfConnection'
    BY <1>3, <1>t, <1>p, <2>1 DEF SetARDDesc, Attachable, ActivePointsBack,
         ActiveOfConnection
  <2>3. ImplicitOwned' /\ TypedHasStatement'
    BY <1>3, <1>t, <1>p, <2>1 DEF SetARDDesc, ImplicitOwned, TypedHasStatement
  <2>4. QED
    BY <2>2, <2>3
<1>4. ASSUME NEW d \in Desc, NEW c \in Conn, AllocDesc(d, c) PROVE Parts'
  BY <1>4, <1>t, <1>p DEF AllocDesc, ActivePointsBack, ActiveOfConnection,
       ImplicitOwned, TypedHasStatement
<1>5. ASSUME NEW d \in Desc, FreeDescriptor(d) PROVE Parts'
  <2>1. \A s \in live : ard'[s] # d /\ ard'[s] \in {ard[s], Ardi[s]}
    BY <1>5, <1>t, <1>p DEF FreeDescriptor, RestoreDescriptor, ActivePointsBack
  <2>2. ActivePointsBack' /\ ActiveOfConnection'
    BY <1>5, <1>t, <1>p, <2>1 DEF FreeDescriptor, ActivePointsBack,
         ActiveOfConnection
  <2>3. ImplicitOwned' /\ TypedHasStatement'
    BY <1>5, <1>t, <1>p DEF FreeDescriptor, ImplicitOwned, TypedHasStatement
  <2>4. QED
    BY <2>2, <2>3
<1>6. ASSUME NEW h \in Handle, NEW d \in Handle, CopyDesc(h, d),
             CopyOnto = "unattached"
      PROVE Parts'
  <2>1. /\ \A s \in live : ard[s] = d => d = Ardi[s]
        /\ \A s \in live : d # Ardi[s]
        /\ \A i \in Implicit : OwnerOf[i] \in live => d # i
    BY <1>6, <1>t, <1>p DEF CopyDesc, ActivePointsBack, ImplicitOwned
  <2>2. ActivePointsBack' /\ ActiveOfConnection'
    BY <1>6, <1>t, <1>p, <2>1 DEF CopyDesc, ActivePointsBack, ActiveOfConnection
  <2>3. ImplicitOwned' /\ TypedHasStatement'
    BY <1>6, <1>t, <1>p, <2>1 DEF CopyDesc, ImplicitOwned, TypedHasStatement
  <2>4. QED
    BY <2>2, <2>3
<1>7. QED
  BY <1>t, <1>1, <1>2, <1>3, <1>4, <1>5, <1>6 DEF Next, ActiveInv

\* What the invariant says of the statements' active descriptors.
LEMMA ActiveMeans ==
    ActiveInv => ActiveIsLive /\ ActiveExclusive /\ RestorableHasStatement
<1> SUFFICES ASSUME ActiveInv
             PROVE ActiveIsLive /\ ActiveExclusive /\ RestorableHasStatement
  OBVIOUS
<1> USE ImplicitFacts, HandleAssumption DEF ActiveInv, TypeOK
<1>1. ActiveIsLive
  BY DEF ActiveIsLive, Exists, ActivePointsBack
<1>2. ActiveExclusive
  BY DEF ActiveExclusive, ActivePointsBack, ImplicitOwned
<1>3. RestorableHasStatement
  BY DEF RestorableHasStatement, TypedHasStatement, Handle
<1>4. QED
  BY <1>1, <1>2, <1>3

\* For an application that copies onto unattached descriptors only: a statement
\* never writes through a descriptor that was freed, that another statement uses
\* or that belongs to another connection, and freeing never goes through null.
THEOREM ActiveSafe ==
    CopyOnto = "unattached" /\ Spec
      => [](/\ TypeOK /\ ActiveIsLive /\ ActiveExclusive
            /\ ActiveOfConnection /\ RestorableHasStatement)
<1>1. CopyOnto = "unattached" /\ ActiveInv /\ [Next]_vars => ActiveInv'
  <2> SUFFICES ASSUME CopyOnto = "unattached", ActiveInv, [Next]_vars
               PROVE ActiveInv'
    OBVIOUS
  <2>1. CASE Next
    BY <2>1, ActiveStep
  <2>2. CASE UNCHANGED vars
    BY <2>2 DEF vars, ActiveInv, TypeOK, ActivePointsBack, ActiveOfConnection,
         ImplicitOwned, TypedHasStatement
  <2>3. QED
    BY <2>1, <2>2
<1>2. ActiveInv => /\ TypeOK /\ ActiveIsLive /\ ActiveExclusive
                   /\ ActiveOfConnection /\ RestorableHasStatement
  BY ActiveMeans DEF ActiveInv
<1>3. CASE CopyOnto = "unattached"
  BY <1>1, <1>2, <1>3, ActiveInit, PTL DEF Spec
<1>4. CASE CopyOnto # "unattached"
  BY <1>4
<1>5. QED
  BY <1>3, <1>4

\* For the same application: no two live statements have the same active ARD,
\* whatever was attached, freed, dropped or allocated again in between, so the
\* bindings one statement writes are never those of another.
THEOREM ActiveIsExclusive ==
    CopyOnto = "unattached" /\ Spec => []ActiveExclusive
<1>1. /\ TypeOK /\ ActiveIsLive /\ ActiveExclusive
      /\ ActiveOfConnection /\ RestorableHasStatement
      => ActiveExclusive
  OBVIOUS
<1>2. QED  BY <1>1, ActiveSafe, PTL
=============================================================================
