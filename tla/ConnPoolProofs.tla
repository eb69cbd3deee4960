---------------------------- MODULE ConnPoolProofs ----------------------------
(***************************************************************************)
(* Proofs about the fixed connection pool, for every number of             *)
(* connections, set of callers and capacity of p.c, whether or not the     *)
(* parent context is cancelled.  PoolAccounting is not inductive by        *)
(* itself: a busy loop must hold a caller (not NoCaller) for its reply to  *)
(* reach a caller, which BusyServes adds.                                  *)
(***************************************************************************)
EXTENDS ConnPool, SequenceTheorems, TLAPS

\* x is waiting on p.c.
InC(x) == \E k \in 1..Len(c) : c[k] = x

\* Some connection loop runs x's request.
Served(x) == \E i \in Conn : loop[i] = "busy" /\ serving[i] = x

\* No caller is twice on the sequence q.
NoDup(q) == \A k, l \in 1..Len(q) : q[k] = q[l] => k = l

\* Appending an element that is not on a sequence without duplicates.
LEMMA AppendNoDup ==
  ASSUME NEW S, NEW q \in Seq(S), NEW x \in S, NoDup(q),
         \A k \in 1..Len(q) : q[k] # x
  PROVE  /\ NoDup(Append(q, x))
         /\ \A y \in S : (\E k \in 1..Len(Append(q, x)) : Append(q, x)[k] = y)
                         <=> (y = x \/ \E k \in 1..Len(q) : q[k] = y)
  <1>1. /\ Len(Append(q, x)) = Len(q) + 1
        /\ \A k \in 1..Len(q) : Append(q, x)[k] = q[k]
        /\ Append(q, x)[Len(q) + 1] = x
        /\ Len(q) \in Nat
    BY AppendProperties, LenProperties
  <1>2. QED
    BY <1>1 DEF NoDup

\* Taking the head off a sequence without duplicates removes the head alone.
LEMMA TailNoDup ==
  ASSUME NEW S, NEW q \in Seq(S), q # <<>>, NoDup(q)
  PROVE  /\ NoDup(Tail(q))
         /\ \A y \in S : (\E k \in 1..Len(Tail(q)) : Tail(q)[k] = y)
                         <=> (y # Head(q) /\ \E k \in 1..Len(q) : q[k] = y)
  <1>1. /\ Len(Tail(q)) = Len(q) - 1
        /\ \A k \in 1..Len(Tail(q)) : Tail(q)[k] = q[k + 1]
        /\ Len(q) \in Nat \ {0}
        /\ Head(q) = q[1]
    BY HeadTailProperties, EmptySeq
  <1>2. NoDup(Tail(q))
    BY <1>1 DEF NoDup
  <1>3. ASSUME NEW y \in S, NEW k \in 1..Len(Tail(q)), Tail(q)[k] = y
        PROVE  y # Head(q) /\ \E l \in 1..Len(q) : q[l] = y
    <2>1. q[k + 1] = y /\ k + 1 \in 1..Len(q) /\ k + 1 # 1
      BY <1>1, <1>3
    <2>2. QED
      BY <1>1, <2>1 DEF NoDup
  <1>4. ASSUME NEW y \in S, y # Head(q), NEW k \in 1..Len(q), q[k] = y
        PROVE  \E l \in 1..Len(Tail(q)) : Tail(q)[l] = y
    <2>1. k # 1 /\ k - 1 \in 1..Len(Tail(q)) /\ Tail(q)[k - 1] = y
      BY <1>1, <1>4
    <2>2. QED
      BY <2>1
  <1>5. QED
    BY <1>2, <1>3, <1>4

-----------------------------------------------------------------------------

LEMMA InitTypeOK == Init => TypeOK
<1> SUFFICES ASSUME Init PROVE TypeOK
  OBVIOUS
<1>1. c \in Seq(Callers) /\ Len(c) = 0
  BY EmptySeq DEF Init
<1>2. dialed \in 0..Conns /\ Len(c) <= ChanCap
  BY <1>1, ConnPoolAssumption DEF Init
<1>3. loop \in [Conn -> {"none", "idle", "busy", "exited"}]
  BY DEF Init
<1>4. serving \in [Conn -> Callers \cup {NoCaller}]
  BY DEF Init
<1>5. caller \in [Callers -> {"idle", "queued", "answered"}]
  BY DEF Init
<1>6. QED
  BY <1>1, <1>2, <1>3, <1>4, <1>5 DEF Init, TypeOK

LEMMA NextTypeOK == TypeOK /\ [Next]_vars => TypeOK'
<1> SUFFICES ASSUME TypeOK, [Next]_vars PROVE TypeOK'
  OBVIOUS
<1>. USE ConnPoolAssumption DEF TypeOK, Conn
<1>1. CASE DialConnection
  <2>1. dialed + 1 \in Conn /\ dialed + 1 \in 0..Conns
    BY <1>1 DEF DialConnection
  <2>2. QED
    BY <1>1, <2>1 DEF DialConnection
<1>2. CASE DialReturn
  BY <1>2 DEF DialReturn
<1>3. ASSUME NEW x \in Callers, Request(x) PROVE TypeOK'
  <2>1. Len(c') = Len(c) + 1 /\ c' \in Seq(Callers)
    BY <1>3, AppendProperties DEF Request
  <2>2. QED
    BY <1>3, <2>1 DEF Request
<1>4. ASSUME NEW i \in Conn, ConnLoopReceive(i) PROVE TypeOK'
  <2>1. /\ Head(c) \in Callers
        /\ Tail(c) \in Seq(Callers)
        /\ Len(Tail(c)) = Len(c) - 1
        /\ Len(c) \in Nat
    BY <1>4, HeadTailProperties, LenProperties DEF ConnLoopReceive
  <2>2. QED
    BY <1>4, <2>1 DEF ConnLoopReceive
<1>5. ASSUME NEW i \in Conn, ConnLoopExit(i) PROVE TypeOK'
  BY <1>5 DEF ConnLoopExit
<1>6. ASSUME NEW i \in Conn, ConnLoopReply(i) PROVE TypeOK'
  BY <1>6 DEF ConnLoopReply
<1>7. CASE CancelParent
  BY <1>7 DEF CancelParent
<1>8. CASE UNCHANGED vars
  BY <1>8 DEF vars
<1> QED BY <1>1, <1>2, <1>3, <1>4, <1>5, <1>6, <1>7, <1>8 DEF Next

\* The pool's variables keep their types for every number of connections,
\* callers and channel capacity: the dial loop starts loop dialed+1 only
\* while dialed < props.Conns (part_000:33), and a full p.c blocks Request.
THEOREM PoolTypeCorrect == Spec => []TypeOK
<1>1. Init => TypeOK
  BY InitTypeOK
<1>2. TypeOK /\ [Next]_vars => TypeOK'
  BY NextTypeOK
<1> QED BY <1>1, <1>2, PTL DEF Spec

-----------------------------------------------------------------------------

\* A busy loop runs a caller's request.
BusyServes == \A i \in Conn : loop[i] = "busy" => serving[i] \in Callers

\* No two busy loops run the same request.
OneLoopEach ==
    \A i, j \in Conn : loop[i] = "busy" /\ loop[j] = "busy" /\ serving[i] = serving[j] => i = j

\* Where each caller's request is.
Placed(x) ==
    /\ caller[x] = "queued" <=> InC(x) \/ Served(x)
    /\ ~(InC(x) /\ Served(x))

\* The loops beyond the ones dialled have not started.
NotStarted == \A i \in Conn : i > dialed => loop[i] = "none"

\* The inductive invariant of PoolAccounting.
AccInv ==
    /\ TypeOK /\ NotStarted /\ BusyServes
    /\ NoDup(c) /\ OneLoopEach /\ \A x \in Callers : Placed(x)

LEMMA AccInvAccounting == AccInv => PoolAccounting
  BY DEF AccInv, PoolAccounting, NoDup, OneLoopEach, Placed, InC, Served

LEMMA InitAccInv == Init => AccInv
<1> SUFFICES ASSUME Init PROVE AccInv
  OBVIOUS
<1>1. TypeOK
  BY InitTypeOK
<1>2. Len(c) = 0
  BY <1>1, EmptySeq DEF Init
<1>3. QED
  BY <1>1, <1>2 DEF Init, AccInv, NotStarted, BusyServes, NoDup, OneLoopEach, Placed, InC, Served

LEMMA NextAccInv == AccInv /\ [Next]_vars => AccInv'
<1> SUFFICES ASSUME AccInv, [Next]_vars PROVE AccInv'
  OBVIOUS
<1>1. TypeOK'
  BY NextTypeOK DEF AccInv
<1>. DEFINE Rest == BusyServes' /\ NoDup(c') /\ OneLoopEach' /\ \A x \in Callers : Placed(x)'
            Goal == NotStarted' /\ Rest
<1>2. SUFFICES Goal
  BY <1>1 DEF AccInv
<1>. USE DEF AccInv, TypeOK
\* The steps that leave c, serving, caller and the busy loops alone.
<1>3. ASSUME UNCHANGED <<c, serving, caller>>,
             \A i \in Conn : loop'[i] = "busy" <=> loop[i] = "busy"
      PROVE  Rest
  BY <1>3 DEF BusyServes, NoDup, OneLoopEach, Placed, InC, Served
\* A loop that leaves "none" was dialled; no step moves dialed back.
<1>20. ASSUME dialed' = dialed,
              \A i \in Conn : loop[i] = "none" => loop'[i] = "none"
       PROVE  NotStarted'
  BY <1>20 DEF NotStarted
<1>4. CASE DialConnection
  <2>1. dialed + 1 \in Conn /\ loop[dialed + 1] = "none" /\ dialed \in Nat
    <3>1. dialed \in Nat /\ dialed + 1 \in Conn
      BY <1>4, ConnPoolAssumption DEF DialConnection, Conn
    <3>2. dialed + 1 > dialed
      BY <3>1
    <3> QED BY <3>1, <3>2 DEF NotStarted
  <2>2. CASE dialed' = dialed + 1 /\ loop' = [loop EXCEPT ![dialed + 1] = "idle"]
             /\ UNCHANGED <<status, ctxDone>>
    <3>1. NotStarted'
      BY <2>1, <2>2 DEF NotStarted, Conn
    <3>2. Rest
      BY <1>4, <2>1, <2>2, <1>3 DEF DialConnection
    <3>3. QED BY <3>1, <3>2
  <2>3. CASE status' = "failed" /\ ctxDone' = TRUE /\ UNCHANGED <<dialed, loop>>
    BY <1>4, <2>3, <1>3, <1>20 DEF DialConnection
  <2>4. QED
    BY <1>4, <2>2, <2>3 DEF DialConnection
<1>5. CASE DialReturn
  BY <1>5, <1>3, <1>20 DEF DialReturn
<1>6. ASSUME NEW x \in Callers, Request(x) PROVE Goal
  <2>1. ~InC(x) /\ ~Served(x)
    BY <1>6 DEF Request, Placed
  <2>2. /\ NoDup(c')
        /\ \A y \in Callers : (\E k \in 1..Len(c') : c'[k] = y) <=> (y = x \/ InC(y))
    BY <1>6, <2>1, AppendNoDup DEF Request, InC
  <2>3. NotStarted'
    BY <1>6, <1>20 DEF Request
  <2>4. QED
    BY <1>6, <2>1, <2>2, <2>3 DEF Request, BusyServes, OneLoopEach, Placed, InC, Served
<1>7. ASSUME NEW i \in Conn, ConnLoopReceive(i) PROVE Goal
  <2>. DEFINE h == Head(c)
  <2>1. h \in Callers /\ InC(h) /\ c' = Tail(c) /\ c # <<>>
    BY <1>7, HeadTailProperties, EmptySeq DEF ConnLoopReceive, InC
  <2>2. ~Served(h) /\ caller[h] = "queued"
    BY <2>1 DEF Placed
  <2>3. /\ NoDup(c')
        /\ \A y \in Callers : (\E k \in 1..Len(c') : c'[k] = y) <=> (y # h /\ InC(y))
    BY <2>1, TailNoDup DEF InC
  <2>4. NotStarted'
    BY <1>7, <1>20 DEF ConnLoopReceive
  <2>5. QED
    BY <1>7, <2>1, <2>2, <2>3, <2>4 DEF ConnLoopReceive, BusyServes, OneLoopEach, Placed, InC, Served
<1>8. ASSUME NEW i \in Conn, ConnLoopExit(i) PROVE Goal
  BY <1>8, <1>3, <1>20 DEF ConnLoopExit
<1>9. ASSUME NEW i \in Conn, ConnLoopReply(i) PROVE Goal
  <2>. DEFINE x == serving[i]
  <2>1. x \in Callers /\ Served(x) /\ ~InC(x) /\ caller[x] = "queued"
    BY <1>9 DEF ConnLoopReply, BusyServes, Placed, Served
  <2>2. \A j \in Conn : loop[j] = "busy" /\ serving[j] = x => j = i
    BY <1>9 DEF ConnLoopReply, OneLoopEach
  <2>3. NotStarted'
    BY <1>9, <1>20 DEF ConnLoopReply
  <2>4. QED
    BY <1>9, <2>1, <2>2, <2>3 DEF ConnLoopReply, BusyServes, OneLoopEach, Placed, InC, Served
<1>10. CASE CancelParent
  BY <1>10, <1>3, <1>20 DEF CancelParent
<1>11. CASE UNCHANGED vars
  BY <1>11, <1>3, <1>20 DEF vars
<1> QED BY <1>4, <1>5, <1>6, <1>7, <1>8, <1>9, <1>10, <1>11 DEF Next

\* For every number of connections, callers and channel capacity, every
\* request is in exactly one place until its caller is answered: on p.c
\* once, or run by exactly one connection loop (part_000:46-65).
THEOREM RequestsPlaced == Spec => []PoolAccounting
<1>1. Init => AccInv
  BY InitAccInv
<1>2. AccInv /\ [Next]_vars => AccInv'
  BY NextAccInv
<1>3. AccInv => PoolAccounting
  BY AccInvAccounting
<1> QED BY <1>1, <1>2, <1>3, PTL DEF Spec

=============================================================================
