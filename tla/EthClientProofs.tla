--------------------------- MODULE EthClientProofs ---------------------------
(***************************************************************************)
(* Proofs about the wallet owner of EthClient, for every set of requests,  *)
(* every attempt cap, channel capacity and initial pending nonce.          *)
(***************************************************************************)
EXTENDS EthClient, SequenceTheorems, TLAPS

\* A request whose goroutine holds a nonce has attempts left: the loop
\* allocates only below the cap, and only SendTransaction increments.
AttemptsLeftInFlight ==
    \A r \in Req : phase[r] \in {"estimating", "sending"} => attempts[r] < MaxAttempts

\* The inductive strengthening of TypeOK.
TypeInv == TypeOK /\ AttemptsLeftInFlight

\* The inductive strengthening of DistinctInFlightNonces.
NonceInv == TypeInv /\ DistinctInFlightNonces

-----------------------------------------------------------------------------

LEMMA InitTypeInv == Init => TypeInv
  BY ConstantsAssumption DEF Init, TypeInv, TypeOK, AttemptsLeftInFlight, Phases

\* The head of a non-empty c.inCh is a request.
LEMMA HeadIsReq ==
  ASSUME TypeOK, inCh # <<>>
  PROVE  /\ Head(inCh) \in Req
         /\ Tail(inCh) \in Seq(Req)
         /\ Len(Tail(inCh)) <= InChCap
  <1>1. /\ Head(inCh) \in Req
        /\ Tail(inCh) \in Seq(Req)
        /\ Len(Tail(inCh)) = Len(inCh) - 1
    BY HeadTailProperties DEF TypeOK
  <1>2. Len(inCh) \in Nat /\ Len(inCh) <= InChCap
    BY LenProperties DEF TypeOK
  <1>3. QED
    BY <1>1, <1>2, ConstantsAssumption

\* Answering a request, and nothing else, preserves TypeInv.
LEMMA AnswerTypeInv ==
  ASSUME TypeInv, NEW r \in Req, NEW e \in Events, Answer(r, e),
         UNCHANGED <<inCh, nonce, attempts, txNonce, chain>>
  PROVE  TypeInv'
  BY DEF TypeInv, TypeOK, AttemptsLeftInFlight, Answer, Phases

LEMMA NextTypeInv == TypeInv /\ [Next]_vars => TypeInv'
<1> SUFFICES ASSUME TypeInv, [Next]_vars PROVE TypeInv'
  OBVIOUS
<1>. USE ConstantsAssumption DEF TypeInv, TypeOK, AttemptsLeftInFlight, Phases, Events
<1>1. ASSUME NEW r \in Req, ExecuteServiceInvalid(r) PROVE TypeInv'
  BY <1>1, AnswerTypeInv DEF ExecuteServiceInvalid
<1>2. ASSUME NEW r \in Req, Submit(r) PROVE TypeInv'
  BY <1>2 DEF Submit
<1>3. ASSUME Request PROVE TypeInv'
  <2>. DEFINE h == Head(inCh)
  <2>1. inCh # <<>> /\ inCh' = Tail(inCh) /\ UNCHANGED <<attempts, chain>>
    BY <1>3 DEF Request
  <2>2. h \in Req /\ inCh' \in Seq(Req) /\ Len(inCh') <= InChCap
    BY <2>1, HeadIsReq
  <2>3. CASE AttemptsExhausted(h) /\ Answer(h, "ExecuteFailed") /\ UNCHANGED <<nonce, txNonce>>
    BY <2>1, <2>2, <2>3 DEF Answer
  <2>4. CASE ~AttemptsExhausted(h) /\ Allocate(h, nonce)
    BY <2>1, <2>2, <2>4 DEF Allocate, AttemptsExhausted
  <2>5. CASE ~AttemptsExhausted(h) /\ Allocate(h, UpdatedNonce)
    <3>1. PendingNonce \in Nat
      BY LenProperties DEF PendingNonce
    <3>2. UpdatedNonce \in Nat
      BY <3>1 DEF UpdatedNonce
    <3>3. QED
      BY <2>1, <2>2, <2>5, <3>2 DEF Allocate, AttemptsExhausted
  <2>6. CASE ~AttemptsExhausted(h) /\ Answer(h, "UpdateNonceFailed") /\ UNCHANGED <<nonce, txNonce>>
    BY <2>1, <2>2, <2>6 DEF Answer
  <2>7. QED
    BY <1>3, <2>3, <2>4, <2>5, <2>6 DEF Request
<1>4. ASSUME NEW r \in Req, EstimateGas(r) PROVE TypeInv'
  <2>1. CASE Answer(r, "EstimateGas") \/ Answer(r, "SignedTx")
    BY <1>4, <2>1, AnswerTypeInv DEF EstimateGas
  <2>2. CASE phase' = [phase EXCEPT ![r] = "sending"] /\ UNCHANGED out
    BY <1>4, <2>2 DEF EstimateGas
  <2>3. QED
    BY <1>4, <2>1, <2>2 DEF EstimateGas
<1>5. ASSUME NEW r \in Req, SendTransaction(r) PROVE TypeInv'
  <2>1. attempts[r] < MaxAttempts
    BY <1>5 DEF SendTransaction
  <2>2. CASE /\ attempts' = [attempts EXCEPT ![r] = @ + 1]
             /\ phase' = [phase EXCEPT ![r] = "requeue"]
             /\ UNCHANGED <<out, chain>>
    BY <1>5, <2>1, <2>2 DEF SendTransaction
  <2>3. CASE /\ chain' = Append(chain, r)
             /\ phase' = [phase EXCEPT ![r] = "receipt"]
             /\ UNCHANGED <<out, attempts>>
    BY <1>5, <2>3 DEF SendTransaction
  <2>4. CASE Answer(r, "SendTransaction") /\ UNCHANGED <<attempts, chain>>
    BY <1>5, <2>4, AnswerTypeInv DEF SendTransaction
  <2>5. CASE /\ chain' = Append(chain, r)
             /\ Answer(r, "SendTransaction")
             /\ UNCHANGED attempts
    BY <1>5, <2>5 DEF SendTransaction, Answer
  <2>6. QED
    BY <1>5, <2>2, <2>3, <2>4, <2>5 DEF SendTransaction
<1>6. ASSUME NEW r \in Req, Requeue(r) PROVE TypeInv'
  BY <1>6 DEF Requeue
<1>7. ASSUME NEW r \in Req, TransactionReceipt(r) PROVE TypeInv'
  BY <1>7, AnswerTypeInv DEF TransactionReceipt
<1>8. CASE UNCHANGED vars
  BY <1>8 DEF vars
<1>9. QED
  BY <1>1, <1>2, <1>3, <1>4, <1>5, <1>6, <1>7, <1>8 DEF Next

\* Every state of the wallet owner is well typed; in particular no request
\* ever exceeds the attempt cap of runTransaction.
THEOREM TypeCorrect == Spec => []TypeOK
<1>1. Init => TypeInv
  BY InitTypeInv
<1>2. TypeInv /\ [Next]_vars => TypeInv'
  BY NextTypeInv
<1>3. TypeInv => TypeOK
  BY DEF TypeInv
<1>4. QED
  BY <1>1, <1>2, <1>3, PTL DEF Spec

-----------------------------------------------------------------------------

\* A step that moves no request into InFlight and changes neither c.nonce
\* nor txNonce preserves DistinctInFlightNonces.
LEMMA NoAllocationKeepsNonces ==
  ASSUME NEW r \in Req, TypeOK, DistinctInFlightNonces,
         phase' = [phase EXCEPT ![r] = phase'[r]],
         phase'[r] \notin {"estimating", "sending"} \/ phase[r] \in {"estimating", "sending"},
         UNCHANGED <<nonce, txNonce>>
  PROVE  DistinctInFlightNonces'
  BY DEF DistinctInFlightNonces, InFlight, TypeOK

LEMMA InitNonceInv == Init => NonceInv
  BY InitTypeInv DEF Init, NonceInv, DistinctInFlightNonces, InFlight

LEMMA NextNonceInv == NonceInv /\ [Next]_vars => NonceInv'
<1> SUFFICES ASSUME NonceInv, [Next]_vars PROVE NonceInv'
  OBVIOUS
<1>1. TypeInv'
  BY NextTypeInv DEF NonceInv
<1>2. DistinctInFlightNonces'
  <2>. USE DEF NonceInv, TypeInv
  <2>1. ASSUME NEW r \in Req, ExecuteServiceInvalid(r) PROVE DistinctInFlightNonces'
    BY <2>1, NoAllocationKeepsNonces DEF ExecuteServiceInvalid, Answer, TypeOK
  <2>2. ASSUME NEW r \in Req, Submit(r) PROVE DistinctInFlightNonces'
    BY <2>2, NoAllocationKeepsNonces DEF Submit, TypeOK
  <2>3. ASSUME Request PROVE DistinctInFlightNonces'
    <3>. DEFINE h == Head(inCh)
    <3>1. h \in Req
      BY <2>3, HeadIsReq DEF Request
    <3>2. CASE /\ Answer(h, "ExecuteFailed") \/ Answer(h, "UpdateNonceFailed")
               /\ UNCHANGED <<nonce, txNonce>>
      BY <3>1, <3>2, NoAllocationKeepsNonces DEF Answer, TypeOK
    <3>3. ASSUME NEW n \in Nat, n >= nonce, Allocate(h, n) PROVE DistinctInFlightNonces'
      BY <3>1, <3>3 DEF Allocate, DistinctInFlightNonces, InFlight, TypeOK
    <3>4. nonce \in Nat /\ UpdatedNonce \in Nat /\ UpdatedNonce >= nonce
      BY LenProperties, ConstantsAssumption DEF UpdatedNonce, PendingNonce, TypeOK
    <3>5. QED
      BY <2>3, <3>2, <3>3, <3>4 DEF Request
  <2>4. ASSUME NEW r \in Req, EstimateGas(r) PROVE DistinctInFlightNonces'
    BY <2>4, NoAllocationKeepsNonces DEF EstimateGas, Answer, TypeOK
  <2>5. ASSUME NEW r \in Req, SendTransaction(r) PROVE DistinctInFlightNonces'
    BY <2>5, NoAllocationKeepsNonces DEF SendTransaction, Answer, TypeOK
  <2>6. ASSUME NEW r \in Req, Requeue(r) PROVE DistinctInFlightNonces'
    BY <2>6, NoAllocationKeepsNonces DEF Requeue, TypeOK
  <2>7. ASSUME NEW r \in Req, TransactionReceipt(r) PROVE DistinctInFlightNonces'
    BY <2>7, NoAllocationKeepsNonces DEF TransactionReceipt, Answer, TypeOK
  <2>8. CASE UNCHANGED vars
    BY <2>8 DEF vars, DistinctInFlightNonces, InFlight
  <2>9. QED
    BY <2>1, <2>2, <2>3, <2>4, <2>5, <2>6, <2>7, <2>8 DEF Next
<1>3. QED
  BY <1>1, <1>2 DEF NonceInv

\* No two transaction goroutines of the wallet ever hold the same nonce,
\* for every attempt cap and every answer of the backend: updateNonce
\* only ever raises c.nonce, so every allocation is above all earlier ones.
THEOREM InFlightNoncesDistinct == Spec => []DistinctInFlightNonces
<1>1. Init => NonceInv
  BY InitNonceInv
<1>2. NonceInv /\ [Next]_vars => NonceInv'
  BY NextNonceInv
<1>3. NonceInv => DistinctInFlightNonces
  BY DEF NonceInv
<1>4. QED
  BY <1>1, <1>2, <1>3, PTL DEF Spec

-----------------------------------------------------------------------------

\* r is on the queue q.
InQ(q, r) == \E i \in 1..Len(q) : q[i] = r

\* No request is twice on the queue q.
NoDup(q) == \A i, j \in 1..Len(q) : q[i] = q[j] => i = j

\* Appending a request that is not on a queue without duplicates.
LEMMA AppendQueue ==
  ASSUME NEW q \in Seq(Req), NEW r \in Req, NoDup(q), ~InQ(q, r)
  PROVE  /\ NoDup(Append(q, r))
         /\ \A s \in Req : InQ(Append(q, r), s) <=> (s = r \/ InQ(q, s))
  <1>1. /\ Len(Append(q, r)) = Len(q) + 1
        /\ \A i \in 1..Len(q) : Append(q, r)[i] = q[i]
        /\ Append(q, r)[Len(q) + 1] = r
        /\ Len(q) \in Nat
    BY AppendProperties, LenProperties
  <1>2. QED
    BY <1>1 DEF NoDup, InQ

\* Taking the head off a queue without duplicates removes the head alone.
LEMMA TailQueue ==
  ASSUME NEW q \in Seq(Req), q # <<>>, NoDup(q)
  PROVE  /\ NoDup(Tail(q))
         /\ \A s \in Req : InQ(Tail(q), s) <=> (s # Head(q) /\ InQ(q, s))
  <1>1. /\ Len(Tail(q)) = Len(q) - 1
        /\ \A i \in 1..Len(Tail(q)) : Tail(q)[i] = q[i + 1]
        /\ Len(q) \in Nat \ {0}
        /\ Head(q) = q[1]
    BY HeadTailProperties, EmptySeq
  <1>2. NoDup(Tail(q))
    BY <1>1 DEF NoDup
  <1>3. ASSUME NEW s \in Req, InQ(Tail(q), s) PROVE s # Head(q) /\ InQ(q, s)
    <2>1. PICK i \in 1..Len(Tail(q)) : Tail(q)[i] = s
      BY <1>3 DEF InQ
    <2>2. q[i + 1] = s /\ i + 1 \in 1..Len(q) /\ i + 1 # 1
      BY <1>1, <2>1
    <2>3. QED
      BY <1>1, <2>2 DEF NoDup, InQ
  <1>4. ASSUME NEW s \in Req, s # Head(q), InQ(q, s) PROVE InQ(Tail(q), s)
    <2>1. PICK i \in 1..Len(q) : q[i] = s
      BY <1>4 DEF InQ
    <2>2. i # 1 /\ i - 1 \in 1..Len(Tail(q)) /\ Tail(q)[i - 1] = s
      BY <1>1, <1>4, <2>1
    <2>3. QED
      BY <2>2 DEF InQ
  <1>5. QED
    BY <1>2, <1>3, <1>4

\* RequestAccounting in the terms of the two queue lemmas.
LEMMA AccountingIff ==
  RequestAccounting <=>
      /\ NoDup(inCh)
      /\ \A r \in Req : phase[r] = "queued" <=> InQ(inCh, r)
      /\ \A r \in Req : Len(out[r]) = IF phase[r] = "done" THEN 1 ELSE 0
  BY DEF RequestAccounting, NoDup, InQ

\* The inductive invariant of RequestAccounting.
AccInv == TypeInv /\ RequestAccounting

LEMMA InitAccInv == Init => AccInv
  BY InitTypeInv DEF Init, AccInv, RequestAccounting

LEMMA NextAccInv == AccInv /\ [Next]_vars => AccInv'
<1> SUFFICES ASSUME AccInv, [Next]_vars PROVE AccInv'
  OBVIOUS
<1>1. TypeInv'
  BY NextTypeInv DEF AccInv
<1>. DEFINE Qd(r) == phase[r] = "queued" <=> InQ(inCh, r)
            Od(r) == Len(out[r]) = IF phase[r] = "done" THEN 1 ELSE 0
<1>2. /\ NoDup(inCh)
      /\ \A r \in Req : Qd(r) /\ Od(r)
  BY AccountingIff DEF AccInv
<1>. USE DEF AccInv, TypeInv, TypeOK
<1>. DEFINE Goal == NoDup(inCh') /\ \A r \in Req : Qd(r)' /\ Od(r)'
<1>3. SUFFICES Goal
  BY <1>1 DEF RequestAccounting, NoDup, InQ
\* An answer to r appends one event to out[r] and nothing else.
<1>4. ASSUME NEW r \in Req, NEW e \in Events, phase[r] # "done", Answer(r, e)
      PROVE  Len(out'[r]) = 1 /\ \A s \in Req \ {r} : out'[s] = out[s]
  BY <1>2, <1>4, AppendProperties DEF Answer
<1>5. ASSUME NEW r \in Req, ExecuteServiceInvalid(r) PROVE Goal
  BY <1>2, <1>5, <1>4 DEF ExecuteServiceInvalid, Answer, Events
<1>6. ASSUME NEW r \in Req, Submit(r) PROVE Goal
  <2>1. ~InQ(inCh, r)
    BY <1>2, <1>6 DEF Submit
  <2>2. QED
    BY <1>2, <1>6, <2>1, AppendQueue DEF Submit
<1>7. ASSUME Request PROVE Goal
  <2>. DEFINE h == Head(inCh)
  <2>1. /\ inCh # <<>> /\ inCh' = Tail(inCh) /\ h \in Req /\ InQ(inCh, h)
    <3>1. inCh # <<>> /\ inCh' = Tail(inCh) /\ h \in Req
      BY <1>7, HeadIsReq DEF Request
    <3>2. InQ(inCh, h)
      BY <3>1, HeadTailProperties, EmptySeq DEF InQ
    <3>3. QED
      BY <3>1, <3>2
  <2>2. phase[h] = "queued"
    BY <1>2, <2>1
  <2>3. /\ NoDup(inCh')
        /\ \A s \in Req : InQ(inCh', s) <=> (s # h /\ InQ(inCh, s))
    BY <1>2, <2>1, TailQueue
  <2>4. CASE Answer(h, "ExecuteFailed") \/ Answer(h, "UpdateNonceFailed")
    BY <1>2, <2>2, <2>3, <2>4, <1>4 DEF Answer, Events
  <2>5. CASE \E n : Allocate(h, n)
    BY <1>2, <2>2, <2>3, <2>5 DEF Allocate
  <2>6. QED
    BY <1>7, <2>4, <2>5 DEF Request
<1>8. ASSUME NEW r \in Req, EstimateGas(r) PROVE Goal
  BY <1>2, <1>8, <1>4 DEF EstimateGas, Answer, Events
<1>9. ASSUME NEW r \in Req, SendTransaction(r) PROVE Goal
  BY <1>2, <1>9, <1>4 DEF SendTransaction, Answer, Events
<1>10. ASSUME NEW r \in Req, Requeue(r) PROVE Goal
  <2>1. ~InQ(inCh, r)
    BY <1>2, <1>10 DEF Requeue
  <2>2. QED
    BY <1>2, <1>10, <2>1, AppendQueue DEF Requeue
<1>11. ASSUME NEW r \in Req, TransactionReceipt(r) PROVE Goal
  BY <1>2, <1>11, <1>4 DEF TransactionReceipt, Answer, Events
<1>12. CASE UNCHANGED vars
  BY <1>2, <1>12 DEF vars, InQ
<1>13. QED
  BY <1>5, <1>6, <1>7, <1>8, <1>9, <1>10, <1>11, <1>12 DEF Next

\* Every request is in exactly one place and its caller gets exactly one
\* event, for every number of requests, channel capacity and attempt cap:
\* the goroutine's retry branch re-enqueues and returns (client.go:175-179),
\* and a request is on c.inCh only while it waits for the loop.
THEOREM RequestsAccounted == Spec => []RequestAccounting
<1>1. Init => AccInv
  BY InitAccInv
<1>2. AccInv /\ [Next]_vars => AccInv'
  BY NextAccInv
<1>3. AccInv => RequestAccounting
  BY DEF AccInv
<1>4. QED
  BY <1>1, <1>2, <1>3, PTL DEF Spec

-----------------------------------------------------------------------------

\* A caller waits with nothing received until its request is done.
OutInv == \A r \in Req : phase[r] # "done" => out[r] = <<>>

\* A request's transaction is on the chain exactly when the request waits
\* for its receipt, and not while it is before or at its send.
LandedInv ==
    \A r \in Req :
        /\ phase[r] = "receipt" => WS!Landed(r)
        /\ phase[r] \in {"idle", "queued", "estimating", "sending", "requeue"} => ~WS!Landed(r)

\* The invariant the refinement rests on.
RefInv == AccInv /\ OutInv /\ LandedInv

\* Appending r to the chain lands r and no other request.
LEMMA LandedAppend ==
  ASSUME TypeOK, NEW r \in Req, chain' = Append(chain, r)
  PROVE  \A s \in Req : WS!Landed(s)' <=> (s = r \/ WS!Landed(s))
  <1>1. /\ Len(chain') = Len(chain) + 1
        /\ \A i \in 1..Len(chain) : chain'[i] = chain[i]
        /\ chain'[Len(chain) + 1] = r
        /\ Len(chain) \in Nat
    BY AppendProperties, LenProperties DEF TypeOK
  <1>2. QED
    BY <1>1 DEF WS!Landed

\* Changing the phase of one request changes its abstract status alone.
LEMMA AbsStatusUpdate ==
  ASSUME NEW r \in Req, NEW p, phase \in [Req -> Phases],
         phase' = [phase EXCEPT ![r] = p]
  PROVE  AbstractStatus' = [AbstractStatus EXCEPT ![r] = AbsPhase(p)]
  BY DEF AbstractStatus

LEMMA InitRefInv == Init => RefInv
  BY InitAccInv DEF Init, RefInv, OutInv, LandedInv, WS!Landed

\* A step that leaves the chain alone lands nothing.
LEMMA LandedUnchanged ==
  ASSUME UNCHANGED chain
  PROVE  \A s \in Req : WS!Landed(s)' <=> WS!Landed(s)
  BY DEF WS!Landed

LEMMA NextRefInv == RefInv /\ [Next]_vars => RefInv'
<1> SUFFICES ASSUME RefInv, [Next]_vars PROVE RefInv'
  OBVIOUS
<1>1. AccInv'
  BY NextAccInv DEF RefInv
<1>. USE DEF RefInv, AccInv, TypeInv, TypeOK, OutInv, LandedInv
<1>2. ASSUME NEW r \in Req, ExecuteServiceInvalid(r) PROVE OutInv' /\ LandedInv'
  BY <1>2, LandedUnchanged DEF ExecuteServiceInvalid, Answer
<1>3. ASSUME NEW r \in Req, Submit(r) PROVE OutInv' /\ LandedInv'
  BY <1>3, LandedUnchanged DEF Submit
<1>4. ASSUME Request PROVE OutInv' /\ LandedInv'
  <2>. DEFINE h == Head(inCh)
  <2>1. h \in Req /\ phase[h] = "queued" /\ UNCHANGED chain
    <3>1. h \in Req
      BY <1>4, HeadIsReq DEF Request
    <3>2. phase[h] = "queued"
      BY <1>4, <3>1, HeadTailProperties, EmptySeq, AccountingIff DEF Request, InQ
    <3>3. QED
      BY <1>4, <3>1, <3>2 DEF Request
  <2>2. CASE Answer(h, "ExecuteFailed") \/ Answer(h, "UpdateNonceFailed")
    BY <2>1, <2>2, LandedUnchanged DEF Answer
  <2>3. CASE \E n : Allocate(h, n)
    BY <2>1, <2>3, LandedUnchanged DEF Allocate
  <2>4. QED
    BY <1>4, <2>2, <2>3 DEF Request
<1>5. ASSUME NEW r \in Req, EstimateGas(r) PROVE OutInv' /\ LandedInv'
  BY <1>5, LandedUnchanged DEF EstimateGas, Answer
<1>6. ASSUME NEW r \in Req, SendTransaction(r) PROVE OutInv' /\ LandedInv'
  <2>1. phase[r] = "sending" /\ ~WS!Landed(r)
    BY <1>6 DEF SendTransaction
  <2>2. CASE \/ /\ phase' = [phase EXCEPT ![r] = "requeue"]
                /\ UNCHANGED <<out, chain>>
             \/ Answer(r, "SendTransaction") /\ UNCHANGED chain
    BY <2>1, <2>2, LandedUnchanged DEF Answer
  <2>3. CASE /\ chain' = Append(chain, r)
             /\ \/ phase' = [phase EXCEPT ![r] = "receipt"] /\ UNCHANGED out
                \/ Answer(r, "SendTransaction")
    <3>1. \A s \in Req : WS!Landed(s)' <=> (s = r \/ WS!Landed(s))
      BY <2>3, LandedAppend
    <3>2. phase'[r] \in {"receipt", "done"} /\ phase' = [phase EXCEPT ![r] = phase'[r]]
      BY <1>6, <2>3 DEF Answer
    <3>3. out' = out \/ (phase'[r] = "done" /\ out' = [out EXCEPT ![r] = Append(@, "SendTransaction")])
      BY <1>6, <2>3 DEF Answer
    <3>4. QED
      BY <2>1, <3>1, <3>2, <3>3
  <2>4. QED
    BY <1>6, <2>2, <2>3 DEF SendTransaction
<1>7. ASSUME NEW r \in Req, Requeue(r) PROVE OutInv' /\ LandedInv'
  BY <1>7, LandedUnchanged DEF Requeue
<1>8. ASSUME NEW r \in Req, TransactionReceipt(r) PROVE OutInv' /\ LandedInv'
  BY <1>8, LandedUnchanged DEF TransactionReceipt, Answer
<1>9. CASE UNCHANGED vars
  <2>1. UNCHANGED <<phase, out, chain>>
    BY <1>9 DEF vars
  <2>2. QED
    BY <1>1, <2>1, LandedUnchanged
<1>10. QED
  BY <1>1, <1>2, <1>3, <1>4, <1>5, <1>6, <1>7, <1>8, <1>9 DEF Next

\* Answering a request that is waiting is the abstract reply to it.
LEMMA AnswerStep ==
  ASSUME RefInv, NEW r \in Req, NEW e, phase[r] \notin {"idle", "done"}, Answer(r, e)
  PROVE  /\ AbstractStatus[r] = "pending"
         /\ AbstractStatus' = [AbstractStatus EXCEPT ![r] = "done"]
         /\ out' = [out EXCEPT ![r] = <<e>>]
  <1>1. AbstractStatus[r] = "pending"
    BY DEF AbstractStatus, AbsPhase
  <1>2. AbstractStatus' = [AbstractStatus EXCEPT ![r] = "done"]
    BY AbsStatusUpdate DEF Answer, AbsPhase, RefInv, AccInv, TypeInv, TypeOK
  <1>3. out[r] = <<>>
    BY DEF RefInv, OutInv
  <1>4. QED
    BY <1>1, <1>2, <1>3 DEF Answer

\* Moving a request between two of its waiting phases is invisible.
LEMMA PendingMove ==
  ASSUME RefInv, NEW r \in Req, NEW p \in Phases \ {"idle", "done"},
         phase[r] \notin {"idle", "done"}, phase' = [phase EXCEPT ![r] = p]
  PROVE  AbstractStatus' = AbstractStatus
  BY AbsStatusUpdate DEF AbsPhase, AbstractStatus, RefInv, AccInv, TypeInv, TypeOK, Phases

\* Every step of the wallet owner is a step of WalletService or leaves
\* its state alone.
LEMMA StepSimulation == RefInv /\ [Next]_vars => [WS!Next]_(WS!vars)
<1> SUFFICES ASSUME RefInv, [Next]_vars PROVE [WS!Next]_(WS!vars)
  OBVIOUS
<1>. USE DEF WS!vars
<1>1. ASSUME NEW r \in Req, ExecuteServiceInvalid(r) PROVE WS!Reject(r)
  <2>1. AbstractStatus[r] = "idle"
    BY <1>1 DEF ExecuteServiceInvalid, AbstractStatus, AbsPhase
  <2>2. AbstractStatus' = [AbstractStatus EXCEPT ![r] = "done"]
    BY <1>1, AbsStatusUpdate DEF ExecuteServiceInvalid, Answer, AbsPhase,
                               RefInv, AccInv, TypeInv, TypeOK
  <2>3. out' = [out EXCEPT ![r] = <<"InputError">>]
    <3>1. out[r] = <<>>
      BY <1>1 DEF ExecuteServiceInvalid, RefInv, OutInv
    <3>2. QED
      BY <1>1, <3>1 DEF ExecuteServiceInvalid, Answer
  <2>4. QED
    BY <1>1, <2>1, <2>2, <2>3 DEF ExecuteServiceInvalid, WS!Reject
<1>2. ASSUME NEW r \in Req, Submit(r) PROVE WS!Call(r)
  <2>1. AbstractStatus[r] = "idle"
    BY <1>2 DEF Submit, AbstractStatus, AbsPhase
  <2>2. AbstractStatus' = [AbstractStatus EXCEPT ![r] = AbsPhase("queued")]
    BY <1>2, AbsStatusUpdate DEF Submit, RefInv, AccInv, TypeInv, TypeOK
  <2>3. AbsPhase("queued") = "pending"
    BY DEF AbsPhase
  <2>4. QED
    BY <1>2, <2>1, <2>2, <2>3 DEF Submit, WS!Call
<1>3. ASSUME Request PROVE [WS!Next]_(WS!vars)
  <2>. DEFINE h == Head(inCh)
  <2>1. h \in Req /\ phase[h] = "queued" /\ UNCHANGED chain
    <3>1. h \in Req
      BY <1>3, HeadIsReq DEF Request, RefInv, AccInv, TypeInv
    <3>2. phase[h] = "queued"
      BY <1>3, <3>1, HeadTailProperties, EmptySeq, AccountingIff
         DEF Request, InQ, RefInv, AccInv, TypeInv, TypeOK
    <3>3. QED
      BY <1>3, <3>1, <3>2 DEF Request
  <2>2. ~WS!Landed(h)
    BY <2>1 DEF RefInv, LandedInv
  <2>3. ASSUME NEW e \in {"ExecuteFailed", "UpdateNonceFailed"}, Answer(h, e)
        PROVE  WS!Reply(h, e)
    BY <2>1, <2>2, <2>3, AnswerStep DEF WS!Reply, WS!NotLandedEvents, WS!LandedEvents
  <2>4. ASSUME NEW n, Allocate(h, n) PROVE UNCHANGED WS!vars
    BY <2>1, <2>4, PendingMove DEF Allocate, Phases
  <2>5. QED
    BY <1>3, <2>1, <2>3, <2>4 DEF Request, WS!Next, WS!NotLandedEvents
<1>4. ASSUME NEW r \in Req, EstimateGas(r) PROVE [WS!Next]_(WS!vars)
  <2>1. phase[r] = "estimating" /\ ~WS!Landed(r) /\ UNCHANGED chain
    BY <1>4 DEF EstimateGas, RefInv, LandedInv
  <2>2. ASSUME NEW e \in {"EstimateGas", "SignedTx"}, Answer(r, e) PROVE WS!Reply(r, e)
    BY <2>1, <2>2, AnswerStep DEF WS!Reply, WS!NotLandedEvents, WS!LandedEvents
  <2>3. CASE phase' = [phase EXCEPT ![r] = "sending"] /\ UNCHANGED out
    BY <2>1, <2>3, PendingMove DEF Phases
  <2>4. QED
    BY <1>4, <2>2, <2>3 DEF EstimateGas, WS!Next, WS!NotLandedEvents
<1>5. ASSUME NEW r \in Req, SendTransaction(r) PROVE [WS!Next]_(WS!vars)
  <2>1. phase[r] = "sending" /\ ~WS!Landed(r)
    BY <1>5 DEF SendTransaction, RefInv, LandedInv
  <2>2. AbstractStatus[r] = "pending"
    BY <2>1 DEF AbstractStatus, AbsPhase
  <2>3. CASE /\ phase' = [phase EXCEPT ![r] = "requeue"]
             /\ UNCHANGED <<out, chain>>
    BY <2>1, <2>3, PendingMove DEF Phases
  <2>4. CASE /\ chain' = Append(chain, r)
             /\ phase' = [phase EXCEPT ![r] = "receipt"]
             /\ UNCHANGED out
    <3>1. AbstractStatus' = AbstractStatus
      BY <2>1, <2>4, PendingMove DEF Phases
    <3>2. WS!Land(r)
      BY <2>1, <2>2, <2>4, <3>1 DEF WS!Land
    <3>3. QED
      BY <3>2 DEF WS!Next
  <2>5. CASE Answer(r, "SendTransaction") /\ (UNCHANGED chain \/ chain' = Append(chain, r))
    <3>1. WS!SendFailed(r)
      BY <2>1, <2>5, AnswerStep DEF WS!SendFailed
    <3>2. QED
      BY <3>1 DEF WS!Next
  <2>6. QED
    BY <1>5, <2>3, <2>4, <2>5 DEF SendTransaction
<1>6. ASSUME NEW r \in Req, Requeue(r) PROVE UNCHANGED WS!vars
  BY <1>6, PendingMove DEF Requeue, Phases
<1>7. ASSUME NEW r \in Req, TransactionReceipt(r) PROVE [WS!Next]_(WS!vars)
  <2>1. phase[r] = "receipt" /\ UNCHANGED chain
    BY <1>7 DEF TransactionReceipt
  <2>2. WS!Landed(r)
    BY <2>1 DEF RefInv, LandedInv
  <2>3. ASSUME NEW e \in {"TransactionReceipt", "TransactionReceiptStatus", "Success"},
               Answer(r, e)
        PROVE  WS!Reply(r, e)
    BY <2>1, <2>2, <2>3, AnswerStep DEF WS!Reply, WS!NotLandedEvents, WS!LandedEvents
  <2>4. QED
    BY <1>7, <2>3 DEF TransactionReceipt, WS!Next, WS!LandedEvents
<1>8. CASE UNCHANGED vars
  BY <1>8 DEF vars, AbstractStatus
<1>9. QED
  <2>1. ASSUME NEW r \in Req, ExecuteServiceInvalid(r) \/ Submit(r) PROVE [WS!Next]_(WS!vars)
    BY <1>1, <1>2, <2>1 DEF WS!Next
  <2>2. QED
    BY <2>1, <1>3, <1>4, <1>5, <1>6, <1>7, <1>8 DEF Next

\* The wallet owner implements WalletService, for every set of requests,
\* attempt cap, channel capacity and initial pending nonce: no
\* transaction lands twice, and no caller is told a failure before the
\* send about a transaction that landed, or a success about one that
\* did not (client.go:148-411).
THEOREM Refinement == Spec => ImplementsWalletService
<1>1. Init => RefInv
  BY InitRefInv
<1>2. RefInv /\ [Next]_vars => RefInv'
  BY NextRefInv
<1>3. Init => WS!Init
  BY DEF Init, WS!Init, AbstractStatus, AbsPhase
<1>4. RefInv /\ [Next]_vars => [WS!Next]_(WS!vars)
  BY StepSimulation
<1>5. QED
  BY <1>1, <1>2, <1>3, <1>4, PTL DEF Spec, ImplementsWalletService, WS!Spec

=============================================================================
