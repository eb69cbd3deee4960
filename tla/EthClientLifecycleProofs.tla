----------------------- MODULE EthClientLifecycleProofs -----------------------
(***************************************************************************)
(* Proofs about the wallet owner with Stop and context cancellation, for   *)
(* every set of requests, attempt cap, channel capacity and initial        *)
(* pending nonce.  The argument: every step of EthClientLifecycle is a     *)
(* step of EthClient or leaves EthClient's variables alone (Stop, the      *)
(* cancellation, the loop's return and a panicking send only change the    *)
(* lifecycle's own flags), so the inductive invariants proved in           *)
(* EthClientProofs carry over unchanged.                                   *)
(***************************************************************************)
EXTENDS EthClientLifecycle, EthClientProofs

\* The lifecycle flags keep their types.
LFlagsOK ==
    /\ closed \in BOOLEAN
    /\ ctxDone \in BOOLEAN
    /\ loopDone \in BOOLEAN
    /\ panicked \in {"none", "submit", "requeue"}

LEMMA LInitInit == LInit => Init /\ LFlagsOK
  BY DEF LInit, LFlagsOK

\* A lifecycle step is a step of the wallet owner of EthClient, or leaves
\* its variables unchanged.
LEMMA LNextNext == [LNext]_allvars => [Next]_vars
<1> SUFFICES ASSUME [LNext]_allvars PROVE [Next]_vars
  OBVIOUS
<1>1. ASSUME NEW r \in Req, LSubmit(r) PROVE Next
  BY <1>1 DEF LSubmit, Next
<1>2. ASSUME NEW r \in Req, LRequeue(r) PROVE Next
  BY <1>2 DEF LRequeue, Next
<1>3. ASSUME NEW r \in Req, GoroutineStep(r) PROVE Next
  BY <1>3 DEF GoroutineStep, Next
<1>4. CASE LRequest
  BY <1>4 DEF LRequest, Next
<1>5. ASSUME NEW r \in Req, SubmitOnClosed(r) \/ RequeueOnClosed(r) PROVE UNCHANGED vars
  BY <1>5 DEF SubmitOnClosed, RequeueOnClosed
<1>6. CASE LoopReturnOnClose \/ LoopReturnOnCtx \/ Stop \/ CancelCtx
  BY <1>6 DEF LoopReturnOnClose, LoopReturnOnCtx, Stop, CancelCtx
<1>7. CASE UNCHANGED allvars
  BY <1>7 DEF allvars
<1> QED
  BY <1>1, <1>2, <1>3, <1>4, <1>5, <1>6, <1>7 DEF LNext

LEMMA LNextFlags == LFlagsOK /\ [LNext]_allvars => LFlagsOK'
  BY DEF LFlagsOK, LNext, LSubmit, SubmitOnClosed, LRequest, LoopReturnOnClose,
         LoopReturnOnCtx, LRequeue, RequeueOnClosed, Stop, CancelCtx,
         GoroutineStep, allvars, lvars

-----------------------------------------------------------------------------

\* Every state of the wallet owner with Stop and cancellation is well
\* typed: closing c.inCh or cancelling c.ctx leaves no request with more
\* attempts than runTransaction's cap.
THEOREM LifecycleTypeCorrect == LSpec => []LTypeOK
<1>1. LInit => TypeInv /\ LFlagsOK
  BY LInitInit, InitTypeInv
<1>2. TypeInv /\ LFlagsOK /\ [LNext]_allvars => TypeInv' /\ LFlagsOK'
  BY LNextNext, NextTypeInv, LNextFlags
<1>3. TypeInv /\ LFlagsOK => LTypeOK
  BY DEF TypeInv, LFlagsOK, LTypeOK
<1> QED
  BY <1>1, <1>2, <1>3, PTL DEF LSpec

\* Stop and cancellation keep every submitted request in exactly one
\* place (client.go:128-188 with 143-146).
THEOREM LifecycleRequestsAccounted == LSpec => []RequestAccounting
<1>1. LInit => AccInv
  BY LInitInit, InitAccInv
<1>2. AccInv /\ [LNext]_allvars => AccInv'
  BY LNextNext, NextAccInv
<1> QED
  BY <1>1, <1>2, PTL DEF LSpec, AccInv

\* Stop and cancellation keep the nonces of the transaction goroutines
\* distinct and below c.nonce (client.go:168, 208-223).
THEOREM LifecycleNoncesDistinct == LSpec => []DistinctInFlightNonces
<1>1. LInit => NonceInv
  BY LInitInit, InitNonceInv
<1>2. NonceInv /\ [LNext]_allvars => NonceInv'
  BY LNextNext, NextNonceInv
<1> QED
  BY <1>1, <1>2, PTL DEF LSpec, NonceInv

\* The wallet owner with Stop and cancellation still implements
\* WalletService: closing c.inCh, cancelling c.ctx or a panicking send
\* strands requests but never lands a transaction twice or answers a
\* caller against the chain.
THEOREM LifecycleRefinement == LSpec => ImplementsWalletService
<1>1. LInit => RefInv
  BY LInitInit, InitRefInv
<1>2. RefInv /\ [LNext]_allvars => RefInv'
  BY LNextNext, NextRefInv
<1>3. LInit => WS!Init
  BY LInitInit DEF Init, WS!Init, AbstractStatus, AbsPhase
<1>4. RefInv /\ [LNext]_allvars => [WS!Next]_(WS!vars)
  BY LNextNext, StepSimulation
<1> QED
  BY <1>1, <1>2, <1>3, <1>4, PTL DEF LSpec, ImplementsWalletService, WS!Spec

=============================================================================
