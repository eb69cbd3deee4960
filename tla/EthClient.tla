------------------------------ MODULE EthClient ------------------------------
(***************************************************************************)
(* The wallet owner of src/backend/eth/client.go: one EthClient per       *)
(* private key.  Callers of DeployService / ExecuteService put a request   *)
(* on the buffered channel c.inCh and block on the request's own unbuffered *)
(* out channel.  A single loop goroutine (startLoop) takes requests off    *)
(* c.inCh and runs runTransaction: it checks the attempt cap, refreshes    *)
(* the nonce on a retry (updateNonce), allocates c.nonce and then runs the *)
(* transaction itself (estimate gas, sign, send, fetch the receipt) in a   *)
(* goroutine of its own.  A send error that mentions "nonce" makes that    *)
(* goroutine increment the attempts and put the request back on c.inCh.   *)
(*                                                                         *)
(* The backend account is abstracted to the list of the wallet's accepted  *)
(* transactions, chain; its pending nonce is PendingNonce0 + Len(chain).   *)
(* The backend accepts a transaction only when its nonce is the pending    *)
(* nonce and otherwise rejects it with an invalid-nonce error.             *)
(***************************************************************************)
EXTENDS Naturals, Sequences, FiniteSets

CONSTANTS
    Req,            \* the requests callers submit, by their id
    MaxAttempts,    \* the attempt cap of runTransaction (10 in the code)
    InChCap,        \* the capacity of c.inCh (64 in Dial)
    PendingNonce0   \* the account's pending nonce when the client is dialled

ASSUME ConstantsAssumption ==
    /\ IsFiniteSet(Req)
    /\ MaxAttempts \in Nat \ {0}
    /\ InChCap \in Nat \ {0}
    /\ PendingNonce0 \in Nat

\* The events a caller can receive on its out channel (or, for an empty
\* address, as ExecuteService's return value), named by their error code.
Events == {"Success", "InputError", "ExecuteFailed", "UpdateNonceFailed",
           "EstimateGas", "SignedTx", "SendTransaction",
           "TransactionReceipt", "TransactionReceiptStatus"}

\* Where a request is: not yet submitted, on c.inCh, in its transaction
\* goroutine before / at SendTransaction, waiting for its receipt, blocked
\* re-enqueueing itself after a nonce error, or answered.
Phases == {"idle", "queued", "estimating", "sending", "receipt",
           "requeue", "done"}

VARIABLES
    inCh,       \* c.inCh, the requests buffered for the loop
    nonce,      \* c.nonce, the next nonce the loop allocates
    phase,      \* phase[r]: where request r is
    attempts,   \* attempts[r]: r.Attempts
    txNonce,    \* txNonce[r]: the nonce handed to r's transaction goroutine
    out,        \* out[r]: the events sent to r's caller
    chain       \* the wallet's transactions the backend accepted, in order

vars == <<inCh, nonce, phase, attempts, txNonce, out, chain>>

\* What PendingNonceAt returns for the wallet's address.
PendingNonce == PendingNonce0 + Len(chain)

\* The requests whose goroutine holds an allocated nonce it has not yet
\* had accepted or rejected.
InFlight == {r \in Req : phase[r] \in {"estimating", "sending"}}

-----------------------------------------------------------------------------

Init ==
    /\ inCh = <<>>
    /\ nonce = 0
    /\ phase = [r \in Req |-> "idle"]
    /\ attempts = [r \in Req |-> 0]
    /\ txNonce = [r \in Req |-> 0]
    /\ out = [r \in Req |-> <<>>]
    /\ chain = <<>>

\* Sending event e on r's out channel ends r's processing.  The caller is
\* blocked on the channel, so the send completes at once.
Answer(r, e) ==
    /\ out' = [out EXCEPT ![r] = Append(@, e)]
    /\ phase' = [phase EXCEPT ![r] = "done"]

\* ExecuteService with an empty address: answered at once, nothing queued.
ExecuteServiceInvalid(r) ==
    /\ phase[r] = "idle"
    /\ Answer(r, "InputError")
    /\ UNCHANGED <<inCh, nonce, attempts, txNonce, chain>>

\* DeployService, or ExecuteService with an address: the caller blocks
\* until c.inCh has room, then waits on out.
Submit(r) ==
    /\ phase[r] = "idle"
    /\ Len(inCh) < InChCap
    /\ inCh' = Append(inCh, r)
    /\ phase' = [phase EXCEPT ![r] = "queued"]
    /\ UNCHANGED <<nonce, attempts, txNonce, out, chain>>

\* nonce := n; c.nonce++; go fn(nonce, req).
Allocate(r, n) ==
    /\ txNonce' = [txNonce EXCEPT ![r] = n]
    /\ nonce' = n + 1
    /\ phase' = [phase EXCEPT ![r] = "estimating"]
    /\ UNCHANGED out

\* A plausible slip in updateNonce: taking the backend's value without
\* comparing it with the local counter.
UpdatedNonceUnconditional == PendingNonce

\* The value updateNonce leaves in c.nonce when a PendingNonceAt call
\* succeeds: the local counter never goes down.
UpdatedNonce == IF nonce < PendingNonce THEN PendingNonce ELSE nonce

\* A plausible slip in the cap test: > for >=.  It lets a request make
\* one attempt more than the cap.
AttemptsExhaustedLate(r) == attempts[r] > MaxAttempts

\* req.GetAttempts() >= 10: the request has used up its attempts.
AttemptsExhausted(r) == attempts[r] >= MaxAttempts

\* The loop takes the head of c.inCh and runs runTransaction on it:
\* the attempt cap, the nonce refresh on a retry (all ten PendingNonceAt
\* calls may fail), the allocation of the nonce.
Request ==
    /\ inCh # <<>>
    /\ inCh' = Tail(inCh)
    /\ LET r == Head(inCh) IN
       \/ /\ AttemptsExhausted(r)
          /\ Answer(r, "ExecuteFailed")
          /\ UNCHANGED <<nonce, txNonce>>
       \/ /\ ~AttemptsExhausted(r)
          /\ attempts[r] = 0
          /\ Allocate(r, nonce)
       \/ /\ ~AttemptsExhausted(r)
          /\ attempts[r] > 0
          /\ Allocate(r, UpdatedNonce)
       \/ /\ ~AttemptsExhausted(r)
          /\ attempts[r] > 0
          /\ Answer(r, "UpdateNonceFailed")
          /\ UNCHANGED <<nonce, txNonce>>
    /\ UNCHANGED <<attempts, chain>>

\* executeTransaction up to SendTransaction: estimateGas, then SignTx.
\* Either may fail; the allocated nonce is not given back.
EstimateGas(r) ==
    /\ phase[r] = "estimating"
    /\ \/ Answer(r, "EstimateGas")
       \/ Answer(r, "SignedTx")
       \/ /\ phase' = [phase EXCEPT ![r] = "sending"]
          /\ UNCHANGED out
    /\ UNCHANGED <<inCh, nonce, attempts, txNonce, chain>>

\* SendTransaction and the goroutine's handling of its error: a nonce
\* error increments the attempts and makes the goroutine re-enqueue the
\* request; any other error is the request's answer.  The node may also
\* take the transaction while the call still fails (the reply is lost or
\* the request's context expires first): the caller is then told
\* SendTransaction about a transaction that is on the chain.
SendTransaction(r) ==
    /\ phase[r] = "sending"
    /\ \/ /\ txNonce[r] # PendingNonce
          /\ attempts' = [attempts EXCEPT ![r] = @ + 1]
          /\ phase' = [phase EXCEPT ![r] = "requeue"]
          /\ UNCHANGED <<out, chain>>
       \/ /\ txNonce[r] = PendingNonce
          /\ chain' = Append(chain, r)
          /\ phase' = [phase EXCEPT ![r] = "receipt"]
          /\ UNCHANGED <<out, attempts>>
       \/ /\ txNonce[r] = PendingNonce
          /\ Answer(r, "SendTransaction")
          /\ UNCHANGED <<attempts, chain>>
       \/ /\ txNonce[r] = PendingNonce
          /\ chain' = Append(chain, r)
          /\ Answer(r, "SendTransaction")
          /\ UNCHANGED attempts
    /\ UNCHANGED <<inCh, nonce, txNonce>>

\* Two plausible slips in the retry branch of the goroutine: a missing
\* return after c.inCh <- req, so that the caller is also sent the send
\* error; and a non-blocking send that drops the request when the channel
\* is full.
RequeueFallThrough(r) ==
    /\ phase[r] = "requeue"
    /\ Len(inCh) < InChCap
    /\ inCh' = Append(inCh, r)
    /\ out' = [out EXCEPT ![r] = Append(@, "SendTransaction")]
    /\ phase' = [phase EXCEPT ![r] = "queued"]
    /\ UNCHANGED <<nonce, attempts, txNonce, chain>>

RequeueDropWhenFull(r) ==
    /\ phase[r] = "requeue"
    /\ inCh' = IF Len(inCh) < InChCap THEN Append(inCh, r) ELSE inCh
    /\ phase' = [phase EXCEPT ![r] = "queued"]
    /\ UNCHANGED <<nonce, attempts, txNonce, out, chain>>

\* c.inCh <- req in the goroutine: blocks while the channel is full.
Requeue(r) ==
    /\ phase[r] = "requeue"
    /\ Len(inCh) < InChCap
    /\ inCh' = Append(inCh, r)
    /\ phase' = [phase EXCEPT ![r] = "queued"]
    /\ UNCHANGED <<nonce, attempts, txNonce, out, chain>>

\* A plausible slip: the receipt error returned as fn's error, as the send
\* error is, so that one that mentions "nonce" re-enqueues a request whose
\* transaction is already on the chain.
TransactionReceiptRetry(r) ==
    /\ phase[r] = "receipt"
    /\ \/ /\ attempts[r] < MaxAttempts
          /\ attempts' = [attempts EXCEPT ![r] = @ + 1]
          /\ phase' = [phase EXCEPT ![r] = "requeue"]
          /\ UNCHANGED out
       \/ /\ Answer(r, "Success")
          /\ UNCHANGED attempts
    /\ UNCHANGED <<inCh, nonce, txNonce, chain>>

\* TransactionReceipt and the status check after an accepted send.
TransactionReceipt(r) ==
    /\ phase[r] = "receipt"
    /\ \/ Answer(r, "TransactionReceipt")
       \/ Answer(r, "TransactionReceiptStatus")
       \/ Answer(r, "Success")
    /\ UNCHANGED <<inCh, nonce, attempts, txNonce, chain>>

Next ==
    \/ \E r \in Req : ExecuteServiceInvalid(r) \/ Submit(r)
    \/ Request
    \/ \E r \in Req : \/ EstimateGas(r)
                      \/ SendTransaction(r)
                      \/ Requeue(r)
                      \/ TransactionReceipt(r)

Spec == Init /\ [][Next]_vars

\* The loop goroutine and every transaction goroutine keep running while
\* they can; callers are not obliged to submit.
Fairness ==
    /\ WF_vars(Request)
    /\ \A r \in Req : /\ WF_vars(EstimateGas(r))
                      /\ WF_vars(SendTransaction(r))
                      /\ WF_vars(Requeue(r))
                      /\ WF_vars(TransactionReceipt(r))

FairSpec == Spec /\ Fairness

-----------------------------------------------------------------------------

TypeOK ==
    /\ inCh \in Seq(Req)
    /\ Len(inCh) <= InChCap
    /\ nonce \in Nat
    /\ phase \in [Req -> Phases]
    /\ attempts \in [Req -> 0..MaxAttempts]
    /\ txNonce \in [Req -> Nat]
    /\ out \in [Req -> Seq(Events)]
    /\ chain \in Seq(Req)

\* Every submitted request is in exactly one place, so that its caller is
\* answered exactly once: a queued request is on c.inCh exactly once, a
\* request in any other phase is not on it, and a caller has received one
\* event once its request is done and none before.  A goroutine that both
\* re-enqueued a request and answered it, or re-enqueued it twice, breaks
\* this (client.go:171-188).
RequestAccounting ==
    /\ \A i, j \in 1..Len(inCh) : inCh[i] = inCh[j] => i = j
    /\ \A r \in Req : phase[r] = "queued" <=> \E i \in 1..Len(inCh) : inCh[i] = r
    /\ \A r \in Req : Len(out[r]) = IF phase[r] = "done" THEN 1 ELSE 0

\* No two transaction goroutines ever hold the same nonce, and each holds
\* one below c.nonce: a retry's updateNonce (client.go:208-223) must not
\* move c.nonce back onto a nonce that a goroutine started by an earlier
\* runTransaction still holds.
DistinctInFlightNonces ==
    \A r, s \in InFlight : /\ txNonce[r] < nonce
                           /\ r # s => txNonce[r] # txNonce[s]

\* The wallet owner as its callers see it: a request is pending from the
\* moment it is queued until its caller got the event.
AbsPhase(p) == CASE p = "idle" -> "idle"
                  [] p = "done" -> "done"
                  [] OTHER -> "pending"

AbstractStatus == [r \in Req |-> AbsPhase(phase[r])]

WS == INSTANCE WalletService WITH status <- AbstractStatus

\* The wallet owner implements WalletService: every transaction lands at
\* most once, and the event each caller gets is true to the chain (no
\* ExecuteFailed, UpdateNonceFailed, EstimateGas or SignedTx for a
\* transaction the node took; no Success or receipt error for one it did
\* not).  Breaking it takes a goroutine that retries after its transaction
\* landed, or an answer sent from the wrong step (client.go:148-189).
ImplementsWalletService == WS!Spec

\* Every caller of DeployService / ExecuteService eventually receives an
\* event, whatever the backend answers: nonce errors are retried only a
\* bounded number of times (client.go:149-155) and every other outcome is
\* sent on out.
EveryRequestAnswered ==
    \A r \in Req : phase[r] # "idle" ~> out[r] # <<>>

\* The specification (section 3): the wallet's nonce equals the number of
\* transactions the owner has committed to submit, i.e. the backend's
\* pending nonce plus the transactions allocated and not yet sent.  The
\* loop allocates the nonce before the goroutine estimates gas
\* (client.go:168-172), and never gives it back.
NonceMatchesCommitted ==
    nonce = PendingNonce + Cardinality(InFlight)

=============================================================================
