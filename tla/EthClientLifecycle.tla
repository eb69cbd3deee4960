-------------------------- MODULE EthClientLifecycle --------------------------
(***************************************************************************)
(* The wallet owner of EthClient together with the ends of its life:       *)
(* Stop closes c.inCh and waits for the loop (client.go:143-146), and the  *)
(* context the client was dialled with may be cancelled, which makes the   *)
(* loop return (client.go:129-130).  The loop also returns when it         *)
(* receives from c.inCh closed and drained (client.go:131-134).  A send on *)
(* the closed channel, by a caller of DeployService / ExecuteService or by *)
(* a transaction goroutine retrying after a nonce error, panics, and the   *)
(* panic ends the process: no goroutine takes a step after it.             *)
(***************************************************************************)
EXTENDS EthClient

VARIABLES
    closed,     \* close(c.inCh) has run
    ctxDone,    \* c.ctx is done
    loopDone,   \* the loop goroutine has returned
    panicked    \* which send on the closed channel panicked: "none", "submit", "requeue"

lvars == <<closed, ctxDone, loopDone, panicked>>

allvars == <<vars, lvars>>

LInit ==
    /\ Init
    /\ closed = FALSE
    /\ ctxDone = FALSE
    /\ loopDone = FALSE
    /\ panicked = "none"

\* DeployService / ExecuteService before Stop: as in EthClient.
LSubmit(r) ==
    /\ ~closed
    /\ Submit(r)
    /\ UNCHANGED lvars

\* DeployService / ExecuteService after Stop: c.inCh <- req panics.
SubmitOnClosed(r) ==
    /\ phase[r] = "idle"
    /\ closed
    /\ panicked' = "submit"
    /\ UNCHANGED <<vars, closed, ctxDone, loopDone>>

\* The loop's receive case: buffered requests are still received after
\* close(c.inCh).
LRequest ==
    /\ ~loopDone
    /\ Request
    /\ UNCHANGED lvars

\* A plausible slip: the loop without the !ok test never returns on a
\* closed channel (it spins on zero values instead).
LoopReturnOnCloseMissing == FALSE

\* case req, ok := <-c.inCh with !ok: the channel is closed and drained.
LoopReturnOnClose ==
    /\ ~loopDone
    /\ closed
    /\ inCh = <<>>
    /\ loopDone' = TRUE
    /\ UNCHANGED <<vars, closed, ctxDone, panicked>>

\* case <-c.ctx.Done(): chosen at random when a request is also ready.
LoopReturnOnCtx ==
    /\ ~loopDone
    /\ ctxDone
    /\ loopDone' = TRUE
    /\ UNCHANGED <<vars, closed, ctxDone, panicked>>

\* The goroutine's retry before Stop: as in EthClient.
LRequeue(r) ==
    /\ ~closed
    /\ Requeue(r)
    /\ UNCHANGED lvars

\* The goroutine's retry after Stop: c.inCh <- req panics, also when the
\* goroutine was already blocked on a full channel.
RequeueOnClosed(r) ==
    /\ phase[r] = "requeue"
    /\ closed
    /\ panicked' = "requeue"
    /\ UNCHANGED <<vars, closed, ctxDone, loopDone>>

\* Stop: close(c.inCh); closing twice would panic, Stop is called once.
Stop ==
    /\ ~closed
    /\ closed' = TRUE
    /\ UNCHANGED <<vars, ctxDone, loopDone, panicked>>

\* The owner of the dial context cancels it.
CancelCtx ==
    /\ ~ctxDone
    /\ ctxDone' = TRUE
    /\ UNCHANGED <<vars, closed, loopDone, panicked>>

\* The steps that neither the loop nor c.inCh take part in.
GoroutineStep(r) ==
    /\ \/ ExecuteServiceInvalid(r)
       \/ EstimateGas(r)
       \/ SendTransaction(r)
       \/ TransactionReceipt(r)
    /\ UNCHANGED lvars

LNext ==
    /\ panicked = "none"
    /\ \/ \E r \in Req : \/ LSubmit(r)
                         \/ SubmitOnClosed(r)
                         \/ LRequeue(r)
                         \/ RequeueOnClosed(r)
                         \/ GoroutineStep(r)
       \/ LRequest
       \/ LoopReturnOnClose
       \/ LoopReturnOnCtx
       \/ Stop
       \/ CancelCtx

LSpec == LInit /\ [][LNext]_allvars

\* The loop and the transaction goroutines run while they can; Stop and
\* the cancellation are up to the client's owner.
LFairness ==
    /\ WF_allvars(panicked = "none" /\ LRequest)
    /\ WF_allvars(panicked = "none" /\ LoopReturnOnClose)
    /\ WF_allvars(panicked = "none" /\ LoopReturnOnCtx)
    /\ \A r \in Req : /\ WF_allvars(panicked = "none" /\ (EstimateGas(r) \/ SendTransaction(r)
                                                  \/ TransactionReceipt(r)) /\ UNCHANGED lvars)
                      /\ WF_allvars(panicked = "none" /\ (LRequeue(r) \/ RequeueOnClosed(r)))

LFairSpec == LSpec /\ LFairness

-----------------------------------------------------------------------------

LTypeOK ==
    /\ TypeOK
    /\ closed \in BOOLEAN
    /\ ctxDone \in BOOLEAN
    /\ loopDone \in BOOLEAN
    /\ panicked \in {"none", "submit", "requeue"}

\* Stop returns: once c.inCh is closed the loop drains the buffered
\* requests and returns, so that c.wg.Wait() in Stop (client.go:145) does
\* not block for ever, unless the process panicked first.
StopReturns ==
    closed ~> (loopDone \/ panicked # "none")

\* Stop never crashes the process by itself: once the callers have
\* stopped calling, no transaction goroutine sends on c.inCh after Stop
\* closed it.  A goroutine that got a nonce error before Stop re-enqueues
\* its request (client.go:176) whatever the state of the channel.
NoSendOnClosedChannel ==
    panicked # "requeue"

\* Every caller whose request was queued is answered, also when the
\* client's context is cancelled: the specification (section 5) says
\* that cancellation does not revoke a request and its event still lands.
\* The loop returns on c.ctx.Done() (client.go:129-130) and leaves the
\* requests on c.inCh, and retries blocked on a full channel, behind.
QueuedRequestAnswered ==
    \A r \in Req : phase[r] = "queued" ~> (out[r] # <<>> \/ panicked # "none")

=============================================================================
