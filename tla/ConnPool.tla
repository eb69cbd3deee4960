------------------------------ MODULE ConnPool ------------------------------
(***************************************************************************)
(* The fixed connection pool of src/unnamed/part_000 (package noise).      *)
(* DialFixedPool dials Conns connections one after the other and starts a  *)
(* loop goroutine for each (startConnLoop); on the first failed dial it    *)
(* cancels the pool's context and returns the error.  Request puts the     *)
(* caller's request on the shared channel p.c and blocks on its own error  *)
(* channel; whichever connection loop receives the request runs it and     *)
(* sends the result back.  A loop stops when the pool's context is done.   *)
(* The exchange on a connection is abstracted: it always returns.          *)
(***************************************************************************)
EXTENDS Naturals, Sequences

CONSTANTS
    Conns,          \* props.Conns
    Callers,        \* the goroutines that call Request
    ChanCap,        \* the capacity of p.c (64 in DialFixedPool)
    ParentCancels,  \* whether the context the pool was dialled with may be cancelled
    NoCaller        \* the value of serving[i] while loop i runs no request

ASSUME ConnPoolAssumption ==
    /\ Conns \in Nat
    /\ ChanCap \in Nat \ {0}
    /\ ParentCancels \in BOOLEAN
    /\ NoCaller \notin Callers

Conn == 1..Conns

VARIABLES
    status,     \* DialFixedPool: "dialing", "ready" (pool returned), "failed"
    dialed,     \* the number of connections established so far
    loop,       \* loop[i]: "none" (not started), "idle", "busy", "exited"
    serving,    \* serving[i]: the caller whose request loop i runs
    c,          \* p.c, the requests waiting for a connection
    caller,     \* caller[x]: "idle", "queued" (in Request), "answered"
    ctxDone     \* the pool's context is done

vars == <<status, dialed, loop, serving, c, caller, ctxDone>>

-----------------------------------------------------------------------------

Init ==
    /\ status = "dialing"
    /\ dialed = 0
    /\ loop = [i \in Conn |-> "none"]
    /\ serving = [i \in Conn |-> NoCaller]
    /\ c = <<>>
    /\ caller = [x \in Callers |-> "idle"]
    /\ ctxDone = FALSE

\* A plausible slip in the dial loop: i <= props.Conns for i < props.Conns.
DialConnectionOffByOne ==
    /\ status = "dialing"
    /\ dialed <= Conns
    /\ \/ /\ dialed' = dialed + 1
          /\ loop' = [j \in Conn |-> IF j = dialed + 1 THEN "idle" ELSE loop[j]]
          /\ UNCHANGED <<status, ctxDone>>
       \/ /\ status' = "failed"
          /\ ctxDone' = TRUE
          /\ UNCHANGED <<dialed, loop>>
    /\ UNCHANGED <<serving, c, caller>>

\* One iteration of the dial loop: DialContext either succeeds, and the
\* connection's loop is started, or fails, and the pool's context is
\* cancelled.  The connections already established are not closed.
DialConnection ==
    /\ status = "dialing"
    /\ dialed < Conns
    /\ \/ /\ dialed' = dialed + 1
          /\ loop' = [loop EXCEPT ![dialed + 1] = "idle"]
          /\ UNCHANGED <<status, ctxDone>>
       \/ /\ status' = "failed"
          /\ ctxDone' = TRUE
          /\ UNCHANGED <<dialed, loop>>
    /\ UNCHANGED <<serving, c, caller>>

\* The dial loop has run Conns times: DialFixedPool returns the pool.
DialReturn ==
    /\ status = "dialing"
    /\ dialed = Conns
    /\ status' = "ready"
    /\ UNCHANGED <<dialed, loop, serving, c, caller, ctxDone>>

\* Request: p.c <- request{...} blocks while the channel is full; the
\* caller then waits on its error channel.
Request(x) ==
    /\ status = "ready"
    /\ caller[x] = "idle"
    /\ Len(c) < ChanCap
    /\ c' = Append(c, x)
    /\ caller' = [caller EXCEPT ![x] = "queued"]
    /\ UNCHANGED <<status, dialed, loop, serving, ctxDone>>

\* The select of startConnLoop: a request from p.c ...
ConnLoopReceive(i) ==
    /\ loop[i] = "idle"
    /\ c # <<>>
    /\ serving' = [serving EXCEPT ![i] = Head(c)]
    /\ c' = Tail(c)
    /\ loop' = [loop EXCEPT ![i] = "busy"]
    /\ UNCHANGED <<status, dialed, caller, ctxDone>>

\* A plausible slip: a loop that also watches ctx.Done() while its
\* connection runs a request, and returns without sending the result.
ConnLoopExitWhileBusy(i) ==
    /\ loop[i] \in {"idle", "busy"}
    /\ ctxDone
    /\ loop' = [loop EXCEPT ![i] = "exited"]
    /\ UNCHANGED <<status, dialed, serving, c, caller, ctxDone>>

\* ... or ctx.Done(), whichever is ready (Go picks at random when both are).
ConnLoopExit(i) ==
    /\ loop[i] = "idle"
    /\ ctxDone
    /\ loop' = [loop EXCEPT ![i] = "exited"]
    /\ UNCHANGED <<status, dialed, serving, c, caller, ctxDone>>

\* A plausible slip: a non-blocking send of the result that is dropped
\* when the caller is not receiving at that instant.
ConnLoopReplyDropped(i) ==
    /\ loop[i] = "busy"
    /\ \E delivered \in BOOLEAN :
          caller' = IF delivered THEN [caller EXCEPT ![serving[i]] = "answered"]
                                 ELSE caller
    /\ serving' = [serving EXCEPT ![i] = NoCaller]
    /\ loop' = [loop EXCEPT ![i] = "idle"]
    /\ UNCHANGED <<status, dialed, c, ctxDone>>

\* req.Error <- conn.Request(...): the caller receives the result.
ConnLoopReply(i) ==
    /\ loop[i] = "busy"
    /\ caller' = [caller EXCEPT ![serving[i]] = "answered"]
    /\ serving' = [serving EXCEPT ![i] = NoCaller]
    /\ loop' = [loop EXCEPT ![i] = "idle"]
    /\ UNCHANGED <<status, dialed, c, ctxDone>>

\* The context the pool was dialled with is cancelled by its owner.
CancelParent ==
    /\ ParentCancels
    /\ ~ctxDone
    /\ ctxDone' = TRUE
    /\ UNCHANGED <<status, dialed, loop, serving, c, caller>>

Next ==
    \/ DialConnection
    \/ DialReturn
    \/ \E x \in Callers : Request(x)
    \/ \E i \in Conn : ConnLoopReceive(i) \/ ConnLoopExit(i) \/ ConnLoopReply(i)
    \/ CancelParent

Spec == Init /\ [][Next]_vars

\* DialFixedPool and every started connection loop keep running.
Fairness ==
    /\ WF_vars(DialConnection)
    /\ WF_vars(DialReturn)
    /\ \A i \in Conn : /\ WF_vars(ConnLoopReceive(i))
                       /\ WF_vars(ConnLoopExit(i))
                       /\ WF_vars(ConnLoopReply(i))

FairSpec == Spec /\ Fairness

-----------------------------------------------------------------------------

TypeOK ==
    /\ status \in {"dialing", "ready", "failed"}
    /\ dialed \in 0..Conns
    /\ loop \in [Conn -> {"none", "idle", "busy", "exited"}]
    /\ serving \in [Conn -> Callers \cup {NoCaller}]
    /\ c \in Seq(Callers)
    /\ Len(c) <= ChanCap
    /\ caller \in [Callers -> {"idle", "queued", "answered"}]
    /\ ctxDone \in BOOLEAN

\* Every request is in exactly one place while its caller blocks on
\* <-err, and nowhere once it was answered: once on p.c, or run by
\* exactly one connection loop.  So a loop's req.Error <- ... (part_000:62)
\* always has its caller receiving, and no caller is answered twice or
\* left without a loop that owes it the answer.  A loop that returned
\* with a request in hand, or a request received by two loops, breaks it.
PoolAccounting ==
    /\ \A k, l \in 1..Len(c) : c[k] = c[l] => k = l
    /\ \A i, j \in Conn : loop[i] = "busy" /\ loop[j] = "busy" /\ serving[i] = serving[j] => i = j
    /\ \A x \in Callers :
           /\ caller[x] = "queued" <=>
                 \/ \E k \in 1..Len(c) : c[k] = x
                 \/ \E i \in Conn : loop[i] = "busy" /\ serving[i] = x
           /\ ~ /\ \E k \in 1..Len(c) : c[k] = x
                /\ \E i \in Conn : loop[i] = "busy" /\ serving[i] = x

\* Every caller of Request gets its result: the request is eventually
\* picked up by some connection loop and answered (startConnLoop,
\* part_000:52-65).
EveryRequestServed ==
    \A x \in Callers : caller[x] = "queued" ~> caller[x] = "answered"

\* The specification (section 4.1): when the initial establishment fails,
\* all the connections already established are closed.  The dial loop
\* returns on the first error (part_000:35-38) and only cancels the context.
NoConnLeftOnDialFailure ==
    status = "failed" => dialed = 0

=============================================================================
