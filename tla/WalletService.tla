---------------------------- MODULE WalletService ----------------------------
(***************************************************************************)
(* What the wallet owner promises its callers (DeployService and          *)
(* ExecuteService of src/backend/eth/client.go), with the nonce handling,  *)
(* the loop and the goroutines abstracted away.  A request is idle,        *)
(* pending (its caller waits) or done (its caller got its one event).      *)
(* While it is pending its transaction may land on the chain, at most      *)
(* once.  The event a caller gets tells the truth about the transaction:   *)
(* an event reporting a failure before the send means it did not land; a   *)
(* success or a receipt failure means it did; a failed send is ambiguous,  *)
(* because the node may have taken the transaction before the reply was    *)
(* lost.                                                                   *)
(***************************************************************************)
EXTENDS Naturals, Sequences

CONSTANT Req

VARIABLES
    status,     \* status[r]: "idle", "pending", "done"
    out,        \* out[r]: the events r's caller received
    chain       \* the transactions of the wallet the chain took, in order

vars == <<status, out, chain>>

\* Events that report a failure before the transaction reached the node.
NotLandedEvents == {"ExecuteFailed", "UpdateNonceFailed", "EstimateGas", "SignedTx"}

\* Events that report on a transaction the node took.
LandedEvents == {"Success", "TransactionReceipt", "TransactionReceiptStatus"}

Landed(r) == \E i \in 1..Len(chain) : chain[i] = r

Init ==
    /\ status = [r \in Req |-> "idle"]
    /\ out = [r \in Req |-> <<>>]
    /\ chain = <<>>

\* A call rejected before it is queued (ExecuteService without address).
Reject(r) ==
    /\ status[r] = "idle"
    /\ status' = [status EXCEPT ![r] = "done"]
    /\ out' = [out EXCEPT ![r] = <<"InputError">>]
    /\ UNCHANGED chain

\* A call accepted: the caller waits for its event.
Call(r) ==
    /\ status[r] = "idle"
    /\ status' = [status EXCEPT ![r] = "pending"]
    /\ UNCHANGED <<out, chain>>

\* The transaction of a pending request lands, once.
Land(r) ==
    /\ status[r] = "pending"
    /\ ~Landed(r)
    /\ chain' = Append(chain, r)
    /\ UNCHANGED <<status, out>>

\* The caller of a pending request gets its one event, true to the chain.
Reply(r, e) ==
    /\ status[r] = "pending"
    /\ e \in NotLandedEvents => ~Landed(r)
    /\ e \in LandedEvents => Landed(r)
    /\ status' = [status EXCEPT ![r] = "done"]
    /\ out' = [out EXCEPT ![r] = <<e>>]
    /\ UNCHANGED chain

\* The send of a pending request's transaction fails, and its caller is
\* told so; the node may have taken the transaction all the same.
SendFailed(r) ==
    /\ status[r] = "pending"
    /\ ~Landed(r)
    /\ status' = [status EXCEPT ![r] = "done"]
    /\ out' = [out EXCEPT ![r] = <<"SendTransaction">>]
    /\ chain' \in {chain, Append(chain, r)}

Next ==
    \E r \in Req :
        \/ Reject(r)
        \/ Call(r)
        \/ Land(r)
        \/ \E e \in NotLandedEvents \cup LandedEvents : Reply(r, e)
        \/ SendFailed(r)

Spec == Init /\ [][Next]_vars

=============================================================================
