-------------------------------- MODULE Ekiden --------------------------------
(***************************************************************************)
(* The Ekiden backend client of src/unnamed/part_004 (package ekiden).     *)
(* ExecuteService and DeployService run synchronously in the caller's      *)
(* goroutine: submitTx creates the transaction (createTx), signs and       *)
(* encodes it (generateTx) and hands it to the runtime                     *)
(* (EthereumTransaction), whose error is the caller's answer.  Callers run *)
(* concurrently and nothing orders them.  The node takes a transaction     *)
(* when its nonce is the account's nonce, the number of the wallet's       *)
(* transactions already on the chain, and rejects it otherwise.  With     *)
(* RuntimeUnreliable the call may also fail for another reason (the        *)
(* network, an expired ctx), before or after the runtime took the          *)
(* transaction; the run ekiden_nonce sets it FALSE, so that every failure  *)
(* it shows is a nonce rejection.                                          *)
(***************************************************************************)
EXTENDS Naturals, Sequences

CONSTANTS
    Req,                \* the calls of ExecuteService / DeployService, for one wallet
    RuntimeUnreliable   \* TRUE: EthereumTransaction may fail for other reasons

VARIABLES
    phase,      \* phase[r]: "idle", "signing", "submitting", "done"
    out,        \* out[r]: what the call returned, <<>> while it runs
    chain       \* the wallet's transactions the runtime took, in order

vars == <<phase, out, chain>>

Landed(r) == \E i \in 1..Len(chain) : chain[i] = r

\* createTx: every transaction is created with nonce 0.
TxNonce(r) == 0

\* DialContext: the client is built once both dials succeeded.
Init ==
    /\ phase = [r \in Req |-> "idle"]
    /\ out = [r \in Req |-> <<>>]
    /\ chain = <<>>

\* ExecuteService / DeployService: the call enters submitTx.
Call(r) ==
    /\ phase[r] = "idle"
    /\ phase' = [phase EXCEPT ![r] = "signing"]
    /\ UNCHANGED <<out, chain>>

Return(r, e) ==
    /\ phase' = [phase EXCEPT ![r] = "done"]
    /\ out' = [out EXCEPT ![r] = <<e>>]

\* generateTx: SignTx or EncodeRLP may fail, and submitTx returns the error.
GenerateTx(r) ==
    /\ phase[r] = "signing"
    /\ \/ Return(r, "EkidenSignTx")
       \/ Return(r, "EkidenEncodeRLPTx")
       \/ /\ phase' = [phase EXCEPT ![r] = "submitting"]
          /\ UNCHANGED out
    /\ UNCHANGED chain

\* runtime.EthereumTransaction: the runtime takes the transaction when its
\* nonce is the account's, and the call returns the response; otherwise
\* the call returns ErrEkidenSubmitTx.  An unreliable runtime may also
\* fail the call, having taken the transaction (a lost reply) or not.
EthereumTransaction(r) ==
    /\ phase[r] = "submitting"
    /\ \/ /\ TxNonce(r) = Len(chain)
          /\ chain' = Append(chain, r)
          /\ Return(r, "Success")
       \/ /\ TxNonce(r) # Len(chain)
          /\ Return(r, "EkidenSubmitTx")
          /\ UNCHANGED chain
       \/ /\ RuntimeUnreliable = TRUE
          /\ TxNonce(r) = Len(chain)
          /\ chain' \in {chain, Append(chain, r)}
          /\ Return(r, "EkidenSubmitTx")

Next ==
    \E r \in Req : Call(r) \/ GenerateTx(r) \/ EthereumTransaction(r)

Spec == Init /\ [][Next]_vars

\* Every caller runs its call to the end; callers need not call.
Fairness == \A r \in Req : WF_vars(GenerateTx(r)) /\ WF_vars(EthereumTransaction(r))

FairSpec == Spec /\ Fairness

-----------------------------------------------------------------------------

\* A transaction the client signed and handed to a reliable node is
\* executed.  The specification (sections 3, 4.2 and 8) has the owner of a
\* wallet allocate each transaction the next nonce of its counter, so that
\* the wallet's successful submissions carry the nonces 0, 1, 2, ...;
\* createTx (part_004:144-155) gives every transaction nonce 0, so once
\* one transaction of the wallet landed the node rejects all the others.
SubmittedTransactionLands ==
    \A r \in Req : phase[r] = "submitting" ~> Landed(r)

=============================================================================
