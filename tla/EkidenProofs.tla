----------------------------- MODULE EkidenProofs -----------------------------
(***************************************************************************)
(* Proofs about the Ekiden backend client, for every set of calls and      *)
(* whether or not the runtime fails calls for other reasons (lost replies  *)
(* included).  The run ekiden_nonce shows on three calls that a submitted  *)
(* transaction may never land; here the consequence of createTx's          *)
(* constant nonce is proved for any number of calls: at most one           *)
(* transaction of the wallet ever lands.                                   *)
(***************************************************************************)
EXTENDS Ekiden, SequenceTheorems, TLAPS

\* At most one of the wallet's transactions is on the chain.
AtMostOneLanded == Len(chain) <= 1

\* The inductive strengthening: the chain holds calls.
EkidenInv == chain \in Seq(Req) /\ AtMostOneLanded

LEMMA InitEkidenInv == Init => EkidenInv
  BY EmptySeq DEF Init, EkidenInv, AtMostOneLanded

\* Appending to an empty chain gives a chain of one call.
LEMMA AppendEmpty ==
    ASSUME NEW S, NEW s \in Seq(S), Len(s) = 0, NEW x \in S
    PROVE  Append(s, x) \in Seq(S) /\ Len(Append(s, x)) = 1
  BY AppendProperties

LEMMA NextEkidenInv == EkidenInv /\ [Next]_vars => EkidenInv'
<1> SUFFICES ASSUME EkidenInv, [Next]_vars PROVE EkidenInv'
  OBVIOUS
\* Only EthereumTransaction moves the chain, and it appends only when the
\* transaction's nonce, 0, is the length of the chain.
<1>1. ASSUME NEW r \in Req, chain' = Append(chain, r), TxNonce(r) = Len(chain)
      PROVE  EkidenInv'
  <2>1. Len(chain) = 0
    BY <1>1 DEF TxNonce
  <2> QED
    BY <1>1, <2>1, AppendEmpty DEF EkidenInv, AtMostOneLanded
<1>2. CASE UNCHANGED chain
  BY <1>2 DEF EkidenInv, AtMostOneLanded
<1>3. ASSUME NEW r \in Req, EthereumTransaction(r) PROVE EkidenInv'
  BY <1>1, <1>2, <1>3 DEF EthereumTransaction
<1> QED
  BY <1>2, <1>3 DEF Next, Call, GenerateTx, vars

\* For any number of concurrent calls of ExecuteService / DeployService on
\* one wallet, and whether or not the runtime loses replies, at most one
\* transaction ever lands, because createTx signs every transaction with
\* nonce 0 (part_004:144-155): the finding of the run ekiden_nonce, for
\* every instance.
THEOREM EkidenLandsAtMostOne == Spec => []AtMostOneLanded
<1>1. Init => EkidenInv
  BY InitEkidenInv
<1>2. EkidenInv /\ [Next]_vars => EkidenInv'
  BY NextEkidenInv
<1> QED
  BY <1>1, <1>2, PTL DEF Spec, EkidenInv

=============================================================================
