# TLA+ verification of the developer gateway

This directory holds TLA+ models of the concurrent core of the developer
gateway (`src/`). It also holds the TLC configurations that check the models
on small instances, and TLAPS proofs of their main invariants, of the
wallet owner's refinement of an abstract contract and of the authentication
guarantee, for every value of the constants.

## 1. Inventory

### Components, their state and operations

| Component | Source | State | Operations |
|---|---|---|---|
| Wallet owner (`EthClient`) | `src/backend/eth/client.go` | `c.nonce`, the request channel `c.inCh` (64 slots), per request `Attempts` and its unbuffered `out` channel, the dial context `c.ctx` | `DeployService`, `ExecuteService`, the loop (`startLoop` → `request` → `runTransaction`), `updateNonce`, the per-transaction goroutine (`executeTransaction`: `estimateGas`, `SignTx`, `SendTransaction`, `TransactionReceipt`, nonce-error requeue), `Stop`, `GetPublicKeyService` (stateless RPC) |
| Connection pool (`FixedConnPool`) | `src/unnamed/part_000` | the request channel `p.c` (64 slots), one loop goroutine per connection, the pool's context | `DialFixedPool` (sequential dials, cancel on failure), `Request`, `startConnLoop` |
| Ekiden backend client | `src/unnamed/part_004` lines 1-173 | none of its own; the account's nonce on the runtime | `DialContext`, `ExecuteService`, `DeployService`, `submitTx` (`createTx`, `generateTx`, `EthereumTransaction`), `GetPublicKey` |
| Authentication | `src/auth/core/http.go`, `src/auth/insecure`, `src/auth/oauth/google.go` | none across requests; per request the AAD put in its context | `HttpMiddlewareAuth.ServeHTTP`, `Authenticate` and `Verify` of the insecure and the Google plugins |
| Mailbox, in-memory server | `src/unnamed/part_001` lines 1-199 | `workers: key → Worker`, `inCh` (64), unbuffered `doneCh` | `Insert`, `Retrieve`, `Discard`, `Next`, routed by the supervisor loop to per-key workers; `removeWorker` |
| Mailbox, Redis client | `src/unnamed/part_001` lines 200-480 | none in the client | one script evaluation per operation |
| Signing worker | `src/wallet/tx/worker.go` | key | incomplete code, dead per the specification |

### How they interact

HTTP handlers pass through the authentication middleware. It authenticates
the request with the configured plugin and puts the resulting AAD in the
request's context. Before the core executes a payload, the plugin's `Verify`
checks the payload against that AAD.

The core calls `DeployService` or `ExecuteService` of a backend client.
For Ethereum, the wallet owner's loop allocates a nonce and hands the
transaction to a goroutine. The goroutine talks to the node and sends one
event on `out`; a nonce error makes it put the request back on `c.inCh`.
The Ekiden client instead signs and submits in the caller's goroutine.
The connection pool serves request/response exchanges for the noise
transport: callers put requests on one channel and any connection loop
answers.

### What is hard

* **Interleaving.** The wallet owner's transactions run in concurrent
  goroutines. Their sends reach the node in any order, while the loop keeps
  allocating nonces and refreshing them on retries.
* **Partial failure and lost replies.** A transaction goroutine can fail
  after its nonce was allocated (gas estimation, signing). A send can fail
  after the node took the transaction (lost reply, expired context).
* **Retries and bounds.** Nonce errors are retried through the same bounded
  channel that callers fill, up to an attempt cap.
* **Shutdown and cancellation.** Contexts are cancelled under pending
  callers (pool, wallet loop), and `Stop` closes a channel that goroutines
  still send on.

## 2. Modules

| Module | Models | Checked by |
|---|---|---|
| `EthClient` | the wallet owner of `client.go`: loop, goroutines, node | `MC_EthClient` (runs `wallet_liveness`, `wallet_nonce_gap`) |
| `WalletService` | the abstract contract of a wallet backend: idle → pending → done, at most one landing per request, events true to the chain | refined by `EthClient` |
| `EthClientLifecycle` | `EthClient` with `Stop`, the cancellation of `c.ctx`, the loop's returns and the panics of sends on a closed channel | `MC_EthClientLifecycle` |
| `EthClientProofs` | TLAPS proofs about `EthClient` | `tlapm` |
| `EthClientLifecycleProofs` | TLAPS proofs about `EthClientLifecycle` | `tlapm` |
| `ConnPool` | `FixedConnPool` of `part_000` | `MC_ConnPool` |
| `ConnPoolProofs` | TLAPS proofs about `ConnPool` | `tlapm` |
| `Ekiden` | the Ekiden client's `submitTx` against the runtime | `MC_Ekiden` |
| `EkidenProofs` | TLAPS proofs about `Ekiden` | `tlapm` |
| `Auth` | `ServeHTTP` with either plugin, per handler goroutine | `MC_Auth` |
| `AuthProofs` | TLAPS proofs about `Auth` | `tlapm` |

### `EthClient`: state and actions

Variables:

* `inCh` is `c.inCh`; `nonce` is `c.nonce`.
* `phase[r]` is where request `r` is: idle, queued, estimating, sending,
  receipt, requeue or done.
* `attempts[r]` counts its nonce errors.
* `txNonce[r]` is the nonce its goroutine was given.
* `out[r]` holds the events sent to its caller.
* `chain` holds the wallet's transactions the node took. The node's pending
  nonce is `PendingNonce0 + Len(chain)`.

| Action | Code |
|---|---|
| `ExecuteServiceInvalid(r)` | `ExecuteService` with an empty address (client.go:267-280) |
| `Submit(r)` | `DeployService`/`ExecuteService` sending on `c.inCh` (257-285) |
| `Request` | the loop receiving and running `runTransaction` (148-170): the cap check (`AttemptsExhausted`), `updateNonce` on a retry (`UpdatedNonce`, or all ten fetches failing), `Allocate` |
| `EstimateGas(r)` | `executeTransaction` up to signing (287-343) |
| `SendTransaction(r)` | `SendTransaction` (345-356): a nonce rejection, the node taking the transaction, another error, or the node taking it while the call still fails |
| `Requeue(r)` | `c.inCh <- req` in the goroutine (172-179) |
| `TransactionReceipt(r)` | the receipt and its status (358-411) |

The node accepts a transaction only with the pending nonce; otherwise it
rejects it with an invalid-nonce error. With the pending nonce the send may
also fail for another reason, or succeed at the node while the caller sees
an error; this is the fault model of a lost reply. Gas estimation, signing
and the receipt fetch may fail at any time. Each `updateNonce` call is one
step: only the loop writes `c.nonce`, and the pending nonce only grows.

### `WalletService` and the refinement

`WalletService` has per request `status` (idle, pending, done), `out` and
`chain`. Its actions:

* `Reject`: an input error before queueing.
* `Call`: the request becomes pending.
* `Land`: a pending request's transaction reaches the chain, once.
* `Reply(r, e)`: the caller gets one event. A before-the-send failure
  requires that the transaction did not land; a success or a receipt
  failure requires that it did.
* `SendFailed`: the send failed, and the chain may or may not have taken
  the transaction.

`EthClient` maps onto it with `AbstractStatus` (idle → idle, done → done,
every other phase → pending). `out` and `chain` map to themselves.
`ImplementsWalletService == WS!Spec` is the refinement property.

### `EthClientLifecycle`

It adds four variables:

* `closed`: `close(c.inCh)` has run.
* `ctxDone`: `c.ctx` is done.
* `loopDone`: the loop goroutine has returned.
* `panicked`: which send on the closed channel panicked, the caller's or the
  goroutine's requeue.

Its actions:

* `Stop` closes the channel.
* `CancelCtx` cancels the dial context.
* `LoopReturnOnClose` and `LoopReturnOnCtx` are the loop's two ways out.
* The loop's receive takes buffered requests also after the close, as Go
  does.
* `SubmitOnClosed` and `RequeueOnClosed` are the panicking sends. After a
  panic no goroutine takes a step.

### `ConnPool`

Variables:

* `status`: the status of `DialFixedPool`.
* `dialed`: the number of connections established.
* `loop[i]`: the state of connection loop `i` (not started, idle, busy or
  exited).
* `serving[i]`, the channel `c`, `caller[x]`.
* `ctxDone`: the pool's context is done.

Actions:

* `DialConnection`: success starts a loop; failure cancels the context.
* `DialReturn`, `Request(x)`.
* `ConnLoopReceive(i)` and `ConnLoopExit(i)`: the two arms of the select.
* `ConnLoopReply(i)`.
* `CancelParent`: enabled by the constant `ParentCancels`.

### `Ekiden`

Each call goes through these phases:

1. `Call`: `ExecuteService` or `DeployService` enters `submitTx`.
2. `GenerateTx`: signing or RLP encoding may fail.
3. `EthereumTransaction`: the runtime takes the transaction iff its nonce
   is the account's nonce (`Len(chain)`). Otherwise the call returns
   `ErrEkidenSubmitTx`. With the constant `RuntimeUnreliable` the call may
   also fail for another reason (the network, an expired `ctx`), before
   or after the runtime took the transaction.

`TxNonce(r) == 0` is `createTx`. The run sets `RuntimeUnreliable` to
FALSE, so that every failure it shows is due to the client. The proof
covers both values.

### `Auth`

A request is abstracted to four fields:

* its credentials: the insecure plugin's header value, or a Google ID token
  that is valid or not, for a user whose email is verified or not;
* whether it has a session key;
* the AAD in its payload (or none, for an empty payload);
* its API (`Execute` or `Deploy`).

Per handler goroutine, `ServeHTTP` authenticates the request and checks its
session key. It then either answers Forbidden or passes the request to the
core with the AAD. `VerifyPayload` is the core's call of the plugin's
`Verify`, which is modelled from the specification because the core is not
in `src/`. `Finish` frees the handler. `ProvenUser` is the user the
credentials really prove: the reference the properties compare against.

## 3. Runs

| Run | Config | Checks | Shows |
|---|---|---|---|
| `wallet_liveness` | `MC_EthClient_live.cfg` | `EveryRequestAnswered`, `ImplementsWalletService` | pass: every caller is answered under fairness; every behaviour, lost replies included, implements `WalletService` |
| `wallet_nonce_gap` | `MC_EthClient_gap.cfg` | `NonceMatchesCommitted` | violation: the local nonce runs ahead of the chain for good |
| `wallet_stop` | `MC_EthClientLifecycle_stop.cfg` | `LTypeOK`, `RequestAccounting`, `DistinctInFlightNonces`, `StopReturns` | pass: each request is in one place and answered once; goroutines never share a nonce; after `Stop` the loop returns |
| `wallet_stop_panics` | `MC_EthClientLifecycle_panic.cfg` | `NoSendOnClosedChannel` | violation: a retrying goroutine sends on the channel `Stop` closed |
| `wallet_cancel_strands` | `MC_EthClientLifecycle_cancel.cfg` | `QueuedRequestAnswered` | violation: cancelling `c.ctx` strands queued callers |
| `pool_safety` | `MC_ConnPool_safety.cfg` | `TypeOK`, `PoolAccounting` | pass: each waiting request is on `p.c` once or run by one loop |
| `pool_liveness` | `MC_ConnPool_live.cfg` | `EveryRequestServed` | pass while the pool's context is live |
| `pool_cancel_strands` | `MC_ConnPool_cancel.cfg` | `EveryRequestServed` | violation: cancelling the context strands queued callers |
| `pool_dial_leak` | `MC_ConnPool_leak.cfg` | `NoConnLeftOnDialFailure` | violation: connections left open after a failed dial |
| `ekiden_nonce` | `MC_Ekiden_nonce.cfg` | `SubmittedTransactionLands` | violation: the wallet's second transaction is rejected for its nonce |
| `auth_google` | `MC_Auth_google.cfg` | `ExecutedAsProvenUser` | pass: OAuth requests run only as the verified user of the token, with that user's AAD |
| `auth_insecure_aad` | `MC_Auth_insecure.cfg` | `ExecutedAsProvenUser` | violation: the insecure plugin runs a payload with another user's AAD |

Every property of a passing run has a mutant in `PROJECT.json`: a plausible
bug in the mapped code (a dropped guard, a missing test, a retry where the
code answers) under which TLC finds that property violated.

### Bounds

* **Wallet.**
  * Three requests: two can be in flight while the third waits or retries.
  * A channel of two slots, so that callers and a retrying goroutine block
    on a full channel.
  * An attempt cap of three in `wallet_stop` (1,015,650 states) and two in
    the liveness run, so that `ExecuteFailed` and the refresh path are both
    reached.
  * A pending nonce of 1 at dial time, so that the first send is rejected as
    in the code's start from nonce 0.
  * The nonce grows by at most one per allocation, and allocations are
    bounded by requests × attempts.
* **Pool.** Two connections, so that two exchanges overlap and a second dial
  can fail after a first one succeeded. Three callers over a two-slot
  channel.
* **Ekiden.** Three concurrent calls. One landed transaction is enough to
  make every later one fail.
* **Auth.**
  * Two users, so that an AAD can be someone else's.
  * Two handler goroutines.
  * Every combination of credentials, session key, AAD and API is an input.
  * Users and handlers are symmetric.

### Fairness

* **Wallet.** `Request` (the loop) and each transaction goroutine's actions
  are weakly fair: they are goroutines that run whenever they can. Callers
  are not, since a caller need not call. In the lifecycle, `Stop` and the
  cancellation are not fair, because they are up to the client's owner.
  The loop's two returns and the goroutines' steps are weakly fair while no
  panic occurred.
* **Pool.** The dial loop and every connection loop are weakly fair; the
  cancellation of the parent context is not.
* **Ekiden.** Each caller's steps are weakly fair.

Go's `select` picks at random among ready cases. Weak fairness of each arm
is what Go's scheduler gives in practice.

Deadlock checking is off in every run. Once every request is answered, the
loops wait forever on their channels, which is the program's idle state.

### Findings

* **`client.go:168`.** The nonce is allocated before gas estimation, and it
  is lost when estimation or signing fails, or when goroutines send out of
  order. `updateNonce` only raises the counter, so after one such event
  every later transaction is rejected for its nonce (`wallet_nonce_gap`).
* **`client.go:177`.** `Stop` closes `c.inCh` while a goroutine that got a
  nonce error re-enqueues on it. The send panics and takes the process down
  (`wallet_stop_panics`).
* **`client.go:130`.** When `c.ctx` is done the loop returns and leaves the
  requests still on `c.inCh` unanswered, against the specification's
  "exactly one event per request" (`wallet_cancel_strands`).
* **`part_000:55`.** Cancelling the pool's context strands the callers
  whose requests are still on the channel (`pool_cancel_strands`).
* **`part_000:70`.** A failed dial leaves the established connections open
  (`pool_dial_leak`).
* **`part_004:149`.** The Ekiden client creates every transaction with
  nonce 0. After the wallet's first transaction, every submission is
  rejected (`ekiden_nonce`).
* **`insecure.go:36`.** `InsecureAuth.Verify` ignores `expectedAAD`
  (`auth_insecure_aad`).
* **Noted without a run.**
  * Transactions of one wallet run concurrently (`client.go:171`), unlike
    the specification's one-in-flight owner.
  * `GoogleOauth.Authenticate` returns `(*http.Request, error)` while the
    middleware's plugin interface expects the AAD string. The model takes
    the email it puts in the context as that AAD.

## 4. Proofs

Each theorem holds for every value of the constants that the module's
`ASSUME` allows. Its inductive invariant was first checked with TLC as an
invariant on the instance of a run of the same module.

* **`EthClientProofs`** (all finite request sets, attempt caps, channel
  capacities and initial pending nonces):
  * `TypeCorrect: Spec => []TypeOK`.
    * `TypeOK` is not inductive: `SendTransaction` increments
      `attempts[r]`, which stays within the cap only because a goroutine
      holding a nonce was allocated below the cap.
    * Invariant: `TypeInv == TypeOK /\ AttemptsLeftInFlight`.
  * `InFlightNoncesDistinct: Spec => []DistinctInFlightNonces`.
    * Invariant: `NonceInv == TypeInv /\ DistinctInFlightNonces`.
    * `Allocate` hands out a nonce of at least `c.nonce`, because the
      refresh takes a maximum, while every held nonce is below `c.nonce`.
    * Every other step keeps `c.nonce` and `txNonce`.
  * `RequestsAccounted: Spec => []RequestAccounting`.
    * Invariant: `AccInv == TypeInv /\ RequestAccounting`.
    * Lemmas `AppendQueue` and `TailQueue`: appending a request that is not
      on the queue, or taking the head, keeps the queue free of duplicates
      and changes membership by exactly that request.
    * The step proof has one case per action. The answer-sending steps
      share one sub-step.
  * `Refinement: Spec => ImplementsWalletService`.
    * Invariant: `RefInv == AccInv /\ OutInv /\ LandedInv`.
    * `OutInv`: a caller has no event before its request is done.
    * `LandedInv`: a request in the receipt phase has landed, and one that
      has not yet been sent has not. This is why a receipt failure may be
      reported as a landed event and a before-the-send failure as a
      not-landed one.
    * `StepSimulation` maps every `EthClient` step to `Reject`, `Call`,
      `Land`, `Reply`, `SendFailed` or a stutter. The lost-reply send maps
      to `SendFailed` with the chain grown.
* **`EthClientLifecycleProofs`** (the same constants):
  * `LNextNext: [LNext]_allvars => [Next]_vars`. Every lifecycle step is an
    `EthClient` step or leaves its variables alone: `Stop`, the
    cancellation, the loop's returns and the panicking sends only change
    the four flags. So `TypeInv`, `NonceInv`, `AccInv` and `RefInv` carry
    over. This gives `LifecycleTypeCorrect` (`LTypeOK`),
    `LifecycleRequestsAccounted`, `LifecycleNoncesDistinct` and
    `LifecycleRefinement`. The last one says
    that the lifecycle, with its stranded requests and panics, still
    implements `WalletService`.
* **`EkidenProofs`** (all finite call sets, reliable runtime or not):
  * `EkidenLandsAtMostOne: Spec => [](Len(chain) <= 1)`. This is the
    `ekiden_nonce` finding for any number of calls: with nonce 0 only the
    first transaction can land, also when the runtime loses replies.
  * Invariant: `EkidenInv`, which adds that the chain holds calls. Only
    `EthereumTransaction` appends, and only when the nonce, 0, is the
    length of the chain.
* **`ConnPoolProofs`** (all pool sizes, caller sets and channel
  capacities, cancellable or not):
  * `PoolTypeCorrect: Spec => []TypeOK`.
  * `RequestsPlaced: Spec => []PoolAccounting`.
    * Invariant: `AccInv`, which adds that the loops beyond `dialed` have
      not started (`NotStarted`), since otherwise a dial could overwrite a
      busy loop, and that a busy loop serves a real caller (`BusyServes`).
    * Lemmas `AppendNoDup` and `TailNoDup` are stated for any set `S`.
* **`AuthProofs`** (all sets of users and handlers, Google plugin):
  * `GoogleExecutesOnlyProvenUsers: Spec => []ExecutedAsProvenUser`, with
    the Google plugin.
    * Invariant: `AuthInv`. A handler in the core holds a request that
      passed `ServeHTTP`, with `expected = Authenticate(req)`. An executed
      request also passed `Verify`.
    * `GoogleAuthInvSafe` derives the property from `AuthInv`.

**Only model-checked:**

* The liveness properties (`EveryRequestAnswered`, `StopReturns`,
  `EveryRequestServed`): TLAPS here does not reason about fairness or
  `ENABLED`.
* The violated properties (`NoSendOnClosedChannel`,
  `QueuedRequestAnswered`, `NonceMatchesCommitted`,
  `SubmittedTransactionLands`, `NoConnLeftOnDialFailure`): the runs give
  the counterexamples.
* The insecure plugin, for which `ExecutedAsProvenUser` fails.

## 5. Not modelled, and why

* **`GetPublicKeyService`, Ekiden's `GetPublicKey`, the plugins' `Name`,
  `Stats` and `SetLogger`.** None of them changes state. `SetLogger` even
  has a value receiver.
* **The in-memory mailbox.** The supervisor loop routes to per-key
  `Worker`s whose code (their channel, idle timeout and `Stop`) is not in
  the source tree. The interesting question, a request routed to a worker
  that timed out and is deregistering, turns on that missing code.
* **The Redis mailbox.** Its operations are Lua scripts that are not in the
  source tree. The client only decodes their answers.
* **The signing worker `wallet/tx/worker.go`.** It is incomplete: its
  fields are left as a TODO and it does not compile. The specification
  treats it as dead code.
* **Logging, metrics (`stats.MethodTracker`) and JSON encoding of events.**
* **The callback dispatcher of the specification.** It is not in this
  source tree.
