# Velyxora exchange: TLA+ models, model checking and proofs

The repository is a cryptocurrency exchange: a Go matching engine, an HTTP
gateway, a wallet service and shared packages around PostgreSQL, Kafka and
Redis, with a web frontend. This directory holds TLA+ specifications of its
core, the TLC configurations that check them on small instances, and TLAPS
proofs of the properties that matter most.

## 1. The system

### Components, state, operations

| Component | State | Operations | Correct when |
|---|---|---|---|
| Matching core (`engine/matcher.go`) | price levels of FIFO queues, stop orders, last price, sequence number, self-trade mode; one mutex per market | `MatchOrder`, `CancelOrder`, `AddStopOrder`, `AddOrderToBookDirect`, `SetSTPMode` | price-time priority, no crossed book, fills equal trades, modifiers (FOK, IOC, post-only) keep their word |
| OMS (`oms_router.go`, `oms_state.go`, `oms_validators.go`) | one `AdvancedOrder` per order with its lifecycle status and `FilledQty` | `ProcessIncomingOrder`, `CancelOrder`, `ReplaceOrder`, `MassCancel` | a dead order is out of the book, final states stay, every trade is cleared, holds are released once |
| Risk engine (`risk.go`) | holds in memory and `balances.reserved` in PostgreSQL, limits, halts | `ValidateOrder`, `ReleaseHold`, `SetHaltStatus`, `ForceLiquidate` | what is reserved is released or spent exactly once |
| Execution engine (`execution.go`), fees (`fees.go`) | executions, fast balance sheet, fee tiers | `ProcessTrades`, `CalculateFeeForUser` | fees and holds agree with settlement |
| Settlement engine (`settlement.go`) | memory queue, `settlements_queue` (outbox), `balances`, `ledger_entries` | `QueueSettlement`, `ProcessQueue`, `executeSettlementTransaction` | each trade applied exactly once, double entry, columns and ledger reconcile, nothing queued is lost |
| Positions (`position.go`) | positions, margin | apply fill, mark, liquidate, ADL | no double liquidation, PnL conserved |
| Liquidity bridge (`liquidity_bridge.go`) | provider books, incident counters | hedge, failover | an order is never on the book and at a provider |
| Wallet worker (`wallet-service`) | scanner pointer, tracked addresses, deposits, balances, ledger; the replicas take no leader lock | `ScanBlocks`, `ConfirmDeposits` | no payment passed over, each deposit credited once and only when deep enough |
| Withdrawals (`backend/main.go`, `common/blockchain_tx.go`) | `withdrawals` and `blockchain_transactions` rows, nonces of the hot wallet | request, save stage, broadcast, poll, confirm | a payment is on record before it is sent, the status shown is true, a request ends |
| Compliance (`security/compliance.go`) | per replica: KYC profiles and restrictions; in PostgreSQL their rows, alerts, travel-rule records | `SubmitKYC`, `CheckWithdrawalAllowed`, `EvaluateAML`, `RegisterTravelRule` | what leaves in a day is within the user's tier; fast sequences are reported |
| Sessions, API keys, lockout (`sessions.go`, `apikeys.go`, `rbac.go`, `limits.go`) | `user_sessions`, `user_api_keys`, `brute_force_lockouts`; in Redis revoked sessions, rotated tokens, used nonces | log in, refresh, revoke, use, sign | a revocation is final, a live token is not taken for a reused one, the cap and the lockout count, a signed request is served once |
| Order handlers and idempotency (`oms_handlers.go`) | `idempotency_records`, the topic `velyxora-orders` | create, cancel, replace, retry | a request acts once and its retries get its answer; an acknowledged order is not lost |
| Consumer and operator controls (`matching-engine/main.go`, `api.go`, `risk.go`) | `orders`, `risk_controls` and the copies in memory | read event, submit, validate, halt, block, suspend | an order enters the book once; a halt holds in every process |
| Custody engine (`custody`), advisory locks | wallet state, approvals | approve, sign | no payment without its approvals; only tests call it, no service does |
| WebSocket gateway, candles, statistics | subscriptions, queues, read models | publish, subscribe | a slow client delays nobody |
| Keys, disaster recovery, migrations, frontend | | | not modelled, see section 7 |

### Interactions

An HTTP handler or the Kafka consumer runs `ProcessIncomingOrder` in its own
goroutine: state machine, validators, risk hold (one SQL transaction),
matcher (one mutex), liquidity bridge, `ProcessTrades`, one `QueueSettlement`
per trade, then `ProcessQueue`, which drains every pending job of every
goroutine. Only afterwards are the `FilledQty` and the status of the taker and
of its makers updated. `CancelOrder` runs in other goroutines and takes no
lock that spans its three steps. Stop orders that a trade triggers re-enter
`MatchOrder` in goroutines that nobody waits for. PostgreSQL is the only state
that survives a restart.

The wallet service runs as two replicas (`infrastructure/kubernetes/wallet-service.yaml`)
whose scanner and confirmation loops work on the same tables and the same
scanner pointer. The gateway runs in replicas too. Its withdraw handler
asks the compliance engine of its own process, stores a row and starts one
goroutine per request; these goroutines share the hot wallet's nonces, wait for
no approval and are not started again after a crash.

An order reaches the engine through Kafka: the gateway's handler, behind the
idempotency middleware, publishes an event and answers; the engine's consumer
commits the offset on reading, then stores the order, validates it and hands it
to the book. Operators halt trading, block users or suspend markets at either
service; the other one learns of it from the table `risk_controls`.

### What is hard here

Interleaving of order placement with cancellation and with other takers'
clearing; SQL calls whose errors are dropped; a commit whose answer is lost;
crashes between the outbox and its processing; two drains of one queue; exits
from the middle of the matching loop; values read before and used after another
goroutine's update; caches in Redis and in each process beside the tables they
copy; retries that meet the request they repeat. `PROJECT.json` lists these as hazards, each at its line and
with the properties that would catch it.

## 2. Plan

1. `Settlement`, its abstract specification `AtomicSettlement`, and
   `SettlementProofs` (done).
2. `Matcher` with `MatcherProofs` (done).
3. `OMSRouter`, which composes the lifecycle with `Matcher`, and
   `OMSRouterProofs`, which composes their proofs (done).
4. `WalletDeposits` with `WalletDepositsProofs`, and `Withdrawals` with
   `Compliance` and `WithdrawalsProofs` (done).
5. `Access`: sessions, refresh tokens, lockout, API keys, with `AccessProofs`
   (done).
6. `OrderGateway`: idempotency, Kafka, the consumer and the operator controls,
   with `OrderGatewayProofs` (done).
7. `Fees`: the executions that settlement clears, computed as the fees engine
   does (done).
8. The WebSocket hub: the hub's lock, the clients' locks and queues, and
   blocked writes.
9. `RiskHolds`: reservations per asset through placement, fill, rejection,
   cancellation and restart.
10. Candles checked against a reference definition. Positions, custody and the
   liquidity bridge follow when a service uses them.

Every invariant and every action property that a passing run checks is also a
theorem. Left for the proofs: what `Fees!ExecutionOf` guarantees of the trades
it computes, so that the hypotheses of `ColumnsReconcile` and `TotalsReconcile`
become lemmas about fees and holds.

## 3. Modules

| Module | Models |
|---|---|
| `Settlement` | trade clearing after a match: release of holds, outbox, queue draining, SQL transaction, failures, crash |
| `AtomicSettlement` | what clearing promises: each trade changes the totals once, at once |
| `SettlementProofs` | TLAPS proofs about `Settlement` |
| `Matcher` | the order book of one market |
| `MatcherProofs` | TLAPS proofs about `Matcher` |
| `OMSRouter` | order lifecycle and goroutines around an `INSTANCE` of `Matcher` |
| `OMSRouterProofs` | TLAPS proofs about `OMSRouter`, over an `INSTANCE` of `MatcherProofs` |
| `WalletDeposits` | deposits in the wallet service: chain, scanner, confirmations, connection pool, several replicas |
| `WalletDepositsProofs` | TLAPS proofs about `WalletDeposits` |
| `Withdrawals` | the withdraw handler on several replicas, its goroutines, the two tables and the node; extends `Compliance` |
| `Compliance` | the compliance engine of each replica and its tables, for one user |
| `WithdrawalsProofs` | TLAPS proofs about `Withdrawals` |
| `Access` | logins, lockout, sessions, refresh tokens, API keys, and the checks of an authenticated request |
| `AccessProofs` | TLAPS proofs about `Access` |
| `OrderGateway` | idempotency, order handlers, Kafka, the engine's consumer, operator controls |
| `OrderGatewayProofs` | TLAPS proofs about `OrderGateway` |
| `Fees` | the fees engine as operators |
| `Sums` | lemmas about sums over finite sets, with their proofs |
| `MCSettlement`, `MCMatcher`, `MCOMSRouter`, `MCWalletDeposits`, `MCWithdrawals`, `MCAccess`, `MCOrderGateway` | instances for TLC |

Definitions keep the names of the Go functions. Operators whose name starts
with `Bug` are deliberate faults; no specification uses them. They document
what the properties are able to detect.

### Settlement

Amounts are integers in the smallest unit. The database is the variables
`live, available, reserved, total, outbox, ledger` (an `UPDATE` of a row that
does not exist changes nothing and is no error, an upsert creates it). The
process is `memQueue, archive, pc, holds, legs, batch`; `Crash` resets it.
One action is one SQL call or one transaction; a transaction either takes effect
entirely (`Commit`) or not at all. `Fault` is a call that fails, bounded by
`MaxFaults`: in `ReleaseHold` (error dropped), in the INSERT of the outbox
(dropped), in the SELECT of `ProcessQueue` (falls back to memory), in the
transaction (retry count), in the transaction and the retry mark, and in the
answer to a COMMIT that took effect. A second transaction for a trade fails on
the primary key of `ledger_entries`.

`outboxReady` says whether `settlements_queue` has the column `updated_at`. The
migrations create it without, and the INSERT names it, so in a database built by
the migrations the INSERT always fails. Both tables are checked.

The double-entry check at the head of the loop of `ProcessQueue` is the guard
`DoubleEntry` of the transaction; the lemma `DoubleEntryPasses` shows that in
exact arithmetic it refuses no trade. The union of the batch with the memory queue is
modelled as written: when the table yields any row the memory queue is dropped.

The trades of the instance are computed by `Fees!ExecutionOf`, as `ProcessTrades`
does: the tier by the volume of thirty days, an overriding rate, the fee of each
side, and for a user who asks for it 75 % of its worth in VLX if the balance is
enough. Fees are truncated to the smallest unit. No service links a risk engine
to the fees engine, so in production as configured every fee is in the quote
asset; the instance keeps a VLX fee because settlement has legs for it.

### Matcher

`levels` and `queue` are `Bids` and `Asks`; a level may exist with an empty
queue because the code can leave one. `taker` is the order whose `MatchOrder`
holds the mutex; each iteration of its loops is a step, which no other
operation interleaves. `triggered` holds stop orders whose goroutine waits for
the mutex. `Bridged` orders are taken off the book and put back, as the
liquidity-bridge branch of the router does (`oms_router.go` 290-303 and 376-379),
without being matched again. Two parts of that branch are left out: the fills at
the provider, which change `FilledQty` without the mutex, and that the router
ignores the result of `m.CancelOrder`, so that an order cancelled by its user
between the return of `MatchOrder` and that call would be put on the book again.
No service sets a bridge, only tests do; what is proved of `Bridged` orders holds
for orders nobody cancels in that gap. In the `oms` runs `Bridged` is empty.
`seq` is `SequenceNum`; `trades` and `entry` are history for the properties.
Prices and quantities are integers: the `==` on floats by which the code
decides that an order is filled is exact here.

### OMSRouter

Each order has a goroutine that places it (`pc`) and possibly one that cancels
it (`cpc`). `TransitionOrder` is applied with its error dropped, as the router
does; where the router looks at the error (`StartValidation`, `CancelTransition`),
the UPDATE may fail although the status in memory has changed, and the goroutine
ends there. The updates of a maker's `FilledQty` are a separate load and store
because nothing locks them. `held` counts, per order, the quantity for which
funds are reserved. The verdict of the validators and of the risk engine is
nondeterministic. `ReplaceOrder` is a cancellation followed by a placement.

A cancellation applies to an order the state machine knows (`Known`), whether a
user, `MassCancel` or `ReplaceOrder` asks for it.

### WalletDeposits

A worker is one replica's select loop: it is `idle` or inside one `ScanBlocks`
or one `ConfirmDeposits`, whose locals are a record (`latest`, `at`, `end`,
`known`, `todo`, ...). Each SQL statement or node call whose result another
replica can change is a step; a credit is two, the `SELECT ... FOR UPDATE`
(`BeginCredit`) and the statements up to COMMIT (`Credit`), because the value
read is used in the second. `FOR UPDATE` locks nothing when the row does not
exist, so two replicas can both find no row; the second INSERT then fails
(`CreditRefused`). A failed statement aborts the transaction and frees its
locks, but `defer tx.Rollback` stands inside the loop: the connection returns to
the pool only when `ConfirmDeposits` returns. `kept` counts these connections;
with `PoolSize` of them the next call waits for a connection that only its own
return gives back, and the context has no deadline.

`LoadAddresses` is a read of all addresses. `getTrackedAddresses` never asks
`rows.Err()`, so a read that breaks off returns some of the addresses, or none,
without an error, and the scan goes on: `AddressesCutShort`. The payments such a
scan does not see are recorded in `missed`, like those whose INSERT failed.

A user stands for the user's one address; one chain is modelled, which never
reorganises. A replica re-enters its loop after `Crash`, which counts among the
`MaxFaults`.

### Withdrawals and Compliance

`pc` is the place of each goroutine in `ProcessBlockchainTransaction`; `row` and
`btx` are the statuses in `withdrawals` and `blockchain_transactions`, written
by separate statements. `SaveFails` is a save whose error ends the goroutine,
`IgnoredFailure` one whose error is dropped. The node is external: it hands out
the pending nonce, accepts a transaction with a free nonce or one that replaces
a pending transaction of the same nonce, refuses the others, and its answer may
be lost (`lost`), as an error or as an empty hash. In the production adapter the
hash is computed before the transaction is sent, so an empty one does not occur;
the branch that records it is kept because the code has it. `PollTimeout` is the
end of the polling loop.

Before the INSERT the handler passes through `Compliance`: `Request` is
`CheckWithdrawalAllowed` (restriction, daily limit, sanctions verdict), then the
amount rule, the velocity rule and its MONITOR restriction, then the travel
rule. The engine of each replica has maps of its own which are read before the
tables and are empty after a restart; a failing query counts as no withdrawals,
as in the code. `SubmitKYC` gives the requested tier at once, in review or not,
because `ReviewKYC` has no caller. The total a request has read is a value of
the moment: `outdated` marks requests that another one overtook before their own
INSERT, and `LimitsHold` excuses these and nothing else. Deposits arrive
meanwhile (`DetectDeposit`); `seen` is the number of them in the COUNT of each
request. Nobody but the withdraw handler evaluates the velocity rule
(`backend/main.go:847`): deposits that arrive after the last withdrawal are
looked at by no rule, and the property speaks of what a withdrawal has seen.

### Access

`run[h]` is the request of a goroutine with its locals and its place; a step is
one SQL statement, one Redis call or one COMMIT. A login checks the lockout of
the e-mail and of the address, and either counts a failure for both (a read and a
write each) or resets them and creates a session (count, evict, insert). A
refresh asks Redis whether the token was rotated, and either revokes all
sessions of its user or finds the session, marks the old token and commits the
new one. A request with a session asks Redis, then PostgreSQL, then RBAC. A
signed request looks its nonce up, sets it and looks its key up; the entry in
Redis is for the key and the nonce together (`Uses`).

Two kinds of request pass the first check unverified. A refresh token has the
signature of an access token and may be sent in its place: it has no session id,
and `main.go:1355` looks up a revocation only if there is one
(`BearerRefreshToken`). A request with `X-API-KEY` that lacks the signature, the
timestamp or the nonce goes on without claims (`UnsignedRequest`). Both reach the
handlers with an empty user id: RBAC refuses it on every route that has RBAC, and
the routes without it find no session, no key and no user. `RevocationIsFinal`
states what is left: revoked credentials act for nobody. A refresh token
is its user and the second it was signed in, since nothing else enters it; two
tokens of one second are equal. `RedisLoss` empties Redis, `Crash` ends the
requests and refills Redis as `ReconstructRedisCache` does, `DatabaseFails` is a
statement that fails. `dead` is what a request relies on and was revoked
when it arrived: a request that overlaps its revocation may be served.

### OrderGateway

An attempt is one HTTP request: `LookupRecord`, `InsertRecord` (the table's key
decides between two attempts), the handler, `CompleteRecord`. Each handler
publishes with a possible failure, with or without effect. A success does not
mean that a broker has the event: the writer leaves `RequiredAcks` at its zero
value, `RequireNone` (`kafka.go` 24-30), so `Publish` may also return nil with
nothing stored (`unstored`). The INSERT of a record may take effect and its answer
be lost. The consumer is
`worker`: `ReadEvent` (offset committed), `CommitFails` (the commit inside
`ReadMessage` fails, with or without effect, and the consumer ends), `SubmitOrder` (the INSERT, whose error
is a panic that restarts the engine), `ValidateOrder` (re-reads the controls,
and keeps its copy when a read fails) and `EnterBook`. `ValidateOrder` reads three
rows and takes the hold in one step of the model: an order passes each control at
the moment its row is read, and a control set after that, in the code between
two of the SELECTs, lets it through. `ControlsHold` is to be read so. Cancellation events are
read and ignored, as the code does. `SetControl` and `PersistControl` are the
two halves of an operator's call: memory, then the row, whose error is dropped.
`standing` is the set of controls a call set and acknowledged, with its row
written, and no later call lifts.

## 4. Runs

| Run | Shows | Distinct states |
|---|---|---|
| `settlement` | two workers, two trades in opposite directions (one seller fee in VLX), three faults, one crash, both tables: exactly once, ledger and balances agree, every asset sums to zero per trade, outbox rows leave only by settling, refinement of `AtomicSettlement`, and progress | 38,798 |
| `settlement_outbox_schema` | violation: a queued trade has no durable row with the migrated schema | |
| `settlement_double_release` | violation: one trade without any failure leaves `reserved` negative | |
| `matcher` | six orders of every kind arriving in any order with cancellations, all self-trade modes and the bridge | 123,749 |
| `oms` | four orders placed, cancelled and replaced concurrently, with a stop order | 105,648 |
| `oms_stop_trades` | violation: trades of a triggered stop order are never cleared | |
| `oms_cancel_release` | violation: cancelling between a fill and its bookkeeping releases a hold twice | |
| `deposits` | two replicas, two payments to one user without a balance row, one failing call, broken-off address read or restart: each deposit credited once, only when deep, none passed over but as the code does, and credited in the end | 436,367 |
| `withdrawals` | two requests on two replicas, one above the basic tier, a deposit meanwhile, one fault, one crash: on record before it is sent, statuses true, limits and velocity rule kept, every request resolved | 818,225 |
| `access` | two users, two goroutines, two sessions, one key, four requests, one fault: revoked credentials act for nobody, live tokens not marked, cap, lockout, signed requests once | 1,943,438 |
| `gateway` | two attempts, one key, two bodies, one control, two operator calls, two faults or crashes: handled once, same answer, entered once, not lost once stored, no orphaned record, controls hold | 2,606,467 |
| `gateway_publish` | violation: an order is acknowledged although no broker has its event | |

Bounds. Two trades and two workers are what is needed for one worker to claim
the other's job and for a job to be settled while another worker holds it;
`MaxRetries = 1` (3 in the code) lets a job be retried and given up within
three faults; one crash separates every pair of steps. In `matcher` two price
levels and quantities up to 3 give partial fills, multi-level sweeps and equal
prices; alice and bob have orders on both sides, carol's fill-or-kill meets
only other users. In `oms` a buy that fills against two sells, one of which is
cancelled and replaced by a stop, gives a maker with concurrent takers.

In `deposits` one user without a row is the case in which two replicas race to
create it; `Threshold = 2` of three blocks gives deposits that are marked before
they are credited; `Window = 1` makes a scan end before the head; `PoolSize = 1`
reaches the exhausted pool; one fault separates every pair of steps. The run
checks liveness and so uses no symmetry. In `withdrawals`
two requests are enough to share a nonce, and their amounts (600 and 9,600) are
each within a limit and together above it; with three deposits to begin with and
one more, the second request is the fifth transaction only if it sees the new
deposit. One fault and one crash together reach a lost answer followed by a
crash. In `access` `MaxSessions = 1` and
`MaxFailures = 2` (5 and 5 in the code) let the cap and the lock be reached
within four requests; two sessions and two seconds give rotations with equal and
with different tokens. In `gateway` two attempts with one key are a request and its
retry, and two faults reach a publish that took effect and is answered by an error
followed by a crash. Users and goroutines, attempts, keys and bodies are
interchangeable there; neither run checks liveness.

The type invariant is a conjunct of one property in `matcher` (`BookWellFormed`),
`oms` (`DeadOrdersAreOut`), `withdrawals` (`StatusIsTrue`), `access`
(`SessionCap`) and `gateway` (`ProcessingHasOwner`).

Deadlock is not checked: a system without further orders, payments or requests
stops, and a wallet service whose replicas are all out of connections does too.

Fairness. `Settlement`: weak fairness of each worker, the Go scheduler runs a
goroutine that can run, and a goroutine never waits for another except on a
mutex that is released at the end of the call. `OMSRouter`: the same for every
placing goroutine and for the holder of the matcher's mutex. `WalletDeposits`:
weak fairness of a replica inside a call and of mining, strong fairness of the
two tickers, because Go's `select` chooses at random among the cases that are
ready and so takes neither of them for ever. `Withdrawals`: weak fairness of
the goroutines and of the chain, which mines and buries what it accepted.
Cancellations, arrivals, timeouts, faults and crashes have none. `SettledOrGivenUp` is claimed only
while no call failed: the code calls `ProcessQueue` after a trade and nowhere
else, so a failed job waits for the next trade, which may never come.

## 5. What the violations show

* `settlement_outbox_schema`: the outbox INSERT names a column that does not
  exist; trades live in memory only. The theorem `OutboxDurable` shows that
  adding the column is enough.
* `settlement_double_release`: `ProcessTrades` returns the hold to `available`
  and settlement takes it from `reserved` again.
* `oms_stop_trades`: `go m.MatchOrder(ord)` drops the trades it returns.
* `oms_cancel_release`: `FilledQty` is stale when a cancellation reads it.
* `gateway_publish`: the comment at `kafka.go:28` says "Wait for confirmation for
  high-critical events"; `Async: false` waits for the write, and without
  `RequiredAcks` no broker confirms anything. `NoAcknowledgedOrderLost` shows that
  this and a failure of the engine while it holds the order are the only losses.

Further deviations met while modelling, visible in the specifications and
allowed for in the properties: a job whose INSERT failed is dropped from memory
when the table yields other rows (`BeginProcessQueue`); a buyer who pays the fee
in VLX leaves `reserved` and `total` moved by different amounts (the hypothesis
of `ColumnsReconcile`); an outbox row can be claimed by several drains, and only
the ledger's primary key keeps that harmless; `isFOK` counts the user's own
orders; `CANCEL_BOTH` may leave an empty level; a self-trade cancellation does
not advance `SequenceNum`; `AddOrderToBookDirect` can cross the book; an order
that the matcher rejects or cancels stays QUEUED in the OMS with its hold;
`ReplaceOrder` leaves the user without either order if the new one is refused;
the trigger price of a STOP_LIMIT order replaces its limit price.

In the wallet service: a replica that works on a stale list can set a CONFIRMED
deposit back to CONFIRMING, after which the ledger's primary key refuses it on
every run, each refusal keeping a connection until the call returns
(`MarkConfirming`, `CreditRefused`, `PoolExhausted`); a deposit whose INSERT
failed is logged and passed over for good, and so is one whose address a read
that broke off did not return (`missed`); payments mined before the
pointer is first initialised are not scanned (`start`).

In withdrawals: no approval is waited for, and the transaction is sent while the
row says PENDING_APPROVAL; the handler reserves no balance; goroutines that a
crash ended are never resumed, although `reports/P0014/wallet_recovery_report.md`
says that they are; when the node's answer to a broadcast is lost, the row says
FAILED and the payment is made (`lost`); two goroutines can fetch the same
nonce, and one transaction then replaces the other, whose goroutine polls until
its timeout. In the compliance engine: two requests at the same time can pass one
limit together (`outdated`); a profile held in a replica's map hides later
changes of the row; the only restriction that ever arises is MONITOR, and a user
whose status it turns into RESTRICTED passes RBAC, whereas
`docs/ACCESS_CONTROL.md:33` says such accounts are blocked.

In access: logins at the same time go past the session cap and count one failure
for two (`raced`); the old token is marked in Redis before the COMMIT, so that a
rotation that rolls back leaves a live token marked (`aborted`), and the client's
next refresh ends all sessions of the user; a refresh token, and an API key
without its signature, pass the first check unverified and without a user; two tokens signed in one second are
equal, with the same effect (`issued`).

In the order path: the consumer commits before it works, so an order in its hands
when the engine dies is gone although it was acknowledged (`dropped`); a crash
leaves the PROCESSING record and its key answers 409 from then on; `/trading/orders`
answers without knowing whether the publish succeeded; a published cancellation has no
effect in the engine, so a replacement leaves both orders; a halt whose row was
not written holds in one process only.

## 6. Proofs

Every theorem holds for every value of the constants that satisfies the named
assumption of its module (`SettlementAssumption`, `MatcherAssumption`,
`RouterAssumption`, `DepositsAssumption`, `WithdrawalsAssumption` with
`ComplianceAssumption`, `AccessAssumption`, `GatewayAssumption`), which TLC evaluates on the instances,
and for any number of steps, faults and crashes up to the constants that bound
them. Each inductive invariant was checked by TLC before it was proved.

| Module | Theorem | Property |
|---|---|---|
| `SettlementProofs` | `TypeCorrect` | `TypeOK` |
| | `ExactlyOnce` | `SettledOnce` |
| | `DoubleEntryHolds` | `LedgerBalanced` |
| | `TotalsReconcile` | `LedgerReconciles`, under a hypothesis |
| | `ColumnsReconcile` | `RowsReconcile`, under a hypothesis |
| | `OutboxDurable` | `OutboxSurvivesCrash` |
| | `OutboxRowsLeaveBySettling` | `OutboxRowLeavesBySettling` (action property) |
| | `SettlementImplements` | `ImplementsAtomicSettlement` (refinement) |
| `MatcherProofs` | `BookStaysWellFormed` | `BookWellFormed` |
| | `BookStaysUncrossed` | `NotCrossed` |
| | `TradesRespectLimits` | `TradesWithinLimits` |
| | `FillsAreTrades` | `FillsMatchTrades` |
| | `FillOrKillHolds` | `FillOrKill` |
| | `PriceTimePriorityHolds` | `PriceTimePriority` (action property) |
| `OMSRouterProofs` | `DeadStayOut` | `DeadOrdersAreOut` |
| | `ReplacementsDoNotDouble` | `ReplacementNeverDoubles` |
| | `MakerFillsTrue` | `MakerFillsNotOverstated` |
| | `FinalStates` | `FinalStatesStay` (action property) |
| `WalletDepositsProofs` | `DepositsTypeCorrect` | `TypeOK` |
| | `ScannerMissesNothing` | `NoDepositMissed` |
| | `OnlyDeepDepositsCredited` | `ConfirmedMeansCredited` |
| | `DepositsCreditedOnce` | `CreditedOnce` |
| `WithdrawalsProofs` | `PaymentsAreRecorded` | `RecordedBeforeSent` |
| | `StatusTellsTruth` | `StatusIsTrue` |
| | `LimitsAreKept` | `LimitsHold` |
| `AccessProofs` | `RevocationsAreFinal` | `RevocationIsFinal` |
| | `LiveTokensUsable` | `LiveTokenNotMarked` |
| | `SessionsCapped` | `SessionCap` |
| | `LockoutsCount` | `LockoutCounts` |
| | `SignedRequestsOnce` | `SignedOnce` |
| `OrderGatewayProofs` | `HandlerRunsOnce` | `HandledOnce` |
| | `AnswersAreReplays` | `SameAnswer` |
| | `BookEntersOnce` | `EnteredOnce` |
| | `NoAcknowledgedOrderLost` | `AcknowledgedNotLost` |
| | `ProcessingRecordsOwned` | `ProcessingHasOwner` |
| | `StandingControlsHold` | `ControlsHold` (action property) |

### Sums

The library's induction theorems cannot be applied here, since they take an
operator as a parameter. `Sums` argues by the least counterexample instead: the
finite sets for which a law fails, if there are any, include one of smallest
cardinality (`LeastNatural`, from the well-foundedness of `<` on the naturals), and removing
an element from it contradicts the choice. The laws: a sum can be taken apart at
any element (`SumAt`), grows by what is added (`SumAdd`), depends on the values
only (`SumSame`), changes with one value by the difference (`SumChange`), and a
part of a sum of naturals is no more than the sum (`SumPart`). The proofs about
trades, ledgers, deposits and limits are built on them.

### Settlement

`SettledOnce` is inductive together with `TypeOK`: `Commit` is enabled only when
no ledger entry of the trade exists, and it is the only action that adds entries
or counts an application. For the refinement, a `Commit` is the abstract
`Settle` of its trade (`Settled` grows by exactly that trade, since each trade
has entries of its own); every other step leaves `ledger`, `live` and `total`
unchanged. `OutboxDurable` rests on `OutboxRowsLeaveBySettling`.

`DoubleEntryHolds` and `TotalsReconcile` are about the ledger as a whole. The
invariants `BalancedInv` and `ReconcileInv` say what the entries in each asset of
a trade, and on each row, add up to. A `Commit` adds six to eight entries, two of
them only for a fee in another asset, and the proof adds them one at a time. `TotalsReconcile` has
the hypothesis that the rows a settlement debits are among the opening rows: an
`UPDATE` of a missing row changes nothing, while the ledger entry is still
written. The code justifies it, as a trade arises only from orders whose hold
was taken on these rows, and the VLX fee only where the VLX balance was read; the
instance satisfies it. `ColumnsReconcile` has the hypothesis that the reserved
debit of each trade equals its total debit, which a buyer's VLX fee breaks
(section 5). The lemma `DoubleEntryPasses` shows that the movements of every
trade add up to zero, so that the guard `DoubleEntry` never keeps a job from
being settled.

### Matcher

`IInv` is `TypeOK` with, for each queue, that it holds distinct orders of its side
and price in order of entry with something left (`QueueOK`), that levels and
queues agree (`LevelOK`), that an order is in one place only (`AwayOK`), that
the bids have a highest level (`Bounded`, needed because prices may be any set of
positive integers), and that resting orders do not cross (`Uncrossed`), with
`PostOnlyPassive` and `TradesWithinLimits`. `NotCrossed` alone is not inductive:
`Rest` keeps it only because the loop ended, and the loop ends only when the
best opposite level is out of reach or empty, which needs the agreement of
levels and queues. `FillsMatchTrades` needs only `IInv` and a sum. `FillOrKill`
needs `KillInv`: while a fill-or-kill order is matched, what rests within its
limit still covers the rest of it. A fill takes the same quantity from both
sides of that inequality, and the stale depth of a self-trade is the exception
the property states.

The section on orders that have left the market states for other proofs that no
step brings an order back (`OutStays`), that `CancelOrder` takes it out
(`CancelledIsOut`) and that the history only grows (`HistoryStep`).

### OMSRouter

The router uses its book through `INSTANCE Matcher`. `OMSRouterProofs` takes
`MatcherProofs` with the same substitution, shows that the definitions agree
(`SameState`, `SameSteps`) and that each step of the router is a step of the book
or leaves it alone (`RouterStepsBook`), and so inherits the book's invariant.
`RouterAssumption` contains the book's `MatcherConstants` for this reason.

`RInv` adds, for each order, its `Lifecycle` (an order the book has not seen is
fresh and a rejected one stays so; a cancellation begins by taking the order out,
and it stays out; a replacement is placed after the cancellation of what it
replaces began) and its `Clearing` (which trades its goroutine has in hand).
`DeadOrdersAreOut` alone is not inductive: that a cancelled order stays out of
the book is a fact about every place from which the book might bring it back.
`FinalStatesStay` needs of `RInv` only that an order is submitted once.

`MakerFillsNotOverstated` concerns the unlocked `FilledQty += t.Quantity`.
`MakerOK` compares it with the sum of the trades applied so far: a goroutine
between its load and its store has loaded no more than that sum, and its store
adds the same trade to both sides; lost updates only make the stored value
smaller. The property speaks of orders that have only been makers: what an order
filled as a taker is added by its own goroutine, outside this argument. The applied trades are part of the maker's trades, which by
`FillsAddUp` are its fills. That a trade is applied only once rests on `MInv`'s
part about `cleared`.

### WalletDeposits

Type correctness, `NoDepositMissed` and `ConfirmedMeansCredited` follow from one
inductive invariant, `IInv` (`DepositsInductive`).
`NoDepositMissed` alone is not inductive: moving the pointer to a block says
nothing of the payments in it unless the replica is known to have stored them.
`IInv` therefore adds, for each replica, what its locals guarantee (`ScanOK`):
the blocks from its starting point to `at` are covered except for the payments in
`todo`, and every recipient of a payment up to `end` is in `known`, or the payment
in `missed` because the read of the addresses broke off. The latter
holds because the code reads the latest block before the addresses, and nobody
pays an address before it exists; with the two reads swapped the invariant
fails. The replica's `latest` is at least 1, so that the initial pointer
`latest - 1` is a natural number. For crediting (`CreditOK`), a replica past
the confirmation query holds a deposit that is deep, which stays true because
the head only grows. The lemmas `CoveredStable` and `BystanderOK` carry these
facts over a step of another replica: what others do to the chain and the tables
only makes them larger (`Grows`).

`DepositsCreditedOnce` adds `CreditInv`: a balance is its opening value plus the
credited deposits in the ledger (`BalanceOK`), and a replica that has read an
existing row holds its lock and still sees its value (`LockOK`). Where no row
existed nothing is locked, and the INSERT of the second replica fails.

### Withdrawals

`IInv` says for each request what its place tells of its two rows, the chain and
the node's memory pool (`Good`: `InHandler`, `BeforeSend`, `AfterSend`,
`Recorded`, `Truthful`). `OneEach` says that the pool holds one transaction per request,
whence a free nonce exists among the next `Cardinality(Ids) + 1`.

`LimitsAreKept` adds `LimitInv`: the rows inserted by requests that saw the whole
table are together within the highest limit the user has claimed (`Within`), and
a request in the handler still has room, or was overtaken and is in `outdated`
(`Room`); likewise for the velocity alert (`Alerted`, `Reported`), for which a
request past its COUNT that was not overtaken has seen at least the deposits that
the stored ones had seen (`Latest`): deposits only become more.

### Access

`IInv` has, for each request, what its place tells of its locals (`PlaceOK`) and
that what was revoked when it arrived still is, and that such a request has no
user and nothing to revoke if it is served at all (`DeadOK`); for each identity that has not raced, one login at a time
(`OneLogin`), a count that is still the row's (`CountsFresh`) and room for the
new session (`RoomMade`); and for tokens, that the held and the marked ones were
handed out, and one held by two sessions twice (`TokensIssued`). `SessionCap`
alone fails at the INSERT, which happens after the count it relies on; likewise
`LockoutCounts` at the write after the read.

### OrderGateway

`IInv` says that a PROCESSING record has one request that owns it (`OneOwner`,
`OwnerRecorded`), that answers given so far are those of the stored record or of
its owner (`AnswersAgree`), where each order is between the handler and the book
(`RecordedOrders`, `ConsumerOK`, `QueuedIsEntered`), and that a standing control
is stored (`StandingIsStored`). `HandledOnce` alone is not inductive: that a
second handler does not start depends on the record of the first being there.

### Only model-checked

Progress: `SettledOrGivenUp`, `EveryTradeCleared`, `EventuallyCredited` and
`EventuallyResolved` are liveness properties under fairness, which this prover
does not handle.

## 7. Not modelled

Cryptography, key management, address derivation, backups and disaster
recovery (their correctness is not about interleavings); logging and metrics;
SQL migrations, except that the keys and columns
of the tables named above are taken from them; request decoding; the frontend;
chain reorganisations, which the wallet service does not handle. Floating-point rounding is outside
all models. The components that the plan lists and that no module covers yet are
marked in `PROJECT.json`.

* The WebSocket gateway. Its hazard is known: `BroadcastToChannel` holds the
  hub's read lock while it waits for a client's lock, which a blocked write may
  hold, so one stuck client can stall every broadcast and registration.
* The rate limiters: token bucket and sliding window are functions of real time.
  `RedisRateLimit` counts before it adds and refuses above the limit, so a
  window admits one request more than the limit.
* Expiry of sessions, locks and cache entries: the models cover a few minutes.
* Compliance cases, alert review and the risk score; KYC review, which no service
  calls.
* Positions, liquidation and ADL, custody, the liquidity bridge's routing, the
  trading-core client, the recovery journal, referral commission: no service
  constructs or links them, only tests do. They would be modelled from code no
  deployment runs.
* Market statistics, candles and all handlers that only read.
* Holds per asset (`RiskHolds` in the plan): the quantities are in `OMSRouter`,
  the assets are not; the hazard at `oms_router.go:282` waits for it.
