# Questshop in TLA+

Questshop is a shop inside one Discord guild: customers fill a wallet with vouchers, order
Quests, and worker loops carry the Quests out with the customer's token. All durable state is in
PostgreSQL; every process step of interest is one transaction. This directory models the shop from
the customer's first click to the message that tells him his Quest is done, checks it with TLC and
proves the main invariants of its core with TLAPS. Paths are relative to the repository root; `domain/` and `workers/` are
short for `src/domain/` and `src/workers/`.

Status: checkout, orders with their reservations, runner jobs, reviews and expiry, top-ups, the
ledger with bonus and retention, the outbox, and the catalog with its tests are modelled and
checked, and every safety property checked is also proved, for any number of everything. What is
left is in section 5.

## 1. Inventory

| component | state | operations | interacts with | module |
|---|---|---|---|---|
| wallet and ledger (`domain/wallet/`) | `wallets`, `wallet_reservations`, `refunds`, `wallet_transactions` (hash chain) | reserve, capture, release, refund, credit, reverse, adjust | called inside the transactions of checkout, runner, maintenance, reviews, payments | `Fulfilment`, `Ledger` |
| orders and checkout (`domain/checkout/`, `domain/orders/states.js`) | `interaction_sessions`, `checkout_credentials`, `checkout_quest_options`, `orders`, `order_items`, `order_credentials`, `active_quest_accounts` | start, token, page, select, quote, preflight, confirm, expire | wallet (reserve), runner (first job), catalog (what is on sale) | `Checkout`, `Fulfilment` |
| runner (`domain/runner/`) | `runner_jobs` (state, lease, fencing token, attempts), `runner_mutations` | acquire, renew, checkpoint, request behind a checkpoint, settle, hand over to the next item | wallet, reviews, quest engine, maintenance | `Fulfilment` |
| manual reviews (`domain/reviews/`) | `manual_reviews` | open, assign, evidence, resolve with a decision | moves items, jobs, top-ups; wallet | `Fulfilment`, `TopupPayment` |
| maintenance worker (`workers/maintenance-worker.js`) | none of its own; local query results | recovery of leases, crashes, retries; expiry; materialisation of idle orders; payments, tests, sessions, monitors | everybody's tables | each module its part |
| worker manager and loops (`workers/worker-manager.js`, `loop.js`) | loops, gates, abort signals | start, stop, restart of an iteration; heartbeat | all loops | the loops only |
| operator actions (`domain/admin/operations-service.js`) | – | open a review, refund, pause a Quest, set the circuit breaker | wallet, reviews, catalog | each module its part |
| top-up payments (`domain/payments/`, `workers/payment-worker.js`) | `topups`, `payment_attempts`, `circuit_breakers` | submit, acquire, dispatch, record outcome, credit, recover | voucher adapter, wallet, reviews | `TopupPayment` |
| TrueMoney adapter (`adapters/truemoney/voucher.js`) | – | redeem | payments | its outcomes, in `TopupPayment` |
| outbox, projections, dead letters (`domain/outbox/`, `workers/outbox-worker.js`) | `outbox_events`, `message_projections`, `dead_letter_items`, `surfaces` | enqueue, lease, render, send or edit, acknowledge, fail, replay, discard | every transition enqueues | `Outbox` |
| catalog and expiry (`domain/catalog/`) | `quests` (analysis and sale state) | ingest, analyse, reconcile, pause, expire | discovery, tests, checkout, operators | `Catalog` |
| Quest tests, discovery (`workers/quest-test-worker.js`, `discovery-worker.js`) | `quest_test_runs`, `quest_test_mutations`, `monitor_accounts` | scan, lease, run, settle, retest | catalog, quest engine | `Catalog` |
| runtime leases (`db/leases.js`) | `runtime_leases` | acquire, renew, release | maintenance, discovery | – |
| promotions and pricing (`domain/promotions/`, `pricing/`, `shared/money.js`) | `promotions`, `promotion_usages`, `price_rules` | resolve bonus, price | wallet, checkout | `Ledger` (bonus) |
| fair queue and rate limits (`quest-engine/rate-limits/`) | in-memory and stored windows | wait for a slot, cool down | runner, tests | – |
| quest engine (`quest-engine/`) | – | reads and requests to Discord | runner, tests | its outcomes |
| retention, key rotation | `wallet_checkpoints` | prune, re-encrypt | wallet, orders | `Ledger` (wallet) |
| administration (`domain/admin/`, `domain/blocklist/`) | configuration rows, monitors, prices | single-row updates | checkout, catalog | `Catalog`, `Checkout`: what others read |
| Discord interface (`discord/`) | – | handlers, rendering, channels | all | `Checkout`, `Outbox` |
| bootstrap, backup, alerts | – | I/O | – | – |

Behaviours that are hard here: loops of several processes that own rows by lease and fencing
token only; a maintenance loop that decides by rows it selected earlier; requests to Discord and
to the payment provider whose effect is unknown after a crash; money settled by whichever of
worker, deadline or operator comes first; an order closed, and its token deleted, by whichever
item settles last; a customer who clicks on while prices, sale and configuration change under his
quote; a message rendered from data that changes before it is acknowledged; a quest's sale written
by discovery, tests, maintenance, runner and operators. What makes the components correct:

* wallet: no overdraft, no money lost or made, each price settled once, refunded at most once; the
  ledger tells each balance, with an unbroken chain, also after retention;
* orders: an order is what its quote listed at prices in force; it is open exactly as long as it
  needs its account lock and its token, and a token that becomes no order is forgotten;
* runner: only the owner of a live lease moves a job; a request of unknown effect is not repeated
  without a person's decision (section 3 says how far that holds); an execution is retried a bounded number of times;
* reviews: what is held for a decision can be decided;
* maintenance: every held price is eventually settled, whatever crashes;
* payments: a voucher that may have been sent is not sent again, and credited once;
* outbox: the last version of a message is eventually delivered, and never an older one after it;
* catalog: what is on sale was analysed and can be executed, and stays paused when paused by a person.

The hazards, each at its line and with the properties aimed at it, are listed in `PROJECT.json`.

## 2. Modules

| module | content |
|---|---|
| `OrderStates` | the state sets and transition maps of items and jobs (`domain/orders/states.js`, `domain/runner/states.js`) |
| `Escrow` | abstract specification: what is promised about the money of orders, without jobs or leases |
| `Fulfilment` | the detailed system: checkout confirmation, runner loops, maintenance loop, operators, time |
| `FulfilmentProperties` | its properties, and the refinement `Escrow` |
| `SettlementProofs`, `OwnershipProofs` | the theorems about `Fulfilment`: money and orders; jobs, workers and reviews |
| `VoucherCredit` | abstract specification: what is promised about a voucher, without leases, attempts or circuits |
| `TopupPayment` | the detailed system: submission, payment loops, provider, recovery, owner |
| `TopupProperties` | its properties, and the refinement `VoucherCreditKept` |
| `TopupProofs` | the theorems about `TopupPayment` |
| `Checkout`, `CheckoutProperties` | from the token to the order: sessions, handlers over several transactions, a shop that changes meanwhile |
| `Ledger`, `LedgerProperties` | the entries behind the balances, bonus, refunds, retention |
| `Outbox`, `OutboxProperties` | from a committed change to the Discord message |
| `Catalog`, `CatalogProperties` | one Quest between discovery, tests and sale |
| `CheckoutProofs`, `LedgerProofs`, `OutboxProofs`, `CatalogProofs` | the theorems about these four |
| `SumLemmas` | what the proofs need of sums over finite sets, and of least elements |
| `MCFulfilment`, `MCTopup`, `MCCheckout`, `MCLedger`, `MCOutbox`, `MCCatalog` | instances for TLC; one `.cfg` per run |

The modules meet in tables, and each one treats what the others write as its environment:
`Fulfilment` starts with credit (`Funding`), its `ConfirmOrder` is the order that `Checkout` makes;
`TopupPayment` adds credit and stands for orders by `Spend`; `Ledger` has all operations on a
wallet, without what leads to them; `Outbox` knows a change only as the versions it raises;
`Catalog` has the sale of a Quest, which for `Checkout` may change at any moment (`SaleChanges`).

### How `Fulfilment` corresponds to the code

One action is one committed transaction, with the step its process takes in memory, unless another
transaction can come between two of its statements unnoticed. The transactions of money, operators
and maintenance are SERIALIZABLE; the READ COMMITTED ones lock, or update conditionally, the row
they decide about, and a change of a row that a SERIALIZABLE transaction is about to write is
refused (40001). What this does not cover is modelled in two actions:

* The recovery of the maintenance worker sees the database as of the first SELECT of its transaction
  (`db/transaction.js:44`). A row of `runner_jobs` or `order_items` that changed since is passed over or
  refused (`SnapshotAges`). But `prepareMutation` only locks the row of the job, and `markMutation`
  does not touch it: what they write into `runner_mutations` meanwhile is not seen and raises no
  40001. So `BeginRecovery` takes the snapshot (`mseen`, `mpending`), and `Recover` decides with it;
  leases are judged by the clock of the statement.
* The statements that read queue, expired items or idle orders and the ones that act on what was
  read (see below).

`markMutation` is one statement. A mark that is sent before its loop's lease ends is committed or
dead long before that job's next dispatch is over (`db/pools.js:21`: 15 s for a statement, 3 s for a
lock, against a lease of 60 s), so it can be overlooked by the recovery of its own dispatch only.

State of the database:

* `order`, `credential`, `accountLock`: the rows of `orders` (open until `completed_at`),
  `order_credentials` and `active_quest_accounts`;
* `item`, `reservation`, `refunded`, `available`, `reserved`: item and reservation states,
  refunds and balances;
* `job`, `holder`, `token`: `runner_jobs`. `holder` is `lease_owner` while `lease_expires_at` is in
  the future. A job that is LEASED, RUNNING, VERIFYING or SETTLING always has an owner in the row,
  so `holder = Nobody` means for these that the lease ran out. `attempt_count` and `fencing_token`
  are raised together and are one variable. `state_version` is not a variable: all statements that
  compare it also compare owner and token, or lock the row in the same transaction;
* `mutation`: the status of the job's last `runner_mutations` row, `attempt` the dispatch that wrote
  it; `inDoubt` is a history variable,
  the items for which Discord may hold a request whose effect nobody has read back;
* `review`: the last `manual_reviews` row of the item; the unresolved states (OPEN, ASSIGNED,
  EVIDENCE_PENDING, DECISION_READY) are one, because no decision depends on which it is;
* `deadline`: `order_items.deadline_at` against the database clock. `STRIKING` stands for the
  moment in which a transaction that read the clock before the deadline may still commit. A deadline
  is compared only for items that wait (RESERVED, QUEUED), so `DeadlineStrikes` is about those: what
  passes during an execution passes when the item waits again.

State of the processes: for each runner loop its step, job and token in memory (`wpc`, `witem`,
`wtoken`); for the maintenance loop its step, the rows it selected (`mpc`, `mtodo`, `mjobs`, `mcur`,
`morders`) and the snapshot of its open recovery (`mseen`, `mpending`). A crash or a new iteration
loses them.

| code | actions |
|---|---|
| `confirmOrder` | `ConfirmOrder` |
| `acquireRunnableJob`, `checkpointRetryJob`, `moveRunnerToManualReview`, `releaseBeforeExecution` and `failJob` | `AcquireRunnableJob`, `CheckpointRetryJob`, `MoveRunnerToManualReview`, `RunnerRelease`, `FailJob` |
| `transitionRunning`, `executeMutation` (prepare, accept, verify, retry) | `TransitionRunning`, `PrepareMutation`, `AcceptInitialMutation`, `RefuseInitialMutation`, `MutationVerified`, `MutationUnreadable`, `MutationNotApplied` |
| `transitionToSettling`, capture, `completeJob`, `materializeNextOrderItem` | `TransitionToSettling`, `RunnerCapture`, `CompleteJob`, `WorkerCountsQueue`, `WorkerInsertsJob` |
| errors, lost fencing, process death | `ExecutionError`, `FencingLost`, `Crash` |
| `runMaintenance` | `BeginRecovery`, `Recover`, `SelectExpired`, `ReleaseExpiredItem`, `FailExpiredJob`, `SelectIdleOrders`, `MaintCountsQueue`, `MaintInsertsJob`, `MaintenanceEnds` |
| `openOrderItemReview`, `resolveReview`, refund | `OpenOrderItemReview`, `DecideRetry`, `DecideCapture`, `DecideRelease`, `RefundCapturedOrderItem` |
| lease expiry, database clock | `LeaseExpires`, `DeadlineStrikes` |

Details worth knowing when reading it:

* `processRunnerJob` ends with `return executeAndSettleRunner(...)` without `await` inside its
  `try` (`domain/runner/service.js:597`). Errors of the execution therefore skip
  `resolveRunnerFailure`: the loop starts over and the job keeps state and lease until the lease
  runs out. That is `ExecutionError`; `CheckpointRetryJob`, `MoveRunnerToManualReview` and
  `RunnerRelease` exist only before the execution, at step `leased`.
* `moveRunnerToManualReview` and `failJob` do not compare owner and token, and the model does not
  either.
* `releaseExpiredOrderItems` and `materializeAvailableOrders` work on rows read before; the
  statement that reads and the ones that act are separate actions.
* `materializeNextOrderItem` counts the queue and inserts in separate statements of the pool.
* A QUEUED job whose item is not QUEUED makes `acquireRunnableJob` throw and roll back: no action.

Abstracted in `Fulfilment`: the order in which users and jobs are served (any job may be next), backoff times
(`Recover` takes any subset of the waiting jobs as due), progress figures, ledger entries,
transition records, projections and metrics, the `ownerOnly` gate, renewal of a live lease
(changes nothing), and rows skipped by `SKIP LOCKED`. One maintenance loop is assumed at a time;
that this is what `runtime_leases` achieves is a later module.

### How `TopupPayment` corresponds to the code

State of the database: `status`, `amount`, `holder` and `token` are the row of `topups`
(`attempt_count` and `fencing_token` are raised together; `holder` is `lease_owner` while the lease
is live; `amount` is kept once the voucher is redeemed, when the code compares it); `attempt` is
`dispatch_state` of the last row of `payment_attempts`; `review` the last review of the top-up,
`confirmed` the decisions CREDIT; `balance` and `spent` the wallet; `breaker` the row
TRUEMONEY_DIRECT of `circuit_breakers`, `autoCredit` the gate AUTO_CREDIT_ENABLED, `incident` an
unresolved incident PROVIDER_SCHEMA_CHANGED.

State of the world: `atProvider` (requests that may still be acted on), `paid` (vouchers the
provider paid out), and the history variable `inDoubt` (a request is out and no worker has read a
definite answer to it).

State of the processes: step, voucher, token, "is a probe", the gate as it was read, and what
there is to record. A process runs one payment loop (`workers/worker-manager.js`), so two
workers are two processes.

| code | actions |
|---|---|
| `submitVoucher` | `SubmitVoucher` |
| `creditPendingRedemption`, `creditRedeemedTopup` | `PickPendingRedemption`, `CreditPendingRedemption`, `CreditRecorded` |
| circuit and `acquirePaymentJob` | `ReadBreaker`, `AcquirePaymentJob`, `QueueIsEmpty` |
| `createPaymentAttempt`, `redeemVoucher`, `markPaymentPossiblySent` | `CreatePaymentAttempt`, `SendRequest`, `RequestNotSent`, `MarkPaymentPossiblySent` |
| the provider and its answers (`mapProviderFailure`, schema, timeout) | `ProviderDecides`, `AnswerSuccess`, `AnswerRefused`, `AnswerUnclear`, `AnswerLost` |
| `recordProviderResult`, `closeSuccessfulProbe` | `RecordProviderResult`, `RecordThrows`, `CloseSuccessfulProbe`, `LaterStepThrows` |
| the catch block: `openCircuit`, `failureResult` | `OpenCircuit`, `ContainSchemaFailure`, `ReportSchemaFailure`, `RecordFailure` |
| process death; lease; `recoverCrashedPayments` | `Crash`, `LeaseExpires`, `RecoverCrashedPayments` |
| `applyTopupDecision`, `setCircuitBreakerState`, gate, `reverseTopup` | `DecideCredit`, `DecideReject`, `SetCircuitBreakerState`, `SetAutoCredit`, `ReverseTopup` |
| `reserveOrderItemsInTransaction` (module `Fulfilment`) | `Spend` |

Details worth knowing when reading it:

* Handing in the same voucher twice finds the row by its HMAC; the second call changes nothing.
* `AMBIGUOUS` never outlives a transaction: `recordProviderResult` goes on to MANUAL_REVIEW.
* A worker does not look at its lease before it inserts the attempt and sends the request; only
  the record is fenced.
* The catch block covers the record, the closing of a probe and the credit. An error there is
  recorded as a second result, of which the row's state and lease let through what they let
  through (`RecordFailure`).
* `openCircuit` inserts its incident without ON CONFLICT, and nothing resolves incidents of that
  type: a second schema failure throws there and its pass ends without a record
  (`ReportSchemaFailure`). The voucher is then recovered through its lease.
* `creditRedeemedTopup` throws for a voucher that was credited and reversed meanwhile
  (`CannotCredit`).
* `reverseTopup` has no caller but the tests; it is modelled as an action of the owner.
  `next_probe_at` is written and never read: only a person leaves OPEN.

Abstracted in `TopupPayment`: payload and encryption, the blocklist, bounds on amounts, principal
and bonus (one amount), ledger entries, transition records, projections, backoff times
(`RecoverCrashedPayments` takes any subset of the waiting vouchers as due), and the order in which
queued vouchers are taken. Gate and breaker are read in one step; they are two statements with
nothing decided in between.

### How `Checkout` corresponds to the code

State of the database: `state`, `operation`, `message`, `account`, `version`, `page`, `quoted` and
`fresh` are rows of `interaction_sessions` (`quoted` is the hash of the quote, as the lines it was
made of; `moved` says that `state_version` is not the first one any more); `credential` is
`checkout_credentials`; `option` and `selected` are `checkout_quest_options`; `order`, `open` and
`busy` are orders and `active_quest_accounts`. `rule`, `onSale`, `config`, `blocked` and `done` are
what others decide: price rules, the sale of Quests, the configuration version, the blocklist, and
what the account has completed at Discord. `view` is what the customer sees.

State of the processes: `mem[h]` holds the locals of a handler of `discord/interactions/router.js`
between two of its transactions.

| code | actions |
|---|---|
| `handleStart`, `handleTokenSubmit` | `HandleStart`, `HandleTokenSubmit`, `ResolveSaleEligibility`, `CreateSession`, `TerminateEntry`, `ShowSelection`, `BindSessionMessage` |
| page, choice, "all" | `Click`, `TurnPage`, `ReadRows`, `Deselect`, `Choose`, `SelectAll`, `Refresh` |
| `buildQuote`, `loadPreflight`, `confirmOrder` | `BuildQuote`, `LoadPreflight`, `FetchAccount`, `ConfirmOrder` |
| a handler that throws | `Fails` |
| `expireSessions`, the clock | `ExpireSessions`, `SessionTimesOut`, `PreflightTimesOut` |
| the shop and the customer meanwhile | `PriceChanges`, `SaleChanges`, `UpdateRuntimeConfig`, `BlockOrUnblockUser`, `CompletesElsewhere`, `OrderCompletes` |

`Discord` says whether interactions name the message they come from. In the guild they do; the calls
of the tests do not, and only then does a checkout get past its first page (see
`MCCheckout_discord` below). `MCCheckout_calls` therefore checks the checkout as the tests call it.

Abstracted: encryption, gates, rate limits, the wallet's refusal (any transaction may be refused),
texts and menus. `createSession` also ingests the Quests it saw; that is a `SaleChanges`.

### How `Ledger` corresponds to the code

`ledger` is `wallet_transactions`: an entry has its number `id` (uuidv7: by time, and in order
within a transaction), `at` (`created_at`), the balances after it and the number of the entry whose
hash it contains; a hash is represented by the number, since it covers number and predecessor.
`checkpoint` is the newest row of `wallet_checkpoints` of a user, `usage` is `promotion_usages`,
`held` the unresolved reviews, `day` the day in Bangkok, `cutoff` what is a year old. `returned` and
`overtaken` are history.

| code | actions |
|---|---|
| `reserveOrderItemsInTransaction`, capture, release, refund | `ReserveOrderItems`, `CaptureReservation`, `ReleaseReservation`, `RefundCapturedOrderItem` |
| `creditRedeemedTopupInTransaction` with `resolvePromotionBonus` | `CreditRedeemedTopup` |
| `reverseTopup`, `adjustBalanceInTransaction` | `ReverseTopup`, `AdjustBalance` |
| `runRetention`, `questshop_prune_wallet_ledger`, refunds of `questshop_prune_operational_details` | `RunRetention` |
| reviews; the clock | `OpenReview`, `ResolveReview`, `DayPasses`, `YearPasses` |

* Wallet transactions are SERIALIZABLE and lock the wallet; each is one action. But `created_at` is
  the time of `BEGIN`, and the snapshot is taken by the statement after it (`db/transaction.js:43`).
  A transaction that another one overtakes between the two messages makes an entry that sorts
  before the one it follows. `Times` has both cases. If it makes several entries, each reads the
  newest again, which is none of its own, and all name the same one (`Overtaken`).
* `appendLedger` returns an entry it finds under the same key. For refunds, whose key is the item's,
  this happens when the refund row was pruned and the entry was not.
* Retention is one transaction. A refund that stays while its entry goes would fail it (`Dangling`).
* `FINANCIAL` reviews, which would protect every ledger, are never opened by the code.

Abstracted: amounts are small numbers; the version shown in an owner's preview of an adjustment and
the key that makes a repeated adjustment a no-op; the daily block at 3,000 baht; the other tables
retention prunes, and that a batch of it leaves out the rows `SKIP LOCKED` passes over.

### How `Outbox` corresponds to the code

State of the database: `desired`, `delivered`, `recorded`, `plive`, `ptoken` are
`message_projections` (versions, message id, lease, fencing token); `state`, `of`, `token`, `bound`,
`live` are `outbox_events`, whose key is topic and `aggregate_version`; `deadLetter`, `replay` are
`dead_letter_items`; `dmTried` is `orders.dm_summary_attempted_at`; `surface` the state of the
channel. The data is `content`, the number of changes so far: a rendering shows it as of its moment.
State of Discord: `channel`, the messages of a projection with the content they show, whether they
still exist and whether a nonce still finds them.

| code | actions |
|---|---|
| `enqueueProjection` in any transaction | `Change` |
| `acquireDelivery` | `AcquireDelivery`, `NothingToDeliver` |
| `processOutbox`, `publishProjection`: projection lease, order DM, rendering, `loadActiveSurface` | `ReadProjection`, `ClaimOrderDmAttempt`, `Render`, `SurfaceUnavailable`, `ChannelMissing` |
| edit, search by nonce, send, reconciliation | `Fetch`, `FetchFails`, `Edit`, `EditFails`, `FindMessageByNonce`, `Send`, `SendFails`, `Reconcile` |
| `recordDelivery`, `failDelivery`, heartbeat | `RecordDelivery`, `FailDelivery`, `LostDelivery`, `HeartbeatFails` |
| `replayDeadLetter`, `discardDeadLetter` | `ReplayDeadLetter`, `DiscardDeadLetter` |
| death, leases, channels, Discord's memory | `Crash`, `EventLeaseRunsOut`, `ProjectionLeaseRunsOut`, `SurfaceDrifts`, `SurfaceRestored`, `NonceForgotten`, `MessageDeleted` |

Abstracted: what a message looks like, the times of the backoff (its steps are kept), the gates.

### How `Catalog` corresponds to the code

One Quest. `analysis`, `sale`, `known`, `contract` are its row (`known`: which core fields it has),
`time` whether an execution still fits before it expires, `priced` whether a rule gives it a price;
`test`, `owner`, `leased`, `crashed`, `recent` are `quest_test_runs`, `request` the newest of
`quest_test_mutations` of a run; `mstate`, `failures` are `monitor_accounts`; `offered` is the
contract Discord gives the Quest. The loops' memory is `t...` (tests), `s...` (scanner), `m...`
(maintenance). History: `unseen`, the runs with a request whose effect nobody read back, and `raced`,
the runs whose recovery and a mark missed each other.

Two things are not one action although the code has a transaction for each. `setMutationState`
(`workers/quest-test-worker.js:89`) looks up who owns the run, without a lock, and marks the request in
the next statement: `CheckOwnership` puts the loop into `checked`, and the mark then asks nobody. And
`recoverCrashedQuestTests` reads the marks from the snapshot of the transaction's first SELECT:
`BeginMaintenance` takes it (`mseen`, `muncertain`), `TransactionalMaintenance` decides with it and
is refused if a run it saw was ended since. `queueAlternativeMonitorTest` counts and inserts in two
statements, and so in two actions.

| code | actions |
|---|---|
| `scanMonitor`, `ingestDiscovery`, `analyzeQuest`, `reconcileSale` | `LoadScanMonitors`, `ScanOneMonitor`, `ScanFails`, `ResetFailures`; `IngestDiscovery` inside them |
| test worker | `AcquireTestRun`, `CreateTestMutation`, `CheckOwnership`, `MarkInFlight`, `Perform`, `RecordAnswer`, `Look`, `RecordEffect`, `TestPasses`, `ResetTestMonitor`, `IngestTestedQuest`, `TestErrs`, `LostTest` |
| its failures | `FinishFailedTestRun`, `UpdateMonitorForFailure`, `CountAlternatives`, `QueueAlternativeTest`, `PauseQuestForTestFailure` |
| maintenance: crashed tests, retests, monitors back from cooldown; expiry | `BeginMaintenance`, `TransactionalMaintenance`; `SelectSellable`, `SetSellable` |
| operators, runner, prices | `SetQuestSaleState`, `SetMonitorState`, `RotateMonitorCredential`, `AddMonitor`, `PauseForContractFailure`, `PriceChanges` |
| time and Discord | `TimePasses`, `QuestChanges`, `DayPasses`, `LeaseRunsOut`, `Crash`, `MaintenanceFails` |

A test is not what puts a Quest on sale: a supported Quest is offered for sale when it is
discovered and the test follows in the background; a failed test pauses it.

Abstracted: names and evidence, dates but for the room they leave, which of several task types, the
progress of a test but for its newest request.

## 3. Runs

### Bounds

* `Fulfilment`: `MaxToken` (dispatches of one job) is the only guard added to keep the state
  finite. `MaxAttempts = 3` is the code's. `QueueLimit` is 500 in the code and small here so that
  the full queue occurs. `Faults` turns crashes, stalls beyond a lease and shutdowns on; without it a
  lease still runs out once no loop renews it any more.
* `TopupPayment`: no bound in a guard; `MaxAttempts` is the code's limit, and what can be spent is
  what was credited. Its toggles say what may go wrong: `Crashes`, `Stalls` (a process sleeps longer
  than its lease), `DatabaseErrors` (a transaction fails although its checks hold); `OwnerInformed`
  says that the owner decides what the provider's books show.
* `Checkout`: `MaxSessions`; two Quests on pages of one, so that a choice can be on another page;
  `MaxEvents` counts clicks, changes of the shop and failures together. `MCSpec` starts from the
  empty shop or from `Underway`, two sessions of one account opened through the handlers' own steps,
  so that three events are spent on what comes after. Deadlock is not checked: when the events are
  used up and the sessions expired, nothing is left to do.
* `Ledger`: `MaxEntries`, `MaxDays`, `MaxRefunds` of one item, `MaxOvertakings`. `BatchLimit` is
  500 in the code and 2 here so that a batch ends between related rows. Prices and face values are
  small; the tiers are 5 % and 50 %, of which the second rounds 2.5 up.
* `Outbox`: `MaxChanges`, `MaxReplays`, `BackoffSteps` (attempts before a dead letter), and
  `MaxFaults`: any one of ten kinds of fault at any moment.
* `Catalog`: each event from outside has a weight (`Weights` in `MCCatalog`) and all may weigh
  `MaxWeight = 10` together: two ignored requests, an error or an ignored request beside a new
  contract or a new account, both of these, or one event of another kind (a crash, a stall, an operator,
  a changed price, ...). Runs left by older tests do not count; `MaxRuns = 5`, of which these events use
  three at most. `CooldownAt` and `QuarantineAt` are 3 and 5 in the code.

### Runs that pass

| run | instance | shows |
|---|---|---|
| `MCFulfilment_one` | 1 item, 2 workers, faults, 2 dispatches, fairness; 111,000 states | `SettlementAgreement`, `EarlierRequestIsSeen`, `OwnerSeesItsStage`, `HeldReviewIsOpen`, `HeldItemsFollowMap`, `HeldMoneyIsSettled` |
| `MCFulfilment_two` | 1 order of 2 items, 2 workers, 1 dispatch; 1.9 million states | `TypeOK` (no overdraft), `OpenOrdersHoldAccountAndToken`, `HeldMoneyKeepsOrderOpen`, `WalletMatchesReservations`, `EscrowIsKept` (the refinement) |
| `MCTopup_takeover` | 1 voucher, 2 workers, all faults, owner decides as he likes; 1.1 million states | `TypeOK` (no overdraft by a reversal), `NothingInDoubtIsRetried`, `ReviewedIsDecidable`, `OwnerSeesProcessing`, `BoundedDispatch`, `CreditsAddUp`, `VoucherCreditKept` (the refinement) |
| `MCTopup_calm` | 1 voucher, 2 workers, crashes only, informed owner, fairness; 177,000 states | `PaidIsNotRefused`, `EveryVoucherIsAnswered` |
| `MCCheckout_calls` | 1 account, 3 sessions, 2 Quests, 2 handlers, 3 events; 122,000 states | `TypeOK`, `TokenFollowsSession`, `OneOrderPerAccount`, `OrderIsQuoted`, `TokenIsForgotten` |
| `MCLedger_books` | 1 user, 2 promoted top-ups, 2 items, 5 entries, 2 days; 1.2 million states | `TypeOK`, `WalletMatchesLedger`, `ChainIsUnbroken`, `BonusIsLimited` |
| `MCOutbox_deliver` | a log message and an order's DM, 2 deliverers, 2 changes, 1 fault, fairness; 47,000 states | `TypeOK`, `WantedIsScheduled`, `OrderDmAtMostOnce`, `EveryEventSettles`, `QuietChangeIsShown` |
| `MCCatalog_market` | 1 Quest, 2 monitors, 1 tester, scanner, maintenance, operators, fairness; 379,000 states | `TypeOK`, `OpenIsSupported`, `RepeatedTestLeftNothing`, `VerdictStands`, `OverLeavesSale`, `RetestOrPause` |

Why the bounds are enough for what is asked: two items are what it takes to close an order too early or never,
two workers to have a stale and a current owner of a job, voucher or event, two dispatches to have
a retry after a crash, three to reach the limit. One changed price or one paused sale between two
steps of a handler is what makes its quote stale, and the second session is what competes for the
account. Two top-ups share the bonus of one day, a second day takes the sharing back, and a
batch of two cuts a user's entries in the middle. Two changes make an event that is overtaken
while it is delivered. A second monitor is what an alternative test needs. Larger instances
were tried where the time allowed (two vouchers, two orders of one account, four events of the
checkout, two users of the ledger) and brought only the refutations listed below.

Workers are interchangeable, and symmetry is used in `MCFulfilment_two` and `MCTopup_takeover` only,
which check no liveness under fairness. Deadlock is checked in all runs but those of `Checkout`.

What the properties leave out on purpose:

* `EarlierRequestIsSeen` allows a job to wait for its retry beside a pending request of the very
  dispatch that recovery ended: recovery's snapshot can be older than the request. It is not about a
  request that was marked FAILED before its controlled retry, see `AmbiguityIsRetained` below.
* `RepeatedTestLeftNothing` does not speak of `raced` runs, whose recovery overlapped a mark. Neither
  exception is wished for: the statements without them are `NothingPendingIsRetried` and
  `RepeatIsFenced` below.
* `SettlementAgreement` says nothing of a QUEUED job whose item was released (`QueuedJobHasQueuedItem`
  below), and no run has two orders that compete for one balance: that none is overdrawn then is what
  the theorem `TypeCorrect` shows; the hazard of two orders names the `TypeOK` of `Fulfilment`, not that
  of the other modules.
* The first half of `BonusIsLimited`, at most `MaxUses` uses of a promotion by a user, cannot fail in
  `MCLedger_books`, where two top-ups meet `MaxUses = 2`; the theorem `BonusLimited` is what shows it.
* `PaidIsNotRefused` needs what `MCTopup_calm` leaves out. A process that sleeps past its lease
  before it sends lets the owner reject, correctly by the provider's books, a voucher that is paid
  out afterwards; and a database error while an answer is recorded is `MCTopup_dropped` below.
* `WalletMatchesLedger` and `ChainIsUnbroken` speak of users no transaction of whom was overtaken
  between `BEGIN` and its first statement; the first also of users without an item refunded twice.
  What happens to the others is below.
* `QuietChangeIsShown` speaks of a change that waits while no rendering of its projection is under
  way and no message is out that the row does not know of. A change that comes during a rendering can
  be lost: see `LatestStateIsShown` below.

Every property has a mutant: a definition of the model changed the way a plausible bug would
change the code (named `Mutant` where it stands), under which the run finds the property violated.

### Disagreements between code and its texts

Four runs expect a violation. Each states what a document, a comment or an assertion of the
repository says and shows a behaviour of the code that does not keep it; `PROJECT.json` quotes the
lines.

| run | property | behaviour found |
|---|---|---|
| `MCFulfilment_retry` | `BoundedRetry` | an execution that fails every time is dispatched a fourth time, nobody asked (the missing `await` at `domain/runner/service.js:597`) |
| `MCTopup_dropped` | `AmbiguityGoesToTheOwner` | the transaction that records an unclear answer fails; the catch block records FAILED, and nobody is asked whether the provider paid |
| `MCOutbox_receipt` | `WantedIsScheduled` | the key of an event does not name the projection: of two projections enqueued under one aggregate version only the first is ever sent; the receipt of a top-up is the second |
| `MCCheckout_discord` | `ReplyIsBound` | a session created from the panel stores the panel as its message; its reply cannot be bound, and no click on it is accepted |

Other statements are written down in the properties modules, refuted by TLC, and have no run of
their own. In the first group money stays safe: the properties that pass hold with the same actions.

| statement | what the code does instead |
|---|---|
| `QueuedJobHasQueuedItem` | a worker dies between releasing its item and failing its job; recovery puts the job back to QUEUED, where every attempt to lease it throws (`domain/runner/service.js:480`, `:161`) |
| `AmbiguityIsRetained` | a request marked FAILED before its controlled retry is not pending, so a crash during that retry repeats the whole execution (`domain/runner/service.js:293`; `docs/architecture/system.md:7`) |
| `NothingPendingIsRetried` | recovery's snapshot is older than the request of the dispatch it ends: the job waits for its retry beside a pending request, instead of a review (8 steps; `domain/runner/service.js:198`, `db/transaction.js:44`; `docs/runbooks/README.md:42`). The retry is not blind: `prepareMutation` refuses a new request while the old one is pending (`domain/runner/service.js:205`), and the next recovery sees it (`EarlierRequestIsSeen`) |
| `RepeatIsFenced` | between the ownership check of a mark and the mark, recovery finds the request PREPARED and queues the repetition; the old worker then marks and sends (10 states; `workers/quest-test-worker.js:89`, `workers/maintenance-worker.js:72`) |
| `SettledOrderIsCompleted` | one item is released and then moved to MANUAL_REVIEW by a stale worker; when the other is captured the order stays open, token stored (`domain/wallet/service.js:222`; `README.md:23`) |
| `PreflightCoversOrder` | the selection a preflight signed is not compared with the one confirmed: a choice changed after the account was fetched is ordered if its quote was renewed meanwhile (needs four events); the order is still the one quoted |
| `LatestStateIsShown` | `recordDelivery` acknowledges the version desired at that moment, and marks its events delivered, although an older one was rendered (`domain/outbox/service.js:110`; `docs/architecture/definition-of-done.md:14`) |
| `ReplayIsUnderWay` | an event replayed from a dead letter is coalesced into a newer one; the dead letter stays REPLAYING (20 steps; `domain/outbox/service.js:156`) |
| `SaleFollowsMap` | maintenance selects a quest to pause it, another writes EXPIRED, and maintenance, which compares the sale state with the new one only, writes PAUSED over it (8 states; `workers/maintenance-worker.js:227`; `docs/state-machines/contracts.md:3`) |

The second group concerns the books (`docs/architecture/definition-of-done.md:9` calls them an
"append-only hash chain"):

* without the exception for overtaken transactions, `ChainIsUnbroken` and `WalletMatchesLedger` fall
  in 3 states: the overtaken entry carries the earlier time, sorts before the entry it follows,
  and the audit of `workers/alert-worker.js` then turns AUTO_CREDIT_ENABLED and ORDER_ACCEPTING off;
* `RefundedOnce` (`docs/traceability.md:10`) falls in 8 states: the refund row is deleted after a year,
  and with it what makes a second refund impossible. If the entry is still there (it was outside
  the batch, or a review protects it), `appendLedger` returns it and the wallet is credited with no
  new entry: wallet and ledger differ;
* `CreditedPaymentsHaveLedger`, what `scripts/restore-drill.js:59` demands, falls in 5: after
  retention deleted a year-old credit the drill reports a failure for a sound backup;
* `RetentionGoesThrough` falls in 14 states with two users and a batch of one, or after a second
  refund: refunds and entries are chosen in different orders, an entry goes whose refund stays, and
  the foreign key aborts the whole retention, each time again.

Smaller ones, seen while modelling:

* an item settled by a second worker can be moved to MANUAL_REVIEW by the first one's late contract
  error; a worker and a maintenance pass can each start the next item of an order, so that two are
  live (`domain/checkout/service.js:402`); the limit of the queue is soft in the same way
  (`domain/runner/service.js:400`); `openOrderItemReview` moves a QUEUED job to MANUAL_REVIEW, an
  edge its map does not have;
* a RATE_LIMIT answer sends an attempt marked POSSIBLY_SENT to RETRY_WAIT, which the comment at
  `domain/payments/service.js:181` excludes (the answer is definite, so `NothingInDoubtIsRetried`
  holds);
* a quarantine does not last: a failing scan writes the monitor's state from the row it loaded
  (`workers/discovery-worker.js:15`; `docs/runbooks/README.md:14`), and a discovery reopens a quest
  that waits paused for its retest (`domain/catalog/service.js:35`);
* a test in MANUAL_REVIEW does not stop the next discovery from queueing another
  (`domain/catalog/service.js:148`), and reviews of Quests have no decision that resolves them;
* `routeInteraction` returns `dispatchRoute` without `await` (`discord/interactions/router.js:1619`):
  a refused click is never told to the customer, and the metric counts a success;
* `reverseTopup` opens, when the balance does not suffice, a review nobody can decide
  (`domain/wallet/service.js:499`), which then protects the user's ledger from retention for ever;
* an outage of all quest endpoints is reported as a contract failure
  (`quest-engine/api/client.js:144`), which pauses the Quest.

### Fairness

`HeldMoneyIsSettled` assumes, and nothing more:

* a runner loop that has a job in hand keeps stepping (`workers/loop.js` runs the next iteration
  after any error), and an execution ends: every verified request moves the progress, and the
  executors give up after 8 reads without progress (`quest-engine/executors/video.js`). This is
  strong fairness of leaving the execution, by settling or by an error;
* a lease nobody renews runs out, and deadlines come: the database clock runs;
* maintenance passes go on, and a pass begun again and again gets to each of its statements again
  and again, so a release that is possible in every pass is not always cut off by a crash (strong
  fairness of `Recover`, for what its snapshot shows as due, of `SelectExpired` and of
  `ReleaseExpiredItem`);
* an operator who is shown a review again and again captures or releases in the end. Without this
  an item under review keeps the price on hold for ever, by design.

Acquiring a job is not assumed fair: a job no worker takes is released at its deadline.

`EveryVoucherIsAnswered` assumes:

* a payment loop keeps stepping, and not every pass dies before it claimed or credited a voucher
  (strong fairness of `AcquirePaymentJob`, `PickPendingRedemption` and the credit that follows: no
  other path answers a queued or redeemed voucher);
* the provider decides about every request it has;
* a lease nobody renews runs out, and maintenance passes, also after the backoff of every waiting
  voucher;
* the owner moves an OPEN circuit to HALF_OPEN or CLOSED, and credits or rejects a review he is
  shown again and again: by design nothing else does;
* the premise of the property: from some time on AUTO_CREDIT_ENABLED stays on. Each schema failure
  turns it off, so the owner has to turn it on again after each.

The others assume less, weak fairness throughout:

* `Outbox` (`EveryEventSettles`, `QuietChangeIsShown`): a deliverer that has an event in hand goes on
  to its end or its failure (each call to Discord has a timeout), the loops poll, and leases nobody
  renews run out;
* `Catalog` (`OverLeavesSale`, `RetestOrPause`): maintenance passes, and nothing else. No tester,
  discovery or operator is assumed to do anything;
* `Checkout` (`TokenIsForgotten`): a session reaches its time limit and maintenance deletes what
  expired. No click is assumed to come, no handler to finish;
* `Ledger` has no liveness and no fairness.

## 4. Proofs

Each theorem is about `Spec` for every value of the constants: any number of users, orders, items,
vouchers, sessions, projections and workers, any bounds. Every safety property that a run checks,
invariant or action property, is stated by a theorem.

### Assumptions

The assumptions on constants stand in the modules that declare them, and TLC evaluates them on the
instances. Besides types they say:

* `FulfilmentAssumption`, `PaymentAssumption`, `LedgerAssumption`: finitely many items and vouchers (a
  table has finitely many rows; the balances are sums over them), null values that are no worker,
  order, item or voucher; `OrderAssumption`: an order has items;
* `LedgerAssumption`: finitely many tiers, none above 100 percent (`promotions` has a CHECK for it);
* `CheckoutAssumption`: "no order" is no list of lines, and there is a price rule;
* `OutboxAssumption`, `WriteAssumption`: a change names at least one projection.

Two theorems have a hypothesis of their own. `PaidNotRefused` is about a system in which no process
sleeps past its lease, no transaction fails that could commit, and the owner rejects by what the
provider shows: the constants of `MCTopup_calm`. `NothingLeftBehind` supposes that every log
projection is named first by the transactions that enqueue it, as in `MCOutbox_deliver`;
`MCOutbox_receipt` shows that the code does not do so everywhere and what happens then.
`NamedFirstIsScheduled` is what holds in either case.

### Theorems

| module | theorem | property |
|---|---|---|
| `SettlementProofs` | `TypeCorrect` | `TypeOK`: every row in its value set, balances in `Nat` |
| | `Settlements` | `SettlementAgreement` |
| | `HeldMoney` | `HeldMoneyKeepsOrderOpen` |
| | `OpenOrders` | `OpenOrdersHoldAccountAndToken` |
| | `EscrowKept` | `EscrowIsKept`: `Fulfilment` implements `Escrow` |
| | `MoneyConserved` | `WalletMatchesReservations` |
| `OwnershipProofs` | `OwnersSee` | `OwnerSeesItsStage` |
| | `EarlierRequestsSeen` | `EarlierRequestIsSeen` |
| | `ReviewsOpen` | `HeldReviewIsOpen` |
| | `HeldFollowMap` | `HeldItemsFollowMap` |
| `TopupProofs` | `TopupTypeCorrect` | `TypeOK` |
| | `InDoubtNotRetried` | `NothingInDoubtIsRetried` |
| | `ReviewsDecidable` | `ReviewedIsDecidable` |
| | `LeasesAreForProcessing` | `OwnerSeesProcessing` |
| | `DispatchBounded` | `BoundedDispatch` |
| | `PaidNotRefused` | `PaidIsNotRefused`, see above |
| | `VoucherKept` | `VoucherCreditKept`: `TopupPayment` implements `VoucherCredit` |
| | `CreditsConserved` | `CreditsAddUp` |
| `CheckoutProofs` | `CheckoutTypeCorrect` | `TypeOK` |
| | `TokensFollowSessions` | `TokenFollowsSession` |
| | `OneOrder` | `OneOrderPerAccount` |
| | `OrdersAreQuoted` | `OrderIsQuoted` |
| `LedgerProofs` | `LedgerTypeCorrect` | `TypeOK`, balances in `Nat` |
| | `ChainUnbroken` | `ChainIsUnbroken` |
| | `WalletsMatch` | `WalletMatchesLedger` |
| | `BonusLimited` | `BonusIsLimited` |
| `OutboxProofs` | `OutboxTypeCorrect` | `TypeOK` |
| | `SummaryPostedOnce` | `OrderDmAtMostOnce` |
| | `NamedFirstIsScheduled` | – |
| | `NothingLeftBehind` | `WantedIsScheduled`, see above |
| `CatalogProofs` | `CatalogTypeCorrect` | `TypeOK` |
| | `OnlySupportedIsOpen` | `OpenIsSupported` |
| | `RepeatsAreClean` | `RepeatedTestLeftNothing` |
| | `VerdictsAreFinal` | `VerdictStands` |

### `Fulfilment`

The argument goes in layers, each with an invariant.

1. `TypeOK` is inductive by itself: a release or capture compares `reserved` with the price, an
   order compares `available` with its total, so no balance leaves `Nat`.
2. `SettlementInv` adds to it what the tables owe each other and what the jobs may be. An order
   that is open has its token and its lock and its items have reservations; a reservation of an
   absent order is `NONE`; a claimable item has its price taken. None of the properties is
   inductive alone: that capturing the last item may close the order needs that the others are
   terminal *and* that a terminal item holds no money, which is the agreement of item and
   reservation; that maintenance's `Recover` never revives a settled item needs to know which job
   states a settled item can have. From `SettlementInv` each step either changes money as one
   step of `Escrow` or leaves the four money variables alone, which is the step-simulation half of
   `EscrowKept`.
3. Conservation is then proved of the four operations of `Escrow` alone instead of some forty
   actions, and carried over by the step simulation. Its invariant (`EscrowInv`) needs besides the
   two sums that what was refunded is a captured item; `MoneyConserved` rests on it together with
   `SettlementInv`.
4. `OwnershipInv` relates each worker's memory to the tables: a worker that passes the fencing
   check (`Owns`) is the only one, its token is the row's, and job and item are where its own last
   step left them; a held item has the job state its item state calls for; while maintenance is
   between releasing an item and failing its job, the price is back. Every action that moves an
   owned job in somebody else's name also takes `holder` away, so the implication becomes vacuous
   for the former owner: the proof has one step for each action, and under it one for items and
   one for workers. `SnapshotInv` goes beside it: of a job that still is as the open recovery
   sees it, only a request of the current dispatch can be pending unseen. That is so because a
   new dispatch raises the token and thereby leaves the snapshot, and because requests are written
   by owners only; it is what `EarlierRequestsSeen` needs of `Recover`.

### `TopupPayment`

There is one invariant, `PaymentInv`, in four parts: `TypeOK`; `RowInv`, what a row's columns say of
each other (a live lease means PROCESSING, MANUAL_REVIEW an open review, a voucher that is queued or
waits has an attempt left); `ClaimInv`, that a pass that claimed a voucher either still owns it or
nobody will claim it again, and that a voucher is in doubt for its owner only if that owner sent it;
`CreditInv`, that a REDEEMED voucher was paid and has its face value as amount, and that a pass
about to credit has such a voucher or one credited meanwhile. No property is inductive alone. That a
voucher in doubt is not queued again needs that only its owner can send it to RETRY_WAIT, and that
an owner who does so holds a definite answer or never sent the request; that attempts are bounded
needs that the number the worker compares with the limit is still the row's. `VoucherKept` then
takes each step to a step of `VoucherCredit` or to a stutter: a worker's credit needs from
`CreditInv` that the voucher was paid and how much, and a refusal that nobody credited it before.
`CreditsConserved` uses the same simulation: a step of `VoucherCredit` conserves the sums, a stutter
leaves them alone.

`PaidNotRefused` adds `CalmInv`: a voucher the provider paid, or may still pay, is being processed,
under review or redeemed; a pass that has yet to ask owns its voucher (here no stall may come in
between); and a pass that owns it and is about to record a refusal or another try never asked, or
was told that nothing is paid. With stalls TLC refutes `CalmInv`.

### `Checkout`

`CheckoutInv` consists of `TypeOK`; `RowsInv` (a session that does not exist has left nothing, one for
Quests has an account, the order of an open account is a confirmed session's); `MemoryInv`, that
the session, entry and choices a handler read in an earlier transaction are there and are of the
kind it took them for, whatever was clicked, expired or confirmed since; and the two invariants
themselves. A handler's rows do not vanish under it: `ExpireSessions` forgets a session a week after
it closed, when no handler remembers it. `OrderIsQuoted` is an action property and needs no history: `ConfirmOrder`
compares all of it again in the transaction that makes the order.

### `Ledger`

`BooksInv` consists of `TypeOK`, the two properties of the books, `LedgerInv` and `UsageInv`.
`LedgerInv` says that ids tell the entries apart, that for a user who was never overtaken the order
by time is the order of the numbers (`InOrder`), and that an item with a refund entry has been
refunded. The theory behind it is small: `Before` is a total order on a finite set of entries, so
there is a newest one and it is unique. All wallet operations are brought to one form, `Enters`: the
balances move by the sums of the changes, the entries carry the partial sums, each names the one
before it. Then one lemma each shows that entering keeps the order, the chain and the match, for
reservations of any number of items. For retention, what is pruned of a user is a prefix of his
chain whatever the batch cuts (`PrunedIsPrefix`), so the newest pruned entry is what the first kept
one names. A second refund that finds its old entry credits without entering: this is why
`WalletMatchesLedger` is about users refunded once, and the place in the proof is
`returned[i] >= 1` of `LedgerInv`.

`UsageInv`: a use belongs to a top-up that is no longer REDEEMED and carries its bonus, so a top-up
is used once and the sum over the uses of a day is the sum over their top-ups. That the sum stays
within the limit needs that a bonus is the lesser of the share and what is left of the day;
`BonusType` shows that it is a natural number, half-up rounding included, and keeps the day within
the limit.

### `Outbox`

`OutboxInv` consists of `TypeOK`; `EventsInv` (keys of changes to come are free, a loop at work has an
event that exists, only a summary is claimed); `SummariesInv`, for an order's summary: the claim in
`orders.dm_summary_attempted_at` comes before every publication, one loop at a time is on its way
to publish, and none is once a message is out; and `NamedAreScheduled`. The claim is what makes the
summary safe against two loops, lost answers and replays alike: no part of the argument speaks
of leases. For `NamedAreScheduled` the hard step is the acknowledgement: it settles the version
wanted at that moment and marks the events delivered, so nothing may stay behind that is newer than
what is marked.

### `Catalog`

`OpenIsSupported` is inductive with `PlanInv`: maintenance writes what it planned from a row it read
before, and what it plans is never OPEN. For the tests `TestsInv` relates the mark of a request in
the database (`PREPARED`, `IN_FLIGHT`, ...) to the step of the one loop that works on the run
(`Alone`), and says that a request whose effect nobody looked up is marked as uncertain and that a
recovered run is repeated only if it has no such mark and no loop is past the check of one
(`NoMarkUnderWay`), unless recovery and mark missed each other (`raced`). A check made after the
recovery fails, so a run without a mark under way at its recovery gets none later.

### How sums are proved about

The library's induction theorems take an operator as parameter, which the provers at hand cannot
instantiate. `SumLemmas` takes a set in its place: `SubsetInduction` says that a set of subsets of a
finite S which contains {} and, with each member, that member and one element more, contains S.
With it the recursive function behind `MapThenSumSet` is shown to be defined, and its value to be
independent of the element chosen; the rest (type, one element more, disjoint union, negation,
equal values) are the facts the proofs cite. `LeastNat` does the same for choosing the next free
number. So sums over sets of any finite size are within reach; what recursion over other data
computes is not proved here, and no model needs it.

The proofs led to corrections of the models: two branches of `Reconciled` in `Catalog` overlapped (a
Quest that is over while on sale), where `CASE` promises neither; and `SUBSET S \ {x}` was written with
parentheses, since tools differ in what they make of it.

### Only model-checked

* Liveness (`HeldMoneyIsSettled`, `EveryVoucherIsAnswered`, `TokenIsForgotten`, `EveryEventSettles`,
  `QuietChangeIsShown`, `OverLeavesSale`, `RetestOrPause`): fairness and ENABLED are out of the
  prover's reach.
* What the four runs refute, and the statements TLC refutes without a run.

## 5. Not modelled, and the plan

In this order:

1. Proofs of what holds instead of what TLC refutes: that a preflight covers its order when nothing
   was chosen meanwhile, that a dispatch before the execution is bounded, how far the queue limit
   can be passed; and a general statement of the overtaken entry (which entries of an overtaken
   user still form a chain).
2. `RuntimeLease` (`db/leases.js`): at most one maintenance leader, composed with two maintenance
   loops. The loop looks at its lease between steps only, so the statement to prove is about live
   leases and not about passes.
3. `RateLimits` and the fair queue of the Quest engine; gates, circuit breakers and the
   restart of loops in the worker manager.

Left out for good: rendering of messages, command routing and channel set-up, encryption,
environment parsing, HTTP exchanges, backup upload, alert thresholds, re-encryption of rows,
editing of promotions, receivers and prices (single-row updates whose effect on others is an
environment action), and what retention deletes besides refunds and ledger (rows nothing refers to
any more). They keep no state the properties above depend on, or are pure I/O.
