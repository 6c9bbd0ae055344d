----------------------------- MODULE Fulfilment -----------------------------
(***************************************************************************)
(* How a confirmed order is carried out: checkout reserves the price of    *)
(* every item, the items of an order become runner jobs one after another, *)
(* runner workers lease the jobs and settle the items, the maintenance     *)
(* worker recovers what crashed or expired, and operators decide what is   *)
(* in doubt.  domain/{checkout,wallet,runner,reviews,orders}/,             *)
(* domain/admin/operations-service.js and workers/maintenance-worker.js.   *)
(*                                                                         *)
(* Every action is one committed database transaction (with the local step *)
(* of the process that ran it) or one event of the environment.  The       *)
(* recovery of the maintenance worker is the exception: its transaction    *)
(* reads from the snapshot of its first statement, and what a runner       *)
(* writes to another table than runner_jobs raises no conflict with it, so *)
(* beginning and committing it are two actions.  A lease is live or not: a *)
(* holder is the lease_owner of a row whose lease_expires_at is in the     *)
(* future, so renewing a live lease changes nothing and LeaseExpires may   *)
(* come between any two steps of its holder.                               *)
(***************************************************************************)
EXTENDS Integers, FiniteSets, FiniteSetsExt, OrderStates

CONSTANTS Users, Accounts, Orders, Items,
          Workers,           \* the runner loops of all processes (lease holders)
          UserOf,            \* [Orders -> Users], orders.discord_user_id
          AccountOf,         \* [Orders -> Accounts], orders.account_id
          OrderOf,           \* [Items -> Orders], order_items.order_id
          Position,          \* [Items -> Nat], order_items.sequence_number
          Price,             \* [Items -> Nat \ {0}], order_items.price_cents
          Funding,           \* [Users -> Nat], the credit a wallet starts with
          QueueLimit,        \* 500 in the code
          MaxAttempts,       \* 3 in the code
          MaxToken,          \* bound on the dispatches of one job, for TLC
          Faults,            \* BOOLEAN: may a process crash, stall or be shut down
          Nobody, NoOrder, NoItem

ItemsOf(o) == { i \in Items : OrderOf[i] = o }
Payer == [i \in Items |-> UserOf[OrderOf[i]]]
Total(S) == MapThenSumSet(LAMBDA i : Price[i], S)

ASSUME FulfilmentAssumption ==
  /\ IsFiniteSet(Items)
  /\ UserOf \in [Orders -> Users]
  /\ AccountOf \in [Orders -> Accounts]
  /\ OrderOf \in [Items -> Orders]
  /\ Position \in [Items -> Nat]
  /\ Price \in [Items -> Nat \ {0}]
  /\ Funding \in [Users -> Nat]
  /\ QueueLimit \in Nat /\ MaxAttempts \in Nat /\ MaxToken \in Nat
  /\ Faults \in BOOLEAN
  /\ Nobody \notin Workers /\ NoOrder \notin Orders /\ NoItem \notin Items

\* An order has items.
ASSUME OrderAssumption == \A o \in Orders : ItemsOf(o) # {}

VARIABLES
  order,        \* [Orders -> OrderState]: orders row and its completed_at
  credential,   \* SUBSET Orders: rows of order_credentials
  accountLock,  \* [Accounts -> Orders + NoOrder]: rows of active_quest_accounts
  item,         \* [Items -> ItemState]: order_items.state
  reservation,  \* [Items -> ReservationState]: wallet_reservations.state
  refunded,     \* SUBSET Items: rows of refunds
  available,    \* [Users -> Nat]: wallets.available_cents
  reserved,     \* [Users -> Nat]: wallets.reserved_cents
  job,          \* [Items -> JobState]: runner_jobs.state (one job per item)
  holder,       \* [Items -> Workers + Nobody]: runner_jobs.lease_owner while live
  token,        \* [Items -> Nat]: runner_jobs.fencing_token (= attempt_count)
  mutation,     \* [Items -> MutationState]: status of the job's last runner_mutations row
  attempt,      \* [Items -> Nat]: the dispatch that wrote this row (its attempt_id)
  inDoubt,      \* SUBSET Items: Discord may hold a request whose effect nobody has seen
  review,       \* [Items -> ReviewState]: the item's last manual_reviews row
  deadline,     \* [Items -> DeadlineState]: deadline_at against the database clock
  wpc, witem, wtoken,              \* the runner loops: step, job and token in memory
  mpc, mtodo, mjobs, mcur, morders, \* the maintenance loop and its query results
  mseen, mpending  \* its open recovery: the jobs that may be due, those with a request pending

orderVars  == << order, credential, accountLock >>
moneyVars  == << reservation, refunded, available, reserved >>
jobVars    == << job, holder, token >>
mutVars    == << mutation, attempt, inDoubt >>
workerVars == << wpc, witem, wtoken >>
passVars   == << mpc, mtodo, mjobs, mcur, morders >>
maintVars  == << passVars, mseen, mpending >>
vars == << orderVars, moneyVars, item, jobVars, mutVars, review, deadline,
           workerVars, maintVars >>

OrderState == { Absent, "OPEN", "COMPLETED" }
ReservationState == { "NONE", "RESERVED", "CAPTURED", "RELEASED" }
MutationState == { "NONE", "IN_FLIGHT", "ACCEPTED", "UNCERTAIN", "VERIFIED", "FAILED" }
\* Mutant: an acknowledged request counts as done before it was verified.
PendingWithoutAccepted == { "IN_FLIGHT", "UNCERTAIN" }
PendingMutation == { "IN_FLIGHT", "ACCEPTED", "UNCERTAIN" }
ReviewState == { "NONE", "OPEN", "RESOLVED" }
\* STRIKING: passed, but a transaction that read the clock earlier may still commit.
DeadlineState == { "AHEAD", "STRIKING", "PAST" }
WorkerStep == { "idle", "leased", "running", "sending", "verifying", "retrying",
                "settling", "captured", "released", "counting", "inserting" }
MaintStep == { "idle", "begun", "recovered", "releasing", "failing", "counting", "inserting" }
FinalJobStates == { "COMPLETED", "FAILED" }

OrdersOK ==
  /\ order \in [Orders -> OrderState]
  /\ credential \in SUBSET Orders
  /\ accountLock \in [Accounts -> Orders \cup { NoOrder }]
  /\ item \in [Items -> ItemState]

MoneyOK ==
  /\ reservation \in [Items -> ReservationState]
  /\ refunded \in SUBSET Items
  /\ available \in [Users -> Nat] /\ reserved \in [Users -> Nat]

JobsOK ==
  /\ job \in [Items -> JobState]
  /\ holder \in [Items -> Workers \cup { Nobody }]
  /\ token \in [Items -> Nat]
  /\ mutation \in [Items -> MutationState]
  /\ attempt \in [Items -> Nat]
  /\ inDoubt \in SUBSET Items
  /\ review \in [Items -> ReviewState]
  /\ deadline \in [Items -> DeadlineState]

\* A loop that is at work has a job in hand.
WorkersOK ==
  /\ wpc \in [Workers -> WorkerStep]
  /\ witem \in [Workers -> Items \cup { NoItem }]
  /\ wtoken \in [Workers -> Nat]
  /\ \A w \in Workers : wpc[w] # "idle" => witem[w] \in Items

MaintenanceOK ==
  /\ mpc \in MaintStep
  /\ mtodo \in SUBSET Items /\ mjobs \in SUBSET Items
  /\ mcur \in Items \cup { NoItem } /\ (mpc = "failing" => mcur \in Items)
  /\ morders \in SUBSET Orders
  /\ mseen \in SUBSET Items /\ mpending \in SUBSET Items

\* Every row and variable stays in the values the schema and the code know; in
\* particular no balance is ever overdrawn.
TypeOK == OrdersOK /\ MoneyOK /\ JobsOK /\ WorkersOK /\ MaintenanceOK

Init ==
  /\ order = [o \in Orders |-> Absent]
  /\ credential = {}
  /\ accountLock = [a \in Accounts |-> NoOrder]
  /\ item = [i \in Items |-> Absent]
  /\ reservation = [i \in Items |-> "NONE"]
  /\ refunded = {}
  /\ available = Funding
  /\ reserved = [u \in Users |-> 0]
  /\ job = [i \in Items |-> Absent]
  /\ holder = [i \in Items |-> Nobody]
  /\ token = [i \in Items |-> 0]
  /\ mutation = [i \in Items |-> "NONE"]
  /\ attempt = [i \in Items |-> 0]
  /\ inDoubt = {}
  /\ review = [i \in Items |-> "NONE"]
  /\ deadline = [i \in Items |-> "AHEAD"]
  /\ wpc = [w \in Workers |-> "idle"]
  /\ witem = [w \in Workers |-> NoItem]
  /\ wtoken = [w \in Workers |-> 0]
  /\ mpc = "idle" /\ mtodo = {} /\ mjobs = {} /\ mcur = NoItem /\ morders = {}
  /\ mseen = {} /\ mpending = {}

-----------------------------------------------------------------------------
(* Shared parts of the transactions.  A definition marked Mutant is not part *)
(* of the model: it is what a bug would make of the definition it precedes.  *)

\* What a step of a runner loop, or of the maintenance loop, leaves alone when it
\* changes no table.
OnlyTheWorker ==
  UNCHANGED << orderVars, moneyVars, item, jobVars, mutVars, review, deadline, maintVars >>
OnlyMaintenance ==
  UNCHANGED << orderVars, moneyVars, item, jobVars, mutVars, review, deadline, workerVars >>

\* A row that changed is not the version that an open recovery sees: the job is passed
\* over when its lease was not over there, and else the recovery is refused (40001).
SnapshotAges ==
  /\ mseen' = { i \in mseen : job'[i] = job[i] /\ item'[i] = item[i] /\ token'[i] = token[i] }
  /\ mpending' = mpending \cap mseen'
  /\ UNCHANGED passVars

\* count(*) FROM runner_jobs WHERE state IN (...) is below the limit.
QueueHasRoom ==
  Cardinality({ i \in Items : job[i] \in { "QUEUED", "LEASED", "RUNNING",
                              "WAITING_RATE_LIMIT", "WAITING_RETRY" } }) < QueueLimit

\* Mutant: the token outlives the order.
CloseKeepingToken(o) ==
  /\ order' = [order EXCEPT ![o] = "COMPLETED"]
  /\ accountLock' = [a \in Accounts |-> IF accountLock[a] = o THEN NoOrder ELSE accountLock[a]]
  /\ UNCHANGED credential

CloseOrder(o) ==
  /\ order' = [order EXCEPT ![o] = "COMPLETED"]
  /\ credential' = credential \ { o }
  /\ accountLock' = [a \in Accounts |-> IF accountLock[a] = o THEN NoOrder ELSE accountLock[a]]

\* Mutant: the items still waiting for their turn do not count as active.
FinalizeIgnoringWaiting(o, items) ==
  IF order[o] = "OPEN" /\ \A k \in ItemsOf(o) : items[k] \in TerminalItemStates \cup { "RESERVED" }
  THEN CloseOrder(o) ELSE UNCHANGED orderVars

\* Closes the order of the item just settled, when items (the states after the
\* settlement) leave it no active one; only the first closing deletes anything.
FinalizeOrderIfTerminal(o, items) ==
  IF order[o] = "OPEN" /\ \A k \in ItemsOf(o) : items[k] \in TerminalItemStates
  THEN CloseOrder(o) ELSE UNCHANGED orderVars

\* captureReservationInTransaction on a RESERVED row; from is the item's state then.
CaptureReservation(i, from) ==
  /\ reservation[i] = "RESERVED"
  /\ MayMove(OrderItemTransitions, from, "READY_TO_CLAIM")
  /\ reserved[Payer[i]] >= Price[i]
  /\ reserved' = [reserved EXCEPT ![Payer[i]] = @ - Price[i]]
  /\ reservation' = [reservation EXCEPT ![i] = "CAPTURED"]
  /\ item' = [item EXCEPT ![i] = "READY_TO_CLAIM"]
  /\ FinalizeOrderIfTerminal(OrderOf[i], item')
  /\ UNCHANGED << available, refunded >>

\* Mutant: neither the row nor the balance is looked at before the money goes back.
ReturnMoneyUnchecked(i) ==
  /\ reserved' = [reserved EXCEPT ![Payer[i]] = @ - Price[i]]
  /\ available' = [available EXCEPT ![Payer[i]] = @ + Price[i]]
  /\ reservation' = [reservation EXCEPT ![i] = "RELEASED"]
  /\ UNCHANGED refunded

\* The balances and the row of a reservation that is given back.
ReturnMoney(i) ==
  /\ reservation[i] = "RESERVED"
  /\ reserved[Payer[i]] >= Price[i]
  /\ reserved' = [reserved EXCEPT ![Payer[i]] = @ - Price[i]]
  /\ available' = [available EXCEPT ![Payer[i]] = @ + Price[i]]
  /\ reservation' = [reservation EXCEPT ![i] = "RELEASED"]
  /\ UNCHANGED refunded

\* Mutant: the transition map is not asked.
ReleaseAnyItem(i, terminalState) ==
  /\ ReturnMoney(i)
  /\ item' = [item EXCEPT ![i] = terminalState]
  /\ FinalizeOrderIfTerminal(OrderOf[i], item')

\* Mutant: the item is shown as released before its money is.
ReleaseItemOnly(i, terminalState) ==
  /\ reservation[i] = "RESERVED"
  /\ MayMove(OrderItemTransitions, item[i], terminalState)
  /\ item' = [item EXCEPT ![i] = terminalState]
  /\ FinalizeOrderIfTerminal(OrderOf[i], item')
  /\ UNCHANGED moneyVars

\* releaseReservationInTransaction on a RESERVED row.
ReleaseReservation(i, terminalState) ==
  /\ MayMove(OrderItemTransitions, item[i], terminalState)
  /\ ReturnMoney(i)
  /\ item' = [item EXCEPT ![i] = terminalState]
  /\ FinalizeOrderIfTerminal(OrderOf[i], item')

\* Mutant: the second release of a row pays again.
PaidAgain(i) ==
  /\ reservation[i] = "RELEASED"
  /\ available' = [available EXCEPT ![Payer[i]] = @ + Price[i]]
  /\ UNCHANGED << reservation, refunded, reserved, item, orderVars >>

\* A row already RELEASED is returned as it is.
AlreadyReleased(i) ==
  /\ reservation[i] = "RELEASED"
  /\ UNCHANGED << moneyVars, item, orderVars >>

\* Mutant: a review resolved before is not opened again.
OpenFirstReviews(S) ==
  review' = [i \in Items |-> IF i \in S /\ review[i] = "NONE" THEN "OPEN" ELSE review[i]]

\* openReview for each item of S: an unresolved review stays, else a new one is opened.
OpenReviews(S) == review' = [i \in Items |-> IF i \in S THEN "OPEN" ELSE review[i]]

\* Mutant: the job goes to the review with its lease.
JobToReviewLeased(i) ==
  /\ job' = [job EXCEPT ![i] = "MANUAL_REVIEW"]
  /\ UNCHANGED << holder, token >>

JobToReview(i) ==
  /\ job' = [job EXCEPT ![i] = "MANUAL_REVIEW"]
  /\ holder' = [holder EXCEPT ![i] = Nobody]
  /\ UNCHANGED token

\* The item materializeNextOrderItem takes: the first RESERVED one of the order.
Waiting(o) == { i \in ItemsOf(o) : item[i] = "RESERVED" }
NextInLine(o) == CHOOSE i \in Waiting(o) : \A k \in Waiting(o) : Position[i] <= Position[k]

MaterializeNextOrderItem(o) ==
  IF Waiting(o) = {} THEN UNCHANGED << item, jobVars >>
  ELSE /\ item' = [item EXCEPT ![NextInLine(o)] = "QUEUED"]
       /\ job' = [job EXCEPT ![NextInLine(o)] = "QUEUED"]
       /\ UNCHANGED << holder, token >>

-----------------------------------------------------------------------------
(* Checkout: confirmOrder, one SERIALIZABLE transaction *)

FirstItem(o) == CHOOSE i \in ItemsOf(o) : \A k \in ItemsOf(o) : Position[i] <= Position[k]

\* A new order, room in the queue, no active order of the account, time left, money.
Admitted(o) ==
  /\ order[o] = Absent
  /\ QueueHasRoom
  /\ accountLock[AccountOf[o]] = NoOrder
  /\ \A i \in ItemsOf(o) : deadline[i] = "AHEAD"
  /\ available[UserOf[o]] >= Total(ItemsOf(o))

\* The order with its account lock and its stored token.
CreateOrder(o) ==
  /\ order' = [order EXCEPT ![o] = "OPEN"]
  /\ accountLock' = [accountLock EXCEPT ![AccountOf[o]] = o]
  /\ credential' = credential \cup { o }

ReserveOrderItems(o) ==
  LET u == UserOf[o]  S == ItemsOf(o) IN
  /\ available' = [available EXCEPT ![u] = @ - Total(S)]
  /\ reserved' = [reserved EXCEPT ![u] = @ + Total(S)]
  /\ reservation' = [i \in Items |-> IF i \in S THEN "RESERVED" ELSE reservation[i]]
  /\ UNCHANGED refunded

\* All items are reserved, the first one becomes a job at once.
ConfirmOrder(o) ==
  /\ Admitted(o)
  /\ CreateOrder(o)
  /\ ReserveOrderItems(o)
  /\ item' = [i \in Items |-> IF i = FirstItem(o) THEN "QUEUED"
                              ELSE IF i \in ItemsOf(o) THEN "RESERVED" ELSE item[i]]
  /\ job' = [job EXCEPT ![FirstItem(o)] = "QUEUED"]
  /\ UNCHANGED << holder, token, mutVars, review, deadline, workerVars, maintVars >>

-----------------------------------------------------------------------------
(* The runner loop: acquireRunnableJob, then processRunnerJob *)

\* lease_owner = w AND fencing_token = its token AND lease_expires_at > now
Owns(w) ==
  /\ wpc[w] # "idle"
  /\ holder[witem[w]] = w
  /\ token[witem[w]] = wtoken[w]

Step(w, next) == wpc' = [wpc EXCEPT ![w] = next] /\ UNCHANGED << witem, wtoken >>

\* The loop starts over; what it had in memory is gone.
Restart(w) ==
  /\ wpc' = [wpc EXCEPT ![w] = "idle"]
  /\ witem' = [witem EXCEPT ![w] = NoItem]
  /\ wtoken' = [wtoken EXCEPT ![w] = 0]

\* A QUEUED job whose item is not QUEUED raises ITEM_STATE_CONFLICT and rolls back.
AcquireRunnableJob(w, i) ==
  /\ wpc[w] = "idle"
  /\ job[i] = "QUEUED" /\ item[i] = "QUEUED"
  /\ deadline[i] # "PAST"
  /\ token[i] < MaxToken
  /\ job' = [job EXCEPT ![i] = "LEASED"]
  /\ item' = [item EXCEPT ![i] = "LEASED"]
  /\ holder' = [holder EXCEPT ![i] = w]
  /\ token' = [token EXCEPT ![i] = @ + 1]
  /\ deadline' = [deadline EXCEPT ![i] = IF @ = "STRIKING" THEN "PAST" ELSE @]
  /\ wpc' = [wpc EXCEPT ![w] = "leased"]
  /\ witem' = [witem EXCEPT ![w] = i]
  /\ wtoken' = [wtoken EXCEPT ![w] = token[i] + 1]
  /\ UNCHANGED << orderVars, moneyVars, mutVars, review >>
  /\ SnapshotAges

\* resolveRunnerFailure on a transient error while attempts are left, or on a
\* shutdown: checkpointRetryJob puts job and item (whatever its state) back.
CheckpointRetryJob(w) ==
  LET i == witem[w] IN
  /\ wpc[w] = "leased" /\ Owns(w)
  /\ wtoken[w] < MaxAttempts \/ Faults
  /\ job' = [job EXCEPT ![i] = "QUEUED"]
  /\ item' = [item EXCEPT ![i] = "QUEUED"]
  /\ holder' = [holder EXCEPT ![i] = Nobody]
  /\ Restart(w)
  /\ UNCHANGED << orderVars, moneyVars, token, mutVars, review, deadline >>
  /\ SnapshotAges

\* resolveRunnerFailure on a contract failure: looks at the job, not at who owns it.
MoveRunnerToManualReview(w) ==
  LET i == witem[w] IN
  /\ wpc[w] = "leased"
  /\ job[i] \notin FinalJobStates \cup { "MANUAL_REVIEW" }
  /\ JobToReview(i)
  /\ item' = [item EXCEPT ![i] = "MANUAL_REVIEW"]
  /\ OpenReviews({ i })
  /\ Restart(w)
  /\ UNCHANGED << orderVars, moneyVars, mutVars, deadline >>
  /\ SnapshotAges

\* releaseBeforeExecution (the quest is done elsewhere, or no longer fits before its
\* expiry) and the last branch of resolveRunnerFailure (any definite failure).
RunnerRelease(w) ==
  LET i == witem[w] IN
  /\ wpc[w] = "leased" /\ Owns(w)
  /\ \/ \E t \in { "EXTERNAL_COMPLETED_RELEASED", "EXPIRED_RELEASED", "FAILED_RELEASED" } :
          ReleaseReservation(i, t)
     \/ AlreadyReleased(i)
  /\ Step(w, "released")
  /\ UNCHANGED << jobVars, mutVars, review, deadline >>
  /\ SnapshotAges

\* failJob reads the current row and fails it in the name of its current owner.
FailJob(w) ==
  LET i == witem[w] IN
  /\ wpc[w] = "released"
  /\ \/ job[i] \in FinalJobStates /\ UNCHANGED jobVars
     \/ /\ job[i] \notin FinalJobStates /\ holder[i] # Nobody
        /\ job' = [job EXCEPT ![i] = "FAILED"]
        /\ holder' = [holder EXCEPT ![i] = Nobody]
        /\ UNCHANGED token
  /\ Step(w, "counting")
  /\ UNCHANGED << orderVars, moneyVars, item, mutVars, review, deadline >>
  /\ SnapshotAges

TransitionRunning(w) ==
  LET i == witem[w] IN
  /\ wpc[w] = "leased" /\ Owns(w)
  /\ job[i] = "LEASED" /\ item[i] = "LEASED"
  /\ job' = [job EXCEPT ![i] = "RUNNING"]
  /\ item' = [item EXCEPT ![i] = "RUNNING"]
  /\ Step(w, "running")
  /\ UNCHANGED << orderVars, moneyVars, holder, token, mutVars, review, deadline >>
  /\ SnapshotAges

-----------------------------------------------------------------------------
(* executeMutation: a request to Discord behind a durable checkpoint *)

\* What every step of executeMutation leaves alone.
MutationFrame ==
  UNCHANGED << orderVars, moneyVars, item, jobVars, review, deadline, maintVars >>

\* prepareMutation; the request may be out from here on.
PrepareMutation(w) ==
  /\ wpc[w] = "running" /\ Owns(w)
  /\ mutation[witem[w]] \notin PendingMutation
  /\ mutation' = [mutation EXCEPT ![witem[w]] = "IN_FLIGHT"]
  /\ attempt' = [attempt EXCEPT ![witem[w]] = wtoken[w]]
  /\ inDoubt' = inDoubt \cup { witem[w] }
  /\ Step(w, "sending")
  /\ MutationFrame

\* acceptInitialMutation: answered, or the answer is uncertain.
AcceptInitialMutation(w) ==
  /\ wpc[w] = "sending" /\ Owns(w)
  /\ \E s \in { "ACCEPTED", "UNCERTAIN" } : mutation' = [mutation EXCEPT ![witem[w]] = s]
  /\ Step(w, "verifying")
  /\ MutationFrame /\ UNCHANGED << attempt, inDoubt >>

\* acceptInitialMutation: refused for certain; the error leaves executeMutation.
RefuseInitialMutation(w) ==
  /\ wpc[w] = "sending" /\ Owns(w)
  /\ mutation' = [mutation EXCEPT ![witem[w]] = "FAILED"]
  /\ inDoubt' = inDoubt \ { witem[w] }
  /\ Restart(w)
  /\ MutationFrame /\ UNCHANGED attempt

\* verifyMutationResult or controlledRetry see the effect in a fresh read.
MutationVerified(w) ==
  /\ wpc[w] \in { "verifying", "retrying" } /\ Owns(w)
  /\ mutation' = [mutation EXCEPT ![witem[w]] = "VERIFIED"]
  /\ inDoubt' = inDoubt \ { witem[w] }
  /\ Step(w, "running")
  /\ MutationFrame /\ UNCHANGED attempt

\* The fresh read, or the controlled retry, fails: UNCERTAIN, MUTATION_AMBIGUOUS is thrown.
MutationUnreadable(w) ==
  /\ wpc[w] \in { "verifying", "retrying" } /\ Owns(w)
  /\ mutation' = [mutation EXCEPT ![witem[w]] = "UNCERTAIN"]
  /\ Restart(w)
  /\ MutationFrame /\ UNCHANGED << attempt, inDoubt >>

\* The effect does not show: the row is marked and the request is sent once more.
MutationNotApplied(w) ==
  /\ wpc[w] = "verifying" /\ Owns(w)
  /\ mutation' = [mutation EXCEPT ![witem[w]] = IF @ = "UNCERTAIN" THEN @ ELSE "FAILED"]
  /\ Step(w, "retrying")
  /\ MutationFrame /\ UNCHANGED << attempt, inDoubt >>

-----------------------------------------------------------------------------
(* Settlement by the runner *)

\* RUNNING -> VERIFYING -> SETTLING in one transaction.
TransitionToSettling(w) ==
  LET i == witem[w] IN
  /\ wpc[w] = "running" /\ Owns(w)
  /\ job[i] = "RUNNING" /\ item[i] = "RUNNING"
  /\ job' = [job EXCEPT ![i] = "SETTLING"]
  /\ item' = [item EXCEPT ![i] = "SETTLING"]
  /\ Step(w, "settling")
  /\ UNCHANGED << orderVars, moneyVars, holder, token, mutVars, review, deadline >>
  /\ SnapshotAges

\* A row already CAPTURED is returned as it is; a RELEASED one raises an error.
RunnerCapture(w) ==
  LET i == witem[w] IN
  /\ wpc[w] = "settling" /\ Owns(w)
  /\ \/ CaptureReservation(i, item[i])
     \/ reservation[i] = "CAPTURED" /\ UNCHANGED << moneyVars, item, orderVars >>
  /\ Step(w, "captured")
  /\ UNCHANGED << jobVars, mutVars, review, deadline >>
  /\ SnapshotAges

CompleteJob(w) ==
  LET i == witem[w] IN
  /\ wpc[w] = "captured" /\ Owns(w)
  /\ job[i] = "SETTLING"
  /\ job' = [job EXCEPT ![i] = "COMPLETED"]
  /\ holder' = [holder EXCEPT ![i] = Nobody]
  /\ Step(w, "counting")
  /\ UNCHANGED << orderVars, moneyVars, item, token, mutVars, review, deadline >>
  /\ SnapshotAges

\* materializeNextOrderItem counts the queue in one statement and inserts in another.
WorkerCountsQueue(w) ==
  /\ wpc[w] = "counting"
  /\ IF QueueHasRoom THEN Step(w, "inserting") ELSE Restart(w)
  /\ OnlyTheWorker

WorkerInsertsJob(w) ==
  /\ wpc[w] = "inserting"
  /\ MaterializeNextOrderItem(OrderOf[witem[w]])
  /\ Restart(w)
  /\ UNCHANGED << orderVars, moneyVars, mutVars, review, deadline, maintVars >>

\* An error during the execution leaves processRunnerJob past its catch block (the call
\* is returned, not awaited), and one before it ends there when the release is refused:
\* the job keeps its state and its lease until the lease runs out.
ExecutionError(w) ==
  /\ wpc[w] \in { "leased", "running", "sending", "verifying", "retrying" }
  /\ Restart(w)
  /\ OnlyTheWorker

\* A fenced statement matches no row, or finds a state it does not expect.
FencingLost(w) ==
  /\ \/ wpc[w] \notin { "idle", "released", "counting", "inserting" } /\ ~Owns(w)
     \/ /\ wpc[w] = "released" /\ holder[witem[w]] = Nobody
        /\ job[witem[w]] \notin FinalJobStates
     \/ wpc[w] = "settling" /\ reservation[witem[w]] = "RELEASED"
  /\ Restart(w)
  /\ OnlyTheWorker

\* The process ends, or a database error escapes.
Crash(w) ==
  /\ Faults
  /\ wpc[w] # "idle"
  /\ Restart(w)
  /\ OnlyTheWorker

RunnerStep(w) ==
  \/ CheckpointRetryJob(w) \/ MoveRunnerToManualReview(w)
  \/ RunnerRelease(w) \/ FailJob(w) \/ TransitionRunning(w)
  \/ PrepareMutation(w) \/ AcceptInitialMutation(w) \/ RefuseInitialMutation(w)
  \/ MutationVerified(w) \/ MutationUnreadable(w) \/ MutationNotApplied(w)
  \/ TransitionToSettling(w) \/ RunnerCapture(w) \/ CompleteJob(w)
  \/ WorkerCountsQueue(w) \/ WorkerInsertsJob(w)
  \/ ExecutionError(w) \/ FencingLost(w)

-----------------------------------------------------------------------------
(* Time *)

\* A worker at work renews its lease every 15 seconds of the 60 it lasts.
Renewing(i) == \E w \in Workers : Owns(w) /\ witem[w] = i

LeaseExpires(i) ==
  /\ holder[i] # Nobody
  /\ Faults \/ ~Renewing(i)
  /\ holder' = [holder EXCEPT ![i] = Nobody]
  /\ UNCHANGED << orderVars, moneyVars, item, job, token, mutVars, review, deadline,
                  workerVars, maintVars >>

\* Only who leases or releases an item that waits compares its deadline with the clock, so
\* one that passes meanwhile is taken to pass when the item waits again.
DeadlineStrikes(i) ==
  /\ item[i] \in { "RESERVED", "QUEUED" }
  /\ deadline[i] # "PAST"
  /\ deadline' = [deadline EXCEPT ![i] = IF @ = "AHEAD" THEN "STRIKING" ELSE "PAST"]
  /\ UNCHANGED << orderVars, moneyVars, item, jobVars, mutVars, review,
                  workerVars, maintVars >>

-----------------------------------------------------------------------------
(* The maintenance loop: runMaintenance, one pass after another *)

\* A job recovery may take once its lease or its backoff is over.
Recoverable(i) ==
  \/ job[i] \in { "LEASED", "RUNNING", "VERIFYING", "SETTLING", "WAITING_RETRY" }
  \/ item[i] = "READY_TO_CLAIM" /\ job[i] \notin { Absent, "COMPLETED" }

\* runTransactionalMaintenance begins: its first SELECT fixes what it will see.
BeginRecovery ==
  /\ mpc = "idle"
  /\ mseen' = { i \in Items : Recoverable(i) }
  /\ mpending' = { i \in mseen' : mutation[i] \in PendingMutation }
  /\ mpc' = "begun"
  /\ OnlyMaintenance /\ UNCHANGED << mtodo, mjobs, mcur, morders >>

\* recoverExpiredLeases, recoverCrashedRunnerJobs and requeueRetryJobs, in this order,
\* and the COMMIT; due are the WAITING_RETRY jobs whose backoff is over.  Leases are
\* judged by the clock of the statement, requests by the snapshot.
Recover(due) ==
  LET completed == { i \in mseen : item[i] = "READY_TO_CLAIM"
                                  /\ job[i] \notin { Absent, "COMPLETED" } }
      expired   == { i \in mseen \ completed : holder[i] = Nobody }
      unstarted == { i \in expired : job[i] = "LEASED" }
      crashed   == { i \in expired : job[i] \in { "RUNNING", "VERIFYING", "SETTLING" } }
      doubtful  == { i \in crashed : job[i] = "SETTLING" \/ i \in mpending }
      retried   == crashed \ doubtful
  IN
  /\ mpc = "begun"
  /\ due \subseteq { i \in mseen \ completed : job[i] = "WAITING_RETRY" }
  /\ job' = [i \in Items |-> CASE i \in completed -> "COMPLETED"
                               [] i \in doubtful -> "MANUAL_REVIEW"
                               [] i \in retried -> "WAITING_RETRY"
                               [] i \in unstarted \cup due -> "QUEUED"
                               [] OTHER -> job[i]]
  /\ item' = [i \in Items |-> CASE i \in doubtful -> "MANUAL_REVIEW"
                                [] i \in retried -> "WAITING_RETRY"
                                [] i \in unstarted /\ item[i] = "LEASED" -> "QUEUED"
                                [] i \in due /\ item[i] = "WAITING_RETRY" -> "QUEUED"
                                [] OTHER -> item[i]]
  /\ holder' = [i \in Items |-> IF i \in completed THEN Nobody ELSE holder[i]]
  /\ OpenReviews(doubtful)
  /\ mpc' = "recovered" /\ mseen' = {} /\ mpending' = {}
  /\ UNCHANGED << orderVars, moneyVars, token, mutVars, deadline, workerVars,
                  mtodo, mjobs, mcur, morders >>

\* Mutant: only the items without a job are looked for.
SelectExpiredWaiting ==
  /\ mpc = "recovered"
  /\ mtodo' = { i \in Items : item[i] = "RESERVED" /\ deadline[i] # "AHEAD" }
  /\ mjobs' = { i \in mtodo' : job[i] # Absent }
  /\ mpc' = "releasing"
  /\ OnlyMaintenance /\ UNCHANGED << mcur, morders, mseen, mpending >>

\* releaseExpiredOrderItems: the SELECT whose rows the loop below works through.
SelectExpired ==
  /\ mpc = "recovered"
  /\ mtodo' = { i \in Items : item[i] \in { "RESERVED", "QUEUED" } /\ deadline[i] # "AHEAD" }
  /\ mjobs' = { i \in mtodo' : job[i] # Absent }
  /\ mpc' = "releasing"
  /\ OnlyMaintenance /\ UNCHANGED << mcur, morders, mseen, mpending >>

ReleaseExpiredItem(i) ==
  /\ mpc = "releasing" /\ i \in mtodo
  /\ ReleaseReservation(i, "EXPIRED_RELEASED") \/ AlreadyReleased(i)
  /\ mtodo' = mtodo \ { i }
  /\ IF i \in mjobs THEN mpc' = "failing" /\ mcur' = i ELSE UNCHANGED << mpc, mcur >>
  /\ UNCHANGED << jobVars, mutVars, review, deadline, workerVars, mjobs, morders, mseen, mpending >>

FailExpiredJob ==
  /\ mpc = "failing"
  /\ job' = [job EXCEPT ![mcur] = "FAILED"]
  /\ holder' = [holder EXCEPT ![mcur] = Nobody]
  /\ mpc' = "releasing" /\ mcur' = NoItem
  /\ UNCHANGED << orderVars, moneyVars, item, token, mutVars, review, deadline,
                  workerVars, mtodo, mjobs, morders, mseen, mpending >>

\* materializeAvailableOrders: the SELECT, then per order the count and the insert.
SelectIdleOrders ==
  /\ mpc = "releasing" /\ mtodo = {}
  /\ morders' = { o \in Orders : Waiting(o) # {}
                    /\ \A i \in ItemsOf(o) : job[i] \in { Absent } \cup FinalJobStates }
  /\ mpc' = "counting" /\ mjobs' = {}
  /\ OnlyMaintenance /\ UNCHANGED << mtodo, mcur, mseen, mpending >>

MaintCountsQueue ==
  /\ mpc = "counting" /\ morders # {}
  /\ IF QueueHasRoom THEN mpc' = "inserting" /\ UNCHANGED morders
     ELSE (\E o \in morders : morders' = morders \ { o }) /\ UNCHANGED mpc
  /\ OnlyMaintenance /\ UNCHANGED << mtodo, mjobs, mcur, mseen, mpending >>

MaintInsertsJob(o) ==
  /\ mpc = "inserting" /\ o \in morders
  /\ MaterializeNextOrderItem(o)
  /\ morders' = morders \ { o } /\ mpc' = "counting"
  /\ UNCHANGED << orderVars, moneyVars, mutVars, review, deadline, workerVars,
                  mtodo, mjobs, mcur, mseen, mpending >>

\* The pass is over, or an error (a serialization failure, a refused release, a crash)
\* ended it.
MaintenanceEnds ==
  /\ \/ mpc = "counting" /\ morders = {}
     \/ mpc = "releasing" /\ \E i \in mtodo : reservation[i] # "RELEASED"
          /\ ~ ( reservation[i] = "RESERVED"
                 /\ MayMove(OrderItemTransitions, item[i], "EXPIRED_RELEASED") )
     \/ mpc = "begun"
     \/ Faults /\ mpc # "idle"
  /\ mpc' = "idle" /\ mtodo' = {} /\ mjobs' = {} /\ mcur' = NoItem /\ morders' = {}
  /\ mseen' = {} /\ mpending' = {}
  /\ OnlyMaintenance

MaintenanceStep ==
  \/ BeginRecovery
  \/ \E due \in SUBSET Items : Recover(due)
  \/ SelectExpired
  \/ \E i \in Items : ReleaseExpiredItem(i)
  \/ FailExpiredJob \/ SelectIdleOrders \/ MaintCountsQueue
  \/ \E o \in Orders : MaintInsertsJob(o)
  \/ MaintenanceEnds

-----------------------------------------------------------------------------
(* Operators: openOrderItemReview, resolveSubjectReview and the refund *)

OpenOrderItemReview(i) ==
  /\ \/ item[i] = "MANUAL_REVIEW" /\ UNCHANGED << item, jobVars >>
     \/ /\ MayMove(OrderItemTransitions, item[i], "MANUAL_REVIEW")
        /\ item' = [item EXCEPT ![i] = "MANUAL_REVIEW"]
        /\ IF job[i] \in FinalJobStates \cup { Absent } THEN UNCHANGED jobVars
           ELSE JobToReview(i)
  /\ OpenReviews({ i })
  /\ UNCHANGED << orderVars, moneyVars, mutVars, deadline, workerVars >>
  /\ SnapshotAges

\* applyOrderItemDecision applies to an unresolved review of an item in MANUAL_REVIEW.
Decide(i) ==
  /\ review[i] = "OPEN" /\ item[i] = "MANUAL_REVIEW"
  /\ review' = [review EXCEPT ![i] = "RESOLVED"]
  /\ UNCHANGED << mutVars, deadline, workerVars >>

DecideRetry(i) ==
  /\ Decide(i)
  /\ job[i] = "MANUAL_REVIEW"
  /\ item' = [item EXCEPT ![i] = "QUEUED"]
  /\ job' = [job EXCEPT ![i] = "QUEUED"]
  /\ holder' = [holder EXCEPT ![i] = Nobody]
  /\ UNCHANGED << token, orderVars, moneyVars >>
  /\ SnapshotAges

\* An item whose price was captured before stays SETTLING.
DecideCapture(i) ==
  /\ Decide(i)
  /\ \/ CaptureReservation(i, "SETTLING")
     \/ /\ reservation[i] = "CAPTURED"
        /\ item' = [item EXCEPT ![i] = "SETTLING"]
        /\ UNCHANGED << moneyVars, orderVars >>
  /\ job' = [job EXCEPT ![i] = IF @ = Absent THEN @ ELSE "COMPLETED"]
  /\ holder' = [holder EXCEPT ![i] = IF job[i] = "MANUAL_REVIEW" THEN Nobody ELSE @]
  /\ UNCHANGED token
  /\ SnapshotAges

\* RELEASE and FAIL end in FAILED_RELEASED, STOP in STOPPED_RELEASED.
DecideRelease(i) ==
  /\ Decide(i)
  /\ \/ \E t \in { "FAILED_RELEASED", "STOPPED_RELEASED" } : ReleaseReservation(i, t)
     \/ AlreadyReleased(i)
  /\ job' = [job EXCEPT ![i] = IF @ = Absent THEN @ ELSE "FAILED"]
  /\ holder' = [holder EXCEPT ![i] = Nobody]
  /\ UNCHANGED token
  /\ SnapshotAges

\* Mutant: a refund row of the item is not looked for.
RefundableTwice(i) == reservation[i] = "CAPTURED"

Refundable(i) == reservation[i] = "CAPTURED" /\ i \notin refunded

RefundCapturedOrderItem(i) ==
  /\ Refundable(i)
  /\ available' = [available EXCEPT ![Payer[i]] = @ + Price[i]]
  /\ refunded' = refunded \cup { i }
  /\ UNCHANGED << orderVars, reservation, reserved, item, jobVars, mutVars, review, deadline,
                  workerVars, maintVars >>

OperatorStep(i) ==
  \/ OpenOrderItemReview(i) \/ DecideRetry(i) \/ DecideCapture(i) \/ DecideRelease(i)
  \/ RefundCapturedOrderItem(i)

-----------------------------------------------------------------------------
Next ==
  \/ \E o \in Orders : ConfirmOrder(o)
  \/ \E w \in Workers, i \in Items : AcquireRunnableJob(w, i)
  \/ \E w \in Workers : RunnerStep(w) \/ Crash(w)
  \/ \E i \in Items : LeaseExpires(i) \/ DeadlineStrikes(i) \/ OperatorStep(i)
  \/ MaintenanceStep

Spec == Init /\ [][Next]_vars

(***************************************************************************)
(* Fairness: started loops keep stepping (worker-manager.js restarts a     *)
(* failed iteration); an execution ends, because every verified request    *)
(* moves the progress and the executors give up after 8 reads without      *)
(* progress (quest-engine/executors/video.js); an unrenewed lease runs out *)
(* and deadlines come (the database clock runs); a maintenance pass begun  *)
(* again and again gets to each of its statements again and again; and an  *)
(* operator who is shown a review again and again settles it.              *)
(***************************************************************************)
Fairness ==
  /\ \A w \in Workers : /\ WF_vars(RunnerStep(w))
                        /\ SF_vars(TransitionToSettling(w) \/ ExecutionError(w))
  /\ \A i \in Items : /\ WF_vars(LeaseExpires(i) /\ ~Renewing(i))
                      /\ WF_vars(DeadlineStrikes(i))
                      /\ SF_vars(DecideCapture(i) \/ DecideRelease(i))
                      /\ SF_vars(ReleaseExpiredItem(i))
  /\ SF_vars(Recover({ i \in mseen : job[i] = "WAITING_RETRY" /\ item[i] # "READY_TO_CLAIM" }))
  /\ SF_vars(SelectExpired)
  /\ WF_vars(MaintenanceStep)

FairSpec == Spec /\ Fairness
=============================================================================
