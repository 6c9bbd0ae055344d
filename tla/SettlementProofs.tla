-------------------------- MODULE SettlementProofs --------------------------
(***************************************************************************)
(* Settlement, for every value of the constants: Fulfilment is well typed, *)
(* items, orders and money agree, Fulfilment implements Escrow, and Escrow *)
(* conserves the money.  The inductive invariant adds to what is claimed   *)
(* that an item exists exactly as long as its order, and that every job a  *)
(* loop remembers belongs to an item that exists.                          *)
(***************************************************************************)
EXTENDS FulfilmentProperties, SumLemmas

USE DEF orderVars, moneyVars, jobVars, mutVars, workerVars, passVars, maintVars

-----------------------------------------------------------------------------
(* Facts about the value sets, so that the proofs need not open the maps *)

\* The item states the handlers write are states of the map.
LEMMA ItemStates ==
  /\ { "SELECTED", "RESERVED", "QUEUED", "LEASED", "RUNNING", "VERIFYING", "WAITING_RETRY",
       "MANUAL_REVIEW", "SETTLING", "READY_TO_CLAIM", Absent } \subseteq ItemState
  /\ ReleasedStates \subseteq ItemState
BY DEF ItemState, OrderItemTransitions, ReleasedStates, Absent

\* The job states the handlers write are states of the map.
LEMMA JobStates ==
  { "QUEUED", "LEASED", "RUNNING", "WAITING_RETRY", "MANUAL_REVIEW", "SETTLING",
    "COMPLETED", "FAILED", Absent } \subseteq JobState
BY DEF JobState, RunnerJobTransitions, Absent

\* The price of some items is an amount.
LEMMA TotalIsSum == \A S : Total(S) = SumOf(Price, S)
BY DEF Total, SumOf, MapThenSumSet, MapThenFoldSet

\* Finitely many items have a price.
LEMMA TotalType == \A S \in SUBSET Items : IsFiniteSet(S) /\ Total(S) \in Nat
BY FulfilmentAssumption, FS_Subset, SumNat, TotalIsSum

\* The empty database is well typed.
LEMMA TypeInit == Init => TypeOK
BY FulfilmentAssumption, ItemStates, JobStates DEF Init, TypeOK, OrdersOK, MoneyOK, JobsOK,
   WorkersOK, MaintenanceOK, OrderState, ReservationState, MutationState,
   ReviewState, DeadlineState, WorkerStep, MaintStep

\* A loop that goes on keeps a well typed memory.
LEMMA StepType ==
  ASSUME NEW w \in Workers, NEW s \in WorkerStep, WorkersOK, wpc[w] # "idle", Step(w, s)
  PROVE WorkersOK'
BY DEF Step, WorkersOK

\* A loop that starts over keeps a well typed memory.
LEMMA RestartType ==
  ASSUME NEW w \in Workers, WorkersOK, Restart(w)
  PROVE WorkersOK'
BY DEF Restart, WorkersOK, WorkerStep

\* finalizeOrderIfTerminal keeps the rows of orders, tokens and locks well typed.
LEMMA FinalizeType ==
  ASSUME NEW o \in Orders, OrdersOK, FinalizeOrderIfTerminal(o, item')
  PROVE  /\ order' \in [Orders -> OrderState]
         /\ credential' \in SUBSET Orders
         /\ accountLock' \in [Accounts -> Orders \cup { NoOrder }]
BY DEF FinalizeOrderIfTerminal, CloseOrder, OrdersOK, OrderState

\* captureReservationInTransaction keeps items, orders and balances well typed; no
\* balance gets negative, because a wallet that holds too little refuses.
LEMMA CaptureType ==
  ASSUME NEW i \in Items, NEW from, OrdersOK, MoneyOK, CaptureReservation(i, from)
  PROVE OrdersOK' /\ MoneyOK'
<1>1. OrderOf[i] \in Orders /\ Payer[i] \in Users /\ Price[i] \in Nat
  BY FulfilmentAssumption DEF Payer
<1>2. order' \in [Orders -> OrderState] /\ credential' \in SUBSET Orders
        /\ accountLock' \in [Accounts -> Orders \cup { NoOrder }]
  BY <1>1, FinalizeType DEF CaptureReservation
<1>3. item' \in [Items -> ItemState]
  BY ItemStates DEF CaptureReservation, OrdersOK
<1>4. MoneyOK'
  BY <1>1 DEF CaptureReservation, MoneyOK, ReservationState
<1> QED BY <1>2, <1>3, <1>4 DEF OrdersOK

\* releaseReservationInTransaction keeps items, orders and balances well typed.
LEMMA ReleaseType ==
  ASSUME NEW i \in Items, NEW t \in ReleasedStates, OrdersOK, MoneyOK, ReleaseReservation(i, t)
  PROVE OrdersOK' /\ MoneyOK'
<1>1. OrderOf[i] \in Orders /\ Payer[i] \in Users /\ Price[i] \in Nat
  BY FulfilmentAssumption DEF Payer
<1>2. order' \in [Orders -> OrderState] /\ credential' \in SUBSET Orders
        /\ accountLock' \in [Accounts -> Orders \cup { NoOrder }]
  BY <1>1, FinalizeType DEF ReleaseReservation
<1>3. item' \in [Items -> ItemState]
  BY ItemStates DEF ReleaseReservation, OrdersOK
<1>4. MoneyOK'
  BY <1>1 DEF ReleaseReservation, ReturnMoney, MoneyOK, ReservationState
<1> QED BY <1>2, <1>3, <1>4 DEF OrdersOK

\* materializeNextOrderItem keeps items and jobs well typed.
LEMMA MaterializeType ==
  ASSUME NEW o, OrdersOK, JobsOK, MaterializeNextOrderItem(o)
  PROVE  /\ item' \in [Items -> ItemState] /\ job' \in [Items -> JobState]
         /\ UNCHANGED << holder, token >>
BY ItemStates, JobStates DEF MaterializeNextOrderItem, OrdersOK, JobsOK

\* confirmOrder keeps the state well typed: what the wallet cannot pay is refused.
LEMMA ConfirmType ==
  ASSUME NEW o \in Orders, TypeOK, ConfirmOrder(o)
  PROVE TypeOK'
<1> DEFINE S == ItemsOf(o)
<1>1. UserOf[o] \in Users /\ AccountOf[o] \in Accounts /\ Total(S) \in Nat
  BY FulfilmentAssumption, TotalType DEF ItemsOf
<1>2. OrdersOK'
  BY <1>1, ItemStates DEF TypeOK, ConfirmOrder, CreateOrder, OrdersOK, OrderState
<1>3. MoneyOK'
  BY <1>1 DEF TypeOK, ConfirmOrder, Admitted, ReserveOrderItems, MoneyOK, ReservationState
<1>4. JobsOK'
  BY JobStates DEF TypeOK, ConfirmOrder, JobsOK
<1>5. WorkersOK' /\ MaintenanceOK'
  BY DEF TypeOK, ConfirmOrder, WorkersOK, MaintenanceOK
<1> QED BY <1>2, <1>3, <1>4, <1>5 DEF TypeOK

\* acquireRunnableJob keeps the state well typed.
LEMMA AcquireType ==
  ASSUME NEW w \in Workers, NEW i \in Items, TypeOK, AcquireRunnableJob(w, i)
  PROVE TypeOK'
<1>1. OrdersOK' /\ MoneyOK' /\ MaintenanceOK'
  BY ItemStates DEF TypeOK, AcquireRunnableJob, OrdersOK, MoneyOK, MaintenanceOK, SnapshotAges
<1>2. JobsOK'
  BY JobStates DEF TypeOK, AcquireRunnableJob, JobsOK, DeadlineState
<1>3. WorkersOK'
  BY DEF TypeOK, AcquireRunnableJob, WorkersOK, WorkerStep, JobsOK
<1> QED BY <1>1, <1>2, <1>3 DEF TypeOK

\* Every step of a runner loop, its crash included, keeps the state well typed.
LEMMA RunnerType ==
  ASSUME NEW w \in Workers, TypeOK, RunnerStep(w) \/ Crash(w)
  PROVE TypeOK'
<1> DEFINE i == witem[w]
<1> USE ItemStates, JobStates, StepType, RestartType
<1>0. wpc[w] # "idle" /\ i \in Items /\ OrderOf[i] \in Orders
  <2>1. wpc[w] # "idle"
    BY DEF RunnerStep, Crash, CheckpointRetryJob, MoveRunnerToManualReview, RunnerRelease,
       FailJob, TransitionRunning, PrepareMutation, AcceptInitialMutation,
       RefuseInitialMutation, MutationVerified, MutationUnreadable, MutationNotApplied,
       TransitionToSettling, RunnerCapture, CompleteJob, WorkerCountsQueue,
       WorkerInsertsJob, ExecutionError, FencingLost
  <2> QED BY <2>1, FulfilmentAssumption DEF TypeOK, WorkersOK
<1>1. CASE CheckpointRetryJob(w)
  BY <1>1 DEF CheckpointRetryJob, TypeOK, OrdersOK, MoneyOK, JobsOK, MaintenanceOK, SnapshotAges
<1>2. CASE MoveRunnerToManualReview(w)
  BY <1>2 DEF MoveRunnerToManualReview, JobToReview, OpenReviews, ReviewState,
     TypeOK, OrdersOK, MoneyOK, JobsOK, MaintenanceOK, SnapshotAges
<1>3. CASE RunnerRelease(w)
  <2>1. OrdersOK' /\ MoneyOK'
    <3>1. CASE AlreadyReleased(i)
      BY <3>1 DEF AlreadyReleased, TypeOK, OrdersOK, MoneyOK
    <3>2. ASSUME NEW t \in ReleasedStates, ReleaseReservation(i, t) PROVE OrdersOK' /\ MoneyOK'
      BY <1>0, <3>2, ReleaseType DEF TypeOK
    <3> QED BY <1>3, <3>1, <3>2 DEF RunnerRelease, ReleasedStates
  <2> QED BY <2>1, <1>3 DEF RunnerRelease, TypeOK, JobsOK, MaintenanceOK, SnapshotAges, WorkerStep
<1>4. CASE FailJob(w)
  BY <1>4 DEF FailJob, TypeOK, OrdersOK, MoneyOK, JobsOK, MaintenanceOK, SnapshotAges, WorkerStep
<1>5. CASE TransitionRunning(w)
  BY <1>5 DEF TransitionRunning, TypeOK, OrdersOK, MoneyOK, JobsOK, MaintenanceOK, SnapshotAges, WorkerStep
<1>6. CASE PrepareMutation(w) \/ AcceptInitialMutation(w) \/ RefuseInitialMutation(w)
           \/ MutationVerified(w) \/ MutationUnreadable(w) \/ MutationNotApplied(w)
  <2>1. OrdersOK' /\ MoneyOK' /\ MaintenanceOK'
    BY <1>6 DEF PrepareMutation, AcceptInitialMutation, RefuseInitialMutation, MutationVerified,
       MutationUnreadable, MutationNotApplied, MutationFrame, TypeOK, OrdersOK, MoneyOK, MaintenanceOK
  <2>2. JobsOK'
    <3>1. wtoken[w] \in Nat
      BY DEF TypeOK, WorkersOK
    <3> QED BY <1>6, <1>0, <3>1 DEF PrepareMutation, AcceptInitialMutation, RefuseInitialMutation, MutationVerified,
            MutationUnreadable, MutationNotApplied, MutationFrame, TypeOK, JobsOK, MutationState
  <2>3. WorkersOK'
    BY <1>6, <1>0 DEF PrepareMutation, AcceptInitialMutation, RefuseInitialMutation, MutationVerified,
       MutationUnreadable, MutationNotApplied, TypeOK, WorkerStep
  <2> QED BY <2>1, <2>2, <2>3 DEF TypeOK
<1>7. CASE TransitionToSettling(w)
  BY <1>7 DEF TransitionToSettling, TypeOK, OrdersOK, MoneyOK, JobsOK, MaintenanceOK, SnapshotAges, WorkerStep
<1>8. CASE RunnerCapture(w)
  <2>1. OrdersOK' /\ MoneyOK'
    BY <1>0, <1>8, CaptureType DEF RunnerCapture, TypeOK, OrdersOK, MoneyOK
  <2> QED BY <2>1, <1>8 DEF RunnerCapture, TypeOK, JobsOK, MaintenanceOK, SnapshotAges, WorkerStep
<1>9. CASE CompleteJob(w)
  BY <1>9 DEF CompleteJob, TypeOK, OrdersOK, MoneyOK, JobsOK, MaintenanceOK, SnapshotAges, WorkerStep
<1>10. CASE WorkerInsertsJob(w)
  <2>1. item' \in [Items -> ItemState] /\ job' \in [Items -> JobState]
    BY <1>10, MaterializeType DEF WorkerInsertsJob, TypeOK
  <2>2. UNCHANGED << holder, token >>
    BY <1>10 DEF WorkerInsertsJob, MaterializeNextOrderItem
  <2> QED BY <2>1, <2>2, <1>10 DEF WorkerInsertsJob, TypeOK, OrdersOK, MoneyOK, JobsOK, MaintenanceOK, SnapshotAges
<1>11. CASE WorkerCountsQueue(w) \/ ExecutionError(w) \/ FencingLost(w) \/ Crash(w)
  <2>1. OrdersOK' /\ MoneyOK' /\ JobsOK' /\ MaintenanceOK'
    BY <1>11 DEF WorkerCountsQueue, ExecutionError, FencingLost, Crash, OnlyTheWorker,
       TypeOK, OrdersOK, MoneyOK, JobsOK, MaintenanceOK, SnapshotAges
  <2>2. WorkersOK'
    BY <1>11, <1>0 DEF WorkerCountsQueue, ExecutionError, FencingLost, Crash, TypeOK, WorkerStep
  <2> QED BY <2>1, <2>2 DEF TypeOK
<1> QED
  BY <1>1, <1>2, <1>3, <1>4, <1>5, <1>6, <1>7, <1>8, <1>9, <1>10, <1>11 DEF RunnerStep

\* Every step of the maintenance loop keeps the state well typed.
LEMMA MaintenanceType ==
  ASSUME TypeOK, MaintenanceStep
  PROVE TypeOK'
<1> USE ItemStates, JobStates
<1>1. ASSUME NEW due \in SUBSET Items, Recover(due) PROVE TypeOK'
  <2>1. OrdersOK' /\ MoneyOK'
    BY <1>1 DEF Recover, TypeOK, OrdersOK, MoneyOK
  <2>2. JobsOK'
    BY <1>1 DEF Recover, OpenReviews, ReviewState, TypeOK, JobsOK
  <2>3. WorkersOK' /\ MaintenanceOK'
    BY <1>1 DEF Recover, TypeOK, WorkersOK, MaintenanceOK, MaintStep
  <2> QED BY <2>1, <2>2, <2>3 DEF TypeOK
<1>2. ASSUME NEW i \in Items, ReleaseExpiredItem(i) PROVE TypeOK'
  <2>1. OrdersOK' /\ MoneyOK'
    BY <1>2, ReleaseType DEF ReleaseExpiredItem, AlreadyReleased, TypeOK, OrdersOK, MoneyOK, ReleasedStates
  <2>2. JobsOK' /\ WorkersOK'
    BY <1>2 DEF ReleaseExpiredItem, TypeOK, JobsOK, WorkersOK
  <2>3. MaintenanceOK'
    BY <1>2 DEF ReleaseExpiredItem, TypeOK, MaintenanceOK, MaintStep
  <2> QED BY <2>1, <2>2, <2>3 DEF TypeOK
<1>3. CASE FailExpiredJob
  BY <1>3 DEF FailExpiredJob, TypeOK, OrdersOK, MoneyOK, JobsOK, WorkersOK, MaintenanceOK, MaintStep
<1>4. ASSUME NEW o \in Orders, MaintInsertsJob(o) PROVE TypeOK'
  <2>1. item' \in [Items -> ItemState] /\ job' \in [Items -> JobState]
    BY <1>4, MaterializeType DEF MaintInsertsJob, TypeOK
  <2>2. UNCHANGED << holder, token >>
    BY <1>4 DEF MaintInsertsJob, MaterializeNextOrderItem
  <2> QED BY <2>1, <2>2, <1>4 DEF MaintInsertsJob, TypeOK, OrdersOK, MoneyOK, JobsOK, WorkersOK,
          MaintenanceOK, MaintStep
<1>5. CASE BeginRecovery \/ SelectExpired \/ SelectIdleOrders \/ MaintCountsQueue \/ MaintenanceEnds
  <2>1. OrdersOK' /\ MoneyOK' /\ JobsOK' /\ WorkersOK'
    BY <1>5 DEF BeginRecovery, SelectExpired, SelectIdleOrders, MaintCountsQueue, MaintenanceEnds,
       OnlyMaintenance, TypeOK, OrdersOK, MoneyOK, JobsOK, WorkersOK
  <2>2. MaintenanceOK'
    BY <1>5 DEF BeginRecovery, SelectExpired, SelectIdleOrders, MaintCountsQueue, MaintenanceEnds,
       TypeOK, MaintenanceOK, MaintStep
  <2> QED BY <2>1, <2>2 DEF TypeOK
<1> QED BY <1>1, <1>2, <1>3, <1>4, <1>5 DEF MaintenanceStep

\* Every decision and refund of an operator keeps the state well typed.
LEMMA OperatorType ==
  ASSUME NEW i \in Items, TypeOK, OperatorStep(i)
  PROVE TypeOK'
<1> USE ItemStates, JobStates
<1>1. CASE OpenOrderItemReview(i)
  BY <1>1 DEF OpenOrderItemReview, JobToReview, OpenReviews, ReviewState,
     TypeOK, OrdersOK, MoneyOK, JobsOK, WorkersOK, MaintenanceOK, SnapshotAges
<1>2. CASE DecideRetry(i)
  BY <1>2 DEF DecideRetry, Decide, ReviewState,
     TypeOK, OrdersOK, MoneyOK, JobsOK, WorkersOK, MaintenanceOK, SnapshotAges
<1>3. CASE DecideCapture(i)
  <2>1. OrdersOK' /\ MoneyOK'
    BY <1>3, CaptureType DEF DecideCapture, TypeOK, OrdersOK, MoneyOK
  <2> QED BY <2>1, <1>3 DEF DecideCapture, Decide, ReviewState, TypeOK, JobsOK, WorkersOK, MaintenanceOK, SnapshotAges
<1>4. CASE DecideRelease(i)
  <2>1. OrdersOK' /\ MoneyOK'
    BY <1>4, ReleaseType DEF DecideRelease, AlreadyReleased, TypeOK, OrdersOK, MoneyOK, ReleasedStates
  <2> QED BY <2>1, <1>4 DEF DecideRelease, Decide, ReviewState, TypeOK, JobsOK, WorkersOK, MaintenanceOK, SnapshotAges
<1>5. CASE RefundCapturedOrderItem(i)
  <2>1. Payer[i] \in Users /\ Price[i] \in Nat
    BY FulfilmentAssumption DEF Payer
  <2> QED BY <2>1, <1>5 DEF RefundCapturedOrderItem, Refundable,
          TypeOK, OrdersOK, MoneyOK, JobsOK, WorkersOK, MaintenanceOK, SnapshotAges
<1> QED BY <1>1, <1>2, <1>3, <1>4, <1>5 DEF OperatorStep

\* Every step keeps the state well typed.
LEMMA TypeNext == TypeOK /\ [Next]_vars => TypeOK'
<1> SUFFICES ASSUME TypeOK, [Next]_vars PROVE TypeOK'
  OBVIOUS
<1>1. ASSUME NEW i \in Items, LeaseExpires(i) PROVE TypeOK'
  BY <1>1 DEF LeaseExpires, TypeOK, OrdersOK, MoneyOK, JobsOK, WorkersOK, MaintenanceOK
<1>2. ASSUME NEW i \in Items, DeadlineStrikes(i) PROVE TypeOK'
  BY <1>2 DEF DeadlineStrikes, DeadlineState, TypeOK, OrdersOK, MoneyOK, JobsOK, WorkersOK, MaintenanceOK
<1>3. CASE UNCHANGED vars
  BY <1>3 DEF vars, TypeOK, OrdersOK, MoneyOK, JobsOK, WorkersOK, MaintenanceOK
<1> QED BY <1>1, <1>2, <1>3, ConfirmType, AcquireType, RunnerType, MaintenanceType, OperatorType DEF Next

\* In every reachable state, for any number of users, orders, items and workers, every
\* row and every loop variable has a value the schema and the code know; in particular
\* no balance is ever negative.
THEOREM TypeCorrect == Spec => []TypeOK
BY TypeInit, TypeNext, PTL DEF Spec

-----------------------------------------------------------------------------
(* The items an order takes next *)

\* A set of items that is not empty has one that no other precedes in its order.
LEMMA FirstInLine ==
  ASSUME NEW S \in SUBSET Items, S # {}
  PROVE  \E i \in S : \A k \in S : Position[i] <= Position[k]
<1> DEFINE T == { Position[i] : i \in S }
<1>1. T \in SUBSET Nat /\ T # {}
  BY FulfilmentAssumption
<1>2. \E m \in T : \A n \in T : m <= n
  <2> HIDE DEF T
  <2> QED BY <1>1, LeastNat
<1> QED BY <1>2

\* The item a new order queues at once (queueFirstOrderItem) is one of its own.
LEMMA FirstItemIsItem == \A o \in Orders : FirstItem(o) \in ItemsOf(o)
BY FirstInLine, OrderAssumption DEF FirstItem, ItemsOf

\* materializeNextOrderItem takes one of the items that wait.
LEMMA NextInLineWaits == \A o : Waiting(o) # {} => NextInLine(o) \in Waiting(o)
BY FirstInLine DEF NextInLine, Waiting, ItemsOf

-----------------------------------------------------------------------------
(* The inductive invariant of the settlement *)

\* An item exists as soon as its order does.
OrderedItems == \A i \in Items : item[i] = Absent <=> order[OrderOf[i]] = Absent

TablesInv == /\ SettlementAgreement /\ OrderedItems
             /\ OpenOrdersHoldAccountAndToken /\ HeldMoneyKeepsOrderOpen

\* Every job, also one that a loop only remembers, belongs to an item that exists.
JobsInv ==
  /\ \A i \in Items : job[i] # Absent => item[i] # Absent
  /\ \A w \in Workers : wpc[w] # "idle" => job[witem[w]] # Absent
  /\ \A i \in mjobs : job[i] # Absent
  /\ mpc = "failing" => job[mcur] # Absent

SettlementInv == TypeOK /\ TablesInv /\ JobsInv

\* The settlement invariant holds of the empty database.
LEMMA SettlementInit == Init => SettlementInv
<1> SUFFICES ASSUME Init PROVE SettlementInv
  OBVIOUS
<1>1. TablesInv
  BY FulfilmentAssumption DEF Init, TablesInv, SettlementAgreement, OrderedItems, OpenOrdersHoldAccountAndToken,
     HeldMoneyKeepsOrderOpen, Absent, ReleasedStates
<1>2. JobsInv
  BY DEF Init, JobsInv
<1> QED BY <1>1, <1>2, TypeInit DEF SettlementInv

(* What a step may do to the tables.  Most steps touch neither money nor orders and *)
(* move items that exist to states that are not final.                              *)

ItemsStay == \A i \in Items : item[i] # Absent => item'[i] # Absent

Unsettling ==
  /\ UNCHANGED << orderVars, reservation >>
  /\ \A i \in Items : item'[i] = item[i]
        \/ (item[i] # Absent /\ item'[i] \notin TerminalItemStates \cup { Absent })

\* A step that leaves orders and reservations alone, and moves items that exist to
\* states that are not final, keeps the tables consistent.
LEMMA UnsettlingTables ==
  ASSUME TablesInv, Unsettling
  PROVE  TablesInv' /\ ItemsStay
BY DEF TablesInv, Unsettling, SettlementAgreement, OrderedItems, OpenOrdersHoldAccountAndToken,
   HeldMoneyKeepsOrderOpen, ItemsStay, TerminalItemStates

\* A settlement of one item: item and reservation agree, the order may be closed.
Settling(i, t, r) ==
  /\ reservation[i] = "RESERVED"
  /\ item' = [item EXCEPT ![i] = t]
  /\ reservation' = [reservation EXCEPT ![i] = r]
  /\ FinalizeOrderIfTerminal(OrderOf[i], item')

\* A step that settles one item, with item and reservation in agreement, keeps the
\* tables consistent, whether or not it closes the order.
LEMMA SettlingTables ==
  ASSUME NEW i \in Items, NEW t, NEW r, TypeOK, TablesInv, Settling(i, t, r),
         \/ t = "READY_TO_CLAIM" /\ r = "CAPTURED"
         \/ t \in ReleasedStates /\ r = "RELEASED"
  PROVE  TablesInv' /\ ItemsStay
<1> USE DEF Settling
<1>0. /\ OrderOf[i] \in Orders
      /\ t \notin { Absent, "RESERVED" } /\ item[i] # Absent
      /\ item \in [Items -> ItemState] /\ reservation \in [Items -> ReservationState]
  BY FulfilmentAssumption DEF ReleasedStates, Absent, TypeOK, OrdersOK, MoneyOK,
     TablesInv, SettlementAgreement
<1>1. SettlementAgreement'
  BY <1>0 DEF SettlementAgreement, TablesInv, ReleasedStates, Absent
<1>2. ItemsStay
  BY <1>0 DEF ItemsStay
<1>3. \A o \in Orders : order'[o] = Absent <=> order[o] = Absent
  BY DEF FinalizeOrderIfTerminal, CloseOrder, TypeOK, OrdersOK, Absent
<1>4. OrderedItems'
  BY <1>0, <1>3, FulfilmentAssumption DEF OrderedItems, TablesInv
<1>5. CASE UNCHANGED orderVars
  <2>1. HeldMoneyKeepsOrderOpen'
    BY <1>0, <1>5 DEF HeldMoneyKeepsOrderOpen, TablesInv
  <2> QED BY <1>1, <1>2, <1>4, <1>5, <2>1 DEF TablesInv, OpenOrdersHoldAccountAndToken
<1>6. CASE /\ order[OrderOf[i]] = "OPEN"
           /\ \A k \in ItemsOf(OrderOf[i]) : item'[k] \in TerminalItemStates
           /\ CloseOrder(OrderOf[i])
  <2> DEFINE o == OrderOf[i]
  <2>1. OpenOrdersHoldAccountAndToken'
    BY <1>0, <1>6, FulfilmentAssumption DEF CloseOrder, OpenOrdersHoldAccountAndToken, TablesInv, TypeOK, OrdersOK
  <2>2. \A k \in Items : reservation'[k] = "RESERVED" => OrderOf[k] # o /\ reservation[k] = "RESERVED"
    BY <1>0, <1>1, <1>6 DEF SettlementAgreement, ItemsOf, TerminalItemStates
  <2>3. HeldMoneyKeepsOrderOpen'
    <3> SUFFICES ASSUME NEW k \in Items, reservation'[k] = "RESERVED"
                 PROVE  LET p == OrderOf[k] IN
                        order'[p] = "OPEN" /\ p \in credential' /\ accountLock'[AccountOf[p]] = p
      BY DEF HeldMoneyKeepsOrderOpen
    <3>1. OrderOf[k] \in Orders \ { o } /\ AccountOf[OrderOf[k]] \in Accounts
      BY <2>2, FulfilmentAssumption
    <3>2. /\ order[OrderOf[k]] = "OPEN" /\ OrderOf[k] \in credential
          /\ accountLock[AccountOf[OrderOf[k]]] = OrderOf[k]
      BY <2>2 DEF TablesInv, HeldMoneyKeepsOrderOpen
    <3> QED BY <1>6, <3>1, <3>2 DEF CloseOrder, TypeOK, OrdersOK
  <2> QED BY <1>1, <1>2, <1>4, <2>1, <2>3 DEF TablesInv
<1> QED BY <1>5, <1>6 DEF FinalizeOrderIfTerminal

\* confirmOrder keeps the tables consistent.
LEMMA ConfirmTables ==
  ASSUME NEW o \in Orders, TypeOK, TablesInv, ConfirmOrder(o)
  PROVE  TablesInv' /\ ItemsStay
<1>0. /\ FirstItem(o) \in ItemsOf(o) /\ ItemsOf(o) \subseteq Items
      /\ AccountOf[o] \in Accounts /\ NoOrder \notin Orders
      /\ \A i \in Items : i \in ItemsOf(o) <=> OrderOf[i] = o
  BY FirstItemIsItem, FulfilmentAssumption DEF ItemsOf
<1>1. \A i \in ItemsOf(o) : item[i] = Absent /\ reservation[i] = "NONE"
  BY <1>0 DEF ConfirmOrder, Admitted, TablesInv, OrderedItems, SettlementAgreement
<1>2. SettlementAgreement'
  BY <1>0 DEF ConfirmOrder, ReserveOrderItems, SettlementAgreement, TablesInv, ReleasedStates, Absent
<1>3. OrderedItems' /\ ItemsStay
  BY <1>0, FulfilmentAssumption DEF ConfirmOrder, CreateOrder, OrderedItems, ItemsStay, TablesInv, Absent, TypeOK, OrdersOK
<1>4. OpenOrdersHoldAccountAndToken'
  BY <1>0, FulfilmentAssumption DEF ConfirmOrder, Admitted, CreateOrder, OpenOrdersHoldAccountAndToken,
     TablesInv, TypeOK, OrdersOK, Absent
<1>5. HeldMoneyKeepsOrderOpen'
  BY <1>0, <1>4, FulfilmentAssumption DEF ConfirmOrder, CreateOrder, ReserveOrderItems, HeldMoneyKeepsOrderOpen,
     OpenOrdersHoldAccountAndToken, TablesInv, TypeOK, OrdersOK, MoneyOK
<1> QED BY <1>2, <1>3, <1>4, <1>5 DEF TablesInv

-----------------------------------------------------------------------------
(* Every step keeps the invariant *)

\* materializeNextOrderItem inserts a job only for an item that exists.
LEMMA MaterializeTables ==
  ASSUME NEW o, TypeOK, MaterializeNextOrderItem(o)
  PROVE  /\ \A i \in Items : item'[i] = item[i]
                \/ (item[i] # Absent /\ item'[i] \notin TerminalItemStates \cup { Absent })
         /\ \A i \in Items : job'[i] # Absent => job[i] # Absent \/ item'[i] # Absent
         /\ \A i \in Items : job[i] # Absent => job'[i] # Absent
<1>1. CASE Waiting(o) = {}
  BY <1>1 DEF MaterializeNextOrderItem
<1>2. CASE Waiting(o) # {}
  <2> DEFINE n == NextInLine(o)
  <2>1. n \in Items /\ item[n] = "RESERVED"
    BY <1>2, NextInLineWaits DEF Waiting, ItemsOf
  <2>2. /\ item' = [item EXCEPT ![n] = "QUEUED"] /\ job' = [job EXCEPT ![n] = "QUEUED"]
    BY <1>2 DEF MaterializeNextOrderItem
  <2> HIDE DEF n
  <2> QED BY <2>1, <2>2 DEF TypeOK, OrdersOK, JobsOK, Absent, TerminalItemStates, ReleasedStates
<1> QED BY <1>1, <1>2

\* Jobs come and go only with their items.
JobsMove ==
  /\ \A i \in Items : job'[i] # Absent => job[i] # Absent \/ item'[i] # Absent
  /\ \A i \in Items : job[i] # Absent => job'[i] # Absent

\* confirmOrder keeps the settlement invariant.
LEMMA ConfirmKeeps ==
  ASSUME NEW o \in Orders, SettlementInv, ConfirmOrder(o)
  PROVE  TablesInv' /\ JobsInv'
<1>1. TablesInv' /\ ItemsStay
  BY ConfirmTables DEF SettlementInv
<1>2. JobsMove
  BY FirstItemIsItem DEF ConfirmOrder, JobsMove, ItemsOf, SettlementInv, TypeOK, OrdersOK, JobsOK, Absent
<1> QED BY <1>1, <1>2 DEF JobsInv, JobsMove, ItemsStay, ConfirmOrder, SettlementInv,
        TypeOK, WorkersOK, MaintenanceOK

\* Every step of a runner loop, its crash included, keeps the settlement invariant.
LEMMA RunnerKeeps ==
  ASSUME NEW w \in Workers, SettlementInv, RunnerStep(w) \/ Crash(w)
  PROVE  TablesInv' /\ JobsInv'
<1> DEFINE i == witem[w]
<1> USE DEF SettlementInv
<1>0. wpc[w] # "idle" /\ i \in Items /\ job[i] # Absent /\ item[i] # Absent
  <2>1. wpc[w] # "idle"
    BY DEF RunnerStep, Crash, CheckpointRetryJob, MoveRunnerToManualReview, RunnerRelease,
       FailJob, TransitionRunning, PrepareMutation, AcceptInitialMutation,
       RefuseInitialMutation, MutationVerified, MutationUnreadable, MutationNotApplied,
       TransitionToSettling, RunnerCapture, CompleteJob, WorkerCountsQueue,
       WorkerInsertsJob, ExecutionError, FencingLost
  <2> QED BY <2>1 DEF TypeOK, WorkersOK, JobsInv
<1>1. JobsMove /\ ItemsStay /\ TablesInv'
  <2>1. CASE CheckpointRetryJob(w)
    <3>1. Unsettling /\ JobsMove
      BY <2>1, <1>0 DEF CheckpointRetryJob, Unsettling, JobsMove, TypeOK, OrdersOK, JobsOK,
         TerminalItemStates, ReleasedStates, Absent
    <3> QED BY <3>1, UnsettlingTables
  <2>2. CASE MoveRunnerToManualReview(w)
    <3>1. Unsettling /\ JobsMove
      BY <2>2, <1>0 DEF MoveRunnerToManualReview, JobToReview, Unsettling, JobsMove, TypeOK, OrdersOK,
         JobsOK, TerminalItemStates, ReleasedStates, Absent
    <3> QED BY <3>1, UnsettlingTables
  <2>3. CASE RunnerRelease(w)
    <3>1. ASSUME NEW t \in ReleasedStates, ReleaseReservation(i, t) PROVE ItemsStay /\ TablesInv'
      <4>1. Settling(i, t, "RELEASED")
        BY <3>1 DEF ReleaseReservation, ReturnMoney, Settling
      <4> QED BY <4>1, <1>0, SettlingTables
    <3>2. ASSUME AlreadyReleased(i) PROVE ItemsStay /\ TablesInv'
      BY <3>2, UnsettlingTables DEF AlreadyReleased, Unsettling
    <3>3. JobsMove
      BY <2>3 DEF RunnerRelease, JobsMove
    <3> QED BY <2>3, <3>1, <3>2, <3>3 DEF RunnerRelease, ReleasedStates
  <2>4. CASE FailJob(w) \/ CompleteJob(w)
    <3>1. Unsettling /\ JobsMove
      BY <2>4, <1>0 DEF FailJob, CompleteJob, Unsettling, JobsMove, TypeOK, JobsOK, Absent
    <3> QED BY <3>1, UnsettlingTables
  <2>5. CASE TransitionRunning(w) \/ TransitionToSettling(w)
    <3>1. Unsettling /\ JobsMove
      BY <2>5, <1>0 DEF TransitionRunning, TransitionToSettling, Unsettling, JobsMove, TypeOK, OrdersOK,
         JobsOK, TerminalItemStates, ReleasedStates, Absent
    <3> QED BY <3>1, UnsettlingTables
  <2>6. CASE PrepareMutation(w) \/ AcceptInitialMutation(w) \/ RefuseInitialMutation(w)
             \/ MutationVerified(w) \/ MutationUnreadable(w) \/ MutationNotApplied(w)
    <3>1. Unsettling /\ JobsMove
      BY <2>6 DEF PrepareMutation, AcceptInitialMutation, RefuseInitialMutation, MutationVerified,
         MutationUnreadable, MutationNotApplied, MutationFrame, Unsettling, JobsMove
    <3> QED BY <3>1, UnsettlingTables
  <2>7. CASE RunnerCapture(w)
    <3>1. CASE CaptureReservation(i, item[i])
      <4>1. Settling(i, "READY_TO_CLAIM", "CAPTURED")
        BY <3>1 DEF CaptureReservation, Settling
      <4> QED BY <4>1, <1>0, SettlingTables, <2>7 DEF RunnerCapture, JobsMove
    <3>2. CASE UNCHANGED << moneyVars, item, orderVars >>
      BY <3>2, <2>7, UnsettlingTables DEF RunnerCapture, Unsettling, JobsMove
    <3> QED BY <2>7, <3>1, <3>2 DEF RunnerCapture
  <2>8. CASE WorkerInsertsJob(w)
    <3>1. Unsettling /\ JobsMove
      BY <2>8, MaterializeTables DEF WorkerInsertsJob, Unsettling, JobsMove
    <3> QED BY <3>1, UnsettlingTables
  <2>9. CASE WorkerCountsQueue(w) \/ ExecutionError(w) \/ FencingLost(w) \/ Crash(w)
    <3>1. Unsettling /\ JobsMove
      BY <2>9 DEF WorkerCountsQueue, ExecutionError, FencingLost, Crash, OnlyTheWorker, Unsettling, JobsMove
    <3> QED BY <3>1, UnsettlingTables
  <2> QED BY <2>1, <2>2, <2>3, <2>4, <2>5, <2>6, <2>7, <2>8, <2>9 DEF RunnerStep
<1>2. /\ UNCHANGED passVars
      /\ \A v \in Workers : wpc'[v] # "idle" => wpc[v] # "idle" /\ witem'[v] = witem[v]
  <2>1. UNCHANGED passVars /\ (Restart(w) \/ \E s \in WorkerStep : Step(w, s))
    BY DEF RunnerStep, Crash, CheckpointRetryJob, MoveRunnerToManualReview, RunnerRelease,
       FailJob, TransitionRunning, PrepareMutation, AcceptInitialMutation,
       RefuseInitialMutation, MutationVerified, MutationUnreadable, MutationNotApplied,
       TransitionToSettling, RunnerCapture, CompleteJob, WorkerCountsQueue,
       WorkerInsertsJob, ExecutionError, FencingLost, MutationFrame, OnlyTheWorker, WorkerStep, SnapshotAges
  <2> QED BY <1>0, <2>1 DEF Restart, Step, TypeOK, WorkersOK
<1>3. JobsInv'
  <2>1. \A k \in Items : job'[k] # Absent => item'[k] # Absent
    BY <1>1 DEF JobsMove, ItemsStay, JobsInv
  <2>2. \A v \in Workers : wpc'[v] # "idle" => job'[witem'[v]] # Absent
    BY <1>1, <1>2 DEF JobsMove, JobsInv, TypeOK, WorkersOK
  <2>3. (\A k \in mjobs' : job'[k] # Absent) /\ (mpc' = "failing" => job'[mcur'] # Absent)
    BY <1>1, <1>2 DEF JobsMove, JobsInv, TypeOK, MaintenanceOK
  <2> QED BY <2>1, <2>2, <2>3 DEF JobsInv
<1> QED BY <1>1, <1>3

\* acquireRunnableJob keeps the settlement invariant.
LEMMA AcquireKeeps ==
  ASSUME NEW w \in Workers, NEW k \in Items, SettlementInv, AcquireRunnableJob(w, k)
  PROVE  TablesInv' /\ JobsInv'
<1> USE DEF SettlementInv
<1>1. Unsettling /\ JobsMove
  BY DEF AcquireRunnableJob, Unsettling, JobsMove, TypeOK, OrdersOK, JobsOK,
     TerminalItemStates, ReleasedStates, Absent
<1>2. TablesInv' /\ ItemsStay
  BY <1>1, UnsettlingTables
<1>3. \A v \in Workers : wpc'[v] # "idle" => job'[witem'[v]] # Absent
  BY <1>1 DEF AcquireRunnableJob, JobsMove, JobsInv, TypeOK, WorkersOK, JobsOK, Absent
<1>4. UNCHANGED passVars
  BY DEF AcquireRunnableJob, SnapshotAges
<1> QED BY <1>1, <1>2, <1>3, <1>4 DEF JobsInv, JobsMove, ItemsStay, TypeOK, MaintenanceOK

\* Every step of the maintenance loop keeps the settlement invariant.
LEMMA MaintenanceKeeps ==
  ASSUME SettlementInv, MaintenanceStep
  PROVE  TablesInv' /\ JobsInv'
<1> USE DEF SettlementInv
\* What the loop remembers afterwards are jobs there were before.
<1> DEFINE Remembers == /\ \A k \in mjobs' : k \in Items /\ job[k] # Absent
                        /\ mpc' = "failing" => mcur' \in Items /\ job[mcur'] # Absent
<1>1. JobsMove /\ ItemsStay /\ TablesInv' /\ Remembers
  <2>1. ASSUME NEW due \in SUBSET Items, Recover(due)
        PROVE  JobsMove /\ ItemsStay /\ TablesInv' /\ Remembers
    <3>1. /\ UNCHANGED << orderVars, reservation, mjobs, mcur >> /\ mpc' = "recovered"
          /\ \A k \in Items : item'[k] # item[k] =>
                job[k] # Absent /\ item'[k] \in { "MANUAL_REVIEW", "WAITING_RETRY", "QUEUED" }
          /\ \A k \in Items : job'[k] # job[k] => job[k] # Absent /\ job'[k] # Absent
      BY <2>1 DEF Recover, TypeOK, OrdersOK, JobsOK, Absent
    <3>2. Unsettling
      BY <3>1 DEF Unsettling, JobsInv, TerminalItemStates, ReleasedStates, Absent
    <3>3. JobsMove
      BY <3>1 DEF JobsMove
    <3>4. Remembers
      BY <3>1 DEF JobsInv, TypeOK, MaintenanceOK
    <3> QED BY <3>2, <3>3, <3>4, UnsettlingTables
  <2>2. ASSUME NEW k \in Items, ReleaseExpiredItem(k)
        PROVE  JobsMove /\ ItemsStay /\ TablesInv' /\ Remembers
    <3>1. ASSUME ReleaseReservation(k, "EXPIRED_RELEASED") PROVE ItemsStay /\ TablesInv'
      <4>1. Settling(k, "EXPIRED_RELEASED", "RELEASED")
        BY <3>1 DEF ReleaseReservation, ReturnMoney, Settling
      <4> QED BY <4>1, SettlingTables DEF ReleasedStates
    <3>2. ASSUME AlreadyReleased(k) PROVE ItemsStay /\ TablesInv'
      BY <3>2, UnsettlingTables DEF AlreadyReleased, Unsettling
    <3>3. JobsMove /\ Remembers
      BY <2>2 DEF ReleaseExpiredItem, JobsMove, JobsInv, TypeOK, MaintenanceOK
    <3> QED BY <2>2, <3>1, <3>2, <3>3 DEF ReleaseExpiredItem
  <2>3. CASE FailExpiredJob
    <3>1. Unsettling /\ JobsMove /\ Remembers
      BY <2>3 DEF FailExpiredJob, Unsettling, JobsMove, JobsInv, TypeOK, JobsOK, MaintenanceOK, Absent
    <3> QED BY <3>1, UnsettlingTables
  <2>4. ASSUME NEW o \in Orders, MaintInsertsJob(o)
        PROVE  JobsMove /\ ItemsStay /\ TablesInv' /\ Remembers
    <3>1. Unsettling /\ JobsMove
      BY <2>4, MaterializeTables DEF MaintInsertsJob, Unsettling, JobsMove
    <3>2. Remembers
      BY <2>4 DEF MaintInsertsJob, JobsInv, TypeOK, MaintenanceOK
    <3> QED BY <3>1, <3>2, UnsettlingTables
  <2>5. CASE SelectExpired
    <3>1. Unsettling /\ JobsMove
      BY <2>5 DEF SelectExpired, OnlyMaintenance, Unsettling, JobsMove
    <3>2. Remembers
      BY <2>5 DEF SelectExpired
    <3> QED BY <3>1, <3>2, UnsettlingTables
  <2>6. CASE BeginRecovery \/ SelectIdleOrders \/ MaintCountsQueue \/ MaintenanceEnds
    <3>1. Unsettling /\ JobsMove
      BY <2>6 DEF BeginRecovery, SelectIdleOrders, MaintCountsQueue, MaintenanceEnds, OnlyMaintenance, Unsettling, JobsMove
    <3>2. Remembers
      BY <2>6 DEF BeginRecovery, SelectIdleOrders, MaintCountsQueue, MaintenanceEnds, JobsInv, TypeOK, MaintenanceOK
    <3> QED BY <3>1, <3>2, UnsettlingTables
  <2> QED BY <2>1, <2>2, <2>3, <2>4, <2>5, <2>6 DEF MaintenanceStep
<1>2. UNCHANGED workerVars
  BY DEF MaintenanceStep, BeginRecovery, Recover, SelectExpired, ReleaseExpiredItem, FailExpiredJob, SelectIdleOrders,
     MaintCountsQueue, MaintInsertsJob, MaintenanceEnds, OnlyMaintenance
<1>3. JobsInv'
  BY <1>1, <1>2 DEF JobsInv, JobsMove, ItemsStay, TypeOK, WorkersOK
<1> QED BY <1>1, <1>3

\* Every decision and refund of an operator keeps the settlement invariant.
LEMMA OperatorKeeps ==
  ASSUME NEW i \in Items, SettlementInv, OperatorStep(i)
  PROVE  TablesInv' /\ JobsInv'
<1> USE DEF SettlementInv
<1>1. JobsMove /\ ItemsStay /\ TablesInv'
  <2>1. CASE OpenOrderItemReview(i)
    <3>1. Unsettling
      BY <2>1 DEF OpenOrderItemReview, MayMove, OrderItemTransitions, Unsettling, TypeOK, OrdersOK,
         TerminalItemStates, ReleasedStates, Absent
    <3>2. JobsMove
      BY <2>1 DEF OpenOrderItemReview, JobToReview, JobsMove, TypeOK, JobsOK, Absent
    <3> QED BY <3>1, <3>2, UnsettlingTables
  <2>2. CASE DecideRetry(i)
    <3>1. Unsettling /\ JobsMove
      BY <2>2 DEF DecideRetry, Decide, Unsettling, JobsMove, TypeOK, OrdersOK, JobsOK,
         TerminalItemStates, ReleasedStates, Absent
    <3> QED BY <3>1, UnsettlingTables
  <2>3. CASE DecideCapture(i)
    <3>1. JobsMove
      BY <2>3 DEF DecideCapture, JobsMove, TypeOK, JobsOK, Absent
    <3>2. ASSUME CaptureReservation(i, "SETTLING") PROVE ItemsStay /\ TablesInv'
      <4>1. Settling(i, "READY_TO_CLAIM", "CAPTURED")
        BY <3>2 DEF CaptureReservation, Settling
      <4> QED BY <4>1, SettlingTables
    <3>3. ASSUME reservation[i] = "CAPTURED", item' = [item EXCEPT ![i] = "SETTLING"],
                 UNCHANGED << moneyVars, orderVars >>
          PROVE  ItemsStay /\ TablesInv'
      <4>1. Unsettling
        BY <3>3, <2>3 DEF DecideCapture, Decide, Unsettling, TypeOK, OrdersOK,
           TerminalItemStates, ReleasedStates, Absent
      <4> QED BY <4>1, UnsettlingTables
    <3> QED BY <2>3, <3>1, <3>2, <3>3 DEF DecideCapture
  <2>4. CASE DecideRelease(i)
    <3>1. JobsMove
      BY <2>4 DEF DecideRelease, JobsMove, TypeOK, JobsOK, Absent
    <3>2. ASSUME NEW t \in ReleasedStates, ReleaseReservation(i, t) PROVE ItemsStay /\ TablesInv'
      <4>1. Settling(i, t, "RELEASED")
        BY <3>2 DEF ReleaseReservation, ReturnMoney, Settling
      <4> QED BY <4>1, SettlingTables
    <3>3. ASSUME AlreadyReleased(i) PROVE ItemsStay /\ TablesInv'
      BY <3>3, UnsettlingTables DEF AlreadyReleased, Unsettling
    <3> QED BY <2>4, <3>1, <3>2, <3>3 DEF DecideRelease, ReleasedStates
  <2>5. CASE RefundCapturedOrderItem(i)
    BY <2>5, UnsettlingTables DEF RefundCapturedOrderItem, Unsettling, JobsMove
  <2> QED BY <2>1, <2>2, <2>3, <2>4, <2>5 DEF OperatorStep
<1>2. UNCHANGED << workerVars, passVars >>
  BY DEF OperatorStep, OpenOrderItemReview, DecideRetry, DecideCapture, DecideRelease, Decide,
     RefundCapturedOrderItem, SnapshotAges
<1> QED BY <1>1, <1>2 DEF JobsInv, JobsMove, ItemsStay, TypeOK, WorkersOK, MaintenanceOK

\* Neither the passing of time nor a step of somebody else touches the tables.
LEMMA TimeKeeps ==
  ASSUME SettlementInv,
         \/ UNCHANGED vars
         \/ \E i \in Items : LeaseExpires(i) \/ DeadlineStrikes(i)
  PROVE  TablesInv' /\ JobsInv'
<1>1. UNCHANGED << orderVars, moneyVars, item, job, workerVars, maintVars >>
  BY DEF vars, LeaseExpires, DeadlineStrikes
<1> QED BY <1>1 DEF SettlementInv, TablesInv, JobsInv, SettlementAgreement, OrderedItems,
        OpenOrdersHoldAccountAndToken, HeldMoneyKeepsOrderOpen

\* The settlement invariant is inductive.
LEMMA SettlementNext == SettlementInv /\ [Next]_vars => SettlementInv'
<1> SUFFICES ASSUME SettlementInv, [Next]_vars PROVE TablesInv' /\ JobsInv'
  BY TypeNext DEF SettlementInv
<1> QED BY ConfirmKeeps, AcquireKeeps, RunnerKeeps, MaintenanceKeeps, OperatorKeeps, TimeKeeps DEF Next

\* The settlement invariant holds in every reachable state.
LEMMA SettlementInvariant == Spec => []SettlementInv
BY SettlementInit, SettlementNext, PTL DEF Spec

\* For any number of workers, items and orders, with crashes and expired leases
\* anywhere: an item shown as claimable was paid for, one shown as released was paid
\* back, and no settlement leaves money held by an item that is already over
\* (captureReservationInTransaction, releaseReservationInTransaction).
THEOREM Settlements == Spec => []SettlementAgreement
<1>1. SettlementInv => SettlementAgreement
  BY DEF SettlementInv, TablesInv
<1> QED BY <1>1, SettlementInvariant, PTL

\* As long as money is held for one of its items an order stays open, its account
\* stays locked and its token stays stored (finalizeOrderIfTerminal).
THEOREM HeldMoney == Spec => []HeldMoneyKeepsOrderOpen
<1>1. SettlementInv => HeldMoneyKeepsOrderOpen
  BY DEF SettlementInv, TablesInv
<1> QED BY <1>1, SettlementInvariant, PTL

\* At most one order of an account is open, and a token is stored exactly as long as
\* its order is open (createOrder, storeOrderCredential, finalizeOrderIfTerminal).
THEOREM OpenOrders == Spec => []OpenOrdersHoldAccountAndToken
<1>1. SettlementInv => OpenOrdersHoldAccountAndToken
  BY DEF SettlementInv, TablesInv
<1> QED BY <1>1, SettlementInvariant, PTL

-----------------------------------------------------------------------------
(* Fulfilment implements Escrow *)

\* confirmOrder reserves all items of the order at once, each for the first time.
LEMMA ConfirmReserves ==
  ASSUME NEW o \in Orders, SettlementInv, ConfirmOrder(o)
  PROVE  Escrow!Reserve(UserOf[o], ItemsOf(o))
<1>1. \A S : Escrow!Total(S) = Total(S)
  BY DEF Escrow!Total, Total, Escrow!MapThenSumSet, MapThenSumSet, Escrow!MapThenFoldSet, MapThenFoldSet
<1>2. ItemsOf(o) # {} /\ ItemsOf(o) \subseteq Items
  BY OrderAssumption DEF ItemsOf
<1>3. \A i \in ItemsOf(o) : Payer[i] = UserOf[o] /\ reservation[i] = "NONE"
  BY DEF ConfirmOrder, Admitted, ItemsOf, Payer, SettlementInv, TablesInv, OrderedItems, SettlementAgreement
<1>4. Total(ItemsOf(o)) \in Nat /\ available[UserOf[o]] \in Nat
  BY TotalType, FulfilmentAssumption DEF ItemsOf, SettlementInv, TypeOK, MoneyOK
<1> QED BY <1>1, <1>2, <1>3, <1>4 DEF Escrow!Reserve, ConfirmOrder, Admitted, ReserveOrderItems

\* A capture takes one price that was on hold.
LEMMA CaptureTakes ==
  ASSUME NEW i \in Items, NEW from, CaptureReservation(i, from)
  PROVE  Escrow!Capture(i)
BY DEF CaptureReservation, Escrow!Capture

\* A release returns one price that was on hold.
LEMMA ReleaseReturns ==
  ASSUME NEW i \in Items, NEW t, ReleaseReservation(i, t)
  PROVE  Escrow!Release(i)
BY DEF ReleaseReservation, ReturnMoney, Escrow!Release

\* A runner loop takes or returns one price, or does nothing to the money.
LEMMA RunnerEscrow ==
  ASSUME NEW w \in Workers, SettlementInv, RunnerStep(w) \/ Crash(w)
  PROVE  (\E i \in Items : Escrow!Capture(i) \/ Escrow!Release(i)) \/ UNCHANGED moneyVars
<1> DEFINE i == witem[w]
<1>1. CASE RunnerRelease(w)
  <2>1. i \in Items
    BY <1>1 DEF RunnerRelease, SettlementInv, TypeOK, WorkersOK
  <2>2. AlreadyReleased(i) => UNCHANGED moneyVars
    BY DEF AlreadyReleased
  <2> QED BY <1>1, <2>1, <2>2, ReleaseReturns DEF RunnerRelease
<1>2. CASE RunnerCapture(w)
  <2>1. i \in Items
    BY <1>2 DEF RunnerCapture, SettlementInv, TypeOK, WorkersOK
  <2> QED BY <1>2, <2>1, CaptureTakes DEF RunnerCapture
<1>3. CASE ~ RunnerRelease(w) /\ ~ RunnerCapture(w)
  BY <1>3 DEF RunnerStep, Crash, CheckpointRetryJob, MoveRunnerToManualReview, FailJob,
     TransitionRunning, PrepareMutation, AcceptInitialMutation, RefuseInitialMutation,
     MutationVerified, MutationUnreadable, MutationNotApplied, TransitionToSettling,
     CompleteJob, WorkerCountsQueue, WorkerInsertsJob, ExecutionError, FencingLost,
     MutationFrame, OnlyTheWorker
<1> QED BY <1>1, <1>2, <1>3

\* The maintenance loop returns one price, or does nothing to the money.
LEMMA MaintenanceEscrow ==
  ASSUME MaintenanceStep
  PROVE  (\E i \in Items : Escrow!Release(i)) \/ UNCHANGED moneyVars
<1>1. ASSUME NEW i \in Items, ReleaseExpiredItem(i)
      PROVE  Escrow!Release(i) \/ UNCHANGED moneyVars
  BY <1>1, ReleaseReturns DEF ReleaseExpiredItem, AlreadyReleased
<1>2. CASE ~ \E i \in Items : ReleaseExpiredItem(i)
  BY <1>2 DEF MaintenanceStep, BeginRecovery, Recover, SelectExpired, FailExpiredJob, SelectIdleOrders,
     MaintCountsQueue, MaintInsertsJob, MaintenanceEnds, OnlyMaintenance
<1> QED BY <1>1, <1>2

\* An operator takes, returns or refunds one price, or does nothing to the money.
LEMMA OperatorEscrow ==
  ASSUME NEW i \in Items, OperatorStep(i)
  PROVE  Escrow!Capture(i) \/ Escrow!Release(i) \/ Escrow!Refund(i) \/ UNCHANGED moneyVars
<1>1. CASE OpenOrderItemReview(i) \/ DecideRetry(i)
  BY <1>1 DEF OpenOrderItemReview, DecideRetry
<1>2. CASE DecideCapture(i)
  BY <1>2, CaptureTakes DEF DecideCapture
<1>3. CASE DecideRelease(i)
  BY <1>3, ReleaseReturns DEF DecideRelease, AlreadyReleased
<1>4. CASE RefundCapturedOrderItem(i)
  BY <1>4 DEF RefundCapturedOrderItem, Refundable, Escrow!Refund, Escrow!Refundable
<1> QED BY <1>1, <1>2, <1>3, <1>4 DEF OperatorStep

\* Every step of Fulfilment is a step of Escrow or leaves the money alone.
LEMMA EscrowNext ==
  ASSUME SettlementInv, [Next]_vars
  PROVE  [Escrow!Next]_Escrow!vars
<1>1. ASSUME NEW o \in Orders, ConfirmOrder(o) PROVE Escrow!Next
  <2>1. UserOf[o] \in Users /\ ItemsOf(o) \in SUBSET Items
    BY FulfilmentAssumption DEF ItemsOf
  <2> QED BY <1>1, <2>1, ConfirmReserves DEF Escrow!Next
<1>2. ASSUME NEW w \in Workers, RunnerStep(w) \/ Crash(w)
      PROVE  Escrow!Next \/ UNCHANGED moneyVars
  BY <1>2, RunnerEscrow DEF Escrow!Next
<1>3. ASSUME MaintenanceStep PROVE Escrow!Next \/ UNCHANGED moneyVars
  BY <1>3, MaintenanceEscrow DEF Escrow!Next
<1>4. ASSUME NEW i \in Items, OperatorStep(i) PROVE Escrow!Next \/ UNCHANGED moneyVars
  BY <1>4, OperatorEscrow DEF Escrow!Next
<1>5. ASSUME \/ UNCHANGED vars
             \/ \E w \in Workers, i \in Items : AcquireRunnableJob(w, i)
             \/ \E i \in Items : LeaseExpires(i) \/ DeadlineStrikes(i)
      PROVE  UNCHANGED moneyVars
  BY <1>5 DEF vars, AcquireRunnableJob, LeaseExpires, DeadlineStrikes
<1>6. UNCHANGED moneyVars => UNCHANGED Escrow!vars
  BY DEF Escrow!vars
<1> QED BY <1>1, <1>2, <1>3, <1>4, <1>5, <1>6 DEF Next

\* Fulfilment implements Escrow: whatever workers, timers, crashes and operators do, in
\* any order, a price is reserved with its order, then taken or returned once and for
\* good, and refunded at most once after it was taken (domain/wallet/service.js).
THEOREM EscrowKept == Spec => EscrowIsKept
<1>1. Init => Escrow!Init
  BY DEF Init, Escrow!Init
<1> QED BY <1>1, EscrowNext, SettlementInvariant, PTL DEF EscrowIsKept, Escrow!Spec, Spec

-----------------------------------------------------------------------------
(* Escrow conserves the money *)

\* The inductive invariant: the balances add up, and what was refunded had been taken.
EscrowInv == Escrow!Conservation /\ \A i \in refunded : i \in Items /\ reservation[i] = "CAPTURED"

\* The items of a customer whose price is on hold, and those whose price the shop keeps.
Held(u) == Escrow!ItemsIn(u, { "RESERVED" })
Kept(u) == Escrow!ItemsIn(u, { "CAPTURED" }) \ refunded

\* The price of some items, as Escrow says it.
LEMMA EscrowTotal == \A S : Escrow!Total(S) = SumOf(Price, S)
BY DEF Escrow!Total, SumOf, Escrow!MapThenSumSet, MapThenSumSet, Escrow!MapThenFoldSet, MapThenFoldSet

\* What Escrow conserves, in terms of the sums.
AddsUp ==
  \A u \in Users : /\ reserved[u] = SumOf(Price, Held(u))
                   /\ available[u] + reserved[u] + SumOf(Price, Kept(u)) = Funding[u]

\* Conservation, as Escrow states it, is what AddsUp says.
LEMMA ConservationIs == Escrow!Conservation <=> AddsUp
BY EscrowTotal, Zenon DEF Escrow!Conservation, AddsUp, Held, Kept

\* The prices of two sets of items together.
LEMMA PricesAdd ==
  ASSUME NEW S \in SUBSET Items, NEW T \in SUBSET Items, S \cap T = {}
  PROVE  /\ SumOf(Price, S \cup T) = SumOf(Price, S) + SumOf(Price, T)
         /\ SumOf(Price, S) \in Nat /\ SumOf(Price, T) \in Nat
BY FulfilmentAssumption, FS_Subset, SumNat, SumUnion

\* Taking one item out of the sum.
LEMMA PricesGrow ==
  ASSUME NEW S \in SUBSET Items, NEW T \in SUBSET Items, NEW i \in T, S = T \ {i}
  PROVE  /\ SumOf(Price, T) = SumOf(Price, S) + Price[i]
         /\ SumOf(Price, S) \in Nat /\ SumOf(Price, T) \in Nat /\ Price[i] \in Nat
<1>1. IsFiniteSet(S) /\ IsFiniteSet(T) /\ \A k \in T : Price[k] \in Nat /\ Price[k] \in Int
  BY FulfilmentAssumption, FS_Subset
<1>2. SumOf(Price, T) = Price[i] + SumOf(Price, T \ {i})
  BY <1>1, SumRemove
<1>3. SumOf(Price, S) \in Nat /\ SumOf(Price, T) \in Nat
  BY <1>1, SumNat
<1>4. SumOf(Price, T) = Price[i] + SumOf(Price, S)
  BY <1>2, Zenon
<1> QED BY <1>1, <1>3, <1>4

\* What is on hold and what is kept are items.
LEMMA HeldAndKept == \A u : Held(u) \in SUBSET Items /\ Kept(u) \in SUBSET Items
BY DEF Held, Kept, Escrow!ItemsIn

\* The balances of customer u change by a and h, and what the shop keeps of him by k.
Moved(u, a, h, k) ==
  /\ \A v \in Users : /\ available'[v] = IF v = u THEN available[v] + a ELSE available[v]
                      /\ reserved'[v] = IF v = u THEN reserved[v] + h ELSE reserved[v]
  /\ SumOf(Price, Held(u)') = SumOf(Price, Held(u)) + h
  /\ SumOf(Price, Kept(u)') = SumOf(Price, Kept(u)) + k
  /\ \A v \in Users \ {u} : Held(v)' = Held(v) /\ Kept(v)' = Kept(v)

\* A step that moves money of one customer to where it is counted conserves it.
LEMMA BalancesMove ==
  ASSUME MoneyOK, EscrowInv, NEW u \in Users, NEW a \in Int, NEW h \in Int, NEW k \in Int, a + h + k = 0,
         Moved(u, a, h, k)
  PROVE  Escrow!Conservation'
<1>1. ASSUME NEW v \in Users
      PROVE  /\ reserved'[v] = SumOf(Price, Held(v)')
             /\ available'[v] + reserved'[v] + SumOf(Price, Kept(v)') = Funding[v]
  <2>1. /\ reserved[v] = SumOf(Price, Held(v))
        /\ available[v] + reserved[v] + SumOf(Price, Kept(v)) = Funding[v]
    BY ConservationIs DEF EscrowInv, AddsUp
  <2>2. SumOf(Price, Kept(v)) \in Nat /\ available[v] \in Nat /\ reserved[v] \in Nat
    BY HeldAndKept, FulfilmentAssumption, FS_Subset, SumNat DEF MoneyOK
  <2>3. v # u => SumOf(Price, Held(v)') = SumOf(Price, Held(v)) /\ SumOf(Price, Kept(v)') = SumOf(Price, Kept(v))
    BY Zenon DEF Moved
  <2> QED BY <2>1, <2>2, <2>3 DEF Moved
<1>2. AddsUp'
  BY <1>1 DEF AddsUp
<1> QED BY <1>2, ConservationIs, PTL

\* The money of an order goes on hold.
LEMMA ReserveConserves ==
  ASSUME MoneyOK, EscrowInv, NEW u \in Users, NEW S \in SUBSET Items, Escrow!Reserve(u, S)
  PROVE  EscrowInv'
<1> USE DEF Held, Kept, Escrow!ItemsIn, MoneyOK, Payer
<1>1. Held(u)' = Held(u) \cup S /\ Held(u) \cap S = {} /\ Kept(u)' = Kept(u)
  BY DEF Escrow!Reserve
<1>2. \A v \in Users \ {u} : Held(v)' = Held(v) /\ Kept(v)' = Kept(v)
  BY DEF Escrow!Reserve
<1>3. \A i \in refunded' : i \in Items /\ reservation'[i] = "CAPTURED"
  BY DEF Escrow!Reserve, EscrowInv
<1>4. /\ available' = [available EXCEPT ![u] = @ - SumOf(Price, S)]
      /\ reserved' = [reserved EXCEPT ![u] = @ + SumOf(Price, S)]
  BY EscrowTotal DEF Escrow!Reserve
<1>5. SumOf(Price, Held(u) \cup S) = SumOf(Price, Held(u)) + SumOf(Price, S) /\ SumOf(Price, S) \in Nat
  BY <1>1, HeldAndKept, PricesAdd
<1> HIDE DEF Held, Kept, Escrow!ItemsIn, Payer
<1>6. SumOf(Price, Held(u)') = SumOf(Price, Held(u)) + SumOf(Price, S) /\ SumOf(Price, Kept(u)') = SumOf(Price, Kept(u)) + 0
  <2>1. SumOf(Price, Held(u)') = SumOf(Price, Held(u) \cup S) /\ SumOf(Price, Kept(u)') = SumOf(Price, Kept(u))
    BY <1>1, Zenon
  <2>2. SumOf(Price, Kept(u)) \in Nat
    BY HeldAndKept, FulfilmentAssumption, FS_Subset, SumNat
  <2> QED BY <1>5, <2>1, <2>2
<1>7. \A v \in Users : /\ available'[v] = IF v = u THEN available[v] + (-SumOf(Price, S)) ELSE available[v]
                       /\ reserved'[v] = IF v = u THEN reserved[v] + SumOf(Price, S) ELSE reserved[v]
  BY <1>4, <1>5
<1>8. Moved(u, -SumOf(Price, S), SumOf(Price, S), 0)
  BY <1>2, <1>6, <1>7, Zenon DEF Moved
<1>9. Escrow!Conservation'
  BY <1>5, <1>8, BalancesMove
<1> QED BY <1>3, <1>9 DEF EscrowInv

\* A captured price leaves the hold and is kept.
LEMMA CaptureConserves ==
  ASSUME MoneyOK, EscrowInv, NEW i \in Items, Escrow!Capture(i)
  PROVE  EscrowInv'
<1> DEFINE u == Payer[i]
<1>1. u \in Users
  BY FulfilmentAssumption DEF Payer
<1>2. /\ i \in Held(u) /\ Held(u)' = Held(u) \ {i}
      /\ i \in Kept(u)' /\ Kept(u) = Kept(u)' \ {i} /\ Kept(u)' \in SUBSET Items /\ Held(u)' \in SUBSET Items
  BY DEF Escrow!Capture, Held, Kept, Escrow!ItemsIn, MoneyOK, EscrowInv
<1>3. \A v \in Users \ {u} : Held(v)' = Held(v) /\ Kept(v)' = Kept(v)
  BY DEF Escrow!Capture, Held, Kept, Escrow!ItemsIn, MoneyOK
<1>4. \A j \in refunded' : j \in Items /\ reservation'[j] = "CAPTURED"
  BY DEF Escrow!Capture, EscrowInv, MoneyOK
<1>5. \A v \in Users : /\ available'[v] = IF v = u THEN available[v] + 0 ELSE available[v]
                       /\ reserved'[v] = IF v = u THEN reserved[v] + (-Price[i]) ELSE reserved[v]
  <2>1. available' = available /\ reserved' = [reserved EXCEPT ![u] = @ - Price[i]]
    BY DEF Escrow!Capture
  <2> QED BY <1>1, <2>1, FulfilmentAssumption DEF MoneyOK
<1> HIDE DEF u
<1>6. /\ SumOf(Price, Held(u)) = SumOf(Price, Held(u)') + Price[i] /\ SumOf(Price, Held(u)') \in Nat
      /\ SumOf(Price, Kept(u)') = SumOf(Price, Kept(u)) + Price[i] /\ Price[i] \in Nat
  BY <1>2, HeldAndKept, PricesGrow
<1>7. Escrow!Conservation'
  <2>1. SumOf(Price, Held(u)') = SumOf(Price, Held(u)) + (-Price[i])
    BY <1>6
  <2>2. Moved(u, 0, -Price[i], Price[i])
    BY <1>3, <1>5, <1>6, <2>1, Zenon DEF Moved
  <2>3. Price[i] \in Int /\ -Price[i] \in Int
    BY <1>6
  <2> QED BY <1>1, <2>2, <2>3, BalancesMove
<1> QED BY <1>4, <1>7 DEF EscrowInv

\* A released price goes back to the available balance.
LEMMA ReleaseConserves ==
  ASSUME MoneyOK, EscrowInv, NEW i \in Items, Escrow!Release(i)
  PROVE  EscrowInv'
<1> DEFINE u == Payer[i]
<1>1. u \in Users
  BY FulfilmentAssumption DEF Payer
<1>2. i \in Held(u) /\ Held(u)' = Held(u) \ {i} /\ Held(u)' \in SUBSET Items /\ Kept(u)' = Kept(u)
  BY DEF Escrow!Release, Held, Kept, Escrow!ItemsIn, MoneyOK, EscrowInv
<1>3. \A v \in Users \ {u} : Held(v)' = Held(v) /\ Kept(v)' = Kept(v)
  BY DEF Escrow!Release, Held, Kept, Escrow!ItemsIn, MoneyOK
<1>4. \A j \in refunded' : j \in Items /\ reservation'[j] = "CAPTURED"
  BY DEF Escrow!Release, EscrowInv, MoneyOK
<1>5. \A v \in Users : /\ available'[v] = IF v = u THEN available[v] + Price[i] ELSE available[v]
                       /\ reserved'[v] = IF v = u THEN reserved[v] + (-Price[i]) ELSE reserved[v]
  BY <1>1, FulfilmentAssumption DEF Escrow!Release, MoneyOK
<1> HIDE DEF u
<1>6. SumOf(Price, Held(u)) = SumOf(Price, Held(u)') + Price[i] /\ SumOf(Price, Held(u)') \in Nat /\ Price[i] \in Nat
  BY <1>2, HeldAndKept, PricesGrow
<1>7. SumOf(Price, Kept(u)') = SumOf(Price, Kept(u)) + 0
  <2>1. SumOf(Price, Kept(u)) \in Nat
    BY HeldAndKept, FulfilmentAssumption, FS_Subset, SumNat
  <2>2. SumOf(Price, Kept(u)') = SumOf(Price, Kept(u))
    BY <1>2, Zenon
  <2> QED BY <2>1, <2>2
<1>8. Escrow!Conservation'
  <2>1. SumOf(Price, Held(u)') = SumOf(Price, Held(u)) + (-Price[i])
    BY <1>6
  <2>2. Moved(u, Price[i], -Price[i], 0)
    BY <1>3, <1>5, <1>7, <2>1, Zenon DEF Moved
  <2>3. Price[i] \in Int /\ -Price[i] \in Int
    BY <1>6
  <2> QED BY <1>1, <2>2, <2>3, BalancesMove
<1> QED BY <1>4, <1>8 DEF EscrowInv

\* A refunded price is no longer kept.
LEMMA RefundConserves ==
  ASSUME MoneyOK, EscrowInv, NEW i \in Items, Escrow!Refund(i)
  PROVE  EscrowInv'
<1> DEFINE u == Payer[i]
<1>1. u \in Users
  BY FulfilmentAssumption DEF Payer
<1>2. i \in Kept(u) /\ Kept(u)' = Kept(u) \ {i} /\ Kept(u)' \in SUBSET Items /\ Held(u)' = Held(u)
  BY DEF Escrow!Refund, Escrow!Refundable, Held, Kept, Escrow!ItemsIn
<1>3. \A v \in Users \ {u} : Held(v)' = Held(v) /\ Kept(v)' = Kept(v)
  BY DEF Escrow!Refund, Escrow!Refundable, Held, Kept, Escrow!ItemsIn
<1>4. \A j \in refunded' : j \in Items /\ reservation'[j] = "CAPTURED"
  BY DEF Escrow!Refund, Escrow!Refundable, EscrowInv
<1>5. \A v \in Users : /\ available'[v] = IF v = u THEN available[v] + Price[i] ELSE available[v]
                       /\ reserved'[v] = IF v = u THEN reserved[v] + 0 ELSE reserved[v]
  BY <1>1, FulfilmentAssumption DEF Escrow!Refund, MoneyOK
<1> HIDE DEF u
<1>6. SumOf(Price, Kept(u)) = SumOf(Price, Kept(u)') + Price[i] /\ SumOf(Price, Kept(u)') \in Nat /\ Price[i] \in Nat
  BY <1>2, HeldAndKept, PricesGrow
<1>7. SumOf(Price, Held(u)') = SumOf(Price, Held(u)) + 0
  <2>1. SumOf(Price, Held(u)) \in Nat
    BY HeldAndKept, FulfilmentAssumption, FS_Subset, SumNat
  <2>2. SumOf(Price, Held(u)') = SumOf(Price, Held(u))
    BY <1>2, Zenon
  <2> QED BY <2>1, <2>2
<1>8. Escrow!Conservation'
  <2>1. SumOf(Price, Kept(u)') = SumOf(Price, Kept(u)) + (-Price[i])
    BY <1>6
  <2>2. Moved(u, Price[i], 0, -Price[i])
    BY <1>3, <1>5, <1>7, <2>1, Zenon DEF Moved
  <2>3. Price[i] \in Int /\ -Price[i] \in Int
    BY <1>6
  <2> QED BY <1>1, <2>2, <2>3, BalancesMove
<1> QED BY <1>4, <1>8 DEF EscrowInv

\* At the start nothing is reserved.
LEMMA EscrowInvInit == Init => EscrowInv
<1> SUFFICES ASSUME Init PROVE EscrowInv
  OBVIOUS
<1>1. \A u \in Users : Held(u) = {} /\ Kept(u) = {}
  BY DEF Init, Held, Kept, Escrow!ItemsIn
<1>2. \A u \in Users : SumOf(Price, Held(u)) = 0 /\ SumOf(Price, Kept(u)) = 0
  BY <1>1, SumEmpty, Zenon
<1>3. \A u \in Users : reserved[u] = 0 /\ available[u] = Funding[u] /\ Funding[u] \in Nat
  BY FulfilmentAssumption DEF Init
<1> QED BY <1>2, <1>3, ConservationIs DEF EscrowInv, Init, AddsUp

\* A customer's two balances are at all times what the reservations and refunds of his
\* items make of what he put in, whatever workers, timers, crashes and operators do.
THEOREM MoneyConserved == Spec => []WalletMatchesReservations
<1>1. SettlementInv /\ EscrowInv /\ [Next]_vars => EscrowInv'
  <2> SUFFICES ASSUME SettlementInv, EscrowInv, [Next]_vars PROVE EscrowInv'
    OBVIOUS
  <2>1. MoneyOK
    BY DEF SettlementInv, TypeOK
  <2>2. CASE UNCHANGED Escrow!vars
    <3>1. Escrow!Conservation' = Escrow!Conservation
      BY <2>2 DEF Escrow!vars, Escrow!Conservation, Escrow!ItemsIn
    <3> QED BY <2>2, <3>1 DEF EscrowInv, Escrow!vars
  <2> QED BY <2>1, <2>2, EscrowNext, ReserveConserves, CaptureConserves, ReleaseConserves, RefundConserves
          DEF Escrow!Next
<1>2. EscrowInv => WalletMatchesReservations
  BY DEF EscrowInv, WalletMatchesReservations
<1> QED BY <1>1, <1>2, EscrowInvInit, SettlementInvariant, PTL DEF Spec
=============================================================================
