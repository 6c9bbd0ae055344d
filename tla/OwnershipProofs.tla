--------------------------- MODULE OwnershipProofs ---------------------------
(***************************************************************************)
(* Who may touch a job: a loop that still owns its job finds it as it left *)
(* it, items whose money is held keep in step with their job, and recovery *)
(* overlooks no request but one of the dispatch it ends, for every value   *)
(* of the constants.                                                       *)
(***************************************************************************)
EXTENDS SettlementProofs

USE DEF orderVars, moneyVars, jobVars, mutVars, workerVars, passVars, maintVars

-----------------------------------------------------------------------------
(* The inductive invariant of the ownership *)

\* As long as its money is held, an item and its job are in step.
InStep(i) ==
  \/ item[i] = "RESERVED" /\ job[i] = Absent
  \/ item[i] \in { "QUEUED", "LEASED", "RUNNING", "SETTLING", "WAITING_RETRY" } /\ job[i] = item[i]
  \/ item[i] = "MANUAL_REVIEW" /\ job[i] \in { Absent, "MANUAL_REVIEW" } /\ review[i] = "OPEN"

ItemOwned(i) ==
  /\ reservation[i] = "RESERVED" => InStep(i)
  /\ item[i] = "RESERVED" => reservation[i] = "RESERVED" /\ job[i] = Absent
  /\ item[i] = "MANUAL_REVIEW" => job[i] \in { Absent, "MANUAL_REVIEW" } \cup FinalJobStates
  /\ job[i] = "MANUAL_REVIEW" => holder[i] = Nobody
  /\ job[i] = "WAITING_RETRY" /\ mutation[i] \in PendingMutation => attempt[i] = token[i]

\* What a loop relies on while its fenced statements still match.
StageOf(w, i) ==
  /\ wpc[w] \in { "leased", "released" } => job[i] = "LEASED"
  /\ wpc[w] \in { "running", "sending", "verifying", "retrying" } =>
       job[i] = "RUNNING" /\ item[i] = "RUNNING"
  /\ wpc[w] = "settling" => job[i] = "SETTLING" /\ item[i] = "SETTLING"
  /\ wpc[w] = "captured" => job[i] = "SETTLING"
  /\ wpc[w] \in { "sending", "verifying", "retrying" } => attempt[i] = token[i]

WorkerOwned(w) ==
  /\ Owns(w) => StageOf(w, witem[w])
  /\ wpc[w] = "captured" => reservation[witem[w]] = "CAPTURED"
  /\ wpc[w] = "released" => reservation[witem[w]] = "RELEASED"

OwnershipInv ==
  /\ \A i \in Items : ItemOwned(i)
  /\ \A w \in Workers : WorkerOwned(w)
  /\ mpc = "failing" => reservation[mcur] = "RELEASED"

\* What the open recovery overlooks: of a job that still is as it sees it, at most a
\* request of the current dispatch.
SnapshotInv ==
  /\ mpc # "begun" => mseen = {}
  /\ \A i \in mseen : job[i] \in { "RUNNING", "VERIFYING" } /\ mutation[i] \in PendingMutation
                     /\ attempt[i] # token[i] => i \in mpending

\* Both invariants hold of the empty database.
LEMMA OwnershipInit == Init => OwnershipInv /\ SnapshotInv
BY DEF Init, OwnershipInv, SnapshotInv, ItemOwned, WorkerOwned, Owns, Absent, FinalJobStates

\* Every row but that of item i stays, and every loop but w.
OnlyRow(i) ==
  \A k \in Items \ { i } :
    /\ item'[k] = item[k] /\ reservation'[k] = reservation[k]
    /\ job'[k] = job[k] /\ holder'[k] = holder[k] /\ token'[k] = token[k]
    /\ mutation'[k] = mutation[k] /\ attempt'[k] = attempt[k] /\ review'[k] = review[k]

OnlyLoop(w) ==
  \A v \in Workers \ { w } : wpc'[v] = wpc[v] /\ witem'[v] = witem[v] /\ wtoken'[v] = wtoken[v]

SettledStays(i) == reservation[i] \in { "CAPTURED", "RELEASED" } => reservation'[i] = reservation[i]

\* Loop v does not own the job of item i afterwards, or sees no change of it.
Undisturbed(v, i) ==
  \/ holder'[i] # v
  \/ /\ holder'[i] = holder[i] /\ token'[i] = token[i] /\ attempt'[i] = attempt[i]
     /\ job'[i] = job[i] /\ item'[i] = item[i]

\* The functions of the state, for steps that change them at one row.
RowTypes ==
  /\ wpc \in [Workers -> WorkerStep] /\ witem \in [Workers -> Items \cup { NoItem }]
  /\ wtoken \in [Workers -> Nat]
  /\ item \in [Items -> ItemState] /\ reservation \in [Items -> ReservationState]
  /\ job \in [Items -> JobState] /\ holder \in [Items -> Workers \cup { Nobody }]
  /\ token \in [Items -> Nat] /\ mutation \in [Items -> MutationState]
  /\ attempt \in [Items -> Nat] /\ review \in [Items -> ReviewState]
  /\ Nobody \notin Workers

\* The tables and the memory of the loops are functions of the right sets.
LEMMA Rows == TypeOK => RowTypes
BY FulfilmentAssumption DEF TypeOK, OrdersOK, MoneyOK, JobsOK, WorkersOK, RowTypes

\* A step on one row leaves the loops alone that do not own its job.
LEMMA OtherLoops ==
  ASSUME TypeOK, OwnershipInv, NEW i \in Items, NEW v \in Workers,
         OnlyRow(i), SettledStays(i),
         wpc[v] # "idle" /\ witem[v] = i => Undisturbed(v, i),
         wpc'[v] = wpc[v], witem'[v] = witem[v], wtoken'[v] = wtoken[v]
  PROVE  WorkerOwned(v)'
<1>1. WorkerOwned(v) /\ (wpc[v] # "idle" => witem[v] \in Items)
  BY DEF OwnershipInv, TypeOK, WorkersOK
<1>2. CASE witem[v] = i
  BY <1>1, <1>2 DEF WorkerOwned, Owns, StageOf, SettledStays, Undisturbed
<1>3. CASE witem[v] # i
  BY <1>1, <1>3 DEF WorkerOwned, Owns, StageOf, OnlyRow
<1> QED BY <1>2, <1>3

\* A step on one row keeps the invariant if it does so at that row and in every loop.
LEMMA RowStep ==
  ASSUME TypeOK, OwnershipInv, NEW i \in Items,
         OnlyRow(i), ItemOwned(i)', \A v \in Workers : WorkerOwned(v)',
         mpc' = "failing" => reservation'[mcur'] = "RELEASED"
  PROVE  OwnershipInv'
<1>1. \A k \in Items \ { i } : ItemOwned(k)'
  BY DEF OwnershipInv, ItemOwned, InStep, OnlyRow
<1> QED BY <1>1 DEF OwnershipInv

\* A step of loop w on one row keeps the invariant if it does so at that row and in w.
LEMMA RunnerRow ==
  ASSUME TypeOK, OwnershipInv, NEW w \in Workers, NEW i \in Items,
         OnlyRow(i), OnlyLoop(w), UNCHANGED << mpc, mcur >>, SettledStays(i),
         \A v \in Workers \ { w } : Undisturbed(v, i),
         ItemOwned(i)', WorkerOwned(w)'
  PROVE  OwnershipInv'
<1>1. \A v \in Workers : WorkerOwned(v)'
  BY OtherLoops DEF OnlyLoop
<1>2. mpc' = "failing" => reservation'[mcur'] = "RELEASED"
  BY DEF OwnershipInv, OnlyRow, SettledStays, TypeOK, MaintenanceOK
<1> QED BY <1>1, <1>2, RowStep

\* A step on one row, by an operator or the maintenance loop, keeps the invariant if it
\* does so at that row and for the loop that still owns the job.
LEMMA LoopsStay ==
  ASSUME TypeOK, OwnershipInv, NEW i \in Items, OnlyRow(i), UNCHANGED workerVars, SettledStays(i),
         ItemOwned(i)', mpc' = "failing" => reservation'[mcur'] = "RELEASED",
         \A v \in Workers : witem[v] = i /\ Owns(v)' => StageOf(v, i)'
  PROVE  OwnershipInv'
<1>1. ASSUME NEW v \in Workers PROVE WorkerOwned(v)'
  <2>1. WorkerOwned(v) /\ (wpc[v] # "idle" => witem[v] \in Items)
    BY DEF OwnershipInv, TypeOK, WorkersOK
  <2>2. CASE witem[v] = i
    BY <2>1, <2>2 DEF WorkerOwned, SettledStays
  <2>3. CASE witem[v] # i
    BY <2>1, <2>3 DEF WorkerOwned, Owns, StageOf, OnlyRow
  <2> QED BY <2>2, <2>3
<1> QED BY <1>1, RowStep

\* A step that changes no table but ends leases keeps the invariant, when the loops it
\* moves rely on nothing any more.
LEMMA NothingMoves ==
  ASSUME TypeOK, OwnershipInv, UNCHANGED << item, reservation, job, token, mutation, attempt, review >>,
         \A i \in Items : holder'[i] \in { holder[i], Nobody }, Nobody \notin Workers,
         \A v \in Workers : \/ wpc'[v] \in { "idle", "counting", "inserting" }
                            \/ wpc'[v] = wpc[v] /\ witem'[v] = witem[v] /\ wtoken'[v] = wtoken[v],
         mpc' = "failing" => mpc = "failing" /\ mcur' = mcur
  PROVE  OwnershipInv'
<1>1. \A i \in Items : ItemOwned(i)'
  BY DEF OwnershipInv, ItemOwned, InStep
<1>2. \A v \in Workers : WorkerOwned(v)'
  BY DEF OwnershipInv, WorkerOwned, Owns, StageOf, TypeOK, WorkersOK
<1> QED BY <1>1, <1>2 DEF OwnershipInv, TypeOK, MaintenanceOK

\* materializeNextOrderItem, by whatever loop, keeps the invariant.
LEMMA Materialized ==
  ASSUME NEW o, SettlementInv, OwnershipInv, MaterializeNextOrderItem(o),
         UNCHANGED << moneyVars, mutVars, review >>,
         \A v \in Workers : \/ wpc'[v] = "idle"
                            \/ wpc'[v] = wpc[v] /\ witem'[v] = witem[v] /\ wtoken'[v] = wtoken[v],
         mpc' # "failing" \/ UNCHANGED << mpc, mcur >>
  PROVE  OwnershipInv'
<1> USE DEF SettlementInv
<1>0. RowTypes
  BY Rows
<1>1. CASE Waiting(o) = {}
  BY <1>0, <1>1, NothingMoves DEF MaterializeNextOrderItem, RowTypes
<1>2. CASE Waiting(o) # {}
  <2>1. PICK n \in Items : /\ item[n] = "RESERVED" /\ item' = [item EXCEPT ![n] = "QUEUED"]
                           /\ job' = [job EXCEPT ![n] = "QUEUED"] /\ UNCHANGED << holder, token >>
    BY <1>2, NextInLineWaits DEF MaterializeNextOrderItem, Waiting, ItemsOf
  <2>2. ItemOwned(n) /\ job[n] = Absent
    BY <2>1 DEF OwnershipInv, ItemOwned
  <2>3. OnlyRow(n) /\ SettledStays(n)
    BY <2>1 DEF OnlyRow, SettledStays
  <2>4. ItemOwned(n)'
    BY <1>0, <2>1, <2>2 DEF ItemOwned, InStep, RowTypes, Absent, FinalJobStates
  <2>5. ASSUME NEW v \in Workers PROVE WorkerOwned(v)'
    <3>1. wpc[v] # "idle" => witem[v] # n
      BY <2>2 DEF JobsInv
    <3>2. CASE wpc'[v] = "idle"
      BY <3>2 DEF WorkerOwned, Owns
    <3>3. CASE wpc'[v] = wpc[v] /\ witem'[v] = witem[v] /\ wtoken'[v] = wtoken[v]
      BY <3>1, <3>3, <2>3, OtherLoops
    <3> QED BY <3>2, <3>3
  <2>6. mpc' = "failing" => reservation'[mcur'] = "RELEASED"
    BY DEF OwnershipInv
  <2> QED BY <2>3, <2>4, <2>5, <2>6, RowStep
<1> QED BY <1>1, <1>2

\* Every step of a runner loop, its crash included, keeps the ownership invariant.
LEMMA RunnerOwned ==
  ASSUME NEW w \in Workers, NEW i \in Items, i = witem[w], wpc[w] # "idle",
         SettlementInv, OwnershipInv, RunnerStep(w) \/ Crash(w)
  PROVE  OwnershipInv'
<1> USE DEF SettlementInv
<1>0. RowTypes /\ job[i] # Absent /\ WorkerOwned(w) /\ ItemOwned(i)
  BY Rows DEF JobsInv, OwnershipInv
<1> USE <1>0 DEF RowTypes
<1>1. CASE CheckpointRetryJob(w)
  <2>1. OnlyRow(i) /\ OnlyLoop(w) /\ UNCHANGED << mpc, mcur, reservation >>
    BY <1>1 DEF CheckpointRetryJob, OnlyRow, OnlyLoop, Restart, SnapshotAges
  <2>2. ItemOwned(i)'
    BY <1>1 DEF CheckpointRetryJob, ItemOwned, InStep, WorkerOwned, StageOf, FinalJobStates, Absent
  <2>3. WorkerOwned(w)'
    BY <1>1 DEF CheckpointRetryJob, Restart, WorkerOwned, Owns
  <2>4. \A v \in Workers \ { w } : Undisturbed(v, i)
    BY <1>1 DEF CheckpointRetryJob, Undisturbed
  <2> QED BY <2>1, <2>2, <2>3, <2>4, RunnerRow DEF SettledStays
<1>2. CASE MoveRunnerToManualReview(w)
  <2>1. OnlyRow(i) /\ OnlyLoop(w) /\ UNCHANGED << mpc, mcur, reservation >>
    BY <1>2 DEF MoveRunnerToManualReview, JobToReview, OpenReviews, OnlyRow, OnlyLoop, Restart, SnapshotAges
  <2>2. ItemOwned(i)'
    BY <1>2 DEF MoveRunnerToManualReview, JobToReview, OpenReviews, ItemOwned, InStep, FinalJobStates, Absent
  <2>3. WorkerOwned(w)'
    BY <1>2 DEF MoveRunnerToManualReview, Restart, WorkerOwned, Owns
  <2>4. \A v \in Workers \ { w } : Undisturbed(v, i)
    BY <1>2 DEF MoveRunnerToManualReview, JobToReview, Undisturbed
  <2> QED BY <2>1, <2>2, <2>3, <2>4, RunnerRow DEF SettledStays
<1>3. CASE RunnerRelease(w)
  <2>0. /\ reservation' = [reservation EXCEPT ![i] = "RELEASED"] /\ OnlyLoop(w)
        /\ wpc' = [wpc EXCEPT ![w] = "released"] /\ UNCHANGED << witem, wtoken >>
        /\ UNCHANGED << jobVars, mutVars, review, passVars >>
        /\ reservation[i] \in { "RESERVED", "RELEASED" } /\ Owns(w) /\ wpc[w] = "leased"
        /\ \/ UNCHANGED item
           \/ \E t \in ReleasedStates : item' = [item EXCEPT ![i] = t]
    BY <1>3 DEF RunnerRelease, ReleaseReservation, ReturnMoney, AlreadyReleased, Step, OnlyLoop,
       ReleasedStates, SnapshotAges
  <2>1. OnlyRow(i) /\ UNCHANGED << mpc, mcur >> /\ SettledStays(i)
    BY <2>0 DEF OnlyRow, SettledStays
  <2>2. ItemOwned(i)'
    BY <2>0 DEF ItemOwned, InStep, FinalJobStates, Absent, ReleasedStates, WorkerOwned, StageOf
  <2>3. WorkerOwned(w)'
    BY <2>0 DEF WorkerOwned, Owns, StageOf
  <2>4. \A v \in Workers \ { w } : Undisturbed(v, i)
    BY <2>0 DEF Owns, Undisturbed
  <2> QED BY <2>0, <2>1, <2>2, <2>3, <2>4, RunnerRow
<1>4. CASE FailJob(w)
  <2>1. OnlyRow(i) /\ OnlyLoop(w) /\ UNCHANGED << mpc, mcur, reservation >>
    BY <1>4 DEF FailJob, OnlyRow, OnlyLoop, Step, SnapshotAges
  <2>2. ItemOwned(i)'
    BY <1>4 DEF FailJob, ItemOwned, InStep, FinalJobStates, Absent, WorkerOwned
  <2>3. WorkerOwned(w)'
    BY <1>4 DEF FailJob, Step, WorkerOwned, Owns, StageOf
  <2>4. \A v \in Workers \ { w } : Undisturbed(v, i)
    BY <1>4 DEF FailJob, Undisturbed
  <2> QED BY <2>1, <2>2, <2>3, <2>4, RunnerRow DEF SettledStays
<1>5. CASE TransitionRunning(w) \/ TransitionToSettling(w)
  <2>1. OnlyRow(i) /\ OnlyLoop(w) /\ UNCHANGED << mpc, mcur, reservation >>
    BY <1>5 DEF TransitionRunning, TransitionToSettling, OnlyRow, OnlyLoop, Step, SnapshotAges
  <2>2. ItemOwned(i)'
    BY <1>5 DEF TransitionRunning, TransitionToSettling, ItemOwned, InStep, FinalJobStates, Absent
  <2>3. WorkerOwned(w)'
    BY <1>5 DEF TransitionRunning, TransitionToSettling, Step, WorkerOwned, Owns, StageOf
  <2>4. \A v \in Workers \ { w } : Undisturbed(v, i)
    BY <1>5 DEF TransitionRunning, TransitionToSettling, Owns, Undisturbed
  <2> QED BY <2>1, <2>2, <2>3, <2>4, RunnerRow DEF SettledStays
<1>6. CASE PrepareMutation(w) \/ AcceptInitialMutation(w) \/ RefuseInitialMutation(w)
           \/ MutationVerified(w) \/ MutationUnreadable(w) \/ MutationNotApplied(w)
  <2>1. OnlyRow(i) /\ OnlyLoop(w) /\ UNCHANGED << mpc, mcur, reservation, item, jobVars, review >>
    BY <1>6 DEF PrepareMutation, AcceptInitialMutation, RefuseInitialMutation, MutationVerified,
       MutationUnreadable, MutationNotApplied, MutationFrame, OnlyRow, OnlyLoop, Step, Restart
  <2>2. job[i] = "RUNNING" /\ Owns(w)
    BY <1>6 DEF PrepareMutation, AcceptInitialMutation, RefuseInitialMutation, MutationVerified,
       MutationUnreadable, MutationNotApplied, WorkerOwned, StageOf
  <2>3. ItemOwned(i)'
    BY <2>1, <2>2 DEF ItemOwned, InStep
  <2>4. WorkerOwned(w)'
    <3>0. wpc'[w] \in { "sending", "verifying", "retrying" } => attempt'[i] = token[i]
      BY <1>6, <2>2 DEF PrepareMutation, AcceptInitialMutation, RefuseInitialMutation, MutationVerified,
         MutationUnreadable, MutationNotApplied, Step, Restart, WorkerOwned, StageOf, Owns
    <3>1. \/ UNCHANGED << witem, wtoken >> /\ wpc'[w] \in { "running", "sending", "verifying", "retrying" }
          \/ wpc'[w] = "idle"
      BY <1>6 DEF PrepareMutation, AcceptInitialMutation, RefuseInitialMutation, MutationVerified,
         MutationUnreadable, MutationNotApplied, Step, Restart
    <3>2. item[i] = "RUNNING"
      BY <1>6, <2>2 DEF PrepareMutation, AcceptInitialMutation, RefuseInitialMutation, MutationVerified,
         MutationUnreadable, MutationNotApplied, WorkerOwned, StageOf
    <3> QED BY <2>1, <2>2, <3>0, <3>1, <3>2 DEF WorkerOwned, Owns, StageOf
  <2>5. \A v \in Workers \ { w } : Undisturbed(v, i)
    BY <2>1, <2>2 DEF Undisturbed, Owns
  <2> QED BY <2>1, <2>3, <2>4, <2>5, RunnerRow DEF SettledStays
<1>7. CASE RunnerCapture(w)
  <2>0. /\ reservation' = [reservation EXCEPT ![i] = "CAPTURED"] /\ OnlyLoop(w)
        /\ wpc' = [wpc EXCEPT ![w] = "captured"] /\ UNCHANGED << witem, wtoken >>
        /\ UNCHANGED << jobVars, mutVars, review, passVars >>
        /\ reservation[i] \in { "RESERVED", "CAPTURED" } /\ Owns(w) /\ wpc[w] = "settling"
        /\ UNCHANGED item \/ item' = [item EXCEPT ![i] = "READY_TO_CLAIM"]
    BY <1>7 DEF RunnerCapture, CaptureReservation, Step, OnlyLoop, SnapshotAges
  <2>1. OnlyRow(i) /\ UNCHANGED << mpc, mcur >> /\ SettledStays(i)
    BY <2>0 DEF OnlyRow, SettledStays
  <2>2. ItemOwned(i)'
    BY <2>0 DEF ItemOwned, InStep, FinalJobStates, Absent, WorkerOwned, StageOf
  <2>3. WorkerOwned(w)'
    BY <2>0 DEF WorkerOwned, Owns, StageOf
  <2>4. \A v \in Workers \ { w } : Undisturbed(v, i)
    BY <2>0 DEF Owns, Undisturbed
  <2> QED BY <2>0, <2>1, <2>2, <2>3, <2>4, RunnerRow
<1>8. CASE CompleteJob(w)
  <2>1. OnlyRow(i) /\ OnlyLoop(w) /\ UNCHANGED << mpc, mcur, reservation >>
    BY <1>8 DEF CompleteJob, OnlyRow, OnlyLoop, Step, SnapshotAges
  <2>2. ItemOwned(i)'
    BY <1>8 DEF CompleteJob, ItemOwned, InStep, FinalJobStates, Absent, WorkerOwned
  <2>3. WorkerOwned(w)'
    BY <1>8 DEF CompleteJob, Step, WorkerOwned, Owns, StageOf
  <2>4. \A v \in Workers \ { w } : Undisturbed(v, i)
    BY <1>8 DEF CompleteJob, Undisturbed
  <2> QED BY <2>1, <2>2, <2>3, <2>4, RunnerRow DEF SettledStays
<1>9. CASE WorkerInsertsJob(w)
  <2>1. /\ MaterializeNextOrderItem(OrderOf[i]) /\ UNCHANGED << moneyVars, mutVars, review, maintVars >>
        /\ \A v \in Workers : \/ wpc'[v] = "idle"
                              \/ wpc'[v] = wpc[v] /\ witem'[v] = witem[v] /\ wtoken'[v] = wtoken[v]
    BY <1>9 DEF WorkerInsertsJob, Restart
  <2> QED BY <2>1, Materialized
<1>10. CASE WorkerCountsQueue(w) \/ ExecutionError(w) \/ FencingLost(w) \/ Crash(w)
  <2>1. \A v \in Workers : \/ wpc'[v] \in { "idle", "counting", "inserting" }
                           \/ wpc'[v] = wpc[v] /\ witem'[v] = witem[v] /\ wtoken'[v] = wtoken[v]
    BY <1>10 DEF WorkerCountsQueue, ExecutionError, FencingLost, Crash, Restart, Step
  <2>2. UNCHANGED << item, reservation, jobVars, mutVars, review, maintVars >>
    BY <1>10 DEF WorkerCountsQueue, ExecutionError, FencingLost, Crash, OnlyTheWorker
  <2> QED BY <2>1, <2>2, NothingMoves
<1> QED BY <1>1, <1>2, <1>3, <1>4, <1>5, <1>6, <1>7, <1>8, <1>9, <1>10 DEF RunnerStep

\* acquireRunnableJob keeps the ownership invariant.
LEMMA AcquireOwned ==
  ASSUME NEW w \in Workers, NEW i \in Items, SettlementInv, OwnershipInv, AcquireRunnableJob(w, i)
  PROVE  OwnershipInv'
<1> USE DEF SettlementInv
<1>0. RowTypes /\ ItemOwned(i)
  BY Rows DEF OwnershipInv
<1> USE <1>0 DEF RowTypes
<1>1. OnlyRow(i) /\ OnlyLoop(w) /\ UNCHANGED << mpc, mcur, reservation >>
  BY DEF AcquireRunnableJob, OnlyRow, OnlyLoop, SnapshotAges
<1>2. ItemOwned(i)'
  BY DEF AcquireRunnableJob, ItemOwned, InStep, FinalJobStates, Absent
<1>3. WorkerOwned(w)'
  BY DEF AcquireRunnableJob, WorkerOwned, Owns, StageOf
<1>4. \A v \in Workers \ { w } : Undisturbed(v, i)
  BY DEF AcquireRunnableJob, Undisturbed
<1> QED BY <1>1, <1>2, <1>3, <1>4, RunnerRow DEF SettledStays

\* confirmOrder keeps the ownership invariant.
LEMMA ConfirmOwned ==
  ASSUME NEW o \in Orders, SettlementInv, OwnershipInv, ConfirmOrder(o)
  PROVE  OwnershipInv'
<1> USE DEF SettlementInv
<1>0. RowTypes
  BY Rows
<1> USE <1>0 DEF RowTypes
<1> DEFINE S == ItemsOf(o)  f == FirstItem(o)
<1>1. /\ f \in S /\ S \subseteq Items
      /\ \A k \in S : item[k] = Absent /\ job[k] = Absent /\ reservation[k] = "NONE"
  BY FirstItemIsItem DEF ConfirmOrder, Admitted, ItemsOf, TablesInv, OrderedItems, JobsInv, SettlementAgreement
<1>2. /\ reservation' = [k \in Items |-> IF k \in S THEN "RESERVED" ELSE reservation[k]]
      /\ item' = [k \in Items |-> IF k = f THEN "QUEUED" ELSE IF k \in S THEN "RESERVED" ELSE item[k]]
      /\ job' = [job EXCEPT ![f] = "QUEUED"]
      /\ UNCHANGED << holder, token, mutVars, review, workerVars, maintVars >>
  BY DEF ConfirmOrder, ReserveOrderItems
<1> HIDE DEF S, f
<1>3. ASSUME NEW k \in Items PROVE ItemOwned(k)'
  <2>1. ItemOwned(k)
    BY DEF OwnershipInv
  <2>2. CASE k = f
    BY <1>1, <1>2, <2>2 DEF ItemOwned, InStep, Absent, FinalJobStates
  <2>3. CASE k \in S /\ k # f
    BY <1>1, <1>2, <2>3 DEF ItemOwned, InStep, Absent, FinalJobStates
  <2>4. CASE k \notin S
    BY <1>1, <1>2, <2>1, <2>4 DEF ItemOwned, InStep
  <2> QED BY <2>2, <2>3, <2>4
<1>4. ASSUME NEW v \in Workers PROVE WorkerOwned(v)'
  <2>1. WorkerOwned(v) /\ (wpc[v] # "idle" => witem[v] \in Items \ S)
    BY <1>1 DEF OwnershipInv, JobsInv, TypeOK, WorkersOK
  <2> QED BY <1>1, <1>2, <2>1 DEF WorkerOwned, Owns, StageOf
<1>5. mpc' = "failing" => reservation'[mcur'] = "RELEASED"
  BY <1>1, <1>2 DEF OwnershipInv, TypeOK, MaintenanceOK
<1> QED BY <1>3, <1>4, <1>5 DEF OwnershipInv

\* A release, or its repetition, leaves the reservation RELEASED.
LEMMA ReleasedRow ==
  ASSUME SettlementInv, OwnershipInv, NEW i \in Items, NEW t \in ReleasedStates,
         ReleaseReservation(i, t) \/ AlreadyReleased(i)
  PROVE  /\ reservation' = [reservation EXCEPT ![i] = "RELEASED"]
         /\ \/ UNCHANGED item /\ reservation[i] = "RELEASED"
            \/ item' = [item EXCEPT ![i] = t] /\ reservation[i] = "RESERVED"
<1>1. RowTypes
  BY Rows DEF SettlementInv
<1> QED BY <1>1 DEF ReleaseReservation, ReturnMoney, AlreadyReleased, RowTypes

\* Every step of the maintenance loop keeps the ownership invariant.
LEMMA MaintenanceOwned ==
  ASSUME SettlementInv, OwnershipInv, SnapshotInv, MaintenanceStep
  PROVE  OwnershipInv'
<1> USE DEF SettlementInv
<1>0. RowTypes
  BY Rows
<1> USE <1>0 DEF RowTypes
<1>1. ASSUME NEW due \in SUBSET Items, Recover(due) PROVE OwnershipInv'
  <2>1. UNCHANGED << reservation, token, mutVars, workerVars, mjobs, mcur >> /\ mpc' = "recovered"
    BY <1>1 DEF Recover
  <2>2. ASSUME NEW k \in Items
        PROVE  \/ /\ item[k] = "READY_TO_CLAIM" /\ job[k] \notin { Absent, "COMPLETED" }
                  /\ job'[k] = "COMPLETED" /\ item'[k] = item[k] /\ holder'[k] = Nobody /\ review'[k] = review[k]
               \/ /\ holder[k] = Nobody /\ job[k] \in { "RUNNING", "VERIFYING", "SETTLING" } /\ holder'[k] = Nobody
                  /\ \/ job'[k] = "MANUAL_REVIEW" /\ item'[k] = "MANUAL_REVIEW" /\ review'[k] = "OPEN"
                     \/ /\ job'[k] = "WAITING_RETRY" /\ item'[k] = "WAITING_RETRY" /\ review'[k] = review[k]
                        /\ mutation[k] \in PendingMutation => attempt[k] = token[k]
               \/ /\ \/ job[k] = "LEASED" /\ holder[k] = Nobody
                     \/ job[k] = "WAITING_RETRY"
                  /\ job'[k] = "QUEUED" /\ holder'[k] = holder[k] /\ review'[k] = review[k]
                  /\ item'[k] = IF item[k] = job[k] THEN "QUEUED" ELSE item[k]
               \/ /\ job'[k] = job[k] /\ item'[k] = item[k] /\ holder'[k] = holder[k] /\ review'[k] = review[k]
    <3> DEFINE C == k \in mseen /\ item[k] = "READY_TO_CLAIM" /\ job[k] \notin { Absent, "COMPLETED" }
               U == k \in mseen /\ job[k] = "LEASED" /\ holder[k] = Nobody
               R == k \in mseen /\ holder[k] = Nobody /\ job[k] \in { "RUNNING", "VERIFYING", "SETTLING" }
               D == job[k] = "SETTLING" \/ k \in mpending
    <3>0. R /\ ~D /\ mutation[k] \in PendingMutation => attempt[k] = token[k]
      BY DEF SnapshotInv
    <3>1. CASE C
      BY <1>1, <3>1 DEF Recover, OpenReviews
    <3>2. CASE ~C /\ U
      BY <1>1, <3>2 DEF Recover, OpenReviews
    <3>3. CASE ~C /\ R /\ D
      BY <1>1, <3>3 DEF Recover, OpenReviews
    <3>4. CASE ~C /\ R /\ ~D
      BY <1>1, <3>0, <3>4 DEF Recover, OpenReviews
    <3>5. CASE ~C /\ ~U /\ ~R
      BY <1>1, <3>5 DEF Recover, OpenReviews
    <3> QED BY <3>1, <3>2, <3>3, <3>4, <3>5
  <2>3. ASSUME NEW k \in Items PROVE ItemOwned(k)'
    <3>1. ItemOwned(k) /\ SettlementAgreement
      BY DEF OwnershipInv, TablesInv
    <3> QED BY <2>1, <2>2, <3>1 DEF ItemOwned, InStep, SettlementAgreement, Absent, FinalJobStates
  <2>4. ASSUME NEW v \in Workers PROVE WorkerOwned(v)'
    <3>1. WorkerOwned(v) /\ (wpc[v] # "idle" => witem[v] \in Items)
      BY DEF OwnershipInv, TypeOK, WorkersOK
    <3> QED BY <2>1, <2>2, <3>1 DEF WorkerOwned, Owns, StageOf
  <2> QED BY <2>1, <2>3, <2>4 DEF OwnershipInv
<1>2. ASSUME NEW i \in Items, ReleaseExpiredItem(i) PROVE OwnershipInv'
  <2>0. ItemOwned(i)
    BY DEF OwnershipInv
  <2>1. /\ reservation' = [reservation EXCEPT ![i] = "RELEASED"]
        /\ \/ UNCHANGED item /\ reservation[i] = "RELEASED"
           \/ item' = [item EXCEPT ![i] = "EXPIRED_RELEASED"] /\ reservation[i] = "RESERVED"
    BY <1>2, ReleasedRow DEF ReleaseExpiredItem, ReleasedStates
  <2>2. UNCHANGED << jobVars, mutVars, review, workerVars >>
    BY <1>2 DEF ReleaseExpiredItem
  <2>3. OnlyRow(i) /\ SettledStays(i)
    BY <2>1, <2>2 DEF OnlyRow, SettledStays
  <2>4. ItemOwned(i)'
    BY <2>0, <2>1, <2>2 DEF ItemOwned, InStep
  <2>5. mpc' = "failing" => reservation'[mcur'] = "RELEASED"
    BY <1>2, <2>1 DEF ReleaseExpiredItem, TypeOK, MaintenanceOK
  <2>6. item'[i] = item[i] \/ item[i] \notin { "RUNNING", "SETTLING" }
    BY <1>2 DEF ReleaseExpiredItem, ReleaseReservation, AlreadyReleased, MayMove, OrderItemTransitions
  <2>7. \A v \in Workers : witem[v] = i /\ Owns(v)' => StageOf(v, i)'
    BY <2>2, <2>6 DEF OwnershipInv, WorkerOwned, Owns, StageOf
  <2> QED BY <2>2, <2>3, <2>4, <2>5, <2>7, LoopsStay
<1>3. CASE FailExpiredJob
  <2>0. mcur \in Items /\ ItemOwned(mcur) /\ reservation[mcur] = "RELEASED"
    BY <1>3 DEF FailExpiredJob, OwnershipInv, TypeOK, MaintenanceOK
  <2>1. PICK k \in Items : k = mcur
    BY <2>0
  <2>2. /\ job' = [job EXCEPT ![k] = "FAILED"] /\ holder' = [holder EXCEPT ![k] = Nobody] /\ mpc' = "releasing"
        /\ UNCHANGED << item, reservation, token, mutVars, review, workerVars >>
    BY <1>3, <2>1 DEF FailExpiredJob
  <2>3. OnlyRow(k) /\ SettledStays(k)
    BY <2>2 DEF OnlyRow, SettledStays
  <2>4. ItemOwned(k)'
    BY <2>0, <2>1, <2>2 DEF ItemOwned, InStep, FinalJobStates, Absent
  <2>5. \A v \in Workers : witem[v] = k /\ Owns(v)' => StageOf(v, k)'
    BY <2>2 DEF Owns
  <2> QED BY <2>2, <2>3, <2>4, <2>5, LoopsStay
<1>4. ASSUME NEW o \in Orders, MaintInsertsJob(o) PROVE OwnershipInv'
  BY <1>4, Materialized DEF MaintInsertsJob
<1>5. CASE BeginRecovery \/ SelectExpired \/ SelectIdleOrders \/ MaintCountsQueue \/ MaintenanceEnds
  <2>1. UNCHANGED << item, reservation, jobVars, mutVars, review, workerVars >> /\ mpc' # "failing"
    BY <1>5 DEF BeginRecovery, SelectExpired, SelectIdleOrders, MaintCountsQueue, MaintenanceEnds, OnlyMaintenance
  <2> QED BY <2>1, NothingMoves
<1> QED BY <1>1, <1>2, <1>3, <1>4, <1>5 DEF MaintenanceStep

\* Every decision and refund of an operator keeps the ownership invariant.
LEMMA OperatorOwned ==
  ASSUME NEW i \in Items, SettlementInv, OwnershipInv, OperatorStep(i)
  PROVE  OwnershipInv'
<1> USE DEF SettlementInv
<1>0. RowTypes /\ ItemOwned(i) /\ \A v \in Workers : WorkerOwned(v)
  BY Rows DEF OwnershipInv
<1> USE <1>0 DEF RowTypes
<1>1. CASE OpenOrderItemReview(i)
  <2>1. OnlyRow(i) /\ UNCHANGED << workerVars, mpc, mcur, reservation >>
    BY <1>1 DEF OpenOrderItemReview, JobToReview, OpenReviews, OnlyRow, SnapshotAges
  <2>2. ItemOwned(i)'
    BY <1>1 DEF OpenOrderItemReview, JobToReview, OpenReviews, ItemOwned, InStep, FinalJobStates, Absent
  <2>3. \A v \in Workers : witem[v] = i /\ Owns(v)' => StageOf(v, i)'
    BY <1>1 DEF OpenOrderItemReview, JobToReview, ItemOwned, WorkerOwned, Owns, StageOf, FinalJobStates, Absent
  <2> QED BY <2>1, <2>2, <2>3, LoopsStay DEF SettledStays, OwnershipInv
<1>2. CASE DecideRetry(i)
  <2>1. OnlyRow(i) /\ UNCHANGED << workerVars, mpc, mcur, reservation >>
    BY <1>2 DEF DecideRetry, Decide, OnlyRow, SnapshotAges
  <2>2. ItemOwned(i)'
    BY <1>2 DEF DecideRetry, Decide, ItemOwned, InStep, FinalJobStates, Absent
  <2>3. \A v \in Workers : witem[v] = i /\ Owns(v)' => StageOf(v, i)'
    BY <1>2 DEF DecideRetry, Decide, Owns
  <2> QED BY <2>1, <2>2, <2>3, LoopsStay DEF SettledStays, OwnershipInv
<1>3. CASE DecideCapture(i)
  <2>1. /\ reservation' = [reservation EXCEPT ![i] = "CAPTURED"] /\ reservation[i] \in { "RESERVED", "CAPTURED" }
        /\ \/ item' = [item EXCEPT ![i] = "READY_TO_CLAIM"]
           \/ item' = [item EXCEPT ![i] = "SETTLING"]
        /\ item[i] = "MANUAL_REVIEW" /\ review' = [review EXCEPT ![i] = "RESOLVED"]
        /\ UNCHANGED << token, mutVars, workerVars, passVars >>
        /\ job' = [job EXCEPT ![i] = IF @ = Absent THEN @ ELSE "COMPLETED"]
        /\ holder' = [holder EXCEPT ![i] = IF job[i] = "MANUAL_REVIEW" THEN Nobody ELSE @]
    BY <1>3 DEF DecideCapture, CaptureReservation, Decide, SnapshotAges
  <2>2. OnlyRow(i) /\ SettledStays(i)
    BY <2>1 DEF OnlyRow, SettledStays
  <2>3. ItemOwned(i)'
    BY <2>1 DEF ItemOwned, InStep, FinalJobStates, Absent
  <2>4. \A v \in Workers : witem[v] = i /\ Owns(v)' => StageOf(v, i)'
    BY <2>1 DEF ItemOwned, WorkerOwned, Owns, StageOf, FinalJobStates, Absent
  <2>5. mpc' = "failing" => reservation'[mcur'] = "RELEASED"
    BY <2>1 DEF OwnershipInv, TypeOK, MaintenanceOK
  <2> QED BY <2>1, <2>2, <2>3, <2>4, <2>5, LoopsStay
<1>4. CASE DecideRelease(i)
  <2>1. PICK t \in ReleasedStates :
             /\ reservation' = [reservation EXCEPT ![i] = "RELEASED"]
             /\ UNCHANGED item \/ item' = [item EXCEPT ![i] = t]
             /\ reservation[i] \in { "RESERVED", "RELEASED" }
    BY <1>4, ReleasedRow DEF DecideRelease, ReleasedStates
  <2>2. /\ item[i] = "MANUAL_REVIEW" /\ review' = [review EXCEPT ![i] = "RESOLVED"]
        /\ UNCHANGED << token, mutVars, workerVars, passVars >>
        /\ job' = [job EXCEPT ![i] = IF @ = Absent THEN @ ELSE "FAILED"]
        /\ holder' = [holder EXCEPT ![i] = Nobody]
    BY <1>4 DEF DecideRelease, Decide, SnapshotAges
  <2>3. OnlyRow(i) /\ SettledStays(i)
    BY <2>1, <2>2 DEF OnlyRow, SettledStays
  <2>4. ItemOwned(i)'
    BY <2>1, <2>2 DEF ItemOwned, InStep, FinalJobStates, Absent, ReleasedStates
  <2>5. \A v \in Workers : witem[v] = i /\ Owns(v)' => StageOf(v, i)'
    BY <2>2 DEF Owns
  <2>6. mpc' = "failing" => reservation'[mcur'] = "RELEASED"
    BY <2>1, <2>2 DEF OwnershipInv, TypeOK, MaintenanceOK
  <2> QED BY <2>2, <2>3, <2>4, <2>5, <2>6, LoopsStay
<1>5. CASE RefundCapturedOrderItem(i)
  BY <1>5, NothingMoves DEF RefundCapturedOrderItem
<1> QED BY <1>1, <1>2, <1>3, <1>4, <1>5 DEF OperatorStep

\* The passing of time keeps the ownership invariant.
LEMMA TimeOwned ==
  ASSUME SettlementInv, OwnershipInv,
         \/ UNCHANGED vars
         \/ \E i \in Items : LeaseExpires(i) \/ DeadlineStrikes(i)
  PROVE  OwnershipInv'
<1>0. RowTypes
  BY Rows DEF SettlementInv
<1>1. /\ UNCHANGED << item, reservation, job, token, mutation, attempt, review, workerVars, maintVars >>
      /\ \A i \in Items : holder'[i] \in { holder[i], Nobody }
  BY <1>0 DEF vars, LeaseExpires, DeadlineStrikes, RowTypes
<1> QED BY <1>0, <1>1, NothingMoves DEF SettlementInv, RowTypes

\* A loop that steps is at work.
LEMMA RunnerAtWork == \A w : RunnerStep(w) \/ Crash(w) => wpc[w] # "idle"
BY DEF RunnerStep, Crash, CheckpointRetryJob, MoveRunnerToManualReview, RunnerRelease,
   FailJob, TransitionRunning, PrepareMutation, AcceptInitialMutation,
   RefuseInitialMutation, MutationVerified, MutationUnreadable, MutationNotApplied,
   TransitionToSettling, RunnerCapture, CompleteJob, WorkerCountsQueue,
   WorkerInsertsJob, ExecutionError, FencingLost

\* The ownership invariant is inductive, given what the settlement and the snapshot of
\* the open recovery obey.
LEMMA OwnershipNext == SettlementInv /\ OwnershipInv /\ SnapshotInv /\ [Next]_vars => OwnershipInv'
<1> SUFFICES ASSUME SettlementInv, OwnershipInv, SnapshotInv, [Next]_vars PROVE OwnershipInv'
  OBVIOUS
<1>1. ASSUME NEW w \in Workers, RunnerStep(w) \/ Crash(w) PROVE OwnershipInv'
  <2>1. wpc[w] # "idle"
    BY <1>1, RunnerAtWork
  <2>2. witem[w] \in Items
    BY <2>1 DEF SettlementInv, TypeOK, WorkersOK
  <2> QED BY <1>1, <2>1, <2>2, RunnerOwned
<1> QED BY <1>1, ConfirmOwned, AcquireOwned, MaintenanceOwned, OperatorOwned, TimeOwned DEF Next

\* A step that starts no execution and touches no request keeps what the open recovery
\* may overlook, when the recovery drops the jobs that changed or none that it may
\* retry did.
LEMMA SnapshotStays ==
  ASSUME SnapshotInv, UNCHANGED mutVars,
         \/ SnapshotAges
         \/ /\ UNCHANGED << token, mpc, mseen, mpending >>
            /\ \A i \in Items : job'[i] \in { "RUNNING", "VERIFYING" } => job'[i] = job[i],
         mseen \subseteq Items
  PROVE  SnapshotInv'
<1>1. CASE SnapshotAges
  BY <1>1 DEF SnapshotAges, SnapshotInv
<1>2. CASE /\ UNCHANGED << token, mpc, mseen, mpending >>
           /\ \A i \in Items : job'[i] \in { "RUNNING", "VERIFYING" } => job'[i] = job[i]
  BY <1>2 DEF SnapshotInv
<1> QED BY <1>1, <1>2

\* What a request of a loop that owns its job leaves pending belongs to the current
\* dispatch, so the open recovery may overlook it.
LEMMA RunnerSnapshot ==
  ASSUME NEW w \in Workers, NEW i \in Items, i = witem[w], SettlementInv, OwnershipInv,
         SnapshotInv, RunnerStep(w) \/ Crash(w)
  PROVE  SnapshotInv'
<1> USE DEF SettlementInv
<1>0. RowTypes /\ WorkerOwned(w) /\ mseen \subseteq Items
  BY Rows DEF OwnershipInv, TypeOK, MaintenanceOK
<1>1. CASE PrepareMutation(w) \/ AcceptInitialMutation(w) \/ RefuseInitialMutation(w)
           \/ MutationVerified(w) \/ MutationUnreadable(w) \/ MutationNotApplied(w)
  <2>1. /\ UNCHANGED << jobVars, maintVars >>
        /\ \A k \in Items \ { i } : mutation'[k] = mutation[k] /\ attempt'[k] = attempt[k]
    BY <1>0, <1>1 DEF PrepareMutation, AcceptInitialMutation, RefuseInitialMutation, MutationVerified,
       MutationUnreadable, MutationNotApplied, MutationFrame, RowTypes
  <2>2. mutation'[i] \in PendingMutation => attempt'[i] = token[i]
    BY <1>0, <1>1 DEF PrepareMutation, AcceptInitialMutation, RefuseInitialMutation, MutationVerified,
       MutationUnreadable, MutationNotApplied, PendingMutation, RowTypes, WorkerOwned, StageOf, Owns
  <2> QED BY <1>0, <2>1, <2>2 DEF SnapshotInv
<1>2. CASE WorkerInsertsJob(w)
  <2>1. \A k \in Items : job'[k] \in { "RUNNING", "VERIFYING" } => job'[k] = job[k]
    BY <1>0, <1>2 DEF WorkerInsertsJob, MaterializeNextOrderItem, RowTypes
  <2>2. UNCHANGED << token, mutVars, mpc, mseen, mpending >>
    BY <1>2 DEF WorkerInsertsJob, MaterializeNextOrderItem
  <2> QED BY <1>0, <2>1, <2>2, SnapshotStays
<1>3. CASE WorkerCountsQueue(w) \/ ExecutionError(w) \/ FencingLost(w) \/ Crash(w)
  BY <1>0, <1>3, SnapshotStays DEF WorkerCountsQueue, ExecutionError, FencingLost, Crash, OnlyTheWorker
<1>4. CASE CheckpointRetryJob(w) \/ MoveRunnerToManualReview(w) \/ RunnerRelease(w) \/ FailJob(w)
           \/ TransitionRunning(w) \/ TransitionToSettling(w) \/ RunnerCapture(w) \/ CompleteJob(w)
  <2>1. UNCHANGED mutVars /\ SnapshotAges
    BY <1>4 DEF CheckpointRetryJob, MoveRunnerToManualReview, RunnerRelease, FailJob,
       TransitionRunning, TransitionToSettling, RunnerCapture, CompleteJob
  <2> QED BY <1>0, <2>1, SnapshotStays
<1> QED BY <1>1, <1>2, <1>3, <1>4 DEF RunnerStep

\* Recovery begins with all that is pending then, and leaves no snapshot behind.
LEMMA MaintenanceSnapshot ==
  ASSUME SnapshotInv, MaintenanceStep
  PROVE  SnapshotInv'
<1>1. CASE BeginRecovery
  BY <1>1 DEF BeginRecovery, OnlyMaintenance, SnapshotInv
<1>2. CASE MaintenanceEnds \/ \E due \in SUBSET Items : Recover(due)
  BY <1>2 DEF MaintenanceEnds, Recover, SnapshotInv
<1>3. CASE \/ SelectExpired \/ FailExpiredJob \/ SelectIdleOrders \/ MaintCountsQueue
           \/ \E i \in Items : ReleaseExpiredItem(i)
           \/ \E o \in Orders : MaintInsertsJob(o)
  <2>1. mpc # "begun" /\ mpc' # "begun" /\ mseen' = mseen
    BY <1>3 DEF SelectExpired, FailExpiredJob, SelectIdleOrders, MaintCountsQueue, ReleaseExpiredItem,
       MaintInsertsJob
  <2> QED BY <2>1 DEF SnapshotInv
<1> QED BY <1>1, <1>2, <1>3 DEF MaintenanceStep

\* Every step keeps what the open recovery may overlook within the current dispatch.
LEMMA SnapshotNext == SettlementInv /\ OwnershipInv /\ SnapshotInv /\ [Next]_vars => SnapshotInv'
<1> SUFFICES ASSUME SettlementInv, OwnershipInv, SnapshotInv, [Next]_vars PROVE SnapshotInv'
  OBVIOUS
<1>0. RowTypes /\ mseen \subseteq Items
  BY Rows DEF SettlementInv, TypeOK, MaintenanceOK
<1>1. ASSUME NEW o \in Orders, ConfirmOrder(o) PROVE SnapshotInv'
  <2>1. \A k \in Items : job'[k] \in { "RUNNING", "VERIFYING" } => job'[k] = job[k]
    BY <1>0, <1>1 DEF ConfirmOrder, RowTypes
  <2> QED BY <1>0, <1>1, <2>1, SnapshotStays DEF ConfirmOrder
<1>2. ASSUME NEW w \in Workers, NEW i \in Items, AcquireRunnableJob(w, i) PROVE SnapshotInv'
  BY <1>0, <1>2, SnapshotStays DEF AcquireRunnableJob
<1>3. ASSUME NEW w \in Workers, RunnerStep(w) \/ Crash(w) PROVE SnapshotInv'
  <2>1. witem[w] \in Items
    BY <1>3, RunnerAtWork DEF SettlementInv, TypeOK, WorkersOK
  <2> QED BY <1>3, <2>1, RunnerSnapshot
<1>4. ASSUME NEW i \in Items, OperatorStep(i) PROVE SnapshotInv'
  <2>1. CASE RefundCapturedOrderItem(i)
    BY <1>0, <2>1, SnapshotStays DEF RefundCapturedOrderItem
  <2>2. CASE OpenOrderItemReview(i) \/ DecideRetry(i) \/ DecideCapture(i) \/ DecideRelease(i)
    <3>1. UNCHANGED mutVars /\ SnapshotAges
      BY <2>2 DEF OpenOrderItemReview, DecideRetry, DecideCapture, DecideRelease, Decide
    <3> QED BY <1>0, <3>1, SnapshotStays
  <2> QED BY <1>4, <2>1, <2>2 DEF OperatorStep
<1>5. ASSUME \/ UNCHANGED vars
             \/ \E i \in Items : LeaseExpires(i) \/ DeadlineStrikes(i)
      PROVE  SnapshotInv'
  <2>1. UNCHANGED << job, token, mutVars, mpc, mseen, mpending >>
    BY <1>5 DEF vars, LeaseExpires, DeadlineStrikes
  <2> QED BY <1>0, <2>1, SnapshotStays
<1> QED BY <1>1, <1>2, <1>3, <1>4, <1>5, MaintenanceSnapshot DEF Next

\* The three invariants hold in every reachable state.
LEMMA OwnershipInvariant == Spec => [](SettlementInv /\ OwnershipInv /\ SnapshotInv)
<1>1. Init => SettlementInv /\ OwnershipInv /\ SnapshotInv
  BY SettlementInit, OwnershipInit
<1>2. SettlementInv /\ OwnershipInv /\ SnapshotInv /\ [Next]_vars =>
        (SettlementInv /\ OwnershipInv /\ SnapshotInv)'
  BY SettlementNext, OwnershipNext, SnapshotNext
<1> QED BY <1>1, <1>2, PTL DEF Spec

\* A loop that still owns its job (lease_owner, fencing_token, a live lease) finds job
\* and item in the state its own last step left them in, for any number of loops and
\* whatever maintenance and operators did in between (updateOwnedJob).
THEOREM OwnersSee == Spec => []OwnerSeesItsStage
<1>1. OwnershipInv => OwnerSeesItsStage
  BY DEF OwnershipInv, WorkerOwned, StageOf, OwnerSeesItsStage
<1> QED BY <1>1, OwnershipInvariant, PTL

\* Recovery sends a job back beside a pending request to Discord only when the request
\* is of the dispatch it ends: what an earlier dispatch left pending is seen, although
\* the snapshot is older than what the loops write (recoverCrashedRunnerJobs,
\* prepareMutation, markMutation).
THEOREM EarlierRequestsSeen == Spec => []EarlierRequestIsSeen
<1>1. OwnershipInv => EarlierRequestIsSeen
  BY DEF OwnershipInv, ItemOwned, EarlierRequestIsSeen, PendingMutation
<1> QED BY <1>1, OwnershipInvariant, PTL

\* An item under review whose money is held has an open review, so that an operator can
\* still decide about the money (openReview, applyOrderItemDecision).
THEOREM ReviewsOpen == Spec => []HeldReviewIsOpen
<1>1. OwnershipInv => HeldReviewIsOpen
  BY DEF OwnershipInv, ItemOwned, InStep, HeldReviewIsOpen
<1> QED BY <1>1, OwnershipInvariant, PTL

-----------------------------------------------------------------------------
(* The transition map *)

Follows(from, to) == from = to \/ FollowsMap(OrderItemTransitions, ComposedItemMoves, from, to)
HeldMoves == \A k \in Items : reservation[k] = "RESERVED" => Follows(item[k], item'[k])

\* The moves of held items that handlers make without asking the map are in the map.
LEMMA UncheckedMoves ==
  /\ \A s : Follows(s, s)
  /\ Follows("RESERVED", "QUEUED") /\ Follows("QUEUED", "LEASED")
  /\ Follows("LEASED", "QUEUED") /\ Follows("LEASED", "RUNNING")
  /\ Follows("RUNNING", "SETTLING") /\ Follows("RUNNING", "WAITING_RETRY")
  /\ Follows("WAITING_RETRY", "QUEUED") /\ Follows("MANUAL_REVIEW", "QUEUED")
  /\ Follows("MANUAL_REVIEW", "READY_TO_CLAIM")
  /\ \A s \in { "RESERVED", "QUEUED", "LEASED", "RUNNING", "SETTLING", "WAITING_RETRY" } :
       Follows(s, "MANUAL_REVIEW")
BY DEF Follows, FollowsMap, MayMove, OrderItemTransitions, ComposedItemMoves

\* A runner loop moves held items along the map.
LEMMA RunnerMoves ==
  ASSUME NEW w \in Workers, NEW i \in Items, i = witem[w], SettlementInv, OwnershipInv,
         RunnerStep(w) \/ Crash(w)
  PROVE  HeldMoves
<1>0. /\ RowTypes /\ ItemOwned(i) /\ WorkerOwned(w)
      /\ wpc[w] # "idle" => job[i] # Absent
  BY Rows DEF SettlementInv, JobsInv, OwnershipInv
<1> USE <1>0, UncheckedMoves DEF RowTypes
<1>1. CASE CheckpointRetryJob(w)
  BY <1>1 DEF CheckpointRetryJob, HeldMoves, WorkerOwned, StageOf, ItemOwned, InStep, Absent
<1>2. CASE MoveRunnerToManualReview(w)
  BY <1>2 DEF MoveRunnerToManualReview, HeldMoves, ItemOwned, InStep, Absent
<1>3. CASE RunnerRelease(w)
  BY <1>3 DEF RunnerRelease, AlreadyReleased, ReleaseReservation, HeldMoves, Follows, FollowsMap
<1>4. CASE TransitionRunning(w) \/ TransitionToSettling(w)
  BY <1>4 DEF TransitionRunning, TransitionToSettling, HeldMoves
<1>5. CASE RunnerCapture(w)
  BY <1>5 DEF RunnerCapture, CaptureReservation, HeldMoves, Follows, FollowsMap
<1>6. CASE WorkerInsertsJob(w)
  BY <1>6, NextInLineWaits DEF WorkerInsertsJob, MaterializeNextOrderItem, HeldMoves, Waiting, ItemsOf
<1>7. CASE UNCHANGED item
  BY <1>7 DEF HeldMoves
<1>8. UNCHANGED item \/ CheckpointRetryJob(w) \/ MoveRunnerToManualReview(w) \/ RunnerRelease(w)
      \/ TransitionRunning(w) \/ TransitionToSettling(w) \/ RunnerCapture(w) \/ WorkerInsertsJob(w)
  BY DEF RunnerStep, Crash, FailJob, PrepareMutation, AcceptInitialMutation, RefuseInitialMutation,
     MutationVerified, MutationUnreadable, MutationNotApplied, CompleteJob, WorkerCountsQueue,
     ExecutionError, FencingLost, MutationFrame, OnlyTheWorker
<1> QED BY <1>1, <1>2, <1>3, <1>4, <1>5, <1>6, <1>7, <1>8

\* The maintenance loop moves held items along the map.
LEMMA MaintenanceMoves ==
  ASSUME SettlementInv, OwnershipInv, MaintenanceStep
  PROVE  HeldMoves
<1>0. RowTypes /\ \A k \in Items : ItemOwned(k)
  BY Rows DEF SettlementInv, OwnershipInv
<1> USE <1>0, UncheckedMoves DEF RowTypes
<1>1. ASSUME NEW due \in SUBSET Items, Recover(due) PROVE HeldMoves
  <2>1. ASSUME NEW k \in Items, reservation[k] = "RESERVED" PROVE Follows(item[k], item'[k])
    <3>1. InStep(k)
      BY <2>1 DEF ItemOwned
    <3>2. \/ item'[k] = item[k]
          \/ job[k] \in { "RUNNING", "VERIFYING", "SETTLING" } /\ item'[k] = "MANUAL_REVIEW"
          \/ job[k] \in { "RUNNING", "VERIFYING" } /\ item'[k] = "WAITING_RETRY"
          \/ item[k] \in { "LEASED", "WAITING_RETRY" } /\ item'[k] = "QUEUED"
      BY <1>1 DEF Recover
    <3> QED BY <3>1, <3>2 DEF InStep, Absent
  <2> QED BY <2>1 DEF HeldMoves
<1>2. ASSUME NEW i \in Items, ReleaseExpiredItem(i) PROVE HeldMoves
  BY <1>2 DEF ReleaseExpiredItem, AlreadyReleased, ReleaseReservation, HeldMoves, Follows, FollowsMap
<1>3. ASSUME NEW o \in Orders, MaintInsertsJob(o) PROVE HeldMoves
  BY <1>3, NextInLineWaits DEF MaintInsertsJob, MaterializeNextOrderItem, HeldMoves, Waiting, ItemsOf
<1>4. CASE \/ FailExpiredJob \/ BeginRecovery \/ SelectExpired \/ SelectIdleOrders
           \/ MaintCountsQueue \/ MaintenanceEnds
  BY <1>4 DEF FailExpiredJob, BeginRecovery, SelectExpired, SelectIdleOrders, MaintCountsQueue,
     MaintenanceEnds, OnlyMaintenance, HeldMoves
<1> QED BY <1>1, <1>2, <1>3, <1>4 DEF MaintenanceStep

\* An operator moves held items along the map.
LEMMA OperatorMoves ==
  ASSUME NEW i \in Items, SettlementInv, OwnershipInv, OperatorStep(i)
  PROVE  HeldMoves
<1>0. RowTypes
  BY Rows DEF SettlementInv
<1> USE <1>0, UncheckedMoves DEF RowTypes
<1>1. CASE OpenOrderItemReview(i)
  BY <1>1 DEF OpenOrderItemReview, HeldMoves, Follows, FollowsMap
<1>2. CASE DecideRetry(i)
  BY <1>2 DEF DecideRetry, Decide, HeldMoves
<1>3. CASE DecideCapture(i)
  BY <1>3 DEF DecideCapture, CaptureReservation, Decide, HeldMoves
<1>4. CASE DecideRelease(i)
  BY <1>4 DEF DecideRelease, AlreadyReleased, ReleaseReservation, HeldMoves, Follows, FollowsMap
<1>5. CASE RefundCapturedOrderItem(i)
  BY <1>5 DEF RefundCapturedOrderItem, HeldMoves
<1> QED BY <1>1, <1>2, <1>3, <1>4, <1>5 DEF OperatorStep

\* Every step moves held items along the map.
LEMMA EveryMove ==
  ASSUME SettlementInv, OwnershipInv, [Next]_vars
  PROVE  HeldMoves
<1>1. ASSUME NEW o \in Orders, ConfirmOrder(o) PROVE HeldMoves
  <2>1. ASSUME NEW k \in Items, reservation[k] = "RESERVED" PROVE item'[k] = item[k]
    <3>1. k \notin ItemsOf(o)
      BY <1>1, <2>1 DEF ConfirmOrder, Admitted, ItemsOf, SettlementInv, TablesInv, OrderedItems, SettlementAgreement
    <3> QED BY <1>1, <3>1, FirstItemIsItem DEF ConfirmOrder
  <2> QED BY <2>1, UncheckedMoves DEF HeldMoves
<1>2. ASSUME NEW w \in Workers, NEW i \in Items, AcquireRunnableJob(w, i) PROVE HeldMoves
  BY <1>2, UncheckedMoves, Rows DEF AcquireRunnableJob, HeldMoves, RowTypes, SettlementInv
<1>3. ASSUME NEW w \in Workers, RunnerStep(w) \/ Crash(w) PROVE HeldMoves
  <2>1. wpc[w] # "idle"
    BY <1>3, RunnerAtWork
  <2>2. witem[w] \in Items
    BY <2>1 DEF SettlementInv, TypeOK, WorkersOK
  <2> QED BY <1>3, <2>2, RunnerMoves
<1>4. ASSUME \/ UNCHANGED vars
             \/ \E i \in Items : LeaseExpires(i) \/ DeadlineStrikes(i)
      PROVE  HeldMoves
  BY <1>4, UncheckedMoves DEF vars, LeaseExpires, DeadlineStrikes, HeldMoves
<1> QED BY <1>1, <1>2, <1>3, <1>4, MaintenanceMoves, OperatorMoves DEF Next

\* As long as its money is held, an item moves only along ORDER_ITEM_TRANSITIONS, also
\* where a handler updates its state without assertTransition (checkpointRetryJob,
\* moveRunnerToManualReview, the recovery and the retry of an operator).
THEOREM HeldFollowMap == Spec => HeldItemsFollowMap
<1>1. SettlementInv /\ OwnershipInv /\ [Next]_vars =>
        [\A i \in Items : reservation[i] = "RESERVED" /\ item'[i] # item[i] =>
           FollowsMap(OrderItemTransitions, ComposedItemMoves, item[i], item'[i])]_vars
  BY EveryMove DEF HeldMoves, Follows
<1> QED BY <1>1, OwnershipInvariant, PTL DEF HeldItemsFollowMap, Spec
=============================================================================
