---------------------------- MODULE CatalogProofs ----------------------------
(***************************************************************************)
(* Theorems about Catalog, for every value of its constants: typing, that  *)
(* only a supported quest is on sale, that a test is repeated only when    *)
(* nothing of it is left out, unless its recovery and a mark missed each   *)
(* other, and that its verdict is given once.                              *)
(***************************************************************************)
EXTENDS CatalogProperties, SumLemmas

USE DEF questVars, testVars, ghostVars, monitorVars, testerVars, scannerVars, maintVars

-----------------------------------------------------------------------------
(* The inductive invariant *)

\* A run no loop has taken yet.
Waits(r) == test[r] \in {"NONE", "TEST_QUEUED", "RETEST_REQUIRED"}

\* No loop is between the check and the update of a mark on this run.
NoMarkUnderWay(r) == \A w \in Testers : trun[w] = r => w \notin checked

\* Nothing was requested for a run that waits; a request whose effect nobody looked up is
\* marked as uncertain; a run that was recovered is repeated only without such a mark, made
\* or under way, unless the recovery missed it.
RunInv(r) ==
  /\ Waits(r) => request[r] = "NONE"
  /\ r \in unseen => Uncertain(r)
  /\ r \in crashed => \/ test[r] = "MANUAL_REVIEW"
                      \/ test[r] = "TEST_FAILED" /\ (r \in raced \/ (~Uncertain(r) /\ NoMarkUnderWay(r)))

\* The mark in the database, which only its own loop sets, fits the step the loop is at.
LoopInv(w) ==
  /\ tpc[w] = "idle" <=> trun[w] = 0
  /\ trun[w] # 0 => ~Waits(trun[w])
  /\ w \in checked => tpc[w] \in Marking
  /\ tpc[w] = "prepared" => request[trun[w]] = "PREPARED"
  /\ tpc[w] \in {"send", "accepted", "uncertain"} => request[trun[w]] = "IN_FLIGHT"
  /\ tpc[w] \in {"look", "verified", "ineffective"} => request[trun[w]] \in {"ACCEPTED", "UNCERTAIN"}
  /\ tpc[w] \in {"run", "prepared", "verified", "ineffective"} => trun[w] \notin unseen

\* No two loops ever work on one run.
Alone == \A v, w \in Testers : trun[v] = trun[w] /\ trun[v] # 0 => v = w

TestsInv == (\A r \in Runs : RunInv(r)) /\ (\A w \in Testers : LoopInv(w)) /\ Alone

\* Maintenance sets what it has planned, which is never OPEN.
PlanInv == mpc = "set" => mplan # "none"

CatalogInv == TypeOK /\ OpenIsSupported /\ PlanInv /\ TestsInv

-----------------------------------------------------------------------------
(* Operators *)

\* The states of the sale.
LEMMA SaleStates == DOMAIN SaleMap = {"CLOSED", "OPEN", "PAUSED", "EXPIRED"}
BY DEF SaleMap

\* A nonempty set of run numbers has a least one: a new run takes a number that is free.
LEMMA NewRunIsFree == FreeRuns # {} => NewRun \in Runs /\ test[NewRun] = "NONE"
<1> SUFFICES ASSUME FreeRuns # {} PROVE NewRun \in FreeRuns
  BY DEF FreeRuns
<1>1. FreeRuns \in SUBSET Nat
  BY CatalogAssumption DEF FreeRuns, Runs
<1>2. \E r \in FreeRuns : \A q \in FreeRuns : r <= q
  BY <1>1, LeastNat
<1> QED BY <1>2 DEF NewRun

-----------------------------------------------------------------------------
(* The quest: what the analysis and the sale become *)

\* What a scan or a test brings in keeps a quest on sale only when its analysis is supported.
LEMMA IngestKeeps ==
  ASSUME QuestOK, OpenIsSupported, NEW payload \in Payloads, IngestDiscovery(payload)
  PROVE  QuestOK' /\ OpenIsSupported'
<1> DEFINE fields    == known \cup payload.known
           learnt    == IF "task" \in payload.known THEN payload.contract ELSE contract
           until     == IF payload.extended THEN "room" ELSE time
           retest    == analysis # "NONE" /\ learnt # contract
           supported == \/ "task" \in payload.known /\ payload.contract # "unsupported"
                        \/ payload.known # Core /\ fields = Core /\ analysis = "SUPPORTED"
           analyzed  == Analyzed(fields = Core, supported)
           onSale    == Reconciled(analyzed, fields, until)
<1>1. /\ known' = fields /\ contract' = learnt /\ time' = until /\ analysis' = analyzed
      /\ sale' = (IF retest /\ onSale = "OPEN" THEN "PAUSED" ELSE onSale)
      /\ UNCHANGED << priced, offered >>
  BY DEF IngestDiscovery
<1>2. payload.known \subseteq Core /\ payload.contract \in {"first", "second", "unsupported"}
  BY DEF Payloads
<1>3. analyzed \in {"METADATA_RETRY", "SUPPORTED", "UNSUPPORTED", "EXPIRED"}
  <2> HIDE DEF supported, fields
  <2> QED BY DEF Analyzed, QuestOK
<1>4. /\ onSale \in {"CLOSED", "OPEN", "PAUSED", "EXPIRED"}
      /\ onSale = "OPEN" => analyzed = "SUPPORTED"
  <2> HIDE DEF analyzed, fields, until
  <2>1. sale \in {"CLOSED", "OPEN", "PAUSED", "EXPIRED"}
    BY SaleStates DEF QuestOK
  <2>2. CASE "dates" \in fields /\ until = "over"
    BY <2>2 DEF Reconciled
  <2>3. CASE ~("dates" \in fields /\ until = "over")
    BY <2>1, <2>3 DEF Reconciled, CanSell
  <2> QED BY <2>2, <2>3
<1>5. /\ fields \subseteq Core /\ learnt \in {"unknown", "first", "second", "unsupported"}
      /\ until \in {"room", "short", "over"}
  BY <1>2 DEF QuestOK
<1> HIDE DEF fields, learnt, until, retest, analyzed, onSale
<1>6. sale' \in {"CLOSED", "OPEN", "PAUSED", "EXPIRED"} /\ (sale' = "OPEN" => onSale = "OPEN")
  BY <1>1, <1>4
<1> QED BY <1>1, <1>3, <1>4, <1>5, <1>6, SaleStates DEF QuestOK, OpenIsSupported

\* Every step leaves on sale only what is supported.
LEMMA QuestKeeps ==
  ASSUME QuestOK, MaintenanceOK, OpenIsSupported, PlanInv, [Next]_vars
  PROVE  QuestOK' /\ MaintenanceOK' /\ OpenIsSupported' /\ PlanInv'
<1> USE SaleStates DEF MaintenanceOK, PlanInv
<1>1. CASE UNCHANGED << questVars, maintVars >>
  BY <1>1 DEF QuestOK, OpenIsSupported
<1>2. ASSUME UNCHANGED maintVars, NEW payload \in Payloads, IngestDiscovery(payload)
      PROVE  QuestOK' /\ MaintenanceOK' /\ OpenIsSupported' /\ PlanInv'
  BY <1>2, IngestKeeps
<1>3. CASE TransactionalMaintenance
  <2>1. sale' \in {sale, "PAUSED"} /\ mpc' = "select" /\ mseen' = {} /\ muncertain' = {}
        /\ UNCHANGED << analysis, known, contract, time, priced, offered, mplan >>
    BY <1>3 DEF TransactionalMaintenance, SaleWhileWaiting, Paused
  <2> QED BY <2>1 DEF QuestOK, OpenIsSupported
<1>4. CASE SelectSellable
  <2>1. Plan \in {"none", "PAUSED", "EXPIRED"}
    BY DEF Plan
  <2> QED BY <1>4, <2>1 DEF SelectSellable, QuestOK, OpenIsSupported
<1>5. CASE SetSellable
  BY <1>5 DEF SetSellable, QuestOK, OpenIsSupported
<1>6. CASE Operates
  <2>1. ASSUME NEW next \in {"OPEN", "PAUSED", "EXPIRED"}, SetQuestSaleState(next)
        PROVE  QuestOK' /\ OpenIsSupported' /\ UNCHANGED maintVars
    BY <2>1 DEF SetQuestSaleState, CanSell, QuestOK, OpenIsSupported
  <2>2. CASE PauseForContractFailure
    BY <2>2 DEF PauseForContractFailure, Paused, QuestOK, OpenIsSupported
  <2>3. CASE PriceChanges
    <3>1. priced' \in BOOLEAN
      BY <2>3, Zenon DEF PriceChanges
    <3> QED BY <2>3, <3>1 DEF PriceChanges, QuestOK, OpenIsSupported
  <2> QED BY <1>1, <1>6, <2>1, <2>2, <2>3 DEF Operates, SetMonitorState, RotateMonitorCredential, AddMonitor
<1>7. CASE TimePasses \/ QuestChanges
  BY <1>7 DEF TimePasses, QuestChanges, QuestOK, OpenIsSupported
<1>8. CASE MaintenanceFails \/ BeginMaintenance
  BY <1>8 DEF MaintenanceFails, BeginMaintenance, QuestOK, OpenIsSupported
<1>9. CASE Scans
  BY <1>1, <1>2, <1>9 DEF Scans, LoadScanMonitors, ResetFailures, ScanFails, ScanOneMonitor
<1>10. ASSUME NEW w \in Testers, Tests(w)
       PROVE  QuestOK' /\ MaintenanceOK' /\ OpenIsSupported' /\ PlanInv'
  <2>1. CASE IngestTestedQuest(w)
    BY <1>2, <2>1 DEF IngestTestedQuest
  <2>2. CASE PauseQuestForTestFailure(w)
    BY <2>2 DEF PauseQuestForTestFailure, Paused, QuestOK, OpenIsSupported
  <2> QED BY <1>1, <1>10, <2>1, <2>2 DEF Tests, CreateTestMutation, CheckOwnership, MarkInFlight, Perform, RecordAnswer, Look,
     RecordEffect, TestPasses, ResetTestMonitor, LostTest, FinishFailedTestRun, UpdateMonitorForFailure,
     CountAlternatives, QueueAlternativeTest
<1>11. ASSUME UNCHANGED vars \/ DayPasses \/ (\E w \in Testers : TestErrs(w) \/ Crash(w))
              \/ (\E w \in Testers, m \in Monitors, r \in Runs : AcquireTestRun(w, m, r))
              \/ \E r \in Runs : LeaseRunsOut(r)
       PROVE  UNCHANGED << questVars, maintVars >>
  BY <1>11 DEF vars, DayPasses, TestErrs, Crash, AcquireTestRun, LeaseRunsOut
<1> QED BY <1>1, <1>3, <1>4, <1>5, <1>6, <1>7, <1>8, <1>9, <1>10, <1>11 DEF Next, Maintains

-----------------------------------------------------------------------------
(* The loops: tests, monitors and the scanner *)

\* The new state of a monitor after a failure.
LEMMA FailureStates ==
  \A fatal \in BOOLEAN, count \in Nat : MonitorFailureState(fatal, count) \in {"QUARANTINED", "COOLDOWN", "ACTIVE"}
BY CatalogAssumption DEF MonitorFailureState

\* An event makes the count grow to its bound at most.
LEMMA HappensType ==
  ASSUME events \in 0 .. MaxWeight, NEW kind \in EventKinds, Happens(kind)
  PROVE  events' \in 0 .. MaxWeight
<1>1. Weight[kind] \in Nat /\ MaxWeight \in Nat
  BY CatalogAssumption
<1> QED BY <1>1 DEF Happens

\* The count stays within its bound.
LEMMA EventsType ==
  ASSUME events \in 0 .. MaxWeight, [Next]_vars
  PROVE  events' \in 0 .. MaxWeight
<1> USE HappensType DEF EventKinds
<1> SUFFICES UNCHANGED events \/ \E kind \in EventKinds : Happens(kind)
  OBVIOUS
<1>1. CASE Scans
  BY <1>1 DEF Scans, LoadScanMonitors, ResetFailures, ScanFails, ScanOneMonitor, Shown
<1>2. CASE Maintains
  BY <1>2 DEF Maintains, BeginMaintenance, TransactionalMaintenance, SelectSellable, SetSellable
<1>3. CASE Operates
  BY <1>3 DEF Operates, SetQuestSaleState, SetMonitorState, RotateMonitorCredential, AddMonitor,
     PauseForContractFailure, PriceChanges
<1>4. CASE TimePasses \/ QuestChanges \/ DayPasses \/ MaintenanceFails \/ UNCHANGED vars
  BY <1>4 DEF TimePasses, QuestChanges, DayPasses, MaintenanceFails, vars
<1>5. ASSUME NEW w \in Testers, Tests(w) \/ TestErrs(w) \/ Crash(w)
      PROVE  UNCHANGED events \/ \E kind \in EventKinds : Happens(kind)
  BY <1>5 DEF Tests, CreateTestMutation, CheckOwnership, MarkInFlight, Perform, RecordAnswer, Look,
     RecordEffect, TestPasses, ResetTestMonitor, LostTest, FinishFailedTestRun, UpdateMonitorForFailure,
     CountAlternatives, QueueAlternativeTest, IngestTestedQuest, PauseQuestForTestFailure, Shown, TestErrs, Crash
<1>6. ASSUME (\E w \in Testers, m \in Monitors, r \in Runs : AcquireTestRun(w, m, r)) \/ \E r \in Runs : LeaseRunsOut(r)
      PROVE  UNCHANGED events \/ \E kind \in EventKinds : Happens(kind)
  BY <1>6 DEF AcquireTestRun, LeaseRunsOut
<1> QED BY <1>1, <1>2, <1>3, <1>4, <1>5, <1>6 DEF Next

\* Monitors and the scanner's memory stay well typed.
LEMMA MonitorsKeep ==
  ASSUME MonitorsOK, ScannerOK, TestersOK, [Next]_vars
  PROVE  MonitorsOK' /\ ScannerOK'
<1> USE DEF MonitorsOK, ScannerOK
<1>1. CASE UNCHANGED << monitorVars, scannerVars >>
  BY <1>1
<1>2. ASSUME NEW m \in Monitors, NEW fatal \in BOOLEAN, NEW seen \in Nat, MonitorFailed(m, fatal, seen)
      PROVE  MonitorsOK'
  <2>1. MonitorFailureState(fatal, seen + 1) \in {"QUARANTINED", "COOLDOWN", "ACTIVE"}
    BY FailureStates
  <2> QED BY <1>2, <2>1 DEF MonitorFailed
<1>3. ASSUME NEW m \in Monitors, NEW missing \in {"nothing", "unscanned", "quest", "fetch"}, NextMonitor(m, missing)
      PROVE  /\ slist' \subseteq ScanMonitors /\ sfailures' \in [Monitors -> Nat]
             /\ spc' \in {"idle", "scan"} /\ smissing' \in {"nothing", "unscanned", "quest", "fetch"}
  BY <1>3 DEF NextMonitor
<1>4. CASE Scans
  <2>1. CASE LoadScanMonitors
    BY <2>1 DEF LoadScanMonitors
  <2>2. ASSUME NEW m \in Monitors, ScanOneMonitor(m) PROVE MonitorsOK' /\ ScannerOK'
    <3>1. smissing' \in {"nothing", "unscanned", "quest", "fetch"}
      BY <2>2 DEF ScanOneMonitor, Missing
    <3> QED BY <2>2, <3>1 DEF ScanOneMonitor
  <2>3. CASE ResetFailures
    <3>1. CASE smonitor \in Monitors
      <4>1. failures' \in [Monitors -> Nat] /\ mstate' = mstate /\ smonitor' = Nothing
        BY <2>3 DEF ResetFailures
      <4>2. NextMonitor(smonitor, smissing)
        BY <2>3 DEF ResetFailures
      <4> QED BY <1>3, <3>1, <4>1, <4>2
    <3>2. CASE smonitor \notin Monitors
      <4>1. UNCHANGED << failures, sfailures, mstate >> /\ smonitor' = Nothing
        BY <2>3, <3>2 DEF ResetFailures, NextMonitor
      <4> QED BY <2>3, <4>1 DEF ResetFailures, NextMonitor
    <3> QED BY <3>1, <3>2
  <2>4. ASSUME NEW m \in Monitors, ScanFails(m) PROVE MonitorsOK' /\ ScannerOK'
    <3>1. Missing("fetch") \in {"nothing", "unscanned", "quest", "fetch"}
      BY DEF Missing
    <3>2. NextMonitor(m, Missing("fetch")) /\ smonitor' = smonitor
      BY <2>4 DEF ScanFails
    <3>3. PICK fatal \in BOOLEAN : MonitorFailed(m, fatal, sfailures[m])
      BY <2>4 DEF ScanFails
    <3>4. MonitorsOK'
      BY <1>2, <3>3
    <3> QED BY <1>3, <3>1, <3>2, <3>4
  <2> QED BY <1>4, <2>1, <2>2, <2>3, <2>4 DEF Scans
<1>5. CASE TransactionalMaintenance
  BY <1>5 DEF TransactionalMaintenance
<1>6. CASE Operates
  BY <1>1, <1>6 DEF Operates, SetQuestSaleState, SetMonitorState, RotateMonitorCredential, AddMonitor,
     PauseForContractFailure, PriceChanges
<1>7. ASSUME NEW w \in Testers, Tests(w)
      PROVE  MonitorsOK' /\ ScannerOK'
  <2>1. CASE ResetTestMonitor(w)
    BY <2>1 DEF ResetTestMonitor
  <2>2. CASE UpdateMonitorForFailure(w)
    <3>1. UNCHANGED scannerVars /\ MonitorFailed(tmonitor[w], TRUE, tfailures[w])
      BY <2>2 DEF UpdateMonitorForFailure
    <3>2. tfailures[w] \in Nat
      BY DEF TestersOK
    <3>3. CASE tmonitor[w] \in Monitors
      BY <1>2, <3>1, <3>2, <3>3
    <3>4. CASE tmonitor[w] \notin Monitors
      BY <3>1, <3>4 DEF MonitorFailed
    <3> QED BY <3>3, <3>4
  <2> QED BY <1>1, <1>7, <2>1, <2>2 DEF Tests, CreateTestMutation, CheckOwnership, MarkInFlight, Perform, RecordAnswer, Look,
     RecordEffect, TestPasses, LostTest, FinishFailedTestRun, CountAlternatives, QueueAlternativeTest, IngestTestedQuest,
     PauseQuestForTestFailure
<1>8. ASSUME UNCHANGED vars \/ DayPasses \/ (\E w \in Testers : TestErrs(w) \/ Crash(w))
             \/ (\E w \in Testers, m \in Monitors, r \in Runs : AcquireTestRun(w, m, r))
             \/ (\E r \in Runs : LeaseRunsOut(r)) \/ TimePasses \/ QuestChanges \/ MaintenanceFails
             \/ BeginMaintenance \/ SelectSellable \/ SetSellable
      PROVE  UNCHANGED << monitorVars, scannerVars >>
  BY <1>8 DEF vars, DayPasses, TestErrs, Crash, AcquireTestRun, LeaseRunsOut, TimePasses, QuestChanges,
     MaintenanceFails, BeginMaintenance, SelectSellable, SetSellable
<1> QED BY <1>1, <1>4, <1>5, <1>6, <1>7, <1>8 DEF Next, Maintains

\* The memory of the test loops stays well typed.
LEMMA TestersKeep ==
  ASSUME MonitorsOK, TestersOK, [Next]_vars
  PROVE  TestersOK'
<1> USE DEF TestersOK
<1>1. CASE UNCHANGED testerVars
  BY <1>1
<1>2. ASSUME NEW w \in Testers, Forgets(w) PROVE TestersOK'
  <2>1. 0 \in 0 .. MaxRequests
    BY CatalogAssumption
  <2>2. tpc' = [tpc EXCEPT ![w] = "idle"] /\ trun' = [trun EXCEPT ![w] = 0]
    BY <1>2 DEF Forgets
  <2>3. tmonitor' = [tmonitor EXCEPT ![w] = Nothing] /\ tfailures' = [tfailures EXCEPT ![w] = 0]
    BY <1>2 DEF Forgets
  <2>4. terror' = [terror EXCEPT ![w] = "none"] /\ tcount' = [tcount EXCEPT ![w] = 0]
        /\ tretry' = [tretry EXCEPT ![w] = FALSE] /\ checked' = checked \ {w}
    BY <1>2 DEF Forgets
  <2> QED BY <2>1, <2>2, <2>3, <2>4
<1>3. ASSUME NEW w \in Testers, Tests(w) PROVE TestersOK'
  <2>1. CASE CreateTestMutation(w)
    <3>1. tcount' \in [Testers -> 0 .. MaxRequests]
      BY <2>1, CatalogAssumption DEF CreateTestMutation
    <3> QED BY <2>1, <3>1 DEF CreateTestMutation, Goes
  <2>2. CASE CheckOwnership(w) \/ MarkInFlight(w) \/ Perform(w) \/ RecordAnswer(w) \/ TestPasses(w) \/ ResetTestMonitor(w)
    BY <2>2 DEF CheckOwnership, MarkInFlight, Perform, RecordAnswer, SetMutationState, TestPasses, ResetTestMonitor, Goes
  <2>3. CASE Look(w)
    BY <2>3 DEF Look, Goes, GivesUp
  <2>4. CASE RecordEffect(w)
    <3>1. tretry' \in [Testers -> BOOLEAN]
      BY <2>4, Zenon DEF RecordEffect
    <3> QED BY <2>4, <3>1 DEF RecordEffect, SetMutationState, Goes
  <2>5. CASE FinishFailedTestRun(w)
    BY <1>2, <2>5 DEF FinishFailedTestRun, Goes
  <2>6. CASE CountAlternatives(w)
    BY <1>2, <2>6 DEF CountAlternatives, Goes
  <2> QED BY <1>2, <1>3, <2>1, <2>2, <2>3, <2>4, <2>5, <2>6 DEF Tests, IngestTestedQuest, LostTest,
     UpdateMonitorForFailure, QueueAlternativeTest, PauseQuestForTestFailure
<1>4. ASSUME NEW w \in Testers, TestErrs(w) \/ Crash(w) PROVE TestersOK'
  BY <1>2, <1>4 DEF TestErrs, Crash, GivesUp, Goes
<1>5. ASSUME NEW w \in Testers, NEW m \in Monitors, NEW r \in Runs, AcquireTestRun(w, m, r) PROVE TestersOK'
  <2>1. failures[m] \in Nat
    BY DEF MonitorsOK
  <2> QED BY <1>5, <2>1 DEF AcquireTestRun, Goes
<1>6. ASSUME UNCHANGED vars \/ DayPasses \/ (\E r \in Runs : LeaseRunsOut(r)) \/ TimePasses \/ QuestChanges
             \/ MaintenanceFails \/ Maintains \/ Operates
      PROVE  UNCHANGED testerVars
  BY <1>6 DEF vars, DayPasses, LeaseRunsOut, TimePasses, QuestChanges, MaintenanceFails, Maintains,
     BeginMaintenance, TransactionalMaintenance, SelectSellable, SetSellable, Operates, SetQuestSaleState, SetMonitorState,
     RotateMonitorCredential, AddMonitor, PauseForContractFailure, PriceChanges
<1>7. CASE Scans
  BY <1>7 DEF Scans, LoadScanMonitors, ResetFailures, ScanFails, ScanOneMonitor
<1> QED BY <1>1, <1>3, <1>4, <1>5, <1>6, <1>7 DEF Next

-----------------------------------------------------------------------------
(* The runs: one loop each, and one verdict *)

\* What every step leaves alone: the verdicts.
VerdictsStay == \A r \in Runs : test[r] \in Settled => test'[r] = test[r]

RunsInv == TestsOK /\ TestsInv

\* A step of one loop on its run.
LEMMA OneRun ==
  ASSUME TestsOK, TestsOK', TestersOK, TestersOK', TestsInv, NEW w \in Testers, NEW r \in Runs,
         \A k \in Runs \ {r} : /\ test'[k] = test[k] /\ request'[k] = request[k]
                               /\ k \in unseen' <=> k \in unseen,
         crashed' = crashed, raced' = raced,
         \A v \in Testers \ {w} : /\ tpc'[v] = tpc[v] /\ trun'[v] = trun[v] /\ trun[v] # r
                                  /\ (v \in checked') = (v \in checked),
         trun'[w] \in {0, r}, RunInv(r)', LoopInv(w)'
  PROVE  TestsInv'
<1>1. ASSUME NEW k \in Runs \ {r} PROVE RunInv(k)'
  <2>1. RunInv(k)
    BY DEF TestsInv
  <2>2. NoMarkUnderWay(k) => NoMarkUnderWay(k)'
    BY CatalogAssumption DEF NoMarkUnderWay, Runs
  <2> QED BY <2>1, <2>2 DEF RunInv, Waits, Uncertain
<1>2. ASSUME NEW v \in Testers \ {w} PROVE LoopInv(v)'
  <2>1. LoopInv(v) /\ tpc'[v] = tpc[v] /\ trun'[v] = trun[v] /\ trun[v] # r /\ (v \in checked' <=> v \in checked)
    BY DEF TestsInv
  <2>2. CASE trun[v] = 0
    <3>1. tpc[v] = "idle"
      BY <2>1, <2>2 DEF LoopInv
    <3> QED BY <2>1, <2>2, <3>1 DEF LoopInv
  <2>3. CASE trun[v] # 0
    <3>1. trun[v] \in Runs \ {r}
      BY <2>1, <2>3 DEF TestersOK
    <3> QED BY <2>1, <3>1 DEF LoopInv, Waits
  <2> QED BY <2>2, <2>3
<1>3. Alone'
  BY DEF Alone, TestsInv, TestersOK
<1> QED BY <1>1, <1>2, <1>3 DEF TestsInv

\* A step that only puts runs up: those it changes wait before and after.
LEMMA QueuesRuns ==
  ASSUME TestsOK, TestsOK', TestersOK, TestsInv,
         \A k \in Runs : test'[k] = test[k] \/ (Waits(k) /\ Waits(k)'),
         UNCHANGED << request, unseen, crashed, raced >>,
         \A v \in Testers : \/ tpc'[v] = tpc[v] /\ trun'[v] = trun[v] /\ (v \in checked' <=> v \in checked)
                            \/ tpc'[v] = "idle" /\ trun'[v] = 0 /\ v \notin checked'
  PROVE  TestsInv'
<1>1. ASSUME NEW k \in Runs PROVE RunInv(k)' /\ (Waits(k)' <=> Waits(k))
  <2>1. RunInv(k)
    BY DEF TestsInv
  <2>2. NoMarkUnderWay(k) => NoMarkUnderWay(k)'
    BY CatalogAssumption DEF NoMarkUnderWay, Runs
  <2> QED BY <2>1, <2>2 DEF RunInv, Waits, Uncertain
<1>2. ASSUME NEW v \in Testers PROVE LoopInv(v)'
  <2>1. LoopInv(v)
    BY DEF TestsInv
  <2>2. CASE tpc'[v] = tpc[v] /\ trun'[v] = trun[v] /\ (v \in checked' <=> v \in checked) /\ trun[v] # 0
    <3>1. trun[v] \in Runs
      BY <2>2 DEF TestersOK
    <3> QED BY <1>1, <2>1, <2>2, <3>1 DEF LoopInv, Waits
  <2>3. CASE tpc'[v] = "idle" /\ trun'[v] = 0 /\ v \notin checked'
    BY <2>3 DEF LoopInv
  <2> QED BY <2>1, <2>2, <2>3 DEF LoopInv
<1>3. Alone'
  BY DEF Alone, TestsInv
<1> QED BY <1>1, <1>2, <1>3 DEF TestsInv

\* A step that leaves the runs alone, and at most ends a loop's work.
LEMMA LeavesRuns ==
  ASSUME TestsOK, TestsOK', TestersOK, TestsInv, UNCHANGED << test, request, unseen, crashed, raced >>,
         \A v \in Testers : \/ tpc'[v] = tpc[v] /\ trun'[v] = trun[v] /\ (v \in checked' <=> v \in checked)
                            \/ tpc'[v] = "idle" /\ trun'[v] = 0 /\ v \notin checked'
  PROVE  TestsInv' /\ VerdictsStay
BY QueuesRuns DEF VerdictsStay

\* What a scan or a test brings in puts up at most a new run.
LEMMA IngestQueues ==
  ASSUME TestsOK, NEW payload \in Payloads, IngestDiscovery(payload), UNCHANGED ghostVars
  PROVE  /\ TestsOK' /\ UNCHANGED << request, crashed >>
         /\ \A k \in Runs : test'[k] = test[k] \/ (test[k] = "NONE" /\ test'[k] \in {"TEST_QUEUED", "RETEST_REQUIRED"})
<1>1. PICK analyzed, retest : QueueTestIfSupported(analyzed, retest)
  BY DEF IngestDiscovery
<1>2. \/ UNCHANGED << test, recent >>
      \/ /\ FreeRuns # {} /\ recent' = recent \cup {NewRun}
         /\ \E state \in {"TEST_QUEUED", "RETEST_REQUIRED"} : test' = [test EXCEPT ![NewRun] = state]
  BY <1>1 DEF QueueTestIfSupported
<1>3. UNCHANGED << owner, leased, crashed, request >>
  BY <1>1 DEF QueueTestIfSupported
<1> QED BY <1>2, <1>3, NewRunIsFree DEF TestsOK, TestStates

\* The steps of a test.
LEMMA TestSteps ==
  ASSUME TestsOK, TestersOK, TestersOK', TestsInv, NEW w \in Testers, Tests(w)
  PROVE  TestsOK' /\ TestsInv' /\ VerdictsStay
<1> SUFFICES ASSUME NEW r \in {0} \cup Runs, r = trun[w]
             PROVE  TestsOK' /\ TestsInv' /\ VerdictsStay
  BY DEF TestersOK
<1>0. LoopInv(w) /\ (r # 0 => r \in Runs /\ RunInv(r)) /\ \A v \in Testers \ {w} : r # 0 => trun[v] # r
  BY DEF TestsInv, Alone, TestersOK
<1>1. tpc[w] # "idle" => r \in Runs
  BY <1>0 DEF LoopInv
<1>2. 0 \notin Runs
  BY CatalogAssumption DEF Runs
<1>3. CASE CreateTestMutation(w) \/ MarkInFlight(w) \/ RecordAnswer(w) \/ RecordEffect(w)
  <2>1. /\ r \in Runs /\ trun' = trun /\ ~Waits(r)
        /\ \E state \in {"PREPARED", "IN_FLIGHT", "ACCEPTED", "UNCERTAIN", "VERIFIED", "FAILED"} :
              request' = [request EXCEPT ![r] = state]
        /\ UNCHANGED << test, owner, leased, crashed, recent, unseen, raced >>
        /\ \A v \in Testers \ {w} : tpc'[v] = tpc[v] /\ (v \in checked' <=> v \in checked)
    BY <1>0, <1>1, <1>2, <1>3 DEF CreateTestMutation, MarkInFlight, RecordAnswer, RecordEffect, SetMutationState, Goes, TestersOK,
       LoopInv
  <2>2. TestsOK' /\ VerdictsStay
    BY <2>1 DEF TestsOK, VerdictsStay
  <2>3. r \in crashed => test[r] = "MANUAL_REVIEW" \/ (test[r] = "TEST_FAILED" /\ r \in raced)
    <3>1. CASE w \in checked
      <4>1. ~NoMarkUnderWay(r)
        BY <3>1 DEF NoMarkUnderWay
      <4> QED BY <1>0, <1>2, <2>1, <4>1 DEF RunInv
    <3>2. CASE w \notin checked
      BY <1>0, <1>2, <1>3, <2>1, <3>2 DEF CreateTestMutation, MarkInFlight, RecordAnswer, RecordEffect, SetMutationState, Owns, RunInv
    <3> QED BY <3>1, <3>2
  <2>4. LoopInv(w)' /\ (r \in unseen => Uncertain(r)')
    <3>1. CASE CreateTestMutation(w)
      BY <1>0, <1>2, <2>1, <3>1 DEF CreateTestMutation, Goes, LoopInv, RunInv, Waits, Uncertain, TestsOK, TestersOK, Marking
    <3>2. CASE MarkInFlight(w)
      BY <1>0, <1>2, <2>1, <3>2 DEF MarkInFlight, SetMutationState, Goes, LoopInv, RunInv, Waits, Uncertain, TestsOK, TestersOK
    <3>3. CASE RecordAnswer(w)
      BY <1>0, <1>2, <2>1, <3>3 DEF RecordAnswer, SetMutationState, Goes, LoopInv, RunInv, Waits, Uncertain, TestsOK, TestersOK
    <3>4. CASE RecordEffect(w)
      BY <1>0, <1>2, <2>1, <3>4 DEF RecordEffect, SetMutationState, Goes, LoopInv, RunInv, Waits, Uncertain, TestsOK, TestersOK
    <3> QED BY <1>3, <3>1, <3>2, <3>3, <3>4
  <2>5. RunInv(r)'
    BY <2>1, <2>3, <2>4 DEF RunInv, Waits
  <2>6. \A k \in Runs \ {r} : test'[k] = test[k] /\ request'[k] = request[k] /\ (k \in unseen' <=> k \in unseen)
    BY <2>1 DEF TestsOK
  <2>7. \A v \in Testers \ {w} : /\ tpc'[v] = tpc[v] /\ trun'[v] = trun[v] /\ trun[v] # r
                                /\ (v \in checked') = (v \in checked)
    BY <1>0, <1>2, <2>1
  <2>8. trun'[w] \in {0, r} /\ crashed' = crashed /\ raced' = raced
    BY <2>1
  <2>9. TestsInv'
    BY <2>1, <2>2, <2>4, <2>5, <2>6, <2>7, <2>8, OneRun
  <2> QED BY <2>2, <2>9
<1>4. CASE Perform(w) \/ Look(w)
  <2>1. /\ r \in Runs /\ trun' = trun
        /\ unseen' = unseen \cup {r} \/ unseen' = unseen \ {r}
        /\ UNCHANGED << testVars, raced, checked >>
        /\ \A v \in Testers \ {w} : tpc'[v] = tpc[v]
    BY <1>1, <1>4 DEF Perform, Look, GivesUp, Goes, TestersOK
  <2>2. TestsOK' /\ VerdictsStay
    BY <2>1 DEF TestsOK, VerdictsStay
  <2>3. RunInv(r)' /\ LoopInv(w)'
    <3>1. CASE Perform(w)
      BY <1>0, <1>2, <2>1, <3>1 DEF Perform, Goes, LoopInv, RunInv, NoMarkUnderWay, Waits, Uncertain, TestsOK, TestersOK,
         Marking
    <3>2. CASE Look(w)
      BY <1>0, <1>2, <2>1, <3>2 DEF Look, Goes, GivesUp, LoopInv, RunInv, NoMarkUnderWay, Waits, Uncertain, TestsOK, TestersOK,
         Marking
    <3> QED BY <1>4, <3>1, <3>2
  <2>4. \A k \in Runs \ {r} : test'[k] = test[k] /\ request'[k] = request[k] /\ (k \in unseen' <=> k \in unseen)
    BY <2>1
  <2>5. \A v \in Testers \ {w} : /\ tpc'[v] = tpc[v] /\ trun'[v] = trun[v] /\ trun[v] # r
                                /\ (v \in checked') = (v \in checked)
    BY <1>0, <1>2, <2>1
  <2>6. trun'[w] \in {0, r} /\ crashed' = crashed /\ raced' = raced
    BY <2>1
  <2>7. TestsInv'
    BY <2>1, <2>2, <2>3, <2>4, <2>5, <2>6, OneRun
  <2> QED BY <2>2, <2>7
<1>5. CASE TestPasses(w) \/ FinishFailedTestRun(w)
  <2>1. /\ r \in Runs /\ test[r] = "TESTING"
        /\ \E state \in Settled : test' = [test EXCEPT ![r] = state]
        /\ owner' = [owner EXCEPT ![r] = Nothing] /\ leased' = leased \ {r} /\ recent' = recent \cup {r}
        /\ UNCHANGED << crashed, request, ghostVars >>
    BY <1>1, <1>5 DEF TestPasses, FinishFailedTestRun, Ended, Owns, Settled
  <2>2. TestsOK' /\ VerdictsStay
    BY <2>1 DEF TestsOK, VerdictsStay, Settled, TestStates
  <2>3. /\ \A v \in Testers \ {w} : tpc'[v] = tpc[v] /\ trun'[v] = trun[v] /\ (v \in checked' <=> v \in checked)
        /\ \/ tpc'[w] = "idle" /\ trun'[w] = 0 /\ w \notin checked'
           \/ tpc'[w] \in {"passed", "after"} /\ trun'[w] = r /\ checked' = checked
        /\ tpc[w] \in {"run", "failed"}
    BY <1>5 DEF TestPasses, FinishFailedTestRun, Forgets, Goes, TestersOK
  <2>4. RunInv(r)' /\ LoopInv(w)'
    BY <1>0, <1>2, <2>1, <2>3 DEF LoopInv, RunInv, Waits, Uncertain, TestsOK, Settled, Marking
  <2>5. \A k \in Runs \ {r} : test'[k] = test[k] /\ request'[k] = request[k] /\ (k \in unseen' <=> k \in unseen)
    BY <2>1 DEF TestsOK
  <2>6. \A v \in Testers \ {w} : /\ tpc'[v] = tpc[v] /\ trun'[v] = trun[v] /\ trun[v] # r
                                /\ (v \in checked') = (v \in checked)
    BY <1>0, <1>2, <2>1, <2>3
  <2>7. TestsInv'
    BY <2>1, <2>2, <2>3, <2>4, <2>5, <2>6, OneRun
  <2> QED BY <2>2, <2>7
<1>6. ASSUME UNCHANGED << testVars, ghostVars, trun, checked >>,
             \/ tpc[w] = "passed" /\ tpc' = [tpc EXCEPT ![w] = "ingest"]
             \/ tpc[w] = "after" /\ tpc' = [tpc EXCEPT ![w] = "alternative"]
      PROVE  TestsOK' /\ TestsInv' /\ VerdictsStay
  <2>1. r \in Runs /\ TestsOK' /\ VerdictsStay
    BY <1>1, <1>6 DEF TestsOK, VerdictsStay
  <2>2. RunInv(r)' /\ LoopInv(w)'
    BY <1>0, <1>6, <2>1 DEF LoopInv, RunInv, NoMarkUnderWay, Waits, Uncertain, TestersOK, Marking
  <2>3. \A k \in Runs \ {r} : test'[k] = test[k] /\ request'[k] = request[k] /\ (k \in unseen' <=> k \in unseen)
    BY <1>6
  <2>4. \A v \in Testers \ {w} : /\ tpc'[v] = tpc[v] /\ trun'[v] = trun[v] /\ trun[v] # r
                                /\ (v \in checked') = (v \in checked)
    BY <1>0, <1>2, <1>6, <2>1 DEF TestersOK
  <2>5. trun'[w] \in {0, r} /\ crashed' = crashed /\ raced' = raced
    BY <1>6
  <2>6. TestsInv'
    BY <2>1, <2>2, <2>3, <2>4, <2>5, OneRun
  <2> QED BY <2>1, <2>6
<1>7. ASSUME Forgets(w)
      PROVE  \A v \in Testers : \/ tpc'[v] = tpc[v] /\ trun'[v] = trun[v] /\ (v \in checked' <=> v \in checked)
                                \/ tpc'[v] = "idle" /\ trun'[v] = 0 /\ v \notin checked'
  BY <1>7 DEF Forgets, TestersOK
<1>8. CASE IngestTestedQuest(w)
  <2>1. PICK payload \in Payloads : IngestDiscovery(payload)
    BY <1>8 DEF IngestTestedQuest
  <2>2. Forgets(w) /\ UNCHANGED ghostVars
    BY <1>8 DEF IngestTestedQuest
  <2>3. /\ TestsOK' /\ UNCHANGED << request, crashed >>
        /\ \A k \in Runs : test'[k] = test[k] \/ (test[k] = "NONE" /\ test'[k] \in {"TEST_QUEUED", "RETEST_REQUIRED"})
    BY <2>1, <2>2, IngestQueues
  <2>4. TestsInv'
    BY <1>7, <2>2, <2>3, QueuesRuns DEF Waits
  <2> QED BY <2>3, <2>4 DEF VerdictsStay, Settled
<1>9. CASE QueueAlternativeTest(w)
  <2>1. /\ Forgets(w) /\ UNCHANGED << owner, leased, crashed, request, ghostVars >>
        /\ FreeRuns # {} /\ test' = [test EXCEPT ![NewRun] = "TEST_QUEUED"] /\ recent' = recent \cup {NewRun}
    BY <1>9 DEF QueueAlternativeTest
  <2>2. /\ TestsOK'
        /\ \A k \in Runs : test'[k] = test[k] \/ (test[k] = "NONE" /\ test'[k] = "TEST_QUEUED")
    BY <2>1, NewRunIsFree DEF TestsOK, TestStates
  <2>3. TestsInv'
    BY <1>7, <2>1, <2>2, QueuesRuns DEF Waits
  <2> QED BY <2>2, <2>3 DEF VerdictsStay, Settled
<1>10. ASSUME Forgets(w), UNCHANGED << testVars, ghostVars >>
       PROVE  TestsOK' /\ TestsInv' /\ VerdictsStay
  <2>1. TestsOK'
    BY <1>10 DEF TestsOK
  <2> QED BY <1>7, <1>10, <2>1, LeavesRuns
<1>11. CASE LostTest(w) \/ UpdateMonitorForFailure(w) \/ PauseQuestForTestFailure(w)
  BY <1>10, <1>11 DEF LostTest, UpdateMonitorForFailure, PauseQuestForTestFailure
<1>12. CASE ResetTestMonitor(w)
  BY <1>6, <1>12 DEF ResetTestMonitor, Goes
<1>13. CASE CountAlternatives(w)
  BY <1>6, <1>10, <1>13 DEF CountAlternatives, Goes
<1>14. CASE CheckOwnership(w)
  <2>1. /\ r \in Runs /\ test[r] = "TESTING" /\ checked' = checked \cup {w} /\ tpc[w] \in Marking
        /\ UNCHANGED << testVars, ghostVars, trun, tpc >>
    BY <1>1, <1>14 DEF CheckOwnership, Owns, Marking
  <2>2. TestsOK' /\ VerdictsStay
    BY <2>1 DEF TestsOK, VerdictsStay
  <2>3. RunInv(r)' /\ LoopInv(w)'
    BY <1>0, <1>2, <2>1 DEF LoopInv, RunInv, Waits, Uncertain
  <2>4. \A k \in Runs \ {r} : test'[k] = test[k] /\ request'[k] = request[k] /\ (k \in unseen' <=> k \in unseen)
    BY <2>1
  <2>5. \A v \in Testers \ {w} : /\ tpc'[v] = tpc[v] /\ trun'[v] = trun[v] /\ trun[v] # r
                                /\ (v \in checked') = (v \in checked)
    BY <1>0, <1>2, <2>1
  <2>6. trun'[w] \in {0, r} /\ crashed' = crashed /\ raced' = raced
    BY <2>1
  <2>7. TestsInv'
    BY <2>1, <2>2, <2>3, <2>4, <2>5, <2>6, OneRun
  <2> QED BY <2>2, <2>7
<1> QED BY <1>3, <1>4, <1>5, <1>8, <1>9, <1>11, <1>12, <1>13, <1>14 DEF Tests

\* A loop takes a run that waits.
LEMMA AcquireKeeps ==
  ASSUME TestsOK, TestersOK, TestersOK', TestsInv, NEW w \in Testers, NEW m \in Monitors, NEW r \in Runs,
         AcquireTestRun(w, m, r)
  PROVE  TestsOK' /\ TestsInv' /\ VerdictsStay
<1>1. /\ test[r] = "TEST_QUEUED" /\ test' = [test EXCEPT ![r] = "TESTING"]
      /\ owner' = [owner EXCEPT ![r] = w] /\ leased' = leased \cup {r}
      /\ trun' = [trun EXCEPT ![w] = r] /\ tpc' = [tpc EXCEPT ![w] = "run"]
      /\ UNCHANGED << crashed, recent, request, ghostVars, checked >> /\ tpc[w] = "idle"
  BY DEF AcquireTestRun, Goes
<1>2. TestsOK' /\ VerdictsStay
  BY <1>1 DEF TestsOK, TestStates, VerdictsStay, Settled
<1>3. r # 0 /\ RunInv(r) /\ \A v \in Testers : trun[v] # r
  BY <1>1, CatalogAssumption DEF TestsInv, LoopInv, Waits, Runs
<1>4. RunInv(r)' /\ LoopInv(w)'
  <2>1. LoopInv(w)
    BY DEF TestsInv
  <2> QED BY <1>1, <1>3, <2>1 DEF RunInv, LoopInv, Waits, Uncertain, TestsOK, TestersOK, Marking
<1>5. \A k \in Runs \ {r} : test'[k] = test[k] /\ request'[k] = request[k] /\ (k \in unseen' <=> k \in unseen)
  BY <1>1 DEF TestsOK
<1>6. /\ \A v \in Testers \ {w} : /\ tpc'[v] = tpc[v] /\ trun'[v] = trun[v] /\ trun[v] # r
                                 /\ (v \in checked') = (v \in checked)
      /\ trun'[w] \in {0, r} /\ crashed' = crashed /\ raced' = raced
  BY <1>1, <1>3 DEF TestersOK
<1>7. TestsInv'
  BY <1>1, <1>2, <1>4, <1>5, <1>6, OneRun
<1> QED BY <1>2, <1>7

\* A loop meets an error.
LEMMA ErrorKeeps ==
  ASSUME TestsOK, TestersOK, TestsInv, NEW w \in Testers, TestErrs(w)
  PROVE  TestsOK' /\ TestsInv' /\ VerdictsStay
<1>1. /\ tpc[w] \in {"run", "look"} /\ tpc' = [tpc EXCEPT ![w] = "failed"]
      /\ UNCHANGED << testVars, ghostVars, trun, checked >>
  BY DEF TestErrs, GivesUp, Goes
<1>2. TestsOK' /\ VerdictsStay
  BY <1>1 DEF TestsOK, VerdictsStay
<1>3. \A r \in Runs : RunInv(r)'
  BY <1>1 DEF TestsInv, RunInv, NoMarkUnderWay, Waits, Uncertain
<1>4. ASSUME NEW v \in Testers PROVE LoopInv(v)'
  <2>1. LoopInv(v)
    BY DEF TestsInv
  <2> QED BY <1>1, <2>1 DEF LoopInv, Waits, TestersOK, Marking
<1>5. Alone'
  BY <1>1 DEF Alone, TestsInv
<1> QED BY <1>2, <1>3, <1>4, <1>5 DEF TestsInv

\* Maintenance puts up runs, and gives a verdict only on those of crashed loops.
LEMMA MaintenanceSteps ==
  ASSUME TestsOK, MaintenanceOK, TransactionalMaintenance
  PROVE  /\ TestsOK' /\ crashed' = crashed \cup CrashedTests
         /\ raced' = raced \cup { k \in CrashedTests : MissedMark(k) }
         /\ UNCHANGED << request, unseen, tpc, trun, checked >>
         /\ \A k \in Runs : \/ test'[k] = test[k] /\ k \notin CrashedTests
                            \/ Waits(k) /\ Waits(k)'
                            \/ k \in CrashedTests /\ test'[k] = IF k \in muncertain THEN "MANUAL_REVIEW" ELSE "TEST_FAILED"
<1>1. FreeRuns # {}
  <2>1. IsFiniteSet(Runs)
    BY CatalogAssumption, FS_Interval DEF Runs
  <2>2. CrashedTests \subseteq Runs
    BY DEF CrashedTests, MaintenanceOK
  <2>3. Cardinality(CrashedTests) \in Nat
    BY <2>1, <2>2, FS_Subset, FS_CardinalityType
  <2>4. Cardinality(FreeRuns) > Cardinality(CrashedTests)
    BY DEF TransactionalMaintenance
  <2> QED BY <2>3, <2>4, FS_EmptySet
<1>2. ASSUME NEW k \in Runs
      PROVE  \/ Retested[k] = test[k] /\ k \notin CrashedTests
             \/ Waits(k) /\ Retested[k] \in {"NONE", "TEST_QUEUED", "RETEST_REQUIRED"}
             \/ k \in CrashedTests /\ Retested[k] = IF k \in muncertain THEN "MANUAL_REVIEW" ELSE "TEST_FAILED"
  <2>1. CASE CrashedTests # {}
    <3>1. Retested[k] = Recovered[k]
      BY <2>1 DEF Retested
    <3>2. k \in CrashedTests => Recovered[k] = IF k \in muncertain THEN "MANUAL_REVIEW" ELSE "TEST_FAILED"
      BY DEF Recovered, Requeued, FreeRuns, CrashedTests
    <3>3. k \notin CrashedTests => Recovered[k] = (IF k \in Requeued THEN "TEST_QUEUED" ELSE test[k])
      BY DEF Recovered
    <3>4. k \in Requeued => Waits(k)
      BY DEF Requeued, FreeRuns, Waits
    <3> QED BY <3>1, <3>2, <3>3, <3>4
  <2>2. CASE CrashedTests = {} /\ RetestIsDue
    <3>1. Retested = [test EXCEPT ![NewRun] = "RETEST_REQUIRED"]
      BY <2>2 DEF Retested
    <3> QED BY <1>1, <2>2, <3>1, NewRunIsFree DEF TestsOK, Waits
  <2>3. CASE CrashedTests = {} /\ ~RetestIsDue
    BY <2>3 DEF Retested
  <2> QED BY <2>1, <2>2, <2>3
<1> DEFINE waiting == { r \in Runs : Retested[r] = "RETEST_REQUIRED" }
<1>3. /\ test' = [r \in Runs |-> IF ActiveTestMonitors # {} /\ r \in waiting THEN "TEST_QUEUED" ELSE Retested[r]]
      /\ owner' = [r \in Runs |-> IF r \in CrashedTests THEN Nothing ELSE owner[r]]
      /\ crashed' = crashed \cup CrashedTests
      /\ recent' = recent \cup CrashedTests \cup { r \in FreeRuns : Retested[r] # "NONE" }
      /\ raced' = raced \cup { r \in CrashedTests : MissedMark(r) }
      /\ UNCHANGED << leased, request, unseen, tpc, trun, checked >>
  BY DEF TransactionalMaintenance
<1>4. ASSUME NEW k \in Runs
      PROVE  test'[k] = Retested[k] \/ (Retested[k] = "RETEST_REQUIRED" /\ test'[k] = "TEST_QUEUED")
  BY <1>3
<1>5. ASSUME NEW k \in Runs
      PROVE  \/ test'[k] = test[k] /\ k \notin CrashedTests
             \/ Waits(k) /\ Waits(k)'
             \/ k \in CrashedTests /\ test'[k] = IF k \in muncertain THEN "MANUAL_REVIEW" ELSE "TEST_FAILED"
  <2>1. test[k] = "RETEST_REQUIRED" => k \notin CrashedTests
    BY DEF CrashedTests
  <2> QED BY <1>2, <1>4, <2>1 DEF Waits
<1>6. test' \in [Runs -> TestStates]
  <2>1. \A k \in Runs : test'[k] \in TestStates
    BY <1>5 DEF TestsOK, TestStates, Waits
  <2> QED BY <1>3, <2>1
<1>7. TestsOK'
  <2>1. CrashedTests \subseteq Runs /\ FreeRuns \subseteq Runs
    BY DEF CrashedTests, FreeRuns, MaintenanceOK
  <2> QED BY <1>3, <1>6, <2>1 DEF TestsOK
<1> QED BY <1>3, <1>5, <1>7

\* Recovery gives up what its loop can no longer touch, and repeats only what left nothing.
LEMMA MaintenanceKeeps ==
  ASSUME TestsOK, TestersOK, MaintenanceOK, TestsInv, TransactionalMaintenance
  PROVE  TestsOK' /\ TestsInv' /\ VerdictsStay
<1>1. /\ TestsOK' /\ crashed' = crashed \cup CrashedTests
      /\ raced' = raced \cup { k \in CrashedTests : MissedMark(k) }
      /\ UNCHANGED << request, unseen, tpc, trun, checked >>
      /\ \A k \in Runs : \/ test'[k] = test[k] /\ k \notin CrashedTests
                         \/ Waits(k) /\ Waits(k)'
                         \/ k \in CrashedTests /\ test'[k] = IF k \in muncertain THEN "MANUAL_REVIEW" ELSE "TEST_FAILED"
  BY MaintenanceSteps
<1>2. \A k \in CrashedTests : k \in Runs /\ test[k] = "TESTING"
  BY DEF CrashedTests, MaintenanceOK
<1>3. ASSUME NEW k \in Runs PROVE RunInv(k)' /\ (Waits(k)' <=> Waits(k))
  <2>1. RunInv(k) /\ (Uncertain(k)' <=> Uncertain(k)) /\ (NoMarkUnderWay(k)' <=> NoMarkUnderWay(k))
    BY <1>1 DEF TestsInv, Uncertain, NoMarkUnderWay
  <2>2. ASSUME k \in CrashedTests, k \notin muncertain, ~MissedMark(k)
        PROVE  ~Uncertain(k) /\ NoMarkUnderWay(k)
    <3>1. ~Uncertain(k) /\ \A w \in checked : trun[w] = k => tpc[w] # "prepared"
      BY <2>2 DEF MissedMark
    <3>2. ASSUME NEW w \in Testers, trun[w] = k, w \in checked PROVE FALSE
      <4>1. LoopInv(w)
        BY DEF TestsInv
      <4> QED BY <3>1, <3>2, <4>1 DEF LoopInv, Marking, Uncertain
    <3> QED BY <3>1, <3>2 DEF NoMarkUnderWay
  <2> QED BY <1>1, <1>2, <2>1, <2>2 DEF RunInv, Waits
<1>4. ASSUME NEW v \in Testers PROVE LoopInv(v)'
  <2>1. LoopInv(v)
    BY DEF TestsInv
  <2>2. trun[v] # 0 => trun[v] \in Runs
    BY DEF TestersOK
  <2> QED BY <1>1, <1>3, <2>1, <2>2 DEF LoopInv, Waits
<1>5. Alone'
  BY <1>1 DEF Alone, TestsInv
<1>6. VerdictsStay
  BY <1>1, <1>2 DEF VerdictsStay, Settled, Waits
<1> QED BY <1>1, <1>3, <1>4, <1>5, <1>6 DEF TestsInv

\* Every step keeps what is known of the runs, and their verdicts.
LEMMA RunsKeep ==
  ASSUME TestsOK, TestersOK, TestersOK', MaintenanceOK, TestsInv, [Next]_vars
  PROVE  TestsOK' /\ TestsInv' /\ VerdictsStay
<1>1. ASSUME UNCHANGED << test, request, ghostVars, crashed, owner >>, leased' \subseteq leased, recent' \subseteq recent,
             \A v \in Testers : \/ tpc'[v] = tpc[v] /\ trun'[v] = trun[v] /\ (v \in checked' <=> v \in checked)
                                \/ tpc'[v] = "idle" /\ trun'[v] = 0 /\ v \notin checked'
      PROVE  TestsOK' /\ TestsInv' /\ VerdictsStay
  <2>1. TestsOK'
    BY <1>1 DEF TestsOK
  <2> QED BY <1>1, <2>1, LeavesRuns
<1>2. CASE Scans
  <2>1. ASSUME NEW payload \in Payloads, IngestDiscovery(payload), UNCHANGED << ghostVars, testerVars >>
        PROVE  TestsOK' /\ TestsInv' /\ VerdictsStay
    <3>1. /\ TestsOK' /\ UNCHANGED << request, crashed >>
          /\ \A k \in Runs : test'[k] = test[k] \/ (test[k] = "NONE" /\ test'[k] \in {"TEST_QUEUED", "RETEST_REQUIRED"})
      BY <2>1, IngestQueues
    <3>2. TestsInv'
      BY <2>1, <3>1, QueuesRuns DEF Waits
    <3> QED BY <3>1, <3>2 DEF VerdictsStay, Settled
  <2>2. CASE UNCHANGED << testVars, ghostVars, testerVars >>
    BY <1>1, <2>2
  <2> QED BY <1>2, <2>1, <2>2 DEF Scans, LoadScanMonitors, ResetFailures, ScanFails, ScanOneMonitor
<1>3. ASSUME NEW w \in Testers, Crash(w)
      PROVE  TestsOK' /\ TestsInv' /\ VerdictsStay
  BY <1>1, <1>3 DEF Crash, Forgets, TestersOK
<1>4. CASE DayPasses
  BY <1>1, <1>4 DEF DayPasses
<1>5. ASSUME NEW r \in Runs, LeaseRunsOut(r)
      PROVE  TestsOK' /\ TestsInv' /\ VerdictsStay
  BY <1>1, <1>5 DEF LeaseRunsOut
<1>6. ASSUME UNCHANGED vars \/ TimePasses \/ QuestChanges \/ MaintenanceFails \/ BeginMaintenance \/ SelectSellable
             \/ SetSellable \/ Operates
      PROVE  UNCHANGED << testVars, ghostVars, testerVars >>
  BY <1>6 DEF vars, TimePasses, QuestChanges, MaintenanceFails, BeginMaintenance, SelectSellable, SetSellable, Operates, SetQuestSaleState,
     SetMonitorState, RotateMonitorCredential, AddMonitor, PauseForContractFailure, PriceChanges
<1> QED BY <1>1, <1>2, <1>3, <1>4, <1>5, <1>6, TestSteps, AcquireKeeps, ErrorKeeps, MaintenanceKeeps DEF Next, Maintains

-----------------------------------------------------------------------------
(* Theorems *)

\* The invariant holds of the empty catalog.
LEMMA CatalogInit == Init => CatalogInv
<1> SUFFICES ASSUME Init PROVE CatalogInv
  OBVIOUS
<1>1. QuestOK /\ OpenIsSupported /\ PlanInv /\ MaintenanceOK
  BY SaleStates DEF Init, QuestOK, OpenIsSupported, PlanInv, MaintenanceOK
<1>2. TestsOK
  BY DEF Init, TestsOK, TestStates
<1>3. MonitorsOK /\ ScannerOK
  BY DEF Init, MonitorsOK, ScannerOK
<1>4. TestersOK /\ events \in 0 .. MaxWeight
  BY CatalogAssumption DEF Init, TestersOK
<1>5. TestsInv
  BY DEF Init, TestsInv, RunInv, LoopInv, Alone, Waits, Uncertain, NoMarkUnderWay
<1> QED BY <1>1, <1>2, <1>3, <1>4, <1>5 DEF CatalogInv, TypeOK

\* Every step preserves the invariant.
LEMMA CatalogNext == CatalogInv /\ [Next]_vars => CatalogInv' /\ VerdictsStay
<1> SUFFICES ASSUME CatalogInv, [Next]_vars PROVE CatalogInv' /\ VerdictsStay
  OBVIOUS
<1>1. /\ QuestOK /\ TestsOK /\ MonitorsOK /\ TestersOK /\ ScannerOK /\ MaintenanceOK /\ events \in 0 .. MaxWeight
      /\ OpenIsSupported /\ PlanInv /\ TestsInv
  BY DEF CatalogInv, TypeOK
<1>2. QuestOK' /\ MaintenanceOK' /\ OpenIsSupported' /\ PlanInv'
  BY <1>1, QuestKeeps
<1>3. MonitorsOK' /\ ScannerOK' /\ TestersOK' /\ events' \in 0 .. MaxWeight
  BY <1>1, MonitorsKeep, TestersKeep, EventsType
<1>4. TestsOK' /\ TestsInv' /\ VerdictsStay
  BY <1>1, <1>3, RunsKeep
<1> QED BY <1>2, <1>3, <1>4 DEF CatalogInv, TypeOK

\* The invariant holds always.
LEMMA CatalogInvariant == Spec => []CatalogInv
BY CatalogInit, CatalogNext, PTL DEF Spec

\* Every row and every loop's memory is well typed, whatever interleaves.
THEOREM CatalogTypeCorrect == Spec => []TypeOK
<1>1. CatalogInv => TypeOK
  BY DEF CatalogInv
<1> QED BY <1>1, CatalogInvariant, PTL

\* Whoever writes the sale, discovery, tests, maintenance with a row it read before, or an
\* operator, leaves on sale only a quest whose analysis is supported.
THEOREM OnlySupportedIsOpen == Spec => []OpenIsSupported
<1>1. CatalogInv => OpenIsSupported
  BY DEF CatalogInv
<1> QED BY <1>1, CatalogInvariant, PTL

\* A crashed test is repeated only if none of its requests has an effect nobody has looked up,
\* and its loop, should it wake up, is not about to send one; but for a mark that overlapped
\* the recovery.
THEOREM RepeatsAreClean == Spec => []RepeatedTestLeftNothing
<1>1. CatalogInv => RepeatedTestLeftNothing
  <2> SUFFICES ASSUME CatalogInv, NEW r \in crashed \ raced, test[r] = "TEST_FAILED"
               PROVE  r \notin unseen /\ \A w \in Testers : trun[w] = r => tpc[w] # "send" /\ w \notin checked
    BY DEF RepeatedTestLeftNothing
  <2>1. r \in Runs /\ RunInv(r) /\ ~Uncertain(r) /\ NoMarkUnderWay(r)
    BY DEF CatalogInv, TypeOK, TestsOK, TestsInv, RunInv
  <2>2. \A w \in Testers : trun[w] = r /\ tpc[w] = "send" => request[r] = "IN_FLIGHT"
    BY DEF CatalogInv, TestsInv, LoopInv
  <2> QED BY <2>1, <2>2 DEF RunInv, Uncertain, NoMarkUnderWay
<1> QED BY <1>1, CatalogInvariant, PTL

\* The verdict on a test is given once, by its loop or by recovery.
THEOREM VerdictsAreFinal == Spec => VerdictStands
<1>1. CatalogInv /\ [Next]_vars => [\A r \in Runs : test[r] \in Settled => test'[r] = test[r]]_vars
  BY CatalogNext DEF VerdictsStay
<1> QED BY <1>1, CatalogInvariant, PTL DEF VerdictStands, Spec
=============================================================================
