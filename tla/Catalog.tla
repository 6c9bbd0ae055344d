------------------------------ MODULE Catalog -------------------------------
(***************************************************************************)
(* A quest between discovery and sale.  Scans of monitor accounts bring    *)
(* its metadata; a supported quest is offered for sale and tested in the   *)
(* background on a monitor account; maintenance recovers crashed tests,    *)
(* demands retests and takes expired quests off the market; operators and  *)
(* the runner intervene.  domain/catalog/, workers/discovery-worker.js,    *)
(* workers/quest-test-worker.js, domain/admin/monitor-service.js and the   *)
(* parts of the maintenance worker that deal with quests and monitors.     *)
(*                                                                         *)
(* One quest.  The names of accounts, metadata and evidence are left out;  *)
(* of the expiry only the admission is kept, of a test its newest request. *)
(*                                                                         *)
(* A transaction is one action, except where another one can come between  *)
(* its statements unnoticed: the ownership check of a mark takes no lock,  *)
(* and the recovery of crashed tests reads the marks from the snapshot of  *)
(* its first statement, so each of these is two actions.                   *)
(***************************************************************************)
EXTENDS Integers, FiniteSets

CONSTANTS Monitors,                  \* monitor_accounts
          ScanMonitors, TestMonitors,    \* their capabilities
          Testers,                   \* the quest-test loops of the processes alive
          CooldownAt, QuarantineAt,  \* failures in a row, 3 and 5 in the code
          MaxRuns, MaxRequests,      \* bounds: test runs, requests of one test
          InitialMonitors,           \* those registered at the start
          Weight, MaxWeight,         \* what an event weighs, and how much may happen in all
          Nothing

EventKinds == { "partial", "unsupported", "changed", "extended", "price", "day", "runner", "operator",
                "administrator", "registered", "error", "ignored", "unanswered", "scan", "crash", "stall" }

ASSUME CatalogAssumption ==
  /\ InitialMonitors \cup ScanMonitors \cup TestMonitors \subseteq Monitors
  /\ CooldownAt \in Nat /\ QuarantineAt \in Nat /\ CooldownAt < QuarantineAt
  /\ MaxRuns \in Nat /\ MaxRequests \in Nat /\ MaxWeight \in Nat
  /\ Weight \in [EventKinds -> Nat]
  /\ Nothing \notin Monitors \cup Testers

Runs == 1 .. MaxRuns
Core == {"task", "dates"}      \* the fields without which a quest is not coreComplete

SaleMap == [ CLOSED |-> {"OPEN", "PAUSED", "EXPIRED"}, OPEN |-> {"PAUSED", "EXPIRED"},
             PAUSED |-> {"OPEN", "EXPIRED"}, EXPIRED |-> {} ]

VARIABLES
  analysis, sale, known, contract,      \* quests; contract: executor, version and target
  time,                                 \* of expires_at: room for an execution, too little, none
  priced,                               \* a price rule applies
  test, owner, leased, crashed, recent, \* quest_test_runs; recent: in the last 24 hours
  request,                              \* status of the newest of quest_test_mutations
  unseen,                               \* runs that sent a request nobody looked up the effect of
  raced,                                \* crashed runs whose recovery and mark missed each other
  mstate, failures,                     \* monitor_accounts
  offered,                              \* the contract Discord gives the quest
  events,                               \* how much has befallen the system
  tpc, trun, tmonitor, tfailures, terror, tcount, tretry,   \* the test loops, in memory
  checked,                              \* loops between the check and the update of a mark
  spc, slist, sfailures, smonitor, smissing,                \* the scanner, in memory
  mpc, mplan,                                               \* the maintenance loop, in memory
  mseen, muncertain     \* its open transaction: runs TESTING, those with an uncertain request

questVars   == << analysis, sale, known, contract, time, priced, offered >>
testVars    == << test, owner, leased, crashed, recent, request >>
ghostVars   == << unseen, raced >>
monitorVars == << mstate, failures >>
testerVars  == << tpc, trun, tmonitor, tfailures, terror, tcount, tretry, checked >>
scannerVars == << spc, slist, sfailures, smonitor, smissing >>
maintVars   == << mpc, mplan, mseen, muncertain >>
vars == << questVars, testVars, ghostVars, monitorVars, events, testerVars, scannerVars, maintVars >>

Init ==
  /\ analysis = "NONE" /\ sale = "CLOSED" /\ known = {} /\ contract = "unknown"
  /\ time = "room" /\ priced = TRUE
  /\ test = [r \in Runs |-> "NONE"] /\ owner = [r \in Runs |-> Nothing]
  /\ leased = {} /\ crashed = {} /\ recent = {}
  /\ request = [r \in Runs |-> "NONE"] /\ unseen = {} /\ raced = {}
  /\ mstate = [m \in Monitors |-> IF m \in InitialMonitors THEN "ACTIVE" ELSE "NONE"]
  /\ failures = [m \in Monitors |-> 0]
  /\ offered = "first" /\ events = 0
  /\ tpc = [w \in Testers |-> "idle"] /\ trun = [w \in Testers |-> 0]
  /\ tmonitor = [w \in Testers |-> Nothing] /\ tfailures = [w \in Testers |-> 0]
  /\ terror = [w \in Testers |-> "none"] /\ tcount = [w \in Testers |-> 0]
  /\ tretry = [w \in Testers |-> FALSE] /\ checked = {}
  /\ spc = "idle" /\ slist = {} /\ sfailures = [m \in Monitors |-> 0]
  /\ smonitor = Nothing /\ smissing = "nothing"
  /\ mpc = "idle" /\ mplan = "none" /\ mseen = {} /\ muncertain = {}

Happens(kind) ==
  /\ events + Weight[kind] <= MaxWeight
  /\ events' = events + Weight[kind]

-----------------------------------------------------------------------------
(* ingestDiscovery: metadata, analysis, sale and test run, one transaction. *)

\* What an account is shown: as a rule the whole contract, once in a while less or other.
Shown(payload) ==
  \/ /\ payload = [known |-> Core, contract |-> offered, extended |-> FALSE]
     /\ UNCHANGED events
  \/ /\ \E fields \in (SUBSET Core) \ {Core} :
          payload = [known |-> fields, contract |-> offered, extended |-> FALSE]
     /\ Happens("partial")
  \/ /\ payload = [known |-> Core, contract |-> "unsupported", extended |-> FALSE]
     /\ Happens("unsupported")
  \/ /\ payload = [known |-> Core, contract |-> offered, extended |-> TRUE]
     /\ Happens("extended")
Payloads ==
  [known : SUBSET Core, contract : {"first", "second", "unsupported"}, extended : BOOLEAN]

\* Mutant: the analysis is left where its first step brings it.
AnalyzedOnly(complete, supported) ==
  CASE analysis \in {"NONE", "METADATA_RETRY"} -> IF complete THEN "ANALYZED" ELSE "METADATA_RETRY"
    [] OTHER -> analysis
Analyzed(complete, supported) ==
  CASE analysis \in {"NONE", "METADATA_RETRY"} /\ ~complete -> "METADATA_RETRY"
    [] analysis \in {"NONE", "METADATA_RETRY"} /\ complete ->
         IF supported THEN "SUPPORTED" ELSE "UNSUPPORTED"
    [] analysis = "UNSUPPORTED" /\ complete /\ supported -> "SUPPORTED"
    [] OTHER -> analysis

\* Mutant: what was analysed is not asked for.
CanSellAnything(analyzed, fields, when) == fields = Core /\ priced /\ when = "room"
CanSell(analyzed, fields, when) ==
  analyzed = "SUPPORTED" /\ fields = Core /\ priced /\ when = "room"

Reconciled(analyzed, fields, when) ==
  IF "dates" \in fields /\ when = "over" THEN "EXPIRED"
  ELSE CASE CanSell(analyzed, fields, when) /\ sale \in {"CLOSED", "PAUSED"} -> "OPEN"
         [] ~CanSell(analyzed, fields, when) /\ sale = "OPEN" -> "PAUSED"
         [] OTHER -> sale

\* An insert needs a free number; MaxRuns is large enough for every behaviour.
FreeRuns == { r \in Runs : test[r] = "NONE" }
NewRun == CHOOSE r \in FreeRuns : \A q \in FreeRuns : r <= q

QueueTestIfSupported(analyzed, retest) ==
  LET blocking == {"TEST_QUEUED", "TESTING", "RETEST_REQUIRED"}
                    \cup (IF retest THEN {} ELSE {"TEST_PASSED"})
  IN /\ IF analyzed = "SUPPORTED" /\ \A r \in Runs : test[r] \notin blocking
        THEN /\ FreeRuns # {}
             /\ test' = [test EXCEPT ![NewRun] = IF retest THEN "RETEST_REQUIRED" ELSE "TEST_QUEUED"]
             /\ recent' = recent \cup {NewRun}
        ELSE UNCHANGED << test, recent >>
     /\ UNCHANGED << owner, leased, crashed, request >>

IngestDiscovery(payload) ==
  LET fields    == known \cup payload.known
      learnt    == IF "task" \in payload.known THEN payload.contract ELSE contract
      until     == IF payload.extended THEN "room" ELSE time
      retest    == analysis # "NONE" /\ learnt # contract
      supported == \/ "task" \in payload.known /\ payload.contract # "unsupported"
                   \/ payload.known # Core /\ fields = Core /\ analysis = "SUPPORTED"
      analyzed  == Analyzed(fields = Core, supported)
      onSale    == Reconciled(analyzed, fields, until)
  IN /\ known' = fields /\ contract' = learnt /\ time' = until
     /\ analysis' = analyzed
     /\ sale' = IF retest /\ onSale = "OPEN" THEN "PAUSED" ELSE onSale
     /\ QueueTestIfSupported(analyzed, retest)
     /\ UNCHANGED << priced, offered >>

-----------------------------------------------------------------------------
(* scanMonitor: the accounts that were ACTIVE at its start, one after the   *)
(* other until one has seen everything.                                     *)

MonitorFailureState(fatal, count) ==
  CASE fatal \/ count >= QuarantineAt -> "QUARANTINED"
    [] ~fatal /\ count >= CooldownAt /\ count < QuarantineAt -> "COOLDOWN"
    [] OTHER -> "ACTIVE"

\* From the row as it was read: what has become of the account since is overwritten.
MonitorFailed(m, fatal, seen) ==
  /\ mstate' = [mstate EXCEPT ![m] = MonitorFailureState(fatal, seen + 1)]
  /\ failures' = [failures EXCEPT ![m] = seen + 1]

LoadScanMonitors ==
  LET monitors == { m \in ScanMonitors : mstate[m] = "ACTIVE" } IN
  /\ spc = "idle" /\ monitors # {}
  /\ spc' = "scan" /\ slist' = monitors /\ smissing' = "unscanned"
  /\ sfailures' = [m \in Monitors |-> IF m \in monitors THEN failures[m] ELSE 0]
  /\ UNCHANGED << questVars, testVars, ghostVars, monitorVars, events, testerVars, smonitor, maintVars >>

\* What the first account leaves open is looked for on the others; a failed fetch on all.
Missing(seen) == IF smissing = "unscanned" \/ (smissing = "quest" /\ seen = "nothing")
                 THEN seen ELSE smissing
ScanGoesOn(m, missing) == slist \ {m} # {} /\ missing # "nothing"
NextMonitor(m, missing) ==
  /\ slist' = slist \ {m} /\ sfailures' = [sfailures EXCEPT ![m] = 0]
  /\ IF ScanGoesOn(m, missing) THEN spc' = "scan" /\ smissing' = missing
     ELSE spc' = "idle" /\ smissing' = "nothing"

\* The account shows the quest, or it no longer lists it.
ScanOneMonitor(m) ==
  /\ spc = "scan" /\ m \in slist
  /\ \/ \E payload \in Payloads :
          /\ Shown(payload)
          /\ IngestDiscovery(payload)
          /\ smissing' = Missing(IF payload.known = Core THEN "nothing" ELSE "quest")
     \/ /\ smissing' = IF smissing = "unscanned" THEN "nothing" ELSE smissing
        /\ UNCHANGED << questVars, testVars, events >>
  /\ spc' = "reset" /\ smonitor' = m
  /\ UNCHANGED << ghostVars, monitorVars, testerVars, slist, sfailures, maintVars >>

ResetFailures ==
  /\ spc = "reset"
  /\ failures' = [failures EXCEPT ![smonitor] = 0]
  /\ NextMonitor(smonitor, smissing) /\ smonitor' = Nothing
  /\ UNCHANGED << questVars, testVars, ghostVars, mstate, events, testerVars, maintVars >>

\* Any error counts: the account refused, the network, the database during the ingestion.
ScanFails(m) ==
  /\ spc = "scan" /\ m \in slist /\ Happens("scan")
  /\ \E fatal \in BOOLEAN : MonitorFailed(m, fatal, sfailures[m])
  /\ NextMonitor(m, Missing("fetch"))
  /\ UNCHANGED << questVars, testVars, ghostVars, testerVars, smonitor, maintVars >>

-----------------------------------------------------------------------------
(* testQuest: one run on one account, under a lease that a heartbeat        *)
(* renews.                                                                  *)

ActiveTestMonitors == { m \in TestMonitors : mstate[m] = "ACTIVE" }
Goes(w, step) == tpc' = [tpc EXCEPT ![w] = step]
GivesUp(w, error) == Goes(w, "failed") /\ terror' = [terror EXCEPT ![w] = error]
Forgets(w) ==
  /\ tpc' = [tpc EXCEPT ![w] = "idle"] /\ trun' = [trun EXCEPT ![w] = 0]
  /\ tmonitor' = [tmonitor EXCEPT ![w] = Nothing] /\ tfailures' = [tfailures EXCEPT ![w] = 0]
  /\ terror' = [terror EXCEPT ![w] = "none"] /\ tcount' = [tcount EXCEPT ![w] = 0]
  /\ tretry' = [tretry EXCEPT ![w] = FALSE] /\ checked' = checked \ {w}

AcquireTestRun(w, m, r) ==
  /\ tpc[w] = "idle" /\ m \in ActiveTestMonitors /\ test[r] = "TEST_QUEUED"
  /\ test' = [test EXCEPT ![r] = "TESTING"]
  /\ owner' = [owner EXCEPT ![r] = w] /\ leased' = leased \cup {r}
  /\ trun' = [trun EXCEPT ![w] = r] /\ tmonitor' = [tmonitor EXCEPT ![w] = m]
  /\ tfailures' = [tfailures EXCEPT ![w] = failures[m]]
  /\ Goes(w, "run")
  /\ UNCHANGED << questVars, crashed, recent, request, ghostVars, monitorVars, events,
                  terror, tcount, tretry, checked, scannerVars, maintVars >>

\* Mutant: an update of the run is not fenced.
OwnsAnything(w) == TRUE
Owns(w) ==
  LET r == trun[w] IN test[r] = "TESTING" /\ owner[r] = w /\ r \in leased

\* Nothing is sent before the quest is loaded: its contract differs, the account is done with
\* it or refused.  Any request may fail, and the heartbeat or the shutdown may interrupt.
TestErrs(w) ==
  /\ \E error \in {"contract", "account", "auth", "other"} :
       /\ \/ tpc[w] = "run" /\ error = "account" /\ tcount[w] = 0
          \/ tpc[w] = "run" /\ error = "contract" /\ ~tretry[w]    \* or: completion not confirmed
          \/ tpc[w] \in {"run", "look"} /\ error \in {"auth", "other"}
       /\ Happens("error") /\ GivesUp(w, error)
  /\ UNCHANGED << questVars, testVars, ghostVars, monitorVars, trun, tmonitor, tfailures,
                  tcount, tretry, checked, scannerVars, maintVars >>

CreateTestMutation(w) ==
  /\ tpc[w] = "run" /\ Owns(w) /\ (tretry[w] \/ tcount[w] < MaxRequests)
  /\ request' = [request EXCEPT ![trun[w]] = "PREPARED"]
  /\ tcount' = IF tretry[w] THEN tcount ELSE [tcount EXCEPT ![w] = @ + 1]
  /\ Goes(w, "prepared")
  /\ UNCHANGED << questVars, test, owner, leased, crashed, recent, ghostVars, monitorVars, events,
                  trun, tmonitor, tfailures, terror, tretry, checked, scannerVars, maintVars >>

Marking == {"prepared", "accepted", "uncertain", "verified", "ineffective"}

\* setMutationState: the ownership is looked up, without a lock.
CheckOwnership(w) ==
  /\ tpc[w] \in Marking /\ w \notin checked /\ Owns(w)
  /\ checked' = checked \cup {w}
  /\ UNCHANGED << questVars, testVars, ghostVars, monitorVars, events, tpc, trun, tmonitor, tfailures,
                  terror, tcount, tretry, scannerVars, maintVars >>

\* Then the request is marked, whoever owns the run by now.
SetMutationState(w, status) ==
  /\ w \in checked /\ checked' = checked \ {w}
  /\ request' = [request EXCEPT ![trun[w]] = status]

MarkInFlight(w) ==
  /\ tpc[w] = "prepared"
  /\ SetMutationState(w, "IN_FLIGHT") /\ Goes(w, "send")
  /\ UNCHANGED << questVars, test, owner, leased, crashed, recent, ghostVars, monitorVars, events,
                  trun, tmonitor, tfailures, terror, tcount, tretry, scannerVars, maintVars >>

\* The request: no fence here, the mark before it is the fence.
Perform(w) ==
  /\ tpc[w] = "send"
  /\ unseen' = unseen \cup {trun[w]}
  /\ \/ Goes(w, "accepted") /\ UNCHANGED events
     \/ Goes(w, "uncertain") /\ Happens("unanswered")
  /\ UNCHANGED << questVars, testVars, raced, monitorVars, trun, tmonitor, tfailures, terror, tcount,
                  tretry, checked, scannerVars, maintVars >>

RecordAnswer(w) ==
  /\ tpc[w] \in {"accepted", "uncertain"}
  /\ SetMutationState(w, IF tpc[w] = "accepted" THEN "ACCEPTED" ELSE "UNCERTAIN")
  /\ Goes(w, "look")
  /\ UNCHANGED << questVars, test, owner, leased, crashed, recent, ghostVars, monitorVars, events,
                  trun, tmonitor, tfailures, terror, tcount, tretry, scannerVars, maintVars >>

\* The quest is fetched afresh: the request has had its effect, or it is tried once more.
Look(w) ==
  /\ tpc[w] = "look"
  /\ unseen' = unseen \ {trun[w]}
  /\ \/ Goes(w, "verified") /\ UNCHANGED << events, terror >>
     \/ /\ Happens("ignored")
        /\ IF tretry[w] THEN GivesUp(w, "contract")
           ELSE Goes(w, "ineffective") /\ UNCHANGED terror
  /\ UNCHANGED << questVars, testVars, raced, monitorVars, trun, tmonitor, tfailures, tcount, tretry,
                  checked, scannerVars, maintVars >>

RecordEffect(w) ==
  /\ tpc[w] \in {"verified", "ineffective"}
  /\ SetMutationState(w, IF tpc[w] = "verified" THEN "VERIFIED" ELSE "FAILED")
  /\ tretry' = [tretry EXCEPT ![w] = (tpc[w] = "ineffective")]
  /\ Goes(w, "run")
  /\ UNCHANGED << questVars, test, owner, leased, crashed, recent, ghostVars, monitorVars, events,
                  trun, tmonitor, tfailures, terror, tcount, scannerVars, maintVars >>

Ended(r, state) ==
  /\ test' = [test EXCEPT ![r] = state] /\ owner' = [owner EXCEPT ![r] = Nothing]
  /\ leased' = leased \ {r} /\ recent' = recent \cup {r}

TestPasses(w) ==
  /\ tpc[w] = "run" /\ ~tretry[w] /\ Owns(w)
  /\ Ended(trun[w], "TEST_PASSED")
  /\ Goes(w, "passed")
  /\ UNCHANGED << questVars, crashed, request, ghostVars, monitorVars, events, trun, tmonitor,
                  tfailures, terror, tcount, tretry, checked, scannerVars, maintVars >>

ResetTestMonitor(w) ==
  /\ tpc[w] = "passed"
  /\ failures' = [failures EXCEPT ![tmonitor[w]] = 0]
  /\ Goes(w, "ingest")
  /\ UNCHANGED << questVars, testVars, ghostVars, mstate, events, trun, tmonitor, tfailures, terror,
                  tcount, tretry, checked, scannerVars, maintVars >>

IngestTestedQuest(w) ==
  /\ tpc[w] = "ingest"
  /\ \E payload \in Payloads : payload.known = Core /\ Shown(payload) /\ IngestDiscovery(payload)
  /\ Forgets(w)
  /\ UNCHANGED << ghostVars, monitorVars, scannerVars, maintVars >>

LostTest(w) ==
  /\ tpc[w] \in {"run", "failed"} \cup Marking /\ w \notin checked
  /\ ~Owns(w)
  /\ Forgets(w)
  /\ UNCHANGED << questVars, testVars, ghostVars, monitorVars, events, scannerVars, maintVars >>

-----------------------------------------------------------------------------
(* handleTestFailure: the run first, in its own transaction, then what the  *)
(* kind of error asks for.  A process that dies in between leaves it undone. *)

FinishFailedTestRun(w) ==
  /\ tpc[w] = "failed" /\ Owns(w)
  /\ Ended(trun[w], IF terror[w] = "auth" THEN "MANUAL_REVIEW" ELSE "TEST_FAILED")
  /\ IF terror[w] = "other" THEN Forgets(w)
     ELSE /\ Goes(w, "after")
          /\ UNCHANGED << trun, tmonitor, tfailures, terror, tcount, tretry, checked >>
  /\ UNCHANGED << questVars, crashed, request, ghostVars, monitorVars, events, scannerVars, maintVars >>

\* Nothing a test calls throws an error marked retryable: only a refused account counts.
UpdateMonitorForFailure(w) ==
  /\ tpc[w] = "after" /\ terror[w] = "auth"
  /\ MonitorFailed(tmonitor[w], TRUE, tfailures[w])
  /\ Forgets(w)
  /\ UNCHANGED << questVars, testVars, ghostVars, events, scannerVars, maintVars >>

\* queueAlternativeMonitorTest: one statement counts the other accounts, the next one inserts.
CountAlternatives(w) ==
  /\ tpc[w] = "after" /\ terror[w] = "account"
  /\ IF ActiveTestMonitors \ {tmonitor[w]} = {} THEN Forgets(w)
     ELSE Goes(w, "alternative")
          /\ UNCHANGED << trun, tmonitor, tfailures, terror, tcount, tretry, checked >>
  /\ UNCHANGED << questVars, testVars, ghostVars, monitorVars, events, scannerVars, maintVars >>

QueueAlternativeTest(w) ==
  /\ tpc[w] = "alternative" /\ FreeRuns # {}
  /\ test' = [test EXCEPT ![NewRun] = "TEST_QUEUED"] /\ recent' = recent \cup {NewRun}
  /\ Forgets(w)
  /\ UNCHANGED << questVars, owner, leased, crashed, request, ghostVars, monitorVars, events,
                  scannerVars, maintVars >>

Paused == IF sale = "OPEN" THEN "PAUSED" ELSE sale

PauseQuestForTestFailure(w) ==
  /\ tpc[w] = "after" /\ terror[w] = "contract"
  /\ sale' = Paused
  /\ Forgets(w)
  /\ UNCHANGED << analysis, known, contract, time, priced, offered, testVars, ghostVars, monitorVars, events,
                  scannerVars, maintVars >>

-----------------------------------------------------------------------------
(* runMaintenance: what it does for quests and monitors.                    *)

\* Mutant: a request that was answered or may have been is not taken for pending.
UncertainInFlight(r) == request[r] = "IN_FLIGHT"
Uncertain(r) == request[r] \in {"IN_FLIGHT", "ACCEPTED", "UNCERTAIN"}

\* recoverCrashedQuestTests selects from the snapshot, by the clock of the statement; a run
\* that its worker ended since is passed over.
CrashedTests == { r \in mseen : test[r] = "TESTING" /\ r \notin leased }

\* A mark the snapshot does not show, or still to come from a check that found the run owned.
MissedMark(r) ==
  /\ r \notin muncertain
  /\ Uncertain(r) \/ \E w \in checked : trun[w] = r /\ tpc[w] = "prepared"

\* The lowest free numbers, one for each crashed test that is queued again.
Requeued == { new \in FreeRuns :
  Cardinality({ r \in FreeRuns : r < new }) < Cardinality(CrashedTests \ muncertain) }

Recovered ==
  [r \in Runs |-> CASE r \in CrashedTests -> IF r \in muncertain THEN "MANUAL_REVIEW" ELSE "TEST_FAILED"
                    [] r \in Requeued -> "TEST_QUEUED"
                    [] OTHER -> test[r]]

\* A recovered test leaves a queued run or a review: then no retest is due.
RetestIsDue ==
  /\ analysis = "SUPPORTED" /\ sale # "EXPIRED" /\ recent = {}
  /\ \A r \in Runs : test[r] \notin {"TEST_QUEUED", "TESTING", "RETEST_REQUIRED", "MANUAL_REVIEW"}
  /\ \E r \in Runs : test[r] = "TEST_PASSED"

Retested == IF CrashedTests # {} THEN Recovered
            ELSE IF RetestIsDue THEN [test EXCEPT ![NewRun] = "RETEST_REQUIRED"] ELSE test

\* Mutant: a retest that no account can make leaves the quest on sale.
SaleWhileWaitingKept(waiting) == sale
SaleWhileWaiting(waiting) == IF ActiveTestMonitors = {} /\ waiting # {} THEN Paused ELSE sale

\* runTransactionalMaintenance begins: its first SELECT fixes the snapshot.
BeginMaintenance ==
  /\ mpc = "idle" /\ mpc' = "begun"
  /\ mseen' = { r \in Runs : test[r] = "TESTING" }
  /\ muncertain' = { r \in mseen' : Uncertain(r) }
  /\ UNCHANGED << questVars, testVars, ghostVars, monitorVars, events, testerVars, scannerVars, mplan >>

\* recoverCrashedQuestTests, maintainQuestRetests and maintainMonitorsAndBlocks, and the COMMIT.
TransactionalMaintenance ==
  LET retested == Retested
      waiting  == { r \in Runs : retested[r] = "RETEST_REQUIRED" }
  IN /\ mpc = "begun"
     /\ Cardinality(FreeRuns) > Cardinality(CrashedTests)
     /\ test' = [r \in Runs |-> IF ActiveTestMonitors # {} /\ r \in waiting THEN "TEST_QUEUED"
                                ELSE retested[r]]
     /\ sale' = SaleWhileWaiting(waiting)
     /\ owner' = [r \in Runs |-> IF r \in CrashedTests THEN Nothing ELSE owner[r]]
     /\ crashed' = crashed \cup CrashedTests
     /\ raced' = raced \cup { r \in CrashedTests : MissedMark(r) }
     /\ recent' = recent \cup CrashedTests \cup { r \in FreeRuns : retested[r] # "NONE" }
     /\ \E back \in SUBSET { m \in Monitors : mstate[m] = "COOLDOWN" } :   \* cooldown_until has passed
          mstate' = [m \in Monitors |-> IF m \in back THEN "ACTIVE" ELSE mstate[m]]
     /\ mpc' = "select" /\ mseen' = {} /\ muncertain' = {}
     /\ UNCHANGED << analysis, known, contract, time, priced, offered, leased, request, unseen, failures,
                     events, testerVars, scannerVars, mplan >>

\* Mutant: a quest whose time is over is left to the next discovery.
PlanForShort == IF "dates" \in known /\ time # "short" THEN "none" ELSE "PAUSED"
\* evaluateExpiryAdmission of the row that was selected.
Plan == CASE "dates" \in known /\ time = "room" -> "none"
          [] "dates" \in known /\ time = "over" -> "EXPIRED"
          [] OTHER -> "PAUSED"

SelectSellable ==
  LET plan == IF sale \in {"OPEN", "PAUSED"} THEN Plan ELSE "none" IN
  /\ mpc = "select"
  /\ mplan' = plan /\ mpc' = IF plan = "none" THEN "idle" ELSE "set"
  /\ UNCHANGED << questVars, testVars, ghostVars, monitorVars, events, testerVars, scannerVars,
                  mseen, muncertain >>

\* The row is not locked since, and only its sale_state is compared: with the new one.
SetSellable ==
  /\ mpc = "set"
  /\ sale' = mplan
  /\ analysis' = IF mplan = "EXPIRED" /\ sale # "EXPIRED" THEN "EXPIRED" ELSE analysis
  /\ mpc' = "idle" /\ mplan' = "none"
  /\ UNCHANGED << known, contract, time, priced, offered, testVars, ghostVars, monitorVars, events, testerVars,
                  scannerVars, mseen, muncertain >>

-----------------------------------------------------------------------------
(* Operators, the runner, time and the processes.                           *)

SetQuestSaleState(next) ==
  /\ next \in SaleMap[sale] /\ analysis # "NONE" /\ Happens("operator")
  /\ next = "OPEN" => CanSell(analysis, known, time)
  /\ sale' = next
  /\ analysis' = IF next = "EXPIRED" /\ analysis \in {"UNSUPPORTED", "SUPPORTED"} THEN "EXPIRED"
                 ELSE analysis
  /\ UNCHANGED << known, contract, time, priced, offered, testVars, ghostVars, monitorVars, testerVars,
                  scannerVars, maintVars >>

\* moveRunnerToManualReview: an execution met another contract.
PauseForContractFailure ==
  /\ sale = "OPEN" /\ Happens("runner")
  /\ sale' = Paused
  /\ UNCHANGED << analysis, known, contract, time, priced, offered, testVars, ghostVars, monitorVars, testerVars,
                  scannerVars, maintVars >>

PriceChanges ==
  /\ Happens("price") /\ priced' = ~priced
  /\ UNCHANGED << analysis, sale, known, contract, time, offered, testVars, ghostVars, monitorVars, testerVars,
                  scannerVars, maintVars >>

SetMonitorState(m, state) ==
  /\ mstate[m] # "NONE" /\ Happens("administrator")
  /\ mstate' = [mstate EXCEPT ![m] = state]
  /\ UNCHANGED << questVars, testVars, ghostVars, failures, testerVars, scannerVars, maintVars >>

RotateMonitorCredential(m) ==
  /\ mstate[m] # "NONE" /\ Happens("administrator")
  /\ mstate' = [mstate EXCEPT ![m] = "ACTIVE"] /\ failures' = [failures EXCEPT ![m] = 0]
  /\ UNCHANGED << questVars, testVars, ghostVars, testerVars, scannerVars, maintVars >>

AddMonitor(m) ==
  /\ mstate[m] = "NONE" /\ Happens("registered")
  /\ mstate' = [mstate EXCEPT ![m] = "ACTIVE"]
  /\ UNCHANGED << questVars, testVars, ghostVars, failures, testerVars, scannerVars, maintVars >>

\* The expiry comes closer; the queue of jobs, which the admission counts, grows and shrinks.
TimePasses ==
  /\ \/ time = "room" /\ time' = "short"
     \/ time = "short" /\ time' \in {"room", "over"}
  /\ UNCHANGED << analysis, sale, known, contract, priced, offered, testVars, ghostVars, monitorVars, events,
                  testerVars, scannerVars, maintVars >>

\* Discord gives the quest another task or target.
QuestChanges ==
  /\ offered = "first" /\ Happens("changed") /\ offered' = "second"
  /\ UNCHANGED << analysis, sale, known, contract, time, priced, testVars, ghostVars, monitorVars,
                  testerVars, scannerVars, maintVars >>

DayPasses ==
  /\ recent # {} /\ Happens("day") /\ recent' = {}
  /\ UNCHANGED << questVars, test, owner, leased, crashed, request, ghostVars, monitorVars, testerVars,
                  scannerVars, maintVars >>

\* A heartbeat renews the lease; without one it runs out.
LeaseRunsOut(r) ==
  /\ r \in leased /\ leased' = leased \ {r}
  /\ IF \E w \in Testers : trun[w] = r THEN Happens("stall") ELSE UNCHANGED events
  /\ UNCHANGED << questVars, test, owner, crashed, recent, request, ghostVars, monitorVars, testerVars,
                  scannerVars, maintVars >>

Crash(w) ==
  /\ tpc[w] # "idle" /\ Happens("crash")
  /\ Forgets(w)
  /\ UNCHANGED << questVars, testVars, ghostVars, monitorVars, scannerVars, maintVars >>

\* A pass that meets an error, or lost its runtime lease, ends where it is; a transaction
\* is refused (40001) when a run it saw was ended by its worker since.
MaintenanceFails ==
  /\ \/ mpc # "idle" /\ Happens("crash")
     \/ (\E r \in mseen : test[r] # "TESTING") /\ UNCHANGED events
  /\ mpc' = "idle" /\ mplan' = "none" /\ mseen' = {} /\ muncertain' = {}
  /\ UNCHANGED << questVars, testVars, ghostVars, monitorVars, testerVars, scannerVars >>

-----------------------------------------------------------------------------
Tests(w) ==
  \/ CreateTestMutation(w) \/ CheckOwnership(w) \/ MarkInFlight(w) \/ Perform(w) \/ RecordAnswer(w)
  \/ Look(w) \/ RecordEffect(w) \/ TestPasses(w) \/ ResetTestMonitor(w) \/ IngestTestedQuest(w)
  \/ LostTest(w) \/ FinishFailedTestRun(w) \/ UpdateMonitorForFailure(w)
  \/ CountAlternatives(w) \/ QueueAlternativeTest(w) \/ PauseQuestForTestFailure(w)

Scans == LoadScanMonitors \/ ResetFailures \/ \E m \in Monitors : ScanOneMonitor(m) \/ ScanFails(m)

Maintains == BeginMaintenance \/ TransactionalMaintenance \/ SelectSellable \/ SetSellable

Operates ==
  \/ \E next \in {"OPEN", "PAUSED", "EXPIRED"} : SetQuestSaleState(next)
  \/ \E m \in Monitors :
       \/ \E state \in {"ACTIVE", "QUARANTINED", "DISABLED"} : SetMonitorState(m, state)
       \/ RotateMonitorCredential(m) \/ AddMonitor(m)
  \/ PauseForContractFailure \/ PriceChanges

Next ==
  \/ Scans \/ Maintains \/ Operates \/ TimePasses \/ QuestChanges \/ DayPasses \/ MaintenanceFails
  \/ \E w \in Testers : Tests(w) \/ TestErrs(w) \/ Crash(w)
  \/ \E w \in Testers, m \in Monitors, r \in Runs : AcquireTestRun(w, m, r)
  \/ \E r \in Runs : LeaseRunsOut(r)

Spec == Init /\ [][Next]_vars

\* Maintenance passes, and the database answers it.
FairSpec == Spec /\ WF_vars(Maintains)
=============================================================================
