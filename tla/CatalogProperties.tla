------------------------- MODULE CatalogProperties -------------------------
(***************************************************************************)
(* What the catalog and the background tests promise.                      *)
(***************************************************************************)
EXTENDS Catalog

TestStates ==
  { "NONE", "TEST_QUEUED", "TESTING", "TEST_PASSED", "TEST_FAILED", "MANUAL_REVIEW", "RETEST_REQUIRED" }
Settled == {"TEST_PASSED", "TEST_FAILED", "MANUAL_REVIEW"}

QuestOK ==
  /\ analysis \in {"NONE", "METADATA_RETRY", "SUPPORTED", "UNSUPPORTED", "EXPIRED"}
  /\ sale \in DOMAIN SaleMap
  /\ known \subseteq Core /\ contract \in {"unknown", "first", "second", "unsupported"}
  /\ time \in {"room", "short", "over"} /\ priced \in BOOLEAN /\ offered \in {"first", "second"}

TestsOK ==
  /\ test \in [Runs -> TestStates] /\ owner \in [Runs -> Testers \cup {Nothing}]
  /\ leased \subseteq Runs /\ crashed \subseteq Runs /\ recent \subseteq Runs
  /\ unseen \subseteq Runs /\ raced \subseteq Runs
  /\ request \in [Runs -> { "NONE", "PREPARED", "IN_FLIGHT", "ACCEPTED", "UNCERTAIN", "VERIFIED",
                            "FAILED" }]

MonitorsOK ==
  /\ mstate \in [Monitors -> {"NONE", "ACTIVE", "COOLDOWN", "QUARANTINED", "DISABLED"}]
  /\ failures \in [Monitors -> Nat]

TestersOK ==
  /\ tpc \in [Testers -> { "idle", "run", "prepared", "send", "accepted", "uncertain", "look",
                           "verified", "ineffective", "passed", "ingest", "failed", "after", "alternative" }]
  /\ trun \in [Testers -> {0} \cup Runs] /\ tmonitor \in [Testers -> Monitors \cup {Nothing}]
  /\ tfailures \in [Testers -> Nat] /\ tcount \in [Testers -> 0 .. MaxRequests]
  /\ terror \in [Testers -> {"none", "contract", "account", "auth", "other"}]
  /\ tretry \in [Testers -> BOOLEAN] /\ checked \subseteq Testers

ScannerOK ==
  /\ spc \in {"idle", "scan", "reset"} /\ slist \subseteq ScanMonitors
  /\ sfailures \in [Monitors -> Nat] /\ smonitor \in Monitors \cup {Nothing}
  /\ smissing \in {"nothing", "unscanned", "quest", "fetch"}

MaintenanceOK ==
  /\ mpc \in {"idle", "begun", "select", "set"} /\ mplan \in {"none", "PAUSED", "EXPIRED"}
  /\ mseen \subseteq Runs /\ muncertain \subseteq Runs

\* Typing of quests, runs, monitors and loops: the analysis states of migration 0001 without
\* those a transaction passes through.
TypeOK ==
  /\ QuestOK /\ TestsOK /\ MonitorsOK /\ TestersOK /\ ScannerOK /\ MaintenanceOK
  /\ events \in 0 .. MaxWeight

\* What is on sale has a supported analysis: discovery, tests, maintenance and operators write
\* the two states at different moments, maintenance from a row it read before.
OpenIsSupported == sale = "OPEN" => analysis = "SUPPORTED"

\* Recovery repeats a crashed test only if none of its requests is out with an effect nobody
\* has looked up, and its worker, should it wake up, sends no more: the mark in the database
\* comes before every request (recoverCrashedQuestTests, createTestMutator).  Excepted is the
\* one mark whose transaction overlaps that of the recovery: neither locks what the other reads.
RepeatedTestLeftNothing ==
  \A r \in crashed \ raced : test[r] = "TEST_FAILED" =>
    r \notin unseen /\ \A w \in Testers : trun[w] = r => tpc[w] # "send" /\ w \notin checked

\* The verdict on a test is given once: by its worker while it holds the lease, or by recovery
\* after it lost it, never by both.
VerdictStands ==
  [][\A r \in Runs : test[r] \in Settled => test'[r] = test[r]]_vars

\* A quest whose time is over leaves the market though no account lists it any longer, unless
\* its time is extended.
OverLeavesSale == (time = "over" /\ sale = "OPEN") ~> (sale # "OPEN" \/ time # "over")

\* A quest awaiting a retest is queued for one, or pauses when no TEST monitor is there to
\* make it (test/integration/catalog-retest.test.js:13).
RetestOrPause ==
  LET waits == \E r \in Runs : test[r] = "RETEST_REQUIRED" IN (waits /\ sale = "OPEN") ~> ~(waits /\ sale = "OPEN")

\* The mark is taken for a fence: nothing of a repeated test is out, whatever overlaps.
RepeatIsFenced ==
  \A r \in crashed : test[r] = "TEST_FAILED" =>
    r \notin unseen /\ \A w \in Testers : trun[w] = r => tpc[w] # "send"

\* "The canonical allowed maps live in each domain states.js": the sale of a quest moves along
\* SALE_TRANSITIONS, an expired quest stays expired.
SaleFollowsMap == [][sale' = sale \/ sale' \in SaleMap[sale]]_vars
=============================================================================
