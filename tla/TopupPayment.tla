---------------------------- MODULE TopupPayment ----------------------------
(***************************************************************************)
(* How a voucher becomes credit: a customer submits it, a payment worker   *)
(* leases it and asks the provider to pay it out, the answer is recorded,  *)
(* what was redeemed is credited, what is in doubt goes to the owner.      *)
(* domain/payments/, workers/payment-worker.js, the top-up parts of        *)
(* workers/maintenance-worker.js, domain/reviews/service.js and            *)
(* domain/wallet/service.js; the provider as adapters/truemoney/voucher.js *)
(* sees it.                                                                *)
(*                                                                         *)
(* Every action is one committed transaction, with the local step of the   *)
(* process that ran it, or one event of the environment.  A holder is the  *)
(* lease_owner of a row whose lease is live.                               *)
(***************************************************************************)
EXTENDS Integers, FiniteSets

CONSTANTS Users, Topups, CustomerOf, Face, OwnerAmounts,   \* see VoucherCredit
          Workers,           \* the payment loops (one per process)
          MaxAttempts,       \* 3 in the code
          Crashes,           \* BOOLEAN: may a process die
          Stalls,            \* BOOLEAN: may a process sleep longer than its lease
          DatabaseErrors,    \* BOOLEAN: may a transaction fail although its checks hold
          OwnerInformed,     \* BOOLEAN: does the owner decide what the provider's app shows
          Nobody, NoTopup

ASSUME PaymentAssumption ==
  /\ IsFiniteSet(Topups)
  /\ CustomerOf \in [Topups -> Users]
  /\ Face \in [Topups -> Nat \ {0}]
  /\ OwnerAmounts \subseteq Nat \ {0}
  /\ MaxAttempts \in Nat \ { 0 }
  /\ Crashes \in BOOLEAN /\ Stalls \in BOOLEAN
  /\ DatabaseErrors \in BOOLEAN /\ OwnerInformed \in BOOLEAN
  /\ Nobody \notin Workers /\ NoTopup \notin Topups

VARIABLES
  status,       \* [Topups -> TopupState]: topups.status
  amount,       \* [Topups -> Nat]: topups.amount_cents of a redeemed voucher, 0 before
  holder,       \* [Topups -> Workers + Nobody]: topups.lease_owner while live
  token,        \* [Topups -> Nat]: topups.fencing_token (= attempt_count)
  attempt,      \* [Topups -> AttemptState]: dispatch_state of the last payment_attempts row
  review,       \* [Topups -> ReviewState]: the last manual_reviews row of the top-up
  confirmed,    \* SUBSET Topups: review_decisions rows CREDIT
  balance,      \* [Users -> Nat]: wallets.available_cents
  spent,        \* [Users -> Nat]: what the customers put into orders
  breaker,      \* circuit_breakers.state of TRUEMONEY_DIRECT
  autoCredit,   \* BOOLEAN: the gate AUTO_CREDIT_ENABLED
  incident,     \* BOOLEAN: an unresolved PROVIDER_SCHEMA_CHANGED incident
  atProvider,   \* SUBSET Topups: requests the provider has and may still act on
  paid,         \* SUBSET Topups: vouchers the provider paid to the shop
  inDoubt,      \* SUBSET Topups: a request is out and no worker has read a definite answer
  wpc, wtopup, wtoken, wprobe, wauto, wresult   \* the payment loops, in memory

rowVars    == << status, amount, holder, token >>
reviewVars == << review, confirmed >>
walletVars == << balance, spent >>
gateVars   == << breaker, autoCredit, incident >>
worldVars  == << atProvider, paid, inDoubt >>
loopVars   == << wpc, wtopup, wtoken, wprobe, wauto, wresult >>
tables     == << rowVars, attempt, reviewVars, walletVars, gateVars >>
vars       == << tables, worldVars, loopVars >>

-----------------------------------------------------------------------------
(* States and values *)

Refusals == { "INVALID", "EXPIRED", "ALREADY_REDEEMED" }
RefusedStates == Refusals \cup { "FAILED", "REJECTED" }
FinalStates == RefusedStates \cup { "CREDITED", "REVERSED" }

\* domain/payments/states.js TOPUP_TRANSITIONS
TopupTransitions ==
  [ RECEIVED         |-> { "VALIDATING" },
    VALIDATING       |-> { "PAYMENT_QUEUED", "INVALID", "FAILED" },
    PAYMENT_QUEUED   |-> { "PROCESSING" },
    PROCESSING       |-> { "REDEEMED", "AMBIGUOUS", "RETRY_WAIT", "FAILED" } \cup Refusals,
    RETRY_WAIT       |-> { "PAYMENT_QUEUED", "FAILED" },
    AMBIGUOUS        |-> { "MANUAL_REVIEW" },
    MANUAL_REVIEW    |-> { "REDEEMED", "CREDITED", "REJECTED", "FAILED" },
    REDEEMED         |-> { "CREDITED", "MANUAL_REVIEW" },
    CREDITED         |-> { "REVERSED" },
    INVALID          |-> {},
    EXPIRED          |-> {},
    ALREADY_REDEEMED |-> {},
    FAILED           |-> {},
    REJECTED         |-> {},
    REVERSED         |-> {} ]

NotSubmitted == "NOT_SUBMITTED"
TopupState == DOMAIN TopupTransitions \cup { NotSubmitted }
AttemptState == { "NONE", "INTENT_RECORDED", "POSSIBLY_SENT", "VERIFIED", "FAILED", "AMBIGUOUS" }
ReviewState == { "NONE", "OPEN", "RESOLVED" }
BreakerState == { "CLOSED", "OPEN", "HALF_OPEN" }
WorkerStep == { "idle", "pending", "acquiring", "acquired", "attempted", "sent", "answered",
                "recorded", "crediting", "thrown", "containing", "reporting", "failing" }
BeforeAnswer == { "idle", "pending", "acquiring", "acquired", "attempted", "sent" }
\* What a pass has to record: an outcome of the provider, or the kind of the error thrown.
ErrorKind == { "SCHEMA", "LOST", "NOT_SENT", "OTHER" }
Result == { "NOTHING", "REDEEMED", "AMBIGUOUS", "RETRY_WAIT", "FAILED" } \cup Refusals \cup ErrorKind

MayMove(from, to) == from \in DOMAIN TopupTransitions /\ to \in TopupTransitions[from]

RowsOK ==
  /\ status \in [Topups -> TopupState] /\ amount \in [Topups -> Nat]
  /\ holder \in [Topups -> Workers \cup { Nobody }] /\ token \in [Topups -> Nat]
  /\ attempt \in [Topups -> AttemptState]
  /\ review \in [Topups -> ReviewState] /\ confirmed \in SUBSET Topups

MoneyOK == balance \in [Users -> Nat] /\ spent \in [Users -> Nat]

WorldOK ==
  /\ breaker \in BreakerState /\ autoCredit \in BOOLEAN /\ incident \in BOOLEAN
  /\ atProvider \in SUBSET Topups /\ paid \in SUBSET Topups /\ inDoubt \in SUBSET Topups

LoopsOK ==
  /\ wpc \in [Workers -> WorkerStep]
  /\ wtopup \in [Workers -> Topups \cup { NoTopup }] /\ wtoken \in [Workers -> Nat]
  /\ wprobe \in [Workers -> BOOLEAN] /\ wauto \in [Workers -> BOOLEAN]
  /\ wresult \in [Workers -> Result]
  /\ \A w \in Workers :
       /\ wpc[w] \notin { "idle", "acquiring" } => wtopup[w] \in Topups
       /\ wpc[w] \in BeforeAnswer => wresult[w] = "NOTHING"

\* Every row and variable stays in the values the schema and the code know; no reversal
\* makes a balance negative, and a loop has the voucher its step works on and no answer
\* before it asked.
TypeOK == RowsOK /\ MoneyOK /\ WorldOK /\ LoopsOK

Init ==
  /\ status = [t \in Topups |-> NotSubmitted] /\ amount = [t \in Topups |-> 0]
  /\ holder = [t \in Topups |-> Nobody] /\ token = [t \in Topups |-> 0]
  /\ attempt = [t \in Topups |-> "NONE"]
  /\ review = [t \in Topups |-> "NONE"] /\ confirmed = {}
  /\ balance = [u \in Users |-> 0] /\ spent = [u \in Users |-> 0]
  /\ breaker = "CLOSED" /\ autoCredit \in BOOLEAN /\ incident = FALSE
  /\ atProvider = {} /\ paid = {} /\ inDoubt = {}
  /\ wpc = [w \in Workers |-> "idle"] /\ wtopup = [w \in Workers |-> NoTopup]
  /\ wtoken = [w \in Workers |-> 0]
  /\ wprobe = [w \in Workers |-> FALSE] /\ wauto = [w \in Workers |-> FALSE]
  /\ wresult = [w \in Workers |-> "NOTHING"]

-----------------------------------------------------------------------------
(* Shared parts.  A definition marked Mutant is not part of the model: it is *)
(* what a bug would make of the definition it precedes.                      *)

\* lease_owner = w AND fencing_token = its token AND lease_expires_at > now
Owns(w) ==
  /\ wpc[w] \notin { "idle", "pending", "acquiring" }
  /\ holder[wtopup[w]] = w
  /\ token[wtopup[w]] = wtoken[w]

Step(w, next) ==
  wpc' = [wpc EXCEPT ![w] = next] /\ UNCHANGED << wtopup, wtoken, wprobe, wauto, wresult >>

StepWith(w, next, result) ==
  /\ wpc' = [wpc EXCEPT ![w] = next]
  /\ wresult' = [wresult EXCEPT ![w] = result]
  /\ UNCHANGED << wtopup, wtoken, wprobe, wauto >>

\* The loop starts over; what the pass had in memory is gone.
Restart(w) ==
  /\ wpc' = [wpc EXCEPT ![w] = "idle"]
  /\ wtopup' = [wtopup EXCEPT ![w] = NoTopup]
  /\ wtoken' = [wtoken EXCEPT ![w] = 0]
  /\ wprobe' = [wprobe EXCEPT ![w] = FALSE]
  /\ wauto' = [wauto EXCEPT ![w] = FALSE]
  /\ wresult' = [wresult EXCEPT ![w] = "NOTHING"]

\* Mutant: a lost answer is treated like a request that never left.
FailureResultRetryingLost(kind, n) ==
  IF kind = "SCHEMA" THEN "AMBIGUOUS"
  ELSE IF kind \in { "NOT_SENT", "LOST" } /\ n < MaxAttempts THEN "RETRY_WAIT" ELSE "FAILED"

\* Mutant: a lost answer counts as a failure.
FailureResultForgettingLost(kind, n) ==
  IF kind = "SCHEMA" THEN "AMBIGUOUS"
  ELSE IF kind = "NOT_SENT" /\ n < MaxAttempts THEN "RETRY_WAIT" ELSE "FAILED"

\* Mutant: one attempt too many.
FailureResultOnceMore(kind, n) ==
  IF kind \in { "SCHEMA", "LOST" } THEN "AMBIGUOUS"
  ELSE IF kind = "NOT_SENT" /\ n <= MaxAttempts THEN "RETRY_WAIT" ELSE "FAILED"

\* failureResult: the outcome recorded for an error, n being the attempt's number.
FailureResult(kind, n) ==
  IF kind \in { "SCHEMA", "LOST" } THEN "AMBIGUOUS"
  ELSE IF kind = "NOT_SENT" /\ n < MaxAttempts THEN "RETRY_WAIT" ELSE "FAILED"

PaymentAttemptState(next) ==
  CASE next = "REDEEMED" -> "VERIFIED" [] next = "AMBIGUOUS" -> "AMBIGUOUS" [] OTHER -> "FAILED"

OpenReview(S) == review' = [t \in Topups |-> IF t \in S THEN "OPEN" ELSE review[t]]

\* Mutant: the lease outlives the result.
RecordKeepingLease(w, next) ==
  LET t == wtopup[w] IN
  /\ Owns(w)
  /\ MayMove(status[t], next)
  /\ attempt' = [attempt EXCEPT ![t] = PaymentAttemptState(next)]
  /\ status' = [status EXCEPT ![t] = IF next = "AMBIGUOUS" THEN "MANUAL_REVIEW" ELSE next]
  /\ amount' = [amount EXCEPT ![t] = IF next = "REDEEMED" THEN Face[t] ELSE 0]
  /\ IF next = "AMBIGUOUS" THEN OpenReview({ t }) ELSE UNCHANGED review
  /\ UNCHANGED << holder, token, confirmed >>

\* recordProviderResult; AMBIGUOUS moves on to MANUAL_REVIEW in the same transaction.
Record(w, next) ==
  LET t == wtopup[w] IN
  /\ Owns(w)
  /\ MayMove(status[t], next)
  /\ attempt' = [attempt EXCEPT ![t] = PaymentAttemptState(next)]
  /\ status' = [status EXCEPT ![t] = IF next = "AMBIGUOUS" THEN "MANUAL_REVIEW" ELSE next]
  /\ amount' = [amount EXCEPT ![t] = IF next = "REDEEMED" THEN Face[t] ELSE 0]
  /\ holder' = [holder EXCEPT ![t] = Nobody]
  /\ IF next = "AMBIGUOUS" THEN OpenReview({ t }) ELSE UNCHANGED review
  /\ UNCHANGED << token, confirmed >>

\* The wallet and the row of a voucher credited with amount a.
Credit(t, a) ==
  /\ status' = [status EXCEPT ![t] = "CREDITED"]
  /\ amount' = [amount EXCEPT ![t] = a]
  /\ holder' = [holder EXCEPT ![t] = Nobody]
  /\ balance' = [balance EXCEPT ![CustomerOf[t]] = @ + a]
  /\ UNCHANGED << token, spent >>

\* Mutant: the row is not locked and looked at again before the credit.
CreditUnchecked(t) == amount[t] # 0 /\ Credit(t, amount[t])

\* creditRedeemedTopup; a voucher already CREDITED is returned as it is.
CreditRedeemedTopup(t) ==
  \/ status[t] = "CREDITED" /\ UNCHANGED << rowVars, walletVars >>
  \/ MayMove(status[t], "CREDITED") /\ amount[t] # 0 /\ Credit(t, amount[t])

\* assertTransition throws: somebody credited and reversed the voucher.
CannotCredit(t) == status[t] # "CREDITED" /\ ~MayMove(status[t], "CREDITED")

-----------------------------------------------------------------------------
(* The customer *)

\* submitVoucher: RECEIVED, VALIDATING and PAYMENT_QUEUED in one transaction.  The HMAC of
\* the voucher is unique: submitting it again returns the row there is.
SubmitVoucher(t) ==
  /\ status[t] = NotSubmitted
  /\ status' = [status EXCEPT ![t] = "PAYMENT_QUEUED"]
  /\ UNCHANGED << amount, holder, token, attempt, reviewVars, walletVars, gateVars,
                  worldVars, loopVars >>

\* External: an order reserves its price (module Fulfilment).
Spend(u, x) ==
  /\ x \in 1..balance[u]
  /\ balance' = [balance EXCEPT ![u] = @ - x]
  /\ spent' = [spent EXCEPT ![u] = @ + x]
  /\ UNCHANGED << rowVars, attempt, reviewVars, gateVars, worldVars, loopVars >>

-----------------------------------------------------------------------------
(* The payment loop: processPayment *)

Redeemed == { t \in Topups : status[t] = "REDEEMED" }
Queued == { t \in Topups : status[t] = "PAYMENT_QUEUED" }

\* The gate is read, then the redemptions waiting for their credit.
PickPendingRedemption(w) ==
  /\ wpc[w] = "idle" /\ autoCredit
  /\ \E t \in Redeemed : wtopup' = [wtopup EXCEPT ![w] = t]
  /\ wpc' = [wpc EXCEPT ![w] = "pending"]
  /\ UNCHANGED << wtoken, wprobe, wauto, wresult, tables, worldVars >>

CreditPendingRedemption(w) ==
  /\ wpc[w] = "pending"
  /\ \/ CreditRedeemedTopup(wtopup[w])
     \/ CannotCredit(wtopup[w]) /\ UNCHANGED << rowVars, walletVars >>
  /\ Restart(w)
  /\ UNCHANGED << attempt, reviewVars, gateVars, worldVars >>

\* Nothing to credit: the circuit breaker is read, an OPEN one ends the pass.
ReadBreaker(w) ==
  /\ wpc[w] = "idle" /\ (autoCredit => Redeemed = {})
  /\ breaker # "OPEN"
  /\ wpc' = [wpc EXCEPT ![w] = "acquiring"]
  /\ wprobe' = [wprobe EXCEPT ![w] = (breaker = "HALF_OPEN")]
  /\ wauto' = [wauto EXCEPT ![w] = autoCredit]
  /\ UNCHANGED << wtopup, wtoken, wresult, tables, worldVars >>

AcquirePaymentJob(w, t) ==
  /\ wpc[w] = "acquiring" /\ t \in Queued
  /\ status' = [status EXCEPT ![t] = "PROCESSING"]
  /\ holder' = [holder EXCEPT ![t] = w]
  /\ token' = [token EXCEPT ![t] = @ + 1]
  /\ wpc' = [wpc EXCEPT ![w] = "acquired"]
  /\ wtopup' = [wtopup EXCEPT ![w] = t]
  /\ wtoken' = [wtoken EXCEPT ![w] = token[t] + 1]
  /\ UNCHANGED << amount, attempt, reviewVars, walletVars, gateVars, worldVars,
                  wprobe, wauto, wresult >>

QueueIsEmpty(w) ==
  /\ wpc[w] = "acquiring" /\ Queued = {}
  /\ Restart(w)
  /\ UNCHANGED << tables, worldVars >>

\* Not fenced: a row of its own for each attempt number.
CreatePaymentAttempt(w) ==
  /\ wpc[w] = "acquired"
  /\ attempt' = [attempt EXCEPT ![wtopup[w]] = "INTENT_RECORDED"]
  /\ Step(w, "attempted")
  /\ UNCHANGED << rowVars, reviewVars, walletVars, gateVars, worldVars >>

-----------------------------------------------------------------------------
(* redeemVoucher: the exchange with the provider *)

\* The request leaves the process ("finish").
SendRequest(w) ==
  /\ wpc[w] = "attempted"
  /\ atProvider' = atProvider \cup { wtopup[w] }
  /\ inDoubt' = inDoubt \cup { wtopup[w] }
  /\ Step(w, "sent")
  /\ UNCHANGED << tables, paid >>

\* It never leaves: a transport error or an abort (retryable), or the secrets cannot be read.
RequestNotSent(w) ==
  /\ wpc[w] = "attempted"
  /\ \E kind \in { "NOT_SENT", "OTHER" } : StepWith(w, "thrown", kind)
  /\ UNCHANGED << tables, worldVars >>

\* markPaymentPossiblySent, started when the request has left and awaited by the answer.
MarkPaymentPossiblySent(w) ==
  /\ wpc[w] = "sent" /\ attempt[wtopup[w]] = "INTENT_RECORDED"
  /\ attempt' = [attempt EXCEPT ![wtopup[w]] = "POSSIBLY_SENT"]
  /\ UNCHANGED << rowVars, reviewVars, walletVars, gateVars, worldVars, loopVars >>

\* External: the provider pays or does not, whether or not anybody still waits for it.
ProviderDecides(t) ==
  /\ t \in atProvider
  /\ atProvider' = atProvider \ { t }
  /\ paid' = paid \cup { t } \/ UNCHANGED paid
  /\ UNCHANGED << tables, inDoubt, loopVars >>

\* SUCCESS, with the transaction id or (AMBIGUOUS) without it.
AnswerSuccess(w) ==
  LET t == wtopup[w] IN
  /\ wpc[w] = "sent" /\ attempt[t] # "INTENT_RECORDED"
  /\ t \in paid
  /\ \/ StepWith(w, "answered", "REDEEMED") /\ inDoubt' = inDoubt \ { t }
     \/ StepWith(w, "answered", "AMBIGUOUS") /\ UNCHANGED inDoubt
  /\ UNCHANGED << tables, atProvider, paid >>

\* The provider refuses the voucher, or (RATE_LIMIT) the request; nothing is paid.
AnswerRefused(w) ==
  LET t == wtopup[w] IN
  /\ wpc[w] = "sent" /\ attempt[t] # "INTENT_RECORDED"
  /\ t \notin atProvider \cup paid
  /\ \E r \in Refusals \cup { IF wtoken[w] < MaxAttempts THEN "RETRY_WAIT" ELSE "FAILED" } :
       StepWith(w, "answered", r)
  /\ inDoubt' = inDoubt \ { t }
  /\ UNCHANGED << tables, atProvider, paid >>

\* A code nobody knows, or an answer that does not parse or lacks the confirmation.
AnswerUnclear(w) ==
  /\ wpc[w] = "sent" /\ attempt[wtopup[w]] # "INTENT_RECORDED"
  /\ StepWith(w, "answered", "AMBIGUOUS") \/ StepWith(w, "thrown", "SCHEMA")
  /\ UNCHANGED << tables, worldVars >>

\* A timeout, an abort or a connection error after the request has left, or its checkpoint
\* failed.
AnswerLost(w) ==
  /\ wpc[w] = "sent"
  /\ StepWith(w, "thrown", "LOST")
  /\ UNCHANGED << tables, worldVars >>

-----------------------------------------------------------------------------
(* The rest of processClaimedPayment *)

RecordProviderResult(w) ==
  /\ wpc[w] = "answered"
  /\ Record(w, wresult[w])
  /\ Step(w, "recorded")
  /\ UNCHANGED << walletVars, gateVars, worldVars >>

\* The lease is lost, or the transaction fails: the error goes to the catch block.
RecordThrows(w) ==
  /\ wpc[w] = "answered"
  /\ ~Owns(w) \/ DatabaseErrors
  /\ StepWith(w, "thrown", "OTHER")
  /\ UNCHANGED << tables, worldVars >>

CloseSuccessfulProbe(w) ==
  /\ wpc[w] = "recorded"
  /\ breaker' = IF wprobe[w] /\ breaker = "HALF_OPEN" THEN "CLOSED" ELSE breaker
  /\ IF wresult[w] = "REDEEMED" /\ wauto[w] THEN Step(w, "crediting") ELSE Restart(w)
  /\ UNCHANGED << autoCredit, incident, rowVars, attempt, reviewVars, walletVars, worldVars >>

CreditRecorded(w) ==
  /\ wpc[w] = "crediting"
  /\ CreditRedeemedTopup(wtopup[w])
  /\ Restart(w)
  /\ UNCHANGED << attempt, reviewVars, gateVars, worldVars >>

\* The catch block covers the steps after the record, too.
LaterStepThrows(w) ==
  /\ \/ DatabaseErrors /\ wpc[w] \in { "recorded", "crediting" }
     \/ wpc[w] = "crediting" /\ CannotCredit(wtopup[w])
  /\ StepWith(w, "thrown", "OTHER")
  /\ UNCHANGED << tables, worldVars >>

\* openCircuit, the breaker; a failed probe opens it only while it is HALF_OPEN.
OpenCircuit(w) ==
  LET schemaFailure == wresult[w] = "SCHEMA" IN
  /\ wpc[w] = "thrown"
  /\ breaker' = IF IF wprobe[w] THEN breaker = "HALF_OPEN" ELSE schemaFailure
                THEN "OPEN" ELSE breaker
  /\ Step(w, IF schemaFailure THEN "containing" ELSE "failing")
  /\ UNCHANGED << autoCredit, incident, rowVars, attempt, reviewVars, walletVars, worldVars >>

\* openCircuit, the gate.
ContainSchemaFailure(w) ==
  /\ wpc[w] = "containing"
  /\ autoCredit' = FALSE
  /\ Step(w, "reporting")
  /\ UNCHANGED << breaker, incident, rowVars, attempt, reviewVars, walletVars, worldVars >>

\* openCircuit, the incident.  The INSERT has no ON CONFLICT clause: with an unresolved
\* incident there (nothing resolves it) it throws, and the pass ends.
ReportSchemaFailure(w) ==
  /\ wpc[w] = "reporting"
  /\ incident' = TRUE
  /\ IF incident THEN Restart(w) ELSE Step(w, "failing")
  /\ UNCHANGED << breaker, autoCredit, rowVars, attempt, reviewVars, walletVars, worldVars >>

\* The outcome of the error is recorded; an error in that is swallowed.
RecordFailure(w) ==
  /\ wpc[w] = "failing"
  /\ \/ Record(w, FailureResult(wresult[w], wtoken[w]))
     \/ (~Owns(w) \/ DatabaseErrors) /\ UNCHANGED << rowVars, attempt, reviewVars >>
  /\ Restart(w)
  /\ UNCHANGED << walletVars, gateVars, worldVars >>

\* The process ends, or an error before the try block ends the pass.
Crash(w) ==
  /\ Crashes
  /\ wpc[w] # "idle"
  /\ Restart(w)
  /\ UNCHANGED << tables, worldVars >>

PaymentStep(w) ==
  \/ PickPendingRedemption(w) \/ CreditPendingRedemption(w)
  \/ ReadBreaker(w) \/ (\E t \in Topups : AcquirePaymentJob(w, t)) \/ QueueIsEmpty(w)
  \/ CreatePaymentAttempt(w) \/ SendRequest(w) \/ RequestNotSent(w)
  \/ MarkPaymentPossiblySent(w)
  \/ AnswerSuccess(w) \/ AnswerRefused(w) \/ AnswerUnclear(w) \/ AnswerLost(w)
  \/ RecordProviderResult(w) \/ RecordThrows(w)
  \/ CloseSuccessfulProbe(w) \/ CreditRecorded(w) \/ LaterStepThrows(w)
  \/ OpenCircuit(w) \/ ContainSchemaFailure(w) \/ ReportSchemaFailure(w)
  \/ RecordFailure(w)

-----------------------------------------------------------------------------
(* Time and maintenance *)

\* A worker at work renews its lease every 10 seconds of the 30 it lasts.
Renewing(t) == \E w \in Workers : Owns(w) /\ wtopup[w] = t

LeaseExpires(t) ==
  /\ holder[t] # Nobody
  /\ Stalls \/ ~Renewing(t)
  /\ holder' = [holder EXCEPT ![t] = Nobody]
  /\ UNCHANGED << status, amount, token, attempt, reviewVars, walletVars, gateVars,
                  worldVars, loopVars >>

\* Mutant: the owner is not told.
RecoverSilently(due) ==
  LET crashed == { t \in Topups : status[t] = "PROCESSING" /\ holder[t] = Nobody } IN
  /\ due \subseteq { t \in Topups : status[t] = "RETRY_WAIT" }
  /\ crashed \cup due # {}
  /\ status' = [t \in Topups |-> IF t \in crashed THEN "MANUAL_REVIEW"
                                 ELSE IF t \in due THEN "PAYMENT_QUEUED" ELSE status[t]]
  /\ UNCHANGED << amount, holder, token, attempt, reviewVars, walletVars, gateVars, worldVars,
                  loopVars >>

\* Mutant: waiting vouchers are never queued again.
RecoverCrashedOnly(due) ==
  LET crashed == { t \in Topups : status[t] = "PROCESSING" /\ holder[t] = Nobody } IN
  /\ due = {} /\ crashed # {}
  /\ status' = [t \in Topups |-> IF t \in crashed THEN "MANUAL_REVIEW" ELSE status[t]]
  /\ OpenReview(crashed)
  /\ UNCHANGED << amount, holder, token, attempt, confirmed, walletVars, gateVars, worldVars,
                  loopVars >>

\* recoverCrashedPayments: a lease that ran out means a request that may be out; due are the
\* waiting vouchers whose backoff is over.
RecoverCrashedPayments(due) ==
  LET crashed == { t \in Topups : status[t] = "PROCESSING" /\ holder[t] = Nobody } IN
  /\ due \subseteq { t \in Topups : status[t] = "RETRY_WAIT" }
  /\ crashed \cup due # {}
  /\ status' = [t \in Topups |-> IF t \in crashed THEN "MANUAL_REVIEW"
                                 ELSE IF t \in due THEN "PAYMENT_QUEUED" ELSE status[t]]
  /\ OpenReview(crashed)
  /\ UNCHANGED << amount, holder, token, attempt, confirmed, walletVars, gateVars, worldVars,
                  loopVars >>

-----------------------------------------------------------------------------
(* The owner: applyTopupDecision, setCircuitBreakerState, the gate, reverseTopup *)

\* applyTopupDecision applies to an unresolved review of a voucher in MANUAL_REVIEW.
Decide(t) ==
  /\ review[t] = "OPEN" /\ status[t] = "MANUAL_REVIEW"
  /\ review' = [review EXCEPT ![t] = "RESOLVED"]
  /\ UNCHANGED << attempt, gateVars, worldVars, loopVars >>

\* REDEEMED and CREDITED in one transaction; the amount is the owner's or, if he names
\* none, the one the row has.
DecideCredit(t) ==
  /\ Decide(t)
  /\ OwnerInformed => t \in paid
  /\ \E a \in OwnerAmounts : Credit(t, a)
  /\ confirmed' = confirmed \cup { t }

DecideReject(t) ==
  /\ Decide(t)
  /\ OwnerInformed => t \notin atProvider \cup paid
  /\ status' = [status EXCEPT ![t] = "REJECTED"]
  /\ UNCHANGED << amount, holder, token, confirmed, walletVars >>

SetCircuitBreakerState(next) ==
  /\ next \in { "HALF_OPEN", "CLOSED" } /\ breaker # next
  /\ breaker' = next
  /\ UNCHANGED << autoCredit, incident, rowVars, attempt, reviewVars, walletVars, worldVars,
                  loopVars >>

SetAutoCredit(enabled) ==
  /\ autoCredit # enabled
  /\ autoCredit' = enabled
  /\ UNCHANGED << breaker, incident, rowVars, attempt, reviewVars, walletVars, worldVars,
                  loopVars >>

\* Mutant: the balance is not compared with the credit.
ReverseUncovered(t) ==
  /\ MayMove(status[t], "REVERSED")
  /\ status' = [status EXCEPT ![t] = "REVERSED"]
  /\ balance' = [balance EXCEPT ![CustomerOf[t]] = @ - amount[t]]
  /\ UNCHANGED << review, amount, holder, token, spent, attempt, confirmed, gateVars,
                  worldVars, loopVars >>

\* Without enough balance nothing is taken back and a review is opened.
ReverseTopup(t) ==
  /\ MayMove(status[t], "REVERSED")
  /\ IF balance[CustomerOf[t]] >= amount[t]
     THEN /\ status' = [status EXCEPT ![t] = "REVERSED"]
          /\ balance' = [balance EXCEPT ![CustomerOf[t]] = @ - amount[t]]
          /\ UNCHANGED review
     ELSE OpenReview({ t }) /\ UNCHANGED << status, balance >>
  /\ UNCHANGED << amount, holder, token, spent, attempt, confirmed, gateVars, worldVars,
                  loopVars >>

OwnerStep ==
  \/ \E t \in Topups : DecideCredit(t) \/ DecideReject(t) \/ ReverseTopup(t)
  \/ \E next \in BreakerState : SetCircuitBreakerState(next)
  \/ \E enabled \in BOOLEAN : SetAutoCredit(enabled)

-----------------------------------------------------------------------------
Next ==
  \/ \E t \in Topups : SubmitVoucher(t) \/ ProviderDecides(t) \/ LeaseExpires(t)
  \/ \E u \in Users : \E x \in 1..balance[u] : Spend(u, x)
  \/ \E w \in Workers : PaymentStep(w) \/ Crash(w)
  \/ \E due \in SUBSET Topups : RecoverCrashedPayments(due)
  \/ OwnerStep

Spec == Init /\ [][Next]_vars

(***************************************************************************)
(* Fairness: the payment loop keeps stepping (worker-manager.js restarts a *)
(* failed iteration) and not every pass dies before it has claimed a       *)
(* voucher or credited one; an exchange ends (timeout 15 s); an unrenewed  *)
(* lease runs out and the maintenance loop passes again and again, also    *)
(* after the backoff; and the owner sets an open breaker to HALF_OPEN or   *)
(* CLOSED and settles the reviews he is shown.                             *)
(***************************************************************************)
Fairness ==
  /\ \A w \in Workers : WF_vars(PaymentStep(w))
  /\ \A t \in Topups : /\ SF_vars(\E w \in Workers : AcquirePaymentJob(w, t))
                        /\ SF_vars(\E w \in Workers : PickPendingRedemption(w) /\ wtopup'[w] = t)
                        /\ SF_vars(\E w \in Workers : wtopup[w] = t /\ CreditPendingRedemption(w))
                        /\ WF_vars(LeaseExpires(t) /\ ~Renewing(t))
                        /\ WF_vars(ProviderDecides(t))
                        /\ SF_vars(DecideCredit(t) \/ DecideReject(t))
  /\ WF_vars(RecoverCrashedPayments({ t \in Topups : status[t] = "RETRY_WAIT" }))
  /\ WF_vars(breaker = "OPEN" /\ \E next \in BreakerState : SetCircuitBreakerState(next))

FairSpec == Spec /\ Fairness
=============================================================================
