---------------------------- MODULE TopupProofs ----------------------------
(***************************************************************************)
(* Theorems about TopupPayment, for every value of its constants: type     *)
(* correctness, the safety invariants of TopupProperties, and that every   *)
(* step is one VoucherCredit allows.                                       *)
(***************************************************************************)
EXTENDS TopupProperties, SumLemmas

USE DEF rowVars, reviewVars, walletVars, gateVars, worldVars, loopVars, tables

-----------------------------------------------------------------------------
(* Type correctness *)

\* The states the handlers write are states of the map.
LEMMA TopupStates ==
  /\ { "PAYMENT_QUEUED", "PROCESSING", "MANUAL_REVIEW", "REDEEMED", "CREDITED", "REVERSED",
       "REJECTED", "FAILED", "RETRY_WAIT", NotSubmitted } \subseteq TopupState
  /\ Refusals \subseteq TopupState
BY DEF TopupState, TopupTransitions, Refusals, NotSubmitted

\* What the map says of the moves the proofs need.
LEMMA Moves ==
  /\ \A from, to : MayMove(from, to) => to \in TopupState
  /\ \A from : MayMove(from, "CREDITED") => from \in { "MANUAL_REVIEW", "REDEEMED" }
  /\ \A from : MayMove(from, "REVERSED") => from = "CREDITED"
  /\ \A to : MayMove("PROCESSING", to) =>
       to \in { "REDEEMED", "AMBIGUOUS", "RETRY_WAIT", "FAILED" } \cup Refusals
  /\ \A from : ~MayMove(from, NotSubmitted)
BY DEF MayMove, TopupState, TopupTransitions, Refusals, NotSubmitted

\* The empty database is well typed.
LEMMA TypeInit == Init => TypeOK
<1> SUFFICES ASSUME Init PROVE TypeOK
  OBVIOUS
<1>1. RowsOK /\ MoneyOK /\ WorldOK
  BY TopupStates DEF Init, RowsOK, MoneyOK, WorldOK, AttemptState, ReviewState, BreakerState
<1>2. LoopsOK
  BY DEF Init, LoopsOK, WorkerStep, Result
<1> QED BY <1>1, <1>2 DEF TypeOK

\* A loop that goes on, with or without a result, keeps a well typed memory.
LEMMA StepType ==
  ASSUME NEW w \in Workers, NEW s \in WorkerStep \ BeforeAnswer, LoopsOK,
         wpc[w] \notin { "idle", "acquiring" },
         Step(w, s) \/ \E r \in Result : StepWith(w, s, r)
  PROVE LoopsOK'
BY DEF Step, StepWith, LoopsOK, WorkerStep, BeforeAnswer

\* A loop that starts over keeps a well typed memory.
LEMMA RestartType ==
  ASSUME NEW w \in Workers, LoopsOK, Restart(w)
  PROVE LoopsOK'
BY DEF Restart, LoopsOK, WorkerStep, Result

\* recordProviderResult keeps the rows well typed.
LEMMA RecordType ==
  ASSUME NEW w \in Workers, NEW r, RowsOK, wtopup[w] \in Topups, Record(w, r)
  PROVE RowsOK'
<1>1. Face[wtopup[w]] \in Nat
  BY PaymentAssumption
<1>2. (IF r = "AMBIGUOUS" THEN "MANUAL_REVIEW" ELSE r) \in TopupState
  BY Moves, TopupStates DEF Record
<1>3. PaymentAttemptState(r) \in AttemptState
  BY DEF PaymentAttemptState, AttemptState
<1> QED BY <1>1, <1>2, <1>3 DEF Record, RowsOK, OpenReview, ReviewState

\* So does a credit, which adds to the wallet.
LEMMA CreditType ==
  ASSUME NEW t \in Topups, NEW a \in Nat, RowsOK, MoneyOK, Credit(t, a),
         attempt' = attempt, review' \in [Topups -> ReviewState],
         confirmed' \in SUBSET Topups
  PROVE RowsOK' /\ MoneyOK'
<1>1. CustomerOf[t] \in Users
  BY PaymentAssumption
<1>2. MoneyOK'
  BY <1>1 DEF Credit, MoneyOK
<1>3. RowsOK'
  BY TopupStates DEF Credit, RowsOK
<1> QED BY <1>2, <1>3

\* creditRedeemedTopup credits what the row says.
LEMMA CreditRedeemedType ==
  ASSUME NEW t \in Topups, RowsOK, MoneyOK, UNCHANGED << attempt, review, confirmed >>,
         CreditRedeemedTopup(t) \/ UNCHANGED << rowVars, walletVars >>
  PROVE RowsOK' /\ MoneyOK'
<1>1. CASE UNCHANGED << rowVars, walletVars >>
  BY <1>1 DEF RowsOK, MoneyOK
<1>2. CASE Credit(t, amount[t])
  <2>1. amount[t] \in Nat
    BY DEF RowsOK
  <2> QED BY <1>2, <2>1, CreditType DEF RowsOK
<1> QED BY <1>1, <1>2 DEF CreditRedeemedTopup

\* No step of the payment loop leaves the types.
LEMMA PaymentType ==
  ASSUME TypeOK, NEW w \in Workers, PaymentStep(w) \/ Crash(w)
  PROVE TypeOK'
<1> USE DEF TypeOK
<1>1. CASE Crash(w)
  BY <1>1, RestartType DEF Crash, RowsOK, MoneyOK, WorldOK
<1>2. CASE PickPendingRedemption(w)
  BY <1>2 DEF PickPendingRedemption, Redeemed, RowsOK, MoneyOK, WorldOK, LoopsOK,
      WorkerStep, BeforeAnswer
<1>3. CASE CreditPendingRedemption(w)
  <2>1. wtopup[w] \in Topups
    BY <1>3 DEF CreditPendingRedemption, LoopsOK
  <2> QED BY <1>3, <2>1, RestartType, CreditRedeemedType DEF CreditPendingRedemption, WorldOK
<1>4. CASE ReadBreaker(w)
  BY <1>4 DEF ReadBreaker, RowsOK, MoneyOK, WorldOK, LoopsOK, WorkerStep, BeforeAnswer
<1>5. CASE \E t \in Topups : AcquirePaymentJob(w, t)
  <2>1. PICK t \in Topups : AcquirePaymentJob(w, t)
    BY <1>5
  <2>2. RowsOK'
    BY <2>1, TopupStates DEF AcquirePaymentJob, RowsOK
  <2>3. LoopsOK'
    BY <2>1 DEF AcquirePaymentJob, RowsOK, LoopsOK, WorkerStep, BeforeAnswer
  <2> QED BY <2>1, <2>2, <2>3 DEF AcquirePaymentJob, MoneyOK, WorldOK
<1>6. CASE QueueIsEmpty(w)
  BY <1>6, RestartType DEF QueueIsEmpty, RowsOK, MoneyOK, WorldOK
<1>7. CASE CreatePaymentAttempt(w)
  BY <1>7 DEF CreatePaymentAttempt, Step, RowsOK, MoneyOK, WorldOK, LoopsOK, WorkerStep,
              BeforeAnswer, AttemptState
<1>8. CASE SendRequest(w)
  BY <1>8 DEF SendRequest, Step, RowsOK, MoneyOK, WorldOK, LoopsOK, WorkerStep, BeforeAnswer
<1>9. CASE RequestNotSent(w)
  <2>1. { "NOT_SENT", "OTHER" } \subseteq Result /\ "thrown" \in WorkerStep \ BeforeAnswer
    BY DEF Result, ErrorKind, WorkerStep, BeforeAnswer
  <2> QED BY <1>9, <2>1, StepType DEF RequestNotSent, RowsOK, MoneyOK, WorldOK
<1>10. CASE MarkPaymentPossiblySent(w)
  BY <1>10 DEF MarkPaymentPossiblySent, RowsOK, MoneyOK, WorldOK, LoopsOK, AttemptState
<1>11. CASE AnswerSuccess(w) \/ AnswerRefused(w) \/ AnswerUnclear(w) \/ AnswerLost(w)
  <2>1. /\ { "REDEEMED", "AMBIGUOUS", "RETRY_WAIT", "FAILED", "SCHEMA", "LOST" } \subseteq Result
        /\ Refusals \subseteq Result
        /\ { "answered", "thrown" } \subseteq WorkerStep \ BeforeAnswer
    BY DEF Result, ErrorKind, WorkerStep, BeforeAnswer
  <2>2. wpc[w] = "sent"
    BY <1>11 DEF AnswerSuccess, AnswerRefused, AnswerUnclear, AnswerLost
  <2>3. \E s \in { "answered", "thrown" }, r \in Result : StepWith(w, s, r)
    BY <1>11, <2>1 DEF AnswerSuccess, AnswerRefused, AnswerUnclear, AnswerLost
  <2>4. LoopsOK'
    BY <2>1, <2>2, <2>3, StepType
  <2> QED BY <1>11, <2>4 DEF AnswerSuccess, AnswerRefused, AnswerUnclear, AnswerLost,
                             RowsOK, MoneyOK, WorldOK
<1>12. CASE RecordProviderResult(w)
  <2>1. wtopup[w] \in Topups /\ "recorded" \in WorkerStep \ BeforeAnswer
    BY <1>12 DEF RecordProviderResult, LoopsOK, WorkerStep, BeforeAnswer
  <2> QED BY <1>12, <2>1, RecordType, StepType DEF RecordProviderResult, MoneyOK, WorldOK
<1>13. CASE RecordThrows(w) \/ LaterStepThrows(w)
  <2>1. "OTHER" \in Result /\ "thrown" \in WorkerStep \ BeforeAnswer
    BY DEF Result, ErrorKind, WorkerStep, BeforeAnswer
  <2> QED BY <1>13, <2>1, StepType DEF RecordThrows, LaterStepThrows, RowsOK, MoneyOK, WorldOK
<1>14. CASE CloseSuccessfulProbe(w)
  <2>1. "crediting" \in WorkerStep \ BeforeAnswer
    BY DEF WorkerStep, BeforeAnswer
  <2>2. LoopsOK'
    BY <1>14, <2>1, StepType, RestartType DEF CloseSuccessfulProbe
  <2> QED BY <1>14, <2>2 DEF CloseSuccessfulProbe, RowsOK, MoneyOK, WorldOK, BreakerState
<1>15. CASE CreditRecorded(w)
  <2>1. wtopup[w] \in Topups
    BY <1>15 DEF CreditRecorded, LoopsOK
  <2> QED BY <1>15, <2>1, RestartType, CreditRedeemedType DEF CreditRecorded, WorldOK
<1>16. CASE OpenCircuit(w)
  <2>1. { "containing", "failing" } \subseteq WorkerStep \ BeforeAnswer
    BY DEF WorkerStep, BeforeAnswer
  <2>2. \E s \in { "containing", "failing" } : Step(w, s)
    BY <1>16 DEF OpenCircuit
  <2>3. LoopsOK'
    BY <1>16, <2>1, <2>2, StepType DEF OpenCircuit
  <2> QED BY <1>16, <2>3 DEF OpenCircuit, RowsOK, MoneyOK, WorldOK, BreakerState
<1>17. CASE ContainSchemaFailure(w) \/ ReportSchemaFailure(w)
  <2>1. { "reporting", "failing" } \subseteq WorkerStep \ BeforeAnswer
    BY DEF WorkerStep, BeforeAnswer
  <2>2. LoopsOK'
    BY <1>17, <2>1, StepType, RestartType DEF ContainSchemaFailure, ReportSchemaFailure
  <2> QED BY <1>17, <2>2 DEF ContainSchemaFailure, ReportSchemaFailure, RowsOK, MoneyOK, WorldOK
<1>18. CASE RecordFailure(w)
  <2>1. wtopup[w] \in Topups
    BY <1>18 DEF RecordFailure, LoopsOK
  <2>2. RowsOK'
    BY <1>18, <2>1, RecordType DEF RecordFailure, RowsOK
  <2> QED BY <1>18, <2>2, RestartType DEF RecordFailure, MoneyOK, WorldOK
<1> QED BY <1>1, <1>2, <1>3, <1>4, <1>5, <1>6, <1>7, <1>8, <1>9, <1>10, <1>11, <1>12, <1>13,
           <1>14, <1>15, <1>16, <1>17, <1>18 DEF PaymentStep

\* The steps of everybody but the payment loops.
OtherStep ==
  \/ \E t \in Topups : SubmitVoucher(t) \/ ProviderDecides(t) \/ LeaseExpires(t)
  \/ \E u \in Users : \E x \in 1..balance[u] : Spend(u, x)
  \/ \E due \in SUBSET Topups : RecoverCrashedPayments(due)
  \/ OwnerStep

\* No step of anybody else leaves them either: a reversal needs the balance it takes.
LEMMA OtherType ==
  ASSUME TypeOK, OtherStep
  PROVE TypeOK'
<1> USE DEF TypeOK
<1>1. CASE \E t \in Topups : SubmitVoucher(t) \/ ProviderDecides(t) \/ LeaseExpires(t)
  BY <1>1, TopupStates DEF SubmitVoucher, ProviderDecides, LeaseExpires, RowsOK, MoneyOK,
      WorldOK, LoopsOK
<1>2. CASE \E u \in Users : \E x \in 1..balance[u] : Spend(u, x)
  BY <1>2 DEF Spend, RowsOK, MoneyOK, WorldOK, LoopsOK
<1>3. CASE \E due \in SUBSET Topups : RecoverCrashedPayments(due)
  BY <1>3, TopupStates DEF RecoverCrashedPayments, OpenReview, ReviewState, RowsOK,
      MoneyOK, WorldOK, LoopsOK
<1>4. ASSUME NEW t \in Topups, DecideCredit(t)
      PROVE TypeOK'
  <2>1. PICK a \in OwnerAmounts : Credit(t, a)
    BY <1>4 DEF DecideCredit
  <2>2. a \in Nat
    BY PaymentAssumption
  <2>3. review' \in [Topups -> ReviewState] /\ confirmed' \in SUBSET Topups
    BY <1>4 DEF DecideCredit, Decide, RowsOK, ReviewState
  <2> QED BY <1>4, <2>1, <2>2, <2>3, CreditType DEF DecideCredit, Decide, WorldOK, LoopsOK
<1>5. ASSUME NEW t \in Topups, DecideReject(t)
      PROVE TypeOK'
  BY <1>5, TopupStates DEF DecideReject, Decide, ReviewState, RowsOK, MoneyOK, WorldOK, LoopsOK
<1>6. ASSUME NEW t \in Topups, ReverseTopup(t)
      PROVE TypeOK'
  <2>1. CustomerOf[t] \in Users /\ amount[t] \in Nat
    BY PaymentAssumption DEF RowsOK
  <2>2. MoneyOK'
    BY <1>6, <2>1 DEF ReverseTopup, MoneyOK
  <2> QED BY <1>6, <2>2, TopupStates DEF ReverseTopup, OpenReview, ReviewState, RowsOK,
      WorldOK, LoopsOK
<1>7. CASE \/ \E next \in BreakerState : SetCircuitBreakerState(next)
           \/ \E enabled \in BOOLEAN : SetAutoCredit(enabled)
  BY <1>7 DEF SetCircuitBreakerState, SetAutoCredit, RowsOK, MoneyOK, WorldOK, LoopsOK
<1> QED BY <1>1, <1>2, <1>3, <1>4, <1>5, <1>6, <1>7 DEF OtherStep, OwnerStep

\* No step leaves the types.
LEMMA TypeNext == TypeOK /\ [Next]_vars => TypeOK'
<1>1. ASSUME TypeOK, UNCHANGED vars
      PROVE TypeOK'
  BY <1>1 DEF vars, TypeOK, RowsOK, MoneyOK, WorldOK, LoopsOK
<1>2. ASSUME TypeOK, Next
      PROVE TypeOK'
  BY <1>2, PaymentType, OtherType DEF Next, OtherStep
<1> QED BY <1>1, <1>2

\* Every row, balance and variable of the payment loops stays in its type, and no
\* reversal makes a balance negative (reverseTopup).
THEOREM TopupTypeCorrect == Spec => []TypeOK
BY TypeInit, TypeNext, PTL DEF Spec

-----------------------------------------------------------------------------
(* The inductive invariant *)

\* What a lease, a review and the attempt numbers say of a row.
RowInv ==
  /\ \A t \in Topups : holder[t] # Nobody => status[t] = "PROCESSING"
  /\ ReviewedIsDecidable
  /\ BoundedDispatch
  /\ \A t \in Topups :
       status[t] \in { NotSubmitted, "PAYMENT_QUEUED", "RETRY_WAIT" } => token[t] < MaxAttempts
  /\ \A w \in Workers : wresult[w] = "RETRY_WAIT" => wtoken[w] < MaxAttempts

\* Nobody holds the voucher and nobody will claim it again.
Out(t) ==
  status[t] \notin { NotSubmitted, "PAYMENT_QUEUED", "RETRY_WAIT" } /\ holder[t] = Nobody

\* A voucher is claimed by one pass at a time until its result is recorded; while the pass
\* owns the lease, a request is in doubt only if this pass sent it.
ClaimInv ==
  /\ \A w \in Workers :
       wpc[w] \in { "acquired", "attempted", "sent", "answered" } => Owns(w) \/ Out(wtopup[w])
  /\ \A t \in inDoubt : status[t] \notin { NotSubmitted, "PAYMENT_QUEUED", "RETRY_WAIT" }
  /\ \A w \in Workers :
       /\ Owns(w)
       /\ wpc[w] \in { "acquired", "attempted" } \/ wresult[w] \in { "RETRY_WAIT", "NOT_SENT" }
       => wtopup[w] \notin inDoubt

\* A voucher waiting for its credit was paid, and a pass about to credit has such a voucher
\* or one that somebody has credited meanwhile.
CreditInv ==
  /\ \A t \in Topups : status[t] = "REDEEMED" => t \in paid /\ amount[t] = Face[t]
  /\ \A w \in Workers :
       /\ wresult[w] = "REDEEMED" => wtopup[w] \in paid
       /\ \/ wpc[w] \in { "pending", "crediting" }
          \/ wpc[w] = "recorded" /\ wresult[w] = "REDEEMED"
          => status[wtopup[w]] \in { "REDEEMED", "CREDITED", "REVERSED" }

PaymentInv == TypeOK /\ RowInv /\ ClaimInv /\ CreditInv

\* The empty database satisfies the invariant.
LEMMA PaymentInit == Init => PaymentInv
BY TypeInit, PaymentAssumption
   DEF Init, PaymentInv, RowInv, ClaimInv, CreditInv, ReviewedIsDecidable, BoundedDispatch,
       NotSubmitted

\* A pass keeps the rows in order: it records only while it owns the lease.
LEMMA PaymentRowInv ==
  ASSUME TypeOK, RowInv, ClaimInv, CreditInv, NEW w \in Workers, PaymentStep(w) \/ Crash(w)
  PROVE RowInv'
<1> USE DEF TypeOK, RowsOK, LoopsOK, RowInv, Owns, ReviewedIsDecidable, BoundedDispatch,
    NotSubmitted, BeforeAnswer
<1>1. CASE Crash(w) \/ QueueIsEmpty(w) \/ PickPendingRedemption(w) \/ ReadBreaker(w)
  BY <1>1, Moves DEF Crash, QueueIsEmpty, PickPendingRedemption, ReadBreaker, Restart, Redeemed
<1>2. CASE CreatePaymentAttempt(w) \/ MarkPaymentPossiblySent(w)
  BY <1>2, Moves DEF CreatePaymentAttempt, MarkPaymentPossiblySent, Step
<1>3. CASE SendRequest(w)
  BY <1>3, Moves, PaymentAssumption DEF SendRequest, Step
<1>4. CASE RequestNotSent(w) \/ RecordThrows(w) \/ LaterStepThrows(w)
  BY <1>4, Moves DEF RequestNotSent, RecordThrows, LaterStepThrows, StepWith
<1>5. CASE AnswerSuccess(w) \/ AnswerRefused(w) \/ AnswerUnclear(w) \/ AnswerLost(w)
  BY <1>5, Moves DEF AnswerSuccess, AnswerRefused, AnswerUnclear, AnswerLost, StepWith,
    Refusals
<1>6. CASE OpenCircuit(w) \/ ContainSchemaFailure(w) \/ ReportSchemaFailure(w) \/
            CloseSuccessfulProbe(w)
  BY <1>6, Moves DEF OpenCircuit, ContainSchemaFailure, ReportSchemaFailure,
    CloseSuccessfulProbe, Step, Restart
<1>7. CASE CreditPendingRedemption(w) \/ CreditRecorded(w)
  BY <1>7, Moves DEF CreditPendingRedemption, CreditRecorded, CreditRedeemedTopup, Credit,
    Restart
<1>8. CASE RecordProviderResult(w)
  BY <1>8, Moves, PaymentAssumption DEF RecordProviderResult, Record, Step, OpenReview,
    Refusals
<1>9. CASE RecordFailure(w)
  BY <1>9, Moves, PaymentAssumption DEF RecordFailure, Record, FailureResult, OpenReview,
    Restart
<1>10. CASE \E t \in Topups : AcquirePaymentJob(w, t)
  BY <1>10, PaymentAssumption DEF AcquirePaymentJob, Queued
<1> QED BY <1>1, <1>2, <1>3, <1>4, <1>5, <1>6, <1>7, <1>8, <1>9, <1>10 DEF PaymentStep

\* So do the others; an expired lease leaves a voucher that is still PROCESSING.
LEMMA OtherRowInv ==
  ASSUME TypeOK, RowInv, ClaimInv, CreditInv, OtherStep
  PROVE RowInv'
<1> USE DEF TypeOK, RowsOK, LoopsOK, RowInv, Owns, ReviewedIsDecidable, BoundedDispatch,
    NotSubmitted, BeforeAnswer
<1>1. ASSUME NEW t \in Topups, SubmitVoucher(t)
      PROVE RowInv'
  BY <1>1, Moves, PaymentAssumption DEF SubmitVoucher
<1>2. ASSUME NEW t \in Topups, ProviderDecides(t)
      PROVE RowInv'
  BY <1>2, Moves, PaymentAssumption DEF ProviderDecides
<1>3. ASSUME NEW t \in Topups, LeaseExpires(t)
      PROVE RowInv'
  BY <1>3, Moves, PaymentAssumption DEF LeaseExpires
<1>4. ASSUME NEW t \in Topups, DecideCredit(t)
      PROVE RowInv'
  BY <1>4, Moves, PaymentAssumption DEF DecideCredit, Decide, Credit
<1>5. ASSUME NEW t \in Topups, DecideReject(t)
      PROVE RowInv'
  BY <1>5, Moves, PaymentAssumption DEF DecideReject, Decide
<1>6. ASSUME NEW t \in Topups, ReverseTopup(t)
      PROVE RowInv'
  BY <1>6, Moves, PaymentAssumption DEF ReverseTopup, OpenReview
<1>7. ASSUME NEW due \in SUBSET Topups, RecoverCrashedPayments(due)
      PROVE RowInv'
  BY <1>7 DEF RecoverCrashedPayments, OpenReview
<1>8. CASE \/ \E u \in Users : \E x \in 1..balance[u] : Spend(u, x)
           \/ \E next \in BreakerState : SetCircuitBreakerState(next)
           \/ \E enabled \in BOOLEAN : SetAutoCredit(enabled)
  BY <1>8 DEF Spend, SetCircuitBreakerState, SetAutoCredit
<1> QED BY <1>1, <1>2, <1>3, <1>4, <1>5, <1>6, <1>7, <1>8 DEF OtherStep, OwnerStep

\* A pass claims only what is queued, and what is queued is in nobody's hands.
LEMMA PaymentClaimInv ==
  ASSUME TypeOK, RowInv, ClaimInv, CreditInv, NEW w \in Workers, PaymentStep(w) \/ Crash(w)
  PROVE ClaimInv'
<1> USE DEF TypeOK, RowsOK, WorldOK, LoopsOK, RowInv, ClaimInv, Owns, Out, NotSubmitted,
    BeforeAnswer
<1>1. CASE Crash(w) \/ QueueIsEmpty(w) \/ PickPendingRedemption(w) \/ ReadBreaker(w)
  BY <1>1, Moves DEF Crash, QueueIsEmpty, PickPendingRedemption, ReadBreaker, Restart, Redeemed
<1>2. CASE CreatePaymentAttempt(w) \/ MarkPaymentPossiblySent(w)
  BY <1>2, Moves DEF CreatePaymentAttempt, MarkPaymentPossiblySent, Step
<1>3. CASE SendRequest(w)
  BY <1>3, Moves, PaymentAssumption DEF SendRequest, Step
<1>4. CASE RequestNotSent(w) \/ RecordThrows(w) \/ LaterStepThrows(w)
  BY <1>4, Moves DEF RequestNotSent, RecordThrows, LaterStepThrows, StepWith
<1>5. CASE AnswerSuccess(w) \/ AnswerRefused(w) \/ AnswerUnclear(w) \/ AnswerLost(w)
  BY <1>5, Moves DEF AnswerSuccess, AnswerRefused, AnswerUnclear, AnswerLost, StepWith,
    Refusals
<1>6. CASE OpenCircuit(w) \/ ContainSchemaFailure(w) \/ ReportSchemaFailure(w) \/
            CloseSuccessfulProbe(w)
  BY <1>6, Moves DEF OpenCircuit, ContainSchemaFailure, ReportSchemaFailure,
    CloseSuccessfulProbe, Step, Restart
<1>7. CASE CreditPendingRedemption(w) \/ CreditRecorded(w)
  BY <1>7, Moves DEF CreditPendingRedemption, CreditRecorded, CreditRedeemedTopup, Credit,
    Restart
<1>8. CASE RecordProviderResult(w)
  BY <1>8, Moves, PaymentAssumption DEF RecordProviderResult, Record, Step, OpenReview,
    Refusals
<1>9. CASE RecordFailure(w)
  BY <1>9, Moves, PaymentAssumption DEF RecordFailure, Record, FailureResult, OpenReview,
    Restart
<1>10. CASE \E t \in Topups : AcquirePaymentJob(w, t)
  BY <1>10, PaymentAssumption DEF AcquirePaymentJob, Queued
<1> QED BY <1>1, <1>2, <1>3, <1>4, <1>5, <1>6, <1>7, <1>8, <1>9, <1>10 DEF PaymentStep

\* A voucher whose lease expired is never queued again.
LEMMA OtherClaimInv ==
  ASSUME TypeOK, RowInv, ClaimInv, CreditInv, OtherStep
  PROVE ClaimInv'
<1> USE DEF TypeOK, RowsOK, WorldOK, LoopsOK, RowInv, ClaimInv, Owns, Out, NotSubmitted,
    BeforeAnswer
<1>1. ASSUME NEW t \in Topups, SubmitVoucher(t)
      PROVE ClaimInv'
  BY <1>1, Moves, PaymentAssumption DEF SubmitVoucher
<1>2. ASSUME NEW t \in Topups, ProviderDecides(t)
      PROVE ClaimInv'
  BY <1>2, Moves, PaymentAssumption DEF ProviderDecides
<1>3. ASSUME NEW t \in Topups, LeaseExpires(t)
      PROVE ClaimInv'
  BY <1>3, Moves, PaymentAssumption DEF LeaseExpires
<1>4. ASSUME NEW t \in Topups, DecideCredit(t)
      PROVE ClaimInv'
  BY <1>4, Moves, PaymentAssumption DEF DecideCredit, Decide, Credit
<1>5. ASSUME NEW t \in Topups, DecideReject(t)
      PROVE ClaimInv'
  BY <1>5, Moves, PaymentAssumption DEF DecideReject, Decide
<1>6. ASSUME NEW t \in Topups, ReverseTopup(t)
      PROVE ClaimInv'
  BY <1>6, Moves, PaymentAssumption DEF ReverseTopup, OpenReview
<1>7. ASSUME NEW due \in SUBSET Topups, RecoverCrashedPayments(due)
      PROVE ClaimInv'
  BY <1>7 DEF RecoverCrashedPayments, OpenReview
<1>8. CASE \/ \E u \in Users : \E x \in 1..balance[u] : Spend(u, x)
           \/ \E next \in BreakerState : SetCircuitBreakerState(next)
           \/ \E enabled \in BOOLEAN : SetAutoCredit(enabled)
  BY <1>8 DEF Spend, SetCircuitBreakerState, SetAutoCredit
<1> QED BY <1>1, <1>2, <1>3, <1>4, <1>5, <1>6, <1>7, <1>8 DEF OtherStep, OwnerStep

\* A pass records REDEEMED only for a voucher the provider paid.
LEMMA PaymentCreditInv ==
  ASSUME TypeOK, RowInv, ClaimInv, CreditInv, NEW w \in Workers, PaymentStep(w) \/ Crash(w)
  PROVE CreditInv'
<1> USE DEF TypeOK, RowsOK, LoopsOK, RowInv, CreditInv, Owns, NotSubmitted, BeforeAnswer
<1>1. CASE Crash(w) \/ QueueIsEmpty(w) \/ PickPendingRedemption(w) \/ ReadBreaker(w)
  BY <1>1, Moves DEF Crash, QueueIsEmpty, PickPendingRedemption, ReadBreaker, Restart, Redeemed
<1>2. CASE CreatePaymentAttempt(w) \/ MarkPaymentPossiblySent(w)
  BY <1>2, Moves DEF CreatePaymentAttempt, MarkPaymentPossiblySent, Step
<1>3. CASE SendRequest(w)
  BY <1>3, Moves, PaymentAssumption DEF SendRequest, Step
<1>4. CASE RequestNotSent(w) \/ RecordThrows(w) \/ LaterStepThrows(w)
  BY <1>4, Moves DEF RequestNotSent, RecordThrows, LaterStepThrows, StepWith
<1>5. CASE AnswerSuccess(w) \/ AnswerRefused(w) \/ AnswerUnclear(w) \/ AnswerLost(w)
  BY <1>5, Moves DEF AnswerSuccess, AnswerRefused, AnswerUnclear, AnswerLost, StepWith,
    Refusals
<1>6. CASE OpenCircuit(w) \/ ContainSchemaFailure(w) \/ ReportSchemaFailure(w) \/
            CloseSuccessfulProbe(w)
  BY <1>6, Moves DEF OpenCircuit, ContainSchemaFailure, ReportSchemaFailure,
    CloseSuccessfulProbe, Step, Restart
<1>7. CASE CreditPendingRedemption(w) \/ CreditRecorded(w)
  BY <1>7, Moves DEF CreditPendingRedemption, CreditRecorded, CreditRedeemedTopup, Credit,
    Restart
<1>8. CASE RecordProviderResult(w)
  BY <1>8, Moves, PaymentAssumption DEF RecordProviderResult, Record, Step, OpenReview,
    Refusals
<1>9. CASE RecordFailure(w)
  BY <1>9, Moves, PaymentAssumption DEF RecordFailure, Record, FailureResult, OpenReview,
    Restart
<1>10. CASE \E t \in Topups : AcquirePaymentJob(w, t)
  BY <1>10, PaymentAssumption DEF AcquirePaymentJob, Queued
<1> QED BY <1>1, <1>2, <1>3, <1>4, <1>5, <1>6, <1>7, <1>8, <1>9, <1>10 DEF PaymentStep

\* The others credit, refuse or reverse; they never take REDEEMED back.
LEMMA OtherCreditInv ==
  ASSUME TypeOK, RowInv, ClaimInv, CreditInv, OtherStep
  PROVE CreditInv'
<1> USE DEF TypeOK, RowsOK, LoopsOK, RowInv, CreditInv, Owns, NotSubmitted, BeforeAnswer
<1>1. ASSUME NEW t \in Topups, SubmitVoucher(t)
      PROVE CreditInv'
  BY <1>1, Moves, PaymentAssumption DEF SubmitVoucher
<1>2. ASSUME NEW t \in Topups, ProviderDecides(t)
      PROVE CreditInv'
  BY <1>2, Moves, PaymentAssumption DEF ProviderDecides
<1>3. ASSUME NEW t \in Topups, LeaseExpires(t)
      PROVE CreditInv'
  BY <1>3, Moves, PaymentAssumption DEF LeaseExpires
<1>4. ASSUME NEW t \in Topups, DecideCredit(t)
      PROVE CreditInv'
  BY <1>4, Moves, PaymentAssumption DEF DecideCredit, Decide, Credit
<1>5. ASSUME NEW t \in Topups, DecideReject(t)
      PROVE CreditInv'
  BY <1>5, Moves, PaymentAssumption DEF DecideReject, Decide
<1>6. ASSUME NEW t \in Topups, ReverseTopup(t)
      PROVE CreditInv'
  BY <1>6, Moves, PaymentAssumption DEF ReverseTopup, OpenReview
<1>7. ASSUME NEW due \in SUBSET Topups, RecoverCrashedPayments(due)
      PROVE CreditInv'
  BY <1>7 DEF RecoverCrashedPayments, OpenReview
<1>8. CASE \/ \E u \in Users : \E x \in 1..balance[u] : Spend(u, x)
           \/ \E next \in BreakerState : SetCircuitBreakerState(next)
           \/ \E enabled \in BOOLEAN : SetAutoCredit(enabled)
  BY <1>8 DEF Spend, SetCircuitBreakerState, SetAutoCredit
<1> QED BY <1>1, <1>2, <1>3, <1>4, <1>5, <1>6, <1>7, <1>8 DEF OtherStep, OwnerStep

\* Every step keeps the invariant.
LEMMA PaymentNext == PaymentInv /\ [Next]_vars => PaymentInv'
<1>1. ASSUME PaymentInv, UNCHANGED vars
      PROVE PaymentInv'
  <2>1. TypeOK' /\ RowInv'
    BY <1>1, TypeNext DEF PaymentInv, vars, RowInv, ReviewedIsDecidable, BoundedDispatch
  <2>2. ClaimInv' /\ CreditInv'
    BY <1>1 DEF PaymentInv, vars, ClaimInv, CreditInv, Owns, Out
  <2> QED BY <2>1, <2>2 DEF PaymentInv
<1>2. ASSUME PaymentInv, NEW w \in Workers, PaymentStep(w) \/ Crash(w)
      PROVE PaymentInv'
  BY <1>2, PaymentType, PaymentRowInv, PaymentClaimInv, PaymentCreditInv DEF PaymentInv
<1>3. ASSUME PaymentInv, OtherStep
      PROVE PaymentInv'
  BY <1>3, OtherType, OtherRowInv, OtherClaimInv, OtherCreditInv DEF PaymentInv
<1> QED BY <1>1, <1>2, <1>3 DEF Next, OtherStep

\* So it holds in every reachable state.
LEMMA PaymentInvariant == Spec => []PaymentInv
BY PaymentInit, PaymentNext, PTL DEF Spec

\* A request that may be out is never sent again (failureResult, recoverCrashedPayments).
THEOREM InDoubtNotRetried == Spec => []NothingInDoubtIsRetried
<1>1. PaymentInv => NothingInDoubtIsRetried
  BY DEF PaymentInv, ClaimInv, NothingInDoubtIsRetried
<1> QED BY <1>1, PaymentInvariant, PTL

\* Whatever brought a voucher into MANUAL_REVIEW, the owner has a review to decide.
THEOREM ReviewsDecidable == Spec => []ReviewedIsDecidable
<1>1. PaymentInv => ReviewedIsDecidable
  BY DEF PaymentInv, RowInv
<1> QED BY <1>1, PaymentInvariant, PTL

\* A live lease is always for a voucher being processed (the fencing of payments/service.js).
THEOREM LeasesAreForProcessing == Spec => []OwnerSeesProcessing
<1>1. PaymentInv => OwnerSeesProcessing
  BY PaymentAssumption DEF PaymentInv, TypeOK, LoopsOK, RowInv, OwnerSeesProcessing, Owns
<1> QED BY <1>1, PaymentInvariant, PTL

\* No voucher is claimed more than MaxAttempts times (acquirePaymentJob, failureResult).
THEOREM DispatchBounded == Spec => []BoundedDispatch
<1>1. PaymentInv => BoundedDispatch
  BY DEF PaymentInv, RowInv
<1> QED BY <1>1, PaymentInvariant, PTL

-----------------------------------------------------------------------------
(* A voucher the provider paid is not refused *)

\* The vouchers the provider paid or may still pay.
Sent == atProvider \cup paid

\* What is in the customer's favour, or open.
Undecided == { "PROCESSING", "MANUAL_REVIEW", "REDEEMED", "CREDITED", "REVERSED" }

\* Results that are recorded as a refusal or as another try.
Negative == { "RETRY_WAIT", "FAILED", "NOT_SENT", "OTHER" } \cup Refusals

\* Where no pass outlives its lease, one that has yet to ask owns its voucher, and one that
\* owns it and has a negative result never asked, or was told that nothing is paid.
CalmInv ==
  /\ \A t \in Sent : status[t] \in Undecided
  /\ \A w \in Workers :
       /\ wpc[w] \in { "acquired", "attempted", "sent" } => Owns(w)
       /\ wpc[w] \in { "thrown", "containing", "reporting", "failing" } => wresult[w] \in ErrorKind
       /\ Owns(w) /\ (wpc[w] \in { "acquired", "attempted" } \/ wresult[w] \in Negative)
            => wtopup[w] \notin Sent

\* No pass sleeps longer than its lease, transactions whose checks hold commit, and the owner
\* decides what the provider's app shows.
Calm == ~Stalls /\ ~DatabaseErrors /\ OwnerInformed

\* A pass refuses only a voucher that was not sent, or whose refusal the provider stated.
LEMMA PaymentCalmInv ==
  ASSUME Calm, TypeOK, RowInv, CreditInv, CalmInv, NEW w \in Workers, PaymentStep(w) \/ Crash(w)
  PROVE  CalmInv'
<1> USE DEF TypeOK, RowsOK, WorldOK, LoopsOK, RowInv, CalmInv, Calm, Sent, Undecided, Negative, Refusals,
    ErrorKind, Owns, NotSubmitted, BeforeAnswer
<1>1. CASE Crash(w) \/ QueueIsEmpty(w) \/ PickPendingRedemption(w) \/ ReadBreaker(w)
  BY <1>1, Moves DEF Crash, QueueIsEmpty, PickPendingRedemption, ReadBreaker, Restart, Redeemed
<1>2. CASE CreatePaymentAttempt(w) \/ MarkPaymentPossiblySent(w)
  BY <1>2, Moves DEF CreatePaymentAttempt, MarkPaymentPossiblySent, Step
<1>3. CASE SendRequest(w)
  BY <1>3, Moves, PaymentAssumption DEF SendRequest, Step
<1>4. CASE RequestNotSent(w) \/ RecordThrows(w) \/ LaterStepThrows(w)
  BY <1>4, Moves, PaymentAssumption DEF RequestNotSent, RecordThrows, LaterStepThrows, StepWith, CannotCredit, CreditInv
<1>5. CASE AnswerSuccess(w) \/ AnswerRefused(w) \/ AnswerUnclear(w) \/ AnswerLost(w)
  BY <1>5, Moves DEF AnswerSuccess, AnswerRefused, AnswerUnclear, AnswerLost, StepWith
<1>6. CASE OpenCircuit(w) \/ ContainSchemaFailure(w) \/ ReportSchemaFailure(w) \/ CloseSuccessfulProbe(w)
  BY <1>6, Moves DEF OpenCircuit, ContainSchemaFailure, ReportSchemaFailure,
    CloseSuccessfulProbe, Step, Restart
<1>7. CASE CreditPendingRedemption(w) \/ CreditRecorded(w)
  BY <1>7, Moves DEF CreditPendingRedemption, CreditRecorded, CreditRedeemedTopup, Credit, Restart
<1>8. CASE RecordProviderResult(w)
  BY <1>8, Moves, PaymentAssumption DEF RecordProviderResult, Record, Step
<1>9. CASE RecordFailure(w)
  BY <1>9, Moves, PaymentAssumption DEF RecordFailure, Record, FailureResult, Restart
<1>10. CASE \E t \in Topups : AcquirePaymentJob(w, t)
  BY <1>10, PaymentAssumption DEF AcquirePaymentJob, Queued
<1> QED BY <1>1, <1>2, <1>3, <1>4, <1>5, <1>6, <1>7, <1>8, <1>9, <1>10 DEF PaymentStep

\* No lease of a pass at work runs out, and the owner rejects only what was not paid.
LEMMA OtherCalmInv ==
  ASSUME Calm, TypeOK, RowInv, CalmInv, OtherStep
  PROVE  CalmInv'
<1> USE DEF TypeOK, RowsOK, WorldOK, LoopsOK, RowInv, CalmInv, Calm, Sent, Undecided, Negative, Refusals,
    ErrorKind, Owns, NotSubmitted, BeforeAnswer
<1>1. ASSUME NEW t \in Topups, SubmitVoucher(t)
      PROVE  CalmInv'
  BY <1>1, Moves, PaymentAssumption DEF SubmitVoucher
<1>2. ASSUME NEW t \in Topups, ProviderDecides(t)
      PROVE  CalmInv'
  BY <1>2, Moves, PaymentAssumption DEF ProviderDecides
<1>3. ASSUME NEW t \in Topups, LeaseExpires(t)
      PROVE  CalmInv'
  BY <1>3, Moves, PaymentAssumption DEF LeaseExpires, Renewing
<1>4. ASSUME NEW t \in Topups, DecideCredit(t)
      PROVE  CalmInv'
  BY <1>4, Moves, PaymentAssumption DEF DecideCredit, Decide, Credit
<1>5. ASSUME NEW t \in Topups, DecideReject(t)
      PROVE  CalmInv'
  BY <1>5, Moves, PaymentAssumption DEF DecideReject, Decide
<1>6. ASSUME NEW t \in Topups, ReverseTopup(t)
      PROVE  CalmInv'
  BY <1>6, Moves, PaymentAssumption DEF ReverseTopup
<1>7. ASSUME NEW due \in SUBSET Topups, RecoverCrashedPayments(due)
      PROVE  CalmInv'
  BY <1>7 DEF RecoverCrashedPayments
<1>8. CASE \/ \E u \in Users : \E x \in 1..balance[u] : Spend(u, x)
           \/ \E next \in BreakerState : SetCircuitBreakerState(next)
           \/ \E enabled \in BOOLEAN : SetAutoCredit(enabled)
  BY <1>8 DEF Spend, SetCircuitBreakerState, SetAutoCredit
<1> QED BY <1>1, <1>2, <1>3, <1>4, <1>5, <1>6, <1>7, <1>8 DEF OtherStep, OwnerStep

\* The empty database satisfies it.
LEMMA CalmInit == Init => CalmInv
BY DEF Init, CalmInv, Sent, Owns

\* Every step of a calm system keeps it.
LEMMA CalmNext == Calm /\ PaymentInv /\ CalmInv /\ [Next]_vars => CalmInv'
<1>1. ASSUME CalmInv, UNCHANGED vars
      PROVE  CalmInv'
  BY <1>1 DEF vars, CalmInv, Sent, Owns
<1>2. ASSUME Calm, PaymentInv, CalmInv, NEW w \in Workers, PaymentStep(w) \/ Crash(w)
      PROVE  CalmInv'
  BY <1>2, PaymentCalmInv DEF PaymentInv
<1>3. ASSUME Calm, PaymentInv, CalmInv, OtherStep
      PROVE  CalmInv'
  BY <1>3, OtherCalmInv DEF PaymentInv
<1> QED BY <1>1, <1>2, <1>3 DEF Next, OtherStep

\* A voucher the provider paid, or may still pay, is not refused to the customer, whatever
\* crashes and whatever answer is lost, if nothing outlives its lease, no transaction fails that
\* could commit, and the owner rejects by what the provider shows (processClaimedPayment).
THEOREM PaidNotRefused ==
  ASSUME ~Stalls, ~DatabaseErrors, OwnerInformed
  PROVE  Spec => []PaidIsNotRefused
<1>1. PaymentInv /\ CalmInv /\ [Next]_vars => CalmInv'
  BY CalmNext DEF Calm
<1>2. PaymentInv /\ CalmInv => PaidIsNotRefused
  BY DEF PaymentInv, TypeOK, WorldOK, CalmInv, Sent, Undecided, PaidIsNotRefused, RefusedStates, Refusals
<1> QED BY <1>1, <1>2, CalmInit, PaymentInvariant, PTL DEF Spec

-----------------------------------------------------------------------------
(* TopupPayment implements VoucherCredit *)

\* What a customer sees of the amount of a voucher.
ShownAmount(t) == IF status[t] \in { "CREDITED", "REVERSED" } THEN amount[t] ELSE 0

\* Nothing is credited at first.
LEMMA VoucherInit == Init => Voucher!Init
BY DEF Init, Voucher!Init, OutcomeOf, NotSubmitted, RefusedStates, Refusals

\* A step that moves vouchers only between states a customer cannot tell apart.
LEMMA Unseen ==
  ASSUME \A t \in Topups : OutcomeOf(t)' = OutcomeOf(t) /\ ShownAmount(t)' = ShownAmount(t),
         UNCHANGED << paid, confirmed, walletVars >>
  PROVE UNCHANGED Voucher!vars
BY DEF Voucher!vars, ShownAmount

\* Recording an answer is either unseen or refuses the voucher.
LEMMA RecordSeen ==
  ASSUME PaymentInv, NEW w \in Workers, wtopup[w] \in Topups, NEW r, Record(w, r),
         UNCHANGED << paid, walletVars >>
  PROVE UNCHANGED Voucher!vars \/ Voucher!Refuse(wtopup[w])
<1> DEFINE t == wtopup[w]
<1>1. status[t] = "PROCESSING" /\ r \in { "REDEEMED", "AMBIGUOUS", "RETRY_WAIT", "FAILED" } \cup Refusals
  BY Moves, PaymentAssumption DEF PaymentInv, RowInv, Record, Owns
<1>2. /\ status' = [status EXCEPT ![t] = IF r = "AMBIGUOUS" THEN "MANUAL_REVIEW" ELSE r]
      /\ amount' = [amount EXCEPT ![t] = IF r = "REDEEMED" THEN Face[t] ELSE 0]
      /\ confirmed' = confirmed
      /\ status \in [Topups -> TopupState] /\ amount \in [Topups -> Nat]
  BY DEF Record, PaymentInv, TypeOK, RowsOK
<1>3. CASE r \in { "REDEEMED", "AMBIGUOUS", "RETRY_WAIT" }
  <2>1. \A s \in Topups : OutcomeOf(s)' = OutcomeOf(s) /\ ShownAmount(s)' = ShownAmount(s)
    BY <1>1, <1>2, <1>3 DEF OutcomeOf, ShownAmount, RefusedStates, Refusals
  <2> QED BY <1>2, <2>1, Unseen
<1>4. CASE r \in { "FAILED" } \cup Refusals
  <2>1. \A s \in Topups : /\ OutcomeOf(s)' = (IF s = t THEN "REFUSED" ELSE OutcomeOf(s))
                          /\ ShownAmount(s)' = ShownAmount(s)
    BY <1>1, <1>2, <1>4 DEF OutcomeOf, ShownAmount, RefusedStates, Refusals
  <2>2. OutcomeOf(t) = "PENDING"
    BY <1>1 DEF OutcomeOf, RefusedStates, Refusals
  <2> QED BY <1>2, <2>1, <2>2 DEF Voucher!Refuse, ShownAmount
<1> QED BY <1>1, <1>3, <1>4

\* Crediting a voucher that is neither credited nor refused.
LEMMA CreditSeen ==
  ASSUME PaymentInv, NEW t \in Topups, NEW a, Credit(t, a), UNCHANGED paid,
         status[t] \in { "REDEEMED", "MANUAL_REVIEW" }
  PROVE Voucher!Credit(t, a)
<1>1. status \in [Topups -> TopupState] /\ amount \in [Topups -> Nat]
  BY DEF PaymentInv, TypeOK, RowsOK
<1>2. \A s \in Topups : /\ OutcomeOf(s)' = (IF s = t THEN "CREDITED" ELSE OutcomeOf(s))
                        /\ ShownAmount(s)' = (IF s = t THEN a ELSE ShownAmount(s))
  BY <1>1 DEF Credit, OutcomeOf, ShownAmount, RefusedStates, Refusals
<1>3. OutcomeOf(t) = "PENDING"
  BY DEF OutcomeOf, RefusedStates, Refusals
<1> QED BY <1>2, <1>3 DEF Credit, Voucher!Credit, ShownAmount

\* The payment loop credits what was paid, and that once.
LEMMA CreditRedeemedSeen ==
  ASSUME PaymentInv, NEW w \in Workers, wpc[w] \in { "pending", "crediting" },
         NEW t \in Topups, t = wtopup[w],
         CreditRedeemedTopup(t) \/ UNCHANGED << rowVars, walletVars >>,
         UNCHANGED << paid, confirmed >>
  PROVE UNCHANGED Voucher!vars \/ Voucher!CreditPaid(t)
<1>1. status[t] \in { "REDEEMED", "CREDITED", "REVERSED" }
  BY DEF PaymentInv, CreditInv
<1>2. CASE UNCHANGED << rowVars, walletVars >>
  BY <1>2, Unseen DEF OutcomeOf, ShownAmount
<1>3. CASE MayMove(status[t], "CREDITED") /\ Credit(t, amount[t])
  <2>1. status[t] = "REDEEMED" /\ t \in paid /\ amount[t] = Face[t]
    BY <1>1, <1>3, Moves DEF PaymentInv, CreditInv
  <2>2. Credit(t, Face[t])
    BY <1>3, <2>1
  <2>3. Voucher!Credit(t, Face[t])
    BY <1>1, <2>1, <2>2, CreditSeen
  <2> QED BY <2>1, <2>3 DEF Voucher!CreditPaid
<1> QED BY <1>2, <1>3 DEF CreditRedeemedTopup

\* What a customer sees of a step of the payment loop.
LEMMA PaymentSeen ==
  ASSUME PaymentInv, NEW w \in Workers, PaymentStep(w) \/ Crash(w)
  PROVE [Voucher!Next]_(Voucher!vars)
<1>1. CASE UNCHANGED << status, amount, paid, confirmed, walletVars >>
  BY <1>1, Unseen DEF OutcomeOf, ShownAmount
<1>2. CASE \E t \in Topups : AcquirePaymentJob(w, t)
  <2>1. PICK t \in Topups : AcquirePaymentJob(w, t)
    BY <1>2
  <2>2. \A s \in Topups : OutcomeOf(s)' = OutcomeOf(s) /\ ShownAmount(s)' = ShownAmount(s)
    BY <2>1 DEF AcquirePaymentJob, Queued, OutcomeOf, ShownAmount, RefusedStates, Refusals,
                PaymentInv, TypeOK, RowsOK
  <2> QED BY <2>1, <2>2, Unseen DEF AcquirePaymentJob
<1>3. CASE RecordProviderResult(w) \/ (RecordFailure(w) /\ ~UNCHANGED rowVars)
  <2>1. wtopup[w] \in Topups
    BY <1>3 DEF RecordProviderResult, RecordFailure, PaymentInv, TypeOK, LoopsOK
  <2>2. \E r : Record(w, r)
    BY <1>3 DEF RecordProviderResult, RecordFailure
  <2> QED BY <1>3, <2>1, <2>2, RecordSeen DEF RecordProviderResult, RecordFailure, Voucher!Next
<1>4. CASE CreditPendingRedemption(w) \/ CreditRecorded(w)
  <2>1. PICK t \in Topups : t = wtopup[w]
    BY <1>4 DEF CreditPendingRedemption, CreditRecorded, PaymentInv, TypeOK, LoopsOK
  <2>2. /\ wpc[w] \in { "pending", "crediting" } /\ UNCHANGED << paid, confirmed >>
        /\ CreditRedeemedTopup(t) \/ UNCHANGED << rowVars, walletVars >>
    BY <1>4, <2>1 DEF CreditPendingRedemption, CreditRecorded
  <2>3. UNCHANGED Voucher!vars \/ Voucher!CreditPaid(t)
    BY <2>1, <2>2, CreditRedeemedSeen
  <2> QED BY <2>3 DEF Voucher!Next
<1>5. CASE RecordFailure(w) /\ UNCHANGED rowVars
  <2>1. UNCHANGED confirmed
    BY <1>5 DEF RecordFailure, Record
  <2> QED BY <1>1, <1>5, <2>1 DEF RecordFailure
<1> QED BY <1>1, <1>2, <1>3, <1>4, <1>5
        DEF PaymentStep, Crash, PickPendingRedemption, ReadBreaker, QueueIsEmpty,
            CreatePaymentAttempt, SendRequest, RequestNotSent, MarkPaymentPossiblySent,
            AnswerSuccess, AnswerRefused, AnswerUnclear, AnswerLost, RecordThrows,
            CloseSuccessfulProbe, LaterStepThrows, OpenCircuit, ContainSchemaFailure,
            ReportSchemaFailure

\* What he sees of the steps of the others.
LEMMA OtherSeen ==
  ASSUME PaymentInv, OtherStep
  PROVE [Voucher!Next]_(Voucher!vars)
<1>1. status \in [Topups -> TopupState] /\ amount \in [Topups -> Nat]
  BY DEF PaymentInv, TypeOK, RowsOK
<1> USE DEF RefusedStates, Refusals
<1>2. ASSUME NEW t \in Topups, SubmitVoucher(t) \/ LeaseExpires(t)
      PROVE UNCHANGED Voucher!vars
  <2>1. \A s \in Topups : OutcomeOf(s)' = OutcomeOf(s) /\ ShownAmount(s)' = ShownAmount(s)
    BY <1>1, <1>2 DEF SubmitVoucher, LeaseExpires, NotSubmitted, OutcomeOf, ShownAmount
  <2> QED BY <1>2, <2>1, Unseen DEF SubmitVoucher, LeaseExpires
<1>3. ASSUME NEW t \in Topups, ProviderDecides(t)
      PROVE UNCHANGED Voucher!vars \/ Voucher!Pay(t)
  BY <1>3 DEF ProviderDecides, Voucher!Pay, Voucher!vars, OutcomeOf
<1>4. ASSUME NEW u \in Users, NEW x \in 1..balance[u], Spend(u, x)
      PROVE Voucher!Spend(u, x)
  BY <1>4 DEF Spend, Voucher!Spend, OutcomeOf
<1>5. ASSUME NEW due \in SUBSET Topups, RecoverCrashedPayments(due)
      PROVE UNCHANGED Voucher!vars
  <2>1. \A s \in Topups : OutcomeOf(s)' = OutcomeOf(s) /\ ShownAmount(s)' = ShownAmount(s)
    BY <1>1, <1>5 DEF RecoverCrashedPayments, OutcomeOf, ShownAmount
  <2> QED BY <1>5, <2>1, Unseen DEF RecoverCrashedPayments
<1>6. ASSUME NEW t \in Topups, DecideCredit(t)
      PROVE Voucher!CreditConfirmed(t)
  BY <1>6, CreditSeen DEF DecideCredit, Decide, Voucher!CreditConfirmed
<1>7. ASSUME NEW t \in Topups, DecideReject(t)
      PROVE Voucher!Refuse(t)
  <2>1. \A s \in Topups : /\ OutcomeOf(s)' = (IF s = t THEN "REFUSED" ELSE OutcomeOf(s))
                          /\ ShownAmount(s)' = ShownAmount(s)
    BY <1>1, <1>7 DEF DecideReject, Decide, OutcomeOf, ShownAmount
  <2>2. OutcomeOf(t) = "PENDING"
    BY <1>7 DEF DecideReject, Decide, OutcomeOf
  <2> QED BY <1>7, <2>1, <2>2 DEF DecideReject, Decide, Voucher!Refuse, ShownAmount
<1>8. ASSUME NEW t \in Topups, ReverseTopup(t)
      PROVE UNCHANGED Voucher!vars \/ Voucher!Reverse(t)
  <2>1. status[t] = "CREDITED"
    BY <1>8, Moves DEF ReverseTopup
  <2>2. CASE status' = status
    <3>1. UNCHANGED << amount, paid, confirmed, walletVars >>
      BY <1>1, <1>8, <2>1, <2>2 DEF ReverseTopup
    <3> QED BY <2>2, <3>1, Unseen DEF OutcomeOf, ShownAmount
  <2>3. CASE status' # status
    <3>1. /\ balance[CustomerOf[t]] >= amount[t]
          /\ status' = [status EXCEPT ![t] = "REVERSED"]
          /\ balance' = [balance EXCEPT ![CustomerOf[t]] = @ - amount[t]]
          /\ UNCHANGED << amount, paid, confirmed, spent >>
      BY <1>8, <2>3 DEF ReverseTopup
    <3>2. \A s \in Topups : /\ OutcomeOf(s)' = (IF s = t THEN "REVERSED" ELSE OutcomeOf(s))
                            /\ ShownAmount(s)' = ShownAmount(s)
      BY <1>1, <2>1, <3>1 DEF OutcomeOf, ShownAmount
    <3>3. OutcomeOf(t) = "CREDITED" /\ ShownAmount(t) = amount[t]
      BY <2>1 DEF OutcomeOf, ShownAmount
    <3> QED BY <3>1, <3>2, <3>3 DEF Voucher!Reverse, ShownAmount
  <2> QED BY <2>2, <2>3
<1>9. ASSUME \/ \E next \in BreakerState : SetCircuitBreakerState(next)
             \/ \E enabled \in BOOLEAN : SetAutoCredit(enabled)
      PROVE UNCHANGED Voucher!vars
  BY <1>9, Unseen DEF SetCircuitBreakerState, SetAutoCredit, OutcomeOf, ShownAmount
<1> QED BY <1>2, <1>3, <1>4, <1>5, <1>6, <1>7, <1>8, <1>9 DEF OtherStep, OwnerStep,
    Voucher!Next

\* What he sees of any step.
LEMMA VoucherStep == PaymentInv /\ [Next]_vars => [Voucher!Next]_(Voucher!vars)
<1>1. ASSUME UNCHANGED vars
      PROVE UNCHANGED Voucher!vars
  BY <1>1, Unseen DEF vars, OutcomeOf, ShownAmount
<1> QED BY <1>1, PaymentSeen, OtherSeen DEF Next, OtherStep

\* Every step of the payment pipeline, of the maintenance loop and of the owner is, for the
\* customer, a step of VoucherCredit or none.
THEOREM VoucherKept == Spec => VoucherCreditKept
BY VoucherStep, VoucherInit, PaymentInvariant, PTL DEF VoucherCreditKept, Voucher!Spec, Spec

-----------------------------------------------------------------------------
(* VoucherCredit keeps the wallets *)

\* What a customer sees of the vouchers, as functions.
Outcomes == [t \in Topups |-> OutcomeOf(t)]
Shown == [t \in Topups |-> IF status[t] \in { "CREDITED", "REVERSED" } THEN amount[t] ELSE 0]

\* The vouchers of a customer that are credited and not reversed.
Credited(u) == { t \in Topups : CustomerOf[t] = u /\ Outcomes[t] = "CREDITED" }

\* What has to be kept, in terms of the sums.
AddsUp == \A u \in Users : balance[u] + spent[u] = SumOf(Shown, Credited(u))

\* Conservation, as VoucherCredit states it, is what AddsUp says.
LEMMA ConservationIs == Voucher!Conservation <=> AddsUp
BY Zenon DEF Voucher!Conservation, AddsUp, Credited, Outcomes, Shown, SumOf,
   Voucher!MapThenSumSet, MapThenSumSet, Voucher!MapThenFoldSet, MapThenFoldSet

\* Sums of credits are numbers.
LEMMA ShownSums ==
  ASSUME NEW T \in SUBSET Topups, NEW f \in [Topups -> Nat]
  PROVE  IsFiniteSet(T) /\ SumOf(f, T) \in Nat
BY PaymentAssumption, FS_Subset, SumNat

\* The credits customers see and what they have and spent are natural numbers.
LEMMA ShownType == TypeOK => Shown \in [Topups -> Nat] /\ balance \in [Users -> Nat] /\ spent \in [Users -> Nat]
BY DEF TypeOK, RowsOK, MoneyOK, Shown

\* A credit adds one voucher to the sum.
LEMMA CreditAddsUp ==
  ASSUME TypeOK, TypeOK', AddsUp, NEW t \in Topups, NEW a \in Nat, Voucher!Credit(t, a)
  PROVE  AddsUp'
<1> DEFINE u == CustomerOf[t]
<1>1. /\ Outcomes[t] = "PENDING" /\ Outcomes' = [Outcomes EXCEPT ![t] = "CREDITED"] /\ Shown' = [Shown EXCEPT ![t] = a]
      /\ balance' = [balance EXCEPT ![u] = @ + a] /\ UNCHANGED spent
  BY DEF Voucher!Credit, Outcomes, Shown
<1>2. Outcomes = [s \in Topups |-> Outcomes[s]] /\ u \in Users /\ IsFiniteSet(Topups)
  BY PaymentAssumption DEF Outcomes
<1>3. /\ Shown \in [Topups -> Nat] /\ balance \in [Users -> Nat] /\ spent \in [Users -> Nat]
      /\ Shown' \in [Topups -> Nat]
  BY ShownType DEF TypeOK, RowsOK, Shown
<1> HIDE DEF u
<1>4. ASSUME NEW v \in Users, v # u
      PROVE  SumOf(Shown', Credited(v)') = SumOf(Shown, Credited(v))
  <2>1. Credited(v)' = Credited(v) /\ Credited(v) \in SUBSET Topups /\ t \notin Credited(v)
    BY <1>1, <1>2, <1>4 DEF Credited, u
  <2>2. IsFiniteSet(Credited(v)) /\ \A s \in Credited(v) : Shown[s] \in Int /\ Shown[s] = Shown'[s]
    BY <1>1, <1>2, <1>3, <2>1, FS_Subset
  <2>3. SumOf(Shown, Credited(v)) = SumOf(Shown', Credited(v))
    BY <2>2, SumSame
  <2> QED BY <2>1, <2>3, Zenon
<1>5. SumOf(Shown', Credited(u)') = SumOf(Shown, Credited(u)) + a
  <2>1. Credited(u)' = Credited(u) \cup {t} /\ Credited(u) \in SUBSET Topups /\ t \notin Credited(u)
    BY <1>1, <1>2 DEF Credited, u
  <2>2. IsFiniteSet(Credited(u)) /\ \A s \in Credited(u) : Shown[s] \in Int /\ Shown[s] = Shown'[s]
    BY <1>1, <1>2, <1>3, <2>1, FS_Subset
  <2>3. SumOf(Shown, Credited(u)) = SumOf(Shown', Credited(u))
    BY <2>2, SumSame
  <2>4. Shown'[t] = a /\ \A s \in Credited(u) \cup {t} : Shown'[s] \in Int
    BY <1>1, <1>3, <2>1
  <2>5. SumOf(Shown', Credited(u) \cup {t}) = SumOf(Shown', Credited(u)) + Shown'[t]
    BY <2>1, <2>2, <2>4, SumAdd
  <2>6. SumOf(Shown', Credited(u)') = SumOf(Shown', Credited(u) \cup {t})
    BY <2>1, Zenon
  <2> QED BY <2>3, <2>4, <2>5, <2>6
<1>6. SumOf(Shown, Credited(u)) \in Nat
  BY <1>3, ShownSums DEF Credited
<1>7. ASSUME NEW v \in Users PROVE balance'[v] + spent'[v] = SumOf(Shown', Credited(v)')
  <2>1. balance[v] + spent[v] = SumOf(Shown, Credited(v))
    BY DEF AddsUp
  <2>2. balance'[v] = (IF v = u THEN balance[v] + a ELSE balance[v]) /\ spent'[v] = spent[v]
    BY <1>1, <1>3
  <2>3. balance[v] \in Nat /\ spent[v] \in Nat
    BY <1>3
  <2> QED BY <1>2, <1>4, <1>5, <1>6, <2>1, <2>2, <2>3
<1> QED BY <1>7 DEF AddsUp

\* A reversal takes one voucher out of the sum.
LEMMA ReverseAddsUp ==
  ASSUME TypeOK, AddsUp, NEW t \in Topups, Voucher!Reverse(t)
  PROVE  AddsUp'
<1> DEFINE u == CustomerOf[t]
<1>1. /\ Outcomes[t] = "CREDITED" /\ Outcomes' = [Outcomes EXCEPT ![t] = "REVERSED"] /\ Shown' = Shown
      /\ balance' = [balance EXCEPT ![u] = @ - Shown[t]] /\ UNCHANGED spent
  BY DEF Voucher!Reverse, Outcomes, Shown
<1>2. Outcomes = [s \in Topups |-> Outcomes[s]] /\ u \in Users /\ IsFiniteSet(Topups)
  BY PaymentAssumption DEF Outcomes
<1>3. Shown \in [Topups -> Nat] /\ balance \in [Users -> Nat] /\ spent \in [Users -> Nat]
  BY ShownType
<1> HIDE DEF u
<1>4. ASSUME NEW v \in Users, v # u
      PROVE  SumOf(Shown', Credited(v)') = SumOf(Shown, Credited(v))
  <2>1. Credited(v)' = Credited(v)
    BY <1>1, <1>2, <1>4 DEF Credited, u
  <2> QED BY <1>1, <2>1, Zenon
<1>5. SumOf(Shown, Credited(u)) = Shown[t] + SumOf(Shown', Credited(u)') /\ SumOf(Shown', Credited(u)') \in Nat
  <2>1. Credited(u)' = Credited(u) \ {t} /\ Credited(u) \in SUBSET Topups /\ t \in Credited(u)
    BY <1>1, <1>2 DEF Credited, u
  <2>2. IsFiniteSet(Credited(u)) /\ \A s \in Credited(u) : Shown[s] \in Int
    BY <1>2, <1>3, <2>1, FS_Subset
  <2>3. SumOf(Shown, Credited(u)) = Shown[t] + SumOf(Shown, Credited(u) \ {t})
    BY <2>1, <2>2, SumRemove
  <2>4. SumOf(Shown, Credited(u) \ {t}) \in Nat
    BY <1>3, <2>1, ShownSums
  <2>5. SumOf(Shown', Credited(u)') = SumOf(Shown, Credited(u) \ {t})
    BY <1>1, <2>1, Zenon
  <2> QED BY <2>3, <2>4, <2>5
<1>6. ASSUME NEW v \in Users PROVE balance'[v] + spent'[v] = SumOf(Shown', Credited(v)')
  <2>1. balance[v] + spent[v] = SumOf(Shown, Credited(v))
    BY DEF AddsUp
  <2>2. balance'[v] = (IF v = u THEN balance[v] - Shown[t] ELSE balance[v]) /\ spent'[v] = spent[v]
    BY <1>1, <1>3
  <2>3. balance[v] \in Nat /\ spent[v] \in Nat /\ Shown[t] \in Nat
    BY <1>3
  <2> QED BY <1>4, <1>5, <2>1, <2>2, <2>3
<1> QED BY <1>6 DEF AddsUp

\* The other steps leave the credited vouchers alone.
LEMMA OtherAddsUp ==
  ASSUME TypeOK, AddsUp, \A s \in Topups : Outcomes'[s] = "CREDITED" <=> Outcomes[s] = "CREDITED",
         Shown' = Shown, \A v \in Users : balance'[v] + spent'[v] = balance[v] + spent[v]
  PROVE  AddsUp'
<1>1. \A v \in Users : Credited(v)' = Credited(v)
  BY DEF Credited
<1>2. \A v \in Users : SumOf(Shown', Credited(v)') = SumOf(Shown, Credited(v))
  BY <1>1, Zenon
<1> QED BY <1>2 DEF AddsUp

\* What a customer has and has spent is at all times what the vouchers still credited to
\* him brought, in any race of workers, recovery, the owner and a reversal.
THEOREM CreditsConserved == Spec => []CreditsAddUp
<1>1. Init => AddsUp
  <2> SUFFICES ASSUME Init PROVE AddsUp
    OBVIOUS
  <2>1. \A u \in Users : Credited(u) = {}
    BY DEF Init, Credited, Outcomes, OutcomeOf, NotSubmitted, RefusedStates, Refusals
  <2>2. \A u \in Users : SumOf(Shown, Credited(u)) = 0
    BY <2>1, SumEmpty, Zenon
  <2> QED BY <2>2 DEF Init, AddsUp
<1>2. PaymentInv /\ PaymentInv' /\ AddsUp /\ [Next]_vars => AddsUp'
  <2> SUFFICES ASSUME PaymentInv, PaymentInv', AddsUp, [Next]_vars PROVE AddsUp'
    OBVIOUS
  <2>1. TypeOK /\ TypeOK'
    BY DEF PaymentInv
  <2>2. [Voucher!Next]_(Voucher!vars)
    BY VoucherStep
  <2>3. ASSUME NEW t \in Topups, Voucher!CreditPaid(t) PROVE AddsUp'
    <3>1. Face[t] \in Nat
      BY PaymentAssumption
    <3> QED BY <2>1, <2>3, <3>1, CreditAddsUp DEF Voucher!CreditPaid
  <2>4. ASSUME NEW t \in Topups, Voucher!CreditConfirmed(t) PROVE AddsUp'
    BY <2>1, <2>4, CreditAddsUp, PaymentAssumption DEF Voucher!CreditConfirmed
  <2>5. ASSUME NEW t \in Topups, Voucher!Pay(t) PROVE AddsUp'
    BY <2>1, <2>5, OtherAddsUp DEF Voucher!Pay, Outcomes, Shown
  <2>6. ASSUME NEW t \in Topups, Voucher!Refuse(t) PROVE AddsUp'
    <3>1. Outcomes[t] = "PENDING" /\ Outcomes' = [Outcomes EXCEPT ![t] = "REFUSED"] /\ Shown' = Shown /\ UNCHANGED walletVars
      BY <2>6 DEF Voucher!Refuse, Outcomes, Shown
    <3>2. \A s \in Topups : Outcomes'[s] = "CREDITED" <=> Outcomes[s] = "CREDITED"
      <4>1. Outcomes = [s \in Topups |-> Outcomes[s]]
        BY DEF Outcomes
      <4> QED BY <3>1, <4>1
    <3> QED BY <2>1, <3>1, <3>2, OtherAddsUp
  <2>7. ASSUME NEW u \in Users, NEW x \in 1 .. balance[u], Voucher!Spend(u, x) PROVE AddsUp'
    <3>1. /\ Outcomes' = Outcomes /\ Shown' = Shown
          /\ balance' = [balance EXCEPT ![u] = @ - x] /\ spent' = [spent EXCEPT ![u] = @ + x]
      BY <2>7 DEF Voucher!Spend, Outcomes, Shown
    <3>2. \A v \in Users : balance'[v] + spent'[v] = balance[v] + spent[v]
      BY <2>1, <3>1, ShownType
    <3> QED BY <2>1, <3>1, <3>2, OtherAddsUp
  <2>8. ASSUME UNCHANGED Voucher!vars PROVE AddsUp'
    BY <2>1, <2>8, OtherAddsUp DEF Voucher!vars, Outcomes, Shown
  <2> QED BY <2>2, <2>3, <2>4, <2>5, <2>6, <2>7, <2>8, ReverseAddsUp, <2>1 DEF Voucher!Next
<1>3. AddsUp => CreditsAddUp
  BY ConservationIs DEF CreditsAddUp
<1> QED BY <1>1, <1>2, <1>3, PaymentInvariant, PTL DEF Spec
=============================================================================
