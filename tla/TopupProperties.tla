-------------------------- MODULE TopupProperties --------------------------
(***************************************************************************)
(* What must hold of TopupPayment, and what the repository says of it that *)
(* the code does not keep.                                                 *)
(***************************************************************************)
EXTENDS TopupPayment

\* What a customer can tell of a voucher.
OutcomeOf(t) ==
  CASE status[t] \in { "CREDITED", "REVERSED" } -> status[t]
    [] status[t] \in RefusedStates -> "REFUSED"
    [] OTHER -> "PENDING"

Voucher ==
  INSTANCE VoucherCredit
  WITH outcome <- [t \in Topups |-> OutcomeOf(t)],
       amount <- [t \in Topups |->
                    IF status[t] \in { "CREDITED", "REVERSED" } THEN amount[t] ELSE 0]

\* Whatever workers, timers and the owner do, every voucher is credited at most once, with
\* what the provider paid or the owner confirmed, and reversed at most once.
VoucherCreditKept == Voucher!Spec

\* What a customer has and has spent is what his vouchers still credited brought, after any
\* race of the worker, the recovery of pending credits, the owner and a reversal.
CreditsAddUp == Voucher!Conservation

-----------------------------------------------------------------------------
(* Invariants *)

\* No blind retry: while a request may be out whose answer nobody has read, the voucher
\* does not wait to be sent again (failureResult, recoverCrashedPayments).
NothingInDoubtIsRetried ==
  \A t \in inDoubt : status[t] \notin { "PAYMENT_QUEUED", "RETRY_WAIT" }

\* Every voucher in MANUAL_REVIEW has a review the owner can decide, wherever it came
\* from: an answer, a lost answer or a crash.
ReviewedIsDecidable ==
  \A t \in Topups : status[t] = "MANUAL_REVIEW" => review[t] = "OPEN"

\* A live lease is for a voucher being processed, so nothing else that looks for queued,
\* waiting or redeemed vouchers touches one that a worker may still record on.
OwnerSeesProcessing ==
  \A w \in Workers : Owns(w) => status[wtopup[w]] = "PROCESSING"

\* A voucher is claimed at most MaxAttempts times, whatever mixture of errors, refusals
\* and crashes ends the attempts.
BoundedDispatch == \A t \in Topups : token[t] <= MaxAttempts

\* A voucher the provider paid is not refused to the customer.  It needs an owner who
\* looks at the provider's books, no process that sleeps longer than its lease, and a
\* database that takes the result (see AmbiguityGoesToTheOwner).
PaidIsNotRefused == \A t \in paid : status[t] \notin RefusedStates

-----------------------------------------------------------------------------
(* Liveness *)

\* Every voucher handed in is credited or refused in the end, if the owner leaves the
\* gate AUTO_CREDIT_ENABLED on (runWorkerLoop, runMaintenance, resolveReview).
EveryVoucherIsAnswered ==
  <>[]autoCredit => \A t \in Topups : status[t] = "PAYMENT_QUEUED" ~> status[t] \in FinalStates

-----------------------------------------------------------------------------
(* What the repository says and the code does not do *)

\* docs/state-machines/contracts.md:7-8, "Uncertain mutations enter Owner-only manual
\* review": a voucher with an unread answer is never simply FAILED.  When the transaction
\* that records an answer fails, the catch block of processClaimedPayment knows only the
\* error of the database and records FAILED.
AmbiguityGoesToTheOwner ==
  \A t \in inDoubt : status[t] \notin { "FAILED" } \cup Refusals
=============================================================================
