------------------------ MODULE FulfilmentProperties ------------------------
(***************************************************************************)
(* What must hold of Fulfilment, and what the repository says of it that   *)
(* the code does not keep.                                                 *)
(***************************************************************************)
EXTENDS Fulfilment

Escrow == INSTANCE Escrow

-----------------------------------------------------------------------------
(* Invariants *)

\* What a customer is told about an item agrees with what happened to the money: an
\* item is claimable only once its price was taken, shown as released only once the
\* price was given back, and no step of a worker, the maintenance loop or an operator
\* leaves money held by an item that is already over (domain/wallet/service.js).
SettlementAgreement ==
  \A i \in Items :
    /\ item[i] = "READY_TO_CLAIM" => reservation[i] = "CAPTURED"
    /\ item[i] \in ReleasedStates => reservation[i] = "RELEASED"
    /\ item[i] = Absent <=> reservation[i] = "NONE"

\* While the price of one of its items is held, an order is open, its account stays
\* locked for it and the token it needs to go on is still stored: no settlement of
\* another item may close the order early (finalizeOrderIfTerminal).
HeldMoneyKeepsOrderOpen ==
  \A i \in Items : reservation[i] = "RESERVED" =>
    LET o == OrderOf[i] IN
      order[o] = "OPEN" /\ o \in credential /\ accountLock[AccountOf[o]] = o

\* An order has its token stored and its account locked exactly as long as it is open,
\* so at most one order of an account is open (active_quest_accounts) and the token is
\* gone when the order is completed.
OpenOrdersHoldAccountAndToken ==
  \A o \in Orders :
    /\ order[o] = "OPEN" <=> o \in credential
    /\ order[o] = "OPEN" <=> \E a \in Accounts : accountLock[a] = o
    /\ order[o] = "OPEN" => accountLock[AccountOf[o]] = o

\* The two balances of a wallet are what the reservations and refunds of its items make
\* of its funding, after any interleaving of settlements, retries and decisions.
WalletMatchesReservations == Escrow!Conservation

\* A crashed execution is retried beside a pending request to Discord at most once: what
\* recovery overlooks, because its snapshot is older, is a request of the very dispatch it
\* ends.  The next dispatch may not send while that request is pending (prepareMutation),
\* and the recovery of that dispatch sees it (recoverCrashedRunnerJobs).
EarlierRequestIsSeen ==
  \A i \in Items : job[i] = "WAITING_RETRY" /\ mutation[i] \in { "IN_FLIGHT", "ACCEPTED", "UNCERTAIN" } =>
    attempt[i] = token[i]

\* A worker that still owns its job finds job and item in the state its own step left
\* them in: recovery, deadlines and operators take the ownership away with the state.
OwnerSeesItsStage ==
  \A w \in Workers : Owns(w) =>
    LET i == witem[w] IN
    /\ wpc[w] \in { "leased", "released" } => job[i] = "LEASED"
    /\ wpc[w] \in { "running", "sending", "verifying", "retrying" } =>
         job[i] = "RUNNING" /\ item[i] = "RUNNING"
    /\ wpc[w] = "settling" => job[i] = "SETTLING" /\ item[i] = "SETTLING"
    /\ wpc[w] = "captured" => job[i] = "SETTLING" /\ reservation[i] = "CAPTURED"

\* Money held by an item under review can be decided about: the review is open.
HeldReviewIsOpen ==
  \A i \in Items : reservation[i] = "RESERVED" /\ item[i] = "MANUAL_REVIEW" => review[i] = "OPEN"

-----------------------------------------------------------------------------
(* Action properties and the abstract specification *)

FollowsMap(graph, composed, from, to) == MayMove(graph, from, to) \/ << from, to >> \in composed

\* As long as the price of an item is held, the item moves only along the transition
\* map of domain/orders/states.js, also where a handler updates it without asking.
HeldItemsFollowMap ==
  [][\A i \in Items : reservation[i] = "RESERVED" /\ item'[i] # item[i] =>
       FollowsMap(OrderItemTransitions, ComposedItemMoves, item[i], item'[i])]_vars

\* Whatever interleaves, each step does to the money what the escrow promises or
\* nothing: a price is taken or returned once and for good, and refunded at most once.
EscrowIsKept == Escrow!Spec

-----------------------------------------------------------------------------
(* Liveness *)

\* A price that was put on hold is eventually taken or returned.
HeldMoneyIsSettled ==
  \A i \in Items : reservation[i] = "RESERVED" ~> reservation[i] \in { "CAPTURED", "RELEASED" }

-----------------------------------------------------------------------------
(* What the repository says and the code does not keep *)

\* acquireRunnableJob treats a QUEUED job whose item is not QUEUED as a conflict.
QueuedJobHasQueuedItem ==
  \A i \in Items : job[i] = "QUEUED" => item[i] = "QUEUED"

\* An execution that may have left a request behind waits for a review, not for a retry.
AmbiguityIsRetained ==
  \A i \in inDoubt : job[i] # "WAITING_RETRY"

\* "A worker crash with an IN_FLIGHT, ACCEPTED or UNCERTAIN mutation enters Manual Review."
NothingPendingIsRetried ==
  \A i \in Items : job[i] = "WAITING_RETRY" =>
    mutation[i] \notin { "IN_FLIGHT", "ACCEPTED", "UNCERTAIN" }

\* A job is dispatched MaxAttempts times at most, unless a review sent it back.
BoundedRetry ==
  \A i \in Items : token[i] > MaxAttempts => review[i] # "NONE"

\* Once every price of an order is settled, the order is completed.
SettledOrderIsCompleted ==
  \A o \in Orders : (\A i \in ItemsOf(o) : reservation[i] \in { "CAPTURED", "RELEASED" })
    => order[o] = "COMPLETED"
=============================================================================
