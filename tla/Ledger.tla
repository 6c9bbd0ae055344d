------------------------------- MODULE Ledger --------------------------------
(***************************************************************************)
(* The books of the wallets: every change of a balance enters a hash chain *)
(* of entries (domain/wallet/), a credited top-up may earn a bonus         *)
(* (domain/promotions/resolver.js), and retention replaces what is older   *)
(* than a year by checkpoints (workers/retention-worker.js, migrations     *)
(* 0006 and 0011).                                                         *)
(*                                                                         *)
(* An entry's hash is its number: the hash covers the number and the hash  *)
(* before it.  What comes before a redeemed top-up and what moves an item  *)
(* are in TopupPayment and Fulfilment.  Wallet transactions are            *)
(* SERIALIZABLE and one action each; but the moment at which one begins,   *)
(* which its entries carry as created_at, may lie before the last one that *)
(* it sees.                                                                *)
(***************************************************************************)
EXTENDS Integers, FiniteSets, FiniteSetsExt

CONSTANTS Users, Topups, Items,       \* numbers, in the order of their ids
          UserOfTopup, UserOfItem,
          Face, Price,
          Promoted,                   \* top-ups handed in during the promotion
          Tiers,                      \* its tiers: minimum and basis points
          MaxUses, DailyBonus,        \* its limits for one user
          Adjustments,                \* amounts an owner may enter
          BatchLimit,                 \* 500 in the code
          Reviewable,                 \* bound: items that come under review
          MaxEntries, MaxDays, MaxRefunds, MaxOvertakings   \* bounds

ASSUME LedgerAssumption ==
  /\ Users \subseteq Nat /\ Topups \subseteq Nat /\ Items \subseteq Nat
  /\ IsFiniteSet(Items) /\ IsFiniteSet(Tiers)
  /\ UserOfTopup \in [Topups -> Users] /\ UserOfItem \in [Items -> Users]
  /\ Face \in [Topups -> Nat] /\ Price \in [Items -> Nat] /\ Promoted \subseteq Topups
  /\ Tiers \subseteq [minimum : Nat, points : Nat] /\ \A x \in Tiers : x.points <= 10000
  /\ MaxUses \in Nat \ {0} /\ DailyBonus \in Nat /\ Adjustments \subseteq Int
  /\ BatchLimit \in Nat \ {0} /\ MaxEntries \in Nat /\ MaxDays \in Nat
  /\ Reviewable \subseteq Items /\ MaxRefunds \in Nat /\ MaxOvertakings \in Nat

VARIABLES
  available, reserved,    \* wallets
  ledger,                 \* wallet_transactions
  checkpoint,             \* the newest of wallet_checkpoints
  entered,                \* the number of entries made so far
  topup, bonus,           \* topups, from REDEEMED on
  usage,                  \* promotion_usages
  reservation,            \* wallet_reservations
  refund,                 \* refunds
  returned,               \* how often an item was refunded: history
  overtaken,              \* users with an entry that sorts before one it follows: history
  held,                   \* unresolved reviews of items and top-ups
  day, now, cutoff        \* the clock, and what is a year old by now

walletVars == << available, reserved, ledger, entered, overtaken >>
shopVars   == << topup, bonus, usage, reservation, refund, returned, held >>
clockVars  == << day, cutoff >>
vars == << walletVars, checkpoint, shopVars, clockVars, now >>

None == [through |-> 0, available |-> 0, reserved |-> 0]
NoRefund == [entry |-> 0, at |-> 0]

Init ==
  /\ available = [u \in Users |-> 0] /\ reserved = [u \in Users |-> 0]
  /\ ledger = {} /\ checkpoint = [u \in Users |-> None] /\ entered = 0 /\ overtaken = {}
  /\ topup = [t \in Topups |-> "REDEEMED"] /\ bonus = [t \in Topups |-> 0] /\ usage = {}
  /\ reservation = [i \in Items |-> "NONE"]
  /\ refund = [i \in Items |-> NoRefund] /\ returned = [i \in Items |-> 0] /\ held = {}
  /\ day = 1 /\ now = 0 /\ cutoff = 0

-----------------------------------------------------------------------------
(* A transaction on a wallet: balances and entries.                        *)

\* transaction_timestamp() of a transaction: BEGIN and the first statement, which takes the
\* snapshot, are two messages.  One that has begun may be overtaken in between by the latest.
Times == {now + 2} \cup { moment \in {now - 1} : moment > cutoff /\ Cardinality(overtaken) < MaxOvertakings }

\* ORDER BY created_at, id
Before(e, f) == e.at < f.at \/ (e.at = f.at /\ e.id < f.id)
EntriesOf(u) == { e \in ledger : e.user = u }
Newest(entries) == CHOOSE e \in entries : \A f \in entries : f = e \/ Before(f, e)

\* Mutant: a pruned chain starts afresh.
PreviousKept(u) == IF EntriesOf(u) = {} THEN 0 ELSE Newest(EntriesOf(u)).id
\* previous_hash: of the newest entry, else of the newest checkpoint.
Previous(u) == IF EntriesOf(u) = {} THEN checkpoint[u].through ELSE Newest(EntriesOf(u)).id

Sum(amount, S) == MapThenSumSet(LAMBDA x : amount[x], S)
UpTo(S, x) == { y \in S : y <= x }

\* Mutant: the balances are not looked at.
UpdateWalletUnchecked(u, a, r) ==
  /\ available' = [available EXCEPT ![u] = @ + a]
  /\ reserved'  = [reserved EXCEPT ![u] = @ + r]
UpdateWallet(u, a, r) ==
  /\ available[u] + a >= 0 /\ reserved[u] + r >= 0
  /\ available' = [available EXCEPT ![u] = @ + a]
  /\ reserved'  = [reserved EXCEPT ![u] = @ + r]

Nth(S, x) == Cardinality(UpTo(S, x))
Overtaken(u, at) == \E e \in EntriesOf(u) : at < e.at

\* The entry of x, one of the things in S: what each changes is in a and r.  The newest entry
\* is read again for each of them, and stays the same one if it is newer than the transaction.
Entry(u, type, S, x, a, r, at) ==
  [ id |-> entered + Nth(S, x), user |-> u, at |-> at, type |-> type, about |-> x,
    available |-> available[u] + Sum(a, UpTo(S, x)), reserved |-> reserved[u] + Sum(r, UpTo(S, x)),
    previous |-> IF Nth(S, x) = 1 \/ Overtaken(u, at) THEN Previous(u)
                 ELSE entered + Nth(S, x) - 1 ]

AppendLedger(u, type, S, a, r, at) ==
  /\ entered + Cardinality(S) <= MaxEntries
  /\ ledger' = ledger \cup { Entry(u, type, S, x, a, r, at) : x \in S }
  /\ entered' = entered + Cardinality(S)
  /\ overtaken' = IF Overtaken(u, at) THEN overtaken \cup {u} ELSE overtaken
  /\ now' = IF at > now THEN at ELSE now

Changes(u, type, x, a, r, at) ==
  /\ UpdateWallet(u, a, r)
  /\ AppendLedger(u, type, {x}, [y \in {x} |-> a], [y \in {x} |-> r], at)

-----------------------------------------------------------------------------
(* Orders: reservation, capture, release and refund of items.              *)

ReserveOrderItems(u, S, at) ==
  /\ \A i \in S : UserOfItem[i] = u /\ reservation[i] = "NONE"
  /\ UpdateWallet(u, -Sum(Price, S), Sum(Price, S))
  /\ AppendLedger(u, "RESERVE", S, [i \in S |-> -Price[i]], Price, at)
  /\ reservation' = [i \in Items |-> IF i \in S THEN "RESERVED" ELSE reservation[i]]
  /\ UNCHANGED << checkpoint, topup, bonus, usage, refund, returned, held, clockVars >>

CaptureReservation(i, at) ==
  /\ reservation[i] = "RESERVED"
  /\ Changes(UserOfItem[i], "CAPTURE", i, 0, -Price[i], at)
  /\ reservation' = [reservation EXCEPT ![i] = "CAPTURED"]
  /\ UNCHANGED << checkpoint, topup, bonus, usage, refund, returned, held, clockVars >>

ReleaseReservation(i, at) ==
  /\ reservation[i] = "RESERVED"
  /\ Changes(UserOfItem[i], "RELEASE", i, Price[i], -Price[i], at)
  /\ reservation' = [reservation EXCEPT ![i] = "RELEASED"]
  /\ UNCHANGED << checkpoint, topup, bonus, usage, refund, returned, held, clockVars >>

\* The key of the entry is the item's: one that is still there is taken for this one.
RefundEntries(i) == { e \in ledger : e.type = "REFUND_CREDIT" /\ e.about = i }

RefundCapturedOrderItem(i, at) ==
  LET u == UserOfItem[i] IN
  /\ refund[i] = NoRefund /\ reservation[i] = "CAPTURED" /\ returned[i] < MaxRefunds
  /\ IF RefundEntries(i) = {}
     THEN /\ Changes(u, "REFUND_CREDIT", i, Price[i], 0, at)
          /\ refund' = [refund EXCEPT ![i] = [entry |-> entered + 1, at |-> at]]
     ELSE /\ at > now /\ now' = at /\ UpdateWallet(u, Price[i], 0)
          /\ \E e \in RefundEntries(i) : refund' = [refund EXCEPT ![i] = [entry |-> e.id, at |-> at]]
          /\ UNCHANGED << ledger, entered, overtaken >>
  /\ returned' = [returned EXCEPT ![i] = @ + 1]
  /\ UNCHANGED << checkpoint, topup, bonus, usage, reservation, held, clockVars >>

-----------------------------------------------------------------------------
(* Top-ups and their bonus, adjustments.                                   *)

PercentageBonusHalfUp(principal, points) == (principal * points + 5000) \div 10000

TiersFor(principal) == { x \in Tiers : x.minimum <= principal }
Tier(principal) ==
  CHOOSE x \in TiersFor(principal) : \A y \in TiersFor(principal) : y.minimum <= x.minimum

Uses(u) == { x \in usage : UserOfTopup[x.topup] = u }
UsesOn(u, d) == { x \in Uses(u) : x.day = d }
BonusOn(u, d) == Sum([x \in usage |-> x.bonus], UsesOn(u, d))

Eligible(t) ==
  /\ t \in Promoted
  /\ Cardinality(Uses(UserOfTopup[t])) < MaxUses
  /\ TiersFor(Face[t]) # {}
  /\ BonusOn(UserOfTopup[t], day) < DailyBonus

\* Mutant: the last bonus of a day is paid in full.
BonusInFull(t) == PercentageBonusHalfUp(Face[t], Tier(Face[t]).points)
Bonus(t) ==
  LET full == PercentageBonusHalfUp(Face[t], Tier(Face[t]).points)
      rest == DailyBonus - BonusOn(UserOfTopup[t], day)
  IN IF full > rest THEN rest ELSE full

CreditRedeemedTopup(t, at) ==
  LET extra == IF Eligible(t) THEN Bonus(t) ELSE 0 IN
  /\ topup[t] = "REDEEMED"
  /\ Changes(UserOfTopup[t], "TOPUP_CREDIT", t, Face[t] + extra, 0, at)
  /\ usage' = IF Eligible(t) THEN usage \cup {[topup |-> t, day |-> day, bonus |-> extra]} ELSE usage
  /\ topup' = [topup EXCEPT ![t] = "CREDITED"] /\ bonus' = [bonus EXCEPT ![t] = extra]
  /\ UNCHANGED << checkpoint, reservation, refund, returned, held, clockVars >>

\* What is spent cannot be taken back: a review is opened, which nothing resolves.
ReverseTopup(t, at) ==
  LET u == UserOfTopup[t]  total == Face[t] + bonus[t] IN
  /\ topup[t] = "CREDITED"
  /\ IF available[u] < total
     THEN /\ held' = held \cup {<< "TOPUP", t >>}
          /\ UNCHANGED << walletVars, topup, now >>
     ELSE /\ Changes(u, "TOPUP_REVERSAL", t, -total, 0, at)
          /\ topup' = [topup EXCEPT ![t] = "REVERSED"] /\ UNCHANGED held
  /\ UNCHANGED << checkpoint, bonus, usage, reservation, refund, returned, clockVars >>

AdjustBalance(u, amount, at) ==
  /\ amount # 0
  /\ Changes(u, IF amount > 0 THEN "ADMIN_CREDIT" ELSE "ADMIN_DEBIT", entered + 1, amount, 0, at)
  /\ UNCHANGED << checkpoint, shopVars, clockVars >>

-----------------------------------------------------------------------------
(* Retention: one transaction, in which a reference left behind fails all.  *)

OldRefunds == { i \in Items : refund[i] # NoRefund /\ refund[i].at <= cutoff /\ << "ITEM", i >> \notin held }
PrunedRefunds ==
  { i \in OldRefunds : Cardinality({ j \in OldRefunds : refund[j].at < refund[i].at }) < BatchLimit }

Subject(e) ==
  CASE e.type \in {"RESERVE", "CAPTURE", "RELEASE"} -> << "ITEM", e.about >>
    [] e.type \in {"TOPUP_CREDIT", "TOPUP_REVERSAL"} -> << "TOPUP", e.about >>
    [] OTHER -> << "OTHER", e.about >>

\* An unresolved review keeps all entries of a user that has one on its subject.
Protected(u) == \E e \in EntriesOf(u) : Subject(e) \in held

OldEntries == { e \in ledger : e.at <= cutoff /\ ~Protected(e.user) }

FirstByUser(e, f) == e.user < f.user \/ (e.user = f.user /\ Before(e, f))
PrunedEntries ==
  { e \in OldEntries : Cardinality({ f \in OldEntries : FirstByUser(f, e) }) < BatchLimit }

\* Mutant: the checkpoint is taken before the entries that go.
FirstPruned(entries) == CHOOSE e \in entries : \A f \in entries : f = e \/ Before(e, f)
Boundary(entries) == Newest(entries)

\* A refund that is kept and refers to an entry that goes: the foreign key forbids it.
Dangling(i) == refund[i] # NoRefund /\ i \notin PrunedRefunds /\ \E e \in PrunedEntries : e.id = refund[i].entry

RunRetention ==
  /\ ~\E i \in Items : Dangling(i)
  /\ refund' = [i \in Items |-> IF i \in PrunedRefunds THEN NoRefund ELSE refund[i]]
  /\ checkpoint' =
       [u \in Users |->
          LET gone == { e \in PrunedEntries : e.user = u } IN
          IF gone = {} THEN checkpoint[u]
          ELSE [ through |-> Boundary(gone).id, available |-> Boundary(gone).available,
                 reserved |-> Boundary(gone).reserved ]]
  /\ ledger' = ledger \ PrunedEntries
  /\ UNCHANGED << available, reserved, entered, overtaken, topup, bonus, usage, reservation, returned, held,
                  clockVars, now >>

-----------------------------------------------------------------------------
(* Reviews of items, and time.                                             *)

OpenReview(i) ==
  /\ i \in Reviewable /\ reservation[i] = "RESERVED" /\ << "ITEM", i >> \notin held
  /\ held' = held \cup {<< "ITEM", i >>}
  /\ UNCHANGED << walletVars, checkpoint, topup, bonus, usage, reservation, refund, returned, clockVars,
                  now >>

ResolveReview(i) ==
  /\ << "ITEM", i >> \in held
  /\ held' = held \ {<< "ITEM", i >>}
  /\ UNCHANGED << walletVars, checkpoint, topup, bonus, usage, reservation, refund, returned, clockVars,
                  now >>

DayPasses ==
  /\ day < MaxDays /\ day' = day + 1
  /\ UNCHANGED << walletVars, checkpoint, shopVars, cutoff, now >>

\* What was done up to some moment is now older than a year.
YearPasses ==
  /\ \E moment \in { e.at : e \in ledger } \cup { refund[i].at : i \in Items } :
       moment > cutoff /\ cutoff' = moment
  /\ UNCHANGED << walletVars, checkpoint, shopVars, day, now >>

-----------------------------------------------------------------------------
Transacts(at) ==
  \/ \E u \in Users, S \in (SUBSET Items) \ {{}} : ReserveOrderItems(u, S, at)
  \/ \E i \in Items :
       CaptureReservation(i, at) \/ ReleaseReservation(i, at) \/ RefundCapturedOrderItem(i, at)
  \/ \E t \in Topups : CreditRedeemedTopup(t, at) \/ ReverseTopup(t, at)
  \/ \E u \in Users, amount \in Adjustments : AdjustBalance(u, amount, at)

Next ==
  \/ \E at \in Times : Transacts(at)
  \/ RunRetention \/ \E i \in Items : OpenReview(i) \/ ResolveReview(i)
  \/ DayPasses \/ YearPasses

Spec == Init /\ [][Next]_vars
=============================================================================
