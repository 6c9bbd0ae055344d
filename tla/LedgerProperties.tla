-------------------------- MODULE LedgerProperties ---------------------------
(***************************************************************************)
(* What the books promise.                                                 *)
(***************************************************************************)
EXTENDS Ledger

EntryTypes == { "TOPUP_CREDIT", "TOPUP_REVERSAL", "RESERVE", "CAPTURE", "RELEASE", "ADMIN_CREDIT",
                "ADMIN_DEBIT", "REFUND_CREDIT" }

BooksOK ==
  /\ available \in [Users -> Nat] /\ reserved \in [Users -> Nat]
  /\ ledger \subseteq [ id : 1 .. entered, user : Users, at : 1 .. now, type : EntryTypes, about : Nat,
                        available : Nat, reserved : Nat, previous : 0 .. entered ]
  /\ checkpoint \in [Users -> [through : 0 .. entered, available : Nat, reserved : Nat]]
  /\ entered \in Nat /\ overtaken \subseteq Users /\ now \in Nat

TopupsOK ==
  /\ topup \in [Topups -> {"REDEEMED", "CREDITED", "REVERSED"}] /\ bonus \in [Topups -> Nat]
  /\ usage \subseteq [topup : Topups, day : 1 .. day, bonus : Nat]
  /\ day \in Nat \ {0}

ItemsOK ==
  /\ reservation \in [Items -> {"NONE", "RESERVED", "CAPTURED", "RELEASED"}]
  /\ refund \in [Items -> [entry : 0 .. entered, at : 0 .. now]] /\ returned \in [Items -> Nat]
  /\ held \subseteq ({"ITEM"} \X Items) \cup ({"TOPUP"} \X Topups)
  /\ cutoff \in 0 .. now

\* Typing of the tables; balances and their copies in entries and checkpoints are not negative
\* (the CHECKs of migration 0001).
TypeOK == BooksOK /\ TopupsOK /\ ItemsOK

\* Users for whom no transaction was overtaken between its BEGIN and its first look, and none
\* of whose items was refunded a second time.
Regular == { u \in Users \ overtaken : \A i \in Items : UserOfItem[i] = u => returned[i] <= 1 }

\* What the books say of a wallet.
Last(u) == IF EntriesOf(u) = {} THEN checkpoint[u] ELSE Newest(EntriesOf(u))

\* The audit that closes the shop when it fails (applyFinancialAlerts of the alert worker, and
\* scripts/restore-drill.js:51): a wallet is what its newest entry says, or, when all are
\* pruned, its checkpoint.
WalletMatchesLedger ==
  \A u \in Regular :
    available[u] = Last(u).available /\ reserved[u] = Last(u).reserved

Earlier(u, e) == { f \in EntriesOf(u) : Before(f, e) }

\* "Append-only hash chain" (docs/architecture/definition-of-done.md:9): each entry carries the
\* hash of the one before it, the first of those kept that of the last one pruned.
ChainIsUnbroken ==
  \A u \in Users \ overtaken : \A e \in EntriesOf(u) :
    e.previous = IF Earlier(u, e) = {} THEN checkpoint[u].through ELSE Newest(Earlier(u, e)).id

\* No user gets more than the promotion's bonus of a day or more than its number of uses, in
\* whatever order his top-ups are credited, reversed, and days pass.
BonusIsLimited ==
  \A u \in Users :
    /\ Cardinality(Uses(u)) <= MaxUses
    /\ \A d \in 1 .. day : Sum(bonus, { x.topup : x \in UsesOn(u, d) }) <= DailyBonus

\* A run of retention never fails on an entry that a refund it keeps refers to: one that failed
\* would fail for ever, since all is undone and the next run selects the same rows.
RetentionGoesThrough == ~\E i \in Items : Dangling(i)

\* What the restore drill checks of every backup (scripts/restore-drill.js:63): a credited
\* top-up has its entry.
CreditedPaymentsHaveLedger ==
  \A t \in Topups : topup[t] = "CREDITED" => \E e \in ledger : e.type = "TOPUP_CREDIT" /\ e.about = t

\* An item is refunded at most once ("idempotent captured-item refund",
\* docs/architecture/traceability.md:10).
RefundedOnce == \A i \in Items : returned[i] <= 1
=============================================================================
