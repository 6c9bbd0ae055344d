--------------------------- MODULE VoucherCredit ---------------------------
(***************************************************************************)
(* What the shop promises about a voucher a customer hands in, whatever    *)
(* workers, timers and the owner do: it is credited at most once, only     *)
(* when the shop was paid or the owner confirmed it, and a credit is taken *)
(* back at most once, never below an empty balance.                        *)
(*                                                                         *)
(* The abstract specification of domain/payments/service.js and of the     *)
(* top-up operations of domain/wallet/service.js, stated without leases,   *)
(* attempts or circuits.                                                   *)
(***************************************************************************)
EXTENDS Integers, FiniteSetsExt

CONSTANTS Users,            \* discord_user_id of the wallets
          Topups,           \* the vouchers, one topups row each
          CustomerOf,       \* [Topups -> Users], topups.discord_user_id
          Face,             \* [Topups -> Nat \ {0}], what the provider pays for it
          OwnerAmounts      \* SUBSET (Nat \ {0}), what the owner may confirm

VARIABLES outcome,          \* [Topups -> { PENDING, CREDITED, REFUSED, REVERSED }]
          amount,           \* [Topups -> Nat]: topups.amount_cents once credited, else 0
          paid,             \* SUBSET Topups: the provider has paid the shop
          confirmed,        \* SUBSET Topups: the owner decided CREDIT
          balance,          \* [Users -> Nat]: wallets.available_cents
          spent             \* [Users -> Nat]: what went into orders

vars == << outcome, amount, paid, confirmed, balance, spent >>

Init ==
  /\ outcome = [t \in Topups |-> "PENDING"]
  /\ amount = [t \in Topups |-> 0]
  /\ paid = {} /\ confirmed = {}
  /\ balance = [u \in Users |-> 0]
  /\ spent = [u \in Users |-> 0]

\* The provider pays; it is not asked for permission.
Pay(t) ==
  /\ paid' = paid \cup { t }
  /\ UNCHANGED << outcome, amount, confirmed, balance, spent >>

Credit(t, a) ==
  /\ outcome[t] = "PENDING"
  /\ outcome' = [outcome EXCEPT ![t] = "CREDITED"]
  /\ amount' = [amount EXCEPT ![t] = a]
  /\ balance' = [balance EXCEPT ![CustomerOf[t]] = @ + a]
  /\ UNCHANGED << paid, spent >>

CreditPaid(t) == t \in paid /\ Credit(t, Face[t]) /\ UNCHANGED confirmed

CreditConfirmed(t) ==
  /\ \E a \in OwnerAmounts : Credit(t, a)
  /\ confirmed' = confirmed \cup { t }

Refuse(t) ==
  /\ outcome[t] = "PENDING"
  /\ outcome' = [outcome EXCEPT ![t] = "REFUSED"]
  /\ UNCHANGED << amount, paid, confirmed, balance, spent >>

Reverse(t) ==
  /\ outcome[t] = "CREDITED"
  /\ balance[CustomerOf[t]] >= amount[t]
  /\ outcome' = [outcome EXCEPT ![t] = "REVERSED"]
  /\ balance' = [balance EXCEPT ![CustomerOf[t]] = @ - amount[t]]
  /\ UNCHANGED << amount, paid, confirmed, spent >>

\* The customer orders something (module Fulfilment).
Spend(u, x) ==
  /\ x \in 1..balance[u]
  /\ balance' = [balance EXCEPT ![u] = @ - x]
  /\ spent' = [spent EXCEPT ![u] = @ + x]
  /\ UNCHANGED << outcome, amount, paid, confirmed >>

Next ==
  \/ \E t \in Topups : Pay(t) \/ CreditPaid(t) \/ CreditConfirmed(t) \/ Refuse(t) \/ Reverse(t)
  \/ \E u \in Users : \E x \in 1..balance[u] : Spend(u, x)

Spec == Init /\ [][Next]_vars

-----------------------------------------------------------------------------
\* What a customer has and has spent is what the vouchers still credited brought.
Conservation ==
  \A u \in Users :
    balance[u] + spent[u] =
      MapThenSumSet(LAMBDA t : amount[t],
                    { t \in Topups : CustomerOf[t] = u /\ outcome[t] = "CREDITED" })
=============================================================================
