------------------------------- MODULE Escrow -------------------------------
(***************************************************************************)
(* What the shop promises about a customer's money, whatever workers,      *)
(* timers and operators do: the price of an ordered item is taken out of   *)
(* the available balance once, when the order is confirmed; it is then     *)
(* either taken by the shop or returned, once and for good; what was taken *)
(* can be refunded, once and in full.                                      *)
(*                                                                         *)
(* The abstract specification of domain/wallet/service.js (reservation,    *)
(* capture, release, refund), stated without orders, jobs or leases.       *)
(***************************************************************************)
EXTENDS Integers, FiniteSetsExt

CONSTANTS Users,            \* discord_user_id of the wallets
          Items,            \* order_item_id
          Payer,            \* [Items -> Users]
          Price,            \* [Items -> Nat \ {0}], wallet_reservations.amount_cents
          Funding           \* [Users -> Nat], the credit a wallet starts with

VARIABLES available,        \* wallets.available_cents
          reserved,         \* wallets.reserved_cents
          reservation,      \* wallet_reservations.state, "NONE" before the row exists
          refunded          \* the items with a row in refunds

vars == << available, reserved, reservation, refunded >>

Total(S) == MapThenSumSet(LAMBDA i : Price[i], S)

Init ==
  /\ available = Funding
  /\ reserved = [u \in Users |-> 0]
  /\ reservation = [i \in Items |-> "NONE"]
  /\ refunded = {}

\* The items of one order are paid for together or not at all.
Reserve(u, S) ==
  /\ S # {}
  /\ \A i \in S : Payer[i] = u /\ reservation[i] = "NONE"
  /\ Total(S) <= available[u]
  /\ available' = [available EXCEPT ![u] = @ - Total(S)]
  /\ reserved' = [reserved EXCEPT ![u] = @ + Total(S)]
  /\ reservation' = [i \in Items |-> IF i \in S THEN "RESERVED" ELSE reservation[i]]
  /\ UNCHANGED refunded

Capture(i) ==
  /\ reservation[i] = "RESERVED"
  /\ reservation' = [reservation EXCEPT ![i] = "CAPTURED"]
  /\ reserved' = [reserved EXCEPT ![Payer[i]] = @ - Price[i]]
  /\ UNCHANGED << available, refunded >>

Release(i) ==
  /\ reservation[i] = "RESERVED"
  /\ reservation' = [reservation EXCEPT ![i] = "RELEASED"]
  /\ reserved' = [reserved EXCEPT ![Payer[i]] = @ - Price[i]]
  /\ available' = [available EXCEPT ![Payer[i]] = @ + Price[i]]
  /\ UNCHANGED refunded

Refundable(i) == reservation[i] = "CAPTURED" /\ i \notin refunded

Refund(i) ==
  /\ Refundable(i)
  /\ refunded' = refunded \cup { i }
  /\ available' = [available EXCEPT ![Payer[i]] = @ + Price[i]]
  /\ UNCHANGED << reserved, reservation >>

Next ==
  \/ \E u \in Users, S \in SUBSET Items : Reserve(u, S)
  \/ \E i \in Items : Capture(i) \/ Release(i) \/ Refund(i)

Spec == Init /\ [][Next]_vars

-----------------------------------------------------------------------------
ItemsIn(u, states) == { i \in Items : Payer[i] = u /\ reservation[i] \in states }

\* No money is lost or made: what a customer put in is available, on hold, or kept by
\* the shop for an item it delivered.
Conservation ==
  \A u \in Users :
    /\ reserved[u] = Total(ItemsIn(u, { "RESERVED" }))
    /\ available[u] + reserved[u] + Total(ItemsIn(u, { "CAPTURED" }) \ refunded) = Funding[u]
=============================================================================
