---------------------------- MODULE MCFulfilment ----------------------------
(***************************************************************************)
(* Instances of Fulfilment for TLC: one customer, one Quest account.       *)
(***************************************************************************)
EXTENDS FulfilmentProperties, TLC

CONSTANTS u1, a1, o1, o2, i1, i2, i3, i4,
          Credit      \* what the customer has before the first order

AllOrders(x) == [o \in Orders |-> x]

\* i1, i2 and i4 belong to the first order, i3 to a later one of the same account.
MCUserOf == AllOrders(u1)
MCAccountOf == AllOrders(a1)
MCOrderOf == [i \in Items |-> IF i = i3 THEN o2 ELSE o1]
MCPosition == [i \in Items |-> CASE i = i1 -> 1 [] i = i2 -> 2 [] OTHER -> 3]
MCPrice == [i \in Items |-> IF i = i1 THEN 1 ELSE 2]
MCFunding == [u \in Users |-> Credit]

WorkerSymmetry == Permutations(Workers)
=============================================================================
