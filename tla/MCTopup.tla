------------------------------ MODULE MCTopup ------------------------------
(***************************************************************************)
(* Instances of TopupPayment for TLC: one customer with a small and a      *)
(* large voucher, an owner who may confirm a wrong amount.                 *)
(***************************************************************************)
EXTENDS TopupProperties, TLC

CONSTANTS u1, t1, t2

MCCustomerOf == [t \in Topups |-> u1]
MCFace == [t \in Topups |-> IF t = t1 THEN 1 ELSE 2]

WorkerSymmetry == Permutations(Workers)
=============================================================================
