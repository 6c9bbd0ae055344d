----------------------------- MODULE MCCheckout -----------------------------
(***************************************************************************)
(* Instances of Checkout for TLC: from nothing, or from two sessions the   *)
(* customer has opened for one account.  Their first quest is selected, and *)
(* in the second, at least, quoted; the forms they came from are closed.   *)
(***************************************************************************)
EXTENDS CheckoutProperties, TLC

Opened == {1, 2}
Underway ==
  /\ state = [s \in Sessions |-> IF s \in Opened THEN "ACTIVE" ELSE "TERMINAL"]
  /\ operation = [s \in Sessions |-> IF s \in Opened THEN "CHECKOUT" ELSE "TOKEN_ENTRY"]
  /\ message = [s \in Sessions |-> "none"]
  /\ account = [s \in Sessions |-> IF s \in Opened THEN CHOOSE a \in Accounts : TRUE ELSE Nothing]
  /\ version = [s \in Sessions |-> 1] /\ page = [s \in Sessions |-> 0]
  /\ \E first \in {"selection", "quote"} :
       view = [s \in Sessions |-> IF s = 1 THEN first ELSE IF s = 2 THEN "quote" ELSE "none"]
  /\ selected = [s \in Sessions |-> IF s \in Opened THEN {1} ELSE {}]
  /\ quoted = [s \in Sessions |-> IF view[s] = "quote" THEN selected[s] ELSE {}]
  /\ fresh = Opened /\ moved = Sessions /\ credential = Opened
  /\ rule = [q \in Quests |-> CHOOSE r \in Rules : TRUE] /\ onSale = Quests
  /\ option = [s \in Sessions |-> IF s \in Opened THEN rule ELSE [q \in Quests |-> Nothing]]
  /\ order = [s \in Sessions |-> Nothing] /\ open = {} /\ busy = {}
  /\ config = 1 /\ blocked = FALSE /\ done = [a \in Accounts |-> {}] /\ events = 0
  /\ mem = [h \in Handlers |-> Idle]

Fair == WF_vars(ExpireSessions) /\ \A s \in Sessions : WF_vars(SessionTimesOut(s))
MCSpec == (Init \/ Underway) /\ [][Next]_vars /\ Fair
=============================================================================
