------------------------------ MODULE MCOutbox ------------------------------
(***************************************************************************)
(* Instances of Outbox for TLC: a log message and the direct messages of   *)
(* one aggregate.                                                          *)
(***************************************************************************)
EXTENDS OutboxProperties, TLC

CONSTANTS log, dm

Alone(p) == [to |-> << p >>, raises |-> TRUE]

LogOnly    == { Alone(log) }
LogAndDm   == { Alone(log), Alone(dm) }
\* creditRedeemedTopup: the payment log and the receipt, in one transaction.
LogWithDm  == { [to |-> << log, dm >>, raises |-> TRUE] }
=============================================================================
