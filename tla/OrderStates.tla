---------------------------- MODULE OrderStates ----------------------------
(***************************************************************************)
(* The value sets and the allowed transition maps of the two state         *)
(* machines an order item goes through: the item itself and the runner job *)
(* that executes it.  A constant module: the sets and maps are the ones of *)
(* domain/orders/states.js and domain/runner/states.js.                    *)
(***************************************************************************)

ReleasedStates == { "EXPIRED_RELEASED", "EXTERNAL_COMPLETED_RELEASED",
                    "STOPPED_RELEASED", "FAILED_RELEASED" }

TerminalItemStates == { "READY_TO_CLAIM" } \cup ReleasedStates

\* domain/orders/states.js ORDER_ITEM_TRANSITIONS
OrderItemTransitions ==
  [ SELECTED           |-> { "RESERVED" },
    RESERVED           |-> { "QUEUED", "EXPIRED_RELEASED", "EXTERNAL_COMPLETED_RELEASED",
                             "STOPPED_RELEASED", "MANUAL_REVIEW" },
    QUEUED             |-> { "LEASED", "EXPIRED_RELEASED", "EXTERNAL_COMPLETED_RELEASED",
                             "STOPPED_RELEASED", "MANUAL_REVIEW" },
    LEASED             |-> { "RUNNING", "QUEUED", "EXPIRED_RELEASED",
                             "EXTERNAL_COMPLETED_RELEASED", "STOPPED_RELEASED", "MANUAL_REVIEW" },
    RUNNING            |-> { "VERIFYING", "WAITING_RATE_LIMIT", "WAITING_RETRY",
                             "FAILED_RELEASED", "MANUAL_REVIEW" },
    VERIFYING          |-> { "SETTLING", "WAITING_RETRY", "FAILED_RELEASED", "MANUAL_REVIEW" },
    WAITING_RATE_LIMIT |-> { "RUNNING", "FAILED_RELEASED", "MANUAL_REVIEW" },
    WAITING_RETRY      |-> { "QUEUED", "RUNNING", "FAILED_RELEASED", "MANUAL_REVIEW" },
    MANUAL_REVIEW      |-> { "QUEUED", "SETTLING" } \cup ReleasedStates,
    SETTLING           |-> { "READY_TO_CLAIM", "FAILED_RELEASED", "MANUAL_REVIEW" },
    READY_TO_CLAIM               |-> {},
    EXPIRED_RELEASED             |-> {},
    EXTERNAL_COMPLETED_RELEASED  |-> {},
    STOPPED_RELEASED             |-> {},
    FAILED_RELEASED              |-> {} ]

\* domain/runner/states.js RUNNER_JOB_TRANSITIONS
RunnerJobTransitions ==
  [ QUEUED             |-> { "LEASED", "FAILED" },
    LEASED             |-> { "RUNNING", "QUEUED", "FAILED", "MANUAL_REVIEW" },
    RUNNING            |-> { "WAITING_RATE_LIMIT", "WAITING_RETRY", "VERIFYING",
                             "FAILED", "MANUAL_REVIEW" },
    WAITING_RATE_LIMIT |-> { "QUEUED", "RUNNING", "FAILED", "MANUAL_REVIEW" },
    WAITING_RETRY      |-> { "QUEUED", "RUNNING", "FAILED", "MANUAL_REVIEW" },
    VERIFYING          |-> { "SETTLING", "WAITING_RETRY", "FAILED", "MANUAL_REVIEW" },
    SETTLING           |-> { "COMPLETED", "FAILED", "MANUAL_REVIEW" },
    MANUAL_REVIEW      |-> { "QUEUED", "SETTLING", "FAILED" },
    COMPLETED          |-> {},
    FAILED             |-> {} ]

\* A row that has not been inserted yet.
Absent == "ABSENT"

ItemState == DOMAIN OrderItemTransitions \cup { Absent }
JobState  == DOMAIN RunnerJobTransitions \cup { Absent }

\* assertTransition(graph, from, to) does not throw.
MayMove(graph, from, to) == from \in DOMAIN graph /\ to \in graph[from]

\* The pairs of states one transaction connects through a state nobody else sees:
\* transitionToSettling by VERIFYING, an operator's CAPTURE by SETTLING.
ComposedItemMoves == { << "RUNNING", "SETTLING" >>, << "MANUAL_REVIEW", "READY_TO_CLAIM" >> }
=============================================================================
