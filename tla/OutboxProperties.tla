-------------------------- MODULE OutboxProperties --------------------------
(***************************************************************************)
(* What the outbox promises: typing, what the runs check of every state,   *)
(* and what must eventually happen.                                        *)
(***************************************************************************)
EXTENDS Outbox

Message == [shows : 0 .. MaxChanges, kept : BOOLEAN, recent : BOOLEAN]

ProjectionsOK ==
  /\ content \in 0 .. MaxChanges /\ revision \in 0 .. MaxChanges
  /\ desired \in [Projections -> Nat] /\ delivered \in [Projections -> Nat]
  /\ recorded \in [Projections -> Nat] /\ ptoken \in [Projections -> Nat]
  /\ plive \subseteq Projections /\ dmTried \subseteq OrderDms
  /\ surface \in [Projections -> {"ACTIVE", "DRIFTED", "RECONCILING"}]

EventsOK ==
  /\ state \in [Keys -> {"NONE", "PENDING", "LEASED", "RETRY_WAIT", "DELIVERED", "DEAD_LETTER"}]
  /\ of \in [Keys -> Projections]
  /\ token \in [Keys -> Nat] /\ bound \in [Keys -> Nat] /\ live \subseteq Keys
  /\ deadLetter \in [Keys -> {"NONE", "DEAD_LETTER", "PENDING", "RESOLVED", "DISCARDED"}]
  /\ replay \in [Keys -> {0} \cup Replays]

ChannelOK == channel \in [Projections -> Seq(Message)] /\ suffered \subseteq Faults

LoopsOK ==
  /\ wpc \in [Deliverers -> { "idle", "taken", "claim", "render", "fetch", "edit", "search", "send",
                              "check", "record", "fail" }]
  /\ wevent \in [Deliverers -> {0} \cup Keys]
  /\ wtoken \in [Deliverers -> Nat] /\ wrow \in [Deliverers -> Nat]
  /\ wbody \in [Deliverers -> 0 .. MaxChanges] /\ wposted \in [Deliverers -> Nat]
  /\ werror \in [Deliverers -> {"none", "other", "forbidden", "message", "channel"}]

\* Typing of the tables and of the delivery loops (migrations 0001, 0003, 0013).
TypeOK == ProjectionsOK /\ EventsOK /\ ChannelOK /\ LoopsOK

Outstanding(k) == Queued(k) \/ state[k] = "LEASED"
Shows(p, version) == \E m \in Kept(p) : channel[p][m].shows >= version
Buried(p) == \E k \in Keys : of[k] = p /\ state[k] = "DEAD_LETTER"

\* A projection whose wanted version was not acknowledged has an event that will bring it,
\* or a dead letter that tells an administrator: enqueueing, coalescing, failing and
\* replaying together never leave it behind.  (ORDER_DM is best effort and may be.)
WantedIsScheduled ==
  \A p \in Projections \ OrderDms :
    desired[p] > delivered[p] => Buried(p) \/ \E k \in Keys : of[k] = p /\ Outstanding(k)

\* The summary of an order is posted at most once, whoever crashes, stalls or gets no
\* answer: claimOrderDmAttempt comes before every send and a failed attempt is not retried.
OrderDmAtMostOnce == \A p \in OrderDms : Len(channel[p]) <= 1

\* Every event is delivered or becomes a dead letter, however often its worker dies.
EveryEventSettles == \A k \in Keys : Outstanding(k) ~> ~Outstanding(k)

\* A change that waits while no rendering of its projection is under way and no message is
\* out that the row does not know of is shown in the end, or an administrator is told; a
\* lookup that failed, or a message or channel that went away, voids the promise.
Quiet(p) ==
  /\ \E k \in Keys : of[k] = p /\ Queued(k)
  /\ \A w \in Deliverers : wpc[w] # "idle" /\ Target(w) = p => wpc[w] \in {"taken", "render"}
  /\ channel[p] = << >> \/ recorded[p] \in Kept(p)
Disturbed == suffered \cap {"fetch", "forget", "delete", "channel"} # {}

QuietChangeIsShown ==
  \A p \in Projections \ OrderDms, version \in Changes :
    (content = version /\ Quiet(p)) ~> (Shows(p, version) \/ Buried(p) \/ Disturbed)

\* "One successful render is the latest state of the projection" (recordDelivery): when every
\* event is delivered and no delivery is under way, the message shows the current data.
LatestStateIsShown ==
  (\A w \in Deliverers : wpc[w] = "idle") /\ (\A k \in Keys : state[k] \in {"NONE", "DELIVERED"})
    => \A p \in Projections : desired[p] > 0 => Shows(p, content)

\* A dead letter that is being replayed has a replay under way: it does not stay PENDING,
\* where it can be neither replayed nor discarded, after its replay has ended.
ReplayIsUnderWay ==
  \A k \in Keys : deadLetter[k] = "PENDING" => Outstanding(replay[k])
=============================================================================
