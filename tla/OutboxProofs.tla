----------------------------- MODULE OutboxProofs -----------------------------
(***************************************************************************)
(* Theorems about Outbox, for every value of its constants: typing, that   *)
(* an order's summary is posted at most once, and that a projection which  *)
(* is named first by every change that enqueues it is never left behind.   *)
(***************************************************************************)
EXTENDS OutboxProperties, FiniteSetTheorems, SequenceTheorems, TLAPS

USE DEF projectionVars, eventVars, letterVars, rows, loopVars

-----------------------------------------------------------------------------
(* The inductive invariant *)

\* The keys of changes to come are free, a loop works on an event that is there, and claims only
\* the summary of an order.
EventsInv ==
  /\ \A k \in Changes : k > revision => state[k] = "NONE"
  /\ \A w \in Deliverers : wpc[w] # "idle" => wevent[w] \in Keys /\ state[wevent[w]] # "NONE"
  /\ \A w \in Deliverers : wpc[w] = "claim" => Target(w) \in OrderDms

\* A loop on its way to publish projection p.
Publishes(w, p) == wpc[w] \in {"render", "fetch", "edit", "search", "send"} /\ Target(w) = p

\* The claim comes before every publication of an order's summary: at most one loop is on its
\* way, nobody is after one has posted, and nothing is posted that was not claimed.
SummaryInv(p) ==
  /\ Len(channel[p]) <= 1
  /\ p \notin dmTried => Len(channel[p]) = 0
  /\ \A w \in Deliverers : Publishes(w, p) => p \in dmTried /\ Len(channel[p]) = 0
  /\ \A v, w \in Deliverers : Publishes(v, p) /\ Publishes(w, p) => v = w

SummariesInv == \A p \in OrderDms : SummaryInv(p)

\* A projection every change of which raises the aggregate's version and names it first.
NamedFirst(p) ==
  \A write \in Writes : (\E n \in DOMAIN write.to : write.to[n] = p) => write.raises /\ Head(write.to) = p

\* What WantedIsScheduled says of one projection.
Scheduled(p) == desired[p] > delivered[p] => Buried(p) \/ \E k \in Keys : of[k] = p /\ Outstanding(k)
NamedAreScheduled == \A p \in Projections \ OrderDms : NamedFirst(p) => Scheduled(p)

OutboxInv == TypeOK /\ EventsInv /\ SummariesInv /\ NamedAreScheduled

-----------------------------------------------------------------------------
(* Operators *)

\* Keys are numbers; those of changes and of replays differ.
LEMMA KeysType == Changes \subseteq Nat \ {0} /\ Replays \subseteq Nat \ {0} /\ Changes \cap Replays = {}
BY OutboxAssumption DEF Changes, Replays

\* A change wants one more version each time it names a projection, and not without.
LEMMA WantedType ==
  ASSUME desired \in [Projections -> Nat], NEW write \in Writes
  PROVE  /\ Wanted(write) \in [Projections -> Nat]
         /\ \A p \in Projections : (\A n \in DOMAIN write.to : write.to[n] # p) => Wanted(write)[p] = desired[p]
<1>1. ASSUME NEW p \in Projections
      PROVE  /\ Cardinality({ n \in DOMAIN write.to : write.to[n] = p }) \in Nat
             /\ (\A n \in DOMAIN write.to : write.to[n] # p) => Cardinality({ n \in DOMAIN write.to : write.to[n] = p }) = 0
  <2>1. DOMAIN write.to = 1 .. Len(write.to) /\ Len(write.to) \in Nat
    BY WriteAssumption, LenProperties
  <2>2. IsFiniteSet(DOMAIN write.to)
    BY <2>1, FS_Interval
  <2>3. IsFiniteSet({ n \in DOMAIN write.to : write.to[n] = p })
    BY <2>2, FS_Subset
  <2>4. (\A n \in DOMAIN write.to : write.to[n] # p) => { n \in DOMAIN write.to : write.to[n] = p } = {}
    OBVIOUS
  <2> QED BY <2>3, <2>4, FS_CardinalityType, FS_EmptySet
<1> QED BY <1>1 DEF Wanted

\* A message more.
LEMMA PostedType ==
  ASSUME channel \in [Projections -> Seq(Message)], NEW p \in Projections, NEW body \in 0 .. MaxChanges
  PROVE  Posted(p, body) \in Seq(Message) /\ Len(Posted(p, body)) = Len(channel[p]) + 1
<1>1. [shows |-> body, kept |-> TRUE, recent |-> TRUE] \in Message
  BY DEF Message
<1> QED BY <1>1 DEF Posted

\* A message that is changed: what it shows, or that it is gone.
LEMMA MessageType ==
  ASSUME NEW msg \in Message
  PROVE  /\ \A body \in 0 .. MaxChanges : [msg EXCEPT !.shows = body] \in Message
         /\ [msg EXCEPT !.kept = FALSE] \in Message
         /\ [msg EXCEPT !.recent = FALSE] \in Message
BY DEF Message

\* The channel stays typed when one message of it is edited, and no message is added.
LEMMA EditType ==
  ASSUME channel \in [Projections -> Seq(Message)], NEW w \in Deliverers, Target(w) \in Projections,
         wrow[w] \in Messages(Target(w)), wbody[w] \in 0 .. MaxChanges
  PROVE  /\ EditMessage(w) \in [Projections -> Seq(Message)]
         /\ \A p \in Projections : Len(EditMessage(w)[p]) = Len(channel[p])
<1> DEFINE p == Target(w)
           new == [channel[p][wrow[w]] EXCEPT !.shows = wbody[w]]
<1>1. channel[p] \in Seq(Message) /\ wrow[w] \in 1 .. Len(channel[p])
  BY DEF Messages
<1>2. channel[p][wrow[w]] \in Message
  BY <1>1, ElementOfSeq
<1>3. new \in Message
  BY <1>2, MessageType
<1>4. [channel[p] EXCEPT ![wrow[w]] = new] \in Seq(Message) /\ Len([channel[p] EXCEPT ![wrow[w]] = new]) = Len(channel[p])
  BY <1>1, <1>3, ExceptSeq
<1>5. EditMessage(w) = [channel EXCEPT ![p] = [channel[p] EXCEPT ![wrow[w]] = new]]
  BY DEF EditMessage
<1> QED BY <1>4, <1>5

\* The same for a message that is deleted.
LEMMA DeleteType ==
  ASSUME channel \in [Projections -> Seq(Message)], NEW p \in Projections, NEW m \in Messages(p), MessageDeleted(p, m)
  PROVE  channel' \in [Projections -> Seq(Message)] /\ \A q \in Projections : Len(channel'[q]) = Len(channel[q])
<1> DEFINE new == [channel[p][m] EXCEPT !.kept = FALSE]
<1>1. channel[p] \in Seq(Message) /\ m \in 1 .. Len(channel[p])
  BY DEF Messages
<1>2. channel[p][m] \in Message
  BY <1>1, ElementOfSeq
<1>3. new \in Message
  BY <1>2, MessageType
<1>4. [channel[p] EXCEPT ![m] = new] \in Seq(Message) /\ Len([channel[p] EXCEPT ![m] = new]) = Len(channel[p])
  BY <1>1, <1>3, ExceptSeq
<1>5. channel' = [channel EXCEPT ![p] = [channel[p] EXCEPT ![m] = new]]
  BY DEF MessageDeleted
<1> QED BY <1>4, <1>5

\* And for messages that grow old.
LEMMA ForgetType ==
  ASSUME channel \in [Projections -> Seq(Message)], NEW p \in Projections, NonceForgotten(p)
  PROVE  channel' \in [Projections -> Seq(Message)] /\ \A q \in Projections : Len(channel'[q]) = Len(channel[q])
<1> DEFINE old == [m \in Messages(p) |-> [channel[p][m] EXCEPT !.recent = FALSE]]
<1>1. channel[p] \in Seq(Message) /\ Len(channel[p]) \in Nat /\ Messages(p) = 1 .. Len(channel[p])
  BY LenProperties DEF Messages
<1>2. \A m \in Messages(p) : channel[p][m] \in Message
  BY <1>1, ElementOfSeq
<1>3. \A m \in Messages(p) : [channel[p][m] EXCEPT !.recent = FALSE] \in Message
  BY <1>2, MessageType
<1>4. old \in [1 .. Len(channel[p]) -> Message]
  BY <1>1, <1>3
<1>5. old \in Seq(Message) /\ Len(old) = Len(channel[p])
  <2> HIDE DEF old
  <2> QED BY <1>1, <1>4, SeqDef, LenProperties
<1>6. channel' = [channel EXCEPT ![p] = old]
  BY DEF NonceForgotten
<1> HIDE DEF old
<1> QED BY <1>5, <1>6

-----------------------------------------------------------------------------
(* Typing *)

\* A loop that is done forgets what it was about.
LEMMA ForgetsType ==
  ASSUME LoopsOK, NEW w \in Deliverers, Forgets(w)
  PROVE  /\ LoopsOK' /\ wpc'[w] = "idle"
         /\ \A v \in Deliverers \ {w} : wpc'[v] = wpc[v] /\ wevent'[v] = wevent[v]
<1>1. /\ wpc' = [wpc EXCEPT ![w] = "idle"] /\ wevent' = [wevent EXCEPT ![w] = 0]
      /\ wtoken' = [wtoken EXCEPT ![w] = 0] /\ wrow' = [wrow EXCEPT ![w] = NoMessage]
  BY DEF Forgets
<1>2. /\ wbody' = [wbody EXCEPT ![w] = 0] /\ wposted' = [wposted EXCEPT ![w] = NoMessage]
      /\ werror' = [werror EXCEPT ![w] = "none"]
  BY DEF Forgets
<1>3. 0 \in 0 .. MaxChanges /\ NoMessage \in Nat
  BY OutboxAssumption
<1>4. wpc' \in [Deliverers -> { "idle", "taken", "claim", "render", "fetch", "edit", "search", "send",
                                "check", "record", "fail" }]
      /\ wevent' \in [Deliverers -> {0} \cup Keys] /\ wtoken' \in [Deliverers -> Nat] /\ wrow' \in [Deliverers -> Nat]
  BY <1>1, <1>3 DEF LoopsOK
<1>5. wbody' \in [Deliverers -> 0 .. MaxChanges] /\ wposted' \in [Deliverers -> Nat]
      /\ werror' \in [Deliverers -> {"none", "other", "forbidden", "message", "channel"}]
  BY <1>2, <1>3 DEF LoopsOK
<1> QED BY <1>1, <1>4, <1>5 DEF LoopsOK

\* What a step of loop w that ends or goes on does not touch.
OthersStay(w) == \A v \in Deliverers \ {w} : wpc'[v] = wpc[v] /\ wevent'[v] = wevent[v]

\* The loops' memory.
LEMMA LoopsType ==
  ASSUME TypeOK, EventsInv, NEW w \in Deliverers, Delivers(w) \/ Strikes(w)
  PROVE  LoopsOK' /\ OthersStay(w) /\ (wpc'[w] = "idle" \/ wevent'[w] = wevent[w])
<1> USE DEF LoopsOK, TypeOK, OthersStay
<1>1. CASE Forgets(w)
  BY <1>1, ForgetsType
<1>2. CASE ReadProjection(w)
  <2>1. Target(w) \in Projections
    BY <1>2, KeysType DEF ReadProjection, EventsInv, EventsOK, Target
  <2>2. recorded[Target(w)] \in Nat
    BY <2>1 DEF ProjectionsOK
  <2> QED BY <1>2, <2>2 DEF ReadProjection, Goes
<1>3. CASE ClaimOrderDmAttempt(w)
  BY <1>3 DEF ClaimOrderDmAttempt, Goes
<1>4. CASE Render(w)
  BY <1>4 DEF Render, Goes, ProjectionsOK
<1>5. CASE SurfaceUnavailable(w) \/ ChannelMissing(w) \/ HeartbeatFails(w)
  BY <1>5 DEF SurfaceUnavailable, ChannelMissing, HeartbeatFails, GivesUp, Goes
<1>6. CASE Fetch(w) \/ FetchFails(w)
  BY <1>6 DEF Fetch, FetchFails, Goes
<1>7. CASE Edit(w)
  BY <1>7 DEF Edit, Holds, Goes
<1>8. CASE EditFails(w)
  BY <1>8 DEF EditFails, GivesUp, Goes
<1>9. ASSUME FindMessageByNonce(w) \/ Send(w) \/ Reconcile(w)
      PROVE  LoopsOK' /\ OthersStay(w) /\ wevent'[w] = wevent[w]
  <2>1. Target(w) \in Projections
    BY <1>9, KeysType DEF FindMessageByNonce, Send, Reconcile, EventsInv, EventsOK, Target
  <2>2. Len(channel[Target(w)]) \in Nat /\ Recent(Target(w)) \subseteq Nat
    <3>1. channel[Target(w)] \in Seq(Message)
      BY <2>1 DEF ChannelOK
    <3>2. Len(channel[Target(w)]) \in Nat
      BY <3>1, LenProperties
    <3> QED BY <3>2 DEF Recent, Kept, Messages
  <2>3. \/ \E m \in Nat : Holds(w, m)
        \/ \E step \in {"send", "fail"} : Goes(w, step) /\ UNCHANGED wposted
    BY <1>9, <2>2 DEF FindMessageByNonce, Send, Reconcile
  <2>4. UNCHANGED << wevent, wtoken, wrow, wbody, werror >>
    BY <1>9 DEF FindMessageByNonce, Send, Reconcile
  <2> QED BY <2>3, <2>4 DEF Holds, Goes
<1>10. CASE SendFails(w)
  BY <1>10 DEF SendFails, Goes
<1> QED BY <1>1, <1>2, <1>3, <1>4, <1>5, <1>6, <1>7, <1>8, <1>9, <1>10 DEF Delivers, Strikes, LostDelivery,
     RecordDelivery, FailDelivery, Crash

\* Where a loop at work is going.
LEMMA TargetType ==
  ASSUME TypeOK, EventsInv, NEW w \in Deliverers, wpc[w] # "idle"
  PROVE  wevent[w] \in Keys /\ Target(w) \in Projections /\ state[wevent[w]] # "NONE"
BY DEF TypeOK, EventsOK, EventsInv, Target

\* The steps of a loop that change no table, or only dmTried.
Works(w) ==
  \/ ReadProjection(w) \/ ClaimOrderDmAttempt(w) \/ Render(w) \/ SurfaceUnavailable(w)
  \/ Fetch(w) \/ Edit(w) \/ EditFails(w) \/ FindMessageByNonce(w) \/ Send(w) \/ Reconcile(w) \/ LostDelivery(w)
  \/ Strikes(w)

\* They leave the tables alone.
LEMMA WorksOnly ==
  ASSUME NEW w \in Deliverers, Works(w)
  PROVE  UNCHANGED << content, revision, projectionVars, eventVars, letterVars, surface >>
BY DEF Works, Strikes, ReadProjection, ClaimOrderDmAttempt, Render, SurfaceUnavailable, Fetch, Edit, EditFails,
   FindMessageByNonce, Send, Reconcile, LostDelivery, ChannelMissing, FetchFails, SendFails, HeartbeatFails, Crash

\* What befalls the channel, the surfaces and the leases.
Befalls ==
  \/ \E k \in Keys : EventLeaseRunsOut(k) \/ DiscardDeadLetter(k)
  \/ \E p \in Projections :
       ProjectionLeaseRunsOut(p) \/ SurfaceDrifts(p) \/ SurfaceRestored(p) \/ NonceForgotten(p)
  \/ \E p \in Projections : \E m \in Messages(p) : MessageDeleted(p, m)
  \/ UNCHANGED vars

\* They leave the loops, the events and what is wanted alone.
LEMMA BefallsOnly ==
  ASSUME Befalls
  PROVE  UNCHANGED << content, revision, desired, delivered, recorded, ptoken, state, of, token, bound, replay,
                      dmTried, loopVars >>
BY DEF Befalls, EventLeaseRunsOut, DiscardDeadLetter, ProjectionLeaseRunsOut, SurfaceDrifts, SurfaceRestored,
   NonceForgotten, MessageDeleted, vars

\* The steps, sorted by what they touch.
LEMMA Steps ==
  ASSUME [Next]_vars
  PROVE  \/ \E write \in Writes : Change(write)
         \/ \E w \in Deliverers : Works(w) \/ RecordDelivery(w) \/ FailDelivery(w)
         \/ \E w \in Deliverers, k \in Keys : AcquireDelivery(w, k)
         \/ \E k \in Keys, r \in Replays : ReplayDeadLetter(k, r)
         \/ Befalls
BY DEF Next, Delivers, Works, Befalls, NothingToDeliver

\* The projections' rows, and the surfaces.
LEMMA ProjectionsType ==
  ASSUME TypeOK, EventsInv, [Next]_vars
  PROVE  ProjectionsOK'
<1> USE DEF ProjectionsOK
<1>0. ProjectionsOK /\ EventsOK /\ LoopsOK
  BY DEF TypeOK
<1>1. ASSUME NEW write \in Writes, Change(write) PROVE ProjectionsOK'
  <2>1. Wanted(write) \in [Projections -> Nat]
    BY <1>0, WantedType
  <2>2. content' \in 0 .. MaxChanges /\ revision' \in 0 .. MaxChanges
    BY <1>0, <1>1, OutboxAssumption DEF Change, Changes
  <2>3. desired' = Wanted(write) /\ UNCHANGED << delivered, recorded, plive, ptoken, dmTried, surface >>
    BY <1>1 DEF Change
  <2> QED BY <1>0, <2>1, <2>2, <2>3
<1>2. ASSUME NEW w \in Deliverers, Works(w) PROVE ProjectionsOK'
  <2>1. UNCHANGED << content, revision, projectionVars, surface >>
    BY <1>2, WorksOnly
  <2>2. dmTried' \subseteq OrderDms
    <3>1. CASE ClaimOrderDmAttempt(w)
      <4>1. UNCHANGED dmTried \/ (wpc[w] = "claim" /\ dmTried' = dmTried \cup {Target(w)})
        BY <3>1 DEF ClaimOrderDmAttempt
      <4> QED BY <1>0, <4>1 DEF EventsInv
    <3>2. CASE UNCHANGED dmTried
      BY <1>0, <3>2
    <3> QED BY <1>2, <3>1, <3>2 DEF Works, Strikes, ReadProjection, Render, SurfaceUnavailable, Fetch, Edit, EditFails,
         FindMessageByNonce, Send, Reconcile, LostDelivery, ChannelMissing, FetchFails, SendFails, HeartbeatFails, Crash
  <2> QED BY <1>0, <2>1, <2>2
<1>3. ASSUME NEW w \in Deliverers, RecordDelivery(w) PROVE ProjectionsOK'
  <2>1. wpc[w] = "record" /\ wposted[w] \in Nat
    BY <1>0, <1>3 DEF RecordDelivery, LoopsOK
  <2>2. Target(w) \in Projections
    BY <2>1, TargetType
  <2> QED BY <1>0, <1>3, <2>1, <2>2 DEF RecordDelivery
<1>4. ASSUME NEW w \in Deliverers, FailDelivery(w) PROVE ProjectionsOK'
  <2>1. recorded' \in [Projections -> Nat] /\ plive' \subseteq Projections
    BY <1>0, <1>4, OutboxAssumption DEF FailDelivery
  <2>2. surface' \in {surface, [surface EXCEPT ![Target(w)] = "DRIFTED"], [surface EXCEPT ![Target(w)] = "RECONCILING"]}
    BY <1>4 DEF FailDelivery
  <2>3. surface' \in [Projections -> {"ACTIVE", "DRIFTED", "RECONCILING"}]
    BY <1>0, <2>2
  <2>4. UNCHANGED << content, revision, desired, delivered, ptoken, dmTried >>
    BY <1>4 DEF FailDelivery
  <2> QED BY <1>0, <2>1, <2>3, <2>4
<1>5. ASSUME NEW w \in Deliverers, NEW k \in Keys, AcquireDelivery(w, k) PROVE ProjectionsOK'
  <2>1. of[k] \in Projections
    BY <1>0 DEF EventsOK
  <2> QED BY <1>0, <1>5, <2>1 DEF AcquireDelivery
<1>6. ASSUME NEW k \in Keys, NEW r \in Replays, ReplayDeadLetter(k, r) PROVE ProjectionsOK'
  BY <1>0, <1>6 DEF ReplayDeadLetter
<1>7. CASE Befalls
  <2>1. plive' \subseteq Projections /\ surface' \in [Projections -> {"ACTIVE", "DRIFTED", "RECONCILING"}]
    BY <1>0, <1>7 DEF Befalls, EventLeaseRunsOut, DiscardDeadLetter, ProjectionLeaseRunsOut, SurfaceDrifts,
       SurfaceRestored, NonceForgotten, MessageDeleted, vars
  <2> QED BY <1>0, <1>7, <2>1, BefallsOnly
<1> QED BY <1>1, <1>2, <1>3, <1>4, <1>5, <1>6, <1>7, Steps

\* The events, and their dead letters.
LEMMA EventsType ==
  ASSUME TypeOK, EventsInv, [Next]_vars
  PROVE  EventsOK'
<1> USE DEF EventsOK
<1>0. EventsOK /\ LoopsOK
  BY DEF TypeOK
<1>1. ASSUME NEW write \in Writes, Change(write) PROVE EventsOK'
  <2>1. Head(write.to) \in Projections
    BY WriteAssumption, HeadTailProperties
  <2>2. PICK key \in Changes : Enqueue(key, Head(write.to))
    BY <1>1 DEF Change
  <2>3. UNCHANGED << token, bound, live, letterVars >>
    BY <1>1 DEF Change
  <2> QED BY <1>0, <2>1, <2>2, <2>3 DEF Enqueue
<1>2. ASSUME NEW w \in Deliverers, Works(w) PROVE EventsOK'
  BY <1>0, <1>2, WorksOnly
<1>3. ASSUME NEW w \in Deliverers, RecordDelivery(w) PROVE EventsOK'
  BY <1>0, <1>3 DEF RecordDelivery
<1>4. ASSUME NEW w \in Deliverers, FailDelivery(w) PROVE EventsOK'
  <2>1. \E s \in {"DELIVERED", "DEAD_LETTER", "RETRY_WAIT"} : state' = [state EXCEPT ![wevent[w]] = s]
    BY <1>4 DEF FailDelivery
  <2>2. deadLetter' \in {deadLetter, [deadLetter EXCEPT ![wevent[w]] = "DEAD_LETTER"]}
    BY <1>4 DEF FailDelivery
  <2>3. live' = live \ {wevent[w]} /\ UNCHANGED << of, token, bound, replay >>
    BY <1>4 DEF FailDelivery
  <2> QED BY <1>0, <2>1, <2>2, <2>3
<1>5. ASSUME NEW w \in Deliverers, NEW k \in Keys, AcquireDelivery(w, k) PROVE EventsOK'
  <2>1. ptoken[of[k]] \in Nat
    BY <1>0 DEF TypeOK, ProjectionsOK
  <2> QED BY <1>0, <1>5, <2>1 DEF AcquireDelivery
<1>6. ASSUME NEW k \in Keys, NEW r \in Replays, ReplayDeadLetter(k, r) PROVE EventsOK'
  BY <1>0, <1>6 DEF ReplayDeadLetter
<1>7. CASE Befalls
  <2>1. live' \subseteq Keys /\ deadLetter' \in [Keys -> {"NONE", "DEAD_LETTER", "PENDING", "RESOLVED", "DISCARDED"}]
    BY <1>0, <1>7 DEF Befalls, EventLeaseRunsOut, DiscardDeadLetter, ProjectionLeaseRunsOut, SurfaceDrifts,
       SurfaceRestored, NonceForgotten, MessageDeleted, vars
  <2> QED BY <1>0, <1>7, <2>1, BefallsOnly
<1> QED BY <1>1, <1>2, <1>3, <1>4, <1>5, <1>6, <1>7, Steps

\* Messages change only where Discord is asked to, and are added one at a time.
Posts(w) == \E p \in Projections, body \in 0 .. MaxChanges :
  /\ wpc[w] = "send" /\ p = Target(w) /\ wpc'[w] \in {"record", "check"}
  /\ channel' = [channel EXCEPT ![p] = Posted(p, body)]

SameLengths == \A p \in Projections : Len(channel'[p]) = Len(channel[p])

\* The messages.
LEMMA ChannelType ==
  ASSUME TypeOK, EventsInv, [Next]_vars
  PROVE  ChannelOK' /\ (SameLengths \/ \E w \in Deliverers : Works(w) /\ Posts(w))
<1>0. channel \in [Projections -> Seq(Message)] /\ suffered \subseteq Faults /\ LoopsOK
  BY DEF TypeOK, ChannelOK
<1>1. suffered' \subseteq Faults
  <2>1. UNCHANGED suffered \/ \E kind \in Faults : Suffers(kind)
    BY DEF Next, vars, Change, Delivers, Strikes, NothingToDeliver, AcquireDelivery, EventLeaseRunsOut, DiscardDeadLetter,
       ReplayDeadLetter, ProjectionLeaseRunsOut, SurfaceDrifts, SurfaceRestored, NonceForgotten, MessageDeleted,
       ReadProjection, ClaimOrderDmAttempt, Render, SurfaceUnavailable, Fetch, Edit, EditFails, FindMessageByNonce,
       Send, Reconcile, LostDelivery, RecordDelivery, FailDelivery, ChannelMissing, FetchFails, SendFails,
       HeartbeatFails, Crash, Suffers
  <2> QED BY <1>0, <2>1 DEF Suffers
<1> DEFINE Goal == channel' \in [Projections -> Seq(Message)] /\ (SameLengths \/ \E w \in Deliverers : Works(w) /\ Posts(w))
<1>2. ASSUME UNCHANGED channel PROVE Goal
  BY <1>0, <1>2 DEF SameLengths
<1>3. ASSUME NEW w \in Deliverers, Works(w) PROVE Goal
  <2>1. CASE wpc[w] = "idle"
    <3>1. UNCHANGED channel
      BY <1>3, <2>1 DEF Works, Strikes, ReadProjection, ClaimOrderDmAttempt, Render, SurfaceUnavailable, Fetch, Edit,
         EditFails, FindMessageByNonce, Send, Reconcile, LostDelivery, ChannelMissing, FetchFails, SendFails,
         HeartbeatFails, Crash
    <3> QED BY <1>2, <3>1
  <2>2. CASE wpc[w] # "idle"
    <3>1. Target(w) \in Projections /\ wbody[w] \in 0 .. MaxChanges
      BY <1>0, <2>2, TargetType DEF LoopsOK
    <3>2. CASE channel' = EditMessage(w) /\ wrow[w] \in Kept(Target(w))
      <4>1. wrow[w] \in Messages(Target(w))
        BY <3>2 DEF Kept
      <4> QED BY <1>0, <3>1, <3>2, <4>1, EditType DEF SameLengths
    <3>3. CASE wpc[w] = "send" /\ wpc'[w] \in {"record", "check"} /\ channel' = [channel EXCEPT ![Target(w)] = Posted(Target(w), wbody[w])]
      <4>1. Posted(Target(w), wbody[w]) \in Seq(Message)
        BY <1>0, <3>1, PostedType
      <4>2. Posts(w)
        BY <3>1, <3>3 DEF Posts
      <4> QED BY <1>0, <1>3, <3>1, <3>3, <4>1, <4>2
    <3>4. UNCHANGED channel \/ (channel' = EditMessage(w) /\ wrow[w] \in Kept(Target(w)))
          \/ (wpc[w] = "send" /\ wpc'[w] \in {"record", "check"} /\ channel' = [channel EXCEPT ![Target(w)] = Posted(Target(w), wbody[w])])
      BY <1>0, <1>3 DEF Works, Strikes, ReadProjection, ClaimOrderDmAttempt, Render, SurfaceUnavailable, Fetch, Edit,
         EditFails, FindMessageByNonce, Send, Reconcile, LostDelivery, ChannelMissing, FetchFails, SendFails,
         HeartbeatFails, Crash, Goes, Holds, LoopsOK
    <3> QED BY <1>2, <3>2, <3>3, <3>4
  <2> QED BY <2>1, <2>2
<1>4. ASSUME Befalls PROVE Goal
  BY <1>0, <1>2, <1>4, DeleteType, ForgetType DEF Befalls, EventLeaseRunsOut, DiscardDeadLetter, ProjectionLeaseRunsOut,
     SurfaceDrifts, SurfaceRestored, vars, SameLengths
<1>5. ASSUME \/ \E write \in Writes : Change(write)
             \/ \E w \in Deliverers : RecordDelivery(w) \/ FailDelivery(w)
             \/ \E w \in Deliverers, k \in Keys : AcquireDelivery(w, k)
             \/ \E k \in Keys, r \in Replays : ReplayDeadLetter(k, r)
      PROVE  UNCHANGED channel
  BY <1>5 DEF Change, RecordDelivery, FailDelivery, AcquireDelivery, ReplayDeadLetter
<1> QED BY <1>1, <1>2, <1>3, <1>4, <1>5, Steps DEF ChannelOK

-----------------------------------------------------------------------------
(* Events and loops *)

\* An event that is there stays, and remains of its projection.
LEMMA EventStays ==
  ASSUME TypeOK, EventsInv, [Next]_vars
  PROVE  \A k \in Keys : state[k] # "NONE" => state'[k] # "NONE" /\ of'[k] = of[k]
<1>0. EventsOK
  BY DEF TypeOK
<1> USE DEF EventsOK
<1>1. ASSUME NEW write \in Writes, Change(write)
      PROVE  \A k \in Keys : state[k] # "NONE" => state'[k] # "NONE" /\ of'[k] = of[k]
  <2>1. PICK key : Enqueue(key, Head(write.to))
    BY <1>1 DEF Change
  <2> QED BY <1>0, <2>1 DEF Enqueue
<1>2. ASSUME NEW w \in Deliverers, Works(w) PROVE UNCHANGED << state, of >>
  BY <1>2, WorksOnly
<1>3. ASSUME NEW w \in Deliverers, RecordDelivery(w)
      PROVE  \A k \in Keys : state[k] # "NONE" => state'[k] # "NONE" /\ of'[k] = of[k]
  BY <1>0, <1>3 DEF RecordDelivery
<1>4. ASSUME NEW w \in Deliverers, FailDelivery(w)
      PROVE  \A k \in Keys : state[k] # "NONE" => state'[k] # "NONE" /\ of'[k] = of[k]
  BY <1>0, <1>4 DEF FailDelivery
<1>5. ASSUME NEW w \in Deliverers, NEW j \in Keys, AcquireDelivery(w, j)
      PROVE  \A k \in Keys : state[k] # "NONE" => state'[k] # "NONE" /\ of'[k] = of[k]
  BY <1>0, <1>5 DEF AcquireDelivery
<1>6. ASSUME NEW j \in Keys, NEW r \in Replays, ReplayDeadLetter(j, r)
      PROVE  \A k \in Keys : state[k] # "NONE" => state'[k] # "NONE" /\ of'[k] = of[k]
  BY <1>0, <1>6 DEF ReplayDeadLetter
<1>7. ASSUME Befalls PROVE UNCHANGED << state, of >>
  BY <1>7, BefallsOnly
<1> QED BY <1>1, <1>2, <1>3, <1>4, <1>5, <1>6, <1>7, Steps

\* How a loop comes to its work: it takes an event that is there, or goes on with the one it has.
GoesOn(w) == wpc[w] # "idle" /\ wevent'[w] = wevent[w]
Takes(w)  == wpc'[w] = "taken" /\ wevent'[w] \in Keys /\ state'[wevent'[w]] # "NONE"

\* And reaches the claim and the publication of an order's summary in no other way.
LEMMA LoopSteps ==
  ASSUME TypeOK, EventsInv, [Next]_vars, NEW w \in Deliverers, wpc'[w] # "idle"
  PROVE  /\ GoesOn(w) \/ Takes(w)
         /\ \/ wpc'[w] = wpc[w] \/ wpc'[w] = "taken" \/ Works(w)
<1>0. LoopsOK /\ EventsOK
  BY DEF TypeOK
<1>1. ASSUME UNCHANGED loopVars PROVE GoesOn(w) /\ wpc'[w] = wpc[w]
  BY <1>1 DEF GoesOn
<1>2. ASSUME NEW v \in Deliverers, Works(v) PROVE GoesOn(w) /\ (wpc'[w] = wpc[w] \/ Works(w))
  <2>1. Delivers(v) \/ Strikes(v)
    BY <1>2 DEF Works, Delivers
  <2>2. OthersStay(v) /\ (wpc'[v] = "idle" \/ wevent'[v] = wevent[v])
    BY <2>1, LoopsType
  <2>3. CASE v # w
    BY <2>2, <2>3 DEF OthersStay, GoesOn
  <2>4. CASE v = w
    <3>1. wpc[w] # "idle"
      BY <1>2, <2>4 DEF Works, Strikes, ReadProjection, ClaimOrderDmAttempt, Render, SurfaceUnavailable, Fetch, Edit,
         EditFails, FindMessageByNonce, Send, Reconcile, LostDelivery, ChannelMissing, FetchFails, SendFails,
         HeartbeatFails, Crash
    <3> QED BY <1>2, <2>2, <2>4, <3>1 DEF GoesOn
  <2> QED BY <2>3, <2>4
<1>3. ASSUME NEW v \in Deliverers, RecordDelivery(v) \/ FailDelivery(v) PROVE GoesOn(w) /\ wpc'[w] = wpc[w]
  <2>1. Forgets(v)
    BY <1>3 DEF RecordDelivery, FailDelivery
  <2> QED BY <1>0, <2>1, ForgetsType DEF GoesOn
<1>4. ASSUME NEW v \in Deliverers, NEW k \in Keys, AcquireDelivery(v, k)
      PROVE  (GoesOn(w) /\ wpc'[w] = wpc[w]) \/ (Takes(w) /\ wpc'[w] = "taken")
  BY <1>0, <1>4 DEF AcquireDelivery, GoesOn, Takes, LoopsOK, EventsOK
<1>5. ASSUME \/ \E write \in Writes : Change(write)
             \/ \E k \in Keys, r \in Replays : ReplayDeadLetter(k, r)
      PROVE  UNCHANGED loopVars
  BY <1>5 DEF Change, ReplayDeadLetter
<1>6. ASSUME Befalls PROVE UNCHANGED loopVars
  BY <1>6, BefallsOnly
<1> QED BY <1>1, <1>2, <1>3, <1>4, <1>5, <1>6, Steps

\* A loop that goes on has the same projection before it.
LEMMA TargetStays ==
  ASSUME TypeOK, EventsInv, [Next]_vars, NEW w \in Deliverers, GoesOn(w)
  PROVE  Target(w)' = Target(w)
<1>1. wevent[w] \in Keys /\ state[wevent[w]] # "NONE" /\ wevent'[w] = wevent[w]
  BY TargetType DEF GoesOn
<1> QED BY <1>1, EventStays DEF Target

\* The events and the loops keep their invariant.
LEMMA EventsNext ==
  ASSUME TypeOK, EventsInv, [Next]_vars
  PROVE  EventsInv'
<1>0. EventsOK /\ ProjectionsOK /\ LoopsOK
  BY DEF TypeOK
<1>1. \A k \in Changes : k > revision' => state'[k] = "NONE"
  <2> USE DEF EventsOK
  <2>0. \A k \in Changes : k > revision => state[k] = "NONE"
    BY DEF EventsInv
  <2>1. ASSUME NEW write \in Writes, Change(write) PROVE \A k \in Changes : k > revision' => state'[k] = "NONE"
    <3>1. revision' \in {revision, revision + 1} /\ Enqueue(revision', Head(write.to)) /\ revision' \in Changes
      BY <2>1 DEF Change
    <3>2. \A k \in Changes : k > revision' => k > revision /\ k # revision'
      BY <1>0, <3>1, KeysType DEF ProjectionsOK
    <3>3. \A k \in Changes : k # revision' => state'[k] = state[k]
      BY <1>0, <3>1 DEF Enqueue, Keys
    <3> QED BY <2>0, <3>2, <3>3
  <2>2. ASSUME NEW w \in Deliverers, Works(w) PROVE UNCHANGED << revision, state >>
    BY <2>2, WorksOnly
  <2>3. ASSUME NEW w \in Deliverers, RecordDelivery(w) PROVE \A k \in Changes : k > revision' => state'[k] = "NONE"
    <3>1. state[wevent[w]] # "NONE" /\ UNCHANGED revision
      BY <2>3, TargetType DEF RecordDelivery
    <3> QED BY <1>0, <2>0, <2>3, <3>1 DEF RecordDelivery, Queued, Keys
  <2>4. ASSUME NEW w \in Deliverers, FailDelivery(w) PROVE \A k \in Changes : k > revision' => state'[k] = "NONE"
    <3>1. state[wevent[w]] # "NONE" /\ UNCHANGED revision
      BY <2>4, TargetType DEF FailDelivery
    <3>2. \A k \in Keys : k # wevent[w] => state'[k] = state[k]
      BY <1>0, <2>4 DEF FailDelivery
    <3> QED BY <2>0, <3>1, <3>2 DEF Keys
  <2>5. ASSUME NEW w \in Deliverers, NEW j \in Keys, AcquireDelivery(w, j)
        PROVE  \A k \in Changes : k > revision' => state'[k] = "NONE"
    BY <1>0, <2>0, <2>5 DEF AcquireDelivery, Available, Queued, Keys
  <2>6. ASSUME NEW j \in Keys, NEW r \in Replays, ReplayDeadLetter(j, r)
        PROVE  \A k \in Changes : k > revision' => state'[k] = "NONE"
    BY <1>0, <2>0, <2>6, KeysType DEF ReplayDeadLetter, Keys
  <2>7. ASSUME Befalls PROVE UNCHANGED << revision, state >>
    BY <2>7, BefallsOnly
  <2> QED BY <2>0, <2>1, <2>2, <2>3, <2>4, <2>5, <2>6, <2>7, Steps
<1>2. ASSUME NEW w \in Deliverers, wpc'[w] # "idle" PROVE wevent'[w] \in Keys /\ state'[wevent'[w]] # "NONE"
  <2>1. CASE Takes(w)
    BY <2>1 DEF Takes
  <2>2. CASE GoesOn(w)
    <3>1. wevent[w] \in Keys /\ state[wevent[w]] # "NONE" /\ wevent'[w] = wevent[w]
      BY <2>2, TargetType DEF GoesOn
    <3> QED BY <3>1, EventStays
  <2> QED BY <1>2, <2>1, <2>2, LoopSteps
<1>3. ASSUME NEW w \in Deliverers, wpc'[w] = "claim" PROVE Target(w)' \in OrderDms
  <2>1. GoesOn(w) /\ (wpc[w] = "claim" \/ Works(w))
    BY <1>3, LoopSteps DEF Takes
  <2>2. Target(w)' = Target(w)
    BY <2>1, TargetStays
  <2>3. CASE wpc[w] = "claim"
    BY <2>2, <2>3 DEF EventsInv
  <2>4. CASE Works(w)
    <3>1. ReadProjection(w)
      BY <1>0, <1>3, <2>4 DEF LoopsOK, Works, Strikes, ReadProjection, ClaimOrderDmAttempt, Render, SurfaceUnavailable,
         Fetch, Edit, EditFails, FindMessageByNonce, Send, Reconcile, LostDelivery, ChannelMissing, FetchFails,
         SendFails, HeartbeatFails, Crash, Goes, GivesUp, Holds, Forgets
    <3> QED BY <1>0, <1>3, <2>2, <3>1 DEF LoopsOK, ReadProjection, Goes
  <2> QED BY <2>1, <2>3, <2>4
<1> QED BY <1>1, <1>2, <1>3 DEF EventsInv

-----------------------------------------------------------------------------
(* The summary of an order *)

\* A loop comes to publish it only by claiming it first.
LEMMA PublishSteps ==
  ASSUME TypeOK, EventsInv, [Next]_vars, NEW p \in OrderDms, NEW w \in Deliverers, Publishes(w, p)'
  PROVE  \/ Publishes(w, p)
         \/ /\ p \notin dmTried /\ p \in dmTried'
            /\ \A v \in Deliverers \ {w} : Publishes(v, p)' => Publishes(v, p)
<1>0. LoopsOK
  BY DEF TypeOK
<1>1. wpc'[w] \in {"render", "fetch", "edit", "search", "send"} /\ Target(w)' = p
  BY DEF Publishes
<1>2. GoesOn(w) /\ (wpc'[w] = wpc[w] \/ Works(w))
  BY <1>1, LoopSteps DEF Takes
<1>3. Target(w) = p
  BY <1>1, <1>2, TargetStays
<1>4. CASE wpc'[w] = wpc[w]
  BY <1>1, <1>3, <1>4 DEF Publishes
<1>5. CASE ClaimOrderDmAttempt(w)
  <2>1. p \notin dmTried /\ p \in dmTried'
    BY <1>0, <1>1, <1>3, <1>5 DEF ClaimOrderDmAttempt, Goes, LoopsOK
  <2>2. ASSUME NEW v \in Deliverers \ {w}, Publishes(v, p)' PROVE Publishes(v, p)
    <3>1. wpc'[v] = wpc[v] /\ wevent'[v] = wevent[v] /\ UNCHANGED of
      BY <1>0, <1>5 DEF ClaimOrderDmAttempt, Goes, LoopsOK
    <3> QED BY <2>2, <3>1 DEF Publishes, Target
  <2> QED BY <2>1, <2>2
<1>6. CASE Works(w) /\ ~ClaimOrderDmAttempt(w)
  <2>1. wpc[w] \in {"render", "fetch", "edit", "search", "send"}
    <3>1. ~ReadProjection(w)
      BY <1>0, <1>1, <1>3 DEF ReadProjection, Goes, LoopsOK
    <3> QED BY <1>0, <1>1, <1>6, <3>1 DEF LoopsOK, Works, Strikes, Render, SurfaceUnavailable,
         Fetch, Edit, EditFails, FindMessageByNonce, Send, Reconcile, LostDelivery, ChannelMissing, FetchFails,
         SendFails, HeartbeatFails, Crash, Goes, GivesUp, Holds, Forgets
  <2> QED BY <1>3, <2>1 DEF Publishes
<1> QED BY <1>2, <1>4, <1>5, <1>6

\* What was claimed stays claimed.
LEMMA ClaimStays ==
  ASSUME [Next]_vars
  PROVE  dmTried \subseteq dmTried'
BY DEF Next, vars, Change, Delivers, Strikes, NothingToDeliver, AcquireDelivery, EventLeaseRunsOut, DiscardDeadLetter,
   ReplayDeadLetter, ProjectionLeaseRunsOut, SurfaceDrifts, SurfaceRestored, NonceForgotten, MessageDeleted,
   ReadProjection, ClaimOrderDmAttempt, Render, SurfaceUnavailable, Fetch, Edit, EditFails, FindMessageByNonce,
   Send, Reconcile, LostDelivery, RecordDelivery, FailDelivery, ChannelMissing, FetchFails, SendFails,
   HeartbeatFails, Crash

\* A step keeps the invariant of a summary: a message more comes from the one loop on its way.
LEMMA SummaryNext ==
  ASSUME TypeOK, EventsInv, [Next]_vars, NEW p \in OrderDms, SummaryInv(p)
  PROVE  SummaryInv(p)'
<1>0. p \in Projections /\ Len(channel[p]) \in Nat
  <2>1. p \in Projections
    BY OutboxAssumption
  <2>2. channel[p] \in Seq(Message)
    BY <2>1 DEF TypeOK, ChannelOK
  <2> QED BY <2>1, <2>2, LenProperties
<1>1. p \in dmTried => p \in dmTried'
  BY ClaimStays
<1>2. \A w \in Deliverers : Publishes(w, p) => p \in dmTried /\ Len(channel[p]) = 0
  BY DEF SummaryInv
<1>3. \A v, w \in Deliverers : Publishes(v, p)' /\ Publishes(w, p)' => v = w
  <2> SUFFICES ASSUME NEW v \in Deliverers, NEW w \in Deliverers, Publishes(v, p)', Publishes(w, p)', v # w
               PROVE  FALSE
    OBVIOUS
  <2>1. Publishes(v, p) \/ (p \notin dmTried /\ Publishes(w, p))
    BY PublishSteps
  <2>2. Publishes(w, p) \/ (p \notin dmTried /\ Publishes(v, p))
    BY PublishSteps
  <2> QED BY <1>2, <2>1, <2>2 DEF SummaryInv
<1>4. CASE Len(channel'[p]) = Len(channel[p])
  <2>1. ASSUME NEW w \in Deliverers, Publishes(w, p)' PROVE p \in dmTried' /\ Len(channel'[p]) = 0
    BY <1>1, <1>2, <1>4, <2>1, PublishSteps DEF SummaryInv
  <2> QED BY <1>1, <1>3, <1>4, <2>1 DEF SummaryInv
<1>5. ASSUME NEW w \in Deliverers, Works(w), Posts(w), Len(channel'[p]) # Len(channel[p])
      PROVE  SummaryInv(p)'
  <2>1. PICK q \in Projections, body \in 0 .. MaxChanges :
          /\ wpc[w] = "send" /\ q = Target(w) /\ wpc'[w] \in {"record", "check"}
          /\ channel' = [channel EXCEPT ![q] = Posted(q, body)]
    BY <1>5 DEF Posts
  <2>2. q = p
    BY <1>0, <1>5, <2>1 DEF TypeOK, ChannelOK
  <2>3. Publishes(w, p)
    BY <2>1, <2>2 DEF Publishes
  <2>4. p \in dmTried /\ Len(channel[p]) = 0
    BY <1>2, <2>3
  <2>5. Len(channel'[p]) = 1
    <3>1. Len(Posted(p, body)) = Len(channel[p]) + 1
      BY <1>0, PostedType DEF TypeOK, ChannelOK
    <3> QED BY <1>0, <2>1, <2>2, <2>4, <3>1 DEF TypeOK, ChannelOK
  <2>6. \A v \in Deliverers : ~Publishes(v, p)'
    <3> SUFFICES ASSUME NEW v \in Deliverers, Publishes(v, p)' PROVE FALSE
      OBVIOUS
    <3>1. Publishes(v, p)
      BY <2>4, PublishSteps
    <3>2. v = w
      BY <2>3, <3>1 DEF SummaryInv
    <3> QED BY <2>1, <3>2 DEF Publishes
  <2> QED BY <1>1, <2>4, <2>5, <2>6 DEF SummaryInv
<1> QED BY <1>0, <1>4, <1>5, ChannelType DEF SameLengths

-----------------------------------------------------------------------------
(* What is wanted is scheduled *)

\* A step that keeps the versions of p and leaves its outstanding and buried events so.
LEMMA ScheduledStays ==
  ASSUME NEW p \in Projections, Scheduled(p), desired'[p] = desired[p], delivered'[p] = delivered[p],
         \A k \in Keys : of[k] = p /\ (Outstanding(k) \/ state[k] = "DEAD_LETTER")
                         => of'[k] = p /\ (Outstanding(k)' \/ state'[k] = "DEAD_LETTER")
  PROVE  Scheduled(p)'
BY DEF Scheduled, Buried

\* A projection that every change names first stays scheduled.
LEMMA ScheduledNext ==
  ASSUME TypeOK, EventsInv, [Next]_vars, NEW p \in Projections \ OrderDms, NamedFirst(p), Scheduled(p)
  PROVE  Scheduled(p)'
<1>0. EventsOK /\ ProjectionsOK /\ LoopsOK
  BY DEF TypeOK
<1> USE DEF EventsOK, ProjectionsOK
<1>1. ASSUME NEW write \in Writes, Change(write) PROVE Scheduled(p)'
  <2>1. PICK key \in Changes : /\ key = IF write.raises THEN revision + 1 ELSE revision
                               /\ Enqueue(key, Head(write.to))
    BY <1>1 DEF Change
  <2>2. key \in Keys /\ desired' = Wanted(write) /\ UNCHANGED delivered
    BY <1>1 DEF Change, Keys
  <2>3. CASE \E n \in DOMAIN write.to : write.to[n] = p
    <3>1. write.raises /\ Head(write.to) = p
      BY <2>3 DEF NamedFirst
    <3>2. state[key] = "NONE"
      BY <1>0, <2>1, <3>1, KeysType DEF EventsInv
    <3>3. state'[key] = "PENDING" /\ of'[key] = p
      BY <1>0, <2>1, <2>2, <3>1, <3>2 DEF Enqueue
    <3> QED BY <2>2, <3>3 DEF Scheduled, Outstanding, Queued
  <2>4. CASE \A n \in DOMAIN write.to : write.to[n] # p
    <3>1. desired'[p] = desired[p]
      BY <1>0, <2>2, <2>4, WantedType
    <3>2. \A k \in Keys : state[k] # "NONE" => state'[k] = state[k] /\ of'[k] = of[k]
      BY <1>0, <2>1 DEF Enqueue
    <3> QED BY <2>2, <3>1, <3>2, ScheduledStays DEF Outstanding, Queued
  <2> QED BY <2>3, <2>4
<1>2. ASSUME NEW w \in Deliverers, RecordDelivery(w) PROVE Scheduled(p)'
  <2>1. wevent[w] \in Keys /\ Target(w) \in Projections
    BY <1>2, TargetType DEF RecordDelivery
  <2>2. UNCHANGED << desired, of >> /\ delivered' = [delivered EXCEPT ![Target(w)] = desired[Target(w)]]
        /\ state' = [j \in Keys |-> IF j = wevent[w] \/ (of[j] = Target(w) /\ Queued(j)) THEN "DELIVERED" ELSE state[j]]
    BY <1>2 DEF RecordDelivery
  <2>3. CASE Target(w) = p
    BY <1>0, <2>2, <2>3 DEF Scheduled
  <2>4. CASE Target(w) # p
    <3>1. \A k \in Keys : of[k] = p => state'[k] = state[k] /\ of'[k] = p
      BY <2>2, <2>4 DEF Target
    <3> QED BY <1>0, <2>2, <2>4, <3>1, ScheduledStays DEF Outstanding, Queued
  <2> QED BY <2>3, <2>4
<1>3. ASSUME NEW w \in Deliverers, FailDelivery(w) PROVE Scheduled(p)'
  <2>1. UNCHANGED << desired, delivered, of >> /\ wevent[w] \in Keys
    BY <1>3, TargetType DEF FailDelivery
  <2>2. of[wevent[w]] = p => state'[wevent[w]] \in {"DEAD_LETTER", "RETRY_WAIT"}
    BY <1>0, <1>3, <2>1 DEF FailDelivery, Target
  <2>3. \A k \in Keys : k # wevent[w] => state'[k] = state[k]
    BY <1>0, <1>3 DEF FailDelivery
  <2> QED BY <2>1, <2>2, <2>3, ScheduledStays DEF Outstanding, Queued
<1>4. ASSUME NEW w \in Deliverers, NEW j \in Keys, AcquireDelivery(w, j) PROVE Scheduled(p)'
  <2>1. UNCHANGED << desired, delivered, of >> /\ state' = [state EXCEPT ![j] = "LEASED"]
    BY <1>4 DEF AcquireDelivery
  <2> QED BY <1>0, <2>1, ScheduledStays DEF Outstanding, Queued
<1>5. ASSUME NEW j \in Keys, NEW r \in Replays, ReplayDeadLetter(j, r) PROVE Scheduled(p)'
  <2>1. UNCHANGED << desired, delivered >> /\ state[r] = "NONE" /\ r \in Keys
        /\ state' = [state EXCEPT ![r] = "PENDING"] /\ of' = [of EXCEPT ![r] = of[j]]
    BY <1>5 DEF ReplayDeadLetter, Keys
  <2> QED BY <1>0, <2>1, ScheduledStays DEF Outstanding, Queued
<1>6. ASSUME UNCHANGED << desired, delivered, state, of >> PROVE Scheduled(p)'
  BY <1>6, ScheduledStays DEF Outstanding, Queued
<1>7. ASSUME NEW w \in Deliverers, Works(w) PROVE UNCHANGED << desired, delivered, state, of >>
  BY <1>7, WorksOnly
<1>8. ASSUME Befalls PROVE UNCHANGED << desired, delivered, state, of >>
  BY <1>8, BefallsOnly
<1> QED BY <1>1, <1>2, <1>3, <1>4, <1>5, <1>6, <1>7, <1>8, Steps

-----------------------------------------------------------------------------
(* The invariant, and the theorems *)

\* At the beginning nothing is enqueued and nothing posted.
LEMMA OutboxInit == Init => OutboxInv
<1> SUFFICES ASSUME Init PROVE OutboxInv
  OBVIOUS
<1>1. (CHOOSE p \in Projections : TRUE) \in Projections
  BY OutboxAssumption
<1>2. ProjectionsOK /\ LoopsOK /\ EventsOK
  BY <1>1, OutboxAssumption DEF Init, ProjectionsOK, LoopsOK, EventsOK
<1>3. << >> \in Seq(Message) /\ Len(<< >>) = 0
  OBVIOUS
<1>4. ChannelOK
  BY <1>3 DEF Init, ChannelOK
<1>5. EventsInv
  BY DEF Init, EventsInv, Keys
<1>6. SummariesInv
  BY <1>3, OutboxAssumption DEF Init, SummariesInv, SummaryInv, Publishes
<1>7. NamedAreScheduled
  BY DEF Init, NamedAreScheduled, Scheduled
<1> QED BY <1>2, <1>4, <1>5, <1>6, <1>7 DEF OutboxInv, TypeOK

\* Every step keeps the invariant.
LEMMA OutboxNext == OutboxInv /\ [Next]_vars => OutboxInv'
<1> SUFFICES ASSUME OutboxInv, [Next]_vars PROVE OutboxInv'
  OBVIOUS
<1>1. TypeOK /\ EventsInv /\ SummariesInv /\ NamedAreScheduled
  BY DEF OutboxInv
<1>2. LoopsOK'
  <2>1. ASSUME NEW w \in Deliverers, Delivers(w) \/ Strikes(w) PROVE LoopsOK'
    BY <1>1, <2>1, LoopsType
  <2>2. ASSUME NEW w \in Deliverers, NEW k \in Keys, AcquireDelivery(w, k) PROVE LoopsOK'
    <3>1. token[k] + 1 \in Nat
      BY <1>1 DEF TypeOK, EventsOK
    <3> QED BY <1>1, <2>2, <3>1 DEF AcquireDelivery, TypeOK, LoopsOK
  <2>3. ASSUME UNCHANGED loopVars PROVE LoopsOK'
    BY <1>1, <2>3 DEF TypeOK, LoopsOK
  <2>4. ASSUME \/ \E write \in Writes : Change(write)
               \/ \E k \in Keys, r \in Replays : ReplayDeadLetter(k, r)
        PROVE  UNCHANGED loopVars
    BY <2>4 DEF Change, ReplayDeadLetter
  <2>5. ASSUME Befalls PROVE UNCHANGED loopVars
    BY <2>5, BefallsOnly
  <2>6. ASSUME NEW w \in Deliverers, Works(w) \/ RecordDelivery(w) \/ FailDelivery(w) PROVE Delivers(w) \/ Strikes(w)
    BY <2>6 DEF Works, Delivers
  <2> QED BY <2>1, <2>2, <2>3, <2>4, <2>5, <2>6, Steps
<1>3. TypeOK'
  BY <1>1, <1>2, ProjectionsType, EventsType, ChannelType DEF TypeOK
<1>4. EventsInv'
  BY <1>1, EventsNext
<1>5. SummariesInv'
  BY <1>1, SummaryNext DEF SummariesInv
<1>6. NamedAreScheduled'
  BY <1>1, ScheduledNext DEF NamedAreScheduled
<1> QED BY <1>3, <1>4, <1>5, <1>6 DEF OutboxInv

\* The invariant holds of every state.
LEMMA OutboxInvariant == Spec => []OutboxInv
BY OutboxInit, OutboxNext, PTL DEF Spec

\* The tables and the delivery loops keep their types.
THEOREM OutboxTypeCorrect == Spec => []TypeOK
<1>1. OutboxInv => TypeOK
  BY DEF OutboxInv
<1> QED BY <1>1, OutboxInvariant, PTL

\* However many loops run, crash, stall or get no answer, and whatever is retried, replayed or
\* lost, the summary of an order is posted at most once (claimOrderDmAttempt).
THEOREM SummaryPostedOnce == Spec => []OrderDmAtMostOnce
<1>1. OutboxInv => OrderDmAtMostOnce
  BY DEF OutboxInv, SummariesInv, SummaryInv, OrderDmAtMostOnce
<1> QED BY <1>1, OutboxInvariant, PTL

\* A projection that every change which enqueues it names first, raising the version, has an event
\* or a dead letter whenever its wanted version was not acknowledged, whatever the other projections
\* of the aggregate are named by.
THEOREM NamedFirstIsScheduled == Spec => []NamedAreScheduled
<1>1. OutboxInv => NamedAreScheduled
  BY DEF OutboxInv
<1> QED BY <1>1, OutboxInvariant, PTL

\* So nothing is left behind where every change names one projection, of a version of its own, as
\* most do: what it enqueues second, or with the version of another change, is what may be.
THEOREM NothingLeftBehind ==
  ASSUME \A p \in Projections \ OrderDms : NamedFirst(p)
  PROVE  Spec => []WantedIsScheduled
<1>1. NamedAreScheduled => WantedIsScheduled
  BY DEF NamedAreScheduled, Scheduled, WantedIsScheduled
<1> QED BY <1>1, NamedFirstIsScheduled, PTL
=============================================================================
