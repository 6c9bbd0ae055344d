------------------------------- MODULE Outbox -------------------------------
(***************************************************************************)
(* How a committed change becomes a Discord message.  The transaction of   *)
(* the change raises the wanted version of its projections and leaves an   *)
(* event; a delivery loop leases event and projection, renders the data as *)
(* it is then, edits or sends the message and acknowledges.                *)
(* domain/outbox/, workers/outbox-worker.js, discord/renderers/; Discord   *)
(* as the worker uses it.                                                  *)
(*                                                                         *)
(* One aggregate with its projections, seen over MaxChanges changes.       *)
(* Retry delays and not-before times are left to the scheduler, the        *)
(* feature gates are open.                                                 *)
(***************************************************************************)
EXTENDS Integers, Sequences, FiniteSets

CONSTANTS Deliverers,       \* the delivery loops
          Projections,      \* message_projections of the aggregate
          DirectMessages,   \* those whose surface_key is DM:...
          OrderDms,         \* those of type ORDER_DM, sent at best once
          Undiscardable,    \* those whose dead letters are FINANCIAL or AUDIT
          Writes,           \* what a change enqueues, see WriteAssumption
          BackoffSteps,     \* length of BACKOFF, 6 in the code
          MaxChanges, MaxReplays,   \* bounds
          Faults,           \* the kinds of fault that may strike, each at most once
          MaxFaults,        \* how many of them in one behaviour, "forget" not counted
          NoMessage

FaultKinds == { "crash", "stall", "database", "surface", "channel", "refuse",
                "unanswered", "fetch", "forget", "delete" }

\* A change enqueues its projections in order.  Most raise the aggregate's version; but a
\* QUEST counts its discoveries, its sales and its tests each on its own, so that a change
\* of one may find its version used by another.
ASSUME WriteAssumption ==
  \A w \in Writes : w.raises \in BOOLEAN /\ w.to \in Seq(Projections) /\ w.to # << >>
ASSUME OutboxAssumption ==
  /\ OrderDms \subseteq DirectMessages /\ DirectMessages \subseteq Projections
  /\ Projections # {} /\ Undiscardable \subseteq Projections
  /\ BackoffSteps \in Nat /\ MaxChanges \in Nat /\ MaxReplays \in Nat /\ MaxFaults \in Nat
  /\ Faults \subseteq FaultKinds /\ NoMessage = 0

Changes == 1 .. MaxChanges
Replays == MaxChanges + 1 .. MaxChanges + MaxReplays
Keys    == Changes \cup Replays      \* (topic, aggregate_version): the unique key of an event

VARIABLES
  content,    \* how often the aggregate's data changed; what a rendering shows
  revision,   \* aggregate_version of the last change
  desired, delivered, recorded, plive, ptoken,    \* message_projections
  state, of, token, bound, live,                  \* outbox_events
  deadLetter, replay,                             \* dead_letter_items of the events
  dmTried,    \* SUBSET OrderDms: orders.dm_summary_attempted_at is set
  surface,    \* surfaces.state of a projection's channel
  channel,    \* the messages posted for a projection
  suffered,   \* the faults that have struck
  wpc, wevent, wtoken, wrow, wbody, wposted, werror      \* the delivery loops, in memory

projectionVars == << desired, delivered, recorded, plive, ptoken >>
eventVars      == << state, of, token, bound, live >>
letterVars     == << deadLetter, replay >>
rows           == << content, revision, projectionVars, eventVars, letterVars, dmTried, surface >>
loopVars       == << wpc, wevent, wtoken, wrow, wbody, wposted, werror >>
vars           == << rows, channel, suffered, loopVars >>

Init ==
  /\ content = 0 /\ revision = 0
  /\ desired = [p \in Projections |-> 0] /\ delivered = [p \in Projections |-> 0]
  /\ recorded = [p \in Projections |-> NoMessage]
  /\ plive = {} /\ ptoken = [p \in Projections |-> 0]
  /\ state = [k \in Keys |-> "NONE"] /\ of = [k \in Keys |-> CHOOSE p \in Projections : TRUE]
  /\ token = [k \in Keys |-> 0] /\ bound = [k \in Keys |-> 0] /\ live = {}
  /\ deadLetter = [k \in Keys |-> "NONE"] /\ replay = [k \in Keys |-> 0]
  /\ dmTried = {} /\ surface = [p \in Projections |-> "ACTIVE"]
  /\ channel = [p \in Projections |-> << >>] /\ suffered = {}
  /\ wpc = [w \in Deliverers |-> "idle"] /\ wevent = [w \in Deliverers |-> 0]
  /\ wtoken = [w \in Deliverers |-> 0] /\ wrow = [w \in Deliverers |-> NoMessage]
  /\ wbody = [w \in Deliverers |-> 0] /\ wposted = [w \in Deliverers |-> NoMessage]
  /\ werror = [w \in Deliverers |-> "none"]

Suffers(kind) ==
  /\ kind \in Faults \ suffered
  /\ kind = "forget" \/ Cardinality(suffered \ {"forget"}) < MaxFaults     \* a matter of time only
  /\ suffered' = suffered \cup {kind}

-----------------------------------------------------------------------------
(* The transaction of a change: enqueueProjection for each projection.      *)
(* The event's key does not name the projection.                            *)

Wanted(write) == [p \in Projections |-> desired[p] + Cardinality({ n \in DOMAIN write.to : write.to[n] = p })]

Enqueue(key, p) ==
  IF state[key] # "NONE" THEN UNCHANGED << state, of >>
  ELSE state' = [state EXCEPT ![key] = "PENDING"] /\ of' = [of EXCEPT ![key] = p]

Change(write) ==
  LET key == IF write.raises THEN revision + 1 ELSE revision IN
  /\ content < MaxChanges /\ key \in Changes
  /\ \A p \in OrderDms : desired[p] = 0 \/ Wanted(write)[p] = 1     \* an order closes once
  /\ content' = content + 1
  /\ revision' = key
  /\ desired' = Wanted(write)
  /\ Enqueue(key, Head(write.to))      \* the others find the event there
  /\ UNCHANGED << delivered, recorded, plive, ptoken, token, bound, live, letterVars, dmTried,
                  surface, channel, suffered, loopVars >>

-----------------------------------------------------------------------------
(* One delivery: processOutbox.                                             *)

Queued(k)   == state[k] \in {"PENDING", "RETRY_WAIT"}
\* Mutant: an event whose lease ran out is not taken up again.
AvailableQueued(k) == Queued(k)
Available(k) == Queued(k) \/ (state[k] = "LEASED" /\ k \notin live)

AcquireDelivery(w, k) ==
  LET p == of[k] IN
  /\ wpc[w] = "idle"
  /\ Available(k) /\ p \notin plive
  /\ state' = [state EXCEPT ![k] = "LEASED"]
  /\ live' = live \cup {k} /\ plive' = plive \cup {p}
  /\ token' = [token EXCEPT ![k] = @ + 1]
  /\ ptoken' = [ptoken EXCEPT ![p] = @ + 1]
  /\ bound' = [bound EXCEPT ![k] = ptoken[p] + 1]
  /\ wpc' = [wpc EXCEPT ![w] = "taken"]
  /\ wevent' = [wevent EXCEPT ![w] = k]
  /\ wtoken' = [wtoken EXCEPT ![w] = token[k] + 1]
  /\ UNCHANGED << content, revision, desired, delivered, recorded, of, letterVars, dmTried, surface,
                  channel, suffered, wrow, wbody, wposted, werror >>

NothingToDeliver(w) ==
  /\ wpc[w] = "idle"
  /\ \A k \in Keys : ~Available(k) \/ of[k] \in plive
  /\ UNCHANGED vars

Target(w) == of[wevent[w]]
Owns(w) == wevent[w] \in live /\ token[wevent[w]] = wtoken[w]
OwnsProjection(w) == Target(w) \in plive /\ ptoken[Target(w)] = bound[wevent[w]]

Goes(w, step) == wpc' = [wpc EXCEPT ![w] = step]
GivesUp(w, error) == Goes(w, "fail") /\ werror' = [werror EXCEPT ![w] = error]
Holds(w, message) == Goes(w, "record") /\ wposted' = [wposted EXCEPT ![w] = message]
Forgets(w) ==
  /\ wpc' = [wpc EXCEPT ![w] = "idle"] /\ wevent' = [wevent EXCEPT ![w] = 0]
  /\ wtoken' = [wtoken EXCEPT ![w] = 0] /\ wrow' = [wrow EXCEPT ![w] = NoMessage]
  /\ wbody' = [wbody EXCEPT ![w] = 0] /\ wposted' = [wposted EXCEPT ![w] = NoMessage]
  /\ werror' = [werror EXCEPT ![w] = "none"]

\* Mutant: every projection is taken for an order's direct message.
ReadProjectionClaiming(w) ==
  /\ wpc[w] = "taken"
  /\ wrow' = [wrow EXCEPT ![w] = recorded[Target(w)]]
  /\ Goes(w, "claim")
  /\ UNCHANGED << rows, channel, suffered, wevent, wtoken, wbody, wposted, werror >>

ReadProjection(w) ==
  /\ wpc[w] = "taken"
  /\ wrow' = [wrow EXCEPT ![w] = recorded[Target(w)]]
  /\ Goes(w, IF Target(w) \in OrderDms THEN "claim" ELSE "render")
  /\ UNCHANGED << rows, channel, suffered, wevent, wtoken, wbody, wposted, werror >>

\* Mutant: the claim does not look at dm_summary_attempted_at.
ClaimAgain(w) ==
  /\ wpc[w] = "claim"
  /\ dmTried' = IF Owns(w) THEN dmTried \cup {Target(w)} ELSE dmTried
  /\ Goes(w, IF Owns(w) THEN "render" ELSE "record")
  /\ UNCHANGED << content, revision, projectionVars, eventVars, letterVars, surface, channel, suffered,
                  wevent, wtoken, wrow, wbody, wposted, werror >>

ClaimOrderDmAttempt(w) ==
  LET claimed == Target(w) \notin dmTried /\ Owns(w) IN
  /\ wpc[w] = "claim"
  /\ dmTried' = IF claimed THEN dmTried \cup {Target(w)} ELSE dmTried
  /\ Goes(w, IF claimed THEN "render" ELSE "record")
  /\ UNCHANGED << content, revision, projectionVars, eventVars, letterVars, surface, channel, suffered,
                  wevent, wtoken, wrow, wbody, wposted, werror >>

HasSurface(p) == p \in DirectMessages \/ surface[p] = "ACTIVE"

Render(w) ==
  /\ wpc[w] = "render" /\ HasSurface(Target(w))
  /\ wbody' = [wbody EXCEPT ![w] = content]
  /\ Goes(w, "fetch")
  /\ UNCHANGED << rows, channel, suffered, wevent, wtoken, wrow, wposted, werror >>

SurfaceUnavailable(w) ==
  /\ wpc[w] = "render" /\ ~HasSurface(Target(w))
  /\ GivesUp(w, "other")
  /\ UNCHANGED << rows, channel, suffered, wevent, wtoken, wrow, wbody, wposted >>

ChannelMissing(w) ==
  /\ wpc[w] = "render" /\ HasSurface(Target(w)) /\ Suffers("channel")
  /\ GivesUp(w, "channel")
  /\ UNCHANGED << rows, channel, wevent, wtoken, wrow, wbody, wposted >>

-----------------------------------------------------------------------------
(* publishProjection: edit what the row names, else adopt what carries the  *)
(* nonce, else send.  A fetch that fails counts as nothing found.           *)

Messages(p) == 1 .. Len(channel[p])
Kept(p)   == { m \in Messages(p) : channel[p][m].kept }
Recent(p) == { m \in Kept(p) : channel[p][m].recent }
Posted(p, body) == Append(channel[p], [shows |-> body, kept |-> TRUE, recent |-> TRUE])

\* Mutant: the nonce is looked up first, and what carries it is left as it is.
FetchByNonce(w) ==
  /\ wpc[w] = "fetch"
  /\ Goes(w, "search")
  /\ UNCHANGED << rows, channel, suffered, wevent, wtoken, wrow, wbody, wposted, werror >>

Fetch(w) ==
  /\ wpc[w] = "fetch"
  /\ Goes(w, IF wrow[w] \in Kept(Target(w)) THEN "edit" ELSE "search")
  /\ UNCHANGED << rows, channel, suffered, wevent, wtoken, wrow, wbody, wposted, werror >>

FetchFails(w) ==
  /\ wpc[w] \in {"fetch", "search", "check"} /\ Suffers("fetch")
  /\ Goes(w, CASE wpc[w] = "fetch" -> "search" [] wpc[w] = "search" -> "send" [] OTHER -> "fail")
  /\ UNCHANGED << rows, channel, wevent, wtoken, wrow, wbody, wposted, werror >>

EditMessage(w) == [channel EXCEPT ![Target(w)][wrow[w]].shows = wbody[w]]

Edit(w) ==
  /\ wpc[w] = "edit" /\ wrow[w] \in Kept(Target(w))
  /\ channel' = EditMessage(w)
  /\ Holds(w, wrow[w])
  /\ UNCHANGED << rows, suffered, wevent, wtoken, wrow, wbody, werror >>

EditFails(w) ==
  /\ wpc[w] = "edit"
  /\ \/ /\ wrow[w] \notin Kept(Target(w))
        /\ GivesUp(w, "message")
        /\ UNCHANGED << channel, suffered >>
     \/ /\ wrow[w] \in Kept(Target(w)) /\ Suffers("refuse")
        /\ \E error \in {"forbidden", "other"} : GivesUp(w, error)
        /\ UNCHANGED channel
     \/ /\ wrow[w] \in Kept(Target(w)) /\ Suffers("unanswered")
        /\ channel' = EditMessage(w)
        /\ GivesUp(w, "other")
  /\ UNCHANGED << rows, wevent, wtoken, wrow, wbody, wposted >>

FindMessageByNonce(w) ==
  /\ wpc[w] = "search"
  /\ \/ \E m \in Recent(Target(w)) : Holds(w, m)
     \/ Recent(Target(w)) = {} /\ Goes(w, "send") /\ UNCHANGED wposted
  /\ UNCHANGED << rows, channel, suffered, wevent, wtoken, wrow, wbody, werror >>

\* Discord's enforceNonce answers a second message of the same nonce with the first.
Send(w) ==
  LET p == Target(w) IN
  /\ wpc[w] = "send"
  /\ \/ \E m \in Recent(p) : Holds(w, m) /\ UNCHANGED channel
     \/ /\ Recent(p) = {}
        /\ channel' = [channel EXCEPT ![p] = Posted(p, wbody[w])]
        /\ Holds(w, Len(channel[p]) + 1)
  /\ UNCHANGED << rows, suffered, wevent, wtoken, wrow, wbody, werror >>

SendFails(w) ==
  LET p == Target(w) IN
  /\ wpc[w] = "send"
  /\ \/ /\ Suffers("refuse")
        /\ \E error \in {"forbidden", "other"} : werror' = [werror EXCEPT ![w] = error]
        /\ UNCHANGED channel
     \/ /\ Suffers("unanswered")
        /\ channel' = IF Recent(p) = {} THEN [channel EXCEPT ![p] = Posted(p, wbody[w])] ELSE channel
        /\ werror' = [werror EXCEPT ![w] = "other"]
  /\ Goes(w, "check")
  /\ UNCHANGED << rows, wevent, wtoken, wrow, wbody, wposted >>

Reconcile(w) ==
  /\ wpc[w] = "check"
  /\ \/ \E m \in Recent(Target(w)) : Holds(w, m)
     \/ Recent(Target(w)) = {} /\ Goes(w, "fail") /\ UNCHANGED wposted
  /\ UNCHANGED << rows, channel, suffered, wevent, wtoken, wrow, wbody, werror >>

-----------------------------------------------------------------------------
(* The end of a delivery.  One that lost either lease changes nothing.      *)

LostDelivery(w) ==
  /\ \/ wpc[w] = "record" /\ ~(Owns(w) /\ OwnsProjection(w))
     \/ wpc[w] = "fail" /\ ~Owns(w)
  /\ Forgets(w)
  /\ UNCHANGED << rows, channel, suffered >>

\* Mutant: the queued events of the whole aggregate are coalesced.
RecordForAggregate(w) ==
  LET k == wevent[w]  p == Target(w) IN
  /\ wpc[w] = "record" /\ Owns(w) /\ OwnsProjection(w)
  /\ recorded' = IF wposted[w] = NoMessage THEN recorded ELSE [recorded EXCEPT ![p] = wposted[w]]
  /\ delivered' = [delivered EXCEPT ![p] = desired[p]]
  /\ plive' = plive \ {p} /\ live' = live \ {k}
  /\ state' = [j \in Keys |-> IF j = k \/ Queued(j) THEN "DELIVERED" ELSE state[j]]
  /\ Forgets(w)
  /\ UNCHANGED << content, revision, desired, ptoken, of, token, bound, letterVars, dmTried, surface,
                  channel, suffered >>

RecordDelivery(w) ==
  LET k == wevent[w]  p == Target(w) IN
  /\ wpc[w] = "record" /\ Owns(w) /\ OwnsProjection(w)
  /\ recorded' = IF wposted[w] = NoMessage THEN recorded ELSE [recorded EXCEPT ![p] = wposted[w]]
  /\ delivered' = [delivered EXCEPT ![p] = desired[p]]
  /\ plive' = plive \ {p} /\ live' = live \ {k}
  /\ state' = [j \in Keys |-> IF j = k \/ (of[j] = p /\ Queued(j)) THEN "DELIVERED" ELSE state[j]]
  /\ deadLetter' = [j \in Keys |-> IF deadLetter[j] = "PENDING" /\ replay[j] = k
                                   THEN "RESOLVED" ELSE deadLetter[j]]
  /\ Forgets(w)
  /\ UNCHANGED << content, revision, desired, ptoken, of, token, bound, replay, dmTried, surface,
                  channel, suffered >>

\* The heartbeat could not reach the database: the worker gives up what it has just published.
HeartbeatFails(w) ==
  /\ wpc[w] = "record" /\ Suffers("database")
  /\ GivesUp(w, "other")
  /\ UNCHANGED << rows, channel, wevent, wtoken, wrow, wbody, wposted >>

FailDelivery(w) ==
  LET k == wevent[w]
      p == Target(w)
      bestEffort == p \in OrderDms
      dead == ~bestEffort /\ (werror[w] = "forbidden" \/ token[k] > BackoffSteps)
  IN
  /\ wpc[w] = "fail" /\ Owns(w)
  /\ state' = [state EXCEPT ![k] = CASE bestEffort -> "DELIVERED" [] dead -> "DEAD_LETTER"
                                     [] OTHER -> "RETRY_WAIT"]
  /\ live' = live \ {k}
  /\ IF OwnsProjection(w)
     THEN /\ plive' = plive \ {p}
          /\ recorded' = IF werror[w] \in {"message", "channel"}
                         THEN [recorded EXCEPT ![p] = NoMessage] ELSE recorded
     ELSE UNCHANGED << plive, recorded >>
  /\ surface' = CASE p \in DirectMessages -> surface
                  [] werror[w] = "forbidden" -> [surface EXCEPT ![p] = "DRIFTED"]
                  [] werror[w] = "channel" -> [surface EXCEPT ![p] = "RECONCILING"]
                  [] OTHER -> surface
  /\ deadLetter' = IF dead THEN [deadLetter EXCEPT ![k] = "DEAD_LETTER"] ELSE deadLetter
  /\ Forgets(w)
  /\ UNCHANGED << content, revision, desired, delivered, ptoken, of, token, bound, replay, dmTried,
                  channel, suffered >>

-----------------------------------------------------------------------------
(* Dead letters: what an administrator may do with them.                    *)

ReplayDeadLetter(k, r) ==
  /\ deadLetter[k] = "DEAD_LETTER" /\ r \in Replays /\ state[r] = "NONE"
  /\ state' = [state EXCEPT ![r] = "PENDING"] /\ of' = [of EXCEPT ![r] = of[k]]
  /\ deadLetter' = [deadLetter EXCEPT ![k] = "PENDING"]
  /\ replay' = [replay EXCEPT ![k] = r]
  /\ UNCHANGED << content, revision, projectionVars, token, bound, live, dmTried, surface, channel,
                  suffered, loopVars >>

DiscardDeadLetter(k) ==
  /\ deadLetter[k] = "DEAD_LETTER" /\ of[k] \notin Undiscardable
  /\ deadLetter' = [deadLetter EXCEPT ![k] = "DISCARDED"]
  /\ UNCHANGED << content, revision, projectionVars, eventVars, replay, dmTried, surface, channel,
                  suffered, loopVars >>

-----------------------------------------------------------------------------
(* Time, the process and Discord.  A lease that its holder renews runs out  *)
(* only when the holder stalls.                                             *)

Renewed(w) == wpc[w] # "idle" /\ Owns(w) /\ OwnsProjection(w)

EventLeaseRunsOut(k) ==
  /\ k \in live /\ live' = live \ {k}
  /\ IF \E w \in Deliverers : wevent[w] = k /\ Renewed(w) THEN Suffers("stall") ELSE UNCHANGED suffered
  /\ UNCHANGED << content, revision, projectionVars, state, of, token, bound, letterVars, dmTried,
                  surface, channel, loopVars >>

ProjectionLeaseRunsOut(p) ==
  /\ p \in plive /\ plive' = plive \ {p}
  /\ IF \E w \in Deliverers : Renewed(w) /\ Target(w) = p THEN Suffers("stall") ELSE UNCHANGED suffered
  /\ UNCHANGED << content, revision, desired, delivered, recorded, ptoken, eventVars, letterVars,
                  dmTried, surface, channel, loopVars >>

Crash(w) ==
  /\ wpc[w] # "idle" /\ Suffers("crash")
  /\ Forgets(w)
  /\ UNCHANGED << rows, channel >>

\* The permission check finds the channel exposed or unusable.
SurfaceDrifts(p) ==
  /\ surface[p] = "ACTIVE" /\ p \notin DirectMessages /\ Suffers("surface")
  /\ surface' = [surface EXCEPT ![p] = "DRIFTED"]
  /\ UNCHANGED << content, revision, projectionVars, eventVars, letterVars, dmTried, channel, loopVars >>

\* The next permission check, or the reconciliation of the anchors, finds it usable.
SurfaceRestored(p) ==
  /\ surface[p] # "ACTIVE"
  /\ surface' = [surface EXCEPT ![p] = "ACTIVE"]
  /\ UNCHANGED << content, revision, projectionVars, eventVars, letterVars, dmTried, channel, suffered,
                  loopVars >>

\* 25 newer messages, and the minutes for which Discord remembers a nonce.
NonceForgotten(p) ==
  /\ Recent(p) # {} /\ Suffers("forget")
  /\ channel' = [channel EXCEPT ![p] = [m \in Messages(p) |-> [@[m] EXCEPT !.recent = FALSE]]]
  /\ UNCHANGED << rows, loopVars >>

MessageDeleted(p, m) ==
  /\ m \in Kept(p) /\ Suffers("delete")
  /\ channel' = [channel EXCEPT ![p][m].kept = FALSE]
  /\ UNCHANGED << rows, loopVars >>

-----------------------------------------------------------------------------
Delivers(w) ==
  \/ ReadProjection(w) \/ ClaimOrderDmAttempt(w) \/ Render(w) \/ SurfaceUnavailable(w)
  \/ Fetch(w) \/ Edit(w) \/ EditFails(w) \/ FindMessageByNonce(w) \/ Send(w) \/ Reconcile(w)
  \/ LostDelivery(w) \/ RecordDelivery(w) \/ FailDelivery(w)

Strikes(w) ==
  \/ ChannelMissing(w) \/ FetchFails(w) \/ SendFails(w) \/ HeartbeatFails(w) \/ Crash(w)

Next ==
  \/ \E write \in Writes : Change(write)
  \/ \E w \in Deliverers : Delivers(w) \/ Strikes(w) \/ NothingToDeliver(w)
  \/ \E w \in Deliverers, k \in Keys : AcquireDelivery(w, k)
  \/ \E k \in Keys : EventLeaseRunsOut(k) \/ DiscardDeadLetter(k)
  \/ \E k \in Keys, r \in Replays : ReplayDeadLetter(k, r)
  \/ \E p \in Projections :
       ProjectionLeaseRunsOut(p) \/ SurfaceDrifts(p) \/ SurfaceRestored(p) \/ NonceForgotten(p)
  \/ \E p \in Projections : \E m \in Messages(p) : MessageDeleted(p, m)

Spec == Init /\ [][Next]_vars

\* The loops poll without end and the database answers; time passes.
FairSpec ==
  /\ Spec
  /\ \A w \in Deliverers : WF_vars(Delivers(w))
  /\ WF_vars(\E w \in Deliverers, k \in Keys : AcquireDelivery(w, k))
  /\ \A k \in Keys : WF_vars(EventLeaseRunsOut(k))
  /\ \A p \in Projections : WF_vars(ProjectionLeaseRunsOut(p))
=============================================================================
