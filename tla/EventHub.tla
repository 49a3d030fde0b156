------------------------------ MODULE EventHub ------------------------------
(***************************************************************************)
(* The fan-out of native confirmations to SSE subscribers: EventHub,       *)
(* ConfirmationSessionLease and the body stream of sse_handler             *)
(* (src/src/lib.rs).                                                       *)
(*                                                                         *)
(* The hub holds at most one current session behind a watch channel.  Its  *)
(* owner publishes into the session's bounded broadcast ring through a     *)
(* lease; dropping the lease, or starting another session, cancels it.     *)
(* Every SSE stream is bound to the session that was current when it       *)
(* registered.  Its generator polls the cancellation token first and the   *)
(* ring second (a biased select!): the two polls are two steps here,       *)
(* because another thread can cancel or publish between them.              *)
(***************************************************************************)
EXTENDS Integers, Sequences, FiniteSets

CONSTANTS
    Stream,         \* SSE requests, one element per request
    Kind,           \* confirmations, up to what the streams' filters tell apart
    Interest,       \* what StreamOptions::matches accepts, for each stream
    Capacity,       \* slots of the broadcast ring (SSE_QUEUE_CAPACITY)
    MaxGeneration,  \* bound: sessions ever started
    MaxPublished    \* bound: events published into one session

ASSUME InterestAssumption == Interest \in [Stream -> SUBSET Kind]
\* with_capacity takes capacity.max(1).
ASSUME CapacityAssumption == Capacity \in Nat \ {0}
ASSUME BoundAssumption == MaxGeneration \in Nat /\ MaxPublished \in Nat

Generation == 1 .. MaxGeneration
NoSession == 0

VARIABLES
    current,          \* EventHub.current: a generation, or NoSession for None
    next_generation,  \* EventHub.next_generation
    phase,            \* a session: "unborn", "allocated", "leased", "dropped"
    cancelled,        \* the session's CancellationToken
    sending,          \* its lease passed the check in publish, not yet sent
    ring,             \* everything sent into the session's broadcast channel
    pc,               \* where a stream is in sse_handler
    generation,       \* the session a stream subscribed to
    from,             \* the tail of the ring when its receiver was created
    cursor,           \* the receiver's position in the ring
    delivered,        \* the positions yielded to the client
    late,             \* those yielded after the session was cancelled
    close_reason,     \* ActiveStreamGuard.close_reason
    active_streams    \* Metrics.active_streams

hubVars == <<current, next_generation>>
sessionVars == <<phase, cancelled, sending, ring>>
bindingVars == <<generation, from>>
readVars == <<cursor, delivered, late>>
streamVars == <<pc, bindingVars, readVars, close_reason>>
vars == <<hubVars, sessionVars, streamVars, active_streams>>

OpenPc == {"unpolled", "polling", "receiving"}
OpenStreams == {s \in Stream : pc[s] \in OpenPc}
Begun(g) == phase[g] \in {"leased", "dropped"}

Init ==
    /\ current = NoSession
    /\ next_generation = 1
    /\ phase = [g \in Generation |-> "unborn"]
    /\ cancelled = [g \in Generation |-> FALSE]
    /\ sending = [g \in Generation |-> FALSE]
    /\ ring = [g \in Generation |-> <<>>]
    /\ pc = [s \in Stream |-> "request"]
    /\ generation = [s \in Stream |-> NoSession]
    /\ from = [s \in Stream |-> 0]
    /\ cursor = [s \in Stream |-> 0]
    /\ delivered = [s \in Stream |-> <<>>]
    /\ late = [s \in Stream |-> 0]
    /\ close_reason = [s \in Stream |-> "client_disconnected"]
    /\ active_streams = 0

-----------------------------------------------------------------------------
(* Sessions and their leases.                                              *)

\* start_session builds the session first: a channel, a token, a generation.
AllocateSession(g) ==
    /\ g = next_generation
    /\ next_generation' = g + 1
    /\ phase' = [phase EXCEPT ![g] = "allocated"]
    /\ UNCHANGED <<current, cancelled, sending, ring, streamVars, active_streams>>

\* Mutant of CancelReplaced: the replaced session is forgotten, not cancelled.
CancelNothing == cancelled

\* The tokens cancelled when session g is installed in place of the current one.
CancelReplaced == [h \in Generation |-> cancelled[h] \/ h = current]

\* start_session then replaces the current session under the watch's write
\* lock: a previous session is cancelled in the same critical section.
InstallSession(g) ==
    /\ phase[g] = "allocated"
    /\ phase' = [phase EXCEPT ![g] = "leased"]
    /\ cancelled' = CancelReplaced
    /\ current' = g
    /\ UNCHANGED <<next_generation, sending, ring, streamVars, active_streams>>

\* Mutant of CurrentAfterDrop: Drop clears whatever is current.
ClearCurrent(g) == NoSession

\* What Drop leaves in EventHub.current: only the lease's own session goes.
CurrentAfterDrop(g) == IF current = g THEN NoSession ELSE current

\* ConfirmationSessionLease::drop.  The lease cannot go while it is inside
\* publish, which borrows it.
DropLease(g) ==
    /\ phase[g] = "leased"
    /\ ~sending[g]
    /\ phase' = [phase EXCEPT ![g] = "dropped"]
    /\ cancelled' = [cancelled EXCEPT ![g] = TRUE]
    /\ current' = CurrentAfterDrop(g)
    /\ UNCHANGED <<next_generation, sending, ring, streamVars, active_streams>>

\* ConfirmationSessionLease::publish looks at the token and then sends.
LeasePublishCheck(g) ==
    /\ phase[g] = "leased"
    /\ ~sending[g]
    /\ ~cancelled[g]
    /\ Len(ring[g]) < MaxPublished
    /\ sending' = [sending EXCEPT ![g] = TRUE]
    /\ UNCHANGED <<hubVars, phase, cancelled, ring, streamVars, active_streams>>

LeasePublishSend(g, k) ==
    /\ sending[g]
    /\ sending' = [sending EXCEPT ![g] = FALSE]
    /\ ring' = [ring EXCEPT ![g] = Append(@, k)]
    /\ UNCHANGED <<hubVars, phase, cancelled, streamVars, active_streams>>

\* EventHub::publish sends to the current session under the watch's read
\* guard, so no session can be replaced or retired meanwhile.
HubPublish(k) ==
    /\ current # NoSession
    /\ Len(ring[current]) < MaxPublished
    /\ ring' = [ring EXCEPT ![current] = Append(@, k)]
    /\ UNCHANGED <<hubVars, phase, cancelled, sending, streamVars, active_streams>>

-----------------------------------------------------------------------------
(* Streams.                                                                *)

\* Mutant of Subscribe: the receiver starts at the session's first event.
SubscribeFromStart(s) ==
    /\ pc[s] = "request"
    /\ current # NoSession
    /\ pc' = [pc EXCEPT ![s] = "unpolled"]
    /\ generation' = [generation EXCEPT ![s] = current]
    /\ active_streams' = active_streams + 1
    /\ UNCHANGED <<hubVars, sessionVars, from, cursor, delivered, late,
                   close_reason>>

\* EventHub::subscribe: the receiver and the token of one session, the current
\* one, taken under the watch's read guard.
Bind(s) ==
    /\ generation' = [generation EXCEPT ![s] = current]
    /\ from' = [from EXCEPT ![s] = Len(ring[current])]
    /\ cursor' = [cursor EXCEPT ![s] = Len(ring[current])]

\* A valid request subscribes; its guard counts the stream before the body of
\* the response is polled at all.
Subscribe(s) ==
    /\ pc[s] = "request"
    /\ current # NoSession
    /\ pc' = [pc EXCEPT ![s] = "unpolled"]
    /\ Bind(s)
    /\ active_streams' = active_streams + 1
    /\ UNCHANGED <<hubVars, sessionVars, delivered, late, close_reason>>

\* 503 with Retry-After: no upstream subscription is acknowledged.
SubscribeUnavailable(s) ==
    /\ pc[s] = "request"
    /\ current = NoSession
    /\ pc' = [pc EXCEPT ![s] = "refused"]
    /\ UNCHANGED <<hubVars, sessionVars, bindingVars, readVars, close_reason,
                   active_streams>>

\* The body is polled for the first time: the "connected" comment goes out
\* unless the session is lost already; either way the loop is entered.
FirstPoll(s) ==
    /\ pc[s] = "unpolled"
    /\ pc' = [pc EXCEPT ![s] = "polling"]
    /\ UNCHANGED <<hubVars, sessionVars, bindingVars, readVars, close_reason,
                   active_streams>>

\* Mutant of Close: the gauge goes down only when the generator ends by itself.
CloseUncounted(s, reason) ==
    /\ pc' = [pc EXCEPT ![s] = "closed"]
    /\ close_reason' = [close_reason EXCEPT ![s] = reason]
    /\ active_streams' =
          IF reason = "client_disconnected" THEN active_streams
                                            ELSE active_streams - 1

\* The generator ends and drops its ActiveStreamGuard.
Close(s, reason) ==
    /\ pc' = [pc EXCEPT ![s] = "closed"]
    /\ close_reason' = [close_reason EXCEPT ![s] = reason]
    /\ active_streams' = active_streams - 1

\* Mutant of PollCancelled: the receiver is polled whatever the token says.
PollUnbiased(s) ==
    /\ pc[s] = "polling"
    /\ pc' = [pc EXCEPT ![s] = "receiving"]
    /\ UNCHANGED <<hubVars, sessionVars, bindingVars, readVars, close_reason,
                   active_streams>>

\* The biased select! polls the token before it polls the receiver.
PollCancelled(s) ==
    /\ pc[s] = "polling"
    /\ IF cancelled[generation[s]]
         THEN Close(s, "upstream_session_lost")
         ELSE /\ pc' = [pc EXCEPT ![s] = "receiving"]
              /\ UNCHANGED <<close_reason, active_streams>>
    /\ UNCHANGED <<hubVars, sessionVars, bindingVars, readVars>>

Unread(s) == Len(ring[generation[s]]) - cursor[s]

\* The receiver has nothing: the select! is pending until one side wakes it.  (A
\* receiver that finds its channel closed ends the stream for the same reason as
\* the token, which is cancelled by then: it is the next poll that closes.)
RecvPending(s) ==
    /\ pc[s] = "receiving"
    /\ Unread(s) = 0
    /\ pc' = [pc EXCEPT ![s] = "polling"]
    /\ UNCHANGED <<hubVars, sessionVars, bindingVars, readVars, close_reason,
                   active_streams>>

\* The next event is still in the ring: yielded if the options match it.
RecvEvent(s) ==
    /\ pc[s] = "receiving"
    /\ Unread(s) \in 1 .. Capacity
    /\ pc' = [pc EXCEPT ![s] = "polling"]
    /\ cursor' = [cursor EXCEPT ![s] = @ + 1]
    /\ IF ring[generation[s]][cursor[s] + 1] \in Interest[s]
         THEN /\ delivered' = [delivered EXCEPT ![s] = Append(@, cursor[s] + 1)]
              /\ late' = IF cancelled[generation[s]]
                           THEN [late EXCEPT ![s] = @ + 1]
                           ELSE late
         ELSE UNCHANGED <<delivered, late>>
    /\ UNCHANGED <<hubVars, sessionVars, bindingVars, close_reason, active_streams>>

\* Mutants of RecvLagged: reading goes on at the oldest event that is left, as
\* the receiver would by itself; or the end is logged under another reason.
ResumeAfterLag(s) ==
    /\ pc[s] = "receiving"
    /\ Unread(s) > Capacity
    /\ cursor' = [cursor EXCEPT ![s] = Len(ring[generation[s]]) - Capacity]
    /\ pc' = [pc EXCEPT ![s] = "polling"]
    /\ UNCHANGED <<hubVars, sessionVars, bindingVars, delivered, late,
                   close_reason, active_streams>>
LagUnknownReason(s) ==
    /\ pc[s] = "receiving"
    /\ Unread(s) > Capacity
    /\ Close(s, "lagged")
    /\ UNCHANGED <<hubVars, sessionVars, bindingVars, readVars>>

\* The next event was overwritten: the stream is closed, not told about it.
RecvLagged(s) ==
    /\ pc[s] = "receiving"
    /\ Unread(s) > Capacity
    /\ Close(s, "subscriber_lagged")
    /\ UNCHANGED <<hubVars, sessionVars, bindingVars, readVars>>

\* The client goes away between two polls: the body is dropped, polled or not.
ClientDisconnect(s) ==
    /\ pc[s] \in {"unpolled", "polling"}
    /\ Close(s, "client_disconnected")
    /\ UNCHANGED <<hubVars, sessionVars, bindingVars, readVars>>

-----------------------------------------------------------------------------
SessionStep(g) ==
    \/ AllocateSession(g)
    \/ InstallSession(g)
    \/ DropLease(g)
    \/ LeasePublishCheck(g)
    \/ \E k \in Kind : LeasePublishSend(g, k)

\* What the runtime does for a stream whose client keeps reading.
PollStream(s) ==
    \/ FirstPoll(s)
    \/ PollCancelled(s)
    \/ RecvPending(s)
    \/ RecvEvent(s)
    \/ RecvLagged(s)

StreamStep(s) ==
    \/ Subscribe(s)
    \/ SubscribeUnavailable(s)
    \/ PollStream(s)
    \/ ClientDisconnect(s)

Next ==
    \/ \E g \in Generation : SessionStep(g)
    \/ \E k \in Kind : HubPublish(k)
    \/ \E s \in Stream : StreamStep(s)

Spec == Init /\ [][Next]_vars

\* The executor polls a stream again and again as long as its client reads.
FairSpec == Spec /\ \A s \in Stream : WF_vars(PollStream(s))

-----------------------------------------------------------------------------
(* Properties.                                                             *)

SessionTypeOK ==
    /\ current \in Generation \cup {NoSession}
    /\ next_generation \in 1 .. MaxGeneration + 1
    /\ phase \in [Generation -> {"unborn", "allocated", "leased", "dropped"}]
    /\ cancelled \in [Generation -> BOOLEAN]
    /\ sending \in [Generation -> BOOLEAN]
    /\ ring \in [Generation -> Seq(Kind)]

StreamTypeOK ==
    /\ pc \in [Stream -> OpenPc \cup {"request", "refused", "closed"}]
    /\ generation \in [Stream -> Generation \cup {NoSession}]
    /\ from \in [Stream -> Nat]
    /\ cursor \in [Stream -> Nat]
    /\ delivered \in [Stream -> Seq(Nat)]
    /\ late \in [Stream -> Nat]
    /\ close_reason \in [Stream -> {"client_disconnected", "subscriber_lagged",
                                    "upstream_session_lost"}]
    /\ active_streams \in Int

\* The types of the hub's, the sessions' and the streams' variables
\* (EventHub, ConfirmationSession, ConfirmationSubscription, Metrics).
TypeOK == SessionTypeOK /\ StreamTypeOK

\* A session is cancelled exactly when it has begun and is no longer the
\* current one: no subscriber can stay bound to a session that will never be
\* cancelled, whichever of concurrent start_session and Drop comes first.
RetiredMeansCancelled ==
    \A g \in Generation : cancelled[g] <=> (Begun(g) /\ current # g)

\* The current session is held by a lease that has not been dropped, so the
\* gateway never reports ready for an upstream nobody feeds.
ReadyMeansLeased == current # NoSession => phase[current] = "leased"

\* got lists, in order and once each, exactly the positions after lo and up to
\* hi at which the feed carries something wanted.
Selects(got, feed, wanted, lo, hi) ==
    /\ \A i \in 1 .. Len(got) :
          /\ got[i] \in (lo + 1) .. hi
          /\ feed[got[i]] \in wanted
          /\ \A j \in 1 .. (i - 1) : got[j] < got[i]
    /\ \A p \in (lo + 1) .. hi :
          feed[p] \in wanted => \E i \in 1 .. Len(got) : got[i] = p

GapFree(s) ==
    Selects(delivered[s], ring[generation[s]], Interest[s], from[s], cursor[s])

\* A stream has been given exactly the events its filter matches among those
\* its own session carried from its registration up to its cursor: in order,
\* none twice, none missing, even when it fell behind the ring.
NoGap == \A s \in Stream : generation[s] # NoSession => GapFree(s)

\* After its session was cancelled a stream yields at most the one event whose
\* poll had already seen the token unset: buffered events are not drained.
AtMostOneLate == \A s \in Stream : late[s] <= 1

\* The active_streams gauge counts the streams that are open, bodies that were
\* created and never polled included, whichever way each of them ends.
ActiveStreamsExact == active_streams = Cardinality(OpenStreams)

\* A live session goes away without a successor only when its own lease is
\* dropped; the late drop of an older lease never touches its replacement.
OnlyOwnLeaseRetires ==
    [][\A g \in Generation :
          current = g /\ current' = NoSession => phase'[g] = "dropped"]_vars

\* Every stream of a lost session is closed, as long as its client reads.
LostStreamsClose ==
    \A s \in Stream :
        (s \in OpenStreams /\ cancelled[generation[s]]) ~> (pc[s] = "closed")

\* An event a stream's filter matches reaches the client, or the stream ends:
\* it is never dropped in silence.
WantedEventArrives ==
    \A s \in Stream : \A p \in 1 .. MaxPublished :
        (/\ s \in OpenStreams
         /\ p \in (from[s] + 1) .. Len(ring[generation[s]])
         /\ ring[generation[s]][p] \in Interest[s])
        ~> \/ pc[s] = "closed"
           \/ \E i \in 1 .. Len(delivered[s]) : delivered[s][i] = p

-----------------------------------------------------------------------------
(* The hub implements the promise made to subscribers.                     *)

StatusOf(s) ==
    CASE pc[s] = "request" -> "new"
      [] pc[s] \in OpenPc -> "open"
      [] OTHER -> pc[s]

FeedStatus == [s \in Stream |-> StatusOf(s)]

Feed == INSTANCE ConfirmationFeed WITH
    Session <- Generation,
    live <- current,
    feed <- ring,
    status <- FeedStatus,
    session <- generation,
    got <- delivered

\* Every behaviour of the hub is one that ConfirmationFeed allows.
ImplementsFeed == Feed!Spec
=============================================================================
