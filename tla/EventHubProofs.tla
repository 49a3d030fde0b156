--------------------------- MODULE EventHubProofs ---------------------------
(***************************************************************************)
(* What holds of EventHub for every set of streams, filter, ring capacity  *)
(* and bound.                                                              *)
(***************************************************************************)
EXTENDS EventHub, FiniteSetTheorems, TLAPS

-----------------------------------------------------------------------------
(* Types.                                                                  *)

\* None is not a generation: they are numbered from one.
LEMMA NoSessionIsNone == NoSession \notin Generation
BY DEF NoSession, Generation

\* Streams and readers leave every session variable alone.
LEMMA StreamsKeepSessions ==
    ASSUME NEW s \in Stream, StreamStep(s)
    PROVE  UNCHANGED <<hubVars, sessionVars>>
BY DEF StreamStep, PollStream, Subscribe, Bind, SubscribeUnavailable, FirstPoll,
       PollCancelled, RecvPending, RecvEvent, RecvLagged, ClientDisconnect,
       hubVars, sessionVars

\* Sessions and publishers leave every stream variable alone.
LEMMA SessionsKeepStreams ==
    ASSUME \/ \E g \in Generation : SessionStep(g)
           \/ \E k \in Kind : HubPublish(k)
    PROVE  UNCHANGED <<streamVars, active_streams>>
BY DEF SessionStep, AllocateSession, InstallSession, DropLease,
       LeasePublishCheck, LeasePublishSend, HubPublish, streamVars

\* Every step of a session or of its lease keeps the sessions' types.
LEMMA SessionTypes ==
    ASSUME SessionTypeOK, NEW g \in Generation, SessionStep(g)
    PROVE  SessionTypeOK'
<1> USE DEF SessionTypeOK, hubVars
<1>1. CASE AllocateSession(g)
  BY <1>1, BoundAssumption DEF AllocateSession, Generation
<1>2. CASE InstallSession(g)
  BY <1>2 DEF InstallSession, CancelReplaced
<1>3. CASE DropLease(g)
  BY <1>3 DEF DropLease, CurrentAfterDrop
<1>4. CASE LeasePublishCheck(g)
  BY <1>4 DEF LeasePublishCheck
<1>5. ASSUME NEW k \in Kind, LeasePublishSend(g, k) PROVE SessionTypeOK'
  BY <1>5 DEF LeasePublishSend
<1>6. QED
  BY <1>1, <1>2, <1>3, <1>4, <1>5 DEF SessionStep

\* Taking an event from the ring keeps the streams' types.
LEMMA RecvEventTypes ==
    ASSUME StreamTypeOK, NEW s \in Stream, RecvEvent(s)
    PROVE  StreamTypeOK'
<1>1. /\ cursor \in [Stream -> Nat]
      /\ late \in [Stream -> Nat]
      /\ delivered \in [Stream -> Seq(Nat)]
  BY DEF StreamTypeOK
<1>2. cursor[s] + 1 \in Nat /\ late[s] + 1 \in Nat
  BY <1>1
<1>3. cursor' \in [Stream -> Nat]
  BY <1>1, <1>2 DEF RecvEvent
<1>4. delivered' \in [Stream -> Seq(Nat)]
  <2>1. \/ delivered' = delivered
        \/ delivered' = [delivered EXCEPT ![s] = Append(@, cursor[s] + 1)]
    BY DEF RecvEvent
  <2>2. Append(delivered[s], cursor[s] + 1) \in Seq(Nat)
    BY <1>1, <1>2
  <2>3. QED
    BY <1>1, <2>1, <2>2
<1>5. late' \in [Stream -> Nat]
  <2>1. late' = late \/ late' = [late EXCEPT ![s] = @ + 1]
    BY DEF RecvEvent
  <2>2. QED
    BY <1>1, <1>2, <2>1
<1>6. pc' \in [Stream -> OpenPc \cup {"request", "refused", "closed"}]
  BY DEF RecvEvent, StreamTypeOK, OpenPc
<1>7. QED
  BY <1>3, <1>4, <1>5, <1>6
  DEF RecvEvent, StreamTypeOK, bindingVars

\* Every step of a stream keeps the streams' types.
LEMMA StreamTypes ==
    ASSUME SessionTypeOK, StreamTypeOK, NEW s \in Stream, StreamStep(s)
    PROVE  StreamTypeOK'
<1> USE DEF StreamTypeOK, bindingVars, readVars, OpenPc
<1>1. CASE Subscribe(s)
  BY <1>1 DEF Subscribe, Bind, NoSession, SessionTypeOK
<1>2. CASE SubscribeUnavailable(s)
  BY <1>2 DEF SubscribeUnavailable
<1>3. CASE FirstPoll(s)
  BY <1>3 DEF FirstPoll
<1>4. CASE PollCancelled(s)
  <2>1. CASE Close(s, "upstream_session_lost")
    BY <1>4, <2>1 DEF PollCancelled, Close
  <2>2. CASE pc' = [pc EXCEPT ![s] = "receiving"]
             /\ UNCHANGED <<close_reason, active_streams>>
    BY <1>4, <2>2 DEF PollCancelled
  <2>3. QED
    BY <1>4, <2>1, <2>2 DEF PollCancelled
<1>5. CASE RecvPending(s)
  BY <1>5 DEF RecvPending
<1>6. CASE RecvEvent(s)
  BY <1>6, RecvEventTypes
<1>7. CASE RecvLagged(s)
  BY <1>7 DEF RecvLagged, Close
<1>8. CASE ClientDisconnect(s)
  BY <1>8 DEF ClientDisconnect, Close
<1>9. QED
  BY <1>1, <1>2, <1>3, <1>4, <1>5, <1>6, <1>7, <1>8 DEF StreamStep, PollStream

\* The types hold in every reachable state.
THEOREM TypeCorrect == Spec => []TypeOK
<1>1. Init => TypeOK
  BY BoundAssumption
  DEF Init, TypeOK, SessionTypeOK, StreamTypeOK, Generation, NoSession, OpenPc
<1>2. TypeOK /\ [Next]_vars => TypeOK'
  <2> SUFFICES ASSUME SessionTypeOK, StreamTypeOK, [Next]_vars
               PROVE  SessionTypeOK' /\ StreamTypeOK'
    BY DEF TypeOK
  <2> USE DEF streamVars, bindingVars, readVars
  <2>1. ASSUME NEW g \in Generation, SessionStep(g)
        PROVE  SessionTypeOK' /\ StreamTypeOK'
    BY <2>1, SessionTypes, SessionsKeepStreams DEF StreamTypeOK
  <2>2. ASSUME NEW k \in Kind, HubPublish(k)
        PROVE  SessionTypeOK' /\ StreamTypeOK'
    <3>1. SessionTypeOK'
      BY <2>2 DEF HubPublish, SessionTypeOK, hubVars, NoSession
    <3>2. QED
      BY <2>2, <3>1, SessionsKeepStreams DEF StreamTypeOK
  <2>3. ASSUME NEW s \in Stream, StreamStep(s)
        PROVE  SessionTypeOK' /\ StreamTypeOK'
    BY <2>3, StreamTypes, StreamsKeepSessions
    DEF SessionTypeOK, hubVars, sessionVars
  <2>4. CASE UNCHANGED vars
    BY <2>4 DEF vars, hubVars, sessionVars, SessionTypeOK, StreamTypeOK
  <2>5. QED
    BY <2>1, <2>2, <2>3, <2>4 DEF Next
<1>3. QED
  BY <1>1, <1>2, PTL DEF Spec

-----------------------------------------------------------------------------
(* Sessions: the invariant that makes retirement safe.                     *)

\* RetiredMeansCancelled is not inductive by itself: installing a session
\* needs that it is not the current one already and was never cancelled,
\* which the order of allocation and the leases give.
SessionInv ==
    /\ SessionTypeOK
    /\ RetiredMeansCancelled
    /\ ReadyMeansLeased
    /\ \A g \in Generation : phase[g] = "unborn" <=> g >= next_generation
    /\ \A g \in Generation : sending[g] => phase[g] = "leased"
    /\ \A g \in Generation : ~Begun(g) => ring[g] = <<>>

\* Every step keeps the sessions' invariant.
LEMMA SessionStepInv ==
    ASSUME SessionInv, SessionTypeOK', [Next]_vars
    PROVE  SessionInv'
<1> USE DEF SessionInv, RetiredMeansCancelled, ReadyMeansLeased, Begun
<1>1. ASSUME NEW g \in Generation, AllocateSession(g) PROVE SessionInv'
  <2>1. g # current
    BY <1>1, NoSessionIsNone DEF AllocateSession, SessionTypeOK, Generation
  <2>2. /\ phase' = [phase EXCEPT ![g] = "allocated"]
        /\ phase \in [Generation -> {"unborn", "allocated", "leased", "dropped"}]
        /\ phase[g] = "unborn"
        /\ UNCHANGED <<current, cancelled, sending, ring>>
    BY <1>1 DEF AllocateSession, SessionTypeOK, sessionVars, Generation
  <2>3. RetiredMeansCancelled' /\ ReadyMeansLeased'
    BY <2>1, <2>2
  <2>4. (\A h \in Generation : phase[h] = "unborn" <=> h >= next_generation)'
    BY <1>1, <2>2 DEF AllocateSession, SessionTypeOK, Generation
  <2>5. /\ (\A h \in Generation : sending[h] => phase[h] = "leased")'
        /\ (\A h \in Generation : ~Begun(h) => ring[h] = <<>>)'
    BY <2>2
  <2>6. QED
    BY <2>3, <2>4, <2>5
<1>2. ASSUME NEW g \in Generation, InstallSession(g) PROVE SessionInv'
  <2>1. /\ phase[g] = "allocated"
        /\ phase' = [phase EXCEPT ![g] = "leased"]
        /\ cancelled' = [h \in Generation |-> cancelled[h] \/ h = current]
        /\ current' = g
        /\ UNCHANGED <<next_generation, sending, ring>>
    BY <1>2 DEF InstallSession, CancelReplaced
  <2>2. g # current /\ ~cancelled[g]
    BY <2>1, NoSessionIsNone
  <2>3. RetiredMeansCancelled'
    <3> SUFFICES ASSUME NEW h \in Generation
                 PROVE  cancelled'[h] <=> (Begun(h)' /\ g # h)
      BY <2>1
    <3>1. CASE h = g
      BY <2>1, <2>2, <3>1
    <3>2. CASE h # g
      BY <2>1, <3>2, NoSessionIsNone DEF SessionTypeOK
    <3>3. QED
      BY <3>1, <3>2
  <2>4. ReadyMeansLeased'
    BY <2>1 DEF SessionTypeOK
  <2>5. /\ (\A h \in Generation : phase[h] = "unborn" <=> h >= next_generation)'
        /\ (\A h \in Generation : sending[h] => phase[h] = "leased")'
        /\ (\A h \in Generation : ~Begun(h) => ring[h] = <<>>)'
    BY <2>1 DEF SessionTypeOK
  <2>6. QED
    BY <2>3, <2>4, <2>5
<1>3. ASSUME NEW g \in Generation, DropLease(g) PROVE SessionInv'
  <2>1. /\ phase' = [phase EXCEPT ![g] = "dropped"]
        /\ cancelled' = [cancelled EXCEPT ![g] = TRUE]
        /\ phase \in [Generation -> {"unborn", "allocated", "leased", "dropped"}]
        /\ cancelled \in [Generation -> BOOLEAN]
        /\ current' = IF current = g THEN NoSession ELSE current
        /\ phase[g] = "leased" /\ ~sending[g]
        /\ UNCHANGED <<next_generation, sending, ring>>
    BY <1>3 DEF DropLease, CurrentAfterDrop, SessionTypeOK
  <2>2. \A h \in Generation : h # NoSession
    BY NoSessionIsNone
  <2>3. RetiredMeansCancelled'
    BY <2>1, <2>2
  <2>4. ReadyMeansLeased'
    BY <2>1, <2>2 DEF TypeOK
  <2>5. /\ (\A h \in Generation : phase[h] = "unborn" <=> h >= next_generation)'
        /\ (\A h \in Generation : sending[h] => phase[h] = "leased")'
        /\ (\A h \in Generation : ~Begun(h) => ring[h] = <<>>)'
    BY <2>1
  <2>6. QED
    BY <2>3, <2>4, <2>5
<1>4. ASSUME NEW g \in Generation, LeasePublishCheck(g) PROVE SessionInv'
  BY <1>4 DEF LeasePublishCheck, hubVars, SessionTypeOK
<1>5. ASSUME NEW g \in Generation, NEW k \in Kind, LeasePublishSend(g, k)
      PROVE  SessionInv'
  BY <1>5 DEF LeasePublishSend, hubVars, SessionTypeOK
<1>6. ASSUME NEW k \in Kind, HubPublish(k) PROVE SessionInv'
  BY <1>6 DEF HubPublish, hubVars, SessionTypeOK
<1>7. ASSUME NEW s \in Stream, StreamStep(s) PROVE SessionInv'
  BY <1>7, StreamsKeepSessions DEF hubVars, sessionVars
<1>8. CASE UNCHANGED vars
  BY <1>8 DEF vars, hubVars, sessionVars
<1>9. QED
  BY <1>1, <1>2, <1>3, <1>4, <1>5, <1>6, <1>7, <1>8 DEF Next, SessionStep

\* The sessions' invariant holds in every reachable state.
THEOREM SessionsCorrect == Spec => []SessionInv
<1>1. Init => SessionInv
  BY BoundAssumption
  DEF Init, NoSession, SessionTypeOK, SessionInv, RetiredMeansCancelled, ReadyMeansLeased, Begun,
      Generation
<1>2. SessionInv /\ SessionTypeOK' /\ [Next]_vars => SessionInv'
  BY SessionStepInv
<1>3. TypeOK => SessionTypeOK
  BY DEF TypeOK
<1>4. QED
  BY <1>1, <1>2, <1>3, TypeCorrect, PTL DEF Spec

\* A session is cancelled exactly when it is over: EventHub::start_session and
\* ConfirmationSessionLease::drop cancel what they remove and nothing else.
THEOREM RetiredIsCancelled == Spec => []RetiredMeansCancelled
BY SessionsCorrect, PTL DEF SessionInv

\* is_ready answers true only while a lease is held for the current session.
THEOREM ReadyIsLeased == Spec => []ReadyMeansLeased
BY SessionsCorrect, PTL DEF SessionInv

\* Only the drop of its own lease takes a session away with no successor.
THEOREM OwnLeaseRetires == Spec => OnlyOwnLeaseRetires
<1> DEFINE A == \A g \in Generation :
                  current = g /\ current' = NoSession => phase'[g] = "dropped"
<1>1. SessionInv /\ [Next]_vars => [A]_vars
  <2> SUFFICES ASSUME SessionInv, Next PROVE A
    OBVIOUS
  <2>1. ASSUME NEW g \in Generation, SessionStep(g) PROVE A
    <3>1. CASE DropLease(g)
      BY <3>1, NoSessionIsNone
      DEF DropLease, CurrentAfterDrop, SessionInv, SessionTypeOK
    <3>2. CASE InstallSession(g)
      BY <3>2, NoSessionIsNone DEF InstallSession
    <3>3. CASE UNCHANGED current
      BY <3>3, NoSessionIsNone
    <3>4. QED
      BY <2>1, <3>1, <3>2, <3>3
      DEF SessionStep, AllocateSession, LeasePublishCheck, LeasePublishSend,
          hubVars
  <2>2. ASSUME NEW k \in Kind, HubPublish(k) PROVE A
    BY <2>2 DEF HubPublish, hubVars, NoSession, Generation
  <2>3. ASSUME NEW s \in Stream, StreamStep(s) PROVE A
    BY <2>3, StreamsKeepSessions DEF hubVars, NoSession, Generation
  <2>4. QED
    BY <2>1, <2>2, <2>3 DEF Next
<1>2. QED
  BY <1>1, SessionsCorrect, PTL DEF Spec, OnlyOwnLeaseRetires

-----------------------------------------------------------------------------
(* Streams: what each of them is bound to, and how late it can be.         *)

\* A stream that was accepted is bound to a session that has begun and reads
\* forward in it; one that was not has nothing.
BindingInv ==
    \A s \in Stream :
        /\ generation[s] = NoSession <=> pc[s] \in {"request", "refused"}
        /\ generation[s] # NoSession =>
              /\ Begun(generation[s])
              /\ from[s] <= cursor[s]
              /\ cursor[s] <= Len(ring[generation[s]])
        /\ generation[s] = NoSession =>
              from[s] = 0 /\ delivered[s] = <<>> /\ late[s] = 0

\* AtMostOneLate is inductive once it says where a late stream can be: the
\* poll of the token that follows a late delivery closes it.
LateInv ==
    \A s \in Stream :
        /\ late[s] <= 1
        /\ pc[s] = "receiving" => late[s] = 0
        /\ late[s] = 1 => generation[s] # NoSession /\ cancelled[generation[s]]

\* Sessions only move forward: begun stays begun, cancelled stays cancelled,
\* and what was published stays where it was.
LEMMA SessionsMoveForward ==
    ASSUME SessionInv, NEW g \in Generation,
           \/ \E h \in Generation : SessionStep(h)
           \/ \E k \in Kind : HubPublish(k)
    PROVE  /\ Begun(g) => Begun(g)'
           /\ cancelled[g] => cancelled'[g]
           /\ Len(ring[g]) \in Nat
           /\ Len(ring'[g]) \in Nat
           /\ Len(ring[g]) <= Len(ring'[g])
           /\ \A p \in 1 .. Len(ring[g]) : ring'[g][p] = ring[g][p]
<1> USE DEF SessionInv, SessionTypeOK
<1>1. ASSUME NEW h \in Generation, AllocateSession(h)
      PROVE  /\ Begun(g) => Begun(g)'
             /\ UNCHANGED <<cancelled, ring>>
  BY <1>1 DEF AllocateSession, Begun
<1>2. ASSUME NEW h \in Generation, InstallSession(h)
      PROVE  /\ Begun(g) => Begun(g)'
             /\ cancelled[g] => cancelled'[g]
             /\ UNCHANGED ring
  BY <1>2 DEF InstallSession, CancelReplaced, Begun
<1>3. ASSUME NEW h \in Generation, DropLease(h)
      PROVE  /\ Begun(g) => Begun(g)'
             /\ cancelled[g] => cancelled'[g]
             /\ UNCHANGED ring
  BY <1>3 DEF DropLease, Begun
<1>4. ASSUME NEW h \in Generation, NEW k \in Kind,
             ring' = [ring EXCEPT ![h] = Append(@, k)]
      PROVE  /\ Len(ring'[g]) \in Nat
             /\ Len(ring[g]) <= Len(ring'[g])
             /\ \A p \in 1 .. Len(ring[g]) : ring'[g][p] = ring[g][p]
  BY <1>4
<1>5. ASSUME NEW h \in Generation, LeasePublishCheck(h)
      PROVE  UNCHANGED <<phase, cancelled, ring>>
  BY <1>5 DEF LeasePublishCheck
<1>6. ASSUME NEW h \in Generation, NEW k \in Kind, LeasePublishSend(h, k)
      PROVE  /\ ring' = [ring EXCEPT ![h] = Append(@, k)]
             /\ UNCHANGED <<phase, cancelled>>
  BY <1>6 DEF LeasePublishSend
<1>7. ASSUME NEW k \in Kind, HubPublish(k)
      PROVE  /\ current \in Generation
             /\ ring' = [ring EXCEPT ![current] = Append(@, k)]
             /\ UNCHANGED <<phase, cancelled>>
  BY <1>7 DEF HubPublish
<1>8. Len(ring[g]) \in Nat
  OBVIOUS
<1>9. DEFINE P == /\ Begun(g) => Begun(g)'
                  /\ cancelled[g] => cancelled'[g]
             Q == /\ Len(ring'[g]) \in Nat
                  /\ Len(ring[g]) <= Len(ring'[g])
                  /\ \A p \in 1 .. Len(ring[g]) : ring'[g][p] = ring[g][p]
<1>10. UNCHANGED ring => Q
  BY <1>8
<1>11. UNCHANGED <<phase, cancelled>> => P
  BY DEF Begun
<1> HIDE DEF P, Q, SessionInv, SessionTypeOK
<1>12. P /\ Q
  <2>1. ASSUME NEW h \in Generation, SessionStep(h) PROVE P /\ Q
    <3>1. CASE AllocateSession(h)
      BY <1>1, <1>10, <3>1 DEF P
    <3>2. CASE InstallSession(h)
      BY <1>2, <1>10, <3>2 DEF P
    <3>3. CASE DropLease(h)
      BY <1>3, <1>10, <3>3 DEF P
    <3>4. CASE LeasePublishCheck(h)
      BY <1>5, <1>10, <1>11, <3>4
    <3>5. ASSUME NEW k \in Kind, LeasePublishSend(h, k) PROVE P /\ Q
      BY <1>4, <1>6, <1>11, <3>5 DEF Q
    <3>6. QED
      BY <2>1, <3>1, <3>2, <3>3, <3>4, <3>5 DEF SessionStep
  <2>2. ASSUME NEW k \in Kind, HubPublish(k) PROVE P /\ Q
    BY <1>4, <1>7, <1>11, <2>2 DEF Q
  <2>3. QED
    BY <2>1, <2>2
<1>13. QED
  BY <1>8, <1>12 DEF P, Q

\* What every step of stream s leaves alone: the variables of the others.
LEMMA StreamsAreIndependent ==
    ASSUME NEW s \in Stream, NEW r \in Stream, r # s, StreamStep(s),
           StreamTypeOK
    PROVE  /\ pc'[r] = pc[r] /\ generation'[r] = generation[r]
           /\ from'[r] = from[r] /\ cursor'[r] = cursor[r]
           /\ delivered'[r] = delivered[r] /\ late'[r] = late[r]
<1> USE DEF StreamTypeOK, bindingVars, readVars
<1>1. CASE Subscribe(s)
  BY <1>1 DEF Subscribe, Bind
<1>2. CASE SubscribeUnavailable(s)
  BY <1>2 DEF SubscribeUnavailable
<1>3. CASE FirstPoll(s) \/ RecvPending(s)
  BY <1>3 DEF FirstPoll, RecvPending
<1>4. CASE PollCancelled(s) \/ RecvLagged(s) \/ ClientDisconnect(s)
  BY <1>4 DEF PollCancelled, RecvLagged, ClientDisconnect, Close
<1>5. CASE RecvEvent(s)
  <2>1. late' = late \/ late' = [late EXCEPT ![s] = @ + 1]
    BY <1>5 DEF RecvEvent
  <2>2. \/ delivered' = delivered
        \/ delivered' = [delivered EXCEPT ![s] = Append(@, cursor[s] + 1)]
    BY <1>5 DEF RecvEvent
  <2>3. /\ pc' = [pc EXCEPT ![s] = "polling"]
        /\ cursor' = [cursor EXCEPT ![s] = @ + 1]
        /\ UNCHANGED <<generation, from>>
    BY <1>5 DEF RecvEvent
  <2>4. QED
    BY <2>1, <2>2, <2>3
<1>6. QED
  BY <1>1, <1>2, <1>3, <1>4, <1>5 DEF StreamStep, PollStream

\* A stream keeps its own binding and reads forward.
LEMMA BindingStream ==
    ASSUME SessionInv, StreamTypeOK, BindingInv,
           NEW s \in Stream, StreamStep(s)
    PROVE  BindingInv'
<1>1. UNCHANGED <<phase, ring>>
  BY StreamsKeepSessions DEF sessionVars
<1> DEFINE B(r) ==
        /\ generation[r] = NoSession <=> pc[r] \in {"request", "refused"}
        /\ generation[r] # NoSession =>
              /\ Begun(generation[r])
              /\ from[r] <= cursor[r]
              /\ cursor[r] <= Len(ring[generation[r]])
        /\ generation[r] = NoSession =>
              from[r] = 0 /\ delivered[r] = <<>> /\ late[r] = 0
<1>2. \A r \in Stream : B(r)
  BY DEF BindingInv
<1>3. ASSUME NEW r \in Stream, r # s PROVE B(r)'
  BY <1>1, <1>2, <1>3, StreamsAreIndependent DEF Begun
<1>4. B(s)'
  <2> USE DEF StreamTypeOK
  <2>1. CASE Subscribe(s)
    <3>1. current \in Generation /\ Begun(current) /\ Len(ring[current]) \in Nat
      BY <2>1 DEF Subscribe, Bind, SessionInv, SessionTypeOK, ReadyMeansLeased, Begun
    <3>2. /\ pc'[s] = "unpolled"
          /\ generation'[s] = current
          /\ from'[s] = Len(ring[current])
          /\ cursor'[s] = Len(ring[current])
      BY <2>1 DEF Subscribe, Bind
    <3>3. QED
      BY <1>1, <3>1, <3>2, NoSessionIsNone DEF Begun
  <2>2. CASE SubscribeUnavailable(s)
    BY <1>1, <1>2, <2>2
    DEF SubscribeUnavailable, bindingVars, readVars, Begun
  <2>3. CASE FirstPoll(s) \/ RecvPending(s)
    BY <1>1, <1>2, <2>3
    DEF FirstPoll, RecvPending, bindingVars, readVars, Begun
  <2>4. CASE PollCancelled(s) \/ RecvLagged(s) \/ ClientDisconnect(s)
    <3>1. /\ pc[s] \in OpenPc
          /\ pc'[s] \in {"closed", "receiving"}
          /\ UNCHANGED <<generation, from, cursor, delivered, late>>
      BY <2>4
      DEF PollCancelled, RecvLagged, ClientDisconnect, Close, OpenPc,
          bindingVars, readVars
    <3>2. QED
      BY <1>1, <1>2, <3>1 DEF OpenPc, Begun
  <2>5. CASE RecvEvent(s)
    <3>1. /\ pc[s] = "receiving" /\ pc'[s] = "polling"
          /\ cursor'[s] = cursor[s] + 1
          /\ UNCHANGED <<generation, from>>
          /\ Len(ring[generation[s]]) - cursor[s] \in 1 .. Capacity
      BY <2>5 DEF RecvEvent, bindingVars, Unread
    <3>2. generation[s] \in Generation
      BY <1>2, <3>1
    <3>3. /\ Len(ring[generation[s]]) \in Nat
          /\ cursor[s] \in Nat /\ from[s] \in Nat
      BY <3>2 DEF SessionInv, SessionTypeOK
    <3>4. cursor[s] + 1 <= Len(ring[generation[s]])
      BY <3>1, <3>3, CapacityAssumption
    <3>5. QED
      BY <1>1, <1>2, <3>1, <3>2, <3>3, <3>4, NoSessionIsNone DEF Begun
  <2>6. QED
    BY <2>1, <2>2, <2>3, <2>4, <2>5 DEF StreamStep, PollStream
<1>5. QED
  BY <1>3, <1>4 DEF BindingInv

\* A session step disturbs no binding: the ring only grows.
LEMMA BindingSession ==
    ASSUME SessionInv, StreamTypeOK, BindingInv,
           \/ \E g \in Generation : SessionStep(g)
           \/ \E k \in Kind : HubPublish(k)
    PROVE  BindingInv'
<1>1. UNCHANGED <<pc, generation, from, cursor, delivered, late>>
  BY SessionsKeepStreams DEF streamVars, bindingVars, readVars
<1>2. SUFFICES ASSUME NEW s \in Stream, generation[s] # NoSession
               PROVE  /\ Begun(generation[s])'
                      /\ cursor[s] <= Len(ring'[generation[s]])
  BY <1>1 DEF BindingInv
<1>3. PICK g \in Generation : g = generation[s]
  BY <1>2 DEF StreamTypeOK
<1>4. Begun(g) /\ cursor[s] <= Len(ring[g]) /\ cursor[s] \in Nat
  BY <1>2, <1>3 DEF BindingInv, StreamTypeOK
<1>5. /\ Begun(g)'
      /\ Len(ring[g]) \in Nat
      /\ Len(ring'[g]) \in Nat
      /\ Len(ring[g]) <= Len(ring'[g])
  BY <1>4, SessionsMoveForward
<1>6. QED
  BY <1>1, <1>3, <1>4, <1>5 DEF Begun

\* Every accepted stream is bound to one session that has begun.
THEOREM StreamsBound == Spec => []BindingInv
<1>1. Init => BindingInv
  BY DEF Init, BindingInv
<1>2. SessionInv /\ TypeOK /\ BindingInv /\ [Next]_vars => BindingInv'
  <2> SUFFICES ASSUME SessionInv, StreamTypeOK, BindingInv, [Next]_vars
               PROVE  BindingInv'
    BY DEF TypeOK
  <2>1. CASE UNCHANGED vars
    BY <2>1
    DEF BindingInv, Begun, vars, sessionVars, streamVars, bindingVars, readVars
  <2>2. QED
    BY <2>1, BindingSession, BindingStream DEF Next
<1>3. QED
  BY <1>1, <1>2, TypeCorrect, SessionsCorrect, PTL DEF Spec

\* No step makes a stream late twice.
LEMMA LateStep ==
    ASSUME SessionInv, StreamTypeOK, BindingInv, LateInv, [Next]_vars
    PROVE  LateInv'
<1> DEFINE L(r) ==
        /\ late[r] <= 1
        /\ pc[r] = "receiving" => late[r] = 0
        /\ late[r] = 1 => generation[r] # NoSession /\ cancelled[generation[r]]
<1>1. \A r \in Stream : L(r)
  BY DEF LateInv
<1>2. ASSUME \/ \E g \in Generation : SessionStep(g)
             \/ \E k \in Kind : HubPublish(k),
             NEW r \in Stream
      PROVE  L(r)'
  <2>1. UNCHANGED <<pc, generation, late>>
    BY <1>2, SessionsKeepStreams DEF streamVars, bindingVars, readVars
  <2>2. CASE late[r] = 1
    <3>1. PICK g \in Generation : g = generation[r]
      BY <1>1, <2>2 DEF StreamTypeOK
    <3>2. cancelled'[g]
      BY <1>1, <1>2, <2>2, <3>1, SessionsMoveForward
    <3>3. QED
      BY <1>1, <2>1, <2>2, <3>1, <3>2
  <2>3. CASE late[r] # 1
    BY <1>1, <2>1, <2>3
  <2>4. QED
    BY <2>2, <2>3
<1>3. ASSUME NEW s \in Stream, StreamStep(s), NEW r \in Stream, r # s
      PROVE  L(r)'
  <2>1. UNCHANGED cancelled
    BY <1>3, StreamsKeepSessions DEF sessionVars
  <2>2. QED
    BY <1>1, <1>3, <2>1, StreamsAreIndependent
<1>4. ASSUME NEW s \in Stream, StreamStep(s)
      PROVE  L(s)'
  <2>1. UNCHANGED cancelled
    BY <1>4, StreamsKeepSessions DEF sessionVars
  <2>2. CASE Subscribe(s) \/ SubscribeUnavailable(s)
    <3>1. late[s] = 0
      BY <2>2 DEF Subscribe, Bind, SubscribeUnavailable, BindingInv
    <3>2. late'[s] = 0
      BY <2>2, <3>1 DEF Subscribe, Bind, SubscribeUnavailable, readVars
    <3>3. QED
      BY <3>2
  <2>3. CASE FirstPoll(s) \/ RecvPending(s)
    <3>1. pc'[s] = "polling" /\ UNCHANGED <<generation, late>>
      BY <2>3 DEF FirstPoll, RecvPending, bindingVars, readVars, StreamTypeOK
    <3>2. QED
      BY <1>1, <2>1, <3>1
  <2>4. CASE PollCancelled(s)
    <3>1. UNCHANGED <<generation, late>>
      BY <2>4 DEF PollCancelled, bindingVars, readVars
    <3>2. pc'[s] = "receiving" => ~cancelled[generation[s]]
      BY <2>4 DEF PollCancelled, Close, StreamTypeOK
    <3>3. late[s] = 0 \/ late[s] = 1
      BY <1>1 DEF StreamTypeOK
    <3>4. QED
      BY <1>1, <2>1, <3>1, <3>2, <3>3
  <2>5. CASE RecvLagged(s) \/ ClientDisconnect(s)
    <3>1. pc'[s] = "closed" /\ UNCHANGED <<generation, late>>
      BY <2>5
      DEF RecvLagged, ClientDisconnect, Close, bindingVars, readVars,
          StreamTypeOK
    <3>2. QED
      BY <1>1, <2>1, <3>1
  <2>6. CASE RecvEvent(s)
    <3>1. /\ pc[s] = "receiving" /\ pc'[s] = "polling"
          /\ UNCHANGED <<generation>>
          /\ \/ late' = late
             \/ /\ cancelled[generation[s]]
                /\ late' = [late EXCEPT ![s] = @ + 1]
      BY <2>6 DEF RecvEvent, bindingVars, StreamTypeOK
    <3>2. late[s] = 0 /\ generation[s] # NoSession
      BY <1>1, <3>1 DEF BindingInv
    <3>3. late'[s] = 0 \/ (late'[s] = 1 /\ cancelled[generation[s]])
      BY <3>1, <3>2 DEF StreamTypeOK
    <3>4. QED
      BY <2>1, <3>1, <3>2, <3>3
  <2>7. QED
    BY <1>4, <2>2, <2>3, <2>4, <2>5, <2>6 DEF StreamStep, PollStream
<1>5. CASE UNCHANGED vars
  BY <1>1, <1>5
  DEF LateInv, vars, sessionVars, streamVars, bindingVars, readVars
<1>6. ASSUME Next PROVE \A r \in Stream : L(r)'
  BY <1>2, <1>3, <1>4, <1>6 DEF Next
<1>7. QED
  BY <1>5, <1>6 DEF LateInv

\* Cancellation beats the buffer: a stream yields at most one more event once
\* its session is cancelled, however many the ring still holds.
THEOREM LostSessionIsNotDrained == Spec => []AtMostOneLate
<1>1. Init => LateInv
  BY DEF Init, LateInv
<1>2. SessionInv /\ TypeOK /\ BindingInv /\ LateInv /\ [Next]_vars => LateInv'
  BY LateStep DEF TypeOK
<1>3. LateInv => AtMostOneLate
  BY DEF LateInv, AtMostOneLate
<1>4. QED
  BY <1>1, <1>2, <1>3, TypeCorrect, SessionsCorrect, StreamsBound, PTL DEF Spec

-----------------------------------------------------------------------------
(* Streams: nothing of what they asked for is skipped.                     *)

\* Appending the next position keeps what was delivered free of gaps.
LEMMA AppendSelects ==
    ASSUME NEW feed, NEW wanted, NEW lo \in Nat, NEW c \in Nat, lo <= c,
           NEW got \in Seq(Nat), Selects(got, feed, wanted, lo, c),
           NEW next,
           next = IF feed[c + 1] \in wanted THEN Append(got, c + 1) ELSE got
    PROVE  Selects(next, feed, wanted, lo, c + 1)
<1> USE DEF Selects
<1>1. CASE feed[c + 1] \notin wanted
  <2>1. next = got
    BY <1>1
  <2>2. ASSUME NEW p \in (lo + 1) .. (c + 1), feed[p] \in wanted
        PROVE  p \in (lo + 1) .. c
    BY <1>1, <2>2
  <2>3. (lo + 1) .. c \subseteq (lo + 1) .. (c + 1)
    OBVIOUS
  <2>4. QED
    BY <2>1, <2>2, <2>3
<1>2. CASE feed[c + 1] \in wanted
  <2>1. /\ Len(got) \in Nat
        /\ Len(next) = Len(got) + 1
        /\ next[Len(got) + 1] = c + 1
        /\ \A i \in 1 .. Len(got) : next[i] = got[i]
    BY <1>2
  <2>2. ASSUME NEW i \in 1 .. Len(next)
        PROVE  /\ next[i] \in (lo + 1) .. (c + 1)
               /\ feed[next[i]] \in wanted
               /\ \A j \in 1 .. (i - 1) : next[j] < next[i]
    <3>1. CASE i \in 1 .. Len(got)
      <4>1. 1 .. (i - 1) \subseteq 1 .. Len(got)
        BY <2>1, <3>1
      <4>2. QED
        BY <2>1, <3>1, <4>1
    <3>2. CASE i = Len(got) + 1
      <4>1. 1 .. (i - 1) = 1 .. Len(got)
        BY <2>1, <3>2
      <4>2. QED
        BY <1>2, <2>1, <3>2, <4>1
    <3>3. QED
      BY <2>1, <3>1, <3>2
  <2>3. ASSUME NEW p \in (lo + 1) .. (c + 1), feed[p] \in wanted
        PROVE  \E i \in 1 .. Len(next) : next[i] = p
    <3>1. CASE p = c + 1
      <4>1. Len(got) + 1 \in 1 .. Len(next)
        BY <2>1
      <4>2. QED
        BY <2>1, <3>1, <4>1
    <3>2. CASE p \in (lo + 1) .. c
      <4>1. PICK i \in 1 .. Len(got) : got[i] = p
        BY <2>3, <3>2
      <4>2. i \in 1 .. Len(next) /\ next[i] = p
        BY <2>1, <4>1
      <4>3. QED
        BY <4>2
    <3>3. QED
      BY <3>1, <3>2
  <2>4. QED
    BY <2>2, <2>3
<1>3. QED
  BY <1>1, <1>2

\* Taking one event from the ring keeps the stream's deliveries gap free.
LEMMA RecvEventKeepsGapFree ==
    ASSUME SessionInv, StreamTypeOK, BindingInv,
           NEW s \in Stream, GapFree(s), RecvEvent(s)
    PROVE  GapFree(s)'
<1>1. PICK g \in Generation : g = generation[s]
  BY DEF RecvEvent, BindingInv, StreamTypeOK
<1>2. /\ from[s] \in Nat /\ cursor[s] \in Nat /\ from[s] <= cursor[s]
      /\ delivered[s] \in Seq(Nat)
  BY <1>1, NoSessionIsNone DEF BindingInv, StreamTypeOK
<1>3. /\ cursor'[s] = cursor[s] + 1
      /\ UNCHANGED <<generation, from, ring>>
  BY DEF RecvEvent, bindingVars, sessionVars, StreamTypeOK
<1>4. delivered'[s] = IF ring[g][cursor[s] + 1] \in Interest[s]
                        THEN Append(delivered[s], cursor[s] + 1)
                        ELSE delivered[s]
  BY <1>1 DEF RecvEvent, StreamTypeOK
<1>5. Selects(delivered'[s], ring[g], Interest[s], from[s], cursor[s] + 1)
  BY <1>1, <1>2, <1>4, AppendSelects DEF GapFree
<1>6. QED
  BY <1>1, <1>3, <1>5 DEF GapFree

\* No step opens a gap.
LEMMA NoGapStep ==
    ASSUME SessionInv, StreamTypeOK, BindingInv, NoGap, [Next]_vars
    PROVE  NoGap'
<1>1. ASSUME \/ \E g \in Generation : SessionStep(g)
             \/ \E k \in Kind : HubPublish(k),
             NEW r \in Stream, (generation[r] # NoSession)'
      PROVE  GapFree(r)'
  <2>1. UNCHANGED <<generation, from, cursor, delivered>>
    BY <1>1, SessionsKeepStreams DEF streamVars, bindingVars, readVars
  <2>2. PICK g \in Generation : g = generation[r]
    BY <1>1, <2>1 DEF StreamTypeOK
  <2>3. /\ from[r] \in Nat /\ cursor[r] \in Nat
        /\ cursor[r] <= Len(ring[g])
        /\ delivered[r] \in Seq(Nat)
    BY <2>2, NoSessionIsNone DEF StreamTypeOK, BindingInv
  <2>4. /\ Len(ring[g]) \in Nat
        /\ \A p \in 1 .. Len(ring[g]) : ring'[g][p] = ring[g][p]
    BY <1>1, SessionsMoveForward
  <2>5. \A p \in (from[r] + 1) .. cursor[r] : ring'[g][p] = ring[g][p]
    BY <2>3, <2>4
  <2>6. GapFree(r)
    BY <1>1, <2>1 DEF NoGap
  <2>7. QED
    BY <2>1, <2>2, <2>5, <2>6 DEF GapFree, Selects
<1>2. ASSUME NEW s \in Stream, StreamStep(s), NEW r \in Stream, r # s,
             (generation[r] # NoSession)'
      PROVE  GapFree(r)'
  <2>1. UNCHANGED ring
    BY <1>2, StreamsKeepSessions DEF sessionVars
  <2>2. /\ generation'[r] = generation[r] /\ from'[r] = from[r]
        /\ cursor'[r] = cursor[r] /\ delivered'[r] = delivered[r]
    BY <1>2, StreamsAreIndependent
  <2>3. QED
    BY <1>2, <2>1, <2>2 DEF NoGap, GapFree
<1>3. ASSUME NEW s \in Stream, StreamStep(s), (generation[s] # NoSession)'
      PROVE  GapFree(s)'
  <2>1. CASE Subscribe(s)
    <3>1. delivered'[s] = <<>> /\ from'[s] = cursor'[s] /\ cursor'[s] \in Nat
      BY <2>1
      DEF Subscribe, Bind, BindingInv, StreamTypeOK, SessionInv, SessionTypeOK
    <3>2. QED
      BY <3>1 DEF GapFree, Selects
  <2>2. CASE RecvEvent(s)
    <3>1. GapFree(s)
      BY <1>3, <2>2 DEF NoGap, RecvEvent, bindingVars
    <3>2. QED
      BY <2>2, <3>1, RecvEventKeepsGapFree
  <2>3. CASE UNCHANGED <<sessionVars, bindingVars, readVars>>
    BY <1>3, <2>3 DEF NoGap, GapFree, sessionVars, bindingVars, readVars
  <2>4. QED
    BY <1>3, <2>1, <2>2, <2>3
    DEF StreamStep, PollStream, SubscribeUnavailable, FirstPoll, PollCancelled,
        RecvPending, RecvLagged, ClientDisconnect
<1>4. CASE UNCHANGED vars
  BY <1>4
  DEF NoGap, GapFree, vars, sessionVars, streamVars, bindingVars, readVars
<1>5. CASE Next
  BY <1>1, <1>2, <1>3, <1>5 DEF Next, NoGap
<1>6. QED
  BY <1>4, <1>5

\* A stream is given every event of its own session that it asked for, from
\* its registration to its cursor, in order and once: a subscriber that falls
\* behind is closed by sse_handler and never skips in silence.
THEOREM NothingSkipped == Spec => []NoGap
<1>1. Init => NoGap
  BY DEF Init, NoGap
<1>2. SessionInv /\ TypeOK /\ BindingInv /\ NoGap /\ [Next]_vars => NoGap'
  BY NoGapStep DEF TypeOK
<1>3. QED
  BY <1>1, <1>2, TypeCorrect, SessionsCorrect, StreamsBound, PTL DEF Spec

-----------------------------------------------------------------------------
(* The gauge of open streams.                                              *)

GaugeInv == IsFiniteSet(OpenStreams) /\ ActiveStreamsExact

\* Opening a stream adds one, closing it takes one away, nothing else counts.
LEMMA GaugeStep ==
    ASSUME StreamTypeOK, GaugeInv, [Next]_vars
    PROVE  GaugeInv'
<1> USE DEF GaugeInv, ActiveStreamsExact
<1>1. CASE UNCHANGED <<pc, active_streams>>
  BY <1>1 DEF OpenStreams
<1>2. ASSUME NEW s \in Stream, Subscribe(s) PROVE GaugeInv'
  <2>1. OpenStreams' = OpenStreams \cup {s} /\ s \notin OpenStreams
    BY <1>2 DEF Subscribe, Bind, OpenStreams, OpenPc, StreamTypeOK
  <2>2. active_streams' = active_streams + 1
    BY <1>2 DEF Subscribe, Bind
  <2>3. QED
    BY <2>1, <2>2, FS_AddElement
<1>3. ASSUME NEW s \in Stream, s \in OpenStreams, pc' = [pc EXCEPT ![s] = "closed"],
             active_streams' = active_streams - 1
      PROVE  GaugeInv'
  <2>1. OpenStreams' = OpenStreams \ {s}
    BY <1>3 DEF OpenStreams, OpenPc, StreamTypeOK
  <2>2. QED
    BY <1>3, <2>1, FS_RemoveElement
<1>4. ASSUME NEW s \in Stream, s \in OpenStreams, NEW q \in OpenPc,
             pc' = [pc EXCEPT ![s] = q], UNCHANGED active_streams
      PROVE  GaugeInv'
  <2>1. OpenStreams' = OpenStreams
    BY <1>4 DEF OpenStreams, StreamTypeOK
  <2>2. QED
    BY <1>4, <2>1
<1>5. ASSUME NEW s \in Stream, StreamStep(s) PROVE GaugeInv'
  <2>1. CASE Subscribe(s)
    BY <1>2, <2>1
  <2>2. CASE SubscribeUnavailable(s)
    <3>1. OpenStreams' = OpenStreams /\ UNCHANGED active_streams
      BY <2>2
      DEF SubscribeUnavailable, OpenStreams, OpenPc, StreamTypeOK
    <3>2. QED
      BY <3>1
  <2>3. CASE FirstPoll(s) \/ RecvPending(s) \/ RecvEvent(s)
    <3>1. /\ s \in OpenStreams
          /\ pc' = [pc EXCEPT ![s] = "polling"]
          /\ UNCHANGED active_streams
      BY <2>3
      DEF FirstPoll, RecvPending, RecvEvent, OpenStreams, OpenPc
    <3>2. QED
      BY <1>4, <3>1 DEF OpenPc
  <2>4. CASE PollCancelled(s) \/ RecvLagged(s) \/ ClientDisconnect(s)
    <3>1. /\ s \in OpenStreams
          /\ \/ pc' = [pc EXCEPT ![s] = "closed"] /\ active_streams' = active_streams - 1
             \/ pc' = [pc EXCEPT ![s] = "receiving"] /\ UNCHANGED active_streams
      BY <2>4
      DEF PollCancelled, RecvLagged, ClientDisconnect, Close, OpenStreams, OpenPc
    <3>2. QED
      BY <1>3, <1>4, <3>1 DEF OpenPc
  <2>5. QED
    BY <1>5, <2>1, <2>2, <2>3, <2>4 DEF StreamStep, PollStream
<1>6. QED
  BY <1>1, <1>5, SessionsKeepStreams
  DEF Next, vars, streamVars

\* The active_streams gauge is the number of open streams: every way a body
\* ends goes through ActiveStreamGuard exactly once.
THEOREM GaugeIsExact == Spec => []ActiveStreamsExact
<1>1. Init => GaugeInv
  <2> SUFFICES ASSUME Init PROVE GaugeInv
    OBVIOUS
  <2>1. OpenStreams = {}
    BY DEF Init, OpenStreams, OpenPc
  <2>2. QED
    BY <2>1, FS_EmptySet DEF Init, GaugeInv, ActiveStreamsExact
<1>2. TypeOK /\ GaugeInv /\ [Next]_vars => GaugeInv'
  BY GaugeStep DEF TypeOK
<1>3. GaugeInv => ActiveStreamsExact
  BY DEF GaugeInv
<1>4. QED
  BY <1>1, <1>2, <1>3, TypeCorrect, PTL DEF Spec

-----------------------------------------------------------------------------
(* The hub keeps the promise of ConfirmationFeed.                          *)

\* A step of a stream that leaves its status alone leaves all of them alone.
LEMMA StatusUnchanged ==
    ASSUME StreamTypeOK, NEW s \in Stream, s \in OpenStreams, NEW q \in OpenPc,
           pc' = [pc EXCEPT ![s] = q]
    PROVE  UNCHANGED FeedStatus
<1>1. ASSUME NEW r \in Stream PROVE StatusOf(r)' = StatusOf(r)
  BY DEF StatusOf, OpenPc, OpenStreams, StreamTypeOK
<1>2. QED
  BY <1>1 DEF FeedStatus

\* A step of a stream that moves its status moves that one only.
LEMMA StatusChanged ==
    ASSUME StreamTypeOK, NEW s \in Stream,
           NEW q \in OpenPc \cup {"refused", "closed"},
           pc' = [pc EXCEPT ![s] = q]
    PROVE  FeedStatus' = [FeedStatus EXCEPT ![s] =
                             IF q \in OpenPc THEN "open" ELSE q]
<1>1. ASSUME NEW r \in Stream, r # s PROVE StatusOf(r)' = StatusOf(r)
  BY <1>1 DEF StatusOf, StreamTypeOK
<1>2. StatusOf(s)' = IF q \in OpenPc THEN "open" ELSE q
  BY DEF StatusOf, OpenPc, StreamTypeOK
<1>3. QED
  BY <1>1, <1>2 DEF FeedStatus

\* The position served last is the last one delivered, and nothing wanted lies
\* between it and the cursor.
LEMMA NothingWantedBehindCursor ==
    ASSUME StreamTypeOK, NEW s \in Stream, GapFree(s), from[s] <= cursor[s],
           NEW q \in (Feed!Served(s) + 1) .. cursor[s]
    PROVE  ring[generation[s]][q] \notin Interest[s]
<1> DEFINE got == delivered[s]
<1>1. /\ from[s] \in Nat /\ cursor[s] \in Nat
      /\ got \in Seq(Nat) /\ Len(got) \in Nat
  BY DEF StreamTypeOK
<1>2. Selects(got, ring[generation[s]], Interest[s], from[s], cursor[s])
  BY DEF GapFree
<1>3. CASE got = <<>>
  <2>1. Feed!Served(s) = from[s] /\ Len(got) = 0
    BY <1>3 DEF Feed!Served
  <2>2. QED
    BY <1>1, <1>2, <2>1 DEF Selects
<1>4. CASE got # <<>>
  <2>1. Feed!Served(s) = got[Len(got)] /\ Len(got) \in 1 .. Len(got)
    BY <1>1, <1>4 DEF Feed!Served
  <2>2. got[Len(got)] \in (from[s] + 1) .. cursor[s]
    BY <1>2, <2>1 DEF Selects
  <2>3. \A i \in 1 .. Len(got) : got[i] <= got[Len(got)]
    <3> SUFFICES ASSUME NEW i \in 1 .. Len(got) PROVE got[i] <= got[Len(got)]
      OBVIOUS
    <3>1. got[i] \in (from[s] + 1) .. cursor[s]
      BY <1>2 DEF Selects
    <3>2. CASE i = Len(got)
      BY <1>1, <3>1, <3>2
    <3>3. CASE i # Len(got)
      <4>1. i \in 1 .. (Len(got) - 1)
        BY <1>1, <3>3
      <4>2. got[i] < got[Len(got)]
        BY <1>2, <2>1, <4>1 DEF Selects
      <4>3. QED
        BY <1>1, <2>2, <3>1, <4>2
    <3>4. QED
      BY <3>2, <3>3
  <2>4. q \in (from[s] + 1) .. cursor[s] /\ q > got[Len(got)]
    BY <1>1, <2>1, <2>2
  <2>5. \A i \in 1 .. Len(got) : got[i] # q
    BY <1>1, <1>2, <2>2, <2>3, <2>4 DEF Selects
  <2>6. QED
    BY <1>2, <2>4, <2>5 DEF Selects
<1>5. QED
  BY <1>3, <1>4

\* Taking an event from the ring is a delivery of the next wanted position, or
\* nothing a subscriber sees.
LEMMA RecvEventImplements ==
    ASSUME SessionInv, StreamTypeOK, BindingInv, LateInv, NoGap,
           NEW s \in Stream, RecvEvent(s)
    PROVE  [Feed!Next]_(Feed!vars)
<1>1. PICK g \in Generation : g = generation[s]
  BY DEF RecvEvent, BindingInv, StreamTypeOK
<1>2. /\ pc[s] = "receiving" /\ pc' = [pc EXCEPT ![s] = "polling"]
      /\ UNCHANGED <<current, ring, generation, from>>
  BY DEF RecvEvent, hubVars, sessionVars, bindingVars
<1>3. UNCHANGED FeedStatus
  BY <1>2, StatusUnchanged DEF OpenStreams, OpenPc
<1>4. CASE ring[g][cursor[s] + 1] \notin Interest[s]
  <2>1. UNCHANGED <<delivered, late>>
    BY <1>1, <1>4 DEF RecvEvent
  <2>2. QED
    BY <1>2, <1>3, <2>1 DEF Feed!vars
<1>5. CASE ring[g][cursor[s] + 1] \in Interest[s]
  <2> DEFINE p == cursor[s] + 1
  <2>1. /\ from[s] \in Nat /\ cursor[s] \in Nat /\ from[s] <= cursor[s]
        /\ Len(ring[g]) \in Nat /\ GapFree(s) /\ delivered[s] \in Seq(Nat)
    BY <1>1, NoSessionIsNone
    DEF StreamTypeOK, BindingInv, NoGap, SessionInv, SessionTypeOK
  <2>2. p \in 1 .. Len(ring[g])
    BY <1>1, <2>1, CapacityAssumption DEF RecvEvent, Unread
  <2>3. Feed!Served(s) \in Nat /\ Feed!Served(s) <= cursor[s]
    <3>1. CASE delivered[s] = <<>>
      BY <2>1, <3>1 DEF Feed!Served
    <3>2. CASE delivered[s] # <<>>
      <4>1. /\ Len(delivered[s]) \in 1 .. Len(delivered[s])
            /\ Feed!Served(s) = delivered[s][Len(delivered[s])]
        BY <2>1, <3>2 DEF Feed!Served
      <4>2. delivered[s][Len(delivered[s])] \in (from[s] + 1) .. cursor[s]
        BY <2>1, <4>1 DEF GapFree, Selects
      <4>3. QED
        BY <2>1, <4>1, <4>2
    <3>3. QED
      BY <3>1, <3>2
  <2>4. p \in (Feed!Served(s) + 1) .. Len(ring[g])
    BY <2>1, <2>2, <2>3
  <2>5. \A q \in (Feed!Served(s) + 1) .. (p - 1) : ring[g][q] \notin Interest[s]
    BY <1>1, <2>1, <2>3, NothingWantedBehindCursor
  <2>6. delivered' = [delivered EXCEPT ![s] = Append(@, p)]
    BY <1>1, <1>5 DEF RecvEvent
  <2>7. IF current = g
          THEN UNCHANGED late
          ELSE late[s] = 0 /\ late' = [late EXCEPT ![s] = 1]
    <3>1. late[s] = 0
      BY <1>2 DEF LateInv
    <3>2. cancelled[g] <=> current # g
      BY <1>1, NoSessionIsNone
      DEF SessionInv, RetiredMeansCancelled, BindingInv
    <3>3. late' = IF cancelled[g] THEN [late EXCEPT ![s] = @ + 1] ELSE late
      BY <1>1, <1>5 DEF RecvEvent
    <3>4. CASE current = g
      BY <3>2, <3>3, <3>4
    <3>5. CASE current # g
      <4>1. late' = [late EXCEPT ![s] = @ + 1]
        BY <3>2, <3>3, <3>5
      <4>2. QED
        BY <3>1, <3>5, <4>1
    <3>6. QED
      BY <3>4, <3>5
  <2>8. FeedStatus[s] = "open"
    BY <1>2 DEF FeedStatus, StatusOf, OpenPc
  <2>9. Feed!Deliver(s, p)
    BY <1>1, <1>2, <1>3, <1>5, <2>4, <2>5, <2>6, <2>7 DEF Feed!Deliver
  <2>10. QED
    BY <1>1, <2>2, <2>8, <2>9 DEF Feed!Next
<1>6. QED
  BY <1>4, <1>5

\* The steps of sessions and publishers are sessions beginning, ending and
\* carrying events, or nothing a subscriber sees.
LEMMA SessionsImplement ==
    ASSUME SessionInv, StreamTypeOK, BindingInv,
           \/ \E g \in Generation : SessionStep(g)
           \/ \E k \in Kind : HubPublish(k)
    PROVE  [Feed!Next]_(Feed!vars)
<1>1. UNCHANGED <<FeedStatus, generation, from, delivered, late>>
  BY SessionsKeepStreams
  DEF FeedStatus, StatusOf, streamVars, bindingVars, readVars
<1>2. ASSUME NEW g \in Generation, InstallSession(g) PROVE Feed!Begin(g)
  <2>1. phase[g] = "allocated" /\ current' = g /\ UNCHANGED ring
    BY <1>2 DEF InstallSession
  <2>2. ~Begun(g) /\ g # current /\ ring[g] = <<>>
    BY <2>1, NoSessionIsNone DEF Begun, SessionInv, ReadyMeansLeased
  <2>3. \A s \in Stream : generation[s] # g
    BY <2>2, NoSessionIsNone DEF BindingInv
  <2>4. QED
    BY <1>1, <2>1, <2>2, <2>3 DEF Feed!Begin
<1>3. ASSUME NEW g \in Generation, DropLease(g)
      PROVE  Feed!End \/ UNCHANGED Feed!vars
  <2>1. current' = CurrentAfterDrop(g) /\ UNCHANGED ring
    BY <1>3 DEF DropLease
  <2>2. CASE current = g
    BY <1>1, <2>1, <2>2, NoSessionIsNone DEF CurrentAfterDrop, Feed!End
  <2>3. CASE current # g
    BY <1>1, <2>1, <2>3 DEF CurrentAfterDrop, Feed!vars
  <2>4. QED
    BY <2>2, <2>3
<1>4. ASSUME NEW g \in Generation, NEW k \in Kind, LeasePublishSend(g, k)
      PROVE  Feed!Emit(g, k)
  BY <1>1, <1>4 DEF LeasePublishSend, hubVars, Feed!Emit
<1>5. ASSUME NEW k \in Kind, HubPublish(k)
      PROVE  current \in Generation /\ Feed!Emit(current, k)
  BY <1>1, <1>5 DEF HubPublish, hubVars, Feed!Emit, SessionInv, SessionTypeOK
<1>6. ASSUME NEW g \in Generation, AllocateSession(g) \/ LeasePublishCheck(g)
      PROVE  UNCHANGED Feed!vars
  BY <1>1, <1>6 DEF AllocateSession, LeasePublishCheck, hubVars, Feed!vars
<1>7. QED
  BY <1>2, <1>3, <1>4, <1>5, <1>6 DEF SessionStep, Feed!Next

\* The steps of a stream are openings, refusals, deliveries and closings, or
\* nothing its client sees.
LEMMA StreamsImplement ==
    ASSUME SessionInv, StreamTypeOK, BindingInv, LateInv, NoGap,
           NEW s \in Stream, StreamStep(s)
    PROVE  [Feed!Next]_(Feed!vars)
<1>1. UNCHANGED <<current, ring>>
  BY StreamsKeepSessions DEF hubVars, sessionVars
<1>2. CASE Subscribe(s)
  <2>1. /\ current # NoSession
        /\ pc' = [pc EXCEPT ![s] = "unpolled"]
        /\ generation' = [generation EXCEPT ![s] = current]
        /\ from' = [from EXCEPT ![s] = Len(ring[current])]
        /\ UNCHANGED <<delivered, late>>
        /\ FeedStatus[s] = "new"
    BY <1>2 DEF Subscribe, Bind, FeedStatus, StatusOf, OpenPc
  <2>2. FeedStatus' = [FeedStatus EXCEPT ![s] = "open"]
    BY <2>1, StatusChanged DEF OpenPc
  <2>3. Feed!Open(s)
    BY <1>1, <2>1, <2>2 DEF Feed!Open
  <2>4. QED
    BY <2>3 DEF Feed!Next
<1>3. CASE SubscribeUnavailable(s)
  <2>1. /\ current = NoSession
        /\ pc' = [pc EXCEPT ![s] = "refused"]
        /\ UNCHANGED <<generation, from, delivered, late>>
        /\ FeedStatus[s] = "new"
    BY <1>3
    DEF SubscribeUnavailable, FeedStatus, StatusOf, OpenPc, bindingVars,
        readVars
  <2>2. FeedStatus' = [FeedStatus EXCEPT ![s] = "refused"]
    BY <2>1, StatusChanged DEF OpenPc
  <2>3. Feed!Refuse(s)
    BY <1>1, <2>1, <2>2 DEF Feed!Refuse
  <2>4. QED
    BY <2>3 DEF Feed!Next
<1>4. CASE FirstPoll(s) \/ RecvPending(s)
  <2>1. /\ s \in OpenStreams
        /\ pc' = [pc EXCEPT ![s] = "polling"]
        /\ UNCHANGED <<generation, from, delivered, late>>
    BY <1>4
    DEF FirstPoll, RecvPending, OpenStreams, OpenPc, bindingVars, readVars
  <2>2. UNCHANGED FeedStatus
    BY <2>1, StatusUnchanged DEF OpenPc
  <2>3. QED
    BY <1>1, <2>1, <2>2 DEF Feed!vars
<1>5. CASE PollCancelled(s) \/ RecvLagged(s) \/ ClientDisconnect(s)
  <2>1. /\ pc[s] \in OpenPc
        /\ \/ pc' = [pc EXCEPT ![s] = "closed"]
           \/ pc' = [pc EXCEPT ![s] = "receiving"]
        /\ UNCHANGED <<generation, from, delivered, late>>
    BY <1>5
    DEF PollCancelled, RecvLagged, ClientDisconnect, Close, OpenPc, bindingVars,
        readVars
  <2>2. FeedStatus[s] = "open" /\ s \in OpenStreams
    BY <2>1 DEF FeedStatus, StatusOf, OpenStreams, OpenPc
  <2>3. CASE pc' = [pc EXCEPT ![s] = "closed"]
    <3>1. FeedStatus' = [FeedStatus EXCEPT ![s] = "closed"]
      BY <2>3, StatusChanged DEF OpenPc
    <3>2. Feed!Close(s)
      BY <1>1, <2>1, <2>2, <3>1 DEF Feed!Close
    <3>3. QED
      BY <3>2 DEF Feed!Next
  <2>4. CASE pc' = [pc EXCEPT ![s] = "receiving"]
    <3>1. UNCHANGED FeedStatus
      BY <2>2, <2>4, StatusUnchanged DEF OpenPc
    <3>2. QED
      BY <1>1, <2>1, <3>1 DEF Feed!vars
  <2>5. QED
    BY <2>1, <2>3, <2>4
<1>6. CASE RecvEvent(s)
  BY <1>6, RecvEventImplements
<1>7. QED
  BY <1>2, <1>3, <1>4, <1>5, <1>6 DEF StreamStep, PollStream

\* EventHub and sse_handler implement ConfirmationFeed: whatever the threads'
\* interleaving, a subscriber sees a gap-free run of one session's events.
THEOREM HubImplementsFeed == Spec => ImplementsFeed
<1>1. Init => Feed!Init
  BY DEF Init, Feed!Init, FeedStatus, StatusOf, OpenPc
<1> DEFINE Inv == SessionInv /\ TypeOK /\ BindingInv /\ LateInv /\ NoGap
<1>2. Inv /\ [Next]_vars => [Feed!Next]_(Feed!vars)
  <2> SUFFICES ASSUME Inv, [Next]_vars PROVE [Feed!Next]_(Feed!vars)
    OBVIOUS
  <2>1. CASE UNCHANGED vars
    BY <2>1
    DEF vars, hubVars, sessionVars, streamVars, bindingVars, readVars,
        Feed!vars, FeedStatus, StatusOf
  <2>2. QED
    BY <2>1, SessionsImplement, StreamsImplement DEF Next, TypeOK
<1>3. Spec => []LateInv
  <2>1. Init => LateInv
    BY DEF Init, LateInv
  <2>2. SessionInv /\ TypeOK /\ BindingInv /\ LateInv /\ [Next]_vars => LateInv'
    BY LateStep DEF TypeOK
  <2>3. QED
    BY <2>1, <2>2, TypeCorrect, SessionsCorrect, StreamsBound, PTL DEF Spec
<1>4. QED
  BY <1>1, <1>2, <1>3, TypeCorrect, SessionsCorrect, StreamsBound,
     NothingSkipped, PTL
  DEF Spec, ImplementsFeed, Feed!Spec
=============================================================================
