--------------------------- MODULE WsBridgeProofs ---------------------------
(***************************************************************************)
(* Proofs about WsBridge: for any number of endpoints and any durations,   *)
(* readiness follows the stream, a mute upstream and an unanswered ping    *)
(* are noticed in time, and an endpoint that failed rests.                 *)
(*                                                                         *)
(* Each timing property compares a counter of what has passed (silence,    *)
(* unanswered, rest) with a countdown of the code (deadline, beat, cool).  *)
(* The invariants say that what has passed and what is left add up.        *)
(*                                                                         *)
(* The relay that stands in for an outage of the nodes is proved about     *)
(* here too, independently of the bridge: for any number of connections    *)
(* and orders a resume serves and an outage is dark.                       *)
(***************************************************************************)
EXTENDS WsBridge, FaultRelay, TLAPS

\* The types that the arithmetic of the timers needs.
TimerTypes ==
    /\ index \in Endpoint
    /\ cool \in [Endpoint -> Nat]
    /\ rest \in [Endpoint -> Nat]
    /\ beat \in Nat
    /\ deadline \in Nat
    /\ silence \in Nat
    /\ unanswered \in Nat

\* A countdown and its counter add up to the whole.
TimersAddUp ==
    live => /\ silence + deadline = Deadline
            /\ unanswered = 0 \/ awaiting_pong
            /\ awaiting_pong => unanswered + beat = Heartbeat
            /\ beat <= Heartbeat

\* The lease is held exactly while the bridge streams, and its timers fit.
SessionInv == ReadyMeansStreaming /\ TimersAddUp

\* An endpoint that failed has rested for what is not left of its cooldown, but
\* for the one that is about to be marked.
RestInv ==
    \/ pc = "stopped"
    \/ \A e \in Endpoint :
          \/ pc = "marking" /\ e = index
          \/ rest[e] + cool[e] >= Cooldown

-----------------------------------------------------------------------------
(* Steps and types.                                                        *)

\* TimeAssumption, one duration at a time.
LEMMA Durations ==
    /\ Cooldown \in Nat /\ Heartbeat \in Nat /\ Deadline \in Nat
    /\ ConnectTimeout \in Nat /\ AckTimeout \in Nat /\ RetryDelay \in Nat
  BY TimeAssumption

\* A bridge is under way, at one of its awaits.
Running == pc \in {"connecting", "awaiting_ack", "streaming"}

\* Whichever way a bridge ends, it is the same step of a bridge that runs.
LEMMA EndIsSame ==
    ASSUME ConnectFails \/ AckFails \/ HeartbeatTimeout
             \/ ConfirmationTimeout \/ SocketEnds
    PROVE  BridgeEnds /\ Running
  BY DEF Running, ConnectFails, AckFails, HeartbeatTimeout,
         ConfirmationTimeout, SocketEnds

\* A step is a step of one of these; the ways to fail are one.
LEMMA Steps ==
    ASSUME [Next]_vars
    PROVE  \/ SelectEndpoint \/ SelectNone \/ Connected
           \/ (BridgeEnds /\ Running)
           \/ Acknowledged \/ Confirmation \/ Pong \/ SendPing
           \/ MarkUnhealthy \/ Wake \/ Tick \/ RequestShutdown \/ Recover
           \/ Stop \/ UNCHANGED vars
  BY EndIsSame DEF Next, SelectStep, ConnectStep, AckStep, TimerStep

\* Turning to the next endpoint, and the last one's next is the first.
LEMMA NextEndpoint ==
    ASSUME NEW e \in Endpoint
    PROVE  (e + 1) % N \in Endpoint
  BY EndpointAssumption DEF Endpoint

\* What the countdowns are set to is in their ranges.
LEMMA Settings ==
    /\ 0 \in 0 .. Cooldown /\ Cooldown \in 0 .. Cooldown
    /\ 0 \in 0 .. Heartbeat /\ Heartbeat \in 0 .. Heartbeat
    /\ 0 \in 0 .. Deadline /\ Deadline \in 0 .. Deadline
    /\ 0 \in 0 .. MaxReconnects
  BY Durations, CountAssumption

\* Every step keeps the types of the bridge's and the supervisor's variables.
LEMMA TypeStep ==
    ASSUME TypeOK, [Next]_vars
    PROVE  TypeOK'
<1> USE Durations, CountAssumption, Settings DEF TypeOK
<1>1. CASE SelectEndpoint \/ SelectNone \/ Wake
  BY <1>1 DEF SelectEndpoint, SelectNone, Wake, routeVars, socketVars,
              countVars, envVars, historyVars
<1>2. CASE Connected \/ RequestShutdown \/ Recover \/ Stop
  BY <1>2 DEF Connected, RequestShutdown, Recover, Stop, routeVars,
              socketVars, countVars, envVars, historyVars
<1>3. CASE BridgeEnds
  <2>1. rest' \in [Endpoint -> 0 .. Cooldown]
    BY <1>3 DEF BridgeEnds
  <2> QED
    BY <1>3, <2>1 DEF BridgeEnds, routeVars, socketVars, countVars, envVars
<1>4. CASE Acknowledged
  <2>1. upstream_reconnects' \in 0 .. MaxReconnects
    BY <1>4 DEF Acknowledged, AtMost
  <2>2. /\ beat' = Heartbeat /\ deadline' = Deadline /\ awaiting_pong' = FALSE
        /\ pc' = "streaming" /\ live' = TRUE /\ upstream_seen' = TRUE
        /\ silence' = 0 /\ unanswered' = 0
        /\ UNCHANGED <<routeVars, timer, envVars, rest>>
    BY <1>4 DEF Acknowledged, SessionTimers
  <2> QED
    BY <2>1, <2>2 DEF routeVars, envVars
<1>5. CASE Confirmation \/ Pong
  <2>1. \/ deadline' = Deadline /\ silence' = 0
           /\ UNCHANGED <<awaiting_pong, unanswered>>
        \/ awaiting_pong' = FALSE /\ unanswered' = 0
           /\ UNCHANGED <<deadline, silence>>
    BY <1>5 DEF Confirmation, Pong
  <2>2. UNCHANGED <<pc, routeVars, timer, beat, live, countVars, envVars, rest>>
    BY <1>5 DEF Confirmation, Pong
  <2>3. deadline' \in 0 .. Deadline
    BY <2>1
  <2>4. silence' \in Nat /\ unanswered' \in Nat
    BY <2>1
  <2>5. awaiting_pong' \in BOOLEAN
    BY <2>1
  <2> QED
    BY <2>2, <2>3, <2>4, <2>5 DEF routeVars, countVars, envVars
<1>6. CASE SendPing
  <2>1. /\ awaiting_pong' = TRUE /\ beat' = Heartbeat
        /\ UNCHANGED <<pc, routeVars, timer, deadline, live, countVars,
                       envVars, historyVars>>
    BY <1>6 DEF SendPing
  <2> QED
    BY <2>1 DEF routeVars, countVars, envVars, historyVars
<1>7. CASE MarkUnhealthy
  BY <1>7, NextEndpoint DEF MarkUnhealthy, socketVars, countVars, envVars,
                            historyVars
<1>8. CASE Tick
  <2>1. UNCHANGED <<pc, index, ws_active, awaiting_pong, live, countVars,
                    envVars>>
    BY <1>8 DEF Tick
  <2>2. cool' \in [Endpoint -> 0 .. Cooldown]
    BY <1>8 DEF Tick
  <2>3. rest' \in [Endpoint -> 0 .. Cooldown]
    BY <1>8 DEF Tick, AtMost
  <2>4. timer' \in Nat /\ silence' \in Nat /\ unanswered' \in Nat
    BY <1>8 DEF Tick
  <2>5. beat' \in 0 .. Heartbeat /\ deadline' \in 0 .. Deadline
    BY <1>8 DEF Tick, Idle
  <2> QED
    BY <2>1, <2>2, <2>3, <2>4, <2>5 DEF countVars, envVars
<1>9. CASE UNCHANGED vars
  BY <1>9 DEF vars, routeVars, socketVars, countVars, envVars, historyVars
<1> QED
  BY Steps, <1>1, <1>2, <1>3, <1>4, <1>5, <1>6, <1>7,
     <1>8, <1>9

\* The bridge's and the supervisor's variables are well typed: the rotation
\* stays among the endpoints, and no countdown exceeds what it was set to
\* (run_ws_bridge_with_confirmation_liveness, mark_ws_unhealthy).
THEOREM TypeCorrect == Spec => []TypeOK
<1>1. Init => TypeOK
  <2>1. 0 \in Endpoint
    BY EndpointAssumption DEF Endpoint
  <2> SUFFICES ASSUME Init PROVE TypeOK
    OBVIOUS
  <2>2. /\ cool \in [Endpoint -> 0 .. Cooldown]
        /\ rest \in [Endpoint -> 0 .. Cooldown]
    BY Settings DEF Init
  <2>3. /\ index \in Endpoint /\ ws_active \in Endpoint
        /\ timer \in Nat /\ silence \in Nat /\ unanswered \in Nat
        /\ beat \in 0 .. Heartbeat /\ deadline \in 0 .. Deadline
        /\ upstream_reconnects \in 0 .. MaxReconnects
    BY <2>1, Settings DEF Init
  <2>4. /\ pc = "selecting" /\ ~awaiting_pong /\ ~live
        /\ ~upstream_seen /\ ~shutdown /\ ~recovered
    BY DEF Init
  <2> QED
    BY <2>2, <2>3, <2>4 DEF Init, TypeOK
<1> QED
  BY <1>1, TypeStep, PTL DEF Spec

\* The bridge's timers are natural numbers (run_ws_bridge).
THEOREM TimersTyped == Spec => []TimerTypes
<1>1. TypeOK => TimerTypes
  BY Durations DEF TypeOK, TimerTypes
<1> QED
  BY <1>1, TypeCorrect, PTL

-----------------------------------------------------------------------------
(* The session.                                                            *)

\* Every step keeps lease, counters and countdowns together.
LEMMA SessionStep ==
    ASSUME TimerTypes, SessionInv, [Next]_vars
    PROVE  SessionInv'
<1> USE Durations DEF SessionInv, ReadyMeansStreaming, TimersAddUp,
                           TimerTypes
<1>1. CASE SelectEndpoint \/ SelectNone \/ Connected \/ Wake
  BY <1>1 DEF SelectEndpoint, SelectNone, Connected, Wake
<1>2. CASE BridgeEnds \/ Stop
  BY <1>2 DEF BridgeEnds, Stop
<1>3. CASE Acknowledged
  BY <1>3 DEF Acknowledged, SessionTimers
<1>4. CASE Confirmation
  BY <1>4 DEF Confirmation
<1>5. CASE Pong
  BY <1>5 DEF Pong
<1>6. CASE SendPing
  BY <1>6 DEF SendPing, historyVars
<1>7. CASE MarkUnhealthy
  BY <1>7 DEF MarkUnhealthy
<1>8. CASE Tick
  <2>1. UNCHANGED <<pc, live, awaiting_pong>>
    BY <1>8 DEF Tick
  <2>2. live => /\ silence' = silence + 1 /\ deadline' = deadline - 1
                /\ beat' = beat - 1
                /\ unanswered' = IF awaiting_pong THEN unanswered + 1
                                                  ELSE unanswered
    BY <1>8 DEF Tick
  <2> QED
    BY <2>1, <2>2
<1>9. CASE RequestShutdown \/ Recover \/ UNCHANGED vars
  BY <1>9 DEF RequestShutdown, Recover, vars, socketVars, historyVars
<1> QED
  BY Steps, <1>1, <1>2, <1>3, <1>4, <1>5, <1>6, <1>7, <1>8, <1>9

\* The lease and the timers of the session go together (run_ws_bridge).
THEOREM SessionHolds == Spec => []SessionInv
<1>1. Init => SessionInv
  BY DEF Init, SessionInv, ReadyMeansStreaming, TimersAddUp
<1> QED
  BY <1>1, SessionStep, TimersTyped, PTL DEF Spec

\* The gateway is ready exactly while its bridge streams: readiness ends with
\* the lease, before the endpoint is marked (run_ws_bridge, serve).
THEOREM ReadyIsStreaming == Spec => []ReadyMeansStreaming
<1>1. SessionInv => ReadyMeansStreaming
  BY DEF SessionInv
<1> QED
  BY <1>1, SessionHolds, PTL

\* A ready gateway has waited for a confirmation no longer than the deadline
\* (confirmation_deadline).
THEOREM SilenceIsBounded == Spec => []SilenceBounded
<1>1. TimerTypes /\ SessionInv => SilenceBounded
  BY Durations DEF TimerTypes, SessionInv, TimersAddUp, SilenceBounded
<1> QED
  BY <1>1, SessionHolds, TimersTyped, PTL

\* A ready gateway has waited for a pong no longer than a heartbeat
\* (awaiting_pong).
THEOREM PingsAreAnswered == Spec => []PingsAnswered
<1>1. TimerTypes /\ SessionInv => PingsAnswered
  BY Durations DEF TimerTypes, SessionInv, TimersAddUp, PingsAnswered
<1> QED
  BY <1>1, SessionHolds, TimersTyped, PTL

-----------------------------------------------------------------------------
(* Cooldowns.                                                              *)

\* Every step keeps rest and cooldown together.
LEMMA RestStep ==
    ASSUME TimerTypes, RestInv, [Next]_vars
    PROVE  RestInv'
<1> USE Durations DEF RestInv, TimerTypes
<1>1. CASE SelectEndpoint
  BY <1>1 DEF SelectEndpoint, historyVars
<1>2. CASE SelectNone \/ Wake
  BY <1>2 DEF SelectNone, Wake, routeVars, historyVars
<1>3. CASE Connected \/ RequestShutdown \/ Recover
  BY <1>3 DEF Connected, RequestShutdown, Recover, routeVars, historyVars
<1>4. CASE BridgeEnds /\ Running
  BY <1>4 DEF BridgeEnds, Running, routeVars
<1>5. CASE Acknowledged \/ Confirmation \/ Pong \/ SendPing
  BY <1>5 DEF Acknowledged, Confirmation, Pong, SendPing, routeVars, historyVars
<1>6. CASE MarkUnhealthy
  BY <1>6 DEF MarkUnhealthy, historyVars
<1>7. CASE Tick
  <2>1. UNCHANGED <<pc, index>> /\ pc # "marking"
    BY <1>7 DEF Tick, Idle
  <2>2. ASSUME NEW e \in Endpoint, rest[e] + cool[e] >= Cooldown
        PROVE  rest'[e] + cool'[e] >= Cooldown
    <3>1. rest'[e] = AtMost(rest[e] + 1, Cooldown)
      BY <1>7 DEF Tick
    <3>2. cool'[e] = IF cool[e] > 0 THEN cool[e] - 1 ELSE 0
      BY <1>7 DEF Tick
    <3> QED
      BY <2>2, <3>1, <3>2 DEF AtMost
  <2> QED
    BY <2>1, <2>2
<1>8. CASE Stop \/ UNCHANGED vars
  BY <1>8 DEF Stop, vars, routeVars, historyVars
<1> QED
  BY Steps, <1>1, <1>2, <1>3, <1>4, <1>5, <1>6, <1>7, <1>8

\* Rest and cooldown of an endpoint go together (mark_ws_unhealthy).
THEOREM RestHolds == Spec => []RestInv
<1>1. Init => RestInv
  BY Durations DEF Init, RestInv
<1> QED
  BY <1>1, RestStep, TimersTyped, PTL DEF Spec

\* No endpoint is selected before it has rested for the whole cooldown
\* (active_ws_url).
THEOREM EndpointsDoRest == Spec => EndpointsRest
<1>1. TimerTypes /\ RestInv /\ [Next]_vars
        => [SelectEndpoint => rest[index'] >= Cooldown]_vars
  <2> SUFFICES ASSUME TimerTypes, RestInv, SelectEndpoint
               PROVE  rest[index'] >= Cooldown
    OBVIOUS
  <2>1. index' \in Endpoint /\ cool[index'] = 0 /\ pc = "selecting"
    BY DEF SelectEndpoint, Selection, Selectable
  <2> QED
    BY <2>1, Durations DEF RestInv, TimerTypes
<1> QED
  BY <1>1, RestHolds, TimersTyped, PTL DEF Spec, EndpointsRest

-----------------------------------------------------------------------------
(* The relay: types.                                                       *)

\* A task that was accepted goes on.
GoesOn(c) ==
    Handshake(c) \/ Connect(c) \/ CutOff(c) \/ Receive(c) \/ Forward(c)

\* It touches its own place only.
LEMMA TaskAlone ==
    ASSUME NEW c \in Connection, GoesOn(c)
    PROVE  /\ UNCHANGED <<controlVars, token>>
           /\ \E where \in {"connecting", "pumping", "sending", "closed"} :
                 Becomes(c, where)
  BY DEF GoesOn, Handshake, Connect, CutOff, Receive, Forward

\* FaultRelay is well typed (Relay, pause, resume and relay).
THEOREM RelayTypes == RelaySpec => []RelayTypeOK
<1>1. RelayInit => RelayTypeOK
  <2> SUFFICES ASSUME RelayInit PROVE RelayTypeOK
    OBVIOUS
  <2>1. paused \in BOOLEAN
    BY Zenon DEF RelayInit
  <2>2. circuit \in Nat /\ orders \in Nat
    BY DEF RelayInit
  <2>3. cancelled \in SUBSET Nat /\ orphaned \in SUBSET Nat
    BY DEF RelayInit
  <2>4. /\ operator \in {"idle", "pause", "pausing", "resume", "resuming"}
        /\ last \in {"pause", "resume"}
    BY DEF RelayInit
  <2>5. task \in [Connection -> {"idle", "handshaking", "connecting",
                                 "pumping", "sending", "closed"}]
    BY DEF RelayInit
  <2>6. token \in [Connection -> Nat]
    BY DEF RelayInit
  <2> QED
    BY <2>1, <2>2, <2>3, <2>4, <2>5, <2>6 DEF RelayTypeOK
<1>2. RelayTypeOK /\ [RelayNext]_relayVars => RelayTypeOK'
  <2> SUFFICES ASSUME RelayTypeOK, [RelayNext]_relayVars PROVE RelayTypeOK'
    OBVIOUS
  <2> USE DEF RelayTypeOK
  <2>1. CASE Order
    BY <2>1 DEF Order
  <2>2. CASE StorePaused
    BY <2>2 DEF StorePaused
  <2>3. CASE CancelCircuit
    BY <2>3 DEF CancelCircuit
  <2>4. CASE ReplaceCircuit
    BY <2>4 DEF ReplaceCircuit
  <2>5. CASE StoreResumed
    BY <2>5 DEF StoreResumed
  <2>6. ASSUME NEW c \in Connection, Accept(c) PROVE RelayTypeOK'
    BY <2>6 DEF Accept, Becomes, controlVars
  <2>7. ASSUME NEW c \in Connection, GoesOn(c) PROVE RelayTypeOK'
    BY <2>7, TaskAlone DEF Becomes, controlVars
  <2>8. CASE UNCHANGED relayVars
    BY <2>8 DEF relayVars, controlVars
  <2> QED
    BY <2>1, <2>2, <2>3, <2>4, <2>5, <2>6, <2>7, <2>8
    DEF GoesOn, RelayNext, Control
<1> QED
  BY <1>1, <1>2, PTL DEF RelaySpec

-----------------------------------------------------------------------------
(* The relay: tokens.                                                      *)

\* A token that resume put aside was cancelled or is orphaned, and a task has
\* the current one or an older one.
TokensInv ==
    /\ \A t \in 0 .. circuit : t \in cancelled \cup orphaned \/ t = circuit
    /\ \A c \in Connection : token[c] <= circuit
    /\ \A t \in cancelled : t <= circuit

\* What the two writes of each handler leave behind, in between and at the end.
HandlerInv ==
    /\ operator = "resuming" => circuit \notin cancelled
    /\ operator = "idle" /\ last = "resume"
         => ~paused /\ circuit \notin cancelled
    /\ Dark => circuit \in cancelled

RelayInv == TokensInv /\ HandlerInv

\* The relay starts with a fresh token.
LEMMA InitRelay == RelayInit => RelayInv
  BY DEF RelayInit, RelayInv, TokensInv, HandlerInv, Dark

\* The steps of a connection leave the tokens and the flag alone.
LEMMA ConnectionKeepsRelay ==
    ASSUME RelayTypeOK, RelayInv, NEW c \in Connection, GoesOn(c)
    PROVE  RelayInv'
  BY TaskAlone
  DEF RelayInv, TokensInv, HandlerInv, Dark, controlVars

\* A task is given the current token.
LEMMA AcceptKeepsRelay ==
    ASSUME RelayTypeOK, RelayInv, NEW c \in Connection, Accept(c)
    PROVE  RelayInv'
<1>1. UNCHANGED controlVars /\ token' = [token EXCEPT ![c] = circuit]
  BY DEF Accept
<1>2. TokensInv'
  BY <1>1 DEF RelayTypeOK, RelayInv, TokensInv, controlVars
<1>3. HandlerInv'
  BY <1>1 DEF RelayInv, HandlerInv, Dark, controlVars
<1> QED
  BY <1>2, <1>3 DEF RelayInv

\* The token that resume makes was never cancelled, and the one before it is
\* accounted for.
LEMMA ReplaceKeepsRelay ==
    ASSUME RelayTypeOK, RelayInv, ReplaceCircuit
    PROVE  RelayInv'
<1>1. circuit' = circuit + 1 /\ UNCHANGED <<cancelled, token>>
  BY DEF ReplaceCircuit
<1>2. orphaned' = orphaned \cup ({circuit} \ cancelled)
  BY DEF ReplaceCircuit
<1>3. \A t \in 0 .. circuit' : t \in cancelled' \cup orphaned' \/ t = circuit'
  <2> TAKE t \in 0 .. circuit'
  <2>1. t \in 0 .. circuit \/ t = circuit'
    BY <1>1 DEF RelayTypeOK
  <2> QED
    BY <1>1, <1>2, <2>1 DEF RelayInv, TokensInv
<1>4. \A c \in Connection : token'[c] <= circuit'
  BY <1>1 DEF RelayTypeOK, RelayInv, TokensInv
<1>5. /\ \A t \in cancelled : t <= circuit
      /\ circuit \in Nat /\ cancelled \in SUBSET Nat
  BY DEF RelayTypeOK, RelayInv, TokensInv
<1>6. \A t \in cancelled' : t <= circuit'
  BY <1>1, <1>5
<1>7. circuit' \notin cancelled'
  BY <1>1, <1>5
<1>8. operator' = "resuming"
  BY DEF ReplaceCircuit
<1> QED
  BY <1>3, <1>4, <1>6, <1>7, <1>8
  DEF RelayInv, TokensInv, HandlerInv, Dark

\* Every step keeps tokens and flag accounted for.
LEMMA NextKeepsRelay ==
    RelayTypeOK /\ RelayInv /\ [RelayNext]_relayVars => RelayInv'
<1> SUFFICES ASSUME RelayTypeOK, RelayInv, [RelayNext]_relayVars PROVE RelayInv'
  OBVIOUS
<1> USE DEF RelayInv, TokensInv, HandlerInv, Dark
<1>1. CASE Order
  BY <1>1 DEF Order
<1>2. CASE StorePaused
  BY <1>2 DEF StorePaused
<1>3. CASE CancelCircuit
  BY <1>3 DEF CancelCircuit, RelayTypeOK
<1>4. CASE ReplaceCircuit
  BY <1>4, ReplaceKeepsRelay
<1>5. CASE StoreResumed
  BY <1>5 DEF StoreResumed
<1>6. CASE UNCHANGED relayVars
  BY <1>6 DEF relayVars, controlVars
<1> QED
  BY <1>1, <1>2, <1>3, <1>4, <1>5, <1>6, AcceptKeepsRelay, ConnectionKeepsRelay
  DEF GoesOn, RelayNext, Control

\* Tokens and flag are accounted for at every moment (pause, resume).
THEOREM RelayInvariant == RelaySpec => []RelayInv
  BY RelayTypes, InitRelay, NextKeepsRelay, PTL DEF RelaySpec

\* After a resume the relay lets connections in under a token that nobody used
\* up (resume: the new token first, then the flag).
THEOREM ResumeServes == RelaySpec => []ResumedServes
<1>1. RelayInv => ResumedServes
  BY DEF RelayInv, HandlerInv, ResumedServes
<1> QED
  BY <1>1, RelayInvariant, PTL

-----------------------------------------------------------------------------
(* The relay: the outage.                                                  *)

\* In the dark a token that is not cancelled is orphaned.
LEMMA LiveIsOrphaned ==
    ASSUME RelayTypeOK, RelayInv, Dark,
           NEW c \in Connection, token[c] \notin cancelled
    PROVE  token[c] \in orphaned
<1>1. token[c] \in 0 .. circuit
  BY DEF RelayTypeOK, RelayInv, TokensInv
<1>2. circuit \in cancelled
  BY DEF RelayInv, HandlerInv
<1> QED
  BY <1>1, <1>2 DEF RelayInv, TokensInv

\* No circuit is made and no message taken while the relay is paused, but on an
\* orphaned token (pause against the select!s of relay).
THEOREM PausedIsDark == RelaySpec => OutageIsDark
<1> DEFINE Moves(c) ==
             task'[c] \in {"pumping", "sending"} /\ task'[c] # task[c]
           Excused(c) == token[c] \in orphaned \/ task[c] = "sending"
           Step == Dark => \A c \in Connection : Moves(c) => Excused(c)
<1>1. RelayTypeOK /\ RelayInv /\ [RelayNext]_relayVars => [Step]_relayVars
  <2> SUFFICES ASSUME RelayTypeOK, RelayInv, RelayNext, Dark,
                      NEW c \in Connection, Moves(c)
               PROVE  Excused(c)
    OBVIOUS
  <2>1. CASE Control
    <3>1. task' = task
      BY <2>1 DEF Control, Order, StorePaused,
                  CancelCircuit, ReplaceCircuit, StoreResumed
    <3> QED
      BY <3>1
  <2>2. ASSUME NEW d \in Connection,
               Accept(d) \/ Handshake(d) \/ CutOff(d)
        PROVE  Excused(c)
    <3>1. \E where \in {"handshaking", "connecting", "closed"} :
            Becomes(d, where)
      BY <2>2 DEF Accept, Handshake, CutOff
    <3> QED
      BY <3>1 DEF RelayTypeOK, Becomes
  <2>3. ASSUME NEW d \in Connection, Connect(d) \/ Receive(d)
        PROVE  Excused(c)
    <3>1. token[d] \notin cancelled
      BY <2>3 DEF Connect, Receive
    <3>2. \E where \in {"pumping", "sending", "closed"} :
            Becomes(d, where)
      BY <2>3 DEF Connect, Receive
    <3>3. c = d
      BY <3>2 DEF RelayTypeOK, Becomes
    <3> QED
      BY <3>1, <3>3, LiveIsOrphaned
  <2>4. ASSUME NEW d \in Connection, Forward(d)
        PROVE  Excused(c)
    BY <2>4 DEF Forward, RelayTypeOK, Becomes
  <2> QED
    BY <2>1, <2>2, <2>3, <2>4 DEF RelayNext
<1>2. RelaySpec => [][Step]_relayVars
  BY <1>1, RelayTypes, RelayInvariant, PTL DEF RelaySpec
<1> QED
  BY <1>2 DEF OutageIsDark
=============================================================================
