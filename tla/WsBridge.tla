------------------------------ MODULE WsBridge ------------------------------
(***************************************************************************)
(* The background task that keeps one upstream confirmation subscription:  *)
(* the supervisor loop of serve (src/src/main.rs), run_ws_bridge,          *)
(* active_ws_url and mark_ws_unhealthy (src/src/lib.rs).                   *)
(*                                                                         *)
(* Time is counted in ticks.  Every deadline of the code is a countdown,   *)
(* and a tick is taken only when nothing is due: the executor is assumed   *)
(* to run a task within the tick in which its timer fires.  The nodes are  *)
(* outside: an endpoint may refuse, stay mute, close or fall silent at any *)
(* point, except the Reliable ones once they have recovered: from then on  *)
(* these always answer in time.                                            *)
(***************************************************************************)
EXTENDS Integers

CONSTANTS
    N,               \* how many node_ws_urls are configured
    Reliable,        \* the endpoints that may recover for good
    Cooldown,        \* UPSTREAM_COOLDOWN, in ticks
    ConnectTimeout,  \* the timeout around connect_async
    AckTimeout,      \* the timeout around the subscribe acknowledgement
    Heartbeat,       \* the interval between pings
    Deadline,        \* CONFIRMATION_DELIVERY_TIMEOUT
    RetryDelay,      \* the supervisor's sleep between two bridges
    MaxReconnects    \* bound: the reconnect count saturates there

ASSUME EndpointAssumption == N \in Nat \ {0} /\ Reliable \subseteq 0 .. N - 1
ASSUME TimeAssumption ==
    {Cooldown, ConnectTimeout, AckTimeout, Heartbeat, Deadline, RetryDelay}
        \subseteq Nat \ {0}
ASSUME CountAssumption == MaxReconnects \in Nat

Endpoint == 0 .. N - 1

VARIABLES
    pc,               \* where the supervisor and its bridge are
    index,            \* ws_index: the endpoint selected last
    ws_active,        \* AppState.ws_active
    cool,             \* ticks left until ws_unhealthy_until, per endpoint
    timer,            \* ticks left of the timeout or sleep being awaited
    beat,             \* ticks left until heartbeat.tick()
    deadline,         \* ticks left of confirmation_deadline
    awaiting_pong,    \* a ping was sent and not answered
    live,             \* a session lease is held, so the hub is ready
    upstream_seen,    \* AppState.upstream_seen
    upstream_reconnects, \* Metrics.upstream_reconnects
    shutdown,         \* the CancellationToken of serve
    recovered,        \* the Reliable endpoints answer in time from now on
    rest,             \* history: ticks since each endpoint failed
    silence,          \* history: ticks since a confirmation or the start
    unanswered        \* history: ticks since the unanswered ping

routeVars == <<index, ws_active, cool>>
socketVars == <<beat, deadline, awaiting_pong>>
countVars == <<upstream_seen, upstream_reconnects>>
envVars == <<shutdown, recovered>>
historyVars == <<rest, silence, unanswered>>
vars == <<pc, routeVars, timer, socketVars, live, countVars, envVars,
          historyVars>>

AtMost(n, bound) == IF n < bound THEN n ELSE bound

\* An endpoint that gives the bridge no reason to end.
Answering(e) == recovered /\ e \in Reliable

Init ==
    /\ pc = "selecting"
    /\ index = 0
    /\ ws_active = 0
    /\ cool = [e \in Endpoint |-> 0]
    /\ timer = 0
    /\ beat = 0
    /\ deadline = 0
    /\ awaiting_pong = FALSE
    /\ live = FALSE
    /\ upstream_seen = FALSE
    /\ upstream_reconnects = 0
    /\ shutdown = FALSE
    /\ recovered = FALSE
    /\ rest = [e \in Endpoint |-> Cooldown]
    /\ silence = 0
    /\ unanswered = 0

-----------------------------------------------------------------------------
(* Choosing an endpoint.                                                   *)

\* active_ws_url starts at ws_active and takes the first endpoint, going
\* round, whose cooldown has passed.
Offsets == 0 .. N - 1
At(offset) == (ws_active + offset) % N
Selectable(e) == cool[e] = 0
Selection(e) ==
    \E offset \in Offsets :
        /\ e = At(offset)
        /\ Selectable(e)
        /\ \A earlier \in 0 .. offset - 1 : ~Selectable(At(earlier))

SelectEndpoint ==
    /\ pc = "selecting"
    /\ \E e \in Endpoint : Selection(e) /\ index' = e
    /\ pc' = "connecting"
    /\ timer' = ConnectTimeout
    /\ UNCHANGED <<ws_active, cool, socketVars, live, countVars, envVars,
                   historyVars>>

\* All endpoints cool down: the bridge returns an error and marks nothing.
SelectNone ==
    /\ pc = "selecting"
    /\ \A e \in Endpoint : ~Selectable(e)
    /\ pc' = "sleeping"
    /\ timer' = RetryDelay
    /\ UNCHANGED <<routeVars, socketVars, live, countVars, envVars,
                   historyVars>>

-----------------------------------------------------------------------------
(* Failing: the bridge's async block ends, which drops the lease, and only *)
(* then is the endpoint marked.                                            *)

\* Mutant of BridgeEnds: the lease outlives the bridge.
BridgeKeepsLease ==
    /\ pc' = "marking"
    /\ rest' = [rest EXCEPT ![index] = 0]
    /\ UNCHANGED <<routeVars, timer, socketVars, live, countVars, envVars,
                   silence, unanswered>>

BridgeEnds ==
    /\ pc' = "marking"
    /\ live' = FALSE
    /\ rest' = [rest EXCEPT ![index] = 0]
    /\ UNCHANGED <<routeVars, timer, socketVars, countVars, envVars, silence,
                   unanswered>>

\* Mutants of MarkUnhealthy: no cooldown, no rotation, no wrap at the end.
RotateOnly ==
    /\ pc = "marking"
    /\ ws_active' = (index + 1) % N
    /\ pc' = "sleeping"
    /\ timer' = RetryDelay
    /\ UNCHANGED <<index, cool, socketVars, live, countVars, envVars,
                   historyVars>>
CoolOnly ==
    /\ pc = "marking"
    /\ cool' = [cool EXCEPT ![index] = Cooldown]
    /\ pc' = "sleeping"
    /\ timer' = RetryDelay
    /\ UNCHANGED <<index, ws_active, socketVars, live, countVars, envVars,
                   historyVars>>

\* mark_ws_unhealthy, whatever the bridge's result was; then the supervisor
\* sleeps before it runs the next bridge.
MarkUnhealthy ==
    /\ pc = "marking"
    /\ cool' = [cool EXCEPT ![index] = Cooldown]
    /\ ws_active' = (index + 1) % N
    /\ pc' = "sleeping"
    /\ timer' = RetryDelay
    /\ UNCHANGED <<index, socketVars, live, countVars, envVars, historyVars>>

Wake ==
    /\ pc = "sleeping"
    /\ timer = 0
    /\ pc' = "selecting"
    /\ UNCHANGED <<routeVars, timer, socketVars, live, countVars, envVars,
                   historyVars>>

-----------------------------------------------------------------------------
(* Connecting and subscribing.                                             *)

\* The socket opens and the subscribe request is sent.
Connected ==
    /\ pc = "connecting"
    /\ pc' = "awaiting_ack"
    /\ timer' = AckTimeout
    /\ UNCHANGED <<routeVars, socketVars, live, countVars, envVars,
                   historyVars>>

\* A bad URL, a refused connection, a failed send; or the connect timeout.
ConnectFails ==
    /\ pc = "connecting"
    /\ ~Answering(index)
    /\ BridgeEnds

\* What opening a session does to heartbeat and deadline: the first tick of a
\* tokio interval completes at once, so the next one is a period away.
SessionTimers ==
    /\ beat' = Heartbeat
    /\ deadline' = Deadline
    /\ awaiting_pong' = FALSE

\* The acknowledgement arrives: a session starts, and counts as a reconnect
\* when one has been acknowledged before.
Acknowledged ==
    /\ pc = "awaiting_ack"
    /\ pc' = "streaming"
    /\ upstream_seen' = TRUE
    /\ upstream_reconnects' =
          AtMost(upstream_reconnects + (IF upstream_seen THEN 1 ELSE 0),
                 MaxReconnects)
    /\ live' = TRUE
    /\ SessionTimers
    /\ silence' = 0
    /\ unanswered' = 0
    /\ UNCHANGED <<routeVars, timer, envVars, rest>>

\* An error reply, a close or a transport error before the acknowledgement, or
\* the acknowledgement timeout.
AckFails ==
    /\ pc = "awaiting_ack"
    /\ ~Answering(index)
    /\ BridgeEnds

-----------------------------------------------------------------------------
(* Streaming.                                                              *)

\* A normalized confirmation is published and pushes the deadline back.
Confirmation ==
    /\ pc = "streaming"
    /\ deadline' = Deadline
    /\ silence' = 0
    /\ UNCHANGED <<pc, routeVars, timer, beat, awaiting_pong, live, countVars,
                   envVars, rest, unanswered>>

\* Mutant of Pong: any frame pushes the confirmation deadline back.
PongExtends ==
    /\ pc = "streaming"
    /\ awaiting_pong
    /\ awaiting_pong' = FALSE
    /\ deadline' = Deadline
    /\ unanswered' = 0
    /\ UNCHANGED <<pc, routeVars, timer, beat, live, countVars, envVars, rest,
                   silence>>

\* A frame that is no confirmation: a pong, or something that is ignored.
Pong ==
    /\ pc = "streaming"
    /\ awaiting_pong
    /\ awaiting_pong' = FALSE
    /\ unanswered' = 0
    /\ UNCHANGED <<pc, routeVars, timer, beat, deadline, live, countVars,
                   envVars, rest, silence>>

\* Mutant of SendPing: another ping goes out while one is unanswered.
PingAgain ==
    /\ pc = "streaming"
    /\ beat = 0
    /\ awaiting_pong' = TRUE
    /\ beat' = Heartbeat
    /\ UNCHANGED <<pc, routeVars, timer, deadline, live, countVars, envVars,
                   historyVars>>

SendPing ==
    /\ pc = "streaming"
    /\ beat = 0
    /\ ~awaiting_pong
    /\ awaiting_pong' = TRUE
    /\ beat' = Heartbeat
    /\ UNCHANGED <<pc, routeVars, timer, deadline, live, countVars, envVars,
                   historyVars>>

\* The second heartbeat in a row finds the ping unanswered.
HeartbeatTimeout ==
    /\ pc = "streaming"
    /\ beat = 0
    /\ awaiting_pong
    /\ ~Answering(index)
    /\ BridgeEnds

ConfirmationTimeout ==
    /\ pc = "streaming"
    /\ deadline = 0
    /\ ~Answering(index)
    /\ BridgeEnds

\* A close frame, the end of the stream, a transport error, or a failed ping.
SocketEnds ==
    /\ pc = "streaming"
    /\ ~Answering(index)
    /\ BridgeEnds

-----------------------------------------------------------------------------
(* Time and shutdown.                                                      *)

\* A timer that is due must be acted on before time goes on.
Idle ==
    \/ pc \in {"connecting", "awaiting_ack", "sleeping"} /\ timer > 0
    \/ pc = "streaming" /\ beat > 0 /\ deadline > 0

Tick ==
    /\ Idle
    /\ cool' = [e \in Endpoint |-> IF cool[e] > 0 THEN cool[e] - 1 ELSE 0]
    /\ timer' = IF timer > 0 THEN timer - 1 ELSE 0
    /\ beat' = IF pc = "streaming" THEN beat - 1 ELSE beat
    /\ deadline' = IF pc = "streaming" THEN deadline - 1 ELSE deadline
    /\ rest' = [e \in Endpoint |-> AtMost(rest[e] + 1, Cooldown)]
    /\ silence' = IF live THEN silence + 1 ELSE silence
    /\ unanswered' = IF live /\ awaiting_pong THEN unanswered + 1 ELSE unanswered
    /\ UNCHANGED <<pc, index, ws_active, awaiting_pong, live, countVars,
                   envVars>>

\* Ctrl-C, or the server ending: serve cancels the token.
RequestShutdown ==
    /\ ~shutdown
    /\ shutdown' = TRUE
    /\ UNCHANGED <<pc, routeVars, timer, socketVars, live, countVars,
                   recovered, historyVars>>

\* Some day, or never, the Reliable endpoints stop failing.
Recover ==
    /\ ~recovered
    /\ recovered' = TRUE
    /\ UNCHANGED <<pc, routeVars, timer, socketVars, live, countVars,
                   shutdown, historyVars>>

\* Mutant of Stop: the token is looked at only between two bridges.
StopBetween ==
    /\ shutdown
    /\ pc = "sleeping"
    /\ pc' = "stopped"
    /\ UNCHANGED <<routeVars, timer, socketVars, live, countVars, envVars,
                   historyVars>>

\* The supervisor's select! drops the bridge wherever it is awaiting: the lease
\* goes with it, and nothing is marked.
Stop ==
    /\ shutdown
    /\ pc # "stopped"
    /\ pc' = "stopped"
    /\ live' = FALSE
    /\ UNCHANGED <<routeVars, timer, socketVars, countVars, envVars,
                   historyVars>>

-----------------------------------------------------------------------------
SelectStep == SelectEndpoint \/ SelectNone
ConnectStep == Connected \/ ConnectFails
AckStep == Acknowledged \/ AckFails
TimerStep == SendPing \/ HeartbeatTimeout \/ ConfirmationTimeout

Next ==
    \/ SelectStep
    \/ ConnectStep
    \/ AckStep
    \/ Confirmation
    \/ Pong
    \/ TimerStep
    \/ SocketEnds
    \/ MarkUnhealthy
    \/ Wake
    \/ Tick
    \/ RequestShutdown
    \/ Recover
    \/ Stop

Spec == Init /\ [][Next]_vars

\* The task is polled whenever a timer or the socket wakes it, time goes on,
\* and a recovered endpoint does answer pings and send confirmations.
Fairness ==
    /\ WF_vars(SelectStep)
    /\ WF_vars(ConnectStep)
    /\ WF_vars(AckStep)
    /\ WF_vars(TimerStep)
    /\ WF_vars(MarkUnhealthy)
    /\ WF_vars(Wake)
    /\ WF_vars(Tick)
    /\ WF_vars(Stop)
    /\ WF_vars(Answering(index) /\ deadline = 0 /\ Confirmation)
    /\ WF_vars(Answering(index) /\ beat = 0 /\ Pong)

FairSpec == Spec /\ Fairness

-----------------------------------------------------------------------------
(* Properties.                                                             *)

\* The types of the bridge's and the supervisor's variables (AppState,
\* run_ws_bridge_with_confirmation_liveness).
TypeOK ==
    /\ pc \in {"selecting", "connecting", "awaiting_ack", "streaming",
               "marking", "sleeping", "stopped"}
    /\ index \in Endpoint
    /\ ws_active \in Endpoint
    /\ cool \in [Endpoint -> 0 .. Cooldown]
    /\ timer \in Nat
    /\ beat \in 0 .. Heartbeat
    /\ deadline \in 0 .. Deadline
    /\ awaiting_pong \in BOOLEAN
    /\ live \in BOOLEAN
    /\ upstream_seen \in BOOLEAN
    /\ upstream_reconnects \in 0 .. MaxReconnects
    /\ shutdown \in BOOLEAN
    /\ recovered \in BOOLEAN
    /\ rest \in [Endpoint -> 0 .. Cooldown]
    /\ silence \in Nat
    /\ unanswered \in Nat

\* The gateway is ready exactly while the bridge reads an acknowledged
\* subscription: no session is left behind when the bridge fails, and none
\* survives shutdown.  Marking an endpoint finds its streams closed already.
ReadyMeansStreaming == live <=> pc = "streaming"

\* While the gateway is ready, a confirmation arrived, or the session started,
\* at most Deadline ago: pongs and other frames do not keep a mute upstream.
SilenceBounded == live => silence <= Deadline

\* While the gateway is ready no ping has gone unanswered for longer than one
\* heartbeat interval.
PingsAnswered == live => unanswered <= Heartbeat

\* An endpoint is tried again only once Cooldown has passed since the bridge
\* to it ended, for whatever reason it ended.
EndpointsRest ==
    [][SelectEndpoint => rest[index'] >= Cooldown]_vars

\* Once one endpoint answers for good, the gateway ends up ready for good,
\* whatever state the failures before left behind and whatever the other
\* endpoints do, unless it is shut down: none is starved by those before it.
SettlesOnReliable == recovered ~> [](live \/ shutdown)

\* Once shutdown is requested the task stops and the session is gone.
ShutdownStops == shutdown ~> (pc = "stopped" /\ ~live)
=============================================================================
