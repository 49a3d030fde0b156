---------------------------- MODULE NativeRouter ----------------------------
(***************************************************************************)
(* Routing of native RPC calls over the configured nodes: NativeRouter and *)
(* the error classes of NativeClient (src/src/lib.rs).  AppState holds two *)
(* of them, one over node_rpc_urls and one over work_peer_urls.            *)
(*                                                                         *)
(* Calls run concurrently.  Each works on a snapshot of the cooldowns taken *)
(* when it starts, while other calls move the shared active index and cool *)
(* upstreams down; mark_unhealthy writes the cooldown under the lock and   *)
(* the active index after it.  Nodes are outside: an attempt has any       *)
(* outcome at any time (the client gives up after ten seconds).            *)
(***************************************************************************)
EXTENDS Integers, Sequences, FiniteSets

CONSTANTS
    Call,       \* callers, each with one call in flight at a time
    N,          \* upstreams configured
    Cooldown,   \* UPSTREAM_COOLDOWN, in ticks
    MaxClock,   \* bound: how far the clock goes
    MaxCalls    \* bound: calls a caller makes

\* NativeRouter::new refuses an empty list of clients.
ASSUME UpstreamAssumption == N \in Nat \ {0}
ASSUME ClockAssumption ==
    Cooldown \in Nat \ {0} /\ MaxClock \in Nat /\ MaxCalls \in Nat

Upstream == 0 .. N - 1

\* What becomes of one request to one node.
Outcome ==
    {"ok",            \* a JSON answer without an error
     "refused",       \* the connection failed: the node never saw it
     "server_error",  \* HTTP 5xx or 429: the node may have acted on it
     "transport",     \* a timeout or a bad body after it was sent
     "rejected",      \* the node's own error, or another HTTP status
     "rate_limited"}  \* the node's own error, saying it is rate limited

\* The classes call_with_response_logging gives them: GatewayError's
\* UpstreamUnavailable and NodeRateLimited cool the upstream down, and only the
\* first fails over.
can_failover(outcome) == outcome \in {"refused", "server_error"}
cools_down(outcome) == can_failover(outcome) \/ outcome = "rate_limited"

VARIABLES
    clock,            \* Instant::now()
    active,           \* NativeRouter.active
    unhealthy_until,  \* NativeRouter.unhealthy_until
    pc,               \* where each call is
    start,            \* the active index it started from
    now,              \* its reading of the clock
    skip,             \* the upstreams cooling in its snapshot
    offset,           \* its position in the round
    result,           \* what its caller got, "none" before that
    calls,            \* calls made so far by each caller
    attempts,         \* history: upstream and outcome of each attempt, in order
    marked            \* history: upstreams cooled down since the call's snapshot

sharedVars == <<active, unhealthy_until>>
localVars == <<start, now, skip, offset, calls>>
vars == <<clock, sharedVars, pc, localVars, result, attempts, marked>>

Init ==
    /\ clock = 0
    /\ active = 0
    /\ unhealthy_until = [i \in Upstream |-> 0]
    /\ pc = [c \in Call |-> "idle"]
    /\ start = [c \in Call |-> 0]
    /\ now = [c \in Call |-> 0]
    /\ skip = [c \in Call |-> {}]
    /\ offset = [c \in Call |-> 0]
    /\ result = [c \in Call |-> "none"]
    /\ calls = [c \in Call |-> 0]
    /\ attempts = [c \in Call |-> <<>>]
    /\ marked = [c \in Call |-> {}]

Goto(c, where) == pc' = [pc EXCEPT ![c] = where]
Return(c, value) == Goto(c, "idle") /\ result' = [result EXCEPT ![c] = value]

\* Mutant of IndexAt: the round follows the active index as it moves.
IndexFromActive(c, o) == (active + o) % N

IndexAt(c, o) == (start[c] + o) % N

-----------------------------------------------------------------------------
\* call: the active index and the clock are read, then the lock is awaited.
Start(c) ==
    /\ pc[c] = "idle"
    /\ calls[c] < MaxCalls
    /\ calls' = [calls EXCEPT ![c] = @ + 1]
    /\ start' = [start EXCEPT ![c] = active]
    /\ now' = [now EXCEPT ![c] = clock]
    /\ offset' = [offset EXCEPT ![c] = 0]
    /\ skip' = [skip EXCEPT ![c] = {}]
    /\ result' = [result EXCEPT ![c] = "none"]
    /\ attempts' = [attempts EXCEPT ![c] = <<>>]
    /\ Goto(c, "locking")
    /\ UNCHANGED <<clock, sharedVars, marked>>

\* Mutant of Snapshot: the cooldowns are not looked at.
SnapshotNothing(c) ==
    /\ pc[c] = "locking"
    /\ marked' = [marked EXCEPT ![c] = {}]
    /\ Goto(c, "looping")
    /\ UNCHANGED <<clock, sharedVars, start, now, skip, offset, calls, result,
                   attempts>>

\* The cooldowns are copied under the lock and compared with the call's own,
\* possibly older, reading of the clock.
Snapshot(c) ==
    /\ pc[c] = "locking"
    /\ skip' = [skip EXCEPT ![c] = {i \in Upstream : unhealthy_until[i] > now[c]}]
    /\ marked' = [marked EXCEPT ![c] = {}]
    /\ Goto(c, "looping")
    /\ UNCHANGED <<clock, sharedVars, start, now, offset, calls, result, attempts>>

\* The next upstream of the round that the snapshot does not skip is asked.
Attempt(c) ==
    /\ pc[c] = "looping"
    /\ \E o \in offset[c] .. N - 1 :
          /\ IndexAt(c, o) \notin skip[c]
          /\ \A earlier \in offset[c] .. o - 1 : IndexAt(c, earlier) \in skip[c]
          /\ offset' = [offset EXCEPT ![c] = o]
    /\ Goto(c, "waiting")
    /\ UNCHANGED <<clock, sharedVars, start, now, skip, calls, result, attempts,
                   marked>>

\* The round is over: the last unavailability, or that none could be asked.
GiveUp(c) ==
    /\ pc[c] = "looping"
    /\ \A o \in offset[c] .. N - 1 : IndexAt(c, o) \in skip[c]
    /\ Return(c, IF attempts[c] = <<>> THEN "all_cooling" ELSE "unavailable")
    /\ UNCHANGED <<clock, sharedVars, localVars, attempts, marked>>

Note(c, outcome) ==
    attempts' = [attempts EXCEPT ![c] = Append(@, <<IndexAt(c, offset[c]), outcome>>)]

\* The node answers: the upstream becomes the active one, wherever other calls
\* have moved it meanwhile.
Succeed(c) ==
    /\ pc[c] = "waiting"
    /\ Note(c, "ok")
    /\ active' = IndexAt(c, offset[c])
    /\ Return(c, "ok")
    /\ UNCHANGED <<clock, unhealthy_until, localVars, marked>>

\* An error that says something of the call, or of nothing certain, goes to the
\* caller as it is.
Fail(c, outcome) ==
    /\ pc[c] = "waiting"
    /\ ~cools_down(outcome)
    /\ outcome # "ok"
    /\ Note(c, outcome)
    /\ Return(c, outcome)
    /\ UNCHANGED <<clock, sharedVars, localVars, marked>>

\* A capacity error: the lock is awaited to cool the upstream down.
Degrade(c, outcome) ==
    /\ pc[c] = "waiting"
    /\ cools_down(outcome)
    /\ Note(c, outcome)
    /\ Goto(c, "marking")
    /\ UNCHANGED <<clock, sharedVars, localVars, result, marked>>

\* Mutant of MarkHealth: a call keeps the lock it took for its snapshot, and so
\* waits for itself.
MarkUnderOwnLock(c) ==
    /\ pc[c] = "marking"
    /\ \A d \in Call : pc[d] \in {"idle", "locking"}
    /\ unhealthy_until' =
          [unhealthy_until EXCEPT ![IndexAt(c, offset[c])] = clock + Cooldown]
    /\ marked' = [d \in Call |-> marked[d] \cup {IndexAt(c, offset[c])}]
    /\ Goto(c, "rotating")
    /\ UNCHANGED <<clock, active, localVars, result, attempts>>

\* mark_unhealthy, first half: the cooldown starts, under the lock.
MarkHealth(c) ==
    /\ pc[c] = "marking"
    /\ unhealthy_until' =
          [unhealthy_until EXCEPT ![IndexAt(c, offset[c])] = clock + Cooldown]
    /\ marked' = [d \in Call |-> marked[d] \cup {IndexAt(c, offset[c])}]
    /\ Goto(c, "rotating")
    /\ UNCHANGED <<clock, active, localVars, result, attempts>>

\* Second half: the active index moves on; then the call fails over, or gives
\* its caller the node's own refusal.
Rotate(c) ==
    /\ pc[c] = "rotating"
    /\ active' = (IndexAt(c, offset[c]) + 1) % N
    /\ IF can_failover(attempts[c][Len(attempts[c])][2])
         THEN /\ offset' = [offset EXCEPT ![c] = @ + 1]
              /\ Goto(c, "looping")
              /\ UNCHANGED result
         ELSE /\ Return(c, "rate_limited")
              /\ UNCHANGED offset
    /\ UNCHANGED <<clock, unhealthy_until, start, now, skip, calls, attempts,
                   marked>>

\* The caller goes away and its future is dropped at an await.
Abandon(c) ==
    /\ pc[c] \in {"locking", "waiting", "marking"}
    /\ Return(c, "abandoned")
    /\ UNCHANGED <<clock, sharedVars, localVars, attempts, marked>>

Tick ==
    /\ clock < MaxClock
    /\ clock' = clock + 1
    /\ UNCHANGED <<sharedVars, pc, localVars, result, attempts, marked>>

-----------------------------------------------------------------------------
Resolve(c) ==
    \/ Succeed(c)
    \/ \E outcome \in Outcome : Fail(c, outcome) \/ Degrade(c, outcome)

Proceed(c) ==
    \/ Snapshot(c)
    \/ Attempt(c)
    \/ GiveUp(c)
    \/ Resolve(c)
    \/ MarkHealth(c)
    \/ Rotate(c)

Next ==
    \/ \E c \in Call : Start(c) \/ Proceed(c) \/ Abandon(c)
    \/ Tick

Spec == Init /\ [][Next]_vars

\* A call is polled until it ends: the lock is fair and held for one statement
\* at a time, and the client's timeout resolves every attempt.
FairSpec == Spec /\ \A c \in Call : WF_vars(Proceed(c))

-----------------------------------------------------------------------------
(* Properties.                                                             *)

\* The types of the router's state and of each call's locals (NativeRouter).
TypeOK ==
    /\ clock \in Nat
    /\ active \in Upstream
    /\ unhealthy_until \in [Upstream -> Nat]
    /\ pc \in [Call -> {"idle", "locking", "looping", "waiting", "marking",
                        "rotating"}]
    /\ start \in [Call -> Upstream]
    /\ now \in [Call -> Nat]
    /\ skip \in [Call -> SUBSET Upstream]
    /\ offset \in [Call -> 0 .. N]
    /\ result \in [Call -> Outcome \cup {"none", "abandoned", "all_cooling",
                                         "unavailable"}]
    /\ calls \in [Call -> Nat]
    /\ attempts \in [Call -> Seq(Upstream \X Outcome)]
    /\ marked \in [Call -> SUBSET Upstream]

Asked(c) == {attempts[c][k][1] : k \in 1 .. Len(attempts[c])}

\* A caller hears that upstreams are unavailable only when every one of them
\* was asked, and none twice, or was cooling when the call looked: one that is up
\* serves it, however many calls degrade the others and move the active index
\* meanwhile.
GivesUpOnlyAfterAll ==
    \A c \in Call :
        result[c] \in {"unavailable", "all_cooling"} =>
            /\ Asked(c) \cup skip[c] = Upstream
            /\ Len(attempts[c]) + Cardinality(skip[c]) = N

\* An upstream that is cooling down is asked only by a call whose snapshot is
\* older than the failure that cooled it.
CoolingOnlyAskedByOlderCalls ==
    [][\A c \in Call : pc[c] = "looping" /\ pc'[c] = "waiting" =>
          LET i == IndexAt(c, offset'[c])
          IN  unhealthy_until[i] > clock => i \in marked[c]]_vars

\* Every call ends, and its caller gets a result.
CallsEnd == \A c \in Call : pc[c] # "idle" ~> (pc[c] = "idle" /\ result[c] # "none")
=============================================================================
