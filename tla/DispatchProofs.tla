--------------------------- MODULE DispatchProofs ---------------------------
(***************************************************************************)
(* Proofs about Dispatch, for any number of calls, whatever callers send   *)
(* and under every configuration: only entitled calls are acted on, a      *)
(* refusal left no trace, and the metrics agree with the calls.            *)
(***************************************************************************)
EXTENDS Dispatch, FiniteSetTheorems, TLAPS

-----------------------------------------------------------------------------
(* The checks.                                                             *)

\* The first of some checks is one of them.
LEMMA First ==
    ASSUME NEW hits \in SUBSET (1 .. 12), NEW n \in hits,
           \A i \in hits : n <= i
    PROVE  Min(hits) \in hits
  BY DEF Min

\* Of the checks that apply, one comes first.
LEMMA FirstExists ==
    ASSUME NEW hits \in SUBSET (1 .. 12), hits # {}
    PROVE  Min(hits) \in hits
<1> DEFINE From(n) == \A i \in hits : n <= i
<1>1. From(1)
  OBVIOUS
<1>2. \A n \in 1 .. 12 : From(n) => n \in hits \/ From(n + 1)
  OBVIOUS
<1>3. ~From(13)
  <2>1. PICK i \in hits : TRUE
    OBVIOUS
  <2>2. ~(13 <= i)
    OBVIOUS
  <2> QED
    BY <2>2
<1>4. \E n \in 1 .. 12 : From(n) /\ n \in hits
  <2> HIDE DEF From
  <2> SUFFICES ASSUME \A n \in 1 .. 12 : ~(From(n) /\ n \in hits) PROVE FALSE
    OBVIOUS
  <2>1. \A n \in 1 .. 12 : From(n) => From(n + 1)
    BY <1>2
  <2>2. From(2) /\ From(3) /\ From(4) /\ From(5)
    BY <1>1, <2>1
  <2>3. From(6) /\ From(7) /\ From(8) /\ From(9)
    BY <2>1, <2>2
  <2>4. From(10) /\ From(11) /\ From(12) /\ From(13)
    BY <2>1, <2>3
  <2> QED
    BY <1>3, <2>4
<1> QED
  BY <1>4, First

\* What the checks answer when they refuse a call.
Refusals == {401, 403, -32700, -32600, -32601, -32602, -32604}

\* A check that applies answers the call, with a result only to rpc.discover.
LEMMA ScreenedAnswers ==
    ASSUME NEW q
    PROVE  /\ Screened(q) \in Refusals \cup {200, Unanswered}
           /\ Screened(q) = Unanswered =>
                \A i \in 1 .. 12 : ~Checks(q)[i].when
<1> DEFINE hits == {i \in DOMAIN Checks(q) : Checks(q)[i].when}
<1>1. DOMAIN Checks(q) = 1 .. 12
  BY DEF Checks
<1>2. \A i \in 1 .. 12 : Checks(q)[i].answer \in Refusals \cup {200}
  BY DEF Checks, Refusals
<1>3. CASE hits = {}
  BY <1>1, <1>3 DEF Screened
<1>4. CASE hits # {}
  <2>1. Min(hits) \in 1 .. 12
    BY <1>1, <1>4, FirstExists
  <2>2. Screened(q) = Checks(q)[Min(hits)].answer
    BY <1>4 DEF Screened
  <2> QED
    BY <1>2, <2>1, <2>2 DEF Refusals, Unanswered
<1> QED
  BY <1>3, <1>4

-----------------------------------------------------------------------------
(* Types.                                                                  *)

\* What of the state belongs to one call.
Own(r) ==
    <<pc[r], query[r], answer[r], received[r], asked[r], outcome[r], spent[r],
      recorded[r]>>

\* TypeOK but for the counters, whose bounds follow from CountersAgree.
CallTypes ==
    /\ config \in Setting
    /\ clock \in Nat
    /\ pc \in [Request -> {"idle", "reserving", "checking", "calling",
                           "waiting", "recording", "done", "gone"}]
    /\ query \in [Request -> Query]
    /\ answer \in [Request -> Refusals \cup {Unanswered, 200, 429, -32603,
                                             -32000}]
    /\ received \in [Request -> Nat]
    /\ asked \in [Request -> {"nobody", "node", "peers", "generator", "jobs"}]
    /\ outcome \in [Request -> {"none", "accepted", "misshapen", "rejected",
                                "rate_limited", "upstream", "unavailable",
                                "transport", "invalid", "cancelled"}]
    /\ spent \in [Request -> BOOLEAN]
    /\ recorded \in [Request -> BOOLEAN]
    /\ \A r \in Request : pc[r] = "waiting" => asked[r] # "nobody"

\* Where a call may go (dispatch).
LEMMA Routed ==
    ASSUME NEW q
    PROVE  Routes(q) \subseteq {"node", "peers", "generator", "jobs"}
<1>1. q.method = "work_generate" =>
        Routes(q) = {"peers"} \/ Routes(q) = {"generator"}
  BY DEF Routes
<1>2. q.method = "work_cancel" =>
        Routes(q) = {"peers", "jobs"} \/ Routes(q) = {"peers"}
  BY DEF Routes
<1>3. q.method \notin {"work_generate", "work_cancel"} => Routes(q) = {"node"}
  BY DEF Routes
<1> QED
  BY <1>1, <1>2, <1>3

\* A call's step keeps the types of the calls (rpc_handler, dispatch, guard).
LEMMA CallTypesStep ==
    ASSUME CallTypes, NEW r \in Request, CallStep(r)
    PROVE  CallTypes'
<1> USE DEF CallTypes
<1>1. CASE Receive(r)
  <2>1. Screened(query[r]) \in Refusals \cup {200, Unanswered}
    BY ScreenedAnswers
  <2> HIDE DEF Refusals
  <2> QED
    BY <1>1, <2>1 DEF Receive, Respond, Proceed
<1>2. CASE Reserve(r)
  <2>1. CASE Proceed(r, "checking") /\ spent' = [spent EXCEPT ![r] = TRUE]
    BY <1>2, <2>1 DEF Reserve, Proceed
  <2>2. CASE Respond(r, 429) /\ UNCHANGED spent
    BY <1>2, <2>2 DEF Reserve, Respond
  <2> QED
    BY <1>2, <2>1, <2>2 DEF Reserve
<1>3. CASE CheckCooldown(r)
  BY <1>3 DEF CheckCooldown, Respond, Proceed, historyVars
<1>4. CASE Call(r)
  <2>1. PICK route \in Routes(query[r]) : asked' = [asked EXCEPT ![r] = route]
    BY ONLY <1>4, Zenon DEF Call
  <2>2. route \in {"node", "peers", "generator", "jobs"}
    BY Routed
  <2> QED
    BY <1>4, <2>1, <2>2 DEF Call, Proceed
<1>5. CASE Answered(r)
  <2>1. \A o : Reply(o) \in Refusals \cup {200, -32000, -32603}
    BY DEF Reply, Refusals
  <2>2. \A o \in Outcomes(asked[r]) :
          o \in {"accepted", "misshapen", "rejected", "rate_limited",
                 "upstream", "unavailable", "transport", "invalid",
                 "cancelled"}
    <3>1. asked[r] \in {"node", "peers", "generator", "jobs"}
      BY <1>5 DEF Answered
    <3> QED
      BY <3>1 DEF Outcomes
  <2> HIDE DEF Refusals
  <2> QED
    BY <1>5, <2>1, <2>2 DEF Answered, Respond, Proceed
<1>6. CASE Record(r)
  <2>1. Reply(outcome[r]) \in Refusals \cup {200, -32000, -32603}
    BY DEF Reply, Refusals
  <2> HIDE DEF Refusals
  <2> QED
    BY <1>6, <2>1 DEF Record, Respond
<1>7. CASE Abandon(r)
  BY <1>7 DEF Abandon, historyVars
<1> QED
  BY <1>1, <1>2, <1>3, <1>4, <1>5, <1>6, <1>7 DEF CallStep

\* The calls, their answers and what was done for them are well typed (dispatch).
THEOREM CallsTyped == Spec => []CallTypes
<1>1. Init => CallTypes
  BY ClockAssumption DEF Init, CallTypes
<1>2. CallTypes /\ [Next]_vars => CallTypes'
  <2> SUFFICES ASSUME CallTypes, [Next]_vars PROVE CallTypes'
    OBVIOUS
  <2>1. CASE Tick
    BY <2>1 DEF Tick, CallTypes, metricVars, historyVars
  <2>2. CASE UNCHANGED vars
    BY <2>2 DEF vars, CallTypes, metricVars, historyVars
  <2> QED
    BY <2>1, <2>2, CallTypesStep DEF Next
<1> QED
  BY <1>1, <1>2, PTL DEF Spec

\* A call's step leaves the configuration, what callers send and every other call
\* alone, and a call is received once.
LEMMA OthersKeep ==
    ASSUME CallTypes, NEW r \in Request, CallStep(r)
    PROVE  /\ config' = config /\ query' = query /\ clock' = clock
           /\ \A s \in Request \ {r} : UNCHANGED Own(s)
           /\ pc[r] # "idle" => received'[r] = received[r]
<1> USE DEF CallTypes, Own
<1>1. CASE Receive(r)
  BY <1>1 DEF Receive, Respond, Proceed
<1>2. CASE Reserve(r)
  BY <1>2 DEF Reserve, Respond, Proceed
<1>3. CASE CheckCooldown(r)
  BY <1>3 DEF CheckCooldown, Respond, Proceed, historyVars
<1>4. CASE Call(r)
  BY <1>4 DEF Call, Proceed
<1>5. CASE Answered(r)
  BY <1>5 DEF Answered, Respond, Proceed
<1>6. CASE Record(r)
  BY <1>6 DEF Record, Respond
<1>7. CASE Abandon(r)
  BY <1>7 DEF Abandon, historyVars
<1> QED
  BY <1>1, <1>2, <1>3, <1>4, <1>5, <1>6, <1>7 DEF CallStep

-----------------------------------------------------------------------------
(* Entitlement.                                                            *)

\* What OnlyEntitledActs asks of a call that is acted on.
Good(r) ==
    /\ query[r].method \in Methods
    /\ WellFormed(query[r])
    /\ Enabled(r)
    /\ Entitled(r)

\* A call that passed the checks is good from then on.
GoodInv ==
    \A r \in Request :
        \/ pc[r] \notin {"idle", "done", "gone"}
        \/ asked[r] # "nobody"
        \/ spent[r]
        => Good(r) /\ pc[r] # "idle"

\* A token whose scope is enough has at least the rank that is needed.
LEMMA AllowsByRank ==
    ASSUME NEW s, NEW method, Allows(s, scope(method)), scope(method) # "base"
    PROVE  Rank[s] >= Rank[scope(method)]
<1>1. scope(method) \in {"common", "work", "control"}
  BY DEF scope
<1> QED
  BY <1>1 DEF Allows, Rank

\* When each check applies.
LEMMA ChecksApply ==
    ASSUME NEW q
    PROVE  /\ Checks(q)[1].when = (q.body = "batch")
           /\ Checks(q)[2].when = (q.body = "garbage")
           /\ Checks(q)[3].when = (q.body \in {"scalar", "mistyped"})
           /\ Checks(q)[4].when = ~q.envelope
           /\ Checks(q)[5].when = (q.id \in {"structured", "absent"})
           /\ Checks(q)[7].when = (q.method \notin Methods)
           /\ Checks(q)[8].when =
                (scope(q.method) = "work" /\ ~config.allow_work)
           /\ Checks(q)[9].when =
                (scope(q.method) = "control" /\ ~config.allow_control)
           /\ Checks(q)[10].when = (NeedsToken(q) /\ ~Authorized(q))
           /\ Checks(q)[11].when = ~q.params
           /\ Checks(q)[12].when = (q.method = "block_confirm" /\ ~q.hash)
  BY DEF Checks

\* A call that no check refuses is good at the time it is received.
LEMMA PassedIsGood ==
    ASSUME CallTypes, NEW r \in Request, Receive(r),
           Screened(query[r]) = Unanswered
    PROVE  Good(r)'
<1> DEFINE q == query[r]
<1>1. /\ ~Checks(q)[1].when /\ ~Checks(q)[3].when /\ ~Checks(q)[4].when
      /\ ~Checks(q)[2].when /\ ~Checks(q)[5].when /\ ~Checks(q)[7].when
      /\ ~Checks(q)[8].when /\ ~Checks(q)[9].when /\ ~Checks(q)[10].when
      /\ ~Checks(q)[11].when /\ ~Checks(q)[12].when
  BY ScreenedAnswers
<1>2. /\ q.body \in {"object", "batch", "garbage", "scalar", "mistyped"}
      /\ q.id \in {"simple", "absent", "structured"}
      /\ q.bearer.exp \in Nat \cup {NoExpiry, BadExpiry}
  BY QueryAssumption DEF CallTypes
<1>3. /\ config' = config /\ query' = query
      /\ received'[r] = clock /\ clock \in Nat
  BY DEF Receive, CallTypes
<1>4. /\ q.method \in Methods
      /\ WellFormed(q)
  <2>1. q.envelope /\ q.params /\ q.method \in Methods
    BY <1>1, ChecksApply, Zenon
  <2>2. q.method = "block_confirm" => q.hash
    BY <1>1, ChecksApply, Zenon
  <2>3. /\ q.body \notin {"batch", "garbage", "scalar", "mistyped"}
        /\ q.id \notin {"structured", "absent"}
    BY <1>1, ChecksApply, Zenon
  <2>4. q.body = "object" /\ q.id = "simple"
    BY <1>2, <2>3
  <2> QED
    BY <2>1, <2>2, <2>4, Zenon DEF WellFormed
<1>5. /\ ~(scope(q.method) = "work" /\ ~config.allow_work)
      /\ ~(scope(q.method) = "control" /\ ~config.allow_control)
      /\ ~(NeedsToken(q) /\ ~Authorized(q))
  BY <1>1, ChecksApply, Zenon
<1>6. Enabled(r)
  BY <1>5 DEF Enabled, scope
<1>7. Entitled(r)'
  <2>1. CASE ~NeedsToken(q)
    BY <1>3, <2>1 DEF NeedsToken, Entitled, Rank, scope
  <2>2. CASE NeedsToken(q)
    <3>1. Authorized(q) /\ scope(q.method) # "base"
      BY <1>5, <2>2 DEF NeedsToken
    <3>2. Rank[q.bearer.scope] >= Rank[scope(q.method)]
      BY <3>1, AllowsByRank DEF Authorized
    <3>3. /\ q.bearer.exp # BadExpiry
          /\ q.bearer.exp # NoExpiry => q.bearer.exp >= clock
      BY <1>2, <1>3, <3>1 DEF Authorized, Expired
    <3>4. config.verifying_key /\ q.bearer.genuine
      BY <3>1 DEF Authorized
    <3> QED
      BY <1>3, <3>2, <3>3, <3>4 DEF Entitled
  <2> QED
    BY <2>1, <2>2
<1> QED
  BY <1>3, <1>4, <1>6, <1>7 DEF Good, Enabled

\* A good call stays good.
LEMMA GoodStays ==
    ASSUME NEW s \in Request, Good(s), config' = config, query' = query,
           received'[s] = received[s]
    PROVE  Good(s)'
  BY DEF Good, Enabled, Entitled

\* A call's step keeps GoodInv: passing the checks is the only way on.
LEMMA GoodStep ==
    ASSUME CallTypes, GoodInv, NEW r \in Request, CallStep(r)
    PROVE  GoodInv'
<1> DEFINE Acts(s) == \/ pc[s] \notin {"idle", "done", "gone"}
                      \/ asked[s] # "nobody"
                      \/ spent[s]
<1>1. ASSUME NEW s \in Request \ {r}, Acts(s)'
      PROVE  Good(s)' /\ pc'[s] # "idle"
  <2>1. UNCHANGED Own(s) /\ config' = config /\ query' = query
    BY OthersKeep
  <2>2. Acts(s) /\ pc'[s] = pc[s] /\ received'[s] = received[s]
    BY <1>1, <2>1 DEF Own
  <2>3. Good(s) /\ pc[s] # "idle"
    BY <2>2 DEF GoodInv
  <2> QED
    BY <2>1, <2>2, <2>3, GoodStays
<1>2. ASSUME Acts(r)'
      PROVE  Good(r)' /\ pc'[r] # "idle"
  <2>1. CASE Receive(r)
    <3>1. pc'[r] # "idle"
      BY <2>1 DEF Receive, Respond, Proceed, CallTypes
    <3>2. Screened(query[r]) = Unanswered
      <4> SUFFICES ASSUME Screened(query[r]) # Unanswered PROVE FALSE
        OBVIOUS
      <4>1. pc'[r] = "done" /\ asked'[r] = asked[r] /\ spent'[r] = spent[r]
        BY <2>1 DEF Receive, Respond, CallTypes
      <4>2. pc[r] = "idle" /\ Acts(r)
        BY <1>2, <2>1, <4>1 DEF Receive
      <4> QED
        BY <4>2 DEF GoodInv
    <3> QED
      BY <2>1, <3>1, <3>2, PassedIsGood
  <2>2. CASE ~Receive(r)
    <3>1. pc[r] \notin {"idle", "done", "gone"} /\ pc'[r] # "idle"
      BY <2>2 DEF CallStep, Reserve, CheckCooldown, Call, Answered, Record,
                  Abandon, Respond, Proceed, CallTypes
    <3>2. config' = config /\ query' = query /\ received'[r] = received[r]
      BY <3>1, OthersKeep
    <3>3. Good(r)
      BY <3>1 DEF GoodInv
    <3> QED
      BY <3>1, <3>2, <3>3, GoodStays
  <2> QED
    BY <2>1, <2>2
<1> QED
  BY <1>1, <1>2 DEF GoodInv

\* Only entitled calls are acted on or charged, whatever callers send and however
\* calls, their ends and the clock interleave (dispatch, authorized).
THEOREM OnlyEntitledCallsAct == Spec => []OnlyEntitledActs
<1>1. Init => GoodInv
  BY DEF Init, GoodInv
<1>2. CallTypes /\ GoodInv /\ [Next]_vars => GoodInv'
  <2> SUFFICES ASSUME CallTypes, GoodInv, [Next]_vars PROVE GoodInv'
    OBVIOUS
  <2>1. CASE Tick \/ UNCHANGED vars
    <3>1. /\ config' = config /\ query' = query /\ received' = received
          /\ pc' = pc /\ asked' = asked /\ spent' = spent
      BY <2>1 DEF Tick, vars, historyVars
    <3> QED
      BY <3>1 DEF GoodInv, Good, Enabled, Entitled
  <2> QED
    BY <2>1, GoodStep DEF Next
<1>3. GoodInv => OnlyEntitledActs
  BY DEF GoodInv, Good, OnlyEntitledActs
<1> QED
  BY <1>1, <1>2, <1>3, CallsTyped, PTL DEF Spec

-----------------------------------------------------------------------------
(* Traces.                                                                 *)

\* What a call has cost and who was asked, at each place it can be.
TraceInv(r) ==
    /\ pc[r] \in {"idle", "reserving"} => ~spent[r]
    /\ pc[r] \in {"checking", "recording"} => spent[r]
    /\ pc[r] \in {"reserving", "checking"} =>
         query[r].method = "block_confirm"
    /\ pc[r] \in {"calling", "waiting"} =>
         (query[r].method = "block_confirm" => spent[r])
    /\ pc[r] \in {"idle", "reserving", "checking", "calling"} =>
         asked[r] = "nobody"
    /\ pc[r] \in {"idle", "reserving", "checking", "calling", "waiting"} =>
         outcome[r] = "none"
    /\ pc[r] = "recording" => outcome[r] \in {"accepted", "misshapen"}
    /\ pc[r] # "done" => ~recorded[r] /\ answer[r] = Unanswered
    /\ spent[r] => query[r].method = "block_confirm"

Refused(r) ==
    answer[r] \in {401, 403, 429, -32700, -32600, -32601, -32604}

\* What RefusalsLeaveNoTrace asks of a call that was answered.
DoneInv(r) ==
    pc[r] = "done" =>
        /\ Refused(r) => asked[r] = "nobody" /\ (spent[r] => answer[r] = 429)
        /\ recorded[r] <=> spent[r] /\ outcome[r] \in {"accepted", "misshapen"}

\* What became of a call once a node or another was asked is no refusal.
LEMMA RepliesAreNoRefusals ==
    ASSUME NEW o
    PROVE  Reply(o) \in {200, -32000, -32602, -32603}
  BY DEF Reply

\* A call's step keeps its trace (dispatch, guard).
LEMMA TraceStep ==
    ASSUME CallTypes, NEW r \in Request, TraceInv(r), DoneInv(r), CallStep(r)
    PROVE  TraceInv(r)' /\ DoneInv(r)'
<1> USE DEF CallTypes, TraceInv, DoneInv, Refused
<1>1. CASE Receive(r)
  <2>1. CASE /\ Screened(query[r]) # Unanswered
             /\ Respond(r, Screened(query[r]))
    <3>1. Screened(query[r]) \in Refusals \cup {200, Unanswered}
      BY ScreenedAnswers
    <3> HIDE DEF Refusals
    <3> QED
      BY <1>1, <2>1, <3>1 DEF Receive, Respond
  <2>2. CASE Proceed(r, IF query[r].method = "block_confirm"
                          THEN "reserving" ELSE "calling")
    BY <1>1, <2>2 DEF Receive, Proceed
  <2> QED
    BY <1>1, <2>1, <2>2 DEF Receive
<1>2. CASE Reserve(r)
  <2>1. CASE Proceed(r, "checking") /\ spent' = [spent EXCEPT ![r] = TRUE]
    BY <1>2, <2>1 DEF Reserve, Proceed
  <2>2. CASE Respond(r, 429) /\ UNCHANGED spent
    BY <1>2, <2>2 DEF Reserve, Respond
  <2> QED
    BY <1>2, <2>1, <2>2 DEF Reserve
<1>3. CASE CheckCooldown(r)
  <2>1. CASE Proceed(r, "calling")
    BY <1>3, <2>1 DEF CheckCooldown, Proceed, historyVars
  <2>2. CASE Respond(r, 429)
    BY <1>3, <2>2 DEF CheckCooldown, Respond, historyVars
  <2> QED
    BY <1>3, <2>1, <2>2 DEF CheckCooldown
<1>4. CASE Call(r)
  BY <1>4 DEF Call, Proceed
<1>5. CASE Answered(r)
  <2>1. PICK o \in Outcomes(asked[r]) :
          /\ outcome' = [outcome EXCEPT ![r] = o]
          /\ \/ Cools(query[r], o) /\ Proceed(r, "recording")
             \/ ~Cools(query[r], o) /\ Respond(r, Reply(o))
    BY ONLY <1>5, Zenon DEF Answered
  <2>2. pc[r] = "waiting" /\ UNCHANGED <<query, asked, spent, recorded>>
    BY <1>5 DEF Answered
  <2>3. CASE Cools(query[r], o) /\ Proceed(r, "recording")
    BY <2>1, <2>2, <2>3 DEF Cools, Proceed
  <2>4. CASE ~Cools(query[r], o) /\ Respond(r, Reply(o))
    BY <2>1, <2>2, <2>4, RepliesAreNoRefusals DEF Cools, Respond
  <2> QED
    BY <2>1, <2>3, <2>4
<1>6. CASE Record(r)
  BY <1>6, RepliesAreNoRefusals DEF Record, Respond
<1>7. CASE Abandon(r)
  BY <1>7 DEF Abandon, historyVars
<1> QED
  BY <1>1, <1>2, <1>3, <1>4, <1>5, <1>6, <1>7 DEF CallStep

\* A step that is another call's leaves the trace of a call alone.
LEMMA OwnKeepsTrace ==
    ASSUME NEW s \in Request, TraceInv(s), DoneInv(s), UNCHANGED Own(s)
    PROVE  TraceInv(s)' /\ DoneInv(s)'
  BY DEF Own, TraceInv, DoneInv, Refused

\* The traces hold at every moment, for every call.
THEOREM TracesHold == Spec => [](\A r \in Request : TraceInv(r) /\ DoneInv(r))
<1> DEFINE Inv == \A r \in Request : TraceInv(r) /\ DoneInv(r)
<1>1. Init => Inv
  BY DEF Init, TraceInv, DoneInv
<1>2. CallTypes /\ Inv /\ [Next]_vars => Inv'
  <2> SUFFICES ASSUME CallTypes, Inv, [Next]_vars PROVE Inv'
    OBVIOUS
  <2>1. CASE Tick \/ UNCHANGED vars
    <3>1. \A s \in Request : UNCHANGED Own(s)
      BY <2>1 DEF Tick, vars, historyVars, Own
    <3> QED
      BY <3>1, OwnKeepsTrace
  <2>2. ASSUME NEW r \in Request, CallStep(r) PROVE Inv'
    <3>1. TraceInv(r)' /\ DoneInv(r)'
      BY <2>2, TraceStep
    <3>2. \A s \in Request \ {r} : TraceInv(s)' /\ DoneInv(s)'
      BY <2>2, OthersKeep, OwnKeepsTrace
    <3> QED
      BY <3>1, <3>2
  <2> QED
    BY <2>1, <2>2 DEF Next
<1> QED
  BY <1>1, <1>2, CallsTyped, PTL DEF Spec

\* A refusal reached nobody and cost nothing but to the guards' own, and a hash
\* cools exactly if its call was accepted and recorded (lib.rs:390, 2546).
THEOREM RefusalsLeaveNone == Spec => []RefusalsLeaveNoTrace
<1>1. (\A r \in Request : TraceInv(r) /\ DoneInv(r)) => RefusalsLeaveNoTrace
  <2> SUFFICES ASSUME NEW r \in Request, TraceInv(r), DoneInv(r)
               PROVE  /\ Refused(r) => /\ asked[r] = "nobody"
                                       /\ spent[r] => answer[r] = 429
                      /\ recorded[r] <=>
                           /\ spent[r]
                           /\ pc[r] = "done"
                           /\ outcome[r] \in {"accepted", "misshapen"}
    BY DEF RefusalsLeaveNoTrace, Refused
  <2>1. CASE pc[r] = "done"
    BY <2>1 DEF DoneInv
  <2>2. CASE pc[r] # "done"
    BY <2>2 DEF TraceInv, Refused, Unanswered
  <2> QED
    BY <2>1, <2>2
<1> QED
  BY <1>1, TracesHold, PTL

-----------------------------------------------------------------------------
(* The metrics.                                                            *)

Begun == Request \ Those({"idle"})
Ended == Those({"done", "gone"})
Failed == {r \in Those({"done"}) : answer[r] # 200}

\* How many of the calls were begun, have ended and were told of an error.
LEMMA Counted ==
    ASSUME NEW r \in Request, NEW S \in SUBSET Request
    PROVE  /\ Cardinality(S) \in Nat
           /\ r \notin S => Cardinality(S \cup {r}) = Cardinality(S) + 1
<1>1. IsFiniteSet(S)
  BY RequestAssumption, FS_Subset
<1> QED
  BY <1>1, FS_CardinalityType, FS_AddElement

\* A step of a call is counted as what it is.
LEMMA MetricsStep ==
    ASSUME CallTypes, \A s \in Request : TraceInv(s), CountersAgree,
           NEW r \in Request, CallStep(r)
    PROVE  CountersAgree'
<1>1. \A s \in Request \ {r} : pc'[s] = pc[s] /\ answer'[s] = answer[s]
  BY OthersKeep DEF Own
<1>2. \/ Begun' = Begun /\ requests' = requests
      \/ /\ r \notin Begun /\ Begun' = Begun \cup {r}
         /\ requests' = requests + 1
  <2>1. CASE Receive(r)
    <3>1. pc[r] = "idle" /\ pc'[r] # "idle" /\ requests' = requests + 1
      BY <2>1 DEF Receive, Respond, Proceed, CallTypes
    <3> QED
      BY <1>1, <3>1 DEF Begun, Those
  <2>2. CASE ~Receive(r)
    <3>1. pc[r] # "idle" /\ pc'[r] # "idle" /\ requests' = requests
      BY <2>2 DEF CallStep, Reserve, CheckCooldown, Call, Answered, Record,
                  Abandon, Respond, Proceed, CallTypes
    <3> QED
      BY <1>1, <3>1 DEF Begun, Those
  <2> QED
    BY <2>1, <2>2
<1>3. pc[r] \notin {"done", "gone"}
  BY DEF CallStep, Receive, Reserve, CheckCooldown, Call, Answered, Record,
         Abandon
<1>4. \/ /\ pc'[r] \notin {"done", "gone"}
         /\ durations' = durations /\ errors' = errors
      \/ /\ pc'[r] = "gone"
         /\ durations' = durations + 1 /\ errors' = errors
      \/ /\ pc'[r] = "done" /\ durations' = durations + 1
         /\ errors' = errors + (IF answer'[r] = 200 THEN 0 ELSE 1)
  <2>1. CASE \E a : Respond(r, a)
    BY <2>1 DEF Respond, CallTypes
  <2>2. CASE \E where \in {"reserving", "checking", "calling", "waiting",
                           "recording"} : Proceed(r, where)
    BY <2>2 DEF Proceed, CallTypes
  <2>3. CASE Abandon(r)
    BY <2>3 DEF Abandon, CallTypes
  <2> QED
    BY <2>1, <2>2, <2>3 DEF CallStep, Receive, Reserve, CheckCooldown, Call,
                            Answered, Record
<1>5. r \notin Ended /\ r \notin Failed
  BY <1>3 DEF Ended, Failed, Those
<1>6. \/ Ended' = Ended /\ durations' = durations
      \/ Ended' = Ended \cup {r} /\ durations' = durations + 1
  BY <1>1, <1>3, <1>4 DEF Ended, Those
<1>7. \/ Failed' = Failed /\ errors' = errors
      \/ Failed' = Failed \cup {r} /\ errors' = errors + 1
  <2>1. errors \in Nat
    BY Counted DEF CountersAgree, Those
  <2>2. CASE pc'[r] # "done" \/ answer'[r] = 200
    BY <1>1, <1>3, <1>4, <2>1, <2>2 DEF Failed, Those
  <2>3. CASE pc'[r] = "done" /\ answer'[r] # 200
    BY <1>1, <1>3, <1>4, <2>3 DEF Failed, Those
  <2> QED
    BY <2>2, <2>3
<1>8. Begun \in SUBSET Request /\ Ended \in SUBSET Request
      /\ Failed \in SUBSET Request
  BY DEF Begun, Ended, Failed, Those
<1>9. /\ requests = Cardinality(Begun)
      /\ durations = Cardinality(Ended)
      /\ errors = Cardinality(Failed)
  BY DEF CountersAgree, Begun, Ended, Failed
<1>10. requests' = Cardinality(Begun')
  BY <1>2, <1>8, <1>9, Counted
<1>11. durations' = Cardinality(Ended')
  BY <1>5, <1>6, <1>8, <1>9, Counted
<1>12. errors' = Cardinality(Failed')
  BY <1>5, <1>7, <1>8, <1>9, Counted
<1> QED
  BY <1>10, <1>11, <1>12 DEF CountersAgree, Begun, Ended, Failed

\* The metrics agree with the calls at every moment, however many there are and
\* whichever way each of them ends (rpc_handler, RequestMetricsGuard).
THEOREM MetricsAgree == Spec => []CountersAgree
<1>1. Init => CountersAgree
  <2> SUFFICES ASSUME Init PROVE CountersAgree
    OBVIOUS
  <2>1. Begun = {} /\ Ended = {} /\ Failed = {}
    BY DEF Init, Begun, Ended, Failed, Those
  <2> QED
    BY <2>1, FS_EmptySet DEF Init, CountersAgree, Begun, Ended, Failed
<1>2. /\ CallTypes
      /\ \A r \in Request : TraceInv(r) /\ DoneInv(r)
      /\ CountersAgree
      /\ [Next]_vars
      => CountersAgree'
  <2> SUFFICES ASSUME CallTypes, \A r \in Request : TraceInv(r), CountersAgree,
                      [Next]_vars
               PROVE  CountersAgree'
    OBVIOUS
  <2>1. CASE Tick \/ UNCHANGED vars
    BY <2>1 DEF Tick, vars, metricVars, CountersAgree, Those
  <2> QED
    BY <2>1, MetricsStep DEF Next
<1> QED
  BY <1>1, <1>2, CallsTyped, TracesHold, PTL DEF Spec

-----------------------------------------------------------------------------
(* The whole state.                                                        *)

\* No call is received after the clock stopped.
InTime ==
    /\ clock \in 0 .. MaxClock
    /\ received \in [Request -> 0 .. MaxClock]

\* Every step keeps to the clock.
LEMMA InTimeStep ==
    ASSUME InTime, [Next]_vars
    PROVE  InTime'
<1> USE ClockAssumption DEF InTime
<1>1. CASE Tick
  BY <1>1 DEF Tick, historyVars
<1>2. ASSUME NEW r \in Request, CallStep(r) PROVE InTime'
  <2>1. clock' = clock
    BY <1>2 DEF CallStep, Receive, Reserve, CheckCooldown, Call, Answered,
                Record, Abandon
  <2>2. received' = received \/ received' = [received EXCEPT ![r] = clock]
    BY <1>2 DEF CallStep, Receive, Reserve, CheckCooldown, Call, Answered,
                Record, Abandon, historyVars
  <2> QED
    BY <2>1, <2>2
<1>3. CASE UNCHANGED vars
  BY <1>3 DEF vars, historyVars
<1> QED
  BY <1>1, <1>2, <1>3 DEF Next

\* No set of calls is larger than all of them.
LEMMA NoMoreThanAll ==
    ASSUME NEW S \in SUBSET Request
    PROVE  Cardinality(S) \in 0 .. Cardinality(Request)
<1>1. IsFiniteSet(S) /\ Cardinality(S) <= Cardinality(Request)
  BY RequestAssumption, FS_Subset
<1> QED
  BY <1>1, RequestAssumption, FS_CardinalityType

\* The state of the calls and of the metrics is well typed: no counter passes
\* the number of calls (rpc_handler, Metrics).
THEOREM TypeCorrect == Spec => []TypeOK
<1>1. Init => InTime
  BY ClockAssumption DEF Init, InTime
<1>2. Spec => []InTime
  BY <1>1, InTimeStep, PTL DEF Spec
<1>3. CallTypes /\ InTime /\ CountersAgree => TypeOK
  <2> SUFFICES ASSUME CallTypes, InTime, CountersAgree PROVE TypeOK
    OBVIOUS
  <2>1. /\ requests \in 0 .. Cardinality(Request)
        /\ durations \in 0 .. Cardinality(Request)
        /\ errors \in 0 .. Cardinality(Request)
    BY NoMoreThanAll DEF CountersAgree, Those
  <2>2. answer \in [Request -> {Unanswered, 200, 401, 403, 429, -32700, -32600,
                               -32601, -32602, -32603, -32604, -32000}]
    BY DEF CallTypes, Refusals
  <2> QED
    BY <2>1, <2>2 DEF CallTypes, InTime, TypeOK
<1> QED
  BY <1>2, <1>3, CallsTyped, MetricsAgree, PTL
=============================================================================
