------------------------------ MODULE Dispatch ------------------------------
(***************************************************************************)
(* A call to /rpc: rpc_handler, dispatch, guard, authorized and            *)
(* verify_paseto, and the request metrics (src/src/lib.rs).                *)
(*                                                                         *)
(* Everything up to the operator guards runs without an await, so it is    *)
(* one step: the first check that applies answers the call.  From there on *)
(* a call can be overtaken by others, and abandoned by its client.  What   *)
(* the guards, the nodes and the work generator answer is left open here   *)
(* (modules ConfirmGuards, NativeRouter and WorkJobs say what they do).    *)
(*                                                                         *)
(* Answers are numbers: 200 is a JSON-RPC result, a negative one the code  *)
(* of a JSON-RPC error, any other the status of a transport rejection.     *)
(***************************************************************************)
EXTENDS Integers, FiniteSets, FiniteSetsExt

CONSTANTS
    Request,    \* calls, each made once
    Query,      \* what callers may send
    Setting,    \* the configurations the gateway may run under
    NoExpiry,   \* exp of a token without one
    BadExpiry,  \* exp of a token whose exp is no timestamp
    MaxClock    \* bound: how far the clock goes, in seconds

ASSUME ClockAssumption == MaxClock \in Nat
ASSUME RequestAssumption == IsFiniteSet(Request)
\* The kinds of bodies, ids and expiries that are told apart.
ASSUME QueryAssumption ==
    \A q \in Query :
        /\ q.body \in {"object", "batch", "garbage", "scalar", "mistyped"}
        /\ q.id \in {"simple", "absent", "structured"}
        /\ q.bearer.exp \in Nat \cup {NoExpiry, BadExpiry}
ASSUME SettingAssumption ==
    Setting \subseteq [allow_work : BOOLEAN, allow_control : BOOLEAN,
                       require_common_auth : BOOLEAN,
                       enable_discovery : BOOLEAN, verifying_key : BOOLEAN,
                       work_provider : {"local", "remote"}]

VARIABLES
    config,    \* AppState.config
    clock,     \* SystemTime::now(), in whole seconds
    pc,        \* where each call is
    query,     \* what its caller sends
    answer,    \* what its caller was told, or Unanswered
    requests, errors, durations,  \* Metrics
    received,  \* history: the time each call was received
    asked,     \* history: who was asked to act on it
    outcome,   \* history: what that one answered
    spent,     \* history: it took a token of the block_confirm budget
    recorded   \* history: its hash was put into the cooldown cache

metricVars == <<requests, errors, durations>>
historyVars == <<received, asked, outcome, spent, recorded>>
vars == <<config, clock, pc, query, answer, metricVars, historyVars>>

Unanswered == 0
Reads == {"version"}  \* stands for every method of scope Base but block_confirm
Methods == Reads \cup {"block_confirm", "process", "work_generate",
                       "work_cancel"}

Init ==
    /\ config \in Setting
    /\ clock = 0
    /\ pc = [r \in Request |-> "idle"]
    /\ query \in [Request -> Query]
    /\ answer = [r \in Request |-> Unanswered]
    /\ requests = 0
    /\ errors = 0
    /\ durations = 0
    /\ received = [r \in Request |-> 0]
    /\ asked = [r \in Request |-> "nobody"]
    /\ outcome = [r \in Request |-> "none"]
    /\ spent = [r \in Request |-> FALSE]
    /\ recorded = [r \in Request |-> FALSE]

-----------------------------------------------------------------------------
(* Authorization.                                                          *)

\* registry: the scope of each method.
scope(method) ==
    CASE method = "process" -> "common"
      [] method = "work_generate" -> "work"
      [] method = "work_cancel" -> "control"
      [] OTHER -> "base"

\* Mutant of Allows: every genuine token opens the work methods.
AllowsWorkToAll(token_scope, needed) ==
    \/ needed = "base"
    \/ needed = "common" /\ token_scope \in {"common", "work", "control"}
    \/ needed = "work" /\ token_scope \in {"common", "work", "control"}
    \/ needed = "control" /\ token_scope = "control"

\* Which scopes a token's scope claim opens.
Allows(token_scope, needed) ==
    \/ needed = "base"
    \/ needed = "common" /\ token_scope \in {"common", "work", "control"}
    \/ needed = "work" /\ token_scope \in {"work", "control"}
    \/ needed = "control" /\ token_scope = "control"

Expired(token) ==
    \/ token.exp = BadExpiry
    \/ token.exp \notin {NoExpiry, BadExpiry} /\ token.exp < clock

\* A bearer token whose format, signature and audience are in order, not
\* expired, and of a scope that is enough.
Authorized(q) ==
    /\ config.verifying_key
    /\ q.bearer.genuine
    /\ ~Expired(q.bearer)
    /\ Allows(q.bearer.scope, scope(q.method))

NeedsToken(q) ==
    \/ scope(q.method) \in {"work", "control"}
    \/ scope(q.method) = "common" /\ config.require_common_auth

-----------------------------------------------------------------------------
(* Receiving a call.                                                       *)

\* The checks of rpc_handler and dispatch, in their order: when each applies,
\* and what it answers.
Checks(q) ==
  << [when |-> q.body = "batch", answer |-> -32600],
     [when |-> q.body = "garbage", answer |-> -32700],
     [when |-> q.body \in {"scalar", "mistyped"}, answer |-> -32600],
     [when |-> ~q.envelope, answer |-> -32600],
     [when |-> q.id \in {"structured", "absent"}, answer |-> -32600],
     [when |-> q.method = "rpc.discover",
      answer |-> IF config.enable_discovery THEN 200 ELSE -32601],
     [when |-> q.method \notin Methods, answer |-> -32601],
     [when |-> scope(q.method) = "work" /\ ~config.allow_work,
      answer |-> -32604],
     [when |-> scope(q.method) = "control" /\ ~config.allow_control,
      answer |-> -32604],
     [when |-> NeedsToken(q) /\ ~Authorized(q), answer |-> 401],
     [when |-> ~q.params, answer |-> -32602],
     [when |-> q.method = "block_confirm" /\ ~q.hash, answer |-> 403] >>

\* The answer of the first check that applies, if one does.
Screened(q) ==
    LET hits == {i \in DOMAIN Checks(q) : Checks(q)[i].when}
    IN  IF hits = {} THEN Unanswered ELSE Checks(q)[Min(hits)].answer

\* Mutant of Respond: only JSON-RPC errors are counted.
RespondUncounted(r, a) ==
    /\ answer' = [answer EXCEPT ![r] = a]
    /\ pc' = [pc EXCEPT ![r] = "done"]
    /\ errors' = errors + (IF a < 0 THEN 1 ELSE 0)
    /\ durations' = durations + 1

\* The handler returns: errors of both kinds count, and its guard is dropped.
Respond(r, a) ==
    /\ answer' = [answer EXCEPT ![r] = a]
    /\ pc' = [pc EXCEPT ![r] = "done"]
    /\ errors' = errors + (IF a = 200 THEN 0 ELSE 1)
    /\ durations' = durations + 1

Proceed(r, where) ==
    /\ pc' = [pc EXCEPT ![r] = where]
    /\ UNCHANGED <<answer, errors, durations>>

\* rpc_handler up to the first await.
Receive(r) ==
    /\ pc[r] = "idle"
    /\ received' = [received EXCEPT ![r] = clock]
    /\ requests' = requests + 1
    /\ LET screened == Screened(query[r])
       IN  \/ screened # Unanswered /\ Respond(r, screened)
           \/ /\ screened = Unanswered
              /\ Proceed(r, IF query[r].method = "block_confirm"
                              THEN "reserving" ELSE "calling")
    /\ UNCHANGED <<config, clock, query, asked, outcome, spent, recorded>>

-----------------------------------------------------------------------------
(* The operator guards of block_confirm.                                   *)

\* reserve takes a token, or the call is refused.
Reserve(r) ==
    /\ pc[r] = "reserving"
    /\ \/ /\ spent' = [spent EXCEPT ![r] = TRUE]
          /\ Proceed(r, "checking")
       \/ /\ Respond(r, 429)
          /\ UNCHANGED spent
    /\ UNCHANGED <<config, clock, query, requests, received, asked, outcome,
                   recorded>>

\* Mutant of CheckCooldown: the cooldown is looked at once the node was asked.
CheckAfterCall(r) ==
    /\ pc[r] = "checking"
    /\ asked' = [asked EXCEPT ![r] = "node"]
    /\ Proceed(r, "calling") \/ Respond(r, 429)
    /\ UNCHANGED <<config, clock, query, requests, received, outcome, spent,
                   recorded>>

\* check_cooldown lets the call pass, or it is refused.
CheckCooldown(r) ==
    /\ pc[r] = "checking"
    /\ Proceed(r, "calling") \/ Respond(r, 429)
    /\ UNCHANGED <<config, clock, query, requests, historyVars>>

-----------------------------------------------------------------------------
(* The call itself.                                                        *)

\* Who may act on the call.  A work_cancel under the local provider goes to the
\* peers or to the gateway's own jobs, as its table of remote hashes says.
Routes(q) ==
    CASE q.method = "work_generate" ->
           IF config.work_provider = "remote" \/ q.peers
             THEN {"peers"} ELSE {"generator"}
      [] q.method = "work_cancel" ->
           IF config.work_provider = "local" THEN {"peers", "jobs"}
                                             ELSE {"peers"}
      [] OTHER -> {"node"}

Outcomes(route) ==
    CASE route \in {"node", "peers"} ->
           {"accepted", "misshapen", "rejected", "rate_limited", "upstream",
            "unavailable", "transport"}
      [] route = "generator" ->
           {"accepted", "invalid", "unavailable", "upstream", "cancelled"}
      [] route = "jobs" -> {"accepted"}

Call(r) ==
    /\ pc[r] = "calling"
    /\ \E route \in Routes(query[r]) : asked' = [asked EXCEPT ![r] = route]
    /\ Proceed(r, "waiting")
    /\ UNCHANGED <<config, clock, query, requests, received, outcome, spent,
                   recorded>>

\* What dispatch makes of a result or of a GatewayError.  A cancelled local job
\* is reported as NodeRejected.
Reply(o) ==
    CASE o = "accepted" -> 200
      [] o \in {"rejected", "rate_limited", "cancelled"} -> -32000
      [] o = "invalid" -> -32602
      [] OTHER -> -32603

\* A result, in whichever shape, starts the cooldown of a block_confirm.
Cools(q, o) == q.method = "block_confirm" /\ o \in {"accepted", "misshapen"}

Answered(r) ==
    /\ pc[r] = "waiting"
    /\ \E o \in Outcomes(asked[r]) :
          /\ outcome' = [outcome EXCEPT ![r] = o]
          /\ \/ Cools(query[r], o) /\ Proceed(r, "recording")
             \/ ~Cools(query[r], o) /\ Respond(r, Reply(o))
    /\ UNCHANGED <<config, clock, query, requests, received, asked, spent,
                   recorded>>

\* record_accepted, before the shape of the result is looked at.
Record(r) ==
    /\ pc[r] = "recording"
    /\ recorded' = [recorded EXCEPT ![r] = TRUE]
    /\ Respond(r, Reply(outcome[r]))
    /\ UNCHANGED <<config, clock, query, requests, received, asked, outcome,
                   spent>>

\* The client goes away at an await: only the guard is dropped.
Abandon(r) ==
    /\ pc[r] \notin {"idle", "done", "gone"}
    /\ pc' = [pc EXCEPT ![r] = "gone"]
    /\ durations' = durations + 1
    /\ UNCHANGED <<config, clock, query, answer, requests, errors, historyVars>>

Tick ==
    /\ clock < MaxClock
    /\ clock' = clock + 1
    /\ UNCHANGED <<config, pc, query, answer, metricVars, historyVars>>

-----------------------------------------------------------------------------
CallStep(r) ==
    \/ Receive(r)
    \/ Reserve(r)
    \/ CheckCooldown(r)
    \/ Call(r)
    \/ Answered(r)
    \/ Record(r)
    \/ Abandon(r)

Next == (\E r \in Request : CallStep(r)) \/ Tick

Spec == Init /\ [][Next]_vars

-----------------------------------------------------------------------------
(* Properties.                                                             *)

\* The types of the calls, of what they were answered and of the metrics: no
\* counter passes the number of calls (rpc_handler, Metrics).
TypeOK ==
    /\ config \in Setting
    /\ clock \in 0 .. MaxClock
    /\ pc \in [Request -> {"idle", "reserving", "checking", "calling",
                           "waiting", "recording", "done", "gone"}]
    /\ query \in [Request -> Query]
    /\ answer \in [Request -> {Unanswered, 200, 401, 403, 429, -32700, -32600,
                               -32601, -32602, -32603, -32604, -32000}]
    /\ requests \in 0 .. Cardinality(Request)
    /\ errors \in 0 .. Cardinality(Request)
    /\ durations \in 0 .. Cardinality(Request)
    /\ received \in [Request -> 0 .. MaxClock]
    /\ asked \in [Request -> {"nobody", "node", "peers", "generator", "jobs"}]
    /\ outcome \in [Request -> {"none", "accepted", "misshapen", "rejected",
                                "rate_limited", "upstream", "unavailable",
                                "transport", "invalid", "cancelled"}]
    /\ spent \in [Request -> BOOLEAN]
    /\ recorded \in [Request -> BOOLEAN]

\* Scopes are ordered: a token opens what its scope and every lesser one opens.
Rank == [base |-> 0, none |-> 0, common |-> 1, work |-> 2, control |-> 3]

\* What a call's method asks of its token, and whether the token the caller sent
\* was good for it when the call was received.
Entitled(r) ==
    LET q == query[r]
        token == q.bearer
        needed == IF q.method = "process" /\ ~config.require_common_auth
                    THEN 0 ELSE Rank[scope(q.method)]
    IN  \/ needed = 0
        \/ /\ config.verifying_key /\ token.genuine
           /\ token.exp # BadExpiry
           /\ token.exp # NoExpiry => token.exp >= received[r]
           /\ Rank[token.scope] >= needed

Enabled(r) ==
    /\ query[r].method = "work_generate" => config.allow_work
    /\ query[r].method = "work_cancel" => config.allow_control

WellFormed(q) ==
    /\ q.body = "object" /\ q.envelope /\ q.id = "simple" /\ q.params
    /\ q.method = "block_confirm" => q.hash

\* Nobody is asked to act on a call, and none takes from the block_confirm
\* budget, unless it is well formed, its method enabled, and its caller entitled
\* to it by the order of the scopes when it was received (dispatch).
OnlyEntitledActs ==
    \A r \in Request :
        asked[r] # "nobody" \/ spent[r] =>
            query[r].method \in Methods /\ WellFormed(query[r])
                /\ Enabled(r) /\ Entitled(r)

\* lib.rs:390: "A rejection that never reached the node".  A call that is
\* refused by the transport, or for what it asks, was put to nobody, and only the
\* guards' own refusals may have cost a token.  lib.rs:2546: "Only a hash the
\* node accepted starts a cooldown", also when its caller is not told a result.
RefusalsLeaveNoTrace ==
    \A r \in Request :
        /\ answer[r] \in {401, 403, 429, -32700, -32600, -32601, -32604} =>
              /\ asked[r] = "nobody"
              /\ spent[r] => answer[r] = 429
        /\ recorded[r] <=> /\ spent[r]
                           /\ pc[r] = "done"
                           /\ outcome[r] \in {"accepted", "misshapen"}

Those(where) == {r \in Request : pc[r] \in where}

\* The request metrics agree with the calls at every moment, whichever way each
\* of them ended: every call is counted once, its duration once when it is over,
\* and it is an error exactly if its caller was told of one.
CountersAgree ==
    /\ requests = Cardinality(Request \ Those({"idle"}))
    /\ durations = Cardinality(Those({"done", "gone"}))
    /\ errors = Cardinality({r \in Those({"done"}) : answer[r] # 200})
=============================================================================
