------------------------------ MODULE WorkJobs ------------------------------
(***************************************************************************)
(* Work generation and its cancellation: generate_local_work, the guards   *)
(* LocalWorkJobGuard and RemoteWorkJobGuard, and the work_generate and     *)
(* work_cancel arms of dispatch (src/src/lib.rs).                          *)
(*                                                                         *)
(* A local job lives in two places: the request's future, which the client *)
(* can drop at any await, and a blocking task, which goes on until it      *)
(* finds work or sees its token cancelled.  The slot's permit moves from   *)
(* the first to the second.  Between two statements of a request another   *)
(* thread can run, so taking the permit, registering the job, and freeing  *)
(* the one and the other are separate steps.                               *)
(*                                                                         *)
(* Peers are outside, and reached through a NativeRouter of their own: a   *)
(* call goes to the active one and, where that fails, on to the next that  *)
(* was not cooling down when the call began; a peer that was given up may  *)
(* work on.  The router's steps are atomic here and cooldowns end at any   *)
(* time; module NativeRouter has them in detail.                           *)
(***************************************************************************)
EXTENDS Integers, FiniteSets, Sequences

CONSTANTS
    Job,        \* work_generate requests, one element per request
    Cancel,     \* work_cancel requests, one element per request
    Hash,       \* work roots, in upper case (hash_key, work_hash)
    Nobody,     \* what local_work_jobs holds for a hash without a job
    Provider,   \* Config.work_provider: "local" or "remote"
    Peers       \* how many work_peer_urls there are

ASSUME DisjointAssumption == Job \cap Cancel = {}
ASSUME NobodyAssumption == Nobody \notin Job
ASSUME ProviderAssumption == Provider \in {"local", "remote"}
ASSUME PeersAssumption == Peers \in Nat \ {0}

VARIABLES
    permits,           \* local_work_slots: a semaphore of one
    local_work_jobs,   \* the job whose token is registered, for each hash
    remote_work_jobs,  \* hashes with a remote job
    pc,                \* where each request's future is
    hash,              \* its hash parameter
    task,              \* its blocking task: "none", "running", "freed", "ended"
    found,             \* what generate_with_cancel returns to that task
    token,             \* whether the job's CancelToken is cancelled
    result,            \* what the caller got
    active,            \* NativeRouter.active of work_peers
    cooling,           \* the peers whose unhealthy_until is not over
    round,             \* the peers each call has left, the one it is at first
    at,                \* the peers that work on each job
    cpc,               \* where each work_cancel is
    target,            \* its hash parameter
    before             \* history: jobs under way when a work_cancel began

tableVars == <<local_work_jobs, remote_work_jobs>>
jobVars == <<pc, hash, task, found, token, result>>
routerVars == <<active, cooling, round>>
peerVars == <<routerVars, at>>
cancelVars == <<cpc, target, before>>
outerVars == <<peerVars, cancelVars>>
vars == <<permits, tableVars, jobVars, peerVars, cancelVars>>

Peer == 0 .. Peers - 1
Request == Job \cup Cancel

Init ==
    /\ permits = 1
    /\ local_work_jobs = [h \in Hash |-> Nobody]
    /\ remote_work_jobs = {}
    /\ pc = [j \in Job |-> "new"]
    /\ hash \in [Job -> Hash]
    /\ task = [j \in Job |-> "none"]
    /\ found = [j \in Job |-> "nothing"]
    /\ token = [j \in Job |-> FALSE]
    /\ result = [j \in Job |-> "none"]
    /\ cpc = [c \in Cancel |-> "new"]
    /\ target \in [Cancel -> Hash]
    /\ active = 0
    /\ cooling = {}
    /\ round = [r \in Request |-> <<>>]
    /\ at = [j \in Job |-> {}]
    /\ before = [c \in Cancel |-> {}]

Goto(j, where) == pc' = [pc EXCEPT ![j] = where]
Answer(j, value) == result' = [result EXCEPT ![j] = value]
Frees == permits' = permits + 1

-----------------------------------------------------------------------------
(* Local generation.                                                       *)

\* try_acquire_owned: the slot, or "local work generator is busy".
AcquireSlot(j) ==
    /\ pc[j] = "new"
    /\ Provider = "local"
    /\ IF permits > 0
         THEN /\ permits' = permits - 1
              /\ Goto(j, "holding")
              /\ UNCHANGED result
         ELSE /\ Goto(j, "ended")
              /\ Answer(j, "busy")
              /\ UNCHANGED permits
    /\ UNCHANGED <<tableVars, hash, task, found, token, outerVars>>

\* Mutant of MayRegister: insert replaces the hash's entry.
RegisterAnyway(j) == TRUE
\* Whether a job may be registered: none is, for its hash.
MayRegister(j) == local_work_jobs[hash[j]] = Nobody

\* Mutant of Register: a refused request forgets that it holds the permit.
RegisterOrLeak(j) ==
    /\ pc[j] = "holding"
    /\ IF MayRegister(j)
         THEN /\ local_work_jobs' = [local_work_jobs EXCEPT ![hash[j]] = j]
              /\ Goto(j, "starting")
              /\ UNCHANGED result
         ELSE /\ Goto(j, "ended")
              /\ Answer(j, "duplicate")
              /\ UNCHANGED local_work_jobs
    /\ UNCHANGED <<permits, remote_work_jobs, hash, task, found, token,
                   outerVars>>
\* Under the lock of local_work_jobs: registered, or refused because the hash
\* still has a job; the refused request gives the permit back when it returns.
Register(j) ==
    /\ pc[j] = "holding"
    /\ IF MayRegister(j)
         THEN /\ local_work_jobs' = [local_work_jobs EXCEPT ![hash[j]] = j]
              /\ Goto(j, "starting")
              /\ UNCHANGED result
         ELSE /\ Goto(j, "releasing")
              /\ Answer(j, "duplicate")
              /\ UNCHANGED local_work_jobs
    /\ UNCHANGED <<permits, remote_work_jobs, hash, task, found, token,
                   outerVars>>

\* The generator is there: the permit moves into the blocking task.
Spawn(j) ==
    /\ pc[j] = "starting"
    /\ task' = [task EXCEPT ![j] = "running"]
    /\ Goto(j, "waiting")
    /\ UNCHANGED <<permits, tableVars, hash, found, token, result, outerVars>>

\* The generator cannot be set up: the future ends with the permit still its own.
InitFails(j) ==
    /\ pc[j] = "starting"
    /\ Answer(j, "failed")
    /\ Goto(j, "unregistering")
    /\ UNCHANGED <<permits, tableVars, hash, task, found, token, outerVars>>

\* generate_with_cancel returns (or panics) and the closure drops the permit.
TaskEnds(j, outcome) ==
    /\ task[j] = "running"
    /\ outcome = "nothing" => token[j]
    /\ task' = [task EXCEPT ![j] = "freed"]
    /\ found' = [found EXCEPT ![j] = outcome]
    /\ Frees
    /\ UNCHANGED <<tableVars, pc, hash, token, result, outerVars>>

\* Then its JoinHandle completes.
TaskJoins(j) ==
    /\ task[j] = "freed"
    /\ task' = [task EXCEPT ![j] = "ended"]
    /\ UNCHANGED <<permits, tableVars, pc, hash, found, token, result, outerVars>>

\* The caller's future sees the task's result before its timeout.
Collect(j) ==
    /\ pc[j] = "waiting"
    /\ task[j] = "ended"
    /\ Answer(j, IF found[j] = "nothing" THEN "cancelled" ELSE found[j])
    /\ Goto(j, "unregistering")
    /\ UNCHANGED <<permits, tableVars, hash, task, found, token, outerVars>>

\* local_work_timeout_ms is over: the token is cancelled.
TimeOut(j) ==
    /\ pc[j] = "waiting"
    /\ task[j] # "ended"
    /\ token' = [token EXCEPT ![j] = TRUE]
    /\ Answer(j, "timed_out")
    /\ Goto(j, "unregistering")
    /\ UNCHANGED <<permits, tableVars, hash, task, found, outerVars>>

\* The client goes away: the future is dropped at one of its awaits.
Disconnect(j) ==
    /\ pc[j] \in {"starting", "waiting"}
    /\ Answer(j, "gone")
    /\ Goto(j, "unregistering")
    /\ UNCHANGED <<permits, tableVars, hash, task, found, token, outerVars>>

\* Mutant of CancelOwnToken: the guard only removes the entry.
LeaveToken(j) == token
\* What LocalWorkJobGuard::drop does to the tokens.
CancelOwnToken(j) == [token EXCEPT ![j] = TRUE]

\* LocalWorkJobGuard::drop cancels and removes, by hash; a permit the future
\* still holds is dropped after it.
Unregister(j) ==
    /\ pc[j] = "unregistering"
    /\ token' = CancelOwnToken(j)
    /\ local_work_jobs' = [local_work_jobs EXCEPT ![hash[j]] = Nobody]
    /\ Goto(j, IF task[j] = "none" THEN "releasing" ELSE "ended")
    /\ UNCHANGED <<permits, remote_work_jobs, hash, task, found, result,
                   outerVars>>

ReleaseSlot(j) ==
    /\ pc[j] = "releasing"
    /\ Frees
    /\ Goto(j, "ended")
    /\ UNCHANGED <<tableVars, hash, task, found, token, result, outerVars>>

-----------------------------------------------------------------------------
(* Remote generation.                                                      *)

\* The peers a call visits, as it finds them when it begins.
Round == SelectSeq([i \in 1 .. Peers |-> (active + i - 1) % Peers],
                   LAMBDA p : p \notin cooling)
AtFirst(peers) == IF peers = <<>> THEN {} ELSE {Head(peers)}

Begin(r) == round' = [round EXCEPT ![r] = Round]

\* The peer fails a call, be it by a timeout in the middle of it.
MarkUnhealthy(r) ==
    /\ round[r] # <<>>
    /\ cooling' = cooling \cup {Head(round[r])}
    /\ active' = (Head(round[r]) + 1) % Peers
    /\ round' = [round EXCEPT ![r] = Tail(@)]

\* It answers.
Settle(r) ==
    /\ round[r] # <<>>
    /\ active' = Head(round[r])
    /\ UNCHANGED <<cooling, round>>

CoolsOff(p) ==
    /\ p \in cooling
    /\ cooling' = cooling \ {p}
    /\ UNCHANGED <<permits, tableVars, jobVars, active, round, at, cancelVars>>

\* The provider is remote, or the request selects peers or a threshold that the
\* node derives: its hash is noted and work_peers called.
CallPeers(j) ==
    /\ pc[j] = "new"
    /\ remote_work_jobs' = remote_work_jobs \cup {hash[j]}
    /\ Begin(j)
    /\ at' = [at EXCEPT ![j] = AtFirst(Round)]
    /\ Goto(j, "remote")
    /\ UNCHANGED <<permits, local_work_jobs, hash, task, found, token, result,
                   active, cooling, cancelVars>>

\* The router turns to the next peer, if there is one.
FailOver(j) ==
    /\ pc[j] = "remote"
    /\ MarkUnhealthy(j)
    /\ at' = [at EXCEPT ![j] = @ \cup AtFirst(Tail(round[j]))]
    /\ UNCHANGED <<permits, tableVars, jobVars, cancelVars>>

\* RemoteWorkJobGuard::drop removes the hash, whoever else is at it.
LeaveRemote(j, value) ==
    /\ pc[j] = "remote"
    /\ remote_work_jobs' = remote_work_jobs \ {hash[j]}
    /\ Goto(j, "ended")
    /\ Answer(j, value)
    /\ UNCHANGED <<permits, local_work_jobs, hash, task, found, token, cancelVars>>

PeerAnswers(j) ==
    /\ LeaveRemote(j, "work")
    /\ Settle(j)
    /\ at' = [at EXCEPT ![j] = @ \ {Head(round[j])}]

\* No peer is left, or one refuses the call for good: it is over its rate limit
\* and cools down, rejects the call, or answers nonsense and may be still at it.
PeersFail(j) ==
    /\ LeaveRemote(j, "failed")
    /\ \/ round[j] = <<>> /\ UNCHANGED peerVars
       \/ /\ MarkUnhealthy(j)
          /\ at' = [at EXCEPT ![j] = @ \ {Head(round[j])}]
       \/ /\ round[j] # <<>>
          /\ at' \in {at, [at EXCEPT ![j] = @ \ {Head(round[j])}]}
          /\ UNCHANGED routerVars

DisconnectRemote(j) ==
    /\ LeaveRemote(j, "gone")
    /\ UNCHANGED peerVars

\* A peer is through with a request, whether or not anyone waits for it.
PeerEnds(j) ==
    /\ \E p \in at[j] : at' = [at EXCEPT ![j] = @ \ {p}]
    /\ UNCHANGED <<permits, tableVars, jobVars, routerVars, cancelVars>>

-----------------------------------------------------------------------------
(* work_cancel.                                                            *)

\* A peer works on a job, and the job's caller waits for that peer.
Served(j) ==
    /\ pc[j] = "remote"
    /\ AtFirst(round[j]) \cap at[j] # {}
\* What a work_cancel is meant to stop: jobs for its hash that are under way.
Under(h) == {j \in Job : hash[j] = h /\ (Served(j) \/ task[j] = "running")}

\* The remote provider forwards; the local one looks for a remote job first.
LookUp(c) ==
    /\ cpc[c] = "new"
    /\ before' = [before EXCEPT ![c] = Under(target[c])]
    /\ IF Provider = "remote" \/ target[c] \in remote_work_jobs
         THEN /\ cpc' = [cpc EXCEPT ![c] = "forwarding"]
              /\ Begin(c)
         ELSE /\ cpc' = [cpc EXCEPT ![c] = "local"]
              /\ UNCHANGED round
    /\ UNCHANGED <<permits, tableVars, jobVars, active, cooling, at, target>>

\* What is left at the peers when one of them took a work_cancel.
Without(c, p) == [j \in Job |-> IF hash[j] = target[c] THEN at[j] \ {p} ELSE at[j]]

\* The first peer to answer stops what it has for the hash, and no other is asked.
Forward(c) ==
    /\ cpc[c] = "forwarding"
    /\ Settle(c)
    /\ at' = Without(c, Head(round[c]))
    /\ cpc' = [cpc EXCEPT ![c] = "success"]
    /\ UNCHANGED <<permits, tableVars, jobVars, target, before>>

\* A peer fails, before or after it acted on the call.
ForwardOn(c) ==
    /\ cpc[c] = "forwarding"
    /\ MarkUnhealthy(c)
    /\ at' \in {at, Without(c, Head(round[c]))}
    /\ UNCHANGED <<permits, tableVars, jobVars, cancelVars>>

\* No peer is left, one refuses the call for good, or the client goes away.
ForwardFails(c) ==
    /\ cpc[c] = "forwarding"
    /\ cpc' = [cpc EXCEPT ![c] = "failed"]
    /\ UNCHANGED <<permits, tableVars, jobVars, peerVars, target, before>>

\* The jobs whose token a work_cancel for hash h cancels.
Reached(h) == {j \in Job : local_work_jobs[h] = j}

\* Under the lock of local_work_jobs; {"success": ""} whether a job is there.
CancelLocal(c) ==
    /\ cpc[c] = "local"
    /\ token' = [j \in Job |-> token[j] \/ j \in Reached(target[c])]
    /\ cpc' = [cpc EXCEPT ![c] = "success"]
    /\ UNCHANGED <<permits, tableVars, pc, hash, task, found, result, peerVars,
                   target, before>>

-----------------------------------------------------------------------------
\* What the runtime does for a request without its client's help.
FutureStep(j) ==
    \/ AcquireSlot(j)
    \/ Register(j)
    \/ Spawn(j)
    \/ InitFails(j)
    \/ Collect(j)
    \/ TimeOut(j)
    \/ Unregister(j)
    \/ ReleaseSlot(j)
    \/ CallPeers(j)
    \/ FailOver(j)
    \/ PeerAnswers(j)
    \/ PeersFail(j)

TaskStep(j) ==
    \/ \E outcome \in {"work", "failed", "nothing"} : TaskEnds(j, outcome)
    \/ TaskJoins(j)

CancelStep(c) ==
    \/ LookUp(c)
    \/ Forward(c)
    \/ ForwardOn(c)
    \/ ForwardFails(c)
    \/ CancelLocal(c)

Next ==
    \/ \E j \in Job :
          \/ FutureStep(j)
          \/ Disconnect(j)
          \/ DisconnectRemote(j)
          \/ TaskStep(j)
          \/ PeerEnds(j)
    \/ \E c \in Cancel : CancelStep(c)
    \/ \E p \in Peer : CoolsOff(p)

Spec == Init /\ [][Next]_vars

\* A future is polled until it ends (the timeout and the peers' client bound
\* every await), and a generator whose token is cancelled looks at it.  Nothing
\* is assumed of one whose token is not: it may search for ever.
FairSpec ==
    /\ Spec
    /\ \A j \in Job :
          /\ WF_vars(pc[j] # "new" /\ FutureStep(j))
          /\ WF_vars(token[j] /\ TaskStep(j))
          /\ WF_vars(TaskJoins(j))

-----------------------------------------------------------------------------
(* Properties.                                                             *)

\* The types of the work state of AppState and of the requests (AppState,
\* LocalWorkJobGuard, RemoteWorkJobGuard).
TypeOK ==
    /\ permits \in Nat
    /\ local_work_jobs \in [Hash -> Job \cup {Nobody}]
    /\ remote_work_jobs \in SUBSET Hash
    /\ pc \in [Job -> {"new", "holding", "starting", "waiting", "unregistering",
                       "releasing", "remote", "ended"}]
    /\ hash \in [Job -> Hash]
    /\ task \in [Job -> {"none", "running", "freed", "ended"}]
    /\ found \in [Job -> {"nothing", "work", "failed"}]
    /\ token \in [Job -> BOOLEAN]
    /\ result \in [Job -> {"none", "busy", "duplicate", "failed", "work",
                           "cancelled", "timed_out", "gone"}]
    /\ cpc \in [Cancel -> {"new", "local", "forwarding", "success", "failed"}]
    /\ target \in [Cancel -> Hash]
    /\ active \in Peer
    /\ cooling \in SUBSET Peer
    /\ round \in [Request -> Seq(Peer)]
    /\ at \in [Job -> SUBSET Peer]
    /\ before \in [Cancel -> SUBSET Job]

\* Whether a request's future, rather than its task, holds the permit.
FutureHolds(j) ==
    \/ pc[j] \in {"holding", "starting", "releasing"}
    \/ pc[j] = "unregistering" /\ task[j] = "none"

Holders == {j \in Job : FutureHolds(j) \/ task[j] = "running"}

\* The one slot is free or held by exactly one job, its future or its task:
\* whichever way requests end, it is neither lost nor given out twice, so at
\* most one generator runs.
SlotAccounted == permits + Cardinality(Holders) = 1

Registered(j) == pc[j] \in {"starting", "waiting", "unregistering"}

\* A hash has an entry exactly while the future that registered it lives: no
\* guard removes another job's entry although it removes by hash, and none is
\* left behind to refuse the hash for ever.
EntriesOwned ==
    \A h \in Hash : \A j \in Job :
        local_work_jobs[h] = j <=> (Registered(j) /\ hash[j] = h)

\* A generator that runs can be reached by work_cancel, or was told to stop:
\* none is orphaned, whether its caller timed out or went away.
RunningIsCancellable ==
    \A j \in Job : task[j] = "running" => local_work_jobs[hash[j]] = j \/ token[j]

\* The slot always comes back, even when every caller leaves or times out.
SlotComesBack == permits = 0 ~> permits = 1

\* lib.rs:655: work_cancel is described to "Stop generating work for a block".
\* When it reports success, no job for its hash that was under way when it was
\* taken up goes on, be it at the peer its caller waits for or with a token that
\* was not cancelled.
SuccessStopsWork ==
    [][\A c \in Cancel : cpc[c] # "success" /\ cpc'[c] = "success" =>
          \A j \in before[c] :
              ~Served(j)' /\ (task[j] = "running" => token'[j])]_vars
=============================================================================
