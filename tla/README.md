# Verification of nano-rpc-gateway

TLA+ modules, model-checking instances and machine-checked proofs for the
gateway in `src/`. The gateway is a Rust sidecar in front of Nano nodes: it
accepts JSON-RPC 2.0 over HTTP and forwards each call to one of several nodes,
keeps one WebSocket subscription to a node's confirmations, and fans those
confirmations out to SSE clients.

Line numbers below are those of `src/src/lib.rs` unless another file is named.

## 1. Inventory

| Part | State it keeps | Operations | Model |
|---|---|---|---|
| Event hub and SSE streams (1848-1982, 2226-2241, 3589-3711) | `current` session behind a watch channel, `next_generation`, per session a broadcast ring and a cancellation token, per stream a receiver and a guard, `active_streams` | `start_session`, lease drop, lease `publish`, `EventHub::publish`, `subscribe`, the generator of `sse_handler` | `EventHub`, promise: `ConfirmationFeed` |
| WebSocket bridge and supervisor (2259-2273, 2363-2367, 3718-3914, `main.rs` 176-221) | `ws_active`, `ws_unhealthy_until`, `upstream_seen`, `upstream_reconnects`, heartbeat, deadline, `awaiting_pong` | select an endpoint, connect, subscribe, stream, time out, mark unhealthy, sleep, shut down | `WsBridge` |
| Native router and client (1451-1591, 1692-1817) | `active`, `unhealthy_until` | `call`, `mark_unhealthy`, classification of errors | `NativeRouter` |
| `block_confirm` guards (1984-2111, 2613-2628) | token bucket (`tokens`, `last_refill`), cooldown cache | `reserve`, `check_cooldown`, `record_accepted`, `evict` | `ConfirmGuards` |
| Work generation (2194-2222, 2275-2361, 2482-2539) | one-permit semaphore, map of local jobs, set of remote hashes, cancel tokens | `work_generate` (local, remote), `work_cancel`, the guards' drops | `WorkJobs` |
| Decoding and dispatch (2398-2628, 3213-3280) | request metrics | the checks in their order, the guards, routing, answers | `Dispatch` |
| Stream options (3308-3611, 3923-3939) | the options of each stream | read from a query or a body, normalize a frame, match, project | `StreamFilter`; `Interest` of `EventHub` stands for it |
| PASETO (2629-2643, 3941-4019) | none | verify scope, expiry, audience | `Dispatch` |
| Configuration (101-339) | none after start-up | `load` with `.env` and variables, `validate`, `AppState::new`, `gateway_url` | `Configuration`, `Contract` |
| OpenRPC document (519-1450) | none | build the document; follow the references to its schemas; add what the configuration allows | `Schemas`, `Contract` |
| Parameter and result validation (2645-3180) | none | `validate_params`, `normalize_work_generate_result`, `validate_result` | `Validation`, `Contract` |
| Fault relay (`examples/ws_fault_relay.rs`) | `paused`, the current circuit's token, one task per connection | `pause`, `resume`, `relay` | `FaultRelay` |
| AsyncAPI document, HTTP pages, CLI, build information, scripts, clients | none of interest | I/O and constants | not modelled |

How they interact. `serve` spawns the supervisor, which runs one bridge at a
time. A bridge holds a session lease of the hub while its subscription is
acknowledged and publishes each confirmation through it. `/readyz` and
`/events` read the hub's current session. `/rpc` calls run concurrently through
`dispatch`: `guard` refuses `block_confirm` calls, work calls go to the local
generator or to the router over the work peers, everything else goes to the
router over the nodes. The document that `rpc.discover` returns is built once,
from the registry and the configuration, and says of each call what dispatch is
to accept and answer. The fault relay stands between a bridge and its node when an
outage is rehearsed. Everything shared is behind a mutex, a watch channel or
an atomic, so what is hard is what happens *between* two critical sections.

What makes each part correct, and what is hard to test about it, is the list of
hazards in `PROJECT.json`, each at its line and with the properties that cover
it. In short:

* hub: an old lease's drop must not retire a newer session; a lost session's
  streams close, without draining what is buffered and without a hole for the
  slow; the gauge survives every way a stream ends;
* bridge: readiness follows the acknowledged subscription exactly; a mute or
  dead upstream is dropped in bounded time; failed endpoints rest; a working
  endpoint is found; shutdown works at every await;
* router: snapshots and indexes grow stale under concurrent calls, yet a call
  visits each node at most once and gives up only when none is left;
* guards: clock readings taken before a lock, a check and a record with the
  node's answer in between;
* dispatch: a call that is refused, at whichever check, reached nobody and cost
  nothing; the metrics agree with the calls also when clients leave;
* stream options: two readers of one set of options, a filter that needs what the
  projection takes away, two spellings of one account;
* contract: the document, the checks of parameters and of results, and the
  switches of dispatch are written down apart and must agree; a configuration
  comes from a file, the environment and `.env` in one order;
* fault relay: two writes per order against tasks at any stage, so that an outage
  is one, and ends;
* work: a blocking task outlives its future, which must not lose the slot, leave
  the task unreachable or remove another job's entry.

## 2. Modules

### ConfirmationFeed (abstract)

What a subscriber is promised. A stream belongs to the session that was live
when it opened, is given that session's matching events in order and without a
gap from its registration on, and once the session is no longer live at most
one more. It knows nothing of rings, tokens, leases or generators.

### EventHub

| Model | Code |
|---|---|
| `AllocateSession`, `InstallSession` | the two halves of `start_session`: generation and channel, then `send_modify` |
| `DropLease`, `CurrentAfterDrop` | `ConfirmationSessionLease::drop` with its `ptr_eq` test |
| `LeasePublishCheck`, `LeasePublishSend` | the lease's `publish`: token test, send |
| `HubPublish` | `EventHub::publish` under the read guard |
| `Subscribe` (`Bind`), `SubscribeUnavailable` | `sse_handler` up to the generator, `EventHub::subscribe` |
| `FirstPoll`, `PollCancelled`, `RecvPending`, `RecvEvent`, `RecvLagged` | the generator; the biased `select!` is one poll of the token and one of the receiver |
| `ClientDisconnect`, `Close` | dropping the body; `ActiveStreamGuard::drop` |

`ring[g]` is everything session `g` carried; the broadcast channel holds its
last `Capacity` entries, so a receiver lags when more than that is unread. A
confirmation is abstracted to its `Kind`: what the streams' filters tell apart.
Keepalive comments are left out: they carry no event. `late` and `from` are
history variables.

### WsBridge

One process: supervisor and bridge. Timers count down in ticks, and `Tick` is
disabled while a timer is due, which is the assumption that the executor runs a
task in the tick in which its timer fires. `Stop` may come at any point, as
the `select!` of `main.rs` allows. A session's end and the marking of the
endpoint are two steps (`BridgeEnds`, `MarkUnhealthy`) because the lease goes
with the async block, before `mark_ws_unhealthy`. A send on the socket
completes at once: only one ping is ever outstanding, and the socket takes that
much without waiting for its peer. `rest`, `silence` and `unanswered` measure the code's timers by
independent counters.

### NativeRouter

Any number of concurrent calls; reading the active index, copying the
cooldowns, each attempt, and the two writes of `mark_unhealthy` are separate
steps. The six `Outcome`s are the classes `call_with_response_logging` and the
router tell apart. A caller may leave at any await.

### ConfirmGuards

Each request is a sequence of critical sections, each acting on a clock reading
(`now`) taken before its lock. Credit is counted in units of a tick's refill,
so fractions of a token are exact. A `Hash` is the text as it was written,
since the cache compares strings. `recorded`, `grants` and `drift` are history.
A second acceptance of a hash that is still held does not restart its cooldown,
as in the code; a hash trimmed for want of room loses it, which
`AcceptedHashCools` allows.

### WorkJobs

A job is a future (`pc`) and a blocking task (`task`); the permit moves from the
first to the second at `Spawn`. Dropping the permit and completing the join
handle are two steps, and so are ending a future and its guard's removal. Each
job is one request. A remote job makes a round over the peers as the router has
it (`Round`, `FailOver`, `PeerAnswers`, `PeersFail`), and a peer that was given
up may work on (`at`). A forwarded `work_cancel` makes a round of its own
(`Forward`, `ForwardOn`): it is done at the first peer that answers. The router's
steps are atomic here and cooldowns end at any time, which `NativeRouter` has in
detail; whether a peer stops when it is told to is the peer's affair.

### Dispatch

One call per `Request`. `Receive` is everything `rpc_handler` and `dispatch` do
before their first await: `Checks` lists the checks in the order of the code,
each with what it answers, and the first that applies decides (`Screened`).
`Reserve` and `CheckCooldown` are the two awaits of `guard`, `Call` and
`Answered` the call to a node, the peers or the generator, `Record` the await of
`record_accepted`; `Respond` is the handler's return with the counting of errors
and the drop of `RequestMetricsGuard`, `Abandon` the drop alone. What guards,
nodes and generator answer is left open: `ConfirmGuards`, `NativeRouter` and
`WorkJobs` say when they answer what. A call carries the verdicts of the shape
checks (`params`, `hash`, `genuine`) instead of JSON. `version` stands for every
read of scope Base, and `process` for the two methods of scope Common.

### StreamFilter

One subscriber: `Subscribe` is `sse_handler` with `from_query` (`QueryRefused`,
`QueryOptions`) or `from_object` (`BodyRefused`, `BodyOptions`), `Deliver` the
way of one frame through `normalize_confirmation`, `matches` and `project`. The
properties compare what is sent with the *request*, not with the options parsed
from it, so they span reading, matching and projecting. An account is its prefix,
its key and whether blanks surround it, as those are what `trim`, `is_empty` and
`accounts_equal` look at; names and JSON types that are refused whatever else
is sent are one flag (`valid`), and so is a query over its byte limit (`long`).
Sessions, lag and closing are `EventHub`'s.

### Schemas, Validation, Configuration and Contract

`Schemas` has the published contract (`Registry`, `component_schemas`,
`References`), `Validation` what the gateway enforces (`validate_params`,
`normalize_work_generate_result`, `validate_result`), both over the `Kind`s of
JSON values that either of them tells apart. A string is `apt` when it has the
form that is asked for in its place, and `digits` when it is a decimal number
beyond `u64`; numbers are told apart by sign, by whether they are whole and by
what holds them (`i64`, `u64` only, a float), as serde_json reads them. Parameters
are of a kind each; a result is a value with its entries, and theirs, so that
schema and validator each have a say of their own on what is inside a map.
`validate_fields` is the part of `validate_result` that looks at no entries,
which is all there is of it where it calls itself. `Configuration` has the way from a source (file,
environment, `.env`) to an `AppState`, over classes of URLs and keys. They are
operators; `@@` is written out in `Schemas`, as the provers have no rule for
TLC's. `Contract` is the machine that uses them: `Start` is `serve` up to the state
it shares, `Describe`, `Follow` and `Publish` build the document, one step per
schema that is taken from the set of pending names in no particular order, `Send`
is a call up to the node and `Answered` the way of an answer back to its caller.
`Declined` is the local generator's word on a hash or difficulty that is none;
which provider does the work is left open, so it may say so of any such call.
What `Dispatch` leaves open as the attributes `params` and `hash` of a call is
computed here. Of `authorized` this module has the missing key (`Granted`) and the
scope of a token; whether a token is `genuine` stays an attribute in `Dispatch`,
and so do expiry, the guards' budget and concurrency.

### FaultRelay

`Order` is a request to the control port; `StorePaused`, `CancelCircuit`,
`ReplaceCircuit` and `StoreResumed` are the two writes of `pause` and of
`resume`. A connection clones the current token (`Accept`) before its handshake
asks for the flag, and looks at the token in the two biased `select!`s
(`CutOff`), but not while a message is sent inside a branch (`Forward`). Tokens
are numbers in the order in which `resume` makes them. `orphaned` is history: a
second `resume` in a row replaces a token that nobody cancelled. Its names differ
from those of `WsBridge`, so that one module can hold the proofs about both.

The modules named `MC...` only give instances and symmetry sets. Definitions
commented as mutants are deliberately wrong variants of the definition that
follows them; each property of a passing run fails with at least one of them in
place of the original, which `PROJECT.json` lists.

## 3. Runs

| Run | Bounds | Shows |
|---|---|---|
| `EventHub` | 1 stream, 2 sessions, 2 kinds, ring of 1, 2 events per session, fair | `TypeOK`, `RetiredMeansCancelled`, `NoGap`, `AtMostOneLate`, `ActiveStreamsExact`, `OnlyOwnLeaseRetires`, refinement of `ConfirmationFeed`, `LostStreamsClose`, `WantedEventArrives` |
| `WsBridge` | 3 endpoints of which the last may recover, ticks of about 4 s, one reconnect counted, fair | `ReadyMeansStreaming`, `SilenceBounded`, `PingsAnswered`, `EndpointsRest`, `SettlesOnReliable`, `ShutdownStops` |
| `NativeRouter` | 2 callers, 2 nodes, cooldown of 1 in 2 ticks, fair | `GivesUpOnlyAfterAll`, `CoolingOnlyAskedByOlderCalls`, `CallsEnd` |
| `ConfirmGuards` | 2 requests, 3 hashes, capacity 1, burst 2, ttl 2, 3 ticks | `CreditConserved`, `CacheBounded`, `AcceptedHashCools` |
| `ConfirmGuardsRate` | 1 hash, burst 1 | violation of `RateBounded` |
| `WorkJobs` | 2 jobs, 2 hashes, 1 cancel, 1 peer, fair | `SlotAccounted`, `EntriesOwned`, `RunningIsCancellable`, `SlotComesBack` |
| `WorkJobsCancel` | 2 jobs, 1 hash, 1 cancel, 2 peers | violation of `SuccessStopsWork` |
| `Dispatch` | 2 calls of 36 kinds, 4 configurations, 2 seconds | `OnlyEntitledActs`, `RefusalsLeaveNoTrace`, `CountersAgree` |
| `StreamFilter` | 12 lists of accounts, 8 classification filters, 4 values per flag, by GET and POST; 49 frames; limits 2 and 3 | `DeliveredExactly`, `ProjectionKeepsMatch`, `AskedIsServed` |
| `Contract` | starts, calls and answers that are right but for one thing | `StartsSound`, `DocumentClosed`, `AdvertisedIsServed`, `ParametersAgree`, `RequiredFieldsKept`, `WorkIsForItsHash` |
| `ContractAsync` | the same | violation of `StartedIsAnswered` |
| `FaultRelay` | 2 connections, 4 orders, fair | `ResumedServes`, `OutageIsDark`, `CutCircuitsEnd` |

Only the `TypeOK` of `EventHub` is checked in a run. The others document what the
variables hold and are the first step of the proofs.

Why these bounds are enough to be interesting. Two sessions let a second one
replace, follow or overtake the first (a third adds no new relation between
two leases). A ring of one with two events lets a stream keep up, fall behind
and be overtaken; the one event a session may still have buffered when it ends,
together with one whose send was already past the token test, is what
`AtMostOneLate` is about. The safety part of the hub is proved for every ring
and every number of streams and sessions, so a larger instance would add
nothing to it. The bridge's ticks keep the order of the code's durations (15 s cooldown
and heartbeat are 4, the 30 s deadline 8, the 5 s timeouts and the 2 s sleep 1).
Three quick failures then leave every endpoint cooling, while three slow ones
take longer than a cooldown, so that only the rotation reaches the third. Two callers are
enough for each to move the index, mark or recover a node between any two steps
of the other, and two ticks for a cooldown to begin and end meanwhile. Two
requests in the guards are enough for a stale clock reading; three hashes are
one more than a cache of one can hold with its transient extra entry, and three
ticks let an entry expire and its hash be accepted again. Two jobs let one
linger as a task while the other finds the slot taken, or free again with the
first one's entry still there; one peer is enough for the properties of
`WorkJobs`, which are about local jobs, and `WorkJobsCancel` needs the second.
Four orders allow a pause, its repetition, a resume and its repetition in every
order, and two connections are a circuit of before an outage and one that comes
during it. The sources, calls and answers of `Contract` start from a good one and
take away, add or change a single value, for every field, method and kind of
value, so that each check is the one that decides; what an answer holds in maps is
varied in the same way, with one entry and with one beside another. Some of the
configurations have a key and some have none. Each exception that `Refused`,
`Narrowed`, `Tolerated`, `ReceivableKept` and `EntriesKept` make is needed: the run
fails without it. The calls of `Dispatch` are right but for one
thing, so that each check is the one that decides, with tokens of every scope,
without expiry, with an expiry that passes and with none that can be read; two
of them are enough for one to be abandoned or answered while the other waits.
The lists of `StreamFilter` hold each way to write an account, none, and one more
than each of the limits 2 and 3, which stand for 110 and 15 000.
Bounds on clocks, calls, events and generations
cap what would otherwise grow for ever; `CHECK_DEADLOCK FALSE` is set because a
system that reached those bounds, or was shut down, stops.

Symmetry is used only for the two requests of `ConfirmGuards` and of `Dispatch`,
which differ in name alone, and in no run with a liveness property.

### What the violation runs say

* **The bucket's clock goes backwards** (`ConfirmGuardsRate`). `reserve` reads the
  clock before the lock and stores the reading unconditionally; a late holder of an
  early reading makes the next call earn the same time twice. `CreditConserved`
  states what does hold: the excess is exactly how far `last_refill` went back.
* **A successful `work_cancel` may leave a job running** (`WorkJobsCancel`). It is
  done with the first peer that answers, while the job may have failed over to
  another; a remote job for the same hash hides the local one; and two remote
  jobs share one entry of the set, which the first to end removes.
* **A process call with `async` that succeeds is answered as an error**
  (`ContractAsync`). The schema (1203) and `schema/parity-matrix.json:416` say that
  its result is `started`; `validate_result` (2985) wants a hash.

Seen while modelling, and plain from the code without a run:

* `overflow_resets` is exported (3198) and never written, though
  `OPERATIONS.md:8-10` lists it.
* A 5xx or 429 answer is failed over for every method (1547, 1805), so two nodes
  may act on one call.
* The cancellation of a local job is the gateway's message and is reported under
  `NODE_ERROR_CODE` (2341), which 380-381 reserve for the node's own errors.
* An unknown classification is dropped by every filter but `all` (3363), though
  the comment of `accepts` (3354-3356) says that one is kept.
* The cooldown compares hashes as they were written (2058), so the other case of a
  digit makes another hash.
* The comment of `from_query` says that a JSON array is accepted in the query,
  but it is split at its commas like any other text, so its accounts keep their
  brackets and quotes and match nothing. A flag sent as the string `"true"` is
  accepted and has no effect, and `all_local_accounts` never has one.
* A gateway without `auth_public_key` lists `process`, and the work and control
  methods if they are enabled, with the token they require, and answers 401 to
  every token (2630-2632).
* The schemas and the validators differ, on purpose or by accident. Refused although
  the schema allows it (`Narrowed`): a `count` beyond `u64`, as digits or as a
  number, and one written as a float (2709-2715; the test at 4732 wants the digits
  refused); an `offset` or `min_version` that is negative, beyond `i64` or written
  as a float (2761); an empty `threshold` and an empty `account_filter`; a hash
  for `block_confirm` that is not 64 digits (403, not -32602), and a hash or a
  `difficulty` that the local generator cannot read. Accepted although the schema
  does not allow it: a flag or `head` that is any string (the comment at 2722-2723
  says that `head` is checked for 64 digits).
* Of results, these pass although the schema does not allow them (`Tolerated`,
  `ReceivableKept`, `EntriesKept`): a Boolean `confirmed`, in `block_info` and in
  each entry of `blocks_info`; any entries in a history; receivable blocks that
  are the empty string, that mix the two shapes of map, or that are an empty map,
  which is of two shapes where `oneOf` wants one, for `receivable` and for each
  account of `accounts_receivable`; any string as verdict of `work_validate`;
  malformed balances beside well formed errors, and the other way round. A result
  of `process` with both `hash` and `started` passes too and is of both shapes.
  Fields that a schema does not require are not looked at otherwise. The other way
  round, `accounts_balances` without either map is allowed by its schema and
  refused; `block_info` requires `contents`, and most required strings must not be
  empty, although the schemas say neither. `additionalProperties: false` of
  `EmptyParams` is not enforced.
* Placeholders are expanded in the comments of the YAML file too, so a comment can
  keep the gateway from starting.
* A connection of the fault relay that is accepted during an outage can be upgraded
  after the resume and is then dropped at once, as its token is the cancelled one;
  and a circuit whose token a repeated resume replaced is not cut by later pauses.

### Fairness

`EventHub`: weak fairness of polling each stream; nothing is assumed of clients
(a disconnect closes the stream, and a client that stops reading is not being
polled, which the liveness properties exclude by this assumption), publishers or
leases. `WsBridge`: weak fairness of every step the executor or a timer drives,
of time, and of the pongs and confirmations of a `Reliable` endpoint that has
recovered, at the latest possible moment; whether and when one recovers is left
open, and other endpoints owe nothing. `NativeRouter`: a call that can go
on does; attempts resolve because the client has a ten second timeout; the lock
is tokio's fair mutex. `WorkJobs`: futures are polled, and a generator whose token
is cancelled looks at it; a generator whose token is *not* cancelled may search
for ever, so only the code's own timeout brings the slot back. `FaultRelay`: a
handler that was started runs on, a task whose token was cancelled is polled, and
a peer takes the message that is being sent to it; handshakes, upstreams and
messages may never come.

## 4. Proofs

Each theorem holds for every value of the constants, under the named assumptions
of its module.

| Module | Theorem | Property |
|---|---|---|
| `EventHubProofs` | `TypeCorrect` | `TypeOK` |
| | `RetiredIsCancelled`, `OwnLeaseRetires` | `RetiredMeansCancelled`, `OnlyOwnLeaseRetires` |
| | `ReadyIsLeased` | `ReadyMeansLeased` (part of the inductive invariant, in no run of its own) |
| | `LostSessionIsNotDrained` | `AtMostOneLate` |
| | `NothingSkipped` | `NoGap` |
| | `GaugeIsExact` | `ActiveStreamsExact` |
| | `HubImplementsFeed` | `ImplementsFeed` |
| `WsBridgeProofs` | `ReadyIsStreaming` | `ReadyMeansStreaming` |
| | `SilenceIsBounded`, `PingsAreAnswered` | `SilenceBounded`, `PingsAnswered` |
| | `EndpointsDoRest` | `EndpointsRest` |
| | `TypeCorrect` | `TypeOK` |
| `NativeRouterProofs` | `GivesUpAfterAll` | `GivesUpOnlyAfterAll` |
| | `CoolingIsAvoided` | `CoolingOnlyAskedByOlderCalls` |
| `ConfirmGuardsProofs` | `CreditIsConserved` | `CreditConserved` |
| | `CacheIsBounded` | `CacheBounded` |
| | `AcceptedCools` | `AcceptedHashCools` |
| `WorkJobsProofs` | `EntriesAreOwned` | `EntriesOwned` |
| | `RunningIsReachable` | `RunningIsCancellable` |
| | `SlotIsAccounted` | `SlotAccounted` |
| `DispatchProofs` | `OnlyEntitledCallsAct` | `OnlyEntitledActs` |
| | `RefusalsLeaveNone` | `RefusalsLeaveNoTrace` |
| | `MetricsAgree` | `CountersAgree` |
| | `TypeCorrect` | `TypeOK` |
| `StreamFilterProofs` | `DeliveryIsExact` | `DeliveredExactly` |
| | `ProjectionMatches` | `ProjectionKeepsMatch` |
| | `PartsAreServed` | `AskedIsServed` |
| `ContractProofs` | `StartIsSound` | `StartsSound` |
| | `DocumentIsClosed` | `DocumentClosed` |
| | `ListedIsServed` | `AdvertisedIsServed` |
| | `DocumentAgrees` | `ParametersAgree` |
| | `FieldsAreKept` | `RequiredFieldsKept` |
| | `WorkNamesItsHash` | `WorkIsForItsHash` |
| `WsBridgeProofs`, of `FaultRelay` | `RelayInvariant` | the inductive invariant of the two that follow |
| | `ResumeServes`, `PausedIsDark` | `ResumedServes`, `OutageIsDark` |

**EventHub.** The assumptions: filters are sets of kinds, the capacity is
positive, `Stream` is finite (needed for the gauge only), the bounds are natural
numbers. `SessionInv` strengthens the two session properties with what a
session's phase says of the generation counter: generations not yet allocated
are unborn, allocated ones are not current, so `InstallSession` always installs a
session that was never cancelled. `BindingInv` says that a stream which is open
is bound to a session that has begun, and that its cursor lies between its
registration and the end of that session's ring; `RecvEvent` then extends what
was delivered by exactly one position, which is `NoGap`. `LateInv` says that a
stream which is not past the token poll can have been given nothing late unless
its session is cancelled, and that after one late event the next token poll
closes it; `AtMostOneLate` is not inductive without it. `GaugeInv` is the gauge
together with the finiteness of the set of open streams. The refinement maps
`live` to `current`, `feed` to `ring` and a stream's `status` to its program
counter; `DropLease` of a replaced session, the polls and lag-free receives
that match nothing are stuttering steps, and `NoGap` and `AtMostOneLate` give
the guards of `Deliver`.

**WsBridge.** Every bounded wait is a countdown of the code and a counter of the
model that says how long the wait has been. `SessionInv` says that the two add
up (`silence + deadline = Deadline`, `unanswered + beat = Heartbeat` while a
pong is awaited), and that the lease is held exactly while the bridge streams;
`RestInv` that an endpoint's rest and what is left of its cooldown are at least
the cooldown, except for the one about to be marked. `TypeOK` is inductive. The
durations are any positive numbers.

**NativeRouter.** `Around...` are facts about positions modulo the number of
nodes: the positions of a round are one-to-one and onto. `RoundInv` says that
what a call has asked is what its round has covered so far without what it
skips, each once; at the end of the round that is every node but the skipped
ones. It holds from the index the call read first, whatever others do to
`active`. `KnowsInv` relates the copy of the cooldowns to the marks made since.

**ConfirmGuards.** `CreditConserved` is inductive: a refill adds at most the time
from `last_refill` to the reading, and the reading plus what the clock was set
back is `last_refill` plus what it was set forward. `Evicted` says what every
eviction is: the first `k` entries go, which expired, then `m` more, which are too
many. From that follow `CacheBounded` and `CoolInv`: a hash that was recorded and
not trimmed is in the cache with its time, or its cooldown is over, because no
reading of the clock is ahead of it.

**WorkJobs.** `EntriesOwned` is inductive as it stands: the guard removes by hash,
but only the future that registered the hash gets there. `GuardedInv` says why a
running task can be stopped: its future waits for it, or is past its guard, which
cancelled the token. `SlotAccounted` needs where future and task can be together
(`TaskInv`), and counts holders as a set. The proofs are about the local jobs;
they start from `LocalTypeOK`, as the type of the routers' rounds, which
`SelectSeq` makes, cannot be proved.

**Dispatch.** `GoodInv` adds to `OnlyEntitledActs` that a call between the checks
and its end passed them all (`PassedIsGood`, from the twelve checks). It stays
entitled as of the second it was received, though the clock goes on. `TraceInv` says
what a call has cost and who was asked at each place it can be. The counters
follow from which call a step moves, for any finite number of calls; the kinds of
bodies, ids and expiries are assumed (`QueryAssumption`). `TypeOK` is not inductive:
that no counter passes the number of calls follows from `CountersAgree`.

**StreamFilter.** `OptionsFit` relates the options to the request they were read
from, and `SentFits` what was sent to the options. `FilterFits` says that the
filter's accounts are those the request listed, whichever verb wrote them
(`QueryFits`, `BodyFits`), and `MatchFits` that an event was sent on exactly if it
matched; `EqualIsSpelled` turns `accounts_equal` into the spellings of one account,
and the three give `DeliveredExactly`. Accounts and messages are assumed to have
their shape, with the sideband inside the block, and what is absent to be none of
them (`AskAssumption`, `FrameAssumption`, `AbsentAssumption`). A filter keeps the
place each account had in the request, blank entries left out, so that reading
one needs no recursion.

**Contract.** The theorems hold for any source, any call and any answer of a node,
where the run has those that are right but for one thing. A source is assumed to
have typed switches and entries and a call a token of one of the four scopes
(`SourceAssumption`, `CallAssumption`); of answers nothing is assumed. The
registry, the schemas and the validators are the tables of the code: for each of
the sixteen methods a lemma compares its rows (`...Agrees` for parameters,
`...Checked` for the fields of results, `...Entries` for what is in their maps).
The validator says no to what the schema allows only where `Narrowed` does, and
yes to what it forbids only where the properties say so; that these exceptions
are no more than needed is what the run shows. `ConfigInv` says that a
configuration which is described was checked, and `ReplyInv` that a reply is the
refusal of the call, the judgement of an answer or the local generator's. `FollowInv` is the invariant of
the loop that follows references: what methods and met schemas refer to is met
or pending, and what is met or pending is referred to, so when nothing is pending
the met ones are the document's. `StartIsSound` needs that a name with an entry
in `.env` has a last one (`LastPosition`, by well-foundedness of the natural
numbers).

**FaultRelay.** Its theorems are in `WsBridgeProofs`, which extends both modules; the
variables of the relay are independent of the bridge's. `TokensInv` says that a token that is
no longer current is cancelled or was orphaned, `HandlerInv` what the two writes of
a handler leave behind in between. In the dark the current token is cancelled, so
only an orphaned one is still followed. The bound on orders plays no part.

Every safety invariant and action property of a passing run is a theorem. Only
model-checked are the liveness properties (`LostStreamsClose`, `WantedEventArrives`,
`SettlesOnReliable`, `ShutdownStops`, `CallsEnd`, `SlotComesBack`,
`CutCircuitsEnd`), which need fairness and `ENABLED`, and the properties of the
three violation runs, which do not hold.

## 5. Plan

Done: the modules above, in the order of the table of section 1 (the stream of
confirmations is the gateway's most delicate part and came first), and the
proofs of section 4.

Left:

1. `Gateway`: `WsBridge` composed with `EventHub`, the bridge's `live` replaced by
   a lease, so that `SettlesOnReliable` and `WantedEventArrives` give one property
   about a subscriber that comes back after an outage.
2. Metrics: the sum of durations and the errors of refused streams.
3. Proofs: the types of the routers' rounds in `WorkJobs`.

## 6. Not modelled

Wire formats, logging, TLS, HTML and redirects, the AsyncAPI document (a constant
but for its URL), the digests over the documents, the generated clients, the
search for a nonce, signatures. `Config` is a constant of each model but
`Contract`. The command line and the build scripts are plain I/O. Relaxed atomics
are taken as atomic counters, which is what they are used as. The process itself
keeps nothing across a restart, so there is no recovery to model beyond the
shutdown of the supervisor. A JSON array in the query of `/events` is not among the
requests of `StreamFilter`.
