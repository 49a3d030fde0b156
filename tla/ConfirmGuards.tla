--------------------------- MODULE ConfirmGuards ---------------------------
(***************************************************************************)
(* The operator guards of block_confirm: the token bucket and the cooldown *)
(* cache of ConfirmGuards, and the path of a request through guard and     *)
(* dispatch (src/src/lib.rs).                                              *)
(*                                                                         *)
(* reserve, check_cooldown and record_accepted all read the clock before   *)
(* they await their lock, so a request can act on a reading older than the *)
(* one the request before it in the lock acted on.  The check and the      *)
(* record are two critical sections with the node's answer in between.     *)
(*                                                                         *)
(* One tick is the time that earns one unit of credit; a call costs        *)
(* TokenCost units, so fractions of a token are counted exactly.           *)
(***************************************************************************)
EXTENDS Integers, Sequences, FiniteSets

CONSTANTS
    Request,    \* concurrent block_confirm requests
    Hash,       \* hash parameters, as written: the two cases of a digit differ
    TokenCost,  \* ticks that earn one token (rate_per_second)
    Burst,      \* tokens the bucket holds
    Ttl,        \* cooldown_ttl, in ticks
    Capacity,   \* cooldown_capacity
    MaxClock    \* bound: how far the clock goes

ASSUME BudgetAssumption == TokenCost \in Nat \ {0} /\ Burst \in Nat \ {0}
ASSUME CacheAssumption == Ttl \in Nat \ {0} /\ Capacity \in Nat \ {0}
ASSUME ClockAssumption == MaxClock \in Nat

NoTime == -1

VARIABLES
    clock,        \* Instant::now()
    tokens,       \* ConfirmGuards.tokens, in units
    last_refill,  \* ConfirmGuards.last_refill
    cooldown,     \* ConfirmGuards.cooldown: accepted hashes, oldest first
    pc,           \* where each request is
    hash,         \* its hash parameter
    now,          \* its last reading of the clock
    grants,       \* history: reservations granted
    drift,        \* history: how far last_refill was moved backwards, in total
    recorded      \* history: when each hash entered the cache, unless trimmed

bucketVars == <<tokens, last_refill, grants, drift>>
cacheVars == <<cooldown, recorded>>
vars == <<clock, bucketVars, cacheVars, pc, hash, now>>

Full == Burst * TokenCost

Init ==
    /\ clock = 0
    /\ tokens = Full
    /\ last_refill = 0
    /\ cooldown = <<>>
    /\ pc = [r \in Request |-> "idle"]
    /\ hash \in [Request -> Hash]
    /\ now = [r \in Request |-> 0]
    /\ grants = 0
    /\ drift = 0
    /\ recorded = [h \in Hash |-> NoTime]

Goto(r, where) == pc' = [pc EXCEPT ![r] = where]
ReadClock(r) == now' = [now EXCEPT ![r] = clock]

\* duration_since saturates at zero when the other instant is later.
Since(later, earlier) == IF later > earlier THEN later - earlier ELSE 0
AtMost(n, bound) == IF n < bound THEN n ELSE bound

-----------------------------------------------------------------------------
(* The token bucket.                                                       *)

\* An authorized, valid call enters reserve, which reads the clock first.
Arrive(r, h) ==
    /\ pc[r] = "idle"
    /\ hash' = [hash EXCEPT ![r] = h]
    /\ ReadClock(r)
    /\ Goto(r, "reserving")
    /\ UNCHANGED <<clock, bucketVars, cacheVars>>

\* The bucket once it was refilled up to the request's reading of the clock.
Refilled(r) == AtMost(tokens + Since(now[r], last_refill), Full)

\* Mutant of RefillTime: the refill is not remembered.
RefillForgotten(r) == last_refill

\* What reserve stores as last_refill: the reading, even an older one.
RefillTime(r) == now[r]

\* reserve under its locks: refill, then take a token or refuse with 429.
Reserve(r) ==
    /\ pc[r] = "reserving"
    /\ last_refill' = RefillTime(r)
    /\ drift' = drift + Since(last_refill, RefillTime(r))
    /\ IF Refilled(r) >= TokenCost
         THEN /\ tokens' = Refilled(r) - TokenCost
              /\ grants' = grants + 1
              /\ ReadClock(r)
              /\ Goto(r, "checking")
         ELSE /\ tokens' = Refilled(r)
              /\ Goto(r, "idle")
              /\ UNCHANGED <<grants, now>>
    /\ UNCHANGED <<clock, cacheVars, hash>>

-----------------------------------------------------------------------------
(* The cooldown cache.                                                     *)

\* Mutant of Expired: the cooldown ends one tick early.
ExpiredEarly(entry, at) == Since(at, entry.seen) >= Ttl - 1

Expired(entry, at) == Since(at, entry.seen) >= Ttl

\* Expired entries leave from the front only, up to the first that is not.
DropExpired(entries, at) ==
    LET leaving == {i \in 1 .. Len(entries) :
                      \A j \in 1 .. i : Expired(entries[j], at)}
    IN  SubSeq(entries, Cardinality(leaving) + 1, Len(entries))

\* Mutant of Trim: only age bounds the cache.
TrimNothing(entries) == entries

\* Then the oldest go until the cache is within its capacity.
Trim(entries) ==
    IF Len(entries) > Capacity
      THEN SubSeq(entries, Len(entries) - Capacity + 1, Len(entries))
      ELSE entries

evict(entries, at) == Trim(DropExpired(entries, at))

\* History: a hash that is trimmed for want of room loses its cooldown.
Trimmed(at) ==
    LET fresh == DropExpired(cooldown, at)
    IN  {fresh[i].hash : i \in 1 .. (Len(fresh) - Len(Trim(fresh)))}
Remembered(at) ==
    [h \in Hash |-> IF h \in Trimmed(at) THEN NoTime ELSE recorded[h]]

Holds(entries, h) == \E i \in 1 .. Len(entries) : entries[i].hash = h

\* check_cooldown under its lock.  The token stays spent if it refuses.
CheckCooldown(r) ==
    /\ pc[r] = "checking"
    /\ LET kept == evict(cooldown, now[r])
       IN  /\ cooldown' = kept
           /\ Goto(r, IF Holds(kept, hash[r]) THEN "idle" ELSE "forwarding")
    /\ recorded' = Remembered(now[r])
    /\ UNCHANGED <<clock, bucketVars, hash, now>>

\* native.call answers: record_accepted starts by reading the clock.
NodeAccepts(r) ==
    /\ pc[r] = "forwarding"
    /\ ReadClock(r)
    /\ Goto(r, "recording")
    /\ UNCHANGED <<clock, bucketVars, cacheVars, hash>>

\* The node refuses the call, or it fails: nothing is recorded.
NodeRefuses(r) ==
    /\ pc[r] = "forwarding"
    /\ Goto(r, "idle")
    /\ UNCHANGED <<clock, bucketVars, cacheVars, hash, now>>

\* record_accepted under its lock.  A hash that is still held keeps its time: a
\* second acceptance does not restart its cooldown.
RecordAccepted(r) ==
    /\ pc[r] = "recording"
    /\ LET kept == evict(cooldown, now[r])
       IN  IF Holds(kept, hash[r])
             THEN /\ cooldown' = kept
                  /\ recorded' = Remembered(now[r])
             ELSE /\ cooldown' = Append(kept, [hash |-> hash[r],
                                              seen |-> now[r]])
                  /\ recorded' = [Remembered(now[r]) EXCEPT ![hash[r]] = now[r]]
    /\ Goto(r, "idle")
    /\ UNCHANGED <<clock, bucketVars, hash, now>>

\* The client goes away: the request's future is dropped at an await.
Abandon(r) ==
    /\ pc[r] # "idle"
    /\ Goto(r, "idle")
    /\ UNCHANGED <<clock, bucketVars, cacheVars, hash, now>>

Tick ==
    /\ clock < MaxClock
    /\ clock' = clock + 1
    /\ UNCHANGED <<bucketVars, cacheVars, pc, hash, now>>

-----------------------------------------------------------------------------
RequestStep(r) ==
    \/ \E h \in Hash : Arrive(r, h)
    \/ Reserve(r)
    \/ CheckCooldown(r)
    \/ NodeAccepts(r)
    \/ NodeRefuses(r)
    \/ RecordAccepted(r)
    \/ Abandon(r)

Next == (\E r \in Request : RequestStep(r)) \/ Tick

Spec == Init /\ [][Next]_vars

-----------------------------------------------------------------------------
(* Properties.                                                             *)

\* The types of the guards and of the requests' locals (ConfirmGuards).
TypeOK ==
    /\ clock \in Nat
    /\ tokens \in 0 .. Full
    /\ last_refill \in Nat
    /\ cooldown \in Seq([hash : Hash, seen : Nat])
    /\ pc \in [Request -> {"idle", "reserving", "checking", "forwarding",
                           "recording"}]
    /\ hash \in [Request -> Hash]
    /\ now \in [Request -> Nat]
    /\ grants \in Nat
    /\ drift \in Nat
    /\ recorded \in [Hash -> Nat \cup {NoTime}]

\* Every unit of credit comes from the initial burst, from time that passed, or
\* from last_refill having been moved backwards: never from anywhere else.
CreditConserved == grants * TokenCost + tokens <= Full + last_refill + drift

\* The cache never holds more than one entry above its capacity, and no hash
\* twice.
CacheBounded ==
    /\ Len(cooldown) <= Capacity + 1
    /\ \A i, j \in 1 .. Len(cooldown) :
          cooldown[i].hash = cooldown[j].hash => i = j

\* Passing the cooldown: the request goes on to the node.
Passes(r) == pc[r] = "checking" /\ pc'[r] = "forwarding"

\* A hash that entered the cache, and was not trimmed to make room, is not sent to
\* the node again in the same spelling before its cooldown is over, however the
\* requests' clock readings and critical sections interleave.
AcceptedHashCools ==
    [][\A r \in Request :
          Passes(r) /\ recorded'[hash[r]] # NoTime
            => clock - recorded[hash[r]] >= Ttl]_vars

\* lib.rs:2000: rate_per_second is "Tokens per second for block_confirm".  Over
\* any run no more calls are granted than the burst and the time passed allow.
RateBounded == grants * TokenCost <= Full + clock
=============================================================================
