------------------------ MODULE ConfirmGuardsProofs ------------------------
(***************************************************************************)
(* Proofs about ConfirmGuards, for any number of requests and hashes and   *)
(* every budget, capacity and cooldown: credit is conserved, the cache is  *)
(* bounded, and a hash that was accepted and not trimmed cools.            *)
(***************************************************************************)
EXTENDS ConfirmGuards, FiniteSetTheorems, SequenceTheorems, TLAPS

-----------------------------------------------------------------------------
(* Eviction.                                                               *)

Entry == [hash : Hash, seen : Nat]

\* The entries that leave because they expired are the first ones.
LEMMA LeavingFirst ==
    ASSUME NEW s \in Seq(Entry), NEW at
    PROVE  \E k \in 0 .. Len(s) :
              /\ DropExpired(s, at) = SubSeq(s, k + 1, Len(s))
              /\ \A i \in 1 .. k : Expired(s[i], at)
<1> DEFINE leaving == {i \in 1 .. Len(s) : \A j \in 1 .. i : Expired(s[j], at)}
           k == Cardinality(leaving)
<1>1. Len(s) \in Nat
  OBVIOUS
<1>2. /\ IsFiniteSet(1 .. Len(s))
      /\ Cardinality(1 .. Len(s)) = Len(s)
  BY <1>1, FS_Interval
<1>3. k \in 0 .. Len(s)
  BY <1>1, <1>2, FS_Subset, FS_CardinalityType
<1>4. ASSUME NEW i \in 1 .. k PROVE Expired(s[i], at)
  <2>1. CASE i \in leaving
    BY <1>1, <1>3, <2>1
  <2>2. CASE i \notin leaving
    <3>1. leaving \in SUBSET (1 .. i - 1)
      BY <1>1, <1>3, <2>2
    <3>2. /\ IsFiniteSet(1 .. i - 1)
          /\ Cardinality(1 .. i - 1) = i - 1
      <4>1. i \in Int /\ i >= 1
        BY <1>1, <1>3
      <4>2. /\ IsFiniteSet(1 .. i - 1)
            /\ Cardinality(1 .. i - 1) =
                 IF 1 > i - 1 THEN 0 ELSE (i - 1) - 1 + 1
        BY <4>1, FS_Interval
      <4> QED
        BY <4>1, <4>2
    <3>3. k <= i - 1
      BY <3>1, <3>2, FS_Subset
    <3> QED
      BY <1>3, <3>3
  <2> QED
    BY <2>1, <2>2
<1>5. DropExpired(s, at) = SubSeq(s, k + 1, Len(s))
  BY DEF DropExpired
<1> HIDE DEF k
<1> QED
  BY <1>3, <1>4, <1>5

\* A sequence without its first entries.
LEMMA Suffix ==
    ASSUME NEW s \in Seq(Entry), NEW k \in 0 .. Len(s)
    PROVE  /\ SubSeq(s, k + 1, Len(s)) \in Seq(Entry)
           /\ Len(SubSeq(s, k + 1, Len(s))) = Len(s) - k
           /\ \A i \in 1 .. (Len(s) - k) :
                 SubSeq(s, k + 1, Len(s))[i] = s[k + i]
<1>1. Len(s) \in Nat /\ k \in Nat
  OBVIOUS
<1>2. \A i \in k + 1 .. Len(s) : s[i] \in Entry
  BY <1>1, ElementOfSeq
<1> DEFINE t == SubSeq(s, k + 1, Len(s))
<1>3. /\ t \in Seq(Entry)
      /\ Len(t) = IF k + 1 <= Len(s) THEN Len(s) - (k + 1) + 1 ELSE 0
      /\ \A i \in 1 .. Len(s) - (k + 1) + 1 : t[i] = s[k + 1 + i - 1]
  BY <1>1, <1>2, SubSeqProperties
<1> HIDE DEF t
<1>4. Len(t) = Len(s) - k
  BY <1>1, <1>3
<1>5. \A i \in 1 .. (Len(s) - k) : t[i] = s[k + i]
  BY <1>1, <1>3
<1> QED
  BY <1>3, <1>4, <1>5 DEF t

\* Trimming takes the oldest that are too many.
LEMMA Trimming ==
    ASSUME NEW t \in Seq(Entry)
    PROVE  \E m \in 0 .. Len(t) :
              /\ Trim(t) \in Seq(Entry)
              /\ Len(Trim(t)) = Len(t) - m /\ Len(Trim(t)) <= Capacity
              /\ \A i \in 1 .. Len(Trim(t)) : Trim(t)[i] = t[m + i]
<1>1. Len(t) \in Nat /\ Capacity \in Nat
  BY CacheAssumption
<1>2. CASE Len(t) > Capacity
  <2> DEFINE m == Len(t) - Capacity
  <2>1. m \in 0 .. Len(t)
    BY <1>1, <1>2
  <2>2. Trim(t) = SubSeq(t, m + 1, Len(t))
    BY <1>2 DEF Trim
  <2>3. Len(t) - m = Capacity
    BY <1>1
  <2> HIDE DEF m
  <2>4. /\ Trim(t) \in Seq(Entry)
        /\ Len(Trim(t)) = Len(t) - m
        /\ \A i \in 1 .. (Len(t) - m) : Trim(t)[i] = t[m + i]
    BY <2>1, <2>2, Suffix
  <2> QED
    BY <1>1, <2>1, <2>3, <2>4
<1>3. CASE ~(Len(t) > Capacity)
  BY <1>1, <1>3 DEF Trim
<1> QED
  BY <1>2, <1>3

\* What evict leaves: without its first k entries, which expired, and the next m,
\* which are too many.
Evicts(at, k, m) ==
    LET kept == evict(cooldown, at)
    IN  /\ kept \in Seq(Entry)
        /\ Len(kept) = Len(cooldown) - k - m /\ Len(kept) <= Capacity
        /\ \A i \in 1 .. Len(kept) : kept[i] = cooldown[k + m + i]
        /\ \A i \in 1 .. k : Expired(cooldown[i], at)
        /\ \A i \in k + 1 .. k + m : cooldown[i].hash \in Trimmed(at)

\* Every eviction is one of those (ConfirmGuards::evict).
LEMMA Evicted ==
    ASSUME cooldown \in Seq(Entry), NEW at
    PROVE  \E k, m \in Nat : k + m <= Len(cooldown) /\ Evicts(at, k, m)
<1>1. PICK k \in 0 .. Len(cooldown) :
         /\ DropExpired(cooldown, at) = SubSeq(cooldown, k + 1, Len(cooldown))
         /\ \A i \in 1 .. k : Expired(cooldown[i], at)
  BY LeavingFirst
<1> DEFINE fresh == DropExpired(cooldown, at)
<1>2. /\ fresh \in Seq(Entry)
      /\ Len(fresh) = Len(cooldown) - k
      /\ \A i \in 1 .. (Len(cooldown) - k) : fresh[i] = cooldown[k + i]
  BY <1>1, Suffix
<1>3. Trimmed(at) = {fresh[i].hash : i \in 1 .. (Len(fresh) - Len(Trim(fresh)))}
  BY DEF Trimmed
<1>4. evict(cooldown, at) = Trim(fresh)
  BY DEF evict
<1> HIDE DEF fresh
<1>5. PICK m \in 0 .. Len(fresh) :
         /\ Trim(fresh) \in Seq(Entry)
         /\ Len(Trim(fresh)) = Len(fresh) - m /\ Len(Trim(fresh)) <= Capacity
         /\ \A i \in 1 .. Len(Trim(fresh)) : Trim(fresh)[i] = fresh[m + i]
  BY <1>2, Trimming
<1>6. Len(cooldown) \in Nat /\ Len(fresh) \in Nat
  BY <1>2
<1>7. \A i \in 1 .. Len(Trim(fresh)) : Trim(fresh)[i] = cooldown[k + m + i]
  <2> SUFFICES ASSUME NEW i \in 1 .. Len(Trim(fresh))
               PROVE  Trim(fresh)[i] = cooldown[k + m + i]
    OBVIOUS
  <2>1. m + i \in 1 .. (Len(cooldown) - k) /\ k + (m + i) = k + m + i
    BY <1>2, <1>5, <1>6
  <2>2. fresh[m + i] = cooldown[k + (m + i)]
    BY <1>2, <2>1
  <2> QED
    BY <1>5, <2>1, <2>2
<1>8. \A i \in k + 1 .. k + m : cooldown[i].hash \in Trimmed(at)
  <2> SUFFICES ASSUME NEW i \in k + 1 .. k + m
               PROVE  cooldown[i].hash \in Trimmed(at)
    OBVIOUS
  <2>1. /\ i - k \in 1 .. (Len(fresh) - Len(Trim(fresh)))
        /\ i - k \in 1 .. (Len(cooldown) - k)
        /\ k + (i - k) = i
    BY <1>2, <1>5, <1>6
  <2>2. fresh[i - k] = cooldown[i]
    BY <1>2, <2>1
  <2> QED
    BY <1>3, <2>1, <2>2
<1>9. Len(Trim(fresh)) = Len(cooldown) - k - m
  BY <1>2, <1>5, <1>6
<1>10. k \in Nat /\ m \in Nat /\ k + m <= Len(cooldown)
  BY <1>2, <1>5, <1>6
<1>11. Evicts(at, k, m)
  BY <1>1, <1>4, <1>5, <1>7, <1>8, <1>9 DEF Evicts
<1> QED
  BY <1>10, <1>11

-----------------------------------------------------------------------------
(* Types.                                                                  *)

\* The budget is a natural number of units.
LEMMA FullIsNatural == Full \in Nat
  BY BudgetAssumption DEF Full

\* A refilled bucket is between what it was and full.
LEMMA RefilledBetween ==
    ASSUME TypeOK, NEW r \in Request
    PROVE  /\ Refilled(r) \in 0 .. Full
           /\ Refilled(r) <= tokens + Since(now[r], last_refill)
  BY FullIsNatural DEF TypeOK, Refilled, AtMost, Since

\* An eviction keeps the types of what was recorded.
LEMMA RememberedTyped ==
    ASSUME TypeOK, NEW at
    PROVE  Remembered(at) \in [Hash -> Nat \cup {NoTime}]
  BY DEF TypeOK, Remembered

\* A request's step keeps the types (ConfirmGuards).
LEMMA TypeStep ==
    ASSUME TypeOK, NEW r \in Request, RequestStep(r)
    PROVE  TypeOK'
<1> USE DEF TypeOK
<1>1. ASSUME NEW h \in Hash, Arrive(r, h) PROVE TypeOK'
  BY <1>1 DEF Arrive, ReadClock, Goto, bucketVars, cacheVars
<1>2. CASE Reserve(r)
  <2>1. Refilled(r) \in 0 .. Full
    BY RefilledBetween
  <2>2. Since(last_refill, now[r]) \in Nat
    BY DEF Since
  <2>3. last_refill' \in Nat /\ drift' \in Nat
    BY <1>2, <2>2 DEF Reserve, RefillTime
  <2>4. CASE Refilled(r) >= TokenCost
    <3>1. tokens' \in 0 .. Full
      BY <1>2, <2>1, <2>4, BudgetAssumption, FullIsNatural DEF Reserve
    <3>2. grants' \in Nat /\ now' \in [Request -> Nat]
      BY <1>2, <2>4 DEF Reserve, ReadClock
    <3>3. pc' \in [Request -> {"idle", "reserving", "checking", "forwarding",
                               "recording"}]
      BY <1>2, <2>4 DEF Reserve, Goto
    <3>4. UNCHANGED <<clock, cooldown, recorded, hash>>
      BY <1>2 DEF Reserve, cacheVars
    <3> QED
      BY <2>3, <3>1, <3>2, <3>3, <3>4
  <2>5. CASE ~(Refilled(r) >= TokenCost)
    BY <1>2, <2>1, <2>3, <2>5 DEF Reserve, Goto, cacheVars
  <2> QED
    BY <2>4, <2>5
<1>3. CASE CheckCooldown(r)
  <2>1. cooldown' \in Seq(Entry)
    BY <1>3, Evicted DEF CheckCooldown, Evicts, Entry
  <2>2. recorded' \in [Hash -> Nat \cup {NoTime}]
    BY <1>3, RememberedTyped DEF CheckCooldown
  <2>3. pc' \in [Request -> {"idle", "reserving", "checking", "forwarding",
                             "recording"}]
    BY <1>3 DEF CheckCooldown, Goto
  <2> QED
    BY <1>3, <2>1, <2>2, <2>3 DEF CheckCooldown, Entry, bucketVars
<1>4. CASE NodeAccepts(r)
  BY <1>4 DEF NodeAccepts, ReadClock, Goto, bucketVars, cacheVars
<1>5. CASE NodeRefuses(r)
  BY <1>5 DEF NodeRefuses, Goto, bucketVars, cacheVars
<1>6. CASE RecordAccepted(r)
  <2>1. evict(cooldown, now[r]) \in Seq(Entry)
    BY Evicted DEF Evicts, Entry
  <2>2. [hash |-> hash[r], seen |-> now[r]] \in Entry
    BY DEF Entry
  <2>3. cooldown' \in Seq(Entry)
    <3> DEFINE kept == evict(cooldown, now[r])
    <3>1. cooldown' = kept \/
          cooldown' = Append(kept, [hash |-> hash[r], seen |-> now[r]])
      BY <1>6, Zenon DEF RecordAccepted
    <3> HIDE DEF kept
    <3>2. kept \in Seq(Entry)
      BY <2>1 DEF kept
    <3>3. Append(kept, [hash |-> hash[r], seen |-> now[r]]) \in Seq(Entry)
      BY ONLY <2>2, <3>2, AppendProperties, Zenon
    <3> QED
      BY ONLY <3>1, <3>2, <3>3, Zenon
  <2>4. recorded' \in [Hash -> Nat \cup {NoTime}]
    BY <1>6, RememberedTyped DEF RecordAccepted
  <2> QED
    BY <1>6, <2>3, <2>4 DEF RecordAccepted, Goto, Entry, bucketVars
<1>7. CASE Abandon(r)
  BY <1>7 DEF Abandon, Goto, bucketVars, cacheVars
<1> QED
  BY <1>1, <1>2, <1>3, <1>4, <1>5, <1>6, <1>7 DEF RequestStep

\* The guards and the requests' locals are well typed (ConfirmGuards).
THEOREM TypeCorrect == Spec => []TypeOK
<1>1. Init => TypeOK
  <2> SUFFICES ASSUME Init PROVE TypeOK
    OBVIOUS
  <2>1. tokens \in 0 .. Full
    BY FullIsNatural DEF Init
  <2>2. cooldown \in Seq([hash : Hash, seen : Nat])
    BY DEF Init
  <2> QED
    BY <2>1, <2>2 DEF Init, TypeOK
<1>2. TypeOK /\ [Next]_vars => TypeOK'
  <2> SUFFICES ASSUME TypeOK, [Next]_vars PROVE TypeOK'
    OBVIOUS
  <2>1. CASE Tick
    BY <2>1 DEF Tick, TypeOK, bucketVars, cacheVars
  <2>2. CASE UNCHANGED vars
    BY <2>2 DEF vars, TypeOK, bucketVars, cacheVars
  <2> QED
    BY <2>1, <2>2, TypeStep DEF Next
<1> QED
  BY <1>1, <1>2, PTL DEF Spec

-----------------------------------------------------------------------------
(* Credit.                                                                 *)

\* One grant more costs one token more.
LEMMA OneMore ==
    ASSUME NEW n \in Nat
    PROVE  /\ n * TokenCost \in Nat
           /\ (n + 1) * TokenCost = n * TokenCost + TokenCost
  BY BudgetAssumption

\* Every unit of credit is accounted for, however stale the clock readings under
\* the lock are (ConfirmGuards::reserve).
THEOREM CreditIsConserved == Spec => []CreditConserved
<1>1. Init => CreditConserved
  BY FullIsNatural, BudgetAssumption DEF Init, CreditConserved
<1>2. TypeOK /\ CreditConserved /\ [Next]_vars => CreditConserved'
  <2> SUFFICES ASSUME TypeOK, CreditConserved, [Next]_vars
               PROVE  CreditConserved'
    OBVIOUS
  <2>1. CASE UNCHANGED bucketVars
    BY <2>1 DEF bucketVars, CreditConserved
  <2>2. ASSUME NEW r \in Request, Reserve(r) PROVE CreditConserved'
    <3> DEFINE paid == grants * TokenCost
               gained == Since(now[r], last_refill)
               lost == Since(last_refill, now[r])
    <3>1. /\ now[r] \in Nat /\ last_refill \in Nat /\ drift \in Nat
          /\ tokens \in Nat /\ Refilled(r) \in Nat /\ Full \in Nat
          /\ TokenCost \in Nat
      BY RefilledBetween, FullIsNatural, BudgetAssumption DEF TypeOK
    <3>2. gained \in Nat /\ lost \in Nat /\ last_refill + gained = now[r] + lost
      BY <3>1 DEF Since
    <3>3. paid \in Nat /\ grants' \in {grants, grants + 1}
          /\ (grants + 1) * TokenCost = paid + TokenCost
      BY <2>2, OneMore DEF TypeOK, Reserve
    <3>4. grants' * TokenCost + tokens' = paid + Refilled(r)
      <4>1. CASE Refilled(r) >= TokenCost
        <5>1. grants' = grants + 1 /\ tokens' = Refilled(r) - TokenCost
          BY <2>2, <4>1 DEF Reserve
        <5> QED
          BY <3>1, <3>3, <5>1
      <4>2. CASE ~(Refilled(r) >= TokenCost)
        BY <2>2, <4>2 DEF Reserve
      <4> QED
        BY <4>1, <4>2
    <3>5. Refilled(r) <= tokens + gained
      BY RefilledBetween
    <3>6. last_refill' = now[r] /\ drift' = drift + lost
      BY <2>2 DEF Reserve, RefillTime
    <3>7. paid + tokens <= Full + last_refill + drift
      BY DEF CreditConserved
    <3> HIDE DEF paid, gained, lost
    <3>8. paid + Refilled(r) <= Full + now[r] + (drift + lost)
      BY <3>1, <3>2, <3>3, <3>5, <3>7
    <3> QED
      BY <3>4, <3>6, <3>8 DEF CreditConserved, Full
  <2> QED
    BY <2>1, <2>2 DEF Next, RequestStep, Tick, Arrive, CheckCooldown,
                      NodeAccepts, NodeRefuses, RecordAccepted, Abandon, vars
<1> QED
  BY <1>1, <1>2, TypeCorrect, PTL DEF Spec

-----------------------------------------------------------------------------
(* The cache.                                                              *)

\* What record_accepted appends to what evict leaves.
Recorded(r) ==
    Append(evict(cooldown, now[r]), [hash |-> hash[r], seen |-> now[r]])

\* The three things a step can do to the cache.
LEMMA CacheSteps ==
    ASSUME [Next]_vars
    PROVE  \/ UNCHANGED cacheVars
           \/ \E r \in Request :
                 /\ CheckCooldown(r) \/ RecordAccepted(r)
                 /\ cooldown' = evict(cooldown, now[r])
                 /\ recorded' = Remembered(now[r])
           \/ \E r \in Request :
                 /\ RecordAccepted(r)
                 /\ ~Holds(evict(cooldown, now[r]), hash[r])
                 /\ cooldown' = Recorded(r)
                 /\ recorded' = [Remembered(now[r]) EXCEPT ![hash[r]] = now[r]]
<1>1. ASSUME NEW r \in Request, CheckCooldown(r)
      PROVE  /\ cooldown' = evict(cooldown, now[r])
             /\ recorded' = Remembered(now[r])
  BY <1>1, Zenon DEF CheckCooldown
<1>2. ASSUME NEW r \in Request, RecordAccepted(r),
             Holds(evict(cooldown, now[r]), hash[r])
      PROVE  /\ cooldown' = evict(cooldown, now[r])
             /\ recorded' = Remembered(now[r])
  BY <1>2, Zenon DEF RecordAccepted
<1>3. ASSUME NEW r \in Request, RecordAccepted(r),
             ~Holds(evict(cooldown, now[r]), hash[r])
      PROVE  /\ cooldown' = Recorded(r)
             /\ recorded' = [Remembered(now[r]) EXCEPT ![hash[r]] = now[r]]
  BY <1>3, Zenon DEF RecordAccepted, Recorded
<1>4. ASSUME NEW r \in Request, RequestStep(r),
             ~CheckCooldown(r), ~RecordAccepted(r)
      PROVE  UNCHANGED cacheVars
  BY <1>4 DEF RequestStep, Arrive, Reserve, NodeAccepts, NodeRefuses, Abandon
<1>5. Tick \/ UNCHANGED vars => UNCHANGED cacheVars
  BY DEF Tick, vars
<1> QED
  BY <1>1, <1>2, <1>3, <1>4, <1>5, Zenon DEF Next

\* What evict leaves is within the capacity and holds no hash twice.
LEMMA EvictedBounded ==
    ASSUME TypeOK, CacheBounded, NEW at, NEW kept, kept = evict(cooldown, at)
    PROVE  /\ kept \in Seq(Entry) /\ Len(kept) \in Nat /\ Len(kept) <= Capacity
           /\ \A i, j \in 1 .. Len(kept) : kept[i].hash = kept[j].hash => i = j
<1>1. PICK k, m \in Nat : k + m <= Len(cooldown) /\ Evicts(at, k, m)
  BY Evicted DEF TypeOK, Entry
<1>2. /\ kept \in Seq(Entry)
      /\ Len(kept) = Len(cooldown) - k - m /\ Len(kept) <= Capacity
      /\ \A i \in 1 .. Len(kept) : kept[i] = cooldown[k + m + i]
  BY <1>1 DEF Evicts
<1>3. Len(cooldown) \in Nat /\ Len(kept) \in Nat
  BY <1>2 DEF TypeOK
<1>4. ASSUME NEW i \in 1 .. Len(kept), NEW j \in 1 .. Len(kept),
             kept[i].hash = kept[j].hash
      PROVE  i = j
  <2>1. k + m + i \in 1 .. Len(cooldown) /\ k + m + j \in 1 .. Len(cooldown)
    BY <1>2, <1>3
  <2>2. cooldown[k + m + i].hash = cooldown[k + m + j].hash
    BY <1>2, <1>4
  <2>3. k + m + i = k + m + j
    BY <2>1, <2>2 DEF CacheBounded
  <2> QED
    BY <2>3
<1> QED
  BY <1>2, <1>3, <1>4

\* The cache is never more than one entry above its capacity and never holds a
\* hash twice, whichever requests record at once (record_accepted, evict).
THEOREM CacheIsBounded == Spec => []CacheBounded
<1>1. Init => CacheBounded
  BY CacheAssumption DEF Init, CacheBounded
<1>2. TypeOK /\ CacheBounded /\ [Next]_vars => CacheBounded'
  <2> SUFFICES ASSUME TypeOK, CacheBounded, [Next]_vars PROVE CacheBounded'
    OBVIOUS
  <2>1. CASE UNCHANGED cacheVars
    BY <2>1 DEF cacheVars, CacheBounded
  <2>2. ASSUME NEW r \in Request, cooldown' = evict(cooldown, now[r])
        PROVE  CacheBounded'
    BY <2>2, EvictedBounded, CacheAssumption DEF CacheBounded
  <2>3. ASSUME NEW r \in Request, cooldown' = Recorded(r),
               ~Holds(evict(cooldown, now[r]), hash[r])
        PROVE  CacheBounded'
    <3> DEFINE entry == [hash |-> hash[r], seen |-> now[r]]
    <3>1. PICK kept : kept = evict(cooldown, now[r])
      OBVIOUS
    <3>2. /\ kept \in Seq(Entry) /\ Len(kept) \in Nat /\ Len(kept) <= Capacity
          /\ \A i, j \in 1 .. Len(kept) : kept[i].hash = kept[j].hash => i = j
      BY <3>1, EvictedBounded
    <3>3. entry \in Entry /\ entry.hash = hash[r]
      BY DEF TypeOK, Entry
    <3>4. \A i \in 1 .. Len(kept) : kept[i].hash # hash[r]
      BY <2>3, <3>1 DEF Holds
    <3>5. cooldown' = Append(kept, entry)
      BY <2>3, <3>1 DEF Recorded
    <3> HIDE DEF entry
    <3>6. /\ Len(cooldown') = Len(kept) + 1
          /\ \A i \in 1 .. Len(kept) : cooldown'[i] = kept[i]
          /\ cooldown'[Len(kept) + 1] = entry
      BY <3>2, <3>3, <3>5, AppendProperties
    <3>7. Len(cooldown') <= Capacity + 1
      BY <3>2, <3>6, CacheAssumption
    <3>8. ASSUME NEW i \in 1 .. Len(cooldown'), NEW j \in 1 .. Len(cooldown'),
                 cooldown'[i].hash = cooldown'[j].hash
          PROVE  i = j
      <4>1. /\ i \in 1 .. Len(kept) \/ i = Len(kept) + 1
            /\ j \in 1 .. Len(kept) \/ j = Len(kept) + 1
        BY <3>2, <3>6
      <4> QED
        BY <3>2, <3>3, <3>4, <3>6, <3>8, <4>1
    <3> QED
      BY <3>7, <3>8 DEF CacheBounded
  <2> QED
    BY <2>1, <2>2, <2>3, CacheSteps
<1> QED
  BY <1>1, <1>2, TypeCorrect, PTL DEF Spec

-----------------------------------------------------------------------------
(* Cooling.                                                                *)

\* A hash that was recorded and not trimmed is in the cache with its time, or has
\* cooled.
Cooling(h, t) ==
    /\ t <= clock
    /\ \/ clock - t >= Ttl
       \/ \E i \in 1 .. Len(cooldown) : cooldown[i] = [hash |-> h, seen |-> t]

\* No reading of the clock is ahead of it, and what was recorded cools.
CoolInv ==
    /\ \A r \in Request : now[r] <= clock
    /\ \A h \in Hash : recorded[h] # NoTime => Cooling(h, recorded[h])

\* A hash that is still remembered after an eviction was left in the cache, or
\* has cooled (ConfirmGuards::evict).
LEMMA EvictionKeeps ==
    ASSUME TypeOK, CoolInv, NEW at \in Nat, at <= clock, NEW h \in Hash,
           Remembered(at)[h] # NoTime, NEW kept, kept = evict(cooldown, at)
    PROVE  /\ Remembered(at)[h] = recorded[h] /\ recorded[h] # NoTime
           /\ \/ clock - recorded[h] >= Ttl
              \/ \E i \in 1 .. Len(kept) :
                    kept[i] = [hash |-> h, seen |-> recorded[h]]
<1> DEFINE t == recorded[h]
<1>1. h \notin Trimmed(at) /\ Remembered(at)[h] = t
  BY DEF Remembered
<1>2. t # NoTime /\ t \in Nat
  BY <1>1 DEF TypeOK
<1>3. Cooling(h, t)
  BY <1>2 DEF CoolInv
<1>4. ASSUME ~(clock - t >= Ttl)
      PROVE  \E i \in 1 .. Len(kept) : kept[i] = [hash |-> h, seen |-> t]
  <2>1. PICK j \in 1 .. Len(cooldown) : cooldown[j] = [hash |-> h, seen |-> t]
    BY <1>3, <1>4 DEF Cooling
  <2>2. PICK k, m \in Nat : k + m <= Len(cooldown) /\ Evicts(at, k, m)
    BY Evicted DEF TypeOK, Entry
  <2>3. /\ Len(kept) = Len(cooldown) - k - m
        /\ \A i \in 1 .. Len(kept) : kept[i] = cooldown[k + m + i]
        /\ \A i \in 1 .. k : Expired(cooldown[i], at)
        /\ \A i \in k + 1 .. k + m : cooldown[i].hash \in Trimmed(at)
    BY <2>2 DEF Evicts
  <2>4. Len(cooldown) \in Nat /\ clock \in Nat /\ Ttl \in Nat \ {0}
    BY CacheAssumption DEF TypeOK
  <2>5. ~Expired(cooldown[j], at)
    BY <1>2, <1>4, <2>1, <2>4 DEF Expired, Since
  <2>6. cooldown[j].hash \notin Trimmed(at)
    BY <1>1, <2>1
  <2>7. j \notin 1 .. k /\ j \notin k + 1 .. k + m
    BY <2>3, <2>5, <2>6
  <2>8. j - k - m \in 1 .. Len(kept) /\ k + m + (j - k - m) = j
    BY <2>2, <2>3, <2>4, <2>7
  <2> QED
    BY <2>1, <2>3, <2>8
<1> QED
  BY <1>1, <1>2, <1>4

\* A step that takes no reading ahead of the clock and leaves the cache alone keeps
\* what cools.
LEMMA CoolStays ==
    ASSUME TypeOK, CoolInv, UNCHANGED cacheVars, clock' \in {clock, clock + 1},
           \A r \in Request : now'[r] \in {now[r], clock}
    PROVE  CoolInv'
<1>1. clock \in Nat /\ Ttl \in Nat
  BY CacheAssumption DEF TypeOK
<1>2. \A r \in Request : now'[r] <= clock'
  BY <1>1 DEF TypeOK, CoolInv
<1>3. ASSUME NEW h \in Hash, recorded[h] # NoTime
      PROVE  Cooling(h, recorded[h])'
  <2>1. recorded[h] \in Nat /\ Cooling(h, recorded[h])
    BY <1>3 DEF TypeOK, CoolInv
  <2> QED
    BY <1>1, <2>1 DEF Cooling, cacheVars
<1> QED
  BY <1>2, <1>3 DEF CoolInv, cacheVars

\* Every step keeps what cools (check_cooldown, record_accepted).
LEMMA CoolStep ==
    ASSUME TypeOK, CoolInv, [Next]_vars
    PROVE  CoolInv'
<1>1. CASE UNCHANGED cacheVars
  <2>1. /\ clock' \in {clock, clock + 1}
        /\ \A r \in Request : now'[r] \in {now[r], clock}
    <3>1. ASSUME NEW s \in Request, RequestStep(s)
          PROVE  /\ clock' = clock
                 /\ \/ now' = now
                    \/ now' = [now EXCEPT ![s] = clock]
      BY <3>1, Zenon DEF RequestStep, Arrive, Reserve, CheckCooldown,
                  NodeAccepts, NodeRefuses, RecordAccepted, Abandon, ReadClock
    <3>2. Tick => clock' = clock + 1 /\ now' = now
      BY DEF Tick
    <3>3. UNCHANGED vars => clock' = clock /\ now' = now
      BY DEF vars
    <3> QED
      BY <3>1, <3>2, <3>3 DEF Next, TypeOK
  <2> QED
    BY <1>1, <2>1, CoolStays
<1>2. ASSUME NEW r \in Request, CheckCooldown(r) \/ RecordAccepted(r)
      PROVE  /\ UNCHANGED <<clock, now, hash>>
             /\ now[r] \in Nat /\ now[r] <= clock /\ clock \in Nat
  BY <1>2 DEF CheckCooldown, RecordAccepted, TypeOK, CoolInv
<1>3. ASSUME NEW r \in Request, CheckCooldown(r) \/ RecordAccepted(r),
             cooldown' = evict(cooldown, now[r]),
             recorded' = Remembered(now[r])
      PROVE  CoolInv'
  <2>1. UNCHANGED <<clock, now>> /\ now[r] \in Nat /\ now[r] <= clock
    BY <1>2, <1>3
  <2>2. ASSUME NEW h \in Hash, recorded'[h] # NoTime
        PROVE  Cooling(h, recorded[h])'
    <3>1. /\ recorded'[h] = recorded[h] /\ recorded[h] # NoTime
          /\ \/ clock - recorded[h] >= Ttl
             \/ \E i \in 1 .. Len(cooldown') :
                   cooldown'[i] = [hash |-> h, seen |-> recorded[h]]
      BY <1>3, <2>1, <2>2, EvictionKeeps
    <3>2. recorded[h] <= clock
      BY <3>1 DEF CoolInv, Cooling
    <3> QED
      BY <2>1, <3>1, <3>2 DEF Cooling
  <2> QED
    BY <2>1, <2>2 DEF CoolInv
<1>4. ASSUME NEW r \in Request, RecordAccepted(r),
             cooldown' = Recorded(r),
             recorded' = [Remembered(now[r]) EXCEPT ![hash[r]] = now[r]]
      PROVE  CoolInv'
  <2> DEFINE entry == [hash |-> hash[r], seen |-> now[r]]
  <2>1. /\ UNCHANGED <<clock, now, hash>>
        /\ now[r] \in Nat /\ now[r] <= clock /\ clock \in Nat
    BY <1>2, <1>4
  <2>2. PICK kept : kept = evict(cooldown, now[r])
    OBVIOUS
  <2>3. kept \in Seq(Entry) /\ entry \in Entry
    BY <2>1, <2>2, Evicted DEF Evicts, Entry, TypeOK
  <2>4. cooldown' = Append(kept, entry)
    BY <1>4, <2>2 DEF Recorded
  <2>5. hash[r] \in Hash /\ Remembered(now[r]) \in [Hash -> Nat \cup {NoTime}]
    BY RememberedTyped DEF TypeOK
  <2>6. ASSUME NEW h \in Hash, recorded'[h] # NoTime
        PROVE  Cooling(h, recorded[h])'
    <3>1. /\ Len(cooldown') = Len(kept) + 1 /\ Len(kept) \in Nat
          /\ \A i \in 1 .. Len(kept) : cooldown'[i] = kept[i]
          /\ cooldown'[Len(kept) + 1] = entry
      BY <2>3, <2>4, AppendProperties
    <3>2. CASE h = hash[r]
      <4>1. recorded'[h] = now[r]
        BY <1>4, <2>5, <3>2
      <4>2. cooldown'[Len(kept) + 1] = [hash |-> h, seen |-> recorded'[h]]
        BY <3>1, <3>2, <4>1
      <4> QED
        BY <2>1, <3>1, <4>1, <4>2 DEF Cooling
    <3>3. CASE h # hash[r]
      <4>1. recorded'[h] = Remembered(now[r])[h]
        BY <1>4, <2>5, <3>3
      <4>2. /\ recorded'[h] = recorded[h] /\ recorded[h] # NoTime
            /\ \/ clock - recorded[h] >= Ttl
               \/ \E i \in 1 .. Len(kept) :
                     kept[i] = [hash |-> h, seen |-> recorded[h]]
        BY <2>1, <2>2, <2>6, <4>1, EvictionKeeps
      <4>3. recorded[h] <= clock
        BY <4>2 DEF CoolInv, Cooling
      <4>4. \/ clock - recorded[h] >= Ttl
            \/ \E i \in 1 .. Len(cooldown') :
                  cooldown'[i] = [hash |-> h, seen |-> recorded[h]]
        BY <3>1, <4>2
      <4> QED
        BY <2>1, <4>2, <4>3, <4>4 DEF Cooling
    <3> QED
      BY <3>2, <3>3
  <2> QED
    BY <2>1, <2>6 DEF CoolInv
<1> QED
  BY <1>1, <1>3, <1>4, CacheSteps

\* What was recorded and not trimmed is in the cache or has cooled
\* (record_accepted, evict).
THEOREM CoolingHolds == Spec => []CoolInv
<1>1. Init => CoolInv
  BY DEF Init, CoolInv
<1>2. TypeOK /\ CoolInv /\ [Next]_vars => CoolInv'
  BY CoolStep
<1> QED
  BY <1>1, <1>2, TypeCorrect, PTL DEF Spec

\* A hash that was accepted, and not trimmed to make room, is not sent to the node
\* again before its cooldown is over, for any number of requests with clock readings
\* as old as they may be (check_cooldown).
THEOREM AcceptedCools == Spec => AcceptedHashCools
<1>1. TypeOK /\ CoolInv /\ [Next]_vars =>
        [\A r \in Request :
            Passes(r) /\ recorded'[hash[r]] # NoTime
              => clock - recorded[hash[r]] >= Ttl]_vars
  <2> SUFFICES ASSUME TypeOK, CoolInv, [Next]_vars, NEW r \in Request,
                      Passes(r), recorded'[hash[r]] # NoTime
               PROVE  clock - recorded[hash[r]] >= Ttl
    OBVIOUS
  <2>1. CheckCooldown(r)
    <3>1. ASSUME NEW s \in Request, RequestStep(s), s # r
          PROVE  pc'[r] = pc[r]
      BY <3>1 DEF RequestStep, Arrive, Reserve, CheckCooldown, NodeAccepts,
                  NodeRefuses, RecordAccepted, Abandon, Goto, TypeOK
    <3>2. Tick \/ UNCHANGED vars => pc'[r] = pc[r]
      BY DEF Tick, vars
    <3>3. RequestStep(r)
      BY <3>1, <3>2 DEF Next, Passes
    <3> QED
      BY <3>3 DEF Passes, RequestStep, Arrive, Reserve, NodeAccepts,
                  NodeRefuses, RecordAccepted, Abandon, Goto, TypeOK
  <2> DEFINE h == hash[r]
  <2>2. PICK kept : kept = evict(cooldown, now[r])
    OBVIOUS
  <2>3. /\ pc' = [pc EXCEPT ![r] = IF Holds(kept, h) THEN "idle"
                                                    ELSE "forwarding"]
        /\ recorded' = Remembered(now[r])
    BY <2>1, <2>2, Zenon DEF CheckCooldown, Goto
  <2>4. ~Holds(kept, h)
    BY <2>3 DEF Passes, TypeOK
  <2>5. /\ h \in Hash /\ now[r] \in Nat /\ now[r] <= clock
    BY DEF TypeOK, CoolInv
  <2>6. \/ clock - recorded[h] >= Ttl
        \/ \E i \in 1 .. Len(kept) :
              kept[i] = [hash |-> h, seen |-> recorded[h]]
    BY <2>2, <2>3, <2>5, EvictionKeeps
  <2>7. \A i \in 1 .. Len(kept) : kept[i].hash # h
    BY <2>4 DEF Holds
  <2>8. ~\E i \in 1 .. Len(kept) : kept[i] = [hash |-> h, seen |-> recorded[h]]
    BY <2>7
  <2> QED
    BY <2>6, <2>8
<1> QED
  BY <1>1, TypeCorrect, CoolingHolds, PTL DEF Spec, AcceptedHashCools
=============================================================================
