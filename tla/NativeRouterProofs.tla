------------------------- MODULE NativeRouterProofs -------------------------
(***************************************************************************)
(* Proofs about NativeRouter, for any number of callers, upstreams and     *)
(* ticks: a call that gives up has asked every upstream that was not       *)
(* cooling when it looked, and none twice; and a cooling upstream is asked *)
(* only by a call that looked before the failure.                          *)
(***************************************************************************)
EXTENDS NativeRouter, FiniteSetTheorems, TLAPS

\* One step of a call, for all of its outcomes.
CallStep(c) ==
    \/ Start(c) \/ Snapshot(c) \/ Attempt(c) \/ GiveUp(c) \/ Succeed(c)
    \/ \E outcome \in Outcome : Fail(c, outcome) \/ Degrade(c, outcome)
    \/ MarkHealth(c) \/ Rotate(c) \/ Abandon(c)

\* A step of NativeRouter is a step of one call, the clock, or nothing.
LEMMA Steps ==
    ASSUME [Next]_vars
    PROVE  (\E c \in Call : CallStep(c)) \/ Tick \/ UNCHANGED vars
  BY DEF Next, CallStep, Proceed, Resolve

-----------------------------------------------------------------------------
(* Going round.                                                            *)

\* The round goes up to the last upstream and on from the first.
LEMMA Around ==
    ASSUME NEW s \in Upstream, NEW o \in Upstream
    PROVE  (s + o) % N = IF s + o < N THEN s + o ELSE s + o - N
  BY UpstreamAssumption DEF Upstream

\* A position in the round is an upstream, and no two are the same.
LEMMA AroundIsOneToOne ==
    ASSUME NEW s \in Upstream, NEW o \in Upstream
    PROVE  /\ (s + o) % N \in Upstream
           /\ \A p \in Upstream : (s + o) % N = (s + p) % N => o = p
<1>1. (s + o) % N = IF s + o < N THEN s + o ELSE s + o - N
  BY Around
<1>2. ASSUME NEW p \in Upstream, (s + o) % N = (s + p) % N PROVE o = p
  <2>1. (s + p) % N = IF s + p < N THEN s + p ELSE s + p - N
    BY Around
  <2> QED
    BY <1>1, <1>2, <2>1, UpstreamAssumption DEF Upstream
<1>3. (s + o) % N \in Upstream
  BY <1>1, UpstreamAssumption DEF Upstream
<1> QED
  BY <1>2, <1>3

\* The whole round visits every upstream.
LEMMA AroundIsOnto ==
    ASSUME NEW s \in Upstream, NEW i \in Upstream
    PROVE  \E o \in Upstream : (s + o) % N = i
<1> DEFINE o == IF s <= i THEN i - s ELSE i - s + N
<1>1. o \in Upstream
  BY UpstreamAssumption DEF Upstream
<1>2. (s + o) % N = IF s + o < N THEN s + o ELSE s + o - N
  BY <1>1, Around
<1>3. (s + o) % N = i
  BY <1>2, UpstreamAssumption DEF Upstream
<1> QED
  BY <1>1, <1>3

\* The index after one that marks an upstream is one of them.
LEMMA NextIsUpstream ==
    ASSUME NEW i \in Upstream PROVE (i + 1) % N \in Upstream
  BY UpstreamAssumption DEF Upstream

-----------------------------------------------------------------------------
(* Types.                                                                  *)

\* A call that is at an upstream has not come to the end of its round.
InRound ==
    \A c \in Call :
        pc[c] \in {"waiting", "marking", "rotating"} => offset[c] \in Upstream

\* A call that is at an upstream is at one of them.
LEMMA AtUpstream ==
    ASSUME TypeOK, InRound, NEW c \in Call,
           pc[c] \in {"waiting", "marking", "rotating"}
    PROVE  IndexAt(c, offset[c]) \in Upstream
  BY AroundIsOneToOne DEF TypeOK, InRound, IndexAt

\* An attempt that is noted keeps the history's type.
LEMMA NoteTyped ==
    ASSUME TypeOK, InRound, NEW c \in Call, pc[c] = "waiting",
           NEW outcome \in Outcome, Note(c, outcome)
    PROVE  attempts' \in [Call -> Seq(Upstream \X Outcome)]
<1>1. IndexAt(c, offset[c]) \in Upstream
  BY AtUpstream
<1>2. Append(attempts[c], <<IndexAt(c, offset[c]), outcome>>)
        \in Seq(Upstream \X Outcome)
  BY <1>1 DEF TypeOK
<1> QED
  BY <1>2 DEF Note, TypeOK

\* Every step keeps the types.
LEMMA TypeStep ==
    ASSUME TypeOK, InRound, [Next]_vars
    PROVE  TypeOK' /\ InRound'
<1> USE DEF TypeOK, InRound, Goto, Return
<1>1. ASSUME NEW c \in Call, Start(c) PROVE TypeOK' /\ InRound'
  <2>1. <<>> \in Seq(Upstream \X Outcome)
    OBVIOUS
  <2>2. offset' \in [Call -> 0 .. N] /\ calls' \in [Call -> Nat]
    BY <1>1, UpstreamAssumption DEF Start
  <2> QED
    BY <1>1, <2>1, <2>2 DEF Start, sharedVars
<1>2. ASSUME NEW c \in Call, Snapshot(c) PROVE TypeOK' /\ InRound'
  BY <1>2 DEF Snapshot, sharedVars
<1>3. ASSUME NEW c \in Call, Attempt(c) PROVE TypeOK' /\ InRound'
  <2>1. PICK o \in offset[c] .. N - 1 : offset' = [offset EXCEPT ![c] = o]
    BY <1>3 DEF Attempt
  <2>2. o \in Upstream /\ o \in 0 .. N
    BY UpstreamAssumption DEF Upstream
  <2> QED
    BY <1>3, <2>1, <2>2 DEF Attempt, sharedVars
<1>4. ASSUME NEW c \in Call, GiveUp(c) \/ Abandon(c) PROVE TypeOK' /\ InRound'
  BY <1>4 DEF GiveUp, Abandon, sharedVars, localVars
<1>5. ASSUME NEW c \in Call, Succeed(c) PROVE TypeOK' /\ InRound'
  <2>1. IndexAt(c, offset[c]) \in Upstream
    BY <1>5, AtUpstream DEF Succeed
  <2>2. attempts' \in [Call -> Seq(Upstream \X Outcome)]
    BY <1>5, NoteTyped DEF Succeed, Outcome
  <2> QED
    BY <1>5, <2>1, <2>2 DEF Succeed, localVars, Outcome
<1>6. ASSUME NEW c \in Call, NEW outcome \in Outcome, Fail(c, outcome)
      PROVE  TypeOK' /\ InRound'
  <2>1. attempts' \in [Call -> Seq(Upstream \X Outcome)]
    BY <1>6, NoteTyped DEF Fail
  <2> QED
    BY <1>6, <2>1 DEF Fail, localVars, sharedVars
<1>7. ASSUME NEW c \in Call, NEW outcome \in Outcome, Degrade(c, outcome)
      PROVE  TypeOK' /\ InRound'
  <2>1. attempts' \in [Call -> Seq(Upstream \X Outcome)]
    BY <1>7, NoteTyped DEF Degrade
  <2> QED
    BY <1>7, <2>1 DEF Degrade, localVars, sharedVars
<1>8. ASSUME NEW c \in Call, MarkHealth(c) PROVE TypeOK' /\ InRound'
  <2>1. IndexAt(c, offset[c]) \in Upstream
    BY <1>8, AtUpstream DEF MarkHealth
  <2>2. clock + Cooldown \in Nat
    BY ClockAssumption
  <2>3. marked' \in [Call -> SUBSET Upstream]
    BY <1>8, <2>1 DEF MarkHealth
  <2>4. unhealthy_until' \in [Upstream -> Nat]
    BY <1>8, <2>1, <2>2 DEF MarkHealth
  <2> QED
    BY <1>8, <2>3, <2>4 DEF MarkHealth, localVars
<1>9. ASSUME NEW c \in Call, Rotate(c) PROVE TypeOK' /\ InRound'
  <2>1. active' \in Upstream
    BY <1>9, AtUpstream, NextIsUpstream DEF Rotate
  <2>2. offset' \in [Call -> 0 .. N]
    <3>1. offset[c] \in Upstream
      BY <1>9 DEF Rotate
    <3>2. offset[c] + 1 \in 0 .. N
      BY <3>1, UpstreamAssumption DEF Upstream
    <3> QED
      BY <1>9, <3>2 DEF Rotate
  <2>3. InRound'
    BY <1>9 DEF Rotate
  <2>4. pc' \in [Call -> {"idle", "locking", "looping", "waiting", "marking",
                          "rotating"}]
        /\ result' \in [Call -> Outcome \cup {"none", "abandoned",
                                              "all_cooling", "unavailable"}]
    BY <1>9 DEF Rotate, Outcome
  <2> QED
    BY <1>9, <2>1, <2>2, <2>3, <2>4 DEF Rotate
<1>10. CASE Tick \/ UNCHANGED vars
  BY <1>10 DEF Tick, vars, sharedVars, localVars
<1> QED
  BY Steps, <1>1, <1>2, <1>3, <1>4, <1>5, <1>6, <1>7, <1>8, <1>9, <1>10
  DEF CallStep

\* The router's state and the calls' locals have their types, and a call at a
\* node is inside its round (NativeRouter::call).
THEOREM TypeCorrect == Spec => [](TypeOK /\ InRound)
<1>1. Init => TypeOK /\ InRound
  <2> SUFFICES ASSUME Init PROVE TypeOK /\ InRound
    OBVIOUS
  <2>1. 0 \in Upstream /\ 0 \in 0 .. N
    BY UpstreamAssumption DEF Upstream
  <2>2. <<>> \in Seq(Upstream \X Outcome)
    OBVIOUS
  <2> QED
    BY <2>1, <2>2 DEF Init, TypeOK, InRound
<1> QED
  BY <1>1, TypeStep, PTL DEF Spec

-----------------------------------------------------------------------------
(* The round.                                                              *)

\* The upstreams at the first k positions of a call's round.
Covered(c, k) == {IndexAt(c, o) : o \in 0 .. k - 1}

\* One position more is one upstream more.
LEMMA CoveredNext ==
    ASSUME TypeOK, NEW c \in Call, NEW k \in Upstream
    PROVE  /\ Covered(c, k + 1) = Covered(c, k) \cup {IndexAt(c, k)}
           /\ IndexAt(c, k) \notin Covered(c, k)
<1>1. 0 .. (k + 1) - 1 = (0 .. k - 1) \cup {k}
  BY UpstreamAssumption DEF Upstream
<1>2. \A o \in 0 .. k - 1 : o \in Upstream /\ o # k
  BY UpstreamAssumption DEF Upstream
<1>3. \A o \in 0 .. k - 1 : IndexAt(c, o) # IndexAt(c, k)
  BY <1>2, AroundIsOneToOne DEF IndexAt, TypeOK
<1> QED
  BY <1>1, <1>3 DEF Covered

\* Positions that are skipped add nothing.
LEMMA CoveredSkips ==
    ASSUME NEW c \in Call, NEW k \in 0 .. N, NEW m \in k .. N,
           \A o \in k .. m - 1 : IndexAt(c, o) \in skip[c]
    PROVE  Covered(c, m) \ skip[c] = Covered(c, k) \ skip[c]
<1>1. 0 .. m - 1 = (0 .. k - 1) \cup (k .. m - 1)
  BY UpstreamAssumption
<1> QED
  BY <1>1 DEF Covered

\* The whole round is every upstream.
LEMMA CoveredAll ==
    ASSUME TypeOK, NEW c \in Call
    PROVE  Covered(c, N) = Upstream
<1>1. 0 .. N - 1 = Upstream
  BY DEF Upstream
<1>2. start[c] \in Upstream
  BY DEF TypeOK
<1>3. ASSUME NEW o \in Upstream PROVE IndexAt(c, o) \in Upstream
  BY <1>2, AroundIsOneToOne DEF IndexAt
<1>4. ASSUME NEW i \in Upstream PROVE \E o \in Upstream : IndexAt(c, o) = i
  BY <1>2, AroundIsOnto DEF IndexAt
<1> QED
  BY <1>1, <1>3, <1>4 DEF Covered

\* What a call has asked is what its round has covered and its snapshot does not
\* skip, each once.
RoundInv(c) ==
    /\ IsFiniteSet(Asked(c)) /\ Cardinality(Asked(c)) = Len(attempts[c])
    /\ pc[c] = "locking" => offset[c] = 0 /\ attempts[c] = <<>>
    /\ pc[c] # "idle" => result[c] = "none"
    /\ pc[c] \in {"looping", "waiting"} =>
         Asked(c) = Covered(c, offset[c]) \ skip[c]
    /\ pc[c] = "waiting" => IndexAt(c, offset[c]) \notin skip[c]
    /\ pc[c] \in {"marking", "rotating"} =>
         Asked(c) = Covered(c, offset[c] + 1) \ skip[c]
    /\ result[c] \in {"unavailable", "all_cooling"} =>
         Asked(c) = Upstream \ skip[c]

\* What of the state belongs to one call.
Own(c) == <<pc[c], start[c], skip[c], offset[c], result[c], attempts[c]>>

\* A step that leaves what belongs to a call alone leaves its round alone.
LEMMA OwnKeepsRound ==
    ASSUME NEW c \in Call, RoundInv(c), UNCHANGED Own(c)
    PROVE  RoundInv(c)'
<1>1. Asked(c)' = Asked(c)
  BY DEF Own, Asked
<1>2. \A k : Covered(c, k)' = Covered(c, k)
  BY DEF Own, Covered, IndexAt
<1>3. Covered(c, offset[c])' = Covered(c, offset[c])
  BY DEF Own, Covered, IndexAt
<1>4. Covered(c, offset[c] + 1)' = Covered(c, offset[c] + 1)
  BY DEF Own, Covered, IndexAt
<1>5. IndexAt(c, offset[c])' = IndexAt(c, offset[c])
  BY DEF Own, IndexAt
<1> QED
  BY <1>1, <1>3, <1>4, <1>5 DEF Own, RoundInv

\* A step of one call leaves what belongs to another alone.
LEMMA OthersKeep ==
    ASSUME TypeOK, NEW c \in Call, NEW d \in Call, c # d, CallStep(c)
    PROVE  UNCHANGED Own(d)
<1> USE DEF TypeOK, Own, Goto, Return, sharedVars, localVars
<1>1. CASE Start(c) \/ Snapshot(c) \/ Attempt(c) \/ GiveUp(c)
  BY <1>1 DEF Start, Snapshot, Attempt, GiveUp
<1>2. CASE Succeed(c) \/ MarkHealth(c) \/ Rotate(c) \/ Abandon(c)
  BY <1>2 DEF Succeed, MarkHealth, Rotate, Abandon, Note
<1>3. CASE \E outcome \in Outcome : Fail(c, outcome) \/ Degrade(c, outcome)
  BY <1>3 DEF Fail, Degrade, Note
<1> QED
  BY <1>1, <1>2, <1>3 DEF CallStep

\* What one more element, at the end, adds to the set of first components.
LEMMA LastAdds ==
    ASSUME NEW s, NEW t, NEW n \in Nat, NEW e,
           \A k \in 1 .. n : t[k] = s[k], t[n + 1][1] = e
    PROVE  {t[k][1] : k \in 1 .. n + 1} = {s[k][1] : k \in 1 .. n} \cup {e}
<1>1. ASSUME NEW x \in {t[k][1] : k \in 1 .. n + 1}
      PROVE  x \in {s[k][1] : k \in 1 .. n} \cup {e}
  <2>1. PICK k \in 1 .. n + 1 : x = t[k][1]
    BY <1>1
  <2>2. CASE k = n + 1
    BY <2>1, <2>2
  <2>3. CASE k \in 1 .. n
    BY <2>1, <2>3
  <2> QED
    BY <2>2, <2>3
<1>2. ASSUME NEW x \in {s[k][1] : k \in 1 .. n}
      PROVE  x \in {t[k][1] : k \in 1 .. n + 1}
  <2>1. PICK k \in 1 .. n : x = s[k][1]
    BY <1>2
  <2>2. k \in 1 .. n + 1 /\ x = t[k][1]
    BY <2>1
  <2> QED
    BY <2>2
<1>3. e \in {t[k][1] : k \in 1 .. n + 1}
  <2>1. n + 1 \in 1 .. n + 1
    OBVIOUS
  <2> QED
    BY <2>1
<1> QED
  BY <1>1, <1>2, <1>3

\* An attempt that is noted is one upstream more, and one that was not asked.
LEMMA NoteAdds ==
    ASSUME TypeOK, InRound, NEW c \in Call, pc[c] = "waiting", RoundInv(c),
           NEW outcome \in Outcome, Note(c, outcome)
    PROVE  /\ Asked(c)' = Covered(c, offset[c] + 1) \ skip[c]
           /\ IsFiniteSet(Asked(c)') /\ Cardinality(Asked(c)') = Len(attempts[c]')
<1> DEFINE i == IndexAt(c, offset[c])
<1>1. i \in Upstream /\ offset[c] \in Upstream
  BY AtUpstream DEF InRound
<1>2. attempts[c] \in Seq(Upstream \X Outcome)
  BY DEF TypeOK
<1>3. attempts'[c] = Append(attempts[c], <<i, outcome>>)
  BY DEF Note, TypeOK
<1>4. /\ Len(attempts'[c]) = Len(attempts[c]) + 1
      /\ Len(attempts[c]) \in Nat
      /\ attempts'[c][Len(attempts[c]) + 1] = <<i, outcome>>
      /\ \A k \in 1 .. Len(attempts[c]) : attempts'[c][k] = attempts[c][k]
  BY <1>1, <1>2, <1>3
<1>5. Asked(c)' = Asked(c) \cup {i}
  <2> DEFINE s == attempts[c]
             t == attempts'[c]
             n == Len(attempts[c])
  <2>1. n \in Nat /\ t[n + 1][1] = i /\ \A k \in 1 .. n : t[k] = s[k]
    BY <1>4
  <2>2. /\ Asked(c) = {s[k][1] : k \in 1 .. n}
        /\ Asked(c)' = {t[k][1] : k \in 1 .. n + 1}
    BY <1>4 DEF Asked
  <2> HIDE DEF i, s, t, n
  <2>3. {t[k][1] : k \in 1 .. n + 1} = {s[k][1] : k \in 1 .. n} \cup {i}
    BY <2>1, LastAdds
  <2> QED
    BY <2>2, <2>3
<1>6. i \notin skip[c] /\ Asked(c) = Covered(c, offset[c]) \ skip[c]
  BY DEF RoundInv
<1>7. /\ Covered(c, offset[c] + 1) = Covered(c, offset[c]) \cup {i}
      /\ i \notin Covered(c, offset[c])
  BY <1>1, CoveredNext
<1>8. Asked(c)' = Covered(c, offset[c] + 1) \ skip[c]
  BY <1>5, <1>6, <1>7
<1>9. i \notin Asked(c)
  BY <1>6, <1>7
<1>10. /\ IsFiniteSet(Asked(c) \cup {i})
       /\ Cardinality(Asked(c) \cup {i}) = Cardinality(Asked(c)) + 1
  BY <1>9, FS_AddElement DEF RoundInv
<1> QED
  BY <1>4, <1>5, <1>8, <1>10 DEF RoundInv

\* Every step of a call keeps its round.
LEMMA RoundStep ==
    ASSUME TypeOK, InRound, NEW c \in Call, RoundInv(c), CallStep(c)
    PROVE  RoundInv(c)'
<1> USE DEF TypeOK, Goto, Return
<1>1. CASE Start(c)
  <2>1. attempts'[c] = <<>> /\ offset'[c] = 0
    BY <1>1 DEF Start
  <2>2. Asked(c)' = {}
    BY <2>1 DEF Asked
  <2>3. IsFiniteSet({}) /\ Cardinality({}) = Len(<<>>)
    BY FS_EmptySet
  <2>4. pc'[c] = "locking" /\ result'[c] = "none"
    BY <1>1 DEF Start
  <2> QED
    BY <2>1, <2>2, <2>3, <2>4 DEF RoundInv
<1>2. CASE Snapshot(c)
  <2>1. UNCHANGED <<start, offset, result, attempts>> /\ pc'[c] = "looping"
    BY <1>2 DEF Snapshot
  <2>2. Asked(c)' = Asked(c)
    BY <2>1 DEF Asked
  <2>3. attempts[c] = <<>> /\ offset[c] = 0 /\ result[c] = "none"
    BY <1>2 DEF Snapshot, RoundInv
  <2>4. Asked(c) = {} /\ Covered(c, offset[c])' = {}
    BY <2>1, <2>3 DEF Asked, Covered
  <2> QED
    BY <2>1, <2>2, <2>3, <2>4 DEF RoundInv
<1>3. CASE Attempt(c)
  <2>1. PICK o \in offset[c] .. N - 1 :
           /\ IndexAt(c, o) \notin skip[c]
           /\ \A earlier \in offset[c] .. o - 1 : IndexAt(c, earlier) \in skip[c]
           /\ offset' = [offset EXCEPT ![c] = o]
    BY <1>3 DEF Attempt
  <2>2. UNCHANGED <<start, skip, result, attempts>> /\ pc'[c] = "waiting"
        /\ pc[c] = "looping" /\ offset'[c] = o
    BY <1>3, <2>1 DEF Attempt
  <2>3. Asked(c)' = Asked(c)
    BY <2>2 DEF Asked
  <2>4. Covered(c, offset[c])' = Covered(c, o)
        /\ IndexAt(c, offset[c])' = IndexAt(c, o)
    BY <2>2 DEF Covered, IndexAt
  <2>5. offset[c] \in 0 .. N /\ o \in offset[c] .. N
    BY UpstreamAssumption
  <2>6. Covered(c, o) \ skip[c] = Covered(c, offset[c]) \ skip[c]
    BY <2>1, <2>5, CoveredSkips
  <2> QED
    BY <2>1, <2>2, <2>3, <2>4, <2>6 DEF RoundInv
<1>4. CASE GiveUp(c)
  <2>1. UNCHANGED <<start, skip, attempts>> /\ pc[c] = "looping"
        /\ pc'[c] = "idle"
    BY <1>4 DEF GiveUp, localVars
  <2>2. Asked(c)' = Asked(c)
    BY <2>1 DEF Asked
  <2>3. N \in offset[c] .. N
    BY UpstreamAssumption
  <2>4. \A o \in offset[c] .. N - 1 : IndexAt(c, o) \in skip[c]
    BY <1>4 DEF GiveUp
  <2>5. Covered(c, N) \ skip[c] = Covered(c, offset[c]) \ skip[c]
    BY <2>3, <2>4, CoveredSkips
  <2>6. Asked(c) = Upstream \ skip[c]
    BY <2>1, <2>5, CoveredAll DEF RoundInv
  <2> QED
    BY <2>1, <2>2, <2>6 DEF RoundInv
<1>5. CASE Succeed(c)
  <2>1. Note(c, "ok") /\ pc[c] = "waiting"
    BY <1>5 DEF Succeed
  <2>2. IsFiniteSet(Asked(c)') /\ Cardinality(Asked(c)') = Len(attempts[c]')
    BY <2>1, NoteAdds DEF Outcome
  <2>3. pc'[c] = "idle" /\ result'[c] = "ok"
    BY <1>5 DEF Succeed
  <2> QED
    BY <2>2, <2>3 DEF RoundInv
<1>6. ASSUME NEW outcome \in Outcome, Fail(c, outcome) PROVE RoundInv(c)'
  <2>1. Note(c, outcome) /\ pc[c] = "waiting"
    BY <1>6 DEF Fail
  <2>2. IsFiniteSet(Asked(c)') /\ Cardinality(Asked(c)') = Len(attempts[c]')
    BY <2>1, NoteAdds
  <2>3. pc'[c] = "idle" /\ result'[c] = outcome
    BY <1>6 DEF Fail
  <2>4. outcome \notin {"unavailable", "all_cooling"}
    BY DEF Outcome
  <2> QED
    BY <2>2, <2>3, <2>4 DEF RoundInv
<1>7. ASSUME NEW outcome \in Outcome, Degrade(c, outcome) PROVE RoundInv(c)'
  <2>1. Note(c, outcome) /\ pc[c] = "waiting"
    BY <1>7 DEF Degrade
  <2>2. /\ Asked(c)' = Covered(c, offset[c] + 1) \ skip[c]
        /\ IsFiniteSet(Asked(c)') /\ Cardinality(Asked(c)') = Len(attempts[c]')
    BY <2>1, NoteAdds
  <2>3. pc'[c] = "marking" /\ UNCHANGED <<start, skip, offset, result>>
    BY <1>7 DEF Degrade, localVars
  <2>4. Covered(c, offset[c] + 1)' = Covered(c, offset[c] + 1)
    BY <2>3 DEF Covered, IndexAt
  <2> QED
    BY <2>1, <2>2, <2>3, <2>4 DEF RoundInv
<1>8. CASE MarkHealth(c)
  <2>1. pc[c] = "marking" /\ pc'[c] = "rotating"
        /\ UNCHANGED <<start, skip, offset, result, attempts>>
    BY <1>8 DEF MarkHealth, localVars
  <2>2. Asked(c)' = Asked(c)
    BY <2>1 DEF Asked
  <2>3. Covered(c, offset[c] + 1)' = Covered(c, offset[c] + 1)
    BY <2>1 DEF Covered, IndexAt
  <2> QED
    BY <2>1, <2>2, <2>3 DEF RoundInv
<1>9. CASE Rotate(c)
  <2>1. pc[c] = "rotating" /\ UNCHANGED <<start, skip, attempts>>
    BY <1>9 DEF Rotate
  <2>2. Asked(c)' = Asked(c)
    BY <2>1 DEF Asked
  <2>3. CASE pc'[c] = "looping" /\ offset'[c] = offset[c] + 1 /\ UNCHANGED result
    <3>1. Covered(c, offset[c])' = Covered(c, offset[c] + 1)
      BY <2>1, <2>3 DEF Covered, IndexAt
    <3> QED
      BY <2>1, <2>2, <2>3, <3>1 DEF RoundInv
  <2>4. CASE pc'[c] = "idle" /\ result'[c] = "rate_limited"
    BY <2>1, <2>2, <2>4 DEF RoundInv
  <2> QED
    BY <1>9, <2>3, <2>4 DEF Rotate
<1>10. CASE Abandon(c)
  <2>1. UNCHANGED <<start, skip, attempts>> /\ pc'[c] = "idle"
        /\ result'[c] = "abandoned"
    BY <1>10 DEF Abandon, localVars
  <2>2. Asked(c)' = Asked(c)
    BY <2>1 DEF Asked
  <2> QED
    BY <2>1, <2>2 DEF RoundInv
<1> QED
  BY <1>1, <1>2, <1>3, <1>4, <1>5, <1>6, <1>7, <1>8, <1>9, <1>10 DEF CallStep

\* Each call goes through its round in order, whatever the others do to the
\* active index and the cooldowns meanwhile (NativeRouter::call).
THEOREM RoundHolds == Spec => [](\A c \in Call : RoundInv(c))
<1>1. Init => \A c \in Call : RoundInv(c)
  <2> SUFFICES ASSUME Init, NEW c \in Call PROVE RoundInv(c)
    OBVIOUS
  <2>1. attempts[c] = <<>> /\ pc[c] = "idle" /\ result[c] = "none"
    BY DEF Init
  <2>2. Asked(c) = {}
    BY <2>1 DEF Asked
  <2> QED
    BY <2>1, <2>2, FS_EmptySet DEF RoundInv
<1>2. TypeOK /\ InRound /\ (\A c \in Call : RoundInv(c)) /\ [Next]_vars
        => (\A c \in Call : RoundInv(c))'
  <2> SUFFICES ASSUME TypeOK, InRound, \A c \in Call : RoundInv(c),
                      [Next]_vars, NEW d \in Call
               PROVE  RoundInv(d)'
    OBVIOUS
  <2>1. ASSUME NEW c \in Call, CallStep(c) PROVE RoundInv(d)'
    BY <2>1, RoundStep, OthersKeep, OwnKeepsRound
  <2>2. CASE Tick \/ UNCHANGED vars
    <3>1. UNCHANGED Own(d)
      BY <2>2 DEF Tick, vars, localVars, Own
    <3> QED
      BY <3>1, OwnKeepsRound
  <2> QED
    BY Steps, <2>1, <2>2
<1> QED
  BY <1>1, <1>2, TypeCorrect, PTL DEF Spec

\* A call that gives up has asked every upstream that was not cooling when it
\* looked, and none twice (NativeRouter::call).
THEOREM GivesUpAfterAll == Spec => []GivesUpOnlyAfterAll
<1>1. TypeOK /\ (\A c \in Call : RoundInv(c)) => GivesUpOnlyAfterAll
  <2> SUFFICES ASSUME TypeOK, NEW c \in Call, RoundInv(c),
                      result[c] \in {"unavailable", "all_cooling"}
               PROVE  /\ Asked(c) \cup skip[c] = Upstream
                      /\ Len(attempts[c]) + Cardinality(skip[c]) = N
    BY DEF GivesUpOnlyAfterAll
  <2>1. Asked(c) = Upstream \ skip[c] /\ Cardinality(Asked(c)) = Len(attempts[c])
    BY DEF RoundInv
  <2>2. skip[c] \subseteq Upstream
    BY DEF TypeOK
  <2>3. IsFiniteSet(Upstream) /\ Cardinality(Upstream) = N
    BY FS_Interval, UpstreamAssumption DEF Upstream
  <2>4. Upstream \cap skip[c] = skip[c]
    BY <2>2
  <2>5. Cardinality(Upstream \ skip[c])
          = Cardinality(Upstream) - Cardinality(Upstream \cap skip[c])
    BY <2>3, FS_Difference
  <2>6. Cardinality(skip[c]) \in Nat
    BY <2>2, <2>3, FS_Subset, FS_CardinalityType
  <2>7. Len(attempts[c]) = N - Cardinality(skip[c])
    BY <2>1, <2>3, <2>4, <2>5
  <2>8. Len(attempts[c]) + Cardinality(skip[c]) = N
    BY <2>6, <2>7, UpstreamAssumption
  <2> QED
    BY <2>1, <2>2, <2>8
<1> QED
  BY <1>1, TypeCorrect, RoundHolds, PTL

-----------------------------------------------------------------------------
(* Cooldowns.                                                              *)

\* A call is in its loop, or will come back to it.
UnderWay(c) == pc[c] \in {"looping", "waiting", "marking", "rotating"}

\* What a call's snapshot does not skip was not cooling when it was taken, so
\* what is cooling now was marked since.
KnowsInv(c) ==
    /\ now[c] <= clock
    /\ UnderWay(c) =>
         \A i \in Upstream \ skip[c] :
            unhealthy_until[i] > clock => i \in marked[c]

\* Every step of a call keeps what each call knows.
LEMMA KnowsStep ==
    ASSUME TypeOK, InRound, NEW d \in Call, KnowsInv(d),
           NEW c \in Call, CallStep(c)
    PROVE  KnowsInv(d)'
<1> USE DEF TypeOK, Goto, Return, sharedVars, localVars, KnowsInv, UnderWay
<1>1. CASE Start(c)
  BY <1>1 DEF Start
<1>2. CASE Snapshot(c)
  <2>1. CASE d = c
    <3>1. \A i \in Upstream \ skip'[d] : unhealthy_until'[i] <= clock'
      BY <1>2, <2>1 DEF Snapshot
    <3>2. now'[d] <= clock'
      BY <1>2 DEF Snapshot
    <3>3. \A i \in Upstream : unhealthy_until'[i] \in Nat /\ clock' \in Nat
      BY <1>2 DEF Snapshot
    <3> QED
      BY <3>1, <3>2, <3>3
  <2>2. CASE d # c
    BY <1>2, <2>2 DEF Snapshot
  <2> QED
    BY <2>1, <2>2
<1>3. CASE Attempt(c)
  <2>1. UNCHANGED <<clock, unhealthy_until, now, skip, marked>>
        /\ pc[c] = "looping" /\ pc' = [pc EXCEPT ![c] = "waiting"]
    BY <1>3 DEF Attempt
  <2> QED
    BY <2>1
<1>4. CASE GiveUp(c) \/ Succeed(c) \/ Abandon(c)
  <2>1. UNCHANGED <<clock, unhealthy_until, now, skip, marked>>
        /\ pc' = [pc EXCEPT ![c] = "idle"]
    BY <1>4 DEF GiveUp, Succeed, Abandon
  <2> QED
    BY <2>1
<1>5. CASE \E outcome \in Outcome : Fail(c, outcome) \/ Degrade(c, outcome)
  <2>1. UNCHANGED <<clock, unhealthy_until, now, skip, marked>>
        /\ pc[c] = "waiting"
        /\ \/ pc' = [pc EXCEPT ![c] = "idle"]
           \/ pc' = [pc EXCEPT ![c] = "marking"]
    BY <1>5 DEF Fail, Degrade
  <2> QED
    BY <2>1
<1>6. CASE MarkHealth(c)
  <2> DEFINE j == IndexAt(c, offset[c])
  <2>1. UNCHANGED <<clock, now, skip>> /\ pc[c] = "marking"
        /\ pc' = [pc EXCEPT ![c] = "rotating"]
    BY <1>6 DEF MarkHealth
  <2>2. j \in Upstream
    BY <1>6, AtUpstream DEF MarkHealth
  <2>3. marked'[d] = marked[d] \cup {j}
    BY <1>6 DEF MarkHealth
  <2>4. \A i \in Upstream : i # j => unhealthy_until'[i] = unhealthy_until[i]
    BY <1>6, <2>2 DEF MarkHealth
  <2> HIDE DEF j
  <2> QED
    BY <2>1, <2>2, <2>3, <2>4
<1>7. CASE Rotate(c)
  <2>1. UNCHANGED <<clock, unhealthy_until, now, skip, marked>>
        /\ pc[c] = "rotating"
        /\ \/ pc' = [pc EXCEPT ![c] = "looping"]
           \/ pc' = [pc EXCEPT ![c] = "idle"]
    BY <1>7 DEF Rotate
  <2> QED
    BY <2>1
<1> QED
  BY <1>1, <1>2, <1>3, <1>4, <1>5, <1>6, <1>7 DEF CallStep

\* A call knows of every cooldown but those that began after it looked
\* (NativeRouter::mark_unhealthy).
THEOREM KnowsHolds == Spec => [](\A c \in Call : KnowsInv(c))
<1>1. Init => \A c \in Call : KnowsInv(c)
  BY DEF Init, KnowsInv, UnderWay
<1>2. TypeOK /\ InRound /\ (\A c \in Call : KnowsInv(c)) /\ [Next]_vars
        => (\A c \in Call : KnowsInv(c))'
  <2> SUFFICES ASSUME TypeOK, InRound, \A c \in Call : KnowsInv(c),
                      [Next]_vars, NEW d \in Call
               PROVE  KnowsInv(d)'
    OBVIOUS
  <2>1. ASSUME NEW c \in Call, CallStep(c) PROVE KnowsInv(d)'
    BY <2>1, KnowsStep
  <2>2. CASE Tick
    <3>1. clock' = clock + 1 /\ UNCHANGED <<unhealthy_until, pc, now, skip, marked>>
      BY <2>2 DEF Tick, sharedVars, localVars
    <3>2. \A i \in Upstream : unhealthy_until[i] \in Nat
      BY DEF TypeOK
    <3> QED
      BY <3>1, <3>2 DEF KnowsInv, UnderWay, TypeOK
  <2>3. CASE UNCHANGED vars
    BY <2>3 DEF vars, sharedVars, localVars, KnowsInv, UnderWay
  <2> QED
    BY Steps, <2>1, <2>2, <2>3
<1> QED
  BY <1>1, <1>2, TypeCorrect, PTL DEF Spec

\* A cooling upstream is asked only by a call that looked before the failure
\* that cooled it (NativeRouter::call).
THEOREM CoolingIsAvoided == Spec => CoolingOnlyAskedByOlderCalls
<1>1. TypeOK /\ (\A c \in Call : KnowsInv(c)) /\ [Next]_vars
        => [\A c \in Call : pc[c] = "looping" /\ pc'[c] = "waiting" =>
              LET i == IndexAt(c, offset'[c])
              IN  unhealthy_until[i] > clock => i \in marked[c]]_vars
  <2> SUFFICES ASSUME TypeOK, \A c \in Call : KnowsInv(c), Next,
                      NEW c \in Call, pc[c] = "looping", pc'[c] = "waiting",
                      unhealthy_until[IndexAt(c, offset'[c])] > clock
               PROVE  IndexAt(c, offset'[c]) \in marked[c]
    OBVIOUS
  <2>1. Attempt(c)
    <3>1. PICK d \in Call : CallStep(d)
      <4>1. ~Tick /\ ~UNCHANGED vars
        BY DEF Tick, vars
      <4> QED
        BY <4>1, Steps
    <3>2. d = c
      BY <3>1, OthersKeep DEF Own
    <3> QED
      BY <3>1, <3>2 DEF CallStep, Start, Snapshot, GiveUp, Succeed, Fail,
                        Degrade, MarkHealth, Rotate, Abandon, Return, Goto, TypeOK
  <2>2. PICK o \in offset[c] .. N - 1 : /\ IndexAt(c, o) \notin skip[c]
                                        /\ offset' = [offset EXCEPT ![c] = o]
    BY <2>1 DEF Attempt
  <2>3. offset'[c] = o /\ o \in Upstream
    BY <2>2, UpstreamAssumption DEF TypeOK, Upstream
  <2>4. IndexAt(c, o) \in Upstream
    BY <2>3, AroundIsOneToOne DEF IndexAt, TypeOK
  <2> QED
    BY <2>2, <2>3, <2>4 DEF KnowsInv, UnderWay
<1> QED
  BY <1>1, KnowsHolds, TypeCorrect, PTL DEF Spec, CoolingOnlyAskedByOlderCalls
=============================================================================
