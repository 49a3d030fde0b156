--------------------------- MODULE WorkJobsProofs ---------------------------
(***************************************************************************)
(* Proofs about WorkJobs: for any number of jobs, cancellations, hashes    *)
(* and peers, the slot is accounted for, entries belong to live futures,   *)
(* and a generator that runs can be stopped.                               *)
(***************************************************************************)
EXTENDS WorkJobs, FiniteSetTheorems, TLAPS

-----------------------------------------------------------------------------
(* The steps, as far as local jobs tell them apart.                        *)

\* What none of the steps of peers and of a forwarded work_cancel touches.
localVars == <<permits, local_work_jobs, jobVars>>

\* The steps of a local job, and the first step of a remote one.
JobStep(j) ==
    \/ AcquireSlot(j)
    \/ Register(j)
    \/ Spawn(j)
    \/ InitFails(j)
    \/ \E outcome \in {"work", "failed", "nothing"} : TaskEnds(j, outcome)
    \/ TaskJoins(j)
    \/ Collect(j)
    \/ TimeOut(j)
    \/ Disconnect(j)
    \/ Unregister(j)
    \/ ReleaseSlot(j)
    \/ CallPeers(j)

\* A step is a local job's, the end of a remote one, a cancellation, or touches
\* nothing that belongs to local jobs.
LEMMA StepKinds ==
    ASSUME [Next]_vars
    PROVE  \/ \E j \in Job : JobStep(j)
           \/ \E j \in Job, value \in {"work", "failed", "gone"} :
                 LeaveRemote(j, value)
           \/ \E c \in Cancel : CancelLocal(c)
           \/ UNCHANGED localVars
<1>1. ASSUME NEW j \in Job, FutureStep(j) \/ Disconnect(j) \/ TaskStep(j)
      PROVE  \/ JobStep(j)
             \/ \E value \in {"work", "failed"} : LeaveRemote(j, value)
             \/ UNCHANGED localVars
  <2>1. FailOver(j) => UNCHANGED localVars
    BY DEF FailOver, localVars, tableVars
  <2>2. PeerAnswers(j) => LeaveRemote(j, "work")
    BY DEF PeerAnswers
  <2>3. PeersFail(j) => LeaveRemote(j, "failed")
    BY DEF PeersFail
  <2> QED
    BY <1>1, <2>1, <2>2, <2>3 DEF FutureStep, TaskStep, JobStep
<1>2. ASSUME NEW j \in Job, DisconnectRemote(j)
      PROVE  LeaveRemote(j, "gone")
  BY <1>2 DEF DisconnectRemote
<1>3. ASSUME NEW j \in Job, PeerEnds(j)
      PROVE  UNCHANGED localVars
  BY <1>3 DEF PeerEnds, localVars, tableVars
<1>4. ASSUME NEW c \in Cancel, CancelStep(c)
      PROVE  CancelLocal(c) \/ UNCHANGED localVars
  BY <1>4 DEF CancelStep, LookUp, Forward, ForwardOn, ForwardFails, localVars,
              tableVars
<1>5. ASSUME NEW p \in Peer, CoolsOff(p)
      PROVE  UNCHANGED localVars
  BY <1>5 DEF CoolsOff, localVars, tableVars
<1>6. CASE UNCHANGED vars
  BY <1>6 DEF vars, localVars, tableVars
<1> QED
  BY <1>1, <1>2, <1>3, <1>4, <1>5, <1>6 DEF Next

-----------------------------------------------------------------------------
(* Types.                                                                  *)

\* The part of TypeOK that is about local jobs.
Place == {"new", "holding", "starting", "waiting", "unregistering", "releasing",
          "remote", "ended"}
Stage == {"none", "running", "freed", "ended"}
LocalTypeOK ==
    /\ permits \in Nat
    /\ local_work_jobs \in [Hash -> Job \cup {Nobody}]
    /\ pc \in [Job -> Place]
    /\ hash \in [Job -> Hash]
    /\ task \in [Job -> Stage]
    /\ token \in [Job -> BOOLEAN]

\* Local jobs start well typed.
LEMMA InitTypes == Init => LocalTypeOK
<1> SUFFICES ASSUME Init PROVE LocalTypeOK
  OBVIOUS
<1>1. permits \in Nat /\ hash \in [Job -> Hash]
  BY DEF Init
<1>2. local_work_jobs \in [Hash -> Job \cup {Nobody}]
  BY DEF Init
<1>3. pc \in [Job -> Place] /\ task \in [Job -> Stage]
  BY DEF Init, Place, Stage
<1>4. token \in [Job -> BOOLEAN]
  BY DEF Init
<1> QED
  BY <1>1, <1>2, <1>3, <1>4 DEF LocalTypeOK

\* A job's step moves that job only.
LEMMA JobStepTypes ==
    ASSUME LocalTypeOK, NEW j \in Job, JobStep(j)
    PROVE  LocalTypeOK'
<1> USE DEF LocalTypeOK, Place, Stage, Goto, Frees, tableVars
<1>1. CASE AcquireSlot(j)
  BY <1>1 DEF AcquireSlot
<1>2. CASE Register(j)
  BY <1>2 DEF Register
<1>3. CASE Spawn(j)
  BY <1>3 DEF Spawn
<1>4. CASE InitFails(j)
  BY <1>4 DEF InitFails
<1>5. CASE \E outcome \in {"work", "failed", "nothing"} : TaskEnds(j, outcome)
  BY <1>5 DEF TaskEnds
<1>6. CASE TaskJoins(j)
  BY <1>6 DEF TaskJoins
<1>7. CASE Collect(j)
  BY <1>7 DEF Collect
<1>8. CASE TimeOut(j)
  BY <1>8 DEF TimeOut
<1>9. CASE Disconnect(j)
  BY <1>9 DEF Disconnect
<1>10. CASE Unregister(j)
  BY <1>10 DEF Unregister, CancelOwnToken
<1>11. CASE ReleaseSlot(j)
  BY <1>11 DEF ReleaseSlot
<1>12. CASE CallPeers(j)
  BY <1>12 DEF CallPeers
<1> QED
  BY <1>1, <1>2, <1>3, <1>4, <1>5, <1>6, <1>7, <1>8, <1>9, <1>10, <1>11, <1>12 DEF JobStep

\* Every step keeps the types of local jobs.
LEMMA NextTypes == LocalTypeOK /\ [Next]_vars => LocalTypeOK'
<1> SUFFICES ASSUME LocalTypeOK, [Next]_vars PROVE LocalTypeOK'
  OBVIOUS
<1>1. ASSUME NEW j \in Job, NEW value \in {"work", "failed", "gone"},
             LeaveRemote(j, value)
      PROVE  LocalTypeOK'
  BY <1>1 DEF LeaveRemote, LocalTypeOK, Place, Goto
<1>2. ASSUME NEW c \in Cancel, CancelLocal(c)
      PROVE  LocalTypeOK'
  <2>1. token' \in [Job -> BOOLEAN]
    BY <1>2 DEF CancelLocal
  <2>2. UNCHANGED <<permits, local_work_jobs, pc, hash, task>>
    BY <1>2 DEF CancelLocal, tableVars
  <2> QED
    BY <2>1, <2>2 DEF LocalTypeOK
<1>3. CASE UNCHANGED localVars
  BY <1>3 DEF localVars, jobVars, LocalTypeOK
<1> QED
  BY <1>1, <1>2, <1>3, StepKinds, JobStepTypes

\* Local jobs are well typed at every moment (generate_local_work).
THEOREM LocalTypes == Spec => []LocalTypeOK
  BY InitTypes, NextTypes, PTL DEF Spec

-----------------------------------------------------------------------------
(* The entries.                                                            *)

\* A job's step takes and leaves its own entry only.
LEMMA JobStepEntries ==
    ASSUME LocalTypeOK, EntriesOwned, NEW j \in Job, JobStep(j)
    PROVE  EntriesOwned'
<1> USE NobodyAssumption
    DEF LocalTypeOK, EntriesOwned, Registered, Place, Goto, tableVars
<1>1. CASE AcquireSlot(j)
  BY <1>1 DEF AcquireSlot
<1>2. CASE Register(j)
  BY <1>2 DEF Register, MayRegister
<1>3. CASE Spawn(j)
  BY <1>3 DEF Spawn
<1>4. CASE InitFails(j)
  BY <1>4 DEF InitFails
<1>5. CASE \E outcome \in {"work", "failed", "nothing"} : TaskEnds(j, outcome)
  BY <1>5 DEF TaskEnds
<1>6. CASE TaskJoins(j)
  BY <1>6 DEF TaskJoins
<1>7. CASE Collect(j)
  BY <1>7 DEF Collect
<1>8. CASE TimeOut(j)
  BY <1>8 DEF TimeOut
<1>9. CASE Disconnect(j)
  BY <1>9 DEF Disconnect
<1>10. CASE Unregister(j)
  BY <1>10 DEF Unregister
<1>11. CASE ReleaseSlot(j)
  BY <1>11 DEF ReleaseSlot
<1>12. CASE CallPeers(j)
  BY <1>12 DEF CallPeers
<1> QED
  BY <1>1, <1>2, <1>3, <1>4, <1>5, <1>6, <1>7, <1>8,
     <1>9, <1>10, <1>11, <1>12
  DEF JobStep

\* Every step keeps entries and their owners together.
LEMMA NextEntries == LocalTypeOK /\ EntriesOwned /\ [Next]_vars => EntriesOwned'
<1> SUFFICES ASSUME LocalTypeOK, EntriesOwned, [Next]_vars PROVE EntriesOwned'
  OBVIOUS
<1>1. ASSUME NEW j \in Job, NEW value \in {"work", "failed", "gone"},
             LeaveRemote(j, value)
      PROVE  EntriesOwned'
  BY <1>1 DEF LeaveRemote, LocalTypeOK, EntriesOwned, Registered, Place, Goto
<1>2. ASSUME NEW c \in Cancel, CancelLocal(c)
      PROVE  EntriesOwned'
  BY <1>2 DEF CancelLocal, EntriesOwned, Registered, tableVars
<1>3. CASE UNCHANGED localVars
  BY <1>3 DEF localVars, jobVars, EntriesOwned, Registered
<1> QED
  BY <1>1, <1>2, <1>3, StepKinds, JobStepEntries

\* An entry is there exactly as long as the future that put it there: it is never
\* left behind, and none is removed for another job (LocalWorkJobGuard).
THEOREM EntriesAreOwned == Spec => []EntriesOwned
<1>1. Init => EntriesOwned
  BY NobodyAssumption DEF Init, EntriesOwned, Registered
<1> QED
  BY <1>1, LocalTypes, NextEntries, PTL DEF Spec

-----------------------------------------------------------------------------
(* Generators that run.                                                    *)

\* Why: the future of a running task waits for it, or is past its guard, which
\* cancelled the token.
GuardedInv ==
    \A j \in Job : task[j] = "running" =>
        pc[j] \in {"waiting", "unregistering"} \/ token[j]

\* A job's step keeps a running generator within reach.
LEMMA JobStepGuarded ==
    ASSUME LocalTypeOK, GuardedInv, NEW j \in Job, JobStep(j)
    PROVE  GuardedInv'
<1> USE DEF LocalTypeOK, GuardedInv, Place, Stage, Goto
<1>1. CASE AcquireSlot(j)
  BY <1>1 DEF AcquireSlot
<1>2. CASE Register(j)
  BY <1>2 DEF Register
<1>3. CASE Spawn(j)
  BY <1>3 DEF Spawn
<1>4. CASE InitFails(j)
  BY <1>4 DEF InitFails
<1>5. CASE \E outcome \in {"work", "failed", "nothing"} : TaskEnds(j, outcome)
  BY <1>5 DEF TaskEnds
<1>6. CASE TaskJoins(j)
  BY <1>6 DEF TaskJoins
<1>7. CASE Collect(j)
  BY <1>7 DEF Collect
<1>8. CASE TimeOut(j)
  BY <1>8 DEF TimeOut
<1>9. CASE Disconnect(j)
  BY <1>9 DEF Disconnect
<1>10. CASE Unregister(j)
  BY <1>10 DEF Unregister, CancelOwnToken
<1>11. CASE ReleaseSlot(j)
  BY <1>11 DEF ReleaseSlot
<1>12. CASE CallPeers(j)
  BY <1>12 DEF CallPeers
<1> QED
  BY <1>1, <1>2, <1>3, <1>4, <1>5, <1>6, <1>7, <1>8,
     <1>9, <1>10, <1>11, <1>12
  DEF JobStep

\* Every step keeps running generators within reach.
LEMMA NextGuarded == LocalTypeOK /\ GuardedInv /\ [Next]_vars => GuardedInv'
<1> SUFFICES ASSUME LocalTypeOK, GuardedInv, [Next]_vars PROVE GuardedInv'
  OBVIOUS
<1>1. ASSUME NEW j \in Job, NEW value \in {"work", "failed", "gone"},
             LeaveRemote(j, value)
      PROVE  GuardedInv'
  BY <1>1 DEF LeaveRemote, LocalTypeOK, GuardedInv, Place, Goto
<1>2. ASSUME NEW c \in Cancel, CancelLocal(c)
      PROVE  GuardedInv'
  <2>1. \A j \in Job : token[j] => token'[j]
    BY <1>2 DEF CancelLocal
  <2> QED
    BY <1>2, <2>1 DEF CancelLocal, GuardedInv
<1>3. CASE UNCHANGED localVars
  BY <1>3 DEF localVars, jobVars, GuardedInv
<1> QED
  BY <1>1, <1>2, <1>3, StepKinds, JobStepGuarded

\* A running generator is within reach at every moment (LocalWorkJobGuard).
THEOREM Guarded == Spec => []GuardedInv
<1>1. Init => GuardedInv
  BY DEF Init, GuardedInv
<1> QED
  BY <1>1, LocalTypes, NextGuarded, PTL DEF Spec

\* No generator is out of reach: work_cancel finds its token, or it was told to
\* stop already (generate_local_work with LocalWorkJobGuard).
THEOREM RunningIsReachable == Spec => []RunningIsCancellable
<1>1. LocalTypeOK /\ EntriesOwned /\ GuardedInv => RunningIsCancellable
  BY DEF LocalTypeOK, EntriesOwned, GuardedInv, Registered, RunningIsCancellable
<1> QED
  BY <1>1, LocalTypes, EntriesAreOwned, Guarded, PTL

-----------------------------------------------------------------------------
(* The slot.                                                               *)

\* Where a future is tells whether its task exists.
TaskInv ==
    \A j \in Job :
        /\ pc[j] \in {"new", "holding", "starting", "releasing", "remote"}
              => task[j] = "none"
        /\ pc[j] = "waiting" => task[j] # "none"

\* A job's step keeps its future and its task in step.
LEMMA JobStepTask ==
    ASSUME LocalTypeOK, TaskInv, NEW j \in Job, JobStep(j)
    PROVE  TaskInv'
<1> USE DEF LocalTypeOK, TaskInv, Place, Stage, Goto
<1>1. CASE AcquireSlot(j)
  BY <1>1 DEF AcquireSlot
<1>2. CASE Register(j)
  BY <1>2 DEF Register
<1>3. CASE Spawn(j)
  BY <1>3 DEF Spawn
<1>4. CASE InitFails(j)
  BY <1>4 DEF InitFails
<1>5. CASE \E outcome \in {"work", "failed", "nothing"} : TaskEnds(j, outcome)
  BY <1>5 DEF TaskEnds
<1>6. CASE TaskJoins(j)
  BY <1>6 DEF TaskJoins
<1>7. CASE Collect(j)
  BY <1>7 DEF Collect
<1>8. CASE TimeOut(j)
  BY <1>8 DEF TimeOut
<1>9. CASE Disconnect(j)
  BY <1>9 DEF Disconnect
<1>10. CASE Unregister(j)
  BY <1>10 DEF Unregister
<1>11. CASE ReleaseSlot(j)
  BY <1>11 DEF ReleaseSlot
<1>12. CASE CallPeers(j)
  BY <1>12 DEF CallPeers
<1> QED
  BY <1>1, <1>2, <1>3, <1>4, <1>5, <1>6, <1>7, <1>8,
     <1>9, <1>10, <1>11, <1>12
  DEF JobStep

\* Every step keeps futures and tasks in step.
LEMMA NextTask == LocalTypeOK /\ TaskInv /\ [Next]_vars => TaskInv'
<1> SUFFICES ASSUME LocalTypeOK, TaskInv, [Next]_vars PROVE TaskInv'
  OBVIOUS
<1>1. ASSUME NEW j \in Job, NEW value \in {"work", "failed", "gone"},
             LeaveRemote(j, value)
      PROVE  TaskInv'
  BY <1>1 DEF LeaveRemote, LocalTypeOK, TaskInv, Place, Goto
<1>2. ASSUME NEW c \in Cancel, CancelLocal(c)
      PROVE  TaskInv'
  BY <1>2 DEF CancelLocal, TaskInv
<1>3. CASE UNCHANGED localVars
  BY <1>3 DEF localVars, jobVars, TaskInv
<1> QED
  BY <1>1, <1>2, <1>3, StepKinds, JobStepTask

\* A future and its task are in step at every moment (generate_local_work).
THEOREM TaskPlaces == Spec => []TaskInv
<1>1. Init => TaskInv
  BY DEF Init, TaskInv
<1> QED
  BY <1>1, LocalTypes, NextTask, PTL DEF Spec

\* The slot without counting: free and held by none, or taken and held by one.
Holds(j) == FutureHolds(j) \/ task[j] = "running"
SlotInv ==
    \/ permits = 1 /\ \A j \in Job : ~Holds(j)
    \/ permits = 0 /\ \E j \in Job : \A k \in Job : Holds(k) <=> k = j

\* A step that leaves the permits alone leaves every hold where it is.
LEMMA HoldsKept ==
    ASSUME SlotInv, permits' = permits,
           \A j \in Job : Holds(j)' <=> Holds(j)
    PROVE  SlotInv'
  BY DEF SlotInv

\* A step that takes the permit makes its job the holder.
LEMMA SlotTaken ==
    ASSUME SlotInv, permits \in Nat, permits > 0, permits' = permits - 1,
           NEW j \in Job, Holds(j)', \A k \in Job \ {j} : Holds(k)' <=> Holds(k)
    PROVE  SlotInv'
<1>1. permits = 1 /\ \A k \in Job : ~Holds(k)
  BY DEF SlotInv
<1> QED
  BY <1>1 DEF SlotInv

\* A step that gives the permit back was its holder's.
LEMMA SlotFreed ==
    ASSUME SlotInv, permits' = permits + 1,
           NEW j \in Job, Holds(j), ~Holds(j)',
           \A k \in Job \ {j} : Holds(k)' <=> Holds(k)
    PROVE  SlotInv'
<1>1. permits = 0 /\ \A k \in Job : Holds(k) <=> k = j
  BY DEF SlotInv
<1> QED
  BY <1>1 DEF SlotInv

\* A job's step keeps the account of the slot.
LEMMA JobStepSlot ==
    ASSUME LocalTypeOK, TaskInv, SlotInv, NEW j \in Job, JobStep(j)
    PROVE  SlotInv'
<1> USE DEF LocalTypeOK, TaskInv, Holds, FutureHolds, Place, Stage, Goto, Frees
<1>1. CASE AcquireSlot(j)
  <2>1. CASE permits > 0
    <3>1. permits' = permits - 1 /\ Holds(j)'
      BY <1>1, <2>1 DEF AcquireSlot
    <3>2. \A k \in Job \ {j} : Holds(k)' <=> Holds(k)
      BY <1>1 DEF AcquireSlot
    <3> QED
      BY <2>1, <3>1, <3>2, SlotTaken
  <2>2. CASE ~(permits > 0)
    <3>1. permits' = permits /\ \A k \in Job : Holds(k)' <=> Holds(k)
      BY <1>1, <2>2 DEF AcquireSlot
    <3> QED
      BY <3>1, HoldsKept
  <2> QED
    BY <2>1, <2>2
<1>2. CASE Register(j)
  <2>1. permits' = permits /\ \A k \in Job : Holds(k)' <=> Holds(k)
    BY <1>2 DEF Register
  <2> QED
    BY <2>1, HoldsKept
<1>3. CASE Spawn(j)
  <2>1. permits' = permits /\ \A k \in Job : Holds(k)' <=> Holds(k)
    BY <1>3 DEF Spawn
  <2> QED
    BY <2>1, HoldsKept
<1>4. CASE InitFails(j)
  <2>1. permits' = permits /\ \A k \in Job : Holds(k)' <=> Holds(k)
    BY <1>4 DEF InitFails
  <2> QED
    BY <2>1, HoldsKept
<1>5. CASE \E outcome \in {"work", "failed", "nothing"} : TaskEnds(j, outcome)
  <2>1. permits' = permits + 1 /\ Holds(j) /\ ~Holds(j)'
    BY <1>5 DEF TaskEnds
  <2>2. \A k \in Job \ {j} : Holds(k)' <=> Holds(k)
    BY <1>5 DEF TaskEnds
  <2> QED
    BY <2>1, <2>2, SlotFreed
<1>6. CASE TaskJoins(j)
  <2>1. permits' = permits /\ \A k \in Job : Holds(k)' <=> Holds(k)
    BY <1>6 DEF TaskJoins
  <2> QED
    BY <2>1, HoldsKept
<1>7. CASE Collect(j)
  <2>1. permits' = permits /\ \A k \in Job : Holds(k)' <=> Holds(k)
    BY <1>7 DEF Collect
  <2> QED
    BY <2>1, HoldsKept
<1>8. CASE TimeOut(j)
  <2>1. permits' = permits /\ \A k \in Job : Holds(k)' <=> Holds(k)
    BY <1>8 DEF TimeOut
  <2> QED
    BY <2>1, HoldsKept
<1>9. CASE Disconnect(j)
  <2>1. permits' = permits /\ \A k \in Job : Holds(k)' <=> Holds(k)
    BY <1>9 DEF Disconnect
  <2> QED
    BY <2>1, HoldsKept
<1>10. CASE Unregister(j)
  <2>1. permits' = permits /\ \A k \in Job : Holds(k)' <=> Holds(k)
    BY <1>10 DEF Unregister
  <2> QED
    BY <2>1, HoldsKept
<1>11. CASE ReleaseSlot(j)
  <2>1. permits' = permits + 1 /\ Holds(j) /\ ~Holds(j)'
    BY <1>11 DEF ReleaseSlot
  <2>2. \A k \in Job \ {j} : Holds(k)' <=> Holds(k)
    BY <1>11 DEF ReleaseSlot
  <2> QED
    BY <2>1, <2>2, SlotFreed
<1>12. CASE CallPeers(j)
  <2>1. permits' = permits /\ \A k \in Job : Holds(k)' <=> Holds(k)
    BY <1>12 DEF CallPeers
  <2> QED
    BY <2>1, HoldsKept
<1> QED
  BY <1>1, <1>2, <1>3, <1>4, <1>5, <1>6, <1>7, <1>8,
     <1>9, <1>10, <1>11, <1>12
  DEF JobStep

\* Every step keeps the account of the slot.
LEMMA NextSlot ==
    LocalTypeOK /\ TaskInv /\ SlotInv /\ [Next]_vars => SlotInv'
<1> SUFFICES ASSUME LocalTypeOK, TaskInv, SlotInv, [Next]_vars PROVE SlotInv'
  OBVIOUS
<1>1. ASSUME NEW j \in Job, NEW value \in {"work", "failed", "gone"},
             LeaveRemote(j, value)
      PROVE  SlotInv'
  <2>1. permits' = permits /\ \A k \in Job : Holds(k)' <=> Holds(k)
    BY <1>1 DEF LeaveRemote, LocalTypeOK, TaskInv, Holds, FutureHolds, Goto
  <2> QED
    BY <2>1, HoldsKept
<1>2. ASSUME NEW c \in Cancel, CancelLocal(c)
      PROVE  SlotInv'
  <2>1. UNCHANGED <<permits, pc, task>>
    BY <1>2 DEF CancelLocal
  <2> QED
    BY <2>1, HoldsKept DEF Holds, FutureHolds
<1>3. CASE UNCHANGED localVars
  BY <1>3, HoldsKept DEF localVars, jobVars, Holds, FutureHolds
<1> QED
  BY <1>1, <1>2, <1>3, StepKinds, JobStepSlot

\* The one slot is never lost and never given out twice, whichever way requests
\* end (generate_local_work: the permit moves into the blocking task).
THEOREM SlotIsAccounted == Spec => []SlotAccounted
<1>1. Init => SlotInv
  BY DEF Init, SlotInv, Holds, FutureHolds
<1>2. SlotInv => SlotAccounted
  <2>1. ASSUME permits = 1, \A j \in Job : ~Holds(j) PROVE SlotAccounted
    <3>1. Holders = {}
      BY <2>1 DEF Holders, Holds
    <3> QED
      BY <2>1, <3>1, FS_EmptySet DEF SlotAccounted
  <2>2. ASSUME permits = 0, NEW j \in Job, \A k \in Job : Holds(k) <=> k = j
        PROVE  SlotAccounted
    <3>1. Holders = {j}
      BY <2>2 DEF Holders, Holds
    <3> QED
      BY <2>2, <3>1, FS_Singleton DEF SlotAccounted
  <2> QED
    BY <2>1, <2>2 DEF SlotInv
<1> QED
  BY <1>1, <1>2, LocalTypes, TaskPlaces, NextSlot, PTL DEF Spec
=============================================================================
