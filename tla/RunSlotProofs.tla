---------------------------- MODULE RunSlotProofs ----------------------------
(***************************************************************************)
(* Proofs about RunSlot: for any number of local requests and of jobs, the *)
(* slot, the permit and the current run agree, and the daemon leaves no    *)
(* run behind.                                                             *)
(***************************************************************************)
EXTENDS RunSlot, SequenceTheorems, TLAPS

(* The points of the model fall into three disjoint classes.               *)
LEMMA PointsApart ==
  /\ Waiting \cap Holding = {}
  /\ Waiting \cap Idle = {}
  /\ Holding \cap Idle = {}
  /\ Points = Waiting \cup Holding \cup Idle
BY DEF Waiting, Holding, Idle, Opened, InFlight, Points

(* A sequence without its i-th element: what is left, and where it was.    *)
LEMMA RemoveWaiter ==
  ASSUME NEW S, NEW s \in Seq(S), NEW i \in 1..Len(s)
  PROVE  /\ Without(s, i) \in Seq(S)
         /\ Len(Without(s, i)) = Len(s) - 1
         /\ \A k \in 1..(Len(s) - 1) :
              Without(s, i)[k] = IF k < i THEN s[k] ELSE s[k + 1]
<1> DEFINE u == SubSeq(s, 1, i - 1)
           v == SubSeq(s, i + 1, Len(s))
<1>1. Len(s) \in Nat /\ i \in Int /\ \A k \in 1..Len(s) : s[k] \in S
  BY LenProperties, ElementOfSeq
<1>2. /\ u \in Seq(S)
      /\ Len(u) = i - 1
      /\ \A k \in 1..(i - 1) : u[k] = s[k]
  BY <1>1, SubSeqProperties
<1>3. /\ v \in Seq(S)
      /\ Len(v) = Len(s) - i
      /\ \A k \in 1..(Len(s) - i) : v[k] = s[k + i]
  BY <1>1, SubSeqProperties
<1> HIDE DEF u, v
<1>4. /\ u \o v \in Seq(S)
      /\ Len(u \o v) = Len(u) + Len(v)
      /\ \A k \in 1..(Len(u) + Len(v)) :
           (u \o v)[k] = IF k <= Len(u) THEN u[k] ELSE v[k - Len(u)]
  BY <1>2, <1>3, ConcatProperties
<1>5. ASSUME NEW k \in 1..(Len(s) - 1)
      PROVE  (u \o v)[k] = IF k < i THEN s[k] ELSE s[k + 1]
  <2>1. CASE k < i
    BY <2>1, <1>1, <1>2, <1>3, <1>4
  <2>2. CASE ~(k < i)
    <3>1. (u \o v)[k] = v[k - (i - 1)] BY <2>2, <1>1, <1>2, <1>3, <1>4
    <3>2. k - (i - 1) \in 1..(Len(s) - i) BY <2>2, <1>1
    <3>3. (k - (i - 1)) + i = k + 1 BY <1>1
    <3>4. v[k - (i - 1)] = s[(k - (i - 1)) + i] BY <3>2, <1>3
    <3> QED BY <2>2, <3>1, <3>3, <3>4
  <2> QED BY <2>1, <2>2
<1>6. Without(s, i) = u \o v BY DEF u, v, Without
<1>7. Len(u \o v) = Len(s) - 1 BY <1>1, <1>2, <1>3, <1>4
<1> QED BY <1>4, <1>5, <1>6, <1>7

(* What the lemmas about the semaphore need of the type invariant.         *)
SemaphoreType ==
  /\ holder \in Actors \cup {None}
  /\ queue \in Seq(Actors)
  /\ pc \in [Actors -> Points]
  /\ None \notin Actors

(* An actor that keeps the permit it has moves between holding points.     *)
LEMMA HoldKeepsPermit ==
  ASSUME SemaphoreType, PermitOK, NEW a \in Actors, NEW point \in Holding,
         holder = a,
         pc' = [pc EXCEPT ![a] = point], UNCHANGED semaphore
  PROVE  PermitOK'
BY PointsApart DEF SemaphoreType, PermitOK, semaphore

(* An actor that has no part in the semaphore moves between idle points.   *)
LEMMA IdleKeepsPermit ==
  ASSUME SemaphoreType, PermitOK, NEW a \in Actors, NEW point \in Idle,
         pc[a] \in Idle,
         pc' = [pc EXCEPT ![a] = point], UNCHANGED semaphore
  PROVE  PermitOK'
BY PointsApart DEF SemaphoreType, PermitOK, semaphore

(* Asking for the permit: it is assigned at once, or the actor is queued.  *)
LEMMA AcquireKeepsPermit ==
  ASSUME SemaphoreType, PermitOK, NEW a \in Actors, NEW point \in Waiting,
         pc[a] \in Idle,
         pc' = [pc EXCEPT ![a] = point], Acquire(a)
  PROVE  /\ holder' \in Actors \cup {None} /\ queue' \in Seq(Actors)
         /\ PermitOK'
         /\ holder' = holder \/ (holder = None /\ holder' = a)
<1>1. CASE holder = None
  BY <1>1, PointsApart DEF SemaphoreType, PermitOK, Acquire
<1>2. CASE holder # None
  <2>1. queue' = Append(queue, a) /\ holder' = holder
    BY <1>2 DEF Acquire
  <2>2. /\ queue' \in Seq(Actors)
        /\ Len(queue') = Len(queue) + 1
        /\ \A i \in 1..Len(queue) : queue'[i] = queue[i]
        /\ queue'[Len(queue) + 1] = a
    BY <2>1, AppendProperties DEF SemaphoreType
  <2>3. holder # a
    BY <1>2, PointsApart DEF PermitOK
  <2>4. Len(queue) \in Nat /\ \A i \in 1..Len(queue) : queue[i] \in Actors /\ queue[i] # a
    BY LenProperties, ElementOfSeq, PointsApart DEF SemaphoreType, PermitOK
  <2>5. \A i \in 1..Len(queue') : queue'[i] # holder' /\ pc'[queue'[i]] \in Waiting
    BY <2>1, <2>2, <2>3, <2>4 DEF SemaphoreType, PermitOK
  <2>6. \A i, j \in 1..Len(queue') : queue'[i] = queue'[j] => i = j
    BY <2>2, <2>4 DEF PermitOK
  <2> QED BY <1>2, <2>1, <2>2, <2>3, <2>5, <2>6, PointsApart DEF SemaphoreType, PermitOK
<1> QED BY <1>1, <1>2

(* Giving the permit back: it is assigned to a waiter, or to nobody.       *)
LEMMA ReleaseKeepsPermit ==
  ASSUME SemaphoreType, PermitOK, NEW a \in Actors, NEW point \in Idle,
         holder = a,
         pc' = [pc EXCEPT ![a] = point], Release
  PROVE  /\ holder' \in Actors \cup {None} /\ queue' \in Seq(Actors)
         /\ PermitOK'
         /\ holder' # a
         /\ holder' # None => pc[holder'] \in Waiting
<1>1. CASE queue = <<>>
  BY <1>1, PointsApart DEF SemaphoreType, PermitOK, Release
<1>2. CASE queue # <<>>
  <2>1. holder' = Head(queue) /\ queue' = Tail(queue)
    BY <1>2 DEF Release
  <2>2. /\ Len(queue) \in Nat \ {0}
        /\ holder' = queue[1]
        /\ queue' \in Seq(Actors)
        /\ Len(queue') = Len(queue) - 1
        /\ \A i \in 1..Len(queue') : queue'[i] = queue[i + 1]
    BY <1>2, <2>1, HeadTailProperties, EmptySeq DEF SemaphoreType
  <2>3. \A i \in 1..Len(queue) : queue[i] \in Actors
    BY ElementOfSeq DEF SemaphoreType
  <2>4. holder' \in Actors /\ holder' # a /\ pc[holder'] \in Waiting
    BY <2>2, <2>3 DEF PermitOK
  <2>5. \A i \in 1..Len(queue') : queue'[i] # holder' /\ pc'[queue'[i]] \in Waiting
    BY <2>2, <2>3 DEF SemaphoreType, PermitOK
  <2>6. \A i, j \in 1..Len(queue') : queue'[i] = queue'[j] => i = j
    BY <2>2 DEF PermitOK
  <2>7. holder' # None /\ pc'[holder'] \in Waiting
    BY <2>4 DEF SemaphoreType
  <2>8. \A b \in Actors : pc'[b] \in Holding => holder' = b
    BY PointsApart DEF SemaphoreType, PermitOK
  <2> QED BY <2>2, <2>4, <2>5, <2>6, <2>7, <2>8 DEF PermitOK
<1> QED BY <1>1, <1>2

(* An acquire that is dropped, whether or not its permit had come.         *)
LEMMA AbandonKeepsPermit ==
  ASSUME SemaphoreType, PermitOK, NEW a \in Actors, NEW point \in Idle,
         pc[a] \in Waiting,
         pc' = [pc EXCEPT ![a] = point], Abandon(a)
  PROVE  /\ holder' \in Actors \cup {None} /\ queue' \in Seq(Actors)
         /\ PermitOK'
         /\ holder' # a
         /\ holder' # holder => holder = a
         /\ holder = a /\ holder' # None => pc[holder'] \in Waiting
<1>1. CASE holder = a /\ Release
  BY <1>1, ReleaseKeepsPermit
<1>2. CASE holder # a
  <2>1. holder' = holder
    BY <1>2 DEF Abandon
  <2>2. PICK n \in 1..Len(queue) :
           /\ queue[n] = a
           /\ queue' = Without(queue, n)
    BY <1>2 DEF Abandon
  <2>3. /\ queue' \in Seq(Actors)
        /\ Len(queue') = Len(queue) - 1
        /\ \A k \in 1..Len(queue') : queue'[k] = IF k < n THEN queue[k] ELSE queue[k + 1]
    <3>1. queue \in Seq(Actors) BY DEF SemaphoreType
    <3> QED BY <3>1, <2>2, RemoveWaiter
  <2>4. Len(queue) \in Nat /\ \A i \in 1..Len(queue) : queue[i] \in Actors
    BY LenProperties, ElementOfSeq DEF SemaphoreType
  <2>5. ASSUME NEW k \in 1..Len(queue')
        PROVE  \E m \in 1..Len(queue) :
                  m # n /\ queue'[k] = queue[m] /\ m = IF k < n THEN k ELSE k + 1
    <3>1. CASE k < n BY <3>1, <2>3, <2>4
    <3>2. CASE ~(k < n) BY <3>2, <2>3, <2>4
    <3> QED BY <3>1, <3>2
  <2>6. \A k \in 1..Len(queue') : queue'[k] # holder' /\ pc'[queue'[k]] \in Waiting
    <3>1. \A m \in 1..Len(queue) : m # n =>
             queue[m] \in Actors /\ queue[m] # a /\ queue[m] # holder /\ pc[queue[m]] \in Waiting
      BY <2>2, <2>4 DEF PermitOK
    <3> QED BY <3>1, <2>1, <2>5 DEF SemaphoreType
  <2>7. \A j, k \in 1..Len(queue') : queue'[j] = queue'[k] => j = k
    BY <2>3, <2>4, <2>5 DEF PermitOK
  <2>8. holder # None
    <3>1. Len(queue) # 0 BY <2>4
    <3>2. queue # <<>> BY <3>1, EmptySeq
    <3> QED BY <3>2 DEF PermitOK
  <2>9. \A b \in Actors : pc'[b] \in Holding => holder' = b
    BY <2>1, PointsApart DEF SemaphoreType, PermitOK
  <2>10. pc'[holder'] \in Holding \cup Waiting
    BY <1>2, <2>1, <2>8 DEF SemaphoreType, PermitOK
  <2> QED BY <1>2, <2>1, <2>3, <2>6, <2>7, <2>8, <2>9, <2>10 DEF SemaphoreType, PermitOK
<1> QED BY <1>1, <1>2 DEF Abandon

-----------------------------------------------------------------------------
LEMMA SemType == TypeOK => SemaphoreType
BY DistinctNames DEF TypeOK, SemaphoreType, Actors

(* The steps below are about where actors are: the sets of points are      *)
(* unfolded throughout.                                                    *)
USE DEF Waiting, Holding, Idle, Opened, InFlight, Points, LoopPoints, RequestPoints

LEMMA InitInv == Init => IInv
<1> SUFFICES ASSUME Init PROVE IInv
  OBVIOUS
<1> USE DistinctNames DEF Init, Actors, Runs
<1>1. queue \in Seq(Actors) /\ Len(queue) = 0
  BY EmptySeq
<1>2. TypeOK
  BY <1>1 DEF TypeOK, Shutdowns, Slots, Answers, FarmSides, RunEnds, Records
<1>3. PermitOK
  <2>1. 1..Len(queue) = {}
    BY <1>1
  <2> QED BY <2>1 DEF PermitOK
<1>5. PointsOK /\ JobOK /\ FarmOK /\ MismatchOK
  BY DEF PointsOK, JobOK, FarmOK, MismatchOK
<1>4. SlotTellsHolder /\ CurrentOK /\ LeavingOK /\ ExitLeavesNoRun /\ LeaseOK
  BY DEF SlotTellsHolder, CurrentOK, LeavingOK, ExitLeavesNoRun, LeaseOK
<1> QED BY <1>2, <1>3, <1>5, <1>4 DEF IInv

(* The top of the claim loop. *)
LEMMA LoopTopKeeps == ASSUME IInv, LoopTop PROVE IInv'
<1> USE DistinctNames DEF LoopTop, Goto, semaphore, Actors, Runs, Raised
<1>0. SemaphoreType BY SemType DEF IInv
<1>1. /\ PermitOK'
      /\ holder' \in Actors \cup {None} /\ queue' \in Seq(Actors)
      /\ holder' = holder \/ (holder = None /\ holder' = Loop)
  <2>1. CASE Raised
    BY <1>0, <2>1, IdleKeepsPermit DEF IInv, SemaphoreType
  <2>2. CASE ~(Raised)
    BY <1>0, <2>2, AcquireKeepsPermit DEF IInv
  <2> QED BY <2>1, <2>2
<1>2. slot' \in Slots
  BY DEF IInv, TypeOK, JobOK, Slots, Free, Polling, Opening, Running
<1>3. TypeOK' /\ PointsOK'
  BY <1>1, <1>2 DEF IInv, TypeOK, PointsOK, JobOK, FarmSides, Answers, RunEnds, Records, Shutdowns
<1>4. SlotTellsHolder' /\ CurrentOK'
  BY <1>0, <1>1 DEF IInv, TypeOK, PointsOK, PermitOK, JobOK, SlotTellsHolder, SlotFits, CurrentOK
<1>5. LeavingOK' /\ ExitLeavesNoRun'
  BY <1>1 DEF IInv, TypeOK, PointsOK, PermitOK, LeavingOK, ExitLeavesNoRun
<1>6. LeaseOK'
  BY DEF IInv, TypeOK, LeaseOK, JobOK, PermitOK
<1>7. JobOK' /\ FarmOK'
  <2>1. JobOK'
    BY <1>0, <1>1 DEF IInv, TypeOK, PointsOK, PermitOK, JobOK, FarmOK
  <2>2. FarmOK'
    BY <1>0, <1>1 DEF IInv, TypeOK, PointsOK, PermitOK, JobOK, FarmOK
  <2> QED BY <2>1, <2>2
<1>8. MismatchOK'
  BY <1>1 DEF IInv, TypeOK, PointsOK, PermitOK, JobOK, LeavingOK, ExitLeavesNoRun, MismatchOK
<1> QED BY <1>1, <1>3, <1>4, <1>5, <1>6, <1>7, <1>8 DEF IInv

(* The permit reaches the claim loop. *)
LEMMA LoopAcquiredKeeps == ASSUME IInv, LoopAcquired PROVE IInv'
<1> USE DistinctNames DEF LoopAcquired, Goto, semaphore, Actors, Runs, Raised
<1>0. SemaphoreType BY SemType DEF IInv
<1>1. /\ holder = Loop /\ UNCHANGED semaphore
      /\ PermitOK'
  <2>1. holder = Loop /\ UNCHANGED semaphore
    BY DEF IInv, PermitOK
  <2>2. PICK point \in Holding : pc' = [pc EXCEPT ![Loop] = point]
    OBVIOUS
  <2> QED BY <1>0, <2>1, <2>2, HoldKeepsPermit DEF IInv
<1>2. slot' \in Slots
  BY DEF IInv, TypeOK, JobOK, Slots, Free, Polling, Opening, Running
<1>3. TypeOK' /\ PointsOK'
  BY <1>1, <1>2 DEF IInv, TypeOK, PointsOK, JobOK, FarmSides, Answers, RunEnds, Records, Shutdowns
<1>4. SlotTellsHolder' /\ CurrentOK'
  BY <1>0, <1>1 DEF IInv, TypeOK, PointsOK, PermitOK, JobOK, SlotTellsHolder, SlotFits, CurrentOK
<1>5. LeavingOK' /\ ExitLeavesNoRun'
  BY <1>1 DEF IInv, TypeOK, PointsOK, PermitOK, LeavingOK, ExitLeavesNoRun
<1>6. LeaseOK'
  BY DEF IInv, TypeOK, LeaseOK, JobOK, PermitOK
<1>7. JobOK' /\ FarmOK'
  <2>1. JobOK'
    BY <1>0, <1>1 DEF IInv, TypeOK, PointsOK, PermitOK, JobOK, FarmOK
  <2>2. FarmOK'
    BY <1>0, <1>1 DEF IInv, TypeOK, PointsOK, PermitOK, JobOK, FarmOK
  <2> QED BY <2>1, <2>2
<1>8. MismatchOK'
  BY <1>1 DEF IInv, TypeOK, PointsOK, PermitOK, JobOK, LeavingOK, ExitLeavesNoRun, MismatchOK
<1> QED BY <1>1, <1>3, <1>4, <1>5, <1>6, <1>7, <1>8 DEF IInv

(* A shutdown overtakes the claim loop's acquire. *)
LEMMA LoopOvertakenKeeps == ASSUME IInv, LoopOvertaken PROVE IInv'
<1> USE DistinctNames DEF LoopOvertaken, Goto, semaphore, Actors, Runs, Raised
<1>0. SemaphoreType BY SemType DEF IInv
<1>1. /\ PermitOK'
      /\ holder' \in Actors \cup {None} /\ queue' \in Seq(Actors)
      /\ holder' # Loop
      /\ holder' # holder => holder = Loop
      /\ holder = Loop /\ holder' # None => pc[holder'] \in Waiting
  BY <1>0, AbandonKeepsPermit DEF IInv
<1>2. slot' \in Slots
  BY DEF IInv, TypeOK, JobOK, Slots, Free, Polling, Opening, Running
<1>3. TypeOK' /\ PointsOK'
  BY <1>1, <1>2 DEF IInv, TypeOK, PointsOK, JobOK, FarmSides, Answers, RunEnds, Records, Shutdowns
<1>4. SlotTellsHolder' /\ CurrentOK'
  BY <1>0, <1>1 DEF IInv, TypeOK, PointsOK, PermitOK, JobOK, SlotTellsHolder, SlotFits, CurrentOK
<1>5. LeavingOK' /\ ExitLeavesNoRun'
  BY <1>1 DEF IInv, TypeOK, PointsOK, PermitOK, LeavingOK, ExitLeavesNoRun
<1>6. LeaseOK'
  BY DEF IInv, TypeOK, LeaseOK, JobOK, PermitOK
<1>7. JobOK' /\ FarmOK'
  <2>1. JobOK'
    BY <1>0, <1>1 DEF IInv, TypeOK, PointsOK, PermitOK, JobOK, FarmOK
  <2>2. FarmOK'
    BY <1>0, <1>1 DEF IInv, TypeOK, PointsOK, PermitOK, JobOK, FarmOK
  <2> QED BY <2>1, <2>2
<1>8. MismatchOK'
  BY <1>1 DEF IInv, TypeOK, PointsOK, PermitOK, JobOK, LeavingOK, ExitLeavesNoRun, MismatchOK
<1> QED BY <1>1, <1>3, <1>4, <1>5, <1>6, <1>7, <1>8 DEF IInv

(* A claim returns. *)
LEMMA ClaimAnsweredKeeps == ASSUME IInv, ClaimAnswered PROVE IInv'
<1> USE DistinctNames DEF ClaimAnswered, Goto, semaphore, Actors, Runs, Raised
<1>0. SemaphoreType BY SemType DEF IInv
<1>1. /\ holder = Loop /\ UNCHANGED semaphore
      /\ PermitOK'
  <2>1. holder = Loop /\ UNCHANGED semaphore
    BY DEF IInv, PermitOK
  <2>2. PICK point \in Holding : pc' = [pc EXCEPT ![Loop] = point]
    OBVIOUS
  <2> QED BY <1>0, <2>1, <2>2, HoldKeepsPermit DEF IInv
<1>2. slot' \in Slots
  BY DEF IInv, TypeOK, JobOK, Slots, Free, Polling, Opening, Running
<1>3. TypeOK' /\ PointsOK'
  <2>1. farm' \in [Runs -> FarmSides]
    BY DEF IInv, TypeOK, FarmSides, Records
  <2>2. job' \in [Actors -> Runs \cup {None}]
    BY DEF IInv, TypeOK
  <2>3. after' \in [Actors -> {"pacing", "top", "drain", "exited", "over"}] /\ exiting' \in BOOLEAN
    BY DEF IInv, TypeOK
  <2>4. pc' \in [Actors -> Points] /\ PointsOK'
    BY DEF IInv, TypeOK, PointsOK
  <2> QED BY <1>1, <1>2, <2>1, <2>2, <2>3, <2>4 DEF IInv, TypeOK
<1>4. SlotTellsHolder' /\ CurrentOK'
  BY <1>0, <1>1 DEF IInv, TypeOK, PointsOK, PermitOK, JobOK, SlotTellsHolder, SlotFits, CurrentOK
<1>5. LeavingOK' /\ ExitLeavesNoRun'
  BY <1>1 DEF IInv, TypeOK, PointsOK, PermitOK, LeavingOK, ExitLeavesNoRun
<1>6. LeaseOK'
  BY DEF IInv, TypeOK, LeaseOK, JobOK, PermitOK
<1>7. JobOK' /\ FarmOK'
  <2>1. JobOK'
    BY <1>0, <1>1 DEF IInv, TypeOK, PointsOK, PermitOK, JobOK, FarmOK
  <2>2. FarmOK'
    BY <1>0, <1>1 DEF IInv, TypeOK, PointsOK, PermitOK, JobOK, FarmOK
  <2> QED BY <2>1, <2>2
<1>8. MismatchOK'
  BY <1>1 DEF IInv, TypeOK, PointsOK, PermitOK, JobOK, LeavingOK, ExitLeavesNoRun, MismatchOK
<1> QED BY <1>1, <1>3, <1>4, <1>5, <1>6, <1>7, <1>8 DEF IInv

(* A pause ends. *)
LEMMA LoopPacedKeeps == ASSUME IInv, LoopPaced PROVE IInv'
<1> USE DistinctNames DEF LoopPaced, Goto, semaphore, Actors, Runs, Raised
<1>0. SemaphoreType BY SemType DEF IInv
<1>1. PermitOK' /\ UNCHANGED semaphore
  <2>1. pc[Loop] \in Idle
    OBVIOUS
  <2>2. PICK point \in Idle : pc' = [pc EXCEPT ![Loop] = point]
    OBVIOUS
  <2> QED BY <1>0, <2>1, <2>2, IdleKeepsPermit DEF IInv
<1>2. slot' \in Slots
  BY DEF IInv, TypeOK, JobOK, Slots, Free, Polling, Opening, Running
<1>3. TypeOK' /\ PointsOK'
  BY <1>1, <1>2 DEF IInv, TypeOK, PointsOK, JobOK, FarmSides, Answers, RunEnds, Records, Shutdowns
<1>4. SlotTellsHolder' /\ CurrentOK'
  BY <1>0, <1>1 DEF IInv, TypeOK, PointsOK, PermitOK, JobOK, SlotTellsHolder, SlotFits, CurrentOK
<1>5. LeavingOK' /\ ExitLeavesNoRun'
  BY <1>1 DEF IInv, TypeOK, PointsOK, PermitOK, LeavingOK, ExitLeavesNoRun
<1>6. LeaseOK'
  BY DEF IInv, TypeOK, LeaseOK, JobOK, PermitOK
<1>7. JobOK' /\ FarmOK'
  <2>1. JobOK'
    BY <1>0, <1>1 DEF IInv, TypeOK, PointsOK, PermitOK, JobOK, FarmOK
  <2>2. FarmOK'
    BY <1>0, <1>1 DEF IInv, TypeOK, PointsOK, PermitOK, JobOK, FarmOK
  <2> QED BY <2>1, <2>2
<1>8. MismatchOK'
  BY <1>1 DEF IInv, TypeOK, PointsOK, PermitOK, JobOK, LeavingOK, ExitLeavesNoRun, MismatchOK
<1> QED BY <1>1, <1>3, <1>4, <1>5, <1>6, <1>7, <1>8 DEF IInv

(* drained() asks for the permit. *)
LEMMA DrainAsksKeeps == ASSUME IInv, DrainAsks PROVE IInv'
<1> USE DistinctNames DEF DrainAsks, Goto, semaphore, Actors, Runs, Raised
<1>0. SemaphoreType BY SemType DEF IInv
<1>1. /\ PermitOK'
      /\ holder' \in Actors \cup {None} /\ queue' \in Seq(Actors)
      /\ holder' = holder \/ (holder = None /\ holder' = Loop)
  BY <1>0, AcquireKeepsPermit DEF IInv
<1>2. slot' \in Slots
  BY DEF IInv, TypeOK, JobOK, Slots, Free, Polling, Opening, Running
<1>3. TypeOK' /\ PointsOK'
  BY <1>1, <1>2 DEF IInv, TypeOK, PointsOK, JobOK, FarmSides, Answers, RunEnds, Records, Shutdowns
<1>4. SlotTellsHolder' /\ CurrentOK'
  BY <1>0, <1>1 DEF IInv, TypeOK, PointsOK, PermitOK, JobOK, SlotTellsHolder, SlotFits, CurrentOK
<1>5. LeavingOK' /\ ExitLeavesNoRun'
  BY <1>1 DEF IInv, TypeOK, PointsOK, PermitOK, LeavingOK, ExitLeavesNoRun
<1>6. LeaseOK'
  BY DEF IInv, TypeOK, LeaseOK, JobOK, PermitOK
<1>7. JobOK' /\ FarmOK'
  <2>1. JobOK'
    BY <1>0, <1>1 DEF IInv, TypeOK, PointsOK, PermitOK, JobOK, FarmOK
  <2>2. FarmOK'
    BY <1>0, <1>1 DEF IInv, TypeOK, PointsOK, PermitOK, JobOK, FarmOK
  <2> QED BY <2>1, <2>2
<1>8. MismatchOK'
  BY <1>1 DEF IInv, TypeOK, PointsOK, PermitOK, JobOK, LeavingOK, ExitLeavesNoRun, MismatchOK
<1> QED BY <1>1, <1>3, <1>4, <1>5, <1>6, <1>7, <1>8 DEF IInv

(* drained() returns. *)
LEMMA DrainedKeeps == ASSUME IInv, Drained PROVE IInv'
<1> USE DistinctNames DEF Drained, Goto, semaphore, Actors, Runs, Raised
<1>0. SemaphoreType BY SemType DEF IInv
<1>1. /\ PermitOK'
      /\ holder' \in Actors \cup {None} /\ queue' \in Seq(Actors)
      /\ holder' # Loop
      /\ holder' # None => pc[holder'] \in Waiting
  BY <1>0, ReleaseKeepsPermit DEF IInv
<1>2. slot' \in Slots
  BY DEF IInv, TypeOK, JobOK, Slots, Free, Polling, Opening, Running
<1>3. TypeOK' /\ PointsOK'
  BY <1>1, <1>2 DEF IInv, TypeOK, PointsOK, JobOK, FarmSides, Answers, RunEnds, Records, Shutdowns
<1>4. SlotTellsHolder' /\ CurrentOK'
  BY <1>0, <1>1 DEF IInv, TypeOK, PointsOK, PermitOK, JobOK, SlotTellsHolder, SlotFits, CurrentOK
<1>5. LeavingOK' /\ ExitLeavesNoRun'
  BY <1>1 DEF IInv, TypeOK, PointsOK, PermitOK, LeavingOK, ExitLeavesNoRun
<1>6. LeaseOK'
  BY DEF IInv, TypeOK, LeaseOK, JobOK, PermitOK
<1>7. JobOK' /\ FarmOK'
  <2>1. JobOK'
    BY <1>0, <1>1 DEF IInv, TypeOK, PointsOK, PermitOK, JobOK, FarmOK
  <2>2. FarmOK'
    BY <1>0, <1>1 DEF IInv, TypeOK, PointsOK, PermitOK, JobOK, FarmOK
  <2> QED BY <2>1, <2>2
<1>8. MismatchOK'
  BY <1>1 DEF IInv, TypeOK, PointsOK, PermitOK, JobOK, LeavingOK, ExitLeavesNoRun, MismatchOK
<1> QED BY <1>1, <1>3, <1>4, <1>5, <1>6, <1>7, <1>8 DEF IInv

(* A local request arrives. *)
LEMMA AskKeeps == ASSUME IInv, NEW q \in Requests, Ask(q) PROVE IInv'
<1> USE DistinctNames DEF Ask, Goto, semaphore, Actors, Runs, Raised
<1>0. SemaphoreType BY SemType DEF IInv
<1>1. PermitOK' /\ UNCHANGED semaphore
  <2>1. pc[q] \in Idle
    OBVIOUS
  <2>2. PICK point \in Idle : pc' = [pc EXCEPT ![q] = point]
    OBVIOUS
  <2> QED BY <1>0, <2>1, <2>2, IdleKeepsPermit DEF IInv
<1>2. slot' \in Slots
  BY DEF IInv, TypeOK, JobOK, Slots, Free, Polling, Opening, Running
<1>3. TypeOK' /\ PointsOK'
  BY <1>1, <1>2 DEF IInv, TypeOK, PointsOK, JobOK, FarmSides, Answers, RunEnds, Records, Shutdowns
<1>4. SlotTellsHolder' /\ CurrentOK'
  BY <1>0, <1>1 DEF IInv, TypeOK, PointsOK, PermitOK, JobOK, SlotTellsHolder, SlotFits, CurrentOK
<1>5. LeavingOK' /\ ExitLeavesNoRun'
  BY <1>1 DEF IInv, TypeOK, PointsOK, PermitOK, LeavingOK, ExitLeavesNoRun
<1>6. LeaseOK'
  BY DEF IInv, TypeOK, LeaseOK, JobOK, PermitOK
<1>7. JobOK' /\ FarmOK'
  <2>1. JobOK'
    BY <1>0, <1>1 DEF IInv, TypeOK, PointsOK, PermitOK, JobOK, FarmOK
  <2>2. FarmOK'
    BY <1>0, <1>1 DEF IInv, TypeOK, PointsOK, PermitOK, JobOK, FarmOK
  <2> QED BY <2>1, <2>2
<1>8. MismatchOK'
  BY <1>1 DEF IInv, TypeOK, PointsOK, PermitOK, JobOK, LeavingOK, ExitLeavesNoRun, MismatchOK
<1> QED BY <1>1, <1>3, <1>4, <1>5, <1>6, <1>7, <1>8 DEF IInv

(* A local request tries the permit. *)
LEMMA TryAcquireKeeps == ASSUME IInv, NEW q \in Requests, TryAcquire(q) PROVE IInv'
<1> USE DistinctNames DEF TryAcquire, Goto, semaphore, Actors, Runs, Raised
<1>0. SemaphoreType BY SemType DEF IInv
<1>1. /\ PermitOK'
      /\ holder' \in Actors /\ UNCHANGED queue
      /\ holder' = holder \/ (holder = None /\ holder' = q)
  <2>1. CASE holder = None
    BY <1>0, <2>1, PointsApart DEF IInv, SemaphoreType, PermitOK
  <2>2. CASE holder # None
    BY <1>0, <2>2, IdleKeepsPermit DEF IInv, SemaphoreType
  <2> QED BY <2>1, <2>2
<1>2. slot' \in Slots
  BY DEF IInv, TypeOK, JobOK, Slots, Free, Polling, Opening, Running
<1>3. TypeOK' /\ PointsOK'
  BY <1>1, <1>2 DEF IInv, TypeOK, PointsOK, JobOK, FarmSides, Answers, RunEnds, Records, Shutdowns
<1>4. SlotTellsHolder' /\ CurrentOK'
  BY <1>0, <1>1 DEF IInv, TypeOK, PointsOK, PermitOK, JobOK, SlotTellsHolder, SlotFits, CurrentOK
<1>5. LeavingOK' /\ ExitLeavesNoRun'
  BY <1>1 DEF IInv, TypeOK, PointsOK, PermitOK, LeavingOK, ExitLeavesNoRun
<1>6. LeaseOK'
  BY DEF IInv, TypeOK, LeaseOK, JobOK, PermitOK
<1>7. JobOK' /\ FarmOK'
  <2>1. JobOK'
    BY <1>0, <1>1 DEF IInv, TypeOK, PointsOK, PermitOK, JobOK, FarmOK
  <2>2. FarmOK'
    BY <1>0, <1>1 DEF IInv, TypeOK, PointsOK, PermitOK, JobOK, FarmOK
  <2> QED BY <2>1, <2>2
<1>8. MismatchOK'
  BY <1>1 DEF IInv, TypeOK, PointsOK, PermitOK, JobOK, LeavingOK, ExitLeavesNoRun, MismatchOK
<1> QED BY <1>1, <1>3, <1>4, <1>5, <1>6, <1>7, <1>8 DEF IInv

(* A local request looks at the slot. *)
LEMMA LookKeeps == ASSUME IInv, NEW q \in Requests, Look(q) PROVE IInv'
<1> USE DistinctNames DEF Look, Goto, semaphore, Actors, Runs, Raised
<1>0. SemaphoreType BY SemType DEF IInv
<1>1. /\ PermitOK'
      /\ holder' \in Actors \cup {None} /\ queue' \in Seq(Actors)
      /\ holder' = holder \/ (holder = None /\ holder' = q)
  <2>1. CASE slot.kind = "Running"
    BY <1>0, <2>1, IdleKeepsPermit DEF IInv, SemaphoreType
  <2>2. CASE ~(slot.kind = "Running")
    BY <1>0, <2>2, AcquireKeepsPermit DEF IInv
  <2> QED BY <2>1, <2>2
<1>2. slot' \in Slots
  BY DEF IInv, TypeOK, JobOK, Slots, Free, Polling, Opening, Running
<1>3. TypeOK' /\ PointsOK'
  BY <1>1, <1>2 DEF IInv, TypeOK, PointsOK, JobOK, FarmSides, Answers, RunEnds, Records, Shutdowns
<1>4. SlotTellsHolder' /\ CurrentOK'
  BY <1>0, <1>1 DEF IInv, TypeOK, PointsOK, PermitOK, JobOK, SlotTellsHolder, SlotFits, CurrentOK
<1>5. LeavingOK' /\ ExitLeavesNoRun'
  BY <1>1 DEF IInv, TypeOK, PointsOK, PermitOK, LeavingOK, ExitLeavesNoRun
<1>6. LeaseOK'
  BY DEF IInv, TypeOK, LeaseOK, JobOK, PermitOK
<1>7. JobOK' /\ FarmOK'
  <2>1. JobOK'
    BY <1>0, <1>1 DEF IInv, TypeOK, PointsOK, PermitOK, JobOK, FarmOK
  <2>2. FarmOK'
    BY <1>0, <1>1 DEF IInv, TypeOK, PointsOK, PermitOK, JobOK, FarmOK
  <2> QED BY <2>1, <2>2
<1>8. MismatchOK'
  BY <1>1 DEF IInv, TypeOK, PointsOK, PermitOK, JobOK, LeavingOK, ExitLeavesNoRun, MismatchOK
<1> QED BY <1>1, <1>3, <1>4, <1>5, <1>6, <1>7, <1>8 DEF IInv

(* A queued request finds the slot running. *)
LEMMA FoundBusyKeeps == ASSUME IInv, NEW q \in Requests, FoundBusy(q) PROVE IInv'
<1> USE DistinctNames DEF FoundBusy, Goto, semaphore, Actors, Runs, Raised
<1>0. SemaphoreType BY SemType DEF IInv
<1>1. /\ PermitOK'
      /\ holder' \in Actors \cup {None} /\ queue' \in Seq(Actors)
      /\ holder' # q
      /\ holder' # holder => holder = q
      /\ holder = q /\ holder' # None => pc[holder'] \in Waiting
  BY <1>0, AbandonKeepsPermit DEF IInv
<1>2. slot' \in Slots
  BY DEF IInv, TypeOK, JobOK, Slots, Free, Polling, Opening, Running
<1>3. TypeOK' /\ PointsOK'
  BY <1>1, <1>2 DEF IInv, TypeOK, PointsOK, JobOK, FarmSides, Answers, RunEnds, Records, Shutdowns
<1>4. SlotTellsHolder' /\ CurrentOK'
  BY <1>0, <1>1 DEF IInv, TypeOK, PointsOK, PermitOK, JobOK, SlotTellsHolder, SlotFits, CurrentOK
<1>5. LeavingOK' /\ ExitLeavesNoRun'
  BY <1>1 DEF IInv, TypeOK, PointsOK, PermitOK, LeavingOK, ExitLeavesNoRun
<1>6. LeaseOK'
  BY DEF IInv, TypeOK, LeaseOK, JobOK, PermitOK
<1>7. JobOK' /\ FarmOK'
  <2>1. JobOK'
    BY <1>0, <1>1 DEF IInv, TypeOK, PointsOK, PermitOK, JobOK, FarmOK
  <2>2. FarmOK'
    BY <1>0, <1>1 DEF IInv, TypeOK, PointsOK, PermitOK, JobOK, FarmOK
  <2> QED BY <2>1, <2>2
<1>8. MismatchOK'
  BY <1>1 DEF IInv, TypeOK, PointsOK, PermitOK, JobOK, LeavingOK, ExitLeavesNoRun, MismatchOK
<1> QED BY <1>1, <1>3, <1>4, <1>5, <1>6, <1>7, <1>8 DEF IInv

(* The permit reaches a queued request. *)
LEMMA ServedKeeps == ASSUME IInv, NEW q \in Requests, Served(q) PROVE IInv'
<1> USE DistinctNames DEF Served, Goto, semaphore, Actors, Runs, Raised
<1>0. SemaphoreType BY SemType DEF IInv
<1>1. /\ holder = q /\ UNCHANGED semaphore
      /\ PermitOK'
  <2>1. holder = q /\ UNCHANGED semaphore
    BY DEF IInv, PermitOK
  <2>2. PICK point \in Holding : pc' = [pc EXCEPT ![q] = point]
    OBVIOUS
  <2> QED BY <1>0, <2>1, <2>2, HoldKeepsPermit DEF IInv
<1>2. slot' \in Slots
  BY DEF IInv, TypeOK, JobOK, Slots, Free, Polling, Opening, Running
<1>3. TypeOK' /\ PointsOK'
  BY <1>1, <1>2 DEF IInv, TypeOK, PointsOK, JobOK, FarmSides, Answers, RunEnds, Records, Shutdowns
<1>4. SlotTellsHolder' /\ CurrentOK'
  BY <1>0, <1>1 DEF IInv, TypeOK, PointsOK, PermitOK, JobOK, SlotTellsHolder, SlotFits, CurrentOK
<1>5. LeavingOK' /\ ExitLeavesNoRun'
  BY <1>1 DEF IInv, TypeOK, PointsOK, PermitOK, LeavingOK, ExitLeavesNoRun
<1>6. LeaseOK'
  BY DEF IInv, TypeOK, LeaseOK, JobOK, PermitOK
<1>7. JobOK' /\ FarmOK'
  <2>1. JobOK'
    BY <1>0, <1>1 DEF IInv, TypeOK, PointsOK, PermitOK, JobOK, FarmOK
  <2>2. FarmOK'
    BY <1>0, <1>1 DEF IInv, TypeOK, PointsOK, PermitOK, JobOK, FarmOK
  <2> QED BY <2>1, <2>2
<1>8. MismatchOK'
  BY <1>1 DEF IInv, TypeOK, PointsOK, PermitOK, JobOK, LeavingOK, ExitLeavesNoRun, MismatchOK
<1> QED BY <1>1, <1>3, <1>4, <1>5, <1>6, <1>7, <1>8 DEF IInv

(* A request with the permit is refused or opens its run. *)
LEMMA AdmittedKeeps == ASSUME IInv, NEW q \in Requests, Admitted(q) PROVE IInv'
<1> USE DistinctNames DEF Admitted, Goto, semaphore, Actors, Runs, Raised
<1>0. SemaphoreType BY SemType DEF IInv
<1>1. /\ PermitOK'
      /\ holder' \in Actors \cup {None} /\ queue' \in Seq(Actors)
      /\ exiting \/ Raised => holder' # q /\ (holder' # None => pc[holder'] \in Waiting)
      /\ ~(exiting \/ Raised) => holder' = q
  <2>0. holder = q
    BY DEF IInv, PermitOK
  <2>1. CASE exiting \/ Raised
    BY <1>0, <2>0, <2>1, ReleaseKeepsPermit DEF IInv
  <2>2. CASE ~(exiting \/ Raised)
    BY <1>0, <2>0, <2>2, HoldKeepsPermit DEF IInv, SemaphoreType
  <2> QED BY <2>1, <2>2
<1>2. slot' \in Slots
  BY DEF IInv, TypeOK, Slots, Free, Polling, Opening, Running
<1>3. TypeOK' /\ PointsOK'
  BY <1>1, <1>2 DEF IInv, TypeOK, PointsOK, Answers
<1>4. SlotTellsHolder' /\ CurrentOK'
  BY <1>0, <1>1 DEF IInv, TypeOK, PointsOK, PermitOK, JobOK, SlotTellsHolder, SlotFits, CurrentOK
<1>5. LeavingOK' /\ ExitLeavesNoRun'
  BY <1>1 DEF IInv, TypeOK, PointsOK, PermitOK, LeavingOK, ExitLeavesNoRun
<1>6. LeaseOK'
  <2>1. UNCHANGED <<farm, ended, job>> /\ pc[q] \notin Opened \cup InFlight
    OBVIOUS
  <2>2. \A a \in Actors : a # q => pc'[a] = pc[a]
    BY DEF IInv, TypeOK
  <2> QED BY <2>1, <2>2 DEF IInv, LeaseOK
<1>7. JobOK' /\ FarmOK'
  <2>1. JobOK'
    BY <1>0, <1>1 DEF IInv, TypeOK, PointsOK, PermitOK, JobOK, FarmOK
  <2>2. FarmOK'
    BY <1>0, <1>1 DEF IInv, TypeOK, PointsOK, PermitOK, JobOK, FarmOK
  <2> QED BY <2>1, <2>2
<1>8. MismatchOK'
  BY <1>1 DEF IInv, TypeOK, PointsOK, PermitOK, JobOK, LeavingOK, ExitLeavesNoRun, MismatchOK
<1> QED BY <1>1, <1>3, <1>4, <1>5, <1>6, <1>7, <1>8 DEF IInv

(* The farm answers the request for a run. *)
LEMMA OpenAnsweredKeeps == ASSUME IInv, NEW q \in Requests, OpenAnswered(q) PROVE IInv'
<1> USE DistinctNames DEF OpenAnswered, Goto, semaphore, Actors, Runs, Raised
<1>0. SemaphoreType BY SemType DEF IInv
<1>1. /\ holder = q /\ UNCHANGED semaphore
      /\ PermitOK'
  <2>1. holder = q /\ UNCHANGED semaphore
    BY DEF IInv, PermitOK
  <2>2. PICK point \in Holding : pc' = [pc EXCEPT ![q] = point]
    OBVIOUS
  <2> QED BY <1>0, <2>1, <2>2, HoldKeepsPermit DEF IInv
<1>2. slot' \in Slots
  BY DEF IInv, TypeOK, JobOK, Slots, Free, Polling, Opening, Running
<1>3. TypeOK' /\ PointsOK'
  BY <1>1, <1>2 DEF IInv, TypeOK, PointsOK, JobOK, FarmSides, Answers, RunEnds, Records, Shutdowns
<1>4. SlotTellsHolder' /\ CurrentOK'
  BY <1>0, <1>1 DEF IInv, TypeOK, PointsOK, PermitOK, JobOK, SlotTellsHolder, SlotFits, CurrentOK
<1>5. LeavingOK' /\ ExitLeavesNoRun'
  BY <1>1 DEF IInv, TypeOK, PointsOK, PermitOK, LeavingOK, ExitLeavesNoRun
<1>6. LeaseOK'
  BY DEF IInv, TypeOK, LeaseOK, JobOK, PermitOK
<1>7. JobOK' /\ FarmOK'
  <2>1. JobOK'
    BY <1>0, <1>1 DEF IInv, TypeOK, PointsOK, PermitOK, JobOK, FarmOK
  <2>2. FarmOK'
    BY <1>0, <1>1 DEF IInv, TypeOK, PointsOK, PermitOK, JobOK, FarmOK
  <2> QED BY <2>1, <2>2
<1>8. MismatchOK'
  BY <1>1 DEF IInv, TypeOK, PointsOK, PermitOK, JobOK, LeavingOK, ExitLeavesNoRun, MismatchOK
<1> QED BY <1>1, <1>3, <1>4, <1>5, <1>6, <1>7, <1>8 DEF IInv

(* A run is started, or refused because of a shutdown. *)
LEMMA StartKeeps == ASSUME IInv, NEW a \in Actors, Start(a) PROVE IInv'
<1> USE DistinctNames DEF Start, Goto, semaphore, Actors, Runs, Raised
<1>0. SemaphoreType BY SemType DEF IInv
<1>1. /\ holder = a /\ UNCHANGED semaphore
      /\ PermitOK'
  <2>1. holder = a /\ UNCHANGED semaphore
    BY DEF IInv, PermitOK
  <2>2. PICK point \in Holding : pc' = [pc EXCEPT ![a] = point]
    OBVIOUS
  <2> QED BY <1>0, <2>1, <2>2, HoldKeepsPermit DEF IInv
<1>2. slot' \in Slots
  BY DEF IInv, TypeOK, JobOK, Slots, Free, Polling, Opening, Running
<1>3. TypeOK' /\ PointsOK'
  BY <1>1, <1>2 DEF IInv, TypeOK, PointsOK, JobOK, FarmSides, Answers, RunEnds, Records, Shutdowns
<1>4. SlotTellsHolder' /\ CurrentOK'
  BY <1>0, <1>1 DEF IInv, TypeOK, PointsOK, PermitOK, JobOK, SlotTellsHolder, SlotFits, CurrentOK
<1>5. LeavingOK' /\ ExitLeavesNoRun'
  BY <1>1 DEF IInv, TypeOK, PointsOK, PermitOK, LeavingOK, ExitLeavesNoRun
<1>6. LeaseOK'
  BY DEF IInv, TypeOK, LeaseOK, JobOK, PermitOK
<1>7. JobOK' /\ FarmOK'
  <2>1. JobOK'
    BY <1>0, <1>1 DEF IInv, TypeOK, PointsOK, PermitOK, JobOK, FarmOK
  <2>2. FarmOK'
    BY <1>0, <1>1 DEF IInv, TypeOK, PointsOK, PermitOK, JobOK, FarmOK
  <2> QED BY <2>1, <2>2
<1>8. MismatchOK'
  BY <1>1 DEF IInv, TypeOK, PointsOK, PermitOK, JobOK, LeavingOK, ExitLeavesNoRun, MismatchOK
<1> QED BY <1>1, <1>3, <1>4, <1>5, <1>6, <1>7, <1>8 DEF IInv

(* A run that was never started is completed. *)
LEMMA RefusedKeeps == ASSUME IInv, NEW a \in Actors, Refused(a) PROVE IInv'
<1> USE DistinctNames DEF Refused, Goto, semaphore, Actors, Runs, Raised, Report, EndsAs, Agrees, Records
<1>0. SemaphoreType BY SemType DEF IInv
<1>1. /\ holder = a /\ UNCHANGED semaphore
      /\ PermitOK'
  <2>1. holder = a /\ UNCHANGED semaphore
    BY DEF IInv, PermitOK
  <2>2. PICK point \in Holding : pc' = [pc EXCEPT ![a] = point]
    OBVIOUS
  <2> QED BY <1>0, <2>1, <2>2, HoldKeepsPermit DEF IInv
<1>2. slot' \in Slots
  BY DEF IInv, TypeOK, JobOK, Slots, Free, Polling, Opening, Running
<1>3. TypeOK' /\ PointsOK'
  BY <1>1, <1>2 DEF IInv, TypeOK, PointsOK, JobOK, FarmSides, Answers, RunEnds, Records, Shutdowns
<1>4. SlotTellsHolder' /\ CurrentOK'
  BY <1>0, <1>1 DEF IInv, TypeOK, PointsOK, PermitOK, JobOK, SlotTellsHolder, SlotFits, CurrentOK
<1>5. LeavingOK' /\ ExitLeavesNoRun'
  BY <1>1 DEF IInv, TypeOK, PointsOK, PermitOK, LeavingOK, ExitLeavesNoRun
<1>6. LeaseOK'
  BY DEF IInv, TypeOK, LeaseOK, JobOK, PermitOK
<1>7. JobOK' /\ FarmOK'
  <2>1. JobOK'
    BY <1>0, <1>1 DEF IInv, TypeOK, PointsOK, PermitOK, JobOK, FarmOK
  <2>2. FarmOK'
    BY <1>0, <1>1 DEF IInv, TypeOK, PointsOK, PermitOK, JobOK, FarmOK
  <2> QED BY <2>1, <2>2
<1>8. MismatchOK'
  BY <1>1 DEF IInv, TypeOK, PointsOK, PermitOK, JobOK, LeavingOK, ExitLeavesNoRun, MismatchOK
<1> QED BY <1>1, <1>3, <1>4, <1>5, <1>6, <1>7, <1>8 DEF IInv

(* A run is published. *)
LEMMA EnterKeeps == ASSUME IInv, NEW a \in Actors, Enter(a) PROVE IInv'
<1> USE DistinctNames DEF Enter, Goto, semaphore, Actors, Runs, Raised
<1>0. SemaphoreType BY SemType DEF IInv
<1>1. /\ holder = a /\ UNCHANGED semaphore
      /\ PermitOK'
  <2>1. holder = a /\ UNCHANGED semaphore
    BY DEF IInv, PermitOK
  <2>2. PICK point \in Holding : pc' = [pc EXCEPT ![a] = point]
    OBVIOUS
  <2> QED BY <1>0, <2>1, <2>2, HoldKeepsPermit DEF IInv
<1>2. slot' \in Slots
  BY DEF IInv, TypeOK, JobOK, Slots, Free, Polling, Opening, Running
<1>3. TypeOK' /\ PointsOK'
  BY <1>1, <1>2 DEF IInv, TypeOK, PointsOK, JobOK, FarmSides, Answers, RunEnds, Records, Shutdowns
<1>4. SlotTellsHolder' /\ CurrentOK'
  BY <1>0, <1>1 DEF IInv, TypeOK, PointsOK, PermitOK, JobOK, SlotTellsHolder, SlotFits, CurrentOK
<1>5. LeavingOK' /\ ExitLeavesNoRun'
  BY <1>1 DEF IInv, TypeOK, PointsOK, PermitOK, LeavingOK, ExitLeavesNoRun
<1>6. LeaseOK'
  BY DEF IInv, TypeOK, LeaseOK, JobOK, PermitOK
<1>7. JobOK' /\ FarmOK'
  <2>1. JobOK'
    BY <1>0, <1>1 DEF IInv, TypeOK, PointsOK, PermitOK, JobOK, FarmOK
  <2>2. FarmOK'
    BY <1>0, <1>1 DEF IInv, TypeOK, PointsOK, PermitOK, JobOK, FarmOK
  <2> QED BY <2>1, <2>2
<1>8. MismatchOK'
  BY <1>1 DEF IInv, TypeOK, PointsOK, PermitOK, JobOK, LeavingOK, ExitLeavesNoRun, MismatchOK
<1> QED BY <1>1, <1>3, <1>4, <1>5, <1>6, <1>7, <1>8 DEF IInv

(* A run ends. *)
LEMMA RunEndedKeeps == ASSUME IInv, NEW a \in Actors, RunEnded(a) PROVE IInv'
<1> USE DistinctNames DEF RunEnded, Goto, semaphore, Actors, Runs, Raised, Report, EndsAs, Agrees, Records
<1>0. SemaphoreType BY SemType DEF IInv
<1>1. /\ holder = a /\ UNCHANGED semaphore
      /\ PermitOK'
  <2>1. holder = a /\ UNCHANGED semaphore
    BY DEF IInv, PermitOK
  <2>2. PICK point \in Holding : pc' = [pc EXCEPT ![a] = point]
    OBVIOUS
  <2> QED BY <1>0, <2>1, <2>2, HoldKeepsPermit DEF IInv
<1>2. slot' \in Slots
  BY DEF IInv, TypeOK, JobOK, Slots, Free, Polling, Opening, Running
<1>3. TypeOK' /\ PointsOK'
  <2>1. job[a] \in Runs
    BY DEF IInv, JobOK
  <2>2. farm' \in [Runs -> FarmSides]
    BY <2>1 DEF IInv, TypeOK, FarmSides, Records
  <2>3. ended' \in [Runs -> RunEnds \cup {"none"}]
    BY <2>1 DEF IInv, TypeOK, RunEnds
  <2>4. after' \in [Actors -> {"pacing", "top", "drain", "exited", "over"}] /\ exiting' \in BOOLEAN
    BY DEF IInv, TypeOK
  <2>5. pc' \in [Actors -> Points] /\ PointsOK'
    BY DEF IInv, TypeOK, PointsOK
  <2> QED BY <1>1, <1>2, <2>2, <2>3, <2>4, <2>5 DEF IInv, TypeOK
<1>4. SlotTellsHolder' /\ CurrentOK'
  BY <1>0, <1>1 DEF IInv, TypeOK, PointsOK, PermitOK, JobOK, SlotTellsHolder, SlotFits, CurrentOK
<1>5. LeavingOK' /\ ExitLeavesNoRun'
  BY <1>1 DEF IInv, TypeOK, PointsOK, PermitOK, LeavingOK, ExitLeavesNoRun
<1>6. LeaseOK'
  <2> SUFFICES ASSUME NEW r \in Runs, farm'[r] = "leased", ended'[r] = "none"
               PROVE  \E b \in Actors : job'[b] = r /\ pc'[b] \in Opened \cup InFlight
    BY DEF LeaseOK
  <2>1. PICK end \in RunEnds : EndsAs(job[a], end)
    OBVIOUS
  <2>2. job[a] \in Runs /\ end # "none"
    BY DEF IInv, JobOK, RunEnds, InFlight
  <2>3. r # job[a] /\ farm[r] = "leased" /\ ended[r] = "none"
    BY <2>1, <2>2 DEF IInv, TypeOK
  <2>4. PICK b \in Actors : job[b] = r /\ pc[b] \in Opened \cup InFlight
    BY <2>3 DEF IInv, LeaseOK
  <2>5. b # a /\ pc'[b] = pc[b] /\ job'[b] = r
    BY <2>3, <2>4 DEF IInv, TypeOK
  <2> QED BY <2>4, <2>5
<1>7. JobOK' /\ FarmOK'
  <2>1. JobOK'
    BY <1>0, <1>1 DEF IInv, TypeOK, PointsOK, PermitOK, JobOK, FarmOK
  <2>2. FarmOK'
    BY <1>0, <1>1 DEF IInv, TypeOK, PointsOK, PermitOK, JobOK, FarmOK
  <2> QED BY <2>1, <2>2
<1>8. MismatchOK'
  <2>1. CASE a = Loop
    <3>1. \A j \in Jobs : ended[j] # "VersionMismatch"
      BY <2>1 DEF IInv, MismatchOK
    <3>2. job[a] \in Jobs
      BY <2>1 DEF IInv, JobOK
    <3> QED BY <2>1, <3>1, <3>2 DEF IInv, TypeOK, MismatchOK
  <2>2. CASE a # Loop
    <3>1. job[a] = a /\ a \notin Jobs
      BY <2>2 DEF IInv, JobOK
    <3> QED BY <2>2, <3>1 DEF IInv, TypeOK, MismatchOK
  <2> QED BY <2>1, <2>2
<1> QED BY <1>1, <1>3, <1>4, <1>5, <1>6, <1>7, <1>8 DEF IInv

(* The slot is freed. *)
LEMMA HoldFreeKeeps == ASSUME IInv, NEW a \in Actors, HoldFree(a) PROVE IInv'
<1> USE DistinctNames DEF HoldFree, Goto, semaphore, Actors, Runs, Raised
<1>0. SemaphoreType BY SemType DEF IInv
<1>1. /\ holder = a /\ UNCHANGED semaphore
      /\ PermitOK'
  <2>1. holder = a /\ UNCHANGED semaphore
    BY DEF IInv, PermitOK
  <2>2. PICK point \in Holding : pc' = [pc EXCEPT ![a] = point]
    OBVIOUS
  <2> QED BY <1>0, <2>1, <2>2, HoldKeepsPermit DEF IInv
<1>2. slot' \in Slots
  BY DEF IInv, TypeOK, JobOK, Slots, Free, Polling, Opening, Running
<1>3. TypeOK' /\ PointsOK'
  BY <1>1, <1>2 DEF IInv, TypeOK, PointsOK, JobOK, FarmSides, Answers, RunEnds, Records, Shutdowns
<1>4. SlotTellsHolder' /\ CurrentOK'
  BY <1>0, <1>1 DEF IInv, TypeOK, PointsOK, PermitOK, JobOK, SlotTellsHolder, SlotFits, CurrentOK
<1>5. LeavingOK' /\ ExitLeavesNoRun'
  BY <1>1 DEF IInv, TypeOK, PointsOK, PermitOK, LeavingOK, ExitLeavesNoRun
<1>6. LeaseOK'
  BY DEF IInv, TypeOK, LeaseOK, JobOK, PermitOK
<1>7. JobOK' /\ FarmOK'
  <2>1. JobOK'
    BY <1>0, <1>1 DEF IInv, TypeOK, PointsOK, PermitOK, JobOK, FarmOK
  <2>2. FarmOK'
    BY <1>0, <1>1 DEF IInv, TypeOK, PointsOK, PermitOK, JobOK, FarmOK
  <2> QED BY <2>1, <2>2
<1>8. MismatchOK'
  BY <1>1 DEF IInv, TypeOK, PointsOK, PermitOK, JobOK, LeavingOK, ExitLeavesNoRun, MismatchOK
<1> QED BY <1>1, <1>3, <1>4, <1>5, <1>6, <1>7, <1>8 DEF IInv

(* The permit is given back. *)
LEMMA DropPermitKeeps == ASSUME IInv, NEW a \in Actors, DropPermit(a) PROVE IInv'
<1> USE DistinctNames DEF DropPermit, Goto, semaphore, Actors, Runs, Raised
<1>0. SemaphoreType BY SemType DEF IInv
<1>1. /\ PermitOK'
      /\ holder' \in Actors \cup {None} /\ queue' \in Seq(Actors)
      /\ holder' # a
      /\ holder' # None => pc[holder'] \in Waiting
  <2>1. holder = a
    BY DEF IInv, PermitOK
  <2>2. after[a] \in Idle
    BY DEF IInv, TypeOK
  <2> QED BY <1>0, <2>1, <2>2, ReleaseKeepsPermit DEF IInv
<1>2. slot' \in Slots
  BY DEF IInv, TypeOK, JobOK, Slots, Free, Polling, Opening, Running
<1>3. TypeOK' /\ PointsOK'
  BY <1>1, <1>2 DEF IInv, TypeOK, PointsOK, JobOK, FarmSides, Answers, RunEnds, Records, Shutdowns
<1>4. SlotTellsHolder' /\ CurrentOK'
  BY <1>0, <1>1 DEF IInv, TypeOK, PointsOK, PermitOK, JobOK, SlotTellsHolder, SlotFits, CurrentOK
<1>5. LeavingOK' /\ ExitLeavesNoRun'
  BY <1>1 DEF IInv, TypeOK, PointsOK, PermitOK, LeavingOK, ExitLeavesNoRun
<1>6. LeaseOK'
  BY DEF IInv, TypeOK, LeaseOK, JobOK, PermitOK
<1>7. JobOK' /\ FarmOK'
  <2>1. JobOK'
    BY <1>0, <1>1 DEF IInv, TypeOK, PointsOK, PermitOK, JobOK, FarmOK
  <2>2. FarmOK'
    BY <1>0, <1>1 DEF IInv, TypeOK, PointsOK, PermitOK, JobOK, FarmOK
  <2> QED BY <2>1, <2>2
<1>8. MismatchOK'
  BY <1>1 DEF IInv, TypeOK, PointsOK, PermitOK, JobOK, LeavingOK, ExitLeavesNoRun, MismatchOK
<1> QED BY <1>1, <1>3, <1>4, <1>5, <1>6, <1>7, <1>8 DEF IInv

(* A signal raises the shutdown, and nothing else changes. *)
LEMMA SignalKeeps == ASSUME IInv, Signal PROVE IInv'
<1> USE DEF Signal, IInv
<1>1. TypeOK' /\ PointsOK' /\ PermitOK' /\ JobOK'
  BY DEF TypeOK, Shutdowns, PointsOK, PermitOK, JobOK
<1>2. SlotTellsHolder' /\ CurrentOK' /\ ExitLeavesNoRun' /\ LeaseOK' /\ FarmOK' /\ MismatchOK'
  BY DEF SlotTellsHolder, SlotFits, CurrentOK, ExitLeavesNoRun, LeaseOK, FarmOK, MismatchOK
<1>3. LeavingOK'
  BY DEF LeavingOK, Raised
<1> QED BY <1>1, <1>2, <1>3

(* The process ends, and nothing else changes. *)
LEMMA ProcessEndsKeeps == ASSUME IInv, ProcessEnds PROVE IInv'
<1> USE DEF ProcessEnds, IInv
<1>1. TypeOK' /\ PointsOK' /\ PermitOK' /\ JobOK'
  BY DEF TypeOK, PointsOK, PermitOK, JobOK
<1>2. SlotTellsHolder' /\ CurrentOK' /\ ExitLeavesNoRun' /\ LeaseOK' /\ FarmOK' /\ MismatchOK'
  BY DEF SlotTellsHolder, SlotFits, CurrentOK, ExitLeavesNoRun, LeaseOK, FarmOK, MismatchOK
<1>3. LeavingOK'
  BY DEF LeavingOK, Raised
<1> QED BY <1>1, <1>2, <1>3

LEMMA StutterKeeps == ASSUME IInv, UNCHANGED vars PROVE IInv'
BY DEF vars, IInv, TypeOK, PointsOK, PermitOK, JobOK, SlotTellsHolder, SlotFits,
       CurrentOK, LeavingOK, Raised, ExitLeavesNoRun, LeaseOK, FarmOK, MismatchOK

LEMMA NextInv == IInv /\ [Next]_vars => IInv'
<1> SUFFICES ASSUME IInv, [Next]_vars PROVE IInv'
  OBVIOUS
<1>1. ASSUME NEW a \in Actors, RunStep(a) PROVE IInv'
  BY <1>1, StartKeeps, RefusedKeeps, EnterKeeps, HoldFreeKeeps, DropPermitKeeps DEF RunStep
<1>2. CASE LoopStep
  BY <1>1, <1>2, LoopTopKeeps, LoopAcquiredKeeps, LoopOvertakenKeeps, ClaimAnsweredKeeps,
     LoopPacedKeeps, DrainAsksKeeps, DrainedKeeps DEF LoopStep, Actors
<1>3. ASSUME NEW q \in Requests, Ask(q) \/ RequestStep(q) PROVE IInv'
  BY <1>1, <1>3, AskKeeps, TryAcquireKeeps, LookKeeps, FoundBusyKeeps, ServedKeeps,
     AdmittedKeeps, OpenAnsweredKeeps DEF RequestStep, Actors
<1>4. ASSUME NEW a \in Actors, RunEnded(a) PROVE IInv'
  BY <1>4, RunEndedKeeps
<1>5. CASE Signal BY <1>5, SignalKeeps
<1>6. CASE ProcessEnds BY <1>6, ProcessEndsKeeps
<1>7. CASE UNCHANGED vars BY <1>7, StutterKeeps
<1> QED BY <1>2, <1>3, <1>4, <1>5, <1>6, <1>7 DEF Next, Stopped

(* The inductive invariant holds of every behaviour, for any set of local  *)
(* requests and of jobs.                                                   *)
THEOREM Invariance == Spec => []IInv
<1>1. Init => IInv BY InitInv
<1>2. IInv /\ [Next]_vars => IInv' BY NextInv
<1> QED BY <1>1, <1>2, PTL DEF Spec

(* Every variable of the slot keeps its type. *)
THEOREM TypeCorrect == Spec => []TypeOK
<1>1. IInv => TypeOK BY DEF IInv
<1> QED BY <1>1, Invariance, PTL

(* The slot that is published is what its only holder is doing. *)
THEOREM SlotAgrees == Spec => []SlotTellsHolder
<1>1. IInv => SlotTellsHolder BY DEF IInv
<1> QED BY <1>1, Invariance, PTL

(* A client that attaches is handed the run that the slot names. *)
THEOREM AttachAgrees == Spec => []AttachFindsSlot
<1>1. IInv => AttachFindsSlot
  BY DEF IInv, CurrentOK, SlotTellsHolder, SlotFits, AttachFindsSlot
<1> QED BY <1>1, Invariance, PTL

(* Agent::run returns only when no run is opened, executed or completed. *)
THEOREM ExitIsClean == Spec => []ExitLeavesNoRun
<1>1. IInv => ExitLeavesNoRun BY DEF IInv
<1> QED BY <1>1, Invariance, PTL

(* The process does not end with a leased run that it did not end. *)
THEOREM LeasesAreAccounted == Spec => []EveryLeaseAccounted
<1>1. IInv => EveryLeaseAccounted
  BY DEF IInv, LeaseOK, LeavingOK, ExitLeavesNoRun, EveryLeaseAccounted
<1> QED BY <1>1, Invariance, PTL

(* Which steps take a run from the farm, and that none does after an exit. *)
THEOREM NothingLeasedAfterExit == Spec => NoLeaseAfterExit
<1>1. IInv /\ [Next]_vars => [exit # "none" => ~NewLease]_vars
  <2> SUFFICES ASSUME IInv, [Next]_vars, exit # "none" PROVE UNCHANGED vars \/ ~NewLease
    BY DEF vars
  <2>1. pc[Loop] = "exited" /\ \A a \in Actors : pc[a] \notin Opened \cup InFlight \cup {"opening"}
    BY DEF IInv, LeavingOK, ExitLeavesNoRun
  <2>2. UNCHANGED farm => ~NewLease
    BY DEF NewLease
  <2>3. ASSUME NEW a \in Actors, RunStep(a) \/ RunEnded(a) PROVE UNCHANGED farm
    BY <2>1, <2>3 DEF RunStep, Start, Refused, Enter, HoldFree, DropPermit, RunEnded
  <2>4. ASSUME LoopStep PROVE UNCHANGED farm
    <3>1. CASE RunStep(Loop) BY <3>1, <2>3 DEF Actors
    <3> QED BY <2>1, <2>4, <3>1 DEF LoopStep, LoopTop, LoopAcquired, LoopOvertaken, ClaimAnswered,
              LoopPaced, DrainAsks, Drained
  <2>5. ASSUME NEW q \in Requests, Ask(q) \/ RequestStep(q) PROVE UNCHANGED farm
    BY <2>1, <2>3, <2>5 DEF RequestStep, Ask, TryAcquire, Look, FoundBusy, Served, Admitted,
         OpenAnswered, Actors
  <2> QED BY <2>2, <2>3, <2>4, <2>5 DEF Next, Stopped, Signal, ProcessEnds, NewLease, vars
<1> QED BY <1>1, Invariance, PTL DEF Spec, NoLeaseAfterExit

(* After a claimed run was stopped by a 409 the loop keeps the permit, or  *)
(* has left: nothing is leased any more.                                   *)
THEOREM NothingLeasedAfterMismatch == Spec => NoLeaseAfterMismatch
<1> DEFINE Mismatched == \E j \in Jobs : ended[j] = "VersionMismatch"
<1>1. IInv /\ [Next]_vars => [Mismatched => ~NewLease]_vars
  <2> SUFFICES ASSUME IInv, [Next]_vars, Mismatched PROVE UNCHANGED vars \/ ~NewLease
    BY DEF vars
  <2>1. /\ exiting
        /\ pc[Loop] \in {"freeing", "dropping", "exited"}
        /\ \A q \in Requests : pc[q] # "opening"
    <3>1. exiting /\ pc[Loop] \in {"freeing", "dropping", "exited"}
      BY DEF IInv, MismatchOK
    <3>2. CASE pc[Loop] = "exited"
      BY <3>1, <3>2 DEF IInv, LeavingOK, ExitLeavesNoRun, Actors
    <3>3. CASE pc[Loop] \in {"freeing", "dropping"}
      BY <3>1, <3>3, DistinctNames DEF IInv, PermitOK, Actors
    <3> QED BY <3>1, <3>2, <3>3
  <2>2. UNCHANGED farm => ~NewLease
    BY DEF NewLease
  <2>3. ASSUME NEW a \in Actors, RunStep(a) \/ RunEnded(a) PROVE ~NewLease
    <3>1. CASE RunStep(a)
      <4>1. CASE Refused(a)
        BY <4>1 DEF Refused, Report, EndsAs, Records, NewLease, IInv, JobOK, TypeOK
      <4> QED BY <2>2, <3>1, <4>1 DEF RunStep, Start, Enter, HoldFree, DropPermit
    <3>2. CASE RunEnded(a)
      BY <3>2 DEF RunEnded, Report, EndsAs, Records, NewLease, IInv, JobOK, TypeOK
    <3> QED BY <2>3, <3>1, <3>2
  <2>4. ASSUME LoopStep PROVE ~NewLease
    <3>1. CASE RunStep(Loop) BY <3>1, <2>3 DEF Actors
    <3> QED BY <2>1, <2>2, <2>4, <3>1 DEF LoopStep, LoopTop, LoopAcquired, LoopOvertaken,
              ClaimAnswered, LoopPaced, DrainAsks, Drained
  <2>5. ASSUME NEW q \in Requests, Ask(q) \/ RequestStep(q) PROVE ~NewLease
    <3>1. CASE RunStep(q) BY <3>1, <2>3 DEF Actors
    <3> QED BY <2>1, <2>2, <2>5, <3>1 DEF RequestStep, Ask, TryAcquire, Look, FoundBusy,
              Served, Admitted, OpenAnswered
  <2> QED BY <2>2, <2>3, <2>4, <2>5 DEF Next, Stopped, Signal, ProcessEnds, vars
<1> QED BY <1>1, Invariance, PTL DEF Spec, NoLeaseAfterMismatch

-----------------------------------------------------------------------------
(* The daemon keeps its contract with the farm.                            *)

(* A run the daemon answers for is carried by the holder of the permit.    *)
LEMMA UnansweredIsCarried ==
  ASSUME IInv, NEW r \in Runs, Phase(r) \in {"taken", "started"}
  PROVE  /\ holder # None
         /\ job[holder] = r
         /\ pc[holder] \in Opened \cup InFlight
<1>1. ended[r] = "none"
  BY DEF Phase
<1>2. \E a \in Actors : job[a] = r /\ pc[a] \in Opened \cup InFlight
  BY <1>1 DEF Phase, IInv, LeaseOK
<1> QED BY <1>2, DistinctNames DEF IInv, PermitOK, Actors

(* The phase of the run an actor carries, by where the actor is.           *)
LEMMA CarriedPhase ==
  ASSUME IInv, NEW a \in Actors, pc[a] \in Opened \cup InFlight
  PROVE  /\ job[a] \in Runs
         /\ Phase(job[a]) = IF pc[a] \in InFlight THEN "started" ELSE "taken"
<1>1. job[a] \in Runs /\ ended[job[a]] = "none" /\ farm[job[a]] = "leased"
  BY DEF IInv, JobOK, Actors, Runs
<1>2. \A b \in Actors : pc[b] \in InFlight => b = a
  <2>1. \A b \in Actors : pc[b] \in Holding => holder = b
    BY DEF IInv, PermitOK
  <2> QED BY <2>1
<1> QED BY <1>1, <1>2 DEF Phase

Answering == {r \in Runs : Phase(r) \in {"taken", "started"}}

(* Nobody in the middle of a run: the daemon answers for none.             *)
LEMMA NoneCarried ==
  ASSUME IInv, holder # None => pc[holder] \notin Opened \cup InFlight
  PROVE  Answering = {}
BY UnansweredIsCarried DEF Answering

(* A step that leaves the phases alone and opens or closes nothing.        *)
LEMMA QuietStep ==
  ASSUME UNCHANGED exit, \A r \in Runs : Phase(r)' = Phase(r)
  PROVE  UNCHANGED <<[r \in Runs |-> Phase(r)], exit = "none">>
OBVIOUS

(* One actor moves, into no run and out of none, and no run ends.          *)
LEMMA MoveKeepsPhase ==
  ASSUME IInv, NEW a \in Actors, NEW point,
         pc' = [pc EXCEPT ![a] = point],
         pc[a] \in InFlight <=> point \in InFlight,
         \A r \in Runs : farm'[r] = "leased" <=> farm[r] = "leased",
         UNCHANGED ended,
         \A b \in Actors : job'[b] = job[b] \/ (b = a /\ point \notin InFlight)
  PROVE  \A r \in Runs : Phase(r)' = Phase(r)
<1>1. \A b \in Actors : pc'[b] \in InFlight <=> pc[b] \in InFlight
  BY DEF IInv, TypeOK
<1>2. \A b \in Actors, r \in Runs :
        (job'[b] = r /\ pc'[b] \in InFlight) <=> (job[b] = r /\ pc[b] \in InFlight)
  BY <1>1 DEF IInv, TypeOK
<1> QED BY <1>2 DEF Phase

(* One run changes its phase. *)
LEMMA OnePhase ==
  ASSUME NEW r \in Runs, NEW p,
         Phase(r)' = p, \A s \in Runs \ {r} : Phase(s)' = Phase(s)
  PROVE  [s \in Runs |-> Phase(s)]' = [[s \in Runs |-> Phase(s)] EXCEPT ![r] = p]
OBVIOUS

AbstractVars == <<[r \in Runs |-> Phase(r)], exit = "none">>

(* The run an actor carries is started or ended; no other run is touched.  *)
LEMMA CarrierMoves ==
  ASSUME IInv, NEW a \in Actors, NEW point \in Holding,
         pc[a] \in Opened \cup InFlight,
         pc' = [pc EXCEPT ![a] = point],
         point \in InFlight \/ ended'[job[a]] # "none",
         ended'[job[a]] # "none" \/ UNCHANGED ended,
         \A r \in Runs \ {job[a]} : ended'[r] = ended[r] /\ farm'[r] = farm[r],
         UNCHANGED <<exit, job>>
  PROVE  /\ \A s \in Runs \ {job[a]} : Phase(s)' = Phase(s)
         /\ Phase(job[a])' = IF ended'[job[a]] = "none" THEN "started" ELSE "ended"
<1>1. job[a] \in Runs /\ ended[job[a]] = "none" /\ pc[a] \in Points
  BY DEF IInv, JobOK, TypeOK, Actors, Runs
<1>2. \A b \in Actors : pc[b] \in InFlight => b = a
  BY DEF IInv, PermitOK, Holding
<1>3. \A b \in Actors : pc'[b] \in InFlight => b = a
  BY <1>2 DEF IInv, TypeOK
<1>4. pc'[a] = point
  BY DEF IInv, TypeOK
<1>5. ASSUME NEW s \in Runs \ {job[a]} PROVE Phase(s)' = Phase(s)
  BY <1>2, <1>3, <1>5 DEF Phase
<1>6. Phase(job[a])' = IF ended'[job[a]] = "none" THEN "started" ELSE "ended"
  BY <1>1, <1>4 DEF Phase
<1> QED BY <1>5, <1>6

(* A run starts, or ends, for the farm exactly once.                       *)
LEMMA CarrierRefines ==
  ASSUME IInv, NEW a \in Actors, NEW r \in Runs,
         pc[a] \in Opened \cup InFlight, job[a] = r,
         UNCHANGED exit,
         \A s \in Runs \ {r} : Phase(s)' = Phase(s),
         \/ Phase(r)' = "ended"
         \/ Phase(r)' = "started"
  PROVE  [Contract!Next]_AbstractVars
<1>1. Phase(r) = IF pc[a] \in InFlight THEN "started" ELSE "taken"
  BY CarriedPhase
<1>2. CASE Phase(r)' = Phase(r)
  <2>1. \A s \in Runs : Phase(s)' = Phase(s) BY <1>2
  <2> QED BY <2>1, QuietStep DEF AbstractVars
<1>3. CASE Phase(r)' # Phase(r)
  <2>1. CASE Phase(r)' = "ended"
    <3>1. [s \in Runs |-> Phase(s)]' = [[s \in Runs |-> Phase(s)] EXCEPT ![r] = "ended"]
      BY <1>1, <2>1, OnePhase
    <3>2. Contract!End(r)
      BY <1>1, <3>1 DEF Contract!End
    <3> QED BY <1>1, <3>2 DEF Contract!Next
  <2>2. CASE Phase(r)' = "started"
    <3>1. [s \in Runs |-> Phase(s)]' = [[s \in Runs |-> Phase(s)] EXCEPT ![r] = "started"]
      BY <1>1, <2>2, OnePhase
    <3>2. Contract!Begin(r)
      BY <1>1, <1>3, <2>2, <3>1 DEF Contract!Begin
    <3> QED BY <1>1, <3>2 DEF Contract!Next
  <2> QED BY <2>1, <2>2
<1> QED BY <1>2, <1>3

(* A run is taken while the daemon answers for no other.                   *)
LEMMA TakeRefines ==
  ASSUME IInv, NEW a \in Actors, NEW r \in Runs, NEW point \in Opened,
         pc[a] \in {"polling", "opening"},
         farm[r] = "unknown",
         farm' = [farm EXCEPT ![r] = "leased"],
         pc' = [pc EXCEPT ![a] = point],
         job' = [job EXCEPT ![a] = r],
         UNCHANGED <<exit, ended>>
  PROVE  [Contract!Next]_AbstractVars
<1>1. holder = a
  BY DEF IInv, PermitOK, Holding
<1>2. Answering = {}
  BY <1>1, NoneCarried DEF Opened, InFlight
<1>3. \A b \in Actors : pc[b] \notin InFlight
  BY <1>1 DEF IInv, PermitOK, Holding, InFlight
<1>4. \A b \in Actors : pc'[b] \notin InFlight
  BY <1>3 DEF IInv, TypeOK, Opened, InFlight
<1>5. ended[r] = "none"
  BY DEF IInv, FarmOK
<1>6. Phase(r) = "unknown" /\ Phase(r)' = "taken"
  BY <1>3, <1>4, <1>5 DEF Phase, IInv, TypeOK
<1>7. \A s \in Runs \ {r} : Phase(s)' = Phase(s)
  BY <1>3, <1>4 DEF Phase, IInv, TypeOK
<1>8. [s \in Runs |-> Phase(s)]' = [[s \in Runs |-> Phase(s)] EXCEPT ![r] = "taken"]
  BY <1>6, <1>7, OnePhase
<1>9. Contract!Unanswered = {}
  BY <1>2 DEF Contract!Unanswered, Answering
<1>10. exit = "none"
  BY DEF IInv, ExitLeavesNoRun, LeavingOK, PointsOK, RequestPoints, Actors
<1>11. Contract!Take(r)
  BY <1>6, <1>8, <1>9, <1>10 DEF Contract!Take
<1> QED BY <1>11 DEF Contract!Next

(* The daemon returns while it answers for no run.                         *)
LEMMA CloseRefines ==
  ASSUME IInv, Answering = {}, exit = "none", exit' # "none",
         \A r \in Runs : Phase(r)' = Phase(r)
  PROVE  [Contract!Next]_AbstractVars
<1>1. Contract!Close
  BY DEF Contract!Close, Contract!Unanswered, Answering
<1> QED BY <1>1 DEF Contract!Next

(* A step of the loop or of a request that touches no run's phase.         *)
QuietMove(a) ==
  \E point \in Points :
    /\ pc' = [pc EXCEPT ![a] = point]
    /\ pc[a] \in InFlight <=> point \in InFlight
    /\ \A r \in Runs : farm'[r] = "leased" <=> farm[r] = "leased"
    /\ UNCHANGED ended
    /\ \A b \in Actors : job'[b] = job[b] \/ (b = a /\ point \notin InFlight)

LEMMA QuietRefines ==
  ASSUME IInv, NEW a \in Actors, QuietMove(a), UNCHANGED exit
  PROVE  [Contract!Next]_AbstractVars
<1>1. \A r \in Runs : Phase(r)' = Phase(r)
  BY MoveKeepsPhase DEF QuietMove
<1> QED BY <1>1, QuietStep DEF AbstractVars

(* The steps of a run, for the loop and a request alike.                   *)
LEMMA RunStepRefines ==
  ASSUME IInv, IInv', NEW a \in Actors, RunStep(a) \/ RunEnded(a)
  PROVE  [Contract!Next]_AbstractVars
<1>1. CASE Start(a)
  <2>1. CASE Raised
    <3>1. QuietMove(a)
      BY <1>1, <2>1 DEF Start, Goto, QuietMove, Points, Holding, Opened, InFlight
    <3> QED BY <1>1, <3>1, QuietRefines DEF Start
  <2>2. CASE ~Raised
    <3>1. pc[a] \in Opened \cup InFlight /\ "entering" \in InFlight
      BY <1>1 DEF Start, Opened, InFlight
    <3>2. job[a] \in Runs /\ ended[job[a]] = "none"
      BY <3>1 DEF IInv, JobOK, Actors, Runs
    <3>3. /\ \A s \in Runs \ {job[a]} : Phase(s)' = Phase(s)
          /\ Phase(job[a])' = "started"
      BY <1>1, <2>2, <3>1, <3>2, CarrierMoves DEF Start, Goto, Holding
    <3> QED BY <1>1, <3>1, <3>2, <3>3, CarrierRefines DEF Start
  <2> QED BY <2>1, <2>2
<1>2. CASE Refused(a) \/ RunEnded(a)
  <2>1. pc[a] \in Opened \cup InFlight
    BY <1>2 DEF Refused, RunEnded, Opened, InFlight
  <2>2. job[a] \in Runs
    BY <2>1 DEF IInv, JobOK, Actors, Runs
  <2>3. /\ ended'[job[a]] # "none"
        /\ \A r \in Runs \ {job[a]} : ended'[r] = ended[r] /\ farm'[r] = farm[r]
    BY <1>2, <2>2 DEF Refused, RunEnded, Report, EndsAs, RunEnds, IInv, TypeOK
  <2>4. pc' = [pc EXCEPT ![a] = "freeing"] /\ UNCHANGED <<exit, job>> /\ "freeing" \in Holding
    BY <1>2 DEF Refused, RunEnded, Goto, Holding
  <2>5. /\ \A s \in Runs \ {job[a]} : Phase(s)' = Phase(s)
        /\ Phase(job[a])' = "ended"
    BY <2>1, <2>3, <2>4, CarrierMoves
  <2> QED BY <2>1, <2>2, <2>4, <2>5, CarrierRefines
<1>3. CASE Enter(a) \/ HoldFree(a)
  <2>1. QuietMove(a)
    BY <1>3 DEF Enter, HoldFree, Goto, QuietMove, Points, Holding, Opened, InFlight
  <2> QED BY <1>3, <2>1, QuietRefines DEF Enter, HoldFree
<1>4. CASE DropPermit(a)
  <2>1. after[a] \in Idle /\ pc[a] = "dropping"
    BY <1>4 DEF DropPermit, IInv, TypeOK, Idle
  <2>2. /\ pc' = [pc EXCEPT ![a] = after[a]]
        /\ pc[a] \notin InFlight /\ after[a] \notin InFlight
        /\ UNCHANGED <<farm, ended>>
        /\ \A b \in Actors : job'[b] = job[b] \/ b = a
    BY <1>4, <2>1 DEF DropPermit, Goto, Idle, InFlight, IInv, TypeOK
  <2>3. QuietMove(a)
    BY <2>1, <2>2 DEF QuietMove, Points
  <2>4. \A r \in Runs : Phase(r)' = Phase(r)
    BY <2>2, MoveKeepsPhase
  <2>5. Answering = {}
    <3>1. holder = a
      BY <2>1 DEF IInv, PermitOK, Holding
    <3> QED BY <2>1, <3>1, NoneCarried DEF Opened, InFlight
  <2>6. CASE exit' = exit
    BY <2>3, <2>6, QuietRefines
  <2>7. CASE exit' # exit
    <3>1. exit' = "VersionMismatch" /\ after[a] = "exited"
      BY <1>4, <2>7 DEF DropPermit
    <3>2. exit = "none"
      BY <2>1, <3>1 DEF IInv, LeavingOK, PointsOK, Actors
    <3> QED BY <2>4, <2>5, <3>1, <3>2, CloseRefines
  <2> QED BY <2>6, <2>7
<1> QED BY <1>1, <1>2, <1>3, <1>4 DEF RunStep

(* The other steps of the loop and of a request, signals, and the end.     *)
LEMMA StepRefines ==
  ASSUME IInv, IInv', [Next]_vars
  PROVE  [Contract!Next]_AbstractVars
<1>1. CASE \E a \in Actors : RunStep(a) \/ RunEnded(a)
  BY <1>1, RunStepRefines
<1>2. CASE \/ LoopTop \/ LoopAcquired \/ LoopOvertaken \/ LoopPaced \/ DrainAsks
  <2>1. QuietMove(Loop)
    BY <1>2 DEF LoopTop, LoopAcquired, LoopOvertaken, LoopPaced, DrainAsks, Goto,
                QuietMove, Points, Waiting, Holding, Idle, InFlight
  <2> QED BY <1>2, <2>1, QuietRefines
          DEF LoopTop, LoopAcquired, LoopOvertaken, LoopPaced, DrainAsks, Actors
<1>3. CASE ClaimAnswered
  <2>1. CASE \E j \in Jobs : farm[j] = "unknown" /\ farm' = [farm EXCEPT ![j] = "leased"]
                             /\ job' = [job EXCEPT ![Loop] = j] /\ Goto(Loop, "claimed")
    BY <1>3, <2>1, TakeRefines DEF ClaimAnswered, Goto, Actors, Runs, Opened
  <2>2. CASE /\ Goto(Loop, "freeing") /\ UNCHANGED job
             /\ \/ UNCHANGED farm
                \/ \E j \in Jobs : farm[j] = "unknown" /\ farm' = [farm EXCEPT ![j] = "lost"]
    <3>1. \A r \in Runs : farm'[r] = "leased" <=> farm[r] = "leased"
      BY <2>2 DEF IInv, TypeOK
    <3>2. QuietMove(Loop)
      BY <1>3, <2>2, <3>1 DEF ClaimAnswered, Goto, QuietMove, Points, Holding, InFlight
    <3> QED BY <1>3, <3>2, QuietRefines DEF ClaimAnswered, Actors
  <2> QED BY <1>3, <2>1, <2>2 DEF ClaimAnswered
<1>4. CASE Drained
  <2>1. /\ holder = Loop /\ pc[Loop] = "draining" /\ exit' = "Shutdown"
        /\ pc' = [pc EXCEPT ![Loop] = "exited"] /\ UNCHANGED <<farm, ended, job>>
    BY <1>4 DEF Drained, Goto
  <2>2. \A r \in Runs : Phase(r)' = Phase(r)
    BY <2>1, MoveKeepsPhase DEF Actors, InFlight
  <2>3. Answering = {}
    BY <2>1, NoneCarried DEF Opened, InFlight
  <2>4. exit = "none"
    BY <2>1 DEF IInv, LeavingOK
  <2> QED BY <2>1, <2>2, <2>3, <2>4, CloseRefines
<1>5. ASSUME NEW q \in Requests,
             \/ Ask(q) \/ TryAcquire(q) \/ Look(q) \/ FoundBusy(q) \/ Served(q) \/ Admitted(q)
      PROVE  [Contract!Next]_AbstractVars
  <2>1. QuietMove(q)
    BY <1>5 DEF Ask, TryAcquire, Look, FoundBusy, Served, Admitted, Goto,
                QuietMove, Points, Waiting, Holding, Idle, InFlight
  <2> QED BY <1>5, <2>1, QuietRefines
          DEF Ask, TryAcquire, Look, FoundBusy, Served, Admitted, Actors
<1>6. ASSUME NEW q \in Requests, OpenAnswered(q)
      PROVE  [Contract!Next]_AbstractVars
  <2>1. CASE farm' = [farm EXCEPT ![q] = "leased"] /\ job' = [job EXCEPT ![q] = q]
             /\ Goto(q, "minted")
    <3>1. farm[q] = "unknown"
      BY <1>6 DEF OpenAnswered, IInv, FarmOK
    <3> QED BY <1>6, <2>1, <3>1, TakeRefines DEF OpenAnswered, Goto, Actors, Runs, Opened
  <2>2. CASE farm' \in {farm, [farm EXCEPT ![q] = "lost"]} /\ Goto(q, "freeing") /\ UNCHANGED job
    <3>1. farm[q] = "unknown"
      BY <1>6 DEF OpenAnswered, IInv, FarmOK
    <3>2. \A r \in Runs : farm'[r] = "leased" <=> farm[r] = "leased"
      BY <2>2, <3>1 DEF IInv, TypeOK
    <3>3. QuietMove(q)
      BY <1>6, <2>2, <3>2 DEF OpenAnswered, Goto, QuietMove, Points, Holding, InFlight
    <3> QED BY <1>6, <3>3, QuietRefines DEF OpenAnswered, Actors
  <2> QED BY <1>6, <2>1, <2>2 DEF OpenAnswered
<1>7. CASE Signal \/ ProcessEnds \/ UNCHANGED vars
  <2>1. UNCHANGED <<farm, ended, job, pc, exit>>
    BY <1>7 DEF Signal, ProcessEnds, vars
  <2>2. \A r \in Runs : Phase(r)' = Phase(r)
    BY <2>1 DEF Phase
  <2> QED BY <2>1, <2>2, QuietStep DEF AbstractVars
<1> QED BY <1>1, <1>2, <1>3, <1>4, <1>5, <1>6, <1>7
        DEF Next, LoopStep, RequestStep, RunStep, Stopped, Actors

(* Any interleaving of claims, local requests and signals keeps the        *)
(* contract of RunnerContract: one run at a time, each started at most     *)
(* once, none taken after the daemon closed, none left when it closes.     *)
THEOREM Refinement == Spec => KeepsContract
<1>1. Init => Contract!Init
  <2> SUFFICES ASSUME Init PROVE Contract!Init
    OBVIOUS
  <2>1. ASSUME NEW r \in Runs PROVE Phase(r) = "unknown"
    <3>1. ended[r] = "none" /\ farm[r] = "unknown" BY DEF Init
    <3>2. \A a \in Actors : pc[a] \notin InFlight BY DEF Init, InFlight
    <3> QED BY <3>1, <3>2 DEF Phase
  <2>2. exit = "none" BY DEF Init
  <2> QED BY <2>1, <2>2 DEF Contract!Init
<1>2. IInv /\ IInv' /\ [Next]_vars => [Contract!Next]_AbstractVars
  BY StepRefines
<1> QED BY <1>1, <1>2, Invariance, PTL DEF Spec, KeepsContract, Contract!Spec, AbstractVars

(* The daemon answers for at most one run: every run it answers for is the *)
(* one the holder of the only permit carries.                              *)
THEOREM OneRun == Spec => []OneRunAtATime
<1>1. IInv => OneRunAtATime
  <2> SUFFICES ASSUME IInv, NEW r \in Runs, NEW s \in Runs,
                      Phase(r) \in {"taken", "started"}, Phase(s) \in {"taken", "started"}
               PROVE  r = s
    BY DEF OneRunAtATime, Contract!OneAtATime, Contract!Unanswered
  <2> QED BY UnansweredIsCarried
<1> QED BY <1>1, Invariance, PTL
=============================================================================
