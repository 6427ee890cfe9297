----------------------------- MODULE TimelineProofs -----------------------------
(***************************************************************************)
(* Proofs about Timeline: for any number of markers and changes of the     *)
(* plan, the opening snapshot is over before the last ones are made, and   *)
(* once the pull request has begun every snapshot says so.                 *)
(***************************************************************************)
EXTENDS Timeline, TLAPS

(* A phase is fixed as that of the pull request: what a later marker finds *)
(* and what the failed snapshot reads.                                     *)
FrozenAtPr == frozen => phase = "pr"

Inv == IInv /\ FrozenAtPr

LEMMA InitInv == Init => Inv
<1>. SUFFICES ASSUME Init PROVE Inv
  OBVIOUS
<1>1. snap \in [phase : Phases, failed : BOOLEAN, version : 0..MaxChanges]
  BY BoundsAssumption DEF Init, Snapshot, Phases
<1>2. watching \in BOOLEAN /\ exists \subseteq Directories /\ attached \subseteq exists
  BY DEF Init, Directories
<1>3. place \in Directories \cup {"none"}
  BY DEF Init, Directories
<1>a. /\ interrupted \in BOOLEAN /\ frozen \in BOOLEAN /\ request \in BOOLEAN /\ wake \in BOOLEAN
      /\ hung \in BOOLEAN /\ heard \in BOOLEAN /\ armed \in BOOLEAN /\ latched \in BOOLEAN
  BY DEF Init
<1>b. /\ notifying \subseteq {"reader", "events"}
      /\ markers \in 0..MaxMarkers /\ version \in 0..MaxChanges
      /\ stage = "running" /\ phase \in Phases /\ poster = "reading" /\ opening = "due"
  BY BoundsAssumption DEF Init, Phases
<1>4. TypeOK
  BY <1>1, <1>2, <1>3, <1>a, <1>b DEF TypeOK
<1>. QED
  BY <1>4 DEF Init, Inv, IInv, OpeningFirst, LastSaysPr, FrozenAtPr

(* A snapshot that is begun has a phase, and the plan's version to come.   *)
LEMMA BegunOK ==
  ASSUME Inv, NEW p \in Phases, NEW failed \in BOOLEAN, Begin(p, failed)
  PROVE  /\ snap' \in [phase : Phases, failed : BOOLEAN, version : 0..MaxChanges]
         /\ snap'.phase = p
         /\ poster' = "reading"
BY BoundsAssumption DEF Begin, Snapshot

(* Whoever makes a request is to notify the poster of it.                  *)
LEMMA RequestOK ==
  ASSUME Inv, NEW who \in {"reader", "events"}, Request(who)
  PROVE  request' \in BOOLEAN /\ notifying' \subseteq {"reader", "events"}
<1>1. request' \in BOOLEAN
  BY DEF Request
<1>. QED
  BY <1>1 DEF Request, Inv, IInv, TypeOK

(* The end of a post ends no more than the post: the opening one is over   *)
(* and the run goes on where its caller waits.                             *)
LEMMA OverOK ==
  ASSUME Inv, Over
  PROVE  /\ opening' = "over"
         /\ poster' \in {"looking", "idle"}
         /\ stage' \in {"running", "stopping", "stopped", "pr", "settling", "failing", "over"}
<1>1. stage \in {"running", "stopping", "stopped", "pr", "settling", "failing", "over"}
  BY DEF Inv, IInv, TypeOK
<1>. QED
  BY <1>1 DEF Over

-----------------------------------------------------------------------------
(* A step that moves neither the run nor its snapshot keeps what is said   *)
(* of them, as long as a phase that is fixed stays.                        *)
LEMMA SnapshotStays ==
  ASSUME Inv, UNCHANGED <<stage, frozen, snap, opening>>, frozen => phase' = phase
  PROVE  OpeningFirst' /\ LastSaysPr' /\ FrozenAtPr'
BY DEF Inv, IInv, OpeningFirst, LastSaysPr, FrozenAtPr

LEMMA NotifyKeeps == ASSUME Inv, NEW who \in {"reader", "events"}, Notify(who) PROVE Inv'
<1>. USE DEF trackerVars, planVars, watchVars, postVars
<1>1. /\ wake' \in BOOLEAN /\ notifying' \subseteq {"reader", "events"}
      /\ UNCHANGED <<stage, interrupted, phase, frozen, request, markers, planVars, watchVars, postVars>>
  <2>1. wake' = TRUE /\ notifying' = notifying \ {who}
    BY DEF Notify
  <2>. QED
    BY <2>1 DEF Notify, Inv, IInv, TypeOK
<1>2. TypeOK'
  BY <1>1 DEF Inv, IInv, TypeOK
<1>. QED
  BY <1>1, <1>2, SnapshotStays DEF Inv, IInv

(* A marker that comes after the phase was fixed changes nothing.          *)
LEMMA ObserveKeeps == ASSUME Inv, Observe PROVE Inv'
<1>. USE DEF trackerVars, planVars, watchVars, postVars
<1>1. /\ markers' \in 0..MaxMarkers
      /\ UNCHANGED <<stage, interrupted, frozen, wake, planVars, watchVars, postVars>>
  BY BoundsAssumption DEF Observe, Inv, IInv, TypeOK
<1>2. /\ phase' \in Phases /\ (frozen => phase' = phase)
      /\ request' \in BOOLEAN /\ notifying' \subseteq {"reader", "events"}
  <2>1. CASE frozen
    BY <2>1 DEF Observe, Inv, IInv, TypeOK
  <2>2. CASE ~frozen
    <3>1. PICK p \in {"tasks", "review"} : MovesTo(p)
      BY <2>2 DEF Observe
    <3>2. phase' = p /\ (Request("reader") \/ UNCHANGED <<request, notifying>>)
      BY <3>1 DEF MovesTo
    <3>3. request' \in BOOLEAN /\ notifying' \subseteq {"reader", "events"}
      BY <3>2, RequestOK DEF Inv, IInv, TypeOK
    <3>. QED
      BY <2>2, <3>2, <3>3 DEF Phases
  <2>. QED
    BY <2>1, <2>2
<1>3. TypeOK'
  BY <1>1, <1>2 DEF Inv, IInv, TypeOK
<1>. QED
  BY <1>1, <1>2, <1>3, SnapshotStays DEF Inv, IInv

LEMMA PlanKeeps == ASSUME Inv, MakeDirectory \/ ChangePlan \/ Hang PROVE Inv'
<1>. USE DEF trackerVars, planVars, watchVars, postVars
<1>1. CASE MakeDirectory
  <2>1. /\ exists' \subseteq Directories /\ attached' \subseteq exists'
        /\ UNCHANGED <<stage, interrupted, trackerVars, version, place, hung, watchVars, postVars>>
    BY <1>1 DEF MakeDirectory, Inv, IInv, TypeOK
  <2>2. TypeOK'
    BY <2>1 DEF Inv, IInv, TypeOK
  <2>. QED
    BY <2>1, <2>2, SnapshotStays DEF Inv, IInv
<1>2. CASE ChangePlan
  <2>1. /\ version' \in 0..MaxChanges
        /\ UNCHANGED <<stage, interrupted, trackerVars, exists, hung, watching, attached, armed, postVars>>
    BY <1>2, BoundsAssumption DEF ChangePlan, Inv, IInv, TypeOK
  <2>2. place' \in Directories \cup {"none"} /\ heard' \in BOOLEAN
    BY <1>2 DEF ChangePlan, Inv, IInv, TypeOK
  <2>3. TypeOK'
    BY <2>1, <2>2 DEF Inv, IInv, TypeOK
  <2>. QED
    BY <2>1, <2>3, SnapshotStays DEF Inv, IInv
<1>3. CASE Hang
  <2>1. /\ hung' \in BOOLEAN
        /\ UNCHANGED <<stage, interrupted, trackerVars, version, place, exists, watchVars, postVars>>
    BY <1>3 DEF Hang
  <2>2. TypeOK'
    BY <2>1 DEF Inv, IInv, TypeOK
  <2>. QED
    BY <2>1, <2>2, SnapshotStays DEF Inv, IInv
<1>. QED
  BY <1>1, <1>2, <1>3

LEMMA WatcherKeeps == ASSUME Inv, Hear \/ DebounceElapses \/ Attach PROVE Inv'
<1>. USE DEF trackerVars, planVars, watchVars, postVars
<1>1. /\ UNCHANGED <<stage, interrupted, phase, frozen, wake, markers, planVars, watching, postVars>>
      /\ attached' \in {attached, exists}
      /\ Request("events") \/ UNCHANGED <<request, notifying>>
  BY DEF Hear, DebounceElapses, Attach, Reattach
<1>2. request' \in BOOLEAN /\ notifying' \subseteq {"reader", "events"}
  BY <1>1, RequestOK DEF Inv, IInv, TypeOK
<1>3. heard' \in BOOLEAN /\ armed' \in BOOLEAN
  <2>1. heard \in BOOLEAN /\ armed \in BOOLEAN
    BY DEF Inv, IInv, TypeOK
  <2>2. CASE Hear
    BY <2>2 DEF Hear
  <2>3. CASE DebounceElapses
    BY <2>1, <2>3 DEF DebounceElapses
  <2>4. CASE Attach
    BY <2>1, <2>4 DEF Attach
  <2>. QED
    BY <2>2, <2>3, <2>4
<1>4. TypeOK'
  BY <1>1, <1>2, <1>3 DEF Inv, IInv, TypeOK
<1>. QED
  BY <1>1, <1>4, SnapshotStays DEF Inv, IInv

-----------------------------------------------------------------------------
(* Posting.                                                                *)

LEMMA PosterKeeps == ASSUME Inv, Look \/ Wake PROVE Inv'
<1>. USE DEF trackerVars, planVars, watchVars, postVars
<1>1. /\ UNCHANGED <<stage, interrupted, phase, frozen, notifying, markers, planVars, watchVars,
                     opening, snap, latched>>
      /\ poster' \in {"chosen", "asleep", "looking"}
  BY DEF Look, Wake
<1>2. request' \in BOOLEAN /\ wake' \in BOOLEAN
  <2>1. request \in BOOLEAN /\ wake \in BOOLEAN
    BY DEF Inv, IInv, TypeOK
  <2>2. CASE Look
    BY <2>1, <2>2 DEF Look
  <2>3. CASE Wake
    BY <2>1, <2>3 DEF Wake
  <2>. QED
    BY <2>2, <2>3
<1>3. TypeOK'
  BY <1>1, <1>2 DEF Inv, IInv, TypeOK
<1>. QED
  BY <1>1, <1>3, SnapshotStays DEF Inv, IInv

LEMMA ChooseKeeps == ASSUME Inv, Choose PROVE Inv'
<1>. USE DEF trackerVars, planVars, watchVars, postVars
<1>1. /\ Begin(phase, FALSE) /\ phase \in Phases
      /\ UNCHANGED <<stage, interrupted, trackerVars, planVars, watchVars, opening, latched>>
  BY DEF Choose, Inv, IInv, TypeOK
<1>2. /\ snap' \in [phase : Phases, failed : BOOLEAN, version : 0..MaxChanges]
      /\ snap'.phase = phase /\ poster' = "reading"
  BY <1>1, BegunOK
<1>3. TypeOK'
  BY <1>1, <1>2 DEF Inv, IInv, TypeOK
<1>4. OpeningFirst' /\ LastSaysPr' /\ FrozenAtPr'
  BY <1>1, <1>2 DEF Inv, IInv, OpeningFirst, LastSaysPr, FrozenAtPr
<1>. QED
  BY <1>3, <1>4 DEF Inv, IInv

(* The read of the plan, and the end of a post, leave the phase of the     *)
(* snapshot.                                                               *)
LEMMA PostKeeps == ASSUME Inv, Send \/ ReadOverdue \/ PostEnds PROVE Inv'
<1>. USE DEF trackerVars, planVars, watchVars, postVars
<1>1. UNCHANGED <<interrupted, trackerVars, planVars, watchVars>> /\ latched' \in BOOLEAN
  BY DEF Send, ReadOverdue, PostEnds, Inv, IInv, TypeOK
<1>2. /\ snap' \in [phase : Phases, failed : BOOLEAN, version : 0..MaxChanges]
      /\ snap'.phase = snap.phase
  <2>1. snap \in [phase : Phases, failed : BOOLEAN, version : 0..MaxChanges]
        /\ version \in 0..MaxChanges
    BY DEF Inv, IInv, TypeOK
  <2>2. snap' \in {snap, [snap EXCEPT !.version = version]}
    BY DEF Send, ReadOverdue, PostEnds
  <2>. QED
    BY <2>1, <2>2
<1>3. Over \/ (poster' = "sending" /\ UNCHANGED <<stage, opening>>)
  BY DEF Send, ReadOverdue, PostEnds
<1>4. CASE Over
  <2>1. /\ opening' = "over" /\ poster' \in {"looking", "idle"}
        /\ stage' \in {"running", "stopping", "stopped", "pr", "settling", "failing", "over"}
    BY <1>4, OverOK
  <2>2. TypeOK'
    BY <1>1, <1>2, <2>1 DEF Inv, IInv, TypeOK
  <2>3. OpeningFirst' /\ LastSaysPr' /\ FrozenAtPr'
    BY <1>1, <1>2, <2>1 DEF Inv, IInv, OpeningFirst, LastSaysPr, FrozenAtPr
  <2>. QED
    BY <2>2, <2>3 DEF Inv, IInv
<1>5. CASE poster' = "sending" /\ UNCHANGED <<stage, opening>>
  <2>1. TypeOK'
    BY <1>1, <1>2, <1>5 DEF Inv, IInv, TypeOK
  <2>2. OpeningFirst' /\ LastSaysPr' /\ FrozenAtPr'
    BY <1>1, <1>2, <1>5 DEF Inv, IInv, OpeningFirst, LastSaysPr, FrozenAtPr
  <2>. QED
    BY <2>1, <2>2 DEF Inv, IInv
<1>. QED
  BY <1>3, <1>4, <1>5

-----------------------------------------------------------------------------
(* The end of the run.                                                     *)

LEMMA StopKeeps == ASSUME Inv, Stop \/ Stopped \/ NoFailure \/ Interrupt PROVE Inv'
<1>. USE DEF trackerVars, planVars, watchVars, postVars
<1>1. /\ UNCHANGED <<trackerVars, planVars, watchVars, opening, snap, latched>>
      /\ stage' \in {"stopping", "stopped", "over", "settling"}
      /\ poster' \in {poster, "idle"}
  BY DEF Stop, Stopped, NoFailure, Interrupt
<1>2. interrupted' \in BOOLEAN
  <2>1. interrupted \in BOOLEAN
    BY DEF Inv, IInv, TypeOK
  <2>2. CASE Interrupt
    BY <2>2 DEF Interrupt
  <2>3. CASE Stop \/ Stopped \/ NoFailure
    BY <2>1, <2>3 DEF Stop, Stopped, NoFailure
  <2>. QED
    BY <2>2, <2>3
<1>3. TypeOK'
  BY <1>1, <1>2 DEF Inv, IInv, TypeOK
<1>4. OpeningFirst'
  BY DEF Stop, Stopped, NoFailure, Interrupt, Inv, IInv, OpeningFirst
<1>5. LastSaysPr' /\ FrozenAtPr'
  BY <1>1 DEF Inv, IInv, LastSaysPr, FrozenAtPr
<1>. QED
  BY <1>3, <1>4, <1>5 DEF Inv, IInv

LEMMA PostPhaseKeeps == ASSUME Inv, PostPhase PROVE Inv'
<1>. USE DEF trackerVars, planVars, watchVars, postVars
<1>1. /\ stage = "stopped" /\ stage' = "pr" /\ phase' = "pr" /\ Begin("pr", FALSE)
      /\ UNCHANGED <<interrupted, request, wake, notifying, markers, planVars, watchVars, opening,
                     latched>>
  BY DEF PostPhase
<1>2. "pr" \in Phases
  BY DEF Phases
<1>3. /\ snap' \in [phase : Phases, failed : BOOLEAN, version : 0..MaxChanges]
      /\ snap'.phase = "pr" /\ poster' = "reading"
  BY <1>1, <1>2, BegunOK
<1>4. frozen' \in BOOLEAN
  BY DEF PostPhase
<1>5. TypeOK'
  BY <1>1, <1>2, <1>3, <1>4 DEF Inv, IInv, TypeOK
<1>6. OpeningFirst' /\ LastSaysPr' /\ FrozenAtPr'
  BY <1>1, <1>3 DEF Inv, IInv, OpeningFirst, LastSaysPr, FrozenAtPr
<1>. QED
  BY <1>5, <1>6 DEF Inv, IInv

(* The failed snapshot reads the phase again, and finds the fixed one.     *)
LEMMA PostFailureKeeps == ASSUME Inv, PostFailure PROVE Inv'
<1>. USE DEF trackerVars, planVars, watchVars, postVars
<1>1. /\ stage \in {"stopped", "settling"} /\ stage' = "failing"
      /\ Begin(phase, TRUE) /\ phase \in Phases
      /\ UNCHANGED <<interrupted, trackerVars, planVars, watchVars, opening, latched>>
  BY DEF PostFailure, Inv, IInv, TypeOK
<1>2. /\ snap' \in [phase : Phases, failed : BOOLEAN, version : 0..MaxChanges]
      /\ snap'.phase = phase /\ poster' = "reading"
  BY <1>1, BegunOK
<1>3. TypeOK'
  BY <1>1, <1>2 DEF Inv, IInv, TypeOK
<1>4. OpeningFirst' /\ LastSaysPr' /\ FrozenAtPr'
  BY <1>1, <1>2 DEF Inv, IInv, OpeningFirst, LastSaysPr, FrozenAtPr
<1>. QED
  BY <1>3, <1>4 DEF Inv, IInv

-----------------------------------------------------------------------------
(* The theorem.                                                            *)

LEMMA StepKeeps == ASSUME Inv, [Next]_vars PROVE Inv'
<1>1. CASE Observe
  BY <1>1, ObserveKeeps
<1>2. CASE \E who \in {"reader", "events"} : Notify(who)
  BY <1>2, NotifyKeeps
<1>3. CASE MakeDirectory \/ ChangePlan \/ Hang
  BY <1>3, PlanKeeps
<1>4. CASE Hear \/ DebounceElapses \/ Attach
  BY <1>4, WatcherKeeps
<1>5. CASE Look \/ Wake
  BY <1>5, PosterKeeps
<1>6. CASE Choose
  BY <1>6, ChooseKeeps
<1>7. CASE Send \/ ReadOverdue \/ PostEnds
  BY <1>7, PostKeeps
<1>8. CASE Stop \/ Stopped \/ NoFailure \/ Interrupt
  BY <1>8, StopKeeps
<1>9. CASE PostPhase
  BY <1>9, PostPhaseKeeps
<1>10. CASE PostFailure
  BY <1>10, PostFailureKeeps
<1>11. CASE UNCHANGED vars
  <2>1. UNCHANGED <<stage, interrupted, trackerVars, planVars, watchVars, postVars>>
    BY <1>11 DEF vars
  <2>2. TypeOK'
    BY <2>1 DEF Inv, IInv, TypeOK, trackerVars, planVars, watchVars, postVars
  <2>. QED
    BY <2>1, <2>2, SnapshotStays DEF Inv, IInv, trackerVars, planVars, watchVars, postVars
<1>. QED
  BY <1>1, <1>2, <1>3, <1>4, <1>5, <1>6, <1>7, <1>8, <1>9, <1>10, <1>11
  DEF Next, Poster, Ending, Done

(* The opening snapshot is never posted beside the last ones, and none of  *)
(* those tells of a phase before the pull request's.                       *)
THEOREM TimelineInOrder == Spec => []IInv
<1>1. Init => Inv
  BY InitInv
<1>2. Inv /\ [Next]_vars => Inv'
  BY StepKeeps
<1>3. Inv => IInv
  BY DEF Inv
<1>. QED
  BY <1>1, <1>2, <1>3, PTL DEF Spec
=============================================================================
