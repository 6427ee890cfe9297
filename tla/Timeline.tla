------------------------------- MODULE Timeline -------------------------------
(***************************************************************************)
(* The timeline of one run: the phase tracker fed by the output, the       *)
(* watcher of the plan's directories, the task that posts snapshots, and   *)
(* what is posted once it was stopped (src/progress.rs,                    *)
(* FarmClient::post_progress, and run_job, finish() and mark_failure() of  *)
(* src/agent.rs).                                                          *)
(*                                                                         *)
(* A plan's content is its version.  A snapshot is made of the phase that  *)
(* was read when it was begun and the plan as it was when it was read.     *)
(* The file system, the output and the farm are external: a mount may stop *)
(* answering, and the farm answers what it likes.                          *)
(***************************************************************************)
EXTENDS Integers

CONSTANTS
  MaxChanges,   \* bounds the changes of the plan
  MaxMarkers    \* bounds the section markers ralphex prints

ASSUME BoundsAssumption == MaxChanges \in Nat /\ MaxMarkers \in Nat

VARIABLES
  stage,       \* how far the run has got with its timeline
  interrupted, \* whether a terminal event has dropped finish()
  phase,       \* the tracker's phase
  frozen,      \* whether it is fixed
  request,     \* whether a snapshot is requested
  wake,        \* whether the tracker's Notify holds a permit
  notifying,   \* who has made a request and not notified yet
  markers,     \* how many markers were printed
  version,     \* the plan's content
  place,       \* the directory it is in
  exists,      \* the directories that exist
  hung,        \* whether the plan's mount has stopped answering
  watching,    \* whether the watcher could be started
  attached,    \* the directories it watches
  heard,       \* whether an event that names the plan is queued
  armed,       \* whether the debounce is running
  poster,      \* where the post that is being made is
  opening,     \* whether the opening snapshot is still to be posted
  snap,        \* the snapshot that is being made, or was last
  latched      \* whether a 410 was answered

trackerVars == <<phase, frozen, request, wake, notifying, markers>>
planVars == <<version, place, exists, hung>>
watchVars == <<watching, attached, heard, armed>>
postVars == <<poster, opening, snap, latched>>
vars == <<stage, interrupted, trackerVars, planVars, watchVars, postVars>>

Phases == {"setup", "tasks", "review", "pr"}
Directories == {"dir", "completed"}
Snapshot(p, failed, v) == [phase |-> p, failed |-> failed, version |-> v]

TypeOK ==
  /\ stage \in {"running", "stopping", "stopped", "pr", "settling", "failing", "over"}
  /\ interrupted \in BOOLEAN
  /\ phase \in Phases /\ frozen \in BOOLEAN
  /\ request \in BOOLEAN /\ wake \in BOOLEAN
  /\ notifying \subseteq {"reader", "events"}
  /\ markers \in 0..MaxMarkers
  /\ version \in 0..MaxChanges
  /\ place \in Directories \cup {"none"} /\ exists \subseteq Directories
  /\ hung \in BOOLEAN
  /\ watching \in BOOLEAN /\ attached \subseteq exists
  /\ heard \in BOOLEAN /\ armed \in BOOLEAN
  /\ poster \in {"reading", "sending", "looking", "asleep", "chosen", "idle"}
  /\ opening \in {"due", "over"}
  /\ snap \in [phase : Phases, failed : BOOLEAN, version : 0..MaxChanges]
  /\ latched \in BOOLEAN

\* PlanWatcher::start has attached the directories that exist, or could not
\* watch at all; of a worktree they are still to be made.
Init ==
  /\ stage = "running" /\ interrupted = FALSE
  /\ phase = "setup" /\ frozen = FALSE
  /\ request = FALSE /\ wake = FALSE /\ notifying = {} /\ markers = 0
  /\ version = 0 /\ hung = FALSE
  /\ exists \in {{}, {"dir"}, Directories}
  /\ place = IF "dir" \in exists THEN "dir" ELSE "none"
  /\ watching \in BOOLEAN
  /\ attached = IF watching THEN exists ELSE {}
  /\ heard = FALSE /\ armed = FALSE
  /\ poster = "reading" /\ opening = "due"
  /\ snap = Snapshot("setup", FALSE, 0)
  /\ latched = FALSE

-----------------------------------------------------------------------------
(* The phase tracker.                                                      *)

\* A request is recorded under the tracker's lock; the poster is notified
\* after it was released.
Request(who) ==
  /\ request' = TRUE
  /\ notifying' = notifying \cup {who}

Notify(who) ==
  /\ who \in notifying
  /\ wake' = TRUE
  /\ notifying' = notifying \ {who}
  /\ UNCHANGED <<stage, interrupted, phase, frozen, request, markers, planVars, watchVars,
                 postVars>>

MovesTo(p) ==
  /\ phase' = p
  /\ IF p = "review" /\ phase = "review" THEN UNCHANGED <<request, notifying>> ELSE Request("reader")

\* Mutant: a phase that is fixed still follows the markers.
ObserveFrozen ==
  /\ "reader" \notin notifying /\ markers < MaxMarkers
  /\ markers' = markers + 1
  /\ \E p \in {"tasks", "review"} : MovesTo(p)
  /\ UNCHANGED <<stage, interrupted, frozen, wake, planVars, watchVars, postVars>>

\* observe(): a marker moves the phase unless it is fixed.  A task iteration
\* always requests a snapshot, a review only when it changes the phase.  A
\* drained tail, or a reader that outlived the run, may bring one at any time.
Observe ==
  /\ "reader" \notin notifying /\ markers < MaxMarkers
  /\ markers' = markers + 1
  /\ IF frozen
     THEN UNCHANGED <<phase, request, notifying>>
     ELSE \E p \in {"tasks", "review"} : MovesTo(p)
  /\ UNCHANGED <<stage, interrupted, frozen, wake, planVars, watchVars, postVars>>

-----------------------------------------------------------------------------
(* The plan and its watcher.                                               *)

MakeDirectory ==
  /\ ~hung
  /\ \E d \in Directories \ exists :
       /\ d = "completed" => "dir" \in exists
       /\ exists' = exists \cup {d}
  /\ UNCHANGED <<stage, interrupted, trackerVars, version, place, hung, watchVars, postVars>>

\* The plan is written, ticked or moved to completed/.  An event is queued
\* when a directory it was or is in is watched.
ChangePlan ==
  /\ ~hung /\ version < MaxChanges
  /\ version' = version + 1
  /\ place' \in exists /\ (place = "completed" => place' = "completed")
  /\ heard' = (heard \/ {place, place'} \cap attached # {})
  /\ UNCHANGED <<stage, interrupted, trackerVars, exists, hung, watching, attached, armed,
                 postVars>>

Hang ==
  /\ hung' = TRUE
  /\ UNCHANGED <<stage, interrupted, trackerVars, version, place, exists, watchVars, postVars>>

\* The events task lives until the run's timeline is stopped; it makes one
\* request at a time.
Watching == watching /\ stage = "running" /\ "events" \notin notifying

\* reattach(): attaching a directory that was missing requests a snapshot,
\* since the plan may have been there before.
Reattach ==
  /\ attached' = exists
  /\ IF attached = exists THEN UNCHANGED <<request, notifying>> ELSE Request("events")

\* An event that names the plan arms the debounce anew, and like any other it
\* has the missing directories tried.
Hear ==
  /\ Watching /\ heard /\ (~hung \/ attached = Directories)
  /\ heard' = FALSE
  /\ armed' = TRUE
  /\ Reattach
  /\ UNCHANGED <<stage, interrupted, phase, frozen, wake, markers, planVars, watching, postVars>>

DebounceElapses ==
  /\ Watching /\ armed
  /\ armed' = FALSE
  /\ Request("events")
  /\ UNCHANGED <<stage, interrupted, phase, frozen, wake, markers, planVars, watching, attached,
                 heard, postVars>>

\* Mutant: a directory that is attached late brings no snapshot.
AttachQuietly ==
  /\ Watching /\ ~hung /\ attached # exists
  /\ attached' = exists
  /\ UNCHANGED <<stage, interrupted, trackerVars, planVars, watching, heard, armed, postVars>>

\* A tick of the retry, or an event in an ancestor, finds more directories.
Attach ==
  /\ Watching /\ ~hung /\ attached # exists
  /\ Reattach
  /\ UNCHANGED <<stage, interrupted, phase, frozen, wake, markers, planVars, watching, heard,
                 armed, postVars>>

-----------------------------------------------------------------------------
(* Posting.                                                                *)

\* requested(): takes the request, or sleeps until it is notified.
Look ==
  /\ poster = "looking"
  /\ request' = FALSE
  /\ poster' = IF request THEN "chosen" ELSE "asleep"
  /\ UNCHANGED <<stage, interrupted, phase, frozen, wake, notifying, markers, planVars, watchVars,
                 opening, snap, latched>>

Wake ==
  /\ poster = "asleep" /\ wake
  /\ wake' = FALSE
  /\ poster' = "looking"
  /\ UNCHANGED <<stage, interrupted, phase, frozen, request, notifying, markers, planVars, watchVars,
                 opening, snap, latched>>

\* A snapshot is begun with a phase; the plan is still to be read.
Begin(p, failed) ==
  /\ snap' = Snapshot(p, failed, 0)
  /\ poster' = "reading"

Choose ==
  /\ poster = "chosen"
  /\ Begin(phase, FALSE)
  /\ UNCHANGED <<stage, interrupted, trackerVars, planVars, watchVars, opening, latched>>

\* The post is over: the posting task looks for the next request, the caller
\* of a last snapshot goes on.
Over ==
  /\ opening' = "over"
  /\ poster' = IF stage \in {"running", "stopping"} THEN "looking" ELSE "idle"
  /\ stage' = CASE stage = "pr" -> "settling" [] stage = "failing" -> "over" [] OTHER -> stage

\* The plan is read, wherever it is now, and the snapshot sent, unless a 410
\* was answered before.
Send ==
  /\ poster = "reading" /\ ~hung
  /\ snap' = [snap EXCEPT !.version = version]
  /\ IF latched THEN Over ELSE poster' = "sending" /\ UNCHANGED <<stage, opening>>
  /\ UNCHANGED <<interrupted, trackerVars, planVars, watchVars, latched>>

\* Mutant: only the opening snapshot has a deadline.
OpeningOverdue ==
  /\ poster = "reading" /\ opening = "due"
  /\ Over
  /\ UNCHANGED <<interrupted, trackerVars, planVars, watchVars, snap, latched>>

\* The opening and the last snapshots have a deadline that covers the read.
ReadOverdue ==
  /\ poster = "reading"
  /\ opening = "due" \/ stage \in {"pr", "failing"}
  /\ Over
  /\ UNCHANGED <<interrupted, trackerVars, planVars, watchVars, snap, latched>>

\* Mutant: what was requested while a post was made is taken for posted.
PostEndsClean ==
  /\ poster = "sending"
  /\ latched' \in {latched, TRUE}
  /\ request' = FALSE
  /\ Over
  /\ UNCHANGED <<interrupted, phase, frozen, wake, notifying, markers, planVars, watchVars, snap>>

\* An answer, which may be a 410, an error, or the request's timeout.
PostEnds ==
  /\ poster = "sending"
  /\ latched' \in {latched, TRUE}
  /\ Over
  /\ UNCHANGED <<interrupted, trackerVars, planVars, watchVars, snap>>

-----------------------------------------------------------------------------
(* The end of the run.                                                     *)

\* PlanWatcher::stop aborts the events task, then waits for the opening post.
Stop ==
  /\ stage = "running"
  /\ stage' = "stopping"
  /\ UNCHANGED <<interrupted, trackerVars, planVars, watchVars, postVars>>

\* The opening post has ended; a later one is aborted, wherever it is.
Stopped ==
  /\ stage = "stopping" /\ opening = "over"
  /\ poster' = "idle"
  /\ stage' = "stopped"
  /\ UNCHANGED <<interrupted, trackerVars, planVars, watchVars, opening, snap, latched>>

\* post_phase: a run that is to open a pull request fixes its phase first.
PostPhase ==
  /\ stage = "stopped" /\ ~interrupted
  /\ stage' = "pr"
  /\ phase' = "pr" /\ frozen' = TRUE
  /\ Begin("pr", FALSE)
  /\ UNCHANGED <<interrupted, request, wake, notifying, markers, planVars, watchVars, opening,
                 latched>>

\* post_failure: the run ends in error, also after its pull request began.
PostFailure ==
  /\ stage \in {"stopped", "settling"}
  /\ stage' = "failing"
  /\ Begin(phase, TRUE)
  /\ UNCHANGED <<interrupted, trackerVars, planVars, watchVars, opening, latched>>

\* The run is done, or the farm has no use for a last snapshot.
NoFailure ==
  /\ stage \in {"stopped", "settling"}
  /\ stage' = "over"
  /\ UNCHANGED <<interrupted, trackerVars, planVars, watchVars, postVars>>

\* A terminal event drops finish() with the snapshot it is posting, once; a
\* canceled run then posts a failure of its own.
Interrupt ==
  /\ stage \in {"pr", "settling", "failing"} /\ ~interrupted
  /\ interrupted' = TRUE
  /\ poster' = "idle"
  /\ stage' = "settling"
  /\ UNCHANGED <<trackerVars, planVars, watchVars, opening, snap, latched>>

-----------------------------------------------------------------------------
Poster == Look \/ Wake \/ Choose \/ Send \/ ReadOverdue \/ PostEnds

Ending == Stopped \/ PostPhase \/ PostFailure \/ NoFailure

\* The run has ended and what is left of its timeline may stand still.
Done == stage = "over" /\ UNCHANGED vars

Next ==
  \/ Observe \/ \E who \in {"reader", "events"} : Notify(who)
  \/ MakeDirectory \/ ChangePlan \/ Hang
  \/ Hear \/ DebounceElapses \/ Attach
  \/ Poster
  \/ Stop \/ Ending \/ Interrupt
  \/ Done

Spec == Init /\ [][Next]_vars

(* The tasks are polled, the debounce, the attach retry, the deadlines and *)
(* the timeout of a request elapse, and a run whose timeline was stopped   *)
(* goes on to its end (what finish() waits for in between is RunLife's).   *)
(* Nothing makes a run end, a plan change or a mount answer.               *)
Fairness ==
  /\ WF_vars(Poster)
  /\ \A who \in {"reader", "events"} : WF_vars(Notify(who))
  /\ WF_vars(Hear) /\ WF_vars(DebounceElapses) /\ WF_vars(Attach)
  /\ WF_vars(Ending)

FairSpec == Spec /\ Fairness

-----------------------------------------------------------------------------
(* Properties.                                                             *)

\* The run is ending, the farm has forgotten it, or the plan cannot be read.
Silent == stage # "running" \/ latched \/ hung

\* Every change of the plan gets into a snapshot while the run lasts, also in
\* a directory that appears after the watcher was started, however changes,
\* markers and posts in flight interleave.
PlanShown ==
  \A v \in 1..MaxChanges :
    (version = v /\ watching) ~> (snap.version >= v \/ Silent)

\* Every phase a marker sets gets into a snapshot unless another replaces it:
\* requests coalesce and none is lost, though the phase is read after the
\* request was taken.
PhaseShown ==
  \A p \in {"tasks", "review"} :
    (phase = p) ~> ((snap.phase = p /\ poster # "reading") \/ phase # p \/ Silent)

\* The opening snapshot is not lost to a run that ends at once, nor still
\* being posted when the last ones are.
OpeningFirst == stage \notin {"running", "stopping"} => opening = "over"

\* Once the pull request has begun every snapshot says pr, the failed one
\* included, whatever markers the tail of the output still brings.
LastSaysPr == frozen => snap.phase = "pr"

\* Types, the opening snapshot before the last ones, and what those say.
IInv == TypeOK /\ OpeningFirst /\ LastSaysPr

\* PlanWatcher's doc: a mount that stops answering cannot hold up the end of
\* the run, neither with the opening snapshot, nor a later one, nor the last.
HungMountEnds == stage = "stopping" ~> stage = "over"
=============================================================================
