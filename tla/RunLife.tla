------------------------------- MODULE RunLife -------------------------------
(***************************************************************************)
(* The life of one run, from the answer that handed it over to leave():    *)
(* Agent::execute, serve_run, finish and settle, with the tasks that live  *)
(* beside them - the heartbeat, the drain timer, the terminal's reader and *)
(* the log flusher - and the farm's record of the run (src/agent.rs, with  *)
(* the process group of src/job.rs and LogStream::close).                  *)
(*                                                                         *)
(* The farm, GitHub and the processes of the run are external.  A step is  *)
(* the code between two awaits of one task.  Timers fire at any moment, so *)
(* every order of a deadline and of what it races with is a behaviour.     *)
(***************************************************************************)
EXTENDS Naturals, Sequences, RunEnds

CONSTANTS
  Leader,         \* ralphex itself, the leader of its process group
  Members,        \* the other processes of the group
  Helpers,        \* processes it started that have left the group
  CompleteTries   \* bounds the attempts COMPLETE_BUDGET leaves time for

ASSUME ProcsAssumption == Leader \notin Members \cup Helpers /\ Members \cap Helpers = {}
ASSUME TriesAssumption == CompleteTries \in Nat \ {0}

VARIABLES
  pc,          \* where execute() and serve_run() are
  shutdown,    \* how far a shutdown has got
  why,         \* what ended the run: its exit, a terminal event, a failed spawn
  procs,       \* the processes of the run that are alive
  status,      \* how the leader exited, as wait() returned it
  reader,      \* the task that empties the pseudo-terminal
  flusher,     \* the task that sends the log to the farm
  closing,     \* whether close() has taken the flusher's handle
  beats,       \* the heartbeat task
  canceled,    \* whether it has already passed a cancel on
  drain,       \* the drain timer task
  terminals,   \* the terminal events nobody has received yet
  watcher,     \* the plan watcher
  marked,      \* whether the timeline was given its failed snapshot
  createPr,    \* whether the job asks for a pull request
  pr,          \* what was asked of GitHub, and what of it has got there
  output,      \* the run's output directory
  kept,        \* whether the completion points at the description in it
  completion,  \* the completion the run produced, or "none"
  tries,       \* the attempts that were made to report it
  end,         \* the RunEnd, or "none"
  record,      \* what the farm holds: leased, finalized, or a completion
  wantsCancel, \* whether the dashboard asked for a cancel
  otherVersion \* whether the farm speaks another protocol version by now

procVars == <<procs, status, reader, flusher, closing>>
taskVars == <<beats, canceled, drain, terminals, watcher>>
resultVars == <<marked, pr, output, kept, completion, tries, end>>
farmVars == <<record, wantsCancel, otherVersion>>
vars == <<pc, shutdown, why, procVars, taskVars, resultVars, createPr, farmVars>>

Failures == {"runtime_mismatch", "ctx_invalid", "spawn_failed", "wait_failed",
             "nonzero_exit", "pr_failed", "canceled", "runner_shutdown"}
Completions == Failures \cup {"done"}
Terminals == {"Cancel", "Drain", "Gone", "VersionMismatch"}

\* Every process of the run holds its pseudo-terminal open.
Procs == {Leader} \cup Members \cup Helpers

Points == {"starting", "validating", "watching", "waiting", "stopping", "unwatching",
           "draining", "closing", "joining", "settling", "pulling", "marking",
           "reporting", "leaving", "left"}

TERMINAL_CAPACITY == 8

\* The terminal channel never fills up, so no sender waits on a run that is
\* not receiving yet: a heartbeat that waited would let the lease lapse.
TypeOK ==
  /\ pc \in Points
  /\ shutdown \in {"Running", "Draining", "Hurry"}
  /\ why \in {"none", "Spawn", "Exit"} \cup Terminals
  /\ procs \subseteq Procs
  /\ status \in {"none", "ok", "bad", "lost"}
  /\ reader \in {"none", "reading", "done", "aborted"}
  /\ flusher \in {"flushing", "last", "stopped", "aborted"}
  /\ closing \in BOOLEAN
  /\ beats \in {"beating", "told", "aborted"}
  /\ canceled \in BOOLEAN
  /\ drain \in {"none", "waiting", "timing", "done", "aborted"}
  /\ terminals \in Seq(Terminals) /\ Len(terminals) < TERMINAL_CAPACITY
  /\ watcher \in {"none", "watching", "stopped"}
  /\ marked \in BOOLEAN
  /\ createPr \in BOOLEAN
  /\ pr \in {"none", "pushing", "pushed", "creating", "created"}
  /\ output \in {"none", "present", "removed"}
  /\ kept \in BOOLEAN
  /\ completion \in Completions \cup {"none"}
  /\ tries \in 0..CompleteTries
  /\ end \in RunEnds \cup {"none"}
  /\ record \in Completions \cup {"leased", "finalized"}
  /\ wantsCancel \in BOOLEAN
  /\ otherVersion \in BOOLEAN

\* enter() has started the flusher; execute() starts the heartbeat first.  A
\* run a shutdown has already overtaken is not executed (RunSlot!Start).
Init ==
  /\ pc = "starting"
  /\ shutdown = "Running"
  /\ why = "none"
  /\ procs = {} /\ status = "none"
  /\ reader = "none" /\ flusher = "flushing" /\ closing = FALSE
  /\ beats = "beating" /\ canceled = FALSE
  /\ drain = "none" /\ terminals = <<>>
  /\ watcher = "none" /\ marked = FALSE
  /\ createPr \in BOOLEAN
  /\ pr = "none" /\ output = "none" /\ kept = FALSE
  /\ completion = "none" /\ tries = 0 /\ end = "none"
  /\ record = "leased" /\ wantsCancel = FALSE /\ otherVersion = FALSE

Raised == shutdown # "Running"

\* execute() returns: its receiver of terminal events goes, and the running
\* job with it, which kills a leader that is still alive.
Return ==
  /\ pc' = "reporting"
  /\ procs' = procs \ {Leader}
  /\ terminals' = <<>>

\* A terminal event reaches the channel while execute() still receives.
Deliver(t) ==
  terminals' = IF pc \in {"reporting", "leaving", "left"} THEN terminals
               ELSE Append(terminals, t)

-----------------------------------------------------------------------------
(* Up to the spawn.                                                        *)

CheckRuntime ==
  /\ pc = "starting"
  /\ \/ pc' = "validating" /\ UNCHANGED <<completion, procs, terminals>>
     \/ completion' = "runtime_mismatch" /\ Return
  /\ UNCHANGED <<shutdown, why, status, reader, flusher, closing, beats, canceled, drain,
                 watcher, marked, pr, output, kept, tries, end, createPr, farmVars>>

\* A checkout that is refused is completed at once: no drain timer, no watcher
\* and no log close.  The output directory may fail to be created.
Validate ==
  /\ pc = "validating"
  /\ \/ /\ completion' = "ctx_invalid"
        /\ Return
        /\ UNCHANGED <<drain, output>>
     \/ /\ output' \in {"none", "present"}
        /\ drain' = "waiting"
        /\ pc' = "watching"
        /\ UNCHANGED <<completion, procs, terminals>>
  /\ UNCHANGED <<shutdown, why, status, reader, flusher, closing, beats, canceled, watcher,
                 marked, pr, kept, tries, end, createPr, farmVars>>

\* The watcher is up; ralphex starts, and what it starts, or it does not.
SpawnRalphex ==
  /\ pc = "watching"
  /\ watcher' = "watching"
  /\ \/ /\ \E others \in SUBSET (Members \cup Helpers) : procs' = {Leader} \cup others
        /\ reader' = "reading"
        /\ pc' = "waiting"
        /\ UNCHANGED <<drain, why>>
     \/ /\ drain' = IF drain = "done" THEN "done" ELSE "aborted"
        /\ why' = "Spawn"
        /\ pc' = "unwatching"
        /\ UNCHANGED <<procs, reader>>
  /\ UNCHANGED <<shutdown, status, flusher, closing, beats, canceled, terminals, resultVars,
                 createPr, farmVars>>

-----------------------------------------------------------------------------
(* The end of the run: ended() polls the exit before the channel.          *)

Ended(cause) ==
  /\ pc = "waiting"
  /\ why' = cause
  /\ drain' = IF drain = "done" THEN "done" ELSE "aborted"

\* wait() returns the status of a leader that has exited, whatever is queued.
ExitWins ==
  /\ Leader \notin procs
  /\ Ended("Exit")
  /\ pc' = "unwatching"
  /\ UNCHANGED <<shutdown, procVars, beats, canceled, terminals, watcher, resultVars, createPr, farmVars>>

\* wait() fails while the leader still runs.
WaitFails ==
  /\ Leader \in procs
  /\ Ended("Exit")
  /\ status' = "lost"
  /\ pc' = "unwatching"
  /\ UNCHANGED <<shutdown, procs, reader, flusher, closing, beats, canceled, terminals, watcher,
                 resultVars, createPr, farmVars>>

TerminalWins ==
  /\ Leader \in procs
  /\ terminals # <<>>
  /\ Ended(Head(terminals))
  /\ terminals' = Tail(terminals)
  /\ pc' = "stopping"
  /\ UNCHANGED <<shutdown, procVars, beats, canceled, watcher, resultVars, createPr, farmVars>>

\* Mutant: the kill is sent to the leader, not to its group.
KillLeader ==
  /\ pc = "stopping"
  /\ procs' = procs \ {Leader}
  /\ pc' = "unwatching"
  /\ UNCHANGED <<shutdown, why, status, reader, flusher, closing, taskVars, resultVars, createPr, farmVars>>

\* stop(): after the SIGTERM the leader has exited or the grace is over, and
\* the whole group is killed either way.
KillGroup ==
  /\ pc = "stopping"
  /\ procs' = procs \cap Helpers
  /\ pc' = "unwatching"
  /\ UNCHANGED <<shutdown, why, status, reader, flusher, closing, taskVars, resultVars, createPr, farmVars>>

\* PlanWatcher::stop, alongside a stop of the group or on its own.
StopWatcher ==
  /\ pc \in {"stopping", "unwatching"}
  /\ watcher = "watching"
  /\ watcher' = "stopped"
  /\ UNCHANGED <<pc, shutdown, why, procVars, beats, canceled, drain, terminals, resultVars,
                 createPr, farmVars>>

Unwatched ==
  /\ pc = "unwatching"
  /\ watcher = "stopped"
  /\ pc' = IF why = "Spawn" THEN "closing" ELSE "draining"
  /\ UNCHANGED <<shutdown, why, procVars, taskVars, resultVars, createPr, farmVars>>

\* drain_output: the reader reaches the end, or its budget does.
DrainOutput ==
  /\ pc = "draining"
  /\ \/ reader = "done" /\ UNCHANGED reader
     \/ reader = "reading" /\ reader' = "aborted"
  /\ pc' = "closing"
  /\ UNCHANGED <<shutdown, why, procs, status, flusher, closing, taskVars, resultVars, createPr, farmVars>>

\* What a run that was not left to exit is completed as; a run the farm gave
\* up on is not completed at all.
Stopped(cause) ==
  CASE cause = "Cancel" -> "canceled"
    [] cause = "Drain" -> "runner_shutdown"
    [] cause = "Spawn" -> "spawn_failed"
    [] cause \in {"Gone", "VersionMismatch"} -> "none"

\* Mutant: a run that was stopped is reported without marking the timeline.
ClosedUnmarked ==
  IF why = "Exit"
  THEN pc' = "settling" /\ UNCHANGED <<completion, procs, terminals>>
  ELSE completion' = Stopped(why) /\ Return

\* close() is over: the exit is settled, anything else has its completion.
Closed ==
  IF why = "Exit"
  THEN pc' = "settling" /\ UNCHANGED <<completion, procs, terminals>>
  ELSE /\ completion' = Stopped(why)
       /\ IF Stopped(why) = "none" THEN Return
          ELSE pc' = "marking" /\ UNCHANGED <<procs, terminals>>

\* Mutant: close() asks the flusher to stop and does not wait for it.
CloseLogAtOnce ==
  /\ pc = "closing"
  /\ closing' = TRUE
  /\ Closed
  /\ UNCHANGED <<shutdown, why, status, reader, flusher, beats, canceled, drain, watcher,
                 marked, pr, output, kept, tries, end, createPr, farmVars>>

\* close() asks the flusher to stop and takes its handle; a second close
\* finds no handle and returns at once.
CloseLog ==
  /\ pc = "closing"
  /\ closing' = TRUE
  /\ IF closing
     THEN Closed
     ELSE pc' = "joining" /\ UNCHANGED <<completion, procs, terminals>>
  /\ UNCHANGED <<shutdown, why, status, reader, flusher, beats, canceled, drain, watcher,
                 marked, pr, output, kept, tries, end, createPr, farmVars>>

\* The flusher has stopped, or LOG_CLOSE_TIMEOUT is over and it is dropped.
LogClosed ==
  /\ pc = "joining"
  /\ \/ flusher = "stopped" /\ UNCHANGED flusher
     \/ flusher # "stopped" /\ flusher' = "aborted"
  /\ Closed
  /\ UNCHANGED <<shutdown, why, status, reader, closing, beats, canceled, drain, watcher,
                 marked, pr, output, kept, tries, end, createPr, farmVars>>

-----------------------------------------------------------------------------
(* What an exited run still owes.                                          *)

\* Nothing is awaited here before the pull request or the failed snapshot.
Settle ==
  /\ pc = "settling"
  /\ \/ /\ status = "ok" /\ createPr
        /\ pc' = "pulling"
        /\ UNCHANGED <<completion, procs, terminals>>
     \/ /\ status = "ok" /\ ~createPr
        /\ completion' = "done"
        /\ Return
     \/ /\ status \in {"bad", "lost"}
        /\ completion' = IF status = "bad" THEN "nonzero_exit" ELSE "wait_failed"
        /\ pc' = "marking"
        /\ UNCHANGED <<procs, terminals>>
  /\ UNCHANGED <<shutdown, why, status, reader, flusher, closing, beats, canceled, drain,
                 watcher, marked, pr, output, kept, tries, end, createPr, farmVars>>

\* git and gh are started by the sequence that is being awaited, one behind
\* the other, and killed when it is dropped or runs out of time.
PrAsks ==
  /\ pc = "pulling"
  /\ \/ pr = "none" /\ pr' = "pushing"
     \/ pr = "pushed" /\ pr' = "creating"
  /\ UNCHANGED <<pc, shutdown, why, procVars, taskVars, marked, output, kept, completion, tries, end,
                 createPr, farmVars>>

\* What they asked for takes effect on GitHub, whoever still waits for it: a
\* kill does not call back a request that is on its way.  A branch that has
\* an open pull request needs its push only.
PrArrives ==
  /\ \/ pr = "pushing" /\ pr' \in {"pushed", "created"}
     \/ pr = "creating" /\ pr' = "created"
  /\ UNCHANGED <<pc, shutdown, why, procVars, taskVars, marked, output, kept, completion, tries, end,
                 createPr, farmVars>>

\* The sequence returns a URL, or the error of a step; a step that is killed
\* at its timeout may have done its work.  A description finalize wrote is
\* kept when it cannot be published.
PrReturns ==
  /\ pc = "pulling"
  /\ \/ /\ pr = "created"
        /\ completion' = "done"
        /\ Return
        /\ UNCHANGED kept
     \/ /\ completion' = "pr_failed"
        /\ kept' \in {FALSE, output = "present"}
        /\ pc' = "marking"
        /\ UNCHANGED <<procs, terminals>>
  /\ UNCHANGED <<shutdown, why, status, reader, flusher, closing, beats, canceled, drain,
                 watcher, marked, pr, output, tries, end, createPr, farmVars>>

\* The failed snapshot is posted, within its own deadline.
MarkFailure ==
  /\ pc = "marking"
  /\ marked' = TRUE
  /\ Return
  /\ UNCHANGED <<shutdown, why, status, reader, flusher, closing, beats, canceled, drain,
                 watcher, pr, output, kept, completion, tries, end, createPr, farmVars>>

\* Mutant: a drain that was queued when ralphex exited overtakes the exit.
InterruptByDrain ==
  /\ why = "Exit"
  /\ pc \in {"draining", "joining", "pulling", "marking"}
  /\ terminals # <<>>
  /\ terminals' = Tail(terminals)
  /\ why' = Head(terminals)
  /\ pc' = "closing"
  /\ completion' = "none"
  /\ kept' = FALSE
  /\ UNCHANGED <<shutdown, procVars, beats, canceled, drain, watcher, marked, pr, output, tries,
                 end, createPr, farmVars>>

\* Mutant: the sequence that opens the pull request is not dropped.
InterruptUndropped ==
  /\ why = "Exit"
  /\ pc = "pulling"
  /\ terminals # <<>>
  /\ terminals' = Tail(terminals)
  /\ why' = Head(terminals)
  /\ UNCHANGED <<pc, shutdown, procVars, beats, canceled, drain, watcher, marked, pr, output,
                 kept, completion, tries, end, createPr, farmVars>>

\* The channel is read on past the exit, at every await of finish(): a drain
\* is ignored, anything else drops finish() where it is.  The reader and the
\* flusher whose handles it holds are dropped with it and run on.
Interrupt ==
  /\ why = "Exit"
  /\ pc \in {"draining", "joining", "pulling", "marking"}
  /\ terminals # <<>>
  /\ terminals' = Tail(terminals)
  /\ IF Head(terminals) = "Drain"
     THEN UNCHANGED <<pc, why, completion, kept>>
     ELSE /\ why' = Head(terminals)
          /\ pc' = "closing"
          /\ completion' = "none"
          /\ kept' = FALSE
  /\ UNCHANGED <<shutdown, procVars, beats, canceled, drain, watcher, marked, pr, output, tries,
                 end, createPr, farmVars>>

-----------------------------------------------------------------------------
(* The report.                                                             *)

\* complete() is retried while no answer arrives; the farm answers 410 to
\* anything about a run it has finalized or recorded.
Attempt ==
  /\ pc = "reporting" /\ completion # "none" /\ end = "none"
  /\ \/ \* no answer: the request was lost, or the answer to it; or an answer
        \* that is no use, which is retried or is not
        /\ \/ UNCHANGED record
           \/ ~otherVersion /\ record = "leased" /\ record' = completion
        /\ tries' = tries + 1
        /\ end' \in {"Unreported"} \cup (IF tries' < CompleteTries THEN {"none"} ELSE {})
     \/ /\ otherVersion
        /\ end' = "Unreported"
        /\ UNCHANGED <<record, tries>>
     \/ /\ ~otherVersion /\ record # "leased"
        /\ end' = "Forgotten"
        /\ UNCHANGED <<record, tries>>
     \/ /\ ~otherVersion /\ record = "leased"
        /\ record' = completion
        /\ end' = "Reported"
        /\ UNCHANGED tries
  /\ UNCHANGED <<pc, shutdown, why, procVars, taskVars, marked, pr, output, kept, completion, createPr,
                 wantsCancel, otherVersion>>

\* Mutant: every run without a completion counts as one the farm dropped.
NothingDropped ==
  /\ pc = "reporting" /\ completion = "none" /\ end = "none"
  /\ end' = "Dropped"
  /\ UNCHANGED <<pc, shutdown, why, procVars, taskVars, marked, pr, output, kept, completion, tries,
                 createPr, farmVars>>

NothingToReport ==
  /\ pc = "reporting" /\ completion = "none" /\ end = "none"
  /\ end' = IF why = "VersionMismatch" THEN "VersionMismatch" ELSE "Dropped"
  /\ UNCHANGED <<pc, shutdown, why, procVars, taskVars, marked, pr, output, kept, completion, tries,
                 createPr, farmVars>>

\* The heartbeat ends, and the directory goes unless its removal fails.
Discard ==
  /\ pc = "reporting" /\ end # "none"
  /\ beats' = IF beats = "told" THEN "told" ELSE "aborted"
  /\ output' \in IF output = "present" /\ ~kept THEN {"removed", "present"} ELSE {output}
  /\ pc' = "leaving"
  /\ UNCHANGED <<shutdown, why, procVars, canceled, drain, terminals, watcher, marked, pr, kept,
                 completion, tries, end, createPr, farmVars>>

Leave ==
  /\ pc = "leaving"
  /\ pc' = "left"
  /\ UNCHANGED <<shutdown, why, procVars, taskVars, resultVars, createPr, farmVars>>

-----------------------------------------------------------------------------
(* The tasks beside the run.                                               *)

\* Mutant: a cancel is passed on by every heartbeat that hears of it.
BeatRepeats ==
  /\ beats = "beating"
  /\ \/ /\ otherVersion
        /\ beats' = "told" /\ Deliver("VersionMismatch")
     \/ /\ ~otherVersion /\ record # "leased"
        /\ beats' = "told" /\ Deliver("Gone")
     \/ /\ ~otherVersion /\ record = "leased" /\ wantsCancel
        /\ Deliver("Cancel") /\ UNCHANGED beats
  /\ UNCHANGED <<pc, shutdown, why, procVars, canceled, drain, watcher, resultVars, createPr, farmVars>>

\* One heartbeat that was answered with something to act on; every other one
\* changes nothing.
Beat ==
  /\ beats = "beating"
  /\ \/ /\ otherVersion
        /\ beats' = "told" /\ Deliver("VersionMismatch") /\ UNCHANGED canceled
     \/ /\ ~otherVersion /\ record # "leased"
        /\ beats' = "told" /\ Deliver("Gone") /\ UNCHANGED canceled
     \/ /\ ~otherVersion /\ record = "leased" /\ wantsCancel /\ ~canceled
        /\ canceled' = TRUE /\ Deliver("Cancel") /\ UNCHANGED beats
  /\ UNCHANGED <<pc, shutdown, why, procVars, drain, watcher, resultVars, createPr, farmVars>>

\* Mutant: the timer that a shutdown started never fires.
DrainTaskStuck ==
  /\ drain = "waiting" /\ Raised
  /\ drain' = "timing"
  /\ UNCHANGED <<pc, shutdown, why, procVars, beats, canceled, terminals, watcher, resultVars,
                 createPr, farmVars>>

\* drain_after: a shutdown starts the timer, a hurry cuts it to nothing.
DrainTask ==
  /\ \/ /\ drain = "waiting" /\ shutdown = "Draining"
        /\ drain' = "timing" /\ UNCHANGED terminals
     \/ /\ \/ drain = "waiting" /\ shutdown = "Hurry"
           \/ drain = "timing"
        /\ drain' = "done" /\ Deliver("Drain")
  /\ UNCHANGED <<pc, shutdown, why, procVars, beats, canceled, watcher, resultVars, createPr,
                 farmVars>>

\* The pump ends once nobody holds the pseudo-terminal open.
ReaderEnds ==
  /\ reader = "reading" /\ procs = {}
  /\ reader' = "done"
  /\ UNCHANGED <<pc, shutdown, why, procs, status, flusher, closing, taskVars, resultVars, createPr, farmVars>>

\* Asked to close, the flusher sends what is buffered and returns.
Flush ==
  /\ \/ flusher = "flushing" /\ closing /\ flusher' = "last"
     \/ flusher = "last" /\ flusher' = "stopped"
  /\ UNCHANGED <<pc, shutdown, why, procs, status, reader, closing, taskVars, resultVars, createPr, farmVars>>

-----------------------------------------------------------------------------
(* The environment: the processes of the run, the operator and the farm.   *)

LeaderExits ==
  /\ Leader \in procs
  /\ procs' = procs \ {Leader}
  /\ status' \in IF pc = "waiting" THEN {"ok", "bad"} ELSE {status}
  /\ UNCHANGED <<pc, shutdown, why, reader, flusher, closing, taskVars, resultVars, createPr, farmVars>>

OtherExits ==
  /\ \E p \in procs \ {Leader} : procs' = procs \ {p}
  /\ UNCHANGED <<pc, shutdown, why, status, reader, flusher, closing, taskVars, resultVars, createPr, farmVars>>

Signal ==
  /\ shutdown # "Hurry"
  /\ shutdown' = IF shutdown = "Running" THEN "Draining" ELSE "Hurry"
  /\ UNCHANGED <<pc, why, procVars, taskVars, resultVars, createPr, farmVars>>

\* A cancel is asked for on the dashboard; the farm finalizes the run itself,
\* for a lapsed lease say; the farm is upgraded.
Farm ==
  /\ \/ record = "leased" /\ ~wantsCancel /\ wantsCancel' = TRUE /\ UNCHANGED <<record, otherVersion>>
     \/ record = "leased" /\ record' = "finalized" /\ UNCHANGED <<wantsCancel, otherVersion>>
     \/ ~otherVersion /\ otherVersion' = TRUE /\ UNCHANGED <<record, wantsCancel>>
  /\ UNCHANGED <<pc, shutdown, why, procVars, taskVars, resultVars, createPr>>

-----------------------------------------------------------------------------
RunStep ==
  \/ CheckRuntime \/ Validate \/ SpawnRalphex \/ ExitWins \/ TerminalWins \/ KillGroup
  \/ StopWatcher \/ Unwatched \/ DrainOutput \/ CloseLog \/ LogClosed \/ Settle \/ PrReturns
  \/ MarkFailure \/ Interrupt \/ Attempt \/ NothingToReport \/ Discard \/ Leave

\* The run is over and the slot is another's: no step of this run follows,
\* except of the tasks it leaked, and of a request to GitHub that is late.
Over == pc = "left" /\ UNCHANGED vars

Next ==
  \/ /\ pc # "left"
     /\ \/ RunStep
        \/ WaitFails \/ PrAsks \/ Beat \/ DrainTask \/ ReaderEnds \/ Flush
        \/ LeaderExits \/ OtherExits \/ Signal \/ Farm
  \/ PrArrives
  \/ Over

Spec == Init /\ [][Next]_vars

(* Every await of execute() has a deadline of its own except wait(), whose *)
(* step is enabled only by an exit or a terminal event; the drain timer    *)
(* fires; and of the heartbeats, which are sent for as long as the run     *)
(* lasts, one is answered in the end.                                      *)
Fairness ==
  /\ WF_vars(pc # "left" /\ RunStep)
  /\ WF_vars(pc # "left" /\ DrainTask)
  /\ WF_vars(pc # "left" /\ Beat)

FairSpec == Spec /\ Fairness

-----------------------------------------------------------------------------
(* Properties.                                                             *)

Returned == pc \in {"reporting", "leaving", "left"}

\* A terminal event overtook a run whose exit had already won.
Interrupted == why \in Terminals /\ status # "none"

\* By the time the farm is told that the run is over, ralphex is dead, and
\* so is the rest of a group that was stopped: the next run finds nothing of
\* it at work in the checkout.  It holds of a leader whose wait() failed too.
NothingStoppedRunsOn ==
  Returned =>
    /\ Leader \notin procs
    /\ why \in Terminals /\ ~Interrupted => procs \subseteq Helpers

\* What the farm records of the run is what happened to it, whatever raced
\* its exit: done only after a clean exit and, where one was asked for, with
\* the pull request open; runner_shutdown never for a run that had exited.
TruthfulRecord ==
  /\ record = "done" => status = "ok" /\ (createPr => pr = "created")
  /\ record = "nonzero_exit" => status = "bad"
  /\ record = "pr_failed" => status = "ok" /\ createPr
  /\ record = "canceled" => wantsCancel
  /\ record = "runner_shutdown" => Raised /\ status = "none"

\* The daemon's account of the end fits the farm's: what RunSlot assumes.
EndAgrees ==
  end # "none" =>
    /\ Agrees(end, IF record \in Completions THEN "recorded" ELSE record)
    /\ end = "Reported" => record = completion

\* The dashboard's timeline is marked failed before a run that had one is
\* completed as a failure: afterwards the farm would refuse the snapshot.
FailureMarked ==
  Returned /\ completion \in Failures /\ watcher # "none" => marked

\* A run nothing overtook reports with its output read and its log flushed,
\* or given up at their deadlines: no task of it is still at work.  Nor is its
\* directory left behind on purpose, but for the description the completion
\* tells the operator to look for, and that one is there.
NothingLeftBehind ==
  /\ Returned /\ ~Interrupted =>
       /\ reader # "reading"
       /\ closing => flusher \in {"stopped", "aborted"}
  /\ kept => completion = "pr_failed" /\ output = "present"

\* A cancel, a forgotten lease or a mismatch abandons the pull request: nothing
\* more is asked of GitHub for a run that is not being finished any more.  The
\* one request that was on its way then may still take effect, but a push that
\* does is not followed by a pull request of its own.
AbandonedPullRequest ==
  [][why # "Exit" /\ pr' # pr => pr \in {"pushing", "creating"}]_vars

\* A shutdown ends the run, however long ralphex would have gone on, and so does
\* a cancel, a run the farm finalized, or a farm of another version.
RunIsEnded == (Raised \/ wantsCancel \/ record # "leased" \/ otherVersion) ~> pc = "left"

\* The comment of drain_output(): a reader that outlasts its budget is
\* aborted, for one that is merely dropped would outlive the run.
NoReaderOutlivesRun == pc = "left" => reader # "reading"
=============================================================================
