----------------------------- MODULE RunLifeProofs -----------------------------
(***************************************************************************)
(* Proofs about RunLife: its safety properties, for any processes of the   *)
(* run and any number of attempts to report it.                            *)
(*                                                                         *)
(* None of them is inductive.  The farm's record is the completion, so     *)
(* what is proved of the record is that each completion is true while it   *)
(* waits to be reported (CompletionOK), which for a cancel, a drain or a   *)
(* forgotten lease rests on the events that are still queued (HeardOK).    *)
(***************************************************************************)
EXTENDS RunLife, TLAPS

\* Before ralphex runs.
Early == {"starting", "validating", "watching"}

\* Where finish() or the end of a stopped run is: the output has been read,
\* or given up.
Late == {"closing", "joining", "settling", "pulling", "marking"}

\* A terminal event is queued, or taken up, only for cause.
Grounds(t) ==
  /\ t = "Cancel" => wantsCancel
  /\ t = "Drain" => Raised
  /\ t = "Gone" => record # "leased"

HeardOK ==
  /\ \A i \in 1..Len(terminals) : Grounds(terminals[i])
  /\ Grounds(why)

\* The heartbeat and the timer send one event each, and a cancel comes once.
RoomOK ==
  Len(terminals) <= (IF canceled THEN 1 ELSE 0) + (IF beats = "told" THEN 1 ELSE 0)
                      + (IF drain = "done" THEN 1 ELSE 0)

TimingOK == drain \in {"timing", "done"} => Raised

\* What a point of execute() says of the run, and what ended it.
StageOK ==
  /\ pc \in Early =>
       why = "none" /\ status = "none" /\ procs = {} /\ reader = "none" /\ watcher = "none"
  /\ pc \in {"starting", "validating"} => drain = "none"
  /\ pc = "waiting" => why = "none" /\ (Leader \in procs <=> status = "none")
  /\ pc = "stopping" => why \in Terminals /\ status = "none"
  /\ pc \in Late \cup {"unwatching", "draining"} => why # "none"

CauseOK ==
  /\ why = "Exit" => status # "none"
  /\ why = "Spawn" => procs = {} /\ reader = "none"
  /\ why = "Drain" => status = "none"

KilledOK == why \in Terminals /\ status = "none" /\ pc # "stopping" => procs \subseteq Helpers

\* A completion is chosen at the end, and what it says is so.
FinishOK ==
  /\ pc \in {"settling", "pulling"} => why = "Exit"
  /\ pc = "pulling" => status = "ok" /\ createPr
  /\ pc = "marking" => completion \in Failures
  /\ ~Returned /\ pc # "marking" => completion = "none"
  /\ Returned /\ completion = "none" => why \in {"Gone", "VersionMismatch"}

CompletionOK ==
  /\ completion = "done" => status = "ok" /\ (createPr => pr = "created")
  /\ completion = "nonzero_exit" => status = "bad"
  /\ completion = "pr_failed" => status = "ok" /\ createPr
  /\ completion = "canceled" => wantsCancel
  /\ completion = "runner_shutdown" => Raised /\ status = "none"

RecordOK ==
  /\ record \in Completions => record = completion /\ Returned
  /\ end # "none" => Returned
  /\ end = "none" => tries < CompleteTries

QuietOK ==
  ~Interrupted =>
    /\ Returned \/ pc \in Late => reader # "reading"
    /\ closing => Returned \/ pc \in Late \ {"closing"}
    /\ closing /\ pc # "joining" => flusher \in {"stopped", "aborted"}

KeptOK == kept => completion = "pr_failed" /\ output = "present"

Inv ==
  /\ TypeOK /\ RoomOK /\ HeardOK /\ TimingOK
  /\ StageOK /\ CauseOK /\ KilledOK /\ FinishOK /\ CompletionOK /\ RecordOK
  /\ QuietOK /\ KeptOK /\ NothingStoppedRunsOn /\ EndAgrees /\ FailureMarked

-----------------------------------------------------------------------------
(* The queue of terminal events.                                           *)

(* An event that is sent for cause is one more in the queue.                *)
LEMMA DeliverOK ==
  ASSUME Inv, NEW t \in Terminals, Grounds(t), Deliver(t), UNCHANGED <<shutdown, why, farmVars>>
  PROVE  /\ terminals' \in Seq(Terminals)
         /\ Len(terminals') <= Len(terminals) + 1
         /\ HeardOK'
<1>1. terminals \in Seq(Terminals)
  BY DEF Inv, TypeOK
<1>2. terminals' \in {terminals, Append(terminals, t)}
  BY DEF Deliver
<1>3. \A e \in Terminals \cup {"none", "Spawn", "Exit"} : Grounds(e) => Grounds(e)'
  BY DEF Grounds, Raised, farmVars
<1>4. why \in Terminals \cup {"none", "Spawn", "Exit"}
  BY DEF Inv, TypeOK
<1>5. terminals' \in Seq(Terminals) /\ Len(terminals') <= Len(terminals) + 1
  BY <1>1, <1>2
<1>6. \A i \in 1..Len(terminals') : Grounds(terminals'[i])
  BY <1>1, <1>2 DEF Inv, HeardOK
<1>7. \A i \in 1..Len(terminals') : terminals'[i] \in Terminals
  BY <1>5
<1>. QED
  BY <1>3, <1>4, <1>5, <1>6, <1>7 DEF Inv, HeardOK, farmVars

(* execute() returns and its receiver goes, or the queue is left alone.    *)
LEMMA QueueKept ==
  ASSUME Inv, terminals' \in {terminals, <<>>}, drain = "done" => drain' = "done",
         UNCHANGED <<canceled, beats, shutdown, why, wantsCancel, record>>
  PROVE  terminals' \in Seq(Terminals) /\ RoomOK' /\ HeardOK'
<1>1. terminals \in Seq(Terminals) /\ RoomOK /\ HeardOK
  BY DEF Inv, TypeOK
<1>2. HeardOK'
  BY <1>1 DEF HeardOK, Grounds, Raised
<1>3. CASE terminals' = terminals
  BY <1>1, <1>2, <1>3 DEF RoomOK
<1>4. CASE terminals' = <<>>
  <2>1. Len(terminals') = 0 /\ terminals' \in Seq(Terminals)
    BY <1>4
  <2>. QED
    BY <1>2, <2>1 DEF RoomOK
<1>. QED
  BY <1>3, <1>4

-----------------------------------------------------------------------------
(* Up to the spawn.                                                        *)

LEMMA CheckRuntimeKeeps == ASSUME Inv, CheckRuntime PROVE Inv'
<1>. USE DEF procVars, taskVars, resultVars, farmVars
<1>1. /\ terminals' \in {terminals, <<>>} /\ (drain = "done" => drain' = "done")
      /\ UNCHANGED <<canceled, beats, shutdown, why, wantsCancel, record>>
  BY DEF CheckRuntime, Return
<1>2. terminals' \in Seq(Terminals) /\ RoomOK' /\ HeardOK'
  BY <1>1, QueueKept
<1>3. TypeOK'
  <2>1. UNCHANGED <<shutdown, why, status, reader, flusher, closing, beats, canceled, drain,
                    watcher, marked, createPr, pr, output, kept, tries, end, record,
                    wantsCancel, otherVersion>>
    BY DEF CheckRuntime, Return
  <2>2. /\ pc' \in Points
        /\ completion' \in Completions \cup {"none"}
        /\ procs' \subseteq Procs
    BY DEF CheckRuntime, Return, Inv, TypeOK, StageOK, Points, Completions, Failures
  <2>3. Len(terminals') < TERMINAL_CAPACITY
    BY <1>2 DEF RoomOK, TERMINAL_CAPACITY
  <2>. QED
    BY <1>2, <2>1, <2>2, <2>3 DEF Inv, TypeOK
<1>4. StageOK' /\ CauseOK' /\ KilledOK' /\ TimingOK'
  BY DEF CheckRuntime, Return, Inv, TypeOK, StageOK, CauseOK, KilledOK, TimingOK, Early,
         Late, Raised, Terminals
<1>5. FinishOK' /\ CompletionOK'
  BY DEF CheckRuntime, Return, Inv, TypeOK, StageOK, CauseOK, FinishOK, CompletionOK, Late,
         HeardOK, Grounds, Returned
<1>6. RecordOK' /\ KeptOK' /\ EndAgrees'
  BY DEF CheckRuntime, Return, Inv, TypeOK, StageOK, FinishOK, RecordOK, Late, KeptOK,
         EndAgrees, Agrees, HeardOK, Returned
<1>7. QuietOK' /\ NothingStoppedRunsOn' /\ FailureMarked'
  BY DEF CheckRuntime, Return, Inv, TypeOK, StageOK, CauseOK, KilledOK, FinishOK, QuietOK,
         NothingStoppedRunsOn, FailureMarked, Early, Late, Returned, Interrupted, Terminals,
         Failures
<1>. QED
  BY <1>2, <1>3, <1>4, <1>5, <1>6, <1>7 DEF Inv

LEMMA ValidateKeeps == ASSUME Inv, Validate PROVE Inv'
<1>. USE DEF procVars, taskVars, resultVars, farmVars
<1>1. /\ terminals' \in {terminals, <<>>} /\ (drain = "done" => drain' = "done")
      /\ UNCHANGED <<canceled, beats, shutdown, why, wantsCancel, record>>
  BY DEF Validate, Return, Inv, StageOK
<1>2. terminals' \in Seq(Terminals) /\ RoomOK' /\ HeardOK'
  BY <1>1, QueueKept
<1>3. TypeOK'
  <2>1. UNCHANGED <<shutdown, why, status, reader, flusher, closing, beats, canceled,
                    watcher, marked, createPr, pr, kept, tries, end, record, wantsCancel,
                    otherVersion>>
    BY DEF Validate, Return
  <2>2. /\ pc' \in Points
        /\ completion' \in Completions \cup {"none"}
        /\ procs' \subseteq Procs
        /\ drain' \in {"none", "waiting", "timing", "done", "aborted"}
        /\ output' \in {"none", "present", "removed"}
    BY DEF Validate, Return, Inv, TypeOK, StageOK, Points, Completions, Failures
  <2>3. Len(terminals') < TERMINAL_CAPACITY
    BY <1>2 DEF RoomOK, TERMINAL_CAPACITY
  <2>. QED
    BY <1>2, <2>1, <2>2, <2>3 DEF Inv, TypeOK
<1>4. StageOK' /\ CauseOK' /\ KilledOK' /\ TimingOK'
  BY DEF Validate, Return, Inv, TypeOK, StageOK, CauseOK, KilledOK, TimingOK, Early, Late,
         Raised, Terminals
<1>5. FinishOK' /\ CompletionOK'
  BY DEF Validate, Return, Inv, TypeOK, StageOK, CauseOK, FinishOK, CompletionOK, Late,
         HeardOK, Grounds, Returned
<1>6. RecordOK' /\ KeptOK' /\ EndAgrees'
  BY DEF Validate, Return, Inv, TypeOK, StageOK, FinishOK, RecordOK, Late, KeptOK,
         EndAgrees, Agrees, HeardOK, Returned
<1>7. QuietOK' /\ NothingStoppedRunsOn' /\ FailureMarked'
  BY DEF Validate, Return, Inv, TypeOK, StageOK, CauseOK, KilledOK, FinishOK, QuietOK,
         NothingStoppedRunsOn, FailureMarked, Early, Late, Returned, Interrupted, Terminals,
         Failures
<1>. QED
  BY <1>2, <1>3, <1>4, <1>5, <1>6, <1>7 DEF Inv

LEMMA SpawnRalphexKeeps == ASSUME Inv, SpawnRalphex PROVE Inv'
<1>. USE DEF procVars, taskVars, resultVars, farmVars
<1>2. RoomOK' /\ HeardOK'
  BY DEF SpawnRalphex, Inv, TypeOK, RoomOK, HeardOK, Grounds, Raised
<1>3. TypeOK'
  BY DEF SpawnRalphex, Inv, TypeOK, StageOK, Procs, Points
<1>4. StageOK' /\ CauseOK' /\ KilledOK' /\ TimingOK'
  BY ProcsAssumption DEF SpawnRalphex, Inv, TypeOK, StageOK, CauseOK, KilledOK, TimingOK,
         Early, Late, Raised, Terminals
<1>5. FinishOK' /\ CompletionOK'
  BY DEF SpawnRalphex, Inv, TypeOK, StageOK, CauseOK, FinishOK, CompletionOK, Late, HeardOK,
         Grounds, Returned
<1>6. RecordOK' /\ KeptOK' /\ EndAgrees'
  BY DEF SpawnRalphex, Inv, TypeOK, StageOK, FinishOK, RecordOK, Late, KeptOK, EndAgrees,
         Agrees, HeardOK, Returned
<1>7. QuietOK' /\ NothingStoppedRunsOn' /\ FailureMarked'
  BY ProcsAssumption DEF SpawnRalphex, Inv, TypeOK, StageOK, CauseOK, KilledOK, FinishOK,
         QuietOK, NothingStoppedRunsOn, FailureMarked, Early, Late,
         Returned, Interrupted, Terminals
<1>. QED
  BY <1>2, <1>3, <1>4, <1>5, <1>6, <1>7 DEF Inv

-----------------------------------------------------------------------------
(* The end of the run.                                                     *)

LEMMA ExitWinsKeeps == ASSUME Inv, ExitWins PROVE Inv'
<1>. USE DEF procVars, taskVars, resultVars, farmVars
<1>2. RoomOK' /\ HeardOK'
  BY DEF ExitWins, Ended, Inv, TypeOK, RoomOK, HeardOK, Grounds, Raised
<1>3. TypeOK'
  BY DEF ExitWins, Ended, Inv, TypeOK, Points
<1>4. StageOK' /\ CauseOK' /\ KilledOK' /\ TimingOK'
  BY DEF ExitWins, Ended, Inv, TypeOK, StageOK, CauseOK, KilledOK, TimingOK, Early, Late,
         Raised, Terminals
<1>5. FinishOK' /\ CompletionOK'
  BY DEF ExitWins, Ended, Inv, TypeOK, StageOK, CauseOK, FinishOK, CompletionOK, Late,
         HeardOK, Grounds, Returned
<1>6. RecordOK' /\ KeptOK' /\ EndAgrees'
  BY DEF ExitWins, Ended, Inv, TypeOK, StageOK, FinishOK, RecordOK, Late, KeptOK, EndAgrees,
         Agrees, HeardOK, Returned
<1>7. QuietOK' /\ NothingStoppedRunsOn' /\ FailureMarked'
  BY DEF ExitWins, Ended, Inv, TypeOK, StageOK, CauseOK, KilledOK, FinishOK, QuietOK,
         NothingStoppedRunsOn, FailureMarked, Early, Late, Returned, Interrupted, Terminals
<1>. QED
  BY <1>2, <1>3, <1>4, <1>5, <1>6, <1>7 DEF Inv

LEMMA WaitFailsKeeps == ASSUME Inv, WaitFails PROVE Inv'
<1>. USE DEF procVars, taskVars, resultVars, farmVars
<1>2. RoomOK' /\ HeardOK'
  BY DEF WaitFails, Ended, Inv, TypeOK, RoomOK, HeardOK, Grounds, Raised
<1>3. TypeOK'
  BY DEF WaitFails, Ended, Inv, TypeOK, Points
<1>4. StageOK' /\ CauseOK' /\ KilledOK' /\ TimingOK'
  BY DEF WaitFails, Ended, Inv, TypeOK, StageOK, CauseOK, KilledOK, TimingOK, Early, Late,
         Raised, Terminals
<1>5. FinishOK' /\ CompletionOK'
  BY DEF WaitFails, Ended, Inv, TypeOK, StageOK, CauseOK, FinishOK, CompletionOK, Late,
         HeardOK, Grounds, Returned
<1>6. RecordOK' /\ KeptOK' /\ EndAgrees'
  BY DEF WaitFails, Ended, Inv, TypeOK, StageOK, FinishOK, RecordOK, Late, KeptOK,
         EndAgrees, Agrees, HeardOK, Returned
<1>7. QuietOK' /\ NothingStoppedRunsOn' /\ FailureMarked'
  BY DEF WaitFails, Ended, Inv, TypeOK, StageOK, CauseOK, KilledOK, FinishOK, QuietOK,
         NothingStoppedRunsOn, FailureMarked, Early, Late, Returned, Interrupted, Terminals
<1>. QED
  BY <1>2, <1>3, <1>4, <1>5, <1>6, <1>7 DEF Inv

(* The leader is alive, so no exit was seen.                               *)
LEMMA TerminalWinsKeeps == ASSUME Inv, TerminalWins PROVE Inv'
<1>. USE DEF procVars, taskVars, resultVars, farmVars
<1>2. terminals' \in Seq(Terminals) /\ RoomOK' /\ HeardOK'
  BY DEF TerminalWins, Ended, Inv, TypeOK, RoomOK, HeardOK, Grounds, Raised
<1>3. TypeOK'
  <2>1. UNCHANGED <<shutdown, procs, status, reader, flusher, closing, beats, canceled,
                    watcher, marked, createPr, pr, output, kept, completion, tries, end,
                    record, wantsCancel, otherVersion>>
    BY DEF TerminalWins, Ended
  <2>2. /\ why' \in {"none", "Spawn", "Exit"} \cup Terminals
        /\ drain' \in {"none", "waiting", "timing", "done", "aborted"}
        /\ pc' \in Points
    BY DEF TerminalWins, Ended, Inv, TypeOK, StageOK, Points, Terminals
  <2>3. Len(terminals') < TERMINAL_CAPACITY
    BY <1>2 DEF RoomOK, TERMINAL_CAPACITY
  <2>. QED
    BY <1>2, <2>1, <2>2, <2>3 DEF Inv, TypeOK
<1>4. StageOK' /\ CauseOK' /\ KilledOK' /\ TimingOK'
  BY DEF TerminalWins, Ended, Inv, TypeOK, StageOK, CauseOK, KilledOK, TimingOK, Early,
         Late, Raised, Terminals
<1>5. FinishOK' /\ CompletionOK'
  BY DEF TerminalWins, Ended, Inv, TypeOK, StageOK, CauseOK, FinishOK, CompletionOK, Late,
         HeardOK, Grounds, Returned
<1>6. RecordOK' /\ KeptOK' /\ EndAgrees'
  BY DEF TerminalWins, Ended, Inv, TypeOK, StageOK, FinishOK, RecordOK, Late, KeptOK,
         EndAgrees, Agrees, HeardOK, Returned
<1>7. QuietOK' /\ NothingStoppedRunsOn' /\ FailureMarked'
  BY DEF TerminalWins, Ended, Inv, TypeOK, StageOK, CauseOK, KilledOK, FinishOK, QuietOK,
         NothingStoppedRunsOn, FailureMarked, Early, Late, Returned, Interrupted, Terminals
<1>. QED
  BY <1>2, <1>3, <1>4, <1>5, <1>6, <1>7 DEF Inv

(* From here on only the helpers of a stopped run may live.                *)
LEMMA KillGroupKeeps == ASSUME Inv, KillGroup PROVE Inv'
<1>. USE DEF procVars, taskVars, resultVars, farmVars
<1>2. RoomOK' /\ HeardOK'
  BY DEF KillGroup, Inv, TypeOK, RoomOK, HeardOK, Grounds, Raised
<1>3. TypeOK'
  BY DEF KillGroup, Inv, TypeOK, Points
<1>4. StageOK' /\ CauseOK' /\ KilledOK' /\ TimingOK'
  BY ProcsAssumption DEF KillGroup, Inv, TypeOK, StageOK, CauseOK, KilledOK, TimingOK,
         Early, Late, Raised, Terminals
<1>5. FinishOK' /\ CompletionOK'
  BY DEF KillGroup, Inv, TypeOK, StageOK, CauseOK, FinishOK, CompletionOK, Late, HeardOK,
         Grounds, Returned
<1>6. RecordOK' /\ KeptOK' /\ EndAgrees'
  BY DEF KillGroup, Inv, TypeOK, StageOK, FinishOK, RecordOK, Late, KeptOK, EndAgrees,
         Agrees, HeardOK, Returned
<1>7. QuietOK' /\ NothingStoppedRunsOn' /\ FailureMarked'
  BY ProcsAssumption DEF KillGroup, Inv, TypeOK, StageOK, CauseOK, KilledOK, FinishOK,
         QuietOK, NothingStoppedRunsOn, FailureMarked, Early, Late,
         Returned, Interrupted, Terminals
<1>. QED
  BY <1>2, <1>3, <1>4, <1>5, <1>6, <1>7 DEF Inv

LEMMA StopWatcherKeeps == ASSUME Inv, StopWatcher PROVE Inv'
<1>. USE DEF procVars, taskVars, resultVars, farmVars
<1>2. RoomOK' /\ HeardOK'
  BY DEF StopWatcher, Inv, TypeOK, RoomOK, HeardOK, Grounds, Raised
<1>3. TypeOK'
  BY DEF StopWatcher, Inv, TypeOK, Points
<1>4. StageOK' /\ CauseOK' /\ KilledOK' /\ TimingOK'
  BY DEF StopWatcher, Inv, TypeOK, StageOK, CauseOK, KilledOK, TimingOK, Raised
<1>5. FinishOK' /\ CompletionOK'
  BY DEF StopWatcher, Inv, TypeOK, StageOK, CauseOK, FinishOK, CompletionOK, Late, HeardOK,
         Grounds, Returned
<1>6. RecordOK' /\ KeptOK' /\ EndAgrees'
  BY DEF StopWatcher, Inv, TypeOK, StageOK, FinishOK, RecordOK, Late, KeptOK, EndAgrees,
         Agrees, HeardOK, Returned
<1>7. QuietOK' /\ NothingStoppedRunsOn' /\ FailureMarked'
  BY DEF StopWatcher, Inv, TypeOK, StageOK, CauseOK, KilledOK, FinishOK, QuietOK,
         NothingStoppedRunsOn, FailureMarked, Early, Returned, Interrupted
<1>. QED
  BY <1>2, <1>3, <1>4, <1>5, <1>6, <1>7 DEF Inv

LEMMA UnwatchedKeeps == ASSUME Inv, Unwatched PROVE Inv'
<1>. USE DEF procVars, taskVars, resultVars, farmVars
<1>2. RoomOK' /\ HeardOK'
  BY DEF Unwatched, Inv, TypeOK, RoomOK, HeardOK, Grounds, Raised
<1>3. TypeOK'
  BY DEF Unwatched, Inv, TypeOK, Points
<1>4. StageOK' /\ CauseOK' /\ KilledOK' /\ TimingOK'
  BY DEF Unwatched, Inv, TypeOK, StageOK, CauseOK, KilledOK, TimingOK, Early, Late, Raised,
         Terminals
<1>5. FinishOK' /\ CompletionOK'
  BY DEF Unwatched, Inv, TypeOK, StageOK, CauseOK, FinishOK, CompletionOK, Late, HeardOK,
         Grounds, Returned
<1>6. RecordOK' /\ KeptOK' /\ EndAgrees'
  BY DEF Unwatched, Inv, TypeOK, StageOK, FinishOK, RecordOK, Late, KeptOK, EndAgrees,
         Agrees, HeardOK, Returned
<1>7. QuietOK' /\ NothingStoppedRunsOn' /\ FailureMarked'
  BY DEF Unwatched, Inv, TypeOK, StageOK, CauseOK, KilledOK, FinishOK, QuietOK,
         NothingStoppedRunsOn, FailureMarked, Early, Late, Returned, Interrupted, Terminals
<1>. QED
  BY <1>2, <1>3, <1>4, <1>5, <1>6, <1>7 DEF Inv

LEMMA DrainOutputKeeps == ASSUME Inv, DrainOutput PROVE Inv'
<1>. USE DEF procVars, taskVars, resultVars, farmVars
<1>2. RoomOK' /\ HeardOK'
  BY DEF DrainOutput, Inv, TypeOK, RoomOK, HeardOK, Grounds, Raised
<1>3. TypeOK'
  BY DEF DrainOutput, Inv, TypeOK, Points
<1>4. StageOK' /\ CauseOK' /\ KilledOK' /\ TimingOK'
  BY DEF DrainOutput, Inv, TypeOK, StageOK, CauseOK, KilledOK, TimingOK, Early, Late,
         Raised, Terminals
<1>5. FinishOK' /\ CompletionOK'
  BY DEF DrainOutput, Inv, TypeOK, StageOK, CauseOK, FinishOK, CompletionOK, Late, HeardOK,
         Grounds, Returned
<1>6. RecordOK' /\ KeptOK' /\ EndAgrees'
  BY DEF DrainOutput, Inv, TypeOK, StageOK, FinishOK, RecordOK, Late, KeptOK, EndAgrees,
         Agrees, HeardOK, Returned
<1>7. QuietOK' /\ NothingStoppedRunsOn' /\ FailureMarked'
  BY DEF DrainOutput, Inv, TypeOK, StageOK, CauseOK, KilledOK, FinishOK, QuietOK,
         NothingStoppedRunsOn, FailureMarked, Early, Late, Returned, Interrupted, Terminals
<1>. QED
  BY <1>2, <1>3, <1>4, <1>5, <1>6, <1>7 DEF Inv

LEMMA CloseLogKeeps == ASSUME Inv, CloseLog PROVE Inv'
<1>. USE DEF procVars, taskVars, resultVars, farmVars
<1>1. /\ terminals' \in {terminals, <<>>} /\ (drain = "done" => drain' = "done")
      /\ UNCHANGED <<canceled, beats, shutdown, why, wantsCancel, record>>
  BY DEF CloseLog, Closed, Return
<1>2. terminals' \in Seq(Terminals) /\ RoomOK' /\ HeardOK'
  BY <1>1, QueueKept
<1>3. TypeOK'
  <2>1. UNCHANGED <<shutdown, why, status, reader, flusher, beats, canceled, drain, watcher,
                    marked, createPr, pr, output, kept, tries, end, record, wantsCancel,
                    otherVersion>>
    BY DEF CloseLog, Closed, Return
  <2>2. /\ pc' \in Points
        /\ completion' \in Completions \cup {"none"}
        /\ procs' \subseteq Procs
    BY DEF CloseLog, Closed, Stopped, Return, Inv, TypeOK, StageOK, Late, Points,
           Completions, Failures, Terminals
  <2>3. closing' \in BOOLEAN
    BY DEF CloseLog, Inv, TypeOK
  <2>4. Len(terminals') < TERMINAL_CAPACITY
    BY <1>2 DEF RoomOK, TERMINAL_CAPACITY
  <2>. QED
    BY <1>2, <2>1, <2>2, <2>3, <2>4 DEF Inv, TypeOK
<1>4. StageOK' /\ CauseOK' /\ KilledOK' /\ TimingOK'
  BY DEF CloseLog, Closed, Stopped, Return, Inv, TypeOK, StageOK, CauseOK, KilledOK,
         TimingOK, Early, Late, Raised, Terminals
<1>5. FinishOK' /\ CompletionOK'
  BY DEF CloseLog, Closed, Stopped, Return, Inv, TypeOK, StageOK, CauseOK, FinishOK,
         CompletionOK, Late, HeardOK, Grounds, Raised, Returned, Terminals, Failures
<1>6. RecordOK' /\ KeptOK' /\ EndAgrees'
  BY DEF CloseLog, Closed, Stopped, Return, Inv, TypeOK, StageOK, FinishOK, RecordOK, Late,
         KeptOK, EndAgrees, Agrees, HeardOK, Returned
<1>7. QuietOK' /\ NothingStoppedRunsOn' /\ FailureMarked'
  BY DEF CloseLog, Closed, Stopped, Return, Inv, TypeOK, StageOK, CauseOK, KilledOK,
         FinishOK, QuietOK, NothingStoppedRunsOn, FailureMarked, Early, Late, Returned,
         Interrupted, Terminals, Failures
<1>. QED
  BY <1>2, <1>3, <1>4, <1>5, <1>6, <1>7 DEF Inv

LEMMA LogClosedKeeps == ASSUME Inv, LogClosed PROVE Inv'
<1>. USE DEF procVars, taskVars, resultVars, farmVars
<1>1. /\ terminals' \in {terminals, <<>>} /\ (drain = "done" => drain' = "done")
      /\ UNCHANGED <<canceled, beats, shutdown, why, wantsCancel, record>>
  BY DEF LogClosed, Closed, Return
<1>2. terminals' \in Seq(Terminals) /\ RoomOK' /\ HeardOK'
  BY <1>1, QueueKept
<1>3. TypeOK'
  <2>1. UNCHANGED <<shutdown, why, status, reader, closing, beats, canceled, drain, watcher,
                    marked, createPr, pr, output, kept, tries, end, record, wantsCancel,
                    otherVersion>>
    BY DEF LogClosed, Closed, Return
  <2>2. /\ pc' \in Points
        /\ completion' \in Completions \cup {"none"}
        /\ procs' \subseteq Procs
        /\ flusher' \in {"flushing", "last", "stopped", "aborted"}
    BY DEF LogClosed, Closed, Stopped, Return, Inv, TypeOK, StageOK, Late, Points,
           Completions, Failures, Terminals
  <2>3. Len(terminals') < TERMINAL_CAPACITY
    BY <1>2 DEF RoomOK, TERMINAL_CAPACITY
  <2>. QED
    BY <1>2, <2>1, <2>2, <2>3 DEF Inv, TypeOK
<1>4. StageOK' /\ CauseOK' /\ KilledOK' /\ TimingOK'
  BY DEF LogClosed, Closed, Stopped, Return, Inv, TypeOK, StageOK, CauseOK, KilledOK,
         TimingOK, Early, Late, Raised, Terminals
<1>5. FinishOK' /\ CompletionOK'
  BY DEF LogClosed, Closed, Stopped, Return, Inv, TypeOK, StageOK, CauseOK, FinishOK,
         CompletionOK, Late, HeardOK, Grounds, Raised, Returned, Terminals, Failures
<1>6. RecordOK' /\ KeptOK' /\ EndAgrees'
  BY DEF LogClosed, Closed, Stopped, Return, Inv, TypeOK, StageOK, FinishOK, RecordOK, Late,
         KeptOK, EndAgrees, Agrees, HeardOK, Returned
<1>7. QuietOK' /\ NothingStoppedRunsOn' /\ FailureMarked'
  BY DEF LogClosed, Closed, Stopped, Return, Inv, TypeOK, StageOK, CauseOK, KilledOK,
         FinishOK, QuietOK, NothingStoppedRunsOn, FailureMarked, Early, Late, Returned,
         Interrupted, Terminals, Failures
<1>. QED
  BY <1>2, <1>3, <1>4, <1>5, <1>6, <1>7 DEF Inv

-----------------------------------------------------------------------------
(* What an exited run still owes.                                          *)

LEMMA SettleKeeps == ASSUME Inv, Settle PROVE Inv'
<1>. USE DEF procVars, taskVars, resultVars, farmVars
<1>1. /\ terminals' \in {terminals, <<>>} /\ (drain = "done" => drain' = "done")
      /\ UNCHANGED <<canceled, beats, shutdown, why, wantsCancel, record>>
  BY DEF Settle, Return
<1>2. terminals' \in Seq(Terminals) /\ RoomOK' /\ HeardOK'
  BY <1>1, QueueKept
<1>3. TypeOK'
  <2>1. UNCHANGED <<shutdown, why, status, reader, flusher, closing, beats, canceled, drain,
                    watcher, marked, createPr, pr, output, kept, tries, end, record,
                    wantsCancel, otherVersion>>
    BY DEF Settle, Return
  <2>2. /\ pc' \in Points
        /\ completion' \in Completions \cup {"none"}
        /\ procs' \subseteq Procs
    BY DEF Settle, Return, Inv, TypeOK, StageOK, Points, Completions, Failures
  <2>3. Len(terminals') < TERMINAL_CAPACITY
    BY <1>2 DEF RoomOK, TERMINAL_CAPACITY
  <2>. QED
    BY <1>2, <2>1, <2>2, <2>3 DEF Inv, TypeOK
<1>4. StageOK' /\ CauseOK' /\ KilledOK' /\ TimingOK'
  BY DEF Settle, Return, Inv, TypeOK, StageOK, CauseOK, KilledOK, TimingOK, Early, Late,
         Raised, Terminals
<1>5. FinishOK' /\ CompletionOK'
  BY DEF Settle, Return, Inv, TypeOK, StageOK, CauseOK, FinishOK, CompletionOK, Late,
         HeardOK, Grounds, Returned, Failures
<1>6. RecordOK' /\ KeptOK' /\ EndAgrees'
  BY DEF Settle, Return, Inv, TypeOK, StageOK, FinishOK, RecordOK, Late, KeptOK, EndAgrees,
         Agrees, HeardOK, Returned
<1>7. QuietOK' /\ NothingStoppedRunsOn' /\ FailureMarked'
  BY DEF Settle, Return, Inv, TypeOK, StageOK, CauseOK, KilledOK, FinishOK, QuietOK,
         NothingStoppedRunsOn, FailureMarked, Early, Late, Returned, Interrupted, Terminals,
         Failures
<1>. QED
  BY <1>2, <1>3, <1>4, <1>5, <1>6, <1>7 DEF Inv

LEMMA PrAsksKeeps == ASSUME Inv, PrAsks PROVE Inv'
<1>. USE DEF procVars, taskVars, resultVars, farmVars
<1>2. RoomOK' /\ HeardOK'
  BY DEF PrAsks, Inv, TypeOK, RoomOK, HeardOK, Grounds, Raised
<1>3. TypeOK'
  BY DEF PrAsks, Inv, TypeOK
<1>4. StageOK' /\ CauseOK' /\ KilledOK' /\ TimingOK'
  BY DEF PrAsks, Inv, TypeOK, StageOK, CauseOK, KilledOK, TimingOK, Raised
<1>5. FinishOK' /\ CompletionOK'
  BY DEF PrAsks, Inv, TypeOK, StageOK, CauseOK, FinishOK, CompletionOK, Late, HeardOK,
         Grounds, Returned
<1>6. RecordOK' /\ KeptOK' /\ EndAgrees'
  BY DEF PrAsks, Inv, TypeOK, StageOK, FinishOK, RecordOK, Late, KeptOK, EndAgrees,
         Agrees, HeardOK, Returned
<1>7. QuietOK' /\ NothingStoppedRunsOn' /\ FailureMarked'
  BY DEF PrAsks, Inv, TypeOK, StageOK, CauseOK, KilledOK, FinishOK, QuietOK,
         NothingStoppedRunsOn, FailureMarked, Early, Returned, Interrupted
<1>. QED
  BY <1>2, <1>3, <1>4, <1>5, <1>6, <1>7 DEF Inv

LEMMA PrArrivesKeeps == ASSUME Inv, PrArrives PROVE Inv'
<1>. USE DEF procVars, taskVars, resultVars, farmVars
<1>2. RoomOK' /\ HeardOK'
  BY DEF PrArrives, Inv, TypeOK, RoomOK, HeardOK, Grounds, Raised
<1>3. TypeOK'
  BY DEF PrArrives, Inv, TypeOK
<1>4. StageOK' /\ CauseOK' /\ KilledOK' /\ TimingOK'
  BY DEF PrArrives, Inv, TypeOK, StageOK, CauseOK, KilledOK, TimingOK, Raised
<1>5. FinishOK' /\ CompletionOK'
  <2>1. FinishOK'
    BY DEF PrArrives, Inv, FinishOK, Returned
  <2>2. pr # "created" /\ UNCHANGED <<completion, status, createPr, wantsCancel, shutdown>>
    BY DEF PrArrives
  <2>3. CompletionOK'
    BY <2>2 DEF Inv, CompletionOK, Raised
  <2>. QED
    BY <2>1, <2>3
<1>6. RecordOK' /\ KeptOK' /\ EndAgrees'
  BY DEF PrArrives, Inv, TypeOK, StageOK, FinishOK, RecordOK, Late, KeptOK, EndAgrees,
         Agrees, HeardOK, Returned
<1>7. QuietOK' /\ NothingStoppedRunsOn' /\ FailureMarked'
  BY DEF PrArrives, Inv, TypeOK, StageOK, CauseOK, KilledOK, FinishOK, QuietOK,
         NothingStoppedRunsOn, FailureMarked, Early, Returned, Interrupted
<1>. QED
  BY <1>2, <1>3, <1>4, <1>5, <1>6, <1>7 DEF Inv

LEMMA PrReturnsKeeps == ASSUME Inv, PrReturns PROVE Inv'
<1>. USE DEF procVars, taskVars, resultVars, farmVars
<1>1. /\ terminals' \in {terminals, <<>>} /\ (drain = "done" => drain' = "done")
      /\ UNCHANGED <<canceled, beats, shutdown, why, wantsCancel, record>>
  BY DEF PrReturns, Return
<1>2. terminals' \in Seq(Terminals) /\ RoomOK' /\ HeardOK'
  BY <1>1, QueueKept
<1>3. TypeOK'
  <2>1. UNCHANGED <<shutdown, why, status, reader, flusher, closing, beats, canceled, drain,
                    watcher, marked, createPr, pr, output, tries, end, record, wantsCancel,
                    otherVersion>>
    BY DEF PrReturns, Return
  <2>2. /\ pc' \in Points
        /\ completion' \in Completions \cup {"none"}
        /\ procs' \subseteq Procs
    BY DEF PrReturns, Return, Inv, TypeOK, StageOK, Points, Completions, Failures
  <2>3. kept' \in BOOLEAN
    BY DEF PrReturns, Inv, TypeOK
  <2>4. Len(terminals') < TERMINAL_CAPACITY
    BY <1>2 DEF RoomOK, TERMINAL_CAPACITY
  <2>. QED
    BY <1>2, <2>1, <2>2, <2>3, <2>4 DEF Inv, TypeOK
<1>4. StageOK' /\ CauseOK' /\ KilledOK' /\ TimingOK'
  BY DEF PrReturns, Return, Inv, TypeOK, StageOK, CauseOK, KilledOK, TimingOK, Early, Late,
         Raised, Terminals
<1>5. FinishOK' /\ CompletionOK'
  BY DEF PrReturns, Return, Inv, TypeOK, StageOK, CauseOK, FinishOK, CompletionOK, Late,
         HeardOK, Grounds, Returned, Failures
<1>6. RecordOK' /\ KeptOK' /\ EndAgrees'
  <2>1. RecordOK' /\ EndAgrees'
    BY DEF PrReturns, Return, Inv, TypeOK, StageOK, FinishOK, RecordOK, Late, EndAgrees,
           Agrees, HeardOK, Returned
  <2>2. KeptOK'
    BY DEF PrReturns, Inv, KeptOK, FinishOK, Returned
  <2>. QED
    BY <2>1, <2>2
<1>7. QuietOK' /\ NothingStoppedRunsOn' /\ FailureMarked'
  BY DEF PrReturns, Return, Inv, TypeOK, StageOK, CauseOK, KilledOK, FinishOK, QuietOK,
         NothingStoppedRunsOn, FailureMarked, Early, Late, Returned, Interrupted, Terminals,
         Failures
<1>. QED
  BY <1>2, <1>3, <1>4, <1>5, <1>6, <1>7 DEF Inv

LEMMA MarkFailureKeeps == ASSUME Inv, MarkFailure PROVE Inv'
<1>. USE DEF procVars, taskVars, resultVars, farmVars
<1>1. /\ terminals' \in {terminals, <<>>} /\ (drain = "done" => drain' = "done")
      /\ UNCHANGED <<canceled, beats, shutdown, why, wantsCancel, record>>
  BY DEF MarkFailure, Return
<1>2. terminals' \in Seq(Terminals) /\ RoomOK' /\ HeardOK'
  BY <1>1, QueueKept
<1>3. TypeOK'
  <2>1. UNCHANGED <<shutdown, why, status, reader, flusher, closing, beats, canceled, drain,
                    watcher, createPr, pr, output, kept, completion, tries, end, record,
                    wantsCancel, otherVersion>>
    BY DEF MarkFailure, Return
  <2>2. /\ pc' \in Points
        /\ procs' \subseteq Procs
    BY DEF MarkFailure, Return, Inv, TypeOK, StageOK, Points, Procs
  <2>3. marked' \in BOOLEAN
    BY DEF MarkFailure, Inv, TypeOK
  <2>4. Len(terminals') < TERMINAL_CAPACITY
    BY <1>2 DEF RoomOK, TERMINAL_CAPACITY
  <2>. QED
    BY <1>2, <2>1, <2>2, <2>3, <2>4 DEF Inv, TypeOK
<1>4. StageOK' /\ CauseOK' /\ KilledOK' /\ TimingOK'
  BY DEF MarkFailure, Return, Inv, TypeOK, StageOK, CauseOK, KilledOK, TimingOK, Early,
         Late, Raised, Terminals
<1>5. FinishOK' /\ CompletionOK'
  BY DEF MarkFailure, Return, Inv, TypeOK, StageOK, CauseOK, FinishOK, CompletionOK, Late,
         HeardOK, Grounds, Raised, Returned, Terminals, Failures
<1>6. RecordOK' /\ KeptOK' /\ EndAgrees'
  BY DEF MarkFailure, Return, Inv, TypeOK, StageOK, FinishOK, RecordOK, Late, KeptOK,
         EndAgrees, Agrees, HeardOK, Returned
<1>7. QuietOK' /\ NothingStoppedRunsOn' /\ FailureMarked'
  BY DEF MarkFailure, Return, Inv, TypeOK, StageOK, CauseOK, KilledOK, FinishOK, QuietOK,
         NothingStoppedRunsOn, FailureMarked, Early, Late, Returned, Interrupted, Terminals,
         Failures
<1>. QED
  BY <1>2, <1>3, <1>4, <1>5, <1>6, <1>7 DEF Inv

(* A cause that was queued is as good when it is taken up.                 *)
LEMMA InterruptKeeps == ASSUME Inv, Interrupt PROVE Inv'
<1>. USE DEF procVars, taskVars, resultVars, farmVars
<1>2. terminals' \in Seq(Terminals) /\ RoomOK' /\ HeardOK'
  BY DEF Interrupt, Inv, TypeOK, RoomOK, HeardOK, Grounds, Raised
<1>3. TypeOK'
  <2>1. UNCHANGED <<shutdown, procs, status, reader, flusher, closing, beats, canceled,
                    drain, watcher, marked, createPr, pr, output, tries, end, record,
                    wantsCancel, otherVersion>>
    BY DEF Interrupt
  <2>2. /\ pc' \in Points
        /\ why' \in {"none", "Spawn", "Exit"} \cup Terminals
        /\ completion' \in Completions \cup {"none"}
    BY DEF Interrupt, Inv, TypeOK, StageOK, Points, Completions, Failures, Terminals
  <2>3. kept' \in BOOLEAN
    BY DEF Interrupt, Inv, TypeOK
  <2>4. Len(terminals') < TERMINAL_CAPACITY
    BY <1>2 DEF RoomOK, TERMINAL_CAPACITY
  <2>. QED
    BY <1>2, <2>1, <2>2, <2>3, <2>4 DEF Inv, TypeOK
<1>4. StageOK' /\ CauseOK' /\ KilledOK' /\ TimingOK'
  BY DEF Interrupt, Inv, TypeOK, StageOK, CauseOK, KilledOK, TimingOK, Early, Late, Raised,
         Terminals
<1>5. FinishOK' /\ CompletionOK'
  BY DEF Interrupt, Inv, TypeOK, StageOK, CauseOK, FinishOK, CompletionOK, Late, HeardOK,
         Grounds, Returned
<1>6. RecordOK' /\ KeptOK' /\ EndAgrees'
  BY DEF Interrupt, Inv, TypeOK, StageOK, FinishOK, RecordOK, Late, KeptOK, EndAgrees,
         Agrees, HeardOK, Returned
<1>7. QuietOK' /\ NothingStoppedRunsOn' /\ FailureMarked'
  BY DEF Interrupt, Inv, TypeOK, StageOK, CauseOK, KilledOK, FinishOK, QuietOK,
         NothingStoppedRunsOn, FailureMarked, Early, Late, Returned, Interrupted, Terminals,
         Failures
<1>. QED
  BY <1>2, <1>3, <1>4, <1>5, <1>6, <1>7 DEF Inv

-----------------------------------------------------------------------------
(* The report.                                                             *)

(* The farm records what the run reports, or had finalized it before.      *)
LEMMA AttemptKeeps == ASSUME Inv, Attempt PROVE Inv'
<1>. USE DEF procVars, taskVars, resultVars, farmVars
<1>2. RoomOK' /\ HeardOK'
  BY DEF Attempt, Inv, TypeOK, RoomOK, HeardOK, Grounds, Raised, Completions, Failures
<1>3. TypeOK'
  BY TriesAssumption DEF Attempt, Inv, TypeOK, RecordOK, RunEnds, Completions, Failures
<1>4. StageOK' /\ CauseOK' /\ KilledOK' /\ TimingOK'
  BY DEF Attempt, Inv, TypeOK, StageOK, CauseOK, KilledOK, TimingOK, Raised
<1>5. FinishOK' /\ CompletionOK'
  BY DEF Attempt, Inv, TypeOK, StageOK, CauseOK, FinishOK, CompletionOK, Late, HeardOK,
         Grounds, Raised, Returned, Terminals, Failures
<1>6. RecordOK' /\ KeptOK' /\ EndAgrees'
  BY DEF Attempt, Inv, TypeOK, StageOK, FinishOK, RecordOK, Late, KeptOK, EndAgrees, Agrees,
         HeardOK, Returned
<1>7. QuietOK' /\ NothingStoppedRunsOn' /\ FailureMarked'
  BY DEF Attempt, Inv, TypeOK, StageOK, CauseOK, KilledOK, FinishOK, QuietOK,
         NothingStoppedRunsOn, FailureMarked, Early, Late, Returned, Interrupted, Terminals,
         Failures
<1>. QED
  BY <1>2, <1>3, <1>4, <1>5, <1>6, <1>7 DEF Inv

(* A 410 to a heartbeat is why the run has no completion: the farm holds   *)
(* none either.                                                            *)
LEMMA NothingToReportKeeps == ASSUME Inv, NothingToReport PROVE Inv'
<1>. USE DEF procVars, taskVars, resultVars, farmVars
<1>2. RoomOK' /\ HeardOK'
  BY DEF NothingToReport, Inv, TypeOK, RoomOK, HeardOK, Grounds, Raised
<1>3. TypeOK'
  BY DEF NothingToReport, Inv, TypeOK, RunEnds
<1>4. StageOK' /\ CauseOK' /\ KilledOK' /\ TimingOK'
  BY DEF NothingToReport, Inv, TypeOK, StageOK, CauseOK, KilledOK, TimingOK, Raised
<1>5. FinishOK' /\ CompletionOK'
  BY DEF NothingToReport, Inv, TypeOK, StageOK, CauseOK, FinishOK, CompletionOK, Late,
         HeardOK, Grounds, Returned
<1>6. RecordOK' /\ KeptOK' /\ EndAgrees'
  BY DEF NothingToReport, Inv, TypeOK, StageOK, FinishOK, RecordOK, Late, KeptOK, EndAgrees,
         Agrees, HeardOK, Grounds, Returned, Completions, Failures
<1>7. QuietOK' /\ NothingStoppedRunsOn' /\ FailureMarked'
  BY DEF NothingToReport, Inv, TypeOK, StageOK, CauseOK, KilledOK, FinishOK, QuietOK,
         NothingStoppedRunsOn, FailureMarked, Early, Returned, Interrupted
<1>. QED
  BY <1>2, <1>3, <1>4, <1>5, <1>6, <1>7 DEF Inv

LEMMA DiscardKeeps == ASSUME Inv, Discard PROVE Inv'
<1>. USE DEF procVars, taskVars, resultVars, farmVars
<1>2. RoomOK' /\ HeardOK'
  BY DEF Discard, Inv, TypeOK, RoomOK, HeardOK, Grounds, Raised
<1>3. TypeOK'
  BY DEF Discard, Inv, TypeOK, Points
<1>4. StageOK' /\ CauseOK' /\ KilledOK' /\ TimingOK'
  BY DEF Discard, Inv, TypeOK, StageOK, CauseOK, KilledOK, TimingOK, Early, Late, Raised,
         Terminals
<1>5. FinishOK' /\ CompletionOK'
  BY DEF Discard, Inv, TypeOK, StageOK, CauseOK, FinishOK, CompletionOK, Late, HeardOK,
         Grounds, Raised, Returned, Terminals, Failures
<1>6. RecordOK' /\ KeptOK' /\ EndAgrees'
  BY DEF Discard, Inv, TypeOK, StageOK, FinishOK, RecordOK, Late, KeptOK, EndAgrees, Agrees,
         HeardOK, Returned
<1>7. QuietOK' /\ NothingStoppedRunsOn' /\ FailureMarked'
  BY DEF Discard, Inv, TypeOK, StageOK, CauseOK, KilledOK, FinishOK, QuietOK,
         NothingStoppedRunsOn, FailureMarked, Early, Returned, Interrupted
<1>. QED
  BY <1>2, <1>3, <1>4, <1>5, <1>6, <1>7 DEF Inv

LEMMA LeaveKeeps == ASSUME Inv, Leave PROVE Inv'
<1>. USE DEF procVars, taskVars, resultVars, farmVars
<1>2. RoomOK' /\ HeardOK'
  BY DEF Leave, Inv, TypeOK, RoomOK, HeardOK, Grounds, Raised
<1>3. TypeOK'
  BY DEF Leave, Inv, TypeOK, Points
<1>4. StageOK' /\ CauseOK' /\ KilledOK' /\ TimingOK'
  BY DEF Leave, Inv, TypeOK, StageOK, CauseOK, KilledOK, TimingOK, Early, Late, Raised,
         Terminals
<1>5. FinishOK' /\ CompletionOK'
  BY DEF Leave, Inv, TypeOK, StageOK, CauseOK, FinishOK, CompletionOK, Late, HeardOK,
         Grounds, Raised, Returned, Terminals, Failures
<1>6. RecordOK' /\ KeptOK' /\ EndAgrees'
  BY DEF Leave, Inv, TypeOK, StageOK, FinishOK, RecordOK, Late, KeptOK, EndAgrees, Agrees,
         HeardOK, Returned
<1>7. QuietOK' /\ NothingStoppedRunsOn' /\ FailureMarked'
  BY DEF Leave, Inv, TypeOK, StageOK, CauseOK, KilledOK, FinishOK, QuietOK,
         NothingStoppedRunsOn, FailureMarked, Early, Returned, Interrupted
<1>. QED
  BY <1>2, <1>3, <1>4, <1>5, <1>6, <1>7 DEF Inv

-----------------------------------------------------------------------------
(* The tasks beside the run.                                               *)

(* One cancel and one last word are all that the heartbeat says.           *)
LEMMA BeatKeeps == ASSUME Inv, Beat PROVE Inv'
<1>. USE DEF procVars, taskVars, resultVars, farmVars
<1>1. /\ UNCHANGED <<shutdown, why, drain, farmVars>>
      /\ \E t \in Terminals :
           /\ Deliver(t) /\ Grounds(t)
           /\ \/ beats # "told" /\ beats' = "told" /\ canceled' = canceled
              \/ beats' = beats /\ ~canceled /\ canceled' = TRUE
  BY DEF Beat, Grounds, Terminals
<1>2. terminals' \in Seq(Terminals) /\ RoomOK' /\ HeardOK'
  BY <1>1, DeliverOK DEF Inv, TypeOK, RoomOK
<1>3. TypeOK'
  <2>1. UNCHANGED <<pc, shutdown, why, procs, status, reader, flusher, closing, drain,
                    watcher, marked, createPr, pr, output, kept, completion, tries, end,
                    record, wantsCancel, otherVersion>>
    BY DEF Beat, Deliver
  <2>2. beats' \in {"beating", "told", "aborted"}
    BY DEF Beat, Deliver, Inv, TypeOK
  <2>3. canceled' \in BOOLEAN
    BY DEF Beat, Inv, TypeOK
  <2>4. Len(terminals') < TERMINAL_CAPACITY
    BY <1>2 DEF RoomOK, TERMINAL_CAPACITY
  <2>. QED
    BY <1>2, <2>1, <2>2, <2>3, <2>4 DEF Inv, TypeOK
<1>4. StageOK' /\ CauseOK' /\ KilledOK' /\ TimingOK'
  BY DEF Beat, Deliver, Inv, TypeOK, StageOK, CauseOK, KilledOK, TimingOK, Raised
<1>5. FinishOK' /\ CompletionOK'
  BY DEF Beat, Deliver, Inv, TypeOK, StageOK, CauseOK, FinishOK, CompletionOK, Late,
         HeardOK, Grounds, Raised, Returned, Terminals, Failures
<1>6. RecordOK' /\ KeptOK' /\ EndAgrees'
  BY DEF Beat, Deliver, Inv, TypeOK, StageOK, FinishOK, RecordOK, Late, KeptOK, EndAgrees,
         Agrees, HeardOK, Returned
<1>7. QuietOK' /\ NothingStoppedRunsOn' /\ FailureMarked'
  BY DEF Beat, Deliver, Inv, TypeOK, StageOK, CauseOK, KilledOK, FinishOK, QuietOK,
         NothingStoppedRunsOn, FailureMarked, Early, Returned, Interrupted
<1>. QED
  BY <1>2, <1>3, <1>4, <1>5, <1>6, <1>7 DEF Inv

(* The one drain of the timer finds room, and a shutdown that was asked    *)
(* for.                                                                    *)
LEMMA DrainTaskKeeps == ASSUME Inv, DrainTask PROVE Inv'
<1>. USE DEF procVars, taskVars, resultVars, farmVars
<1>1. /\ UNCHANGED <<shutdown, why, canceled, beats, farmVars>>
      /\ \/ terminals' = terminals /\ drain # "done" /\ drain' = "timing"
         \/ drain # "done" /\ drain' = "done" /\ Deliver("Drain") /\ Raised
  <2>1. /\ UNCHANGED <<shutdown, why, canceled, beats, farmVars>>
        /\ \/ drain \in {"waiting", "timing"} /\ drain' = "timing" /\ terminals' = terminals
           \/ drain \in {"waiting", "timing"} /\ drain' = "done" /\ Deliver("Drain")
    BY DEF DrainTask
  <2>2. drain = "timing" \/ shutdown # "Running"
    BY DEF DrainTask
  <2>. QED
    BY <2>1, <2>2 DEF Inv, TimingOK, Raised
<1>2. terminals' \in Seq(Terminals) /\ RoomOK' /\ HeardOK'
  <2>1. CASE terminals' = terminals /\ drain # "done" /\ drain' = "timing"
    BY <1>1, <2>1 DEF Inv, TypeOK, RoomOK, HeardOK, Grounds, Raised
  <2>2. CASE drain # "done" /\ drain' = "done" /\ Deliver("Drain") /\ Raised
    <3>1. Grounds("Drain") /\ "Drain" \in Terminals
      BY <2>2 DEF Grounds, Terminals
    <3>. QED
      BY <1>1, <2>2, <3>1, DeliverOK DEF Inv, TypeOK, RoomOK
  <2>. QED
    BY <1>1, <2>1, <2>2
<1>3. TypeOK'
  <2>1. UNCHANGED <<pc, shutdown, why, procs, status, reader, flusher, closing, beats,
                    canceled, watcher, marked, createPr, pr, output, kept, completion,
                    tries, end, record, wantsCancel, otherVersion>>
    BY DEF DrainTask, Deliver
  <2>2. drain' \in {"none", "waiting", "timing", "done", "aborted"}
    BY DEF DrainTask, Deliver, Inv, TypeOK
  <2>3. Len(terminals') < TERMINAL_CAPACITY
    BY <1>2 DEF RoomOK, TERMINAL_CAPACITY
  <2>. QED
    BY <1>2, <2>1, <2>2, <2>3 DEF Inv, TypeOK
<1>4. StageOK' /\ CauseOK' /\ KilledOK' /\ TimingOK'
  BY DEF DrainTask, Deliver, Inv, TypeOK, StageOK, CauseOK, KilledOK, TimingOK, Raised
<1>5. FinishOK' /\ CompletionOK'
  BY DEF DrainTask, Deliver, Inv, TypeOK, StageOK, CauseOK, FinishOK, CompletionOK, Late,
         HeardOK, Grounds, Raised, Returned, Terminals, Failures
<1>6. RecordOK' /\ KeptOK' /\ EndAgrees'
  BY DEF DrainTask, Deliver, Inv, TypeOK, StageOK, FinishOK, RecordOK, Late, KeptOK,
         EndAgrees, Agrees, HeardOK, Returned
<1>7. QuietOK' /\ NothingStoppedRunsOn' /\ FailureMarked'
  BY DEF DrainTask, Deliver, Inv, TypeOK, StageOK, CauseOK, KilledOK, FinishOK, QuietOK,
         NothingStoppedRunsOn, FailureMarked, Early, Returned, Interrupted
<1>. QED
  BY <1>2, <1>3, <1>4, <1>5, <1>6, <1>7 DEF Inv

LEMMA ReaderEndsKeeps == ASSUME Inv, ReaderEnds PROVE Inv'
<1>. USE DEF procVars, taskVars, resultVars, farmVars
<1>2. RoomOK' /\ HeardOK'
  BY DEF ReaderEnds, Inv, TypeOK, RoomOK, HeardOK, Grounds, Raised
<1>3. TypeOK'
  BY DEF ReaderEnds, Inv, TypeOK
<1>4. StageOK' /\ CauseOK' /\ KilledOK' /\ TimingOK'
  BY DEF ReaderEnds, Inv, TypeOK, StageOK, CauseOK, KilledOK, TimingOK, Raised
<1>5. FinishOK' /\ CompletionOK'
  BY DEF ReaderEnds, Inv, TypeOK, StageOK, CauseOK, FinishOK, CompletionOK, Late, HeardOK,
         Grounds, Raised, Returned, Terminals, Failures
<1>6. RecordOK' /\ KeptOK' /\ EndAgrees'
  BY DEF ReaderEnds, Inv, TypeOK, StageOK, FinishOK, RecordOK, Late, KeptOK, EndAgrees,
         Agrees, HeardOK, Returned
<1>7. QuietOK' /\ NothingStoppedRunsOn' /\ FailureMarked'
  BY DEF ReaderEnds, Inv, TypeOK, StageOK, CauseOK, KilledOK, FinishOK, QuietOK,
         NothingStoppedRunsOn, FailureMarked, Early, Returned, Interrupted
<1>. QED
  BY <1>2, <1>3, <1>4, <1>5, <1>6, <1>7 DEF Inv

LEMMA FlushKeeps == ASSUME Inv, Flush PROVE Inv'
<1>. USE DEF procVars, taskVars, resultVars, farmVars
<1>2. RoomOK' /\ HeardOK'
  BY DEF Flush, Inv, TypeOK, RoomOK, HeardOK, Grounds, Raised
<1>3. TypeOK'
  BY DEF Flush, Inv, TypeOK
<1>4. StageOK' /\ CauseOK' /\ KilledOK' /\ TimingOK'
  BY DEF Flush, Inv, TypeOK, StageOK, CauseOK, KilledOK, TimingOK, Raised
<1>5. FinishOK' /\ CompletionOK'
  BY DEF Flush, Inv, TypeOK, StageOK, CauseOK, FinishOK, CompletionOK, Late, HeardOK,
         Grounds, Raised, Returned, Terminals, Failures
<1>6. RecordOK' /\ KeptOK' /\ EndAgrees'
  BY DEF Flush, Inv, TypeOK, StageOK, FinishOK, RecordOK, Late, KeptOK, EndAgrees, Agrees,
         HeardOK, Returned
<1>7. QuietOK' /\ NothingStoppedRunsOn' /\ FailureMarked'
  BY DEF Flush, Inv, TypeOK, StageOK, CauseOK, KilledOK, FinishOK, QuietOK,
         NothingStoppedRunsOn, FailureMarked, Early, Returned, Interrupted
<1>. QED
  BY <1>2, <1>3, <1>4, <1>5, <1>6, <1>7 DEF Inv

-----------------------------------------------------------------------------
(* The environment.                                                        *)

LEMMA LeaderExitsKeeps == ASSUME Inv, LeaderExits PROVE Inv'
<1>. USE DEF procVars, taskVars, resultVars, farmVars
<1>2. RoomOK' /\ HeardOK'
  BY DEF LeaderExits, Inv, TypeOK, RoomOK, HeardOK, Grounds, Raised
<1>3. TypeOK'
  BY DEF LeaderExits, Inv, TypeOK
<1>4. StageOK' /\ CauseOK' /\ KilledOK' /\ TimingOK'
  BY ProcsAssumption DEF LeaderExits, Inv, TypeOK, StageOK, CauseOK, KilledOK, TimingOK,
         Raised
<1>5. FinishOK' /\ CompletionOK'
  BY DEF LeaderExits, Inv, TypeOK, StageOK, CauseOK, FinishOK, CompletionOK, Late, HeardOK,
         Grounds, Raised, Returned, Terminals, Failures
<1>6. RecordOK' /\ KeptOK' /\ EndAgrees'
  BY DEF LeaderExits, Inv, TypeOK, StageOK, FinishOK, RecordOK, Late, KeptOK, EndAgrees,
         Agrees, HeardOK, Returned
<1>7. QuietOK' /\ NothingStoppedRunsOn' /\ FailureMarked'
  BY ProcsAssumption DEF LeaderExits, Inv, TypeOK, StageOK, CauseOK, KilledOK, FinishOK,
         QuietOK, NothingStoppedRunsOn, FailureMarked, Early, Returned,
         Interrupted
<1>. QED
  BY <1>2, <1>3, <1>4, <1>5, <1>6, <1>7 DEF Inv

LEMMA OtherExitsKeeps == ASSUME Inv, OtherExits PROVE Inv'
<1>. USE DEF procVars, taskVars, resultVars, farmVars
<1>2. RoomOK' /\ HeardOK'
  BY DEF OtherExits, Inv, TypeOK, RoomOK, HeardOK, Grounds, Raised
<1>3. TypeOK'
  BY DEF OtherExits, Inv, TypeOK
<1>4. StageOK' /\ CauseOK' /\ KilledOK' /\ TimingOK'
  BY ProcsAssumption DEF OtherExits, Inv, TypeOK, StageOK, CauseOK, KilledOK, TimingOK,
         Raised
<1>5. FinishOK' /\ CompletionOK'
  BY DEF OtherExits, Inv, TypeOK, StageOK, CauseOK, FinishOK, CompletionOK, Late, HeardOK,
         Grounds, Raised, Returned, Terminals, Failures
<1>6. RecordOK' /\ KeptOK' /\ EndAgrees'
  BY DEF OtherExits, Inv, TypeOK, StageOK, FinishOK, RecordOK, Late, KeptOK, EndAgrees,
         Agrees, HeardOK, Returned
<1>7. QuietOK' /\ NothingStoppedRunsOn' /\ FailureMarked'
  BY ProcsAssumption DEF OtherExits, Inv, TypeOK, StageOK, CauseOK, KilledOK, FinishOK,
         QuietOK, NothingStoppedRunsOn, FailureMarked, Early, Returned,
         Interrupted
<1>. QED
  BY <1>2, <1>3, <1>4, <1>5, <1>6, <1>7 DEF Inv

LEMMA SignalKeeps == ASSUME Inv, Signal PROVE Inv'
<1>. USE DEF procVars, taskVars, resultVars, farmVars
<1>2. RoomOK' /\ HeardOK'
  BY DEF Signal, Inv, TypeOK, RoomOK, HeardOK, Grounds, Raised
<1>3. TypeOK'
  BY DEF Signal, Inv, TypeOK
<1>4. StageOK' /\ CauseOK' /\ KilledOK' /\ TimingOK'
  BY DEF Signal, Inv, TypeOK, StageOK, CauseOK, KilledOK, TimingOK, Raised
<1>5. FinishOK' /\ CompletionOK'
  BY DEF Signal, Inv, TypeOK, StageOK, CauseOK, FinishOK, CompletionOK, Late, HeardOK,
         Grounds, Raised, Returned, Terminals, Failures
<1>6. RecordOK' /\ KeptOK' /\ EndAgrees'
  BY DEF Signal, Inv, TypeOK, StageOK, FinishOK, RecordOK, Late, KeptOK, EndAgrees, Agrees,
         HeardOK, Returned
<1>7. QuietOK' /\ NothingStoppedRunsOn' /\ FailureMarked'
  BY DEF Signal, Inv, TypeOK, StageOK, CauseOK, KilledOK, FinishOK, QuietOK,
         NothingStoppedRunsOn, FailureMarked, Early, Returned, Interrupted
<1>. QED
  BY <1>2, <1>3, <1>4, <1>5, <1>6, <1>7 DEF Inv

(* What the farm finalizes or a dashboard asks for takes nothing back.     *)
LEMMA FarmKeeps == ASSUME Inv, Farm PROVE Inv'
<1>. USE DEF procVars, taskVars, resultVars, farmVars
<1>2. RoomOK' /\ HeardOK'
  BY DEF Farm, Inv, TypeOK, RoomOK, HeardOK, Grounds, Raised
<1>3. TypeOK'
  <2>1. UNCHANGED <<pc, shutdown, why, procs, status, reader, flusher, closing, beats,
                    canceled, drain, terminals, watcher, marked, createPr, pr, output, kept,
                    completion, tries, end>>
    BY DEF Farm
  <2>2. record' \in Completions \cup {"leased", "finalized"}
    BY DEF Farm, Inv, TypeOK, StageOK
  <2>3. wantsCancel' \in BOOLEAN
    BY DEF Farm, Inv, TypeOK
  <2>4. otherVersion' \in BOOLEAN
    BY DEF Farm, Inv, TypeOK
  <2>. QED
    BY <1>2, <2>1, <2>2, <2>3, <2>4 DEF Inv, TypeOK
<1>4. StageOK' /\ CauseOK' /\ KilledOK' /\ TimingOK'
  BY DEF Farm, Inv, TypeOK, StageOK, CauseOK, KilledOK, TimingOK, Raised
<1>5. FinishOK' /\ CompletionOK'
  BY DEF Farm, Inv, TypeOK, StageOK, CauseOK, FinishOK, CompletionOK, Late, HeardOK,
         Grounds, Raised, Returned, Terminals, Failures
<1>6. RecordOK' /\ KeptOK' /\ EndAgrees'
  BY DEF Farm, Inv, TypeOK, StageOK, FinishOK, RecordOK, Late, KeptOK, EndAgrees, Agrees,
         HeardOK, Returned, Completions, Failures
<1>7. QuietOK' /\ NothingStoppedRunsOn' /\ FailureMarked'
  BY DEF Farm, Inv, TypeOK, StageOK, CauseOK, KilledOK, FinishOK, QuietOK,
         NothingStoppedRunsOn, FailureMarked, Early, Returned, Interrupted
<1>. QED
  BY <1>2, <1>3, <1>4, <1>5, <1>6, <1>7 DEF Inv

-----------------------------------------------------------------------------
(* The invariant, and what follows from it.                                *)

LEMMA UnchangedKeeps == ASSUME Inv, UNCHANGED vars PROVE Inv'
<1>. USE DEF procVars, taskVars, resultVars, farmVars
<1>1. TypeOK' /\ RoomOK' /\ HeardOK' /\ TimingOK'
  BY DEF vars, Inv, TypeOK, RoomOK, HeardOK, TimingOK, Grounds, Raised
<1>2. StageOK' /\ CauseOK' /\ KilledOK' /\ FinishOK' /\ CompletionOK' /\ RecordOK'
  BY DEF vars, Inv, StageOK, CauseOK, KilledOK, FinishOK, CompletionOK, RecordOK, Returned,
         Raised
<1>3. QuietOK' /\ KeptOK' /\ NothingStoppedRunsOn' /\ EndAgrees' /\ FailureMarked'
  BY DEF vars, Inv, QuietOK, KeptOK, NothingStoppedRunsOn, EndAgrees, FailureMarked,
         Returned, Interrupted
<1>. QED
  BY <1>1, <1>2, <1>3 DEF Inv

LEMMA InitInv == Init => Inv
<1>. SUFFICES ASSUME Init PROVE Inv
  OBVIOUS
<1>1. terminals \in Seq(Terminals) /\ Len(terminals) = 0
  BY DEF Init
<1>2. TypeOK
  <2>1. /\ closing \in BOOLEAN /\ canceled \in BOOLEAN /\ marked \in BOOLEAN /\ createPr \in BOOLEAN
        /\ kept \in BOOLEAN /\ wantsCancel \in BOOLEAN /\ otherVersion \in BOOLEAN
    BY DEF Init
  <2>2. tries \in 0..CompleteTries /\ Len(terminals) < TERMINAL_CAPACITY
    BY <1>1, TriesAssumption DEF Init, TERMINAL_CAPACITY
  <2>. QED
    BY <1>1, <2>1, <2>2 DEF Init, TypeOK, Points, Procs
<1>3. RoomOK /\ HeardOK /\ TimingOK
  BY <1>1 DEF Init, RoomOK, HeardOK, TimingOK, Grounds
<1>4. StageOK /\ CauseOK /\ KilledOK /\ FinishOK /\ CompletionOK
  BY DEF Init, StageOK, CauseOK, KilledOK, FinishOK, CompletionOK, Late, Returned
<1>5. RecordOK /\ QuietOK /\ KeptOK /\ NothingStoppedRunsOn /\ EndAgrees /\ FailureMarked
  BY TriesAssumption DEF Init, RecordOK, QuietOK, KeptOK, NothingStoppedRunsOn, EndAgrees,
         FailureMarked, Returned, Completions, Failures
<1>. QED
  BY <1>2, <1>3, <1>4, <1>5 DEF Inv

LEMMA StepKeeps == ASSUME Inv, [Next]_vars PROVE Inv'
<1>1. CASE RunStep
  BY <1>1, CheckRuntimeKeeps, ValidateKeeps, SpawnRalphexKeeps, ExitWinsKeeps,
     TerminalWinsKeeps, KillGroupKeeps, StopWatcherKeeps, UnwatchedKeeps, DrainOutputKeeps,
     CloseLogKeeps, LogClosedKeeps, SettleKeeps, PrReturnsKeeps, MarkFailureKeeps,
     InterruptKeeps, AttemptKeeps, NothingToReportKeeps, DiscardKeeps, LeaveKeeps
  DEF RunStep
<1>2. CASE WaitFails \/ PrAsks \/ PrArrives \/ Beat \/ DrainTask \/ ReaderEnds \/ Flush
  BY <1>2, WaitFailsKeeps, PrAsksKeeps, PrArrivesKeeps, BeatKeeps, DrainTaskKeeps,
     ReaderEndsKeeps, FlushKeeps
<1>3. CASE LeaderExits \/ OtherExits \/ Signal \/ Farm
  BY <1>3, LeaderExitsKeeps, OtherExitsKeeps, SignalKeeps, FarmKeeps
<1>4. CASE UNCHANGED vars
  BY <1>4, UnchangedKeeps
<1>. QED
  BY <1>1, <1>2, <1>3, <1>4 DEF Next, Over

LEMMA Inductive == Spec => []Inv
<1>1. Inv /\ [Next]_vars => Inv'
  BY StepKeeps
<1>. QED
  BY <1>1, InitInv, PTL DEF Spec

(* The variables keep their types; in particular the terminal channel      *)
(* never fills up, so that no heartbeat waits for a run that is not        *)
(* receiving.                                                              *)
THEOREM ChannelHasRoom == Spec => []TypeOK
<1>1. Inv => TypeOK
  BY DEF Inv
<1>. QED
  BY <1>1, Inductive, PTL

(* Whatever the processes of the run are: when the run has returned        *)
(* ralphex is dead, and of a run that was stopped so is its whole group.   *)
THEOREM StoppedBeforeReported == Spec => []NothingStoppedRunsOn
<1>1. Inv => NothingStoppedRunsOn
  BY DEF Inv
<1>. QED
  BY <1>1, Inductive, PTL

(* However a cancel, a shutdown, a lapsed lease and the exit race, the     *)
(* farm's record of the run is what happened to it.                        *)
THEOREM RecordIsTrue == Spec => []TruthfulRecord
<1>1. Inv => TruthfulRecord
  BY DEF Inv, TruthfulRecord, RecordOK, CompletionOK, Completions, Failures
<1>. QED
  BY <1>1, Inductive, PTL

(* What the daemon says of the end of a run fits the farm's record: the    *)
(* assumption RunSlot makes of every run.                                  *)
THEOREM EndsAgree == Spec => []EndAgrees
<1>1. Inv => EndAgrees
  BY DEF Inv
<1>. QED
  BY <1>1, Inductive, PTL

(* A run that had a timeline is marked failed on it before it is completed *)
(* as a failure.                                                           *)
THEOREM FailureIsMarked == Spec => []FailureMarked
<1>1. Inv => FailureMarked
  BY DEF Inv
<1>. QED
  BY <1>1, Inductive, PTL

(* A run nothing overtook leaves neither a reader nor a flusher at work,   *)
(* and keeps only the description it tells the operator of.                *)
THEOREM NothingIsLeft == Spec => []NothingLeftBehind
<1>1. Inv => NothingLeftBehind
  BY DEF Inv, NothingLeftBehind, QuietOK, KeptOK, Returned
<1>. QED
  BY <1>1, Inductive, PTL

(* Once a run is not being finished any more GitHub is asked for nothing:   *)
(* only the request that was on its way then may still take effect there.  *)
THEOREM PullRequestAbandoned == Spec => AbandonedPullRequest
<1>1. Inv /\ [Next]_vars => [why # "Exit" /\ pr' # pr => pr \in {"pushing", "creating"}]_vars
  <2>. SUFFICES ASSUME Inv, Next, why # "Exit", pr' # pr PROVE pr \in {"pushing", "creating"}
    OBVIOUS
  <2>. USE DEF procVars, taskVars, resultVars, farmVars
  <2>1. PrAsks \/ PrArrives
    <3>1. ~RunStep
      BY DEF RunStep, CheckRuntime, Validate, SpawnRalphex, ExitWins, TerminalWins,
             KillGroup, StopWatcher, Unwatched, DrainOutput, CloseLog, LogClosed, Settle,
             PrReturns, MarkFailure, Interrupt, Attempt, NothingToReport, Discard, Leave,
             Ended
    <3>2. ~(WaitFails \/ Beat \/ DrainTask \/ ReaderEnds \/ Flush)
      BY DEF WaitFails, Beat, DrainTask, ReaderEnds, Flush, Ended
    <3>3. ~(LeaderExits \/ OtherExits \/ Signal \/ Farm \/ UNCHANGED vars)
      BY DEF LeaderExits, OtherExits, Signal, Farm, vars
    <3>. QED
      BY <3>1, <3>2, <3>3 DEF Next, Over
  <2>2. ~PrAsks
    BY DEF PrAsks, Inv, FinishOK
  <2>. QED
    BY <2>1, <2>2 DEF PrArrives
<1>. QED
  BY <1>1, Inductive, PTL DEF Spec, AbandonedPullRequest
=============================================================================
