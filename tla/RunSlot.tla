------------------------------- MODULE RunSlot -------------------------------
(***************************************************************************)
(* The daemon's single run slot: the claim loop of Agent::run, the local   *)
(* requests of Agent::start_local, the semaphore and the watch channel     *)
(* they meet on, the shutdown and the end of the process (src/agent.rs).   *)
(*                                                                         *)
(* What happens inside a run is the subject of module RunLife; here a run  *)
(* is executed until it ends with one of the RunEnds.  The farm is         *)
(* external: it dispatches a job, mints a local run, accepts a completion, *)
(* or its answer is lost.                                                  *)
(*                                                                         *)
(* A step of the model is the code between two points where another task   *)
(* can observe or change the shared state: an await, or two writes whose   *)
(* order another thread can see (the slot, the permit, the current run).   *)
(***************************************************************************)
EXTENDS Integers, Sequences, RunEnds

CONSTANTS
  Requests,   \* the local requests rxd makes; each is also the id of its run
  Jobs,       \* the jobs the farm may dispatch to a claim, each at most once
  Loop,       \* the claim loop, the one actor that is not a request
  None        \* no actor, no run

ASSUME DistinctNames ==
  /\ Loop \notin Requests
  /\ None \notin Requests \cup Jobs \cup {Loop}
  /\ Requests \cap Jobs = {}

Actors == Requests \cup {Loop}
Runs   == Requests \cup Jobs

VARIABLES
  shutdown,   \* how far a shutdown has got
  exiting,    \* the flag stop_accepting raises
  slot,       \* the RunSlot the watch channel publishes
  holder,     \* the actor the only permit is assigned to, or None
  queue,      \* the waiters of the semaphore, in order
  current,    \* the run an attaching client would follow, or None
  pc,         \* where each actor is
  after,      \* where an actor goes once it has given the permit back
  job,        \* the run each actor carries, or None
  answer,     \* the LocalStart each request got
  farm,       \* what the farm knows of each run
  ended,      \* the RunEnd the daemon established for each run
  exit,       \* how Agent::run returned
  gone        \* whether the process has ended

semaphore == <<holder, queue>>
vars == <<shutdown, exiting, slot, holder, queue, current, pc, after, job,
          answer, farm, ended, exit, gone>>

Shutdowns == {"Running", "Draining", "Hurry"}
Answers   == {"none", "Started", "Busy", "Refused"}
FarmSides == Records \cup {"unknown", "lost"}

Free       == [kind |-> "Free",    run |-> None]
Polling    == [kind |-> "Polling", run |-> None]
Opening    == [kind |-> "Opening", run |-> None]
Running(r) == [kind |-> "Running", run |-> r]
Slots      == {Free, Polling, Opening} \cup {Running(r) : r \in Runs}

(* The points of the two functions.  An actor at a Waiting point has an    *)
(* acquire of the semaphore in flight; one at a Holding point has the      *)
(* permit; the run of one at an InFlight point is being executed.          *)
Waiting  == {"acquiring", "draining", "queued"}
Opened   == {"claimed", "minted", "refusing"}
InFlight == {"entering", "executing"}
Holding  == {"polling", "admitted", "opening", "freeing", "dropping"}
              \cup Opened \cup InFlight
Idle     == {"top", "pacing", "drain", "exited", "idle", "asking", "looking", "over"}
Points   == Waiting \cup Holding \cup Idle

TypeOK ==
  /\ shutdown \in Shutdowns
  /\ exiting \in BOOLEAN
  /\ slot \in Slots
  /\ holder \in Actors \cup {None}
  /\ queue \in Seq(Actors)
  /\ current \in Runs \cup {None}
  /\ pc \in [Actors -> Points]
  /\ after \in [Actors -> {"pacing", "top", "drain", "exited", "over"}]
  /\ job \in [Actors -> Runs \cup {None}]
  /\ answer \in [Requests -> Answers]
  /\ farm \in [Runs -> FarmSides]
  /\ ended \in [Runs -> RunEnds \cup {"none"}]
  /\ exit \in {"none", "Shutdown", "VersionMismatch"}
  /\ gone \in BOOLEAN

Init ==
  /\ shutdown = "Running"
  /\ exiting = FALSE
  /\ slot = Free
  /\ holder = None
  /\ queue = <<>>
  /\ current = None
  /\ pc = [a \in Actors |-> IF a = Loop THEN "top" ELSE "idle"]
  /\ after = [a \in Actors |-> IF a = Loop THEN "top" ELSE "over"]
  /\ job = [a \in Actors |-> None]
  /\ answer = [q \in Requests |-> "none"]
  /\ farm = [r \in Runs |-> "unknown"]
  /\ ended = [r \in Runs |-> "none"]
  /\ exit = "none"
  /\ gone = FALSE

Raised == shutdown # "Running"

Goto(a, point) == pc' = [pc EXCEPT ![a] = point]

-----------------------------------------------------------------------------
(* tokio's semaphore with one permit: it serves its waiters in order, and  *)
(* a permit given back is assigned to the first of them at once.           *)

Acquire(a) ==
  IF holder = None
  THEN holder' = a /\ UNCHANGED queue
  ELSE queue' = Append(queue, a) /\ UNCHANGED holder

Release ==
  IF queue = <<>>
  THEN holder' = None /\ UNCHANGED queue
  ELSE holder' = Head(queue) /\ queue' = Tail(queue)

Without(s, i) == SubSeq(s, 1, i - 1) \o SubSeq(s, i + 1, Len(s))

\* An acquire whose future is dropped: the permit it may already have been
\* assigned goes on to the next waiter.
Abandon(a) ==
  \/ holder = a /\ Release
  \/ /\ holder # a
     /\ \E i \in 1..Len(queue) :
          /\ queue[i] = a
          /\ queue' = Without(queue, i)
     /\ UNCHANGED holder

-----------------------------------------------------------------------------
(* The claim loop.                                                         *)

\* Mutant: the top of the loop never looks at the shutdown.
LoopTopBlind ==
  /\ pc[Loop] = "top"
  /\ Goto(Loop, "acquiring")
  /\ Acquire(Loop)
  /\ UNCHANGED <<shutdown, exiting, slot, current, after, job, answer, farm, ended, exit, gone>>

\* The top of the loop reads the shutdown, then asks for the permit.
LoopTop ==
  /\ pc[Loop] = "top"
  /\ IF Raised
     THEN Goto(Loop, "drain") /\ UNCHANGED semaphore
     ELSE Goto(Loop, "acquiring") /\ Acquire(Loop)
  /\ UNCHANGED <<shutdown, exiting, slot, current, after, job, answer, farm, ended, exit, gone>>

\* The select is not biased: a permit that is ready wins even over a
\* shutdown that is.
LoopAcquired ==
  /\ pc[Loop] = "acquiring"
  /\ holder = Loop
  /\ slot' = Polling
  /\ Goto(Loop, "polling")
  /\ UNCHANGED <<shutdown, exiting, holder, queue, current, after, job, answer, farm, ended, exit, gone>>

LoopOvertaken ==
  /\ pc[Loop] = "acquiring"
  /\ Raised
  /\ Abandon(Loop)
  /\ Goto(Loop, "drain")
  /\ UNCHANGED <<shutdown, exiting, slot, current, after, job, answer, farm, ended, exit, gone>>

\* The claim long-poll is never aborted: it returns a job, nothing, an error,
\* or the farm's 409.  A job whose answer is lost on the wire is an error here.
ClaimAnswered ==
  /\ pc[Loop] = "polling"
  /\ \/ \E j \in Jobs :
          /\ farm[j] = "unknown"
          /\ farm' = [farm EXCEPT ![j] = "leased"]
          /\ job' = [job EXCEPT ![Loop] = j]
          /\ Goto(Loop, "claimed")
          /\ UNCHANGED <<after, exiting>>
     \/ \* empty, or failed: the loop is paced before it claims again
          /\ \/ UNCHANGED farm
             \/ \E j \in Jobs : farm[j] = "unknown" /\ farm' = [farm EXCEPT ![j] = "lost"]
          /\ after' = [after EXCEPT ![Loop] = "pacing"]
          /\ Goto(Loop, "freeing")
          /\ UNCHANGED <<job, exiting>>
     \/ \* the farm speaks another protocol version
          /\ exiting' = TRUE
          /\ after' = [after EXCEPT ![Loop] = "exited"]
          /\ Goto(Loop, "freeing")
          /\ UNCHANGED <<farm, job>>
  /\ UNCHANGED <<shutdown, slot, holder, queue, current, answer, ended, exit, gone>>

\* A pause ends on its own or on a shutdown.
LoopPaced ==
  /\ pc[Loop] = "pacing"
  /\ \/ Goto(Loop, "top")
     \/ Raised /\ Goto(Loop, "drain")
  /\ UNCHANGED <<shutdown, exiting, slot, holder, queue, current, after, job, answer, farm, ended, exit, gone>>

\* drained() waits for the permit behind everyone who already waits for it.
DrainAsks ==
  /\ pc[Loop] = "drain"
  /\ Acquire(Loop)
  /\ Goto(Loop, "draining")
  /\ UNCHANGED <<shutdown, exiting, slot, current, after, job, answer, farm, ended, exit, gone>>

\* Mutant: the loop leaves without waiting for the permit it asked for.
DrainedAtOnce ==
  /\ pc[Loop] = "draining"
  /\ exit' = "Shutdown"
  /\ Goto(Loop, "exited")
  /\ UNCHANGED <<shutdown, exiting, slot, holder, queue, current, after, job, answer, farm, ended, gone>>

Drained ==
  /\ pc[Loop] = "draining"
  /\ holder = Loop
  /\ slot' = Free
  /\ exit' = "Shutdown"
  /\ Release
  /\ Goto(Loop, "exited")
  /\ UNCHANGED <<shutdown, exiting, current, after, job, answer, farm, ended, gone>>

-----------------------------------------------------------------------------
(* A local request.                                                        *)

\* rxd asks for a run: the handler of its connection calls start_local.
Ask(q) ==
  /\ pc[q] = "idle"
  /\ Goto(q, "asking")
  /\ UNCHANGED <<shutdown, exiting, slot, holder, queue, current, after, job, answer, farm, ended, exit, gone>>

TryAcquire(q) ==
  /\ pc[q] = "asking"
  /\ IF holder = None
     THEN holder' = q /\ Goto(q, "admitted")
     ELSE UNCHANGED holder /\ Goto(q, "looking")
  /\ UNCHANGED <<shutdown, exiting, slot, queue, current, after, job, answer, farm, ended, exit, gone>>

\* hold_slot looks at the slot once before it queues for the permit.
Look(q) ==
  /\ pc[q] = "looking"
  /\ IF slot.kind = "Running"
     THEN /\ answer' = [answer EXCEPT ![q] = "Busy"]
          /\ Goto(q, "over")
          /\ UNCHANGED semaphore
     ELSE /\ Acquire(q)
          /\ Goto(q, "queued")
          /\ UNCHANGED answer
  /\ UNCHANGED <<shutdown, exiting, slot, current, after, job, farm, ended, exit, gone>>

\* Mutant: a queued request does not watch the slot.
FoundBusyNever(q) == FALSE

\* Mutant: a request that was answered stays in the queue.
FoundBusyQueued(q) ==
  /\ pc[q] = "queued"
  /\ slot.kind = "Running"
  /\ answer' = [answer EXCEPT ![q] = "Busy"]
  /\ Goto(q, "over")
  /\ UNCHANGED <<shutdown, exiting, slot, holder, queue, current, after, job, farm, ended, exit, gone>>

\* A run that takes the slot while the request waits answers it.
FoundBusy(q) ==
  /\ pc[q] = "queued"
  /\ slot.kind = "Running"
  /\ Abandon(q)
  /\ answer' = [answer EXCEPT ![q] = "Busy"]
  /\ Goto(q, "over")
  /\ UNCHANGED <<shutdown, exiting, slot, current, after, job, farm, ended, exit, gone>>

Served(q) ==
  /\ pc[q] = "queued"
  /\ holder = q
  /\ Goto(q, "admitted")
  /\ UNCHANGED <<shutdown, exiting, slot, holder, queue, current, after, job, answer, farm, ended, exit, gone>>

\* Mutant: the permit alone lets a request mint a run.
AdmittedAlways(q) ==
  /\ pc[q] = "admitted"
  /\ slot' = Opening
  /\ Goto(q, "opening")
  /\ UNCHANGED <<shutdown, exiting, holder, queue, current, after, job, answer, farm, ended, exit, gone>>

\* With the permit in hand: refused while the daemon is leaving, or the farm
\* is asked to mint the run.
Admitted(q) ==
  /\ pc[q] = "admitted"
  /\ IF exiting \/ Raised
     THEN /\ Release
          /\ answer' = [answer EXCEPT ![q] = "Refused"]
          /\ Goto(q, "over")
          /\ UNCHANGED slot
     ELSE /\ slot' = Opening
          /\ Goto(q, "opening")
          /\ UNCHANGED <<holder, queue, answer>>
  /\ UNCHANGED <<shutdown, exiting, current, after, job, farm, ended, exit, gone>>

\* open_run is sent once.  An error answers the request Refused, whatever it
\* is: a 409 does not stop the daemon here.
OpenAnswered(q) ==
  /\ pc[q] = "opening"
  /\ \/ /\ farm' = [farm EXCEPT ![q] = "leased"]
        /\ job' = [job EXCEPT ![q] = q]
        /\ Goto(q, "minted")
     \/ /\ farm' \in {farm, [farm EXCEPT ![q] = "lost"]}
        /\ Goto(q, "freeing")
        /\ UNCHANGED job
  /\ UNCHANGED <<shutdown, exiting, slot, holder, queue, current, after, answer, ended, exit, gone>>

-----------------------------------------------------------------------------
(* The run itself, the same for both of its entry points.                  *)

\* Mutant: a run a shutdown overtook is dropped without a completion.
StartSilent(a) ==
  /\ pc[a] \in {"claimed", "minted"}
  /\ IF Raised
     THEN /\ Goto(a, "freeing")
          /\ after' = [after EXCEPT ![a] = IF a = Loop THEN "drain" ELSE "over"]
          /\ UNCHANGED slot
     ELSE /\ slot' = Running(job[a])
          /\ Goto(a, "entering")
          /\ UNCHANGED after
  /\ UNCHANGED <<shutdown, exiting, holder, queue, current, job, answer, farm, ended, exit, gone>>

\* A run a shutdown overtook is completed as runner_shutdown, never started.
Start(a) ==
  /\ pc[a] \in {"claimed", "minted"}
  /\ IF Raised
     THEN /\ Goto(a, "refusing")
          /\ after' = [after EXCEPT ![a] = IF a = Loop THEN "drain" ELSE "over"]
          /\ UNCHANGED slot
     ELSE /\ slot' = Running(job[a])
          /\ Goto(a, "entering")
          /\ UNCHANGED after
  /\ UNCHANGED <<shutdown, exiting, holder, queue, current, job, answer, farm, ended, exit, gone>>

\* The end the daemon established for a run, and what the farm's record of
\* it is then.
EndsAs(r, end) ==
  \E record \in Records :
    /\ Agrees(end, record)
    /\ ended' = [ended EXCEPT ![r] = end]
    /\ farm' = [farm EXCEPT ![r] = record]

\* What report() makes of the farm's answer to a completion.
Report(r) == \E end \in {"Reported", "Unreported", "Forgotten"} : EndsAs(r, end)

Refused(a) ==
  /\ pc[a] = "refusing"
  /\ Report(job[a])
  /\ Goto(a, "freeing")
  /\ UNCHANGED <<shutdown, exiting, slot, holder, queue, current, after, job, answer, exit, gone>>

\* enter() publishes the run; a local request is answered with it.
Enter(a) ==
  /\ pc[a] = "entering"
  /\ current' = job[a]
  /\ Goto(a, "executing")
  /\ answer' = IF a = Loop THEN answer ELSE [answer EXCEPT ![a] = "Started"]
  /\ UNCHANGED <<shutdown, exiting, slot, holder, queue, after, job, farm, ended, exit, gone>>

\* Mutant: a claimed run's mismatch ends the loop but admits the requests
\* that are queued behind it.
RunEndedAdmitting(a) ==
  /\ pc[a] = "executing"
  /\ EndsAs(job[a], "VersionMismatch")
  /\ after' = [after EXCEPT ![a] = IF a = Loop THEN "exited" ELSE "over"]
  /\ current' = None
  /\ Goto(a, "freeing")
  /\ UNCHANGED <<shutdown, exiting, slot, holder, queue, job, answer, exit, gone>>

\* The run ends, completed or dropped, and leave() withdraws it.  A mismatch
\* stops the daemon when the claim loop ran it; a local run's is only logged.
RunEnded(a) ==
  /\ pc[a] = "executing"
  /\ \E end \in RunEnds :
       LET stops == end = "VersionMismatch" /\ a = Loop
       IN  /\ EndsAs(job[a], end)
           /\ exiting' = (exiting \/ stops)
           /\ after' = [after EXCEPT ![a] = IF stops THEN "exited"
                                            ELSE IF a = Loop THEN "top" ELSE "over"]
  /\ current' = None
  /\ Goto(a, "freeing")
  /\ UNCHANGED <<shutdown, slot, holder, queue, job, answer, exit, gone>>

HoldFree(a) ==
  /\ pc[a] = "freeing"
  /\ slot' = Free
  /\ Goto(a, "dropping")
  /\ UNCHANGED <<shutdown, exiting, holder, queue, current, after, job, answer, farm, ended, exit, gone>>

\* The permit goes back, and the actor on: the loop returns after a mismatch,
\* a request that was never started is answered Refused.
DropPermit(a) ==
  /\ pc[a] = "dropping"
  /\ Release
  /\ Goto(a, after[a])
  /\ job' = [job EXCEPT ![a] = None]
  /\ exit' = IF after[a] = "exited" THEN "VersionMismatch" ELSE exit
  /\ answer' = IF a # Loop /\ answer[a] = "none"
               THEN [answer EXCEPT ![a] = "Refused"] ELSE answer
  /\ UNCHANGED <<shutdown, exiting, slot, current, after, farm, ended, gone>>

-----------------------------------------------------------------------------
(* Signals and the end of the process.                                     *)

\* hasten(): the first signal drains, every later one hurries.
Signal ==
  /\ shutdown # "Hurry"
  /\ shutdown' = IF shutdown = "Running" THEN "Draining" ELSE "Hurry"
  /\ UNCHANGED <<exiting, slot, holder, queue, current, pc, after, job, answer, farm, ended, exit, gone>>

\* main returns after Agent::run did; every other task dies with the runtime.
ProcessEnds ==
  /\ exit # "none"
  /\ gone' = TRUE
  /\ UNCHANGED <<shutdown, exiting, slot, holder, queue, current, pc, after, job, answer, farm, ended, exit>>

-----------------------------------------------------------------------------
RunStep(a) == Start(a) \/ Refused(a) \/ Enter(a) \/ HoldFree(a) \/ DropPermit(a)

LoopStep ==
  \/ LoopTop \/ LoopAcquired \/ LoopOvertaken \/ ClaimAnswered \/ LoopPaced
  \/ DrainAsks \/ Drained \/ RunStep(Loop)

RequestStep(q) ==
  \/ TryAcquire(q) \/ Look(q) \/ FoundBusy(q) \/ Served(q) \/ Admitted(q)
  \/ OpenAnswered(q) \/ RunStep(q)

\* The daemon is gone: the only state that may stand still for ever.
Stopped == gone /\ UNCHANGED vars

Next ==
  \/ /\ ~gone
     /\ \/ LoopStep
        \/ \E q \in Requests : Ask(q) \/ RequestStep(q)
        \/ \E a \in Actors : RunEnded(a)
        \/ Signal
        \/ ProcessEnds
  \/ Stopped

Spec == Init /\ [][Next]_vars

(* Every await of the two functions returns in bounded time - a claim in   *)
(* 55 s, a mint in 30 s, a completion within its retry budget - except the *)
(* run itself, which only a shutdown bounds.                               *)
Fairness ==
  /\ WF_vars(~gone /\ LoopStep)
  /\ \A q \in Requests : WF_vars(~gone /\ RequestStep(q))
  /\ \A a \in Actors : WF_vars(~gone /\ Raised /\ RunEnded(a))
  /\ WF_vars(~gone /\ ProcessEnds)

FairSpec == Spec /\ Fairness

-----------------------------------------------------------------------------
(* What the daemon promises the farm, and how its state maps to it.        *)

\* A run is the daemon's from the answer that handed it over until leave(),
\* or the completion of a run that was never started.
Phase(r) ==
  IF ended[r] # "none" THEN "ended"
  ELSE IF \E a \in Actors : job[a] = r /\ pc[a] \in InFlight THEN "started"
  ELSE IF farm[r] = "leased" THEN "taken"
  ELSE "unknown"

Contract ==
  INSTANCE RunnerContract WITH phase <- [r \in Runs |-> Phase(r)], open <- (exit = "none")

\* The daemon answers for one run at a time, starts each at most once, ends
\* every run it took and returns only when it answers for none.
KeepsContract == Contract!Spec

-----------------------------------------------------------------------------
(* Properties.                                                             *)

\* What the slot says of an actor that has the permit assigned.
SlotFits(a) ==
  /\ pc[a] \in {"polling", "claimed"} => slot = Polling
  /\ pc[a] \in {"opening", "minted"} => slot = Opening
  /\ pc[a] = "refusing" => slot \in {Polling, Opening}
  /\ pc[a] \in InFlight => slot = Running(job[a])
  /\ pc[a] \in Waiting \cup {"admitted", "dropping"} => slot = Free

\* Two ralphex processes never work in this checkout at once, and no run is
\* taken while another still has to be answered for.
OneRunAtATime == Contract!OneAtATime

\* The published slot is what its one holder is doing, and Free when nobody
\* holds the permit: no actor ever overwrites the slot of another.  It is
\* what hold_slot and running() answer Busy from.
SlotTellsHolder ==
  IF holder = None THEN slot = Free ELSE SlotFits(holder)

\* A client that attaches is handed the run the slot names and no other: the
\* run is published after it took the slot and withdrawn before it frees it.
AttachFindsSlot == current # None => slot = Running(current)

\* The daemon returns, on a shutdown or on a mismatch, only when no run is
\* being opened, executed or completed: a run an rxd client started is
\* finalized like a claimed one instead of dying with the runtime.
ExitLeavesNoRun ==
  exit # "none" => \A a \in Actors : pc[a] \notin Opened \cup InFlight \cup {"opening"}

\* Whatever the farm leased and told the daemon about has an end the daemon
\* established before the process goes: it was completed, given up after the
\* retries, or taken away by the farm, never silently forgotten.
EveryLeaseAccounted ==
  gone => \A r \in Runs : farm[r] = "leased" => ended[r] # "none"

-----------------------------------------------------------------------------
(* The inductive invariant behind the safety properties.                   *)

LoopPoints == {"top", "acquiring", "polling", "claimed", "refusing", "entering",
               "executing", "freeing", "dropping", "pacing", "drain", "draining",
               "exited"}
RequestPoints == {"idle", "asking", "looking", "queued", "admitted", "opening",
                  "minted", "refusing", "entering", "executing", "freeing",
                  "dropping", "over"}

PointsOK ==
  /\ pc[Loop] \in LoopPoints
  /\ \A q \in Requests : pc[q] \in RequestPoints /\ after[q] = "over"
  /\ after[Loop] # "over"

\* Only the actor the permit is assigned to is past an acquire; the others
\* that asked wait in the queue, each once.
PermitOK ==
  /\ \A a \in Actors : pc[a] \in Holding => holder = a
  /\ holder # None => pc[holder] \in Holding \cup Waiting
  /\ holder = None => queue = <<>>
  /\ \A i \in 1..Len(queue) : queue[i] # holder /\ pc[queue[i]] \in Waiting
  /\ \A i, j \in 1..Len(queue) : queue[i] = queue[j] => i = j

\* An actor carries a run of its own kind, leased and not ended.
JobOK == \A a \in Actors : pc[a] \in Opened \cup InFlight =>
  /\ a = Loop => job[a] \in Jobs
  /\ a # Loop => job[a] = a
  /\ farm[job[a]] = "leased"
  /\ ended[job[a]] = "none"

CurrentOK == current # None => holder # None /\ pc[holder] = "executing" /\ current = job[holder]

\* The daemon leaves for a reason a request that is still queued will find.
LeavingOK ==
  /\ pc[Loop] \in {"drain", "draining"} => Raised
  /\ pc[Loop] \in {"refusing", "freeing", "dropping"} /\ after[Loop] = "drain" => Raised
  /\ pc[Loop] = "refusing" => after[Loop] = "drain"
  /\ pc[Loop] \in {"freeing", "dropping"} /\ after[Loop] = "exited" => exiting
  /\ pc[Loop] = "exited" <=> exit # "none"
  /\ exit # "none" => exiting \/ Raised
  /\ gone => exit # "none"

LeaseOK == \A r \in Runs :
  farm[r] = "leased" /\ ended[r] = "none" =>
    \E a \in Actors : job[a] = r /\ pc[a] \in Opened \cup InFlight

\* A run ends only after it was leased, and is leased once.
FarmOK ==
  /\ \A r \in Runs : farm[r] \in {"unknown", "lost"} => ended[r] = "none"
  /\ \A q \in Requests :
       pc[q] \in {"idle", "asking", "looking", "queued", "admitted", "opening"} =>
         farm[q] = "unknown"

\* A mismatch of a claimed run leaves the permit with the loop until it exits.
MismatchOK == (\E j \in Jobs : ended[j] = "VersionMismatch") =>
  /\ exiting
  /\ pc[Loop] \in {"freeing", "dropping", "exited"}
  /\ after[Loop] = "exited"

IInv ==
  /\ TypeOK /\ PointsOK /\ PermitOK /\ JobOK /\ SlotTellsHolder /\ CurrentOK
  /\ LeavingOK /\ ExitLeavesNoRun /\ LeaseOK /\ FarmOK /\ MismatchOK

-----------------------------------------------------------------------------
NewLease == \E r \in Runs : farm[r] = "unknown" /\ farm'[r] # "unknown"

\* Once the daemon has decided to leave it takes no job and mints no run,
\* though requests may still be queued for the permit it gives back.
NoLeaseAfterExit == [][exit # "none" => ~NewLease]_vars

\* Once a claimed run was stopped by a 409 no run is opened at that farm,
\* not even by a request that was queued behind the run.
NoLeaseAfterMismatch ==
  [][(\E j \in Jobs : ended[j] = "VersionMismatch") => ~NewLease]_vars

\* Every local request is answered - Started, Busy or Refused - or the
\* process ends; none waits out a run that holds the slot.
EveryRequestAnswered ==
  \A q \in Requests : (pc[q] = "asking") ~> (answer[q] # "none" \/ gone)

\* A shutdown always ends the daemon, wherever the loop was.
ShutdownExits == Raised ~> gone

\* README: the daemon exits when the farm answers 409 to a heartbeat.
MismatchEndsDaemon ==
  (\E r \in Runs : ended[r] = "VersionMismatch") ~> (exit # "none")

=============================================================================
