# A formal model of ralphex-macos-runner

`ralphex-macos-runner` runs one ralphex job at a time in a checkout on a Mac: a job the farm
dispatched to the daemon's claim loop, or a plan somebody started with `rxd`. This directory holds
TLA+ models of the parts where the order of events decides whether that works, the TLC runs that
check them on small instances, and TLAPS proofs for the parts that are proved for every size.

Paths below are relative to the repository (`src/agent.rs` is its `src/agent.rs`).

    tlc -workers 2 -config RunSlot.cfg RunSlot         # any run of the table below
    tlapm RunSlotProofs.tla                            # a proof module

## 1. The system

    rxd ──Unix socket──▶ ipc::serve ──start_local──▶┐
                              ▲                     │ one permit, one published slot
                              │ history, live lines │
    farm ◀──claim──────── Agent::run ──────────────▶┴─▶ execute ─ serve_run ─ finish ─ report
      ▲                                                   │   │   │    │
      ├──── heartbeat (10 s) ─────────────────────────────┘   │   │    └ git/gh: pull request
      ├──── log chunks ◀── LogStream flusher ◀── pty reader ◀─┘   │
      └──── plan-progress snapshots ◀── PlanWatcher / PhaseTracker ┘

| Component | Source | State | Operations | What is hard |
|---|---|---|---|---|
| Run slot and claim loop | `agent.rs` | permit (semaphore of one), `watch` slot, `exiting`, `current` | `run`, `start_local`, `hold_slot`, `drained`, `enter`, `leave`, `stop_accepting` | loop and requests meet on one permit; a shutdown or a 409 at any await |
| Life of a run | `agent.rs`, `job.rs` | process group, terminal events, drain timer, heartbeat, output directory | `execute`, `serve_run`, `finish`, `settle`, `report`, `Job::stop`, `drain_output` | the exit races cancel, drain, 410 and mismatch; futures dropped half way |
| Log stream | `logstream.rs`, `protocol/client.rs` | outgoing buffer, sequence number, 410 latch | `push_line`, flusher, `append_log`, `close` | lost, late and repeated requests; shedding at the cap; close against flush |
| Replay history, followers | `logstream.rs`, `ipc.rs` | ring of past lines, broadcast channel | `subscribe`, `follow` | replay and live must join; a slow follower; the process ending under it |
| Farm client | `protocol/client.rs` | - | `claim`, `open_run`, `heartbeat`, `append_log`, `post_progress`, `complete` | which calls are retried, with which budget, and what a 410 or a 409 means |
| Client socket | `ipc.rs` | the socket file, a staging directory | `bind`, `unoccupied`, `serve`, `handle` | what an earlier process left behind; the listener goes before the process does |
| Daemon main | `bin/ralphex-macos-runner.rs` | shutdown level | signals, start-up, exit codes | the order of the last steps of the process |
| Plan watcher, timeline | `progress.rs`, `planfile.rs` | phase, pending request, frozen | `observe`, `freeze`, `requested`, `follow_events`, `attach`, `stop`, `post_phase`, `post_failure` | requests coalesce while a post is made; directories appear late; a mount hangs |
| Pull request | `pr.rs`, `branch.rs`, `bin/rxd.rs` | the checkout, what GitHub holds | `choose`, `require_remote_base`, `open_pull_request` and its steps | a step killed at its timeout may have done its work; the checkout moves under a queued request, and behind ralphex's exit |
| Time of a shutdown | `service.rs`, `agent.rs`, `job.rs`, `pr.rs`, `protocol/` | - | `exit_timeout`, `exit_timeout_drift` | a sum over every await of a shutdown |
| Process group | `job.rs` | pty, pgid | `spawn`, `wait`, `stop`, `drain_output`, `inspect` | SIGTERM grace against exit; helpers that keep the pty open |
| Terminal output | `job.rs`, `logstream.rs` | the line being assembled | `pump`, `LineAssembler`, `push_line`, `push_break` | cuts at the cap, in characters and before newlines |
| Escape sequences | `ansi.rs` | - | `plain` | sequences broken off by one another |
| Plan files | `planfile.rs` | - | `read`, `parse` | fences within fences |
| Descriptions | `prdesc.rs` | the output directory | `read`, `parse`, `describe` | a file that changes between two looks; limits |
| rxd client | `bin/rxd.rs` | - | `start`, `attach` | what it prints when its session breaks |
| Service installation | `service.rs` | launchd's agent, the copied binary | `install`, `uninstall` | asks whether a run is on, then replaces the daemon |
| Config, paths, protocol types | `config.rs`, `paths.rs`, `protocol/types.rs` | - | pure functions, parsing | - |

What makes each part correct:

- **Run slot.** At most one run is the daemon's at any time; the published slot and the run an
  attaching client follows are those of the permit's holder; every request is answered; nothing is
  leased after the daemon has decided to leave, and nothing it leased is forgotten.
- **Life of a run.** The farm's record says what happened, whatever raced the exit; nothing of a
  stopped run is at work when the farm is told that it is over; a shutdown or a cancel ends it.
- **Log stream.** The farm's log is the output in order, each byte once, and lacks only what was
  shed or given up; a close sends what was buffered; after a 410 nothing is sent.
- **Followers.** Replay and live lines join without gap or repeat, a slow terminal knows exactly what
  it missed, and it is told the end after the last line.
- **Socket and installation.** The daemon that listens is the one clients find, whatever an earlier
  process left behind; an install replaces it.
- **Timeline.** No change of the plan or the phase is lost however requests coalesce; the opening
  snapshot is the first and the failed one the last; nothing posted holds up the end of the run.
- **Pull request.** The branch rxd decides on is the one ralphex works on and the sequence pushes; what
  is reported done is published; what steps that were killed left behind fails no later run.
- **Time of a shutdown.** `ExitTimeOut` covers every way out, whenever the signal comes.
- **Terminal output, escape sequences, plans, descriptions.** No byte is lost or invented, no visible
  text is taken for a sequence, no example in a plan for its tasks, and a pull request says what
  finalize wrote, whole, or nothing of it.

## 2. The modules

| Module | Models | Kind |
|---|---|---|
| `RunnerContract` | what the daemon promises the farm about runs | abstract specification |
| `RunSlot` | `Agent::run` and `start_local` on the permit and the slot | refines `RunnerContract` |
| `RunLife` | one run, from the answer that handed it over to `leave()` | detailed model |
| `RunEnds` | `RunEnd` and what the farm's record can be for each | shared by both |
| `LogDelivery` | buffer, flusher, retries and `close()` of `LogStream`, and the farm's log route | detailed model |
| `LogFollow` | the history, the broadcast channel, the daemon's `follow()` and the session of `rxd` | detailed model |
| `Timeline` | phase tracker, plan watcher, posting task and the last snapshots of a run | detailed model |
| `DaemonSocket` | the process under launchd, its socket, and `rxd install` | detailed model |
| `PullRequest` | what rxd decides of the branch, ralphex, the checkout, `pr.rs` and GitHub, over several runs | detailed model |
| `ShutdownBudget` | every wait between a signal and the exit, with its bound | detailed model, timed |
| `Terminal` | the assembler of lines and the views of the output it writes | detailed model |
| `Ansi` | the scanner of `plain()`, and the grammar by whole sequences | operators, two ways |
| `PlanFile` | `planfile.rs`, and what a plan says | operators, two ways |
| `Descriptions` | `prdesc.rs`, and what a description says | operators, two ways |
| `MCApart` | the last five side by side, over every input up to a length | instance |
| `RunSlotProofs`, `RunLifeProofs`, `LogDeliveryProofs`, `LogFollowProofs`, `TimelineProofs`, `DaemonSocketProofs`, `PullRequestProofs`, `ApartProofs` | proofs; the last is about the five of `MCApart` | TLAPS |

In all of them a step is the code of one task between two points where another task can see or
change what it works on: an await, or two writes whose order another thread can observe. A deadline
may pass at any moment, so every order of a timeout and what it races with is a behaviour.

### RunSlot

`pc` says where the claim loop (`Loop`) and each local request are in their functions. The semaphore
is a holder and a FIFO queue, as tokio's is: a permit given back is assigned to the first waiter
before that waiter runs, which is why an acquire that is dropped (`LoopOvertaken`, `FoundBusy`) must
hand the permit on. The farm is external: it dispatches each job once, mints a run, or loses its
answer.

| Code | Actions |
|---|---|
| `Agent::run`, top of the loop, the unbiased select | `LoopTop`, `LoopAcquired`, `LoopOvertaken` |
| the claim: job, empty, error, 409 | `ClaimAnswered`, then `LoopPaced` |
| `drained()` | `DrainAsks`, `Drained` |
| `start_local`, `hold_slot` | `Ask`, `TryAcquire`, `Look`, `FoundBusy`, `Served`, `Admitted` |
| `open_run` | `OpenAnswered` |
| the shutdown looked at again; refusal of the run | `Start`, `Refused` |
| `enter`, the run, `leave` | `Enter`, `RunEnded` |
| the drop of the hold | `HoldFree` (slot), then `DropPermit` (permit) |
| `hasten`, the end of `main` | `Signal`, `ProcessEnds` |

What happens between `Enter` and `RunEnded` is `RunLife`'s subject. `RunSlot` assumes of it only
`RunEnds!Agrees`, and `RunLife`'s invariant `EndAgrees` shows that a run keeps it.

### RunLife

`pc` follows `execute()` and `serve_run()` through `finish()`, `settle()` and the report. Beside it
run the heartbeat (`Beat`), the drain timer (`DrainTask`), the terminal's reader (`ReaderEnds`) and
the flusher (`Flush`). Processes are sets: the leader, members of its group, and helpers that left
the group but still hold the pty. `TerminalWins` and `ExitWins` are the two arms of `ended()`, which
polls the exit first. `Interrupt` is the select around `finish()`: it may fire at each of finish()'s
awaits, drops the future where it is - with the handles it had taken - and goes on as an
interrupted run. What the pull request sequence asks of GitHub (`PrAsks`) and what of it takes effect
there (`PrArrives`) are apart: the drop kills git or gh, but a request that is on its way may still
arrive, then or after the run is over. `Attempt` is `complete()` with its retries: an answer may be lost after the farm
recorded the completion. `RunLife` starts where `RunSlot` has `Enter`; a run that a shutdown
overtook before is completed by `RunSlot!Refused` and never executed.

### LogDelivery

A byte is its place in the output. The buffer loses bytes only at its front - to the flusher, or at
the cap - so it is the interval `taken + 1 .. pushed`, and a chunk is an interval with a sequence
number. `sent` holds every chunk a request was ever made with and never shrinks, and `Arrive` lets
any of them reach the farm at any time: late, twice, or never. The farm appends a chunk whose number
is above the last accepted one and answers 204 to any other, as the comments of `append_log` say.
`Push` and `NotifyFilled` are apart because the notification follows the release of the lock.
`CloseDropped` is `RunLife!Interrupt` seen from here.

### LogFollow

`pc` is where the handler of a connection is: it has been asked to attach, or `start_local` has
answered it with a run; it has sent `Started`; it replays, follows, or drains what was queued after
it saw the end. A line is its number. `oldest` is the front of the history ring, whose two bounds
let a push drop any number of lines; the receiver of the broadcast channel is its next line
(`cursor`), and is `Lagged` once that is more than `Capacity` behind. `held` is the message in
`send()`, `wire` what the socket holds unread, `rxd` the session and how it exits. `Subscribe` is
one step because `subscribe()` takes both under the lock `push_line` holds. `SeesEnd` may win over
queued lines, since the select is not biased. `Finish` and `Withdraw` are the two writes of
`leave()`; `ProcessEnds` is `main` after `Agent::run` returned, with every handler where it is. `printed`
keeps every message a session read, and the properties say how many lines its first so many account for
(`Accounted`); with what is held and on the wire behind them they are the pipeline the invariant is about
(`Sent`).

### Timeline

| Code | Actions |
|---|---|
| `PhaseTracker::observe`, its lock and its notification | `Observe`, then `Notify` |
| the file system: directories, the plan, a mount that hangs | `MakeDirectory`, `ChangePlan`, `Hang` |
| `follow_events`: an event, the debounce, the retry | `Hear`, `DebounceElapses`, `Attach` |
| `requested()` | `Look`, `Wake` |
| `post_requested`, `Poster::post` | `Choose` (phase), `Send` (plan read, 410 latch), `PostEnds`, `ReadOverdue` |
| `PlanWatcher::stop` | `Stop`, `Stopped` |
| `post_phase`, `post_failure`, `mark_failure` | `PostPhase`, `PostFailure`, `NoFailure` |
| a terminal event that drops `finish()` | `Interrupt` |

A plan is its version and a snapshot the phase and the version it carries. The phase is read when the
request was taken, the plan after that on the blocking pool, and both may change in between. The
farm's side is left out: a post ends with any answer, and a 410 sets the latch. Events of an ancestor
directory are covered by `Attach`, which may happen at any time. What `finish()` does between the
snapshots is `RunLife`'s subject.

### DaemonSocket

`life` is the main thread: `unoccupied()`, then the agent, whose return is followed by the removal of
the socket file and the end of the process. `listener` is the task of `ipc::serve` beside it: `Stage`
and `Publish` are `bind()`, `StopListening` and `RemoveSocket` what it does on a shutdown. A
`Crash` ends both and may leave a stale file (`path`) or a staging directory behind. `disk` covers every
refusal of `bind()` that is not another daemon: a path too long for an address, a directory that cannot be
made, a socket that cannot be bound or moved; some of these hold from the start. `inst` follows
`install()` step by step, and launchd may restart the daemon between any two of them. The run is a
flag here; `RunSlot` has what it stands for. A second daemon started by hand, beside launchd's, is
not in the model.

### PullRequest

A commit is the run that made it and a branch the set of commits on it, here (`local`) and on GitHub
(`remote`); a push is taken when it takes nothing away.

| Code | Actions |
|---|---|
| `describe()` of rxd: `choose`, `default_branch`, `require_remote_base` | `Ask` |
| a job of the farm | `Dispatch` |
| ralphex, as the comments of `branch.rs` have it | `RalphexWorks`, `RalphexRefuses` |
| `pushed_branch`, `checked_out` | `CheckedOut` |
| the steps of `open_pull_request`, `resolve_base` | `List`, `Push`, `Base`, `View`, `Create` |
| a step that git or GitHub refuse, that fails, that is killed at its timeout | `Refused`, `Fails`, `Killed` |
| a terminal event that drops `finish()` at any of these steps | `Dropped` |
| the request of a step that was killed, the user, the reviewers | `ArriveLate`, `MoveHead`, `PushDefault`, `Merge`, `OpenByHand` |

The user may check something else out whenever ralphex itself is not at work (`MoveHead`): while the
request waits for the slot, while `finish()` awaits its way to `checked_out()`, and later. `moved`
says that a queued request, or a run that has not looked yet, finds another checkout than was left
there. `smooth` remembers that every step of a run answered and nobody else changed the repository
during it, nor the checkout before `checked_out()`; the properties say by it when a failure needs an
excuse. Several runs follow one another in the one
checkout, which is how a retry meets what an earlier run left behind.

### ShutdownBudget

`at` is where the holder of the slot waits and each action one wait, of any length up to `Bound`.
`now` counts from the signal, which may come during any of them. The order of the waits is that of
`agent.rs`: claim or title and mint, the inspection with its one deadline, the watcher's start, the
run, and its end by an exit (`Opening`) or a terminal event (`Stopping`), the pull request, and
`complete()` with its attempts and backoffs. `Interrupt` is the drop of `finish()`. A request that is
queued behind the holder waits for nothing more: it is refused when it gets the slot.

### Terminal, Ansi, PlanFile, Descriptions

Pure code on text. A character, a byte or a line is its class, as far as the code tells it apart.
`Terminal` is `LineAssembler::feed` byte by byte, with `raw`, `history` and `copy` as the three views
of the output. `Ansi!Plain` is the scanner's state machine and `Visible` cuts whole sequences out of
the text. `PlanFile` has the single pass of `parse()` with what `progress.rs` and `agent.rs` make of it,
and `AsWritten` says the same from the blocks and headers of the file. `Descriptions` follows `read()`
through its two looks at the file and `parse()`, and `SaysWhatWasWritten` says what the pull request
has to say.

### MCApart

The five share no state, with the others or with one another: nothing is to be gained by a run of each.
`bench` says which of them a behaviour sets up.

## 3. The runs

| Run | Specification | Shows |
|---|---|---|
| `run_slot` | `RunSlot`, fair | The inductive invariant (an honest slot is part of it), what an attach follows, no lease after exit or mismatch, no run or lease left behind, refinement of `RunnerContract`; every request is answered and every shutdown ends the daemon |
| `run_slot_mismatch` | `RunSlot`, fair | Violation: a local run's 409 does not end the daemon (finding 1) |
| `run_life` | `RunLife`, fair | Nothing stopped runs on, truthful records, ends that agree with them, the failed mark, nothing left behind, nothing more asked of GitHub for an abandoned run; shutdown, cancel, 410 and mismatch each end the run |
| `run_life_reader` | `RunLife` | Violation: the pty's reader outlives an interrupted run (finding 2) |
| `log_delivery` | `LogDelivery`, fair | The inductive invariant, order and wholeness of the farm's log, close, silence after a 410, and that everything drains |
| `log_follow` | `LogFollow`, fair | The inductive invariant; what a terminal prints is gapless or says what is missing, reaches the end before the end is told, and comes to its end |
| `log_follow_exit` | `LogFollow` | Violation: a drained daemon's exit cuts off a terminal that is attached (finding 3) |
| `timeline` | `Timeline`, fair | The opening snapshot comes first, the last ones say `pr`, every change and every phase is posted, a hung mount holds up nothing |
| `daemon_socket` | `DaemonSocket`, fair | The listener is at the path, an install takes, a daemon comes to be reachable over stale files |
| `daemon_socket_install` | `DaemonSocket` | Violation: an install boots out a daemon that drains a run (finding 4) |
| `pull_request` | `PullRequest` | The branch is decided as ralphex decides, what the run made is what is pushed unless the checkout moved behind it, done is published, trying again works |
| `apart` | `MCApart` | No byte lost and every view as written, every escape sequence gone and nothing else, a plan and a description read as written, and a shutdown within `ExitTimeOut` |

Bounds, and why they are enough:

- `RunSlot`: two requests and one job. The permit's queue then holds three waiters - the loop, and a
  request before and one behind it. Safety is proved for any number of both; what needs the instance
  is liveness, and the mutants. No symmetry, which is not sound for liveness. The mismatch needs one of
  each.
- `RunLife`: a leader, one member of the group, one helper outside it; more of either kind behave
  alike, since every action treats the set, and the proofs are for any sets. `CompleteTries = 2` allows
  a lost answer followed by a retry.
- `LogDelivery`: chunks of two bytes, a buffer of four, writes of one or two, five bytes of output.
  The cap is passed, three chunks can be on their way, a chunk can be partly full, two attempts give
  one retry. The constants keep the code's relation `Capacity >= Chunk + MaxWrite`.
- `LogFollow`: one session (sessions share only what is pushed), a history and a channel of two, a
  socket of one message and five lines: a session can join before, within and after the output, miss
  lines twice, and be behind when the run ends. Lines pushed after the end are among the five, since
  a reader may outlive its run.
- `Timeline`: two markers, so that a phase is entered, kept or left; one change of the plan, which is
  a write or a move, in no, one or both directories, some of them made later. A property about a
  change or a phase is about the last one, so that more of them only repeat it.
- `DaemonSocket`: three processes - the old one, one that launchd restarted, and the one an install
  started - and two installations or removals, the second of which finds what the first left.
- `PullRequest`: the default branch, the plan's and a feature branch; two runs, so that the second
  meets what the first left; one late request. The proofs are for any numbers and names.
- `MCApart`: the cap of a line is three bytes and seven are printed, so that a line is cut twice, in a
  character or before a newline. Texts of five characters hold a sequence broken off by another; plans
  of five lines a fence within a fence and a task on either side; descriptions of six a title, blank
  lines and a body at its limits. The times keep the order of the code's own (a claim is shorter than
  the pull request's six steps, a snapshot no longer than a grace), with a short and a long drain, and
  an agent installed for either.

Deadlock is checked in every run but `log_delivery`, whose stream really stops: the flusher has
ended and the run has printed all it will. In the others an action of its own (`Stopped`, `Over`,
`Quiet`, `Done`, `Idle`, `Gone`, `Grown`, `TerminalClosed`) says which states may stand still.

Fairness, each conjunct on account of what the code guarantees:

- `RunSlot`: every await of the loop and of a request returns in bounded time - a claim in 55 s, a
  mint in 30 s, a completion within `COMPLETE_BUDGET`, the permit in order. A run itself is fair only
  once a shutdown was raised: without one a ralphex process may go on for ever.
- `RunLife`: every await of `execute()` has its own deadline except `wait()`, whose step is enabled
  only by an exit or a terminal event; the drain timer fires; of the heartbeats, sent as long as the
  run lasts, one is answered. Nothing is assumed of the processes.
- `LogDelivery`: the ticker fires, and requests and backoffs end. The farm owes nothing.
- `LogFollow`: a handler that can go on is polled, and a terminal reads what it is sent. Nothing makes
  the run print or end.
- `Timeline`: the tasks are polled, the debounce, the attach retry, the deadlines and the timeout of a
  request elapse, and a run whose timeline was stopped goes on to its end (`RunIsEnded` of
  `RunLife` is about the waits in between). Nothing makes a mount answer: `Send` is not enabled while
  it hangs.
- `DaemonSocket`: `main` gets through its start and the socket's task is scheduled.

## 4. The proofs

None of the properties below is inductive; each module proves a stronger invariant and names its parts.
Assumptions on the constants are named in the modules that declare them, and TLC evaluates them.

`RunSlotProofs` proves for any sets of requests and jobs, from `DistinctNames` alone:

- `Invariance`: `IInv` is inductive. That the slot tells the holder (`SlotTellsHolder`) needs that only
  the permit's holder is past an acquire and that the queue holds each waiter once (`PermitOK`); a lease
  is accounted for because each open lease is carried by an actor (`LeaseOK`) at a point that keeps it
  (`JobOK`); nothing is leased after an exit because the reason for it is one a queued request will
  still find (`LeavingOK`); and after a mismatch the loop holds on to the permit until it left
  (`MismatchOK`).
- from it `TypeCorrect`, `SlotAgrees`, `AttachAgrees`, `ExitIsClean`, `LeasesAreAccounted`, and the
  action properties `NothingLeasedAfterExit` and `NothingLeasedAfterMismatch`.
- `Refinement`: every behaviour of `RunSlot` is one of `RunnerContract` under the mapping `Phase`.
  The lemmas sort the actions: a step of the carrier of a run moves that run's phase
  (`CarrierRefines`), a lease is a `Take` (`TakeRefines`), an exit is a `Close` (`CloseRefines`),
  and anything else keeps every phase (`QuietRefines`). `OneRun` follows.

`RunLifeProofs` proves all six invariants of `run_life` and its action property, for any processes and
any number of attempts (`ProcsAssumption`, `TriesAssumption`). The farm's record is the completion, so
what has to be carried along is that a completion is true while it waits to be reported
(`CompletionOK`), which for a cancel, a drain or a forgotten lease rests on the events that are still
queued (`HeardOK`). That the channel of eight has room (`ChannelHasRoom`) is a count of who sends, and
how often (`RoomOK`). Which members of the group may live once a terminal event has won is `KilledOK`,
what each point of `execute()` says of the run `StageOK` and `CauseOK`. That nothing more is asked of GitHub for
a run that is not being finished (`PullRequestAbandoned`) is that the sequence is awaited only while the exit
is what ended the run (`FinishOK`); what is on its way then is beyond anyone's reach. `EndsAgree` is the assumption
`RunSlot` makes of a run: with it the two modules fit together at any size.

`LogDeliveryProofs` proves for any sizes, from `SizesAssumption`:

- `Invariance`: `IInv` is inductive. Its core is that chunks that were ever sent are disjoint
  intervals in the order of their numbers and all behind the buffer (`SentOK`), that the farm holds
  only such chunks in that order (`LogOK`), and that the chunk on its way has the highest number
  (`ChunkOK`): when the farm is past that number it has that very chunk, which is why a 204 means
  acceptance (`LogIsWhole`).
- from it `LogInOrder`, `NothingAcknowledgedIsMissing`, `CloseTakesAll`, `NoLostWakeup`,
  `SilenceAfterGone`.

`TimelineProofs` proves `TimelineInOrder`, for any number of changes and markers (`BoundsAssumption`):
what the poster does at each point, and what the run's end has waited for by then, tie the two tasks
together.

`DaemonSocketProofs` proves `SocketIsFound` and `InstallReplaces`, for any number of processes and
installations. The first rests on which life of a process can have a listener and a staged socket; the
second on what `install()` has established at each of its steps that neither a crash nor a restart by
launchd can undo.

`PullRequestProofs` proves all four properties of `pull_request`, for any branches, runs and late
requests (`NamesAssumption`). `DecisionIsRalphexs` and `PushIsOfTheRun` follow from what is known of a
run at each stage (`Chosen`); of the branch that is pushed nothing is known of a run whose checkout was
moved between ralphex's exit and `checked_out()`. `DoneHasItsPullRequest` and `TryingAgainWorks` need more (`Kept`): no
commit anywhere is of a later run (`NoCommitAhead`), where the run's own have got to (`OnBranch`,
`OnGitHub`), and that while it is smooth nothing of it is on another branch of GitHub and no pull
request of its branch has appeared (`Alone`); and that a base is what `origin/HEAD` or GitHub names
(`BaseOK`). What GitHub has only grows (`Grown`), which keeps an
outcome true once it was.

`LogFollowProofs` proves `IInv` of `LogFollow`, and from it `Gapless` and `WholeUntilEnd`, for any sessions,
sizes and output (`BoundsAssumption`). What a session prints cannot be proved by itself: the invariant is
about all it was sent (`Sent`: printed, on the wire, in `send()`). The lines these account for reach exactly to
the front of what is still to be replayed, and that to the next line the receiver is due (`PipelineOK`), so the
replay and the live lines join whenever the history dropped lines and whoever was lagged. `LastWord` says
that an end is sent only with all lines up to `mark` accounted for, which is why it may be seen before
they are. The lemmas on `Accounted` say what appending, delivering and reading a message do to the sum.

`ApartProofs` has the parts of `MCApart`:

- `GoneInTime`: the daemon is gone within `exit_timeout`, for any values of the timeouts that keep
  `SlackAssumption`. `BudgetInv` gives each place the sum of what the places before it can have taken,
  counted from the signal or from the start of the drain timer.
- `OutputHandedOver`: no byte is lost or repeated, for any cap of at least two bytes (`ChunkAssumption`)
  and any output.
- `ViewsAreAsWritten`: the farm's copy and the history are what was written, cuts and all. What is carried
  along of the copy is that no character is split where it ends (`Copied`): then what is decoded apart is
  what would be decoded together (`LossyConcat`), and of text that is whole a cut leaves a piece that is
  (`BoundaryIs`). Of the history it is that up to the first line that reaches the cap, what is kept back is
  the line that is open, and that an open line is empty only where nothing of it was kept back nor cut
  (`Historied`).
- `EscapesAreGone`: for a text of any length, what the scanner leaves is the text without its escape
  sequences (`PlainIsVisible`). The scanner's states along a text are a trace (`PlainTrace`). Where a
  sequence begins the scanner is in text, wherever it ends or is broken off the scanner is in text again
  with nothing written (`CsiSpans`, `OscSpans`), and any other character of text is written; from the end
  of the text back to its beginning, what is still to be written is what `Visible` has from there.
- `PlansAreAsWritten`: for any lines, `parse()` reads what the plan says (`ParseIsPlan`, `ReadersSeePlan`
  for files of any size and any limit). The lines it does not skip are those outside of all blocks
  (`OutsideRead`): a block is open up to the first line that closes it (`BlockOpen`), and from the last line
  back to the first, what is outside from a line on is what the parser reads from there. Over these lines,
  from the first on, the tasks it has closed are the whole tasks in front, and the one it holds open is the
  last with its boxes so far (`Reads`): a line behind all others adds a box to the last task only
  (`BoxesMore`), and only a header or a section ends one (`AllEnd`).
- `DescriptionsAreAsWritten`: for a text of any length and any limits with room for the ellipsis, and
  whatever is at the path when it is looked at and when it is opened, the request says what was written,
  whole, or nothing of it (`ParseDescriptionIs`, `ReadDescriptionIs`; `RequestSays` for any origin). `parse()`
  splits, trims and joins line by line, while the property speaks of places in the whole text. What relates
  the two are the four parts of a text that is not blank (`Cuts`): the white space in front, its first line
  of more, the white space behind that, and the rest from the newline on; every such text has them (`CutsExist`). What the folds make of a
  text put together is what they make of its parts: `Unix` unless a carriage return and its newline come
  apart (`UnixConcat`), `Split` at a newline (`SplitNewline`); `Join` undoes `Split` (`JoinSplit`), so the
  body's lines joined are the rest itself. Blanks in front of a text and behind it do not change what is
  trimmed of it (`TrimmedIs`). So the parser has the title and the rest (`Paged`), and the places in the text have
  the same (`TitleWrittenIs`, `BodyWrittenIs`); that trimming comes before the conversion of newlines in
  the one and behind it in the other makes no difference (`TrimUnix`).

The library's induction theorems have an operator as parameter and cannot be cited, so the modules about
sequences prove what they need of induction anew, for a set of naturals in place of a predicate: such a
set that is not empty has a least element (`LeastOf`, from `WFMin` of the library), so a set that has
the first number and with each the next has them all (`NatInduct`, `IntervalInduct`). That a recursive
function exists and is what its definition says comes from it (`FoldExists`).

Only model-checked: liveness (`EveryRequestAnswered`, `ShutdownExits`, `RunIsEnded`, `DrainsInTheEnd`,
`EndArrives`, `PlanShown`, `PhaseShown`, `HungMountEnds`, `ReachableInTheEnd`), which the prover does not
treat under fairness. Every safety property of a run that passes is a theorem.

## 5. What was found

1. **A local run's mismatch does not end the daemon** (`run_slot_mismatch`). README: "The daemon
   exits **2** when the farm answers `409` to a claim or a heartbeat". A 409 to the heartbeat of a
   run `rxd` started is logged (`src/agent.rs:565`) and nothing else; the daemon exits only when its
   own next claim is answered 409.
2. **The reader of the terminal can outlive its run** (`run_life_reader`). A cancel that drops
   `finish()` while `drain_output()` waits also drops the reader's `JoinHandle`, which was taken out
   of the job (`src/job.rs:529`): the task is detached and not aborted, and the comment at
   `src/job.rs:523` says what follows - it outlives the run while a helper holds the terminal.
3. **A terminal attached to the end may not be told it** (`log_follow_exit`). README: "Staying attached
   to the end exits 0 for `done` and 1 for `error`." When the daemon was told to shut down, `Agent::run`
   returns as soon as the drained run's slot is free and `main` returns with it
   (`src/bin/ralphex-macos-runner.rs:150`); a handler that still has lines or the end to send dies with
   the runtime. `rxd` then says that the daemon closed the connection and exits 1 for a run that is
   done.
4. **An install does not see a run that is drained** (`daemon_socket_install`). README: "`rxd install`
   refuses while a run is in progress". A daemon that was told to shut down drops its listener first
   (`src/ipc.rs:284`) and drains its run for up to `drain_timeout` after; `install()` finds nobody at
   the path, takes the daemon for absent and boots it out, and that second signal stops the run.

Smaller things the models show:

- A cancel queued when the exit won is received while the run is finished and completes it as
  `canceled` though ralphex had exited. The second `close()` of an interrupted run returns at once, so
  the completion may be reported while the flusher still sends. A completion whose answer was lost is
  retried and answered 410, so the daemon logs that the farm forgot a run it recorded itself
  (`EndAgrees` allows exactly that).
- A line of exactly the cap followed by `\r\n` adds an empty line to the history (`HistoryAsWritten` says
  it of lines without `\r`). An escape sequence that is cut at the cap leaves its tail in the farm's copy,
  since `plain()` starts anew with each piece; `Terminal` and `Ansi` are checked apart for that reason.
- `exit_timeout` covers a claim or a mint that is under way, and the second failed snapshot of an
  interrupted run, only because other waits of its sum do not occur on those ways (`SlackAssumption`).
  Reading the description has no timeout of its own and is not in the sum.
- What is pushed is what is checked out when git is asked, not what ralphex left, as the comment of
  `checked_out()` has it (`src/pr.rs:227`). Between ralphex's exit and that question (`src/agent.rs:1319`)
  the daemon awaits the plan watcher, the output, the log's close and the `pr` snapshot; what somebody
  checks out meanwhile - the default branch, say - is pushed and reported, with a warning in the log at
  most. `PushesWhatWasMade` excuses exactly that (`moved`).
- Pull requests: the advice of `branch.rs:69` to push the default branch leads to a pull request of
  that branch into itself when a feature branch was pushed first and the checkout has no `origin/HEAD`,
  since `resolve_base` then takes GitHub's default (`"into itself"`). A job of the farm finds its base
  missing only after its push, where `origin/HEAD` outlived a repository that was made anew (`"no base"`). A job of the farm on a detached
  HEAD pushes the branch it was opened with, perhaps without the run's commits, and is reported done;
  `DoneIsPublished` leaves out runs whose branch is not the one they committed to. A pull request that
  is merged between its lookup and the push is reported though the run's commits are not in it
  (`overtaken`). `rxd --branch main`, or a plan called `main.md`, on the default branch pushes that
  branch.

## 6. What is not modelled

- Reading the configuration, paths, the plist, argument parsing and printing: sequential, without
  state that another task sees.
- A post of the timeline that was given up with its request on the wire may reach the farm after a
  later one; nothing in the repository orders the two, and `Timeline` ends where a request is sent.
- A second daemon started by hand beside launchd's: it shares the staging directory, and a draining
  daemon removes the file at its exit. `DaemonSocket` has one process at a time, so its invariant says
  nothing of what `unoccupied()` is for: without that check it would hold as well.
- A checkout that the user moves while ralphex itself is at work in it, or several branches a run commits
  to: what ralphex does then is its own affair. In `PullRequest` it works in one step.
- Of `prdesc.rs`: the creation of the output directory and the escaping of titles in Markdown. Of
  `job.rs`: what exactly the inspection finds wrong with a checkout, and the pty's settings. Of
  `protocol/`: building requests, serialization, and the comparison of addresses.
- HTTP, TLS, serde, git and gh themselves: external, present as the outcomes the code distinguishes.
- Wall-clock time outside `ShutdownBudget`: a deadline may pass at any time.
- Rate, back-pressure and memory other than the caps above.

## 7. The plan

1. A second daemon started by hand in `DaemonSocket`.
2. `RunSlot` and `RunLife` composed in one specification at a small size: today `EndsAgree` is the only
   thing the one assumes of the other.
