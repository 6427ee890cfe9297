--------------------------- MODULE ShutdownBudget ---------------------------
(* The time a daemon takes to go, against the ExitTimeOut its launchd agent was
   installed with (exit_timeout and exit_timeout_drift of service.rs): every wait
   of agent.rs, job.rs, pr.rs and client.rs between a signal and the exit, each
   with the bound the code gives it.

   Waits are taken one after the other, each for any time up to its bound.  A
   signal may come during any of them; what is left of that wait is again a time
   up to its bound, so time is counted from the signal on.  The waits that are
   not on the daemon's way out - heartbeats, the flusher's requests - are left
   out: they are aborted with the run or within LOG_CLOSE_TIMEOUT. *)
EXTENDS Naturals

CONSTANTS
  CLAIM_TIMEOUT, VALIDATE_TIMEOUT, REQUEST_TIMEOUT, WATCH_START_TIMEOUT,
  STOP_GRACE, LOG_CLOSE_TIMEOUT, PROGRESS_POST_TIMEOUT, PR_STEP_TIMEOUT,
  COMPLETE_BUDGET, RETRY_MAX_DELAY, OUTPUT_REMOVE_TIMEOUT,
  DrainTimeouts  \* the values of drain_timeout the configuration may have

ASSUME TimesAssumption ==
  /\ CLAIM_TIMEOUT \in Nat /\ VALIDATE_TIMEOUT \in Nat /\ REQUEST_TIMEOUT \in Nat
  /\ WATCH_START_TIMEOUT \in Nat /\ STOP_GRACE \in Nat /\ LOG_CLOSE_TIMEOUT \in Nat
  /\ PROGRESS_POST_TIMEOUT \in Nat /\ PR_STEP_TIMEOUT \in Nat
  /\ COMPLETE_BUDGET \in Nat /\ RETRY_MAX_DELAY \in Nat /\ OUTPUT_REMOVE_TIMEOUT \in Nat
  /\ DrainTimeouts \subseteq Nat

PR_BUDGET == 6 * PR_STEP_TIMEOUT

\* What the sum of exit_timeout relies on without saying so: a claim or a mint is
\* no longer than the pull request it comes instead of (55 s and 30 s against
\* 720 s), and a snapshot no longer than the grace of a stop (10 s each), because
\* the failure of an interrupted run is posted twice, while a run that exited by
\* itself leaves one of the two graces unused.
ASSUME SlackAssumption ==
  /\ CLAIM_TIMEOUT <= PR_BUDGET
  /\ REQUEST_TIMEOUT <= PR_BUDGET
  /\ PROGRESS_POST_TIMEOUT <= STOP_GRACE

VARIABLES
  drain,      \* the drain_timeout the daemon was started with
  installed,  \* the ExitTimeOut of the agent's property list
  at,         \* where the holder of the slot waits
  ended,      \* how the run ended: by a terminal event, or by its exit
  signalled,  \* a shutdown was raised
  now,        \* the time since
  drainAt,    \* when the drain timer fires
  elapsed     \* since the inspection or the completion that is on began

budgetVars == <<drain, installed, at, ended, signalled, now, drainAt, elapsed>>

\* Mutant: the inspection of the checkout is left out of the sum.
ExitTimeoutShort(drain_timeout) ==
  WATCH_START_TIMEOUT + drain_timeout + STOP_GRACE + STOP_GRACE
  + LOG_CLOSE_TIMEOUT + PR_BUDGET
  + PROGRESS_POST_TIMEOUT + PROGRESS_POST_TIMEOUT + PROGRESS_POST_TIMEOUT
  + COMPLETE_BUDGET + RETRY_MAX_DELAY + REQUEST_TIMEOUT + OUTPUT_REMOVE_TIMEOUT

ExitTimeout(drain_timeout) ==
  VALIDATE_TIMEOUT + WATCH_START_TIMEOUT + drain_timeout + STOP_GRACE + STOP_GRACE
  + LOG_CLOSE_TIMEOUT + PR_BUDGET
  + PROGRESS_POST_TIMEOUT + PROGRESS_POST_TIMEOUT + PROGRESS_POST_TIMEOUT
  + COMPLETE_BUDGET + RETRY_MAX_DELAY + REQUEST_TIMEOUT + OUTPUT_REMOVE_TIMEOUT

\* exit_timeout_drift(): the daemon warns at its start.
Drift == installed < ExitTimeout(drain)

-----------------------------------------------------------------------------
(* Time. *)

PrPlaces == {"checked_out", "list", "push_existing", "push", "base", "view", "create"}

\* The longest each wait may take.
Bound(place) ==
  CASE place = "claiming" -> CLAIM_TIMEOUT
    [] place = "titling" -> VALIDATE_TIMEOUT
    [] place = "minting" -> REQUEST_TIMEOUT
    [] place = "watching" -> WATCH_START_TIMEOUT
    [] place = "running" -> IF now < drainAt THEN drainAt - now ELSE 0
    [] place = "stopping" -> IF PROGRESS_POST_TIMEOUT < STOP_GRACE THEN STOP_GRACE
                             ELSE PROGRESS_POST_TIMEOUT
    [] place \in {"unspawned", "opening", "pr", "failing"} -> PROGRESS_POST_TIMEOUT
    [] place = "emptying" -> STOP_GRACE
    [] place = "closing" -> LOG_CLOSE_TIMEOUT
    [] place \in PrPlaces -> PR_STEP_TIMEOUT
    [] place = "removing" -> OUTPUT_REMOVE_TIMEOUT

Take(d) == now' = IF signalled THEN now + d ELSE now

\* A wait that leads to one of the places.
Wait(from, to) ==
  /\ at = from
  /\ \E d \in 0 .. Bound(from) : Take(d)
  /\ at' \in to
  /\ UNCHANGED <<drain, installed, signalled, drainAt>>

\* A wait of the inspection, which has one deadline for all of its waits.
Inspect(from, to) ==
  /\ at = from
  /\ \E d \in 0 .. (VALIDATE_TIMEOUT - elapsed) :
       /\ Take(d)
       /\ at' \in {to, "completing"}
       /\ elapsed' = IF at' = "completing" THEN 0 ELSE elapsed + d
  /\ UNCHANGED <<drain, installed, signalled, drainAt, ended>>

Signal ==
  /\ ~signalled
  /\ signalled' = TRUE
  /\ drainAt' = drain
  /\ UNCHANGED <<drain, installed, at, ended, now, elapsed>>

-----------------------------------------------------------------------------
(* The slot before a run: agent.rs run and start_local.  Nothing that was leased
   after the signal is started. *)

\* claim(): nothing came, or a job.
Claim ==
  /\ Wait("claiming", IF signalled THEN {"gone", "completing"} ELSE {"claiming", "titling", "checkout"})
  /\ elapsed' = 0
  /\ UNCHANGED ended

\* start_local(): the plan's title, and the farm's answer.
Title ==
  Wait("titling", {"minting"}) /\ UNCHANGED <<ended, elapsed>>

Mint ==
  /\ Wait("minting", IF signalled THEN {"gone", "completing"} ELSE {"claiming", "checkout"})
  /\ elapsed' = 0
  /\ UNCHANGED ended

-----------------------------------------------------------------------------
(* execute(): the run. *)

\* inspect() of job.rs: one deadline for the checkout, git and the plan.
Checkout == Inspect("checkout", "rev_parse")

RevParse == Inspect("rev_parse", "plan")

Plan == Inspect("plan", "drain_after")

\* The drain timer is spawned: a signal that came before starts it now.
DrainAfter ==
  /\ at = "drain_after"
  /\ at' = "watching"
  /\ drainAt' = now + drain
  /\ UNCHANGED <<drain, installed, ended, signalled, now, elapsed>>

Watch ==
  Wait("watching", {"running", "unspawned"})
  /\ UNCHANGED <<ended, elapsed>>

\* ralphex could not be spawned: the watcher is stopped, the log closed.
Unspawned ==
  Wait("unspawned", {"closing"})
  /\ ended' = "terminal" /\ UNCHANGED elapsed

\* ended(): the run exits, or a terminal event ends it, the drain timer's at the
\* latest.  Without a signal it may take for ever.
Runs ==
  /\ Wait("running", {"stopping", "opening"})
  /\ ended' = (IF at' = "opening" THEN "exited" ELSE "terminal")
  /\ UNCHANGED elapsed

\* join!(running.stop, watcher.stop)
Stopping ==
  Wait("stopping", {"emptying"}) /\ UNCHANGED <<ended, elapsed>>

\* watcher.stop() waits for the opening snapshot.
Opening ==
  Wait("opening", {"emptying"}) /\ UNCHANGED <<ended, elapsed>>

Emptying ==
  Wait("emptying", {"closing"}) /\ UNCHANGED <<ended, elapsed>>

\* log.close(); then the pull request of a run that exited, if one is asked for, or
\* its failure; a run the farm forgot, or does not speak with, has nothing to report.
Closing ==
  /\ Wait("closing", IF ended = "exited" THEN {"pr", "failing", "completing"}
                     ELSE {"failing", "removing"})
  /\ elapsed' = 0
  /\ UNCHANGED ended

\* settle(): the snapshot of the phase, then the steps of the sequence: the branch
\* that is checked out, the lookup, the push, the base by git, by gh, the creation.
PrPhase ==
  Wait("pr", {"checked_out", "list"}) /\ UNCHANGED <<ended, elapsed>>

PrNext(step) ==
  CASE step = "checked_out" -> {"list"}
    [] step = "list" -> {"push_existing", "push"}
    [] step = "push_existing" -> {"completing"}
    [] step = "push" -> {"base"}
    [] step = "base" -> {"view", "create"}
    [] step = "view" -> {"create"}
    [] step = "create" -> {"completing"}

PrStep ==
  \E step \in PrPlaces :
    /\ Wait(step, PrNext(step) \cup {"failing"})
    /\ elapsed' = 0
    /\ UNCHANGED ended

\* mark_failure()
Failing ==
  Wait("failing", {"completing"}) /\ elapsed' = 0 /\ UNCHANGED ended

\* A cancel, a 410 or a mismatch drops finish() within any of its waits.  The log
\* is closed if it was not: a second close() returns at once.  The failure is
\* posted, whether it was before or not, if there is anything to report.
Interrupt ==
  /\ ended = "exited"
  /\ \E place \in {"emptying", "closing", "pr", "failing"} \cup PrPlaces :
       Wait(place, IF place = "emptying" THEN {"closing"} ELSE {"failing", "removing"})
  /\ ended' = "terminal"
  /\ UNCHANGED elapsed

\* complete(): attempts and backoffs; the budget is looked at in between.
Attempt ==
  /\ at = "completing"
  /\ \E d \in 0 .. REQUEST_TIMEOUT :
       /\ Take(d)
       /\ elapsed' = elapsed + d
       /\ at' \in {"removing"} \cup
                  (IF elapsed + d >= COMPLETE_BUDGET THEN {} ELSE {"backing_off"})
  /\ UNCHANGED <<drain, installed, signalled, drainAt, ended>>

BackOff ==
  /\ at = "backing_off"
  /\ \E d \in 0 .. RETRY_MAX_DELAY : Take(d) /\ elapsed' = elapsed + d
  /\ at' = "completing"
  /\ UNCHANGED <<drain, installed, signalled, drainAt, ended>>

\* remove_output(), which a run that was refused has nothing for; the slot is
\* given back, and a daemon that was signalled goes.
RemoveOutput ==
  /\ Wait("removing", {IF signalled THEN "gone" ELSE "claiming"})
  /\ UNCHANGED <<ended, elapsed>>

Gone == at = "gone" /\ UNCHANGED budgetVars

-----------------------------------------------------------------------------
BudgetInit ==
  /\ drain \in DrainTimeouts
  /\ installed \in {ExitTimeout(d) : d \in DrainTimeouts}
  /\ at = "claiming"
  /\ ended = "terminal"
  /\ signalled = FALSE
  /\ now = 0
  /\ drainAt = 0
  /\ elapsed = 0

BudgetNext ==
  \/ Signal
  \/ Claim \/ Title \/ Mint
  \/ Checkout \/ RevParse \/ Plan
  \/ DrainAfter \/ Watch \/ Unspawned \/ Runs
  \/ Stopping \/ Opening \/ Emptying \/ Closing
  \/ PrPhase \/ PrStep \/ Failing \/ Interrupt
  \/ Attempt \/ BackOff \/ RemoveOutput \/ Gone

BudgetSpec == BudgetInit /\ [][BudgetNext]_budgetVars

-----------------------------------------------------------------------------
(* Properties. *)

\* A daemon that found nothing to warn of at its start is gone before launchd
\* kills it: no way out takes longer than exit_timeout says, whenever the signal
\* came, and an agent installed for a longer drain covers a shorter one.
WithinExitTimeOut == ~Drift => now <= installed

=============================================================================
