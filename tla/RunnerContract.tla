---------------------------- MODULE RunnerContract ----------------------------
(***************************************************************************)
(* What the daemon promises the farm about runs, whichever of its two      *)
(* entry points they came through: it answers for at most one run at a     *)
(* time, starts a run at most once, ends every run it took, and leaves     *)
(* only when it answers for none.                                          *)
(***************************************************************************)
CONSTANT Runs

VARIABLES
  phase,   \* how far the daemon has got with each run
  open     \* whether the daemon may still take a run

Phases == {"unknown", "taken", "started", "ended"}

TypeOK == phase \in [Runs -> Phases] /\ open \in BOOLEAN

Unanswered == {r \in Runs : phase[r] \in {"taken", "started"}}

Init == phase = [r \in Runs |-> "unknown"] /\ open = TRUE

\* A run is taken from the farm when the daemon answers for no other.
Take(r) ==
  /\ open
  /\ phase[r] = "unknown"
  /\ Unanswered = {}
  /\ phase' = [phase EXCEPT ![r] = "taken"]
  /\ UNCHANGED open

Begin(r) ==
  /\ phase[r] = "taken"
  /\ phase' = [phase EXCEPT ![r] = "started"]
  /\ UNCHANGED open

\* A run ends after it was executed, or without having been started.
End(r) ==
  /\ phase[r] \in {"taken", "started"}
  /\ phase' = [phase EXCEPT ![r] = "ended"]
  /\ UNCHANGED open

Close ==
  /\ open
  /\ Unanswered = {}
  /\ open' = FALSE
  /\ UNCHANGED phase

Next == Close \/ \E r \in Runs : Take(r) \/ Begin(r) \/ End(r)

Spec == Init /\ [][Next]_<<phase, open>>

\* The daemon answers for one run at a time: two ralphex processes in one
\* checkout would write over each other.
OneAtATime == \A r, s \in Unanswered : r = s
=============================================================================
