------------------------------- MODULE RunEnds -------------------------------
(***************************************************************************)
(* How the daemon says a run ended (enum RunEnd of src/agent.rs) and what  *)
(* the farm's record of the run can be when it says so.  RunSlot assumes   *)
(* it of every run; RunLife shows that a run keeps it.                     *)
(***************************************************************************)

RunEnds == {"Reported", "Unreported", "Forgotten", "Dropped", "VersionMismatch"}

\* Still leased, completed by this daemon, or finalized by the farm itself.
Records == {"leased", "recorded", "finalized"}

\* A run is Reported once the farm holds its completion.  Forgotten is the
\* farm's 410 to a completion: it finalized the run, or recorded an earlier
\* attempt whose answer was lost.  Dropped is the 410 to a heartbeat, and a
\* mismatch sends no completion.
Agrees(end, record) ==
  /\ end = "Reported" => record = "recorded"
  /\ end = "Forgotten" => record # "leased"
  /\ end = "Dropped" => record = "finalized"
  /\ end = "VersionMismatch" => record # "recorded"
=============================================================================
