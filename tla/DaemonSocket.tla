----------------------------- MODULE DaemonSocket -----------------------------
(***************************************************************************)
(* The daemon as launchd and rxd see it: a process that starts, takes the  *)
(* client socket over, serves it, and leaves; and the installer that asks  *)
(* it for a run, replaces its binary and hands the agent to launchd anew   *)
(* (serve, bind and unoccupied of src/ipc.rs, serve of                     *)
(* src/bin/ralphex-macos-runner.rs, src/service.rs).                       *)
(*                                                                         *)
(* launchd is external: it runs one process of the label at a time and     *)
(* starts another when that one ended.  A daemon started by hand beside it *)
(* is left out, and so is more than one installer at a time.               *)
(***************************************************************************)
EXTENDS Integers

CONSTANTS
  Starts,    \* bounds the processes launchd starts
  Installs   \* bounds the installations and removals

ASSUME BoundsAssumption == Starts \in Nat /\ Installs \in Nat

VARIABLES
  label,     \* whether launchd holds the agent
  binary,    \* which installation's binary is at the stable path, or -1
  life,      \* where the process is
  version,   \* the binary it runs
  shut,      \* the shutdown it was told of
  run,       \* whether it has a run in flight
  listener,  \* where its socket task is
  path,      \* the file at the socket's path
  staging,   \* whether the staging directory exists
  disk,      \* whether a socket can be put at the path: it fits into an address,
             \* and its directory is there or can be made, and takes what is written
  inst,      \* where the installer is
  forced,    \* whether it was told --force
  starts,    \* how many processes were started
  installs   \* how many installations and removals were begun

launchdVars == <<label, starts>>
daemonVars == <<life, version, shut, run, listener>>
fileVars == <<path, staging, disk>>
installVars == <<inst, forced, installs>>
vars == <<launchdVars, binary, daemonVars, fileVars, installVars>>

TypeOK ==
  /\ label \in {"absent", "loaded", "leaving"}
  /\ binary \in -1..Installs
  /\ life \in {"none", "starting", "up", "left", "removed"}
  /\ version \in 0..Installs
  /\ shut \in {"Running", "Draining", "Stopping"}
  /\ run \in BOOLEAN
  /\ listener \in {"none", "binding", "staged", "listening", "failed", "dropped", "over"}
  /\ path \in {"absent", "stale", "live"}
  /\ staging \in BOOLEAN /\ disk \in BOOLEAN
  /\ inst \in {"idle", "asked", "removed", "placed", "waiting", "ready", "done", "refused"}
  /\ forced \in BOOLEAN
  /\ starts \in 0..Starts /\ installs \in 0..Installs

\* A machine on which the agent was installed, or not yet.  A path that is too
\* long, or a directory without permission, is so from the beginning.
Init ==
  /\ label \in {"absent", "loaded"}
  /\ binary = IF label = "loaded" THEN 0 ELSE -1
  /\ life = "none" /\ version = 0 /\ shut = "Running" /\ run = FALSE /\ listener = "none"
  /\ path \in {"absent", "stale"} /\ staging \in BOOLEAN /\ disk \in BOOLEAN
  /\ inst = "idle" /\ forced = FALSE
  /\ starts = 0 /\ installs = 0

Alive == life # "none"

-----------------------------------------------------------------------------
(* launchd.                                                                *)

Spawn ==
  /\ label = "loaded" /\ ~Alive /\ binary >= 0 /\ starts < Starts
  /\ starts' = starts + 1
  /\ life' = "starting" /\ version' = binary
  /\ shut' = "Running" /\ run' = FALSE /\ listener' = "none"
  /\ UNCHANGED <<label, binary, fileVars, installVars>>

\* The label goes once the process it was booted out with has ended.
DropLabel ==
  /\ label = "leaving" /\ ~Alive
  /\ label' = "absent"
  /\ UNCHANGED <<starts, binary, daemonVars, fileVars, installVars>>

\* A second signal cuts the drain short.
Signalled == shut' = IF shut = "Running" THEN "Draining" ELSE "Stopping"

-----------------------------------------------------------------------------
(* The process.                                                            *)

\* What becomes of the socket when nobody listens on it any more.
Deserted == IF path = "live" THEN "stale" ELSE path

Ended ==
  /\ life' = "none" /\ listener' = "none" /\ run' = FALSE
  /\ path' = Deserted
  /\ UNCHANGED <<version, shut, staging, disk>>

\* main: a path somebody answers on is not taken; then the socket's task and
\* the agent start.
Unoccupied ==
  /\ life = "starting"
  /\ IF path = "live"
     THEN Ended
     ELSE /\ life' = "up" /\ listener' = "binding"
          /\ UNCHANGED <<version, shut, run, fileVars>>
  /\ UNCHANGED <<launchdVars, binary, installVars>>

\* The claim loop or a local request publishes a run, and leave() takes it back.
TakeRun ==
  /\ life = "up" /\ shut = "Running" /\ ~run
  /\ run' = TRUE
  /\ UNCHANGED <<launchdVars, binary, life, version, shut, listener, fileVars, installVars>>

RunEnds ==
  /\ run
  /\ run' = FALSE
  /\ UNCHANGED <<launchdVars, binary, life, version, shut, listener, fileVars, installVars>>

\* An operator's SIGTERM.
Signal ==
  /\ life = "up" /\ shut # "Stopping"
  /\ Signalled
  /\ UNCHANGED <<launchdVars, binary, life, version, run, listener, fileVars, installVars>>

\* Agent::run returns: after a shutdown, or because of a mismatch.
Returns ==
  /\ life = "up" /\ ~run
  /\ life' = "left"
  /\ UNCHANGED <<launchdVars, binary, version, shut, run, listener, fileVars, installVars>>

\* main aborts the socket's task, which does not interrupt a bind, and removes
\* the file.
Remove ==
  /\ life = "left"
  /\ life' = "removed"
  /\ path' = "absent"
  /\ listener' = IF listener = "listening" THEN "over" ELSE listener
  /\ UNCHANGED <<launchdVars, binary, version, shut, run, staging, disk, installVars>>

ProcessEnds ==
  /\ life = "removed"
  /\ Ended
  /\ UNCHANGED <<launchdVars, binary, installVars>>

\* The process is killed, or a start-up step of main fails.
Crash ==
  /\ Alive
  /\ Ended
  /\ UNCHANGED <<launchdVars, binary, installVars>>

-----------------------------------------------------------------------------
(* The socket's task: bind() and serve().                                  *)

DiskFails ==
  /\ disk /\ disk' = FALSE
  /\ UNCHANGED <<launchdVars, binary, daemonVars, path, staging, installVars>>

\* Mutant: a staging directory that was left behind is in the way.
StageOver ==
  /\ Alive /\ listener = "binding"
  /\ listener' = IF disk /\ path # "live" /\ ~staging THEN "staged" ELSE "failed"
  /\ staging' = (staging \/ listener' = "staged")
  /\ UNCHANGED <<launchdVars, binary, life, version, shut, run, path, disk, installVars>>

\* The path is asked once more, what an earlier process staged is removed, and
\* the socket bound in a new directory of its own.  A path that is too long is
\* refused before anything is touched, any other step that fails cleans up.
Stage ==
  /\ Alive /\ listener = "binding"
  /\ \/ /\ path = "live"
        /\ listener' = "failed" /\ UNCHANGED staging
     \/ /\ path # "live" /\ disk
        /\ listener' = "staged" /\ staging' = TRUE
     \/ /\ path # "live" /\ ~disk
        /\ listener' = "failed" /\ staging' \in {FALSE, staging}
  /\ UNCHANGED <<launchdVars, binary, life, version, shut, run, path, disk, installVars>>

\* Mutant: a rename that fails is not noticed.
PublishBlind ==
  /\ Alive /\ listener = "staged"
  /\ staging' = FALSE
  /\ path' = IF disk THEN "live" ELSE path
  /\ listener' = "listening"
  /\ UNCHANGED <<launchdVars, binary, life, version, shut, run, disk, installVars>>

\* The staged socket is renamed onto the path, over a stale file.
Publish ==
  /\ Alive /\ listener = "staged"
  /\ staging' = FALSE
  /\ IF disk
     THEN path' = "live" /\ listener' = "listening"
     ELSE listener' = "failed" /\ UNCHANGED path
  /\ UNCHANGED <<launchdVars, binary, life, version, shut, run, disk, installVars>>

\* The listener is dropped as soon as a shutdown is raised, and the file
\* removed after it.
StopListening ==
  /\ life = "up" /\ listener = "listening" /\ shut # "Running"
  /\ listener' = "dropped"
  /\ path' = Deserted
  /\ UNCHANGED <<launchdVars, binary, life, version, shut, run, staging, disk, installVars>>

RemoveSocket ==
  /\ Alive /\ listener = "dropped"
  /\ listener' = "over"
  /\ path' = "absent"
  /\ UNCHANGED <<launchdVars, binary, life, version, shut, run, staging, disk, installVars>>

-----------------------------------------------------------------------------
(* rxd install and rxd uninstall.                                          *)

\* A daemon that answers with a run, or that does not answer clearly, refuses
\* an install that is not forced; no answer does not.
Refused(force) == ~force /\ path = "live"

Ask ==
  /\ inst \in {"idle", "done"} /\ installs < Installs
  /\ \E force \in BOOLEAN :
       /\ forced' = force
       /\ \/ inst' = "asked" /\ ~(Refused(force) /\ run)
          \/ inst' = "idle" /\ Refused(force)
  /\ installs' = installs + 1
  /\ UNCHANGED <<launchdVars, binary, daemonVars, fileVars>>

\* place_daemon: the old binary is unlinked, the new one copied.
RemoveBinary ==
  /\ inst = "asked"
  /\ binary' = -1
  /\ inst' = "removed"
  /\ UNCHANGED <<launchdVars, daemonVars, fileVars, forced, installs>>

CopyBinary ==
  /\ inst = "removed"
  /\ binary' = installs
  /\ inst' = "placed"
  /\ UNCHANGED <<launchdVars, daemonVars, fileVars, forced, installs>>

\* bootout: whether there is an agent to boot out is not looked at.  A process
\* that does not listen for signals yet is ended by the one it gets.
Bootout ==
  /\ label' = IF label = "loaded" THEN "leaving" ELSE label
  /\ CASE label = "loaded" /\ life = "starting" -> Ended
       [] label = "loaded" /\ life \notin {"none", "starting"} ->
            Signalled /\ UNCHANGED <<life, version, run, listener, fileVars>>
       [] OTHER -> UNCHANGED <<daemonVars, fileVars>>
  /\ UNCHANGED <<starts, binary>>

BootOutOld ==
  /\ inst = "placed"
  /\ Bootout
  /\ inst' = "waiting"
  /\ UNCHANGED <<forced, installs>>

\* Mutant: the old agent is not waited for.
UnregisteredAtOnce ==
  /\ inst = "waiting"
  /\ inst' = "ready"
  /\ UNCHANGED <<launchdVars, binary, daemonVars, fileVars, forced, installs>>

Unregistered ==
  /\ inst = "waiting" /\ label = "absent"
  /\ inst' = "ready"
  /\ UNCHANGED <<launchdVars, binary, daemonVars, fileVars, forced, installs>>

\* launchd refuses a label it still holds.
Bootstrap ==
  /\ inst = "ready"
  /\ IF label = "absent"
     THEN label' = "loaded" /\ inst' = "done"
     ELSE inst' = "refused" /\ UNCHANGED label
  /\ UNCHANGED <<starts, binary, daemonVars, fileVars, forced, installs>>

\* A file that cannot be written, a configuration that cannot be read, a wait
\* that was too long, or a step of launchctl: the install ends where it is.
InstallFails ==
  /\ inst \in {"asked", "removed", "placed", "waiting", "ready"}
  /\ inst' = "idle"
  /\ UNCHANGED <<launchdVars, binary, daemonVars, fileVars, forced, installs>>

Uninstall ==
  /\ inst \in {"idle", "done"} /\ installs < Installs
  /\ Bootout
  /\ inst' = "idle"
  /\ installs' = installs + 1
  /\ UNCHANGED forced

-----------------------------------------------------------------------------
Socket == Stage \/ Publish \/ StopListening \/ RemoveSocket

\* Nothing has to happen on a machine: an agent that is not loaded, a daemon
\* nobody signals, or a bound that is reached.
Idle == UNCHANGED vars

Next ==
  \/ Spawn \/ DropLabel
  \/ Unoccupied \/ TakeRun \/ RunEnds \/ Signal \/ Returns \/ Remove \/ ProcessEnds \/ Crash
  \/ DiskFails \/ Socket
  \/ Ask \/ RemoveBinary \/ CopyBinary \/ BootOutOld \/ Unregistered \/ Bootstrap \/ InstallFails
  \/ Uninstall
  \/ Idle

Spec == Init /\ [][Next]_vars

(* main and the socket's task are not held up.                             *)
Fairness == WF_vars(Unoccupied) /\ WF_vars(Socket)

FairSpec == Spec /\ Fairness

-----------------------------------------------------------------------------
(* Properties.                                                             *)

\* A client that connects finds the daemon that listens, as long as that one
\* was not told to leave: neither an earlier process nor its own start-up and
\* end leave it listening on a file that is not at the path.
ListenerIsAtPath ==
  /\ path = "live" => Alive /\ listener = "listening"
  /\ life = "up" /\ listener = "listening" => path = "live"

IInv == TypeOK /\ ListenerIsAtPath

\* An install that goes through replaced the daemon, whatever was restarted,
\* crashed or drained in between, and launchd never refuses it for the label
\* of the old agent.
InstallTakes ==
  /\ inst # "refused"
  /\ inst = "done" =>
       /\ label = "loaded" /\ binary >= 0
       /\ Alive => version = binary

\* A daemon that is up comes to answer at the path, over whatever an earlier
\* one left there, unless it is leaving or nothing can be put there.
ReachableInTheEnd ==
  life = "up" ~> (path = "live" \/ life # "up" \/ shut # "Running" \/ ~disk)

\* README: rxd install refuses while a run is in progress, here one of a daemon
\* whose socket has been up.
RefusesWhileRunning ==
  [][(/\ inst # "asked" /\ inst' = "asked" /\ ~forced'
      /\ listener \in {"listening", "dropped", "over"}) => ~run]_vars
=============================================================================
