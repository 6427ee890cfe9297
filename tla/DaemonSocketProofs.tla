--------------------------- MODULE DaemonSocketProofs ---------------------------
(***************************************************************************)
(* Proofs about DaemonSocket: for any number of processes launchd starts   *)
(* and of installations, the daemon that listens is the one clients find,  *)
(* and an install that goes through has replaced the daemon.               *)
(***************************************************************************)
EXTENDS DaemonSocket, TLAPS

(* What an install relies on, on its way.  launchd holds the label as long *)
(* as the old process lives, so a label that is gone means a process that  *)
(* is gone, and nothing but the install itself takes the label again.      *)
InstallOK ==
  /\ label = "absent" => ~Alive
  /\ inst \in {"placed", "waiting", "ready", "done"} => binary >= 0
  /\ inst = "ready" => label = "absent"
  /\ inst # "refused"
  /\ inst = "done" => label = "loaded" /\ (Alive => version = binary)

Inv == IInv /\ InstallOK

LEMMA InitInv == Init => Inv
<1>. SUFFICES ASSUME Init PROVE Inv
  OBVIOUS
<1>1. TypeOK
  <2>1. binary \in -1..Installs
    BY BoundsAssumption DEF Init
  <2>2. staging \in BOOLEAN /\ disk \in BOOLEAN /\ run \in BOOLEAN /\ forced \in BOOLEAN
    BY DEF Init
  <2>. QED
    BY <2>1, <2>2, BoundsAssumption DEF Init, TypeOK
<1>2. ListenerIsAtPath /\ InstallOK
  BY DEF Init, ListenerIsAtPath, InstallOK, Alive
<1>. QED
  BY <1>1, <1>2 DEF Inv, IInv

(* The end of a process, whatever brought it about.                        *)
LEMMA EndKeeps ==
  ASSUME Inv, Ended, UNCHANGED <<starts, binary>>,
         label' = label \/ (label = "loaded" /\ label' = "leaving"),
         UNCHANGED <<forced>>, inst' \in {"idle", "waiting", inst},
         inst' = "waiting" => inst \in {"placed", "waiting"},
         label' # label => inst' # "done",
         installs' \in 0..Installs
  PROVE  Inv'
<1>1. TypeOK'
  <2>1. path' \in {"absent", "stale", "live"}
    BY DEF Ended, Deserted, Inv, IInv, TypeOK
  <2>. QED
    BY <2>1 DEF Ended, Inv, IInv, TypeOK
<1>2. ListenerIsAtPath'
  BY DEF Ended, Deserted, ListenerIsAtPath
<1>3. InstallOK'
  BY DEF Ended, Alive, Inv, InstallOK
<1>. QED
  BY <1>1, <1>2, <1>3 DEF Inv, IInv

-----------------------------------------------------------------------------
(* launchd and the process.                                                *)

LEMMA LaunchdKeeps == ASSUME Inv, Spawn \/ DropLabel \/ DiskFails PROVE Inv'
<1>. USE DEF launchdVars, daemonVars, fileVars, installVars
<1>1. CASE Spawn
  <2>1. TypeOK'
    <3>1. version' \in 0..Installs /\ starts' \in 0..Starts
      BY <1>1, BoundsAssumption DEF Spawn, Inv, IInv, TypeOK
    <3>2. run' \in BOOLEAN
      BY <1>1 DEF Spawn
    <3>. QED
      BY <1>1, <3>1, <3>2 DEF Spawn, Inv, IInv, TypeOK
  <2>2. ListenerIsAtPath'
    BY <1>1 DEF Spawn, Inv, IInv, TypeOK, ListenerIsAtPath, Alive
  <2>3. InstallOK'
    BY <1>1 DEF Spawn, Inv, IInv, TypeOK, InstallOK, Alive
  <2>. QED
    BY <2>1, <2>2, <2>3 DEF Inv, IInv
<1>2. CASE DropLabel
  <2>1. TypeOK'
    BY <1>2, BoundsAssumption DEF DropLabel, Inv, IInv, TypeOK
  <2>2. ListenerIsAtPath'
    BY <1>2 DEF DropLabel, Inv, IInv, TypeOK, ListenerIsAtPath, Alive
  <2>3. InstallOK'
    BY <1>2 DEF DropLabel, Inv, IInv, TypeOK, InstallOK, Alive
  <2>. QED
    BY <2>1, <2>2, <2>3 DEF Inv, IInv
<1>3. CASE DiskFails
  <2>1. TypeOK'
    <3>1. disk' \in BOOLEAN
      BY <1>3 DEF DiskFails
    <3>. QED
      BY <1>3, <3>1 DEF DiskFails, Inv, IInv, TypeOK
  <2>2. ListenerIsAtPath'
    BY <1>3 DEF DiskFails, Inv, IInv, TypeOK, ListenerIsAtPath, Alive
  <2>3. InstallOK'
    BY <1>3 DEF DiskFails, Inv, IInv, TypeOK, InstallOK, Alive
  <2>. QED
    BY <2>1, <2>2, <2>3 DEF Inv, IInv
<1>. QED
  BY <1>1, <1>2, <1>3

LEMMA UnoccupiedKeeps == ASSUME Inv, Unoccupied PROVE Inv'
<1>. USE DEF launchdVars, daemonVars, fileVars, installVars
<1>1. CASE path = "live"
  <2>1. Ended /\ UNCHANGED <<launchdVars, binary, installVars>>
    BY <1>1 DEF Unoccupied
  <2>2. installs \in 0..Installs /\ inst' \in {"idle", "waiting", inst}
    BY <2>1 DEF Inv, IInv, TypeOK
  <2>. QED
    BY <2>1, <2>2, EndKeeps
<1>2. CASE path # "live"
  <2>1. TypeOK'
    BY <1>2 DEF Unoccupied, Inv, IInv, TypeOK
  <2>2. ListenerIsAtPath'
    BY <1>2 DEF Unoccupied, ListenerIsAtPath
  <2>3. InstallOK'
    BY <1>2 DEF Unoccupied, Inv, InstallOK, Alive
  <2>. QED
    BY <2>1, <2>2, <2>3 DEF Inv, IInv
<1>. QED
  BY <1>1, <1>2

LEMMA ProcessKeeps == ASSUME Inv, TakeRun \/ RunEnds \/ Signal \/ Returns \/ Remove PROVE Inv'
<1>. USE DEF launchdVars, daemonVars, fileVars, installVars
<1>1. CASE TakeRun
  <2>1. TypeOK'
    BY <1>1, BoundsAssumption DEF TakeRun, Inv, IInv, TypeOK
  <2>2. ListenerIsAtPath'
    BY <1>1 DEF TakeRun, Inv, IInv, TypeOK, ListenerIsAtPath, Alive
  <2>3. InstallOK'
    BY <1>1 DEF TakeRun, Inv, IInv, TypeOK, InstallOK, Alive
  <2>. QED
    BY <2>1, <2>2, <2>3 DEF Inv, IInv
<1>2. CASE RunEnds
  <2>1. TypeOK'
    <3>1. run' \in BOOLEAN
      BY <1>2 DEF RunEnds
    <3>. QED
      BY <1>2, <3>1 DEF RunEnds, Inv, IInv, TypeOK
  <2>2. ListenerIsAtPath'
    BY <1>2 DEF RunEnds, Inv, IInv, TypeOK, ListenerIsAtPath, Alive
  <2>3. InstallOK'
    BY <1>2 DEF RunEnds, Inv, IInv, TypeOK, InstallOK, Alive
  <2>. QED
    BY <2>1, <2>2, <2>3 DEF Inv, IInv
<1>3. CASE Signal
  <2>1. TypeOK'
    BY <1>3, BoundsAssumption DEF Signal, Signalled, Inv, IInv, TypeOK
  <2>2. ListenerIsAtPath'
    BY <1>3 DEF Signal, Signalled, Inv, IInv, TypeOK, ListenerIsAtPath, Alive
  <2>3. InstallOK'
    BY <1>3 DEF Signal, Signalled, Inv, IInv, TypeOK, InstallOK, Alive
  <2>. QED
    BY <2>1, <2>2, <2>3 DEF Inv, IInv
<1>4. CASE Returns
  <2>1. TypeOK'
    BY <1>4, BoundsAssumption DEF Returns, Inv, IInv, TypeOK
  <2>2. ListenerIsAtPath'
    BY <1>4 DEF Returns, Inv, IInv, TypeOK, ListenerIsAtPath, Alive
  <2>3. InstallOK'
    BY <1>4 DEF Returns, Inv, IInv, TypeOK, InstallOK, Alive
  <2>. QED
    BY <2>1, <2>2, <2>3 DEF Inv, IInv
<1>5. CASE Remove
  <2>1. TypeOK'
    BY <1>5, BoundsAssumption DEF Remove, Inv, IInv, TypeOK
  <2>2. ListenerIsAtPath'
    BY <1>5 DEF Remove, Inv, IInv, TypeOK, ListenerIsAtPath, Alive
  <2>3. InstallOK'
    BY <1>5 DEF Remove, Inv, IInv, TypeOK, InstallOK, Alive
  <2>. QED
    BY <2>1, <2>2, <2>3 DEF Inv, IInv
<1>. QED
  BY <1>1, <1>2, <1>3, <1>4, <1>5

LEMMA ExitKeeps == ASSUME Inv, ProcessEnds \/ Crash PROVE Inv'
<1>1. Ended /\ UNCHANGED <<launchdVars, binary, installVars>>
  BY DEF ProcessEnds, Crash
<1>2. UNCHANGED <<label, starts, binary, inst, forced, installs>>
  BY <1>1 DEF launchdVars, installVars
<1>3. installs' \in 0..Installs
  BY <1>2 DEF Inv, IInv, TypeOK
<1>. QED
  BY <1>1, <1>2, <1>3, EndKeeps

-----------------------------------------------------------------------------
(* The socket's task.                                                      *)

LEMMA SocketKeeps == ASSUME Inv, Stage \/ Publish \/ StopListening \/ RemoveSocket PROVE Inv'
<1>. USE DEF launchdVars, daemonVars, fileVars, installVars
<1>1. CASE Stage
  <2>1. TypeOK'
    <3>1. staging' \in BOOLEAN /\ listener' \in {"staged", "failed"}
      BY <1>1 DEF Stage, Inv, IInv, TypeOK
    <3>. QED
      BY <1>1, <3>1 DEF Stage, Inv, IInv, TypeOK
  <2>2. ListenerIsAtPath'
    BY <1>1 DEF Stage, Inv, IInv, TypeOK, ListenerIsAtPath, Alive
  <2>3. InstallOK'
    BY <1>1 DEF Stage, Inv, IInv, TypeOK, InstallOK, Alive
  <2>. QED
    BY <2>1, <2>2, <2>3 DEF Inv, IInv
<1>2. CASE Publish
  <2>1. TypeOK'
    <3>1. /\ staging' \in BOOLEAN /\ path' \in {"absent", "stale", "live"}
          /\ listener' \in {"listening", "failed"}
      BY <1>2 DEF Publish, Inv, IInv, TypeOK
    <3>. QED
      BY <1>2, <3>1 DEF Publish, Inv, IInv, TypeOK
  <2>2. ListenerIsAtPath'
    BY <1>2 DEF Publish, Inv, IInv, TypeOK, ListenerIsAtPath, Alive
  <2>3. InstallOK'
    BY <1>2 DEF Publish, Inv, IInv, TypeOK, InstallOK, Alive
  <2>. QED
    BY <2>1, <2>2, <2>3 DEF Inv, IInv
<1>3. CASE StopListening
  <2>1. TypeOK'
    BY <1>3, BoundsAssumption DEF StopListening, Deserted, Inv, IInv, TypeOK
  <2>2. ListenerIsAtPath'
    BY <1>3 DEF StopListening, Deserted, Inv, IInv, TypeOK, ListenerIsAtPath, Alive
  <2>3. InstallOK'
    BY <1>3 DEF StopListening, Deserted, Inv, IInv, TypeOK, InstallOK, Alive
  <2>. QED
    BY <2>1, <2>2, <2>3 DEF Inv, IInv
<1>4. CASE RemoveSocket
  <2>1. TypeOK'
    BY <1>4, BoundsAssumption DEF RemoveSocket, Inv, IInv, TypeOK
  <2>2. ListenerIsAtPath'
    BY <1>4 DEF RemoveSocket, Inv, IInv, TypeOK, ListenerIsAtPath, Alive
  <2>3. InstallOK'
    BY <1>4 DEF RemoveSocket, Inv, IInv, TypeOK, InstallOK, Alive
  <2>. QED
    BY <2>1, <2>2, <2>3 DEF Inv, IInv
<1>. QED
  BY <1>1, <1>2, <1>3, <1>4

-----------------------------------------------------------------------------
(* rxd install and rxd uninstall.                                          *)

LEMMA InstallKeeps == ASSUME Inv, Ask \/ RemoveBinary \/ CopyBinary \/ Unregistered \/ Bootstrap \/ InstallFails PROVE Inv'
<1>. USE DEF launchdVars, daemonVars, fileVars, installVars
<1>1. CASE Ask
  <2>1. TypeOK'
    BY <1>1, BoundsAssumption DEF Ask, Inv, IInv, TypeOK
  <2>2. ListenerIsAtPath'
    BY <1>1 DEF Ask, Inv, IInv, TypeOK, ListenerIsAtPath, Alive
  <2>3. InstallOK'
    BY <1>1 DEF Ask, Inv, IInv, TypeOK, InstallOK, Alive
  <2>. QED
    BY <2>1, <2>2, <2>3 DEF Inv, IInv
<1>2. CASE RemoveBinary
  <2>1. TypeOK'
    BY <1>2, BoundsAssumption DEF RemoveBinary, Inv, IInv, TypeOK
  <2>2. ListenerIsAtPath'
    BY <1>2 DEF RemoveBinary, Inv, IInv, TypeOK, ListenerIsAtPath, Alive
  <2>3. InstallOK'
    BY <1>2 DEF RemoveBinary, Inv, IInv, TypeOK, InstallOK, Alive
  <2>. QED
    BY <2>1, <2>2, <2>3 DEF Inv, IInv
<1>3. CASE CopyBinary
  <2>1. TypeOK'
    BY <1>3, BoundsAssumption DEF CopyBinary, Inv, IInv, TypeOK
  <2>2. ListenerIsAtPath'
    BY <1>3 DEF CopyBinary, Inv, IInv, TypeOK, ListenerIsAtPath, Alive
  <2>3. InstallOK'
    BY <1>3 DEF CopyBinary, Inv, IInv, TypeOK, InstallOK, Alive
  <2>. QED
    BY <2>1, <2>2, <2>3 DEF Inv, IInv
<1>4. CASE Unregistered
  <2>1. TypeOK'
    BY <1>4, BoundsAssumption DEF Unregistered, Inv, IInv, TypeOK
  <2>2. ListenerIsAtPath'
    BY <1>4 DEF Unregistered, Inv, IInv, TypeOK, ListenerIsAtPath, Alive
  <2>3. InstallOK'
    BY <1>4 DEF Unregistered, Inv, IInv, TypeOK, InstallOK, Alive
  <2>. QED
    BY <2>1, <2>2, <2>3 DEF Inv, IInv
<1>5. CASE Bootstrap
  <2>1. TypeOK'
    BY <1>5, BoundsAssumption DEF Bootstrap, Inv, IInv, TypeOK
  <2>2. ListenerIsAtPath'
    BY <1>5 DEF Bootstrap, Inv, IInv, TypeOK, ListenerIsAtPath, Alive
  <2>3. InstallOK'
    BY <1>5 DEF Bootstrap, Inv, IInv, TypeOK, InstallOK, Alive
  <2>. QED
    BY <2>1, <2>2, <2>3 DEF Inv, IInv
<1>6. CASE InstallFails
  <2>1. TypeOK'
    BY <1>6, BoundsAssumption DEF InstallFails, Inv, IInv, TypeOK
  <2>2. ListenerIsAtPath'
    BY <1>6 DEF InstallFails, Inv, IInv, TypeOK, ListenerIsAtPath, Alive
  <2>3. InstallOK'
    BY <1>6 DEF InstallFails, Inv, IInv, TypeOK, InstallOK, Alive
  <2>. QED
    BY <2>1, <2>2, <2>3 DEF Inv, IInv
<1>. QED
  BY <1>1, <1>2, <1>3, <1>4, <1>5, <1>6

(* The signal of a bootout, to a process that listens for it or that does  *)
(* not yet.                                                                *)
LEMMA BootoutKeeps ==
  ASSUME Inv, Bootout, installs' \in 0..Installs, forced' = forced,
         \/ inst = "placed" /\ inst' = "waiting"
         \/ inst \in {"idle", "done"} /\ inst' = "idle"
  PROVE  Inv'
<1>. USE DEF launchdVars, daemonVars, fileVars, installVars
<1>1. /\ label' = IF label = "loaded" THEN "leaving" ELSE label
      /\ UNCHANGED <<starts, binary>>
  BY DEF Bootout
<1>2. CASE label = "loaded" /\ life = "starting"
  <2>1. Ended
    BY <1>2 DEF Bootout
  <2>. QED
    BY <1>1, <1>2, <2>1, EndKeeps
<1>3. CASE label = "loaded" /\ life \notin {"none", "starting"}
  <2>1. Signalled /\ UNCHANGED <<life, version, run, listener, fileVars>>
    BY <1>3 DEF Bootout
  <2>2. TypeOK'
    BY <1>1, <2>1 DEF Signalled, Inv, IInv, TypeOK
  <2>3. ListenerIsAtPath' /\ InstallOK'
    BY <1>1, <1>3, <2>1 DEF Inv, IInv, ListenerIsAtPath, InstallOK, Alive
  <2>. QED
    BY <2>2, <2>3 DEF Inv, IInv
<1>4. CASE label # "loaded" \/ life = "none"
  <2>1. UNCHANGED <<daemonVars, fileVars>>
    BY <1>4 DEF Bootout
  <2>2. TypeOK'
    BY <1>1, <2>1 DEF Inv, IInv, TypeOK
  <2>3. ListenerIsAtPath' /\ InstallOK'
    BY <1>1, <1>4, <2>1 DEF Inv, IInv, ListenerIsAtPath, InstallOK, Alive
  <2>. QED
    BY <2>2, <2>3 DEF Inv, IInv
<1>. QED
  BY <1>2, <1>3, <1>4

LEMMA ReplaceKeeps == ASSUME Inv, BootOutOld \/ Uninstall PROVE Inv'
<1>1. CASE BootOutOld
  <2>1. installs' \in 0..Installs
    BY <1>1 DEF BootOutOld, Inv, IInv, TypeOK
  <2>. QED
    BY <1>1, <2>1, BootoutKeeps DEF BootOutOld
<1>2. CASE Uninstall
  <2>1. installs' \in 0..Installs
    BY <1>2, BoundsAssumption DEF Uninstall, Inv, IInv, TypeOK
  <2>. QED
    BY <1>2, <2>1, BootoutKeeps DEF Uninstall
<1>. QED
  BY <1>1, <1>2

-----------------------------------------------------------------------------
(* The theorems.                                                           *)

LEMMA StutterKeeps == ASSUME Inv, UNCHANGED vars PROVE Inv'
<1>. USE DEF vars, launchdVars, daemonVars, fileVars, installVars
<1>1. TypeOK' /\ ListenerIsAtPath'
  BY DEF Inv, IInv, TypeOK, ListenerIsAtPath, Alive
<1>2. InstallOK'
  BY DEF Inv, InstallOK, Alive
<1>. QED
  BY <1>1, <1>2 DEF Inv, IInv

LEMMA StepKeeps == ASSUME Inv, [Next]_vars PROVE Inv'
<1>1. CASE Spawn \/ DropLabel \/ DiskFails
  BY <1>1, LaunchdKeeps
<1>2. CASE Unoccupied
  BY <1>2, UnoccupiedKeeps
<1>3. CASE TakeRun \/ RunEnds \/ Signal \/ Returns \/ Remove
  BY <1>3, ProcessKeeps
<1>4. CASE ProcessEnds \/ Crash
  BY <1>4, ExitKeeps
<1>5. CASE Socket
  BY <1>5, SocketKeeps DEF Socket
<1>6. CASE Ask \/ RemoveBinary \/ CopyBinary \/ Unregistered \/ Bootstrap \/ InstallFails
  BY <1>6, InstallKeeps
<1>7. CASE BootOutOld \/ Uninstall
  BY <1>7, ReplaceKeeps
<1>8. CASE UNCHANGED vars
  BY <1>8, StutterKeeps
<1>. QED
  BY <1>1, <1>2, <1>3, <1>4, <1>5, <1>6, <1>7, <1>8 DEF Next, Idle

LEMMA Inductive == Spec => []Inv
<1>1. Init => Inv
  BY InitInv
<1>2. Inv /\ [Next]_vars => Inv'
  BY StepKeeps
<1>. QED
  BY <1>1, <1>2, PTL DEF Spec

(* A client that connects finds the daemon that listens: no start, end or  *)
(* crash leaves it listening on a file that is not at the path.            *)
THEOREM SocketIsFound == Spec => []IInv
<1>1. Inv => IInv
  BY DEF Inv
<1>. QED
  BY <1>1, Inductive, PTL

(* An install that goes through replaced the daemon, and launchd never     *)
(* refuses it for the label of the old agent.                              *)
THEOREM InstallReplaces == Spec => []InstallTakes
<1>1. Inv => InstallTakes
  BY DEF Inv, InstallOK, InstallTakes
<1>. QED
  BY <1>1, Inductive, PTL
=============================================================================
