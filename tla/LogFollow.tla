------------------------------ MODULE LogFollow ------------------------------
(***************************************************************************)
(* How a terminal sees a run: the history ring and the broadcast channel   *)
(* of LogStream, the follow() of the daemon's connection handler, the      *)
(* socket between them and the session of rxd (src/logstream.rs,           *)
(* src/ipc.rs, src/bin/rxd.rs).                                            *)
(*                                                                         *)
(* A line is its place in the output.  The history ring keeps the newest   *)
(* lines within a bound on their number and one on their bytes; lengths    *)
(* are left out, so a push may drop any number of the oldest lines.        *)
(***************************************************************************)
EXTENDS Integers, Sequences

CONSTANTS
  Clients,        \* the rxd sessions
  HistoryLines,   \* HISTORY_LINES
  Capacity,       \* SUBSCRIBER_CAPACITY
  Wire,           \* bounds the messages a socket holds unread
  Output          \* bounds the lines the run prints

ASSUME BoundsAssumption ==
  /\ HistoryLines \in Nat \ {0}
  /\ Capacity \in Nat \ {0}
  /\ Wire \in Nat \ {0}
  /\ Output \in Nat

VARIABLES
  run,       \* how far the run has got
  outcome,   \* how it ended
  pushed,    \* the lines pushed so far
  oldest,    \* the oldest line the history holds
  mark,      \* how many had been pushed when the run ended
  pc,        \* where the handler of each connection is
  replay,    \* the part of the history it still has to send
  cursor,    \* the next line its receiver is due
  held,      \* the message it is sending
  wire,      \* what its socket holds unread
  rxd,       \* where each session is, and how it exits
  from,      \* the first line each follower is owed
  printed,   \* the messages it was sent and has printed
  gone       \* whether the daemon's process has ended

runVars == <<run, outcome, pushed, oldest, mark, gone>>
handlerVars == <<pc, replay, cursor, held, from>>
clientVars == <<rxd, printed>>
vars == <<runVars, handlerVars, wire, clientVars>>

\* n is the line, or the number of lines that are skipped.
Message(kind, n) == [kind |-> kind, n |-> n]
Messages == [kind : {"Started", "NoRun", "Line", "Skipped", "Ended"}, n : Nat]
Nothing == Message("none", 0)

Exits == {"detached", "nothing", "done", "failed", "closed"}

TypeOK ==
  /\ run \in {"opening", "running", "finished", "left"}
  /\ outcome \in {"none", "done", "error"}
  /\ pushed \in 0..Output
  /\ oldest \in 1..(pushed + 1)
  /\ mark \in 0..Output
  /\ pc \in [Clients -> {"none", "asked", "answered", "started", "replaying", "live",
                         "draining", "over"}]
  /\ replay \in [Clients -> Seq(Nat)]
  /\ cursor \in [Clients -> Nat]
  /\ held \in [Clients -> Messages \cup {Nothing}]
  /\ wire \in [Clients -> Seq(Messages)]
  /\ printed \in [Clients -> Seq(Messages)]
  /\ rxd \in [Clients -> {"away", "following"} \cup Exits]
  /\ from \in [Clients -> Nat]
  /\ gone \in BOOLEAN

Init ==
  /\ run = "opening" /\ outcome = "none" /\ gone = FALSE
  /\ pushed = 0 /\ oldest = 1 /\ mark = 0
  /\ pc = [c \in Clients |-> "none"]
  /\ replay = [c \in Clients |-> <<>>]
  /\ cursor = [c \in Clients |-> 0]
  /\ held = [c \in Clients |-> Nothing]
  /\ wire = [c \in Clients |-> <<>>]
  /\ rxd = [c \in Clients |-> "away"]
  /\ from = [c \in Clients |-> 0]
  /\ printed = [c \in Clients |-> <<>>]

-----------------------------------------------------------------------------
(* The run, its reader, and the process.                                   *)

\* enter() publishes the run.
Begin ==
  /\ run = "opening"
  /\ run' = "running"
  /\ UNCHANGED <<outcome, pushed, oldest, mark, gone, handlerVars, wire, clientVars>>

\* push_line: into the history, past one of whose bounds the oldest lines go,
\* and to every subscriber.  A reader that outlived an interrupted run still
\* pushes after its end.
Push ==
  /\ run # "opening"
  /\ pushed < Output
  /\ pushed' = pushed + 1
  /\ oldest' \in {k \in oldest..pushed' : pushed' - k < HistoryLines}
  /\ UNCHANGED <<run, outcome, mark, gone, handlerVars, wire, clientVars>>

\* leave() first tells every follower how the run ended, then withdraws it.
Finish ==
  /\ run = "running"
  /\ run' = "finished"
  /\ outcome' \in {"done", "error"}
  /\ mark' = pushed
  /\ UNCHANGED <<pushed, oldest, gone, handlerVars, wire, clientVars>>

Withdraw ==
  /\ run = "finished"
  /\ run' = "left"
  /\ UNCHANGED <<outcome, pushed, oldest, mark, gone, handlerVars, wire, clientVars>>

\* After a shutdown main returns as soon as the slot is free; the handlers
\* die with the runtime.
ProcessEnds ==
  /\ run = "left"
  /\ gone' = TRUE
  /\ UNCHANGED <<run, outcome, pushed, oldest, mark, handlerVars, wire, clientVars>>

-----------------------------------------------------------------------------
(* The handler of a connection: attach() and follow().                     *)

Ready(c) == ~gone /\ held[c] = Nothing

\* What is sent is handed to send(), which may have to wait for the socket.
Sending(c, kind, n) == held' = [held EXCEPT ![c] = Message(kind, n)]

Goto(c, point) == pc' = [pc EXCEPT ![c] = point]

\* start(): start_local has answered with the run, which the handler keeps
\* hold of whatever becomes of it.
Answer(c) ==
  /\ Ready(c) /\ pc[c] = "answered"
  /\ run # "opening"
  /\ Sending(c, "Started", 0)
  /\ Goto(c, "started")
  /\ UNCHANGED <<runVars, replay, cursor, from, wire, clientVars>>

\* attach(): the run an attaching client would follow, or none.
Attach(c) ==
  /\ Ready(c) /\ pc[c] = "asked"
  /\ IF run \in {"running", "finished"}
     THEN Sending(c, "Started", 0) /\ Goto(c, "started")
     ELSE Sending(c, "NoRun", 0) /\ Goto(c, "over")
  /\ UNCHANGED <<runVars, replay, cursor, from, wire, clientVars>>

\* Mutant: the history is read first and the channel joined after the replay.
SubscribeApart(c) ==
  /\ Ready(c) /\ pc[c] = "started"
  /\ IF replay[c] = <<>> /\ from[c] = 0
     THEN /\ replay' = [replay EXCEPT ![c] = [i \in 1..(pushed - oldest + 1) |-> oldest + i - 1]]
          /\ from' = [from EXCEPT ![c] = oldest]
          /\ UNCHANGED <<cursor, pc>>
     ELSE /\ cursor' = [cursor EXCEPT ![c] = pushed + 1]
          /\ Goto(c, "replaying")
          /\ UNCHANGED <<replay, from>>
  /\ UNCHANGED <<runVars, held, wire, clientVars>>

\* subscribe(): the history and a receiver of what follows, under one lock.
Subscribe(c) ==
  /\ Ready(c) /\ pc[c] = "started"
  /\ replay' = [replay EXCEPT ![c] = [i \in 1..(pushed - oldest + 1) |-> oldest + i - 1]]
  /\ cursor' = [cursor EXCEPT ![c] = pushed + 1]
  /\ from' = [from EXCEPT ![c] = oldest]
  /\ Goto(c, "replaying")
  /\ UNCHANGED <<runVars, held, wire, clientVars>>

Replay(c) ==
  /\ Ready(c) /\ pc[c] = "replaying"
  /\ IF replay[c] = <<>>
     THEN Goto(c, "live") /\ UNCHANGED <<replay, held>>
     ELSE /\ Sending(c, "Line", Head(replay[c]))
          /\ replay' = [replay EXCEPT ![c] = Tail(@)]
          /\ UNCHANGED pc
  /\ UNCHANGED <<runVars, cursor, from, wire, clientVars>>

\* The channel holds the last Capacity lines.
Overwritten == pushed - Capacity

\* Mutant: what the channel overwrote is passed over in silence.
RecvSilent(c) ==
  /\ Ready(c) /\ pc[c] \in {"live", "draining"}
  /\ cursor[c] <= pushed
  /\ LET next == IF cursor[c] > Overwritten THEN cursor[c] ELSE Overwritten + 1
     IN  Sending(c, "Line", next) /\ cursor' = [cursor EXCEPT ![c] = next + 1]
  /\ UNCHANGED <<runVars, pc, replay, from, wire, clientVars>>

\* A receiver is handed its next line, or told how many it missed: it then
\* goes on with the oldest line the channel holds.
Recv(c) ==
  /\ Ready(c) /\ pc[c] \in {"live", "draining"}
  /\ cursor[c] <= pushed
  /\ IF cursor[c] > Overwritten
     THEN Sending(c, "Line", cursor[c]) /\ cursor' = [cursor EXCEPT ![c] = @ + 1]
     ELSE /\ Sending(c, "Skipped", Overwritten + 1 - cursor[c])
          /\ cursor' = [cursor EXCEPT ![c] = Overwritten + 1]
  /\ UNCHANGED <<runVars, pc, replay, from, wire, clientVars>>

\* Mutant: the end is told as soon as it is seen.
SeesEndAtOnce(c) ==
  /\ Ready(c) /\ pc[c] = "live"
  /\ run \in {"finished", "left"}
  /\ Sending(c, "Ended", 0)
  /\ Goto(c, "over")
  /\ UNCHANGED <<runVars, replay, cursor, from, wire, clientVars>>

\* Mutant: a follower waits for the channel to be closed, which it never is
\* while somebody holds on to the run.
SeesEndNever(c) == FALSE

\* The select is not biased: the end may win over lines that are queued.
SeesEnd(c) ==
  /\ Ready(c) /\ pc[c] = "live"
  /\ run \in {"finished", "left"}
  /\ Goto(c, "draining")
  /\ UNCHANGED <<runVars, replay, cursor, held, from, wire, clientVars>>

\* What was queued is sent first.
TellEnd(c) ==
  /\ Ready(c) /\ pc[c] = "draining"
  /\ cursor[c] > pushed
  /\ Sending(c, "Ended", 0)
  /\ Goto(c, "over")
  /\ UNCHANGED <<runVars, replay, cursor, from, wire, clientVars>>

Deliver(c) ==
  /\ ~gone /\ held[c] # Nothing
  /\ rxd[c] = "following" /\ Len(wire[c]) < Wire
  /\ wire' = [wire EXCEPT ![c] = Append(@, held[c])]
  /\ held' = [held EXCEPT ![c] = Nothing]
  /\ UNCHANGED <<runVars, pc, replay, cursor, from, clientVars>>

\* A client that has left is noticed when something is sent to it.
DeliveryFails(c) ==
  /\ ~gone /\ held[c] # Nothing
  /\ rxd[c] # "following"
  /\ held' = [held EXCEPT ![c] = Nothing]
  /\ Goto(c, "over")
  /\ UNCHANGED <<runVars, replay, cursor, from, wire, clientVars>>

-----------------------------------------------------------------------------
(* The session of rxd.                                                     *)

\* rxd attach connects, or rxd does with a run that is going to be started
\* (what else it can be answered is RunSlot's).
Connect(c) ==
  /\ ~gone /\ rxd[c] = "away"
  /\ rxd' = [rxd EXCEPT ![c] = "following"]
  /\ Goto(c, "asked") \/ Goto(c, "answered")
  /\ UNCHANGED <<runVars, replay, cursor, held, from, wire, printed>>

Exit(c, how) == rxd' = [rxd EXCEPT ![c] = how]

\* show(): what was sent is printed, and an ending exits with the status of the
\* run.
Read(c) ==
  /\ rxd[c] = "following" /\ wire[c] # <<>>
  /\ LET message == Head(wire[c])
     IN  /\ printed' = [printed EXCEPT ![c] = Append(@, message)]
         /\ CASE message.kind = "Ended" -> Exit(c, IF outcome = "done" THEN "done" ELSE "failed")
              [] message.kind = "NoRun" -> Exit(c, "nothing")
              [] OTHER -> UNCHANGED rxd
  /\ wire' = [wire EXCEPT ![c] = Tail(@)]
  /\ UNCHANGED <<runVars, handlerVars>>

\* The daemon closed the connection before it told an end.
Broken(c) ==
  /\ rxd[c] = "following" /\ wire[c] = <<>>
  /\ gone \/ (pc[c] = "over" /\ held[c] = Nothing)
  /\ Exit(c, "closed")
  /\ UNCHANGED <<runVars, handlerVars, wire, printed>>

\* Ctrl-C, at any time.
Detach(c) ==
  /\ rxd[c] = "following"
  /\ Exit(c, "detached")
  /\ wire' = [wire EXCEPT ![c] = <<>>]
  /\ UNCHANGED <<runVars, handlerVars, printed>>

-----------------------------------------------------------------------------
Handler(c) ==
  \/ Answer(c) \/ Attach(c) \/ Subscribe(c) \/ Replay(c) \/ Recv(c) \/ SeesEnd(c) \/ TellEnd(c)
  \/ Deliver(c) \/ DeliveryFails(c)

Session(c) == Read(c) \/ Broken(c)

\* A process that is gone, or a daemon without a client, may stand still.
Quiet == (gone \/ run = "left") /\ UNCHANGED vars

Next ==
  \/ Begin \/ Push \/ Finish \/ Withdraw \/ ProcessEnds
  \/ \E c \in Clients : Handler(c) \/ Session(c) \/ Connect(c) \/ Detach(c)
  \/ Quiet

Spec == Init /\ [][Next]_vars

(* The runtime polls a handler that can go on, and an attached terminal    *)
(* reads what it is sent.                                                  *)
Fairness == \A c \in Clients : WF_vars(Handler(c)) /\ WF_vars(Session(c))

FairSpec == Spec /\ Fairness

-----------------------------------------------------------------------------
(* Properties.                                                             *)

Count(m) == CASE m.kind = "Line" -> 1 [] m.kind = "Skipped" -> m.n [] OTHER -> 0

\* How many lines the first k of the messages account for.
Accounted(messages, k) ==
  LET upto[i \in 0..k] == IF i = 0 THEN 0 ELSE upto[i - 1] + Count(messages[i])
  IN  upto[k]

\* What was sent to a session, read or still on its way; of one that has exited,
\* what it read.
Sent(c) ==
  IF rxd[c] = "following"
  THEN printed[c] \o (wire[c] \o (IF held[c] = Nothing THEN <<>> ELSE <<held[c]>>))
  ELSE printed[c]

\* The first line that the messages do not account for, if the first they do is
\* first; and whether each line is in its place among them.
Reach(messages, first) == first + Accounted(messages, Len(messages))
InPlace(messages, first) ==
  \A i \in 1..Len(messages) :
    messages[i].kind = "Line" => messages[i].n = first + Accounted(messages, i - 1)

\* Every line between the first a follower is owed and the next its receiver
\* is due was sent, in its place, or is still to be replayed.
PipelineOK(c) ==
  /\ InPlace(Sent(c), from[c])
  /\ rxd[c] = "following" /\ pc[c] \in {"replaying", "live", "draining"} =>
       LET due == Reach(Sent(c), from[c])
       IN  /\ cursor[c] = due + Len(replay[c])
           /\ \A i \in 1..Len(replay[c]) : replay[c][i] = due + i - 1
           /\ pc[c] # "replaying" => replay[c] = <<>>

\* Nothing is sent before a handler has an answer.
AnswersFirst(c) ==
  /\ rxd[c] = "away" => pc[c] = "none" /\ held[c] = Nothing /\ wire[c] = <<>>
  /\ pc[c] \in {"none", "asked", "answered"} => Sent(c) = <<>>
  /\ pc[c] = "started" => Sent(c) \in {<<>>, <<Message("Started", 0)>>}

Final == {"Ended", "NoRun"}

\* A handler's last word is that there is no run, or the end behind all of it;
\* and the session exits on it.
LastWord(c) ==
  /\ \A i \in 1..Len(Sent(c)) :
       /\ Sent(c)[i].kind \in Final => i = Len(Sent(c)) /\ pc[c] = "over"
       /\ Sent(c)[i].kind = "Ended" =>
            run \in {"finished", "left"} /\ Reach(Sent(c), from[c]) > mark
  /\ pc[c] = "draining" => run \in {"finished", "left"}
  /\ rxd[c] = "following" =>
       /\ \A i \in 1..Len(printed[c]) : printed[c][i].kind \notin Final
       /\ pc[c] = "over" => Sent(c) # <<>> /\ Sent(c)[Len(Sent(c))].kind \in Final
  /\ rxd[c] \in {"done", "failed"} =>
       \E i \in 1..Len(printed[c]) : printed[c][i].kind = "Ended"

\* Nothing but the end of the process breaks a session that found a run.
BrokenOnlyByExit(c) == rxd[c] = "closed" => gone

IInv ==
  /\ TypeOK
  /\ mark <= pushed
  /\ \A c \in Clients : PipelineOK(c) /\ AnswersFirst(c) /\ LastWord(c) /\ BrokenOnlyByExit(c)

\* From the first line of the replay on every line is printed, once and in
\* its place, or counted among those that were skipped: the replay and the
\* live lines join, and a slow follower knows exactly what it missed.
Gapless == \A c \in Clients : InPlace(printed[c], from[c])

\* A session that was told the end was told of every line up to it before,
\* though the end may overtake the lines that are queued.
WholeUntilEnd ==
  \A c \in Clients : rxd[c] \in {"done", "failed"} => Reach(printed[c], from[c]) > mark

\* A session learns of the end of its run, or of the daemon's.
EndArrives == \A c \in Clients : (rxd[c] = "following" /\ run = "left") ~> rxd[c] # "following"

\* README: staying attached to the end exits 0 for done and 1 for error.
AttachedLearnsOutcome ==
  \A c \in Clients : rxd[c] = "closed" /\ from[c] # 0 => outcome = "none"
=============================================================================
