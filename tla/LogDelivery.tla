----------------------------- MODULE LogDelivery -----------------------------
(***************************************************************************)
(* How the output of a run reaches the farm: the outgoing buffer of        *)
(* LogStream, its flusher task, the requests append_log sends and retries, *)
(* and close() (src/logstream.rs, src/protocol/client.rs).                 *)
(*                                                                         *)
(* A byte is its place in the output, so the buffer, which loses bytes     *)
(* only at its front, is the interval taken + 1 .. pushed, and a chunk is  *)
(* an interval with a sequence number.  The farm is external: a request    *)
(* reaches it late, never, or more than once, and its answer may be lost.  *)
(***************************************************************************)
EXTENDS Integers, Sequences

CONSTANTS
  Chunk,      \* MAX_LOG_CHUNK
  Capacity,   \* LOG_BUFFER_BYTES
  Attempts,   \* RETRY_MAX_ATTEMPTS
  MaxWrite,   \* bounds what one line adds to the buffer
  Output      \* bounds what the run prints

ASSUME SizesAssumption ==
  /\ Chunk \in Nat \ {0}
  /\ Capacity \in Nat /\ Capacity >= Chunk + MaxWrite
  /\ Attempts \in Nat \ {0}
  /\ MaxWrite \in Nat \ {0}
  /\ Output \in Nat

VARIABLES
  pushed,     \* how much was ever pushed into the buffer
  taken,      \* how much of it has left the buffer again
  writer,     \* the reader of the run's terminal, which pushes
  filled,     \* whether the flusher's Notify holds a permit
  phase,      \* what the closing channel says
  handle,     \* whether the flusher's handle is still there to be taken
  closer,     \* the caller of close()
  mark,       \* how much had been pushed when the first close was asked for
  flusher,    \* where the flusher task is
  last,       \* whether its flush is the one a close asked for
  seq,        \* the sequence number of the next chunk
  chunk,      \* the chunk it last took
  tries,      \* the attempts it has made to send it
  gone,       \* the latch a 410 sets
  lost,       \* the bytes that were shed at the cap or whose chunk was given up
  sent,       \* every chunk a request was ever sent with
  log,        \* the chunks the farm has appended to the run's log
  finalized   \* whether the farm answers 410 by now

bufferVars == <<pushed, taken, writer, filled, lost>>
closeVars == <<phase, handle, closer, mark>>
flushVars == <<flusher, last, seq, chunk, tries, gone, sent>>
farmVars == <<log, finalized>>
vars == <<bufferVars, closeVars, flushVars, farmVars>>

Chunks == [seq : Nat, lo : Nat, hi : Nat]

TypeOK ==
  /\ pushed \in 0..Output
  /\ taken \in 0..pushed
  /\ writer \in {"idle", "notifying"}
  /\ filled \in BOOLEAN
  /\ phase \in {"Running", "Closing"}
  /\ handle \in BOOLEAN
  /\ closer \in {"idle", "joining", "returned"}
  /\ mark \in 0..Output
  /\ flusher \in {"waiting", "flushing", "sending", "backoff", "stopped", "aborted"}
  /\ last \in BOOLEAN
  /\ seq \in Nat \ {0}
  /\ chunk \in Chunks
  /\ tries \in 0..(Attempts - 1)
  /\ gone \in BOOLEAN
  /\ lost \subseteq 1..Output
  /\ sent \subseteq Chunks
  /\ log \in Seq(Chunks)
  /\ finalized \in BOOLEAN

Init ==
  /\ pushed = 0 /\ taken = 0 /\ writer = "idle" /\ filled = FALSE /\ lost = {}
  /\ phase = "Running" /\ handle = TRUE /\ closer = "idle" /\ mark = 0
  /\ flusher = "waiting" /\ last = FALSE /\ seq = 1
  /\ chunk = [seq |-> 0, lo |-> 1, hi |-> 0]
  /\ tries = 0 /\ gone = FALSE /\ sent = {}
  /\ log = <<>> /\ finalized = FALSE

Bytes(c) == c.lo..c.hi

\* The highest sequence number the farm has accepted.
Accepted == IF log = <<>> THEN 0 ELSE log[Len(log)].seq

-----------------------------------------------------------------------------
(* The writer.                                                             *)

\* The bytes that have left a buffer of at most Capacity once it held up to n.
Shed(n) == IF n - taken > Capacity THEN n - Capacity ELSE taken

\* A line, or a break, goes into the buffer under its lock; past the cap the
\* oldest bytes are dropped.
Push ==
  /\ writer = "idle"
  /\ \E n \in 1..MaxWrite :
       /\ pushed + n <= Output
       /\ pushed' = pushed + n
       /\ taken' = Shed(pushed')
       /\ writer' = IF pushed' - taken' >= Chunk THEN "notifying" ELSE "idle"
  /\ lost' = lost \cup (taken + 1)..taken'
  /\ UNCHANGED <<filled, closeVars, flushVars, farmVars>>

\* The flusher is notified after the lock was released.
NotifyFilled ==
  /\ writer = "notifying"
  /\ filled' = TRUE
  /\ writer' = "idle"
  /\ UNCHANGED <<pushed, taken, lost, closeVars, flushVars, farmVars>>

-----------------------------------------------------------------------------
(* The flusher.                                                            *)

\* Mutant: the flusher sleeps until a whole chunk is there.
WakeUnticked ==
  /\ flusher = "waiting"
  /\ filled
  /\ filled' = FALSE
  /\ flusher' = "flushing"
  /\ UNCHANGED <<pushed, taken, writer, lost, closeVars, last, seq, chunk, tries, gone, sent, farmVars>>

\* A tick or a filled buffer starts a flush.
Wake ==
  /\ flusher = "waiting"
  /\ filled' \in {filled, FALSE}
  /\ flusher' = "flushing"
  /\ UNCHANGED <<pushed, taken, writer, lost, closeVars, last, seq, chunk, tries, gone, sent, farmVars>>

\* A close starts the last one.
WakeClosing ==
  /\ flusher = "waiting"
  /\ phase = "Closing"
  /\ last' = TRUE
  /\ flusher' = "flushing"
  /\ UNCHANGED <<bufferVars, closeVars, seq, chunk, tries, gone, sent, farmVars>>

\* The flush is over.
Rest == flusher' = IF last THEN "stopped" ELSE "waiting"

\* The flush ends at the latch of a 410 or at an empty buffer.
FlushEnds ==
  /\ flusher = "flushing"
  /\ gone \/ taken = pushed
  /\ Rest
  /\ UNCHANGED <<bufferVars, closeVars, last, seq, chunk, tries, gone, sent, farmVars>>

\* Mutant: a flush does not look at the latch.
TakeChunkBlind ==
  /\ flusher = "flushing"
  /\ taken < pushed
  /\ taken' = IF taken + Chunk < pushed THEN taken + Chunk ELSE pushed
  /\ chunk' = [seq |-> seq, lo |-> taken + 1, hi |-> taken']
  /\ seq' = seq + 1
  /\ sent' = sent \cup {chunk'}
  /\ tries' = 0
  /\ flusher' = "sending"
  /\ UNCHANGED <<pushed, writer, filled, lost, closeVars, last, gone, farmVars>>

\* The front of the buffer is taken and sent.  Its sequence number is spent
\* whatever becomes of it.
TakeChunk ==
  /\ flusher = "flushing"
  /\ ~gone
  /\ taken < pushed
  /\ taken' = IF taken + Chunk < pushed THEN taken + Chunk ELSE pushed
  /\ chunk' = [seq |-> seq, lo |-> taken + 1, hi |-> taken']
  /\ seq' = seq + 1
  /\ sent' = sent \cup {chunk'}
  /\ tries' = 0
  /\ flusher' = "sending"
  /\ UNCHANGED <<pushed, writer, filled, lost, closeVars, last, gone, farmVars>>

\* The farm answers 204, also to a number it is already past.
Sent ==
  /\ flusher = "sending"
  /\ chunk.seq <= Accepted
  /\ flusher' = "flushing"
  /\ UNCHANGED <<bufferVars, closeVars, last, seq, chunk, tries, gone, sent, farmVars>>

\* Mutant: a chunk that was given up goes back to the front of the buffer.
UnansweredRequeued ==
  /\ flusher = "sending"
  /\ IF tries + 1 < Attempts
     THEN tries' = tries + 1 /\ flusher' = "backoff" /\ UNCHANGED taken
     ELSE UNCHANGED tries /\ flusher' = "waiting" /\ taken' = chunk.lo - 1
  /\ UNCHANGED <<pushed, writer, filled, lost, closeVars, last, seq, chunk, gone, sent, farmVars>>

\* Mutant: a chunk that was given up leaves its number to the next one.
UnansweredUnspent ==
  /\ flusher = "sending"
  /\ IF tries + 1 < Attempts
     THEN tries' = tries + 1 /\ flusher' = "backoff" /\ UNCHANGED <<lost, seq>>
     ELSE UNCHANGED tries /\ flusher' = "flushing" /\ lost' = lost \cup Bytes(chunk) /\ seq' = chunk.seq
  /\ UNCHANGED <<pushed, taken, writer, filled, closeVars, last, chunk, gone, sent, farmVars>>

\* No answer, or a 5xx: the chunk is retried under its number, or given up.
Unanswered ==
  /\ flusher = "sending"
  /\ IF tries + 1 < Attempts
     THEN tries' = tries + 1 /\ flusher' = "backoff" /\ UNCHANGED lost
     ELSE UNCHANGED tries /\ flusher' = "flushing" /\ lost' = lost \cup Bytes(chunk)
  /\ UNCHANGED <<pushed, taken, writer, filled, closeVars, last, seq, chunk, gone, sent, farmVars>>

Retry ==
  /\ flusher = "backoff"
  /\ flusher' = "sending"
  /\ UNCHANGED <<bufferVars, closeVars, last, seq, chunk, tries, gone, sent, farmVars>>

\* Any other 4xx, or a 409, is final for the chunk.
Refused ==
  /\ flusher = "sending"
  /\ flusher' = "flushing"
  /\ lost' = lost \cup Bytes(chunk)
  /\ UNCHANGED <<pushed, taken, writer, filled, closeVars, last, seq, chunk, tries, gone, sent, farmVars>>

SentGone ==
  /\ flusher = "sending"
  /\ finalized
  /\ gone' = TRUE
  /\ Rest
  /\ UNCHANGED <<bufferVars, closeVars, last, seq, chunk, tries, sent, farmVars>>

-----------------------------------------------------------------------------
(* close().                                                                *)

\* The flusher is told, and its handle taken; without a handle close() is done.
Close ==
  /\ closer = "idle"
  /\ phase' = "Closing"
  /\ handle' = FALSE
  /\ mark' = IF phase = "Running" THEN pushed ELSE mark
  /\ closer' = IF handle THEN "joining" ELSE "returned"
  /\ UNCHANGED <<bufferVars, flushVars, farmVars>>

CloseReturns ==
  /\ closer = "joining"
  /\ closer' = "returned"
  /\ \/ flusher = "stopped" /\ UNCHANGED flusher
     \/ flusher # "stopped" /\ flusher' = "aborted"
  /\ UNCHANGED <<bufferVars, phase, handle, mark, last, seq, chunk, tries, gone, sent, farmVars>>

\* A run that is interrupted drops its close and asks for another.
CloseDropped ==
  /\ closer = "joining"
  /\ closer' = "idle"
  /\ UNCHANGED <<bufferVars, phase, handle, mark, flushVars, farmVars>>

-----------------------------------------------------------------------------
(* The farm.                                                               *)

\* A request arrives; the farm appends the chunk when its number is new.
Arrive ==
  /\ ~finalized
  /\ \E c \in sent : c.seq > Accepted /\ log' = Append(log, c)
  /\ UNCHANGED <<bufferVars, closeVars, flushVars, finalized>>

Finalize ==
  /\ ~finalized
  /\ finalized' = TRUE
  /\ UNCHANGED <<bufferVars, closeVars, flushVars, log>>

-----------------------------------------------------------------------------
FlusherStep ==
  FlushEnds \/ TakeChunk \/ Sent \/ Unanswered \/ Retry \/ Refused \/ SentGone

Next ==
  \/ Push \/ NotifyFilled
  \/ Wake \/ WakeClosing \/ FlusherStep
  \/ Close \/ CloseReturns \/ CloseDropped
  \/ Arrive \/ Finalize

Spec == Init /\ [][Next]_vars

(* The ticker fires every LOG_FLUSH_INTERVAL, every request and every      *)
(* backoff of the flusher ends, and so does a wait for it in close().      *)
Fairness == WF_vars(Wake) /\ WF_vars(FlusherStep)

FairSpec == Spec /\ Fairness

-----------------------------------------------------------------------------
(* Properties.                                                             *)

\* The farm's log is the output in order, with every byte at most once,
\* whatever arrived late or was sent again: a chunk that a retry or a timeout
\* left behind on the wire is never appended after a later one.
FarmLogOrdered ==
  \A i, j \in 1..Len(log) : i < j => log[i].hi < log[j].lo

\* A byte that has left the buffer and is not on its way is in the farm's log
\* unless it was shed at the cap or its chunk was given up: what the farm
\* acknowledged it has, for a 204 can also mean that it is past the number.
LogIsWhole ==
  \A k \in 1..taken :
    \/ k \in lost
    \/ \E i \in 1..Len(log) : k \in Bytes(log[i])
    \/ gone
    \/ flusher \in {"sending", "backoff", "aborted"} /\ k \in Bytes(chunk)

\* A flusher that stopped of its own accord has taken everything that was
\* pushed before the close, be it idle or sending when it was asked.
CloseFlushes == flusher = "stopped" /\ ~gone => taken >= mark

\* A buffer that holds a chunk never waits for the next tick: between its
\* lock, the notification and a flush that is just ending no wake-up is lost.
WokenWhenFull ==
  flusher = "waiting" /\ pushed - taken >= Chunk /\ ~gone => filled \/ writer = "notifying"

-----------------------------------------------------------------------------
(* The inductive invariant behind them.                                    *)

\* The chunks that were sent are apart, in the order of their numbers, and
\* behind what is still in the buffer.
SentOK ==
  /\ \A c \in sent : c.seq < seq /\ c.hi <= taken
  /\ \A c, d \in sent : c.seq < d.seq => c.hi < d.lo
  /\ \A c, d \in sent : c.seq = d.seq => c = d

\* The farm holds chunks that were sent, in the order of their numbers.
LogOK ==
  /\ \A i \in 1..Len(log) : log[i] \in sent
  /\ \A i, j \in 1..Len(log) : i < j => log[i].seq < log[j].seq

\* The chunk on its way is the one with the highest number.
ChunkOK ==
  flusher \in {"sending", "backoff"} => chunk \in sent /\ seq = chunk.seq + 1

\* Numbers start at one and no chunk is empty before the output.
NumbersOK == \A c \in sent : c.seq >= 1 /\ c.lo >= 1

LastOK ==
  /\ flusher = "stopped" => last
  /\ last => phase = "Closing"
  /\ mark <= pushed

IInv ==
  /\ TypeOK /\ NumbersOK /\ SentOK /\ LogOK /\ ChunkOK /\ LastOK
  /\ LogIsWhole /\ CloseFlushes /\ WokenWhenFull

-----------------------------------------------------------------------------
\* Once the farm has answered 410 nothing more is sent for the run.
SilentAfterGone == [][gone => sent' = sent]_vars

\* Whatever is printed leaves the buffer, however little it is, as long as
\* there is a flusher.
DrainsInTheEnd ==
  (taken < pushed) ~> (taken = pushed \/ gone \/ flusher \in {"stopped", "aborted"})
=============================================================================
