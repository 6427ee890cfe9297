-------------------------- MODULE LogDeliveryProofs --------------------------
(***************************************************************************)
(* Proofs about LogDelivery: for any sizes of the chunk and the buffer,    *)
(* any number of attempts and any loss and delay of requests, the farm's   *)
(* log is in order and lacks only what was shed or given up.               *)
(***************************************************************************)
EXTENDS LogDelivery, SequenceTheorems, TLAPS

(* The farm's log after it appended a chunk.                               *)
LEMMA Appended ==
  ASSUME log \in Seq(Chunks), NEW c \in Chunks
  PROVE  /\ Append(log, c) \in Seq(Chunks)
         /\ Len(log) \in Nat
         /\ Len(Append(log, c)) = Len(log) + 1
         /\ \A i \in 1..Len(log) : Append(log, c)[i] = log[i]
         /\ Append(log, c)[Len(log) + 1] = c
BY AppendProperties, LenProperties

(* The highest accepted number is that of the last chunk, and of no other. *)
LEMMA AcceptedIsHighest ==
  ASSUME log \in Seq(Chunks), LogOK
  PROVE  /\ Accepted \in Nat
         /\ \A i \in 1..Len(log) : log[i].seq <= Accepted
         /\ Accepted > 0 => Len(log) \in 1..Len(log) /\ Accepted = log[Len(log)].seq
<1>1. Len(log) \in Nat /\ \A i \in 1..Len(log) : log[i] \in Chunks
  BY LenProperties, ElementOfSeq
<1>2. CASE log = <<>>
  BY <1>1, <1>2, EmptySeq DEF Accepted
<1>3. CASE log # <<>>
  <2>1. Len(log) \in 1..Len(log)
    BY <1>1, <1>3, EmptySeq
  <2>2. Accepted = log[Len(log)].seq
    BY <1>3 DEF Accepted
  <2>3. ASSUME NEW i \in 1..Len(log) PROVE log[i].seq <= log[Len(log)].seq
    <3>1. log[i].seq \in Nat /\ log[Len(log)].seq \in Nat
      BY <1>1, <2>1 DEF Chunks
    <3>2. CASE i = Len(log)
      BY <3>1, <3>2
    <3>3. CASE i < Len(log)
      BY <2>1, <3>1, <3>3 DEF LogOK
    <3>. QED
      BY <1>1, <3>2, <3>3
  <2>. QED
    BY <1>1, <2>1, <2>2, <2>3 DEF Chunks
<1>. QED
  BY <1>2, <1>3

LEMMA InitInv == Init => IInv
<1>. SUFFICES ASSUME Init PROVE IInv
  OBVIOUS
<1>1. Len(log) = 0
  BY EmptySeq DEF Init
<1>2. TypeOK
  <2>1. chunk \in Chunks /\ sent \subseteq Chunks
    BY DEF Init, Chunks
  <2>2. log \in Seq(Chunks)
    <3>1. log = <<>>
      BY DEF Init
    <3>2. <<>> \in Seq(Chunks)
      BY EmptySeq
    <3>. QED
      BY <3>1, <3>2
  <2>3. /\ pushed \in 0..Output /\ taken \in 0..pushed /\ mark \in 0..Output
        /\ seq \in Nat \ {0} /\ tries \in 0..(Attempts - 1)
    BY SizesAssumption DEF Init
  <2>4. lost \subseteq 1..Output
    BY DEF Init
  <2>5. /\ writer \in {"idle", "notifying"} /\ filled \in BOOLEAN
        /\ phase \in {"Running", "Closing"} /\ handle \in BOOLEAN
        /\ closer \in {"idle", "joining", "returned"}
        /\ flusher \in {"waiting", "flushing", "sending", "backoff", "stopped", "aborted"}
        /\ last \in BOOLEAN /\ gone \in BOOLEAN /\ finalized \in BOOLEAN
    BY DEF Init
  <2>. QED
    BY <2>1, <2>2, <2>3, <2>4, <2>5 DEF TypeOK
<1>3. SentOK /\ LogOK /\ ChunkOK /\ NumbersOK /\ LastOK
  BY <1>1 DEF Init, SentOK, LogOK, ChunkOK, NumbersOK, LastOK
<1>4. LogIsWhole /\ CloseFlushes /\ WokenWhenFull
  BY SizesAssumption DEF Init, LogIsWhole, CloseFlushes, WokenWhenFull
<1>. QED
  BY <1>2, <1>3, <1>4 DEF IInv

-----------------------------------------------------------------------------
(* The writer.                                                             *)

LEMMA PushKeeps == ASSUME IInv, Push PROVE IInv'
<1>. USE SizesAssumption
<1>1. PICK n \in 1..MaxWrite :
        /\ pushed + n <= Output
        /\ pushed' = pushed + n
        /\ taken' = Shed(pushed')
        /\ writer' = IF pushed' - taken' >= Chunk THEN "notifying" ELSE "idle"
  BY DEF Push
<1>2. /\ lost' = lost \cup (taken + 1)..taken'
      /\ UNCHANGED <<filled, closeVars, flushVars, farmVars>>
  BY DEF Push
<1>. USE <1>2 DEF closeVars, flushVars, farmVars
<1>3. /\ pushed \in Nat /\ pushed' \in 0..Output /\ pushed < pushed'
      /\ taken \in Nat /\ taken' \in 0..pushed' /\ taken <= taken'
  BY <1>1 DEF IInv, TypeOK, Shed
<1>4. TypeOK'
  <2>1. writer' \in {"idle", "notifying"}
    BY <1>1
  <2>2. lost' \subseteq 1..Output
    BY <1>3 DEF IInv, TypeOK
  <2>. QED
    BY <1>3, <2>1, <2>2 DEF IInv, TypeOK
<1>5. SentOK' /\ LogOK' /\ ChunkOK' /\ NumbersOK' /\ LastOK'
  <2>1. SentOK'
    BY <1>3 DEF IInv, TypeOK, Chunks, SentOK
  <2>2. LogOK' /\ ChunkOK' /\ NumbersOK'
    BY DEF IInv, LogOK, ChunkOK, NumbersOK
  <2>3. LastOK'
    BY <1>3 DEF IInv, TypeOK, LastOK
  <2>. QED
    BY <2>1, <2>2, <2>3
<1>6. LogIsWhole'
  <2>. SUFFICES ASSUME NEW k \in 1..taken', k \notin lost', ~gone'
                PROVE  \/ \E i \in 1..Len(log') : k \in Bytes(log'[i])
                       \/ flusher' \in {"sending", "backoff", "aborted"} /\ k \in Bytes(chunk')
    BY DEF LogIsWhole, Bytes
  <2>1. k \in 1..taken /\ k \notin lost
    BY <1>3
  <2>. QED
    BY <2>1 DEF IInv, LogIsWhole, Bytes
<1>7. CloseFlushes'
  BY <1>3 DEF IInv, TypeOK, CloseFlushes
<1>8. WokenWhenFull'
  BY <1>1 DEF WokenWhenFull
<1>. QED
  BY <1>4, <1>5, <1>6, <1>7, <1>8 DEF IInv

(* A step that leaves the buffer, the chunks and the farm alone keeps what *)
(* is said of them.                                                        *)
LEMMA ChunksStay ==
  ASSUME IInv, UNCHANGED <<taken, lost, seq, chunk, gone, sent, log>>,
         flusher' \in {"sending", "backoff"} => flusher \in {"sending", "backoff"},
         flusher \in {"sending", "backoff", "aborted"} =>
           flusher' \in {"sending", "backoff", "aborted"}
  PROVE  SentOK' /\ LogOK' /\ ChunkOK' /\ NumbersOK' /\ LogIsWhole'
<1>1. SentOK' /\ LogOK'
  BY DEF IInv, SentOK, LogOK
<1>2. ChunkOK' /\ NumbersOK'
  BY DEF IInv, ChunkOK, NumbersOK
<1>3. LogIsWhole'
  BY DEF IInv, LogIsWhole, Bytes
<1>. QED
  BY <1>1, <1>2, <1>3

LEMMA NotifyKeeps == ASSUME IInv, NotifyFilled PROVE IInv'
<1>. USE DEF NotifyFilled, closeVars, flushVars, farmVars
<1>1. TypeOK'
  BY DEF IInv, TypeOK
<1>2. SentOK' /\ LogOK' /\ ChunkOK' /\ NumbersOK' /\ LogIsWhole'
  BY ChunksStay
<1>3. LastOK' /\ CloseFlushes' /\ WokenWhenFull'
  BY DEF IInv, LastOK, CloseFlushes, WokenWhenFull
<1>. QED
  BY <1>1, <1>2, <1>3 DEF IInv

-----------------------------------------------------------------------------
(* The flusher.                                                            *)

LEMMA WakeKeeps == ASSUME IInv, Wake \/ WakeClosing PROVE IInv'
<1>. USE DEF Wake, WakeClosing, bufferVars, closeVars, farmVars
<1>1. TypeOK'
  BY DEF IInv, TypeOK
<1>2. SentOK' /\ LogOK' /\ ChunkOK' /\ NumbersOK' /\ LogIsWhole'
  BY ChunksStay
<1>3. LastOK'
  <2>1. CASE Wake
    BY <2>1 DEF IInv, LastOK
  <2>2. CASE WakeClosing
    BY <2>2 DEF IInv, LastOK
  <2>. QED
    BY <2>1, <2>2
<1>4. CloseFlushes' /\ WokenWhenFull'
  BY DEF CloseFlushes, WokenWhenFull
<1>. QED
  BY <1>1, <1>2, <1>3, <1>4 DEF IInv

LEMMA FlushEndsKeeps == ASSUME IInv, FlushEnds PROVE IInv'
<1>. USE DEF FlushEnds, Rest, bufferVars, closeVars, farmVars
<1>1. TypeOK'
  BY DEF IInv, TypeOK
<1>2. SentOK' /\ LogOK' /\ ChunkOK' /\ NumbersOK' /\ LogIsWhole'
  BY ChunksStay
<1>3. LastOK'
  BY DEF IInv, LastOK
<1>4. CloseFlushes' /\ WokenWhenFull'
  BY SizesAssumption DEF IInv, TypeOK, LastOK, CloseFlushes, WokenWhenFull
<1>. QED
  BY <1>1, <1>2, <1>3, <1>4 DEF IInv

LEMMA TakeChunkKeeps == ASSUME IInv, TakeChunk PROVE IInv'
<1>. USE SizesAssumption DEF TakeChunk, closeVars, farmVars
<1>1. /\ taken \in Nat /\ taken' \in 0..pushed /\ taken < taken' /\ seq \in Nat \ {0}
      /\ chunk' = [seq |-> seq, lo |-> taken + 1, hi |-> taken']
      /\ flusher' = "sending"
  BY DEF IInv, TypeOK
<1>2. chunk' \in Chunks /\ chunk'.seq = seq /\ chunk'.lo = taken + 1 /\ chunk'.hi = taken'
  BY <1>1 DEF Chunks
<1>3. TypeOK'
  BY <1>1, <1>2 DEF IInv, TypeOK
<1>4. SentOK'
  <2>1. \A c \in sent : c.seq < seq /\ c.hi <= taken /\ c.seq \in Nat /\ c.lo \in Nat /\ c.hi \in Nat
    BY DEF IInv, TypeOK, SentOK, Chunks
  <2>2. sent' = sent \cup {chunk'} /\ seq' = seq + 1
    OBVIOUS
  <2>3. \A c \in sent' : c.seq < seq' /\ c.hi <= taken'
    BY <1>1, <1>2, <2>1, <2>2
  <2>4. \A c, d \in sent' : c.seq < d.seq => c.hi < d.lo
    BY <1>1, <1>2, <2>1, <2>2 DEF IInv, SentOK
  <2>5. \A c, d \in sent' : c.seq = d.seq => c = d
    BY <1>1, <1>2, <2>1, <2>2 DEF IInv, SentOK
  <2>. QED
    BY <2>3, <2>4, <2>5 DEF SentOK
<1>5. LogOK' /\ ChunkOK' /\ NumbersOK' /\ LastOK'
  BY <1>1, <1>2 DEF IInv, LogOK, ChunkOK, NumbersOK, LastOK
<1>6. LogIsWhole'
  <2>. SUFFICES ASSUME NEW k \in 1..taken', k \notin lost
                PROVE  \/ \E i \in 1..Len(log) : k \in Bytes(log[i])
                       \/ gone
                       \/ k \in Bytes(chunk')
    BY <1>1 DEF LogIsWhole, Bytes
  <2>1. CASE k <= taken
    BY <1>1, <2>1 DEF IInv, LogIsWhole, Bytes
  <2>2. CASE k > taken
    BY <1>1, <1>2, <2>2 DEF Bytes
  <2>. QED
    BY <1>1, <2>1, <2>2
<1>7. CloseFlushes' /\ WokenWhenFull'
  BY <1>1 DEF CloseFlushes, WokenWhenFull
<1>. QED
  BY <1>3, <1>4, <1>5, <1>6, <1>7 DEF IInv

(* A chunk the farm is not below is in the farm's log: no number is higher. *)
LEMMA SentIsLogged ==
  ASSUME IInv, flusher = "sending", chunk.seq <= Accepted
  PROVE  \E i \in 1..Len(log) : log[i] = chunk
<1>1. chunk \in sent /\ chunk \in Chunks /\ seq = chunk.seq + 1
  BY DEF IInv, TypeOK, ChunkOK
<1>2. log \in Seq(Chunks) /\ LogOK /\ SentOK
  BY DEF IInv, TypeOK
<1>3. CASE Accepted = 0
  <2>1. chunk.seq = 0
    BY <1>1, <1>3 DEF Chunks
  <2>2. seq = 1
    BY <1>1, <2>1
  <2>. QED
    BY <2>1, <1>1 DEF IInv, NumbersOK
<1>4. CASE Accepted > 0
  <2>1. Len(log) \in 1..Len(log) /\ Accepted = log[Len(log)].seq
    BY <1>2, <1>4, AcceptedIsHighest
  <2>2. log[Len(log)] \in sent /\ log[Len(log)] \in Chunks
    BY <1>2, <2>1, ElementOfSeq DEF LogOK
  <2>3. log[Len(log)].seq = chunk.seq
    BY <1>1, <1>2, <2>1, <2>2 DEF SentOK, Chunks
  <2>. QED
    BY <1>1, <1>2, <2>1, <2>2, <2>3 DEF SentOK
<1>. QED
  BY <1>2, <1>3, <1>4, AcceptedIsHighest

LEMMA SentKeeps == ASSUME IInv, Sent PROVE IInv'
<1>. USE DEF Sent, bufferVars, closeVars, farmVars
<1>1. TypeOK'
  BY DEF IInv, TypeOK
<1>2. SentOK' /\ LogOK' /\ ChunkOK' /\ NumbersOK' /\ LastOK'
  BY DEF IInv, SentOK, LogOK, ChunkOK, NumbersOK, LastOK
<1>3. LogIsWhole'
  BY SentIsLogged DEF IInv, LogIsWhole, Bytes
<1>4. CloseFlushes' /\ WokenWhenFull'
  BY DEF CloseFlushes, WokenWhenFull
<1>. QED
  BY <1>1, <1>2, <1>3, <1>4 DEF IInv

LEMMA UnansweredKeeps == ASSUME IInv, Unanswered \/ Refused PROVE IInv'
<1>. USE SizesAssumption DEF Unanswered, Refused, closeVars, farmVars
<1>1. chunk \in sent /\ chunk \in Chunks /\ chunk.hi <= taken /\ 1 <= chunk.lo
  BY DEF IInv, TypeOK, SentOK, ChunkOK, NumbersOK
<1>2. TypeOK'
  <2>1. Bytes(chunk) \subseteq 1..Output
    BY <1>1 DEF IInv, TypeOK, Bytes, Chunks
  <2>2. lost' \subseteq 1..Output
    BY <2>1 DEF IInv, TypeOK
  <2>3. tries' \in 0..(Attempts - 1)
    BY DEF IInv, TypeOK
  <2>. QED
    BY <2>2, <2>3 DEF IInv, TypeOK
<1>3. SentOK' /\ LogOK' /\ ChunkOK' /\ NumbersOK' /\ LastOK'
  BY DEF IInv, SentOK, LogOK, ChunkOK, NumbersOK, LastOK
<1>4. LogIsWhole'
  BY DEF IInv, LogIsWhole, Bytes
<1>5. CloseFlushes' /\ WokenWhenFull'
  BY DEF CloseFlushes, WokenWhenFull
<1>. QED
  BY <1>2, <1>3, <1>4, <1>5 DEF IInv

LEMMA RetryKeeps == ASSUME IInv, Retry PROVE IInv'
<1>. USE DEF Retry, bufferVars, closeVars, farmVars
<1>1. TypeOK'
  BY DEF IInv, TypeOK
<1>2. SentOK' /\ LogOK' /\ ChunkOK' /\ NumbersOK' /\ LogIsWhole'
  BY ChunksStay
<1>3. LastOK' /\ CloseFlushes' /\ WokenWhenFull'
  BY DEF IInv, LastOK, CloseFlushes, WokenWhenFull
<1>. QED
  BY <1>1, <1>2, <1>3 DEF IInv

LEMMA SentGoneKeeps == ASSUME IInv, SentGone PROVE IInv'
<1>. USE DEF SentGone, Rest, bufferVars, closeVars, farmVars
<1>1. TypeOK'
  BY DEF IInv, TypeOK
<1>2. SentOK' /\ LogOK' /\ ChunkOK' /\ NumbersOK' /\ LastOK'
  BY DEF IInv, SentOK, LogOK, ChunkOK, NumbersOK, LastOK
<1>3. LogIsWhole' /\ CloseFlushes' /\ WokenWhenFull'
  BY DEF LogIsWhole, CloseFlushes, WokenWhenFull
<1>. QED
  BY <1>1, <1>2, <1>3 DEF IInv

-----------------------------------------------------------------------------
(* close() and the farm.                                                   *)

LEMMA CloseKeeps == ASSUME IInv, Close \/ CloseReturns \/ CloseDropped PROVE IInv'
<1>. USE DEF Close, CloseReturns, CloseDropped, bufferVars, flushVars, farmVars
<1>1. TypeOK'
  <2>1. CASE Close
    BY <2>1, SizesAssumption DEF IInv, TypeOK
  <2>2. CASE CloseReturns
    BY <2>2 DEF IInv, TypeOK
  <2>3. CASE CloseDropped
    BY <2>3 DEF IInv, TypeOK
  <2>. QED
    BY <2>1, <2>2, <2>3
<1>2. SentOK' /\ LogOK' /\ ChunkOK' /\ NumbersOK' /\ LogIsWhole'
  BY ChunksStay
<1>3. LastOK' /\ CloseFlushes'
  BY DEF IInv, TypeOK, LastOK, CloseFlushes
<1>4. WokenWhenFull'
  BY DEF IInv, WokenWhenFull
<1>. QED
  BY <1>1, <1>2, <1>3, <1>4 DEF IInv

LEMMA ArriveKeeps == ASSUME IInv, Arrive PROVE IInv'
<1>. USE DEF bufferVars, closeVars, flushVars
<1>1. PICK c \in sent : c.seq > Accepted /\ log' = Append(log, c)
  BY DEF Arrive
<1>2. UNCHANGED <<bufferVars, closeVars, flushVars, finalized>>
  BY DEF Arrive
<1>3. c \in Chunks /\ log \in Seq(Chunks) /\ LogOK
  BY DEF IInv, TypeOK
<1>4. /\ log' \in Seq(Chunks)
      /\ Len(log) \in Nat
      /\ Len(log') = Len(log) + 1
      /\ \A i \in 1..Len(log) : log'[i] = log[i]
      /\ log'[Len(log')] = c
  BY <1>1, <1>3, Appended
<1>5. TypeOK'
  BY <1>2, <1>4 DEF IInv, TypeOK
<1>6. SentOK' /\ ChunkOK' /\ NumbersOK' /\ LastOK' /\ CloseFlushes' /\ WokenWhenFull'
  BY <1>2 DEF IInv, SentOK, ChunkOK, NumbersOK, LastOK, CloseFlushes, WokenWhenFull
<1>7. LogOK'
  <2>1. \A i \in 1..Len(log') : i \in 1..Len(log) \/ i = Len(log')
    BY <1>4
  <2>2. \A i \in 1..Len(log') : log'[i] \in sent'
    BY <1>1, <1>2, <1>3, <1>4, <2>1 DEF LogOK
  <2>3. ASSUME NEW i \in 1..Len(log'), NEW j \in 1..Len(log'), i < j
        PROVE  log'[i].seq < log'[j].seq
    <3>1. i \in 1..Len(log) /\ log'[i] = log[i]
      BY <1>4, <2>3
    <3>2. log[i] \in Chunks /\ log[i].seq <= Accepted /\ Accepted \in Nat
      BY <1>3, <3>1, AcceptedIsHighest, ElementOfSeq
    <3>3. CASE j = Len(log')
      BY <1>1, <1>3, <1>4, <3>1, <3>2, <3>3 DEF Chunks
    <3>4. CASE j \in 1..Len(log)
      BY <1>3, <1>4, <2>3, <3>1, <3>4 DEF LogOK
    <3>. QED
      BY <2>1, <3>3, <3>4
  <2>. QED
    BY <2>2, <2>3 DEF LogOK
<1>8. LogIsWhole'
  <2>. SUFFICES ASSUME NEW k \in 1..taken, k \notin lost, ~gone,
                       ~(flusher \in {"sending", "backoff", "aborted"} /\ k \in Bytes(chunk))
                PROVE  \E i \in 1..Len(log') : k \in Bytes(log'[i])
    BY <1>2 DEF LogIsWhole, Bytes
  <2>1. PICK i \in 1..Len(log) : k \in Bytes(log[i])
    BY DEF IInv, LogIsWhole
  <2>. QED
    BY <1>4, <2>1
<1>. QED
  BY <1>5, <1>6, <1>7, <1>8 DEF IInv

LEMMA FinalizeKeeps == ASSUME IInv, Finalize PROVE IInv'
<1>. USE DEF Finalize, bufferVars, closeVars, flushVars
<1>1. TypeOK'
  BY DEF IInv, TypeOK
<1>2. SentOK' /\ LogOK' /\ ChunkOK' /\ NumbersOK' /\ LogIsWhole'
  BY ChunksStay
<1>3. LastOK' /\ CloseFlushes' /\ WokenWhenFull'
  BY DEF IInv, LastOK, CloseFlushes, WokenWhenFull
<1>. QED
  BY <1>1, <1>2, <1>3 DEF IInv

LEMMA StutterKeeps == ASSUME IInv, UNCHANGED vars PROVE IInv'
<1>. USE DEF vars, bufferVars, closeVars, flushVars, farmVars
<1>1. TypeOK' /\ SentOK' /\ LogOK' /\ ChunkOK' /\ NumbersOK' /\ LastOK'
  BY DEF IInv, TypeOK, SentOK, LogOK, ChunkOK, NumbersOK, LastOK
<1>2. LogIsWhole' /\ CloseFlushes' /\ WokenWhenFull'
  BY DEF IInv, LogIsWhole, Bytes, CloseFlushes, WokenWhenFull
<1>. QED
  BY <1>1, <1>2 DEF IInv

LEMMA NextInv == IInv /\ [Next]_vars => IInv'
BY PushKeeps, NotifyKeeps, WakeKeeps, FlushEndsKeeps, TakeChunkKeeps, SentKeeps,
   UnansweredKeeps, RetryKeeps, SentGoneKeeps, CloseKeeps, ArriveKeeps,
   FinalizeKeeps, StutterKeeps DEF Next, FlusherStep

-----------------------------------------------------------------------------
(* The whole invariant holds of every behaviour of the stream: the base of *)
(* every theorem below.                                                    *)
THEOREM Invariance == Spec => []IInv
BY InitInv, NextInv, PTL DEF Spec

(* The farm's log is the output in order and every byte of it at most once *)
(* (FarmLogOrdered), whatever append_log repeats and the network delays.   *)
THEOREM LogInOrder == Spec => []FarmLogOrdered
<1>1. IInv => FarmLogOrdered
  <2>. SUFFICES ASSUME IInv, NEW i \in 1..Len(log), NEW j \in 1..Len(log), i < j
                PROVE  log[i].hi < log[j].lo
    BY DEF FarmLogOrdered
  <2>. QED
    BY DEF IInv, LogOK, SentOK
<1>. QED
  BY <1>1, Invariance, PTL

(* Nothing the farm acknowledged is missing from its log (LogIsWhole).     *)
THEOREM NothingAcknowledgedIsMissing == Spec => []LogIsWhole
<1>1. IInv => LogIsWhole
  BY DEF IInv
<1>. QED
  BY <1>1, Invariance, PTL

(* A flusher that stops after a close has taken all of it (CloseFlushes).  *)
THEOREM CloseTakesAll == Spec => []CloseFlushes
<1>1. IInv => CloseFlushes
  BY DEF IInv
<1>. QED
  BY <1>1, Invariance, PTL

(* No wake-up of the flusher is lost (WokenWhenFull).                      *)
THEOREM NoLostWakeup == Spec => []WokenWhenFull
<1>1. IInv => WokenWhenFull
  BY DEF IInv
<1>. QED
  BY <1>1, Invariance, PTL

(* After a 410 the flusher sends nothing more (SilentAfterGone).           *)
THEOREM SilenceAfterGone == Spec => SilentAfterGone
<1>1. [Next]_vars => [gone => sent' = sent]_vars
  <2>. SUFFICES ASSUME [Next]_vars, gone PROVE sent' = sent
    OBVIOUS
  <2>. USE DEF bufferVars, closeVars, flushVars, farmVars
  <2>1. CASE UNCHANGED vars
    BY <2>1 DEF vars
  <2>2. CASE Push \/ NotifyFilled \/ Arrive \/ Finalize
    BY <2>2 DEF Push, NotifyFilled, Arrive, Finalize
  <2>3. CASE Wake \/ WakeClosing \/ Close \/ CloseReturns \/ CloseDropped
    BY <2>3 DEF Wake, WakeClosing, Close, CloseReturns, CloseDropped
  <2>4. CASE FlusherStep
    BY <2>4 DEF FlusherStep, FlushEnds, TakeChunk, Sent, Unanswered, Retry, Refused, SentGone
  <2>. QED
    BY <2>1, <2>2, <2>3, <2>4 DEF Next
<1>. QED
  BY <1>1, PTL DEF Spec, SilentAfterGone
=============================================================================
