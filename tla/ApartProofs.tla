------------------------------ MODULE ApartProofs ------------------------------
(* Proofs about the parts that MCApart sets up side by side.

   Terminal: for any cap of at least two bytes and any output, every byte of a
   run is handed to the log stream once and in order, whatever was cut, and the
   farm's copy and the history are what was written.

   ShutdownBudget: for any timeouts that keep the orders of SlackAssumption and
   any drain timeouts, a daemon that does not warn of its installation at its
   start is gone within the ExitTimeOut of that installation.

   Ansi: whatever the text, the scanner leaves what the grammar leaves.

   PlanFile: whatever the lines, the parser reads what the plan says.

   Descriptions: whatever finalize wrote, and whatever is at its path, the pull
   request says that text, whole and nothing else, or nothing of it. *)
EXTENDS MCApart, SequenceTheorems, FiniteSetTheorems, WellFoundedInduction, TLAPS

-----------------------------------------------------------------------------
(* Lines: nothing is lost.                                                 *)

\* A newline right after a cut ends the line that was cut: there is nothing else
\* that it could end.
TerminalInv ==
  /\ fed \in Seq(Bytes) /\ raw \in Seq(Bytes)
  /\ cut \in BOOLEAN /\ closed \in BOOLEAN
  /\ NothingLost
  /\ cut => pending = << >>

LEMMA LinesInit == TerminalInit => TerminalInv
<1>. SUFFICES ASSUME TerminalInit PROVE TerminalInv
  OBVIOUS
<1>1. fed = << >> /\ raw = << >> /\ pending = << >> /\ cut = FALSE /\ closed = FALSE
  BY DEF TerminalInit
<1>2. /\ << >> \in Seq(Bytes) /\ << >> \in Seq(Bytes \ {"nl"}) /\ Len(<< >>) = 0
  BY EmptySeq
<1>3. << >> \o << >> = << >>
  BY <1>2, ConcatEmptySeq
<1>4. NothingLost
  BY <1>1, <1>2, <1>3, ChunkAssumption DEF NothingLost
<1>. QED
  BY <1>1, <1>2, <1>4 DEF TerminalInv

\* The bytes that are kept back are bytes.
LEMMA PendingBytes ==
  ASSUME TerminalInv
  PROVE  pending \in Seq(Bytes)
BY SeqMonotonic DEF TerminalInv, NothingLost

\* What is read goes behind what is kept back.
LEMMA FedBehind ==
  ASSUME TerminalInv, NEW b \in Bytes
  PROVE  /\ Append(fed, b) = raw \o Append(pending, b)
         /\ Append(fed, b) \in Seq(Bytes)
<1>1. pending \in Seq(Bytes) /\ raw \in Seq(Bytes) /\ fed = raw \o pending
  BY PendingBytes DEF TerminalInv, NothingLost
<1>2. <<b>> \in Seq(Bytes)
  OBVIOUS
<1>3. Append(fed, b) = fed \o <<b>> /\ Append(pending, b) = pending \o <<b>>
  BY <1>1, AppendIsConcat DEF TerminalInv
<1>4. (raw \o pending) \o <<b>> = raw \o (pending \o <<b>>)
  BY <1>1, <1>2, ConcatAssociative
<1>. QED
  BY <1>1, <1>3, <1>4, AppendProperties DEF TerminalInv

-----------------------------------------------------------------------------

\* A newline: behind a cut nothing is kept back, so the break alone is handed over.
LEMMA NewlineKeeps ==
  ASSUME TerminalInv, fed' = Append(fed, "nl"), Newline, ~closed, closed' = closed
  PROVE  TerminalInv'
<1>1. "nl" \in Bytes
  BY DEF Bytes
<1>2. pending \in Seq(Bytes) /\ << >> \in Seq(Bytes) /\ << >> \in Seq(Bytes \ {"nl"})
  BY PendingBytes, EmptySeq
<1>3. fed' = raw \o Append(pending, "nl") /\ fed' \in Seq(Bytes)
  BY <1>1, FedBehind
<1>4. CASE cut
  <2>1. raw' = Append(raw, "nl") /\ cut' = FALSE /\ pending' = pending
    BY <1>4 DEF Newline, PushBreak
  <2>2. pending = << >>
    BY <1>4 DEF TerminalInv
  <2>3. fed = raw
    BY <2>2, ConcatEmptySeq DEF TerminalInv, NothingLost
  <2>4. raw' \in Seq(Bytes)
    BY <1>1, <2>1, AppendProperties DEF TerminalInv
  <2>5. raw' \o pending' = raw'
    BY <2>1, <2>2, <2>4, ConcatEmptySeq
  <2>6. NothingLost'
    BY <2>1, <2>3, <2>5 DEF TerminalInv, NothingLost
  <2>. QED
    BY <1>3, <2>1, <2>4, <2>6 DEF TerminalInv
<1>5. CASE ~cut
  <2>1. raw' = raw \o (pending \o <<"nl">>) /\ pending' = << >> /\ cut' = cut
    BY <1>5 DEF Newline, PushLine
  <2>2. raw' = fed'
    BY <1>1, <1>2, <1>3, <2>1, AppendIsConcat
  <2>3. raw' \o pending' = raw'
    BY <1>3, <2>1, <2>2, ConcatEmptySeq
  <2>4. Len(<< >>) = 0
    BY EmptySeq
  <2>5. NothingLost'
    <3>1. fed' = raw' \o pending'
      BY <2>2, <2>3
    <3>2. pending' \in Seq(Bytes \ {"nl"}) /\ Len(pending') < MaxChunk
      BY <1>2, <2>1, <2>4, ChunkAssumption
    <3>. QED
      BY <2>1, <3>1, <3>2 DEF NothingLost
  <2>. QED
    BY <1>3, <1>5, <2>1, <2>2, <2>5 DEF TerminalInv
<1>. QED
  BY <1>4, <1>5

\* A cut hands a part of the line over and keeps the rest, a byte of a character
\* at most.
LEMMA ForceKeeps ==
  ASSUME TerminalInv, NEW b \in Bytes \ {"nl"}, fed' = Append(fed, b), ~closed, closed' = closed,
         ForceLine(Append(pending, b))
  PROVE  TerminalInv'
<1>. DEFINE line == Append(pending, b)
            boundary == FloorBoundary(line)
<1>1. /\ raw' = raw \o (SubSeq(line, 1, boundary) \o << >>)
      /\ pending' = SubSeq(line, boundary + 1, Len(line))
      /\ cut' = (pending' = << >>)
  BY DEF ForceLine, PushLine
<1>2. fed' = raw \o line /\ fed' \in Seq(Bytes)
  BY FedBehind
<1>3. /\ line \in Seq(Bytes \ {"nl"}) /\ line \in Seq(Bytes)
      /\ Len(line) \in Nat /\ Len(line) >= 1
      /\ raw \in Seq(Bytes)
  BY PendingBytes, AppendProperties, LenProperties DEF TerminalInv, NothingLost
<1>4. boundary \in 0 .. Len(line) /\ boundary >= Len(line) - 1
  BY <1>3 DEF FloorBoundary
<1>. HIDE DEF line, boundary
<1>5. /\ SubSeq(line, 1, boundary) \in Seq(Bytes)
      /\ SubSeq(line, boundary + 1, Len(line)) \in Seq(Bytes \ {"nl"})
      /\ SubSeq(line, boundary + 1, Len(line)) \in Seq(Bytes)
      /\ Len(SubSeq(line, boundary + 1, Len(line))) <= 1
  <2>1. /\ \A i \in 1 .. boundary : line[i] \in Bytes
        /\ \A i \in (boundary + 1) .. Len(line) : line[i] \in Bytes \ {"nl"} /\ line[i] \in Bytes
    BY <1>3, <1>4, ElementOfSeq
  <2>. QED
    BY <1>3, <1>4, <2>1, SubSeqProperties
<1>6. raw' = raw \o SubSeq(line, 1, boundary)
  BY <1>1, <1>5, ConcatEmptySeq
<1>7. SubSeq(line, 1, boundary) \o SubSeq(line, boundary + 1, Len(line)) = line
  <2>1. SubSeq(line, 1, boundary) \o SubSeq(line, boundary + 1, Len(line))
          = SubSeq(line, 1, Len(line))
    <3>1. /\ 1 \in 1 .. Len(line) + 1 /\ boundary \in (1 - 1) .. Len(line)
          /\ Len(line) \in boundary .. Len(line)
      BY <1>3, <1>4
    <3>. QED
      BY <1>3, <3>1, ConcatAdjacentSubSeq
  <2>. QED
    BY <1>3, <2>1, SubSeqFull
<1>8. fed' = raw' \o pending'
  <2>. DEFINE front == SubSeq(line, 1, boundary)
              rest == SubSeq(line, boundary + 1, Len(line))
  <2>1. /\ raw \in Seq(Bytes) /\ front \in Seq(Bytes) /\ rest \in Seq(Bytes)
        /\ raw' = raw \o front /\ pending' = rest /\ fed' = raw \o (front \o rest)
    BY <1>1, <1>2, <1>3, <1>5, <1>6, <1>7
  <2>. HIDE DEF front, rest
  <2>2. (raw \o front) \o rest = raw \o (front \o rest)
    BY <2>1, ConcatAssociative
  <2>. QED
    BY <2>1, <2>2
<1>9. raw' \in Seq(Bytes)
  BY <1>3, <1>5, <1>6, ConcatProperties
<1>10. NothingLost'
  <2>1. pending' \in Seq(Bytes \ {"nl"}) /\ Len(pending') < MaxChunk
    BY <1>1, <1>5, LenProperties, ChunkAssumption
  <2>. QED
    BY <1>8, <2>1 DEF NothingLost
<1>11. cut' \in BOOLEAN /\ (cut' => pending' = << >>)
  BY <1>1
<1>. QED
  BY <1>2, <1>9, <1>10, <1>11 DEF TerminalInv

LEMMA FeedKeeps == ASSUME TerminalInv, NEW b \in Bytes, Feed(b) PROVE TerminalInv'
<1>1. ~closed /\ fed' = Append(fed, b) /\ closed' = closed
  BY DEF Feed
<1>2. CASE b = "nl"
  BY <1>1, <1>2, NewlineKeeps DEF Feed
<1>3. CASE b # "nl" /\ Len(Append(pending, b)) >= MaxChunk
  <2>1. ForceLine(Append(pending, b))
    BY <1>3 DEF Feed, Keep
  <2>. QED
    BY <1>1, <1>3, <2>1, ForceKeeps
<1>4. CASE b # "nl" /\ ~(Len(Append(pending, b)) >= MaxChunk)
  <2>1. pending' = Append(pending, b) /\ cut' = FALSE /\ raw' = raw
    BY <1>4 DEF Feed, Keep
  <2>2. pending' \in Seq(Bytes \ {"nl"}) /\ Len(pending') \in Nat
    BY <1>4, <2>1, AppendProperties, LenProperties DEF TerminalInv, NothingLost
  <2>3. fed' = raw' \o pending' /\ fed' \in Seq(Bytes)
    BY <1>1, <2>1, FedBehind
  <2>4. NothingLost'
    BY <1>1, <1>4, <2>1, <2>2, <2>3, ChunkAssumption DEF NothingLost
  <2>. QED
    BY <1>1, <2>1, <2>3, <2>4 DEF TerminalInv
<1>. QED
  BY <1>2, <1>3, <1>4

LEMMA FinishKeeps == ASSUME TerminalInv, FinishLines PROVE TerminalInv'
<1>1. fed' = fed /\ cut' = cut /\ closed' = TRUE
  BY DEF FinishLines
<1>2. CASE pending = << >>
  <2>1. pending' = pending /\ raw' = raw
    BY <1>2 DEF FinishLines
  <2>. QED
    BY <1>1, <1>2, <2>1 DEF TerminalInv, NothingLost
<1>3. CASE pending # << >>
  <2>1. raw' = raw \o (pending \o << >>) /\ pending' = << >>
    BY <1>3 DEF FinishLines, PushLine
  <2>2. raw' = fed /\ raw' \in Seq(Bytes) /\ raw' \o << >> = raw'
    BY <2>1, PendingBytes, ConcatEmptySeq DEF TerminalInv, NothingLost
  <2>3. << >> \in Seq(Bytes \ {"nl"}) /\ Len(<< >>) = 0
    BY EmptySeq
  <2>4. NothingLost'
    BY <1>1, <2>1, <2>2, <2>3, ChunkAssumption DEF NothingLost
  <2>. QED
    BY <1>1, <1>3, <2>1, <2>2, <2>4 DEF TerminalInv
<1>. QED
  BY <1>2, <1>3

\* Nothing a run prints is lost, repeated or moved, and what is kept back stays
\* below the cap.
THEOREM OutputHandedOver == TerminalSpec => []NothingLost
<1>1. TerminalInit => TerminalInv
  BY LinesInit
<1>2. TerminalInv /\ [TerminalNext]_terminalVars => TerminalInv'
  <2>. SUFFICES ASSUME TerminalInv, [TerminalNext]_terminalVars PROVE TerminalInv'
    OBVIOUS
  <2>1. CASE \E b \in Bytes : Feed(b)
    BY <2>1, FeedKeeps
  <2>2. CASE FinishLines
    BY <2>2, FinishKeeps
  <2>3. CASE TerminalClosed \/ UNCHANGED terminalVars
    <3>1. UNCHANGED <<fed, pending, cut, raw, closed>>
      BY <2>3 DEF TerminalClosed, terminalVars
    <3>2. NothingLost'
      BY <3>1 DEF TerminalInv, NothingLost
    <3>. QED
      BY <3>1, <3>2 DEF TerminalInv
  <2>. QED
    BY <2>1, <2>2, <2>3 DEF TerminalNext
<1>3. TerminalInv => NothingLost
  BY DEF TerminalInv
<1>. QED
  BY <1>1, <1>2, <1>3, PTL DEF TerminalSpec

-----------------------------------------------------------------------------
(* The shutdown budget.  The inductive invariant bounds the time since the
   signal at every place the holder of the slot can wait at; what one wait adds
   is its bound, so each bound is that of the place before plus one timeout.
   The sum of exit_timeout is the bound of the last place. *)

Inspecting == {"checkout", "rev_parse", "plan"}

\* The drain timer has fired.
Drained == VALIDATE_TIMEOUT + WATCH_START_TIMEOUT + drain

\* A run that exited by itself has closed its log.
Quiet == Drained + PROGRESS_POST_TIMEOUT + STOP_GRACE + LOG_CLOSE_TIMEOUT

\* The completion is all that is left.
Settled ==
  Quiet + PROGRESS_POST_TIMEOUT + PROGRESS_POST_TIMEOUT + STOP_GRACE + 6 * PR_STEP_TIMEOUT

BudgetTypeOK ==
  /\ drain \in Nat /\ installed \in Nat
  /\ at \in {"claiming", "titling", "minting", "drain_after", "watching", "running",
             "unspawned", "stopping", "opening", "emptying", "closing", "pr", "failing",
             "completing", "backing_off", "removing", "gone"} \cup Inspecting \cup PrPlaces
  /\ ended \in {"terminal", "exited"}
  /\ signalled \in BOOLEAN
  /\ now \in Nat /\ drainAt \in Nat /\ elapsed \in Nat

\* Time is counted from the signal on, and the drain timer started by then.
ClockOK ==
  /\ ~signalled => now = 0
  /\ drainAt <= VALIDATE_TIMEOUT + drain

BeforeOK ==
  /\ at \in {"claiming", "titling"} => now = 0
  /\ at \in Inspecting => now <= elapsed /\ elapsed <= VALIDATE_TIMEOUT
  /\ at \in {"minting", "drain_after", "watching"} => now <= VALIDATE_TIMEOUT
  /\ at \in {"running", "unspawned"} => now <= VALIDATE_TIMEOUT + WATCH_START_TIMEOUT

\* What a run that exited by itself and one that was stopped have taken differs:
\* the opening snapshot of the one against the grace of the other.
EndingOK ==
  /\ at = "stopping" => ended = "terminal" /\ now <= Drained
  /\ at = "opening" => ended = "exited" /\ now <= Drained
  /\ at = "emptying" =>
       now <= Drained + (IF ended = "exited" THEN PROGRESS_POST_TIMEOUT ELSE STOP_GRACE)
  /\ at = "closing" =>
       now <= Drained + STOP_GRACE
                      + (IF ended = "exited" THEN PROGRESS_POST_TIMEOUT ELSE STOP_GRACE)
  /\ at = "failing" =>
       now <= Quiet + PROGRESS_POST_TIMEOUT + 6 * PR_STEP_TIMEOUT
                    + (IF ended = "exited" THEN 0 ELSE STOP_GRACE)

PublishingOK ==
  /\ at \in {"pr"} \cup PrPlaces => ended = "exited"
  /\ at = "pr" => now <= Quiet
  /\ at = "checked_out" => now <= Quiet + PROGRESS_POST_TIMEOUT
  /\ at = "list" => now <= Quiet + PROGRESS_POST_TIMEOUT + PR_STEP_TIMEOUT
  /\ at \in {"push", "push_existing"} =>
       now <= Quiet + PROGRESS_POST_TIMEOUT + 2 * PR_STEP_TIMEOUT
  /\ at = "base" => now <= Quiet + PROGRESS_POST_TIMEOUT + 3 * PR_STEP_TIMEOUT
  /\ at = "view" => now <= Quiet + PROGRESS_POST_TIMEOUT + 4 * PR_STEP_TIMEOUT
  /\ at = "create" => now <= Quiet + PROGRESS_POST_TIMEOUT + 5 * PR_STEP_TIMEOUT

CompletingOK ==
  /\ at = "completing" => now <= Settled + elapsed /\ elapsed <= COMPLETE_BUDGET + RETRY_MAX_DELAY
  /\ at = "backing_off" => now <= Settled + elapsed /\ elapsed <= COMPLETE_BUDGET
  /\ at = "removing" =>
       now <= Settled + COMPLETE_BUDGET + RETRY_MAX_DELAY + REQUEST_TIMEOUT
  /\ at = "gone" => now <= ExitTimeout(drain)

BudgetInv ==
  BudgetTypeOK /\ ClockOK /\ BeforeOK /\ EndingOK /\ PublishingOK /\ CompletingOK

USE DEF Inspecting, PrPlaces

-----------------------------------------------------------------------------

\* The bounds of two places, as sums of timeouts.
LEMMA Sums ==
  ASSUME BudgetTypeOK
  PROVE  /\ Drained \in Nat
         /\ Quiet = Drained + PROGRESS_POST_TIMEOUT + STOP_GRACE + LOG_CLOSE_TIMEOUT
         /\ Settled = Quiet + 2 * PROGRESS_POST_TIMEOUT + STOP_GRACE + 6 * PR_STEP_TIMEOUT
         /\ PR_BUDGET = 6 * PR_STEP_TIMEOUT
         /\ ExitTimeout(drain) = Settled + COMPLETE_BUDGET + RETRY_MAX_DELAY
                                 + REQUEST_TIMEOUT + OUTPUT_REMOVE_TIMEOUT
         /\ ExitTimeout(drain) \in Nat
BY TimesAssumption DEF BudgetTypeOK, Drained, Quiet, Settled, PR_BUDGET, ExitTimeout

\* A wait takes no longer than its bound, and no time at all before the signal.
LEMMA WaitTakes ==
  ASSUME BudgetInv, NEW from, NEW to, Wait(from, to), NEW b \in Nat, Bound(from) = b
  PROVE  /\ at = from /\ at' \in to
         /\ now' \in Nat /\ now' <= now + b
         /\ ClockOK'
         /\ UNCHANGED <<drain, installed, signalled, drainAt>>
<1>1. PICK d \in 0 .. b : Take(d)
  BY DEF Wait
<1>2. UNCHANGED <<drain, installed, signalled, drainAt>>
  BY DEF Wait
<1>. QED
  BY <1>1, <1>2 DEF Wait, Take, BudgetInv, BudgetTypeOK, ClockOK

LEMMA InspectTakes ==
  ASSUME BudgetInv, NEW from, NEW to, from \in Inspecting, Inspect(from, to)
  PROVE  /\ at' \in {to, "completing"}
         /\ now' \in Nat /\ elapsed' \in Nat
         /\ now' <= VALIDATE_TIMEOUT
         /\ at' = "completing" => elapsed' = 0
         /\ at' # "completing" => now' <= elapsed' /\ elapsed' <= VALIDATE_TIMEOUT
         /\ ClockOK'
         /\ UNCHANGED <<drain, installed, signalled, drainAt, ended>>
<1>1. PICK d \in 0 .. (VALIDATE_TIMEOUT - elapsed) :
        /\ Take(d)
        /\ at' \in {to, "completing"}
        /\ elapsed' = IF at' = "completing" THEN 0 ELSE elapsed + d
  BY DEF Inspect
<1>2. UNCHANGED <<drain, installed, signalled, drainAt, ended>>
  BY DEF Inspect
<1>3. now <= elapsed /\ elapsed <= VALIDATE_TIMEOUT /\ now \in Nat /\ elapsed \in Nat
  BY DEF Inspect, BudgetInv, BudgetTypeOK, BeforeOK
<1>4. now' \in Nat /\ now' <= now + d
  BY <1>1, <1>3 DEF Take
<1>5. ClockOK'
  BY <1>1, <1>2 DEF Take, BudgetInv, ClockOK
<1>. QED
  BY <1>1, <1>2, <1>3, <1>4, <1>5, TimesAssumption

-----------------------------------------------------------------------------
(* Before a run. *)

LEMMA BudgetInitInv == BudgetInit => BudgetInv
<1>. SUFFICES ASSUME BudgetInit PROVE BudgetInv
  OBVIOUS
<1>1. drain \in Nat /\ installed \in Nat
  <2>1. PICK d \in DrainTimeouts : installed = ExitTimeout(d)
    BY DEF BudgetInit
  <2>. QED
    BY <2>1, TimesAssumption DEF BudgetInit, ExitTimeout, PR_BUDGET
<1>2. at = "claiming" /\ ended = "terminal" /\ signalled = FALSE /\ now = 0 /\ drainAt = 0 /\ elapsed = 0
  BY DEF BudgetInit
<1>3. BudgetTypeOK
  BY <1>1, <1>2 DEF BudgetTypeOK
<1>4. ClockOK
  BY <1>1, <1>2, TimesAssumption DEF ClockOK
<1>5. BeforeOK /\ EndingOK /\ PublishingOK /\ CompletingOK
  BY <1>2 DEF BeforeOK, EndingOK, PublishingOK, CompletingOK
<1>. QED
  BY <1>3, <1>4, <1>5 DEF BudgetInv

LEMMA SignalKeeps == ASSUME BudgetInv, Signal PROVE BudgetInv'
<1>1. BudgetTypeOK' /\ ClockOK'
  BY TimesAssumption DEF Signal, BudgetInv, BudgetTypeOK, ClockOK
<1>2. BeforeOK' /\ EndingOK' /\ PublishingOK' /\ CompletingOK'
  BY DEF Signal, BudgetInv, BudgetTypeOK, BeforeOK, EndingOK, PublishingOK, CompletingOK,
         Drained, Quiet, Settled, ExitTimeout
<1>. QED
  BY <1>1, <1>2 DEF BudgetInv

LEMMA ClaimKeeps == ASSUME BudgetInv, Claim PROVE BudgetInv'
<1>. DEFINE to == IF signalled THEN {"gone", "completing"} ELSE {"claiming", "titling", "checkout"}
<1>1. Bound("claiming") = CLAIM_TIMEOUT
  BY DEF Bound
<1>2. Wait("claiming", to)
  BY DEF Claim
<1>3. /\ at = "claiming" /\ at' \in to
      /\ now' \in Nat /\ now' <= now + CLAIM_TIMEOUT /\ ClockOK'
      /\ UNCHANGED <<drain, installed, signalled, drainAt>>
  BY <1>1, <1>2, WaitTakes, TimesAssumption
<1>4. now' <= CLAIM_TIMEOUT /\ elapsed' = 0 /\ ended' = ended
  BY <1>3, TimesAssumption DEF Claim, BudgetInv, BeforeOK
<1>5. ~signalled => now' = 0
  BY <1>3 DEF ClockOK
<1>6. /\ Settled \in Nat /\ Settled' = Settled /\ CLAIM_TIMEOUT <= Settled
      /\ ExitTimeout(drain) \in Nat /\ Settled <= ExitTimeout(drain)
  BY <1>3, Sums, TimesAssumption, SlackAssumption DEF BudgetInv, Settled, Quiet, Drained
<1>7. BudgetTypeOK'
  BY <1>3, <1>4 DEF BudgetInv, BudgetTypeOK
<1>8. BeforeOK' /\ EndingOK' /\ PublishingOK'
  BY <1>3, <1>4, <1>5, TimesAssumption DEF BeforeOK, EndingOK, PublishingOK
<1>9. CompletingOK'
  BY <1>3, <1>4, <1>5, <1>6, TimesAssumption DEF CompletingOK
<1>. QED
  BY <1>3, <1>7, <1>8, <1>9 DEF BudgetInv

LEMMA TitleKeeps == ASSUME BudgetInv, Title PROVE BudgetInv'
<1>1. Bound("titling") = VALIDATE_TIMEOUT
  BY DEF Bound
<1>2. Wait("titling", {"minting"}) /\ ended' = ended /\ elapsed' = elapsed
  BY DEF Title
<1>3. /\ at = "titling" /\ at' = "minting"
      /\ now' \in Nat /\ now' <= now + VALIDATE_TIMEOUT /\ ClockOK'
      /\ UNCHANGED <<drain, installed, signalled, drainAt>>
  BY <1>1, <1>2, WaitTakes, TimesAssumption
<1>4. BudgetTypeOK'
  BY <1>2, <1>3 DEF BudgetInv, BudgetTypeOK
<1>5. BeforeOK' /\ EndingOK' /\ PublishingOK' /\ CompletingOK'
  BY <1>3, TimesAssumption DEF BudgetInv, BeforeOK, EndingOK, PublishingOK, CompletingOK
<1>. QED
  BY <1>3, <1>4, <1>5 DEF BudgetInv

LEMMA MintKeeps == ASSUME BudgetInv, Mint PROVE BudgetInv'
<1>. DEFINE to == IF signalled THEN {"gone", "completing"} ELSE {"claiming", "checkout"}
<1>1. Bound("minting") = REQUEST_TIMEOUT
  BY DEF Bound
<1>2. Wait("minting", to) /\ ended' = ended /\ elapsed' = 0
  BY DEF Mint
<1>3. /\ at = "minting" /\ at' \in to
      /\ now' \in Nat /\ now' <= now + REQUEST_TIMEOUT /\ ClockOK'
      /\ UNCHANGED <<drain, installed, signalled, drainAt>>
  BY <1>1, <1>2, WaitTakes, TimesAssumption
<1>4. now' <= VALIDATE_TIMEOUT + REQUEST_TIMEOUT /\ (~signalled => now' = 0)
  BY <1>3, TimesAssumption DEF BudgetInv, BudgetTypeOK, BeforeOK, ClockOK
<1>5. /\ Settled \in Nat /\ Settled' = Settled /\ VALIDATE_TIMEOUT + REQUEST_TIMEOUT <= Settled
      /\ ExitTimeout(drain) \in Nat /\ Settled <= ExitTimeout(drain)
  BY <1>3, Sums, TimesAssumption, SlackAssumption
  DEF BudgetInv, BudgetTypeOK, Settled, Quiet, Drained
<1>6. BudgetTypeOK'
  BY <1>2, <1>3 DEF BudgetInv, BudgetTypeOK
<1>7. BeforeOK' /\ EndingOK' /\ PublishingOK'
  BY <1>2, <1>3, <1>4, TimesAssumption DEF BeforeOK, EndingOK, PublishingOK
<1>8. CompletingOK'
  BY <1>2, <1>3, <1>4, <1>5, TimesAssumption DEF CompletingOK
<1>. QED
  BY <1>3, <1>6, <1>7, <1>8 DEF BudgetInv

-----------------------------------------------------------------------------
(* The run. *)

\* One deadline for the three waits of the inspection.
LEMMA InspectKeeps ==
  ASSUME BudgetInv, NEW from \in Inspecting, NEW to \in {"rev_parse", "plan", "drain_after"},
         Inspect(from, to)
  PROVE  BudgetInv'
<1>1. /\ at' \in {to, "completing"}
      /\ now' \in Nat /\ elapsed' \in Nat
      /\ now' <= VALIDATE_TIMEOUT
      /\ at' = "completing" => elapsed' = 0
      /\ at' # "completing" => now' <= elapsed' /\ elapsed' <= VALIDATE_TIMEOUT
      /\ ClockOK'
      /\ UNCHANGED <<drain, installed, signalled, drainAt, ended>>
  BY InspectTakes
<1>2. Settled \in Nat /\ Settled' = Settled /\ VALIDATE_TIMEOUT <= Settled
  BY <1>1, Sums, TimesAssumption DEF BudgetInv, BudgetTypeOK, Settled, Quiet, Drained
<1>3. BudgetTypeOK'
  BY <1>1 DEF BudgetInv, BudgetTypeOK
<1>4. BeforeOK' /\ EndingOK' /\ PublishingOK'
  BY <1>1, TimesAssumption DEF BeforeOK, EndingOK, PublishingOK
<1>5. CompletingOK'
  <2>1. CASE at' = "completing"
    BY <1>1, <1>2, <2>1, TimesAssumption DEF CompletingOK
  <2>2. CASE at' = to
    BY <2>2 DEF CompletingOK
  <2>. QED
    BY <1>1, <2>1, <2>2
<1>. QED
  BY <1>1, <1>3, <1>4, <1>5 DEF BudgetInv

LEMMA DrainAfterKeeps == ASSUME BudgetInv, DrainAfter PROVE BudgetInv'
<1>1. /\ at = "drain_after" /\ at' = "watching" /\ drainAt' = now + drain
      /\ UNCHANGED <<drain, installed, ended, signalled, now, elapsed>>
  BY DEF DrainAfter
<1>2. now <= VALIDATE_TIMEOUT /\ now \in Nat /\ drain \in Nat
  BY <1>1 DEF BudgetInv, BudgetTypeOK, BeforeOK
<1>3. BudgetTypeOK' /\ ClockOK'
  BY <1>1, <1>2, TimesAssumption DEF BudgetInv, BudgetTypeOK, ClockOK
<1>4. BeforeOK' /\ EndingOK' /\ PublishingOK' /\ CompletingOK'
  BY <1>1, <1>2 DEF BeforeOK, EndingOK, PublishingOK, CompletingOK
<1>. QED
  BY <1>3, <1>4 DEF BudgetInv

LEMMA WatchKeeps == ASSUME BudgetInv, Watch PROVE BudgetInv'
<1>1. Bound("watching") = WATCH_START_TIMEOUT
  BY DEF Bound
<1>2. Wait("watching", {"running", "unspawned"}) /\ ended' = ended /\ elapsed' = elapsed
  BY DEF Watch
<1>3. /\ at = "watching" /\ at' \in {"running", "unspawned"}
      /\ now' \in Nat /\ now' <= now + WATCH_START_TIMEOUT /\ ClockOK'
      /\ UNCHANGED <<drain, installed, signalled, drainAt>>
  BY <1>1, <1>2, WaitTakes, TimesAssumption
<1>4. now' <= VALIDATE_TIMEOUT + WATCH_START_TIMEOUT
  BY <1>3, TimesAssumption DEF BudgetInv, BudgetTypeOK, BeforeOK
<1>5. BudgetTypeOK'
  BY <1>2, <1>3 DEF BudgetInv, BudgetTypeOK
<1>6. BeforeOK' /\ EndingOK' /\ PublishingOK' /\ CompletingOK'
  BY <1>3, <1>4 DEF BeforeOK, EndingOK, PublishingOK, CompletingOK
<1>. QED
  BY <1>3, <1>5, <1>6 DEF BudgetInv

\* The drain timer ends the run at the latest, or what was left of an earlier wait.
LEMMA RunsKeeps == ASSUME BudgetInv, Runs PROVE BudgetInv'
<1>. DEFINE b == IF now < drainAt THEN drainAt - now ELSE 0
<1>0. now \in Nat /\ drainAt \in Nat /\ drain \in Nat
  BY DEF BudgetInv, BudgetTypeOK
<1>1. Bound("running") = b /\ b \in Nat
  BY <1>0 DEF Bound
<1>2. Wait("running", {"stopping", "opening"})
  BY DEF Runs
<1>3. elapsed' = elapsed /\ ended' = IF at' = "opening" THEN "exited" ELSE "terminal"
  BY DEF Runs
<1>4. /\ at = "running" /\ at' \in {"stopping", "opening"}
      /\ now' \in Nat /\ now' <= now + b /\ ClockOK'
      /\ UNCHANGED <<drain, installed, signalled, drainAt>>
  BY <1>1, <1>2, WaitTakes
<1>5. now' <= Drained'
  <2>1. now <= Drained /\ drainAt <= Drained /\ Drained' = Drained /\ Drained \in Nat
    BY <1>0, <1>4, TimesAssumption DEF BudgetInv, BeforeOK, ClockOK, Drained
  <2>2. now + b <= Drained
    BY <1>0, <2>1
  <2>. QED
    BY <1>0, <1>1, <1>4, <2>1, <2>2
<1>6. BudgetTypeOK'
  BY <1>3, <1>4 DEF BudgetInv, BudgetTypeOK
<1>7. BeforeOK' /\ EndingOK' /\ PublishingOK' /\ CompletingOK'
  BY <1>3, <1>4, <1>5 DEF BeforeOK, EndingOK, PublishingOK, CompletingOK
<1>. QED
  BY <1>4, <1>6, <1>7 DEF BudgetInv

\* The sums are of constants and the drain timeout, which no step changes.
LEMMA SumsStay ==
  ASSUME drain' = drain
  PROVE  Drained' = Drained /\ Quiet' = Quiet /\ Settled' = Settled
BY DEF Drained, Quiet, Settled

-----------------------------------------------------------------------------
(* The end of a run. *)

LEMMA UnspawnedKeeps == ASSUME BudgetInv, Unspawned PROVE BudgetInv'
<1>1. Bound("unspawned") = PROGRESS_POST_TIMEOUT
  BY DEF Bound
<1>2. Wait("unspawned", {"closing"}) /\ ended' = "terminal" /\ elapsed' = elapsed
  BY DEF Unspawned
<1>3. /\ at = "unspawned" /\ at' = "closing"
      /\ now' \in Nat /\ now' <= now + PROGRESS_POST_TIMEOUT /\ ClockOK'
      /\ UNCHANGED <<drain, installed, signalled, drainAt>>
  BY <1>1, <1>2, WaitTakes, TimesAssumption
<1>4. now' <= Drained' + STOP_GRACE + STOP_GRACE
  BY <1>3, SumsStay, TimesAssumption, SlackAssumption
  DEF BudgetInv, BudgetTypeOK, BeforeOK, Drained
<1>5. BudgetTypeOK'
  BY <1>2, <1>3 DEF BudgetInv, BudgetTypeOK
<1>6. BeforeOK' /\ EndingOK' /\ PublishingOK' /\ CompletingOK'
  BY <1>2, <1>3, <1>4 DEF BeforeOK, EndingOK, PublishingOK, CompletingOK
<1>. QED
  BY <1>3, <1>5, <1>6 DEF BudgetInv

\* The grace of the stop and the opening snapshot run side by side, and the grace is
\* the longer of them.
LEMMA StoppingKeeps == ASSUME BudgetInv, Stopping PROVE BudgetInv'
<1>1. Bound("stopping") = STOP_GRACE
  BY TimesAssumption, SlackAssumption DEF Bound
<1>2. Wait("stopping", {"emptying"}) /\ ended' = ended /\ elapsed' = elapsed
  BY DEF Stopping
<1>3. /\ at = "stopping" /\ at' = "emptying"
      /\ now' \in Nat /\ now' <= now + STOP_GRACE /\ ClockOK'
      /\ UNCHANGED <<drain, installed, signalled, drainAt>>
  BY <1>1, <1>2, WaitTakes, TimesAssumption
<1>4. ended' = "terminal" /\ now' <= Drained' + STOP_GRACE
  BY <1>2, <1>3, Sums, SumsStay, TimesAssumption DEF BudgetInv, BudgetTypeOK, EndingOK
<1>5. BudgetTypeOK'
  BY <1>2, <1>3 DEF BudgetInv, BudgetTypeOK
<1>6. BeforeOK' /\ EndingOK' /\ PublishingOK' /\ CompletingOK'
  BY <1>3, <1>4 DEF BeforeOK, EndingOK, PublishingOK, CompletingOK
<1>. QED
  BY <1>3, <1>5, <1>6 DEF BudgetInv

LEMMA OpeningKeeps == ASSUME BudgetInv, Opening PROVE BudgetInv'
<1>1. Bound("opening") = PROGRESS_POST_TIMEOUT
  BY DEF Bound
<1>2. Wait("opening", {"emptying"}) /\ ended' = ended /\ elapsed' = elapsed
  BY DEF Opening
<1>3. /\ at = "opening" /\ at' = "emptying"
      /\ now' \in Nat /\ now' <= now + PROGRESS_POST_TIMEOUT /\ ClockOK'
      /\ UNCHANGED <<drain, installed, signalled, drainAt>>
  BY <1>1, <1>2, WaitTakes, TimesAssumption
<1>4. ended' = "exited" /\ now' <= Drained' + PROGRESS_POST_TIMEOUT
  BY <1>2, <1>3, Sums, SumsStay, TimesAssumption DEF BudgetInv, BudgetTypeOK, EndingOK
<1>5. BudgetTypeOK'
  BY <1>2, <1>3 DEF BudgetInv, BudgetTypeOK
<1>6. BeforeOK' /\ EndingOK' /\ PublishingOK' /\ CompletingOK'
  BY <1>3, <1>4 DEF BeforeOK, EndingOK, PublishingOK, CompletingOK
<1>. QED
  BY <1>3, <1>5, <1>6 DEF BudgetInv

LEMMA EmptyingKeeps == ASSUME BudgetInv, Emptying PROVE BudgetInv'
<1>1. Bound("emptying") = STOP_GRACE
  BY DEF Bound
<1>2. Wait("emptying", {"closing"}) /\ ended' = ended /\ elapsed' = elapsed
  BY DEF Emptying
<1>3. /\ at = "emptying" /\ at' = "closing"
      /\ now' \in Nat /\ now' <= now + STOP_GRACE /\ ClockOK'
      /\ UNCHANGED <<drain, installed, signalled, drainAt>>
  BY <1>1, <1>2, WaitTakes, TimesAssumption
<1>4. now' <= Drained' + STOP_GRACE
                + (IF ended' = "exited" THEN PROGRESS_POST_TIMEOUT ELSE STOP_GRACE)
  BY <1>2, <1>3, Sums, SumsStay, TimesAssumption DEF BudgetInv, BudgetTypeOK, EndingOK
<1>5. BudgetTypeOK'
  BY <1>2, <1>3 DEF BudgetInv, BudgetTypeOK
<1>6. BeforeOK' /\ EndingOK' /\ PublishingOK' /\ CompletingOK'
  BY <1>3, <1>4 DEF BeforeOK, EndingOK, PublishingOK, CompletingOK
<1>. QED
  BY <1>3, <1>5, <1>6 DEF BudgetInv

LEMMA ClosingKeeps == ASSUME BudgetInv, Closing PROVE BudgetInv'
<1>. DEFINE to == IF ended = "exited" THEN {"pr", "failing", "completing"}
                  ELSE {"failing", "removing"}
<1>1. Bound("closing") = LOG_CLOSE_TIMEOUT
  BY DEF Bound
<1>2. Wait("closing", to) /\ ended' = ended /\ elapsed' = 0
  BY DEF Closing
<1>3. /\ at = "closing" /\ at' \in to
      /\ now' \in Nat /\ now' <= now + LOG_CLOSE_TIMEOUT /\ ClockOK'
      /\ UNCHANGED <<drain, installed, signalled, drainAt>>
  BY <1>1, <1>2, WaitTakes, TimesAssumption
<1>4. /\ ended = "exited" => now' <= Quiet'
      /\ ended = "terminal" => now' <= Quiet' + STOP_GRACE
  BY <1>3, Sums, SumsStay, TimesAssumption DEF BudgetInv, BudgetTypeOK, EndingOK
<1>5. Quiet' = Quiet /\ Quiet \in Nat /\ Settled' = Settled
  BY <1>3, Sums, SumsStay, TimesAssumption DEF BudgetInv
<1>6. BudgetTypeOK'
  BY <1>2, <1>3 DEF BudgetInv, BudgetTypeOK
<1>7. ended \in {"terminal", "exited"}
  BY DEF BudgetInv, BudgetTypeOK
<1>8. BeforeOK' /\ PublishingOK'
  BY <1>2, <1>3, <1>4 DEF BeforeOK, PublishingOK
<1>9. EndingOK'
  BY <1>2, <1>3, <1>4, <1>5, <1>7, TimesAssumption DEF EndingOK
<1>10. CompletingOK'
  BY <1>2, <1>3, <1>4, <1>5, <1>7, Sums, TimesAssumption DEF BudgetInv, CompletingOK
<1>. QED
  BY <1>3, <1>6, <1>8, <1>9, <1>10 DEF BudgetInv

-----------------------------------------------------------------------------
(* The pull request of a run that exited by itself, and the failure it leaves. *)

LEMMA PrPhaseKeeps == ASSUME BudgetInv, PrPhase PROVE BudgetInv'
<1>1. Bound("pr") = PROGRESS_POST_TIMEOUT
  BY DEF Bound
<1>2. Wait("pr", {"checked_out", "list"}) /\ ended' = ended /\ elapsed' = elapsed
  BY DEF PrPhase
<1>3. /\ at = "pr" /\ at' \in {"checked_out", "list"}
      /\ now' \in Nat /\ now' <= now + PROGRESS_POST_TIMEOUT /\ ClockOK'
      /\ UNCHANGED <<drain, installed, signalled, drainAt>>
  BY <1>1, <1>2, WaitTakes, TimesAssumption
<1>4. /\ ended' = "exited" /\ now' <= Quiet' + PROGRESS_POST_TIMEOUT
      /\ now' <= Quiet' + PROGRESS_POST_TIMEOUT + PR_STEP_TIMEOUT
  BY <1>2, <1>3, Sums, SumsStay, TimesAssumption DEF BudgetInv, BudgetTypeOK, PublishingOK
<1>5. BudgetTypeOK'
  BY <1>2, <1>3 DEF BudgetInv, BudgetTypeOK
<1>6. BeforeOK' /\ EndingOK' /\ PublishingOK' /\ CompletingOK'
  BY <1>3, <1>4 DEF BeforeOK, EndingOK, PublishingOK, CompletingOK
<1>. QED
  BY <1>3, <1>5, <1>6 DEF BudgetInv

\* How many steps of the sequence may be over behind each of them, that one included.
Steps(step) ==
  CASE step = "checked_out" -> 1
    [] step = "list" -> 2
    [] step \in {"push", "push_existing"} -> 3
    [] step = "base" -> 4
    [] step = "view" -> 5
    [] step = "create" -> 6

\* One step behind another, or the end of the sequence.
LEMMA StepsGrow ==
  ASSUME BudgetInv, NEW step \in PrPlaces, at = step
  PROVE  /\ Steps(step) \in 1 .. 6
         /\ now <= Quiet + PROGRESS_POST_TIMEOUT + (Steps(step) - 1) * PR_STEP_TIMEOUT
         /\ ended = "exited"
<1>1. PROGRESS_POST_TIMEOUT \in Nat /\ PR_STEP_TIMEOUT \in Nat /\ Quiet \in Nat /\ now \in Nat
  BY Sums, TimesAssumption DEF BudgetInv, BudgetTypeOK
<1>2. CASE step = "checked_out"
  BY <1>1, <1>2 DEF BudgetInv, PublishingOK, Steps
<1>3. CASE step = "list"
  BY <1>1, <1>3 DEF BudgetInv, PublishingOK, Steps
<1>4. CASE step \in {"push", "push_existing"}
  BY <1>1, <1>4 DEF BudgetInv, PublishingOK, Steps
<1>5. CASE step = "base"
  BY <1>1, <1>5 DEF BudgetInv, PublishingOK, Steps
<1>6. CASE step = "view"
  BY <1>1, <1>6 DEF BudgetInv, PublishingOK, Steps
<1>7. CASE step = "create"
  BY <1>1, <1>7 DEF BudgetInv, PublishingOK, Steps
<1>. QED
  BY <1>2, <1>3, <1>4, <1>5, <1>6, <1>7

LEMMA PrStepKeeps == ASSUME BudgetInv, PrStep PROVE BudgetInv'
<1>1. PICK step \in PrPlaces :
        Wait(step, PrNext(step) \cup {"failing"}) /\ elapsed' = 0 /\ ended' = ended
  BY DEF PrStep
<1>2. Bound(step) = PR_STEP_TIMEOUT
  BY DEF Bound
<1>3. /\ at = step /\ at' \in PrNext(step) \cup {"failing"}
      /\ now' \in Nat /\ now' <= now + PR_STEP_TIMEOUT /\ ClockOK'
      /\ UNCHANGED <<drain, installed, signalled, drainAt>>
  BY <1>1, <1>2, WaitTakes, TimesAssumption
<1>4. /\ PROGRESS_POST_TIMEOUT \in Nat /\ PR_STEP_TIMEOUT \in Nat /\ STOP_GRACE \in Nat
      /\ COMPLETE_BUDGET \in Nat /\ RETRY_MAX_DELAY \in Nat
      /\ Quiet \in Nat /\ Quiet' = Quiet
      /\ Settled' = Quiet' + 2 * PROGRESS_POST_TIMEOUT + STOP_GRACE + 6 * PR_STEP_TIMEOUT
  BY <1>3, Sums, SumsStay, TimesAssumption DEF BudgetInv
<1>5. /\ ended' = "exited"
      /\ now <= Quiet + PROGRESS_POST_TIMEOUT + (Steps(step) - 1) * PR_STEP_TIMEOUT
  BY <1>1, <1>3, StepsGrow
<1>6. BudgetTypeOK'
  BY <1>1, <1>3 DEF BudgetInv, BudgetTypeOK, PrNext
<1>7. /\ BeforeOK'
      /\ now \in Nat
  BY <1>3 DEF BeforeOK, PrNext, BudgetInv, BudgetTypeOK
<1>8. EndingOK' /\ PublishingOK' /\ CompletingOK'
  <2>1. CASE step = "checked_out"
    BY <1>1, <1>3, <1>4, <1>5, <1>7, <2>1 DEF Steps, PrNext, EndingOK, PublishingOK, CompletingOK
  <2>2. CASE step = "list"
    BY <1>1, <1>3, <1>4, <1>5, <1>7, <2>2 DEF Steps, PrNext, EndingOK, PublishingOK, CompletingOK
  <2>3. CASE step = "push"
    BY <1>1, <1>3, <1>4, <1>5, <1>7, <2>3 DEF Steps, PrNext, EndingOK, PublishingOK, CompletingOK
  <2>4. CASE step = "push_existing"
    BY <1>1, <1>3, <1>4, <1>5, <1>7, <2>4 DEF Steps, PrNext, EndingOK, PublishingOK, CompletingOK
  <2>5. CASE step = "base"
    BY <1>1, <1>3, <1>4, <1>5, <1>7, <2>5 DEF Steps, PrNext, EndingOK, PublishingOK, CompletingOK
  <2>6. CASE step = "view"
    BY <1>1, <1>3, <1>4, <1>5, <1>7, <2>6 DEF Steps, PrNext, EndingOK, PublishingOK, CompletingOK
  <2>7. CASE step = "create"
    BY <1>1, <1>3, <1>4, <1>5, <1>7, <2>7 DEF Steps, PrNext, EndingOK, PublishingOK, CompletingOK
  <2>. QED
    BY <2>1, <2>2, <2>3, <2>4, <2>5, <2>6, <2>7
<1>. QED
  BY <1>3, <1>6, <1>7, <1>8 DEF BudgetInv

LEMMA FailingKeeps == ASSUME BudgetInv, Failing PROVE BudgetInv'
<1>1. Bound("failing") = PROGRESS_POST_TIMEOUT
  BY DEF Bound
<1>2. Wait("failing", {"completing"}) /\ ended' = ended /\ elapsed' = 0
  BY DEF Failing
<1>3. /\ at = "failing" /\ at' = "completing"
      /\ now' \in Nat /\ now' <= now + PROGRESS_POST_TIMEOUT /\ ClockOK'
      /\ UNCHANGED <<drain, installed, signalled, drainAt>>
  BY <1>1, <1>2, WaitTakes, TimesAssumption
<1>4. now' <= Settled' + 0
  BY <1>2, <1>3, Sums, SumsStay, TimesAssumption DEF BudgetInv, BudgetTypeOK, EndingOK
<1>5. BudgetTypeOK'
  BY <1>2, <1>3 DEF BudgetInv, BudgetTypeOK
<1>6. BeforeOK' /\ EndingOK' /\ PublishingOK'
  BY <1>2, <1>3 DEF BeforeOK, EndingOK, PublishingOK
<1>7. CompletingOK'
  BY <1>2, <1>3, <1>4, TimesAssumption DEF CompletingOK
<1>. QED
  BY <1>3, <1>5, <1>6, <1>7 DEF BudgetInv

\* A run that is interrupted within its end, after its exit: it used one of the two
\* graces at most, and has the other's time for the failure that is posted again.
LEMMA InterruptKeeps == ASSUME BudgetInv, Interrupt PROVE BudgetInv'
<1>. DEFINE to(place) == IF place = "emptying" THEN {"closing"} ELSE {"failing", "removing"}
<1>1. PICK place \in {"emptying", "closing", "pr", "failing"} \cup PrPlaces : Wait(place, to(place))
  BY DEF Interrupt
<1>2. ended = "exited" /\ ended' = "terminal" /\ elapsed' = elapsed
  BY DEF Interrupt
<1>3. /\ PROGRESS_POST_TIMEOUT \in Nat /\ PR_STEP_TIMEOUT \in Nat /\ STOP_GRACE \in Nat
      /\ LOG_CLOSE_TIMEOUT \in Nat /\ COMPLETE_BUDGET \in Nat /\ RETRY_MAX_DELAY \in Nat
      /\ REQUEST_TIMEOUT \in Nat /\ PROGRESS_POST_TIMEOUT <= STOP_GRACE
      /\ Drained \in Nat /\ now \in Nat /\ elapsed \in Nat
      /\ Quiet = Drained + PROGRESS_POST_TIMEOUT + STOP_GRACE + LOG_CLOSE_TIMEOUT
      /\ Settled = Quiet + 2 * PROGRESS_POST_TIMEOUT + STOP_GRACE + 6 * PR_STEP_TIMEOUT
  BY Sums, TimesAssumption, SlackAssumption DEF BudgetInv, BudgetTypeOK
<1>4. /\ at = place /\ at' \in to(place) /\ now' \in Nat /\ ClockOK'
      /\ UNCHANGED <<drain, installed, signalled, drainAt>>
      /\ now' <= now + Bound(place)
      /\ Bound(place) = CASE place = "emptying" -> STOP_GRACE
                          [] place = "closing" -> LOG_CLOSE_TIMEOUT
                          [] place \in {"pr", "failing"} -> PROGRESS_POST_TIMEOUT
                          [] place \in PrPlaces -> PR_STEP_TIMEOUT
  <2>1. /\ Bound(place) = CASE place = "emptying" -> STOP_GRACE
                             [] place = "closing" -> LOG_CLOSE_TIMEOUT
                             [] place \in {"pr", "failing"} -> PROGRESS_POST_TIMEOUT
                             [] place \in PrPlaces -> PR_STEP_TIMEOUT
        /\ Bound(place) \in Nat
    BY <1>3 DEF Bound
  <2>. QED
    BY <1>1, <2>1, WaitTakes
<1>5. Drained' = Drained /\ Quiet' = Quiet /\ Settled' = Settled
  BY <1>4, SumsStay
<1>6. /\ place = "emptying" => now' <= Drained + STOP_GRACE + STOP_GRACE
      /\ place # "emptying" =>
           now' <= Quiet + PROGRESS_POST_TIMEOUT + 6 * PR_STEP_TIMEOUT + STOP_GRACE
  <2>1. CASE place = "emptying"
    BY <1>2, <1>3, <1>4, <2>1 DEF BudgetInv, EndingOK
  <2>2. CASE place = "closing"
    BY <1>2, <1>3, <1>4, <2>2 DEF BudgetInv, EndingOK
  <2>3. CASE place = "pr"
    BY <1>3, <1>4, <2>3 DEF BudgetInv, PublishingOK
  <2>4. CASE place = "failing"
    BY <1>2, <1>3, <1>4, <2>4 DEF BudgetInv, EndingOK
  <2>5. CASE place \in PrPlaces
    <3>1. now <= Quiet + PROGRESS_POST_TIMEOUT + 5 * PR_STEP_TIMEOUT
      BY <1>3, <1>4, <2>5 DEF BudgetInv, PublishingOK
    <3>2. now' <= now + PR_STEP_TIMEOUT
      BY <1>4, <2>5
    <3>. QED
      BY <1>3, <1>4, <2>5, <3>1, <3>2
  <2>. QED
    BY <2>1, <2>2, <2>3, <2>4, <2>5
<1>7. BudgetTypeOK'
  BY <1>2, <1>4 DEF BudgetInv, BudgetTypeOK
<1>8. BeforeOK' /\ PublishingOK'
  BY <1>4 DEF BeforeOK, PublishingOK
<1>9. EndingOK'
  BY <1>2, <1>4, <1>5, <1>6 DEF EndingOK
<1>10. CompletingOK'
  BY <1>3, <1>4, <1>5, <1>6 DEF CompletingOK
<1>. QED
  BY <1>4, <1>7, <1>8, <1>9, <1>10 DEF BudgetInv

-----------------------------------------------------------------------------
(* The completion, and the exit. *)

LEMMA AttemptKeeps == ASSUME BudgetInv, Attempt PROVE BudgetInv'
<1>1. PICK d \in 0 .. REQUEST_TIMEOUT :
        /\ Take(d)
        /\ elapsed' = elapsed + d
        /\ at' \in {"removing"} \cup
                   (IF elapsed + d >= COMPLETE_BUDGET THEN {} ELSE {"backing_off"})
  BY DEF Attempt
<1>2. at = "completing" /\ UNCHANGED <<drain, installed, signalled, drainAt, ended>>
  BY DEF Attempt
<1>3. /\ now \in Nat /\ elapsed \in Nat /\ Settled \in Nat /\ Settled' = Settled
      /\ COMPLETE_BUDGET \in Nat /\ RETRY_MAX_DELAY \in Nat /\ REQUEST_TIMEOUT \in Nat
  BY <1>2, Sums, SumsStay, TimesAssumption DEF BudgetInv, BudgetTypeOK
<1>4. /\ now' \in Nat /\ now' <= Settled + elapsed + d
      /\ elapsed <= COMPLETE_BUDGET + RETRY_MAX_DELAY
  BY <1>1, <1>2, <1>3 DEF Take, BudgetInv, CompletingOK
<1>5. ClockOK'
  BY <1>1, <1>2 DEF Take, BudgetInv, ClockOK
<1>6. BudgetTypeOK'
  BY <1>1, <1>2, <1>3, <1>4 DEF BudgetInv, BudgetTypeOK
<1>7. BeforeOK' /\ EndingOK' /\ PublishingOK'
  BY <1>1 DEF BeforeOK, EndingOK, PublishingOK
<1>8. CompletingOK'
  BY <1>1, <1>3, <1>4 DEF CompletingOK
<1>. QED
  BY <1>5, <1>6, <1>7, <1>8 DEF BudgetInv

LEMMA BackOffKeeps == ASSUME BudgetInv, BackOff PROVE BudgetInv'
<1>1. PICK d \in 0 .. RETRY_MAX_DELAY : Take(d) /\ elapsed' = elapsed + d
  BY DEF BackOff
<1>2. /\ at = "backing_off" /\ at' = "completing"
      /\ UNCHANGED <<drain, installed, signalled, drainAt, ended>>
  BY DEF BackOff
<1>3. /\ now \in Nat /\ elapsed \in Nat /\ Settled \in Nat /\ Settled' = Settled
      /\ COMPLETE_BUDGET \in Nat /\ RETRY_MAX_DELAY \in Nat
  BY <1>2, Sums, SumsStay, TimesAssumption DEF BudgetInv, BudgetTypeOK
<1>4. /\ now' \in Nat /\ now' <= Settled + elapsed + d
      /\ elapsed <= COMPLETE_BUDGET
  BY <1>1, <1>2, <1>3 DEF Take, BudgetInv, CompletingOK
<1>5. ClockOK'
  BY <1>1, <1>2 DEF Take, BudgetInv, ClockOK
<1>6. BudgetTypeOK'
  BY <1>1, <1>2, <1>3, <1>4 DEF BudgetInv, BudgetTypeOK
<1>7. BeforeOK' /\ EndingOK' /\ PublishingOK'
  BY <1>2 DEF BeforeOK, EndingOK, PublishingOK
<1>8. CompletingOK'
  BY <1>1, <1>2, <1>3, <1>4 DEF CompletingOK
<1>. QED
  BY <1>5, <1>6, <1>7, <1>8 DEF BudgetInv

LEMMA RemoveOutputKeeps == ASSUME BudgetInv, RemoveOutput PROVE BudgetInv'
<1>. DEFINE to == {IF signalled THEN "gone" ELSE "claiming"}
<1>1. Bound("removing") = OUTPUT_REMOVE_TIMEOUT
  BY DEF Bound
<1>2. Wait("removing", to) /\ ended' = ended /\ elapsed' = elapsed
  BY DEF RemoveOutput
<1>3. /\ at = "removing" /\ at' \in to
      /\ now' \in Nat /\ now' <= now + OUTPUT_REMOVE_TIMEOUT /\ ClockOK'
      /\ UNCHANGED <<drain, installed, signalled, drainAt>>
  BY <1>1, <1>2, WaitTakes, TimesAssumption
<1>4. now' <= ExitTimeout(drain) /\ (~signalled => now' = 0)
  BY <1>3, Sums, TimesAssumption DEF BudgetInv, BudgetTypeOK, CompletingOK, ClockOK
<1>5. BudgetTypeOK'
  BY <1>2, <1>3 DEF BudgetInv, BudgetTypeOK
<1>6. BeforeOK' /\ EndingOK' /\ PublishingOK' /\ CompletingOK'
  BY <1>3, <1>4 DEF BeforeOK, EndingOK, PublishingOK, CompletingOK
<1>. QED
  BY <1>3, <1>5, <1>6 DEF BudgetInv

LEMMA StutterKeeps == ASSUME BudgetInv, UNCHANGED budgetVars PROVE BudgetInv'
<1>1. UNCHANGED <<drain, installed, at, ended, signalled, now, drainAt, elapsed>>
  BY DEF budgetVars
<1>2. BudgetTypeOK' /\ ClockOK'
  BY <1>1 DEF BudgetInv, BudgetTypeOK, ClockOK
<1>3. BeforeOK' /\ EndingOK' /\ PublishingOK' /\ CompletingOK'
  BY <1>1, SumsStay DEF BudgetInv, BeforeOK, EndingOK, PublishingOK, CompletingOK
<1>. QED
  BY <1>2, <1>3 DEF BudgetInv

-----------------------------------------------------------------------------
(* The theorems. *)

LEMMA StepKeeps == ASSUME BudgetInv, [BudgetNext]_budgetVars PROVE BudgetInv'
<1>1. CASE Signal
  BY <1>1, SignalKeeps
<1>2. CASE Claim
  BY <1>2, ClaimKeeps
<1>3. CASE Title
  BY <1>3, TitleKeeps
<1>4. CASE Mint
  BY <1>4, MintKeeps
<1>5. CASE Checkout \/ RevParse \/ Plan
  BY <1>5, InspectKeeps DEF Checkout, RevParse, Plan
<1>6. CASE DrainAfter
  BY <1>6, DrainAfterKeeps
<1>7. CASE Watch
  BY <1>7, WatchKeeps
<1>8. CASE Unspawned
  BY <1>8, UnspawnedKeeps
<1>9. CASE Runs
  BY <1>9, RunsKeeps
<1>10. CASE Stopping
  BY <1>10, StoppingKeeps
<1>11. CASE Opening
  BY <1>11, OpeningKeeps
<1>12. CASE Emptying
  BY <1>12, EmptyingKeeps
<1>13. CASE Closing
  BY <1>13, ClosingKeeps
<1>14. CASE PrPhase
  BY <1>14, PrPhaseKeeps
<1>15. CASE PrStep
  BY <1>15, PrStepKeeps
<1>16. CASE Failing
  BY <1>16, FailingKeeps
<1>17. CASE Interrupt
  BY <1>17, InterruptKeeps
<1>18. CASE Attempt
  BY <1>18, AttemptKeeps
<1>19. CASE BackOff
  BY <1>19, BackOffKeeps
<1>20. CASE RemoveOutput
  BY <1>20, RemoveOutputKeeps
<1>21. CASE Gone \/ UNCHANGED budgetVars
  BY <1>21, StutterKeeps DEF Gone
<1>. QED
  BY <1>1, <1>2, <1>3, <1>4, <1>5, <1>6, <1>7, <1>8, <1>9, <1>10, <1>11, <1>12, <1>13, <1>14,
     <1>15, <1>16, <1>17, <1>18, <1>19, <1>20, <1>21 DEF BudgetNext

\* Wherever the holder of the slot waits, no more time has passed since the signal
\* than the places before it can have taken.
THEOREM BudgetInvariance == BudgetSpec => []BudgetInv
<1>1. BudgetInit => BudgetInv
  BY BudgetInitInv
<1>2. BudgetInv /\ [BudgetNext]_budgetVars => BudgetInv'
  BY StepKeeps
<1>. QED
  BY <1>1, <1>2, PTL DEF BudgetSpec

\* No place is behind the exit.
LEMMA WithinSum == ASSUME BudgetInv PROVE now <= ExitTimeout(drain)
<1>1. /\ PROGRESS_POST_TIMEOUT \in Nat /\ PR_STEP_TIMEOUT \in Nat /\ STOP_GRACE \in Nat
      /\ LOG_CLOSE_TIMEOUT \in Nat /\ COMPLETE_BUDGET \in Nat /\ RETRY_MAX_DELAY \in Nat
      /\ REQUEST_TIMEOUT \in Nat /\ OUTPUT_REMOVE_TIMEOUT \in Nat
      /\ VALIDATE_TIMEOUT \in Nat /\ WATCH_START_TIMEOUT \in Nat /\ drain \in Nat
      /\ Drained \in Nat /\ now \in Nat /\ elapsed \in Nat
  BY Sums, TimesAssumption DEF BudgetInv, BudgetTypeOK
<1>2. Drained = VALIDATE_TIMEOUT + WATCH_START_TIMEOUT + drain
  BY DEF Drained
<1>3. /\ Quiet = Drained + PROGRESS_POST_TIMEOUT + STOP_GRACE + LOG_CLOSE_TIMEOUT
      /\ Settled = Quiet + 2 * PROGRESS_POST_TIMEOUT + STOP_GRACE + 6 * PR_STEP_TIMEOUT
      /\ ExitTimeout(drain) = Settled + COMPLETE_BUDGET + RETRY_MAX_DELAY
                              + REQUEST_TIMEOUT + OUTPUT_REMOVE_TIMEOUT
  BY Sums DEF BudgetInv
<1>4. CASE at \in {"claiming", "titling", "minting", "drain_after", "watching", "running",
                   "unspawned"} \cup Inspecting
  BY <1>1, <1>2, <1>3, <1>4 DEF BudgetInv, BeforeOK
<1>5. CASE at \in {"stopping", "opening", "emptying", "closing", "failing"}
  BY <1>1, <1>3, <1>5 DEF BudgetInv, EndingOK
<1>6. CASE at \in {"pr"} \cup PrPlaces
  BY <1>1, <1>3, <1>6 DEF BudgetInv, PublishingOK
<1>7. CASE at \in {"completing", "backing_off", "removing", "gone"}
  BY <1>1, <1>3, <1>7 DEF BudgetInv, CompletingOK
<1>. QED
  BY <1>4, <1>5, <1>6, <1>7 DEF BudgetInv, BudgetTypeOK

\* exit_timeout() is enough: launchd never kills a daemon that found no drift.
THEOREM GoneInTime == BudgetSpec => []WithinExitTimeOut
<1>1. BudgetInv => WithinExitTimeOut
  <2>. SUFFICES ASSUME BudgetInv, ~Drift PROVE now <= installed
    BY DEF WithinExitTimeOut
  <2>1. now \in Nat /\ installed \in Nat /\ ExitTimeout(drain) \in Nat
    BY Sums DEF BudgetInv, BudgetTypeOK
  <2>2. ~(installed < ExitTimeout(drain))
    BY DEF Drift
  <2>. QED
    BY <2>1, <2>2, WithinSum
<1>. QED
  BY <1>1, BudgetInvariance, PTL

-----------------------------------------------------------------------------
(* Induction, by the least number outside of a set; and folds: FoldLeft folds
   over the places of a sequence, by their greatest. *)

LEMMA LeastOf ==
  ASSUME NEW T \in SUBSET Nat, T # {}
  PROVE  \E m \in T : \A k \in T : m <= k
<1>1. PICK m \in T : \A k \in T : ~ (<<k, m>> \in OpToRel(<, Nat))
  BY NatLessThanWellFounded, WFMin, Zenon
<1>2. \A k \in T : ~ (k < m)
  BY <1>1 DEF OpToRel
<1>. QED
  BY <1>2

LEMMA NatInduct ==
  ASSUME NEW X, 0 \in X, \A n \in Nat : n \in X => n + 1 \in X
  PROVE  Nat \subseteq X
<1>. DEFINE T == {n \in Nat : n \notin X}
<1>. SUFFICES ASSUME T # {} PROVE FALSE
  OBVIOUS
<1>1. PICK m \in T : \A k \in T : m <= k
  <2>1. T \in SUBSET Nat
    OBVIOUS
  <2>. HIDE DEF T
  <2>. QED
    BY <2>1, LeastOf
<1>2. m # 0 /\ m - 1 \in Nat /\ (m - 1) + 1 = m /\ ~ (m <= m - 1)
  OBVIOUS
<1>3. m - 1 \in T
  BY <1>2
<1>. QED
  BY <1>1, <1>2, <1>3

LEMMA IntervalInduct ==
  ASSUME NEW lo \in Nat, NEW hi \in Nat, NEW X, lo \in X,
         \A j \in lo .. hi : j < hi /\ j \in X => j + 1 \in X
  PROVE  lo .. hi \subseteq X
<1>. DEFINE Y == {d \in Nat : lo + d <= hi => lo + d \in X}
<1>1. 0 \in Y
  OBVIOUS
<1>2. ASSUME NEW d \in Nat, d \in Y PROVE d + 1 \in Y
  <2>. SUFFICES ASSUME lo + (d + 1) <= hi PROVE lo + (d + 1) \in X
    OBVIOUS
  <2>1. lo + d \in lo .. hi /\ lo + d < hi /\ (lo + d) + 1 = lo + (d + 1)
    OBVIOUS
  <2>. QED
    BY <1>2, <2>1
<1>. HIDE DEF Y
<1>3. Nat \subseteq Y
  BY <1>1, <1>2, NatInduct
<1>4. ASSUME NEW j \in lo .. hi PROVE j \in X
  <2>1. j - lo \in Nat /\ lo + (j - lo) = j /\ j <= hi
    BY <1>4
  <2>. QED
    BY <1>3, <2>1 DEF Y
<1>. QED
  BY <1>4

LEMMA MaxOf ==
  ASSUME NEW n \in Nat, NEW T \in SUBSET (1 .. n), T # {}
  PROVE  Max(T) \in T /\ \A i \in T : i <= Max(T)
<1>. DEFINE X == {k \in Nat : (\E i \in T : i >= n - k) => \E i \in T : \A j \in T : i >= j}
<1>1. 0 \in X
  OBVIOUS
<1>2. ASSUME NEW k \in Nat, k \in X PROVE k + 1 \in X
  <2>. SUFFICES ASSUME \E i \in T : i >= n - (k + 1)
                PROVE  \E i \in T : \A j \in T : i >= j
    OBVIOUS
  <2>1. CASE \E i \in T : i >= n - k
    BY <2>1, <1>2
  <2>2. CASE ~ \E i \in T : i >= n - k
    <3>1. PICK i \in T : i >= n - (k + 1)
      OBVIOUS
    <3>2. \A j \in T : i >= j
      BY <2>2, <3>1
    <3>. QED
      BY <3>2
  <2>. QED
    BY <2>1, <2>2
<1>. HIDE DEF X
<1>3. n \in X
  BY <1>1, <1>2, NatInduct
<1>4. \E i \in T : i >= n - n
  <2>1. PICK i \in T : TRUE
    OBVIOUS
  <2>2. i \in 1 .. n
    OBVIOUS
  <2>. QED
    BY <2>2
<1>5. \E i \in T : \A j \in T : i >= j
  BY <1>3, <1>4 DEF X
<1>. QED
  BY <1>5 DEF Max

Folds(g, n, base, step, s) ==
  \A T \in SUBSET (1 .. n) :
     g[T] = IF T = {} THEN base ELSE step[<<g[T \ {Max(T)}], s[Max(T)]>>]

LEMMA WholeInterval ==
  ASSUME NEW n \in Nat
  PROVE  /\ 1 .. (n + 1) # {} /\ (1 .. (n + 1)) \ {n + 1} = 1 .. n /\ Max(1 .. (n + 1)) = n + 1
         /\ 1 .. n \in SUBSET (1 .. n) /\ 1 .. (n + 1) \in SUBSET (1 .. (n + 1))
<1>1. n + 1 \in Nat /\ n + 1 \in 1 .. (n + 1)
  OBVIOUS
<1>2. 1 .. (n + 1) # {} /\ 1 .. (n + 1) \in SUBSET (1 .. (n + 1))
  BY <1>1
<1>3. Max(1 .. (n + 1)) \in 1 .. (n + 1) /\ \A i \in 1 .. (n + 1) : i <= Max(1 .. (n + 1))
  BY <1>1, <1>2, MaxOf
<1>4. Max(1 .. (n + 1)) = n + 1
  BY <1>1, <1>3
<1>5. (1 .. (n + 1)) \ {n + 1} = 1 .. n
  OBVIOUS
<1>. QED
  BY <1>2, <1>4, <1>5

LEMMA FoldExists ==
  ASSUME NEW n \in Nat, NEW S, NEW A, NEW base \in S, NEW step \in [S \X A -> S],
         NEW s \in [1 .. n -> A]
  PROVE  \E g \in [SUBSET (1 .. n) -> S] : Folds(g, n, base, step, s)
<1>. DEFINE Is(g, k) == \A T \in SUBSET (1 .. k) :
              g[T] = IF T = {} THEN base ELSE step[<<g[T \ {Max(T)}], s[Max(T)]>>]
            Some(k) == \E g \in [SUBSET (1 .. k) -> S] : Is(g, k)
            X == {k \in Nat : k <= n => Some(k)}
<1>1. 0 \in X
  <2>. DEFINE g == [T \in SUBSET (1 .. 0) |-> base]
  <2>1. g \in [SUBSET (1 .. 0) -> S]
    OBVIOUS
  <2>2. Is(g, 0)
    <3>1. \A T \in SUBSET (1 .. 0) : T = {}
      OBVIOUS
    <3>. QED
      BY <3>1
  <2>. QED
    BY <2>1, <2>2
<1>2. ASSUME NEW k \in Nat, k \in X PROVE k + 1 \in X
  <2>. SUFFICES ASSUME k + 1 <= n
                PROVE  Some(k + 1)
    <3>. HIDE DEF Some
    <3>. QED
      OBVIOUS
  <2>0. Some(k)
    <3>. HIDE DEF Some
    <3>. QED
      BY <1>2
  <2>1. PICK g \in [SUBSET (1 .. k) -> S] : Is(g, k)
    BY <2>0
  <2>. DEFINE m == k + 1
              h == [T \in SUBSET (1 .. m) |->
                      IF m \in T THEN step[<<g[T \ {m}], s[m]>>] ELSE g[T]]
  <2>2. \A T \in SUBSET (1 .. m) :
          /\ m \in T => T \ {m} \in SUBSET (1 .. k) /\ T # {} /\ Max(T) = m
          /\ m \notin T => T \in SUBSET (1 .. k)
    <3>. SUFFICES ASSUME NEW T \in SUBSET (1 .. m)
                  PROVE  /\ m \in T => T \ {m} \in SUBSET (1 .. k) /\ T # {} /\ Max(T) = m
                         /\ m \notin T => T \in SUBSET (1 .. k)
      OBVIOUS
    <3>1. ASSUME m \in T PROVE Max(T) = m
      <4>1. m \in Nat /\ T # {} /\ T \in SUBSET (1 .. m)
        BY <3>1
      <4>. HIDE DEF m
      <4>2. Max(T) \in T /\ \A i \in T : i <= Max(T)
        BY <4>1, MaxOf
      <4>3. Max(T) \in 1 .. m /\ m <= Max(T)
        BY <3>1, <4>1, <4>2
      <4>. QED
        BY <4>1, <4>3
    <3>. QED
      BY <3>1
  <2>3. s[m] \in A
    OBVIOUS
  <2>4. h \in [SUBSET (1 .. m) -> S]
    <3>1. ASSUME NEW T \in SUBSET (1 .. m) PROVE h[T] \in S
      <4>1. CASE m \in T
        <5>1. g[T \ {m}] \in S
          BY <2>1, <2>2, <4>1
        <5>2. <<g[T \ {m}], s[m]>> \in S \X A
          BY <2>3, <5>1
        <5>. QED
          BY <4>1, <5>2
      <4>2. CASE m \notin T
        BY <2>1, <2>2, <4>2
      <4>. QED
        BY <4>1, <4>2
    <3>. QED
      BY <3>1
  <2>5. ASSUME NEW T \in SUBSET (1 .. m)
        PROVE  h[T] = IF T = {} THEN base ELSE step[<<h[T \ {Max(T)}], s[Max(T)]>>]
    <3>1. CASE m \in T
      <4>1. Max(T) = m /\ T # {} /\ T \ {m} \in SUBSET (1 .. k)
        BY <2>2, <3>1
      <4>2. T \ {m} \in SUBSET (1 .. m) /\ m \notin T \ {m}
        OBVIOUS
      <4>3. h[T \ {m}] = g[T \ {m}]
        BY <4>2
      <4>. QED
        BY <3>1, <4>1, <4>3
    <3>2. CASE m \notin T
      <4>1. T \in SUBSET (1 .. k) /\ h[T] = g[T]
        BY <2>2, <3>2
      <4>2. CASE T = {}
        BY <2>1, <4>1, <4>2
      <4>3. CASE T # {}
        <5>1. T \ {Max(T)} \in SUBSET (1 .. k) /\ T \ {Max(T)} \in SUBSET (1 .. m)
              /\ m \notin T \ {Max(T)}
          BY <3>2, <4>1
        <5>2. h[T \ {Max(T)}] = g[T \ {Max(T)}]
          BY <5>1
        <5>3. g[T] = step[<<g[T \ {Max(T)}], s[Max(T)]>>]
          BY <2>1, <4>1, <4>3
        <5>. QED
          BY <4>1, <4>3, <5>2, <5>3
      <4>. QED
        BY <4>2, <4>3
    <3>. QED
      BY <3>1, <3>2
  <2>. HIDE DEF h
  <2>. QED
    BY <2>4, <2>5
<1>3. n \in X
  <2>. HIDE DEF X
  <2>. QED
    BY <1>1, <1>2, NatInduct
<1>4. Some(n)
  <2>. HIDE DEF Some
  <2>. QED
    BY <1>3
<1>. QED
  BY <1>4 DEF Folds

-----------------------------------------------------------------------------
(* Escape sequences.                                                       *)

ScanStates ==
  {"Text", "Escape", "CsiParameters", "CsiIntermediates", "Osc", "OscEscape"}

Scanned == [state : ScanStates, out : Seq(Characters)]

Unscanned == [state |-> "Text", out |-> << >>]

LEMMA ScanTyped ==
  ASSUME NEW p \in Scanned, NEW c \in Characters
  PROVE  Scan(p, c) \in Scanned
<1>1. ScanNext(p.state, c) \in ScanStates
  BY DEF Scanned, ScanStates, ScanNext, EscapeNext, CsiNext, OscNext
<1>2. p.out \in Seq(Characters) /\ Append(p.out, c) \in Seq(Characters)
  BY AppendProperties DEF Scanned
<1>. QED
  BY <1>1, <1>2 DEF Scan, Scanned

\* The folding of Scan at sets of places, as FoldLeft has it.
ScanFold(h, t) ==
  h = [T \in SUBSET DOMAIN t |->
         IF T = {} THEN Unscanned ELSE Scan(h[T \ {Max(T)}], t[Max(T)])]

LEMMA PlainIs ==
  ASSUME NEW t
  PROVE  Plain(t) = (CHOOSE h : ScanFold(h, t))[DOMAIN t].out
BY DEF Plain, FoldLeft, MapThenFoldSet, ScanFold, Unscanned

\* The states the scanner goes through.
ScanTrace(S, t) ==
  /\ S \in [0 .. Len(t) -> Scanned]
  /\ S[0] = Unscanned
  /\ \A j \in 1 .. Len(t) : S[j] = Scan(S[j - 1], t[j])

LEMMA PlainTrace ==
  ASSUME NEW t \in Seq(Characters)
  PROVE  \E S : ScanTrace(S, t) /\ Plain(t) = S[Len(t)].out
<1>. DEFINE n == Len(t)
            step == [p \in Scanned \X Characters |-> Scan(p[1], p[2])]
            h == CHOOSE h : ScanFold(h, t)
            S == [j \in 0 .. n |-> h[1 .. j]]
<1>1. n \in Nat /\ t \in [1 .. n -> Characters] /\ DOMAIN t = 1 .. n
  BY LenProperties
<1>2. step \in [Scanned \X Characters -> Scanned]
  BY ScanTyped
<1>3. Unscanned \in Scanned
  <2>1. << >> \in Seq(Characters)
    OBVIOUS
  <2>. QED
    BY <2>1 DEF Unscanned, Scanned, ScanStates
<1>. HIDE DEF n
<1>4. PICK g \in [SUBSET (1 .. n) -> Scanned] : Folds(g, n, Unscanned, step, t)
  <2>. HIDE DEF step
  <2>. QED
    BY <1>1, <1>2, <1>3, FoldExists
<1>5. ASSUME NEW T \in SUBSET (1 .. n), T # {}
      PROVE  g[T] = Scan(g[T \ {Max(T)}], t[Max(T)])
  <2>1. Max(T) \in T /\ Max(T) \in 1 .. n
    BY <1>1, <1>5, MaxOf
  <2>2. T \ {Max(T)} \in SUBSET (1 .. n)
    OBVIOUS
  <2>3. <<g[T \ {Max(T)}], t[Max(T)]>> \in Scanned \X Characters
    BY <1>1, <2>1, <2>2
  <2>. QED
    BY <1>4, <1>5, <2>3 DEF Folds
<1>6. ScanFold(g, t)
  BY <1>1, <1>4, <1>5 DEF ScanFold, Folds
<1>7. ScanFold(h, t)
  BY <1>6
<1>. HIDE DEF h, step
<1>8. Plain(t) = S[n].out
  BY <1>1, PlainIs DEF h
<1>9. S[0] = Unscanned
  <2>1. 1 .. 0 = {} /\ {} \in SUBSET DOMAIN t
    OBVIOUS
  <2>. QED
    BY <1>1, <1>7, <2>1 DEF ScanFold
<1>10. ASSUME NEW j \in 1 .. n PROVE S[j] = Scan(S[j - 1], t[j])
  <2>1. PICK k \in Nat : j = k + 1 /\ k = j - 1
    BY <1>10
  <2>2. /\ 1 .. (k + 1) # {} /\ (1 .. (k + 1)) \ {k + 1} = 1 .. k /\ Max(1 .. (k + 1)) = k + 1
        /\ 1 .. (k + 1) \in SUBSET DOMAIN t
    <3>1. 1 .. (k + 1) \in SUBSET DOMAIN t
      BY <1>1, <2>1
    <3>. QED
      BY <2>1, <3>1, WholeInterval
  <2>3. h[1 .. (k + 1)] = Scan(h[1 .. k], t[k + 1])
    BY <1>7, <2>2 DEF ScanFold
  <2>. QED
    BY <1>1, <2>1, <2>3
<1>. HIDE DEF S
<1>11. \A j \in Nat : j <= n => S[j] \in Scanned
  <2>. DEFINE X == {j \in Nat : j <= n => S[j] \in Scanned}
  <2>1. 0 \in X
    BY <1>3, <1>9
  <2>2. ASSUME NEW j \in Nat, j \in X PROVE j + 1 \in X
    <3>. SUFFICES ASSUME j + 1 <= n PROVE S[j + 1] \in Scanned
      OBVIOUS
    <3>1. j + 1 \in 1 .. n /\ (j + 1) - 1 = j /\ S[j] \in Scanned
      BY <1>1, <2>2
    <3>. QED
      BY <1>1, <1>10, <3>1, ScanTyped
  <2>. HIDE DEF X
  <2>3. Nat \subseteq X
    BY <2>1, <2>2, NatInduct
  <2>. QED
    BY <2>3 DEF X
<1>12. S \in [0 .. n -> Scanned]
  BY <1>1, <1>11 DEF S
<1>. QED
  BY <1>8, <1>9, <1>10, <1>12 DEF ScanTrace, n

\* Where runs of characters and escape sequences end.
LEMMA AfterIs ==
  ASSUME NEW t \in Seq(Characters), NEW i \in 1 .. (Len(t) + 1), NEW C
  PROVE  /\ After(t, i, C) \in i .. (Len(t) + 1)
         /\ \A j \in i .. (After(t, i, C) - 1) : t[j] \in C
         /\ After(t, i, C) <= Len(t) => t[After(t, i, C)] \notin C
<1>. DEFINE Is(k) == /\ \A j \in i .. (k - 1) : t[j] \in C
                     /\ k <= Len(t) => t[k] \notin C
            T == {k \in i .. (Len(t) + 1) : k <= Len(t) => t[k] \notin C}
<1>1. Len(t) \in Nat
  BY LenProperties
<1>2. T \in SUBSET Nat /\ Len(t) + 1 \in T
  BY <1>1
<1>3. PICK m \in T : \A k \in T : m <= k
  <2>. HIDE DEF T
  <2>. QED
    BY <1>2, LeastOf
<1>4. \A j \in i .. (m - 1) : t[j] \in C
  <2>. SUFFICES ASSUME NEW j \in i .. (m - 1), t[j] \notin C PROVE FALSE
    OBVIOUS
  <2>1. j \in T /\ ~ (m <= j)
    BY <1>1
  <2>. QED
    BY <1>3, <2>1
<1>5. \E k \in i .. (Len(t) + 1) : Is(k)
  BY <1>4
<1>6. After(t, i, C) = CHOOSE k \in i .. (Len(t) + 1) : Is(k)
  BY DEF After
<1>. HIDE DEF Is
<1>7. After(t, i, C) \in i .. (Len(t) + 1) /\ Is(After(t, i, C))
  BY <1>5, <1>6
<1>. QED
  BY <1>7 DEF Is

LEMMA OscEndIs ==
  ASSUME NEW t \in Seq(Characters), NEW i \in 0 .. Len(t), i < Len(t)
  PROVE  /\ OscEnd(t, i) \in (i + 1) .. Len(t)
         /\ OscEnds(t, i) = {} => OscEnd(t, i) = Len(t)
         /\ OscEnds(t, i) # {} => OscEnd(t, i) \in OscEnds(t, i)
         /\ \A k \in OscEnds(t, i) : OscEnd(t, i) <= k
<1>1. Len(t) \in Nat /\ Len(t) \in (i + 1) .. Len(t)
  BY LenProperties
<1>2. OscEnds(t, i) \in SUBSET ((i + 2) .. Len(t))
  BY DEF OscEnds
<1>3. OscEnds(t, i) \in SUBSET Nat /\ OscEnds(t, i) \in SUBSET ((i + 1) .. Len(t))
  BY <1>1, <1>2
<1>4. CASE OscEnds(t, i) = {}
  BY <1>1, <1>4 DEF OscEnd
<1>5. CASE OscEnds(t, i) # {}
  <2>1. \E k \in OscEnds(t, i) : \A j \in OscEnds(t, i) : k <= j
    BY <1>3, <1>5, LeastOf
  <2>2. OscEnd(t, i) = CHOOSE k \in OscEnds(t, i) : \A j \in OscEnds(t, i) : k <= j
    BY <1>5 DEF OscEnd
  <2>3. OscEnd(t, i) \in OscEnds(t, i) /\ \A j \in OscEnds(t, i) : OscEnd(t, i) <= j
    BY <2>1, <2>2
  <2>. QED
    BY <1>3, <1>5, <2>3
<1>. QED
  BY <1>4, <1>5

LEMMA CsiEndIs ==
  ASSUME NEW t \in Seq(Characters), NEW i \in 0 .. Len(t), i < Len(t)
  PROVE  \E a, b \in (i + 2) .. (Len(t) + 1) :
           /\ a <= b
           /\ \A j \in (i + 2) .. (a - 1) : t[j] \in Parameters
           /\ a <= Len(t) => t[a] \notin Parameters
           /\ \A j \in a .. (b - 1) : t[j] \in Intermediates
           /\ b <= Len(t) => t[b] \notin Intermediates
           /\ CsiEnd(t, i) = IF b <= Len(t) /\ t[b] = "esc" THEN b - 1 ELSE b
<1>. DEFINE a == After(t, i + 2, Parameters)
            b == After(t, a, Intermediates)
<1>1. Len(t) \in Nat /\ i + 2 \in 1 .. (Len(t) + 1)
  BY LenProperties
<1>2. /\ a \in (i + 2) .. (Len(t) + 1)
      /\ \A j \in (i + 2) .. (a - 1) : t[j] \in Parameters
      /\ a <= Len(t) => t[a] \notin Parameters
  BY <1>1, AfterIs
<1>3. CsiEnd(t, i) = IF b <= Len(t) /\ t[b] = "esc" THEN b - 1 ELSE b
  BY DEF CsiEnd
<1>. HIDE DEF a
<1>4. a \in 1 .. (Len(t) + 1)
  BY <1>1, <1>2
<1>5. /\ b \in a .. (Len(t) + 1)
      /\ \A j \in a .. (b - 1) : t[j] \in Intermediates
      /\ b <= Len(t) => t[b] \notin Intermediates
  BY <1>4, AfterIs
<1>. HIDE DEF b
<1>6. b \in (i + 2) .. (Len(t) + 1) /\ a <= b
  BY <1>1, <1>2, <1>5
<1>. QED
  BY <1>2, <1>3, <1>5, <1>6

LEMMA SequenceEndGrows ==
  ASSUME NEW t \in Seq(Characters), NEW i \in 0 .. Len(t)
  PROVE  SequenceEnd(t, i) \in i .. (Len(t) + 1)
<1>1. Len(t) \in Nat
  BY LenProperties
<1>2. ASSUME i < Len(t) PROVE CsiEnd(t, i) \in i .. (Len(t) + 1) /\ OscEnd(t, i) \in i .. (Len(t) + 1)
  <2>1. PICK b \in (i + 2) .. (Len(t) + 1) :
          CsiEnd(t, i) = IF b <= Len(t) /\ t[b] = "esc" THEN b - 1 ELSE b
    BY <1>2, CsiEndIs
  <2>2. OscEnd(t, i) \in (i + 1) .. Len(t)
    BY <1>2, OscEndIs
  <2>. QED
    BY <1>1, <2>1, <2>2
<1>. QED
  BY <1>1, <1>2 DEF SequenceEnd

\* What is visible from a place on, as Visible has it.
VisibleStep(f, t, i) ==
  CASE i > Len(t) -> << >>
    [] i <= Len(t) /\ t[i] = "esc" -> f[SequenceEnd(t, i) + 1]
    [] OTHER -> <<t[i]>> \o f[i + 1]

VisibleFrom(f, t) == f = [i \in Nat |-> VisibleStep(f, t, i)]

LEMMA VisibleIs ==
  ASSUME NEW t
  PROVE  Visible(t) = (CHOOSE f : VisibleFrom(f, t))[1]
BY DEF Visible, VisibleFrom, VisibleStep

LEMMA VisibleCases ==
  ASSUME NEW t \in Seq(Characters), NEW f, NEW i \in Nat
  PROVE  /\ i > Len(t) => VisibleStep(f, t, i) = << >>
         /\ i <= Len(t) /\ t[i] = "esc" => VisibleStep(f, t, i) = f[SequenceEnd(t, i) + 1]
         /\ i <= Len(t) /\ t[i] # "esc" => VisibleStep(f, t, i) = <<t[i]>> \o f[i + 1]
<1>1. Len(t) \in Nat
  BY LenProperties
<1>2. i > Len(t) => VisibleStep(f, t, i) = << >>
  BY <1>1 DEF VisibleStep
<1>3. i <= Len(t) /\ t[i] = "esc" => VisibleStep(f, t, i) = f[SequenceEnd(t, i) + 1]
  BY <1>1 DEF VisibleStep
<1>4. i <= Len(t) /\ t[i] # "esc" => VisibleStep(f, t, i) = <<t[i]>> \o f[i + 1]
  BY <1>1 DEF VisibleStep
<1>. QED
  BY <1>2, <1>3, <1>4

\* What is visible from a place on depends on what is from later places on.
LEMMA VisibleLater ==
  ASSUME NEW t \in Seq(Characters), NEW i \in Nat, NEW f, NEW g,
         \A j \in Nat : j > i => f[j] = g[j]
  PROVE  VisibleStep(f, t, i) = VisibleStep(g, t, i)
<1>1. Len(t) \in Nat
  BY LenProperties
<1>2. CASE i > Len(t)
  BY <1>2 DEF VisibleStep
<1>3. CASE ~ (i > Len(t))
  <2>1. i \in 0 .. Len(t)
    BY <1>1, <1>3
  <2>2. SequenceEnd(t, i) \in i .. (Len(t) + 1)
    BY <2>1, SequenceEndGrows
  <2>3. f[SequenceEnd(t, i) + 1] = g[SequenceEnd(t, i) + 1] /\ f[i + 1] = g[i + 1]
    BY <1>1, <2>2
  <2>. QED
    BY <2>3 DEF VisibleStep
<1>. QED
  BY <1>2, <1>3

LEMMA VisibleExists ==
  ASSUME NEW t \in Seq(Characters)
  PROVE  \E f : VisibleFrom(f, t)
<1>. DEFINE n == Len(t)
            Is(f, k) == /\ f = [i \in Nat |-> f[i]]
                        /\ \A i \in Nat : i >= n + 1 - k => f[i] = VisibleStep(f, t, i)
            X == {k \in Nat : k <= n + 1 => \E f : Is(f, k)}
<1>1. n \in Nat
  BY LenProperties
<1>2. 0 \in X
  <2>. DEFINE f == [i \in Nat |-> << >>]
  <2>1. Is(f, 0)
    BY <1>1 DEF VisibleStep
  <2>. HIDE DEF Is
  <2>. QED
    BY <2>1
<1>3. ASSUME NEW k \in Nat, k \in X PROVE k + 1 \in X
  <2>. SUFFICES ASSUME k + 1 <= n + 1 PROVE \E f : Is(f, k + 1)
    <3>. HIDE DEF Is
    <3>. QED
      OBVIOUS
  <2>1. PICK f : Is(f, k)
    <3>. HIDE DEF Is
    <3>1. k <= n + 1
      BY <1>1
    <3>. QED
      BY <1>3, <3>1
  <2>. DEFINE m == n - k
              g == [i \in Nat |-> IF i = m THEN VisibleStep(f, t, m) ELSE f[i]]
  <2>2. m \in Nat /\ m = n + 1 - (k + 1)
    BY <1>1
  <2>3. \A i \in Nat : i > m => g[i] = f[i]
    OBVIOUS
  <2>4. ASSUME NEW i \in Nat, i >= m PROVE g[i] = VisibleStep(g, t, i)
    <3>. HIDE DEF g
    <3>1. \A j \in Nat : j > i => g[j] = f[j]
      BY <1>1, <2>2, <2>3, <2>4
    <3>2. VisibleStep(g, t, i) = VisibleStep(f, t, i)
      BY <3>1, VisibleLater
    <3>3. CASE i = m
      BY <2>2, <3>2, <3>3 DEF g
    <3>4. CASE i # m
      <4>1. i >= n + 1 - k /\ i > m
        BY <1>1, <2>2, <2>4, <3>4
      <4>2. f[i] = VisibleStep(f, t, i)
        BY <2>1, <4>1
      <4>. QED
        BY <2>3, <3>2, <4>1, <4>2
    <3>. QED
      BY <3>3, <3>4
  <2>5. Is(g, k + 1)
    <3>1. \A i \in Nat : i >= n + 1 - (k + 1) => g[i] = VisibleStep(g, t, i)
      BY <2>2, <2>4
    <3>2. g = [i \in Nat |-> g[i]]
      OBVIOUS
    <3>. HIDE DEF g, n
    <3>. QED
      BY <3>1, <3>2
  <2>. HIDE DEF Is
  <2>. QED
    BY <2>5
<1>4. \E f : Is(f, n + 1)
  <2>1. n + 1 \in Nat /\ n + 1 <= n + 1
    BY <1>1
  <2>. HIDE DEF X
  <2>2. n + 1 \in X
    BY <1>2, <1>3, <2>1, NatInduct
  <2>. HIDE DEF Is
  <2>. QED
    BY <2>1, <2>2 DEF X
<1>5. PICK f : Is(f, n + 1)
  BY <1>4
<1>6. \A i \in Nat : f[i] = VisibleStep(f, t, i)
  BY <1>1, <1>5
<1>7. f = [i \in Nat |-> f[i]]
  BY <1>5
<1>. HIDE DEF Is
<1>8. f = [i \in Nat |-> VisibleStep(f, t, i)]
  BY <1>6, <1>7
<1>. QED
  BY <1>8 DEF VisibleFrom

\* At a place where the grammar looks for the next sequence, the scanner is between
\* two; or the ESC there breaks one off.
Resumes(S, t, i) ==
  \/ S[i - 1].state = "Text"
  \/ t[i] = "esc" /\ S[i - 1].state \in {"Escape", "CsiParameters", "CsiIntermediates"}

\* A sequence prints nothing, and the scanner resumes behind it.
Spans(S, t, i, e) ==
  /\ \A j \in i .. Len(t) : j <= e => S[j].out = S[i - 1].out
  /\ e < Len(t) => Resumes(S, t, e + 1)

LEMMA TraceStep ==
  ASSUME NEW t \in Seq(Characters), NEW S, ScanTrace(S, t), NEW j \in 1 .. Len(t)
  PROVE  /\ S[j].state = ScanNext(S[j - 1].state, t[j])
         /\ S[j].out = IF S[j - 1].state = "Text" /\ t[j] # "esc" THEN Append(S[j - 1].out, t[j])
                       ELSE S[j - 1].out
<1>1. S[j] = Scan(S[j - 1], t[j])
  BY DEF ScanTrace
<1>. QED
  BY <1>1 DEF Scan

LEMMA EscapeBegins ==
  ASSUME NEW t \in Seq(Characters), NEW S, ScanTrace(S, t), NEW i \in 1 .. Len(t),
         t[i] = "esc", Resumes(S, t, i)
  PROVE  S[i].state = "Escape" /\ S[i].out = S[i - 1].out
<1>1. S[i].state = ScanNext(S[i - 1].state, "esc") /\ S[i].out = S[i - 1].out
  BY TraceStep
<1>. QED
  BY <1>1 DEF Resumes, ScanNext, EscapeNext, CsiNext, Parameters, Intermediates

LEMMA CsiSpans ==
  ASSUME NEW t \in Seq(Characters), NEW S, ScanTrace(S, t), NEW i \in 1 .. Len(t), i < Len(t),
         t[i] = "esc", t[i + 1] = "[", Resumes(S, t, i)
  PROVE  Spans(S, t, i, CsiEnd(t, i))
<1>. DEFINE n == Len(t)
            o == S[i - 1].out
            At(j, states) == S[j].state \in states /\ S[j].out = o
<1>1. n \in Nat /\ i \in Nat /\ i \in 0 .. n /\ i + 1 \in 1 .. n /\ (i + 1) - 1 = i
  BY LenProperties
<1>2. PICK a, b \in (i + 2) .. (n + 1) :
        /\ a <= b
        /\ \A j \in (i + 2) .. (a - 1) : t[j] \in Parameters
        /\ a <= n => t[a] \notin Parameters
        /\ \A j \in a .. (b - 1) : t[j] \in Intermediates
        /\ b <= n => t[b] \notin Intermediates
        /\ CsiEnd(t, i) = IF b <= n /\ t[b] = "esc" THEN b - 1 ELSE b
  BY <1>1, CsiEndIs
<1>3. At(i, {"Escape"}) /\ At(i + 1, {"CsiParameters"})
  <2>1. S[i].state = "Escape" /\ S[i].out = o
    BY EscapeBegins
  <2>2. S[i + 1].state = ScanNext(S[i].state, "[") /\ S[i + 1].out = S[i].out
    BY <1>1, <2>1, TraceStep
  <2>. QED
    BY <2>1, <2>2 DEF ScanNext, EscapeNext
<1>. HIDE DEF n, o
<1>4. \A j \in (i + 1) .. (a - 1) : At(j, {"CsiParameters"})
  <2>. DEFINE X == {j \in Nat : At(j, {"CsiParameters"})}
  <2>1. i + 1 \in X /\ i + 1 \in Nat /\ a - 1 \in Nat
    BY <1>1, <1>2, <1>3
  <2>2. ASSUME NEW j \in (i + 1) .. (a - 1), j < a - 1, j \in X PROVE j + 1 \in X
    <3>1. j + 1 \in 1 .. n /\ (j + 1) - 1 = j /\ j + 1 \in (i + 2) .. (a - 1) /\ j + 1 \in Nat
      BY <1>1, <1>2, <2>2
    <3>2. t[j + 1] \in Parameters
      BY <1>2, <3>1
    <3>3. S[j].state = "CsiParameters" /\ S[j].out = o
      BY <2>2
    <3>4. S[j + 1].state = ScanNext(S[j].state, t[j + 1]) /\ S[j + 1].out = o
      BY <3>1, <3>3, TraceStep DEF n
    <3>5. S[j + 1].state = "CsiParameters"
      BY <3>2, <3>3, <3>4 DEF ScanNext, CsiNext, Parameters, Intermediates
    <3>. QED
      BY <3>1, <3>4, <3>5
  <2>. HIDE DEF X
  <2>3. (i + 1) .. (a - 1) \subseteq X
    BY <2>1, <2>2, IntervalInduct
  <2>. QED
    BY <2>3 DEF X
<1>5. \A j \in (a - 1) .. (b - 1) :
        At(j, IF j < a THEN {"CsiParameters"} ELSE {"CsiIntermediates"})
  <2>. DEFINE X == {j \in Nat : At(j, IF j < a THEN {"CsiParameters"} ELSE {"CsiIntermediates"})}
  <2>1. a - 1 \in X /\ b - 1 \in Nat /\ a - 1 \in Nat
    BY <1>1, <1>2, <1>4
  <2>2. ASSUME NEW j \in (a - 1) .. (b - 1), j < b - 1, j \in X PROVE j + 1 \in X
    <3>1. j + 1 \in 1 .. n /\ (j + 1) - 1 = j /\ j + 1 \in a .. (b - 1) /\ j + 1 \in Nat
      BY <1>1, <1>2, <2>2
    <3>2. t[j + 1] \in Intermediates /\ ~ (j + 1 < a)
      BY <1>2, <3>1
    <3>3. S[j].state \in {"CsiParameters", "CsiIntermediates"} /\ S[j].out = o
      BY <2>2
    <3>4. S[j + 1].state = ScanNext(S[j].state, t[j + 1]) /\ S[j + 1].out = o
      BY <3>1, <3>3, TraceStep DEF n
    <3>. QED
      BY <3>1, <3>2, <3>3, <3>4 DEF ScanNext, CsiNext, Parameters, Intermediates
  <2>. HIDE DEF X
  <2>3. (a - 1) .. (b - 1) \subseteq X
    BY <2>1, <2>2, IntervalInduct
  <2>. QED
    BY <2>3 DEF X
<1>6. \A j \in i .. (b - 1) : S[j].out = o
  <2>. SUFFICES ASSUME NEW j \in i .. (b - 1) PROVE S[j].out = o
    OBVIOUS
  <2>1. j = i \/ j \in (i + 1) .. (a - 1) \/ j \in (a - 1) .. (b - 1)
    BY <1>1, <1>2
  <2>. QED
    BY <1>3, <1>4, <1>5, <2>1
<1>7. /\ b - 1 \in (a - 1) .. (b - 1)
      /\ S[b - 1].state = (IF b - 1 < a THEN "CsiParameters" ELSE "CsiIntermediates")
      /\ S[b - 1].out = o
  <2>1. b - 1 \in (a - 1) .. (b - 1)
    BY <1>1, <1>2
  <2>. QED
    BY <1>5, <2>1
<1>8. CASE b = n + 1
  <2>1. CsiEnd(t, i) = b
    BY <1>1, <1>2, <1>8
  <2>2. \A j \in i .. n : S[j].out = o
    BY <1>1, <1>6, <1>8
  <2>. QED
    BY <1>1, <1>8, <2>1, <2>2 DEF Spans, n, o
<1>9. CASE b <= n /\ t[b] = "esc"
  <2>1. CsiEnd(t, i) = b - 1 /\ (b - 1) + 1 = b
    BY <1>2, <1>9
  <2>2. Resumes(S, t, b)
    BY <1>7, <1>9 DEF Resumes
  <2>3. \A j \in i .. n : j <= b - 1 => S[j].out = o
    BY <1>1, <1>2, <1>6
  <2>. QED
    BY <2>1, <2>2, <2>3 DEF Spans, n, o
<1>10. CASE b <= n /\ t[b] # "esc"
  <2>1. CsiEnd(t, i) = b /\ (b + 1) - 1 = b /\ b \in 1 .. n
    BY <1>1, <1>2, <1>10
  <2>2. S[b].state = ScanNext(S[b - 1].state, t[b]) /\ S[b].out = o
    BY <1>7, <2>1, TraceStep DEF n
  <2>3. S[b].state = "Text"
    <3>1. t[b] \notin Intermediates /\ t[b] # "esc"
      BY <1>2, <1>10
    <3>2. b - 1 < a => t[b] \notin Parameters
      <4>1. b - 1 < a => b = a
        BY <1>2
      <4>. QED
        BY <1>2, <1>10, <4>1
    <3>. QED
      BY <1>7, <2>2, <3>1, <3>2 DEF ScanNext, CsiNext
  <2>4. Resumes(S, t, b + 1)
    BY <2>1, <2>3 DEF Resumes
  <2>5. \A j \in i .. n : j <= b => S[j].out = o
    <3>1. \A j \in i .. n : j <= b => j \in i .. (b - 1) \/ j = b
      BY <1>1, <1>2
    <3>. QED
      BY <1>6, <2>2, <3>1
  <2>. QED
    BY <2>1, <2>4, <2>5 DEF Spans, n, o
<1>. QED
  BY <1>1, <1>2, <1>8, <1>9, <1>10

LEMMA OscSpans ==
  ASSUME NEW t \in Seq(Characters), NEW S, ScanTrace(S, t), NEW i \in 1 .. Len(t), i < Len(t),
         t[i] = "esc", t[i + 1] = "]", Resumes(S, t, i)
  PROVE  Spans(S, t, i, OscEnd(t, i))
<1>. DEFINE n == Len(t)
            o == S[i - 1].out
            e == OscEnd(t, i)
            After2(j) == IF j > i + 1 /\ t[j] = "esc" THEN "OscEscape" ELSE "Osc"
            At(j) == S[j].state = After2(j) /\ S[j].out = o
            Ends(k) == IF k > i + 2 /\ t[k - 1] = "esc" THEN t[k] = "\\" ELSE t[k] = "bel"
<1>1. n \in Nat /\ i \in Nat /\ i \in 0 .. n /\ i + 1 \in 1 .. n /\ (i + 1) - 1 = i
  BY LenProperties
<1>2. /\ e \in (i + 1) .. n
      /\ OscEnds(t, i) = {} => e = n
      /\ OscEnds(t, i) # {} => e \in OscEnds(t, i)
      /\ \A k \in OscEnds(t, i) : e <= k
  BY <1>1, OscEndIs
<1>3. OscEnds(t, i) = {k \in (i + 2) .. n : Ends(k)}
  BY DEF OscEnds
<1>. HIDE DEF n, o, e
<1>4. S[i].out = o /\ At(i + 1)
  <2>1. S[i].state = "Escape" /\ S[i].out = o
    BY EscapeBegins DEF o
  <2>2. S[i + 1].state = ScanNext(S[i].state, "]") /\ S[i + 1].out = S[i].out
    BY <1>1, <2>1, TraceStep DEF n
  <2>3. S[i + 1].state = "Osc"
    BY <2>1, <2>2 DEF ScanNext, EscapeNext
  <2>. QED
    BY <1>1, <2>1, <2>2, <2>3
<1>5. ASSUME NEW k \in (i + 2) .. n, At(k - 1)
      PROVE  /\ S[k].out = o
             /\ ~ Ends(k) => At(k)
             /\ Ends(k) => S[k].state = "Text"
  <2>1. k \in 1 .. n /\ k \in Nat /\ k > i + 1 /\ (k - 1 > i + 1 <=> k > i + 2)
    BY <1>1
  <2>2. S[k - 1].state \in {"Osc", "OscEscape"}
    BY <1>5
  <2>3. S[k].state = OscNext(S[k - 1].state, t[k]) /\ S[k].out = o
    <3>1. S[k].state = ScanNext(S[k - 1].state, t[k]) /\ S[k].out = o
      BY <1>5, <2>1, <2>2, TraceStep DEF n
    <3>. QED
      BY <2>2, <3>1 DEF ScanNext
  <2>4. S[k - 1].state = "OscEscape" <=> k > i + 2 /\ t[k - 1] = "esc"
    BY <1>5, <2>1
  <2>5. CASE S[k - 1].state = "OscEscape"
    <3>1. Ends(k) <=> t[k] = "\\"
      BY <2>4, <2>5
    <3>2. S[k].state = (CASE t[k] = "esc" -> "OscEscape" [] t[k] = "\\" -> "Text" [] OTHER -> "Osc")
      BY <2>3, <2>5 DEF OscNext
    <3>. QED
      BY <2>1, <2>3, <3>1, <3>2
  <2>6. CASE S[k - 1].state = "Osc"
    <3>1. Ends(k) <=> t[k] = "bel"
      BY <2>4, <2>6
    <3>2. S[k].state = (CASE t[k] = "esc" -> "OscEscape" [] t[k] = "bel" -> "Text" [] OTHER -> "Osc")
      BY <2>3, <2>6 DEF OscNext
    <3>. QED
      BY <2>1, <2>3, <3>1, <3>2
  <2>. QED
    BY <2>2, <2>5, <2>6
<1>. HIDE DEF At
<1>6. \A j \in (i + 1) .. (e - 1) : At(j)
  <2>. SUFFICES ASSUME i + 1 <= e - 1 PROVE \A j \in (i + 1) .. (e - 1) : At(j)
    BY <1>1, <1>2
  <2>. DEFINE X == {j \in Nat : At(j)}
  <2>1. i + 1 \in X /\ i + 1 \in Nat /\ e - 1 \in Nat
    BY <1>1, <1>2, <1>4
  <2>2. ASSUME NEW j \in (i + 1) .. (e - 1), j < e - 1, j \in X PROVE j + 1 \in X
    <3>1. j + 1 \in (i + 2) .. n /\ (j + 1) - 1 = j /\ j + 1 \in Nat /\ ~ (e <= j + 1)
      BY <1>1, <1>2, <2>2
    <3>2. ~ Ends(j + 1)
      BY <1>2, <1>3, <3>1
    <3>3. At((j + 1) - 1)
      BY <2>2, <3>1
    <3>. HIDE DEF Ends
    <3>4. At(j + 1)
      BY <1>5, <3>1, <3>2, <3>3
    <3>. QED
      BY <3>1, <3>4
  <2>. HIDE DEF X
  <2>3. (i + 1) .. (e - 1) \subseteq X
    BY <2>1, <2>2, IntervalInduct
  <2>. QED
    BY <2>3 DEF X
<1>7. S[e].out = o
  <2>1. CASE e = i + 1
    BY <1>4, <2>1 DEF At
  <2>2. CASE e # i + 1
    <3>1. e \in (i + 2) .. n /\ e - 1 \in (i + 1) .. (e - 1)
      BY <1>1, <1>2, <2>2
    <3>. QED
      BY <1>5, <1>6, <3>1
  <2>. QED
    BY <2>1, <2>2
<1>8. \A j \in i .. n : j <= e => S[j].out = o
  <2>. SUFFICES ASSUME NEW j \in i .. n, j <= e PROVE S[j].out = o
    OBVIOUS
  <2>1. j = i \/ j = e \/ j \in (i + 1) .. (e - 1)
    BY <1>1, <1>2
  <2>. QED
    BY <1>4, <1>6, <1>7, <2>1 DEF At
<1>9. ASSUME e < n PROVE Resumes(S, t, e + 1)
  <2>1. e \in OscEnds(t, i)
    BY <1>1, <1>2, <1>9
  <2>2. e \in (i + 2) .. n /\ Ends(e) /\ e - 1 \in (i + 1) .. (e - 1) /\ (e + 1) - 1 = e
    BY <1>1, <1>2, <1>3, <2>1
  <2>3. S[e].state = "Text"
    BY <1>5, <1>6, <2>2
  <2>. QED
    BY <2>2, <2>3 DEF Resumes
<1>. QED
  BY <1>8, <1>9 DEF Spans, n, o, e

LEMMA SequenceSpans ==
  ASSUME NEW t \in Seq(Characters), NEW S, ScanTrace(S, t), NEW i \in 1 .. Len(t),
         t[i] = "esc", Resumes(S, t, i)
  PROVE  Spans(S, t, i, SequenceEnd(t, i))
<1>. DEFINE n == Len(t)
<1>1. n \in Nat /\ i \in Nat /\ i <= n
  BY LenProperties
<1>2. S[i].state = "Escape" /\ S[i].out = S[i - 1].out
  BY EscapeBegins
<1>3. CASE i = n
  <2>1. SequenceEnd(t, i) = i
    BY <1>1, <1>3 DEF SequenceEnd
  <2>. QED
    BY <1>1, <1>2, <1>3, <2>1 DEF Spans
<1>4. CASE i < n
  <2>1. CASE t[i + 1] = "["
    <3>1. SequenceEnd(t, i) = CsiEnd(t, i)
      BY <1>1, <1>4, <2>1 DEF SequenceEnd
    <3>. QED
      BY <1>4, <2>1, <3>1, CsiSpans
  <2>2. CASE t[i + 1] = "]"
    <3>1. SequenceEnd(t, i) = OscEnd(t, i)
      BY <1>1, <1>4, <2>2 DEF SequenceEnd
    <3>. QED
      BY <1>4, <2>2, <3>1, OscSpans
  <2>3. CASE t[i + 1] = "esc"
    <3>1. SequenceEnd(t, i) = i /\ (i + 1) - 1 = i
      BY <1>1, <1>4, <2>3 DEF SequenceEnd
    <3>2. Resumes(S, t, i + 1)
      BY <1>2, <2>3, <3>1 DEF Resumes
    <3>. QED
      BY <1>1, <1>2, <3>1, <3>2 DEF Spans
  <2>4. CASE t[i + 1] \notin {"[", "]", "esc"}
    <3>1. SequenceEnd(t, i) = i + 1 /\ (i + 1) - 1 = i /\ ((i + 1) + 1) - 1 = i + 1
      BY <1>1, <1>4, <2>4 DEF SequenceEnd
    <3>2. i + 1 \in 1 .. n
      BY <1>1, <1>4
    <3>3. S[i + 1].state = "Text" /\ S[i + 1].out = S[i].out
      BY <1>2, <2>4, <3>1, <3>2, TraceStep DEF ScanNext, EscapeNext
    <3>4. Resumes(S, t, (i + 1) + 1)
      BY <3>1, <3>3 DEF Resumes
    <3>5. \A j \in i .. n : j <= i + 1 => j = i \/ j = i + 1
      BY <1>1
    <3>. QED
      BY <1>2, <3>1, <3>3, <3>4, <3>5 DEF Spans
  <2>. QED
    BY <2>1, <2>2, <2>3, <2>4
<1>. QED
  BY <1>1, <1>3, <1>4

\* What the scanner leaves of a text, from the place of a sequence on, is what is
\* visible from there on: from the last sequence to the first.
LEMMA PlainIsVisible ==
  ASSUME NEW t \in Seq(Characters)
  PROVE  Plain(t) = Visible(t)
<1>. DEFINE n == Len(t)
            f == CHOOSE f : VisibleFrom(f, t)
<1>1. n \in Nat /\ n = Len(t) /\ \A i \in 1 .. n : t[i] \in Characters
  BY LenProperties, ElementOfSeq
<1>2. PICK S : ScanTrace(S, t) /\ Plain(t) = S[n].out
  BY PlainTrace
<1>3. \A i \in Nat : f[i] = VisibleStep(f, t, i)
  <2>1. VisibleFrom(f, t)
    BY VisibleExists
  <2>. HIDE DEF f
  <2>. QED
    BY <2>1 DEF VisibleFrom
<1>4. Visible(t) = f[1]
  BY VisibleIs
<1>5. \A j \in 0 .. n : S[j].out \in Seq(Characters)
  BY <1>2 DEF ScanTrace, Scanned
<1>. DEFINE Is(i) == Resumes(S, t, i) => S[n].out = S[i - 1].out \o f[i]
            X == {k \in Nat : /\ \A i \in Nat \ {0} : i > n - k => f[i] \in Seq(Characters)
                              /\ \A i \in 1 .. n : i > n - k => Is(i)}
<1>. HIDE DEF f, n
<1>6. \A i \in Nat : i > n => f[i] = << >>
  BY <1>1, <1>3, VisibleCases
<1>. HIDE DEF Is
<1>7. 0 \in X
  <2>1. << >> \in Seq(Characters)
    OBVIOUS
  <2>2. \A i \in Nat \ {0} : i > n - 0 => f[i] \in Seq(Characters)
    <3>1. \A i \in Nat : i > n - 0 => i > n
      BY <1>1
    <3>. QED
      BY <1>6, <2>1, <3>1
  <2>3. \A i \in 1 .. n : ~ (i > n - 0)
    BY <1>1
  <2>. QED
    BY <2>2, <2>3
<1>8. ASSUME NEW k \in Nat, k \in X PROVE k + 1 \in X
  <2>. DEFINE i == n - k
  <2>. SUFFICES ASSUME i \in 1 .. n PROVE f[i] \in Seq(Characters) /\ Is(i)
    <3>1. \A j \in Nat : j > n - (k + 1) => j > n - k \/ (j = n - k /\ (j # 0 => j \in 1 .. n))
      BY <1>1
    <3>. QED
      BY <1>8, <3>1
  <2>0. i \in Nat \ {0} /\ i <= n
    BY <1>1
  <2>1. /\ \A j \in Nat : j > i => f[j] \in Seq(Characters)
        /\ \A j \in 1 .. n : j > i => Is(j)
    <3>1. \A j \in Nat : j > i => j # 0
      BY <2>0
    <3>. QED
      BY <1>8, <3>1
  <2>. HIDE DEF i
  <2>. USE DEF Is
  <2>2. CASE t[i] = "esc"
    <3>. DEFINE e == SequenceEnd(t, i)
    <3>1. e \in i .. (n + 1)
      BY <1>1, SequenceEndGrows
    <3>. HIDE DEF e
    <3>2. e + 1 \in Nat /\ e + 1 > i /\ (e + 1) - 1 = e
      BY <1>1, <2>0, <3>1
    <3>3. f[i] = f[e + 1]
      BY <1>1, <1>3, <2>0, <2>2, VisibleCases DEF e
    <3>4. f[i] \in Seq(Characters)
      BY <2>1, <3>2, <3>3
    <3>5. ASSUME Resumes(S, t, i) PROVE S[n].out = S[i - 1].out \o f[i]
      <4>1. Spans(S, t, i, e)
        BY <1>1, <1>2, <2>2, <3>5, SequenceSpans DEF e
      <4>2. CASE e < n
        <5>1. Resumes(S, t, e + 1) /\ e + 1 \in 1 .. n
          BY <1>1, <3>1, <4>1, <4>2 DEF Spans
        <5>2. S[n].out = S[(e + 1) - 1].out \o f[e + 1]
          BY <2>1, <3>2, <5>1
        <5>3. S[e].out = S[i - 1].out
          <6>1. e \in i .. n /\ e <= e
            BY <1>1, <3>1, <4>2
          <6>. QED
            BY <1>1, <4>1, <6>1 DEF Spans
        <5>. QED
          BY <3>2, <3>3, <5>2, <5>3
      <4>3. CASE ~ (e < n)
        <5>1. n \in i .. n /\ n <= e /\ e + 1 > n /\ i - 1 \in 0 .. n
          BY <1>1, <2>0, <3>1, <4>3
        <5>2. S[n].out = S[i - 1].out
          BY <1>1, <4>1, <5>1 DEF Spans
        <5>3. f[i] = << >>
          BY <1>6, <3>2, <3>3, <5>1
        <5>4. S[i - 1].out \o << >> = S[i - 1].out
          BY <1>5, <5>1, ConcatEmptySeq
        <5>. QED
          BY <5>2, <5>3, <5>4
      <4>. QED
        BY <4>2, <4>3
    <3>. QED
      BY <3>4, <3>5
  <2>3. CASE t[i] # "esc"
    <3>1. i + 1 \in Nat /\ i + 1 > i /\ (i + 1) - 1 = i /\ i - 1 \in 0 .. n /\ i \in 1 .. n
      BY <1>1, <2>0
    <3>2. f[i] = <<t[i]>> \o f[i + 1]
      BY <1>1, <1>3, <2>0, <2>3, VisibleCases
    <3>3. /\ f[i + 1] \in Seq(Characters) /\ <<t[i]>> \in Seq(Characters)
          /\ S[i - 1].out \in Seq(Characters)
      BY <1>1, <1>5, <2>1, <3>1
    <3>4. f[i] \in Seq(Characters)
      BY <3>2, <3>3, ConcatProperties
    <3>5. ASSUME Resumes(S, t, i) PROVE S[n].out = S[i - 1].out \o f[i]
      <4>1. S[i - 1].state = "Text"
        BY <2>3, <3>5 DEF Resumes
      <4>2. S[i].state = "Text" /\ S[i].out = Append(S[i - 1].out, t[i])
        <5>1. /\ S[i].state = ScanNext(S[i - 1].state, t[i])
              /\ S[i].out = Append(S[i - 1].out, t[i])
          <6>1. i \in 1 .. Len(t) /\ ScanTrace(S, t)
            BY <1>1, <1>2, <3>1
          <6>2. S[i].state = ScanNext(S[i - 1].state, t[i])
            BY <6>1, TraceStep
          <6>. QED
            BY <2>3, <4>1, <6>1, <6>2, TraceStep
        <5>. QED
          BY <2>3, <4>1, <5>1 DEF ScanNext
      <4>3. Append(S[i - 1].out, t[i]) = S[i - 1].out \o <<t[i]>>
        BY <1>1, <3>1, <3>3, AppendIsConcat
      <4>4. S[i].out \o f[i + 1] = S[i - 1].out \o f[i]
        <5>1. (S[i - 1].out \o <<t[i]>>) \o f[i + 1] = S[i - 1].out \o (<<t[i]>> \o f[i + 1])
          <6>. DEFINE p == S[i - 1].out
                      m == <<t[i]>>
                      r == f[i + 1]
          <6>1. p \in Seq(Characters) /\ m \in Seq(Characters) /\ r \in Seq(Characters)
            BY <3>3
          <6>. HIDE DEF p, m, r
          <6>2. (p \o m) \o r = p \o (m \o r)
            BY <6>1, ConcatAssociative
          <6>. QED
            BY <6>2 DEF p, m, r
        <5>. QED
          BY <3>2, <4>2, <4>3, <5>1
      <4>5. CASE i < n
        <5>1. Resumes(S, t, i + 1) /\ i + 1 \in 1 .. n
          BY <1>1, <3>1, <4>2, <4>5 DEF Resumes
        <5>. QED
          BY <2>1, <3>1, <4>4, <5>1
      <4>6. CASE i = n
        <5>1. f[i + 1] = << >>
          BY <1>6, <3>1, <4>6
        <5>2. S[i].out \o << >> = S[i].out
          BY <1>5, <3>1, ConcatEmptySeq
        <5>3. S[i].out \o f[i + 1] = S[i].out
          BY <5>1, <5>2, Zenon
        <5>4. S[n].out = S[i].out
          BY <4>6
        <5>. QED
          BY <4>4, <5>3, <5>4, Zenon
      <4>7. i < n \/ i = n
        BY <1>1, <2>0
      <4>. QED
        BY <4>5, <4>6, <4>7
    <3>. QED
      BY <3>4, <3>5
  <2>. QED
    BY <2>2, <2>3
<1>9. n \in X
  <2>. HIDE DEF X
  <2>. QED
    BY <1>1, <1>7, <1>8, NatInduct
<1>10. S[0].state = "Text" /\ S[0].out = << >>
  BY <1>2 DEF ScanTrace, Unscanned
<1>11. CASE n = 0
  BY <1>1, <1>2, <1>4, <1>6, <1>10, <1>11
<1>12. CASE n # 0
  <2>1. 1 \in 1 .. n /\ 1 > n - n /\ 1 - 1 = 0 /\ 1 \in Nat \ {0}
    BY <1>1, <1>12
  <2>2. f[1] \in Seq(Characters) /\ Is(1)
    BY <1>9, <2>1
  <2>3. Resumes(S, t, 1)
    BY <1>10, <2>1 DEF Resumes
  <2>4. << >> \o f[1] = f[1]
    BY <2>2, ConcatEmptySeq
  <2>. QED
    BY <1>2, <1>4, <1>10, <2>1, <2>2, <2>3, <2>4 DEF Is
<1>. QED
  BY <1>11, <1>12

\* What the scanner and the parsers are given.
TextInv ==
  /\ bench = "escapes" => text \in Seq(Characters)
  /\ bench = "plan" => text \in Seq(PlanLines)
  /\ bench = "description" => text \in Seq(Written)

LEMMA TextInvariance == Spec => []TextInv
<1>1. Init => TextInv
  BY DEF Init, TextInv
<1>2. TextInv /\ [Next]_vars => TextInv'
  <2>. SUFFICES ASSUME TextInv, [Next]_vars PROVE TextInv'
    OBVIOUS
  <2>1. CASE Grow
    <3>0. PICK u \in Texts : /\ bench = u.bench /\ bench' = bench
                             /\ \E c \in u.of : text' = Append(text, c)
      BY <2>1 DEF Grow
    <3>1. PICK c \in u.of : bench = u.bench /\ text' = Append(text, c) /\ bench' = bench
      BY <3>0
    <3>2. CASE u.bench = "escapes"
      <4>1. c \in Characters
        BY <3>1, <3>2 DEF Texts
      <4>. QED
        BY <3>1, <3>2, <4>1, AppendProperties DEF TextInv
    <3>3. CASE u.bench = "plan"
      <4>1. c \in PlanLines
        BY <3>1, <3>3 DEF Texts
      <4>. QED
        BY <3>1, <3>3, <4>1, AppendProperties DEF TextInv
    <3>4. CASE u.bench = "description"
      <4>1. c \in Written
        BY <3>1, <3>4 DEF Texts
      <4>. QED
        BY <3>1, <3>4, <4>1, AppendProperties DEF TextInv
    <3>. QED
      BY <3>1, <3>2, <3>3, <3>4 DEF Texts
  <2>2. CASE UNCHANGED <<bench, text>>
    BY <2>2 DEF TextInv
  <2>. QED
    BY <2>1, <2>2 DEF Next, Grown, vars
<1>. QED
  BY <1>1, <1>2, PTL DEF Spec

\* The farm's copy of the output is the output without its escape sequences, no
\* more and no less: whatever is printed, broken off, cut or nested, plain()
\* leaves what the grammar of whole sequences leaves.
THEOREM EscapesAreGone == Spec => []EscapesGone
<1>1. TextInv => EscapesGone
  BY PlainIsVisible DEF TextInv, EscapesGone
<1>. QED
  BY <1>1, TextInvariance, PTL
-----------------------------------------------------------------------------
(* Lines: the characters of a piece.                                       *)

\* What from_utf8_lossy() makes of bytes of C.
Runes(C) == {"wide", "bad"} \cup (C \ {"lead", "cont"})

LEMMA LossyAtTyped ==
  ASSUME NEW C, NEW s \in Seq(C), NEW i \in 1 .. Len(s)
  PROVE  /\ LossyAt(s, i) \in Seq(Runes(C))
         /\ ~EndsChar(s, i) => Len(LossyAt(s, i)) = 1
<1>1. s[i] \in C
  BY ElementOfSeq
<1>2. CASE StartsChar(s, i)
  <2>1. s[i] = "lead" /\ ~EndsChar(s, i)
    BY <1>2 DEF StartsChar, EndsChar
  <2>. QED
    BY <1>2, <2>1 DEF LossyAt, Runes
<1>3. CASE EndsChar(s, i)
  <2>1. ~StartsChar(s, i)
    BY <1>3 DEF StartsChar, EndsChar
  <2>. QED
    BY <1>3, <2>1 DEF LossyAt
<1>4. CASE ~StartsChar(s, i) /\ ~EndsChar(s, i)
  <2>1. CASE s[i] \in {"lead", "cont"}
    <3>1. LossyAt(s, i) = <<"bad">>
      BY <1>4, <2>1 DEF LossyAt
    <3>. QED
      BY <3>1 DEF Runes
  <2>2. CASE s[i] \notin {"lead", "cont"}
    <3>1. LossyAt(s, i) = <<s[i]>> /\ s[i] \in Runes(C)
      BY <1>1, <1>4, <2>2 DEF LossyAt, Runes
    <3>. QED
      BY <3>1
  <2>. QED
    BY <2>1, <2>2
<1>. QED
  BY <1>2, <1>3, <1>4

\* The folding of the characters at sets of places, as FoldLeft has it.
LossyFold(h, s) ==
  h = [T \in SUBSET DOMAIN [i \in DOMAIN s |-> i] |->
         IF T = {} THEN << >>
         ELSE h[T \ {Max(T)}] \o LossyAt(s, [i \in DOMAIN s |-> i][Max(T)])]

LEMMA LossyIs ==
  ASSUME NEW s
  PROVE  Lossy(s) = (CHOOSE h : LossyFold(h, s))[DOMAIN [i \in DOMAIN s |-> i]]
BY DEF Lossy, FoldLeft, MapThenFoldSet, LossyFold

\* What was made of the bytes up to a place.
LossyTrace(S, s, C) ==
  /\ S \in [0 .. Len(s) -> Seq(Runes(C))]
  /\ S[0] = << >>
  /\ \A j \in 1 .. Len(s) : S[j] = S[j - 1] \o LossyAt(s, j)

LEMMA LossyTraced ==
  ASSUME NEW C, NEW t \in Seq(C)
  PROVE  \E S : LossyTrace(S, t, C) /\ Lossy(t) = S[Len(t)]
<1>. DEFINE n == Len(t)
            Texts0 == Seq(Runes(C))
            step == [p \in Texts0 \X (1 .. n) |-> p[1] \o LossyAt(t, p[2])]
            id == [i \in DOMAIN t |-> i]
            h == CHOOSE h : LossyFold(h, t)
            S == [j \in 0 .. n |-> h[1 .. j]]
<1>1. /\ n \in Nat /\ DOMAIN t = 1 .. n /\ DOMAIN id = 1 .. n /\ n = Len(t)
      /\ id \in [1 .. n -> 1 .. n] /\ \A i \in 1 .. n : id[i] = i
  BY LenProperties
<1>2. ASSUME NEW u \in Texts0, NEW i \in 1 .. n
      PROVE  u \o LossyAt(t, i) \in Texts0
  <2>1. LossyAt(t, i) \in Texts0
    BY LossyAtTyped
  <2>. QED
    BY <2>1, ConcatProperties
<1>3. << >> \in Texts0
  BY EmptySeq
<1>. HIDE DEF n, Texts0
<1>4. step \in [Texts0 \X (1 .. n) -> Texts0]
  <2>1. ASSUME NEW p \in Texts0 \X (1 .. n) PROVE p[1] \o LossyAt(t, p[2]) \in Texts0
    BY <1>2
  <2>. QED
    BY <2>1
<1>5. PICK g \in [SUBSET (1 .. n) -> Texts0] : Folds(g, n, << >>, step, id)
  <2>. HIDE DEF step, id
  <2>. QED
    BY <1>1, <1>3, <1>4, FoldExists
<1>6. ASSUME NEW T \in SUBSET (1 .. n), T # {}
      PROVE  g[T] = g[T \ {Max(T)}] \o LossyAt(t, id[Max(T)])
  <2>1. Max(T) \in T /\ Max(T) \in 1 .. n
    BY <1>1, <1>6, MaxOf
  <2>2. T \ {Max(T)} \in SUBSET (1 .. n)
    OBVIOUS
  <2>3. <<g[T \ {Max(T)}], id[Max(T)]>> \in Texts0 \X (1 .. n)
    BY <1>1, <2>1, <2>2
  <2>. QED
    BY <1>5, <1>6, <2>3 DEF Folds
<1>7. LossyFold(g, t)
  BY <1>1, <1>5, <1>6 DEF LossyFold, Folds
<1>8. LossyFold(h, t)
  BY <1>7
<1>. HIDE DEF h, step
<1>9. Lossy(t) = S[n]
  BY <1>1, LossyIs DEF h
<1>10. S[0] = << >>
  <2>1. 1 .. 0 = {} /\ {} \in SUBSET DOMAIN id
    OBVIOUS
  <2>. QED
    BY <1>1, <1>8, <2>1 DEF LossyFold
<1>11. ASSUME NEW j \in 1 .. n PROVE S[j] = S[j - 1] \o LossyAt(t, j)
  <2>1. PICK k \in Nat : j = k + 1 /\ k = j - 1
    BY <1>11
  <2>2. /\ 1 .. (k + 1) # {} /\ (1 .. (k + 1)) \ {k + 1} = 1 .. k /\ Max(1 .. (k + 1)) = k + 1
        /\ 1 .. (k + 1) \in SUBSET DOMAIN id
    <3>1. 1 .. (k + 1) \in SUBSET DOMAIN id
      BY <1>1, <2>1
    <3>. QED
      BY <2>1, <3>1, WholeInterval
  <2>3. h[1 .. (k + 1)] = h[1 .. k] \o LossyAt(t, id[k + 1])
    BY <1>8, <2>2 DEF LossyFold
  <2>4. id[k + 1] = k + 1 /\ S[k + 1] = h[1 .. (k + 1)] /\ S[k] = h[1 .. k]
    <3>1. k + 1 \in 1 .. n /\ k + 1 \in 0 .. n /\ k \in 0 .. n
      BY <1>1, <2>1
    <3>2. id[k + 1] = k + 1
      BY <1>1, <3>1
    <3>. QED
      BY <3>1, <3>2
  <2>. HIDE DEF S, id
  <2>. QED
    BY <2>1, <2>3, <2>4
<1>. HIDE DEF S
<1>12. \A j \in Nat : j <= n => S[j] \in Texts0
  <2>. DEFINE X == {j \in Nat : j <= n => S[j] \in Texts0}
  <2>1. 0 \in X
    BY <1>3, <1>10
  <2>2. ASSUME NEW j \in Nat, j \in X PROVE j + 1 \in X
    <3>. SUFFICES ASSUME j + 1 <= n PROVE S[j + 1] \in Texts0
      OBVIOUS
    <3>1. j + 1 \in 1 .. n /\ (j + 1) - 1 = j /\ S[j] \in Texts0
      BY <1>1, <2>2
    <3>. QED
      BY <1>2, <1>11, <3>1
  <2>. HIDE DEF X
  <2>3. Nat \subseteq X
    BY <2>1, <2>2, NatInduct
  <2>. QED
    BY <2>3 DEF X
<1>13. S \in [0 .. n -> Texts0]
  BY <1>1, <1>12 DEF S
<1>. QED
  BY <1>1, <1>9, <1>10, <1>11, <1>13 DEF LossyTrace, Texts0

\* The bytes of two texts in one.
LEMMA ConcatAt ==
  ASSUME NEW C, NEW a \in Seq(C), NEW b \in Seq(C)
  PROVE  /\ Len(a) \in Nat /\ Len(b) \in Nat /\ Len(a \o b) = Len(a) + Len(b)
         /\ \A i \in 1 .. Len(a) : (a \o b)[i] = a[i]
         /\ \A i \in 1 .. Len(b) : (a \o b)[Len(a) + i] = b[i]
<1>1. Len(a) \in Nat /\ Len(b) \in Nat
  BY LenProperties
<1>2. Len(a \o b) = Len(a) + Len(b)
  BY ConcatProperties
<1>3. \A i \in 1 .. Len(a) + Len(b) : (a \o b)[i] = IF i <= Len(a) THEN a[i] ELSE b[i - Len(a)]
  BY ConcatProperties
<1>4. ASSUME NEW i \in 1 .. Len(b) PROVE (a \o b)[Len(a) + i] = b[i]
  <2>1. Len(a) + i \in 1 .. Len(a) + Len(b) /\ ~ (Len(a) + i <= Len(a)) /\ (Len(a) + i) - Len(a) = i
    BY <1>1
  <2>. QED
    BY <1>3, <2>1
<1>5. ASSUME NEW i \in 1 .. Len(a) PROVE (a \o b)[i] = a[i]
  <2>1. i \in 1 .. Len(a) + Len(b) /\ i <= Len(a)
    BY <1>1
  <2>. QED
    BY <1>3, <2>1
<1>. QED
  BY <1>1, <1>2, <1>4, <1>5

\* Two texts that are joined between characters keep theirs.
Joined(a, b) == ~ (/\ Len(a) > 0 /\ Len(b) > 0
                   /\ a[Len(a)] = "lead" /\ b[1] = "cont")

LEMMA JoinedAt ==
  ASSUME NEW C, NEW a \in Seq(C), NEW b \in Seq(C), Joined(a, b)
  PROVE  /\ \A i \in 1 .. Len(a) : LossyAt(a \o b, i) = LossyAt(a, i)
         /\ \A i \in 1 .. Len(b) : LossyAt(a \o b, Len(a) + i) = LossyAt(b, i)
<1>. DEFINE ab == a \o b
<1>1. /\ Len(a) \in Nat /\ Len(b) \in Nat /\ Len(ab) = Len(a) + Len(b)
      /\ \A i \in 1 .. Len(a) : ab[i] = a[i]
      /\ \A i \in 1 .. Len(b) : ab[Len(a) + i] = b[i]
  BY ConcatAt
<1>. HIDE DEF ab
<1>2. ASSUME NEW i \in 1 .. Len(a)
      PROVE  (StartsChar(ab, i) <=> StartsChar(a, i)) /\ (EndsChar(ab, i) <=> EndsChar(a, i))
  <2>1. ab[i] = a[i] /\ (i > 1 => i - 1 \in 1 .. Len(a) /\ ab[i - 1] = a[i - 1])
    BY <1>1
  <2>2. i < Len(a) => ab[i + 1] = a[i + 1]
    BY <1>1
  <2>3. i = Len(a) /\ Len(b) > 0 => ab[i + 1] = b[1]
    BY <1>1
  <2>4. i < Len(ab) => i < Len(a) \/ (i = Len(a) /\ Len(b) > 0)
    BY <1>1
  <2>5. i < Len(a) => i < Len(ab)
    BY <1>1
  <2>. QED
    BY <1>1, <2>1, <2>2, <2>3, <2>4, <2>5 DEF StartsChar, EndsChar, Joined
<1>3. ASSUME NEW i \in 1 .. Len(b)
      PROVE  /\ StartsChar(ab, Len(a) + i) <=> StartsChar(b, i)
             /\ EndsChar(ab, Len(a) + i) <=> EndsChar(b, i)
  <2>1. ab[Len(a) + i] = b[i]
    BY <1>1
  <2>2. i < Len(b) => ab[(Len(a) + i) + 1] = b[i + 1]
    <3>. SUFFICES ASSUME i < Len(b) PROVE ab[(Len(a) + i) + 1] = b[i + 1]
      OBVIOUS
    <3>1. i + 1 \in 1 .. Len(b) /\ (Len(a) + i) + 1 = Len(a) + (i + 1)
      BY <1>1
    <3>. QED
      BY <1>1, <3>1
  <2>3. Len(a) + i < Len(ab) <=> i < Len(b)
    BY <1>1
  <2>4. i > 1 => ab[(Len(a) + i) - 1] = b[i - 1]
    <3>. SUFFICES ASSUME i > 1 PROVE ab[(Len(a) + i) - 1] = b[i - 1]
      OBVIOUS
    <3>1. i - 1 \in 1 .. Len(b) /\ (Len(a) + i) - 1 = Len(a) + (i - 1)
      BY <1>1
    <3>. QED
      BY <1>1, <3>1
  <2>5. i = 1 /\ Len(a) > 0 => ab[(Len(a) + i) - 1] = a[Len(a)]
    BY <1>1
  <2>6. Len(a) + i > 1 => i > 1 \/ (i = 1 /\ Len(a) > 0)
    BY <1>1
  <2>7. i > 1 => Len(a) + i > 1
    BY <1>1
  <2>8. StartsChar(ab, Len(a) + i) <=> StartsChar(b, i)
    BY <2>1, <2>2, <2>3 DEF StartsChar
  <2>9. EndsChar(ab, Len(a) + i) => EndsChar(b, i)
    BY <1>1, <2>1, <2>4, <2>5, <2>6 DEF EndsChar, Joined
  <2>10. EndsChar(b, i) => EndsChar(ab, Len(a) + i)
    BY <2>1, <2>4, <2>7 DEF EndsChar
  <2>. QED
    BY <2>8, <2>9, <2>10
<1>4. \A i \in 1 .. Len(a) : LossyAt(ab, i) = LossyAt(a, i)
  <2>. SUFFICES ASSUME NEW i \in 1 .. Len(a) PROVE LossyAt(ab, i) = LossyAt(a, i)
    OBVIOUS
  <2>1. ab[i] = a[i] /\ (StartsChar(ab, i) <=> StartsChar(a, i)) /\ (EndsChar(ab, i) <=> EndsChar(a, i))
    BY <1>1, <1>2
  <2>. QED
    BY <2>1, Zenon DEF LossyAt
<1>5. \A i \in 1 .. Len(b) : LossyAt(ab, Len(a) + i) = LossyAt(b, i)
  <2>. SUFFICES ASSUME NEW i \in 1 .. Len(b) PROVE LossyAt(ab, Len(a) + i) = LossyAt(b, i)
    OBVIOUS
  <2>1. /\ ab[Len(a) + i] = b[i]
        /\ StartsChar(ab, Len(a) + i) <=> StartsChar(b, i)
        /\ EndsChar(ab, Len(a) + i) <=> EndsChar(b, i)
    BY <1>1, <1>3
  <2>. QED
    BY <2>1, Zenon DEF LossyAt
<1>. QED
  BY <1>4, <1>5 DEF ab

LEMMA LossyConcat ==
  ASSUME NEW C, NEW a \in Seq(C), NEW b \in Seq(C), Joined(a, b)
  PROVE  Lossy(a \o b) = Lossy(a) \o Lossy(b)
<1>. DEFINE ab == a \o b
<1>1. ab \in Seq(C) /\ Len(ab) = Len(a) + Len(b) /\ Len(a) \in Nat /\ Len(b) \in Nat
  BY ConcatProperties, LenProperties
<1>2. /\ \A i \in 1 .. Len(a) : LossyAt(ab, i) = LossyAt(a, i)
      /\ \A i \in 1 .. Len(b) : LossyAt(ab, Len(a) + i) = LossyAt(b, i)
  BY JoinedAt
<1>. HIDE DEF ab
<1>3. PICK S : LossyTrace(S, ab, C) /\ Lossy(ab) = S[Len(ab)]
  BY <1>1, LossyTraced
<1>4. PICK T : LossyTrace(T, a, C) /\ Lossy(a) = T[Len(a)]
  BY LossyTraced
<1>5. PICK U : LossyTrace(U, b, C) /\ Lossy(b) = U[Len(b)]
  BY LossyTraced
<1>6. \A j \in Nat : j <= Len(a) => S[j] = T[j]
  <2>. DEFINE X == {j \in Nat : j <= Len(a) => S[j] = T[j]}
  <2>1. 0 \in X
    BY <1>3, <1>4 DEF LossyTrace
  <2>2. ASSUME NEW j \in Nat, j \in X PROVE j + 1 \in X
    <3>. SUFFICES ASSUME j + 1 <= Len(a) PROVE S[j + 1] = T[j + 1]
      OBVIOUS
    <3>1. j + 1 \in 1 .. Len(a) /\ j + 1 \in 1 .. Len(ab) /\ (j + 1) - 1 = j /\ S[j] = T[j]
      BY <1>1, <2>2
    <3>2. S[j + 1] = S[j] \o LossyAt(ab, j + 1) /\ T[j + 1] = T[j] \o LossyAt(a, j + 1)
      BY <1>3, <1>4, <3>1 DEF LossyTrace
    <3>. QED
      BY <1>2, <3>1, <3>2
  <2>. HIDE DEF X
  <2>3. Nat \subseteq X
    BY <2>1, <2>2, NatInduct
  <2>. QED
    BY <2>3 DEF X
<1>7. T[Len(a)] \in Seq(Runes(C)) /\ S[Len(a)] = T[Len(a)]
  BY <1>1, <1>4, <1>6 DEF LossyTrace
<1>8. S[Len(a) + Len(b)] = T[Len(a)] \o U[Len(b)]
  <2>. DEFINE Same(j) == S[Len(a) + j] = T[Len(a)] \o U[j]
              X == {j \in Nat : j <= Len(b) => Same(j)}
  <2>1. Same(0)
    <3>1. U[0] = << >> /\ Len(a) + 0 = Len(a)
      BY <1>1, <1>5 DEF LossyTrace
    <3>2. T[Len(a)] \o << >> = T[Len(a)]
      BY <1>7, ConcatEmptySeq
    <3>. QED
      BY <1>7, <3>1, <3>2
  <2>2. ASSUME NEW j \in Nat, j + 1 <= Len(b), Same(j) PROVE Same(j + 1)
    <3>1. /\ j + 1 \in 1 .. Len(b) /\ Len(a) + (j + 1) \in 1 .. Len(ab) /\ (j + 1) - 1 = j
          /\ (Len(a) + (j + 1)) - 1 = Len(a) + j /\ j \in 0 .. Len(b)
      BY <1>1, <2>2
    <3>. DEFINE tail == LossyAt(b, j + 1)
                front == T[Len(a)]
                mid == U[j]
    <3>2. S[Len(a) + (j + 1)] = S[Len(a) + j] \o tail
      BY <1>2, <1>3, <3>1 DEF LossyTrace
    <3>3. U[j + 1] = mid \o tail
      BY <1>5, <3>1 DEF LossyTrace
    <3>4. S[Len(a) + j] = front \o mid
      BY <2>2
    <3>5. front \in Seq(Runes(C)) /\ mid \in Seq(Runes(C)) /\ tail \in Seq(Runes(C))
      BY <1>5, <1>7, <3>1, LossyAtTyped DEF LossyTrace
    <3>. HIDE DEF tail, front, mid
    <3>6. (front \o mid) \o tail = front \o (mid \o tail)
      BY <3>5, ConcatAssociative
    <3>7. S[Len(a) + (j + 1)] = front \o U[j + 1]
      BY <3>2, <3>3, <3>4, <3>6, Zenon
    <3>. QED
      BY <3>7 DEF front
  <2>. HIDE DEF Same
  <2>3. 0 \in X
    BY <2>1
  <2>4. ASSUME NEW j \in Nat, j \in X PROVE j + 1 \in X
    <3>. SUFFICES ASSUME j + 1 <= Len(b) PROVE Same(j + 1)
      OBVIOUS
    <3>. QED
      BY <1>1, <2>2, <2>4
  <2>. HIDE DEF X
  <2>5. Nat \subseteq X
    BY <2>3, <2>4, NatInduct
  <2>6. Same(Len(b))
    BY <1>1, <2>5 DEF X
  <2>. QED
    BY <2>6 DEF Same
<1>10. Lossy(ab) = Lossy(a) \o Lossy(b)
  BY <1>1, <1>3, <1>4, <1>5, <1>8, Zenon
<1>. QED
  BY <1>10 DEF ab

\* What is made of some bytes is some text, of nothing nothing.
LEMMA LossyTyped ==
  ASSUME NEW C, NEW s \in Seq(C)
  PROVE  Lossy(s) \in Seq(Runes(C)) /\ (Lossy(s) = << >> <=> s = << >>)
<1>1. Len(s) \in Nat
  BY LenProperties
<1>2. PICK S : LossyTrace(S, s, C) /\ Lossy(s) = S[Len(s)]
  BY LossyTraced
<1>3. S[Len(s)] \in Seq(Runes(C))
  BY <1>1, <1>2 DEF LossyTrace
<1>4. s = << >> => Lossy(s) = << >>
  <2>1. s = << >> => Len(s) = 0
    BY EmptySeq
  <2>. QED
    BY <1>2, <2>1 DEF LossyTrace
<1>5. ASSUME s # << >> PROVE Lossy(s) # << >>
  <2>1. Len(s) > 0
    BY <1>1, <1>5, EmptySeq
  <2>2. ASSUME NEW j \in Nat, j + 1 <= Len(s), S[j] \in Seq(Runes(C))
        PROVE  /\ S[j + 1] \in Seq(Runes(C)) /\ Len(S[j + 1]) = Len(S[j]) + Len(LossyAt(s, j + 1))
               /\ Len(LossyAt(s, j + 1)) \in Nat /\ Len(S[j]) \in Nat
    <3>1. j + 1 \in 1 .. Len(s) /\ (j + 1) - 1 = j
      BY <1>1, <2>2
    <3>2. S[j + 1] = S[j] \o LossyAt(s, j + 1)
      BY <1>2, <3>1 DEF LossyTrace
    <3>3. LossyAt(s, j + 1) \in Seq(Runes(C))
      BY <3>1, LossyAtTyped
    <3>. QED
      BY <2>2, <3>2, <3>3, ConcatProperties, LenProperties
  <2>. DEFINE Some(j) == S[j + 1] \in Seq(Runes(C)) /\ Len(S[j + 1]) >= 1
              X == {j \in Nat : j + 1 <= Len(s) => Some(j)}
  <2>3. Some(0)
    <3>1. S[0] = << >> /\ Len(<< >>) = 0 /\ << >> \in Seq(Runes(C))
      BY <1>2, EmptySeq DEF LossyTrace
    <3>2. 1 \in 1 .. Len(s) /\ ~EndsChar(s, 1)
      BY <1>1, <2>1 DEF EndsChar
    <3>3. Len(LossyAt(s, 1)) = 1
      BY <3>2, LossyAtTyped
    <3>4. 0 + 1 = 1 /\ 0 + 1 <= Len(s) /\ S[0] \in Seq(Runes(C))
      BY <1>1, <2>1, <3>1
    <3>5. S[0 + 1] \in Seq(Runes(C)) /\ Len(S[0 + 1]) = Len(S[0]) + Len(LossyAt(s, 0 + 1))
      BY <2>2, <3>4
    <3>6. S[1] \in Seq(Runes(C)) /\ Len(S[1]) = 0 + 1
      BY <3>1, <3>3, <3>5
    <3>. DEFINE one == 0 + 1
    <3>7. one = 1
      OBVIOUS
    <3>. HIDE DEF one
    <3>8. S[one] \in Seq(Runes(C)) /\ Len(S[one]) >= 1
      <4>1. 0 + 1 = 1 /\ 1 >= 1
        OBVIOUS
      <4>. QED
        BY <3>6, <3>7, <4>1, Zenon
    <3>. QED
      BY <3>8 DEF one
  <2>4. ASSUME NEW j \in Nat, j \in X PROVE j + 1 \in X
    <3>. SUFFICES ASSUME (j + 1) + 1 <= Len(s) PROVE Some(j + 1)
      <4>. HIDE DEF Some
      <4>. QED
        OBVIOUS
    <3>1. Some(j)
      <4>. HIDE DEF Some
      <4>. QED
        BY <1>1, <2>4
    <3>2. j + 1 \in Nat /\ S[j + 1] \in Seq(Runes(C)) /\ Len(S[j + 1]) >= 1
      BY <3>1
    <3>3. /\ S[(j + 1) + 1] \in Seq(Runes(C))
          /\ Len(S[(j + 1) + 1]) = Len(S[j + 1]) + Len(LossyAt(s, (j + 1) + 1))
          /\ Len(LossyAt(s, (j + 1) + 1)) \in Nat /\ Len(S[j + 1]) \in Nat
      BY <2>2, <3>2
    <3>4. Len(S[(j + 1) + 1]) >= 1
      <4>. DEFINE x == Len(S[(j + 1) + 1])
                  y == Len(S[j + 1])
                  z == Len(LossyAt(s, (j + 1) + 1))
      <4>1. x = y + z /\ z \in Nat /\ y \in Nat /\ y >= 1
        BY <3>2, <3>3
      <4>. HIDE DEF x, y, z
      <4>2. x >= 1
        BY <4>1
      <4>. QED
        BY <4>2 DEF x
    <3>. QED
      BY <3>3, <3>4
  <2>. HIDE DEF Some
  <2>8. 0 \in X
    BY <2>3
  <2>. HIDE DEF X
  <2>5. Nat \subseteq X
    BY <2>8, <2>4, NatInduct
  <2>6. Len(s) - 1 \in Nat /\ (Len(s) - 1) + 1 = Len(s)
    BY <1>1, <2>1
  <2>7. Len(S[Len(s)]) >= 1
    BY <2>5, <2>6 DEF X, Some
  <2>. QED
    BY <1>2, <2>7, EmptySeq
<1>. QED
  BY <1>2, <1>3, <1>4, <1>5

LEMMA LossyNewline ==
  /\ Lossy(<<"nl">>) = <<"nl">>
  /\ \A C, a : "nl" \in C /\ a \in Seq(C) => Lossy(a \o <<"nl">>) = Lossy(a) \o <<"nl">>
<1>1. <<"nl">> \in Seq({"nl"}) /\ Len(<<"nl">>) = 1 /\ <<"nl">>[1] = "nl"
  OBVIOUS
<1>2. PICK S : LossyTrace(S, <<"nl">>, {"nl"}) /\ Lossy(<<"nl">>) = S[Len(<<"nl">>)]
  BY <1>1, LossyTraced
<1>3. S[1] = S[1 - 1] \o LossyAt(<<"nl">>, 1) /\ S[0] = << >> /\ Lossy(<<"nl">>) = S[1]
  BY <1>1, <1>2 DEF LossyTrace
<1>4. LossyAt(<<"nl">>, 1) = <<"nl">>
  <2>1. ~StartsChar(<<"nl">>, 1) /\ ~EndsChar(<<"nl">>, 1)
    BY <1>1 DEF StartsChar, EndsChar
  <2>. QED
    BY <1>1, <2>1 DEF LossyAt
<1>5. << >> \o <<"nl">> = <<"nl">>
  BY <1>1, ConcatEmptySeq
<1>6. Lossy(<<"nl">>) = <<"nl">>
  BY <1>3, <1>4, <1>5
<1>7. ASSUME NEW C, NEW a, "nl" \in C, a \in Seq(C)
      PROVE  Lossy(a \o <<"nl">>) = Lossy(a) \o <<"nl">>
  <2>1. <<"nl">> \in Seq(C)
    BY <1>7
  <2>2. Joined(a, <<"nl">>)
    BY <1>1 DEF Joined
  <2>. QED
    BY <1>6, <1>7, <2>1, <2>2, LossyConcat
<1>. QED
  BY <1>6, <1>7

-----------------------------------------------------------------------------
(* Lines: characters that are whole.                                       *)

\* No byte is out of its place, though the last character may be cut.
Whole(s) ==
  \A i \in 1 .. Len(s) :
    /\ s[i] = "lead" /\ i < Len(s) => s[i + 1] = "cont"
    /\ s[i] = "cont" => i > 1 /\ s[i - 1] = "lead"

EndsOpen(s) == Len(s) > 0 /\ s[Len(s)] = "lead"

LEMMA WellFormedIs ==
  ASSUME NEW C, NEW s \in Seq(C)
  PROVE  WellFormed(s) <=> Whole(s) /\ ~EndsOpen(s)
<1>1. Len(s) \in Nat /\ DOMAIN s = 1 .. Len(s)
  BY LenProperties
<1>2. ASSUME WellFormed(s) PROVE Whole(s) /\ ~EndsOpen(s)
  <2>1. ASSUME NEW i \in 1 .. Len(s), s[i] \in {"lead", "cont"}
        PROVE  StartsChar(s, i) \/ EndsChar(s, i)
    BY <1>1, <1>2, <2>1 DEF WellFormed
  <2>2. ~EndsOpen(s)
    <3>. SUFFICES ASSUME Len(s) > 0, s[Len(s)] = "lead" PROVE FALSE
      BY DEF EndsOpen
    <3>1. Len(s) \in 1 .. Len(s)
      BY <1>1
    <3>. QED
      BY <2>1, <3>1 DEF StartsChar, EndsChar
  <2>3. ASSUME NEW i \in 1 .. Len(s)
        PROVE  /\ s[i] = "lead" /\ i < Len(s) => s[i + 1] = "cont"
               /\ s[i] = "cont" => i > 1 /\ s[i - 1] = "lead"
    BY <2>1 DEF StartsChar, EndsChar
  <2>. QED
    BY <2>2, <2>3 DEF Whole
<1>3. ASSUME Whole(s), ~EndsOpen(s) PROVE WellFormed(s)
  <2>. SUFFICES ASSUME NEW i \in 1 .. Len(s), s[i] \in {"lead", "cont"}
                PROVE  StartsChar(s, i) \/ EndsChar(s, i)
    BY <1>1 DEF WellFormed
  <2>1. s[i] = "lead" => i < Len(s)
    BY <1>1, <1>3 DEF EndsOpen
  <2>. QED
    BY <1>3, <2>1 DEF Whole, StartsChar, EndsChar
<1>. QED
  BY <1>2, <1>3

LEMMA WholeParts ==
  ASSUME NEW C, NEW a \in Seq(C), NEW b \in Seq(C)
  PROVE  /\ Whole(a \o b) => Whole(a)
         /\ Whole(a \o b) /\ ~EndsOpen(a) => Whole(b)
         /\ Whole(a \o b) /\ Len(b) > 0 /\ b[1] # "cont" => ~EndsOpen(a)
         /\ EndsOpen(a \o b) <=> IF Len(b) > 0 THEN EndsOpen(b) ELSE EndsOpen(a)
         /\ ~EndsOpen(a) => Joined(a, b)
<1>. DEFINE ab == a \o b
<1>1. /\ Len(a) \in Nat /\ Len(b) \in Nat /\ Len(ab) = Len(a) + Len(b)
      /\ \A i \in 1 .. Len(a) : ab[i] = a[i]
      /\ \A i \in 1 .. Len(b) : ab[Len(a) + i] = b[i]
  BY ConcatAt
<1>. HIDE DEF ab
<1>2. ASSUME Whole(ab), NEW i \in 1 .. Len(a)
      PROVE  /\ a[i] = "lead" /\ i < Len(a) => a[i + 1] = "cont"
             /\ a[i] = "cont" => i > 1 /\ a[i - 1] = "lead"
  <2>1. i \in 1 .. Len(ab) /\ ab[i] = a[i] /\ (i < Len(a) => i < Len(ab) /\ ab[i + 1] = a[i + 1])
    BY <1>1
  <2>2. i > 1 => ab[i - 1] = a[i - 1]
    BY <1>1
  <2>. QED
    BY <1>2, <2>1, <2>2 DEF Whole
<1>3. ASSUME Whole(ab), ~EndsOpen(a), NEW i \in 1 .. Len(b)
      PROVE  /\ b[i] = "lead" /\ i < Len(b) => b[i + 1] = "cont"
             /\ b[i] = "cont" => i > 1 /\ b[i - 1] = "lead"
  <2>1. Len(a) + i \in 1 .. Len(ab) /\ ab[Len(a) + i] = b[i]
    BY <1>1
  <2>2. i < Len(b) => Len(a) + i < Len(ab) /\ ab[(Len(a) + i) + 1] = b[i + 1]
    <3>. SUFFICES ASSUME i < Len(b) PROVE Len(a) + i < Len(ab) /\ ab[(Len(a) + i) + 1] = b[i + 1]
      OBVIOUS
    <3>1. i + 1 \in 1 .. Len(b) /\ (Len(a) + i) + 1 = Len(a) + (i + 1) /\ Len(a) + i < Len(ab)
      BY <1>1
    <3>. QED
      BY <1>1, <3>1
  <2>3. i > 1 => ab[(Len(a) + i) - 1] = b[i - 1]
    <3>. SUFFICES ASSUME i > 1 PROVE ab[(Len(a) + i) - 1] = b[i - 1]
      OBVIOUS
    <3>1. i - 1 \in 1 .. Len(b) /\ (Len(a) + i) - 1 = Len(a) + (i - 1)
      BY <1>1
    <3>. QED
      BY <1>1, <3>1
  <2>4. i = 1 /\ Len(a) + i > 1 => Len(a) > 0 /\ ab[(Len(a) + i) - 1] = a[Len(a)]
    BY <1>1
  <2>5. /\ ab[Len(a) + i] = "lead" /\ Len(a) + i < Len(ab) => ab[(Len(a) + i) + 1] = "cont"
        /\ ab[Len(a) + i] = "cont" => Len(a) + i > 1 /\ ab[(Len(a) + i) - 1] = "lead"
    BY <1>3, <2>1 DEF Whole
  <2>6. i > 1 \/ i = 1
    BY <1>1
  <2>7. b[i] = "cont" => i > 1 /\ b[i - 1] = "lead"
    BY <1>3, <2>1, <2>3, <2>4, <2>5, <2>6 DEF EndsOpen
  <2>. QED
    BY <2>1, <2>2, <2>5, <2>7
<1>4. ASSUME Whole(ab), Len(b) > 0, b[1] # "cont" PROVE ~EndsOpen(a)
  <2>. SUFFICES ASSUME Len(a) > 0, a[Len(a)] = "lead" PROVE FALSE
    BY DEF EndsOpen
  <2>1. /\ Len(a) \in 1 .. Len(a) /\ Len(a) \in 1 .. Len(ab) /\ Len(a) < Len(ab)
        /\ 1 \in 1 .. Len(b)
    BY <1>1, <1>4
  <2>2. ab[Len(a)] = "lead" /\ ab[Len(a) + 1] = b[1]
    BY <1>1, <2>1
  <2>. QED
    BY <1>4, <2>1, <2>2 DEF Whole
<1>5. EndsOpen(ab) <=> IF Len(b) > 0 THEN EndsOpen(b) ELSE EndsOpen(a)
  <2>1. CASE Len(b) > 0
    <3>1. Len(b) \in 1 .. Len(b) /\ Len(ab) > 0 /\ Len(ab) = Len(a) + Len(b)
      BY <1>1, <2>1
    <3>2. ab[Len(ab)] = b[Len(b)]
      BY <1>1, <3>1
    <3>. QED
      BY <2>1, <3>1, <3>2 DEF EndsOpen
  <2>2. CASE ~ (Len(b) > 0)
    <3>1. Len(ab) = Len(a) /\ (Len(a) > 0 => Len(a) \in 1 .. Len(a))
      BY <1>1, <2>2
    <3>2. Len(a) > 0 => ab[Len(ab)] = a[Len(a)]
      BY <1>1, <3>1
    <3>. QED
      BY <2>2, <3>1, <3>2 DEF EndsOpen
  <2>. QED
    BY <2>1, <2>2
<1>6. ~EndsOpen(a) => Joined(a, b)
  BY DEF EndsOpen, Joined
<1>7. Whole(ab) => Whole(a)
  BY <1>2 DEF Whole
<1>8. Whole(ab) /\ ~EndsOpen(a) => Whole(b)
  <2>. SUFFICES ASSUME Whole(ab), ~EndsOpen(a) PROVE Whole(b)
    OBVIOUS
  <2>. QED
    BY <1>3 DEF Whole
<1>. QED
  BY <1>4, <1>5, <1>6, <1>7, <1>8 DEF ab

LEMMA WholeConcat ==
  ASSUME NEW C, NEW a \in Seq(C), NEW b \in Seq(C), Whole(a), ~EndsOpen(a), Whole(b)
  PROVE  Whole(a \o b)
<1>. DEFINE ab == a \o b
<1>1. /\ Len(a) \in Nat /\ Len(b) \in Nat /\ Len(ab) = Len(a) + Len(b)
      /\ \A i \in 1 .. Len(a) : ab[i] = a[i]
      /\ \A i \in 1 .. Len(b) : ab[Len(a) + i] = b[i]
  BY ConcatAt
<1>. HIDE DEF ab
<1>2. ASSUME NEW i \in 1 .. Len(a)
      PROVE  /\ ab[i] = "lead" /\ i < Len(ab) => ab[i + 1] = "cont"
             /\ ab[i] = "cont" => i > 1 /\ ab[i - 1] = "lead"
  <2>1. ab[i] = a[i] /\ (i < Len(a) => ab[i + 1] = a[i + 1]) /\ (i > 1 => ab[i - 1] = a[i - 1])
    BY <1>1
  <2>2. i < Len(a) \/ i = Len(a)
    BY <1>1
  <2>3. i = Len(a) => Len(a) > 0 /\ a[i] # "lead"
    BY <1>1 DEF EndsOpen
  <2>. QED
    BY <2>1, <2>2, <2>3 DEF Whole
<1>3. ASSUME NEW i \in 1 .. Len(b)
      PROVE  /\ ab[Len(a) + i] = "lead" /\ Len(a) + i < Len(ab) => ab[(Len(a) + i) + 1] = "cont"
             /\ ab[Len(a) + i] = "cont" => Len(a) + i > 1 /\ ab[(Len(a) + i) - 1] = "lead"
  <2>1. ab[Len(a) + i] = b[i] /\ (Len(a) + i < Len(ab) <=> i < Len(b)) /\ (i > 1 => Len(a) + i > 1)
    BY <1>1
  <2>2. i < Len(b) => ab[(Len(a) + i) + 1] = b[i + 1]
    <3>. SUFFICES ASSUME i < Len(b) PROVE ab[(Len(a) + i) + 1] = b[i + 1]
      OBVIOUS
    <3>1. i + 1 \in 1 .. Len(b) /\ (Len(a) + i) + 1 = Len(a) + (i + 1)
      BY <1>1
    <3>. QED
      BY <1>1, <3>1
  <2>3. i > 1 => ab[(Len(a) + i) - 1] = b[i - 1]
    <3>. SUFFICES ASSUME i > 1 PROVE ab[(Len(a) + i) - 1] = b[i - 1]
      OBVIOUS
    <3>1. i - 1 \in 1 .. Len(b) /\ (Len(a) + i) - 1 = Len(a) + (i - 1)
      BY <1>1
    <3>. QED
      BY <1>1, <3>1
  <2>. QED
    BY <2>1, <2>2, <2>3 DEF Whole
<1>4. ASSUME NEW j \in 1 .. Len(ab)
      PROVE  /\ ab[j] = "lead" /\ j < Len(ab) => ab[j + 1] = "cont"
             /\ ab[j] = "cont" => j > 1 /\ ab[j - 1] = "lead"
  <2>1. CASE j <= Len(a)
    BY <1>1, <1>2, <2>1
  <2>2. CASE ~ (j <= Len(a))
    <3>1. j - Len(a) \in 1 .. Len(b) /\ Len(a) + (j - Len(a)) = j
      BY <1>1, <2>2
    <3>. QED
      BY <1>3, <3>1
  <2>. QED
    BY <2>1, <2>2
<1>. QED
  BY <1>4 DEF Whole, ab

LEMMA FrontAndLast ==
  ASSUME NEW C, NEW s \in Seq(C), s # << >>
  PROVE  /\ Front(s) \in Seq(C) /\ Last(s) \in C /\ <<Last(s)>> \in Seq(C)
         /\ s = Front(s) \o <<Last(s)>>
         /\ Len(s) \in Nat /\ Len(s) > 0
<1>1. Len(s) \in Nat /\ Len(s) > 0
  BY EmptySeq
<1>2. Last(s) \in C
  BY <1>1, ElementOfSeq DEF Last
<1>3. \A i \in 1 .. (Len(s) - 1) : s[i] \in C
  BY <1>1, ElementOfSeq
<1>4. Front(s) \in Seq(C)
  BY <1>1, <1>3, SubSeqProperties DEF Front
<1>5. 1 \in 1 .. Len(s) /\ Len(s) \in 1 .. Len(s)
  BY <1>1
<1>6. SubSeq(s, 1, Len(s)) = SubSeq(s, 1, Len(s) - 1) \o <<s[Len(s)]>>
  BY <1>5, SubSeqRecursiveSecond
<1>7. s = Front(s) \o <<Last(s)>>
  BY <1>6, SubSeqFull DEF Front, Last
<1>. QED
  BY <1>1, <1>2, <1>4, <1>7

LEMMA WholeOne ==
  ASSUME NEW x
  PROVE  (Whole(<<x>>) <=> x # "cont") /\ (EndsOpen(<<x>>) <=> x = "lead")
<1>1. Len(<<x>>) = 1 /\ <<x>>[1] = x
  OBVIOUS
<1>2. Whole(<<x>>) <=> x # "cont"
  BY <1>1 DEF Whole
<1>3. EndsOpen(<<x>>) <=> x = "lead"
  BY <1>1 DEF EndsOpen
<1>. QED
  BY <1>2, <1>3

LEMMA ReadableIs ==
  ASSUME NEW C, NEW s \in Seq(C)
  PROVE  /\ Readable(s) <=> Whole(s)
         /\ Whole(s) /\ EndsOpen(s) => s # << >> /\ Last(s) = "lead" /\ WellFormed(Front(s))
<1>1. ASSUME s # << >>, Last(s) = "lead", WellFormed(Front(s)) PROVE Whole(s)
  <2>1. Front(s) \in Seq(C) /\ <<Last(s)>> \in Seq(C) /\ s = Front(s) \o <<Last(s)>>
    BY <1>1, FrontAndLast
  <2>2. Whole(Front(s)) /\ ~EndsOpen(Front(s)) /\ Whole(<<Last(s)>>)
    BY <1>1, <2>1, WellFormedIs, WholeOne
  <2>3. Whole(Front(s) \o <<Last(s)>>)
    BY <2>1, <2>2, WholeConcat
  <2>. QED
    BY <2>1, <2>3, Zenon
<1>2. Readable(s) => Whole(s)
  BY <1>1, WellFormedIs DEF Readable
<1>3. ASSUME Whole(s), EndsOpen(s) PROVE s # << >> /\ Last(s) = "lead" /\ WellFormed(Front(s))
  <2>1. s # << >> /\ Last(s) = "lead"
    BY <1>3, EmptySeq DEF EndsOpen, Last
  <2>2. Front(s) \in Seq(C) /\ <<Last(s)>> \in Seq(C) /\ s = Front(s) \o <<Last(s)>>
    BY <2>1, FrontAndLast
  <2>3. Len(<<Last(s)>>) > 0 /\ <<Last(s)>>[1] # "cont"
    BY <2>1
  <2>4. Whole(Front(s) \o <<Last(s)>>)
    BY <1>3, <2>2, Zenon
  <2>5. Whole(Front(s)) /\ ~EndsOpen(Front(s))
    BY <2>2, <2>3, <2>4, WholeParts
  <2>. QED
    BY <2>1, <2>2, <2>5, WellFormedIs
<1>4. Whole(s) => Readable(s)
  BY <1>3, WellFormedIs DEF Readable
<1>. QED
  BY <1>2, <1>3, <1>4

\* A cut takes no less than all but one byte of a line, and of a line that is
\* readable no character that is not whole.
LEMMA BoundaryIs ==
  ASSUME NEW C, NEW line \in Seq(C), Len(line) >= 2
  PROVE  /\ FloorBoundary(line) \in 1 .. Len(line) /\ FloorBoundary(line) >= Len(line) - 1
         /\ SubSeq(line, 1, FloorBoundary(line)) \in Seq(C)
         /\ SubSeq(line, 1, FloorBoundary(line)) # << >>
         /\ Whole(line) => /\ Whole(SubSeq(line, 1, FloorBoundary(line)))
                           /\ ~EndsOpen(SubSeq(line, 1, FloorBoundary(line)))
<1>1. Len(line) \in Nat /\ line # << >>
  BY LenProperties, EmptySeq
<1>2. FloorBoundary(line) \in {Len(line) - 1, Len(line)}
  BY DEF FloorBoundary
<1>3. FloorBoundary(line) \in 1 .. Len(line) /\ FloorBoundary(line) >= Len(line) - 1
  BY <1>1, <1>2
<1>4. \A i \in 1 .. FloorBoundary(line) : line[i] \in C
  BY <1>1, <1>3, ElementOfSeq
<1>5. /\ SubSeq(line, 1, FloorBoundary(line)) \in Seq(C)
      /\ Len(SubSeq(line, 1, FloorBoundary(line))) = FloorBoundary(line)
  <2>1. FloorBoundary(line) \in Int /\ 1 <= FloorBoundary(line)
    BY <1>3
  <2>2. SubSeq(line, 1, FloorBoundary(line)) \in Seq(C)
    BY <1>4, <2>1, SubSeqProperties
  <2>3. Len(SubSeq(line, 1, FloorBoundary(line))) = FloorBoundary(line) - 1 + 1
    BY <1>4, <2>1, SubSeqProperties
  <2>. QED
    BY <2>1, <2>2, <2>3
<1>6. SubSeq(line, 1, FloorBoundary(line)) # << >>
  BY <1>3, <1>5, EmptySeq
<1>7. ASSUME Whole(line)
      PROVE  /\ Whole(SubSeq(line, 1, FloorBoundary(line)))
             /\ ~EndsOpen(SubSeq(line, 1, FloorBoundary(line)))
  <2>1. CASE EndsOpen(line)
    <3>1. Last(line) = "lead" /\ WellFormed(Front(line))
      BY <1>7, <2>1, ReadableIs
    <3>2. SubSeq(line, 1, FloorBoundary(line)) = Front(line)
      BY <1>1, <3>1 DEF FloorBoundary, Front
    <3>3. Front(line) \in Seq(C)
      BY <1>1, FrontAndLast
    <3>4. Whole(Front(line)) /\ ~EndsOpen(Front(line))
      BY <3>1, <3>3, WellFormedIs
    <3>. QED
      BY <3>2, <3>4, Zenon
  <2>2. CASE ~EndsOpen(line)
    <3>1. Last(line) # "lead"
      BY <1>1, <2>2 DEF EndsOpen, Last
    <3>2. FloorBoundary(line) = Len(line)
      BY <3>1 DEF FloorBoundary
    <3>3. SubSeq(line, 1, FloorBoundary(line)) = line
      BY <3>2, SubSeqFull
    <3>. QED
      BY <1>7, <2>2, <3>3, Zenon
  <2>. QED
    BY <2>1, <2>2
<1>. QED
  BY <1>3, <1>5, <1>6, <1>7

\* Without carriage returns there is none to strip.
LEMMA NothingStripped ==
  ASSUME NEW C, "cr" \notin C, NEW s \in Seq(C)
  PROVE  StripCR(Lossy(s)) = Lossy(s)
<1>1. Lossy(s) \in Seq(Runes(C)) /\ "cr" \notin Runes(C)
  BY LossyTyped DEF Runes
<1>2. Lossy(s) # << >> => Last(Lossy(s)) # "cr"
  <2>. DEFINE u == Lossy(s)
  <2>. HIDE DEF u
  <2>1. u \in Seq(Runes(C)) /\ u # << >> => Last(u) \in Runes(C)
    BY FrontAndLast
  <2>. QED
    BY <1>1, <2>1 DEF u
<1>. QED
  BY <1>2 DEF StripCR

LEMMA StripTyped ==
  ASSUME NEW C, NEW u \in Seq(C)
  PROVE  StripCR(u) \in Seq(C)
BY FrontAndLast DEF StripCR

-----------------------------------------------------------------------------
(* Lines: the farm's copy.                                                 *)

NotCR == Bytes \ {"cr"}

LEMMA NoneOf ==
  ASSUME NEW s \in Seq(Bytes), "cr" \notin Range(s)
  PROVE  s \in Seq(NotCR)
<1>1. Len(s) \in Nat /\ s \in [1 .. Len(s) -> Bytes] /\ DOMAIN s = 1 .. Len(s)
  BY LenProperties
<1>2. ASSUME NEW i \in 1 .. Len(s) PROVE s[i] \in NotCR
  <2>1. s[i] \in Range(s) /\ s[i] \in Bytes
    BY <1>1 DEF Range
  <2>. QED
    BY <2>1 DEF NotCR
<1>3. s \in [1 .. Len(s) -> NotCR]
  BY <1>1, <1>2
<1>. QED
  BY <1>1, <1>3, SeqDef

LEMMA NoneOfPrefix ==
  ASSUME NEW s \in Seq(Bytes), NEW b \in Bytes, "cr" \notin Range(Append(s, b))
  PROVE  "cr" \notin Range(s) /\ b # "cr"
<1>1. <<b>> \in Seq(Bytes) /\ Range(<<b>>) = {b}
  BY DEF Range
<1>2. Append(s, b) = s \o <<b>>
  BY AppendIsConcat
<1>3. Range(s \o <<b>>) = Range(s) \cup Range(<<b>>)
  BY <1>1, RangeConcatenation
<1>. QED
  BY <1>1, <1>2, <1>3

LEMMA PartsOf ==
  ASSUME NEW S, NEW a \in Seq(S), NEW b \in Seq(S), NEW C, a \o b \in Seq(C)
  PROVE  a \in Seq(C) /\ b \in Seq(C)
<1>1. /\ Len(a) \in Nat /\ Len(b) \in Nat /\ Len(a \o b) = Len(a) + Len(b)
      /\ \A i \in 1 .. Len(a) : (a \o b)[i] = a[i]
      /\ \A i \in 1 .. Len(b) : (a \o b)[Len(a) + i] = b[i]
  BY ConcatAt
<1>2. \A i \in 1 .. Len(a \o b) : (a \o b)[i] \in C
  BY ElementOfSeq
<1>3. a \in [1 .. Len(a) -> S] /\ b \in [1 .. Len(b) -> S]
  BY LenProperties
<1>4. ASSUME NEW i \in 1 .. Len(a) PROVE a[i] \in C
  <2>1. i \in 1 .. Len(a \o b)
    BY <1>1
  <2>. QED
    BY <1>1, <1>2, <2>1
<1>5. ASSUME NEW i \in 1 .. Len(b) PROVE b[i] \in C
  <2>1. Len(a) + i \in 1 .. Len(a \o b)
    BY <1>1
  <2>. QED
    BY <1>1, <1>2, <2>1
<1>6. a \in [1 .. Len(a) -> C] /\ b \in [1 .. Len(b) -> C]
  BY <1>3, <1>4, <1>5
<1>. QED
  BY <1>1, <1>6, SeqDef

\* What is handed over behind whole characters is copied as it is.
LEMMA PieceCopied ==
  ASSUME NEW C, "cr" \notin C, "nl" \in C, NEW r \in Seq(C), NEW p \in Seq(C), ~EndsOpen(r)
  PROVE  /\ Lossy(r) \o (StripCR(Lossy(p)) \o << >>) = Lossy(r \o (p \o << >>))
         /\ Lossy(r) \o (StripCR(Lossy(p)) \o <<"nl">>) = Lossy(r \o (p \o <<"nl">>))
<1>1. StripCR(Lossy(p)) = Lossy(p) /\ Lossy(p) \in Seq(Runes(C))
  BY NothingStripped, LossyTyped
<1>2. Lossy(p) \o << >> = Lossy(p) /\ p \o << >> = p
  BY <1>1, ConcatEmptySeq
<1>3. <<"nl">> \in Seq(C)
  OBVIOUS
<1>4. p \o <<"nl">> \in Seq(C)
  BY <1>3, ConcatProperties
<1>5. Joined(r, p) /\ Joined(r, p \o <<"nl">>)
  BY <1>4, WholeParts
<1>6. Lossy(r \o p) = Lossy(r) \o Lossy(p)
  BY <1>5, LossyConcat
<1>7. Lossy(r \o (p \o <<"nl">>)) = Lossy(r) \o Lossy(p \o <<"nl">>)
  BY <1>4, <1>5, LossyConcat
<1>8. Lossy(p \o <<"nl">>) = Lossy(p) \o <<"nl">>
  BY LossyNewline
<1>. QED
  BY <1>1, <1>2, <1>6, <1>7, <1>8, Zenon

\* The farm's copy so far, and no character is cut in two where it ends.
Copied ==
  Whole(fed) /\ "cr" \notin Range(fed) => copy = Lossy(raw) /\ (closed \/ ~EndsOpen(raw))

LEMMA FeedCopies == ASSUME TerminalInv, Copied, NEW b \in Bytes, Feed(b) PROVE Copied'
<1>. SUFFICES ASSUME Whole(fed'), "cr" \notin Range(fed')
              PROVE  copy' = Lossy(raw') /\ ~EndsOpen(raw')
  BY DEF Copied
<1>. DEFINE line == Append(pending, b)
<1>1. /\ ~closed /\ fed' = Append(fed, b)
      /\ fed \in Seq(Bytes) /\ raw \in Seq(Bytes) /\ fed = raw \o pending /\ pending \in Seq(Bytes)
  BY PendingBytes DEF Feed, TerminalInv, NothingLost
<1>2. /\ fed' = raw \o line /\ fed' \in Seq(Bytes) /\ fed' = fed \o <<b>>
      /\ line \in Seq(Bytes) /\ line = pending \o <<b>> /\ <<b>> \in Seq(Bytes)
  <2>1. fed' = raw \o line /\ fed' \in Seq(Bytes)
    BY <1>1, FedBehind
  <2>2. Append(fed, b) = fed \o <<b>> /\ line = pending \o <<b>> /\ line \in Seq(Bytes)
    BY <1>1, AppendIsConcat, AppendProperties
  <2>3. <<b>> \in Seq(Bytes)
    OBVIOUS
  <2>. QED
    BY <1>1, <2>1, <2>2, <2>3
<1>3. "cr" \notin Range(fed) /\ fed' \in Seq(NotCR)
  BY <1>1, <1>2, NoneOf, NoneOfPrefix
<1>4. raw \in Seq(NotCR) /\ line \in Seq(NotCR)
  BY <1>1, <1>2, <1>3, PartsOf
<1>5. fed \in Seq(NotCR) /\ <<b>> \in Seq(NotCR)
  BY <1>1, <1>2, <1>3, PartsOf
<1>6. pending \in Seq(NotCR)
  BY <1>1, <1>2, <1>4, PartsOf
<1>7. Whole(fed \o <<b>>) /\ Whole(raw \o line)
  BY <1>2, Zenon
<1>8. Whole(fed)
  BY <1>5, <1>7, WholeParts
<1>9. copy = Lossy(raw) /\ ~EndsOpen(raw)
  BY <1>1, <1>3, <1>8 DEF Copied
<1>10. "cr" \notin NotCR /\ "nl" \in NotCR
  BY DEF NotCR, Bytes
<1>11. CASE b = "nl" /\ cut
  <2>1. raw' = Append(raw, "nl") /\ copy' = Append(copy, "nl")
    BY <1>11 DEF Feed, Newline, PushBreak
  <2>2. Lossy(raw) \in Seq(Runes(NotCR)) /\ "nl" \in Runes(NotCR) /\ <<"nl">> \in Seq(NotCR)
    BY <1>4, <1>10, LossyTyped DEF Runes
  <2>3. raw' = raw \o <<"nl">> /\ copy' = Lossy(raw) \o <<"nl">>
    BY <1>4, <1>9, <1>10, <2>1, <2>2, AppendIsConcat
  <2>4. Lossy(raw \o <<"nl">>) = Lossy(raw) \o <<"nl">>
    BY <1>4, <1>10, LossyNewline
  <2>5. ~EndsOpen(<<"nl">>) /\ Len(<<"nl">>) > 0
    BY WholeOne
  <2>6. ~EndsOpen(raw \o <<"nl">>)
    BY <1>4, <2>2, <2>5, WholeParts
  <2>. QED
    BY <2>3, <2>4, <2>6, Zenon
<1>12. CASE b = "nl" /\ ~cut
  <2>1. raw' = raw \o (pending \o <<"nl">>) /\ copy' = copy \o (StripCR(Lossy(pending)) \o <<"nl">>)
    BY <1>12 DEF Feed, Newline, PushLine
  <2>2. copy' = Lossy(raw')
    BY <1>4, <1>6, <1>9, <1>10, <2>1, PieceCopied
  <2>3. raw' = fed \o <<b>>
    BY <1>2, <1>12, <2>1, Zenon
  <2>4. ~EndsOpen(<<b>>) /\ Len(<<b>>) > 0
    BY <1>12, WholeOne
  <2>5. ~EndsOpen(fed \o <<b>>)
    BY <1>5, <2>4, WholeParts
  <2>. QED
    BY <2>2, <2>3, <2>5, Zenon
<1>13. CASE b # "nl" /\ Len(line) >= MaxChunk
  <2>. DEFINE piece == SubSeq(line, 1, FloorBoundary(line))
  <2>1. raw' = raw \o (piece \o << >>) /\ copy' = copy \o (StripCR(Lossy(piece)) \o << >>)
    BY <1>13 DEF Feed, Keep, ForceLine, PushLine
  <2>2. Whole(line)
    BY <1>4, <1>7, <1>9, WholeParts
  <2>3. Len(line) >= 2
    <3>1. Len(line) \in Nat
      BY <1>4, LenProperties
    <3>. QED
      BY <1>13, <3>1, ChunkAssumption
  <2>. HIDE DEF line
  <2>4. piece \in Seq(NotCR) /\ piece # << >> /\ ~EndsOpen(piece)
    BY <1>4, <2>2, <2>3, BoundaryIs
  <2>. HIDE DEF piece
  <2>5. copy' = Lossy(raw')
    BY <1>4, <1>9, <1>10, <2>1, <2>4, PieceCopied
  <2>6. piece \o << >> = piece /\ Len(piece) > 0
    BY <2>4, ConcatEmptySeq, EmptySeq
  <2>7. ~EndsOpen(raw \o piece)
    BY <1>4, <2>4, <2>6, WholeParts
  <2>. QED
    BY <2>1, <2>5, <2>6, <2>7, Zenon
<1>14. CASE b # "nl" /\ ~ (Len(line) >= MaxChunk)
  <2>1. raw' = raw /\ copy' = copy
    BY <1>14 DEF Feed, Keep
  <2>. QED
    BY <1>9, <2>1
<1>. QED
  BY <1>11, <1>12, <1>13, <1>14

LEMMA FinishCopies == ASSUME TerminalInv, Copied, FinishLines PROVE Copied'
<1>1. fed' = fed /\ ~closed /\ closed'
  BY DEF FinishLines
<1>. SUFFICES ASSUME Whole(fed), "cr" \notin Range(fed)
              PROVE  copy' = Lossy(raw')
  BY <1>1 DEF Copied
<1>2. copy = Lossy(raw) /\ ~EndsOpen(raw)
  BY <1>1 DEF Copied
<1>3. CASE pending = << >>
  BY <1>2, <1>3 DEF FinishLines
<1>4. CASE pending # << >>
  <2>1. raw' = raw \o (pending \o << >>) /\ copy' = copy \o (StripCR(Lossy(pending)) \o << >>)
    BY <1>4 DEF FinishLines, PushLine
  <2>2. /\ fed \in Seq(Bytes) /\ raw \in Seq(Bytes) /\ fed = raw \o pending /\ pending \in Seq(Bytes)
    BY PendingBytes DEF TerminalInv, NothingLost
  <2>3. fed \in Seq(NotCR)
    BY <2>2, NoneOf
  <2>4. raw \in Seq(NotCR) /\ pending \in Seq(NotCR)
    BY <2>2, <2>3, PartsOf
  <2>5. "cr" \notin NotCR /\ "nl" \in NotCR
    BY DEF NotCR, Bytes
  <2>. QED
    BY <1>2, <2>1, <2>4, <2>5, PieceCopied
<1>. QED
  BY <1>3, <1>4

-----------------------------------------------------------------------------
(* Lines: the history.                                                     *)

Parted == [ended : Seq(Seq(Bytes)), open : Seq(Bytes)]

Unparted == [ended |-> << >>, open |-> << >>]

LEMMA LineByteTyped ==
  ASSUME NEW p \in Parted, NEW b \in Bytes
  PROVE  LineByte(p, b) \in Parted
<1>1. p.ended \in Seq(Seq(Bytes)) /\ p.open \in Seq(Bytes)
  BY DEF Parted
<1>2. /\ Append(p.ended, p.open) \in Seq(Seq(Bytes)) /\ Append(p.open, b) \in Seq(Bytes)
      /\ << >> \in Seq(Bytes)
  BY <1>1, AppendProperties, EmptySeq
<1>. QED
  BY <1>1, <1>2 DEF LineByte, Parted

LinesFold(h, t) ==
  h = [T \in SUBSET DOMAIN t |->
         IF T = {} THEN Unparted ELSE LineByte(h[T \ {Max(T)}], t[Max(T)])]

LEMMA LinesIs ==
  ASSUME NEW t
  PROVE  Lines(t) = (CHOOSE h : LinesFold(h, t))[DOMAIN t]
BY DEF Lines, FoldLeft, MapThenFoldSet, LinesFold, Unparted

LinesTrace(S, t) ==
  /\ S \in [0 .. Len(t) -> Parted]
  /\ S[0] = Unparted
  /\ \A j \in 1 .. Len(t) : S[j] = LineByte(S[j - 1], t[j])

LEMMA LinesTraced ==
  ASSUME NEW t \in Seq(Bytes)
  PROVE  \E S : LinesTrace(S, t) /\ Lines(t) = S[Len(t)]
<1>. DEFINE n == Len(t)
            step == [p \in Parted \X Bytes |-> LineByte(p[1], p[2])]
            h == CHOOSE h : LinesFold(h, t)
            S == [j \in 0 .. n |-> h[1 .. j]]
<1>1. n \in Nat /\ t \in [1 .. n -> Bytes] /\ DOMAIN t = 1 .. n
  BY LenProperties
<1>2. step \in [Parted \X Bytes -> Parted]
  BY LineByteTyped
<1>3. Unparted \in Parted
  <2>1. << >> \in Seq(Bytes) /\ << >> \in Seq(Seq(Bytes))
    BY EmptySeq
  <2>. QED
    BY <2>1 DEF Unparted, Parted
<1>. HIDE DEF n
<1>4. PICK g \in [SUBSET (1 .. n) -> Parted] : Folds(g, n, Unparted, step, t)
  <2>. HIDE DEF step
  <2>. QED
    BY <1>1, <1>2, <1>3, FoldExists
<1>5. ASSUME NEW T \in SUBSET (1 .. n), T # {}
      PROVE  g[T] = LineByte(g[T \ {Max(T)}], t[Max(T)])
  <2>1. Max(T) \in T /\ Max(T) \in 1 .. n
    BY <1>1, <1>5, MaxOf
  <2>2. T \ {Max(T)} \in SUBSET (1 .. n)
    OBVIOUS
  <2>3. <<g[T \ {Max(T)}], t[Max(T)]>> \in Parted \X Bytes
    BY <1>1, <2>1, <2>2
  <2>. QED
    BY <1>4, <1>5, <2>3 DEF Folds
<1>6. LinesFold(g, t)
  BY <1>1, <1>4, <1>5 DEF LinesFold, Folds
<1>7. LinesFold(h, t)
  BY <1>6
<1>. HIDE DEF h, step
<1>8. Lines(t) = S[n]
  BY <1>1, LinesIs DEF h
<1>9. S[0] = Unparted
  <2>1. 1 .. 0 = {} /\ {} \in SUBSET DOMAIN t
    OBVIOUS
  <2>. QED
    BY <1>1, <1>7, <2>1 DEF LinesFold
<1>10. ASSUME NEW j \in 1 .. n PROVE S[j] = LineByte(S[j - 1], t[j])
  <2>1. PICK k \in Nat : j = k + 1 /\ k = j - 1
    BY <1>10
  <2>2. /\ 1 .. (k + 1) # {} /\ (1 .. (k + 1)) \ {k + 1} = 1 .. k /\ Max(1 .. (k + 1)) = k + 1
        /\ 1 .. (k + 1) \in SUBSET DOMAIN t
    <3>1. 1 .. (k + 1) \in SUBSET DOMAIN t
      BY <1>1, <2>1
    <3>. QED
      BY <2>1, <3>1, WholeInterval
  <2>3. h[1 .. (k + 1)] = LineByte(h[1 .. k], t[k + 1])
    BY <1>7, <2>2 DEF LinesFold
  <2>. QED
    BY <1>1, <2>1, <2>3
<1>. HIDE DEF S
<1>11. \A j \in Nat : j <= n => S[j] \in Parted
  <2>. DEFINE X == {j \in Nat : j <= n => S[j] \in Parted}
  <2>1. 0 \in X
    BY <1>3, <1>9
  <2>2. ASSUME NEW j \in Nat, j \in X PROVE j + 1 \in X
    <3>. SUFFICES ASSUME j + 1 <= n PROVE S[j + 1] \in Parted
      OBVIOUS
    <3>1. j + 1 \in 1 .. n /\ (j + 1) - 1 = j /\ S[j] \in Parted
      BY <1>1, <2>2
    <3>. QED
      BY <1>1, <1>10, <3>1, LineByteTyped
  <2>. HIDE DEF X
  <2>3. Nat \subseteq X
    BY <2>1, <2>2, NatInduct
  <2>. QED
    BY <2>3 DEF X
<1>12. S \in [0 .. n -> Parted]
  BY <1>1, <1>11 DEF S
<1>. QED
  BY <1>8, <1>9, <1>10, <1>12 DEF LinesTrace, n

LEMMA LinesAppend ==
  ASSUME NEW s \in Seq(Bytes), NEW b \in Bytes
  PROVE  Lines(s) \in Parted /\ Lines(Append(s, b)) = LineByte(Lines(s), b)
<1>1. /\ Append(s, b) \in Seq(Bytes) /\ Len(s) \in Nat /\ Len(Append(s, b)) = Len(s) + 1
      /\ \A i \in 1 .. Len(s) : Append(s, b)[i] = s[i]
      /\ Append(s, b)[Len(s) + 1] = b
  BY AppendProperties, LenProperties
<1>2. PICK S : LinesTrace(S, s) /\ Lines(s) = S[Len(s)]
  BY LinesTraced
<1>3. PICK T : LinesTrace(T, Append(s, b)) /\ Lines(Append(s, b)) = T[Len(Append(s, b))]
  BY <1>1, LinesTraced
<1>4. \A j \in Nat : j <= Len(s) => S[j] = T[j]
  <2>. DEFINE X == {j \in Nat : j <= Len(s) => S[j] = T[j]}
  <2>1. 0 \in X
    BY <1>2, <1>3 DEF LinesTrace
  <2>2. ASSUME NEW j \in Nat, j \in X PROVE j + 1 \in X
    <3>. SUFFICES ASSUME j + 1 <= Len(s) PROVE S[j + 1] = T[j + 1]
      OBVIOUS
    <3>1. j + 1 \in 1 .. Len(s) /\ j + 1 \in 1 .. Len(Append(s, b)) /\ (j + 1) - 1 = j /\ S[j] = T[j]
      BY <1>1, <2>2
    <3>2. S[j + 1] = LineByte(S[j], s[j + 1]) /\ T[j + 1] = LineByte(T[j], Append(s, b)[j + 1])
      BY <1>2, <1>3, <3>1 DEF LinesTrace
    <3>. QED
      BY <1>1, <3>1, <3>2
  <2>. HIDE DEF X
  <2>3. Nat \subseteq X
    BY <2>1, <2>2, NatInduct
  <2>. QED
    BY <2>3 DEF X
<1>5. Len(s) + 1 \in 1 .. Len(Append(s, b)) /\ (Len(s) + 1) - 1 = Len(s) /\ S[Len(s)] = T[Len(s)]
  BY <1>1, <1>4
<1>6. T[Len(s) + 1] = LineByte(T[Len(s)], b)
  BY <1>1, <1>3, <1>5 DEF LinesTrace
<1>7. S[Len(s)] \in Parted
  BY <1>1, <1>2 DEF LinesTrace
<1>. QED
  BY <1>1, <1>2, <1>3, <1>5, <1>6, <1>7, Zenon

LEMMA LinesNone == Lines(<< >>) = Unparted
<1>1. << >> \in Seq(Bytes) /\ Len(<< >>) = 0
  BY EmptySeq
<1>. QED
  BY <1>1, LinesTraced DEF LinesTrace

\* A line as the history has it, if it is not cut, and such lines.
View(line) == StripCR(Lossy(line))
Views(lines) == [k \in DOMAIN lines |-> View(lines[k])]
Fits(lines) == \A k \in DOMAIN lines : Len(lines[k]) < MaxChunk

Shown == Seq(Runes(Bytes))

LEMMA ViewTyped ==
  ASSUME NEW l \in Seq(Bytes)
  PROVE  View(l) \in Shown
<1>1. Lossy(l) \in Seq(Runes(Bytes))
  BY LossyTyped
<1>. QED
  BY <1>1, StripTyped DEF View, Shown

\* A view is empty only for an empty line, unless it was a carriage return.
LEMMA ViewBlank ==
  ASSUME NEW l \in Seq(NotCR)
  PROVE  View(l) = << >> <=> l = << >>
<1>1. "cr" \notin NotCR
  BY DEF NotCR
<1>. QED
  BY <1>1, NothingStripped, LossyTyped DEF View

LEMMA ViewsAppend ==
  ASSUME NEW lines \in Seq(Seq(Bytes)), NEW l \in Seq(Bytes)
  PROVE  /\ Views(lines) \in Seq(Shown)
         /\ Views(Append(lines, l)) = Append(Views(lines), View(l))
         /\ Fits(Append(lines, l)) <=> Fits(lines) /\ Len(l) < MaxChunk
<1>. DEFINE more == Append(lines, l)
<1>1. /\ Len(lines) \in Nat /\ DOMAIN lines = 1 .. Len(lines)
      /\ \A k \in 1 .. Len(lines) : lines[k] \in Seq(Bytes)
  BY LenProperties, ElementOfSeq
<1>2. /\ more \in Seq(Seq(Bytes)) /\ Len(more) = Len(lines) + 1
      /\ \A k \in 1 .. Len(lines) : more[k] = lines[k]
      /\ more[Len(lines) + 1] = l
  BY AppendProperties
<1>3. DOMAIN more = 1 .. (Len(lines) + 1)
  BY <1>2, LenProperties
<1>. HIDE DEF more
<1>4. \A k \in 1 .. Len(lines) : View(lines[k]) \in Shown
  BY <1>1, ViewTyped
<1>5. Views(lines) \in Seq(Shown) /\ Len(Views(lines)) = Len(lines)
      /\ \A k \in 1 .. Len(lines) : Views(lines)[k] = View(lines[k])
  <2>1. Views(lines) \in [1 .. Len(lines) -> Shown]
    BY <1>1, <1>4 DEF Views
  <2>2. Views(lines) \in Seq(Shown)
    BY <1>1, <2>1, SeqDef
  <2>3. DOMAIN Views(lines) = 1 .. Len(Views(lines)) /\ Len(Views(lines)) \in Nat
    BY <2>2, LenProperties
  <2>4. DOMAIN Views(lines) = 1 .. Len(lines)
    BY <2>1
  <2>5. Len(Views(lines)) = Len(lines)
    <3>1. ASSUME NEW a \in Nat, NEW b \in Nat, 1 .. a = 1 .. b PROVE a <= b
      <4>1. a > 0 => a \in 1 .. a
        OBVIOUS
      <4>2. a > 0 => a \in 1 .. b
        BY <3>1, <4>1
      <4>. QED
        BY <4>2
    <3>2. Len(Views(lines)) <= Len(lines) /\ Len(lines) <= Len(Views(lines))
      BY <1>1, <2>3, <2>4, <3>1
    <3>3. \A a, b \in Nat : a <= b /\ b <= a => a = b
      OBVIOUS
    <3>. QED
      BY <1>1, <2>3, <3>2, <3>3, Zenon
  <2>. QED
    BY <1>1, <2>2, <2>5 DEF Views
<1>6. View(l) \in Shown
  BY ViewTyped
<1>7. /\ Append(Views(lines), View(l)) \in Seq(Shown)
      /\ Len(Append(Views(lines), View(l))) = Len(lines) + 1
      /\ \A k \in 1 .. Len(lines) : Append(Views(lines), View(l))[k] = View(lines[k])
      /\ Append(Views(lines), View(l))[Len(lines) + 1] = View(l)
  BY <1>5, <1>6, AppendProperties
<1>8. Views(more) = Append(Views(lines), View(l))
  <2>. DEFINE u == Append(Views(lines), View(l))
  <2>1. DOMAIN u = 1 .. (Len(lines) + 1) /\ u = [k \in DOMAIN u |-> u[k]]
    BY <1>7, LenProperties
  <2>. HIDE DEF u
  <2>2. \A k \in 1 .. (Len(lines) + 1) : View(more[k]) = u[k]
    <3>. SUFFICES ASSUME NEW k \in 1 .. (Len(lines) + 1) PROVE View(more[k]) = u[k]
      OBVIOUS
    <3>1. k \in 1 .. Len(lines) \/ k = Len(lines) + 1
      BY <1>1
    <3>. QED
      BY <1>2, <1>7, <3>1 DEF u
  <2>3. Views(more) = u
    BY <1>3, <2>1, <2>2 DEF Views
  <2>. QED
    BY <2>3 DEF u
<1>9. Fits(more) <=> Fits(lines) /\ Len(l) < MaxChunk
  <2>1. /\ Len(lines) + 1 \in 1 .. (Len(lines) + 1)
        /\ \A k \in 1 .. (Len(lines) + 1) : k \in 1 .. Len(lines) \/ k = Len(lines) + 1
        /\ \A k \in 1 .. Len(lines) : k \in 1 .. (Len(lines) + 1)
    BY <1>1
  <2>2. Fits(more) => Fits(lines) /\ Len(l) < MaxChunk
    BY <1>1, <1>2, <1>3, <2>1 DEF Fits
  <2>3. Fits(lines) /\ Len(l) < MaxChunk => Fits(more)
    BY <1>1, <1>2, <1>3, <2>1 DEF Fits
  <2>. QED
    BY <2>2, <2>3
<1>. QED
  BY <1>5, <1>8, <1>9 DEF more

LEMMA PrefixAppend ==
  ASSUME NEW S, NEW s \in Seq(S), NEW t \in Seq(S), NEW x \in S
  PROVE  /\ IsPrefix(s, s)
         /\ IsPrefix(s, t) => IsPrefix(s, Append(t, x))
<1>1. /\ Len(s) \in Nat /\ Len(t) \in Nat /\ Len(Append(t, x)) = Len(t) + 1
      /\ Append(t, x) \in Seq(S)
      /\ \A i \in 1 .. Len(t) : Append(t, x)[i] = t[i]
  BY LenProperties, AppendProperties
<1>2. IsPrefix(s, s)
  BY <1>1 DEF IsPrefix
<1>3. ASSUME IsPrefix(s, t) PROVE IsPrefix(s, Append(t, x))
  <2>1. Len(s) <= Len(t) /\ SubSeq(s, 1, Len(s)) = SubSeq(t, 1, Len(s))
    BY <1>3 DEF IsPrefix
  <2>2. /\ Len(s) \in Int /\ 1 \in Int
        /\ \A i \in 1 .. Len(s) : t[i] \in S /\ Append(t, x)[i] = t[i]
    BY <1>1, <2>1, ElementOfSeq
  <2>3. \A i \in 1 .. Len(s) : Append(t, x)[i] \in S
    BY <2>2
  <2>4. /\ SubSeq(t, 1, Len(s)) \in Seq(S)
        /\ Len(SubSeq(t, 1, Len(s))) = IF 1 <= Len(s) THEN Len(s) - 1 + 1 ELSE 0
        /\ \A i \in 1 .. Len(s) - 1 + 1 : SubSeq(t, 1, Len(s))[i] = t[1 + i - 1]
    BY <2>2, SubSeqProperties
  <2>5. /\ SubSeq(Append(t, x), 1, Len(s)) \in Seq(S)
        /\ Len(SubSeq(Append(t, x), 1, Len(s))) = IF 1 <= Len(s) THEN Len(s) - 1 + 1 ELSE 0
        /\ \A i \in 1 .. Len(s) - 1 + 1 :
             SubSeq(Append(t, x), 1, Len(s))[i] = Append(t, x)[1 + i - 1]
    <3>. DEFINE A == Append(t, x)
    <3>1. \A i \in 1 .. Len(s) : A[i] \in S
      BY <2>3
    <3>. HIDE DEF A
    <3>2. /\ SubSeq(A, 1, Len(s)) \in Seq(S)
          /\ Len(SubSeq(A, 1, Len(s))) = IF 1 <= Len(s) THEN Len(s) - 1 + 1 ELSE 0
          /\ \A i \in 1 .. Len(s) - 1 + 1 : SubSeq(A, 1, Len(s))[i] = A[1 + i - 1]
      BY <2>2, <3>1, SubSeqProperties
    <3>. QED
      BY <3>2 DEF A
  <2>. DEFINE a == SubSeq(t, 1, Len(s))
              b == SubSeq(Append(t, x), 1, Len(s))
  <2>6. /\ a \in Seq(S) /\ b \in Seq(S) /\ Len(a) = Len(s) /\ Len(b) = Len(s)
        /\ \A i \in 1 .. Len(s) : a[i] = t[i] /\ b[i] = t[i]
    <3>1. Len(s) - 1 + 1 = Len(s) /\ (IF 1 <= Len(s) THEN Len(s) - 1 + 1 ELSE 0) = Len(s)
      BY <1>1
    <3>2. \A i \in 1 .. Len(s) : 1 + i - 1 = i
      BY <1>1
    <3>. QED
      BY <2>2, <2>4, <2>5, <3>1, <3>2
  <2>. HIDE DEF a, b
  <2>7. a = b
    BY <2>6, SeqEqual
  <2>8. Len(s) <= Len(Append(t, x))
    BY <1>1, <2>1
  <2>. QED
    BY <2>1, <2>7, <2>8 DEF IsPrefix, a, b
<1>. QED
  BY <1>2, <1>3

LEMMA BlanksAppend ==
  ASSUME NEW S, NEW s \in Seq(S), NEW x \in S
  PROVE  /\ Blanks(s) \in Nat
         /\ Blanks(Append(s, x)) = IF x = << >> THEN Blanks(s) + 1 ELSE Blanks(s)
<1>. DEFINE E == {k \in DOMAIN s : s[k] = << >>}
            n == Len(s) + 1
            A == Append(s, x)
<1>1. /\ Len(s) \in Nat /\ DOMAIN s = 1 .. Len(s)
      /\ A \in Seq(S) /\ Len(A) = n
      /\ \A i \in 1 .. Len(s) : A[i] = s[i]
      /\ A[n] = x
  BY LenProperties, AppendProperties
<1>2. DOMAIN A = 1 .. n
  BY <1>1, LenProperties
<1>. HIDE DEF A
<1>3. IsFiniteSet(E)
  <2>1. IsFiniteSet(1 .. Len(s))
    BY <1>1, FS_Interval
  <2>. QED
    BY <1>1, <2>1, FS_Subset
<1>4. n \notin E /\ n \in 1 .. n
  BY <1>1
<1>5. \A k \in 1 .. n : k \in 1 .. Len(s) \/ k = n
  BY <1>1
<1>6. x = << >> => {k \in DOMAIN A : A[k] = << >>} = E \cup {n}
  BY <1>1, <1>2, <1>4, <1>5
<1>7. x # << >> => {k \in DOMAIN A : A[k] = << >>} = E
  BY <1>1, <1>2, <1>4, <1>5
<1>8. Cardinality(E) \in Nat /\ Cardinality(E \cup {n}) = Cardinality(E) + 1
  BY <1>3, <1>4, FS_CardinalityType, FS_AddElement
<1>. QED
  BY <1>6, <1>7, <1>8 DEF Blanks, A

LEMMA BlanksNone == Blanks(<< >>) = 0
<1>1. {k \in DOMAIN << >> : << >>[k] = << >>} = {}
  OBVIOUS
<1>. QED
  BY <1>1, FS_EmptySet DEF Blanks

\* The history so far.  Up to the first line that reaches the cap what is kept
\* back is the line that is open; an open line is empty only where nothing of it
\* was kept back nor cut.
Historied ==
  LET lines == Lines(fed)
  IN /\ history \in Seq(Shown)
     /\ ~closed => (lines.open = << >> <=> pending = << >> /\ ~cut)
     /\ Fits(lines.ended) => IsPrefix(Views(lines.ended), history)
     /\ Fits(lines.ended) /\ ~closed /\ Len(lines.open) < MaxChunk =>
          pending = lines.open /\ ~cut /\ history = Views(lines.ended)
     /\ "cr" \notin Range(fed) => Blanks(history) = Blanks(lines.ended)

LEMMA FeedHistory == ASSUME TerminalInv, Historied, NEW b \in Bytes, Feed(b) PROVE Historied'
<1>. DEFINE past == Lines(fed).ended
            open == Lines(fed).open
            line == Append(pending, b)
<1>1. /\ ~closed /\ ~closed' /\ fed' = Append(fed, b) /\ cut \in BOOLEAN
      /\ fed \in Seq(Bytes) /\ raw \in Seq(Bytes) /\ fed = raw \o pending /\ pending \in Seq(Bytes)
      /\ cut => pending = << >>
  BY PendingBytes DEF Feed, TerminalInv, NothingLost
<1>2. Lines(fed) \in Parted /\ Lines(fed') = LineByte(Lines(fed), b)
  BY <1>1, LinesAppend
<1>3. past \in Seq(Seq(Bytes)) /\ open \in Seq(Bytes)
  BY <1>2 DEF Parted
<1>4. /\ history \in Seq(Shown)
      /\ open = << >> <=> pending = << >> /\ ~cut
      /\ Fits(past) => IsPrefix(Views(past), history)
      /\ Fits(past) /\ Len(open) < MaxChunk => pending = open /\ ~cut /\ history = Views(past)
      /\ "cr" \notin Range(fed) => Blanks(history) = Blanks(past)
  BY <1>1 DEF Historied
<1>5. "cr" \notin Range(fed') => "cr" \notin Range(fed) /\ pending \in Seq(NotCR) /\ line \in Seq(NotCR)
  <2>. SUFFICES ASSUME "cr" \notin Range(fed')
                PROVE  "cr" \notin Range(fed) /\ pending \in Seq(NotCR) /\ line \in Seq(NotCR)
    OBVIOUS
  <2>1. fed' = raw \o line /\ fed' \in Seq(Bytes) /\ line \in Seq(Bytes)
    BY <1>1, FedBehind, AppendProperties
  <2>2. "cr" \notin Range(fed) /\ fed' \in Seq(NotCR)
    BY <1>1, <2>1, NoneOf, NoneOfPrefix
  <2>3. line \in Seq(NotCR)
    BY <1>1, <2>1, <2>2, PartsOf
  <2>4. fed \in Seq(NotCR)
    BY <1>1, <2>2, NoneOf
  <2>5. pending \in Seq(NotCR)
    BY <1>1, <2>4, PartsOf
  <2>. QED
    BY <2>2, <2>3, <2>5
<1>6. /\ line \in Seq(Bytes) /\ line # << >> /\ Append(open, b) # << >> /\ Len(line) \in Nat
      /\ Len(open) \in Nat /\ Len(Append(open, b)) = Len(open) + 1
  <2>1. line \in Seq(Bytes) /\ line # << >>
    BY <1>1, AppendProperties
  <2>2. Append(open, b) # << >> /\ Len(Append(open, b)) = Len(open) + 1
    BY <1>3, AppendProperties
  <2>3. Len(line) \in Nat
    BY <2>1, LenProperties
  <2>4. Len(open) \in Nat
    BY <1>3, LenProperties
  <2>. QED
    BY <2>1, <2>2, <2>3, <2>4
<1>7. Views(past) \in Seq(Shown)
  BY <1>3, ViewsAppend
<1>8. CASE b = "nl"
  <2>1. Lines(fed') = [ended |-> Append(past, open), open |-> << >>]
    BY <1>2, <1>8 DEF LineByte
  <2>2. /\ Views(Append(past, open)) = Append(Views(past), View(open))
        /\ Fits(Append(past, open)) <=> Fits(past) /\ Len(open) < MaxChunk
    BY <1>3, ViewsAppend
  <2>3. Blanks(Append(past, open)) = IF open = << >> THEN Blanks(past) + 1 ELSE Blanks(past)
    BY <1>3, BlanksAppend
  <2>4. CASE cut
    <3>1. history' = history /\ pending' = pending /\ cut' = FALSE
      BY <1>8, <2>4 DEF Feed, Newline, PushBreak
    <3>2. open # << >> /\ ~Fits(Append(past, open)) /\ pending = << >>
      BY <1>1, <1>4, <2>2, <2>4
    <3>3. "cr" \notin Range(fed') => Blanks(history') = Blanks(Append(past, open))
      BY <1>4, <1>5, <2>3, <3>1, <3>2
    <3>. HIDE DEF past, open
    <3>. QED
      BY <1>4, <2>1, <3>1, <3>2, <3>3 DEF Historied
  <2>5. CASE ~cut
    <3>1. history' = Append(history, View(pending)) /\ pending' = << >> /\ cut' = cut
      BY <1>8, <2>5 DEF Feed, Newline, PushLine, View
    <3>2. View(pending) \in Shown
      BY <1>1, ViewTyped
    <3>3. history' \in Seq(Shown)
      BY <1>4, <3>1, <3>2, AppendProperties
    <3>4. ASSUME Fits(Append(past, open))
          PROVE  history' = Views(Append(past, open)) /\ IsPrefix(history', history')
      <4>1. pending = open /\ history = Views(past)
        BY <1>4, <2>2, <3>4
      <4>2. IsPrefix(history', history')
        BY <3>2, <3>3, PrefixAppend
      <4>. QED
        BY <2>2, <3>1, <4>1, <4>2
    <3>5. ASSUME "cr" \notin Range(fed') PROVE Blanks(history') = Blanks(Append(past, open))
      <4>1. View(pending) = << >> <=> open = << >>
        BY <1>4, <1>5, <2>5, <3>5, ViewBlank
      <4>2. Blanks(history') = IF View(pending) = << >> THEN Blanks(history) + 1 ELSE Blanks(history)
        BY <1>4, <3>1, <3>2, BlanksAppend
      <4>3. Blanks(history) = Blanks(past)
        BY <1>4, <1>5, <3>5
      <4>. QED
        BY <2>3, <4>1, <4>2, <4>3, Zenon
    <3>. HIDE DEF past, open
    <3>6. /\ Lines(fed').ended = Append(past, open) /\ Lines(fed').open = << >>
      BY <2>1
    <3>7. Fits(Lines(fed').ended) =>
            IsPrefix(Views(Lines(fed').ended), history') /\ history' = Views(Lines(fed').ended)
      BY <3>4, <3>6
    <3>. QED
      BY <2>5, <3>1, <3>3, <3>5, <3>6, <3>7 DEF Historied
  <2>. QED
    BY <1>1, <2>4, <2>5
<1>9. CASE b # "nl" /\ Len(line) >= MaxChunk
  <2>. DEFINE piece == SubSeq(line, 1, FloorBoundary(line))
  <2>1. Lines(fed') = [ended |-> past, open |-> Append(open, b)]
    BY <1>2, <1>9 DEF LineByte
  <2>2. history' = Append(history, View(piece)) /\ cut' = (pending' = << >>)
    BY <1>9 DEF Feed, Keep, ForceLine, PushLine, View
  <2>3. Len(line) >= 2
    BY <1>6, <1>9, ChunkAssumption
  <2>4. ~ (Fits(past) /\ Len(Append(open, b)) < MaxChunk)
    <3>. SUFFICES ASSUME Fits(past), Len(Append(open, b)) < MaxChunk PROVE FALSE
      OBVIOUS
    <3>1. Len(open) < MaxChunk
      BY <1>6, ChunkAssumption
    <3>2. pending = open
      BY <1>4, <3>1
    <3>. QED
      BY <1>6, <1>9, <3>2, ChunkAssumption
  <2>. HIDE DEF line, past, open
  <2>5. piece \in Seq(Bytes) /\ piece # << >>
    BY <1>6, <2>3, BoundaryIs
  <2>6. "cr" \notin Range(fed') => piece \in Seq(NotCR)
    BY <1>5, <2>3, BoundaryIs
  <2>. HIDE DEF piece
  <2>7. View(piece) \in Shown
    BY <2>5, ViewTyped
  <2>8. history' \in Seq(Shown)
    BY <1>4, <2>2, <2>7, AppendProperties
  <2>9. Fits(past) => IsPrefix(Views(past), history')
    BY <1>4, <1>7, <2>2, <2>7, PrefixAppend
  <2>10. ASSUME "cr" \notin Range(fed') PROVE Blanks(history') = Blanks(past)
    <3>1. View(piece) # << >>
      BY <2>5, <2>6, <2>10, ViewBlank
    <3>2. Blanks(history') = IF View(piece) = << >> THEN Blanks(history) + 1 ELSE Blanks(history)
      BY <1>4, <2>2, <2>7, BlanksAppend
    <3>. QED
      BY <1>4, <1>5, <2>10, <3>1, <3>2
  <2>11. Lines(fed').ended = past /\ Lines(fed').open = Append(open, b)
    BY <2>1
  <2>12. ~ (pending' = << >> /\ ~cut')
    BY <2>2
  <2>. QED
    BY <1>6, <2>4, <2>8, <2>9, <2>10, <2>11, <2>12 DEF Historied
<1>10. CASE b # "nl" /\ ~ (Len(line) >= MaxChunk)
  <2>1. Lines(fed') = [ended |-> past, open |-> Append(open, b)]
    BY <1>2, <1>10 DEF LineByte
  <2>2. history' = history /\ pending' = line /\ cut' = FALSE
    BY <1>10 DEF Feed, Keep
  <2>3. ASSUME Fits(past), Len(Append(open, b)) < MaxChunk
        PROVE  pending' = Append(open, b) /\ history = Views(past)
    <3>1. Len(open) < MaxChunk
      BY <1>6, <2>3, ChunkAssumption
    <3>2. pending = open /\ history = Views(past)
      BY <1>4, <2>3, <3>1
    <3>. QED
      BY <2>2, <3>2
  <2>. HIDE DEF line, past, open
  <2>4. Lines(fed').ended = past /\ Lines(fed').open = Append(open, b)
    BY <2>1
  <2>. QED
    BY <1>4, <1>5, <1>6, <2>2, <2>3, <2>4 DEF Historied
<1>. QED
  BY <1>8, <1>9, <1>10

LEMMA FinishHistory == ASSUME TerminalInv, Historied, FinishLines PROVE Historied'
<1>. DEFINE past == Lines(fed).ended
<1>1. /\ fed' = fed /\ ~closed /\ closed'
      /\ fed \in Seq(Bytes) /\ raw \in Seq(Bytes) /\ fed = raw \o pending /\ pending \in Seq(Bytes)
  BY PendingBytes DEF FinishLines, TerminalInv, NothingLost
<1>2. "nl" \in Bytes
  BY DEF Bytes
<1>3. Lines(fed) \in Parted
  BY <1>1, <1>2, LinesAppend
<1>4. past \in Seq(Seq(Bytes))
  BY <1>3 DEF Parted
<1>5. Views(past) \in Seq(Shown)
  BY <1>1, <1>4, ViewsAppend
<1>6. /\ history \in Seq(Shown)
      /\ Fits(past) => IsPrefix(Views(past), history)
      /\ "cr" \notin Range(fed) => Blanks(history) = Blanks(past)
  BY DEF Historied
<1>. HIDE DEF past
<1>7. CASE pending = << >>
  <2>1. history' = history
    BY <1>7 DEF FinishLines
  <2>. QED
    BY <1>1, <1>6, <2>1 DEF Historied, past
<1>8. CASE pending # << >>
  <2>1. history' = Append(history, View(pending))
    BY <1>8 DEF FinishLines, PushLine, View
  <2>2. View(pending) \in Shown
    BY <1>1, ViewTyped
  <2>3. history' \in Seq(Shown)
    BY <1>6, <2>1, <2>2, AppendProperties
  <2>4. Fits(past) => IsPrefix(Views(past), history')
    BY <1>5, <1>6, <2>1, <2>2, PrefixAppend
  <2>5. ASSUME "cr" \notin Range(fed) PROVE Blanks(history') = Blanks(past)
    <3>1. fed \in Seq(NotCR)
      BY <1>1, <2>5, NoneOf
    <3>2. pending \in Seq(NotCR)
      BY <1>1, <3>1, PartsOf
    <3>3. View(pending) # << >>
      BY <1>8, <3>2, ViewBlank
    <3>4. Blanks(history') = IF View(pending) = << >> THEN Blanks(history) + 1 ELSE Blanks(history)
      BY <1>6, <2>1, <2>2, BlanksAppend
    <3>. QED
      BY <1>6, <2>5, <3>3, <3>4
  <2>. QED
    BY <1>1, <2>3, <2>4, <2>5 DEF Historied, past
<1>. QED
  BY <1>7, <1>8

LEMMA LinesBegin == TerminalInit => Copied /\ Historied
<1>. SUFFICES ASSUME TerminalInit PROVE Copied /\ Historied
  OBVIOUS
<1>1. fed = << >> /\ raw = << >> /\ pending = << >> /\ cut = FALSE /\ history = << >> /\ copy = << >>
  BY DEF TerminalInit
<1>2. << >> \in Seq(Bytes) /\ Len(<< >>) = 0 /\ << >> \in Seq(Shown) /\ << >> \in Seq(Seq(Bytes))
  BY EmptySeq
<1>3. Lossy(<< >>) = << >>
  BY <1>2, LossyTyped
<1>4. Copied
  BY <1>1, <1>2, <1>3 DEF Copied, EndsOpen
<1>5. Lines(fed).ended = << >> /\ Lines(fed).open = << >>
  BY <1>1, LinesNone DEF Unparted
<1>6. Views(<< >>) = << >>
  BY DEF Views
<1>7. IsPrefix(<< >>, << >>)
  <2>1. Runes(Bytes) # {}
    BY DEF Runes
  <2>2. << >> \in Shown
    BY EmptySeq DEF Shown
  <2>. QED
    BY <1>2, <2>2, PrefixAppend
<1>. QED
  BY <1>1, <1>2, <1>4, <1>5, <1>6, <1>7 DEF Historied

\* The farm's copy and the history are what the run wrote, wherever its lines
\* were cut.
THEOREM ViewsAreAsWritten == TerminalSpec => []ViewsAsWritten
<1>1. TerminalInit => TerminalInv /\ Copied /\ Historied
  BY LinesInit, LinesBegin
<1>2. TerminalInv /\ Copied /\ Historied /\ [TerminalNext]_terminalVars
        => TerminalInv' /\ Copied' /\ Historied'
  <2>. SUFFICES ASSUME TerminalInv, Copied, Historied, [TerminalNext]_terminalVars
                PROVE  TerminalInv' /\ Copied' /\ Historied'
    OBVIOUS
  <2>1. ASSUME NEW b \in Bytes, Feed(b) PROVE TerminalInv' /\ Copied' /\ Historied'
    BY <2>1, FeedKeeps, FeedCopies, FeedHistory
  <2>2. CASE FinishLines
    BY <2>2, FinishKeeps, FinishCopies, FinishHistory
  <2>3. CASE TerminalClosed \/ UNCHANGED terminalVars
    <3>1. UNCHANGED <<fed, pending, cut, raw, history, copy, closed>>
      BY <2>3 DEF TerminalClosed, terminalVars
    <3>2. TerminalInv'
      BY <3>1 DEF TerminalInv, NothingLost
    <3>3. Copied'
      BY <3>1 DEF Copied
    <3>4. Historied'
      BY <3>1 DEF Historied
    <3>. QED
      BY <3>2, <3>3, <3>4
  <2>. QED
    BY <2>1, <2>2, <2>3 DEF TerminalNext
<1>3. TerminalInv /\ Copied /\ Historied => ViewsAsWritten
  <2>. SUFFICES ASSUME TerminalInv, Copied, Historied PROVE ViewsAsWritten
    OBVIOUS
  <2>1. fed \in Seq(Bytes)
    BY DEF TerminalInv
  <2>2. CharactersWhole
    BY <2>1, ReadableIs DEF Copied, CharactersWhole
  <2>3. HistoryAsWritten
    BY DEF Historied, HistoryAsWritten, LinesEnded, Fits, Views, View
  <2>. QED
    BY <2>2, <2>3 DEF ViewsAsWritten
<1>. QED
  BY <1>1, <1>2, <1>3, PTL DEF TerminalSpec

-----------------------------------------------------------------------------
(* Plan files: the places of a set in order.                               *)

LEMMA InOrderIs ==
  ASSUME NEW n \in Nat, NEW T \in SUBSET (1 .. n)
  PROVE  /\ IsFiniteSet(T) /\ Cardinality(T) \in Nat
         /\ DOMAIN InOrder(T) = 1 .. Cardinality(T) /\ Len(InOrder(T)) = Cardinality(T)
         /\ \E X : InOrder(T) \in Seq(X)
<1>1. IsFiniteSet(T) /\ Cardinality(T) \in Nat
  <2>1. IsFiniteSet(1 .. n)
    BY FS_Interval
  <2>2. IsFiniteSet(T)
    BY <2>1, FS_Subset
  <2>. QED
    BY <2>2, FS_CardinalityType
<1>. DEFINE c == Cardinality(T)
            place(k) == CHOOSE j \in T : Cardinality({i \in T : i <= j}) = k
            X == {place(k) : k \in 1 .. c}
<1>2. InOrder(T) = [k \in 1 .. c |-> place(k)]
  BY DEF InOrder
<1>3. c \in Nat
  BY <1>1
<1>. HIDE DEF c
<1>4. InOrder(T) \in [1 .. c -> X]
  BY <1>2
<1>. HIDE DEF X
<1>5. InOrder(T) \in Seq(X)
  BY <1>3, <1>4, IsASeq
<1>6. Len(InOrder(T)) = c /\ DOMAIN InOrder(T) = 1 .. c
  <2>1. DOMAIN InOrder(T) = 1 .. c
    BY <1>4
  <2>. QED
    BY <1>3, <1>5, <2>1, LenProperties
<1>. QED
  BY <1>1, <1>5, <1>6 DEF c

LEMMA InOrderNone == InOrder({}) = << >>
<1>1. Cardinality({}) = 0
  BY FS_EmptySet
<1>2. {} \in SUBSET (1 .. 0)
  OBVIOUS
<1>3. Len(InOrder({})) = 0 /\ \E X : InOrder({}) \in Seq(X)
  BY <1>1, <1>2, InOrderIs
<1>. QED
  BY <1>3, EmptySeq

\* A place behind all others comes last.
LEMMA InOrderMore ==
  ASSUME NEW n \in Nat, NEW T \in SUBSET (1 .. n), NEW m \in Nat, n < m
  PROVE  InOrder(T \cup {m}) = Append(InOrder(T), m)
<1>. DEFINE U == T \cup {m}
            c == Cardinality(T)
            At(S, k) == {j \in S : Cardinality({i \in S : i <= j}) = k}
<1>1. /\ IsFiniteSet(T) /\ c \in Nat
      /\ DOMAIN InOrder(T) = 1 .. c /\ Len(InOrder(T)) = c /\ \E X : InOrder(T) \in Seq(X)
  BY InOrderIs
<1>2. m \notin T
  OBVIOUS
<1>3. Cardinality(U) = c + 1
  BY <1>1, <1>2, FS_AddElement
<1>4. ASSUME NEW j \in T
      PROVE  /\ {i \in U : i <= j} = {i \in T : i <= j}
             /\ Cardinality({i \in T : i <= j}) \in 0 .. c
  <2>1. j < m
    BY <1>4
  <2>2. {i \in U : i <= j} = {i \in T : i <= j}
    BY <2>1
  <2>3. {i \in T : i <= j} \in SUBSET T
    OBVIOUS
  <2>. DEFINE D == {i \in T : i <= j}
  <2>. HIDE DEF D
  <2>4. D \in SUBSET T
    BY <2>3 DEF D
  <2>5. Cardinality(D) <= c /\ IsFiniteSet(D)
    BY <1>1, <2>4, FS_Subset
  <2>6. Cardinality(D) \in Nat
    BY <2>5, FS_CardinalityType
  <2>. QED
    BY <1>1, <2>2, <2>5, <2>6 DEF D
<1>5. {i \in U : i <= m} = U
  <2>1. \A i \in U : i <= m
    <3>1. \A i \in T : i <= m
      OBVIOUS
    <3>2. m <= m
      OBVIOUS
    <3>. QED
      BY <3>1, <3>2
  <2>. HIDE DEF U
  <2>. QED
    BY <2>1
<1>6. ASSUME NEW k \in 1 .. c PROVE At(U, k) = At(T, k)
  <2>1. Cardinality({i \in U : i <= m}) # k
    <3>1. Cardinality({i \in U : i <= m}) = c + 1
      BY <1>3, <1>5
    <3>. HIDE DEF U, c
    <3>. QED
      BY <1>1, <1>6, <3>1
  <2>. QED
    BY <1>4, <2>1
<1>7. At(U, c + 1) = {m}
  <2>1. \A j \in T : Cardinality({i \in U : i <= j}) # c + 1
    <3>. SUFFICES ASSUME NEW j \in T PROVE Cardinality({i \in U : i <= j}) # c + 1
      OBVIOUS
    <3>1. {i \in U : i <= j} = {i \in T : i <= j} /\ Cardinality({i \in T : i <= j}) \in 0 .. c
      BY <1>4
    <3>2. Cardinality({i \in U : i <= j}) = Cardinality({i \in T : i <= j})
      BY <3>1
    <3>. HIDE DEF U
    <3>. QED
      BY <1>1, <3>1, <3>2
  <2>2. Cardinality({i \in U : i <= m}) = c + 1
    BY <1>3, <1>5
  <2>. QED
    BY <2>1, <2>2
<1>8. \A S, k : (CHOOSE j \in S : Cardinality({i \in S : i <= j}) = k) = (CHOOSE j : j \in At(S, k))
  OBVIOUS
<1>9. InOrder(T) = [k \in 1 .. c |-> CHOOSE j : j \in At(T, k)]
  BY <1>8 DEF InOrder
<1>10. InOrder(U) = [k \in 1 .. (c + 1) |-> CHOOSE j : j \in At(U, k)]
  BY <1>3, <1>8 DEF InOrder
<1>. HIDE DEF At, c, U
<1>11. \A k \in 1 .. c : InOrder(U)[k] = InOrder(T)[k]
  <2>. SUFFICES ASSUME NEW k \in 1 .. c PROVE InOrder(U)[k] = InOrder(T)[k]
    OBVIOUS
  <2>1. k \in 1 .. (c + 1)
    BY <1>1
  <2>2. InOrder(U)[k] = (CHOOSE j : j \in At(U, k)) /\ InOrder(T)[k] = (CHOOSE j : j \in At(T, k))
    BY <1>9, <1>10, <2>1
  <2>3. At(U, k) = At(T, k)
    BY <1>6
  <2>. QED
    BY <2>2, <2>3, Zenon
<1>12. InOrder(U)[c + 1] = m
  <2>1. c + 1 \in 1 .. (c + 1)
    BY <1>1
  <2>2. InOrder(U)[c + 1] = CHOOSE j : j \in {m}
    BY <1>7, <1>10, <2>1
  <2>3. (CHOOSE j : j \in {m}) \in {m}
    OBVIOUS
  <2>. QED
    BY <2>2, <2>3
<1>13. PICK X : InOrder(T) \in Seq(X)
  BY <1>1
<1>. DEFINE Y == X \cup {m}
            A == Append(InOrder(T), m)
<1>14. InOrder(T) \in Seq(Y) /\ m \in Y
  BY <1>13, SeqMonotonic
<1>. HIDE DEF Y
<1>15. /\ A \in Seq(Y) /\ Len(A) = c + 1 /\ A[c + 1] = m
       /\ \A k \in 1 .. c : A[k] = InOrder(T)[k]
  BY <1>1, <1>14, AppendProperties
<1>16. DOMAIN A = 1 .. (c + 1)
  BY <1>15, LenProperties
<1>. HIDE DEF A
<1>17. A = [k \in 1 .. (c + 1) |-> A[k]]
  BY <1>15, <1>16, LenProperties
<1>18. InOrder(U) = [k \in 1 .. (c + 1) |-> InOrder(U)[k]]
  BY <1>10
<1>19. \A k \in 1 .. (c + 1) : InOrder(U)[k] = A[k]
  BY <1>1, <1>11, <1>12, <1>15
<1>20. InOrder(U) = A
  BY <1>17, <1>18, <1>19
<1>. QED
  BY <1>20 DEF U, A

\* Counting the checked boxes is comparing their places.
LEMMA StatusIs ==
  ASSUME NEW n \in Nat, NEW boxes, DOMAIN boxes = 1 .. n, Len(boxes) = n
  PROVE  Status(boxes) = CASE Checked(boxes) = {} -> "pending"
                           [] Checked(boxes) # {} /\ Checked(boxes) = DOMAIN boxes -> "done"
                           [] OTHER -> "active"
<1>. DEFINE C == Checked(boxes)
<1>1. C \in SUBSET (1 .. n)
  BY DEF Checked
<1>2. Cardinality(1 .. n) = n /\ IsFiniteSet(1 .. n)
  BY FS_Interval
<1>3. IsFiniteSet(C) /\ (Cardinality(C) = Cardinality(1 .. n) => C = 1 .. n)
  <2>. HIDE DEF C
  <2>. QED
    BY <1>1, <1>2, FS_Subset
<1>4. Cardinality(C) = 0 <=> C = {}
  BY <1>3, FS_EmptySet
<1>5. Cardinality(C) = Len(boxes) <=> C = DOMAIN boxes
  BY <1>2, <1>3
<1>. QED
  BY <1>4, <1>5 DEF Status

OwnBoxes(lines, out, header) == {j \in Own(lines, out, header) : lines[j].kind = "box"}

EndsBehind(lines, out, header) ==
  \E c \in out : c > header /\ lines[c].kind \in {"task", "section"}

LEMMA OwnMore ==
  ASSUME NEW lines, NEW n \in Nat, NEW out \in SUBSET (1 .. n), NEW m \in Nat, n < m,
         NEW i \in Nat, i < m
  PROVE  /\ EndsBehind(lines, out, i) => Own(lines, out \cup {m}, i) = Own(lines, out, i)
         /\ ~ EndsBehind(lines, out, i) => Own(lines, out \cup {m}, i) = Own(lines, out, i) \cup {m}
         /\ Own(lines, out \cup {m}, m) = {}
<1>. DEFINE U == out \cup {m}
            Shut(S, j) == \A k \in S : i < k /\ k < j => lines[k].kind \notin {"task", "section"}
<1>1. \A j \in out : j \in Nat /\ j < m
  OBVIOUS
<1>2. \A j \in out : Shut(U, j) <=> Shut(out, j)
  BY <1>1
<1>3. Shut(U, m) <=> ~ EndsBehind(lines, out, i)
  BY <1>1 DEF EndsBehind
<1>4. Own(lines, U, i) = {j \in U : j > i /\ Shut(U, j)}
  BY DEF Own
<1>5. Own(lines, out, i) = {j \in out : j > i /\ Shut(out, j)}
  BY DEF Own
<1>6. m > i
  OBVIOUS
<1>7. Own(lines, U, m) = {}
  <2>1. \A j \in U : ~ (j > m)
    BY <1>1
  <2>. HIDE DEF U
  <2>. QED
    BY <2>1 DEF Own
<1>8. CASE EndsBehind(lines, out, i)
  <2>1. ~ Shut(U, m)
    BY <1>3, <1>8
  <2>. HIDE DEF Shut
  <2>2. Own(lines, U, i) = Own(lines, out, i)
    BY <1>2, <1>4, <1>5, <2>1
  <2>. QED
    BY <1>7, <1>8, <2>2
<1>9. CASE ~ EndsBehind(lines, out, i)
  <2>1. Shut(U, m)
    BY <1>3, <1>9
  <2>. HIDE DEF Shut
  <2>2. Own(lines, U, i) = Own(lines, out, i) \cup {m}
    BY <1>2, <1>4, <1>5, <1>6, <2>1
  <2>. QED
    BY <1>7, <1>9, <2>2
<1>. QED
  BY <1>8, <1>9

LEMMA BoxesIs ==
  ASSUME NEW lines, NEW n \in Nat, NEW out \in SUBSET (1 .. n), NEW i \in Nat
  PROVE  /\ OwnBoxes(lines, out, i) \in SUBSET (1 .. n)
         /\ Len(BoxesOf(lines, out, i)) \in Nat
         /\ DOMAIN BoxesOf(lines, out, i) = 1 .. Len(BoxesOf(lines, out, i))
         /\ \E X : BoxesOf(lines, out, i) \in Seq(X)
<1>. DEFINE O == OwnBoxes(lines, out, i)
            s == InOrder(O)
            b == BoxesOf(lines, out, i)
            X == {lines[s[k]].checked : k \in DOMAIN s}
<1>1. O \in SUBSET (1 .. n)
  BY DEF OwnBoxes, Own
<1>2. b = [k \in DOMAIN s |-> lines[s[k]].checked]
  BY DEF BoxesOf, OwnBoxes
<1>. HIDE DEF O
<1>3. PICK c \in Nat : DOMAIN s = 1 .. c
  BY <1>1, InOrderIs
<1>. HIDE DEF s, b
<1>4. b \in [1 .. c -> X]
  BY <1>2, <1>3
<1>. HIDE DEF X
<1>5. b \in Seq(X) /\ DOMAIN b = 1 .. c
  BY <1>4, IsASeq
<1>6. Len(b) \in Nat /\ DOMAIN b = 1 .. Len(b)
  BY <1>5, LenProperties
<1>. QED
  BY <1>1, <1>2, <1>5, <1>6 DEF b, s, O

\* What a line behind all others does to the boxes of a task in front of it, and
\* the boxes of one that it begins.
BoxesGrow(lines, out, m, i) ==
  /\ EndsBehind(lines, out, i) \/ lines[m].kind # "box" =>
       BoxesOf(lines, out \cup {m}, i) = BoxesOf(lines, out, i)
  /\ ~ EndsBehind(lines, out, i) /\ lines[m].kind = "box" =>
       BoxesOf(lines, out \cup {m}, i) = Append(BoxesOf(lines, out, i), lines[m].checked)
  /\ BoxesOf(lines, out \cup {m}, m) = << >>

LEMMA BoxesMore ==
  ASSUME NEW lines, NEW n \in Nat, NEW out \in SUBSET (1 .. n), NEW m \in Nat, n < m,
         NEW i \in Nat, i < m
  PROVE  BoxesGrow(lines, out, m, i)
<1>. DEFINE U == out \cup {m}
            B(S, h) == BoxesOf(lines, S, h)
            O(S, h) == OwnBoxes(lines, S, h)
<1>1. /\ EndsBehind(lines, out, i) => Own(lines, U, i) = Own(lines, out, i)
      /\ ~ EndsBehind(lines, out, i) => Own(lines, U, i) = Own(lines, out, i) \cup {m}
      /\ Own(lines, U, m) = {}
  BY OwnMore
<1>2. U \in SUBSET (1 .. m) /\ m \in Nat
  OBVIOUS
<1>3. /\ B(U, i) = [k \in DOMAIN InOrder(O(U, i)) |-> lines[InOrder(O(U, i))[k]].checked]
      /\ B(U, m) = [k \in DOMAIN InOrder(O(U, m)) |-> lines[InOrder(O(U, m))[k]].checked]
  <2>. HIDE DEF U
  <2>. SUFFICES ASSUME NEW h \in Nat
                PROVE  BoxesOf(lines, U, h) =
                         [k \in DOMAIN InOrder(OwnBoxes(lines, U, h)) |->
                            lines[InOrder(OwnBoxes(lines, U, h))[k]].checked]
    BY <1>2
  <2>. QED
    BY DEF BoxesOf, OwnBoxes
<1>4. /\ B(out, i) = [k \in DOMAIN InOrder(O(out, i)) |-> lines[InOrder(O(out, i))[k]].checked]
      /\ O(out, i) \in SUBSET (1 .. n) /\ \E X : B(out, i) \in Seq(X)
  <2>1. OwnBoxes(lines, out, i) \in SUBSET (1 .. n)
    BY BoxesIs
  <2>2. BoxesOf(lines, out, i) =
          [k \in DOMAIN InOrder(OwnBoxes(lines, out, i)) |->
             lines[InOrder(OwnBoxes(lines, out, i))[k]].checked]
    BY DEF BoxesOf, OwnBoxes
  <2>3. \E X : BoxesOf(lines, out, i) \in Seq(X)
    BY BoxesIs
  <2>. QED
    BY <2>1, <2>2, <2>3
<1>. HIDE DEF U, B
<1>5. B(U, m) = << >>
  <2>1. O(U, m) = {}
    BY <1>1 DEF OwnBoxes
  <2>2. DOMAIN InOrder(O(U, m)) = {}
    BY <2>1, InOrderNone
  <2>3. Len(B(U, m)) = 0 /\ \E X : B(U, m) \in Seq(X)
    <3>1. DOMAIN B(U, m) = {}
      BY <1>3, <2>2
    <3>2. Len(B(U, m)) \in Nat /\ DOMAIN B(U, m) = 1 .. Len(B(U, m))
      BY <1>2, BoxesIs DEF B
    <3>3. \E X : B(U, m) \in Seq(X)
      BY <1>2, BoxesIs DEF B
    <3>. QED
      BY <3>1, <3>2, <3>3
  <2>. QED
    BY <2>3, EmptySeq
<1>6. CASE EndsBehind(lines, out, i) \/ lines[m].kind # "box"
  <2>1. O(U, i) = O(out, i)
    BY <1>1, <1>6 DEF OwnBoxes
  <2>2. B(U, i) = B(out, i)
    BY <1>3, <1>4, <2>1
  <2>. QED
    BY <1>5, <1>6, <2>2 DEF B, U, BoxesGrow
<1>7. CASE ~ EndsBehind(lines, out, i) /\ lines[m].kind = "box"
  <2>1. O(U, i) = O(out, i) \cup {m}
    BY <1>1, <1>7 DEF OwnBoxes
  <2>. HIDE DEF O
  <2>. DEFINE s == InOrder(O(out, i))
              c == Cardinality(O(out, i))
  <2>2. InOrder(O(U, i)) = Append(s, m)
    BY <1>4, <2>1, InOrderMore
  <2>3. c \in Nat /\ DOMAIN s = 1 .. c /\ Len(s) = c /\ \E X : s \in Seq(X)
    BY <1>4, InOrderIs
  <2>. HIDE DEF s, c
  <2>4. PICK X : s \in Seq(X) /\ m \in X
    <3>1. PICK X : s \in Seq(X)
      BY <2>3
    <3>2. s \in Seq(X \cup {m}) /\ m \in X \cup {m}
      BY <3>1, SeqMonotonic
    <3>. QED
      BY <3>2
  <2>5. /\ DOMAIN Append(s, m) = 1 .. (c + 1) /\ Append(s, m)[c + 1] = m
        /\ \A k \in 1 .. c : Append(s, m)[k] = s[k]
    <3>. DEFINE A == Append(s, m)
    <3>1. /\ A \in Seq(X) /\ Len(A) = c + 1 /\ A[c + 1] = m
          /\ \A k \in 1 .. c : A[k] = s[k]
      BY <2>3, <2>4, AppendProperties
    <3>. HIDE DEF A
    <3>2. DOMAIN A = 1 .. (c + 1)
      BY <3>1, LenProperties
    <3>. QED
      BY <3>1, <3>2 DEF A
  <2>6. /\ B(U, i) = [k \in 1 .. (c + 1) |-> B(U, i)[k]]
        /\ B(U, i)[c + 1] = lines[m].checked
        /\ \A k \in 1 .. c : B(U, i)[k] = lines[s[k]].checked
    <3>1. B(U, i) = [k \in 1 .. (c + 1) |-> lines[Append(s, m)[k]].checked]
      BY <1>3, <2>2, <2>5
    <3>2. c + 1 \in 1 .. (c + 1) /\ \A k \in 1 .. c : k \in 1 .. (c + 1)
      BY <2>3
    <3>. QED
      BY <2>5, <3>1, <3>2
  <2>7. B(out, i) = [k \in 1 .. c |-> lines[s[k]].checked]
    BY <1>4, <2>3 DEF s
  <2>8. PICK Y : B(out, i) \in Seq(Y) /\ lines[m].checked \in Y
    <3>1. PICK Y : B(out, i) \in Seq(Y)
      BY <1>4
    <3>2. /\ B(out, i) \in Seq(Y \cup {lines[m].checked})
          /\ lines[m].checked \in Y \cup {lines[m].checked}
      BY <3>1, SeqMonotonic
    <3>. QED
      BY <3>2
  <2>9. Len(B(out, i)) = c
    BY <2>3, <2>7, <2>8, LenProperties
  <2>. DEFINE x == lines[m].checked
              A == Append(B(out, i), x)
  <2>. HIDE DEF x
  <2>10. /\ A \in Seq(Y) /\ Len(A) = c + 1 /\ A[c + 1] = x
         /\ \A k \in 1 .. c : A[k] = B(out, i)[k]
    BY <2>8, <2>9, AppendProperties DEF x
  <2>. HIDE DEF A
  <2>11. A = [k \in 1 .. (c + 1) |-> A[k]]
    BY <2>10, LenProperties
  <2>12. \A k \in 1 .. (c + 1) : A[k] = B(U, i)[k]
    <3>1. \A k \in 1 .. c : B(out, i)[k] = lines[s[k]].checked
      BY <2>7
    <3>2. \A k \in 1 .. (c + 1) : k \in 1 .. c \/ k = c + 1
      BY <2>3
    <3>. QED
      BY <2>6, <2>10, <3>1, <3>2 DEF x
  <2>13. B(U, i) = A
    BY <2>6, <2>11, <2>12
  <2>. QED
    BY <1>5, <1>7, <2>13 DEF B, U, A, x, BoxesGrow
<1>. QED
  BY <1>6, <1>7

-----------------------------------------------------------------------------
(* Plan files: the states of the parser over lines of L.                   *)

Numbers(L) == {l.number : l \in L}
Ticks(L) == {l.checked : l \in L}
Headings(L) == {None} \cup {l.text : l \in L}

BeingRead(L) == [number : Numbers(L), ord : Nat, boxes : Seq(Ticks(L))]
Statuses == {"pending", "done", "active"}
Tasks(L) == [number : Numbers(L), ord : Nat, status : Statuses, boxes : Seq(Ticks(L))]

Parsed(L) ==
  [title : Headings(L), tasks : Seq(Tasks(L)), open : Seq(BeingRead(L)), fence : Seq(L)]

Closed(o) == [number |-> o.number, ord |-> o.ord, status |-> Status(o.boxes), boxes |-> o.boxes]

LEMMA CloseTaskTyped ==
  ASSUME NEW L, NEW p \in Parsed(L)
  PROVE  /\ CloseTask(p) \in Parsed(L)
         /\ CloseTask(p).title = p.title /\ CloseTask(p).fence = p.fence
         /\ CloseTask(p).open = << >>
         /\ CloseTask(p).tasks = p.tasks \o [k \in DOMAIN p.open |-> Closed(p.open[k])]
         /\ [k \in DOMAIN p.open |-> Closed(p.open[k])] \in Seq(Tasks(L))
<1>. DEFINE f == [k \in DOMAIN p.open |-> Closed(p.open[k])]
<1>1. /\ p.open \in Seq(BeingRead(L)) /\ p.tasks \in Seq(Tasks(L)) /\ p.title \in Headings(L)
      /\ p.fence \in Seq(L)
      /\ p = [title |-> p.title, tasks |-> p.tasks, open |-> p.open, fence |-> p.fence]
  BY DEF Parsed
<1>2. \A o \in BeingRead(L) : Closed(o) \in Tasks(L)
  <2>1. \A b : Status(b) \in Statuses
    <3>. SUFFICES ASSUME NEW b PROVE Status(b) \in Statuses
      OBVIOUS
    <3>. DEFINE c == Cardinality(Checked(b))
    <3>1. CASE c = 0
      BY <3>1 DEF Status, Statuses
    <3>2. CASE c # 0 /\ c = Len(b)
      BY <3>2 DEF Status, Statuses
    <3>3. CASE c # 0 /\ c # Len(b)
      BY <3>3 DEF Status, Statuses
    <3>. QED
      BY <3>1, <3>2, <3>3
  <2>. QED
    BY <2>1 DEF BeingRead, Closed, Tasks
<1>3. Len(p.open) \in Nat /\ DOMAIN p.open = 1 .. Len(p.open)
      /\ \A k \in 1 .. Len(p.open) : p.open[k] \in BeingRead(L)
  BY <1>1, LenProperties, ElementOfSeq
<1>4. f \in [1 .. Len(p.open) -> Tasks(L)]
  BY <1>2, <1>3
<1>5. f \in Seq(Tasks(L))
  BY <1>3, <1>4, IsASeq
<1>6. CloseTask(p) = [title |-> p.title, tasks |-> p.tasks \o f, open |-> << >>, fence |-> p.fence]
  <2>1. CloseTask(p) = [p EXCEPT !.tasks = @ \o f, !.open = << >>]
    BY DEF CloseTask, Closed
  <2>. HIDE DEF f
  <2>. QED
    BY <1>1, <2>1
<1>. HIDE DEF f
<1>7. p.tasks \o f \in Seq(Tasks(L))
  BY <1>1, <1>5, ConcatProperties
<1>8. << >> \in Seq(BeingRead(L))
  BY EmptySeq
<1>. QED
  BY <1>1, <1>5, <1>6, <1>7, <1>8 DEF Parsed, f

LEMMA ParseTyped ==
  ASSUME NEW L, NEW p \in Parsed(L), NEW l \in L
  PROVE  ParseLine(p, l) \in Parsed(L)
<1>1. /\ p.open \in Seq(BeingRead(L)) /\ p.tasks \in Seq(Tasks(L)) /\ p.title \in Headings(L)
      /\ p.fence \in Seq(L)
      /\ p = [title |-> p.title, tasks |-> p.tasks, open |-> p.open, fence |-> p.fence]
  BY DEF Parsed
<1>2. << >> \in Seq(L) /\ <<l>> \in Seq(L) /\ << >> \in Seq(Ticks(L))
  BY EmptySeq
<1>3. l.number \in Numbers(L) /\ l.checked \in Ticks(L) /\ l.text \in Headings(L)
  BY DEF Numbers, Ticks, Headings
<1>4. CloseTask(p) \in Parsed(L)
  BY CloseTaskTyped
<1>5. OpenTask(p, l) \in Parsed(L)
  <2>. DEFINE q == CloseTask(p)
              o == [number |-> l.number, ord |-> Len(q.tasks), boxes |-> << >>]
  <2>. HIDE DEF q
  <2>1. /\ q.tasks \in Seq(Tasks(L)) /\ q \in Parsed(L)
        /\ q = [title |-> q.title, tasks |-> q.tasks, open |-> q.open, fence |-> q.fence]
    BY <1>4 DEF Parsed, q
  <2>2. o \in BeingRead(L)
    BY <1>2, <1>3, <2>1, LenProperties DEF BeingRead
  <2>. HIDE DEF o
  <2>3. <<o>> \in Seq(BeingRead(L))
    BY <2>2
  <2>4. OpenTask(p, l) = [q EXCEPT !.open = <<o>>]
    BY DEF OpenTask, q, o
  <2>. QED
    BY <2>1, <2>3, <2>4 DEF Parsed
<1>6. ASSUME p.open # << >>
      PROVE  [p EXCEPT !.open[1].boxes = Append(@, l.checked)] \in Parsed(L)
  <2>1. 1 \in 1 .. Len(p.open) /\ DOMAIN p.open = 1 .. Len(p.open) /\ Len(p.open) \in Nat
    BY <1>1, <1>6, EmptySeq, LenProperties
  <2>. DEFINE o == p.open[1]
              b == Append(o.boxes, l.checked)
              r == [o EXCEPT !.boxes = b]
              s == [p.open EXCEPT ![1] = r]
  <2>2. o \in BeingRead(L)
    BY <1>1, <2>1, ElementOfSeq
  <2>. HIDE DEF o
  <2>3. o.boxes \in Seq(Ticks(L))
    BY <2>2 DEF BeingRead
  <2>4. b \in Seq(Ticks(L))
    BY <1>3, <2>3, AppendProperties
  <2>. HIDE DEF b
  <2>5. r \in BeingRead(L)
    BY <2>2, <2>4 DEF BeingRead
  <2>6. [p EXCEPT !.open[1].boxes = Append(@, l.checked)] = [p EXCEPT !.open = s]
    BY DEF s, r, b, o
  <2>. HIDE DEF r
  <2>7. s \in [1 .. Len(p.open) -> BeingRead(L)]
    <3>1. p.open \in [1 .. Len(p.open) -> BeingRead(L)]
      BY <1>1, LenProperties
    <3>. QED
      BY <2>1, <2>5, <3>1
  <2>. HIDE DEF s
  <2>8. s \in Seq(BeingRead(L))
    BY <2>1, <2>7, IsASeq
  <2>. QED
    BY <2>6, <2>8 DEF Parsed
<1>7. [p EXCEPT !.fence = << >>] \in Parsed(L) /\ [p EXCEPT !.fence = <<l>>] \in Parsed(L)
      /\ [p EXCEPT !.title = l.text] \in Parsed(L)
  BY <1>2, <1>3 DEF Parsed
<1>. QED
  BY <1>4, <1>5, <1>6, <1>7 DEF ParseLine

ParseFold(h, t) ==
  h = [T \in SUBSET DOMAIN t |->
         IF T = {} THEN NewParse ELSE ParseLine(h[T \ {Max(T)}], t[Max(T)])]

LEMMA ParseIs ==
  ASSUME NEW t
  PROVE  Parse(t) = [title |-> CloseTask((CHOOSE h : ParseFold(h, t))[DOMAIN t]).title,
                     tasks |-> CloseTask((CHOOSE h : ParseFold(h, t))[DOMAIN t]).tasks]
<1>1. FoldLeft(ParseLine, NewParse, t) = (CHOOSE h : ParseFold(h, t))[DOMAIN t]
  BY DEF FoldLeft, MapThenFoldSet, ParseFold
<1>. QED
  BY <1>1 DEF Parse

ParseTrace(S, t, L) ==
  /\ S \in [0 .. Len(t) -> Parsed(L)]
  /\ S[0] = NewParse
  /\ \A j \in 1 .. Len(t) : S[j] = ParseLine(S[j - 1], t[j])

LEMMA ParseTraced ==
  ASSUME NEW L, NEW t \in Seq(L)
  PROVE  \E S : /\ ParseTrace(S, t, L)
                /\ Parse(t) = [title |-> CloseTask(S[Len(t)]).title,
                               tasks |-> CloseTask(S[Len(t)]).tasks]
<1>. DEFINE n == Len(t)
            step == [p \in Parsed(L) \X L |-> ParseLine(p[1], p[2])]
            h == CHOOSE h : ParseFold(h, t)
            S == [j \in 0 .. n |-> h[1 .. j]]
<1>1. n \in Nat /\ t \in [1 .. n -> L] /\ DOMAIN t = 1 .. n
  BY LenProperties
<1>2. step \in [Parsed(L) \X L -> Parsed(L)]
  BY ParseTyped
<1>3. NewParse \in Parsed(L)
  <2>1. << >> \in Seq(L) /\ << >> \in Seq(Tasks(L)) /\ << >> \in Seq(BeingRead(L)) /\ None \in Headings(L)
    BY EmptySeq DEF Headings
  <2>. QED
    BY <2>1 DEF NewParse, Parsed
<1>. HIDE DEF n
<1>4. PICK g \in [SUBSET (1 .. n) -> Parsed(L)] : Folds(g, n, NewParse, step, t)
  <2>. HIDE DEF step
  <2>. QED
    BY <1>1, <1>2, <1>3, FoldExists
<1>5. ASSUME NEW T \in SUBSET (1 .. n), T # {}
      PROVE  g[T] = ParseLine(g[T \ {Max(T)}], t[Max(T)])
  <2>1. Max(T) \in T /\ Max(T) \in 1 .. n
    BY <1>1, <1>5, MaxOf
  <2>2. T \ {Max(T)} \in SUBSET (1 .. n)
    OBVIOUS
  <2>3. <<g[T \ {Max(T)}], t[Max(T)]>> \in Parsed(L) \X L
    BY <1>1, <2>1, <2>2
  <2>. QED
    BY <1>4, <1>5, <2>3 DEF Folds
<1>6. ParseFold(g, t)
  BY <1>1, <1>4, <1>5 DEF ParseFold, Folds
<1>7. ParseFold(h, t)
  BY <1>6
<1>. HIDE DEF h, step
<1>8. Parse(t) = [title |-> CloseTask(S[n]).title, tasks |-> CloseTask(S[n]).tasks]
  <2>1. S[n] = h[DOMAIN t]
    BY <1>1
  <2>2. Parse(t) = [title |-> CloseTask(h[DOMAIN t]).title, tasks |-> CloseTask(h[DOMAIN t]).tasks]
    BY ParseIs DEF h
  <2>. QED
    BY <2>1, <2>2, Zenon
<1>9. S[0] = NewParse
  <2>1. 1 .. 0 = {} /\ {} \in SUBSET DOMAIN t
    OBVIOUS
  <2>. QED
    BY <1>1, <1>7, <2>1 DEF ParseFold
<1>10. ASSUME NEW j \in 1 .. n PROVE S[j] = ParseLine(S[j - 1], t[j])
  <2>1. PICK k \in Nat : j = k + 1 /\ k = j - 1
    BY <1>10
  <2>2. /\ 1 .. (k + 1) # {} /\ (1 .. (k + 1)) \ {k + 1} = 1 .. k /\ Max(1 .. (k + 1)) = k + 1
        /\ 1 .. (k + 1) \in SUBSET DOMAIN t
    <3>1. 1 .. (k + 1) \in SUBSET DOMAIN t
      BY <1>1, <2>1
    <3>. QED
      BY <2>1, <3>1, WholeInterval
  <2>3. h[1 .. (k + 1)] = ParseLine(h[1 .. k], t[k + 1])
    BY <1>7, <2>2 DEF ParseFold
  <2>. QED
    BY <1>1, <2>1, <2>3
<1>. HIDE DEF S
<1>11. \A j \in Nat : j <= n => S[j] \in Parsed(L)
  <2>. DEFINE X == {j \in Nat : j <= n => S[j] \in Parsed(L)}
  <2>1. 0 \in X
    BY <1>3, <1>9
  <2>2. ASSUME NEW j \in Nat, j \in X PROVE j + 1 \in X
    <3>. SUFFICES ASSUME j + 1 <= n PROVE S[j + 1] \in Parsed(L)
      OBVIOUS
    <3>1. j + 1 \in 1 .. n /\ (j + 1) - 1 = j /\ S[j] \in Parsed(L)
      BY <1>1, <2>2
    <3>. QED
      BY <1>1, <1>10, <3>1, ParseTyped
  <2>. HIDE DEF X
  <2>3. Nat \subseteq X
    BY <2>1, <2>2, NatInduct
  <2>. QED
    BY <2>3 DEF X
<1>12. S \in [0 .. n -> Parsed(L)]
  BY <1>1, <1>11 DEF S
<1>. QED
  BY <1>8, <1>9, <1>10, <1>12 DEF ParseTrace, n

-----------------------------------------------------------------------------
(* Plan files: what lies outside of the fenced blocks.                     *)

LEMMA FirstIs ==
  ASSUME NEW T \in SUBSET Nat, T # {}
  PROVE  FirstOf(T) \in T /\ \A k \in T : FirstOf(T) <= k
BY LeastOf DEF FirstOf

LEMMA ClosersAre ==
  ASSUME NEW t, NEW i \in Nat, Len(t) \in Nat
  PROVE  /\ Closers(t, i) \in SUBSET Nat
         /\ Closers(t, i) # {} =>
              /\ FirstOf(Closers(t, i)) \in Closers(t, i)
              /\ FirstOf(Closers(t, i)) \in (i + 1) .. Len(t)
              /\ \A k \in Closers(t, i) : FirstOf(Closers(t, i)) <= k
<1>. DEFINE C == Closers(t, i)
<1>1. C \in SUBSET Nat /\ \A k \in C : k \in (i + 1) .. Len(t)
  BY DEF Closers
<1>. HIDE DEF C
<1>2. C # {} => FirstOf(C) \in C /\ \A k \in C : FirstOf(C) <= k
  BY <1>1, FirstIs
<1>. QED
  BY <1>1, <1>2 DEF C

\* What is outside from a place on, as Outside has it.
OutsideStep(f, t, i) ==
  CASE i > Len(t) -> {}
    [] i <= Len(t) /\ t[i].kind # "fence" -> {i} \cup f[i + 1]
    [] OTHER -> IF Closers(t, i) = {} THEN {} ELSE f[FirstOf(Closers(t, i)) + 1]

OutsideFrom(f, t) == f = [i \in Nat |-> OutsideStep(f, t, i)]

LEMMA OutsideIs ==
  ASSUME NEW t
  PROVE  Outside(t) = (CHOOSE f : OutsideFrom(f, t))[1]
BY DEF Outside, OutsideFrom, OutsideStep

LEMMA OutsideCases ==
  ASSUME NEW t, Len(t) \in Nat, NEW f, NEW i \in Nat
  PROVE  /\ i > Len(t) => OutsideStep(f, t, i) = {}
         /\ i <= Len(t) /\ t[i].kind # "fence" => OutsideStep(f, t, i) = {i} \cup f[i + 1]
         /\ i <= Len(t) /\ t[i].kind = "fence" /\ Closers(t, i) = {} => OutsideStep(f, t, i) = {}
         /\ i <= Len(t) /\ t[i].kind = "fence" /\ Closers(t, i) # {} =>
              OutsideStep(f, t, i) = f[FirstOf(Closers(t, i)) + 1]
<1>1. i > Len(t) => OutsideStep(f, t, i) = {}
  BY DEF OutsideStep
<1>2. i <= Len(t) /\ t[i].kind # "fence" => OutsideStep(f, t, i) = {i} \cup f[i + 1]
  BY DEF OutsideStep
<1>3. i <= Len(t) /\ t[i].kind = "fence" /\ Closers(t, i) = {} => OutsideStep(f, t, i) = {}
  BY DEF OutsideStep
<1>4. i <= Len(t) /\ t[i].kind = "fence" /\ Closers(t, i) # {} =>
        OutsideStep(f, t, i) = f[FirstOf(Closers(t, i)) + 1]
  BY DEF OutsideStep
<1>. QED
  BY <1>1, <1>2, <1>3, <1>4

LEMMA OutsideLater ==
  ASSUME NEW t, Len(t) \in Nat, NEW i \in Nat, NEW f, NEW g,
         \A j \in Nat : j > i => f[j] = g[j]
  PROVE  OutsideStep(f, t, i) = OutsideStep(g, t, i)
<1>1. f[i + 1] = g[i + 1]
  <2>1. i + 1 \in Nat /\ i + 1 > i
    OBVIOUS
  <2>. QED
    BY <2>1
<1>2. CASE i > Len(t)
  BY <1>2, OutsideCases
<1>3. CASE i <= Len(t) /\ t[i].kind # "fence"
  <2>1. OutsideStep(f, t, i) = {i} \cup f[i + 1] /\ OutsideStep(g, t, i) = {i} \cup g[i + 1]
    BY <1>3, OutsideCases
  <2>. QED
    BY <1>1, <2>1, Zenon
<1>4. CASE i <= Len(t) /\ t[i].kind = "fence" /\ Closers(t, i) = {}
  BY <1>4, OutsideCases
<1>5. CASE i <= Len(t) /\ t[i].kind = "fence" /\ Closers(t, i) # {}
  <2>. DEFINE c == FirstOf(Closers(t, i))
  <2>1. c \in (i + 1) .. Len(t)
    BY <1>5, ClosersAre
  <2>2. OutsideStep(f, t, i) = f[c + 1] /\ OutsideStep(g, t, i) = g[c + 1]
    BY <1>5, OutsideCases
  <2>. HIDE DEF c
  <2>3. c + 1 \in Nat /\ c + 1 > i
    BY <2>1
  <2>. QED
    BY <2>2, <2>3
<1>6. i > Len(t) \/ i <= Len(t)
  OBVIOUS
<1>. QED
  BY <1>2, <1>3, <1>4, <1>5, <1>6

LEMMA OutsideExists ==
  ASSUME NEW t, Len(t) \in Nat
  PROVE  \E f : OutsideFrom(f, t)
<1>. DEFINE n == Len(t)
            Is(f, k) == /\ f = [i \in Nat |-> f[i]]
                        /\ \A i \in Nat : i >= n + 1 - k => f[i] = OutsideStep(f, t, i)
            X == {k \in Nat : k <= n + 1 => \E f : Is(f, k)}
<1>1. n \in Nat
  OBVIOUS
<1>2. 0 \in X
  <2>. DEFINE f == [i \in Nat |-> {}]
  <2>1. Is(f, 0)
    <3>. HIDE DEF f
    <3>1. \A i \in Nat : i >= n + 1 - 0 => OutsideStep(f, t, i) = {}
      BY OutsideCases
    <3>. QED
      BY <3>1 DEF f
  <2>. HIDE DEF Is
  <2>. QED
    BY <2>1
<1>3. ASSUME NEW k \in Nat, k \in X PROVE k + 1 \in X
  <2>. SUFFICES ASSUME k + 1 <= n + 1 PROVE \E f : Is(f, k + 1)
    <3>. HIDE DEF Is
    <3>. QED
      OBVIOUS
  <2>1. PICK f : Is(f, k)
    <3>. HIDE DEF Is
    <3>1. k <= n + 1
      BY <1>1
    <3>. QED
      BY <1>3, <3>1
  <2>. DEFINE m == n - k
              g == [i \in Nat |-> IF i = m THEN OutsideStep(f, t, m) ELSE f[i]]
  <2>2. m \in Nat /\ m = n + 1 - (k + 1)
    BY <1>1
  <2>3. \A i \in Nat : i > m => g[i] = f[i]
    OBVIOUS
  <2>4. ASSUME NEW i \in Nat, i >= m PROVE g[i] = OutsideStep(g, t, i)
    <3>. HIDE DEF g
    <3>1. \A j \in Nat : j > i => g[j] = f[j]
      BY <1>1, <2>2, <2>3, <2>4
    <3>2. OutsideStep(g, t, i) = OutsideStep(f, t, i)
      BY <3>1, OutsideLater
    <3>3. CASE i = m
      BY <2>2, <3>2, <3>3 DEF g
    <3>4. CASE i # m
      <4>1. i >= n + 1 - k /\ i > m
        BY <1>1, <2>2, <2>4, <3>4
      <4>2. f[i] = OutsideStep(f, t, i)
        BY <2>1, <4>1
      <4>. QED
        BY <2>3, <3>2, <4>1, <4>2
    <3>. QED
      BY <3>3, <3>4
  <2>5. Is(g, k + 1)
    <3>1. \A i \in Nat : i >= n + 1 - (k + 1) => g[i] = OutsideStep(g, t, i)
      BY <2>2, <2>4
    <3>2. g = [i \in Nat |-> g[i]]
      OBVIOUS
    <3>. HIDE DEF g, n
    <3>. QED
      BY <3>1, <3>2
  <2>. HIDE DEF Is
  <2>. QED
    BY <2>5
<1>4. \E f : Is(f, n + 1)
  <2>1. n + 1 \in Nat /\ n + 1 <= n + 1
    BY <1>1
  <2>. HIDE DEF X
  <2>2. n + 1 \in X
    BY <1>2, <1>3, <2>1, NatInduct
  <2>. HIDE DEF Is
  <2>. QED
    BY <2>1, <2>2 DEF X
<1>5. PICK f : Is(f, n + 1)
  BY <1>4
<1>6. \A i \in Nat : f[i] = OutsideStep(f, t, i)
  BY <1>1, <1>5
<1>7. f = [i \in Nat |-> f[i]]
  BY <1>5
<1>. HIDE DEF Is
<1>8. f = [i \in Nat |-> OutsideStep(f, t, i)]
  BY <1>6, <1>7
<1>. QED
  BY <1>8 DEF OutsideFrom

\* What a line does to the block that is open.
LEMMA FenceNext ==
  ASSUME NEW L, NEW p \in Parsed(L), NEW l \in L
  PROVE  ParseLine(p, l).fence =
           IF p.fence # << >>
           THEN IF ClosesFence(l, p.fence[1]) THEN << >> ELSE p.fence
           ELSE IF l.kind = "fence" THEN <<l>> ELSE << >>
<1>1. CloseTask(p).fence = p.fence /\ CloseTask(p) \in Parsed(L)
  BY CloseTaskTyped
<1>2. OpenTask(p, l).fence = p.fence
  <2>. DEFINE q == CloseTask(p)
  <2>1. q.fence = p.fence /\ q \in Parsed(L)
    BY <1>1
  <2>. HIDE DEF q
  <2>. QED
    BY <2>1 DEF OpenTask, Parsed, q
<1>3. p = [title |-> p.title, tasks |-> p.tasks, open |-> p.open, fence |-> p.fence]
  BY DEF Parsed
<1>4. CASE p.fence # << >>
  BY <1>3, <1>4 DEF ParseLine
<1>5. CASE p.fence = << >> /\ l.kind = "fence"
  BY <1>3, <1>5 DEF ParseLine
<1>6. CASE p.fence = << >> /\ l.kind = "task"
  BY <1>2, <1>6 DEF ParseLine
<1>7. CASE p.fence = << >> /\ l.kind = "section"
  BY <1>1, <1>7 DEF ParseLine
<1>8. CASE p.fence = << >> /\ l.kind = "title"
  BY <1>3, <1>8 DEF ParseLine
<1>9. CASE p.fence = << >> /\ l.kind = "box"
  BY <1>3, <1>9 DEF ParseLine
<1>10. CASE p.fence = << >> /\ l.kind \notin {"fence", "task", "section", "title", "box"}
  BY <1>3, <1>10 DEF ParseLine
<1>. QED
  BY <1>4, <1>5, <1>6, <1>7, <1>8, <1>9, <1>10

\* A block stays open up to a line that closes it.
LEMMA BlockOpen ==
  ASSUME NEW L, NEW t \in Seq(L), NEW S, ParseTrace(S, t, L), NEW i \in 1 .. Len(t),
         S[i - 1].fence = << >>, t[i].kind = "fence", NEW e \in i .. Len(t),
         \A j \in (i + 1) .. e : j \notin Closers(t, i)
  PROVE  \A j \in i .. e : S[j].fence = <<t[i]>>
<1>. DEFINE n == Len(t)
            X == {j \in i .. e : S[j].fence = <<t[i]>>}
<1>1. n \in Nat /\ \A j \in 1 .. n : t[j] \in L
  BY LenProperties, ElementOfSeq
<1>2. /\ \A j \in 0 .. n : S[j] \in Parsed(L)
      /\ \A j \in 1 .. n : S[j] = ParseLine(S[j - 1], t[j])
  BY DEF ParseTrace
<1>. HIDE DEF n
<1>3. i \in 1 .. n /\ i - 1 \in 0 .. n /\ i \in i .. e /\ i \in Nat /\ e \in Nat /\ e <= n
  BY <1>1 DEF n
<1>4. i \in X
  <2>1. S[i] = ParseLine(S[i - 1], t[i]) /\ S[i - 1] \in Parsed(L) /\ t[i] \in L
    BY <1>1, <1>2, <1>3
  <2>2. S[i].fence = <<t[i]>>
    BY <2>1, FenceNext
  <2>. QED
    BY <1>3, <2>2
<1>5. ASSUME NEW j \in i .. e, j < e, j \in X PROVE j + 1 \in X
  <2>1. j + 1 \in i .. e /\ j + 1 \in (i + 1) .. e /\ j + 1 \in 1 .. n /\ (j + 1) - 1 = j /\ j \in 0 .. n
        /\ j + 1 \in (i + 1) .. n
    <3>1. j \in Nat /\ i <= j /\ j < e /\ 1 <= i /\ i <= n
      BY <1>1, <1>3, <1>5
    <3>. QED
      BY <1>1, <1>3, <3>1
  <2>2. S[j + 1] = ParseLine(S[j], t[j + 1]) /\ S[j] \in Parsed(L) /\ t[j + 1] \in L
    BY <1>1, <1>2, <2>1
  <2>3. S[j].fence = <<t[i]>> /\ S[j].fence # << >> /\ S[j].fence[1] = t[i]
    <3>1. <<t[i]>> # << >> /\ <<t[i]>>[1] = t[i]
      OBVIOUS
    <3>2. S[j].fence = <<t[i]>>
      BY <1>5
    <3>. QED
      BY <3>1, <3>2, Zenon
  <2>4. ~ ClosesFence(t[j + 1], t[i])
    BY <2>1 DEF Closers, ClosesFence, n
  <2>. QED
    BY <2>1, <2>2, <2>3, <2>4, FenceNext
<1>6. i .. e \subseteq X
  <2>. HIDE DEF X
  <2>. QED
    BY <1>3, <1>4, <1>5, IntervalInduct
<1>. QED
  BY <1>6

\* The lines that the parser reads as the plan are those outside of all blocks.
LEMMA OutsideRead ==
  ASSUME NEW L, NEW t \in Seq(L), NEW S, ParseTrace(S, t, L)
  PROVE  Outside(t) = {j \in 1 .. Len(t) : S[j - 1].fence = << >> /\ t[j].kind # "fence"}
<1>. DEFINE n == Len(t)
            f == CHOOSE f : OutsideFrom(f, t)
            Out(i) == {j \in i .. n : S[j - 1].fence = << >> /\ t[j].kind # "fence"}
            Is(i) == S[i - 1].fence = << >> => f[i] = Out(i)
            X == {k \in Nat : \A i \in 1 .. (n + 1) : i > n - k => Is(i)}
<1>1. n \in Nat /\ Len(t) = n /\ \A j \in 1 .. n : t[j] \in L
  BY LenProperties, ElementOfSeq
<1>2. /\ \A j \in 0 .. n : S[j] \in Parsed(L)
      /\ \A j \in 1 .. n : S[j] = ParseLine(S[j - 1], t[j])
  BY DEF ParseTrace
<1>3. \A i \in Nat : f[i] = OutsideStep(f, t, i)
  <2>1. OutsideFrom(f, t)
    BY <1>1, OutsideExists
  <2>. HIDE DEF f
  <2>. QED
    BY <2>1 DEF OutsideFrom
<1>4. Outside(t) = f[1]
  BY OutsideIs
<1>. HIDE DEF f, n
<1>5. 0 \in X
  <2>1. f[n + 1] = {}
    <3>1. n + 1 \in Nat /\ n + 1 > n
      BY <1>1
    <3>. QED
      BY <1>1, <1>3, <3>1, OutsideCases
  <2>2. Out(n + 1) = {}
    BY <1>1
  <2>3. Is(n + 1)
    BY <2>1, <2>2
  <2>. HIDE DEF Is
  <2>4. \A i \in 1 .. (n + 1) : i > n - 0 => i = n + 1
    BY <1>1
  <2>. QED
    BY <2>3, <2>4
<1>6. ASSUME NEW k \in Nat, k \in X PROVE k + 1 \in X
  <2>. DEFINE i == n - k
  <2>. SUFFICES ASSUME i \in 1 .. n PROVE Is(i)
    <3>1. \A j \in 1 .. (n + 1) : j > n - (k + 1) => j > n - k \/ (j = n - k /\ j \in 1 .. n)
      BY <1>1
    <3>. HIDE DEF Is
    <3>. QED
      BY <1>6, <3>1
  <2>0. i \in Nat /\ i \in 1 .. n
    BY <1>1
  <2>1. \A j \in 1 .. (n + 1) : j > i => Is(j)
    <3>. HIDE DEF Is
    <3>. QED
      BY <1>6
  <2>. HIDE DEF i
  <2>. SUFFICES ASSUME S[i - 1].fence = << >> PROVE f[i] = Out(i)
    OBVIOUS
  <2>2. /\ i <= n /\ i - 1 \in 0 .. n /\ S[i - 1] \in Parsed(L) /\ t[i] \in L
        /\ S[i] = ParseLine(S[i - 1], t[i])
        /\ i + 1 \in 1 .. (n + 1) /\ i + 1 > i /\ (i + 1) - 1 = i
    BY <1>1, <1>2, <2>0
  <2>3. CASE t[i].kind # "fence"
    <3>1. S[i].fence = << >>
      BY <2>2, <2>3, FenceNext
    <3>2. f[i] = {i} \cup f[i + 1]
      BY <1>1, <1>3, <2>0, <2>2, <2>3, OutsideCases
    <3>3. f[i + 1] = Out(i + 1)
      BY <2>1, <2>2, <3>1
    <3>4. i \in Out(i)
      BY <1>1, <2>0, <2>3
    <3>5. \A j \in i .. n : j = i \/ j \in (i + 1) .. n
      BY <1>1, <2>0
    <3>6. \A j \in (i + 1) .. n : j \in i .. n
      BY <1>1, <2>0
    <3>7. Out(i) = {i} \cup Out(i + 1)
      BY <3>4, <3>5, <3>6
    <3>. QED
      BY <3>2, <3>3, <3>7
  <2>4. CASE t[i].kind = "fence" /\ Closers(t, i) = {}
    <3>1. f[i] = {}
      BY <1>1, <1>3, <2>0, <2>2, <2>4, OutsideCases
    <3>2. n \in i .. n /\ \A j \in (i + 1) .. n : j \notin Closers(t, i)
      BY <1>1, <2>0, <2>4
    <3>3. \A j \in i .. n : S[j].fence = <<t[i]>>
      BY <1>1, <2>0, <2>4, <3>2, BlockOpen
    <3>4. \A j \in i .. n : j = i \/ j - 1 \in i .. n
      BY <1>1, <2>0
    <3>5. <<t[i]>> # << >>
      OBVIOUS
    <3>6. Out(i) = {}
      BY <2>4, <3>3, <3>4, <3>5
    <3>. QED
      BY <3>1, <3>6
  <2>5. CASE t[i].kind = "fence" /\ Closers(t, i) # {}
    <3>. DEFINE c == FirstOf(Closers(t, i))
    <3>1. f[i] = f[c + 1]
      BY <1>1, <1>3, <2>0, <2>2, <2>5, OutsideCases
    <3>2. /\ c \in Closers(t, i) /\ c \in (i + 1) .. n /\ \A k_ \in Closers(t, i) : c <= k_
      BY <1>1, <2>0, <2>5, ClosersAre
    <3>. HIDE DEF c
    <3>3. /\ c \in Nat /\ c - 1 \in i .. n /\ c \in 1 .. n /\ c + 1 \in 1 .. (n + 1) /\ c + 1 > i
          /\ (c + 1) - 1 = c /\ c - 1 \in 0 .. n /\ c - 1 \in i .. (c - 1)
          /\ \A j \in (i + 1) .. (c - 1) : ~ (c <= j)
      BY <1>1, <2>0, <3>2
    <3>4. \A j \in (i + 1) .. (c - 1) : j \notin Closers(t, i)
      BY <3>2, <3>3
    <3>5. \A j \in i .. (c - 1) : S[j].fence = <<t[i]>>
      BY <1>1, <2>0, <2>5, <3>3, <3>4, BlockOpen
    <3>6. S[c].fence = << >>
      <4>1. S[c] = ParseLine(S[c - 1], t[c]) /\ S[c - 1] \in Parsed(L) /\ t[c] \in L
        BY <1>1, <1>2, <3>3
      <4>2. S[c - 1].fence = <<t[i]>> /\ S[c - 1].fence # << >> /\ S[c - 1].fence[1] = t[i]
        <5>1. <<t[i]>> # << >> /\ <<t[i]>>[1] = t[i]
          OBVIOUS
        <5>2. S[c - 1].fence = <<t[i]>>
          BY <3>3, <3>5
        <5>. QED
          BY <5>1, <5>2, Zenon
      <4>3. ClosesFence(t[c], t[i])
        BY <3>2 DEF Closers, ClosesFence
      <4>. QED
        BY <4>1, <4>2, <4>3, FenceNext
    <3>7. f[c + 1] = Out(c + 1)
      BY <2>1, <3>3, <3>6
    <3>8. \A j \in i .. n : \/ j = i \/ j - 1 \in i .. (c - 1) \/ j \in (c + 1) .. n
      BY <1>1, <2>0, <3>3
    <3>9. \A j \in (c + 1) .. n : j \in i .. n
      BY <1>1, <2>0, <3>3
    <3>10. <<t[i]>> # << >>
      OBVIOUS
    <3>11. Out(i) = Out(c + 1)
      BY <2>5, <3>5, <3>8, <3>9, <3>10
    <3>. QED
      BY <3>1, <3>7, <3>11
  <2>. QED
    BY <2>3, <2>4, <2>5
<1>7. n \in X
  <2>. HIDE DEF X
  <2>. QED
    BY <1>1, <1>5, <1>6, NatInduct
<1>8. Is(1)
  <2>1. 1 \in 1 .. (n + 1) /\ 1 > n - n
    BY <1>1
  <2>. HIDE DEF Is
  <2>. QED
    BY <1>7, <2>1
<1>9. S[1 - 1].fence = << >>
  <2>1. S[0] = NewParse /\ 1 - 1 = 0
    BY DEF ParseTrace
  <2>. QED
    BY <2>1 DEF NewParse
<1>. QED
  BY <1>4, <1>8, <1>9 DEF n

-----------------------------------------------------------------------------
(* Plan files: what one more line says.                                    *)

\* What it does to the headers.
HeadersGrow(t, out, m) ==
  /\ t[m].kind = "task" => Headers(t, out \cup {m}) = Append(Headers(t, out), m)
  /\ t[m].kind # "task" => Headers(t, out \cup {m}) = Headers(t, out)
  /\ Len(Headers(t, out)) \in Nat /\ DOMAIN Headers(t, out) = 1 .. Len(Headers(t, out))
  /\ \E X : Headers(t, out) \in Seq(X)

LEMMA HeadersMore ==
  ASSUME NEW t, NEW n \in Nat, NEW out \in SUBSET (1 .. n), NEW m \in Nat, n < m
  PROVE  HeadersGrow(t, out, m)
<1>. DEFINE H == {i \in out : t[i].kind = "task"}
            K == {i \in out \cup {m} : t[i].kind = "task"}
<1>1. H \in SUBSET (1 .. n) /\ Headers(t, out) = InOrder(H) /\ Headers(t, out \cup {m}) = InOrder(K)
  BY DEF Headers
<1>2. t[m].kind = "task" => K = H \cup {m}
  OBVIOUS
<1>3. t[m].kind # "task" => K = H
  OBVIOUS
<1>. HIDE DEF H, K
<1>4. InOrder(H \cup {m}) = Append(InOrder(H), m)
  BY <1>1, InOrderMore
<1>5. /\ Len(InOrder(H)) \in Nat /\ DOMAIN InOrder(H) = 1 .. Len(InOrder(H))
      /\ \E X : InOrder(H) \in Seq(X)
  BY <1>1, InOrderIs
<1>. QED
  BY <1>1, <1>2, <1>3, <1>4, <1>5 DEF HeadersGrow

LEMMA TitleMore ==
  ASSUME NEW t, NEW n \in Nat, NEW out \in SUBSET (1 .. n), NEW m \in Nat, n < m
  PROVE  TitleOf(t, out \cup {m}) =
           IF t[m].kind = "title" /\ t[m].text # None /\ TitleOf(t, out) = None
           THEN t[m].text ELSE TitleOf(t, out)
<1>. DEFINE T == {i \in out : t[i].kind = "title" /\ t[i].text # None}
            V == {i \in out \cup {m} : t[i].kind = "title" /\ t[i].text # None}
<1>1. /\ T \in SUBSET (1 .. n) /\ T \in SUBSET Nat /\ V \in SUBSET Nat
      /\ \A i \in T : i < m
  <2>1. \A i \in out : i \in Nat /\ i < m
    OBVIOUS
  <2>2. T \in SUBSET out /\ V \in SUBSET (out \cup {m})
    OBVIOUS
  <2>. HIDE DEF T, V
  <2>. QED
    BY <2>1, <2>2
<1>2. TitleOf(t, out) = IF T = {} THEN None ELSE t[FirstOf(T)].text
  BY DEF TitleOf
<1>3. TitleOf(t, out \cup {m}) = IF V = {} THEN None ELSE t[FirstOf(V)].text
  BY DEF TitleOf
<1>4. \A i \in T : t[i].text # None
  OBVIOUS
<1>5. t[m].kind = "title" /\ t[m].text # None => V = T \cup {m}
  OBVIOUS
<1>6. ~ (t[m].kind = "title" /\ t[m].text # None) => V = T
  OBVIOUS
<1>. HIDE DEF T, V
<1>7. T # {} => FirstOf(T) \in T /\ \A k \in T : FirstOf(T) <= k
  BY <1>1, FirstIs
<1>8. V # {} => FirstOf(V) \in V /\ \A k \in V : FirstOf(V) <= k
  BY <1>1, FirstIs
<1>9. TitleOf(t, out) = None <=> T = {}
  BY <1>2, <1>4, <1>7
<1>10. CASE t[m].kind = "title" /\ t[m].text # None /\ T = {}
  <2>1. V = {m}
    BY <1>5, <1>10
  <2>2. FirstOf(V) = m
    BY <1>8, <2>1
  <2>. QED
    BY <1>3, <1>9, <1>10, <2>1, <2>2
<1>11. CASE t[m].kind = "title" /\ t[m].text # None /\ T # {}
  <2>1. V = T \cup {m} /\ V # {}
    BY <1>5, <1>11
  <2>2. FirstOf(T) \in V /\ FirstOf(T) < m /\ FirstOf(T) \in Nat /\ FirstOf(V) \in Nat
    BY <1>1, <1>7, <1>8, <1>11, <2>1
  <2>3. FirstOf(V) <= FirstOf(T)
    BY <1>8, <2>1, <2>2
  <2>4. FirstOf(V) \in T
    BY <1>8, <2>1, <2>2, <2>3
  <2>5. FirstOf(T) <= FirstOf(V)
    BY <1>7, <1>11, <2>4
  <2>6. FirstOf(V) = FirstOf(T)
    BY <2>2, <2>3, <2>5
  <2>. QED
    BY <1>2, <1>3, <1>9, <1>11, <2>1, <2>6
<1>12. CASE ~ (t[m].kind = "title" /\ t[m].text # None)
  BY <1>2, <1>3, <1>6, <1>12
<1>. QED
  BY <1>10, <1>11, <1>12

\* A task whose end was read stays as it is.
Stays(t, out, m, h, k) ==
  /\ TaskOf(t, out \cup {m}, h, k) = TaskOf(t, out, h, k)
  /\ EndsBehind(t, out \cup {m}, h)

LEMMA TaskStays ==
  ASSUME NEW t, NEW n \in Nat, NEW out \in SUBSET (1 .. n), NEW m \in Nat, n < m,
         NEW h \in out, EndsBehind(t, out, h), NEW k
  PROVE  Stays(t, out, m, h, k)
<1>1. h \in Nat /\ h < m
  OBVIOUS
<1>2. BoxesOf(t, out \cup {m}, h) = BoxesOf(t, out, h)
  <2>1. BoxesGrow(t, out, m, h)
    BY <1>1, BoxesMore
  <2>. QED
    BY <2>1 DEF BoxesGrow
<1>3. EndsBehind(t, out \cup {m}, h)
  BY DEF EndsBehind
<1>. QED
  BY <1>2, <1>3 DEF TaskOf, Stays

\* The parser behind the lines at the places of out, none of them in a block: the
\* tasks whose end it has read, and the last one if it has not.
TasksRead(p, t, out) ==
  \A k \in 1 .. Len(p.tasks) :
    /\ p.tasks[k] = TaskOf(t, out, Headers(t, out)[k], k)
    /\ Headers(t, out)[k] \in out /\ EndsBehind(t, out, Headers(t, out)[k])

LastRead(p, t, out) ==
  LET h == Headers(t, out)[Len(p.tasks) + 1]
  IN /\ h \in out /\ ~ EndsBehind(t, out, h)
     /\ p.open = <<[number |-> t[h].number, ord |-> Len(p.tasks), boxes |-> BoxesOf(t, out, h)]>>

Reads(p, t, out) ==
  /\ p.title = TitleOf(t, out)
  /\ TasksRead(p, t, out)
  /\ \/ p.open = << >> /\ Len(Headers(t, out)) = Len(p.tasks)
     \/ LastRead(p, t, out) /\ Len(Headers(t, out)) = Len(p.tasks) + 1

\* A task as it is closed is the task as it is written.
LEMMA ClosedIs ==
  ASSUME NEW t, NEW n \in Nat, NEW out \in SUBSET (1 .. n), NEW h \in Nat, NEW k \in Nat
  PROVE  Closed([number |-> t[h].number, ord |-> k, boxes |-> BoxesOf(t, out, h)]) =
           TaskOf(t, out, h, k + 1)
<1>. DEFINE b == BoxesOf(t, out, h)
<1>1. Len(b) \in Nat /\ DOMAIN b = 1 .. Len(b)
  BY BoxesIs
<1>. HIDE DEF b
<1>2. Status(b) = CASE Checked(b) = {} -> "pending"
                    [] Checked(b) # {} /\ Checked(b) = DOMAIN b -> "done"
                    [] OTHER -> "active"
  BY <1>1, StatusIs
<1>3. (k + 1) - 1 = k
  OBVIOUS
<1>4. TaskOf(t, out, h, k + 1) =
        [number |-> t[h].number, ord |-> k, boxes |-> b, status |-> Status(b)]
  BY <1>2, <1>3 DEF TaskOf, b
<1>5. Closed([number |-> t[h].number, ord |-> k, boxes |-> b]) =
        [number |-> t[h].number, ord |-> k, status |-> Status(b), boxes |-> b]
  BY DEF Closed
<1>6. \A w, x, y, z : [number |-> w, ord |-> x, boxes |-> y, status |-> z] =
                      [number |-> w, ord |-> x, status |-> z, boxes |-> y]
  OBVIOUS
<1>. QED
  BY <1>4, <1>5, <1>6 DEF b

\* Behind the last line there are all tasks.
AllRead(q, t, out) ==
  /\ Len(q) = Len(Headers(t, out))
  /\ \A k \in 1 .. Len(Headers(t, out)) :
       q[k] = TaskOf(t, out, Headers(t, out)[k], k) /\ Headers(t, out)[k] \in out

LEMMA ClosingReads ==
  ASSUME NEW L, NEW t, NEW n \in Nat, NEW out \in SUBSET (1 .. n),
         NEW p \in Parsed(L), Reads(p, t, out)
  PROVE  AllRead(CloseTask(p).tasks, t, out)
<1>. DEFINE f == [k \in DOMAIN p.open |-> Closed(p.open[k])]
            H == Headers(t, out)
            c == Len(p.tasks)
            q == CloseTask(p).tasks
<1>1. q = p.tasks \o f /\ f \in Seq(Tasks(L)) /\ q \in Seq(Tasks(L))
  <2>1. CloseTask(p) \in Parsed(L) /\ CloseTask(p).tasks = p.tasks \o f /\ f \in Seq(Tasks(L))
    BY CloseTaskTyped
  <2>. HIDE DEF f
  <2>. QED
    BY <2>1 DEF Parsed
<1>2. p.tasks \in Seq(Tasks(L)) /\ c \in Nat
  BY LenProperties DEF Parsed
<1>3. \A k \in 1 .. c : p.tasks[k] = TaskOf(t, out, H[k], k) /\ H[k] \in out
  BY DEF Reads, TasksRead
<1>4. CASE p.open = << >> /\ Len(H) = c
  <2>1. f = << >>
    <3>1. DOMAIN f = {}
      BY <1>4
    <3>. HIDE DEF f
    <3>2. Len(f) = 0
      BY <1>1, <3>1, LenProperties
    <3>. QED
      BY <1>1, <3>2, EmptySeq
  <2>. HIDE DEF f
  <2>2. q = p.tasks
    BY <1>1, <1>2, <2>1, ConcatEmptySeq
  <2>. QED
    BY <1>1, <1>3, <1>4, <2>2 DEF AllRead
<1>5. CASE LastRead(p, t, out) /\ Len(H) = c + 1
  <2>. DEFINE h == H[c + 1]
              o == [number |-> t[h].number, ord |-> c, boxes |-> BoxesOf(t, out, h)]
              x == Closed(o)
  <2>1. h \in out /\ p.open = <<o>>
    BY <1>5 DEF LastRead
  <2>. HIDE DEF h
  <2>2. h \in Nat
    <3>. HIDE DEF o, f, q, c
    <3>1. \A i \in out : i \in Nat
      OBVIOUS
    <3>. QED
      BY <2>1, <3>1
  <2>3. x = TaskOf(t, out, h, c + 1)
    <3>. HIDE DEF c
    <3>. QED
      BY <1>2, <2>2, ClosedIs DEF c
  <2>4. f = <<x>>
    <3>. HIDE DEF o
    <3>1. DOMAIN <<o>> = {1} /\ <<o>>[1] = o
      OBVIOUS
    <3>2. f = [k \in {1} |-> Closed(<<o>>[k])]
      BY <2>1, <3>1
    <3>3. f \in Seq(Tasks(L)) /\ DOMAIN f = 1 .. 1 /\ f[1] = x
      BY <1>1, <3>1, <3>2
    <3>. HIDE DEF f, x
    <3>4. Len(f) = 1
      BY <3>3, LenProperties
    <3>. QED
      BY <3>3, <3>4
  <2>. HIDE DEF o, x, f
  <2>5. x \in Tasks(L)
    <3>1. Len(f) = 1 /\ f[1] = x
      BY <2>4
    <3>2. f[1] \in Tasks(L)
      <4>1. 1 \in 1 .. Len(f) /\ f \in Seq(Tasks(L))
        BY <1>1, <3>1
      <4>. QED
        BY <4>1, ElementOfSeq
    <3>. QED
      BY <3>1, <3>2
  <2>6. q = Append(p.tasks, x)
    BY <1>1, <1>2, <2>4, <2>5, AppendIsConcat
  <2>7. Len(q) = c + 1 /\ q[c + 1] = x /\ \A k \in 1 .. c : q[k] = p.tasks[k]
    BY <1>2, <2>5, <2>6, AppendProperties
  <2>. HIDE DEF q
  <2>8. ASSUME NEW k \in 1 .. (c + 1) PROVE q[k] = TaskOf(t, out, H[k], k) /\ H[k] \in out
    <3>1. CASE k = c + 1
      BY <2>1, <2>3, <2>7, <3>1 DEF h
    <3>2. CASE k # c + 1
      <4>1. k \in 1 .. c
        BY <1>2, <2>8, <3>2
      <4>. QED
        BY <1>3, <2>7, <4>1
    <3>. QED
      BY <3>1, <3>2
  <2>. QED
    BY <1>1, <1>5, <2>7, <2>8 DEF q, AllRead
<1>. QED
  BY <1>4, <1>5 DEF Reads

\* A header or a section ends every task in front of it.
AllOver(q, t, out, m) ==
  /\ Len(q) = Len(Headers(t, out))
  /\ \A k \in 1 .. Len(Headers(t, out)) :
       /\ q[k] = TaskOf(t, out \cup {m}, Headers(t, out)[k], k)
       /\ Headers(t, out)[k] \in out \cup {m}
       /\ EndsBehind(t, out \cup {m}, Headers(t, out)[k])

LEMMA AllEnd ==
  ASSUME NEW L, NEW t, NEW n \in Nat, NEW out \in SUBSET (1 .. n), NEW m \in Nat, n < m,
         NEW p \in Parsed(L), Reads(p, t, out), t[m].kind \in {"task", "section"}
  PROVE  AllOver(CloseTask(p).tasks, t, out, m)
<1>. SUFFICES ASSUME NEW k \in 1 .. Len(Headers(t, out))
              PROVE  /\ CloseTask(p).tasks[k] = TaskOf(t, out \cup {m}, Headers(t, out)[k], k)
                     /\ Headers(t, out)[k] \in out \cup {m}
                     /\ EndsBehind(t, out \cup {m}, Headers(t, out)[k])
  <2>1. AllRead(CloseTask(p).tasks, t, out)
    BY ClosingReads
  <2>. QED
    BY <2>1 DEF AllRead, AllOver
<1>. DEFINE h == Headers(t, out)[k]
<1>1. CloseTask(p).tasks[k] = TaskOf(t, out, h, k) /\ h \in out
  <2>1. AllRead(CloseTask(p).tasks, t, out)
    BY ClosingReads
  <2>. QED
    BY <2>1 DEF AllRead
<1>. HIDE DEF h
<1>2. h \in Nat /\ h < m
  BY <1>1
<1>3. EndsBehind(t, out \cup {m}, h)
  BY <1>2 DEF EndsBehind
<1>4. BoxesOf(t, out \cup {m}, h) = BoxesOf(t, out, h)
  <2>1. BoxesGrow(t, out, m, h)
    BY <1>2, BoxesMore
  <2>2. t[m].kind # "box"
    OBVIOUS
  <2>. QED
    BY <2>1, <2>2 DEF BoxesGrow
<1>5. TaskOf(t, out \cup {m}, h, k) = TaskOf(t, out, h, k)
  BY <1>4 DEF TaskOf
<1>. QED
  BY <1>1, <1>3, <1>5 DEF h

LEMMA ReadsTask ==
  ASSUME NEW L, NEW t \in Seq(L), NEW n \in Nat, NEW out \in SUBSET (1 .. n), NEW m \in Nat, n < m,
         NEW p \in Parsed(L), Reads(p, t, out), p.fence = << >>, t[m].kind = "task"
  PROVE  Reads(ParseLine(p, t[m]), t, out \cup {m})
<1>. DEFINE U == out \cup {m}
            H == Headers(t, out)
            q == CloseTask(p)
            r == ParseLine(p, t[m])
            o == [number |-> t[m].number, ord |-> Len(q.tasks), boxes |-> << >>]
<1>1. q \in Parsed(L) /\ q.title = p.title
  BY CloseTaskTyped
<1>2. /\ Len(q.tasks) = Len(H)
      /\ \A k \in 1 .. Len(H) : /\ q.tasks[k] = TaskOf(t, U, H[k], k)
                                /\ H[k] \in U /\ EndsBehind(t, U, H[k])
  <2>1. AllOver(q.tasks, t, out, m)
    BY AllEnd
  <2>. HIDE DEF q
  <2>. QED
    BY <2>1 DEF AllOver
<1>4. r = [q EXCEPT !.open = <<o>>]
  BY DEF ParseLine, OpenTask
<1>5. /\ Headers(t, U) = Append(H, m) /\ Len(H) \in Nat /\ \E X : H \in Seq(X)
  <2>1. HeadersGrow(t, out, m)
    BY HeadersMore
  <2>2. t[m].kind = "task" \/ t[m].kind # "task"
    OBVIOUS
  <2>. QED
    BY <2>1, <2>2 DEF HeadersGrow
<1>6. TitleOf(t, U) = p.title
  BY TitleMore DEF Reads
<1>7. BoxesOf(t, U, m) = << >>
  <2>1. 0 \in Nat /\ 0 < m
    OBVIOUS
  <2>2. BoxesGrow(t, out, m, 0)
    BY <2>1, BoxesMore
  <2>. QED
    BY <2>2 DEF BoxesGrow
<1>8. m \in U /\ ~ EndsBehind(t, U, m)
  <2>1. \A c \in U : ~ (c > m)
    <3>1. \A c \in out : ~ (c > m)
      OBVIOUS
    <3>2. ~ (m > m)
      OBVIOUS
    <3>. QED
      BY <3>1, <3>2
  <2>2. m \in U
    OBVIOUS
  <2>. HIDE DEF U
  <2>. QED
    BY <2>1, <2>2 DEF EndsBehind
<1>. HIDE DEF U, q, H
<1>9. PICK X : H \in Seq(X) /\ m \in X
  <2>1. PICK X : H \in Seq(X)
    BY <1>5
  <2>2. H \in Seq(X \cup {m}) /\ m \in X \cup {m}
    BY <2>1, SeqMonotonic
  <2>. QED
    BY <2>2
<1>10. /\ Len(Append(H, m)) = Len(H) + 1 /\ Append(H, m)[Len(H) + 1] = m
       /\ \A k \in 1 .. Len(H) : Append(H, m)[k] = H[k]
  BY <1>9, AppendProperties
<1>11. r.title = q.title /\ r.tasks = q.tasks /\ r.open = <<o>>
  <2>. HIDE DEF o, r
  <2>. QED
    BY <1>1, <1>4 DEF Parsed
<1>. HIDE DEF r
<1>12. TasksRead(r, t, U)
  BY <1>2, <1>5, <1>10, <1>11 DEF TasksRead
<1>13. LastRead(r, t, U)
  BY <1>2, <1>5, <1>7, <1>8, <1>10, <1>11 DEF LastRead
<1>14. Len(Headers(t, U)) = Len(r.tasks) + 1
  BY <1>2, <1>5, <1>10, <1>11
<1>15. Reads(r, t, U)
  BY <1>1, <1>6, <1>11, <1>12, <1>13, <1>14 DEF Reads
<1>. QED
  BY <1>15 DEF r, U

LEMMA ReadsSection ==
  ASSUME NEW L, NEW t \in Seq(L), NEW n \in Nat, NEW out \in SUBSET (1 .. n), NEW m \in Nat, n < m,
         NEW p \in Parsed(L), Reads(p, t, out), p.fence = << >>, t[m].kind = "section"
  PROVE  Reads(ParseLine(p, t[m]), t, out \cup {m})
<1>. DEFINE U == out \cup {m}
            H == Headers(t, out)
            q == CloseTask(p)
<1>1. q \in Parsed(L) /\ q.title = p.title /\ q.open = << >>
  BY CloseTaskTyped
<1>2. /\ Len(q.tasks) = Len(H)
      /\ \A k \in 1 .. Len(H) : /\ q.tasks[k] = TaskOf(t, U, H[k], k)
                                /\ H[k] \in U /\ EndsBehind(t, U, H[k])
  <2>1. AllOver(q.tasks, t, out, m)
    BY AllEnd
  <2>. HIDE DEF q
  <2>. QED
    BY <2>1 DEF AllOver
<1>4. ParseLine(p, t[m]) = q
  BY DEF ParseLine
<1>5. Headers(t, U) = H
  <2>1. HeadersGrow(t, out, m)
    BY HeadersMore
  <2>2. t[m].kind = "task" \/ t[m].kind # "task"
    OBVIOUS
  <2>. QED
    BY <2>1, <2>2 DEF HeadersGrow
<1>6. TitleOf(t, U) = p.title
  BY TitleMore DEF Reads
<1>. HIDE DEF U, q, H
<1>7. TasksRead(q, t, U)
  BY <1>2, <1>5 DEF TasksRead
<1>8. Reads(q, t, U)
  BY <1>1, <1>2, <1>5, <1>6, <1>7 DEF Reads
<1>. QED
  BY <1>4, <1>8 DEF U

LEMMA ReadsOther ==
  ASSUME NEW L, NEW t \in Seq(L), NEW n \in Nat, NEW out \in SUBSET (1 .. n), NEW m \in Nat, n < m,
         NEW p \in Parsed(L), Reads(p, t, out), p.fence = << >>,
         t[m].kind \notin {"fence", "task", "section"}
  PROVE  Reads(ParseLine(p, t[m]), t, out \cup {m})
<1>. DEFINE U == out \cup {m}
            H == Headers(t, out)
            r == ParseLine(p, t[m])
            c == Len(p.tasks)
            h == H[c + 1]
            b == BoxesOf(t, out, h)
<1>1. p = [title |-> p.title, tasks |-> p.tasks, open |-> p.open, fence |-> p.fence]
      /\ p.tasks \in Seq(Tasks(L))
  BY DEF Parsed
<1>2. /\ r.tasks = p.tasks
      /\ r.title = IF t[m].kind = "title" /\ t[m].text # None /\ p.title = None
                   THEN t[m].text ELSE p.title
      /\ r.open = IF t[m].kind = "box" /\ p.open # << >>
                  THEN [p.open EXCEPT ![1].boxes = Append(@, t[m].checked)] ELSE p.open
  <2>1. CASE t[m].kind = "title"
    BY <1>1, <2>1 DEF ParseLine
  <2>2. CASE t[m].kind = "box"
    BY <1>1, <2>2 DEF ParseLine
  <2>3. CASE t[m].kind \notin {"title", "box"}
    BY <1>1, <2>3 DEF ParseLine
  <2>. QED
    BY <2>1, <2>2, <2>3
<1>3. Headers(t, U) = H
  <2>1. HeadersGrow(t, out, m)
    BY HeadersMore
  <2>. QED
    BY <2>1 DEF HeadersGrow
<1>4. r.title = TitleOf(t, U)
  BY <1>2, TitleMore DEF Reads
<1>5. TasksRead(r, t, U)
  <2>1. \A k \in 1 .. c : /\ p.tasks[k] = TaskOf(t, out, H[k], k)
                          /\ H[k] \in out /\ EndsBehind(t, out, H[k])
    BY DEF Reads, TasksRead
  <2>. HIDE DEF H, U, r, c
  <2>2. ASSUME NEW k \in 1 .. c
        PROVE  p.tasks[k] = TaskOf(t, U, H[k], k) /\ H[k] \in U /\ EndsBehind(t, U, H[k])
    <3>1. Stays(t, out, m, H[k], k)
      BY <2>1, TaskStays
    <3>2. H[k] \in out \cup {m}
      BY <2>1
    <3>. QED
      BY <2>1, <3>1, <3>2 DEF U, Stays
  <2>. QED
    BY <1>2, <1>3, <2>2 DEF TasksRead, c
<1>6. CASE p.open = << >> /\ Len(H) = c
  <2>1. r.open = << >>
    BY <1>2, <1>6
  <2>. HIDE DEF H, U, r
  <2>. QED
    BY <1>2, <1>3, <1>4, <1>5, <1>6, <2>1 DEF Reads, U, r
<1>7. CASE LastRead(p, t, out) /\ Len(H) = c + 1
  <2>. DEFINE o == [number |-> t[h].number, ord |-> c, boxes |-> b]
              d == [number |-> t[h].number, ord |-> c, boxes |-> BoxesOf(t, U, h)]
  <2>1. h \in out /\ ~ EndsBehind(t, out, h) /\ p.open = <<o>>
    BY <1>7 DEF LastRead
  <2>. HIDE DEF h, c
  <2>2. h \in Nat /\ h < m /\ h \in U
    BY <2>1
  <2>3. /\ t[m].kind # "box" => BoxesOf(t, U, h) = b
        /\ t[m].kind = "box" => BoxesOf(t, U, h) = Append(b, t[m].checked)
    <3>1. BoxesGrow(t, out, m, h)
      BY <2>1, <2>2, BoxesMore
    <3>. QED
      BY <2>1, <3>1 DEF BoxesGrow
  <2>4. ~ EndsBehind(t, U, h)
    BY <2>1 DEF EndsBehind
  <2>. HIDE DEF b
  <2>5. r.open = <<d>>
    <3>. HIDE DEF U, r
    <3>1. CASE t[m].kind # "box"
      BY <1>2, <2>1, <2>3, <3>1
    <3>2. CASE t[m].kind = "box"
      <4>1. r.open = [p.open EXCEPT ![1].boxes = Append(@, t[m].checked)]
        BY <1>2, <2>1, <3>2
      <4>. DEFINE y == Append(b, t[m].checked)
      <4>2. <<o>>[1] = o /\ o.boxes = b
        OBVIOUS
      <4>3. r.open = [<<o>> EXCEPT ![1] = [<<o>>[1] EXCEPT !.boxes = y]]
        <5>. HIDE DEF o
        <5>. QED
          BY <2>1, <4>1, <4>2
      <4>4. BoxesOf(t, U, h) = y
        BY <2>3, <3>2
      <4>. HIDE DEF y
      <4>5. [o EXCEPT !.boxes = y] = d
        BY <4>4
      <4>6. r.open = [<<o>> EXCEPT ![1] = d]
        BY <4>2, <4>3, <4>5
      <4>. HIDE DEF d, o
      <4>7. [<<o>> EXCEPT ![1] = d] = <<d>>
        OBVIOUS
      <4>. QED
        BY <4>6, <4>7
    <3>. QED
      BY <3>1, <3>2
  <2>. HIDE DEF H, U, r, d
  <2>6. LastRead(r, t, U)
    BY <1>2, <1>3, <2>2, <2>4, <2>5 DEF LastRead, c, h, d
  <2>. QED
    BY <1>2, <1>3, <1>4, <1>5, <1>7, <2>6 DEF Reads, c, U, r
<1>. QED
  BY <1>6, <1>7 DEF Reads

\* A line of a block, or a fence, says nothing.
LEMMA ReadsNothing ==
  ASSUME NEW L, NEW p \in Parsed(L), NEW l, NEW t, NEW out, Reads(p, t, out),
         p.fence # << >> \/ l.kind = "fence"
  PROVE  Reads(ParseLine(p, l), t, out)
<1>. DEFINE r == ParseLine(p, l)
<1>1. p = [title |-> p.title, tasks |-> p.tasks, open |-> p.open, fence |-> p.fence]
  BY DEF Parsed
<1>2. CASE p.fence # << >>
  <2>1. r.title = p.title /\ r.tasks = p.tasks /\ r.open = p.open
    BY <1>1, <1>2 DEF ParseLine
  <2>. HIDE DEF r
  <2>. QED
    BY <2>1 DEF Reads, TasksRead, LastRead, r
<1>3. CASE p.fence = << >> /\ l.kind = "fence"
  <2>1. r.title = p.title /\ r.tasks = p.tasks /\ r.open = p.open
    BY <1>1, <1>3 DEF ParseLine
  <2>. HIDE DEF r
  <2>. QED
    BY <2>1 DEF Reads, TasksRead, LastRead, r
<1>. QED
  BY <1>2, <1>3

LEMMA ReadsBegin ==
  ASSUME NEW t
  PROVE  Reads(NewParse, t, {})
<1>1. Headers(t, {}) = << >>
  <2>1. {i \in {} : t[i].kind = "task"} = {}
    OBVIOUS
  <2>. QED
    BY <2>1, InOrderNone DEF Headers
<1>2. TitleOf(t, {}) = None
  BY DEF TitleOf
<1>3. /\ NewParse.title = None /\ NewParse.tasks = << >> /\ NewParse.open = << >>
      /\ Len(<< >>) = 0
  BY DEF NewParse
<1>. QED
  BY <1>1, <1>2, <1>3 DEF Reads, TasksRead

\* The parser reads what the plan says, block by block and task by task.
LEMMA ParseIsPlan ==
  ASSUME NEW L, NEW t \in Seq(L)
  PROVE  Parse(t) = PlanOf(t)
<1>. DEFINE n == Len(t)
            Out == Outside(t)
            O(j) == {i \in Out : i <= j}
<1>1. PICK S : /\ ParseTrace(S, t, L)
               /\ Parse(t) = [title |-> CloseTask(S[n]).title, tasks |-> CloseTask(S[n]).tasks]
  BY ParseTraced
<1>2. Out = {j \in 1 .. n : S[j - 1].fence = << >> /\ t[j].kind # "fence"}
  BY <1>1, OutsideRead
<1>3. n \in Nat /\ \A j \in 1 .. n : t[j] \in L
  BY LenProperties, ElementOfSeq
<1>4. /\ S[0] = NewParse /\ \A j \in 0 .. n : S[j] \in Parsed(L)
      /\ \A j \in 1 .. n : S[j] = ParseLine(S[j - 1], t[j])
  BY <1>1 DEF ParseTrace
<1>. HIDE DEF n, Out
<1>. DEFINE X == {j \in Nat : j <= n => Reads(S[j], t, O(j))}
<1>5. 0 \in X
  <2>1. O(0) = {}
    BY <1>2
  <2>. QED
    BY <1>4, <2>1, ReadsBegin
<1>6. ASSUME NEW j \in Nat, j \in X PROVE j + 1 \in X
  <2>. DEFINE m == j + 1
              p == S[j]
  <2>. SUFFICES ASSUME m <= n PROVE Reads(S[m], t, O(m))
    OBVIOUS
  <2>1. /\ m \in 1 .. n /\ m \in Nat /\ j < m /\ j \in 0 .. n /\ m - 1 = j /\ j <= n
        /\ \A i \in Nat : i <= m <=> i <= j \/ i = m
    BY <1>3
  <2>2. Reads(p, t, O(j))
    BY <1>6, <2>1
  <2>3. p \in Parsed(L) /\ t[m] \in L /\ S[m] = ParseLine(p, t[m])
    BY <1>3, <1>4, <2>1
  <2>4. O(j) \in SUBSET (1 .. j)
    BY <1>2
  <2>5. \A i \in Out : i \in Nat
    BY <1>2
  <2>. HIDE DEF m, p
  <2>6. CASE p.fence # << >> \/ t[m].kind = "fence"
    <3>1. m \notin Out
      BY <1>2, <2>1, <2>6 DEF p
    <3>2. O(m) = O(j)
      BY <2>1, <2>5, <3>1
    <3>3. Reads(ParseLine(p, t[m]), t, O(j))
      BY <2>2, <2>3, <2>6, ReadsNothing
    <3>. QED
      BY <2>3, <3>2, <3>3
  <2>7. CASE p.fence = << >> /\ t[m].kind # "fence"
    <3>1. m \in Out
      BY <1>2, <2>1, <2>7 DEF p
    <3>2. O(m) = O(j) \cup {m}
      BY <2>1, <2>5, <3>1
    <3>. DEFINE Q == O(j)
    <3>. HIDE DEF O
    <3>3. Reads(ParseLine(p, t[m]), t, Q \cup {m})
      <4>1. CASE t[m].kind = "task"
        BY <2>1, <2>2, <2>3, <2>4, <2>7, <4>1, ReadsTask
      <4>2. CASE t[m].kind = "section"
        BY <2>1, <2>2, <2>3, <2>4, <2>7, <4>2, ReadsSection
      <4>3. CASE t[m].kind \notin {"fence", "task", "section"}
        BY <2>1, <2>2, <2>3, <2>4, <2>7, <4>3, ReadsOther
      <4>. QED
        BY <2>7, <4>1, <4>2, <4>3
    <3>. QED
      BY <2>3, <3>2, <3>3
  <2>. QED
    BY <2>6, <2>7
<1>7. Reads(S[n], t, O(n))
  <2>1. n <= n
    BY <1>3
  <2>. HIDE DEF X
  <2>2. n \in X
    BY <1>3, <1>5, <1>6, NatInduct
  <2>. QED
    BY <2>1, <2>2 DEF X
<1>8. O(n) = Out /\ Out \in SUBSET (1 .. n)
  BY <1>2, <1>3
<1>. DEFINE q == CloseTask(S[n])
            H == Headers(t, Out)
<1>9. S[n] \in Parsed(L) /\ Reads(S[n], t, Out)
  <2>1. n \in 0 .. n
    BY <1>3
  <2>. HIDE DEF O
  <2>. QED
    BY <1>4, <1>7, <1>8, <2>1
<1>10. q \in Parsed(L) /\ q.title = S[n].title
  BY <1>9, CloseTaskTyped
<1>11. AllRead(q.tasks, t, Out)
  BY <1>3, <1>8, <1>9, ClosingReads
<1>12. DOMAIN H = 1 .. Len(H)
  <2>1. \A m \in Nat : n < m => HeadersGrow(t, Out, m)
    BY <1>3, <1>8, HeadersMore
  <2>2. n + 1 \in Nat /\ n < n + 1
    BY <1>3
  <2>3. HeadersGrow(t, Out, n + 1)
    BY <2>1, <2>2
  <2>. QED
    BY <2>3 DEF HeadersGrow
<1>13. q.title = TitleOf(t, Out)
  BY <1>9, <1>10 DEF Reads
<1>. DEFINE u == q.tasks
            w == [k \in DOMAIN H |-> TaskOf(t, Out, H[k], k)]
<1>14. u \in Seq(Tasks(L))
  <2>. HIDE DEF q
  <2>. QED
    BY <1>10 DEF Parsed
<1>. HIDE DEF q, H, u
<1>15. Len(u) = Len(H) /\ \A k \in 1 .. Len(H) : u[k] = TaskOf(t, Out, H[k], k)
  BY <1>11 DEF AllRead, H, u
<1>16. u = [k \in 1 .. Len(H) |-> u[k]]
  BY <1>14, <1>15, LenProperties
<1>17. u = w
  BY <1>12, <1>15, <1>16
<1>18. PlanOf(t) = [title |-> TitleOf(t, Out), tasks |-> w]
  BY DEF PlanOf, PlanIn, H, Out
<1>19. Parse(t) = [title |-> q.title, tasks |-> u]
  BY <1>1 DEF q, u, n
<1>. QED
  BY <1>13, <1>17, <1>18, <1>19

\* And so does every reader of a file, whatever its limit.
LEMMA ReadersSeePlan ==
  ASSUME NEW L, NEW limit \in Nat, NEW file, file.lines \in Seq(L), file.text \in BOOLEAN,
         file.size \in Nat, file.kind \in {"file", "other", "missing"}
  PROVE  AsWritten(file, limit)
<1>. DEFINE usable == file.kind = "file" /\ file.text /\ file.size <= limit
<1>1. Parse(file.lines) = PlanOf(file.lines)
  BY ParseIsPlan
<1>2. usable <=> ReadPlan(file, limit) = "Read"
  <2>1. CASE file.kind # "file"
    BY <2>1 DEF ReadPlan
  <2>2. CASE file.kind = "file" /\ file.text = FALSE
    BY <2>2 DEF ReadPlan
  <2>3. CASE file.kind = "file" /\ file.text = TRUE /\ file.size <= limit
    BY <2>3 DEF ReadPlan
  <2>4. CASE file.kind = "file" /\ file.text = TRUE /\ file.size > limit
    BY <2>4 DEF ReadPlan
  <2>5. file.text = TRUE \/ file.text = FALSE
    OBVIOUS
  <2>6. file.size <= limit \/ file.size > limit
    OBVIOUS
  <2>. QED
    BY <2>1, <2>2, <2>3, <2>4, <2>5, <2>6
<1>. HIDE DEF usable
<1>3. ReadTasks(file, limit) = IF usable /\ PlanOf(file.lines).tasks # << >>
                               THEN PlanOf(file.lines).tasks ELSE None
  BY <1>1, <1>2 DEF ReadTasks
<1>4. PlanTitle(file, limit) = IF usable THEN PlanOf(file.lines).title ELSE None
  BY <1>1, <1>2 DEF PlanTitle
<1>. QED
  BY <1>3, <1>4 DEF AsWritten, usable

\* Every reader of a plan sees exactly its tasks, its boxes and its title, and
\* nothing at all of a file that it cannot use: whatever the lines are, however
\* blocks open and end in them (parse, read, read_tasks, read_title).
THEOREM PlansAreAsWritten == Spec => []PlanAsWritten
<1>1. ASSUME TextInv, bench = "plan", NEW file \in Files(text)
      PROVE  AsWritten(file, 10)
  <2>1. text \in Seq(PlanLines)
    BY <1>1 DEF TextInv
  <2>2. /\ file.lines = text /\ file.kind \in {"file", "other", "missing"}
        /\ file.text \in BOOLEAN /\ file.size \in {10, 11}
    BY DEF Files
  <2>3. file.lines \in Seq(PlanLines) /\ file.size \in Nat
    BY <2>1, <2>2
  <2>4. 10 \in Nat
    OBVIOUS
  <2>. QED
    BY <2>2, <2>3, <2>4, ReadersSeePlan
<1>2. TextInv => PlanAsWritten
  BY <1>1 DEF PlanAsWritten
<1>. QED
  BY <1>2, TextInvariance, PTL

-----------------------------------------------------------------------------
(* Descriptions: what folds a text, one character at a time.               *)

LEMMA SeqInduct ==
  ASSUME NEW C, NEW X, << >> \in X,
         \A s \in Seq(C) : s \in X => \A c \in C : Append(s, c) \in X
  PROVE  Seq(C) \subseteq X
<1>. DEFINE Y == {n \in Nat : \A s \in Seq(C) : Len(s) = n => s \in X}
<1>1. 0 \in Y
  <2>1. \A s \in Seq(C) : Len(s) = 0 => s = << >>
    BY EmptySeq
  <2>. QED
    BY <2>1
<1>2. ASSUME NEW n \in Nat, n \in Y PROVE n + 1 \in Y
  <2>. SUFFICES ASSUME NEW s \in Seq(C), Len(s) = n + 1 PROVE s \in X
    OBVIOUS
  <2>1. s # << >>
    BY EmptySeq
  <2>2. PICK t \in Seq(C), c \in C : s = Append(t, c)
    BY <2>1, SequenceEmptyOrAppend
  <2>3. Len(t) \in Nat /\ Len(s) = Len(t) + 1
    BY <2>2, LenProperties, AppendProperties
  <2>4. Len(t) = n
    BY <2>3
  <2>5. t \in X
    BY <1>2, <2>4
  <2>. QED
    BY <2>2, <2>5
<1>. HIDE DEF Y
<1>3. Nat \subseteq Y
  BY <1>1, <1>2, NatInduct
<1>4. ASSUME NEW s \in Seq(C) PROVE s \in X
  <2>1. Len(s) \in Nat
    BY LenProperties
  <2>. QED
    BY <1>3, <2>1 DEF Y
<1>. QED
  BY <1>4

\* h folds s step by step, as far as what it has is in S.
Walks(h, s, base, step, S) ==
  /\ h[1 .. 0] = base
  /\ \A k \in Nat : k + 1 <= Len(s) /\ h[1 .. k] \in S =>
       h[1 .. (k + 1)] = step[<<h[1 .. k], s[k + 1]>>]

LEMMA Walked ==
  ASSUME NEW S, NEW A, NEW base \in S, NEW step \in [S \X A -> S], NEW s \in Seq(A), NEW h,
         Walks(h, s, base, step, S)
  PROVE  \A k \in Nat : k <= Len(s) => h[1 .. k] \in S
<1>. DEFINE X == {k \in Nat : k <= Len(s) => h[1 .. k] \in S}
<1>0. Len(s) \in Nat /\ \A i \in 1 .. Len(s) : s[i] \in A
  BY LenProperties, ElementOfSeq
<1>1. 0 \in X
  BY DEF Walks
<1>2. ASSUME NEW k \in Nat, k \in X PROVE k + 1 \in X
  <2>. SUFFICES ASSUME k + 1 <= Len(s) PROVE h[1 .. (k + 1)] \in S
    OBVIOUS
  <2>1. k + 1 \in 1 .. Len(s) /\ k <= Len(s)
    BY <1>0
  <2>2. h[1 .. k] \in S /\ s[k + 1] \in A
    BY <1>0, <1>2, <2>1
  <2>3. h[1 .. (k + 1)] = step[<<h[1 .. k], s[k + 1]>>]
    BY <2>2 DEF Walks
  <2>4. <<h[1 .. k], s[k + 1]>> \in S \X A
    BY <2>2
  <2>. QED
    BY <2>3, <2>4
<1>. HIDE DEF X
<1>3. Nat \subseteq X
  BY <1>1, <1>2, NatInduct
<1>. QED
  BY <1>3 DEF X

\* g folds s and c as h folds s.
Onward(g, h, s, c, step, S) ==
  h[1 .. Len(s)] \in S /\ g[1 .. Len(Append(s, c))] = step[<<h[1 .. Len(s)], c>>]

LEMMA WalksOn ==
  ASSUME NEW S, NEW A, NEW base \in S, NEW step \in [S \X A -> S], NEW s \in Seq(A), NEW c \in A,
         NEW h, Walks(h, s, base, step, S), NEW g, Walks(g, Append(s, c), base, step, S)
  PROVE  Onward(g, h, s, c, step, S)
<1>1. /\ Append(s, c) \in Seq(A) /\ Len(s) \in Nat /\ Len(Append(s, c)) = Len(s) + 1
      /\ \A i \in 1 .. Len(s) : Append(s, c)[i] = s[i]
      /\ Append(s, c)[Len(s) + 1] = c
  BY AppendProperties, LenProperties
<1>2. \A k \in Nat : k <= Len(s) => h[1 .. k] \in S
  BY Walked
<1>. DEFINE X == {k \in Nat : k <= Len(s) => h[1 .. k] = g[1 .. k]}
<1>3. 0 \in X
  BY DEF Walks
<1>4. ASSUME NEW k \in Nat, k \in X PROVE k + 1 \in X
  <2>. SUFFICES ASSUME k + 1 <= Len(s) PROVE h[1 .. (k + 1)] = g[1 .. (k + 1)]
    OBVIOUS
  <2>1. k <= Len(s) /\ k + 1 \in 1 .. Len(s) /\ k + 1 <= Len(Append(s, c))
    BY <1>1
  <2>2. h[1 .. k] = g[1 .. k] /\ h[1 .. k] \in S
    BY <1>2, <1>4, <2>1
  <2>3. h[1 .. (k + 1)] = step[<<h[1 .. k], s[k + 1]>>]
    BY <2>2 DEF Walks
  <2>4. g[1 .. (k + 1)] = step[<<g[1 .. k], Append(s, c)[k + 1]>>]
    BY <2>1, <2>2 DEF Walks
  <2>. QED
    BY <1>1, <2>1, <2>2, <2>3, <2>4
<1>. HIDE DEF X
<1>5. Nat \subseteq X
  BY <1>3, <1>4, NatInduct
<1>6. h[1 .. Len(s)] = g[1 .. Len(s)] /\ h[1 .. Len(s)] \in S
  BY <1>1, <1>2, <1>5 DEF X
<1>7. g[1 .. (Len(s) + 1)] = step[<<g[1 .. Len(s)], c>>]
  BY <1>1, <1>6 DEF Walks
<1>. QED
  BY <1>1, <1>6, <1>7, Zenon DEF Onward

\* A fold that exists walks.
FoldsBy(h, s, base, step, S) ==
  /\ h[{}] = base
  /\ \A T \in SUBSET DOMAIN s : T # {} /\ h[T \ {Max(T)}] \in S =>
       h[T] = step[<<h[T \ {Max(T)}], s[Max(T)]>>]

LEMMA FoldWalks ==
  ASSUME NEW S, NEW A, NEW base \in S, NEW step \in [S \X A -> S], NEW s \in Seq(A), NEW h,
         FoldsBy(h, s, base, step, S)
  PROVE  Walks(h, s, base, step, S)
<1>1. h[1 .. 0] = base
  <2>1. 1 .. 0 = {}
    OBVIOUS
  <2>. QED
    BY <2>1 DEF FoldsBy
<1>2. ASSUME NEW k \in Nat, k + 1 <= Len(s), h[1 .. k] \in S
      PROVE  h[1 .. (k + 1)] = step[<<h[1 .. k], s[k + 1]>>]
  <2>1. 1 .. (k + 1) \in SUBSET DOMAIN s
    BY <1>2, LenProperties
  <2>2. 1 .. (k + 1) # {} /\ (1 .. (k + 1)) \ {k + 1} = 1 .. k /\ Max(1 .. (k + 1)) = k + 1
    BY WholeInterval
  <2>. QED
    BY <1>2, <2>1, <2>2 DEF FoldsBy
<1>. QED
  BY <1>1, <1>2 DEF Walks

LEMMA NoLines ==
  ASSUME NEW C
  PROVE  << << >> >> \in Seq(Seq(C)) \ {<< >>}
<1>1. << >> \in Seq(C)
  BY EmptySeq
<1>2. << << >> >> \in Seq(Seq(C)) /\ Len(<< << >> >>) = 1
  BY <1>1
<1>3. Len(<< >>) = 0
  BY EmptySeq
<1>4. << << >> >> # << >>
  BY <1>2, <1>3
<1>. QED
  BY <1>2, <1>4

UnixStep(C) == [p \in Seq(C) \X C |-> UnixNext(p[1], p[2])]

UnixFold(h, t) ==
  h = [T \in SUBSET DOMAIN t |->
         IF T = {} THEN << >> ELSE UnixNext(h[T \ {Max(T)}], t[Max(T)])]

LEMMA UnixWalks ==
  ASSUME NEW C, UnixStep(C) \in [Seq(C) \X C -> Seq(C)], NEW t \in Seq(C)
  PROVE  \E h : Walks(h, t, << >>, UnixStep(C), Seq(C)) /\ Unix(t) = h[1 .. Len(t)]
<1>. DEFINE n == Len(t)
            S == Seq(C)
            step == UnixStep(C)
            h == CHOOSE h : UnixFold(h, t)
<1>1. n \in Nat /\ t \in [1 .. n -> C] /\ DOMAIN t = 1 .. n
  BY LenProperties
<1>2. << >> \in S
  BY EmptySeq
<1>3. \A x \in S, c \in C : step[<<x, c>>] = UnixNext(x, c)
  BY DEF UnixStep
<1>4. step \in [S \X C -> S]
  OBVIOUS
<1>. HIDE DEF n, S, step
<1>5. PICK g \in [SUBSET (1 .. n) -> S] : Folds(g, n, << >>, step, t)
  BY <1>1, <1>2, <1>4, FoldExists
<1>6. ASSUME NEW T \in SUBSET (1 .. n), T # {}
      PROVE  g[T] = UnixNext(g[T \ {Max(T)}], t[Max(T)])
  <2>1. Max(T) \in T /\ Max(T) \in 1 .. n
    BY <1>1, <1>6, MaxOf
  <2>2. T \ {Max(T)} \in SUBSET (1 .. n)
    OBVIOUS
  <2>3. g[T \ {Max(T)}] \in S /\ t[Max(T)] \in C
    BY <1>1, <2>1, <2>2
  <2>. QED
    BY <1>3, <1>5, <1>6, <2>3 DEF Folds
<1>7. UnixFold(g, t)
  BY <1>1, <1>5, <1>6 DEF UnixFold, Folds
<1>8. UnixFold(h, t)
  BY <1>7
<1>9. Unix(t) = h[DOMAIN t]
  BY DEF Unix, FoldLeft, MapThenFoldSet, UnixFold
<1>. HIDE DEF h
<1>10. h[{}] = << >>
  <2>1. {} \in SUBSET DOMAIN t
    OBVIOUS
  <2>. QED
    BY <1>8, <2>1 DEF UnixFold
<1>11. ASSUME NEW T \in SUBSET DOMAIN t, T # {}, h[T \ {Max(T)}] \in S
       PROVE  h[T] = step[<<h[T \ {Max(T)}], t[Max(T)]>>]
  <2>1. Max(T) \in 1 .. n
    BY <1>1, <1>11, MaxOf
  <2>2. t[Max(T)] \in C
    BY <1>1, <2>1
  <2>3. h[T] = UnixNext(h[T \ {Max(T)}], t[Max(T)])
    BY <1>8, <1>11 DEF UnixFold
  <2>. QED
    BY <1>3, <1>11, <2>2, <2>3
<1>12. FoldsBy(h, t, << >>, step, S)
  BY <1>10, <1>11 DEF FoldsBy
<1>13. Walks(h, t, << >>, step, S)
  BY <1>2, <1>4, <1>12, FoldWalks
<1>. QED
  BY <1>1, <1>9, <1>13 DEF n, S, step

LEMMA UnixGrows ==
  ASSUME NEW C, UnixStep(C) \in [Seq(C) \X C -> Seq(C)]
  PROVE  /\ Unix(<< >>) = << >>
         /\ \A t \in Seq(C) : Unix(t) \in Seq(C)
         /\ \A t \in Seq(C), c \in C : Unix(Append(t, c)) = UnixNext(Unix(t), c)
<1>1. << >> \in Seq(C)
  BY EmptySeq
<1>2. Unix(<< >>) = << >>
  <2>1. << >> \in Seq(C) /\ Len(<< >>) = 0
    BY EmptySeq
  <2>2. PICK h : Walks(h, << >>, << >>, UnixStep(C), Seq(C)) /\ Unix(<< >>) = h[1 .. Len(<< >>)]
    BY <2>1, UnixWalks
  <2>. QED
    BY <2>1, <2>2 DEF Walks
<1>3. ASSUME NEW t \in Seq(C), NEW c \in C
      PROVE  Unix(t) \in Seq(C) /\ Unix(Append(t, c)) = UnixNext(Unix(t), c)
  <2>1. Append(t, c) \in Seq(C)
    BY AppendProperties
  <2>2. PICK h : Walks(h, t, << >>, UnixStep(C), Seq(C)) /\ Unix(t) = h[1 .. Len(t)]
    BY UnixWalks
  <2>3. PICK g : /\ Walks(g, Append(t, c), << >>, UnixStep(C), Seq(C))
                 /\ Unix(Append(t, c)) = g[1 .. Len(Append(t, c))]
    BY <2>1, UnixWalks
  <2>4. /\ h[1 .. Len(t)] \in Seq(C)
        /\ g[1 .. Len(Append(t, c))] = UnixStep(C)[<<h[1 .. Len(t)], c>>]
    <3>. DEFINE S == Seq(C)
                A == C
                step == UnixStep(C)
                base == << >>
    <3>1. /\ base \in S /\ step \in [S \X A -> S] /\ t \in Seq(A) /\ c \in A
          /\ Walks(h, t, base, step, S) /\ Walks(g, Append(t, c), base, step, S)
      BY <1>1, <2>2, <2>3
    <3>. HIDE DEF S, A, step, base
    <3>2. Onward(g, h, t, c, step, S)
      BY <3>1, WalksOn
    <3>. QED
      BY <3>2, Zenon DEF S, step, Onward
  <2>5. UnixStep(C)[<<Unix(t), c>>] = UnixNext(Unix(t), c)
    BY <2>2, <2>4 DEF UnixStep
  <2>. QED
    BY <2>2, <2>3, <2>4, <2>5, Zenon
<1>4. ASSUME NEW t \in Seq(C) PROVE Unix(t) \in Seq(C)
  <2>1. CASE t = << >>
    BY <1>1, <1>2, <2>1
  <2>2. CASE t # << >>
    <3>1. PICK c \in C : TRUE
      BY <2>2, SequenceEmptyOrAppend
    <3>. QED
      BY <1>3
  <2>. QED
    BY <2>1, <2>2
<1>. QED
  BY <1>2, <1>3, <1>4

SplitStep(C) == [p \in (Seq(Seq(C)) \ {<< >>}) \X C |-> SplitNext(p[1], p[2])]

SplitFold(h, t) ==
  h = [T \in SUBSET DOMAIN t |->
         IF T = {} THEN << << >> >> ELSE SplitNext(h[T \ {Max(T)}], t[Max(T)])]

LEMMA SplitWalks ==
  ASSUME NEW C, SplitStep(C) \in [(Seq(Seq(C)) \ {<< >>}) \X C -> (Seq(Seq(C)) \ {<< >>})], NEW t \in Seq(C)
  PROVE  \E h : Walks(h, t, << << >> >>, SplitStep(C), (Seq(Seq(C)) \ {<< >>})) /\ Split(t) = h[1 .. Len(t)]
<1>. DEFINE n == Len(t)
            S == (Seq(Seq(C)) \ {<< >>})
            step == SplitStep(C)
            h == CHOOSE h : SplitFold(h, t)
<1>1. n \in Nat /\ t \in [1 .. n -> C] /\ DOMAIN t = 1 .. n
  BY LenProperties
<1>2. << << >> >> \in S
  BY NoLines
<1>3. \A x \in S, c \in C : step[<<x, c>>] = SplitNext(x, c)
  BY DEF SplitStep
<1>4. step \in [S \X C -> S]
  OBVIOUS
<1>. HIDE DEF n, S, step
<1>5. PICK g \in [SUBSET (1 .. n) -> S] : Folds(g, n, << << >> >>, step, t)
  BY <1>1, <1>2, <1>4, FoldExists
<1>6. ASSUME NEW T \in SUBSET (1 .. n), T # {}
      PROVE  g[T] = SplitNext(g[T \ {Max(T)}], t[Max(T)])
  <2>1. Max(T) \in T /\ Max(T) \in 1 .. n
    BY <1>1, <1>6, MaxOf
  <2>2. T \ {Max(T)} \in SUBSET (1 .. n)
    OBVIOUS
  <2>3. g[T \ {Max(T)}] \in S /\ t[Max(T)] \in C
    BY <1>1, <2>1, <2>2
  <2>. QED
    BY <1>3, <1>5, <1>6, <2>3 DEF Folds
<1>7. SplitFold(g, t)
  BY <1>1, <1>5, <1>6 DEF SplitFold, Folds
<1>8. SplitFold(h, t)
  BY <1>7
<1>9. Split(t) = h[DOMAIN t]
  BY DEF Split, FoldLeft, MapThenFoldSet, SplitFold
<1>. HIDE DEF h
<1>10. h[{}] = << << >> >>
  <2>1. {} \in SUBSET DOMAIN t
    OBVIOUS
  <2>. QED
    BY <1>8, <2>1 DEF SplitFold
<1>11. ASSUME NEW T \in SUBSET DOMAIN t, T # {}, h[T \ {Max(T)}] \in S
       PROVE  h[T] = step[<<h[T \ {Max(T)}], t[Max(T)]>>]
  <2>1. Max(T) \in 1 .. n
    BY <1>1, <1>11, MaxOf
  <2>2. t[Max(T)] \in C
    BY <1>1, <2>1
  <2>3. h[T] = SplitNext(h[T \ {Max(T)}], t[Max(T)])
    BY <1>8, <1>11 DEF SplitFold
  <2>. QED
    BY <1>3, <1>11, <2>2, <2>3
<1>12. FoldsBy(h, t, << << >> >>, step, S)
  BY <1>10, <1>11 DEF FoldsBy
<1>13. Walks(h, t, << << >> >>, step, S)
  BY <1>2, <1>4, <1>12, FoldWalks
<1>. QED
  BY <1>1, <1>9, <1>13 DEF n, S, step

LEMMA SplitGrows ==
  ASSUME NEW C, SplitStep(C) \in [(Seq(Seq(C)) \ {<< >>}) \X C -> (Seq(Seq(C)) \ {<< >>})]
  PROVE  /\ Split(<< >>) = << << >> >>
         /\ \A t \in Seq(C) : Split(t) \in (Seq(Seq(C)) \ {<< >>})
         /\ \A t \in Seq(C), c \in C : Split(Append(t, c)) = SplitNext(Split(t), c)
<1>1. << << >> >> \in (Seq(Seq(C)) \ {<< >>})
  BY NoLines
<1>2. Split(<< >>) = << << >> >>
  <2>1. << >> \in Seq(C) /\ Len(<< >>) = 0
    BY EmptySeq
  <2>2. PICK h : Walks(h, << >>, << << >> >>, SplitStep(C), (Seq(Seq(C)) \ {<< >>})) /\ Split(<< >>) = h[1 .. Len(<< >>)]
    BY <2>1, SplitWalks
  <2>. QED
    BY <2>1, <2>2 DEF Walks
<1>3. ASSUME NEW t \in Seq(C), NEW c \in C
      PROVE  Split(t) \in (Seq(Seq(C)) \ {<< >>}) /\ Split(Append(t, c)) = SplitNext(Split(t), c)
  <2>1. Append(t, c) \in Seq(C)
    BY AppendProperties
  <2>2. PICK h : Walks(h, t, << << >> >>, SplitStep(C), (Seq(Seq(C)) \ {<< >>})) /\ Split(t) = h[1 .. Len(t)]
    BY SplitWalks
  <2>3. PICK g : /\ Walks(g, Append(t, c), << << >> >>, SplitStep(C), (Seq(Seq(C)) \ {<< >>}))
                 /\ Split(Append(t, c)) = g[1 .. Len(Append(t, c))]
    BY <2>1, SplitWalks
  <2>4. /\ h[1 .. Len(t)] \in (Seq(Seq(C)) \ {<< >>})
        /\ g[1 .. Len(Append(t, c))] = SplitStep(C)[<<h[1 .. Len(t)], c>>]
    <3>. DEFINE S == (Seq(Seq(C)) \ {<< >>})
                A == C
                step == SplitStep(C)
                base == << << >> >>
    <3>1. /\ base \in S /\ step \in [S \X A -> S] /\ t \in Seq(A) /\ c \in A
          /\ Walks(h, t, base, step, S) /\ Walks(g, Append(t, c), base, step, S)
      BY <1>1, <2>2, <2>3
    <3>. HIDE DEF S, A, step, base
    <3>2. Onward(g, h, t, c, step, S)
      BY <3>1, WalksOn
    <3>. QED
      BY <3>2, Zenon DEF S, step, Onward
  <2>5. SplitStep(C)[<<Split(t), c>>] = SplitNext(Split(t), c)
    BY <2>2, <2>4 DEF SplitStep
  <2>. QED
    BY <2>2, <2>3, <2>4, <2>5, Zenon
<1>4. ASSUME NEW t \in Seq(C) PROVE Split(t) \in (Seq(Seq(C)) \ {<< >>})
  <2>1. CASE t = << >>
    BY <1>1, <1>2, <2>1
  <2>2. CASE t # << >>
    <3>1. PICK c \in C : TRUE
      BY <2>2, SequenceEmptyOrAppend
    <3>. QED
      BY <1>3
  <2>. QED
    BY <2>1, <2>2
<1>. QED
  BY <1>2, <1>3, <1>4

LinedStep(C) == [p \in Seq(C) \X Seq(C) |-> LinedNext(p[1], p[2])]

LinedFold(h, t) ==
  h = [T \in SUBSET DOMAIN t |->
         IF T = {} THEN << >> ELSE LinedNext(h[T \ {Max(T)}], t[Max(T)])]

LEMMA LinedWalks ==
  ASSUME NEW C, LinedStep(C) \in [Seq(C) \X Seq(C) -> Seq(C)], NEW t \in Seq(Seq(C))
  PROVE  \E h : Walks(h, t, << >>, LinedStep(C), Seq(C)) /\ Lined(t) = h[1 .. Len(t)]
<1>. DEFINE n == Len(t)
            S == Seq(C)
            step == LinedStep(C)
            h == CHOOSE h : LinedFold(h, t)
<1>1. n \in Nat /\ t \in [1 .. n -> Seq(C)] /\ DOMAIN t = 1 .. n
  BY LenProperties
<1>2. << >> \in S
  BY EmptySeq
<1>3. \A x \in S, c \in Seq(C) : step[<<x, c>>] = LinedNext(x, c)
  BY DEF LinedStep
<1>4. step \in [S \X Seq(C) -> S]
  OBVIOUS
<1>. HIDE DEF n, S, step
<1>5. PICK g \in [SUBSET (1 .. n) -> S] : Folds(g, n, << >>, step, t)
  BY <1>1, <1>2, <1>4, FoldExists
<1>6. ASSUME NEW T \in SUBSET (1 .. n), T # {}
      PROVE  g[T] = LinedNext(g[T \ {Max(T)}], t[Max(T)])
  <2>1. Max(T) \in T /\ Max(T) \in 1 .. n
    BY <1>1, <1>6, MaxOf
  <2>2. T \ {Max(T)} \in SUBSET (1 .. n)
    OBVIOUS
  <2>3. g[T \ {Max(T)}] \in S /\ t[Max(T)] \in Seq(C)
    BY <1>1, <2>1, <2>2
  <2>. QED
    BY <1>3, <1>5, <1>6, <2>3 DEF Folds
<1>7. LinedFold(g, t)
  BY <1>1, <1>5, <1>6 DEF LinedFold, Folds
<1>8. LinedFold(h, t)
  BY <1>7
<1>9. Lined(t) = h[DOMAIN t]
  BY DEF Lined, FoldLeft, MapThenFoldSet, LinedFold
<1>. HIDE DEF h
<1>10. h[{}] = << >>
  <2>1. {} \in SUBSET DOMAIN t
    OBVIOUS
  <2>. QED
    BY <1>8, <2>1 DEF LinedFold
<1>11. ASSUME NEW T \in SUBSET DOMAIN t, T # {}, h[T \ {Max(T)}] \in S
       PROVE  h[T] = step[<<h[T \ {Max(T)}], t[Max(T)]>>]
  <2>1. Max(T) \in 1 .. n
    BY <1>1, <1>11, MaxOf
  <2>2. t[Max(T)] \in Seq(C)
    BY <1>1, <2>1
  <2>3. h[T] = LinedNext(h[T \ {Max(T)}], t[Max(T)])
    BY <1>8, <1>11 DEF LinedFold
  <2>. QED
    BY <1>3, <1>11, <2>2, <2>3
<1>12. FoldsBy(h, t, << >>, step, S)
  BY <1>10, <1>11 DEF FoldsBy
<1>13. Walks(h, t, << >>, step, S)
  BY <1>2, <1>4, <1>12, FoldWalks
<1>. QED
  BY <1>1, <1>9, <1>13 DEF n, S, step

LEMMA LinedGrows ==
  ASSUME NEW C, LinedStep(C) \in [Seq(C) \X Seq(C) -> Seq(C)]
  PROVE  /\ Lined(<< >>) = << >>
         /\ \A t \in Seq(Seq(C)) : Lined(t) \in Seq(C)
         /\ \A t \in Seq(Seq(C)), c \in Seq(C) : Lined(Append(t, c)) = LinedNext(Lined(t), c)
<1>1. << >> \in Seq(C)
  BY EmptySeq
<1>2. Lined(<< >>) = << >>
  <2>1. << >> \in Seq(Seq(C)) /\ Len(<< >>) = 0
    BY EmptySeq
  <2>2. PICK h : Walks(h, << >>, << >>, LinedStep(C), Seq(C)) /\ Lined(<< >>) = h[1 .. Len(<< >>)]
    BY <2>1, LinedWalks
  <2>. QED
    BY <2>1, <2>2 DEF Walks
<1>3. ASSUME NEW t \in Seq(Seq(C)), NEW c \in Seq(C)
      PROVE  Lined(t) \in Seq(C) /\ Lined(Append(t, c)) = LinedNext(Lined(t), c)
  <2>1. Append(t, c) \in Seq(Seq(C))
    BY AppendProperties
  <2>2. PICK h : Walks(h, t, << >>, LinedStep(C), Seq(C)) /\ Lined(t) = h[1 .. Len(t)]
    BY LinedWalks
  <2>3. PICK g : /\ Walks(g, Append(t, c), << >>, LinedStep(C), Seq(C))
                 /\ Lined(Append(t, c)) = g[1 .. Len(Append(t, c))]
    BY <2>1, LinedWalks
  <2>4. /\ h[1 .. Len(t)] \in Seq(C)
        /\ g[1 .. Len(Append(t, c))] = LinedStep(C)[<<h[1 .. Len(t)], c>>]
    <3>. DEFINE S == Seq(C)
                A == Seq(C)
                step == LinedStep(C)
                base == << >>
    <3>1. /\ base \in S /\ step \in [S \X A -> S] /\ t \in Seq(A) /\ c \in A
          /\ Walks(h, t, base, step, S) /\ Walks(g, Append(t, c), base, step, S)
      BY <1>1, <2>2, <2>3
    <3>. HIDE DEF S, A, step, base
    <3>2. Onward(g, h, t, c, step, S)
      BY <3>1, WalksOn
    <3>. QED
      BY <3>2, Zenon DEF S, step, Onward
  <2>5. LinedStep(C)[<<Lined(t), c>>] = LinedNext(Lined(t), c)
    BY <2>2, <2>4 DEF LinedStep
  <2>. QED
    BY <2>2, <2>3, <2>4, <2>5, Zenon
<1>4. ASSUME NEW t \in Seq(Seq(C)) PROVE Lined(t) \in Seq(C)
  <2>1. CASE t = << >>
    BY <1>1, <1>2, <2>1
  <2>2. CASE t # << >>
    <3>1. PICK c \in Seq(C) : TRUE
      BY <2>2, SequenceEmptyOrAppend
    <3>. QED
      BY <1>3
  <2>. QED
    BY <2>1, <2>2
<1>. QED
  BY <1>2, <1>3, <1>4

LEMMA UnixNextIs ==
  ASSUME NEW C, NEW u \in Seq(C), NEW c \in C
  PROVE  /\ UnixNext(u, c) \in Seq(C) /\ UnixNext(u, c) # << >>
         /\ UnixNext(u, c)[Len(UnixNext(u, c))] = c
         /\ c # "nl" => UnixNext(u, c) = Append(u, c)
<1>0. Len(u) \in Nat
  BY LenProperties
<1>1. CASE c = "nl" /\ u # << >> /\ u[Len(u)] = "cr"
  <2>1. Len(u) \in 1 .. Len(u)
    BY <1>1, EmptySeq
  <2>. DEFINE v == [u EXCEPT ![Len(u)] = c]
  <2>2. v \in Seq(C) /\ Len(v) = Len(u) /\ v[Len(u)] = c
    BY <2>1, ExceptSeq
  <2>3. v # << >>
    <3>1. Len(v) # 0
      BY <2>1, <2>2
    <3>. QED
      BY <3>1, EmptySeq
  <2>4. UnixNext(u, c) = v
    BY <1>1 DEF UnixNext
  <2>. QED
    BY <1>1, <2>2, <2>3, <2>4
<1>2. CASE ~ (c = "nl" /\ u # << >> /\ u[Len(u)] = "cr")
  <2>1. UnixNext(u, c) = Append(u, c)
    BY <1>2 DEF UnixNext
  <2>. QED
    BY <2>1, AppendProperties
<1>. QED
  BY <1>1, <1>2

UnixLaws(C) ==
  /\ Unix(<< >>) = << >>
  /\ \A t \in Seq(C) : Unix(t) \in Seq(C)
  /\ \A t \in Seq(C), c \in C : Unix(Append(t, c)) = UnixNext(Unix(t), c)

LEMMA UnixIs == ASSUME NEW C PROVE UnixLaws(C)
<1>1. UnixStep(C) \in [Seq(C) \X C -> Seq(C)]
  BY UnixNextIs DEF UnixStep
<1>. QED
  BY <1>1, UnixGrows DEF UnixLaws

LEMMA UnixEnd ==
  ASSUME NEW C, NEW t \in Seq(C), t # << >>
  PROVE  Unix(t) # << >> /\ Unix(t)[Len(Unix(t))] = t[Len(t)]
<1>1. PICK s \in Seq(C), c \in C : t = Append(s, c)
  BY SequenceEmptyOrAppend
<1>2. t[Len(t)] = c
  BY <1>1, AppendProperties
<1>. DEFINE u == Unix(s)
            v == UnixNext(u, c)
<1>3. u \in Seq(C) /\ Unix(t) = v
  BY <1>1, UnixIs DEF UnixLaws
<1>. HIDE DEF u
<1>4. v # << >> /\ v[Len(v)] = c
  BY <1>3, UnixNextIs
<1>. HIDE DEF v
<1>. QED
  BY <1>2, <1>3, <1>4, Zenon

Regrouped(a, b, c) == a \o (b \o c) = (a \o b) \o c

LEMMA Regroup ==
  ASSUME NEW C, NEW a \in Seq(C), NEW b \in Seq(C), NEW c \in Seq(C)
  PROVE  Regrouped(a, b, c)
BY ConcatAssociative DEF Regrouped

LEMMA ConcatAppend ==
  ASSUME NEW C, NEW a \in Seq(C), NEW b \in Seq(C), NEW c \in C
  PROVE  a \o Append(b, c) = Append(a \o b, c)
<1>1. a \o b \in Seq(C) /\ <<c>> \in Seq(C)
  BY ConcatProperties
<1>2. Append(b, c) = b \o <<c>> /\ Append(a \o b, c) = (a \o b) \o <<c>>
  BY <1>1, AppendIsConcat
<1>3. (a \o b) \o <<c>> = a \o (b \o <<c>>)
  BY <1>1, ConcatAssociative
<1>. QED
  BY <1>2, <1>3, Zenon

\* No newline of b takes the place of a carriage return that u ends in.
Apart(u, b) == u = << >> \/ u[Len(u)] # "cr" \/ b = << >> \/ b[1] # "nl"

\* The last character of two texts in one, set.
LEMMA LastSet ==
  ASSUME NEW C, NEW a \in Seq(C), NEW b \in Seq(C), b # << >>, NEW c \in C
  PROVE  /\ a \o b # << >> /\ (a \o b)[Len(a \o b)] = b[Len(b)]
         /\ [(a \o b) EXCEPT ![Len(a \o b)] = c] = a \o [b EXCEPT ![Len(b)] = c]
<1>. DEFINE ab == a \o b
            n == Len(ab)
            d == [b EXCEPT ![Len(b)] = c]
            e == [ab EXCEPT ![n] = c]
<1>1. /\ Len(a) \in Nat /\ Len(b) \in Nat /\ Len(b) > 0 /\ ab \in Seq(C) /\ n = Len(a) + Len(b)
  BY EmptySeq, LenProperties, ConcatProperties
<1>2. /\ \A i \in 1 .. Len(a) : ab[i] = a[i]
      /\ \A i \in 1 .. Len(b) : ab[Len(a) + i] = b[i]
  BY ConcatAt
<1>3. ab[n] = b[Len(b)]
  BY <1>1, <1>2
<1>4. ab # << >>
  BY <1>1, EmptySeq
<1>5. d \in Seq(C) /\ Len(d) = Len(b) /\ \A j \in 1 .. Len(b) : d[j] = IF j = Len(b) THEN c ELSE b[j]
  <2>1. Len(b) \in 1 .. Len(b)
    BY <1>1
  <2>. QED
    BY <2>1, ExceptSeq
<1>6. e \in Seq(C) /\ Len(e) = n /\ \A j \in 1 .. n : e[j] = IF j = n THEN c ELSE ab[j]
  <2>1. n \in 1 .. n
    BY <1>1
  <2>. HIDE DEF n, ab
  <2>2. ab \in Seq(C) /\ Len(ab) = n
    BY <1>1 DEF n
  <2>. QED
    BY <2>1, <2>2, ExceptSeq
<1>7. e = a \o d
  <2>1. /\ a \o d \in Seq(C) /\ Len(a \o d) = Len(a) + Len(d)
        /\ \A i \in 1 .. Len(a) + Len(d) : (a \o d)[i] = IF i <= Len(a) THEN a[i] ELSE d[i - Len(a)]
    BY <1>5, ConcatProperties
  <2>2. ASSUME NEW i \in 1 .. n PROVE e[i] = (a \o d)[i]
    <3>1. CASE i <= Len(a)
      <4>1. i \in 1 .. Len(a) /\ i # n
        BY <1>1, <3>1
      <4>. QED
        BY <1>1, <1>2, <1>5, <1>6, <2>1, <3>1, <4>1
    <3>2. CASE i > Len(a)
      <4>1. /\ i - Len(a) \in 1 .. Len(b) /\ Len(a) + (i - Len(a)) = i /\ ~ (i <= Len(a))
            /\ i = n <=> i - Len(a) = Len(b)
        BY <1>1, <3>2
      <4>2. e[i] = IF i = n THEN c ELSE b[i - Len(a)]
        BY <1>2, <1>6, <4>1
      <4>3. (a \o d)[i] = IF i - Len(a) = Len(b) THEN c ELSE b[i - Len(a)]
        BY <1>1, <1>5, <2>1, <4>1
      <4>. QED
        BY <4>1, <4>2, <4>3
    <3>3. i <= Len(a) \/ i > Len(a)
      BY <1>1
    <3>. QED
      BY <3>1, <3>2, <3>3
  <2>. HIDE DEF e, d
  <2>3. Len(e) = Len(a \o d)
    BY <1>1, <1>5, <1>6, <2>1
  <2>. QED
    BY <1>6, <2>1, <2>2, <2>3, SeqEqual
<1>. QED
  BY <1>3, <1>4, <1>7

LEMMA UnixConcat ==
  ASSUME NEW C, NEW a \in Seq(C), NEW b \in Seq(C), Apart(Unix(a), b)
  PROVE  Unix(a \o b) = Unix(a) \o Unix(b)
<1>. DEFINE u == Unix(a)
            X == {s \in Seq(C) : Apart(u, s) => Unix(a \o s) = u \o Unix(s)}
<1>0. u \in Seq(C) /\ Unix(<< >>) = << >> /\ a \o << >> = a
  BY UnixIs, ConcatEmptySeq DEF UnixLaws
<1>. HIDE DEF u
<1>1. << >> \in X
  <2>1. << >> \in Seq(C) /\ u \o << >> = u
    BY <1>0, EmptySeq, ConcatEmptySeq
  <2>. QED
    BY <1>0, <2>1 DEF u
<1>2. ASSUME NEW s \in Seq(C), s \in X, NEW c \in C PROVE Append(s, c) \in X
  <2>. DEFINE t == Append(s, c)
              v == Unix(s)
  <2>0. t \in Seq(C) /\ v \in Seq(C) /\ a \o s \in Seq(C)
    BY AppendProperties, ConcatProperties, UnixIs DEF UnixLaws
  <2>. SUFFICES ASSUME Apart(u, t) PROVE Unix(a \o t) = u \o Unix(t)
    BY <2>0
  <2>1. a \o t = Append(a \o s, c)
    BY ConcatAppend
  <2>2. Unix(a \o t) = UnixNext(Unix(a \o s), c) /\ Unix(t) = UnixNext(v, c)
    BY <2>0, <2>1, UnixIs DEF UnixLaws
  <2>3. CASE s = << >>
    <3>1. v = << >> /\ a \o s = a
      BY <1>0, <2>3
    <3>2. Unix(a \o t) = UnixNext(u, c) /\ Unix(t) = UnixNext(<< >>, c)
      BY <2>2, <3>1 DEF u
    <3>3. t[1] = c /\ t # << >>
      <4>1. Len(s) = 0 /\ Len(s) + 1 = 1
        BY <2>3, EmptySeq
      <4>2. t[Len(s) + 1] = c /\ t # << >>
        BY AppendProperties
      <4>. QED
        BY <4>1, <4>2, Zenon
    <3>4. UnixNext(u, c) = Append(u, c) /\ UnixNext(<< >>, c) = Append(<< >>, c)
      BY <3>3 DEF Apart, UnixNext
    <3>5. Append(u, c) = u \o Append(<< >>, c)
      <4>1. << >> \in Seq(C) /\ u \o << >> = u
        BY <1>0, EmptySeq, ConcatEmptySeq
      <4>2. u \o Append(<< >>, c) = Append(u \o << >>, c)
        BY <1>0, <4>1, ConcatAppend
      <4>. QED
        BY <4>1, <4>2, Zenon
    <3>. QED
      BY <3>2, <3>4, <3>5, Zenon
  <2>4. CASE s # << >>
    <3>1. t[1] = s[1] /\ t # << >>
      <4>1. 1 \in 1 .. Len(s)
        BY <2>4, EmptySeq
      <4>. QED
        BY <4>1, AppendProperties
    <3>2. Apart(u, s)
      BY <3>1 DEF Apart
    <3>3. Unix(a \o s) = u \o v
      BY <1>2, <3>2
    <3>4. v # << >>
      BY <2>4, UnixEnd
    <3>5. UnixNext(u \o v, c) = u \o UnixNext(v, c)
      <4>0. v \in Seq(C)
        BY <2>0
      <4>. HIDE DEF v
      <4>1. /\ u \o v # << >> /\ (u \o v)[Len(u \o v)] = v[Len(v)]
            /\ [(u \o v) EXCEPT ![Len(u \o v)] = c] = u \o [v EXCEPT ![Len(v)] = c]
        BY <1>0, <3>4, <4>0, LastSet
      <4>2. u \o Append(v, c) = Append(u \o v, c)
        BY <1>0, <4>0, ConcatAppend
      <4>3. CASE c = "nl" /\ v[Len(v)] = "cr"
        <5>1. /\ UnixNext(u \o v, c) = [(u \o v) EXCEPT ![Len(u \o v)] = c]
              /\ UnixNext(v, c) = [v EXCEPT ![Len(v)] = c]
          BY <3>4, <4>1, <4>3, Zenon DEF UnixNext
        <5>. QED
          BY <4>1, <5>1, Zenon
      <4>4. CASE ~ (c = "nl" /\ v[Len(v)] = "cr")
        <5>1. UnixNext(u \o v, c) = Append(u \o v, c) /\ UnixNext(v, c) = Append(v, c)
          BY <3>4, <4>1, <4>4, Zenon DEF UnixNext
        <5>. QED
          BY <4>2, <5>1, Zenon
      <4>. QED
        BY <4>3, <4>4
    <3>. QED
      BY <2>2, <3>3, <3>5, Zenon
  <2>. QED
    BY <2>3, <2>4
<1>. HIDE DEF X
<1>3. \A s \in Seq(C) : s \in X => \A c \in C : Append(s, c) \in X
  BY <1>2
<1>4. Seq(C) \subseteq X
  BY <1>1, <1>3, SeqInduct
<1>5. b \in X
  BY <1>4
<1>. QED
  BY <1>5 DEF X, u

LEMMA UnixPlain ==
  ASSUME NEW C, NEW w \in Seq(C \ {"nl"})
  PROVE  Unix(w) = w
<1>. DEFINE D == C \ {"nl"}
            X == {s \in Seq(D) : Unix(s) = s}
<1>1. << >> \in X
  BY EmptySeq, UnixIs DEF UnixLaws
<1>2. ASSUME NEW s \in Seq(D), s \in X, NEW c \in D PROVE Append(s, c) \in X
  <2>1. Append(s, c) \in Seq(D)
    BY AppendProperties
  <2>2. Unix(Append(s, c)) = UnixNext(Unix(s), c)
    BY UnixIs DEF UnixLaws
  <2>3. Unix(s) = s /\ c # "nl"
    BY <1>2
  <2>4. UnixNext(s, c) = Append(s, c)
    BY <2>3 DEF UnixNext
  <2>. QED
    BY <2>1, <2>2, <2>3, <2>4
<1>. HIDE DEF X, D
<1>3. \A s \in Seq(D) : s \in X => \A c \in D : Append(s, c) \in X
  BY <1>2
<1>4. Seq(D) \subseteq X
  BY <1>1, <1>3, SeqInduct
<1>. QED
  BY <1>4 DEF X, D

Lines0(C) == Seq(Seq(C)) \ {<< >>}

LEMMA SplitNextIs ==
  ASSUME NEW C, NEW u \in Lines0(C), NEW c \in C
  PROVE  /\ SplitNext(u, c) \in Lines0(C)
         /\ c = "nl" => SplitNext(u, c) = Append(u, << >>)
         /\ c # "nl" => SplitNext(u, c) = [u EXCEPT ![Len(u)] = Append(u[Len(u)], c)]
<1>0. u \in Seq(Seq(C)) /\ Len(u) \in 1 .. Len(u) /\ u # << >>
  BY EmptySeq DEF Lines0
<1>1. CASE c = "nl"
  <2>1. SplitNext(u, c) = Append(u, << >>)
    BY <1>1 DEF SplitNext
  <2>2. << >> \in Seq(C)
    BY EmptySeq
  <2>3. Append(u, << >>) \in Lines0(C)
    BY <1>0, <2>2, AppendProperties DEF Lines0
  <2>. QED
    BY <1>1, <2>1, <2>3
<1>2. CASE c # "nl"
  <2>. DEFINE x == Append(u[Len(u)], c)
              v == [u EXCEPT ![Len(u)] = x]
  <2>1. x \in Seq(C)
    <3>1. u[Len(u)] \in Seq(C)
      BY <1>0, ElementOfSeq
    <3>. QED
      BY <3>1, AppendProperties
  <2>2. SplitNext(u, c) = v
    BY <1>2 DEF SplitNext
  <2>. HIDE DEF x
  <2>3. v \in Seq(Seq(C)) /\ Len(v) = Len(u)
    BY <1>0, <2>1, ExceptSeq
  <2>4. v # << >>
    <3>1. Len(v) # 0
      BY <1>0, <2>3
    <3>. QED
      BY <3>1, EmptySeq
  <2>5. v \in Lines0(C)
    BY <2>3, <2>4 DEF Lines0
  <2>. QED
    BY <1>2, <2>2, <2>5 DEF x
<1>. QED
  BY <1>1, <1>2

SplitLaws(C) ==
  /\ Split(<< >>) = << << >> >>
  /\ \A t \in Seq(C) : Split(t) \in Lines0(C)
  /\ \A t \in Seq(C), c \in C : Split(Append(t, c)) = SplitNext(Split(t), c)

LEMMA SplitIs == ASSUME NEW C PROVE SplitLaws(C)
<1>1. SplitStep(C) \in [Lines0(C) \X C -> Lines0(C)]
  BY SplitNextIs DEF SplitStep, Lines0
<1>2. SplitStep(C) \in [(Seq(Seq(C)) \ {<< >>}) \X C -> (Seq(Seq(C)) \ {<< >>})]
  BY <1>1 DEF Lines0
<1>. QED
  BY <1>2, SplitGrows DEF SplitLaws, Lines0

\* u ends in l, and becomes F and x when x is put in its place.
LastIs(u, F, l, x) == u # << >> /\ u[Len(u)] = l /\ [u EXCEPT ![Len(u)] = x] = F \o <<x>>

LEMMA LastOf ==
  ASSUME NEW D, NEW F \in Seq(D), NEW l \in D, NEW x \in D,
         NEW u, u = F \o <<l>>
  PROVE  u \in Seq(D) /\ LastIs(u, F, l, x)
<1>. DEFINE b == <<l>>
<1>1. b \in Seq(D) /\ Len(b) = 1 /\ b[Len(b)] = l /\ [b EXCEPT ![Len(b)] = x] = <<x>>
  OBVIOUS
<1>2. b # << >>
  BY <1>1, EmptySeq
<1>. HIDE DEF b
<1>3. F \o b \in Seq(D)
  BY <1>1, ConcatProperties
<1>4. /\ F \o b # << >> /\ (F \o b)[Len(F \o b)] = b[Len(b)]
      /\ [(F \o b) EXCEPT ![Len(F \o b)] = x] = F \o [b EXCEPT ![Len(b)] = x]
  BY <1>1, <1>2, LastSet
<1>5. u = F \o b
  BY DEF b
<1>. QED
  BY <1>1, <1>3, <1>4, <1>5, Zenon DEF LastIs

LEMMA SplitPlain ==
  ASSUME NEW C, NEW a \in Seq(C), NEW w \in Seq(C \ {"nl"}), NEW F \in Seq(Seq(C)), NEW l \in Seq(C),
         Split(a) = F \o <<l>>
  PROVE  Split(a \o w) = F \o <<l \o w>>
<1>. DEFINE D == C \ {"nl"}
            X == {s \in Seq(D) : Split(a \o s) = F \o <<l \o s>>}
<1>1. << >> \in X
  <2>1. a \o << >> = a /\ l \o << >> = l
    BY ConcatEmptySeq
  <2>. QED
    BY <2>1, EmptySeq
<1>2. ASSUME NEW s \in Seq(D), s \in X, NEW c \in D PROVE Append(s, c) \in X
  <2>0. s \in Seq(C) /\ c \in C /\ c # "nl"
    BY SeqMonotonic
  <2>1. Append(s, c) \in Seq(D) /\ a \o s \in Seq(C) /\ l \o s \in Seq(C)
    BY <2>0, AppendProperties, ConcatProperties
  <2>2. a \o Append(s, c) = Append(a \o s, c) /\ l \o Append(s, c) = Append(l \o s, c)
    BY <2>0, ConcatAppend
  <2>. DEFINE m == l \o s
              u == F \o <<m>>
  <2>3. Split(Append(a \o s, c)) = SplitNext(u, c)
    BY <1>2, <2>0, <2>1, SplitIs DEF SplitLaws
  <2>4. u \in Lines0(C)
    BY <1>2, <2>1, SplitIs DEF SplitLaws
  <2>5. Append(m, c) \in Seq(C)
    BY <2>0, <2>1, AppendProperties
  <2>6. SplitNext(u, c) = F \o <<Append(m, c)>>
    <3>1. m \in Seq(C)
      BY <2>1
    <3>. HIDE DEF m
    <3>. DEFINE x == Append(m, c)
    <3>2. SplitNext(u, c) = [u EXCEPT ![Len(u)] = Append(u[Len(u)], c)]
      BY <2>0, <2>4, SplitNextIs
    <3>. DEFINE Z == Seq(C)
    <3>0. x \in Z /\ m \in Z /\ F \in Seq(Z) /\ u = F \o <<m>>
      BY <2>5, <3>1
    <3>. HIDE DEF x, u, Z
    <3>3. LastIs(u, F, m, x)
      BY <3>0, LastOf
    <3>4. Append(u[Len(u)], c) = x
      BY <3>3, Zenon DEF x, LastIs
    <3>5. SplitNext(u, c) = F \o <<x>>
      BY <3>2, <3>3, <3>4, Zenon DEF LastIs
    <3>. QED
      BY <3>5 DEF x
  <2>7. Split(a \o Append(s, c)) = F \o <<l \o Append(s, c)>>
    BY <2>2, <2>3, <2>6, Zenon
  <2>. QED
    BY <2>1, <2>7
<1>. HIDE DEF X, D
<1>3. \A s \in Seq(D) : s \in X => \A c \in D : Append(s, c) \in X
  BY <1>2
<1>4. Seq(D) \subseteq X
  BY <1>1, <1>3, SeqInduct
<1>. QED
  BY <1>4 DEF X, D

\* The last of two parts in one is the last of the second, to be set as there.
LastJoined(a, b, c) ==
  /\ a \o b # << >> /\ (a \o b)[Len(a \o b)] = b[Len(b)]
  /\ [(a \o b) EXCEPT ![Len(a \o b)] = c] = a \o [b EXCEPT ![Len(b)] = c]

LEMMA LastJoins ==
  ASSUME NEW C, NEW a \in Seq(C), NEW b \in Seq(C), b # << >>, NEW c \in C
  PROVE  LastJoined(a, b, c)
BY LastSet DEF LastJoined

LEMMA SplitNextJoins ==
  ASSUME NEW C, NEW a \in Seq(Seq(C)), NEW b \in Lines0(C), NEW c \in C, a \o b \in Lines0(C)
  PROVE  SplitNext(a \o b, c) = a \o SplitNext(b, c)
<1>. DEFINE Z == Seq(C)
            x == Append(b[Len(b)], c)
<1>1. a \in Seq(Z) /\ b \in Seq(Z) /\ b # << >>
  BY DEF Lines0
<1>2. x \in Z /\ << >> \in Z
  <2>1. Len(b) \in 1 .. Len(b)
    BY <1>1, EmptySeq
  <2>2. b[Len(b)] \in Seq(C)
    BY <1>1, <2>1, ElementOfSeq
  <2>. QED
    BY <2>2, AppendProperties, EmptySeq
<1>3. CASE c = "nl"
  <2>1. SplitNext(a \o b, c) = Append(a \o b, << >>) /\ SplitNext(b, c) = Append(b, << >>)
    BY <1>3, SplitNextIs
  <2>2. a \o Append(b, << >>) = Append(a \o b, << >>)
    BY <1>1, <1>2, ConcatAppend
  <2>. QED
    BY <2>1, <2>2, Zenon
<1>4. CASE c # "nl"
  <2>. DEFINE u == a \o b
  <2>1. /\ SplitNext(u, c) = [u EXCEPT ![Len(u)] = Append(u[Len(u)], c)]
        /\ SplitNext(b, c) = [b EXCEPT ![Len(b)] = Append(b[Len(b)], c)]
    BY <1>4 DEF SplitNext
  <2>. HIDE DEF x, Z
  <2>2. LastJoined(a, b, x)
    BY <1>1, <1>2, LastJoins
  <2>3. u[Len(u)] = b[Len(b)] /\ [u EXCEPT ![Len(u)] = x] = a \o [b EXCEPT ![Len(b)] = x]
    BY <2>2, Zenon DEF LastJoined
  <2>4. Append(u[Len(u)], c) = x /\ Append(b[Len(b)], c) = x
    BY <2>3, Zenon DEF x
  <2>. HIDE DEF u
  <2>5. SplitNext(u, c) = [u EXCEPT ![Len(u)] = x] /\ SplitNext(b, c) = [b EXCEPT ![Len(b)] = x]
    BY <2>1, <2>4, Zenon
  <2>6. SplitNext(u, c) = a \o SplitNext(b, c)
    BY <2>3, <2>5, Zenon
  <2>. QED
    BY <2>6 DEF u
<1>. QED
  BY <1>3, <1>4

LEMMA SplitNewline ==
  ASSUME NEW C, "nl" \in C, NEW a \in Seq(C), NEW b \in Seq(C)
  PROVE  Split(Append(a, "nl") \o b) = Split(a) \o Split(b)
<1>. DEFINE n == Append(a, "nl")
            L == Split(a)
            X == {s \in Seq(C) : Split(n \o s) = L \o Split(s)}
<1>0. n \in Seq(C) /\ L \in Seq(Seq(C)) /\ L \in Lines0(C)
  BY AppendProperties, SplitIs DEF SplitLaws, Lines0
<1>1. << >> \in X
  <2>1. n \o << >> = n /\ << >> \in Seq(C)
    BY <1>0, ConcatEmptySeq, EmptySeq
  <2>2. Split(n) = SplitNext(L, "nl") /\ Split(<< >>) = << << >> >>
    BY SplitIs DEF SplitLaws
  <2>3. SplitNext(L, "nl") = Append(L, << >>)
    BY DEF SplitNext
  <2>4. Append(L, << >>) = L \o << << >> >>
    BY <1>0, <2>1, AppendIsConcat
  <2>. QED
    BY <2>1, <2>2, <2>3, <2>4
<1>2. ASSUME NEW s \in Seq(C), s \in X, NEW c \in C PROVE Append(s, c) \in X
  <2>1. Append(s, c) \in Seq(C) /\ n \o s \in Seq(C) /\ Split(s) \in Lines0(C) /\ Split(n \o s) \in Lines0(C)
    BY <1>0, AppendProperties, ConcatProperties, SplitIs DEF SplitLaws
  <2>2. n \o Append(s, c) = Append(n \o s, c)
    BY <1>0, ConcatAppend
  <2>3. Split(n \o s) = L \o Split(s)
    BY <1>2
  <2>4. /\ Split(Append(n \o s, c)) = SplitNext(Split(n \o s), c)
        /\ Split(Append(s, c)) = SplitNext(Split(s), c)
    BY <2>1, SplitIs DEF SplitLaws
  <2>5. SplitNext(L \o Split(s), c) = L \o SplitNext(Split(s), c)
    <3>. DEFINE M == Split(s)
    <3>1. L \in Seq(Seq(C)) /\ M \in Lines0(C) /\ L \o M \in Lines0(C)
      BY <1>0, <2>1, <2>3
    <3>. HIDE DEF L, M
    <3>2. SplitNext(L \o M, c) = L \o SplitNext(M, c)
      BY <3>1, SplitNextJoins
    <3>. QED
      BY <3>2 DEF M
  <2>6. Split(n \o Append(s, c)) = L \o Split(Append(s, c))
    BY <2>2, <2>3, <2>4, <2>5, Zenon
  <2>. QED
    BY <2>1, <2>6
<1>. HIDE DEF X
<1>3. \A s \in Seq(C) : s \in X => \A c \in C : Append(s, c) \in X
  BY <1>2
<1>4. Seq(C) \subseteq X
  BY <1>1, <1>3, SeqInduct
<1>5. b \in X
  BY <1>4
<1>. QED
  BY <1>5 DEF X

LinedLaws(C) ==
  /\ Lined(<< >>) = << >>
  /\ \A t \in Seq(Seq(C)) : Lined(t) \in Seq(C)
  /\ \A t \in Seq(Seq(C)), l \in Seq(C) : Lined(Append(t, l)) = LinedNext(Lined(t), l)

LEMMA LinedIs == ASSUME NEW C, "nl" \in C PROVE LinedLaws(C)
<1>1. ASSUME NEW u \in Seq(C), NEW l \in Seq(C) PROVE LinedNext(u, l) \in Seq(C)
  BY AppendProperties, ConcatProperties DEF LinedNext
<1>2. LinedStep(C) \in [Seq(C) \X Seq(C) -> Seq(C)]
  BY <1>1 DEF LinedStep
<1>. QED
  BY <1>2, LinedGrows DEF LinedLaws

LEMMA LinedSplit ==
  ASSUME NEW C, "nl" \in C, NEW b \in Seq(C)
  PROVE  Lined(Split(b)) = <<"nl">> \o b
<1>. DEFINE X == {s \in Seq(C) : Lined(Split(s)) = <<"nl">> \o s}
<1>0. << >> \in Seq(C) /\ << >> \in Seq(Seq(C)) /\ <<"nl">> \in Seq(C)
  BY EmptySeq
<1>1. << >> \in X
  <2>1. Split(<< >>) = << << >> >> /\ << << >> >> = Append(<< >>, << >>)
    BY SplitIs DEF SplitLaws
  <2>2. Lined(Append(<< >>, << >>)) = LinedNext(Lined(<< >>), << >>) /\ Lined(<< >>) = << >>
    BY <1>0, LinedIs DEF LinedLaws
  <2>3. LinedNext(<< >>, << >>) = Append(<< >>, "nl") \o << >>
    BY DEF LinedNext
  <2>4. Append(<< >>, "nl") = <<"nl">>
    OBVIOUS
  <2>5. Lined(Split(<< >>)) = <<"nl">> \o << >>
    BY <2>1, <2>2, <2>3, <2>4, Zenon
  <2>. QED
    BY <1>0, <2>5
<1>2. ASSUME NEW s \in Seq(C), s \in X, NEW c \in C PROVE Append(s, c) \in X
  <2>. DEFINE L == Split(s)
              Z == Seq(C)
  <2>1. L \in Lines0(C) /\ Split(Append(s, c)) = SplitNext(L, c) /\ Lined(L) = <<"nl">> \o s
    BY <1>2, SplitIs DEF SplitLaws
  <2>2. L \in Seq(Z) /\ L # << >> /\ Append(s, c) \in Z
    BY <2>1, AppendProperties DEF Lines0
  <2>3. <<"nl">> \o Append(s, c) = Append(<<"nl">> \o s, c)
    BY <1>0, ConcatAppend
  <2>4. Lined(SplitNext(L, c)) = Append(Lined(L), c)
    <3>1. CASE c = "nl"
      <4>1. SplitNext(L, c) = Append(L, << >>)
        BY <2>1, <3>1, SplitNextIs
      <4>2. Lined(Append(L, << >>)) = LinedNext(Lined(L), << >>) /\ Lined(L) \in Seq(C)
        BY <1>0, <2>2, LinedIs DEF LinedLaws
      <4>3. LinedNext(Lined(L), << >>) = Append(Lined(L), "nl") \o << >>
        BY DEF LinedNext
      <4>4. Append(Lined(L), "nl") \o << >> = Append(Lined(L), "nl")
        BY <4>2, AppendProperties, ConcatEmptySeq
      <4>. QED
        BY <3>1, <4>1, <4>2, <4>3, <4>4, Zenon
    <3>2. CASE c # "nl"
      <4>0. SplitNext(L, c) = [L EXCEPT ![Len(L)] = Append(L[Len(L)], c)]
        BY <3>2 DEF SplitNext
      <4>. HIDE DEF L, Z
      <4>1. PICK F \in Seq(Z), l \in Z : L = Append(F, l)
        BY <2>2, SequenceEmptyOrAppend
      <4>2. L = F \o <<l>>
        BY <4>1, AppendIsConcat
      <4>. DEFINE x == Append(l, c)
      <4>3. x \in Z
        BY AppendProperties DEF Z
      <4>. HIDE DEF x
      <4>4. LastIs(L, F, l, x)
        BY <4>2, <4>3, LastOf
      <4>5. F \o <<x>> = Append(F, x)
        BY <4>3, AppendIsConcat
      <4>6. SplitNext(L, c) = Append(F, x)
        BY <4>0, <4>4, <4>5, Zenon DEF LastIs, x
      <4>7. /\ Lined(Append(F, x)) = LinedNext(Lined(F), x) /\ Lined(Append(F, l)) = LinedNext(Lined(F), l)
            /\ Lined(F) \in Seq(C)
        BY <4>3, LinedIs DEF LinedLaws, Z
      <4>8. Append(Lined(F), "nl") \in Seq(C) /\ l \in Seq(C)
        BY <4>7, AppendProperties DEF Z
      <4>9. Append(Lined(F), "nl") \o Append(l, c) = Append(Append(Lined(F), "nl") \o l, c)
        BY <4>8, ConcatAppend
      <4>10. LinedNext(Lined(F), x) = Append(LinedNext(Lined(F), l), c)
        BY <4>9, Zenon DEF LinedNext, x
      <4>. QED
        BY <4>1, <4>6, <4>7, <4>10, Zenon
    <3>. QED
      BY <3>1, <3>2
  <2>5. Lined(Split(Append(s, c))) = <<"nl">> \o Append(s, c)
    BY <2>1, <2>3, <2>4, Zenon
  <2>. QED
    BY <2>2, <2>5
<1>. HIDE DEF X
<1>3. \A s \in Seq(C) : s \in X => \A c \in C : Append(s, c) \in X
  BY <1>2
<1>4. Seq(C) \subseteq X
  BY <1>1, <1>3, SeqInduct
<1>5. b \in X
  BY <1>4
<1>. QED
  BY <1>5 DEF X

\* s is a and b, by the places of their characters.
Concat(s, a, b) ==
  /\ Len(a) \in Nat /\ Len(b) \in Nat /\ Len(s) = Len(a) + Len(b)
  /\ \A i \in 1 .. Len(a) : s[i] = a[i]
  /\ \A i \in 1 .. Len(b) : s[Len(a) + i] = b[i]

LEMMA ConcatIs ==
  ASSUME NEW C, NEW a \in Seq(C), NEW b \in Seq(C)
  PROVE  a \o b \in Seq(C) /\ Concat(a \o b, a, b)
BY ConcatAt, ConcatProperties DEF Concat

LEMMA JoinSplit ==
  ASSUME NEW C, "nl" \in C, NEW b \in Seq(C)
  PROVE  Join(Split(b)) = b
<1>. DEFINE n == <<"nl">>
            s == n \o b
<1>1. Join(Split(b)) = SubSeq(s, 2, Len(s))
  BY LinedSplit DEF Join
<1>2. n \in Seq(C) /\ Len(n) = 1
  OBVIOUS
<1>. HIDE DEF n
<1>3. s \in Seq(C) /\ Len(s) = 1 + Len(b) /\ Len(b) \in Nat /\ \A i \in 1 .. Len(b) : s[1 + i] = b[i]
  <2>1. s \in Seq(C) /\ Concat(s, n, b)
    BY <1>2, ConcatIs
  <2>. HIDE DEF s
  <2>. QED
    BY <1>2, <2>1 DEF Concat
<1>4. SubSeq(s, 2, Len(s)) = b
  <2>. DEFINE r == SubSeq(s, 2, Len(s))
  <2>1. \A i \in 2 .. Len(s) : s[i] \in C
    BY <1>3, ElementOfSeq
  <2>2. /\ r \in Seq(C) /\ Len(r) = IF 2 <= Len(s) THEN Len(s) - 2 + 1 ELSE 0
        /\ \A i \in 1 .. Len(s) - 2 + 1 : r[i] = s[2 + i - 1]
    BY <1>3, <2>1, SubSeqProperties
  <2>3. Len(r) = Len(b)
    BY <1>3, <2>2
  <2>4. ASSUME NEW i \in 1 .. Len(b) PROVE r[i] = b[i]
    <3>1. i \in 1 .. Len(s) - 2 + 1 /\ 2 + i - 1 = 1 + i
      BY <1>3
    <3>. QED
      BY <1>3, <2>2, <3>1
  <2>. HIDE DEF r
  <2>5. r = b
    BY <2>2, <2>3, <2>4, SeqEqual
  <2>. QED
    BY <2>5 DEF r
<1>. QED
  BY <1>1, <1>4, Zenon

-----------------------------------------------------------------------------
(* Descriptions: what is trimmed.                                          *)

LEMMA LeastIs ==
  ASSUME NEW S \in SUBSET Nat, NEW m \in S, \A j \in S : m <= j
  PROVE  Least(S) = m
<1>1. Least(S) \in S /\ \A j \in S : Least(S) <= j
  BY DEF Least
<1>. DEFINE x == Least(S)
<1>2. x <= m /\ m <= x /\ x \in Nat /\ m \in Nat
  BY <1>1
<1>. HIDE DEF x
<1>3. x = m
  BY <1>2
<1>. QED
  BY <1>3 DEF x

LEMMA GreatestIs ==
  ASSUME NEW S \in SUBSET Nat, NEW m \in S, \A j \in S : m >= j
  PROVE  Greatest(S) = m
<1>1. Greatest(S) \in S /\ \A j \in S : Greatest(S) >= j
  BY DEF Greatest
<1>. DEFINE x == Greatest(S)
<1>2. x <= m /\ m <= x /\ x \in Nat /\ m \in Nat
  BY <1>1
<1>. HIDE DEF x
<1>3. x = m
  BY <1>2
<1>. QED
  BY <1>3 DEF x

\* s is a, m and b, by the places of their characters.
Around(s, a, m, b) ==
  /\ Len(a) \in Nat /\ Len(m) \in Nat /\ Len(b) \in Nat
  /\ Len(s) = Len(a) + Len(m) + Len(b) /\ DOMAIN s = 1 .. Len(s)
  /\ \A i \in 1 .. Len(a) : s[i] = a[i]
  /\ \A i \in 1 .. Len(m) : s[Len(a) + i] = m[i]
  /\ \A i \in 1 .. Len(b) : s[Len(a) + Len(m) + i] = b[i]

LEMMA PlacesAround ==
  ASSUME NEW W, NEW a \in Seq(W), NEW m \in Seq(W), NEW b \in Seq(W), NEW s, s = (a \o m) \o b
  PROVE  s \in Seq(W) /\ Around(s, a, m, b)
<1>. DEFINE x == a \o m
<1>1. /\ x \in Seq(W) /\ Len(a) \in Nat /\ Len(m) \in Nat /\ Len(x) = Len(a) + Len(m)
      /\ \A i \in 1 .. Len(a) : x[i] = a[i]
      /\ \A i \in 1 .. Len(m) : x[Len(a) + i] = m[i]
  BY ConcatIs DEF Concat
<1>2. s = x \o b
  OBVIOUS
<1>. HIDE DEF x
<1>3. /\ s \in Seq(W) /\ Len(b) \in Nat /\ Len(s) = Len(x) + Len(b)
      /\ \A i \in 1 .. Len(x) : s[i] = x[i]
      /\ \A i \in 1 .. Len(b) : s[Len(x) + i] = b[i]
  <2>1. x \o b \in Seq(W) /\ Concat(x \o b, x, b)
    BY <1>1, ConcatIs
  <2>. QED
    BY <1>2, <2>1, Zenon DEF Concat
<1>4. DOMAIN s = 1 .. Len(s)
  BY <1>3, LenProperties
<1>5. \A i \in 1 .. Len(a) : s[i] = a[i]
  <2>1. \A i \in 1 .. Len(a) : i \in 1 .. Len(x)
    BY <1>1
  <2>. QED
    BY <1>1, <1>3, <2>1
<1>6. \A i \in 1 .. Len(m) : s[Len(a) + i] = m[i]
  <2>1. \A i \in 1 .. Len(m) : Len(a) + i \in 1 .. Len(x)
    BY <1>1
  <2>. QED
    BY <1>1, <1>3, <2>1
<1>7. \A i \in 1 .. Len(b) : s[Len(a) + Len(m) + i] = b[i]
  BY <1>1, <1>3
<1>8. Len(s) = Len(a) + Len(m) + Len(b)
  BY <1>1, <1>3
<1>. QED
  BY <1>1, <1>3, <1>4, <1>5, <1>6, <1>7, <1>8 DEF Around

LEMMA MiddleIs ==
  ASSUME NEW W, NEW a \in Seq(W), NEW m \in Seq(W), NEW b \in Seq(W), NEW s, s = (a \o m) \o b,
         NEW lo, NEW hi, lo = Len(a) + 1, hi = Len(a) + Len(m)
  PROVE  SubSeq(s, lo, hi) = m
<1>. DEFINE r == SubSeq(s, lo, hi)
<1>1. s \in Seq(W) /\ Around(s, a, m, b)
  BY PlacesAround
<1>2. lo \in Int /\ hi \in Int /\ Len(m) \in Nat /\ Len(s) \in Nat
  BY <1>1, LenProperties DEF Around
<1>3. \A i \in lo .. hi : i \in 1 .. Len(s)
  BY <1>1, LenProperties DEF Around
<1>4. \A i \in lo .. hi : s[i] \in W
  BY <1>1, <1>3, ElementOfSeq
<1>5. /\ r \in Seq(W) /\ Len(r) = IF lo <= hi THEN hi - lo + 1 ELSE 0
      /\ \A i \in 1 .. hi - lo + 1 : r[i] = s[lo + i - 1]
  BY <1>2, <1>4, SubSeqProperties
<1>6. Len(r) = Len(m)
  BY <1>1, <1>5 DEF Around
<1>7. ASSUME NEW i \in 1 .. Len(m) PROVE r[i] = m[i]
  <2>1. i \in 1 .. hi - lo + 1 /\ lo + i - 1 = Len(a) + i
    BY <1>1 DEF Around
  <2>2. s[Len(a) + i] = m[i]
    BY <1>1 DEF Around
  <2>. QED
    BY <1>5, <2>1, <2>2
<1>. HIDE DEF r
<1>8. r = m
  BY <1>5, <1>6, <1>7, SeqEqual
<1>. QED
  BY <1>8 DEF r

LEMMA AllIn ==
  ASSUME NEW W, NEW K, NEW s \in Seq(W), \A i \in 1 .. Len(s) : s[i] \in K
  PROVE  s \in Seq(K)
<1>1. Len(s) \in Nat
  BY LenProperties
<1>2. SubSeq(s, 1, Len(s)) \in Seq(K)
  BY <1>1, SubSeqProperties
<1>. QED
  BY <1>2, SubSeqFull

\* s is m, which begins and ends outside of K, between what is of K.
Framed(s, a, m, b, K) ==
  /\ a \in Seq(K) /\ b \in Seq(K) /\ s = (a \o m) \o b
  /\ m # << >> /\ m[1] \notin K /\ m[Len(m)] \notin K

LEMMA TrimmedIs ==
  ASSUME NEW W, NEW K, NEW a \in Seq(W), NEW m \in Seq(W), NEW b \in Seq(W), NEW s,
         Framed(s, a, m, b, K)
  PROVE  TrimEnds(s, K) = m
<1>0. /\ a \in Seq(K) /\ b \in Seq(K) /\ s = (a \o m) \o b
      /\ m # << >> /\ m[1] \notin K /\ m[Len(m)] \notin K
  BY DEF Framed
<1>. DEFINE kept == Outermost(s, K)
            lo == Len(a) + 1
            hi == Len(a) + Len(m)
<1>1. s \in Seq(W) /\ Around(s, a, m, b)
  BY <1>0, PlacesAround
<1>2. Len(a) \in Nat /\ Len(m) \in Nat /\ Len(m) > 0 /\ Len(b) \in Nat
  BY <1>0, <1>1, EmptySeq DEF Around
<1>3. lo \in kept /\ hi \in kept
  <2>1. 1 \in 1 .. Len(m) /\ Len(m) \in 1 .. Len(m) /\ lo \in DOMAIN s /\ hi \in DOMAIN s
    BY <1>1, <1>2 DEF Around
  <2>2. s[lo] = m[1] /\ s[hi] = m[Len(m)]
    BY <1>1, <2>1 DEF Around
  <2>. QED
    BY <1>0, <2>1, <2>2 DEF Outermost
<1>4. ASSUME NEW j \in kept PROVE j \in Nat /\ lo <= j /\ j <= hi
  <2>1. j \in 1 .. Len(s) /\ s[j] \notin K
    BY <1>1 DEF Outermost, Around
  <2>2. ~ (j <= Len(a))
    <3>. SUFFICES ASSUME j <= Len(a) PROVE FALSE
      OBVIOUS
    <3>1. j \in 1 .. Len(a)
      BY <1>2, <2>1
    <3>2. s[j] = a[j] /\ a[j] \in K
      BY <1>0, <1>1, <3>1, ElementOfSeq DEF Around
    <3>. QED
      BY <2>1, <3>2
  <2>3. ~ (j > hi)
    <3>. SUFFICES ASSUME j > hi PROVE FALSE
      OBVIOUS
    <3>1. j - hi \in 1 .. Len(b) /\ Len(a) + Len(m) + (j - hi) = j
      BY <1>1, <1>2, <2>1 DEF Around
    <3>2. s[j] = b[j - hi] /\ b[j - hi] \in K
      BY <1>0, <1>1, <3>1, ElementOfSeq DEF Around
    <3>. QED
      BY <2>1, <3>2
  <2>. QED
    BY <1>2, <2>1, <2>2, <2>3
<1>5. kept \in SUBSET Nat /\ kept # {}
  BY <1>3, <1>4
<1>. HIDE DEF kept, lo, hi
<1>6. Least(kept) = lo /\ Greatest(kept) = hi
  <2>1. \A j \in kept : lo <= j
    BY <1>4
  <2>2. \A j \in kept : hi >= j
    BY <1>3, <1>4, <1>5
  <2>3. Least(kept) = lo
    BY <1>3, <1>5, <2>1, LeastIs
  <2>4. Greatest(kept) = hi
    BY <1>3, <1>5, <2>2, GreatestIs
  <2>. QED
    BY <2>3, <2>4
<1>7. SubSeq(s, lo, hi) = m
  BY <1>0, MiddleIs DEF lo, hi
<1>8. TrimEnds(s, K) = SubSeq(s, Least(kept), Greatest(kept))
  BY <1>5 DEF TrimEnds, kept
<1>. QED
  BY <1>6, <1>7, <1>8, Zenon

LEMMA TrimStartIs ==
  ASSUME NEW W, NEW K, NEW a \in Seq(W), NEW m \in Seq(W), NEW s, s = a \o m,
         a \in Seq(K), m # << >>, m[1] \notin K
  PROVE  TrimStart(s, K) = m
<1>. DEFINE kept == Outermost(s, K)
            lo == Len(a) + 1
<1>0. s \in Seq(W) /\ << >> \in Seq(W) /\ s = (a \o m) \o << >> /\ Len(<< >>) = 0
  BY EmptySeq, ConcatProperties, ConcatEmptySeq
<1>1. Around(s, a, m, << >>)
  BY <1>0, PlacesAround
<1>2. Len(a) \in Nat /\ Len(m) \in Nat /\ Len(m) > 0 /\ Len(s) = Len(a) + Len(m)
  BY <1>0, <1>1, EmptySeq DEF Around
<1>3. lo \in kept
  <2>1. 1 \in 1 .. Len(m) /\ lo \in DOMAIN s
    BY <1>1, <1>2 DEF Around
  <2>2. s[lo] = m[1]
    BY <1>1, <2>1 DEF Around
  <2>. QED
    BY <2>1, <2>2 DEF Outermost
<1>4. ASSUME NEW j \in kept PROVE j \in Nat /\ lo <= j
  <2>1. j \in 1 .. Len(s) /\ s[j] \notin K
    BY <1>1 DEF Outermost, Around
  <2>2. ~ (j <= Len(a))
    <3>. SUFFICES ASSUME j <= Len(a) PROVE FALSE
      OBVIOUS
    <3>1. j \in 1 .. Len(a)
      BY <1>2, <2>1
    <3>2. s[j] = a[j] /\ a[j] \in K
      BY <1>1, <3>1, ElementOfSeq DEF Around
    <3>. QED
      BY <2>1, <3>2
  <2>. QED
    BY <1>2, <2>1, <2>2
<1>5. kept \in SUBSET Nat /\ kept # {}
  BY <1>3, <1>4
<1>6. Least(kept) = lo
  <2>. HIDE DEF kept, lo
  <2>. QED
    BY <1>3, <1>4, <1>5, LeastIs
<1>7. SubSeq(s, lo, Len(s)) = m
  BY <1>0, <1>2, MiddleIs
<1>. HIDE DEF kept, lo
<1>8. TrimStart(s, K) = SubSeq(s, Least(kept), Len(s))
  BY <1>5 DEF TrimStart, kept
<1>. QED
  BY <1>6, <1>7, <1>8, Zenon

LEMMA TrimNone ==
  ASSUME NEW K, NEW s \in Seq(K)
  PROVE  TrimEnds(s, K) = << >> /\ TrimStart(s, K) = << >>
<1>1. Outermost(s, K) = {}
  <2>1. \A i \in DOMAIN s : s[i] \in K
    BY LenProperties, ElementOfSeq
  <2>. QED
    BY <2>1 DEF Outermost
<1>. QED
  BY <1>1 DEF TrimEnds, TrimStart

\* s is p, which is of K, and m, which begins outside of it.
Begins(s, p, m, K) ==
  p \in Seq(K) /\ s = p \o m /\ m # << >> /\ m[1] \notin K

LEMMA CutStart ==
  ASSUME NEW W, NEW K, NEW s \in Seq(W), s \notin Seq(K)
  PROVE  \E p \in Seq(W), m \in Seq(W) : Begins(s, p, m, K)
<1>0. Len(s) \in Nat /\ DOMAIN s = 1 .. Len(s) /\ \A i \in 1 .. Len(s) : s[i] \in W
  BY LenProperties, ElementOfSeq
<1>. DEFINE T == {i \in 1 .. Len(s) : s[i] \notin K}
<1>1. T # {} /\ T \in SUBSET Nat
  BY <1>0, AllIn
<1>2. PICK l \in T : \A k \in T : l <= k
  <2>. HIDE DEF T
  <2>. QED
    BY <1>1, LeastOf
<1>. DEFINE p == SubSeq(s, 1, l - 1)
            m == SubSeq(s, l, Len(s))
<1>3. l \in 1 .. Len(s) /\ s[l] \notin K /\ l - 1 \in Nat /\ (l - 1) + 1 = l
  BY <1>0
<1>4. \A i \in 1 .. (l - 1) : s[i] \in W /\ s[i] \in K
  <2>1. \A i \in 1 .. (l - 1) : i \in 1 .. Len(s) /\ ~ (l <= i)
    BY <1>0, <1>3
  <2>. QED
    BY <1>0, <1>2, <2>1
<1>5. p \in Seq(W) /\ p \in Seq(K)
  BY <1>3, <1>4, SubSeqProperties
<1>6. /\ m \in Seq(W) /\ Len(m) = Len(s) - l + 1 /\ m[1] = s[l]
  <2>1. \A i \in l .. Len(s) : s[i] \in W
    BY <1>0, <1>3
  <2>2. /\ m \in Seq(W) /\ Len(m) = IF l <= Len(s) THEN Len(s) - l + 1 ELSE 0
        /\ \A i \in 1 .. Len(s) - l + 1 : m[i] = s[l + i - 1]
    BY <1>0, <1>3, <2>1, SubSeqProperties
  <2>3. 1 \in 1 .. Len(s) - l + 1 /\ l + 1 - 1 = l
    BY <1>0, <1>3
  <2>4. m[1] = s[l]
    BY <2>2, <2>3
  <2>. QED
    BY <1>3, <2>2, <2>4
<1>7. m # << >>
  <2>1. Len(m) # 0
    BY <1>0, <1>3, <1>6
  <2>. QED
    BY <2>1, EmptySeq
<1>8. s = p \o m
  <2>1. 1 \in 1 .. Len(s) + 1 /\ l - 1 \in 1 - 1 .. Len(s) /\ Len(s) \in l - 1 .. Len(s)
    BY <1>0, <1>3
  <2>2. SubSeq(s, 1, l - 1) \o SubSeq(s, (l - 1) + 1, Len(s)) = SubSeq(s, 1, Len(s))
    BY <2>1, ConcatAdjacentSubSeq
  <2>. QED
    BY <1>3, <2>2, SubSeqFull
<1>. HIDE DEF p, m
<1>9. Begins(s, p, m, K)
  BY <1>3, <1>5, <1>6, <1>7, <1>8 DEF Begins
<1>. QED
  BY <1>5, <1>6, <1>9

\* s is m, which ends outside of K, and q, which is of K.
Ends(s, m, q, K) ==
  q \in Seq(K) /\ s = m \o q /\ m # << >> /\ m[Len(m)] \notin K /\ m[1] = s[1]

LEMMA CutEnd ==
  ASSUME NEW W, NEW K, NEW s \in Seq(W), s \notin Seq(K)
  PROVE  \E m \in Seq(W), q \in Seq(W) : Ends(s, m, q, K)
<1>. DEFINE n == Len(s)
<1>0. n \in Nat /\ DOMAIN s = 1 .. n /\ \A i \in 1 .. n : s[i] \in W
  BY LenProperties, ElementOfSeq
<1>. DEFINE T == {d \in 0 .. (n - 1) : s[n - d] \notin K}
<1>. HIDE DEF n
<1>1. T # {} /\ T \in SUBSET Nat
  <2>1. PICK i \in 1 .. n : s[i] \notin K
    BY <1>0, AllIn DEF n
  <2>2. n - i \in 0 .. (n - 1) /\ n - (n - i) = i
    BY <1>0
  <2>3. PICK d \in 0 .. (n - 1) : n - d = i
    BY <2>2
  <2>4. d \in T
    BY <2>1, <2>3
  <2>5. T \subseteq Nat
    BY <1>0
  <2>. HIDE DEF T
  <2>. QED
    BY <2>4, <2>5
<1>2. PICK d \in T : \A k \in T : d <= k
  <2>. HIDE DEF T
  <2>. QED
    BY <1>1, LeastOf
<1>. DEFINE l == n - d
            m == SubSeq(s, 1, l)
            q == SubSeq(s, l + 1, n)
<1>3. l \in 1 .. n /\ s[l] \notin K /\ l \in Nat
  BY <1>0
<1>4. \A i \in (l + 1) .. n : s[i] \in W /\ s[i] \in K
  <2>. SUFFICES ASSUME NEW i \in (l + 1) .. n PROVE s[i] \in W /\ s[i] \in K
    OBVIOUS
  <2>1. n - i \in 0 .. (n - 1) /\ n - (n - i) = i /\ ~ (d <= n - i) /\ i \in 1 .. n
    BY <1>0, <1>3
  <2>. QED
    BY <1>0, <1>2, <2>1
<1>. HIDE DEF l
<1>5. q \in Seq(W) /\ q \in Seq(K)
  BY <1>0, <1>3, <1>4, SubSeqProperties
<1>6. m \in Seq(W) /\ Len(m) = l /\ m[1] = s[1] /\ m[l] = s[l]
  <2>1. \A i \in 1 .. l : s[i] \in W
    BY <1>0, <1>3
  <2>2. /\ m \in Seq(W) /\ Len(m) = IF 1 <= l THEN l - 1 + 1 ELSE 0
        /\ \A i \in 1 .. l - 1 + 1 : m[i] = s[1 + i - 1]
    BY <1>3, <2>1, SubSeqProperties
  <2>3. 1 \in 1 .. l - 1 + 1 /\ l \in 1 .. l - 1 + 1 /\ 1 + 1 - 1 = 1 /\ 1 + l - 1 = l
    BY <1>0, <1>3
  <2>4. m[1] = s[1] /\ m[l] = s[l]
    BY <2>2, <2>3
  <2>5. Len(m) = l
    BY <1>3, <2>2
  <2>. QED
    BY <2>2, <2>4, <2>5
<1>7. m # << >>
  <2>1. Len(m) # 0
    BY <1>3, <1>6
  <2>. QED
    BY <2>1, EmptySeq
<1>8. s = m \o q
  <2>1. 1 \in 1 .. Len(s) + 1 /\ l \in 1 - 1 .. Len(s) /\ Len(s) \in l .. Len(s)
    BY <1>0, <1>3 DEF n
  <2>2. SubSeq(s, 1, l) \o SubSeq(s, l + 1, Len(s)) = SubSeq(s, 1, Len(s))
    BY <2>1, ConcatAdjacentSubSeq
  <2>. QED
    BY <2>2, SubSeqFull DEF n
<1>. HIDE DEF q, m
<1>9. Ends(s, m, q, K)
  BY <1>3, <1>5, <1>6, <1>7, <1>8 DEF Ends
<1>. QED
  BY <1>5, <1>6, <1>9

Plainly == Written \ {"nl"}

LEMMA Kinds ==
  /\ "nl" \in Written /\ "nl" \in Space /\ "cr" \in Space /\ "sp" \in Space
  /\ \A c \in Written : c \notin Space => c \in Plainly /\ c # "cr" /\ c # "nl"
  /\ \A W : W \in SUBSET Written => \A s \in Seq(W) : s \in Seq(Written)
  /\ \A s \in Seq(Space) : s \in Seq(Written)
  /\ \A s \in Seq(Plainly) : s \in Seq(Written)
<1>1. Space \subseteq Written /\ Plainly \subseteq Written
  BY DEF Space, Written, Plainly
<1>2. \A W : W \in SUBSET Written => \A s \in Seq(W) : s \in Seq(Written)
  BY SeqMonotonic
<1>3. \A s \in Seq(Space) : s \in Seq(Written)
  BY <1>1, SeqMonotonic
<1>4. \A s \in Seq(Plainly) : s \in Seq(Written)
  BY <1>1, SeqMonotonic
<1>5. /\ "nl" \in Written /\ "nl" \in Space /\ "cr" \in Space /\ "sp" \in Space
      /\ \A c \in Written : c \notin Space => c \in Plainly /\ c # "cr" /\ c # "nl"
  BY DEF Space, Written, Plainly
<1>. QED
  BY <1>2, <1>3, <1>4, <1>5

\* A description in parts: blank lines and blanks, the ink of the title's line,
\* the blanks behind it, and what begins with the newline that ends the line.
Cuts(s, p, m, q, t) ==
  /\ p \in Seq(Space) /\ m \in Seq(Plainly) /\ q \in Seq(Plainly) /\ q \in Seq(Space)
  /\ m # << >> /\ m[1] \notin Space /\ m[Len(m)] \notin Space
  /\ t \in Seq(Written) /\ (t = << >> \/ t[1] = "nl")
  /\ s = (p \o (m \o q)) \o t

LEMMA PartOf ==
  ASSUME NEW K, NEW W, NEW a \in Seq(W), NEW b \in Seq(W), a \o b \in Seq(K)
  PROVE  a \in Seq(K) /\ b \in Seq(K)
<1>. DEFINE s == a \o b
<1>1. s \in Seq(W) /\ Concat(s, a, b)
  BY ConcatIs
<1>2. s \in Seq(K)
  OBVIOUS
<1>. HIDE DEF s
<1>3. \A i \in 1 .. Len(a) : a[i] \in K
  <2>1. \A i \in 1 .. Len(a) : i \in 1 .. Len(s) /\ a[i] = s[i]
    BY <1>1 DEF Concat
  <2>. QED
    BY <1>2, <2>1, ElementOfSeq
<1>4. \A i \in 1 .. Len(b) : b[i] \in K
  <2>1. \A i \in 1 .. Len(b) : Len(a) + i \in 1 .. Len(s) /\ b[i] = s[Len(a) + i]
    BY <1>1 DEF Concat
  <2>. QED
    BY <1>2, <2>1, ElementOfSeq
<1>. QED
  BY <1>3, <1>4, AllIn

LEMMA CutsExist ==
  ASSUME NEW s \in Seq(Written), s \notin Seq(Space)
  PROVE  \E p, m, q, t : Cuts(s, p, m, q, t)
<1>1. PICK p \in Seq(Written), x \in Seq(Written) : Begins(s, p, x, Space)
  BY CutStart
<1>2. p \in Seq(Space) /\ s = p \o x /\ x # << >> /\ x[1] \notin Space
  BY <1>1 DEF Begins
<1>3. \E w \in Seq(Plainly), t \in Seq(Written) :
        /\ w # << >> /\ w[1] \notin Space /\ (t = << >> \/ t[1] = "nl")
        /\ s = (p \o w) \o t
  <2>1. CASE x \in Seq(Plainly)
    <3>1. (p \o x) \o << >> = p \o x /\ << >> \in Seq(Written)
      BY <1>1, ConcatProperties, ConcatEmptySeq, EmptySeq
    <3>. QED
      BY <1>2, <2>1, <3>1
  <2>2. CASE x \notin Seq(Plainly)
    <3>1. PICK w \in Seq(Written), t \in Seq(Written) : Begins(x, w, t, Plainly)
      BY <2>2, CutStart
    <3>2. w \in Seq(Plainly) /\ x = w \o t /\ t # << >> /\ t[1] \notin Plainly
      BY <3>1 DEF Begins
    <3>3. t[1] = "nl"
      <4>1. 1 \in 1 .. Len(t)
        BY <3>1, <3>2, EmptySeq
      <4>2. t[1] \in Written
        BY <4>1, ElementOfSeq
      <4>. QED
        BY <3>2, <4>2 DEF Plainly
    <3>4. w # << >>
      <4>. SUFFICES ASSUME w = << >> PROVE FALSE
        OBVIOUS
      <4>1. x = t
        BY <3>1, <3>2, ConcatEmptySeq
      <4>. QED
        BY <1>2, <3>3, <4>1, Kinds
    <3>5. w[1] = x[1]
      <4>1. 1 \in 1 .. Len(w)
        BY <3>1, <3>4, EmptySeq
      <4>. QED
        BY <3>1, <3>2, <4>1, ConcatIs DEF Concat
    <3>6. s = (p \o w) \o t
      <4>1. Regrouped(p, w, t)
        BY Regroup, Zenon
      <4>. QED
        BY <1>2, <3>2, <4>1, Zenon DEF Regrouped
    <3>. QED
      BY <1>2, <3>2, <3>3, <3>4, <3>5, <3>6
  <2>. QED
    BY <2>1, <2>2
<1>4. PICK w \in Seq(Plainly), t \in Seq(Written) :
        /\ w # << >> /\ w[1] \notin Space /\ (t = << >> \/ t[1] = "nl")
        /\ s = (p \o w) \o t
  BY <1>3
<1>5. w \notin Seq(Space)
  <2>1. 1 \in 1 .. Len(w)
    BY <1>4, EmptySeq
  <2>. QED
    BY <1>4, <2>1, ElementOfSeq
<1>6. PICK m \in Seq(Plainly), q \in Seq(Plainly) : Ends(w, m, q, Space)
  BY <1>5, CutEnd
<1>7. Cuts(s, p, m, q, t)
  BY <1>2, <1>4, <1>6 DEF Ends, Cuts
<1>. QED
  BY <1>7

\* The newline behind a line takes at most a blank off of it.
LEMMA UnixLine ==
  ASSUME NEW m \in Seq(Written), m # << >>, m[Len(m)] \notin Space, NEW q \in Seq(Plainly), q \in Seq(Space)
  PROVE  \E v \in Seq(Plainly) : v \in Seq(Space) /\ UnixNext(m \o q, "nl") = Append(m \o v, "nl")
<1>0. m \in Seq(Written) /\ q \in Seq(Written) /\ m \o q \in Seq(Written) /\ << >> \in Seq(Space)
  BY Kinds, ConcatProperties, EmptySeq
<1>1. CASE q = << >>
  <2>1. m \o q = m
    BY <1>1, ConcatEmptySeq
  <2>2. m[Len(m)] # "cr"
    BY Kinds
  <2>3. UnixNext(m, "nl") = Append(m, "nl")
    BY <2>2 DEF UnixNext
  <2>. QED
    BY <1>1, <2>1, <2>3
<1>2. CASE q # << >>
  <2>1. PICK r \in Seq(Written), c \in Written : q = Append(r, c)
    BY <1>0, <1>2, SequenceEmptyOrAppend
  <2>. DEFINE w == m \o q
  <2>2. LastJoined(m, q, "nl")
    BY <1>0, <1>2, LastJoins, Kinds
  <2>3. q[Len(q)] = c
    BY <2>1, AppendProperties
  <2>4. w # << >> /\ w[Len(w)] = c /\ [w EXCEPT ![Len(w)] = "nl"] = m \o [q EXCEPT ![Len(q)] = "nl"]
    BY <2>2, <2>3, Zenon DEF LastJoined
  <2>5. CASE c = "cr"
    <3>1. UnixNext(w, "nl") = [w EXCEPT ![Len(w)] = "nl"]
      BY <2>4, <2>5, Zenon DEF UnixNext
    <3>2. q = r \o <<c>> /\ <<c>> \in Seq(Written)
      BY <2>1, AppendIsConcat
    <3>3. r \in Seq(Space) /\ r \in Seq(Plainly)
      BY <3>2, PartOf
    <3>4. LastIs(q, r, c, "nl")
      BY <3>2, LastOf, Kinds
    <3>5. r \o <<"nl">> = Append(r, "nl")
      BY <2>1, AppendIsConcat, Kinds
    <3>6. m \o Append(r, "nl") = Append(m \o r, "nl")
      BY <1>0, <2>1, ConcatAppend, Kinds
    <3>7. UnixNext(w, "nl") = Append(m \o r, "nl")
      BY <2>4, <3>1, <3>4, <3>5, <3>6, Zenon DEF LastIs
    <3>. QED
      BY <3>3, <3>7
  <2>6. CASE c # "cr"
    <3>1. UnixNext(w, "nl") = Append(w, "nl")
      BY <2>4, <2>6, Zenon DEF UnixNext
    <3>. QED
      BY <3>1
  <2>. QED
    BY <2>5, <2>6
<1>. QED
  BY <1>1, <1>2

\* The lines L of a text whose blank lines are F, and then y and w in one line.
LEMMA LinesAfter ==
  ASSUME NEW p \in Seq(Space)
  PROVE  \E F \in Seq(Seq(Space)), y \in Seq(Space) :
           \A w \in Seq(Plainly) : Split(Unix(p) \o w) = F \o <<y \o w>>
<1>1. Unix(p) \in Seq(Space)
  BY UnixIs DEF UnixLaws
<1>. DEFINE u == Unix(p)
            L == Split(u)
            Z == Seq(Space)
<1>2. L \in Lines0(Space)
  BY <1>1, SplitIs DEF SplitLaws
<1>3. L \in Seq(Z) /\ L # << >> /\ u \in Seq(Written)
  BY <1>1, <1>2, Kinds DEF Lines0
<1>. HIDE DEF u
<1>. HIDE DEF L, Z
<1>4. PICK F \in Seq(Z), y \in Z : L = Append(F, y)
  BY <1>3, SequenceEmptyOrAppend
<1>5. L = F \o <<y>>
  BY <1>4, AppendIsConcat
<1>6. Seq(Z) \subseteq Seq(Seq(Written)) /\ Z \subseteq Seq(Written)
  <2>1. Seq(Space) \subseteq Seq(Written)
    BY Kinds
  <2>. QED
    BY <2>1, SeqMonotonic DEF Z
<1>7. ASSUME NEW w \in Seq(Plainly) PROVE Split(u \o w) = F \o <<y \o w>>
  <2>1. w \in Seq(Written \ {"nl"}) /\ F \in Seq(Seq(Written)) /\ y \in Seq(Written)
    BY <1>6 DEF Plainly
  <2>2. Split(u) = F \o <<y>>
    BY <1>5 DEF L
  <2>. QED
    BY <1>3, <2>1, <2>2, SplitPlain
<1>. QED
  BY <1>7 DEF Z, u

LEMMA UnixAfter ==
  ASSUME NEW p \in Seq(Space), NEW w \in Seq(Plainly), w # << >>
  PROVE  Unix(p \o w) = Unix(p) \o w
<1>1. p \in Seq(Written) /\ w \in Seq(Written) /\ w \in Seq(Written \ {"nl"})
  BY Kinds DEF Plainly
<1>2. w[1] # "nl"
  <2>1. 1 \in 1 .. Len(w)
    BY EmptySeq
  <2>2. w[1] \in Plainly
    BY <2>1, ElementOfSeq
  <2>. QED
    BY <2>2 DEF Plainly
<1>3. Apart(Unix(p), w)
  BY <1>2 DEF Apart
<1>4. Unix(p \o w) = Unix(p) \o Unix(w)
  BY <1>1, <1>3, UnixConcat
<1>5. Unix(w) = w
  BY <1>1, UnixPlain
<1>. QED
  BY <1>4, <1>5, Zenon

\* The lines of a description: blank ones, its title's, with blanks around it,
\* and others.
Paged(L, F, y, m, v, R) ==
  /\ F \in Seq(Seq(Space)) /\ y \in Seq(Space) /\ v \in Seq(Space) /\ R \in Seq(Seq(Written))
  /\ L = (F \o <<(y \o m) \o v>>) \o R

LEMMA PagesAlone ==
  ASSUME NEW s, NEW p, NEW m, NEW q, NEW t, Cuts(s, p, m, q, t), t = << >>
  PROVE  \E F, y, v : Paged(Split(Unix(s)), F, y, m, v, << >>)
<1>. DEFINE w == m \o q
<1>1. /\ p \in Seq(Space) /\ m \in Seq(Plainly) /\ q \in Seq(Plainly) /\ q \in Seq(Space)
      /\ m # << >> /\ s = (p \o w) \o t
  BY DEF Cuts
<1>2. w \in Seq(Plainly) /\ w # << >> /\ m \in Seq(Written) /\ q \in Seq(Written) /\ p \in Seq(Written)
  BY <1>1, ConcatProperties, ConcatEqualIffEmpty, Kinds
<1>. HIDE DEF w
<1>3. s = p \o w
  BY <1>1, <1>2, Kinds, ConcatProperties, ConcatEmptySeq
<1>4. Unix(s) = Unix(p) \o w
  BY <1>1, <1>2, <1>3, UnixAfter
<1>5. PICK F \in Seq(Seq(Space)), y \in Seq(Space) :
        \A x \in Seq(Plainly) : Split(Unix(p) \o x) = F \o <<y \o x>>
  BY <1>1, LinesAfter
<1>6. Split(Unix(s)) = F \o <<y \o w>>
  BY <1>2, <1>4, <1>5
<1>7. y \in Seq(Written)
  BY Kinds
<1>8. (y \o m) \o q = y \o (m \o q)
  <2>1. y \in Seq(Written) /\ m \in Seq(Written) /\ q \in Seq(Written)
    BY <1>2, <1>7
  <2>2. Regrouped(y, m, q)
    BY <2>1, Regroup, Zenon
  <2>. QED
    BY <2>2, Zenon DEF Regrouped
<1>9. Split(Unix(s)) = F \o <<(y \o m) \o q>>
  BY <1>6, <1>8, Zenon DEF w
<1>. DEFINE z == (y \o m) \o q
            Z == Seq(Written)
<1>10. z \in Z /\ F \in Seq(Z)
  <2>1. Seq(Space) \subseteq Seq(Written)
    BY Kinds
  <2>2. F \in Seq(Z)
    BY <2>1, SeqMonotonic
  <2>. QED
    BY <1>2, <1>7, <2>2, ConcatProperties
<1>. HIDE DEF z, Z
<1>11. F \o <<z>> \in Seq(Z) /\ << >> \in Seq(Z)
  BY <1>10, ConcatProperties, EmptySeq
<1>12. (F \o <<z>>) \o << >> = F \o <<z>>
  BY <1>11, ConcatEmptySeq
<1>13. Split(Unix(s)) = (F \o <<(y \o m) \o q>>) \o << >>
  BY <1>9, <1>12, Zenon DEF z
<1>. QED
  BY <1>1, <1>11, <1>13 DEF Paged, Z

LEMMA PagesMore ==
  ASSUME NEW s, NEW p, NEW m, NEW q, NEW t, Cuts(s, p, m, q, t), NEW r \in Seq(Written),
         t = <<"nl">> \o r
  PROVE  \E F, y, v : Paged(Split(Unix(s)), F, y, m, v, Split(Unix(r)))
<1>. DEFINE w == m \o q
            n == Append(p \o w, "nl")
            u == Unix(p)
            C == Written
<1>1. /\ p \in Seq(Space) /\ m \in Seq(Plainly) /\ q \in Seq(Plainly) /\ q \in Seq(Space)
      /\ m # << >> /\ s = (p \o w) \o t /\ m[Len(m)] \notin Space /\ "nl" \in C
  BY Kinds DEF Cuts
<1>2. /\ w \in Seq(Plainly) /\ w \in Seq(C) /\ w # << >> /\ m \in Seq(C) /\ q \in Seq(C)
      /\ p \in Seq(C) /\ p \o w \in Seq(C) /\ <<"nl">> \in Seq(C)
  BY <1>1, ConcatProperties, ConcatEqualIffEmpty, Kinds
<1>3. u \in Seq(C) /\ u \o m \in Seq(C) /\ Unix(r) \in Seq(C)
  BY <1>2, UnixIs, ConcatProperties DEF UnixLaws
<1>4. s = n \o r /\ n \in Seq(C)
  <2>1. n = (p \o w) \o <<"nl">>
    BY <1>1, <1>2, AppendIsConcat
  <2>2. ((p \o w) \o <<"nl">>) \o r = (p \o w) \o (<<"nl">> \o r)
    <3>1. p \o w \in Seq(C) /\ <<"nl">> \in Seq(C) /\ r \in Seq(C)
      BY <1>2
    <3>2. Regrouped(p \o w, <<"nl">>, r)
      BY <3>1, Regroup, Zenon
    <3>. QED
      BY <3>2, Zenon DEF Regrouped
  <2>3. n \in Seq(C)
    BY <1>1, <1>2, AppendProperties
  <2>4. s = n \o r
    BY <1>1, <2>1, <2>2, Zenon
  <2>. QED
    BY <2>3, <2>4
<1>. HIDE DEF w
<1>5. Unix(p \o w) = u \o w
  BY <1>1, <1>2, UnixAfter
<1>. HIDE DEF u, C
<1>6. Unix(n) = UnixNext(u \o w, "nl")
  BY <1>1, <1>2, <1>5, UnixIs DEF UnixLaws
<1>7. u \o w = (u \o m) \o q
  <2>0. u \in Seq(C) /\ m \in Seq(C) /\ q \in Seq(C)
    BY <1>2, <1>3
  <2>1. u \o (m \o q) = (u \o m) \o q
    <3>1. Regrouped(u, m, q)
      BY <2>0, Regroup, Zenon
    <3>. QED
      BY <3>1, Zenon DEF Regrouped
  <2>. QED
    BY <2>1, Zenon DEF w
<1>8. u \o m # << >> /\ (u \o m)[Len(u \o m)] \notin Space
  <2>1. LastJoined(u, m, "nl")
    BY <1>1, <1>2, <1>3, LastJoins
  <2>. QED
    BY <1>1, <2>1, Zenon DEF LastJoined
<1>9. PICK v \in Seq(Plainly) : v \in Seq(Space) /\ UnixNext((u \o m) \o q, "nl") = Append((u \o m) \o v, "nl")
  <2>. DEFINE x == u \o m
  <2>1. x \in Seq(Written) /\ x # << >> /\ x[Len(x)] \notin Space
    BY <1>3, <1>8 DEF C
  <2>. HIDE DEF x
  <2>2. \E v \in Seq(Plainly) : v \in Seq(Space) /\ UnixNext(x \o q, "nl") = Append(x \o v, "nl")
    BY <1>1, <2>1, UnixLine
  <2>. QED
    BY <2>2 DEF x
<1>10. v \in Seq(C) /\ m \o v \in Seq(Plainly) /\ m \o v \in Seq(C)
  BY <1>1, <1>2, Kinds, ConcatProperties DEF C
<1>11. (u \o m) \o v = u \o (m \o v) /\ u \o (m \o v) \in Seq(C)
  <2>1. (u \o m) \o v = u \o (m \o v)
    <3>1. u \in Seq(C) /\ m \in Seq(C) /\ v \in Seq(C)
      BY <1>2, <1>3, <1>10
    <3>2. Regrouped(u, m, v)
      BY <3>1, Regroup, Zenon
    <3>. QED
      BY <3>2, Zenon DEF Regrouped
  <2>2. u \o (m \o v) \in Seq(C)
    BY <1>3, <1>10, ConcatProperties
  <2>. QED
    BY <2>1, <2>2, Zenon
<1>. DEFINE x == u \o (m \o v)
<1>12. Unix(n) = Append(x, "nl")
  BY <1>6, <1>7, <1>9, <1>11, Zenon
<1>. HIDE DEF n
<1>13. Unix(s) = Unix(n) \o Unix(r)
  <2>1. Unix(n)[Len(Unix(n))] = "nl"
    <3>1. x \in Seq(C)
      BY <1>11
    <3>. HIDE DEF x
    <3>2. Append(x, "nl")[Len(Append(x, "nl"))] = "nl"
      BY <1>1, <3>1, AppendProperties
    <3>. QED
      BY <1>12, <3>2, Zenon
  <2>2. Apart(Unix(n), r)
    BY <2>1 DEF Apart
  <2>3. Unix(n \o r) = Unix(n) \o Unix(r)
    BY <1>4, <2>2, UnixConcat DEF C
  <2>. QED
    BY <1>4, <2>3, Zenon
<1>14. Split(Unix(s)) = Split(x) \o Split(Unix(r))
  <2>1. x \in Seq(C)
    BY <1>11
  <2>. HIDE DEF x
  <2>2. Split(Append(x, "nl") \o Unix(r)) = Split(x) \o Split(Unix(r))
    BY <1>1, <1>3, <2>1, SplitNewline
  <2>. QED
    BY <1>12, <1>13, <2>2, Zenon
<1>15. PICK F \in Seq(Seq(Space)), y \in Seq(Space) :
         \A z \in Seq(Plainly) : Split(Unix(p) \o z) = F \o <<y \o z>>
  BY <1>1, LinesAfter
<1>16. Split(x) = F \o <<y \o (m \o v)>>
  BY <1>10, <1>15 DEF u
<1>17. (y \o m) \o v = y \o (m \o v)
  <2>1. y \in Seq(C) /\ m \in Seq(C) /\ v \in Seq(C)
    BY <1>2, <1>10, Kinds DEF C
  <2>2. Regrouped(y, m, v)
    BY <2>1, Regroup, Zenon
  <2>. QED
    BY <2>2, Zenon DEF Regrouped
<1>18. Split(Unix(r)) \in Seq(Seq(Written))
  BY <1>3, SplitIs DEF SplitLaws, Lines0, C
<1>19. Split(Unix(s)) = (F \o <<(y \o m) \o v>>) \o Split(Unix(r))
  BY <1>14, <1>16, <1>17, Zenon
<1>20. Paged(Split(Unix(s)), F, y, m, v, Split(Unix(r)))
  BY <1>9, <1>18, <1>19, Zenon DEF Paged
<1>. QED
  BY <1>20

LEMMA TrimIs ==
  ASSUME NEW m \in Seq(Written), NEW s, NEW a, NEW b, Framed(s, a, m, b, Space)
  PROVE  Trim(s) = m
<1>1. a \in Seq(Written) /\ b \in Seq(Written)
  BY Kinds DEF Framed
<1>. QED
  BY <1>1, TrimmedIs DEF Trim

LEMMA TrimBlank == ASSUME NEW s \in Seq(Space) PROVE Trim(s) = << >>
BY TrimNone DEF Trim

LEMMA PagesTitle ==
  ASSUME NEW L, NEW F, NEW y, NEW m, NEW v, NEW R, Paged(L, F, y, m, v, R),
         m \in Seq(Written), m # << >>, m[1] \notin Space, m[Len(m)] \notin Space
  PROVE  /\ TitleLine(L) <= Len(L) /\ Trim(L[TitleLine(L)]) = m
         /\ SubSeq(L, TitleLine(L) + 1, Len(L)) = R
<1>. DEFINE z == (y \o m) \o v
            Z == Seq(Written)
            k == Len(F) + 1
            inked == {j \in DOMAIN L : Trim(L[j]) # << >>}
<1>1. /\ F \in Seq(Seq(Space)) /\ y \in Seq(Space) /\ v \in Seq(Space) /\ R \in Seq(Z)
      /\ L = (F \o <<z>>) \o R
  BY DEF Paged
<1>2. y \in Seq(Written) /\ v \in Seq(Written)
  BY <1>1, Kinds
<1>3. Trim(z) = m
  <2>1. Framed(z, y, m, v, Space)
    BY <1>1 DEF Framed
  <2>. QED
    BY <2>1, TrimIs
<1>4. z \in Z /\ F \in Seq(Z)
  <2>1. Seq(Space) \subseteq Seq(Written)
    BY Kinds
  <2>2. F \in Seq(Z)
    BY <1>1, <2>1, SeqMonotonic
  <2>. QED
    BY <1>2, <2>2, ConcatProperties
<1>. HIDE DEF z, Z
<1>5. <<z>> \in Seq(Z) /\ Len(<<z>>) = 1 /\ <<z>>[1] = z
  BY <1>4
<1>6. L \in Seq(Z) /\ Around(L, F, <<z>>, R)
  BY <1>1, <1>4, <1>5, PlacesAround
<1>7. Len(F) \in Nat /\ Len(R) \in Nat /\ Len(L) = Len(F) + 1 + Len(R) /\ DOMAIN L = 1 .. Len(L)
  BY <1>5, <1>6 DEF Around
<1>8. L[k] = z /\ k \in DOMAIN L /\ k \in Nat
  <2>1. 1 \in 1 .. Len(<<z>>)
    BY <1>5
  <2>. QED
    BY <1>5, <1>6, <1>7, <2>1 DEF Around
<1>9. ASSUME NEW j \in 1 .. Len(F) PROVE Trim(L[j]) = << >>
  <2>1. L[j] = F[j] /\ F[j] \in Seq(Space)
    BY <1>1, <1>6, ElementOfSeq DEF Around
  <2>. QED
    BY <2>1, TrimBlank
<1>10. k \in inked
  BY <1>3, <1>8
<1>11. inked \in SUBSET Nat /\ \A j \in inked : k <= j
  <2>1. \A j \in inked : j \in 1 .. Len(L) /\ j \notin 1 .. Len(F)
    BY <1>7, <1>9
  <2>. QED
    BY <1>7, <2>1
<1>. HIDE DEF inked, k
<1>12. Least(inked) = k
  BY <1>10, <1>11, LeastIs
<1>13. TitleLine(L) = k
  BY <1>10, <1>12 DEF TitleLine, inked
<1>14. SubSeq(L, k + 1, Len(L)) = R
  <2>. DEFINE a == F \o <<z>>
  <2>1. a \in Seq(Z) /\ Concat(a, F, <<z>>)
    BY <1>4, <1>5, ConcatIs
  <2>2. L = a \o R
    BY <1>1
  <2>. HIDE DEF a
  <2>3. L \in Seq(Z) /\ L = (a \o R) \o << >> /\ << >> \in Seq(Z)
    BY <1>6, <2>2, ConcatEmptySeq, EmptySeq
  <2>4. k + 1 = Len(a) + 1 /\ Len(L) = Len(a) + Len(R)
    BY <1>5, <1>7, <2>1 DEF k, Concat
  <2>. QED
    BY <1>1, <2>1, <2>3, <2>4, MiddleIs
<1>15. k <= Len(L)
  BY <1>7, <1>8
<1>16. Trim(L[k]) = m
  BY <1>3, <1>8
<1>. QED
  BY <1>13, <1>14, <1>15, <1>16, Zenon

LEMMA BlankPages ==
  ASSUME NEW s \in Seq(Space)
  PROVE  /\ TitleLine(Split(Unix(s))) = Len(Split(Unix(s))) + 1
         /\ Len(Split(Unix(s))) \in Nat
<1>. DEFINE L == Split(Unix(s))
<1>1. L \in Seq(Seq(Space))
  BY UnixIs, SplitIs DEF UnixLaws, SplitLaws, Lines0
<1>. HIDE DEF L
<1>2. \A j \in DOMAIN L : Trim(L[j]) = << >>
  BY <1>1, LenProperties, ElementOfSeq, TrimBlank
<1>3. TitleLine(L) = Len(L) + 1
  BY <1>2 DEF TitleLine
<1>4. Len(L) \in Nat
  BY <1>1, LenProperties
<1>. QED
  BY <1>3, <1>4 DEF L

LEMMA FramedExists ==
  ASSUME NEW s \in Seq(Written), s \notin Seq(Space)
  PROVE  \E a, c, b \in Seq(Written) : Framed(s, a, b, c, Space)
<1>1. PICK a \in Seq(Written), x \in Seq(Written) : Begins(s, a, x, Space)
  BY CutStart
<1>2. a \in Seq(Space) /\ s = a \o x /\ x # << >> /\ x[1] \notin Space
  BY <1>1 DEF Begins
<1>3. x \notin Seq(Space)
  <2>1. 1 \in 1 .. Len(x)
    BY <1>2, EmptySeq
  <2>. QED
    BY <1>2, <2>1, ElementOfSeq
<1>4. PICK b \in Seq(Written), c \in Seq(Written) : Ends(x, b, c, Space)
  BY <1>3, CutEnd
<1>5. c \in Seq(Space) /\ x = b \o c /\ b # << >> /\ b[Len(b)] \notin Space /\ b[1] = x[1]
  BY <1>4 DEF Ends
<1>6. a \o (b \o c) = (a \o b) \o c
  <2>1. Regrouped(a, b, c)
    BY Regroup, Zenon
  <2>. QED
    BY <2>1, Zenon DEF Regrouped
<1>7. s = (a \o b) \o c
  BY <1>2, <1>5, <1>6, Zenon
<1>8. Framed(s, a, b, c, Space)
  BY <1>2, <1>5, <1>7 DEF Framed
<1>. QED
  BY <1>8

LEMMA UnixBegin ==
  ASSUME NEW b \in Seq(Written), b # << >>, b[1] \notin Space
  PROVE  Unix(b) \in Seq(Written) /\ Unix(b) # << >> /\ Unix(b)[1] = b[1]
<1>1. Len(b) \in Nat /\ 1 \in 1 .. Len(b) /\ Len(b) \in 1 .. Len(b) /\ b[1] \in Written
  BY EmptySeq, ElementOfSeq
<1>. DEFINE x == <<b[1]>>
            y == SubSeq(b, 2, Len(b))
<1>2. b = x \o y
  <2>1. SubSeq(b, 1, Len(b)) = <<b[1]>> \o SubSeq(b, 1 + 1, Len(b))
    BY <1>1, SubSeqRecursiveFirst
  <2>. QED
    BY <2>1, SubSeqFull
<1>3. y \in Seq(Written)
  <2>1. \A i \in 2 .. Len(b) : b[i] \in Written
    BY <1>1, ElementOfSeq
  <2>. QED
    BY <1>1, <2>1, SubSeqProperties
<1>4. x \in Seq(Plainly) /\ x \in Seq(Written) /\ Len(x) = 1 /\ x[1] = b[1] /\ b[1] # "cr"
  BY <1>1, Kinds
<1>. HIDE DEF x, y
<1>5. Unix(x) = x
  BY <1>4, UnixPlain DEF Plainly
<1>6. Apart(Unix(x), y)
  BY <1>4, <1>5 DEF Apart
<1>7. Unix(b) = x \o Unix(y)
  <2>1. Unix(x \o y) = Unix(x) \o Unix(y)
    BY <1>3, <1>4, <1>6, UnixConcat
  <2>. QED
    BY <1>2, <1>5, <2>1, Zenon
<1>8. Unix(y) \in Seq(Written)
  BY <1>3, UnixIs DEF UnixLaws
<1>. DEFINE z == Unix(y)
<1>9. x \o z \in Seq(Written) /\ Concat(x \o z, x, z)
  <2>1. z \in Seq(Written)
    BY <1>8
  <2>. HIDE DEF z
  <2>. QED
    BY <1>4, <2>1, ConcatIs
<1>. DEFINE e == x \o z
<1>10. Len(e) > 0 /\ e[1] = x[1]
  <2>. HIDE DEF e
  <2>1. Concat(e, x, z)
    BY <1>9 DEF e
  <2>2. 1 \in 1 .. Len(x)
    BY <1>4
  <2>. QED
    BY <1>4, <2>1, <2>2 DEF Concat
<1>11. e # << >>
  BY <1>10, EmptySeq
<1>. QED
  BY <1>4, <1>7, <1>9, <1>10, <1>11, Zenon

LEMMA TrimUnix ==
  ASSUME NEW s, NEW a, NEW b \in Seq(Written), NEW c, Framed(s, a, b, c, Space)
  PROVE  Trim(Unix(s)) = Unix(b)
<1>1. /\ a \in Seq(Space) /\ b \in Seq(Written) /\ c \in Seq(Space) /\ s = (a \o b) \o c
      /\ b # << >> /\ b[1] \notin Space /\ b[Len(b)] \notin Space
  BY DEF Framed
<1>2. a \in Seq(Written) /\ c \in Seq(Written) /\ a \o b \in Seq(Written)
  BY <1>1, Kinds, ConcatProperties
<1>3. Unix(a) \in Seq(Space) /\ Unix(c) \in Seq(Space)
  BY <1>1, UnixIs DEF UnixLaws
<1>4. Unix(a) \in Seq(Written) /\ Unix(c) \in Seq(Written)
  BY <1>3, Kinds
<1>5. Unix(b) \in Seq(Written) /\ Unix(b) # << >> /\ Unix(b)[1] = b[1] /\ Unix(b)[Len(Unix(b))] = b[Len(b)]
  BY <1>1, UnixBegin, UnixEnd
<1>6. Unix(a \o b) = Unix(a) \o Unix(b)
  <2>1. b[1] # "nl"
    BY <1>1, Kinds
  <2>2. Apart(Unix(a), b)
    BY <2>1 DEF Apart
  <2>. QED
    BY <1>1, <1>2, <2>2, UnixConcat
<1>7. Unix(s) = (Unix(a) \o Unix(b)) \o Unix(c)
  <2>. DEFINE x == a \o b
  <2>1. x # << >> /\ x[Len(x)] = b[Len(b)]
    <3>1. LastJoined(a, b, "nl")
      BY <1>1, <1>2, LastJoins, Kinds
    <3>. QED
      BY <3>1, Zenon DEF LastJoined
  <2>2. x \in Seq(Written)
    BY <1>2
  <2>3. s = x \o c
    BY <1>1
  <2>. HIDE DEF x
  <2>4. Unix(x)[Len(Unix(x))] = b[Len(b)] /\ b[Len(b)] # "cr"
    BY <1>1, <2>1, <2>2, UnixEnd, Kinds
  <2>5. Apart(Unix(x), c)
    BY <2>4 DEF Apart
  <2>6. Unix(x \o c) = Unix(x) \o Unix(c)
    BY <1>2, <2>2, <2>5, UnixConcat
  <2>. QED
    BY <1>6, <2>3, <2>6, Zenon DEF x
<1>. DEFINE d == Unix(a)
            e == Unix(b)
            f == Unix(c)
            u == Unix(s)
<1>8. /\ d \in Seq(Written) /\ e \in Seq(Written) /\ f \in Seq(Written) /\ u = (d \o e) \o f
      /\ d \in Seq(Space) /\ f \in Seq(Space) /\ e # << >> /\ e[1] \notin Space /\ e[Len(e)] \notin Space
  BY <1>1, <1>3, <1>4, <1>5, <1>7
<1>. HIDE DEF d, e, f, u
<1>9. Trim(u) = e
  <2>1. Framed(u, d, e, f, Space)
    BY <1>8 DEF Framed
  <2>. QED
    BY <1>8, <2>1, TrimIs
<1>. QED
  BY <1>9 DEF u, e

\* What the parser makes of the lines of a description.
Sees(s, title, body) ==
  LET L == Split(Unix(s))
      k == TitleLine(L)
  IN k <= Len(L) /\ ParseTitle(L[k]) = title /\ ParseBody(SubSeq(L, k + 1, Len(L))) = body

Marks == {"#", "sp"}

LEMMA PagesSeen ==
  ASSUME NEW s, NEW F, NEW y, NEW m, NEW v, NEW R, Paged(Split(Unix(s)), F, y, m, v, R),
         m \in Seq(Written), m # << >>, m[1] \notin Space, m[Len(m)] \notin Space
  PROVE  Sees(s, TrimStart(m, Marks), Trim(Join(R)))
<1>. DEFINE L == Split(Unix(s))
            k == TitleLine(L)
<1>1. k <= Len(L) /\ Trim(L[k]) = m /\ SubSeq(L, k + 1, Len(L)) = R
  BY PagesTitle
<1>2. ParseTitle(L[k]) = TrimStart(m, Marks)
  BY <1>1 DEF ParseTitle, Marks
<1>3. ParseBody(SubSeq(L, k + 1, Len(L))) = Trim(Join(R))
  BY <1>1 DEF ParseBody
<1>. QED
  BY <1>1, <1>2, <1>3 DEF Sees

LEMMA SeesAlone ==
  ASSUME NEW s, NEW p, NEW m, NEW q, NEW t, Cuts(s, p, m, q, t), t = << >>
  PROVE  Sees(s, TrimStart(m, Marks), << >>)
<1>1. m \in Seq(Written) /\ m # << >> /\ m[1] \notin Space /\ m[Len(m)] \notin Space
  BY Kinds DEF Cuts
<1>2. PICK F, y, v : Paged(Split(Unix(s)), F, y, m, v, << >>)
  BY PagesAlone
<1>3. Trim(Join(<< >>)) = << >>
  <2>1. Lined(<< >>) = << >>
    BY Kinds, LinedIs DEF LinedLaws
  <2>2. << >> \in Seq(Space) /\ Len(<< >>) = 0
    BY EmptySeq
  <2>3. SubSeq(<< >>, 2, 0) = << >>
    BY SubSeqEmpty
  <2>4. Join(<< >>) = << >>
    BY <2>1, <2>2, <2>3 DEF Join
  <2>. QED
    BY <2>2, <2>4, TrimBlank
<1>4. Sees(s, TrimStart(m, Marks), Trim(Join(<< >>)))
  BY <1>1, <1>2, PagesSeen
<1>. QED
  BY <1>3, <1>4, Zenon

LEMMA SeesMore ==
  ASSUME NEW s, NEW p, NEW m, NEW q, NEW t, Cuts(s, p, m, q, t), NEW r \in Seq(Written),
         t = <<"nl">> \o r
  PROVE  Sees(s, TrimStart(m, Marks), Trim(Unix(r)))
<1>1. m \in Seq(Written) /\ m # << >> /\ m[1] \notin Space /\ m[Len(m)] \notin Space
  BY Kinds DEF Cuts
<1>2. PICK F, y, v : Paged(Split(Unix(s)), F, y, m, v, Split(Unix(r)))
  BY PagesMore
<1>3. Join(Split(Unix(r))) = Unix(r)
  <2>1. Unix(r) \in Seq(Written)
    BY UnixIs DEF UnixLaws
  <2>. QED
    BY <2>1, JoinSplit, Kinds
<1>4. Sees(s, TrimStart(m, Marks), Trim(Join(Split(Unix(r)))))
  BY <1>1, <1>2, PagesSeen
<1>. QED
  BY <1>3, <1>4, Zenon

-----------------------------------------------------------------------------
(* Descriptions: what is written.                                          *)

LEMMA CutsAround ==
  ASSUME NEW s, NEW p, NEW m, NEW q, NEW t, Cuts(s, p, m, q, t)
  PROVE  /\ s \in Seq(Written) /\ Around(s, p, m \o q, t)
         /\ Concat(m \o q, m, q) /\ m \o q \in Seq(Plainly)
         /\ Len(m) \in Nat /\ Len(m) > 0 /\ Len(q) \in Nat
<1>1. /\ p \in Seq(Written) /\ m \in Seq(Plainly) /\ q \in Seq(Plainly) /\ t \in Seq(Written)
      /\ s = (p \o (m \o q)) \o t /\ m # << >>
  BY Kinds DEF Cuts
<1>. DEFINE w == m \o q
<1>2. w \in Seq(Plainly) /\ Concat(w, m, q)
  BY <1>1, ConcatIs
<1>3. w \in Seq(Written) /\ s = (p \o w) \o t
  BY <1>1, <1>2, Kinds
<1>. HIDE DEF w
<1>4. s \in Seq(Written) /\ Around(s, p, w, t)
  BY <1>1, <1>3, PlacesAround
<1>5. Len(m) \in Nat /\ Len(m) > 0 /\ Len(q) \in Nat
  BY <1>1, EmptySeq, LenProperties
<1>. QED
  BY <1>2, <1>4, <1>5 DEF w

\* The places of the parts.
Placed(s, p, m, q, t) ==
  /\ Len(p) \in Nat /\ Len(m) \in Nat /\ Len(q) \in Nat /\ Len(t) \in Nat /\ Len(m) > 0
  /\ Len(s) = Len(p) + Len(m) + Len(q) + Len(t) /\ DOMAIN s = 1 .. Len(s)
  /\ \A i \in 1 .. Len(p) : s[i] \in Space
  /\ \A i \in 1 .. Len(m) : s[Len(p) + i] = m[i]
  /\ \A i \in (Len(p) + 1) .. (Len(p) + Len(m) + Len(q)) : s[i] # "nl"
  /\ \A i \in (Len(p) + Len(m) + 1) .. (Len(p) + Len(m) + Len(q)) : s[i] \in Space
  /\ \A i \in 1 .. Len(t) : s[Len(p) + Len(m) + Len(q) + i] = t[i]

LEMMA CutsPlaced ==
  ASSUME NEW s, NEW p, NEW m, NEW q, NEW t, Cuts(s, p, m, q, t)
  PROVE  Placed(s, p, m, q, t)
<1>. DEFINE w == m \o q
<1>0. p \in Seq(Space) /\ q \in Seq(Space)
  BY DEF Cuts
<1>1. /\ Around(s, p, w, t) /\ Concat(w, m, q) /\ w \in Seq(Plainly)
      /\ Len(m) \in Nat /\ Len(m) > 0 /\ Len(q) \in Nat
  BY CutsAround
<1>. HIDE DEF w
<1>2. Len(p) \in Nat /\ Len(w) = Len(m) + Len(q) /\ Len(t) \in Nat
  BY <1>1 DEF Around, Concat
<1>3. \A i \in 1 .. Len(p) : s[i] \in Space
  BY <1>0, <1>1, ElementOfSeq DEF Around
<1>4. \A i \in 1 .. Len(w) : s[Len(p) + i] = w[i]
  BY <1>1 DEF Around
<1>5. ASSUME NEW i \in 1 .. Len(m) PROVE s[Len(p) + i] = m[i]
  <2>1. i \in 1 .. Len(w)
    BY <1>1, <1>2
  <2>. QED
    BY <1>1, <1>4, <2>1 DEF Concat
<1>6. ASSUME NEW i \in (Len(p) + 1) .. (Len(p) + Len(m) + Len(q)) PROVE s[i] # "nl"
  <2>1. i - Len(p) \in 1 .. Len(w) /\ Len(p) + (i - Len(p)) = i
    BY <1>1, <1>2
  <2>2. s[i] = w[i - Len(p)] /\ w[i - Len(p)] \in Plainly
    BY <1>1, <1>4, <2>1, ElementOfSeq
  <2>. QED
    BY <2>2 DEF Plainly
<1>7. ASSUME NEW i \in (Len(p) + Len(m) + 1) .. (Len(p) + Len(m) + Len(q)) PROVE s[i] \in Space
  <2>1. /\ i - Len(p) \in 1 .. Len(w) /\ Len(p) + (i - Len(p)) = i
        /\ (i - Len(p)) - Len(m) \in 1 .. Len(q) /\ Len(m) + ((i - Len(p)) - Len(m)) = i - Len(p)
    BY <1>1, <1>2
  <2>2. s[i] = w[i - Len(p)] /\ w[i - Len(p)] = q[(i - Len(p)) - Len(m)]
    BY <1>1, <1>4, <2>1 DEF Concat
  <2>3. q[(i - Len(p)) - Len(m)] \in Space
    BY <1>0, <2>1, ElementOfSeq
  <2>. QED
    BY <2>2, <2>3
<1>8. \A i \in 1 .. Len(t) : s[Len(p) + Len(m) + Len(q) + i] = t[i]
  <2>1. Len(p) + Len(w) = Len(p) + Len(m) + Len(q)
    BY <1>1, <1>2
  <2>2. \A i \in 1 .. Len(t) : s[Len(p) + Len(w) + i] = t[i]
    BY <1>1 DEF Around
  <2>. QED
    BY <2>1, <2>2
<1>9. Len(s) = Len(p) + Len(m) + Len(q) + Len(t) /\ DOMAIN s = 1 .. Len(s)
  BY <1>1, <1>2 DEF Around
<1>. QED
  BY <1>1, <1>2, <1>3, <1>5, <1>6, <1>7, <1>8, <1>9 DEF Placed

LEMMA TitleEndIs ==
  ASSUME NEW s, NEW p, NEW m, NEW q, NEW t, Cuts(s, p, m, q, t)
  PROVE  TitleEnd(s) = Len(p) + Len(m) + Len(q) + 1
<1>. DEFINE ink == {i \in DOMAIN s : s[i] \notin Space}
            first == Len(p) + 1
            line == {i \in DOMAIN s : i > first /\ s[i] = "nl"}
            end == Len(p) + Len(m) + Len(q) + 1
<1>1. Placed(s, p, m, q, t) /\ m[1] \notin Space /\ (t = << >> \/ t[1] = "nl") /\ t \in Seq(Written)
  BY CutsPlaced DEF Cuts
<1>2. /\ Len(p) \in Nat /\ Len(m) \in Nat /\ Len(q) \in Nat /\ Len(t) \in Nat /\ Len(m) > 0
      /\ Len(s) = Len(p) + Len(m) + Len(q) + Len(t) /\ DOMAIN s = 1 .. Len(s)
  BY <1>1 DEF Placed
<1>3. first \in ink
  <2>1. 1 \in 1 .. Len(m) /\ first \in DOMAIN s
    BY <1>2
  <2>2. s[Len(p) + 1] = m[1]
    BY <1>1, <2>1 DEF Placed
  <2>. QED
    BY <1>1, <2>1, <2>2
<1>4. ASSUME NEW j \in ink PROVE j \in Nat /\ first <= j
  <2>1. j \in 1 .. Len(s) /\ j \notin 1 .. Len(p)
    BY <1>1, <1>2 DEF Placed
  <2>. QED
    BY <1>2, <2>1
<1>5. Least(ink) = first
  <2>. HIDE DEF ink, first
  <2>1. ink \in SUBSET Nat /\ \A j \in ink : first <= j
    BY <1>4
  <2>. QED
    BY <1>3, <2>1, LeastIs
<1>6. TitleEnd(s) = IF line = {} THEN Len(s) + 1 ELSE Least(line)
  BY <1>5 DEF TitleEnd
<1>7. ASSUME NEW j \in line PROVE j \in Nat /\ end <= j /\ t # << >>
  <2>1. j \in 1 .. Len(s) /\ j > first /\ s[j] = "nl"
    BY <1>2
  <2>2. j \notin (Len(p) + 1) .. (Len(p) + Len(m) + Len(q))
    BY <1>1, <2>1 DEF Placed
  <2>3. end <= j
    BY <1>2, <2>1, <2>2
  <2>4. Len(t) # 0
    BY <1>2, <2>1, <2>3
  <2>. QED
    BY <2>1, <2>3, <2>4, EmptySeq
<1>8. CASE t = << >>
  <2>1. line = {}
    BY <1>7, <1>8
  <2>2. Len(t) = 0
    BY <1>8, EmptySeq
  <2>3. Len(s) + 1 = end
    BY <1>2, <2>2
  <2>. HIDE DEF line, end
  <2>4. TitleEnd(s) = end
    BY <1>6, <2>1, <2>3
  <2>. QED
    BY <2>4 DEF end
<1>9. CASE t # << >>
  <2>1. 1 \in 1 .. Len(t)
    BY <1>1, <1>9, EmptySeq
  <2>2. s[end] = "nl"
    BY <1>1, <1>9, <2>1 DEF Placed
  <2>3. end \in DOMAIN s /\ end > first
    BY <1>2, <2>1
  <2>4. end \in line
    BY <2>2, <2>3
  <2>. HIDE DEF line, end
  <2>5. line \in SUBSET Nat /\ \A j \in line : end <= j
    BY <1>7
  <2>6. Least(line) = end
    BY <2>4, <2>5, LeastIs
  <2>7. TitleEnd(s) = end
    BY <1>6, <2>4, <2>6
  <2>. QED
    BY <2>7 DEF end
<1>. QED
  BY <1>8, <1>9

TitleInk(s) == {i \in DOMAIN s : s[i] \notin Space /\ i < TitleEnd(s)}

LEMMA TitleInkIs ==
  ASSUME NEW s, NEW p, NEW m, NEW q, NEW t, Cuts(s, p, m, q, t)
  PROVE  Least(TitleInk(s)) = Len(p) + 1 /\ Greatest(TitleInk(s)) = Len(p) + Len(m)
<1>. DEFINE ink == TitleInk(s)
            lo == Len(p) + 1
            hi == Len(p) + Len(m)
<1>1. Placed(s, p, m, q, t) /\ m[1] \notin Space /\ m[Len(m)] \notin Space
  BY CutsPlaced DEF Cuts
<1>2. /\ Len(p) \in Nat /\ Len(m) \in Nat /\ Len(q) \in Nat /\ Len(t) \in Nat /\ Len(m) > 0
      /\ Len(s) = Len(p) + Len(m) + Len(q) + Len(t) /\ DOMAIN s = 1 .. Len(s)
  BY <1>1 DEF Placed
<1>3. TitleEnd(s) = Len(p) + Len(m) + Len(q) + 1
  BY TitleEndIs
<1>4. lo \in ink /\ hi \in ink
  <2>1. 1 \in 1 .. Len(m) /\ Len(m) \in 1 .. Len(m) /\ lo \in DOMAIN s /\ hi \in DOMAIN s
    BY <1>2
  <2>2. s[lo] = m[1] /\ s[hi] = m[Len(m)]
    BY <1>1, <2>1 DEF Placed
  <2>3. lo < TitleEnd(s) /\ hi < TitleEnd(s)
    BY <1>2, <1>3
  <2>. QED
    BY <1>1, <2>1, <2>2, <2>3 DEF TitleInk
<1>5. ASSUME NEW j \in ink PROVE j \in Nat /\ lo <= j /\ hi >= j
  <2>1. j \in 1 .. Len(s) /\ s[j] \notin Space /\ j < TitleEnd(s)
    BY <1>2 DEF TitleInk
  <2>2. j \notin 1 .. Len(p)
    BY <1>1, <2>1 DEF Placed
  <2>3. j \notin (Len(p) + Len(m) + 1) .. (Len(p) + Len(m) + Len(q))
    BY <1>1, <2>1 DEF Placed
  <2>. QED
    BY <1>2, <1>3, <2>1, <2>2, <2>3
<1>. HIDE DEF ink, lo, hi
<1>6. ink \in SUBSET Nat
  BY <1>5
<1>7. Least(ink) = lo
  BY <1>4, <1>5, <1>6, LeastIs
<1>8. Greatest(ink) = hi
  BY <1>4, <1>5, <1>6, GreatestIs
<1>. QED
  BY <1>7, <1>8 DEF ink, lo, hi

LEMMA TitleWrittenIs ==
  ASSUME NEW s, NEW p, NEW m, NEW q, NEW t, Cuts(s, p, m, q, t)
  PROVE  TitleWritten(s) = TrimStart(m, Marks)
<1>. DEFINE lo == Len(p) + 1
            hi == Len(p) + Len(m)
            said == {i \in lo .. hi : s[i] \notin {"#", "sp"}}
<1>1. /\ Placed(s, p, m, q, t) /\ s = (p \o (m \o q)) \o t
      /\ p \in Seq(Written) /\ m \in Seq(Written) /\ q \in Seq(Written) /\ t \in Seq(Written)
  BY CutsPlaced, Kinds DEF Cuts
<1>2. Len(p) \in Nat /\ Len(m) \in Nat /\ Len(q) \in Nat /\ Len(t) \in Nat
  BY <1>1 DEF Placed
<1>3. Least(TitleInk(s)) = lo /\ Greatest(TitleInk(s)) = hi
  BY TitleInkIs
<1>4. TitleWritten(s) = IF said = {} THEN << >> ELSE SubSeq(s, Least(said), hi)
  BY <1>3 DEF TitleWritten, TitleInk
<1>5. ASSUME NEW i \in lo .. hi
      PROVE  i - Len(p) \in 1 .. Len(m) /\ s[i] = m[i - Len(p)]
  <2>1. i - Len(p) \in 1 .. Len(m) /\ Len(p) + (i - Len(p)) = i
    BY <1>2
  <2>2. s[Len(p) + (i - Len(p))] = m[i - Len(p)]
    BY <1>1, <2>1 DEF Placed
  <2>. QED
    BY <2>1, <2>2
<1>6. CASE m \in Seq(Marks)
  <2>1. \A i \in lo .. hi : s[i] \in Marks
    BY <1>5, <1>6, ElementOfSeq
  <2>2. said = {}
    BY <2>1 DEF Marks
  <2>3. TrimStart(m, Marks) = << >>
    BY <1>6, TrimNone
  <2>. QED
    BY <1>4, <2>2, <2>3
<1>7. CASE m \notin Seq(Marks)
  <2>1. PICK g \in Seq(Written), e \in Seq(Written) : Begins(m, g, e, Marks)
    BY <1>1, <1>7, CutStart
  <2>2. g \in Seq(Marks) /\ m = g \o e /\ e # << >> /\ e[1] \notin Marks
    BY <2>1 DEF Begins
  <2>3. TrimStart(m, Marks) = e
    BY <2>2, TrimStartIs
  <2>4. Concat(m, g, e) /\ Len(e) > 0
    BY <2>2, ConcatIs, EmptySeq
  <2>. DEFINE l == Len(p) + Len(g) + 1
  <2>5. /\ Len(g) \in Nat /\ Len(e) \in Nat /\ Len(e) > 0 /\ Len(m) = Len(g) + Len(e)
    BY <2>4 DEF Concat
  <2>6. l \in said
    <3>1. l \in lo .. hi /\ l - Len(p) = Len(g) + 1 /\ 1 \in 1 .. Len(e)
      BY <1>2, <2>5
    <3>2. s[l] = m[Len(g) + 1] /\ m[Len(g) + 1] = e[1]
      BY <1>5, <2>4, <3>1 DEF Concat
    <3>. QED
      BY <2>2, <3>1, <3>2 DEF Marks
  <2>7. ASSUME NEW j \in said PROVE j \in Nat /\ l <= j
    <3>1. j \in lo .. hi /\ s[j] \notin Marks
      BY DEF Marks
    <3>2. j - Len(p) \notin 1 .. Len(g)
      <4>. SUFFICES ASSUME j - Len(p) \in 1 .. Len(g) PROVE FALSE
        OBVIOUS
      <4>1. s[j] = m[j - Len(p)] /\ m[j - Len(p)] = g[j - Len(p)]
        BY <1>5, <2>4, <3>1 DEF Concat
      <4>2. g[j - Len(p)] \in Marks
        BY <2>2, ElementOfSeq
      <4>. QED
        BY <3>1, <4>1, <4>2
    <3>. QED
      BY <1>2, <2>5, <3>1, <3>2
  <2>8. Least(said) = l
    <3>. HIDE DEF said, l
    <3>1. said \in SUBSET Nat /\ \A j \in said : l <= j
      BY <2>7
    <3>. QED
      BY <2>6, <3>1, LeastIs
  <2>9. SubSeq(s, l, hi) = e
    <3>. DEFINE a == p \o g
                b == q \o t
    <3>1. a \in Seq(Written) /\ b \in Seq(Written) /\ Concat(a, p, g)
      BY <1>1, ConcatIs, ConcatProperties
    <3>2. s = (a \o e) \o b
      <4>0. /\ p \in Seq(Written) /\ m \in Seq(Written) /\ q \in Seq(Written) /\ t \in Seq(Written)
            /\ g \in Seq(Written) /\ e \in Seq(Written)
        BY <1>1
      <4>1. p \o m \in Seq(Written)
        BY <4>0, ConcatProperties
      <4>2. p \o (m \o q) = (p \o m) \o q
        <5>1. p \in Seq(Written) /\ m \in Seq(Written) /\ q \in Seq(Written)
          BY <4>0
        <5>2. Regrouped(p, m, q)
          BY <5>1, Regroup, Zenon
        <5>. QED
          BY <5>2, Zenon DEF Regrouped
      <4>3. (p \o m) \o (q \o t) = ((p \o m) \o q) \o t
        <5>. DEFINE x == p \o m
        <5>1. x \in Seq(Written) /\ q \in Seq(Written) /\ t \in Seq(Written)
          BY <4>0, <4>1
        <5>. HIDE DEF x
        <5>2. x \o (q \o t) = (x \o q) \o t
          <6>1. Regrouped(x, q, t)
            BY <5>1, Regroup, Zenon
          <6>. QED
            BY <6>1, Zenon DEF Regrouped
        <5>. QED
          BY <5>2 DEF x
      <4>4. p \o (g \o e) = (p \o g) \o e
        <5>1. p \in Seq(Written) /\ g \in Seq(Written) /\ e \in Seq(Written)
          BY <4>0
        <5>2. Regrouped(p, g, e)
          BY <5>1, Regroup, Zenon
        <5>. QED
          BY <5>2, Zenon DEF Regrouped
      <4>. QED
        BY <1>1, <2>2, <4>2, <4>3, <4>4, Zenon
    <3>. HIDE DEF a, b
    <3>3. l = Len(a) + 1 /\ hi = Len(a) + Len(e)
      BY <1>2, <2>5, <3>1 DEF Concat
    <3>. HIDE DEF l, hi
    <3>. QED
      BY <3>1, <3>2, <3>3, MiddleIs
  <2>. QED
    BY <1>4, <2>3, <2>6, <2>8, <2>9
<1>. QED
  BY <1>6, <1>7

BodyInk(s) == {i \in DOMAIN s : s[i] \notin Space /\ i > TitleEnd(s)}

\* s is a text of n characters and r.
Behind(s, n, r) ==
  /\ n \in Nat /\ Len(r) \in Nat /\ Len(s) = n + Len(r) /\ DOMAIN s = 1 .. Len(s)
  /\ \A i \in 1 .. Len(r) : s[n + i] = r[i]

LEMMA BodyBehind ==
  ASSUME NEW s, NEW p, NEW m, NEW q, NEW t, Cuts(s, p, m, q, t), NEW r \in Seq(Written),
         t = <<"nl">> \o r
  PROVE  /\ Behind(s, TitleEnd(s), r)
         /\ \E h \in Seq(Written) : Len(h) = TitleEnd(s) /\ s = h \o r
<1>. DEFINE n == TitleEnd(s)
            w == m \o q
            x == p \o w
            l == <<"nl">>
            h == x \o l
<1>1. /\ Placed(s, p, m, q, t) /\ s = x \o t
      /\ p \in Seq(Written) /\ m \in Seq(Written) /\ q \in Seq(Written) /\ t \in Seq(Written)
  BY CutsPlaced, Kinds DEF Cuts
<1>2. /\ Len(p) \in Nat /\ Len(m) \in Nat /\ Len(q) \in Nat /\ Len(t) \in Nat
      /\ Len(s) = Len(p) + Len(m) + Len(q) + Len(t) /\ DOMAIN s = 1 .. Len(s)
      /\ \A i \in 1 .. Len(t) : s[Len(p) + Len(m) + Len(q) + i] = t[i]
  BY <1>1 DEF Placed
<1>3. n = Len(p) + Len(m) + Len(q) + 1
  BY TitleEndIs
<1>4. l \in Seq(Written) /\ Len(l) = 1
  BY Kinds
<1>. HIDE DEF l, n
<1>5. Concat(t, l, r)
  <2>1. t = l \o r
    BY DEF l
  <2>. QED
    BY <1>4, <2>1, ConcatIs
<1>6. /\ Len(r) \in Nat /\ Len(t) = 1 + Len(r) /\ \A i \in 1 .. Len(r) : t[1 + i] = r[i]
  BY <1>4, <1>5 DEF Concat
<1>7. Behind(s, n, r)
  <2>1. n \in Nat /\ Len(s) = n + Len(r)
    BY <1>2, <1>3, <1>6
  <2>2. ASSUME NEW i \in 1 .. Len(r) PROVE s[n + i] = r[i]
    <3>1. 1 + i \in 1 .. Len(t) /\ Len(p) + Len(m) + Len(q) + (1 + i) = n + i
      BY <1>2, <1>3, <1>6
    <3>. QED
      BY <1>2, <1>6, <3>1
  <2>. QED
    BY <1>2, <1>6, <2>1, <2>2 DEF Behind
<1>8. x \in Seq(Written) /\ Len(x) = Len(p) + Len(m) + Len(q)
  <2>1. w \in Seq(Written) /\ Len(w) = Len(m) + Len(q)
    BY <1>1, ConcatProperties
  <2>. HIDE DEF w
  <2>2. x \in Seq(Written) /\ Len(x) = Len(p) + Len(w)
    BY <1>1, <2>1, ConcatProperties
  <2>. QED
    BY <1>2, <2>1, <2>2
<1>. HIDE DEF x
<1>9. h \in Seq(Written) /\ Len(h) = n
  <2>1. h \in Seq(Written) /\ Len(h) = Len(x) + Len(l)
    BY <1>4, <1>8, ConcatProperties
  <2>. HIDE DEF h
  <2>. QED
    BY <1>2, <1>3, <1>4, <1>8, <2>1
<1>10. s = h \o r
  <2>1. x \o (l \o r) = (x \o l) \o r
    <3>1. x \in Seq(Written) /\ l \in Seq(Written) /\ r \in Seq(Written)
      BY <1>4, <1>8
    <3>2. Regrouped(x, l, r)
      BY <3>1, Regroup, Zenon
    <3>. QED
      BY <3>2, Zenon DEF Regrouped
  <2>. QED
    BY <1>1, <2>1, Zenon DEF l
<1>. HIDE DEF h
<1>. QED
  BY <1>7, <1>9, <1>10 DEF n

LEMMA BodyNone ==
  ASSUME NEW s, NEW p, NEW m, NEW q, NEW t, Cuts(s, p, m, q, t), t = << >>
  PROVE  BodyWritten(s) = << >>
<1>1. Placed(s, p, m, q, t) /\ Len(t) = 0
  BY CutsPlaced, EmptySeq
<1>2. TitleEnd(s) = Len(p) + Len(m) + Len(q) + 1
  BY TitleEndIs
<1>3. \A i \in DOMAIN s : ~ (i > TitleEnd(s))
  BY <1>1, <1>2 DEF Placed
<1>4. BodyInk(s) = {}
  BY <1>3 DEF BodyInk
<1>. QED
  BY <1>4 DEF BodyWritten, BodyInk

LEMMA BodyWrittenIs ==
  ASSUME NEW s, NEW p, NEW m, NEW q, NEW t, Cuts(s, p, m, q, t), NEW r \in Seq(Written),
         t = <<"nl">> \o r
  PROVE  BodyWritten(s) = Trim(Unix(r))
<1>. DEFINE n == TitleEnd(s)
            ink == BodyInk(s)
<1>1. Behind(s, n, r)
  BY BodyBehind
<1>2. PICK h \in Seq(Written) : Len(h) = n /\ s = h \o r
  BY BodyBehind
<1>3. BodyWritten(s) = IF ink = {} THEN << >> ELSE Unix(SubSeq(s, Least(ink), Greatest(ink)))
  BY DEF BodyWritten, BodyInk
<1>4. \A j \in ink : j \in 1 .. Len(s) /\ s[j] \notin Space /\ j > n
  BY <1>1 DEF BodyInk, Behind
<1>5. \A j \in 1 .. Len(s) : s[j] \notin Space /\ j > n => j \in ink
  BY <1>1 DEF BodyInk, Behind
<1>. HIDE DEF ink, n
<1>6. ASSUME NEW j \in ink PROVE j - n \in 1 .. Len(r) /\ r[j - n] \notin Space
  <2>1. j \in 1 .. Len(s) /\ j > n /\ s[j] \notin Space
    BY <1>4
  <2>2. j - n \in 1 .. Len(r) /\ n + (j - n) = j
    BY <1>1, <2>1 DEF Behind
  <2>3. s[n + (j - n)] = r[j - n]
    BY <1>1, <2>2 DEF Behind
  <2>. QED
    BY <2>1, <2>2, <2>3
<1>7. CASE r \in Seq(Space)
  <2>1. \A i \in 1 .. Len(r) : r[i] \in Space
    BY <1>7, ElementOfSeq
  <2>2. ink = {}
    BY <1>6, <2>1
  <2>3. Unix(r) \in Seq(Space)
    BY <1>7, UnixIs DEF UnixLaws
  <2>4. Trim(Unix(r)) = << >>
    BY <2>3, TrimBlank
  <2>. QED
    BY <1>3, <2>2, <2>4
<1>8. CASE r \notin Seq(Space)
  <2>1. PICK a, c, b \in Seq(Written) : Framed(r, a, b, c, Space)
    BY <1>8, FramedExists
  <2>2. /\ a \in Seq(Space) /\ c \in Seq(Space) /\ r = (a \o b) \o c
        /\ b # << >> /\ b[1] \notin Space /\ b[Len(b)] \notin Space
    BY <2>1 DEF Framed
  <2>3. a \in Seq(Written) /\ c \in Seq(Written)
    BY <2>2, Kinds
  <2>4. Around(r, a, b, c) /\ Len(b) > 0
    <3>1. Around(r, a, b, c)
      BY <2>2, <2>3, PlacesAround
    <3>. QED
      BY <2>2, <3>1, EmptySeq
  <2>. DEFINE lo == n + Len(a) + 1
              hi == n + Len(a) + Len(b)
  <2>5. /\ n \in Nat /\ Len(a) \in Nat /\ Len(b) \in Nat /\ Len(b) > 0 /\ Len(c) \in Nat
        /\ Len(r) = Len(a) + Len(b) + Len(c) /\ Len(s) = n + Len(r)
    BY <1>1, <2>4 DEF Around, Behind
  <2>6. lo \in ink /\ hi \in ink
    <3>1. /\ 1 \in 1 .. Len(b) /\ Len(b) \in 1 .. Len(b)
          /\ Len(a) + 1 \in 1 .. Len(r) /\ Len(a) + Len(b) \in 1 .. Len(r)
          /\ lo \in 1 .. Len(s) /\ hi \in 1 .. Len(s) /\ lo > n /\ hi > n
          /\ n + (Len(a) + 1) = lo /\ n + (Len(a) + Len(b)) = hi
      BY <2>5
    <3>2. s[n + (Len(a) + 1)] = r[Len(a) + 1] /\ s[n + (Len(a) + Len(b))] = r[Len(a) + Len(b)]
      BY <1>1, <3>1 DEF Behind
    <3>3. r[Len(a) + 1] = b[1] /\ r[Len(a) + Len(b)] = b[Len(b)]
      BY <2>4, <3>1 DEF Around
    <3>4. s[lo] \notin Space /\ s[hi] \notin Space
      BY <2>2, <3>1, <3>2, <3>3
    <3>. HIDE DEF lo, hi
    <3>. QED
      BY <1>5, <3>1, <3>4
  <2>7. ASSUME NEW j \in ink PROVE j \in Nat /\ lo <= j /\ hi >= j
    <3>1. j - n \in 1 .. Len(r) /\ r[j - n] \notin Space /\ j \in Nat
      BY <1>4, <1>6
    <3>2. j - n \notin 1 .. Len(a)
      <4>1. \A i \in 1 .. Len(a) : r[i] = a[i] /\ a[i] \in Space
        BY <2>2, <2>4, ElementOfSeq DEF Around
      <4>. QED
        BY <3>1, <4>1
    <3>3. ~ (j - n > Len(a) + Len(b))
      <4>. SUFFICES ASSUME j - n > Len(a) + Len(b) PROVE FALSE
        OBVIOUS
      <4>. DEFINE i == (j - n) - (Len(a) + Len(b))
      <4>1. i \in 1 .. Len(c) /\ Len(a) + Len(b) + i = j - n
        BY <2>5, <3>1
      <4>2. r[Len(a) + Len(b) + i] = c[i] /\ c[i] \in Space
        BY <2>2, <2>4, <4>1, ElementOfSeq DEF Around
      <4>. QED
        BY <3>1, <4>1, <4>2
    <3>. QED
      BY <2>5, <3>1, <3>2, <3>3
  <2>8. Least(ink) = lo /\ Greatest(ink) = hi
    <3>. HIDE DEF lo, hi
    <3>1. ink \in SUBSET Nat
      BY <2>7
    <3>2. Least(ink) = lo
      BY <2>6, <2>7, <3>1, LeastIs
    <3>3. Greatest(ink) = hi
      BY <2>6, <2>7, <3>1, GreatestIs
    <3>. QED
      BY <3>2, <3>3
  <2>9. SubSeq(s, lo, hi) = b
    <3>. DEFINE e == h \o a
                ab == a \o b
    <3>1. e \in Seq(Written) /\ Len(e) = Len(h) + Len(a)
      BY <2>3, ConcatProperties
    <3>2. ab \in Seq(Written)
      BY <2>3, ConcatProperties
    <3>3. h \o ab = e \o b
      <4>1. h \in Seq(Written) /\ a \in Seq(Written) /\ b \in Seq(Written)
        BY <2>3
      <4>2. Regrouped(h, a, b)
        BY <4>1, Regroup, Zenon
      <4>. QED
        BY <4>2, Zenon DEF Regrouped
    <3>. HIDE DEF ab
    <3>4. h \o (ab \o c) = (h \o ab) \o c
      <4>1. h \in Seq(Written) /\ ab \in Seq(Written) /\ c \in Seq(Written)
        BY <2>3, <3>2
      <4>2. Regrouped(h, ab, c)
        BY <4>1, Regroup, Zenon
      <4>. QED
        BY <4>2, Zenon DEF Regrouped
    <3>. HIDE DEF e
    <3>5. s = (e \o b) \o c
      BY <1>2, <2>2, <3>3, <3>4, Zenon DEF ab
    <3>6. lo = Len(e) + 1 /\ hi = Len(e) + Len(b)
      BY <1>2, <2>5, <3>1
    <3>. HIDE DEF lo, hi
    <3>. QED
      BY <2>3, <3>1, <3>5, <3>6, MiddleIs
  <2>10. Trim(Unix(r)) = Unix(b)
    BY <2>1, TrimUnix
  <2>11. BodyWritten(s) = Unix(b)
    <3>1. BodyWritten(s) = Unix(SubSeq(s, Least(ink), Greatest(ink)))
      BY <1>3, <2>6
    <3>. HIDE DEF lo, hi
    <3>. QED
      BY <2>8, <2>9, <3>1, Zenon
  <2>. QED
    BY <2>10, <2>11, Zenon
<1>. QED
  BY <1>7, <1>8

LEMMA TrimStartTyped ==
  ASSUME NEW K, NEW m \in Seq(Written)
  PROVE  TrimStart(m, K) \in Seq(Written)
<1>1. CASE m \in Seq(K)
  <2>1. TrimStart(m, K) = << >>
    BY <1>1, TrimNone
  <2>. QED
    BY <2>1, EmptySeq
<1>2. CASE m \notin Seq(K)
  <2>1. PICK g \in Seq(Written), e \in Seq(Written) : Begins(m, g, e, K)
    BY <1>2, CutStart
  <2>2. g \in Seq(K) /\ m = g \o e /\ e # << >> /\ e[1] \notin K
    BY <2>1 DEF Begins
  <2>3. TrimStart(m, K) = e
    BY <2>2, TrimStartIs
  <2>. QED
    BY <2>3
<1>. QED
  BY <1>1, <1>2

LEMMA TrimTyped ==
  ASSUME NEW u \in Seq(Written)
  PROVE  Trim(u) \in Seq(Written)
<1>1. CASE u \in Seq(Space)
  <2>1. Trim(u) = << >>
    BY <1>1, TrimBlank
  <2>. QED
    BY <2>1, EmptySeq
<1>2. CASE u \notin Seq(Space)
  <2>1. PICK a, c, b \in Seq(Written) : Framed(u, a, b, c, Space)
    BY <1>2, FramedExists
  <2>2. Trim(u) = b
    BY <2>1, TrimIs
  <2>. QED
    BY <2>2
<1>. QED
  BY <1>1, <1>2

\* The parser sees what is written.
LEMMA SeenIsWritten ==
  ASSUME NEW s \in Seq(Written), s \notin Seq(Space)
  PROVE  /\ Sees(s, TitleWritten(s), BodyWritten(s))
         /\ TitleWritten(s) \in Seq(Written) /\ BodyWritten(s) \in Seq(Written)
<1>1. PICK p, m, q, t : Cuts(s, p, m, q, t)
  BY CutsExist
<1>2. m \in Seq(Written) /\ t \in Seq(Written) /\ (t = << >> \/ t[1] = "nl")
  BY <1>1, Kinds DEF Cuts
<1>3. TitleWritten(s) = TrimStart(m, Marks)
  BY <1>1, TitleWrittenIs
<1>4. TrimStart(m, Marks) \in Seq(Written)
  BY <1>2, TrimStartTyped
<1>5. CASE t = << >>
  <2>1. Sees(s, TrimStart(m, Marks), << >>)
    BY <1>1, <1>5, SeesAlone
  <2>2. BodyWritten(s) = << >> /\ << >> \in Seq(Written)
    BY <1>1, <1>5, BodyNone, EmptySeq
  <2>. QED
    BY <1>3, <1>4, <2>1, <2>2
<1>6. CASE t # << >>
  <2>. DEFINE r == SubSeq(t, 2, Len(t))
  <2>1. Len(t) \in Nat /\ 1 \in 1 .. Len(t) /\ Len(t) \in 1 .. Len(t) /\ t[1] = "nl"
    BY <1>2, <1>6, EmptySeq
  <2>2. t = <<"nl">> \o r
    <3>1. SubSeq(t, 1, Len(t)) = <<t[1]>> \o SubSeq(t, 1 + 1, Len(t))
      BY <1>2, <2>1, SubSeqRecursiveFirst
    <3>. QED
      BY <1>2, <2>1, <3>1, SubSeqFull
  <2>3. r \in Seq(Written)
    <3>1. \A i \in 2 .. Len(t) : t[i] \in Written
      BY <1>2, <2>1, ElementOfSeq
    <3>. QED
      BY <2>1, <3>1, SubSeqProperties
  <2>. HIDE DEF r
  <2>4. Sees(s, TrimStart(m, Marks), Trim(Unix(r)))
    BY <1>1, <2>2, <2>3, SeesMore
  <2>5. BodyWritten(s) = Trim(Unix(r))
    BY <1>1, <2>2, <2>3, BodyWrittenIs
  <2>6. Unix(r) \in Seq(Written)
    BY <2>3, UnixIs DEF UnixLaws
  <2>7. Trim(Unix(r)) \in Seq(Written)
    BY <2>6, TrimTyped
  <2>. QED
    BY <1>3, <1>4, <2>4, <2>5, <2>7
<1>. QED
  BY <1>5, <1>6

LEMMA Counted ==
  ASSUME NEW s \in Seq(Written)
  PROVE  Len(s) \in Nat /\ Octets(s) \in Nat
<1>. DEFINE T == {k \in DOMAIN s : s[k] = "wide"}
<1>1. Len(s) \in Nat /\ T \subseteq 1 .. Len(s)
  BY LenProperties
<1>2. IsFiniteSet(1 .. Len(s))
  BY <1>1, FS_Interval
<1>. HIDE DEF T
<1>3. IsFiniteSet(T)
  BY <1>1, <1>2, FS_Subset
<1>4. Cardinality(T) \in Nat
  BY <1>3, FS_CardinalityType
<1>. QED
  BY <1>1, <1>4 DEF Octets, T

\* A description is used if it is acceptable, as what is written.
LEMMA ParseDescriptionIs ==
  ASSUME NEW s \in Seq(Written)
  PROVE  IF Acceptable(s) THEN ParseDescription(s) = Ok(TitleWritten(s), BodyWritten(s))
         ELSE ParseDescription(s).result # "Ok"
<1>. DEFINE L == Split(Unix(s))
            k == TitleLine(L)
            title == ParseTitle(L[k])
            body == ParseBody(SubSeq(L, k + 1, Len(L)))
            P == ParseDescription(s)
            a == TitleWritten(s)
            b == BodyWritten(s)
<1>1. P = IF "nul" \in Range(s) THEN Err("Nul")
          ELSE IF k > Len(L) THEN Err("NoTitle")
          ELSE IF title = << >> THEN Err("EmptyTitle")
          ELSE IF Len(title) > TitleLimit THEN Err("LongTitle")
          ELSE IF body = << >> THEN Err("NoBody")
          ELSE IF Octets(body) > BodyByteLimit \/ Len(body) > BodyCharLimit THEN Err("LongBody")
          ELSE Ok(title, body)
  BY DEF ParseDescription
<1>2. CASE "nul" \in Range(s)
  <2>1. P.result = "Nul"
    BY <1>1, <1>2 DEF Err
  <2>2. ~ Acceptable(s)
    BY <1>2 DEF Acceptable
  <2>. QED
    BY <2>1, <2>2
<1>3. CASE "nul" \notin Range(s) /\ s \in Seq(Space)
  <2>1. k = Len(L) + 1 /\ Len(L) \in Nat
    BY <1>3, BlankPages
  <2>2. k > Len(L)
    BY <2>1
  <2>. HIDE DEF k, L, title, body
  <2>3. P = Err("NoTitle")
    BY <1>1, <1>3, <2>2
  <2>4. P.result = "NoTitle"
    BY <2>3 DEF Err
  <2>5. \A i \in DOMAIN s : s[i] \in Space
    BY <1>3, LenProperties, ElementOfSeq
  <2>6. ~ Acceptable(s)
    BY <2>5 DEF Acceptable
  <2>. QED
    BY <2>4, <2>6
<1>4. CASE "nul" \notin Range(s) /\ s \notin Seq(Space)
  <2>1. Sees(s, a, b) /\ a \in Seq(Written) /\ b \in Seq(Written)
    BY <1>4, SeenIsWritten
  <2>2. k <= Len(L) /\ title = a /\ body = b
    BY <2>1 DEF Sees
  <2>3. ~ (k > Len(L))
    <3>1. L \in Seq(Seq(Written))
      BY UnixIs, SplitIs DEF UnixLaws, SplitLaws, Lines0
    <3>2. Len(L) \in Nat
      BY <3>1, LenProperties
    <3>3. k \in Int
      <4>1. DOMAIN L = 1 .. Len(L)
        BY <3>1, LenProperties
      <4>. DEFINE inked == {j \in DOMAIN L : Trim(L[j]) # << >>}
      <4>2. CASE inked = {}
        BY <3>2, <4>2 DEF TitleLine
      <4>3. CASE inked # {}
        <5>1. inked \in SUBSET Nat
          BY <3>2, <4>1
        <5>. HIDE DEF inked
        <5>2. PICK l \in inked : \A j \in inked : l <= j
          BY <4>3, <5>1, LeastOf
        <5>3. Least(inked) = l
          BY <5>1, <5>2, LeastIs
        <5>4. k = Least(inked)
          BY <4>3 DEF TitleLine, inked
        <5>. QED
          BY <5>1, <5>3, <5>4
      <4>. QED
        BY <4>2, <4>3
    <3>. HIDE DEF k, L
    <3>. QED
      BY <2>2, <3>2, <3>3
  <2>4. \E i \in DOMAIN s : s[i] \notin Space
    <3>1. \E i \in 1 .. Len(s) : s[i] \notin Space
      BY <1>4, AllIn
    <3>. QED
      BY <3>1, LenProperties
  <2>. HIDE DEF k, L, title, body
  <2>5. P = IF a = << >> THEN Err("EmptyTitle")
            ELSE IF Len(a) > TitleLimit THEN Err("LongTitle")
            ELSE IF b = << >> THEN Err("NoBody")
            ELSE IF Octets(b) > BodyByteLimit \/ Len(b) > BodyCharLimit THEN Err("LongBody")
            ELSE Ok(a, b)
    BY <1>1, <1>4, <2>2, <2>3
  <2>6. Acceptable(s) <=> /\ Len(a) \in 1 .. TitleLimit
                          /\ Len(b) \in 1 .. BodyCharLimit
                          /\ Octets(b) <= BodyByteLimit
    BY <1>4, <2>4 DEF Acceptable
  <2>7. Len(a) \in Nat /\ Len(b) \in Nat /\ Octets(b) \in Nat
    BY <2>1, Counted
  <2>8. (a = << >> <=> Len(a) = 0) /\ (b = << >> <=> Len(b) = 0)
    BY <2>1, EmptySeq
  <2>9. TitleLimit \in Nat /\ BodyCharLimit \in Nat /\ BodyByteLimit \in Nat
    BY LimitsAssumption
  <2>. HIDE DEF P, a, b
  <2>10. CASE a = << >>
    BY <2>5, <2>6, <2>8, <2>10 DEF Err, P
  <2>11. CASE a # << >> /\ Len(a) > TitleLimit
    BY <2>5, <2>6, <2>7, <2>9, <2>11 DEF Err, P
  <2>12. CASE a # << >> /\ ~ (Len(a) > TitleLimit) /\ b = << >>
    BY <2>5, <2>6, <2>8, <2>12 DEF Err, P
  <2>13. CASE a # << >> /\ ~ (Len(a) > TitleLimit) /\ b # << >>
             /\ (Octets(b) > BodyByteLimit \/ Len(b) > BodyCharLimit)
    BY <2>5, <2>6, <2>7, <2>9, <2>13 DEF Err, P
  <2>14. CASE a # << >> /\ ~ (Len(a) > TitleLimit) /\ b # << >>
             /\ ~ (Octets(b) > BodyByteLimit \/ Len(b) > BodyCharLimit)
    <3>1. P = Ok(a, b)
      BY <2>5, <2>14
    <3>2. Acceptable(s)
      BY <2>6, <2>7, <2>8, <2>9, <2>14
    <3>. QED
      BY <3>1, <3>2 DEF P, a, b
  <2>. QED
    BY <2>10, <2>11, <2>12, <2>13, <2>14
<1>. QED
  BY <1>2, <1>3, <1>4

LEMMA FitTitleIs ==
  ASSUME NEW C, NEW x \in Seq(C), x # << >>
  PROVE  FitTitle(x) # << >> /\ Len(FitTitle(x)) <= TitleLimit
<1>. DEFINE D == C \cup {"."}
            n == TitleLimit - 3
            y == SubSeq(x, 1, n)
            e == Ellipsis
<1>1. TitleLimit \in Nat /\ n \in Nat /\ n + 3 = TitleLimit
  BY LimitsAssumption
<1>2. x \in Seq(D) /\ Len(x) \in Nat
  BY SeqMonotonic, LenProperties
<1>3. e \in Seq(D) /\ Len(e) = 3 /\ Len(Ellipsis) = 3
  BY DEF Ellipsis
<1>4. CASE Len(x) <= TitleLimit
  <2>1. FitTitle(x) = x
    BY <1>4 DEF FitTitle
  <2>. QED
    BY <1>4, <2>1
<1>5. CASE ~ (Len(x) <= TitleLimit)
  <2>1. FitTitle(x) = y \o e
    BY <1>3, <1>5 DEF FitTitle
  <2>2. y \in Seq(D) /\ Len(y) = n
    <3>1. \A i \in 1 .. n : x[i] \in D
      <4>1. \A i \in 1 .. n : i \in 1 .. Len(x)
        BY <1>1, <1>2, <1>5
      <4>. QED
        BY <1>2, <4>1, ElementOfSeq
    <3>. HIDE DEF n
    <3>2. /\ y \in Seq(D) /\ Len(y) = IF 1 <= n THEN n - 1 + 1 ELSE 0
      BY <1>1, <3>1, SubSeqProperties
    <3>. QED
      BY <1>1, <3>2
  <2>. HIDE DEF y, e
  <2>3. y \o e \in Seq(D) /\ Len(y \o e) = Len(y) + Len(e)
    BY <1>3, <2>2, ConcatProperties
  <2>. DEFINE z == y \o e
  <2>4. z \in Seq(D) /\ Len(z) = TitleLimit /\ Len(z) # 0
    BY <1>1, <1>3, <2>2, <2>3
  <2>. HIDE DEF z
  <2>5. z # << >> /\ Len(z) <= TitleLimit
    BY <1>1, <2>4, EmptySeq
  <2>. QED
    BY <2>1, <2>5, Zenon DEF z
<1>. QED
  BY <1>4, <1>5

\* What may be at the path of a description, and where a run may come from.
File(f) ==
  \/ f.kind = "regular" /\ f.content \in Seq(Written) /\ f.text \in BOOLEAN
  \/ f.kind \in {"missing", "link", "fifo"}

Origin(o, C) ==
  \/ o.kind = "ticket" /\ o.identifier \in Seq(C) /\ o.title \in Seq(C) /\ o.url \in BOOLEAN
  \/ o.kind = "local" /\ o.title \in Seq(C) /\ o.title # << >>

LEMMA FallbackIs ==
  ASSUME NEW C, NEW o, Origin(o, C)
  PROVE  FallbackTitle(o) # << >> /\ Len(FallbackTitle(o)) <= TitleLimit
<1>1. CASE o.kind = "ticket" /\ o.identifier \in Seq(C) /\ o.title \in Seq(C)
  <2>. DEFINE D == C \cup {":", "sp"}
              i == o.identifier
              c == <<":", "sp">>
              t == o.title
              x == i \o c
              y == x \o t
  <2>1. i \in Seq(D) /\ t \in Seq(D)
    BY <1>1, SeqMonotonic
  <2>2. c \in Seq(D) /\ Len(c) = 2
    OBVIOUS
  <2>3. FallbackTitle(o) = FitTitle(y)
    BY <1>1 DEF FallbackTitle
  <2>. HIDE DEF i, c, t, D
  <2>4. x \in Seq(D) /\ Len(x) = Len(i) + 2 /\ Len(i) \in Nat
    <3>1. x \in Seq(D) /\ Len(x) = Len(i) + Len(c)
      BY <2>1, <2>2, ConcatProperties
    <3>2. Len(i) \in Nat
      BY <2>1, LenProperties
    <3>. HIDE DEF x
    <3>. QED
      BY <2>2, <3>1, <3>2
  <2>. HIDE DEF x
  <2>5. y \in Seq(D) /\ Len(y) = Len(x) + Len(t) /\ Len(t) \in Nat
    BY <2>1, <2>4, ConcatProperties, LenProperties
  <2>. HIDE DEF y
  <2>6. y # << >>
    <3>1. Len(y) # 0
      BY <2>4, <2>5
    <3>. QED
      BY <3>1, EmptySeq
  <2>7. FitTitle(y) # << >> /\ Len(FitTitle(y)) <= TitleLimit
    BY <2>5, <2>6, FitTitleIs
  <2>. QED
    BY <2>3, <2>7, Zenon
<1>2. CASE o.kind = "local" /\ o.title \in Seq(C) /\ o.title # << >>
  <2>1. FallbackTitle(o) = FitTitle(o.title)
    BY <1>2 DEF FallbackTitle
  <2>2. FitTitle(o.title) # << >> /\ Len(FitTitle(o.title)) <= TitleLimit
    BY <1>2, FitTitleIs
  <2>. QED
    BY <2>1, <2>2, Zenon
<1>. QED
  BY <1>1, <1>2 DEF Origin

\* A description is read if what was looked at and what was opened are readable,
\* and is then what is written in what was opened.
Usable(seen, opened) ==
  /\ seen.kind = "regular" /\ Octets(seen.content) <= ReadLimit
  /\ opened.kind = "regular" /\ Octets(opened.content) <= ReadLimit
  /\ opened.text /\ Acceptable(opened.content)

LEMMA ReadDescriptionIs ==
  ASSUME NEW seen, NEW opened, File(seen), File(opened)
  PROVE  IF Usable(seen, opened)
         THEN ReadDescription(seen, opened) = Ok(TitleWritten(opened.content), BodyWritten(opened.content))
         ELSE ReadDescription(seen, opened).result # "Ok"
<1>. DEFINE R == ReadDescription(seen, opened)
<1>0. ReadLimit \in Nat
  BY LimitsAssumption
<1>1. CASE seen.kind # "regular"
  <2>1. R = Err("Missing") \/ R = Err("NotRegular")
    BY <1>1 DEF ReadDescription
  <2>2. R.result # "Ok"
    BY <2>1 DEF Err
  <2>. QED
    BY <1>1, <2>2 DEF Usable
<1>2. CASE seen.kind = "regular" /\ Octets(seen.content) > ReadLimit
  <2>1. Octets(seen.content) \in Nat
    BY <1>2, Counted DEF File
  <2>2. R = Err("TooLarge")
    BY <1>2 DEF ReadDescription
  <2>3. R.result # "Ok"
    BY <2>2 DEF Err
  <2>4. ~ (Octets(seen.content) <= ReadLimit)
    BY <1>0, <1>2, <2>1
  <2>. QED
    BY <2>3, <2>4 DEF Usable
<1>3. CASE seen.kind = "regular" /\ ~ (Octets(seen.content) > ReadLimit) /\ opened.kind # "regular"
  <2>1. opened.kind \in {"missing", "link", "fifo"}
    BY <1>3 DEF File
  <2>2. OpenRegular(opened) = "Unreadable" \/ OpenRegular(opened) = "NotRegular"
    BY <2>1 DEF OpenRegular
  <2>3. R = Err(OpenRegular(opened))
    BY <1>3, <2>2 DEF ReadDescription
  <2>4. R.result # "Ok"
    BY <2>2, <2>3 DEF Err
  <2>. QED
    BY <1>3, <2>4 DEF Usable
<1>4. CASE seen.kind = "regular" /\ ~ (Octets(seen.content) > ReadLimit) /\ opened.kind = "regular"
  <2>1. opened.content \in Seq(Written) /\ opened.text \in BOOLEAN /\ seen.content \in Seq(Written)
    BY <1>4 DEF File
  <2>2. Octets(seen.content) \in Nat /\ Octets(opened.content) \in Nat
    BY <2>1, Counted
  <2>3. Octets(seen.content) <= ReadLimit
    BY <1>0, <1>4, <2>2
  <2>4. OpenRegular(opened) = "Ok"
    BY <1>4 DEF OpenRegular
  <2>5. R = IF Octets(opened.content) > ReadLimit THEN Err("TooLarge")
            ELSE IF ~ opened.text THEN Err("NotText")
            ELSE ParseDescription(opened.content)
    BY <1>4, <2>4 DEF ReadDescription
  <2>6. CASE Octets(opened.content) > ReadLimit
    <3>1. R = Err("TooLarge")
      BY <2>5, <2>6
    <3>2. R.result # "Ok"
      BY <3>1 DEF Err
    <3>3. ~ (Octets(opened.content) <= ReadLimit)
      BY <1>0, <2>2, <2>6
    <3>. QED
      BY <3>2, <3>3 DEF Usable
  <2>7. CASE ~ (Octets(opened.content) > ReadLimit) /\ ~ opened.text
    <3>1. R = Err("NotText")
      BY <2>5, <2>7
    <3>2. R.result # "Ok"
      BY <3>1 DEF Err
    <3>. QED
      BY <2>7, <3>2 DEF Usable
  <2>8. CASE ~ (Octets(opened.content) > ReadLimit) /\ opened.text
    <3>1. R = ParseDescription(opened.content)
      BY <2>5, <2>8
    <3>2. Octets(opened.content) <= ReadLimit
      BY <1>0, <2>2, <2>8
    <3>3. Usable(seen, opened) <=> Acceptable(opened.content)
      BY <1>4, <2>3, <2>8, <3>2 DEF Usable
    <3>4. IF Acceptable(opened.content)
          THEN ParseDescription(opened.content) = Ok(TitleWritten(opened.content), BodyWritten(opened.content))
          ELSE ParseDescription(opened.content).result # "Ok"
      BY <2>1, ParseDescriptionIs
    <3>. QED
      BY <3>1, <3>3, <3>4, Zenon
  <2>. QED
    BY <2>6, <2>7, <2>8
<1>. QED
  BY <1>1, <1>2, <1>3, <1>4

\* Whatever was at the path, and wherever the run comes from.
LEMMA RequestSays ==
  ASSUME NEW seen, NEW opened, File(seen), File(opened), NEW C, NEW origin, Origin(origin, C)
  PROVE  SaysWhatWasWritten(seen, opened, origin)
<1>. DEFINE W == ReadDescription(seen, opened)
            request == Describe(origin, W)
            a == TitleWritten(opened.content)
            b == BodyWritten(opened.content)
            foot == Footer(origin)
<1>1. CASE Usable(seen, opened)
  <2>1. W = Ok(a, b)
    BY <1>1, ReadDescriptionIs
  <2>2. W.result = "Ok" /\ W.title = a /\ W.body = b
    BY <2>1 DEF Ok
  <2>3. request.title = a /\ request.body = b \o foot
    BY <2>2 DEF Describe
  <2>4. Len(a) <= TitleLimit
    <3>1. Len(a) \in 1 .. TitleLimit
      BY <1>1 DEF Usable, Acceptable
    <3>. HIDE DEF a
    <3>. QED
      BY <3>1, LimitsAssumption
  <2>. HIDE DEF a, b, foot, request
  <2>5. Len(request.title) <= TitleLimit
    BY <2>3, <2>4
  <2>. QED
    BY <1>1, <2>3, <2>5 DEF SaysWhatWasWritten, Usable, a, b, foot, request
<1>2. CASE ~ Usable(seen, opened)
  <2>1. W.result # "Ok"
    BY <1>2, ReadDescriptionIs
  <2>2. request.title = FallbackTitle(origin) /\ request.body = foot
    BY <2>1 DEF Describe
  <2>3. FallbackTitle(origin) # << >> /\ Len(FallbackTitle(origin)) <= TitleLimit
    BY FallbackIs
  <2>4. << >> \o foot = foot
    <3>1. /\ <<"link", "plan", "run">> \in Seq({"link", "identifier", "plan", "run"})
          /\ <<"identifier", "plan", "run">> \in Seq({"link", "identifier", "plan", "run"})
          /\ <<"plan", "run">> \in Seq({"link", "identifier", "plan", "run"})
      OBVIOUS
    <3>2. foot \in {<<"link", "plan", "run">>, <<"identifier", "plan", "run">>, <<"plan", "run">>}
      BY DEF Footer, Origin
    <3>3. foot \in Seq({"link", "identifier", "plan", "run"})
      BY <3>1, <3>2, Zenon
    <3>. HIDE DEF foot
    <3>. QED
      BY <3>3, ConcatEmptySeq
  <2>. HIDE DEF foot, request
  <2>5. request.title # << >> /\ Len(request.title) <= TitleLimit /\ request.body = << >> \o foot
    BY <2>2, <2>3, <2>4, Zenon
  <2>. QED
    BY <1>2, <2>5 DEF SaysWhatWasWritten, Usable, foot, request
<1>. QED
  BY <1>1, <1>2

\* The pull request says what finalize wrote, whole and nothing else, or nothing
\* of it, within GitHub's limits: whatever was written, whatever was at the path
\* when it was looked at and when it was opened (read, open_regular, parse,
\* fit_title, fallback_title, describe).
THEOREM DescriptionsAreAsWritten == Spec => []DescriptionAsWritten
<1>1. ASSUME TextInv, bench = "description",
             NEW seen \in Seen(text), NEW opened \in Opened(text), NEW origin \in Origins
      PROVE  SaysWhatWasWritten(seen, opened, origin)
  <2>1. text \in Seq(Written) /\ <<"x">> \in Seq(Written)
    <3>1. "x" \in Written
      BY DEF Written, Ink
    <3>. QED
      BY <1>1, <3>1 DEF TextInv
  <2>2. File(seen)
    <3>1. File(Regular(<<"x">>, TRUE)) /\ File(Regular(text, TRUE))
      BY <2>1 DEF File, Regular
    <3>2. File(Other("missing")) /\ File(Other("link"))
      BY DEF File, Other
    <3>. QED
      BY <3>1, <3>2, Zenon DEF Seen
  <2>3. File(opened)
    BY <2>1 DEF Opened, File, Regular, Other
  <2>. DEFINE C == {"i", "x"}
  <2>4. /\ <<"i">> \in Seq(C) /\ <<"x">> \in Seq(C) /\ << >> \in Seq(C)
        /\ <<"x", "x", "x", "x">> \in Seq(C)
        /\ <<"x">> # << >> /\ <<"x", "x", "x", "x">> # << >>
    OBVIOUS
  <2>5. Origin(origin, C)
    <3>. HIDE DEF C
    <3>. QED
      BY <2>4 DEF Origins, Origin
  <2>. QED
    BY <2>2, <2>3, <2>5, RequestSays
<1>2. TextInv => DescriptionAsWritten
  BY <1>1 DEF DescriptionAsWritten
<1>. QED
  BY <1>2, TextInvariance, PTL
=============================================================================
