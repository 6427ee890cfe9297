------------------------------ MODULE Terminal ------------------------------
(* pump() and LineAssembler of job.rs: the bytes read from the pseudo-terminal
   become lines, cut at the cap, which LogStream::push_line of logstream.rs
   writes to every view of the output.

   A byte is its class: the first and the last byte of a character of two, the
   two line terminators, and any other.  Escape sequences are left to Ansi: here
   the farm's copy is the text before plain().  The caps of the views are
   LogDelivery's and LogFollow's subject. *)
EXTENDS Naturals, Sequences, SequencesExt, FiniteSets

CONSTANTS MaxChunk, \* the most bytes of a line that are kept back
          MaxFed    \* a bound of the model: bytes a run prints

ASSUME ChunkAssumption == MaxChunk \in Nat /\ MaxChunk >= 2

VARIABLES fed,      \* every byte that was read
          pending,  \* the bytes of the line that is being assembled
          cut,      \* the last line was cut at the cap and nothing followed yet
          raw,      \* the bytes that were handed to the log stream
          history,  \* the lines the history and the subscribers got
          copy,     \* the characters the farm's buffer got
          closed    \* the terminal was closed and the rest was handed over

terminalVars == <<fed, pending, cut, raw, history, copy, closed>>

Bytes == {"a", "lead", "cont", "cr", "nl"}

-----------------------------------------------------------------------------
(* The operators the assembler uses. *)

EndsChar(s, i) == i > 1 /\ s[i] = "cont" /\ s[i - 1] = "lead"

StartsChar(s, i) == i < Len(s) /\ s[i] = "lead" /\ s[i + 1] = "cont"

\* from_utf8_lossy(): every byte that is no part of a character becomes U+FFFD.
LossyAt(s, i) ==
  CASE StartsChar(s, i) -> <<"wide">>
    [] EndsChar(s, i) -> << >>
    [] ~StartsChar(s, i) /\ ~EndsChar(s, i) /\ s[i] \in {"lead", "cont"} -> <<"bad">>
    [] OTHER -> <<s[i]>>

Lossy(s) == FoldLeft(LAMBDA text, i : text \o LossyAt(s, i), << >>, [i \in DOMAIN s |-> i])

\* strip_suffix('\r')
StripCR(text) ==
  IF text # << >> /\ Last(text) = "cr" THEN Front(text) ELSE text

WellFormed(s) == \A i \in DOMAIN s : s[i] \in {"lead", "cont"} => StartsChar(s, i) \/ EndsChar(s, i)

\* floor_boundary(): the first fault of the bytes is a character that may go on
\* behind them, or they are cut where they end.
FloorBoundary(s) ==
  IF s # << >> /\ Last(s) = "lead" /\ WellFormed(Front(s)) THEN Len(s) - 1 ELSE Len(s)

-----------------------------------------------------------------------------
(* LogStream::push_line and push_break: the views of one piece, under one lock. *)

\* terminator is the newline that ended the line, or nothing at a cut.
PushLine(bytes, terminator) ==
  LET text == StripCR(Lossy(bytes))
  IN /\ raw' = raw \o (bytes \o terminator)
     /\ history' = Append(history, text)
     /\ copy' = copy \o (text \o terminator)

PushBreak ==
  /\ raw' = Append(raw, "nl")
  /\ copy' = Append(copy, "nl")
  /\ UNCHANGED history

-----------------------------------------------------------------------------
(* LineAssembler::feed, byte by byte. *)

TerminalInit ==
  /\ fed = << >>
  /\ pending = << >>
  /\ cut = FALSE
  /\ raw = << >>
  /\ history = << >>
  /\ copy = << >>
  /\ closed = FALSE

\* Mutant: the newline behind a cut ends a line of its own.
NewlineUncut ==
  PushLine(pending, <<"nl">>) /\ pending' = << >> /\ cut' = FALSE

Newline ==
  IF cut THEN PushBreak /\ cut' = FALSE /\ UNCHANGED pending
         ELSE PushLine(pending, <<"nl">>) /\ pending' = << >> /\ UNCHANGED cut

\* Mutant: the bytes behind the boundary go with the piece that was cut.
ForceForgetful(line) ==
  /\ PushLine(SubSeq(line, 1, FloorBoundary(line)), << >>)
  /\ pending' = << >>
  /\ cut' = TRUE

\* force(): cuts the line at the cap, in front of a character that is not whole.
ForceLine(line) ==
  LET boundary == FloorBoundary(line)
  IN /\ PushLine(SubSeq(line, 1, boundary), << >>)
     /\ pending' = SubSeq(line, boundary + 1, Len(line))
     /\ cut' = (pending' = << >>)

Keep(b) ==
  LET line == Append(pending, b)
  IN IF Len(line) >= MaxChunk
     THEN ForceLine(line)
     ELSE pending' = line /\ cut' = FALSE /\ UNCHANGED <<raw, history, copy>>

Feed(b) ==
  /\ ~closed
  /\ Len(fed) < MaxFed
  /\ fed' = Append(fed, b)
  /\ IF b = "nl" THEN Newline ELSE Keep(b)
  /\ UNCHANGED closed

\* finish(): the terminal was closed.
FinishLines ==
  /\ ~closed
  /\ closed' = TRUE
  /\ IF pending = << >>
     THEN UNCHANGED <<pending, raw, history, copy>>
     ELSE PushLine(pending, << >>) /\ pending' = << >>
  /\ UNCHANGED <<fed, cut>>

\* Nothing is read from a terminal that was closed.
TerminalClosed == closed /\ UNCHANGED terminalVars

TerminalNext == (\E b \in Bytes : Feed(b)) \/ FinishLines \/ TerminalClosed

TerminalSpec == TerminalInit /\ [][TerminalNext]_terminalVars

-----------------------------------------------------------------------------
(* Properties. *)

\* Every byte of the output is handed over once and in order, whatever was cut
\* where, but for those of the line that is being assembled; and that line
\* stays below the cap.
NothingLost ==
  /\ fed = raw \o pending
  /\ pending \in Seq(Bytes \ {"nl"}) /\ Len(pending) < MaxChunk
  /\ closed => pending = << >>

\* Well-formed, but for a last character that is not whole.
Readable(s) ==
  \/ WellFormed(s)
  \/ s # << >> /\ Last(s) = "lead" /\ WellFormed(Front(s))

\* The farm's copy of well-formed text is that text: no cut splits a character
\* (force, and the comment of push_line on one line split in the farm's copy).
CharactersWhole ==
  Readable(fed) /\ "cr" \notin Range(fed) => copy = Lossy(raw)

\* The bytes by line: the lines that were ended, and the one that is still open.
LineByte(p, b) ==
  IF b = "nl" THEN [ended |-> Append(p.ended, p.open), open |-> << >>]
              ELSE [ended |-> p.ended, open |-> Append(p.open, b)]

Lines(s) == FoldLeft(LineByte, [ended |-> << >>, open |-> << >>], s)

LinesEnded == Lines(fed).ended

Blanks(lines) == Cardinality({k \in DOMAIN lines : lines[k] = << >>})

\* What follows the run reads its lines: each of them as it was written, as long
\* as none reaches the cap, and at any length no empty line the run never wrote
\* (push_break) and every one it did.
HistoryAsWritten ==
  /\ (\A k \in DOMAIN LinesEnded : Len(LinesEnded[k]) < MaxChunk) =>
       IsPrefix([k \in DOMAIN LinesEnded |-> StripCR(Lossy(LinesEnded[k]))], history)
  /\ "cr" \notin Range(fed) => Blanks(history) = Blanks(LinesEnded)

\* Both views of the output are the output: the farm's, which gets the pieces of
\* one line as that line, and the history's.
ViewsAsWritten == CharactersWhole /\ HistoryAsWritten
=============================================================================
