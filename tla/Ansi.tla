-------------------------------- MODULE Ansi --------------------------------
(* plain() of ansi.rs: the scanner that takes the escape sequences out of the
   copy of the output the farm gets, and the grammar it is to follow.

   A character is its class: what the grammar tells apart and no more.  "[",
   "]" and the backslash are final characters of a CSI sequence too, as every
   character from 0x40 to 0x7e is. *)
EXTENDS Naturals, Sequences, SequencesExt

Parameters == {"0"}
Intermediates == {" "}
Finals == {"[", "]", "\\", "m"}
Controls == {"esc", "bel"}
Characters == Parameters \cup Intermediates \cup Finals \cup Controls \cup {"e"}

-----------------------------------------------------------------------------
(* The scanner: its state, and what is left of the text so far. *)

\* Mutant: the ESC that follows a character inside a CSI sequence is taken for
\* the character that breaks it off, so the sequence it begins is printed.
CsiNextSwallowing(s, c) ==
  CASE s = "CsiParameters" /\ c \in Parameters -> "CsiParameters"
    [] c \in Intermediates -> "CsiIntermediates"
    [] OTHER -> "Text"

CsiNext(s, c) ==
  CASE s = "CsiParameters" /\ c \in Parameters -> "CsiParameters"
    [] c \in Intermediates -> "CsiIntermediates"
    [] c = "esc" -> "Escape"
    [] OTHER -> "Text"

EscapeNext(c) ==
  CASE c = "[" -> "CsiParameters"
    [] c = "]" -> "Osc"
    [] c = "esc" -> "Escape"
    [] OTHER -> "Text"

OscNext(s, c) ==
  CASE c = "esc" -> "OscEscape"
    [] s = "Osc" /\ c = "bel" -> "Text"
    [] s = "OscEscape" /\ c = "\\" -> "Text"
    [] OTHER -> "Osc"

ScanNext(s, c) ==
  CASE s = "Text" -> IF c = "esc" THEN "Escape" ELSE "Text"
    [] s = "Escape" -> EscapeNext(c)
    [] s \in {"CsiParameters", "CsiIntermediates"} -> CsiNext(s, c)
    [] s \in {"Osc", "OscEscape"} -> OscNext(s, c)

Scan(scanned, c) ==
  [state |-> ScanNext(scanned.state, c),
   out |-> IF scanned.state = "Text" /\ c # "esc" THEN Append(scanned.out, c)
           ELSE scanned.out]

Plain(text) == FoldLeft(Scan, [state |-> "Text", out |-> << >>], text).out

-----------------------------------------------------------------------------
(* The grammar, by whole sequences: how far the one that begins at i reaches. *)

\* The first place from i on that holds none of the characters of C, or the
\* end of the text.
After(text, i, C) ==
  CHOOSE k \in i .. (Len(text) + 1) :
    /\ \A j \in i .. (k - 1) : text[j] \in C
    /\ k <= Len(text) => text[k] \notin C

\* The last place of the CSI sequence whose ESC is at i.  A character that fits
\* nowhere breaks the sequence off and goes with it, unless it is an ESC.
CsiEnd(text, i) ==
  LET k == After(text, After(text, i + 2, Parameters), Intermediates)
  IN IF k <= Len(text) /\ text[k] = "esc" THEN k - 1 ELSE k

\* The places where an OSC sequence whose ESC is at i can end: a BEL that does
\* not follow an ESC, or a backslash that does.
OscEnds(text, i) ==
  {k \in (i + 2) .. Len(text) :
     IF k > i + 2 /\ text[k - 1] = "esc" THEN text[k] = "\\" ELSE text[k] = "bel"}

OscEnd(text, i) ==
  LET ends == OscEnds(text, i)
  IN IF ends = {} THEN Len(text) ELSE CHOOSE k \in ends : \A j \in ends : k <= j

SequenceEnd(text, i) ==
  CASE i = Len(text) -> i
    [] i < Len(text) /\ text[i + 1] = "[" -> CsiEnd(text, i)
    [] i < Len(text) /\ text[i + 1] = "]" -> OscEnd(text, i)
    [] i < Len(text) /\ text[i + 1] = "esc" -> i
    [] OTHER -> i + 1

\* What is left of text when every sequence of the grammar is cut out of it.
Visible(text) ==
  LET from[i \in Nat] ==
        CASE i > Len(text) -> << >>
          [] i <= Len(text) /\ text[i] = "esc" -> from[SequenceEnd(text, i) + 1]
          [] OTHER -> <<text[i]>> \o from[i + 1]
  IN from[1]
=============================================================================
