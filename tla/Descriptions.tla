---------------------------- MODULE Descriptions ----------------------------
(* prdesc.rs and PrSpec::describe of pr.rs: the description ralphex's finalize
   step writes for the pull request of its run, and what becomes of it.

   A character is its class: "#", a space, a carriage return, a newline, NUL, a
   character of one byte and one of two. *)
EXTENDS Naturals, Sequences, SequencesExt, FiniteSets

CONSTANTS TitleLimit, BodyCharLimit, BodyByteLimit, ReadLimit

\* The ellipsis of a title that was cut has to fit in.
ASSUME LimitsAssumption ==
  /\ {TitleLimit, BodyCharLimit, BodyByteLimit, ReadLimit} \subseteq Nat
  /\ TitleLimit >= 3

Space == {"sp", "cr", "nl"}
Ink == {"#", "x", "wide"}
Written == Space \cup Ink \cup {"nul"}

Ellipsis == <<".", ".", ".">>

Ok(title, body) == [result |-> "Ok", title |-> title, body |-> body]
Err(fault) == [result |-> fault]

-----------------------------------------------------------------------------
(* parse() *)

Least(S) == CHOOSE i \in S : \A j \in S : i <= j
Greatest(S) == CHOOSE i \in S : \A j \in S : i >= j

\* The part of s between its first and its last character outside of C: trim()
\* with white space for C.
Outermost(s, C) == {i \in DOMAIN s : s[i] \notin C}

TrimEnds(s, C) ==
  LET kept == Outermost(s, C)
  IN IF kept = {} THEN << >> ELSE SubSeq(s, Least(kept), Greatest(kept))

TrimStart(s, C) ==
  LET kept == Outermost(s, C)
  IN IF kept = {} THEN << >> ELSE SubSeq(s, Least(kept), Len(s))

Trim(s) == TrimEnds(s, Space)

\* replace("\r\n", "\n"): a newline takes the place of a carriage return in front of it.
UnixNext(s, c) ==
  IF c = "nl" /\ s # << >> /\ s[Len(s)] = "cr" THEN [s EXCEPT ![Len(s)] = c] ELSE Append(s, c)

Unix(s) == FoldLeft(UnixNext, << >>, s)

\* split('\n')
SplitNext(lines, c) ==
  IF c = "nl" THEN Append(lines, << >>)
  ELSE [lines EXCEPT ![Len(lines)] = Append(@, c)]

Split(s) == FoldLeft(SplitNext, << << >> >>, s)

\* join("\n"): every line behind a newline, but for the first of them.
LinedNext(s, line) == Append(s, "nl") \o line

Lined(lines) == FoldLeft(LinedNext, << >>, lines)

Join(lines) == SubSeq(Lined(lines), 2, Len(Lined(lines)))

Octets(s) == Len(s) + Cardinality({k \in DOMAIN s : s[k] = "wide"})

\* Mutant: the first line is the title, blank or not.
TitleLineFirst(lines) ==
  IF \A k \in DOMAIN lines : Trim(lines[k]) = << >> THEN Len(lines) + 1 ELSE 1

\* The place of the title line, behind the last one when every line is blank.
TitleLine(lines) ==
  LET inked == {k \in DOMAIN lines : Trim(lines[k]) # << >>}
  IN IF inked = {} THEN Len(lines) + 1 ELSE Least(inked)

ParseTitle(line) == TrimStart(Trim(line), {"#", "sp"})

ParseBody(lines) == Trim(Join(lines))

ParseDescription(content) ==
  LET lines == Split(Unix(content))
      k == TitleLine(lines)
      title == ParseTitle(lines[k])
      body == ParseBody(SubSeq(lines, k + 1, Len(lines)))
  IN IF "nul" \in Range(content) THEN Err("Nul")
     ELSE IF k > Len(lines) THEN Err("NoTitle")
     ELSE IF title = << >> THEN Err("EmptyTitle")
     ELSE IF Len(title) > TitleLimit THEN Err("LongTitle")
     ELSE IF body = << >> THEN Err("NoBody")
     ELSE IF Octets(body) > BodyByteLimit \/ Len(body) > BodyCharLimit THEN Err("LongBody")
     ELSE Ok(title, body)

-----------------------------------------------------------------------------
(* read(): the path is looked at before it is opened, and again behind that,
   because something of the run may still be writing to it. *)

\* What may be at a path at one moment.
Regular(content, text) == [kind |-> "regular", content |-> content, text |-> text]
Other(kind) == [kind |-> kind]

\* open_regular(): O_NOFOLLOW refuses a link, and nothing waits for a FIFO.
OpenRegular(file) ==
  CASE file.kind \in {"missing", "link"} -> "Unreadable"
    [] file.kind = "fifo" -> "NotRegular"
    [] OTHER -> "Ok"

\* seen is what symlink_metadata() finds, opened what open() does.
ReadDescription(seen, opened) ==
  IF seen.kind = "missing" THEN Err("Missing")
  ELSE IF seen.kind # "regular" THEN Err("NotRegular")
  ELSE IF Octets(seen.content) > ReadLimit THEN Err("TooLarge")
  ELSE IF OpenRegular(opened) # "Ok" THEN Err(OpenRegular(opened))
  ELSE IF Octets(opened.content) > ReadLimit THEN Err("TooLarge")
  ELSE IF ~opened.text THEN Err("NotText")
  ELSE ParseDescription(opened.content)

-----------------------------------------------------------------------------
(* The pull request's title and body. *)

FitTitle(title) ==
  IF Len(title) <= TitleLimit THEN title
  ELSE SubSeq(title, 1, TitleLimit - Len(Ellipsis)) \o Ellipsis

\* The title of a run whose origin is a ticket, which has an identifier, or local.
FallbackTitle(origin) ==
  FitTitle(IF origin.kind = "ticket" THEN origin.identifier \o <<":", "sp">> \o origin.title
           ELSE origin.title)

\* footer(): where the run came from, by name.
Footer(origin) ==
  CASE origin.kind = "ticket" /\ origin.url -> <<"link", "plan", "run">>
    [] origin.kind = "ticket" /\ ~origin.url -> <<"identifier", "plan", "run">>
    [] OTHER -> <<"plan", "run">>

\* PrSpec::describe: written is the description that was read, if one could be.
Describe(origin, written) ==
  IF written.result = "Ok"
  THEN [title |-> written.title, body |-> written.body \o Footer(origin)]
  ELSE [title |-> FallbackTitle(origin), body |-> Footer(origin)]

-----------------------------------------------------------------------------
(* What a description says, by the places of its characters. *)

\* The place of the newline that ends the title's line, or the end.
TitleEnd(content) ==
  LET first == Least({i \in DOMAIN content : content[i] \notin Space})
      ends == {i \in DOMAIN content : i > first /\ content[i] = "nl"}
  IN IF ends = {} THEN Len(content) + 1 ELSE Least(ends)

\* The title: what is left of the first line that is not blank, between the "#"
\* and spaces in front of it and the white space behind it.
TitleWritten(content) ==
  LET ink == {i \in DOMAIN content : content[i] \notin Space /\ i < TitleEnd(content)}
      said == {i \in Least(ink) .. Greatest(ink) : content[i] \notin {"#", "sp"}}
  IN IF said = {} THEN << >> ELSE SubSeq(content, Least(said), Greatest(ink))

\* The body: everything behind that line, with one newline for each CR LF.
BodyWritten(content) ==
  LET ink == {i \in DOMAIN content : content[i] \notin Space /\ i > TitleEnd(content)}
  IN IF ink = {} THEN << >> ELSE Unix(SubSeq(content, Least(ink), Greatest(ink)))

Acceptable(content) ==
  /\ "nul" \notin Range(content)
  /\ \E i \in DOMAIN content : content[i] \notin Space
  /\ Len(TitleWritten(content)) \in 1 .. TitleLimit
  /\ Len(BodyWritten(content)) \in 1 .. BodyCharLimit
  /\ Octets(BodyWritten(content)) <= BodyByteLimit

-----------------------------------------------------------------------------
(* Properties. *)

\* The pull request says what finalize wrote, whole and nothing else, or nothing
\* of it: a description is used exactly when what was opened is a text file that
\* has a title and a body within the limits - whatever was at the path before it
\* was opened (read, open_regular, parse) - and a title never exceeds GitHub's
\* limit, whoever wrote it (fit_title, fallback_title, describe).
SaysWhatWasWritten(seen, opened, origin) ==
  LET readable(f) == f.kind = "regular" /\ Octets(f.content) <= ReadLimit
      usable == readable(seen) /\ readable(opened) /\ opened.text /\ Acceptable(opened.content)
      request == Describe(origin, ReadDescription(seen, opened))
  IN /\ request.body = (IF usable THEN BodyWritten(opened.content) ELSE << >>) \o Footer(origin)
     /\ usable => request.title = TitleWritten(opened.content)
     /\ ~usable => request.title # << >>
     /\ Len(request.title) <= TitleLimit
=============================================================================
