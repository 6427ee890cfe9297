-------------------------------- MODULE MCApart --------------------------------
(* Five parts of the daemon that share no state with the others, nor with one
   another, side by side in one instance: each behaviour of it sets up one of
   them.  The assembler of lines and the shutdown budget run as they are; the
   scanner and the two parsers are applied to every text up to a length, which
   grows by a character or a line at a time. *)
EXTENDS ShutdownBudget, Terminal, Ansi, PlanFile, Descriptions

CONSTANTS MaxText, MaxPlan, MaxDescription

VARIABLES bench,  \* the part that is set up
          text    \* what the scanner or a parser is given

vars == <<bench, text, budgetVars, terminalVars>>

\* Three of one mark close what three of it opened, and four of it do; nothing
\* else does.
PlanLines ==
  {Fence("back", 3, TRUE), Fence("back", 3, FALSE), Fence("back", 4, TRUE), Fence("tilde", 3, TRUE),
   TaskHeader(1), Section, Heading("none"), Heading("A"), Heading("B"), Box(TRUE), Box(FALSE)}

Texts ==
  {[bench |-> "escapes", of |-> Characters, max |-> MaxText],
   [bench |-> "plan", of |-> PlanLines, max |-> MaxPlan],
   [bench |-> "description", of |-> Written, max |-> MaxDescription]}

Init ==
  /\ bench \in {"lines", "budget"} \cup {t.bench : t \in Texts}
  /\ text = << >>
  /\ BudgetInit /\ TerminalInit
  /\ bench # "budget" =>
       drain = (CHOOSE d \in DrainTimeouts : TRUE) /\ installed = ExitTimeout(drain)

Grow ==
  /\ \E t \in Texts :
       /\ bench = t.bench /\ Len(text) < t.max
       /\ \E c \in t.of : text' = Append(text, c)
  /\ UNCHANGED <<bench, budgetVars, terminalVars>>

Grown ==
  /\ \E t \in Texts : bench = t.bench /\ Len(text) = t.max
  /\ UNCHANGED vars

Next ==
  \/ bench = "lines" /\ TerminalNext /\ UNCHANGED <<bench, text, budgetVars>>
  \/ bench = "budget" /\ BudgetNext /\ UNCHANGED <<bench, text, terminalVars>>
  \/ Grow
  \/ Grown

Spec == Init /\ [][Next]_vars

-----------------------------------------------------------------------------
(* Properties. *)

\* The farm's copy of the output is the output without its escape sequences, no
\* more and no less, wherever a sequence is broken off, cut or nested (plain).
EscapesGone == bench = "escapes" => Plain(text) = Visible(text)

\* The files a plan may be found as: the limit is 10 bytes.
Files(lines) ==
  {[kind |-> kind, text |-> utf8, size |-> size, lines |-> lines] :
     kind \in {"file", "other", "missing"}, utf8 \in BOOLEAN, size \in {10, 11}}

\* Every reader of a plan sees what the plan says (AsWritten in PlanFile).
PlanAsWritten == bench = "plan" => \A file \in Files(text) : AsWritten(file, 10)

\* What may be at the description's path when it is looked at, and when it is opened.
Seen(content) ==
  {Regular(<<"x">>, TRUE), Regular(content, TRUE), Other("missing"), Other("link")}
Opened(content) ==
  {Regular(content, utf8) : utf8 \in BOOLEAN} \cup {Other(k) : k \in {"missing", "link", "fifo"}}

Origins ==
  [kind : {"ticket"}, identifier : {<<"i">>}, title : {<<"x">>, << >>}, url : BOOLEAN]
    \cup [kind : {"local"}, title : {<<"x">>, <<"x", "x", "x", "x">>}]

\* A pull request says what finalize wrote (SaysWhatWasWritten in Descriptions).
DescriptionAsWritten ==
  bench = "description" =>
    \A seen \in Seen(text), opened \in Opened(text), origin \in Origins :
      SaysWhatWasWritten(seen, opened, origin)
=============================================================================
