------------------------------ MODULE PlanFile ------------------------------
(* planfile.rs, the plan's reader and parser, what progress.rs makes of the
   tasks for a snapshot, and the title agent.rs opens a local run with.

   A line is what the patterns make of it: "fence" with its mark, its length and
   whether anything follows it, "task" with its number, "section" (## and not
   ###), "title" with its text (empty for a heading without one), "box", or
   "text" for everything else. *)
EXTENDS Naturals, Sequences, SequencesExt, FiniteSets

Fence(mark, len, bare) == [kind |-> "fence", mark |-> mark, len |-> len, bare |-> bare]
TaskHeader(number) == [kind |-> "task", number |-> number]
Section == [kind |-> "section"]
Heading(text) == [kind |-> "title", text |-> text]
Box(checked) == [kind |-> "box", checked |-> checked]

-----------------------------------------------------------------------------
(* parse(): one pass over the lines. *)

None == "none"

\* status() of a task's boxes
Checked(boxes) == {k \in DOMAIN boxes : boxes[k]}

Status(boxes) ==
  LET checked == Cardinality(Checked(boxes))
  IN CASE checked = 0 -> "pending"
       [] checked # 0 /\ checked = Len(boxes) -> "done"
       [] OTHER -> "active"

\* Mutant: any fence closes a block, so that the rest of it is read as the plan.
ClosesAny(line, opener) == line.kind = "fence"

\* closes_fence(): the fence is of the opener's mark and at least as long, and
\* nothing follows it.
ClosesFence(line, opener) ==
  /\ line.kind = "fence"
  /\ line.mark = opener.mark /\ line.len >= opener.len
  /\ line.bare

NewParse == [title |-> None, tasks |-> << >>, open |-> << >>, fence |-> << >>]

\* open is the task that is being read and fence the opener of the block, each as
\* a sequence of at most one.
CloseTask(p) ==
  [p EXCEPT !.tasks = @ \o [k \in DOMAIN p.open |->
                              [number |-> p.open[k].number, ord |-> p.open[k].ord,
                               status |-> Status(p.open[k].boxes),
                               boxes |-> p.open[k].boxes]],
            !.open = << >>]

OpenTask(p, line) ==
  LET closed == CloseTask(p)
  IN [closed EXCEPT !.open =
        <<[number |-> line.number, ord |-> Len(closed.tasks), boxes |-> << >>]>>]

ParseLine(p, line) ==
  CASE p.fence # << >> ->
         IF ClosesFence(line, p.fence[1]) THEN [p EXCEPT !.fence = << >>] ELSE p
    [] p.fence = << >> /\ line.kind = "fence" -> [p EXCEPT !.fence = <<line>>]
    [] p.fence = << >> /\ line.kind = "task" -> OpenTask(p, line)
    [] p.fence = << >> /\ line.kind = "section" -> CloseTask(p)
    [] p.fence = << >> /\ line.kind = "title" ->
         IF p.title = None /\ line.text # None THEN [p EXCEPT !.title = line.text] ELSE p
    [] p.fence = << >> /\ line.kind = "box" /\ p.open # << >> ->
         [p EXCEPT !.open[1].boxes = Append(@, line.checked)]
    [] OTHER -> p

Parse(lines) ==
  LET p == CloseTask(FoldLeft(ParseLine, NewParse, lines))
  IN [title |-> p.title, tasks |-> p.tasks]

-----------------------------------------------------------------------------
(* The file, and who reads it. *)

\* read(): what is at the path is a regular file, anything else, or nothing; text
\* says whether the bytes that are read, at most one more than the limit, are UTF-8.
ReadPlan(file, limit) ==
  CASE file.kind = "missing" -> "Unreadable"
    [] file.kind = "other" -> "NotRegular"
    [] file.kind = "file" /\ ~file.text -> "Unreadable"
    [] file.kind = "file" /\ file.text /\ file.size > limit -> "TooLarge"
    [] OTHER -> "Read"

\* read_tasks(): the tasks of a snapshot, none for a plan that has none or cannot
\* be read.
ReadTasks(file, limit) ==
  LET plan == Parse(file.lines)
  IN IF ReadPlan(file, limit) = "Read" /\ plan.tasks # << >> THEN plan.tasks ELSE None

\* plan_title(): the title a local run is opened with, if the plan has one; it is
\* cut to GitHub's limit as every title is (FitTitle of Descriptions).
PlanTitle(file, limit) ==
  IF ReadPlan(file, limit) = "Read" THEN Parse(file.lines).title ELSE None

-----------------------------------------------------------------------------
(* What a plan says, by whole blocks and whole tasks. *)

FirstOf(S) == CHOOSE i \in S : \A j \in S : i <= j

\* The lines that close the block that the fence at i opens.
Closers(lines, i) ==
  {j \in (i + 1) .. Len(lines) :
     /\ lines[j].kind = "fence" /\ lines[j].bare
     /\ lines[j].mark = lines[i].mark /\ lines[j].len >= lines[i].len}

\* The places of the lines that no fenced block holds; a block reaches to the
\* first line that closes it, or to the end.
Outside(lines) ==
  LET from[i \in Nat] ==
        CASE i > Len(lines) -> {}
          [] i <= Len(lines) /\ lines[i].kind # "fence" -> {i} \cup from[i + 1]
          [] OTHER -> IF Closers(lines, i) = {} THEN {}
                      ELSE from[FirstOf(Closers(lines, i)) + 1]
  IN from[1]

\* The k-th of S has k of S up to it.
InOrder(S) ==
  [k \in 1 .. Cardinality(S) |-> CHOOSE j \in S : Cardinality({i \in S : i <= j}) = k]

Headers(lines, out) == InOrder({i \in out : lines[i].kind = "task"})

\* The places of a task's own lines: those of out behind its header, up to the
\* next header or section, or to the end.
Own(lines, out, header) ==
  {j \in out : j > header /\ \A k \in out :
     header < k /\ k < j => lines[k].kind \notin {"task", "section"}}

BoxesOf(lines, out, header) ==
  LET boxes == InOrder({j \in Own(lines, out, header) : lines[j].kind = "box"})
  IN [k \in DOMAIN boxes |-> lines[boxes[k]].checked]

TaskOf(lines, out, header, k) ==
  LET boxes == BoxesOf(lines, out, header)
  IN [number |-> lines[header].number, ord |-> k - 1, boxes |-> boxes,
      status |-> CASE Checked(boxes) = {} -> "pending"
                   [] Checked(boxes) # {} /\ Checked(boxes) = DOMAIN boxes -> "done"
                   [] OTHER -> "active"]

TitleOf(lines, out) ==
  LET titles == {i \in out : lines[i].kind = "title" /\ lines[i].text # None}
  IN IF titles = {} THEN None ELSE lines[FirstOf(titles)].text

\* What the lines at the places of out say.
PlanIn(lines, out) ==
  LET headers == Headers(lines, out)
  IN [title |-> TitleOf(lines, out),
      tasks |-> [k \in DOMAIN headers |-> TaskOf(lines, out, headers[k], k)]]

PlanOf(lines) == PlanIn(lines, Outside(lines))

-----------------------------------------------------------------------------
(* Properties. *)

\* A reader of the plan sees exactly its tasks, its boxes and its title: nothing
\* of a fenced block, no box of an earlier task or a later section, no heading but
\* the first that has text - from a file it can use, and nothing at all from one
\* that it cannot (parse, read, read_tasks, read_title).
AsWritten(file, limit) ==
  LET usable == file.kind = "file" /\ file.text /\ file.size <= limit
      plan == PlanOf(file.lines)
  IN /\ ReadTasks(file, limit) = IF usable /\ plan.tasks # << >> THEN plan.tasks ELSE None
     /\ PlanTitle(file, limit) = IF usable THEN plan.title ELSE None
=============================================================================
