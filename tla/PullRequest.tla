---------------------------- MODULE PullRequest ----------------------------
(* The branch of a run and its pull request: what rxd decides before a run is
   asked for (branch.rs, describe() of rxd.rs), which branch ralphex then works
   on, and the sequence of pr.rs behind a clean exit, run after run in one
   checkout and against one repository on GitHub.

   A commit is the run that made it, a branch the set of commits on it.  Every
   run here asks for a pull request.  ralphex, git and GitHub are external: they
   are what the comments of the source say of them. *)
EXTENDS Naturals, Sequences, FiniteSets

CONSTANTS Branches,  \* names of branches
          Stem,      \* the branch a plan gives its name to
          MaxRuns,   \* a bound of the model: runs, one after the other
          MaxLate    \* a bound of the model: requests still on their way

Detached == "(detached)"
None == "(none)"

\* No branch has the name of what rxd refuses a run for.
ASSUME NamesAssumption ==
  /\ Stem \in Branches /\ "main" \in Branches
  /\ Branches \cap {None, Detached, "Detached", "WorktreeOffDefault", "Ignored"} = {}

VARIABLES
  head,        \* what the checkout has checked out
  local,       \* its branches
  originHead,  \* what refs/remotes/origin/HEAD names, if it is there
  remote,      \* the branches on GitHub
  ghDefault,   \* the default branch there
  prs,         \* the pull requests there
  late,        \* requests of steps that were killed, which may yet arrive
  run,         \* the run that has the slot
  outcome      \* how the runs before it ended

vars == <<head, local, originHead, remote, ghDefault, prs, late, run, outcome>>

COMMON_DEFAULTS == <<"main", "master", "trunk", "develop">>

\* The branches when b has those commits, whether it was there before or not.
With(branches, b, commits) ==
  [c \in DOMAIN branches \cup {b} |-> IF c = b THEN commits ELSE branches[c]]

CommitsOf(branches, b) == IF b \in DOMAIN branches THEN branches[b] ELSE {}

-----------------------------------------------------------------------------
(* branch.rs: decided before the run, as ralphex will decide. *)

\* default_branch()
DefaultBranch ==
  LET there == {i \in DOMAIN COMMON_DEFAULTS : COMMON_DEFAULTS[i] \in DOMAIN local}
  IN IF originHead # None THEN originHead
     ELSE IF there = {} THEN "master"
     ELSE COMMON_DEFAULTS[CHOOSE i \in there : \A j \in there : i <= j]

\* choose(): a branch, or why there is none.  A mutant: the name that was asked for,
\* or the plan's, wherever the checkout is.
ChooseAsked(requested, worktree) ==
  IF head = Detached THEN "Detached"
  ELSE IF requested # None THEN requested ELSE Stem

Choose(requested, worktree) ==
  IF head = Detached THEN "Detached"
  ELSE IF head = DefaultBranch THEN IF requested # None THEN requested ELSE Stem
  ELSE IF worktree THEN "WorktreeOffDefault"
  ELSE IF requested \in {None, head} THEN head
  ELSE "Ignored"

\* require_remote_base()
BaseIsThere == DefaultBranch \in DOMAIN remote

-----------------------------------------------------------------------------
(* GitHub: what a request does when it arrives. *)

PushRequest(b, commits) == [kind |-> "push", branch |-> b, commits |-> commits]
CreateRequest(b, base) == [kind |-> "create", branch |-> b, base |-> base]

\* A push is taken when it takes nothing away.
PushTaken(b, commits) == CommitsOf(remote, b) \subseteq commits

Pushed(b, commits) ==
  /\ remote' = With(remote, b, commits)
  /\ ghDefault' = IF DOMAIN remote = {} THEN b ELSE ghDefault
  /\ UNCHANGED prs

Opens(b) == {p \in prs : p.head = b /\ p.state = "open"}

\* One open pull request for a head and a base, which differ, and something in it.
CreateTaken(b, base) ==
  /\ b # base /\ {b, base} \subseteq DOMAIN remote
  /\ ~(remote[b] \subseteq remote[base])
  /\ \A p \in Opens(b) : p.base # base

Created(b, base) ==
  /\ prs' = prs \cup {[url |-> Cardinality(prs) + 1, head |-> b, base |-> base, state |-> "open"]}
  /\ UNCHANGED <<remote, ghDefault>>

Arrives(request) ==
  IF request.kind = "push"
  THEN PushTaken(request.branch, request.commits) /\ Pushed(request.branch, request.commits)
  ELSE CreateTaken(request.branch, request.base) /\ Created(request.branch, request.base)

-----------------------------------------------------------------------------
(* Before the run. *)

\* moved: the checkout has moved since rxd, or behind a run since ralphex, left it.
\* smooth: every step answered, and nobody else touched the repository meanwhile, nor
\* the checkout before the sequence had looked at it.
\* overtaken: the pull request that was found was merged before the push.
IdleRun == [at |-> "idle", origin |-> None, requested |-> None, worktree |-> FALSE,
            opened |-> None, made |-> None, branch |-> None, base |-> None, listed |-> 0,
            moved |-> FALSE, answered |-> TRUE, smooth |-> TRUE, overtaken |-> FALSE]

This == Len(outcome) + 1

\* describe(): rxd looks at the checkout and asks for a run, which waits for the slot.
Ask(requested, worktree) ==
  /\ run.at = "idle" /\ This <= MaxRuns
  /\ Choose(requested, worktree) \in Branches
  /\ BaseIsThere
  /\ run' = [IdleRun EXCEPT !.at = "asked", !.origin = "rxd", !.requested = requested,
                            !.worktree = worktree, !.opened = Choose(requested, worktree)]
  /\ UNCHANGED <<head, local, originHead, remote, ghDefault, prs, late, outcome>>

\* A job of the farm names its branch; nothing of the checkout is looked at.
Dispatch ==
  /\ run.at = "idle" /\ This <= MaxRuns
  /\ run' = [IdleRun EXCEPT !.at = "asked", !.origin = "farm", !.opened = Stem]
  /\ UNCHANGED <<head, local, originHead, remote, ghDefault, prs, late, outcome>>

\* The user checks something else out: while the request waits for the slot, between
\* two awaits behind ralphex's exit, while the sequence works or after it.
MoveHead(b) ==
  /\ b # head /\ b \in DOMAIN local \cup {Detached}
  /\ head' = b
  /\ run' = [run EXCEPT !.moved = @ \/ run.at \in {"asked", "checked_out"},
                        !.smooth = @ /\ run.at # "checked_out"]
  /\ UNCHANGED <<local, originHead, remote, ghDefault, prs, late, outcome>>

\* why: what git or GitHub refused a push or a creation for, if they did.
Over(result, url, why) ==
  /\ outcome' = Append(outcome,
       [result |-> result, url |-> url, why |-> why, origin |-> run.origin,
        made |-> run.made, branch |-> run.branch,
        smooth |-> run.smooth, overtaken |-> run.overtaken])
  /\ run' = IdleRun

-----------------------------------------------------------------------------
(* ralphex: it creates the branch it is given on the default branch, keeps working
   where it is on any other, and refuses a worktree there. *)

Makes == IF head = DefaultBranch THEN run.opened ELSE head

RalphexWorks ==
  /\ run.at = "asked"
  /\ ~(run.worktree /\ head # DefaultBranch)
  /\ local' = IF Makes = Detached THEN local
              ELSE With(local, Makes,
                        CommitsOf(local, Makes) \cup CommitsOf(local, head) \cup {This})
  /\ head' = IF run.worktree THEN head ELSE Makes
  /\ run' = [run EXCEPT !.made = Makes,
                        !.at = IF run.worktree THEN "list" ELSE "checked_out",
                        !.branch = run.opened, !.moved = FALSE]
  /\ UNCHANGED <<originHead, remote, ghDefault, prs, late, outcome>>

RalphexRefuses ==
  /\ run.at = "asked"
  /\ run.worktree /\ head # DefaultBranch
  /\ Over("nonzero_exit", 0, None)
  /\ UNCHANGED <<head, local, originHead, remote, ghDefault, prs, late>>

-----------------------------------------------------------------------------
(* The sequence of pr.rs.  A step succeeds, fails, or is killed at its timeout,
   and what it asked for may arrive all the same. *)

\* Mutant: the branch the run was opened with is pushed, whatever is checked out.
CheckedOutIgnored ==
  /\ run.at = "checked_out"
  /\ run' = [run EXCEPT !.at = "list"]
  /\ UNCHANGED <<head, local, originHead, remote, ghDefault, prs, late, outcome>>

\* checked_out() and pushed_branch()
CheckedOut ==
  /\ run.at = "checked_out"
  /\ \/ /\ head # Detached
        /\ run' = [run EXCEPT !.at = "list", !.branch = head]
     \/ run' = [run EXCEPT !.at = "list", !.answered = FALSE, !.smooth = FALSE]
  /\ UNCHANGED <<head, local, originHead, remote, ghDefault, prs, late, outcome>>

\* Mutant: only pull requests into what origin/HEAD names are looked up.
ListInto ==
  /\ run.at = "list"
  /\ LET open == {p \in Opens(run.branch) : p.base = originHead}
     IN \/ /\ open # {}
           /\ \E p \in open : run' = [run EXCEPT !.at = "push_existing", !.listed = p.url]
        \/ /\ open = {}
           /\ run' = [run EXCEPT !.at = "push"]
  /\ UNCHANGED <<head, local, originHead, remote, ghDefault, prs, late, outcome>>

\* gh pr list
List ==
  /\ run.at = "list"
  /\ \/ /\ Opens(run.branch) # {}
        /\ \E p \in Opens(run.branch) :
             run' = [run EXCEPT !.at = "push_existing", !.listed = p.url]
     \/ /\ Opens(run.branch) = {}
        /\ run' = [run EXCEPT !.at = "push"]
  /\ UNCHANGED <<head, local, originHead, remote, ghDefault, prs, late, outcome>>

\* The checkout has the branch, and GitHub nothing on it that the checkout lacks.
CanPush == run.branch \in DOMAIN local /\ PushTaken(run.branch, CommitsOf(local, run.branch))

\* Mutant: a run whose branch has a pull request is not pushed.
PushOnlyNew ==
  /\ run.at \in {"push_existing", "push"}
  /\ IF run.at = "push_existing"
     THEN Over("done", run.listed, None) /\ UNCHANGED <<remote, ghDefault, prs>>
     ELSE /\ CanPush
          /\ Pushed(run.branch, local[run.branch])
          /\ run' = [run EXCEPT !.at = "base"] /\ UNCHANGED outcome
  /\ UNCHANGED <<head, local, originHead, late>>

\* git push, of an existing branch and with an upstream
Push ==
  /\ run.at \in {"push_existing", "push"} /\ CanPush
  /\ Pushed(run.branch, local[run.branch])
  /\ IF run.at = "push_existing"
     THEN Over("done", run.listed, None)
     ELSE run' = [run EXCEPT !.at = "base"] /\ UNCHANGED outcome
  /\ UNCHANGED <<head, local, originHead, late>>

\* resolve_base(): what origin/HEAD names, or what GitHub says.
Base ==
  /\ run.at = "base"
  /\ run' = IF originHead # None THEN [run EXCEPT !.at = "create", !.base = originHead]
            ELSE [run EXCEPT !.at = "view"]
  /\ UNCHANGED <<head, local, originHead, remote, ghDefault, prs, late, outcome>>

View ==
  /\ run.at = "view"
  /\ run' = [run EXCEPT !.at = "create", !.base = ghDefault]
  /\ UNCHANGED <<head, local, originHead, remote, ghDefault, prs, late, outcome>>

\* gh pr create, which prints the URL, or fails to.
Create ==
  /\ run.at = "create"
  /\ CreateTaken(run.branch, run.base) /\ Created(run.branch, run.base)
  /\ \/ Over("done", Cardinality(prs) + 1, None)
     \/ Over("pr_create", 0, "no URL")
  /\ UNCHANGED <<head, local, originHead, late>>

Publishing == {"list", "push_existing", "push", "base", "view", "create"}

FailReason == IF run.at \in {"push_existing", "push"} THEN "git_push" ELSE "pr_create"

\* git or GitHub refuse what they are asked for.
Refused ==
  /\ \/ /\ run.at \in {"push_existing", "push"} /\ ~CanPush
        /\ Over("git_push", 0, "behind")
     \/ /\ run.at = "create" /\ ~CreateTaken(run.branch, run.base)
        /\ Over("pr_create", 0,
                CASE run.base = run.branch -> "into itself"
                  [] run.base # run.branch /\ run.base \notin DOMAIN remote -> "no base"
                  [] OTHER -> "there already")
  /\ UNCHANGED <<head, local, originHead, remote, ghDefault, prs, late>>

\* A step fails or does not answer; git symbolic-ref hands over to gh.
Fails ==
  /\ run.at \in Publishing
  /\ IF run.at = "base"
     THEN run' = [run EXCEPT !.at = "view", !.smooth = FALSE] /\ UNCHANGED outcome
     ELSE Over(FailReason, 0, "no answer")
  /\ UNCHANGED <<head, local, originHead, remote, ghDefault, prs, late>>

\* What the step asked for is on its way when git or gh is killed.
OnItsWay ==
  /\ run.at \in {"push_existing", "push", "create"}
  /\ Cardinality(late) < MaxLate
  /\ run.branch \in DOMAIN local
  /\ late' = late \cup {IF run.at = "create" THEN CreateRequest(run.branch, run.base)
                        ELSE PushRequest(run.branch, local[run.branch])}

\* The step is killed at its timeout.
Killed ==
  /\ OnItsWay
  /\ Over(FailReason, 0, "no answer")
  /\ UNCHANGED <<head, local, originHead, remote, ghDefault, prs>>

\* The whole sequence is dropped, wherever it is: a terminal event overtook the exit.
Dropped ==
  /\ run.at \in {"checked_out"} \cup Publishing
  /\ OnItsWay \/ UNCHANGED late
  /\ Over("abandoned", 0, None)
  /\ UNCHANGED <<head, local, originHead, remote, ghDefault, prs>>

-----------------------------------------------------------------------------
(* What else happens. *)

\* The run that has the slot, if any, is not alone with the repository.
Disturb(overtaken) ==
  run' = IF run.at = "idle" THEN run
         ELSE [run EXCEPT !.smooth = FALSE, !.overtaken = @ \/ overtaken]

ArriveLate ==
  /\ \E request \in late : Arrives(request) /\ late' = late \ {request}
  /\ Disturb(FALSE)
  /\ UNCHANGED <<head, local, originHead, outcome>>

\* A pull request is merged; whoever has just found it will push to it.
Merge ==
  /\ \E p \in prs :
       /\ p.state = "open"
       /\ remote' = [remote EXCEPT ![p.base] = @ \cup remote[p.head]]
       /\ prs' = (prs \ {p}) \cup {[p EXCEPT !.state = "merged"]}
       /\ Disturb(run.at = "push_existing" /\ run.listed = p.url)
  /\ UNCHANGED <<head, local, originHead, ghDefault, late, outcome>>

\* Somebody opens a pull request by hand, into any branch.
OpenByHand(b, base) ==
  /\ prs = {} /\ CreateTaken(b, base) /\ Created(b, base)
  /\ Disturb(FALSE)
  /\ UNCHANGED <<head, local, originHead, late, outcome>>

\* The default branch is pushed for the first time, as the refusal of rxd advises.
PushDefault ==
  /\ "main" \notin DOMAIN remote
  /\ Pushed("main", local["main"])
  /\ Disturb(FALSE)
  /\ UNCHANGED <<head, local, originHead, late, outcome>>

Done == run.at = "idle" /\ Len(outcome) = MaxRuns /\ UNCHANGED vars

-----------------------------------------------------------------------------
\* A checkout on its default branch, cloned or made by hand, with a feature branch
\* in it or without, of a repository that has the default branch or nothing yet, or
\* nothing any more: origin/HEAD outlives a repository that is made anew.
Init ==
  /\ head = "main"
  /\ local \in {[b \in B \cup {"main"} |-> {0}] : B \in SUBSET {"f"}}
  /\ remote \in {[b \in B |-> {0}] : B \in SUBSET {"main"}}
  /\ originHead \in {None, "main"}
  /\ ghDefault = IF DOMAIN remote = {} THEN None ELSE "main"
  /\ prs = {}
  /\ late = {}
  /\ run = IdleRun
  /\ outcome = << >>

Next ==
  \/ \E requested \in Branches \cup {None}, worktree \in BOOLEAN : Ask(requested, worktree)
  \/ Dispatch
  \/ \E b \in Branches \cup {Detached} : MoveHead(b)
  \/ RalphexWorks \/ RalphexRefuses
  \/ CheckedOut \/ List \/ Push \/ Base \/ View \/ Create \/ Refused \/ Fails \/ Killed \/ Dropped
  \/ ArriveLate \/ Merge \/ PushDefault
  \/ \E b, base \in Branches : OpenByHand(b, base)
  \/ Done

Spec == Init /\ [][Next]_vars

-----------------------------------------------------------------------------
(* Properties. *)

\* What branch.rs is for: the branch rxd decides on is the one ralphex then
\* commits to, and ralphex refuses nothing, unless the user checked out something
\* else while the request waited for the slot.
DecidesAsRalphex ==
  run.at = "asked" /\ run.origin = "rxd" /\ ~run.moved =>
    /\ Makes = run.opened
    /\ run.worktree => head = DefaultBranch

\* A run that is reported done has a pull request, of the branch its commits were
\* pushed on, and they are in it or already merged - but for a pull request that
\* was merged between its lookup and the push, and for a run whose commits are
\* not on the branch that was pushed (see PushesWhatWasMade).
DoneIsPublished ==
  \A r \in DOMAIN outcome :
    LET o == outcome[r]
    IN o.result = "done" /\ o.made = o.branch =>
         /\ o.made \in DOMAIN remote /\ r \in remote[o.made]
         /\ \E p \in prs :
              /\ p.url = o.url /\ p.head = o.made
              /\ p.state = "open" \/ o.overtaken \/ r \in remote[p.base]

\* Another branch than the one the run committed to is pushed only when git did
\* not say what is checked out, or nothing was, or the user checked out something
\* else behind ralphex's exit: a checkout that changed behind the request's back is
\* no reason (checked_out, pushed_branch).  And it is never the checkout's default
\* branch, unless rxd was asked for that branch by name, the plan is named like it,
\* or the user checked it out behind ralphex's exit.
PushesWhatWasMade ==
  run.at \in Publishing /\ ~run.moved =>
    /\ run.branch = run.made \/ ~run.answered
    /\ run.branch = DefaultBranch => DefaultBranch \in {run.requested, Stem}

\* Trying again works: a run whose steps all answer, and that nobody gets in the
\* way of, is done, whatever earlier runs left behind when their steps were killed
\* or their sequence was dropped.  It is refused only where the branch has got commits
\* the checkout lacks, is not in the checkout, or is itself the default branch, as
\* origin/HEAD or GitHub names it; that its base is missing is what only a job of
\* the farm finds out so late (require_remote_base).
RetrySucceeds ==
  \A r \in DOMAIN outcome :
    LET o == outcome[r]
    IN o.smooth /\ o.result \in {"git_push", "pr_create"} =>
         \/ o.why \in {"no answer", "no URL", "behind"}
         \/ o.why = "into itself" /\ o.branch \in {originHead, ghDefault}
         \/ o.why = "no base" /\ o.origin = "farm"
=============================================================================
