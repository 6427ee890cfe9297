--------------------------- MODULE PullRequestProofs ---------------------------
(* Proofs about PullRequest: its four safety properties, for any names of branches,
   any number of runs in one checkout and of requests on their way.

   Chosen is the inductive invariant of the two that are about the branch of a run.
   Kept adds what the two about its outcome rest on: that no commit is ahead of the
   runs there have been (NoCommitAhead), where the commits of this run have got to
   (OnBranch, OnGitHub), and what nobody but this run can have changed while it is
   smooth (Alone). *)
EXTENDS PullRequest, SequenceTheorems, TLAPS

-----------------------------------------------------------------------------
(* The branch of a run. *)

\* What DefaultBranch is about, and that main is there.
DefaultIsMain == "main" \in DOMAIN local /\ originHead \in {None, "main"}

\* run has the fields of IdleRun.
IsRun ==
  run = [at |-> run.at, origin |-> run.origin, requested |-> run.requested,
         worktree |-> run.worktree, opened |-> run.opened, made |-> run.made,
         branch |-> run.branch, base |-> run.base, listed |-> run.listed, moved |-> run.moved,
         answered |-> run.answered, smooth |-> run.smooth, overtaken |-> run.overtaken]

\* A branch that is main only for a run that was asked to be on main.
MainForCause(b) == b = "main" => "main" \in {run.requested, Stem}

\* A run that waits for the slot: describe() looked at this checkout, if it has not moved.
Before ==
  run.at = "asked" =>
    /\ MainForCause(run.opened)
    /\ run.origin = "rxd" /\ ~run.moved =>
         /\ head # "main" => run.opened = head
         /\ run.worktree => head = "main"

\* A run that works, or is published; nothing but what ralphex made is claimed of one
\* whose checkout has moved behind ralphex's exit.
AtWork ==
  /\ run.at \in {"checked_out"} \cup Publishing =>
       MainForCause(run.made) /\ (MainForCause(run.branch) \/ run.moved)
  /\ run.at = "checked_out" => run.made = head \/ run.moved
  /\ run.at \in Publishing => run.branch = run.made \/ ~run.answered \/ run.moved

\* The inductive invariant of the branch of a run.
Chosen == DefaultIsMain /\ IsRun /\ Before /\ AtWork

\* main is the first of the usual names, and the only name origin/HEAD ever has here.
LEMMA DefaultBranchIsMain == ASSUME DefaultIsMain PROVE DefaultBranch = "main"
<1>1. CASE originHead # None
  BY <1>1 DEF DefaultIsMain, DefaultBranch
<1>2. CASE originHead = None
  <2> DEFINE there == {i \in DOMAIN COMMON_DEFAULTS : COMMON_DEFAULTS[i] \in DOMAIN local}
  <2>1. 1 \in there /\ \A j \in there : 1 <= j
    BY DEF DefaultIsMain, COMMON_DEFAULTS
  <2>2. \A i \in there : (\A j \in there : i <= j) => i = 1
    BY <2>1 DEF COMMON_DEFAULTS
  <2>3. (CHOOSE i \in there : \A j \in there : i <= j) = 1
    BY <2>1, <2>2
  <2>. HIDE DEF there
  <2>4. DefaultBranch = COMMON_DEFAULTS[1]
    BY <1>2, <2>1, <2>3 DEF DefaultBranch, there
  <2>. QED
    BY <2>4 DEF COMMON_DEFAULTS
<1>. QED
  BY <1>1, <1>2

\* choose() decides as the checkout is, which is how ralphex will find it.
LEMMA AskKeeps ==
  ASSUME Chosen, NEW requested \in Branches \cup {None}, NEW worktree \in BOOLEAN,
         Ask(requested, worktree)
  PROVE  Chosen'
BY DefaultBranchIsMain, NamesAssumption
DEF Chosen, DefaultIsMain, IsRun, Before, AtWork, MainForCause, Publishing, Ask, Choose, IdleRun, None, Detached

\* The branch of a job is the plan's.
LEMMA DispatchKeeps == ASSUME Chosen, Dispatch PROVE Chosen'
BY NamesAssumption
DEF Chosen, DefaultIsMain, IsRun, Before, AtWork, MainForCause, Publishing, Dispatch, IdleRun, None, Detached

\* Once the checkout has moved nothing is claimed of a run that waits, or that was
\* about to look at it; a run that has looked is not concerned.
LEMMA MoveHeadKeeps == ASSUME Chosen, NEW b \in Branches \cup {Detached}, MoveHead(b) PROVE Chosen'
BY NamesAssumption
DEF Chosen, DefaultIsMain, IsRun, Before, AtWork, MainForCause, Publishing, MoveHead

\* No run has the slot after the end of one.
LEMMA OverKeeps ==
  ASSUME Chosen, NEW result, NEW url, NEW why, Over(result, url, why), UNCHANGED <<local, originHead>>
  PROVE Chosen'
BY DEF Chosen, DefaultIsMain, IsRun, Before, AtWork, MainForCause, Publishing, Over, IdleRun

\* On main ralphex makes the branch it was given, elsewhere it stays.
LEMMA RalphexWorksKeeps == ASSUME Chosen, RalphexWorks PROVE Chosen'
<1>1. DefaultBranch = "main"
  BY DefaultBranchIsMain DEF Chosen
<1>2. DefaultIsMain'
  <2>1. DOMAIN local' = DOMAIN local \cup (IF Makes = Detached THEN {} ELSE {Makes})
    BY DEF RalphexWorks, With
  <2>. QED
    BY <2>1 DEF RalphexWorks, Chosen, DefaultIsMain
<1>3. IsRun'
  BY DEF RalphexWorks, Chosen, IsRun
<1>. QED
  BY <1>1, <1>2, <1>3 DEF RalphexWorks, Makes, Chosen, IsRun, Before, AtWork, MainForCause, Publishing

\* pushed_branch() asks git what is checked out, or falls back and is not answered.
LEMMA SequenceKeeps ==
  ASSUME Chosen,
         \/ CheckedOut \/ List \/ Push \/ Base \/ View \/ Create
         \/ Refused \/ Fails \/ Killed \/ Dropped
  PROVE Chosen'
<1>. USE DEF IsRun, Publishing, Before, AtWork, MainForCause
<1>1. CASE CheckedOut
  BY <1>1 DEF CheckedOut, Chosen, DefaultIsMain
<1>2. CASE List
  BY <1>2 DEF List, Chosen, DefaultIsMain
<1>3. CASE Push
  BY <1>3, OverKeeps DEF Push, Chosen, DefaultIsMain
<1>4. CASE Base \/ View
  BY <1>4 DEF Base, View, Chosen, DefaultIsMain
<1>5. CASE Create \/ Refused \/ Killed \/ Dropped
  BY <1>5, OverKeeps DEF Create, Refused, Killed, Dropped
<1>6. CASE Fails
  BY <1>6, OverKeeps DEF Fails, Chosen, DefaultIsMain
<1>. QED
  BY <1>1, <1>2, <1>3, <1>4, <1>5, <1>6

\* Nobody else touches the checkout.
LEMMA ElseKeeps ==
  ASSUME Chosen,
         \/ ArriveLate \/ Merge \/ PushDefault
         \/ \E b, base \in Branches : OpenByHand(b, base)
         \/ RalphexRefuses \/ UNCHANGED vars
  PROVE Chosen'
<1>. USE DEF IsRun, Publishing, Before, AtWork, MainForCause
<1>1. CASE RalphexRefuses
  BY <1>1, OverKeeps DEF RalphexRefuses
<1>2. CASE UNCHANGED vars
  BY <1>2 DEF vars, Chosen, DefaultIsMain
<1>3. ASSUME NEW o, Disturb(o), UNCHANGED <<head, local, originHead>> PROVE Chosen'
  BY <1>3 DEF Disturb, Chosen, DefaultIsMain
<1>. QED
  BY <1>1, <1>2, <1>3 DEF ArriveLate, Merge, PushDefault, OpenByHand

\* origin/HEAD names main, or nothing.
LEMMA InitChosen == Init => Chosen
<1>. SUFFICES ASSUME Init PROVE Chosen
  OBVIOUS
<1>1. DefaultIsMain
  BY DEF Init, DefaultIsMain
<1>. QED
  BY <1>1 DEF Init, Chosen, IsRun, Before, AtWork, Publishing, IdleRun

\* Every step.
LEMMA ChosenStep == Chosen /\ [Next]_vars => Chosen'
BY AskKeeps, DispatchKeeps, MoveHeadKeeps, RalphexWorksKeeps, SequenceKeeps, ElseKeeps
DEF Next, Done

\* Chosen is an invariant.
LEMMA ChosenInvariant == Spec => []Chosen
BY ChosenStep, InitChosen, PTL DEF Spec

\* For any branches: the branch rxd decides on (choose, default_branch) is the one
\* ralphex commits to, unless the checkout moved while the request waited.
THEOREM DecisionIsRalphexs == Spec => []DecidesAsRalphex
<1>1. Chosen => DecidesAsRalphex
  BY DefaultBranchIsMain DEF Chosen, Before, DecidesAsRalphex, Makes
<1>. QED
  BY <1>1, ChosenInvariant, PTL

\* For any branches: the sequence of pr.rs pushes the branch the run committed to
\* unless git did not say which it is or the user has moved the checkout behind
\* ralphex's exit (checked_out, pushed_branch), and the default branch only for a run
\* that was asked to be on it, or whose checkout the user has moved then.
THEOREM PushIsOfTheRun == Spec => []PushesWhatWasMade
<1>1. Chosen => PushesWhatWasMade
  BY DefaultBranchIsMain DEF Chosen, AtWork, MainForCause, PushesWhatWasMade
<1>. QED
  BY <1>1, ChosenInvariant, PTL
-----------------------------------------------------------------------------
(* What a run leaves on GitHub. *)

Working == {"checked_out"} \cup Publishing

Published == {"base", "view", "create"}

\* What is in a sequence.
Entries(s) == {s[i] : i \in DOMAIN s}

\* outcome is a sequence.
OutcomeOK == outcome \in Seq(Entries(outcome))

\* Pull requests are between branches that are there, of which one is the default.
GitHubOK ==
  /\ DOMAIN remote # {} => ghDefault \in DOMAIN remote
  /\ \A p \in prs :
       /\ p = [url |-> p.url, head |-> p.head, base |-> p.base, state |-> p.state]
       /\ {p.head, p.base} \subseteq DOMAIN remote
       /\ p.state \in {"open", "merged"}

\* What a run is called, and that a run is smooth only if git answered it and nobody
\* moved the checkout before it had looked.
NamesOK ==
  /\ run.at = "asked" => run.opened # Detached
  /\ run.at \in Working => run.branch # Detached
  /\ run.smooth => run.answered
  /\ run.at \in Working /\ run.smooth => ~run.moved
  /\ run.at # "idle" => run.origin \in {"rxd", "farm"}

\* The runs that may have committed.
Now == Len(outcome) + (IF run.at \in Working THEN 1 ELSE 0)

\* No run later than Now has a commit anywhere.
NoCommitAhead ==
  /\ \A b \in DOMAIN local : local[b] \subseteq 0..Now
  /\ \A b \in DOMAIN remote : remote[b] \subseteq 0..Now
  /\ \A q \in late : q.kind = "push" => q.commits \subseteq 0..Now

\* The commits of the run are on the branch ralphex made, here ...
OnBranch ==
  run.at \in Working /\ run.made # Detached =>
    run.made \in DOMAIN local /\ This \in local[run.made]

\* ... and there once it was pushed; the pull request that was found is still there.
OnGitHub ==
  /\ run.at \in Published => run.branch \in DOMAIN remote
  /\ run.at \in Published /\ run.branch = run.made => This \in remote[run.made]
  /\ run.at = "push_existing" =>
       \E p \in prs : /\ p.url = run.listed /\ p.head = run.branch
                      /\ p.state = "open" \/ run.overtaken

\* While nobody gets in its way the commits of a run are on GitHub on its own branch
\* at most, and that has no open pull request that was not found.
Alone ==
  run.smooth =>
    /\ run.at \in Working =>
         \A b \in DOMAIN remote :
           remote[b] \subseteq 0..Len(outcome) \/ (run.at \in Published /\ b = run.branch)
    /\ run.at \in {"push"} \cup Published => Opens(run.branch) = {}

\* The base is what origin/HEAD or GitHub names.  require_remote_base(): that of a run
\* of rxd was on GitHub, where nothing goes.
BaseOK ==
  /\ run.at = "create" => run.base \in {originHead, ghDefault}
  /\ run.origin = "rxd" =>
       /\ "main" \in DOMAIN remote
       /\ run.at = "create" => run.base \in DOMAIN remote

\* A run that was refused for being on its base had been pushed: GitHub has had its
\* default branch since.
DefaultKept == \A r \in DOMAIN outcome : outcome[r].why = "into itself" => DOMAIN remote # {}

\* With the two properties themselves.
Kept ==
  /\ OutcomeOK /\ GitHubOK /\ NamesOK /\ NoCommitAhead
  /\ OnBranch /\ OnGitHub /\ Alone /\ BaseOK
  /\ DoneIsPublished /\ DefaultKept /\ RetrySucceeds

Inv == Chosen /\ Kept

\* What is on GitHub stays there: branches only gain commits, the default branch is the
\* default branch, and a pull request stays open, or is merged with all its branch has.
Grown ==
  /\ DOMAIN remote # {} => ghDefault' = ghDefault
  /\ \A b \in DOMAIN remote : b \in DOMAIN remote' /\ remote[b] \subseteq remote'[b]
  /\ \A p \in prs : \E q \in prs' :
       /\ q.url = p.url /\ q.head = p.head /\ q.base = p.base
       /\ q.state = p.state \/ remote[p.head] \subseteq remote'[p.base]

\* What a step leaves on GitHub, and on the way there, is of no later run.
AheadOfNone ==
  /\ \A b \in DOMAIN remote' : remote'[b] \subseteq 0..Now
  /\ \A q \in late' : q.kind = "push" => q.commits \subseteq 0..Now

\* What the two properties say of the outcome of the run that ends.
Truthful(result, url, why) ==
  /\ result = "done" /\ run.made = run.branch =>
       /\ run.made \in DOMAIN remote' /\ This \in remote'[run.made]
       /\ \E p \in prs' : /\ p.url = url /\ p.head = run.made
                          /\ p.state = "open" \/ run.overtaken
  /\ run.smooth /\ result \in {"git_push", "pr_create"} =>
       \/ why \in {"no answer", "no URL", "behind"}
       \/ why = "into itself" /\ run.branch \in {originHead, ghDefault}
       \/ why = "no base" /\ run.origin = "farm"
  /\ why = "into itself" => DOMAIN remote # {}

\* Append leaves the entries of a sequence where they were, whatever their type.
LEMMA Appended ==
  ASSUME NEW s, NEW e, s \in Seq(Entries(s)), NEW t, t = Append(s, e)
  PROVE  /\ t \in Seq(Entries(t))
         /\ Len(s) \in Nat /\ DOMAIN s = 1..Len(s) /\ Len(t) = Len(s) + 1
         /\ DOMAIN t = 1..Len(t) /\ t[Len(s) + 1] = e /\ \A i \in DOMAIN s : t[i] = s[i]
<1>. DEFINE S == Entries(s) \cup {e}
<1>1. s \in Seq(S)
  BY SMT
<1>2. Len(s) \in Nat /\ DOMAIN s = 1..Len(s)
  BY <1>1
<1>3. t \in Seq(S) /\ Len(t) = Len(s) + 1 /\ t[Len(s) + 1] = e /\ \A i \in DOMAIN s : t[i] = s[i]
  BY <1>1
<1>4. t \in [1..Len(t) -> S]
  BY <1>3, LenProperties
<1>5. t \in [1..Len(t) -> Entries(t)]
  BY <1>4 DEF Entries
<1>6. t \in Seq(Entries(t))
  <2>1. Len(t) \in Nat
    BY <1>2, <1>3
  <2>2. Seq(Entries(t)) = UNION {[1..n -> Entries(t)] : n \in Nat}
    BY SeqDef
  <2>. QED
    BY <1>5, <2>1, <2>2, Zenon
<1>. QED
  BY <1>2, <1>3, <1>4, <1>6

\* The runs that have ended are numbered from one.
LEMMA Counted == ASSUME OutcomeOK PROVE Len(outcome) \in Nat /\ DOMAIN outcome = 1..Len(outcome)
BY LenProperties DEF OutcomeOK

\* A run that is published stays so as GitHub grows.
LEMMA StaysPublished ==
  ASSUME GitHubOK, DoneIsPublished, Grown, NEW r \in DOMAIN outcome,
         outcome[r].result = "done", outcome[r].made = outcome[r].branch
  PROVE  /\ outcome[r].made \in DOMAIN remote' /\ r \in remote'[outcome[r].made]
         /\ \E q \in prs' :
              /\ q.url = outcome[r].url /\ q.head = outcome[r].made
              /\ q.state = "open" \/ outcome[r].overtaken \/ r \in remote'[q.base]
<1>1. outcome[r].made \in DOMAIN remote /\ r \in remote[outcome[r].made]
  BY DEF DoneIsPublished
<1>2. PICK p \in prs :
        /\ p.url = outcome[r].url /\ p.head = outcome[r].made
        /\ p.state = "open" \/ outcome[r].overtaken \/ r \in remote[p.base]
  BY DEF DoneIsPublished
<1>3. PICK q \in prs' :
        /\ q.url = p.url /\ q.head = p.head /\ q.base = p.base
        /\ q.state = p.state \/ remote[p.head] \subseteq remote'[p.base]
  BY DEF Grown
<1>4. p.base \in DOMAIN remote
  BY DEF GitHubOK
<1>5. q.state = "open" \/ outcome[r].overtaken \/ r \in remote'[q.base]
  BY <1>1, <1>2, <1>3, <1>4 DEF Grown
<1>. QED
  BY <1>1, <1>2, <1>3, <1>5 DEF Grown

\* So does what a run was refused for.
LEMMA StaysRefused ==
  ASSUME RetrySucceeds, DefaultKept, Grown, UNCHANGED originHead,
         NEW r \in DOMAIN outcome, NEW o, o = outcome[r]
  PROVE  /\ o.why = "into itself" => DOMAIN remote' # {}
         /\ o.smooth /\ o.result \in {"git_push", "pr_create"} =>
              \/ o.why \in {"no answer", "no URL", "behind"}
              \/ o.why = "into itself" /\ o.branch \in {originHead', ghDefault'}
              \/ o.why = "no base" /\ o.origin = "farm"
BY DEF RetrySucceeds, DefaultKept, Grown

\* A run ends with an outcome the properties allow.
LEMMA OverSafe ==
  ASSUME Inv, NEW result, NEW url, NEW why, Over(result, url, why),
         UNCHANGED <<local, originHead>>, Grown, GitHubOK', AheadOfNone,
         Truthful(result, url, why)
  PROVE  Kept'
<1>. DEFINE o == [result |-> result, url |-> url, why |-> why, origin |-> run.origin,
                  made |-> run.made, branch |-> run.branch,
                  smooth |-> run.smooth, overtaken |-> run.overtaken]
<1>1. outcome' = Append(outcome, o) /\ run' = IdleRun
  BY DEF Over
<1>. HIDE DEF o
<1>2. outcome \in Seq(Entries(outcome))
  BY DEF OutcomeOK, Inv, Kept
<1>3. /\ outcome' \in Seq(Entries(outcome'))
      /\ Len(outcome) \in Nat /\ DOMAIN outcome = 1..Len(outcome)
      /\ Len(outcome') = Len(outcome) + 1 /\ DOMAIN outcome' = 1..Len(outcome')
      /\ outcome'[This] = o /\ \A r \in DOMAIN outcome : outcome'[r] = outcome[r]
  <2>1. /\ outcome' \in Seq(Entries(outcome'))
        /\ Len(outcome) \in Nat /\ DOMAIN outcome = 1..Len(outcome)
        /\ Len(outcome') = Len(outcome) + 1 /\ DOMAIN outcome' = 1..Len(outcome')
    BY <1>1, <1>2, Appended
  <2>2. outcome'[Len(outcome) + 1] = o
    BY <1>1, <1>2, Appended
  <2>3. \A r \in DOMAIN outcome : outcome'[r] = outcome[r]
    BY <1>1, <1>2, Appended
  <2>. QED
    BY <2>1, <2>2, <2>3 DEF This
<1>4. NoCommitAhead'
  <2>1. Now' = Len(outcome) + 1
    BY <1>1, <1>3 DEF Now, IdleRun, Working, Publishing
  <2>2. Now \in {Len(outcome), Len(outcome) + 1}
    BY <1>3 DEF Now
  <2>3. 0..Now \subseteq 0..Now'
    BY <1>3, <2>1, <2>2
  <2>. QED
    BY <2>3 DEF NoCommitAhead, AheadOfNone, Inv, Kept
<1>5. NamesOK' /\ OnBranch' /\ OnGitHub' /\ Alone' /\ BaseOK'
  BY <1>1
  DEF NamesOK, OnBranch, OnGitHub, Alone, BaseOK, IdleRun, Working, Published, Publishing, None
<1>6. \A r \in DOMAIN outcome' : r \in DOMAIN outcome \/ r = This
  BY <1>3 DEF This
<1>7. DoneIsPublished'
  <2>1. ASSUME NEW r \in DOMAIN outcome PROVE
          outcome'[r].result = "done" /\ outcome'[r].made = outcome'[r].branch =>
            /\ outcome'[r].made \in DOMAIN remote' /\ r \in remote'[outcome'[r].made]
            /\ \E p \in prs' :
                 /\ p.url = outcome'[r].url /\ p.head = outcome'[r].made
                 /\ p.state = "open" \/ outcome'[r].overtaken \/ r \in remote'[p.base]
    BY <1>3, StaysPublished DEF Inv, Kept
  <2>2. o.result = "done" /\ o.made = o.branch =>
          /\ o.made \in DOMAIN remote' /\ This \in remote'[o.made]
          /\ \E p \in prs' :
               /\ p.url = o.url /\ p.head = o.made
               /\ p.state = "open" \/ o.overtaken \/ This \in remote'[p.base]
    BY DEF o, Truthful
  <2>. QED
    BY <1>3, <1>6, <2>1, <2>2 DEF DoneIsPublished
<1>8. RetrySucceeds'
  <2>1. o.smooth /\ o.result \in {"git_push", "pr_create"} =>
          \/ o.why \in {"no answer", "no URL", "behind"}
          \/ o.why = "into itself" /\ o.branch \in {originHead', ghDefault'}
          \/ o.why = "no base" /\ o.origin = "farm"
    BY DEF o, Truthful, Grown
  <2>2. ASSUME NEW r \in DOMAIN outcome PROVE
          outcome'[r].smooth /\ outcome'[r].result \in {"git_push", "pr_create"} =>
            \/ outcome'[r].why \in {"no answer", "no URL", "behind"}
            \/ outcome'[r].why = "into itself" /\ outcome'[r].branch \in {originHead', ghDefault'}
            \/ outcome'[r].why = "no base" /\ outcome'[r].origin = "farm"
    BY <1>3, StaysRefused DEF Inv, Kept
  <2>. QED
    BY <1>3, <1>6, <2>1, <2>2 DEF RetrySucceeds
<1>10. DefaultKept'
  <2>1. o.why = "into itself" => DOMAIN remote' # {}
    BY DEF o, Truthful, Grown
  <2>. QED
    BY <1>3, <1>6, <2>1, StaysRefused DEF DefaultKept, Inv, Kept
<1>9. OutcomeOK'
  BY <1>3 DEF OutcomeOK
<1>. QED
  BY <1>9, <1>4, <1>5, <1>7, <1>8, <1>10 DEF Kept

\* A push that is taken takes nothing away, and brings commits that are in the checkout.
LEMMA PushGrows ==
  ASSUME Inv, NEW b, NEW commits, commits \subseteq 0..Now, PushTaken(b, commits), Pushed(b, commits)
  PROVE  Grown /\ GitHubOK' /\ \A c \in DOMAIN remote' : remote'[c] \subseteq 0..Now
<1>1. DOMAIN remote' = DOMAIN remote \cup {b}
  BY DEF Pushed, With
<1>2. \A c \in DOMAIN remote' : remote'[c] = IF c = b THEN commits ELSE remote[c]
  BY DEF Pushed, With
<1>3. b \in DOMAIN remote => remote[b] \subseteq commits
  BY DEF PushTaken, CommitsOf
<1>4. Grown
  BY <1>1, <1>2, <1>3 DEF Grown, Pushed
<1>5. GitHubOK'
  BY <1>1 DEF GitHubOK, Inv, Kept, Pushed
<1>. QED
  BY <1>1, <1>2, <1>4, <1>5 DEF Inv, Kept, NoCommitAhead

\* A pull request is one more.
LEMMA CreateGrows ==
  ASSUME Inv, NEW b, NEW base, CreateTaken(b, base), Created(b, base)
  PROVE  Grown /\ GitHubOK' /\ \A c \in DOMAIN remote' : remote'[c] \subseteq 0..Now
<1>1. Grown
  BY DEF Grown, Created
<1>2. GitHubOK'
  BY DEF GitHubOK, Inv, Kept, Created, CreateTaken
<1>. QED
  BY <1>1, <1>2 DEF Inv, Kept, NoCommitAhead, Created

\* Somebody else changes what is on GitHub: the run that has the slot is not smooth
\* any more, and overtaken if it was the pull request it found.
LEMMA DisturbSafe ==
  ASSUME Inv, NEW o \in BOOLEAN, Disturb(o), UNCHANGED <<local, originHead, outcome>>,
         Grown, GitHubOK', AheadOfNone,
         \A p \in prs : run.at = "push_existing" /\ p.url = run.listed => o \/ p \in prs'
  PROVE  Kept'
<1>. USE DEF Inv, Kept, Chosen, IsRun
<1>1. /\ run'.at = run.at /\ run'.origin = run.origin /\ run'.opened = run.opened
      /\ run'.made = run.made /\ run'.branch = run.branch /\ run'.base = run.base
      /\ run'.listed = run.listed /\ run'.answered = run.answered
      /\ run.at # "idle" => ~run'.smooth /\ run'.overtaken = (run.overtaken \/ o)
  BY DEF Disturb
<1>2. Now' = Now
  BY <1>1 DEF Now
<1>3. OutcomeOK' /\ RetrySucceeds' /\ DefaultKept'
  BY StaysRefused DEF OutcomeOK, RetrySucceeds, DefaultKept
<1>4. NoCommitAhead'
  BY <1>2 DEF NoCommitAhead, AheadOfNone
<1>5. NamesOK' /\ OnBranch'
  <2>1. (run'.smooth => run'.answered) /\ (run'.at \in Working /\ run'.smooth => ~run'.moved)
    BY <1>1 DEF NamesOK, Disturb, Working, Publishing
  <2>2. NamesOK'
    BY <1>1, <2>1 DEF NamesOK, Working, Publishing
  <2>. QED
    BY <1>1, <2>2 DEF OnBranch, Working, Publishing, This
<1>6. Alone'
  BY <1>1 DEF Alone, Working, Published, Publishing
<1>7. BaseOK'
  <2>1. run.at = "create" => ghDefault' = ghDefault
    BY DEF OnGitHub, Published, Grown
  <2>. QED
    BY <1>1, <2>1 DEF BaseOK, Grown
<1>8. OnGitHub'
  <2>1. run.at \in Published => run.branch \in DOMAIN remote'
    BY DEF OnGitHub, Grown
  <2>2. run.at \in Published /\ run.branch = run.made => This \in remote'[run.made]
    BY DEF OnGitHub, Grown
  <2>3. ASSUME run.at = "push_existing"
        PROVE  \E q \in prs' : /\ q.url = run.listed /\ q.head = run.branch
                               /\ q.state = "open" \/ run'.overtaken
    <3>1. PICK p \in prs : /\ p.url = run.listed /\ p.head = run.branch
                           /\ p.state = "open" \/ run.overtaken
      BY <2>3 DEF OnGitHub
    <3>2. run'.overtaken = (run.overtaken \/ o)
      BY <1>1, <2>3
    <3>3. CASE p \in prs'
      BY <3>1, <3>2, <3>3
    <3>4. CASE o
      <4>1. PICK q \in prs' : q.url = p.url /\ q.head = p.head
        BY DEF Grown
      <4>. QED
        BY <3>1, <3>2, <3>4, <4>1
    <3>. QED
      BY <2>3, <3>1, <3>3, <3>4
  <2>. QED
    BY <1>1, <2>1, <2>2, <2>3 DEF OnGitHub, This
<1>9. DoneIsPublished'
  BY StaysPublished DEF DoneIsPublished
<1>. QED
  BY <1>3, <1>4, <1>5, <1>6, <1>7, <1>8, <1>9

\* A late request arrives, a pull request is merged or opened by hand, main is pushed.
LEMMA ElseSafe ==
  ASSUME Inv,
         \/ ArriveLate \/ Merge \/ PushDefault
         \/ \E b, base \in Branches : OpenByHand(b, base)
  PROVE  Kept'
<1>. USE DEF Inv, Kept
<1>1. CASE ArriveLate
  <2>1. PICK q \in late : Arrives(q) /\ late' = late \ {q}
    BY <1>1 DEF ArriveLate
  <2>2. CASE q.kind = "push"
    <3>1. Grown /\ GitHubOK' /\ AheadOfNone
      BY <2>1, <2>2, PushGrows DEF Arrives, NoCommitAhead, AheadOfNone
    <3>2. prs' = prs
      BY <2>1, <2>2 DEF Arrives, Pushed
    <3>. QED
      BY <1>1, <3>1, <3>2, DisturbSafe DEF ArriveLate
  <2>3. CASE q.kind # "push"
    <3>1. Grown /\ GitHubOK' /\ AheadOfNone
      BY <2>1, <2>3, CreateGrows DEF Arrives, NoCommitAhead, AheadOfNone
    <3>2. prs \subseteq prs'
      BY <2>1, <2>3 DEF Arrives, Created
    <3>. QED
      BY <1>1, <3>1, <3>2, DisturbSafe DEF ArriveLate
  <2>. QED
    BY <2>2, <2>3
<1>2. CASE Merge
  <2>. DEFINE o(p) == run.at = "push_existing" /\ run.listed = p.url
  <2>1. PICK p \in prs :
          /\ p.state = "open"
          /\ remote' = [remote EXCEPT ![p.base] = @ \cup remote[p.head]]
          /\ prs' = (prs \ {p}) \cup {[p EXCEPT !.state = "merged"]}
          /\ Disturb(o(p))
    BY <1>2 DEF Merge
  <2>2. UNCHANGED <<ghDefault, late, local, originHead, outcome>>
    BY <1>2 DEF Merge
  <2>3. /\ p = [url |-> p.url, head |-> p.head, base |-> p.base, state |-> p.state]
        /\ p.head \in DOMAIN remote /\ p.base \in DOMAIN remote
    BY DEF GitHubOK
  <2>4. /\ DOMAIN remote' = DOMAIN remote
        /\ \A b \in DOMAIN remote :
             remote'[b] = IF b = p.base THEN remote[b] \cup remote[p.head] ELSE remote[b]
    BY <2>1
  <2>. DEFINE m == [p EXCEPT !.state = "merged"]
  <2>5. m = [url |-> p.url, head |-> p.head, base |-> p.base, state |-> "merged"]
    BY <2>3
  <2>6. Grown
    <3>1. ASSUME NEW q \in prs PROVE
            \E n \in prs' : /\ n.url = q.url /\ n.head = q.head /\ n.base = q.base
                            /\ n.state = q.state \/ remote[q.head] \subseteq remote'[q.base]
      <4>1. CASE q = p
        <5>1. m \in prs'
          BY <2>1
        <5>2. remote[p.head] \subseteq remote'[p.base]
          BY <2>3, <2>4
        <5>. QED
          BY <4>1, <5>1, <5>2, <2>5
      <4>2. CASE q # p
        BY <4>2, <2>1
      <4>. QED
        BY <4>1, <4>2
    <3>. QED
      BY <2>2, <3>1, <2>4 DEF Grown
  <2>7. GitHubOK'
    BY <2>1, <2>2, <2>3, <2>4, <2>5 DEF GitHubOK
  <2>8. AheadOfNone
    BY <2>2, <2>3, <2>4 DEF AheadOfNone, NoCommitAhead
  <2>9. \A q \in prs : run.at = "push_existing" /\ q.url = run.listed => o(p) \/ q \in prs'
    BY <2>1
  <2>10. o(p) \in BOOLEAN
    OBVIOUS
  <2>. HIDE DEF o
  <2>. QED
    BY <2>1, <2>2, <2>6, <2>7, <2>8, <2>9, <2>10, DisturbSafe
<1>3. CASE PushDefault
  <2>1. "main" \in DOMAIN local /\ local["main"] \subseteq 0..Now
    BY DEF Chosen, DefaultIsMain, NoCommitAhead
  <2>2. PushTaken("main", local["main"])
    BY <1>3 DEF PushDefault, PushTaken, CommitsOf
  <2>3. Grown /\ GitHubOK' /\ AheadOfNone
    BY <1>3, <2>1, <2>2, PushGrows DEF PushDefault, NoCommitAhead, AheadOfNone
  <2>. QED
    BY <1>3, <2>3, DisturbSafe DEF PushDefault, Pushed
<1>4. ASSUME NEW b, NEW base, OpenByHand(b, base) PROVE Kept'
  <2>1. Grown /\ GitHubOK' /\ AheadOfNone
    BY <1>4, CreateGrows DEF OpenByHand, NoCommitAhead, AheadOfNone
  <2>. QED
    BY <1>4, <2>1, DisturbSafe DEF OpenByHand, Created
<1>. QED
  BY <1>1, <1>2, <1>3, <1>4

\* Nothing is committed or published before the run has the slot.
LEMMA BeforeSafe ==
  ASSUME Inv,
         \/ \E requested \in Branches \cup {None}, worktree \in BOOLEAN : Ask(requested, worktree)
         \/ Dispatch
         \/ UNCHANGED vars
  PROVE  Kept'
<1>. USE DEF Inv, Kept
<1>1. ASSUME UNCHANGED <<local, originHead, remote, ghDefault, prs, late, outcome>>,
             run.at \in {"idle", "asked"}, run'.at \in {"idle", "asked"}, NamesOK', BaseOK'
      PROVE  Kept'
  <2>1. Now' = Now
    BY <1>1 DEF Now, Working, Publishing
  <2>2. OutcomeOK' /\ GitHubOK' /\ DoneIsPublished' /\ DefaultKept' /\ RetrySucceeds'
    BY <1>1 DEF OutcomeOK, GitHubOK, DoneIsPublished, DefaultKept, RetrySucceeds
  <2>3. NoCommitAhead' 
    BY <1>1, <2>1 DEF NoCommitAhead
  <2>4. OnBranch' /\ OnGitHub' /\ Alone'
    BY <1>1 DEF OnBranch, OnGitHub, Alone, Working, Published, Publishing
  <2>. QED
    BY <1>1, <2>2, <2>3, <2>4
<1>2. ASSUME NEW requested, NEW worktree, Ask(requested, worktree) PROVE Kept'
  <2>1. "main" \in DOMAIN remote
    BY <1>2, DefaultBranchIsMain DEF Chosen, Ask, BaseIsThere
  <2>2. NamesOK' /\ BaseOK'
    BY <1>2, <2>1, NamesAssumption DEF NamesOK, BaseOK, Ask, IdleRun, Working, Publishing
  <2>. QED
    BY <1>1, <1>2, <2>2 DEF Ask, IdleRun
<1>3. CASE Dispatch
  <2>1. NamesOK' /\ BaseOK'
    BY <1>3, NamesAssumption DEF NamesOK, BaseOK, Dispatch, IdleRun, Working, Publishing
  <2>. QED
    BY <1>1, <1>3, <2>1 DEF Dispatch, IdleRun
<1>4. CASE UNCHANGED vars
  <2>1. /\ OutcomeOK' /\ GitHubOK' /\ NoCommitAhead'
        /\ DoneIsPublished' /\ DefaultKept' /\ RetrySucceeds'
    BY <1>4
    DEF vars, OutcomeOK, GitHubOK, DoneIsPublished, DefaultKept, RetrySucceeds, NoCommitAhead, Now
  <2>2. NamesOK' /\ OnBranch' /\ OnGitHub' /\ Alone' /\ BaseOK'
    BY <1>4 DEF vars, NamesOK, OnBranch, OnGitHub, Alone, BaseOK, This, Opens
  <2>. QED
    BY <2>1, <2>2
<1>. QED
  BY <1>2, <1>3, <1>4

\* The checkout moves: the commits stay where they are, and so does what the run has
\* looked up; a run that has not looked at the checkout yet is not smooth any more.
LEMMA MoveHeadSafe == ASSUME Inv, NEW b, MoveHead(b) PROVE Kept'
<1>. USE DEF Inv, Kept, Chosen, IsRun
<1>1. UNCHANGED <<local, originHead, remote, ghDefault, prs, late, outcome>>
  BY DEF MoveHead
<1>2. /\ run'.at = run.at /\ run'.origin = run.origin /\ run'.opened = run.opened
      /\ run'.made = run.made /\ run'.branch = run.branch /\ run'.base = run.base
      /\ run'.listed = run.listed /\ run'.answered = run.answered
      /\ run'.overtaken = run.overtaken
      /\ run'.smooth => run.smooth /\ run.at # "checked_out"
      /\ run'.moved => run.moved \/ run.at \in {"asked", "checked_out"}
  BY DEF MoveHead
<1>3. Now' = Now /\ This' = This
  BY <1>1, <1>2 DEF Now, This
<1>4. /\ OutcomeOK' /\ GitHubOK' /\ NoCommitAhead'
      /\ DoneIsPublished' /\ DefaultKept' /\ RetrySucceeds'
  BY <1>1, <1>3
  DEF OutcomeOK, GitHubOK, NoCommitAhead, DoneIsPublished, DefaultKept, RetrySucceeds
<1>5. NamesOK'
  BY <1>2 DEF NamesOK, Working, Publishing
<1>6. OnBranch' /\ OnGitHub' /\ BaseOK'
  BY <1>1, <1>2, <1>3 DEF OnBranch, OnGitHub, BaseOK
<1>7. Alone'
  BY <1>1, <1>2 DEF Alone, Opens
<1>. QED
  BY <1>4, <1>5, <1>6, <1>7

\* ralphex commits: the run is the one Now counts from here on.
LEMMA WorksSafe == ASSUME Inv, RalphexWorks PROVE Kept'
<1>. USE DEF Inv, Kept, Chosen, IsRun
<1>1. Len(outcome) \in Nat /\ UNCHANGED <<originHead, remote, ghDefault, prs, late, outcome>> /\ This' = This
  BY Counted DEF RalphexWorks, This
<1>2. /\ run' = [run EXCEPT !.made = Makes, !.branch = run.opened,
                            !.at = IF run.worktree THEN "list" ELSE "checked_out",
                            !.moved = FALSE]
      /\ run'.made = Makes /\ run'.branch = run.opened /\ run'.at \in {"list", "checked_out"}
      /\ run'.smooth = run.smooth /\ run'.answered = run.answered /\ run'.origin = run.origin
      /\ ~run'.moved
  BY DEF RalphexWorks
<1>3. Now = Len(outcome) /\ Now' = This
  BY <1>1, <1>2 DEF Now, RalphexWorks, Working, Publishing, This
<1>4. OutcomeOK' /\ GitHubOK' /\ DoneIsPublished' /\ DefaultKept' /\ RetrySucceeds'
  BY <1>1 DEF OutcomeOK, GitHubOK, DoneIsPublished, DefaultKept, RetrySucceeds
<1>5. 0..Now \subseteq 0..This /\ This \in 0..This
  BY <1>1, <1>3 DEF This
<1>6. NoCommitAhead'
  <2>1. \A b \in DOMAIN local' : local'[b] \subseteq 0..This
    BY <1>3, <1>5 DEF NoCommitAhead, RalphexWorks, With, CommitsOf
  <2>. QED
    BY <1>1, <1>3, <1>5, <2>1 DEF NoCommitAhead
<1>7. OnBranch'
  BY <1>1, <1>2 DEF OnBranch, RalphexWorks, With
<1>8. NamesOK'
  BY <1>2 DEF NamesOK, RalphexWorks
<1>9. OnGitHub' /\ BaseOK'
  BY <1>1, <1>2 DEF OnGitHub, BaseOK, Published
<1>10. Alone'
  BY <1>1, <1>2, <1>3 DEF Alone, NoCommitAhead, Published
<1>. QED
  BY <1>4, <1>6, <1>7, <1>8, <1>9, <1>10

\* The lookup finds the open pull request of the branch, or that there is none.
LEMMA LookupSafe == ASSUME Inv, CheckedOut \/ List PROVE Kept'
<1>. USE DEF Inv, Kept, Chosen, IsRun, CheckedOut, List
<1>1. /\ UNCHANGED <<local, originHead, remote, ghDefault, prs, late, outcome>>
      /\ run'.made = run.made /\ run'.origin = run.origin /\ run.at \in {"checked_out", "list"}
      /\ run'.at \in {"list", "push", "push_existing"} /\ run'.opened = run.opened
  OBVIOUS
<1>2. Now' = Now /\ This' = This
  BY <1>1 DEF Now, This, Working, Publishing
<1>3. /\ OutcomeOK' /\ GitHubOK' /\ NoCommitAhead'
      /\ DoneIsPublished' /\ DefaultKept' /\ RetrySucceeds'
  <2>. SUFFICES ASSUME UNCHANGED <<local, originHead, remote, ghDefault, prs, late, outcome>> PROVE
         /\ OutcomeOK' /\ GitHubOK' /\ NoCommitAhead'
         /\ DoneIsPublished' /\ DefaultKept' /\ RetrySucceeds'
    BY <1>1
  <2>1. OutcomeOK' /\ GitHubOK' /\ DoneIsPublished' /\ DefaultKept' /\ RetrySucceeds'
    BY DEF OutcomeOK, GitHubOK, DoneIsPublished, DefaultKept, RetrySucceeds
  <2>2. NoCommitAhead'
    BY <1>2 DEF NoCommitAhead
  <2>. QED
    BY <2>1, <2>2
<1>4. OnBranch' /\ BaseOK'
  BY <1>1, <1>2 DEF OnBranch, BaseOK, Working, Publishing
<1>5. NamesOK'
  BY DEF NamesOK, Working, Publishing
<1>6. OnGitHub'
  BY DEF OnGitHub, Published, Opens
<1>7. Alone'
  <2>1. (run'.smooth => run.smooth) /\ (run'.at = "push" => Opens(run'.branch) = {})
    OBVIOUS
  <2>. QED
    BY <1>1, <2>1 DEF Alone, Working, Publishing, Published, Opens
<1>. QED
  BY <1>3, <1>4, <1>5, <1>6, <1>7

\* The base is what origin/HEAD names or what GitHub says, and both are on GitHub.
LEMMA BaseSafe ==
  ASSUME Inv, run.at \in {"base", "view"},
         run' \in {[run EXCEPT !.at = "create", !.base = originHead],
                  [run EXCEPT !.at = "view"],
                  [run EXCEPT !.at = "view", !.smooth = FALSE],
                  [run EXCEPT !.at = "create", !.base = ghDefault]},
         run'.at = "create" => run'.base \in {"main", ghDefault},
         UNCHANGED <<local, originHead, remote, ghDefault, prs, late, outcome>>
  PROVE  Kept'
<1>. USE DEF Inv, Kept, Chosen, IsRun
<1>1. Now' = Now /\ This' = This
  BY DEF Now, This, Working, Publishing
<1>2. OutcomeOK' /\ GitHubOK' /\ DoneIsPublished' /\ DefaultKept' /\ RetrySucceeds'
  BY DEF OutcomeOK, GitHubOK, DoneIsPublished, DefaultKept, RetrySucceeds
<1>6. NoCommitAhead'
  BY <1>1 DEF NoCommitAhead
<1>3. NamesOK' /\ OnBranch' /\ OnGitHub'
  BY <1>1 DEF NamesOK, OnBranch, OnGitHub, Working, Publishing, Published
<1>4. Alone'
  BY DEF Alone, Working, Publishing, Published, Opens
<1>5. BaseOK'
  <2>1. run.branch \in DOMAIN remote
    BY DEF OnGitHub, Published
  <2>2. ghDefault \in DOMAIN remote
    BY <2>1 DEF GitHubOK
  <2>3. /\ run'.origin = run.origin
        /\ run'.at = "create" => run'.base \in {"main", ghDefault} \cap {originHead, ghDefault}
    OBVIOUS
  <2>. QED
    BY <2>2, <2>3 DEF BaseOK
<1>. QED
  BY <1>2, <1>3, <1>4, <1>5, <1>6

\* After the push the commits are on GitHub: in the pull request that was found, if any.
LEMMA PushSafe == ASSUME Inv, Push PROVE Kept'
<1>. USE DEF Inv, Kept
<1>. DEFINE commits == local[run.branch]
<1>1. /\ run.branch \in DOMAIN local /\ PushTaken(run.branch, commits)
      /\ Pushed(run.branch, commits) /\ UNCHANGED <<local, originHead, late, prs>>
  BY DEF Push, CanPush, CommitsOf, Pushed
<1>2. commits \subseteq 0..Now
  BY <1>1 DEF NoCommitAhead
<1>3. Grown /\ GitHubOK' /\ AheadOfNone
  BY <1>1, <1>2, PushGrows DEF NoCommitAhead, AheadOfNone
<1>4. run.branch \in DOMAIN remote' /\ remote'[run.branch] = commits
  BY <1>1 DEF Pushed, With
<1>5. run.made = run.branch => This \in remote'[run.branch]
  BY <1>4 DEF Push, OnBranch, NamesOK, Working, Publishing
<1>6. CASE run.at = "push_existing"
  <2>1. Over("done", run.listed, None)
    BY <1>6 DEF Push
  <2>2. Truthful("done", run.listed, None)
    BY <1>1, <1>4, <1>5, <1>6 DEF Truthful, OnGitHub, None
  <2>. QED
    BY <1>1, <1>3, <2>1, <2>2, OverSafe
<1>7. CASE run.at = "push"
  <2>1. run' = [run EXCEPT !.at = "base"] /\ outcome' = outcome
    BY <1>7 DEF Push
  <2>2. /\ run'.at = "base" /\ run'.made = run.made /\ run'.branch = run.branch
        /\ run'.smooth = run.smooth /\ run'.answered = run.answered /\ run'.origin = run.origin
        /\ run'.moved = run.moved
    BY <2>1 DEF Chosen, IsRun
  <2>3. Now' = Now /\ This' = This
    BY <1>7, <2>1, <2>2 DEF Now, This, Working, Publishing
  <2>4. OutcomeOK' /\ RetrySucceeds' /\ DefaultKept' /\ NoCommitAhead'
    BY <1>1, <1>3, <2>1, <2>3, StaysRefused
    DEF OutcomeOK, RetrySucceeds, DefaultKept, NoCommitAhead, AheadOfNone
  <2>5. DoneIsPublished'
    BY <1>3, <2>1, StaysPublished DEF DoneIsPublished
  <2>6. NamesOK' /\ OnBranch'
    BY <1>1, <1>7, <2>2, <2>3 DEF NamesOK, OnBranch, Working, Publishing
  <2>7. OnGitHub' /\ BaseOK'
    BY <1>3, <1>4, <1>5, <2>2, <2>3 DEF OnGitHub, BaseOK, Published, Grown
  <2>8. Alone'
    <3>1. \A b \in DOMAIN remote' : b = run.branch \/ (b \in DOMAIN remote /\ remote'[b] = remote[b])
      <4>. HIDE DEF commits
      <4>1. remote' = With(remote, run.branch, commits)
        BY <1>1 DEF Pushed
      <4>2. DOMAIN remote' = DOMAIN remote \cup {run.branch}
        BY <4>1 DEF With
      <4>. QED
        BY <4>1, <4>2 DEF With
    <3>. QED
      BY <1>1, <1>7, <2>1, <2>2, <3>1 DEF Alone, Working, Publishing, Published, Opens
  <2>. QED
    BY <1>3, <2>4, <2>5, <2>6, <2>7, <2>8
<1>. QED
  BY <1>6, <1>7 DEF Push

\* The new pull request has the commits, and the number it is reported with.
LEMMA CreateSafe == ASSUME Inv, Create PROVE Kept'
<1>. USE DEF Inv, Kept
<1>1. /\ run.at = "create" /\ CreateTaken(run.branch, run.base) /\ Created(run.branch, run.base)
      /\ UNCHANGED <<local, originHead, late>>
  BY DEF Create
<1>2. Grown /\ GitHubOK' /\ AheadOfNone
  BY <1>1, CreateGrows DEF NoCommitAhead, AheadOfNone
<1>3. CASE Over("done", Cardinality(prs) + 1, None)
  <2>. DEFINE p == [url |-> Cardinality(prs) + 1, head |-> run.branch, base |-> run.base,
                    state |-> "open"]
  <2>1. p \in prs' /\ p.url = Cardinality(prs) + 1 /\ p.head = run.branch /\ p.state = "open"
    BY <1>1 DEF Created
  <2>. HIDE DEF p
  <2>2. Truthful("done", Cardinality(prs) + 1, None)
    BY <1>1, <2>1 DEF Truthful, OnGitHub, Published, Created
  <2>. QED
    BY <1>1, <1>2, <1>3, <2>2, OverSafe
<1>4. CASE Over("pr_create", 0, "no URL")
  <2>1. Truthful("pr_create", 0, "no URL")
    BY DEF Truthful
  <2>. QED
    BY <1>1, <1>2, <1>4, <2>1, OverSafe
<1>. QED
  BY <1>3, <1>4 DEF Create

\* Nothing an earlier run left behind makes GitHub refuse the pull request of a run
\* nobody got in the way of: its branch has none, and its commits are not on the base.
LEMMA RefusedSafe == ASSUME Inv, Refused PROVE Kept'
<1>. USE DEF Inv, Kept
<1>1. UNCHANGED <<local, originHead, remote, ghDefault, prs, late>>
  BY DEF Refused
<1>2. Grown /\ GitHubOK' /\ AheadOfNone
  BY <1>1 DEF Grown, GitHubOK, AheadOfNone, NoCommitAhead
<1>3. CASE run.at # "create"
  <2>1. Over("git_push", 0, "behind") /\ Truthful("git_push", 0, "behind")
    BY <1>3 DEF Refused, Truthful
  <2>. QED
    BY <1>1, <1>2, <2>1, OverSafe
<1>4. CASE run.at = "create"
  <2>. DEFINE why == CASE run.base = run.branch -> "into itself"
                       [] run.base # run.branch /\ run.base \notin DOMAIN remote -> "no base"
                       [] OTHER -> "there already"
  <2>1. Over("pr_create", 0, why) /\ ~CreateTaken(run.branch, run.base)
    BY <1>4 DEF Refused
  <2>2. ASSUME run.smooth, run.base # run.branch, run.base \in DOMAIN remote PROVE FALSE
    <3>1. run.branch \in DOMAIN remote /\ Opens(run.branch) = {}
      BY <1>4, <2>2 DEF OnGitHub, Alone, Published
    <3>2. run.branch = run.made
      BY <1>4, <2>2 DEF NamesOK, Chosen, AtWork, Working, Publishing
    <3>3. This \in remote[run.branch]
      BY <1>4, <3>2 DEF OnGitHub, Published
    <3>4. remote[run.base] \subseteq 0..Len(outcome)
      BY <1>4, <2>2 DEF Alone, Working, Publishing
    <3>5. This \notin 0..Len(outcome)
      BY Counted DEF This
    <3>. QED
      BY <2>1, <2>2, <3>1, <3>3, <3>4, <3>5 DEF CreateTaken
  <2>3. run.origin = "rxd" => run.base \in DOMAIN remote
    BY <1>4 DEF BaseOK
  <2>4. ASSUME run.smooth
        PROVE  \/ why = "into itself" /\ run.base = run.branch
               \/ why = "no base" /\ run.base \notin DOMAIN remote
    <3>1. CASE run.base = run.branch
      BY <3>1
    <3>2. CASE run.base # run.branch /\ run.base \notin DOMAIN remote
      BY <3>2
    <3>. QED
      BY <2>2, <2>4, <3>1, <3>2
  <2>. HIDE DEF why
  <2>5. run.base \in {originHead, ghDefault} /\ DOMAIN remote # {}
    BY <1>4 DEF BaseOK, OnGitHub, Published
  <2>6. Truthful("pr_create", 0, why)
    BY <1>4, <2>3, <2>4, <2>5 DEF Truthful, NamesOK
  <2>. QED
    BY <1>1, <1>2, <2>1, <2>6, OverSafe
<1>. QED
  BY <1>3, <1>4

\* A step that is killed leaves a request of this run.
LEMMA OnItsWayAhead == ASSUME Inv, OnItsWay, UNCHANGED remote PROVE AheadOfNone
<1>. USE DEF Inv, Kept
<1>1. PICK q : /\ late' = late \cup {q}
               /\ q = IF run.at = "create" THEN CreateRequest(run.branch, run.base)
                      ELSE PushRequest(run.branch, local[run.branch])
  BY DEF OnItsWay
<1>2. q.kind = "push" => q.commits = local[run.branch]
  BY <1>1 DEF CreateRequest, PushRequest
<1>3. run.branch \in DOMAIN local
  BY DEF OnItsWay
<1>. QED
  BY <1>1, <1>2, <1>3 DEF AheadOfNone, NoCommitAhead

\* A step that fails or is killed claims nothing, nor does a sequence that is dropped.
LEMMA FailSafe == ASSUME Inv, RalphexRefuses \/ Fails \/ Killed \/ Dropped PROVE Kept'
<1>. USE DEF Inv, Kept
<1>1. ASSUME UNCHANGED late, UNCHANGED remote PROVE AheadOfNone
  BY <1>1 DEF AheadOfNone, NoCommitAhead
<1>2. CASE Fails /\ run.at = "base"
  <2>1. /\ UNCHANGED <<local, originHead, remote, ghDefault, prs, late, outcome>>
        /\ run' = [run EXCEPT !.at = "view", !.smooth = FALSE]
    BY <1>2 DEF Fails
  <2>2. run'.at = "view"
    BY <2>1 DEF Chosen, IsRun
  <2>. QED
    BY <1>2, <2>1, <2>2, BaseSafe
<1>3. ASSUME NEW result, NEW why, Over(result, 0, why), result # "done",
             result \in {"git_push", "pr_create"} => why = "no answer", why # "into itself",
             AheadOfNone, UNCHANGED <<local, originHead, remote, ghDefault, prs>>
      PROVE  Kept'
  <2>1. Truthful(result, 0, why) /\ Grown /\ GitHubOK'
    BY <1>3 DEF Truthful, Grown, GitHubOK
  <2>. QED
    BY <1>3, <2>1, OverSafe
<1>4. FailReason # "done"
  BY DEF FailReason
<1>5. CASE RalphexRefuses
  BY <1>1, <1>3, <1>5 DEF RalphexRefuses, None
<1>6. CASE Fails /\ run.at # "base"
  BY <1>1, <1>3, <1>4, <1>6 DEF Fails
<1>7. CASE Killed
  BY <1>3, <1>4, <1>7, OnItsWayAhead DEF Killed
<1>8. CASE Dropped
  BY <1>1, <1>3, <1>8, OnItsWayAhead DEF Dropped, None
<1>. QED
  BY <1>2, <1>5, <1>6, <1>7, <1>8

\* resolve_base().
LEMMA ResolveSafe == ASSUME Inv, Base \/ View PROVE Kept'
<1>1. run'.at = "create" => run'.base \in {"main", ghDefault}
  BY DEF Base, View, Inv, Chosen, IsRun, DefaultIsMain
<1>. QED
  BY <1>1, BaseSafe DEF Base, View

\* One commit, of no run, is everywhere.
LEMMA InitInv == Init => Inv
<1>. SUFFICES ASSUME Init PROVE Inv
  OBVIOUS
<1>1. OutcomeOK /\ Len(outcome) = 0 /\ DOMAIN outcome = {}
  BY DEF Init, OutcomeOK, Entries
<1>2. GitHubOK /\ NamesOK /\ OnBranch /\ OnGitHub /\ Alone /\ BaseOK
  BY DEF Init, IdleRun, GitHubOK, NamesOK, OnBranch, OnGitHub, Alone, BaseOK, Working, Publishing,
         Published, None
<1>3. NoCommitAhead
  <2>1. 0 \in 0..Now
    BY <1>1 DEF Now
  <2>2. \A b \in DOMAIN local : local[b] = {0}
    BY DEF Init
  <2>3. \A b \in DOMAIN remote : remote[b] = {0}
    BY DEF Init
  <2>. QED
    BY <2>1, <2>2, <2>3 DEF NoCommitAhead, Init
<1>4. DoneIsPublished /\ DefaultKept /\ RetrySucceeds
  BY <1>1 DEF DoneIsPublished, DefaultKept, RetrySucceeds
<1>. QED
  BY <1>1, <1>2, <1>3, <1>4, InitChosen DEF Inv, Kept

\* Inv is an invariant.
LEMMA Inductive == Spec => []Inv
<1>1. ASSUME Inv, [Next]_vars PROVE Kept'
  BY <1>1, BeforeSafe, MoveHeadSafe, WorksSafe, LookupSafe, ResolveSafe, PushSafe, CreateSafe, RefusedSafe, FailSafe,
     ElseSafe
  DEF Next, Done
<1>2. ASSUME Inv, [Next]_vars PROVE Chosen'
  BY <1>2, ChosenStep DEF Inv
<1>. QED
  BY <1>1, <1>2, InitInv, PTL DEF Spec, Inv

\* For any number of runs, retries and late requests: a run that is reported done on
\* the branch it committed to has its commits in a pull request of that branch, open
\* or merged (pr.rs: create, push_existing).
THEOREM DoneHasItsPullRequest == Spec => []DoneIsPublished
BY Inductive, PTL DEF Inv, Kept

\* For any number of runs, retries and late requests: what steps that were killed left
\* behind on GitHub never fails a later run whose own steps all answer.
THEOREM TryingAgainWorks == Spec => []RetrySucceeds
BY Inductive, PTL DEF Inv, Kept
==============================================================================
