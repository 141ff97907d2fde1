------------------------------ MODULE WorkingTree ------------------------------
(***************************************************************************)
(* Two users of the one working tree.  The code_review tool borrows it: it *)
(* stashes what is uncommitted, checks out the branch under review,        *)
(* gathers the context and gives everything back (code_review.py,          *)
(* code_review_utils.py).  The engine's git_setup_branch moves it to a     *)
(* task's branch.  Each git command may fail, or be killed by its timeout  *)
(* after it took effect; the user, other programs and other sessions use   *)
(* the same tree and the same list of stashes.                             *)
(*                                                                         *)
(* A call of code_review without a branch to switch to, or with the text   *)
(* of a review to post, leaves the tree alone and is left out.             *)
(***************************************************************************)
EXTENDS Integers, SequencesExt

CONSTANTS
  Reviews,    \* sessions that call code_review, each again and again
  Setups,     \* and that call git_setup_branch
  Branches,
  Default,    \* the default branch
  Detached,   \* HEAD is on no branch
  Work,       \* pieces of uncommitted work
  MaxOthers,  \* bound on the stashes that others push
  MaxFaults   \* bound on failing commands

Calls == Reviews \cup Setups
Earlier == "earlier"
Nobody == "nobody"

ASSUME WorkingTreeAssumption ==
  /\ Default \in Branches /\ Detached \notin Branches
  /\ Reviews \cap Setups = {} /\ {Earlier, Nobody} \cap Calls = {}
  /\ MaxOthers \in Nat /\ MaxFaults \in Nat

VARIABLES
  head,       \* the branch checked out
  branches,   \* the branches there are in this repository
  tree,       \* the uncommitted work in the tree
  stashes,    \* the stash list, newest first
  pc,         \* the command each call is at
  target,     \* the branch it is to review, or to set up
  carry,      \* carry_changes: uncommitted work may come along
  original,   \* the branch it found
  stashed,    \* it pushed a stash, as far as it knows
  prepared,   \* git_env_switched
  pick,       \* the stash it will pop
  report,     \* the error in its answer, if any
  disturbed,  \* history: calls during which another program changed HEAD or moved a stash
  faults

repository == <<head, branches, tree, stashes>>
known == <<target, carry, original, stashed, prepared, pick>>
vars == <<repository, pc, known, report, disturbed, faults>>

Heads == Branches \cup {Detached}
Entries == [by : Calls \cup {Earlier, Nobody}, work : SUBSET Work]
GitCommands == <<"stash", "fetch", "checkout", "pull">>
Preparing == {"look", "status"} \cup ToSet(GitCommands)
Setting == {"check", "current", "find", "switch", "default", "update", "create"}
Active == Preparing \cup {"gather", "back", "list", "pop"} \cup Setting

Init ==
  /\ head \in Heads
  /\ branches \in SUBSET Branches /\ {head, Default} \subseteq branches \cup {Detached}
  /\ tree \in SUBSET Work /\ stashes = <<>>
  /\ pc = [c \in Calls |-> "idle"]
  /\ target \in [Calls -> Branches] /\ \A c \in Setups : target[c] # Default
  /\ carry \in [Setups -> BOOLEAN]
  /\ original = [c \in Calls |-> Detached]
  /\ stashed = [c \in Calls |-> FALSE]
  /\ prepared = [c \in Calls |-> FALSE]
  /\ pick = [c \in Calls |-> 0]
  /\ report = [c \in Calls |-> "none"]
  /\ disturbed = {} /\ faults = 0

Goes(c, phase) == pc' = [pc EXCEPT ![c] = phase]
Fault == faults < MaxFaults /\ faults' = faults + 1

(* Everyone else who is in the middle of a review.                         *)
Disturbs(c) == disturbed' = disturbed \cup {d \in Calls \ {c} : pc[d] \in Active}

(* The message marks the stashes of the tool.                              *)
Marked(entry) == entry.by # Nobody
Push(by) ==
  IF tree = {} THEN UNCHANGED <<tree, stashes>>
  ELSE /\ stashes' = <<[by |-> by, work |-> tree]>> \o stashes
       /\ tree' = {}
Checkout(b) == head' = b /\ branches' = branches \cup {b}
PopAt(i) ==
  /\ tree' = tree \cup stashes[i].work
  /\ stashes' = RemoveAt(stashes, i)

-------------------------------------------------------------------------------
(* The merge request, and with it the branch, has been found; or it has    *)
(* not: not the address of one, no answer, an unsafe branch name.  What an *)
(* earlier call of the session left behind is nobody's to give back.       *)
Call(c) ==
  /\ c \in Reviews /\ pc[c] \in {"idle", "answered"}
  /\ Goes(c, "look")
  /\ \E b \in Branches : target' = [target EXCEPT ![c] = b]
  /\ original' = [original EXCEPT ![c] = Detached]
  /\ stashed' = [stashed EXCEPT ![c] = FALSE]
  /\ prepared' = [prepared EXCEPT ![c] = FALSE]
  /\ pick' = [pick EXCEPT ![c] = 0]
  /\ report' = [report EXCEPT ![c] = "none"]
  /\ stashes' = [i \in DOMAIN stashes |->
       IF stashes[i].by = c THEN [stashes[i] EXCEPT !.by = Earlier] ELSE stashes[i]]
  /\ disturbed' = disturbed \ {c}
  /\ UNCHANGED <<head, branches, tree, carry, faults>>

FindsNothing(c) ==
  /\ pc[c] = "look"
  /\ Goes(c, "idle")
  /\ UNCHANGED <<repository, known, report, disturbed, faults>>

(* Mutant: rev-parse --abbrev-ref, which names no branch "HEAD".           *)
LookAbbreviated(c) ==
  /\ pc[c] = "look"
  /\ original' = [original EXCEPT ![c] = IF head = Detached THEN "HEAD" ELSE head]
  /\ prepared' = [prepared EXCEPT ![c] = (head = target[c])]
  /\ Goes(c, IF head = target[c] THEN "gather" ELSE "status")
  /\ UNCHANGED <<repository, target, carry, stashed, pick, report, disturbed, faults>>

(* prepare_review_environment.                                             *)
Look(c) ==
  /\ pc[c] = "look"
  /\ original' = [original EXCEPT ![c] = head]
  /\ prepared' = [prepared EXCEPT ![c] = (head = target[c])]
  /\ Goes(c, IF head = target[c] THEN "gather" ELSE "status")
  /\ UNCHANGED <<repository, target, carry, stashed, pick, report, disturbed, faults>>

Status(c) ==
  /\ pc[c] = "status"
  /\ Goes(c, IF tree = {} THEN "fetch" ELSE "stash")
  /\ UNCHANGED <<repository, known, report, disturbed, faults>>

(* What each command does to the repository.  Stashing a tree that has     *)
(* become clean since pushes nothing and succeeds.                         *)
Effect(c) ==
  /\ IF pc[c] = "stash" THEN Push(c) ELSE UNCHANGED <<tree, stashes>>
  /\ IF pc[c] = "checkout" THEN Checkout(target[c]) ELSE UNCHANGED <<head, branches>>
  /\ IF pc[c] \in {"stash", "checkout"} THEN Disturbs(c) ELSE UNCHANGED disturbed

GitSucceeds(c) ==
  \E i \in DOMAIN GitCommands :
    /\ pc[c] = GitCommands[i]
    /\ Effect(c)
    /\ stashed' = [stashed EXCEPT ![c] = @ \/ pc[c] = "stash"]
    /\ prepared' = [prepared EXCEPT ![c] = (pc[c] = "pull")]
    /\ Goes(c, IF pc[c] = "pull" THEN "gather" ELSE GitCommands[i + 1])
    /\ UNCHANGED <<target, carry, original, pick, report, faults>>

(* A failure ends the preparation: what was done stays done.               *)
GitFails(c) ==
  /\ pc[c] \in Preparing /\ Fault
  /\ report' = [report EXCEPT ![c] = "prepare"]
  /\ Goes(c, "gather")
  /\ UNCHANGED <<repository, known, disturbed>>

GitTimesOut(c) ==
  /\ pc[c] \in {"stash", "checkout"} /\ Fault
  /\ Effect(c)
  /\ report' = [report EXCEPT ![c] = "prepare"]
  /\ Goes(c, "gather")
  /\ UNCHANGED known

(* The context is gathered.  Only a prepared environment is given back.    *)
Gather(c) ==
  /\ pc[c] = "gather"
  /\ Goes(c, IF prepared[c] THEN "back" ELSE "answered")
  /\ UNCHANGED <<repository, known, report, disturbed, faults>>

(* Mutant: success whether or not the stash was popped.                    *)
RestoresUnpopped(c, restored, unstashed) ==
  /\ report' = [report EXCEPT ![c] = IF restored THEN @ ELSE "restore"]
  /\ Goes(c, "answered")

(* restore_git_environment.                                                *)
Restores(c, restored, unstashed) ==
  /\ report' = [report EXCEPT ![c] =
       IF restored /\ (stashed[c] => unstashed) THEN @ ELSE "restore"]
  /\ Goes(c, "answered")

HadBranch(c) == original[c] # Detached

(* Without a branch to go back to it goes on where it is.                  *)
Back(c) ==
  /\ pc[c] = "back"
  /\ head' = IF HadBranch(c) THEN original[c] ELSE head
  /\ IF head' # head THEN Disturbs(c) ELSE UNCHANGED disturbed
  /\ IF stashed[c] THEN Goes(c, "list") /\ UNCHANGED report
     ELSE Restores(c, HadBranch(c), FALSE)
  /\ UNCHANGED <<branches, tree, stashes, known, faults>>

BackFails(c) ==
  /\ pc[c] = "back" /\ HadBranch(c) /\ Fault
  /\ head' \in {head, original[c]}
  /\ IF head' # head THEN Disturbs(c) ELSE UNCHANGED disturbed
  /\ Restores(c, FALSE, FALSE)
  /\ UNCHANGED <<branches, tree, stashes, known>>

Marks == {i \in DOMAIN stashes : Marked(stashes[i])}

(* Mutant: a bare pop.                                                     *)
NewestOfAll == DOMAIN stashes

(* Mutant: the oldest.                                                     *)
Oldest == {i \in Marks : \A j \in Marks : j <= i}

Newest == {i \in Marks : \A j \in Marks : i <= j}

(* The newest stash with the tool's message.                               *)
ListStashes(c) ==
  /\ pc[c] = "list"
  /\ \/ /\ Newest # {}
        /\ \E i \in Newest : pick' = [pick EXCEPT ![c] = i]
        /\ Goes(c, "pop") /\ UNCHANGED report
     \/ /\ Newest = {}
        /\ Restores(c, HadBranch(c), FALSE) /\ UNCHANGED pick
  /\ UNCHANGED <<repository, target, carry, original, stashed, prepared, disturbed, faults>>

ListFails(c) ==
  /\ pc[c] = "list" /\ Fault
  /\ Restores(c, HadBranch(c), FALSE)
  /\ UNCHANGED <<repository, known, disturbed>>

(* Whatever has that index by now.                                         *)
Pop(c) ==
  /\ pc[c] = "pop" /\ pick[c] \in DOMAIN stashes
  /\ PopAt(pick[c])
  /\ Disturbs(c)
  /\ Restores(c, HadBranch(c), TRUE)
  /\ UNCHANGED <<head, branches, known, faults>>

(* The work conflicts with what is in the tree, or the stash is gone.      *)
PopFails(c) ==
  /\ pc[c] = "pop"
  /\ IF pick[c] \in DOMAIN stashes THEN Fault ELSE UNCHANGED faults
  /\ Restores(c, HadBranch(c), FALSE)
  /\ UNCHANGED <<repository, known, disturbed>>

PopTimesOut(c) ==
  /\ pc[c] = "pop" /\ pick[c] \in DOMAIN stashes /\ Fault
  /\ PopAt(pick[c])
  /\ Disturbs(c)
  /\ Restores(c, HadBranch(c), FALSE)
  /\ UNCHANGED <<head, branches, known>>

-------------------------------------------------------------------------------
(* _func_git_setup_branch.  A command that answers with an error, unlike   *)
(* one that is killed, counts as if it had answered nothing: a clean tree, *)
(* no current branch, no such branch.                                      *)
Advance(c) ==
  /\ c \in Setups /\ pc[c] \in {"idle", "answered"}
  /\ Goes(c, "check")
  /\ \E b \in BOOLEAN : carry' = [carry EXCEPT ![c] = b]
  /\ report' = [report EXCEPT ![c] = "none"]
  /\ disturbed' = disturbed \ {c}
  /\ UNCHANGED <<repository, target, original, stashed, prepared, pick, faults>>

(* Uncommitted work is carried along only if the user has been asked.      *)
CheckTree(c) ==
  /\ pc[c] = "check"
  /\ LET asks == tree # {} /\ ~carry[c]
     IN  \/ /\ asks /\ Goes(c, "answered") /\ UNCHANGED faults
            /\ report' = [report EXCEPT ![c] = "confirm"]
         \/ /\ Goes(c, "current") /\ UNCHANGED report
            /\ IF asks THEN Fault ELSE UNCHANGED faults
  /\ UNCHANGED <<repository, known, disturbed>>

CheckCurrent(c) ==
  /\ pc[c] = "current"
  /\ \/ head = target[c] /\ Goes(c, "answered") /\ UNCHANGED faults
     \/ Goes(c, "find") /\ IF head = target[c] THEN Fault ELSE UNCHANGED faults
  /\ UNCHANGED <<repository, known, report, disturbed>>

(* Mutant: a branch that is not there is created from where HEAD is.       *)
FindBranchHere(c) ==
  /\ pc[c] = "find"
  /\ Goes(c, IF target[c] \in branches THEN "switch" ELSE "create")
  /\ UNCHANGED <<repository, known, report, disturbed, faults>>

FindBranch(c) ==
  /\ pc[c] = "find"
  /\ \/ target[c] \in branches /\ Goes(c, "switch") /\ UNCHANGED faults
     \/ /\ Goes(c, IF carry[c] THEN "create" ELSE "default")
        /\ IF target[c] \in branches THEN Fault ELSE UNCHANGED faults
  /\ UNCHANGED <<repository, known, report, disturbed>>

(* Checking out the task's branch, or the default one, or creating the     *)
(* task's from where HEAD is.                                              *)
Moves(c) ==
  /\ pc[c] \in {"switch", "default", "create"}
  /\ pc[c] = "create" => target[c] \notin branches
  /\ Checkout(IF pc[c] = "default" THEN Default ELSE target[c])
  /\ Disturbs(c)
  /\ UNCHANGED <<tree, stashes, known>>

SetupMoves(c) ==
  /\ Moves(c)
  /\ Goes(c, IF pc[c] = "default" THEN "update" ELSE "answered")
  /\ UNCHANGED <<report, faults>>

(* A pull that fails does no harm.                                         *)
Update(c) ==
  /\ pc[c] = "update"
  /\ Goes(c, "create")
  /\ UNCHANGED <<repository, known, report, disturbed, faults>>

SetupFails(c) ==
  /\ pc[c] \in Setting
  /\ \/ Fault /\ UNCHANGED <<repository, known, disturbed>>
     \/ Fault /\ Moves(c)
     \/ /\ pc[c] = "create" /\ target[c] \in branches
        /\ UNCHANGED <<repository, known, disturbed, faults>>
  /\ report' = [report EXCEPT ![c] = "setup"]
  /\ Goes(c, "answered")

-------------------------------------------------------------------------------
Held == tree \cup UNION {stashes[i].work : i \in DOMAIN stashes}

(* The user, an agent, or another program.                                 *)
Edit ==
  /\ \E w \in Work \ Held : tree' = tree \cup {w}
  /\ UNCHANGED <<head, branches, stashes, disturbed>>

Commit ==
  /\ tree # {} /\ tree' = {}
  /\ UNCHANGED <<head, branches, stashes, disturbed>>

(* This moves a stash that a call has picked; no other call minds.         *)
MovesStashes == disturbed' = disturbed \cup {c \in Calls : pc[c] = "pop"}

OtherStash ==
  /\ tree # {} /\ Cardinality({i \in DOMAIN stashes : ~Marked(stashes[i])}) < MaxOthers
  /\ Push(Nobody)
  /\ MovesStashes /\ UNCHANGED <<head, branches>>

(* Also what a call has left behind: "needs manual resolution".            *)
OtherPop ==
  /\ \E i \in DOMAIN stashes :
       /\ \A c \in Calls : stashes[i].by = c => pc[c] = "answered"
       /\ PopAt(i)
  /\ MovesStashes /\ UNCHANGED <<head, branches>>

Others ==
  /\ Edit \/ Commit \/ OtherStash \/ OtherPop
  /\ UNCHANGED <<pc, known, report, faults>>

CallStep(c) ==
  \/ Call(c) \/ FindsNothing(c) \/ Look(c) \/ Status(c) \/ GitSucceeds(c) \/ GitFails(c) \/ GitTimesOut(c)
  \/ Gather(c)
  \/ Back(c) \/ BackFails(c) \/ ListStashes(c) \/ ListFails(c) \/ Pop(c) \/ PopFails(c) \/ PopTimesOut(c)
  \/ Advance(c) \/ CheckTree(c) \/ CheckCurrent(c) \/ FindBranch(c)
  \/ SetupMoves(c) \/ Update(c) \/ SetupFails(c)

Next == (\E c \in Calls : CallStep(c)) \/ Others

Spec == Init /\ [][Next]_vars

-------------------------------------------------------------------------------
TypeOK ==
  /\ head \in Heads /\ branches \subseteq Branches /\ tree \subseteq Work /\ stashes \in Seq(Entries)
  /\ pc \in [Calls -> Active \cup {"idle", "answered"}]
  /\ target \in [Calls -> Branches] /\ original \in [Calls -> Heads]
  /\ carry \in [Setups -> BOOLEAN]
  /\ {stashed, prepared} \subseteq [Calls -> BOOLEAN]
  /\ pick \in [Calls -> Nat]
  /\ report \in [Calls -> {"none", "prepare", "restore", "confirm", "setup"}]
  /\ disturbed \subseteq Calls /\ faults \in 0 .. MaxFaults

(* No stash of the tool is left behind in silence, whichever command       *)
(* failed or was killed: "a silently dropped stash is data loss"           *)
(* (code_review_utils.py).                                                 *)
LeftBehindIsReported ==
  \A i \in DOMAIN stashes, c \in Calls \ disturbed :
    stashes[i].by = c /\ pc[c] = "answered" => report[c] # "none"

Answers(c) == pc[c] \in Active /\ pc'[c] = "answered"
StashesOf(c) == {i \in DOMAIN stashes : stashes[i].by = c}

(* A call that answers without an error has brought back the branch it     *)
(* found and what it stashed, also past stashes that others have pushed    *)
(* since.                                                                  *)
SilentMeansRestored ==
  [][\A c \in Reviews \ disturbed : Answers(c) /\ report'[c] = "none" =>
       /\ head' = original[c]
       /\ \A i \in StashesOf(c) : stashes[i].work \subseteq tree']_vars

(* git_setup_branch says success only on its branch, and creates it from   *)
(* the default branch unless work is carried along, also when an earlier   *)
(* attempt failed or was killed on the way.                                *)
SetUpAsAsked ==
  [][\A c \in Setups \ disturbed :
       /\ Answers(c) /\ report'[c] = "none" => head' = target[c]
       /\ branches' # branches /\ pc'[c] # pc[c] => carry[c] \/ head = Default]_vars
===============================================================================
