---------------------------- MODULE CompletionChain ----------------------------
(***************************************************************************)
(* The post function completion_dispatch of the last step: the provider's  *)
(* chain of hooks/optimize_completion.py, or one of its four local flows,  *)
(* over the git repository, the task file and current_task.json.  A chain  *)
(* stops at the first operation that fails, and the user advances again,   *)
(* perhaps with another option; git, gh and the network may fail before or *)
(* after they have done their work.                                        *)
(*                                                                         *)
(* A branch is the set of changes committed on it: the task's own work, a  *)
(* fix the user makes between two attempts, and the move of the task's     *)
(* file to tasks/done ("archive").                                         *)
(***************************************************************************)
EXTENDS Naturals, Sequences

CONSTANTS
  Options,     \* flows the configuration offers: "provider" with an issue tracker
               \* (or an unreadable configuration), the four local ones without
  NoRemote,    \* stands for the set of changes of an origin that is not there
  CanFail,     \* operations that fail in this instance
  Switches,    \* the user may check out another branch between two calls
  Crashes      \* the server may die in the middle of a chain

(* Mutant: merge_local deletes the branch, with -D, before it merges it.   *)
ChainDeletingFirst ==
  [provider    |-> <<"archive", "commit", "merge_main", "push", "request", "issue",
                     "cleanup", "clear", "checkout">>,
   merge_local |-> <<"archive", "commit", "checkout", "delete_force", "merge", "cleanup",
                     "clear">>,
   push_pr     |-> <<"archive", "commit", "push", "pr", "cleanup", "checkout", "clear">>,
   keep        |-> <<"archive", "commit", "cleanup", "clear">>,
   discard     |-> <<"reset", "checkout", "delete_force", "cleanup", "clear">>]

Chain ==
  [provider    |-> <<"archive", "commit", "merge_main", "push", "request", "issue",
                     "cleanup", "clear", "checkout">>,
   merge_local |-> <<"archive", "commit", "checkout", "merge", "delete", "cleanup", "clear">>,
   push_pr     |-> <<"archive", "commit", "push", "pr", "cleanup", "checkout", "clear">>,
   keep        |-> <<"archive", "commit", "cleanup", "clear">>,
   discard     |-> <<"reset", "checkout", "delete_force", "cleanup", "clear">>]

Flows == DOMAIN Chain

(* create_merge_request and update_issue_status report success whatever    *)
(* happens.                                                                *)
Fallible == {"archive", "commit", "merge_main", "push", "pr", "cleanup", "clear",
             "checkout", "merge", "delete", "reset", "delete_force"}

Changes == {"work", "fix", "archive"}
Branches == {"feature", "default"}

ASSUME CompletionAssumption ==
  /\ Options \subseteq Flows
  /\ {Switches, Crashes} \subseteq BOOLEAN
  /\ CanFail \subseteq Fallible

VARIABLES
  active,      \* current_task.json names the task and its branch
  head,        \* the branch checked out
  dirty,       \* changes in the working tree that are not committed
  feature,     \* changes on the task's branch
  exists,      \* the task's branch exists
  main,        \* changes on the default branch
  origin,      \* changes on the branch's copy at origin, or NoRemote
  request,     \* a pull or merge request for the branch is open
  flow, k,     \* the chain under way and its next operation; "none" between calls
  finished,    \* the flow that was completed, or "none"
  made,        \* history: the changes the user has made
  discarded,   \* history: a discard has thrown the working tree away
  strayed      \* history: the provider's chain has run on another branch

tree == <<head, dirty, feature, exists, main>>
outside == <<origin, request>>
history == <<finished, made, discarded, strayed>>
vars == <<active, tree, outside, flow, k, history>>

Init ==
  /\ active = TRUE
  /\ head = "feature" /\ exists = TRUE
  /\ dirty \in SUBSET {"work"}
  /\ feature = {"work"} \ dirty
  /\ main = {} /\ origin \in {{}, NoRemote} /\ request = FALSE
  /\ flow = "none" /\ k = 0
  /\ finished = "none" /\ made = {"work"}
  /\ discarded = FALSE /\ strayed = FALSE

At(op) == flow # "none" /\ k <= Len(Chain[flow]) /\ Chain[flow][k] = op
Stop == flow' = "none" /\ k' = 0
(* The operation has done its work; it may still report a failure (a       *)
(* timeout after the fact).                                                *)
Report(op) ==
  \/ k' = k + 1 /\ UNCHANGED flow
  \/ op \in CanFail /\ Stop

(* The local flows first check that the task's branch is checked out; the  *)
(* provider's chain does not, and commits on whatever branch it finds      *)
(* (strayed).  A discard has passed its confirmation gate.                 *)
Dispatch(option) ==
  /\ flow = "none" /\ finished = "none"
  /\ option = "provider" \/ (active /\ head = "feature")
  /\ flow' = option /\ k' = 1
  /\ strayed' = (strayed \/ (active /\ head # "feature"))
  /\ UNCHANGED <<active, tree, outside, finished, made, discarded>>

(* Mutant: a failed operation does not end the chain.                      *)
OpFailsAndGoesOn ==
  /\ \E op \in Fallible :
       /\ At(op)
       /\ op \in CanFail \/ (~active /\ op \in {"archive", "commit", "merge_main", "push"})
  /\ k' = k + 1
  /\ UNCHANGED <<active, tree, outside, flow, history>>

(* The first operations read the task's name and branch; without them, as  *)
(* on any other failure, the chain stops.  Nothing has been done, or (see  *)
(* Report) everything.                                                     *)
OpFails ==
  /\ \E op \in Fallible :
       /\ At(op)
       /\ op \in CanFail \/ (~active /\ op \in {"archive", "commit", "merge_main", "push"})
  /\ Stop
  /\ UNCHANGED <<active, tree, outside, history>>

(* _func_archive_task.  A file that is already in tasks/done will do.      *)
TaskFileHere == head = "feature" \/ "work" \in dirty \cup main
Archived == "archive" \in dirty \cup IF head = "feature" THEN feature ELSE main
ArchiveTask ==
  /\ At("archive") /\ active /\ TaskFileHere
  /\ dirty' = IF Archived THEN dirty ELSE dirty \cup {"archive"}
  /\ Report("archive")
  /\ UNCHANGED <<active, head, feature, exists, main, outside, history>>

NoTaskFile ==
  /\ At("archive") /\ active /\ ~TaskFileHere
  /\ Stop
  /\ UNCHANGED <<active, tree, outside, history>>

(* _func_git_commit, on whatever branch is checked out.                    *)
GitCommit ==
  /\ At("commit") /\ active
  /\ \/ head = "feature" /\ feature' = feature \cup dirty /\ UNCHANGED main
     \/ head = "default" /\ main' = main \cup dirty /\ UNCHANGED feature
  /\ dirty' = {}
  /\ Report("commit")
  /\ UNCHANGED <<active, head, exists, outside, history>>

(* _func_git_merge_main: the default branch into the one checked out.      *)
GitMergeMain ==
  /\ At("merge_main") /\ active
  /\ feature' = IF origin # NoRemote /\ head = "feature" THEN feature \cup main ELSE feature
  /\ Report("merge_main")
  /\ UNCHANGED <<active, head, dirty, exists, main, outside, history>>

(* _func_git_push: the task's branch, and nothing where there is no origin. *)
GitPush ==
  /\ At("push") /\ active
  /\ origin' = IF origin # NoRemote THEN feature ELSE NoRemote
  /\ Report("push")
  /\ UNCHANGED <<active, tree, request, history>>

(* _func_create_merge_request: "success" whether or not there is one now.  *)
CreateMergeRequest ==
  /\ At("request")
  /\ request' \in {request, active /\ origin \notin {{}, NoRemote}}
  /\ k' = k + 1
  /\ UNCHANGED <<active, tree, origin, flow, history>>

(* gh pr create, unless gh pr view finds an open one.                      *)
CreatePullRequest ==
  /\ At("pr") /\ origin \notin {{}, NoRemote}
  /\ request' = TRUE
  /\ Report("pr")
  /\ UNCHANGED <<active, tree, origin, history>>

NothingToRequest ==
  /\ At("pr") /\ origin \in {{}, NoRemote}
  /\ Stop
  /\ UNCHANGED <<active, tree, outside, history>>

(* update_issue_status and cleanup_task_scoped_state change nothing here.  *)
Housekeeping ==
  /\ \/ At("issue") /\ k' = k + 1 /\ UNCHANGED flow
     \/ At("cleanup") /\ Report("cleanup")
  /\ UNCHANGED <<active, tree, outside, history>>

ClearTaskState ==
  /\ At("clear")
  /\ active' = FALSE
  /\ Report("clear")
  /\ UNCHANGED <<tree, outside, history>>

(* Mutant: the default branch's name is hard-coded.                        *)
CheckoutMain ==
  /\ At("checkout")
  /\ head' = "main"
  /\ Report("checkout")
  /\ UNCHANGED <<active, dirty, feature, exists, main, outside, history>>

CheckoutDefault ==
  /\ At("checkout")
  /\ head' = "default"
  /\ Report("checkout")
  /\ UNCHANGED <<active, dirty, feature, exists, main, outside, history>>

(* _git_merge_feature: git merge --no-ff.                                  *)
MergeFeature ==
  /\ At("merge")
  /\ main' = main \cup feature
  /\ Report("merge")
  /\ UNCHANGED <<active, head, dirty, feature, exists, outside, history>>

(* _git_delete_feature: git branch -d refuses a branch that is not merged; *)
(* git branch -D does not.                                                 *)
DeleteFeature ==
  /\ \/ At("delete") /\ feature \subseteq main /\ Report("delete")
     \/ At("delete_force") /\ Report("delete_force")
  /\ exists' = FALSE /\ feature' = {}
  /\ UNCHANGED <<active, head, dirty, main, outside, history>>

(* git reset --hard and git clean.                                         *)
ResetHard ==
  /\ At("reset")
  /\ dirty' = {} /\ discarded' = TRUE
  /\ Report("reset")
  /\ UNCHANGED <<active, head, feature, exists, main, outside, finished, made, strayed>>

(* The chain is through; the last step's advance completes the protocol.   *)
Complete ==
  /\ flow # "none" /\ k > Len(Chain[flow])
  /\ finished' = flow
  /\ Stop
  /\ UNCHANGED <<active, tree, outside, made, discarded, strayed>>

(* git checkout by the user; uncommitted changes come along.               *)
UserSwitches(b) ==
  /\ Switches /\ flow = "none" /\ finished = "none"
  /\ b # head
  /\ b = "feature" => exists
  /\ head' = b
  /\ UNCHANGED <<active, dirty, feature, exists, main, outside, flow, k, history>>

(* The user repairs what made the chain stop, a merge conflict say.        *)
UserEdits ==
  /\ flow = "none" /\ finished = "none"
  /\ dirty' = dirty \cup {"fix"} /\ made' = made \cup {"fix"}
  /\ UNCHANGED <<active, head, feature, exists, main, outside, flow, k, finished,
                 discarded, strayed>>

Crash ==
  /\ Crashes /\ flow # "none"
  /\ Stop
  /\ UNCHANGED <<active, tree, outside, history>>

Operation ==
  \/ OpFails \/ ArchiveTask \/ NoTaskFile \/ GitCommit \/ GitMergeMain \/ GitPush
  \/ CreateMergeRequest \/ CreatePullRequest \/ NothingToRequest \/ Housekeeping
  \/ ClearTaskState \/ CheckoutDefault \/ MergeFeature \/ DeleteFeature \/ ResetHard
  \/ Complete

Next ==
  \/ \E option \in Options : Dispatch(option)
  \/ \E b \in Branches : UserSwitches(b)
  \/ Operation \/ UserEdits \/ Crash

Spec == Init /\ [][Next]_vars

-------------------------------------------------------------------------------
TypeOK ==
  /\ {active, exists, request, discarded, strayed} \subseteq BOOLEAN
  /\ head \in Branches
  /\ {dirty, feature, main, made} \subseteq SUBSET Changes
  /\ origin = NoRemote \/ origin \subseteq Changes
  /\ flow \in Options \cup {"none"}
  /\ k \in 0..10
  /\ finished \in Options \cup {"none"}

(* Only a confirmed discard can lose the user's work: as long as none has  *)
(* run, all of it is in the user's repository, in the working tree or on a *)
(* branch that exists, whatever fails, however the options follow one      *)
(* another and wherever the server dies.                                   *)
WorkIsSafe == ~discarded => made \subseteq dirty \cup feature \cup main

(* The protocol completes only when the chosen flow has done what it says: *)
(* no earlier attempt that stopped half-way, under this option or another, *)
(* makes a retry skip something.  Where the changes end up is promised     *)
(* only if the provider's chain, which does not check the branch, has      *)
(* always run on the task's.                                               *)
CompletedAsPromised ==
  LET onto(b) == discarded \/ strayed \/ made \cup {"archive"} \subseteq b
  IN  /\ finished # "none" => ~active
      /\ finished = "provider" =>
           /\ head = "default" /\ onto(feature)
           /\ origin # NoRemote => onto(origin)
      /\ finished = "merge_local" => head = "default" /\ ~exists /\ onto(main)
      /\ finished = "push_pr" => head = "default" /\ request /\ onto(origin)
      /\ finished = "keep" => exists /\ onto(feature)
      /\ finished = "discard" => head = "default" /\ ~exists
===============================================================================
