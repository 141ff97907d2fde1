------------------------ MODULE CompletionChainProofs ------------------------
(***************************************************************************)
(* The user's work survives the completion chain, and a chain that is      *)
(* completed has done what its option promises, for either kind of         *)
(* repository and whatever operations fail.                                *)
(***************************************************************************)
EXTENDS CompletionChain, TLAPS

(* The force-delete of a discard comes after its reset, so it runs only    *)
(* once the user has given the work up.                                    *)
ResetBeforeDelete == flow = "discard" /\ k > 1 => discarded

OrderInv ==
  /\ flow \in Flows \cup {"none"}
  /\ k \in Nat
  /\ flow # "none" => k # 0
  /\ ResetBeforeDelete

SafeInv == OrderInv /\ WorkIsSafe

LEMMA FlowNames == Flows = {"provider", "merge_local", "push_pr", "keep", "discard"}
  BY DEF Flows, Chain

(* The positions of the operations that WorkIsSafe depends on.             *)
LEMMA ForcedDeleteIsDiscard ==
  ASSUME flow \in Flows \cup {"none"}, k \in Nat \ {0}, At("delete_force")
  PROVE  flow = "discard" /\ k > 1
<1>1. CASE flow = "provider"
  <2>1. Chain[flow] = <<"archive", "commit", "merge_main", "push", "request", "issue",
                        "cleanup", "clear", "checkout">>
    BY <1>1 DEF Chain
  <2> QED  BY <2>1 DEF At
<1>2. CASE flow = "merge_local"
  <2>1. Chain[flow] = <<"archive", "commit", "checkout", "merge", "delete", "cleanup",
                        "clear">>
    BY <1>2 DEF Chain
  <2> QED  BY <2>1 DEF At
<1>3. CASE flow = "push_pr"
  <2>1. Chain[flow] = <<"archive", "commit", "push", "pr", "cleanup", "checkout", "clear">>
    BY <1>3 DEF Chain
  <2> QED  BY <2>1 DEF At
<1>4. CASE flow = "keep"
  <2>1. Chain[flow] = <<"archive", "commit", "cleanup", "clear">>
    BY <1>4 DEF Chain
  <2> QED  BY <2>1 DEF At
<1>5. CASE flow = "discard"
  <2>1. Chain[flow] = <<"reset", "checkout", "delete_force", "cleanup", "clear">>
    BY <1>5 DEF Chain
  <2> QED  BY <1>5, <2>1 DEF At
<1> QED  BY <1>1, <1>2, <1>3, <1>4, <1>5, FlowNames DEF At

LEMMA DiscardStartsWithReset ==
  ASSUME NEW op, At(op), flow = "discard", k = 1
  PROVE  op = "reset"
<1>1. Chain[flow] = <<"reset", "checkout", "delete_force", "cleanup", "clear">>
  BY DEF Chain
<1> QED  BY <1>1 DEF At

(* An operation other than the reset moves the chain on, or stops it.      *)
LEMMA ReportKeepsOrder ==
  ASSUME OrderInv, NEW op, At(op), op # "reset", Report(op), discarded' = discarded
  PROVE  OrderInv'
<1>1. flow # "none" /\ k \in Nat \ {0}
  BY DEF At, OrderInv
<1>2. CASE k' = k + 1 /\ flow' = flow
  <2>1. ASSUME flow = "discard"  PROVE discarded
    BY <1>1, <2>1, DiscardStartsWithReset DEF OrderInv, ResetBeforeDelete
  <2> QED  BY <1>1, <1>2, <2>1 DEF OrderInv, ResetBeforeDelete
<1>3. CASE Stop
  BY <1>3 DEF Stop, OrderInv, ResetBeforeDelete
<1> QED  BY <1>2, <1>3 DEF Report

LEMMA StopKeepsOrder ==
  ASSUME OrderInv, Stop
  PROVE  OrderInv'
BY DEF Stop, OrderInv, ResetBeforeDelete

LEMMA SafeStep ==
  ASSUME SafeInv, [Next]_vars
  PROVE  SafeInv'
<1> USE DEF SafeInv
<1>1. CASE \E option \in Options : Dispatch(option)
  <2>1. PICK option \in Options : Dispatch(option)
    BY <1>1
  <2>2. option \in Flows
    BY CompletionAssumption
  <2> QED  BY <2>1, <2>2 DEF Dispatch, OrderInv, ResetBeforeDelete, WorkIsSafe, tree, history
<1>2. CASE OpFails
  BY <1>2, StopKeepsOrder DEF OpFails, WorkIsSafe, tree, history
<1>3. CASE ArchiveTask
  <2>1. OrderInv'
    BY <1>3, ReportKeepsOrder DEF ArchiveTask, history
  <2> QED  BY <1>3, <2>1 DEF ArchiveTask, WorkIsSafe, history
<1>4. CASE NoTaskFile
  BY <1>4, StopKeepsOrder DEF NoTaskFile, WorkIsSafe, tree, history
<1>5. CASE GitCommit
  <2>1. OrderInv'
    BY <1>5, ReportKeepsOrder DEF GitCommit, history
  <2> QED  BY <1>5, <2>1 DEF GitCommit, WorkIsSafe, history
<1>6. CASE GitMergeMain
  <2>1. OrderInv'
    BY <1>6, ReportKeepsOrder DEF GitMergeMain, history
  <2> QED  BY <1>6, <2>1 DEF GitMergeMain, WorkIsSafe, history
<1>7. CASE GitPush
  <2>1. OrderInv'
    BY <1>7, ReportKeepsOrder DEF GitPush, history
  <2> QED  BY <1>7, <2>1 DEF GitPush, WorkIsSafe, tree, history
<1>8. CASE CreateMergeRequest
  <2>1. OrderInv'
    BY <1>8, ReportKeepsOrder DEF CreateMergeRequest, Report, history
  <2> QED  BY <1>8, <2>1 DEF CreateMergeRequest, WorkIsSafe, tree, history
<1>9. CASE CreatePullRequest
  <2>1. OrderInv'
    BY <1>9, ReportKeepsOrder DEF CreatePullRequest, history
  <2> QED  BY <1>9, <2>1 DEF CreatePullRequest, WorkIsSafe, tree, history
<1>10. CASE NothingToRequest
  BY <1>10, StopKeepsOrder DEF NothingToRequest, WorkIsSafe, tree, history
<1>11. CASE Housekeeping
  <2>1. OrderInv'
    BY <1>11, ReportKeepsOrder DEF Housekeeping, Report, history
  <2> QED  BY <1>11, <2>1 DEF Housekeeping, WorkIsSafe, tree, history
<1>12. CASE ClearTaskState
  <2>1. OrderInv'
    BY <1>12, ReportKeepsOrder DEF ClearTaskState, history
  <2> QED  BY <1>12, <2>1 DEF ClearTaskState, WorkIsSafe, tree, history
<1>13. CASE CheckoutDefault
  <2>1. OrderInv'
    BY <1>13, ReportKeepsOrder DEF CheckoutDefault, history
  <2> QED  BY <1>13, <2>1 DEF CheckoutDefault, WorkIsSafe, history
<1>14. CASE MergeFeature
  <2>1. OrderInv'
    BY <1>14, ReportKeepsOrder DEF MergeFeature, history
  <2> QED  BY <1>14, <2>1 DEF MergeFeature, WorkIsSafe, history
<1>15. CASE DeleteFeature
  <2>1. OrderInv'
    BY <1>15, ReportKeepsOrder DEF DeleteFeature, history
  <2>2. CASE At("delete") /\ feature \subseteq main
    BY <1>15, <2>1, <2>2 DEF DeleteFeature, WorkIsSafe, history
  <2>3. CASE At("delete_force")
    <3>1. k \in Nat \ {0}
      BY <2>3 DEF At, OrderInv
    <3>2. discarded
      BY <2>3, <3>1, ForcedDeleteIsDiscard DEF OrderInv, ResetBeforeDelete
    <3> QED  BY <1>15, <2>1, <3>2 DEF DeleteFeature, WorkIsSafe, history
  <2> QED  BY <1>15, <2>2, <2>3 DEF DeleteFeature
<1>16. CASE ResetHard
  <2>1. OrderInv'
    BY <1>16 DEF ResetHard, Report, Stop, OrderInv, ResetBeforeDelete
  <2> QED  BY <1>16, <2>1 DEF ResetHard, WorkIsSafe
<1>17. CASE Complete
  BY <1>17, StopKeepsOrder DEF Complete, WorkIsSafe, tree
<1>18. CASE \E b \in Branches : UserSwitches(b)
  BY <1>18 DEF UserSwitches, OrderInv, ResetBeforeDelete, WorkIsSafe, history
<1>19. CASE UserEdits
  BY <1>19 DEF UserEdits, OrderInv, ResetBeforeDelete, WorkIsSafe
<1>20. CASE Crash
  BY <1>20, StopKeepsOrder DEF Crash, WorkIsSafe, tree, history
<1>21. CASE UNCHANGED vars
  BY <1>21 DEF vars, tree, history, OrderInv, ResetBeforeDelete, WorkIsSafe
<1> QED
  BY <1>1, <1>2, <1>3, <1>4, <1>5, <1>6, <1>7, <1>8, <1>9, <1>10, <1>11, <1>12,
     <1>13, <1>14, <1>15, <1>16, <1>17, <1>18, <1>19, <1>20, <1>21
  DEF Next, Operation

(* Only a confirmed discard loses the user's work: whatever operations can *)
(* fail, with or without an origin or an issue tracker, and for any order  *)
(* of attempts, switches, edits and crashes.                               *)
THEOREM WorkSurvives == Spec => []WorkIsSafe
<1>1. Init => SafeInv
  BY DEF Init, SafeInv, OrderInv, ResetBeforeDelete, WorkIsSafe
<1>2. SafeInv /\ [Next]_vars => SafeInv'
  BY SafeStep
<1>3. SafeInv => WorkIsSafe
  BY DEF SafeInv
<1> QED  BY <1>1, <1>2, <1>3, PTL DEF Spec

-------------------------------------------------------------------------------
(* What the operations so far have achieved, flow by flow.                 *)
Archiving == {"provider", "merge_local", "push_pr", "keep"}

Onto(branch) == discarded \/ strayed \/ made \cup {"archive"} \subseteq branch

(* The task's branch, while it exists, holds the user's work.              *)
WorkIsHere ==
  /\ head = "feature" => exists
  /\ exists => discarded \/ strayed \/ made \subseteq dirty \cup feature

HeadIs ==
  /\ flow = "provider" => (active => strayed \/ head = "feature") /\ (k > 9 => head = "default")
  /\ flow = "merge_local" => head = IF k > 3 THEN "default" ELSE "feature"
  /\ flow = "push_pr" => head = IF k > 6 THEN "default" ELSE "feature"
  /\ flow = "keep" => head = "feature"
  /\ flow = "discard" => head = IF k > 2 THEN "default" ELSE "feature"

BranchIs ==
  /\ flow = "merge_local" /\ k > 5 => ~exists
  /\ flow = "discard" /\ k > 3 => ~exists

Achieved ==
  /\ flow \in Archiving /\ k = 2 => discarded \/ strayed \/ "archive" \in dirty \cup feature
  /\ flow \in {"provider", "push_pr", "keep"} /\ k > 2 => Onto(feature)
  /\ flow = "merge_local" /\ k \in 3..5 => Onto(feature)
  /\ flow = "merge_local" /\ k > 4 => Onto(main)
  /\ flow = "provider" /\ k > 4 /\ origin # NoRemote => Onto(origin)
  /\ flow = "push_pr" /\ k > 3 /\ origin # NoRemote => Onto(origin)
  /\ flow = "push_pr" /\ k > 4 => origin # NoRemote /\ request

Cleared ==
  /\ flow = "provider" /\ k > 8 => ~active
  /\ flow = "merge_local" /\ k > 7 => ~active
  /\ flow = "push_pr" /\ k > 7 => ~active
  /\ flow = "keep" /\ k > 4 => ~active
  /\ flow = "discard" /\ k > 5 => ~active

Places ==
  /\ flow \in Flows \cup {"none"} /\ k \in Nat
  /\ flow # "none" => k # 0
  /\ head \in Branches
  /\ finished # "none" => flow = "none"

PromiseInv ==
  /\ Places /\ WorkIsHere /\ HeadIs /\ BranchIs /\ Achieved /\ Cleared
  /\ CompletedAsPromised

(* Where each operation stands in the chains.                              *)
LEMMA OpPositions ==
  ASSUME flow \in Flows \cup {"none"}, k \in Nat \ {0}, NEW op, At(op)
  PROVE
    /\ flow = "provider" =>
        \/ (k = 1 /\ op = "archive") \/ (k = 2 /\ op = "commit") \/ (k = 3 /\ op = "merge_main")
        \/ (k = 4 /\ op = "push") \/ (k = 5 /\ op = "request") \/ (k = 6 /\ op = "issue")
        \/ (k = 7 /\ op = "cleanup") \/ (k = 8 /\ op = "clear") \/ (k = 9 /\ op = "checkout")
    /\ flow = "merge_local" =>
        \/ (k = 1 /\ op = "archive") \/ (k = 2 /\ op = "commit") \/ (k = 3 /\ op = "checkout")
        \/ (k = 4 /\ op = "merge") \/ (k = 5 /\ op = "delete") \/ (k = 6 /\ op = "cleanup")
        \/ (k = 7 /\ op = "clear")
    /\ flow = "push_pr" =>
        \/ (k = 1 /\ op = "archive") \/ (k = 2 /\ op = "commit") \/ (k = 3 /\ op = "push")
        \/ (k = 4 /\ op = "pr") \/ (k = 5 /\ op = "cleanup") \/ (k = 6 /\ op = "checkout")
        \/ (k = 7 /\ op = "clear")
    /\ flow = "keep" =>
        \/ (k = 1 /\ op = "archive") \/ (k = 2 /\ op = "commit") \/ (k = 3 /\ op = "cleanup")
        \/ (k = 4 /\ op = "clear")
    /\ flow = "discard" =>
        \/ (k = 1 /\ op = "reset") \/ (k = 2 /\ op = "checkout") \/ (k = 3 /\ op = "delete_force")
        \/ (k = 4 /\ op = "cleanup") \/ (k = 5 /\ op = "clear")
    /\ flow \in Flows
<1>1. ASSUME flow = "provider"
      PROVE
        \/ (k = 1 /\ op = "archive") \/ (k = 2 /\ op = "commit") \/ (k = 3 /\ op = "merge_main")
        \/ (k = 4 /\ op = "push") \/ (k = 5 /\ op = "request") \/ (k = 6 /\ op = "issue")
        \/ (k = 7 /\ op = "cleanup") \/ (k = 8 /\ op = "clear") \/ (k = 9 /\ op = "checkout")
  <2> DEFINE chain == <<"archive", "commit", "merge_main", "push", "request", "issue",
                      "cleanup", "clear", "checkout">>
  <2>1. Chain[flow] = chain
    BY <1>1 DEF Chain
  <2>2. /\ Len(chain) = 9 /\ chain[1] = "archive" /\ chain[2] = "commit" /\ chain[3] = "merge_main" /\ chain[4] = "push"
        /\ chain[5] = "request" /\ chain[6] = "issue" /\ chain[7] = "cleanup" /\ chain[8] = "clear" /\ chain[9] = "checkout"
    OBVIOUS
  <2>3. k \in 1..9
    BY <2>1, <2>2 DEF At
  <2>4. chain[k] = op
    BY <2>1 DEF At
  <2> HIDE DEF chain
  <2> QED  BY <2>2, <2>3, <2>4
<1>2. ASSUME flow = "merge_local"
      PROVE
        \/ (k = 1 /\ op = "archive") \/ (k = 2 /\ op = "commit") \/ (k = 3 /\ op = "checkout")
        \/ (k = 4 /\ op = "merge") \/ (k = 5 /\ op = "delete") \/ (k = 6 /\ op = "cleanup")
        \/ (k = 7 /\ op = "clear")
  <2> DEFINE chain == <<"archive", "commit", "checkout", "merge", "delete", "cleanup", "clear">>
  <2>1. Chain[flow] = chain
    BY <1>2 DEF Chain
  <2>2. /\ Len(chain) = 7 /\ chain[1] = "archive" /\ chain[2] = "commit" /\ chain[3] = "checkout" /\ chain[4] = "merge"
        /\ chain[5] = "delete" /\ chain[6] = "cleanup" /\ chain[7] = "clear"
    OBVIOUS
  <2>3. k \in 1..7
    BY <2>1, <2>2 DEF At
  <2>4. chain[k] = op
    BY <2>1 DEF At
  <2> HIDE DEF chain
  <2> QED  BY <2>2, <2>3, <2>4
<1>3. ASSUME flow = "push_pr"
      PROVE
        \/ (k = 1 /\ op = "archive") \/ (k = 2 /\ op = "commit") \/ (k = 3 /\ op = "push")
        \/ (k = 4 /\ op = "pr") \/ (k = 5 /\ op = "cleanup") \/ (k = 6 /\ op = "checkout")
        \/ (k = 7 /\ op = "clear")
  <2> DEFINE chain == <<"archive", "commit", "push", "pr", "cleanup", "checkout", "clear">>
  <2>1. Chain[flow] = chain
    BY <1>3 DEF Chain
  <2>2. /\ Len(chain) = 7 /\ chain[1] = "archive" /\ chain[2] = "commit" /\ chain[3] = "push" /\ chain[4] = "pr"
        /\ chain[5] = "cleanup" /\ chain[6] = "checkout" /\ chain[7] = "clear"
    OBVIOUS
  <2>3. k \in 1..7
    BY <2>1, <2>2 DEF At
  <2>4. chain[k] = op
    BY <2>1 DEF At
  <2> HIDE DEF chain
  <2> QED  BY <2>2, <2>3, <2>4
<1>4. ASSUME flow = "keep"
      PROVE
        \/ (k = 1 /\ op = "archive") \/ (k = 2 /\ op = "commit") \/ (k = 3 /\ op = "cleanup")
        \/ (k = 4 /\ op = "clear")
  <2> DEFINE chain == <<"archive", "commit", "cleanup", "clear">>
  <2>1. Chain[flow] = chain
    BY <1>4 DEF Chain
  <2>2. /\ Len(chain) = 4 /\ chain[1] = "archive" /\ chain[2] = "commit" /\ chain[3] = "cleanup" /\ chain[4] = "clear"
    OBVIOUS
  <2>3. k \in 1..4
    BY <2>1, <2>2 DEF At
  <2>4. chain[k] = op
    BY <2>1 DEF At
  <2> HIDE DEF chain
  <2> QED  BY <2>2, <2>3, <2>4
<1>5. ASSUME flow = "discard"
      PROVE
        \/ (k = 1 /\ op = "reset") \/ (k = 2 /\ op = "checkout") \/ (k = 3 /\ op = "delete_force")
        \/ (k = 4 /\ op = "cleanup") \/ (k = 5 /\ op = "clear")
  <2> DEFINE chain == <<"reset", "checkout", "delete_force", "cleanup", "clear">>
  <2>1. Chain[flow] = chain
    BY <1>5 DEF Chain
  <2>2. /\ Len(chain) = 5 /\ chain[1] = "reset" /\ chain[2] = "checkout" /\ chain[3] = "delete_force" /\ chain[4] = "cleanup"
        /\ chain[5] = "clear"
    OBVIOUS
  <2>3. k \in 1..5
    BY <2>1, <2>2 DEF At
  <2>4. chain[k] = op
    BY <2>1 DEF At
  <2> HIDE DEF chain
  <2> QED  BY <2>2, <2>3, <2>4
<1> QED  BY <1>1, <1>2, <1>3, <1>4, <1>5 DEF At

LEMMA ChainLengths ==
  ASSUME flow \in Flows, k \in Nat, k > Len(Chain[flow])
  PROVE  /\ flow = "provider" => k > 9
         /\ flow = "merge_local" => k > 7
         /\ flow = "push_pr" => k > 7
         /\ flow = "keep" => k > 4
         /\ flow = "discard" => k > 5
<1>1. Len(Chain["provider"]) = 9 /\ Len(Chain["merge_local"]) = 7
  BY DEF Chain
<1>2. Len(Chain["push_pr"]) = 7 /\ Len(Chain["keep"]) = 4 /\ Len(Chain["discard"]) = 5
  BY DEF Chain
<1> QED  BY <1>1, <1>2

(* A chain that stops promises nothing but that the work is there.         *)
LEMMA StopKeepsPromise ==
  ASSUME PromiseInv, Stop, WorkIsHere', UNCHANGED <<finished, head>>, finished = "none"
  PROVE  PromiseInv'
<1>1. Places'
  BY DEF PromiseInv, Places, Stop
<1>2. HeadIs' /\ BranchIs' /\ Achieved' /\ Cleared'
  BY DEF Stop, HeadIs, BranchIs, Achieved, Cleared, Archiving
<1>3. CompletedAsPromised'
  BY DEF CompletedAsPromised
<1> QED  BY <1>1, <1>2, <1>3 DEF PromiseInv

(* A chain that moves on keeps what was achieved and adds its operation's  *)
(* part.                                                                   *)
LEMMA ReportKeepsPromise ==
  ASSUME PromiseInv, NEW op, At(op), Report(op), UNCHANGED finished,
         WorkIsHere', head' \in Branches,
         k' = k + 1 /\ flow' = flow => HeadIs' /\ BranchIs' /\ Achieved' /\ Cleared'
  PROVE  PromiseInv'
<1>1. flow # "none" /\ finished = "none" /\ k \in Nat
  BY DEF At, PromiseInv, Places
<1>2. CompletedAsPromised'
  BY <1>1 DEF CompletedAsPromised
<1>3. CASE k' = k + 1 /\ flow' = flow
  BY <1>1, <1>2, <1>3 DEF PromiseInv, Places
<1>4. CASE Stop
  <2>1. HeadIs' /\ BranchIs' /\ Achieved' /\ Cleared'
    BY <1>4 DEF Stop, HeadIs, BranchIs, Achieved, Cleared, Archiving
  <2> QED  BY <1>1, <1>2, <1>4, <2>1 DEF PromiseInv, Places, Stop
<1> QED  BY <1>3, <1>4 DEF Report

LEMMA OperationKeepsPromise ==
  ASSUME PromiseInv, Operation
  PROVE  PromiseInv'
<1> USE DEF Branches
<1>0. /\ flow \in Flows \cup {"none"} /\ k \in Nat /\ head \in Branches
      /\ \A op : At(op) => flow # "none" /\ k \in Nat \ {0} /\ finished = "none"
      /\ WorkIsHere /\ HeadIs /\ BranchIs /\ Achieved /\ Cleared
  BY DEF PromiseInv, Places, At
<1>1. CASE OpFails \/ NoTaskFile \/ NothingToRequest
  <2>1. Stop /\ UNCHANGED <<active, tree, outside, history>> /\ finished = "none"
    BY <1>0, <1>1 DEF OpFails, NoTaskFile, NothingToRequest
  <2>2. WorkIsHere'
    BY <1>0, <2>1 DEF WorkIsHere, tree, history
  <2> QED  BY <2>1, <2>2, StopKeepsPromise DEF tree, history
<1>2. CASE ArchiveTask
  <2>1. At("archive") /\ Report("archive") /\ active
    BY <1>2 DEF ArchiveTask
  <2>2. UNCHANGED <<active, head, feature, exists, main, origin, request, finished, made, discarded, strayed>>
    BY <1>2 DEF ArchiveTask, outside, history
  <2>3. dirty \subseteq dirty' /\ (head = "feature" => "archive" \in dirty' \cup feature)
    BY <1>2 DEF ArchiveTask, Archived
  <2>4. WorkIsHere'
    BY <1>0, <2>2, <2>3 DEF WorkIsHere
  <2>5. ASSUME k' = k + 1, flow' = flow  PROVE HeadIs' /\ BranchIs' /\ Achieved' /\ Cleared'
    <3>1. k = 1 /\ k' = 2 /\ flow \in Archiving
      BY <1>0, <2>1, <2>5, OpPositions, FlowNames DEF Archiving
    <3>2. strayed \/ head = "feature"
      BY <1>0, <2>1, <3>1 DEF HeadIs, Archiving
    <3>3. HeadIs' /\ BranchIs' /\ Cleared'
      BY <1>0, <2>1, <2>2, <2>5, <3>1 DEF HeadIs, BranchIs, Cleared
    <3>4. Achieved'
      BY <2>2, <2>3, <2>5, <3>1, <3>2 DEF Achieved
    <3> QED  BY <3>3, <3>4
  <2> QED  BY <1>0, <2>1, <2>2, <2>4, <2>5, ReportKeepsPromise
<1>3. CASE GitCommit
  <2>1. At("commit") /\ Report("commit") /\ active
    BY <1>3 DEF GitCommit
  <2>2. UNCHANGED <<active, head, exists, origin, request, finished, made, discarded, strayed>> /\ dirty' = {}
    BY <1>3 DEF GitCommit, outside, history
  <2>3. k = 2 /\ flow \in Archiving
    BY <1>0, <2>1, OpPositions, FlowNames DEF Archiving
  <2>4. strayed \/ head = "feature"
    BY <1>0, <2>1, <2>3 DEF HeadIs, Archiving
  <2>5. head = "feature" => feature' = feature \cup dirty
    BY <1>3 DEF GitCommit
  <2>6. WorkIsHere'
    BY <1>0, <2>2, <2>4, <2>5 DEF WorkIsHere
  <2>7. discarded \/ strayed \/ made \cup {"archive"} \subseteq feature'
    BY <1>0, <2>3, <2>4, <2>5 DEF WorkIsHere, Achieved
  <2>8. ASSUME k' = k + 1, flow' = flow  PROVE HeadIs' /\ BranchIs' /\ Achieved' /\ Cleared'
    <3>1. HeadIs' /\ BranchIs' /\ Cleared'
      BY <1>0, <2>1, <2>2, <2>3, <2>8 DEF HeadIs, BranchIs, Cleared, Archiving
    <3>2. Achieved'
      BY <2>2, <2>3, <2>7, <2>8 DEF Achieved, Onto
    <3> QED  BY <3>1, <3>2
  <2> QED  BY <1>0, <2>1, <2>2, <2>6, <2>8, ReportKeepsPromise
<1>4. CASE GitMergeMain
  <2>1. At("merge_main") /\ Report("merge_main")
    BY <1>4 DEF GitMergeMain
  <2>2. UNCHANGED <<active, head, dirty, exists, main, origin, request, finished, made, discarded, strayed>>
        /\ feature \subseteq feature'
    BY <1>4 DEF GitMergeMain, outside, history
  <2>3. k = 3 /\ flow = "provider"
    BY <1>0, <2>1, OpPositions, FlowNames
  <2>4. WorkIsHere'
    BY <1>0, <2>2 DEF WorkIsHere
  <2>5. ASSUME k' = k + 1, flow' = flow  PROVE HeadIs' /\ BranchIs' /\ Achieved' /\ Cleared'
    BY <1>0, <2>2, <2>3, <2>5 DEF HeadIs, BranchIs, Cleared, Achieved, Onto
  <2> QED  BY <1>0, <2>1, <2>2, <2>4, <2>5, ReportKeepsPromise
<1>5. CASE GitPush
  <2>1. At("push") /\ Report("push")
    BY <1>5 DEF GitPush
  <2>2. UNCHANGED <<active, head, dirty, feature, exists, main, request, finished, made, discarded, strayed>>
        /\ origin' \in {feature, NoRemote}
    BY <1>5 DEF GitPush, tree, history
  <2>3. \/ flow = "provider" /\ k = 4
        \/ flow = "push_pr" /\ k = 3
    BY <1>0, <2>1, OpPositions, FlowNames
  <2>4. WorkIsHere'
    BY <1>0, <2>2 DEF WorkIsHere
  <2>5. ASSUME k' = k + 1, flow' = flow  PROVE HeadIs' /\ BranchIs' /\ Achieved' /\ Cleared'
    BY <1>0, <2>2, <2>3, <2>5 DEF HeadIs, BranchIs, Cleared, Achieved, Onto, Archiving
  <2> QED  BY <1>0, <2>1, <2>2, <2>4, <2>5, ReportKeepsPromise
<1>6. CASE CreateMergeRequest
  <2>1. At("request") /\ Report("request")
    BY <1>6 DEF CreateMergeRequest, Report
  <2>2. UNCHANGED <<active, head, dirty, feature, exists, main, origin, finished, made, discarded, strayed>>
    BY <1>6 DEF CreateMergeRequest, tree, history
  <2>3. flow = "provider" /\ k = 5
    BY <1>0, <2>1, OpPositions, FlowNames
  <2>4. WorkIsHere'
    BY <1>0, <2>2 DEF WorkIsHere
  <2>5. ASSUME k' = k + 1, flow' = flow  PROVE HeadIs' /\ BranchIs' /\ Achieved' /\ Cleared'
    BY <1>0, <2>2, <2>3, <2>5 DEF HeadIs, BranchIs, Cleared, Achieved, Onto, Archiving
  <2> QED  BY <1>0, <2>1, <2>2, <2>4, <2>5, ReportKeepsPromise
<1>7. CASE CreatePullRequest
  <2>1. At("pr") /\ Report("pr") /\ origin # NoRemote /\ request' = TRUE
    BY <1>7 DEF CreatePullRequest
  <2>2. UNCHANGED <<active, head, dirty, feature, exists, main, origin, finished, made, discarded, strayed>>
    BY <1>7 DEF CreatePullRequest, tree, history
  <2>3. flow = "push_pr" /\ k = 4
    BY <1>0, <2>1, OpPositions, FlowNames
  <2>4. WorkIsHere'
    BY <1>0, <2>2 DEF WorkIsHere
  <2>5. ASSUME k' = k + 1, flow' = flow  PROVE HeadIs' /\ BranchIs' /\ Achieved' /\ Cleared'
    BY <1>0, <2>1, <2>2, <2>3, <2>5 DEF HeadIs, BranchIs, Cleared, Achieved, Onto, Archiving
  <2> QED  BY <1>0, <2>1, <2>2, <2>4, <2>5, ReportKeepsPromise
<1>8. CASE Housekeeping
  <2>1. PICK op \in {"issue", "cleanup"} : At(op) /\ Report(op)
    BY <1>8 DEF Housekeeping, Report
  <2>2. UNCHANGED <<active, head, dirty, feature, exists, main, origin, request, finished, made, discarded, strayed>>
    BY <1>8 DEF Housekeeping, tree, outside, history
  <2>3. \/ flow = "provider" /\ k \in {6, 7}
        \/ flow = "merge_local" /\ k = 6
        \/ flow = "push_pr" /\ k = 5
        \/ flow = "keep" /\ k = 3
        \/ flow = "discard" /\ k = 4
    BY <1>0, <2>1, OpPositions, FlowNames
  <2>4. WorkIsHere'
    BY <1>0, <2>2 DEF WorkIsHere
  <2>5. ASSUME k' = k + 1, flow' = flow  PROVE HeadIs' /\ BranchIs' /\ Achieved' /\ Cleared'
    BY <1>0, <2>2, <2>3, <2>5 DEF HeadIs, BranchIs, Cleared, Achieved, Onto, Archiving
  <2> QED  BY <1>0, <2>1, <2>2, <2>4, <2>5, ReportKeepsPromise
<1>9. CASE ClearTaskState
  <2>1. At("clear") /\ Report("clear") /\ active' = FALSE
    BY <1>9 DEF ClearTaskState
  <2>2. UNCHANGED <<head, dirty, feature, exists, main, origin, request, finished, made, discarded, strayed>>
    BY <1>9 DEF ClearTaskState, tree, outside, history
  <2>3. \/ flow = "provider" /\ k = 8
        \/ flow = "merge_local" /\ k = 7
        \/ flow = "push_pr" /\ k = 7
        \/ flow = "keep" /\ k = 4
        \/ flow = "discard" /\ k = 5
    BY <1>0, <2>1, OpPositions, FlowNames
  <2>4. WorkIsHere'
    BY <1>0, <2>2 DEF WorkIsHere
  <2>5. ASSUME k' = k + 1, flow' = flow  PROVE HeadIs' /\ BranchIs' /\ Achieved' /\ Cleared'
    <3>1. BranchIs' /\ HeadIs' /\ Cleared'
      BY <1>0, <2>1, <2>2, <2>3, <2>5 DEF HeadIs, BranchIs, Cleared
    <3>2. Achieved'
      BY <1>0, <2>2, <2>3, <2>5 DEF Achieved, Onto, Archiving
    <3> QED  BY <3>1, <3>2
  <2> QED  BY <1>0, <2>1, <2>2, <2>4, <2>5, ReportKeepsPromise
<1>10. CASE CheckoutDefault
  <2>1. At("checkout") /\ Report("checkout") /\ head' = "default"
    BY <1>10 DEF CheckoutDefault
  <2>2. UNCHANGED <<active, dirty, feature, exists, main, origin, request, finished, made, discarded, strayed>>
    BY <1>10 DEF CheckoutDefault, outside, history
  <2>3. \/ flow = "provider" /\ k = 9
        \/ flow = "merge_local" /\ k = 3
        \/ flow = "push_pr" /\ k = 6
        \/ flow = "discard" /\ k = 2
    BY <1>0, <2>1, OpPositions, FlowNames
  <2>4. WorkIsHere'
    BY <1>0, <2>1, <2>2 DEF WorkIsHere
  <2>5. ASSUME k' = k + 1, flow' = flow  PROVE HeadIs' /\ BranchIs' /\ Achieved' /\ Cleared'
    <3>1. BranchIs' /\ HeadIs' /\ Cleared'
      BY <1>0, <2>1, <2>2, <2>3, <2>5 DEF HeadIs, BranchIs, Cleared
    <3>2. Achieved'
      BY <1>0, <2>2, <2>3, <2>5 DEF Achieved, Onto, Archiving
    <3> QED  BY <3>1, <3>2
  <2> QED  BY <1>0, <2>1, <2>2, <2>4, <2>5, ReportKeepsPromise
<1>11. CASE MergeFeature
  <2>1. At("merge") /\ Report("merge") /\ main' = main \cup feature
    BY <1>11 DEF MergeFeature
  <2>2. UNCHANGED <<active, head, dirty, feature, exists, origin, request, finished, made, discarded, strayed>>
    BY <1>11 DEF MergeFeature, outside, history
  <2>3. flow = "merge_local" /\ k = 4
    BY <1>0, <2>1, OpPositions, FlowNames
  <2>4. WorkIsHere'
    BY <1>0, <2>2 DEF WorkIsHere
  <2>5. ASSUME k' = k + 1, flow' = flow  PROVE HeadIs' /\ BranchIs' /\ Achieved' /\ Cleared'
    <3>1. BranchIs' /\ HeadIs' /\ Cleared'
      BY <1>0, <2>2, <2>3, <2>5 DEF HeadIs, BranchIs, Cleared
    <3>2. Achieved'
      BY <1>0, <2>1, <2>2, <2>3, <2>5 DEF Achieved, Onto, Archiving
    <3> QED  BY <3>1, <3>2
  <2> QED  BY <1>0, <2>1, <2>2, <2>4, <2>5, ReportKeepsPromise
<1>12. CASE DeleteFeature
  <2>1. PICK op \in {"delete", "delete_force"} : At(op) /\ Report(op)
    BY <1>12 DEF DeleteFeature
  <2>2. /\ UNCHANGED <<active, head, dirty, main, origin, request, finished, made, discarded, strayed>>
        /\ exists' = FALSE
    BY <1>12 DEF DeleteFeature, outside, history
  <2>3. \/ flow = "merge_local" /\ k = 5
        \/ flow = "discard" /\ k = 3
    BY <1>0, <2>1, OpPositions, FlowNames
  <2>4. WorkIsHere'
    BY <1>0, <2>2, <2>3 DEF WorkIsHere, HeadIs
  <2>5. ASSUME k' = k + 1, flow' = flow  PROVE HeadIs' /\ BranchIs' /\ Achieved' /\ Cleared'
    <3>1. BranchIs' /\ HeadIs' /\ Cleared'
      BY <1>0, <2>2, <2>3, <2>5 DEF HeadIs, BranchIs, Cleared
    <3>2. Achieved'
      BY <1>0, <2>2, <2>3, <2>5 DEF Achieved, Onto, Archiving
    <3> QED  BY <3>1, <3>2
  <2> QED  BY <1>0, <2>1, <2>2, <2>4, <2>5, ReportKeepsPromise
<1>13. CASE ResetHard
  <2>1. At("reset") /\ Report("reset") /\ discarded'
    BY <1>13 DEF ResetHard
  <2>2. UNCHANGED <<active, head, feature, exists, main, origin, request, finished, made, strayed>>
    BY <1>13 DEF ResetHard, outside
  <2>3. flow = "discard" /\ k = 1
    BY <1>0, <2>1, OpPositions, FlowNames
  <2>4. WorkIsHere'
    BY <1>0, <2>1, <2>2 DEF WorkIsHere
  <2>5. ASSUME k' = k + 1, flow' = flow  PROVE HeadIs' /\ BranchIs' /\ Achieved' /\ Cleared'
    BY <1>0, <2>2, <2>3, <2>5 DEF HeadIs, BranchIs, Cleared, Achieved, Archiving
  <2> QED  BY <1>0, <2>1, <2>2, <2>4, <2>5, ReportKeepsPromise
<1>14. CASE Complete
  <2>1. flow \in Flows /\ k > Len(Chain[flow]) /\ finished' = flow /\ Stop
    BY <1>0, <1>14 DEF Complete
  <2>2. UNCHANGED <<active, head, dirty, feature, exists, main, origin, request, made, discarded, strayed>>
    BY <1>14 DEF Complete, tree, outside
  <2>3. Places' /\ WorkIsHere'
    BY <1>0, <2>1, <2>2 DEF Places, WorkIsHere, Stop
  <2>4. HeadIs' /\ BranchIs' /\ Achieved' /\ Cleared'
    BY <2>1 DEF Stop, HeadIs, BranchIs, Achieved, Cleared, Archiving
  <2>5. CompletedAsPromised'
    <3>1. ~active
      BY <1>0, <2>1, ChainLengths, FlowNames DEF Cleared
    <3>2. flow = "provider" => head = "default" /\ Onto(feature) /\ (origin # NoRemote => Onto(origin))
      BY <1>0, <2>1, ChainLengths DEF HeadIs, Achieved
    <3>3. flow = "merge_local" => head = "default" /\ ~exists /\ Onto(main)
      BY <1>0, <2>1, ChainLengths DEF HeadIs, BranchIs, Achieved
    <3>4. flow = "push_pr" => head = "default" /\ request /\ Onto(origin)
      BY <1>0, <2>1, ChainLengths DEF HeadIs, Achieved
    <3>5. flow = "keep" => exists /\ Onto(feature)
      BY <1>0, <2>1, ChainLengths DEF HeadIs, WorkIsHere, Achieved
    <3>6. flow = "discard" => head = "default" /\ ~exists
      BY <1>0, <2>1, ChainLengths DEF HeadIs, BranchIs
    <3> QED  BY <2>1, <2>2, <3>1, <3>2, <3>3, <3>4, <3>5, <3>6 DEF CompletedAsPromised, Onto
  <2> QED  BY <2>3, <2>4, <2>5 DEF PromiseInv
<1> QED
  BY <1>1, <1>2, <1>3, <1>4, <1>5, <1>6, <1>7, <1>8, <1>9, <1>10, <1>11, <1>12, <1>13, <1>14
  DEF Operation

LEMMA PromiseStep ==
  ASSUME PromiseInv, [Next]_vars
  PROVE  PromiseInv'
<1>0. Places /\ WorkIsHere /\ HeadIs /\ BranchIs /\ Achieved /\ Cleared /\ CompletedAsPromised
  BY DEF PromiseInv
<1>1. ASSUME NEW option \in Options, Dispatch(option)  PROVE PromiseInv'
  <2>1. /\ option \in Flows /\ option # "none" /\ flow' = option /\ k' = 1 /\ finished = "none"
        /\ UNCHANGED <<active, head, dirty, feature, exists, main, origin, request, finished, made, discarded>>
        /\ (strayed => strayed')
    BY <1>1, CompletionAssumption, FlowNames DEF Dispatch, tree, outside
  <2>2. head = "feature" \/ (option = "provider" /\ (active => strayed'))
    BY <1>1 DEF Dispatch
  <2>3. Places' /\ WorkIsHere'
    BY <1>0, <2>1 DEF Places, WorkIsHere
  <2>4. HeadIs' /\ BranchIs' /\ Achieved' /\ Cleared'
    BY <2>1, <2>2 DEF HeadIs, BranchIs, Achieved, Cleared
  <2>5. CompletedAsPromised'
    BY <2>1 DEF CompletedAsPromised
  <2> QED  BY <2>3, <2>4, <2>5 DEF PromiseInv
<1>2. ASSUME NEW b \in Branches, UserSwitches(b)  PROVE PromiseInv'
  <2>1. /\ flow = "none" /\ finished = "none" /\ head' = b /\ (b = "feature" => exists)
        /\ UNCHANGED <<dirty, feature, exists, flow, k, finished, made, discarded, strayed>>
    BY <1>2 DEF UserSwitches, history
  <2>2. Places' /\ WorkIsHere'
    BY <1>0, <2>1 DEF Places, WorkIsHere
  <2>3. HeadIs' /\ BranchIs' /\ Achieved' /\ Cleared' /\ CompletedAsPromised'
    BY <2>1 DEF HeadIs, BranchIs, Achieved, Cleared, CompletedAsPromised, Archiving
  <2> QED  BY <2>2, <2>3 DEF PromiseInv
<1>3. CASE UserEdits
  <2>1. Places' /\ WorkIsHere'
    BY <1>0, <1>3 DEF UserEdits, Places, WorkIsHere
  <2>2. HeadIs' /\ BranchIs' /\ Achieved' /\ Cleared' /\ CompletedAsPromised'
    BY <1>3 DEF UserEdits, HeadIs, BranchIs, Achieved, Cleared, CompletedAsPromised, Archiving
  <2> QED  BY <2>1, <2>2 DEF PromiseInv
<1>4. CASE Crash
  <2>1. Stop /\ finished = "none" /\ UNCHANGED <<active, tree, outside, history>>
    BY <1>0, <1>4 DEF Crash, Places
  <2>2. WorkIsHere'
    BY <1>0, <2>1 DEF WorkIsHere, tree, history
  <2> QED  BY <2>1, <2>2, StopKeepsPromise DEF tree, history
<1>5. CASE UNCHANGED vars
  <2>1. UNCHANGED <<active, head, dirty, feature, exists, main, origin, request, flow, k, finished,
                    made, discarded, strayed>>
    BY <1>5 DEF vars, tree, outside, history
  <2> QED
    BY <1>0, <2>1 DEF PromiseInv, Places, WorkIsHere, HeadIs, BranchIs, Achieved, Onto, Cleared, CompletedAsPromised
<1> QED  BY <1>1, <1>2, <1>3, <1>4, <1>5, OperationKeepsPromise DEF Next

(* A completed flow has done what its option says, however many attempts   *)
(* stopped half-way before it, under whichever options.                    *)
THEOREM FlowsKeepTheirPromise == Spec => []CompletedAsPromised
<1>1. Init => PromiseInv
  <2> SUFFICES ASSUME Init  PROVE PromiseInv
    OBVIOUS
  <2>1. Places /\ WorkIsHere
    BY DEF Init, Places, WorkIsHere, Branches
  <2>2. HeadIs /\ BranchIs /\ Achieved /\ Cleared /\ CompletedAsPromised
    BY DEF Init, HeadIs, BranchIs, Achieved, Cleared, CompletedAsPromised, Archiving
  <2> QED  BY <2>1, <2>2 DEF PromiseInv
<1>2. PromiseInv /\ [Next]_vars => PromiseInv'
  BY PromiseStep
<1>3. PromiseInv => CompletedAsPromised
  BY DEF PromiseInv
<1> QED  BY <1>1, <1>2, <1>3, PTL DEF Spec

-------------------------------------------------------------------------------
(* Types.                                                                  *)

LEMMA ShortChains ==
  ASSUME NEW op, At(op), flow \in Flows, k \in 0..10
  PROVE  k + 1 \in 0..10
<1>1. /\ Len(Chain["provider"]) = 9 /\ Len(Chain["merge_local"]) = 7
      /\ Len(Chain["push_pr"]) = 7 /\ Len(Chain["keep"]) = 4 /\ Len(Chain["discard"]) = 5
  BY DEF Chain
<1>2. k <= Len(Chain[flow])
  BY DEF At
<1>3. /\ flow = "provider" => k <= 9
      /\ flow = "merge_local" => k <= 7
      /\ flow = "push_pr" => k <= 7
      /\ flow = "keep" => k <= 4
      /\ flow = "discard" => k <= 5
  BY <1>1, <1>2
<1> QED  BY <1>3, FlowNames

LEMMA TypedCall ==
  ASSUME TypeOK, NEW op, At(op), Report(op) \/ Stop \/ (k' = k + 1 /\ UNCHANGED flow)
  PROVE  flow' \in Options \cup {"none"} /\ k' \in 0..10
<1>1. flow \in Flows
  BY CompletionAssumption DEF TypeOK, At
<1>2. k \in 0..10 /\ k + 1 \in 0..10
  BY <1>1, ShortChains DEF TypeOK
<1> QED  BY <1>2 DEF Report, Stop, TypeOK

LEMMA TypeStep ==
  ASSUME TypeOK, [Next]_vars
  PROVE  TypeOK'
<1> USE DEF TypeOK, Branches
<1>1. CASE OpFails
  BY <1>1, TypedCall DEF OpFails, Changes, tree, outside, history
<1>2. CASE ArchiveTask
  BY <1>2, TypedCall DEF ArchiveTask, Changes, tree, outside, history
<1>3. CASE NoTaskFile
  BY <1>3, TypedCall DEF NoTaskFile, Changes, tree, outside, history
<1>4. CASE GitCommit
  BY <1>4, TypedCall DEF GitCommit, Changes, tree, outside, history
<1>5. CASE GitMergeMain
  BY <1>5, TypedCall DEF GitMergeMain, Changes, tree, outside, history
<1>6. CASE GitPush
  BY <1>6, TypedCall DEF GitPush, Changes, tree, outside, history
<1>7. CASE CreateMergeRequest
  BY <1>7, TypedCall DEF CreateMergeRequest, Changes, tree, outside, history
<1>8. CASE CreatePullRequest
  BY <1>8, TypedCall DEF CreatePullRequest, Changes, tree, outside, history
<1>9. CASE NothingToRequest
  BY <1>9, TypedCall DEF NothingToRequest, Changes, tree, outside, history
<1>10. CASE Housekeeping
  BY <1>10, TypedCall DEF Housekeeping, Changes, tree, outside, history
<1>11. CASE ClearTaskState
  BY <1>11, TypedCall DEF ClearTaskState, Changes, tree, outside, history
<1>12. CASE CheckoutDefault
  BY <1>12, TypedCall DEF CheckoutDefault, Changes, tree, outside, history
<1>13. CASE MergeFeature
  BY <1>13, TypedCall DEF MergeFeature, Changes, tree, outside, history
<1>14. CASE DeleteFeature
  BY <1>14, TypedCall DEF DeleteFeature, Changes, tree, outside, history
<1>15. CASE ResetHard
  BY <1>15, TypedCall DEF ResetHard, Changes, tree, outside, history
<1>16. CASE Complete
  BY <1>16, TypedCall DEF Complete, Changes, tree, outside, history, Stop
<1>17. CASE \E option \in Options : Dispatch(option)
  BY <1>17 DEF Dispatch, tree, outside
<1>18. CASE \E b \in Branches : UserSwitches(b)
  BY <1>18 DEF UserSwitches, outside, history
<1>19. CASE UserEdits
  BY <1>19 DEF UserEdits, Changes, outside
<1>20. CASE Crash
  BY <1>20 DEF Crash, Stop, tree, outside, history
<1>21. CASE UNCHANGED vars
  BY <1>21 DEF vars, tree, outside, history
<1> QED
  BY <1>1, <1>2, <1>3, <1>4, <1>5, <1>6, <1>7, <1>8, <1>9, <1>10, <1>11, <1>12,
     <1>13, <1>14, <1>15, <1>16, <1>17, <1>18, <1>19, <1>20, <1>21 DEF Next,
     Operation

(* Every variable keeps its type, for any flows offered and any failures.  *)
THEOREM TypesHold == Spec => []TypeOK
<1>1. ASSUME Init  PROVE TypeOK
  <2> USE <1>1 DEF Init
  <2>1. /\ {active, exists, request, discarded, strayed} \subseteq BOOLEAN
        /\ head \in Branches
    BY DEF Branches
  <2>2. /\ {dirty, feature, main, made} \subseteq SUBSET Changes
        /\ origin = NoRemote \/ origin \subseteq Changes
    BY DEF Changes
  <2>3. /\ flow \in Options \cup {"none"} /\ k \in 0..10
        /\ finished \in Options \cup {"none"}
    OBVIOUS
  <2> QED  BY <2>1, <2>2, <2>3 DEF TypeOK
<1> QED  BY <1>1, TypeStep, PTL DEF Spec
===============================================================================
