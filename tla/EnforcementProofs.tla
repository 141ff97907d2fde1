---------------------------- MODULE EnforcementProofs ----------------------------
(***************************************************************************)
(* The depth counter is exact for any number of dispatches and sessions,   *)
(* with or without faults of the lock and the file; and what the hook that *)
(* reads it never allows, for every set of dispatches, sessions, branches, *)
(* commands and tasks, and however its state degrades.                     *)
(***************************************************************************)
EXTENDS Enforcement, TLAPS, FiniteSetTheorems

(* A dispatch is counted once: not again while it is.                      *)
CountedOnce == \A d \in counted : pc[d] \notin {"idle", "inc", "inc-blind"}

DepthInv == DepthTypeOK /\ CountedOnce /\ DepthIsExact

LEMMA PhaseNames ==
  /\ Changes = {"inc", "undo", "dec"}
  /\ Blind("inc") = "inc-blind" /\ Blind("undo") = "undo-blind" /\ Blind("dec") = "dec-blind"
  /\ Phases = {"idle", "stage", "run", "inc", "undo", "dec", "inc-blind", "undo-blind", "dec-blind"}
<1>1. Changes = {"inc", "undo", "dec"}
  BY DEF Changes
<1>2. Blind("inc") = "inc-blind" /\ Blind("undo") = "undo-blind" /\ Blind("dec") = "dec-blind"
  BY DEF Blind
<1> QED  BY <1>1, <1>2 DEF Phases

LEMMA CountedIsFinite ==
  ASSUME counted \subseteq Dispatches
  PROVE  IsFiniteSet(counted) /\ Cardinality(counted) \in Nat
BY DepthAssumption, FS_Subset, FS_CardinalityType

LEMMA CountOne ==
  ASSUME counted \subseteq Dispatches, NEW d \in Dispatches
  PROVE  /\ d \notin counted => Cardinality(counted \cup {d}) = Cardinality(counted) + 1
         /\ d \in counted => Cardinality(counted \ {d}) = Cardinality(counted) - 1
BY CountedIsFinite, FS_AddElement, FS_RemoveElement

LEMMA CountLeak ==
  ASSUME NEW d
  PROVE  /\ d \in counted => Cardinality({d} \cap counted) = 1
         /\ d \notin counted => Cardinality({d} \cap counted) = 0
<1>1. CASE d \in counted
  <2>1. {d} \cap counted = {d}
    BY <1>1
  <2>2. Cardinality({d}) = 1
    BY FS_Singleton
  <2> QED  BY <1>1, <2>1, <2>2, Zenon
<1>2. CASE d \notin counted
  <2>1. {d} \cap counted = {}
    BY <1>2
  <2>2. Cardinality({}) = 0
    BY FS_EmptySet
  <2> QED  BY <1>2, <2>1, <2>2, Zenon
<1> QED  BY <1>1, <1>2

LEMMA ChangedIsNat ==
  ASSUME NEW change \in Changes, NEW n \in Nat
  PROVE  Changed(change, n) \in Nat
BY DEF Changed

(* A change made to the counter as it is keeps it exact.                   *)
LEMMA ChangeIsExact ==
  ASSUME DepthInv, NEW d \in Dispatches, NEW change \in Changes, NEW lost \in BOOLEAN,
         pc[d] \in {change, Blind(change)},
         ChangeDone(d, change, lost),
         lost \/ depth' = Changed(change, depth)
  PROVE  DepthIsExact'
<1>1. leaks' = leaks /\ leaks \in Nat /\ depth \in Nat /\ counted \subseteq Dispatches
  BY DEF DepthInv, DepthTypeOK, ChangeDone
<1>2. Cardinality(counted) \in Nat
  BY <1>1, CountedIsFinite
<1>3. CASE drift \/ lost
  BY <1>3 DEF ChangeDone, DepthIsExact
<1>4. CASE ~drift /\ ~lost /\ change = "inc"
  <2>1. d \notin counted
    BY <1>4, PhaseNames DEF DepthInv, CountedOnce
  <2>2. depth = Cardinality(counted) + leaks
    BY <1>4 DEF DepthInv, DepthIsExact
  <2>3. counted' = counted \cup {d} /\ depth' = depth + 1
    BY <1>4 DEF ChangeDone, Changed
  <2>4. Cardinality(counted') = Cardinality(counted) + 1
    BY <1>1, <2>1, <2>3, CountOne
  <2> QED  BY <1>1, <1>2, <2>2, <2>3, <2>4 DEF DepthIsExact
<1>5. CASE ~drift /\ ~lost /\ change # "inc" /\ d \notin counted
  BY <1>5 DEF ChangeDone, DepthIsExact
<1>6. CASE ~drift /\ ~lost /\ change # "inc" /\ d \in counted
  <2>1. depth = Cardinality(counted) + leaks
    BY <1>6 DEF DepthInv, DepthIsExact
  <2>2. Cardinality(counted \ {d}) = Cardinality(counted) - 1
    BY <1>1, <1>6, CountOne
  <2>3. counted \ {d} \subseteq Dispatches
    BY <1>1
  <2>4. Cardinality(counted \ {d}) \in Nat
    BY <1>1, DepthAssumption, FS_Subset, FS_CardinalityType, <2>3
  <2>5. depth # 0
    BY <1>1, <1>2, <2>1, <2>2, <2>4
  <2>6. counted' = counted \ {d} /\ depth' = depth - 1
    BY <1>6, <2>5 DEF ChangeDone, Changed
  <2> QED  BY <1>1, <1>2, <2>1, <2>2, <2>6 DEF DepthIsExact
<1> QED  BY <1>3, <1>4, <1>5, <1>6

(* It takes the dispatch on: staged if counted up, over if down.           *)
LEMMA ChangeKeepsTypes ==
  ASSUME DepthInv, NEW d \in Dispatches, NEW change \in Changes, NEW lost \in BOOLEAN,
         ChangeDone(d, change, lost), depth' \in Nat, old' \in [Dispatches -> Nat]
  PROVE  DepthTypeOK' /\ CountedOnce'
<1>1. pc' \in [Dispatches -> Phases]
  BY PhaseNames DEF ChangeDone, Goes, DepthInv, DepthTypeOK
<1>2. drift' \in BOOLEAN
  BY DEF ChangeDone, DepthInv, DepthTypeOK
<1>3. bypass' \in BOOLEAN /\ leaks' \in Nat /\ counted' \subseteq Dispatches
  <2>1. bypass' \in BOOLEAN
    BY Zenon DEF ChangeDone, DepthInv, DepthTypeOK
  <2> QED  BY <2>1 DEF ChangeDone, DepthInv, DepthTypeOK
<1>4. CountedOnce'
  <2> SUFFICES ASSUME NEW e \in counted'  PROVE pc'[e] \notin {"idle", "inc", "inc-blind"}
    BY DEF CountedOnce
  <2>1. e \in Dispatches /\ pc \in [Dispatches -> Phases]
    BY <1>3 DEF DepthInv, DepthTypeOK
  <2>2. CASE e = d
    <3>1. change = "inc"
      BY <2>2 DEF ChangeDone
    <3> QED  BY <2>1, <2>2, <3>1 DEF ChangeDone, Goes
  <2>3. CASE e # d
    BY <2>1, <2>3 DEF ChangeDone, Goes, DepthInv, CountedOnce
  <2> QED  BY <2>2, <2>3
<1> QED  BY <1>1, <1>2, <1>3, <1>4 DEF DepthTypeOK

(* A dispatch ends, or moves between phases in which it may be counted.    *)
LEMMA MoveKeepsTypes ==
  ASSUME DepthInv, NEW d \in Dispatches, NEW phase \in Phases,
         Goes(d, phase), depth' = depth, bypass' = bypass, drift' = drift,
         old' \in [Dispatches -> Nat], leaks' \in Nat,
         counted' \in {counted, counted \ {d}},
         phase \in {"idle", "inc", "inc-blind"} => d \notin counted'
  PROVE  DepthTypeOK' /\ CountedOnce'
<1>1. pc' \in [Dispatches -> Phases]
  BY DEF Goes, DepthInv, DepthTypeOK
<1>2. depth' \in Nat /\ counted' \subseteq Dispatches
  BY DEF DepthInv, DepthTypeOK
<1>3. bypass' \in BOOLEAN /\ drift' \in BOOLEAN
  BY Zenon DEF DepthInv, DepthTypeOK
<1>4. CountedOnce'
  BY <1>2 DEF CountedOnce, Goes, DepthInv, DepthTypeOK
<1> QED  BY <1>1, <1>2, <1>3, <1>4 DEF DepthTypeOK

LEMMA EndingIsExact ==
  ASSUME DepthInv, NEW d \in Dispatches, Leaks(d), depth' = depth, drift' = drift
  PROVE  DepthIsExact' /\ leaks' \in Nat
<1>1. counted \subseteq Dispatches /\ leaks \in Nat /\ depth \in Nat
  BY DEF DepthInv, DepthTypeOK
<1>2. Cardinality(counted) \in Nat
  BY <1>1, CountedIsFinite
<1>3. drift \/ depth = Cardinality(counted) + leaks
  BY DEF DepthInv, DepthIsExact
<1>4. CASE d \in counted
  <2>1. Cardinality(counted') = Cardinality(counted) - 1
    BY <1>1, <1>4, CountOne DEF Leaks
  <2>2. Cardinality({d} \cap counted) = 1
    BY <1>4, CountLeak
  <2>3. leaks' = leaks + 1
    BY <2>2 DEF Leaks
  <2> QED  BY <1>1, <1>2, <1>3, <2>1, <2>3 DEF DepthIsExact
<1>5. CASE d \notin counted
  <2>1. counted' = counted
    BY <1>5 DEF Leaks
  <2>2. Cardinality({d} \cap counted) = 0
    BY <1>5, CountLeak
  <2>3. leaks' = leaks
    BY <1>1, <2>2 DEF Leaks
  <2> QED  BY <1>1, <1>3, <2>1, <2>3 DEF DepthIsExact
<1> QED  BY <1>4, <1>5

LEMMA DispatchStepKeepsInv ==
  ASSUME DepthInv, NEW d \in Dispatches, DispatchStep(d)
  PROVE  DepthInv'
<1>0. /\ depth \in Nat /\ pc \in [Dispatches -> Phases] /\ old \in [Dispatches -> Nat]
      /\ counted \subseteq Dispatches /\ leaks \in Nat
  BY DEF DepthInv, DepthTypeOK
<1>1. CASE Dispatch(d)
  <2>1. d \notin counted
    BY <1>1 DEF Dispatch, DepthInv, CountedOnce
  <2>2. DepthTypeOK' /\ CountedOnce'
    BY <1>0, <1>1, <2>1, MoveKeepsTypes, PhaseNames DEF Dispatch
  <2> QED  BY <1>1, <2>2 DEF Dispatch, DepthInv, DepthIsExact
<1>2. CASE Change(d)
  <2>1. depth' = Changed(pc[d], depth) /\ depth' \in Nat /\ old' = old /\ ChangeDone(d, pc[d], FALSE)
    BY <1>0, <1>2, ChangedIsNat DEF Change
  <2>2. pc[d] \in Changes
    BY <1>2 DEF Change
  <2>3. DepthTypeOK' /\ CountedOnce'
    BY <1>0, <2>1, <2>2, ChangeKeepsTypes
  <2>4. DepthIsExact'
    BY <2>1, <2>2, ChangeIsExact
  <2> QED  BY <2>3, <2>4 DEF DepthInv
<1>3. CASE ChangeLost(d)
  <2>1. depth' = depth /\ old' = old /\ ChangeDone(d, pc[d], TRUE) /\ pc[d] \in Changes
    BY <1>3 DEF ChangeLost
  <2>2. DepthTypeOK' /\ CountedOnce'
    BY <1>0, <2>1, ChangeKeepsTypes
  <2>3. DepthIsExact'
    BY <2>1, ChangeIsExact
  <2> QED  BY <2>2, <2>3 DEF DepthInv
<1>4. CASE BlindRead(d)
  <2>1. old' \in [Dispatches -> Nat]
    BY <1>0, <1>4 DEF BlindRead
  <2>2. pc[d] \in Changes /\ Blind(pc[d]) \in Phases
    BY <1>4, PhaseNames DEF BlindRead
  <2>3. Blind(pc[d]) \in {"idle", "inc", "inc-blind"} => d \notin counted
    BY <2>2, PhaseNames DEF DepthInv, CountedOnce
  <2>4. DepthTypeOK' /\ CountedOnce'
    BY <1>0, <1>4, <2>1, <2>2, <2>3, MoveKeepsTypes DEF BlindRead
  <2> QED  BY <1>4, <2>4 DEF BlindRead, DepthInv, DepthIsExact
<1>5. CASE BlindWrite(d)
  <2>1. PICK change \in Changes :
          /\ pc[d] = Blind(change) /\ depth' = Changed(change, old[d])
          /\ ChangeDone(d, change, depth # old[d]) /\ old' = [old EXCEPT ![d] = 0]
    BY <1>5 DEF BlindWrite
  <2>2. depth' \in Nat /\ old' \in [Dispatches -> Nat]
    BY <1>0, <2>1, ChangedIsNat
  <2>3. (depth # old[d]) \in BOOLEAN
    OBVIOUS
  <2>4. DepthTypeOK' /\ CountedOnce'
    BY <2>1, <2>2, <2>3, ChangeKeepsTypes
  <2>5. depth # old[d] \/ depth' = Changed(change, depth)
    BY <2>1
  <2>6. DepthIsExact'
    BY <2>1, <2>3, <2>5, ChangeIsExact
  <2> QED  BY <2>4, <2>6 DEF DepthInv
<1>6. CASE Staged(d)
  <2>1. DepthTypeOK' /\ CountedOnce'
    BY <1>0, <1>6, MoveKeepsTypes, PhaseNames DEF Staged
  <2> QED  BY <1>6, <2>1 DEF Staged, DepthInv, DepthIsExact
<1>7. CASE StagingFails(d)
  <2>1. DepthTypeOK' /\ CountedOnce'
    BY <1>0, <1>7, MoveKeepsTypes, PhaseNames DEF StagingFails
  <2> QED  BY <1>7, <2>1 DEF StagingFails, DepthInv, DepthIsExact
<1>8. CASE EndsUnseen(d)
  <2>1. DepthIsExact' /\ leaks' \in Nat
    BY <1>8, EndingIsExact DEF EndsUnseen
  <2>2. counted' = counted \ {d}
    BY <1>8 DEF EndsUnseen, Leaks
  <2>3. DepthTypeOK' /\ CountedOnce'
    BY <1>0, <1>8, <2>1, <2>2, MoveKeepsTypes, PhaseNames DEF EndsUnseen
  <2> QED  BY <2>1, <2>3 DEF DepthInv
<1>9. CASE Ends(d)
  <2>1. DepthTypeOK' /\ CountedOnce'
    BY <1>0, <1>9, MoveKeepsTypes, PhaseNames DEF Ends
  <2> QED  BY <1>9, <2>1 DEF Ends, DepthInv, DepthIsExact
<1>10. CASE EndsAtZero(d)
  <2>1. counted' = counted \ {d} /\ depth = 0 /\ depth' = depth /\ drift' = drift /\ leaks' = leaks
    BY <1>10 DEF EndsAtZero
  <2>2. DepthTypeOK' /\ CountedOnce'
    BY <1>0, <1>10, <2>1, MoveKeepsTypes, PhaseNames DEF EndsAtZero
  <2>3. drift \/ Cardinality(counted) = 0
    BY <1>0, <2>1, CountedIsFinite DEF DepthInv, DepthIsExact
  <2>4. drift \/ counted = {}
    BY <1>0, <2>3, CountedIsFinite, FS_EmptySet
  <2>5. drift \/ counted' = counted
    BY <2>1, <2>4
  <2> QED  BY <2>1, <2>2, <2>5 DEF DepthInv, DepthIsExact
<1>11. CASE EndsBypassed(d)
  <2>1. DepthIsExact' /\ leaks' \in Nat
    BY <1>11, EndingIsExact DEF EndsBypassed
  <2>2. counted' = counted \ {d}
    BY <1>11 DEF EndsBypassed, Leaks
  <2>3. DepthTypeOK' /\ CountedOnce'
    BY <1>0, <1>11, <2>1, <2>2, MoveKeepsTypes, PhaseNames DEF EndsBypassed
  <2> QED  BY <2>1, <2>3 DEF DepthInv
<1> QED
  BY <1>1, <1>2, <1>3, <1>4, <1>5, <1>6, <1>7, <1>8, <1>9, <1>10, <1>11 DEF DispatchStep

LEMMA ResetKeepsInv ==
  ASSUME DepthInv, NEW s \in Sessions, Reset(s)
  PROVE  DepthInv'
<1>1. drift' \in BOOLEAN
  BY DEF Reset
<1>2. bypass' \in BOOLEAN
  BY Zenon DEF Reset, DepthInv, DepthTypeOK
<1>3. DepthTypeOK' /\ CountedOnce'
  BY <1>1, <1>2 DEF Reset, DepthInv, DepthTypeOK, CountedOnce
<1>4. DepthIsExact'
  <2>1. drift' \/ counted = {}
    BY DEF Reset
  <2> QED  BY <2>1, FS_EmptySet DEF Reset, DepthIsExact
<1> QED  BY <1>3, <1>4 DEF DepthInv

LEMMA DepthInvHolds ==
  ASSUME DepthInit
  PROVE  DepthInv
<1>1. DepthTypeOK
  BY PhaseNames DEF DepthInit, DepthTypeOK
<1>2. CountedOnce
  BY DEF DepthInit, CountedOnce
<1>3. DepthIsExact
  BY FS_EmptySet DEF DepthInit, DepthIsExact
<1> QED  BY <1>1, <1>2, <1>3 DEF DepthInv

LEMMA DepthInvKept ==
  ASSUME DepthInv, [DepthNext]_depthVars
  PROVE  DepthInv'
<1>1. CASE \E d \in Dispatches : DispatchStep(d)
  BY <1>1, DispatchStepKeepsInv
<1>2. CASE \E s \in Sessions : Reset(s)
  BY <1>2, ResetKeepsInv
<1>3. CASE ToggleBypass
  <2>1. bypass' \in BOOLEAN /\ drift' \in BOOLEAN
    BY <1>3, Zenon DEF ToggleBypass, DepthInv, DepthTypeOK
  <2> QED
    BY <1>3, <2>1 DEF ToggleBypass, DepthInv, DepthTypeOK, CountedOnce, DepthIsExact
<1>4. CASE UNCHANGED depthVars
  <2>1. bypass' \in BOOLEAN /\ drift' \in BOOLEAN
    BY <1>4, Zenon DEF depthVars, DepthInv, DepthTypeOK
  <2> QED
    BY <1>4, <2>1 DEF depthVars, DepthInv, DepthTypeOK, CountedOnce, DepthIsExact
<1> QED  BY <1>1, <1>2, <1>3, <1>4 DEF DepthNext

LEMMA DepthInvariant == DepthSpec => []DepthInv
<1>1. DepthInit => DepthInv
  BY DepthInvHolds
<1>2. DepthInv /\ [DepthNext]_depthVars => DepthInv'
  BY DepthInvKept
<1> QED  BY <1>1, <1>2, PTL DEF DepthSpec

(* The counter says how many dispatches are at work, plus those that ended *)
(* unseen, whatever their number and however their changes interleave,     *)
(* with the exceptions DepthIsExact names (increment_subagent_depth,       *)
(* decrement_subagent_depth and their callers).                            *)
THEOREM DepthIsAlwaysExact == DepthSpec => []DepthIsExact
<1>1. DepthInv => DepthIsExact
  BY DEF DepthInv
<1> QED  BY <1>1, DepthInvariant, PTL

(* The types of the counter and of the dispatches that change it.          *)
THEOREM DepthTypesHold == DepthSpec => []DepthTypeOK
<1>1. DepthInv => DepthTypeOK
  BY DEF DepthInv
<1> QED  BY <1>1, DepthInvariant, PTL

-------------------------------------------------------------------------------
LEMMA ModeNames == Modes = {"discussion", "implementation", "documentation"}
  BY DEF Modes

LEMMA CallFields ==
  ASSUME NEW c \in Calls
  PROVE  /\ c.on \in Files
         /\ ~(IsEdit(c) /\ IsBash(c))
BY DEF Calls, DestructiveCalls, IsBash, IsEdit, Files, Code

LEMMA DestructiveFields ==
  ASSUME NEW c \in DestructiveCalls
  PROVE  c.does \in Destructive /\ IsDestructive(c)
BY DEF DestructiveCalls, IsDestructive, IsBash

(* The state of each part, and what keeps it.                              *)
EnvTypeOK ==
  /\ mode \in Modes /\ task \in TaskStates \cup {NoTask} /\ {freezes, shared, legacy} \subseteq BOOLEAN
  /\ head \in [Repositories -> Branches]
  /\ unreadable \subseteq {"mode", "task", "git"}

SafetyTypeOK ==
  /\ confirm \in [command : Destructive \cup {NoCommand}, fresh : BOOLEAN]
  /\ accepting \in Nat /\ kept \in BOOLEAN /\ warned \subseteq Destructive

(* A nonce that is still good is for a command blocked since it last ran,  *)
(* or it is being accepted, or could not be deleted.                       *)
NonceIsOwed == confirm.fresh => confirm.command \in warned \/ accepting > 0 \/ kept

Inv == DepthInv /\ EnvTypeOK /\ SafetyTypeOK /\ NonceIsOwed

(* A main agent that is alone is not taken for a subagent.                 *)
LEMMA AloneIsMain ==
  ASSUME DepthInv, MainIsAlone
  PROVE  ~InSubagentContext
<1>1. depth = Cardinality(counted) + leaks
  BY DEF DepthInv, DepthIsExact, MainIsAlone
<1>2. depth = 0
  BY <1>1, FS_EmptySet DEF MainIsAlone
<1> QED  BY <1>2 DEF InSubagentContext

LEMMA MainInMode ==
  ASSUME Inv
  PROVE  MainActsInMode
<1> SUFFICES ASSUME MainIsAlone, NEW c \in Calls, ~Admin(c), Allowed(c)
             PROVE  /\ IsEdit(c) => mode = "implementation" \/ (mode = "documentation" /\ c.on = "docs")
                    /\ ~(Writes(c) /\ c.on # "docs" /\ mode = "documentation" /\ "mode" \notin unreadable)
  BY Zenon DEF MainActsInMode
<1>1. ReadOnly(c) \/ ModeAllows(c)
  BY AloneIsMain, Zenon DEF Allowed, MainIsAlone, Inv
<1>2. mode \in Modes
  BY DEF Inv, EnvTypeOK
<1>3. CASE ReadOnly(c)
  BY <1>3, EnforcementAssumption, InputAssumption
     DEF ReadOnly, IsEdit, IsBash, Writes, MatchesWritePattern, Actions, Destructive
<1>4. CASE ModeAllows(c)
  <2>1. CASE CheckDaicMode = "documentation"
    <3>1. mode = "documentation"
      BY <2>1 DEF CheckDaicMode
    <3>2. IF IsEdit(c) THEN c.on = "docs" ELSE ~Writes(c)
      BY <1>4, <2>1 DEF ModeAllows
    <3> QED  BY <3>1, <3>2
  <2>2. CASE CheckDaicMode = "discussion"
    <3>1. ~IsEdit(c)
      BY <1>4, <2>2 DEF ModeAllows
    <3>2. "mode" \notin unreadable => mode = "discussion"
      BY <2>2 DEF CheckDaicMode
    <3> QED  BY <3>1, <3>2
  <2>3. CASE CheckDaicMode \notin {"documentation", "discussion"}
    <3>1. mode = "implementation"
      BY <1>2, <2>3, ModeNames DEF CheckDaicMode
    <3> QED  BY <3>1
  <2> QED  BY <2>1, <2>2, <2>3
<1> QED  BY <1>1, <1>3, <1>4

LEMMA MainOnBranch ==
  ASSUME Inv
  PROVE  MainStaysOnBranch
<1> SUFFICES ASSUME MainIsAlone, NEW c \in Calls, IsEdit(c), c.on \in Code, Allowed(c)
             PROVE  \/ task.branch = Branchless \/ (task.branch = Unset /\ task.front = Branchless)
                    \/ c.on = "outside" /\ task.branch \in Branches
                    \/ task.branch \in Branches /\ (head[c.on] = task.branch \/ "git" \in unreadable)
  BY Zenon DEF MainStaysOnBranch
<1>1. ~ReadOnly(c) /\ ~Admin(c) /\ c.on # "docs"
  BY DEF ReadOnly, IsEdit, IsBash, Admin, Code
<1>2. ModeAllows(c)
  BY <1>1, AloneIsMain, Zenon DEF Allowed, MainIsAlone, Inv
<1>3. BranchAllows(c)
  BY <1>1, <1>2 DEF ModeAllows
<1>4. TaskState.branch = Unset => TaskState.front \notin Branches
  <2>1. TaskState \in Tasks \cup {NoTask}
    BY InputAssumption DEF TaskState, Inv, EnvTypeOK
  <2> QED  BY <2>1, EnforcementAssumption DEF Tasks, NoTask
<1>5. "task" \in unreadable => TaskState.branch = Unset /\ TaskState.front = Unset
  BY DEF TaskState, NoTask
<1>6. "task" \notin unreadable => TaskState = task
  BY DEF TaskState
<1>7. "task" \notin unreadable
  BY <1>3, <1>5, EnforcementAssumption DEF BranchAllows, ExpectedBranch
<1>8. CASE ExpectedBranch = Branchless
  BY <1>6, <1>7, <1>8 DEF ExpectedBranch
<1>9. CASE ExpectedBranch \in Branches
  <2>1. task.branch = ExpectedBranch
    BY <1>4, <1>6, <1>7, <1>9 DEF ExpectedBranch
  <2>2. CASE c.on = "submodule"
    BY <1>3, <1>9, <2>1, <2>2, EnforcementAssumption DEF BranchAllows
  <2>3. CASE c.on = "main"
    BY <1>3, <1>9, <2>1, <2>3, EnforcementAssumption DEF BranchAllows
  <2>4. CASE c.on = "outside"
    BY <1>9, <2>1, <2>4
  <2> QED  BY <2>2, <2>3, <2>4 DEF Code
<1> QED  BY <1>3, <1>8, <1>9 DEF BranchAllows

LEMMA RunsAreConfirmed ==
  ASSUME Inv
  PROVE  EachRunIsConfirmed
<1> SUFFICES ASSUME NEW c \in DestructiveCalls, CheckSafetyGuard(c)
             PROVE  \/ c.does \in warned
                    \/ c.confirmed /\ (kept \/ accepting > 0)
                    \/ c.does \in Rewriting /\ head["main"] = task.branch /\ ~shared
  BY Zenon DEF EachRunIsConfirmed
<1>1. CASE Confirmed(c)
  <2>1. c.confirmed /\ (c.does \in warned \/ accepting > 0 \/ kept)
    BY <1>1, Zenon DEF Confirmed, Inv, NonceIsOwed
  <2> QED  BY <2>1, Zenon
<1>2. CASE OwnBranch(c)
  <2>1. "task" \in unreadable => TaskState.branch = Unset
    BY DEF TaskState, NoTask
  <2>2. "task" \notin unreadable
    BY <1>2, <2>1, EnforcementAssumption DEF OwnBranch
  <2>3. TaskState = task
    BY <2>2 DEF TaskState
  <2> QED  BY <1>2, <2>3 DEF OwnBranch
<1> QED  BY <1>1, <1>2, DestructiveFields DEF CheckSafetyGuard

LEMMA InvHolds ==
  ASSUME Init
  PROVE  Inv
<1>1. DepthInv
  BY DepthInvHolds DEF Init
<1>2. EnvTypeOK
  BY DEF Init, EnvTypeOK, Modes
<1>3. SafetyTypeOK /\ NonceIsOwed
  BY DEF Init, NoNonce, SafetyTypeOK, NonceIsOwed
<1> QED  BY <1>1, <1>2, <1>3 DEF Inv

LEMMA EnvironmentKeepsTypes ==
  ASSUME EnvTypeOK, Environment
  PROVE  EnvTypeOK'
<1>1. CASE SetDaicMode
  BY <1>1 DEF SetDaicMode, EnvTypeOK
<1>2. CASE SetTaskState
  BY <1>2 DEF SetTaskState, EnvTypeOK
<1>3. CASE ChangeStep
  <2>1. freezes' \in BOOLEAN
    BY <1>3 DEF ChangeStep
  <2> QED  BY <1>3, <2>1 DEF ChangeStep, EnvTypeOK
<1>4. CASE Checkout
  BY <1>4 DEF Checkout, EnvTypeOK
<1>5. CASE Degrade
  BY <1>5 DEF Degrade, EnvTypeOK
<1> QED  BY <1>1, <1>2, <1>3, <1>4, <1>5 DEF Environment

LEMMA InvKept ==
  ASSUME Inv, [Next]_vars
  PROVE  Inv'
<1>1. CASE DepthNext /\ UNCHANGED <<envVars, safetyVars>>
  <2>1. DepthInv'
    BY <1>1, DepthInvKept DEF Inv
  <2>2. EnvTypeOK' /\ SafetyTypeOK' /\ NonceIsOwed'
    BY <1>1 DEF Inv, EnvTypeOK, SafetyTypeOK, NonceIsOwed, envVars, safetyVars
  <2> QED  BY <2>1, <2>2 DEF Inv
<1>2. ASSUME NEW c \in DestructiveCalls, Accepts(c)  PROVE Inv'
  <2>1. DepthInv'
    BY <1>2, DepthInvKept DEF Accepts, Inv
  <2>2. EnvTypeOK'
    BY <1>2 DEF Accepts, Inv, EnvTypeOK, envVars
  <2>3. SafetyTypeOK' /\ accepting' > 0
    BY <1>2 DEF Accepts, Inv, SafetyTypeOK
  <2>4. NonceIsOwed'
    BY <2>3 DEF NonceIsOwed
  <2> QED  BY <2>1, <2>2, <2>3, <2>4 DEF Inv
<1>3. ASSUME NEW c \in DestructiveCalls, IsBlocked(c)  PROVE Inv'
  <2>1. DepthInv'
    BY <1>3, DepthInvKept DEF IsBlocked, Inv
  <2>2. EnvTypeOK'
    BY <1>3 DEF IsBlocked, Inv, EnvTypeOK, envVars
  <2>3. SafetyTypeOK' /\ confirm'.command \in warned'
    BY <1>3, DestructiveFields DEF IsBlocked, Inv, SafetyTypeOK
  <2>4. NonceIsOwed'
    BY <2>3, Zenon DEF NonceIsOwed
  <2> QED  BY <2>1, <2>2, <2>3, <2>4 DEF Inv
<1>4. CASE Expires
  <2>1. DepthInv'
    BY <1>4, DepthInvKept DEF Expires, Inv
  <2>2. EnvTypeOK'
    BY <1>4 DEF Expires, Inv, EnvTypeOK, envVars
  <2>3. SafetyTypeOK' /\ ~confirm'.fresh
    BY <1>4 DEF Expires, Inv, SafetyTypeOK
  <2>4. NonceIsOwed'
    BY <2>3, Zenon DEF NonceIsOwed
  <2> QED  BY <2>1, <2>2, <2>3, <2>4 DEF Inv
<1>7. CASE ClearConfirmState
  <2>1. DepthInv'
    BY <1>7, DepthInvKept DEF ClearConfirmState, Inv
  <2>2. EnvTypeOK'
    BY <1>7 DEF ClearConfirmState, Inv, EnvTypeOK, envVars
  <2>3. CASE confirm' = NoNonce /\ kept' = FALSE
    <3>1. ~confirm'.fresh /\ confirm' \in [command : Destructive \cup {NoCommand}, fresh : BOOLEAN]
      BY <2>3 DEF NoNonce
    <3>2. accepting' \in Nat /\ warned' \subseteq Destructive
      BY <1>7 DEF ClearConfirmState, Inv, SafetyTypeOK
    <3>3. kept' \in BOOLEAN
      BY <2>3, Zenon
    <3> QED  BY <2>1, <2>2, <3>1, <3>2, <3>3, Zenon DEF NonceIsOwed, SafetyTypeOK, Inv
  <2>4. CASE kept' = TRUE /\ UNCHANGED confirm
    <3>1. accepting' \in Nat /\ warned' \subseteq Destructive
      BY <1>7 DEF ClearConfirmState, Inv, SafetyTypeOK
    <3>2. kept' /\ kept' \in BOOLEAN
      BY <2>4, Zenon
    <3>3. confirm' \in [command : Destructive \cup {NoCommand}, fresh : BOOLEAN]
      BY <2>4 DEF Inv, SafetyTypeOK
    <3> QED  BY <2>1, <2>2, <3>1, <3>2, <3>3, Zenon DEF NonceIsOwed, SafetyTypeOK, Inv
  <2> QED  BY <1>7, <2>3, <2>4, Zenon DEF ClearConfirmState
<1>5. CASE Environment
  <2>1. DepthInv'
    BY <1>5, DepthInvKept DEF Environment, Inv
  <2>2. EnvTypeOK'
    BY <1>5, EnvironmentKeepsTypes DEF Inv
  <2>3. SafetyTypeOK' /\ NonceIsOwed'
    BY <1>5 DEF Environment, Inv, SafetyTypeOK, NonceIsOwed, safetyVars
  <2> QED  BY <2>1, <2>2, <2>3 DEF Inv
<1>6. CASE UNCHANGED vars
  <2>1. DepthInv'
    BY <1>6, DepthInvKept DEF vars, Inv
  <2>2. EnvTypeOK' /\ SafetyTypeOK' /\ NonceIsOwed'
    BY <1>6 DEF Inv, EnvTypeOK, SafetyTypeOK, NonceIsOwed, vars, envVars, safetyVars
  <2> QED  BY <2>1, <2>2 DEF Inv
<1> QED  BY <1>1, <1>2, <1>3, <1>4, <1>5, <1>6, <1>7 DEF Next

LEMMA InvariantOfSpec == Spec => []Inv
<1>1. Init => Inv
  BY InvHolds
<1>2. Inv /\ [Next]_vars => Inv'
  BY InvKept
<1> QED  BY <1>1, <1>2, PTL DEF Spec

(* The main agent, once it is sure to be recognised, writes code in        *)
(* implementation mode only (sessions-enforce.py, the mode checks of       *)
(* main).                                                                  *)
THEOREM MainAlwaysActsInMode == Spec => []MainActsInMode
<1>1. Inv => MainActsInMode
  BY MainInMode
<1> QED  BY <1>1, InvariantOfSpec, PTL

(* Nor does it edit code off the task's branch (check_branch_consistency   *)
(* and its callers).                                                       *)
THEOREM MainAlwaysStaysOnBranch == Spec => []MainStaysOnBranch
<1>1. Inv => MainStaysOnBranch
  BY MainOnBranch
<1> QED  BY <1>1, InvariantOfSpec, PTL

(* A destructive command runs once after it was blocked, whatever other    *)
(* calls are blocked or confirmed in between and however their reads and   *)
(* deletions of the nonce interleave: only a nonce that could not be       *)
(* deleted, or is being accepted, is good again (check_safety_guard,       *)
(* _clear_safety_confirm_state).                                           *)
THEOREM RunsAlwaysConfirmed == Spec => []EachRunIsConfirmed
<1>1. Inv => EachRunIsConfirmed
  BY RunsAreConfirmed
<1> QED  BY <1>1, InvariantOfSpec, PTL

(* The types of the hook's state, the counter's among them.                *)
THEOREM TypesHold == Spec => []TypeOK
<1>1. Inv => TypeOK
  BY DEF Inv, DepthInv, EnvTypeOK, SafetyTypeOK, TypeOK
<1> QED  BY <1>1, InvariantOfSpec, PTL
===============================================================================
