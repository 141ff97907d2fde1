--------------------------- MODULE OptimizeLoopProofs ---------------------------
(***************************************************************************)
(* The loop turns no further than its cap and its batches allow and ends   *)
(* for a reason, the front matter names a best row and a best row is       *)
(* shipped: for every setting of the run, any arguments of an advance and  *)
(* any number of commits, rows, approvals and faults.                      *)
(***************************************************************************)
EXTENDS OptimizeLoop, TLAPS, FiniteSetTheorems

(* That rows is a sequence, whatever its rows are.                         *)
IsSequence(s) == s \in Seq(Range(s))

(* The call's row is one the reader shows, and no summary.                 *)
Logged == args.status # "summary" /\ ~RowIsMissed

(* What each position of the chain has established, for a plain call: the  *)
(* row it appended is still the last one; then, that the loop need not     *)
(* end; then, that the batch is not over.                                  *)
RowIsLast == pc \in {"best", "metric", "check"} /\ call = "plain" /\ Logged => ~SummaryIsLast
MayTurn ==
  pc \in {"batch", "move"} /\ call = "plain" /\ ~ends => ~CapReached /\ (Logged => ~SummaryIsLast)
BatchIsOpen == pc = "move" /\ call = "plain" /\ ~ends /\ Interactive /\ Logged => MidBatch

LoopInv ==
  /\ iteration \in Nat /\ call \in Calls
  /\ IsSequence(rows)
  /\ RowIsLast /\ MayTurn /\ BatchIsOpen

LEMMA AppendIsLast ==
  ASSUME NEW s, IsSequence(s), NEW row
  PROVE  /\ IsSequence(Append(s, row))
         /\ Len(Append(s, row)) \in Nat /\ DOMAIN Append(s, row) = 1..Len(Append(s, row))
         /\ Len(Append(s, row)) # 0 /\ Append(s, row)[Len(Append(s, row))] = row
<1>1. s \in Seq(Range(s) \cup {row})
  BY DEF IsSequence
<1>2. Append(s, row) \in Seq(Range(s) \cup {row}) /\ Len(Append(s, row)) = Len(s) + 1
  BY <1>1
<1>3. DOMAIN Append(s, row) = 1..Len(Append(s, row)) /\ Append(s, row)[Len(s) + 1] = row
  BY <1>1, <1>2
<1>4. IsSequence(Append(s, row))
  BY <1>2, <1>3 DEF IsSequence, Range
<1>5. Len(s) \in Nat
  BY <1>1
<1> QED  BY <1>2, <1>3, <1>4, <1>5

LEMMA LoopInvHolds ==
  ASSUME Init
  PROVE  LoopInv
BY DEF Init, LoopInv, IsSequence, Range, Calls, RowIsLast, MayTurn, BatchIsOpen

(* A call that is over, or that has not begun its chain, promises nothing. *)
LEMMA OutsideTheChain ==
  ASSUME LoopInv, iteration' \in Nat, call' \in Calls, IsSequence(rows'),
         pc' \notin {"best", "metric", "check", "batch", "move"}
  PROVE  LoopInv'
BY DEF LoopInv, RowIsLast, MayTurn, BatchIsOpen

(* Whatever leaves the call, its rows and its turn alone keeps what it has *)
(* established.                                                            *)
LEMMA CallIsKept ==
  ASSUME LoopInv, UNCHANGED <<iteration, rows, pc, call, args, ends>>
  PROVE  LoopInv'
<1>1. SummaryIsLast' = SummaryIsLast /\ CapReached' = CapReached /\ MidBatch' = MidBatch /\ Logged' = Logged
  BY DEF SummaryIsLast, Shown, CapReached, MidBatch, PerBatch, Logged, RowIsMissed
<1> QED  BY <1>1 DEF LoopInv, RowIsLast, MayTurn, BatchIsOpen

LEMMA EnvironmentKeepsInv ==
  ASSUME LoopInv, Environment
  PROVE  LoopInv'
<1>1. CASE Edit
  BY <1>1, CallIsKept DEF Edit, loopVars, record, callVars
<1>2. CASE Commit
  BY <1>2, CallIsKept DEF Commit, loopVars, record, callVars
<1>3. CASE Rewind
  BY <1>3, OutsideTheChain DEF Rewind, loopVars, LoopInv
<1>4. CASE TimePasses
  BY <1>4, CallIsKept DEF TimePasses, record, callVars
<1> QED  BY <1>1, <1>2, <1>3, <1>4 DEF Environment

LEMMA ReturnKeepsInv ==
  ASSUME LoopInv, Returns, iteration' \in Nat, IsSequence(rows')
  PROVE  LoopInv'
BY OutsideTheChain DEF Returns, Calls

LEMMA LogKeepsInv ==
  ASSUME LoopInv, Log
  PROVE  LoopInv'
<1>1. CASE ChainSkips
  BY <1>1 DEF ChainSkips, Goes, loopVars, record, LoopInv, RowIsLast, MayTurn, BatchIsOpen
<1>2. CASE LogRefuses
  BY <1>2, ReturnKeepsInv DEF LogRefuses, loopVars, record, LoopInv
<1>3. CASE LogCaptures \/ LogSummary
  BY <1>3, OutsideTheChain DEF LogCaptures, LogSummary, loopVars, record, LoopInv
<1>4. CASE MetricFails
  BY <1>4, ReturnKeepsInv DEF MetricFails, loopVars, record, LoopInv
<1>5. CASE RunMetric
  BY <1>5, OutsideTheChain DEF RunMetric, loopVars, record, LoopInv
<1>6. CASE AppendRow
  <2>1. /\ IsSequence(rows') /\ Len(rows') \in Nat /\ DOMAIN rows' = 1..Len(rows') /\ Len(rows') # 0
        /\ rows'[Len(rows')] = NewRow /\ args' = args
    BY <1>6, AppendIsLast DEF AppendRow, LoopInv
  <2>2. ASSUME Logged  PROVE ~SummaryIsLast'
    <3>1. NewRow.hypothesis /\ NewRow.iteration # "text" /\ NewRow.status # "summary"
      BY <2>2 DEF NewRow, Logged, RowIsMissed
    <3>2. Len(rows') \in Shown' /\ \A i \in Shown' : i <= Len(rows')
      BY <2>1, <3>1 DEF Shown
    <3>3. ASSUME NEW i \in Shown', \A j \in Shown' : j <= i  PROVE i = Len(rows')
      BY <2>1, <3>2, <3>3 DEF Shown
    <3> QED  BY <2>1, <3>1, <3>3 DEF SummaryIsLast
  <2>3. Logged' = Logged
    BY <2>1 DEF Logged, RowIsMissed
  <2> QED
    BY <1>6, <2>1, <2>2, <2>3 DEF AppendRow, loopVars, LoopInv, RowIsLast, MayTurn, BatchIsOpen
<1>7. CASE AppendFails
  BY <1>7, ReturnKeepsInv DEF AppendFails, loopVars, record, LoopInv
<1> QED  BY <1>1, <1>2, <1>3, <1>4, <1>5, <1>6, <1>7 DEF Log

LEMMA UpdateKeepsInv ==
  ASSUME LoopInv, Update
  PROVE  LoopInv'
<1>1. CASE UpdateFails
  BY <1>1, ReturnKeepsInv DEF UpdateFails, loopVars, record, LoopInv
<1>2. CASE UpdateKeeps \/ UpdateBestCommit \/ UpdateBestMetric
  <2>1. /\ pc \in {"best", "metric"} /\ pc' \in {"metric", "check"}
        /\ UNCHANGED <<iteration, rows, call, args, ends>>
    BY <1>2 DEF UpdateKeeps, UpdateBestCommit, UpdateBestMetric, Goes, loopVars, record
  <2>2. SummaryIsLast' = SummaryIsLast /\ Logged' = Logged
    BY <2>1 DEF SummaryIsLast, Shown, Logged, RowIsMissed
  <2> QED  BY <2>1, <2>2 DEF LoopInv, RowIsLast, MayTurn, BatchIsOpen
<1> QED  BY <1>1, <1>2 DEF Update

LEMMA CheckKeepsInv ==
  ASSUME LoopInv, Check
  PROVE  LoopInv'
<1>0. AfterCheck \in {"batch", "move"} /\ (Interactive => AfterCheck = "batch")
  BY DEF AfterCheck
<1>1. CASE CheckPasses
  <2>1. UNCHANGED <<iteration, rows, call, args, ends>> /\ pc = "check" /\ pc' = AfterCheck
    BY <1>1 DEF CheckPasses, Goes, loopVars, record
  <2>2. ~CapReached /\ (call = "plain" /\ Logged => ~SummaryIsLast)
    BY <1>1, <2>1, Zenon DEF CheckPasses, Terminates, LoopInv, RowIsLast
  <2>3. CapReached' = CapReached /\ SummaryIsLast' = SummaryIsLast /\ Logged' = Logged
    BY <2>1 DEF CapReached, SummaryIsLast, Shown, Logged, RowIsMissed
  <2> QED  BY <1>0, <2>1, <2>2, <2>3 DEF LoopInv, RowIsLast, MayTurn, BatchIsOpen
<1>2. CASE CheckTerminates
  <2>1. iteration' = iteration /\ call' = call /\ ends' = TRUE /\ pc' = AfterCheck
    BY <1>2 DEF CheckTerminates, loopVars
  <2>2. IsSequence(rows')
    BY <1>2, AppendIsLast DEF CheckTerminates, LoopInv
  <2> QED  BY <1>0, <2>1, <2>2 DEF LoopInv, RowIsLast, MayTurn, BatchIsOpen
<1>3. CASE BatchPasses
  <2>1. UNCHANGED <<iteration, rows, call, args, ends>> /\ pc = "batch" /\ pc' = "move"
    BY <1>3 DEF BatchPasses, Goes, loopVars, record
  <2>2. call = "plain" /\ ~ends => ~CapReached /\ (Logged => MidBatch /\ ~SummaryIsLast)
    BY <1>3, <2>1, Zenon DEF BatchPasses, LoopInv, MayTurn
  <2>3. /\ CapReached' = CapReached /\ SummaryIsLast' = SummaryIsLast
        /\ MidBatch' = MidBatch /\ Logged' = Logged
    BY <2>1 DEF CapReached, SummaryIsLast, Shown, MidBatch, PerBatch, Logged, RowIsMissed
  <2> QED  BY <2>1, <2>2, <2>3 DEF LoopInv, RowIsLast, MayTurn, BatchIsOpen
<1>4. CASE BatchAsks
  BY <1>4, ReturnKeepsInv DEF BatchAsks, loopVars, record, LoopInv
<1> QED  BY <1>1, <1>2, <1>3, <1>4 DEF Check

LEMMA MoveKeepsInv ==
  ASSUME LoopInv, Move
  PROVE  LoopInv'
<1>1. CASE LoopIteration
  BY <1>1, ReturnKeepsInv DEF LoopIteration, record, LoopInv
<1>2. CASE LeaveLoop
  BY <1>2, ReturnKeepsInv DEF LeaveLoop, Enters, record, LoopInv
<1> QED  BY <1>1, <1>2 DEF Move

LEMMA RestartKeepsInv ==
  ASSUME LoopInv, Restart
  PROVE  LoopInv'
<1>1. CASE RestartArchives
  <2>1. IsSequence(<<>>)
    BY DEF IsSequence, Range
  <2> QED  BY <1>1, <2>1, OutsideTheChain DEF RestartArchives, Goes, loopVars, LoopInv
<1>2. CASE RestartClearsCommit \/ RestartClearsMetric
  BY <1>2, OutsideTheChain DEF RestartClearsCommit, RestartClearsMetric, Goes, loopVars, LoopInv
<1>3. CASE RestartBegins
  BY <1>3, ReturnKeepsInv DEF RestartBegins, record, LoopInv
<1> QED  BY <1>1, <1>2, <1>3 DEF Restart

LEMMA ShipKeepsInv ==
  ASSUME LoopInv, Ship
  PROVE  LoopInv'
<1>1. CASE Complete
  BY <1>1, OutsideTheChain DEF Complete, loopVars, record, LoopInv
<1>2. CASE ResetHard \/ ResetSoft \/ SquashCommit
  BY <1>2, OutsideTheChain DEF ResetHard, ResetSoft, SquashCommit, Goes, loopVars, record, LoopInv
<1>3. CASE Rollback
  BY <1>3, ReturnKeepsInv DEF Rollback, loopVars, LoopInv
<1>4. CASE HandOff \/ HandOffFails
  BY <1>4, ReturnKeepsInv DEF HandOff, HandOffFails, loopVars, record, LoopInv
<1> QED  BY <1>1, <1>2, <1>3, <1>4 DEF Ship

LEMMA LoopInvKept ==
  ASSUME LoopInv, [Next]_vars
  PROVE  LoopInv'
<1>1. CASE CaptureBaseline
  BY <1>1, OutsideTheChain DEF CaptureBaseline, callVars, LoopInv
<1>2. CASE Advance
  BY <1>2, OutsideTheChain DEF Advance, loopVars, record, LoopInv
<1>3. CASE Goto
  BY <1>3, OutsideTheChain DEF Goto, Enters, record, LoopInv
<1>4. CASE Crash
  BY <1>4, OutsideTheChain DEF Crash, loopVars, record, LoopInv, Calls
<1>5. CASE UNCHANGED vars
  BY <1>5, CallIsKept DEF vars, loopVars, record, callVars
<1> QED
  BY <1>1, <1>2, <1>3, <1>4, <1>5, EnvironmentKeepsInv, LogKeepsInv, UpdateKeepsInv,
     CheckKeepsInv, MoveKeepsInv, RestartKeepsInv, ShipKeepsInv DEF Next

LEMMA LoopInvariant == Spec => []LoopInv
<1>1. Init => LoopInv
  BY LoopInvHolds
<1>2. LoopInv /\ [Next]_vars => LoopInv'
  BY LoopInvKept
<1> QED  BY <1>1, <1>2, PTL DEF Spec

(* Only a turn of the loop moves the count up.                             *)
LEMMA OnlyLoopIterationCounts ==
  ASSUME LoopInv, [Next]_vars, iteration' = iteration + 1
  PROVE  LoopIteration
<1>0. iteration \in Nat /\ iteration' # iteration /\ iteration' # 0
  BY DEF LoopInv
<1>1. ~Environment /\ ~CaptureBaseline /\ ~Advance /\ ~Goto /\ ~Crash /\ ~UNCHANGED vars
  <2>1. ~Environment
    BY <1>0 DEF Environment, Edit, Commit, Rewind, TimePasses, loopVars
  <2>2. ~CaptureBaseline /\ ~Advance /\ ~Goto /\ ~Crash /\ ~UNCHANGED vars
    BY <1>0 DEF CaptureBaseline, Advance, Goto, Enters, Crash, vars, loopVars
  <2> QED  BY <2>1, <2>2
<1>2. ~Log /\ ~Update
  <2>1. ~Log
    BY <1>0 DEF Log, ChainSkips, LogRefuses, LogCaptures, LogSummary, MetricFails, RunMetric, AppendRow, AppendFails, loopVars
  <2>2. ~Update
    BY <1>0 DEF Update, UpdateFails, UpdateKeeps, UpdateBestCommit, UpdateBestMetric, loopVars
  <2> QED  BY <2>1, <2>2
<1>3. ~Check /\ ~LeaveLoop
  BY <1>0 DEF Check, CheckPasses, CheckTerminates, BatchPasses, BatchAsks, LeaveLoop, Enters, loopVars
<1>4. ~Restart /\ ~Ship
  <2>1. ~Restart
    BY <1>0 DEF Restart, RestartArchives, RestartClearsCommit, RestartClearsMetric, RestartBegins, loopVars
  <2>2. ~Ship
    BY <1>0 DEF Ship, Complete, ResetHard, ResetSoft, SquashCommit, Rollback, HandOff, HandOffFails, loopVars
  <2> QED  BY <2>1, <2>2
<1> QED  BY <1>1, <1>2, <1>3, <1>4 DEF Next, Move

(* What a plain call has established when it turns the loop.               *)
LEMMA TurnIsAllowed ==
  ASSUME LoopInv, [Next]_vars, iteration' = iteration + 1, call = "plain"
  PROVE  ~CapReached /\ (Interactive /\ Logged => MidBatch)
<1>1. pc = "move" /\ ~ends
  BY OnlyLoopIterationCounts DEF LoopIteration
<1> QED  BY <1>1, Zenon DEF LoopInv, MayTurn, BatchIsOpen

LEMMA CallThatTurns ==
  ASSUME LoopInv, [Next]_vars, iteration' = iteration + 1
  PROVE  call \in {"plain", "approve"}
BY OnlyLoopIterationCounts DEF LoopIteration, LoopInv, Calls

LEMMA CapStep ==
  ASSUME LoopInv, [Next]_vars, iteration' = iteration + 1, call # "approve"
  PROVE  MaxIterations = None \/ Experiment' <= MaxIterations + 1
<1>1. ~CapReached
  BY CallThatTurns, TurnIsAllowed
<1>2. MaxIterations \in Int \cup {None} /\ iteration \in Nat
  BY OptimizeAssumption DEF ValidSetup, LoopInv
<1> QED  BY <1>1, <1>2 DEF CapReached, Experiment

LEMMA BatchStep ==
  ASSUME LoopInv, [Next]_vars, Interactive, iteration' = iteration + 1, iteration' % PerBatch = 0
  PROVE  call = "approve" \/ args.status = "summary" \/ RowIsMissed
<1>1. call = "plain" => (Logged => MidBatch)
  BY TurnIsAllowed
<1> QED  BY <1>1, CallThatTurns DEF MidBatch, Logged

(* The loop makes no more than max_iterations + 1 experiments but for      *)
(* approvals, whatever fails, crashes and is tried again                   *)
(* (check_termination, advance_step), for a limit of any sign.             *)
THEOREM LoopIsCapped == Spec => IterationsAreCapped
<1>1. LoopInv /\ [Next]_vars =>
        [iteration' = iteration + 1 /\ call # "approve" =>
           MaxIterations = None \/ Experiment' <= MaxIterations + 1]_vars
  BY CapStep
<1> QED  BY <1>1, LoopInvariant, PTL DEF Spec, IterationsAreCapped

(* The interactive loop goes from one batch to the next by approval only,  *)
(* or by a call whose row is a summary or is not shown (batch_checkpoint). *)
THEOREM BatchesAlwaysApproved == Spec => BatchesAreApproved
<1>1. LoopInv /\ [Next]_vars =>
        [Interactive /\ iteration' = iteration + 1 /\ iteration' % PerBatch = 0 =>
           call = "approve" \/ args.status = "summary" \/ RowIsMissed]_vars
  BY BatchStep
<1> QED  BY <1>1, LoopInvariant, PTL DEF Spec, BatchesAreApproved

-------------------------------------------------------------------------------
(* The best row, the front matter and what is shipped.                     *)

(* What the position of a handler tells of its call.                       *)
Chain == {"log", "measure", "append", "best", "metric", "check", "batch", "move"}
Restarting == {"clear", "clear-metric", "restart"}

Placed ==
  /\ pc \in Chain \cup Restarting => step = "experimentation"
  /\ Squashing => step = "synthesis" /\ {plan.commit, plan.base} \subseteq Commits
  /\ pc \in {"hard", "soft", "commit"} => sha \in Commits
  /\ pc = "measure" => args.status # "summary"
  /\ pc = "append" => value \in IF args.status = "summary" THEN {NaN, None} ELSE Metrics \cup {NaN}
  /\ pc = "metric" => value \in Metrics

(* The row of a call that brings a hypothesis has one.                     *)
Labelled ==
  pc \in {"best", "metric", "check"} => rows # <<>> /\ (args.hypothesis => rows[Len(rows)].hypothesis)

(* No good row in P beats row i, which was measured on its commit.         *)
Unbeaten(i, P) == \A j \in OkRows \cap P : ~Better(rows[j].value, rows[i].value)
IsBestOf(i, P) == i \in OkRows \cap P /\ Unbeaten(i, P) /\ rows[i].on = rows[i].commit
IsBest(i) == IsBestOf(i, DOMAIN rows)
Names(file, i) == BestIn(file) = [commit |-> rows[i].commit, metric |-> rows[i].value]

(* Among finitely many good rows there are a last and a best one.          *)
RowsAreOrdered ==
  /\ OkRows # {} => \E i \in OkRows : \A j \in OkRows : j <= i
  /\ OkRows # {} => \E i \in OkRows : Unbeaten(i, DOMAIN rows)

(* The front matter is that of the best of the rows in P.                  *)
RecordsBest(P) ==
  IF OkRows \cap P = {} THEN BestIn(Read) = BestIn(Blank) ELSE \E i \in P : IsBestOf(i, P) /\ Names(Read, i)

RecordsAll == RecordsBest(DOMAIN rows)
RecordsEarlier == RecordsBest(1 .. (Len(rows) - 1))

(* What is known of the commit under measurement and, then, of its row.    *)
Measured ==
  /\ pc \in {"measure", "append"} /\ args.status # "summary" =>
       (args.commit = None => sha = head) /\ tree = head /\ ~dirty
  /\ pc = "best" =>
       /\ ~Dictates
       /\ Len(rows) \in OkRows => rows[Len(rows)].commit = head /\ rows[Len(rows)].on = head

(* What the front matter says at each position.                            *)
Recorded ==
  /\ pc \in {"idle", "log", "measure", "append", "check", "batch", "move"} /\ step # "done" => RecordsAll
  /\ pc = "best" => RecordsEarlier
  /\ pc = "metric" =>
       \E i \in OkRows :
         IsBest(i) /\ front # Absent /\ Read.commit = rows[i].commit /\ value = rows[i].value
  /\ pc \in Restarting => rows = <<>>
  /\ pc \in {"clear-metric", "restart"} => Read.commit = None
  /\ pc = "restart" => Read.metric = None

(* What is to be shipped, as far as it has been prepared.                  *)
Prepared ==
  /\ Squashing => \E i \in OkRows : IsBest(i) /\ Names(plan, i)
  /\ pc \in {"soft", "commit", "hand-off"} => tree = plan.commit
  /\ pc = "hand-off" => head = tree /\ squashed
  /\ step = "done" => ShipsTheBest

BestInv ==
  /\ TypeOK /\ Placed /\ Labelled /\ RowsAreOrdered
  /\ ~lost => Measured /\ Recorded /\ Prepared

(* The values are ordered, whichever way.                                  *)
LEMMA BetterIsAnOrder ==
  ASSUME NEW a \in Metrics, NEW b \in Metrics, NEW c \in Metrics
  PROVE  /\ ~Better(a, a)
         /\ ~Better(a, b) => a = b \/ Better(b, a)
         /\ Better(a, b) /\ ~Better(c, b) => ~Better(c, a)
         /\ ~Better(a, b) /\ ~Better(b, c) => ~Better(a, c)
BY OptimizeAssumption DEF ValidSetup, Better

LEMMA RowTypes ==
  ASSUME TypeOK
  PROVE  /\ Len(rows) \in Nat /\ DOMAIN rows = 1 .. Len(rows)
         /\ \A i \in DOMAIN rows : rows[i] \in Rows
         /\ \A i \in OkRows : i \in DOMAIN rows /\ rows[i].value \in Metrics /\ rows[i].commit \in Commits \cup {None}
         /\ Read \in Fronts
<1>1. Len(rows) \in Nat /\ DOMAIN rows = 1 .. Len(rows) /\ \A i \in DOMAIN rows : rows[i] \in Rows
  BY DEF TypeOK
<1>2. ASSUME NEW i \in OkRows
      PROVE  i \in DOMAIN rows /\ rows[i].value \in Metrics /\ rows[i].commit \in Commits \cup {None}
  BY <1>1, <1>2 DEF OkRows, IsOk, Rows, RowsOf
<1>3. Read \in Fronts
  BY DEF Read, TypeOK, Blank, Fronts
<1> QED  BY <1>1, <1>2, <1>3

LEMMA RowsKept ==
  ASSUME UNCHANGED rows
  PROVE  /\ OkRows' = OkRows
         /\ \A i : IsBest(i)' <=> IsBest(i)
         /\ RowsAreOrdered' <=> RowsAreOrdered
         /\ BestIn(Read)' = BestIn(Read) => (RecordsAll' <=> RecordsAll) /\ (RecordsEarlier' <=> RecordsEarlier)
<1>1. OkRows' = OkRows
  BY DEF OkRows
<1>2. \A i, P : Unbeaten(i, P)' <=> Unbeaten(i, P)
  BY <1>1 DEF Unbeaten
<1>3. \A i, P : IsBestOf(i, P)' <=> IsBestOf(i, P)
  BY <1>1, <1>2 DEF IsBestOf
<1>4. \A i : IsBest(i)' <=> IsBest(i)
  BY <1>3 DEF IsBest
<1>5. RowsAreOrdered' <=> RowsAreOrdered
  BY <1>1, <1>2 DEF RowsAreOrdered
<1>6. BestIn(Read)' = BestIn(Read) => (RecordsAll' <=> RecordsAll) /\ (RecordsEarlier' <=> RecordsEarlier)
  BY <1>1, <1>3 DEF RecordsAll, RecordsEarlier, RecordsBest, Names, BestIn, Blank
<1> QED  BY <1>1, <1>4, <1>5, <1>6

(* After a call that brings a hypothesis no good row is missed.            *)
LEMMA AllAreShown ==
  ASSUME TypeOK, Labelled, pc \in {"best", "metric", "check"}, args.hypothesis
  PROVE  ShownOk = OkRows
<1>1. rows[Len(rows)].hypothesis
  BY DEF Labelled
<1>2. \A i \in OkRows : i \in Shown
  BY <1>1 DEF OkRows, IsOk, Shown
<1> QED  BY <1>2 DEF ShownOk

(* A row at the end.                                                       *)
LEMMA RowAppended ==
  ASSUME TypeOK, RowsAreOrdered, NEW row \in Rows, rows' = Append(rows, row)
  PROVE  /\ rows' \in Seq(Rows) /\ Len(rows') = Len(rows) + 1 /\ rows' # <<>>
         /\ rows'[Len(rows) + 1] = row /\ \A i \in DOMAIN rows : rows'[i] = rows[i]
         /\ OkRows' = IF IsOk(row) THEN OkRows \cup {Len(rows) + 1} ELSE OkRows
         /\ RowsAreOrdered'
<1>0. rows \in Seq(Rows) /\ Len(rows) \in Nat /\ DOMAIN rows = 1 .. Len(rows)
  BY RowTypes DEF TypeOK
<1>1. /\ rows' \in Seq(Rows) /\ Len(rows') = Len(rows) + 1 /\ rows' # <<>>
      /\ rows'[Len(rows) + 1] = row /\ \A i \in DOMAIN rows : rows'[i] = rows[i]
      /\ DOMAIN rows' = DOMAIN rows \cup {Len(rows) + 1}
  BY <1>0
<1>2. OkRows' = IF IsOk(row) THEN OkRows \cup {Len(rows) + 1} ELSE OkRows
  BY <1>0, <1>1 DEF OkRows, IsOk
<1>3. \A i \in OkRows : rows'[i] = rows[i] /\ i \in 1 .. Len(rows) /\ rows[i].value \in Metrics
  BY <1>1, RowTypes
<1>4. CASE ~IsOk(row)
  <2>1. OkRows' = OkRows
    BY <1>2, <1>4
  <2>2. \A i \in OkRows : Unbeaten(i, DOMAIN rows) => Unbeaten(i, DOMAIN rows)'
    BY <2>1, <1>1, <1>3 DEF Unbeaten
  <2> QED  BY <1>1, <1>2, <2>1, <2>2 DEF RowsAreOrdered
<1>5. CASE IsOk(row)
  <2> DEFINE new == Len(rows) + 1
  <2>1. OkRows' = OkRows \cup {new} /\ row.value \in Metrics /\ rows'[new] = row
    BY <1>1, <1>2, <1>5 DEF IsOk, Rows, RowsOf
  <2>2. \A j \in OkRows' : j <= new
    BY <1>0, <1>3, <2>1
  <2>3. \E i \in OkRows' : \A j \in OkRows' : ~Better(rows'[j].value, rows'[i].value)
    <3>1. CASE OkRows = {}
      BY <2>1, <3>1, BetterIsAnOrder
    <3>2. ASSUME NEW b \in OkRows, Unbeaten(b, DOMAIN rows)
          PROVE  \E i \in OkRows' : \A j \in OkRows' : ~Better(rows'[j].value, rows'[i].value)
      <4>1. \A j \in OkRows : ~Better(rows[j].value, rows[b].value)
        BY <3>2, RowTypes DEF Unbeaten
      <4>2. CASE Better(row.value, rows[b].value)
        <5>1. \A j \in OkRows : ~Better(rows[j].value, row.value)
          BY <1>3, <2>1, <4>1, <4>2, BetterIsAnOrder
        <5> QED  BY <1>3, <2>1, <5>1, BetterIsAnOrder
      <4>3. CASE ~Better(row.value, rows[b].value)
        BY <1>3, <2>1, <4>1, <4>3
      <4> QED  BY <4>2, <4>3
    <3> QED  BY <3>1, <3>2 DEF RowsAreOrdered
  <2>4. \E i \in OkRows' : Unbeaten(i, DOMAIN rows)'
    BY <2>3 DEF Unbeaten
  <2> QED  BY <1>1, <1>2, <2>1, <2>2, <2>4 DEF RowsAreOrdered
<1> QED  BY <1>1, <1>2, <1>4, <1>5

LEMMA PlaceNames ==
  /\ Squashing <=> pc \in {"hard", "soft", "commit", "hand-off"}
  /\ AfterCheck \in {"batch", "move"}
BY DEF Squashing, AfterCheck

(* The types, part by part.                                                *)
LoopTypes == step \in Steps /\ iteration \in Nat /\ timed \in BOOLEAN /\ late \in BOOLEAN
RecordTypes == rows \in Seq(Rows) /\ front \in Fronts \cup {Absent}
GitTypes ==
  /\ made \in Commits /\ saved \in [Commits -> Fronts \cup {Absent}]
  /\ head \in Commits /\ tree \in Commits /\ squashed \in BOOLEAN /\ dirty \in BOOLEAN
Places == Chain \cup Restarting \cup {"idle", "hard", "soft", "commit", "hand-off"}
CallTypes ==
  /\ pc \in Places /\ call \in Calls /\ args \in Args /\ sha \in Commits \cup {None}
  /\ value \in Metrics \cup {NaN, None} /\ ends \in BOOLEAN /\ plan \in Fronts
HistoryTypes == approvals \in Nat /\ faults \in Nat /\ lost \in BOOLEAN

LEMMA TypesByPart == TypeOK <=> LoopTypes /\ RecordTypes /\ GitTypes /\ CallTypes /\ HistoryTypes
BY DEF TypeOK, LoopTypes, RecordTypes, GitTypes, CallTypes, HistoryTypes, Places, Chain, Restarting

(* A step changes some parts, each within its types, and leaves the others. *)
LEMMA PartsMakeTypes ==
  ASSUME TypeOK,
         LoopTypes' \/ UNCHANGED loopVars,
         RecordTypes' \/ UNCHANGED record,
         GitTypes' \/ UNCHANGED gitVars,
         CallTypes' \/ UNCHANGED callVars,
         HistoryTypes' \/ UNCHANGED history
  PROVE  TypeOK'
<1>1. LoopTypes /\ RecordTypes /\ GitTypes /\ CallTypes /\ HistoryTypes
  BY TypesByPart
<1>2. LoopTypes'
  BY <1>1 DEF LoopTypes, loopVars
<1>3. RecordTypes'
  BY <1>1 DEF RecordTypes, record
<1>4. GitTypes'
  BY <1>1 DEF GitTypes, gitVars
<1>5. CallTypes'
  BY <1>1 DEF CallTypes, callVars
<1>6. HistoryTypes'
  BY <1>1 DEF HistoryTypes, history, faultVars
<1>7. (TypeOK <=> LoopTypes /\ RecordTypes /\ GitTypes /\ CallTypes /\ HistoryTypes)'
  BY TypesByPart, PTL
<1> QED  BY <1>2, <1>3, <1>4, <1>5, <1>6, <1>7

LEMMA FaultTypes ==
  ASSUME HistoryTypes, NEW apart \in BOOLEAN, approvals' \in Nat, Fault(apart) \/ UNCHANGED faultVars
  PROVE  HistoryTypes'
BY DEF HistoryTypes, Fault, faultVars

LEMMA HypothesisIsAnArg == HypothesisOnly \in Args
BY DEF HypothesisOnly, Args

LEMMA GoesTypes ==
  ASSUME CallTypes, NEW place \in Places, Goes(place) \/ Returns
  PROVE  CallTypes'
BY HypothesisIsAnArg DEF CallTypes, Goes, Returns, Places, Calls

LEMMA GivenTypes ==
  ASSUME CallTypes
  PROVE  /\ Given(None) \in Commits \cup {None}
         /\ \A c \in Commits : Given(c) \in Commits
BY DEF CallTypes, Args, Given

LEMMA ReadTypes ==
  ASSUME RecordTypes
  PROVE  Read \in Fronts
BY DEF RecordTypes, Read, Blank, Fronts

LEMMA RestoredTypes ==
  ASSUME GitTypes, RecordTypes, NEW c \in Commits
  PROVE  Restored(c) \in Fronts \cup {Absent}
BY DEF GitTypes, RecordTypes, Restored

LEMMA WritesTypes ==
  ASSUME RecordTypes, HistoryTypes, approvals' \in Nat,
         \/ \E c \in Commits : Writes("commit", c)
         \/ \E v \in Metrics : Writes("metric", v)
         \/ Clears("commit") \/ Clears("metric")
  PROVE  front' \in Fronts \cup {Absent} /\ HistoryTypes'
<1>1. front' \in Fronts \cup {Absent}
  BY DEF RecordTypes, Fronts, Writes, Clears
<1>2. Fault(TRUE) \/ UNCHANGED faultVars \/ (lost' = TRUE /\ faults' = faults)
  BY Zenon DEF Writes, Clears
<1>3. HistoryTypes'
  BY <1>2, FaultTypes DEF HistoryTypes
<1> QED  BY <1>1, <1>3

LEMMA EnvironmentTypes ==
  ASSUME TypeOK, Environment
  PROVE  TypeOK'
<1>0. LoopTypes /\ RecordTypes /\ GitTypes /\ CallTypes /\ HistoryTypes
  BY TypesByPart
<1>1. CASE Edit
  <2>1. GitTypes'
    BY <1>0, <1>1 DEF Edit, GitTypes
  <2>2. HistoryTypes'
    BY <1>0, <1>1, FaultTypes DEF Edit, Meddled, HistoryTypes
  <2> QED  BY <1>0, <1>1, <2>1, <2>2, PartsMakeTypes DEF Edit
<1>2. CASE Commit
  <2>1. made + 1 \in Commits
    BY <1>0, <1>2, OptimizeAssumption DEF Commit, GitTypes, Commits
  <2>2. GitTypes'
    <3>1. PICK file \in {front, saved[head]} : saved' = [saved EXCEPT ![made + 1] = file]
      BY <1>2 DEF Commit
    <3>2. file \in Fronts \cup {Absent}
      BY <1>0 DEF GitTypes, RecordTypes
    <3> QED  BY <1>0, <1>2, <2>1, <3>1, <3>2 DEF Commit, GitTypes
  <2>3. HistoryTypes'
    BY <1>0, <1>2, FaultTypes DEF Commit, Meddled, HistoryTypes
  <2> QED  BY <1>0, <1>2, <2>2, <2>3, PartsMakeTypes DEF Commit
<1>3. CASE Rewind
  <2>1. PICK c \in 0 .. made :
          head' = c /\ tree' = c /\ front' = Restored(c) /\ lost' = (lost \/ BestIn(Read') # BestIn(Read))
    BY <1>3 DEF Rewind
  <2>2. c \in Commits
    BY <1>0, OptimizeAssumption DEF GitTypes, Commits
  <2>3. GitTypes'
    BY <1>0, <1>3, <2>1, <2>2 DEF Rewind, GitTypes
  <2>4. RecordTypes'
    BY <1>0, <1>3, <2>1, <2>2, RestoredTypes DEF Rewind, RecordTypes
  <2>5. CallTypes'
    BY <1>0, <1>3 DEF Rewind, CallTypes, Blank, Fronts
  <2>6. HistoryTypes'
    BY <1>0, <1>3, <2>1 DEF Rewind, HistoryTypes
  <2> QED  BY <1>0, <1>3, <2>3, <2>4, <2>5, <2>6, PartsMakeTypes DEF Rewind
<1>4. CASE TimePasses
  <2>1. LoopTypes'
    BY <1>0, <1>4 DEF TimePasses, LoopTypes
  <2> QED  BY <1>0, <1>4, <2>1, PartsMakeTypes DEF TimePasses
<1> QED  BY <1>1, <1>2, <1>3, <1>4 DEF Environment

LEMMA NewRowTypes ==
  ASSUME TypeOK, Placed, pc = "append"
  PROVE  NewRow \in Rows
<1>1. /\ sha \in Commits \cup {None} /\ (IF dirty THEN None ELSE tree) \in Commits \cup {None}
      /\ args.iteration \in {"counted", "negative", "text"} /\ args.hypothesis \in BOOLEAN
      /\ args.status \in {"ok", "summary", "other"}
  BY DEF TypeOK, Args
<1>2. CASE value = NaN
  BY <1>1, <1>2 DEF NewRow, Rows, RowsOf
<1>3. CASE value # NaN /\ args.status = "summary"
  <2>1. value = None
    BY <1>3 DEF Placed
  <2> QED  BY <1>1, <1>3, <2>1 DEF NewRow, Rows, RowsOf
<1>4. CASE value # NaN /\ args.status # "summary"
  <2>1. value \in Metrics
    BY <1>4 DEF Placed
  <2> QED  BY <1>1, <1>4, <2>1 DEF NewRow, Rows, RowsOf
<1> QED  BY <1>2, <1>3, <1>4

LEMMA LogTypes ==
  ASSUME TypeOK, Placed, Log
  PROVE  TypeOK'
<1>0. LoopTypes /\ RecordTypes /\ GitTypes /\ CallTypes /\ HistoryTypes
  BY TypesByPart
<1> USE DEF Places, Chain
<1>1. CASE ChainSkips \/ LogRefuses \/ MetricFails
  <2>1. CallTypes'
    BY <1>0, <1>1, GoesTypes DEF ChainSkips, LogRefuses, MetricFails
  <2> QED  BY <1>0, <1>1, <2>1, PartsMakeTypes DEF ChainSkips, LogRefuses, MetricFails
<1>2. CASE LogCaptures \/ LogSummary
  <2>1. sha' \in {Given(head), Given(None)} /\ value' \in {value, NaN, None} /\ pc' \in {"measure", "append"}
        /\ UNCHANGED <<call, args, ends, plan>>
    BY <1>2 DEF LogCaptures, LogSummary
  <2>2. CallTypes'
    BY <1>0, <2>1, GivenTypes DEF CallTypes, GitTypes
  <2>3. \E apart \in BOOLEAN : Fault(apart) \/ UNCHANGED faultVars
    BY <1>2 DEF LogCaptures, LogSummary
  <2>4. HistoryTypes'
    BY <1>0, <1>2, <2>3, FaultTypes DEF LogCaptures, LogSummary, HistoryTypes
  <2> QED  BY <1>0, <1>2, <2>2, <2>4, PartsMakeTypes DEF LogCaptures, LogSummary
<1>3. CASE RunMetric
  <2>1. CallTypes'
    BY <1>0, <1>3 DEF RunMetric, CallTypes
  <2> QED  BY <1>0, <1>3, <2>1, PartsMakeTypes DEF RunMetric
<1>4. CASE AppendRow
  <2>1. NewRow \in Rows
    BY <1>4, NewRowTypes DEF AppendRow
  <2>2. RecordTypes'
    BY <1>0, <1>4, <2>1 DEF AppendRow, RecordTypes
  <2>3. CallTypes'
    BY <1>0, <1>4 DEF AppendRow, CallTypes
  <2>4. HistoryTypes'
    <3>1. Dictates \in BOOLEAN
      BY <1>0 DEF Dictates, CallTypes, Args
    <3> QED  BY <1>0, <1>4, <3>1 DEF AppendRow, HistoryTypes
  <2> QED  BY <1>0, <1>4, <2>2, <2>3, <2>4, PartsMakeTypes DEF AppendRow
<1>5. CASE AppendFails
  <2>1. CallTypes' /\ HistoryTypes'
    BY <1>0, <1>5, GoesTypes, FaultTypes DEF AppendFails, HistoryTypes
  <2> QED  BY <1>0, <1>5, <2>1, PartsMakeTypes DEF AppendFails
<1> QED  BY <1>1, <1>2, <1>3, <1>4, <1>5 DEF Log

LEMMA UpdateTypes ==
  ASSUME TypeOK, Placed, Update
  PROVE  TypeOK'
<1>0. LoopTypes /\ RecordTypes /\ GitTypes /\ CallTypes /\ HistoryTypes
  BY TypesByPart
<1> USE DEF Places, Chain
<1>1. CASE UpdateKeeps
  <2>1. CallTypes'
    BY <1>0, <1>1, GoesTypes DEF UpdateKeeps
  <2> QED  BY <1>0, <1>1, <2>1, PartsMakeTypes DEF UpdateKeeps
<1>2. CASE UpdateFails
  <2>1. Fault(TRUE) \/ UNCHANGED faultVars
    BY <1>2, Zenon DEF UpdateFails
  <2>2. CallTypes' /\ HistoryTypes'
    BY <1>0, <1>2, <2>1, GoesTypes, FaultTypes DEF UpdateFails, HistoryTypes
  <2> QED  BY <1>0, <1>2, <2>2, PartsMakeTypes DEF UpdateFails
<1>3. CASE UpdateBestCommit
  <2>1. Given(head) \in Commits
    BY <1>0, GivenTypes DEF GitTypes
  <2>2. CallTypes'
    BY <1>0, <1>3 DEF UpdateBestCommit, CallTypes
  <2>3. front' \in Fronts \cup {Absent} /\ HistoryTypes'
    BY <1>0, <1>3, <2>1, WritesTypes DEF UpdateBestCommit, HistoryTypes
  <2>4. RecordTypes'
    BY <1>0, <1>3, <2>3 DEF UpdateBestCommit, RecordTypes
  <2> QED  BY <1>0, <1>3, <2>2, <2>3, <2>4, PartsMakeTypes DEF UpdateBestCommit
<1>4. CASE UpdateBestMetric
  <2>1. value \in Metrics
    BY <1>4 DEF UpdateBestMetric, Placed
  <2>2. CallTypes'
    BY <1>0, <1>4 DEF UpdateBestMetric, CallTypes
  <2>3. front' \in Fronts \cup {Absent} /\ HistoryTypes'
    BY <1>0, <1>4, <2>1, WritesTypes DEF UpdateBestMetric, HistoryTypes
  <2>4. RecordTypes'
    BY <1>0, <1>4, <2>3 DEF UpdateBestMetric, RecordTypes
  <2> QED  BY <1>0, <1>4, <2>2, <2>3, <2>4, PartsMakeTypes DEF UpdateBestMetric
<1> QED  BY <1>1, <1>2, <1>3, <1>4 DEF Update

LEMMA CheckTypes ==
  ASSUME TypeOK, Check
  PROVE  TypeOK'
<1>0. RecordTypes /\ GitTypes /\ CallTypes /\ HistoryTypes
  BY TypesByPart
<1> USE PlaceNames DEF Places, Chain
<1>1. CASE CheckPasses \/ BatchPasses \/ BatchAsks
  <2>1. CallTypes'
    BY <1>0, <1>1, GoesTypes DEF CheckPasses, BatchPasses, BatchAsks
  <2> QED  BY <1>1, <2>1, PartsMakeTypes DEF CheckPasses, BatchPasses, BatchAsks
<1>2. CASE CheckTerminates
  <2>1. Summary \in Rows
    BY <1>0 DEF Summary, Rows, RowsOf, GitTypes
  <2>2. RecordTypes'
    <3>1. (rows' = Append(rows, Summary) \/ rows' = rows) /\ UNCHANGED front
      BY <1>2, Zenon DEF CheckTerminates
    <3> QED  BY <1>0, <2>1, <3>1 DEF RecordTypes
  <2>3. CallTypes'
    BY <1>0, <1>2 DEF CheckTerminates, CallTypes
  <2>4. HistoryTypes'
    BY <1>0, <1>2, FaultTypes DEF CheckTerminates, HistoryTypes
  <2> QED  BY <1>2, <2>2, <2>3, <2>4, PartsMakeTypes DEF CheckTerminates
<1> QED  BY <1>1, <1>2 DEF Check

LEMMA MoveTypes ==
  ASSUME TypeOK, Move \/ Goto \/ CaptureBaseline \/ Advance
  PROVE  TypeOK'
<1>0. LoopTypes /\ RecordTypes /\ GitTypes /\ CallTypes /\ HistoryTypes
  BY TypesByPart
<1>1. CASE Move
  <2>1. CallTypes'
    BY <1>0, <1>1, GoesTypes DEF Move, LoopIteration, LeaveLoop, Places
  <2>2. LoopTypes'
    <3>1. CASE LoopIteration
      BY <1>0, <3>1 DEF LoopIteration, LoopTypes
    <3>2. CASE LeaveLoop
      BY <1>0, <3>2 DEF LeaveLoop, Enters, LoopTypes, Steps
    <3> QED  BY <1>1, <3>1, <3>2 DEF Move
  <2> QED  BY <1>1, <2>1, <2>2, PartsMakeTypes DEF Move, LoopIteration, LeaveLoop
<1>2. CASE Goto
  <2>1. LoopTypes'
    <3>1. PICK place \in {"experimentation", "baseline"} : Enters(place)
      BY <1>2, Zenon DEF Goto
    <3> QED  BY <3>1 DEF Enters, LoopTypes, Steps
  <2>2. CallTypes'
    BY <1>0, <1>2 DEF Goto, CallTypes, Blank, Fronts
  <2>3. lost' \in BOOLEAN
    BY <1>0, <1>2, Zenon DEF Goto, HistoryTypes
  <2>4. HistoryTypes'
    BY <1>0, <1>2, <2>3 DEF Goto, HistoryTypes
  <2> QED  BY <1>2, <2>1, <2>2, <2>4, PartsMakeTypes DEF Goto
<1>3. CASE CaptureBaseline
  <2>1. LoopTypes'
    BY <1>0, <1>3 DEF CaptureBaseline, LoopTypes, Steps
  <2>2. RecordTypes'
    <3>1. front' = front \/ (front # Absent /\ \E x \in {head, None} : front' = [front EXCEPT !.base = x])
      BY <1>3 DEF CaptureBaseline
    <3> QED  BY <1>0, <1>3, <3>1 DEF CaptureBaseline, RecordTypes, GitTypes, Fronts
  <2>3. Fault(FALSE) \/ UNCHANGED faultVars
    BY <1>3, Zenon DEF CaptureBaseline
  <2>4. HistoryTypes'
    BY <1>0, <1>3, <2>3, FaultTypes DEF CaptureBaseline, HistoryTypes
  <2> QED  BY <1>3, <2>1, <2>2, <2>4, PartsMakeTypes DEF CaptureBaseline
<1>4. CASE Advance
  <2>1. args' \in Args
    <3>1. args' = HypothesisOnly \/ args' \in Inputs
      BY <1>4 DEF Advance
    <3> QED  BY <3>1, HypothesisIsAnArg, OptimizeAssumption
  <2>2. CallTypes'
    BY <1>0, <1>4, <2>1 DEF Advance, CallTypes, Places, Chain
  <2>3. Fault(FALSE) \/ UNCHANGED faultVars
    BY <1>4, Zenon DEF Advance
  <2>4. approvals' \in Nat
    BY <1>0, <1>4 DEF Advance, HistoryTypes
  <2>5. HistoryTypes'
    BY <1>0, <2>3, <2>4, FaultTypes
  <2> QED  BY <1>4, <2>2, <2>5, PartsMakeTypes DEF Advance
<1> QED  BY <1>1, <1>2, <1>3, <1>4

LEMMA RestartTypes ==
  ASSUME TypeOK, Restart
  PROVE  TypeOK'
<1>0. LoopTypes /\ RecordTypes /\ GitTypes /\ CallTypes /\ HistoryTypes
  BY TypesByPart
<1>1. CASE RestartArchives
  <2>1. CallTypes'
    BY <1>0, <1>1, GoesTypes DEF RestartArchives, Places, Restarting
  <2>2. RecordTypes'
    <3>1. (rows' = <<>> \/ rows' = rows) /\ UNCHANGED front
      BY <1>1, Zenon DEF RestartArchives
    <3>2. <<>> \in Seq(Rows)
      OBVIOUS
    <3>3. rows' \in Seq(Rows)
      BY <1>0, <3>1, <3>2, Zenon DEF RecordTypes
    <3> QED  BY <1>0, <3>1, <3>3 DEF RecordTypes
  <2>3. (lost' = FALSE /\ faults' = faults) \/ Fault(TRUE)
    BY <1>1, Zenon DEF RestartArchives
  <2>4. HistoryTypes'
    BY <1>0, <1>1, <2>3, FaultTypes DEF RestartArchives, HistoryTypes
  <2> QED  BY <1>1, <2>1, <2>2, <2>4, PartsMakeTypes DEF RestartArchives
<1>2. CASE RestartClearsCommit \/ RestartClearsMetric
  <2>1. CallTypes'
    BY <1>0, <1>2, GoesTypes DEF RestartClearsCommit, RestartClearsMetric, Places, Restarting
  <2>2. (Clears("commit") \/ Clears("metric")) /\ approvals' = approvals
    BY <1>2 DEF RestartClearsCommit, RestartClearsMetric
  <2>3. front' \in Fronts \cup {Absent} /\ HistoryTypes'
    BY <1>0, <2>2, WritesTypes DEF HistoryTypes
  <2>4. RecordTypes'
    BY <1>0, <1>2, <2>3 DEF RestartClearsCommit, RestartClearsMetric, RecordTypes
  <2> QED
    BY <1>2, <2>1, <2>3, <2>4, PartsMakeTypes DEF RestartClearsCommit, RestartClearsMetric
<1>3. CASE RestartBegins
  <2>1. CallTypes'
    BY <1>0, <1>3, GoesTypes DEF RestartBegins, Places
  <2>2. LoopTypes'
    BY <1>0, <1>3 DEF RestartBegins, LoopTypes
  <2> QED  BY <1>3, <2>1, <2>2, PartsMakeTypes DEF RestartBegins
<1> QED  BY <1>1, <1>2, <1>3 DEF Restart

LEMMA ShipTypes ==
  ASSUME TypeOK, Placed, Ship \/ Crash
  PROVE  TypeOK'
<1>0. LoopTypes /\ RecordTypes /\ GitTypes /\ CallTypes /\ HistoryTypes
  BY TypesByPart
<1> USE DEF Places
<1>1. CASE Complete
  <2>1. CallTypes'
    BY <1>0, <1>1, ReadTypes DEF Complete, CallTypes, GitTypes
  <2> QED  BY <1>1, <2>1, PartsMakeTypes DEF Complete
<1>2. CASE ResetHard
  <2>1. plan.commit \in Commits
    BY <1>2, PlaceNames DEF ResetHard, Placed
  <2>2. CallTypes'
    BY <1>0, <1>2, GoesTypes DEF ResetHard
  <2>3. GitTypes'
    BY <1>0, <1>2, <2>1 DEF ResetHard, GitTypes
  <2>4. RecordTypes'
    BY <1>0, <1>2, <2>1, RestoredTypes DEF ResetHard, RecordTypes
  <2> QED  BY <1>2, <2>2, <2>3, <2>4, PartsMakeTypes DEF ResetHard
<1>3. CASE ResetSoft \/ SquashCommit
  <2>1. plan.base \in Commits
    BY <1>3, PlaceNames DEF ResetSoft, SquashCommit, Placed
  <2>2. CallTypes'
    BY <1>0, <1>3, GoesTypes DEF ResetSoft, SquashCommit
  <2>3. GitTypes'
    BY <1>0, <1>3, <2>1 DEF ResetSoft, SquashCommit, GitTypes
  <2> QED  BY <1>3, <2>2, <2>3, PartsMakeTypes DEF ResetSoft, SquashCommit
<1>4. CASE Rollback
  <2>1. sha \in Commits
    BY <1>4 DEF Rollback, Placed
  <2>2. CallTypes'
    BY <1>0, <1>4, GoesTypes DEF Rollback
  <2>3. GitTypes'
    BY <1>0, <1>4, <2>1 DEF Rollback, GitTypes
  <2>4. RecordTypes'
    BY <1>0, <1>4, <2>1, RestoredTypes DEF Rollback, RecordTypes
  <2>5. HistoryTypes'
    BY <1>0, <1>4, FaultTypes DEF Rollback, HistoryTypes
  <2> QED  BY <1>4, <2>2, <2>3, <2>4, <2>5, PartsMakeTypes DEF Rollback
<1>5. CASE HandOff
  <2>1. CallTypes'
    BY <1>0, <1>5, GoesTypes DEF HandOff
  <2>2. LoopTypes'
    BY <1>0, <1>5 DEF HandOff, LoopTypes, Steps
  <2> QED  BY <1>5, <2>1, <2>2, PartsMakeTypes DEF HandOff
<1>6. CASE HandOffFails
  <2>1. CallTypes' /\ HistoryTypes'
    BY <1>0, <1>6, GoesTypes, FaultTypes DEF HandOffFails, HistoryTypes
  <2> QED  BY <1>6, <2>1, PartsMakeTypes DEF HandOffFails
<1>7. CASE Crash
  <2>1. CallTypes'
    BY <1>7, HypothesisIsAnArg DEF Crash, CallTypes, Calls, Blank, Fronts
  <2>2. HistoryTypes'
    BY <1>0, <1>7, FaultTypes DEF Crash, HistoryTypes
  <2> QED  BY <1>7, <2>1, <2>2, PartsMakeTypes DEF Crash
<1> QED  BY <1>1, <1>2, <1>3, <1>4, <1>5, <1>6, <1>7 DEF Ship

LEMMA TypesKept ==
  ASSUME BestInv, [Next]_vars
  PROVE  TypeOK'
<1>0. TypeOK /\ Placed
  BY DEF BestInv
<1>1. CASE UNCHANGED vars
  BY <1>0, <1>1, PartsMakeTypes DEF vars
<1> QED
  BY <1>0, <1>1, EnvironmentTypes, LogTypes, UpdateTypes, CheckTypes, MoveTypes, RestartTypes, ShipTypes DEF Next

LEMMA FaultIsKept ==
  ASSUME lost \in BOOLEAN, NEW apart \in BOOLEAN, Fault(apart)
  PROVE  ~lost' => ~lost /\ ~apart
BY DEF Fault

LEMMA EngineOwnsNoCode ==
  ASSUME DirtyFiles \subseteq EngineOwned
  PROVE  tree = head /\ ~dirty
BY DEF DirtyFiles, EngineOwned

LEMMA AppendRowKeepsBest ==
  ASSUME BestInv, TypeOK', AppendRow
  PROVE  BestInv'
<1>0. TypeOK /\ Placed /\ RowsAreOrdered /\ (~lost => Measured /\ Recorded)
  BY DEF BestInv
<1>1. /\ pc = "append" /\ pc' = "best" /\ rows' = Append(rows, NewRow) /\ step = "experimentation"
      /\ UNCHANGED <<step, front, head, tree, dirty, args>>
  BY <1>0 DEF AppendRow, loopVars, gitVars, Placed, Chain
<1>2. NewRow \in Rows
  BY <1>0, <1>1, NewRowTypes
<1>3. /\ Len(rows') = Len(rows) + 1 /\ rows' # <<>> /\ rows'[Len(rows) + 1] = NewRow
      /\ \A i \in DOMAIN rows : rows'[i] = rows[i]
      /\ OkRows' \cap DOMAIN rows = OkRows
      /\ RowsAreOrdered'
  <2>1. Len(rows) + 1 \notin DOMAIN rows /\ OkRows \subseteq DOMAIN rows
    BY <1>0, RowTypes DEF OkRows
  <2> QED  BY <1>0, <1>1, <1>2, <2>1, RowAppended
<1>4. Placed' /\ Labelled'
  BY <1>1, <1>3 DEF Placed, Chain, Restarting, Squashing, Labelled, NewRow
<1>5. ~lost' => ~lost /\ ~Dictates /\ Dictates' = Dictates
  BY <1>1 DEF AppendRow, Dictates
<1>6. ~lost' => Measured'
  <2>1. ASSUME ~lost', IsOk(NewRow)  PROVE NewRow.commit = head /\ NewRow.on = head
    <3>1. args.status # "summary" /\ args.commit = None
      BY <1>5, <2>1 DEF IsOk, NewRow, Dictates
    <3>2. sha = head /\ tree = head /\ ~dirty
      BY <1>0, <1>1, <1>5, <2>1, <3>1 DEF Measured
    <3> QED  BY <3>2 DEF NewRow
  <2>2. Len(rows') \in OkRows' => IsOk(NewRow)
    BY <1>3 DEF OkRows, IsOk
  <2> QED  BY <1>0, <1>1, <1>3, <1>5, <2>1, <2>2, RowTypes DEF Measured
<1>7. ~lost' => RecordsEarlier'
  <2> SUFFICES ASSUME ~lost  PROVE RecordsEarlier'
    BY <1>5
  <2>1. RecordsAll /\ Read' = Read /\ BestIn(Read)' = BestIn(Read) /\ BestIn(Blank)' = BestIn(Blank)
    BY <1>0, <1>1 DEF Recorded, Read, BestIn, Blank
  <2>2. (1 .. (Len(rows) - 1))' = DOMAIN rows /\ OkRows \cap DOMAIN rows = OkRows
    BY <1>0, <1>3, RowTypes DEF OkRows
  <2>3. CASE OkRows = {}
    BY <2>1, <2>2, <2>3, <1>3 DEF RecordsEarlier, RecordsAll, RecordsBest
  <2>4. ASSUME NEW i \in OkRows, IsBest(i), Names(Read, i)
        PROVE  RecordsEarlier'
    <3>1. \A j \in OkRows : rows'[j] = rows[j] /\ ~Better(rows[j].value, rows[i].value)
      BY <1>3, <2>2, <2>4 DEF IsBest, IsBestOf, Unbeaten
    <3>2. IsBestOf(i, 1 .. (Len(rows) - 1))' /\ Names(Read, i)'
      BY <1>3, <2>1, <2>2, <2>4, <3>1 DEF IsBest, IsBestOf, Unbeaten, Names
    <3> QED  BY <1>3, <2>2, <3>2 DEF RecordsEarlier, RecordsBest
  <2> QED
    BY <2>1, <2>2, <2>3, <2>4 DEF RecordsAll, RecordsBest, IsBest, IsBestOf
<1>8. ~lost' => Recorded' /\ Prepared'
  BY <1>1, <1>7 DEF Recorded, Prepared, Restarting, Squashing
<1> QED  BY <1>1, <1>3, <1>4, <1>6, <1>8 DEF BestInv

LEMMA SummaryChangesNothing ==
  ASSUME TypeOK, RowsAreOrdered, UNCHANGED front, rows' = Append(rows, Summary)
  PROVE  RowsAreOrdered' /\ (RecordsAll => RecordsAll')
<1>1. Summary \in Rows /\ ~IsOk(Summary)
  BY DEF Summary, Rows, RowsOf, IsOk, TypeOK
<1>2. RowsAreOrdered' /\ OkRows' = OkRows /\ OkRows \subseteq DOMAIN rows
      /\ \A i \in OkRows : rows'[i] = rows[i]
  BY <1>1, RowAppended, RowTypes
<1>3. OkRows' \subseteq DOMAIN rows'
  BY DEF OkRows
<1>4. BestIn(Read)' = BestIn(Read) /\ BestIn(Blank)' = BestIn(Blank)
  BY DEF Read, BestIn, Blank
<1>5. \A i \in OkRows : IsBest(i) /\ Names(Read, i) => IsBest(i)' /\ Names(Read, i)'
  BY <1>2, <1>3, <1>4 DEF IsBest, IsBestOf, Unbeaten, Names
<1>6. RecordsAll => RecordsAll'
  BY <1>2, <1>3, <1>4, <1>5 DEF RecordsAll, RecordsBest, IsBest, IsBestOf
<1> QED  BY <1>2, <1>6

(* Between the writes of its fields the front matter tells the best row.   *)
LEMMA AtRest ==
  ASSUME BestInv, TypeOK', UNCHANGED rows,
         pc' \in {"idle", "log", "batch", "move"} \/ (pc' = "check" /\ pc \in {"best", "metric"} /\ args' = args),
         pc' # "idle" => step' = "experimentation", step' # "done",
         ~lost' => RecordsAll'
  PROVE  BestInv'
<1>1. Placed'
  BY PlaceNames DEF Placed, Chain, Restarting, Squashing
<1>2. RowsAreOrdered'
  BY RowsKept DEF BestInv
<1>3. Labelled'
  BY DEF BestInv, Labelled
<1>4. ~lost' => Measured' /\ Recorded' /\ Prepared'
  BY DEF Measured, Recorded, Prepared, Restarting, Squashing
<1> QED  BY <1>1, <1>2, <1>3, <1>4 DEF BestInv

LEMMA StillRecorded ==
  ASSUME UNCHANGED <<rows, front>> \/ (UNCHANGED rows /\ BestIn(Read)' = BestIn(Read))
  PROVE  (RecordsAll' <=> RecordsAll) /\ (RecordsEarlier' <=> RecordsEarlier)
<1>1. BestIn(Read)' = BestIn(Read)
  BY DEF Read, BestIn, Blank
<1> QED  BY <1>1, RowsKept

LEMMA DoneIsIdle ==
  ASSUME BestInv
  PROVE  step = "done" => pc = "idle"
BY PlaceNames DEF BestInv, TypeOK, Placed, Chain, Restarting

(* Once rows and front matter have come apart, nothing more is promised.   *)
LEMMA Apart ==
  ASSUME BestInv, TypeOK', Placed', UNCHANGED <<rows, pc, args>>, lost'
  PROVE  BestInv'
BY RowsKept DEF BestInv, Labelled

LEMMA EnvironmentKeepsBest ==
  ASSUME BestInv, TypeOK', Environment
  PROVE  BestInv'
<1>0. UNCHANGED rows
  BY DEF Environment, Edit, Commit, Rewind, TimePasses, record
<1>1. CASE (Edit \/ Commit) /\ pc = "idle"
  <2>1. UNCHANGED <<rows, front, pc, step, lost>> /\ step # "done"
    BY <1>1 DEF Edit, Commit, Meddled, Meddling, loopVars, record, callVars, faultVars
  <2>2. ~lost => RecordsAll
    BY <1>1, <2>1 DEF BestInv, Recorded
  <2> QED  BY <1>1, <2>1, <2>2, StillRecorded, AtRest
<1>2. CASE (Edit \/ Commit) /\ pc # "idle"
  <2>1. pc \in Meddling /\ lost' /\ UNCHANGED <<pc, step, args, value, sha, plan>>
    BY <1>2 DEF Edit, Commit, Meddled, Meddling, loopVars, record, callVars, Fault
  <2>2. Placed'
    BY <2>1 DEF BestInv, Placed, Squashing, Meddling, Chain, Restarting
  <2> QED  BY <1>0, <2>1, <2>2, Apart DEF Meddling
<1>3. CASE Rewind
  <2>1. /\ pc = "idle" /\ pc' = pc /\ step' = step /\ step # "done"
        /\ lost' = (lost \/ BestIn(Read') # BestIn(Read))
    BY <1>3 DEF Rewind, loopVars
  <2>2. ~lost' => ~lost /\ BestIn(Read)' = BestIn(Read)
    BY <2>1 DEF BestIn
  <2>3. ~lost => RecordsAll
    BY <2>1 DEF BestInv, Recorded
  <2> QED  BY <1>0, <2>1, <2>2, <2>3, StillRecorded, AtRest
<1>4. CASE TimePasses
  <2>1. UNCHANGED <<step, record, gitVars, callVars, history>>
    BY <1>4 DEF TimePasses
  <2>2. Placed' /\ Labelled' /\ RowsAreOrdered'
    BY <2>1, RowsKept DEF BestInv, Placed, Labelled, Squashing, callVars, record
  <2>3. pc = "append"
    BY <1>4 DEF TimePasses
  <2>4. ~lost' => Measured' /\ Recorded'
    BY <2>1, <2>3, StillRecorded
       DEF BestInv, Measured, Recorded, Restarting, record, gitVars, callVars, history, faultVars
  <2>5. ShipsTheBest => ShipsTheBest'
    BY <2>1 DEF ShipsTheBest, IsBestRow, record, gitVars, history, faultVars
  <2>6. ~lost' => Prepared'
    BY <2>1, <2>3, <2>5 DEF BestInv, Prepared, Squashing, callVars, history, faultVars
  <2> QED  BY <2>2, <2>4, <2>6 DEF BestInv
<1> QED  BY <1>1, <1>2, <1>3, <1>4 DEF Environment

LEMMA LogKeepsBest ==
  ASSUME BestInv, TypeOK', Log
  PROVE  BestInv'
<1>0. Placed /\ RowsAreOrdered /\ (~lost => Measured /\ Recorded /\ Prepared)
  BY DEF BestInv
<1>1. CASE LogRefuses \/ MetricFails \/ AppendFails
  <2>0. ~lost' => ~lost
    <3>1. Fault(FALSE) \/ UNCHANGED faultVars
      BY <1>1 DEF LogRefuses, MetricFails, AppendFails, history
    <3> QED  BY <3>1, FaultIsKept DEF BestInv, TypeOK, faultVars
  <2>1. /\ pc \in {"log", "measure", "append"} /\ pc' = "idle" /\ UNCHANGED <<step, rows, front>>
    BY <1>1 DEF LogRefuses, MetricFails, AppendFails, Returns, loopVars, record
  <2>2. step = "experimentation" /\ (~lost' => RecordsAll)
    BY <1>0, <2>0, <2>1 DEF Placed, Chain, Recorded
  <2> QED  BY <2>1, <2>2, StillRecorded, AtRest
<1>2. CASE ChainSkips
  <2>1. /\ pc = "log" /\ pc' = "move" /\ step = "experimentation"
        /\ UNCHANGED <<step, rows, front, lost>>
    BY <1>0, <1>2 DEF ChainSkips, Goes, loopVars, record, history, faultVars, Placed, Chain
  <2>2. ~lost => RecordsAll
    BY <1>0, <2>1 DEF Recorded
  <2> QED  BY <2>1, <2>2, StillRecorded, AtRest
<1>3. CASE LogCaptures
  <2>1. /\ pc = "log" /\ pc' = "measure" /\ step = "experimentation" /\ args.status # "summary"
        /\ UNCHANGED <<step, rows, front, args, head, tree, dirty>>
    BY <1>0, <1>3 DEF LogCaptures, loopVars, record, gitVars, Placed, Chain
  <2>2. ~lost' => ~lost /\ sha' = Given(head) /\ tree = head /\ ~dirty
    BY <1>3, EngineOwnsNoCode DEF LogCaptures, Fault, faultVars
  <2>3. Placed' /\ Labelled'
    BY <2>1 DEF Placed, Chain, Restarting, Squashing, Labelled
  <2>4. ~lost' => Measured' /\ Recorded' /\ Prepared'
    BY <1>0, <2>1, <2>2, StillRecorded DEF Measured, Recorded, Prepared, Restarting, Squashing, Given
  <2> QED  BY <1>0, <2>1, <2>3, <2>4, RowsKept DEF BestInv
<1>4. CASE LogSummary
  <2>1. /\ pc = "log" /\ pc' = "append" /\ step = "experimentation" /\ args.status = "summary"
        /\ value' \in {NaN, None} /\ UNCHANGED <<step, rows, front, args>>
    BY <1>0, <1>4 DEF LogSummary, loopVars, record, Placed, Chain
  <2>2. ~lost' => ~lost
    <3>1. Fault(FALSE) \/ UNCHANGED faultVars
      BY <1>4, Zenon DEF LogSummary
    <3> QED  BY <3>1, FaultIsKept DEF BestInv, TypeOK, faultVars
  <2>3. Placed' /\ Labelled'
    BY <2>1 DEF Placed, Chain, Restarting, Squashing, Labelled
  <2>4. ~lost' => Measured' /\ Recorded' /\ Prepared'
    BY <1>0, <2>1, <2>2, StillRecorded DEF Measured, Recorded, Prepared, Restarting, Squashing
  <2> QED  BY <1>0, <2>1, <2>3, <2>4, RowsKept DEF BestInv
<1>5. CASE RunMetric
  <2>1. /\ pc = "measure" /\ pc' = "append" /\ step = "experimentation"
        /\ value' \in Metrics \cup {NaN} /\ args.status # "summary"
        /\ UNCHANGED <<step, rows, front, args, sha, head, tree, dirty, lost>>
    BY <1>0, <1>5 DEF RunMetric, loopVars, record, gitVars, history, faultVars, Placed, Chain
  <2>2. Placed' /\ Labelled'
    BY <2>1 DEF Placed, Chain, Restarting, Squashing, Labelled
  <2>3. ~lost' => Measured' /\ Recorded' /\ Prepared'
    BY <1>0, <2>1, StillRecorded DEF Measured, Recorded, Prepared, Restarting, Squashing
  <2> QED  BY <1>0, <2>1, <2>2, <2>3, RowsKept DEF BestInv
<1>6. CASE AppendRow
  BY <1>6, AppendRowKeepsBest
<1> QED  BY <1>1, <1>2, <1>3, <1>4, <1>5, <1>6 DEF Log

(* A call that dictates nothing brings the value of the last good row.     *)
LEMMA LastOkIsLast ==
  ASSUME RowsAreOrdered, ShownOk = OkRows, OkRows # {}
  PROVE  LastOk \in OkRows /\ \A j \in OkRows : j <= LastOk
BY DEF RowsAreOrdered, LastOk

LEMMA ValueOfLastOk ==
  ASSUME TypeOK, Labelled, RowsAreOrdered, pc = "best", ~Dictates
  PROVE  /\ NewValue = IF OkRows = {} THEN None ELSE rows[LastOk].value
         /\ Given(head) = head
         /\ OkRows # {} => LastOk \in OkRows /\ \A j \in OkRows : j <= LastOk
<1>1. args.value = None /\ args.commit = None /\ args.hypothesis
  BY DEF Dictates, TypeOK, Args
<1>2. ShownOk = OkRows
  BY <1>1, AllAreShown
<1> QED  BY <1>1, <1>2, LastOkIsLast DEF NewValue, Given

(* The best row of those before the last stays it if it beats that.        *)
LEMMA EarlierBestStays ==
  ASSUME TypeOK, NEW last \in OkRows, \A j \in OkRows : j <= last, RecordsEarlier,
         Read.metric # None, ~Better(rows[last].value, Read.metric)
  PROVE  RecordsAll
<1> DEFINE before == 1 .. (Len(rows) - 1)
<1>1. Len(rows) \in Nat /\ DOMAIN rows = 1 .. Len(rows) /\ OkRows \subseteq DOMAIN rows
  BY RowTypes
<1>4. PICK i \in OkRows \cap before : IsBestOf(i, before) /\ Names(Read, i)
  BY DEF RecordsEarlier, RecordsBest, Blank, BestIn, IsBestOf
<1>5. Read.metric = rows[i].value
  BY <1>4 DEF Names, BestIn
<1>6. ASSUME NEW j \in OkRows  PROVE ~Better(rows[j].value, rows[i].value)
  <2>1. CASE j \in before
    BY <1>4, <2>1 DEF IsBestOf, Unbeaten
  <2>2. CASE j \notin before
    <3>1. j = last
      BY <1>1, <2>2
    <3> QED  BY <1>5, <3>1
  <2> QED  BY <2>1, <2>2
<1>7. IsBest(i)
  BY <1>1, <1>4, <1>6 DEF IsBest, IsBestOf, Unbeaten
<1> QED  BY <1>1, <1>4, <1>7 DEF RecordsAll, RecordsBest, IsBest

(* The last row is the best if it improves on those before.                *)
LEMMA LastIsBest ==
  ASSUME TypeOK, NEW last \in OkRows, \A j \in OkRows : j <= last, RecordsEarlier,
         Read.metric # None => Better(rows[last].value, Read.metric),
         Len(rows) \in OkRows => rows[Len(rows)].commit = head /\ rows[Len(rows)].on = head
  PROVE  IsBest(last) /\ rows[last].commit = head
<1> DEFINE before == 1 .. (Len(rows) - 1)
<1>1. /\ Len(rows) \in Nat /\ DOMAIN rows = 1 .. Len(rows) /\ OkRows \subseteq DOMAIN rows
      /\ \A i \in OkRows : rows[i].value \in Metrics
  BY RowTypes
<1>2. Len(rows) \in OkRows => last = Len(rows)
  BY <1>1
<1>3. CASE OkRows \cap before = {}
  <2>1. OkRows = {Len(rows)} /\ last = Len(rows)
    BY <1>1, <1>3
  <2>2. \A j \in OkRows : ~Better(rows[j].value, rows[last].value)
    BY <1>1, <2>1, BetterIsAnOrder
  <2> QED  BY <1>1, <2>1, <2>2 DEF IsBest, IsBestOf, Unbeaten
<1>4. CASE OkRows \cap before # {}
  <2>1. PICK i \in OkRows \cap before : IsBestOf(i, before) /\ Names(Read, i)
    BY <1>4 DEF RecordsEarlier, RecordsBest, IsBestOf
  <2>2. Read.metric = rows[i].value /\ Read.metric # None
    BY <1>1, <2>1, OptimizeAssumption DEF Names, BestIn, ValidSetup
  <2>3. Better(rows[last].value, rows[i].value)
    BY <2>2
  <2>4. \A j \in OkRows \cap before : ~Better(rows[j].value, rows[i].value)
    BY <2>1 DEF IsBestOf, Unbeaten
  <2>5. last = Len(rows) /\ Len(rows) \in OkRows
    BY <1>1, <2>3, <2>4
  <2>6. ASSUME NEW j \in OkRows  PROVE ~Better(rows[j].value, rows[last].value)
    <3>1. CASE j \in before
      BY <1>1, <2>3, <2>4, <3>1, BetterIsAnOrder
    <3>2. CASE j \notin before
      <4>1. j = last
        BY <1>1, <2>5, <3>2
      <4> QED  BY <1>1, <4>1, BetterIsAnOrder
    <3> QED  BY <3>1, <3>2
  <2> QED  BY <1>1, <2>5, <2>6 DEF IsBest, IsBestOf, Unbeaten
<1> QED  BY <1>3, <1>4

(* A write that is not lost.                                               *)
LEMMA WrittenOrLost ==
  ASSUME lost \in BOOLEAN, NEW x,
         NEW field \in {"commit", "metric"}, Writes(field, x), ~lost'
  PROVE  ~lost /\ front # Absent /\ front' = [front EXCEPT ![field] = x]
<1>1. CASE front # Absent /\ front' = [front EXCEPT ![field] = x] /\ UNCHANGED faultVars
  BY <1>1 DEF faultVars
<1>2. CASE Fault(TRUE)
  BY <1>2, FaultIsKept
<1>3. CASE lost' = TRUE
  BY <1>3
<1> QED  BY <1>1, <1>2, <1>3, Zenon DEF Writes

LEMMA UpdateBestKeepsBest ==
  ASSUME BestInv, TypeOK', UpdateBestCommit \/ UpdateBestMetric
  PROVE  BestInv'
<1>0. /\ TypeOK /\ Placed /\ Labelled /\ RowsAreOrdered /\ (~lost => Measured /\ Recorded)
      /\ lost \in BOOLEAN /\ front \in Fronts \cup {Absent} /\ head \in Commits
  BY DEF BestInv, TypeOK
<1>1. CASE UpdateBestCommit
  <2>1. /\ pc = "best" /\ pc' = "metric" /\ step = "experimentation"
        /\ NewValue \in Metrics /\ value' = NewValue
        /\ Improves /\ Writes("commit", Given(head))
        /\ UNCHANGED <<step, rows, args, head>>
    BY <1>0, <1>1 DEF UpdateBestCommit, loopVars, gitVars, Placed, Chain
  <2>2. Placed' /\ Labelled' /\ RowsAreOrdered'
    BY <1>0, <2>1, RowsKept DEF Placed, Labelled, Chain, Restarting, Squashing
  <2>3. ASSUME ~lost'
        PROVE  Measured' /\ Recorded' /\ Prepared'
    <3>1. ~lost /\ front # Absent /\ front' = [front EXCEPT !["commit"] = Given(head)]
      BY <1>0, <2>1, <2>3, WrittenOrLost
    <3>2. /\ ~Dictates /\ RecordsEarlier
          /\ Len(rows) \in OkRows => rows[Len(rows)].commit = head /\ rows[Len(rows)].on = head
      BY <1>0, <2>1, <3>1 DEF Measured, Recorded
    <3>3. /\ NewValue = (IF OkRows = {} THEN None ELSE rows[LastOk].value) /\ Given(head) = head
          /\ OkRows # {} => LastOk \in OkRows /\ \A j \in OkRows : j <= LastOk
      BY <1>0, <2>1, <3>2, ValueOfLastOk
    <3>4. OkRows # {} /\ NewValue = rows[LastOk].value
      BY <2>1, <3>3, OptimizeAssumption DEF ValidSetup
    <3>5. IsBest(LastOk) /\ rows[LastOk].commit = head /\ LastOk \in OkRows
      BY <1>0, <2>1, <3>2, <3>3, <3>4, LastIsBest DEF Improves
    <3>6. front' \in Fronts /\ front'.commit = head
      BY <1>0, <3>1, <3>3 DEF Fronts
    <3>7. front' # Absent /\ Read'.commit = head
      BY <3>6, AbsentAssumption DEF Read
    <3>8. PICK i : i = LastOk
      OBVIOUS
    <3>9. i \in OkRows' /\ IsBest(i)' /\ Read'.commit = rows'[i].commit /\ value' = rows'[i].value
      BY <2>1, <3>4, <3>5, <3>7, <3>8, RowsKept
    <3> QED
      BY <2>1, <3>7, <3>9 DEF Measured, Recorded, Prepared, Restarting, Squashing
  <2> QED  BY <2>2, <2>3 DEF BestInv
<1>2. CASE UpdateBestMetric
  <2>1. /\ pc = "metric" /\ pc' = "check" /\ step = "experimentation" /\ value \in Metrics
        /\ Writes("metric", value) /\ UNCHANGED <<step, rows, args>>
    BY <1>0, <1>2 DEF UpdateBestMetric, loopVars, Placed, Chain
  <2>2. ASSUME ~lost'
        PROVE  RecordsAll'
    <3>1. ~lost /\ front # Absent /\ front' = [front EXCEPT !["metric"] = value]
      BY <1>0, <2>1, <2>2, WrittenOrLost
    <3>2. PICK i \in OkRows : IsBest(i) /\ Read.commit = rows[i].commit /\ value = rows[i].value
      BY <1>0, <2>1, <3>1 DEF Recorded
    <3>3. front \in Fronts /\ Read = front
      BY <1>0, <3>1 DEF Read
    <3>4. front' # Absent /\ BestIn(front') = [commit |-> rows[i].commit, metric |-> rows[i].value]
      BY <2>1, <3>1, <3>2, <3>3, AbsentAssumption DEF Fronts, BestIn
    <3>5. IsBest(i)' /\ Names(Read, i)'
      BY <2>1, <3>2, <3>4, RowsKept DEF Read, Names, BestIn
    <3> QED  BY <3>5 DEF RecordsAll, RecordsBest, IsBest, IsBestOf
  <2> QED  BY <1>0, <2>1, <2>2, AtRest
<1> QED  BY <1>1, <1>2

LEMMA UpdateKeepsBest ==
  ASSUME BestInv, TypeOK', Update
  PROVE  BestInv'
<1>0. TypeOK /\ Placed /\ Labelled /\ RowsAreOrdered /\ (~lost => Measured /\ Recorded)
  BY DEF BestInv
<1>1. ASSUME ~lost, pc = "best"
      PROVE  /\ NewValue = IF OkRows = {} THEN None ELSE rows[LastOk].value
             /\ OkRows # {} => LastOk \in OkRows /\ \A j \in OkRows : j <= LastOk
             /\ RecordsEarlier
  <2>1. ~Dictates /\ RecordsEarlier
    BY <1>0, <1>1 DEF Measured, Recorded
  <2> QED  BY <1>0, <1>1, <2>1, ValueOfLastOk
<1>2. CASE UpdateFails
  <2>1. /\ pc = "best" /\ pc' = "idle" /\ UNCHANGED <<step, rows, front>>
        /\ step = "experimentation"
    BY <1>0, <1>2 DEF UpdateFails, Returns, loopVars, record, Placed, Chain
  <2>2. ~lost' => ~lost /\ OkRows = {}
    <3>1. (NewValue \in {None, Text} /\ UNCHANGED faultVars) \/ Fault(TRUE)
      BY <1>2, Zenon DEF UpdateFails
    <3>2. ~lost' => ~lost /\ NewValue \in {None, Text}
      BY <1>0, <3>1, FaultIsKept DEF TypeOK, faultVars
    <3>3. \A i \in OkRows : rows[i].value \notin {None, Text}
      BY <1>0, RowTypes, OptimizeAssumption DEF ValidSetup
    <3> QED  BY <1>1, <2>1, <3>2, <3>3
  <2>3. ~lost' => RecordsAll
    BY <1>1, <2>1, <2>2 DEF RecordsEarlier, RecordsAll, RecordsBest
  <2> QED  BY <2>1, <2>3, StillRecorded, AtRest
<1>3. CASE UpdateKeeps
  <2>1. /\ pc = "best" /\ pc' = "check" /\ UNCHANGED <<step, rows, front, lost, args>>
        /\ step = "experimentation"
        /\ NewValue = NaN \/ (NewValue \in Metrics /\ ~Improves)
    BY <1>0, <1>3 DEF UpdateKeeps, Goes, loopVars, record, history, faultVars, Placed, Chain
  <2>2. ASSUME ~lost  PROVE RecordsAll
    <3>1. OkRows # {} /\ NewValue # NaN
      BY <1>0, <1>1, <2>1, <2>2, RowTypes, OptimizeAssumption DEF ValidSetup
    <3>2. Read.metric # None /\ ~Better(rows[LastOk].value, Read.metric)
      BY <1>1, <2>1, <2>2, <3>1 DEF Improves
    <3> QED  BY <1>0, <1>1, <2>1, <2>2, <3>1, <3>2, EarlierBestStays
  <2> QED  BY <2>1, <2>2, StillRecorded, AtRest
<1> QED  BY <1>2, <1>3, UpdateBestKeepsBest DEF Update

LEMMA CheckKeepsBest ==
  ASSUME BestInv, TypeOK', Check
  PROVE  BestInv'
<1>0. TypeOK /\ Placed /\ RowsAreOrdered /\ (~lost => Recorded)
  BY DEF BestInv
<1>1. CASE CheckPasses \/ BatchPasses \/ BatchAsks
  <2>1. /\ pc \in {"check", "batch"} /\ pc' \in {"batch", "move", "idle"} /\ UNCHANGED <<step, rows, front, lost>>
        /\ step = "experimentation"
    BY <1>0, <1>1, PlaceNames
       DEF CheckPasses, BatchPasses, BatchAsks, Goes, Returns, loopVars, record, history, faultVars, Placed, Chain
  <2>2. ~lost => RecordsAll
    BY <1>0, <2>1 DEF Recorded
  <2> QED  BY <2>1, <2>2, StillRecorded, AtRest
<1>2. CASE CheckTerminates
  <2>1. /\ pc = "check" /\ pc' \in {"batch", "move"} /\ UNCHANGED <<step, front>> /\ step = "experimentation"
        /\ rows' = rows \/ rows' = Append(rows, Summary)
    BY <1>0, <1>2, PlaceNames, Zenon DEF CheckTerminates, loopVars, Placed, Chain
  <2>2. ~lost' => ~lost
    BY <1>0, <1>2, FaultIsKept DEF CheckTerminates, faultVars, TypeOK
  <2>3. ~lost => RecordsAll
    BY <1>0, <2>1 DEF Recorded
  <2>4. CASE rows' = rows
    BY <2>1, <2>2, <2>3, <2>4, StillRecorded, AtRest
  <2>5. CASE rows' = Append(rows, Summary)
    <3>1. RowsAreOrdered' /\ (RecordsAll => RecordsAll')
      BY <1>0, <2>1, <2>5, SummaryChangesNothing
    <3>2. Placed' /\ Labelled'
      BY <2>1 DEF Placed, Chain, Restarting, Squashing, Labelled
    <3>3. ~lost' => Measured' /\ Recorded' /\ Prepared'
      BY <2>1, <2>2, <2>3, <3>1 DEF Measured, Recorded, Prepared, Restarting, Squashing
    <3> QED  BY <2>1, <3>1, <3>2, <3>3 DEF BestInv
  <2> QED  BY <2>1, <2>4, <2>5
<1> QED  BY <1>1, <1>2 DEF Check

LEMMA MoveKeepsBest ==
  ASSUME BestInv, TypeOK', Move \/ Goto \/ CaptureBaseline \/ Advance
  PROVE  BestInv'
<1>0. TypeOK /\ Placed /\ (~lost => Recorded)
  BY DEF BestInv
<1>1. /\ pc \in {"idle", "move"} /\ pc' \in {"idle", "log"} /\ UNCHANGED rows
      /\ step # "done" /\ step' # "done" /\ BestIn(Read)' = BestIn(Read)
      /\ pc' # "idle" => step' = "experimentation"
  <2>1. CASE Move
    BY <1>0, <2>1
       DEF Move, LoopIteration, LeaveLoop, Enters, Returns, record, Placed, Chain, Read, Blank, BestIn
  <2>2. CASE Goto
    <3>1. (Enters("experimentation") \/ Enters("baseline")) /\ step \in {"experimentation", "synthesis"}
      BY <2>2, Zenon DEF Goto
    <3> QED  BY <2>2, <3>1 DEF Goto, Enters, record, Read, Blank, BestIn
  <2>3. CASE CaptureBaseline
    <3>1. front' = front \/ (front # Absent /\ \E x \in {head, None} : front' = [front EXCEPT !.base = x])
      BY <2>3 DEF CaptureBaseline
    <3>2. front \in Fronts \cup {Absent} /\ front' \in Fronts \cup {Absent} /\ head \in Commits
      BY <1>0 DEF TypeOK
    <3>3. BestIn(Read)' = BestIn(Read)
      <4>1. CASE front' = front
        BY <4>1 DEF Read, Blank, BestIn
      <4>2. ASSUME front # Absent, NEW x \in {head, None}, front' = [front EXCEPT !.base = x]
            PROVE  BestIn(Read)' = BestIn(Read)
        <5>1. front' \in Fronts /\ front'.commit = front.commit /\ front'.metric = front.metric
          BY <3>2, <4>2 DEF Fronts
        <5> QED  BY <3>2, <4>2, <5>1, AbsentAssumption DEF Read, BestIn
      <4> QED  BY <3>1, <4>1, <4>2
    <3>4. pc = "idle" /\ pc' = "idle" /\ rows' = rows /\ step = "baseline" /\ step' \in {"experimentation", step}
      BY <2>3 DEF CaptureBaseline, callVars
    <3> QED  BY <3>3, <3>4
  <2>4. CASE Advance
    BY <2>4 DEF Advance, record, loopVars, Read, Blank, BestIn
  <2> QED  BY <2>1, <2>2, <2>3, <2>4
<1>2. ~lost' => ~lost
  <2>1. CASE Move
    BY <2>1 DEF Move, LoopIteration, LeaveLoop, history, faultVars
  <2>2. CASE Goto
    <3>1. lost' = lost \/ lost' = (lost \/ rows # <<>>)
      BY <2>2, Zenon DEF Goto
    <3> QED  BY <3>1
  <2>3. CASE CaptureBaseline \/ Advance
    <3>1. Fault(FALSE) \/ UNCHANGED faultVars
      BY <2>3, Zenon DEF CaptureBaseline, Advance
    <3> QED  BY <1>0, <3>1, FaultIsKept DEF faultVars, TypeOK
  <2> QED  BY <2>1, <2>2, <2>3
<1>3. ~lost => RecordsAll
  BY <1>0, <1>1 DEF Recorded
<1> QED  BY <1>1, <1>2, <1>3, StillRecorded, AtRest

(* A field is cleared unless its write failed.                             *)
LEMMA ClearedOrLost ==
  ASSUME TypeOK, NEW field \in {"commit", "metric"}, Clears(field), ~lost'
  PROVE  /\ ~lost /\ Read'[field] = None
         /\ \A other \in {"commit", "metric"} : Read[other] = None => Read'[other] = None
<1>1. lost \in BOOLEAN /\ front \in Fronts \cup {Absent}
  BY DEF TypeOK
<1>2. ~lost /\ front' = (IF front = Absent THEN Absent ELSE [front EXCEPT ![field] = None])
  BY <1>1, FaultIsKept DEF Clears, faultVars
<1>3. CASE front = Absent
  BY <1>2, <1>3 DEF Read, Blank
<1>4. CASE front # Absent
  <2>1. front' \in Fronts /\ front' = [front EXCEPT ![field] = None]
    BY <1>1, <1>2, <1>4 DEF Fronts
  <2>2. Read = front /\ Read' = front'
    BY <1>4, <2>1, AbsentAssumption DEF Read
  <2> QED  BY <1>1, <1>2, <1>4, <2>1, <2>2 DEF Fronts
<1> QED  BY <1>3, <1>4

LEMMA ClearedIsRecorded ==
  ASSUME TypeOK, Recorded, pc = "restart"
  PROVE  RecordsAll
<1>1. rows = <<>> /\ Read.commit = None /\ Read.metric = None /\ Read \in Fronts
  BY RowTypes DEF Recorded, Restarting
<1>2. BestIn(Read) = BestIn(Blank) /\ OkRows = {}
  BY <1>1 DEF BestIn, Blank, OkRows
<1> QED  BY <1>2 DEF RecordsAll, RecordsBest

LEMMA RestartKeepsBest ==
  ASSUME BestInv, TypeOK', Restart
  PROVE  BestInv'
<1>0. TypeOK /\ Placed /\ RowsAreOrdered /\ (~lost => Recorded)
  BY DEF BestInv
<1>1. CASE RestartArchives
  <2>1. pc' = "clear" /\ step = "experimentation" /\ step' = step
    BY <1>1 DEF RestartArchives, Goes, loopVars
  <2>2. (rows' = <<>> /\ lost' = FALSE) \/ (rows' = rows /\ Fault(TRUE))
    BY <1>1, Zenon DEF RestartArchives
  <2>3. Placed' /\ Labelled'
    BY <2>1 DEF Placed, Chain, Restarting, Squashing, Labelled
  <2>4. RowsAreOrdered'
    <3>1. CASE rows' = rows
      BY <1>0, <3>1, RowsKept
    <3>2. CASE rows' = <<>>
      BY <3>2 DEF RowsAreOrdered, OkRows
    <3> QED  BY <2>2, <3>1, <3>2
  <2>5. ~lost' => rows' = <<>>
    BY <1>0, <2>2, FaultIsKept DEF TypeOK
  <2>6. ~lost' => Measured' /\ Recorded' /\ Prepared'
    BY <2>1, <2>5 DEF Measured, Recorded, Prepared, Squashing
  <2> QED  BY <2>1, <2>3, <2>4, <2>6 DEF BestInv
<1>2. CASE RestartClearsCommit \/ RestartClearsMetric
  <2>1. /\ \/ pc = "clear" /\ pc' = "clear-metric" /\ Clears("commit")
           \/ pc = "clear-metric" /\ pc' = "restart" /\ Clears("metric")
        /\ UNCHANGED <<step, rows>> /\ step = "experimentation"
    BY <1>0, <1>2 DEF RestartClearsCommit, RestartClearsMetric, Goes, loopVars, Placed, Restarting
  <2>2. Placed' /\ Labelled' /\ RowsAreOrdered'
    BY <1>0, <2>1, RowsKept DEF Placed, Chain, Restarting, Squashing, Labelled
  <2>3. ASSUME ~lost'
        PROVE  Recorded'
    <3>1. CASE pc = "clear"
      <4>1. ~lost /\ Read'["commit"] = None
        BY <1>0, <2>1, <2>3, <3>1, ClearedOrLost
      <4> QED  BY <1>0, <2>1, <3>1, <4>1 DEF Recorded, Restarting
    <3>2. CASE pc = "clear-metric"
      <4>1. ~lost /\ Read'["metric"] = None /\ (Read["commit"] = None => Read'["commit"] = None)
        BY <1>0, <2>1, <2>3, <3>2, ClearedOrLost
      <4> QED  BY <1>0, <2>1, <3>2, <4>1 DEF Recorded, Restarting
    <3> QED  BY <2>1, <3>1, <3>2
  <2>4. ~lost' => Measured' /\ Prepared'
    BY <2>1 DEF Measured, Prepared, Squashing
  <2> QED  BY <2>1, <2>2, <2>3, <2>4 DEF BestInv
<1>3. CASE RestartBegins
  <2>1. /\ pc = "restart" /\ pc' = "idle" /\ UNCHANGED <<step, rows, front, lost>> /\ step = "experimentation"
    BY <1>0, <1>3 DEF RestartBegins, Returns, record, history, faultVars, Placed, Restarting
  <2>2. ~lost => RecordsAll
    BY <1>0, <2>1, ClearedIsRecorded
  <2> QED  BY <2>1, <2>2, StillRecorded, AtRest
<1> QED  BY <1>1, <1>2, <1>3 DEF Restart

(* If the front matter is back as the squash found it, it is right again.  *)
LEMMA PlanIsRecorded ==
  ASSUME UNCHANGED rows, BestIn(Read)' = BestIn(plan),
         \E i \in OkRows : IsBest(i) /\ Names(plan, i)
  PROVE  RecordsAll'
<1>1. PICK i \in OkRows : IsBest(i) /\ Names(plan, i)
  OBVIOUS
<1>2. IsBest(i)' /\ Names(Read, i)'
  BY <1>1, RowsKept DEF Names, BestIn
<1> QED  BY <1>2 DEF RecordsAll, RecordsBest, IsBest, IsBestOf

LEMMA SquashKeepsBest ==
  ASSUME BestInv, TypeOK', Complete \/ ResetHard \/ ResetSoft \/ SquashCommit
  PROVE  BestInv'
<1>0. TypeOK /\ Placed /\ RowsAreOrdered /\ (~lost => Recorded /\ Prepared)
  BY DEF BestInv
<1>1. /\ step = "synthesis" /\ UNCHANGED <<step, rows, lost>>
      /\ pc' \in {"hard", "soft", "commit", "hand-off"}
  BY <1>0, PlaceNames
     DEF Complete, ResetHard, ResetSoft, SquashCommit, Goes, loopVars, record, history, faultVars, Placed
<1>2. RowsAreOrdered' /\ \A i : Names(plan, i) /\ plan' = plan => Names(plan, i)'
  BY <1>0, <1>1, RowsKept DEF Names, BestIn
<1>3. CASE Complete
  <2>1. /\ pc = "idle" /\ pc' = "hard" /\ plan' = Read /\ Read.commit # None /\ Read.base # None
        /\ sha' = head
    BY <1>3 DEF Complete
  <2>2. Read \in Fronts /\ head \in Commits
    BY <1>0, RowTypes DEF TypeOK
  <2>3. Placed' /\ Labelled'
    BY <1>1, <2>1, <2>2 DEF Placed, Chain, Restarting, Squashing, Fronts, Labelled
  <2>4. ASSUME ~lost'  PROVE Prepared'
    <3>1. RecordsAll
      BY <1>0, <1>1, <2>1, <2>4 DEF Recorded
    <3>2. PICK i \in OkRows : IsBest(i) /\ Names(Read, i)
      BY <2>1, <3>1 DEF RecordsAll, RecordsBest, IsBest, IsBestOf, Blank, BestIn
    <3>3. IsBest(i)' /\ Names(plan, i)' /\ OkRows' = OkRows
      BY <1>1, <2>1, <3>2, RowsKept DEF Names, BestIn
    <3> QED  BY <1>1, <2>1, <3>3 DEF Prepared
  <2>5. Measured' /\ Recorded'
    BY <1>1, <2>1 DEF Measured, Recorded, Restarting
  <2> QED  BY <1>2, <2>1, <2>3, <2>4, <2>5 DEF BestInv
<1>4. CASE ResetHard \/ ResetSoft \/ SquashCommit
  <2>1. /\ pc \in {"hard", "soft", "commit"} /\ UNCHANGED <<plan, sha>>
        /\ pc = "hard" => pc' = "soft" /\ tree' = plan.commit
        /\ pc = "soft" => pc' = "commit" /\ tree' = tree
        /\ pc = "commit" => pc' = "hand-off" /\ tree' = tree /\ head' = tree /\ squashed'
    BY <1>4 DEF ResetHard, ResetSoft, SquashCommit, Goes
  <2>2. Placed' /\ Labelled'
    BY <1>0, <1>1, <2>1 DEF Placed, Chain, Restarting, Squashing, Labelled
  <2>3. ASSUME ~lost'  PROVE Prepared'
    <3>1. Prepared /\ Squashing
      BY <1>0, <1>1, <2>1, <2>3, PlaceNames
    <3>2. PICK i \in OkRows : IsBest(i) /\ Names(plan, i)
      BY <3>1 DEF Prepared
    <3>3. IsBest(i)' /\ Names(plan, i)' /\ i \in OkRows'
      BY <1>1, <1>2, <2>1, <3>2, RowsKept
    <3> QED  BY <1>1, <2>1, <3>1, <3>3 DEF Prepared
  <2>4. Measured' /\ Recorded'
    BY <1>1, <2>1 DEF Measured, Recorded, Restarting
  <2> QED  BY <1>1, <1>2, <2>2, <2>3, <2>4 DEF BestInv
<1> QED  BY <1>3, <1>4

LEMMA BestRowIsUnbeaten ==
  ASSUME NEW i \in OkRows, IsBest(i)
  PROVE  IsBestRow(rows[i])
<1>1. ASSUME NEW j \in DOMAIN rows, IsOk(rows[j])
      PROVE  ~Better(rows[j].value, rows[i].value)
  BY <1>1 DEF IsBest, IsBestOf, Unbeaten, OkRows
<1>2. \A other \in Range(rows) : IsOk(other) => ~Better(other.value, rows[i].value)
  BY <1>1 DEF Range
<1> QED  BY <1>2 DEF IsBestRow, IsBest, IsBestOf, OkRows, IsOk

LEMMA HandOffKeepsBest ==
  ASSUME BestInv, TypeOK', HandOff
  PROVE  BestInv'
<1>0. TypeOK /\ RowsAreOrdered /\ (~lost => Prepared)
  BY DEF BestInv
<1>1. /\ pc = "hand-off" /\ pc' = "idle" /\ step' = "done"
      /\ UNCHANGED <<rows, head, tree, squashed, lost>>
  BY DEF HandOff, Returns, record, gitVars, history, faultVars
<1>2. Placed' /\ Labelled' /\ RowsAreOrdered'
  BY <1>0, <1>1, RowsKept DEF Placed, Chain, Restarting, Squashing, Labelled
<1>3. ASSUME ~lost'  PROVE ShipsTheBest'
  <2>1. PICK i \in OkRows : IsBest(i) /\ Names(plan, i)
    BY <1>0, <1>1, <1>3, PlaceNames DEF Prepared
  <2>2. squashed /\ head = tree /\ tree = plan.commit /\ plan.commit = rows[i].commit
    BY <1>0, <1>1, <1>3, <2>1 DEF Prepared, Names, BestIn
  <2>3. i \in DOMAIN rows /\ rows[i] \in Range(rows)
    BY <2>1 DEF OkRows, Range
  <2>4. IsBestRow(rows[i])
    BY <2>1, BestRowIsUnbeaten
  <2>5. IsBestRow(rows[i])'
    BY <1>1, <2>4 DEF IsBestRow
  <2> QED  BY <1>1, <2>2, <2>3, <2>5 DEF ShipsTheBest
<1>4. ~lost' => Measured' /\ Recorded' /\ Prepared'
  BY <1>1, <1>3 DEF Measured, Recorded, Prepared, Restarting, Squashing
<1> QED  BY <1>1, <1>2, <1>4 DEF BestInv

LEMMA ShipKeepsBest ==
  ASSUME BestInv, TypeOK', Ship \/ Crash
  PROVE  BestInv'
<1>0. TypeOK /\ Placed /\ (~lost => Recorded /\ Prepared)
  BY DEF BestInv
<1>1. CASE Rollback
  <2>1. pc \in {"hard", "soft", "commit"} /\ pc' = "idle" /\ UNCHANGED <<step, rows>> /\ step = "synthesis"
    BY <1>0, <1>1, PlaceNames DEF Rollback, Returns, loopVars, Placed
  <2>2. ~lost' => ~lost /\ BestIn(Read)' = BestIn(plan)
    <3>1. Fault(BestIn(Read') # BestIn(plan))
      BY <1>1 DEF Rollback
    <3>2. ~lost' => ~lost /\ BestIn(Read') = BestIn(plan)
      BY <1>0, <3>1, FaultIsKept DEF TypeOK
    <3> QED  BY <3>2 DEF BestIn
  <2>3. ~lost' => RecordsAll'
    BY <1>0, <2>1, <2>2, PlaceNames, PlanIsRecorded DEF Prepared, TypeOK
  <2> QED  BY <2>1, <2>3, AtRest
<1>2. CASE HandOffFails
  <2>1. pc = "hand-off" /\ pc' = "idle" /\ UNCHANGED <<step, rows, front>> /\ step = "synthesis"
    BY <1>0, <1>2, PlaceNames DEF HandOffFails, Returns, loopVars, record, Placed
  <2>2. ~lost' => ~lost /\ BestIn(Read)' = BestIn(plan)
    <3>1. Fault(BestIn(Read) # BestIn(plan))
      BY <1>2 DEF HandOffFails
    <3>2. ~lost' => ~lost /\ BestIn(Read) = BestIn(plan)
      BY <1>0, <3>1, FaultIsKept DEF TypeOK
    <3> QED  BY <2>1, <3>2 DEF BestIn, Read, Blank
  <2>3. ~lost' => RecordsAll'
    BY <1>0, <2>1, <2>2, PlaceNames, PlanIsRecorded DEF Prepared, TypeOK
  <2> QED  BY <2>1, <2>3, AtRest
<1>3. CASE Crash
  <2>1. pc # "idle" /\ pc' = "idle" /\ UNCHANGED <<step, rows, front>> /\ step # "done"
    BY <1>3, DoneIsIdle DEF Crash, loopVars, record
  <2>2. ~lost' => /\ ~lost /\ pc \notin {"best", "metric", "clear", "clear-metric"}
                  /\ Squashing => BestIn(Read)' = BestIn(plan)
    <3>1. ~lost' => /\ ~lost /\ pc \notin {"best", "metric", "clear", "clear-metric"}
                    /\ Squashing => BestIn(Read) = BestIn(plan)
      BY <1>0, <1>3, FaultIsKept, Zenon DEF Crash, TypeOK
    <3> QED  BY <2>1, <3>1 DEF BestIn, Read, Blank
  <2>3. ASSUME ~lost'  PROVE RecordsAll'
    <3>1. CASE Squashing
      BY <1>0, <2>1, <2>2, <2>3, <3>1, PlanIsRecorded DEF Prepared, TypeOK
    <3>2. CASE pc = "restart"
      BY <1>0, <2>1, <2>2, <2>3, <3>2, ClearedIsRecorded, StillRecorded
    <3>3. CASE pc \in {"log", "measure", "append", "check", "batch", "move"}
      BY <1>0, <2>1, <2>2, <2>3, <3>3, StillRecorded DEF Recorded
    <3> QED  BY <1>0, <2>1, <2>2, <2>3, <3>1, <3>2, <3>3, PlaceNames DEF TypeOK
  <2> QED  BY <2>1, <2>3, AtRest
<1> QED  BY <1>1, <1>2, <1>3, SquashKeepsBest, HandOffKeepsBest DEF Ship

LEMMA BestInvHolds ==
  ASSUME Init
  PROVE  BestInv
<1>1. rows = <<>> /\ OkRows = {} /\ Read = Blank /\ pc = "idle" /\ step = "baseline"
  BY AbsentAssumption DEF Init, OkRows, Read, Fronts, Blank
<1>2. TypeOK
  <2>1. Blank \in Fronts /\ 0 \in Commits /\ <<>> \in Seq(Rows)
    BY OptimizeAssumption DEF Blank, Fronts, Commits
  <2>2. saved \in [Commits -> Fronts \cup {Absent}]
    BY <2>1 DEF Init
  <2> QED  BY <2>1, <2>2, HypothesisIsAnArg DEF Init, TypeOK, Steps, Calls
<1>3. Placed /\ Labelled /\ RowsAreOrdered
  BY <1>1 DEF Placed, Labelled, RowsAreOrdered, Chain, Restarting, Squashing
<1>4. Measured /\ Recorded /\ Prepared
  BY <1>1 DEF Measured, Recorded, Prepared, Restarting, Squashing, RecordsAll, RecordsBest
<1> QED  BY <1>2, <1>3, <1>4 DEF BestInv, Init

LEMMA BestInvKept ==
  ASSUME BestInv, [Next]_vars
  PROVE  BestInv'
<1>1. TypeOK'
  BY TypesKept
<1>2. CASE UNCHANGED vars
  <2>1. UNCHANGED <<step, rows, front, head, tree, squashed, dirty, pc, args, sha, value, plan, lost>>
    BY <1>2 DEF vars, loopVars, record, gitVars, callVars, history, faultVars
  <2>2. Placed' /\ Labelled' /\ RowsAreOrdered'
    BY <2>1, RowsKept DEF BestInv, Placed, Labelled, Squashing
  <2>3. OkRows' = OkRows /\ (RecordsAll' <=> RecordsAll) /\ (RecordsEarlier' <=> RecordsEarlier)
        /\ Read' = Read /\ \A i : (IsBest(i)' <=> IsBest(i)) /\ (Names(plan, i)' <=> Names(plan, i))
    BY <2>1, RowsKept, StillRecorded DEF Read, Names, BestIn, Blank
  <2>4. Measured' <=> Measured
    BY <2>1, <2>3 DEF Measured, Dictates
  <2>5. Recorded' <=> Recorded
    <3>1. (\E i \in OkRows :
             IsBest(i) /\ front # Absent /\ Read.commit = rows[i].commit /\ value = rows[i].value)' <=>
          \E i \in OkRows :
            IsBest(i) /\ front # Absent /\ Read.commit = rows[i].commit /\ value = rows[i].value
      BY <2>1, <2>3
    <3> QED  BY <2>1, <2>3, <3>1 DEF Recorded
  <2>6. Prepared' <=> Prepared
    <3>1. ShipsTheBest' <=> ShipsTheBest
      BY <2>1 DEF ShipsTheBest, IsBestRow
    <3>2. (\E i \in OkRows : IsBest(i) /\ Names(plan, i))' <=> \E i \in OkRows : IsBest(i) /\ Names(plan, i)
      BY <2>3
    <3> QED  BY <2>1, <3>1, <3>2 DEF Prepared, Squashing
  <2> QED  BY <1>1, <2>1, <2>2, <2>4, <2>5, <2>6 DEF BestInv
<1> QED
  BY <1>1, <1>2, EnvironmentKeepsBest, LogKeepsBest, UpdateKeepsBest, CheckKeepsBest, MoveKeepsBest,
     RestartKeepsBest, ShipKeepsBest DEF Next

LEMMA BestInvariant == Spec => []BestInv
<1>1. Init => BestInv
  BY BestInvHolds
<1>2. BestInv /\ [Next]_vars => BestInv'
  BY BestInvKept
<1> QED  BY <1>1, <1>2, PTL DEF Spec

(* The types of the optimize protocols' state.                             *)
THEOREM TypesHold == Spec => []TypeOK
<1>1. BestInv => TypeOK
  BY DEF BestInv
<1> QED  BY <1>1, BestInvariant, PTL

LEMMA RecordedIsBest ==
  ASSUME BestInv
  PROVE  BestIsBest
<1> SUFFICES ASSUME ~lost, step # "done",
                    pc \in {"idle", "log", "measure", "append", "check", "batch", "move"}
             PROVE  IF \E row \in Range(rows) : IsOk(row)
                      THEN \E row \in Range(rows) :
                             IsBestRow(row) /\ BestIn(Read) = [commit |-> row.commit, metric |-> row.value]
                      ELSE BestIn(Read) = BestIn(Blank)
  BY Zenon DEF BestIsBest
<1>1. RecordsAll
  BY DEF BestInv, Recorded
<1>2. CASE OkRows = {}
  <2>1. BestIn(Read) = BestIn(Blank) /\ ~\E row \in Range(rows) : IsOk(row)
    BY <1>1, <1>2 DEF RecordsAll, RecordsBest, OkRows, Range
  <2> QED  BY <2>1
<1>3. CASE OkRows # {}
  <2>1. PICK i \in OkRows : IsBest(i) /\ Names(Read, i)
    BY <1>1, <1>3 DEF RecordsAll, RecordsBest, IsBest, IsBestOf, OkRows
  <2>2. rows[i] \in Range(rows) /\ IsOk(rows[i])
    BY <2>1 DEF OkRows, Range
  <2>3. IsBestRow(rows[i])
    BY <2>1, BestRowIsUnbeaten
  <2> QED  BY <2>1, <2>2, <2>3 DEF Names
<1> QED  BY <1>2, <1>3

(* Between the calls the front matter names a best row of the run, for any *)
(* metric, any number of commits and rows, and whatever is tried again,    *)
(* with the exceptions BestIsBest names (update_best_commit,               *)
(* _handle_loop_restart, _squash_to_best).                                 *)
THEOREM BestIsAlwaysBest == Spec => []BestIsBest
<1>1. BestInv => BestIsBest
  BY RecordedIsBest
<1> QED  BY <1>1, BestInvariant, PTL

(* What completion ships is the tree of a best row (_completion_optimize). *)
THEOREM TheBestIsShipped == Spec => []ShipsTheBest
<1>1. BestInv => ShipsTheBest
  <2>1. BestInv /\ step = "done" /\ ~lost => ShipsTheBest
    BY DEF BestInv, Prepared
  <2> QED  BY <2>1 DEF ShipsTheBest
<1> QED  BY <1>1, BestInvariant, PTL

-------------------------------------------------------------------------------
(* The end of the loop.                                                    *)

(* Once check_termination has answered, its reason lasts.                  *)
Reason == CapReached \/ late \/ (\E row \in Range(rows) : Meets(row)) \/ Halts \/ EndsAtOnce
EndsForAReason == ends => pc \in {"batch", "move"} /\ (Reason \/ ~args.hypothesis)

LEMMA BestValueIsBest ==
  ASSUME TypeOK, RowsAreOrdered, ShownOk = OkRows, OkRows # {}
  PROVE  \E b \in OkRows : BestValue = rows[b].value /\ \A j \in OkRows : ~Better(rows[j].value, BestValue)
<1>1. PICK i \in OkRows : \A j \in OkRows : ~Better(rows[j].value, rows[i].value)
  BY RowTypes DEF RowsAreOrdered, Unbeaten
<1>2. \E v \in {rows[k].value : k \in OkRows} : \A j \in OkRows : ~Better(rows[j].value, v)
  BY <1>1
<1>3. /\ BestValue \in {rows[k].value : k \in OkRows}
      /\ \A j \in OkRows : ~Better(rows[j].value, BestValue)
  BY <1>2 DEF BestValue
<1> QED  BY <1>3

LEMMA OkRowsAreFinite ==
  ASSUME TypeOK
  PROVE  IsFiniteSet(OkRows) /\ Cardinality(OkRows) \in Nat
<1>1. IsFiniteSet(1 .. Len(rows))
  BY RowTypes, FS_Interval
<1>2. OkRows \subseteq 1 .. Len(rows)
  BY RowTypes
<1> QED  BY <1>1, <1>2, FS_Subset, FS_CardinalityType

(* The best of the rows is none of the last ones, which are all worse.     *)
LEMMA RegressionIsHalt ==
  ASSUME TypeOK, RowsAreOrdered, ShownOk = OkRows, OkRows # {}, Regressed
  PROVE  Halts \/ EndsAtOnce
<1>0. RegressionHalt \in Int /\ RegressionHalt # None
  BY OptimizeAssumption DEF Regressed, ValidSetup
<1>1. PICK b \in OkRows : BestValue = rows[b].value /\ \A j \in OkRows : ~Better(rows[j].value, BestValue)
  BY BestValueIsBest
<1>2. \A j \in Recent : Better(rows[b].value, rows[j].value)
  BY <1>1 DEF Regressed
<1>3. b \notin Recent
  BY <1>1, <1>2
<1>4. CASE RegressionHalt < 0
  BY <1>0, <1>4 DEF EndsAtOnce
<1>5. RegressionHalt # 0
  <2>1. ASSUME RegressionHalt = 0  PROVE FALSE
    <3>1. {j \in OkRows : j < b} \subseteq OkRows
      OBVIOUS
    <3>2. Cardinality({j \in OkRows : j < b}) \in Nat
      BY <3>1, OkRowsAreFinite, FS_Subset, FS_CardinalityType
    <3>3. b \in Recent
      BY <2>1, <3>2 DEF Recent
    <3> QED  BY <1>3, <3>3
  <2> QED  BY <2>1
<1>6. CASE RegressionHalt > 0
  <2>1. Recent = Latest(RegressionHalt, OkRows)
    BY <1>6 DEF Recent
  <2>2. Cardinality(OkRows) \in Nat /\ Cardinality(OkRows) >= RegressionHalt
    BY OkRowsAreFinite DEF Regressed
  <2>3. Cardinality(OkRows) # RegressionHalt
    <3>1. {j \in OkRows : j > b} \subseteq OkRows \ {b}
      BY RowTypes
    <3>2. Cardinality({j \in OkRows : j > b}) <= Cardinality(OkRows \ {b})
      BY <3>1, OkRowsAreFinite, FS_Subset, FS_RemoveElement
    <3>3. Cardinality(OkRows \ {b}) = Cardinality(OkRows) - 1
      BY OkRowsAreFinite, FS_RemoveElement
    <3>4. Cardinality({j \in OkRows : j > b}) \in Nat
      BY <3>1, OkRowsAreFinite, FS_Subset, FS_CardinalityType
    <3> QED  BY <1>0, <1>3, <2>1, <2>2, <3>2, <3>3, <3>4 DEF Latest
  <2>4. Cardinality(OkRows) > RegressionHalt
    BY <1>0, <2>2, <2>3
  <2>5. b \in OkRows \ Latest(RegressionHalt, OkRows)
    BY <1>3, <2>1
  <2>6. \A j \in Latest(RegressionHalt, OkRows) : Better(rows[b].value, rows[j].value)
    BY <1>2, <2>1
  <2> QED  BY <1>0, <2>4, <2>5, <2>6 DEF Halts
<1> QED  BY <1>0, <1>4, <1>5, <1>6

LEMMA TerminatesForAReason ==
  ASSUME TypeOK, Labelled, RowsAreOrdered, pc = "check", Terminates
  PROVE  Reason \/ ~args.hypothesis
<1> SUFFICES ASSUME args.hypothesis  PROVE Reason
  OBVIOUS
<1>0. ShownOk = OkRows
  BY AllAreShown
<1>1. CASE CapReached \/ late
  BY <1>1 DEF Reason
<1>2. CASE OkRows # {} /\ Regressed
  BY <1>0, <1>2, RegressionIsHalt DEF Reason
<1>3. CASE OkRows # {} /\ TargetReached
  <2>1. PICK b \in OkRows : BestValue = rows[b].value
    BY <1>0, <1>3, BestValueIsBest
  <2>2. rows[b].value \in Metrics /\ Target \in Metrics /\ Target # None
    BY <1>3, <2>1, RowTypes, OptimizeAssumption DEF TargetReached, ValidSetup
  <2>3. ~Better(Target, rows[b].value)
    BY <1>3, <2>1 DEF TargetReached
  <2>4. Target = rows[b].value \/ Better(rows[b].value, Target)
    BY <2>2, <2>3, BetterIsAnOrder
  <2>5. Meets(rows[b]) /\ rows[b] \in Range(rows)
    BY <2>1, <2>2, <2>4 DEF Meets, OkRows, Range
  <2> QED  BY <2>5 DEF Reason
<1> QED  BY <1>0, <1>1, <1>2, <1>3 DEF Terminates

LEMMA ReasonLasts ==
  ASSUME Reason, iteration' = iteration, late => late', UNCHANGED rows
  PROVE  Reason'
<1>1. OkRows' = OkRows
  BY RowsKept
<1>2. Halts' <=> Halts
  BY <1>1 DEF Halts, Latest
<1> QED  BY <1>2 DEF Reason, CapReached, EndsAtOnce

LEMMA ReasonSummed ==
  ASSUME TypeOK, RowsAreOrdered, Reason, iteration' = iteration, late' = late, rows' = Append(rows, Summary)
  PROVE  Reason'
<1>1. Summary \in Rows /\ ~IsOk(Summary)
  BY DEF Summary, Rows, RowsOf, IsOk, TypeOK
<1>2. OkRows' = OkRows /\ OkRows \subseteq DOMAIN rows /\ \A i \in OkRows : rows'[i] = rows[i]
  BY <1>1, RowAppended, RowTypes
<1>3. \A n : Latest(n, OkRows)' = Latest(n, OkRows) /\ Latest(n, OkRows) \subseteq OkRows
  BY <1>2 DEF Latest
<1>4. Halts => Halts'
  BY <1>2, <1>3 DEF Halts
<1>5. ASSUME NEW row \in Range(rows), Meets(row)  PROVE \E other \in Range(rows)' : Meets(other)'
  <2>1. PICK i \in DOMAIN rows : rows[i] = row
    BY DEF Range
  <2>2. i \in OkRows' /\ rows'[i] = row
    BY <1>2, <1>5, <2>1 DEF OkRows, Meets
  <2> QED  BY <1>5, <2>2 DEF Meets, Range, OkRows
<1> QED  BY <1>4, <1>5 DEF Reason, CapReached, EndsAtOnce

LEMMA ReasonKept ==
  ASSUME BestInv, EndsForAReason, [Next]_vars
  PROVE  EndsForAReason'
<1>0. TypeOK /\ Labelled /\ RowsAreOrdered
  BY DEF BestInv
<1>1. CASE CheckTerminates
  <2>1. /\ Terminates /\ pc = "check" /\ pc' \in {"batch", "move"}
        /\ UNCHANGED <<iteration, late, args>>
    BY <1>1, PlaceNames DEF CheckTerminates, loopVars
  <2>2. Reason \/ ~args.hypothesis
    BY <1>0, <2>1, TerminatesForAReason
  <2>3. rows' = rows \/ rows' = Append(rows, Summary)
    BY <1>1, Zenon DEF CheckTerminates
  <2>4. Reason' \/ ~args.hypothesis
    BY <1>0, <2>1, <2>2, <2>3, ReasonLasts, ReasonSummed
  <2> QED  BY <2>1, <2>4 DEF EndsForAReason
<1>2. CASE CheckPasses \/ BatchPasses
  <2>1. pc' \in {"batch", "move"} /\ UNCHANGED <<iteration, rows, ends, late, args>>
    BY <1>2, PlaceNames DEF CheckPasses, BatchPasses, Goes, loopVars, record
  <2> QED  BY <2>1, ReasonLasts DEF EndsForAReason
<1>3. CASE Edit \/ Commit \/ TimePasses \/ UNCHANGED vars
  <2>1. UNCHANGED <<pc, iteration, rows, ends, args>> /\ (late => late')
    BY <1>3 DEF Edit, Commit, TimePasses, loopVars, record, callVars, vars
  <2> QED  BY <2>1, ReasonLasts DEF EndsForAReason
<1>4. CASE BatchAsks \/ Move \/ Crash
  <2>1. ends' = FALSE
    BY <1>4 DEF BatchAsks, Move, LoopIteration, LeaveLoop, Crash, Returns
  <2> QED  BY <2>1 DEF EndsForAReason
<1>5. CASE Rewind \/ CaptureBaseline \/ Advance \/ Goto \/ Log \/ Update \/ Restart \/ Ship
  <2>1. pc \notin {"batch", "move"} /\ (ends' = ends \/ ends' = FALSE)
    <3>1. CASE Rewind \/ CaptureBaseline \/ Advance \/ Goto
      BY <3>1 DEF Rewind, CaptureBaseline, Advance, Goto, callVars
    <3>2. CASE Log
      BY <3>2
         DEF Log, ChainSkips, LogRefuses, LogCaptures, LogSummary, MetricFails, RunMetric, AppendRow, AppendFails, Goes, Returns
    <3>3. CASE Update
      BY <3>3
         DEF Update, UpdateFails, UpdateKeeps, UpdateBestCommit, UpdateBestMetric, Goes, Returns
    <3>4. CASE Restart
      BY <3>4
         DEF Restart, RestartArchives, RestartClearsCommit, RestartClearsMetric, RestartBegins, Goes, Returns
    <3>5. CASE Ship
      BY <3>5
         DEF Ship, Complete, ResetHard, ResetSoft, SquashCommit, Rollback, HandOff, HandOffFails, Goes, Returns
    <3> QED  BY <1>5, <3>1, <3>2, <3>3, <3>4, <3>5
  <2> QED  BY <2>1 DEF EndsForAReason
<1> QED  BY <1>1, <1>2, <1>3, <1>4, <1>5 DEF Next, Environment, Check

LEMMA ReasonInvariant == Spec => []EndsForAReason
<1>1. Init => EndsForAReason
  BY DEF Init, EndsForAReason
<1>2. BestInv /\ EndsForAReason /\ [Next]_vars => EndsForAReason'
  BY ReasonKept
<1> QED  BY <1>1, <1>2, BestInvariant, PTL DEF Spec

LEMMA LeaveStep ==
  ASSUME BestInv, EndsForAReason, [Next]_vars, step = "experimentation", step' = "synthesis"
  PROVE  \/ call = "exit" \/ late
         \/ MaxIterations # None /\ Experiment > MaxIterations
         \/ \E row \in Range(rows) : Meets(row)
         \/ Halts \/ EndsAtOnce \/ ~args.hypothesis
<1>1. LeaveLoop
  <2>1. ~Environment /\ ~Advance /\ ~Goto /\ ~CaptureBaseline /\ ~Crash /\ ~UNCHANGED vars
    <3>1. ~Goto
      <4>1. Goto => Enters("experimentation") \/ Enters("baseline")
        BY Zenon DEF Goto
      <4> QED  BY <4>1 DEF Enters
    <3> QED
      BY <3>1 DEF Environment, Edit, Commit, Rewind, TimePasses, Advance, CaptureBaseline, Crash, vars, loopVars
  <2>2. ~Log /\ ~Update
    BY DEF Log, ChainSkips, LogRefuses, LogCaptures, LogSummary, MetricFails, RunMetric, AppendRow, AppendFails,
           Update, UpdateFails, UpdateKeeps, UpdateBestCommit, UpdateBestMetric, loopVars
  <2>3. ~Check /\ ~Restart /\ ~LoopIteration
    BY DEF Check, CheckPasses, CheckTerminates, BatchPasses, BatchAsks, LoopIteration, Restart, RestartArchives,
           RestartClearsCommit, RestartClearsMetric, RestartBegins, loopVars
  <2>4. ~Ship
    BY DEF Ship, Complete, ResetHard, ResetSoft, SquashCommit, Rollback, HandOff, HandOffFails, loopVars
  <2> QED  BY <2>1, <2>2, <2>3, <2>4 DEF Next, Move
<1>2. call = "exit" \/ Reason \/ ~args.hypothesis
  BY <1>1 DEF LeaveLoop, EndsForAReason
<1>3. CapReached => MaxIterations # None /\ Experiment > MaxIterations
  BY OptimizeAssumption DEF CapReached, Experiment, ValidSetup, BestInv, TypeOK
<1> QED  BY <1>2, <1>3 DEF Reason

(* The loop is left by request or for a reason that the rows, the count or *)
(* the clock still bear out (check_termination, advance_step).             *)
THEOREM AlwaysLeavesForAReason == Spec => LeavesForAReason
<1>1. BestInv /\ EndsForAReason /\ [Next]_vars =>
        [step = "experimentation" /\ step' = "synthesis" =>
           \/ call = "exit" \/ late
           \/ MaxIterations # None /\ Experiment > MaxIterations
           \/ \E row \in Range(rows) : Meets(row)
           \/ Halts \/ EndsAtOnce \/ ~args.hypothesis]_vars
  BY LeaveStep
<1> QED  BY <1>1, BestInvariant, ReasonInvariant, PTL DEF Spec, LeavesForAReason
===============================================================================
