--------------------------- MODULE StateFilesProofs ---------------------------
(***************************************************************************)
(* Proofs about StateFiles, for any set of processes, tasks and protocols  *)
(* and any number of calls.                                                *)
(***************************************************************************)
EXTENDS StateFiles, TLAPS

USE RecordAssumption, StateFilesAssumption

Past == {"read", "write", "unlink", "fill", "release"}   \* past the lock

(* A writer past the lock holds it, and what it has read is what the file  *)
(* still holds.                                                            *)
WriterHoldsLock ==
  \A p \in Procs : pc[p] \in Past /\ IsWriter(p) => lock = p
ReadIsFresh ==
  \A p \in Procs : pc[p] = "write" /\ IsWriter(p) => seenState[p] = taskFile
LEMMA ApplyType ==
  ASSUME NEW c \in WriterCalls, NEW s \in TaskState
  PROVE  Apply(c, s) \in TaskState
BY DEF WriterCalls, TaskState, Apply

LEMMA NullType == NullState \in TaskState
BY DEF NullState, TaskState

LEMMA InitType ==
  ASSUME Init PROVE TypeOK
<1>1. disturbed \in BOOLEAN
  BY Zenon DEF Init
<1>2. QED
  BY <1>1, NullType DEF Init, TypeOK, Labels, Calls

(* Every variable keeps its type.                                          *)
THEOREM Typing == Spec => []TypeOK
<1>1. Init => TypeOK
  BY InitType
<1>2. TypeOK /\ [Next]_vars => TypeOK'
  <2> SUFFICES ASSUME TypeOK, [Next]_vars PROVE TypeOK'
    OBVIOUS
  <2> USE DEF TypeOK, Labels, files, reads, Goto, Free
  <2>1. ASSUME NEW p \in Procs, Begin(p) PROVE TypeOK'
    BY <2>1 DEF Begin
  <2>2. ASSUME NEW p \in Procs, Acquire(p) PROVE TypeOK'
    BY <2>2 DEF Acquire
  <2>3. ASSUME NEW p \in Procs, AcquireFails(p) PROVE TypeOK'
    BY <2>3 DEF AcquireFails
  <2>4. ASSUME NEW p \in Procs, ReadState(p) PROVE TypeOK'
    BY <2>4, NullType DEF ReadState
  <2>5. ASSUME NEW p \in Procs, ReadCounter(p) PROVE TypeOK'
    <3>1. disturbed' \in BOOLEAN
      BY <2>5, Zenon DEF ReadCounter, TypeOK
    <3>2. QED
      BY <2>5, <3>1 DEF ReadCounter
  <2>6. ASSUME NEW p \in Procs, ReplaceState(p) PROVE TypeOK'
    <3>1. Apply(call[p], seenState[p]) \in TaskState
      BY <2>6, ApplyType DEF ReplaceState, IsWriter
    <3>2. QED
      BY <2>6, <3>1 DEF ReplaceState
  <2>7. ASSUME NEW p \in Procs, WriteFails(p) PROVE TypeOK'
    BY <2>7 DEF WriteFails
  <2>8. ASSUME NEW p \in Procs, UnlinkCounter(p) PROVE TypeOK'
    <3>1. disturbed' \in BOOLEAN
      BY <2>8, Zenon DEF UnlinkCounter, TypeOK
    <3>2. QED
      BY <2>8, <3>1 DEF UnlinkCounter
  <2>9. ASSUME NEW p \in Procs, TruncateCounter(p) PROVE TypeOK'
    BY <2>9 DEF TruncateCounter
  <2>10. ASSUME NEW p \in Procs, FillCounter(p) PROVE TypeOK'
    BY <2>10 DEF FillCounter
  <2>11. ASSUME NEW p \in Procs, Release(p) PROVE TypeOK'
    BY <2>11 DEF Release
  <2>12. ASSUME NEW p \in Procs, Crash(p) PROVE TypeOK'
    BY <2>12 DEF Crash
  <2>13. CASE UNCHANGED vars
    BY <2>13 DEF vars
  <2>14. QED
    BY <2>1, <2>2, <2>3, <2>4, <2>5, <2>6, <2>7, <2>8, <2>9, <2>10, <2>11,
       <2>12, <2>13 DEF Next, Proceed
<1>3. QED
  BY <1>1, <1>2, PTL DEF Spec

-------------------------------------------------------------------------------
(***************************************************************************)
(* The writers of current_task.json.                                       *)
(***************************************************************************)
WriterInv == TypeOK /\ WriterHoldsLock /\ ReadIsFresh

LEMMA WriterInvStep ==
  ASSUME ReadCanFail = FALSE, WriterInv, TypeOK', [Next]_vars
  PROVE  WriterInv'
<1> USE DEF WriterInv, TypeOK, WriterHoldsLock, ReadIsFresh, IsWriter, Past,
            Labels, files, reads, Goto, Free
<1>1. ASSUME NEW p \in Procs, Begin(p) PROVE WriterInv'
  BY <1>1 DEF Begin
<1>2. ASSUME NEW p \in Procs, Acquire(p) PROVE WriterInv'
  BY <1>2 DEF Acquire
<1>3. ASSUME NEW p \in Procs, AcquireFails(p) PROVE WriterInv'
  BY <1>3 DEF AcquireFails
<1>4. ASSUME NEW p \in Procs, ReadState(p) PROVE WriterInv'
  <2>1. seenState' = [seenState EXCEPT ![p] = taskFile]
    BY <1>4 DEF ReadState
  <2>2. QED
    BY <1>4, <2>1 DEF ReadState
<1>5. ASSUME NEW p \in Procs, ReadCounter(p) PROVE WriterInv'
  BY <1>5 DEF ReadCounter
<1>6. ASSUME NEW p \in Procs, ReplaceState(p) PROVE WriterInv'
  BY <1>6 DEF ReplaceState
<1>7. ASSUME NEW p \in Procs, WriteFails(p) PROVE WriterInv'
  BY <1>7 DEF WriteFails
<1>8. ASSUME NEW p \in Procs, UnlinkCounter(p) PROVE WriterInv'
  BY <1>8 DEF UnlinkCounter
<1>9. ASSUME NEW p \in Procs, TruncateCounter(p) PROVE WriterInv'
  BY <1>9 DEF TruncateCounter
<1>10. ASSUME NEW p \in Procs, FillCounter(p) PROVE WriterInv'
  BY <1>10 DEF FillCounter
<1>11. ASSUME NEW p \in Procs, Release(p) PROVE WriterInv'
  BY <1>11 DEF Release
<1>12. ASSUME NEW p \in Procs, Crash(p) PROVE WriterInv'
  BY <1>12 DEF Crash
<1>13. CASE UNCHANGED vars
  BY <1>13 DEF vars
<1>14. QED
  BY <1>1, <1>2, <1>3, <1>4, <1>5, <1>6, <1>7, <1>8, <1>9, <1>10, <1>11,
     <1>12, <1>13 DEF Next, Proceed

LEMMA WriterInvariant ==
  ASSUME ReadCanFail = FALSE
  PROVE  Spec => [](TypeOK /\ WriterInv)
<1>1. Init => WriterInv
  <2> SUFFICES ASSUME Init PROVE WriterInv
    OBVIOUS
  <2>1. TypeOK
    BY InitType
  <2>2. QED
    BY <2>1 DEF Init, WriterInv, WriterHoldsLock, ReadIsFresh, Past
<1>2. TypeOK /\ TypeOK' /\ WriterInv /\ [Next]_vars => WriterInv'
  BY WriterInvStep
<1>3. QED
  BY <1>1, <1>2, Typing, PTL DEF Spec

(* A step that leaves every process's pending call alone leaves Request    *)
(* alone; one that ends process p's pending call removes it from Request.  *)
LEMMA RequestUnchanged ==
  ASSUME \A q \in Procs : Request'[q] = Request[q]
  PROVE  Request' = Request
BY DEF Request

LEMMA RequestSet ==
  ASSUME NEW p \in Procs, NEW c, Request'[p] = c,
         \A q \in Procs \ {p} : Request'[q] = Request[q]
  PROVE  Request' = [Request EXCEPT ![p] = c]
BY DEF Request

(* Every step of the code is a step of AtomicTaskState or leaves it alone. *)
LEMMA StepRefines ==
  ASSUME ReadCanFail = FALSE, TypeOK, TypeOK', WriterInv, [Next]_vars
  PROVE  [Abs!Next]_<<taskFile, Request>>
<1> USE DEF TypeOK, IsWriter, Labels, files, reads, Goto
<1> DEFINE Quiet(p) == taskFile' = taskFile /\ \A q \in Procs : Request'[q] = Request[q]
<1>0. ASSUME NEW p \in Procs, Quiet(p) PROVE [Abs!Next]_<<taskFile, Request>>
  BY <1>0, RequestUnchanged
<1>1. ASSUME NEW p \in Procs, Begin(p) PROVE [Abs!Next]_<<taskFile, Request>>
  <2>1. /\ Request[p] = NoCall
        /\ \A q \in Procs \ {p} : Request'[q] = Request[q]
        /\ taskFile' = taskFile
    BY <1>1 DEF Begin, Request
  <2>2. CASE call'[p] \in WriterCalls
    <3>1. Request'[p] = call'[p]
      BY <1>1, <2>2 DEF Begin, Request
    <3> DEFINE c == call'[p]
    <3>a. Request' = [Request EXCEPT ![p] = c]
      <4>1. Request'[p] = c
        BY <3>1
      <4> HIDE DEF c
      <4>2. QED
        BY <2>1, <4>1, RequestSet
    <3>b. c \in Abs!WriterCalls
      BY <2>2 DEF Abs!WriterCalls, WriterCalls
    <3> HIDE DEF c
    <3>2. Abs!Invoke(p)
      BY <2>1, <3>a, <3>b DEF Abs!Invoke
    <3>3. QED
      BY <3>2 DEF Abs!Next
  <2>3. CASE call'[p] \notin WriterCalls
    <3>1. Request'[p] = NoCall
      BY <1>1, <2>3 DEF Begin, Request
    <3>2. QED
      BY <2>1, <3>1, RequestUnchanged
  <2>4. QED
    BY <2>2, <2>3
<1>2. ASSUME NEW p \in Procs, Acquire(p) PROVE Quiet(p)
  BY <1>2 DEF Acquire, Request
<1>4. ASSUME NEW p \in Procs, ReadState(p) PROVE Quiet(p)
  BY <1>4 DEF ReadState, Request
<1>5. ASSUME NEW p \in Procs, ReadCounter(p) PROVE Quiet(p)
  BY <1>5 DEF ReadCounter, Request
<1>6. ASSUME NEW p \in Procs, ReplaceState(p) PROVE [Abs!Next]_<<taskFile, Request>>
  <2>1. /\ Request[p] = call[p]
        /\ Request'[p] = NoCall
        /\ \A q \in Procs \ {p} : Request'[q] = Request[q]
    BY <1>6 DEF ReplaceState, Request
  <2>2. taskFile' = Apply(call[p], taskFile)
    BY <1>6 DEF ReplaceState, WriterInv, ReadIsFresh
  <2>3. Abs!TakeEffect(p)
    BY <1>6, <2>1, <2>2, RequestSet
    DEF ReplaceState, Abs!TakeEffect, Abs!Apply, Apply
  <2>4. QED
    BY <2>3 DEF Abs!Next
<1>7. ASSUME NEW p \in Procs, UnlinkCounter(p) PROVE Quiet(p)
  BY <1>7 DEF UnlinkCounter, Request
<1>8. ASSUME NEW p \in Procs, TruncateCounter(p) PROVE Quiet(p)
  BY <1>8 DEF TruncateCounter, Request
<1>9. ASSUME NEW p \in Procs, FillCounter(p) PROVE Quiet(p)
  BY <1>9 DEF FillCounter, Request
<1>10. ASSUME NEW p \in Procs, Release(p) PROVE Quiet(p)
  BY <1>10 DEF Release, Request
<1>11. ASSUME NEW p \in Procs, AcquireFails(p) \/ WriteFails(p) \/ Crash(p)
      PROVE  [Abs!Next]_<<taskFile, Request>>
  <2>1. /\ taskFile' = taskFile
        /\ \A q \in Procs \ {p} : Request'[q] = Request[q]
        /\ Request'[p] = NoCall
    BY <1>11 DEF AcquireFails, WriteFails, Crash, Request
  <2>2. CASE Request[p] = NoCall
    BY <2>1, <2>2, RequestUnchanged
  <2>3. CASE Request[p] # NoCall
    <3>1. Abs!Fail(p)
      BY <2>1, <2>3, RequestSet DEF Abs!Fail
    <3>2. QED
      BY <3>1 DEF Abs!Next
  <2>4. QED
    BY <2>2, <2>3
<1>12. CASE UNCHANGED vars
  BY <1>12 DEF vars, Request
<1>13. QED
  BY <1>0, <1>1, <1>2, <1>4, <1>5, <1>6, <1>7, <1>8, <1>9, <1>10, <1>11, <1>12
  DEF Next, Proceed

(* The writers of current_task.json implement atomic updates of it, for    *)
(* any number of processes and calls, crashes, failed locks and failed     *)
(* writes included, provided a file that can be written can be read.       *)
THEOREM WritersAreAtomic ==
  ASSUME ReadCanFail = FALSE
  PROVE  Spec => AtomicUpdates
<1>1. Init => Abs!Init
  BY DEF Init, Abs!Init, Request, NullState, Abs!NullState
<1>2. TypeOK /\ TypeOK' /\ WriterInv /\ [Next]_vars => [Abs!Next]_<<taskFile, Request>>
  BY StepRefines
<1>3. QED
  BY <1>1, <1>2, WriterInvariant, PTL DEF Spec, Abs!Spec, AtomicUpdates

-------------------------------------------------------------------------------
(***************************************************************************)
(* The throttle counter.                                                   *)
(***************************************************************************)

(* Until something goes wrong, a process past the lock holds it, and the   *)
(* counter agrees with the history except in the middle of a write.        *)
HoldsLock == \A p \in Procs : pc[p] \in Past => lock = p
HolderIsPast == \A p \in Procs : lock = p => pc[p] \in Past
Agrees ==
  /\ (\A p \in Procs : pc[p] \notin {"fill", "unlink"}) => counter = incs
  /\ \A p \in Procs :
       /\ pc[p] = "write" /\ ~IsWriter(p) => seenCount[p] = counter
       /\ pc[p] = "fill" => seenCount[p] = incs
       /\ pc[p] = "unlink" => incs = 0

CounterInv == ~disturbed => HoldsLock /\ HolderIsPast /\ Agrees

LEMMA CounterInvStep ==
  ASSUME TypeOK, TypeOK', CounterInv, [Next]_vars
  PROVE  CounterInv'
<1> SUFFICES ASSUME ~disturbed' PROVE (HoldsLock /\ HolderIsPast /\ Agrees)'
  BY DEF CounterInv
<1> USE DEF TypeOK, IsWriter, Past, Labels, files, reads, Goto, Free
<1>1. ~disturbed
  <2>1. \A p \in Procs : Proceed(p) => disturbed' = disturbed \/ disturbed'
    BY Zenon DEF Proceed, ReadState, ReadCounter, ReplaceState, WriteFails,
       UnlinkCounter, TruncateCounter, FillCounter, Release
  <2>2. \A p \in Procs : Begin(p) \/ Acquire(p) => disturbed' = disturbed
    BY Zenon DEF Begin, Acquire
  <2>3. \A p \in Procs : AcquireFails(p) \/ Crash(p) => disturbed'
    BY Zenon DEF AcquireFails, Crash
  <2>4. CASE UNCHANGED vars
    BY <2>4, Zenon DEF vars
  <2>5. QED
    BY <2>1, <2>2, <2>3, <2>4, Zenon DEF Next
<1>2. HoldsLock /\ HolderIsPast /\ Agrees
  BY <1>1 DEF CounterInv
<1> USE <1>1, <1>2 DEF HoldsLock, HolderIsPast, Agrees
<1> DEFINE Inv == HoldsLock /\ HolderIsPast /\ Agrees
<1>3. ASSUME NEW p \in Procs, Begin(p) PROVE Inv'
  BY <1>3 DEF Begin
<1>4. ASSUME NEW p \in Procs, Acquire(p) PROVE Inv'
  BY <1>4 DEF Acquire
<1>5. ASSUME NEW p \in Procs, AcquireFails(p) \/ WriteFails(p) \/ Crash(p) PROVE Inv'
  BY <1>5, Zenon DEF AcquireFails, WriteFails, Crash
<1>6. ASSUME NEW p \in Procs, ReadState(p) PROVE Inv'
  BY <1>6 DEF ReadState
<1>7. ASSUME NEW p \in Procs, ReadCounter(p) PROVE Inv'
  <2>1. seenCount' = [seenCount EXCEPT ![p] = counter]
    BY <1>7, Zenon DEF ReadCounter
  <2>2. QED
    BY <1>7, <2>1 DEF ReadCounter
<1>8. ASSUME NEW p \in Procs, ReplaceState(p) PROVE Inv'
  <2>1. CASE call[p].kind = "set_protocol"
    BY <1>8, <2>1 DEF ReplaceState
  <2>2. CASE call[p].kind # "set_protocol"
    BY <1>8, <2>2 DEF ReplaceState
  <2>3. QED
    BY <2>1, <2>2
<1>9. ASSUME NEW p \in Procs, UnlinkCounter(p) PROVE Inv'
  <2>1. counter' = 0
    BY <1>9, Zenon DEF UnlinkCounter
  <2>2. QED
    BY <1>9, <2>1 DEF UnlinkCounter
<1>10. ASSUME NEW p \in Procs, TruncateCounter(p) PROVE Inv'
  BY <1>10 DEF TruncateCounter
<1>11. ASSUME NEW p \in Procs, FillCounter(p) PROVE Inv'
  BY <1>11 DEF FillCounter
<1>12. ASSUME NEW p \in Procs, Release(p) PROVE Inv'
  BY <1>12 DEF Release
<1>13. CASE UNCHANGED vars
  BY <1>13 DEF vars
<1>14. QED
  BY <1>3, <1>4, <1>5, <1>6, <1>7, <1>8, <1>9, <1>10, <1>11, <1>12, <1>13
  DEF Next, Proceed

(* While nothing fails, no interleaving of hooks and MCP server makes the  *)
(* throttle counter miss a call or survive a change of the protocol state. *)
THEOREM CounterIsExact == Spec => []CountsEveryCall
<1>1. Init => CounterInv
  BY DEF Init, CounterInv, HoldsLock, HolderIsPast, Agrees, Past, IsWriter
<1>2. TypeOK /\ TypeOK' /\ CounterInv /\ [Next]_vars => CounterInv'
  BY CounterInvStep
<1>3. TypeOK /\ CounterInv => CountsEveryCall
  BY DEF TypeOK, CounterInv, CountsEveryCall, HoldsLock, Agrees, Past
<1>4. QED
  BY <1>1, <1>2, <1>3, Typing, PTL DEF Spec

===============================================================================
