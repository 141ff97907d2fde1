--------------------------- MODULE ReviewGatesProofs ---------------------------
(***************************************************************************)
(* Only reviewed code leaves code review, for any protocols, trees and     *)
(* stray notes, provided that no fix comes between a review and its note.  *)
(***************************************************************************)
EXTENDS ReviewGates, SequenceTheorems, TLAPS

(* The gates of this advance that have passed, with the code untouched.    *)
PassedRound ==
  \A i \in DOMAIN CurrentGates :
    CurrentGates[i] = "round" /\ i < pc => touched \/ round = tree

RoundInv ==
  /\ protocol \in Protocols /\ step \in DOMAIN protocol /\ pc \in Nat
  /\ pc # 0 => step < Len(protocol)
  /\ tree \in Trees
  /\ rounds \in {round, NoHash}
  /\ \A n \in pending : n.kind = "round" => n.saw = tree
  /\ PassedRound

LEMMA ProtocolShape ==
  ASSUME NEW p \in Protocols
  PROVE  /\ DOMAIN p = 1..Len(p) /\ Len(p) \in Nat \ {0}
         /\ \A s \in DOMAIN p :
              /\ DOMAIN p[s].gates = 1..Len(p[s].gates)
              /\ Len(p[s].gates) \in Nat
<1>1. p \in Seq(StepConfig) /\ p # <<>>
  BY ReviewAssumption
<1>2. DOMAIN p = 1..Len(p) /\ Len(p) \in Nat \ {0}
  BY <1>1
<1>3. ASSUME NEW s \in DOMAIN p
      PROVE  /\ DOMAIN p[s].gates = 1..Len(p[s].gates)
             /\ Len(p[s].gates) \in Nat
  <2>1. p[s] \in StepConfig
    BY <1>1
  <2>2. p[s].gates \in Seq(Gates)
    BY <2>1 DEF StepConfig
  <2> QED  BY <2>2
<1> QED  BY <1>2, <1>3

(* Between two calls, and at the first gate, no gate has passed yet.       *)
LEMMA NothingPassed ==
  ASSUME protocol' \in Protocols, step' \in DOMAIN protocol', pc' \in {0, 1}
  PROVE  PassedRound'
<1>1. DOMAIN CurrentGates' = 1..Len(CurrentGates')
  BY ProtocolShape DEF CurrentGates
<1>2. Len(CurrentGates') \in Nat
  BY ProtocolShape DEF CurrentGates
<1> QED  BY <1>1, <1>2 DEF PassedRound

LEMMA RoundStep ==
  ASSUME ~LateNotes, RoundInv, [Next]_vars
  PROVE  RoundInv'
<1> USE DEF RoundInv
<1>1. CASE ReviewCode
  BY <1>1, NothingPassed DEF ReviewCode, Finds, Idle, history
<1>2. CASE \E d \in SUBSET Criteria : AuditSpec(d)
  BY <1>2, NothingPassed DEF AuditSpec, Finds, Idle, history
<1>3. CASE CheckDeferred
  BY <1>3, NothingPassed DEF CheckDeferred, Finds, Idle, history
<1>4. CASE \E n \in pending : SaveRound(n)
  BY <1>4, NothingPassed DEF SaveRound, Stamp, Stamped, Idle
<1>5. CASE \E n \in pending : SaveNote(n)
  BY <1>5, NothingPassed DEF SaveNote, Idle
<1>6. CASE \E n \in Strays : SaveStray(n)
  BY <1>6, NothingPassed DEF SaveStray, Idle, history
<1>7. CASE \E s \in DOMAIN protocol : Goto(s)
  BY <1>7, NothingPassed DEF Goto, Idle
<1>8. CASE BeginAdvance
  BY <1>8, NothingPassed DEF BeginAdvance, history
<1>9. CASE GatePasses
  <2>1. \A i \in DOMAIN CurrentGates :
          CurrentGates[i] = "round" /\ i < pc + 1 => touched \/ round = tree
    <3> SUFFICES ASSUME NEW i \in DOMAIN CurrentGates, CurrentGates[i] = "round", i < pc + 1
                 PROVE  touched \/ round = tree
      OBVIOUS
    <3>1. CASE i < pc
      BY <3>1 DEF PassedRound
    <3>2. CASE i = pc
      <4>1. Matches(rounds)
        BY <1>9, <3>2 DEF GatePasses, Passes
      <4> QED  BY <4>1, ReviewAssumption DEF Matches
    <3>3. i \in Nat
      BY ProtocolShape DEF CurrentGates
    <3> QED  BY <3>1, <3>2, <3>3
  <2>2. PassedRound'
    BY <1>9, <2>1 DEF GatePasses, PassedRound, CurrentGates, history
  <2>3. pc \in Nat \ {0}
    BY <1>9, ProtocolShape DEF GatePasses, CurrentGates
  <2> QED  BY <1>9, <2>2, <2>3 DEF GatePasses, history
<1>10. CASE GateBlocks
  BY <1>10, NothingPassed DEF GateBlocks, history
<1>11. CASE Move
  <2>1. step' \in DOMAIN protocol'
    BY <1>11, ProtocolShape DEF Move, Idle
  <2> QED  BY <1>11, <2>1, NothingPassed DEF Move, history
<1>12. CASE \E t \in Trees : Edit(t)
  <2>1. CASE Idle
    BY <1>12, <2>1, NothingPassed DEF Edit, Idle, history, Stamped
  <2>2. CASE ~Idle
    BY <1>12, <2>2 DEF Edit, Idle, history, Stamped, PassedRound, CurrentGates
  <2> QED  BY <2>1, <2>2
<1>13. CASE UNCHANGED vars
  BY <1>13 DEF vars, history, PassedRound, CurrentGates
<1> QED
  BY <1>1, <1>2, <1>3, <1>4, <1>5, <1>6, <1>7, <1>8, <1>9, <1>10, <1>11, <1>12, <1>13
  DEF Next, Agent, Advance

(* For any protocols, trees and stray notes, and whatever the agent        *)
(* forgets, repeats or goes back to: the code that leaves a step with      *)
(* verify_review_round is the code the latest recorded review saw.         *)
THEOREM OnlyReviewedCodeLeaves == ~LateNotes => (Spec => LeavesAsReviewed)
<1> SUFFICES ASSUME ~LateNotes  PROVE Spec => LeavesAsReviewed
  OBVIOUS
<1>1. Init => RoundInv
  <2> SUFFICES ASSUME Init  PROVE RoundInv
    OBVIOUS
  <2>1. DOMAIN protocol = 1..Len(protocol) /\ Len(protocol) \in Nat \ {0}
    BY ProtocolShape DEF Init
  <2>2. step \in DOMAIN protocol
    BY <2>1 DEF Init
  <2>3. DOMAIN CurrentGates = 1..Len(CurrentGates) /\ Len(CurrentGates) \in Nat
    BY <2>2, ProtocolShape DEF Init, CurrentGates
  <2>4. PassedRound
    BY <2>3 DEF Init, PassedRound
  <2>5. \A n \in pending : n.kind # "round"
    BY DEF Init, NothingDeferred
  <2> QED  BY <2>2, <2>4, <2>5 DEF Init, RoundInv
<1>2. RoundInv /\ [Next]_vars => RoundInv'
  BY RoundStep
<1>3. ASSUME RoundInv, [Next]_vars
      PROVE  [\A s \in Runs("round") : Leaves(s) => touched \/ round = tree]_vars
  <2> SUFFICES ASSUME NEW s \in Runs("round"), Leaves(s)
               PROVE  touched \/ round = tree
    OBVIOUS
  <2>1. step \in Nat /\ step' = step + 1
    BY <1>3, ProtocolShape DEF RoundInv, Leaves
  <2>2. Move
    BY <1>3, <2>1 DEF Next, Agent, Advance, ReviewCode, AuditSpec, CheckDeferred, Finds,
      SaveRound, SaveNote, SaveStray, Goto, BeginAdvance, GatePasses, GateBlocks, Edit, vars
  <2>3. PICK i \in DOMAIN CurrentGates : CurrentGates[i] = "round"
    BY DEF Runs, Gated, Leaves, CurrentGates
  <2>4. i \in Nat /\ i <= Len(CurrentGates) /\ Len(CurrentGates) \in Nat
    BY ProtocolShape, <1>3 DEF RoundInv, CurrentGates
  <2> QED  BY <1>3, <2>2, <2>3, <2>4 DEF Move, RoundInv, PassedRound
<1> QED  BY <1>1, <1>2, <1>3, PTL DEF Spec, LeavesAsReviewed

-------------------------------------------------------------------------------
(* The log: of each kind, one that counts and one that does not.           *)

LogEntries ==
  [kind : (Kinds \ {"round"}) \cup {"goto"}, counts : BOOLEAN,
   hash : Trees \cup {NoHash, Unstamped}, items : SUBSET Criteria]

SameSort(e, f) == e.kind = f.kind /\ e.counts = f.counts

LogInv ==
  /\ log \in Seq(LogEntries)
  /\ \A i, j \in DOMAIN log : SameSort(log[i], log[j]) => i = j

(* Where the entry at j of a log without the one at p was before.          *)
OldPlace(p, j) == IF p = 0 \/ j < p THEN j ELSE j + 1

LEMMA LatestIs ==
  ASSUME LogInv, NEW kind, NEW counts
  PROVE  LET p == Latest(kind, counts)
         IN  /\ p # 0 => p \in DOMAIN log /\ log[p].kind = kind /\ log[p].counts = counts
             /\ p = 0 => \A i \in DOMAIN log : ~(log[i].kind = kind /\ log[i].counts = counts)
             /\ \A i \in DOMAIN log : log[i].kind = kind /\ log[i].counts = counts => i = p
<1> DEFINE found == {i \in DOMAIN log : log[i].kind = kind /\ log[i].counts = counts}
<1>1. CASE found = {}
  <2>1. Latest(kind, counts) = 0
    BY <1>1 DEF Latest
  <2> QED  BY <1>1, <2>1
<1>2. CASE found # {}
  <2>1. Latest(kind, counts) \in found
    BY <1>2 DEF Latest
  <2>2. 0 \notin DOMAIN log
    BY LenProperties DEF LogInv
  <2> QED  BY <2>1, <2>2 DEF LogInv, SameSort
<1> QED  BY <1>1, <1>2

(* A logged entry replaces the one of its sort and comes last; the others  *)
(* keep their order.                                                       *)
LEMMA LoggedIs ==
  ASSUME LogInv, NEW e \in LogEntries
  PROVE  LET p == Latest(e.kind, e.counts)
             l == Logged(e)
         IN  /\ l \in Seq(LogEntries) /\ Len(l) \in Nat \ {0} /\ l[Len(l)] = e
             /\ DOMAIN l = 1..Len(l)
             /\ \A j \in 1..(Len(l) - 1) :
                  /\ OldPlace(p, j) \in DOMAIN log /\ l[j] = log[OldPlace(p, j)]
                  /\ ~SameSort(l[j], e)
             /\ \A i \in DOMAIN log : ~SameSort(log[i], e) =>
                  \E j \in 1..(Len(l) - 1) : OldPlace(p, j) = i
<1> DEFINE p == Latest(e.kind, e.counts)
           n == Len(log)
           l == Logged(e)
           kept == IF p = 0 THEN log ELSE Without(p)
<1>1. n \in Nat /\ log \in [1..n -> LogEntries] /\ DOMAIN log = 1..n
  BY LenProperties DEF LogInv
<1>2. /\ p # 0 => p \in 1..n /\ SameSort(log[p], e)
      /\ \A i \in 1..n : SameSort(log[i], e) => i = p
  BY LatestIs, <1>1 DEF SameSort
<1> HIDE DEF p
<1>3. /\ kept \in Seq(LogEntries)
      /\ Len(kept) = IF p = 0 THEN n ELSE n - 1
      /\ \A j \in 1..Len(kept) : kept[j] = log[OldPlace(p, j)]
  <2>1. CASE p = 0
    BY <1>1, <2>1 DEF OldPlace, LogInv
  <2>2. CASE p # 0
    <3>1. n - 1 \in Nat
      BY <1>1, <1>2, <2>2
    <3>2. \A i \in 1..(n - 1) : (IF i < p THEN log[i] ELSE log[i + 1]) \in LogEntries
      BY <1>1
    <3>3. kept \in [1..(n - 1) -> LogEntries]
      BY <2>2, <3>2 DEF Without
    <3>4. kept \in Seq(LogEntries) /\ Len(kept) = n - 1
      BY <3>1, <3>3, SeqDef, LenProperties
    <3> QED  BY <2>2, <3>1, <3>3, <3>4 DEF Without, OldPlace
  <2> QED  BY <2>1, <2>2
<1>4. l = Append(kept, e)
  BY DEF Logged, p
<1> HIDE DEF kept, l
<1>5. /\ l \in Seq(LogEntries) /\ Len(l) = Len(kept) + 1 /\ l[Len(l)] = e
      /\ \A j \in 1..Len(kept) : l[j] = kept[j]
  BY <1>3, <1>4, AppendProperties
<1>6. Len(kept) \in Nat /\ DOMAIN l = 1..Len(l)
  BY <1>3, <1>5, LenProperties
<1>7. ASSUME NEW j \in 1..(Len(l) - 1)
      PROVE  /\ OldPlace(p, j) \in 1..n /\ l[j] = log[OldPlace(p, j)]
             /\ ~SameSort(l[j], e)
  <2>1. j \in 1..Len(kept)
    BY <1>5, <1>6, <1>7
  <2>2. OldPlace(p, j) \in 1..n /\ OldPlace(p, j) # p
    <3>1. CASE p = 0
      <4>1. Len(kept) = n
        BY <1>3, <3>1
      <4> QED  BY <1>1, <2>1, <3>1, <4>1 DEF OldPlace
    <3>2. CASE p # 0
      <4>1. Len(kept) = n - 1 /\ p \in 1..n
        BY <1>2, <1>3, <3>2
      <4> QED  BY <1>1, <2>1, <3>2, <4>1 DEF OldPlace
    <3> QED  BY <3>1, <3>2
  <2> QED  BY <1>2, <1>3, <1>5, <2>1, <2>2
<1>8. ASSUME NEW i \in 1..n, ~SameSort(log[i], e)
      PROVE  \E j \in 1..(Len(l) - 1) : OldPlace(p, j) = i
  <2>1. i # p
    BY <1>2, <1>8
  <2>2. CASE p = 0 \/ i < p
    <3>1. OldPlace(p, i) = i
      BY <2>2 DEF OldPlace
    <3>2. CASE p = 0
      <4>1. Len(l) - 1 = n
        BY <1>1, <1>3, <1>5, <3>2
      <4> QED  BY <3>1, <4>1
    <3>3. CASE p # 0
      <4>1. Len(l) - 1 = n - 1 /\ p \in 1..n /\ i < p
        BY <1>1, <1>2, <1>3, <1>5, <2>2, <3>3
      <4>2. i \in 1..(Len(l) - 1)
        BY <1>1, <4>1
      <4> QED  BY <3>1, <4>2
    <3> QED  BY <3>2, <3>3
  <2>3. CASE p # 0 /\ ~(i < p)
    <3>1. i - 1 \in 1..(Len(l) - 1) /\ OldPlace(p, i - 1) = i
      BY <1>1, <1>2, <1>3, <1>5, <1>6, <2>1, <2>3 DEF OldPlace
    <3> QED  BY <3>1
  <2> QED  BY <2>2, <2>3
<1> QED  BY <1>1, <1>5, <1>6, <1>7, <1>8 DEF l, p

LEMMA LoggedKeepsLog ==
  ASSUME LogInv, NEW e \in LogEntries, log' = Logged(e)
  PROVE  LogInv'
<1> DEFINE p == Latest(e.kind, e.counts)
<1>1. /\ log' \in Seq(LogEntries) /\ Len(log') \in Nat \ {0} /\ log'[Len(log')] = e
      /\ DOMAIN log' = 1..Len(log')
      /\ \A j \in 1..(Len(log') - 1) :
           /\ OldPlace(p, j) \in DOMAIN log /\ log'[j] = log[OldPlace(p, j)]
           /\ ~SameSort(log'[j], e)
  BY LoggedIs
<1> HIDE DEF p
<1>2. ASSUME NEW i \in DOMAIN log', NEW j \in DOMAIN log', SameSort(log'[i], log'[j])
      PROVE  i = j
  <2>1. CASE i # Len(log') /\ j # Len(log')
    <3>1. i \in 1..(Len(log') - 1) /\ j \in 1..(Len(log') - 1)
      BY <1>1, <2>1
    <3>2. OldPlace(p, i) = OldPlace(p, j)
      BY <1>1, <1>2, <3>1 DEF LogInv
    <3>3. p = 0 \/ p \in 1..Len(log)
      BY LatestIs, LenProperties DEF p, LogInv
    <3> QED  BY <3>1, <3>2, <3>3, LenProperties DEF OldPlace, LogInv
  <2>2. CASE i = Len(log') /\ j # Len(log')
    <3>1. j \in 1..(Len(log') - 1)
      BY <1>1, <2>2
    <3> QED  BY <1>1, <1>2, <2>2, <3>1 DEF SameSort
  <2>3. CASE i # Len(log') /\ j = Len(log')
    <3>1. i \in 1..(Len(log') - 1)
      BY <1>1, <2>3
    <3> QED  BY <1>1, <1>2, <2>3, <3>1
  <2> QED  BY <2>1, <2>2, <2>3
<1> QED  BY <1>1, <1>2 DEF LogInv

-------------------------------------------------------------------------------
(* Types.                                                                  *)

TypeInv ==
  /\ TypeOK /\ LogInv
  /\ pc # 0 => step < Len(protocol)
  /\ \A n \in pending : n.kind \in Stamped => n.saw \in Trees

LEMMA LogTypes ==
  ASSUME NEW l \in Seq(LogEntries)
  PROVE  \A i \in DOMAIN l :
           /\ l[i].kind \in (Kinds \ {"round"}) \cup {"goto"} /\ l[i].counts \in BOOLEAN
           /\ l[i].hash \in Trees \cup {NoHash, Unstamped} /\ l[i].items \subseteq Criteria
<1>1. \A i \in DOMAIN l : l[i] \in LogEntries
  BY LenProperties
<1> QED  BY <1>1 DEF LogEntries

(* What Logged is called with.                                             *)
LEMMA EntryTypes ==
  ASSUME NEW n \in Note, n.kind # "round",
         NEW hash \in Trees \cup {NoHash, Unstamped}
  PROVE  Entry(n.kind, hash, n.items) \in LogEntries
BY DEF Entry, LogEntries, Note

LEMMA GotoTypes ==
  [kind |-> "goto", counts |-> TRUE, hash |-> Unstamped, items |-> {}] \in LogEntries
BY DEF LogEntries

LEMMA StampTypes ==
  ASSUME TypeOK, NEW kind
  PROVE  Stamp(kind) \subseteq Trees \cup {NoHash, Unstamped}
BY DEF Stamp, TypeOK

LEMMA TypeStep ==
  ASSUME TypeInv, [Next]_vars
  PROVE  TypeInv'
<1> USE DEF TypeInv
<1>1. ASSUME NEW notes, Finds(notes), notes \subseteq Note,
             \A n \in notes : n.kind \in Stamped => n.saw \in Trees
      PROVE  TypeInv'
  BY <1>1 DEF Finds, TypeOK, LogInv, CurrentGates, history
<1>2. CASE ReviewCode
  <2> DEFINE notes == {[kind |-> "round", items |-> {}, saw |-> tree]}
  <2>1. notes \subseteq Note /\ \A n \in notes : n.saw \in Trees
    BY DEF Note, Kinds, Stamped, TypeOK
  <2> QED  BY <1>1, <1>2, <2>1 DEF ReviewCode
<1>3. CASE \E d \in SUBSET Criteria : AuditSpec(d)
  <2>1. PICK d \in SUBSET Criteria : AuditSpec(d)
    BY <1>3
  <2> DEFINE notes == {[kind |-> "spec", items |-> d, saw |-> tree],
                       [kind |-> "carriage", items |-> d, saw |-> tree]}
  <2>2. notes \subseteq Note /\ \A n \in notes : n.saw \in Trees
    BY DEF Note, Kinds, Stamped, TypeOK
  <2> QED  BY <1>1, <2>1, <2>2 DEF AuditSpec
<1>4. CASE CheckDeferred
  <2> DEFINE notes == {[kind |-> "done", items |-> audit.items, saw |-> tree]}
  <2>1. notes \subseteq Note /\ \A n \in notes : n.saw \in Trees
    BY DEF Note, Kinds, Stamped, TypeOK
  <2> QED  BY <1>1, <1>4, <2>1 DEF CheckDeferred
<1>5. CASE \E n \in pending : SaveRound(n)
  <2>1. PICK n \in pending : SaveRound(n)
    BY <1>5
  <2>2. n.saw \in Trees /\ rounds' \in Trees \cup {NoHash}
    BY <2>1 DEF SaveRound, Stamp, Stamped, TypeOK
  <2> QED  BY <2>1, <2>2 DEF SaveRound, TypeOK, LogInv, CurrentGates
<1>6. CASE \E n \in pending : SaveNote(n)
  <2>1. PICK n \in pending : SaveNote(n)
    BY <1>6
  <2>2. PICK hash \in Stamp(n.kind) : log' = Logged(Entry(n.kind, hash, n.items))
    BY <2>1 DEF SaveNote
  <2>3. n \in Note /\ n.kind # "round"
    BY <2>1 DEF SaveNote, TypeOK
  <2>4. Entry(n.kind, hash, n.items) \in LogEntries
    BY <2>2, <2>3, EntryTypes, StampTypes
  <2>5. LogInv'
    BY <2>2, <2>4, LoggedKeepsLog
  <2>6. {audit'} \cup check' \subseteq Note /\ stale' \in BOOLEAN
    BY <2>1, <2>3 DEF SaveNote, TypeOK
  <2>7. log' \in Seq(LogEntries)
    BY <2>5 DEF LogInv
  <2>8. UNCHANGED <<protocol, step, tree, rounds, pc, touched, round>> /\ pending' \subseteq pending
    BY <2>1 DEF SaveNote
  <2> QED  BY <2>5, <2>6, <2>7, <2>8, LogTypes DEF TypeOK, CurrentGates
<1>7. CASE \E n \in Strays : SaveStray(n)
  <2>1. PICK n \in Strays : SaveStray(n)
    BY <1>7
  <2> DEFINE e == Entry(n.kind, IF n.kind \in Stamped THEN tree ELSE Unstamped, n.items)
  <2>2. e \in LogEntries
    BY EntryTypes, ReviewAssumption DEF TypeOK
  <2>3. LogInv'
    BY <2>1, <2>2, LoggedKeepsLog DEF SaveStray
  <2>4. log' \in Seq(LogEntries)
    BY <2>3 DEF LogInv
  <2>5. UNCHANGED <<protocol, step, tree, rounds, pc, pending, touched, history>>
    BY <2>1 DEF SaveStray
  <2> QED  BY <2>3, <2>4, <2>5, LogTypes DEF TypeOK, CurrentGates, history
<1>8. CASE \E s \in DOMAIN protocol : Goto(s)
  <2>1. PICK s \in DOMAIN protocol : Goto(s)
    BY <1>8
  <2>2. LogInv'
    BY <2>1, GotoTypes, LoggedKeepsLog DEF Goto, LogInv
  <2>3. stale' \in BOOLEAN
    BY <2>1, ProtocolShape, ReviewAssumption DEF Goto, TypeOK
  <2>4. pc' \in 0..(Len(CurrentGates') + 1)
    BY <2>1, ProtocolShape DEF Goto, Idle, CurrentGates, TypeOK
  <2>5. log' \in Seq(LogEntries)
    BY <2>2 DEF LogInv
  <2>6. /\ UNCHANGED <<protocol, tree, rounds, pc, touched, round, audit, check>>
        /\ pc = 0 /\ pending' = {} /\ step' \in DOMAIN protocol'
    BY <2>1 DEF Goto, Idle
  <2> QED  BY <2>2, <2>3, <2>4, <2>5, <2>6, LogTypes DEF TypeOK
<1>9. CASE BeginAdvance
  BY <1>9, ProtocolShape DEF BeginAdvance, TypeOK, LogInv, CurrentGates, history
<1>10. CASE GatePasses
  BY <1>10, ProtocolShape DEF GatePasses, TypeOK, LogInv, CurrentGates, history
<1>11. CASE GateBlocks
  <2>1. UNCHANGED <<protocol, step, tree, rounds, log, pending, history>>
    BY <1>11 DEF GateBlocks
  <2>2. pc' \in 0..(Len(CurrentGates') + 1) /\ pc' = 0 /\ touched' = FALSE
    BY <1>11, <2>1, ProtocolShape DEF GateBlocks, CurrentGates, TypeOK
  <2> QED  BY <2>1, <2>2 DEF TypeOK, LogInv, history
<1>12. CASE Move
  <2>1. step' \in DOMAIN protocol' /\ protocol' \in Protocols
    BY <1>12, ProtocolShape DEF Move, Idle, TypeOK
  <2>2. 0 \in 0..(Len(CurrentGates') + 1)
    BY <2>1, ProtocolShape DEF CurrentGates
  <2> QED  BY <1>12, <2>1, <2>2 DEF Move, TypeOK, LogInv, history
<1>13. CASE \E t \in Trees : Edit(t)
  BY <1>13 DEF Edit, TypeOK, LogInv, CurrentGates, history, Idle
<1>14. CASE UNCHANGED vars
  BY <1>14 DEF vars, history, TypeOK, LogInv, CurrentGates
<1> QED
  BY <1>2, <1>3, <1>4, <1>5, <1>6, <1>7, <1>8, <1>9, <1>10, <1>11, <1>12, <1>13, <1>14
  DEF Next, Agent, Advance

LEMMA TypeInit == Init => TypeInv
<1> SUFFICES ASSUME Init  PROVE TypeInv
  OBVIOUS
<1>1. DOMAIN protocol = 1..Len(protocol) /\ Len(protocol) \in Nat \ {0}
  BY ProtocolShape DEF Init
<1>2. protocol \in Protocols /\ step \in DOMAIN protocol
  BY <1>1 DEF Init
<1>3. pc \in 0..(Len(CurrentGates) + 1) /\ pc = 0
  BY <1>2, ProtocolShape DEF Init, CurrentGates
<1>4. {NoAudit, Legacy, NothingDeferred} \subseteq Note
  BY DEF NoAudit, Legacy, NothingDeferred, Note, Kinds, Stamped
<1>5. LogInv
  <2>1. CASE log = <<>>
    BY <2>1, EmptySeq DEF LogInv
  <2> DEFINE e == [kind |-> "spec", counts |-> TRUE, hash |-> Unstamped, items |-> {}]
  <2>2. CASE log = <<e>>
    <3>1. e \in LogEntries
      BY DEF LogEntries, Kinds, Stamped
    <3> HIDE DEF e
    <3>2. log \in Seq(LogEntries) /\ DOMAIN log = {1}
      BY <2>2, <3>1
    <3> QED  BY <3>2 DEF LogInv
  <2> QED  BY <2>1, <2>2 DEF Init
<1>6. \A n \in pending : n \in Note /\ n.kind \notin Stamped
  <2>1. pending \subseteq {NothingDeferred}
    BY DEF Init
  <2>2. NothingDeferred.kind \notin Stamped
    BY DEF NothingDeferred, Stamped
  <2> QED  BY <1>4, <2>1, <2>2
<1>7. audit \in Note /\ check = {} /\ {touched, stale} \subseteq BOOLEAN
  BY <1>4 DEF Init
<1>8. tree \in Trees /\ {rounds, round} \subseteq Trees \cup {NoHash}
  BY DEF Init
<1>9. log \in Seq(LogEntries)
  BY <1>5 DEF LogInv
<1> QED  BY <1>2, <1>3, <1>5, <1>6, <1>7, <1>8, <1>9, LogTypes DEF TypeInv, TypeOK

(* Every variable keeps its type, for any protocols, trees and notes.      *)
THEOREM TypesHold == Spec => []TypeOK
<1>1. TypeInv => TypeOK
  BY DEF TypeInv
<1> QED  BY <1>1, TypeInit, TypeStep, PTL DEF Spec

-------------------------------------------------------------------------------
(* Audits.                                                                 *)

Sentinels == {i \in DOMAIN log : log[i].kind = "spec" /\ log[i].counts = TRUE}
Gotos == {i \in DOMAIN log : log[i].kind = "goto" /\ log[i].counts = TRUE}

(* The sentinel in the log is the latest recorded audit's: bound to what   *)
(* it saw, or of before notes were stamped; a goto that makes the latter   *)
(* stale comes after it.                                                   *)
SentinelInv ==
  /\ \A i \in Sentinels :
       \/ log[i].hash = Unstamped /\ audit = Legacy
       \/ audit.saw \in Trees /\ log[i].hash \in {audit.saw, NoHash}
  /\ audit = Legacy => \E i \in Sentinels : log[i].hash = Unstamped
  /\ stale => \E g \in Gotos : \A i \in Sentinels : i < g

PassedSpec ==
  \A i \in DOMAIN CurrentGates :
    CurrentGates[i] = "spec" /\ i < pc =>
      touched \/ audit.saw = tree \/ (audit = Legacy /\ ~stale)

AuditInv ==
  /\ SentinelInv /\ PassedSpec
  /\ \A n \in pending : n.kind \in Stamped => n.saw = tree

LEMMA LegacyIsUnstamped == Legacy.saw = Unstamped /\ Unstamped \notin Trees \cup {NoHash}
BY ReviewAssumption DEF Legacy

(* An entry of another sort leaves the sentinel where it was among the     *)
(* gotos.                                                                  *)
LEMMA OthersKeepSentinel ==
  ASSUME LogInv, SentinelInv, NEW e \in LogEntries, log' = Logged(e),
         e.counts = TRUE => e.kind \notin {"spec", "goto"},
         UNCHANGED <<audit, stale>>
  PROVE  SentinelInv'
<1> DEFINE p == Latest(e.kind, e.counts)
           n == Len(log')
<1>1. /\ n \in Nat \ {0} /\ log'[n] = e /\ DOMAIN log' = 1..n
      /\ \A j \in 1..(n - 1) : OldPlace(p, j) \in DOMAIN log /\ log'[j] = log[OldPlace(p, j)]
      /\ \A i \in DOMAIN log : ~SameSort(log[i], e) => \E j \in 1..(n - 1) : OldPlace(p, j) = i
  BY LoggedIs, SMTT(30)
<1>2. p = 0 \/ p \in Nat
  BY LatestIs, LenProperties DEF LogInv
<1> HIDE DEF p, n
<1>3. \A j \in Sentinels' \cup Gotos' : j \in 1..(n - 1)
  BY <1>1 DEF Sentinels, Gotos
<1>4. \A j \in Sentinels' : OldPlace(p, j) \in Sentinels /\ log'[j] = log[OldPlace(p, j)]
  BY <1>1, <1>3 DEF Sentinels
<1>5. \A i \in Sentinels : \E j \in Sentinels' : OldPlace(p, j) = i
  BY <1>1 DEF Sentinels, SameSort
<1>6. \A i \in Gotos : \E j \in Gotos' : OldPlace(p, j) = i
  BY <1>1 DEF Gotos, SameSort
<1>7. \A i \in Sentinels' :
        \/ log'[i].hash = Unstamped /\ audit = Legacy
        \/ audit.saw \in Trees /\ log'[i].hash \in {audit.saw, NoHash}
  BY <1>4 DEF SentinelInv
<1>8. audit = Legacy => \E i \in Sentinels' : log'[i].hash = Unstamped
  BY <1>4, <1>5 DEF SentinelInv
<1>9. ASSUME stale
      PROVE  \E g \in Gotos' : \A i \in Sentinels' : i < g
  <2>1. PICK g \in Gotos : \A i \in Sentinels : i < g
    BY <1>9 DEF SentinelInv
  <2>2. PICK h \in Gotos' : OldPlace(p, h) = g
    BY <1>6
  <2>3. ASSUME NEW i \in Sentinels'
        PROVE  i < h
    <3>1. OldPlace(p, i) < OldPlace(p, h)
      BY <1>4, <2>1, <2>2
    <3>2. i \in 1..(n - 1) /\ h \in 1..(n - 1)
      BY <1>3
    <3> QED  BY <1>1, <1>2, <3>1, <3>2 DEF OldPlace
  <2> QED  BY <2>3
<1> QED  BY <1>7, <1>8, <1>9 DEF SentinelInv

(* A new sentinel is the only one.                                         *)
LEMMA NewSentinel ==
  ASSUME LogInv, NEW e \in LogEntries, log' = Logged(e),
         e.kind = "spec" /\ e.counts = TRUE,
         audit'.saw \in Trees, e.hash \in {audit'.saw, NoHash}, stale' = FALSE
  PROVE  SentinelInv'
<1> DEFINE n == Len(log')
<1>1. /\ n \in Nat \ {0} /\ log'[n] = e /\ DOMAIN log' = 1..n
      /\ \A j \in 1..(n - 1) : ~SameSort(log'[j], e)
  BY LoggedIs
<1> HIDE DEF n
<1>2. ASSUME NEW i \in Sentinels'  PROVE i = n
  <2>1. i \in 1..n /\ SameSort(log'[i], e)
    BY <1>1 DEF Sentinels, SameSort
  <2>2. i \notin 1..(n - 1)
    BY <1>1, <2>1
  <2> QED  BY <1>1, <2>1, <2>2
<1> QED  BY <1>1, <1>2, LegacyIsUnstamped DEF SentinelInv

(* A goto comes after every sentinel.                                      *)
LEMMA NewGoto ==
  ASSUME LogInv, SentinelInv, NEW e \in LogEntries, log' = Logged(e),
         e.kind = "goto" /\ e.counts = TRUE, audit' = audit
  PROVE  SentinelInv'
<1> DEFINE p == Latest(e.kind, e.counts)
           n == Len(log')
<1>1. /\ n \in Nat \ {0} /\ log'[n] = e /\ DOMAIN log' = 1..n
      /\ \A j \in 1..(n - 1) : OldPlace(p, j) \in DOMAIN log /\ log'[j] = log[OldPlace(p, j)]
      /\ \A i \in DOMAIN log : ~SameSort(log[i], e) => \E j \in 1..(n - 1) : OldPlace(p, j) = i
  BY LoggedIs
<1> HIDE DEF p, n
<1>2. \A j \in Sentinels' : j \in 1..(n - 1)
  BY <1>1 DEF Sentinels
<1>3. \A j \in Sentinels' : OldPlace(p, j) \in Sentinels /\ log'[j] = log[OldPlace(p, j)]
  BY <1>1, <1>2 DEF Sentinels
<1>4. \A i \in Sentinels : \E j \in Sentinels' : OldPlace(p, j) = i
  BY <1>1 DEF Sentinels, SameSort
<1>5. n \in Gotos' /\ \A i \in Sentinels' : i < n
  BY <1>1, <1>2 DEF Gotos
<1>6. audit = Legacy => \E i \in Sentinels' : log'[i].hash = Unstamped
  BY <1>3, <1>4 DEF SentinelInv
<1>7. \A i \in Sentinels' :
        \/ log'[i].hash = Unstamped /\ audit = Legacy
        \/ audit.saw \in Trees /\ log'[i].hash \in {audit.saw, NoHash}
  BY <1>3 DEF SentinelInv
<1> QED  BY <1>5, <1>6, <1>7 DEF SentinelInv

(* What the gate lets through.                                             *)
LEMMA SpecGate ==
  ASSUME TypeInv, SentinelInv, SpecPasses
  PROVE  audit.saw = tree \/ (audit = Legacy /\ ~stale)
<1> DEFINE s == Latest("spec", TRUE)
<1>1. s \in Sentinels /\ StillGood(s)
  BY LatestIs DEF SpecPasses, Sentinel, Sentinels, TypeInv
<1>2. \A g \in Gotos : g = Latest("goto", TRUE)
  BY LatestIs DEF Gotos, TypeInv
<1>3. s \in Nat /\ \A g \in Gotos : g \in Nat
  <2>1. DOMAIN log = 1..Len(log) /\ Len(log) \in Nat
    BY LenProperties DEF TypeInv, LogInv
  <2>2. Sentinels \cup Gotos \subseteq 1..Len(log)
    BY <2>1 DEF Sentinels, Gotos
  <2>3. s \in 1..Len(log)
    BY <1>1, <2>2
  <2>4. \A i \in 1..Len(log) : i \in Nat
    BY <2>1
  <2> QED  BY <2>2, <2>3, <2>4
<1> HIDE DEF s
<1>4. tree \in Trees /\ NoHash \notin Trees /\ Unstamped \notin Trees /\ NoHash # Unstamped
  BY ReviewAssumption DEF TypeInv, TypeOK
<1>5. CASE log[s].hash = tree
  BY <1>1, <1>4, <1>5 DEF SentinelInv
<1>6. CASE log[s].hash = Unstamped /\ Latest("goto", TRUE) < s
  <2>1. audit = Legacy
    BY <1>1, <1>4, <1>6 DEF SentinelInv
  <2>2. ASSUME NEW g \in Gotos  PROVE ~(s < g)
    <3>1. g < s
      BY <1>2, <1>6
    <3> QED  BY <1>3, <3>1
  <2>3. ~stale
    BY <1>1, <2>2 DEF SentinelInv
  <2> QED  BY <2>1, <2>3
<1> QED  BY <1>1, <1>5, <1>6 DEF StillGood, Matches

(* Between two calls, and at the first gate, no gate has passed yet.       *)
LEMMA NoSpecPassed ==
  ASSUME protocol' \in Protocols, step' \in DOMAIN protocol', pc' \in {0, 1}
  PROVE  PassedSpec'
<1>1. DOMAIN CurrentGates' = 1..Len(CurrentGates') /\ Len(CurrentGates') \in Nat
  BY ProtocolShape DEF CurrentGates
<1> QED  BY <1>1 DEF PassedSpec

LEMMA AuditStep ==
  ASSUME ~LateNotes, TypeInv, AuditInv, [Next]_vars
  PROVE  AuditInv'
<1>1. protocol \in Protocols /\ step \in DOMAIN protocol /\ tree \in Trees
  BY DEF TypeInv, TypeOK
<1> USE DEF AuditInv
<1>2. ASSUME UNCHANGED <<log, audit, stale>>
      PROVE  SentinelInv'
  BY <1>2 DEF SentinelInv, Sentinels, Gotos
<1>3. CASE ReviewCode
  BY <1>1, <1>2, <1>3, NoSpecPassed DEF ReviewCode, Finds, Idle, history
<1>4. CASE \E d \in SUBSET Criteria : AuditSpec(d)
  BY <1>1, <1>2, <1>4, NoSpecPassed DEF AuditSpec, Finds, Idle, history
<1>5. CASE CheckDeferred
  BY <1>1, <1>2, <1>5, NoSpecPassed DEF CheckDeferred, Finds, Idle, history
<1>6. CASE \E n \in pending : SaveRound(n)
  BY <1>1, <1>2, <1>6, NoSpecPassed DEF SaveRound, Idle
<1>7. CASE \E n \in pending : SaveNote(n)
  <2>1. PICK n \in pending : SaveNote(n)
    BY <1>7
  <2>2. PICK hash \in Stamp(n.kind) : log' = Logged(Entry(n.kind, hash, n.items))
    BY <2>1 DEF SaveNote
  <2> DEFINE e == Entry(n.kind, hash, n.items)
  <2>3. e \in LogEntries /\ n \in Note /\ n.kind # "round"
    BY <2>1, <2>2, EntryTypes, StampTypes DEF SaveNote, TypeInv, TypeOK
  <2>4. e.kind = n.kind /\ e.counts = TRUE /\ e.hash = hash
    BY <2>1 DEF Entry, SaveNote
  <2> HIDE DEF e
  <2>5. SentinelInv'
    <3>1. CASE n.kind = "spec"
      <4>1. n.saw = tree /\ hash \in {tree, NoHash}
        BY <2>1, <2>2, <3>1 DEF Stamp, Stamped
      <4>2. audit' = n /\ stale' = FALSE
        BY <2>1, <3>1 DEF SaveNote
      <4> QED  BY <1>1, <2>2, <2>3, <2>4, <3>1, <4>1, <4>2, NewSentinel DEF TypeInv, e
    <3>2. CASE n.kind # "spec"
      <4>1. n.kind # "goto"
        BY <2>3 DEF Note, Kinds, Stamped
      <4>2. UNCHANGED <<audit, stale>>
        BY <2>1, <3>2 DEF SaveNote
      <4> QED  BY <2>2, <2>3, <2>4, <3>2, <4>1, <4>2, OthersKeepSentinel DEF TypeInv, e
    <3> QED  BY <3>1, <3>2
  <2> QED  BY <1>1, <2>1, <2>5, NoSpecPassed DEF SaveNote, Idle
<1>8. CASE \E n \in Strays : SaveStray(n)
  <2>1. PICK n \in Strays : SaveStray(n)
    BY <1>8
  <2> DEFINE e == Entry(n.kind, IF n.kind \in Stamped THEN tree ELSE Unstamped, n.items)
  <2>2. e \in LogEntries
    BY <1>1, EntryTypes, ReviewAssumption
  <2>3. e.counts # TRUE
    <3>1. step \notin Owners(n.kind)
      BY <2>1 DEF SaveStray
    <3>2. e.counts = TRUE => step \in Owners(n.kind)
      BY DEF Entry
    <3> QED  BY <3>1, <3>2
  <2>4. log' = Logged(e)
    BY <2>1 DEF SaveStray
  <2> HIDE DEF e
  <2>5. SentinelInv'
    BY <2>1, <2>2, <2>3, <2>4, OthersKeepSentinel DEF SaveStray, TypeInv, history
  <2> QED  BY <1>1, <2>1, <2>5, NoSpecPassed DEF SaveStray, Idle, history
<1>9. CASE \E s \in DOMAIN protocol : Goto(s)
  <2>1. PICK s \in DOMAIN protocol : Goto(s)
    BY <1>9
  <2> DEFINE e == [kind |-> "goto", counts |-> TRUE, hash |-> Unstamped, items |-> {}]
             legacy == \E i \in DOMAIN log : log[i].kind = "spec" /\ log[i].hash = Unstamped
  <2>2. SentinelInv'
    <3>1. CASE protocol[s].code /\ legacy
      BY <2>1, <3>1, GotoTypes, NewGoto DEF Goto, TypeInv
    <3>2. CASE ~(protocol[s].code /\ legacy)
      <4>1. log' = log /\ audit' = audit
        BY <2>1, <3>2 DEF Goto
      <4>2. audit = Legacy => legacy
        BY DEF SentinelInv, Sentinels
      <4>3. stale' = stale
        BY <2>1, <3>2, <4>2 DEF Goto, TypeInv, TypeOK
      <4> QED  BY <1>2, <4>1, <4>3
    <3> QED  BY <3>1, <3>2
  <2> QED  BY <1>1, <2>1, <2>2, NoSpecPassed DEF Goto, Idle
<1>10. CASE BeginAdvance
  BY <1>1, <1>2, <1>10, NoSpecPassed DEF BeginAdvance, history
<1>11. CASE GatePasses
  <2>1. UNCHANGED <<protocol, step, tree, log, pending, touched, audit, stale>> /\ pc' = pc + 1
    BY <1>11 DEF GatePasses, history
  <2>2. ASSUME NEW i \in DOMAIN CurrentGates, CurrentGates[i] = "spec", i < pc + 1
        PROVE  touched \/ audit.saw = tree \/ (audit = Legacy /\ ~stale)
    <3>1. CASE i < pc
      BY <2>2, <3>1 DEF PassedSpec
    <3>2. CASE i = pc
      <4>1. SpecPasses
        BY <1>11, <2>2, <3>2 DEF GatePasses, Passes
      <4> QED  BY <4>1, SpecGate
    <3>3. i \in Nat /\ pc \in Nat
      BY <1>1, ProtocolShape DEF CurrentGates, TypeInv, TypeOK
    <3> QED  BY <2>2, <3>1, <3>2, <3>3
  <2>3. PassedSpec'
    BY <2>1, <2>2 DEF PassedSpec, CurrentGates
  <2> QED  BY <1>2, <2>1, <2>3
<1>12. CASE GateBlocks
  BY <1>1, <1>2, <1>12, NoSpecPassed DEF GateBlocks, history
<1>13. CASE Move
  <2>1. step' \in DOMAIN protocol'
    BY <1>1, <1>13, ProtocolShape DEF Move, Idle, TypeInv
  <2> QED  BY <1>1, <1>2, <1>13, <2>1, NoSpecPassed DEF Move, history
<1>14. CASE \E t \in Trees : Edit(t)
  <2>1. PICK t \in Trees : Edit(t)
    BY <1>14
  <2>2. UNCHANGED <<protocol, step, log, pc, audit, stale>>
    BY <2>1 DEF Edit, history
  <2>3. \A n \in pending' : n.kind \notin Stamped
    BY <2>1 DEF Edit
  <2>4. CASE Idle
    BY <1>1, <1>2, <2>2, <2>3, <2>4, NoSpecPassed DEF Idle
  <2>5. CASE ~Idle
    <3>1. touched'
      BY <2>1, <2>5 DEF Edit
    <3>2. PassedSpec'
      BY <3>1 DEF PassedSpec
    <3> QED  BY <1>2, <2>2, <2>3, <3>2
  <2> QED  BY <2>4, <2>5
<1>15. CASE UNCHANGED vars
  BY <1>2, <1>15 DEF vars, history, PassedSpec, CurrentGates
<1> QED
  BY <1>3, <1>4, <1>5, <1>6, <1>7, <1>8, <1>9, <1>10, <1>11, <1>12, <1>13, <1>14, <1>15
  DEF Next, Agent, Advance

LEMMA AuditInit == Init => TypeInv /\ AuditInv
<1> SUFFICES ASSUME Init  PROVE TypeInv /\ AuditInv
  OBVIOUS
<1>1. TypeInv
  BY TypeInit
<1>2. PassedSpec
  <2>1. protocol \in Protocols /\ step \in DOMAIN protocol
    BY <1>1 DEF TypeInv, TypeOK
  <2>2. DOMAIN CurrentGates = 1..Len(CurrentGates) /\ Len(CurrentGates) \in Nat
    BY <2>1, ProtocolShape DEF CurrentGates
  <2> QED  BY <2>2 DEF Init, PassedSpec
<1>3. SentinelInv
  <2>1. CASE log = <<>> /\ audit = NoAudit
    <3>1. NoAudit # Legacy
      BY LegacyIsUnstamped DEF NoAudit, Legacy
    <3> QED  BY <2>1, <3>1 DEF Init, SentinelInv, Sentinels
  <2> DEFINE e == [kind |-> "spec", counts |-> TRUE, hash |-> Unstamped, items |-> {}]
  <2>2. CASE log = <<e>> /\ audit = Legacy
    <3>1. DOMAIN log = {1} /\ log[1] = e
      BY <2>2
    <3>2. Sentinels = {1} /\ log[1].hash = Unstamped
      BY <3>1 DEF Sentinels
    <3> QED  BY <2>2, <3>2 DEF Init, SentinelInv
  <2> QED  BY <2>1, <2>2 DEF Init
<1>4. \A n \in pending : n.kind \notin Stamped
  BY DEF Init, NothingDeferred, Stamped
<1> QED  BY <1>1, <1>2, <1>3, <1>4 DEF AuditInv

(* For any protocols, trees and stray notes: the code that leaves a step   *)
(* with require_spec_review_passed is the code the latest recorded audit   *)
(* saw, or that audit is one of before notes were stamped and no goto to a *)
(* step that changes code came after it.                                   *)
THEOREM OnlyAuditedCodeLeaves == ~LateNotes => (Spec => LeavesAsAudited)
<1> SUFFICES ASSUME ~LateNotes  PROVE Spec => LeavesAsAudited
  OBVIOUS
<1>1. Init => TypeInv /\ AuditInv
  BY AuditInit
<1>2. TypeInv /\ AuditInv /\ [Next]_vars => TypeInv' /\ AuditInv'
  BY TypeStep, AuditStep
<1>3. ASSUME TypeInv, AuditInv, [Next]_vars
      PROVE  [\A s \in Runs("spec") : Leaves(s) =>
                \/ touched \/ audit.saw = tree
                \/ audit = Legacy /\ ~stale]_vars
  <2> SUFFICES ASSUME NEW s \in Runs("spec"), Leaves(s)
               PROVE  touched \/ audit.saw = tree \/ (audit = Legacy /\ ~stale)
    OBVIOUS
  <2>1. step \in Nat /\ step' = step + 1
    BY <1>3, ProtocolShape DEF TypeInv, TypeOK, Leaves
  <2>2. Move
    BY <1>3, <2>1 DEF Next, Agent, Advance, ReviewCode, AuditSpec, CheckDeferred, Finds,
      SaveRound, SaveNote, SaveStray, Goto, BeginAdvance, GatePasses, GateBlocks, Edit, vars
  <2>3. PICK i \in DOMAIN CurrentGates : CurrentGates[i] = "spec"
    BY DEF Runs, Gated, Leaves, CurrentGates
  <2>4. i \in Nat /\ i <= Len(CurrentGates) /\ Len(CurrentGates) \in Nat /\ pc \in Nat
    BY ProtocolShape, <1>3 DEF TypeInv, TypeOK, CurrentGates
  <2> QED  BY <1>3, <2>2, <2>3, <2>4 DEF Move, AuditInv, PassedSpec
<1> QED  BY <1>1, <1>2, <1>3, PTL DEF Spec, LeavesAsAudited

-------------------------------------------------------------------------------
(* Deferrals.                                                              *)

CountingNotes(kind) == {i \in DOMAIN log : log[i].kind = kind /\ log[i].counts = TRUE}

(* The carriage and the check behind the sentinel are those of its audit.  *)
FollowUps ==
  /\ \A s \in CountingNotes("spec"), c \in CountingNotes("carriage") : s < c => log[c].items = audit.items
  /\ \A s \in CountingNotes("spec"), d \in CountingNotes("done") : s < d =>
       \E n \in check : n.items = audit.items /\ n.saw \in Trees /\ log[d].hash \in {n.saw, NoHash}
  /\ audit.items # {} => CountingNotes("spec") # {}

(* So are those that wait to be saved.                                     *)
PendingFollowUps ==
  /\ pending # {} => step < Len(protocol)
  /\ \A n \in pending :
       /\ n.kind = "carriage" => /\ \A m \in pending : m.kind = "spec" => m.items = n.items
                                 /\ (\A m \in pending : m.kind # "spec") => n.items = audit.items
       /\ n.kind = "done" => n.items = audit.items /\ \A m \in pending : m.kind # "spec"

(* A deferral is still in its step, or is to be confirmed before the end.  *)
Carried == CountingNotes("carriage") # {} /\ Len(protocol) - 1 \in Runs("deferred")
DeferralIsCarried ==
  audit.items = {} \/ Carried \/ \E r \in Runs("spec") : step <= r /\ r < Len(protocol)

ConfirmedSince == \E n \in check : audit.items \subseteq n.items /\ (touched \/ n.saw = tree)
PassedDeferral ==
  \A i \in DOMAIN CurrentGates : i < pc =>
    /\ CurrentGates[i] = "spec" => audit.items = {} \/ Carried
    /\ CurrentGates[i] = "deferred" => audit.items = {} \/ CountingNotes("carriage") = {} \/ ConfirmedSince

DeferralInv == FollowUps /\ PendingFollowUps /\ DeferralIsCarried /\ PassedDeferral

(* What lies behind another note in a new log did so before, or is new.    *)
LEMMA LaterIs ==
  ASSUME LogInv, NEW e \in LogEntries, log' = Logged(e), NEW k1, NEW k2,
         NEW i \in CountingNotes(k1)', NEW j \in CountingNotes(k2)', i < j
  PROVE  /\ ~SameSort(log'[i], e)
         /\ \/ log'[j] = e
            \/ \E a \in CountingNotes(k1), b \in CountingNotes(k2) : a < b /\ log'[i] = log[a] /\ log'[j] = log[b]
<1> DEFINE p == Latest(e.kind, e.counts)
           n == Len(log')
<1>1. /\ n \in Nat \ {0} /\ log'[n] = e /\ DOMAIN log' = 1..n
      /\ \A x \in 1..(n - 1) :
           /\ OldPlace(p, x) \in DOMAIN log /\ log'[x] = log[OldPlace(p, x)]
           /\ ~SameSort(log'[x], e)
  BY LoggedIs
<1>2. p = 0 \/ p \in Nat
  BY LatestIs, LenProperties DEF LogInv
<1> HIDE DEF p, n
<1>3. i \in 1..n /\ j \in 1..n /\ i \in 1..(n - 1)
  BY <1>1 DEF CountingNotes
<1>4. ~SameSort(log'[i], e)
  BY <1>1, <1>3
<1>5. CASE j = n
  BY <1>1, <1>4, <1>5
<1>6. CASE j # n
  <2>1. j \in 1..(n - 1)
    BY <1>1, <1>3, <1>6
  <2>2. OldPlace(p, i) < OldPlace(p, j)
    BY <1>1, <1>2, <1>3, <2>1 DEF OldPlace
  <2>3. OldPlace(p, i) \in CountingNotes(k1) /\ OldPlace(p, j) \in CountingNotes(k2)
    BY <1>1, <1>3, <2>1 DEF CountingNotes
  <2> QED  BY <1>1, <1>3, <1>4, <2>1, <2>2, <2>3
<1> QED  BY <1>5, <1>6

(* No sort of note disappears from the log.                                *)
LEMMA SortsStay ==
  ASSUME LogInv, NEW e \in LogEntries, log' = Logged(e), NEW k,
         CountingNotes(k) # {} \/ (e.kind = k /\ e.counts = TRUE)
  PROVE  CountingNotes(k)' # {}
<1> DEFINE p == Latest(e.kind, e.counts)
           n == Len(log')
<1>0. /\ n \in Nat \ {0} /\ log'[n] = e /\ DOMAIN log' = 1..n
      /\ \A x \in 1..(n - 1) : OldPlace(p, x) \in DOMAIN log /\ log'[x] = log[OldPlace(p, x)]
  BY LoggedIs
<1>1. \A i \in DOMAIN log : ~SameSort(log[i], e) => \E x \in 1..(n - 1) : OldPlace(p, x) = i
  BY LoggedIs
<1> HIDE DEF p, n
<1>2. CASE e.kind = k /\ e.counts = TRUE
  <2>1. n \in CountingNotes(k)'
    BY <1>0, <1>2 DEF CountingNotes
  <2> QED  BY <2>1
<1>3. CASE ~(e.kind = k /\ e.counts = TRUE)
  <2>1. PICK i \in CountingNotes(k) : TRUE
    BY <1>3
  <2>2. PICK x \in 1..(n - 1) : OldPlace(p, x) = i
    BY <1>1, <1>3, <2>1 DEF CountingNotes, SameSort
  <2>3. x \in CountingNotes(k)'
    BY <1>0, <2>1, <2>2 DEF CountingNotes
  <2> QED  BY <2>3
<1> QED  BY <1>2, <1>3

(* An entry that is no follow-up leaves them as they are.                  *)
LEMMA OthersKeepFollowUps ==
  ASSUME LogInv, FollowUps, NEW e \in LogEntries, log' = Logged(e),
         e.counts = TRUE => e.kind \notin {"spec", "carriage", "done"},
         UNCHANGED <<audit, check>>
  PROVE  FollowUps'
<1>1. ASSUME NEW s \in CountingNotes("spec")', NEW c \in CountingNotes("carriage")', s < c
      PROVE  log'[c].items = audit'.items
  <2>1. log'[c] # e
    BY DEF CountingNotes
  <2>2. \E a \in CountingNotes("spec"), b \in CountingNotes("carriage") : a < b /\ log'[s] = log[a] /\ log'[c] = log[b]
    BY <1>1, <2>1, LaterIs
  <2> QED  BY <2>2 DEF FollowUps
<1>2. ASSUME NEW s \in CountingNotes("spec")', NEW d \in CountingNotes("done")', s < d
      PROVE  \E n \in check' : n.items = audit'.items /\ n.saw \in Trees /\ log'[d].hash \in {n.saw, NoHash}
  <2>1. log'[d] # e
    BY DEF CountingNotes
  <2>2. \E a \in CountingNotes("spec"), b \in CountingNotes("done") : a < b /\ log'[s] = log[a] /\ log'[d] = log[b]
    BY <1>2, <2>1, LaterIs
  <2> QED  BY <2>2 DEF FollowUps
<1>3. audit'.items # {} => CountingNotes("spec")' # {}
  BY SortsStay DEF FollowUps
<1> QED  BY <1>1, <1>2, <1>3 DEF FollowUps

LEMMA NewAudit ==
  ASSUME LogInv, NEW e \in LogEntries, log' = Logged(e), e.kind = "spec" /\ e.counts = TRUE
  PROVE  FollowUps'
<1>1. ASSUME NEW k, NEW s \in CountingNotes("spec")', NEW c \in CountingNotes(k)', s < c  PROVE FALSE
  <2>1. ~SameSort(log'[s], e)
    BY <1>1, LaterIs
  <2> QED  BY <2>1 DEF CountingNotes, SameSort
<1>2. CountingNotes("spec")' # {}
  BY SortsStay
<1> QED  BY <1>1, <1>2 DEF FollowUps

LEMMA NewCarriage ==
  ASSUME LogInv, FollowUps, NEW e \in LogEntries, log' = Logged(e), e.kind = "carriage" /\ e.counts = TRUE,
         e.items = audit.items, UNCHANGED <<audit, check>>
  PROVE  FollowUps'
<1>1. ASSUME NEW s \in CountingNotes("spec")', NEW c \in CountingNotes("carriage")', s < c
      PROVE  log'[c].items = audit'.items
  <2>1. \/ log'[c] = e
        \/ \E a \in CountingNotes("spec"), b \in CountingNotes("carriage") : a < b /\ log'[s] = log[a] /\ log'[c] = log[b]
    BY <1>1, LaterIs
  <2> QED  BY <2>1 DEF FollowUps
<1>2. ASSUME NEW s \in CountingNotes("spec")', NEW d \in CountingNotes("done")', s < d
      PROVE  \E n \in check' : n.items = audit'.items /\ n.saw \in Trees /\ log'[d].hash \in {n.saw, NoHash}
  <2>1. log'[d] # e
    BY DEF CountingNotes
  <2>2. \E a \in CountingNotes("spec"), b \in CountingNotes("done") : a < b /\ log'[s] = log[a] /\ log'[d] = log[b]
    BY <1>2, <2>1, LaterIs
  <2> QED  BY <2>2 DEF FollowUps
<1>3. audit'.items # {} => CountingNotes("spec")' # {}
  BY SortsStay DEF FollowUps
<1> QED  BY <1>1, <1>2, <1>3 DEF FollowUps

(* The new entry is the only one of its sort.                              *)
LEMMA OnlyOfItsSort ==
  ASSUME LogInv, NEW e \in LogEntries, log' = Logged(e), NEW d \in DOMAIN log', SameSort(log'[d], e)
  PROVE  log'[d] = e
<1>1. LET l == Logged(e)
      IN  /\ Len(l) \in Nat \ {0} /\ l[Len(l)] = e /\ DOMAIN l = 1..Len(l)
          /\ \A j \in 1..(Len(l) - 1) : ~SameSort(l[j], e)
  BY LoggedIs
<1>2. /\ Len(log') \in Nat \ {0} /\ log'[Len(log')] = e /\ DOMAIN log' = 1..Len(log')
      /\ \A j \in 1..(Len(log') - 1) : ~SameSort(log'[j], e)
  BY <1>1
<1>3. d \in 1..Len(log') /\ d \notin 1..(Len(log') - 1)
  BY <1>2
<1>4. d = Len(log')
  BY <1>2, <1>3
<1> QED  BY <1>2, <1>4

LEMMA NewCheck ==
  ASSUME LogInv, FollowUps, NEW e \in LogEntries, log' = Logged(e), e.kind = "done" /\ e.counts = TRUE,
         NEW n \in Note, check' = {n}, n.items = audit.items, n.saw \in Trees, e.hash \in {n.saw, NoHash},
         UNCHANGED audit
  PROVE  FollowUps'
<1>1. ASSUME NEW s \in CountingNotes("spec")', NEW c \in CountingNotes("carriage")', s < c
      PROVE  log'[c].items = audit'.items
  <2>1. log'[c] # e
    BY DEF CountingNotes
  <2>2. \E a \in CountingNotes("spec"), b \in CountingNotes("carriage") : a < b /\ log'[s] = log[a] /\ log'[c] = log[b]
    BY <1>1, <2>1, LaterIs
  <2> QED  BY <2>2 DEF FollowUps
<1>2. ASSUME NEW s \in CountingNotes("spec")', NEW d \in CountingNotes("done")', s < d
      PROVE  n.items = audit'.items /\ n.saw \in Trees /\ log'[d].hash \in {n.saw, NoHash}
  <2>1. d \in DOMAIN log' /\ SameSort(log'[d], e)
    BY DEF CountingNotes, SameSort
  <2>2. log'[d] = e
    BY <2>1, OnlyOfItsSort
  <2> QED  BY <2>2
<1>3. audit'.items # {} => CountingNotes("spec")' # {}
  BY SortsStay DEF FollowUps
<1> QED  BY <1>1, <1>2, <1>3 DEF FollowUps

(* What the gates let through.                                             *)
LEMMA SpecGateCarries ==
  ASSUME ConfirmsBeforeTheEnd, TypeInv, FollowUps, SpecPasses, step \in Runs("spec")
  PROVE  audit.items = {} \/ Carried
<1> DEFINE s == Latest("spec", TRUE)
           c == Latest("carriage", TRUE)
<1>1. \A i \in DOMAIN log : i \in Nat \ {0}
  BY LenProperties DEF TypeInv, LogInv
<1>2. s # 0 /\ CarriageIsGood(s, c)
  BY DEF SpecPasses, Sentinel, Carriage
<1>3. s \in CountingNotes("spec") /\ s \in Nat \ {0}
  BY <1>1, <1>2, LatestIs DEF CountingNotes, TypeInv
<1>4. c = 0 \/ (c \in CountingNotes("carriage") /\ c \in Nat \ {0})
  BY <1>1, LatestIs DEF CountingNotes, TypeInv
<1> HIDE DEF s, c
<1>5. c > s /\ (log[c].items = {} \/ \E r \in Runs("deferred") : r > step)
  BY <1>2 DEF CarriageIsGood
<1>6. c \in CountingNotes("carriage") /\ s < c
  BY <1>3, <1>4, <1>5
<1>7. log[c].items = audit.items
  BY <1>3, <1>6 DEF FollowUps
<1>8. CASE \E r \in Runs("deferred") : r > step
  <2>1. PICK r \in Runs("deferred") : r > step
    BY <1>8
  <2>2. protocol \in Protocols /\ step \in Nat /\ r \in Nat
    BY <2>1, ProtocolShape DEF TypeInv, TypeOK, Runs, Gated
  <2>3. Len(protocol) - 1 \in Gated(protocol, "deferred")
    BY <2>1, <2>2 DEF ConfirmsBeforeTheEnd, Runs
  <2> QED  BY <1>6, <2>3 DEF Carried, Runs
<1> QED  BY <1>5, <1>7, <1>8

LEMMA DeferredGateConfirms ==
  ASSUME TypeInv, FollowUps, DeferredDone
  PROVE  audit.items = {} \/ CountingNotes("carriage") = {} \/ ConfirmedSince
<1> DEFINE s == Latest("spec", TRUE)
           c == Latest("carriage", TRUE)
           d == Latest("done", TRUE)
<1> SUFFICES ASSUME audit.items # {}, CountingNotes("carriage") # {}  PROVE ConfirmedSince
  OBVIOUS
<1>1. \A i \in DOMAIN log : i \in Nat \ {0}
  BY LenProperties DEF TypeInv, LogInv
<1>2. s \in CountingNotes("spec") /\ s \in Nat \ {0}
  BY <1>1, LatestIs DEF CountingNotes, TypeInv, FollowUps
<1>3. c \in CountingNotes("carriage") /\ c \in Nat \ {0}
  BY <1>1, LatestIs DEF CountingNotes, TypeInv
<1>4. c > s /\ (log[c].items = {} \/ Confirmed(c, d))
  BY <1>3 DEF DeferredDone, Sentinel, Carriage
<1>5. d = 0 \/ (d \in CountingNotes("done") /\ d \in Nat \ {0})
  BY <1>1, LatestIs DEF CountingNotes, TypeInv
<1> HIDE DEF s, c, d
<1>6. log[c].items = audit.items
  BY <1>2, <1>3, <1>4 DEF FollowUps
<1>7. d > c /\ log[d].hash = tree
  BY <1>4, <1>6 DEF Confirmed, Matches
<1>8. d \in CountingNotes("done") /\ s < d
  BY <1>2, <1>3, <1>4, <1>5, <1>7
<1>9. PICK n \in check : n.items = audit.items /\ n.saw \in Trees /\ log[d].hash \in {n.saw, NoHash}
  BY <1>2, <1>8 DEF FollowUps
<1>10. tree # NoHash
  BY ReviewAssumption DEF TypeInv, TypeOK
<1> QED  BY <1>7, <1>9, <1>10 DEF ConfirmedSince

(* Between two calls, and at the first gate, no gate has passed yet.       *)
LEMMA NoDeferralPassed ==
  ASSUME protocol' \in Protocols, step' \in DOMAIN protocol', pc' \in {0, 1}
  PROVE  PassedDeferral'
<1>1. DOMAIN CurrentGates' = 1..Len(CurrentGates') /\ Len(CurrentGates') \in Nat
  BY ProtocolShape DEF CurrentGates
<1> QED  BY <1>1 DEF PassedDeferral

(* A new entry of the log, or none, carries what was carried.              *)
LEMMA CarriedOn ==
  ASSUME TypeInv, DeferralIsCarried, UNCHANGED <<protocol, audit>>, step' \in Nat, step' <= step,
         UNCHANGED log \/ \E e \in LogEntries : log' = Logged(e)
  PROVE  DeferralIsCarried'
<1>1. CountingNotes("carriage") # {} => CountingNotes("carriage")' # {}
  <2>1. CASE UNCHANGED log
    BY <2>1 DEF CountingNotes
  <2>2. CASE \E e \in LogEntries : log' = Logged(e)
    BY <2>2, SortsStay DEF TypeInv
  <2> QED  BY <2>1, <2>2
<1>2. Carried => Carried'
  BY <1>1 DEF Carried, Runs
<1>3. \A r \in Runs("spec") : step <= r => r \in Runs("spec")' /\ step' <= r
  <2>1. step \in Nat /\ \A r \in Runs("spec") : r \in Nat
    BY ProtocolShape DEF TypeInv, TypeOK, Runs, Gated
  <2> QED  BY <2>1 DEF Runs
<1> QED  BY <1>2, <1>3 DEF DeferralIsCarried

LEMMA DeferralStep ==
  ASSUME ~LateNotes, ConfirmsBeforeTheEnd, TypeInv, TypeInv', AuditInv, DeferralInv, [Next]_vars
  PROVE  DeferralInv'
<1>1. /\ protocol \in Protocols /\ step \in DOMAIN protocol /\ tree \in Trees
      /\ step \in Nat /\ Len(protocol) \in Nat /\ DOMAIN protocol = 1..Len(protocol)
  BY ProtocolShape DEF TypeInv, TypeOK
<1> USE DEF DeferralInv
<1>2. ASSUME UNCHANGED <<log, audit, check>>  PROVE FollowUps'
  BY <1>2 DEF FollowUps, CountingNotes
<1>3. ASSUME UNCHANGED <<protocol, step, pending, audit>>  PROVE PendingFollowUps'
  BY <1>3 DEF PendingFollowUps
<1>4. ASSUME NEW notes, Finds(notes),
             \A n \in notes : n.kind = "carriage" =>
               \E m \in notes : m.kind = "spec" /\ \A x \in notes : x.kind = "spec" => x.items = n.items,
             \A n \in notes : n.kind = "done" => n.items = audit.items /\ \A m \in notes : m.kind # "spec"
      PROVE  DeferralInv'
  <2>1. UNCHANGED <<protocol, step, tree, log, pc, touched, audit, check>> /\ pc = 0 /\ pending' = notes /\ step < Len(protocol)
    BY <1>4 DEF Finds, Idle, history
  <2>2. PendingFollowUps'
    BY <1>4, <2>1 DEF PendingFollowUps
  <2> QED  BY <1>1, <1>2, <2>1, <2>2, CarriedOn, NoDeferralPassed
<1>5. CASE ReviewCode
  <2> DEFINE notes == {[kind |-> "round", items |-> {}, saw |-> tree]}
  <2>1. \A n \in notes : n.kind = "round"
    OBVIOUS
  <2> QED  BY <1>4, <1>5, <2>1 DEF ReviewCode
<1>6. CASE \E d \in SUBSET Criteria : AuditSpec(d)
  <2>1. PICK d \in SUBSET Criteria : AuditSpec(d)
    BY <1>6
  <2> DEFINE notes == {[kind |-> "spec", items |-> d, saw |-> tree],
                       [kind |-> "carriage", items |-> d, saw |-> tree]}
  <2>2. /\ \A n \in notes : n.kind \in {"spec", "carriage"} /\ n.items = d
        /\ \E m \in notes : m.kind = "spec"
    OBVIOUS
  <2>3. Finds(notes)
    BY <2>1 DEF AuditSpec
  <2> HIDE DEF notes
  <2> QED  BY <1>4, <2>2, <2>3
<1>7. CASE CheckDeferred
  <2> DEFINE notes == {[kind |-> "done", items |-> audit.items, saw |-> tree]}
  <2>1. \A n \in notes : n.kind = "done" /\ n.items = audit.items
    OBVIOUS
  <2>2. Finds(notes)
    BY <1>7 DEF CheckDeferred
  <2> HIDE DEF notes
  <2> QED  BY <1>4, <2>1, <2>2
<1>8. CASE \E n \in pending : SaveRound(n)
  <2>1. PICK n \in pending : SaveRound(n)
    BY <1>8
  <2>2. /\ UNCHANGED <<protocol, step, tree, log, pc, touched, audit, check>> /\ pc = 0
        /\ pending' = pending \ {n} /\ n.kind = "round"
    BY <2>1 DEF SaveRound, Idle
  <2>3. PendingFollowUps'
    BY <2>2 DEF PendingFollowUps
  <2> QED  BY <1>1, <1>2, <2>2, <2>3, CarriedOn, NoDeferralPassed
<1>9. CASE \E n \in pending : SaveNote(n)
  <2>1. PICK n \in pending : SaveNote(n)
    BY <1>9
  <2>2. PICK hash \in Stamp(n.kind) : log' = Logged(Entry(n.kind, hash, n.items))
    BY <2>1 DEF SaveNote
  <2> DEFINE e == Entry(n.kind, hash, n.items)
  <2>3. e \in LogEntries /\ n \in Note /\ n.kind # "round"
    BY <2>1, <2>2, EntryTypes, StampTypes DEF SaveNote, TypeInv, TypeOK
  <2>4. e.kind = n.kind /\ e.counts = TRUE /\ e.hash = hash /\ e.items = n.items /\ log' = Logged(e)
    BY <2>1, <2>2 DEF Entry, SaveNote
  <2> HIDE DEF e
  <2>5. /\ UNCHANGED <<protocol, step, tree, pc, touched>> /\ pc = 0 /\ pending' = pending \ {n}
        /\ step < Len(protocol) /\ step \in Owners(n.kind)
        /\ n.kind = "carriage" => \A m \in pending : m.kind # "spec"
    BY <2>1 DEF SaveNote, Idle, PendingFollowUps
  <2>6. PassedDeferral'
    BY <1>1, <2>5, NoDeferralPassed
  <2>7. CASE n.kind = "spec"
    <3>1. audit' = n
      BY <2>1, <2>7 DEF SaveNote
    <3>2. FollowUps'
      BY <2>3, <2>4, <2>7, NewAudit DEF TypeInv
    <3>3. PendingFollowUps'
      BY <2>5, <2>7, <3>1 DEF PendingFollowUps
    <3>4. step \in Runs("spec")
      BY <2>5, <2>7 DEF Owners
    <3>5. DeferralIsCarried'
      BY <1>1, <2>5, <3>4 DEF DeferralIsCarried, Runs
    <3> QED  BY <2>6, <3>2, <3>3, <3>5
  <2>8. CASE n.kind = "carriage"
    <3>1. UNCHANGED <<audit, check>> /\ n.items = audit.items
      BY <2>1, <2>5, <2>8 DEF SaveNote, PendingFollowUps
    <3>2. FollowUps'
      BY <2>3, <2>4, <2>8, <3>1, NewCarriage DEF TypeInv
    <3>3. PendingFollowUps'
      BY <2>5, <3>1 DEF PendingFollowUps
    <3> QED  BY <1>1, <2>3, <2>4, <2>5, <2>6, <3>1, <3>2, <3>3, CarriedOn
  <2>9. CASE n.kind = "done"
    <3>1. audit' = audit /\ check' = {n} /\ n.items = audit.items /\ \A m \in pending : m.kind # "spec"
      BY <2>1, <2>9 DEF SaveNote, PendingFollowUps
    <3>2. n.saw = tree /\ hash \in {tree, NoHash}
      BY <2>1, <2>2, <2>9 DEF Stamp, Stamped, AuditInv
    <3>3. FollowUps'
      BY <1>1, <2>3, <2>4, <2>9, <3>1, <3>2, NewCheck DEF TypeInv
    <3>4. PendingFollowUps'
      BY <2>5, <3>1 DEF PendingFollowUps
    <3> QED  BY <1>1, <2>3, <2>4, <2>5, <2>6, <3>1, <3>3, <3>4, CarriedOn
  <2>10. n.kind \in {"spec", "carriage", "done"}
    BY <2>3 DEF Note, Kinds, Stamped
  <2> QED  BY <2>7, <2>8, <2>9, <2>10
<1>10. CASE \E n \in Strays : SaveStray(n)
  <2>1. PICK n \in Strays : SaveStray(n)
    BY <1>10
  <2> DEFINE e == Entry(n.kind, IF n.kind \in Stamped THEN tree ELSE Unstamped, n.items)
  <2>2. e \in LogEntries
    BY <1>1, EntryTypes, ReviewAssumption
  <2>3. e.counts # TRUE
    <3>1. step \notin Owners(n.kind)
      BY <2>1 DEF SaveStray
    <3>2. e.counts = TRUE => step \in Owners(n.kind)
      BY DEF Entry
    <3> QED  BY <3>1, <3>2
  <2>4. log' = Logged(e) /\ UNCHANGED <<protocol, step, tree, pc, pending, touched, audit, check>> /\ pc = 0
    BY <2>1 DEF SaveStray, Idle, history
  <2> HIDE DEF e
  <2>5. FollowUps'
    BY <2>2, <2>3, <2>4, OthersKeepFollowUps DEF TypeInv
  <2> QED  BY <1>1, <1>3, <2>2, <2>4, <2>5, CarriedOn, NoDeferralPassed
<1>11. CASE \E s \in DOMAIN protocol : Goto(s)
  <2>1. PICK s \in DOMAIN protocol : Goto(s)
    BY <1>11
  <2> DEFINE e == [kind |-> "goto", counts |-> TRUE, hash |-> Unstamped, items |-> {}]
  <2>2. /\ UNCHANGED <<protocol, tree, pc, touched, audit, check>> /\ pc = 0 /\ pending' = {}
        /\ step' = s /\ s \in Nat /\ s < step
        /\ log' = log \/ log' = Logged(e)
    BY <1>1, <2>1 DEF Goto, Idle
  <2>3. e \in LogEntries /\ e.kind = "goto"
    BY GotoTypes
  <2> HIDE DEF e
  <2>4. FollowUps'
    BY <1>2, <2>2, <2>3, OthersKeepFollowUps DEF TypeInv
  <2>5. PendingFollowUps'
    BY <2>2 DEF PendingFollowUps
  <2>6. DeferralIsCarried'
    BY <1>1, <2>2, <2>3, CarriedOn
  <2> QED  BY <1>1, <2>1, <2>2, <2>4, <2>5, <2>6, NoDeferralPassed
<1>12. ASSUME UNCHANGED <<protocol, step, log, audit, check, pending>>, PassedDeferral'  PROVE DeferralInv'
  BY <1>1, <1>2, <1>3, <1>12, CarriedOn
<1>13. CASE BeginAdvance
  BY <1>1, <1>12, <1>13, NoDeferralPassed DEF BeginAdvance, history
<1>14. CASE GatePasses
  <2>1. UNCHANGED <<protocol, step, tree, log, pending, touched, audit, check>> /\ pc' = pc + 1
    BY <1>14 DEF GatePasses, history
  <2>2. ASSUME NEW i \in DOMAIN CurrentGates, i < pc + 1
        PROVE  /\ CurrentGates[i] = "spec" => audit.items = {} \/ Carried
               /\ CurrentGates[i] = "deferred" =>
                    audit.items = {} \/ CountingNotes("carriage") = {} \/ ConfirmedSince
    <3>1. CASE i < pc
      BY <3>1 DEF PassedDeferral
    <3>2. CASE i = pc
      <4>1. CurrentGates[i] = "spec" => SpecPasses /\ step \in Runs("spec")
        BY <1>1, <1>14, <2>2, <3>2 DEF GatePasses, Passes, Runs, Gated, CurrentGates
      <4>2. CurrentGates[i] = "deferred" => DeferredDone
        BY <1>14, <3>2 DEF GatePasses, Passes
      <4> QED  BY <4>1, <4>2, SpecGateCarries, DeferredGateConfirms
    <3>3. i \in Nat /\ pc \in Nat
      BY <1>1, ProtocolShape DEF CurrentGates, TypeInv, TypeOK
    <3> QED  BY <2>2, <3>1, <3>2, <3>3
  <2>3. Carried' = Carried /\ ConfirmedSince' = ConfirmedSince /\ CountingNotes("carriage")' = CountingNotes("carriage")
    BY <2>1 DEF Carried, ConfirmedSince, CountingNotes, Runs
  <2>4. PassedDeferral'
    BY <2>1, <2>2, <2>3 DEF PassedDeferral, CurrentGates
  <2> QED  BY <1>12, <2>1, <2>4
<1>15. CASE GateBlocks
  BY <1>1, <1>12, <1>15, NoDeferralPassed DEF GateBlocks, history
<1>16. CASE Move
  <2>1. /\ UNCHANGED <<protocol, tree, log, audit, check>> /\ pending' = {} /\ pc' = 0
        /\ step' = step + 1 /\ pc > Len(CurrentGates) /\ step < Len(protocol)
    BY <1>16 DEF Move, Idle, history, TypeInv
  <2>2. step' \in DOMAIN protocol'
    BY <1>1, <2>1
  <2>3. PendingFollowUps'
    BY <2>1 DEF PendingFollowUps
  <2>4. Carried => Carried'
    BY <2>1 DEF Carried, CountingNotes, Runs
  <2>5. DeferralIsCarried'
    <3>1. CASE audit.items = {} \/ Carried
      BY <2>1, <2>4, <3>1 DEF DeferralIsCarried
    <3>2. CASE \E r \in Runs("spec") : step <= r /\ r < Len(protocol)
      <4>1. PICK r \in Runs("spec") : step <= r /\ r < Len(protocol)
        BY <3>2
      <4>2. r \in Nat
        BY <1>1 DEF Runs, Gated
      <4>3. CASE r = step
        <5>1. PICK i \in DOMAIN CurrentGates : CurrentGates[i] = "spec"
          BY <4>1, <4>3 DEF Runs, Gated, CurrentGates
        <5>2. i \in Nat /\ i <= Len(CurrentGates) /\ Len(CurrentGates) \in Nat /\ pc \in Nat
          BY <1>1, ProtocolShape DEF TypeInv, TypeOK, CurrentGates
        <5>3. audit.items = {} \/ Carried
          BY <2>1, <5>1, <5>2 DEF PassedDeferral
        <5> QED  BY <3>1, <5>3
      <4>4. CASE r # step
        <5>1. r \in Runs("spec")' /\ step' <= r /\ r < Len(protocol')
          BY <1>1, <2>1, <4>1, <4>2, <4>4 DEF Runs
        <5> QED  BY <5>1 DEF DeferralIsCarried
      <4> QED  BY <4>3, <4>4
    <3> QED  BY <3>1, <3>2 DEF DeferralIsCarried
  <2> QED  BY <1>1, <1>2, <2>1, <2>2, <2>3, <2>5, NoDeferralPassed
<1>17. CASE \E t \in Trees : Edit(t)
  <2>1. PICK t \in Trees : Edit(t)
    BY <1>17
  <2>2. /\ UNCHANGED <<protocol, step, log, pc, audit, check>> /\ pending' \in {pending, {}}
        /\ touched' = (touched \/ ~Idle)
    BY <2>1 DEF Edit, history
  <2>3. PendingFollowUps'
    BY <2>2 DEF PendingFollowUps
  <2>4. PassedDeferral'
    <3>1. CASE Idle
      BY <1>1, <2>2, <3>1, NoDeferralPassed DEF Idle
    <3>2. CASE ~Idle
      <4>1. Carried' = Carried /\ CountingNotes("carriage")' = CountingNotes("carriage") /\ (ConfirmedSince => ConfirmedSince')
        BY <2>2, <3>2 DEF Carried, ConfirmedSince, CountingNotes, Runs
      <4> QED  BY <2>2, <4>1 DEF PassedDeferral, CurrentGates
    <3> QED  BY <3>1, <3>2
  <2> QED  BY <1>1, <1>2, <2>2, <2>3, <2>4, CarriedOn
<1>18. CASE UNCHANGED vars
  <2>1. UNCHANGED <<protocol, step, tree, log, pc, pending, touched, audit, check>>
    BY <1>18 DEF vars, history
  <2>2. Carried' = Carried /\ CountingNotes("carriage")' = CountingNotes("carriage") /\ ConfirmedSince' = ConfirmedSince
    BY <2>1 DEF Carried, ConfirmedSince, CountingNotes, Runs
  <2>3. PassedDeferral'
    BY <2>1, <2>2 DEF PassedDeferral, CurrentGates
  <2> QED  BY <1>12, <2>1, <2>3
<1> QED
  BY <1>5, <1>6, <1>7, <1>8, <1>9, <1>10, <1>11, <1>13, <1>14, <1>15, <1>16, <1>17, <1>18
  DEF Next, Agent, Advance

(* For any protocols that run the deferred gate in their last step but one *)
(* wherever an audit may defer, and any trees and stray notes: what the    *)
(* latest audit deferred is confirmed, on the code as it is, before the    *)
(* last step begins.                                                       *)
THEOREM DeferralsAlwaysConfirmed ==
  ~LateNotes /\ ConfirmsBeforeTheEnd => (Spec => DeferralsAreConfirmed)
<1> SUFFICES ASSUME ~LateNotes, ConfirmsBeforeTheEnd  PROVE Spec => DeferralsAreConfirmed
  OBVIOUS
<1> DEFINE Inv == TypeInv /\ AuditInv /\ DeferralInv
<1>1. Init => Inv
  <2> SUFFICES ASSUME Init  PROVE Inv
    OBVIOUS
  <2>1. TypeInv /\ AuditInv
    BY TypeInit, AuditInit
  <2>2. audit.items = {} /\ audit.saw \in {NoHash, Unstamped} /\ pc = 0 /\ step \in DOMAIN protocol /\ protocol \in Protocols
    BY <2>1 DEF Init, NoAudit, Legacy, TypeInv, TypeOK
  <2>3. \A i \in DOMAIN log : log[i].kind = "spec"
    <3>1. CASE log = <<>>
      BY <3>1
    <3> DEFINE e == [kind |-> "spec", counts |-> TRUE, hash |-> Unstamped, items |-> {}]
    <3>2. CASE log = <<e>>
      <4>1. DOMAIN log = {1} /\ log[1] = e
        BY <3>2
      <4> QED  BY <4>1
    <3> QED  BY <3>1, <3>2 DEF Init
  <2>4. FollowUps
    BY <2>2, <2>3 DEF FollowUps, CountingNotes
  <2>5. PendingFollowUps
    <3>1. CASE step = 1 /\ pending = {}
      BY <3>1 DEF PendingFollowUps
    <3>2. CASE step # Len(protocol) /\ pending = {NothingDeferred}
      <4>1. step < Len(protocol)
        BY <2>2, <3>2, ProtocolShape
      <4> QED  BY <2>2, <3>2, <4>1 DEF PendingFollowUps, NothingDeferred
    <3> QED  BY <3>1, <3>2 DEF Init
  <2>6. DeferralIsCarried
    BY <2>2 DEF DeferralIsCarried
  <2>7. PassedDeferral
    BY <2>2 DEF PassedDeferral
  <2> QED  BY <2>1, <2>4, <2>5, <2>6, <2>7 DEF DeferralInv
<1>2. Inv /\ [Next]_vars => Inv'
  BY TypeStep, AuditStep, DeferralStep
<1>3. ASSUME Inv, [Next]_vars
      PROVE  [\A s \in DOMAIN protocol : Leaves(s) /\ s + 1 = Len(protocol) =>
                \/ audit.items = {}
                \/ \E n \in check : audit.items \subseteq n.items /\ (touched \/ n.saw = tree)]_vars
  <2> SUFFICES ASSUME NEW s \in DOMAIN protocol, Leaves(s), s + 1 = Len(protocol)
               PROVE  audit.items = {} \/ ConfirmedSince
    BY DEF ConfirmedSince
  <2>1. step \in Nat /\ step' = step + 1 /\ step + 1 = Len(protocol)
    BY <1>3, ProtocolShape DEF TypeInv, TypeOK, Leaves
  <2>2. Move
    BY <1>3, <2>1 DEF Next, Agent, Advance, ReviewCode, AuditSpec, CheckDeferred, Finds,
      SaveRound, SaveNote, SaveStray, Goto, BeginAdvance, GatePasses, GateBlocks, Edit, vars
  <2>3. \A i \in DOMAIN CurrentGates : i < pc
    <3>1. \A i \in DOMAIN CurrentGates : i \in Nat /\ i <= Len(CurrentGates) /\ Len(CurrentGates) \in Nat /\ pc \in Nat
      BY ProtocolShape, <1>3 DEF TypeInv, TypeOK, CurrentGates
    <3> QED  BY <2>2, <3>1 DEF Move
  <2>4. step \in Runs("spec") => audit.items = {} \/ Carried
    BY <1>3, <2>3 DEF DeferralInv, PassedDeferral, Runs, Gated, CurrentGates
  <2>5. step \in Runs("deferred") => audit.items = {} \/ CountingNotes("carriage") = {} \/ ConfirmedSince
    BY <1>3, <2>3 DEF DeferralInv, PassedDeferral, Runs, Gated, CurrentGates
  <2>6. audit.items = {} \/ Carried
    <3>1. ASSUME NEW r \in Runs("spec"), step <= r, r < Len(protocol)  PROVE r = step
      <4>1. r \in Nat
        BY <1>3, ProtocolShape DEF TypeInv, TypeOK, Runs, Gated
      <4> QED  BY <2>1, <3>1, <4>1
    <3> QED  BY <1>3, <2>4, <3>1 DEF DeferralInv, DeferralIsCarried
  <2>7. Carried => step \in Runs("deferred") /\ CountingNotes("carriage") # {}
    <3>1. Len(protocol) - 1 = step
      BY <2>1
    <3> QED  BY <3>1 DEF Carried
  <2> QED  BY <2>5, <2>6, <2>7
<1> QED  BY <1>1, <1>2, <1>3, PTL DEF Spec, DeferralsAreConfirmed
===============================================================================
