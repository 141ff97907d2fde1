------------------------------ MODULE ReviewGates ------------------------------
(***************************************************************************)
(* The gates that keep unreviewed code in the code-review step, and        *)
(* deferred criteria out of completion: verify_review_round,               *)
(* require_spec_review_passed and require_deferred_criteria_done of        *)
(* hooks/protocol_engine.py, over the notes that save_note binds to a hash *)
(* of the working tree.                                                    *)
(*                                                                         *)
(* The agent reviews, audits and saves notes between two calls of advance; *)
(* it may forget one.  In a step that does not own a kind of note it may   *)
(* save any note of that kind; in one that does, only what it has found    *)
(* there.  The code is edited at any time.                                 *)
(*                                                                         *)
(* Every gate looks for the latest note of a kind, or the latest goto.     *)
(* The log keeps those in the order of their timestamps: of each kind the  *)
(* latest from a step that owns it (counts) and the latest from another.   *)
(* The latest round is kept apart, as no gate compares it with other notes. *)
(***************************************************************************)
EXTENDS Naturals, Sequences, FiniteSets

CONSTANTS
  Protocols,   \* step sequences: [code |-> BOOLEAN, gates |-> sequence of gates]
  Trees,       \* hashes of the working tree, HEAD included
  NoHash,      \* what a stamped note carries when its hash could not be computed
  Unstamped,   \* what a note without the key tree_hash carries
  Criteria,    \* documentation criteria an audit may defer
  Strays,      \* notes the agent may save in a step that does not own their kind
  MaxStrays,   \* of which the log holds at most so many
  HashFails,   \* git may fail
  LateNotes    \* a fix may come between a review and the note about it

Gates == {"round", "spec", "deferred", "other"}
StepConfig == [code : BOOLEAN, gates : Seq(Gates)]
Stamped == {"round", "spec", "done"}
Kinds == Stamped \cup {"carriage"}
Note == [kind : Kinds, items : SUBSET Criteria, saw : Trees \cup {NoHash, Unstamped}]

ASSUME ReviewAssumption ==
  /\ Protocols \subseteq Seq(StepConfig) \ {<<>>}
  /\ Strays \subseteq {n \in Note : n.kind # "round"} /\ MaxStrays \in Nat
  /\ NoHash \notin Trees /\ Unstamped \notin Trees /\ NoHash # Unstamped
  /\ {HashFails, LateNotes} \subseteq BOOLEAN

VARIABLES
  protocol,    \* the steps of the active protocol
  step,        \* the current one
  tree,        \* the code as it is
  rounds,      \* the tree hash of the latest round; NoHash if there is none
  log,         \* the other notes, and gotos
  pc,          \* the next gate of an advance under way; 0 between calls
  pending,     \* notes about the agent's latest review that it has not saved
  touched,     \* history: the code was edited during this advance
  round,       \* history: the tree seen by the latest recorded review
  audit,       \* history: the latest audit recorded in an audit step
  stale,       \* history: a goto to a code-changing step came after a legacy one
  check        \* history: the latest deferred check recorded after it

history == <<round, audit, stale, check>>
vars == <<protocol, step, tree, rounds, log, pc, pending, touched, history>>

Gated(p, g) == {s \in DOMAIN p : \E i \in DOMAIN p[s].gates : p[s].gates[i] = g}
Runs(g) == Gated(protocol, g)
Owners(kind) ==
  IF kind = "done" THEN Runs("deferred") ELSE Runs("spec")

Idle == pc = 0

(* Mutant: a note counts whatever step it was saved in.                    *)
EntryOfAnyStep(kind, hash, items) ==
  [kind |-> kind, counts |-> TRUE, hash |-> hash, items |-> items]

Entry(kind, hash, items) ==
  [kind |-> kind, counts |-> step \in Owners(kind), hash |-> hash, items |-> items]

(* The position of the latest of a kind, or 0.                             *)
Latest(kind, counts) ==
  LET found == {i \in DOMAIN log : log[i].kind = kind /\ log[i].counts = counts}
  IN  IF found = {} THEN 0 ELSE CHOOSE i \in found : TRUE

Without(p) ==
  [i \in 1..(Len(log) - 1) |-> IF i < p THEN log[i] ELSE log[i + 1]]
Logged(e) ==
  LET p == Latest(e.kind, e.counts)
  IN  Append(IF p = 0 THEN log ELSE Without(p), e)

Astray(l) == {i \in DOMAIN l : ~l[i].counts}
Stamp(kind) ==
  IF kind \in Stamped THEN {tree} \cup IF HashFails THEN {NoHash} ELSE {} ELSE {Unstamped}

(* A task under way before notes were stamped and deferral existed is in   *)
(* code review, or has left it.                                            *)
NoAudit == [kind |-> "spec", items |-> {}, saw |-> NoHash]
Legacy == [kind |-> "spec", items |-> {}, saw |-> Unstamped]
NothingDeferred == [kind |-> "carriage", items |-> {}, saw |-> Unstamped]

Init ==
  /\ protocol \in Protocols
  /\ tree \in Trees /\ rounds = NoHash
  /\ \/ step = 1 /\ log = <<>> /\ pending = {} /\ audit = NoAudit
     \/ /\ step \in {s \in DOMAIN protocol : \E r \in Runs("spec") : r <= s} \ {Len(protocol)}
        /\ log = <<[kind |-> "spec", counts |-> TRUE, hash |-> Unstamped, items |-> {}]>>
        /\ pending = {NothingDeferred} /\ audit = Legacy
  /\ pc = 0 /\ touched = FALSE
  /\ round = NoHash /\ stale = FALSE /\ check = {}

-------------------------------------------------------------------------------
(* What the agent does between two calls.                                  *)

Finds(notes) ==
  /\ Idle /\ step < Len(protocol)
  /\ pending' = notes
  /\ UNCHANGED <<protocol, step, tree, rounds, log, pc, touched, history>>

ReviewCode ==
  Finds({[kind |-> "round", items |-> {}, saw |-> tree]})

AuditSpec(deferred) ==
  Finds({[kind |-> "spec", items |-> deferred, saw |-> tree],
         [kind |-> "carriage", items |-> deferred, saw |-> tree]})

(* The deferred check is for what the audit has deferred.                  *)
CheckDeferred ==
  Finds({[kind |-> "done", items |-> audit.items, saw |-> tree]})

(* A round counts in any step.                                             *)
SaveRound(n) ==
  /\ Idle /\ n \in pending /\ n.kind = "round"
  /\ rounds' \in Stamp("round")
  /\ round' = n.saw
  /\ pending' = pending \ {n}
  /\ UNCHANGED <<protocol, step, tree, log, pc, touched, audit, stale, check>>

(* The carriage comes after the sentinel.                                  *)
SaveNote(n) ==
  /\ Idle /\ n \in pending /\ n.kind # "round"
  /\ step \in Owners(n.kind)
  /\ n.kind = "carriage" => \A m \in pending : m.kind # "spec"
  /\ \E hash \in Stamp(n.kind) : log' = Logged(Entry(n.kind, hash, n.items))
  /\ pending' = pending \ {n}
  /\ IF n.kind = "spec"
       THEN audit' = n /\ stale' = FALSE /\ check' = {}
       ELSE /\ UNCHANGED <<audit, stale>>
            /\ check' = IF n.kind = "done" THEN {n} ELSE check
  /\ UNCHANGED <<protocol, step, tree, rounds, pc, touched, round>>

SaveStray(n) ==
  /\ Idle /\ n \in Strays
  /\ step \notin Owners(n.kind)
  /\ log' = Logged(Entry(n.kind, IF n.kind \in Stamped THEN tree ELSE Unstamped, n.items))
  /\ Cardinality(Astray(log')) <= MaxStrays
  /\ UNCHANGED <<protocol, step, tree, rounds, pc, pending, touched, history>>

(* The user, the agent or a subagent.                                      *)
Edit(t) ==
  /\ t # tree
  /\ tree' = t
  /\ pending' = IF LateNotes \/ \A n \in pending : n.kind \notin Stamped THEN pending ELSE {}
  /\ touched' = (touched \/ ~Idle)
  /\ UNCHANGED <<protocol, step, rounds, log, pc, history>>

Goto(s) ==
  /\ Idle /\ s < step
  /\ step' = s
  /\ log' = IF protocol[s].code /\ \E i \in DOMAIN log : log[i].kind = "spec" /\ log[i].hash = Unstamped
              THEN Logged([kind |-> "goto", counts |-> TRUE, hash |-> Unstamped, items |-> {}])
              ELSE log
  /\ stale' = (stale \/ (audit = Legacy /\ protocol[s].code))
  /\ pending' = {}
  /\ UNCHANGED <<protocol, tree, rounds, pc, touched, round, audit, check>>

-------------------------------------------------------------------------------
(* The gates.  Positions are 0 where there is no such note.                *)

(* Mutant: a hash that could not be computed when the note was saved is    *)
(* not compared.                                                           *)
MatchesUnlessNull(hash) == hash \in {tree, NoHash}

(* _tree_hash_staleness                                                    *)
Matches(hash) == hash = tree

(* _deferral_without_gate                                                  *)
CarriageIsGood(s, c) ==
  /\ c > s
  /\ log[c].items = {} \/ \E r \in Runs("deferred") : r > step

StillGood(s) ==
  Matches(log[s].hash) \/ (log[s].hash = Unstamped /\ Latest("goto", TRUE) < s)

Sentinel == Latest("spec", TRUE)
Carriage == Latest("carriage", TRUE)

SpecPasses == Sentinel # 0 /\ StillGood(Sentinel) /\ CarriageIsGood(Sentinel, Carriage)

(* Mutant: a confirmation of an earlier carriage still counts.             *)
ConfirmedBefore(c, d) == d # 0 /\ Matches(log[d].hash)

Confirmed(c, d) == d > c /\ Matches(log[d].hash)

DeferredDone ==
  Carriage # 0 =>
    /\ Carriage > Sentinel
    /\ log[Carriage].items = {} \/ Confirmed(Carriage, Latest("done", TRUE))

Passes(g) ==
  CASE g = "round" -> Matches(rounds)
    [] g = "spec" -> SpecPasses
    [] g = "deferred" -> DeferredDone
    [] g = "other" -> TRUE

CurrentGates == protocol[step].gates

(* Mutant: the last step can be advanced from as well.                     *)
BeginAdvanceAnywhere ==
  /\ Idle
  /\ pc' = 1
  /\ UNCHANGED <<protocol, step, tree, rounds, log, pending, touched, history>>

BeginAdvance ==
  /\ Idle /\ step < Len(protocol)
  /\ pc' = 1
  /\ UNCHANGED <<protocol, step, tree, rounds, log, pending, touched, history>>

GatePasses ==
  /\ pc \in DOMAIN CurrentGates
  /\ Passes(CurrentGates[pc])
  /\ pc' = pc + 1
  /\ UNCHANGED <<protocol, step, tree, rounds, log, pending, touched, history>>

(* A gate whose hash or whose test fails blocks as well.                   *)
GateBlocks ==
  /\ pc \in DOMAIN CurrentGates
  /\ ~Passes(CurrentGates[pc]) \/ HashFails \/ CurrentGates[pc] = "other"
  /\ pc' = 0 /\ touched' = FALSE
  /\ UNCHANGED <<protocol, step, tree, rounds, log, pending, history>>

Move ==
  /\ ~Idle /\ pc > Len(CurrentGates)
  /\ step' = step + 1
  /\ pc' = 0 /\ touched' = FALSE /\ pending' = {}
  /\ UNCHANGED <<protocol, tree, rounds, log, history>>

Agent ==
  \/ ReviewCode
  \/ \E d \in SUBSET Criteria : AuditSpec(d)
  \/ CheckDeferred
  \/ \E n \in pending : SaveRound(n) \/ SaveNote(n)
  \/ \E n \in Strays : SaveStray(n)
  \/ \E s \in DOMAIN protocol : Goto(s)

Advance == BeginAdvance \/ GatePasses \/ GateBlocks \/ Move

Next == Agent \/ Advance \/ \E t \in Trees : Edit(t)

Spec == Init /\ [][Next]_vars

-------------------------------------------------------------------------------
TypeOK ==
  /\ protocol \in Protocols /\ step \in DOMAIN protocol
  /\ tree \in Trees /\ {rounds, round} \subseteq Trees \cup {NoHash}
  /\ \A i \in DOMAIN log :
       /\ log[i].kind \in (Kinds \ {"round"}) \cup {"goto"} /\ log[i].counts \in BOOLEAN
       /\ log[i].hash \in Trees \cup {NoHash, Unstamped} /\ log[i].items \subseteq Criteria
  /\ pc \in 0..(Len(CurrentGates) + 1)
  /\ pending \subseteq Note /\ {audit} \cup check \subseteq Note
  /\ {touched, stale} \subseteq BOOLEAN

Leaves(s) == step = s /\ step' = s + 1

(* Code does not leave a step that runs verify_review_round unless it is   *)
(* the code the latest recorded review saw (edits in the middle of the     *)
(* advance aside): whatever was reviewed before, reverted or gone back to. *)
LeavesAsReviewed ==
  [][\A s \in Runs("round") : Leaves(s) => touched \/ round = tree]_vars

(* Nor one that runs require_spec_review_passed unless it is the code the  *)
(* latest recorded audit saw.  An audit of before notes were stamped       *)
(* stands until a goto to a step that changes code.                        *)
LeavesAsAudited ==
  [][\A s \in Runs("spec") : Leaves(s) =>
       \/ touched \/ audit.saw = tree
       \/ audit = Legacy /\ ~stale]_vars

(* As in the shipped protocols: where an audit may defer, the last step    *)
(* but one runs the gate for it.                                           *)
ConfirmsBeforeTheEnd ==
  \A p \in Protocols :
    (\E r \in Gated(p, "spec"), d \in Gated(p, "deferred") : r < d) => Len(p) - 1 \in Gated(p, "deferred")

(* No protocol comes to its last step with a criterion that the latest     *)
(* audit deferred and that was not confirmed since, on the code as it is:  *)
(* whichever steps the protocol has, and whatever was noted in steps that  *)
(* do not count.                                                           *)
DeferralsAreConfirmed ==
  [][\A s \in DOMAIN protocol : Leaves(s) /\ s + 1 = Len(protocol) =>
       \/ audit.items = {}
       \/ \E n \in check : audit.items \subseteq n.items /\ (touched \/ n.saw = tree)]_vars
===============================================================================
