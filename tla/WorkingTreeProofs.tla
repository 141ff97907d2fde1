--------------------------- MODULE WorkingTreeProofs ---------------------------
(***************************************************************************)
(* Whoever shares the working tree, a call that answers without an error   *)
(* has given back what it took, and git_setup_branch has done what it was  *)
(* asked: for any number of sessions, branches and pieces of work.         *)
(***************************************************************************)
EXTENDS WorkingTree, TLAPS, SequenceTheorems

(* The stashes of a call: none, no two, none behind another of the tool.   *)
NoStash(c) == \A i \in DOMAIN stashes : stashes[i].by # c
OneStash(c) == \A i, j \in DOMAIN stashes : stashes[i].by = c /\ stashes[j].by = c => i = j
FirstStash(c) == \A i \in DOMAIN stashes : stashes[i].by = c => i \in Newest

(* What the position of a call tells of it.                                *)
Placed(c) ==
  /\ c \in Reviews => pc[c] \in Preparing \cup {"gather", "back", "list", "pop", "idle", "answered"}
  /\ c \in Setups => pc[c] \in Setting \cup {"idle", "answered"}
  /\ pc[c] \in Preparing => ~prepared[c]
  /\ pc[c] = "gather" => prepared[c] \/ report[c] # "none"
  /\ pc[c] \in {"list", "pop"} => stashed[c]

(* A call knows of the stash it has made, or reports a failure.            *)
Stashes(c) ==
  /\ OneStash(c)
  /\ c \in Setups \/ pc[c] \in {"idle", "look", "status", "stash"} => NoStash(c)
  /\ pc[c] \in {"fetch", "checkout", "pull", "back"} \/ (pc[c] = "gather" /\ prepared[c]) =>
       stashed[c] \/ NoStash(c)

(* What nobody else can take from an undisturbed call.                     *)
Undisturbed(c) ==
  /\ pc[c] \in Active => FirstStash(c)
  /\ pc[c] = "pop" => \A i \in StashesOf(c) : i = pick[c]
  /\ pc[c] = "answered" /\ report[c] = "none" => NoStash(c)
  /\ pc[c] \in {"list", "pop"} /\ HadBranch(c) => head = original[c]
  /\ pc[c] \in {"update", "create"} => carry[c] \/ head = Default

CallInv(c) ==
  /\ Placed(c) /\ Stashes(c)
  /\ pc[c] = "switch" => target[c] \in branches
  /\ c \notin disturbed => Undisturbed(c)

TreeInv == TypeOK /\ Default \in branches /\ \A c \in Calls : CallInv(c)

-------------------------------------------------------------------------------
LEMMA PhaseNames ==
  /\ Preparing = {"look", "status", "stash", "fetch", "checkout", "pull"}
  /\ Setting = {"check", "current", "find", "switch", "default", "update", "create"}
  /\ Active = {"look", "status", "stash", "fetch", "checkout", "pull", "gather", "back", "list", "pop",
               "check", "current", "find", "switch", "default", "update", "create"}
<1>1. ToSet(GitCommands) = {"stash", "fetch", "checkout", "pull"}
  <2>1. DOMAIN GitCommands = {1, 2, 3, 4}
    BY DEF GitCommands
  <2>2. GitCommands[1] = "stash" /\ GitCommands[2] = "fetch" /\ GitCommands[3] = "checkout" /\ GitCommands[4] = "pull"
    BY DEF GitCommands
  <2> QED  BY <2>1, <2>2 DEF ToSet
<1> QED  BY <1>1 DEF Preparing, Setting, Active

LEMMA NameTypes ==
  /\ \A c \in Calls : c # Earlier /\ c # Nobody
  /\ Earlier # Nobody
BY WorkingTreeAssumption DEF Earlier, Nobody

LEMMA StashTypes ==
  ASSUME TypeOK
  PROVE  /\ Len(stashes) \in Nat /\ DOMAIN stashes = 1 .. Len(stashes)
         /\ \A i \in DOMAIN stashes : stashes[i] \in Entries
BY DEF TypeOK

(* A stash is pushed, unless the tree is clean.                            *)
LEMMA Pushed ==
  ASSUME TypeOK, NEW by \in Calls \cup {Nobody}, Push(by)
  PROVE  /\ stashes' \in Seq(Entries) /\ tree' \subseteq Work
         /\ \/ UNCHANGED stashes
            \/ /\ DOMAIN stashes' = 1 .. (Len(stashes) + 1)
               /\ stashes'[1].by = by
               /\ \A i \in 2 .. (Len(stashes) + 1) : stashes'[i] = stashes[i - 1]
<1>1. stashes \in Seq(Entries) /\ tree \subseteq Work
  BY DEF TypeOK
<1>2. CASE tree = {}
  BY <1>1, <1>2 DEF Push
<1>3. CASE tree # {}
  <2> DEFINE entry == [by |-> by, work |-> tree]
  <2>1. entry \in Entries
    BY <1>1 DEF Entries
  <2>2. <<entry>> \in Seq(Entries) /\ Len(<<entry>>) = 1 /\ <<entry>>[1] = entry
    BY <2>1
  <2>3. stashes' = <<entry>> \o stashes /\ tree' = {}
    BY <1>3 DEF Push
  <2>4. /\ stashes' \in Seq(Entries) /\ Len(stashes') = 1 + Len(stashes)
        /\ \A i \in 1 .. (1 + Len(stashes)) : stashes'[i] = IF i <= 1 THEN <<entry>>[i] ELSE stashes[i - 1]
    BY <1>1, <2>2, <2>3, ConcatProperties
  <2>5. Len(stashes) \in Nat /\ DOMAIN stashes' = 1 .. Len(stashes')
    BY <1>1, <2>4, LenProperties
  <2> HIDE DEF entry
  <2>6. stashes'[1] = entry
    BY <2>2, <2>4, <2>5
  <2>7. stashes'[1].by = by
    BY <2>6 DEF entry
  <2> QED  BY <2>3, <2>4, <2>5, <2>7
<1> QED  BY <1>2, <1>3

(* A stash is popped; those behind it move up.                             *)
LEMMA Popped ==
  ASSUME TypeOK, NEW k \in DOMAIN stashes, PopAt(k)
  PROVE  /\ stashes' \in Seq(Entries) /\ tree' \subseteq Work /\ stashes[k].work \subseteq tree'
         /\ DOMAIN stashes' = 1 .. (Len(stashes) - 1)
         /\ \A i \in DOMAIN stashes' : stashes'[i] = stashes[IF i < k THEN i ELSE i + 1]
<1>1. /\ stashes \in Seq(Entries) /\ Len(stashes) \in Nat /\ k \in 1 .. Len(stashes) /\ tree \subseteq Work
      /\ \A i \in 1 .. Len(stashes) : stashes[i] \in Entries
  BY StashTypes DEF TypeOK
<1> DEFINE before == SubSeq(stashes, 1, k - 1)
           after == SubSeq(stashes, k + 1, Len(stashes))
<1>2. before \in Seq(Entries) /\ Len(before) = k - 1 /\ \A i \in 1 .. (k - 1) : before[i] = stashes[i]
  BY <1>1, SubSeqProperties
<1>3. /\ after \in Seq(Entries) /\ Len(after) = Len(stashes) - k
      /\ \A i \in 1 .. (Len(stashes) - k) : after[i] = stashes[k + i]
  BY <1>1, SubSeqProperties
<1>4. stashes' = before \o after /\ tree' = tree \cup stashes[k].work
  BY DEF PopAt, RemoveAt
<1> HIDE DEF before, after
<1>5. /\ stashes' \in Seq(Entries) /\ Len(stashes') = Len(stashes) - 1
      /\ \A i \in 1 .. (Len(stashes) - 1) : stashes'[i] = IF i < k THEN stashes[i] ELSE stashes[i + 1]
  <2>1. /\ stashes' \in Seq(Entries) /\ Len(stashes') = Len(before) + Len(after)
        /\ \A i \in 1 .. Len(before) + Len(after) :
             stashes'[i] = IF i <= Len(before) THEN before[i] ELSE after[i - Len(before)]
    BY <1>2, <1>3, <1>4, ConcatProperties
  <2>2. Len(before) + Len(after) = Len(stashes) - 1
    BY <1>1, <1>2, <1>3
  <2>3. ASSUME NEW i \in 1 .. (Len(stashes) - 1), i < k  PROVE stashes'[i] = stashes[i]
    <3>1. i \in 1 .. (k - 1) /\ i <= Len(before)
      BY <1>1, <1>2, <2>3
    <3> QED  BY <1>2, <2>1, <2>2, <3>1
  <2>4. ASSUME NEW i \in 1 .. (Len(stashes) - 1), ~(i < k)  PROVE stashes'[i] = stashes[i + 1]
    <3>1. /\ i - (k - 1) \in 1 .. (Len(stashes) - k) /\ ~(i <= Len(before))
          /\ i - Len(before) = i - (k - 1) /\ k + (i - (k - 1)) = i + 1
      BY <1>1, <1>2, <2>4
    <3>2. after[i - (k - 1)] = stashes[i + 1]
      BY <1>3, <3>1
    <3> QED  BY <2>1, <2>2, <3>1, <3>2
  <2> QED  BY <2>1, <2>2, <2>3, <2>4
<1>6. DOMAIN stashes' = 1 .. (Len(stashes) - 1)
  BY <1>5, LenProperties
<1>7. \A i \in DOMAIN stashes' : stashes'[i] = stashes[IF i < k THEN i ELSE i + 1]
  <2>1. ASSUME NEW i \in DOMAIN stashes'  PROVE stashes'[i] = stashes[IF i < k THEN i ELSE i + 1]
    <3>1. CASE i < k
      BY <1>5, <1>6, <2>1, <3>1
    <3>2. CASE ~(i < k)
      BY <1>5, <1>6, <2>1, <3>2
    <3> QED  BY <3>1, <3>2
  <2> QED  BY <2>1
<1>8. tree' \subseteq Work
  BY <1>1, <1>4 DEF Entries
<1> QED  BY <1>4, <1>5, <1>6, <1>7, <1>8

(* Someone else's push, and any pop, leave a call what it has.             *)
LEMMA PushKeeps ==
  ASSUME TypeOK, NEW by \in Calls \cup {Nobody}, Push(by), NEW c \in Calls, c # by
  PROVE  /\ NoStash(c) => NoStash(c)'
         /\ OneStash(c) => OneStash(c)'
         /\ by = Nobody /\ FirstStash(c) => FirstStash(c)'
<1>1. Len(stashes) \in Nat /\ DOMAIN stashes = 1 .. Len(stashes)
  BY StashTypes
<1>2. CASE UNCHANGED stashes
  BY <1>2 DEF NoStash, OneStash, FirstStash, Newest, Marks
<1>3. CASE /\ DOMAIN stashes' = 1 .. (Len(stashes) + 1)
           /\ stashes'[1].by = by
           /\ \A i \in 2 .. (Len(stashes) + 1) : stashes'[i] = stashes[i - 1]
  <2>1. \A i \in DOMAIN stashes' :
          i = 1 \/ (i - 1 \in DOMAIN stashes /\ stashes'[i] = stashes[i - 1])
    BY <1>1, <1>3
  <2>2. NoStash(c) => NoStash(c)'
    BY <1>3, <2>1 DEF NoStash
  <2>3. OneStash(c) => OneStash(c)'
    BY <1>1, <1>3, <2>1 DEF OneStash
  <2>4. ASSUME by = Nobody, FirstStash(c)  PROVE FirstStash(c)'
    <3> SUFFICES ASSUME NEW i \in DOMAIN stashes', stashes'[i].by = c  PROVE i \in Newest'
      BY DEF FirstStash
    <3>1. i # 1 /\ i - 1 \in DOMAIN stashes /\ stashes[i - 1].by = c
      BY <1>3, <2>1
    <3>2. i - 1 \in Newest
      BY <2>4, <3>1 DEF FirstStash
    <3>3. ASSUME NEW j \in DOMAIN stashes', Marked(stashes'[j])  PROVE i <= j
      <4>1. j # 1
        BY <1>3, <2>4, <3>3 DEF Marked
      <4>2. j - 1 \in DOMAIN stashes /\ Marked(stashes[j - 1])
        BY <2>1, <3>3, <4>1
      <4>3. i - 1 <= j - 1
        BY <3>2, <4>2 DEF Newest, Marks
      <4> QED  BY <1>1, <1>3, <3>1, <4>3
    <3>4. Marked(stashes'[i])
      BY NameTypes DEF Marked
    <3> QED  BY <3>3, <3>4 DEF Newest, Marks, Marked
  <2> QED  BY <2>2, <2>3, <2>4
<1> QED  BY <1>2, <1>3, Pushed

LEMMA PushOwn ==
  ASSUME TypeOK, NEW c \in Calls, Push(c), NoStash(c)
  PROVE  OneStash(c)' /\ FirstStash(c)'
<1>1. Len(stashes) \in Nat /\ DOMAIN stashes = 1 .. Len(stashes)
  BY StashTypes
<1>2. CASE UNCHANGED stashes
  BY <1>2 DEF NoStash, OneStash, FirstStash
<1>3. CASE /\ DOMAIN stashes' = 1 .. (Len(stashes) + 1)
           /\ stashes'[1].by = c
           /\ \A i \in 2 .. (Len(stashes) + 1) : stashes'[i] = stashes[i - 1]
  <2>1. \A i \in DOMAIN stashes' : stashes'[i].by = c => i = 1
    BY <1>1, <1>3 DEF NoStash
  <2>2. 1 \in Newest'
    BY <1>1, <1>3, NameTypes DEF Newest, Marks, Marked
  <2> QED  BY <2>1, <2>2 DEF OneStash, FirstStash
<1> QED  BY <1>2, <1>3, Pushed

LEMMA PopKeeps ==
  ASSUME TypeOK, NEW k \in DOMAIN stashes, PopAt(k), NEW c \in Calls
  PROVE  /\ NoStash(c) => NoStash(c)'
         /\ OneStash(c) => OneStash(c)'
         /\ OneStash(c) /\ stashes[k].by = c => NoStash(c)'
         /\ FirstStash(c) => FirstStash(c)'
<1> DEFINE was(i) == IF i < k THEN i ELSE i + 1
<1>1. Len(stashes) \in Nat /\ DOMAIN stashes = 1 .. Len(stashes)
  BY StashTypes
<1>2. /\ DOMAIN stashes' = 1 .. (Len(stashes) - 1)
      /\ \A i \in DOMAIN stashes' : was(i) \in DOMAIN stashes /\ was(i) # k /\ stashes'[i] = stashes[was(i)]
  BY <1>1, Popped
<1>3. \A i, j \in DOMAIN stashes' : (was(i) = was(j) => i = j) /\ (was(i) <= was(j) => i <= j)
  BY <1>1, <1>2
<1> HIDE DEF was
<1>4. NoStash(c) => NoStash(c)'
  BY <1>2 DEF NoStash
<1>5. OneStash(c) => OneStash(c)'
  BY <1>2, <1>3 DEF OneStash
<1>6. OneStash(c) /\ stashes[k].by = c => NoStash(c)'
  BY <1>2 DEF OneStash, NoStash
<1>7. ASSUME FirstStash(c)  PROVE FirstStash(c)'
  <2> SUFFICES ASSUME NEW i \in DOMAIN stashes', stashes'[i].by = c  PROVE i \in Newest'
    BY DEF FirstStash
  <2>1. was(i) \in Newest
    BY <1>2, <1>7 DEF FirstStash
  <2>2. ASSUME NEW j \in DOMAIN stashes', Marked(stashes'[j])  PROVE i <= j
    BY <1>2, <1>3, <2>1, <2>2 DEF Newest, Marks
  <2>3. Marked(stashes'[i])
    BY NameTypes DEF Marked
  <2> QED  BY <2>2, <2>3 DEF Newest, Marks, Marked
<1> QED  BY <1>4, <1>5, <1>6, <1>7

(* A call starts anew: its earlier stashes are nobody's.                   *)
LEMMA Renamed ==
  ASSUME TypeOK, NEW d \in Calls,
         stashes' = [i \in DOMAIN stashes |->
           IF stashes[i].by = d THEN [stashes[i] EXCEPT !.by = Earlier] ELSE stashes[i]]
  PROVE  /\ stashes' \in Seq(Entries)
         /\ NoStash(d)'
         /\ \A c \in Calls \ {d} :
              /\ NoStash(c) => NoStash(c)'
              /\ OneStash(c) => OneStash(c)'
              /\ FirstStash(c) => FirstStash(c)'
<1>1. /\ Len(stashes) \in Nat /\ DOMAIN stashes = 1 .. Len(stashes)
      /\ \A i \in DOMAIN stashes : stashes[i] \in Entries
  BY StashTypes
<1>2. DOMAIN stashes' = DOMAIN stashes
  OBVIOUS
<1>3. \A i \in DOMAIN stashes :
        /\ stashes'[i] \in Entries
        /\ stashes'[i].by = IF stashes[i].by = d THEN Earlier ELSE stashes[i].by
  BY <1>1 DEF Entries
<1>4. stashes' \in Seq(Entries)
  <2>1. stashes' \in [1 .. Len(stashes) -> Entries]
    BY <1>1, <1>3
  <2> QED  BY <1>1, <2>1, SeqDef
<1>5. NoStash(d)'
  BY <1>2, <1>3, NameTypes DEF NoStash
<1>6. Newest' = Newest
  <2>1. \A i \in DOMAIN stashes : Marked(stashes'[i]) <=> Marked(stashes[i])
    BY <1>3, NameTypes DEF Marked
  <2>2. Marks' = Marks
    BY <1>2, <2>1 DEF Marks, Marked
  <2> QED  BY <2>2 DEF Newest
<1>7. ASSUME NEW c \in Calls \ {d}
      PROVE  /\ NoStash(c) => NoStash(c)'
             /\ OneStash(c) => OneStash(c)'
             /\ FirstStash(c) => FirstStash(c)'
  <2>1. \A i \in DOMAIN stashes : stashes'[i].by = c <=> stashes[i].by = c
    BY <1>3, NameTypes
  <2> QED  BY <1>2, <1>6, <2>1 DEF NoStash, OneStash, FirstStash
<1> QED  BY <1>4, <1>5, <1>7

-------------------------------------------------------------------------------
LEMMA FaultTypes ==
  ASSUME TypeOK, Fault \/ UNCHANGED faults
  PROVE  faults' \in 0 .. MaxFaults
BY WorkingTreeAssumption DEF TypeOK, Fault

(* What a step of one call does to the types, part by part.                *)
LEMMA PhaseTypes ==
  ASSUME TypeOK, NEW c \in Calls, NEW p \in Active \cup {"idle", "answered"}, Goes(c, p)
  PROVE  pc' \in [Calls -> Active \cup {"idle", "answered"}] /\ pc'[c] = p /\ \A d \in Calls \ {c} : pc'[d] = pc[d]
BY DEF TypeOK, Goes

LEMMA DisturbedTypes ==
  ASSUME TypeOK, NEW c \in Calls, Disturbs(c) \/ UNCHANGED disturbed \/ disturbed' = disturbed \ {c}
  PROVE  /\ disturbed' \subseteq Calls
         /\ c \notin disturbed' => c \notin disturbed \/ disturbed' = disturbed \ {c}
         /\ \A d \in Calls \ {c} : d \notin disturbed' => d \notin disturbed
         /\ Disturbs(c) => \A d \in Calls \ {c} : d \notin disturbed' => pc[d] \notin Active
BY DEF TypeOK, Disturbs

LEMMA ReportTypes ==
  ASSUME TypeOK, NEW c \in Calls, NEW restored \in BOOLEAN, NEW unstashed \in BOOLEAN, Restores(c, restored, unstashed)
  PROVE  /\ pc' \in [Calls -> Active \cup {"idle", "answered"}]
         /\ report' \in [Calls -> {"none", "prepare", "restore", "confirm", "setup"}]
         /\ pc'[c] = "answered" /\ \A d \in Calls \ {c} : pc'[d] = pc[d] /\ report'[d] = report[d]
         /\ report'[c] # "none" => report'[c] = report[c] \/ ~(restored /\ (stashed[c] => unstashed))
         /\ report'[c] = "none" => report[c] = "none" /\ restored /\ (stashed[c] => unstashed)
<1>1. Goes(c, "answered")
  BY DEF Restores
<1>2. report' = [report EXCEPT ![c] = IF restored /\ (stashed[c] => unstashed) THEN report[c] ELSE "restore"]
  BY DEF Restores
<1>3. CASE restored /\ (stashed[c] => unstashed)
  <2>1. report' = [report EXCEPT ![c] = report[c]]
    BY <1>2, <1>3
  <2> QED  BY <1>1, <1>3, <2>1, PhaseTypes DEF TypeOK
<1>4. CASE ~(restored /\ (stashed[c] => unstashed))
  <2>1. report' = [report EXCEPT ![c] = "restore"]
    BY <1>2, <1>4
  <2> QED  BY <1>1, <1>4, <2>1, PhaseTypes DEF TypeOK
<1> QED  BY <1>3, <1>4

LEMMA CheckoutTypes ==
  ASSUME TypeOK, NEW b \in Branches, Checkout(b)
  PROVE  head' \in Heads /\ branches' \subseteq Branches /\ branches \subseteq branches'
BY DEF TypeOK, Checkout, Heads

LEMMA EffectTypes ==
  ASSUME TypeOK, NEW c \in Calls, Effect(c)
  PROVE  /\ head' \in Heads /\ branches' \subseteq Branches /\ branches \subseteq branches'
         /\ tree' \subseteq Work /\ stashes' \in Seq(Entries) /\ disturbed' \subseteq Calls
<1>1. tree' \subseteq Work /\ stashes' \in Seq(Entries)
  <2>1. CASE pc[c] = "stash"
    BY <2>1, Pushed DEF Effect
  <2>2. CASE pc[c] # "stash"
    BY <2>2 DEF Effect, TypeOK
  <2> QED  BY <2>1, <2>2
<1>2. head' \in Heads /\ branches' \subseteq Branches /\ branches \subseteq branches'
  <2>1. CASE pc[c] = "checkout"
    BY <2>1, CheckoutTypes DEF Effect, TypeOK
  <2>2. CASE pc[c] # "checkout"
    BY <2>2 DEF Effect, TypeOK
  <2> QED  BY <2>1, <2>2
<1>3. disturbed' \subseteq Calls
  <2>1. Disturbs(c) \/ UNCHANGED disturbed
    BY DEF Effect
  <2> QED  BY <2>1, DisturbedTypes
<1> QED  BY <1>1, <1>2, <1>3

(* The commands that prepare a review, one by one.                         *)
LEMMA GitSteps ==
  ASSUME NEW c \in Calls, GitSucceeds(c)
  PROVE  /\ pc[c] \in {"stash", "fetch", "checkout", "pull"}
         /\ Effect(c)
         /\ stashed' = [stashed EXCEPT ![c] = (stashed[c] \/ pc[c] = "stash")]
         /\ prepared' = [prepared EXCEPT ![c] = (pc[c] = "pull")]
         /\ pc[c] = "stash" => Goes(c, "fetch")
         /\ pc[c] = "fetch" => Goes(c, "checkout")
         /\ pc[c] = "checkout" => Goes(c, "pull")
         /\ pc[c] = "pull" => Goes(c, "gather")
         /\ UNCHANGED <<target, carry, original, pick, report, faults>>
<1>1. PICK i \in DOMAIN GitCommands :
        /\ pc[c] = GitCommands[i]
        /\ Goes(c, IF pc[c] = "pull" THEN "gather" ELSE GitCommands[i + 1])
  BY DEF GitSucceeds
<1>2. DOMAIN GitCommands = {1, 2, 3, 4}
  BY DEF GitCommands
<1>3. GitCommands[1] = "stash" /\ GitCommands[2] = "fetch" /\ GitCommands[3] = "checkout" /\ GitCommands[4] = "pull"
  BY DEF GitCommands
<1>4. /\ pc[c] \in {"stash", "fetch", "checkout", "pull"}
      /\ pc[c] = "stash" => i = 1
      /\ pc[c] = "fetch" => i = 2
      /\ pc[c] = "checkout" => i = 3
  BY <1>1, <1>2, <1>3
<1>5. /\ pc[c] = "stash" => Goes(c, "fetch")
      /\ pc[c] = "fetch" => Goes(c, "checkout")
      /\ pc[c] = "checkout" => Goes(c, "pull")
      /\ pc[c] = "pull" => Goes(c, "gather")
  BY <1>1, <1>3, <1>4
<1>6. /\ Effect(c)
      /\ stashed' = [stashed EXCEPT ![c] = (stashed[c] \/ pc[c] = "stash")]
      /\ prepared' = [prepared EXCEPT ![c] = (pc[c] = "pull")]
      /\ UNCHANGED <<target, carry, original, pick, report, faults>>
  BY Zenon DEF GitSucceeds
<1> QED  BY <1>4, <1>5, <1>6

LEMMA CallKeepsTypes ==
  ASSUME TypeOK, NEW c \in Calls, CallStep(c)
  PROVE  TypeOK'
<1> USE DEF repository, known
<1>1. CASE Call(c)
  <2>1. stashes' \in Seq(Entries)
    BY <1>1, Renamed DEF Call
  <2>2. Goes(c, "look") /\ "look" \in Active
    BY <1>1, PhaseNames DEF Call
  <2> QED  BY <1>1, <2>1, <2>2, PhaseTypes DEF TypeOK, Call, Heads
<1>2. CASE FindsNothing(c)
  <2>1. Goes(c, "idle")
    BY <1>2 DEF FindsNothing
  <2> QED  BY <1>2, <2>1, PhaseTypes DEF TypeOK, FindsNothing
<1>3. CASE Look(c)
  <2>1. \E p \in Active : Goes(c, p)
    BY <1>3, PhaseNames DEF Look
  <2>2. prepared' \in [Calls -> BOOLEAN]
    BY <1>3 DEF TypeOK, Look
  <2> QED  BY <1>3, <2>1, <2>2, PhaseTypes DEF TypeOK, Look
<1>4. CASE Status(c)
  <2>1. \E p \in Active : Goes(c, p)
    BY <1>4, PhaseNames DEF Status
  <2> QED  BY <1>4, <2>1, PhaseTypes DEF TypeOK, Status
<1>5. CASE GitSucceeds(c)
  <2>1. \E p \in Active : Goes(c, p)
    BY <1>5, GitSteps, PhaseNames
  <2>2. stashed' \in [Calls -> BOOLEAN]
    <3>1. stashed' = [stashed EXCEPT ![c] = (stashed[c] \/ pc[c] = "stash")]
      BY <1>5, GitSteps
    <3>2. stashed \in [Calls -> BOOLEAN]
      BY DEF TypeOK
    <3> QED  BY <3>1, <3>2
  <2>3. prepared' \in [Calls -> BOOLEAN]
    <3>1. prepared' = [prepared EXCEPT ![c] = (pc[c] = "pull")]
      BY <1>5, GitSteps
    <3>2. prepared \in [Calls -> BOOLEAN]
      BY DEF TypeOK
    <3> QED  BY <3>1, <3>2
  <2>4. Effect(c) /\ UNCHANGED <<target, carry, original, pick, report, faults>>
    BY <1>5, GitSteps
  <2> QED  BY <2>1, <2>2, <2>3, <2>4, PhaseTypes, EffectTypes DEF TypeOK
<1>6. CASE GitFails(c)
  <2>1. Goes(c, "gather") /\ "gather" \in Active
    BY <1>6, PhaseNames DEF GitFails
  <2> QED  BY <1>6, <2>1, PhaseTypes, FaultTypes DEF TypeOK, GitFails
<1>7. CASE GitTimesOut(c)
  <2>1. Goes(c, "gather") /\ "gather" \in Active
    BY <1>7, PhaseNames DEF GitTimesOut
  <2> QED  BY <1>7, <2>1, PhaseTypes, FaultTypes, EffectTypes DEF TypeOK, GitTimesOut
<1>8. CASE Gather(c)
  <2>1. \E p \in Active \cup {"answered"} : Goes(c, p)
    BY <1>8, PhaseNames DEF Gather
  <2> QED  BY <1>8, <2>1, PhaseTypes DEF TypeOK, Gather
<1>9. CASE Back(c)
  <2>1. head' \in Heads /\ disturbed' \subseteq Calls
    BY <1>9, DisturbedTypes DEF TypeOK, Back
  <2>2. /\ pc' \in [Calls -> Active \cup {"idle", "answered"}]
        /\ report' \in [Calls -> {"none", "prepare", "restore", "confirm", "setup"}]
    <3>1. CASE stashed[c]
      <4>1. Goes(c, "list") /\ UNCHANGED report /\ "list" \in Active
        BY <1>9, <3>1, PhaseNames DEF Back
      <4> QED  BY <4>1, PhaseTypes DEF TypeOK
    <3>2. CASE ~stashed[c]
      <4>1. Restores(c, HadBranch(c), FALSE) /\ HadBranch(c) \in BOOLEAN
        BY <1>9, <3>2 DEF Back, HadBranch
      <4> QED  BY <4>1, ReportTypes
    <3> QED  BY <3>1, <3>2
  <2> QED  BY <1>9, <2>1, <2>2 DEF TypeOK, Back
<1>10. CASE BackFails(c)
  <2>1. head' \in Heads /\ disturbed' \subseteq Calls
    BY <1>10, DisturbedTypes DEF TypeOK, BackFails
  <2> QED  BY <1>10, <2>1, ReportTypes, FaultTypes DEF TypeOK, BackFails
<1>11. CASE ListStashes(c)
  <2>1. CASE /\ \E i \in Newest : pick' = [pick EXCEPT ![c] = i]
             /\ Goes(c, "pop") /\ UNCHANGED report
    <3>1. Newest \subseteq Nat /\ "pop" \in Active
      BY StashTypes, PhaseNames DEF Newest, Marks
    <3>2. pick' \in [Calls -> Nat]
      BY <2>1, <3>1 DEF TypeOK
    <3> QED  BY <1>11, <2>1, <3>1, <3>2, PhaseTypes DEF TypeOK, ListStashes
  <2>2. CASE Restores(c, HadBranch(c), FALSE) /\ UNCHANGED pick
    <3>1. HadBranch(c) \in BOOLEAN
      BY DEF HadBranch
    <3> QED  BY <1>11, <2>2, <3>1, ReportTypes DEF TypeOK, ListStashes
  <2> QED  BY <1>11, <2>1, <2>2 DEF ListStashes
<1>12. CASE ListFails(c)
  <2>1. HadBranch(c) \in BOOLEAN
    BY DEF HadBranch
  <2> QED  BY <1>12, <2>1, ReportTypes, FaultTypes DEF TypeOK, ListFails
<1>13. CASE Pop(c)
  <2>1. HadBranch(c) \in BOOLEAN
    BY DEF HadBranch
  <2> QED  BY <1>13, <2>1, ReportTypes, Popped, DisturbedTypes DEF TypeOK, Pop
<1>14. CASE PopFails(c)
  <2>1. HadBranch(c) \in BOOLEAN
    BY DEF HadBranch
  <2> QED  BY <1>14, <2>1, ReportTypes, FaultTypes DEF TypeOK, PopFails
<1>15. CASE PopTimesOut(c)
  <2>1. HadBranch(c) \in BOOLEAN
    BY DEF HadBranch
  <2> QED  BY <1>15, <2>1, ReportTypes, Popped, DisturbedTypes, FaultTypes DEF TypeOK, PopTimesOut
<1>16. CASE Advance(c)
  <2>1. Goes(c, "check") /\ "check" \in Active
    BY <1>16, PhaseNames DEF Advance
  <2> QED  BY <1>16, <2>1, PhaseTypes DEF TypeOK, Advance
<1>17. CASE CheckTree(c)
  <2>1. \E p \in Active \cup {"answered"} : Goes(c, p)
    BY <1>17, PhaseNames DEF CheckTree
  <2>2. report' \in [Calls -> {"none", "prepare", "restore", "confirm", "setup"}]
    BY <1>17 DEF CheckTree, TypeOK
  <2>3. faults' \in 0 .. MaxFaults
    BY <1>17, FaultTypes DEF CheckTree
  <2> QED  BY <1>17, <2>1, <2>2, <2>3, PhaseTypes DEF TypeOK, CheckTree
<1>18. CASE CheckCurrent(c)
  <2>1. \E p \in Active \cup {"answered"} : Goes(c, p)
    BY <1>18, PhaseNames DEF CheckCurrent
  <2>2. faults' \in 0 .. MaxFaults
    BY <1>18, FaultTypes DEF CheckCurrent
  <2> QED  BY <1>18, <2>1, <2>2, PhaseTypes DEF TypeOK, CheckCurrent
<1>19. CASE FindBranch(c)
  <2>1. \E p \in Active : Goes(c, p)
    BY <1>19, PhaseNames DEF FindBranch
  <2>2. faults' \in 0 .. MaxFaults
    BY <1>19, FaultTypes DEF FindBranch
  <2> QED  BY <1>19, <2>1, <2>2, PhaseTypes DEF TypeOK, FindBranch
<1>20. ASSUME Moves(c)  PROVE head' \in Heads /\ branches' \subseteq Branches /\ disturbed' \subseteq Calls
  <2>1. \E b \in Branches : Checkout(b)
    BY <1>20, WorkingTreeAssumption DEF Moves, TypeOK
  <2> QED  BY <1>20, <2>1, CheckoutTypes, DisturbedTypes DEF Moves
<1>21. CASE SetupMoves(c)
  <2>1. \E p \in Active \cup {"answered"} : Goes(c, p)
    BY <1>21, PhaseNames DEF SetupMoves
  <2> QED  BY <1>20, <1>21, <2>1, PhaseTypes DEF TypeOK, SetupMoves, Moves
<1>22. CASE Update(c)
  <2>1. Goes(c, "create") /\ "create" \in Active
    BY <1>22, PhaseNames DEF Update
  <2> QED  BY <1>22, <2>1, PhaseTypes DEF TypeOK, Update
<1>23. CASE SetupFails(c)
  <2>1. /\ pc' \in [Calls -> Active \cup {"idle", "answered"}]
        /\ report' \in [Calls -> {"none", "prepare", "restore", "confirm", "setup"}]
    BY <1>23, PhaseTypes DEF SetupFails, TypeOK
  <2>2. faults' \in 0 .. MaxFaults
    BY <1>23, FaultTypes DEF SetupFails
  <2>3. UNCHANGED <<head, branches, disturbed>> \/ Moves(c)
    BY <1>23, Zenon DEF SetupFails
  <2>4. UNCHANGED <<tree, stashes, known>>
    BY <1>23 DEF SetupFails, Moves
  <2> QED  BY <1>20, <2>1, <2>2, <2>3, <2>4 DEF TypeOK
<1> QED  BY <1>1, <1>2, <1>3, <1>4, <1>5, <1>6, <1>7, <1>8, <1>9, <1>10, <1>11, <1>12, <1>13, <1>14,
            <1>15, <1>16, <1>17, <1>18, <1>19, <1>21, <1>22, <1>23 DEF CallStep

LEMMA OthersKeepTypes ==
  ASSUME TypeOK, Others
  PROVE  TypeOK'
<1>1. UNCHANGED <<pc, known, report, faults>>
  BY DEF Others
<1>2. tree' \subseteq Work /\ stashes' \in Seq(Entries)
  <2>1. CASE Edit
    BY <2>1 DEF Edit, TypeOK
  <2>2. CASE Commit
    BY <2>2 DEF Commit, TypeOK
  <2>3. CASE OtherStash
    BY <2>3, Pushed DEF OtherStash
  <2>4. CASE OtherPop
    BY <2>4, Popped DEF OtherPop
  <2> QED  BY <2>1, <2>2, <2>3, <2>4 DEF Others
<1>3. head' = head /\ branches' = branches /\ disturbed' \subseteq Calls
  BY DEF Others, Edit, Commit, OtherStash, OtherPop, MovesStashes, TypeOK
<1> QED  BY <1>1, <1>2, <1>3 DEF TypeOK, known

-------------------------------------------------------------------------------
(* What the steps of others leave a call.                                  *)
Untouched(c) ==
  /\ pc'[c] = pc[c] /\ target'[c] = target[c] /\ original'[c] = original[c]
  /\ stashed'[c] = stashed[c] /\ prepared'[c] = prepared[c] /\ pick'[c] = pick[c] /\ report'[c] = report[c]
  /\ c \in Setups => carry'[c] = carry[c]
  /\ branches \subseteq branches'

StashesKept(c) ==
  /\ NoStash(c) => NoStash(c)'
  /\ OneStash(c) => OneStash(c)'

(* And what it cannot lose unnoticed.                                      *)
NotDisturbed(c) ==
  c \notin disturbed' =>
    /\ c \notin disturbed
    /\ pc[c] \in Active =>
         /\ head' = head
         /\ FirstStash(c) => FirstStash(c)'
         /\ pc[c] = "pop" => StashesOf(c)' \subseteq StashesOf(c)

LEMMA SameStashes ==
  ASSUME NEW c \in Calls, UNCHANGED stashes
  PROVE  /\ (NoStash(c)' <=> NoStash(c)) /\ (OneStash(c)' <=> OneStash(c)) /\ (FirstStash(c)' <=> FirstStash(c))
         /\ StashesOf(c)' = StashesOf(c)
BY DEF NoStash, OneStash, FirstStash, Newest, Marks, StashesOf

LEMMA BystanderKeeps ==
  ASSUME NEW c \in Calls, CallInv(c), Untouched(c), StashesKept(c), NotDisturbed(c)
  PROVE  CallInv(c)'
<1>1. Placed(c)'
  BY DEF CallInv, Placed, Untouched
<1>2. Stashes(c)'
  BY DEF CallInv, Stashes, Untouched, StashesKept
<1>3. pc'[c] = "switch" => target'[c] \in branches'
  BY DEF CallInv, Untouched
<1>4. ASSUME c \notin disturbed'  PROVE Undisturbed(c)'
  <2>1. Undisturbed(c) /\ Placed(c)
    BY <1>4 DEF NotDisturbed, CallInv
  <2>2. /\ pc[c] \in Active => head' = head /\ (FirstStash(c) => FirstStash(c)')
        /\ pc[c] = "pop" => StashesOf(c)' \subseteq StashesOf(c)
    BY <1>4, PhaseNames DEF NotDisturbed
  <2>3. pc'[c] \in Active => FirstStash(c)'
    BY <2>1, <2>2 DEF Undisturbed, Untouched
  <2>4. pc'[c] = "pop" => \A i \in StashesOf(c)' : i = pick'[c]
    BY <2>1, <2>2 DEF Undisturbed, Untouched
  <2>5. pc'[c] = "answered" /\ report'[c] = "none" => NoStash(c)'
    BY <2>1 DEF Undisturbed, Untouched, StashesKept
  <2>6. pc'[c] \in {"list", "pop"} /\ HadBranch(c)' => head' = original'[c]
    BY <2>1, <2>2, PhaseNames DEF Undisturbed, Untouched, HadBranch
  <2>7. pc'[c] \in {"update", "create"} => carry'[c] \/ head' = Default
    <3>1. pc[c] \in {"update", "create"} => c \in Setups /\ pc[c] \in Active
      BY <2>1, PhaseNames DEF Placed, Calls
    <3> QED  BY <2>1, <2>2, <3>1 DEF Undisturbed, Untouched
  <2> QED  BY <2>3, <2>4, <2>5, <2>6, <2>7 DEF Undisturbed
<1> QED  BY <1>1, <1>2, <1>3, <1>4 DEF CallInv

(* The ways a step leaves or disturbs a call.                              *)
LEMMA StashesLeft ==
  ASSUME NEW c \in Calls, UNCHANGED stashes, c \notin disturbed' => c \notin disturbed /\ (pc[c] \in Active => head' = head)
  PROVE  StashesKept(c) /\ NotDisturbed(c)
<1>1. /\ NoStash(c) => NoStash(c)'
      /\ OneStash(c) => OneStash(c)'
      /\ FirstStash(c) => FirstStash(c)'
      /\ StashesOf(c)' = StashesOf(c)
  BY SameStashes
<1> QED  BY <1>1 DEF StashesKept, NotDisturbed

LEMMA StashesMoved ==
  ASSUME NEW c \in Calls, StashesKept(c), c \notin disturbed' => c \notin disturbed /\ pc[c] \notin Active
  PROVE  NotDisturbed(c)
BY DEF NotDisturbed

LEMMA OthersLeave ==
  ASSUME TypeOK, NEW c \in Calls, Others
  PROVE  Untouched(c) /\ StashesKept(c) /\ NotDisturbed(c)
<1>1. UNCHANGED <<pc, known, report, faults>> /\ UNCHANGED <<head, branches>>
  BY DEF Others, Edit, Commit, OtherStash, OtherPop
<1>2. Untouched(c)
  BY <1>1 DEF Untouched, known
<1>3. CASE UNCHANGED <<stashes, disturbed>>
  BY <1>1, <1>2, <1>3, StashesLeft
<1>4. CASE OtherStash
  <2>1. StashesKept(c) /\ (FirstStash(c) => FirstStash(c)')
    BY <1>4, NameTypes, PushKeeps DEF OtherStash, StashesKept
  <2>2. c \notin disturbed' => c \notin disturbed /\ pc[c] # "pop"
    BY <1>4 DEF OtherStash, MovesStashes
  <2> QED  BY <1>1, <1>2, <2>1, <2>2 DEF NotDisturbed
<1>5. CASE OtherPop
  <2>1. StashesKept(c) /\ (FirstStash(c) => FirstStash(c)')
    BY <1>5, PopKeeps DEF OtherPop, StashesKept
  <2>2. c \notin disturbed' => c \notin disturbed /\ pc[c] # "pop"
    BY <1>5 DEF OtherPop, MovesStashes
  <2> QED  BY <1>1, <1>2, <2>1, <2>2 DEF NotDisturbed
<1> QED  BY <1>2, <1>3, <1>4, <1>5 DEF Others, Edit, Commit

LEMMA OtherCallLeaves ==
  ASSUME TypeOK, NEW c \in Calls, NEW d \in Calls, c # d, CallStep(d)
  PROVE  Untouched(c) /\ StashesKept(c) /\ NotDisturbed(c)
<1> USE DEF repository, known
<1>1. Untouched(c)
  <2>1. pc'[c] = pc[c] /\ report'[c] = report[c]
    <3>1. pc'[c] = pc[c]
      BY GitSteps DEF TypeOK, CallStep, Call, FindsNothing, Look, Status, GitFails, GitTimesOut, Gather, Back,
         BackFails, ListStashes, ListFails, Pop, PopFails, PopTimesOut, Advance, CheckTree, CheckCurrent, FindBranch,
         SetupMoves, Update, SetupFails, Goes, Restores
    <3>2. report'[c] = report[c]
      BY GitSteps DEF TypeOK, CallStep, Call, FindsNothing, Look, Status, GitFails, GitTimesOut, Gather, Back,
         BackFails, ListStashes, ListFails, Pop, PopFails, PopTimesOut, Advance, CheckTree, CheckCurrent, FindBranch,
         SetupMoves, Update, SetupFails, Restores
    <3> QED  BY <3>1, <3>2
  <2>2. target'[c] = target[c] /\ original'[c] = original[c] /\ stashed'[c] = stashed[c]
    BY GitSteps DEF TypeOK, CallStep, Call, FindsNothing, Look, Status, GitFails, GitTimesOut, Gather, Back,
       BackFails, ListStashes, ListFails, Pop, PopFails, PopTimesOut, Advance, CheckTree, CheckCurrent, FindBranch,
       SetupMoves, Update, SetupFails, Moves
  <2>3. prepared'[c] = prepared[c] /\ pick'[c] = pick[c]
    BY GitSteps DEF TypeOK, CallStep, Call, FindsNothing, Look, Status, GitFails, GitTimesOut, Gather, Back,
       BackFails, ListStashes, ListFails, Pop, PopFails, PopTimesOut, Advance, CheckTree, CheckCurrent, FindBranch,
       SetupMoves, Update, SetupFails, Moves
  <2>4. c \in Setups => carry'[c] = carry[c]
    BY GitSteps DEF TypeOK, CallStep, Call, FindsNothing, Look, Status, GitFails, GitTimesOut, Gather, Back,
       BackFails, ListStashes, ListFails, Pop, PopFails, PopTimesOut, Advance, CheckTree, CheckCurrent, FindBranch,
       SetupMoves, Update, SetupFails, Moves
  <2>5. branches \subseteq branches'
    BY GitSteps DEF TypeOK, CallStep, Call, FindsNothing, Look, Status, GitFails, GitTimesOut, Gather, Back,
       BackFails, ListStashes, ListFails, Pop, PopFails, PopTimesOut, Advance, CheckTree, CheckCurrent, FindBranch,
       SetupMoves, Update, SetupFails, Moves, Effect, Checkout
  <2> QED  BY <2>1, <2>2, <2>3, <2>4, <2>5 DEF Untouched
<1>2. CASE UNCHANGED <<head, stashes>> /\ (c \notin disturbed' => c \notin disturbed)
  BY <1>1, <1>2, StashesLeft
<1>3. CASE UNCHANGED stashes /\ Disturbs(d)
  BY <1>1, <1>3, StashesLeft, DisturbedTypes
<1>4. CASE Push(d) /\ Disturbs(d)
  <2>1. StashesKept(c)
    BY <1>4, PushKeeps DEF StashesKept
  <2> QED  BY <1>1, <1>4, <2>1, StashesMoved, DisturbedTypes
<1>5. CASE \E k \in DOMAIN stashes : PopAt(k) /\ Disturbs(d)
  <2>1. StashesKept(c)
    BY <1>5, PopKeeps DEF StashesKept
  <2> QED  BY <1>1, <1>5, <2>1, StashesMoved, DisturbedTypes
<1>6. CASE Call(d)
  <2>1. StashesKept(c) /\ (FirstStash(c) => FirstStash(c)')
    BY <1>6, Renamed DEF Call, StashesKept
  <2>2. head' = head /\ (c \notin disturbed' => c \notin disturbed)
    BY <1>6 DEF Call
  <2>3. StashesOf(c)' \subseteq StashesOf(c)
    <3>1. \A i \in DOMAIN stashes : stashes[i] \in Entries
      BY StashTypes
    <3>2. /\ DOMAIN stashes' = DOMAIN stashes
          /\ \A i \in DOMAIN stashes : stashes'[i].by = IF stashes[i].by = d THEN Earlier ELSE stashes[i].by
      BY <1>6, <3>1 DEF Call, Entries
    <3> QED  BY <3>2, NameTypes DEF StashesOf
  <2> QED  BY <1>1, <2>1, <2>2, <2>3 DEF NotDisturbed
<1>7. ASSUME Effect(d)
      PROVE  \/ UNCHANGED <<head, stashes, disturbed>>
             \/ Disturbs(d) /\ (UNCHANGED stashes \/ Push(d))
  <2>1. CASE pc[d] = "stash"
    BY <1>7, <2>1 DEF Effect
  <2>2. CASE pc[d] = "checkout"
    BY <1>7, <2>2 DEF Effect
  <2>3. CASE pc[d] \notin {"stash", "checkout"}
    BY <1>7, <2>3 DEF Effect
  <2> QED  BY <2>1, <2>2, <2>3
<1>8. CASE GitSucceeds(d) \/ GitTimesOut(d)
  <2>1. Effect(d)
    BY <1>8, GitSteps DEF GitTimesOut
  <2> QED  BY <1>1, <1>2, <1>3, <1>4, <1>7, <2>1
<1>9. CASE Back(d) \/ BackFails(d)
  <2>1. UNCHANGED stashes /\ IF head' # head THEN Disturbs(d) ELSE UNCHANGED disturbed
    BY <1>9 DEF Back, BackFails
  <2> QED  BY <1>1, <1>2, <1>3, <2>1
<1>10. CASE Pop(d) \/ PopTimesOut(d)
  BY <1>1, <1>5, <1>10 DEF Pop, PopTimesOut
<1>11. CASE SetupMoves(d) \/ SetupFails(d)
  <2>1. UNCHANGED <<head, stashes, disturbed>> \/ Moves(d)
    BY <1>11, Zenon DEF SetupMoves, SetupFails
  <2>2. CASE Moves(d)
    BY <1>1, <1>3, <2>2 DEF Moves
  <2> QED  BY <1>1, <1>2, <2>1, <2>2
<1>12. CASE \/ FindsNothing(d) \/ Look(d) \/ Status(d) \/ GitFails(d) \/ Gather(d) \/ ListStashes(d) \/ ListFails(d)
            \/ PopFails(d) \/ Advance(d) \/ CheckTree(d) \/ CheckCurrent(d) \/ FindBranch(d) \/ Update(d)
  <2>1. UNCHANGED <<head, stashes>> /\ (UNCHANGED disturbed \/ disturbed' = disturbed \ {d})
    BY <1>12 DEF FindsNothing, Look, Status, GitFails, Gather, ListStashes, ListFails, PopFails, Advance, CheckTree,
       CheckCurrent, FindBranch, Update
  <2> QED  BY <1>1, <1>2, <2>1
<1> QED  BY <1>1, <1>6, <1>8, <1>9, <1>10, <1>11, <1>12 DEF CallStep

-------------------------------------------------------------------------------
LEMMA NoStashAtAll ==
  ASSUME NEW c, NoStash(c)'
  PROVE  OneStash(c)' /\ FirstStash(c)'
BY DEF NoStash, OneStash, FirstStash

LEMMA ReviewOrSetup ==
  ASSUME NEW c \in Calls
  PROVE  c \in Reviews <=> c \notin Setups
BY WorkingTreeAssumption DEF Calls

(* The preparation of a review.                                            *)
LEMMA PreparingKeeps ==
  ASSUME TypeOK, NEW c \in Calls, CallInv(c),
         \/ Call(c) \/ FindsNothing(c) \/ Look(c) \/ Status(c) \/ GitSucceeds(c) \/ GitFails(c) \/ GitTimesOut(c)
         \/ Gather(c)
  PROVE  CallInv(c)'
<1> USE DEF repository, known
<1>0. Placed(c) /\ Stashes(c) /\ (c \notin disturbed => Undisturbed(c))
  BY DEF CallInv
<1>1. CASE Call(c)
  <2>1. NoStash(c)' /\ OneStash(c)' /\ FirstStash(c)'
    BY <1>1, Renamed, NoStashAtAll DEF Call
  <2>2. pc'[c] = "look" /\ ~prepared'[c] /\ c \in Reviews
    BY <1>1 DEF Call, Goes, TypeOK
  <2>3. Placed(c)'
    BY <2>2, PhaseNames, ReviewOrSetup DEF Placed
  <2>4. Stashes(c)' /\ Undisturbed(c)'
    BY <2>1, <2>2 DEF Stashes, Undisturbed
  <2> QED  BY <2>2, <2>3, <2>4 DEF CallInv
<1>2. ASSUME pc[c] \in Preparing \cup {"gather"}  PROVE c \in Reviews /\ c \notin Setups
  BY <1>0, <1>2, PhaseNames, ReviewOrSetup DEF Placed
<1>3. CASE FindsNothing(c)
  <2>1. pc[c] = "look" /\ pc'[c] = "idle" /\ c \in Reviews /\ c \notin Setups
    BY <1>2, <1>3, PhaseNames DEF FindsNothing, Goes, TypeOK
  <2>2. NoStash(c)' /\ OneStash(c)'
    BY <1>0, <1>3, <2>1, SameStashes DEF FindsNothing, Stashes
  <2>3. Placed(c)' /\ Stashes(c)' /\ Undisturbed(c)'
    BY <2>1, <2>2, PhaseNames DEF Placed, Stashes, Undisturbed
  <2> QED  BY <2>1, <2>3 DEF CallInv
<1>4. CASE Look(c) \/ Status(c)
  <2>1. /\ pc[c] \in {"look", "status"} /\ c \in Reviews /\ c \notin Setups
        /\ pc'[c] \in {"gather", "status", "stash", "fetch"}
        /\ UNCHANGED stashes
    BY <1>2, <1>4, PhaseNames DEF Look, Status, Goes, TypeOK
  <2>2. NoStash(c)' /\ OneStash(c)' /\ FirstStash(c)'
    BY <1>0, <2>1, SameStashes, NoStashAtAll DEF Stashes
  <2>3. IF pc'[c] = "gather" THEN prepared'[c] ELSE ~prepared'[c]
    <3>1. CASE Look(c)
      BY <3>1 DEF Look, Goes, TypeOK
    <3>2. CASE Status(c)
      BY <1>0, <2>1, <3>2, PhaseNames DEF Status, Goes, TypeOK, Placed
    <3> QED  BY <1>4, <3>1, <3>2
  <2>4. Placed(c)' /\ Stashes(c)' /\ Undisturbed(c)'
    BY <2>1, <2>2, <2>3, PhaseNames DEF Placed, Stashes, Undisturbed
  <2> QED  BY <2>1, <2>4 DEF CallInv
<1>5. ASSUME Effect(c), pc[c] \in {"stash", "fetch", "checkout", "pull"}
      PROVE  /\ OneStash(c)'
             /\ c \notin disturbed' => c \notin disturbed /\ FirstStash(c)'
             /\ pc[c] # "stash" => (NoStash(c) => NoStash(c)')
  <2>1. CASE pc[c] = "stash"
    BY <1>0, <1>5, <2>1, PushOwn, DisturbedTypes DEF Effect, Stashes, Disturbs
  <2>2. CASE pc[c] # "stash"
    <3>1. UNCHANGED stashes /\ (Disturbs(c) \/ UNCHANGED disturbed)
      BY <1>5, <2>2 DEF Effect
    <3>2. c \notin disturbed' => c \notin disturbed
      BY <3>1 DEF Disturbs
    <3> QED  BY <1>0, <1>5, <2>2, <3>1, <3>2, SameStashes, PhaseNames DEF Stashes, Undisturbed
  <2> QED  BY <2>1, <2>2
<1>6. CASE GitSucceeds(c)
  <2>1. /\ pc[c] \in {"stash", "fetch", "checkout", "pull"} /\ c \in Reviews /\ c \notin Setups
        /\ Effect(c)
        /\ pc'[c] \in {"fetch", "checkout", "pull", "gather"}
        /\ pc[c] = "pull" <=> pc'[c] = "gather"
    BY <1>2, <1>6, GitSteps, PhaseNames DEF Goes, TypeOK
  <2>2. IF pc'[c] = "gather" THEN prepared'[c] ELSE ~prepared'[c]
    BY <1>6, <2>1, GitSteps DEF TypeOK
  <2>3. stashed'[c] \/ NoStash(c)'
    <3>1. stashed'[c] = (stashed[c] \/ pc[c] = "stash")
      BY <1>6, GitSteps DEF TypeOK
    <3>2. pc[c] # "stash" => stashed[c] \/ NoStash(c)
      BY <1>0, <2>1 DEF Stashes
    <3> QED  BY <1>5, <2>1, <3>1, <3>2
  <2>4. OneStash(c)' /\ (c \notin disturbed' => FirstStash(c)')
    BY <1>5, <2>1
  <2>5. Placed(c)' /\ Stashes(c)' /\ (c \notin disturbed' => Undisturbed(c)')
    BY <2>1, <2>2, <2>3, <2>4, PhaseNames DEF Placed, Stashes, Undisturbed
  <2> QED  BY <2>1, <2>5 DEF CallInv
<1>7. CASE GitFails(c) \/ GitTimesOut(c)
  <2>1. /\ pc[c] \in Preparing /\ c \in Reviews /\ c \notin Setups
        /\ pc'[c] = "gather" /\ report'[c] # "none" /\ prepared'[c] = prepared[c]
    BY <1>2, <1>7, PhaseNames DEF GitFails, GitTimesOut, Goes, TypeOK
  <2>2. ~prepared'[c]
    BY <1>0, <2>1 DEF Placed
  <2>3. OneStash(c)' /\ (c \notin disturbed' => FirstStash(c)')
    <3>1. CASE GitFails(c)
      <4>1. UNCHANGED <<stashes, disturbed>> /\ pc[c] \in Active
        BY <2>1, <3>1, PhaseNames DEF GitFails
      <4> QED  BY <1>0, <4>1, SameStashes DEF Stashes, Undisturbed
    <3>2. CASE GitTimesOut(c)
      BY <1>5, <3>2 DEF GitTimesOut
    <3> QED  BY <1>7, <3>1, <3>2
  <2>4. Placed(c)' /\ Stashes(c)' /\ (c \notin disturbed' => Undisturbed(c)')
    BY <2>1, <2>2, <2>3, PhaseNames DEF Placed, Stashes, Undisturbed
  <2> QED  BY <2>1, <2>4 DEF CallInv
<1>8. CASE Gather(c)
  <2>1. /\ pc[c] = "gather" /\ c \in Reviews /\ c \notin Setups
        /\ UNCHANGED <<stashes, disturbed, prepared, stashed, report>>
        /\ pc'[c] = IF prepared[c] THEN "back" ELSE "answered"
    BY <1>2, <1>8 DEF Gather, Goes, TypeOK
  <2>2. OneStash(c)' /\ (c \notin disturbed => FirstStash(c)')
    BY <1>0, <2>1, SameStashes, PhaseNames DEF Stashes, Undisturbed
  <2>3. prepared[c] => stashed[c] \/ NoStash(c)'
    BY <1>0, <2>1, SameStashes DEF Stashes
  <2>4. ~prepared[c] => report[c] # "none"
    BY <1>0, <2>1 DEF Placed
  <2>5. Placed(c)' /\ Stashes(c)' /\ (c \notin disturbed' => Undisturbed(c)')
    BY <2>1, <2>2, <2>3, <2>4, PhaseNames DEF Placed, Stashes, Undisturbed
  <2> QED  BY <2>1, <2>5 DEF CallInv
<1> QED  BY <1>1, <1>3, <1>4, <1>6, <1>7, <1>8

(* A call that answers with an error has nothing more to keep.             *)
LEMMA ErrorKeeps ==
  ASSUME TypeOK, NEW c \in Calls, CallInv(c), pc'[c] = "answered", report'[c] # "none",
         OneStash(c)', NoStash(c) => NoStash(c)'
  PROVE  CallInv(c)'
<1>1. c \in Setups => NoStash(c)
  BY DEF CallInv, Stashes
<1>2. Placed(c)' /\ Stashes(c)' /\ Undisturbed(c)'
  BY <1>1, PhaseNames DEF Placed, Stashes, Undisturbed
<1> QED  BY <1>1, <1>2 DEF CallInv

(* The tree is given back.                                                 *)
LEMMA GivingBackKeeps ==
  ASSUME TypeOK, NEW c \in Calls, CallInv(c),
         Back(c) \/ BackFails(c) \/ ListStashes(c) \/ ListFails(c) \/ Pop(c) \/ PopFails(c) \/ PopTimesOut(c)
  PROVE  CallInv(c)'
<1> USE DEF repository, known
<1>0. Placed(c) /\ Stashes(c) /\ (c \notin disturbed => Undisturbed(c)) /\ HadBranch(c) \in BOOLEAN /\ stashed[c] \in BOOLEAN
  BY DEF CallInv, HadBranch, TypeOK
<1>1. /\ pc[c] \in {"back", "list", "pop"} /\ pc[c] \in Active /\ c \in Reviews /\ c \notin Setups
      /\ pc[c] \in {"list", "pop"} => stashed[c]
  <2>1. pc[c] \in {"back", "list", "pop"}
    BY DEF Back, BackFails, ListStashes, ListFails, Pop, PopFails, PopTimesOut
  <2> QED  BY <1>0, <2>1, PhaseNames, ReviewOrSetup DEF Placed
<1>2. c \notin disturbed' => c \notin disturbed
  BY DEF Back, BackFails, ListStashes, ListFails, Pop, PopFails, PopTimesOut, Disturbs
<1>3. OneStash(c)
  BY <1>0 DEF Stashes
<1>4. CASE Back(c)
  <2>1. pc[c] = "back" /\ UNCHANGED <<stashes, known>>
        /\ head' = IF HadBranch(c) THEN original[c] ELSE head
    BY <1>4 DEF Back
  <2>2. OneStash(c)' /\ (NoStash(c) => NoStash(c)') /\ (c \notin disturbed' => FirstStash(c)')
    BY <1>0, <1>1, <1>2, <1>3, <2>1, SameStashes DEF Undisturbed
  <2>3. CASE stashed[c]
    <3>1. pc'[c] = "list"
      BY <1>4, <2>3 DEF Back, Goes, TypeOK
    <3>2. Placed(c)' /\ Stashes(c)'
      BY <1>1, <2>1, <2>2, <2>3, <3>1, PhaseNames DEF Placed, Stashes
    <3>3. c \notin disturbed' => Undisturbed(c)'
      BY <2>1, <2>2, <3>1 DEF Undisturbed, HadBranch
    <3> QED  BY <3>1, <3>2, <3>3 DEF CallInv
  <2>4. CASE ~stashed[c]
    <3>1. pc'[c] = "answered"
      BY <1>0, <1>4, <2>4, ReportTypes DEF Back
    <3>2. NoStash(c)'
      BY <1>0, <2>1, <2>2, <2>4 DEF Stashes
    <3>3. Placed(c)' /\ Stashes(c)' /\ Undisturbed(c)'
      BY <1>1, <2>2, <3>1, <3>2, PhaseNames DEF Placed, Stashes, Undisturbed
    <3> QED  BY <3>1, <3>3 DEF CallInv
  <2> QED  BY <1>0, <2>3, <2>4
<1>5. CASE BackFails(c) \/ ListFails(c) \/ PopFails(c)
  <2>1. UNCHANGED stashes /\ \E restored \in BOOLEAN : Restores(c, restored, FALSE) /\ (restored => stashed[c])
    BY <1>0, <1>1, <1>5 DEF BackFails, ListFails, PopFails
  <2>2. pc'[c] = "answered" /\ report'[c] # "none"
    BY <2>1, ReportTypes
  <2> QED  BY <1>3, <2>1, <2>2, ErrorKeeps, SameStashes
<1>6. CASE ListStashes(c)
  <2>1. pc[c] = "list" /\ UNCHANGED <<head, stashes, original, stashed, prepared, disturbed>>
    BY <1>6 DEF ListStashes
  <2>2. CASE Newest = {} /\ Restores(c, HadBranch(c), FALSE)
    <3>1. pc'[c] = "answered" /\ report'[c] # "none"
      BY <1>0, <1>1, <2>1, <2>2, ReportTypes
    <3> QED  BY <1>3, <2>1, <3>1, ErrorKeeps, SameStashes
  <2>3. CASE (\E i \in Newest : pick' = [pick EXCEPT ![c] = i]) /\ Goes(c, "pop") /\ UNCHANGED report
    <3>1. pc'[c] = "pop" /\ pick'[c] \in Newest
      BY <2>3 DEF Goes, TypeOK
    <3>2. \A i, j \in Newest : i = j
      BY StashTypes DEF Newest, Marks
    <3>3. OneStash(c)' /\ (c \notin disturbed => FirstStash(c) /\ FirstStash(c)')
      BY <1>0, <1>1, <1>3, <2>1, SameStashes DEF Undisturbed
    <3>4. c \notin disturbed => \A i \in StashesOf(c)' : i = pick'[c]
      BY <2>1, <3>1, <3>2, <3>3, SameStashes DEF FirstStash, StashesOf
    <3>5. Placed(c)' /\ Stashes(c)'
      BY <1>1, <2>1, <3>1, <3>3, PhaseNames DEF Placed, Stashes
    <3>6. c \notin disturbed' => Undisturbed(c)'
      BY <1>0, <2>1, <3>1, <3>3, <3>4 DEF Undisturbed, HadBranch
    <3> QED  BY <3>1, <3>5, <3>6 DEF CallInv
  <2> QED  BY <1>6, <2>2, <2>3 DEF ListStashes
<1>7. CASE Pop(c)
  <2>1. pc[c] = "pop" /\ pick[c] \in DOMAIN stashes /\ PopAt(pick[c])
    BY <1>7 DEF Pop
  <2>2. pc'[c] = "answered"
    BY <1>0, <1>7, ReportTypes DEF Pop
  <2>3. OneStash(c)' /\ (NoStash(c) => NoStash(c)')
    BY <1>3, <2>1, PopKeeps
  <2>4. c \notin disturbed => NoStash(c)'
    <3>1. CASE stashes[pick[c]].by = c
      BY <1>3, <2>1, <3>1, PopKeeps
    <3>2. CASE stashes[pick[c]].by # c
      BY <1>0, <2>1, <2>3, <3>2 DEF Undisturbed, StashesOf, NoStash
    <3> QED  BY <3>1, <3>2
  <2>5. Placed(c)' /\ Stashes(c)' /\ (c \notin disturbed' => Undisturbed(c)')
    BY <1>1, <1>2, <2>2, <2>3, <2>4, PhaseNames DEF Placed, Stashes, Undisturbed
  <2> QED  BY <2>2, <2>5 DEF CallInv
<1>8. CASE PopTimesOut(c)
  <2>1. pc[c] = "pop" /\ pick[c] \in DOMAIN stashes /\ PopAt(pick[c]) /\ Restores(c, HadBranch(c), FALSE)
    BY <1>8 DEF PopTimesOut
  <2>2. pc'[c] = "answered" /\ report'[c] # "none"
    BY <1>0, <1>1, <2>1, ReportTypes
  <2> QED  BY <1>3, <2>1, <2>2, ErrorKeeps, PopKeeps
<1> QED  BY <1>4, <1>5, <1>6, <1>7, <1>8

(* The setup of a task's branch: it has no stash, and knows where it is.   *)
LEMMA SettingKeeps ==
  ASSUME TypeOK, Default \in branches, NEW c \in Calls, CallInv(c),
         \/ Advance(c) \/ CheckTree(c) \/ CheckCurrent(c) \/ FindBranch(c)
         \/ SetupMoves(c) \/ Update(c) \/ SetupFails(c)
  PROVE  CallInv(c)'
<1> USE DEF repository, known
<1>0. Placed(c) /\ Stashes(c) /\ (c \notin disturbed => Undisturbed(c))
  BY DEF CallInv
<1>1. c \in Setups /\ c \notin Reviews
  <2>1. c \in Setups \/ pc[c] \in Setting
    BY PhaseNames DEF Advance, CheckTree, CheckCurrent, FindBranch, SetupMoves, Moves, Update, SetupFails
  <2> QED  BY <1>0, <2>1, PhaseNames, ReviewOrSetup DEF Placed
<1>2. UNCHANGED <<stashes, target>>
  BY DEF Advance, CheckTree, CheckCurrent, FindBranch, SetupMoves, Moves, Update, SetupFails
<1>3. NoStash(c)' /\ OneStash(c)' /\ FirstStash(c)'
  BY <1>0, <1>1, <1>2, SameStashes, NoStashAtAll DEF Stashes
<1>4. pc'[c] \in Setting \cup {"answered"}
  BY PhaseNames DEF TypeOK, Goes, Advance, CheckTree, CheckCurrent, FindBranch, SetupMoves, Update, SetupFails
<1>5. Placed(c)' /\ Stashes(c)'
  BY <1>1, <1>3, <1>4, PhaseNames DEF Placed, Stashes
<1>6. pc'[c] = "switch" => target'[c] \in branches'
  <2>1. SUFFICES ASSUME pc'[c] = "switch"  PROVE FindBranch(c) /\ target[c] \in branches
    BY <2>1, <1>2 DEF FindBranch
  <2>2. FindBranch(c)
    BY <2>1 DEF TypeOK, Goes, Advance, CheckTree, CheckCurrent, FindBranch, SetupMoves, Update, SetupFails
  <2> QED  BY <2>1, <2>2 DEF FindBranch, Goes, TypeOK
<1>7. ASSUME c \notin disturbed', pc'[c] \in {"update", "create"}  PROVE carry'[c] \/ head' = Default
  <2>1. CASE FindBranch(c)
    <3>1. carry[c] /\ UNCHANGED carry
      BY <1>7, <2>1 DEF FindBranch, Goes, TypeOK
    <3> QED  BY <3>1
  <2>2. CASE SetupMoves(c)
    <3>1. pc[c] = "default"
      BY <1>7, <2>2 DEF SetupMoves, Goes, TypeOK
    <3> QED  BY <2>2, <3>1 DEF SetupMoves, Moves, Checkout
  <2>3. CASE Update(c)
    BY <1>0, <1>7, <2>3 DEF Update, Undisturbed
  <2>4. FindBranch(c) \/ SetupMoves(c) \/ Update(c)
    BY <1>7 DEF TypeOK, Goes, Advance, CheckTree, CheckCurrent, SetupFails
  <2> QED  BY <2>1, <2>2, <2>3, <2>4
<1>8. c \notin disturbed' => Undisturbed(c)'
  BY <1>3, <1>4, <1>7, PhaseNames DEF Undisturbed
<1> QED  BY <1>5, <1>6, <1>8 DEF CallInv

-------------------------------------------------------------------------------
LEMMA OwnStepKeeps ==
  ASSUME TypeOK, Default \in branches, NEW c \in Calls, CallInv(c), CallStep(c)
  PROVE  CallInv(c)'
BY PreparingKeeps, GivingBackKeeps, SettingKeeps DEF CallStep

LEMMA TreeInvariant == Spec => []TreeInv
<1>1. Init => TreeInv
  <2> SUFFICES ASSUME Init  PROVE TreeInv
    OBVIOUS
  <2>1. TypeOK
    <3>1. head \in Heads /\ branches \subseteq Branches /\ tree \subseteq Work /\ stashes \in Seq(Entries)
      BY DEF Init
    <3>2. /\ pc \in [Calls -> Active \cup {"idle", "answered"}]
          /\ target \in [Calls -> Branches] /\ original \in [Calls -> Heads]
          /\ carry \in [Setups -> BOOLEAN] /\ {stashed, prepared} \subseteq [Calls -> BOOLEAN]
          /\ pick \in [Calls -> Nat]
          /\ report \in [Calls -> {"none", "prepare", "restore", "confirm", "setup"}]
          /\ disturbed \subseteq Calls /\ faults \in 0 .. MaxFaults
      BY WorkingTreeAssumption DEF Init, Heads
    <3> QED  BY <3>1, <3>2 DEF TypeOK
  <2>2. Default \in branches
    BY WorkingTreeAssumption DEF Init
  <2>3. ASSUME NEW c \in Calls  PROVE CallInv(c)
    <3>1. pc[c] = "idle" /\ NoStash(c) /\ OneStash(c)
      BY DEF Init, NoStash, OneStash
    <3>2. Placed(c) /\ Stashes(c) /\ Undisturbed(c)
      BY <3>1, PhaseNames DEF Placed, Stashes, Undisturbed
    <3> QED  BY <3>1, <3>2 DEF CallInv
  <2> QED  BY <2>1, <2>2, <2>3 DEF TreeInv
<1>2. TreeInv /\ [Next]_vars => TreeInv'
  <2> SUFFICES ASSUME TreeInv, [Next]_vars  PROVE TreeInv'
    OBVIOUS
  <2>0. TypeOK /\ Default \in branches /\ \A c \in Calls : CallInv(c)
    BY DEF TreeInv
  <2>1. ASSUME NEW d \in Calls, CallStep(d)  PROVE TreeInv'
    <3>1. TypeOK'
      BY <2>0, <2>1, CallKeepsTypes
    <3>2. ASSUME NEW c \in Calls  PROVE CallInv(c)'
      <4>1. CASE c = d
        BY <2>0, <2>1, <4>1, OwnStepKeeps
      <4>2. CASE c # d
        BY <2>0, <2>1, <4>2, OtherCallLeaves, BystanderKeeps
      <4> QED  BY <4>1, <4>2
    <3>3. Default \in branches'
      BY <2>0, <2>1, GitSteps DEF CallStep, Call, FindsNothing, Look, Status, GitFails, GitTimesOut, Gather, Back,
         BackFails, ListStashes, ListFails, Pop, PopFails, PopTimesOut, Advance, CheckTree, CheckCurrent, FindBranch,
         SetupMoves, Update, SetupFails, Moves, Effect, Checkout, repository
    <3> QED  BY <3>1, <3>2, <3>3 DEF TreeInv
  <2>2. CASE Others
    <3>1. TypeOK'
      BY <2>0, <2>2, OthersKeepTypes
    <3>2. \A c \in Calls : CallInv(c)'
      BY <2>0, <2>2, OthersLeave, BystanderKeeps
    <3>3. Default \in branches'
      BY <2>0, <2>2 DEF Others, Edit, Commit, OtherStash, OtherPop
    <3> QED  BY <3>1, <3>2, <3>3 DEF TreeInv
  <2>3. CASE UNCHANGED vars
    <3>1. TypeOK' /\ Default \in branches'
      BY <2>0, <2>3 DEF vars, repository, known, TypeOK
    <3>2. ASSUME NEW c \in Calls  PROVE CallInv(c)'
      <4>1. Untouched(c) /\ StashesKept(c) /\ NotDisturbed(c)
        <5>1. UNCHANGED <<head, branches, stashes, disturbed, pc, known, report>>
          BY <2>3 DEF vars, repository
        <5>2. StashesKept(c) /\ NotDisturbed(c)
          BY <5>1, StashesLeft
        <5> QED  BY <5>1, <5>2 DEF Untouched, known
      <4> QED  BY <2>0, <4>1, BystanderKeeps
    <3> QED  BY <3>1, <3>2 DEF TreeInv
  <2> QED  BY <2>1, <2>2, <2>3 DEF Next
<1> QED  BY <1>1, <1>2, PTL DEF Spec

(* Every variable keeps its type, whoever moves and whatever fails.        *)
THEOREM TypesHold == Spec => []TypeOK
<1>1. TreeInv => TypeOK
  BY DEF TreeInv
<1> QED  BY <1>1, TreeInvariant, PTL

(* No review answers without an error while a stash of its own is left:    *)
(* for any number of sessions, failures and programs beside them.          *)
THEOREM LeftBehindAlwaysReported == Spec => []LeftBehindIsReported
<1>1. TreeInv => LeftBehindIsReported
  <2> SUFFICES ASSUME TreeInv, NEW i \in DOMAIN stashes, NEW c \in Calls \ disturbed,
                      stashes[i].by = c, pc[c] = "answered", report[c] = "none"
               PROVE  FALSE
    BY DEF LeftBehindIsReported
  <2>1. Undisturbed(c)
    BY DEF TreeInv, CallInv
  <2> QED  BY <2>1 DEF Undisturbed, NoStash
<1> QED  BY <1>1, TreeInvariant, PTL

(* A step that ends a call is its own.                                     *)
LEMMA OwnAnswer ==
  ASSUME TreeInv, [Next]_vars, NEW c \in Calls, pc'[c] # pc[c]
  PROVE  CallStep(c)
<1>1. TypeOK
  BY DEF TreeInv
<1>2. pc # pc'
  OBVIOUS
<1>3. PICK d \in Calls : CallStep(d)
  BY <1>2 DEF Next, Others, vars
<1> QED  BY <1>1, <1>3, OtherCallLeaves DEF Untouched

(* The answer of a review that names no error means that its branch is     *)
(* checked out again and that its work is back in the tree.                *)
THEOREM SilenceAlwaysMeansRestored == Spec => SilentMeansRestored
<1>1. TreeInv /\ [Next]_vars =>
        [\A c \in Reviews \ disturbed : Answers(c) /\ report'[c] = "none" =>
           /\ head' = original[c]
           /\ \A i \in StashesOf(c) : stashes[i].work \subseteq tree']_vars
  <2> SUFFICES ASSUME TreeInv, [Next]_vars, NEW c \in Reviews \ disturbed, Answers(c), report'[c] = "none"
               PROVE  /\ head' = original[c]
                      /\ \A i \in StashesOf(c) : stashes[i].work \subseteq tree'
    OBVIOUS
  <2>1. c \in Calls /\ pc[c] \in Active /\ pc'[c] = "answered"
    BY DEF Calls, Answers
  <2>2. TypeOK /\ Placed(c) /\ Stashes(c) /\ Undisturbed(c) /\ HadBranch(c) \in BOOLEAN
    BY <2>1 DEF TreeInv, CallInv, HadBranch
  <2>3. CallStep(c)
    BY <2>1, PhaseNames, OwnAnswer
  <2>4. c \notin Setups
    BY <2>1, ReviewOrSetup
  <2>5. pc[c] \in Preparing \cup {"gather", "back", "list", "pop"}
    BY <2>1, <2>2, PhaseNames DEF Placed
  <2>6. CASE Back(c)
    <3>1. ~stashed[c]
      BY <2>1, <2>2, <2>6 DEF Back, Goes, TypeOK
    <3>2. HadBranch(c)
      BY <2>1, <2>2, <2>6, <3>1, ReportTypes DEF Back
    <3>3. NoStash(c)
      BY <2>2, <2>6, <3>1 DEF Back, Stashes
    <3> QED  BY <2>6, <3>2, <3>3 DEF Back, NoStash, StashesOf
  <2>7. CASE Pop(c)
    <3>1. pc[c] = "pop" /\ pick[c] \in DOMAIN stashes /\ PopAt(pick[c]) /\ head' = head
      BY <2>7 DEF Pop
    <3>2. HadBranch(c)
      BY <2>1, <2>2, <2>7, ReportTypes DEF Pop
    <3>3. stashes[pick[c]].work \subseteq tree'
      BY <2>2, <3>1, Popped
    <3> QED  BY <2>2, <3>1, <3>2, <3>3 DEF Undisturbed
  <2>8. CASE BackFails(c) \/ ListFails(c) \/ PopFails(c) \/ PopTimesOut(c) \/ (ListStashes(c) /\ pc'[c] = "answered")
    <3>1. stashed[c] \in BOOLEAN
      BY <2>1, <2>2 DEF TypeOK
    <3>2. pc[c] \in {"list", "pop"} => stashed[c]
      BY <2>2 DEF Placed
    <3>3. \E restored \in BOOLEAN : Restores(c, restored, FALSE) /\ (restored => stashed[c])
      BY <2>1, <2>2, <2>8, <3>2 DEF BackFails, ListFails, PopFails, PopTimesOut, ListStashes, Goes, TypeOK
    <3> QED  BY <2>1, <2>2, <3>1, <3>3, ReportTypes
  <2>9. CASE Gather(c)
    <3>1. pc[c] = "gather" /\ UNCHANGED report /\ ~prepared[c]
      BY <2>1, <2>2, <2>9 DEF Gather, Goes, TypeOK
    <3> QED  BY <2>2, <3>1 DEF Placed
  <2>10. ~Call(c) /\ ~FindsNothing(c) /\ ~Look(c) /\ ~Status(c) /\ ~GitSucceeds(c) /\ ~GitFails(c) /\ ~GitTimesOut(c)
    BY <2>1, <2>2, GitSteps DEF Call, FindsNothing, Look, Status, GitFails, GitTimesOut, Goes, TypeOK
  <2>11. /\ ~Advance(c) /\ ~CheckTree(c) /\ ~CheckCurrent(c) /\ ~FindBranch(c)
         /\ ~SetupMoves(c) /\ ~Update(c) /\ ~SetupFails(c)
    BY <2>4, <2>5, PhaseNames DEF Advance, CheckTree, CheckCurrent, FindBranch, SetupMoves, Moves, Update, SetupFails
  <2> QED  BY <2>1, <2>3, <2>6, <2>7, <2>8, <2>9, <2>10, <2>11 DEF CallStep
<1> QED  BY <1>1, TreeInvariant, PTL DEF Spec, SilentMeansRestored

(* git_setup_branch says success only where it was asked to be, and no     *)
(* attempt, also none that fails, makes a branch of anything but the       *)
(* default one unless work is to be carried along.                         *)
THEOREM AlwaysSetUpAsAsked == Spec => SetUpAsAsked
<1>1. TreeInv /\ [Next]_vars =>
        [\A c \in Setups \ disturbed :
           /\ Answers(c) /\ report'[c] = "none" => head' = target[c]
           /\ branches' # branches /\ pc'[c] # pc[c] => carry[c] \/ head = Default]_vars
  <2> SUFFICES ASSUME TreeInv, [Next]_vars, NEW c \in Setups \ disturbed, pc'[c] # pc[c]
               PROVE  /\ Answers(c) /\ report'[c] = "none" => head' = target[c]
                      /\ branches' # branches => carry[c] \/ head = Default
    BY PhaseNames DEF Answers
  <2>1. c \in Calls
    BY DEF Calls
  <2>2. TypeOK /\ Default \in branches /\ Placed(c) /\ Undisturbed(c) /\ (pc[c] = "switch" => target[c] \in branches)
    BY <2>1 DEF TreeInv, CallInv
  <2>3. CallStep(c)
    BY <2>1, OwnAnswer
  <2>4. c \notin Reviews /\ pc[c] \in Setting \cup {"idle", "answered"}
    BY <2>1, <2>2, ReviewOrSetup DEF Placed
  <2>5. ASSUME Moves(c)  PROVE branches' # branches => carry[c] \/ head = Default
    <3>1. CASE pc[c] = "create"
      BY <2>2, <3>1 DEF Undisturbed
    <3>2. CASE pc[c] = "switch"
      BY <2>2, <2>5, <3>2 DEF Moves, Checkout
    <3>3. CASE pc[c] = "default"
      BY <2>2, <2>5, <3>3 DEF Moves, Checkout
    <3> QED  BY <2>5, <3>1, <3>2, <3>3 DEF Moves
  <2>6. CASE SetupMoves(c)
    <3>1. pc'[c] = "answered" => head' = target[c]
      BY <2>1, <2>2, <2>6 DEF SetupMoves, Moves, Checkout, Goes, TypeOK
    <3> QED  BY <2>5, <2>6, <3>1 DEF SetupMoves, Answers
  <2>7. CASE SetupFails(c)
    <3>1. report'[c] # "none"
      BY <2>1, <2>2, <2>7 DEF SetupFails, TypeOK
    <3>2. branches' = branches \/ Moves(c)
      BY <2>7, Zenon DEF SetupFails, repository
    <3> QED  BY <2>5, <3>1, <3>2
  <2>8. CASE CheckTree(c) \/ CheckCurrent(c)
    <3>1. branches' = branches
      BY <2>8 DEF CheckTree, CheckCurrent, repository
    <3>2. pc'[c] = "answered" /\ report'[c] = "none" => head' = target[c]
      BY <2>1, <2>2, <2>8 DEF CheckTree, CheckCurrent, Goes, TypeOK, repository
    <3> QED  BY <3>1, <3>2 DEF Answers
  <2>9. CASE Advance(c) \/ FindBranch(c) \/ Update(c)
    <3>1. branches' = branches /\ pc'[c] # "answered"
      BY <2>1, <2>2, <2>9 DEF Advance, FindBranch, Update, repository, Goes, TypeOK
    <3> QED  BY <3>1 DEF Answers
  <2>10. /\ ~Call(c) /\ ~FindsNothing(c) /\ ~Look(c) /\ ~Status(c) /\ ~GitSucceeds(c) /\ ~GitFails(c) /\ ~GitTimesOut(c)
         /\ ~Gather(c)
    BY <2>1, <2>4, PhaseNames, GitSteps DEF Call, FindsNothing, Look, Status, GitFails, GitTimesOut, Gather
  <2>11. /\ ~Back(c) /\ ~BackFails(c) /\ ~ListStashes(c) /\ ~ListFails(c) /\ ~Pop(c) /\ ~PopFails(c) /\ ~PopTimesOut(c)
    BY <2>4, PhaseNames DEF Back, BackFails, ListStashes, ListFails, Pop, PopFails, PopTimesOut
  <2> QED  BY <2>3, <2>6, <2>7, <2>8, <2>9, <2>10, <2>11 DEF CallStep
<1> QED  BY <1>1, TreeInvariant, PTL DEF Spec, SetUpAsAsked
===============================================================================
