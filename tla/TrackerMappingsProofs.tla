------------------------- MODULE TrackerMappingsProofs -------------------------
(***************************************************************************)
(* What the locked read-modify-write of the mappings file guarantees, for  *)
(* any number of processes, tasks, issues and faults, and each provider.   *)
(***************************************************************************)
EXTENDS TrackerMappings, TLAPS

Updating == {"load", "loaded", "saved"}

(* A call as a record; what is left of its plan may be anything.           *)
IsCall(r) ==
  r \in [op : Operations \cup {"none"}, task : Tasks \cup {None}, issue : Issues \cup {None},
         todo : {r.todo}, at : Places, mode : {"locked", "degraded"}, read : Mappings \cup {None}]

(* The issue is made before it is saved.                                   *)
PostComesFirst(plan) ==
  /\ plan # <<>>
  /\ \/ Head(plan) = "post"
     \/ Head(plan) = "check" /\ Tail(plan) # <<>> /\ Head(Tail(plan)) = "post"

Planned(r) ==
  /\ r.op = "none" => r.todo = <<>> /\ r.at = "step"
  /\ r.op # "none" => r.task \in Tasks
  /\ r.op \in Assigns => r.issue # None \/ PostComesFirst(r.todo)
  /\ r.at \in Updating => r.todo # <<>> /\ Head(r.todo) = "save"
  /\ r.at = "loaded" => r.read \in Mappings

CallsOK ==
  /\ caller = [c \in Callers |-> caller[c]]
  /\ \A c \in Callers : IsCall(caller[c]) /\ Planned(caller[c])

StateOK ==
  /\ provider \in Providers /\ file \in Mappings \cup {Absent, Blank, Corrupt}
  /\ {seed, lock} \subseteq Callers \cup {None} /\ made \in Issues
  /\ settled \subseteq Tasks /\ faults \in Nat

RacedOK == raced \in BOOLEAN

(* Whoever updates without having failed to take the lock holds it; what   *)
(* it has read is what the file still says; a seed that waits to be filled *)
(* is still the file.                                                      *)
LockIsHeld == \A c \in Callers : caller[c].at \in Updating /\ caller[c].mode = "locked" => lock = c
ReadIsCurrent ==
  ~raced => \A c \in Callers : Loaded(c) => file # Corrupt /\ caller[c].read = MapOf(file)
SeedIsBlank == seed # None => file = Blank

Inv ==
  /\ StateOK /\ RacedOK /\ CallsOK
  /\ LockIsHeld /\ ReadIsCurrent /\ SeedIsBlank /\ SettledIsLinked

-------------------------------------------------------------------------------
LEMMA EmptyIsMapping == Empty \in Mappings
  BY DEF Empty, Mappings

LEMMA ContentsDiffer ==
  /\ Absent \notin Mappings /\ Blank \notin Mappings /\ Corrupt \notin Mappings
  /\ Absent # Corrupt /\ Corrupt # Blank /\ Blank # Absent
<1>1. Mappings \subseteq [Tasks -> Nat \cup {None}]
  BY TrackerAssumption DEF Mappings, Issues
<1> QED  BY <1>1, TrackerAssumption

LEMMA MapIsMapping ==
  ASSUME NEW content \in Mappings \cup {Absent, Blank, Corrupt}, content # Corrupt
  PROVE  /\ MapOf(content) \in Mappings
         /\ content \in Mappings => MapOf(content) = content
BY EmptyIsMapping, ContentsDiffer DEF MapOf

LEMMA CallFields ==
  ASSUME NEW r, IsCall(r)
  PROVE  /\ r.op \in Operations \cup {"none"} /\ r.task \in Tasks \cup {None}
         /\ r.issue \in Issues \cup {None} /\ r.at \in Places
         /\ r.mode \in {"locked", "degraded"} /\ r.read \in Mappings \cup {None}
BY DEF IsCall

LEMMA IdleIsCall == IsCall(Idle) /\ Planned(Idle) /\ Idle.at = "step"
  BY DEF IsCall, Planned, Idle, Places, Updating, Assigns

LEMMA ContinuedCall ==
  ASSUME NEW c \in Callers, IsCall(caller[c]), Planned(caller[c]), caller[c].todo # <<>>
  PROVE  /\ IsCall(Onward(c)) /\ Onward(c).at = "step"
         /\ Head(caller[c].todo) # "post" => Planned(Onward(c))
         /\ \A i \in Issues : LET r == [Onward(c) EXCEPT !.issue = i]
                              IN  i # None => IsCall(r) /\ Planned(r) /\ r.at = "step"
<1> DEFINE rest == Tail(caller[c].todo)
           next == [caller[c] EXCEPT !.todo = rest, !.at = "step", !.mode = "locked", !.read = None]
<1>0. Onward(c) = IF rest = <<>> THEN Idle ELSE next
  BY DEF Onward
<1>1. IsCall(next) /\ next.at = "step" /\ next.todo = rest /\ next.op = caller[c].op
        /\ next.task = caller[c].task /\ next.issue = caller[c].issue
  BY DEF IsCall, Places
<1>2. IsCall(Onward(c)) /\ Onward(c).at = "step"
  BY <1>0, <1>1, IdleIsCall, Zenon
<1>3. caller[c].op # "none" /\ caller[c].task \in Tasks
  BY DEF Planned
<1>4. caller[c].issue # None \/ caller[c].op \notin Assigns \/ PostComesFirst(rest) => Planned(next)
  BY <1>1, <1>3 DEF Planned, Updating
<1>5. Head(caller[c].todo) # "post" =>
        caller[c].issue # None \/ caller[c].op \notin Assigns \/ PostComesFirst(rest)
  BY DEF Planned, PostComesFirst
<1>6. Planned(next) => Planned(Onward(c))
  BY <1>0, IdleIsCall, Zenon
<1>7. ASSUME NEW i \in Issues, i # None
      PROVE  LET r == [Onward(c) EXCEPT !.issue = i] IN IsCall(r) /\ Planned(r) /\ r.at = "step"
  <2>1. CASE rest = <<>>
    <3>1. Onward(c) = Idle
      BY <1>0, <2>1
    <3> QED  BY <3>1, <1>7 DEF Idle, IsCall, Planned, Places, Updating, Assigns
  <2>2. CASE rest # <<>>
    <3>1. Onward(c) = next
      BY <1>0, <2>2
    <3> HIDE DEF next
    <3> QED  BY <3>1, <1>1, <1>3, <1>7 DEF IsCall, Planned, Updating
  <2> QED  BY <2>1, <2>2
<1> QED  BY <1>2, <1>4, <1>5, <1>6, <1>7

LEMMA FailedCall ==
  ASSUME NEW c \in Callers, IsCall(caller[c]), Planned(caller[c]), caller[c].todo # <<>>
  PROVE  IsCall(Failed(c)) /\ Planned(Failed(c)) /\ Failed(c).at = "step"
<1>1. CASE Pushing(c)
  <2> DEFINE r == [caller[c] EXCEPT !.todo = <<"notify", "save">>, !.at = "step", !.mode = "locked", !.read = None]
  <2>1. caller[c].op \in {"sync", "hook"} /\ caller[c].task \in Tasks
    BY <1>1 DEF Pushing, Planned
  <2>2. IsCall(r) /\ Planned(r) /\ r.at = "step"
    BY <2>1 DEF IsCall, Planned, Places, Updating, Assigns
  <2> QED  BY <1>1, <2>2 DEF Failed
<1>2. CASE ~Pushing(c)
  BY <1>2, IdleIsCall DEF Failed
<1> QED  BY <1>1, <1>2

(* A step that moves one call and leaves the file alone.                   *)
LEMMA QuietStep ==
  ASSUME Inv, NEW c \in Callers, NEW r, IsCall(r), Planned(r),
         caller' = [caller EXCEPT ![c] = r], UNCHANGED <<provider, file, raced>>,
         seed' \in {seed, None}, made' \in Issues, faults' \in Nat,
         lock' = lock \/ lock' = c \/ (lock = c /\ lock' = None),
         settled' \subseteq Tasks,
         provider = "github" \/ raced \/ settled' = settled
           \/ (Readable(file) => \A t \in settled' : Linked(t)),
         r.at # "loaded",
         r.at \in Updating /\ r.mode = "locked" => lock' = c,
         lock' = c => lock \in {c, None}
  PROVE  Inv'
<1>0. caller = [d \in Callers |-> caller[d]]
  BY DEF Inv, CallsOK
<1>1. caller' = [d \in Callers |-> caller'[d]] /\ caller'[c] = r
        /\ \A d \in Callers \ {c} : caller'[d] = caller[d]
  BY <1>0
<1>2. StateOK'
  BY DEF Inv, StateOK
<1>3. RacedOK'
  BY Zenon DEF Inv, RacedOK
<1>4. CallsOK'
  BY <1>1 DEF Inv, CallsOK
<1>5. LockIsHeld'
  <2> SUFFICES ASSUME NEW d \in Callers, caller'[d].at \in Updating, caller'[d].mode = "locked"
               PROVE  lock' = d
    BY DEF LockIsHeld
  <2>1. CASE d = c
    BY <1>1, <2>1
  <2>2. CASE d # c
    <3>1. lock = d
      BY <1>1, <2>2 DEF Inv, LockIsHeld
    <3> QED  BY <2>2, <3>1, TrackerAssumption
  <2> QED  BY <2>1, <2>2
<1>6. ReadIsCurrent'
  BY <1>1 DEF Inv, ReadIsCurrent, Loaded, At
<1>7. SeedIsBlank'
  BY DEF Inv, SeedIsBlank
<1>8. SettledIsLinked'
  BY DEF Inv, SettledIsLinked, Linked
<1> QED  BY <1>2, <1>3, <1>4, <1>5, <1>6, <1>7, <1>8 DEF Inv

(* Failing answers success for GitHub alone.                               *)
LEMMA SettlingIsQuiet ==
  ASSUME Inv, NEW c \in Callers, Settles(c)
  PROVE  settled' \subseteq Tasks /\ (provider # "github" => settled' = settled)
<1>1. settled \subseteq Tasks /\ Planned(caller[c])
  BY DEF Inv, StateOK, CallsOK
<1> QED  BY <1>1 DEF Settles, Planned

LEMMA FaultCounts ==
  ASSUME Inv, Fault
  PROVE  faults' \in Nat
BY DEF Inv, StateOK, Fault

LEMMA FailureKeepsInv ==
  ASSUME Inv, NEW c \in Callers, caller[c].todo # <<>>, Fails(c), UNCHANGED <<provider, file, raced>>,
         seed' = seed, made' \in Issues, faults' \in Nat,
         lock' = lock \/ Unlocks(c)
  PROVE  Inv'
<1>1. IsCall(caller[c]) /\ Planned(caller[c])
  BY DEF Inv, CallsOK
<1>2. IsCall(Failed(c)) /\ Planned(Failed(c)) /\ Failed(c).at = "step"
  BY <1>1, FailedCall
<1>3. settled' \subseteq Tasks /\ (provider # "github" => settled' = settled)
  BY SettlingIsQuiet DEF Fails
<1>4. caller' = [caller EXCEPT ![c] = Failed(c)]
  BY DEF Fails
<1>5. lock' = lock \/ (lock = c /\ lock' = None)
  BY DEF Unlocks
<1>6. lock' = c => lock \in {c, None}
  BY <1>5, TrackerAssumption
<1> QED  BY <1>2, <1>3, <1>4, <1>5, <1>6, QuietStep DEF Updating

LEMMA GoingOnKeepsInv ==
  ASSUME Inv, NEW c \in Callers, caller[c].todo # <<>>, Head(caller[c].todo) # "post", Continues(c),
         UNCHANGED <<provider, file, raced, seed, made, settled>>, faults' \in Nat,
         lock' = lock \/ Unlocks(c)
  PROVE  Inv'
<1>1. IsCall(caller[c]) /\ Planned(caller[c])
  BY DEF Inv, CallsOK
<1>2. IsCall(Onward(c)) /\ Planned(Onward(c)) /\ Onward(c).at = "step"
  BY <1>1, ContinuedCall
<1>3. caller' = [caller EXCEPT ![c] = Onward(c)]
  BY DEF Continues
<1>4. settled' \subseteq Tasks /\ made' \in Issues
  BY DEF Inv, StateOK
<1>5. lock' = lock \/ (lock = c /\ lock' = None)
  BY DEF Unlocks
<1>6. lock' = c => lock \in {c, None}
  BY <1>5, TrackerAssumption
<1> QED  BY <1>2, <1>3, <1>4, <1>5, <1>6, QuietStep DEF Updating

LEMMA EndingKeepsInv ==
  ASSUME Inv, NEW c \in Callers, caller' = [caller EXCEPT ![c] = Idle],
         UNCHANGED <<provider, file, raced>>, seed' \in {seed, None}, made' = made, faults' \in Nat,
         lock' = lock \/ Unlocks(c), settled' \subseteq Tasks,
         provider = "github" \/ raced \/ settled' = settled
           \/ (Readable(file) => \A t \in settled' : Linked(t))
  PROVE  Inv'
<1>1. made' \in Issues
  BY DEF Inv, StateOK
<1>2. lock' = lock \/ (lock = c /\ lock' = None)
  BY DEF Unlocks
<1>3. lock' = c => lock \in {c, None}
  BY <1>2, TrackerAssumption
<1> QED  BY <1>1, <1>2, <1>3, IdleIsCall, QuietStep DEF Updating

(* A call that stays in its plan, at another place of it.                  *)
LEMMA WaitingKeepsInv ==
  ASSUME Inv, NEW c \in Callers, NEW r, IsCall(r), Planned(r), caller' = [caller EXCEPT ![c] = r],
         UNCHANGED <<provider, file, raced, seed, made, settled>>, faults' \in Nat,
         lock' = lock \/ (lock = None /\ lock' = c),
         r.at # "loaded", r.at \in Updating /\ r.mode = "locked" => lock' = c
  PROVE  Inv'
<1>1. made' \in Issues /\ settled' \subseteq Tasks
  BY DEF Inv, StateOK
<1>2. lock' = c => lock \in {c, None}
  OBVIOUS
<1> QED  BY <1>1, <1>2, QuietStep

LEMMA StepIsHead ==
  ASSUME NEW c \in Callers, Step(c) # "none"
  PROVE  caller[c].todo # <<>> /\ Head(caller[c].todo) = Step(c)
BY DEF Step

-------------------------------------------------------------------------------
LEMMA PlansBegin ==
  ASSUME provider \in Providers
  PROVE  PostComesFirst(CreateSteps) /\ PostComesFirst(<<"check">> \o CreateSteps)
<1>1. CASE provider = "gitlab"
  <2>1. CreateSteps = <<"post", "save">>
    BY <1>1 DEF CreateSteps, GitLabCreate
  <2> QED  BY <2>1 DEF PostComesFirst
<1>2. CASE provider # "gitlab"
  <2>1. CreateSteps = <<"post", "fetch", "save">>
    BY <1>2 DEF CreateSteps, GitHubCreate, JiraCreate, Providers
  <2> QED  BY <2>1 DEF PostComesFirst
<1> QED  BY <1>1, <1>2

LEMMA BeginKeepsInv ==
  ASSUME Inv, NEW c \in Callers, Begin(c)
  PROVE  Inv'
<1>1. PICK op \in Operations, t \in Tasks, i \in 1..made, new \in BOOLEAN :
        caller' = [caller EXCEPT ![c] =
            [op |-> op, task |-> t, issue |-> IF op \in {"link", "import"} THEN i ELSE None,
             todo |-> Plan(op), at |-> IF new THEN "seed" ELSE "step", mode |-> "locked", read |-> None]]
  BY DEF Begin
<1> DEFINE r == [op |-> op, task |-> t, issue |-> IF op \in {"link", "import"} THEN i ELSE None,
                 todo |-> Plan(op), at |-> IF new THEN "seed" ELSE "step", mode |-> "locked", read |-> None]
<1>2. made \in Issues /\ faults \in Nat /\ provider \in Providers
  BY DEF Inv, StateOK
<1>3. i \in Issues /\ i # None
  BY <1>2, TrackerAssumption DEF Issues
<1>4. IsCall(r)
  BY <1>3 DEF IsCall, Places
<1>5. op \in {"create", "ensure"} => PostComesFirst(Plan(op))
  BY <1>2, PlansBegin DEF Plan
<1>6. op # "none"
  BY DEF Operations
<1>7. Planned(r)
  BY <1>3, <1>5, <1>6 DEF Planned, Updating, Assigns
<1>8. r.at \notin Updating
  BY DEF Updating
<1>9. /\ UNCHANGED <<provider, file, raced, seed, made, settled>> /\ faults' \in Nat /\ lock' = lock
      /\ caller' = [caller EXCEPT ![c] = r]
  BY <1>1, <1>2 DEF Begin
<1> HIDE DEF r
<1> QED  BY <1>4, <1>7, <1>8, <1>9, WaitingKeepsInv DEF Updating

LEMMA SeedsKeepInv ==
  ASSUME Inv, NEW c \in Callers, Seeds(c)
  PROVE  Inv'
<1> DEFINE MovedTo(place) == [caller[c] EXCEPT !.at = place]
<1>0. /\ IsCall(caller[c]) /\ Planned(caller[c]) /\ StateOK
      /\ caller = [d \in Callers |-> caller[d]]
  BY DEF Inv, CallsOK
<1>1. \A place \in {"step", "fill"} : IsCall(MovedTo(place)) /\ MovedTo(place).at = place
  <2> TAKE place \in {"step", "fill"}
  <2>1. IsCall([caller[c] EXCEPT !.at = place]) /\ [caller[c] EXCEPT !.at = place].at = place
    BY <1>0 DEF IsCall, Places
  <2> QED  BY <2>1
<1>2. caller[c].at \in {"seed", "fill"} =>
        \A place \in {"step", "fill"} : Planned(MovedTo(place))
  BY <1>0 DEF Planned, Updating, IsCall
<1> HIDE DEF MovedTo
<1>3. CASE SkipSeed(c)
  <2>1. caller' = [caller EXCEPT ![c] = MovedTo("step")]
    BY <1>3 DEF SkipSeed, MovedTo
  <2>2. Planned(MovedTo("step"))
    BY <1>2, <1>3 DEF SkipSeed, At
  <2>3. UNCHANGED <<provider, file, raced, seed, made, settled, lock, faults>> /\ faults \in Nat
    BY <1>0, <1>3 DEF SkipSeed, StateOK
  <2> QED  BY <1>1, <2>1, <2>2, <2>3, WaitingKeepsInv DEF Updating
<1>4. ASSUME NEW place \in {"step", "fill"}, caller[c].at \in {"seed", "fill"},
             caller' = [caller EXCEPT ![c] = MovedTo(place)],
             file' = file \/ (file = Absent /\ file' = Blank) \/ (file = Blank /\ file' = Empty),
             seed' \in {seed, c, None}, seed' # None => file' = Blank,
             UNCHANGED <<provider, raced, made, settled, lock, faults>>
      PROVE  Inv'
  <2>1. /\ caller' = [d \in Callers |-> caller'[d]] /\ caller'[c] = MovedTo(place)
        /\ \A d \in Callers \ {c} : caller'[d] = caller[d]
    BY <1>0, <1>4
  <2>2. StateOK'
    BY <1>0, <1>4, EmptyIsMapping DEF StateOK
  <2>3. RacedOK'
    BY <1>4, Zenon DEF Inv, RacedOK
  <2>4. CallsOK'
    BY <1>1, <1>2, <1>4, <2>1 DEF Inv, CallsOK
  <2>5. LockIsHeld'
    BY <1>1, <1>4, <2>1 DEF Inv, LockIsHeld, Updating
  <2>6. MapOf(file') = MapOf(file) /\ (file # Corrupt => file' # Corrupt) /\ (file' # Corrupt => file # Corrupt)
    BY <1>4, ContentsDiffer, EmptyIsMapping DEF MapOf
  <2>7. ReadIsCurrent'
    BY <1>1, <1>4, <2>1, <2>6 DEF Inv, ReadIsCurrent, Loaded, At
  <2>8. SeedIsBlank'
    BY <1>4 DEF SeedIsBlank
  <2>9. SettledIsLinked'
    BY <1>4, <2>6 DEF Inv, SettledIsLinked, Linked, Readable
  <2> QED  BY <2>2, <2>3, <2>4, <2>5, <2>7, <2>8, <2>9 DEF Inv
<1>5. CASE CreateSeed(c)
  <2>1. caller' = [caller EXCEPT ![c] = MovedTo("fill")] /\ caller[c].at \in {"seed", "fill"}
    BY <1>5 DEF CreateSeed, MovedTo, At
  <2>2. /\ file = Absent /\ file' = Blank /\ seed' = c
        /\ UNCHANGED <<provider, raced, made, settled, lock, faults>>
    BY <1>5 DEF CreateSeed
  <2> QED  BY <1>4, <2>1, <2>2
<1>6. CASE FillSeed(c)
  <2>1. caller' = [caller EXCEPT ![c] = MovedTo("step")] /\ caller[c].at \in {"seed", "fill"}
    BY <1>6 DEF FillSeed, MovedTo, At
  <2>2. seed = c => file = Blank
    BY TrackerAssumption DEF Inv, SeedIsBlank
  <2>3. file' = file \/ (file = Blank /\ file' = Empty)
    BY <1>6, <2>2 DEF FillSeed
  <2>4. seed' \in {seed, c, None} /\ UNCHANGED <<provider, raced, made, settled, lock, faults>>
    BY <1>6 DEF FillSeed
  <2>5. seed' # None => file' = Blank
    BY <1>6 DEF FillSeed, Inv, SeedIsBlank
  <2> QED  BY <1>4, <2>1, <2>3, <2>4, <2>5
<1>7. CASE SyncFails(c)
  <2>1. seed' \in {seed, None} /\ faults' \in Nat /\ settled' \subseteq Tasks
    BY <1>0, <1>7, FaultCounts DEF SyncFails, StateOK
  <2> QED  BY <1>7, <2>1, EndingKeepsInv DEF SyncFails
<1> QED  BY <1>3, <1>5, <1>6, <1>7 DEF Seeds

-------------------------------------------------------------------------------
LEMMA TalksKeepInv ==
  ASSUME Inv, NEW c \in Callers, Talks(c)
  PROVE  Inv'
<1>0. /\ IsCall(caller[c]) /\ Planned(caller[c]) /\ made \in Issues /\ faults \in Nat
      /\ settled \subseteq Tasks
  BY DEF Inv, CallsOK, StateOK
<1>1. CASE ReadFails(c)
  BY <1>0, <1>1, StepIsHead, FailureKeepsInv DEF ReadFails
<1>2. CASE Check(c)
  <2>0. caller[c].todo # <<>> /\ Head(caller[c].todo) = "check"
    BY <1>2, StepIsHead DEF Check
  <2>1. CASE Linked(caller[c].task)
    <3>1. caller[c].task \in Tasks
      BY <1>0, <2>0 DEF Planned
    <3>2. settled' = settled \cup {caller[c].task} /\ caller' = [caller EXCEPT ![c] = Idle]
      BY <1>2, <2>1 DEF Check
    <3>3. UNCHANGED <<provider, file, raced, seed, made, lock, faults>>
      BY <1>2 DEF Check
    <3>4. provider = "github" \/ raced \/ (Readable(file) => \A t \in settled' : Linked(t))
      BY <2>1, <3>2 DEF Inv, SettledIsLinked
    <3>5. settled' \subseteq Tasks
      BY <1>0, <3>1, <3>2
    <3> QED  BY <1>0, <3>2, <3>3, <3>4, <3>5, EndingKeepsInv
  <2>2. CASE ~Linked(caller[c].task)
    <3>1. Continues(c) /\ UNCHANGED <<provider, file, raced, seed, made, settled, lock, faults>>
      BY <1>2, <2>2 DEF Check
    <3> QED  BY <1>0, <2>0, <3>1, GoingOnKeepsInv
  <2> QED  BY <2>1, <2>2
<1>3. CASE Read(c)
  <2>0. caller[c].todo # <<>> /\ Head(caller[c].todo) = "read"
    BY <1>3, StepIsHead DEF Read
  <2>1. UNCHANGED <<provider, file, raced, seed, made, settled, lock, faults>>
    BY <1>3 DEF Read
  <2>2. CASE Continues(c)
    BY <1>0, <2>0, <2>1, <2>2, GoingOnKeepsInv
  <2>3. CASE caller' = [caller EXCEPT ![c] = Failed(c)]
    <3> DEFINE r == Failed(c)
    <3>1. IsCall(r) /\ Planned(r) /\ r.at = "step"
      BY <1>0, <2>0, FailedCall
    <3>2. caller' = [caller EXCEPT ![c] = r]
      BY <2>3
    <3> HIDE DEF r
    <3> QED  BY <1>0, <2>1, <3>1, <3>2, WaitingKeepsInv DEF Updating
  <2> QED  BY <1>3, <2>2, <2>3 DEF Read
<1>4. CASE Post(c)
  <2>0. caller[c].todo # <<>>
    BY <1>4, StepIsHead DEF Post
  <2>1. made' \in Issues /\ made + 1 \in Issues /\ made + 1 # None
    BY <1>0, <1>4, TrackerAssumption DEF Post, Issues
  <2>2. UNCHANGED <<provider, file, raced, seed, lock>>
    BY <1>4 DEF Post
  <2>3. CASE Fails(c) /\ Fault
    BY <2>0, <2>1, <2>2, <2>3, FailureKeepsInv, FaultCounts
  <2>4. CASE caller' = [caller EXCEPT ![c] = [Onward(c) EXCEPT !.issue = made + 1]] /\ UNCHANGED <<settled, faults>>
    <3> DEFINE r == [Onward(c) EXCEPT !.issue = made + 1]
    <3>1. IsCall(r) /\ Planned(r) /\ r.at = "step"
      BY <1>0, <2>0, <2>1, ContinuedCall
    <3>2. caller' = [caller EXCEPT ![c] = r]
      BY <2>4
    <3> HIDE DEF r
    <3>3. settled' \subseteq Tasks /\ faults' \in Nat /\ settled' = settled
      BY <1>0, <2>4
    <3>4. lock' = c => lock \in {c, None}
      BY <2>2
    <3> QED  BY <2>1, <2>2, <3>1, <3>2, <3>3, <3>4, QuietStep DEF Updating
  <2> QED  BY <1>4, <2>3, <2>4 DEF Post
<1>5. CASE PostFails(c)
  <2>1. faults' \in Nat
    BY <1>0, <1>5, FaultCounts DEF PostFails
  <2> QED  BY <1>0, <1>5, <2>1, StepIsHead, FailureKeepsInv DEF PostFails
<1>6. CASE Request(c)
  <2>1. caller[c].todo # <<>> /\ Head(caller[c].todo) # "post"
    BY <1>6, StepIsHead DEF Request, Requests
  <2> QED  BY <1>0, <1>6, <2>1, GoingOnKeepsInv DEF Request
<1>7. CASE RequestFails(c)
  <2>1. caller[c].todo # <<>>
    BY <1>7, StepIsHead DEF RequestFails, Requests
  <2> QED  BY <1>0, <1>7, <2>1, FailureKeepsInv, FaultCounts DEF RequestFails
<1> QED  BY <1>1, <1>2, <1>3, <1>4, <1>5, <1>6, <1>7 DEF Talks

-------------------------------------------------------------------------------
LEMMA QuietUpdatesKeepInv ==
  ASSUME Inv, NEW c \in Callers,
         \/ Acquire(c) \/ AcquireFails(c) \/ LoadFails(c)
         \/ SaveSkips(c) \/ SaveFails(c) \/ Release(c) \/ ReleaseFails(c)
  PROVE  Inv'
<1>0. /\ IsCall(caller[c]) /\ Planned(caller[c]) /\ made \in Issues /\ faults \in Nat
      /\ settled \subseteq Tasks
  BY DEF Inv, CallsOK, StateOK
<1>1. CASE Acquire(c)
  <2> DEFINE r == [caller[c] EXCEPT !.at = "load", !.mode = "locked"]
  <2>1. caller[c].todo # <<>> /\ Head(caller[c].todo) = "save"
    BY <1>1, StepIsHead DEF Acquire
  <2>2. IsCall(r) /\ Planned(r) /\ r.at = "load"
    BY <1>0, <2>1 DEF IsCall, Planned, Places, Updating
  <2>3. caller' = [caller EXCEPT ![c] = r]
    BY <1>0, <1>1 DEF Acquire, IsCall, Inv, CallsOK
  <2> HIDE DEF r
  <2> QED  BY <1>0, <1>1, <2>2, <2>3, WaitingKeepsInv DEF Acquire
<1>2. CASE AcquireFails(c)
  <2> DEFINE r == [caller[c] EXCEPT !.at = "load", !.mode = "degraded"]
  <2>1. caller[c].todo # <<>> /\ Head(caller[c].todo) = "save"
    BY <1>2, StepIsHead DEF AcquireFails
  <2>2. IsCall(r) /\ Planned(r) /\ r.at = "load" /\ r.mode = "degraded"
    BY <1>0, <2>1 DEF IsCall, Planned, Places, Updating
  <2>3. caller' = [caller EXCEPT ![c] = r]
    BY <1>0, <1>2 DEF AcquireFails, IsCall, Inv, CallsOK
  <2> HIDE DEF r
  <2> QED  BY <1>2, <2>2, <2>3, WaitingKeepsInv, FaultCounts DEF AcquireFails
<1>3. CASE LoadFails(c)
  <2>1. caller[c].todo # <<>>
    BY <1>0, <1>3 DEF LoadFails, At, Planned, Updating
  <2>2. faults' \in Nat
    BY <1>0, <1>3, FaultCounts DEF LoadFails
  <2> QED  BY <1>0, <1>3, <2>1, <2>2, FailureKeepsInv DEF LoadFails
<1>4. CASE SaveSkips(c)
  <2> DEFINE r == [caller[c] EXCEPT !.at = "saved", !.read = None]
  <2>1. caller[c].at = "loaded"
    BY <1>4 DEF SaveSkips, Loaded, At
  <2>2. IsCall(r) /\ Planned(r) /\ r.at = "saved" /\ r.mode = caller[c].mode
    BY <1>0, <2>1 DEF IsCall, Planned, Places, Updating
  <2>3. caller' = [caller EXCEPT ![c] = r]
    BY <1>0, <1>4 DEF SaveSkips, IsCall, Inv, CallsOK
  <2>4. r.mode = "locked" => lock' = c
    BY <1>4, <2>1, <2>2 DEF SaveSkips, Inv, LockIsHeld, Updating
  <2> HIDE DEF r
  <2> QED  BY <1>0, <1>4, <2>2, <2>3, <2>4, WaitingKeepsInv DEF SaveSkips
<1>5. CASE SaveFails(c)
  <2>1. caller[c].todo # <<>>
    BY <1>0, <1>5 DEF SaveFails, Loaded, At, Planned, Updating
  <2> QED  BY <1>0, <1>5, <2>1, FailureKeepsInv, FaultCounts DEF SaveFails
<1>6. CASE Release(c)
  <2>1. caller[c].todo # <<>> /\ Head(caller[c].todo) = "save"
    BY <1>0, <1>6 DEF Release, At, Planned, Updating
  <2> QED  BY <1>0, <1>6, <2>1, GoingOnKeepsInv DEF Release
<1>7. CASE ReleaseFails(c)
  <2>1. caller[c].todo # <<>> /\ Head(caller[c].todo) = "save"
    BY <1>0, <1>7 DEF ReleaseFails, At, Planned, Updating
  <2> QED  BY <1>0, <1>7, <2>1, GoingOnKeepsInv, FaultCounts DEF ReleaseFails
<1> QED  BY <1>1, <1>2, <1>3, <1>4, <1>5, <1>6, <1>7

LEMMA LoadKeepsInv ==
  ASSUME Inv, NEW c \in Callers, Load(c)
  PROVE  Inv'
<1> DEFINE r == [caller[c] EXCEPT !.at = "loaded", !.read = MapOf(file)]
<1>0. /\ IsCall(caller[c]) /\ Planned(caller[c]) /\ StateOK
      /\ caller = [d \in Callers |-> caller[d]]
  BY DEF Inv, CallsOK
<1>1. MapOf(file) \in Mappings
  BY <1>0, MapIsMapping DEF Load, StateOK
<1>2. caller[c].at = "load"
  BY DEF Load, At
<1>3. IsCall(r) /\ Planned(r) /\ r.at = "loaded" /\ r.mode = caller[c].mode /\ r.read = MapOf(file)
  BY <1>0, <1>1, <1>2 DEF IsCall, Planned, Places, Updating
<1>4. caller' = [caller EXCEPT ![c] = r]
  BY <1>0 DEF Load, IsCall
<1> HIDE DEF r
<1>5. /\ caller' = [d \in Callers |-> caller'[d]] /\ caller'[c] = r
      /\ \A d \in Callers \ {c} : caller'[d] = caller[d]
  BY <1>0, <1>4
<1>6. StateOK' /\ SeedIsBlank'
  BY <1>0 DEF Load, StateOK, Inv, SeedIsBlank
<1>7. RacedOK' /\ SettledIsLinked'
  BY Zenon DEF Load, Inv, RacedOK, SettledIsLinked, Linked
<1>8. CallsOK'
  BY <1>3, <1>5 DEF Inv, CallsOK
<1>9. LockIsHeld'
  BY <1>2, <1>3, <1>5 DEF Load, Inv, LockIsHeld, Updating
<1>10. ReadIsCurrent'
  BY <1>3, <1>5 DEF Load, Inv, ReadIsCurrent, Loaded, At
<1> QED  BY <1>6, <1>7, <1>8, <1>9, <1>10 DEF Inv

-------------------------------------------------------------------------------
(* What a save writes: the mapping it read, changed for its own task.      *)
LEMMA WhatIsSaved ==
  ASSUME Inv, NEW c \in Callers, Save(c)
  PROVE  /\ caller[c].read \in Mappings /\ caller[c].task \in Tasks
         /\ Mutated(c) \in Issues \cup {None}
         /\ caller[c].op \in Assigns => Mutated(c) # None
         /\ caller[c].op \notin Assigns \cup {"unlink"} => Mutated(c) = caller[c].read[caller[c].task]
         /\ file' = [caller[c].read EXCEPT ![caller[c].task] = Mutated(c)]
         /\ file' \in Mappings
<1>0. IsCall(caller[c]) /\ Planned(caller[c]) /\ caller[c].at = "loaded"
  BY DEF Inv, CallsOK, Save, Loaded, At
<1>1. caller[c].read \in Mappings /\ caller[c].task \in Tasks
  BY <1>0 DEF Planned
<1>2. caller[c].op \in Assigns => caller[c].issue # None
  BY <1>0 DEF Planned, PostComesFirst, Updating
<1>3. caller[c].issue \in Issues \cup {None}
  BY <1>0, CallFields
<1>4. caller[c].op \in Assigns => Mutated(c) = caller[c].issue
  BY DEF Mutated, Assigns
<1>5. caller[c].op = "unlink" => Mutated(c) = None
  BY DEF Mutated, Assigns
<1>6. caller[c].op \notin Assigns \cup {"unlink"} => Mutated(c) = caller[c].read[caller[c].task]
  BY DEF Mutated, Assigns
<1>7. Mutated(c) \in Issues \cup {None}
  BY <1>1, <1>3, <1>4, <1>5, <1>6 DEF Mappings
<1>8. file' = [caller[c].read EXCEPT ![caller[c].task] = Mutated(c)]
  BY DEF Save
<1>9. file' \in Mappings
  BY <1>1, <1>7, <1>8 DEF Mappings
<1> QED  BY <1>1, <1>2, <1>4, <1>6, <1>7, <1>8, <1>9

(* Where nothing races, the mapping it read is the one on file.            *)
LEMMA OnlyItsTaskChanges ==
  ASSUME Inv, NEW c \in Callers, Save(c), ~raced'
  PROVE  /\ ~raced /\ file # Corrupt /\ caller[c].read = MapOf(file)
         /\ MapOf(file') = file'
         /\ \A t \in Tasks \ {caller[c].task} : MapOf(file')[t] = MapOf(file)[t]
         /\ MapOf(file')[caller[c].task] = Mutated(c)
         /\ \A d \in Callers \ {c} : ~Loaded(d) \/ (caller[c].mode = "locked" /\ caller[d].mode = "locked")
<1>1. ~raced /\ ~Collides(c)
  BY DEF Save
<1>2. file # Corrupt /\ caller[c].read = MapOf(file)
  BY <1>1 DEF Inv, ReadIsCurrent, Save
<1>3. MapOf(file') = file'
  BY WhatIsSaved, ContentsDiffer DEF MapOf
<1>4. /\ \A t \in Tasks \ {caller[c].task} : file'[t] = caller[c].read[t]
      /\ file'[caller[c].task] = Mutated(c)
  BY WhatIsSaved DEF Mappings
<1>5. \A d \in Callers : caller[d].mode \in {"locked", "degraded"}
  BY CallFields DEF Inv, CallsOK
<1>6. \A d \in Callers \ {c} : ~Loaded(d) \/ (caller[c].mode = "locked" /\ caller[d].mode = "locked")
  BY <1>1, <1>5 DEF Collides
<1> QED  BY <1>1, <1>2, <1>3, <1>4, <1>6

LEMMA SaveKeepsInv ==
  ASSUME Inv, NEW c \in Callers, Save(c)
  PROVE  Inv'
<1> DEFINE r == [caller[c] EXCEPT !.at = "saved", !.read = None]
<1>0. /\ IsCall(caller[c]) /\ Planned(caller[c]) /\ StateOK /\ caller[c].at = "loaded"
      /\ caller = [d \in Callers |-> caller[d]]
  BY DEF Inv, CallsOK, Save, Loaded, At
<1>1. IsCall(r) /\ Planned(r) /\ r.at = "saved" /\ r.mode = caller[c].mode
  BY <1>0 DEF IsCall, Planned, Places, Updating
<1>2. caller' = [caller EXCEPT ![c] = r]
  BY <1>0 DEF Save, IsCall
<1> HIDE DEF r
<1>3. /\ caller' = [d \in Callers |-> caller'[d]] /\ caller'[c] = r
      /\ \A d \in Callers \ {c} : caller'[d] = caller[d]
  BY <1>0, <1>2
<1>4. settled' \subseteq Tasks
  <2>1. settled' \in {settled \cup {caller[c].task}, settled \ {caller[c].task}, settled}
    BY DEF Save
  <2> QED  BY <1>0, <2>1, WhatIsSaved DEF StateOK
<1>5. StateOK'
  BY <1>0, <1>4, WhatIsSaved DEF Save, StateOK
<1>6. RacedOK'
  BY DEF Save, RacedOK
<1>7. CallsOK'
  BY <1>1, <1>3 DEF Inv, CallsOK
<1>8. LockIsHeld'
  BY <1>0, <1>1, <1>3 DEF Save, Inv, LockIsHeld, Updating
<1>9. SeedIsBlank'
  BY DEF Save, SeedIsBlank
<1>10. ReadIsCurrent'
  <2> SUFFICES ASSUME ~raced', NEW d \in Callers, Loaded(d)'
               PROVE  FALSE
    BY DEF ReadIsCurrent
  <2>1. d # c /\ Loaded(d)
    BY <1>1, <1>3 DEF Loaded, At
  <2>2. caller[c].mode = "locked" /\ caller[d].mode = "locked"
    BY <2>1, OnlyItsTaskChanges
  <2>3. lock = c /\ lock = d
    BY <1>0, <2>1, <2>2 DEF Inv, LockIsHeld, Loaded, At, Updating
  <2> QED  BY <2>1, <2>3
<1>11. SettledIsLinked'
  <2> SUFFICES ASSUME provider' # "github", ~raced', NEW t \in settled'
               PROVE  MapOf(file')[t] # None
    BY DEF SettledIsLinked, Linked
  <2>1. t \in Tasks
    BY <1>4
  <2>2. t \in settled => MapOf(file)[t] # None
    BY OnlyItsTaskChanges DEF Save, Inv, SettledIsLinked, Linked, Readable
  <2>3. CASE t # caller[c].task
    <3>1. t \in settled
      BY <2>3 DEF Save
    <3> QED  BY <2>1, <2>2, <2>3, <3>1, OnlyItsTaskChanges
  <2>4. CASE t = caller[c].task
    <3>1. caller[c].op # "unlink"
      BY <2>4 DEF Save
    <3>2. CASE caller[c].op \in Assigns
      BY <2>4, <3>2, WhatIsSaved, OnlyItsTaskChanges
    <3>3. CASE caller[c].op \notin Assigns
      <4>1. t \in settled
        BY <3>3 DEF Save, Assigns
      <4> QED  BY <2>2, <2>4, <3>1, <3>3, <4>1, WhatIsSaved, OnlyItsTaskChanges
    <3> QED  BY <3>2, <3>3
  <2> QED  BY <2>3, <2>4
<1> QED  BY <1>5, <1>6, <1>7, <1>8, <1>9, <1>10, <1>11 DEF Inv

(* What happens to the file from outside.                                  *)
LEMMA AccidentKeepsInv ==
  ASSUME Inv, Breaks \/ Deleted
  PROVE  Inv'
<1>0. UNCHANGED <<provider, seed, lock, made, caller>> /\ faults' \in Nat
  BY FaultCounts DEF Breaks, Deleted, Inv, StateOK
<1>1. StateOK'
  BY <1>0 DEF Breaks, Deleted, Inv, StateOK
<1>2. RacedOK'
  BY DEF Breaks, Deleted, RacedOK
<1>3. CallsOK' /\ LockIsHeld'
  BY <1>0 DEF Inv, CallsOK, LockIsHeld
<1>4. ReadIsCurrent'
  BY <1>0 DEF Breaks, Deleted, ReadIsCurrent, Loaded, At
<1>5. SeedIsBlank'
  BY <1>0, ContentsDiffer DEF Breaks, Deleted, Inv, SeedIsBlank
<1>6. SettledIsLinked'
  BY DEF Breaks, Deleted, SettledIsLinked, Readable
<1> QED  BY <1>1, <1>2, <1>3, <1>4, <1>5, <1>6 DEF Inv

LEMMA CrashKeepsInv ==
  ASSUME Inv, NEW c \in Callers, Crash(c)
  PROVE  Inv'
<1>1. settled \subseteq Tasks
  BY DEF Inv, StateOK
<1>2. faults' \in Nat
  BY FaultCounts DEF Crash
<1>3. seed' \in {seed, None}
  BY DEF Crash
<1> QED  BY <1>1, <1>2, <1>3, EndingKeepsInv DEF Crash

LEMMA InvHolds ==
  ASSUME Init
  PROVE  Inv
<1>1. StateOK
  BY EmptyIsMapping, TrackerAssumption DEF Init, StateOK, Issues
<1>2. RacedOK
  BY DEF Init, RacedOK
<1>3. CallsOK
  BY IdleIsCall DEF Init, CallsOK
<1>4. LockIsHeld /\ ReadIsCurrent
  BY IdleIsCall DEF Init, LockIsHeld, ReadIsCurrent, Loaded, At, Updating
<1>5. SeedIsBlank /\ SettledIsLinked
  BY DEF Init, SeedIsBlank, SettledIsLinked
<1> QED  BY <1>1, <1>2, <1>3, <1>4, <1>5 DEF Inv

LEMMA InvKept ==
  ASSUME Inv, [Next]_vars
  PROVE  Inv'
<1>1. ASSUME NEW c \in Callers, Updates(c)  PROVE Inv'
  BY <1>1, QuietUpdatesKeepInv, LoadKeepsInv, SaveKeepsInv DEF Updates
<1>2. CASE UNCHANGED vars
  <2>1. UNCHANGED <<provider, file, seed, lock, made, caller, settled, raced, faults>>
    BY <1>2 DEF vars
  <2>2. StateOK' /\ CallsOK' /\ LockIsHeld' /\ SeedIsBlank'
    BY <2>1 DEF Inv, StateOK, CallsOK, LockIsHeld, SeedIsBlank
  <2>3. RacedOK' /\ ReadIsCurrent' /\ SettledIsLinked'
    BY <2>1, Zenon DEF Inv, RacedOK, ReadIsCurrent, Loaded, At, SettledIsLinked, Linked
  <2> QED  BY <2>2, <2>3 DEF Inv
<1> QED
  BY <1>1, <1>2, BeginKeepsInv, SeedsKeepInv, TalksKeepInv, CrashKeepsInv, AccidentKeepsInv DEF Next

LEMMA InvariantOfSpec == Spec => []Inv
<1>1. Init => Inv
  BY InvHolds
<1>2. Inv /\ [Next]_vars => Inv'
  BY InvKept
<1> QED  BY <1>1, <1>2, PTL DEF Spec

-------------------------------------------------------------------------------
(* Who touches the file.                                                   *)
LEMMA QuietSteps ==
  ASSUME [Next]_vars,
         ~\E c \in Callers : Save(c) \/ CreateSeed(c) \/ FillSeed(c),
         ~Breaks, ~Deleted
  PROVE  file' = file
<1>1. ASSUME NEW c \in Callers, Begin(c) \/ SkipSeed(c) \/ SyncFails(c) \/ Crash(c)  PROVE file' = file
  BY <1>1 DEF Begin, SkipSeed, SyncFails, Crash
<1>2. ASSUME NEW c \in Callers, Talks(c)  PROVE file' = file
  BY <1>2 DEF Talks, ReadFails, Check, Read, Post, PostFails, Request, RequestFails
<1>3. ASSUME NEW c \in Callers, Updates(c)  PROVE file' = file \/ Save(c)
  BY <1>3 DEF Updates, Acquire, AcquireFails, Load, LoadFails, SaveSkips, SaveFails, Release, ReleaseFails
<1>4. UNCHANGED vars => file' = file
  BY DEF vars
<1> QED  BY <1>1, <1>2, <1>3, <1>4 DEF Next, Seeds

(* The links on file change by a save only; a seed adds none.              *)
LEMMA OnlySavesChangeLinks ==
  ASSUME Inv, [Next]_vars, Readable(file), Readable(file'), MapOf(file') # MapOf(file)
  PROVE  \E c \in Callers : Save(c)
<1>1. ASSUME NEW c \in Callers, CreateSeed(c)  PROVE FALSE
  BY <1>1 DEF CreateSeed, MapOf
<1>2. ASSUME NEW c \in Callers, FillSeed(c)  PROVE FALSE
  <2>1. seed = c => file = Blank
    BY <1>2, TrackerAssumption DEF Inv, SeedIsBlank
  <2> QED  BY <1>2, <2>1, EmptyIsMapping, ContentsDiffer DEF FillSeed, MapOf
<1>3. ~Breaks /\ ~Deleted
  BY DEF Breaks, Deleted, Readable
<1> QED  BY <1>1, <1>2, <1>3, QuietSteps

LEMMA ChangedLink ==
  ASSUME Inv, [Next]_vars, Readable(file), Readable(file'), ~raced',
         NEW t \in Tasks, MapOf(file')[t] # MapOf(file)[t]
  PROVE  \E c \in Callers : Save(c) /\ caller[c].task = t
<1>1. PICK c \in Callers : Save(c)
  BY OnlySavesChangeLinks
<1>2. caller[c].task = t
  BY <1>1, OnlyItsTaskChanges
<1> QED  BY <1>1, <1>2

(* Only a call about a task changes its link, and it holds the lock unless *)
(* it could not be had (_locked_mapping_update).                           *)
THEOREM OthersAlwaysSurvive == Spec => OthersSurvive
<1>1. ASSUME Inv, [Next]_vars, Readable(file), Readable(file'), ~raced',
             NEW t \in Tasks, MapOf(file')[t] # MapOf(file)[t]
      PROVE  \E c \in Callers : caller[c].task = t /\ (lock = c \/ caller[c].mode = "degraded")
  <2>1. PICK c \in Callers : Save(c) /\ caller[c].task = t
    BY <1>1, ChangedLink
  <2>2. caller[c].mode \in {"locked", "degraded"}
    BY <1>1, CallFields DEF Inv, CallsOK
  <2>3. caller[c].mode = "locked" => lock = c
    BY <1>1, <2>1 DEF Inv, LockIsHeld, Save, Loaded, At, Updating
  <2> QED  BY <2>1, <2>2, <2>3
<1>2. Inv /\ [Next]_vars =>
        [Readable(file) /\ Readable(file') /\ ~raced' =>
           \A t \in Tasks : MapOf(file')[t] # MapOf(file)[t] =>
             \E c \in Callers : caller[c].task = t /\ (lock = c \/ caller[c].mode = "degraded")]_vars
  BY <1>1
<1> QED  BY <1>2, InvariantOfSpec, PTL DEF Spec, OthersSurvive

(* Which issue a task has is up to the calls that link, make, import and   *)
(* unlink; a push, a sync or a merge request never changes it (the         *)
(* mutators of the task syncs).                                            *)
THEOREM LinksAlwaysChangeOnPurpose == Spec => LinksChangeOnPurpose
<1>1. ASSUME Inv, [Next]_vars, Readable(file), Readable(file'), ~raced',
             NEW t \in Tasks, MapOf(file')[t] # MapOf(file)[t]
      PROVE  \E c \in Callers : caller[c].op \in Assigns \cup {"unlink"} /\ caller[c].task = t
  <2>1. PICK c \in Callers : Save(c) /\ caller[c].task = t
    BY <1>1, ChangedLink
  <2>2. caller[c].op \in Assigns \cup {"unlink"}
    BY <1>1, <2>1, WhatIsSaved, OnlyItsTaskChanges
  <2> QED  BY <2>1, <2>2
<1>2. Inv /\ [Next]_vars =>
        [Readable(file) /\ Readable(file') /\ ~raced' =>
           \A t \in Tasks : MapOf(file')[t] # MapOf(file)[t] =>
             \E c \in Callers : caller[c].op \in Assigns \cup {"unlink"} /\ caller[c].task = t]_vars
  BY <1>1
<1> QED  BY <1>2, InvariantOfSpec, PTL DEF Spec, LinksChangeOnPurpose

(* A file that cannot be decoded is never written over (_load_mappings,    *)
(* _locked_mapping_update).                                                *)
THEOREM CorruptIsAlwaysKept == Spec => CorruptIsKept
<1>1. ASSUME Inv, [Next]_vars, file = Corrupt, ~raced
      PROVE  file' \in {Corrupt, Absent}
  <2>1. ASSUME NEW c \in Callers, Save(c)  PROVE FALSE
    BY <1>1, <2>1 DEF Inv, ReadIsCurrent, Save
  <2>2. ASSUME NEW c \in Callers, CreateSeed(c)  PROVE FALSE
    BY <1>1, <2>2, ContentsDiffer DEF CreateSeed
  <2>3. ASSUME NEW c \in Callers, FillSeed(c)  PROVE file' = file
    BY <1>1, <2>3, ContentsDiffer, TrackerAssumption DEF FillSeed, Inv, SeedIsBlank
  <2>4. ~Breaks
    BY <1>1, ContentsDiffer DEF Breaks
  <2>5. Deleted => file' = Absent
    BY DEF Deleted
  <2> QED  BY <1>1, <2>1, <2>2, <2>3, <2>4, <2>5, QuietSteps
<1>2. Inv /\ [Next]_vars => [file = Corrupt => raced \/ file' \in {Corrupt, Absent}]_vars
  BY <1>1
<1> QED  BY <1>2, InvariantOfSpec, PTL DEF Spec, CorruptIsKept

(* With GitLab and Jira the step that makes the issue of a task answers    *)
(* that it is created, or there already, only when the task has its issue, *)
(* and it keeps it; a success without a task sync is not one of these      *)
(* answers (create_issue_if_enabled, create_issue_from_task).              *)
THEOREM SettledIsAlwaysLinked == Spec => []SettledIsLinked
<1>1. Inv => SettledIsLinked
  BY DEF Inv
<1> QED  BY <1>1, InvariantOfSpec, PTL

(* The types of the calls, the file and the lock.                          *)
THEOREM TypesHold == Spec => []TypeOK
<1>1. Inv => TypeOK
  <2> SUFFICES ASSUME Inv  PROVE TypeOK
    OBVIOUS
  <2>1. raced \in BOOLEAN
    BY DEF Inv, RacedOK
  <2>2. \A c \in Callers : IsCall(caller[c])
    BY DEF Inv, CallsOK
  <2> QED  BY <2>1, <2>2, CallFields DEF Inv, StateOK, TypeOK
<1> QED  BY <1>1, InvariantOfSpec, PTL
===============================================================================
