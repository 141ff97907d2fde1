----------------------------- MODULE TrackerMappings -----------------------------
(***************************************************************************)
(* The links between tasks and issues, <provider>-mappings.json: the tools *)
(* of mcp/tools/issue_tracking.py, the protocol's create_issue_if_enabled  *)
(* and the status sync of the hooks, over the task syncs of GitLab, GitHub *)
(* and Jira.  Each caller is a process, an MCP server or a hook.           *)
(*                                                                         *)
(* A call is a plan of steps; between two steps other processes run.  The  *)
(* step "save" is the read-modify-write of _locked_mapping_update.         *)
(***************************************************************************)
EXTENDS Naturals, Sequences

CONSTANTS
  Tasks, Callers,
  None, Absent, Corrupt, Blank,  \* no value; no file, undecodable file, empty file
  MaxIssues, MaxFaults           \* bounds: issues on the tracker, faults

ASSUME TrackerAssumption ==
  /\ None \notin Callers /\ MaxIssues \in Nat \ {0} /\ MaxFaults \in Nat
  /\ None \notin Nat
  /\ {Absent, Corrupt, Blank} \cap [Tasks -> Nat \cup {None}] = {}
  /\ Absent # Corrupt /\ Corrupt # Blank /\ Blank # Absent

VARIABLES
  provider,  \* issue_tracking.provider
  file,      \* the mappings file
  seed,      \* the caller that created it and has not written {} to it yet
  lock,      \* holder of _state_lock
  made,      \* issues on the tracker: 1 .. made
  caller,    \* the call each process is in
  settled,   \* history: tasks whose create_issue_if_enabled made or found an issue, by its answer, and not unlinked since
  raced,     \* history: a read-modify-write without the lock, or a hand edit, met another one
  faults     \* history: requests, writes and locks that failed, crashes, corruptions

vars == <<provider, file, seed, lock, made, caller, settled, raced, faults>>

Providers == {"gitlab", "github", "jira"}
Issues == 1..MaxIssues
Mappings == [Tasks -> Issues \cup {None}]  \* the issue of each task; merge requests are left out
Empty == [t \in Tasks |-> None]

(* _load_mappings of a readable file: a missing or an empty one has no     *)
(* links.                                                                  *)
MapOf(content) == IF content \in {Absent, Blank} THEN Empty ELSE content

-------------------------------------------------------------------------------
(* The steps of each call.                                                 *)
Operations == {"create", "ensure", "link", "import", "unlink", "push", "sync", "hook", "merge"}

GitLabCreate == <<"post", "save">>
GitHubCreate == <<"post", "fetch", "save">>
JiraCreate == <<"post", "fetch", "save">>  \* API v2 answers without the creation date
CreateSteps ==
  CASE provider = "gitlab" -> GitLabCreate [] provider = "github" -> GitHubCreate [] provider = "jira" -> JiraCreate

LinkSteps == IF provider = "jira" THEN <<"save">> ELSE <<"fetch", "save">>

(* Fetching the issue and writing the task file, which may be there        *)
(* already; GitHub fetches the issue again to link it.                     *)
GitLabImport == <<"import", "save">>
GitHubImport == <<"import", "save">>
JiraImport == <<"import", "save">>
ImportSteps ==
  CASE provider = "gitlab" -> GitLabImport [] provider = "github" -> GitHubImport [] provider = "jira" -> JiraImport

UnlinkSteps == <<"save">>

PushSteps == <<"read", "describe", "save">>

(* GitLab's sync looks at the mapping and pushes, which looks again.  The  *)
(* comment and the state of the issue, and GitHub's labels, are one step:  *)
(* no other process sees what lies between.                                *)
GitLabSync == <<"read">> \o PushSteps \o <<"notify", "save">>
GitHubSync == <<"read", "notify", "save">>
JiraSync == <<"read", "notify", "save">>
SyncSteps ==
  CASE provider = "gitlab" -> GitLabSync [] provider = "github" -> GitHubSync [] provider = "jira" -> JiraSync

(* try_provider_sync of the PostToolUse hook looks at the mapping itself.  *)
HookSteps == <<"read">> \o SyncSteps

GitLabMerge == <<"read", "merge", "save">>
GitHubMerge == <<"read", "merge", "save">>
MergeSteps == IF provider = "github" THEN GitHubMerge ELSE GitLabMerge

Plan(op) ==
  CASE op = "create" -> CreateSteps
    [] op = "ensure" -> <<"check">> \o CreateSteps
    [] op = "link"   -> LinkSteps
    [] op = "import" -> ImportSteps
    [] op = "unlink" -> UnlinkSteps
    [] op = "push"   -> PushSteps
    [] op = "sync"   -> SyncSteps
    [] op = "hook"   -> HookSteps
    [] op = "merge"  -> MergeSteps

(* The provider has the operation (issue_push, merge requests).            *)
Offers(op) == provider = "jira" => op \notin {"push", "merge"}

Requests == {"fetch", "import", "describe", "notify", "merge"}

Idle == [op |-> "none", task |-> None, issue |-> None, todo |-> <<>>, at |-> "step", mode |-> "locked", read |-> None]

Init ==
  /\ provider \in Providers
  /\ file \in {Absent, Empty} /\ seed = None /\ lock = None
  /\ made = 1 /\ caller = [c \in Callers |-> Idle]
  /\ settled = {} /\ raced = FALSE /\ faults = 0

Step(c) == IF caller[c].todo = <<>> THEN "none" ELSE Head(caller[c].todo)
At(c, place) == caller[c].at = place
Fault == faults < MaxFaults /\ faults' = faults + 1

(* The call goes on with the rest of its plan, and ends with it.           *)
Onward(c) ==
  LET rest == Tail(caller[c].todo)
  IN  IF rest = <<>> THEN Idle ELSE [caller[c] EXCEPT !.todo = rest, !.at = "step", !.mode = "locked", !.read = None]

(* A sync of GitLab goes on without the push that failed; any other step   *)
(* that fails ends the call.                                               *)
Pushing(c) == provider = "gitlab" /\ caller[c].op \in {"sync", "hook"} /\ Len(caller[c].todo) \in 3..5

Failed(c) ==
  IF Pushing(c) THEN [caller[c] EXCEPT !.todo = <<"notify", "save">>, !.at = "step", !.mode = "locked", !.read = None]
  ELSE Idle

(* Mutant: Jira's link_task_to_issue, which answers False, is used as well. *)
SettlesAnyway(c) ==
  settled' = IF caller[c].op = "ensure" /\ Step(c) \in {"fetch", "save"}
               THEN settled \cup {caller[c].task} ELSE settled

(* GitHub's create_issue_from_task does not look at what                   *)
(* link_task_to_issue answers: its failures are answered with success.     *)
Settles(c) ==
  settled' = IF caller[c].op = "ensure" /\ provider = "github" /\ Step(c) \in {"fetch", "save"}
               THEN settled \cup {caller[c].task} ELSE settled

Fails(c) == caller' = [caller EXCEPT ![c] = Failed(c)] /\ Settles(c)
Continues(c) == caller' = [caller EXCEPT ![c] = Onward(c)]

-------------------------------------------------------------------------------
(* get_provider_sync: a new task sync looks for the file and, where there  *)
(* is none, seeds it.  GitHub's is a singleton, and may be there already.  *)
Begin(c) ==
  /\ caller[c] = Idle
  /\ \E op \in Operations, t \in Tasks, i \in 1..made, new \in BOOLEAN :
       /\ Offers(op) /\ op \notin {"link", "import"} => i = 1
       /\ new \/ provider = "github"
       /\ caller' = [caller EXCEPT ![c] =
            [op |-> op, task |-> t, issue |-> IF op \in {"link", "import"} THEN i ELSE None,
             todo |-> Plan(op), at |-> IF new THEN "seed" ELSE "step", mode |-> "locked", read |-> None]]
  /\ UNCHANGED <<provider, file, seed, lock, made, settled, raced, faults>>

(* _ensure_mappings_file: open(path, 'x') fails where there is a file by   *)
(* now.                                                                    *)
SkipSeed(c) ==
  /\ At(c, "seed") /\ file # Absent
  /\ caller' = [caller EXCEPT ![c].at = "step"]
  /\ UNCHANGED <<provider, file, seed, lock, made, settled, raced, faults>>

CreateSeed(c) ==
  /\ At(c, "seed") /\ file = Absent
  /\ file' = Blank /\ seed' = c
  /\ caller' = [caller EXCEPT ![c].at = "fill"]
  /\ UNCHANGED <<provider, lock, made, settled, raced, faults>>

(* {} goes to the file it created, which a save may have replaced.         *)
FillSeed(c) ==
  /\ At(c, "fill")
  /\ file' = IF seed = c THEN Empty ELSE file
  /\ seed' = IF seed = c THEN None ELSE seed
  /\ caller' = [caller EXCEPT ![c].at = "step"]
  /\ UNCHANGED <<provider, lock, made, settled, raced, faults>>

(* There is no sync: its configuration or its token is missing, or the     *)
(* file cannot be made.  The call ends.  create_issue_if_enabled answers   *)
(* success, "skipped ... not available": a success that settles nothing.   *)
SyncFails(c) ==
  /\ At(c, "seed") \/ At(c, "fill")
  /\ Fault
  /\ caller' = [caller EXCEPT ![c] = Idle]
  /\ seed' = IF seed = c THEN None ELSE seed
  /\ UNCHANGED <<provider, file, lock, made, settled, raced>>

-------------------------------------------------------------------------------
(* get_task_mapping, without the lock; an unreadable file ends the call.   *)
Linked(t) == MapOf(file)[t] # None

ReadFails(c) ==
  /\ At(c, "step") /\ Step(c) \in {"check", "read"} /\ file = Corrupt
  /\ Fails(c)
  /\ UNCHANGED <<provider, file, seed, lock, made, raced, faults>>

(* create_issue_if_enabled: nothing to do for a task that has its issue.   *)
Check(c) ==
  /\ At(c, "step") /\ Step(c) = "check" /\ file # Corrupt
  /\ IF Linked(caller[c].task)
       THEN caller' = [caller EXCEPT ![c] = Idle] /\ settled' = settled \cup {caller[c].task}
       ELSE Continues(c) /\ UNCHANGED settled
  /\ UNCHANGED <<provider, file, seed, lock, made, raced, faults>>

(* A sync or a push works on the issue of the mapping it read, and fails   *)
(* without one; a merge request does without.                              *)
Read(c) ==
  /\ At(c, "step") /\ Step(c) = "read" /\ file # Corrupt
  /\ IF Linked(caller[c].task) \/ caller[c].op = "merge"
       THEN Continues(c)
       ELSE caller' = [caller EXCEPT ![c] = Failed(c)]
  /\ UNCHANGED <<provider, file, seed, lock, made, settled, raced, faults>>

(* create_issue: the tracker has the issue, though its answer may be lost. *)
Post(c) ==
  /\ At(c, "step") /\ Step(c) = "post" /\ made < MaxIssues
  /\ made' = made + 1
  /\ \/ /\ caller' = [caller EXCEPT ![c] = [Onward(c) EXCEPT !.issue = made + 1]]
        /\ UNCHANGED <<settled, faults>>
     \/ Fails(c) /\ Fault
  /\ UNCHANGED <<provider, file, seed, lock, raced>>

PostFails(c) ==
  /\ At(c, "step") /\ Step(c) = "post"
  /\ \/ made = MaxIssues /\ UNCHANGED faults
     \/ Fault
  /\ Fails(c)
  /\ UNCHANGED <<provider, file, seed, lock, made, raced>>

(* _make_request.                                                          *)
Request(c) ==
  /\ At(c, "step") /\ Step(c) \in Requests
  /\ Continues(c)
  /\ UNCHANGED <<provider, file, seed, lock, made, settled, raced, faults>>

RequestFails(c) ==
  /\ At(c, "step") /\ Step(c) \in Requests /\ Fault
  /\ Fails(c)
  /\ UNCHANGED <<provider, file, seed, lock, made, raced>>

-------------------------------------------------------------------------------
(* _locked_mapping_update.                                                 *)
Loaded(c) == At(c, "loaded")

Acquire(c) ==
  /\ At(c, "step") /\ Step(c) = "save" /\ lock = None
  /\ lock' = c
  /\ caller' = [caller EXCEPT ![c].at = "load", ![c].mode = "locked"]
  /\ UNCHANGED <<provider, file, seed, made, settled, raced, faults>>

(* The lock cannot be had: one read-modify-write without it.               *)
AcquireFails(c) ==
  /\ At(c, "step") /\ Step(c) = "save" /\ Fault
  /\ caller' = [caller EXCEPT ![c].at = "load", ![c].mode = "degraded"]
  /\ UNCHANGED <<provider, file, seed, lock, made, settled, raced>>

Unlocks(c) == lock' = IF lock = c THEN None ELSE lock

(* Mutant: a seed that is not filled yet is no mapping.                    *)
LoadAsItIs(c) ==
  /\ At(c, "load") /\ file # Corrupt
  /\ caller' = [caller EXCEPT ![c].at = "loaded", ![c].read = file]
  /\ UNCHANGED <<provider, file, seed, lock, made, settled, raced, faults>>

Load(c) ==
  /\ At(c, "load") /\ file # Corrupt
  /\ caller' = [caller EXCEPT ![c].at = "loaded", ![c].read = MapOf(file)]
  /\ UNCHANGED <<provider, file, seed, lock, made, settled, raced, faults>>

(* Mutant: a file that cannot be decoded is taken for an empty one.        *)
LoadFailsSilently(c) ==
  /\ At(c, "load")
  /\ file = Corrupt
  /\ caller' = [caller EXCEPT ![c].at = "loaded", ![c].read = Empty]
  /\ UNCHANGED <<provider, file, seed, lock, made, settled, raced, faults>>

(* The file cannot be decoded (RuntimeError) or read (OSError): under the  *)
(* lock neither is tried again without it.                                 *)
LoadFails(c) ==
  /\ At(c, "load")
  /\ \/ file = Corrupt /\ UNCHANGED faults
     \/ Fault
  /\ Fails(c) /\ Unlocks(c)
  /\ UNCHANGED <<provider, file, seed, made, raced>>

(* What each operation's mutator makes of the mapping of its task: only    *)
(* linking and unlinking change its issue.                                 *)
Assigns == {"create", "ensure", "link", "import"}

(* Mutant: a merge request replaces the record.                            *)
MutatedAfresh(c) ==
  LET call == caller[c]
  IN  CASE call.op \in {"merge", "unlink"} -> None
        [] call.op \in Assigns  -> call.issue
        [] OTHER                -> call.read[call.task]

Mutated(c) ==
  LET call == caller[c]
  IN  CASE call.op \in Assigns  -> call.issue
        [] call.op = "unlink"   -> None
        [] OTHER                -> call.read[call.task]

Saves(c) == caller[c].op \in Assigns \cup {"merge"} \/ caller[c].read[caller[c].task] # None

Collides(c) ==
  \E d \in Callers \ {c} : Loaded(d) /\ "degraded" \in {caller[c].mode, caller[d].mode}

(* os.replace of a whole new file.                                         *)
Save(c) ==
  /\ Loaded(c) /\ Saves(c)
  /\ file' = [caller[c].read EXCEPT ![caller[c].task] = Mutated(c)] /\ seed' = None
  /\ settled' = CASE caller[c].op = "ensure" -> settled \cup {caller[c].task}
                  [] caller[c].op = "unlink" -> settled \ {caller[c].task}
                  [] OTHER -> settled
  /\ raced' = (raced \/ Collides(c))
  /\ caller' = [caller EXCEPT ![c].at = "saved", ![c].read = None]
  /\ UNCHANGED <<provider, lock, made, faults>>

SaveSkips(c) ==
  /\ Loaded(c) /\ ~Saves(c)
  /\ caller' = [caller EXCEPT ![c].at = "saved", ![c].read = None]
  /\ UNCHANGED <<provider, file, seed, lock, made, settled, raced, faults>>

SaveFails(c) ==
  /\ Loaded(c) /\ Saves(c) /\ Fault
  /\ Fails(c) /\ Unlocks(c)
  /\ UNCHANGED <<provider, file, seed, made, raced>>

(* Mutant: the update is made again.                                       *)
ReleaseFailsAndRepeats(c) ==
  /\ At(c, "saved") /\ lock = c /\ Fault
  /\ lock' = None
  /\ caller' = [caller EXCEPT ![c].at = "load"]
  /\ UNCHANGED <<provider, file, seed, made, settled, raced>>

(* A release that fails after the update does not change its result.       *)
ReleaseFails(c) ==
  /\ At(c, "saved") /\ lock = c /\ Fault
  /\ Continues(c) /\ Unlocks(c)
  /\ UNCHANGED <<provider, file, seed, made, settled, raced>>

Release(c) ==
  /\ At(c, "saved")
  /\ Continues(c) /\ Unlocks(c)
  /\ UNCHANGED <<provider, file, seed, made, settled, raced, faults>>

-------------------------------------------------------------------------------
(* The process dies; the system takes its lock back.                       *)
Crash(c) ==
  /\ caller[c] # Idle /\ Fault
  /\ caller' = [caller EXCEPT ![c] = Idle] /\ Unlocks(c)
  /\ seed' = IF seed = c THEN None ELSE seed
  /\ UNCHANGED <<provider, file, made, settled, raced>>

(* A hand edit leaves the file undecodable; the user deletes such a file.  *)
Breaks ==
  /\ file \in Mappings /\ Fault
  /\ file' = Corrupt /\ raced' = (raced \/ \E c \in Callers : Loaded(c))
  /\ UNCHANGED <<provider, seed, lock, made, caller, settled>>

Deleted ==
  /\ file = Corrupt
  /\ file' = Absent /\ settled' = {} /\ raced' = (raced \/ \E c \in Callers : Loaded(c))
  /\ UNCHANGED <<provider, seed, lock, made, caller, faults>>

Seeds(c) == SkipSeed(c) \/ CreateSeed(c) \/ FillSeed(c) \/ SyncFails(c)
Talks(c) == ReadFails(c) \/ Check(c) \/ Read(c) \/ Post(c) \/ PostFails(c) \/ Request(c) \/ RequestFails(c)
Updates(c) ==
  \/ Acquire(c) \/ AcquireFails(c) \/ Load(c) \/ LoadFails(c)
  \/ Save(c) \/ SaveSkips(c) \/ SaveFails(c) \/ Release(c) \/ ReleaseFails(c)

Next ==
  \/ \E c \in Callers : Begin(c) \/ Seeds(c) \/ Talks(c) \/ Updates(c) \/ Crash(c)
  \/ Breaks \/ Deleted

Spec == Init /\ [][Next]_vars

-------------------------------------------------------------------------------
Places == {"seed", "fill", "step", "load", "loaded", "saved"}

TypeOK ==
  /\ provider \in Providers /\ file \in Mappings \cup {Absent, Blank, Corrupt}
  /\ {seed, lock} \subseteq Callers \cup {None} /\ made \in Issues
  /\ settled \subseteq Tasks /\ raced \in BOOLEAN /\ faults \in Nat
  /\ \A c \in Callers :
       /\ caller[c].op \in Operations \cup {"none"} /\ caller[c].task \in Tasks \cup {None}
       /\ caller[c].issue \in Issues \cup {None} /\ caller[c].at \in Places
       /\ caller[c].mode \in {"locked", "degraded"} /\ caller[c].read \in Mappings \cup {None}

Readable(content) == content # Corrupt

(* Only a call about a task changes its mapping, and it holds the lock     *)
(* while it does: no other process's seed, sync or retry takes a link      *)
(* away or brings one back.  Exception (raced): an update that could not   *)
(* have the lock and met another one, and hand edits.                      *)
OthersSurvive ==
  [][Readable(file) /\ Readable(file') /\ ~raced' =>
       \A t \in Tasks : MapOf(file')[t] # MapOf(file)[t] =>
         \E c \in Callers : caller[c].task = t /\ (lock = c \/ caller[c].mode = "degraded")]_vars

(* A sync, a push or a merge request never changes which issue a task has, *)
(* whatever happened to the mapping while they waited for the tracker.     *)
LinksChangeOnPurpose ==
  [][Readable(file) /\ Readable(file') /\ ~raced' =>
       \A t \in Tasks : MapOf(file')[t] # MapOf(file)[t] =>
         \E c \in Callers : caller[c].op \in Assigns \cup {"unlink"} /\ caller[c].task = t]_vars

(* "Refusing to overwrite it with an empty map": a file that cannot be     *)
(* decoded stays until the user has seen to it.                            *)
CorruptIsKept == [][file = Corrupt => raced \/ file' \in {Corrupt, Absent}]_vars

(* The step that makes the issue of a task does not make another one: with *)
(* GitLab and Jira an answer that an issue was created, or is there        *)
(* already, means that the task is linked, until it is unlinked, whatever  *)
(* failed in between.  Not so the success of a step that could not have a  *)
(* task sync (SyncFails), nor GitHub's (RerunsMakeNoDuplicate).            *)
SettledIsLinked ==
  provider # "github" /\ Readable(file) /\ ~raced => \A t \in settled : Linked(t)

(* "Re-running this step (dirty-tree pause, protocol_goto) must not create *)
(* a duplicate and overwrite the mapping." (protocol_engine.py)            *)
RerunsMakeNoDuplicate ==
  [][~raced => \A c \in Callers :
       made' = made + 1 /\ Step(c) = "post" /\ Step(c)' # "post" /\ caller[c].op = "ensure" => caller[c].task \notin settled]_vars
===============================================================================
