SPECIFICATION Spec
CONSTANTS
  Options = {"provider", "merge_local", "push_pr", "keep", "discard"}
  NoRemote = NoRemote
  CanFail = {"archive", "commit", "merge_main", "push", "pr", "cleanup", "clear", "checkout", "merge", "delete", "reset", "delete_force"}
  Switches = TRUE
  Crashes = TRUE
CHECK_DEADLOCK FALSE
INVARIANTS TypeOK WorkIsSafe CompletedAsPromised
