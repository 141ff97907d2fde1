SPECIFICATION FairSpec
CONSTANTS
  Procs = {p1, p2}
  Tasks = {t1}
  Protocols = {r1, r2}
  NoTask = NoTask
  NoProtocol = NoProtocol
  NoProc = NoProc
  NoCall = NoCall
  LockCanFail = TRUE
  ReadCanFail = FALSE
  MaxCalls = 4
CHECK_DEADLOCK FALSE
INVARIANTS TypeOK CountsEveryCall
PROPERTIES AtomicUpdates LockIsReleased
