SPECIFICATION Spec
CONSTANTS
  Protocols <- MCProtocols
  Trees = {t1, t2}
  NoHash = NoHash
  Unstamped = Unstamped
  Criteria = {doc}
  Strays <- MCStrays
  MaxStrays = 1
  HashFails = TRUE
  LateNotes = FALSE
INVARIANTS TypeOK
PROPERTIES LeavesAsReviewed LeavesAsAudited DeferralsAreConfirmed
SYMMETRY TreeSymmetry
