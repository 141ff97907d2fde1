SPECIFICATION Spec
CONSTANTS
  c1 = c1
  s1 = s1
  main = main
  feature = feature
  Reviews = {c1}
  Setups = {s1}
  Default = main
  Branches = {main, feature}
  Detached = Detached
  Work = {w1, w2}
  MaxOthers = 1
  MaxFaults = 2
INVARIANTS TypeOK LeftBehindIsReported
PROPERTIES SilentMeansRestored SetUpAsAsked
