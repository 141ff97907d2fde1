SPECIFICATION Spec
CONSTANTS
  t1 = t1
  t2 = t2
  c1 = c1
  c2 = c2
  Tasks = {t1, t2}
  Callers = {c1, c2}
  None = None
  Absent = Absent
  Corrupt = Corrupt
  Blank = Blank
  MaxIssues = 2
  MaxFaults = 1
SYMMETRY Symmetry
INVARIANTS TypeOK SettledIsLinked
PROPERTIES OthersSurvive LinksChangeOnPurpose CorruptIsKept
