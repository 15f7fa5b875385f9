SPECIFICATION Spec
CONSTANTS
  m1 = m1
  m2 = m2
  Modules = {m1, m2}
  Periods = {0, 2}
  NumTasks = 2
  Delays = {1}
  MaxTime = 2
  MaxEntries = 3
  Uses = {"StartWithDelayed"}
  None = None
SYMMETRY Symmetry
INVARIANTS
  NextRunTimeProvided
