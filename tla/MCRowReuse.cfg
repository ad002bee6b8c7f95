SPECIFICATION Spec
CONSTANTS
  RevisionLimit = 2
  Tie = {0, 1}
  None = None
  Events = 2
  la = la
  lb = lb
  Line = {la}
  Blank = Blank
  Dir = {d1}
  Status = {ok}
  Machine = {m1, m2}
  Doing = {{"delete", "import"}}
SYMMETRY MachineSymmetry
INVARIANT NothingLost
CHECK_DEADLOCK FALSE
