SPECIFICATION Spec
CONSTANTS
  RevisionLimit = 3
  Tie = {0, 1}
  None = None
  Events = 1
  la = la
  lb = lb
  Line = {la}
  Blank = Blank
  Dir = {d1}
  Status = {ok}
  Machine = {m1, m2}
  Doing = {{"delete", "import"}}
SYMMETRY MachineSymmetry
PROPERTY StampOnlyRises
CHECK_DEADLOCK FALSE
