SPECIFICATION Spec
CONSTANTS
  RevisionLimit = 3
  Tie = {0}
  None = None
  Events = 2
  la = la
  lb = lb
  Line = {la, lb}
  Blank = Blank
  Dir = {d1}
  Status = {ok}
  Shell = {s1, s2}
  Kept <- MCKept
  Unparsed = Unparsed
  CountOnEnter = TRUE
  MaxRows = 1
  Doing = {"refuse", "clear", "cli", "forget"}
SYMMETRY ShellSymmetry
INVARIANTS LogInv RowsSayTheirEvents
PROPERTIES StampOnlyRises DeletedStays
CHECK_DEADLOCK FALSE
