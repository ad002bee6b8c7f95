SPECIFICATION Spec
CONSTANTS
  RevisionLimit = 4
  Tie = {0}
  None = None
  Events = 3
  la = la
  lb = lb
  Line = {la, lb}
  Blank = Blank
  Dir = {d1}
  Status = {ok, fail}
  Shell = {s1, s2}
  Kept <- MCKept
  Unparsed = Unparsed
  CountOnEnter = TRUE
  MaxRows = 2
  Doing = {"refuse", "crash"}
SYMMETRY ShellSymmetry
INVARIANTS OutcomeIsOwn NoOrphanOutcome NothingPending RunsCoverContributions
CHECK_DEADLOCK FALSE
