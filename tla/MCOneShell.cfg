SPECIFICATION FairSpec
CONSTANTS
  RevisionLimit = 4
  Tie = {0}
  None = None
  Events = 2
  la = la
  lb = lb
  Line = {la, lb}
  Blank = Blank
  Dir = {d1}
  Status = {ok, Unparsed}
  Shell = {s1}
  Kept <- MCKeptTwo
  Unparsed = Unparsed
  CountOnEnter = TRUE
  MaxRows = 1
  Doing = {"replace", "refuse", "clear", "trim"}
INVARIANT NothingLost
PROPERTIES QueueDrains
CHECK_DEADLOCK FALSE
