SPECIFICATION TablesSpec
CONSTANTS
  RevisionLimit = 2
  Tie = {0, 1}
  None = None
  Replica = {r1, r2}
  Key = {k1}
  Body = {x, y}
  MaxPid = 3
  MaxJob = 2
  Remembered = 1
  JobDoing = {"pipeline", "waitnext", "stray", "disown", "interrupt", "script"}
  Path = {p}
  Typed = {make, test}
  MaxDir = 2
  RunsPerDir = 1
  Walker = {k1}
  Sweeper = {b1}
  Nowhere = Nowhere
INVARIANTS Agreement JobInv   NothingDangles
PROPERTY EveryChildIsBuried
CHECK_DEADLOCK FALSE
