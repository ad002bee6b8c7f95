SPECIFICATION ProcessesSpec
CONSTANTS
  Process = {p0, p1}
  Root = p0
  Shell = shell
  Writer = writer
  Detached = {warm}
  Lock = {db}
  MaxDepth = 2
  MaxJobs = 1
  None = None
  MaxKeeper = 2
  MaxArriving = 1
  Terminal = {t1, t2}
  Tidier = tidier
  Absent = Absent
  Closed = Closed
  ScratchDoing = {"crash", "kill"}
  WatchBase = base
  WatchRoot = root
  WatchedDir = {base, root, sub}
  base = base
  root = root
  sub = sub
  Parent <- MCParent
  Gone = Gone
  MaxQueue = 2
  MaxChange = 1
  MaxMake = 1
  Policies = {"coalesce", "restart"}
  Initially = {FALSE}
  WatchDoing = {"stop"}
INVARIANTS GateInv NothingOrphaned NameLeadsHome
PROPERTIES ForkHappens RegionsEnd SettleReturns ServedOrBack ChangesAreRun
