SPECIFICATION BackgroundFairSpec
CONSTANTS
  Spawned = {j1, j2}
  Alarm = {a1, a2}
  Repeating = {a2}
  Asked = {d1, d2}
  StartDir = d0
  NoDir = NoDir
  Scenarios <- MCScenarios
INVARIANTS OnExitRunsOnce LastWordHolds
PROPERTY NewsArrives
CHECK_DEADLOCK FALSE
