SPECIFICATION Spec
CONSTANTS
  RevisionLimit = 2
  Tie = {0}
  None = None
  Events = 2
  la = la
  lb = lb
  Line = {la}
  Blank = Blank
  Dir = {d1}
  Status = {ok}
  Machine = {m1, m2}
  Doing = {{"delete", "sync", "abort"}, {"rewrite", "retire"}, {"import"}}
SYMMETRY MachineSymmetry
INVARIANT SessionDelivers
PROPERTY ImplementsReplicas
CHECK_DEADLOCK FALSE
