SPECIFICATION UniversalSpec
CONSTANTS
  Name = {theme, pager}
  Value = {on}
  Absent = Absent
  Window = {s1, s2}
INVARIANT EverySessionSees
