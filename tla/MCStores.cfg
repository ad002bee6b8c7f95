SPECIFICATION StoresSpec
CONSTANTS
  RevisionLimit = 3
  Tie = {0, 1}
  None = None
  Events = 1
  la = la
  lb = lb
  Line = {la, lb}
  Blank = Blank
  Dir = {d1}
  Status = {ok}
  Machine = {m1, m2}
  Doing = {{"delete", "retire", "sync"}, {"rewrite", "delete", "retire", "import"}, {}}
  Holder = {h1, h2}
  Editor = {e1, e2}
  MaxEdits = 3
  Said = {x, y}
  NewCount = 0
  Name = {theme}
  Value = {on}
  Absent = Absent
  Window = {s1, s2}
  Publisher = {p1, p2}
  Reader = {w1}
  DirShell = {i1, i2}
  FirstShell = i1
  Home = out
  Place = {out, outer, inner}
  outer = outer
  inner = inner
  Above <- MCAbove
  Nowhere = Nowhere
  Variable = {v}
  Alias = {al}
  Function = {fn}
  Abbreviation = {ab}
  v = v
  al = al
  fn = fn
  ab = ab
  Word = {one, two}
  one = one
  two = two
  Unset = Unset
  NoFile = NoFile
  Script <- MCScript
  StartsAs <- MCStartsAs
  MaxWrite = 2
  MaxHand = 1
  Among = {{"hand", "child"}, {"edit", "child"}, {"decide", "edit"}}
SYMMETRY StoresSymmetry
INVARIANTS SyncInv SessionConverges SameStampSameRecord SessionLeavesUnion LookersSee EveryWriteIsWhole ShellsFollow LeavingRestores EditsAreNoticed
PROPERTIES HiddenStays EditsStick
CHECK_DEADLOCK FALSE
