---------------------------- MODULE Replacement ----------------------------
(***************************************************************************)
(* Putting a whole file in place of another: write a scratch file beside   *)
(* it, then rename(2) the scratch over it (macros/snapshot.rs write_to,    *)
(* env/universal.rs write; secrets/sync.rs write_kept has the same steps). *)
(* Opening a scratch that is there already truncates it, and a rename      *)
(* moves the file itself, so that whoever has it open goes on writing into *)
(* it under its new name.                                                  *)
(*                                                                         *)
(* A disk is a record: at[name] is the file of that name, 0 if there is    *)
(* none, and text[file] the lines in it.                                   *)
(***************************************************************************)
EXTENDS Naturals, Sequences, FiniteSets

CONSTANTS
  Name,    \* the names a stored table gives meanings to
  Value,  \* what they may mean
  Absent  \* the meaning of a name that is not in the table

ASSUME AbsentAssumption == Absent \notin Value
ASSUME NameAssumption == IsFiniteSet(Name)

Table == [Name -> Value \cup {Absent}]
NothingStored == [k \in Name |-> Absent]
Entry == Name \X Value

\* The one order a BTreeMap has: each name's place in it.
NameOrder ==
  CHOOSE place \in [Name -> 1 .. Cardinality(Name)] :
    \A j, k \in Name : place[j] = place[k] => j = k

\* A table as lines, in that order; and back, a later line winning.
Listed(table) == {k \in Name : table[k] # Absent}
LineOf(table, k) == Cardinality({j \in Listed(table) : NameOrder[j] <= NameOrder[k]})
Text(table) ==
  [i \in 1 .. Cardinality(Listed(table)) |->
     LET k == CHOOSE j \in Listed(table) : LineOf(table, j) = i IN <<k, table[k]>>]
Parsed(text) ==
  [k \in Name |-> LET said == {i \in 1 .. Len(text) : text[i][1] = k}
                 IN  IF said = {} THEN Absent
                     ELSE text[CHOOSE i \in said : \A j \in said : j <= i][2]]

Disk(names, files) == [at : [names -> files \cup {0}], text : [files -> Seq(Entry)]]
EmptyDisk(names, files) == [at |-> [n \in names |-> 0], text |-> [f \in files |-> <<>>]]

Exists(disk, name) == disk.at[name] # 0
Contents(disk, name) == Parsed(disk.text[disk.at[name]])

\* A file no name leads to and nobody has open.
Free(disk, open) ==
  CHOOSE f \in DOMAIN disk.text : f \notin open /\ \A n \in DOMAIN disk.at : disk.at[n] # f

\* File::create: the file of that name is emptied, or a new one made.
Created(disk, name, open) ==
  LET f == IF Exists(disk, name) THEN disk.at[name] ELSE Free(disk, open)
  IN  [at |-> [disk.at EXCEPT ![name] = f], text |-> [disk.text EXCEPT ![f] = <<>>]]

\* write_all at the start of an open file: what lies beyond the end stays.
Filled(disk, file, text) ==
  [disk EXCEPT !.text[file] = text \o SubSeq(@, Len(text) + 1, Len(@))]

\* A file left without a name is emptied, so that disks nobody can tell apart are equal.
Removed(disk, name) ==
  [at |-> [disk.at EXCEPT ![name] = 0],
   text |-> [f \in DOMAIN disk.text |-> IF f = disk.at[name] THEN <<>> ELSE disk.text[f]]]

\* rename(2), which needs the first name to exist.
Renamed(disk, from, to) ==
  [Removed(disk, to) EXCEPT !.at = [disk.at EXCEPT ![to] = disk.at[from], ![from] = 0]]
=============================================================================
