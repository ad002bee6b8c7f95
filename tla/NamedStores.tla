---------------------------- MODULE NamedStores ----------------------------
(***************************************************************************)
(* What a macro store and a secret store keep under one name, on several   *)
(* machines, and the merges `oslo profile sync` makes of them (macros.rs,  *)
(* macros/sync.rs, secrets.rs, secrets/sync.rs, cli/sync/part.rs).  Names  *)
(* are merged one by one and none has to do with another, so one is        *)
(* modelled.                                                               *)
(*                                                                         *)
(* An edit reads the record and writes it back with its stamp advanced; a  *)
(* merge reads both sides, settles, and writes the loser.  Neither holds a *)
(* lock from its read to its write.                                        *)
(*                                                                         *)
(* Bounds: at u64::MAX revisions, or where no random bytes can be had,     *)
(* advance() does nothing and the edit is written under the old stamp;     *)
(* RevisionLimit stops before that.  A record from before there were       *)
(* stamps, which is given a new one each time it is read, is not modelled. *)
(***************************************************************************)
EXTENDS Stamp, FiniteSets

CONSTANTS
  Holder,
  Editor,  \* what edits: commands, the manager, plugins
  Said,   \* what a record may say
  MaxEdits,  \* how many edits are followed: a bound of the instance
  NewCount   \* the revision a new name counts from: 1 for a macro, 0 for a secret

ASSUME NamedAssumption == NewCount \in {0, 1} /\ MaxEdits \in Nat

Record == [revision : Revision, deleted : BOOLEAN, tie : Tie, body : Said]

ASSUME NoRecordAssumption == None \notin Record

VARIABLES
  kept,      \* kept[m]: what machine m keeps under the name, or None
  edit,      \* edit[e]: the machine an editor is on and what it read there, or None
  merge,     \* the session
  drawn      \* the stamps edits have drawn so far (history variable)

namedVars == <<kept, edit, merge, drawn>>

NoMerge == [pc |-> "idle", near |-> None, far |-> None, mine |-> None, theirs |-> None,
            began |-> {}, quiet |-> TRUE, overtaken |-> FALSE]

NamedTypeOK ==
  /\ kept \in [Holder -> Record \cup {None}]
  /\ edit \in [Editor -> [at : Holder, before : Record \cup {None}] \cup {None}]
  /\ merge \in [pc : {"idle", "asked", "near", "merged", "far", "done"},
                near : Holder \cup {None}, far : Holder \cup {None},
                mine : Record \cup {None}, theirs : Record \cup {None},
                began : SUBSET Stamp, quiet : BOOLEAN, overtaken : BOOLEAN]
  /\ drawn \subseteq Stamp

NamedInit ==
  /\ kept = [m \in Holder |-> None]
  /\ edit = [e \in Editor |-> None]
  /\ merge = NoMerge
  /\ drawn = {}

-----------------------------------------------------------------------------
(***************************************************************************)
(* Edits: put, set_active and remove of a macro, set and forget of a       *)
(* secret.  A name that is not there cannot be removed, a tombstone least  *)
(* of all, but it can be written over.                                     *)
(***************************************************************************)
\* A bound: no more than MaxEdits edits are begun.
BeginEdit(e, m) ==
  /\ edit[e] = None
  /\ Cardinality(drawn) + Cardinality({f \in Editor : edit[f] # None}) < MaxEdits
  /\ edit' = [edit EXCEPT ![e] = [at |-> m, before |-> kept[m]]]
  /\ UNCHANGED <<kept, merge, drawn>>

\* Mutant: a name written over a tombstone starts afresh.
CountedAgain(before) ==
  IF before = None THEN NewCount ELSE IF before.deleted THEN 0 ELSE before.revision

CountedFrom(before) == IF before = None THEN NewCount ELSE before.revision

\* Mutant: the tie-breaker is carried forward.
AdvancedKeepingTie(before) ==
  {r \in Record :
     /\ r.revision = CountedFrom(before) + 1
     /\ r.deleted => IF before = None THEN FALSE
                     ELSE ~ before.deleted /\ r.body = before.body
     /\ IF before = None THEN Mark(r) \notin drawn ELSE r.tie = before.tie}

\* The records an edit of what it read may write; roll() never draws a stamp twice.
Advanced(before) ==
  {r \in Record :
     /\ r.revision = CountedFrom(before) + 1
     /\ r.deleted => IF before = None THEN FALSE
                     ELSE ~ before.deleted /\ r.body = before.body
     /\ Mark(r) \notin drawn}

FinishEdit(e) ==
  /\ edit[e] # None
  /\ \E new \in Advanced(edit[e].before) :
       /\ kept' = [kept EXCEPT ![edit[e].at] = new]
       /\ drawn' = drawn \cup {Mark(new)}
  /\ merge' = [merge EXCEPT !.quiet = merge.pc = "idle",
                            !.overtaken = (@ \/ edit[e].before # kept[edit[e].at]) /\ merge.pc # "idle"]
  /\ edit' = [edit EXCEPT ![e] = None]

-----------------------------------------------------------------------------
(***************************************************************************)
(* A session: the far copy is asked for, merged with ours, and handed back *)
(* to be merged over there.                                                *)
(***************************************************************************)
Ask(near, far) ==
  /\ merge.pc = "idle" /\ near # far
  /\ merge' = [NoMerge EXCEPT !.pc = "asked", !.near = near, !.far = far,
                              !.theirs = kept[far],
                              !.began = {Mark(kept[m]) : m \in {n \in {near, far} : kept[n] # None}}]
  /\ UNCHANGED <<kept, edit, drawn>>

ReadSide(pc, m, next) ==
  /\ merge.pc = pc
  /\ merge' = [merge EXCEPT !.pc = next, !.mine = kept[m]]
  /\ UNCHANGED <<kept, edit, drawn>>

\* Mutant: what wins here is not handed to the other side.
HandedBackUnmerged(mine, theirs) == theirs

\* What the copy says once merged: the winner, in both directions.
HandedBack(mine, theirs) == Merged(mine, theirs)

\* settle(), and the loser written: here only where theirs wins.
WriteLoser(pc, m, next) ==
  LET won == Merged(merge.mine, merge.theirs)
      ours == won = merge.mine
  IN  /\ merge.pc = pc
      /\ kept' = IF ours THEN kept ELSE [kept EXCEPT ![m] = won]
      /\ merge' = [merge EXCEPT !.pc = next, !.mine = None,
                                !.theirs = HandedBack(merge.mine, merge.theirs),
                                !.overtaken = @ \/ (~ ours /\ kept[m] # merge.mine)]
      /\ UNCHANGED <<edit, drawn>>

ReadNear == ReadSide("asked", merge.near, "near")
WriteNear == WriteLoser("near", merge.near, "merged")
ReadFar == ReadSide("merged", merge.far, "far")
WriteFar == WriteLoser("far", merge.far, "done")

\* The session is over, or the connection drops, or this was a dry run.
Leave ==
  /\ merge.pc # "idle"
  /\ merge' = NoMerge
  /\ UNCHANGED <<kept, edit, drawn>>

-----------------------------------------------------------------------------
NamedNext ==
  \/ \E e \in Editor : FinishEdit(e) \/ \E m \in Holder : BeginEdit(e, m)
  \/ \E near, far \in Holder : Ask(near, far)
  \/ ReadNear \/ WriteNear \/ ReadFar \/ WriteFar \/ Leave

NamedSpec == NamedInit /\ [][NamedNext]_namedVars

-----------------------------------------------------------------------------
\* The records in the stores, on the way and in an editor's hands.
Held ==
  ({kept[m] : m \in Holder} \cup {merge.mine, merge.theirs}
     \cup {edit[e].before : e \in {e \in Editor : edit[e] # None}}) \ {None}

(***************************************************************************)
(* Equal stamps are the same record, wherever the two are: settle() looks  *)
(* no further than the stamps.                                             *)
(***************************************************************************)
SameStampSameRecord == \A a, b \in Held : Mark(a) = Mark(b) => a = b

(***************************************************************************)
(* "Both stores come out holding the union" (macros/sync.rs): unless some  *)
(* write went over a record its writer had not read, a session that ends   *)
(* leaves neither machine with less than either had when it began; and     *)
(* with nobody editing meanwhile, both with the same.                      *)
(***************************************************************************)
SessionLeavesUnion ==
  merge.pc = "done" =>
    /\ merge.quiet => kept[merge.near] = kept[merge.far]
    /\ ~ merge.overtaken =>
         \A m \in {merge.near, merge.far} : \A had \in merge.began :
           IF kept[m] = None THEN FALSE ELSE ~ WinsOver(had, kept[m])

(***************************************************************************)
(* "The new revision has to clear the tombstone's or the next sync would   *)
(* hand the deletion back" (secrets.rs): what a machine keeps gives way    *)
(* only to what wins over it, or to a writer that had read something else. *)
(***************************************************************************)
EditsStick ==
  [][\A m \in Holder :
       kept'[m] # kept[m] /\ kept[m] # None =>
         \/ kept'[m] # None /\ WinsOver(kept'[m], kept[m])
         \/ \E e \in Editor : edit[e] # None /\ edit'[e] = None /\ edit[e].before # kept[m]
         \/ merge.pc \in {"near", "far"} /\ merge.mine # kept[m]]_namedVars
=============================================================================
