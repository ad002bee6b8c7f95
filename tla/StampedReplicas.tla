-------------------------- MODULE StampedReplicas --------------------------
(***************************************************************************)
(* What a synchronised store promises, whatever it keeps and however the   *)
(* copies travel (the module comment of track/stamp.rs).  Each replica     *)
(* holds at most one copy of each record.  A transaction on one replica    *)
(* either authors new copies from the ones it holds or takes copies        *)
(* somebody wrote, where they win.                                         *)
(*                                                                         *)
(* HistorySync implements this specification; the macro and secret stores  *)
(* are written in terms of the same stamp.                                 *)
(***************************************************************************)
EXTENDS Stamp, FiniteSets

CONSTANTS
  Replica,  \* the machines
  Key,      \* record identities: event ids, macro names, secret names
  Body      \* what a record says beside its stamp

Copy == [revision : Revision, deleted : BOOLEAN, tie : Tie, body : Body]

ASSUME NoneAssumption == None \notin Copy

VARIABLES
  copy,     \* copy[r][k]: what replica r holds of record k, or None
  written   \* every copy of k that was ever authored (history variable)

vars == <<copy, written>>

TypeOK ==
  /\ copy \in [Replica -> [Key -> Copy \cup {None}]]
  /\ written \in [Key -> SUBSET Copy]

Init ==
  /\ copy = [r \in Replica |-> [k \in Key |-> None]]
  /\ written = [k \in Key |-> {}]

(***************************************************************************)
(* The copies an edit of k at r may write: revision one for a record r has *)
(* never heard of, otherwise one above its own.  roll() draws 128 random   *)
(* bits, so no two edits share a stamp.                                    *)
(***************************************************************************)
\* The revision an edit of k at r writes.
NextRevision(r, k) == IF copy[r][k] = None THEN 1 ELSE copy[r][k].revision + 1

\* Copies at one revision; a record is born alive.
CopiesAt(r, k, revision) ==
  [revision : {revision}, deleted : IF copy[r][k] = None THEN {FALSE} ELSE BOOLEAN,
   tie : Tie, body : Body]

\* Mutant: the tie-breaker is carried forward rather than rerolled.
AuthoredStaleTie(r, k) ==
  {c \in CopiesAt(r, k, NextRevision(r, k)) :
     /\ c.revision <= RevisionLimit
     /\ copy[r][k] # None => c.tie = copy[r][k].tie}

Authored(r, k) ==
  {c \in CopiesAt(r, k, NextRevision(r, k)) :
     /\ c.revision <= RevisionLimit
     /\ \A w \in written[k] : Mark(w) # Mark(c)}

Author(r) ==
  \E ks \in SUBSET Key : \E new \in [ks -> UNION {Authored(r, k) : k \in ks}] :
    /\ \A k \in ks : new[k] \in Authored(r, k)
    /\ copy' = [copy EXCEPT ![r] =
                  [k \in Key |-> IF k \in ks THEN new[k] ELSE copy[r][k]]]
    /\ written' = [k \in Key |->
                     IF k \in ks THEN written[k] \cup {new[k]} ELSE written[k]]

Take(r) ==
  /\ \E ks \in SUBSET Key : \E got \in [ks -> UNION {written[k] : k \in Key}] :
       /\ \A k \in ks : got[k] \in written[k]
       /\ copy' = [copy EXCEPT ![r] =
                     [k \in Key |-> IF k \in ks THEN Merged(copy[r][k], got[k])
                                    ELSE copy[r][k]]]
  /\ UNCHANGED written

Next == \E r \in Replica : Author(r) \/ Take(r)

Spec == Init /\ [][Next]_vars

-----------------------------------------------------------------------------
(***************************************************************************)
(* Two machines that show the same stamp for a record hold the same copy   *)
(* of it: "equal stamps are the same copy" is what lets a merge skip a     *)
(* record without reading it.                                              *)
(***************************************************************************)
Agreement ==
  \A r, s \in Replica, k \in Key :
    /\ copy[r][k] # None /\ copy[s][k] # None
    /\ Mark(copy[r][k]) = Mark(copy[s][k])
    => copy[r][k] = copy[s][k]

(***************************************************************************)
(* No step makes a machine forget a copy or replace it by one that does    *)
(* not win: an edit, once made, is undone only by a later edit.            *)
(***************************************************************************)
OnlyRises ==
  [][\A r \in Replica, k \in Key :
       copy'[r][k] # copy[r][k] =>
         /\ copy'[r][k] # None
         /\ copy[r][k] # None => WinsOver(copy'[r][k], copy[r][k])]_vars
=============================================================================
