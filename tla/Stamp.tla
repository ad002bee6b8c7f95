------------------------------- MODULE Stamp -------------------------------
(***************************************************************************)
(* The stamp every synchronised record carries (track/stamp.rs): history   *)
(* events, macros and secrets are all compared by it.  A stamp is a        *)
(* revision, a tombstone flag and a tie-breaker, compared in that order.   *)
(*                                                                         *)
(* The operators take any record that has the three fields, so that they   *)
(* apply to a bare stamp and to a history event alike.                     *)
(***************************************************************************)
EXTENDS Naturals

CONSTANTS
  RevisionLimit,  \* the largest revision: u64::MAX in the code
  Tie,            \* the tie-breakers roll() may draw, ordered as the 16 bytes are
  None            \* Rust's Option::None

ASSUME StampAssumption ==
  /\ RevisionLimit \in Nat \ {0}
  /\ Tie # {} /\ Tie \subseteq Nat

Revision == 1 .. RevisionLimit
Stamp == [revision : Revision, deleted : BOOLEAN, tie : Tie]

\* The three fields of a record, without what else it carries.
Mark(r) == [revision |-> r.revision, deleted |-> r.deleted, tie |-> r.tie]

(***************************************************************************)
(* Changing a record: one revision up and a fresh tie-breaker.  advance()  *)
(* answers None at the last revision, and the transaction is discarded.    *)
(***************************************************************************)
\* Mutant: the revision is added to without a look at where it stands.
CanAdvanceAlways(r) == TRUE

CanAdvance(r) == r.revision < RevisionLimit
Advance(r, tie) == [r EXCEPT !.revision = @ + 1, !.tie = tie]

(***************************************************************************)
(* Comparing two copies.                                                   *)
(***************************************************************************)
\* Mutant: the tie-breaker is never looked at.
WinsOverNoTie(a, b) ==
  \/ a.revision > b.revision
  \/ a.revision = b.revision /\ a.deleted /\ ~b.deleted

WinsOver(a, b) ==
  \/ a.revision > b.revision
  \/ a.revision = b.revision /\ a.deleted /\ ~b.deleted
  \/ a.revision = b.revision /\ a.deleted = b.deleted /\ a.tie > b.tie

\* The survivor of two copies of one record: the first, unless the second wins.
Preferred(a, b) == IF WinsOver(b, a) THEN b ELSE a

\* Mutant: what is here already is kept.
MergedKeepsOurs(ours, theirs) == IF ours = None THEN theirs ELSE ours

\* The same when either side may never have heard of the record.
Merged(ours, theirs) ==
  IF theirs = None THEN ours
  ELSE IF ours = None THEN theirs ELSE Preferred(ours, theirs)
=============================================================================
