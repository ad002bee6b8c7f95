---------------------------- MODULE StampProofs ----------------------------
(***************************************************************************)
(* The order on stamps, for any tie-breakers and any last revision: what   *)
(* every merge in this project rests on.                                   *)
(***************************************************************************)
EXTENDS Stamp, TLAPS

(***************************************************************************)
(* The order on stamps (track/stamp.rs, Stamp::order).  Exactly one of     *)
(* "same stamp", "a wins" and "b wins" holds, and winning is transitive.   *)
(***************************************************************************)
LEMMA StampFields ==
  ASSUME NEW a \in Stamp
  PROVE  /\ a.revision \in Nat /\ a.deleted \in BOOLEAN /\ a.tie \in Nat
         /\ a = Mark(a)
<1>1. a.revision \in Nat /\ a.tie \in Nat
  <2>1. a.revision \in 1 .. RevisionLimit /\ a.tie \in Tie
    BY DEF Stamp, Revision
  <2>2. a.tie \in Nat
    BY <2>1, StampAssumption, Zenon
  <2>3. a.revision \in Nat
    BY <2>1
  <2> QED BY <2>2, <2>3
<1>2. a.deleted \in BOOLEAN
  BY DEF Stamp
<1>3. a = Mark(a)
  BY DEF Stamp, Mark
<1> QED BY <1>1, <1>2, <1>3

\* Of two different stamps one wins.
LEMMA WinsOverIsTotal ==
  ASSUME NEW a \in Stamp, NEW b \in Stamp
  PROVE  a = b \/ WinsOver(a, b) \/ WinsOver(b, a)
<1>1. CASE a.revision # b.revision
  <2>1. a.revision > b.revision \/ b.revision > a.revision
    BY <1>1, StampFields
  <2> QED BY <2>1 DEF WinsOver
<1>2. CASE a.revision = b.revision /\ a.deleted # b.deleted
  <2>1. (a.deleted /\ ~ b.deleted) \/ (b.deleted /\ ~ a.deleted)
    BY <1>2, StampFields, Zenon
  <2> QED BY <1>2, <2>1, Zenon DEF WinsOver
<1>3. CASE a.revision = b.revision /\ a.deleted = b.deleted /\ a.tie # b.tie
  <2>1. a.tie > b.tie \/ b.tie > a.tie
    BY <1>3, StampFields
  <2> QED BY <1>3, <2>1, Zenon DEF WinsOver
<1>4. CASE a.revision = b.revision /\ a.deleted = b.deleted /\ a.tie = b.tie
  <2>1. Mark(a) = Mark(b)
    BY <1>4 DEF Mark
  <2> QED BY <2>1, StampFields
<1> QED BY <1>1, <1>2, <1>3, <1>4

\* And only one.
LEMMA WinsOverIsAsymmetric ==
  ASSUME NEW a \in Stamp, NEW b \in Stamp, WinsOver(a, b)
  PROVE  a # b /\ ~ WinsOver(b, a)
<1>1. CASE a.revision > b.revision
  <2>1. a.revision # b.revision /\ ~ (b.revision > a.revision)
    BY <1>1, StampFields
  <2> QED BY <2>1, Zenon DEF WinsOver
<1>2. CASE a.revision = b.revision /\ a.deleted /\ ~ b.deleted
  <2>1. ~ (b.revision > a.revision)
    BY <1>2, StampFields
  <2> QED BY <1>2, <2>1, Zenon DEF WinsOver
<1>3. CASE a.revision = b.revision /\ a.deleted = b.deleted /\ a.tie > b.tie
  <2>1. a.tie # b.tie /\ ~ (b.tie > a.tie) /\ ~ (b.revision > a.revision)
    BY <1>3, StampFields
  <2> QED BY <1>3, <2>1, Zenon DEF WinsOver
<1> QED BY <1>1, <1>2, <1>3 DEF WinsOver

\* What wins over a winner wins over what it beat.
LEMMA WinsOverIsTransitive ==
  ASSUME NEW a \in Stamp, NEW b \in Stamp, NEW c \in Stamp,
         WinsOver(a, b), WinsOver(b, c)
  PROVE  WinsOver(a, c)
<1>1. a.revision >= b.revision /\ b.revision >= c.revision
  BY StampFields DEF WinsOver
<1>2. CASE a.revision > c.revision
  BY <1>2 DEF WinsOver
<1>3. CASE a.revision = c.revision
  <2>1. /\ a.revision = b.revision /\ b.revision = c.revision
        /\ ~ (a.revision > b.revision) /\ ~ (b.revision > c.revision)
    BY <1>1, <1>3, StampFields
  <2>2. (a.deleted /\ ~ b.deleted) \/ (a.deleted = b.deleted /\ a.tie > b.tie)
    BY <2>1, Zenon DEF WinsOver
  <2>3. (b.deleted /\ ~ c.deleted) \/ (b.deleted = c.deleted /\ b.tie > c.tie)
    BY <2>1, Zenon DEF WinsOver
  <2>4. a.tie > b.tie /\ b.tie > c.tie => a.tie > c.tie
    BY StampFields
  <2> QED BY <1>3, <2>2, <2>3, <2>4, Zenon DEF WinsOver
<1> QED BY <1>1, <1>2, <1>3, StampFields

\* Winning is a matter of the marks alone, whatever else a record carries.
LEMMA WinsOverMarks ==
  ASSUME NEW a, NEW b
  PROVE  WinsOver(a, b) <=> WinsOver(Mark(a), Mark(b))
BY DEF WinsOver, Mark

\* What beats a record that was not beaten was not beaten either.
LEMMA StandsOver ==
  ASSUME NEW a \in Stamp, NEW b \in Stamp, NEW c \in Stamp,
         a = b \/ WinsOver(a, b), ~ WinsOver(c, b)
  PROVE  ~ WinsOver(c, a)
<1>1. SUFFICES ASSUME WinsOver(a, b), WinsOver(c, a) PROVE FALSE
  OBVIOUS
<1> QED BY <1>1, WinsOverIsTransitive
=============================================================================
