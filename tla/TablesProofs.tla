--------------------------- MODULE TablesProofs ---------------------------
(***************************************************************************)
(* The components that MCTables composes: replicas of stamped records      *)
(* (StampedReplicas), the tables of what was run where (Prune), and the    *)
(* shell's children and its job table (JobTable).                          *)
(***************************************************************************)
EXTENDS StampedReplicas, Prune, JobTable, StampProofs, FiniteSetTheorems, SequenceTheorems,
        WellFoundedInduction

-----------------------------------------------------------------------------
(***************************************************************************)
(* Proofs of the promises of StampedReplicas.                              *)
(***************************************************************************)
\* A copy's mark is a stamp, and copies are compared by their marks alone.
LEMMA MarkOfCopy ==
  ASSUME NEW c \in Copy
  PROVE  Mark(c) \in Stamp
BY DEF Copy, Mark, Stamp

\* Winning is a matter of the stamps alone.
LEMMA WinsOverByMark ==
  ASSUME NEW a \in Copy, NEW b \in Copy
  PROVE  WinsOver(a, b) <=> WinsOver(Mark(a), Mark(b))
BY DEF Copy, Mark, WinsOver

(***************************************************************************)
(* The survivor of a merge is one of the two copies, and if it is not ours *)
(* it beats ours.  This is the whole of what Take relies on.               *)
(***************************************************************************)
LEMMA MergedIsACopy ==
  ASSUME NEW ours \in Copy \cup {None}, NEW theirs \in Copy
  PROVE  /\ Merged(ours, theirs) \in {ours, theirs}
         /\ Merged(ours, theirs) \in Copy
         /\ ours # None /\ Merged(ours, theirs) # ours
              => WinsOver(Merged(ours, theirs), ours)
BY NoneAssumption DEF Merged, Preferred

\* Settling the same two copies at either end keeps the same stamp.
THEOREM MergeAgreesAtBothEnds ==
  ASSUME NEW a \in Copy, NEW b \in Copy
  PROVE  Mark(Merged(a, b)) = Mark(Merged(b, a))
<1>1. CASE Mark(a) = Mark(b)
  BY <1>1 DEF Merged, Preferred
<1>2. CASE WinsOver(a, b)
  <2>1. ~ WinsOver(b, a)
    BY <1>2, MarkOfCopy, WinsOverByMark, WinsOverIsAsymmetric
  <2> QED BY <1>2, <2>1, NoneAssumption DEF Merged, Preferred
<1>3. CASE WinsOver(b, a)
  <2>1. ~ WinsOver(a, b)
    BY <1>3, MarkOfCopy, WinsOverByMark, WinsOverIsAsymmetric
  <2> QED BY <1>3, <2>1, NoneAssumption DEF Merged, Preferred
<1> QED BY <1>1, <1>2, <1>3, MarkOfCopy, WinsOverByMark, WinsOverIsTotal

-----------------------------------------------------------------------------
(***************************************************************************)
(* The inductive invariant: what a replica holds was written by somebody,  *)
(* and no two written copies of a record share a stamp.                    *)
(***************************************************************************)
HeldWasWritten ==
  \A r \in Replica, k \in Key : copy[r][k] # None => copy[r][k] \in written[k]

StampNamesCopy ==
  \A k \in Key : \A c, d \in written[k] : Mark(c) = Mark(d) => c = d

IInv == TypeOK /\ HeldWasWritten /\ StampNamesCopy

\* An authored copy has a stamp no copy of the record had.
LEMMA AuthoredIsNew ==
  ASSUME TypeOK, NEW r \in Replica, NEW k \in Key, NEW c \in Authored(r, k)
  PROVE  /\ c \in Copy
         /\ \A w \in written[k] : Mark(w) # Mark(c)
         /\ copy[r][k] # None => WinsOver(c, copy[r][k])
<1>1. /\ c.revision = NextRevision(r, k)
      /\ c.revision <= RevisionLimit
      /\ \A w \in written[k] : Mark(w) # Mark(c)
      /\ c \in [revision : {NextRevision(r, k)}, deleted : BOOLEAN, tie : Tie, body : Body]
  BY DEF Authored, CopiesAt
<1>2. copy[r][k] \in Copy \cup {None}
  BY DEF TypeOK
<1>3. NextRevision(r, k) \in Nat \ {0}
  BY <1>2, StampAssumption DEF NextRevision, Copy, Revision
<1>4. c \in Copy
  BY <1>1, <1>3, StampAssumption DEF Copy, Revision
<1>5. ASSUME copy[r][k] # None PROVE WinsOver(c, copy[r][k])
  <2>1. copy[r][k].revision \in Nat
    BY <1>2, <1>5, StampAssumption DEF Copy, Revision
  <2> QED BY <1>1, <1>5, <2>1 DEF NextRevision, WinsOver
<1> QED BY <1>1, <1>4, <1>5

\* Nobody holds a copy at first.
LEMMA InitInv == Init => IInv
BY NoneAssumption DEF Init, IInv, TypeOK, HeldWasWritten, StampNamesCopy

(***************************************************************************)
(* A transaction seen from one record of one replica: what it holds        *)
(* afterwards is what it held, or a written copy that wins.                *)
(***************************************************************************)
RecordStep(r, k) ==
  \/ copy'[r][k] = copy[r][k]
  \/ /\ copy'[r][k] \in Copy /\ copy'[r][k] \in written'[k]
     /\ copy[r][k] # None => WinsOver(copy'[r][k], copy[r][k])

\* Authoring adds one copy, under a stamp of its own.
LEMMA AuthorStep ==
  ASSUME IInv, NEW q \in Replica, Author(q)
  PROVE  /\ TypeOK'
         /\ \A k \in Key : written[k] \subseteq written'[k]
         /\ \A r \in Replica, k \in Key : RecordStep(r, k)
         /\ StampNamesCopy'
<1> USE DEF IInv
<1>0. PICK ks \in SUBSET Key : \E new \in [ks -> UNION {Authored(q, k) : k \in ks}] :
        /\ \A k \in ks : new[k] \in Authored(q, k)
        /\ copy' = [copy EXCEPT ![q] =
                      [k \in Key |-> IF k \in ks THEN new[k] ELSE copy[q][k]]]
        /\ written' = [k \in Key |->
                         IF k \in ks THEN written[k] \cup {new[k]} ELSE written[k]]
  BY DEF Author
<1>1. PICK new \in [ks -> UNION {Authored(q, k) : k \in ks}] :
        /\ \A k \in ks : new[k] \in Authored(q, k)
        /\ copy' = [copy EXCEPT ![q] =
                      [k \in Key |-> IF k \in ks THEN new[k] ELSE copy[q][k]]]
        /\ written' = [k \in Key |->
                         IF k \in ks THEN written[k] \cup {new[k]} ELSE written[k]]
  BY <1>0
<1>2. \A k \in ks : /\ new[k] \in Copy
                    /\ \A w \in written[k] : Mark(w) # Mark(new[k])
                    /\ copy[q][k] # None => WinsOver(new[k], copy[q][k])
  BY <1>1, AuthoredIsNew
<1>3. copy \in [Replica -> [Key -> Copy \cup {None}]] /\ written \in [Key -> SUBSET Copy]
  BY DEF TypeOK
<1>4. TypeOK'
  BY <1>1, <1>2, <1>3 DEF TypeOK
<1>5. \A k \in Key : written[k] \subseteq written'[k]
  BY <1>1
<1>6. ASSUME NEW r \in Replica, NEW k \in Key PROVE RecordStep(r, k)
  <2>1. CASE r = q /\ k \in ks
    <3>1. copy'[r][k] = new[k] /\ new[k] \in written'[k]
      BY <1>1, <1>3, <2>1
    <3> QED BY <3>1, <2>1, <1>2 DEF RecordStep
  <2>2. CASE ~(r = q /\ k \in ks)
    <3>1. copy'[r][k] = copy[r][k]
      BY <1>1, <1>3, <2>2
    <3> QED BY <3>1 DEF RecordStep
  <2> QED BY <2>1, <2>2
<1>7. StampNamesCopy'
  <2> SUFFICES ASSUME NEW k \in Key, NEW c \in written'[k], NEW d \in written'[k],
                      Mark(c) = Mark(d)
               PROVE  c = d
    BY DEF StampNamesCopy
  <2>1. CASE k \in ks
    <3>1. c \in written[k] \cup {new[k]} /\ d \in written[k] \cup {new[k]}
      BY <1>1, <2>1
    <3> QED BY <3>1, <2>1, <1>2 DEF StampNamesCopy
  <2>2. CASE k \notin ks
    BY <1>1, <2>2 DEF StampNamesCopy
  <2> QED BY <2>1, <2>2
<1> QED BY <1>4, <1>5, <1>6, <1>7

\* Taking adds none.
LEMMA TakeStep ==
  ASSUME IInv, NEW q \in Replica, Take(q)
  PROVE  /\ TypeOK'
         /\ written' = written
         /\ \A r \in Replica, k \in Key : RecordStep(r, k)
<1> USE DEF IInv
<1>0. PICK ks \in SUBSET Key : \E got \in [ks -> UNION {written[k] : k \in Key}] :
        /\ \A k \in ks : got[k] \in written[k]
        /\ copy' = [copy EXCEPT ![q] =
                      [k \in Key |-> IF k \in ks THEN Merged(copy[q][k], got[k])
                                     ELSE copy[q][k]]]
  BY DEF Take
<1>1. PICK got \in [ks -> UNION {written[k] : k \in Key}] :
        /\ \A k \in ks : got[k] \in written[k]
        /\ copy' = [copy EXCEPT ![q] =
                      [k \in Key |-> IF k \in ks THEN Merged(copy[q][k], got[k])
                                     ELSE copy[q][k]]]
  BY <1>0
<1>2. written' = written
  BY DEF Take
<1>3. copy \in [Replica -> [Key -> Copy \cup {None}]] /\ written \in [Key -> SUBSET Copy]
  BY DEF TypeOK
<1>4. ASSUME NEW k \in ks
      PROVE  /\ Merged(copy[q][k], got[k]) \in {copy[q][k], got[k]}
             /\ Merged(copy[q][k], got[k]) \in Copy
             /\ copy[q][k] # None /\ Merged(copy[q][k], got[k]) # copy[q][k]
                  => WinsOver(Merged(copy[q][k], got[k]), copy[q][k])
  <2>1. copy[q][k] \in Copy \cup {None} /\ got[k] \in Copy
    BY <1>1, <1>3
  <2> QED BY <2>1, MergedIsACopy
<1>5. TypeOK'
  BY <1>1, <1>2, <1>3, <1>4 DEF TypeOK
<1>6. ASSUME NEW r \in Replica, NEW k \in Key PROVE RecordStep(r, k)
  <2>1. CASE r = q /\ k \in ks
    <3>1. copy'[r][k] = Merged(copy[q][k], got[k])
      BY <1>1, <1>3, <2>1
    <3>2. CASE copy'[r][k] = copy[r][k]
      BY <3>2 DEF RecordStep
    <3>3. CASE copy'[r][k] # copy[r][k]
      <4>1. copy'[r][k] = got[k] /\ got[k] \in written[k]
        BY <1>1, <1>4, <2>1, <3>1, <3>3
      <4> QED BY <4>1, <3>1, <3>3, <2>1, <1>2, <1>4 DEF RecordStep
    <3> QED BY <3>2, <3>3
  <2>2. CASE ~(r = q /\ k \in ks)
    <3>1. copy'[r][k] = copy[r][k]
      BY <1>1, <1>3, <2>2
    <3> QED BY <3>1 DEF RecordStep
  <2> QED BY <2>1, <2>2
<1> QED BY <1>2, <1>5, <1>6

\* Every step keeps the invariant.
LEMMA StepInv == IInv /\ [Next]_vars => IInv'
<1> SUFFICES ASSUME IInv, [Next]_vars PROVE IInv'
  OBVIOUS
<1>1. CASE UNCHANGED vars
  BY <1>1 DEF vars, IInv, TypeOK, HeldWasWritten, StampNamesCopy
<1>2. ASSUME NEW q \in Replica, Author(q) \/ Take(q) PROVE IInv'
  <2>1. /\ TypeOK'
        /\ \A k \in Key : written[k] \subseteq written'[k]
        /\ \A r \in Replica, k \in Key : RecordStep(r, k)
        /\ StampNamesCopy'
    <3>1. CASE Author(q)
      BY <3>1, AuthorStep
    <3>2. CASE Take(q)
      BY <3>2, TakeStep DEF IInv, StampNamesCopy
    <3> QED BY <1>2, <3>1, <3>2
  <2>2. HeldWasWritten'
    BY <2>1 DEF IInv, HeldWasWritten, RecordStep
  <2> QED BY <2>1, <2>2 DEF IInv
<1> QED BY <1>1, <1>2 DEF Next

\* What a replica holds was written by somebody, and among all copies of a record
\* ever written a stamp names one (track/stamp.rs: a revision, a flag and 128 bits).
THEOREM Invariance == Spec => []IInv
BY InitInv, StepInv, PTL DEF Spec

\* Every reachable state is well typed, for any set of replicas and records.
THEOREM TypeCorrect == Spec => []TypeOK
<1>1. IInv => TypeOK
  BY DEF IInv
<1> QED BY <1>1, Invariance, PTL

(***************************************************************************)
(* Equal stamps are the same copy, on any two machines: a merge that skips *)
(* a record whose stamps are equal skips nothing.                          *)
(***************************************************************************)
THEOREM AgreementHolds == Spec => []Agreement
<1>1. IInv => Agreement
  BY DEF IInv, HeldWasWritten, StampNamesCopy, Agreement
<1> QED BY <1>1, Invariance, PTL

(***************************************************************************)
(* No transaction loses or downgrades a copy.                              *)
(***************************************************************************)
THEOREM OnlyRisesHolds == Spec => OnlyRises
<1> DEFINE Rise(r, k) ==
      copy'[r][k] # copy[r][k] =>
        /\ copy'[r][k] # None
        /\ copy[r][k] # None => WinsOver(copy'[r][k], copy[r][k])
<1>1. IInv /\ [Next]_vars => [\A r \in Replica, k \in Key : Rise(r, k)]_vars
  <2> SUFFICES ASSUME IInv, NEW q \in Replica, Author(q) \/ Take(q),
                      NEW r \in Replica, NEW k \in Key
               PROVE  Rise(r, k)
    BY DEF Next
  <2>1. RecordStep(r, k)
    BY AuthorStep, TakeStep
  <2> QED BY <2>1, NoneAssumption DEF RecordStep
<1> QED BY <1>1, Invariance, PTL DEF Spec, OnlyRises

-----------------------------------------------------------------------------
(***************************************************************************)
(* Proof of the promise of Prune.                                          *)
(***************************************************************************)
USE PruneAssumption

\* The tables, the runs under one directory, and what a sweep may be at.
Tables ==
  [dir : [DirId -> DirRow \cup {Nowhere}], next : 1 .. MaxDir + 1,
   times : [RunId -> 0 .. 2], old : SUBSET RunId, twins : SUBSET RunId]

Sweeping ==
  [pc : {"idle", "twins", "rows", "cap", "stat", "note", "look", "forget", "span", "unlist"},
   then : {"idle", "cap", "stat", "span"}, doomed : SUBSET RunId, left : SUBSET RunId,
   gone : SUBSET DirId, dirs : SUBSET DirId, dir : DirId \cup {0}]

Under(i) == {r \in RunId : r[1] = i}

(***************************************************************************)
(* What a sweep has done so far is done, but for what was caught: the      *)
(* twins of the rows behind it, then the rows themselves, and of a         *)
(* directory also what its rows were not read to have.                     *)
(***************************************************************************)
Orderly(w, t, c) ==
  /\ w.pc = "twins" =>
       w.left \subseteq w.doomed /\ (w.doomed \ w.left) \cap t.twins \subseteq c
  /\ w.pc = "rows" =>
       w.then # "span" /\ w.left \subseteq w.doomed /\ w.doomed \cap t.twins \subseteq c
  /\ w.pc = "span" => w.left \subseteq Under(w.dir) /\ w.left \cap Filed(t) \subseteq c
  /\ w.pc = "unlist" => Under(w.dir) \cap Filed(t) \subseteq c
  /\ w.pc \in {"span", "unlist"} => w.doomed = {}
  /\ w.pc \in {"span", "unlist"} \/ (w.pc = "twins" /\ w.then = "span") =>
       w.dir \in DirId /\ (Under(w.dir) \ w.doomed) \cap t.twins \subseteq c

PruneInv ==
  PruneTypeOK /\ NothingDangles /\ \A s \in Sweeper : Orderly(sweep[s], track, caught)

-----------------------------------------------------------------------------
\* The id a path is found under is that of a directory in the table.
LEMMA DirAtIs ==
  ASSUME NEW t, NEW p
  PROVE  /\ DirAt(t, p) \in DirId \cup {0}
         /\ DirAt(t, p) # 0 => DirAt(t, p) \in Live(t)
<1>1. CASE \E i \in Live(t) : t.dir[i].path = p
  <2>1. DirAt(t, p) \in Live(t)
    BY <1>1 DEF DirAt
  <2> QED BY <2>1 DEF Live
<1>2. CASE ~ \E i \in Live(t) : t.dir[i].path = p
  BY <1>2 DEF DirAt
<1> QED BY <1>1, <1>2

\* Finding a directory an id may add it, and touches no run.
LEMMA ResolvedIs ==
  ASSUME NEW t \in Tables, NEW p \in Path
  PROVE  /\ Resolved(t, p) \in Tables /\ Live(t) \subseteq Live(Resolved(t, p))
         /\ Filed(Resolved(t, p)) = Filed(t) /\ Resolved(t, p).twins = t.twins
<1>1. CASE DirAt(t, p) # 0 \/ t.next \notin DirId
  BY <1>1 DEF Resolved
<1>2. CASE DirAt(t, p) = 0 /\ t.next \in DirId
  <2> DEFINE row == [path |-> p, missing |-> "no"]
             u == [t EXCEPT !.dir[t.next] = row, !.next = @ + 1]
  <2>1. row \in DirRow /\ row # Nowhere
    BY DEF DirRow
  <2> HIDE DEF row
  <2>2. /\ u.dir = [t.dir EXCEPT ![t.next] = row] /\ u.next = t.next + 1
        /\ u.times = t.times /\ u.old = t.old /\ u.twins = t.twins
    BY DEF Tables
  <2>3. u \in Tables
    <3>1. [t.dir EXCEPT ![t.next] = row] \in [DirId -> DirRow \cup {Nowhere}]
      BY <2>1 DEF Tables
    <3>2. t.next + 1 \in 1 .. MaxDir + 1
      BY <1>2 DEF DirId
    <3> QED BY <3>1, <3>2 DEF Tables
  <2>4. Live(t) \subseteq Live(u)
    BY <1>2, <2>1, <2>2 DEF Live, Tables
  <2>5. Resolved(t, p) = u
    BY <1>2 DEF Resolved, row
  <2> HIDE DEF u
  <2> QED BY <2>2, <2>3, <2>4, <2>5 DEF Filed
<1> QED BY <1>1, <1>2

\* A run is filed, with a twin if it had not been.
LEMMA ExecutedIs ==
  ASSUME NEW t \in Tables, NEW r \in RunId
  PROVE  /\ Executed(t, r) \in Tables /\ Live(Executed(t, r)) = Live(t)
         /\ Filed(Executed(t, r)) = Filed(t) \cup {r}
         /\ t.twins \subseteq Executed(t, r).twins
         /\ Executed(t, r).twins \subseteq t.twins \cup {r}
<1> DEFINE n == IF t.times[r] = 2 THEN 2 ELSE t.times[r] + 1
           u == Executed(t, r)
<1>1. t.times[r] \in 0 .. 2
  BY DEF Tables
<1>2. n \in 1 .. 2
  BY <1>1
<1>3. /\ u.dir = t.dir /\ u.next = t.next /\ u.times = [t.times EXCEPT ![r] = n]
      /\ u.old = t.old \ {r}
      /\ u.twins = IF t.times[r] = 0 THEN t.twins \cup {r} ELSE t.twins
  BY DEF Executed, Tables
<1>4. u \in Tables
  <2>1. [t.times EXCEPT ![r] = n] \in [RunId -> 0 .. 2]
    BY <1>2 DEF Tables
  <2> DEFINE twins == IF t.times[r] = 0 THEN t.twins \cup {r} ELSE t.twins
             times == [t.times EXCEPT ![r] = n]
             old == t.old \ {r}
  <2>2. twins \in SUBSET RunId /\ old \in SUBSET RunId
    BY DEF Tables
  <2>3. u = [t EXCEPT !.times = times, !.old = old, !.twins = twins]
    BY DEF Executed, Tables
  <2> HIDE DEF u, n, twins, times, old
  <2> QED BY <2>1, <2>2, <2>3 DEF Tables, times
<1> HIDE DEF u, n
<1>5. Filed(u) = Filed(t) \cup {r}
  BY <1>2, <1>3 DEF Filed, Tables
<1> QED BY <1>3, <1>4, <1>5 DEF u, Live

\* Who arrives takes a mark off, and touches no run.
LEMMA ArrivedIs ==
  ASSUME NEW t \in Tables, NEW p \in Path, DirAt(Resolved(t, p), p) # 0
  PROVE  /\ Arrived(t, p) \in Tables /\ Live(t) \subseteq Live(Arrived(t, p))
         /\ Filed(Arrived(t, p)) = Filed(t) /\ Arrived(t, p).twins = t.twins
<1> DEFINE k == Resolved(t, p)
           i == DirAt(k, p)
           row == [k.dir[i] EXCEPT !.missing = "no"]
           u == [k EXCEPT !.dir[i].missing = "no"]
<1>1. /\ k \in Tables /\ Live(t) \subseteq Live(k) /\ Filed(k) = Filed(t) /\ k.twins = t.twins
  BY ResolvedIs
<1>2. i \in Live(k)
  BY DirAtIs
<1>3. Arrived(t, p) = u
  BY DEF Arrived
<1> HIDE DEF k, i
<1>4. i \in DirId /\ k.dir[i] \in DirRow
  BY <1>1, <1>2 DEF Live, Tables
<1>5. row \in DirRow /\ row # Nowhere
  BY <1>4 DEF DirRow
<1>6. /\ u.dir = [k.dir EXCEPT ![i] = row] /\ u.times = k.times /\ u.twins = k.twins
      /\ u.next = k.next /\ u.old = k.old
  BY <1>1 DEF Tables
<1>7. u \in Tables
  BY <1>1, <1>4, <1>5 DEF Tables
<1> HIDE DEF row, u
<1>8. Live(k) \subseteq Live(u)
  BY <1>1, <1>4, <1>5, <1>6 DEF Live, Tables
<1> QED BY <1>1, <1>3, <1>6, <1>7, <1>8 DEF Filed

\* Forgetting rows unfiles them, and nothing else.
LEMMA UnrememberedIs ==
  ASSUME NEW t \in Tables, NEW rs \in SUBSET RunId
  PROVE  /\ Unremembered(t, rs) \in Tables /\ Live(Unremembered(t, rs)) = Live(t)
         /\ Filed(Unremembered(t, rs)) = Filed(t) \ rs
         /\ Unremembered(t, rs).twins = t.twins
<1> DEFINE u == Unremembered(t, rs)
<1>1. /\ u.dir = t.dir /\ u.next = t.next /\ u.old = t.old \ rs /\ u.twins = t.twins
      /\ u.times = [r \in RunId |-> IF r \in rs THEN 0 ELSE t.times[r]]
  BY DEF Unremembered, Tables
<1>2. u \in Tables
  <2>1. [r \in RunId |-> IF r \in rs THEN 0 ELSE t.times[r]] \in [RunId -> 0 .. 2]
    BY DEF Tables
  <2> QED BY <2>1 DEF Unremembered, Tables
<1> HIDE DEF u
<1> QED BY <1>1, <1>2 DEF Filed, Live, u

-----------------------------------------------------------------------------
\* A run that becomes filed, or gets a twin, under somebody's hands is caught.
Catches ==
  /\ \A r \in RunId :
       (r \in Filed(track') \ Filed(track) \/ r \in track'.twins \ track.twins) =>
         r \in caught' \/ \A s \in Sweeper : r \notin InHand(s)
  /\ caught \cap (Filed(track') \cup track'.twins) \subseteq caught'

\* What others do leaves a sweep in order.
LEMMA OrderlyStays ==
  ASSUME PruneTypeOK, PruneTypeOK', NEW s \in Sweeper, Orderly(sweep[s], track, caught), Catches
  PROVE  Orderly(sweep[s], track', caught')
<1> DEFINE w == sweep[s]
           f == Filed(track)
           g == Filed(track')
<1>1. w \in Sweeping /\ track.twins \subseteq RunId /\ track'.twins \subseteq RunId
  BY DEF PruneTypeOK, Sweeping
<1>2. f \subseteq RunId /\ g \subseteq RunId
  BY DEF Filed
<1>3. \A r \in RunId : r \in w.doomed \/ r[1] = w.dir => r \in InHand(s)
  BY DEF InHand
<1>4. \A r \in RunId : r \in track'.twins /\ (r \in w.doomed \/ r[1] = w.dir) =>
          r \in caught' \/ (r \in track.twins /\ r \notin caught)
  BY <1>3 DEF Catches
<1>5. \A r \in RunId : r \in g /\ (r \in w.doomed \/ r[1] = w.dir) =>
          r \in caught' \/ (r \in f /\ r \notin caught)
  BY <1>3 DEF Catches
<1>6. w.doomed \subseteq RunId /\ w.left \subseteq RunId
  BY <1>1 DEF Sweeping
<1>7. Orderly(w, track, caught)
  OBVIOUS
<1> HIDE DEF w
<1>8. Orderly(w, track', caught')
  BY <1>1, <1>2, <1>4, <1>5, <1>6, <1>7 DEF Orderly, Under
<1> QED BY <1>8 DEF w

\* A step that adds directories, and runs in directories that are there.
LEMMA GrowthKeeps ==
  ASSUME PruneInv, track' \in Tables, Live(track) \subseteq Live(track'),
         NEW run \in SUBSET RunId, \A r \in run : r[1] \in Live(track'),
         Filed(track') = Filed(track) \cup run,
         track.twins \subseteq track'.twins, track'.twins \subseteq track.twins \cup run,
         caught' \subseteq RunId,
         caught \cap (Filed(track') \cup track'.twins) \subseteq caught',
         run \cap UNION {InHand(s) : s \in Sweeper} \subseteq caught',
         walker' \in [Walker -> [at : Path \cup {Nowhere}, id : DirId \cup {0}]],
         sweep' = sweep, mounted' \subseteq Path
  PROVE  PruneInv'
<1>1. PruneTypeOK'
  BY DEF PruneInv, PruneTypeOK, Tables
<1>2. NothingDangles'
  BY DEF PruneInv, NothingDangles, RunsHaveTheirPlace, TwinsNameRuns
<1>3. Catches
  BY DEF Catches
<1>4. ASSUME NEW s \in Sweeper PROVE Orderly(sweep[s], track, caught)'
  <2>1. Orderly(sweep[s], track', caught')
    BY <1>1, <1>3, OrderlyStays DEF PruneInv
  <2> QED BY <2>1
<1> QED BY <1>1, <1>2, <1>4 DEF PruneInv

\* A step that files nothing and takes nothing away.
LEMMA StandingKeeps ==
  ASSUME PruneInv, track' \in Tables, Live(track) \subseteq Live(track'),
         Filed(track') = Filed(track), track'.twins = track.twins, caught' = caught,
         walker' \in [Walker -> [at : Path \cup {Nowhere}, id : DirId \cup {0}]],
         sweep' = sweep, mounted' \subseteq Path
  PROVE  PruneInv'
<1> DEFINE run == {}
<1>1. /\ run \in SUBSET RunId /\ \A r \in run : r[1] \in Live(track')
      /\ Filed(track') = Filed(track) \cup run
      /\ track.twins \subseteq track'.twins /\ track'.twins \subseteq track.twins \cup run
      /\ run \cap UNION {InHand(s) : s \in Sweeper} \subseteq caught'
  OBVIOUS
<1>2. caught' \subseteq RunId /\ caught \cap (Filed(track') \cup track'.twins) \subseteq caught'
  BY DEF PruneInv, PruneTypeOK
<1> HIDE DEF run
<1> QED BY <1>1, <1>2, GrowthKeeps

\* A step of a sweep, which takes away what leaves nothing pointing at it.
LEMMA SweepKeeps ==
  ASSUME PruneInv, NEW s \in Sweeper, NEW w \in Sweeping,
         sweep' = [sweep EXCEPT ![s] = w], walker' = walker, mounted' = mounted,
         track' \in Tables,
         \A r \in Filed(track') : r[1] \in Live(track) => r[1] \in Live(track') \/ r \in caught',
         Filed(track') \subseteq Filed(track), track'.twins \subseteq track.twins,
         \A r \in Filed(track) \cap track'.twins : r \in Filed(track') \/ r \in caught',
         caught' \subseteq RunId,
         caught \cap (Filed(track') \cup track'.twins) \subseteq caught',
         Orderly(w, track', caught')
  PROVE  PruneInv'
<1>1. PruneTypeOK'
  BY DEF PruneInv, PruneTypeOK, Tables, Sweeping
<1>2. NothingDangles'
  BY DEF PruneInv, NothingDangles, RunsHaveTheirPlace, TwinsNameRuns
<1>3. Catches
  BY DEF Catches
<1>4. ASSUME NEW o \in Sweeper PROVE Orderly(sweep[o], track, caught)'
  <2>1. Orderly(sweep[o], track', caught')
    BY <1>1, <1>3, OrderlyStays DEF PruneInv
  <2>2. sweep'[o] = IF o = s THEN w ELSE sweep[o]
    BY DEF PruneInv, PruneTypeOK
  <2> QED BY <2>1, <2>2
<1> QED BY <1>1, <1>2, <1>4 DEF PruneInv

-----------------------------------------------------------------------------
\* A shell starts.
LEMMA PrimeKeeps ==
  ASSUME PruneInv, NEW v \in Walker, NEW p \in Path, Prime(v, p)
  PROVE  PruneInv'
<1> DEFINE t == Resolved(track, p)
<1>1. track \in Tables
  BY DEF PruneInv, PruneTypeOK, Tables
<1>2. /\ t \in Tables /\ Live(track) \subseteq Live(t)
      /\ Filed(t) = Filed(track) /\ t.twins = track.twins
  BY <1>1, ResolvedIs
<1>3. DirAt(t, p) \in DirId \cup {0}
  BY DirAtIs
<1>4. /\ track' = t /\ walker' = [walker EXCEPT ![v] = [at |-> p, id |-> DirAt(t, p)]]
      /\ sweep' = sweep /\ mounted' = mounted /\ caught' = caught
  BY DEF Prime
<1> HIDE DEF t
<1>5. walker' \in [Walker -> [at : Path \cup {Nowhere}, id : DirId \cup {0}]]
  BY <1>3, <1>4 DEF PruneInv, PruneTypeOK
<1>6. caught' \subseteq RunId /\ mounted' \subseteq Path
  BY <1>4 DEF PruneInv, PruneTypeOK
<1> QED BY <1>2, <1>4, <1>5, <1>6, StandingKeeps

\* A command is filed under the directory it ran in, which is in the table.
LEMMA WriteStepKeeps ==
  ASSUME PruneInv, NEW v \in Walker, NEW line \in Typed \cup {Nowhere},
         NEW to \in Path \cup {Nowhere}, WriteStep(v, line, to)
  PROVE  PruneInv'
<1> DEFINE at == walker[v].at
           in == StandsIn(track, v)
           placed == IF at = Nowhere \/ in # 0 THEN track ELSE Resolved(track, at)
           id == IF in # 0 THEN in ELSE DirAt(placed, at)
           run == IF line = Nowhere THEN {} ELSE {<<id, line>>}
           counted == IF line = Nowhere THEN placed ELSE Executed(placed, <<id, line>>)
           arrived == IF to \in {at, Nowhere} THEN counted ELSE Arrived(counted, to)
<1>1. /\ IF at = Nowhere THEN line = Nowhere ELSE id # 0
      /\ to # at /\ to # Nowhere => to \in mounted /\ DirAt(Resolved(counted, to), to) # 0
      /\ track' = arrived
      /\ walker' = [walker EXCEPT ![v] = [at |-> to, id |-> DirAt(arrived, to)]]
      /\ Caught(run \cap UNION {InHand(s) : s \in Sweeper})
      /\ UNCHANGED <<sweep, mounted>>
  BY DEF WriteStep
<1>2. track \in Tables /\ at \in Path \cup {Nowhere} /\ caught \subseteq RunId
  BY DEF PruneInv, PruneTypeOK, Tables
<1>3. in # 0 => in \in Live(track)
  BY DEF StandsIn
<1>4. /\ placed \in Tables /\ Live(track) \subseteq Live(placed)
      /\ Filed(placed) = Filed(track) /\ placed.twins = track.twins
  BY <1>2, ResolvedIs
<1>5. id # 0 => id \in Live(placed)
  BY <1>3, <1>4, DirAtIs
<1> HIDE DEF in, placed, id
<1>6. run \subseteq RunId /\ \A r \in run : r[1] \in Live(placed)
  BY <1>1, <1>5 DEF RunId, Live
<1>7. /\ counted \in Tables /\ Live(counted) = Live(placed)
      /\ Filed(counted) = Filed(placed) \cup run
      /\ placed.twins \subseteq counted.twins /\ counted.twins \subseteq placed.twins \cup run
  BY <1>4, <1>6, ExecutedIs
<1> HIDE DEF counted
<1>8. to \notin {at, Nowhere} => to \in Path /\ DirAt(Resolved(counted, to), to) # 0
  BY <1>1
<1>9. /\ arrived \in Tables /\ Live(counted) \subseteq Live(arrived)
      /\ Filed(arrived) = Filed(counted) /\ arrived.twins = counted.twins
  BY <1>7, <1>8, ArrivedIs
<1> HIDE DEF run, arrived
<1>10. DirAt(arrived, to) \in DirId \cup {0}
  BY DirAtIs
<1>11. walker' \in [Walker -> [at : Path \cup {Nowhere}, id : DirId \cup {0}]]
  BY <1>1, <1>10 DEF PruneInv, PruneTypeOK
<1>12. /\ caught' = (caught \cup (run \cap UNION {InHand(s) : s \in Sweeper}))
                      \cap (Filed(track') \cup track'.twins)
  BY <1>1 DEF Caught
<1>13. /\ Filed(track') = Filed(track) \cup run /\ track'.twins \subseteq track.twins \cup run
       /\ track.twins \subseteq track'.twins /\ track' \in Tables
       /\ Live(track) \subseteq Live(track') /\ \A r \in run : r[1] \in Live(track')
  BY <1>1, <1>4, <1>6, <1>7, <1>9
<1>14. /\ caught' \subseteq RunId
       /\ caught \cap (Filed(track') \cup track'.twins) \subseteq caught'
       /\ run \cap UNION {InHand(s) : s \in Sweeper} \subseteq caught'
  BY <1>2, <1>6, <1>12, <1>13
<1>15. sweep' = sweep /\ mounted' \subseteq Path
  BY <1>1 DEF PruneInv, PruneTypeOK
<1> QED BY <1>6, <1>11, <1>13, <1>14, <1>15, GrowthKeeps

\* `history -c`, a disk that comes or goes, and the months.
LEMMA WorldKeeps ==
  ASSUME PruneInv, ClearRuns \/ DiskChanges \/ TimePasses
  PROVE  PruneInv'
<1>0. track \in Tables /\ caught \subseteq RunId
  BY DEF PruneInv, PruneTypeOK, Tables
<1>1. CASE ClearRuns
  <2> DEFINE u == Unremembered(track, RunId)
  <2>1. u \in Tables /\ Live(u) = Live(track) /\ Filed(u) = Filed(track) \ RunId
    BY <1>0, UnrememberedIs
  <2>2. track' = [u EXCEPT !.twins = {}]
    BY <1>1 DEF ClearRuns
  <2> HIDE DEF u
  <2>3. track' \in Tables /\ track'.twins = {} /\ track'.times = u.times
    BY <2>1, <2>2 DEF Tables
  <2>4. Filed(track') = {}
    BY <2>1, <2>3 DEF Filed
  <2>5. caught' = {} /\ sweep' = sweep /\ walker' = walker /\ mounted' = mounted
    BY <1>1, <2>3, <2>4 DEF ClearRuns, Caught
  <2>6. PruneTypeOK'
    BY <2>3, <2>5 DEF PruneInv, PruneTypeOK, Tables
  <2>7. NothingDangles'
    BY <2>3, <2>4 DEF NothingDangles, RunsHaveTheirPlace, TwinsNameRuns
  <2>8. Catches
    BY <2>3, <2>4 DEF Catches
  <2>9. ASSUME NEW s \in Sweeper PROVE Orderly(sweep[s], track, caught)'
    <3>1. Orderly(sweep[s], track', caught')
      BY <2>6, <2>8, OrderlyStays DEF PruneInv
    <3> QED BY <2>5, <3>1
  <2> QED BY <2>6, <2>7, <2>9 DEF PruneInv
<1>2. CASE DiskChanges
  <2>1. mounted' \subseteq Path
    BY <1>2 DEF DiskChanges, PruneInv, PruneTypeOK
  <2>2. track' = track /\ walker' = walker /\ sweep' = sweep /\ caught' = caught
    BY <1>2 DEF DiskChanges
  <2>4. walker' \in [Walker -> [at : Path \cup {Nowhere}, id : DirId \cup {0}]]
    BY <2>2 DEF PruneInv, PruneTypeOK
  <2> QED BY <1>0, <2>1, <2>2, <2>4, StandingKeeps
<1>3. CASE TimePasses
  <2> DEFINE later == [i \in DirId |-> IF i \in Live(track) /\ track.dir[i].missing # "no"
                                       THEN [track.dir[i] EXCEPT !.missing = "long"]
                                       ELSE track.dir[i]]
             ran == {r \in RunId : track.times[r] = 1}
  <2>1. track' = [track EXCEPT !.old = ran, !.dir = later]
    BY <1>3 DEF TimePasses
  <2>2. ASSUME NEW i \in DirId
        PROVE  later[i] \in DirRow \cup {Nowhere} /\ (later[i] = Nowhere <=> track.dir[i] = Nowhere)
    <3>1. track.dir[i] \in DirRow \cup {Nowhere}
      BY <1>0 DEF Tables
    <3>2. CASE i \in Live(track) /\ track.dir[i].missing # "no"
      <4>1. track.dir[i] \in DirRow
        BY <3>1, <3>2 DEF Live
      <4>2. [track.dir[i] EXCEPT !.missing = "long"] \in DirRow
        BY <4>1 DEF DirRow
      <4> QED BY <3>2, <4>1, <4>2
    <3> QED BY <3>1, <3>2
  <2>3. ran \subseteq RunId
    OBVIOUS
  <2>4. later \in [DirId -> DirRow \cup {Nowhere}]
    BY <2>2
  <2> HIDE DEF later, ran
  <2>5. /\ track' \in Tables /\ track'.dir = later /\ track'.times = track.times
        /\ track'.twins = track.twins
    BY <1>0, <2>1, <2>3, <2>4 DEF Tables
  <2>6. Live(track') = Live(track) /\ Filed(track') = Filed(track)
    BY <2>2, <2>5 DEF Live, Filed
  <2>7. sweep' = sweep /\ walker' = walker /\ mounted' = mounted /\ caught' = caught
    BY <1>3 DEF TimePasses
  <2>8. /\ walker' \in [Walker -> [at : Path \cup {Nowhere}, id : DirId \cup {0}]]
        /\ mounted' \subseteq Path
    BY <2>7 DEF PruneInv, PruneTypeOK
  <2> QED BY <1>0, <2>5, <2>6, <2>7, <2>8, StandingKeeps
<1> QED BY <1>1, <1>2, <1>3

-----------------------------------------------------------------------------
\* What is known of a sweep and the tables.
LEMMA SweepTypes ==
  ASSUME PruneInv, NEW s \in Sweeper
  PROVE  /\ track \in Tables /\ caught \subseteq RunId
         /\ sweep[s] \in Sweeping /\ Orderly(sweep[s], track, caught)
         /\ \A r \in Filed(track) \ caught : r[1] \in Live(track)
         /\ track.twins \ caught \subseteq Filed(track)
BY DEF PruneInv, PruneTypeOK, Tables, Sweeping, NothingDangles, RunsHaveTheirPlace, TwinsNameRuns

\* Only what is in the tables has to have been caught.
LEMMA OrderlyOfTables ==
  ASSUME NEW w, NEW t, NEW c, Orderly(w, t, c)
  PROVE  Orderly(w, t, c \cap (Filed(t) \cup t.twins))
BY DEF Orderly

\* A sweep that only reads, or gives up, goes on.
LEMMA TurnKeeps ==
  ASSUME PruneInv, NEW s \in Sweeper, NEW w \in Sweeping, track' = track, walker' = walker,
         mounted' = mounted, sweep' = [sweep EXCEPT ![s] = w],
         NEW more \in SUBSET RunId, Caught(more), Orderly(w, track, caught \cup more)
  PROVE  PruneInv'
<1>1. track \in Tables /\ caught \subseteq RunId
  BY SweepTypes
<1>2. caught' = (caught \cup more) \cap (Filed(track) \cup track.twins)
  BY DEF Caught
<1>3. Orderly(w, track', caught')
  BY <1>2, OrderlyOfTables
<1>4. caught' \subseteq RunId /\ caught \cap (Filed(track') \cup track'.twins) \subseteq caught'
  BY <1>1, <1>2
<1> QED BY <1>1, <1>3, <1>4, SweepKeeps

\* Reading what to delete.
LEMMA DropKeeps ==
  ASSUME PruneInv, NEW s \in Sweeper, NEW rows \in SUBSET RunId,
         NEW then \in {"idle", "cap", "stat"}, Drop(s, rows, then)
  PROVE  PruneInv'
<1> DEFINE w == [sweep[s] EXCEPT !.pc = "twins", !.then = then, !.doomed = rows, !.left = rows]
<1>1. sweep[s] \in Sweeping
  BY SweepTypes
<1>2. w \in Sweeping /\ w.pc = "twins" /\ w.then = then /\ w.doomed = rows /\ w.left = rows
  BY <1>1 DEF Sweeping
<1>3. /\ track' = track /\ sweep' = [sweep EXCEPT ![s] = w] /\ Caught({})
      /\ walker' = walker /\ mounted' = mounted
  BY DEF Drop, Goes
<1> HIDE DEF w
<1>4. Orderly(w, track, caught \cup {})
  BY <1>2 DEF Orderly
<1> QED BY <1>2, <1>3, <1>4, TurnKeeps

\* The three readings.
LEMMA ReadingKeeps ==
  ASSUME PruneInv, NEW s \in Sweeper,
         \/ ReadStale(s) \/ ReadOverTheCap(s)
         \/ \E line \in Typed : ForgetTyped(s, line)
  PROVE  PruneInv'
<1>1. track \in Tables
  BY SweepTypes
<1>2. CASE ReadStale(s)
  <2>1. {r \in track.old : track.times[r] = 1} \in SUBSET RunId
    BY <1>1 DEF Tables
  <2> QED BY <1>2, <2>1, DropKeeps DEF ReadStale
<1>3. CASE ReadOverTheCap(s)
  <2>1. PICK rows \in OverTheCap(track) : Drop(s, rows, "stat")
    BY <1>3 DEF ReadOverTheCap
  <2>2. rows \in SUBSET RunId
    BY <2>1 DEF OverTheCap, Filed
  <2> QED BY <2>1, <2>2, DropKeeps
<1>4. ASSUME NEW line \in Typed, ForgetTyped(s, line)
      PROVE  PruneInv'
  <2>1. {r \in Filed(track) : r[2] = line} \in SUBSET RunId
    BY DEF Filed
  <2> QED BY <1>4, <2>1, DropKeeps DEF ForgetTyped
<1> QED BY <1>2, <1>3, <1>4

\* A chunk of twins, or of rows whose twins have gone.
LEMMA DropChunkKeeps ==
  ASSUME PruneInv, NEW s \in Sweeper, DropChunk(s)
  PROVE  PruneInv'
<1> DEFINE v == sweep[s]
<1>1. /\ track \in Tables /\ caught \subseteq RunId
      /\ v \in Sweeping /\ Orderly(v, track, caught)
  BY SweepTypes
<1>2. PICK r \in v.left :
        /\ track' = Chunk(track, r, v.pc)
        /\ Goes(s, [v EXCEPT !.left = @ \ {r}])
  BY DEF DropChunk
<1>3. v.pc \in {"twins", "rows"}
  BY DEF DropChunk
<1> DEFINE w == [v EXCEPT !.left = v.left \ {r}]
<1>4. /\ w \in Sweeping /\ w.pc = v.pc /\ w.then = v.then /\ w.doomed = v.doomed
      /\ w.left = v.left \ {r} /\ w.dir = v.dir /\ r \in RunId
  BY <1>1 DEF Sweeping
<1>5. /\ sweep' = [sweep EXCEPT ![s] = w] /\ walker' = walker /\ mounted' = mounted
      /\ caught' = caught \cap (Filed(track') \cup track'.twins)
  BY <1>2 DEF Goes, Caught
<1>6. /\ track' \in Tables /\ Live(track') = Live(track)
      /\ v.pc = "twins" => Filed(track') = Filed(track) /\ track'.twins = track.twins \ {r}
      /\ v.pc = "rows" => Filed(track') = Filed(track) \ {r} /\ track'.twins = track.twins
  <2>1. CASE v.pc = "twins"
    <3>1. track' = [track EXCEPT !.twins = track.twins \ {r}]
      BY <1>2, <2>1 DEF Chunk
    <3>2. track' \in Tables /\ track'.times = track.times /\ track'.dir = track.dir
          /\ track'.twins = track.twins \ {r}
      BY <1>1, <3>1 DEF Tables
    <3> QED BY <2>1, <3>2 DEF Filed, Live
  <2>2. CASE v.pc = "rows"
    <3>1. track' = Unremembered(track, {r})
      BY <1>2, <2>2 DEF Chunk
    <3> QED BY <1>1, <1>4, <2>2, <3>1, UnrememberedIs
  <2> QED BY <1>3, <2>1, <2>2
<1> HIDE DEF v, w
<1>7. Orderly(w, track', caught)
  BY <1>1, <1>3, <1>4, <1>6 DEF Orderly
<1>8. Orderly(w, track', caught')
  BY <1>5, <1>7, OrderlyOfTables
<1>9. /\ Filed(track') \subseteq Filed(track) /\ track'.twins \subseteq track.twins
      /\ \A q \in Filed(track) \cap track'.twins : q \in Filed(track') \/ q \in caught'
  <2>1. v.pc = "rows" => (r \in track.twins => r \in caught)
    BY <1>1, <1>2 DEF Orderly
  <2> QED BY <1>3, <1>5, <1>6, <2>1
<1> QED BY <1>1, <1>4, <1>5, <1>6, <1>8, <1>9, SweepKeeps

\* A pass that is over.
LEMMA PassEndsKeeps ==
  ASSUME PruneInv, NEW s \in Sweeper, PassEnds(s)
  PROVE  PruneInv'
<1> DEFINE v == sweep[s]
           rows == [v EXCEPT !.pc = "rows", !.left = v.doomed]
           next == [v EXCEPT !.pc = v.then, !.then = "idle", !.doomed = {}]
           w == IF v.pc = "twins" /\ v.then # "span" THEN rows ELSE next
<1>1. /\ track \in Tables /\ caught \subseteq RunId
      /\ v \in Sweeping /\ Orderly(v, track, caught)
  BY SweepTypes
<1>2. /\ v.pc \in {"twins", "rows"} /\ v.left = {} /\ track' = track
      /\ Goes(s, w)
  BY DEF PassEnds
<1>3. /\ rows \in Sweeping /\ rows.pc = "rows" /\ rows.then = v.then
      /\ rows.doomed = v.doomed /\ rows.left = v.doomed /\ rows.dir = v.dir
  BY <1>1 DEF Sweeping
<1>4. /\ next \in Sweeping /\ next.pc = v.then /\ next.doomed = {} /\ next.left = {}
      /\ next.dir = v.dir /\ next.then = "idle"
  BY <1>1, <1>2 DEF Sweeping
<1>5. v.then \in {"idle", "cap", "stat", "span"}
  BY <1>1 DEF Sweeping
<1> HIDE DEF v, rows, next
<1>6. w \in Sweeping
  BY <1>3, <1>4
<1>7. Orderly(w, track, caught \cup {})
  <2>1. CASE v.pc = "twins" /\ v.then # "span"
    BY <1>1, <1>2, <1>3, <2>1 DEF Orderly
  <2>2. CASE v.pc = "twins" /\ v.then = "span"
    <3>1. v.dir \in DirId /\ (Under(v.dir) \ v.doomed) \cap track.twins \subseteq caught
      BY <1>1, <2>2 DEF Orderly
    <3>2. v.doomed \cap track.twins \subseteq caught
      BY <1>1, <1>2, <2>2 DEF Orderly
    <3>3. w = next
      BY <2>2
    <3> QED BY <1>4, <2>2, <3>1, <3>2, <3>3 DEF Orderly
  <2>3. CASE v.pc = "rows"
    <3>1. v.then # "span"
      BY <1>1, <2>3 DEF Orderly
    <3>2. next.pc \in {"idle", "cap", "stat"} /\ w = next
      BY <1>4, <1>5, <2>3, <3>1
    <3> QED BY <3>2 DEF Orderly
  <2> QED BY <1>2, <2>1, <2>2, <2>3
<1>8. /\ sweep' = [sweep EXCEPT ![s] = w] /\ walker' = walker /\ mounted' = mounted
      /\ Caught({})
  BY <1>2 DEF Goes
<1> QED BY <1>2, <1>6, <1>7, <1>8, TurnKeeps

\* A sweep at a place that says nothing of the tables.
LEMMA IdlyKeeps ==
  ASSUME PruneInv, NEW s \in Sweeper, NEW w \in Sweeping, track' = track, Goes(s, w),
         w.pc \in {"idle", "cap", "stat", "note", "look", "forget"}
  PROVE  PruneInv'
<1>1. Orderly(w, track, caught \cup {})
  BY DEF Orderly
<1> QED BY <1>1, TurnKeeps DEF Goes

\* Looking at the disk, and at what has been missing.
LEMMA LookingKeeps ==
  ASSUME PruneInv, NEW s \in Sweeper, StatAll(s) \/ ReadVanished(s)
  PROVE  PruneInv'
<1>1. sweep[s] \in Sweeping /\ Live(track) \subseteq DirId
  BY SweepTypes DEF Live
<1>2. CASE StatAll(s)
  <2> DEFINE gone == {i \in Live(track) : track.dir[i].path \notin mounted}
             w == [sweep[s] EXCEPT !.pc = "note", !.gone = gone]
  <2>1. gone \in SUBSET DirId
    BY <1>1
  <2>2. track' = track /\ Goes(s, w)
    BY <1>2 DEF StatAll
  <2> HIDE DEF gone
  <2>3. w \in Sweeping /\ w.pc = "note"
    BY <1>1, <2>1 DEF Sweeping
  <2> QED BY <2>2, <2>3, IdlyKeeps
<1>3. CASE ReadVanished(s)
  <2> DEFINE dirs == {i \in Live(track) : track.dir[i].missing = "long"}
             w == [sweep[s] EXCEPT !.pc = "forget", !.dirs = dirs]
  <2>1. dirs \in SUBSET DirId
    BY <1>1
  <2>2. track' = track /\ Goes(s, w)
    BY <1>3 DEF ReadVanished
  <2> HIDE DEF dirs
  <2>3. w \in Sweeping /\ w.pc = "forget"
    BY <1>1, <2>1 DEF Sweeping
  <2> QED BY <2>2, <2>3, IdlyKeeps
<1> QED BY <1>2, <1>3

\* Marking what is missing touches no run.
LEMMA NoteMissingKeeps ==
  ASSUME PruneInv, NEW s \in Sweeper, NoteMissing(s)
  PROVE  PruneInv'
<1> DEFINE marked == [i \in DirId |->
             IF i \in sweep[s].gone \cap Live(track) /\ track.dir[i].missing = "no"
             THEN [track.dir[i] EXCEPT !.missing = "noted"] ELSE track.dir[i]]
           w == [sweep[s] EXCEPT !.pc = "look", !.gone = {}]
<1>1. track \in Tables /\ caught \subseteq RunId /\ sweep[s] \in Sweeping
  BY SweepTypes
<1>2. track' = [track EXCEPT !.dir = marked] /\ Goes(s, w)
  BY DEF NoteMissing
<1>3. ASSUME NEW i \in DirId
      PROVE  marked[i] \in DirRow \cup {Nowhere} /\ (marked[i] = Nowhere <=> track.dir[i] = Nowhere)
  <2>1. track.dir[i] \in DirRow \cup {Nowhere}
    BY <1>1 DEF Tables
  <2>2. CASE i \in Live(track)
    <3>1. track.dir[i] \in DirRow
      BY <2>1, <2>2 DEF Live
    <3>2. [track.dir[i] EXCEPT !.missing = "noted"] \in DirRow
      BY <3>1 DEF DirRow
    <3> QED BY <3>1, <3>2
  <2> QED BY <2>1, <2>2
<1>4. marked \in [DirId -> DirRow \cup {Nowhere}]
  BY <1>3
<1>5. w \in Sweeping /\ w.pc = "look"
  BY <1>1 DEF Sweeping
<1> HIDE DEF marked, w
<1>6. /\ track' \in Tables /\ track'.dir = marked /\ track'.times = track.times
      /\ track'.twins = track.twins
  BY <1>1, <1>2, <1>4 DEF Tables
<1>7. Live(track') = Live(track) /\ Filed(track') = Filed(track)
  BY <1>3, <1>6 DEF Live, Filed
<1>8. /\ caught' = caught \cap (Filed(track') \cup track'.twins)
      /\ sweep' = [sweep EXCEPT ![s] = w] /\ walker' = walker /\ mounted' = mounted
  BY <1>2 DEF Goes, Caught
<1>9. Orderly(w, track', caught')
  BY <1>5 DEF Orderly
<1> QED BY <1>1, <1>5, <1>6, <1>7, <1>8, <1>9, SweepKeeps

\* A directory to forget: its rows as they are now, every other twin of it caught.
LEMMA ForgetDirectoryKeeps ==
  ASSUME PruneInv, NEW s \in Sweeper, ForgetDirectory(s)
  PROVE  PruneInv'
<1> DEFINE v == sweep[s]
<1>1. /\ track \in Tables /\ v \in Sweeping
      /\ track.twins \ caught \subseteq Filed(track)
  BY SweepTypes
<1>2. track' = track
  BY DEF ForgetDirectory
<1>3. CASE Goes(s, Swept)
  <2>1. Swept \in Sweeping /\ Swept.pc = "idle"
    BY DEF Swept, Sweeping
  <2> QED BY <1>2, <1>3, <2>1, IdlyKeeps
<1>4. ASSUME NEW i \in v.dirs,
             Goes(s, [v EXCEPT !.pc = "twins", !.then = "span", !.doomed = RunsOf(track, i),
                               !.left = RunsOf(track, i), !.dirs = @ \ {i}, !.dir = i])
      PROVE  PruneInv'
  <2> DEFINE rows == RunsOf(track, i)
             w == [v EXCEPT !.pc = "twins", !.then = "span", !.doomed = rows,
                            !.left = rows, !.dirs = v.dirs \ {i}, !.dir = i]
  <2>1. rows \in SUBSET RunId /\ i \in DirId
    BY <1>1 DEF RunsOf, Filed, Sweeping
  <2>2. Goes(s, w)
    BY <1>4
  <2>3. (Under(i) \ rows) \cap track.twins \subseteq caught
    BY <1>1 DEF Under, RunsOf
  <2> HIDE DEF rows
  <2>4. /\ w \in Sweeping /\ w.pc = "twins" /\ w.then = "span" /\ w.doomed = rows
        /\ w.left = rows /\ w.dir = i
    BY <1>1, <2>1 DEF Sweeping
  <2> HIDE DEF w
  <2>5. Orderly(w, track, caught \cup {})
    BY <2>1, <2>3, <2>4 DEF Orderly
  <2> QED BY <1>2, <2>2, <2>4, <2>5, TurnKeeps DEF Goes
<1> QED BY <1>3, <1>4 DEF ForgetDirectory

\* A directory's rows go by their span, which is read again after each.
LEMMA DropSpanKeeps ==
  ASSUME PruneInv, NEW s \in Sweeper, DropSpan(s)
  PROVE  PruneInv'
<1> DEFINE v == sweep[s]
<1>1. /\ track \in Tables /\ caught \subseteq RunId
      /\ v \in Sweeping /\ Orderly(v, track, caught)
  BY SweepTypes
<1>2. /\ v.pc = "span" /\ v.doomed = {} /\ v.dir \in DirId
      /\ v.left \subseteq Under(v.dir) /\ v.left \cap Filed(track) \subseteq caught
      /\ Under(v.dir) \cap track.twins \subseteq caught
  BY <1>1 DEF DropSpan, Orderly
<1>3. ASSUME NEW r \in RunsOf(track, v.dir), track' = Unremembered(track, {r}),
             Goes(s, [v EXCEPT !.left = {r}])
      PROVE  PruneInv'
  <2> DEFINE w == [v EXCEPT !.left = {r}]
  <2>1. r \in RunId /\ r \in Under(v.dir)
    BY DEF RunsOf, Filed, Under
  <2>2. /\ w \in Sweeping /\ w.pc = "span" /\ w.doomed = {} /\ w.dir = v.dir /\ w.left = {r}
    BY <1>1, <1>2, <2>1 DEF Sweeping
  <2>3. /\ sweep' = [sweep EXCEPT ![s] = w] /\ walker' = walker /\ mounted' = mounted
        /\ caught' = caught \cap (Filed(track') \cup track'.twins)
    BY <1>3 DEF Goes, Caught
  <2> HIDE DEF v, w
  <2>4. /\ track' \in Tables /\ Live(track') = Live(track)
        /\ Filed(track') = Filed(track) \ {r} /\ track'.twins = track.twins
    BY <1>1, <1>3, <2>1, UnrememberedIs
  <2>5. Orderly(w, track', caught)
    BY <1>2, <2>1, <2>2, <2>4 DEF Orderly
  <2>6. Orderly(w, track', caught')
    BY <2>3, <2>5, OrderlyOfTables
  <2>7. \A q \in Filed(track) \cap track'.twins : q \in Filed(track') \/ q \in caught'
    BY <1>2, <2>1, <2>3, <2>4
  <2> QED BY <1>1, <2>2, <2>3, <2>4, <2>6, <2>7, SweepKeeps
<1>4. CASE RunsOf(track, v.dir) \subseteq v.left /\ track' = track
           /\ Goes(s, [v EXCEPT !.pc = "unlist", !.left = {}])
  <2> DEFINE w == [v EXCEPT !.pc = "unlist", !.left = {}]
  <2>1. /\ w \in Sweeping /\ w.pc = "unlist" /\ w.doomed = {} /\ w.dir = v.dir
    BY <1>1, <1>2 DEF Sweeping
  <2>2. Under(v.dir) \cap Filed(track) \subseteq caught
    BY <1>2, <1>4 DEF RunsOf, Under
  <2> HIDE DEF v, w
  <2>3. Orderly(w, track, caught \cup {})
    BY <1>2, <2>1, <2>2 DEF Orderly
  <2>4. Goes(s, w) /\ track' = track
    BY <1>4 DEF w
  <2> QED BY <2>1, <2>3, <2>4, TurnKeeps DEF Goes
<1> QED BY <1>3, <1>4 DEF DropSpan

\* The directory itself: whatever is filed under it has been caught.
LEMMA UnlistKeeps ==
  ASSUME PruneInv, NEW s \in Sweeper, Unlist(s)
  PROVE  PruneInv'
<1> DEFINE v == sweep[s]
           w == [v EXCEPT !.pc = "forget", !.dir = 0]
           dir == [track.dir EXCEPT ![v.dir] = Nowhere]
<1>1. /\ track \in Tables /\ caught \subseteq RunId
      /\ v \in Sweeping /\ Orderly(v, track, caught)
  BY SweepTypes
<1>2. v.pc = "unlist" /\ Under(v.dir) \cap Filed(track) \subseteq caught
  BY <1>1 DEF Unlist, Orderly
<1>3. track' = [track EXCEPT !.dir = dir] /\ Goes(s, w)
  BY DEF Unlist
<1>4. dir \in [DirId -> DirRow \cup {Nowhere}]
      /\ \A i \in DirId \ {v.dir} : dir[i] = track.dir[i]
  BY <1>1 DEF Tables
<1>5. w \in Sweeping /\ w.pc = "forget"
  BY <1>1 DEF Sweeping
<1> HIDE DEF v, w, dir
<1>6. /\ track' \in Tables /\ track'.dir = dir /\ track'.times = track.times
      /\ track'.twins = track.twins
  BY <1>1, <1>3, <1>4 DEF Tables
<1>7. Filed(track') = Filed(track)
  BY <1>6 DEF Filed
<1>8. /\ caught' = caught \cap (Filed(track') \cup track'.twins)
      /\ sweep' = [sweep EXCEPT ![s] = w] /\ walker' = walker /\ mounted' = mounted
  BY <1>3 DEF Goes, Caught
<1>9. \A r \in Filed(track') : r[1] \in Live(track) => r[1] \in Live(track') \/ r \in caught'
  <2> TAKE r \in Filed(track')
  <2>1. CASE r[1] = v.dir
    BY <1>2, <1>7, <1>8, <2>1 DEF Under, Filed
  <2>2. CASE r[1] # v.dir
    BY <1>4, <1>6, <2>2 DEF Live
  <2> QED BY <2>1, <2>2
<1>10. Orderly(w, track', caught')
  BY <1>5 DEF Orderly
<1> QED BY <1>1, <1>5, <1>6, <1>7, <1>8, <1>9, <1>10, SweepKeeps

\* A deletion that fails, or a sweep that ends with its shell, leaves what it leaves.
LEMMA FailureKeeps ==
  ASSUME PruneInv, NEW s \in Sweeper, WriteFails(s) \/ SweepStops(s)
  PROVE  PruneInv'
<1> DEFINE v == sweep[s]
<1>1. /\ track \in Tables /\ caught \subseteq RunId
      /\ v \in Sweeping /\ Orderly(v, track, caught)
  BY SweepTypes
<1>2. CASE SweepStops(s)
  <2>1. Swept \in Sweeping /\ Swept.pc = "idle"
    BY DEF Swept, Sweeping
  <2>2. track' = track /\ Goes(s, Swept)
    BY <1>2 DEF SweepStops, Goes
  <2> QED BY <2>1, <2>2, IdlyKeeps
<1>3. CASE WriteFails(s)
  <2> DEFINE w == AfterFailure(s)
             more == InHand(s)
  <2>1. /\ v.pc \in {"note", "span", "unlist", "twins", "rows"}
        /\ sweep' = [sweep EXCEPT ![s] = w] /\ Caught(more)
        /\ track' = track /\ walker' = walker /\ mounted' = mounted
    BY <1>3 DEF WriteFails
  <2>2. more \in SUBSET RunId /\ v.doomed \subseteq more /\ Under(v.dir) \subseteq more
    BY <1>1 DEF InHand, Sweeping, Under
  <2>3. /\ w \in Sweeping /\ w.then = v.then
        /\ v.pc \in {"twins", "rows"} =>
             w.pc = v.pc /\ w.left = {} /\ w.doomed = v.doomed /\ w.dir = v.dir
        /\ v.pc = "note" => w.pc = "look"
        /\ v.pc = "span" => w.pc = "unlist" /\ w.doomed = v.doomed /\ w.dir = v.dir
        /\ v.pc = "unlist" => w.pc = "forget"
    BY <1>1, <2>1 DEF AfterFailure, Sweeping
  <2> HIDE DEF v, w, more
  <2>4. Orderly(w, track, caught \cup more)
    <3>1. CASE v.pc = "twins"
      BY <1>1, <2>2, <2>3, <3>1 DEF Orderly
    <3>2. CASE v.pc = "rows"
      BY <1>1, <2>2, <2>3, <3>2 DEF Orderly
    <3>3. CASE v.pc = "span"
      BY <1>1, <2>2, <2>3, <3>3 DEF Orderly
    <3>4. CASE v.pc \in {"note", "unlist"}
      BY <2>3, <3>4 DEF Orderly
    <3> QED BY <2>1, <3>1, <3>2, <3>3, <3>4
  <2> QED BY <2>1, <2>2, <2>3, <2>4, TurnKeeps
<1> QED BY <1>2, <1>3

LEMMA PruneInvHolds == PruneSpec => []PruneInv
<1>1. PruneInit => PruneInv
  <2> SUFFICES ASSUME PruneInit PROVE PruneInv
    OBVIOUS
  <2>1. PruneTypeOK
    BY DEF PruneInit, PruneTypeOK, Swept
  <2>2. Filed(track) = {} /\ track.twins = {}
    BY DEF PruneInit, Filed
  <2>3. \A s \in Sweeper : sweep[s].pc = "idle"
    BY DEF PruneInit, Swept
  <2> QED BY <2>1, <2>2, <2>3
          DEF PruneInv, NothingDangles, RunsHaveTheirPlace, TwinsNameRuns, Orderly
<1>2. PruneInv /\ [PruneNext]_pruneVars => PruneInv'
  <2> SUFFICES ASSUME PruneInv, [PruneNext]_pruneVars PROVE PruneInv'
    OBVIOUS
  <2>1. CASE UNCHANGED pruneVars
    BY <2>1 DEF pruneVars, PruneInv, PruneTypeOK, NothingDangles, RunsHaveTheirPlace,
                TwinsNameRuns, Orderly, Filed, Live
  <2>2. ASSUME NEW v \in Walker, Walks(v) PROVE PruneInv'
    BY <2>2, PrimeKeeps, WriteStepKeeps DEF Walks
  <2>3. ASSUME NEW s \in Sweeper, Sweeps(s) PROVE PruneInv'
    BY <2>3, ReadingKeeps, DropChunkKeeps, PassEndsKeeps, LookingKeeps, NoteMissingKeeps,
       ForgetDirectoryKeeps, DropSpanKeeps, UnlistKeeps, FailureKeeps DEF Sweeps
  <2>4. CASE ClearRuns \/ DiskChanges \/ TimePasses
    BY <2>4, WorldKeeps
  <2> QED BY <2>1, <2>2, <2>3, <2>4 DEF PruneNext
<1> QED BY <1>1, <1>2, PTL DEF PruneSpec

(***************************************************************************)
(* Wherever any number of sweeps, commands that forget and shells that     *)
(* execute are, and whatever was cut short, no run is left without its     *)
(* directory and no twin without its run, except for what was executed, or *)
(* refused to go, while somebody was deleting it.                          *)
(***************************************************************************)
THEOREM NothingDanglesHolds == PruneSpec => []NothingDangles
<1>1. PruneInv => NothingDangles
  BY DEF PruneInv
<1> QED BY <1>1, PruneInvHolds, PTL

-----------------------------------------------------------------------------
(***************************************************************************)
(* Proofs of the promises of JobTable.                                     *)
(***************************************************************************)
USE JobAssumption

TableState == [job : [JobId -> Job], current : JobId \cup {0}, previous : JobId \cup {0},
               statuses : Seq([pid : Pid, status : Code]), orphans : SUBSET Pid, live : Nat]

ShellState == [at : {"boundary", "reaping", "ready", "pipeline", "foreground", "wait",
                     "waitall", "waitnext", "answered"},
               left : SUBSET Pid, asked : SUBSET Pid, job : JobId \cup {0},
               status : Code \cup {0, NoSuchChild}, stop : BOOLEAN]

Several(S) == \E p, q \in S : p # q

\* A job, and what its number and the list of the disowned say of its processes.
JobIsSound(t, n) ==
  LET j == t.job[n] IN
  /\ j.state = "none" => j = NoJob
  /\ j.state = "completed" => j.pids = {} /\ (j.status \in j.stages \/ Several(j.stages))
  /\ j.pids \cup j.ended \subseteq j.stages
  /\ j.pids \cap j.ended = {}
  /\ j.stages \cap t.orphans = {}
  /\ \A m \in JobId \ {n} : j.stages \cap t.job[m].stages = {}

NamesSound(t) ==
  /\ {t.current, t.previous} \subseteq Present(t) \cup {0}
  /\ t.current = t.previous => t.current = 0

StatusesSound(s) ==
  \A i \in DOMAIN s : s[i].status = s[i].pid /\ \A k \in DOMAIN s : s[k].pid = s[i].pid => k = i

TableSound(t) ==
  /\ t \in TableState
  /\ \A n \in JobId : JobIsSound(t, n)
  /\ NamesSound(t)
  /\ Cardinality(ReapablePids(t)) <= t.live
  /\ StatusesSound(t.statuses)

\* The processes the table knows by a job, or as disowned.
Listed(t) == (UNION {t.job[n].stages : n \in JobId}) \cup t.orphans

(***************************************************************************)
(* What the kernel says agrees with the table.  A process that is gone and *)
(* still expected was one of several: the others stopped before the shell  *)
(* was done with them.                                                     *)
(***************************************************************************)
KernelAgrees(t, pr, sh) ==
  /\ pr \in [Pid -> ProcState]
  /\ \A p \in Listed(t) : pr[p] # "unborn"
  /\ \A p \in ReapablePids(t) : pr[p] # "kept"
  /\ \A p \in Pid :
       /\ pr[p] \in Alive \cup {"zombie"} =>
            p \in ReapablePids(t) \/ (sh.at = "pipeline" /\ p \in sh.asked)
       /\ pr[p] = "kept" <=> Recalled(t, p) # {}
  /\ \A n \in JobId : \A p \in t.job[n].pids :
       pr[p] = "gone" => Several(t.job[n].stages) \/ (sh.at = "foreground" /\ n = sh.job)

\* What holds where the shell is.
PlaceSound(t, pr, sh) ==
  /\ sh.at = "reaping" => sh.left \subseteq ReapablePids(t)
  /\ sh.at = "pipeline" =>
       /\ sh.left \subseteq sh.asked /\ sh.asked \cap Listed(t) = {} /\ NextJobId(t) \in JobId
       /\ \A p \in sh.asked : pr[p] \notin {"unborn", "kept"}
       /\ IF sh.stop THEN \E p \in sh.asked \ sh.left : pr[p] # "gone"
                     ELSE \A p \in sh.asked \ sh.left : pr[p] = "gone"
  /\ sh.at = "foreground" =>
       /\ sh.job \in JobId /\ t.job[sh.job].state = "running"
       /\ sh.left \subseteq t.job[sh.job].pids
  /\ sh.at = "wait" =>
       IF sh.status = NoSuchChild THEN \A p \in sh.asked \ sh.left : pr[p] = "gone"
                                  ELSE sh.asked = {sh.status}
  /\ sh.at = "waitnext" => \A p \in sh.asked : pr[p] \notin {"unborn", "kept"}
  /\ sh.at = "answered" =>
       IF sh.status = NoSuchChild THEN \A p \in sh.asked : pr[p] = "gone"
                                  ELSE sh.asked = {sh.status} \/ Several(sh.asked)

JobIInv ==
  /\ TableSound(table)
  /\ KernelAgrees(table, proc, shell)
  /\ shell \in ShellState /\ PlaceSound(table, proc, shell)
  /\ interactive \in BOOLEAN

-----------------------------------------------------------------------------
(* Finite sets of numbers. *)

LEMMA NumbersFinite ==
  /\ MaxPid \in Nat /\ MaxJob \in Nat /\ 0 \notin JobId /\ 0 \notin Pid /\ NoSuchChild \notin Code \cup {0}
  /\ \A S \in SUBSET Pid : IsFiniteSet(S) /\ Cardinality(S) \in Nat /\ S \subseteq Nat
  /\ \A S \in SUBSET JobId : IsFiniteSet(S) /\ S \subseteq Nat
<1>1. MaxPid \in Nat /\ MaxJob \in Nat /\ MaxPid < 127
  OBVIOUS
<1>2. IsFiniteSet(Pid) /\ IsFiniteSet(JobId)
  BY <1>1, FS_Interval DEF Pid, JobId
<1>3. \A S \in SUBSET Pid : IsFiniteSet(S) /\ Cardinality(S) \in Nat
  BY <1>2, FS_Subset, FS_CardinalityType
<1>4. \A S \in SUBSET JobId : IsFiniteSet(S)
  BY <1>2, FS_Subset
<1>5. Pid \subseteq Nat /\ JobId \subseteq Nat
  BY <1>1 DEF Pid, JobId
<1>6. 0 \notin JobId /\ 0 \notin Pid /\ NoSuchChild \notin Code \cup {0}
  BY <1>1 DEF Pid, JobId, Code, NoSuchChild
<1> QED BY <1>1, <1>3, <1>4, <1>5, <1>6

\* A finite set of numbers has a least and a greatest.
LEMMA Extremes ==
  ASSUME NEW S \in SUBSET Nat, IsFiniteSet(S), S # {}
  PROVE  (\E n \in S : \A m \in S : n <= m) /\ (\E n \in S : \A m \in S : m <= n)
<1> DEFINE above(i) == {j \in S : j > i}
           below(i) == {j \in S : j < i}
           chain == {above(i) : i \in S}
           niahc == {below(i) : i \in S}
<1>1. chain \subseteq FiniteSubsetsOf(S) /\ chain # {} /\ niahc \subseteq FiniteSubsetsOf(S) /\ niahc # {}
  <2>1. \A i \in S : /\ IsFiniteSet(above(i)) /\ above(i) \subseteq S
                     /\ IsFiniteSet(below(i)) /\ below(i) \subseteq S
    BY FS_Subset
  <2>2. \A i \in S : above(i) \in FiniteSubsetsOf(S) /\ below(i) \in FiniteSubsetsOf(S)
    BY <2>1 DEF FiniteSubsetsOf
  <2>3. chain # {} /\ niahc # {}
    OBVIOUS
  <2> QED BY <2>2, <2>3
<1>2. IsWellFoundedOn(StrictSubsetOrdering(S), FiniteSubsetsOf(S))
  BY FS_StrictSubsetOrderingWellFounded
<1>3. /\ \E least \in chain : \A other \in chain : ~ (<<other, least>> \in StrictSubsetOrdering(S))
      /\ \E least \in niahc : \A other \in niahc : ~ (<<other, least>> \in StrictSubsetOrdering(S))
  <2> HIDE DEF chain, niahc
  <2> QED BY <1>1, <1>2, WFMin
<1>4. PICK m \in S : \A i \in S : ~ (<<above(i), above(m)>> \in StrictSubsetOrdering(S))
  BY <1>3
<1>5. PICK n \in S : \A i \in S : ~ (<<below(i), below(n)>> \in StrictSubsetOrdering(S))
  BY <1>3
<1>6. ASSUME NEW i \in S PROVE i <= m
  <2> SUFFICES ASSUME i > m PROVE FALSE
    OBVIOUS
  <2>1. i \in above(m) /\ i \notin above(i) /\ \A j \in above(i) : j \in above(m)
    OBVIOUS
  <2>2. <<above(i), above(m)>> \in StrictSubsetOrdering(S)
    BY <2>1 DEF StrictSubsetOrdering
  <2> QED BY <1>4, <2>2
<1>7. ASSUME NEW i \in S PROVE n <= i
  <2> SUFFICES ASSUME i < n PROVE FALSE
    OBVIOUS
  <2>1. i \in below(n) /\ i \notin below(i) /\ \A j \in below(i) : j \in below(n)
    OBVIOUS
  <2>2. <<below(i), below(n)>> \in StrictSubsetOrdering(S)
    BY <2>1 DEF StrictSubsetOrdering
  <2> QED BY <1>5, <2>2
<1> QED BY <1>6, <1>7

LEMMA LeastIsOne ==
  ASSUME NEW S, S \in SUBSET Pid \/ S \in SUBSET JobId, S # {}
  PROVE  Least(S) \in S /\ \A m \in S : Least(S) <= m
<1>1. \E n \in S : \A m \in S : n <= m
  BY NumbersFinite, Extremes
<1> QED BY <1>1 DEF Least

\* A property of 0 that goes from each number to the next is one of all.
LEMMA UpToAllJobs ==
  ASSUME NEW S \in SUBSET (0 .. MaxJob), 0 \in S,
         \A n \in JobId : n - 1 \in S => n \in S
  PROVE  S = 0 .. MaxJob
<1> DEFINE bad == {n \in JobId : n \notin S}
<1>1. \A n \in 0 .. MaxJob : n = 0 \/ n \in JobId
  BY NumbersFinite DEF JobId
<1>2. SUFFICES ASSUME bad # {} PROVE FALSE
  BY <1>1
<1>3. Least(bad) \in bad /\ \A m \in bad : Least(bad) <= m
  BY <1>2, LeastIsOne
<1>4. PICK b \in bad : \A m \in bad : b <= m
  BY <1>3
<1>5. b \in JobId /\ b - 1 \in 0 .. MaxJob /\ ~ (b <= b - 1)
  BY NumbersFinite DEF JobId
<1>6. b - 1 \in S
  BY <1>1, <1>4, <1>5
<1> QED BY <1>4, <1>6

-----------------------------------------------------------------------------
(* What the table says of a process. *)

LEMMA TableParts ==
  ASSUME NEW t, TableSound(t)
  PROVE  /\ t.job \in [JobId -> Job] /\ t.current \in JobId \cup {0} /\ t.previous \in JobId \cup {0}
         /\ t.statuses \in Seq([pid : Pid, status : Code]) /\ t.orphans \subseteq Pid /\ t.live \in Nat
         /\ \A n \in JobId : /\ t.job[n] \in Job /\ JobIsSound(t, n)
                             /\ t.job[n].pids \subseteq Pid /\ t.job[n].stages \subseteq Pid
BY DEF TableSound, TableState, Job

\* Whoever is in a job that has not ended, or is disowned, is to be asked about.
LEMMA ReapableIs ==
  ASSUME NEW t, \A n \in JobId : JobIsSound(t, n)
  PROVE  \A p : p \in ReapablePids(t) <=> p \in t.orphans \/ \E n \in JobId : p \in t.job[n].pids
<1> TAKE p
<1>1. \A n \in JobId : t.job[n].state = "none" \/ t.job[n].state = "completed" => t.job[n].pids = {}
  BY DEF JobIsSound, NoJob
<1>2. p \in Expected(t) <=> \E n \in JobId : p \in t.job[n].pids
  BY <1>1 DEF Expected, Present, Finished
<1> QED BY <1>2 DEF ReapablePids

LEMMA ListedIs ==
  ASSUME NEW t
  PROVE  \A p : p \in Listed(t) <=> p \in t.orphans \/ \E n \in JobId : p \in t.job[n].stages
<1> TAKE p
<1>1. p \in UNION {t.job[n].stages : n \in JobId} <=> \E n \in JobId : p \in t.job[n].stages
  OBVIOUS
<1> QED BY <1>1 DEF Listed

LEMMA ReapablesCount ==
  ASSUME NEW t, TableSound(t)
  PROVE  /\ ReapablePids(t) \subseteq Pid /\ ReapablePids(t) \subseteq Listed(t) /\ Listed(t) \subseteq Pid
         /\ IsFiniteSet(ReapablePids(t))
         /\ Cardinality(ReapablePids(t)) \in Nat /\ Cardinality(ReapablePids(t)) <= t.live
<1>1. ReapablePids(t) \subseteq Listed(t) /\ Listed(t) \subseteq Pid
  <2>1. \A n \in JobId : t.job[n].pids \subseteq t.job[n].stages /\ t.job[n].stages \subseteq Pid
    BY TableParts DEF JobIsSound
  <2>2. \A p \in ReapablePids(t) : p \in t.orphans \/ \E n \in JobId : p \in t.job[n].pids
    BY ReapableIs DEF TableSound
  <2>3. t.orphans \subseteq Pid
    BY TableParts
  <2> QED BY <2>1, <2>2, <2>3, ListedIs
<1>2. ReapablePids(t) \subseteq Pid
  BY <1>1
<1> QED BY <1>1, <1>2, NumbersFinite DEF TableSound

\* A process is known by one job, if by any.
LEMMA JobOfPidIs ==
  ASSUME NEW t, TableSound(t), NEW p
  PROVE  LET n == JobOfPid(t, p) IN
         \/ /\ n = 0
            /\ \A m \in JobId : p \notin t.job[m].pids \cup t.job[m].ended
         \/ /\ n \in JobId /\ n # 0 /\ p \in t.job[n].pids \cup t.job[n].ended /\ p \in t.job[n].stages
            /\ p \notin t.orphans /\ t.job[n].state # "none"
            /\ \A m \in JobId : p \in t.job[m].pids \cup t.job[m].ended => m = n
<1>1. CASE JobsOf(t, p) = {}
  <2>1. JobOfPid(t, p) = 0
    BY <1>1 DEF JobOfPid
  <2>2. \A m \in JobId : p \notin t.job[m].pids \cup t.job[m].ended
    BY <1>1 DEF JobsOf
  <2> QED BY <2>1, <2>2
<1>2. CASE JobsOf(t, p) # {}
  <2> DEFINE n == JobOfPid(t, p)
  <2>1. n \in JobsOf(t, p)
    <3>1. JobsOf(t, p) \in SUBSET JobId
      BY DEF JobsOf
    <3> QED BY <1>2, <3>1, LeastIsOne DEF JobOfPid
  <2> HIDE DEF n
  <2>2. n \in JobId /\ p \in t.job[n].pids \cup t.job[n].ended
    BY <2>1 DEF JobsOf
  <2>3. n # 0
    BY <2>2, NumbersFinite
  <2>4. p \in t.job[n].stages /\ p \notin t.orphans /\ t.job[n].state # "none"
    BY <2>2 DEF TableSound, JobIsSound, NoJob
  <2>5. \A m \in JobId : p \in t.job[m].pids \cup t.job[m].ended => m = n
    BY <2>2, <2>4 DEF TableSound, JobIsSound
  <2> QED BY <2>2, <2>3, <2>4, <2>5 DEF n
<1> QED BY <1>1, <1>2

LEMMA JobOfExpected ==
  ASSUME NEW t, TableSound(t), NEW n \in JobId, NEW p \in t.job[n].pids
  PROVE  JobOfPid(t, p) = n /\ p \notin t.orphans
<1>1. JobIsSound(t, n) /\ p \in t.job[n].pids \cup t.job[n].ended
  BY DEF TableSound
<1> QED BY <1>1, JobOfPidIs DEF JobIsSound

\* The number the next job has is nobody's.
LEMMA NextIsFree ==
  ASSUME NEW t, TableSound(t), NextJobId(t) \in JobId
  PROVE  t.job[NextJobId(t)] = NoJob
<1> DEFINE n == NextJobId(t)
<1>1. n \notin Present(t)
  <2>1. CASE Present(t) = {}
    BY <2>1
  <2>2. CASE Present(t) # {}
    <3>1. Present(t) \subseteq JobId /\ Present(t) \subseteq Nat /\ IsFiniteSet(Present(t))
      BY NumbersFinite DEF Present
    <3>2. PICK g \in Present(t) : g = (CHOOSE h \in Present(t) : \A m \in Present(t) : m <= h)
                                  /\ \A m \in Present(t) : m <= g
      BY <2>2, <3>1, Extremes
    <3>3. n = 1 + g /\ g \in Nat
      BY <2>2, <3>1, <3>2 DEF NextJobId
    <3> QED BY <3>2, <3>3
  <2> QED BY <2>1, <2>2
<1>2. n \in JobId
  OBVIOUS
<1> HIDE DEF n
<1>3. t.job[n].state = "none"
  BY <1>1, <1>2 DEF Present
<1>4. t.job[n] = NoJob
  BY <1>2, <1>3 DEF TableSound, JobIsSound
<1> QED BY <1>4 DEF n

-----------------------------------------------------------------------------
(* What each operation does to a table. *)

\* Only what a job is doing changes, and how many children live.
LEMMA JobChanges ==
  ASSUME NEW t, TableSound(t), NEW u \in TableState, NEW n \in JobId,
         u.job = [t.job EXCEPT ![n] = u.job[n]], t.job[n].state # "none", u.job[n].state # "none",
         u.job[n].stages = t.job[n].stages,
         u.job[n].state = "completed" => u.job[n].pids = {}
           /\ (u.job[n].status \in u.job[n].stages \/ Several(u.job[n].stages)),
         u.job[n].pids \cup u.job[n].ended \subseteq u.job[n].stages,
         u.job[n].pids \cap u.job[n].ended = {},
         u.orphans = t.orphans, NamesSound(t) => NamesSound(u), StatusesSound(u.statuses),
         Cardinality(ReapablePids(u)) <= u.live
  PROVE  TableSound(u)
<1>1. \A m \in JobId : m # n => u.job[m] = t.job[m]
  BY TableParts
<1>2. ASSUME NEW m \in JobId PROVE JobIsSound(u, m)
  <2>1. JobIsSound(t, m) /\ JobIsSound(t, n)
    BY DEF TableSound
  <2>2. CASE m = n
    BY <1>1, <2>1, <2>2 DEF JobIsSound
  <2>3. CASE m # n
    BY <1>1, <2>1, <2>3 DEF JobIsSound
  <2> QED BY <2>2, <2>3
<1> QED BY <1>2 DEF TableSound

\* Which numbers mean a job is all that `%%` and `%-` depend on.
LEMMA NamesByPresence ==
  ASSUME NEW t, NEW u, NamesSound(t), u.current = t.current, u.previous = t.previous,
         \A n \in JobId : u.job[n].state = "none" <=> t.job[n].state = "none"
  PROVE  NamesSound(u)
BY DEF NamesSound, Present

LEMMA PromoteIs ==
  ASSUME NEW t \in TableState, NEW n \in JobId
  PROVE  /\ Promote(t, n) \in TableState
         /\ Promote(t, n).job = t.job /\ Promote(t, n).orphans = t.orphans
         /\ Promote(t, n).live = t.live /\ Promote(t, n).statuses = t.statuses
         /\ NamesSound(t) /\ t.job[n].state # "none" => NamesSound(Promote(t, n))
<1> DEFINE u == Promote(t, n)
<1>1. CASE t.current = n
  BY <1>1 DEF Promote
<1>2. CASE t.current # n
  <2>1. u = [t EXCEPT !.previous = t.current, !.current = n]
    BY <1>2 DEF Promote
  <2> HIDE DEF u
  <2>2. u \in TableState /\ u.job = t.job /\ u.orphans = t.orphans
        /\ u.live = t.live /\ u.statuses = t.statuses /\ u.current = n /\ u.previous = t.current
    BY <2>1 DEF TableState
  <2>3. ASSUME NamesSound(t), t.job[n].state # "none" PROVE NamesSound(u)
    BY <1>2, <2>2, <2>3 DEF NamesSound, Present
  <2> QED BY <2>2, <2>3 DEF u
<1> QED BY <1>1, <1>2

\* A job of its own for some processes nobody knows yet.
LEMMA AddJobIs ==
  ASSUME NEW t, TableSound(t), NEW ps \in SUBSET Pid, ps \cap Listed(t) = {},
         NEW state \in {"running", "stopped"}, NEW told \in BOOLEAN, NextJobId(t) \in JobId
  PROVE  LET u == AddJob(t, ps, state, told)
             n == NextJobId(t) IN
         /\ TableSound(u) /\ u.statuses = t.statuses /\ u.orphans = t.orphans
         /\ u.job = [t.job EXCEPT ![n] = u.job[n]] /\ u.job[n].pids = ps /\ u.job[n].stages = ps
         /\ \A p : /\ p \in ReapablePids(u) <=> p \in ReapablePids(t) \cup ps
                   /\ p \in Listed(u) => p \in Listed(t) \cup ps
<1> DEFINE n == NextJobId(t)
           j == [NoJob EXCEPT !.state = state, !.pids = ps, !.stages = ps, !.notified = told]
           v == [t EXCEPT !.job[n] = j, !.live = @ + Cardinality(ps)]
           u == AddJob(t, ps, state, told)
<1>1. u = Promote(v, n)
  BY DEF AddJob
<1>2. n \in JobId /\ t.job[n] = NoJob
  BY NextIsFree
<1>3. j \in Job /\ j.state = state /\ j.pids = ps /\ j.stages = ps /\ j.ended = {}
  BY DEF Job, NoJob
<1>4. t \in TableState /\ Cardinality(ps) \in Nat /\ IsFiniteSet(ps)
  BY NumbersFinite DEF TableSound
<1> HIDE DEF j, n
<1>5. v \in TableState /\ v.job = [t.job EXCEPT ![n] = j] /\ v.live = t.live + Cardinality(ps)
      /\ v.orphans = t.orphans /\ v.statuses = t.statuses
      /\ v.current = t.current /\ v.previous = t.previous
  <2>1. [t.job EXCEPT ![n] = j] \in [JobId -> Job] /\ t.live + Cardinality(ps) \in Nat
    <3>1. t.job \in [JobId -> Job] /\ t.live \in Nat
      BY TableParts
    <3>2. [t.job EXCEPT ![n] = j] \in [JobId -> Job]
      BY <1>2, <1>3, <3>1
    <3>3. t.live + Cardinality(ps) \in Nat
      BY <1>4, <3>1
    <3> QED BY <3>2, <3>3
  <2> QED BY <1>4, <2>1 DEF TableState
<1> HIDE DEF v
<1>6. v.job[n] = j /\ \A m \in JobId : m # n => v.job[m] = t.job[m]
  BY <1>2, <1>5, TableParts
<1>7. NamesSound(v) /\ v.job[n].state # "none"
  BY <1>2, <1>3, <1>5, <1>6 DEF NamesSound, Present, TableSound, NoJob
<1> HIDE DEF u
<1>8. /\ u \in TableState /\ u.job = v.job /\ u.orphans = t.orphans
      /\ u.live = v.live /\ u.statuses = t.statuses /\ NamesSound(u)
  BY <1>1, <1>2, <1>5, <1>7, PromoteIs
<1>9. ASSUME NEW m \in JobId PROVE JobIsSound(u, m)
  <2>1. JobIsSound(t, m) /\ \A p : p \in t.job[m].stages => p \in Listed(t)
    BY ListedIs DEF TableSound
  <2>2. \A k \in JobId : k # n => t.job[k].stages \cap ps = {}
    BY ListedIs
  <2>3. t.orphans \cap ps = {}
    BY ListedIs
  <2>4. CASE m = n
    BY <1>2, <1>3, <1>6, <1>8, <2>2, <2>3, <2>4 DEF JobIsSound
  <2>5. CASE m # n
    BY <1>2, <1>3, <1>6, <1>8, <2>1, <2>2, <2>5 DEF JobIsSound
  <2> QED BY <2>4, <2>5
<1>10. \A p : p \in ReapablePids(u) <=> p \in ReapablePids(t) \cup ps
  <2>1. \A p : p \in ReapablePids(u) <=> p \in t.orphans \/ \E m \in JobId : p \in v.job[m].pids
    BY <1>8, <1>9, ReapableIs
  <2>2. \A p : p \in ReapablePids(t) <=> p \in t.orphans \/ \E m \in JobId : p \in t.job[m].pids
    BY ReapableIs DEF TableSound
  <2>3. t.job[n].pids = {}
    BY <1>2 DEF NoJob
  <2> QED BY <1>2, <1>3, <1>6, <2>1, <2>2, <2>3
<1>11. \A p : p \in Listed(u) => p \in Listed(t) \cup ps
  BY <1>3, <1>6, <1>8, ListedIs
<1>12. Cardinality(ReapablePids(u)) <= u.live
  <2>1. ReapablePids(u) = ReapablePids(t) \cup ps
    BY <1>10
  <2>2. IsFiniteSet(ReapablePids(t)) /\ Cardinality(ReapablePids(t)) \in Nat
        /\ Cardinality(ReapablePids(t)) <= t.live
    BY ReapablesCount
  <2>3. /\ IsFiniteSet(ReapablePids(t) \cap ps) /\ Cardinality(ReapablePids(t) \cap ps) \in Nat
    BY <1>4, <2>2, FS_Subset, FS_CardinalityType
  <2>4. Cardinality(ReapablePids(t) \cup ps) =
          Cardinality(ReapablePids(t)) + Cardinality(ps) - Cardinality(ReapablePids(t) \cap ps)
    BY <1>4, <2>2, FS_Union
  <2>5. t.live \in Nat
    BY TableParts
  <2> QED BY <1>4, <1>5, <1>8, <2>1, <2>2, <2>3, <2>4, <2>5
<1>13. TableSound(u)
  BY <1>8, <1>9, <1>12 DEF TableSound
<1> QED BY <1>3, <1>5, <1>6, <1>8, <1>10, <1>11, <1>13 DEF n, u

\* A job leaves, and whom it still expects is disowned.
LEMMA RemoveJobIs ==
  ASSUME NEW t, TableSound(t), NEW n \in JobId
  PROVE  LET u == RemoveJob(t, n) IN
         /\ TableSound(u) /\ u.statuses = t.statuses
         /\ u.job = [t.job EXCEPT ![n] = NoJob]
         /\ u.orphans \subseteq t.orphans \cup t.job[n].pids
         /\ \A p : /\ p \in ReapablePids(u) <=> p \in ReapablePids(t)
                   /\ p \in Listed(u) => p \in Listed(t)
<1> DEFINE u == RemoveJob(t, n)
           orphans == IF t.job[n].state = "completed" THEN t.orphans ELSE t.orphans \cup t.job[n].pids
<1>1. t \in TableState /\ NoJob \in Job /\ orphans \in SUBSET Pid
  BY TableParts DEF TableSound, Job, NoJob
<1>2. /\ (IF t.current = n THEN t.previous ELSE t.current) \in JobId \cup {0}
      /\ (IF n \in {t.current, t.previous} THEN 0 ELSE t.previous) \in JobId \cup {0}
  BY TableParts
<1>3. /\ u \in TableState /\ u.job = [t.job EXCEPT ![n] = NoJob] /\ u.live = t.live
      /\ u.statuses = t.statuses /\ u.orphans = orphans
      /\ u.current = (IF t.current = n THEN t.previous ELSE t.current)
      /\ u.previous = (IF n \in {t.current, t.previous} THEN 0 ELSE t.previous)
  BY <1>1, <1>2 DEF RemoveJob, TableState
<1> HIDE DEF u
<1>4. u.job[n] = NoJob /\ \A m \in JobId : m # n => u.job[m] = t.job[m]
  BY <1>3, TableParts
<1>5. \A p : p \in orphans <=> p \in t.orphans \cup t.job[n].pids
  BY DEF TableSound, JobIsSound
<1> HIDE DEF orphans
<1>6. ASSUME NEW m \in JobId PROVE JobIsSound(u, m)
  <2>1. JobIsSound(t, m) /\ JobIsSound(t, n)
    BY DEF TableSound
  <2>2. CASE m = n
    BY <1>4, <2>2 DEF JobIsSound, NoJob
  <2>3. CASE m # n
    <3>1. t.job[m].stages \cap (t.orphans \cup t.job[n].pids) = {}
      BY <2>1, <2>3 DEF JobIsSound
    <3>2. \A k \in JobId : u.job[k].stages \subseteq t.job[k].stages
      BY <1>4 DEF NoJob
    <3> QED BY <1>3, <1>4, <1>5, <2>1, <2>3, <3>1, <3>2 DEF JobIsSound
  <2> QED BY <2>2, <2>3
<1>7. \A p : p \in ReapablePids(u) <=> p \in ReapablePids(t)
  <2>1. \A p : p \in ReapablePids(u) <=> p \in orphans \/ \E m \in JobId : p \in u.job[m].pids
    BY <1>3, <1>6, ReapableIs
  <2>2. \A p : p \in ReapablePids(t) <=> p \in t.orphans \/ \E m \in JobId : p \in t.job[m].pids
    BY ReapableIs DEF TableSound
  <2>3. u.job[n].pids = {}
    BY <1>4 DEF NoJob
  <2> QED BY <1>4, <1>5, <2>1, <2>2, <2>3
<1>8. \A p : p \in Listed(u) => p \in Listed(t)
  <2>1. \A m \in JobId : u.job[m].stages \subseteq t.job[m].stages
    BY <1>4 DEF NoJob
  <2>2. t.job[n].pids \subseteq t.job[n].stages
    BY DEF TableSound, JobIsSound
  <2> QED BY <1>3, <1>5, <2>1, <2>2, ListedIs
<1>9. NamesSound(u)
  <2>1. NamesSound(t) /\ 0 \notin JobId
    BY NumbersFinite DEF TableSound
  <2>2. \A m : m \in Present(u) <=> m \in Present(t) /\ m # n
    BY <1>4 DEF Present, NoJob
  <2>3. CASE t.current = n
    BY <1>3, <2>1, <2>2, <2>3 DEF NamesSound
  <2>4. CASE t.current # n /\ t.previous = n
    BY <1>3, <2>1, <2>2, <2>4 DEF NamesSound
  <2>5. CASE t.current # n /\ t.previous # n
    BY <1>3, <2>1, <2>2, <2>5 DEF NamesSound
  <2> QED BY <2>3, <2>4, <2>5
<1>10. Cardinality(ReapablePids(u)) <= u.live
  <2>1. ReapablePids(u) = ReapablePids(t)
    BY <1>7
  <2> QED BY <1>3, <2>1 DEF TableSound
<1>11. TableSound(u)
  BY <1>3, <1>6, <1>9, <1>10 DEF TableSound
<1> QED BY <1>3, <1>5, <1>7, <1>8, <1>11 DEF u

(***************************************************************************)
(* What is expected, listed and said of processes.  Nothing of it changes, *)
(* or nothing but that p is not expected by a job any more.                *)
(***************************************************************************)
SamePids(t, u) ==
  /\ u.statuses = t.statuses
  /\ \A p : (p \in ReapablePids(u) <=> p \in ReapablePids(t)) /\ (p \in Listed(u) => p \in Listed(t))
  /\ \A n \in JobId : u.job[n].pids = t.job[n].pids /\ u.job[n].stages = t.job[n].stages

LessOf(t, u, p) ==
  /\ \A q : /\ q \in ReapablePids(u) => q \in ReapablePids(t)
            /\ q \in ReapablePids(t) => q = p \/ q \in ReapablePids(u)
            /\ q \in Listed(u) => q \in Listed(t)
  /\ \A n \in JobId : /\ p \notin u.job[n].pids /\ u.job[n].pids \subseteq t.job[n].pids
                      /\ u.job[n].pids # {} => u.job[n].stages = t.job[n].stages

\* A job is marked as running, as stopped, or as told of.
LEMMA MarkedIs ==
  ASSUME NEW t, TableSound(t), NEW u \in TableState, NEW n \in JobId,
         u.job = [t.job EXCEPT ![n] = u.job[n]], t.job[n].state # "none",
         \/ u.job[n].state \in {"running", "stopped"}
         \/ u.job[n].state = t.job[n].state /\ u.job[n].status = t.job[n].status,
         u.job[n].pids = t.job[n].pids, u.job[n].stages = t.job[n].stages,
         u.job[n].ended = t.job[n].ended, u.orphans = t.orphans, u.live = t.live,
         u.statuses = t.statuses, NamesSound(t) => NamesSound(u)
  PROVE  TableSound(u) /\ SamePids(t, u)
<1>1. \A m \in JobId : /\ u.job[m].pids = t.job[m].pids /\ u.job[m].stages = t.job[m].stages
                       /\ m # n => u.job[m] = t.job[m]
  BY TableParts
<1>2. JobIsSound(t, n) /\ u.job[n].state # "none"
  BY DEF TableSound
<1>3. ASSUME NEW m \in JobId PROVE JobIsSound(u, m)
  <2>1. JobIsSound(t, m)
    BY DEF TableSound
  <2>2. CASE m = n
    BY <1>1, <1>2, <2>2 DEF JobIsSound
  <2>3. CASE m # n
    BY <1>1, <2>1, <2>3 DEF JobIsSound
  <2> QED BY <2>2, <2>3
<1>4. \A p : p \in ReapablePids(u) <=> p \in ReapablePids(t)
  <2>1. \A p : p \in ReapablePids(u) <=> p \in u.orphans \/ \E m \in JobId : p \in u.job[m].pids
    BY <1>3, ReapableIs
  <2>2. \A p : p \in ReapablePids(t) <=> p \in t.orphans \/ \E m \in JobId : p \in t.job[m].pids
    BY ReapableIs DEF TableSound
  <2> QED BY <1>1, <2>1, <2>2
<1>5. \A p : p \in Listed(u) => p \in Listed(t)
  BY <1>1, ListedIs
<1>6. Cardinality(ReapablePids(u)) <= u.live
  <2>1. ReapablePids(u) = ReapablePids(t)
    BY <1>4
  <2> QED BY <2>1 DEF TableSound
<1>7. TableSound(u)
  BY <1>3, <1>6 DEF TableSound
<1> QED BY <1>1, <1>4, <1>5, <1>7 DEF SamePids

LEMMA StoppedIs ==
  ASSUME NEW t, TableSound(t), NEW p \in ReapablePids(t)
  PROVE  /\ TableSound(Stopped(t, p)) /\ SamePids(t, Stopped(t, p))
         /\ TableSound(Continued(t, p)) /\ SamePids(t, Continued(t, p))
<1> DEFINE n == JobOfPid(t, p)
<1>1. CASE n = 0
  BY <1>1 DEF Stopped, Continued, SamePids
<1>2. CASE n # 0
  <2>1. n \in JobId /\ t.job[n].state # "none"
    BY <1>2, JobOfPidIs
  <2> HIDE DEF n
  <2>2. t \in TableState /\ t.job[n] \in Job
    BY <2>1 DEF TableSound, TableState
  <2>3. TableSound(Continued(t, p)) /\ SamePids(t, Continued(t, p))
    <3> DEFINE u == [t EXCEPT !.job[n].state = "running"]
    <3>1. u \in TableState
      BY <2>1, <2>2 DEF TableState, Job
    <3>2. /\ u.job = [t.job EXCEPT ![n] = u.job[n]] /\ u.job[n] = [t.job[n] EXCEPT !.state = "running"]
          /\ u.orphans = t.orphans /\ u.live = t.live /\ u.statuses = t.statuses
          /\ u.current = t.current /\ u.previous = t.previous
      BY <2>1, <2>2 DEF TableState
    <3> HIDE DEF u
    <3>3. u.job[n].state = "running" /\ u.job[n].pids = t.job[n].pids
          /\ u.job[n].stages = t.job[n].stages /\ u.job[n].ended = t.job[n].ended
      BY <2>2, <3>2 DEF Job
    <3>4. NamesSound(t) => NamesSound(u)
      <4>1. \A m \in JobId : u.job[m].state = "none" <=> t.job[m].state = "none"
        BY <2>1, <3>2, <3>3, TableParts
      <4> QED BY <3>2, <4>1, NamesByPresence
    <3>5. TableSound(u) /\ SamePids(t, u)
      BY <2>1, <3>1, <3>2, <3>3, <3>4, MarkedIs
    <3> QED BY <1>2, <3>5 DEF Continued, n, u
  <2>4. TableSound(Stopped(t, p)) /\ SamePids(t, Stopped(t, p))
    <3> DEFINE v == Promote(t, n)
               u == [v EXCEPT !.job[n].state = "stopped", !.job[n].notified = FALSE]
    <3>1. /\ v \in TableState /\ v.job = t.job /\ v.orphans = t.orphans /\ v.live = t.live
          /\ v.statuses = t.statuses /\ NamesSound(v)
      BY <2>1, <2>2, PromoteIs DEF TableSound
    <3> HIDE DEF v
    <3>2. u \in TableState
      <4>1. v.job[n] = t.job[n] /\ t.job[n] \in Job
        BY <2>1, <2>2, <3>1 DEF TableState
      <4>2. [v.job[n] EXCEPT !.state = "stopped", !.notified = FALSE] \in Job
        BY <4>1 DEF Job
      <4>3. u = [v EXCEPT !.job = [v.job EXCEPT ![n] = [v.job[n] EXCEPT !.state = "stopped",
                                                                      !.notified = FALSE]]]
        BY <2>1, <2>2, <3>1, <4>1 DEF TableState, Job
      <4>4. [v.job EXCEPT ![n] = [v.job[n] EXCEPT !.state = "stopped", !.notified = FALSE]]
              \in [JobId -> Job]
        BY <3>1, <4>2 DEF TableState
      <4> HIDE DEF u
      <4> QED BY <3>1, <4>3, <4>4 DEF TableState
    <3>3. /\ u.job = [t.job EXCEPT ![n] = u.job[n]]
          /\ u.job[n] = [t.job[n] EXCEPT !.state = "stopped", !.notified = FALSE]
          /\ u.orphans = t.orphans /\ u.live = t.live /\ u.statuses = t.statuses
          /\ u.current = v.current /\ u.previous = v.previous
      BY <2>1, <2>2, <3>1 DEF TableState, Job
    <3>4. Stopped(t, p) = u
      BY <1>2 DEF Stopped, n, v
    <3> HIDE DEF u
    <3>5. u.job[n].state = "stopped" /\ u.job[n].pids = t.job[n].pids
          /\ u.job[n].stages = t.job[n].stages /\ u.job[n].ended = t.job[n].ended
      BY <2>2, <3>3 DEF Job
    <3>6. NamesSound(u)
      <4>1. \A m \in JobId : u.job[m].state = "none" <=> t.job[m].state = "none"
        BY <2>1, <3>3, <3>5, TableParts
      <4> QED BY <3>1, <3>3, <4>1, NamesByPresence
    <3> QED BY <2>1, <3>2, <3>3, <3>4, <3>5, <3>6, MarkedIs
  <2> QED BY <2>3, <2>4
<1> QED BY <1>1, <1>2

-----------------------------------------------------------------------------
(* The statuses that are remembered. *)

Entry == [pid : Pid, status : Code]

Held(s) == {s[i].pid : i \in DOMAIN s}

LEMMA RecalledIs ==
  ASSUME NEW t, StatusesSound(t.statuses), NEW p
  PROVE  /\ Recalled(t, p) # {} <=> p \in Held(t.statuses)
         /\ \A c \in Recalled(t, p) : c = p
BY DEF Recalled, Held, StatusesSound

LEMMA OthersIs ==
  ASSUME NEW s \in Seq(Entry), StatusesSound(s), NEW p
  PROVE  /\ Others(s, p) \in Seq(Entry) /\ StatusesSound(Others(s, p))
         /\ \A q : q \in Held(Others(s, p)) <=> q \in Held(s) /\ q # p
<1>1. CASE \A i \in DOMAIN s : s[i].pid # p
  BY <1>1 DEF Others, Held
<1>2. CASE ~ \A i \in DOMAIN s : s[i].pid # p
  <2> DEFINE at == CHOOSE i \in DOMAIN s : s[i].pid = p
             n == Len(s)
             r == [k \in 1 .. n - 1 |-> s[IF k < at THEN k ELSE k + 1]]
  <2>1. Others(s, p) = r
    BY <1>2 DEF Others
  <2>2. at \in DOMAIN s /\ s[at].pid = p
    BY <1>2
  <2>3. n \in Nat /\ DOMAIN s = 1 .. n /\ \A i \in 1 .. n : s[i] \in Entry
    OBVIOUS
  <2> HIDE DEF at, n
  <2>4. \A k \in 1 .. n - 1 : (IF k < at THEN k ELSE k + 1) \in 1 .. n
                              /\ (IF k < at THEN k ELSE k + 1) # at
    BY <2>2, <2>3
  <2>5. DOMAIN r = 1 .. n - 1 /\ \A k \in 1 .. n - 1 : r[k] = s[IF k < at THEN k ELSE k + 1]
    OBVIOUS
  <2>6. r \in Seq(Entry)
    <3>1. n - 1 \in Nat
      BY <2>2, <2>3
    <3>2. \A k \in 1 .. n - 1 : s[IF k < at THEN k ELSE k + 1] \in Entry
      BY <2>3, <2>4
    <3> QED BY <3>1, <3>2, SeqDef
  <2> HIDE DEF r
  <2>7. StatusesSound(r)
    <3> SUFFICES ASSUME NEW i \in 1 .. n - 1
                 PROVE  /\ r[i].status = r[i].pid
                        /\ \A k \in 1 .. n - 1 : r[k].pid = r[i].pid => k = i
      BY <2>5 DEF StatusesSound
    <3> DEFINE place(k) == IF k < at THEN k ELSE k + 1
    <3>1. place(i) \in DOMAIN s /\ \A k \in 1 .. n - 1 : place(k) \in DOMAIN s
      BY <2>3, <2>4
    <3>2. \A k \in 1 .. n - 1 : place(k) = place(i) => k = i
      BY <2>2, <2>3
    <3>3. \A k \in 1 .. n - 1 : r[k] = s[place(k)]
      BY <2>5
    <3> HIDE DEF place
    <3> QED BY <3>1, <3>2, <3>3 DEF StatusesSound
  <2>8. ASSUME NEW q PROVE q \in Held(r) <=> q \in Held(s) /\ q # p
    <3>1. ASSUME NEW k \in 1 .. n - 1 PROVE r[k].pid \in Held(s) /\ r[k].pid # p
      <4> DEFINE i == IF k < at THEN k ELSE k + 1
      <4>1. i \in DOMAIN s /\ i # at /\ r[k] = s[i]
        BY <2>3, <2>4, <2>5
      <4> HIDE DEF i
      <4> QED BY <2>2, <4>1 DEF StatusesSound, Held
    <3>2. ASSUME NEW i \in DOMAIN s, s[i].pid # p PROVE s[i].pid \in Held(r)
      <4> DEFINE k == IF i < at THEN i ELSE i - 1
      <4>1. i # at
        BY <2>2, <3>2
      <4>2. k \in 1 .. n - 1 /\ (IF k < at THEN k ELSE k + 1) = i
        BY <2>2, <2>3, <4>1
      <4> HIDE DEF k
      <4>3. r[k] = s[i] /\ k \in DOMAIN r
        BY <2>5, <4>2
      <4> QED BY <4>3 DEF Held
    <3> QED BY <2>5, <3>1, <3>2 DEF Held
  <2> QED BY <2>1, <2>6, <2>7, <2>8
<1> QED BY <1>1, <1>2

LEMMA TailForgets ==
  ASSUME NEW s \in Seq(Entry), StatusesSound(s), Len(s) > 1
  PROVE  /\ Tail(s) \in Seq(Entry) /\ StatusesSound(Tail(s))
         /\ \A q \in Held(Tail(s)) : q \in Held(s)
         /\ s[Len(s)].pid \in Held(Tail(s))
<1>1. /\ Tail(s) \in Seq(Entry) /\ Len(Tail(s)) = Len(s) - 1
      /\ \A i \in 1 .. Len(s) - 1 : Tail(s)[i] = s[i + 1]
  <2>1. s # << >>
    OBVIOUS
  <2> QED BY <2>1, HeadTailProperties
<1>2. DOMAIN Tail(s) = 1 .. Len(s) - 1 /\ DOMAIN s = 1 .. Len(s) /\ Len(s) \in Nat
  BY <1>1
<1>3. StatusesSound(Tail(s))
  <2> SUFFICES ASSUME NEW i \in 1 .. Len(s) - 1
               PROVE  /\ Tail(s)[i].status = Tail(s)[i].pid
                      /\ \A k \in 1 .. Len(s) - 1 : Tail(s)[k].pid = Tail(s)[i].pid => k = i
    BY <1>2 DEF StatusesSound
  <2>1. i + 1 \in DOMAIN s /\ \A k \in 1 .. Len(s) - 1 : k + 1 \in DOMAIN s /\ (k + 1 = i + 1 => k = i)
    BY <1>2
  <2>2. s[i + 1].status = s[i + 1].pid /\ \A k \in DOMAIN s : s[k].pid = s[i + 1].pid => k = i + 1
    BY <2>1 DEF StatusesSound
  <2> QED BY <1>1, <2>1, <2>2
<1>4. \A q \in Held(Tail(s)) : q \in Held(s)
  <2>1. \A i \in 1 .. Len(s) - 1 : i + 1 \in DOMAIN s
    BY <1>2
  <2> QED BY <1>1, <1>2, <2>1 DEF Held
<1>5. s[Len(s)].pid \in Held(Tail(s))
  <2>1. Len(s) - 1 \in 1 .. Len(s) - 1 /\ (Len(s) - 1) + 1 = Len(s)
    BY <1>2
  <2>2. Tail(s)[Len(s) - 1] = s[Len(s)]
    BY <1>1, <2>1
  <2> QED BY <1>2, <2>1, <2>2 DEF Held
<1> QED BY <1>1, <1>3, <1>4, <1>5

LEMMA AppendRemembers ==
  ASSUME NEW s \in Seq(Entry), StatusesSound(s), NEW p \in Pid, p \notin Held(s)
  PROVE  LET a == Append(s, [pid |-> p, status |-> p]) IN
         /\ a \in Seq(Entry) /\ StatusesSound(a) /\ Len(a) = Len(s) + 1 /\ Len(s) \in Nat
         /\ a[Len(a)].pid = p /\ \A q : q \in Held(a) <=> q \in Held(s) \cup {p}
<1> DEFINE e == [pid |-> p, status |-> p]
           a == Append(s, e)
<1>1. e \in Entry /\ e.pid = p /\ e.status = p
  BY DEF Entry, Code
<1> HIDE DEF e
<1>2. /\ a \in Seq(Entry) /\ Len(a) = Len(s) + 1 /\ Len(s) \in Nat /\ a[Len(s) + 1] = e
      /\ \A i \in 1 .. Len(s) : a[i] = s[i]
  BY <1>1, AppendProperties
<1>3. DOMAIN a = 1 .. Len(s) + 1 /\ DOMAIN s = 1 .. Len(s)
  BY <1>2
<1> HIDE DEF a
<1>4. \A i \in 1 .. Len(s) + 1 : i \in 1 .. Len(s) \/ i = Len(s) + 1
  BY <1>2
<1>5. \A i \in 1 .. Len(s) : s[i].pid # p
  BY <1>3 DEF Held
<1>6. StatusesSound(a)
  <2> SUFFICES ASSUME NEW i \in 1 .. Len(s) + 1
               PROVE  a[i].status = a[i].pid /\ \A k \in 1 .. Len(s) + 1 : a[k].pid = a[i].pid => k = i
    BY <1>3 DEF StatusesSound
  <2>1. CASE i = Len(s) + 1
    BY <1>1, <1>2, <1>4, <1>5, <2>1
  <2>2. CASE i \in 1 .. Len(s)
    <3>1. a[i] = s[i] /\ s[i].status = s[i].pid /\ s[i].pid # p
          /\ \A k \in 1 .. Len(s) : s[k].pid = s[i].pid => k = i
      BY <1>2, <1>3, <1>5, <2>2 DEF StatusesSound
    <3> QED BY <1>1, <1>2, <1>4, <3>1
  <2> QED BY <1>4, <2>1, <2>2
<1>7. \A q : q \in Held(a) <=> q \in Held(s) \cup {p}
  <2>1. \A q : q \in Held(a) <=> \E i \in 1 .. Len(s) + 1 : a[i].pid = q
    BY <1>3 DEF Held
  <2>2. \A q : q \in Held(s) <=> \E i \in 1 .. Len(s) : s[i].pid = q
    BY <1>3 DEF Held
  <2>3. Len(s) + 1 \in 1 .. Len(s) + 1 /\ \A i \in 1 .. Len(s) : i \in 1 .. Len(s) + 1
    BY <1>2
  <2> QED BY <1>1, <1>2, <1>4, <2>1, <2>2, <2>3
<1> QED BY <1>1, <1>2, <1>6, <1>7 DEF a, e

\* A newer status takes the place of an older one, and of the oldest.
LEMMA RememberStatusIs ==
  ASSUME NEW t \in TableState, StatusesSound(t.statuses), NEW p \in Pid
  PROVE  LET u == RememberStatus(t, p, p) IN
         /\ u \in TableState /\ StatusesSound(u.statuses)
         /\ u.job = t.job /\ u.current = t.current /\ u.previous = t.previous
         /\ u.orphans = t.orphans /\ u.live = t.live
         /\ p \in Held(u.statuses) /\ \A q \in Held(u.statuses) : q \in Held(t.statuses) \cup {p}
<1> DEFINE o == Others(t.statuses, p)
           a == Append(o, [pid |-> p, status |-> p])
           s == IF Len(a) > Remembered THEN Tail(a) ELSE a
           u == RememberStatus(t, p, p)
<1>1. t.statuses \in Seq(Entry)
  BY DEF TableState, Entry
<1>2. o \in Seq(Entry) /\ StatusesSound(o) /\ \A q : q \in Held(o) <=> q \in Held(t.statuses) /\ q # p
  BY <1>1, OthersIs
<1> HIDE DEF o
<1>3. /\ a \in Seq(Entry) /\ StatusesSound(a) /\ Len(a) = Len(o) + 1 /\ Len(o) \in Nat
      /\ a[Len(a)].pid = p /\ \A q : q \in Held(a) <=> q \in Held(o) \cup {p}
  BY <1>2, AppendRemembers
<1>4. u = [t EXCEPT !.statuses = s]
  BY DEF RememberStatus, o
<1> HIDE DEF a
<1>5. /\ s \in Seq(Entry) /\ StatusesSound(s) /\ p \in Held(s)
      /\ \A q \in Held(s) : q \in Held(a)
  <2>1. CASE Len(a) > Remembered
    <3>1. Len(a) > 1
      BY <1>3, <2>1
    <3> QED BY <1>3, <2>1, <3>1, TailForgets
  <2>2. CASE ~ (Len(a) > Remembered)
    BY <1>3, <2>2
  <2> QED BY <2>1, <2>2
<1> HIDE DEF s, u
<1>6. u \in TableState /\ u.statuses = s /\ u.job = t.job /\ u.current = t.current
      /\ u.previous = t.previous /\ u.orphans = t.orphans /\ u.live = t.live
  BY <1>4, <1>5 DEF TableState, Entry
<1> QED BY <1>2, <1>3, <1>5, <1>6 DEF u

-----------------------------------------------------------------------------
(* A process that is no longer expected. *)

LEMMA GoneIs ==
  ASSUME NEW j \in Job, NEW p \in j.pids, NEW c \in Code \cup {0},
         j.state \notin {"none", "completed"}, j.pids \cup j.ended \subseteq j.stages,
         j.pids \cap j.ended = {}, c \in j.stages \/ Several(j.stages)
  PROVE  LET g == Gone(j, p, c) IN
         /\ g \in Job /\ g.state # "none" /\ g.stages = j.stages /\ g.pids = j.pids \ {p}
         /\ g.ended = j.ended \cup {p}
         /\ g.state = "completed" => g.pids = {} /\ (g.status \in g.stages \/ Several(g.stages))
<1> DEFINE less == [j EXCEPT !.pids = @ \ {p}, !.ended = @ \cup {p}]
           over == [less EXCEPT !.state = "completed", !.status = c, !.notified = FALSE]
<1>1. /\ less \in Job /\ less.state = j.state /\ less.stages = j.stages /\ less.pids = j.pids \ {p}
      /\ less.ended = j.ended \cup {p}
  BY DEF Job
<1> HIDE DEF less
<1>2. /\ over \in Job /\ over.state = "completed" /\ over.stages = less.stages /\ over.status = c
      /\ over.pids = less.pids /\ over.ended = less.ended
  BY <1>1 DEF Job
<1> HIDE DEF over
<1>3. Gone(j, p, c) = IF less.pids # {} THEN less ELSE over
  BY DEF Gone, less, over
<1>4. CASE less.pids # {}
  BY <1>1, <1>3, <1>4
<1>5. CASE less.pids = {}
  BY <1>1, <1>2, <1>3, <1>5
<1> QED BY <1>4, <1>5

LEMMA UncountIs ==
  ASSUME NEW t \in TableState
  PROVE  LET u == Uncount(t) IN
         /\ u \in TableState /\ u.job = t.job /\ u.orphans = t.orphans /\ u.statuses = t.statuses
         /\ u.current = t.current /\ u.previous = t.previous
         /\ t.live > 0 => u.live = t.live - 1
<1> DEFINE l == IF t.live = 0 THEN 0 ELSE t.live - 1
<1>1. l \in Nat /\ (t.live > 0 => l = t.live - 1)
  BY DEF TableState
<1>2. Uncount(t) = [t EXCEPT !.live = l]
  BY DEF Uncount, TableState
<1> HIDE DEF l
<1> QED BY <1>1, <1>2 DEF TableState

\* Counting one child less is right when one less is expected.
LEMMA OneLess ==
  ASSUME NEW t, TableSound(t), NEW p \in ReapablePids(t), NEW S,
         \A q : q \in S <=> q \in ReapablePids(t) /\ q # p
  PROVE  t.live > 0 /\ Cardinality(S) <= t.live - 1
<1>1. S = ReapablePids(t) \ {p}
  OBVIOUS
<1>2. /\ IsFiniteSet(ReapablePids(t)) /\ Cardinality(ReapablePids(t)) \in Nat
      /\ Cardinality(ReapablePids(t)) <= t.live
  BY ReapablesCount
<1>3. Cardinality(S) = Cardinality(ReapablePids(t)) - 1 /\ Cardinality(S) \in Nat
  BY <1>1, <1>2, FS_RemoveElement, FS_CardinalityType
<1>4. t.live \in Nat
  BY TableParts
<1> QED BY <1>2, <1>3, <1>4

\* Somebody disowned is buried.
LEMMA OrphanBuried ==
  ASSUME NEW t, TableSound(t), NEW p \in t.orphans
  PROVE  LET u == [Uncount(t) EXCEPT !.orphans = @ \ {p}] IN
         /\ TableSound(u) /\ LessOf(t, u, p) /\ u.statuses = t.statuses /\ p \notin ReapablePids(u)
<1> DEFINE v == Uncount(t)
           u == [v EXCEPT !.orphans = @ \ {p}]
<1>1. t \in TableState
  BY DEF TableSound
<1>2. /\ v \in TableState /\ v.job = t.job /\ v.orphans = t.orphans /\ v.statuses = t.statuses
      /\ v.current = t.current /\ v.previous = t.previous
      /\ t.live > 0 => v.live = t.live - 1
  BY <1>1, UncountIs
<1> HIDE DEF v
<1>3. /\ u \in TableState /\ u.job = t.job /\ u.orphans = t.orphans \ {p} /\ u.live = v.live
      /\ u.statuses = t.statuses /\ u.current = t.current /\ u.previous = t.previous
  BY <1>2 DEF TableState
<1> HIDE DEF u
<1>4. ASSUME NEW m \in JobId PROVE JobIsSound(u, m) /\ p \notin t.job[m].pids
  <2>1. JobIsSound(t, m)
    BY DEF TableSound
  <2> QED BY <1>3, <2>1 DEF JobIsSound
<1>5. \A q : q \in ReapablePids(u) <=> q \in ReapablePids(t) /\ q # p
  <2>1. \A q : q \in ReapablePids(u) <=> q \in u.orphans \/ \E m \in JobId : q \in u.job[m].pids
    BY <1>4, ReapableIs
  <2>2. \A q : q \in ReapablePids(t) <=> q \in t.orphans \/ \E m \in JobId : q \in t.job[m].pids
    BY ReapableIs DEF TableSound
  <2> QED BY <1>3, <1>4, <2>1, <2>2
<1>6. p \in ReapablePids(t)
  BY DEF ReapablePids
<1>7. Cardinality(ReapablePids(u)) <= u.live
  BY <1>2, <1>3, <1>5, <1>6, OneLess
<1>8. NamesSound(u)
  BY <1>3, NamesByPresence DEF TableSound
<1>9. TableSound(u)
  BY <1>3, <1>4, <1>7, <1>8 DEF TableSound
<1>10. \A q \in Listed(u) : q \in Listed(t)
  BY <1>3, ListedIs
<1>11. LessOf(t, u, p)
  BY <1>3, <1>4, <1>5, <1>10 DEF LessOf
<1> QED BY <1>3, <1>5, <1>9, <1>11 DEF u, v

\* A job has one process less, and one child less is alive.
LEMMA JobsChildBuried ==
  ASSUME NEW t, TableSound(t), NEW n \in JobId, NEW p \in t.job[n].pids, NEW c \in Code \cup {0},
         c = p \/ Several(t.job[n].stages),
         NEW v \in TableState, v.job = t.job, v.orphans = t.orphans, v.current = t.current,
         v.previous = t.previous, t.live > 0 => v.live = t.live - 1, StatusesSound(v.statuses)
  PROVE  LET u == [v EXCEPT !.job[n] = Gone(@, p, c)] IN
         /\ TableSound(u) /\ LessOf(t, u, p) /\ u.statuses = v.statuses /\ p \notin ReapablePids(u)
<1> DEFINE j == t.job[n]
           g == Gone(j, p, c)
           u == [v EXCEPT !.job[n] = Gone(@, p, c)]
<1>1. /\ j \in Job /\ JobIsSound(t, n) /\ v.job \in [JobId -> Job] /\ v.job[n] = j
      /\ j.state \notin {"none", "completed"} /\ j.pids \cup j.ended \subseteq j.stages
      /\ j.pids \cap j.ended = {} /\ p \in j.stages
  <2>1. j \in Job /\ JobIsSound(t, n) /\ t.job \in [JobId -> Job]
    BY TableParts
  <2> QED BY <2>1 DEF JobIsSound, NoJob
<1>2. /\ g \in Job /\ g.state # "none" /\ g.stages = j.stages /\ g.pids = j.pids \ {p}
      /\ g.ended = j.ended \cup {p}
      /\ g.state = "completed" => g.pids = {} /\ (g.status \in g.stages \/ Several(g.stages))
  BY <1>1, GoneIs
<1>3. u = [v EXCEPT !.job = [t.job EXCEPT ![n] = g]]
  BY <1>1 DEF TableState
<1> HIDE DEF u, g
<1>4. /\ u \in TableState /\ u.job = [t.job EXCEPT ![n] = g] /\ u.orphans = t.orphans /\ u.live = v.live
      /\ u.statuses = v.statuses /\ u.current = t.current /\ u.previous = t.previous
  <2>1. [t.job EXCEPT ![n] = g] \in [JobId -> Job]
    BY <1>1, <1>2
  <2> QED BY <1>3, <2>1 DEF TableState
<1>5. u.job[n] = g /\ \A m \in JobId : m # n => u.job[m] = t.job[m]
  BY <1>1, <1>4
<1>6. \A m \in JobId : m # n => p \notin t.job[m].pids
  BY JobOfExpected
<1>7. \A q : q \in ReapablePids(u) <=> q \in ReapablePids(t) /\ q # p
  <2>1. \A m \in JobId : /\ JobIsSound(t, m)
                         /\ (t.job[m].state = "none" \/ t.job[m].state = "completed") => t.job[m].pids = {}
    BY DEF TableSound, JobIsSound, NoJob
  <2>2. \A m \in JobId : (u.job[m].state = "none" \/ u.job[m].state = "completed") => u.job[m].pids = {}
    BY <1>2, <1>5, <2>1
  <2>3. \A q : q \in ReapablePids(u) <=> q \in u.orphans \/ \E m \in JobId : q \in u.job[m].pids
    BY <2>2 DEF ReapablePids, Expected, Present, Finished
  <2>4. \A q : q \in ReapablePids(t) <=> q \in t.orphans \/ \E m \in JobId : q \in t.job[m].pids
    BY <2>1, ReapableIs
  <2>5. p \notin t.orphans
    BY JobOfExpected
  <2> QED BY <1>2, <1>4, <1>5, <1>6, <2>3, <2>4, <2>5
<1>8. p \in ReapablePids(t)
  BY ReapableIs DEF TableSound
<1>9. Cardinality(ReapablePids(u)) <= u.live
  BY <1>4, <1>7, <1>8, OneLess
<1>10. NamesSound(t) => NamesSound(u)
  <2>1. \A m \in JobId : u.job[m].state = "none" <=> t.job[m].state = "none"
    BY <1>1, <1>2, <1>5
  <2> QED BY <1>4, <2>1, NamesByPresence
<1>11. u.job = [t.job EXCEPT ![n] = u.job[n]]
  BY <1>4, <1>5
<1>12. TableSound(u)
  <2>1. u.job[n].pids \cup u.job[n].ended \subseteq u.job[n].stages /\ u.job[n].pids \cap u.job[n].ended = {}
    BY <1>1, <1>2, <1>5
  <2> QED BY <1>1, <1>2, <1>4, <1>5, <1>9, <1>10, <1>11, <2>1, JobChanges
<1>13. \A q \in Listed(u) : q \in Listed(t)
  <2>1. \A m \in JobId : u.job[m].stages = t.job[m].stages
    BY <1>2, <1>5
  <2> QED BY <1>4, <2>1, ListedIs
<1>14. LessOf(t, u, p)
  BY <1>2, <1>5, <1>6, <1>7, <1>13 DEF LessOf
<1> QED BY <1>4, <1>7, <1>12, <1>14 DEF u

\* The shell has p's status from the kernel.
LEMMA FinishIs ==
  ASSUME NEW t, TableSound(t), NEW p \in ReapablePids(t)
  PROVE  LET u == Finish(t, p, p) IN
         /\ TableSound(u) /\ LessOf(t, u, p) /\ p \notin ReapablePids(u)
         /\ IF p \in t.orphans THEN u.statuses = t.statuses
            ELSE p \in Held(u.statuses) /\ \A q \in Held(u.statuses) : q \in Held(t.statuses) \cup {p}
<1>1. CASE p \in t.orphans
  BY <1>1, OrphanBuried DEF Finish
<1>2. CASE p \notin t.orphans
  <2> DEFINE v == RememberStatus(Uncount(t), p, p)
  <2>1. PICK n \in JobId : p \in t.job[n].pids
    BY <1>2, ReapableIs DEF TableSound
  <2>2. JobOfPid(t, p) = n /\ n # 0
    BY <2>1, JobOfExpected, NumbersFinite
  <2>3. t \in TableState /\ StatusesSound(t.statuses)
    BY DEF TableSound
  <2>4. p \in Pid
    BY ReapablesCount
  <2>5. /\ v \in TableState /\ v.job = t.job /\ v.orphans = t.orphans /\ v.current = t.current
        /\ v.previous = t.previous /\ (t.live > 0 => v.live = t.live - 1)
        /\ StatusesSound(v.statuses) /\ p \in Held(v.statuses)
        /\ \A q \in Held(v.statuses) : q \in Held(t.statuses) \cup {p}
    <3> DEFINE w == Uncount(t)
    <3>1. /\ w \in TableState /\ w.job = t.job /\ w.orphans = t.orphans /\ w.statuses = t.statuses
          /\ w.current = t.current /\ w.previous = t.previous
          /\ t.live > 0 => w.live = t.live - 1
      BY <2>3, UncountIs
    <3> HIDE DEF w
    <3>2. StatusesSound(w.statuses)
      BY <2>3, <3>1
    <3>3. LET r == RememberStatus(w, p, p) IN
          /\ r \in TableState /\ StatusesSound(r.statuses)
          /\ r.job = w.job /\ r.current = w.current /\ r.previous = w.previous
          /\ r.orphans = w.orphans /\ r.live = w.live
          /\ p \in Held(r.statuses) /\ \A q \in Held(r.statuses) : q \in Held(w.statuses) \cup {p}
      BY <2>4, <3>1, <3>2, RememberStatusIs
    <3>4. v = RememberStatus(w, p, p)
      BY DEF w
    <3> HIDE DEF v
    <3> QED BY <3>1, <3>3, <3>4
  <2> HIDE DEF v
  <2>6. Finish(t, p, p) = [v EXCEPT !.job[n] = Gone(@, p, p)]
    BY <1>2, <2>2 DEF Finish, v
  <2>7. p \in Code \cup {0}
    BY <2>4 DEF Code
  <2>8. LET u == [v EXCEPT !.job[n] = Gone(@, p, p)] IN
        /\ TableSound(u) /\ LessOf(t, u, p) /\ u.statuses = v.statuses /\ p \notin ReapablePids(u)
    BY <2>1, <2>5, <2>7, JobsChildBuried
  <2> QED BY <1>2, <2>5, <2>6, <2>8
<1> QED BY <1>1, <1>2

\* The kernel knows nothing of p.
LEMMA AbandonIs ==
  ASSUME NEW t, TableSound(t), NEW p \in ReapablePids(t),
         \A n \in JobId : p \in t.job[n].pids => Several(t.job[n].stages)
  PROVE  LET u == Abandon(t, p) IN
         TableSound(u) /\ LessOf(t, u, p) /\ u.statuses = t.statuses
<1>1. CASE p \in t.orphans
  BY <1>1, OrphanBuried DEF Abandon
<1>2. CASE p \notin t.orphans
  <2> DEFINE v == Uncount(t)
  <2>1. PICK n \in JobId : p \in t.job[n].pids
    BY <1>2, ReapableIs DEF TableSound
  <2>2. JobOfPid(t, p) = n /\ n # 0
    BY <2>1, JobOfExpected, NumbersFinite
  <2>3. t \in TableState /\ StatusesSound(t.statuses)
    BY DEF TableSound
  <2>4. /\ v \in TableState /\ v.job = t.job /\ v.orphans = t.orphans /\ v.current = t.current
        /\ v.previous = t.previous /\ (t.live > 0 => v.live = t.live - 1)
        /\ v.statuses = t.statuses
    BY <2>3, UncountIs
  <2> HIDE DEF v
  <2>5. Abandon(t, p) = [v EXCEPT !.job[n] = Gone(@, p, 0)]
    BY <1>2, <2>2 DEF Abandon, v
  <2>6. 0 \in Code \cup {0} /\ Several(t.job[n].stages) /\ StatusesSound(v.statuses)
    BY <2>1, <2>3, <2>4
  <2>7. LET u == [v EXCEPT !.job[n] = Gone(@, p, 0)] IN
        /\ TableSound(u) /\ LessOf(t, u, p) /\ u.statuses = v.statuses /\ p \notin ReapablePids(u)
    BY <2>1, <2>4, <2>6, JobsChildBuried
  <2> QED BY <2>4, <2>5, <2>7
<1> QED BY <1>1, <1>2

LEMMA NoteReapedIs ==
  ASSUME NEW t, TableSound(t), NEW p
  PROVE  LET u == NoteReaped(t, p) IN
         TableSound(u) /\ LessOf(t, u, p) /\ u.statuses = t.statuses
<1> DEFINE n == JobOfPid(t, p)
           less == [t EXCEPT !.job[n].pids = @ \ {p}]
<1>1. CASE n = 0
  <2>1. NoteReaped(t, p) = t
    BY <1>1 DEF NoteReaped
  <2>2. \A m \in JobId : p \notin t.job[m].pids
    BY <1>1, JobOfPidIs, NumbersFinite
  <2> QED BY <2>1, <2>2 DEF LessOf
<1>2. CASE n # 0
  <2>1. /\ n \in JobId /\ t.job[n].state # "none" /\ p \notin t.orphans
        /\ \A m \in JobId : p \in t.job[m].pids => m = n
    BY <1>2, JobOfPidIs
  <2>2. NoteReaped(t, p) = IF less.job[n].pids = {} THEN RemoveJob(less, n) ELSE less
    BY <1>2 DEF NoteReaped
  <2> HIDE DEF n
  <2>3. t \in TableState /\ t.job \in [JobId -> Job] /\ t.job[n] \in Job /\ JobIsSound(t, n)
    BY <2>1, TableParts DEF TableSound
  <2> DEFINE j == [t.job[n] EXCEPT !.pids = @ \ {p}]
  <2>4. /\ j \in Job /\ j.pids = t.job[n].pids \ {p} /\ j.stages = t.job[n].stages
        /\ j.ended = t.job[n].ended /\ j.state = t.job[n].state /\ j.status = t.job[n].status
    BY <2>3 DEF Job
  <2>5. less = [t EXCEPT !.job = [t.job EXCEPT ![n] = j]]
    BY <2>1, <2>3 DEF TableState
  <2> HIDE DEF j, less
  <2>6. [t.job EXCEPT ![n] = j] \in [JobId -> Job]
    BY <2>3, <2>4
  <2>7. /\ less \in TableState /\ less.job = [t.job EXCEPT ![n] = j] /\ less.orphans = t.orphans
        /\ less.live = t.live /\ less.statuses = t.statuses
        /\ less.current = t.current /\ less.previous = t.previous
    BY <2>3, <2>5, <2>6 DEF TableState
  <2>8. less.job[n] = j /\ \A m \in JobId : m # n => less.job[m] = t.job[m]
    BY <2>1, <2>3, <2>7
  <2>9. \A q : q \in ReapablePids(less) <=> q \in ReapablePids(t) /\ q # p
    <3>1. \A m \in JobId : (t.job[m].state = "none" \/ t.job[m].state = "completed") => t.job[m].pids = {}
      BY DEF TableSound, JobIsSound, NoJob
    <3>2. \A m \in JobId : (less.job[m].state = "none" \/ less.job[m].state = "completed") => less.job[m].pids = {}
      BY <2>4, <2>8, <3>1
    <3>3. \A q : q \in ReapablePids(less) <=> q \in less.orphans \/ \E m \in JobId : q \in less.job[m].pids
      BY <3>2 DEF ReapablePids, Expected, Present, Finished
    <3>4. \A q : q \in ReapablePids(t) <=> q \in t.orphans \/ \E m \in JobId : q \in t.job[m].pids
      BY ReapableIs DEF TableSound
    <3> QED BY <2>1, <2>4, <2>7, <2>8, <3>3, <3>4
  <2>10. Cardinality(ReapablePids(less)) <= less.live
    <3>1. ReapablePids(less) \in SUBSET ReapablePids(t) /\ IsFiniteSet(ReapablePids(t))
          /\ Cardinality(ReapablePids(t)) \in Nat /\ Cardinality(ReapablePids(t)) <= t.live
      BY <2>9, ReapablesCount
    <3>2. Cardinality(ReapablePids(less)) <= Cardinality(ReapablePids(t))
          /\ Cardinality(ReapablePids(less)) \in Nat
      BY <3>1, FS_Subset, FS_CardinalityType
    <3>3. t.live \in Nat
      BY TableParts
    <3> QED BY <2>7, <3>1, <3>2, <3>3
  <2>11. TableSound(less)
    <3>1. NamesSound(t) => NamesSound(less)
      <4>1. \A m \in JobId : less.job[m].state = "none" <=> t.job[m].state = "none"
        BY <2>4, <2>8
      <4> QED BY <2>7, <4>1, NamesByPresence
    <3>2. less.job = [t.job EXCEPT ![n] = less.job[n]] /\ less.job[n].state # "none"
      BY <2>1, <2>4, <2>7, <2>8
    <3>3. /\ less.job[n].pids \cup less.job[n].ended \subseteq less.job[n].stages
          /\ less.job[n].pids \cap less.job[n].ended = {}
          /\ less.job[n].state = "completed" => less.job[n].pids = {}
               /\ (less.job[n].status \in less.job[n].stages \/ Several(less.job[n].stages))
      BY <2>3, <2>4, <2>8 DEF JobIsSound
    <3>4. StatusesSound(less.statuses)
      BY <2>7 DEF TableSound
    <3>5. less.job[n].stages = t.job[n].stages
      BY <2>4, <2>8
    <3> QED BY <2>1, <2>7, <2>10, <3>1, <3>2, <3>3, <3>4, <3>5, JobChanges
  <2>12. LessOf(t, less, p)
    <3>1. \A m \in JobId : less.job[m].stages = t.job[m].stages /\ less.job[m].pids \subseteq t.job[m].pids
                           /\ p \notin less.job[m].pids
      BY <2>1, <2>4, <2>8
    <3>2. \A q \in Listed(less) : q \in Listed(t)
      <4>1. less.orphans = t.orphans /\ \A m \in JobId : less.job[m].stages = t.job[m].stages
        BY <2>7, <3>1
      <4> QED BY <4>1, ListedIs
    <3> QED BY <2>9, <3>1, <3>2 DEF LessOf
  <2>13. CASE less.job[n].pids = {}
    <3> DEFINE u == RemoveJob(less, n)
    <3>1. /\ TableSound(u) /\ u.statuses = less.statuses /\ u.job = [less.job EXCEPT ![n] = NoJob]
          /\ \A q : /\ q \in ReapablePids(u) <=> q \in ReapablePids(less)
                    /\ q \in Listed(u) => q \in Listed(less)
      BY <2>1, <2>11, RemoveJobIs
    <3> HIDE DEF u
    <3>2. \A m \in JobId : u.job[m] = IF m = n THEN NoJob ELSE less.job[m]
      BY <2>7, <3>1, TableParts, <2>11
    <3>3. LessOf(t, u, p)
      BY <2>12, <3>1, <3>2 DEF LessOf, NoJob
    <3> QED BY <2>2, <2>7, <2>13, <3>1, <3>3 DEF u
  <2>14. CASE less.job[n].pids # {}
    BY <2>2, <2>7, <2>11, <2>12, <2>14
  <2> QED BY <2>13, <2>14
<1> QED BY <1>1, <1>2

LEMMA TakeStatusIs ==
  ASSUME NEW t, TableSound(t), NEW p
  PROVE  LET u == TakeStatus(t, p) IN
         /\ TableSound(u) /\ LessOf(t, u, p)
         /\ \A q : q \in Held(u.statuses) <=> q \in Held(t.statuses) /\ q # p
<1> DEFINE s == Others(t.statuses, p)
           v == [t EXCEPT !.statuses = s]
           u == NoteReaped(v, p)
<1>1. t \in TableState /\ t.statuses \in Seq(Entry) /\ StatusesSound(t.statuses)
  BY TableParts DEF TableSound, Entry
<1>2. s \in Seq(Entry) /\ StatusesSound(s) /\ \A q : q \in Held(s) <=> q \in Held(t.statuses) /\ q # p
  BY <1>1, OthersIs
<1> HIDE DEF s
<1>3. /\ v \in TableState /\ v.statuses = s /\ v.job = t.job /\ v.orphans = t.orphans
      /\ v.live = t.live /\ v.current = t.current /\ v.previous = t.previous
  BY <1>1, <1>2 DEF TableState, Entry
<1> HIDE DEF v
<1>4. ReapablePids(v) = ReapablePids(t) /\ Listed(v) = Listed(t)
  BY <1>3 DEF ReapablePids, Expected, Present, Finished, Listed
<1>5. TableSound(v)
  <2>1. \A n \in JobId : JobIsSound(v, n)
    BY <1>3 DEF TableSound, JobIsSound
  <2>2. NamesSound(v)
    BY <1>3, NamesByPresence DEF TableSound
  <2> QED BY <1>2, <1>3, <1>4, <2>1, <2>2 DEF TableSound
<1>6. TableSound(u) /\ LessOf(v, u, p) /\ u.statuses = s
  BY <1>3, <1>5, NoteReapedIs
<1>7. TakeStatus(t, p) = u
  BY DEF TakeStatus, v, s
<1> HIDE DEF u
<1>8. LessOf(t, u, p)
  BY <1>3, <1>4, <1>6 DEF LessOf
<1> QED BY <1>2, <1>6, <1>7, <1>8

-----------------------------------------------------------------------------
(* Jobs that are retired one after the other. *)

\* Jobs may have left or been told of, and no process is expected more or less for that.
KeptPids(t, u) ==
  /\ u.statuses = t.statuses
  /\ \A p : (p \in ReapablePids(u) <=> p \in ReapablePids(t)) /\ (p \in Listed(u) => p \in Listed(t))
  /\ \A n \in JobId : /\ u.job[n].pids \subseteq t.job[n].pids
                      /\ u.job[n].pids # {} => u.job[n].stages = t.job[n].stages

LEMMA RemoveKeepsPids ==
  ASSUME NEW t, TableSound(t), NEW n \in JobId
  PROVE  TableSound(RemoveJob(t, n)) /\ KeptPids(t, RemoveJob(t, n))
<1> DEFINE u == RemoveJob(t, n)
<1>1. /\ TableSound(u) /\ u.statuses = t.statuses /\ u.job = [t.job EXCEPT ![n] = NoJob]
      /\ \A p : /\ p \in ReapablePids(u) <=> p \in ReapablePids(t)
                /\ p \in Listed(u) => p \in Listed(t)
  BY RemoveJobIs
<1> HIDE DEF u
<1>2. \A m \in JobId : u.job[m] = IF m = n THEN NoJob ELSE t.job[m]
  BY <1>1, TableParts
<1>3. KeptPids(t, u)
  BY <1>1, <1>2 DEF KeptPids, NoJob
<1> QED BY <1>1, <1>3 DEF u

RetireNext(ns, n, t) == IF n \in ns THEN RemoveJob(t, n) ELSE t

\* The tables a loop of removals goes through, as the recursive function says.
LEMMA RetiredUpToIs ==
  ASSUME NEW t, NEW ns
  PROVE  /\ RetiredUpTo(t, ns)[0] = t
         /\ \A n \in JobId : RetiredUpTo(t, ns)[n] = RetireNext(ns, n, RetiredUpTo(t, ns)[n - 1])
<1> DEFINE StepAt(f, k) == f = [n \in 0 .. k |-> IF n = 0 THEN t ELSE RetireNext(ns, n, f[n - 1])]
           S == {k \in 0 .. MaxJob : \E f : StepAt(f, k)}
<1>0. MaxJob \in Nat /\ JobId = 1 .. MaxJob
  BY NumbersFinite DEF JobId
<1>1. 0 \in S
  <2> DEFINE f == [n \in 0 .. 0 |-> t]
  <2>1. f = [n \in 0 .. 0 |-> IF n = 0 THEN t ELSE RetireNext(ns, n, f[n - 1])]
    BY <1>0
  <2>2. StepAt(f, 0)
    BY <2>1
  <2>3. 0 \in 0 .. MaxJob
    BY <1>0
  <2> HIDE DEF f
  <2> QED BY <2>2, <2>3
<1>2. ASSUME NEW k \in JobId, k - 1 \in S
      PROVE  k \in S
  <2>1. PICK f : StepAt(f, k - 1)
    BY <1>2
  <2> DEFINE g == [n \in 0 .. k |-> IF n = k THEN RetireNext(ns, k, f[k - 1]) ELSE f[n]]
             h == [n \in 0 .. k |-> IF n = 0 THEN t ELSE RetireNext(ns, n, g[n - 1])]
  <2>2. \A n \in 0 .. k : g[n] = h[n]
    <3> TAKE n \in 0 .. k
    <3>1. CASE n = k
      <4>1. g[n - 1] = f[k - 1]
        BY <1>0, <3>1
      <4> QED BY <1>0, <3>1, <4>1
    <3>2. CASE n # k
      <4>1. n \in 0 .. k - 1 /\ g[n] = f[n]
        BY <1>0, <3>2
      <4>2. f[n] = IF n = 0 THEN t ELSE RetireNext(ns, n, f[n - 1])
        BY <2>1, <4>1
      <4>3. n # 0 => g[n - 1] = f[n - 1]
        BY <1>0, <4>1
      <4> QED BY <4>1, <4>2, <4>3
    <3> QED BY <3>1, <3>2
  <2>3. g = h
    BY <2>2
  <2>4. k \in 0 .. MaxJob
    BY <1>0
  <2> QED BY <2>3, <2>4
<1>3. MaxJob \in S
  <2> HIDE DEF S
  <2>1. S \in SUBSET (0 .. MaxJob)
    BY DEF S
  <2>2. S = 0 .. MaxJob
    BY <1>1, <1>2, <2>1, UpToAllJobs
  <2> QED BY <1>0, <2>2
<1>4. \E f : StepAt(f, MaxJob)
  BY <1>3
<1> DEFINE a == RetiredUpTo(t, ns)
<1>5. a = CHOOSE f : f = [n \in 0 .. MaxJob |->
            IF n = 0 THEN t ELSE IF n \in ns THEN RemoveJob(f[n - 1], n) ELSE f[n - 1]]
  BY DEF RetiredUpTo
<1>6. a = CHOOSE f : StepAt(f, MaxJob)
  BY <1>5 DEF RetireNext
<1>7. StepAt(a, MaxJob)
  BY <1>4, <1>6
<1> HIDE DEF a
<1> QED BY <1>0, <1>7 DEF a

LEMMA RetiredIs ==
  ASSUME NEW t, TableSound(t), NEW ns
  PROVE  TableSound(Retired(t, ns)) /\ KeptPids(t, Retired(t, ns))
<1> DEFINE f == RetiredUpTo(t, ns)
           S == {n \in 0 .. MaxJob : TableSound(f[n]) /\ KeptPids(t, f[n])}
<1>1. f[0] = t /\ \A n \in JobId : f[n] = RetireNext(ns, n, f[n - 1])
  BY RetiredUpToIs
<1>2. MaxJob \in 0 .. MaxJob /\ 0 \in 0 .. MaxJob /\ \A n \in JobId : n \in 0 .. MaxJob
  BY NumbersFinite DEF JobId
<1> HIDE DEF f
<1>3. 0 \in S
  <2>1. KeptPids(t, t)
    BY DEF KeptPids
  <2> QED BY <1>1, <1>2, <2>1
<1>4. ASSUME NEW n \in JobId, n - 1 \in S PROVE n \in S
  <2> DEFINE v == f[n - 1]
  <2>1. TableSound(v) /\ KeptPids(t, v)
    BY <1>4
  <2>2. f[n] = RetireNext(ns, n, v)
    BY <1>1
  <2> HIDE DEF v
  <2>3. TableSound(RemoveJob(v, n)) /\ KeptPids(v, RemoveJob(v, n))
    BY <2>1, RemoveKeepsPids
  <2>4. KeptPids(t, RemoveJob(v, n))
    <3> DEFINE w == RemoveJob(v, n)
    <3>1. KeptPids(v, w)
      BY <2>3
    <3> HIDE DEF w
    <3>2. KeptPids(t, w)
      BY <2>1, <3>1 DEF KeptPids
    <3> QED BY <3>2 DEF w
  <2>5. TableSound(f[n]) /\ KeptPids(t, f[n])
    BY <2>1, <2>2, <2>3, <2>4 DEF RetireNext
  <2> QED BY <1>2, <2>5
<1>5. MaxJob \in S
  <2> HIDE DEF S
  <2>1. S \in SUBSET (0 .. MaxJob)
    BY DEF S
  <2> QED BY <1>2, <1>3, <1>4, <2>1, UpToAllJobs
<1>6. Retired(t, ns) = f[MaxJob]
  BY DEF Retired, f
<1> QED BY <1>5, <1>6

LEMMA NoticedIs ==
  ASSUME NEW t, TableSound(t)
  PROVE  TableSound(Noticed(t)) /\ KeptPids(t, Noticed(t))
<1> DEFINE told == [n \in JobId |-> IF n \in Untold(t) THEN [t.job[n] EXCEPT !.notified = TRUE]
                                    ELSE t.job[n]]
           u == [t EXCEPT !.job = told]
<1>1. t \in TableState /\ \A n \in JobId : t.job[n] \in Job
  BY TableParts DEF TableSound
<1>2. \A n \in JobId : /\ told[n] \in Job /\ told[n].state = t.job[n].state /\ told[n].pids = t.job[n].pids
                       /\ told[n].stages = t.job[n].stages /\ told[n].ended = t.job[n].ended
                       /\ told[n].status = t.job[n].status
                       /\ t.job[n].state = "none" => told[n] = t.job[n]
  <2> TAKE n \in JobId
  <2>1. n \in Untold(t) => t.job[n].state # "none"
    BY DEF Untold, Present
  <2>2. CASE n \in Untold(t)
    BY <1>1, <2>1, <2>2 DEF Job
  <2>3. CASE n \notin Untold(t)
    BY <1>1, <2>3
  <2> QED BY <2>2, <2>3
<1>3. told \in [JobId -> Job]
  BY <1>2
<1> HIDE DEF told
<1>4. /\ u \in TableState /\ u.job = told /\ u.orphans = t.orphans /\ u.live = t.live
      /\ u.statuses = t.statuses /\ u.current = t.current /\ u.previous = t.previous
  BY <1>1, <1>3 DEF TableState
<1> HIDE DEF u
<1>5. ASSUME NEW n \in JobId PROVE JobIsSound(u, n)
  <2>1. JobIsSound(t, n)
    BY DEF TableSound
  <2> QED BY <1>2, <1>4, <2>1 DEF JobIsSound
<1>6. \A p : (p \in ReapablePids(u) <=> p \in ReapablePids(t)) /\ (p \in Listed(u) => p \in Listed(t))
  <2>1. \A p : p \in ReapablePids(u) <=> p \in u.orphans \/ \E n \in JobId : p \in u.job[n].pids
    BY <1>5, ReapableIs
  <2>2. \A p : p \in ReapablePids(t) <=> p \in t.orphans \/ \E n \in JobId : p \in t.job[n].pids
    BY ReapableIs DEF TableSound
  <2>3. \A p \in Listed(u) : p \in Listed(t)
    BY <1>2, <1>4, ListedIs
  <2> QED BY <1>2, <1>4, <2>1, <2>2, <2>3
<1>7. TableSound(u)
  <2>1. NamesSound(u)
    BY <1>2, <1>4, NamesByPresence DEF TableSound
  <2>2. ReapablePids(u) = ReapablePids(t)
    BY <1>6
  <2> QED BY <1>4, <1>5, <2>1, <2>2 DEF TableSound
<1>8. KeptPids(t, u)
  BY <1>2, <1>4, <1>6 DEF KeptPids
<1> DEFINE w == Retired(u, Untold(t) \cap Finished(t))
<1>9. TableSound(w) /\ KeptPids(u, w)
  BY <1>7, RetiredIs
<1>10. Noticed(t) = w
  BY DEF Noticed, u, told
<1> HIDE DEF w
<1>11. KeptPids(t, w)
  BY <1>2, <1>4, <1>8, <1>9 DEF KeptPids
<1> QED BY <1>9, <1>10, <1>11

-----------------------------------------------------------------------------
(* What the kernel says and what the table says. *)

LEMMA KernelParts ==
  ASSUME NEW t, NEW pr, NEW sh, KernelAgrees(t, pr, sh), TableSound(t)
  PROVE  /\ pr \in [Pid -> ProcState]
         /\ \A p \in Pid : pr[p] = "kept" <=> p \in Held(t.statuses)
<1>1. StatusesSound(t.statuses)
  BY DEF TableSound
<1> QED BY <1>1, RecalledIs DEF KernelAgrees

\* Children live on or end, jobs leave or change, and whom the shell expects it goes on expecting.
LEMMA KernelKept ==
  ASSUME NEW t, NEW u, NEW pr, NEW pr2, NEW sh, NEW sh2,
         TableSound(t), TableSound(u), KernelAgrees(t, pr, sh), KeptPids(t, u),
         pr2 \in [Pid -> ProcState],
         \A p \in Pid : pr2[p] = pr[p] \/ (pr[p] \in Alive /\ pr2[p] \in Alive \cup {"zombie"}),
         sh.at = "pipeline" => sh2.at = "pipeline" /\ sh2.asked = sh.asked,
         sh.at = "foreground" =>
           (sh2.at = "foreground" /\ sh2.job = sh.job) \/ ~ (sh.job \in JobId /\ u.job[sh.job].pids # {})
  PROVE  KernelAgrees(u, pr2, sh2)
<1> USE DEF Alive
<1>1. \A p \in Listed(u) : p \in Pid /\ p \in Listed(t)
  BY ReapablesCount DEF KeptPids
<1>2. \A p \in ReapablePids(u) : p \in Pid /\ p \in ReapablePids(t)
  BY ReapablesCount DEF KeptPids
<1>3. \A p \in Listed(u) : pr2[p] # "unborn"
  BY <1>1 DEF KernelAgrees
<1>4. \A p \in ReapablePids(u) : pr2[p] # "kept"
  BY <1>2 DEF KernelAgrees
<1>5. ASSUME NEW p \in Pid
      PROVE  /\ pr2[p] \in Alive \cup {"zombie"} =>
                  p \in ReapablePids(u) \/ (sh2.at = "pipeline" /\ p \in sh2.asked)
             /\ pr2[p] = "kept" <=> Recalled(u, p) # {}
  <2>1. Recalled(u, p) = Recalled(t, p)
    BY DEF Recalled, KeptPids
  <2> QED BY <2>1 DEF KernelAgrees, KeptPids
<1>6. ASSUME NEW n \in JobId, NEW p \in u.job[n].pids, pr2[p] = "gone"
      PROVE  Several(u.job[n].stages) \/ (sh2.at = "foreground" /\ n = sh2.job)
  <2>1. p \in t.job[n].pids /\ u.job[n].stages = t.job[n].stages /\ p \in Pid
    BY <1>6, TableParts DEF KeptPids
  <2>2. pr[p] = "gone"
    BY <1>6, <2>1
  <2>3. Several(t.job[n].stages) \/ (sh.at = "foreground" /\ n = sh.job)
    BY <2>1, <2>2 DEF KernelAgrees
  <2> QED BY <1>6, <2>1, <2>3
<1> QED BY <1>3, <1>4, <1>5, <1>6 DEF KernelAgrees

\* The shell has heard the end of p, and of what was remembered some may be forgotten.
LEMMA KernelBuried ==
  ASSUME NEW t, NEW u, NEW pr, NEW pr2, NEW sh, NEW sh2, NEW p \in Pid,
         TableSound(t), TableSound(u), KernelAgrees(t, pr, sh), LessOf(t, u, p),
         pr2 \in [Pid -> ProcState], pr2[p] \in {"kept", "gone"},
         pr2[p] = "kept" => p \notin ReapablePids(u),
         \A q \in Pid : q = p \/ pr2[q] = pr[q] \/ (pr[q] = "kept" /\ pr2[q] = "gone"),
         \A q \in Pid : pr2[q] = "kept" <=> q \in Held(u.statuses),
         sh.at \notin {"pipeline", "foreground"}
  PROVE  KernelAgrees(u, pr2, sh2)
<1> USE DEF Alive
<1>1. \A q \in Listed(u) : q \in Pid /\ q \in Listed(t)
  BY ReapablesCount DEF LessOf
<1>2. \A q \in ReapablePids(u) : q \in Pid /\ q \in ReapablePids(t)
  BY ReapablesCount DEF LessOf
<1>3. \A q \in Listed(u) : pr2[q] # "unborn"
  BY <1>1 DEF KernelAgrees
<1>4. \A q \in ReapablePids(u) : pr2[q] # "kept"
  BY <1>2 DEF KernelAgrees
<1>5. ASSUME NEW q \in Pid
      PROVE  /\ pr2[q] \in Alive \cup {"zombie"} =>
                  q \in ReapablePids(u) \/ (sh2.at = "pipeline" /\ q \in sh2.asked)
             /\ pr2[q] = "kept" <=> Recalled(u, q) # {}
  <2>1. Recalled(u, q) # {} <=> q \in Held(u.statuses)
    BY RecalledIs DEF TableSound
  <2>2. pr2[q] \in Alive \cup {"zombie"} => q # p /\ pr[q] = pr2[q]
    OBVIOUS
  <2> QED BY <2>1, <2>2 DEF KernelAgrees, LessOf
<1>6. ASSUME NEW n \in JobId, NEW q \in u.job[n].pids, pr2[q] = "gone"
      PROVE  Several(u.job[n].stages)
  <2>1. q \in t.job[n].pids /\ u.job[n].stages = t.job[n].stages /\ q \in Pid /\ q # p
    BY <1>6, TableParts DEF LessOf
  <2>2. q \in ReapablePids(t)
    BY <2>1, ReapableIs DEF TableSound
  <2>3. pr[q] = "gone"
    BY <1>6, <2>1, <2>2 DEF KernelAgrees
  <2> QED BY <2>1, <2>3 DEF KernelAgrees
<1> QED BY <1>3, <1>4, <1>5, <1>6 DEF KernelAgrees

\* What Collect and TakeUp do to what is kept.
LEMMA ToldIs ==
  ASSUME TableSound(table), TableSound(table'), KernelAgrees(table, proc, shell),
         NEW state \in [Pid -> ProcState], NEW p \in Pid,
         \A q \in Pid : q = p \/ state[q] = proc[q], proc' = Told(state)
  PROVE  /\ proc' \in [Pid -> ProcState]
         /\ \A q \in Pid : q = p \/ proc'[q] = proc[q] \/ (proc[q] = "kept" /\ proc'[q] = "gone")
         /\ \A q \in Pid : q # p =>
              (proc'[q] = "kept" <=> q \in Held(table.statuses) /\ q \in Held(table'.statuses))
         /\ proc'[p] = IF proc[p] = "kept" /\ p \notin Held(table'.statuses) THEN "gone" ELSE state[p]
<1>1. \A q \in Pid : proc[q] = "kept" <=> q \in Held(table.statuses)
  BY KernelParts
<1>2. \A q : (Recalled(table, q) # {} <=> q \in Held(table.statuses))
             /\ (Recalled(table', q) # {} <=> q \in Held(table'.statuses))
  BY RecalledIs DEF TableSound
<1>3. \A q \in Pid : Left(q) <=> proc[q] = "kept" /\ q \notin Held(table'.statuses)
  BY <1>1, <1>2 DEF Left
<1>4. \A q \in Pid : proc'[q] = IF Left(q) THEN "gone" ELSE state[q]
  BY DEF Told
<1>5. proc' \in [Pid -> ProcState]
  <2>1. \A q \in Pid : (IF Left(q) THEN "gone" ELSE state[q]) \in ProcState
    BY DEF ProcState
  <2> QED BY <2>1 DEF Told
<1> QED BY <1>1, <1>3, <1>4, <1>5

LEMMA CollectIs ==
  ASSUME JobIInv, NEW p \in ReapablePids(table), proc[p] = "zombie", Collect(p),
         shell.at \notin {"pipeline", "foreground"}
  PROVE  /\ TableSound(table') /\ LessOf(table, table', p) /\ KernelAgrees(table', proc', shell')
         /\ \A q \in Pid : q = p \/ proc'[q] = proc[q] \/ (proc[q] = "kept" /\ proc'[q] = "gone")
<1> DEFINE state == [proc EXCEPT ![p] = IF p \in table.orphans THEN "gone" ELSE "kept"]
<1>1. TableSound(table) /\ KernelAgrees(table, proc, shell) /\ p \in Pid
  BY ReapablesCount DEF JobIInv
<1>2. /\ TableSound(table') /\ LessOf(table, table', p) /\ p \notin ReapablePids(table')
      /\ IF p \in table.orphans THEN table'.statuses = table.statuses
         ELSE p \in Held(table'.statuses) /\ \A q \in Held(table'.statuses) : q \in Held(table.statuses) \cup {p}
  BY <1>1, FinishIs DEF Collect
<1>3. proc \in [Pid -> ProcState] /\ \A q \in Pid : proc[q] = "kept" <=> q \in Held(table.statuses)
  BY <1>1, KernelParts
<1>4. /\ state \in [Pid -> ProcState] /\ (\A q \in Pid : q = p \/ state[q] = proc[q])
      /\ state[p] = (IF p \in table.orphans THEN "gone" ELSE "kept")
  BY <1>1, <1>3 DEF ProcState
<1>5. proc' = Told(state)
  BY DEF Collect
<1> HIDE DEF state
<1>6. /\ proc' \in [Pid -> ProcState]
      /\ \A q \in Pid : q = p \/ proc'[q] = proc[q] \/ (proc[q] = "kept" /\ proc'[q] = "gone")
      /\ \A q \in Pid : q # p =>
              (proc'[q] = "kept" <=> q \in Held(table.statuses) /\ q \in Held(table'.statuses))
      /\ proc'[p] = IF proc[p] = "kept" /\ p \notin Held(table'.statuses) THEN "gone" ELSE state[p]
  BY <1>1, <1>2, <1>4, <1>5, ToldIs
<1>7. proc'[p] = state[p] /\ p \notin Held(table.statuses)
  BY <1>1, <1>3, <1>6
<1>8. \A q \in Pid : proc'[q] = "kept" <=> q \in Held(table'.statuses)
  BY <1>2, <1>4, <1>6, <1>7
<1>9. KernelAgrees(table', proc', shell')
  BY <1>1, <1>2, <1>4, <1>6, <1>7, <1>8, KernelBuried
<1> QED BY <1>2, <1>6, <1>9

LEMMA TakeUpIs ==
  ASSUME JobIInv, NEW p \in Pid, Recalled(table, p) # {}, TakeUp(p),
         shell.at \notin {"pipeline", "foreground"}
  PROVE  /\ TableSound(table') /\ KernelAgrees(table', proc', shell') /\ proc'[p] = "gone"
         /\ \A q \in Pid : q = p \/ proc'[q] = proc[q]
<1>1. TableSound(table) /\ KernelAgrees(table, proc, shell)
  BY DEF JobIInv
<1>2. /\ TableSound(table') /\ LessOf(table, table', p)
      /\ \A q : q \in Held(table'.statuses) <=> q \in Held(table.statuses) /\ q # p
  BY <1>1, TakeStatusIs DEF TakeUp
<1>3. proc \in [Pid -> ProcState] /\ \A q \in Pid : proc[q] = "kept" <=> q \in Held(table.statuses)
  BY <1>1, KernelParts
<1>4. proc[p] = "kept"
  BY <1>1 DEF KernelAgrees
<1>5. /\ proc' \in [Pid -> ProcState]
      /\ \A q \in Pid : q = p \/ proc'[q] = proc[q] \/ (proc[q] = "kept" /\ proc'[q] = "gone")
      /\ \A q \in Pid : q # p =>
              (proc'[q] = "kept" <=> q \in Held(table.statuses) /\ q \in Held(table'.statuses))
      /\ proc'[p] = IF proc[p] = "kept" /\ p \notin Held(table'.statuses) THEN "gone" ELSE proc[p]
  BY <1>1, <1>2, <1>3, ToldIs DEF TakeUp
<1>6. proc'[p] = "gone"
  BY <1>2, <1>4, <1>5
<1>7. \A q \in Pid : proc'[q] = "kept" <=> q \in Held(table'.statuses)
  BY <1>2, <1>5, <1>6
<1>8. KernelAgrees(table', proc', shell')
  BY <1>1, <1>2, <1>5, <1>6, <1>7, KernelBuried
<1>9. \A q \in Pid : q = p \/ proc'[q] = proc[q]
  BY <1>2, <1>3, <1>5
<1> QED BY <1>2, <1>6, <1>8, <1>9

\* A wait hears of a child that was not waited for by a job's step.
LEMMA ReapedIs ==
  ASSUME JobIInv, NEW p \in Pid, proc[p] = "zombie", table' = NoteReaped(table, p),
         Become({p}, "gone"), shell.at \notin {"pipeline", "foreground"}
  PROVE  /\ TableSound(table') /\ KernelAgrees(table', proc', shell') /\ proc'[p] = "gone"
         /\ \A q \in Pid : q = p \/ proc'[q] = proc[q]
<1>1. TableSound(table) /\ KernelAgrees(table, proc, shell)
  BY DEF JobIInv
<1>2. TableSound(table') /\ LessOf(table, table', p) /\ table'.statuses = table.statuses
  BY <1>1, NoteReapedIs
<1>3. proc \in [Pid -> ProcState] /\ \A q \in Pid : proc[q] = "kept" <=> q \in Held(table.statuses)
  BY <1>1, KernelParts
<1>4. proc' \in [Pid -> ProcState] /\ proc'[p] = "gone" /\ \A q \in Pid : q = p \/ proc'[q] = proc[q]
  BY <1>3 DEF Become, ProcState
<1>5. \A q \in Pid : proc'[q] = "kept" <=> q \in Held(table'.statuses)
  BY <1>2, <1>3, <1>4
<1>6. KernelAgrees(table', proc', shell')
  BY <1>1, <1>2, <1>4, <1>5, KernelBuried
<1> QED BY <1>2, <1>4, <1>6

-----------------------------------------------------------------------------
(* Every step keeps it. *)

LEMMA StateIsSound ==
  ASSUME TableSound(table'), KernelAgrees(table', proc', shell'), shell' \in ShellState,
         PlaceSound(table', proc', shell'), interactive' \in BOOLEAN
  PROVE  JobIInv'
BY DEF JobIInv

LEMMA FreshIs ==
  ASSUME NEW place \in {"boundary", "reaping", "ready", "pipeline", "foreground", "wait",
                        "waitall", "waitnext", "answered"}
  PROVE  Fresh(place) \in ShellState /\ Fresh(place).at = place
BY DEF Fresh, ShellState

\* At rest, nothing more is to be shown than what holds of the table.
LEMMA AtRest ==
  ASSUME TableSound(table'), KernelAgrees(table', proc', shell'),
         shell' \in {Fresh("boundary"), Fresh("ready")}, interactive' \in BOOLEAN
  PROVE  JobIInv'
<1>1. shell' \in ShellState
  BY FreshIs
<1>2. shell'.at \in {"boundary", "ready"}
  BY FreshIs
<1>3. PlaceSound(table', proc', shell')
  BY <1>2 DEF PlaceSound
<1> QED BY <1>1, <1>3, StateIsSound

LEMMA SameIsKept ==
  ASSUME NEW t, NEW u, SamePids(t, u)
  PROVE  KeptPids(t, u)
BY DEF SamePids, KeptPids

LEMMA NothingChanges == ASSUME NEW t PROVE SamePids(t, t)
BY DEF SamePids

LEMMA ChildKeeps ==
  ASSUME JobIInv, NEW p \in Pid, Child(p)
  PROVE  JobIInv'
<1>1. /\ TableSound(table) /\ KernelAgrees(table, proc, shell) /\ shell \in ShellState
      /\ PlaceSound(table, proc, shell) /\ interactive \in BOOLEAN
  BY DEF JobIInv
<1>2. proc \in [Pid -> ProcState]
  BY <1>1, KernelParts
<1>3. /\ table' = table /\ shell' = shell /\ interactive' = interactive
      /\ \E state \in Alive \cup {"zombie"} : proc[p] \in Alive /\ Become({p}, state)
  BY DEF Child, Ends, Stops, Continues, Alive
<1>4. /\ proc' \in [Pid -> ProcState] /\ proc[p] \in Alive /\ proc'[p] \in Alive \cup {"zombie"}
      /\ \A q \in Pid : q = p \/ proc'[q] = proc[q]
  BY <1>2, <1>3 DEF Become, Alive, ProcState
<1>5. KernelAgrees(table', proc', shell')
  <2>1. KeptPids(table, table)
    BY NothingChanges, SameIsKept
  <2>2. KernelAgrees(table, proc', shell)
    BY <1>1, <1>4, <2>1, KernelKept
  <2> QED BY <1>3, <2>2
<1>6. PlaceSound(table, proc', shell)
  <2>1. \A q \in Pid : /\ proc'[q] = "gone" <=> proc[q] = "gone"
                       /\ proc'[q] = "kept" <=> proc[q] = "kept"
                       /\ proc'[q] = "unborn" <=> proc[q] = "unborn"
    BY <1>4 DEF Alive
  <2>2. shell.left \subseteq Pid /\ shell.asked \subseteq Pid
    BY <1>1 DEF ShellState
  <2> QED BY <1>1, <2>1, <2>2 DEF PlaceSound
<1> QED BY <1>1, <1>3, <1>5, <1>6, StateIsSound

\* What the invariant says, part by part.
LEMMA Sound ==
  ASSUME JobIInv
  PROVE  /\ TableSound(table) /\ KernelAgrees(table, proc, shell) /\ shell \in ShellState
         /\ PlaceSound(table, proc, shell) /\ interactive \in BOOLEAN
         /\ proc \in [Pid -> ProcState] /\ \A q \in Pid : proc[q] = "kept" <=> q \in Held(table.statuses)
         /\ ReapablePids(table) \subseteq Pid
BY KernelParts, ReapablesCount DEF JobIInv

\* The kernel is not asked, and the shell is nowhere that matters to it.
LEMMA StillAgrees ==
  ASSUME JobIInv, proc' = proc, TableSound(table'), KeptPids(table, table'),
         shell.at \notin {"pipeline", "foreground"}
  PROVE  KernelAgrees(table', proc', shell')
<1>1. TableSound(table) /\ KernelAgrees(table, proc, shell) /\ proc \in [Pid -> ProcState]
  BY Sound
<1> QED BY <1>1, KernelKept

LEMMA BoundaryKeeps ==
  ASSUME JobIInv, Boundary
  PROVE  JobIInv'
<1>1. TableSound(table') /\ KernelAgrees(table', proc', shell') /\ interactive' \in BOOLEAN
  <2>1. KeptPids(table, table)
    BY NothingChanges, SameIsKept
  <2> QED BY <2>1, Sound, StillAgrees DEF Boundary
<1>2. CASE table.live = 0
  BY <1>1, <1>2, AtRest DEF Boundary
<1>3. CASE table.live # 0
  <2>1. /\ shell' \in ShellState /\ shell'.at = "reaping" /\ shell'.left = ReapablePids(table)
    BY <1>3, Sound DEF Boundary, Fresh, ShellState
  <2>2. PlaceSound(table', proc', shell')
    BY <2>1 DEF PlaceSound, Boundary
  <2> QED BY <1>1, <2>1, <2>2, StateIsSound
<1> QED BY <1>2, <1>3

LEMMA ReapKeeps ==
  ASSUME JobIInv, Reap
  PROVE  JobIInv'
<1> DEFINE p == Least(shell.left)
<1>1. /\ shell.at = "reaping" /\ shell.left # {} /\ shell.left \subseteq ReapablePids(table)
      /\ shell \in ShellState /\ ReapablePids(table) \subseteq Pid
  BY Sound DEF Reap, PlaceSound
<1>2. p \in shell.left /\ p \in ReapablePids(table) /\ p \in Pid
  BY <1>1, LeastIsOne
<1>3. /\ shell' = [shell EXCEPT !.left = @ \ {p}] /\ interactive' = interactive
      /\ \/ proc[p] \in {"running", "parked"} /\ UNCHANGED <<proc, table>>
         \/ proc[p] = "zombie" /\ Collect(p)
         \/ proc[p] = "stopped" /\ table' = Stopped(table, p) /\ Become({p}, "parked")
         \/ proc[p] = "continued" /\ table' = Continued(table, p) /\ Become({p}, "running")
         \/ proc[p] \in {"kept", "gone"} /\ table' = Abandon(table, p) /\ UNCHANGED proc
  BY DEF Reap
<1> HIDE DEF p
<1>4. shell' \in ShellState /\ shell'.at = "reaping" /\ shell'.left = shell.left \ {p}
  BY <1>1, <1>3 DEF ShellState
<1>5. ASSUME TableSound(table'), KernelAgrees(table', proc', shell'),
             \A q \in ReapablePids(table) : q = p \/ q \in ReapablePids(table')
      PROVE  JobIInv'
  <2>1. PlaceSound(table', proc', shell')
    BY <1>1, <1>4, <1>5 DEF PlaceSound
  <2> QED BY <1>3, <1>4, <1>5, <2>1, Sound, StateIsSound
<1>6. ASSUME TableSound(table'), SamePids(table, table'), proc' \in [Pid -> ProcState],
             \A q \in Pid : proc'[q] = proc[q] \/ (proc[q] \in Alive /\ proc'[q] \in Alive \cup {"zombie"})
      PROVE  JobIInv'
  <2>1. KeptPids(table, table')
    BY <1>6, SameIsKept
  <2>2. KernelAgrees(table', proc', shell')
    BY <1>1, <1>6, <2>1, Sound, KernelKept
  <2>3. \A q \in ReapablePids(table) : q \in ReapablePids(table')
    BY <1>6 DEF SamePids
  <2> QED BY <1>5, <1>6, <2>2, <2>3
<1>7. CASE UNCHANGED <<proc, table>>
  <2>1. SamePids(table, table')
    BY <1>7, NothingChanges
  <2>2. TableSound(table')
    BY <1>7, Sound
  <2> QED BY <1>6, <1>7, <2>1, <2>2, Sound
<1>8. CASE proc[p] = "zombie" /\ Collect(p)
  <2>1. TableSound(table') /\ LessOf(table, table', p) /\ KernelAgrees(table', proc', shell')
    BY <1>1, <1>2, <1>8, CollectIs
  <2> QED BY <1>5, <2>1 DEF LessOf
<1>9. CASE /\ proc[p] \in Alive /\ table' \in {Stopped(table, p), Continued(table, p)}
           /\ \E state \in Alive : Become({p}, state)
  <2>1. TableSound(table') /\ SamePids(table, table')
    BY <1>2, <1>9, Sound, StoppedIs
  <2>2. /\ proc' \in [Pid -> ProcState]
        /\ \A q \in Pid : proc'[q] = proc[q] \/ (proc[q] \in Alive /\ proc'[q] \in Alive \cup {"zombie"})
    BY <1>2, <1>9, Sound DEF Become, Alive, ProcState
  <2> QED BY <1>6, <2>1, <2>2
<1>10. CASE proc[p] \in {"kept", "gone"} /\ table' = Abandon(table, p) /\ UNCHANGED proc
  <2>1. proc[p] = "gone"
    BY <1>2, <1>10, Sound DEF KernelAgrees
  <2>2. \A n \in JobId : p \in table.job[n].pids => Several(table.job[n].stages)
    BY <1>1, <2>1, Sound DEF KernelAgrees
  <2>3. TableSound(table') /\ LessOf(table, table', p) /\ table'.statuses = table.statuses
    BY <1>2, <1>10, <2>2, Sound, AbandonIs
  <2>4. KernelAgrees(table', proc', shell')
    BY <1>1, <1>2, <1>10, <2>1, <2>3, Sound, KernelBuried
  <2> QED BY <1>5, <2>3, <2>4 DEF LessOf
<1> QED BY <1>3, <1>7, <1>8, <1>9, <1>10 DEF Alive

LEMMA AnnounceChangesKeeps ==
  ASSUME JobIInv, AnnounceChanges
  PROVE  JobIInv'
<1>1. TableSound(table') /\ KeptPids(table, table')
  BY Sound, NoticedIs, RetiredIs DEF AnnounceChanges, ForgetStaleCompletions
<1> QED BY <1>1, Sound, StillAgrees, AtRest DEF AnnounceChanges

\* The shell is done with a command, of whose children the kernel was not asked.
LEMMA DoneKeeps ==
  ASSUME JobIInv, Done, TableSound(table'), KeptPids(table, table'), UNCHANGED <<proc, interactive>>,
         shell.at \notin {"pipeline", "foreground"}
  PROVE  JobIInv'
BY Sound, StillAgrees, AtRest DEF Done

LEMMA ReturnKeeps ==
  ASSUME JobIInv, Return \/ Interrupt
  PROVE  JobIInv'
<1>1. KeptPids(table, table') /\ TableSound(table')
  BY NothingChanges, SameIsKept, Sound DEF Return, Interrupt
<1> QED BY <1>1, DoneKeeps DEF Return, Interrupt

LEMMA JobsKeeps ==
  ASSUME JobIInv, Jobs
  PROVE  JobIInv'
<1>1. TableSound(table') /\ KeptPids(table, table')
  BY Sound, RetiredIs DEF Jobs
<1> QED BY <1>1, DoneKeeps DEF Jobs, Ready

LEMMA DisownKeeps ==
  ASSUME JobIInv, NEW n \in JobId, Disown(n)
  PROVE  JobIInv'
<1>1. CASE table' = RemoveJob(table, n)
  BY <1>1, Sound, RemoveKeepsPids, DoneKeeps DEF Disown, Ready
<1>2. CASE table' = [table EXCEPT !.job[n].notified = TRUE]
  <2>1. table \in TableState /\ table.job[n] \in Job /\ table.job[n].state # "none"
    BY Sound, TableParts DEF TableSound, Disown, Present
  <2>2. /\ table' \in TableState /\ table'.job = [table.job EXCEPT ![n] = table'.job[n]]
        /\ table'.job[n].state = table.job[n].state /\ table'.job[n].status = table.job[n].status
        /\ table'.job[n].pids = table.job[n].pids /\ table'.job[n].stages = table.job[n].stages
        /\ table'.job[n].ended = table.job[n].ended /\ table'.orphans = table.orphans
        /\ table'.live = table.live /\ table'.statuses = table.statuses
        /\ table'.current = table.current /\ table'.previous = table.previous
    BY <1>2, <2>1 DEF TableState, Job
  <2>3. NamesSound(table) => NamesSound(table')
    <3>1. \A m \in JobId : table'.job[m].state = table.job[m].state
      BY <2>1, <2>2 DEF TableState
    <3> QED BY <2>2, <3>1, NamesByPresence
  <2>4. TableSound(table') /\ SamePids(table, table')
    BY <2>1, <2>2, <2>3, Sound, MarkedIs
  <2> QED BY <2>4, SameIsKept, DoneKeeps DEF Disown, Ready
<1> QED BY <1>1, <1>2 DEF Disown

-----------------------------------------------------------------------------
(* Children that are born, and jobs that go to the foreground and back. *)

LEMMA ForkedIs ==
  ASSUME JobIInv, NEW n
  PROVE  /\ Forked(n) \subseteq Pid /\ Forked(n) \cap Listed(table) = {}
         /\ \A p \in Forked(n) : proc[p] = "unborn"
<1>1. Forked(n) \subseteq Pid /\ \A p \in Forked(n) : proc[p] = "unborn"
  BY DEF Forked, Unborn
<1> QED BY <1>1, Sound DEF KernelAgrees

\* Some processes become a job's, or the disowned's, and nothing else changes.
LEMMA KernelMore ==
  ASSUME NEW t, NEW u, NEW pr, NEW pr2, NEW sh, NEW sh2, NEW ps \in SUBSET Pid,
         ps \cap Listed(t) = {},
         TableSound(t), TableSound(u), KernelAgrees(t, pr, sh), u.statuses = t.statuses,
         \A p : /\ p \in ReapablePids(u) <=> p \in ReapablePids(t) \cup ps
                /\ p \in Listed(u) => p \in Listed(t) \cup ps,
         \A m \in JobId : \/ u.job[m].pids = t.job[m].pids /\ u.job[m].stages = t.job[m].stages
                          \/ u.job[m].pids = ps /\ u.job[m].stages = ps,
         pr2 \in [Pid -> ProcState], \A p \in Pid : p \in ps \/ pr2[p] = pr[p],
         \A p \in ps : /\ pr[p] # "kept" /\ pr2[p] \notin {"unborn", "kept"}
                       /\ pr2[p] = "gone" => Several(ps),
         sh.at # "foreground", sh.at = "pipeline" => sh.asked \subseteq ps
  PROVE  KernelAgrees(u, pr2, sh2)
<1>1. ReapablePids(u) \subseteq Pid /\ Listed(u) \subseteq Pid
  BY ReapablesCount
<1>2. \A p \in Listed(u) : pr2[p] # "unborn"
  BY <1>1 DEF KernelAgrees
<1>3. \A p \in ReapablePids(u) : pr2[p] # "kept"
  BY <1>1 DEF KernelAgrees
<1>4. ASSUME NEW p \in Pid
      PROVE  /\ pr2[p] \in Alive \cup {"zombie"} =>
                  p \in ReapablePids(u) \/ (sh2.at = "pipeline" /\ p \in sh2.asked)
             /\ pr2[p] = "kept" <=> Recalled(u, p) # {}
  <2>1. Recalled(u, p) = Recalled(t, p)
    BY DEF Recalled
  <2> QED BY <2>1 DEF KernelAgrees
<1>5. ASSUME NEW m \in JobId, NEW p \in u.job[m].pids, pr2[p] = "gone"
      PROVE  Several(u.job[m].stages)
  <2>1. p \in Pid
    BY TableParts
  <2>2. CASE u.job[m].pids = ps /\ u.job[m].stages = ps
    BY <1>5, <2>2
  <2>3. CASE u.job[m].pids = t.job[m].pids /\ u.job[m].stages = t.job[m].stages
    <3>1. p \in Listed(t)
      BY <2>3, ReapableIs, ReapablesCount DEF TableSound
    <3> QED BY <1>5, <2>1, <2>3, <3>1 DEF KernelAgrees
  <2> QED BY <2>2, <2>3
<1> QED BY <1>2, <1>3, <1>4, <1>5 DEF KernelAgrees

LEMMA SpawnBackgroundKeeps ==
  ASSUME JobIInv, SpawnBackground
  PROVE  JobIInv'
<1> DEFINE ps == Forked(1)
           n == NextJobId(table)
<1>1. ps \in SUBSET Pid /\ ps \cap Listed(table) = {} /\ \A p \in ps : proc[p] = "unborn"
  BY ForkedIs
<1>2. /\ n \in JobId /\ Become(ps, "running") /\ table' = AddJob(table, ps, "running", FALSE)
      /\ shell.at = "ready" /\ Done /\ interactive' = interactive
  BY DEF SpawnBackground, Ready
<1> HIDE DEF ps
<1>3. /\ TableSound(table') /\ table'.statuses = table.statuses
      /\ table'.job = [table.job EXCEPT ![n] = table'.job[n]]
      /\ table'.job[n].pids = ps /\ table'.job[n].stages = ps
      /\ \A p : /\ p \in ReapablePids(table') <=> p \in ReapablePids(table) \cup ps
                /\ p \in Listed(table') => p \in Listed(table) \cup ps
  BY <1>1, <1>2, Sound, AddJobIs
<1>4. /\ proc' \in [Pid -> ProcState] /\ (\A p \in Pid : p \in ps \/ proc'[p] = proc[p])
      /\ \A p \in ps : proc'[p] = "running"
  BY <1>1, <1>2, Sound DEF Become, ProcState
<1>5. \A m \in JobId : \/ table'.job[m].pids = table.job[m].pids /\ table'.job[m].stages = table.job[m].stages
                       \/ table'.job[m].pids = ps /\ table'.job[m].stages = ps
  <2>1. \A m \in JobId : m = n \/ table'.job[m] = table.job[m]
    BY <1>2, <1>3, Sound, TableParts
  <2> QED BY <1>3, <2>1
<1>6. KernelAgrees(table', proc', shell')
  <2>1. \A p \in ps : /\ proc[p] # "kept" /\ proc'[p] \notin {"unborn", "kept"}
                      /\ proc'[p] = "gone" => Several(ps)
    BY <1>1, <1>4
  <2>2. shell.at # "foreground" /\ shell.at # "pipeline" /\ TableSound(table) /\ KernelAgrees(table, proc, shell)
    BY <1>2, Sound
  <2>3. table'.statuses = table.statuses /\ (shell.at = "pipeline" => shell.asked \subseteq ps)
    BY <1>3, <2>2
  <2> DEFINE u == table'
             pr2 == proc'
             sh2 == shell'
  <2>4. /\ TableSound(u) /\ u.statuses = table.statuses
        /\ \A p : /\ p \in ReapablePids(u) <=> p \in ReapablePids(table) \cup ps
                  /\ p \in Listed(u) => p \in Listed(table) \cup ps
    BY <1>3
  <2>5. \A m \in JobId : \/ u.job[m].pids = table.job[m].pids /\ u.job[m].stages = table.job[m].stages
                         \/ u.job[m].pids = ps /\ u.job[m].stages = ps
    BY <1>5
  <2>6. /\ pr2 \in [Pid -> ProcState] /\ (\A p \in Pid : p \in ps \/ pr2[p] = proc[p])
        /\ \A p \in ps : /\ proc[p] # "kept" /\ pr2[p] \notin {"unborn", "kept"}
                         /\ pr2[p] = "gone" => Several(ps)
    BY <1>4, <2>1
  <2> HIDE DEF u, pr2, sh2
  <2>7. KernelAgrees(u, pr2, sh2)
    BY <1>1, <2>2, <2>3, <2>4, <2>5, <2>6, KernelMore
  <2> QED BY <2>7 DEF u, pr2, sh2
<1> QED BY <1>2, <1>3, <1>6, Sound, AtRest DEF Done

LEMMA AdoptStrayKeeps ==
  ASSUME JobIInv, AdoptStray
  PROVE  JobIInv'
<1> DEFINE ps == Forked(1)
<1>1. ps \in SUBSET Pid /\ ps \cap Listed(table) = {} /\ \A p \in ps : proc[p] = "unborn"
  BY ForkedIs
<1>2. /\ ps # {} /\ Become(ps, "running") /\ Done /\ interactive' = interactive
      /\ table' = [table EXCEPT !.orphans = @ \cup ps, !.live = @ + 1] /\ shell.at = "ready"
  BY DEF AdoptStray, Ready
<1>3. Cardinality(ps) <= 1
  <2>1. Unborn \in SUBSET Nat /\ IsFiniteSet(Unborn) /\ \A S \in SUBSET Unborn : IsFiniteSet(S)
    BY NumbersFinite DEF Unborn
  <2>2. Unborn # {}
    BY <1>2 DEF Forked, Unborn
  <2>3. PICK q \in Unborn : \A m \in Unborn : q <= m
    BY <2>1, <2>2, Extremes
  <2>4. ASSUME NEW p \in ps PROVE p = q
    <3> DEFINE less == {r \in Unborn : r < p}
    <3>1. p \in Unborn /\ Cardinality(less) < 1
      BY <2>4 DEF Forked
    <3>2. IsFiniteSet(less) /\ Cardinality(less) \in Nat
      BY <2>1, FS_CardinalityType
    <3> HIDE DEF less
    <3>3. less = {}
      BY <3>1, <3>2, FS_EmptySet
    <3>4. q \notin less
      BY <3>3
    <3>5. q \in Nat /\ p \in Nat /\ q <= p /\ ~ q < p
      BY <2>1, <2>3, <3>1, <3>4 DEF less
    <3> QED BY <3>5
  <2>5. ps = {q}
    BY <1>2, <2>4
  <2>6. Cardinality({q}) = 1
    BY FS_Singleton
  <2> HIDE DEF ps
  <2> QED BY <2>5, <2>6
<1> HIDE DEF ps
<1>4. table \in TableState /\ table.orphans \subseteq Pid /\ table.live \in Nat
  BY Sound, TableParts DEF TableSound
<1>5. /\ table' \in TableState /\ table'.job = table.job /\ table'.orphans = table.orphans \cup ps
      /\ table'.live = table.live + 1 /\ table'.statuses = table.statuses
      /\ table'.current = table.current /\ table'.previous = table.previous
  <2>1. table.orphans \cup ps \in SUBSET Pid
    BY <1>1, <1>4
  <2>2. table.live + 1 \in Nat
    BY <1>4
  <2> QED BY <1>2, <1>4, <2>1, <2>2 DEF TableState
<1>6. ASSUME NEW m \in JobId PROVE JobIsSound(table', m)
  <2>1. JobIsSound(table, m)
    BY Sound DEF TableSound
  <2>2. table.job[m].stages \cap ps = {}
    BY <1>1, ListedIs
  <2> QED BY <1>5, <2>1, <2>2 DEF JobIsSound
<1>7. \A p : /\ p \in ReapablePids(table') <=> p \in ReapablePids(table) \cup ps
             /\ p \in Listed(table') => p \in Listed(table) \cup ps
  <2>1. \A p : p \in ReapablePids(table') <=> p \in table'.orphans \/ \E m \in JobId : p \in table'.job[m].pids
    BY <1>6, ReapableIs
  <2>2. \A p : p \in ReapablePids(table) <=> p \in table.orphans \/ \E m \in JobId : p \in table.job[m].pids
    BY Sound, ReapableIs DEF TableSound
  <2>3. \A p : p \in Listed(table') => p \in Listed(table) \cup ps
    BY <1>5, ListedIs
  <2> QED BY <1>5, <2>1, <2>2, <2>3
<1>8. Cardinality(ReapablePids(table')) <= table'.live
  <2>1. ReapablePids(table') = ReapablePids(table) \cup ps
    BY <1>7
  <2>2. IsFiniteSet(ReapablePids(table)) /\ Cardinality(ReapablePids(table)) \in Nat
        /\ Cardinality(ReapablePids(table)) <= table.live
    BY Sound, ReapablesCount
  <2>3. IsFiniteSet(ps) /\ Cardinality(ps) \in Nat
    BY <1>1, NumbersFinite
  <2>4. /\ IsFiniteSet(ReapablePids(table) \cap ps) /\ Cardinality(ReapablePids(table) \cap ps) \in Nat
    BY <2>3, FS_Subset, FS_CardinalityType
  <2>5. Cardinality(ReapablePids(table) \cup ps) =
          Cardinality(ReapablePids(table)) + Cardinality(ps) - Cardinality(ReapablePids(table) \cap ps)
    BY <2>2, <2>3, FS_Union
  <2> QED BY <1>3, <1>4, <1>5, <2>1, <2>2, <2>3, <2>4, <2>5
<1>9. TableSound(table')
  <2>1. NamesSound(table')
    BY <1>5, Sound, NamesByPresence DEF TableSound
  <2> QED BY <1>5, <1>6, <1>8, <2>1, Sound DEF TableSound
<1>10. /\ proc' \in [Pid -> ProcState] /\ (\A p \in Pid : p \in ps \/ proc'[p] = proc[p])
       /\ \A p \in ps : proc'[p] = "running"
  BY <1>1, <1>2, Sound DEF Become, ProcState
<1>11. KernelAgrees(table', proc', shell')
  <2>1. \A p \in ps : /\ proc[p] # "kept" /\ proc'[p] \notin {"unborn", "kept"}
                      /\ proc'[p] = "gone" => Several(ps)
    BY <1>1, <1>10
  <2>2. shell.at # "foreground" /\ shell.at # "pipeline" /\ TableSound(table) /\ KernelAgrees(table, proc, shell)
    BY <1>2, Sound
  <2>3. \A m \in JobId : /\ table'.job[m].pids = table.job[m].pids
                          /\ table'.job[m].stages = table.job[m].stages
    BY <1>5
  <2>4. table'.statuses = table.statuses
    BY <1>5
  <2> QED BY <1>1, <1>7, <1>9, <1>10, <2>1, <2>2, <2>3, <2>4, KernelMore
<1> QED BY <1>2, <1>9, <1>11, Sound, AtRest DEF Done

LEMMA RunPipelineKeeps ==
  ASSUME JobIInv, NEW n \in {1, 2}, RunPipeline(n)
  PROVE  JobIInv'
<1> DEFINE ps == Forked(n)
<1>1. ps \in SUBSET Pid /\ ps \cap Listed(table) = {} /\ \A p \in ps : proc[p] = "unborn"
  BY ForkedIs
<1>2. /\ Become(ps, "running") /\ table' = table /\ interactive' = interactive
      /\ shell' = [Fresh("pipeline") EXCEPT !.left = ps, !.asked = ps] /\ shell.at = "ready"
      /\ NextJobId(table) \in JobId
  BY DEF RunPipeline, Ready
<1> HIDE DEF ps
<1>3. /\ proc' \in [Pid -> ProcState] /\ (\A p \in Pid : p \in ps \/ proc'[p] = proc[p])
      /\ \A p \in ps : proc'[p] = "running"
  BY <1>1, <1>2, Sound DEF Become, ProcState
<1>4. /\ shell' \in ShellState /\ shell'.at = "pipeline" /\ shell'.left = ps /\ shell'.asked = ps
      /\ shell'.stop = FALSE
  BY <1>1, <1>2 DEF Fresh, ShellState
<1>5. KernelAgrees(table, proc', shell')
  <2>1. \A p \in Listed(table) : p \in Pid /\ p \notin ps /\ proc'[p] = proc[p]
    BY <1>1, <1>3, Sound, ReapablesCount
  <2>2. \A p \in ReapablePids(table) : p \in Listed(table)
    BY Sound, ReapablesCount
  <2>3. ASSUME NEW m \in JobId, NEW p \in table.job[m].pids
        PROVE  proc'[p] = "gone" => Several(table.job[m].stages)
    <3>1. p \in Listed(table)
      BY <2>2, Sound, ReapableIs DEF TableSound
    <3> QED BY <1>2, <2>1, <3>1, Sound DEF KernelAgrees
  <2>4. \A p \in Pid : /\ proc'[p] \in Alive \cup {"zombie"} => p \in ReapablePids(table) \/ p \in ps
                       /\ proc'[p] = "kept" <=> Recalled(table, p) # {}
    BY <1>1, <1>2, <1>3, Sound DEF KernelAgrees
  <2> QED BY <1>3, <1>4, <2>1, <2>2, <2>3, <2>4, Sound DEF KernelAgrees
<1>6. PlaceSound(table, proc', shell')
  BY <1>1, <1>2, <1>3, <1>4 DEF PlaceSound
<1> QED BY <1>2, <1>4, <1>5, <1>6, Sound, StateIsSound

LEMMA WaitPipelineKeeps ==
  ASSUME JobIInv, WaitPipeline
  PROVE  JobIInv'
<1> DEFINE ps == shell.asked
<1>1. /\ shell.at = "pipeline" /\ ps \in SUBSET Pid /\ shell.left \subseteq ps /\ ps \cap Listed(table) = {}
      /\ NextJobId(table) \in JobId /\ \A p \in ps : proc[p] \notin {"unborn", "kept"}
      /\ IF shell.stop THEN \E p \in ps \ shell.left : proc[p] # "gone"
                       ELSE \A p \in ps \ shell.left : proc[p] = "gone"
  BY Sound DEF WaitPipeline, PlaceSound, ShellState
<1>2. CASE shell.left = {} /\ shell.stop
  <2> DEFINE n == NextJobId(table)
  <2>1. table' = AddJob(table, ps, "stopped", TRUE) /\ Done /\ proc' = proc /\ interactive' = interactive
    BY <1>2 DEF WaitPipeline
  <2> HIDE DEF ps
  <2>2. /\ TableSound(table') /\ table'.statuses = table.statuses
        /\ table'.job = [table.job EXCEPT ![n] = table'.job[n]]
        /\ table'.job[n].pids = ps /\ table'.job[n].stages = ps
        /\ \A p : /\ p \in ReapablePids(table') <=> p \in ReapablePids(table) \cup ps
                  /\ p \in Listed(table') => p \in Listed(table) \cup ps
    <3>1. TableSound(table) /\ ps \in SUBSET Pid /\ ps \cap Listed(table) = {}
          /\ NextJobId(table) \in JobId
      BY <1>1, Sound
    <3> DEFINE u == AddJob(table, ps, "stopped", TRUE)
    <3>2. u = table'
      BY <2>1
    <3>3. /\ TableSound(u) /\ u.statuses = table.statuses
          /\ u.job = [table.job EXCEPT ![n] = u.job[n]]
          /\ u.job[n].pids = ps /\ u.job[n].stages = ps
          /\ \A p : /\ p \in ReapablePids(u) <=> p \in ReapablePids(table) \cup ps
                    /\ p \in Listed(u) => p \in Listed(table) \cup ps
      BY <3>1, AddJobIs
    <3> HIDE DEF u
    <3> QED BY <3>2, <3>3
  <2>3. \A m \in JobId : \/ table'.job[m].pids = table.job[m].pids /\ table'.job[m].stages = table.job[m].stages
                         \/ table'.job[m].pids = ps /\ table'.job[m].stages = ps
    <3>1. \A m \in JobId : m = n \/ table'.job[m] = table.job[m]
      BY <1>1, <2>2, Sound, TableParts
    <3> QED BY <2>2, <3>1
  <2>4. \A p \in ps : /\ proc[p] # "kept" /\ proc'[p] \notin {"unborn", "kept"}
                      /\ proc'[p] = "gone" => Several(ps)
    BY <1>1, <1>2, <2>1 DEF Several
  <2>5. /\ shell.at # "foreground" /\ (shell.at = "pipeline" => shell.asked \subseteq ps)
        /\ TableSound(table) /\ KernelAgrees(table, proc, shell)
    BY <1>1, Sound DEF ps
  <2>6. proc' \in [Pid -> ProcState] /\ \A p \in Pid : p \in ps \/ proc'[p] = proc[p]
    BY <2>1, Sound
  <2>7. KernelAgrees(table', proc', shell')
    BY <1>1, <2>2, <2>3, <2>4, <2>5, <2>6, KernelMore
  <2> QED BY <2>1, <2>2, <2>7, Sound, AtRest DEF Done
<1>3. CASE shell.left = {} /\ ~ shell.stop
  <2>1. table' = table /\ Done /\ proc' = proc /\ interactive' = interactive
    BY <1>3 DEF WaitPipeline
  <2>2. \A p \in ps : proc[p] = "gone"
    BY <1>1, <1>3
  <2>3. KernelAgrees(table, proc, shell')
    BY <1>1, <2>2, Sound DEF KernelAgrees, Alive
  <2> QED BY <2>1, <2>3, Sound, AtRest DEF Done
<1>4. CASE shell.left # {}
  <2> DEFINE p == Least(shell.left)
  <2>1. p \in shell.left /\ p \in ps /\ p \in Pid
    BY <1>1, <1>4, LeastIsOne
  <2>2. /\ table' = table /\ interactive' = interactive
        /\ \/ /\ proc[p] = "zombie" /\ Become({p}, "gone")
              /\ shell' = [shell EXCEPT !.left = @ \ {p}]
           \/ /\ proc[p] = "stopped" /\ Become({p}, "parked")
              /\ shell' = [shell EXCEPT !.left = @ \ {p}, !.stop = TRUE]
    BY <1>4 DEF WaitPipeline
  <2> HIDE DEF p
  <2>3. /\ shell' \in ShellState /\ shell'.at = "pipeline" /\ shell'.asked = ps
        /\ shell'.left = shell.left \ {p}
        /\ \/ proc[p] = "zombie" /\ proc'[p] = "gone" /\ shell'.stop = shell.stop
           \/ proc[p] = "stopped" /\ proc'[p] = "parked" /\ shell'.stop = TRUE
    <3>1. shell \in ShellState /\ shell.left \ {p} \in SUBSET Pid
      BY Sound DEF ShellState
    <3>2. \A state : Become({p}, state) => proc'[p] = state
      BY <2>1 DEF Become
    <3>3. CASE proc[p] = "zombie" /\ Become({p}, "gone") /\ shell' = [shell EXCEPT !.left = @ \ {p}]
      <4>1. /\ shell' \in ShellState /\ shell'.at = shell.at /\ shell'.asked = shell.asked
            /\ shell'.left = shell.left \ {p} /\ shell'.stop = shell.stop
        BY <3>1, <3>3 DEF ShellState
      <4> QED BY <1>1, <3>2, <3>3, <4>1
    <3>4. CASE /\ proc[p] = "stopped" /\ Become({p}, "parked")
               /\ shell' = [shell EXCEPT !.left = @ \ {p}, !.stop = TRUE]
      <4>1. /\ shell' \in ShellState /\ shell'.at = shell.at /\ shell'.asked = shell.asked
            /\ shell'.left = shell.left \ {p} /\ shell'.stop = TRUE
        BY <3>1, <3>4 DEF ShellState
      <4> QED BY <1>1, <3>2, <3>4, <4>1
    <3> QED BY <2>2, <3>3, <3>4
  <2>4. proc' \in [Pid -> ProcState] /\ \A q \in Pid : q = p \/ proc'[q] = proc[q]
    BY <2>1, <2>2, Sound DEF Become, ProcState
  <2> HIDE DEF ps
  <2>5. KernelAgrees(table, proc', shell')
    <3>1. \A q \in Listed(table) : q \in Pid /\ q # p /\ proc'[q] = proc[q]
      BY <1>1, <2>1, <2>4, Sound, ReapablesCount
    <3>2. \A q \in ReapablePids(table) : q \in Listed(table)
      BY Sound, ReapablesCount
    <3>3. ASSUME NEW m \in JobId, NEW q \in table.job[m].pids
          PROVE  proc'[q] = "gone" => Several(table.job[m].stages)
      <4>1. q \in Listed(table)
        BY <3>2, Sound, ReapableIs DEF TableSound
      <4> QED BY <1>1, <3>1, <4>1, Sound DEF KernelAgrees
    <3>4. ASSUME NEW q \in Pid
          PROVE  /\ proc'[q] \in Alive \cup {"zombie"} => q \in ReapablePids(table) \/ q \in ps
                 /\ proc'[q] = "kept" <=> Recalled(table, q) # {}
      <4>1. proc[p] # "kept"
        BY <2>3
      <4>2. /\ proc[q] \in Alive \cup {"zombie"} => q \in ReapablePids(table) \/ q \in ps
            /\ proc[q] = "kept" <=> Recalled(table, q) # {}
        BY Sound DEF KernelAgrees, ps
      <4>3. proc'[p] # "kept"
        BY <2>3
      <4> QED BY <2>1, <2>4, <4>1, <4>2, <4>3
    <3> QED BY <2>3, <2>4, <3>1, <3>2, <3>3, <3>4, Sound DEF KernelAgrees
  <2>6. PlaceSound(table, proc', shell')
    <3>1. shell'.left \subseteq ps /\ \A q \in ps : q \in Pid /\ proc'[q] \notin {"unborn", "kept"}
      BY <1>1, <2>3, <2>4
    <3>2. CASE proc[p] = "zombie" /\ proc'[p] = "gone" /\ shell'.stop = shell.stop
      <4>1. IF shell'.stop THEN \E q \in ps \ shell'.left : proc'[q] # "gone"
                           ELSE \A q \in ps \ shell'.left : proc'[q] = "gone"
        BY <1>1, <2>1, <2>3, <2>4, <3>1, <3>2
      <4> QED BY <1>1, <2>3, <3>1, <4>1 DEF PlaceSound
    <3>3. CASE proc[p] = "stopped" /\ proc'[p] = "parked" /\ shell'.stop = TRUE
      <4>1. \E q \in ps \ shell'.left : proc'[q] # "gone"
        BY <2>1, <2>3, <3>3
      <4> QED BY <1>1, <2>3, <3>1, <3>3, <4>1 DEF PlaceSound
    <3> QED BY <2>3, <3>2, <3>3
  <2> QED BY <2>2, <2>3, <2>5, <2>6, Sound, StateIsSound
<1> QED BY <1>2, <1>3, <1>4

\* `bg` and `fg` have the job running again, told of and promoted.
LEMMA RunningAgain ==
  ASSUME JobIInv, NEW n \in JobId, n \in Present(table), shell.at = "ready",
         table' = Promote([table EXCEPT !.job[n].state = "running", !.job[n].notified = TRUE], n),
         Become(Woken(table.job[n].stages), "continued")
  PROVE  /\ TableSound(table') /\ SamePids(table, table') /\ table'.job[n].state = "running"
         /\ KernelAgrees(table', proc', shell')
<1> DEFINE u == [table EXCEPT !.job[n].state = "running", !.job[n].notified = TRUE]
<1>1. table \in TableState /\ table.job[n] \in Job /\ table.job[n].state # "none"
  BY Sound, TableParts DEF TableSound, Present
<1>2. /\ u \in TableState /\ u.job = [table.job EXCEPT ![n] = u.job[n]]
      /\ u.job[n].state = "running"
      /\ u.job[n].pids = table.job[n].pids /\ u.job[n].stages = table.job[n].stages
      /\ u.job[n].ended = table.job[n].ended /\ u.orphans = table.orphans
      /\ u.live = table.live /\ u.statuses = table.statuses
      /\ u.current = table.current /\ u.previous = table.previous
  <2> DEFINE j == [table.job[n] EXCEPT !.state = "running", !.notified = TRUE]
  <2>1. u = [table EXCEPT !.job = [table.job EXCEPT ![n] = j]]
    BY <1>1 DEF TableState
  <2>2. /\ j \in Job /\ j.state = "running" /\ j.pids = table.job[n].pids
        /\ j.stages = table.job[n].stages /\ j.ended = table.job[n].ended
    BY <1>1 DEF Job
  <2> HIDE DEF j, u
  <2>3. [table.job EXCEPT ![n] = j] \in [JobId -> Job] /\ [table.job EXCEPT ![n] = j][n] = j
    BY <1>1, <2>2 DEF TableState
  <2>4. u \in TableState /\ u.job = [table.job EXCEPT ![n] = j] /\ u.orphans = table.orphans
        /\ u.live = table.live /\ u.statuses = table.statuses
        /\ u.current = table.current /\ u.previous = table.previous
    BY <1>1, <2>1, <2>3 DEF TableState
  <2> QED BY <2>2, <2>3, <2>4
<1>3. table' = Promote(u, n)
  OBVIOUS
<1> HIDE DEF u
<1>4. /\ table' \in TableState /\ table'.job = u.job /\ table'.orphans = u.orphans
      /\ table'.live = u.live /\ table'.statuses = u.statuses
      /\ NamesSound(table) => NamesSound(table')
  <2>1. NamesSound(table) => NamesSound(u)
    <3>1. \A m \in JobId : u.job[m].state = "none" <=> table.job[m].state = "none"
      BY <1>1, <1>2 DEF TableState
    <3> QED BY <1>2, <3>1, NamesByPresence
  <2> QED BY <1>2, <1>3, <2>1, PromoteIs
<1>5. TableSound(table') /\ SamePids(table, table')
  BY <1>1, <1>2, <1>4, Sound, MarkedIs
<1>6. /\ proc' \in [Pid -> ProcState]
      /\ \A q \in Pid : proc'[q] = proc[q] \/ (proc[q] \in Alive /\ proc'[q] \in Alive \cup {"zombie"})
  <2>1. \A q \in Woken(table.job[n].stages) : proc[q] \in Alive
    BY DEF Woken, Alive
  <2> QED BY <2>1, Sound DEF Become, Alive, ProcState
<1>7. KernelAgrees(table', proc', shell')
  BY <1>5, <1>6, Sound, SameIsKept, KernelKept
<1> QED BY <1>2, <1>4, <1>5, <1>7

LEMMA BgKeeps ==
  ASSUME JobIInv, NEW n \in JobId, Bg(n)
  PROVE  JobIInv'
BY RunningAgain, Sound, AtRest DEF Bg, Ready, Done

LEMMA FgKeeps ==
  ASSUME JobIInv, NEW n \in JobId, Fg(n)
  PROVE  JobIInv'
<1>1. /\ TableSound(table') /\ SamePids(table, table') /\ table'.job[n].state = "running"
      /\ KernelAgrees(table', proc', shell')
  BY RunningAgain DEF Fg, Ready
<1>2. table.job[n].pids \subseteq Pid /\ table'.job[n].pids = table.job[n].pids
  BY <1>1, Sound, TableParts DEF SamePids
<1>3. /\ shell' \in ShellState /\ shell'.at = "foreground" /\ shell'.job = n
      /\ shell'.left = table.job[n].pids
  BY <1>2 DEF Fg, Fresh, ShellState
<1>4. PlaceSound(table', proc', shell')
  BY <1>1, <1>2, <1>3 DEF PlaceSound
<1> QED BY <1>1, <1>3, <1>4, Sound, StateIsSound DEF Fg

LEMMA WaitForegroundKeeps ==
  ASSUME JobIInv, WaitForeground
  PROVE  JobIInv'
<1> DEFINE n == shell.job
           p == Least(shell.left)
<1>1. /\ shell.at = "foreground" /\ n \in JobId /\ table.job[n].state = "running"
      /\ shell.left \subseteq table.job[n].pids /\ shell.left \in SUBSET Pid
  BY Sound DEF WaitForeground, PlaceSound, ShellState
<1>2. CASE shell.left = {}
  <2>1. table' = RemoveJob(table, n) /\ Done /\ proc' = proc /\ interactive' = interactive
    BY <1>2 DEF WaitForeground
  <2>2. TableSound(table') /\ KeptPids(table, table')
    BY <1>1, <2>1, Sound, RemoveKeepsPids
  <2>3. table'.job[n].pids = {}
    <3>1. table'.job = [table.job EXCEPT ![n] = NoJob]
      BY <1>1, <2>1, Sound, RemoveJobIs
    <3> QED BY <1>1, <3>1, Sound, TableParts DEF NoJob
  <2>4. KernelAgrees(table', proc', shell')
    BY <1>1, <2>1, <2>2, <2>3, Sound, KernelKept
  <2> QED BY <2>1, <2>2, <2>4, Sound, AtRest DEF Done
<1>3. CASE shell.left # {}
  <2>1. p \in shell.left /\ p \in table.job[n].pids /\ p \in Pid
    BY <1>1, <1>3, LeastIsOne
  <2>2. /\ interactive' = interactive
        /\ \/ /\ proc[p] \in {"zombie", "kept", "gone"} /\ Become({p} \cap Zombies, "gone")
              /\ shell' = [shell EXCEPT !.left = @ \ {p}] /\ table' = table
           \/ /\ proc[p] = "stopped" /\ Become({p}, "parked") /\ Done
              /\ table' = [table EXCEPT !.job[n].state = "stopped", !.job[n].notified = TRUE]
    BY <1>3 DEF WaitForeground
  <2>3. p \in ReapablePids(table) /\ proc[p] # "kept" /\ Recalled(table, p) = {}
    <3>1. p \in ReapablePids(table)
      BY <1>1, <2>1, Sound, ReapableIs DEF TableSound
    <3> QED BY <2>1, <3>1, Sound DEF KernelAgrees
  <2>4. \A m \in JobId : p \in table.job[m].pids => m = n
    BY <1>1, <2>1, Sound, JobOfExpected
  <2> HIDE DEF p, n
  <2>5. CASE /\ proc[p] \in {"zombie", "kept", "gone"} /\ Become({p} \cap Zombies, "gone")
             /\ shell' = [shell EXCEPT !.left = @ \ {p}] /\ table' = table
    <3>1. /\ proc' \in [Pid -> ProcState] /\ proc'[p] = "gone"
          /\ \A q \in Pid : q = p \/ proc'[q] = proc[q]
      BY <2>1, <2>3, <2>5, Sound DEF Become, Zombies, ProcState
    <3>2. /\ shell' \in ShellState /\ shell'.at = "foreground" /\ shell'.job = n
          /\ shell'.left = shell.left \ {p}
      <4>1. shell \in ShellState /\ shell.left \ {p} \in SUBSET Pid
        BY Sound DEF ShellState
      <4> QED BY <1>1, <2>5, <4>1 DEF ShellState, n
    <3>3. KernelAgrees(table, proc', shell')
      <4>1. \A q \in Listed(table) : q \in Pid /\ proc'[q] # "unborn"
        BY <3>1, Sound, ReapablesCount DEF KernelAgrees
      <4>2. \A q \in ReapablePids(table) : q \in Pid /\ proc'[q] # "kept"
        BY <3>1, Sound, ReapablesCount DEF KernelAgrees
      <4>3. ASSUME NEW m \in JobId, NEW q \in table.job[m].pids, proc'[q] = "gone"
            PROVE  Several(table.job[m].stages) \/ m = n
        <5>1. q \in Pid
          BY Sound, TableParts
        <5> QED BY <1>1, <2>4, <3>1, <4>3, <5>1, Sound DEF KernelAgrees, n
      <4>4. ASSUME NEW q \in Pid
            PROVE  /\ proc'[q] \in Alive \cup {"zombie"} => q \in ReapablePids(table)
                   /\ proc'[q] = "kept" <=> Recalled(table, q) # {}
        <5>1. CASE q = p
          BY <2>3, <3>1, <5>1 DEF Alive
        <5>2. CASE q # p
          BY <1>1, <3>1, <5>2, Sound DEF KernelAgrees
        <5> QED BY <5>1, <5>2
      <4> QED BY <3>1, <3>2, <4>1, <4>2, <4>3, <4>4 DEF KernelAgrees
    <3>4. PlaceSound(table, proc', shell')
      BY <1>1, <3>2 DEF PlaceSound, n
    <3> QED BY <2>2, <2>5, <3>2, <3>3, <3>4, Sound, StateIsSound
  <2>6. CASE /\ proc[p] = "stopped" /\ Become({p}, "parked") /\ Done
             /\ table' = [table EXCEPT !.job[n].state = "stopped", !.job[n].notified = TRUE]
    <3>0. table \in TableState /\ n \in JobId /\ table.job[n] \in Job /\ table.job[n].state # "none"
      BY <1>1, Sound, TableParts DEF TableSound, n
    <3>1. /\ table' \in TableState /\ table'.job = [table.job EXCEPT ![n] = table'.job[n]]
          /\ table'.job[n].state = "stopped"
          /\ table'.job[n].pids = table.job[n].pids /\ table'.job[n].stages = table.job[n].stages
          /\ table'.job[n].ended = table.job[n].ended /\ table'.orphans = table.orphans
          /\ table'.live = table.live /\ table'.statuses = table.statuses
          /\ table'.current = table.current /\ table'.previous = table.previous
      <4> DEFINE j == [table.job[n] EXCEPT !.state = "stopped", !.notified = TRUE]
      <4>1. table' = [table EXCEPT !.job = [table.job EXCEPT ![n] = j]]
        BY <2>6, <3>0 DEF TableState
      <4>2. /\ j \in Job /\ j.state = "stopped" /\ j.pids = table.job[n].pids
            /\ j.stages = table.job[n].stages /\ j.ended = table.job[n].ended
        BY <3>0 DEF Job
      <4> HIDE DEF j
      <4>3. [table.job EXCEPT ![n] = j] \in [JobId -> Job] /\ [table.job EXCEPT ![n] = j][n] = j
        BY <3>0, <4>2 DEF TableState
      <4>4. table' \in TableState /\ table'.job = [table.job EXCEPT ![n] = j]
            /\ table'.orphans = table.orphans
            /\ table'.live = table.live /\ table'.statuses = table.statuses
            /\ table'.current = table.current /\ table'.previous = table.previous
        BY <3>0, <4>1, <4>3 DEF TableState
      <4> QED BY <4>2, <4>3, <4>4
    <3>2. NamesSound(table) => NamesSound(table')
      <4>1. \A m \in JobId : table'.job[m].state = "none" <=> table.job[m].state = "none"
        BY <3>0, <3>1 DEF TableState
      <4> QED BY <3>1, <4>1, NamesByPresence
    <3>3. TableSound(table') /\ SamePids(table, table')
      BY <3>0, <3>1, <3>2, Sound, MarkedIs
    <3>4. proc' \in [Pid -> ProcState] /\ proc'[p] = "parked" /\ \A q \in Pid : q = p \/ proc'[q] = proc[q]
      BY <2>1, <2>6, Sound DEF Become, ProcState
    <3>5. KernelAgrees(table', proc', shell')
      <4>1. \A q \in Listed(table') : q \in Pid /\ q \in Listed(table) /\ proc'[q] # "unborn"
        BY <3>3, <3>4, Sound, ReapablesCount DEF KernelAgrees, SamePids
      <4>2. \A q \in ReapablePids(table') : q \in Pid /\ proc'[q] # "kept"
        BY <3>3, <3>4, Sound, ReapablesCount DEF KernelAgrees, SamePids
      <4>3. ASSUME NEW m \in JobId, NEW q \in table'.job[m].pids, proc'[q] = "gone"
            PROVE  Several(table'.job[m].stages)
        <5>1. /\ q \in table.job[m].pids /\ table'.job[m].stages = table.job[m].stages
              /\ q \in Pid /\ q # p /\ proc[q] = "gone"
          BY <3>3, <3>4, <4>3, Sound, TableParts DEF SamePids
        <5>2. CASE m = n
          <6>1. JobIsSound(table, n) /\ p \in table.job[n].stages /\ q \in table.job[n].stages
            BY <2>1, <3>0, <5>1, <5>2, Sound DEF TableSound, JobIsSound
          <6> QED BY <5>1, <5>2, <6>1 DEF Several
        <5>3. CASE m # n
          BY <5>1, <5>3, Sound DEF KernelAgrees, n
        <5> QED BY <5>2, <5>3
      <4>4. ASSUME NEW q \in Pid
            PROVE  /\ proc'[q] \in Alive \cup {"zombie"} => q \in ReapablePids(table')
                   /\ proc'[q] = "kept" <=> Recalled(table', q) # {}
        <5>1. Recalled(table', q) = Recalled(table, q)
          BY <3>1 DEF Recalled
        <5>2. q \in ReapablePids(table') <=> q \in ReapablePids(table)
          BY <3>3 DEF SamePids
        <5>3. CASE q = p
          BY <2>3, <3>4, <5>1, <5>2, <5>3
        <5>4. CASE q # p
          BY <1>1, <3>4, <5>1, <5>2, <5>4, Sound DEF KernelAgrees
        <5> QED BY <5>3, <5>4
      <4> QED BY <3>4, <4>1, <4>2, <4>3, <4>4 DEF KernelAgrees
    <3> QED BY <2>2, <2>6, <3>3, <3>5, Sound, AtRest DEF Done
  <2> QED BY <2>2, <2>5, <2>6
<1> QED BY <1>2, <1>3

-----------------------------------------------------------------------------
(* The builtin `wait`. *)

LEMMA AnswerIs ==
  ASSUME NEW ps \in SUBSET Pid, NEW c \in Code \cup {0, NoSuchChild}, AnswerWith(ps, c),
         IF c = NoSuchChild THEN \A p \in ps : proc'[p] = "gone" ELSE ps = {c} \/ Several(ps)
  PROVE  shell' \in ShellState /\ PlaceSound(table', proc', shell')
<1>1. shell' \in ShellState /\ shell'.at = "answered" /\ shell'.asked = ps /\ shell'.status = c
  BY DEF AnswerWith, Fresh, ShellState
<1>2. PlaceSound(table', proc', shell')
  BY <1>1 DEF PlaceSound
<1> QED BY <1>1, <1>2

LEMMA WaitingIs ==
  ASSUME NEW how \in {"wait", "waitnext"}, NEW ps \in SUBSET Pid, Waiting(how, ps),
         how = "waitnext" => \A p \in ps : proc'[p] \notin {"unborn", "kept"}
  PROVE  shell' \in ShellState /\ PlaceSound(table', proc', shell')
<1>1. /\ shell' \in ShellState /\ shell'.at = how /\ shell'.left = ps /\ shell'.asked = ps
      /\ shell'.status = NoSuchChild
  BY DEF Waiting, Fresh, ShellState
<1>2. PlaceSound(table', proc', shell')
  BY <1>1 DEF PlaceSound
<1> QED BY <1>1, <1>2

LEMMA WaitPidKeeps ==
  ASSUME JobIInv, NEW p \in Pid, NEW how \in {"wait", "waitnext"}, WaitPid(p, how)
  PROVE  JobIInv'
<1>1. shell.at = "ready" /\ proc[p] # "unborn" /\ interactive' = interactive
  BY DEF WaitPid, Ready
<1>2. CASE Recalled(table, p) = {} /\ Waiting(how, {p}) /\ UNCHANGED <<proc, table>>
  <2>1. proc[p] # "kept"
    BY <1>2, Sound DEF KernelAgrees
  <2>2. shell' \in ShellState /\ PlaceSound(table', proc', shell')
    BY <1>1, <1>2, <2>1, WaitingIs
  <2>3. TableSound(table') /\ KeptPids(table, table')
    BY <1>2, Sound, NothingChanges, SameIsKept
  <2>4. KernelAgrees(table', proc', shell')
    BY <1>1, <1>2, <2>3, StillAgrees
  <2> QED BY <1>1, <2>2, <2>3, <2>4, Sound, StateIsSound
<1>3. CASE \E c \in Recalled(table, p) : TakeUp(p) /\ AnswerWith({p}, c)
  <2>1. PICK c \in Recalled(table, p) : TakeUp(p) /\ AnswerWith({p}, c)
    BY <1>3
  <2>2. c = p /\ Recalled(table, p) # {}
    BY <2>1, Sound, RecalledIs DEF TableSound
  <2>3. TableSound(table') /\ KernelAgrees(table', proc', shell')
    BY <1>1, <2>1, <2>2, TakeUpIs
  <2>4. p \in Code \cup {0, NoSuchChild} /\ p # NoSuchChild
    BY NumbersFinite DEF Code
  <2>5. shell' \in ShellState /\ PlaceSound(table', proc', shell')
    BY <2>1, <2>2, <2>4, AnswerIs
  <2> QED BY <1>1, <2>3, <2>5, Sound, StateIsSound
<1> QED BY <1>2, <1>3 DEF WaitPid

\* A job that has ended is told of, and forgotten.
LEMMA ToldOfAJob ==
  ASSUME JobIInv, NEW n \in Finished(table), shell.at = "ready", UNCHANGED <<proc, interactive>>,
         table' = RemoveJob(table, n), AnswerWith(table.job[n].stages, table.job[n].status)
  PROVE  JobIInv'
<1>1. n \in JobId /\ table.job[n].state = "completed"
  BY DEF Finished
<1>2. TableSound(table') /\ KeptPids(table, table')
  BY <1>1, Sound, RemoveKeepsPids
<1>3. KernelAgrees(table', proc', shell')
  BY <1>2, StillAgrees
<1> DEFINE ps == table.job[n].stages
           c == table.job[n].status
<1>4. ps \in SUBSET Pid /\ c \in Code \cup {0} /\ (c \in ps \/ Several(ps))
  BY <1>1, Sound, TableParts DEF Job, JobIsSound
<1>5. AnswerWith(ps, c)
  OBVIOUS
<1> HIDE DEF ps, c
<1>6. c # NoSuchChild /\ (ps = {c} \/ Several(ps))
  BY <1>4, NumbersFinite DEF Several
<1>7. shell' \in ShellState /\ PlaceSound(table', proc', shell')
  BY <1>4, <1>5, <1>6, AnswerIs
<1> QED BY <1>2, <1>3, <1>7, Sound, StateIsSound

\* What is waited for is not the kernel's business yet.
LEMMA WaitBegins ==
  ASSUME JobIInv, NEW how \in {"wait", "waitnext"}, NEW ps, ps \subseteq ReapablePids(table),
         shell.at = "ready", Waiting(how, ps), UNCHANGED <<proc, table, interactive>>
  PROVE  JobIInv'
<1>1. ps \in SUBSET Pid /\ \A p \in ps : proc'[p] \notin {"unborn", "kept"}
  BY Sound, ReapablesCount DEF KernelAgrees
<1>2. shell' \in ShellState /\ PlaceSound(table', proc', shell')
  BY <1>1, WaitingIs
<1>3. TableSound(table') /\ KeptPids(table, table')
  BY Sound, NothingChanges, SameIsKept
<1>4. KernelAgrees(table', proc', shell')
  BY <1>3, StillAgrees
<1> QED BY <1>2, <1>3, <1>4, Sound, StateIsSound

LEMMA WaitJobKeeps ==
  ASSUME JobIInv, NEW n \in JobId, NEW how \in {"wait", "waitnext"}, WaitJob(n, how)
  PROVE  JobIInv'
<1>1. CASE n \in Finished(table)
  BY <1>1, ToldOfAJob DEF WaitJob, Ready
<1>2. CASE n \notin Finished(table)
  <2>1. table.job[n].pids \subseteq ReapablePids(table)
    BY Sound, ReapableIs DEF TableSound
  <2> QED BY <1>2, <2>1, WaitBegins DEF WaitJob, Ready
<1> QED BY <1>1, <1>2

LEMMA WaitAnyKeeps ==
  ASSUME JobIInv, WaitAny
  PROVE  JobIInv'
<1>1. CASE Finished(table) # {}
  <2> DEFINE n == Least(Finished(table))
  <2>1. n \in Finished(table)
    <3>1. Finished(table) \in SUBSET JobId
      BY DEF Finished
    <3> QED BY <1>1, <3>1, LeastIsOne
  <2> QED BY <1>1, <2>1, ToldOfAJob DEF WaitAny, Ready
<1>2. CASE Finished(table) = {}
  <2>1. {} \subseteq ReapablePids(table)
    OBVIOUS
  <2> QED BY <1>2, <2>1, WaitBegins DEF WaitAny, Ready
<1> QED BY <1>1, <1>2

LEMMA WaitOnKeeps ==
  ASSUME JobIInv, WaitOn
  PROVE  JobIInv'
<1>1. /\ shell.at = "wait" /\ shell \in ShellState /\ interactive' = interactive
      /\ shell.left \in SUBSET Pid /\ shell.asked \in SUBSET Pid
      /\ shell.status \in Code \cup {0, NoSuchChild}
      /\ IF shell.status = NoSuchChild THEN \A p \in shell.asked \ shell.left : proc[p] = "gone"
                                       ELSE shell.asked = {shell.status}
  BY Sound DEF WaitOn, PlaceSound, ShellState
<1>2. CASE shell.left = {}
  <2>1. AnswerWith(shell.asked, shell.status) /\ UNCHANGED <<proc, table>>
    BY <1>2 DEF WaitOn
  <2>2. IF shell.status = NoSuchChild THEN \A p \in shell.asked : proc'[p] = "gone"
        ELSE shell.asked = {shell.status} \/ Several(shell.asked)
    BY <1>1, <1>2, <2>1
  <2>3. shell' \in ShellState /\ PlaceSound(table', proc', shell')
    BY <1>1, <2>1, <2>2, AnswerIs
  <2>4. TableSound(table') /\ KeptPids(table, table')
    BY <2>1, Sound, NothingChanges, SameIsKept
  <2>5. KernelAgrees(table', proc', shell')
    BY <1>1, <2>1, <2>4, StillAgrees
  <2> QED BY <1>1, <2>3, <2>4, <2>5, Sound, StateIsSound
<1>3. CASE shell.left # {}
  <2> DEFINE p == Least(shell.left)
             rest(c) == [shell EXCEPT !.left = @ \ {p}, !.asked = {p}, !.status = c]
  <2>1. p \in shell.left /\ p \in Pid
    BY <1>1, <1>3, LeastIsOne
  <2>2. \/ (\E c \in Recalled(table, p) : shell' = rest(c)) /\ TakeUp(p)
        \/ /\ proc[p] = "zombie" /\ table' = NoteReaped(table, p) /\ Become({p}, "gone")
           /\ shell' = rest(p)
        \/ /\ Recalled(table, p) = {} /\ proc[p] \in {"kept", "gone"}
           /\ shell' = [shell EXCEPT !.left = @ \ {p}] /\ UNCHANGED <<proc, table>>
    BY <1>3 DEF WaitOn
  <2> HIDE DEF p
  <2>3. ASSUME shell' = rest(p) PROVE shell' \in ShellState /\ PlaceSound(table', proc', shell')
    <3>1. p \in Code /\ p # NoSuchChild /\ shell.left \ {p} \in SUBSET Pid /\ {p} \in SUBSET Pid
      BY <1>1, <2>1, NumbersFinite DEF Code
    <3>2. /\ shell' \in ShellState /\ shell'.at = "wait" /\ shell'.asked = {p} /\ shell'.status = p
      BY <1>1, <2>3, <3>1 DEF ShellState
    <3>3. PlaceSound(table', proc', shell')
      BY <3>1, <3>2 DEF PlaceSound
    <3> QED BY <3>2, <3>3
  <2>4. CASE (\E c \in Recalled(table, p) : shell' = rest(c)) /\ TakeUp(p)
    <3>1. PICK c \in Recalled(table, p) : shell' = rest(c)
      BY <2>4
    <3>2. c = p /\ Recalled(table, p) # {}
      BY <3>1, Sound, RecalledIs DEF TableSound
    <3>3. TableSound(table') /\ KernelAgrees(table', proc', shell')
      BY <1>1, <2>1, <2>4, <3>2, TakeUpIs
    <3>4. shell' = rest(p)
      BY <3>1, <3>2
    <3> QED BY <1>1, <2>3, <3>3, <3>4, Sound, StateIsSound
  <2>5. CASE /\ proc[p] = "zombie" /\ table' = NoteReaped(table, p) /\ Become({p}, "gone")
             /\ shell' = rest(p)
    <3>1. TableSound(table') /\ KernelAgrees(table', proc', shell')
      BY <1>1, <2>1, <2>5, ReapedIs
    <3> QED BY <1>1, <2>3, <2>5, <3>1, Sound, StateIsSound
  <2>6. CASE /\ Recalled(table, p) = {} /\ proc[p] \in {"kept", "gone"}
             /\ shell' = [shell EXCEPT !.left = @ \ {p}] /\ UNCHANGED <<proc, table>>
    <3>1. proc[p] = "gone"
      BY <2>1, <2>6, Sound DEF KernelAgrees
    <3>2. /\ shell' \in ShellState /\ shell'.at = "wait" /\ shell'.asked = shell.asked
          /\ shell'.status = shell.status /\ shell'.left = shell.left \ {p}
      BY <1>1, <2>6 DEF ShellState
    <3>3. PlaceSound(table', proc', shell')
      BY <1>1, <2>6, <3>1, <3>2 DEF PlaceSound
    <3>4. TableSound(table') /\ KeptPids(table, table')
      BY <2>6, Sound, NothingChanges, SameIsKept
    <3>5. KernelAgrees(table', proc', shell')
      BY <1>1, <2>6, <3>4, StillAgrees
    <3> QED BY <1>1, <3>2, <3>3, <3>4, <3>5, Sound, StateIsSound
  <2> QED BY <2>2, <2>4, <2>5, <2>6
<1> QED BY <1>2, <1>3

LEMMA WaitEverythingKeeps ==
  ASSUME JobIInv, WaitEverything
  PROVE  JobIInv'
<1>1. shell.at = "ready" /\ Waiting("waitall", {}) /\ UNCHANGED <<proc, table, interactive>>
  BY DEF WaitEverything, Ready
<1>2. shell' \in ShellState /\ shell'.at = "waitall"
  BY <1>1 DEF Waiting, Fresh, ShellState
<1>3. PlaceSound(table', proc', shell')
  BY <1>2 DEF PlaceSound
<1>4. TableSound(table') /\ KeptPids(table, table')
  BY <1>1, Sound, NothingChanges, SameIsKept
<1>5. KernelAgrees(table', proc', shell')
  BY <1>1, <1>4, StillAgrees
<1> QED BY <1>1, <1>2, <1>3, <1>4, <1>5, Sound, StateIsSound

LEMMA WaitAllKeeps ==
  ASSUME JobIInv, WaitAll
  PROVE  JobIInv'
<1>1. shell.at = "waitall" /\ interactive' = interactive
  BY DEF WaitAll
<1>2. CASE Done /\ UNCHANGED <<proc, table>>
  <2>1. TableSound(table') /\ KeptPids(table, table')
    BY <1>2, Sound, NothingChanges, SameIsKept
  <2> QED BY <1>1, <1>2, <2>1, DoneKeeps
<1>3. CASE \E p \in Zombies : table' = NoteReaped(table, p) /\ Become({p}, "gone") /\ UNCHANGED shell
  <2>1. PICK p \in Zombies : table' = NoteReaped(table, p) /\ Become({p}, "gone") /\ UNCHANGED shell
    BY <1>3
  <2>2. TableSound(table') /\ KernelAgrees(table', proc', shell')
    BY <1>1, <2>1, ReapedIs DEF Zombies
  <2>3. shell' \in ShellState /\ shell'.at = "waitall"
    BY <1>1, <2>1, Sound
  <2>4. PlaceSound(table', proc', shell')
    BY <2>3 DEF PlaceSound
  <2> QED BY <1>1, <2>2, <2>3, <2>4, Sound, StateIsSound
<1> QED BY <1>2, <1>3 DEF WaitAll

LEMMA WaitFirstKeeps ==
  ASSUME JobIInv, WaitFirst
  PROVE  JobIInv'
<1>1. /\ shell.at = "waitnext" /\ interactive' = interactive /\ shell.asked \in SUBSET Pid
      /\ \A p \in shell.asked : proc[p] \notin {"unborn", "kept"}
  BY Sound DEF WaitFirst, PlaceSound, ShellState
<1>2. CASE Children = {} /\ AnswerWith(shell.asked, NoSuchChild) /\ UNCHANGED <<proc, table>>
  <2>1. \A p \in shell.asked : proc'[p] = "gone"
    BY <1>1, <1>2, Sound DEF Children, ProcState, Alive
  <2>2. NoSuchChild \in Code \cup {0, NoSuchChild}
    OBVIOUS
  <2>3. shell' \in ShellState /\ PlaceSound(table', proc', shell')
    BY <1>1, <1>2, <2>1, <2>2, AnswerIs
  <2>4. TableSound(table') /\ KeptPids(table, table')
    BY <1>2, Sound, NothingChanges, SameIsKept
  <2>5. KernelAgrees(table', proc', shell')
    BY <1>1, <1>2, <2>4, StillAgrees
  <2> QED BY <1>1, <2>3, <2>4, <2>5, Sound, StateIsSound
<1>3. ASSUME NEW p \in Zombies, table' = NoteReaped(table, p), Become({p}, "gone"), AnswerWith({p}, p)
      PROVE  JobIInv'
  <2>1. p \in Pid /\ proc[p] = "zombie" /\ p \in Code \cup {0, NoSuchChild} /\ p # NoSuchChild
    BY NumbersFinite DEF Zombies, Code
  <2>2. TableSound(table') /\ KernelAgrees(table', proc', shell')
    BY <1>1, <1>3, <2>1, ReapedIs
  <2>3. shell' \in ShellState /\ PlaceSound(table', proc', shell')
    BY <1>3, <2>1, AnswerIs
  <2> QED BY <1>1, <2>2, <2>3, Sound, StateIsSound
<1>4. ASSUME NEW p \in Zombies, p \notin shell.asked, Collect(p), UNCHANGED shell
      PROVE  JobIInv'
  <2>1. p \in Pid /\ proc[p] = "zombie"
    BY DEF Zombies
  <2>2. p \in ReapablePids(table)
    BY <1>1, <2>1, Sound DEF KernelAgrees
  <2>3. /\ TableSound(table') /\ KernelAgrees(table', proc', shell')
        /\ \A q \in Pid : q = p \/ proc'[q] = proc[q] \/ (proc[q] = "kept" /\ proc'[q] = "gone")
    BY <1>1, <1>4, <2>1, <2>2, CollectIs
  <2>4. shell' \in ShellState /\ shell'.at = "waitnext" /\ shell'.asked = shell.asked
    BY <1>1, <1>4, Sound
  <2>5. \A q \in shell.asked : q \in Pid /\ proc'[q] = proc[q]
    BY <1>1, <1>4, <2>3
  <2>6. PlaceSound(table', proc', shell')
    BY <1>1, <2>4, <2>5 DEF PlaceSound
  <2> QED BY <1>1, <2>3, <2>4, <2>6, Sound, StateIsSound
<1> QED BY <1>2, <1>3, <1>4 DEF WaitFirst

-----------------------------------------------------------------------------
(* The job table's theorems. *)

LEMMA NobodyIsSound == ASSUME JobInit PROVE JobIInv
<1> DEFINE none == [n \in JobId |-> NoJob]
<1>1. /\ table = [job |-> none, current |-> 0, previous |-> 0, statuses |-> <<>>, orphans |-> {}, live |-> 0]
      /\ shell = Fresh("boundary") /\ proc = [p \in Pid |-> "unborn"] /\ interactive \in BOOLEAN
  BY DEF JobInit, EmptyTable
<1>2. none \in [JobId -> Job] /\ \A n \in JobId : none[n] = NoJob
  BY DEF Job, NoJob
<1> HIDE DEF none
<1>3. /\ table \in TableState /\ table.job = none /\ table.orphans = {} /\ table.live = 0
      /\ table.current = 0 /\ table.previous = 0 /\ table.statuses = <<>>
  BY <1>1, <1>2 DEF TableState
<1>4. \A n \in JobId : JobIsSound(table, n)
  BY <1>2, <1>3 DEF JobIsSound, NoJob
<1>5. ReapablePids(table) = {} /\ Listed(table) = {}
  <2>1. \A p : p \notin ReapablePids(table)
    BY <1>2, <1>3, <1>4, ReapableIs DEF NoJob
  <2>2. \A p : p \notin Listed(table)
    BY <1>2, <1>3, ListedIs DEF NoJob
  <2> QED BY <2>1, <2>2
<1>6. Cardinality(ReapablePids(table)) <= table.live
  BY <1>3, <1>5, FS_EmptySet
<1>7. NamesSound(table) /\ StatusesSound(table.statuses)
  BY <1>3 DEF NamesSound, StatusesSound
<1>8. TableSound(table)
  BY <1>3, <1>4, <1>6, <1>7 DEF TableSound
<1>9. \A p : Recalled(table, p) = {}
  BY <1>3 DEF Recalled
<1>10. proc \in [Pid -> ProcState] /\ \A p \in Pid : proc[p] = "unborn"
  BY <1>1 DEF ProcState
<1>11. \A n \in JobId : table.job[n].pids = {}
  BY <1>2, <1>3 DEF NoJob
<1>12. KernelAgrees(table, proc, shell)
  BY <1>5, <1>9, <1>10, <1>11 DEF KernelAgrees, Alive
<1>13. shell \in ShellState /\ shell.at = "boundary"
  BY <1>1, FreshIs
<1>14. PlaceSound(table, proc, shell)
  BY <1>13 DEF PlaceSound
<1> QED BY <1>1, <1>8, <1>12, <1>13, <1>14 DEF JobIInv

LEMMA JobStepKeeps ==
  ASSUME JobIInv, [JobNext]_jobVars
  PROVE  JobIInv'
<1>1. CASE UNCHANGED jobVars
  BY <1>1 DEF jobVars, JobIInv
<1>2. CASE \E p \in Pid : Child(p)
  BY <1>2, ChildKeeps
<1>3. CASE Proceed
  BY <1>3, BoundaryKeeps, ReapKeeps, AnnounceChangesKeeps, ReturnKeeps DEF Proceed
<1>4. CASE Block
  BY <1>4, WaitPipelineKeeps, WaitForegroundKeeps, WaitOnKeeps, WaitAllKeeps, WaitFirstKeeps DEF Block
<1>5. CASE Command
  <2>1. ASSUME NEW how \in {"wait"} \cup ({"waitnext"} \cap JobDoing),
               (\E p \in Pid : WaitPid(p, how)) \/ (\E n \in JobId : WaitJob(n, how))
        PROVE  JobIInv'
    BY <2>1, WaitPidKeeps, WaitJobKeeps
  <2> QED BY <1>5, <2>1, SpawnBackgroundKeeps, AdoptStrayKeeps, JobsKeeps, WaitEverythingKeeps,
             WaitAnyKeeps, RunPipelineKeeps, BgKeeps, FgKeeps, DisownKeeps DEF Command
<1>6. CASE Interrupt
  BY <1>6, ReturnKeeps
<1> QED BY <1>1, <1>2, <1>3, <1>4, <1>5, <1>6 DEF JobNext

THEOREM JobIInvHolds == JobSpec => []JobIInv
<1>1. JobInit => JobIInv
  BY NobodyIsSound
<1>2. JobIInv /\ [JobNext]_jobVars => JobIInv'
  BY JobStepKeeps
<1> QED BY <1>1, <1>2, PTL DEF JobSpec

(***************************************************************************)
(* The jobs, the numbers `%%` and `%-`, the list of the disowned and the   *)
(* count of living children agree, for any number of children and of jobs. *)
(***************************************************************************)
THEOREM JobInvHolds == JobSpec => []JobInv
<1>1. ASSUME JobIInv PROVE JobInv
  <2>1. JobTypeOK
    BY <1>1, Sound DEF JobTypeOK, ShellState
  <2>2. JobsAgree
    <3>1. ASSUME NEW n \in JobId
          PROVE  LET j == table.job[n] IN
                 /\ j \in Job
                 /\ j.state = "none" => j = NoJob
                 /\ j.state = "completed" => j.pids = {}
                 /\ j.pids \cup j.ended \subseteq j.stages
                 /\ j.pids \cap j.ended = {} /\ j.pids \cap table.orphans = {}
                 /\ \A p \in j.stages : proc[p] # "unborn"
                 /\ \A m \in JobId \ {n} : j.stages \cap table.job[m].stages = {}
      <4>1. table.job[n] \in Job /\ JobIsSound(table, n)
        BY <1>1, Sound, TableParts
      <4>2. \A p \in table.job[n].stages : proc[p] # "unborn"
        BY <1>1, Sound, ListedIs DEF KernelAgrees
      <4> QED BY <4>1, <4>2 DEF JobIsSound
    <3>2. table.orphans \subseteq Pid /\ table.live \in Nat
      BY <1>1, Sound, TableParts
    <3>3. \A p \in table.orphans : proc[p] # "unborn"
      BY <1>1, Sound, ListedIs DEF KernelAgrees
    <3> QED BY <3>1, <3>2, <3>3 DEF JobsAgree
  <2>3. NamesAgree /\ NothingUncounted
    BY <1>1, Sound DEF TableSound, NamesSound, NamesAgree, NothingUncounted
  <2> QED BY <2>1, <2>2, <2>3 DEF JobInv
<1> QED BY <1>1, JobIInvHolds, PTL

(***************************************************************************)
(* A status the shell had from the kernel is in the table exactly as long  *)
(* as nobody was told of it, whatever is asked and in whatever order.      *)
(***************************************************************************)
THEOREM StatusesAgreeHolds == JobSpec => []StatusesAgree
<1>1. ASSUME JobIInv PROVE StatusesAgree
  <2>1. table.statuses \in Seq([pid : Pid, status : Code])
    BY <1>1, Sound, TableParts
  <2>2. StatusesSound(table.statuses)
    BY <1>1, Sound DEF TableSound
  <2>3. \A p \in Pid : proc[p] = "kept" <=> Recalled(table, p) # {}
    BY <1>1, Sound DEF KernelAgrees
  <2> QED BY <2>1, <2>2, <2>3 DEF StatusesAgree, StatusesSound
<1> QED BY <1>1, JobIInvHolds, PTL

(***************************************************************************)
(* What `wait` answers for one process is its own status, and it says "not *)
(* a child of this shell" only of one whose status is nowhere any more.    *)
(***************************************************************************)
THEOREM WaitTellsTheTruthHolds == JobSpec => []WaitTellsTheTruth
<1>1. ASSUME JobIInv PROVE WaitTellsTheTruth
  <2> SUFFICES ASSUME shell.at = "answered", shell.status # NoSuchChild,
                      Cardinality(shell.asked) = 1, NEW p \in shell.asked
               PROVE  shell.status = p
    BY <1>1, Sound DEF WaitTellsTheTruth, PlaceSound
  <2>1. shell.asked = {shell.status} \/ Several(shell.asked)
    BY <1>1, Sound DEF PlaceSound
  <2>2. IsFiniteSet(shell.asked)
    BY <1>1, Sound, NumbersFinite DEF ShellState
  <2>3. \E q : shell.asked = {q}
    BY <2>2, FS_Singleton
  <2> QED BY <2>1, <2>3 DEF Several
<1> QED BY <1>1, JobIInvHolds, PTL
=============================================================================
