------------------------- MODULE HistoryStoreProofs -------------------------
(***************************************************************************)
(* What every transaction of HistoryStore keeps, for any number of events, *)
(* lines, directories and statuses.  A store stays a store whose index     *)
(* leads somewhere, and of the events in it each is kept as it was or      *)
(* replaced by a copy that wins over it, a tombstone by a tombstone.       *)
(***************************************************************************)
EXTENDS HistoryStore, FiniteSetTheorems, TLAPS

Replaces(s, t) ==
  \A e \in EventId : s.event[e] # None =>
    /\ t.event[e] # None
    /\ s.event[e].deleted => t.event[e].deleted
    /\ t.event[e] # s.event[e] => WinsOver(t.event[e], s.event[e])

Sound(s) == s \in Store /\ Indexed(s)

\* What a transaction that started at s and made t has kept.
Keeps(s, t) == Sound(t) /\ Replaces(s, t)

-----------------------------------------------------------------------------
(***************************************************************************)
(* Three shapes every transaction has one of.                              *)
(***************************************************************************)
\* It leaves the events and their index alone.
LEMMA TablesKeep ==
  ASSUME NEW s, Sound(s), NEW t \in Store,
         t.local = s.local, t.event = s.event, t.projection = s.projection
  PROVE  Keeps(s, t)
BY DEF Sound, Indexed, Keeps, Replaces

\* It leaves the index alone, and replaces events by copies that win.
LEMMA EventsKeep ==
  ASSUME NEW s, Sound(s), NEW t \in Store, t.local = s.local,
         \A e \in EventId : s.projection[e] # None => t.projection[e] # None,
         Replaces(s, t)
  PROVE  Keeps(s, t)
<1>1. ASSUME NEW i \in LocalId, t.local[i] # None
      PROVE  t.local[i] \in EventId /\ s.local[i] = t.local[i]
  BY <1>1 DEF Store
<1> QED BY <1>1 DEF Sound, Indexed, Keeps, Replaces

\* It is one transaction after another.
LEMMA KeepsTransitive ==
  ASSUME NEW s, NEW t, NEW u, Sound(s), Keeps(s, t),
         u \in Store, u.local = t.local, u.event = t.event, u.projection = t.projection
  PROVE  Keeps(s, u)
BY DEF Sound, Indexed, Keeps, Replaces

\* A copy one revision up is an event, and wins over the one it replaces.
LEMMA AdvanceWins ==
  ASSUME NEW ev \in Event, CanAdvance(ev), NEW tie \in Tie
  PROVE  /\ Advance(ev, tie) \in Event
         /\ \A w : w.revision = Advance(ev, tie).revision => WinsOver(w, ev)
<1>1. ev.revision + 1 \in Revision /\ ev.revision + 1 > ev.revision
  BY StampAssumption DEF Event, Revision, CanAdvance
<1>2. Advance(ev, tie) \in Event /\ Advance(ev, tie).revision = ev.revision + 1
  BY <1>1 DEF Advance, Event
<1> QED BY <1>1, <1>2 DEF WinsOver

\* The projection of an event, at its stamp.
LEMMA AtIsProjection ==
  ASSUME NEW p \in Projection \cup {Unprojected}, NEW ev \in Event
  PROVE  At(p, ev) \in Projection
<1>1. ev.revision \in Revision /\ ev.deleted \in BOOLEAN /\ ev.tie \in Tie
  BY DEF Event
<1>2. CASE p \in Projection
  BY <1>1, <1>2 DEF At, Projection
<1>3. CASE p = Unprojected
  BY <1>1, <1>3 DEF At, Projection, Unprojected
<1> QED BY <1>2, <1>3

-----------------------------------------------------------------------------
(***************************************************************************)
(* The aggregate.                                                          *)
(***************************************************************************)
LEMMA Contributions ==
  ASSUME NEW run \in [RunKey -> Nat], NEW k \in RunKey \cup {None}
  PROVE  /\ AddContribution(run, k) \in [RunKey -> Nat]
         /\ RemoveContribution(run, k) \in [RunKey -> Nat]
BY DEF AddContribution, RemoveContribution

\* What an event contributes is a key of the aggregate or nothing.
LEMMA ContributionIsRun ==
  ASSUME NEW ev \in Event, NEW imported \in BOOLEAN
  PROVE  ContributionFor(ev, imported) \in RunKey \cup {None}
<1>1. CASE ev.done = None \/ ev.line = Blank
  BY <1>1 DEF ContributionFor
<1>2. CASE ev.done # None /\ ev.line # Blank
  <2>1. ev.done \in Done /\ ev.line \in Line
    BY <1>2 DEF Event
  <2> QED BY <1>2, <2>1 DEF ContributionFor, Done, RunKey
<1> QED BY <1>1, <1>2

\* Counting a run, taking one back and forgetting them touch no event.
LEMMA RunsKeep ==
  ASSUME NEW s, Sound(s), NEW run \in [RunKey -> Nat]
  PROVE  Keeps(s, [s EXCEPT !.run = run])
<1>1. [s EXCEPT !.run = run] \in Store
  BY DEF Sound, Store
<1> QED BY <1>1, TablesKeep DEF Sound, Store

\* Counting a run and taking one back (record_run, forget_entered).
LEMMA RecordRunKeeps ==
  ASSUME NEW s, Sound(s), NEW dir \in Dir, NEW line \in Line
  PROVE  Keeps(s, RecordRun(s, dir, line)) /\ Keeps(s, TakeBackRun(s, dir, line))
<1> DEFINE k == [imported |-> FALSE, dir |-> dir, line |-> line]
           more == [s.run EXCEPT ![k] = @ + 1]
           less == [s.run EXCEPT ![k] = IF @ > 0 THEN @ - 1 ELSE 0]
<1>1. k \in RunKey /\ s.run \in [RunKey -> Nat]
  BY DEF RunKey, Sound, Store
<1>2. more \in [RunKey -> Nat] /\ less \in [RunKey -> Nat]
  BY <1>1
<1>3. /\ RecordRun(s, dir, line) = [s EXCEPT !.run = more]
      /\ TakeBackRun(s, dir, line) = [s EXCEPT !.run = less]
  BY DEF RecordRun, TakeBackRun, Sound, Store
<1> HIDE DEF more, less
<1>4. Keeps(s, [s EXCEPT !.run = more]) /\ Keeps(s, [s EXCEPT !.run = less])
  BY <1>2, RunsKeep
<1> QED BY <1>3, <1>4

\* Forgetting all runs, or those of a line.
LEMMA ForgetRunsKeeps ==
  ASSUME NEW s, Sound(s)
  PROVE  Keeps(s, ForgetRuns(s)) /\ \A line : Keeps(s, ForgetRunsOf(s, line))
<1>1. Keeps(s, ForgetRuns(s))
  BY RunsKeep DEF ForgetRuns
<1>2. ASSUME NEW line PROVE Keeps(s, ForgetRunsOf(s, line))
  <2>1. [k \in RunKey |-> IF k.line = line THEN 0 ELSE s.run[k]] \in [RunKey -> Nat]
    BY DEF Sound, Store
  <2>2. ForgetRunsOf(s, line) =
          [s EXCEPT !.run = [k \in RunKey |-> IF k.line = line THEN 0 ELSE s.run[k]]]
    BY DEF ForgetRunsOf, Sound, Store
  <2>3. Keeps(s, [s EXCEPT !.run = [k \in RunKey |-> IF k.line = line THEN 0 ELSE s.run[k]]])
    BY <2>1, RunsKeep
  <2> QED BY <2>2, <2>3
<1> QED BY <1>1, <1>2

-----------------------------------------------------------------------------
(***************************************************************************)
(* One line.                                                               *)
(***************************************************************************)
\* A line is appended under an id no event had.
LEMMA AppendEntryKeeps ==
  ASSUME NEW s, Sound(s), NEW e \in EventId, s.event[e] = None,
         NextId(s) \in LocalId, NEW line \in Line, NEW tie \in [EventId -> Tie]
  PROVE  Keeps(s, AppendEntry(s, e, line, tie))
<1> DEFINE i == NextId(s)
           ev == [revision |-> 1, deleted |-> FALSE, tie |-> tie[e], line |-> line, done |-> None]
           p == At([Unprojected EXCEPT !.local = i], ev)
           t == [s EXCEPT !.history[i] = line, !.local[i] = e, !.event[e] = ev,
                          !.projection[e] = p]
<1>1. ev \in Event
  BY StampAssumption DEF Event, Revision
<1>2. p \in Projection
  BY <1>1 DEF At, Projection, Unprojected, Event
<1>3. i \in LocalId /\ t = AppendEntry(s, e, line, tie)
  BY DEF AppendEntry
<1> HIDE DEF i, ev, p
<1>4. t \in Store
  BY <1>1, <1>2, <1>3 DEF Store, Sound
<1>5. /\ t.local = [s.local EXCEPT ![i] = e]
      /\ t.event = [s.event EXCEPT ![e] = ev]
      /\ t.projection = [s.projection EXCEPT ![e] = p]
  BY DEF Store, Sound
<1> HIDE DEF t
<1>6. ev # None /\ p # None
  BY <1>1, <1>2, NothingAssumption
<1>7. Indexed(t)
  <2> SUFFICES ASSUME NEW j \in LocalId, t.local[j] # None
               PROVE  t.event[t.local[j]] # None /\ t.projection[t.local[j]] # None
    BY DEF Indexed
  <2>1. CASE j = i
    <3>1. t.local[j] = e /\ t.event[e] = ev /\ t.projection[e] = p
      BY <1>3, <1>5, <2>1 DEF Sound, Store
    <3> QED BY <3>1, <1>6
  <2>2. CASE j # i
    <3>1. t.local[j] = s.local[j] /\ s.local[j] \in EventId
      BY <1>5, <2>2 DEF Sound, Store
    <3>2. s.event[s.local[j]] # None /\ s.projection[s.local[j]] # None
      BY <3>1 DEF Sound, Indexed
    <3>3. s.local[j] # e
      BY <3>2
    <3>4. /\ t.event[s.local[j]] = s.event[s.local[j]]
          /\ t.projection[s.local[j]] = s.projection[s.local[j]]
      BY <1>5, <3>1, <3>3 DEF Sound, Store
    <3> QED BY <3>1, <3>2, <3>4
  <2> QED BY <2>1, <2>2
<1>8. Replaces(s, t)
  <2> SUFFICES ASSUME NEW f \in EventId, s.event[f] # None
               PROVE  t.event[f] = s.event[f]
    BY DEF Replaces
  <2> QED BY <1>5 DEF Sound, Store
<1> QED BY <1>3, <1>4, <1>7, <1>8 DEF Keeps, Sound

\* A transaction that replaces one event, and its projection, by a copy that wins.
LEMMA OneEventKeeps ==
  ASSUME NEW s, Sound(s), NEW e \in EventId, s.event[e] # None,
         NEW ev \in Event, WinsOver(ev, s.event[e]), s.event[e].deleted => ev.deleted,
         NEW p \in Projection, NEW run \in [RunKey -> Nat]
  PROVE  Keeps(s, [s EXCEPT !.event[e] = ev, !.run = run, !.projection[e] = p])
<1> DEFINE t == [s EXCEPT !.event[e] = ev, !.run = run, !.projection[e] = p]
<1>1. t \in Store /\ t.local = s.local
  BY DEF Sound, Store
<1>2. /\ t.event = [s.event EXCEPT ![e] = ev]
      /\ t.projection = [s.projection EXCEPT ![e] = p]
  BY DEF Sound, Store
<1> HIDE DEF t
<1>3. \A f \in EventId : s.projection[f] # None => t.projection[f] # None
  BY <1>2, NothingAssumption DEF Sound, Store
<1>4. Replaces(s, t)
  <2> SUFFICES ASSUME NEW f \in EventId, s.event[f] # None
               PROVE  /\ t.event[f] # None
                      /\ s.event[f].deleted => t.event[f].deleted
                      /\ t.event[f] # s.event[f] => WinsOver(t.event[f], s.event[f])
    BY DEF Replaces
  <2>1. CASE f = e
    <3>1. t.event[f] = ev
      BY <1>2, <2>1 DEF Sound, Store
    <3> QED BY <3>1, <2>1, NothingAssumption
  <2>2. CASE f # e
    <3>1. t.event[f] = s.event[f]
      BY <1>2, <2>2 DEF Sound, Store
    <3> QED BY <3>1
  <2> QED BY <2>1, <2>2
<1>5. Keeps(s, t)
  BY <1>1, <1>3, <1>4, EventsKeep
<1> QED BY <1>5 DEF t

\* What a row's event is, in a store whose index leads somewhere.
LEMMA EventOfRow ==
  ASSUME NEW s, Sound(s), NEW i \in LocalId, s.local[i] # None
  PROVE  /\ s.local[i] \in EventId
         /\ s.event[s.local[i]] \in Event
         /\ s.event[s.local[i]] # None
         /\ s.projection[s.local[i]] \in Projection
         /\ s.run \in [RunKey -> Nat]
BY DEF Sound, Store, Indexed

\* A rule that keeps another line gives the event behind the row that line.
LEMMA RewriteLocalKeeps ==
  ASSUME NEW s, Sound(s), NEW i \in LocalId, NEW line \in Line,
         NEW tie \in [EventId -> Tie], RewriteLocal(s, i, line, tie) # None
  PROVE  Keeps(s, RewriteLocal(s, i, line, tie))
<1> DEFINE e == s.local[i]
           ev == [Advance(s.event[e], tie[e]) EXCEPT !.line = line]
           p == s.projection[e]
           next == IF p.run = None \/ ev.done = None THEN None
                   ELSE [p.run EXCEPT !.line = line]
           run == AddContribution(RemoveContribution(s.run, p.run), next)
           q == [At(p, ev) EXCEPT !.deleted = FALSE, !.run = next]
<1>1. s.local[i] # None
  BY DEF RewriteLocal
<1>2. /\ e \in EventId /\ s.event[e] \in Event /\ s.event[e] # None
      /\ p \in Projection /\ s.run \in [RunKey -> Nat] /\ tie[e] \in Tie
  BY <1>1, EventOfRow
<1>3. CASE s.event[e].line = line
  <2>1. RewriteLocal(s, i, line, tie) = s
    BY <1>1, <1>3 DEF RewriteLocal
  <2> QED BY <2>1, TablesKeep DEF Sound
<1>4. CASE s.event[e].line # line /\ CanAdvance(s.event[e])
  <2>1. RewriteLocal(s, i, line, tie) =
          [s EXCEPT !.event[e] = ev, !.run = run, !.projection[e] = q]
    BY <1>1, <1>4 DEF RewriteLocal, Sound, Store
  <2>2. /\ Advance(s.event[e], tie[e]) \in Event
        /\ \A w : w.revision = Advance(s.event[e], tie[e]).revision => WinsOver(w, s.event[e])
    BY <1>2, <1>4, AdvanceWins
  <2>3. Advance(s.event[e], tie[e]).deleted = s.event[e].deleted
    BY <1>2 DEF Advance, Event
  <2>4. ev \in Event /\ WinsOver(ev, s.event[e]) /\ ev.deleted = s.event[e].deleted
    <3>1. /\ ev \in Event /\ ev.revision = Advance(s.event[e], tie[e]).revision
          /\ ev.deleted = Advance(s.event[e], tie[e]).deleted
      BY <2>2 DEF Event
    <3> QED BY <3>1, <2>2, <2>3
  <2>5. next \in RunKey \cup {None}
    <3>1. CASE p.run = None \/ ev.done = None
      BY <3>1
    <3>2. CASE p.run # None /\ ev.done # None
      <4>1. p.run \in RunKey
        BY <1>2, <3>2 DEF Projection
      <4>2. next = [p.run EXCEPT !.line = line]
        BY <3>2
      <4> QED BY <4>1, <4>2 DEF RunKey
    <3> QED BY <3>1, <3>2
  <2> HIDE DEF ev, next, run, q
  <2>6. q \in Projection
    <3>1. At(p, ev) \in Projection
      BY <1>2, <2>4, AtIsProjection
    <3> QED BY <2>5, <3>1 DEF q, Projection
  <2>7. run \in [RunKey -> Nat]
    <3>1. p.run \in RunKey \cup {None}
      BY <1>2 DEF Projection
    <3>2. RemoveContribution(s.run, p.run) \in [RunKey -> Nat]
      BY <1>2, <3>1, Contributions
    <3> QED BY <2>5, <3>2, Contributions DEF run
  <2> HIDE DEF e
  <2>8. Keeps(s, [s EXCEPT !.event[e] = ev, !.run = run, !.projection[e] = q])
    BY <1>2, <2>4, <2>6, <2>7, OneEventKeeps
  <2> QED BY <2>1, <2>8
<1>5. CASE s.event[e].line # line /\ ~ CanAdvance(s.event[e])
  BY <1>1, <1>5 DEF RewriteLocal
<1> QED BY <1>3, <1>4, <1>5

\* A transaction that first puts something in the local tables.
LEMMA KeepsAfterTables ==
  ASSUME NEW s, Sound(s), NEW t \in Store,
         t.local = s.local, t.event = s.event, t.projection = s.projection,
         NEW u, Keeps(t, u)
  PROVE  Sound(t) /\ Keeps(s, u)
BY DEF Sound, Indexed, Keeps, Replaces

\* The row first, then the event behind it (Track::rewrite_line).
LEMMA RewriteLineKeeps ==
  ASSUME NEW s, Sound(s), NEW i \in LocalId, NEW line \in Line,
         NEW tie \in [EventId -> Tie], RewriteLine(s, i, line, tie) # None
  PROVE  Keeps(s, RewriteLine(s, i, line, tie))
<1> DEFINE t == [s EXCEPT !.history[i] = line]
<1>1. /\ t \in Store /\ t.local = s.local /\ t.event = s.event
      /\ t.projection = s.projection
  BY DEF Sound, Store
<1>2. \/ RewriteLine(s, i, line, tie) = s
      \/ RewriteLine(s, i, line, tie) = RewriteLocal(t, i, line, tie)
  BY DEF RewriteLine
<1> HIDE DEF t
<1>3. Keeps(s, s)
  BY TablesKeep DEF Sound
<1>4. CASE RewriteLine(s, i, line, tie) = RewriteLocal(t, i, line, tie)
  <2>1. Sound(t)
    BY <1>1, TablesKeep DEF Keeps
  <2>2. Keeps(t, RewriteLocal(t, i, line, tie))
    BY <1>4, <2>1, RewriteLocalKeeps
  <2> QED BY <1>1, <1>4, <2>2, KeepsAfterTables
<1> QED BY <1>2, <1>3, <1>4

\* A finished command gives the event behind its row what it did.
LEMMA CompleteLocalKeeps ==
  ASSUME NEW s, Sound(s), NEW i \in LocalId, NEW done \in Done,
         NEW tie \in [EventId -> Tie], CompleteLocal(s, i, done, tie) # None
  PROVE  Keeps(s, CompleteLocal(s, i, done, tie))
<1> DEFINE e == s.local[i]
           ev == [Advance(s.event[e], tie[e]) EXCEPT !.done = done]
           p == s.projection[e]
           next == ContributionFor(ev, FALSE)
           settled(run, k) ==
             [s EXCEPT !.event[e] = ev, !.run = run,
                       !.projection[e] = [At(p, ev) EXCEPT !.deleted = FALSE, !.run = k]]
<1>1. s.local[i] # None /\ CanAdvance(s.event[e])
  BY DEF CompleteLocal
<1>2. /\ e \in EventId /\ s.event[e] \in Event /\ s.event[e] # None
      /\ p \in Projection /\ s.run \in [RunKey -> Nat] /\ tie[e] \in Tie
  BY <1>1, EventOfRow
<1>3. /\ Advance(s.event[e], tie[e]) \in Event
      /\ \A w : w.revision = Advance(s.event[e], tie[e]).revision => WinsOver(w, s.event[e])
      /\ Advance(s.event[e], tie[e]).deleted = s.event[e].deleted
  <2>1. Advance(s.event[e], tie[e]).deleted = s.event[e].deleted
    BY <1>2 DEF Advance, Event
  <2> QED BY <1>1, <1>2, <2>1, AdvanceWins
<1>4. ev \in Event /\ WinsOver(ev, s.event[e]) /\ ev.deleted = s.event[e].deleted
  <2>1. /\ ev \in Event /\ ev.revision = Advance(s.event[e], tie[e]).revision
        /\ ev.deleted = Advance(s.event[e], tie[e]).deleted
    BY <1>3 DEF Event
  <2> QED BY <1>3, <2>1
<1>5. CompleteLocal(s, i, done, tie) =
        IF p.run # None
        THEN IF next = None THEN None
             ELSE settled(AddContribution(RemoveContribution(s.run, p.run), next), next)
        ELSE settled(s.run, IF next = None THEN None
                            ELSE IF s.run[next] = 0 THEN None ELSE next)
  BY <1>1 DEF CompleteLocal
<1> HIDE DEF ev, e
<1>6. next \in RunKey \cup {None} /\ p.run \in RunKey \cup {None}
  BY <1>2, <1>4, ContributionIsRun DEF Projection
<1> HIDE DEF next
<1>7. ASSUME NEW run \in [RunKey -> Nat], NEW k \in RunKey \cup {None}
      PROVE  Keeps(s, settled(run, k))
  <2> DEFINE q == [At(p, ev) EXCEPT !.deleted = FALSE, !.run = k]
  <2>1. q \in Projection
    <3>1. At(p, ev) \in Projection
      BY <1>2, <1>4, AtIsProjection
    <3> QED BY <3>1 DEF Projection
  <2> HIDE DEF q
  <2>2. Keeps(s, [s EXCEPT !.event[e] = ev, !.run = run, !.projection[e] = q])
    BY <1>2, <1>4, <1>7, <2>1, OneEventKeeps
  <2> QED BY <2>2 DEF q
<1>8. AddContribution(RemoveContribution(s.run, p.run), next) \in [RunKey -> Nat]
  BY <1>2, <1>6, Contributions
<1> HIDE DEF settled, p
<1> QED BY <1>2, <1>5, <1>6, <1>7, <1>8

\* The outcome first, then the event behind its row (write_outcomes).
LEMMA WriteOutcomesKeeps ==
  ASSUME NEW s, Sound(s), NEW i \in LocalId, NEW done \in Done,
         NEW tie \in [EventId -> Tie], WriteOutcomes(s, i, done, tie) # None
  PROVE  Keeps(s, WriteOutcomes(s, i, done, tie))
<1> DEFINE t == [s EXCEPT !.outcome[i] = done]
<1>1. /\ t \in Store /\ t.local = s.local /\ t.event = s.event
      /\ t.projection = s.projection
  BY DEF Sound, Store
<1>2. WriteOutcomes(s, i, done, tie) = CompleteLocal(t, i, done, tie)
  BY DEF WriteOutcomes
<1> HIDE DEF t
<1>3. Sound(t)
  BY <1>1, TablesKeep DEF Keeps
<1>4. Keeps(t, CompleteLocal(t, i, done, tie))
  BY <1>2, <1>3, CompleteLocalKeeps
<1> QED BY <1>1, <1>2, <1>4, KeepsAfterTables

-----------------------------------------------------------------------------
(***************************************************************************)
(* Taking lines away.                                                      *)
(***************************************************************************)
LEMMA EventsAreFinite ==
  ASSUME NEW es \in SUBSET EventId
  PROVE  IsFiniteSet(es) /\ Cardinality(es) \in Nat
<1>1. IsFiniteSet(EventId)
  BY HistoryAssumption, FS_Interval DEF EventId
<1> QED BY <1>1, FS_Subset, FS_CardinalityType

\* A burial is a change like any other, and leaves a tombstone.
LEMMA BuriedWins ==
  ASSUME NEW ev \in Event, CanAdvance(ev), NEW tie \in Tie
  PROVE  /\ Buried(ev, tie) \in Event /\ Buried(ev, tie).deleted
         /\ WinsOver(Buried(ev, tie), ev)
<1>1. /\ Advance(ev, tie) \in Event
      /\ \A w : w.revision = Advance(ev, tie).revision => WinsOver(w, ev)
  BY AdvanceWins
<1>2. /\ Buried(ev, tie) \in Event /\ Buried(ev, tie).deleted
      /\ Buried(ev, tie).revision = Advance(ev, tie).revision
  BY <1>1 DEF Buried, Event
<1> QED BY <1>1, <1>2

\* Burying touches the events it is given, each of which this store knows.
LEMMA BuryKeeps ==
  ASSUME NEW s, Sound(s), NEW es \in SUBSET EventId, \A e \in es : s.event[e] # None,
         NEW tie \in [EventId -> Tie], Bury(s, es, tie) # None
  PROVE  Keeps(s, Bury(s, es, tie))
<1> DEFINE buried == [e \in EventId |-> IF e \in es /\ ~ s.event[e].deleted
                                        THEN Buried(s.event[e], tie[e]) ELSE s.event[e]]
           standing(k) == Cardinality({e \in es : ProjectionOf(s, e).run = k})
           run == [k \in RunKey |->
                     IF s.run[k] > standing(k) THEN s.run[k] - standing(k) ELSE 0]
           withheld(e) == [At(ProjectionOf(s, e), buried[e]) EXCEPT !.hidden = TRUE,
                                                                    !.run = None]
           projection == [e \in EventId |-> IF e \in es THEN withheld(e)
                                            ELSE s.projection[e]]
           t == [s EXCEPT !.event = buried, !.run = run, !.projection = projection]
<1>1. \A e \in es : s.event[e].deleted \/ CanAdvance(s.event[e])
  BY DEF Bury
<1>2. Bury(s, es, tie) = t
  <2>1. ~ \E e \in es : ~ s.event[e].deleted /\ ~ CanAdvance(s.event[e])
    BY <1>1
  <2> QED BY <2>1 DEF Bury, Sound, Store
<1>3. ASSUME NEW e \in es
      PROVE  /\ buried[e] \in Event /\ buried[e].deleted
             /\ buried[e] # s.event[e] => WinsOver(buried[e], s.event[e])
  <2>1. e \in EventId /\ s.event[e] \in Event /\ tie[e] \in Tie
    BY DEF Sound, Store
  <2>2. CASE s.event[e].deleted
    BY <2>1, <2>2
  <2>3. CASE ~ s.event[e].deleted
    <3>1. buried[e] = Buried(s.event[e], tie[e])
      BY <2>1, <2>3
    <3>2. CanAdvance(s.event[e])
      BY <1>1, <2>3
    <3> QED BY <2>1, <3>1, <3>2, BuriedWins
  <2> QED BY <2>2, <2>3
<1>4. ASSUME NEW e \in EventId, e \notin es
      PROVE  buried[e] = s.event[e] /\ projection[e] = s.projection[e]
  BY <1>4
<1>5. buried \in [EventId -> Event \cup {None}]
  <2> SUFFICES ASSUME NEW e \in EventId PROVE buried[e] \in Event \cup {None}
    OBVIOUS
  <2>1. CASE e \in es
    BY <1>3, <2>1
  <2>2. CASE e \notin es
    BY <1>4, <2>2 DEF Sound, Store
  <2> QED BY <2>1, <2>2
<1>6. run \in [RunKey -> Nat]
  <2> SUFFICES ASSUME NEW k \in RunKey
               PROVE  (IF s.run[k] > standing(k) THEN s.run[k] - standing(k) ELSE 0) \in Nat
    OBVIOUS
  <2>1. standing(k) \in Nat /\ s.run[k] \in Nat
    BY EventsAreFinite DEF Sound, Store
  <2> QED BY <2>1
<1> HIDE DEF buried, run
<1>7. \A e \in es : withheld(e) \in Projection
  <2> SUFFICES ASSUME NEW e \in es PROVE withheld(e) \in Projection
    OBVIOUS
  <2>1. ProjectionOf(s, e) \in Projection \cup {Unprojected}
    BY DEF ProjectionOf, Sound, Store
  <2>2. At(ProjectionOf(s, e), buried[e]) \in Projection
    BY <1>3, <2>1, AtIsProjection
  <2> QED BY <2>2 DEF Projection
<1> HIDE DEF withheld
<1>8. projection \in [EventId -> Projection \cup {None}]
  BY <1>7 DEF Sound, Store
<1>9. \A e \in EventId : s.projection[e] # None => projection[e] # None
  BY <1>7, NothingAssumption
<1> HIDE DEF projection
<1>10. t \in Store /\ t.local = s.local /\ t.event = buried /\ t.projection = projection
  BY <1>5, <1>6, <1>8 DEF Sound, Store
<1> HIDE DEF t
<1>11. Replaces(s, t)
  <2> SUFFICES ASSUME NEW e \in EventId, s.event[e] # None
               PROVE  /\ buried[e] # None
                      /\ s.event[e].deleted => buried[e].deleted
                      /\ buried[e] # s.event[e] => WinsOver(buried[e], s.event[e])
    BY <1>10 DEF Replaces
  <2>1. CASE e \in es
    BY <1>3, <2>1, NothingAssumption
  <2>2. CASE e \notin es
    BY <1>4, <2>2
  <2> QED BY <2>1, <2>2
<1>12. Keeps(s, t)
  BY <1>9, <1>10, <1>11, EventsKeep
<1> QED BY <1>2, <1>12

\* Rows and outcomes that go take no event with them.
LEMMA DropsKeep ==
  ASSUME NEW s, Sound(s), NEW ids
  PROVE  Keeps(s, DropHistory(s, ids)) /\ Keeps(s, DropOutcomes(s, ids))
<1>1. ASSUME NEW f, f \in [LocalId -> Line \cup {None}]
      PROVE  Keeps(s, [s EXCEPT !.history = f])
  <2>1. /\ [s EXCEPT !.history = f] \in Store
        /\ [s EXCEPT !.history = f].local = s.local
        /\ [s EXCEPT !.history = f].event = s.event
        /\ [s EXCEPT !.history = f].projection = s.projection
    BY <1>1 DEF Sound, Store
  <2> QED BY <2>1, TablesKeep
<1>2. ASSUME NEW f, f \in [LocalId -> Done \cup {None}]
      PROVE  Keeps(s, [s EXCEPT !.outcome = f])
  <2>1. /\ [s EXCEPT !.outcome = f] \in Store
        /\ [s EXCEPT !.outcome = f].local = s.local
        /\ [s EXCEPT !.outcome = f].event = s.event
        /\ [s EXCEPT !.outcome = f].projection = s.projection
    BY <1>2 DEF Sound, Store
  <2> QED BY <2>1, TablesKeep
<1>3. [i \in LocalId |-> IF i \in ids THEN None ELSE s.history[i]]
         \in [LocalId -> Line \cup {None}]
  BY DEF Sound, Store
<1>4. [i \in LocalId |-> IF i \in ids THEN None ELSE s.outcome[i]]
         \in [LocalId -> Done \cup {None}]
  BY DEF Sound, Store
<1>5. Keeps(s, [s EXCEPT !.history = [i \in LocalId |-> IF i \in ids THEN None
                                                        ELSE s.history[i]]])
  BY <1>1, <1>3
<1>6. Keeps(s, [s EXCEPT !.outcome = [i \in LocalId |-> IF i \in ids THEN None
                                                        ELSE s.outcome[i]]])
  BY <1>2, <1>4
<1>7. DropHistory(s, ids) = [s EXCEPT !.history = [i \in LocalId |->
                               IF i \in ids THEN None ELSE s.history[i]]]
  BY DEF DropHistory, Sound, Store
<1>8. DropOutcomes(s, ids) = [s EXCEPT !.outcome = [i \in LocalId |->
                                IF i \in ids THEN None ELSE s.outcome[i]]]
  BY DEF DropOutcomes, Sound, Store
<1> QED BY <1>5, <1>6, <1>7, <1>8

\* Dropping rows and outcomes together leaves events, index and projections alone.
LEMMA DropsLeaveEvents ==
  ASSUME NEW s, Sound(s), NEW ids, NEW others
  PROVE  LET t == DropOutcomes(DropHistory(s, ids), others) IN
         t \in Store /\ t.local = s.local /\ t.event = s.event /\ t.projection = s.projection
<1> DEFINE h == DropHistory(s, ids)
           t == DropOutcomes(h, others)
<1>1. Sound(h)
  BY DropsKeep DEF Keeps
<1>2. h.local = s.local /\ h.event = s.event /\ h.projection = s.projection
  BY DEF DropHistory, Sound, Store
<1> HIDE DEF h
<1>3. t \in Store
  BY <1>1, DropsKeep DEF Keeps, Sound
<1>4. t.local = h.local /\ t.event = h.event /\ t.projection = h.projection
  BY <1>1 DEF DropOutcomes, Sound, Store
<1> HIDE DEF t
<1>5. t \in Store /\ t.local = s.local /\ t.event = s.event /\ t.projection = s.projection
  BY <1>2, <1>3, <1>4
<1> QED BY <1>5 DEF t, h

\* The events behind some rows, each of which has one.
LEMMA EventsOfRows ==
  ASSUME NEW s, Sound(s), NEW ids \in SUBSET LocalId, ~ \E i \in ids : s.local[i] = None
  PROVE  /\ {s.local[i] : i \in ids} \in SUBSET EventId
         /\ \A e \in {s.local[i] : i \in ids} : s.event[e] \in Event /\ s.event[e] # None
         /\ \A e \in {s.local[i] : i \in ids} : s.projection[e] \in Projection
BY EventOfRow

\* Burying the events behind some rows (tombstone_local).
LEMMA TombstoneLocalsKeeps ==
  ASSUME NEW s, Sound(s), NEW ids \in SUBSET LocalId, NEW tie \in [EventId -> Tie],
         TombstoneLocals(s, ids, tie) # None
  PROVE  Keeps(s, TombstoneLocals(s, ids, tie))
<1> DEFINE es == {s.local[i] : i \in ids}
<1>1. /\ ~ \E i \in ids : s.local[i] = None
      /\ TombstoneLocals(s, ids, tie) = Bury(s, es, tie)
  BY DEF TombstoneLocals
<1>2. es \in SUBSET EventId /\ \A e \in es : s.event[e] # None
  BY <1>1, EventsOfRows
<1> HIDE DEF es
<1> QED BY <1>1, <1>2, BuryKeeps

\* What is done to rows and outcomes after a burial adds nothing to it.
LEMMA DropsAfter ==
  ASSUME NEW s, Sound(s), NEW t, Keeps(s, t), NEW ids, NEW others
  PROVE  Keeps(s, DropOutcomes(DropHistory(t, ids), others))
<1>1. Sound(t)
  BY DEF Keeps
<1> QED BY <1>1, DropsLeaveEvents, KeepsTransitive

\* Taking lines away by their rows (Track::drop_line, forget_log_of).
LEMMA DropLinesKeeps ==
  ASSUME NEW s, Sound(s), NEW ids \in SUBSET LocalId, NEW tie \in [EventId -> Tie],
         DropLines(s, ids, tie) # None
  PROVE  Keeps(s, DropLines(s, ids, tie))
<1> DEFINE t == TombstoneLocals(s, ids, tie)
<1>1. t # None /\ DropLines(s, ids, tie) = DropOutcomes(DropHistory(t, ids), ids)
  BY DEF DropLines
<1>2. Keeps(s, t)
  BY <1>1, TombstoneLocalsKeeps
<1> HIDE DEF t
<1> QED BY <1>1, <1>2, DropsAfter

\* Taking every line away (Track::clear).
LEMMA ClearKeeps ==
  ASSUME NEW s, Sound(s), NEW tie \in [EventId -> Tie], Clear(s, tie) # None
  PROVE  Keeps(s, Clear(s, tie))
<1> DEFINE t == TombstoneLocals(s, Rows(s), tie)
<1>1. t # None /\ Clear(s, tie) = DropOutcomes(DropHistory(t, LocalId), LocalId)
  BY DEF Clear
<1>2. Rows(s) \in SUBSET LocalId
  BY DEF Rows
<1>3. Keeps(s, t)
  BY <1>1, <1>2, TombstoneLocalsKeeps
<1> HIDE DEF t
<1> QED BY <1>1, <1>3, DropsAfter

\* Taking lines away by their events (Track::delete_events).
LEMMA DeleteEventsKeeps ==
  ASSUME NEW s, Sound(s), NEW es \in SUBSET EventId, NEW tie \in [EventId -> Tie],
         DeleteEvents(s, es, tie) # None
  PROVE  Keeps(s, DeleteEvents(s, es, tie))
<1> DEFINE live == {e \in es : IF s.event[e] = None THEN FALSE ELSE ~ s.event[e].deleted}
           rows == {ProjectionOf(s, e).local : e \in live}
           t == Bury(s, live, tie)
<1>1. t # None /\ DeleteEvents(s, es, tie) = DropOutcomes(DropHistory(t, rows), rows)
  BY DEF DeleteEvents
<1>2. live \in SUBSET EventId /\ \A e \in live : s.event[e] # None
  OBVIOUS
<1> HIDE DEF live
<1>3. Keeps(s, t)
  BY <1>1, <1>2, BuryKeeps
<1> HIDE DEF t, rows
<1> QED BY <1>1, <1>3, DropsAfter

\* A trim withholds projections, and the events behind them stay as they are.
LEMMA HideLocalsKeeps ==
  ASSUME NEW s, Sound(s), NEW ids \in SUBSET LocalId, HideLocals(s, ids) # None
  PROVE  Keeps(s, HideLocals(s, ids))
<1> DEFINE es == {s.local[i] : i \in ids}
           hidden(e) == [s.projection[e] EXCEPT !.hidden = TRUE]
           projection == [e \in EventId |-> IF e \in es THEN hidden(e) ELSE s.projection[e]]
           t == [s EXCEPT !.projection = projection]
<1>1. ~ \E i \in ids : s.local[i] = None
  BY DEF HideLocals
<1>2. HideLocals(s, ids) = t
  BY <1>1 DEF HideLocals, Sound, Store
<1>3. \A e \in es : s.projection[e] \in Projection
  BY <1>1, EventsOfRows
<1>4. \A e \in es : hidden(e) \in Projection
  BY <1>3 DEF Projection
<1> HIDE DEF es, hidden
<1>5. projection \in [EventId -> Projection \cup {None}]
  BY <1>4 DEF Sound, Store
<1>6. \A e \in EventId : s.projection[e] # None => projection[e] # None
  BY <1>4, NothingAssumption
<1> HIDE DEF projection
<1>7. t \in Store /\ t.local = s.local /\ t.event = s.event /\ t.projection = projection
  BY <1>5 DEF Sound, Store
<1> HIDE DEF t
<1>8. Replaces(s, t)
  BY <1>7 DEF Replaces
<1> QED BY <1>2, <1>6, <1>7, <1>8, EventsKeep

-----------------------------------------------------------------------------
(***************************************************************************)
(* The database a profile starts with, and the newest of some rows.        *)
(***************************************************************************)
LEMMA EmptyStoreIsSound == Sound(EmptyStore)
BY DEF EmptyStore, Sound, Store, Indexed, LocalId, EventId

\* Of the rows that lie above a row, the newest row has the fewest: none.
LEMMA NewestIsOne ==
  ASSUME NEW S \in SUBSET LocalId, S # {}
  PROVE  Max(S) \in S /\ \A i \in S : Max(S) >= i
<1> DEFINE above(i) == {j \in S : j > i}
           chain == {above(i) : i \in S}
<1>1. IsFiniteSet(S) /\ S \subseteq Nat
  <2>1. IsFiniteSet(LocalId) /\ LocalId \subseteq Nat
    BY HistoryAssumption, FS_Interval DEF LocalId
  <2> QED BY <2>1, FS_Subset
<1>2. chain \subseteq FiniteSubsetsOf(S) /\ chain # {}
  <2>1. \A i \in S : IsFiniteSet(above(i)) /\ above(i) \subseteq S
    BY <1>1, FS_Subset
  <2> QED BY <2>1 DEF FiniteSubsetsOf
<1>3. IsWellFoundedOn(StrictSubsetOrdering(S), FiniteSubsetsOf(S))
  BY FS_StrictSubsetOrderingWellFounded
<1>4. \E least \in chain : \A other \in chain : ~ (<<other, least>> \in StrictSubsetOrdering(S))
  <2> HIDE DEF chain
  <2> QED BY <1>2, <1>3, WFMin
<1>5. PICK m \in S : \A i \in S : ~ (<<above(i), above(m)>> \in StrictSubsetOrdering(S))
  BY <1>4
<1>6. ASSUME NEW i \in S PROVE m >= i
  <2> SUFFICES ASSUME i > m PROVE FALSE
    BY <1>1
  <2>1. i \in Nat /\ m \in Nat /\ \A j \in S : j \in Nat
    BY <1>1
  <2>2. i \in above(m) /\ i \notin above(i)
    BY <2>1
  <2>3. ASSUME NEW j \in above(i) PROVE j \in above(m)
    <3>1. j \in S /\ j > i
      OBVIOUS
    <3>2. j > m
      BY <2>1, <3>1
    <3> QED BY <3>1, <3>2
  <2>4. <<above(i), above(m)>> \in StrictSubsetOrdering(S)
    BY <2>2, <2>3 DEF StrictSubsetOrdering
  <2> QED BY <1>5, <2>4
<1> QED BY <1>6 DEF Max

-----------------------------------------------------------------------------
(***************************************************************************)
(* What each transaction does to the tables, field by field.               *)
(***************************************************************************)
\* The events outside es, and their projections, are as they were.
Elsewhere(s, t, es) ==
  \A f \in EventId \ es : t.event[f] = s.event[f] /\ t.projection[f] = s.projection[f]

\* The projection q is at ev's stamp, but says that ev is live, dead or not.
LiveAt(q, ev) == q.revision = ev.revision /\ q.tie = ev.tie /\ q.deleted = FALSE

\* Event e is replaced by ev and applied, under the row and as withheld as it was.
Changed(s, t, e, ev) ==
  /\ t.outcome = s.outcome /\ t.local = s.local
  /\ Elsewhere(s, t, {e})
  /\ ev \in Event /\ t.event[e] = ev
  /\ t.projection[e] \in Projection
  /\ t.projection[e].local = s.projection[e].local
  /\ t.projection[e].hidden = s.projection[e].hidden
  /\ LiveAt(t.projection[e], ev)
  /\ ~ ev.deleted => Mark(t.projection[e]) = Mark(ev)

\* A copy one revision up differs from its event in what it is given only.
LEMMA NextCopy ==
  ASSUME NEW s, Sound(s), NEW e \in EventId, s.event[e] \in Event, CanAdvance(s.event[e]),
         NEW tie \in [EventId -> Tie]
  PROVE  LET ev == Advance(s.event[e], tie[e]) IN
         /\ ev \in Event
         /\ ev.revision = s.event[e].revision + 1 /\ ev.tie = tie[e]
         /\ ev.deleted = s.event[e].deleted
         /\ ev.line = s.event[e].line /\ ev.done = s.event[e].done
         /\ \A done \in Done \cup {None} :
              /\ [ev EXCEPT !.done = done] \in Event
              /\ [ev EXCEPT !.done = done].done = done
              /\ [ev EXCEPT !.done = done].line = s.event[e].line
              /\ [ev EXCEPT !.done = done].deleted = s.event[e].deleted
         /\ \A line \in Line :
              /\ [ev EXCEPT !.line = line] \in Event
              /\ [ev EXCEPT !.line = line].line = line
              /\ [ev EXCEPT !.line = line].done = s.event[e].done
              /\ [ev EXCEPT !.line = line].deleted = s.event[e].deleted
<1>1. tie[e] \in Tie
  OBVIOUS
<1>2. Advance(s.event[e], tie[e]) \in Event
  BY <1>1, AdvanceWins
<1> QED BY <1>1, <1>2 DEF Advance, Event

\* The projection of an event that has been applied, with the run behind it.
AppliedRow(p, ev, k) == [At(p, ev) EXCEPT !.deleted = FALSE, !.run = k]

\* It is a projection, of the same row, and at the event's stamp if that is live.
LEMMA SettledIsProjection ==
  ASSUME NEW p \in Projection, NEW ev \in Event, NEW k \in RunKey \cup {None}
  PROVE  /\ AppliedRow(p, ev, k) \in Projection
         /\ AppliedRow(p, ev, k).local = p.local
         /\ AppliedRow(p, ev, k).hidden = p.hidden
         /\ LiveAt(AppliedRow(p, ev, k), ev)
         /\ ~ ev.deleted => Mark(AppliedRow(p, ev, k)) = Mark(ev)
<1>1. At(p, ev) \in Projection
  BY AtIsProjection
<1>2. ev.deleted \in BOOLEAN
  BY DEF Event
<1> QED BY <1>1, <1>2 DEF AppliedRow, Projection, At, Mark, LiveAt

\* A completion and a rewrite have this in common.
LEMMA ChangeIsOne ==
  ASSUME NEW s, Sound(s), NEW e \in EventId, NEW ev \in Event, NEW q \in Projection,
         q.local = s.projection[e].local, q.hidden = s.projection[e].hidden,
         LiveAt(q, ev), ~ ev.deleted => Mark(q) = Mark(ev),
         NEW t, t.event = [s.event EXCEPT ![e] = ev],
         t.projection = [s.projection EXCEPT ![e] = q],
         t.outcome = s.outcome, t.local = s.local
  PROVE  Changed(s, t, e, ev)
<1>1. /\ s.event \in [EventId -> Event \cup {None}]
      /\ s.projection \in [EventId -> Projection \cup {None}]
  BY DEF Sound, Store
<1>2. t.event[e] = ev /\ t.projection[e] = q /\ Elsewhere(s, t, {e})
  BY <1>1 DEF Elsewhere
<1> QED BY <1>2 DEF Changed

\* A completion changes the event behind the row, live or not, and nothing else.
LEMMA CompleteLocalChanges ==
  ASSUME NEW s, Sound(s), NEW i \in LocalId, NEW done \in Done,
         NEW tie \in [EventId -> Tie], NEW t, t = CompleteLocal(s, i, done, tie), t # None
  PROVE  LET e == s.local[i] IN
         /\ e \in EventId /\ s.event[e] \in Event /\ CanAdvance(s.event[e])
         /\ t.history = s.history
         /\ Changed(s, t, e, [Advance(s.event[e], tie[e]) EXCEPT !.done = done])
<1> DEFINE e == s.local[i]
           ev == [Advance(s.event[e], tie[e]) EXCEPT !.done = done]
           p == s.projection[e]
           next == ContributionFor(ev, FALSE)
           settled(run, k) == [s EXCEPT !.event[e] = ev, !.run = run,
                                        !.projection[e] = AppliedRow(p, ev, k)]
<1>1. s.local[i] # None /\ CanAdvance(s.event[e])
  BY DEF CompleteLocal
<1>2. e \in EventId /\ s.event[e] \in Event /\ p \in Projection
  BY <1>1, EventOfRow
<1>3. ev \in Event
  BY <1>1, <1>2, NextCopy
<1>4. t = IF p.run # None
          THEN IF next = None THEN None
               ELSE settled(AddContribution(RemoveContribution(s.run, p.run), next), next)
          ELSE settled(s.run, IF next = None THEN None
                              ELSE IF s.run[next] = 0 THEN None ELSE next)
  BY <1>1 DEF CompleteLocal, AppliedRow
<1>5. next \in RunKey \cup {None} /\ p = s.projection[e]
  BY <1>3, ContributionIsRun
<1> HIDE DEF e, ev, next, p
<1>6. ASSUME NEW run, NEW k \in RunKey \cup {None}
      PROVE  Changed(s, settled(run, k), e, ev) /\ settled(run, k).history = s.history
  <2> DEFINE u == settled(run, k)
             w == AppliedRow(p, ev, k)
  <2>1. /\ w \in Projection /\ w.local = s.projection[e].local
        /\ w.hidden = s.projection[e].hidden /\ LiveAt(w, ev)
        /\ ~ ev.deleted => Mark(w) = Mark(ev)
    BY <1>2, <1>3, <1>5, SettledIsProjection
  <2>2. /\ u.event = [s.event EXCEPT ![e] = ev]
        /\ u.projection = [s.projection EXCEPT ![e] = w]
        /\ u.outcome = s.outcome /\ u.local = s.local /\ u.history = s.history
    BY DEF Sound, Store
  <2> HIDE DEF u, w
  <2>3. Changed(s, u, e, ev) /\ u.history = s.history
    BY <1>2, <1>3, <2>1, <2>2, ChangeIsOne
  <2> QED BY <2>3 DEF u
<1> HIDE DEF settled
<1>7. Changed(s, t, e, ev) /\ t.history = s.history
  BY <1>4, <1>5, <1>6
<1> QED BY <1>1, <1>2, <1>7 DEF e, ev

\* A rewrite changes it too, unless the event says the line already.
LEMMA RewriteLocalChanges ==
  ASSUME NEW s, Sound(s), NEW i \in LocalId, NEW line \in Line,
         NEW tie \in [EventId -> Tie], NEW t, t = RewriteLocal(s, i, line, tie), t # None
  PROVE  LET e == s.local[i] IN
         /\ e \in EventId /\ s.event[e] \in Event
         /\ t.history = s.history
         /\ \/ t = s /\ s.event[e].line = line
            \/ /\ CanAdvance(s.event[e])
               /\ Changed(s, t, e, [Advance(s.event[e], tie[e]) EXCEPT !.line = line])
<1> DEFINE e == s.local[i]
           ev == [Advance(s.event[e], tie[e]) EXCEPT !.line = line]
           p == s.projection[e]
           next == IF p.run = None \/ ev.done = None THEN None
                   ELSE [p.run EXCEPT !.line = line]
           run == AddContribution(RemoveContribution(s.run, p.run), next)
           q == AppliedRow(p, ev, next)
<1>1. s.local[i] # None
  BY DEF RewriteLocal
<1>2. e \in EventId /\ s.event[e] \in Event /\ p \in Projection
  BY <1>1, EventOfRow
<1>3. CASE s.event[e].line = line
  <2>1. t = s
    BY <1>1, <1>3 DEF RewriteLocal
  <2> QED BY <1>2, <1>3, <2>1
<1>4. CASE s.event[e].line # line
  <2>1. CanAdvance(s.event[e])
    BY <1>1, <1>4 DEF RewriteLocal
  <2>2. t = [s EXCEPT !.event[e] = ev, !.run = run, !.projection[e] = q]
    BY <1>1, <1>4, <2>1 DEF RewriteLocal, AppliedRow, Sound, Store
  <2>3. ev \in Event
    BY <1>2, <2>1, NextCopy
  <2>4. next \in RunKey \cup {None} /\ p = s.projection[e]
    <3>1. CASE p.run = None \/ ev.done = None
      BY <3>1
    <3>2. CASE p.run # None /\ ev.done # None
      <4>1. p.run \in RunKey
        BY <1>2, <3>2 DEF Projection
      <4>2. next = [p.run EXCEPT !.line = line]
        BY <3>2
      <4> QED BY <4>1, <4>2 DEF RunKey
    <3> QED BY <3>1, <3>2
  <2>5. /\ q \in Projection /\ q.local = s.projection[e].local
        /\ q.hidden = s.projection[e].hidden /\ LiveAt(q, ev)
        /\ ~ ev.deleted => Mark(q) = Mark(ev)
    <3> HIDE DEF e, ev, p, next
    <3> QED BY <1>2, <2>3, <2>4, SettledIsProjection
  <2>6. /\ t.event = [s.event EXCEPT ![e] = ev]
        /\ t.projection = [s.projection EXCEPT ![e] = q]
        /\ t.outcome = s.outcome /\ t.local = s.local /\ t.history = s.history
    BY <2>2 DEF Sound, Store
  <2> HIDE DEF e, ev, next, run, p, q
  <2>7. Changed(s, t, e, ev) /\ t.history = s.history
    BY <1>2, <2>3, <2>5, <2>6, ChangeIsOne
  <2> QED BY <1>2, <2>1, <2>7 DEF e, ev
<1> QED BY <1>3, <1>4

\* A burial withholds the events it is about, live ones and tombstones alike.
LEMMA BuryChanges ==
  ASSUME NEW s, Sound(s), NEW es \in SUBSET EventId, \A e \in es : s.event[e] # None,
         NEW tie \in [EventId -> Tie], NEW t, t = Bury(s, es, tie), t # None
  PROVE  /\ t.history = s.history /\ t.outcome = s.outcome /\ t.local = s.local
         /\ Elsewhere(s, t, es)
         /\ \A e \in es :
              /\ s.event[e].deleted => t.event[e] = s.event[e]
              /\ ~ s.event[e].deleted =>
                   CanAdvance(s.event[e]) /\ t.event[e] = Buried(s.event[e], tie[e])
              /\ t.event[e] \in Event /\ t.event[e].deleted
              /\ t.projection[e] # None
              /\ t.projection[e].local = ProjectionOf(s, e).local
              /\ t.projection[e].hidden
              /\ Mark(t.projection[e]) = Mark(t.event[e])
<1> DEFINE buried == [e \in EventId |-> IF e \in es /\ ~ s.event[e].deleted
                                        THEN Buried(s.event[e], tie[e]) ELSE s.event[e]]
           standing(k) == Cardinality({e \in es : ProjectionOf(s, e).run = k})
           run == [k \in RunKey |->
                     IF s.run[k] > standing(k) THEN s.run[k] - standing(k) ELSE 0]
           withheld(e) == [At(ProjectionOf(s, e), buried[e]) EXCEPT !.hidden = TRUE,
                                                                    !.run = None]
           projection == [e \in EventId |-> IF e \in es THEN withheld(e)
                                            ELSE s.projection[e]]
<1>1. \A e \in es : s.event[e].deleted \/ CanAdvance(s.event[e])
  BY DEF Bury
<1>2. t = [s EXCEPT !.event = buried, !.run = run, !.projection = projection]
  <2>1. ~ \E e \in es : ~ s.event[e].deleted /\ ~ CanAdvance(s.event[e])
    BY <1>1
  <2> QED BY <2>1 DEF Bury, Sound, Store
<1> HIDE DEF run
<1>3. /\ t.history = s.history /\ t.outcome = s.outcome /\ t.local = s.local
      /\ t.event = buried /\ t.projection = projection
  BY <1>2 DEF Sound, Store
<1>4. Elsewhere(s, t, es)
  BY <1>3 DEF Elsewhere
<1>5. ASSUME NEW e \in es
      PROVE  /\ s.event[e].deleted => t.event[e] = s.event[e]
             /\ ~ s.event[e].deleted =>
                  CanAdvance(s.event[e]) /\ t.event[e] = Buried(s.event[e], tie[e])
             /\ t.event[e] \in Event /\ t.event[e].deleted
  <2>1. s.event[e] \in Event /\ tie[e] \in Tie
    BY DEF Sound, Store
  <2>2. CASE s.event[e].deleted
    BY <1>3, <2>1, <2>2
  <2>3. CASE ~ s.event[e].deleted
    <3>1. t.event[e] = Buried(s.event[e], tie[e]) /\ CanAdvance(s.event[e])
      BY <1>1, <1>3, <2>3
    <3>2. Buried(s.event[e], tie[e]) \in Event /\ Buried(s.event[e], tie[e]).deleted
      BY <2>1, <3>1, BuriedWins
    <3> QED BY <2>3, <3>1, <3>2
  <2> QED BY <2>2, <2>3
<1>6. ASSUME NEW e \in es
      PROVE  /\ t.projection[e] # None
             /\ t.projection[e].local = ProjectionOf(s, e).local
             /\ t.projection[e].hidden
             /\ Mark(t.projection[e]) = Mark(t.event[e])
  <2>1. t.projection[e] = withheld(e) /\ t.event[e] = buried[e] /\ buried[e] \in Event
    BY <1>3, <1>5
  <2>2. ProjectionOf(s, e) \in Projection \cup {Unprojected}
    BY DEF ProjectionOf, Sound, Store
  <2> HIDE DEF buried
  <2>3. At(ProjectionOf(s, e), buried[e]) \in Projection
    BY <2>1, <2>2, AtIsProjection
  <2>4. withheld(e) \in Projection
    BY <2>3 DEF Projection
  <2>5. At(ProjectionOf(s, e), buried[e]).local = ProjectionOf(s, e).local
    <3>1. CASE ProjectionOf(s, e) \in Projection
      BY <3>1 DEF At, Projection
    <3>2. CASE ProjectionOf(s, e) = Unprojected
      BY <3>2 DEF At, Unprojected
    <3> QED BY <2>2, <3>1, <3>2
  <2>6. Mark(At(ProjectionOf(s, e), buried[e])) = Mark(buried[e])
    <3>1. CASE ProjectionOf(s, e) \in Projection
      BY <3>1 DEF At, Projection, Mark
    <3>2. CASE ProjectionOf(s, e) = Unprojected
      BY <3>2 DEF At, Unprojected, Mark
    <3> QED BY <2>2, <3>1, <3>2
  <2>7. /\ withheld(e).hidden
        /\ withheld(e).local = At(ProjectionOf(s, e), buried[e]).local
        /\ Mark(withheld(e)) = Mark(At(ProjectionOf(s, e), buried[e]))
    BY <2>3 DEF Projection, Mark
  <2> HIDE DEF withheld
  <2> QED BY <2>1, <2>4, <2>5, <2>6, <2>7, NothingAssumption
<1> QED BY <1>3, <1>4, <1>5, <1>6

\* A rewrite gives the row the line, and the event behind it.
LEMMA RewriteLineChanges ==
  ASSUME NEW s, Sound(s), NEW i \in LocalId, NEW line \in Line,
         NEW tie \in [EventId -> Tie], NEW t, t = RewriteLine(s, i, line, tie), t # None
  PROVE  LET e == s.local[i] IN
         \/ t = s
         \/ /\ s.history[i] # None /\ e \in EventId /\ s.event[e] \in Event
            /\ t.history = [s.history EXCEPT ![i] = line]
            /\ t.outcome = s.outcome /\ t.local = s.local
            /\ \/ /\ t.event = s.event /\ t.projection = s.projection
                  /\ s.event[e].line = line
               \/ /\ CanAdvance(s.event[e])
                  /\ Changed(s, t, e, [Advance(s.event[e], tie[e]) EXCEPT !.line = line])
<1> DEFINE u == [s EXCEPT !.history[i] = line]
<1>1. CASE t = s
  BY <1>1
<1>2. CASE t # s
  <2>1. s.history[i] # None /\ t = RewriteLocal(u, i, line, tie)
    BY <1>2 DEF RewriteLine
  <2>2. /\ u \in Store /\ u.history = [s.history EXCEPT ![i] = line] /\ u.outcome = s.outcome
        /\ u.local = s.local /\ u.event = s.event /\ u.projection = s.projection
    BY DEF Sound, Store
  <2> HIDE DEF u
  <2>3. Sound(u)
    BY <2>2, TablesKeep DEF Keeps
  <2> DEFINE e == s.local[i]
             ev == [Advance(u.event[e], tie[e]) EXCEPT !.line = line]
  <2>4. /\ e \in EventId /\ u.event[e] \in Event /\ t.history = u.history
        /\ \/ t = u /\ u.event[e].line = line
           \/ CanAdvance(u.event[e]) /\ Changed(u, t, e, ev)
    BY <2>1, <2>2, <2>3, RewriteLocalChanges
  <2> QED BY <2>1, <2>2, <2>4 DEF Changed, Elsewhere
<1> QED BY <1>1, <1>2

-----------------------------------------------------------------------------
(***************************************************************************)
(* What the rows say.  In a store nothing has synced into, the index and   *)
(* the projections lead to each other, a row says what its event says, and *)
(* every transaction of track keeps it so.                                 *)
(***************************************************************************)
Projected(s) == \A e \in EventId : s.event[e] # None => s.projection[e] # None

\* An event's projection names the one row that is indexed as the event's.
Placed(s) ==
  \A i \in LocalId : s.local[i] # None => s.projection[s.local[i]].local = i

\* A row is its live event's line.
RowsTrue(s) ==
  \A i \in LocalId : s.history[i] # None =>
    /\ s.local[i] # None /\ ~ s.event[s.local[i]].deleted
    /\ s.event[s.local[i]].line = s.history[i]

Truthful(s) == Projected(s) /\ Placed(s) /\ RowsTrue(s)

\* Event e has its row, and the row its line.
Stands(s, e) ==
  LET i == s.projection[e].local IN
  i \in LocalId /\ s.local[i] = e /\ s.history[i] # None /\ s.history[i] = s.event[e].line

\* A line that is neither deleted nor withheld stands.
Standing(s) ==
  \A e \in EventId :
    s.event[e] # None /\ ~ s.event[e].deleted /\ ~ s.projection[e].hidden => Stands(s, e)

\* Nothing but a tombstone is withheld: no trim has passed here.
Shown(s) ==
  \A e \in EventId : s.event[e] # None /\ ~ s.event[e].deleted => ~ s.projection[e].hidden

\* An empty database says nothing.
LEMMA EmptyStoreTells == Truthful(EmptyStore) /\ Standing(EmptyStore) /\ Shown(EmptyStore)
BY DEF EmptyStore, Truthful, Projected, Placed, RowsTrue, Standing, Shown

\* Rows that go, and nothing else that a row or an event says.
LEMMA RowsGo ==
  ASSUME NEW s, Sound(s), Truthful(s), NEW t,
         t.local = s.local, t.event = s.event, t.projection = s.projection,
         \A i \in LocalId : t.history[i] = s.history[i] \/ t.history[i] = None
  PROVE  /\ Truthful(t)
         /\ Shown(s) => Shown(t)
         /\ (\A i \in LocalId : t.history[i] # s.history[i] =>
               s.projection[s.local[i]].hidden)
            /\ Standing(s) => Standing(t)
<1>1. Truthful(t)
  BY DEF Truthful, Projected, Placed, RowsTrue
<1>2. Shown(s) => Shown(t)
  BY DEF Shown
<1>3. ASSUME \A i \in LocalId : t.history[i] # s.history[i] => s.projection[s.local[i]].hidden,
             Standing(s)
      PROVE  Standing(t)
  <2> SUFFICES ASSUME NEW e \in EventId, t.event[e] # None, ~ t.event[e].deleted,
                      ~ t.projection[e].hidden
               PROVE  Stands(t, e)
    BY DEF Standing
  <2>1. Stands(s, e)
    BY <1>3 DEF Standing
  <2>2. t.history[s.projection[e].local] = s.history[s.projection[e].local]
    BY <1>3, <2>1 DEF Stands
  <2> QED BY <2>1, <2>2 DEF Stands
<1> QED BY <1>1, <1>2, <1>3

\* One event changed, under the row it had, the row saying what it says.
LEMMA OneLineTells ==
  ASSUME NEW s, Sound(s), Truthful(s), NEW i \in LocalId, s.local[i] # None,
         NEW t, NEW ev, Changed(s, t, s.local[i], ev), s.event[s.local[i]].deleted = ev.deleted,
         \A j \in LocalId \ {i} : t.history[j] = s.history[j],
         t.history[i] # None => t.history[i] = ev.line /\ s.history[i] # None,
         t.history[i] = None => s.history[i] = None
  PROVE  /\ Truthful(t)
         /\ Shown(s) => Shown(t)
         /\ Standing(s) => Standing(t)
<1> DEFINE e == s.local[i]
<1>1. e \in EventId /\ s.event[e] \in Event /\ s.projection[e] \in Projection
  BY EventOfRow
<1>2. /\ t.local = s.local
      /\ \A f \in EventId \ {e} : t.event[f] = s.event[f] /\ t.projection[f] = s.projection[f]
      /\ t.event[e] = ev /\ t.projection[e] \in Projection
      /\ t.projection[e].local = s.projection[e].local
      /\ t.projection[e].hidden = s.projection[e].hidden
  BY DEF Changed, Elsewhere
<1>3. s.projection[e].local = i
  BY DEF Truthful, Placed
<1>4. ASSUME NEW j \in LocalId \ {i}, s.local[j] # None
      PROVE  s.local[j] \in EventId \ {e}
  BY <1>3, <1>4, EventOfRow DEF Truthful, Placed
<1> HIDE DEF e
<1>5. Projected(t)
  BY <1>2, NothingAssumption DEF Truthful, Projected
<1>6. Placed(t)
  <2> SUFFICES ASSUME NEW j \in LocalId, t.local[j] # None
               PROVE  t.projection[t.local[j]].local = j
    BY DEF Placed
  <2>1. CASE j = i
    BY <1>2, <1>3, <2>1 DEF e
  <2>2. CASE j # i
    <3>1. s.local[j] \in EventId \ {e} /\ s.projection[s.local[j]].local = j
      BY <1>2, <1>4, <2>2 DEF Truthful, Placed
    <3> QED BY <1>2, <3>1
  <2> QED BY <2>1, <2>2
<1>7. RowsTrue(t)
  <2> SUFFICES ASSUME NEW j \in LocalId, t.history[j] # None
               PROVE  /\ t.local[j] # None /\ ~ t.event[t.local[j]].deleted
                      /\ t.event[t.local[j]].line = t.history[j]
    BY DEF RowsTrue
  <2>1. CASE j = i
    BY <1>2, <2>1 DEF e, Truthful, RowsTrue
  <2>2. CASE j # i
    <3>1. /\ s.local[j] # None /\ ~ s.event[s.local[j]].deleted
          /\ s.event[s.local[j]].line = t.history[j]
      BY <2>2 DEF Truthful, RowsTrue
    <3>2. s.local[j] \in EventId \ {e}
      BY <1>4, <2>2, <3>1
    <3> QED BY <1>2, <3>1, <3>2
  <2> QED BY <2>1, <2>2
<1>8. ASSUME Shown(s) PROVE Shown(t)
  <2> SUFFICES ASSUME NEW f \in EventId, t.event[f] # None, ~ t.event[f].deleted
               PROVE  ~ t.projection[f].hidden
    BY DEF Shown
  <2>1. CASE f = e
    BY <1>1, <1>2, <1>8, <2>1, NothingAssumption DEF Shown, e
  <2>2. CASE f # e
    BY <1>2, <1>8, <2>2 DEF Shown
  <2> QED BY <2>1, <2>2
<1>9. ASSUME Standing(s) PROVE Standing(t)
  <2> SUFFICES ASSUME NEW f \in EventId, t.event[f] # None, ~ t.event[f].deleted,
                      ~ t.projection[f].hidden
               PROVE  Stands(t, f)
    BY DEF Standing
  <2>1. CASE f = e
    <3>1. Stands(s, e)
      BY <1>1, <1>2, <1>9, <2>1, NothingAssumption DEF Standing, e
    <3>2. s.history[i] # None /\ t.history[i] # None
      BY <1>3, <3>1 DEF Stands
    <3> QED BY <1>2, <1>3, <2>1, <3>2 DEF Stands, e
  <2>2. CASE f # e
    <3>1. Stands(s, f)
      BY <1>2, <1>9, <2>2 DEF Standing
    <3>2. s.projection[f].local # i
      BY <2>2, <3>1 DEF Stands, e
    <3> QED BY <1>2, <2>2, <3>1, <3>2 DEF Stands
  <2> QED BY <2>1, <2>2
<1> QED BY <1>5, <1>6, <1>7, <1>8, <1>9 DEF Truthful

\* Some events buried, and their rows gone with them.
LEMMA BuriedLinesGo ==
  ASSUME NEW s, Sound(s), Truthful(s), NEW es \in SUBSET EventId, NEW t,
         t.local = s.local, Elsewhere(s, t, es),
         \A e \in es : t.event[e].deleted /\ t.projection[e] # None
                       /\ t.projection[e].local = ProjectionOf(s, e).local,
         \A i \in LocalId : t.history[i] = s.history[i] \/ t.history[i] = None,
         \A i \in LocalId : s.local[i] \in es => t.history[i] = None
  PROVE  /\ Truthful(t)
         /\ Shown(s) => Shown(t)
         /\ (\A i \in LocalId : t.history[i] # s.history[i] => s.local[i] \in es)
            /\ Standing(s) => Standing(t)
<1>1. \A f \in EventId \ es : t.event[f] = s.event[f] /\ t.projection[f] = s.projection[f]
  BY DEF Elsewhere
<1>2. Projected(t)
  BY <1>1 DEF Truthful, Projected
<1>3. Placed(t)
  <2> SUFFICES ASSUME NEW i \in LocalId, t.local[i] # None
               PROVE  t.projection[t.local[i]].local = i
    BY DEF Placed
  <2>1. /\ s.local[i] \in EventId /\ s.projection[s.local[i]] # None
        /\ s.projection[s.local[i]].local = i
    BY EventOfRow, NothingAssumption DEF Truthful, Placed
  <2> QED BY <1>1, <2>1 DEF ProjectionOf
<1>4. RowsTrue(t)
  <2> SUFFICES ASSUME NEW i \in LocalId, t.history[i] # None
               PROVE  /\ t.local[i] # None /\ ~ t.event[t.local[i]].deleted
                      /\ t.event[t.local[i]].line = t.history[i]
    BY DEF RowsTrue
  <2>1. /\ t.history[i] = s.history[i] /\ s.local[i] # None
        /\ ~ s.event[s.local[i]].deleted /\ s.event[s.local[i]].line = s.history[i]
    BY DEF Truthful, RowsTrue
  <2>2. s.local[i] \in EventId \ es
    BY <2>1, EventOfRow
  <2> QED BY <1>1, <2>1, <2>2
<1>5. Shown(s) => Shown(t)
  BY <1>1 DEF Shown
<1>6. ASSUME \A i \in LocalId : t.history[i] # s.history[i] => s.local[i] \in es, Standing(s)
      PROVE  Standing(t)
  <2> SUFFICES ASSUME NEW f \in EventId, t.event[f] # None, ~ t.event[f].deleted,
                      ~ t.projection[f].hidden
               PROVE  Stands(t, f)
    BY DEF Standing
  <2>1. f \notin es
    OBVIOUS
  <2>2. Stands(s, f)
    BY <1>1, <1>6, <2>1 DEF Standing
  <2>3. t.history[s.projection[f].local] = s.history[s.projection[f].local]
    BY <1>6, <2>1, <2>2 DEF Stands
  <2> QED BY <1>1, <2>1, <2>2, <2>3 DEF Stands
<1> QED BY <1>2, <1>3, <1>4, <1>5, <1>6 DEF Truthful

\* What a transaction from s to t leaves of what the rows say.
Tells(s, t) ==
  Truthful(t) /\ (Shown(s) => Shown(t)) /\ (Standing(s) => Standing(t))

\* A transaction about runs and outcomes says nothing of rows.
LEMMA TablesTell ==
  ASSUME NEW s, Sound(s), Truthful(s), NEW t, t.history = s.history,
         t.local = s.local, t.event = s.event, t.projection = s.projection
  PROVE  Tells(s, t)
BY RowsGo DEF Tells

\* What counting runs, taking them back and forgetting them leave alone.
LEMMA RunsTell ==
  ASSUME NEW s, Sound(s), Truthful(s), NEW dir, NEW line
  PROVE  /\ Tells(s, RecordRun(s, dir, line)) /\ Tells(s, TakeBackRun(s, dir, line))
         /\ Tells(s, ForgetRuns(s)) /\ Tells(s, ForgetRunsOf(s, line))
<1>1. ASSUME NEW run PROVE Tells(s, [s EXCEPT !.run = run])
  <2> DEFINE t == [s EXCEPT !.run = run]
  <2>1. /\ t.history = s.history /\ t.local = s.local /\ t.event = s.event
        /\ t.projection = s.projection
    BY DEF Sound, Store
  <2> HIDE DEF t
  <2>2. Tells(s, t)
    BY <2>1, TablesTell
  <2> QED BY <2>2 DEF t
<1>2. Tells(s, RecordRun(s, dir, line))
  BY <1>1 DEF RecordRun
<1>3. Tells(s, TakeBackRun(s, dir, line))
  BY <1>1 DEF TakeBackRun
<1>4. Tells(s, ForgetRuns(s))
  BY <1>1 DEF ForgetRuns
<1>5. Tells(s, ForgetRunsOf(s, line))
  BY <1>1 DEF ForgetRunsOf
<1> QED BY <1>2, <1>3, <1>4, <1>5

\* The id after the newest row's is no row's.
LEMMA NextIdIsNew ==
  ASSUME NEW s, Sound(s), NextId(s) \in LocalId
  PROVE  \A i \in Rows(s) : i < NextId(s)
<1>1. Rows(s) \in SUBSET LocalId
  BY DEF Rows
<1>2. CASE Rows(s) # {}
  <2>1. Max(Rows(s)) \in Rows(s) /\ \A i \in Rows(s) : Max(Rows(s)) >= i
    BY <1>1, <1>2, NewestIsOne
  <2>2. NextId(s) = Max(Rows(s)) + 1
    BY <1>2 DEF NextId
  <2>3. Max(Rows(s)) \in Nat /\ \A i \in Rows(s) : i \in Nat
    BY <1>1, <2>1 DEF LocalId
  <2> QED BY <2>1, <2>2, <2>3
<1> QED BY <1>2

\* What a line appended leaves in the tables.
LEMMA AppendEntryChanges ==
  ASSUME NEW s, Sound(s), NEW e \in EventId, s.event[e] = None,
         NextId(s) \in LocalId, NEW line \in Line, NEW tie \in [EventId -> Tie],
         NEW t, t = AppendEntry(s, e, line, tie)
  PROVE  LET i == NextId(s) IN
         /\ t.history = [s.history EXCEPT ![i] = line]
         /\ t.local = [s.local EXCEPT ![i] = e]
         /\ t.outcome = s.outcome
         /\ Elsewhere(s, t, {e})
         /\ t.event[e] \in Event /\ ~ t.event[e].deleted /\ t.event[e].line = line
         /\ t.event[e].revision = 1 /\ t.event[e].tie = tie[e] /\ t.event[e].done = None
         /\ t.projection[e] # None /\ t.projection[e].local = i
         /\ ~ t.projection[e].hidden
         /\ Mark(t.projection[e]) = Mark(t.event[e])
<1> DEFINE i == NextId(s)
           ev == [revision |-> 1, deleted |-> FALSE, tie |-> tie[e], line |-> line, done |-> None]
           p == At([Unprojected EXCEPT !.local = i], ev)
<1>1. /\ t.history = [s.history EXCEPT ![i] = line] /\ t.local = [s.local EXCEPT ![i] = e]
      /\ t.outcome = s.outcome /\ t.event = [s.event EXCEPT ![e] = ev]
      /\ t.projection = [s.projection EXCEPT ![e] = p]
  BY DEF AppendEntry, Sound, Store
<1>2. ev \in Event
  BY StampAssumption DEF Event, Revision
<1>3. /\ p \in Projection /\ p.local = i /\ ~ p.hidden
      /\ Mark(p) = Mark(ev)
  BY <1>2 DEF At, Projection, Unprojected, Event, Mark
<1>4. ~ ev.deleted /\ ev.line = line /\ ev.revision = 1 /\ ev.tie = tie[e] /\ ev.done = None
  OBVIOUS
<1> HIDE DEF ev, p
<1>5. t.event[e] = ev /\ t.projection[e] = p /\ Elsewhere(s, t, {e})
  BY <1>1 DEF Elsewhere, Sound, Store
<1> QED BY <1>1, <1>2, <1>3, <1>4, <1>5, NothingAssumption

\* A line appended stands, and takes no other line's row.
LEMMA AppendEntryTells ==
  ASSUME NEW s, Sound(s), Truthful(s), NEW e \in EventId, s.event[e] = None,
         NextId(s) \in LocalId, NEW line \in Line, NEW tie \in [EventId -> Tie]
  PROVE  Tells(s, AppendEntry(s, e, line, tie))
<1> DEFINE t == AppendEntry(s, e, line, tie)
           i == NextId(s)
<1>1. /\ t.history = [s.history EXCEPT ![i] = line]
      /\ t.local = [s.local EXCEPT ![i] = e]
      /\ Elsewhere(s, t, {e})
      /\ t.event[e] \in Event /\ ~ t.event[e].deleted /\ t.event[e].line = line
      /\ t.projection[e] # None /\ t.projection[e].local = i
      /\ ~ t.projection[e].hidden
  BY AppendEntryChanges
<1>2. /\ t.history[i] = line /\ t.local[i] = e
      /\ \A j \in LocalId \ {i} : t.history[j] = s.history[j] /\ t.local[j] = s.local[j]
      /\ \A f \in EventId \ {e} : t.event[f] = s.event[f] /\ t.projection[f] = s.projection[f]
  BY <1>1 DEF Elsewhere, Sound, Store
<1>3. line # None /\ e # None /\ s.history[i] = None
  <2>1. i \notin Rows(s)
    BY NextIdIsNew DEF LocalId
  <2>2. e # None
    BY NothingAssumption DEF EventId
  <2> QED BY <2>1, <2>2, HistoryAssumption DEF Rows
<1>4. \A j \in LocalId : s.local[j] # None => s.local[j] \in EventId \ {e}
  BY EventOfRow
<1> HIDE DEF t, i
<1>5. Projected(t)
  BY <1>1, <1>2 DEF Truthful, Projected
<1>6. Placed(t)
  BY <1>1, <1>2, <1>4 DEF Truthful, Placed
<1>7. RowsTrue(t)
  BY <1>1, <1>2, <1>3, <1>4 DEF Truthful, RowsTrue
<1>8. Shown(s) => Shown(t)
  BY <1>1, <1>2 DEF Shown
<1>9. ASSUME Standing(s) PROVE Standing(t)
  <2> SUFFICES ASSUME NEW f \in EventId, t.event[f] # None, ~ t.event[f].deleted,
                      ~ t.projection[f].hidden
               PROVE  Stands(t, f)
    BY DEF Standing
  <2>1. CASE f = e
    BY <1>1, <1>2, <1>3, <2>1 DEF Stands, i
  <2>2. CASE f # e
    <3>1. Stands(s, f)
      BY <1>2, <1>9, <2>2 DEF Standing
    <3>2. s.projection[f].local \in LocalId \ {i}
      BY <1>3, <3>1 DEF Stands
    <3> QED BY <1>2, <2>2, <3>1, <3>2 DEF Stands
  <2> QED BY <2>1, <2>2
<1> QED BY <1>5, <1>6, <1>7, <1>8, <1>9 DEF Tells, Truthful, t

\* A completion changes no line.
LEMMA CompleteLocalTells ==
  ASSUME NEW s, Sound(s), Truthful(s), NEW i \in LocalId, NEW done \in Done,
         NEW tie \in [EventId -> Tie], NEW t, t = CompleteLocal(s, i, done, tie), t # None
  PROVE  Tells(s, t)
<1> DEFINE e == s.local[i]
           ev == [Advance(s.event[e], tie[e]) EXCEPT !.done = done]
<1>1. s.local[i] # None
  BY DEF CompleteLocal
<1>2. /\ e \in EventId /\ s.event[e] \in Event /\ CanAdvance(s.event[e])
      /\ t.history = s.history /\ Changed(s, t, e, ev)
  BY CompleteLocalChanges
<1>3. ev.deleted = s.event[e].deleted /\ ev.line = s.event[e].line
  BY <1>2, NextCopy
<1> HIDE DEF ev
<1>4. s.history[i] # None => s.history[i] = ev.line
  BY <1>3 DEF Truthful, RowsTrue
<1> QED BY <1>1, <1>2, <1>3, <1>4, OneLineTells DEF Tells

\* Nor does the outcome written beside the row.
LEMMA WriteOutcomesTells ==
  ASSUME NEW s, Sound(s), Truthful(s), NEW i \in LocalId, NEW done \in Done,
         NEW tie \in [EventId -> Tie], WriteOutcomes(s, i, done, tie) # None
  PROVE  Tells(s, WriteOutcomes(s, i, done, tie))
<1> DEFINE u == [s EXCEPT !.outcome[i] = done]
           t == CompleteLocal(u, i, done, tie)
<1>1. /\ u \in Store /\ u.local = s.local /\ u.event = s.event
      /\ u.projection = s.projection /\ u.history = s.history
  BY DEF Sound, Store
<1>2. WriteOutcomes(s, i, done, tie) = t /\ t # None
  BY DEF WriteOutcomes
<1> HIDE DEF u
<1>3. Sound(u) /\ Tells(s, u)
  BY <1>1, TablesKeep, TablesTell DEF Keeps
<1>4. Tells(u, t)
  BY <1>2, <1>3, CompleteLocalTells DEF Tells
<1> HIDE DEF t
<1> QED BY <1>2, <1>3, <1>4 DEF Tells

\* A rewrite gives the row and the event behind it the same line.
LEMMA RewriteLineTells ==
  ASSUME NEW s, Sound(s), Truthful(s), NEW i \in LocalId, NEW line \in Line,
         NEW tie \in [EventId -> Tie], RewriteLine(s, i, line, tie) # None
  PROVE  Tells(s, RewriteLine(s, i, line, tie))
<1> DEFINE t == RewriteLine(s, i, line, tie)
           e == s.local[i]
           ev == [Advance(s.event[e], tie[e]) EXCEPT !.line = line]
<1>1. CASE t = s
  BY <1>1 DEF Tells
<1>2. CASE t # s
  <2>1. /\ s.history[i] # None /\ e \in EventId /\ s.event[e] \in Event
        /\ t.history = [s.history EXCEPT ![i] = line]
        /\ t.outcome = s.outcome /\ t.local = s.local
        /\ \/ /\ t.event = s.event /\ t.projection = s.projection
              /\ s.event[e].line = line
           \/ CanAdvance(s.event[e]) /\ Changed(s, t, e, ev)
    BY <1>2, RewriteLineChanges
  <2>2. /\ s.local[i] # None /\ line # None
        /\ s.event[e].line = s.history[i] /\ ~ s.event[e].deleted
    BY <2>1, HistoryAssumption DEF Truthful, RowsTrue
  <2>3. t.history[i] = line /\ \A j \in LocalId \ {i} : t.history[j] = s.history[j]
    BY <2>1 DEF Sound, Store
  <2>4. CASE /\ t.event = s.event /\ t.projection = s.projection
             /\ s.event[e].line = line
    <3>1. t.history = s.history
      BY <2>1, <2>2, <2>4 DEF Sound, Store
    <3> HIDE DEF t
    <3> QED BY <2>1, <2>4, <3>1, TablesTell DEF t
  <2>5. CASE CanAdvance(s.event[e]) /\ Changed(s, t, e, ev)
    <3>1. ev.deleted = s.event[e].deleted /\ ev.line = line
      <4> DEFINE new == Advance(s.event[e], tie[e])
      <4>1. new \in Event /\ new.deleted = s.event[e].deleted
        BY <2>1, <2>5, NextCopy
      <4>2. ev = [new EXCEPT !.line = line]
        OBVIOUS
      <4> HIDE DEF new, ev
      <4> QED BY <4>1, <4>2 DEF Event
    <3> HIDE DEF t, ev
    <3>2. Tells(s, t)
      BY <2>1, <2>2, <2>3, <2>5, <3>1, OneLineTells DEF Tells
    <3> QED BY <3>2 DEF t
  <2> QED BY <2>1, <2>4, <2>5
<1> QED BY <1>1, <1>2

\* What dropping rows and outcomes does to the rows.
LEMMA DropsChange ==
  ASSUME NEW s, Sound(s), NEW ids, NEW others
  PROVE  LET t == DropOutcomes(DropHistory(s, ids), others) IN
         /\ \A i \in LocalId : t.history[i] = IF i \in ids THEN None ELSE s.history[i]
         /\ \A i \in LocalId : t.outcome[i] = IF i \in others THEN None ELSE s.outcome[i]
<1> DEFINE h == DropHistory(s, ids)
           t == DropOutcomes(h, others)
<1>1. /\ h.history = [i \in LocalId |-> IF i \in ids THEN None ELSE s.history[i]]
      /\ h.outcome = s.outcome
  BY DEF DropHistory, Sound, Store
<1>2. Sound(h)
  BY DropsKeep DEF Keeps
<1> HIDE DEF h
<1>3. /\ t.outcome = [i \in LocalId |-> IF i \in others THEN None ELSE h.outcome[i]]
      /\ t.history = h.history
  BY <1>2 DEF DropOutcomes, Sound, Store
<1> HIDE DEF t
<1>4. /\ \A i \in LocalId : t.history[i] = IF i \in ids THEN None ELSE s.history[i]
      /\ \A i \in LocalId : t.outcome[i] = IF i \in others THEN None ELSE s.outcome[i]
  BY <1>1, <1>3
<1> QED BY <1>4 DEF t, h

\* Events buried and some rows dropped, in one transaction.
LEMMA BuryAndDropTells ==
  ASSUME NEW s, Sound(s), Truthful(s), NEW es \in SUBSET EventId,
         \A e \in es : s.event[e] # None, NEW tie \in [EventId -> Tie],
         Bury(s, es, tie) # None, NEW ids, NEW others,
         \A i \in LocalId : s.local[i] \in es => i \in ids \/ s.history[i] = None
  PROVE  LET t == DropOutcomes(DropHistory(Bury(s, es, tie), ids), others) IN
         /\ Truthful(t)
         /\ Shown(s) => Shown(t)
         /\ (\A i \in LocalId : i \in ids /\ s.history[i] # None => s.local[i] \in es)
            /\ Standing(s) => Standing(t)
<1> DEFINE u == Bury(s, es, tie)
           t == DropOutcomes(DropHistory(u, ids), others)
<1>1. Sound(u)
  BY BuryKeeps DEF Keeps
<1>2. /\ u.history = s.history /\ u.local = s.local
      /\ Elsewhere(s, u, es)
      /\ \A e \in es : /\ u.event[e].deleted /\ u.projection[e] # None
                       /\ u.projection[e].local = ProjectionOf(s, e).local
  BY BuryChanges
<1> HIDE DEF u
<1>3. /\ t.local = u.local /\ t.event = u.event /\ t.projection = u.projection
      /\ \A i \in LocalId : t.history[i] = IF i \in ids THEN None ELSE u.history[i]
  BY <1>1, DropsLeaveEvents, DropsChange
<1> HIDE DEF t
<1>4. /\ t.local = s.local /\ Elsewhere(s, t, es)
      /\ \A e \in es : /\ t.event[e].deleted /\ t.projection[e] # None
                       /\ t.projection[e].local = ProjectionOf(s, e).local
      /\ \A i \in LocalId : t.history[i] = s.history[i] \/ t.history[i] = None
      /\ \A i \in LocalId : s.local[i] \in es => t.history[i] = None
      /\ \A i \in LocalId : t.history[i] # s.history[i] => i \in ids /\ s.history[i] # None
  BY <1>2, <1>3 DEF Elsewhere
<1>5. /\ Truthful(t)
      /\ Shown(s) => Shown(t)
      /\ (\A i \in LocalId : t.history[i] # s.history[i] => s.local[i] \in es)
         /\ Standing(s) => Standing(t)
  BY <1>4, BuriedLinesGo
<1>6. (\A i \in LocalId : i \in ids /\ s.history[i] # None => s.local[i] \in es)
        => \A i \in LocalId : t.history[i] # s.history[i] => s.local[i] \in es
  BY <1>4
<1> QED BY <1>5, <1>6 DEF t, u

\* Lines taken away by their rows: each row goes with the event behind it.
LEMMA DropLinesTells ==
  ASSUME NEW s, Sound(s), Truthful(s), NEW ids \in SUBSET LocalId,
         NEW tie \in [EventId -> Tie], DropLines(s, ids, tie) # None
  PROVE  Tells(s, DropLines(s, ids, tie))
<1> DEFINE es == {s.local[i] : i \in ids}
           t == DropOutcomes(DropHistory(Bury(s, es, tie), ids), ids)
<1>1. /\ ~ \E i \in ids : s.local[i] = None
      /\ Bury(s, es, tie) # None /\ DropLines(s, ids, tie) = t
  BY DEF DropLines, TombstoneLocals
<1>2. es \in SUBSET EventId /\ \A e \in es : s.event[e] # None
  BY <1>1, EventsOfRows
<1>3. \A i \in LocalId : s.local[i] \in es => i \in ids
  BY <1>1 DEF Truthful, Placed
<1>4. \A i \in LocalId : i \in ids => s.local[i] \in es
  OBVIOUS
<1> HIDE DEF es
<1>5. Tells(s, t)
  BY <1>1, <1>2, <1>3, <1>4, BuryAndDropTells DEF Tells
<1> QED BY <1>1, <1>5

\* Every line taken away.
LEMMA ClearTells ==
  ASSUME NEW s, Sound(s), Truthful(s), NEW tie \in [EventId -> Tie], Clear(s, tie) # None
  PROVE  Tells(s, Clear(s, tie))
<1> DEFINE es == {s.local[i] : i \in Rows(s)}
           t == DropOutcomes(DropHistory(Bury(s, es, tie), LocalId), LocalId)
<1>1. /\ ~ \E i \in Rows(s) : s.local[i] = None
      /\ Bury(s, es, tie) # None /\ Clear(s, tie) = t
  BY DEF Clear, TombstoneLocals
<1>2. es \in SUBSET EventId /\ \A e \in es : s.event[e] # None
  <2>1. Rows(s) \in SUBSET LocalId
    BY DEF Rows
  <2> QED BY <1>1, <2>1, EventsOfRows
<1>3. \A i \in LocalId : s.history[i] # None => s.local[i] \in es
  BY DEF Rows
<1> HIDE DEF es
<1>4. Tells(s, t)
  BY <1>1, <1>2, <1>3, BuryAndDropTells DEF Tells
<1> QED BY <1>1, <1>4

\* Lines taken away by their events.  Where nothing live is withheld and every
\* line stands, the row a live event names is its own.
LEMMA DeleteEventsTells ==
  ASSUME NEW s, Sound(s), Truthful(s), NEW es \in SUBSET EventId,
         NEW tie \in [EventId -> Tie], DeleteEvents(s, es, tie) # None
  PROVE  LET t == DeleteEvents(s, es, tie) IN
         /\ Truthful(t)
         /\ Shown(s) => Shown(t)
         /\ Shown(s) /\ Standing(s) => Standing(t)
<1> DEFINE live == {e \in es : IF s.event[e] = None THEN FALSE ELSE ~ s.event[e].deleted}
           rows == {ProjectionOf(s, e).local : e \in live}
           t == DropOutcomes(DropHistory(Bury(s, live, tie), rows), rows)
<1>1. Bury(s, live, tie) # None /\ DeleteEvents(s, es, tie) = t
  BY DEF DeleteEvents
<1>2. live \in SUBSET EventId /\ \A e \in live : s.event[e] # None /\ ~ s.event[e].deleted
  OBVIOUS
<1>3. \A e \in live : s.projection[e] # None /\ ProjectionOf(s, e) = s.projection[e]
  BY <1>2 DEF Truthful, Projected, ProjectionOf
<1>4. ASSUME NEW i \in LocalId, s.local[i] \in live PROVE i \in rows
  <2>1. s.local[i] # None
    BY <1>2, <1>4, NothingAssumption DEF EventId
  <2>2. ProjectionOf(s, s.local[i]).local = i
    BY <1>3, <1>4, <2>1 DEF Truthful, Placed
  <2> QED BY <1>4, <2>2
<1>5. ASSUME Shown(s), Standing(s), NEW i \in LocalId, i \in rows PROVE s.local[i] \in live
  <2>1. PICK e \in live : i = s.projection[e].local
    BY <1>3, <1>5
  <2>2. Stands(s, e)
    BY <1>2, <1>5, <2>1 DEF Shown, Standing
  <2> QED BY <2>1, <2>2 DEF Stands
<1> HIDE DEF live, rows
<1>6. /\ Truthful(t)
      /\ Shown(s) => Shown(t)
      /\ (\A i \in LocalId : i \in rows /\ s.history[i] # None => s.local[i] \in live)
         /\ Standing(s) => Standing(t)
  BY <1>1, <1>2, <1>4, BuryAndDropTells
<1> QED BY <1>1, <1>5, <1>6

\* A trim withholds events and changes no line.
LEMMA HideLocalsTells ==
  ASSUME NEW s, Sound(s), Truthful(s), NEW ids \in SUBSET LocalId,
         NEW t, t = HideLocals(s, ids), t # None
  PROVE  /\ t.history = s.history /\ t.outcome = s.outcome /\ t.local = s.local
         /\ t.event = s.event
         /\ \A i \in ids : t.projection[s.local[i]].hidden
         /\ \A e \in EventId : s.projection[e] # None /\ s.projection[e].hidden
              => t.projection[e].hidden
         /\ Truthful(t)
         /\ Standing(s) => Standing(t)
<1> DEFINE es == {s.local[i] : i \in ids}
           hidden(e) == [s.projection[e] EXCEPT !.hidden = TRUE]
           projection == [e \in EventId |-> IF e \in es THEN hidden(e) ELSE s.projection[e]]
<1>1. ~ \E i \in ids : s.local[i] = None
  BY DEF HideLocals
<1>2. /\ t.history = s.history /\ t.outcome = s.outcome /\ t.local = s.local
      /\ t.event = s.event /\ t.projection = projection
  BY <1>1 DEF HideLocals, Sound, Store
<1>3. es \in SUBSET EventId /\ \A e \in es : s.projection[e] \in Projection
  BY <1>1, EventsOfRows
<1>4. \A e \in es : /\ hidden(e) \in Projection /\ hidden(e).hidden
                    /\ hidden(e).local = s.projection[e].local
  BY <1>3 DEF Projection
<1> HIDE DEF hidden
<1>5. /\ \A e \in es : /\ t.projection[e] # None /\ t.projection[e].hidden
                       /\ t.projection[e].local = s.projection[e].local
      /\ \A e \in EventId \ es : t.projection[e] = s.projection[e]
  BY <1>2, <1>3, <1>4, NothingAssumption
<1>6. \A i \in ids : t.projection[s.local[i]].hidden
  BY <1>5
<1> HIDE DEF es, projection
<1>7. Projected(t)
  BY <1>2, <1>5 DEF Truthful, Projected
<1>8. Placed(t)
  <2>1. \A i \in LocalId : s.local[i] # None => s.local[i] \in EventId
    BY EventOfRow
  <2> QED BY <1>2, <1>5, <2>1 DEF Truthful, Placed
<1>9. RowsTrue(t)
  BY <1>2 DEF Truthful, RowsTrue
<1>10. ASSUME Standing(s) PROVE Standing(t)
  BY <1>2, <1>5, <1>10 DEF Standing, Stands
<1> QED BY <1>2, <1>5, <1>6, <1>7, <1>8, <1>9, <1>10 DEF Truthful

(***************************************************************************)
(* Which rows there are.  Only a deletion or the end of a trim takes one   *)
(* away, and only Enter adds one, above the others.                        *)
(***************************************************************************)
RowsStay(s, t) ==
  /\ \A i \in Rows(s) : /\ i \in Rows(t) /\ t.local[i] = s.local[i]
                        /\ s.projection[s.local[i]].hidden => t.projection[s.local[i]].hidden
  /\ \A i \in Rows(t) \ Rows(s) : \A j \in Rows(s) : j < i

\* What touches neither rows nor projections.
LEMMA SameRowsStay ==
  ASSUME NEW s, Sound(s), NEW t,
         t.history = s.history, t.local = s.local, t.projection = s.projection
  PROVE  RowsStay(s, t)
BY DEF RowsStay, Rows

\* Runs are counted beside the rows.
LEMMA RunsStay ==
  ASSUME NEW s, Sound(s), NEW dir, NEW line
  PROVE  /\ RowsStay(s, RecordRun(s, dir, line)) /\ RowsStay(s, TakeBackRun(s, dir, line))
         /\ RowsStay(s, ForgetRuns(s)) /\ RowsStay(s, ForgetRunsOf(s, line))
<1>1. ASSUME NEW run PROVE RowsStay(s, [s EXCEPT !.run = run])
  <2> DEFINE t == [s EXCEPT !.run = run]
  <2>1. t.history = s.history /\ t.local = s.local /\ t.projection = s.projection
    BY DEF Sound, Store
  <2> HIDE DEF t
  <2>2. RowsStay(s, t)
    BY <2>1, SameRowsStay
  <2> QED BY <2>2 DEF t
<1>2. RowsStay(s, RecordRun(s, dir, line))
  BY <1>1 DEF RecordRun
<1>3. RowsStay(s, TakeBackRun(s, dir, line))
  BY <1>1 DEF TakeBackRun
<1>4. RowsStay(s, ForgetRuns(s))
  BY <1>1 DEF ForgetRuns
<1>5. RowsStay(s, ForgetRunsOf(s, line))
  BY <1>1 DEF ForgetRunsOf
<1> QED BY <1>2, <1>3, <1>4, <1>5

\* A line appended is one row more.
LEMMA AppendEntryStays ==
  ASSUME NEW s, Sound(s), Truthful(s), NEW e \in EventId, s.event[e] = None,
         NextId(s) \in LocalId, NEW line \in Line, NEW tie \in [EventId -> Tie]
  PROVE  RowsStay(s, AppendEntry(s, e, line, tie))
<1> DEFINE t == AppendEntry(s, e, line, tie)
           i == NextId(s)
<1>1. /\ t.history = [s.history EXCEPT ![i] = line]
      /\ t.local = [s.local EXCEPT ![i] = e]
      /\ Elsewhere(s, t, {e})
  BY AppendEntryChanges
<1>2. \A j \in Rows(s) : j < i
  BY NextIdIsNew
<1>3. i \in Nat /\ \A j \in Rows(s) : j \in LocalId /\ j # i
  BY <1>2 DEF Rows, LocalId
<1> HIDE DEF t, i
<1>4. ASSUME NEW j \in Rows(s)
      PROVE  /\ t.history[j] = s.history[j] /\ t.local[j] = s.local[j]
             /\ s.projection[s.local[j]].hidden => t.projection[s.local[j]].hidden
  <2>1. t.history[j] = s.history[j] /\ t.local[j] = s.local[j]
    BY <1>1, <1>3 DEF Sound, Store
  <2>2. s.local[j] # None
    BY DEF Truthful, RowsTrue, Rows
  <2>3. s.local[j] \in EventId \ {e}
    BY <1>3, <2>2, EventOfRow
  <2> QED BY <1>1, <2>1, <2>3 DEF Elsewhere
<1>5. \A j \in Rows(t) \ Rows(s) : j = i
  BY <1>1 DEF Rows, Sound, Store
<1> QED BY <1>2, <1>3, <1>4, <1>5 DEF RowsStay, Rows, t

\* What an outcome written leaves: one projection changed, as withheld as it was.
OutcomeWritten(s, t, i, done, tie) ==
  LET e == s.local[i] IN
  /\ Truthful(s) => RowsStay(s, t)
  /\ e \in EventId /\ s.event[e] \in Event /\ CanAdvance(s.event[e])
  /\ t.history = s.history /\ t.local = s.local
  /\ t.outcome = [s.outcome EXCEPT ![i] = done]
  /\ Elsewhere(s, t, {e})
  /\ t.event[e] = [Advance(s.event[e], tie[e]) EXCEPT !.done = done]
  /\ t.projection[e].local = s.projection[e].local
  /\ t.projection[e].hidden = s.projection[e].hidden
  /\ LiveAt(t.projection[e], t.event[e])
  /\ ~ s.event[e].deleted => Mark(t.projection[e]) = Mark(t.event[e])

\* That is what it does, wherever the transaction commits.
LEMMA WriteOutcomesChanges ==
  ASSUME NEW s, Sound(s), NEW i \in LocalId, NEW done \in Done,
         NEW tie \in [EventId -> Tie], NEW t, t = WriteOutcomes(s, i, done, tie), t # None
  PROVE  OutcomeWritten(s, t, i, done, tie)
<1> DEFINE u == [s EXCEPT !.outcome[i] = done]
           e == s.local[i]
           ev == [Advance(s.event[e], tie[e]) EXCEPT !.done = done]
<1>1. /\ u \in Store /\ u.local = s.local /\ u.event = s.event
      /\ u.projection = s.projection /\ u.history = s.history
      /\ u.outcome = [s.outcome EXCEPT ![i] = done]
  BY DEF Sound, Store
<1>2. t = CompleteLocal(u, i, done, tie)
  BY DEF WriteOutcomes
<1> HIDE DEF u
<1>3. Sound(u)
  BY <1>1, TablesKeep DEF Keeps
<1>4. /\ e \in EventId /\ s.event[e] \in Event /\ CanAdvance(s.event[e])
      /\ t.history = u.history /\ Changed(u, t, e, ev)
  BY <1>1, <1>2, <1>3, CompleteLocalChanges
<1>5. ev.deleted = s.event[e].deleted
  BY <1>4, NextCopy
<1> HIDE DEF ev
<1>6. /\ t.local = s.local /\ t.outcome = u.outcome /\ Elsewhere(s, t, {e})
      /\ t.event[e] = ev /\ t.projection[e].local = s.projection[e].local
      /\ t.projection[e].hidden = s.projection[e].hidden
      /\ LiveAt(t.projection[e], t.event[e])
      /\ ~ s.event[e].deleted => Mark(t.projection[e]) = Mark(t.event[e])
  BY <1>1, <1>4, <1>5 DEF Changed, Elsewhere
<1>7. ASSUME Truthful(s) PROVE RowsStay(s, t)
  <2>1. \A j \in Rows(s) : s.local[j] \in EventId
    BY <1>7, EventOfRow DEF Rows, Truthful, RowsTrue
  <2>2. \A f \in EventId : s.projection[f].hidden => t.projection[f].hidden
    BY <1>6 DEF Elsewhere
  <2> QED BY <1>1, <1>4, <1>6, <2>1, <2>2 DEF RowsStay, Rows
<1> QED BY <1>1, <1>4, <1>6, <1>7 DEF ev, OutcomeWritten

\* A rewrite changes the line of a row there is.
LEMMA RewriteLineStays ==
  ASSUME NEW s, Sound(s), Truthful(s), NEW i \in LocalId, NEW line \in Line,
         NEW tie \in [EventId -> Tie], NEW t, t = RewriteLine(s, i, line, tie), t # None
  PROVE  RowsStay(s, t)
<1> DEFINE e == s.local[i]
           ev == [Advance(s.event[e], tie[e]) EXCEPT !.line = line]
<1>1. CASE t = s
  BY <1>1 DEF RowsStay
<1>2. CASE t # s
  <2>1. /\ s.history[i] # None /\ e \in EventId
        /\ t.history = [s.history EXCEPT ![i] = line] /\ t.local = s.local
        /\ t.projection = s.projection \/ Changed(s, t, e, ev)
    BY <1>2, RewriteLineChanges
  <2> HIDE DEF ev
  <2>2. \A f \in EventId : s.projection[f].hidden => t.projection[f].hidden
    BY <2>1 DEF Changed, Elsewhere
  <2>3. Rows(t) = Rows(s)
    BY <2>1, HistoryAssumption DEF Rows, Sound, Store
  <2>4. \A j \in Rows(s) : s.local[j] \in EventId
    BY EventOfRow DEF Rows, Truthful, RowsTrue
  <2> QED BY <2>1, <2>2, <2>3, <2>4 DEF RowsStay
<1> QED BY <1>1, <1>2
-----------------------------------------------------------------------------
(***************************************************************************)
(* What a transaction about an event that stands behind no run does to the *)
(* aggregate: nothing, though its event may come to stand behind a run     *)
(* that is counted already.                                                *)
(***************************************************************************)
\* A line appended counts for nothing yet.
LEMMA AppendEntryRuns ==
  ASSUME NEW s, Sound(s), NEW e \in EventId, NEW line, NEW tie,
         NEW t, t = AppendEntry(s, e, line, tie)
  PROVE  t.run = s.run /\ t.projection[e].run = None
<1> DEFINE ev == [revision |-> 1, deleted |-> FALSE, tie |-> tie[e], line |-> line, done |-> None]
           p == At([Unprojected EXCEPT !.local = NextId(s)], ev)
<1>1. t.run = s.run /\ t.projection = [s.projection EXCEPT ![e] = p]
  BY DEF AppendEntry, Sound, Store
<1>2. p.run = None
  BY DEF At, Unprojected
<1> HIDE DEF p
<1> QED BY <1>1, <1>2 DEF Sound, Store

\* A completion puts the event behind the run its outcome names, if that is counted,
\* and is refused only where the event's revision is at its limit.
LEMMA WriteOutcomesRuns ==
  ASSUME NEW s, Sound(s), NEW i \in LocalId, NEW done \in Done,
         NEW tie \in [EventId -> Tie], NEW e \in EventId, s.local[i] = e,
         s.projection[e].run = None, NEW t, t = WriteOutcomes(s, i, done, tie)
  PROVE  /\ ~ CanAdvance(s.event[e]) => t = None
         /\ CanAdvance(s.event[e]) =>
              /\ t # None /\ t.run = s.run
              /\ t.projection[e].run \in
                   {None, [imported |-> FALSE, dir |-> done.dir, line |-> s.event[e].line]}
<1> DEFINE u == [s EXCEPT !.outcome[i] = done]
           ev == [Advance(s.event[e], tie[e]) EXCEPT !.done = done]
           p == s.projection[e]
           next == ContributionFor(ev, FALSE)
           k == IF next = None THEN None ELSE IF s.run[next] = 0 THEN None ELSE next
           q == [At(p, ev) EXCEPT !.deleted = FALSE, !.run = k]
           w == [u EXCEPT !.event[e] = ev, !.run = s.run, !.projection[e] = q]
<1>1. /\ u \in Store /\ u.local = s.local /\ u.event = s.event
      /\ u.projection = s.projection /\ u.run = s.run
  BY DEF Sound, Store
<1>2. s.local[i] # None /\ t = CompleteLocal(u, i, done, tie)
  BY NothingAssumption DEF EventId, WriteOutcomes
<1> HIDE DEF u
<1>3. ~ CanAdvance(s.event[e]) => t = None
  BY <1>1, <1>2 DEF CompleteLocal
<1>4. ASSUME CanAdvance(s.event[e])
      PROVE  /\ t # None /\ t.run = s.run
             /\ t.projection[e].run \in
                  {None, [imported |-> FALSE, dir |-> done.dir, line |-> s.event[e].line]}
  <2>1. t = w
    <3> DEFINE ev2 == [Advance(u.event[e], tie[e]) EXCEPT !.done = done]
               next2 == ContributionFor(ev2, FALSE)
               k2 == IF next2 = None THEN None ELSE IF u.run[next2] = 0 THEN None ELSE next2
    <3>1. u.local[i] = e /\ e # None /\ CanAdvance(u.event[e]) /\ u.projection[e].run = None
      BY <1>1, <1>2, <1>4
    <3>2. t = [u EXCEPT !.event[e] = ev2, !.run = u.run,
                        !.projection[e] = [At(u.projection[e], ev2) EXCEPT !.deleted = FALSE,
                                                                           !.run = k2]]
      BY <1>2, <3>1 DEF CompleteLocal
    <3> QED BY <1>1, <3>2
  <2>2. s.event[e] \in Event /\ p \in Projection
    BY <1>2, EventOfRow
  <2>3. ev \in Event /\ ev.done = done /\ ev.line = s.event[e].line
    BY <1>4, <2>2, NextCopy
  <2>4. next \in RunKey \cup {None}
        /\ next \in {None, [imported |-> FALSE, dir |-> done.dir, line |-> s.event[e].line]}
    BY <2>3, ContributionIsRun DEF ContributionFor
  <2> HIDE DEF ev, next
  <2>5. k \in {None, next}
    OBVIOUS
  <2> HIDE DEF k
  <2>6. At(p, ev) \in Projection
    BY <2>2, <2>3, AtIsProjection
  <2>7. q \in Projection /\ q.run = k
    BY <2>4, <2>5, <2>6 DEF Projection
  <2> HIDE DEF q
  <2>8. w.run = s.run /\ w.projection = [u.projection EXCEPT ![e] = q] /\ w \in Store
    BY <1>1, <2>3, <2>7 DEF Store
  <2> HIDE DEF w
  <2>9. t.projection[e] = q
    BY <1>1, <2>1, <2>8 DEF Sound, Store
  <2> QED BY <2>1, <2>4, <2>5, <2>7, <2>8, <2>9, NothingAssumption
<1> QED BY <1>3, <1>4

\* A change to e alone, that leaves it behind no run.
Runless(s, t, e) ==
  /\ t.local = s.local /\ Elsewhere(s, t, {e})
  /\ t.run = s.run /\ t.projection[e].run = None

\* A rewrite that commits, or is refused at the limit, leaves a row whose event says the
\* line if it can say anything more.
LEMMA RewriteLineRuns ==
  ASSUME NEW s, Sound(s), RowsTrue(s), NEW i \in LocalId, s.history[i] # None,
         NEW e, e = s.local[i], s.event[e].done = None, s.projection[e].run = None,
         NEW line \in Line, NEW tie \in [EventId -> Tie],
         NEW t, t = Commit(s, RewriteLine(s, i, line, tie))
  PROVE  /\ Runless(s, t, e)
         /\ t.event[e] # None /\ t.event[e].done = None
         /\ CanAdvance(t.event[e]) => t.event[e].line = line
<1> USE DEF Runless
<1> DEFINE u == [s EXCEPT !.history[i] = line]
           ev == [Advance(s.event[e], tie[e]) EXCEPT !.line = line]
           p == s.projection[e]
           q == [At(p, ev) EXCEPT !.deleted = FALSE, !.run = None]
           w == [u EXCEPT !.event[e] = ev,
                          !.run = AddContribution(RemoveContribution(@, p.run), None),
                          !.projection[e] = q]
<1>1. /\ u \in Store /\ u.history = [s.history EXCEPT ![i] = line] /\ u.local = s.local
      /\ u.event = s.event /\ u.projection = s.projection /\ u.run = s.run
  BY DEF Sound, Store
<1>2. /\ s.local[i] # None /\ e \in EventId /\ s.event[e] \in Event /\ p \in Projection
      /\ s.event[e] # None /\ s.event[e].line = s.history[i]
  <2>1. s.local[i] # None /\ s.event[e].line = s.history[i]
    BY DEF RowsTrue
  <2> QED BY <2>1, EventOfRow
<1>3. CASE s.history[i] = line
  BY <1>2, <1>3, NothingAssumption DEF RewriteLine, Commit, Elsewhere, Sound
<1>4. CASE s.history[i] # line /\ ~ CanAdvance(s.event[e])
  <2>1. RewriteLine(s, i, line, tie) = None
    BY <1>1, <1>2, <1>4 DEF RewriteLine, RewriteLocal
  <2> QED BY <1>2, <1>4, <2>1 DEF Commit, Elsewhere
<1>5. CASE s.history[i] # line /\ CanAdvance(s.event[e])
  <2>1. RewriteLine(s, i, line, tie) = w
    BY <1>1, <1>2, <1>5 DEF RewriteLine, RewriteLocal
  <2>2. ev \in Event /\ ev.line = line /\ ev.done = None
    BY <1>2, <1>5, NextCopy
  <2> HIDE DEF ev
  <2>3. At(p, ev) \in Projection
    BY <1>2, <2>2, AtIsProjection
  <2>4. q \in Projection /\ q.run = None
    BY <2>3 DEF Projection
  <2>5. AddContribution(RemoveContribution(u.run, p.run), None) = s.run
    BY <1>1 DEF AddContribution, RemoveContribution
  <2> HIDE DEF q, u
  <2>6. /\ w.run = s.run /\ w.projection = [u.projection EXCEPT ![e] = q] /\ w.local = u.local
        /\ w.event = [u.event EXCEPT ![e] = ev] /\ w \in Store
    BY <1>1, <1>2, <2>2, <2>4, <2>5 DEF Store
  <2> HIDE DEF w
  <2>7. t = w
    BY <2>1, <2>6, NothingAssumption DEF Commit
  <2>8. t.projection[e] = q /\ t.event[e] = ev /\ Elsewhere(s, t, {e})
    BY <1>1, <1>2, <2>6, <2>7 DEF Sound, Store, Elsewhere
  <2> QED BY <1>1, <2>2, <2>4, <2>6, <2>7, <2>8, NothingAssumption
<1> QED BY <1>3, <1>4, <1>5

\* A burial takes nothing away either.
LEMMA BuryRuns ==
  ASSUME NEW s, Sound(s), NEW e \in EventId, s.event[e] # None, s.projection[e] # None,
         s.projection[e].run = None, NEW tie, NEW t, t = Bury(s, {e}, tie), t # None
  PROVE  t.run = s.run /\ t.projection[e].run = None
<1> DEFINE es == {e}
           buried == [f \in EventId |-> IF f \in es /\ ~ s.event[f].deleted
                                        THEN Buried(s.event[f], tie[f]) ELSE s.event[f]]
           standing(k) == Cardinality({f \in es : ProjectionOf(s, f).run = k})
           run == [k \in RunKey |->
                     IF s.run[k] > standing(k) THEN s.run[k] - standing(k) ELSE 0]
           withheld(f) == [At(ProjectionOf(s, f), buried[f]) EXCEPT !.hidden = TRUE,
                                                                    !.run = None]
           projection == [f \in EventId |-> IF f \in es THEN withheld(f)
                                            ELSE s.projection[f]]
<1>1. t = [s EXCEPT !.event = buried, !.run = run, !.projection = projection]
  <2>1. ~ \E f \in es : ~ s.event[f].deleted /\ ~ CanAdvance(s.event[f])
    BY DEF Bury
  <2> QED BY <2>1 DEF Bury, Sound, Store
<1>2. run = s.run
  <2>1. ASSUME NEW k \in RunKey PROVE standing(k) = 0
    <3>1. {f \in es : ProjectionOf(s, f).run = k} = {}
      BY NothingAssumption DEF ProjectionOf
    <3> QED BY <3>1, FS_EmptySet
  <2> HIDE DEF standing
  <2>2. \A k \in RunKey : s.run[k] \in Nat
    BY DEF Sound, Store
  <2>3. \A k \in RunKey : run[k] = s.run[k]
    BY <2>1, <2>2
  <2> QED BY <2>3 DEF Sound, Store
<1> HIDE DEF run
<1>3. t.run = s.run /\ t.projection = projection
  BY <1>1, <1>2 DEF Sound, Store
<1>4. withheld(e).run = None
  <2>1. ProjectionOf(s, e) = s.projection[e] /\ s.projection[e] \in Projection
    BY DEF ProjectionOf, Sound, Store
  <2> QED BY <2>1 DEF At, Projection
<1> QED BY <1>3, <1>4

\* Nor does the removal of its row.
LEMMA DropLinesRuns ==
  ASSUME NEW s, Sound(s), NEW i, NEW e \in EventId, s.local[i] = e, s.event[e] # None,
         s.projection[e] # None, s.projection[e].run = None,
         NEW tie \in [EventId -> Tie], NEW t, t = DropLines(s, {i}, tie), t # None
  PROVE  Runless(s, t, e)
<1> DEFINE es == {e}
           u == Bury(s, es, tie)
<1>1. {s.local[j] : j \in {i}} = es
  OBVIOUS
<1>2. u # None /\ t = DropOutcomes(DropHistory(u, {i}), {i})
  BY <1>1 DEF DropLines, TombstoneLocals
<1>3. es \in SUBSET EventId /\ \A f \in es : s.event[f] # None
  OBVIOUS
<1> HIDE DEF es
<1>4. Sound(u)
  BY <1>2, <1>3, BuryKeeps DEF Keeps
<1>5. u.local = s.local /\ Elsewhere(s, u, es)
  BY <1>2, <1>3, BuryChanges
<1>6. u.run = s.run /\ u.projection[e].run = None
  BY <1>2, BuryRuns DEF es
<1> HIDE DEF u
<1>7. t.local = u.local /\ t.event = u.event /\ t.projection = u.projection
  BY <1>2, <1>4, DropsLeaveEvents
<1>8. t.run = u.run
  BY <1>2, <1>4 DEF DropOutcomes, DropHistory, Sound, Store
<1> QED BY <1>5, <1>6, <1>7, <1>8 DEF Runless, Elsewhere, es

=============================================================================
