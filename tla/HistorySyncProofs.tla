------------------------- MODULE HistorySyncProofs -------------------------
(***************************************************************************)
(* Proofs about the sync of history, for any number of machines, events,   *)
(* lines and sessions: every copy a machine, a session or an import holds  *)
(* was authored by somebody and equal stamps are equal events; a session   *)
(* that is not raced by an import implements StampedReplicas, delivers     *)
(* what both ends had, and with nobody typing leaves them with one history *)
(* and nothing pending.  As long as no row id is that of two events, which *)
(* holds where no row is taken away, hidden lines stay hidden, lines are   *)
(* lost only with their events, and rows say what their events say.        *)
(***************************************************************************)
EXTENDS HistorySync, HistoryStoreProofs, StampProofs

-----------------------------------------------------------------------------
(***************************************************************************)
(* Stores that are synced into.  A projection may lag behind its event and *)
(* name a row that is another event's by now; what is left to rely on is   *)
(* that rows are indexed, and that no more rows are ever numbered than     *)
(* there are events with a row of their own.                               *)
(***************************************************************************)
Home(s, e) == ProjectionOf(s, e).local
Homed(s) == {e \in EventId : Home(s, e) # 0}

Housed(s) ==
  /\ \A e \in EventId : /\ s.projection[e] # None => s.event[e] # None
                        /\ Home(s, e) # 0 => s.local[Home(s, e)] # None
  /\ \A i \in Rows(s) : s.local[i] # None
  /\ \A i \in LocalId : s.local[i] # None => i <= Cardinality(Homed(s))

\* A live event has a line to say: its row can be written.
Worded(s) ==
  \A e \in EventId : s.event[e] # None /\ ~ s.event[e].deleted => s.event[e].line \in Line

Fit(s) == Sound(s) /\ Housed(s) /\ Worded(s)

\* The events an edit changes are one revision up, under the tie-breaker drawn for it.
Authors(s, t, tie) ==
  \A e \in EventId : t.event[e] # s.event[e] =>
    /\ t.event[e] \in Event /\ t.event[e].tie = tie
    /\ s.event[e] = None => t.event[e].revision = 1 /\ ~ t.event[e].deleted
    /\ s.event[e] # None => t.event[e].revision = s.event[e].revision + 1

Edits(s, t, tie) == Fit(t) /\ Authors(s, t, tie)

\* An empty database.
LEMMA EmptyStoreFits == Fit(EmptyStore)
<1>1. \A e \in EventId : EmptyStore.projection[e] = None /\ Home(EmptyStore, e) = 0
  BY DEF EmptyStore, Home, ProjectionOf, Unprojected
<1>2. Rows(EmptyStore) = {} /\ \A i \in LocalId : EmptyStore.local[i] = None
  BY DEF EmptyStore, Rows
<1>3. \A e \in EventId : EmptyStore.event[e] = None
  BY DEF EmptyStore
<1> QED BY <1>1, <1>2, <1>3, EmptyStoreIsSound DEF Fit, Housed, Worded

\* A transaction that gives no event a row, and numbers no row.
LEMMA HousedStays ==
  ASSUME NEW s, Fit(s), NEW t, t.local = s.local, Rows(t) \subseteq Rows(s),
         \A e \in EventId : /\ Home(t, e) = Home(s, e)
                            /\ t.projection[e] # None => t.event[e] # None
  PROVE  Housed(t)
<1>1. Homed(t) = Homed(s)
  BY DEF Homed
<1> QED BY <1>1 DEF Housed, Fit

\* A projection's row is a row's id or none.
LEMMA HomeIsId ==
  ASSUME NEW s, Sound(s), NEW e \in EventId
  PROVE  /\ Home(s, e) \in LocalId \cup {0}
         /\ s.projection[e] # None => Home(s, e) = s.projection[e].local
         /\ s.projection[e] = None => Home(s, e) = 0
BY NothingAssumption DEF Home, ProjectionOf, Unprojected, Sound, Store, Projection

\* The next id is numbered after the rows there are, and so after the events that have one.
LEMMA NextIdHoused ==
  ASSUME NEW s, Fit(s), NEW e \in EventId, Home(s, e) = 0
  PROVE  /\ NextId(s) \in LocalId /\ NextId(s) \notin Rows(s)
         /\ NextId(s) <= Cardinality(Homed(s)) + 1
         /\ \A t : Homed(t) = Homed(s) \cup {e} => Cardinality(Homed(t)) = Cardinality(Homed(s)) + 1
<1>1. IsFiniteSet(Homed(s)) /\ Cardinality(Homed(s)) \in Nat
  BY EventsAreFinite DEF Homed
<1>2. e \notin Homed(s)
  BY DEF Homed
<1>3. \A t : Homed(t) = Homed(s) \cup {e} => Cardinality(Homed(t)) = Cardinality(Homed(s)) + 1
  BY <1>1, <1>2, FS_AddElement
<1>4. Cardinality(Homed(s)) + 1 <= Events
  <2>1. Events \in Nat /\ IsFiniteSet(EventId) /\ Cardinality(EventId) = Events
    BY HistoryAssumption, FS_Interval DEF EventId
  <2>2. Homed(s) \cup {e} \in SUBSET EventId
    BY DEF Homed
  <2>3. Cardinality(Homed(s) \cup {e}) = Cardinality(Homed(s)) + 1
    BY <1>1, <1>2, FS_AddElement
  <2> QED BY <2>1, <2>2, <2>3, FS_Subset
<1>5. Rows(s) \in SUBSET LocalId
  BY DEF Rows
<1>6. CASE Rows(s) = {}
  BY <1>1, <1>3, <1>4, <1>6, HistoryAssumption DEF NextId, LocalId
<1>7. CASE Rows(s) # {}
  <2>1. Max(Rows(s)) \in Rows(s) /\ \A i \in Rows(s) : Max(Rows(s)) >= i
    BY <1>5, <1>7, NewestIsOne
  <2>2. Max(Rows(s)) \in 1 .. Events /\ Max(Rows(s)) <= Cardinality(Homed(s))
    BY <1>5, <2>1 DEF Housed, Fit, LocalId
  <2>3. NextId(s) = Max(Rows(s)) + 1
    BY <1>7 DEF NextId
  <2>4. NextId(s) \notin Rows(s)
    BY <1>5, <2>1, <2>2, <2>3 DEF LocalId
  <2> QED BY <1>1, <1>3, <1>4, <2>2, <2>3, <2>4, HistoryAssumption DEF LocalId
<1> QED BY <1>6, <1>7

-----------------------------------------------------------------------------
(***************************************************************************)
(* What a machine does by itself authors copies, and leaves a store that   *)
(* fits.                                                                   *)
(***************************************************************************)
\* One tie-breaker is drawn for everything a transaction changes.
LEMMA TiedIsTie ==
  ASSUME NEW tie \in Tie
  PROVE  Tied(tie) \in [EventId -> Tie] /\ \A e \in EventId : Tied(tie)[e] = tie
BY DEF Tied

\* A line appended: a row and an event nobody had.
LEMMA AppendEntryEdits ==
  ASSUME NEW s, Fit(s), NEW e \in EventId, s.event[e] = None, NextId(s) \in LocalId,
         NEW line \in Line, NEW tie \in Tie
  PROVE  Edits(s, AppendEntry(s, e, line, Tied(tie)), tie)
<1> DEFINE ties == Tied(tie)
           t == AppendEntry(s, e, line, ties)
           i == NextId(s)
<1>1. ties \in [EventId -> Tie] /\ ties[e] = tie
  BY TiedIsTie
<1> HIDE DEF ties
<1>2. Sound(s) /\ s.projection[e] = None /\ Home(s, e) = 0
  BY HomeIsId DEF Fit, Housed
<1>3. Sound(t)
  BY <1>1, <1>2, AppendEntryKeeps DEF Keeps
<1>t. t = AppendEntry(s, e, line, ties)
  OBVIOUS
<1> HIDE DEF t
<1>4. /\ t.history = [s.history EXCEPT ![i] = line]
      /\ t.local = [s.local EXCEPT ![i] = e]
      /\ Elsewhere(s, t, {e})
      /\ t.event[e] \in Event /\ ~ t.event[e].deleted /\ t.event[e].line = line
      /\ t.event[e].revision = 1 /\ t.event[e].tie = tie
      /\ t.projection[e] # None /\ t.projection[e].local = i
  BY <1>t, <1>1, <1>2, AppendEntryChanges
<1>5. Authors(s, t, tie)
  BY <1>4 DEF Authors, Elsewhere
<1>6. /\ i \notin Rows(s) /\ i <= Cardinality(Homed(s)) + 1
      /\ Homed(t) = Homed(s) \cup {e} => Cardinality(Homed(t)) = Cardinality(Homed(s)) + 1
  BY <1>2, NextIdHoused
<1>7. /\ Home(t, e) = i /\ t.event[e] # None
      /\ \A f \in EventId \ {e} : Home(t, f) = Home(s, f)
  BY <1>4, NothingAssumption DEF Home, ProjectionOf, Elsewhere
<1>8. Homed(t) = Homed(s) \cup {e}
  BY <1>7 DEF Homed, LocalId
<1>9. /\ t.local[i] = e /\ e # None
      /\ \A j \in LocalId \ {i} : t.local[j] = s.local[j] /\ t.history[j] = s.history[j]
  BY <1>2, <1>4, NothingAssumption DEF Sound, Store, EventId
<1>10. \A f \in EventId : /\ t.projection[f] # None => t.event[f] # None
                          /\ Home(t, f) # 0 => t.local[Home(t, f)] # None
  <2> TAKE f \in EventId
  <2>1. CASE f = e
    BY <1>7, <1>9, <2>1
  <2>2. CASE f # e
    <3>1. Home(s, f) \in LocalId \cup {0}
      BY <1>2, HomeIsId
    <3> QED BY <1>4, <1>7, <1>9, <2>2, <3>1 DEF Fit, Housed, Elsewhere
  <2> QED BY <2>1, <2>2
<1>11. Cardinality(Homed(s)) \in Nat /\ Cardinality(Homed(t)) = Cardinality(Homed(s)) + 1
  BY <1>6, <1>8, EventsAreFinite DEF Homed
<1>12. /\ \A j \in Rows(t) : t.local[j] # None
       /\ \A j \in LocalId : t.local[j] # None => j <= Cardinality(Homed(t))
  <2>1. \A j \in Rows(t) : t.local[j] # None
    BY <1>9 DEF Fit, Housed, Rows
  <2> SUFFICES ASSUME NEW j \in LocalId, t.local[j] # None
               PROVE  j <= Cardinality(Homed(t))
    BY <2>1
  <2>2. CASE j = i
    BY <1>6, <1>11, <2>2, <1>8
  <2>3. CASE j # i
    <3>1. j <= Cardinality(Homed(s)) /\ j \in Nat
      BY <1>9, <2>3 DEF Fit, Housed, LocalId
    <3> QED BY <1>11, <3>1
  <2> QED BY <2>2, <2>3
<1>13. Worded(t)
  BY <1>4 DEF Worded, Fit, Elsewhere
<1> QED BY <1>3, <1>5, <1>10, <1>12, <1>13 DEF Edits, Fit, Housed, t, ties

\* One event changed, under the row it had: what an outcome and a rewrite do.
LEMMA OneCopyEdits ==
  ASSUME NEW s, Fit(s), NEW t, Sound(t), NEW e \in EventId, s.event[e] # None,
         NEW tie \in Tie, t.local = s.local, Rows(t) \subseteq Rows(s), Elsewhere(s, t, {e}),
         t.projection[e] # None, t.projection[e].local = s.projection[e].local,
         s.projection[e] # None,
         t.event[e] \in Event, t.event[e].tie = tie,
         t.event[e].revision = s.event[e].revision + 1,
         ~ t.event[e].deleted => t.event[e].line \in Line
  PROVE  Edits(s, t, tie)
<1>1. Authors(s, t, tie)
  BY DEF Authors, Elsewhere
<1>2. \A f \in EventId : /\ Home(t, f) = Home(s, f)
                         /\ t.projection[f] # None => t.event[f] # None
  BY NothingAssumption DEF Home, ProjectionOf, Elsewhere, Fit, Housed
<1>3. Housed(t)
  BY <1>2, HousedStays
<1>4. Worded(t)
  BY DEF Worded, Fit, Elsewhere
<1> QED BY <1>1, <1>3, <1>4 DEF Edits, Fit

\* A command's outcome.
LEMMA WriteOutcomesEdits ==
  ASSUME NEW s, Fit(s), NEW i \in LocalId, NEW done \in Done, NEW tie \in Tie,
         NEW t, t = WriteOutcomes(s, i, done, Tied(tie)), t # None
  PROVE  Edits(s, t, tie)
<1> DEFINE ties == Tied(tie)
           e == s.local[i]
<1>1. ties \in [EventId -> Tie] /\ \A f \in EventId : ties[f] = tie
  BY TiedIsTie
<1>2. t = WriteOutcomes(s, i, done, ties) /\ Sound(s)
  BY DEF Fit
<1> HIDE DEF ties
<1>3. Sound(t)
  BY <1>1, <1>2, WriteOutcomesKeeps DEF Keeps
<1>4. /\ e \in EventId /\ s.event[e] \in Event /\ CanAdvance(s.event[e])
      /\ t.history = s.history /\ t.local = s.local
      /\ Elsewhere(s, t, {e})
      /\ t.event[e] = [Advance(s.event[e], ties[e]) EXCEPT !.done = done]
      /\ t.projection[e].local = s.projection[e].local
  <2>1. OutcomeWritten(s, t, i, done, ties)
    BY <1>1, <1>2, WriteOutcomesChanges
  <2> QED BY <2>1 DEF OutcomeWritten
<1>5. /\ t.event[e] \in Event /\ t.event[e].tie = tie
      /\ t.event[e].revision = s.event[e].revision + 1
      /\ t.event[e].line = s.event[e].line /\ t.event[e].deleted = s.event[e].deleted
  <2>1. [Advance(s.event[e], ties[e]) EXCEPT !.done = done] \in Event
    BY <1>1, <1>2, <1>4, NextCopy
  <2> QED BY <1>1, <1>4, <2>1 DEF Advance, Event
<1>6. /\ s.event[e] # None /\ s.projection[e] # None /\ t.projection[e] # None
      /\ Rows(t) \subseteq Rows(s)
  BY <1>2, <1>3, <1>4, NothingAssumption DEF Sound, Indexed, Rows, EventId
<1>7. ~ t.event[e].deleted => t.event[e].line \in Line
  BY <1>4, <1>5, <1>6 DEF Fit, Worded
<1> HIDE DEF e
<1> QED BY <1>3, <1>4, <1>5, <1>6, <1>7, OneCopyEdits

\* The line a rule keeps instead.
LEMMA RewriteLineEdits ==
  ASSUME NEW s, Fit(s), NEW i \in LocalId, NEW line \in Line, NEW tie \in Tie,
         NEW t, t = RewriteLine(s, i, line, Tied(tie)), t # None
  PROVE  Edits(s, t, tie)
<1> DEFINE ties == Tied(tie)
           e == s.local[i]
           ev == [Advance(s.event[e], ties[e]) EXCEPT !.line = line]
<1>1. ties \in [EventId -> Tie] /\ \A f \in EventId : ties[f] = tie
  BY TiedIsTie
<1>2. t = RewriteLine(s, i, line, ties) /\ Sound(s)
  BY DEF Fit
<1> HIDE DEF ties
<1>3. Sound(t)
  BY <1>1, <1>2, RewriteLineKeeps DEF Keeps
<1>4. \/ t = s
      \/ /\ s.history[i] # None /\ e \in EventId /\ s.event[e] \in Event
         /\ t.history = [s.history EXCEPT ![i] = line]
         /\ t.local = s.local
         /\ \/ t.event = s.event /\ t.projection = s.projection
            \/ CanAdvance(s.event[e]) /\ Changed(s, t, e, ev)
  BY <1>1, <1>2, RewriteLineChanges DEF RewriteLine
<1>5. CASE t.event = s.event /\ t.projection = s.projection /\ t.local = s.local
           /\ Rows(t) \subseteq Rows(s)
  <2>1. \A f \in EventId : /\ Home(t, f) = Home(s, f)
                           /\ t.projection[f] # None => t.event[f] # None
    BY <1>5 DEF Home, ProjectionOf, Fit, Housed
  <2>2. Housed(t)
    BY <1>5, <2>1, HousedStays
  <2> QED BY <1>3, <1>5, <2>2 DEF Edits, Fit, Authors, Worded
<1>6. ASSUME s.history[i] # None, t.history = [s.history EXCEPT ![i] = line]
      PROVE  Rows(t) \subseteq Rows(s)
  BY <1>2, <1>6 DEF Rows, Sound, Store
<1>7. CASE /\ s.history[i] # None /\ e \in EventId /\ s.event[e] \in Event
           /\ t.history = [s.history EXCEPT ![i] = line]
           /\ t.local = s.local
           /\ CanAdvance(s.event[e]) /\ Changed(s, t, e, ev)
  <2>1. ev.revision = s.event[e].revision + 1 /\ ev.tie = tie /\ ev.line \in Line
    BY <1>1, <1>2, <1>7 DEF Advance, Event
  <2>2. /\ t.event[e] = ev /\ ev \in Event /\ Elsewhere(s, t, {e})
        /\ t.projection[e] # None /\ t.projection[e].local = s.projection[e].local
    BY <1>7, NothingAssumption DEF Changed
  <2>3. s.event[e] # None /\ s.projection[e] # None
    BY <1>2, <1>7, NothingAssumption DEF Sound, Indexed, EventId
  <2> HIDE DEF e, ev
  <2> QED BY <1>3, <1>6, <1>7, <2>1, <2>2, <2>3, OneCopyEdits
<1> QED BY <1>4, <1>5, <1>6, <1>7

Hidden(s, e) == ProjectionOf(s, e).hidden

\* Event e is withheld and row i is gone, and nothing else about the rows changes.
RowGone(s, t, e, i) ==
  /\ t.local = s.local /\ Elsewhere(s, t, {e})
  /\ Home(t, e) = Home(s, e) /\ Hidden(t, e)
  /\ \A j \in LocalId : t.history[j] = IF j = i THEN None ELSE s.history[j]

\* An event deleted, with the row its projection names.
LEMMA DeleteEventsEdits ==
  ASSUME NEW s, Fit(s), NEW e \in EventId, s.event[e] # None, ~ s.event[e].deleted,
         NEW tie \in Tie, NEW t, t = DeleteEvents(s, {e}, Tied(tie)), t # None
  PROVE  /\ Edits(s, t, tie)
         /\ RowGone(s, t, e, Home(s, e))
         /\ t.event[e].deleted /\ Mark(t.projection[e]) = Mark(t.event[e])
<1> DEFINE ties == Tied(tie)
           rows == {ProjectionOf(s, f).local : f \in {e}}
           u == Bury(s, {e}, ties)
<1>1. ties \in [EventId -> Tie] /\ \A f \in EventId : ties[f] = tie
  BY TiedIsTie
<1>2. t = DeleteEvents(s, {e}, ties) /\ Sound(s)
  BY DEF Fit
<1> HIDE DEF ties
<1>3. Sound(t)
  BY <1>1, <1>2, DeleteEventsKeeps DEF Keeps
<1>4. {f \in {e} : IF s.event[f] = None THEN FALSE ELSE ~ s.event[f].deleted} = {e}
  OBVIOUS
<1>5. u # None /\ t = DropOutcomes(DropHistory(u, rows), rows)
  BY <1>2, <1>4 DEF DeleteEvents
<1>6. Sound(u)
  BY <1>1, <1>2, <1>5, BuryKeeps DEF Keeps
<1>u. u = Bury(s, {e}, ties)
  OBVIOUS
<1> HIDE DEF u, rows
<1>7. /\ u.history = s.history /\ u.local = s.local /\ Elsewhere(s, u, {e})
      /\ CanAdvance(s.event[e]) /\ u.event[e] = Buried(s.event[e], ties[e])
      /\ u.event[e] \in Event /\ u.projection[e] # None
      /\ u.projection[e].local = ProjectionOf(s, e).local
      /\ u.projection[e].hidden /\ Mark(u.projection[e]) = Mark(u.event[e])
  BY <1>u, <1>1, <1>2, <1>5, BuryChanges
<1>8. t.local = u.local /\ t.event = u.event /\ t.projection = u.projection
  BY <1>5, <1>6, DropsLeaveEvents
<1>9. \A j \in LocalId : t.history[j] = IF j \in rows THEN None ELSE s.history[j]
  BY <1>5, <1>6, <1>7, DropsChange
<1>10. Rows(t) \subseteq Rows(s)
  BY <1>9 DEF Rows
<1>11. s.event[e] \in Event
  BY <1>2 DEF Sound, Store
<1>12. t.event[e].revision = s.event[e].revision + 1 /\ t.event[e].tie = tie
  BY <1>1, <1>7, <1>8, <1>11 DEF Buried, Advance, Event
<1>13. Authors(s, t, tie)
  BY <1>7, <1>8, <1>12 DEF Authors, Elsewhere
<1>14. \A f \in EventId : /\ Home(t, f) = Home(s, f)
                          /\ t.projection[f] # None => t.event[f] # None
  BY <1>7, <1>8, NothingAssumption DEF Home, ProjectionOf, Elsewhere, Fit, Housed
<1>15. Housed(t)
  BY <1>7, <1>8, <1>10, <1>14, HousedStays
<1>16. t.event[e].deleted
  BY <1>7, <1>8, <1>11 DEF Buried, Advance, Event
<1>17. Worded(t)
  BY <1>7, <1>8, <1>16 DEF Worded, Fit, Elsewhere
<1>18. RowGone(s, t, e, Home(s, e))
  <2>1. rows = {Home(s, e)}
    BY DEF rows, Home
  <2>2. \A j \in LocalId : t.history[j] = IF j = Home(s, e) THEN None ELSE s.history[j]
    BY <1>9, <2>1
  <2>3. Home(t, e) = Home(s, e) /\ Hidden(t, e)
    BY <1>7, <1>8 DEF Home, Hidden, ProjectionOf
  <2> QED BY <1>7, <1>8, <2>2, <2>3 DEF RowGone, Elsewhere
<1> QED BY <1>3, <1>7, <1>8, <1>13, <1>15, <1>16, <1>17, <1>18 DEF Edits, Fit

\* Of some rows one is the oldest: the newest, counted from the other end.
LEMMA OldestIsOne ==
  ASSUME NEW S \in SUBSET LocalId, S # {}
  PROVE  Min(S) \in S
<1> DEFINE T == {Events + 1 - i : i \in S}
<1>0. Events \in Nat /\ \A i \in S : i \in Nat /\ 1 <= i /\ i <= Events
  BY HistoryAssumption DEF LocalId
<1>1. T \in SUBSET LocalId /\ T # {}
  <2>1. \A i \in S : Events + 1 - i \in 1 .. Events
    BY <1>0
  <2>2. T # {}
    OBVIOUS
  <2> QED BY <2>1, <2>2 DEF LocalId
<1>2. Max(T) \in T /\ \A j \in T : Max(T) >= j
  BY <1>1, NewestIsOne
<1>3. PICK m \in S : Max(T) = Events + 1 - m
  BY <1>2
<1>4. \A i \in S : m <= i
  <2> TAKE i \in S
  <2>1. Events + 1 - i \in T
    OBVIOUS
  <2>2. Events + 1 - m >= Events + 1 - i
    BY <1>2, <1>3, <2>1
  <2> QED BY <1>0, <2>2
<1> QED BY <1>4 DEF Min

\* The oldest row trimmed: its event is withheld and not edited.
LEMMA RetireEdits ==
  ASSUME NEW s, Fit(s), NEW i \in Rows(s), NEW tie \in Tie,
         NEW t, t = DropHistory(DropOutcomes(HideLocals(s, {i}), {i}), {i})
  PROVE  /\ Edits(s, t, tie) /\ RowGone(s, t, s.local[i], i) /\ t.event = s.event
         /\ s.local[i] \in EventId /\ s.projection[s.local[i]] # None
         /\ t.projection[s.local[i]] # None
         /\ Mark(t.projection[s.local[i]]) = Mark(s.projection[s.local[i]])
<1> DEFINE u == HideLocals(s, {i})
<1>1. Sound(s) /\ i \in LocalId /\ s.local[i] # None
  BY DEF Fit, Housed, Rows
<1>2. /\ u = [s EXCEPT !.projection = [e \in EventId |->
                IF e \in {s.local[j] : j \in {i}} THEN [@[e] EXCEPT !.hidden = TRUE]
                ELSE @[e]]]
      /\ u # None
  <2>1. ~ \E j \in {i} : s.local[j] = None
    BY <1>1
  <2>2. u = [s EXCEPT !.projection = [e \in EventId |->
                IF e \in {s.local[j] : j \in {i}} THEN [@[e] EXCEPT !.hidden = TRUE]
                ELSE @[e]]]
    BY <2>1 DEF HideLocals
  <2>3. s.local[i] \in EventId /\ s.projection[s.local[i]] \in Projection
    BY <1>1, EventOfRow
  <2> DEFINE p == [e \in EventId |-> IF e = s.local[i]
                                    THEN [s.projection[e] EXCEPT !.hidden = TRUE]
                                    ELSE s.projection[e]]
  <2>4. p \in [EventId -> Projection \cup {None}]
    BY <1>1, <2>3 DEF Sound, Store, Projection
  <2>5. u = [s EXCEPT !.projection = p]
    BY <2>2
  <2> HIDE DEF p, u
  <2>6. u \in Store
    BY <1>1, <2>4, <2>5 DEF Sound, Store
  <2> QED BY <2>2, <2>6, NothingAssumption DEF u
<1>3. Sound(u)
  BY <1>1, <1>2, HideLocalsKeeps DEF Keeps
<1>4. /\ u.local = s.local /\ u.event = s.event /\ u.history = s.history
      /\ \A e \in EventId : Home(u, e) = Home(s, e)
      /\ \A e \in EventId : u.projection[e] # None => s.event[e] # None
      /\ Elsewhere(s, u, {s.local[i]}) /\ Hidden(u, s.local[i])
      /\ s.local[i] \in EventId /\ s.projection[s.local[i]] # None
      /\ u.projection[s.local[i]] # None
      /\ Mark(u.projection[s.local[i]]) = Mark(s.projection[s.local[i]])
  <2>1. u.local = s.local /\ u.event = s.event /\ u.history = s.history
    BY <1>1, <1>2 DEF Sound, Store
  <2>2. u.projection = [e \in EventId |->
                IF e \in {s.local[j] : j \in {i}} THEN [s.projection[e] EXCEPT !.hidden = TRUE]
                ELSE s.projection[e]]
    BY <1>1, <1>2 DEF Sound, Store
  <2>3. s.local[i] \in EventId /\ s.projection[s.local[i]] \in Projection /\ s.event[s.local[i]] # None
    BY <1>1, EventOfRow
  <2>4. [s.projection[s.local[i]] EXCEPT !.hidden = TRUE] \in Projection
    BY <2>3 DEF Projection
  <2>5. [s.projection[s.local[i]] EXCEPT !.hidden = TRUE].local
          = s.projection[s.local[i]].local
      /\ [s.projection[s.local[i]] EXCEPT !.hidden = TRUE].hidden
      /\ Mark([s.projection[s.local[i]] EXCEPT !.hidden = TRUE]) = Mark(s.projection[s.local[i]])
    BY <2>3 DEF Projection, Mark
  <2> HIDE DEF u
  <2>6. /\ \A e \in EventId : e # s.local[i] => u.projection[e] = s.projection[e]
        /\ u.projection[s.local[i]] \in Projection
        /\ u.projection[s.local[i]].local = s.projection[s.local[i]].local
        /\ u.projection[s.local[i]].hidden
        /\ Mark(u.projection[s.local[i]]) = Mark(s.projection[s.local[i]])
    BY <2>2, <2>3, <2>4, <2>5
  <2>7. \A e \in EventId : Home(u, e) = Home(s, e)
    BY <2>3, <2>6, NothingAssumption DEF Home, ProjectionOf
  <2>8. /\ s.projection[s.local[i]] # None /\ u.projection[s.local[i]] # None
        /\ Hidden(u, s.local[i]) /\ Elsewhere(s, u, {s.local[i]})
    BY <2>1, <2>3, <2>6, NothingAssumption DEF Hidden, ProjectionOf, Elsewhere
  <2> QED BY <2>1, <2>2, <2>3, <2>6, <2>7, <2>8 DEF Fit, Housed
<1> HIDE DEF u
<1>5. t = DropHistory(DropOutcomes(u, {i}), {i})
  BY DEF u
<1>6. /\ Sound(t) /\ t.local = u.local /\ t.event = u.event /\ t.projection = u.projection
      /\ \A j \in LocalId : t.history[j] = IF j \in {i} THEN None ELSE u.history[j]
  <2>1. DropOutcomes(u, {i}) \in Store /\ Keeps(u, DropOutcomes(u, {i}))
    BY <1>3, DropsKeep DEF Keeps, Sound
  <2>2. Sound(t)
    BY <1>5, <2>1, DropsKeep DEF Keeps
  <2> DEFINE v == DropOutcomes(u, {i})
  <2>3. /\ v.history = u.history /\ v.local = u.local /\ v.event = u.event
        /\ v.projection = u.projection
    BY <1>3 DEF DropOutcomes, Sound, Store
  <2>4. v \in Store /\ t = DropHistory(v, {i})
    BY <1>5, <2>1
  <2> HIDE DEF v
  <2>5. /\ t.local = v.local /\ t.event = v.event /\ t.projection = v.projection
        /\ t.history = [j \in LocalId |-> IF j \in {i} THEN None ELSE v.history[j]]
    BY <2>4 DEF DropHistory, Store
  <2> QED BY <2>2, <2>3, <2>5
<1>7. Rows(t) \subseteq Rows(s)
  BY <1>4, <1>6 DEF Rows
<1>8. \A e \in EventId : /\ Home(t, e) = Home(s, e)
                         /\ t.projection[e] # None => t.event[e] # None
  BY <1>4, <1>6 DEF Home, ProjectionOf
<1>9. Housed(t)
  BY <1>4, <1>6, <1>7, <1>8, HousedStays
<1>10. RowGone(s, t, s.local[i], i)
  BY <1>4, <1>6, <1>8 DEF RowGone, Elsewhere, Hidden, ProjectionOf
<1> QED BY <1>4, <1>6, <1>9, <1>10 DEF Edits, Fit, Authors, Worded

-----------------------------------------------------------------------------
(***************************************************************************)
(* Applying what a sync has put in the table of events.                    *)
(***************************************************************************)
\* The row of the event applied: gone if it is dead; given it if it had none, and
\* its line written, unless it is withheld, if it lives.
RowOfApplied(s, t, e) ==
  /\ Home(s, e) # 0 => Home(t, e) = Home(s, e)
  /\ \A j \in LocalId :
       /\ t.local[j] = s.local[j] \/ (Home(s, e) = 0 /\ j = Home(t, e) /\ t.local[j] = e)
       /\ j # Home(t, e) => t.history[j] = s.history[j]
  /\ \/ t = s
     \/ /\ s.event[e].deleted /\ Hidden(t, e) /\ Home(t, e) = Home(s, e)
        /\ Home(t, e) # 0 => t.history[Home(t, e)] = None
     \/ /\ ~ s.event[e].deleted /\ Home(t, e) # 0 /\ Hidden(t, e) = Hidden(s, e)
        /\ Home(s, e) = 0 => t.local[Home(t, e)] = e /\ s.history[Home(t, e)] = None
        /\ t.history[Home(t, e)] = IF Hidden(s, e) THEN s.history[Home(t, e)]
                                   ELSE s.event[e].line

\* What applying one event leaves: it is applied, and no event is changed.
AppliedTo(s, t, e) ==
  /\ Fit(t) /\ t.event = s.event
  /\ Applied(t, e)
  /\ \A f \in EventId \ {e} : t.projection[f] = s.projection[f]
  /\ RowOfApplied(s, t, e)

\* u is s with runs counted differently.
RunsAside(s, u) ==
  /\ Sound(u) /\ u.history = s.history /\ u.outcome = s.outcome /\ u.local = s.local
  /\ u.event = s.event /\ u.projection = s.projection

\* What dropping a row with its outcome leaves.
LEMMA RowsDropped ==
  ASSUME NEW s, Sound(s), NEW ids, NEW t, t = DropOutcomes(DropHistory(s, ids), ids)
  PROVE  /\ t \in Store /\ t.local = s.local /\ t.event = s.event
         /\ t.projection = s.projection
         /\ \A j \in LocalId : t.history[j] = IF j \in ids THEN None ELSE s.history[j]
BY DropsChange, DropsLeaveEvents

\* A tombstone takes the row its projection names.
LEMMA ApplyTombstoneApplies ==
  ASSUME NEW s, Fit(s), NEW e \in EventId, s.event[e] # None,
         NEW q \in Projection \cup {Unprojected}, q.local = Home(s, e), q.hidden = Hidden(s, e),
         NEW u, RunsAside(s, u),
         NEW t, t = ApplyTombstone(u, e, q), s.event[e].deleted
  PROVE  AppliedTo(s, t, e)
<1>1. Sound(s) /\ s \in Store /\ s.event[e] \in Event
  BY DEF Fit, Sound, Store
<1>2. /\ Sound(u) /\ u.history = s.history /\ u.local = s.local /\ u.event = s.event
      /\ u.projection = s.projection
  BY DEF RunsAside
<1> DEFINE ids == {q.local}
           w == DropOutcomes(DropHistory(u, ids), ids)
           r == [At(q, s.event[e]) EXCEPT !.hidden = TRUE]
<1>w. w = DropOutcomes(DropHistory(u, ids), ids)
  OBVIOUS
<1> HIDE DEF w
<1>3. /\ w \in Store /\ w.local = u.local /\ w.event = u.event
      /\ w.projection = u.projection
      /\ \A j \in LocalId : w.history[j] = IF j \in ids THEN None ELSE u.history[j]
  <2> HIDE DEF ids
  <2> QED BY <1>2, <1>w, RowsDropped
<1>4. /\ w \in Store /\ w.local = s.local /\ w.event = s.event
      /\ w.projection = s.projection
      /\ \A j \in LocalId : w.history[j] = IF j = q.local THEN None ELSE s.history[j]
  BY <1>2, <1>3
<1>5. t = [w EXCEPT !.projection[e] = r]
  BY <1>2 DEF ApplyTombstone, w, ids
<1>6. r \in Projection /\ r.local = q.local /\ r.hidden /\ Mark(r) = Mark(s.event[e])
  <2>1. At(q, s.event[e]) \in Projection
    BY <1>1, AtIsProjection
  <2> QED BY <1>1, <2>1 DEF At, Projection, Mark, Event, Unprojected
<1> HIDE DEF r
<1>7. /\ t \in Store /\ t.history = w.history /\ t.local = s.local /\ t.event = s.event
      /\ t.projection[e] = r
      /\ \A f \in EventId \ {e} : t.projection[f] = s.projection[f]
  BY <1>4, <1>5, <1>6 DEF Store
<1>8. Sound(t)
  <2>1. \A j \in LocalId : t.local[j] # None => t.local[j] \in EventId
    BY <1>7 DEF Store
  <2>2. r # None
    BY <1>6, NothingAssumption
  <2> QED BY <1>1, <1>7, <2>1, <2>2 DEF Sound, Indexed
<1>9. Rows(t) \subseteq Rows(s)
  BY <1>4, <1>7 DEF Rows
<1>10. \A f \in EventId : /\ Home(t, f) = Home(s, f)
                          /\ t.projection[f] # None => t.event[f] # None
  BY <1>6, <1>7, NothingAssumption DEF Home, ProjectionOf, Fit, Housed
<1>11. Housed(t)
  BY <1>7, <1>9, <1>10, HousedStays
<1>12. Applied(t, e) /\ Home(t, e) = q.local /\ Hidden(t, e)
  BY <1>6, <1>7, NothingAssumption DEF Applied, ProjectionOf, Home, Hidden
<1>13. RowOfApplied(s, t, e)
  <2>1. Home(t, e) # 0 => Home(t, e) \in LocalId
    BY <1>1, <1>12, HomeIsId
  <2> QED BY <1>4, <1>7, <1>12, <2>1 DEF RowOfApplied
<1> QED BY <1>7, <1>8, <1>11, <1>12, <1>13 DEF AppliedTo, Fit, Worded

\* A live event is given its row: the one its projection names, or the next.
LEMMA ApplyLiveApplies ==
  ASSUME NEW s, Fit(s), NEW e \in EventId, s.event[e] # None,
         NEW q \in Projection \cup {Unprojected}, q.local = Home(s, e), q.hidden = Hidden(s, e),
         NEW u, RunsAside(s, u),
         NEW t, t = ApplyLive(u, e, q), ~ s.event[e].deleted
  PROVE  AppliedTo(s, t, e)
<1> DEFINE ev == u.event[e]
           i == IF q.local = 0 THEN NextId(u) ELSE q.local
           k == ContributionFor(ev, TRUE)
           r == [At(q, ev) EXCEPT !.local = i, !.run = k]
<1>0. Sound(s) /\ s \in Store
  BY DEF Fit, Sound
<1>2. /\ u \in Store /\ u.history = s.history /\ u.local = s.local /\ u.event = s.event
      /\ u.projection = s.projection /\ u.outcome = s.outcome
  BY DEF RunsAside, Sound
<1>1. Sound(s) /\ s \in Store /\ ev \in Event /\ ev.line \in Line /\ ev = s.event[e]
  BY <1>0, <1>2 DEF Fit, Store, Worded
<1>3. NextId(u) = NextId(s)
  BY <1>2 DEF NextId, Rows
<1>4. k \in RunKey \cup {None}
  BY <1>1, ContributionIsRun
<1>5. i \in LocalId
  BY <1>3, NextIdHoused, HomeIsId, <1>1
<1>6. r \in Projection /\ r.local = i /\ r.hidden = q.hidden /\ Mark(r) = Mark(ev)
  <2>1. At(q, ev) \in Projection
    BY <1>1, AtIsProjection
  <2> HIDE DEF k, i
  <2> QED BY <1>1, <1>4, <1>5, <2>1 DEF At, Projection, Mark, Event, Unprojected
<1>7. AddContribution(u.run, k) \in [RunKey -> Nat]
  BY <1>2, <1>4, Contributions DEF Store
<1> DEFINE shown == IF q.hidden THEN u
                    ELSE [u EXCEPT !.history[i] = ev.line, !.outcome[i] = ev.done]
<1>8. t = [shown EXCEPT !.local[i] = IF q.local = 0 THEN e ELSE @,
                        !.run = AddContribution(@, k),
                        !.projection[e] = r]
  BY DEF ApplyLive
<1>9. /\ shown \in Store /\ shown.local = s.local /\ shown.event = s.event
      /\ shown.projection = s.projection /\ shown.run = u.run
      /\ \A j \in LocalId \ {i} : shown.history[j] = s.history[j]
      /\ shown.history[i] = IF q.hidden THEN s.history[i] ELSE ev.line
  <2> HIDE DEF i, k, r
  <2>1. ev.done \in Done \cup {None} /\ ev.line \in Line \cup {None}
    BY <1>1 DEF Event
  <2> HIDE DEF ev
  <2> QED BY <1>1, <1>2, <1>5, <2>1 DEF Store
<1> HIDE DEF shown, r, k, i, ev
<1>10. /\ t \in Store /\ t.history = shown.history /\ t.event = s.event
       /\ t.local = [s.local EXCEPT ![i] = IF q.local = 0 THEN e ELSE @]
       /\ t.projection[e] = r
       /\ \A f \in EventId \ {e} : t.projection[f] = s.projection[f]
  <2> DEFINE counted == AddContribution(u.run, k)
             local == [s.local EXCEPT ![i] = IF q.local = 0 THEN e ELSE @]
  <2>1. s.local \in [LocalId -> EventId \cup {None}]
    BY <1>1 DEF Store
  <2>2. local \in [LocalId -> EventId \cup {None}]
    BY <1>5, <2>1
  <2>3. counted \in [RunKey -> Nat]
    BY <1>7
  <2>4. t = [shown EXCEPT !.local = local, !.run = counted, !.projection[e] = r]
    BY <1>8, <1>9
  <2> HIDE DEF counted, local
  <2> DEFINE projected == [shown.projection EXCEPT ![e] = r]
  <2>7. projected \in [EventId -> Projection \cup {None}]
    BY <1>6, <1>9 DEF Store
  <2>8. t = [shown EXCEPT !.local = local, !.run = counted, !.projection = projected]
    BY <2>4
  <2>9. shown \in Store
    BY <1>9
  <2> HIDE DEF projected
  <2>10. t \in Store
    BY <2>2, <2>3, <2>7, <2>8, <2>9 DEF Store
  <2>11. /\ t.history = shown.history /\ t.event = shown.event
         /\ t.local = local /\ t.projection = projected
    BY <2>8, <2>9 DEF Store
  <2>5. /\ t \in Store /\ t.history = shown.history /\ t.event = shown.event
        /\ t.local = local /\ t.projection = [shown.projection EXCEPT ![e] = r]
    BY <2>10, <2>11 DEF projected
  <2>6. s.projection \in [EventId -> Projection \cup {None}]
    BY <1>1 DEF Store
  <2> QED BY <1>9, <2>5, <2>6 DEF local
<1>11. e # None /\ r # None
  BY <1>6, NothingAssumption DEF EventId
<1>12. /\ Home(t, e) = i /\ t.local[i] # None
       /\ \A f \in EventId \ {e} : Home(t, f) = Home(s, f)
       /\ \A j \in LocalId : s.local[j] # None => t.local[j] # None
       /\ \A j \in LocalId : t.local[j] = s.local[j] \/ t.local[j] = e
       /\ q.local # 0 => t.local = s.local
  <2>1. q.local # 0 => s.local[i] # None
    BY DEF Fit, Housed, i
  <2>2. s.local \in [LocalId -> EventId \cup {None}]
    BY <1>1 DEF Store
  <2>3. Home(t, e) = i
    BY <1>6, <1>10, <1>11 DEF Home, ProjectionOf
  <2>4. \A f \in EventId \ {e} : Home(t, f) = Home(s, f)
    BY <1>10 DEF Home, ProjectionOf
  <2> QED BY <1>5, <1>10, <1>11, <2>1, <2>2, <2>3, <2>4
<1>13. Sound(t)
  <2>1. \A f \in EventId : s.projection[f] # None => t.projection[f] # None
    BY <1>10, <1>11
  <2>2. \A j \in LocalId : s.local[j] # None => s.local[j] \in EventId
    BY <1>1 DEF Store
  <2> QED BY <1>1, <1>10, <1>11, <1>12, <2>1, <2>2 DEF Sound, Indexed
<1>14. /\ Cardinality(Homed(s)) \in Nat /\ Cardinality(Homed(t)) \in Nat
       /\ Cardinality(Homed(t)) >= Cardinality(Homed(s))
       /\ q.local = 0 => i <= Cardinality(Homed(t))
  <2>1. Cardinality(Homed(s)) \in Nat /\ Cardinality(Homed(t)) \in Nat
    BY EventsAreFinite DEF Homed
  <2>2. CASE q.local = 0
    <3>1. Homed(t) = Homed(s) \cup {e}
      BY <1>5, <1>12 DEF Homed, LocalId
    <3>2. i <= Cardinality(Homed(s)) + 1
          /\ Cardinality(Homed(t)) = Cardinality(Homed(s)) + 1
      BY <1>3, <2>2, <3>1, NextIdHoused DEF i
    <3> QED BY <2>1, <3>2
  <2>3. CASE q.local # 0
    <3>1. i = Home(s, e)
      BY <2>3 DEF i
    <3>2. Homed(t) = Homed(s)
      BY <1>12, <2>3, <3>1 DEF Homed
    <3> QED BY <2>1, <2>3, <3>2
  <2> QED BY <2>2, <2>3
<1>15. Housed(t)
  <2>1. \A f \in EventId : /\ t.projection[f] # None => t.event[f] # None
                           /\ Home(t, f) # 0 => t.local[Home(t, f)] # None
    <3> TAKE f \in EventId
    <3>1. CASE f = e
      BY <1>10, <1>12, <3>1
    <3>2. CASE f # e
      <4>1. Home(s, f) \in LocalId \cup {0}
        BY <1>1, HomeIsId
      <4>2. Home(s, f) # 0 => s.local[Home(s, f)] # None
        BY DEF Fit, Housed
      <4>3. Home(t, f) = Home(s, f)
        BY <1>12, <3>2
      <4>4. Home(t, f) # 0 => t.local[Home(t, f)] # None
        BY <1>12, <4>1, <4>2, <4>3
      <4> QED BY <1>10, <3>2, <4>4 DEF Fit, Housed
    <3> QED BY <3>1, <3>2
  <2>2. \A j \in Rows(t) : t.local[j] # None
    BY <1>9, <1>10, <1>12 DEF Fit, Housed, Rows
  <2>3. \A j \in LocalId : s.local[j] # None => j <= Cardinality(Homed(s))
    BY DEF Fit, Housed
  <2>4. \A j \in LocalId : t.local[j] # None => j <= Cardinality(Homed(t))
    <3> SUFFICES ASSUME NEW j \in LocalId, t.local[j] # None
                 PROVE  j <= Cardinality(Homed(t))
      OBVIOUS
    <3>0. j \in Nat
      BY DEF LocalId
    <3>1. CASE s.local[j] # None
      BY <1>14, <2>3, <3>0, <3>1
    <3>2. CASE s.local[j] = None
      <4>1. q.local = 0
        BY <1>12, <3>2
      <4>2. s.local \in [LocalId -> EventId \cup {None}]
        BY <1>1 DEF Store
      <4>3. j = i
        BY <1>5, <1>10, <3>2, <4>2
      <4> QED BY <1>14, <4>1, <4>3
    <3> QED BY <3>1, <3>2
  <2> QED BY <2>1, <2>2, <2>4 DEF Housed
<1>16. Applied(t, e) /\ Hidden(t, e) = Hidden(s, e)
  BY <1>1, <1>6, <1>10, <1>11 DEF Applied, ProjectionOf, Hidden
<1>17. RowOfApplied(s, t, e)
  <2>1. q.local = 0 => s.history[i] = None
    <3>1. q.local = 0 => i = NextId(s)
      BY <1>3 DEF i
    <3> QED BY <1>5, <3>1, NextIdHoused DEF Rows
  <2>2. \A j \in LocalId : t.local[j] = s.local[j] \/ (q.local = 0 /\ j = i /\ t.local[j] = e)
    BY <1>1, <1>5, <1>10 DEF Store
  <2>3. q.local = 0 => t.local[i] = e
    BY <1>1, <1>5, <1>10 DEF Store
  <2>4. q.local # 0 => Home(t, e) = Home(s, e)
    BY <1>12 DEF i
  <2>5. i # 0
    BY <1>5 DEF LocalId
  <2>6. /\ \A j \in LocalId : j # i => t.history[j] = s.history[j]
        /\ t.history[i] = IF Hidden(s, e) THEN s.history[i] ELSE s.event[e].line
    BY <1>1, <1>9, <1>10
  <2> QED BY <1>12, <1>16, <2>1, <2>2, <2>3, <2>4, <2>5, <2>6 DEF RowOfApplied
<1> QED BY <1>10, <1>13, <1>15, <1>16, <1>17 DEF AppliedTo, Fit, Worded

\* Applying an event, whatever its projection says: what is counted behind it
\* goes, then it is applied, unless it is already.
LEMMA ApplyEventApplies ==
  ASSUME NEW s, Fit(s), NEW e \in EventId, s.event[e] # None, NEW t, t = ApplyEvent(s, e)
  PROVE  AppliedTo(s, t, e)
<1> DEFINE p == ProjectionOf(s, e)
           q == [p EXCEPT !.run = None]
           run == RemoveContribution(s.run, p.run)
           u == [s EXCEPT !.run = run]
<1>1. s \in Store
  BY DEF Fit, Sound
<1>2. p \in Projection \cup {Unprojected}
  BY <1>1 DEF ProjectionOf, Store
<1>3. q \in Projection \cup {Unprojected} /\ q.local = Home(s, e) /\ q.hidden = Hidden(s, e)
  <2>1. CASE p \in Projection
    BY <2>1 DEF Projection, Home, Hidden
  <2>2. CASE p = Unprojected
    <3> DEFINE U == [local : {0}, revision : {0}, deleted : {FALSE}, tie : {0},
                     hidden : {FALSE}, run : {None}]
    <3>0. Unprojected \in U /\ [Unprojected EXCEPT !.run = None] \in U
      BY DEF Unprojected
    <3>1. [Unprojected EXCEPT !.run = None] = Unprojected
      BY <3>0
    <3>2. q = Unprojected
      BY <2>2, <3>1
    <3> QED BY <2>2, <3>2 DEF Home, Hidden
  <2> QED BY <1>2, <2>1, <2>2
<1>4. run \in [RunKey -> Nat]
  <2>1. p.run \in RunKey \cup {None} /\ s.run \in [RunKey -> Nat]
    BY <1>1, <1>2 DEF Projection, Unprojected, Store
  <2> QED BY <2>1, Contributions
<1>5. RunsAside(s, u)
  BY <1>1, <1>4, RunsKeep DEF RunsAside, Keeps, Fit, Store
<1>6. CASE Applied(s, e)
  BY <1>6 DEF ApplyEvent, AppliedTo, RowOfApplied
<1>7. CASE ~ Applied(s, e)
  <2>1. t = IF s.event[e].deleted THEN ApplyTombstone(u, e, q) ELSE ApplyLive(u, e, q)
    BY <1>1, <1>7 DEF ApplyEvent, Store
  <2> HIDE DEF q, u
  <2>2. CASE s.event[e].deleted
    BY <1>3, <1>5, <2>1, <2>2, ApplyTombstoneApplies
  <2>3. CASE ~ s.event[e].deleted
    BY <1>3, <1>5, <2>1, <2>3, ApplyLiveApplies
  <2> QED BY <2>2, <2>3
<1> QED BY <1>6, <1>7

(***************************************************************************)
(* Applying all of them, one after the other.  What a recursive function   *)
(* is, and what holds of each of its values, is shown for the largest      *)
(* number of events it holds of, which is all of them.                     *)
(***************************************************************************)
\* A property of the first numbers that goes from each to the next is one of all.
LEMMA UpToAll ==
  ASSUME NEW S \in SUBSET (0 .. Events), 0 \in S,
         \A n \in 0 .. Events : n + 1 \in 0 .. Events /\ n \in S => n + 1 \in S
  PROVE  S = 0 .. Events
<1> DEFINE bad == {i \in LocalId : i \notin S}
           G == {i \in LocalId : \A j \in bad : i < j}
<1>0. Events \in Nat
  BY HistoryAssumption
<1>a. \A n \in 0 .. Events : n = 0 \/ n \in LocalId
  BY <1>0 DEF LocalId
<1>1. SUFFICES ASSUME bad # {} PROVE FALSE
  <2>1. ASSUME bad = {}, NEW n \in 0 .. Events PROVE n \in S
    BY <1>a, <2>1
  <2> QED BY <2>1
<1>2. CASE G = {}
  <2>1. 1 \in S /\ 1 \in LocalId
    BY <1>0, <1>1 DEF LocalId
  <2>2. \A j \in bad : 1 < j
    BY <2>1 DEF LocalId
  <2> QED BY <1>2, <2>1, <2>2
<1>3. CASE G # {}
  <2> DEFINE g == Max(G)
  <2>1. g \in G /\ \A i \in G : g >= i
    BY <1>3, NewestIsOne
  <2> HIDE DEF g
  <2>2. g \in LocalId /\ g \in S /\ \A j \in bad : g < j
    BY <1>0, <2>1 DEF LocalId
  <2>3. g + 1 \in LocalId
    BY <1>0, <1>1, <2>2 DEF LocalId
  <2>4. g + 1 \in S
    BY <1>0, <2>2, <2>3 DEF LocalId
  <2>5. \A j \in bad : g + 1 < j
    BY <1>0, <2>2, <2>3, <2>4 DEF LocalId
  <2>6. g + 1 \in G
    BY <2>3, <2>5
  <2> QED BY <1>0, <2>1, <2>2, <2>6 DEF LocalId
<1> QED BY <1>2, <1>3

\* What is done for event n to the store with the ones before it applied.
ApplyNext(s, n, t) == IF n \in Known(s) THEN ApplyEvent(t, n) ELSE t

\* The stores a sync goes through, as the recursive function says.
LEMMA ApplyUpToIs ==
  ASSUME NEW s
  PROVE  /\ ApplyUpTo(s)[0] = s
         /\ \A n \in 0 .. Events : n # 0 =>
              ApplyUpTo(s)[n] = ApplyNext(s, n, ApplyUpTo(s)[n - 1])
<1> DEFINE StepAt(f, k) == f = [n \in 0 .. k |-> IF n = 0 THEN s ELSE ApplyNext(s, n, f[n - 1])]
           S == {k \in 0 .. Events : \E f : StepAt(f, k)}
<1>0. Events \in Nat
  BY HistoryAssumption
<1>1. 0 \in S
  <2> DEFINE f == [n \in 0 .. 0 |-> s]
  <2>1. f = [n \in 0 .. 0 |-> IF n = 0 THEN s ELSE ApplyNext(s, n, f[n - 1])]
    BY <1>0
  <2>2. StepAt(f, 0)
    BY <2>1
  <2>3. 0 \in 0 .. Events
    BY <1>0
  <2> HIDE DEF f
  <2> QED BY <2>2, <2>3
<1>2. ASSUME NEW k \in 0 .. Events, k + 1 \in 0 .. Events, k \in S
      PROVE  k + 1 \in S
  <2>1. PICK f : StepAt(f, k)
    BY <1>2
  <2> DEFINE g == [n \in 0 .. k + 1 |-> IF n = k + 1 THEN ApplyNext(s, k + 1, f[k]) ELSE f[n]]
             h == [n \in 0 .. k + 1 |-> IF n = 0 THEN s ELSE ApplyNext(s, n, g[n - 1])]
  <2>2. \A n \in 0 .. k + 1 : g[n] = h[n]
    <3> TAKE n \in 0 .. k + 1
    <3>1. CASE n = k + 1
      <4>1. g[n - 1] = f[k]
        BY <1>0, <3>1
      <4> QED BY <1>0, <3>1, <4>1
    <3>2. CASE n # k + 1
      <4>1. n \in 0 .. k /\ g[n] = f[n]
        BY <1>0, <3>2
      <4>2. f[n] = IF n = 0 THEN s ELSE ApplyNext(s, n, f[n - 1])
        BY <2>1, <4>1
      <4>3. n # 0 => g[n - 1] = f[n - 1]
        BY <1>0, <4>1
      <4> QED BY <4>1, <4>2, <4>3
    <3> QED BY <3>1, <3>2
  <2>3. g = h
    BY <2>2
  <2> QED BY <1>2, <2>3
<1>3. Events \in S
  <2> HIDE DEF S
  <2>1. S \in SUBSET (0 .. Events)
    BY DEF S
  <2>2. S = 0 .. Events
    BY <1>1, <1>2, <2>1, UpToAll
  <2> QED BY <1>0, <2>2
<1>4. \E f : StepAt(f, Events)
  BY <1>3
<1> DEFINE a == ApplyUpTo(s)
<1>5. a = CHOOSE f : f = [n \in 0 .. Events |->
            IF n = 0 THEN s ELSE IF n \in Known(s) THEN ApplyEvent(f[n - 1], n) ELSE f[n - 1]]
  BY DEF ApplyUpTo
<1>6. a = CHOOSE f : StepAt(f, Events)
  BY <1>5 DEF ApplyNext
<1>7. StepAt(a, Events)
  BY <1>4, <1>6
<1> HIDE DEF a
<1> QED BY <1>0, <1>7 DEF a

\* All the events there are are applied, none is changed, and the store fits.
LEMMA ApplyWinnersApplies ==
  ASSUME NEW s, Fit(s), NEW t, t = ApplyWinners(s)
  PROVE  /\ Fit(t) /\ t.event = s.event
         /\ \A e \in Known(s) : Applied(t, e)
<1> DEFINE a == ApplyUpTo(s)
           Good(n) == /\ Fit(a[n]) /\ a[n].event = s.event
                      /\ \A e \in Known(s) : e <= n => Applied(a[n], e)
           S == {n \in 0 .. Events : Good(n)}
<1>0. Events \in Nat /\ \A e \in EventId : e \in Nat /\ 0 < e /\ e <= Events
  BY HistoryAssumption DEF EventId
<1>1. /\ a[0] = s
      /\ \A n \in 0 .. Events : n # 0 => a[n] = ApplyNext(s, n, a[n - 1])
  BY ApplyUpToIs
<1>2. t = a[Events]
  BY DEF ApplyWinners
<1> HIDE DEF a
<1>3. 0 \in S
  BY <1>0, <1>1 DEF Known
<1>4. ASSUME NEW n \in 0 .. Events, n + 1 \in 0 .. Events, n \in S
      PROVE  n + 1 \in S
  <2>1. a[n + 1] = ApplyNext(s, n + 1, a[n])
    BY <1>0, <1>1, <1>4
  <2>2. n + 1 \in EventId /\ Good(n)
    BY <1>0, <1>4 DEF EventId
  <2>3. \A e \in Known(s) : e <= n + 1 => e <= n \/ e = n + 1
    BY <1>0 DEF Known
  <2>4. CASE n + 1 \notin Known(s)
    BY <1>4, <2>1, <2>2, <2>3, <2>4 DEF ApplyNext
  <2>5. CASE n + 1 \in Known(s)
    <3>1. a[n + 1] = ApplyEvent(a[n], n + 1)
      BY <2>1, <2>5 DEF ApplyNext
    <3>2. a[n].event[n + 1] # None
      BY <2>2, <2>5 DEF Known
    <3>3. AppliedTo(a[n], a[n + 1], n + 1)
      BY <2>2, <3>1, <3>2, ApplyEventApplies
    <3>4. \A e \in Known(s) : e <= n => Applied(a[n + 1], e)
      <4> TAKE e \in Known(s)
      <4> HAVE e <= n
      <4>1. e \in EventId \ {n + 1}
        BY <1>0 DEF Known
      <4>2. a[n + 1].projection[e] = a[n].projection[e] /\ a[n + 1].event = a[n].event
        BY <3>3, <4>1 DEF AppliedTo
      <4>3. Applied(a[n], e)
        BY <2>2
      <4> QED BY <4>2, <4>3 DEF Applied, ProjectionOf
    <3>5. /\ Fit(a[n + 1]) /\ a[n + 1].event = s.event
          /\ Applied(a[n + 1], n + 1)
      BY <2>2, <3>3 DEF AppliedTo
    <3>6. Good(n + 1)
      BY <2>3, <3>4, <3>5
    <3> QED BY <1>4, <3>6
  <2> QED BY <2>4, <2>5
<1>5. S = 0 .. Events
  <2> HIDE DEF S
  <2>1. S \in SUBSET (0 .. Events)
    BY DEF S
  <2> QED BY <1>3, <1>4, <2>1, UpToAll
<1>6. Good(Events)
  BY <1>0, <1>5
<1> QED BY <1>0, <1>2, <1>6 DEF Known

-----------------------------------------------------------------------------
(***************************************************************************)
(* Merging copies.  A copy covers another when it is not beaten by it, and *)
(* anything covers nothing.                                                *)
(***************************************************************************)
Covers(a, b) == b # None => a # None /\ ~ WinsOver(b, a)

\* An event's stamp.
LEMMA MarkOfEvent ==
  ASSUME NEW ev \in Event
  PROVE  ev # None /\ Mark(ev) \in Stamp
BY NothingAssumption DEF Event, Mark, Stamp

\* Covering is a matter of stamps, and as transitive as winning is.
LEMMA CoversTransitive ==
  ASSUME NEW a \in Event \cup {None}, NEW b \in Event \cup {None}, NEW c \in Event \cup {None},
         Covers(a, b), Covers(b, c)
  PROVE  Covers(a, c)
<1> SUFFICES ASSUME c # None
             PROVE  a # None /\ ~ WinsOver(c, a)
  BY DEF Covers
<1>1. /\ a \in Event /\ b \in Event /\ c \in Event
      /\ ~ WinsOver(b, a) /\ ~ WinsOver(c, b)
  BY DEF Covers
<1>2. Mark(a) \in Stamp /\ Mark(b) \in Stamp /\ Mark(c) \in Stamp
  BY <1>1, MarkOfEvent
<1>3. ~ WinsOver(Mark(b), Mark(a)) /\ ~ WinsOver(Mark(c), Mark(b))
  BY <1>1, WinsOverMarks
<1>4. Mark(a) = Mark(b) \/ WinsOver(Mark(a), Mark(b))
  BY <1>2, <1>3, WinsOverIsTotal
<1>5. ~ WinsOver(Mark(c), Mark(a))
  BY <1>2, <1>3, <1>4, StandsOver
<1> QED BY <1>1, <1>5, WinsOverMarks, MarkOfEvent

\* Copies that cover each other have one stamp.
LEMMA CoversBothWays ==
  ASSUME NEW a \in Event \cup {None}, NEW b \in Event \cup {None}, Covers(a, b), Covers(b, a)
  PROVE  \/ a = None /\ b = None
         \/ a \in Event /\ b \in Event /\ Mark(a) = Mark(b)
<1>1. CASE a = None \/ b = None
  BY <1>1 DEF Covers
<1>2. CASE a \in Event /\ b \in Event
  <2>1. a # None /\ b # None
    BY <1>2, MarkOfEvent
  <2>2. ~ WinsOver(Mark(a), Mark(b)) /\ ~ WinsOver(Mark(b), Mark(a))
    BY <2>1, WinsOverMarks DEF Covers
  <2> QED BY <1>2, <2>2, MarkOfEvent, WinsOverIsTotal
<1> QED BY <1>1, <1>2

\* A copy that is the same or wins covers.
LEMMA WinnerCovers ==
  ASSUME NEW a \in Event, NEW b \in Event, a = b \/ WinsOver(a, b)
  PROVE  Covers(a, b)
<1>1. Mark(a) \in Stamp /\ Mark(b) \in Stamp /\ a # None /\ b # None
  BY MarkOfEvent
<1>2. Mark(a) = Mark(b) \/ WinsOver(Mark(a), Mark(b))
  BY WinsOverMarks
<1>3. ~ WinsOver(Mark(b), Mark(a))
  BY <1>1, <1>2, WinsOverIsAsymmetric
<1> QED BY <1>1, <1>3, WinsOverMarks DEF Covers

\* What a merge keeps is one of the two, and covers both.
LEMMA MergedCovers ==
  ASSUME NEW a \in Event \cup {None}, NEW b \in Event \cup {None}
  PROVE  /\ Merged(a, b) \in {a, b}
         /\ Covers(Merged(a, b), a) /\ Covers(Merged(a, b), b)
         /\ Merged(a, b) # a => Merged(a, b) = b /\ b # None
         /\ a # None /\ Merged(a, b) # a => WinsOver(Merged(a, b), a)
<1>1. CASE a = None \/ b = None
  BY <1>1, WinnerCovers DEF Merged, Covers
<1>2. CASE a \in Event /\ b \in Event
  <2>1. a # None /\ b # None
    BY <1>2, MarkOfEvent
  <2>2. CASE WinsOver(b, a)
    <3>1. Merged(a, b) = b
      BY <2>1, <2>2 DEF Merged, Preferred
    <3> QED BY <1>2, <2>1, <2>2, <3>1, WinnerCovers
  <2>3. CASE ~ WinsOver(b, a)
    <3>1. Merged(a, b) = a
      BY <2>1, <2>3 DEF Merged, Preferred
    <3> QED BY <1>2, <2>1, <2>3, <3>1, WinnerCovers DEF Covers
  <2> QED BY <2>2, <2>3
<1> QED BY <1>1, <1>2

-----------------------------------------------------------------------------
(***************************************************************************)
(* The steps of a session.                                                 *)
(***************************************************************************)
SessionRecord ==
  [pc : ToSet(Steps) \cup {"idle", "done"},
   at : Machine \cup {None}, near : Machine \cup {None},
   far : Machine \cup {None}, first : {"live", "copy"},
   copy : Copies, winners : Copies, began : [EventId -> SUBSET Event],
   quiet : BOOLEAN]

\* Which step comes after which, the last one aside.
Following == [read |-> "keep", keep |-> "win", win |-> "overwrite",
              overwrite |-> "back", back |-> "forth", forth |-> "apply"]

\* The steps by name.
LEMMA StepNames ==
  ToSet(Steps) = {"read", "keep", "win", "overwrite", "back", "forth", "apply"}
<1>1. DOMAIN Steps = 1 .. 7
  BY DEF Steps
<1>2. /\ Steps[1] = "read" /\ Steps[2] = "keep" /\ Steps[3] = "win"
      /\ Steps[4] = "overwrite" /\ Steps[5] = "back" /\ Steps[6] = "forth"
      /\ Steps[7] = "apply"
  BY DEF Steps
<1>3. \A n \in 1 .. 7 : n = 1 \/ n = 2 \/ n = 3 \/ n = 4 \/ n = 5 \/ n = 6 \/ n = 7
  OBVIOUS
<1>4. ToSet(Steps) = {Steps[n] : n \in 1 .. 7}
  BY <1>1 DEF ToSet
<1> QED BY <1>2, <1>3, <1>4

\* What the session is after a step that is not the last of its half.
LEMMA AfterIsFollowing ==
  ASSUME NEW s, s.pc \in DOMAIN Following
  PROVE  After(s) = {[s EXCEPT !.pc = Following[s.pc]]}
<1>1. s.pc \in {"read", "keep", "win", "overwrite", "back", "forth"}
  BY DEF Following
<1>2. /\ Len(Steps) = 7
      /\ Steps[1] = "read" /\ Steps[2] = "keep" /\ Steps[3] = "win"
      /\ Steps[4] = "overwrite" /\ Steps[5] = "back" /\ Steps[6] = "forth"
      /\ Steps[7] = "apply"
  BY DEF Steps
<1> DEFINE n == CHOOSE n \in 2 .. Len(Steps) : Steps[n - 1] = s.pc
<1>3. \E i \in 2 .. Len(Steps) : Steps[i - 1] = s.pc
  <2>1. CASE s.pc = "read"
    BY <1>2, <2>1, 2 - 1 = 1
  <2>2. CASE s.pc = "keep"
    BY <1>2, <2>2, 3 - 1 = 2
  <2>3. CASE s.pc = "win"
    BY <1>2, <2>3, 4 - 1 = 3
  <2>4. CASE s.pc = "overwrite"
    BY <1>2, <2>4, 5 - 1 = 4
  <2>5. CASE s.pc = "back"
    BY <1>2, <2>5, 6 - 1 = 5
  <2>6. CASE s.pc = "forth"
    BY <1>2, <2>6, 7 - 1 = 6
  <2> QED BY <1>1, <2>1, <2>2, <2>3, <2>4, <2>5, <2>6
<1>4. n \in 2 .. 7 /\ Steps[n - 1] = s.pc
  BY <1>2, <1>3
<1> HIDE DEF n
<1>5. n = 2 \/ n = 3 \/ n = 4 \/ n = 5 \/ n = 6 \/ n = 7
  BY <1>4
<1>6. Steps[n] = Following[s.pc]
  BY <1>1, <1>2, <1>4, <1>5, 2 - 1 = 1, 3 - 1 = 2, 4 - 1 = 3, 5 - 1 = 4, 6 - 1 = 5, 7 - 1 = 6
     DEF Following
<1> QED BY <1>1, <1>6 DEF After, n

\* A session that has moved on, r, is where s was but for its step.
SameSession(s, r) ==
  /\ r.near = s.near /\ r.far = s.far /\ r.began = s.began /\ r.quiet = s.quiet
  /\ r.copy = s.copy

\* A step within a half changes what the step is.
LEMMA OnwardWithin ==
  ASSUME NEW s \in SessionRecord, s.pc \in DOMAIN Following, NEW r \in After(s)
  PROVE  /\ r \in SessionRecord /\ r.pc = Following[s.pc]
         /\ SameSession(s, r)
         /\ r.at = s.at /\ r.first = s.first /\ r.winners = s.winners
<1>1. r = [s EXCEPT !.pc = Following[s.pc]]
  BY AfterIsFollowing
<1>2. Following[s.pc] \in ToSet(Steps)
  BY StepNames DEF Following
<1> QED BY <1>1, <1>2 DEF SessionRecord, SameSession

\* The last step of a half begins the other half, or ends the session.
LEMMA OnwardFromApply ==
  ASSUME NEW s \in SessionRecord, s.pc = "apply", NEW r \in After(s)
  PROVE  /\ r \in SessionRecord /\ SameSession(s, r)
         /\ s.at = s.near => r.pc = "read" /\ r.at = s.far
         /\ s.at # s.near => r.pc = "done" /\ r.at = s.at
         /\ r.winners = Nothing
<1>1. Nothing \in Copies /\ "read" \in ToSet(Steps)
  BY StepNames DEF Nothing, Copies
<1>2. CASE s.at = s.near
  <2>1. \E first \in {"live", "copy"} :
          r = [s EXCEPT !.pc = "read", !.at = s.far, !.first = first, !.winners = Nothing]
    BY <1>2 DEF After
  <2> QED BY <1>1, <1>2, <2>1 DEF SessionRecord, SameSession
<1>3. CASE s.at # s.near
  <2>1. r = [s EXCEPT !.pc = "done", !.winners = Nothing]
    BY <1>3 DEF After
  <2> QED BY <1>1, <1>3, <2>1 DEF SessionRecord, SameSession
<1> QED BY <1>2, <1>3

\* A session under way is between two machines, and at one of them.
Seated ==
  sync.pc # "idle" =>
    /\ sync.near \in Machine /\ sync.far \in Machine /\ sync.near # sync.far
    /\ sync.at \in {sync.near, sync.far}

Fits == \A m \in Machine : Fit(store[m])

\* The machine a session is at, and the table of each of its two files.
Live == store[sync.at].event

\* What a step of a session that puts a table somewhere does.
LEMMA PutDoes ==
  ASSUME TypeOK, Seated, NEW pc \in DOMAIN Following, NEW which \in {"live", "copy"},
         NEW events \in Copies, Put(pc, which, events)
  PROVE  /\ sync.pc = pc /\ sync' \in SessionRecord /\ sync'.pc = Following[pc]
         /\ sync'.near = sync.near /\ sync'.far = sync.far /\ sync'.began = sync.began
         /\ sync'.quiet = sync.quiet /\ sync'.at = sync.at /\ sync'.first = sync.first
         /\ sync'.winners = sync.winners
         /\ which = "live" => /\ store' = [store EXCEPT ![sync.at].event = events]
                              /\ sync'.copy = sync.copy
         /\ which = "copy" => store' = store /\ sync'.copy = events
         /\ UNCHANGED <<flight, import, written, doing>>
<1>1. sync \in SessionRecord /\ sync.pc = pc
  BY DEF TypeOK, SessionRecord, Put
<1>2. CASE which = "live"
  <2>1. sync' \in After(sync) /\ store' = [store EXCEPT ![sync.at].event = events]
    BY <1>2 DEF Put
  <2> QED BY <1>1, <1>2, <2>1, OnwardWithin DEF Put, SameSession
<1>3. CASE which = "copy"
  <2> DEFINE s == [sync EXCEPT !.copy = events]
  <2>1. sync' \in After(s) /\ store' = store
    BY <1>3 DEF Put
  <2>2. /\ s \in SessionRecord /\ s.pc = pc /\ s.copy = events
        /\ s.near = sync.near /\ s.far = sync.far /\ s.began = sync.began
        /\ s.quiet = sync.quiet /\ s.at = sync.at /\ s.first = sync.first
        /\ s.winners = sync.winners
    BY <1>1 DEF SessionRecord
  <2> HIDE DEF s
  <2> QED BY <1>1, <1>3, <2>1, <2>2, OnwardWithin DEF Put, SameSession
<1> QED BY <1>2, <1>3

-----------------------------------------------------------------------------
(***************************************************************************)
(* The inductive invariant: every copy a machine, the travelling file, the *)
(* session's winners or an import holds was authored by somebody; what was *)
(* authored has a stamp of its own and, alive, a line to say.              *)
(***************************************************************************)
Written(table) == \A e \in EventId : table[e] # None => table[e] \in written[e]

Held ==
  /\ \A m \in Machine : Written(store[m].event)
  /\ Written(sync.copy) /\ Written(sync.winners)
  /\ \A m \in Machine : import[m] # None => import[m].copy \in written[import[m].id]

StampNamesEvent ==
  \A e \in EventId : \A a, b \in written[e] : Mark(a) = Mark(b) => a = b

CopiesWorded ==
  \A e \in EventId : \A a \in written[e] : ~ a.deleted => a.line \in Line

SyncIInv == TypeOK /\ Seated /\ Fits /\ Held /\ StampNamesEvent /\ CopiesWorded

\* A table that takes the place of another has what it had, or written copies that win.
Gains(table, next) ==
  \A e \in EventId : next[e] # table[e] =>
    next[e] \in written[e] /\ Merged(table[e], next[e]) = next[e]

\* A table none of whose copies are beaten by those of another.
AllCovered(next, table) == \A e \in EventId : Covers(next[e], table[e])

\* A written copy is an event, a table's entries are copies or nothing.
LEMMA Entries ==
  ASSUME NEW table \in Copies, NEW e \in EventId
  PROVE  table[e] \in Event \cup {None} /\ Covers(table[e], table[e])
<1>1. table[e] \in Event \cup {None}
  BY DEF Copies
<1> QED BY <1>1, WinnerCovers DEF Covers

\* What gaining copies comes to.
LEMMA GainsRise ==
  ASSUME TypeOK, NEW table \in Copies, Written(table), NEW next \in Copies, Gains(table, next)
  PROVE  /\ Written(next) /\ AllCovered(next, table)
         /\ \A e \in EventId : table[e] # None =>
              /\ next[e] # None
              /\ next[e] # table[e] => WinsOver(next[e], table[e])
<1> SUFFICES ASSUME NEW e \in EventId
             PROVE  /\ next[e] # None => next[e] \in written[e]
                    /\ Covers(next[e], table[e])
                    /\ table[e] # None =>
                         /\ next[e] # None
                         /\ next[e] # table[e] => WinsOver(next[e], table[e])
  BY DEF Written, AllCovered
<1>1. table[e] \in Event \cup {None} /\ next[e] \in Event \cup {None}
  BY Entries
<1>2. CASE next[e] = table[e]
  BY <1>2, Entries DEF Written
<1>3. CASE next[e] # table[e]
  <2>1. next[e] \in written[e] /\ Merged(table[e], next[e]) = next[e]
    BY <1>3 DEF Gains
  <2>2. next[e] \in Event
    BY <2>1 DEF TypeOK
  <2> QED BY <1>1, <1>3, <2>1, <2>2, MergedCovers, MarkOfEvent
<1> QED BY <1>2, <1>3

\* A table merged with written copies gains some of them, and covers all.
LEMMA MergedGains ==
  ASSUME NEW table \in Copies, NEW got \in Copies, Written(got),
         NEW next, next = [e \in EventId |-> Merged(table[e], got[e])]
  PROVE  /\ next \in Copies /\ Gains(table, next)
         /\ AllCovered(next, table) /\ AllCovered(next, got)
         /\ \A e \in EventId : next[e] \in {table[e], got[e]}
<1>1. \A e \in EventId : /\ next[e] = Merged(table[e], got[e])
                         /\ table[e] \in Event \cup {None} /\ got[e] \in Event \cup {None}
  BY Entries
<1>2. \A e \in EventId : /\ next[e] \in {table[e], got[e]}
                         /\ Covers(next[e], table[e]) /\ Covers(next[e], got[e])
                         /\ next[e] # table[e] => next[e] = got[e] /\ got[e] # None
  BY <1>1, MergedCovers
<1>3. next \in Copies
  BY <1>1, <1>2 DEF Copies
<1>4. Gains(table, next)
  BY <1>1, <1>2 DEF Gains, Written
<1> QED BY <1>2, <1>3, <1>4 DEF AllCovered

\* Keeping what is there gains the copies of events this table never heard of.
LEMMA KeepExistingGains ==
  ASSUME NEW to \in Copies, NEW from \in Copies, Written(from),
         NEW next, next = KeepExisting(to, from)
  PROVE  /\ next \in Copies /\ Gains(to, next) /\ AllCovered(next, to)
         /\ \A e \in EventId : next[e] \in {to[e], from[e]}
<1> DEFINE got == [e \in EventId |-> IF to[e] = None THEN from[e] ELSE None]
<1>1. got \in Copies /\ Written(got)
  BY Entries DEF Copies, Written
<1>2. next = [e \in EventId |-> Merged(to[e], got[e])]
  BY DEF KeepExisting, Merged
<1>3. \A e \in EventId : next[e] \in {to[e], from[e]}
  BY DEF KeepExisting
<1> HIDE DEF got
<1> QED BY <1>1, <1>2, <1>3, MergedGains

\* Overwriting and putting back what the destination wins is a merge like the others.
LEMMA OverwriteMerges ==
  ASSUME NEW to \in Copies, NEW from \in Copies
  PROVE  OverwritePreserving(to, from) = [e \in EventId |-> Merged(to[e], from[e])]
<1>1. \A e \in EventId :
        (IF from[e] = None THEN to[e]
         ELSE IF to[e] = None THEN from[e]
         ELSE IF Preferred(to[e], from[e]) = to[e] THEN to[e] ELSE from[e])
          = Merged(to[e], from[e])
  BY DEF Merged, Preferred
<1> QED BY <1>1 DEF OverwritePreserving

\* A store given another table of events, which has all the events it had.
LEMMA FitWithEvents ==
  ASSUME NEW s, Fit(s), NEW table \in Copies,
         \A e \in EventId : s.event[e] # None => table[e] # None,
         \A e \in EventId : table[e] # None /\ ~ table[e].deleted => table[e].line \in Line,
         NEW t, t = [s EXCEPT !.event = table]
  PROVE  Fit(t) /\ t.event = table
<1>1. /\ t.event = table /\ t.local = s.local /\ t.history = s.history
      /\ t.projection = s.projection
  BY DEF Fit, Sound, Store
<1>2. t \in Store
  BY DEF Fit, Sound, Store, Copies
<1>3. \A j \in LocalId : s.local[j] # None => s.local[j] \in EventId
  BY DEF Fit, Sound, Store
<1>4. Sound(t)
  BY <1>1, <1>2, <1>3 DEF Fit, Sound, Indexed
<1>5. \A e \in EventId : /\ Home(t, e) = Home(s, e)
                         /\ t.projection[e] # None => t.event[e] # None
  BY <1>1 DEF Home, ProjectionOf, Fit, Housed
<1>6. Housed(t)
  BY <1>1, <1>5, HousedStays DEF Rows
<1> QED BY <1>1, <1>4, <1>6 DEF Fit, Worded

-----------------------------------------------------------------------------
(***************************************************************************)
(* What a step does to the stores: it authors copies on one machine, or    *)
(* one machine takes in copies that were written, or no table changes.     *)
(***************************************************************************)
TakesIn(m, t) ==
  /\ store' = [store EXCEPT ![m] = t] /\ Fit(t)
  /\ Gains(store[m].event, t.event)
  /\ written' = written

AuthorsAt(m, tie, t) == Edits(store[m], t, tie) /\ Edit(m, tie, t)

\* A store's table is a table.
LEMMA StoreTable ==
  ASSUME Fits, NEW m \in Machine
  PROVE  store[m].event \in Copies /\ store[m] \in Store
BY DEF Fits, Fit, Sound, Store, Copies

\* A machine that takes copies in still fits and holds what was written.
LEMMA TakesInKeeps ==
  ASSUME SyncIInv, NEW m \in Machine, NEW t, TakesIn(m, t)
  PROVE  /\ store' \in [Machine -> Store] /\ Fits'
         /\ \A n \in Machine : Written(store[n].event)'
         /\ StampNamesEvent' /\ CopiesWorded'
<1>1. /\ \A n \in Machine \ {m} : store'[n] = store[n]
      /\ store'[m] = t /\ t \in Store /\ t.event \in Copies
  BY DEF TakesIn, SyncIInv, TypeOK, Fit, Sound, Store, Copies
<1>2. store' \in [Machine -> Store]
  BY <1>1 DEF TakesIn, SyncIInv, TypeOK
<1>3. Fits'
  BY <1>1 DEF Fits, SyncIInv, TakesIn
<1>4. Written(t.event)
  BY <1>1, GainsRise, StoreTable DEF TakesIn, SyncIInv, Held
<1>5. \A n \in Machine : Written(store[n].event)'
  BY <1>1, <1>4 DEF TakesIn, Written, SyncIInv, Held
<1> QED BY <1>2, <1>3, <1>5 DEF TakesIn, SyncIInv, StampNamesEvent, CopiesWorded

\* A file's table is a table of written copies.
LEMMA FileTable ==
  ASSUME SyncIInv, sync.pc # "idle", NEW which \in {"live", "copy"}
  PROVE  /\ sync.at \in Machine
         /\ File(which) \in Copies /\ Written(File(which))
         /\ File("live") = store[sync.at].event /\ File("copy") = sync.copy
<1>1. sync.at \in Machine
  BY DEF SyncIInv, Seated
<1>2. sync.copy \in Copies
  BY DEF SyncIInv, TypeOK
<1> QED BY <1>1, <1>2, StoreTable DEF SyncIInv, Held, File

\* One of the two files comes first.
LEMMA TwoFiles ==
  ASSUME SyncIInv
  PROVE  /\ sync.first \in {"live", "copy"} /\ Second \in {"live", "copy"}
         /\ Second # sync.first
BY DEF SyncIInv, TypeOK, Second

\* A step that puts a table gained somewhere keeps the invariant.
LEMMA PutStep ==
  ASSUME SyncIInv, NEW pc \in DOMAIN Following, NEW which \in {"live", "copy"},
         NEW events \in Copies, Put(pc, which, events), Gains(File(which), events)
  PROVE  /\ SyncIInv'
         /\ \/ \E m \in Machine : \E t : TakesIn(m, t)
            \/ UNCHANGED <<store, written>>
<1>1. TypeOK /\ Seated
  BY DEF SyncIInv
<1>2. /\ sync.pc = pc /\ sync' \in SessionRecord /\ sync'.pc = Following[pc]
      /\ sync'.near = sync.near /\ sync'.far = sync.far /\ sync'.at = sync.at
      /\ sync'.winners = sync.winners
      /\ which = "live" => /\ store' = [store EXCEPT ![sync.at].event = events]
                           /\ sync'.copy = sync.copy
      /\ which = "copy" => store' = store /\ sync'.copy = events
      /\ UNCHANGED <<flight, import, written, doing>>
  BY <1>1, PutDoes
<1>3. sync.pc # "idle" /\ sync'.pc # "idle"
  BY <1>2 DEF Following
<1>4. Seated'
  BY <1>1, <1>2, <1>3 DEF Seated
<1>5. /\ sync.at \in Machine /\ File(which) \in Copies /\ Written(File(which))
      /\ File("live") = store[sync.at].event /\ File("copy") = sync.copy
  BY <1>3, FileTable
<1>6. /\ Written(events)
      /\ \A e \in EventId : File(which)[e] # None => events[e] # None
  BY <1>1, <1>5, GainsRise
<1>7. CASE which = "live"
  <2> DEFINE m == sync.at
             t == [store[m] EXCEPT !.event = events]
  <2>1. store' = [store EXCEPT ![m] = t]
    BY <1>2, <1>7
  <2>2. Fit(t) /\ t.event = events
    <3>1. \A e \in EventId : events[e] # None /\ ~ events[e].deleted => events[e].line \in Line
      BY <1>6 DEF Written, SyncIInv, CopiesWorded
    <3>2. Fit(store[m])
      BY <1>5 DEF SyncIInv, Fits
    <3> QED BY <1>5, <1>6, <1>7, <3>1, <3>2, FitWithEvents
  <2> HIDE DEF t
  <2>3. TakesIn(m, t)
    BY <1>2, <1>5, <1>7, <2>1, <2>2 DEF TakesIn
  <2>4. /\ store' \in [Machine -> Store] /\ Fits'
        /\ \A n \in Machine : Written(store[n].event)'
        /\ StampNamesEvent' /\ CopiesWorded'
    BY <1>5, <2>3, TakesInKeeps
  <2>5. Held'
    BY <1>2, <1>7, <2>4 DEF SyncIInv, Held, Written
  <2>6. TypeOK'
    BY <1>1, <1>2, <2>4 DEF TypeOK, SessionRecord
  <2> QED BY <1>4, <1>5, <2>3, <2>4, <2>5, <2>6 DEF SyncIInv
<1>8. CASE which = "copy"
  <2>1. Held'
    BY <1>2, <1>6, <1>8 DEF SyncIInv, Held, Written
  <2>2. TypeOK'
    BY <1>1, <1>2, <1>8 DEF TypeOK, SessionRecord
  <2> QED BY <1>2, <1>4, <1>8, <2>1, <2>2 DEF SyncIInv, Fits, StampNamesEvent, CopiesWorded
<1> QED BY <1>7, <1>8

\* The tables the steps put, and what each is made of.
LEMMA TablesPut ==
  ASSUME SyncIInv, sync.pc # "idle", NEW which \in {"live", "copy"}, NEW other \in {"live", "copy"}
  PROVE  /\ KeepExisting(File(which), File(other)) \in Copies
         /\ Gains(File(which), KeepExisting(File(which), File(other)))
         /\ WriteWinners(File(which), sync.winners) \in Copies
         /\ Gains(File(which), WriteWinners(File(which), sync.winners))
         /\ OverwritePreserving(File(which), File(other)) \in Copies
         /\ Gains(File(which), OverwritePreserving(File(which), File(other)))
         /\ WriteWinners(File(which), File(other)) \in Copies
         /\ Gains(File(which), WriteWinners(File(which), File(other)))
<1>1. /\ File(which) \in Copies /\ Written(File(which))
      /\ File(other) \in Copies /\ Written(File(other))
  BY FileTable
<1>2. sync.winners \in Copies /\ Written(sync.winners)
  BY DEF SyncIInv, TypeOK, Held
<1> DEFINE a == File(which)
           b == File(other)
<1> HIDE DEF a, b
<1>3. a \in Copies /\ b \in Copies /\ Written(b)
  BY <1>1 DEF a, b
<1>4. KeepExisting(a, b) \in Copies /\ Gains(a, KeepExisting(a, b))
  BY <1>3, KeepExistingGains
<1>5. \A w \in Copies : Written(w) =>
        WriteWinners(a, w) \in Copies /\ Gains(a, WriteWinners(a, w))
  BY <1>3, MergedGains DEF WriteWinners
<1>6. OverwritePreserving(a, b) = WriteWinners(a, b)
  BY <1>3, OverwriteMerges DEF WriteWinners
<1> QED BY <1>2, <1>3, <1>4, <1>5, <1>6 DEF a, b

\* A merge of the two files, kept aside.
LEMMA ReadDoes ==
  ASSUME SyncIInv, Read
  PROVE  /\ SyncIInv' /\ UNCHANGED <<store, written>>
         /\ sync'.pc = "keep" /\ SameSession(sync, sync')
         /\ sync'.at = sync.at /\ sync'.first = sync.first
         /\ sync'.winners = Reconciled(File(sync.first), File(Second))
         /\ sync'.winners \in Copies
         /\ AllCovered(sync'.winners, File(sync.first))
         /\ AllCovered(sync'.winners, File(Second))
<1> DEFINE w == Reconciled(File(sync.first), File(Second))
           s == [sync EXCEPT !.winners = w]
<1>1. sync.pc = "read" /\ TypeOK /\ Seated /\ sync \in SessionRecord
  BY DEF Read, SyncIInv, TypeOK, SessionRecord
<1>2. /\ File(sync.first) \in Copies /\ Written(File(sync.first))
      /\ File(Second) \in Copies /\ Written(File(Second))
  BY <1>1, FileTable, TwoFiles
<1>3. /\ w \in Copies /\ Gains(File(sync.first), w)
      /\ AllCovered(w, File(sync.first)) /\ AllCovered(w, File(Second))
  BY <1>2, MergedGains DEF Reconciled
<1>4. Written(w)
  BY <1>1, <1>2, <1>3, GainsRise
<1>5. /\ s \in SessionRecord /\ s.pc = "read" /\ s.winners = w /\ s.copy = sync.copy
      /\ s.near = sync.near /\ s.far = sync.far /\ s.began = sync.began
      /\ s.quiet = sync.quiet /\ s.at = sync.at /\ s.first = sync.first
  BY <1>1, <1>3 DEF SessionRecord
<1>6. sync' \in After(s) /\ UNCHANGED <<store, flight, import, written, doing>>
  BY DEF Read
<1> HIDE DEF s, w
<1>7. /\ sync' \in SessionRecord /\ sync'.pc = "keep" /\ SameSession(sync, sync')
      /\ sync'.at = sync.at /\ sync'.first = sync.first /\ sync'.winners = w
  BY <1>5, <1>6, OnwardWithin DEF Following, SameSession
<1>8. TypeOK' /\ Seated' /\ Fits'
  BY <1>1, <1>6, <1>7 DEF SyncIInv, TypeOK, SessionRecord, Seated, SameSession, Fits
<1>9. Held' /\ StampNamesEvent' /\ CopiesWorded'
  BY <1>4, <1>6, <1>7 DEF SyncIInv, Held, Written, StampNamesEvent, CopiesWorded, SameSession
<1> QED BY <1>3, <1>6, <1>7, <1>8, <1>9 DEF SyncIInv, w

\* The machine applies what won, and the session goes on to the other machine or ends.
LEMMA ApplyDoes ==
  ASSUME SyncIInv, Apply
  PROVE  /\ SyncIInv' /\ sync.pc = "apply" /\ SameSession(sync, sync')
         /\ sync.at = sync.near => sync'.pc = "read" /\ sync'.at = sync.far
         /\ sync.at # sync.near => sync'.pc = "done" /\ sync'.at = sync.at
         /\ TakesIn(sync.at, ApplyWinners(store[sync.at]))
         /\ sync.at \in Machine
         /\ ApplyWinners(store[sync.at]).event = store[sync.at].event
         /\ \A e \in Known(store[sync.at]) : Applied(ApplyWinners(store[sync.at]), e)
<1> DEFINE m == sync.at
           t == ApplyWinners(store[m])
<1>1. sync.pc = "apply" /\ TypeOK /\ Seated /\ sync \in SessionRecord
  BY DEF Apply, SyncIInv, TypeOK, SessionRecord
<1>2. m \in Machine /\ Fit(store[m])
  BY <1>1 DEF Seated, SyncIInv, Fits
<1>3. Fit(t) /\ t.event = store[m].event /\ \A e \in Known(store[m]) : Applied(t, e)
  BY <1>2, ApplyWinnersApplies
<1>4. /\ store' = [store EXCEPT ![m] = t] /\ sync' \in After(sync)
      /\ UNCHANGED <<flight, import, written, doing>>
  BY DEF Apply
<1> HIDE DEF t
<1>5. TakesIn(m, t)
  BY <1>3, <1>4 DEF TakesIn, Gains
<1>6. /\ sync' \in SessionRecord /\ SameSession(sync, sync')
      /\ sync.at = sync.near => sync'.pc = "read" /\ sync'.at = sync.far
      /\ sync.at # sync.near => sync'.pc = "done" /\ sync'.at = sync.at
      /\ sync'.winners = Nothing
  BY <1>1, <1>4, OnwardFromApply
<1>7. /\ store' \in [Machine -> Store] /\ Fits'
      /\ \A n \in Machine : Written(store[n].event)'
      /\ StampNamesEvent' /\ CopiesWorded'
  BY <1>2, <1>5, TakesInKeeps
<1>8. Seated'
  BY <1>1, <1>6 DEF Seated, SameSession
<1>9. TypeOK'
  BY <1>1, <1>4, <1>6, <1>7 DEF TypeOK, SessionRecord
<1>10. Held'
  BY <1>4, <1>6, <1>7 DEF SyncIInv, Held, Written, SameSession, Nothing
<1> QED BY <1>1, <1>2, <1>3, <1>5, <1>6, <1>7, <1>8, <1>9, <1>10 DEF SyncIInv, t

\* Beginning, ending and breaking off a session move no table but the copy.
LEMMA SessionTurns ==
  ASSUME SyncIInv,
         (\E near, far \in Machine : Begin(near, far)) \/ End \/ Abort
  PROVE  SyncIInv' /\ UNCHANGED <<store, written>>
<1>1. Nothing \in Copies /\ Written(Nothing) /\ NoSession \in SessionRecord
  BY DEF Nothing, Copies, Written, NoSession, SessionRecord
<1>2. UNCHANGED <<store, flight, import, written, doing>>
  BY DEF Begin, End, Abort
<1>3. sync' \in SessionRecord /\ Seated' /\ Written(sync'.copy) /\ Written(sync'.winners)
  <2>1. CASE End \/ Abort
    <3>1. sync' = NoSession
      BY <2>1 DEF End, Abort
    <3>2. NoSession.pc = "idle" /\ NoSession.copy = Nothing /\ NoSession.winners = Nothing
      BY DEF NoSession
    <3> QED BY <1>1, <3>1, <3>2 DEF Seated
  <2>2. CASE \E near, far \in Machine : Begin(near, far)
    <3>1. PICK near, far \in Machine : Begin(near, far)
      BY <2>2
    <3>2. PICK first \in {"live", "copy"} :
            sync' = [NoSession EXCEPT !.pc = "read", !.at = near, !.near = near, !.far = far,
                                 !.first = first, !.copy = store[far].event,
                                 !.began = [e \in EventId |->
                                   {store[near].event[e], store[far].event[e]} \ {None}]]
      BY <3>1 DEF Begin
    <3>3. near # far
      BY <3>1 DEF Begin
    <3> DEFINE began == [e \in EventId |->
                                   {store[near].event[e], store[far].event[e]} \ {None}]
    <3>4. store[near].event \in Copies /\ store[far].event \in Copies
      BY StoreTable DEF SyncIInv
    <3>5. began \in [EventId -> SUBSET Event]
      BY <3>4 DEF Copies
    <3>6. "read" \in ToSet(Steps)
      BY StepNames
    <3>7. sync' = [pc |-> "read", at |-> near, near |-> near, far |-> far, first |-> first,
                   copy |-> store[far].event, winners |-> Nothing, began |-> began,
                   quiet |-> TRUE]
      BY <3>2 DEF NoSession
    <3> HIDE DEF began
    <3>8. sync' \in SessionRecord
      BY <1>1, <3>4, <3>5, <3>6, <3>7 DEF SessionRecord
    <3> QED BY <1>1, <3>3, <3>7, <3>8 DEF Seated, SyncIInv, Held
  <2> QED BY <2>1, <2>2
<1>4. Held'
  BY <1>2, <1>3 DEF SyncIInv, Held, Written
<1>5. TypeOK'
  BY <1>2, <1>3 DEF SyncIInv, TypeOK, SessionRecord
<1> QED BY <1>2, <1>3, <1>4, <1>5 DEF SyncIInv, Fits, StampNamesEvent, CopiesWorded

\* An edit adds, for each event it changes, one copy under a stamp of its own.
LEMMA AuthoredCopy ==
  ASSUME SyncIInv, NEW m \in Machine, NEW tie \in Tie, NEW t, AuthorsAt(m, tie, t),
         NEW e \in EventId, t.event[e] # store[m].event[e]
  PROVE  /\ t.event[e] \in Event
         /\ t.event[e].revision = NextRevision(m, e)
         /\ \A w \in written[e] : Mark(w) # Mark(t.event[e])
<1>1. /\ t.event[e] \in Event /\ t.event[e].tie = tie
      /\ t.event[e].revision = NextRevision(m, e)
  BY DEF AuthorsAt, Edits, Authors, NextRevision
<1>2. e \in New(store[m], t) /\ Drawn(m, tie, t)
  BY DEF New, AuthorsAt, Edit
<1>3. \A w \in written[e] :
        w.revision = NextRevision(m, e) /\ w.deleted = t.event[e].deleted => w.tie # tie
  BY <1>2 DEF Drawn
<1> QED BY <1>1, <1>3 DEF Mark

\* An edit keeps the invariant, whatever session it runs beside.
LEMMA EditStep ==
  ASSUME SyncIInv, NEW m \in Machine, NEW tie \in Tie, NEW t, AuthorsAt(m, tie, t),
         flight' \in [Machine -> LocalId \cup {None}]
  PROVE  SyncIInv'
<1>1. /\ store' = [store EXCEPT ![m] = t] /\ Fit(t) /\ t \in Store /\ t.event \in Copies
      /\ written' = [e \in EventId |-> IF e \in New(store[m], t)
                                       THEN written[e] \cup {t.event[e]} ELSE written[e]]
      /\ sync' = [sync EXCEPT !.quiet = sync.pc = "idle"]
      /\ UNCHANGED <<import, doing>>
  BY DEF AuthorsAt, Edits, Edit, Fit, Sound, Store, Copies
<1>2. /\ \A n \in Machine \ {m} : store'[n] = store[n]
      /\ store'[m] = t /\ store' \in [Machine -> Store]
  BY <1>1 DEF SyncIInv, TypeOK
<1>3. \A e \in EventId : t.event[e] # store[m].event[e] =>
        /\ t.event[e] \in Event /\ written'[e] = written[e] \cup {t.event[e]}
        /\ \A w \in written[e] : Mark(w) # Mark(t.event[e])
  BY <1>1, AuthoredCopy DEF New
<1>4. \A e \in EventId : t.event[e] = store[m].event[e] => written'[e] = written[e]
  BY <1>1 DEF New
<1>5. \A e \in EventId : written[e] \subseteq written'[e]
  BY <1>3, <1>4
<1>6. \A e \in EventId : written[e] \subseteq Event
  BY DEF SyncIInv, TypeOK
<1>7. written' \in [EventId -> SUBSET Event]
  <2>1. \A e \in EventId : written'[e] \subseteq Event
    BY <1>3, <1>4, <1>6
  <2> QED BY <1>1, <2>1
<1>8. /\ sync' \in SessionRecord
      /\ sync'.pc = sync.pc /\ sync'.at = sync.at /\ sync'.near = sync.near
      /\ sync'.far = sync.far /\ sync'.copy = sync.copy /\ sync'.winners = sync.winners
  <2>1. sync \in SessionRecord
    BY DEF SyncIInv, TypeOK, SessionRecord
  <2> QED BY <1>1, <2>1 DEF SessionRecord
<1>9. TypeOK'
  BY <1>1, <1>2, <1>7, <1>8 DEF SyncIInv, TypeOK, SessionRecord
<1>10. Seated' /\ Fits'
  BY <1>1, <1>2, <1>8 DEF SyncIInv, Seated, Fits
<1>11. Written(t.event)'
  <2> SUFFICES ASSUME NEW e \in EventId, t.event[e] # None
               PROVE  t.event[e] \in written'[e]
    BY DEF Written
  <2>1. CASE t.event[e] = store[m].event[e]
    BY <1>5, <2>1 DEF SyncIInv, Held, Written
  <2>2. CASE t.event[e] # store[m].event[e]
    BY <1>3, <2>2
  <2> QED BY <2>1, <2>2
<1>12. Held'
  <2>1. \A n \in Machine : Written(store[n].event)'
    <3> TAKE n \in Machine
    <3>1. CASE n = m
      BY <1>2, <1>11, <3>1 DEF Written
    <3>2. CASE n # m
      BY <1>2, <1>5, <3>2 DEF SyncIInv, Held, Written
    <3> QED BY <3>1, <3>2
  <2>2. Written(sync.copy)' /\ Written(sync.winners)'
    BY <1>5, <1>8 DEF SyncIInv, Held, Written
  <2>3. \A n \in Machine : import[n] # None => import[n].id \in EventId
    BY DEF SyncIInv, TypeOK
  <2>4. \A n \in Machine : import'[n] # None => import'[n].copy \in written'[import'[n].id]
    BY <1>1, <1>5, <2>3 DEF SyncIInv, Held
  <2> QED BY <2>1, <2>2, <2>4 DEF Held
<1>13. StampNamesEvent'
  <2> SUFFICES ASSUME NEW e \in EventId, NEW a \in written'[e], NEW b \in written'[e],
                      Mark(a) = Mark(b)
               PROVE  a = b
    BY DEF StampNamesEvent
  <2>1. CASE t.event[e] = store[m].event[e]
    BY <1>4, <2>1 DEF SyncIInv, StampNamesEvent
  <2>2. CASE t.event[e] # store[m].event[e]
    <3>1. \A w \in written[e] : Mark(w) # Mark(t.event[e])
      BY <1>3, <2>2
    <3>2. a \in written[e] \/ a = t.event[e]
      BY <1>3, <2>2
    <3>3. b \in written[e] \/ b = t.event[e]
      BY <1>3, <2>2
    <3> QED BY <3>1, <3>2, <3>3 DEF SyncIInv, StampNamesEvent
  <2> QED BY <2>1, <2>2
<1>14. CopiesWorded'
  <2> SUFFICES ASSUME NEW e \in EventId, NEW a \in written'[e], ~ a.deleted
               PROVE  a.line \in Line
    BY DEF CopiesWorded
  <2>1. CASE a \in written[e]
    BY <2>1 DEF SyncIInv, CopiesWorded
  <2>2. CASE a \notin written[e]
    <3>1. a = t.event[e] /\ t.event[e] \in Event
      BY <1>3, <1>4, <2>2
    <3> QED BY <1>1, <3>1, MarkOfEvent DEF Fit, Worded
  <2> QED BY <2>1, <2>2
<1> QED BY <1>9, <1>10, <1>12, <1>13, <1>14 DEF SyncIInv

\* What a machine does by itself is an edit.
LEMMA LocalEdits ==
  ASSUME SyncIInv, NEW m \in Machine, Local(m)
  PROVE  /\ \E tie \in Tie : \E t : AuthorsAt(m, tie, t)
         /\ flight' \in [Machine -> LocalId \cup {None}]
<1>1. Fit(store[m]) /\ flight \in [Machine -> LocalId \cup {None}]
  BY DEF SyncIInv, Fits, TypeOK
<1>2. ASSUME NEW line \in Line, Enter(m, line)
      PROVE  /\ \E tie \in Tie : \E t : AuthorsAt(m, tie, t)
             /\ flight' \in [Machine -> LocalId \cup {None}]
  <2>1. PICK e \in EventId, tie \in Tie :
          /\ written[e] = {}
          /\ Edit(m, tie, AppendEntry(store[m], e, line, Tied(tie)))
    BY <1>2 DEF Enter
  <2>2. store[m].event[e] = None
    BY <2>1 DEF SyncIInv, Held, Written
  <2>3. NextId(store[m]) \in LocalId /\ flight' = [flight EXCEPT ![m] = NextId(store[m])]
    BY <1>2 DEF Enter
  <2>4. Edits(store[m], AppendEntry(store[m], e, line, Tied(tie)), tie)
    BY <1>1, <2>2, <2>3, AppendEntryEdits
  <2> QED BY <1>1, <2>1, <2>3, <2>4 DEF AuthorsAt
<1>3. ASSUME NEW line \in Line, Rewrite(m, line)
      PROVE  /\ \E tie \in Tie : \E t : AuthorsAt(m, tie, t)
             /\ flight' \in [Machine -> LocalId \cup {None}]
  <2>1. PICK tie \in Tie : Edit(m, tie, RewriteLine(store[m], flight[m], line, Tied(tie)))
    BY <1>3 DEF Rewrite
  <2>2. flight[m] \in LocalId /\ flight' = flight
    BY <1>1, <1>3 DEF Rewrite
  <2> DEFINE t == RewriteLine(store[m], flight[m], line, Tied(tie))
  <2>3. t # None
    BY <2>1 DEF Edit
  <2>4. Edits(store[m], t, tie)
    BY <1>1, <2>2, <2>3, RewriteLineEdits
  <2> QED BY <1>1, <2>1, <2>2, <2>4 DEF AuthorsAt
<1>4. ASSUME Finish(m)
      PROVE  /\ \E tie \in Tie : \E t : AuthorsAt(m, tie, t)
             /\ flight' \in [Machine -> LocalId \cup {None}]
  <2>1. PICK status \in Status, dir \in Dir, tie \in Tie :
          Edit(m, tie, WriteOutcomes(store[m], flight[m],
                                     [status |-> status, dir |-> dir], Tied(tie)))
    BY <1>4 DEF Finish
  <2>2. flight[m] \in LocalId /\ flight' = [flight EXCEPT ![m] = None]
    BY <1>1, <1>4 DEF Finish
  <2> DEFINE done == [status |-> status, dir |-> dir]
             t == WriteOutcomes(store[m], flight[m], done, Tied(tie))
  <2>3. t # None /\ done \in Done
    BY <2>1 DEF Edit, Done
  <2> HIDE DEF done
  <2>4. Edits(store[m], t, tie)
    BY <1>1, <2>2, <2>3, WriteOutcomesEdits
  <2> QED BY <1>1, <2>1, <2>2, <2>4 DEF AuthorsAt, done
<1>5. ASSUME NEW e \in EventId, Delete(m, e)
      PROVE  /\ \E tie \in Tie : \E t : AuthorsAt(m, tie, t)
             /\ flight' \in [Machine -> LocalId \cup {None}]
  <2>1. PICK tie \in Tie : Edit(m, tie, DeleteEvents(store[m], {e}, Tied(tie)))
    BY <1>5 DEF Delete
  <2>2. store[m].event[e] # None /\ ~ store[m].event[e].deleted /\ flight' = flight
    BY <1>5 DEF Delete, Known
  <2> DEFINE t == DeleteEvents(store[m], {e}, Tied(tie))
  <2>3. t # None
    BY <2>1 DEF Edit
  <2>4. Edits(store[m], t, tie)
    BY <1>1, <2>2, <2>3, DeleteEventsEdits
  <2> QED BY <1>1, <2>1, <2>2, <2>4 DEF AuthorsAt
<1>6. ASSUME Retire(m)
      PROVE  /\ \E tie \in Tie : \E t : AuthorsAt(m, tie, t)
             /\ flight' \in [Machine -> LocalId \cup {None}]
  <2> DEFINE i == Min(Rows(store[m]))
             t == DropHistory(DropOutcomes(HideLocals(store[m], {i}), {i}), {i})
  <2>1. PICK tie \in Tie : Edit(m, tie, t)
    BY <1>6 DEF Retire
  <2>2. Rows(store[m]) # {} /\ flight' = flight
    BY <1>6 DEF Retire
  <2>3. i \in Rows(store[m])
    <3>1. Rows(store[m]) \in SUBSET LocalId
      BY DEF Rows
    <3> QED BY <2>2, <3>1, OldestIsOne
  <2>4. Edits(store[m], t, tie)
    <3> HIDE DEF i
    <3> QED BY <1>1, <2>3, RetireEdits
  <2> QED BY <1>1, <2>1, <2>2, <2>4 DEF AuthorsAt
<1> QED BY <1>2, <1>3, <1>4, <1>5, <1>6 DEF Local

-----------------------------------------------------------------------------
(***************************************************************************)
(* Imports.  What an import decided to write is a copy somebody wrote; it  *)
(* still wins when it is written, if nothing has changed the event since.  *)
(***************************************************************************)
ImportInTime(m) ==
  ImportWrite(m) => Merged(store[m].event[import[m].id], import[m].copy) = import[m].copy

ImportsInTime == [][\A m \in Machine : ImportInTime(m)]_vars

\* What is written is chosen among the copies there are.
LEMMA ImportReadStep ==
  ASSUME SyncIInv, NEW m \in Machine, ImportRead(m)
  PROVE  SyncIInv' /\ UNCHANGED <<store, written, sync>>
<1>1. PICK e \in EventId : \E copy \in written[e] :
        import' = [import EXCEPT ![m] = [id |-> e, copy |-> copy]]
  BY DEF ImportRead
<1>2. PICK copy \in written[e] : import' = [import EXCEPT ![m] = [id |-> e, copy |-> copy]]
  BY <1>1
<1>3. UNCHANGED <<store, flight, sync, written, doing>>
  BY DEF ImportRead
<1>4. copy \in Event
  BY DEF SyncIInv, TypeOK
<1>5. TypeOK'
  BY <1>2, <1>3, <1>4 DEF SyncIInv, TypeOK
<1>6. Held'
  <2>1. \A n \in Machine : import'[n] # None => import'[n].copy \in written[import'[n].id]
    BY <1>2 DEF SyncIInv, TypeOK, Held
  <2> QED BY <1>3, <2>1 DEF SyncIInv, Held, Written
<1> QED BY <1>3, <1>5, <1>6 DEF SyncIInv, Seated, Fits, StampNamesEvent, CopiesWorded

\* An import writes and applies its copy.
LEMMA ImportWriteStep ==
  ASSUME SyncIInv, NEW m \in Machine, ImportWrite(m)
  PROVE  /\ SyncIInv'
         /\ ImportInTime(m) => \E t : TakesIn(m, t)
<1> DEFINE e == import[m].id
           copy == import[m].copy
           s == store[m]
           u == [s EXCEPT !.event[e] = copy]
           t == ApplyEvent(u, e)
           table == [s.event EXCEPT ![e] = copy]
<1>1. /\ e \in EventId /\ copy \in Event /\ copy \in written[e]
      /\ Fit(s) /\ s.event \in Copies /\ Written(s.event)
  BY StoreTable DEF ImportWrite, SyncIInv, TypeOK, Held, Fits
<1>2. /\ store' = [store EXCEPT ![m] = t]
      /\ import' = [import EXCEPT ![m] = None]
      /\ sync' = [sync EXCEPT !.quiet = sync.pc = "idle"]
      /\ UNCHANGED <<flight, written, doing>>
  BY DEF ImportWrite
<1>3. table \in Copies /\ \A f \in EventId : s.event[f] # None => table[f] # None
  BY <1>1, MarkOfEvent DEF Copies
<1>4. Written(table)
  BY <1>1 DEF Written, Copies
<1>5. \A f \in EventId : table[f] # None /\ ~ table[f].deleted => table[f].line \in Line
  BY <1>4 DEF Written, SyncIInv, CopiesWorded
<1>6. u = [s EXCEPT !.event = table]
  OBVIOUS
<1> HIDE DEF s, u, e, copy
<1>7. Fit(u) /\ u.event = table
  <2> HIDE DEF table
  <2> QED BY <1>1, <1>3, <1>5, <1>6, FitWithEvents
<1>8. u.event[e] # None
  BY <1>1, <1>7, MarkOfEvent DEF Copies
<1>9. Fit(t) /\ t.event = table
  BY <1>1, <1>7, <1>8, ApplyEventApplies DEF AppliedTo
<1> HIDE DEF t
<1>10. /\ \A n \in Machine \ {m} : store'[n] = store[n]
       /\ store'[m] = t /\ store' \in [Machine -> Store]
  BY <1>2, <1>9 DEF SyncIInv, TypeOK, Fit, Sound
<1>11. sync' \in SessionRecord
       /\ sync'.pc = sync.pc /\ sync'.at = sync.at /\ sync'.near = sync.near
       /\ sync'.far = sync.far /\ sync'.copy = sync.copy /\ sync'.winners = sync.winners
  <2>1. sync \in SessionRecord
    BY DEF SyncIInv, TypeOK, SessionRecord
  <2> QED BY <1>2, <2>1 DEF SessionRecord
<1>12. TypeOK'
  BY <1>2, <1>10, <1>11 DEF SyncIInv, TypeOK, SessionRecord
<1>13. Seated' /\ Fits'
  BY <1>9, <1>10, <1>11 DEF SyncIInv, Seated, Fits
<1>14. Held'
  <2>1. \A n \in Machine : Written(store[n].event)'
    BY <1>2, <1>4, <1>9, <1>10 DEF Written, SyncIInv, Held
  <2>2. Written(sync.copy)' /\ Written(sync.winners)'
    BY <1>2, <1>11 DEF Written, SyncIInv, Held
  <2>3. \A n \in Machine : import'[n] # None => import'[n].copy \in written[import'[n].id]
    BY <1>2 DEF SyncIInv, TypeOK, Held
  <2> QED BY <1>2, <2>1, <2>2, <2>3 DEF Held
<1>15. ASSUME Merged(store[m].event[import[m].id], import[m].copy) = import[m].copy
       PROVE  TakesIn(m, t)
  <2>1. Gains(s.event, table)
    BY <1>1, <1>15 DEF Gains, Copies, s, e, copy
  <2> QED BY <1>2, <1>9, <2>1 DEF TakesIn, s
<1> QED BY <1>2, <1>12, <1>13, <1>14, <1>15
     DEF SyncIInv, StampNamesEvent, CopiesWorded, ImportInTime

-----------------------------------------------------------------------------
(***************************************************************************)
(* Every step keeps the invariant.                                         *)
(***************************************************************************)
\* A step of the session.
LEMMA SessionStep ==
  ASSUME SyncIInv, Session
  PROVE  /\ SyncIInv'
         /\ \/ \E m \in Machine : \E t : TakesIn(m, t)
            \/ UNCHANGED <<store, written>>
<1>1. sync.first \in {"live", "copy"} /\ Second \in {"live", "copy"}
  BY TwoFiles
<1>2. DOMAIN Following = {"read", "keep", "win", "overwrite", "back", "forth"}
  BY DEF Following
<1>3. CASE Read
  BY <1>3, ReadDoes
<1>4. CASE Keep
  BY <1>1, <1>2, <1>4, TablesPut, PutStep DEF Keep, Put
<1>5. CASE Win
  BY <1>1, <1>2, <1>5, TablesPut, PutStep DEF Win, Put
<1>6. CASE Overwrite
  BY <1>1, <1>2, <1>6, TablesPut, PutStep DEF Overwrite, Put
<1>7. CASE Back
  BY <1>1, <1>2, <1>7, TablesPut, PutStep DEF Back, Put
<1>8. CASE Forth
  BY <1>1, <1>2, <1>8, TablesPut, PutStep DEF Forth, Put
<1>9. CASE Apply
  BY <1>9, ApplyDoes
<1>10. CASE End
  BY <1>10, SessionTurns
<1> QED BY <1>3, <1>4, <1>5, <1>6, <1>7, <1>8, <1>9, <1>10 DEF Session

\* Any step.
LEMMA SyncStep ==
  ASSUME SyncIInv, [Next]_vars
  PROVE  SyncIInv'
<1>1. CASE UNCHANGED vars
  BY <1>1 DEF vars, SyncIInv, TypeOK, Seated, Fits, Held, Written, StampNamesEvent, CopiesWorded
<1>2. ASSUME NEW m \in Machine, Local(m) PROVE SyncIInv'
  BY <1>2, LocalEdits, EditStep
<1>3. ASSUME NEW m \in Machine, ImportRead(m) PROVE SyncIInv'
  BY <1>3, ImportReadStep
<1>4. ASSUME NEW m \in Machine, ImportWrite(m) PROVE SyncIInv'
  BY <1>4, ImportWriteStep
<1>5. CASE (\E near, far \in Machine : Begin(near, far)) \/ Abort
  BY <1>5, SessionTurns
<1>6. CASE Session
  BY <1>6, SessionStep
<1> QED BY <1>1, <1>2, <1>3, <1>4, <1>5, <1>6 DEF Next

\* What any step does to the stores, where imports are in time.
LEMMA StoreStep ==
  ASSUME SyncIInv, [Next]_vars, \A m \in Machine : ImportInTime(m)
  PROVE  \/ \E m \in Machine : \E tie \in Tie : \E t : AuthorsAt(m, tie, t)
         \/ \E m \in Machine : \E t : TakesIn(m, t)
         \/ UNCHANGED <<store, written>>
<1>1. CASE UNCHANGED vars
  BY <1>1 DEF vars
<1>2. ASSUME NEW m \in Machine, Local(m)
      PROVE  \E tie \in Tie : \E t : AuthorsAt(m, tie, t)
  BY <1>2, LocalEdits
<1>3. ASSUME NEW m \in Machine, ImportRead(m)
      PROVE  UNCHANGED <<store, written>>
  BY <1>3, ImportReadStep
<1>4. ASSUME NEW m \in Machine, ImportWrite(m)
      PROVE  \E t : TakesIn(m, t)
  BY <1>4, ImportWriteStep
<1>5. CASE (\E near, far \in Machine : Begin(near, far)) \/ Abort
  BY <1>5, SessionTurns
<1>6. CASE Session
  BY <1>6, SessionStep
<1> QED BY <1>1, <1>2, <1>3, <1>4, <1>5, <1>6 DEF Next

\* It holds of two empty databases and no session.
LEMMA SyncInit ==
  ASSUME Init
  PROVE  SyncIInv
<1>1. \A e \in EventId : EmptyStore.event[e] = None
  BY DEF EmptyStore
<1>2. Fit(EmptyStore) /\ EmptyStore \in Store
  BY EmptyStoreFits DEF Fit, Sound
<1>3. NoSession \in SessionRecord
  BY DEF NoSession, SessionRecord, Nothing, Copies
<1>4. /\ NoSession.pc = "idle" /\ NoSession.copy = Nothing /\ NoSession.winners = Nothing
  BY DEF NoSession
<1>5. TypeOK
  BY <1>2, <1>3 DEF Init, TypeOK, SessionRecord
<1>6. Held
  BY <1>1, <1>4 DEF Init, Held, Written, Nothing
<1> QED BY <1>2, <1>4, <1>5, <1>6
     DEF Init, SyncIInv, Seated, Fits, StampNamesEvent, CopiesWorded

\* And so of every state there is.
LEMMA SyncIInvHolds == Spec => []SyncIInv
<1>1. Init => SyncIInv
  BY SyncInit
<1>2. SyncIInv /\ [Next]_vars => SyncIInv'
  BY SyncStep
<1> QED BY <1>1, <1>2, PTL DEF Spec

(***************************************************************************)
(* Every reachable state is well typed: no step of a session, cut off      *)
(* anywhere, leaves a table with an entry that is not one.                 *)
(***************************************************************************)
THEOREM SyncTypeCorrect == Spec => []TypeOK
<1>1. SyncIInv => TypeOK
  BY DEF SyncIInv
<1> QED BY <1>1, SyncIInvHolds, PTL

(***************************************************************************)
(* Equal stamps are equal events, on every machine and in the copy that    *)
(* travels between them, whatever the machines do, sessions and imports    *)
(* racing: what apply_event and sync_files take for granted when they      *)
(* compare nothing but stamps.                                             *)
(***************************************************************************)
THEOREM SameStampSameEventHolds == Spec => []SameStampSameEvent
<1>1. SyncIInv => SameStampSameEvent
  <2> SUFFICES ASSUME SyncIInv, NEW e \in EventId,
                      NEW a \in ({store[m].event[e] : m \in Machine} \cup {sync.copy[e]}) \ {None},
                      NEW b \in ({store[m].event[e] : m \in Machine} \cup {sync.copy[e]}) \ {None},
                      Mark(a) = Mark(b)
               PROVE  a = b
    BY DEF SameStampSameEvent
  <2>1. a \in written[e] /\ b \in written[e]
    BY DEF SyncIInv, Held, Written
  <2> QED BY <2>1 DEF SyncIInv, StampNamesEvent
<1> QED BY <1>1, SyncIInvHolds, PTL

(***************************************************************************)
(* Where an import finds its event as it left it, no step makes a machine  *)
(* give up a copy for one that does not win over it (track/stamp.rs: a     *)
(* revision that only goes up).                                            *)
(***************************************************************************)
\* What a machine's table has after a step covers what it had.
LEMMA TablesRise ==
  ASSUME SyncIInv, [Next]_vars, \A m \in Machine : ImportInTime(m),
         NEW m \in Machine, NEW e \in EventId, store[m].event[e] # None
  PROVE  /\ store'[m].event[e] # None
         /\ store'[m].event[e] # store[m].event[e] =>
              WinsOver(store'[m].event[e], store[m].event[e])
<1>1. CASE UNCHANGED <<store, written>>
  BY <1>1
<1>2. ASSUME NEW n \in Machine, NEW t, TakesIn(n, t)
      PROVE  /\ store'[m].event[e] # None
             /\ store'[m].event[e] # store[m].event[e] =>
                  WinsOver(store'[m].event[e], store[m].event[e])
  <2>1. store'[n] = t /\ (m # n => store'[m] = store[m])
    BY <1>2 DEF TakesIn, SyncIInv, TypeOK
  <2>2. t.event \in Copies
    BY <1>2 DEF TakesIn, Fit, Sound, Store, Copies
  <2>3. CASE m = n
    BY <1>2, <2>1, <2>2, <2>3, StoreTable, GainsRise DEF TakesIn, SyncIInv, Held
  <2> QED BY <2>1, <2>3
<1>3. ASSUME NEW n \in Machine, NEW tie \in Tie, NEW t, AuthorsAt(n, tie, t)
      PROVE  /\ store'[m].event[e] # None
             /\ store'[m].event[e] # store[m].event[e] =>
                  WinsOver(store'[m].event[e], store[m].event[e])
  <2>1. store'[n] = t /\ (m # n => store'[m] = store[m])
    BY <1>3 DEF AuthorsAt, Edit, SyncIInv, TypeOK
  <2>2. CASE m = n /\ t.event[e] # store[m].event[e]
    <3>1. t.event[e] \in Event /\ t.event[e].revision = store[m].event[e].revision + 1
      BY <1>3, <2>2, AuthoredCopy DEF NextRevision
    <3>2. store[m].event[e] \in Event
      BY StoreTable, Entries DEF SyncIInv
    <3>3. t.event[e].revision > store[m].event[e].revision
      BY <3>1, <3>2, StampAssumption DEF Event, Revision
    <3> QED BY <2>1, <2>2, <3>1, <3>3, MarkOfEvent DEF WinsOver
  <2> QED BY <2>1, <2>2
<1> QED BY <1>1, <1>2, <1>3, StoreStep

\* Hence the property, of every behaviour whose imports are in time.
THEOREM StampOnlyRisesHolds == Spec /\ ImportsInTime => StampOnlyRises
<1>1. SyncIInv /\ [Next]_vars /\ [\A m \in Machine : ImportInTime(m)]_vars
        => [\A m \in Machine : \A e \in Known(store[m]) :
              store'[m].event[e] # store[m].event[e] =>
                WinsOver(store'[m].event[e], store[m].event[e])]_vars
  <2> SUFFICES ASSUME SyncIInv, Next, \A m \in Machine : ImportInTime(m),
                      NEW m \in Machine, NEW e \in Known(store[m]),
                      store'[m].event[e] # store[m].event[e]
               PROVE  WinsOver(store'[m].event[e], store[m].event[e])
    OBVIOUS
  <2> QED BY TablesRise DEF Known
<1> QED BY <1>1, SyncIInvHolds, PTL DEF Spec, ImportsInTime, StampOnlyRises

-----------------------------------------------------------------------------
(***************************************************************************)
(* Refinement.  A machine's table is its replica: an edit authors, and     *)
(* everything else a store goes through takes.                             *)
(***************************************************************************)
\* The replicas compare and merge as the machines do.
LEMMA SameOrder ==
  /\ Replicas!Revision = Revision
  /\ \A a : Replicas!Mark(a) = Mark(a)
  /\ \A a, b : Replicas!Merged(a, b) = Merged(a, b)
<1>1. Replicas!Revision = Revision /\ \A a : Replicas!Mark(a) = Mark(a)
  BY DEF Replicas!Revision, Revision, Replicas!Mark, Mark
<1>2. \A a, b : Replicas!WinsOver(a, b) <=> WinsOver(a, b)
  BY DEF Replicas!WinsOver, WinsOver
<1>3. \A a, b : Replicas!Preferred(a, b) = Preferred(a, b)
  BY <1>2 DEF Replicas!Preferred, Preferred
<1>4. \A a, b : Replicas!Merged(a, b) = Merged(a, b)
  BY <1>3 DEF Replicas!Merged, Merged
<1> QED BY <1>1, <1>4

\* A replica's copy of an event has its stamp, and is nothing when it is.
LEMMA CopyOfEvent ==
  ASSUME NEW ev \in Event
  PROVE  /\ CopyOf(ev) \in Replicas!Copy /\ CopyOf(ev) # None
         /\ CopyOf(ev) = [revision |-> ev.revision, deleted |-> ev.deleted, tie |-> ev.tie,
                          body |-> [line |-> ev.line, done |-> ev.done]]
         /\ Mark(CopyOf(ev)) = Mark(ev)
<1>1. CopyOf(ev) = [revision |-> ev.revision, deleted |-> ev.deleted, tie |-> ev.tie,
                    body |-> [line |-> ev.line, done |-> ev.done]]
  BY MarkOfEvent DEF CopyOf
<1>2. CopyOf(ev) \in Replicas!Copy
  BY <1>1, SameOrder DEF Event, Replicas!Copy
<1> QED BY <1>1, <1>2, ReplicasAssumption DEF Mark

\* Replicas merge their copies as the machines merge their events.
LEMMA CopiesMerge ==
  ASSUME NEW a \in Event \cup {None}, NEW b \in Event, Merged(a, b) = b, a # b
  PROVE  Merged(CopyOf(a), CopyOf(b)) = CopyOf(b)
<1>1. CopyOf(b) # None /\ b # None
  BY CopyOfEvent, MarkOfEvent
<1>2. CASE a = None
  BY <1>1, <1>2 DEF Merged, CopyOf
<1>3. CASE a \in Event
  <2>1. a # None /\ CopyOf(a) # None
    BY <1>3, CopyOfEvent, MarkOfEvent
  <2>2. WinsOver(b, a)
    BY <1>1, <2>1 DEF Merged, Preferred
  <2>3. WinsOver(Mark(CopyOf(b)), Mark(CopyOf(a)))
    BY <1>3, <2>2, CopyOfEvent, WinsOverMarks
  <2>4. WinsOver(CopyOf(b), CopyOf(a))
    BY <2>3, WinsOverMarks
  <2> QED BY <1>1, <2>1, <2>4 DEF Merged, Preferred
<1> QED BY <1>2, <1>3

\* The replicas as a step of the machines leaves them.
LEMMA ReplicasChange ==
  ASSUME SyncIInv, NEW m \in Machine, NEW t, store' = [store EXCEPT ![m] = t]
  PROVE  [n \in Machine |-> [e \in EventId |-> CopyOf(store'[n].event[e])]]
           = [[n \in Machine |-> [e \in EventId |-> CopyOf(store[n].event[e])]]
                EXCEPT ![m] = [e \in EventId |-> CopyOf(t.event[e])]]
<1>1. \A n \in Machine : store'[n] = IF n = m THEN t ELSE store[n]
  BY DEF SyncIInv, TypeOK
<1> DEFINE of(n) == [e \in EventId |-> CopyOf(store[n].event[e])]
           after(n) == [e \in EventId |-> CopyOf(store'[n].event[e])]
           new == [e \in EventId |-> CopyOf(t.event[e])]
<1>2. \A n \in Machine : after(n) = IF n = m THEN new ELSE of(n)
  BY <1>1
<1> HIDE DEF of, after, new
<1>3. [n \in Machine |-> after(n)] = [[n \in Machine |-> of(n)] EXCEPT ![m] = new]
  BY <1>2
<1> QED BY <1>3 DEF of, after, new

\* An edit authors the copies it changes.
LEMMA EditAuthors ==
  ASSUME SyncIInv, NEW m \in Machine, NEW tie \in Tie, NEW t, AuthorsAt(m, tie, t)
  PROVE  Replicas!Author(m)
<1> DEFINE copy == [n \in Machine |-> [e \in EventId |-> CopyOf(store[n].event[e])]]
           wrote == [e \in EventId |-> {CopyOf(w) : w \in written[e]}]
           ks == New(store[m], t)
           new == [e \in ks |-> CopyOf(t.event[e])]
<1>1. /\ store' = [store EXCEPT ![m] = t]
      /\ written' = [e \in EventId |-> IF e \in ks THEN written[e] \cup {t.event[e]}
                                       ELSE written[e]]
  BY DEF AuthorsAt, Edit
<1>2. ks \in SUBSET EventId /\ \A e \in EventId : e \notin ks => t.event[e] = store[m].event[e]
  BY DEF New
<1>3. ASSUME NEW e \in ks
      PROVE  CopyOf(t.event[e]) \in Replicas!Authored(m, e)
  <2>1. e \in EventId /\ t.event[e] # store[m].event[e]
    BY DEF New
  <2>2. /\ t.event[e] \in Event /\ t.event[e].revision = NextRevision(m, e)
        /\ \A w \in written[e] : Mark(w) # Mark(t.event[e])
    BY <2>1, AuthoredCopy
  <2>3. store[m].event[e] = None => ~ t.event[e].deleted
    BY <2>1 DEF AuthorsAt, Edits, Authors
  <2>4. store[m].event[e] \in Event \cup {None} /\ written[e] \subseteq Event
    BY <2>1, StoreTable, Entries DEF SyncIInv, TypeOK
  <2>5. copy[m][e] = CopyOf(store[m].event[e])
    BY <2>1
  <2>6. (copy[m][e] = None) <=> (store[m].event[e] = None)
    BY <2>4, <2>5, CopyOfEvent DEF CopyOf
  <2>7. Replicas!NextRevision(m, e) = NextRevision(m, e)
    <3>1. store[m].event[e] # None => copy[m][e].revision = store[m].event[e].revision
      BY <2>4, <2>5, CopyOfEvent
    <3> QED BY <2>6, <3>1 DEF Replicas!NextRevision, NextRevision
  <2>8. CopyOf(t.event[e]) \in Replicas!CopiesAt(m, e, NextRevision(m, e))
    <3>1. CopyOf(t.event[e]) =
            [revision |-> t.event[e].revision, deleted |-> t.event[e].deleted,
             tie |-> t.event[e].tie,
             body |-> [line |-> t.event[e].line, done |-> t.event[e].done]]
      BY <2>2, CopyOfEvent
    <3>2. /\ t.event[e].deleted \in BOOLEAN /\ t.event[e].tie \in Tie
          /\ t.event[e].line \in Line \cup {Blank} /\ t.event[e].done \in Done \cup {None}
      BY <2>2 DEF Event
    <3>3. t.event[e].deleted \in IF copy[m][e] = None THEN {FALSE} ELSE BOOLEAN
      BY <2>3, <2>6, <3>2
    <3> HIDE DEF copy
    <3> QED BY <2>2, <3>1, <3>2, <3>3 DEF Replicas!CopiesAt, copy
  <2>9. CopyOf(t.event[e]).revision <= RevisionLimit
    BY <2>2, CopyOfEvent, StampAssumption DEF Event, Revision
  <2>10. \A w \in wrote[e] : Mark(w) # Mark(CopyOf(t.event[e]))
    BY <2>1, <2>2, <2>4, CopyOfEvent
  <2>11. \A w \in wrote[e] : Replicas!Mark(w) # Replicas!Mark(CopyOf(t.event[e]))
    BY <2>10, SameOrder
  <2>12. wrote[e] = {CopyOf(w) : w \in written[e]}
    BY <2>1
  <2> QED BY <2>1, <2>7, <2>8, <2>9, <2>11, <2>12 DEF Replicas!Authored
<1>4. new \in [ks -> UNION {Replicas!Authored(m, e) : e \in ks}]
  BY <1>3
<1>5. copy' = [copy EXCEPT ![m] = [e \in EventId |-> IF e \in ks THEN new[e] ELSE copy[m][e]]]
  <2>1. [e \in EventId |-> CopyOf(t.event[e])]
          = [e \in EventId |-> IF e \in ks THEN new[e] ELSE copy[m][e]]
    BY <1>2
  <2>2. copy' = [copy EXCEPT ![m] = [e \in EventId |-> CopyOf(t.event[e])]]
    BY <1>1, ReplicasChange
  <2> HIDE DEF copy, new, ks
  <2> QED BY <2>1, <2>2
<1>6. wrote' = [e \in EventId |-> IF e \in ks THEN wrote[e] \cup {new[e]} ELSE wrote[e]]
  <2>1. \A e \in EventId : {CopyOf(w) : w \in written'[e]}
          = IF e \in ks THEN wrote[e] \cup {new[e]} ELSE wrote[e]
    <3> TAKE e \in EventId
    <3>1. CASE e \in ks
      <4>1. written'[e] = written[e] \cup {t.event[e]}
        BY <1>1, <3>1
      <4> QED BY <3>1, <4>1
    <3>2. CASE e \notin ks
      BY <1>1, <3>2
    <3> QED BY <3>1, <3>2
  <2> QED BY <2>1
<1> HIDE DEF ks, new
<1> QED BY <1>2, <1>3, <1>4, <1>5, <1>6 DEF Replicas!Author, new

\* Taking in written copies takes them.
LEMMA TakesInTakes ==
  ASSUME SyncIInv, NEW m \in Machine, NEW t, TakesIn(m, t)
  PROVE  Replicas!Take(m)
<1> DEFINE copy == [n \in Machine |-> [e \in EventId |-> CopyOf(store[n].event[e])]]
           wrote == [e \in EventId |-> {CopyOf(w) : w \in written[e]}]
           ks == {e \in EventId : t.event[e] # store[m].event[e]}
           got == [e \in ks |-> CopyOf(t.event[e])]
<1>1. store' = [store EXCEPT ![m] = t] /\ written' = written
  BY DEF TakesIn
<1>2. \A e \in ks : got[e] \in wrote[e]
  BY DEF TakesIn, Gains
<1>3. ks \in SUBSET EventId /\ got \in [ks -> UNION {wrote[e] : e \in EventId}]
  BY <1>2
<1>4. \A e \in ks : Merged(copy[m][e], got[e]) = CopyOf(t.event[e])
  <2> TAKE e \in ks
  <2>1. /\ t.event[e] \in written[e] /\ t.event[e] # store[m].event[e]
        /\ Merged(store[m].event[e], t.event[e]) = t.event[e]
    BY DEF TakesIn, Gains
  <2>2. t.event[e] \in Event /\ store[m].event[e] \in Event \cup {None}
    BY <2>1, StoreTable, Entries DEF SyncIInv, TypeOK
  <2> QED BY <2>1, <2>2, CopiesMerge
<1>5. copy' = [copy EXCEPT ![m] =
                 [e \in EventId |-> IF e \in ks THEN Merged(copy[m][e], got[e])
                                    ELSE copy[m][e]]]
  <2>1. [e \in EventId |-> CopyOf(t.event[e])]
          = [e \in EventId |-> IF e \in ks THEN Merged(copy[m][e], got[e]) ELSE copy[m][e]]
    BY <1>4
  <2>2. copy' = [copy EXCEPT ![m] = [e \in EventId |-> CopyOf(t.event[e])]]
    BY <1>1, ReplicasChange
  <2> HIDE DEF copy, got, ks
  <2> QED BY <2>1, <2>2
<1>6. wrote' = wrote
  BY <1>1
<1>7. copy' = [copy EXCEPT ![m] =
                 [e \in EventId |-> IF e \in ks THEN Replicas!Merged(copy[m][e], got[e])
                                    ELSE copy[m][e]]]
  BY <1>5, SameOrder
<1> HIDE DEF ks, got
<1> QED BY <1>2, <1>3, <1>6, <1>7 DEF Replicas!Take

(***************************************************************************)
(* Two machines that sync their history, with whatever shells type and     *)
(* sessions break off, implement StampedReplicas, where no import writes   *)
(* over a copy that has come in since it decided.                          *)
(***************************************************************************)
THEOREM SyncImplementsReplicas == Spec /\ ImportsInTime => ImplementsReplicas
<1>1. Init => Replicas!Init
  <2> SUFFICES ASSUME Init PROVE Replicas!Init
    OBVIOUS
  <2>1. \A m \in Machine : \A e \in EventId : store[m].event[e] = None
    BY DEF Init, EmptyStore
  <2>2. \A e \in EventId : written[e] = {}
    BY DEF Init
  <2> QED BY <2>1, <2>2 DEF Replicas!Init, CopyOf
<1>2. SyncIInv /\ [Next]_vars /\ [\A m \in Machine : ImportInTime(m)]_vars
        => [Replicas!Next]_(Replicas!vars)
  <2> SUFFICES ASSUME SyncIInv, [Next]_vars, [\A m \in Machine : ImportInTime(m)]_vars
               PROVE  [Replicas!Next]_(Replicas!vars)
    OBVIOUS
  <2>1. CASE UNCHANGED <<store, written>>
    BY <2>1 DEF Replicas!vars
  <2>2. CASE UNCHANGED vars
    BY <2>1, <2>2 DEF vars
  <2>3. CASE \A m \in Machine : ImportInTime(m)
    <3>1. ASSUME NEW m \in Machine, NEW tie \in Tie, NEW t, AuthorsAt(m, tie, t)
          PROVE  Replicas!Next
      BY <3>1, EditAuthors DEF Replicas!Next
    <3>2. ASSUME NEW m \in Machine, NEW t, TakesIn(m, t)
          PROVE  Replicas!Next
      BY <3>2, TakesInTakes DEF Replicas!Next
    <3> QED BY <2>1, <2>3, <3>1, <3>2, StoreStep
  <2> QED BY <2>2, <2>3
<1> QED BY <1>1, <1>2, SyncIInvHolds, PTL DEF Spec, ImportsInTime, ImplementsReplicas, Replicas!Spec

-----------------------------------------------------------------------------
(***************************************************************************)
(* What a session delivers.  From step to step there is always some table  *)
(* that covers everything either machine had when the session began: the   *)
(* two files between them, then the winners, the first file, both files,   *)
(* and from the far half on the near machine's own table.                  *)
(***************************************************************************)
Delivered(table) == \A e \in EventId : \A had \in sync.began[e] : Covers(table[e], had)

Carried(f, g) ==
  /\ sync.pc = "read" =>
       \A e \in EventId : \A had \in sync.began[e] :
         Covers(File(f)[e], had) \/ Covers(File(g)[e], had)
  /\ sync.pc \in {"keep", "win"} => Delivered(sync.winners)
  /\ sync.pc = "overwrite" => Delivered(File(f))
  /\ sync.pc \in {"back", "forth", "apply"} => Delivered(File(f)) /\ Delivered(File(g))
  /\ sync.pc = "done" \/ sync.at = sync.far => Delivered(store[sync.near].event)
  /\ sync.pc = "done" => Delivered(store[sync.far].event)

\* f is the file that comes first, g the other.
InOrder(f, g) == f \in {"live", "copy"} /\ g \in {"live", "copy"} /\ f = sync.first /\ g # f

Carries == sync.pc # "idle" => \A f, g \in {"live", "copy"} : InOrder(f, g) => Carried(f, g)

\* A step that puts a table leaves the other file, and the other machines, alone.
LEMMA PutFiles ==
  ASSUME SyncIInv, NEW pc \in DOMAIN Following, NEW which \in {"live", "copy"},
         NEW events \in Copies, Put(pc, which, events)
  PROVE  /\ sync.pc = pc /\ sync'.pc = Following[pc]
         /\ sync'.near = sync.near /\ sync'.far = sync.far /\ sync'.began = sync.began
         /\ sync'.quiet = sync.quiet /\ sync'.at = sync.at /\ sync'.first = sync.first
         /\ sync'.winners = sync.winners /\ sync.at \in Machine
         /\ \A w \in {"live", "copy"} : File(w)' = IF w = which THEN events ELSE File(w)
         /\ \A m \in Machine : m # sync.at => store'[m] = store[m]
<1>1. TypeOK /\ Seated
  BY DEF SyncIInv
<1>2. /\ sync.pc = pc /\ sync'.pc = Following[pc]
      /\ sync'.near = sync.near /\ sync'.far = sync.far /\ sync'.began = sync.began
      /\ sync'.quiet = sync.quiet /\ sync'.at = sync.at /\ sync'.first = sync.first
      /\ sync'.winners = sync.winners
      /\ which = "live" => /\ store' = [store EXCEPT ![sync.at].event = events]
                           /\ sync'.copy = sync.copy
      /\ which = "copy" => store' = store /\ sync'.copy = events
  BY <1>1, PutDoes
<1>3. sync.at \in Machine
  BY <1>1, <1>2 DEF Seated, Following
<1>4. store[sync.at] \in Store
  BY <1>3, StoreTable DEF SyncIInv
<1>5. which = "live" => store'[sync.at].event = events
  BY <1>1, <1>2, <1>3, <1>4 DEF TypeOK, Store
<1>6. \A m \in Machine : m # sync.at => store'[m] = store[m]
  BY <1>1, <1>2 DEF TypeOK
<1>7. \A w \in {"live", "copy"} : File(w)' = IF w = which THEN events ELSE File(w)
  BY <1>2, <1>5 DEF File
<1> QED BY <1>2, <1>3, <1>6, <1>7

\* The merges of a session: each keeps one of two copies, one that covers both.
LEMMA MergesCover ==
  ASSUME NEW a \in Copies, NEW b \in Copies, Written(b),
         NEW next, next \in {WriteWinners(a, b), OverwritePreserving(a, b), Reconciled(a, b)}
  PROVE  /\ next \in Copies /\ AllCovered(next, a) /\ AllCovered(next, b)
         /\ \A e \in EventId : next[e] \in {a[e], b[e]}
<1>1. next = [e \in EventId |-> Merged(a[e], b[e])]
  BY OverwriteMerges DEF WriteWinners, Reconciled
<1> QED BY <1>1, MergedGains

\* A table that covers another has what the other had delivered.
LEMMA DeliveredOver ==
  ASSUME SyncIInv, NEW a \in Copies, NEW b \in Copies, AllCovered(b, a), Delivered(a)
  PROVE  Delivered(b)
<1> SUFFICES ASSUME NEW e \in EventId, NEW had \in sync.began[e]
             PROVE  Covers(b[e], had)
  BY DEF Delivered
<1>1. had \in Event
  BY DEF SyncIInv, TypeOK
<1>2. Covers(b[e], a[e]) /\ Covers(a[e], had)
  BY DEF AllCovered, Delivered
<1>3. a[e] \in Event \cup {None} /\ b[e] \in Event \cup {None}
  BY Entries
<1> QED BY <1>1, <1>2, <1>3, CoversTransitive

\* A machine's table covers what it was a step ago.
LEMMA TablesCover ==
  ASSUME SyncIInv, [Next]_vars, \A m \in Machine : ImportInTime(m), SyncIInv',
         NEW m \in Machine
  PROVE  /\ store[m].event \in Copies /\ store'[m].event \in Copies
         /\ AllCovered(store'[m].event, store[m].event)
<1>1. store[m].event \in Copies
  BY StoreTable DEF SyncIInv
<1>2. store'[m].event \in Copies
  <2>1. Fit(store'[m])
    BY DEF SyncIInv, Fits
  <2> QED BY <2>1 DEF Fit, Sound, Store, Copies
<1>3. ASSUME NEW e \in EventId PROVE Covers(store'[m].event[e], store[m].event[e])
  <2>1. store[m].event[e] \in Event \cup {None} /\ store'[m].event[e] \in Event \cup {None}
    BY <1>1, <1>2, Entries
  <2>2. CASE store[m].event[e] = None
    BY <2>2 DEF Covers
  <2>3. CASE store[m].event[e] # None
    BY <2>1, <2>3, TablesRise, WinnerCovers
  <2> QED BY <2>2, <2>3
<1> QED BY <1>1, <1>2, <1>3 DEF AllCovered

\* A session that stays where it is, while the machines' tables rise.
StandsStill ==
  /\ sync'.pc = sync.pc /\ sync'.near = sync.near /\ sync'.far = sync.far
  /\ sync'.at = sync.at /\ sync'.first = sync.first /\ sync'.copy = sync.copy
  /\ sync'.winners = sync.winners /\ sync'.began = sync.began

\* Whatever the machines do beside a session, what it carries is still there.
LEMMA CarriesBeside ==
  ASSUME SyncIInv, [Next]_vars, \A m \in Machine : ImportInTime(m), SyncIInv',
         Carries, StandsStill
  PROVE  Carries'
<1> SUFFICES ASSUME sync.pc # "idle", NEW f \in {"live", "copy"}, NEW g \in {"live", "copy"},
                    InOrder(f, g)
             PROVE  Carried(f, g)'
  BY DEF Carries, StandsStill, InOrder
<1>1. Carried(f, g)
  BY DEF Carries
<1>2. sync.at \in Machine /\ sync.near \in Machine /\ sync.far \in Machine
  BY DEF SyncIInv, Seated
<1>3. \A w \in {"live", "copy"} : /\ File(w) \in Copies /\ File(w)' \in Copies
                                  /\ AllCovered(File(w)', File(w))
  <2> TAKE w \in {"live", "copy"}
  <2>1. CASE w = "live"
    BY <1>2, <2>1, TablesCover DEF File, StandsStill
  <2>2. CASE w # "live"
    <3>1. File(w) = sync.copy /\ File(w)' = sync.copy
      BY <2>2 DEF File, StandsStill
    <3>2. sync.copy \in Copies
      BY DEF SyncIInv, TypeOK
    <3> QED BY <3>1, <3>2, Entries DEF AllCovered
  <2> QED BY <2>1, <2>2
<1>4. \A w \in {"live", "copy"} : Delivered(File(w)) => Delivered(File(w))'
  <2> TAKE w \in {"live", "copy"}
  <2> HAVE Delivered(File(w))
  <2>1. Delivered(File(w)')
    BY <1>3, DeliveredOver
  <2> QED BY <2>1 DEF Delivered, StandsStill
<1>5. ASSUME NEW m \in Machine, Delivered(store[m].event)
      PROVE  Delivered(store'[m].event)
  BY <1>5, TablesCover, DeliveredOver
<1>6. ASSUME NEW e \in EventId, NEW had \in sync.began[e], NEW w \in {"live", "copy"},
             Covers(File(w)[e], had)
      PROVE  Covers(File(w)'[e], had)
  <2>1. had \in Event
    BY DEF SyncIInv, TypeOK
  <2>2. Covers(File(w)'[e], File(w)[e])
    BY <1>3 DEF AllCovered
  <2>3. File(w)[e] \in Event \cup {None} /\ File(w)'[e] \in Event \cup {None}
    BY <1>3, Entries
  <2> QED BY <1>6, <2>1, <2>2, <2>3, CoversTransitive
<1>7. sync'.pc = "read" =>
       \A e \in EventId : \A had \in sync'.began[e] :
         Covers(File(f)'[e], had) \/ Covers(File(g)'[e], had)
  BY <1>1, <1>6 DEF Carried, StandsStill
<1>8. sync'.pc \in {"keep", "win"} => Delivered(sync.winners)'
  BY <1>1 DEF Carried, StandsStill, Delivered
<1>9. /\ sync'.pc = "overwrite" => Delivered(File(f))'
      /\ sync'.pc \in {"back", "forth", "apply"} => Delivered(File(f))' /\ Delivered(File(g))'
  BY <1>1, <1>4 DEF Carried, StandsStill
<1>10. /\ sync'.pc = "done" \/ sync'.at = sync'.far => Delivered(store[sync.near].event)'
       /\ sync'.pc = "done" => Delivered(store[sync.far].event)'
  BY <1>1, <1>2, <1>5 DEF Carried, StandsStill, Delivered
<1> QED BY <1>7, <1>8, <1>9, <1>10 DEF Carried

\* The files before and after each step that puts a table in one of them.
LEMMA PutsWhat ==
  ASSUME SyncIInv, Keep \/ Win \/ Overwrite \/ Back \/ Forth,
         NEW f \in {"live", "copy"}, NEW g \in {"live", "copy"}, f = sync'.first, g # f
  PROVE  /\ InOrder(f, g) /\ sync.pc # "idle" /\ sync.pc # "done"
         /\ sync'.near = sync.near /\ sync'.far = sync.far /\ sync'.began = sync.began
         /\ sync'.quiet = sync.quiet /\ sync'.at = sync.at /\ sync'.winners = sync.winners
         /\ sync.at \in Machine /\ sync.near \in Machine /\ sync.far \in Machine
         /\ \A m \in Machine : m # sync.at => store'[m] = store[m]
         /\ \/ /\ sync.pc = "keep" /\ sync'.pc = "win"
               /\ File(f)' = KeepExisting(File(f), File(g)) /\ File(g)' = File(g)
            \/ /\ sync.pc = "win" /\ sync'.pc = "overwrite"
               /\ File(f)' = WriteWinners(File(f), sync.winners) /\ File(g)' = File(g)
            \/ /\ sync.pc = "overwrite" /\ sync'.pc = "back"
               /\ File(f)' = File(f) /\ File(g)' = OverwritePreserving(File(g), File(f))
            \/ /\ sync.pc = "back" /\ sync'.pc = "forth"
               /\ File(f)' = WriteWinners(File(f), File(g)) /\ File(g)' = File(g)
            \/ /\ sync.pc = "forth" /\ sync'.pc = "apply"
               /\ File(f)' = File(f) /\ File(g)' = WriteWinners(File(g), File(f))
<1>1. sync.pc \in {"keep", "win", "overwrite", "back", "forth"}
  BY DEF Keep, Win, Overwrite, Back, Forth, Put
<1>2. /\ sync.first \in {"live", "copy"} /\ Second \in {"live", "copy"} /\ Second # sync.first
  BY TwoFiles
<1>3. PICK p \in {"live", "copy"}, q \in {"live", "copy"} : p = sync.first /\ q = Second /\ p # q
  BY <1>2
<1>4. /\ KeepExisting(File(p), File(q)) \in Copies
      /\ WriteWinners(File(p), sync.winners) \in Copies
      /\ OverwritePreserving(File(q), File(p)) \in Copies
      /\ WriteWinners(File(p), File(q)) \in Copies
      /\ WriteWinners(File(q), File(p)) \in Copies
  BY <1>1, TablesPut
<1>5. sync.near \in Machine /\ sync.far \in Machine
  BY <1>1 DEF SyncIInv, Seated
<1>6. /\ {"keep", "win", "overwrite", "back", "forth"} \subseteq DOMAIN Following
      /\ Following["keep"] = "win" /\ Following["win"] = "overwrite"
      /\ Following["overwrite"] = "back" /\ Following["back"] = "forth"
      /\ Following["forth"] = "apply"
  BY DEF Following
<1> DEFINE Same == /\ sync'.near = sync.near /\ sync'.far = sync.far
                   /\ sync'.began = sync.began /\ sync'.quiet = sync.quiet
                   /\ sync'.at = sync.at /\ sync'.first = sync.first
                   /\ sync'.winners = sync.winners /\ sync.at \in Machine
                   /\ \A m \in Machine : m # sync.at => store'[m] = store[m]
<1>7. Same /\
      (\/ /\ sync.pc = "keep" /\ sync'.pc = "win"
          /\ File(p)' = KeepExisting(File(p), File(q)) /\ File(q)' = File(q)
       \/ /\ sync.pc = "win" /\ sync'.pc = "overwrite"
          /\ File(p)' = WriteWinners(File(p), sync.winners) /\ File(q)' = File(q)
       \/ /\ sync.pc = "overwrite" /\ sync'.pc = "back"
          /\ File(p)' = File(p) /\ File(q)' = OverwritePreserving(File(q), File(p))
       \/ /\ sync.pc = "back" /\ sync'.pc = "forth"
          /\ File(p)' = WriteWinners(File(p), File(q)) /\ File(q)' = File(q)
       \/ /\ sync.pc = "forth" /\ sync'.pc = "apply"
          /\ File(p)' = File(p) /\ File(q)' = WriteWinners(File(q), File(p)))
  <2>1. CASE Keep
    BY <1>3, <1>4, <1>6, <2>1, PutFiles DEF Keep
  <2>2. CASE Win
    BY <1>3, <1>4, <1>6, <2>2, PutFiles DEF Win
  <2>3. CASE Overwrite
    BY <1>3, <1>4, <1>6, <2>3, PutFiles DEF Overwrite
  <2>4. CASE Back
    BY <1>3, <1>4, <1>6, <2>4, PutFiles DEF Back
  <2>5. CASE Forth
    BY <1>3, <1>4, <1>6, <2>5, PutFiles DEF Forth
  <2> QED BY <2>1, <2>2, <2>3, <2>4, <2>5
<1>8. f = p /\ g = q
  BY <1>3, <1>7
<1> QED BY <1>1, <1>3, <1>5, <1>7, <1>8 DEF InOrder

\* A step that puts a table carries on.
LEMMA CarriesPut ==
  ASSUME SyncIInv, [Next]_vars, \A m \in Machine : ImportInTime(m), SyncIInv', Carries,
         Keep \/ Win \/ Overwrite \/ Back \/ Forth
  PROVE  Carries'
<1> SUFFICES ASSUME NEW f \in {"live", "copy"}, NEW g \in {"live", "copy"},
                    f = sync'.first, g # f
             PROVE  Carried(f, g)'
  BY DEF Carries, InOrder
<1> DEFINE a == File(f)
           b == File(g)
           w == sync.winners
<1>1. /\ InOrder(f, g) /\ sync.pc # "idle" /\ sync.pc # "done"
      /\ sync'.near = sync.near /\ sync'.far = sync.far /\ sync'.began = sync.began
      /\ sync'.at = sync.at /\ sync'.winners = sync.winners
      /\ sync.near \in Machine
  BY PutsWhat
<1>2. \/ /\ sync.pc = "keep" /\ sync'.pc = "win"
      \/ /\ sync.pc = "win" /\ sync'.pc = "overwrite"
         /\ File(f)' = WriteWinners(a, w)
      \/ /\ sync.pc = "overwrite" /\ sync'.pc = "back"
         /\ File(f)' = a /\ File(g)' = OverwritePreserving(b, a)
      \/ /\ sync.pc = "back" /\ sync'.pc = "forth"
         /\ File(f)' = WriteWinners(a, b) /\ File(g)' = b
      \/ /\ sync.pc = "forth" /\ sync'.pc = "apply"
         /\ File(f)' = a /\ File(g)' = WriteWinners(b, a)
  BY PutsWhat
<1>3. /\ a \in Copies /\ Written(a) /\ b \in Copies /\ Written(b)
      /\ w \in Copies /\ Written(w)
  BY <1>1, FileTable DEF SyncIInv, TypeOK, Held
<1>4. Carried(f, g)
  BY <1>1 DEF Carries
<1>5. sync.at = sync.far => Delivered(store[sync.near].event)'
  <2> SUFFICES ASSUME sync.at = sync.far PROVE Delivered(store[sync.near].event)'
    OBVIOUS
  <2>1. Delivered(store[sync.near].event)
    BY <1>4 DEF Carried
  <2>2. Delivered(store'[sync.near].event)
    BY <1>1, <2>1, TablesCover, DeliveredOver
  <2> QED BY <1>1, <2>2 DEF Delivered
<1> HIDE DEF a, b, w
<1>6. CASE sync.pc = "keep"
  <2>1. Delivered(w)'
    BY <1>1, <1>4, <1>6 DEF Carried, Delivered, w
  <2> QED BY <1>1, <1>2, <1>5, <1>6, <2>1 DEF Carried, w
<1>7. CASE sync.pc = "win"
  <2>1. WriteWinners(a, w) \in Copies /\ AllCovered(WriteWinners(a, w), w)
    BY <1>3, MergesCover
  <2>2. Delivered(WriteWinners(a, w))
    BY <1>3, <1>4, <1>7, <2>1, DeliveredOver DEF Carried, w
  <2>3. Delivered(File(f))'
    BY <1>1, <1>2, <1>7, <2>2 DEF Delivered
  <2> QED BY <1>1, <1>2, <1>5, <1>7, <2>3 DEF Carried
<1>8. CASE sync.pc = "overwrite"
  <2>1. OverwritePreserving(b, a) \in Copies /\ AllCovered(OverwritePreserving(b, a), a)
    BY <1>3, MergesCover
  <2>2. Delivered(a) /\ Delivered(OverwritePreserving(b, a))
    BY <1>3, <1>4, <1>8, <2>1, DeliveredOver DEF Carried, a
  <2>3. Delivered(File(f))' /\ Delivered(File(g))'
    BY <1>1, <1>2, <1>8, <2>2 DEF Delivered
  <2> QED BY <1>1, <1>2, <1>5, <1>8, <2>3 DEF Carried
<1>9. CASE sync.pc = "back"
  <2>1. WriteWinners(a, b) \in Copies /\ AllCovered(WriteWinners(a, b), a)
    BY <1>3, MergesCover
  <2>2. Delivered(b) /\ Delivered(WriteWinners(a, b))
    BY <1>3, <1>4, <1>9, <2>1, DeliveredOver DEF Carried, a, b
  <2>3. Delivered(File(f))' /\ Delivered(File(g))'
    BY <1>1, <1>2, <1>9, <2>2 DEF Delivered
  <2> QED BY <1>1, <1>2, <1>5, <1>9, <2>3 DEF Carried
<1>10. CASE sync.pc = "forth"
  <2>1. WriteWinners(b, a) \in Copies /\ AllCovered(WriteWinners(b, a), a)
    BY <1>3, MergesCover
  <2>2. Delivered(a) /\ Delivered(WriteWinners(b, a))
    BY <1>3, <1>4, <1>10, <2>1, DeliveredOver DEF Carried, a, b
  <2>3. Delivered(File(f))' /\ Delivered(File(g))'
    BY <1>1, <1>2, <1>10, <2>2 DEF Delivered
  <2> QED BY <1>1, <1>2, <1>5, <1>10, <2>3 DEF Carried
<1> QED BY <1>2, <1>6, <1>7, <1>8, <1>9, <1>10

\* So does the reading of the two files.
LEMMA CarriesRead ==
  ASSUME SyncIInv, Carries, Read
  PROVE  Carries'
<1> SUFFICES ASSUME NEW f \in {"live", "copy"}, NEW g \in {"live", "copy"},
                    f = sync'.first, g # f
             PROVE  Carried(f, g)'
  BY DEF Carries, InOrder
<1>1. /\ sync.pc = "read" /\ UNCHANGED <<store, written>>
      /\ sync'.pc = "keep" /\ SameSession(sync, sync')
      /\ sync'.at = sync.at /\ sync'.first = sync.first
      /\ sync'.winners \in Copies
      /\ AllCovered(sync'.winners, File(sync.first))
      /\ AllCovered(sync'.winners, File(Second))
  BY ReadDoes DEF Read
<1>2. f = sync.first /\ g = Second /\ InOrder(f, g)
  BY <1>1, TwoFiles DEF InOrder
<1>3. Carried(f, g)
  BY <1>1, <1>2 DEF Carries
<1>4. File(f) \in Copies /\ File(g) \in Copies
  BY <1>1, FileTable
<1>5. Delivered(sync.winners)'
  <2> SUFFICES ASSUME NEW e \in EventId, NEW had \in sync.began[e]
               PROVE  Covers(sync'.winners[e], had)
    BY <1>1 DEF Delivered, SameSession
  <2>1. Covers(File(f)[e], had) \/ Covers(File(g)[e], had)
    BY <1>1, <1>3 DEF Carried
  <2>2. Covers(sync'.winners[e], File(f)[e]) /\ Covers(sync'.winners[e], File(g)[e])
    BY <1>1, <1>2 DEF AllCovered
  <2>3. had \in Event
    BY DEF SyncIInv, TypeOK
  <2>4. /\ File(f)[e] \in Event \cup {None} /\ File(g)[e] \in Event \cup {None}
        /\ sync'.winners[e] \in Event \cup {None}
    BY <1>1, <1>4, Entries
  <2> QED BY <2>1, <2>2, <2>3, <2>4, CoversTransitive
<1>6. sync'.at = sync'.far => Delivered(store[sync.near].event)'
  BY <1>1, <1>3 DEF Carried, Delivered, SameSession
<1> QED BY <1>1, <1>5, <1>6 DEF Carried

\* And the end of a half, which leaves its machine and the copy with all of it.
LEMMA CarriesApply ==
  ASSUME SyncIInv, SyncIInv', Carries, Apply
  PROVE  Carries'
<1> SUFFICES ASSUME NEW f \in {"live", "copy"}, NEW g \in {"live", "copy"},
                    f = sync'.first, g # f
             PROVE  Carried(f, g)'
  BY DEF Carries, InOrder
<1> DEFINE m == sync.at
           t == ApplyWinners(store[m])
<1>1. /\ sync.pc = "apply" /\ SameSession(sync, sync')
      /\ sync.at = sync.near => sync'.pc = "read" /\ sync'.at = sync.far
      /\ sync.at # sync.near => sync'.pc = "done" /\ sync'.at = sync.at
      /\ TakesIn(m, t) /\ m \in Machine
      /\ t.event = store[m].event
  BY ApplyDoes
<1> HIDE DEF t
<1>2. \A n \in Machine : store'[n].event = store[n].event
  BY <1>1 DEF TakesIn, SyncIInv, TypeOK
<1>3. /\ sync.near \in Machine /\ sync.far \in Machine /\ m \in {sync.near, sync.far}
      /\ sync.near # sync.far
  BY <1>1 DEF SyncIInv, Seated
<1>4. Delivered(File("live")) /\ Delivered(File("copy"))
  <2>1. PICK p \in {"live", "copy"}, q \in {"live", "copy"} : InOrder(p, q)
    BY TwoFiles DEF InOrder
  <2>2. Carried(p, q)
    BY <1>1, <2>1 DEF Carries
  <2> QED BY <1>1, <2>1, <2>2 DEF Carried, InOrder
<1>5. Delivered(store[m].event) /\ Delivered(sync.copy)
  BY <1>4 DEF File
<1>6. Delivered(store'[m].event) /\ Delivered(sync'.copy)
  BY <1>1, <1>2, <1>5 DEF SameSession
<1>7. CASE m = sync.near
  <2>1. sync'.pc = "read" /\ sync'.at = sync.far
    BY <1>1, <1>7
  <2>2. Delivered(store[sync.near].event)'
    BY <1>1, <1>6, <1>7 DEF Delivered, SameSession
  <2>3. Delivered(sync.copy)'
    BY <1>1, <1>6 DEF Delivered, SameSession
  <2>4. f = "copy" \/ g = "copy"
    OBVIOUS
  <2>5. \A e \in EventId : \A had \in sync'.began[e] :
          Covers(File(f)'[e], had) \/ Covers(File(g)'[e], had)
    BY <2>3, <2>4 DEF Delivered, File
  <2> QED BY <1>1, <2>1, <2>2, <2>5 DEF Carried, SameSession
<1>8. CASE m = sync.far
  <2>1. sync'.pc = "done" /\ sync'.at = sync.far
    BY <1>1, <1>3, <1>8
  <2>2. Delivered(store[sync.far].event)'
    BY <1>1, <1>6, <1>8 DEF Delivered, SameSession
  <2>3. Delivered(store[sync.near].event)
    <3>1. PICK p \in {"live", "copy"}, q \in {"live", "copy"} : InOrder(p, q)
      BY TwoFiles DEF InOrder
    <3> QED BY <1>1, <1>8, <3>1 DEF Carries, Carried
  <2>4. Delivered(store[sync.near].event)'
    BY <1>1, <1>2, <1>3, <2>3 DEF Delivered, SameSession
  <2> QED BY <2>1, <2>2, <2>4 DEF Carried
<1> QED BY <1>3, <1>7, <1>8

\* A session that begins carries the far machine's table, and is at the other.
LEMMA CarriesTurns ==
  ASSUME SyncIInv, SyncIInv', Carries,
         (\E near, far \in Machine : Begin(near, far)) \/ End \/ Abort
  PROVE  Carries'
<1>1. CASE End \/ Abort
  <2>1. sync' = NoSession
    BY <1>1 DEF End, Abort
  <2>2. NoSession.pc = "idle"
    BY DEF NoSession
  <2> QED BY <2>1, <2>2 DEF Carries
<1>2. ASSUME NEW near \in Machine, NEW far \in Machine, Begin(near, far)
      PROVE  Carries'
  <2>1. PICK first \in {"live", "copy"} :
            sync' = [NoSession EXCEPT !.pc = "read", !.at = near, !.near = near, !.far = far,
                                 !.first = first, !.copy = store[far].event,
                                 !.began = [e \in EventId |->
                                   {store[near].event[e], store[far].event[e]} \ {None}]]
    BY <1>2 DEF Begin
  <2>2. near # far /\ store' = store
    BY <1>2 DEF Begin
  <2>3. /\ sync'.pc = "read" /\ sync'.at = near /\ sync'.near = near /\ sync'.far = far
        /\ sync'.copy = store[far].event
        /\ sync'.began = [e \in EventId |->
                            {store[near].event[e], store[far].event[e]} \ {None}]
    BY <2>1 DEF NoSession
  <2>4. store[near].event \in Copies /\ store[far].event \in Copies
    BY StoreTable DEF SyncIInv
  <2> SUFFICES ASSUME NEW f \in {"live", "copy"}, NEW g \in {"live", "copy"}, g # f
               PROVE  Carried(f, g)'
    BY DEF Carries, InOrder
  <2>5. File("live")' = store[near].event /\ File("copy")' = store[far].event
    BY <2>2, <2>3 DEF File
  <2>6. ASSUME NEW e \in EventId, NEW had \in sync'.began[e]
        PROVE  Covers(File("live")'[e], had) \/ Covers(File("copy")'[e], had)
    <3>1. had = store[near].event[e] \/ had = store[far].event[e]
      BY <2>3, <2>6
    <3>2. /\ Covers(store[near].event[e], store[near].event[e])
          /\ Covers(store[far].event[e], store[far].event[e])
      BY <2>4, Entries
    <3> QED BY <2>5, <3>1, <3>2
  <2>7. \A e \in EventId : \A had \in sync'.began[e] :
          Covers(File(f)'[e], had) \/ Covers(File(g)'[e], had)
    BY <2>6
  <2> QED BY <2>2, <2>3, <2>7 DEF Carried
<1> QED BY <1>1, <1>2

\* Every step carries on.
LEMMA CarriesStep ==
  ASSUME SyncIInv, [Next]_vars, [\A m \in Machine : ImportInTime(m)]_vars, SyncIInv', Carries
  PROVE  Carries'
<1>1. CASE UNCHANGED vars
  BY <1>1 DEF vars, Carries, InOrder, Carried, File, Delivered
<1> SUFFICES ASSUME Next, \A m \in Machine : ImportInTime(m)
             PROVE  Carries'
  BY <1>1
<1>2. ASSUME NEW m \in Machine, Local(m) \/ ImportRead(m) \/ ImportWrite(m)
      PROVE  Carries'
  <2>1. \/ sync' = sync
        \/ sync' = [sync EXCEPT !.quiet = sync.pc = "idle"]
    <3>1. CASE Local(m)
      BY <3>1, LocalEdits DEF AuthorsAt, Edit
    <3>2. CASE ImportRead(m)
      BY <3>2 DEF ImportRead
    <3>3. CASE ImportWrite(m)
      BY <3>3 DEF ImportWrite
    <3> QED BY <1>2, <3>1, <3>2, <3>3
  <2>2. sync \in SessionRecord
    BY DEF SyncIInv, TypeOK, SessionRecord
  <2>3. StandsStill
    BY <2>1, <2>2 DEF StandsStill, SessionRecord
  <2> QED BY <2>3, CarriesBeside
<1>3. CASE (\E near, far \in Machine : Begin(near, far)) \/ End \/ Abort
  BY <1>3, CarriesTurns
<1>4. CASE Read
  BY <1>4, CarriesRead
<1>5. CASE Keep \/ Win \/ Overwrite \/ Back \/ Forth
  BY <1>5, CarriesPut
<1>6. CASE Apply
  BY <1>6, CarriesApply
<1> QED BY <1>2, <1>3, <1>4, <1>5, <1>6 DEF Next, Session

(***************************************************************************)
(* A session that ends has delivered, whatever the shells typed between    *)
(* its transactions, and however the two files were ordered at either end: *)
(* both machines hold what either had when it began, or what wins over it. *)
(***************************************************************************)
THEOREM SessionDeliversHolds == Spec /\ ImportsInTime => []SessionDelivers
<1>1. Init => Carries
  BY DEF Init, Carries, NoSession
<1>2. /\ SyncIInv /\ Carries /\ [Next]_vars /\ [\A m \in Machine : ImportInTime(m)]_vars
      /\ SyncIInv'
      => Carries'
  BY CarriesStep
<1>3. Spec => []SyncIInv
  BY SyncIInvHolds
<1>4. SyncIInv /\ Carries => SessionDelivers
  <2> SUFFICES ASSUME SyncIInv, Carries, sync.pc = "done",
                      NEW m \in {sync.near, sync.far}, NEW e \in EventId,
                      NEW had \in sync.began[e]
               PROVE  IF store[m].event[e] = None THEN FALSE
                      ELSE ~ WinsOver(had, store[m].event[e])
    BY DEF SessionDelivers
  <2>1. Delivered(store[sync.near].event) /\ Delivered(store[sync.far].event)
    BY TwoFiles DEF Carries, Carried, InOrder
  <2>2. Covers(store[m].event[e], had)
    BY <2>1 DEF Delivered
  <2>3. had \in Event
    BY DEF SyncIInv, TypeOK
  <2> QED BY <2>2, <2>3, MarkOfEvent DEF Covers
<1> QED BY <1>1, <1>2, <1>3, <1>4, PTL DEF Spec, ImportsInTime

-----------------------------------------------------------------------------
(***************************************************************************)
(* What a session settles that nothing disturbs.  In its near half, the    *)
(* winners, then the first file, then both cover the two files and the far *)
(* machine's table; the near machine and the copy come out alike.  In its  *)
(* far half everything comes to be what the near machine has.              *)
(***************************************************************************)
AppliedAll(s) == \A e \in Known(s) : Applied(s, e)

NearHalf(f, g) ==
  LET far == store[sync.far].event IN
  /\ sync.pc = "read" => sync.copy = far
  /\ sync.pc \in {"keep", "win"} =>
       /\ AllCovered(sync.winners, File(f)) /\ AllCovered(sync.winners, File(g))
       /\ AllCovered(sync.winners, far)
  /\ sync.pc = "overwrite" => AllCovered(File(f), File(g)) /\ AllCovered(File(f), far)
  /\ sync.pc \in {"back", "forth", "apply"} => File(f) = File(g) /\ AllCovered(File(f), far)

FarHalf(f, g) ==
  LET near == store[sync.near].event IN
  /\ AllCovered(near, File(f)) /\ AllCovered(near, File(g))
  /\ AppliedAll(store[sync.near])
  /\ sync.pc = "read" => sync.copy = near
  /\ sync.pc \in {"keep", "win"} => sync.winners = near
  /\ sync.pc = "overwrite" => File(f) = near
  /\ sync.pc \in {"back", "forth", "apply"} => File(f) = near /\ File(g) = near

AllSettled ==
  /\ store[sync.near].event = store[sync.far].event
  /\ AppliedAll(store[sync.near]) /\ AppliedAll(store[sync.far])

Settles ==
  sync.pc # "idle" /\ sync.quiet =>
    /\ sync.pc = "done" => AllSettled
    /\ \A f, g \in {"live", "copy"} : InOrder(f, g) /\ sync.pc # "done" =>
         /\ sync.at = sync.near => NearHalf(f, g)
         /\ sync.at = sync.far => FarHalf(f, g)

\* Tables that cover each other are the same, and covering is transitive.
LEMMA CoverEachOther ==
  ASSUME SyncIInv, NEW a \in Copies, NEW b \in Copies, Written(a), Written(b),
         AllCovered(a, b), AllCovered(b, a)
  PROVE  a = b
<1>1. ASSUME NEW e \in EventId PROVE a[e] = b[e]
  <2>1. a[e] \in Event \cup {None} /\ b[e] \in Event \cup {None}
    BY Entries
  <2>2. \/ a[e] = None /\ b[e] = None
        \/ a[e] \in Event /\ b[e] \in Event /\ Mark(a[e]) = Mark(b[e])
    BY <2>1, CoversBothWays DEF AllCovered
  <2>3. CASE a[e] \in Event /\ b[e] \in Event /\ Mark(a[e]) = Mark(b[e])
    BY <2>3, MarkOfEvent DEF SyncIInv, StampNamesEvent, Written
  <2> QED BY <2>2, <2>3
<1> QED BY <1>1 DEF Copies

\* Covering tables.
LEMMA AllCoveredTransitive ==
  ASSUME NEW a \in Copies, NEW b \in Copies, NEW c \in Copies,
         AllCovered(a, b), AllCovered(b, c)
  PROVE  AllCovered(a, c)
<1>1. ASSUME NEW e \in EventId PROVE Covers(a[e], c[e])
  <2>1. /\ a[e] \in Event \cup {None} /\ b[e] \in Event \cup {None}
        /\ c[e] \in Event \cup {None}
    BY Entries
  <2> QED BY <2>1, CoversTransitive DEF AllCovered
<1> QED BY <1>1 DEF AllCovered

\* A table made of two, by copies that each keep one of them.
LEMMA ChosenIsCovered ==
  ASSUME NEW n, NEW a, NEW b, AllCovered(n, a), AllCovered(n, b),
         NEW next, \A e \in EventId : next[e] \in {a[e], b[e]}
  PROVE  AllCovered(n, next)
BY DEF AllCovered

\* A merge of one table with one that covers it is that one.
LEMMA MergeWithCover ==
  ASSUME SyncIInv, NEW a \in Copies, NEW b \in Copies, Written(a), Written(b),
         NEW next, next \in {WriteWinners(a, b), OverwritePreserving(a, b), Reconciled(a, b)}
  PROVE  /\ AllCovered(b, a) => next = b
         /\ AllCovered(a, b) => next = a
<1>1. /\ next \in Copies /\ AllCovered(next, a) /\ AllCovered(next, b)
      /\ \A e \in EventId : next[e] \in {a[e], b[e]}
  BY MergesCover
<1>2. Written(next)
  BY <1>1 DEF Written
<1>3. AllCovered(a, a) /\ AllCovered(b, b)
  BY Entries DEF AllCovered
<1>4. ASSUME AllCovered(b, a) PROVE next = b
  <2>1. AllCovered(b, next)
    BY <1>1, <1>3, <1>4, ChosenIsCovered
  <2> QED BY <1>1, <1>2, <2>1, CoverEachOther
<1>5. ASSUME AllCovered(a, b) PROVE next = a
  <2>1. AllCovered(a, next)
    BY <1>1, <1>3, <1>5, ChosenIsCovered
  <2> QED BY <1>1, <1>2, <2>1, CoverEachOther
<1> QED BY <1>4, <1>5

\* The reading of the two files settles which copies win.
LEMMA SettlesRead ==
  ASSUME SyncIInv, Settles, Read
  PROVE  Settles'
<1>1. /\ sync.pc = "read" /\ UNCHANGED <<store, written>>
      /\ sync'.pc = "keep" /\ SameSession(sync, sync')
      /\ sync'.at = sync.at /\ sync'.first = sync.first
      /\ sync'.winners = Reconciled(File(sync.first), File(Second))
  BY ReadDoes DEF Read
<1> SUFFICES ASSUME sync'.quiet, NEW f \in {"live", "copy"}, NEW g \in {"live", "copy"},
                    f = sync'.first, g # f
             PROVE  /\ sync'.at = sync'.near => NearHalf(f, g)'
                    /\ sync'.at = sync'.far => FarHalf(f, g)'
  BY <1>1 DEF Settles, InOrder
<1>2. f = sync.first /\ g = Second /\ InOrder(f, g)
  BY <1>1, TwoFiles DEF InOrder
<1> DEFINE a == File(f)
           b == File(g)
           w == Reconciled(a, b)
<1>3. a \in Copies /\ b \in Copies /\ Written(a) /\ Written(b)
  BY <1>1, FileTable
<1>4. AllCovered(w, a) /\ AllCovered(w, b)
  BY <1>3, MergesCover
<1>5. /\ sync'.winners = w /\ File(f)' = a /\ File(g)' = b
      /\ store' = store /\ sync'.near = sync.near /\ sync'.far = sync.far
  BY <1>1, <1>2 DEF SameSession, File
<1>6. \A t \in {a, b} : t = a \/ t = b
  OBVIOUS
<1>7. sync.copy \in {a, b}
  BY <1>2 DEF InOrder, File
<1>8. /\ sync.at = sync.near => NearHalf(f, g)
      /\ sync.at = sync.far => FarHalf(f, g)
  BY <1>1, <1>2 DEF Settles, SameSession
<1> HIDE DEF a, b, w
<1>9. CASE sync.at = sync.near
  <2>1. sync.copy = store[sync.far].event
    BY <1>1, <1>8, <1>9 DEF NearHalf
  <2>2. AllCovered(w, store[sync.far].event)
    BY <1>4, <1>7, <2>1
  <2>3. NearHalf(f, g)'
    BY <1>1, <1>4, <1>5, <2>2 DEF NearHalf, AllCovered
  <2>4. sync.near # sync.far
    BY <1>1 DEF SyncIInv, Seated
  <2> QED BY <1>1, <1>5, <1>9, <2>3, <2>4
<1>10. CASE sync.at = sync.far
  <2> DEFINE n == store[sync.near].event
  <2>1. n = sync.copy /\ AllCovered(n, a) /\ AllCovered(n, b) /\ AppliedAll(store[sync.near])
    BY <1>1, <1>8, <1>10 DEF FarHalf, a, b
  <2>2. w = n
    BY <1>3, <1>7, <2>1, MergeWithCover DEF w
  <2>3. FarHalf(f, g)'
    BY <1>1, <1>5, <2>1, <2>2 DEF FarHalf, AllCovered, AppliedAll
  <2>4. sync.near # sync.far
    BY <1>1 DEF SyncIInv, Seated
  <2> QED BY <1>1, <1>5, <1>10, <2>3, <2>4
<1> QED BY <1>1, <1>9, <1>10 DEF SyncIInv, Seated

\* A merge of what covers a table with another covers what both parts do.
LEMMA CoverMerges ==
  ASSUME SyncIInv, NEW n \in Copies, NEW a \in Copies, NEW b \in Copies,
         Written(a), Written(b),
         AllCovered(n, a), AllCovered(n, b), NEW next,
         \/ next = KeepExisting(a, b)
         \/ next \in {WriteWinners(a, b), OverwritePreserving(a, b), Reconciled(a, b)}
  PROVE  AllCovered(n, next)
<1>1. \A e \in EventId : next[e] \in {a[e], b[e]}
  BY KeepExistingGains, MergesCover
<1> QED BY <1>1, ChosenIsCovered

\* Putting a table in one of the files settles it further.
LEMMA SettlesPut ==
  ASSUME SyncIInv, SyncIInv', Settles, Keep \/ Win \/ Overwrite \/ Back \/ Forth
  PROVE  Settles'
<1>1. /\ sync'.first \in {"live", "copy"}
      /\ \E g \in {"live", "copy"} : g # sync'.first
  BY TwoFiles DEF SyncIInv, TypeOK
<1>2. sync'.pc # "done"
  BY <1>1, PutsWhat
<1> SUFFICES ASSUME sync'.quiet, NEW f \in {"live", "copy"}, NEW g \in {"live", "copy"},
                    f = sync'.first, g # f
             PROVE  /\ sync'.at = sync'.near => NearHalf(f, g)'
                    /\ sync'.at = sync'.far => FarHalf(f, g)'
  BY <1>2 DEF Settles, InOrder
<1> DEFINE a == File(f)
           b == File(g)
           w == sync.winners
           far == store[sync.far].event
           n == store[sync.near].event
<1>3. /\ InOrder(f, g) /\ sync.pc # "idle" /\ sync.pc # "done"
      /\ sync'.near = sync.near /\ sync'.far = sync.far
      /\ sync'.quiet = sync.quiet /\ sync'.at = sync.at /\ sync'.winners = w
      /\ \A m \in Machine : m # sync.at => store'[m] = store[m]
      /\ sync.near \in Machine /\ sync.far \in Machine
  BY PutsWhat
<1>4. \/ /\ sync.pc = "keep" /\ sync'.pc = "win"
         /\ File(f)' = KeepExisting(a, b) /\ File(g)' = b
      \/ /\ sync.pc = "win" /\ sync'.pc = "overwrite"
         /\ File(f)' = WriteWinners(a, w) /\ File(g)' = b
      \/ /\ sync.pc = "overwrite" /\ sync'.pc = "back"
         /\ File(f)' = a /\ File(g)' = OverwritePreserving(b, a)
      \/ /\ sync.pc = "back" /\ sync'.pc = "forth"
         /\ File(f)' = WriteWinners(a, b) /\ File(g)' = b
      \/ /\ sync.pc = "forth" /\ sync'.pc = "apply"
         /\ File(f)' = a /\ File(g)' = WriteWinners(b, a)
  BY PutsWhat
<1>5. /\ a \in Copies /\ b \in Copies /\ w \in Copies /\ far \in Copies /\ n \in Copies
      /\ Written(a) /\ Written(b) /\ Written(w) /\ Written(n)
  BY <1>3, FileTable, StoreTable DEF SyncIInv, TypeOK, Held
<1>6. /\ sync.at = sync.near => NearHalf(f, g)
      /\ sync.at = sync.far => FarHalf(f, g)
  BY <1>3 DEF Settles
<1>7. sync.near # sync.far /\ sync.at \in {sync.near, sync.far}
  BY <1>3 DEF SyncIInv, Seated
<1>8. AllCovered(a, a) /\ AllCovered(b, b)
  BY <1>5, Entries DEF AllCovered
<1> HIDE DEF a, b, w, far, n
<1>9. CASE sync.at = sync.near
  <2>1. store[sync.far].event' = far
    BY <1>3, <1>7, <1>9 DEF far
  <2>2. /\ sync.pc \in {"keep", "win"} =>
             AllCovered(w, a) /\ AllCovered(w, b) /\ AllCovered(w, far)
        /\ sync.pc = "overwrite" => AllCovered(a, b) /\ AllCovered(a, far)
        /\ sync.pc \in {"back", "forth", "apply"} => a = b /\ AllCovered(a, far)
    BY <1>6, <1>9 DEF NearHalf, a, b, w, far
  <2> DEFINE next == File(f)'
             other == File(g)'
  <2>3. /\ sync'.pc \in {"keep", "win"} =>
             AllCovered(w, next) /\ AllCovered(w, other) /\ AllCovered(w, far)
        /\ sync'.pc = "overwrite" => AllCovered(next, other) /\ AllCovered(next, far)
        /\ sync'.pc \in {"back", "forth", "apply"} => next = other /\ AllCovered(next, far)
    <3> HIDE DEF next, other
    <3>1. \/ /\ sync.pc = "keep" /\ sync'.pc = "win"
             /\ next = KeepExisting(a, b) /\ other = b
          \/ /\ sync.pc = "win" /\ sync'.pc = "overwrite"
             /\ next = WriteWinners(a, w) /\ other = b
          \/ /\ sync.pc = "overwrite" /\ sync'.pc = "back"
             /\ next = a /\ other = OverwritePreserving(b, a)
          \/ /\ sync.pc = "back" /\ sync'.pc = "forth"
             /\ next = WriteWinners(a, b) /\ other = b
          \/ /\ sync.pc = "forth" /\ sync'.pc = "apply"
             /\ next = a /\ other = WriteWinners(b, a)
      BY <1>4 DEF next, other
    <3>2. CASE sync.pc = "keep"
      <4>1. AllCovered(w, next)
        BY <1>5, <2>2, <3>1, <3>2, CoverMerges
      <4> QED BY <2>2, <3>1, <3>2, <4>1
    <3>3. CASE sync.pc = "win"
      <4>1. next = w
        BY <1>5, <2>2, <3>1, <3>3, MergeWithCover
      <4> QED BY <2>2, <3>1, <3>3, <4>1
    <3>4. CASE sync.pc = "overwrite"
      <4>1. other = a
        BY <1>5, <2>2, <3>1, <3>4, MergeWithCover
      <4> QED BY <2>2, <3>1, <3>4, <4>1
    <3>5. CASE sync.pc \in {"back", "forth"}
      <4>1. next = a /\ other = a
        BY <1>5, <1>8, <2>2, <3>1, <3>5, MergeWithCover
      <4> QED BY <2>2, <3>1, <3>5, <4>1
    <3> QED BY <3>1, <3>2, <3>3, <3>4, <3>5
  <2>4. sync'.pc # "read"
    BY <1>4
  <2>5. NearHalf(f, g)'
    BY <1>3, <2>1, <2>3, <2>4 DEF NearHalf
  <2> QED BY <1>3, <1>7, <1>9, <2>5
<1>10. CASE sync.at = sync.far
  <2>1. store'[sync.near] = store[sync.near]
    BY <1>3, <1>7, <1>10
  <2>2. /\ AllCovered(n, a) /\ AllCovered(n, b) /\ AppliedAll(store[sync.near])
        /\ sync.pc \in {"keep", "win"} => w = n
        /\ sync.pc = "overwrite" => a = n
        /\ sync.pc \in {"back", "forth", "apply"} => a = n /\ b = n
    BY <1>6, <1>10 DEF FarHalf, a, b, w, n
  <2> DEFINE next == File(f)'
             other == File(g)'
  <2>3. /\ AllCovered(n, next) /\ AllCovered(n, other)
        /\ sync'.pc \in {"keep", "win"} => w = n
        /\ sync'.pc = "overwrite" => next = n
        /\ sync'.pc \in {"back", "forth", "apply"} => next = n /\ other = n
    <3> HIDE DEF next, other
    <3>1. \/ /\ sync.pc = "keep" /\ sync'.pc = "win"
             /\ next = KeepExisting(a, b) /\ other = b
          \/ /\ sync.pc = "win" /\ sync'.pc = "overwrite"
             /\ next = WriteWinners(a, w) /\ other = b
          \/ /\ sync.pc = "overwrite" /\ sync'.pc = "back"
             /\ next = a /\ other = OverwritePreserving(b, a)
          \/ /\ sync.pc = "back" /\ sync'.pc = "forth"
             /\ next = WriteWinners(a, b) /\ other = b
          \/ /\ sync.pc = "forth" /\ sync'.pc = "apply"
             /\ next = a /\ other = WriteWinners(b, a)
      BY <1>4 DEF next, other
    <3>2. CASE sync.pc = "keep"
      <4>1. AllCovered(n, next)
        BY <1>5, <2>2, <3>1, <3>2, CoverMerges
      <4> QED BY <2>2, <3>1, <3>2, <4>1
    <3>3. CASE sync.pc = "win"
      <4>1. next = w
        BY <1>5, <2>2, <3>1, <3>3, MergeWithCover
      <4>2. AllCovered(n, n)
        BY <1>5, Entries DEF AllCovered
      <4> QED BY <2>2, <3>1, <3>3, <4>1, <4>2
    <3>4. CASE sync.pc = "overwrite"
      <4>1. other = a
        BY <1>5, <2>2, <3>1, <3>4, MergeWithCover
      <4> QED BY <2>2, <3>1, <3>4, <4>1
    <3>5. CASE sync.pc \in {"back", "forth"}
      <4>1. next = a /\ other = a
        BY <1>5, <1>8, <2>2, <3>1, <3>5, MergeWithCover
      <4> QED BY <2>2, <3>1, <3>5, <4>1
    <3> QED BY <3>1, <3>2, <3>3, <3>4, <3>5
  <2>4. sync'.pc # "read"
    BY <1>4
  <2>5. store'[sync'.near].event = n /\ AppliedAll(store[sync.near])'
    BY <1>3, <2>1, <2>2 DEF n, AppliedAll
  <2>6. FarHalf(f, g)'
    BY <1>3, <2>2, <2>3, <2>4, <2>5 DEF FarHalf
  <2> QED BY <1>3, <1>7, <1>10, <2>6
<1> QED BY <1>7, <1>9, <1>10

\* A machine that applies its table leaves nothing pending, and the session goes on.
LEMMA SettlesApply ==
  ASSUME SyncIInv, SyncIInv', Settles, Apply
  PROVE  Settles'
<1> DEFINE m == sync.at
           t == ApplyWinners(store[m])
<1>1. /\ sync.pc = "apply" /\ SameSession(sync, sync')
      /\ sync.at = sync.near => sync'.pc = "read" /\ sync'.at = sync.far
      /\ sync.at # sync.near => sync'.pc = "done" /\ sync'.at = sync.at
      /\ TakesIn(m, t) /\ m \in Machine
      /\ t.event = store[m].event
      /\ \A e \in Known(store[m]) : Applied(t, e)
  BY ApplyDoes
<1>2. /\ sync.near \in Machine /\ sync.far \in Machine /\ m \in {sync.near, sync.far}
      /\ sync.near # sync.far
  BY <1>1 DEF SyncIInv, Seated
<1>3. AppliedAll(t)
  BY <1>1 DEF AppliedAll, Known
<1> HIDE DEF t
<1>4. /\ store'[m] = t
      /\ \A o \in Machine \ {m} : store'[o] = store[o]
      /\ \A o \in Machine : store'[o].event = store[o].event
  BY <1>1 DEF TakesIn, SyncIInv, TypeOK
<1>5. PICK p \in {"live", "copy"}, q \in {"live", "copy"} : InOrder(p, q)
  BY TwoFiles DEF InOrder
<1>6. sync'.near = sync.near /\ sync'.far = sync.far /\ sync'.copy = sync.copy
      /\ sync'.quiet = sync.quiet
  BY <1>1 DEF SameSession
<1>7. File(p) = store[m].event \/ File(q) = store[m].event
  BY <1>5 DEF InOrder, File
<1>8. File(p) = sync.copy \/ File(q) = sync.copy
  BY <1>5 DEF InOrder, File
<1> SUFFICES ASSUME sync'.quiet
             PROVE  /\ sync'.pc = "done" => AllSettled'
                    /\ \A f, g \in {"live", "copy"} : InOrder(f, g)' /\ sync'.pc # "done" =>
                         /\ sync'.at = sync'.near => NearHalf(f, g)'
                         /\ sync'.at = sync'.far => FarHalf(f, g)'
  BY DEF Settles
<1>9. CASE m = sync.near
  <2>1. NearHalf(p, q)
    BY <1>1, <1>5, <1>6, <1>9 DEF Settles
  <2>2. /\ File(p) = File(q) /\ AllCovered(File(p), store[sync.far].event)
    BY <1>1, <2>1 DEF NearHalf
  <2> DEFINE n == store[sync.near].event
             far == store[sync.far].event
  <2>3. sync.copy = n /\ AllCovered(n, far)
    BY <1>7, <1>8, <1>9, <2>2
  <2>4. n \in Copies
    BY <1>2, StoreTable DEF SyncIInv
  <2>5. AllCovered(n, n)
    BY <2>4, Entries DEF AllCovered
  <2>6. sync'.pc = "read" /\ sync'.at = sync.far
    BY <1>1, <1>9
  <2>7. store'[sync'.near].event = n /\ store'[sync'.far].event = far /\ sync'.copy = n
    BY <1>2, <1>4, <1>6, <2>3
  <2>8. AppliedAll(store[sync.near])'
    BY <1>3, <1>4, <1>6, <1>9 DEF AppliedAll
  <2> HIDE DEF n, far
  <2>9. ASSUME NEW f \in {"live", "copy"}, NEW g \in {"live", "copy"}, InOrder(f, g)'
        PROVE  FarHalf(f, g)'
    <3>1. \A h \in {"live", "copy"} : File(h)' = far \/ File(h)' = n
      BY <1>6, <2>6, <2>7 DEF File
    <3>2. AllCovered(n, File(f)') /\ AllCovered(n, File(g)')
      BY <2>3, <2>5, <2>9, <3>1
    <3> QED BY <2>6, <2>7, <2>8, <3>2 DEF FarHalf
  <2> QED BY <1>2, <1>6, <2>6, <2>9
<1>10. CASE m = sync.far
  <2>1. FarHalf(p, q)
    BY <1>1, <1>5, <1>6, <1>10 DEF Settles
  <2>2. store[sync.far].event = store[sync.near].event /\ AppliedAll(store[sync.near])
    BY <1>1, <1>7, <1>10, <2>1 DEF FarHalf
  <2>3. sync'.pc = "done"
    BY <1>1, <1>2, <1>10
  <2>4. store'[sync.near] = store[sync.near] /\ store'[sync.far] = t
    BY <1>2, <1>4, <1>10
  <2>5. store'[sync'.near].event = store'[sync'.far].event
    BY <1>2, <1>4, <1>6, <2>2
  <2>6. AppliedAll(store[sync.near])' /\ AppliedAll(store[sync.far])'
    BY <1>3, <1>6, <2>2, <2>4 DEF AppliedAll
  <2> QED BY <2>3, <2>5, <2>6 DEF AllSettled
<1> QED BY <1>2, <1>9, <1>10

\* A session begins with a fresh copy, and leaves nothing behind when it stops.
LEMMA SettlesTurns ==
  ASSUME SyncIInv, SyncIInv', Settles,
         (\E near, far \in Machine : Begin(near, far)) \/ End \/ Abort
  PROVE  Settles'
<1>1. CASE End \/ Abort
  <2>1. sync' = NoSession
    BY <1>1 DEF End, Abort
  <2>2. NoSession.pc = "idle"
    BY DEF NoSession
  <2> QED BY <2>1, <2>2 DEF Settles
<1>2. ASSUME NEW near \in Machine, NEW far \in Machine, Begin(near, far)
      PROVE  Settles'
  <2>1. PICK first \in {"live", "copy"} :
            sync' = [NoSession EXCEPT !.pc = "read", !.at = near, !.near = near, !.far = far,
                                 !.first = first, !.copy = store[far].event,
                                 !.began = [e \in EventId |->
                                   {store[near].event[e], store[far].event[e]} \ {None}]]
    BY <1>2 DEF Begin
  <2>2. near # far /\ store' = store
    BY <1>2 DEF Begin
  <2>3. /\ sync'.pc = "read" /\ sync'.at = near /\ sync'.near = near /\ sync'.far = far
        /\ sync'.copy = store[far].event
    BY <2>1 DEF NoSession
  <2>4. ASSUME NEW f \in {"live", "copy"}, NEW g \in {"live", "copy"}
        PROVE  NearHalf(f, g)'
    BY <2>2, <2>3 DEF NearHalf
  <2> QED BY <2>2, <2>3, <2>4 DEF Settles
<1> QED BY <1>1, <1>2

\* Every step settles no less, if it leaves the session quiet.
LEMMA SettlesStep ==
  ASSUME SyncIInv, [Next]_vars, SyncIInv', Settles
  PROVE  Settles'
<1>1. CASE UNCHANGED <<store, sync>>
  BY <1>1 DEF Settles, InOrder, NearHalf, FarHalf, AllSettled, AllCovered, AppliedAll, File
<1>2. CASE UNCHANGED vars
  BY <1>1, <1>2 DEF vars
<1>3. ASSUME NEW m \in Machine, Local(m) \/ ImportWrite(m)
      PROVE  Settles'
  <2>1. sync' = [sync EXCEPT !.quiet = sync.pc = "idle"]
    <3>1. CASE Local(m)
      BY <3>1, LocalEdits DEF AuthorsAt, Edit
    <3>2. CASE ImportWrite(m)
      BY <3>2 DEF ImportWrite
    <3> QED BY <1>3, <3>1, <3>2
  <2>2. sync'.pc = sync.pc /\ sync'.quiet = (sync.pc = "idle")
    BY <2>1 DEF SyncIInv, TypeOK
  <2> QED BY <2>2 DEF Settles
<1>4. ASSUME NEW m \in Machine, ImportRead(m)
      PROVE  Settles'
  BY <1>1, <1>4 DEF ImportRead
<1>5. CASE (\E near, far \in Machine : Begin(near, far)) \/ End \/ Abort
  BY <1>5, SettlesTurns
<1>6. CASE Read
  BY <1>6, SettlesRead
<1>7. CASE Keep \/ Win \/ Overwrite \/ Back \/ Forth
  BY <1>7, SettlesPut
<1>8. CASE Apply
  BY <1>8, SettlesApply
<1> QED BY <1>2, <1>3, <1>4, <1>5, <1>6, <1>7, <1>8 DEF Next, Session

(***************************************************************************)
(* A session that nobody typed beside ends with one history on the two     *)
(* machines and nothing pending on either, whatever the two had before it, *)
(* however the two files were ordered at either end.                       *)
(***************************************************************************)
THEOREM SessionConvergesHolds == Spec => []SessionConverges
<1>1. Init => Settles
  BY DEF Init, Settles, NoSession
<1>2. SyncIInv /\ Settles /\ [Next]_vars /\ SyncIInv' => Settles'
  BY SettlesStep
<1>3. Spec => []SyncIInv
  BY SyncIInvHolds
<1>4. SyncIInv /\ Settles => SessionConverges
  BY DEF Settles, AllSettled, AppliedAll, SessionConverges
<1> QED BY <1>1, <1>2, <1>3, <1>4, PTL DEF Spec

-----------------------------------------------------------------------------
(***************************************************************************)
(* Whose a row is.  append_entry and apply_event take the id after the     *)
(* newest row there is, so an id is given out again once the newest row    *)
(* has gone; the row_reuse run shows what a tombstone does then.  Where no *)
(* machine gives one id to two events, index and projections lead to each  *)
(* other, and an event's row is there as long as it is not withheld.       *)
(***************************************************************************)
OwnRows(s) ==
  \A e, f \in EventId : Home(s, e) # 0 /\ Home(s, e) = Home(s, f) => e = f

RowsAreOwn == \A m \in Machine : OwnRows(store[m])

Rowed(s) ==
  /\ \A i \in LocalId : s.local[i] # None => Home(s, s.local[i]) = i
  /\ \A e \in EventId : Home(s, e) # 0 =>
       /\ s.local[Home(s, e)] = e
       /\ s.history[Home(s, e)] # None <=> ~ Hidden(s, e)

\* What a transaction about event e does to the rows.
Turns(s, t, e) ==
  /\ Elsewhere(s, t, {e})
  /\ Home(s, e) # 0 => Home(t, e) = Home(s, e)
  /\ Hidden(s, e) => Hidden(t, e)
  /\ \A j \in LocalId : j # Home(t, e) =>
       t.local[j] = s.local[j] /\ t.history[j] = s.history[j]
  /\ Home(t, e) # 0 =>
       /\ t.local[Home(t, e)] = e
       /\ t.history[Home(t, e)] # None <=> ~ Hidden(t, e)

\* The projection of e is not ahead of e, and its row, once e is applied, says what e says.
Spoken(s, e) ==
  /\ s.projection[e] # None => ~ WinsOver(s.projection[e], s.event[e])
  /\ Home(s, e) # 0 /\ s.history[Home(s, e)] # None /\ Applied(s, e) =>
       ~ s.event[e].deleted /\ s.event[e].line = s.history[Home(s, e)]

Honest(s) == \A e \in EventId : Spoken(s, e)

\* A transaction about one event keeps all of this, if it takes no other event's row.
LEMMA TurnsKeep ==
  ASSUME NEW s, Fit(s), Rowed(s), NEW t, Fit(t), OwnRows(t),
         NEW e \in EventId, Turns(s, t, e)
  PROVE  /\ Rowed(t)
         /\ \A f \in EventId : /\ Home(s, f) # 0 => Home(t, f) = Home(s, f)
                               /\ Hidden(s, f) => Hidden(t, f)
         /\ \A f \in EventId \ {e} : Home(t, f) # 0 =>
              /\ Home(s, f) = Home(t, f) /\ t.local[Home(t, f)] = f
              /\ t.history[Home(t, f)] = s.history[Home(t, f)]
         /\ Honest(s) /\ Spoken(t, e) => Honest(t)
<1>1. \A f \in EventId : Home(t, f) \in LocalId \cup {0} /\ Home(s, f) \in LocalId \cup {0}
  BY HomeIsId DEF Fit
<1>2. \A f \in EventId \ {e} : /\ Home(t, f) = Home(s, f) /\ Hidden(t, f) = Hidden(s, f)
                               /\ t.event[f] = s.event[f] /\ t.projection[f] = s.projection[f]
  BY DEF Turns, Elsewhere, Home, Hidden, ProjectionOf
<1>3. \A f \in EventId \ {e} : Home(t, f) # 0 => Home(t, f) # Home(t, e)
  BY DEF OwnRows
<1>4. \A f \in EventId \ {e} : Home(t, f) # 0 =>
        t.local[Home(t, f)] = f /\ t.history[Home(t, f)] = s.history[Home(t, f)]
  BY <1>1, <1>2, <1>3 DEF Turns, Rowed
<1>5. \A f \in EventId : Home(t, f) # 0 =>
        /\ t.local[Home(t, f)] = f
        /\ t.history[Home(t, f)] # None <=> ~ Hidden(t, f)
  BY <1>2, <1>4 DEF Turns, Rowed
<1>6. ASSUME NEW i \in LocalId, t.local[i] # None
      PROVE  Home(t, t.local[i]) = i
  <2>1. CASE i = Home(t, e)
    <3>1. i # 0
      BY DEF LocalId
    <3> QED BY <2>1, <3>1 DEF Turns
  <2>2. CASE i # Home(t, e)
    <3>1. t.local[i] = s.local[i]
      BY <2>2 DEF Turns
    <3>2. Home(s, s.local[i]) = i /\ s.local[i] \in EventId /\ i # 0
      <4>1. i # 0
        BY DEF LocalId
      <4> QED BY <1>6, <3>1, <4>1, EventOfRow DEF Rowed, Fit
    <3>3. s.local[i] # e
      BY <2>2, <3>2 DEF Turns
    <3> QED BY <1>2, <3>1, <3>2, <3>3
  <2> QED BY <2>1, <2>2
<1>7. ASSUME Honest(s), Spoken(t, e), NEW f \in EventId
      PROVE  Spoken(t, f)
  <2>1. CASE f = e
    BY <1>7, <2>1
  <2>2. CASE f # e
    <3>1. Spoken(s, f)
      BY <1>7 DEF Honest
    <3>2. Applied(t, f) = Applied(s, f)
      BY <1>2, <2>2 DEF Applied, ProjectionOf
    <3> QED BY <1>2, <1>4, <2>2, <3>1, <3>2 DEF Spoken
  <2> QED BY <2>1, <2>2
<1> QED BY <1>2, <1>4, <1>5, <1>6, <1>7 DEF Rowed, Honest, Turns

\* Rows that are their events' say what their events say.
LEMMA HonestRows ==
  ASSUME NEW s, Fit(s), Rowed(s), Honest(s), NEW i \in Rows(s)
  PROVE  /\ s.local[i] # None
         /\ Applied(s, s.local[i]) =>
              /\ ~ s.event[s.local[i]].deleted
              /\ s.event[s.local[i]].line = s.history[i]
<1>1. i \in LocalId /\ i # 0 /\ s.local[i] # None /\ s.local[i] \in EventId
  <2>1. i \in LocalId /\ s.local[i] # None
    BY DEF Rows, Fit, Housed
  <2>2. i # 0
    BY <2>1 DEF LocalId
  <2> QED BY <2>1, <2>2, EventOfRow DEF Fit
<1>2. Home(s, s.local[i]) = i
  BY <1>1 DEF Rowed
<1> QED BY <1>1, <1>2 DEF Honest, Spoken, Rows

\* An empty database is in order.
LEMMA EmptyStoreIsRowed == Rowed(EmptyStore) /\ Honest(EmptyStore)
<1>1. \A e \in EventId : EmptyStore.projection[e] = None /\ Home(EmptyStore, e) = 0
  BY DEF EmptyStore, Home, ProjectionOf, Unprojected
<1>2. \A i \in LocalId : EmptyStore.local[i] = None
  BY DEF EmptyStore
<1> QED BY <1>1, <1>2 DEF Rowed, Honest, Spoken

\* If e lives and has its row, the row says what e says, whether e is applied or not.
Says(s, e) ==
  Home(s, e) # 0 /\ s.history[Home(s, e)] # None /\ ~ s.event[e].deleted =>
    s.event[e].line = s.history[Home(s, e)]

\* What is done about e leaves it its row, shown or withheld, and dead or alive.
SameRow(s, t, e) ==
  /\ Home(s, e) # 0 /\ Home(t, e) = Home(s, e) /\ Hidden(t, e) = Hidden(s, e)
  /\ t.event[e].deleted = s.event[e].deleted

\* A projection at its event's stamp is not ahead of it.
LEMMA LevelIsNotAhead ==
  ASSUME NEW q, NEW ev \in Event, Mark(q) = Mark(ev)
  PROVE  ~ WinsOver(q, ev)
<1>1. ~ WinsOver(Mark(ev), Mark(ev))
  BY MarkOfEvent, WinsOverIsAsymmetric
<1> QED BY <1>1, WinsOverMarks

\* Nothing done is a turn of any event.
LEMMA StandingStillTurns ==
  ASSUME NEW s, Rowed(s), NEW e \in EventId
  PROVE  Turns(s, s, e)
BY DEF Rowed, Turns, Elsewhere

\* A line entered.
LEMMA AppendEntryTurns ==
  ASSUME NEW s, Fit(s), NEW e \in EventId, s.event[e] = None, NextId(s) \in LocalId,
         NEW line \in Line, NEW tie \in Tie, NEW t, t = AppendEntry(s, e, line, Tied(tie))
  PROVE  /\ Turns(s, t, e) /\ Spoken(t, e) /\ Says(t, e)
         /\ t.local[NextId(s)] = e /\ t.event[e] \in Event /\ ~ t.event[e].deleted
         /\ Home(t, e) = NextId(s) /\ ~ Hidden(t, e) /\ s.history[NextId(s)] = None
<1> DEFINE ties == Tied(tie)
           i == NextId(s)
<1>1. ties \in [EventId -> Tie]
  BY TiedIsTie
<1>t. t = AppendEntry(s, e, line, ties) /\ Sound(s)
  BY DEF Fit
<1> HIDE DEF ties
<1>2. /\ t.history = [s.history EXCEPT ![i] = line]
      /\ t.local = [s.local EXCEPT ![i] = e]
      /\ Elsewhere(s, t, {e})
      /\ t.event[e] \in Event /\ ~ t.event[e].deleted /\ t.event[e].line = line
      /\ t.projection[e] # None /\ t.projection[e].local = i
      /\ ~ t.projection[e].hidden
      /\ Mark(t.projection[e]) = Mark(t.event[e])
  BY <1>1, <1>t, AppendEntryChanges
<1>3. s.projection[e] = None /\ Home(s, e) = 0 /\ ~ Hidden(s, e)
  BY HomeIsId DEF Fit, Housed, Hidden, ProjectionOf, Unprojected
<1>4. Home(t, e) = i /\ ~ Hidden(t, e)
  BY <1>2 DEF Home, Hidden, ProjectionOf
<1>5. /\ t.history[i] = line /\ t.local[i] = e /\ line # None
      /\ \A j \in LocalId \ {i} : t.history[j] = s.history[j] /\ t.local[j] = s.local[j]
  BY <1>2, HistoryAssumption DEF Fit, Sound, Store
<1>6. ~ WinsOver(t.projection[e], t.event[e])
  BY <1>2, LevelIsNotAhead
<1>9. s.history[i] = None
  BY <1>3, NextIdHoused DEF Rows
<1> HIDE DEF i
<1>7. Turns(s, t, e)
  BY <1>2, <1>3, <1>4, <1>5 DEF Turns
<1>8. Spoken(t, e) /\ Says(t, e)
  BY <1>2, <1>4, <1>5, <1>6 DEF Spoken, Says
<1> QED BY <1>2, <1>4, <1>5, <1>7, <1>8, <1>9 DEF i

\* One event changed under the row it has, as a completion and a rewrite do.
LEMMA OneCopyTurns ==
  ASSUME NEW s, Fit(s), Rowed(s), NEW i \in LocalId, NEW e \in EventId, s.local[i] = e,
         NEW t, t.local = s.local, Elsewhere(s, t, {e}),
         s.projection[e] # None, t.projection[e] # None,
         t.projection[e].local = s.projection[e].local,
         t.projection[e].hidden = s.projection[e].hidden,
         \A j \in LocalId \ {i} : t.history[j] = s.history[j],
         t.history[i] # None <=> s.history[i] # None
  PROVE  /\ Turns(s, t, e) /\ Home(t, e) = i
         /\ t.event[e].deleted = s.event[e].deleted => SameRow(s, t, e)
         /\ t.event[e] \in Event /\ LiveAt(t.projection[e], t.event[e]) /\ Says(t, e) =>
              Spoken(t, e)
<1>1. e # None /\ i # 0
  BY NothingAssumption DEF EventId, LocalId
<1>2. /\ Home(s, e) = i /\ Home(t, e) = i /\ Hidden(t, e) = Hidden(s, e)
  BY <1>1 DEF Rowed, Home, Hidden, ProjectionOf
<1>3. Turns(s, t, e)
  BY <1>1, <1>2 DEF Turns, Rowed
<1>4. ASSUME t.event[e] \in Event, LiveAt(t.projection[e], t.event[e]), Says(t, e)
      PROVE  Spoken(t, e)
  <2>0. t.event[e].revision \in Revision /\ t.event[e].tie \in Tie /\ t.event[e].deleted \in BOOLEAN
    BY <1>4 DEF Event
  <2>1. /\ t.event[e].revision \in Nat /\ t.event[e].tie \in Nat
        /\ t.event[e].deleted \in BOOLEAN
    <3>1. (\A n \in Revision : n \in Nat) /\ \A n \in Tie : n \in Nat
      BY StampAssumption DEF Revision
    <3> QED BY <2>0, <3>1
  <2>2. ~ WinsOver(t.projection[e], t.event[e])
    BY <1>4, <2>1 DEF WinsOver, LiveAt
  <2>3. Applied(t, e) => ~ t.event[e].deleted
    BY <1>4, <2>1 DEF Applied, ProjectionOf, Mark, LiveAt
  <2> QED BY <1>4, <2>2, <2>3 DEF Spoken, Says
<1> QED BY <1>1, <1>2, <1>3, <1>4 DEF SameRow

\* An outcome.
LEMMA WriteOutcomesTurns ==
  ASSUME NEW s, Fit(s), Rowed(s), NEW i \in LocalId, NEW done \in Done, NEW tie \in Tie,
         NEW t, t = WriteOutcomes(s, i, done, Tied(tie)), t # None
  PROVE  LET e == s.local[i] IN
         /\ e \in EventId /\ Turns(s, t, e) /\ SameRow(s, t, e)
         /\ Says(s, e) => Spoken(t, e)
<1> DEFINE ties == Tied(tie)
           e == s.local[i]
<1>1. ties \in [EventId -> Tie] /\ Sound(s) /\ Sound(t)
  BY TiedIsTie, WriteOutcomesKeeps DEF Fit, Keeps
<1>2. OutcomeWritten(s, t, i, done, ties)
  <2> HIDE DEF ties
  <2> QED BY <1>1, WriteOutcomesChanges DEF ties
<1>3. /\ e \in EventId /\ s.event[e] \in Event
      /\ t.history = s.history /\ t.local = s.local
      /\ Elsewhere(s, t, {e}) /\ LiveAt(t.projection[e], t.event[e])
      /\ t.projection[e].local = s.projection[e].local
      /\ t.projection[e].hidden = s.projection[e].hidden
      /\ t.event[e] \in Event /\ t.event[e].line = s.event[e].line
      /\ t.event[e].deleted = s.event[e].deleted
  <2> HIDE DEF ties
  <2>1. /\ e \in EventId /\ s.event[e] \in Event /\ CanAdvance(s.event[e])
        /\ t.history = s.history /\ t.local = s.local
        /\ Elsewhere(s, t, {e}) /\ LiveAt(t.projection[e], t.event[e])
        /\ t.projection[e].local = s.projection[e].local
        /\ t.projection[e].hidden = s.projection[e].hidden
        /\ t.event[e] = [Advance(s.event[e], ties[e]) EXCEPT !.done = done]
    BY <1>2 DEF OutcomeWritten
  <2> HIDE DEF e
  <2> QED BY <1>1, <2>1, NextCopy
<1>4. s.projection[e] # None /\ t.projection[e] # None
  BY <1>1, <1>3, NothingAssumption DEF Sound, Indexed, EventId
<1> HIDE DEF e, ties
<1>5. s.local[i] = e
  BY DEF e
<1>6. /\ Turns(s, t, e) /\ Home(t, e) = i /\ SameRow(s, t, e)
      /\ Says(t, e) => Spoken(t, e)
  BY <1>3, <1>4, <1>5, OneCopyTurns
<1>7. Home(s, e) = i
  BY <1>3, <1>5, NothingAssumption DEF Rowed, EventId
<1>8. Says(s, e) => Says(t, e)
  BY <1>3, <1>6, <1>7 DEF Says
<1> QED BY <1>3, <1>6, <1>8 DEF e

\* A line replaced.
LEMMA RewriteLineTurns ==
  ASSUME NEW s, Fit(s), Rowed(s), NEW i \in LocalId, s.local[i] # None,
         NEW line \in Line, NEW tie \in Tie,
         NEW t, t = RewriteLine(s, i, line, Tied(tie)), t # None
  PROVE  LET e == s.local[i] IN
         /\ e \in EventId /\ Turns(s, t, e) /\ SameRow(s, t, e)
         /\ Honest(s) /\ Says(s, e) => Spoken(t, e) /\ Says(t, e)
<1> DEFINE ties == Tied(tie)
           e == s.local[i]
           ev == [Advance(s.event[e], ties[e]) EXCEPT !.line = line]
<1>1. ties \in [EventId -> Tie] /\ Sound(s) /\ Sound(t)
  BY TiedIsTie, RewriteLineKeeps DEF Fit, Keeps
<1>2. e \in EventId /\ s.event[e] \in Event /\ s.projection[e] # None /\ s.local[i] = e
  BY <1>1, EventOfRow, NothingAssumption
<1>3. \/ t = s
      \/ /\ s.history[i] # None
         /\ t.history = [s.history EXCEPT ![i] = line]
         /\ t.local = s.local
         /\ \/ t.event = s.event /\ t.projection = s.projection /\ s.event[e].line = line
            \/ CanAdvance(s.event[e]) /\ Changed(s, t, e, ev)
  <2> HIDE DEF ties
  <2>1. t = RewriteLine(s, i, line, ties)
    BY DEF ties
  <2> QED BY <1>1, <2>1, RewriteLineChanges
<1>4. CASE t = s
  <2>1. Home(s, e) # 0
    BY <1>2, NothingAssumption DEF Rowed, EventId, LocalId
  <2> QED BY <1>2, <1>4, <2>1, StandingStillTurns DEF Honest, SameRow
<1>5. ASSUME s.history[i] # None, t.history = [s.history EXCEPT ![i] = line], t.local = s.local
      PROVE  /\ \A j \in LocalId \ {i} : t.history[j] = s.history[j]
             /\ t.history[i] = line /\ t.history[i] # None
             /\ t.local[i] # None /\ Home(s, e) = i
  BY <1>1, <1>2, <1>5, HistoryAssumption DEF Sound, Store, Rowed
<1>6. CASE /\ s.history[i] # None
           /\ t.history = [s.history EXCEPT ![i] = line]
           /\ t.local = s.local
           /\ t.event = s.event /\ t.projection = s.projection /\ s.event[e].line = line
  <2>1. Elsewhere(s, t, {e}) /\ Home(t, e) = Home(s, e) /\ Applied(t, e) = Applied(s, e)
    BY <1>6 DEF Elsewhere, Home, ProjectionOf, Applied
  <2> HIDE DEF e
  <2>2. Turns(s, t, e) /\ SameRow(s, t, e)
    <3>1. /\ t.projection[e] = s.projection[e] /\ s.projection[e] # None /\ t.local = s.local
          /\ t.event[e] = s.event[e] /\ s.local[i] = e /\ e \in EventId
          /\ \A j \in LocalId \ {i} : t.history[j] = s.history[j]
          /\ t.history[i] # None <=> s.history[i] # None
      BY <1>2, <1>5, <1>6
    <3> QED BY <2>1, <3>1, OneCopyTurns
  <2>3. Says(t, e)
    BY <1>5, <1>6, <2>1 DEF Says
  <2>4. Honest(s) => Spoken(t, e)
    BY <1>2, <1>5, <1>6, <2>1 DEF Honest, Spoken
  <2> QED BY <1>2, <2>2, <2>3, <2>4
<1>7. CASE /\ s.history[i] # None
           /\ t.history = [s.history EXCEPT ![i] = line]
           /\ t.local = s.local
           /\ CanAdvance(s.event[e]) /\ Changed(s, t, e, ev)
  <2>1. ev.line = line /\ ev.deleted = s.event[e].deleted
    BY <1>1, <1>2, <1>7, NextCopy
  <2>2. /\ t.event[e] = ev /\ ev \in Event /\ Elsewhere(s, t, {e})
        /\ t.projection[e] # None /\ t.projection[e].local = s.projection[e].local
        /\ t.projection[e].hidden = s.projection[e].hidden
        /\ LiveAt(t.projection[e], ev)
    BY <1>7, NothingAssumption DEF Changed
  <2> HIDE DEF e, ev
  <2>5. /\ t.event[e] \in Event /\ LiveAt(t.projection[e], t.event[e])
        /\ \A j \in LocalId \ {i} : t.history[j] = s.history[j]
        /\ t.history[i] # None <=> s.history[i] # None
        /\ t.local = s.local /\ t.event[e].deleted = s.event[e].deleted
    BY <1>5, <1>7, <2>1, <2>2
  <2>3. /\ Turns(s, t, e) /\ Home(t, e) = i /\ SameRow(s, t, e)
        /\ Says(t, e) => Spoken(t, e)
    BY <1>2, <2>2, <2>5, OneCopyTurns
  <2>4. Says(t, e)
    BY <1>5, <1>7, <2>1, <2>2, <2>3 DEF Says
  <2> QED BY <1>2, <2>3, <2>4
<1> HIDE DEF ev
<1> QED BY <1>3, <1>4, <1>6, <1>7

\* An event withheld, with its row.
LEMMA RowGoneTurns ==
  ASSUME NEW s, Fit(s), NEW t, NEW e \in EventId, RowGone(s, t, e, Home(s, e)), Rowed(s)
  PROVE  /\ Turns(s, t, e) /\ Says(t, e)
         /\ (t.projection[e] # None => ~ WinsOver(t.projection[e], t.event[e])) => Spoken(t, e)
<1>1. Home(t, e) = Home(s, e) /\ Home(s, e) \in LocalId \cup {0} /\ Hidden(t, e)
  BY HomeIsId DEF RowGone, Fit
<1>2. Home(t, e) # 0 => t.history[Home(t, e)] = None /\ t.local[Home(t, e)] = e
  BY <1>1 DEF RowGone, Rowed
<1> QED BY <1>1, <1>2 DEF RowGone, Turns, Says, Spoken

\* An event applied.
LEMMA ApplyEventTurns ==
  ASSUME NEW s, Fit(s), Rowed(s), NEW e \in EventId, s.event[e] # None,
         NEW t, t = ApplyEvent(s, e)
  PROVE  /\ Fit(t) /\ t.event = s.event /\ Turns(s, t, e)
         /\ Honest(s) => Spoken(t, e)
         /\ Says(s, e) => Says(t, e)
<1>1. /\ Fit(t) /\ t.event = s.event /\ Applied(t, e)
      /\ \A f \in EventId \ {e} : t.projection[f] = s.projection[f]
      /\ RowOfApplied(s, t, e)
  BY ApplyEventApplies DEF AppliedTo
<1>2. /\ Home(s, e) \in LocalId \cup {0} /\ Home(t, e) \in LocalId \cup {0}
      /\ s.event[e] \in Event
      /\ ~ s.event[e].deleted => s.event[e].line # None
  BY <1>1, HomeIsId, HistoryAssumption DEF Fit, Worded, Sound, Store
<1>3. t.projection[e] # None => ~ WinsOver(t.projection[e], t.event[e])
  BY <1>1, <1>2, LevelIsNotAhead DEF Applied, ProjectionOf
<1>4. Elsewhere(s, t, {e})
  BY <1>1 DEF Elsewhere
<1>5. /\ \A j \in LocalId : j # Home(t, e) =>
           t.local[j] = s.local[j] /\ t.history[j] = s.history[j]
      /\ Home(s, e) # 0 => Home(t, e) = Home(s, e)
  BY <1>1 DEF RowOfApplied
<1>6. Home(s, e) # 0 => t.local[Home(s, e)] = e
  BY <1>1, <1>2 DEF RowOfApplied, Rowed
<1>7. Home(s, e) # 0 => (s.history[Home(s, e)] # None <=> ~ Hidden(s, e))
  BY DEF Rowed
<1>8. CASE t = s
  BY <1>1, <1>8, StandingStillTurns DEF Honest
<1>9. CASE /\ s.event[e].deleted /\ Hidden(t, e) /\ Home(t, e) = Home(s, e)
           /\ Home(t, e) # 0 => t.history[Home(t, e)] = None
  <2>1. Turns(s, t, e)
    BY <1>4, <1>5, <1>6, <1>9 DEF Turns
  <2>2. Spoken(t, e) /\ Says(t, e)
    BY <1>3, <1>9 DEF Spoken, Says
  <2> QED BY <1>1, <2>1, <2>2
<1>10. CASE /\ ~ s.event[e].deleted /\ Home(t, e) # 0 /\ Hidden(t, e) = Hidden(s, e)
            /\ Home(s, e) = 0 => t.local[Home(t, e)] = e /\ s.history[Home(t, e)] = None
            /\ t.history[Home(t, e)] = IF Hidden(s, e) THEN s.history[Home(t, e)]
                                       ELSE s.event[e].line
  <2>1. t.local[Home(t, e)] = e
    BY <1>5, <1>6, <1>10
  <2>2. Hidden(s, e) => t.history[Home(t, e)] = None
    BY <1>5, <1>7, <1>10
  <2>3. ~ Hidden(s, e) => t.history[Home(t, e)] = s.event[e].line /\ s.event[e].line # None
    BY <1>2, <1>10
  <2>4. Turns(s, t, e)
    BY <1>4, <1>5, <1>10, <2>1, <2>2, <2>3 DEF Turns
  <2>5. Spoken(t, e) /\ Says(t, e)
    BY <1>1, <1>3, <1>10, <2>2, <2>3 DEF Spoken, Says
  <2> QED BY <1>1, <2>4, <2>5
<1> QED BY <1>1, <1>8, <1>9, <1>10 DEF RowOfApplied

\* A row that says its event is not touched by what is done about another event.
LEMMA SaysElsewhere ==
  ASSUME NEW s, Fit(s), Rowed(s), NEW t, Fit(t), OwnRows(t),
         NEW e \in EventId, Turns(s, t, e), NEW f \in EventId \ {e}, Says(s, f)
  PROVE  Says(t, f)
<1>1. Home(t, f) # 0 => Home(s, f) = Home(t, f) /\ t.history[Home(t, f)] = s.history[Home(t, f)]
  BY TurnsKeep
<1>2. t.event[f] = s.event[f]
  BY DEF Turns, Elsewhere
<1> QED BY <1>1, <1>2 DEF Says

\* Copies that win put in the place of those there were, and nothing applied yet.
LEMMA TableTakenKeeps ==
  ASSUME TypeOK, NEW s, Fit(s), Rowed(s), NEW t, Fit(t),
         t.history = s.history, t.local = s.local, t.projection = s.projection
  PROVE  /\ Rowed(t) /\ OwnRows(s) = OwnRows(t)
         /\ \A f \in EventId : Home(t, f) = Home(s, f) /\ Hidden(t, f) = Hidden(s, f)
         /\ \A f \in EventId : t.event[f] = s.event[f] /\ Says(s, f) => Says(t, f)
         /\ Honest(s) /\ Written(s.event) /\ Gains(s.event, t.event) => Honest(t)
<1>1. \A f \in EventId : Home(t, f) = Home(s, f) /\ Hidden(t, f) = Hidden(s, f)
  BY DEF Home, Hidden, ProjectionOf
<1>2. Rowed(t) /\ OwnRows(s) = OwnRows(t)
  <2>1. \A i \in LocalId : s.local[i] # None => s.local[i] \in EventId
    BY DEF Fit, Sound, Store
  <2> QED BY <1>1, <2>1 DEF Rowed, OwnRows
<1>3. ASSUME Honest(s), Written(s.event), Gains(s.event, t.event), NEW f \in EventId
      PROVE  Spoken(t, f)
  <2>1. /\ s.event \in Copies /\ t.event \in Copies
        /\ s.projection[f] # None => s.projection[f] \in Projection /\ s.event[f] # None
    BY DEF Fit, Sound, Store, Copies, Housed
  <2>2. /\ s.event[f] # None => t.event[f] # None
        /\ s.event[f] # None /\ t.event[f] # s.event[f] => WinsOver(t.event[f], s.event[f])
    BY <1>3, <2>1, GainsRise
  <2>3. CASE t.event[f] = s.event[f]
    BY <1>1, <1>3, <2>3 DEF Honest, Spoken, Applied, ProjectionOf
  <2>4. CASE s.projection[f] = None
    <3>1. Home(t, f) = 0
      BY <1>1, <2>4, HomeIsId DEF Fit
    <3> QED BY <2>4, <3>1 DEF Spoken
  <2>5. CASE t.event[f] # s.event[f] /\ s.projection[f] # None
    <3> DEFINE q == s.projection[f]
               a == t.event[f]
               b == s.event[f]
    <3>1. a \in Event /\ b \in Event /\ q \in Projection
      BY <2>1, <2>2, <2>5 DEF Copies
    <3>2. WinsOver(Mark(a), Mark(b)) /\ ~ WinsOver(Mark(q), Mark(b))
      BY <1>3, <2>1, <2>2, <2>5, WinsOverMarks DEF Honest, Spoken
    <3>3. Mark(a) \in Stamp /\ Mark(b) \in Stamp /\ Mark(q) \in Stamp
      BY <3>1, MarkOfEvent DEF Projection, Mark, Stamp
    <3>4. ~ WinsOver(Mark(q), Mark(a))
      BY <3>2, <3>3, StandsOver
    <3>5. Mark(q) # Mark(a)
      BY <3>2
    <3>6. ~ Applied(t, f)
      BY <2>5, <3>5 DEF Applied, ProjectionOf
    <3> QED BY <3>4, <3>6, WinsOverMarks DEF Spoken
  <2> QED BY <2>3, <2>4, <2>5
<1>4. \A f \in EventId : t.event[f] = s.event[f] /\ Says(s, f) => Says(t, f)
  BY <1>1 DEF Says
<1> QED BY <1>1, <1>2, <1>3, <1>4 DEF Honest

\* What applying one event leaves of the rows, whatever order the rows are in.
LEMMA ApplyEventHomes ==
  ASSUME NEW s, Fit(s), NEW e \in EventId, s.event[e] # None, NEW t, t = ApplyEvent(s, e)
  PROVE  \A f \in EventId : Home(s, f) # 0 => Home(t, f) = Home(s, f)
<1>1. /\ RowOfApplied(s, t, e)
      /\ \A f \in EventId \ {e} : t.projection[f] = s.projection[f]
  BY ApplyEventApplies DEF AppliedTo
<1>2. \A f \in EventId \ {e} : Home(t, f) = Home(s, f)
  BY <1>1 DEF Home, ProjectionOf
<1> QED BY <1>1, <1>2 DEF RowOfApplied

\* Applying them all never moves an event to another row, so no store on the way
\* gives one row to two events if the last does not.
LEMMA OwnRowsOnTheWay ==
  ASSUME NEW s, Fit(s), OwnRows(ApplyWinners(s)), NEW n \in 0 .. Events
  PROVE  Fit(ApplyUpTo(s)[n]) /\ ApplyUpTo(s)[n].event = s.event /\ OwnRows(ApplyUpTo(s)[n])
<1> DEFINE a == ApplyUpTo(s)
           Good(k) == /\ Fit(a[k]) /\ a[k].event = s.event
                      /\ \A i \in 0 .. Events : i <= k => \A f \in EventId :
                           Home(a[i], f) # 0 => Home(a[k], f) = Home(a[i], f)
           S == {k \in 0 .. Events : Good(k)}
<1>0. Events \in Nat
  BY HistoryAssumption
<1>1. /\ a[0] = s
      /\ \A k \in 0 .. Events : k # 0 => a[k] = ApplyNext(s, k, a[k - 1])
  BY ApplyUpToIs
<1>2. ApplyWinners(s) = a[Events]
  BY DEF ApplyWinners
<1> HIDE DEF a
<1>3. 0 \in S
  <2>1. \A i \in 0 .. Events : i <= 0 => i = 0
    BY <1>0
  <2> QED BY <1>0, <1>1, <2>1
<1>4. ASSUME NEW k \in 0 .. Events, k + 1 \in 0 .. Events, k \in S
      PROVE  k + 1 \in S
  <2>1. a[k + 1] = ApplyNext(s, k + 1, a[k])
    BY <1>0, <1>1, <1>4
  <2>2. k + 1 \in EventId /\ Good(k)
    BY <1>0, <1>4 DEF EventId
  <2>3. /\ Fit(a[k + 1]) /\ a[k + 1].event = s.event
        /\ \A f \in EventId : Home(a[k], f) # 0 => Home(a[k + 1], f) = Home(a[k], f)
    <3>1. CASE k + 1 \notin Known(s)
      BY <2>1, <2>2, <3>1 DEF ApplyNext
    <3>2. CASE k + 1 \in Known(s)
      <4>1. a[k + 1] = ApplyEvent(a[k], k + 1)
        BY <2>1, <3>2 DEF ApplyNext
      <4>2. a[k].event[k + 1] # None
        BY <2>2, <3>2 DEF Known
      <4> QED BY <2>2, <4>1, <4>2, ApplyEventHomes, ApplyEventApplies DEF AppliedTo
    <3> QED BY <3>1, <3>2
  <2>4. \A i \in 0 .. Events : i <= k + 1 => \A f \in EventId :
          Home(a[i], f) # 0 => Home(a[k + 1], f) = Home(a[i], f)
    <3> SUFFICES ASSUME NEW i \in 0 .. Events, i <= k + 1, NEW f \in EventId, Home(a[i], f) # 0
                 PROVE  Home(a[k + 1], f) = Home(a[i], f)
      OBVIOUS
    <3>1. i <= k \/ i = k + 1
      BY <1>0
    <3> QED BY <2>2, <2>3, <3>1
  <2> QED BY <1>4, <2>3, <2>4
<1>5. S = 0 .. Events
  <2> HIDE DEF S
  <2>1. S \in SUBSET (0 .. Events)
    BY DEF S
  <2> QED BY <1>3, <1>4, <2>1, UpToAll
<1>6. Good(n) /\ Good(Events) /\ n <= Events
  BY <1>0, <1>5
<1>7. OwnRows(a[n])
  BY <1>2, <1>6 DEF OwnRows
<1> QED BY <1>6, <1>7 DEF a

\* All of them applied.
LEMMA ApplyWinnersKeeps ==
  ASSUME NEW s, Fit(s), Rowed(s), NEW t, t = ApplyWinners(s), OwnRows(t)
  PROVE  /\ Rowed(t)
         /\ \A f \in EventId : /\ Home(s, f) # 0 => Home(t, f) = Home(s, f)
                               /\ Hidden(s, f) => Hidden(t, f)
                               /\ Says(s, f) => Says(t, f)
         /\ Honest(s) => Honest(t)
<1> DEFINE a == ApplyUpTo(s)
           Good(k) == /\ Rowed(a[k])
                      /\ \A f \in EventId : /\ Home(s, f) # 0 => Home(a[k], f) = Home(s, f)
                                            /\ Hidden(s, f) => Hidden(a[k], f)
                                            /\ Says(s, f) => Says(a[k], f)
                      /\ Honest(s) => Honest(a[k])
           S == {k \in 0 .. Events : Good(k)}
<1>0. Events \in Nat
  BY HistoryAssumption
<1>1. /\ a[0] = s
      /\ \A k \in 0 .. Events : k # 0 => a[k] = ApplyNext(s, k, a[k - 1])
  BY ApplyUpToIs
<1>2. t = a[Events]
  BY DEF ApplyWinners
<1>3. \A k \in 0 .. Events : Fit(a[k]) /\ a[k].event = s.event /\ OwnRows(a[k])
  BY OwnRowsOnTheWay
<1> HIDE DEF a
<1>4. 0 \in S
  BY <1>0, <1>1
<1>5. ASSUME NEW k \in 0 .. Events, k + 1 \in 0 .. Events, k \in S
      PROVE  k + 1 \in S
  <2>1. a[k + 1] = ApplyNext(s, k + 1, a[k])
    BY <1>0, <1>1, <1>5
  <2>2. k + 1 \in EventId /\ Good(k)
    BY <1>0, <1>5 DEF EventId
  <2>3. CASE k + 1 \notin Known(s)
    BY <1>5, <2>1, <2>2, <2>3 DEF ApplyNext
  <2>4. CASE k + 1 \in Known(s)
    <3> DEFINE e == k + 1
               u == a[k]
               v == a[k + 1]
    <3>1. v = ApplyEvent(u, e) /\ u.event[e] # None
      BY <1>3, <2>1, <2>4 DEF ApplyNext, Known
    <3>2. /\ Fit(u) /\ Rowed(u) /\ Fit(v) /\ OwnRows(v) /\ e \in EventId
      BY <1>3, <1>5, <2>2
    <3> HIDE DEF u, v, e
    <3>3. Turns(u, v, e) /\ (Honest(u) => Spoken(v, e))
      BY <3>1, <3>2, ApplyEventTurns
    <3>4. Turns(u, v, e) /\ (Says(u, e) => Says(v, e))
      BY <3>1, <3>2, ApplyEventTurns
    <3>5. /\ Rowed(v) /\ \A f \in EventId : Hidden(u, f) => Hidden(v, f)
          /\ \A f \in EventId : Home(u, f) # 0 => Home(v, f) = Home(u, f)
          /\ Honest(u) => Honest(v)
      BY <3>2, <3>3, <3>4, TurnsKeep
    <3>6. \A f \in EventId : Says(u, f) => Says(v, f)
      <4> TAKE f \in EventId
      <4>1. CASE f = e
        BY <3>4, <4>1
      <4>2. CASE f # e
        BY <3>2, <3>4, <4>2, SaysElsewhere
      <4> QED BY <4>1, <4>2
    <3>7. Good(k + 1)
      BY <2>2, <3>5, <3>6 DEF u, v
    <3> QED BY <1>5, <3>7
  <2> QED BY <2>3, <2>4
<1>6. S = 0 .. Events
  <2> HIDE DEF S
  <2>1. S \in SUBSET (0 .. Events)
    BY DEF S
  <2> QED BY <1>4, <1>5, <2>1, UpToAll
<1>7. Good(Events)
  BY <1>0, <1>6
<1> QED BY <1>2, <1>7

-----------------------------------------------------------------------------
(***************************************************************************)
(* What each step does to the stores: a line of the machine's own, a table *)
(* of copies taken in, an import, or everything applied.                   *)
(***************************************************************************)
\* A store after a step keeps its rows with their events, and what was withheld stays so.
Steady(s, t) ==
  /\ Rowed(t)
  /\ \A f \in EventId : /\ Home(s, f) # 0 => Home(t, f) = Home(s, f)
                        /\ Hidden(s, f) => Hidden(t, f)

Taken(m) ==
  \E table \in Copies : /\ store' = [store EXCEPT ![m] = [store[m] EXCEPT !.event = table]]
                        /\ Gains(store[m].event, table)

AppliedAt(m) == store' = [store EXCEPT ![m] = ApplyWinners(store[m])]

\* An index entry stays as long as rows stay with their events.
LEMMA SteadyIndex ==
  ASSUME NEW s, Fit(s), Rowed(s), NEW t, Steady(s, t), NEW i \in LocalId, s.local[i] # None
  PROVE  s.local[i] \in EventId /\ t.local[i] = s.local[i]
<1>1. s.local[i] \in EventId /\ i # 0
  BY EventOfRow DEF Fit, LocalId
<1>2. Home(s, s.local[i]) = i
  BY DEF Rowed
<1>3. Home(t, s.local[i]) = i
  BY <1>1, <1>2 DEF Steady
<1> QED BY <1>1, <1>3 DEF Steady, Rowed

\* A step of a session that puts a table.
LEMMA PutTakes ==
  ASSUME SyncIInv, NEW pc \in DOMAIN Following, NEW which \in {"live", "copy"},
         NEW events \in Copies, Put(pc, which, events), Gains(File(which), events)
  PROVE  /\ UNCHANGED <<flight, written>>
         /\ UNCHANGED store \/ \E m \in Machine : Taken(m)
<1>1. /\ sync.pc = pc
      /\ which = "live" => store' = [store EXCEPT ![sync.at].event = events]
      /\ which = "copy" => store' = store
      /\ UNCHANGED <<flight, written>>
  BY PutDoes DEF SyncIInv
<1>2. sync.pc # "idle"
  BY <1>1 DEF Following
<1>3. sync.at \in Machine /\ File("live") = store[sync.at].event
  BY <1>2, FileTable
<1> QED BY <1>1, <1>3 DEF Taken

\* What a step does that is neither a machine's own nor an import's.
LEMMA StoresBeside ==
  ASSUME SyncIInv,
         \/ UNCHANGED vars
         \/ \E m \in Machine : ImportRead(m)
         \/ \E near, far \in Machine : Begin(near, far)
         \/ Session \/ Abort
  PROVE  /\ UNCHANGED <<flight, written>>
         /\ \/ UNCHANGED store
            \/ \E m \in Machine : Taken(m)
            \/ \E m \in Machine : AppliedAt(m)
<1>1. sync.first \in {"live", "copy"} /\ Second \in {"live", "copy"}
  BY TwoFiles
<1>2. DOMAIN Following = {"read", "keep", "win", "overwrite", "back", "forth"}
  BY DEF Following
<1>3. CASE UNCHANGED vars
  BY <1>3 DEF vars
<1>4. CASE \/ \E m \in Machine : ImportRead(m)
           \/ \E near, far \in Machine : Begin(near, far)
           \/ Abort \/ Read \/ End
  BY <1>4 DEF ImportRead, Begin, Abort, Read, End
<1>5. CASE Keep
  BY <1>1, <1>2, <1>5, TablesPut, PutTakes DEF Keep, Put
<1>6. CASE Win
  BY <1>1, <1>2, <1>6, TablesPut, PutTakes DEF Win, Put
<1>7. CASE Overwrite
  BY <1>1, <1>2, <1>7, TablesPut, PutTakes DEF Overwrite, Put
<1>8. CASE Back
  BY <1>1, <1>2, <1>8, TablesPut, PutTakes DEF Back, Put
<1>9. CASE Forth
  BY <1>1, <1>2, <1>9, TablesPut, PutTakes DEF Forth, Put
<1>10. CASE Apply
  <2>1. sync.at \in Machine
    BY <1>10, ApplyDoes
  <2>2. AppliedAt(sync.at) /\ UNCHANGED <<flight, written>>
    BY <1>10 DEF Apply, AppliedAt
  <2> QED BY <2>1, <2>2
<1> QED BY <1>3, <1>4, <1>5, <1>6, <1>7, <1>8, <1>9, <1>10 DEF Session

-----------------------------------------------------------------------------
(***************************************************************************)
(* A machine's own step is a turn of one event: a new one, that of the     *)
(* command it is running, or one it takes away.                            *)
(***************************************************************************)
Entered(m, e, t) ==
  /\ written[e] = {}
  /\ \E i \in LocalId : t.local[i] = e /\ flight' = [flight EXCEPT ![m] = i]
  /\ ~ Hidden(t, e) /\ ~ t.event[e].deleted /\ store[m].history[Home(t, e)] = None
  /\ Spoken(t, e) /\ Says(t, e)

Continued(m, e, t) ==
  /\ flight[m] # None /\ e = store[m].local[flight[m]] /\ SameRow(store[m], t, e)
  /\ \/ flight' = [flight EXCEPT ![m] = None]
     \/ flight' = flight /\ (Honest(store[m]) /\ Says(store[m], e) => Says(t, e))
  /\ Honest(store[m]) /\ Says(store[m], e) => Spoken(t, e)

Withdrawn(m, e, t) ==
  /\ flight' = flight /\ doing \cap {"delete", "retire"} # {}
  /\ t.event[e] = store[m].event[e] \/ t.event[e].deleted
  /\ Says(t, e)
  /\ Honest(store[m]) => Spoken(t, e)

LocalTurn(m, e, t) ==
  /\ \E tie \in Tie : AuthorsAt(m, tie, t)
  /\ Turns(store[m], t, e)
  /\ Entered(m, e, t) \/ Continued(m, e, t) \/ Withdrawn(m, e, t)

\* Whatever a shell does alone takes its turn at one event.
LEMMA LocalTurns ==
  ASSUME SyncIInv, NEW m \in Machine, Local(m), Rowed(store[m])
  PROVE  \E e \in EventId : \E t : LocalTurn(m, e, t)
<1>1. Fit(store[m]) /\ flight \in [Machine -> LocalId \cup {None}]
  BY DEF SyncIInv, Fits, TypeOK
<1>2. ASSUME NEW line \in Line, Enter(m, line)
      PROVE  \E e \in EventId : \E t : LocalTurn(m, e, t)
  <2>1. PICK e \in EventId, tie \in Tie :
          /\ written[e] = {}
          /\ Edit(m, tie, AppendEntry(store[m], e, line, Tied(tie)))
    BY <1>2 DEF Enter
  <2>2. store[m].event[e] = None
    BY <2>1 DEF SyncIInv, Held, Written
  <2>3. NextId(store[m]) \in LocalId /\ flight' = [flight EXCEPT ![m] = NextId(store[m])]
    BY <1>2 DEF Enter
  <2> DEFINE t == AppendEntry(store[m], e, line, Tied(tie))
  <2>4. Edits(store[m], t, tie)
    BY <1>1, <2>2, <2>3, AppendEntryEdits
  <2>5. /\ Turns(store[m], t, e) /\ Spoken(t, e) /\ Says(t, e)
        /\ t.local[NextId(store[m])] = e /\ ~ t.event[e].deleted
        /\ ~ Hidden(t, e) /\ store[m].history[Home(t, e)] = None
    BY <1>1, <2>2, <2>3, AppendEntryTurns
  <2>6. AuthorsAt(m, tie, t)
    BY <2>1, <2>4 DEF AuthorsAt
  <2> HIDE DEF t
  <2> QED BY <2>1, <2>3, <2>5, <2>6 DEF LocalTurn, Entered
<1>3. ASSUME NEW line \in Line, Rewrite(m, line)
      PROVE  \E e \in EventId : \E t : LocalTurn(m, e, t)
  <2>1. PICK tie \in Tie : Edit(m, tie, RewriteLine(store[m], flight[m], line, Tied(tie)))
    BY <1>3 DEF Rewrite
  <2>2. flight[m] # None /\ flight[m] \in LocalId /\ flight' = flight
    BY <1>1, <1>3 DEF Rewrite
  <2> DEFINE t == RewriteLine(store[m], flight[m], line, Tied(tie))
             e == store[m].local[flight[m]]
  <2>3. t # None
    BY <2>1 DEF Edit
  <2>4. Edits(store[m], t, tie)
    BY <1>1, <2>2, <2>3, RewriteLineEdits
  <2>5. AuthorsAt(m, tie, t)
    BY <2>1, <2>4 DEF AuthorsAt
  <2>6. store[m].history[flight[m]] # None
    BY <2>3 DEF RewriteLine
  <2>7. e # None
    BY <1>1, <2>2, <2>6 DEF Fit, Housed, Rows
  <2>8. /\ e \in EventId /\ Turns(store[m], t, e) /\ SameRow(store[m], t, e)
        /\ Honest(store[m]) /\ Says(store[m], e) => Spoken(t, e) /\ Says(t, e)
    BY <1>1, <2>2, <2>3, <2>7, RewriteLineTurns
  <2> HIDE DEF t
  <2> QED BY <2>2, <2>5, <2>8 DEF LocalTurn, Continued
<1>4. ASSUME Finish(m)
      PROVE  \E e \in EventId : \E t : LocalTurn(m, e, t)
  <2>1. PICK status \in Status, dir \in Dir, tie \in Tie :
          Edit(m, tie, WriteOutcomes(store[m], flight[m],
                                     [status |-> status, dir |-> dir], Tied(tie)))
    BY <1>4 DEF Finish
  <2>2. flight[m] # None /\ flight[m] \in LocalId /\ flight' = [flight EXCEPT ![m] = None]
    BY <1>1, <1>4 DEF Finish
  <2> DEFINE done == [status |-> status, dir |-> dir]
             t == WriteOutcomes(store[m], flight[m], done, Tied(tie))
             e == store[m].local[flight[m]]
  <2>3. t # None /\ done \in Done /\ Edit(m, tie, t)
    BY <2>1 DEF Edit, Done
  <2> HIDE DEF done
  <2>4. Edits(store[m], t, tie)
    BY <1>1, <2>2, <2>3, WriteOutcomesEdits
  <2>5. AuthorsAt(m, tie, t)
    BY <2>3, <2>4 DEF AuthorsAt
  <2>6. /\ e \in EventId /\ Turns(store[m], t, e) /\ SameRow(store[m], t, e)
        /\ Says(store[m], e) => Spoken(t, e)
    BY <1>1, <2>2, <2>3, WriteOutcomesTurns
  <2> HIDE DEF t
  <2> QED BY <2>2, <2>5, <2>6 DEF LocalTurn, Continued
<1>5. ASSUME NEW e \in EventId, Delete(m, e)
      PROVE  \E t : LocalTurn(m, e, t)
  <2>1. PICK tie \in Tie : Edit(m, tie, DeleteEvents(store[m], {e}, Tied(tie)))
    BY <1>5 DEF Delete
  <2>2. store[m].event[e] # None /\ ~ store[m].event[e].deleted /\ flight' = flight
        /\ "delete" \in doing
    BY <1>5 DEF Delete, Known
  <2> DEFINE t == DeleteEvents(store[m], {e}, Tied(tie))
  <2>3. t # None
    BY <2>1 DEF Edit
  <2>4. /\ Edits(store[m], t, tie) /\ RowGone(store[m], t, e, Home(store[m], e))
        /\ t.event[e].deleted /\ Mark(t.projection[e]) = Mark(t.event[e])
    BY <1>1, <2>2, <2>3, DeleteEventsEdits
  <2>5. AuthorsAt(m, tie, t)
    BY <2>1, <2>4 DEF AuthorsAt
  <2> HIDE DEF t
  <2>6. t.event[e] \in Event
    <3>1. t.event[e] # store[m].event[e]
      BY <2>2, <2>4
    <3> QED BY <2>4, <3>1 DEF Edits, Authors
  <2>7. ~ WinsOver(t.projection[e], t.event[e])
    BY <2>4, <2>6, LevelIsNotAhead
  <2>8. Turns(store[m], t, e) /\ Says(t, e) /\ Spoken(t, e)
    BY <1>1, <2>4, <2>7, RowGoneTurns
  <2> QED BY <2>2, <2>4, <2>5, <2>8 DEF LocalTurn, Withdrawn
<1>6. ASSUME Retire(m)
      PROVE  \E e \in EventId : \E t : LocalTurn(m, e, t)
  <2> DEFINE i == Min(Rows(store[m]))
             t == DropHistory(DropOutcomes(HideLocals(store[m], {i}), {i}), {i})
             e == store[m].local[i]
  <2>1. PICK tie \in Tie : Edit(m, tie, t)
    BY <1>6 DEF Retire
  <2>2. Rows(store[m]) # {} /\ flight' = flight /\ "retire" \in doing
    BY <1>6 DEF Retire
  <2>3. i \in Rows(store[m])
    <3>1. Rows(store[m]) \in SUBSET LocalId
      BY DEF Rows
    <3> QED BY <2>2, <3>1, OldestIsOne
  <2> HIDE DEF i
  <2>4. /\ Edits(store[m], t, tie) /\ RowGone(store[m], t, e, i) /\ t.event = store[m].event
        /\ e \in EventId /\ store[m].projection[e] # None
        /\ t.projection[e] # None
        /\ Mark(t.projection[e]) = Mark(store[m].projection[e])
    BY <1>1, <2>3, RetireEdits
  <2>5. AuthorsAt(m, tie, t)
    BY <2>1, <2>4 DEF AuthorsAt
  <2>6. Home(store[m], e) = i
    BY <2>3, <2>4, NothingAssumption DEF Rowed, Rows, EventId
  <2> HIDE DEF t, e
  <2>7. Turns(store[m], t, e) /\ Says(t, e)
    BY <1>1, <2>4, <2>6, RowGoneTurns
  <2>8. Honest(store[m]) => Spoken(t, e)
    <3>1. ASSUME Honest(store[m])
          PROVE  ~ WinsOver(t.projection[e], t.event[e])
      <4>1. ~ WinsOver(store[m].projection[e], store[m].event[e])
        BY <2>4, <3>1 DEF Honest, Spoken
      <4> QED BY <2>4, <4>1, WinsOverMarks
    <3> QED BY <1>1, <2>4, <2>6, <3>1, RowGoneTurns
  <2> QED BY <2>2, <2>4, <2>5, <2>7, <2>8 DEF LocalTurn, Withdrawn
<1> QED BY <1>2, <1>3, <1>4, <1>5, <1>6 DEF Local

-----------------------------------------------------------------------------
(***************************************************************************)
(* The other steps: none gives a row to another event than it had, and     *)
(* where imports are in time none takes in a copy that does not win.       *)
(***************************************************************************)
\* What a machine's store is after a step that authors nothing.
Moved(s, t) ==
  /\ Gains(s.event, t.event)
  /\ \A f \in EventId : t.event[f] = s.event[f] /\ Says(s, f) => Says(t, f)
  /\ Honest(s) => Honest(t)

\* Nothing done to a store.
LEMMA LeftAlone ==
  ASSUME NEW s, Rowed(s)
  PROVE  Steady(s, s) /\ Moved(s, s)
BY DEF Steady, Moved, Gains

\* A table taken in.
LEMMA TakenMoves ==
  ASSUME SyncIInv, Fits', NEW m \in Machine, Taken(m), Rowed(store[m])
  PROVE  /\ Steady(store[m], store'[m]) /\ Moved(store[m], store'[m])
         /\ \A n \in Machine \ {m} : store'[n] = store[n]
<1>1. PICK table \in Copies :
        /\ store' = [store EXCEPT ![m] = [store[m] EXCEPT !.event = table]]
        /\ Gains(store[m].event, table)
  BY DEF Taken
<1> DEFINE s == store[m]
           t == store'[m]
<1>2. /\ Fit(s) /\ Fit(t) /\ Written(s.event) /\ s \in Store /\ TypeOK
      /\ t = [s EXCEPT !.event = table]
      /\ \A n \in Machine \ {m} : store'[n] = store[n]
  BY <1>1, StoreTable DEF SyncIInv, TypeOK, Fits, Held
<1> HIDE DEF s, t
<1>3. /\ t.history = s.history /\ t.local = s.local /\ t.projection = s.projection
      /\ t.event = table
  BY <1>2 DEF Store
<1>4. Rowed(s) /\ Gains(s.event, t.event)
  BY <1>1, <1>3 DEF s
<1>5. Steady(s, t) /\ Moved(s, t)
  BY <1>2, <1>3, <1>4, TableTakenKeeps DEF Steady, Moved
<1> QED BY <1>2, <1>5 DEF s, t

\* Everything applied.
LEMMA AppliedMoves ==
  ASSUME SyncIInv, RowsAreOwn', NEW m \in Machine, AppliedAt(m), Rowed(store[m])
  PROVE  /\ Steady(store[m], store'[m]) /\ Moved(store[m], store'[m])
         /\ \A n \in Machine \ {m} : store'[n] = store[n]
<1> DEFINE s == store[m]
           t == store'[m]
<1>1. /\ Fit(s) /\ t = ApplyWinners(s) /\ OwnRows(t)
      /\ \A n \in Machine \ {m} : store'[n] = store[n]
  BY DEF AppliedAt, SyncIInv, TypeOK, Fits, RowsAreOwn
<1> HIDE DEF t
<1>2. t.event = s.event
  BY <1>1, ApplyWinnersApplies
<1>3. Steady(s, t) /\ Moved(s, t)
  BY <1>1, <1>2, ApplyWinnersKeeps DEF Steady, Moved, Gains
<1> QED BY <1>1, <1>3 DEF t

\* An import puts a copy in the table and applies that event.
LEMMA ImportWrites ==
  ASSUME SyncIInv, NEW m \in Machine, ImportWrite(m)
  PROVE  \E table \in Copies, e \in EventId : \E u :
           /\ u = [store[m] EXCEPT !.event = table]
           /\ Fit(u) /\ u.event = table /\ table[e] # None
           /\ store' = [store EXCEPT ![m] = ApplyEvent(u, e)]
           /\ UNCHANGED <<flight, written>>
           /\ ImportInTime(m) => Gains(store[m].event, table)
<1> DEFINE e == import[m].id
           copy == import[m].copy
           s == store[m]
           u == [s EXCEPT !.event[e] = copy]
           t == ApplyEvent(u, e)
           table == [s.event EXCEPT ![e] = copy]
<1>1. /\ e \in EventId /\ copy \in Event /\ copy \in written[e]
      /\ Fit(s) /\ s.event \in Copies /\ Written(s.event)
  BY StoreTable DEF ImportWrite, SyncIInv, TypeOK, Held, Fits
<1>2. store' = [store EXCEPT ![m] = t] /\ UNCHANGED <<flight, written>>
  BY DEF ImportWrite
<1>3. /\ table \in Copies /\ table[e] # None
      /\ \A f \in EventId : s.event[f] # None => table[f] # None
  BY <1>1, MarkOfEvent DEF Copies
<1>4. Written(table)
  BY <1>1 DEF Written, Copies
<1>5. \A f \in EventId : table[f] # None /\ ~ table[f].deleted => table[f].line \in Line
  BY <1>4 DEF Written, SyncIInv, CopiesWorded
<1>6. u = [s EXCEPT !.event = table]
  OBVIOUS
<1>7. ImportInTime(m) => Gains(s.event, table)
  BY <1>1 DEF ImportInTime, Gains, Copies
<1> HIDE DEF s, u, e, copy
<1>8. Fit(u) /\ u.event = table
  <2> HIDE DEF table
  <2> QED BY <1>1, <1>3, <1>5, <1>6, FitWithEvents
<1> HIDE DEF table
<1> QED BY <1>1, <1>2, <1>3, <1>6, <1>7, <1>8 DEF s

\* The write of an import is steady, and a move when the copy it writes still wins.
LEMMA ImportMoves ==
  ASSUME SyncIInv, SyncIInv', RowsAreOwn', NEW m \in Machine, ImportWrite(m), Rowed(store[m])
  PROVE  /\ Steady(store[m], store'[m])
         /\ ImportInTime(m) => Moved(store[m], store'[m])
         /\ \A n \in Machine \ {m} : store'[n] = store[n]
         /\ UNCHANGED <<flight, written>>
<1>1. PICK table \in Copies, e \in EventId : \E u :
           /\ u = [store[m] EXCEPT !.event = table]
           /\ Fit(u) /\ u.event = table /\ table[e] # None
           /\ store' = [store EXCEPT ![m] = ApplyEvent(u, e)]
           /\ UNCHANGED <<flight, written>>
           /\ ImportInTime(m) => Gains(store[m].event, table)
  BY ImportWrites
<1>2. PICK u :
           /\ u = [store[m] EXCEPT !.event = table]
           /\ Fit(u) /\ u.event = table /\ table[e] # None
           /\ store' = [store EXCEPT ![m] = ApplyEvent(u, e)]
           /\ UNCHANGED <<flight, written>>
           /\ ImportInTime(m) => Gains(store[m].event, table)
  BY <1>1
<1> DEFINE s == store[m]
           t == store'[m]
<1>3. /\ Fit(s) /\ Fit(t) /\ OwnRows(t) /\ Written(s.event) /\ s \in Store /\ TypeOK
      /\ t = ApplyEvent(u, e) /\ Rowed(s)
      /\ u = [s EXCEPT !.event = table]
      /\ \A n \in Machine \ {m} : store'[n] = store[n]
      /\ ImportInTime(m) => Gains(s.event, u.event)
  BY <1>2, StoreTable DEF SyncIInv, TypeOK, Fits, Held, RowsAreOwn
<1> HIDE DEF s, t
<1>4. u.history = s.history /\ u.local = s.local /\ u.projection = s.projection
  BY <1>3 DEF Store
<1>5. /\ Rowed(u)
      /\ \A f \in EventId : Home(u, f) = Home(s, f) /\ Hidden(u, f) = Hidden(s, f)
      /\ \A f \in EventId : u.event[f] = s.event[f] /\ Says(s, f) => Says(u, f)
      /\ Honest(s) /\ Gains(s.event, u.event) => Honest(u)
  <2>1. Fit(s) /\ Rowed(s) /\ Fit(u) /\ TypeOK /\ Written(s.event)
    BY <1>2, <1>3
  <2> QED BY <1>4, <2>1, TableTakenKeeps
<1>6. /\ t.event = u.event /\ Turns(u, t, e)
      /\ Honest(u) => Spoken(t, e)
      /\ Says(u, e) => Says(t, e)
  BY <1>2, <1>3, <1>5, ApplyEventTurns
<1>7. /\ Rowed(t)
      /\ \A f \in EventId : /\ Home(u, f) # 0 => Home(t, f) = Home(u, f)
                            /\ Hidden(u, f) => Hidden(t, f)
      /\ Honest(u) => Honest(t)
  BY <1>2, <1>3, <1>5, <1>6, TurnsKeep
<1>8. \A f \in EventId : Says(u, f) => Says(t, f)
  <2> TAKE f \in EventId
  <2>1. CASE f = e
    BY <1>6, <2>1
  <2>2. CASE f # e
    BY <1>2, <1>3, <1>5, <1>6, <2>2, SaysElsewhere
  <2> QED BY <2>1, <2>2
<1>9. Steady(s, t)
  BY <1>5, <1>7 DEF Steady
<1>10. ImportInTime(m) => Moved(s, t)
  BY <1>3, <1>5, <1>6, <1>7, <1>8 DEF Moved
<1> QED BY <1>2, <1>3, <1>9, <1>10 DEF s, t

\* Any step but a machine's own.
LEMMA StepMoves ==
  ASSUME SyncIInv, SyncIInv', RowsAreOwn', \A m \in Machine : Rowed(store[m]),
         \/ UNCHANGED vars
         \/ \E m \in Machine : ImportRead(m) \/ ImportWrite(m)
         \/ \E near, far \in Machine : Begin(near, far)
         \/ Session \/ Abort,
         NEW m \in Machine
  PROVE  /\ UNCHANGED <<flight, written>>
         /\ Steady(store[m], store'[m])
         /\ (\A n \in Machine : ImportInTime(n)) => Moved(store[m], store'[m])
<1>1. CASE store' = store /\ UNCHANGED <<flight, written>>
  BY <1>1, LeftAlone
<1>2. ASSUME NEW n \in Machine, ImportWrite(n)
      PROVE  /\ UNCHANGED <<flight, written>>
             /\ Steady(store[m], store'[m])
             /\ (\A k \in Machine : ImportInTime(k)) => Moved(store[m], store'[m])
  BY <1>2, ImportMoves, LeftAlone
<1>3. ASSUME NEW n \in Machine, Taken(n)
      PROVE  Steady(store[m], store'[m]) /\ Moved(store[m], store'[m])
  BY <1>3, TakenMoves, LeftAlone DEF SyncIInv
<1>4. ASSUME NEW n \in Machine, AppliedAt(n)
      PROVE  Steady(store[m], store'[m]) /\ Moved(store[m], store'[m])
  BY <1>4, AppliedMoves, LeftAlone
<1>5. CASE \/ UNCHANGED vars
           \/ \E n \in Machine : ImportRead(n)
           \/ \E near, far \in Machine : Begin(near, far)
           \/ Session \/ Abort
  BY <1>1, <1>3, <1>4, <1>5, StoresBeside
<1> QED BY <1>2, <1>5

\* A machine's own step, in a store whose rows are its events'.
LEMMA LocalSteady ==
  ASSUME SyncIInv, RowsAreOwn', NEW m \in Machine, Rowed(store[m]),
         NEW e \in EventId, NEW t, LocalTurn(m, e, t)
  PROVE  /\ store'[m] = t /\ \A n \in Machine \ {m} : store'[n] = store[n]
         /\ Fit(store[m]) /\ Fit(t) /\ OwnRows(t)
         /\ Steady(store[m], t)
         /\ Honest(store[m]) /\ Spoken(t, e) => Honest(t)
<1>1. PICK tie \in Tie : AuthorsAt(m, tie, t)
  BY DEF LocalTurn
<1>2. /\ store'[m] = t /\ \A n \in Machine \ {m} : store'[n] = store[n]
      /\ Fit(store[m]) /\ Fit(t)
  BY <1>1 DEF AuthorsAt, Edit, Edits, SyncIInv, TypeOK, Fits
<1>3. OwnRows(t)
  BY <1>2 DEF RowsAreOwn
<1>4. Turns(store[m], t, e)
  BY DEF LocalTurn
<1> QED BY <1>2, <1>3, <1>4, TurnsKeep DEF Steady

\* So where no row is given to two events, every step keeps rows with their events.
LEMMA SteadyStep ==
  ASSUME SyncIInv, SyncIInv', [Next]_vars, RowsAreOwn', \A m \in Machine : Rowed(store[m]),
         NEW m \in Machine
  PROVE  Steady(store[m], store'[m])
<1>1. ASSUME NEW n \in Machine, Local(n)
      PROVE  Steady(store[m], store'[m])
  <2>1. PICK e \in EventId : \E t : LocalTurn(n, e, t)
    BY <1>1, LocalTurns
  <2>2. PICK t : LocalTurn(n, e, t)
    BY <2>1
  <2>3. /\ store'[n] = t /\ \A k \in Machine \ {n} : store'[k] = store[k]
        /\ Steady(store[n], t)
    BY <2>2, LocalSteady
  <2> QED BY <2>3, LeftAlone
<1>2. CASE \/ UNCHANGED vars
           \/ \E n \in Machine : ImportRead(n) \/ ImportWrite(n)
           \/ \E near, far \in Machine : Begin(near, far)
           \/ Session \/ Abort
  BY <1>2, StepMoves
<1> QED BY <1>1, <1>2 DEF Next

AllRowed == \A m \in Machine : Rowed(store[m])

\* Rowed is inductive as long as no row has two owners.
LEMMA AllRowedHolds == Spec /\ []RowsAreOwn => []AllRowed
<1>1. Init => AllRowed
  BY EmptyStoreIsRowed DEF Init, AllRowed
<1>2. SyncIInv /\ SyncIInv' /\ RowsAreOwn' /\ AllRowed /\ [Next]_vars => AllRowed'
  BY SteadyStep DEF AllRowed, Steady
<1> QED BY <1>1, <1>2, SyncIInvHolds, PTL DEF Spec

(***************************************************************************)
(* Where no row is given to two events, what a deletion or a trim took     *)
(* away stays away: no edit, no step of a session, no import, late or not, *)
(* brings the row of a withheld event back (sync.rs, apply_event keeps the *)
(* projection's `hidden`, and writes no row when it is set).               *)
(***************************************************************************)
THEOREM HiddenStaysHolds == Spec /\ []RowsAreOwn => HiddenStays
<1> DEFINE Stays == \A m \in Machine, e \in EventId :
             ProjectionOf(store[m], e).hidden =>
               /\ ProjectionOf(store'[m], e).hidden
               /\ \A i \in Rows(store'[m]) : store'[m].local[i] # e
<1>1. SyncIInv /\ SyncIInv' /\ RowsAreOwn' /\ AllRowed /\ [Next]_vars => [Stays]_vars
  <2> SUFFICES ASSUME SyncIInv, SyncIInv', RowsAreOwn', AllRowed, [Next]_vars,
                      NEW m \in Machine, NEW e \in EventId, Hidden(store[m], e)
               PROVE  /\ Hidden(store'[m], e)
                      /\ \A i \in Rows(store'[m]) : store'[m].local[i] # e
    BY DEF Hidden
  <2>1. Steady(store[m], store'[m])
    BY SteadyStep DEF AllRowed
  <2>2. Hidden(store'[m], e)
    BY <2>1 DEF Steady
  <2>3. ASSUME NEW i \in Rows(store'[m]), store'[m].local[i] = e
        PROVE  FALSE
    <3>1. i \in LocalId /\ i # 0 /\ store'[m].history[i] # None /\ e # None
      BY NothingAssumption DEF Rows, LocalId, EventId
    <3>2. Home(store'[m], e) = i
      BY <2>1, <2>3, <3>1 DEF Steady, Rowed
    <3> QED BY <2>1, <2>2, <3>1, <3>2 DEF Steady, Rowed
  <2> QED BY <2>2, <2>3
<1>2. Spec /\ []RowsAreOwn => []AllRowed /\ []SyncIInv
  BY AllRowedHolds, SyncIInvHolds, PTL
<1> HIDE DEF Stays
<1>3. Spec /\ []RowsAreOwn => [][Stays]_vars
  BY <1>1, <1>2, PTL DEF Spec
<1> QED BY <1>3 DEF Stays, HiddenStays

(***************************************************************************)
(* And an event that has been given a row and is neither deleted nor       *)
(* trimmed still has it: nothing that is applied about another event took  *)
(* it away.                                                                *)
(***************************************************************************)
THEOREM NothingIsLost == Spec /\ []RowsAreOwn => []NothingLost
<1>1. AllRowed => NothingLost
  BY DEF AllRowed, Rowed, NothingLost, Home, Hidden
<1> QED BY <1>1, AllRowedHolds, PTL

-----------------------------------------------------------------------------
(***************************************************************************)
(* The event of the command a machine is running.  No other machine writes *)
(* a live copy of it before the command's own machine does, so the only    *)
(* copy that can come in and win is a tombstone: this is why a completion, *)
(* which sets the projection to the stamp it writes without looking at the *)
(* row, leaves a row that says what the event says.                        *)
(***************************************************************************)
InFlight(m) == store[m].local[flight[m]]

Flying(m) ==
  flight[m] # None =>
    /\ InFlight(m) # None
    /\ \A c \in written[InFlight(m)] : ~ c.deleted => ~ WinsOver(c, store[m].event[InFlight(m)])
    /\ Says(store[m], InFlight(m))

Apart ==
  \A m, n \in Machine : m # n /\ flight[m] # None /\ flight[n] # None => InFlight(m) # InFlight(n)

HonestIInv ==
  /\ \A m \in Machine : Rowed(store[m]) /\ Honest(store[m]) /\ Flying(m)
  /\ Apart

\* What an edit adds to what was written.
LEMMA AuthoredTable ==
  ASSUME SyncIInv, NEW m \in Machine, NEW tie \in Tie, NEW t, AuthorsAt(m, tie, t),
         NEW f \in EventId
  PROVE  /\ t.event[f] = store[m].event[f] => written'[f] = written[f]
         /\ t.event[f] # store[m].event[f] =>
              /\ t.event[f] \in Event /\ written'[f] = written[f] \cup {t.event[f]}
              /\ store[m].event[f] # None => WinsOver(t.event[f], store[m].event[f])
<1>1. written' = [e \in EventId |-> IF e \in New(store[m], t)
                                    THEN written[e] \cup {t.event[e]} ELSE written[e]]
  BY DEF AuthorsAt, Edit
<1>2. CASE t.event[f] = store[m].event[f]
  BY <1>1, <1>2 DEF New
<1>3. CASE t.event[f] # store[m].event[f]
  <2>1. t.event[f] \in Event /\ t.event[f].revision = NextRevision(m, f)
    BY <1>3, AuthoredCopy
  <2>2. ASSUME store[m].event[f] # None
        PROVE  WinsOver(t.event[f], store[m].event[f])
    <3>1. store[m].event[f] \in Event
      BY <2>2, StoreTable, Entries DEF SyncIInv
    <3>2. t.event[f].revision = store[m].event[f].revision + 1
      BY <2>1, <2>2 DEF NextRevision
    <3>3. t.event[f].revision > store[m].event[f].revision
      BY <2>1, <3>1, <3>2, StampAssumption DEF Event, Revision
    <3> QED BY <3>3 DEF WinsOver
  <2> QED BY <1>1, <1>3, <2>1, <2>2 DEF New
<1> QED BY <1>2, <1>3

\* A copy that won is not beaten by what the copy before it was not beaten by.
LEMMA LiveCopiesStayBeaten ==
  ASSUME TypeOK, NEW e \in EventId, NEW a \in Event, NEW b \in Event, a = b \/ WinsOver(a, b),
         \A c \in written[e] : ~ c.deleted => ~ WinsOver(c, b)
  PROVE  \A c \in written[e] : ~ c.deleted => ~ WinsOver(c, a)
<1> SUFFICES ASSUME NEW c \in written[e], ~ c.deleted
             PROVE  ~ WinsOver(c, a)
  OBVIOUS
<1>1. c \in Event
  BY DEF TypeOK
<1>2. Mark(a) \in Stamp /\ Mark(b) \in Stamp /\ Mark(c) \in Stamp
  BY <1>1, MarkOfEvent
<1>3. (Mark(a) = Mark(b) \/ WinsOver(Mark(a), Mark(b))) /\ ~ WinsOver(Mark(c), Mark(b))
  BY WinsOverMarks
<1>4. ~ WinsOver(Mark(c), Mark(a))
  BY <1>2, <1>3, StandsOver
<1> QED BY <1>4, WinsOverMarks

\* An event in flight is an event the machine has, in a row of its own.
LEMMA InFlightIsEvent ==
  ASSUME SyncIInv, NEW m \in Machine, Flying(m), flight[m] # None
  PROVE  /\ InFlight(m) \in EventId /\ store[m].event[InFlight(m)] \in Event
         /\ store[m].event[InFlight(m)] \in written[InFlight(m)]
         /\ flight[m] \in LocalId
<1>1. /\ flight[m] \in LocalId /\ Sound(store[m])
      /\ store[m].local[flight[m]] # None
  BY DEF SyncIInv, TypeOK, Fits, Fit, Flying, InFlight
<1>2. InFlight(m) \in EventId /\ store[m].event[InFlight(m)] # None
  BY <1>1, EventOfRow DEF InFlight
<1>3. store[m].event[InFlight(m)] \in Event
  BY <1>2, StoreTable, Entries DEF SyncIInv
<1> QED BY <1>1, <1>2, <1>3 DEF SyncIInv, Held, Written

\* Copies that come in and win over the event in flight are tombstones.
LEMMA FlightMoves ==
  ASSUME SyncIInv, NEW m \in Machine, Rowed(store[m]), Flying(m),
         UNCHANGED <<flight, written>>, store'[m] \in Store,
         Steady(store[m], store'[m]), Moved(store[m], store'[m])
  PROVE  Flying(m)' /\ (flight[m] # None => InFlight(m)' = InFlight(m))
<1> SUFFICES ASSUME flight[m] # None
             PROVE  Flying(m)' /\ InFlight(m)' = InFlight(m)
  BY DEF Flying
<1> DEFINE e == InFlight(m)
           s == store[m]
           t == store'[m]
<1>1. /\ e \in EventId /\ s.event[e] \in Event /\ flight[m] \in LocalId
      /\ s.local[flight[m]] = e /\ e # None
      /\ \A c \in written[e] : ~ c.deleted => ~ WinsOver(c, s.event[e])
      /\ Says(s, e)
  BY InFlightIsEvent DEF Flying, InFlight
<1>2. t.local[flight[m]] = e
  BY <1>1, SteadyIndex DEF SyncIInv, Fits
<1>3. InFlight(m)' = e
  BY <1>2 DEF InFlight
<1>4. s.event \in Copies /\ t.event \in Copies /\ Written(s.event) /\ Gains(s.event, t.event)
  BY StoreTable DEF SyncIInv, Held, Moved, Store, Copies
<1>5. /\ t.event[e] \in Event
      /\ t.event[e] = s.event[e] \/ WinsOver(t.event[e], s.event[e])
  BY <1>1, <1>4, GainsRise, MarkOfEvent DEF SyncIInv, Copies
<1>6. \A c \in written[e] : ~ c.deleted => ~ WinsOver(c, t.event[e])
  BY <1>1, <1>5, LiveCopiesStayBeaten DEF SyncIInv
<1>7. Says(t, e)
  <2>1. CASE t.event[e] = s.event[e]
    BY <1>1, <2>1 DEF Moved
  <2>2. CASE t.event[e] # s.event[e]
    <3>1. t.event[e] \in written[e] /\ WinsOver(t.event[e], s.event[e])
      BY <1>1, <1>4, <1>5, <2>2 DEF Gains
    <3>2. t.event[e].deleted
      BY <1>1, <3>1
    <3> QED BY <3>2 DEF Says
  <2> QED BY <2>1, <2>2
<1> HIDE DEF t, e
<1>8. t = store'[m]
  BY DEF t
<1> QED BY <1>1, <1>3, <1>6, <1>7, <1>8 DEF Flying, e

\* What another machine authors is no live copy of it.
LEMMA FlightBeside ==
  ASSUME SyncIInv, HonestIInv, NEW n \in Machine, NEW e \in EventId, NEW t, LocalTurn(n, e, t),
         NEW m \in Machine \ {n}
  PROVE  Flying(m)' /\ store'[m] = store[m] /\ flight'[m] = flight[m]
<1>1. PICK tie \in Tie : AuthorsAt(n, tie, t)
  BY DEF LocalTurn
<1>2. store'[m] = store[m]
  BY <1>1 DEF AuthorsAt, Edit, SyncIInv, TypeOK
<1>3. flight'[m] = flight[m]
  BY DEF LocalTurn, Entered, Continued, Withdrawn, SyncIInv, TypeOK
<1> SUFFICES ASSUME flight[m] # None
             PROVE  Flying(m)'
  BY <1>2, <1>3 DEF Flying
<1> DEFINE f == InFlight(m)
<1>4. /\ f \in EventId /\ store[m].event[f] \in written[f] /\ Flying(m)
  BY InFlightIsEvent DEF HonestIInv
<1>5. InFlight(m)' = f
  BY <1>2, <1>3 DEF InFlight
<1>6. \A c \in written'[f] : ~ c.deleted => c \in written[f]
  <2>1. CASE t.event[f] = store[n].event[f]
    BY <1>1, <1>4, <2>1, AuthoredTable
  <2>2. CASE t.event[f] # store[n].event[f]
    <3>1. f = e
      BY <1>4, <2>2 DEF LocalTurn, Turns, Elsewhere
    <3>2. ~ Entered(n, e, t)
      BY <1>4, <3>1 DEF Entered
    <3>3. ~ Continued(n, e, t)
      BY <3>1 DEF Continued, HonestIInv, Apart, InFlight
    <3>4. t.event[f].deleted
      BY <2>2, <3>1, <3>2, <3>3 DEF LocalTurn, Withdrawn
    <3> QED BY <1>1, <1>4, <2>2, <3>4, AuthoredTable
  <2> QED BY <2>1, <2>2
<1> HIDE DEF f
<1> QED BY <1>2, <1>3, <1>4, <1>5, <1>6 DEF Flying, f

\* The machine's own step: the command begins, goes on or ends.
LEMMA FlightLocal ==
  ASSUME SyncIInv, HonestIInv, RowsAreOwn', NEW m \in Machine,
         NEW e \in EventId, NEW t, LocalTurn(m, e, t)
  PROVE  /\ Flying(m)'
         /\ \/ flight'[m] = None
            \/ InFlight(m)' = e /\ written[e] = {}
            \/ flight'[m] = flight[m] /\ InFlight(m)' = InFlight(m)
<1> DEFINE s == store[m]
<1>1. PICK tie \in Tie : AuthorsAt(m, tie, t)
  BY DEF LocalTurn
<1>2. /\ Rowed(s) /\ Honest(s) /\ Flying(m)
  BY DEF HonestIInv
<1>3. /\ store'[m] = t /\ Fit(s) /\ Fit(t) /\ OwnRows(t) /\ Steady(s, t)
  BY <1>2, LocalSteady
<1>4. Turns(s, t, e)
  BY DEF LocalTurn
<1>5. flight \in [Machine -> LocalId \cup {None}]
  BY DEF SyncIInv, TypeOK
<1>6. CASE Entered(m, e, t)
  <2>1. PICK i \in LocalId : t.local[i] = e /\ flight' = [flight EXCEPT ![m] = i]
    BY <1>6 DEF Entered
  <2>2. flight'[m] = i /\ InFlight(m)' = e /\ written[e] = {} /\ Says(t, e)
    BY <1>3, <1>5, <1>6, <2>1 DEF Entered, InFlight
  <2>3. \A c \in written'[e] : c = t.event[e] /\ t.event[e] \in Event
    BY <1>1, <2>2, AuthoredTable
  <2>4. \A c \in written'[e] : ~ c.deleted => ~ WinsOver(c, t.event[e])
    BY <2>3, LevelIsNotAhead
  <2>5. e # None
    BY NothingAssumption DEF EventId
  <2> QED BY <1>3, <2>2, <2>4, <2>5 DEF Flying
<1>7. CASE flight'[m] = None
  BY <1>7 DEF Flying
<1>8. ASSUME flight' = flight, flight[m] # None, Says(s, e) => Says(t, e)
      PROVE  Flying(m)' /\ InFlight(m)' = InFlight(m)
  <2> DEFINE f == InFlight(m)
  <2>1. /\ f \in EventId /\ s.event[f] \in Event /\ flight[m] \in LocalId
        /\ s.local[flight[m]] = f /\ f # None
        /\ \A c \in written[f] : ~ c.deleted => ~ WinsOver(c, s.event[f])
        /\ Says(s, f)
    BY <1>2, <1>8, InFlightIsEvent DEF Flying, InFlight
  <2>2. t.local[flight[m]] = f
    BY <1>2, <1>3, <2>1, SteadyIndex
  <2>3. InFlight(m)' = f
    BY <1>3, <1>8, <2>2 DEF InFlight
  <2>4. Says(t, f)
    <3>1. CASE f = e
      BY <1>8, <2>1, <3>1
    <3>2. CASE f # e
      <4> HIDE DEF f, s
      <4> QED BY <1>2, <1>3, <1>4, <2>1, <3>2, SaysElsewhere
    <3> QED BY <3>1, <3>2
  <2>5. \A c \in written'[f] : ~ c.deleted => ~ WinsOver(c, t.event[f])
    <3>1. CASE t.event[f] = s.event[f]
      BY <1>1, <2>1, <3>1, AuthoredTable
    <3>2. CASE t.event[f] # s.event[f]
      <4>1. /\ t.event[f] \in Event /\ written'[f] = written[f] \cup {t.event[f]}
            /\ WinsOver(t.event[f], s.event[f])
        BY <1>1, <2>1, <3>2, AuthoredTable, MarkOfEvent
      <4>2. \A c \in written[f] : ~ c.deleted => ~ WinsOver(c, t.event[f])
        <5> HIDE DEF f, s
        <5> QED BY <2>1, <4>1, LiveCopiesStayBeaten DEF SyncIInv
      <4>3. ~ WinsOver(t.event[f], t.event[f])
        BY <4>1, LevelIsNotAhead
      <4> QED BY <4>1, <4>2, <4>3
    <3> QED BY <3>1, <3>2
  <2> HIDE DEF f
  <2> QED BY <1>3, <2>1, <2>3, <2>4, <2>5 DEF Flying, f
<1>9. CASE Continued(m, e, t)
  <2>1. CASE flight' = [flight EXCEPT ![m] = None]
    BY <1>5, <1>7, <2>1
  <2>2. CASE flight' = flight /\ (Honest(s) /\ Says(s, e) => Says(t, e))
    BY <1>2, <1>8, <1>9, <2>2 DEF Continued
  <2> QED BY <1>9, <2>1, <2>2 DEF Continued
<1>10. CASE Withdrawn(m, e, t)
  <2>1. CASE flight[m] = None
    BY <1>7, <1>10, <2>1 DEF Withdrawn
  <2>2. CASE flight[m] # None
    BY <1>8, <1>10, <2>2 DEF Withdrawn
  <2> QED BY <2>1, <2>2
<1> QED BY <1>6, <1>9, <1>10 DEF LocalTurn

\* A machine's own step leaves every store honest.
LEMMA HonestLocal ==
  ASSUME SyncIInv, HonestIInv, RowsAreOwn', NEW n \in Machine, Local(n)
  PROVE  HonestIInv'
<1>1. PICK e \in EventId : \E t : LocalTurn(n, e, t)
  BY LocalTurns DEF HonestIInv
<1>2. PICK t : LocalTurn(n, e, t)
  BY <1>1
<1>3. /\ Rowed(store[n]) /\ Honest(store[n]) /\ Flying(n)
  BY DEF HonestIInv
<1>4. Spoken(t, e)
  <2>1. ASSUME Continued(n, e, t)
        PROVE  Spoken(t, e)
    <3>1. Says(store[n], e)
      BY <1>3, <2>1 DEF Continued, Flying, InFlight
    <3> QED BY <1>3, <2>1, <3>1 DEF Continued
  <2> QED BY <1>2, <1>3, <2>1 DEF LocalTurn, Entered, Withdrawn
<1>5. /\ store'[n] = t /\ \A m \in Machine \ {n} : store'[m] = store[m]
      /\ Steady(store[n], t) /\ Honest(t)
  BY <1>2, <1>3, <1>4, LocalSteady
<1>6. \A m \in Machine : Rowed(store'[m]) /\ Honest(store'[m])
  BY <1>5 DEF Steady, HonestIInv
<1>7. /\ Flying(n)'
      /\ \/ flight'[n] = None
         \/ InFlight(n)' = e /\ written[e] = {}
         \/ flight'[n] = flight[n] /\ InFlight(n)' = InFlight(n)
  BY <1>2, FlightLocal
<1>8. \A m \in Machine \ {n} :
        Flying(m)' /\ flight'[m] = flight[m] /\ InFlight(m)' = InFlight(m)
  BY <1>2, FlightBeside DEF InFlight
<1>9. Apart'
  <2>1. ASSUME NEW m \in Machine \ {n}, flight'[m] # None, flight'[n] # None
        PROVE  InFlight(m)' # InFlight(n)'
    <3>1. flight[m] # None /\ InFlight(m)' = InFlight(m) /\ Flying(m)
      BY <1>8, <2>1 DEF HonestIInv
    <3>2. store[m].event[InFlight(m)] \in written[InFlight(m)]
      BY <3>1, InFlightIsEvent
    <3>3. CASE InFlight(n)' = e /\ written[e] = {}
      BY <3>1, <3>2, <3>3
    <3>4. CASE flight'[n] = flight[n] /\ InFlight(n)' = InFlight(n)
      BY <2>1, <3>1, <3>4 DEF HonestIInv, Apart
    <3> QED BY <1>7, <2>1, <3>3, <3>4
  <2>2. ASSUME NEW m \in Machine \ {n}, NEW k \in Machine \ {n}, m # k,
               flight'[m] # None, flight'[k] # None
        PROVE  InFlight(m)' # InFlight(k)'
    BY <1>8, <2>2 DEF HonestIInv, Apart
  <2> SUFFICES ASSUME NEW m \in Machine, NEW k \in Machine, m # k,
                      flight'[m] # None, flight'[k] # None
               PROVE  InFlight(m)' # InFlight(k)'
    BY DEF Apart
  <2> QED BY <2>1, <2>2
<1> QED BY <1>6, <1>7, <1>8, <1>9 DEF HonestIInv

\* So does any step, where imports are in time.
LEMMA HonestStep ==
  ASSUME SyncIInv, SyncIInv', HonestIInv, RowsAreOwn', [Next]_vars,
         \A m \in Machine : ImportInTime(m)
  PROVE  HonestIInv'
<1>1. ASSUME NEW n \in Machine, Local(n) PROVE HonestIInv'
  BY <1>1, HonestLocal
<1>2. CASE \/ UNCHANGED vars
           \/ \E m \in Machine : ImportRead(m) \/ ImportWrite(m)
           \/ \E near, far \in Machine : Begin(near, far)
           \/ Session \/ Abort
  <2>1. \A m \in Machine : Rowed(store[m]) /\ Honest(store[m]) /\ Flying(m)
    BY DEF HonestIInv
  <2>2. \A m \in Machine : /\ UNCHANGED <<flight, written>>
                           /\ Steady(store[m], store'[m]) /\ Moved(store[m], store'[m])
    BY <1>2, <2>1, StepMoves
  <2>3. \A m \in Machine : store'[m] \in Store
    BY DEF SyncIInv, TypeOK
  <2>4. \A m \in Machine : Rowed(store'[m]) /\ Honest(store'[m])
    BY <2>1, <2>2 DEF Steady, Moved
  <2>5. \A m \in Machine : Flying(m)' /\ (flight[m] # None => InFlight(m)' = InFlight(m))
    BY <2>1, <2>2, <2>3, FlightMoves
  <2>6. Apart'
    BY <2>2, <2>5 DEF HonestIInv, Apart
  <2> QED BY <2>4, <2>5, <2>6 DEF HonestIInv
<1> QED BY <1>1, <1>2 DEF Next

(***************************************************************************)
(* Where imports are in time and no row is given to two events, both parts *)
(* of the invariant of a session hold at every step of it: equal stamps    *)
(* are equal events, and every row of every machine says what its event    *)
(* says once that event is applied there (sync.rs, apply_event), whatever  *)
(* the shells complete, rewrite, delete or trim meanwhile.                 *)
(***************************************************************************)
THEOREM SyncInvHolds == Spec /\ ImportsInTime /\ []RowsAreOwn => []SyncInv
<1>1. Init => HonestIInv
  BY EmptyStoreIsRowed DEF Init, HonestIInv, Flying, Apart
<1>2. SyncIInv /\ SyncIInv' /\ HonestIInv /\ RowsAreOwn' /\ [Next]_vars
        /\ [\A m \in Machine : ImportInTime(m)]_vars => HonestIInv'
  <2>1. CASE UNCHANGED vars
    BY <2>1 DEF vars, HonestIInv, Flying, Apart, InFlight
  <2>2. CASE \A m \in Machine : ImportInTime(m)
    BY <2>2, HonestStep
  <2> QED BY <2>1, <2>2
<1>3. Spec /\ ImportsInTime /\ []RowsAreOwn => []HonestIInv
  BY <1>1, <1>2, SyncIInvHolds, PTL DEF Spec, ImportsInTime
<1>4. SyncIInv /\ HonestIInv => RowsSayTheirEvents
  <2> SUFFICES ASSUME SyncIInv, HonestIInv, NEW m \in Machine, NEW i \in Rows(store[m])
               PROVE  LET e == store[m].local[i] IN
                      IF e = None THEN FALSE
                      ELSE Applied(store[m], e) =>
                             ~ store[m].event[e].deleted
                               /\ store[m].event[e].line = store[m].history[i]
    BY DEF RowsSayTheirEvents
  <2> QED BY HonestRows DEF SyncIInv, Fits, HonestIInv
<1>5. SameStampSameEvent /\ RowsSayTheirEvents => SyncInv
  BY DEF SyncInv
<1> QED BY <1>3, <1>4, <1>5, SyncIInvHolds, SameStampSameEventHolds, PTL

-----------------------------------------------------------------------------
(***************************************************************************)
(* Where nothing is deleted and nothing trimmed, every row that was ever   *)
(* written is there, so the id after the newest has no owner yet: no id is *)
(* given to two events, and what rests on that rests on nothing.           *)
(***************************************************************************)
TakesNothingAway == \A d \in Doing : d \cap {"delete", "retire"} = {}

Tidy(s) == Rowed(s) /\ OwnRows(s) /\ \A e \in EventId : ~ Hidden(s, e)

TidyInv ==
  /\ \A e \in EventId : \A c \in written[e] : ~ c.deleted
  /\ \A m \in Machine : Tidy(store[m])

\* A turn that leaves its event a row it had, or one nobody has.
LEMMA TurnsTidy ==
  ASSUME NEW s, Fit(s), Tidy(s), NEW t, Fit(t), NEW e \in EventId, Turns(s, t, e),
         ~ Hidden(t, e),
         Home(t, e) # 0 => Home(s, e) = Home(t, e) \/ s.history[Home(t, e)] = None
  PROVE  Tidy(t)
<1>1. \A f \in EventId \ {e} : Home(t, f) = Home(s, f) /\ Hidden(t, f) = Hidden(s, f)
  BY DEF Turns, Elsewhere, Home, Hidden, ProjectionOf
<1>2. \A f \in EventId : Home(s, f) # 0 => s.history[Home(s, f)] # None
  BY DEF Tidy, Rowed
<1>3. ASSUME NEW f \in EventId \ {e}, Home(t, f) # 0
      PROVE  Home(t, f) # Home(t, e)
  <2>1. Home(s, f) # 0 /\ s.history[Home(s, f)] # None /\ Home(t, f) = Home(s, f)
    BY <1>1, <1>2, <1>3
  <2>2. Home(s, f) # Home(s, e)
    BY <2>1 DEF Tidy, OwnRows
  <2> QED BY <2>1, <2>2
<1>4. OwnRows(t)
  <2> SUFFICES ASSUME NEW f \in EventId, NEW g \in EventId,
                      Home(t, f) # 0, Home(t, f) = Home(t, g)
               PROVE  f = g
    BY DEF OwnRows
  <2>1. CASE f = e \/ g = e
    BY <1>3, <2>1
  <2>2. CASE f # e /\ g # e
    BY <1>1, <2>2 DEF Tidy, OwnRows
  <2> QED BY <2>1, <2>2
<1>5. Rowed(t)
  BY <1>4, TurnsKeep DEF Tidy
<1> QED BY <1>1, <1>4, <1>5 DEF Tidy

\* Applying a live event.
LEMMA ApplyEventTidy ==
  ASSUME NEW s, Fit(s), Tidy(s), NEW e \in EventId, s.event[e] # None, ~ s.event[e].deleted,
         NEW t, t = ApplyEvent(s, e)
  PROVE  Fit(t) /\ t.event = s.event /\ Tidy(t)
<1>1. Fit(t) /\ t.event = s.event /\ RowOfApplied(s, t, e)
  BY ApplyEventApplies DEF AppliedTo
<1>2. Turns(s, t, e)
  BY ApplyEventTurns DEF Tidy
<1>3. CASE t = s
  BY <1>1, <1>3
<1>4. CASE /\ ~ s.event[e].deleted /\ Home(t, e) # 0 /\ Hidden(t, e) = Hidden(s, e)
           /\ Home(s, e) = 0 => t.local[Home(t, e)] = e /\ s.history[Home(t, e)] = None
           /\ t.history[Home(t, e)] = IF Hidden(s, e) THEN s.history[Home(t, e)]
                                      ELSE s.event[e].line
  <2>1. Home(s, e) # 0 => Home(t, e) = Home(s, e)
    BY <1>2 DEF Turns
  <2>2. ~ Hidden(t, e)
    BY <1>4 DEF Tidy
  <2>3. Tidy(t)
    BY <1>1, <1>2, <1>4, <2>1, <2>2, TurnsTidy
  <2> QED BY <1>1, <2>3
<1> QED BY <1>1, <1>3, <1>4 DEF RowOfApplied

\* And applying them all.
LEMMA ApplyWinnersTidy ==
  ASSUME NEW s, Fit(s), Tidy(s), \A e \in EventId : s.event[e] # None => ~ s.event[e].deleted
  PROVE  Tidy(ApplyWinners(s))
<1> DEFINE a == ApplyUpTo(s)
           Good(k) == Fit(a[k]) /\ a[k].event = s.event /\ Tidy(a[k])
           S == {k \in 0 .. Events : Good(k)}
<1>0. Events \in Nat
  BY HistoryAssumption
<1>1. /\ a[0] = s
      /\ \A k \in 0 .. Events : k # 0 => a[k] = ApplyNext(s, k, a[k - 1])
  BY ApplyUpToIs
<1>2. ApplyWinners(s) = a[Events]
  BY DEF ApplyWinners
<1> HIDE DEF a
<1>3. 0 \in S
  BY <1>0, <1>1
<1>4. ASSUME NEW k \in 0 .. Events, k + 1 \in 0 .. Events, k \in S
      PROVE  k + 1 \in S
  <2>1. a[k + 1] = ApplyNext(s, k + 1, a[k])
    BY <1>0, <1>1, <1>4
  <2>2. k + 1 \in EventId /\ Good(k)
    BY <1>0, <1>4 DEF EventId
  <2>3. CASE k + 1 \notin Known(s)
    BY <1>4, <2>1, <2>2, <2>3 DEF ApplyNext
  <2>4. CASE k + 1 \in Known(s)
    <3>1. a[k + 1] = ApplyEvent(a[k], k + 1)
      BY <2>1, <2>4 DEF ApplyNext
    <3>2. a[k].event[k + 1] # None /\ ~ a[k].event[k + 1].deleted
      BY <2>2, <2>4 DEF Known
    <3>3. Good(k + 1)
      BY <2>2, <3>1, <3>2, ApplyEventTidy
    <3> QED BY <1>4, <3>3
  <2> QED BY <2>3, <2>4
<1>5. S = 0 .. Events
  <2> HIDE DEF S
  <2>1. S \in SUBSET (0 .. Events)
    BY DEF S
  <2> QED BY <1>3, <1>4, <2>1, UpToAll
<1>6. Good(Events)
  BY <1>0, <1>5
<1> QED BY <1>2, <1>6

\* A machine's own step.
LEMMA LocalTidy ==
  ASSUME TakesNothingAway, SyncIInv, TidyInv, NEW n \in Machine, Local(n)
  PROVE  TidyInv'
<1> DEFINE s == store[n]
<1>1. Tidy(s) /\ Fit(s)
  BY DEF TidyInv, SyncIInv, Fits
<1>2. PICK e \in EventId : \E t : LocalTurn(n, e, t)
  BY <1>1, LocalTurns DEF Tidy
<1>3. PICK t : LocalTurn(n, e, t)
  BY <1>2
<1>4. PICK tie \in Tie : AuthorsAt(n, tie, t)
  BY <1>3 DEF LocalTurn
<1>5. Entered(n, e, t) \/ Continued(n, e, t)
  <2>1. doing \in Doing
    BY DEF SyncIInv, TypeOK
  <2> QED BY <1>3, <2>1 DEF LocalTurn, Withdrawn, TakesNothingAway
<1>6. /\ store'[n] = t /\ \A m \in Machine \ {n} : store'[m] = store[m]
      /\ Fit(t) /\ Turns(s, t, e)
  BY <1>3, <1>4 DEF LocalTurn, AuthorsAt, Edit, Edits, SyncIInv, TypeOK
<1>7. /\ ~ Hidden(t, e)
      /\ Home(t, e) # 0 => Home(s, e) = Home(t, e) \/ s.history[Home(t, e)] = None
  BY <1>1, <1>5 DEF Entered, Continued, SameRow, Tidy
<1>8. Tidy(t)
  BY <1>1, <1>6, <1>7, TurnsTidy
<1>9. t.event[e] # s.event[e] => ~ t.event[e].deleted
  <2>1. ASSUME Continued(n, e, t), t.event[e].deleted
        PROVE  FALSE
    <3>1. Home(s, e) # 0 /\ s.event[e].deleted
      BY <2>1 DEF Continued, SameRow
    <3>2. s.event[e] # None
      <4>1. s.projection[e] # None
        BY <1>1, <3>1, HomeIsId DEF Fit
      <4> QED BY <1>1, <4>1 DEF Fit, Housed
    <3>3. s.event[e] \in written[e]
      BY <3>2 DEF SyncIInv, Held, Written
    <3> QED BY <3>1, <3>3 DEF TidyInv
  <2> QED BY <1>5, <2>1 DEF Entered
<1>10. \A f \in EventId : \A c \in written'[f] : ~ c.deleted
  <2> TAKE f \in EventId
  <2>1. CASE t.event[f] = s.event[f]
    BY <1>4, <2>1, AuthoredTable DEF TidyInv
  <2>2. CASE t.event[f] # s.event[f]
    <3>1. f = e
      BY <1>6, <2>2 DEF Turns, Elsewhere
    <3>2. written'[f] = written[f] \cup {t.event[f]}
      BY <1>4, <2>2, AuthoredTable
    <3> QED BY <1>9, <2>2, <3>1, <3>2 DEF TidyInv
  <2> QED BY <2>1, <2>2
<1>11. \A m \in Machine : Tidy(store'[m])
  BY <1>6, <1>8 DEF TidyInv
<1> HIDE DEF s
<1> QED BY <1>10, <1>11 DEF TidyInv

\* A table of live copies in the place of another.
LEMMA TableTidy ==
  ASSUME SyncIInv, TidyInv, NEW m \in Machine, NEW table \in Copies, NEW u,
         u = [store[m] EXCEPT !.event = table], Fit(u)
  PROVE  Tidy(u) /\ u.event = table
<1> DEFINE s == store[m]
<1>1. Fit(s) /\ Tidy(s) /\ s \in Store /\ TypeOK
  BY StoreTable DEF SyncIInv, Fits, TidyInv
<1>2. u = [s EXCEPT !.event = table]
  OBVIOUS
<1> HIDE DEF s
<1>3. /\ u.history = s.history /\ u.local = s.local /\ u.projection = s.projection
      /\ u.event = table
  BY <1>1, <1>2 DEF Store
<1>4. /\ Rowed(u) /\ OwnRows(s) = OwnRows(u)
      /\ \A f \in EventId : Hidden(u, f) = Hidden(s, f)
  BY <1>1, <1>3, TableTakenKeeps DEF Tidy
<1> QED BY <1>1, <1>3, <1>4 DEF Tidy

\* Any step.
LEMMA TidyStep ==
  ASSUME TakesNothingAway, SyncIInv, SyncIInv', TidyInv, [Next]_vars
  PROVE  TidyInv'
<1>1. ASSUME NEW n \in Machine, Local(n) PROVE TidyInv'
  BY <1>1, LocalTidy
<1>2. ASSUME written' = written, NEW n \in Machine, Tidy(store'[n]),
             \A m \in Machine \ {n} : store'[m] = store[m]
      PROVE  TidyInv'
  BY <1>2 DEF TidyInv
<1>3. ASSUME NEW m \in Machine, Fits'
      PROVE  \A e \in EventId : store'[m].event[e] # None /\ written' = written =>
               ~ store'[m].event[e].deleted
  BY <1>3 DEF SyncIInv, Held, Written, TidyInv
<1>4. ASSUME NEW n \in Machine, Taken(n), written' = written
      PROVE  TidyInv'
  <2>1. PICK table \in Copies : store' = [store EXCEPT ![n] = [store[n] EXCEPT !.event = table]]
    BY <1>4 DEF Taken
  <2>2. /\ store'[n] = [store[n] EXCEPT !.event = table] /\ Fit(store'[n])
        /\ \A m \in Machine \ {n} : store'[m] = store[m]
    BY <2>1 DEF SyncIInv, TypeOK, Fits
  <2>3. Tidy(store'[n])
    BY <2>2, TableTidy
  <2> QED BY <1>2, <1>4, <2>2, <2>3
<1>5. ASSUME NEW n \in Machine, AppliedAt(n), written' = written
      PROVE  TidyInv'
  <2>1. /\ store'[n] = ApplyWinners(store[n]) /\ Fit(store[n]) /\ Tidy(store[n])
        /\ \A m \in Machine \ {n} : store'[m] = store[m]
    BY <1>5 DEF AppliedAt, SyncIInv, TypeOK, Fits, TidyInv
  <2>2. \A e \in EventId : store[n].event[e] # None => ~ store[n].event[e].deleted
    BY DEF SyncIInv, Held, Written, TidyInv
  <2>3. Tidy(store'[n])
    BY <2>1, <2>2, ApplyWinnersTidy
  <2> QED BY <1>2, <1>5, <2>1, <2>3
<1>6. ASSUME NEW n \in Machine, ImportWrite(n)
      PROVE  TidyInv'
  <2>1. PICK table \in Copies, e \in EventId : \E u :
           /\ u = [store[n] EXCEPT !.event = table]
           /\ Fit(u) /\ u.event = table /\ table[e] # None
           /\ store' = [store EXCEPT ![n] = ApplyEvent(u, e)]
           /\ UNCHANGED <<flight, written>>
    BY <1>6, ImportWrites
  <2>2. PICK u :
           /\ u = [store[n] EXCEPT !.event = table]
           /\ Fit(u) /\ u.event = table /\ table[e] # None
           /\ store' = [store EXCEPT ![n] = ApplyEvent(u, e)]
           /\ UNCHANGED <<flight, written>>
    BY <2>1
  <2>3. /\ store'[n] = ApplyEvent(u, e)
        /\ \A m \in Machine \ {n} : store'[m] = store[m]
    BY <2>2 DEF SyncIInv, TypeOK
  <2>4. Tidy(u)
    BY <2>2, TableTidy
  <2>5. store'[n].event = u.event
    <3> DEFINE t == ApplyEvent(u, e)
    <3>1. u.event[e] # None /\ Fit(u)
      BY <2>2
    <3>2. AppliedTo(u, t, e)
      BY <3>1, ApplyEventApplies
    <3>3. store'[n] = t
      BY <2>3
    <3> HIDE DEF t
    <3> QED BY <3>2, <3>3 DEF AppliedTo
  <2>6. u.event[e] # None /\ ~ u.event[e].deleted
    BY <1>3, <2>2, <2>5 DEF SyncIInv
  <2>7. Tidy(store'[n])
    <3> DEFINE t == store'[n]
    <3>1. Fit(u) /\ u.event[e] # None /\ ~ u.event[e].deleted /\ t = ApplyEvent(u, e)
      BY <2>2, <2>3, <2>6
    <3> HIDE DEF t
    <3>2. Tidy(t)
      BY <2>4, <3>1, ApplyEventTidy
    <3> QED BY <3>2 DEF t
  <2> QED BY <1>2, <2>2, <2>3, <2>7
<1>7. CASE \/ UNCHANGED vars
           \/ \E n \in Machine : ImportRead(n)
           \/ \E near, far \in Machine : Begin(near, far)
           \/ Session \/ Abort
  <2>1. CASE UNCHANGED store /\ UNCHANGED written
    BY <2>1 DEF TidyInv
  <2> QED BY <1>4, <1>5, <1>7, <2>1, StoresBeside
<1> QED BY <1>1, <1>6, <1>7 DEF Next

(***************************************************************************)
(* The row ids NextId gives out (append_entry, apply_event) are given to   *)
(* one event each, for as long as nothing is deleted or trimmed, whatever  *)
(* sessions and imports bring in.                                          *)
(***************************************************************************)
THEOREM RowsAreOwnHolds == TakesNothingAway => (Spec => []RowsAreOwn)
<1> SUFFICES ASSUME TakesNothingAway PROVE Spec => []RowsAreOwn
  OBVIOUS
<1>1. Init => TidyInv
  <2>1. \A e \in EventId : ~ Hidden(EmptyStore, e) /\ Home(EmptyStore, e) = 0
    BY DEF EmptyStore, Hidden, Home, ProjectionOf, Unprojected
  <2>2. Tidy(EmptyStore)
    BY <2>1, EmptyStoreIsRowed DEF Tidy, OwnRows
  <2> QED BY <2>2 DEF Init, TidyInv
<1>2. SyncIInv /\ SyncIInv' /\ TidyInv /\ [Next]_vars => TidyInv'
  BY TidyStep
<1>3. TidyInv => RowsAreOwn
  BY DEF TidyInv, Tidy, RowsAreOwn
<1> QED BY <1>1, <1>2, <1>3, SyncIInvHolds, PTL DEF Spec
=============================================================================
