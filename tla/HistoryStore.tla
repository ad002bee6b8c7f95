---------------------------- MODULE HistoryStore ----------------------------
(***************************************************************************)
(* One profile's history database (crates/oslo-base/src/track): the tables *)
(* it keeps about command lines and the transactions that change them.     *)
(*                                                                         *)
(* A store is a record of tables, and every transaction is an operator     *)
(* from a store to the store it commits, or to None where the code's `?`   *)
(* abandons it.  The modules that extend this one decide who runs which    *)
(* transaction when.                                                       *)
(***************************************************************************)
EXTENDS Stamp, FiniteSets, FiniteSetsExt

CONSTANTS
  Events,  \* how many events are ever created: bounds both kinds of id
  Line,    \* the command lines
  Blank,   \* String::new(), all that a tombstone keeps of its line
  Dir,     \* the directories commands run in
  Status   \* what a finished command reports

ASSUME HistoryAssumption ==
  /\ Events \in Nat
  /\ Blank \notin Line /\ None \notin Line

\* Event ids are random 32-byte strings; the numbers keep their order only.
EventId == 1 .. Events
\* A log row's id is one above the newest, so it never passes the event count.
LocalId == 1 .. Events

\* What a command did: its status, and the directory its outcome names.
Done == [status : Status, dir : Dir]
\* The aggregate's key.  An imported event counts under its host's directories.
RunKey == [imported : BOOLEAN, dir : Dir, line : Line]

Event == [revision : Revision, deleted : BOOLEAN, tie : Tie,
          line : Line \cup {Blank}, done : Done \cup {None}]

(***************************************************************************)
(* A projection says what of its event this store has put in the local     *)
(* tables: under which row, at which stamp, whether the row is withheld,   *)
(* and which run it stands behind.                                         *)
(***************************************************************************)
Projection == [local : LocalId \cup {0}, revision : Revision, deleted : BOOLEAN,
               tie : Tie, hidden : BOOLEAN, run : RunKey \cup {None}]

Unprojected == [local |-> 0, revision |-> 0, deleted |-> FALSE, tie |-> 0,
                hidden |-> FALSE, run |-> None]

Store == [history : [LocalId -> Line \cup {None}],       \* Tree::History
          outcome : [LocalId -> Done \cup {None}],       \* Tree::Outcome
          local : [LocalId -> EventId \cup {None}],      \* Tree::HistoryEvent
          event : [EventId -> Event \cup {None}],        \* Tree::SyncEvent
          projection : [EventId -> Projection \cup {None}],
          run : [RunKey -> Nat]]                         \* Tree::Run, 0 for no row

\* Nothing is neither an id nor a status nor a record or key of these tables nor a store.
ASSUME NothingAssumption ==
  /\ None \notin Nat /\ None \notin Done /\ None \notin Status /\ None \notin RunKey
  /\ None \notin Event /\ None \notin Projection /\ None \notin Store

EmptyStore == [history |-> [i \in LocalId |-> None],
               outcome |-> [i \in LocalId |-> None],
               local |-> [i \in LocalId |-> None],
               event |-> [e \in EventId |-> None],
               projection |-> [e \in EventId |-> None],
               run |-> [k \in RunKey |-> 0]]

\* The rows' index names events this store has, and has applied once at least.
Indexed(s) ==
  \A i \in LocalId : s.local[i] # None =>
    s.event[s.local[i]] # None /\ s.projection[s.local[i]] # None

\* A transaction that answered None leaves the file as it was.
Commit(s, t) == IF t = None THEN s ELSE t

Rows(s) == {i \in LocalId : s.history[i] # None}
Known(s) == {e \in EventId : s.event[e] # None}

-----------------------------------------------------------------------------
(***************************************************************************)
(* The aggregate.                                                          *)
(***************************************************************************)
RecordRun(s, dir, line) ==
  [s EXCEPT !.run[[imported |-> FALSE, dir |-> dir, line |-> line]] = @ + 1]

\* Mutant: a run is taken back whether or not its row is still there.
TakeBackRunUnchecked(s, dir, line) ==
  [s EXCEPT !.run[[imported |-> FALSE, dir |-> dir, line |-> line]] = @ - 1]

TakeBackRun(s, dir, line) ==
  [s EXCEPT !.run[[imported |-> FALSE, dir |-> dir, line |-> line]] =
     IF @ > 0 THEN @ - 1 ELSE 0]

ForgetRuns(s) == [s EXCEPT !.run = [k \in RunKey |-> 0]]
ForgetRunsOf(s, line) ==
  [s EXCEPT !.run = [k \in RunKey |-> IF k.line = line THEN 0 ELSE @[k]]]

\* The run an event stands behind, once it says how it ended.
ContributionFor(ev, imported) ==
  IF ev.done = None \/ ev.line = Blank THEN None
  ELSE [imported |-> imported, dir |-> ev.done.dir, line |-> ev.line]

AddContribution(run, k) == IF k = None THEN run ELSE [run EXCEPT ![k] = @ + 1]
RemoveContribution(run, k) ==
  IF k = None THEN run ELSE [run EXCEPT ![k] = IF @ > 0 THEN @ - 1 ELSE 0]

-----------------------------------------------------------------------------
(***************************************************************************)
(* One line: appended when it is entered, completed when it has finished,  *)
(* rewritten when a rule keeps something else.  `tie` is the tie-breaker   *)
(* rolled for each event the transaction changes.                          *)
(***************************************************************************)
\* Mutant: the next id counts the rows there are.
NextIdByCount(s) == Cardinality(Rows(s)) + 1

NextId(s) == IF Rows(s) = {} THEN 1 ELSE Max(Rows(s)) + 1

\* The projection at the stamp of ev.
At(p, ev) == [p EXCEPT !.revision = ev.revision, !.deleted = ev.deleted, !.tie = ev.tie]

AppendEntry(s, e, line, tie) ==
  LET i == NextId(s)
      ev == [revision |-> 1, deleted |-> FALSE, tie |-> tie[e], line |-> line, done |-> None]
  IN [s EXCEPT !.history[i] = line, !.local[i] = e, !.event[e] = ev,
               !.projection[e] = At([Unprojected EXCEPT !.local = i], ev)]

\* Mutant: a rewrite reaches the row and not the event.
RewriteLocalNothing(s, i, line, tie) == s

RewriteLocal(s, i, line, tie) ==
  LET e == s.local[i] IN
  IF e = None THEN None
  ELSE IF s.event[e].line = line THEN s
  ELSE IF ~ CanAdvance(s.event[e]) THEN None
  ELSE LET ev == [Advance(s.event[e], tie[e]) EXCEPT !.line = line]
           p == s.projection[e]
           next == IF p.run = None \/ ev.done = None THEN None
                   ELSE [p.run EXCEPT !.line = line]
       IN [s EXCEPT !.event[e] = ev,
                    !.run = AddContribution(RemoveContribution(@, p.run), next),
                    !.projection[e] = [At(p, ev) EXCEPT !.deleted = FALSE, !.run = next]]

RewriteLine(s, i, line, tie) ==
  IF s.history[i] = None THEN None
  ELSE IF s.history[i] = line THEN s
  ELSE RewriteLocal([s EXCEPT !.history[i] = line], i, line, tie)

\* Mutant: finishing a command brings its event back from the dead.
CompleteLocalRevives(s, i, done, tie) ==
  LET e == s.local[i] IN
  IF e = None THEN None
  ELSE IF ~ CanAdvance(s.event[e]) THEN None
  ELSE LET ev == [Advance(s.event[e], tie[e]) EXCEPT !.done = done, !.deleted = FALSE]
       IN [s EXCEPT !.event[e] = ev, !.projection[e] = At(@, ev)]

\* Mutant: a completion is written in place, under the stamp it found.
CompleteLocalInPlace(s, i, done, tie) ==
  LET e == s.local[i] IN
  IF e = None THEN None ELSE [s EXCEPT !.event[e].done = done]

\* Mutant: the projection stays at the stamp the event had.
CompleteLocalStale(s, i, done, tie) ==
  LET e == s.local[i] IN
  IF e = None THEN None
  ELSE IF ~ CanAdvance(s.event[e]) THEN None
  ELSE [s EXCEPT !.event[e] = [Advance(@, tie[e]) EXCEPT !.done = done]]

CompleteLocal(s, i, done, tie) ==
  LET e == s.local[i] IN
  IF e = None THEN None
  ELSE IF ~ CanAdvance(s.event[e]) THEN None
  ELSE LET ev == [Advance(s.event[e], tie[e]) EXCEPT !.done = done]
           p == s.projection[e]
           next == ContributionFor(ev, FALSE)
           settled(run, k) ==
             [s EXCEPT !.event[e] = ev, !.run = run,
                       !.projection[e] = [At(p, ev) EXCEPT !.deleted = FALSE, !.run = k]]
       IN IF p.run # None
          THEN IF next = None THEN None
               ELSE settled(AddContribution(RemoveContribution(s.run, p.run), next), next)
          ELSE settled(s.run, IF next = None THEN None
                              ELSE IF s.run[next] = 0 THEN None ELSE next)

WriteOutcomes(s, i, done, tie) ==
  CompleteLocal([s EXCEPT !.outcome[i] = done], i, done, tie)

-----------------------------------------------------------------------------
(***************************************************************************)
(* Taking lines away.  A deletion leaves a tombstone, an event with        *)
(* nothing in it; a trim hides the row and leaves the event alone.         *)
(***************************************************************************)
\* Mutant: only the flag is set.
BuriedKeepingLine(ev, tie) == [Advance(ev, tie) EXCEPT !.deleted = TRUE]

Buried(ev, tie) ==
  [Advance(ev, tie) EXCEPT !.deleted = TRUE, !.line = Blank, !.done = None]

ProjectionOf(s, e) == IF s.projection[e] = None THEN Unprojected ELSE s.projection[e]

\* Every event of es is a tombstone, withheld, with no run behind it.
Bury(s, es, tie) ==
  LET buried == [e \in EventId |-> IF e \in es /\ ~ s.event[e].deleted
                                   THEN Buried(s.event[e], tie[e]) ELSE s.event[e]]
      standing(k) == Cardinality({e \in es : ProjectionOf(s, e).run = k})
  IN IF \E e \in es : ~ s.event[e].deleted /\ ~ CanAdvance(s.event[e]) THEN None
     ELSE [s EXCEPT
             !.event = buried,
             !.run = [k \in RunKey |-> IF @[k] > standing(k) THEN @[k] - standing(k) ELSE 0],
             !.projection = [e \in EventId |->
                IF e \in es
                THEN [At(ProjectionOf(s, e), buried[e]) EXCEPT !.hidden = TRUE, !.run = None]
                ELSE @[e]]]

TombstoneLocals(s, ids, tie) ==
  IF \E i \in ids : s.local[i] = None THEN None
  ELSE Bury(s, {s.local[i] : i \in ids}, tie)

\* Mutant: a trim says nothing about the rows it is about to drop.
HideLocalsNothing(s, ids) == s

HideLocals(s, ids) ==
  IF \E i \in ids : s.local[i] = None THEN None
  ELSE LET es == {s.local[i] : i \in ids} IN
       [s EXCEPT !.projection = [e \in EventId |-> IF e \in es
                                                   THEN [@[e] EXCEPT !.hidden = TRUE]
                                                   ELSE @[e]]]

DropHistory(s, ids) ==
  [s EXCEPT !.history = [i \in LocalId |-> IF i \in ids THEN None ELSE @[i]]]
DropOutcomes(s, ids) ==
  [s EXCEPT !.outcome = [i \in LocalId |-> IF i \in ids THEN None ELSE @[i]]]

\* drop_line for one id, forget_log_of for several.
DropLines(s, ids, tie) ==
  LET t == TombstoneLocals(s, ids, tie) IN
  IF t = None THEN None ELSE DropOutcomes(DropHistory(t, ids), ids)

\* `history -c`: every row, and every outcome whether it has a row or not.
Clear(s, tie) ==
  LET t == TombstoneLocals(s, Rows(s), tie) IN
  IF t = None THEN None ELSE DropOutcomes(DropHistory(t, LocalId), LocalId)

\* What is unknown or already deleted is skipped; the rest is buried and applied.
DeleteEvents(s, es, tie) ==
  LET live == {e \in es : IF s.event[e] = None THEN FALSE ELSE ~ s.event[e].deleted}
      rows == {ProjectionOf(s, e).local : e \in live}
      t == Bury(s, live, tie)
  IN IF t = None THEN None ELSE DropOutcomes(DropHistory(t, rows), rows)

-----------------------------------------------------------------------------
(***************************************************************************)
(* Applying an event: what sync does to a store with the copy that won.    *)
(***************************************************************************)
\* Mutant: a tombstone that arrives leaves the row.
ApplyTombstoneKeepingRow(s, e, p) ==
  [s EXCEPT !.projection[e] = [At(p, s.event[e]) EXCEPT !.hidden = TRUE]]

ApplyTombstone(s, e, p) ==
  [DropOutcomes(DropHistory(s, {p.local}), {p.local}) EXCEPT
     !.projection[e] = [At(p, s.event[e]) EXCEPT !.hidden = TRUE]]

\* Mutant: a row that is withheld is written all the same.
ApplyLiveShowing(s, e, p) ==
  LET ev == s.event[e]
      i == IF p.local = 0 THEN NextId(s) ELSE p.local
      k == ContributionFor(ev, TRUE)
  IN [s EXCEPT !.history[i] = ev.line, !.outcome[i] = ev.done,
               !.local[i] = IF p.local = 0 THEN e ELSE @,
               !.run = AddContribution(@, k),
               !.projection[e] = [At(p, ev) EXCEPT !.local = i, !.run = k]]

ApplyLive(s, e, p) ==
  LET ev == s.event[e]
      i == IF p.local = 0 THEN NextId(s) ELSE p.local
      k == ContributionFor(ev, TRUE)
      t == IF p.hidden THEN s
           ELSE [s EXCEPT !.history[i] = ev.line, !.outcome[i] = ev.done]
  IN [t EXCEPT !.local[i] = IF p.local = 0 THEN e ELSE @,
               !.run = AddContribution(@, k),
               !.projection[e] = [At(p, ev) EXCEPT !.local = i, !.run = k]]

\* Whether a projection is at its event's stamp; `history status` counts the rest.
Applied(s, e) == Mark(ProjectionOf(s, e)) = Mark(s.event[e])

ApplyEvent(s, e) ==
  LET p == ProjectionOf(s, e)
      t == [s EXCEPT !.run = RemoveContribution(@, p.run)]
      q == [p EXCEPT !.run = None]
  IN IF Applied(s, e) THEN s
     ELSE IF s.event[e].deleted THEN ApplyTombstone(t, e, q) ELSE ApplyLive(t, e, q)
=============================================================================
