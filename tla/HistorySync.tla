---------------------------- MODULE HistorySync ----------------------------
(***************************************************************************)
(* `oslo profile sync` over the history part: two machines, each with its  *)
(* own database and a shell typing into it, and a session that carries a   *)
(* copy of the far database to the near machine, merges the two            *)
(* (track/sync/admin.rs, sync_files), and carries the merged copy back to  *)
(* be merged again.  A session is many transactions, and the shells go on  *)
(* typing between them; it may be cut off after any of them.               *)
(*                                                                         *)
(* Beside it, `oslo history import` reads a file of exported events,       *)
(* decides what wins, and writes the winners in a later transaction.       *)
(***************************************************************************)
EXTENDS HistoryStore, SequencesExt

CONSTANTS
  Machine,
  Doing  \* the sets of optional operations that may happen in one behaviour

Optional == {"rewrite", "delete", "retire", "import", "sync", "abort"}

ASSUME SyncAssumption == Doing \subseteq SUBSET Optional

VARIABLES
  store,    \* each machine's database file
  flight,   \* the row of the command each machine's shell is running
  sync,     \* the session
  import,   \* what each machine's import has decided to write
  written,  \* every copy of each event ever authored (history variable)
  doing     \* which of Doing this behaviour is about: a bound of the instance

vars == <<store, flight, sync, import, written, doing>>

Copies == [EventId -> Event \cup {None}]
Nothing == [e \in EventId |-> None]

NoSession == [pc |-> "idle", at |-> None, near |-> None, far |-> None, first |-> "live",
              copy |-> Nothing, winners |-> Nothing,
              began |-> [e \in EventId |-> {}], quiet |-> TRUE]

Steps == <<"read", "keep", "win", "overwrite", "back", "forth", "apply">>

TypeOK ==
  /\ store \in [Machine -> Store]
  /\ flight \in [Machine -> LocalId \cup {None}]
  /\ sync \in [pc : ToSet(Steps) \cup {"idle", "done"},
               at : Machine \cup {None}, near : Machine \cup {None},
               far : Machine \cup {None}, first : {"live", "copy"},
               copy : Copies, winners : Copies, began : [EventId -> SUBSET Event],
               quiet : BOOLEAN]
  /\ import \in [Machine -> [id : EventId, copy : Event] \cup {None}]
  /\ written \in [EventId -> SUBSET Event]
  /\ doing \in Doing

Init ==
  /\ store = [m \in Machine |-> EmptyStore]
  /\ flight = [m \in Machine |-> None]
  /\ sync = NoSession
  /\ import = [m \in Machine |-> None]
  /\ written = [e \in EventId |-> {}]
  /\ doing \in Doing

-----------------------------------------------------------------------------
(***************************************************************************)
(* What a machine does by itself: transactions of HistoryStore.  roll()    *)
(* draws 16 random bytes, so two edits that leave an event at the same     *)
(* revision, both live or both dead, do not draw the same ones.            *)
(***************************************************************************)
New(s, t) == {e \in EventId : t.event[e] # s.event[e]}

NextRevision(m, e) == IF store[m].event[e] = None THEN 1 ELSE store[m].event[e].revision + 1

Drawn(m, tie, t) ==
  \A e \in New(store[m], t) : \A w \in written[e] :
    w.revision = NextRevision(m, e) /\ w.deleted = t.event[e].deleted => w.tie # tie

Edit(m, tie, t) ==
  /\ t # None /\ Drawn(m, tie, t)
  /\ store' = [store EXCEPT ![m] = t]
  /\ written' = [e \in EventId |-> IF e \in New(store[m], t)
                                   THEN written[e] \cup {t.event[e]} ELSE written[e]]
  /\ sync' = [sync EXCEPT !.quiet = sync.pc = "idle"]
  /\ UNCHANGED <<import, doing>>

Tied(tie) == [e \in EventId |-> tie]

Enter(m, line) ==
  /\ flight[m] = None /\ NextId(store[m]) \in LocalId
  /\ \E e \in {e \in EventId : written[e] = {}}, tie \in Tie :
       Edit(m, tie, AppendEntry(store[m], e, line, Tied(tie)))
  /\ flight' = [flight EXCEPT ![m] = NextId(store[m])]

Finish(m) ==
  /\ flight[m] # None
  /\ \E status \in Status, dir \in Dir, tie \in Tie :
       LET done == [status |-> status, dir |-> dir] IN
       Edit(m, tie, WriteOutcomes(store[m], flight[m], done, Tied(tie)))
  /\ flight' = [flight EXCEPT ![m] = None]

\* A pre-record rule replaces the line; its outcome is written later.
Rewrite(m, line) ==
  /\ "rewrite" \in doing /\ flight[m] # None
  /\ \E tie \in Tie : Edit(m, tie, RewriteLine(store[m], flight[m], line, Tied(tie)))
  /\ UNCHANGED flight

Delete(m, e) ==
  /\ "delete" \in doing /\ e \in Known(store[m])
  /\ ~ store[m].event[e].deleted
  /\ \E tie \in Tie : Edit(m, tie, DeleteEvents(store[m], {e}, Tied(tie)))
  /\ UNCHANGED flight

\* The whole of a trim that has reached the oldest row, nothing between its steps.
Retire(m) ==
  /\ "retire" \in doing /\ Rows(store[m]) # {}
  /\ \E tie \in Tie :
       LET i == Min(Rows(store[m])) IN
       Edit(m, tie, DropHistory(DropOutcomes(HideLocals(store[m], {i}), {i}), {i}))
  /\ UNCHANGED flight

-----------------------------------------------------------------------------
(***************************************************************************)
(* Merging tables of events.                                               *)
(***************************************************************************)
\* merge_sync_from, keeping what is there.
KeepExisting(to, from) == [e \in EventId |-> IF to[e] = None THEN from[e] ELSE to[e]]

\* Mutant: the destination's winners are not preserved.
OverwriteLosing(to, from) == [e \in EventId |-> IF from[e] = None THEN to[e] ELSE from[e]]

\* merge_sync_from, overwriting: what the destination wins is put back.
OverwritePreserving(to, from) ==
  [e \in EventId |-> IF from[e] = None THEN to[e]
                     ELSE IF to[e] = None THEN from[e]
                     ELSE IF Preferred(to[e], from[e]) = to[e] THEN to[e] ELSE from[e]]

WriteWinners(to, winners) == [e \in EventId |-> Merged(to[e], winners[e])]

Reconciled(left, right) == [e \in EventId |-> Merged(left[e], right[e])]

\* apply_winners, in the order of the event ids: the store with the first n applied.
ApplyUpTo(s) ==
  LET applied[n \in 0 .. Events] ==
        IF n = 0 THEN s
        ELSE IF n \in Known(s) THEN ApplyEvent(applied[n - 1], n) ELSE applied[n - 1]
  IN applied

ApplyWinners(s) == ApplyUpTo(s)[Events]

-----------------------------------------------------------------------------
(***************************************************************************)
(* The session.  sync_files takes its two files in path order, so either   *)
(* the live database or the copy may be the first.  Only the copy's events *)
(* are modelled: the rest of that file is thrown away unread.              *)
(***************************************************************************)
Begin(near, far) ==
  /\ "sync" \in doing /\ sync.pc = "idle" /\ near # far
  /\ \E first \in {"live", "copy"} :
       sync' = [NoSession EXCEPT !.pc = "read", !.at = near, !.near = near, !.far = far,
                                 !.first = first, !.copy = store[far].event,
                                 !.began = [e \in EventId |->
                                   {store[near].event[e], store[far].event[e]} \ {None}]]
  /\ UNCHANGED <<store, flight, import, written, doing>>

Second == IF sync.first = "live" THEN "copy" ELSE "live"
File(which) == IF which = "live" THEN store[sync.at].event ELSE sync.copy

\* The step after this one; the machine asked may order the two files differently.
After(s) ==
  IF s.pc # "apply" THEN {[s EXCEPT !.pc = Steps[CHOOSE n \in 2 .. Len(Steps) :
                                                   Steps[n - 1] = s.pc]]}
  ELSE IF s.at = s.near
  THEN {[s EXCEPT !.pc = "read", !.at = s.far, !.first = first, !.winners = Nothing] :
          first \in {"live", "copy"}}
  ELSE {[s EXCEPT !.pc = "done", !.winners = Nothing]}

\* One transaction of the session: a table of events is put in one of the files.
Put(pc, which, events) ==
  /\ sync.pc = pc
  /\ IF which = "live"
     THEN /\ store' = [store EXCEPT ![sync.at].event = events]
          /\ sync' \in After(sync)
     ELSE /\ UNCHANGED store
          /\ sync' \in After([sync EXCEPT !.copy = events])
  /\ UNCHANGED <<flight, import, written, doing>>

Read ==
  /\ sync.pc = "read"
  /\ sync' \in After([sync EXCEPT !.winners = Reconciled(File(sync.first), File(Second))])
  /\ UNCHANGED <<store, flight, import, written, doing>>

Keep == Put("keep", sync.first, KeepExisting(File(sync.first), File(Second)))
Win == Put("win", sync.first, WriteWinners(File(sync.first), sync.winners))
Overwrite == Put("overwrite", Second, OverwritePreserving(File(Second), File(sync.first)))
Back == Put("back", sync.first, WriteWinners(File(sync.first), File(Second)))
Forth == Put("forth", Second, WriteWinners(File(Second), File(sync.first)))

Apply ==
  /\ sync.pc = "apply"
  /\ store' = [store EXCEPT ![sync.at] = ApplyWinners(@)]
  /\ sync' \in After(sync)
  /\ UNCHANGED <<flight, import, written, doing>>

End ==
  /\ sync.pc = "done"
  /\ sync' = NoSession
  /\ UNCHANGED <<store, flight, import, written, doing>>

\* The connection drops, or either end is killed.
Abort ==
  /\ "abort" \in doing /\ sync.pc \notin {"idle", "done"}
  /\ sync' = NoSession
  /\ UNCHANGED <<store, flight, import, written, doing>>

-----------------------------------------------------------------------------
(***************************************************************************)
(* import_events: compared in one transaction, written in another.  The    *)
(* file holds one event as some machine once had it.                       *)
(***************************************************************************)
ImportRead(m) ==
  /\ "import" \in doing /\ import[m] = None
  /\ \E e \in EventId : \E copy \in written[e] :
       /\ store[m].event[e] # copy
       /\ Merged(store[m].event[e], copy) = copy
       /\ import' = [import EXCEPT ![m] = [id |-> e, copy |-> copy]]
  /\ UNCHANGED <<store, flight, sync, written, doing>>

ImportWrite(m) ==
  /\ import[m] # None
  /\ LET e == import[m].id IN
     store' = [store EXCEPT ![m] = ApplyEvent([@ EXCEPT !.event[e] = import[m].copy], e)]
  /\ import' = [import EXCEPT ![m] = None]
  /\ sync' = [sync EXCEPT !.quiet = sync.pc = "idle"]
  /\ UNCHANGED <<flight, written, doing>>

-----------------------------------------------------------------------------
Local(m) ==
  \/ \E line \in Line : Enter(m, line) \/ Rewrite(m, line)
  \/ Finish(m)
  \/ \E e \in EventId : Delete(m, e)
  \/ Retire(m)

Session == Read \/ Keep \/ Win \/ Overwrite \/ Back \/ Forth \/ Apply \/ End

Next ==
  \/ \E m \in Machine : Local(m) \/ ImportRead(m) \/ ImportWrite(m)
  \/ \E near, far \in Machine : Begin(near, far)
  \/ Session \/ Abort

Spec == Init /\ [][Next]_vars

-----------------------------------------------------------------------------
(***************************************************************************)
(* Each machine's event table is a replica of StampedReplicas: what a      *)
(* shell does is an edit, and every transaction of a session only takes    *)
(* copies that win over what is there.                                     *)
(***************************************************************************)
CopyOf(ev) ==
  IF ev = None THEN None
  ELSE [revision |-> ev.revision, deleted |-> ev.deleted, tie |-> ev.tie,
        body |-> [line |-> ev.line, done |-> ev.done]]

Replicas == INSTANCE StampedReplicas WITH
  Replica <- Machine,
  Key <- EventId,
  Body <- [line : Line \cup {Blank}, done : Done \cup {None}],
  copy <- [m \in Machine |-> [e \in EventId |-> CopyOf(store[m].event[e])]],
  written <- [e \in EventId |-> {CopyOf(w) : w \in written[e]}]

\* Nothing is no copy of a replica either.
ASSUME ReplicasAssumption == None \notin Replicas!Copy

ImplementsReplicas == Replicas!Spec

(***************************************************************************)
(* Equal stamps are equal events, on machines and in the copy that travels *)
(* between them: apply_event and the reconciliation both rely on it.       *)
(***************************************************************************)
SameStampSameEvent ==
  \A e \in EventId :
    LET held == ({store[m].event[e] : m \in Machine} \cup {sync.copy[e]}) \ {None} IN
    \A a, b \in held : Mark(a) = Mark(b) => a = b

(***************************************************************************)
(* A session that ends has delivered: both machines hold everything either *)
(* had when it began, or something that wins over it, whatever the shells  *)
(* did in the meantime.                                                    *)
(***************************************************************************)
SessionDelivers ==
  sync.pc = "done" =>
    \A m \in {sync.near, sync.far}, e \in EventId : \A had \in sync.began[e] :
      IF store[m].event[e] = None THEN FALSE ELSE ~ WinsOver(had, store[m].event[e])

(***************************************************************************)
(* With nobody typing, a session leaves the two machines with one history  *)
(* and nothing pending on either.                                          *)
(***************************************************************************)
SessionConverges ==
  sync.pc = "done" /\ sync.quiet =>
    /\ store[sync.near].event = store[sync.far].event
    /\ \A m \in {sync.near, sync.far} : \A e \in Known(store[m]) : Applied(store[m], e)

(***************************************************************************)
(* On every machine, a row that can be recalled says what its event says,  *)
(* once that event has been applied there.                                 *)
(***************************************************************************)
RowsSayTheirEvents ==
  \A m \in Machine : \A i \in Rows(store[m]) :
    LET e == store[m].local[i] IN
    IF e = None THEN FALSE
    ELSE Applied(store[m], e) =>
           ~ store[m].event[e].deleted /\ store[m].event[e].line = store[m].history[i]

(***************************************************************************)
(* What holds of the stores of both machines at every step of a session or *)
(* an import, cut off anywhere: equal stamps are equal events, and rows    *)
(* say what their events say.                                              *)
(***************************************************************************)
SyncInv == SameStampSameEvent /\ RowsSayTheirEvents

\* A row taken away, by deletion or by a trim, is not brought back by a sync.
HiddenStays ==
  [][\A m \in Machine, e \in EventId :
       ProjectionOf(store[m], e).hidden =>
         /\ ProjectionOf(store'[m], e).hidden
         /\ \A i \in Rows(store'[m]) : store'[m].local[i] # e]_vars

(***************************************************************************)
(* Nothing a sync applies takes away a line it is not about: an event that *)
(* is neither deleted nor hidden has its row.                              *)
(***************************************************************************)
NothingLost ==
  \A m \in Machine, e \in EventId :
    LET p == ProjectionOf(store[m], e) IN
    p.local # 0 /\ ~ p.hidden => store[m].history[p.local] # None

(***************************************************************************)
(* "Each copy carries a revision that only goes up" (track/stamp.rs): a    *)
(* machine never gives up a copy for one that does not win over it.        *)
(***************************************************************************)
StampOnlyRises ==
  [][\A m \in Machine : \A e \in Known(store[m]) :
       store'[m].event[e] # store[m].event[e] =>
         WinsOver(store'[m].event[e], store[m].event[e])]_vars
=============================================================================
