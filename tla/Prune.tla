------------------------------- MODULE Prune -------------------------------
(***************************************************************************)
(* The aggregate of what was run where, and what takes rows out of it      *)
(* (track/prune/mod.rs, history.rs, write.rs).  A directory has an id that *)
(* is never given again, a run is filed under that id and the line, and    *)
(* every run has a twin in RunByArgv.  Nothing but the order of the        *)
(* transactions keeps the three tables together: a sweep is a series of    *)
(* them, and shells execute commands between any two.                      *)
(*                                                                         *)
(* A chunk of a deletion is one row here.  Directories imported from other *)
(* machines, which no sweep looks at and nothing is run in, are left out,  *)
(* and so are the indexes by base name and by worktree, which change with  *)
(* the directory's row and in its transaction, as the index by path does.  *)
(***************************************************************************)
EXTENDS Naturals, FiniteSets

CONSTANTS
  Path,
  Typed,       \* the lines that are run
  MaxDir,      \* how many ids are given: a bound of the instance
  RunsPerDir,
  Walker,      \* the shells
  Sweeper,     \* sweeps, and commands that forget a line
  Nowhere

\* A directory's row: how long it has been missing.
DirRow == [path : Path, missing : {"no", "noted", "long"}]

ASSUME PruneAssumption ==
  /\ MaxDir \in Nat /\ RunsPerDir \in Nat \ {0}
  /\ Nowhere \notin Path /\ Nowhere \notin Typed /\ Nowhere \notin DirRow

DirId == 1 .. MaxDir
RunId == DirId \X Typed

VARIABLES
  track,    \* Dir, Run and RunByArgv
  walker,   \* where each shell stands, and the id its store has cached for that
  sweep,    \* where each sweep has got to
  mounted,  \* the paths that are directories now
  caught    \* runs executed, or not deleted, while somebody was deleting them (history variable)

pruneVars == <<track, walker, sweep, mounted, caught>>

Swept == [pc |-> "idle", then |-> "idle", doomed |-> {}, left |-> {}, gone |-> {}, dirs |-> {},
          dir |-> 0]

PruneTypeOK ==
  \* once, or more than once
  /\ track \in [dir : [DirId -> DirRow \cup {Nowhere}],
                next : 1 .. MaxDir + 1, times : [RunId -> 0 .. 2], old : SUBSET RunId,
                twins : SUBSET RunId]
  /\ walker \in [Walker -> [at : Path \cup {Nowhere}, id : DirId \cup {0}]]
  /\ sweep \in [Sweeper ->
       [pc : {"idle", "twins", "rows", "cap", "stat", "note", "look", "forget", "span", "unlist"},
        then : {"idle", "cap", "stat", "span"}, doomed : SUBSET RunId, left : SUBSET RunId,
        gone : SUBSET DirId, dirs : SUBSET DirId, dir : DirId \cup {0}]]
  /\ mounted \subseteq Path
  /\ caught \subseteq RunId

PruneInit ==
  /\ track = [dir |-> [i \in DirId |-> Nowhere], next |-> 1, times |-> [r \in RunId |-> 0],
              old |-> {}, twins |-> {}]
  /\ walker = [w \in Walker |-> [at |-> Nowhere, id |-> 0]]
  /\ sweep = [s \in Sweeper |-> Swept]
  /\ mounted = Path
  /\ caught = {}

-----------------------------------------------------------------------------
(***************************************************************************)
(* What is in the tables.                                                  *)
(***************************************************************************)
Live(t) == {i \in DirId : t.dir[i] # Nowhere}
Filed(t) == {r \in RunId : t.times[r] > 0}
RunsOf(t, i) == {r \in Filed(t) : r[1] = i}

\* 0 for a path the store does not know.
DirAt(t, p) ==
  IF \E i \in Live(t) : t.dir[i].path = p THEN CHOOSE i \in Live(t) : t.dir[i].path = p ELSE 0

\* A bound: there are ids for MaxDir directories.
Resolved(t, p) ==
  IF DirAt(t, p) # 0 \/ t.next \notin DirId THEN t
  ELSE [t EXCEPT !.dir[t.next] = [path |-> p, missing |-> "no"], !.next = @ + 1]

\* The first time a line is seen it gets a twin, and after that it does not.
Executed(t, r) ==
  [t EXCEPT !.times[r] = IF @ = 2 THEN 2 ELSE @ + 1, !.old = @ \ {r},
            !.twins = IF t.times[r] = 0 THEN @ \cup {r} ELSE @]

Unremembered(t, rs) ==
  [t EXCEPT !.times = [r \in RunId |-> IF r \in rs THEN 0 ELSE t.times[r]], !.old = @ \ rs]

\* Who walks into a directory takes its mark off.
Arrived(t, p) == LET known == Resolved(t, p) IN [known EXCEPT !.dir[DirAt(known, p)].missing = "no"]

\* What somebody is taking out of the tables.
InHand(s) ==
  sweep[s].doomed \cup {r \in RunId : r[1] = sweep[s].dir}

\* Only what is in the tables matters.
Caught(runs) == caught' = (caught \cup runs) \cap (Filed(track') \cup track'.twins)

-----------------------------------------------------------------------------
(***************************************************************************)
(* The shells.                                                             *)
(***************************************************************************)
\* prime(): a shell starts somewhere, which is not walking there.
Prime(w, p) ==
  /\ walker[w].at = Nowhere /\ p \in mounted
  /\ DirAt(Resolved(track, p), p) # 0
  /\ track' = Resolved(track, p)
  /\ walker' = [walker EXCEPT ![w] = [at |-> p, id |-> DirAt(Resolved(track, p), p)]]
  /\ UNCHANGED <<sweep, mounted, caught>>

\* Mutant: the cached id is trusted.
StandsInCached(t, w) == walker[w].id

\* "Checked against the store rather than trusted": 0 for a directory to be resolved again.
StandsIn(t, w) == IF walker[w].id \in Live(t) THEN walker[w].id ELSE 0

(***************************************************************************)
(* write_step: what was run where the shell stands, if anything, and where *)
(* that left it.  Nowhere is no line, and a place whose rows are not       *)
(* followed.                                                               *)
(***************************************************************************)
WriteStep(w, line, to) ==
  LET at == walker[w].at
      placed == IF at = Nowhere \/ StandsIn(track, w) # 0 THEN track ELSE Resolved(track, at)
      id == IF StandsIn(track, w) # 0 THEN StandsIn(track, w) ELSE DirAt(placed, at)
      run == IF line = Nowhere THEN {} ELSE {<<id, line>>}
      counted == IF line = Nowhere THEN placed ELSE Executed(placed, <<id, line>>)
      arrived == IF to \in {at, Nowhere} THEN counted ELSE Arrived(counted, to)
  IN  /\ IF at = Nowhere THEN line = Nowhere ELSE id # 0
      /\ to # at /\ to # Nowhere => to \in mounted /\ DirAt(Resolved(counted, to), to) # 0
      /\ track' = arrived
      /\ walker' = [walker EXCEPT ![w] = [at |-> to, id |-> DirAt(arrived, to)]]
      /\ Caught(run \cap UNION {InHand(s) : s \in Sweeper})
      /\ UNCHANGED <<sweep, mounted>>

\* `history -c`, in one transaction.
ClearRuns ==
  /\ track' = [Unremembered(track, RunId) EXCEPT !.twins = {}]
  /\ Caught({})
  /\ UNCHANGED <<walker, sweep, mounted>>

\* A disk is unplugged, a directory removed or made.
DiskChanges ==
  /\ \E p \in Path : mounted' = IF p \in mounted THEN mounted \ {p} ELSE mounted \cup {p}
  /\ UNCHANGED <<track, walker, sweep, caught>>

(***************************************************************************)
(* Thirty days and ninety, in one step: longer than a sweep takes.  Only   *)
(* of a line run once is it ever asked how long ago.                       *)
(***************************************************************************)
TimePasses ==
  /\ \A s \in Sweeper : sweep[s].pc = "idle"
  /\ track' = [track EXCEPT
       !.old = {r \in RunId : track.times[r] = 1},
       !.dir = [i \in DirId |-> IF i \in Live(track) /\ track.dir[i].missing # "no"
                               THEN [track.dir[i] EXCEPT !.missing = "long"] ELSE track.dir[i]]]
  /\ UNCHANGED <<walker, sweep, mounted, caught>>

-----------------------------------------------------------------------------
(***************************************************************************)
(* Deleting rows: drop_runs, and the same two calls in forget_runs_of.     *)
(***************************************************************************)
Goes(s, change) ==
  /\ sweep' = [sweep EXCEPT ![s] = change]
  /\ Caught({})
  /\ UNCHANGED <<walker, mounted>>

Drop(s, rows, then) ==
  /\ UNCHANGED track
  /\ Goes(s, [sweep[s] EXCEPT !.pc = "twins", !.then = then, !.doomed = rows, !.left = rows])

\* Lines run once and never again.
ReadStale(s) ==
  sweep[s].pc = "idle" /\ Drop(s, {r \in track.old : track.times[r] = 1}, "cap")

\* Fewest runs first, then oldest: which is only told of lines run once.
Sooner(t, a, b) ==
  t.times[a] < t.times[b] \/ (t.times[a] = t.times[b] /\ a \in t.old /\ b \notin t.old)

\* The choices of what takes every directory back to its cap.
OverTheCap(t) ==
  {rows \in SUBSET Filed(t) : \A i \in DirId :
     LET mine == RunsOf(t, i)
         over == rows \cap mine
     IN  /\ Cardinality(mine \ over) <= RunsPerDir
         /\ over = {} \/ Cardinality(mine \ over) = RunsPerDir
         /\ \A a \in over, b \in mine \ over : ~ Sooner(t, b, a)}

ReadOverTheCap(s) == sweep[s].pc = "cap" /\ \E rows \in OverTheCap(track) : Drop(s, rows, "stat")

ForgetTyped(s, line) ==
  sweep[s].pc = "idle" /\ Drop(s, {r \in Filed(track) : r[2] = line}, "idle")

\* Mutant: the rows go first.
RowsFirst(t, r, stage) ==
  IF stage = "twins" THEN Unremembered(t, {r}) ELSE [t EXCEPT !.twins = @ \ {r}]

\* What one chunk of a pass takes away: "the index goes first".
Chunk(t, r, stage) ==
  IF stage = "twins" THEN [t EXCEPT !.twins = @ \ {r}] ELSE Unremembered(t, {r})

DropChunk(s) ==
  /\ sweep[s].pc \in {"twins", "rows"}
  /\ \E r \in sweep[s].left :
       /\ track' = Chunk(track, r, sweep[s].pc)
       /\ Goes(s, [sweep[s] EXCEPT !.left = @ \ {r}])

\* The pass is over; a directory's rows go by their span.
PassEnds(s) ==
  /\ sweep[s].pc \in {"twins", "rows"} /\ sweep[s].left = {}
  /\ UNCHANGED track
  /\ IF sweep[s].pc = "twins" /\ sweep[s].then # "span"
     THEN Goes(s, [sweep[s] EXCEPT !.pc = "rows", !.left = sweep[s].doomed])
     ELSE Goes(s, [sweep[s] EXCEPT !.pc = sweep[s].then, !.then = "idle", !.doomed = {}])

-----------------------------------------------------------------------------
(***************************************************************************)
(* forget_vanished: looking at the disk outside every transaction, marking *)
(* what is missing, and forgetting what has been for long.                 *)
(***************************************************************************)
StatAll(s) ==
  /\ sweep[s].pc = "stat"
  /\ UNCHANGED track
  /\ Goes(s, [sweep[s] EXCEPT !.pc = "note",
                              !.gone = {i \in Live(track) : track.dir[i].path \notin mounted}])

\* Idempotent: a mark already there stands.
NoteMissing(s) ==
  /\ sweep[s].pc = "note"
  /\ track' = [track EXCEPT !.dir = [i \in DirId |->
       IF i \in sweep[s].gone \cap Live(track) /\ track.dir[i].missing = "no"
       THEN [track.dir[i] EXCEPT !.missing = "noted"] ELSE track.dir[i]]]
  /\ Goes(s, [sweep[s] EXCEPT !.pc = "look", !.gone = {}])

ReadVanished(s) ==
  /\ sweep[s].pc = "look"
  /\ UNCHANGED track
  /\ Goes(s, [sweep[s] EXCEPT !.pc = "forget",
                              !.dirs = {i \in Live(track) : track.dir[i].missing = "long"}])

\* forget_directory: the twins of the rows it has now, then the rows, then itself.
ForgetDirectory(s) ==
  /\ sweep[s].pc = "forget"
  /\ UNCHANGED track
  /\ \/ /\ sweep[s].dirs = {}
        /\ Goes(s, Swept)
     \/ \E i \in sweep[s].dirs :
          LET rows == RunsOf(track, i) IN
          Goes(s, [sweep[s] EXCEPT !.pc = "twins", !.then = "span", !.doomed = rows, !.left = rows,
                                   !.dirs = @ \ {i}, !.dir = i])

\* delete_span_in_chunks, which reads again after each chunk, and gives up at a row that is back;
\* `left` is the row it deleted last.
DropSpan(s) ==
  /\ sweep[s].pc = "span"
  /\ \/ \E r \in RunsOf(track, sweep[s].dir) \ sweep[s].left :
          /\ track' = Unremembered(track, {r})
          /\ Goes(s, [sweep[s] EXCEPT !.left = {r}])
     \/ /\ RunsOf(track, sweep[s].dir) \subseteq sweep[s].left
        /\ UNCHANGED track
        /\ Goes(s, [sweep[s] EXCEPT !.pc = "unlist", !.left = {}])

Unlist(s) ==
  /\ sweep[s].pc = "unlist"
  /\ track' = [track EXCEPT !.dir[sweep[s].dir] = Nowhere]
  /\ Goes(s, [sweep[s] EXCEPT !.pc = "forget", !.dir = 0])

-----------------------------------------------------------------------------
(***************************************************************************)
(* A transaction that fails ends the deletion it belongs to, and what      *)
(* comes after that deletion is done all the same.  A shell that exits     *)
(* takes its sweep with it.                                                *)
(***************************************************************************)
AfterFailure(s) ==
  CASE sweep[s].pc \in {"twins", "rows"} -> [sweep[s] EXCEPT !.left = {}]
    [] sweep[s].pc = "note" -> [sweep[s] EXCEPT !.pc = "look", !.gone = {}]
    [] sweep[s].pc = "span" -> [sweep[s] EXCEPT !.pc = "unlist", !.left = {}]
    [] sweep[s].pc = "unlist" -> [sweep[s] EXCEPT !.pc = "forget", !.dir = 0]

WriteFails(s) ==
  /\ sweep[s].pc \in {"note", "span", "unlist"}
       \/ (sweep[s].pc \in {"twins", "rows"} /\ sweep[s].left # {})
  /\ sweep' = [sweep EXCEPT ![s] = AfterFailure(s)]
  /\ UNCHANGED <<track, walker, mounted>>
  /\ Caught(InHand(s))

SweepStops(s) ==
  /\ sweep[s].pc # "idle"
  /\ sweep' = [sweep EXCEPT ![s] = Swept]
  /\ UNCHANGED <<track, walker, mounted>>
  /\ Caught({})

-----------------------------------------------------------------------------
Walks(w) ==
  \/ \E p \in Path : Prime(w, p)
  \/ \E line \in Typed \cup {Nowhere}, to \in Path \cup {Nowhere} : WriteStep(w, line, to)

Sweeps(s) ==
  \/ ReadStale(s) \/ ReadOverTheCap(s) \/ DropChunk(s) \/ PassEnds(s)
  \/ StatAll(s) \/ NoteMissing(s) \/ ReadVanished(s)
  \/ ForgetDirectory(s) \/ DropSpan(s) \/ Unlist(s)
  \/ WriteFails(s) \/ SweepStops(s)
  \/ \E line \in Typed : ForgetTyped(s, line)

PruneNext ==
  \/ \E w \in Walker : Walks(w)
  \/ \E s \in Sweeper : Sweeps(s)
  \/ ClearRuns \/ DiskChanges \/ TimePasses

PruneSpec == PruneInit /\ [][PruneNext]_pruneVars

-----------------------------------------------------------------------------
\* "The one thing that must never happen -- a run row surviving the directory it
\* is attributed to" (prune/mod.rs).
RunsHaveTheirPlace ==
  \A r \in Filed(track) \ caught : r[1] \in Live(track)

\* "An index entry left pointing at a row that is gone is bytes nothing will ever
\* collect" (prune/mod.rs).
TwinsNameRuns == track.twins \ caught \subseteq Filed(track)

(***************************************************************************)
(* Wherever a sweep or the forgetting of a line is cut short, what is left *)
(* names what is there, except for a line executed, or whose deletion      *)
(* failed, while it or its directory was being forgotten.                  *)
(***************************************************************************)
NothingDangles == RunsHaveTheirPlace /\ TwinsNameRuns
=============================================================================
