-------------------------------- MODULE Watch --------------------------------
(***************************************************************************)
(* `oslo watch` (oslo-shell/src/watch/): a worker that owns an inotify     *)
(* queue and one child, and runs its command when a file that matches its  *)
(* pattern changes.  The pattern is everything called x below WatchRoot,   *)
(* a directory of WatchBase that comes and goes like those below it; each  *)
(* has at most one such file.                                              *)
(*                                                                         *)
(* Other processes change the tree at any time, also between any two of    *)
(* the calls by which the worker installs its watches.  Not modelled:      *)
(* symbolic links, hidden names, a refused watch, and what outlives the    *)
(* child it was started by.                                                *)
(***************************************************************************)
EXTENDS Naturals, Sequences, SequencesExt

CONSTANTS
  WatchBase, WatchRoot,
  WatchedDir,   \* WatchBase, WatchRoot and the directories below it
  Parent,       \* Parent[d]: the directory d is in, for all but WatchBase
  Gone,         \* no directory
  MaxQueue,     \* how many events the kernel keeps
  MaxChange,    \* bound: files written
  MaxMake,      \* bound: directories made
  Policies,     \* the policies tried: "coalesce", "restart"
  Initially,    \* whether a run at the start is asked for: the answers tried
  WatchDoing    \* which of "stop", "move" happen

ASSUME WatchAssumption ==
  /\ {WatchBase, WatchRoot} \subseteq WatchedDir /\ WatchBase # WatchRoot
  /\ Parent \in [WatchedDir \ {WatchBase} -> WatchedDir] /\ Parent[WatchRoot] = WatchBase
  /\ Gone \notin Nat
  /\ MaxQueue \in Nat \ {0} /\ MaxChange \in Nat /\ MaxMake \in Nat
  /\ Policies \subseteq {"coalesce", "restart"} /\ Initially \subseteq BOOLEAN
  /\ WatchDoing \subseteq {"stop", "move"}

VARIABLES
  tree,      \* each directory: Gone, or the write its file is from, 0 if it has none
  inotify,   \* the directories watched, and the events not yet read
  worker,    \* the worker: where it is, what it read, what it still has to install
  child,     \* "none", "running" or "ended", and not yet waited for
  ran,       \* what the files were when the child was started last (history variable)
  stop,      \* a signal: "no", "sent", or "taken"
  bounds     \* files written and directories made so far

watchVars == <<tree, inotify, worker, child, ran, stop, bounds>>

Exists(d) == tree[d] # Gone
InDir(d) == {c \in WatchedDir \ {WatchBase} : Parent[c] = d}
Content == [d \in WatchedDir |-> IF Exists(d) THEN tree[d] ELSE 0]

\* The event queue; a last event that says the same is not said again.
Say(e) ==
  LET q == inotify.queue
  IN  IF q # << >> /\ Last(q) \in {e, [kind |-> "overflow", dir |-> WatchBase]} THEN q
      ELSE IF Len(q) < MaxQueue THEN Append(q, e)
      ELSE Append(q, [kind |-> "overflow", dir |-> WatchBase])

Event(d, kind, of) ==
  inotify' = IF d \in inotify.watched THEN [inotify EXCEPT !.queue = Say([kind |-> kind, dir |-> of])]
             ELSE inotify

\* WatchSet::open has installed what there is.
WatchInit ==
  /\ tree = [d \in WatchedDir |-> IF d \in {WatchBase, WatchRoot} THEN 0 ELSE Gone]
  /\ inotify = [watched |-> {WatchBase, WatchRoot}, queue |-> << >>]
  /\ \E policy \in Policies, initial \in Initially :
       worker = [pc |-> "turn", policy |-> policy, dirty |-> initial,
                 deadline |-> IF initial THEN "due" ELSE "none", back |-> "turn",
                 batch |-> << >>, todo |-> << >>, found |-> FALSE,
                 installed |-> {WatchBase, WatchRoot}]
  /\ child = "none" /\ ran = Content /\ stop = "no"
  /\ bounds = [writes |-> 0, makes |-> 0]

-----------------------------------------------------------------------------
(***************************************************************************)
(* What other processes do to the tree.                                    *)
(***************************************************************************)
Write(d) ==
  /\ d # WatchBase /\ Exists(d) /\ bounds.writes < MaxChange
  /\ tree' = [tree EXCEPT ![d] = bounds.writes + 1]
  /\ bounds' = [bounds EXCEPT !.writes = @ + 1]
  /\ Event(d, "file", d)
  /\ UNCHANGED <<worker, child, ran, stop>>

Unlink(d) ==
  /\ Exists(d) /\ tree[d] # 0
  /\ tree' = [tree EXCEPT ![d] = 0]
  /\ Event(d, "file", d)
  /\ UNCHANGED <<worker, child, ran, stop, bounds>>

MakeDir(d) ==
  /\ d # WatchBase /\ ~ Exists(d) /\ Exists(Parent[d]) /\ bounds.makes < MaxMake
  /\ tree' = [tree EXCEPT ![d] = 0]
  /\ bounds' = [bounds EXCEPT !.makes = @ + 1]
  /\ Event(Parent[d], "dir", d)
  /\ UNCHANGED <<worker, child, ran, stop>>

\* The kernel drops the watch of a directory that is removed, and says so.
RemoveDir(d) ==
  /\ d # WatchBase /\ tree[d] = 0 /\ \A c \in InDir(d) : ~ Exists(c)
  /\ tree' = [tree EXCEPT ![d] = Gone]
  /\ inotify' = IF d \in inotify.watched
                THEN [watched |-> inotify.watched \ {d}, queue |-> Say([kind |-> "ignored", dir |-> d])]
                ELSE inotify
  /\ UNCHANGED <<worker, child, ran, stop, bounds>>

\* A directory moved out of the tree keeps its watch and is not heard of again.
MoveAway(d) ==
  LET moved == {c \in WatchedDir \ {WatchBase} : c = d \/ Parent[c] = d}
  IN  /\ "move" \in WatchDoing /\ d # WatchBase /\ Exists(d)
      /\ tree' = [c \in WatchedDir |-> IF c \in moved THEN Gone ELSE tree[c]]
      /\ inotify' = [watched |-> inotify.watched \ moved, queue |-> Say([kind |-> "other", dir |-> d])]
      /\ UNCHANGED <<worker, child, ran, stop, bounds>>

\* Reading a file is an event too; it is tried while the worker waits.
Look(d) ==
  /\ IF worker.pc = "poll" /\ inotify.queue = << >> THEN Event(d, "other", d) ELSE UNCHANGED inotify
  /\ UNCHANGED <<tree, worker, child, ran, stop, bounds>>

ChildEnds ==
  /\ child = "running" /\ child' = "ended"
  /\ UNCHANGED <<tree, inotify, worker, ran, stop, bounds>>

\* poll() is interrupted if it has begun; nobody knows whether it has.
AskToStop ==
  /\ "stop" \in WatchDoing /\ stop = "no" /\ stop' = "sent"
  /\ \/ UNCHANGED worker
     \/ worker.pc = "poll" /\ worker' = [worker EXCEPT !.pc = "turn"]
  /\ UNCHANGED <<tree, inotify, child, ran, bounds>>

DebouncePasses ==
  /\ worker.deadline = "ahead" /\ worker' = [worker EXCEPT !.deadline = "due"]
  /\ UNCHANGED <<tree, inotify, child, ran, stop, bounds>>

-----------------------------------------------------------------------------
(***************************************************************************)
(* Reading events, and installing what they call for.                      *)
(***************************************************************************)
\* Mutant: a directory is searched before it is watched.
TreeSearchedFirst(d) == <<[do |-> "scan", dir |-> d], [do |-> "install", dir |-> d]>>

\* install_tree: watch it, and then look at what was there before.
Tree(d) == <<[do |-> "install", dir |-> d], [do |-> "scan", dir |-> d]>>

Rebuild == <<[do |-> "install", dir |-> WatchBase], [do |-> "install", dir |-> WatchRoot]>> \o Tree(WatchRoot)

\* Some of what is queued is read, the first of it at least.
ReadEvents(back) ==
  \E n \in 1 .. Len(inotify.queue) :
    /\ inotify' = [inotify EXCEPT !.queue = SubSeq(@, n + 1, Len(@))]
    /\ worker' = [worker EXCEPT !.pc = "reading", !.back = back, !.found = FALSE,
                                !.batch = SubSeq(inotify.queue, 1, n)]

Observe ==
  LET e    == Head(worker.batch)
      lost == e.kind \in {"overflow", "ignored"}
  IN  /\ worker.pc = "reading" /\ worker.todo = << >> /\ worker.batch # << >>
      /\ worker' = [worker EXCEPT
           !.batch = Tail(@), !.found = @ \/ lost \/ e.kind = "file",
           !.installed = IF lost THEN {} ELSE @,
           !.todo = IF lost THEN Rebuild ELSE IF e.kind = "dir" THEN Tree(e.dir) ELSE @]
      \* A rebuild starts from a new queue.
      /\ inotify' = IF lost THEN [watched |-> {}, queue |-> << >>] ELSE inotify
      /\ UNCHANGED <<tree, child, ran, stop, bounds>>

Task(do) == worker.pc = "reading" /\ worker.todo # << >> /\ Head(worker.todo).do = do

\* What is thought to be watched is not watched again.
Install ==
  LET d   == Head(worker.todo).dir
      new == Exists(d) /\ d \notin worker.installed
  IN  /\ Task("install")
      /\ worker' = [worker EXCEPT !.todo = Tail(@), !.installed = IF new THEN @ \cup {d} ELSE @]
      /\ inotify' = IF new THEN [inotify EXCEPT !.watched = @ \cup {d}] ELSE inotify
      /\ UNCHANGED <<tree, child, ran, stop, bounds>>

Scan ==
  LET d      == Head(worker.todo).dir
      inside == SetToSeq({c \in InDir(d) : Exists(c)})
  IN  /\ Task("scan")
      /\ worker' = [worker EXCEPT
           !.found = @ \/ (Exists(d) /\ tree[d] # 0),
           !.todo = FlattenSeq([i \in DOMAIN inside |-> Tree(inside[i])]) \o Tail(@)]
      /\ UNCHANGED <<tree, inotify, child, ran, stop, bounds>>

\* In the loop a change sets the deadline, on the way to a restart only the flag.
FinishRead ==
  /\ worker.pc = "reading" /\ worker.todo = << >> /\ worker.batch = << >>
  /\ worker' = [worker EXCEPT
       !.pc = worker.back, !.back = "turn", !.dirty = @ \/ worker.found, !.found = FALSE,
       !.deadline = IF worker.found /\ worker.back = "turn" THEN "ahead" ELSE @]
  /\ UNCHANGED <<tree, inotify, child, ran, stop, bounds>>

-----------------------------------------------------------------------------
(***************************************************************************)
(* One turn of the loop: the signal, the child, the deadline.              *)
(***************************************************************************)
TakeSignal ==
  /\ worker.pc = "turn" /\ stop = "sent" /\ stop' = "taken"
  /\ worker' = [worker EXCEPT !.pc = IF child = "none" THEN "over" ELSE "stopping"]
  /\ UNCHANGED <<tree, inotify, child, ran, bounds>>

\* Mutant: a change seen while the command ran waits for the next one.
ReapAlone ==
  /\ worker.pc = "turn" /\ stop # "sent"
  /\ child' = IF child = "ended" THEN "none" ELSE child
  /\ worker' = [worker EXCEPT !.pc = "deadline"]
  /\ UNCHANGED <<tree, inotify, ran, stop, bounds>>

\* A child that has ended leaves what changed meanwhile to the next one.
Reap ==
  /\ worker.pc = "turn" /\ stop # "sent"
  /\ child' = IF child = "ended" THEN "none" ELSE child
  /\ worker' = [worker EXCEPT
       !.pc = "deadline",
       !.deadline = IF child = "ended" /\ worker.dirty /\ @ = "none" THEN "due" ELSE @]
  /\ UNCHANGED <<tree, inotify, ran, stop, bounds>>

\* The command is started, or cannot be, which ends the watch.
Start ==
  \/ /\ child' = "running" /\ ran' = Content
     /\ worker' = [worker EXCEPT !.pc = "poll", !.dirty = FALSE, !.deadline = "none"]
  \/ /\ child' = "none" /\ worker' = [worker EXCEPT !.pc = "over"] /\ UNCHANGED ran

\* The deadline has come, or not.  There is one child at a time: the one there
\* is is ended first, or waited for.
Deadline ==
  LET met(place) == worker' = [worker EXCEPT !.pc = place, !.deadline = "none"]
  IN  /\ worker.pc = "deadline"
      /\ \/ worker.deadline # "due" /\ worker' = [worker EXCEPT !.pc = "poll"] /\ UNCHANGED <<child, ran>>
         \/ worker.deadline = "due" /\ child = "none" /\ worker.dirty /\ Start
         \/ worker.deadline = "due" /\ child = "none" /\ ~ worker.dirty /\ met("poll") /\ UNCHANGED <<child, ran>>
         \/ worker.deadline = "due" /\ child # "none" /\ UNCHANGED <<child, ran>>
            /\ met(IF worker.policy = "restart" THEN "restarting" ELSE "poll")
      /\ UNCHANGED <<tree, inotify, stop, bounds>>

\* poll() returns for an event, at the deadline, or to look after the child.
Poll ==
  /\ worker.pc = "poll"
  /\ inotify.queue # << >> \/ worker.deadline = "due" \/ child # "none"
  /\ IF inotify.queue = << >> THEN worker' = [worker EXCEPT !.pc = "turn"] /\ UNCHANGED inotify
     ELSE ReadEvents("turn")
  /\ UNCHANGED <<tree, child, ran, stop, bounds>>

-----------------------------------------------------------------------------
(***************************************************************************)
(* Ending the child's group: it is asked, given a while, and killed.       *)
(* Events are read meanwhile.                                              *)
(***************************************************************************)
Ending == worker.pc \in {"restarting", "stopping"}

ReadMeanwhile ==
  /\ Ending /\ child = "running" /\ inotify.queue # << >>
  /\ ReadEvents(worker.pc)
  /\ UNCHANGED <<tree, child, ran, stop, bounds>>

\* It has ended, or its grace has.
Ended ==
  /\ Ending
  /\ IF worker.pc = "restarting" THEN Start
     ELSE child' = "none" /\ worker' = [worker EXCEPT !.pc = "over"] /\ UNCHANGED ran
  /\ UNCHANGED <<tree, inotify, stop, bounds>>

-----------------------------------------------------------------------------
Works ==
  \/ Observe \/ Install \/ Scan \/ FinishRead
  \/ TakeSignal \/ Reap \/ Deadline \/ Poll \/ ReadMeanwhile \/ Ended

WatchNext ==
  \/ \E d \in WatchedDir : Write(d) \/ Unlink(d) \/ MakeDir(d) \/ RemoveDir(d) \/ MoveAway(d) \/ Look(d)
  \/ ChildEnds \/ AskToStop \/ DebouncePasses \/ Works

WatchSpec == WatchInit /\ [][WatchNext]_watchVars

(***************************************************************************)
(* The worker is scheduled and time passes.  A command that is waited for  *)
(* ends; one that is restarted need not.                                   *)
(***************************************************************************)
WatchFairSpec ==
  /\ WatchSpec /\ WF_watchVars(Works) /\ WF_watchVars(DebouncePasses)
  /\ WF_watchVars(worker.policy = "coalesce" /\ ChildEnds)

-----------------------------------------------------------------------------
(***************************************************************************)
(* Properties.                                                             *)
(***************************************************************************)
WorkerPlace == {"turn", "deadline", "poll", "reading", "restarting", "stopping", "over"}
Queued == [kind : {"file", "dir", "ignored", "other", "overflow"}, dir : WatchedDir]

WatchTypeOK ==
  /\ tree \in [WatchedDir -> 0 .. MaxChange \cup {Gone}]
  /\ inotify.watched \subseteq WatchedDir /\ inotify.queue \in Seq(Queued)
  /\ worker.pc \in WorkerPlace /\ worker.back \in WorkerPlace /\ worker.installed \subseteq WatchedDir
  /\ child \in {"none", "running", "ended"} /\ stop \in {"no", "sent", "taken"}

HasSeen(d) == Content[d] # 0 => ran[d] = Content[d]

(* No change is lost: once the files are left alone, the command comes to  *)
(* have been started since each file was written last - whatever directory *)
(* it is in, however new that is, whatever the queue dropped, and whether  *)
(* or not the command was running - or the watch is over, because its      *)
(* command could not be started or because it took a signal, which always  *)
(* ends it (the loop of runner::run, ChildGroup::terminate, WatchSet).     *)
ChangesAreRun ==
  <>[](worker.pc = "over" \/ stop = "sent" \/ (stop = "no" /\ \A d \in WatchedDir : HasSeen(d)))
=============================================================================
