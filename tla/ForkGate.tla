------------------------------ MODULE ForkGate ------------------------------
(***************************************************************************)
(* Forking from a shell that has threads (forksafe.rs), and the history    *)
(* writer among them (track/writer.rs).                                    *)
(*                                                                         *)
(* fork() copies all of a process's memory and one of its threads.  A lock *)
(* another thread held is held for ever in the copy, and a queue another   *)
(* thread was draining is drained by nobody.  Threads take a process-wide  *)
(* lock inside a guarded region, forks go through quiesced(), and one      *)
(* reader-writer lock keeps the two apart.                                 *)
(***************************************************************************)
EXTENDS Naturals, Sequences

CONSTANTS
  Process,   \* the processes there may be: bounds the forks
  Root,      \* the shell that was started
  Shell,     \* the thread that evaluates commands, the only one that forks
  Writer,    \* the oslo-history thread
  Detached,  \* threads that warm a cache and end, one guarded region each
  Lock,      \* the process-wide locks: the $PATH cache, the model, the database
  MaxDepth,  \* how deep guarded regions nest
  MaxJobs,   \* how many jobs wait in the writer's queue
  None

Thread == {Shell, Writer} \cup Detached

ASSUME ForkAssumption ==
  /\ Root \in Process
  /\ Shell # Writer /\ Shell \notin Detached /\ Writer \notin Detached
  /\ None \notin Thread /\ None \notin Process /\ None \notin Lock
  /\ MaxDepth \in Nat \ {0} /\ MaxJobs \in Nat

VARIABLES
  alive,    \* alive[p]: the threads process p has
  readers,  \* the threads inside a guarded region: read guards of GATE
  writer,   \* the thread that holds GATE for writing
  waiting,  \* the threads that wait to: new readers queue behind them
  depth,    \* DEPTH, how many guarded regions a thread is in
  pc,       \* where each thread is
  want,     \* the lock the thread's region is about
  holder,   \* holder[p][l]: the thread that holds lock l
  queue,    \* QUEUE: jobs, and the marks settle() leaves
  owner     \* OWNER: the process whose writer thread drains the queue

gate == <<readers, writer, waiting>>
region == <<depth, pc, want>>
jobs == <<queue, owner>>
vars == <<alive, gate, region, holder, jobs>>

Place == {"idle", "outer", "inside", "locked", "leaving", "fork", "forking", "settling"}

TypeOK ==
  /\ alive \in [Process -> SUBSET Thread]
  /\ readers \in [Process -> SUBSET Thread]
  /\ writer \in [Process -> Thread \cup {None}]
  /\ waiting \in [Process -> SUBSET Thread]
  /\ depth \in [Process -> [Thread -> 0 .. MaxDepth]]
  /\ pc \in [Process -> [Thread -> Place]]
  /\ want \in [Process -> [Thread -> Lock \cup {None}]]
  /\ holder \in [Process -> [Lock -> Thread \cup {None}]]
  /\ queue \in [Process -> Seq({"job", "mark"})]
  /\ owner \in [Process -> Process \cup {None}]

\* The detached threads are started at the first prompt, the writer by its first job.
Init ==
  /\ alive = [p \in Process |-> IF p = Root THEN {Shell} \cup Detached ELSE {}]
  /\ readers = [p \in Process |-> {}]
  /\ writer = [p \in Process |-> None]
  /\ waiting = [p \in Process |-> {}]
  /\ depth = [p \in Process |-> [t \in Thread |-> 0]]
  /\ pc = [p \in Process |-> [t \in Thread |-> "idle"]]
  /\ want = [p \in Process |-> [t \in Thread |-> None]]
  /\ holder = [p \in Process |-> [l \in Lock |-> None]]
  /\ queue = [p \in Process |-> <<>>]
  /\ owner = [p \in Process |-> None]

At(p, t, place) == t \in alive[p] /\ pc[p][t] = place
Go(p, t, place) == pc' = [pc EXCEPT ![p][t] = place]

-----------------------------------------------------------------------------
(***************************************************************************)
(* guarded(): the depth is raised, the outermost region takes the gate,    *)
(* the work takes one lock, and everything is let go in reverse.           *)
(***************************************************************************)
\* The writer begins one for the job at the head of its queue.
Enter(p, t) ==
  /\ At(p, t, "idle")
  /\ t = Writer => queue[p] # <<>> /\ Head(queue[p]) = "job"
  /\ depth' = [depth EXCEPT ![p][t] = 1]
  /\ \E l \in Lock : want' = [want EXCEPT ![p][t] = l]
  /\ Go(p, t, "outer")
  /\ UNCHANGED <<alive, gate, holder, jobs>>

\* Mutant: a region may begin while a fork has the gate.
PassAnyway(p, t) ==
  /\ At(p, t, "outer")
  /\ readers' = [readers EXCEPT ![p] = @ \cup {t}]
  /\ Go(p, t, "inside")
  /\ UNCHANGED <<alive, writer, waiting, depth, want, holder, jobs>>

Pass(p, t) ==
  /\ At(p, t, "outer")
  /\ writer[p] = None /\ waiting[p] = {}
  /\ readers' = [readers EXCEPT ![p] = @ \cup {t}]
  /\ Go(p, t, "inside")
  /\ UNCHANGED <<alive, writer, waiting, depth, want, holder, jobs>>

\* A region inside another goes straight on.
Nest(p, t) ==
  /\ At(p, t, "inside") /\ depth[p][t] < MaxDepth
  /\ depth' = [depth EXCEPT ![p][t] = @ + 1]
  /\ UNCHANGED <<alive, gate, pc, want, holder, jobs>>

Acquire(p, t) ==
  /\ At(p, t, "inside")
  /\ holder[p][want[p][t]] = None
  /\ holder' = [holder EXCEPT ![p][want[p][t]] = t]
  /\ Go(p, t, "locked")
  /\ UNCHANGED <<alive, gate, depth, want, jobs>>

Unlock(p, t) ==
  /\ At(p, t, "locked")
  /\ holder' = [holder EXCEPT ![p][want[p][t]] = None]
  /\ Go(p, t, "leaving")
  /\ UNCHANGED <<alive, gate, depth, want, jobs>>

\* Out of an inner region.
LeaveInner(p, t) ==
  /\ At(p, t, "leaving") /\ depth[p][t] > 1
  /\ depth' = [depth EXCEPT ![p][t] = @ - 1]
  /\ UNCHANGED <<alive, gate, pc, want, holder, jobs>>

\* Out of the last one.  A detached thread is done, and so is the writer's job.
Leave(p, t) ==
  /\ At(p, t, "leaving") /\ depth[p][t] = 1
  /\ depth' = [depth EXCEPT ![p][t] = 0]
  /\ readers' = [readers EXCEPT ![p] = @ \ {t}]
  /\ want' = [want EXCEPT ![p][t] = None]
  /\ alive' = [alive EXCEPT ![p] = IF t \in Detached THEN @ \ {t} ELSE @]
  /\ queue' = [queue EXCEPT ![p] = IF t = Writer THEN Tail(@) ELSE @]
  /\ Go(p, t, "idle")
  /\ UNCHANGED <<writer, waiting, holder, owner>>

-----------------------------------------------------------------------------
(***************************************************************************)
(* quiesced(): the gate is held for writing across the fork and dropped in *)
(* both processes.                                                         *)
(***************************************************************************)
WantFork(p) ==
  /\ At(p, Shell, "idle")
  /\ waiting' = [waiting EXCEPT ![p] = @ \cup {Shell}]
  /\ Go(p, Shell, "fork")
  /\ UNCHANGED <<alive, readers, writer, depth, want, holder, jobs>>

\* Mutant: the fork does not wait for the regions.
TakeGateAnyway(p) ==
  /\ At(p, Shell, "fork")
  /\ writer[p] = None
  /\ writer' = [writer EXCEPT ![p] = Shell]
  /\ waiting' = [waiting EXCEPT ![p] = @ \ {Shell}]
  /\ Go(p, Shell, "forking")
  /\ UNCHANGED <<alive, readers, depth, want, holder, jobs>>

TakeGate(p) ==
  /\ At(p, Shell, "fork")
  /\ writer[p] = None /\ readers[p] = {}
  /\ writer' = [writer EXCEPT ![p] = Shell]
  /\ waiting' = [waiting EXCEPT ![p] = @ \ {Shell}]
  /\ Go(p, Shell, "forking")
  /\ UNCHANGED <<alive, readers, depth, want, holder, jobs>>

\* What the child has of the threads' own state: the forking thread's.
Survivor(own, none) == [t \in Thread |-> IF t = Shell THEN own[Shell] ELSE none]

\* Mutant: only the parent lets go of the gate.
ForkShut(p, q) ==
  /\ At(p, Shell, "forking")
  /\ alive[q] = {} /\ q # Root
  /\ alive' = [alive EXCEPT ![q] = {Shell}]
  /\ readers' = [readers EXCEPT ![q] = readers[p]]
  /\ writer' = [writer EXCEPT ![p] = None, ![q] = writer[p]]
  /\ waiting' = [waiting EXCEPT ![q] = waiting[p]]
  /\ depth' = [depth EXCEPT ![q] = Survivor(depth[p], 0)]
  /\ pc' = [pc EXCEPT ![p][Shell] = "idle", ![q] = [t \in Thread |-> "idle"]]
  /\ want' = [want EXCEPT ![q] = Survivor(want[p], None)]
  /\ holder' = [holder EXCEPT ![q] = holder[p]]
  /\ queue' = [queue EXCEPT ![q] = queue[p]]
  /\ owner' = [owner EXCEPT ![q] = owner[p]]

\* The child has the forking thread, and a copy of everything that is not a thread's own.
Fork(p, q) ==
  /\ At(p, Shell, "forking")
  /\ alive[q] = {} /\ q # Root
  /\ alive' = [alive EXCEPT ![q] = {Shell}]
  /\ readers' = [readers EXCEPT ![q] = readers[p]]
  /\ writer' = [writer EXCEPT ![p] = None, ![q] = None]
  /\ waiting' = [waiting EXCEPT ![q] = waiting[p]]
  /\ depth' = [depth EXCEPT ![q] = Survivor(depth[p], 0)]
  /\ pc' = [pc EXCEPT ![p][Shell] = "idle", ![q] = [t \in Thread |-> "idle"]]
  /\ want' = [want EXCEPT ![q] = Survivor(want[p], None)]
  /\ holder' = [holder EXCEPT ![q] = holder[p]]
  /\ queue' = [queue EXCEPT ![q] = queue[p]]
  /\ owner' = [owner EXCEPT ![q] = owner[p]]

\* There is no process to be had, and nothing has been copied.
ForkFails(p) ==
  /\ At(p, Shell, "forking")
  /\ writer' = [writer EXCEPT ![p] = None]
  /\ Go(p, Shell, "idle")
  /\ UNCHANGED <<alive, readers, waiting, depth, want, holder, jobs>>

-----------------------------------------------------------------------------
(***************************************************************************)
(* The writer's queue.  Only the prompt loop defers; any process may reach *)
(* the exec builtin, which settles first.                                  *)
(***************************************************************************)
Defer ==
  /\ At(Root, Shell, "idle")
  /\ Len(queue[Root]) < MaxJobs
  /\ queue' = [queue EXCEPT ![Root] = Append(@, "job")]
  /\ owner' = [owner EXCEPT ![Root] = Root]
  /\ alive' = [alive EXCEPT ![Root] = @ \cup {Writer}]
  /\ UNCHANGED <<gate, region, holder>>

\* Mutant: whoever has a queue waits for it.
OursIfAny(p) == owner[p] # None

Ours(p) == owner[p] = p

\* Where the thread that would answer is another process's, settle returns at once.
Settle(p) ==
  /\ At(p, Shell, "idle") /\ Ours(p)
  /\ queue' = [queue EXCEPT ![p] = Append(@, "mark")]
  /\ Go(p, Shell, "settling")
  /\ UNCHANGED <<alive, gate, depth, want, holder, owner>>

\* Everything queued before the mark is done; an answer nobody waits for is dropped.
Answer(p) ==
  /\ At(p, Writer, "idle")
  /\ queue[p] # <<>> /\ Head(queue[p]) = "mark"
  /\ queue' = [queue EXCEPT ![p] = Tail(@)]
  /\ pc' = [pc EXCEPT ![p][Shell] = IF @ = "settling" THEN "idle" ELSE @]
  /\ UNCHANGED <<alive, gate, depth, want, holder, owner>>

-----------------------------------------------------------------------------
\* What a thread that has begun something goes on with.
Continue(p, t) ==
  \/ Pass(p, t) \/ Acquire(p, t) \/ Unlock(p, t)
  \/ LeaveInner(p, t) \/ Leave(p, t)

Forking(p) == TakeGate(p) \/ ForkFails(p) \/ \E q \in Process : Fork(p, q)

Next ==
  \/ \E p \in Process :
       \/ \E t \in Thread : Enter(p, t) \/ Nest(p, t) \/ Continue(p, t)
       \/ WantFork(p) \/ Forking(p) \/ Settle(p) \/ Answer(p)
  \/ Defer

Spec == Init /\ [][Next]_vars

\* Threads are scheduled and regions end; nobody has to type or to fork.
FairSpec ==
  /\ Spec
  /\ \A p \in Process :
       /\ \A t \in Thread : WF_vars(Continue(p, t))
       /\ WF_vars(Forking(p)) /\ WF_vars(Enter(p, Writer)) /\ WF_vars(Answer(p))

-----------------------------------------------------------------------------
InRegion(p, t) == pc[p][t] \in {"inside", "locked", "leaving"}

\* The gate is where the threads' places say: shut only by a fork, with no region open.
GateAgrees ==
  \A p \in Process :
    /\ writer[p] # None => readers[p] = {}
    /\ \A t \in Thread :
         /\ t \in readers[p] <=> InRegion(p, t)
         /\ t \in waiting[p] <=> pc[p][t] = "fork"
         /\ t = writer[p] <=> pc[p][t] = "forking"

\* A thread that did not come along in a fork is nowhere.
ThreadsAgree ==
  \A p \in Process : \A t \in Thread :
    /\ t \notin alive[p] => pc[p][t] = "idle"
    /\ depth[p][t] > 0 <=> InRegion(p, t) \/ pc[p][t] = "outer"
    /\ depth[p][t] > 0 => want[p][t] \in Lock
    /\ pc[p][t] \in {"fork", "forking", "settling"} => t = Shell

\* What the writer is doing is the job at the head of its queue.
QueueAgrees ==
  \A p \in Process :
    depth[p][Writer] > 0 => queue[p] # <<>> /\ Head(queue[p]) = "job"

\* A lock is held by a thread whose region is about it, and only inside the region.
LocksAgree ==
  \A p \in Process : \A l \in Lock :
    holder[p][l] # None => /\ pc[p][holder[p][l]] = "locked"
                           /\ want[p][holder[p][l]] = l

(***************************************************************************)
(* What every process keeps, whichever thread moves: the gate, the places  *)
(* of the threads, the locks of forksafe.rs and the queue of writer.rs     *)
(* agree with one another.                                                 *)
(***************************************************************************)
GateInv == TypeOK /\ GateAgrees /\ ThreadsAgree /\ LocksAgree /\ QueueAgrees

\* Whatever lock is held in a process, the thread that will let go of it is there.
NoOrphanLock ==
  \A p \in Process : \A l \in Lock : holder[p][l] # None => holder[p][l] \in alive[p]

\* Whoever is counted at a process's gate is a thread of that process.
NoOrphanGuard ==
  \A p \in Process :
    /\ readers[p] \subseteq alive[p] /\ waiting[p] \subseteq alive[p]
    /\ writer[p] # None => writer[p] \in alive[p]

(***************************************************************************)
(* "The child inherits every one of them unlocked", and the gate with      *)
(* them: it "starts with it free and can fork again itself" (forksafe.rs). *)
(***************************************************************************)
NothingOrphaned == NoOrphanLock /\ NoOrphanGuard

(***************************************************************************)
(* A fork that waits for the gate gets it: the regions it waits for end,   *)
(* nested ones included, and new ones wait behind it.                      *)
(***************************************************************************)
ForkHappens == \A p \in Process : At(p, Shell, "fork") ~> At(p, Shell, "idle")

(***************************************************************************)
(* Whatever lock the shell's own thread wants it gets, in the shell and in *)
(* every process forked from it.                                           *)
(***************************************************************************)
RegionsEnd == \A p \in Process : At(p, Shell, "outer") ~> At(p, Shell, "idle")

\* settle() returns, in the process that has the writer and in those that do not.
SettleReturns == \A p \in Process : At(p, Shell, "settling") ~> At(p, Shell, "idle")
=============================================================================
