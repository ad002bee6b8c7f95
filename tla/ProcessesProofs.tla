------------------------- MODULE ProcessesProofs --------------------------
(***************************************************************************)
(* What processes, threads and jobs do among themselves, for any number of *)
(* them: forking (ForkGate), scratch sessions (Scratch), and what happens  *)
(* behind the prompt (Background).  They share no state, and no proof of   *)
(* one uses another's.                                                     *)
(***************************************************************************)
EXTENDS ForkGate, Scratch, Background, FiniteSetTheorems, SequenceTheorems, TLAPS

-----------------------------------------------------------------------------
(***************************************************************************)
(* What ForkGate's forks and regions keep, for any number of processes,    *)
(* threads and locks.  GateInv is inductive as it stands, one lemma per    *)
(* action; the two safety invariants follow from it without a step.        *)
(***************************************************************************)
USE ForkAssumption

\* A region opens at the gate, before any lock.
LEMMA EnterKeeps ==
  ASSUME GateInv, NEW p \in Process, NEW t \in Thread, Enter(p, t)
  PROVE  GateInv'
<1>1. TypeOK'
  <2>1. depth' \in [Process -> [Thread -> 0 .. MaxDepth]]
    <3>1. 1 \in 0 .. MaxDepth
      BY DEF Enter
    <3> QED BY <3>1 DEF GateInv, TypeOK, Enter
  <2>2. want' \in [Process -> [Thread -> Lock \cup {None}]]
    <3>1. PICK l \in Lock : want' = [want EXCEPT ![p][t] = l]
      BY DEF Enter
    <3> QED BY <3>1 DEF GateInv, TypeOK
  <2>3. pc' \in [Process -> [Thread -> Place]]
    BY DEF GateInv, TypeOK, Enter, Go, Thread, Place
  <2> QED BY <2>1, <2>2, <2>3 DEF GateInv, TypeOK, Enter, Go, gate, jobs, region
<1>2. GateAgrees'
  BY DEF GateInv, TypeOK, GateAgrees, ThreadsAgree, InRegion, Enter,
         At, Go, gate, region, Thread
<1>3. ThreadsAgree'
  BY DEF GateInv, TypeOK, ThreadsAgree, InRegion, Enter,
         At, Go, gate, region, Thread
<1>4. LocksAgree'
  BY DEF GateInv, TypeOK, LocksAgree, Enter,
         At, Go, gate, region, Thread
<1>5. QueueAgrees'
  BY DEF GateInv, TypeOK, ThreadsAgree, QueueAgrees, InRegion, Enter,
         At, Go, gate, region, jobs, Thread
<1> QED BY <1>1, <1>2, <1>3, <1>4, <1>5 DEF GateInv

\* The gate lets a region in while no fork has it or waits for it.
LEMMA PassKeeps ==
  ASSUME GateInv, NEW p \in Process, NEW t \in Thread, Pass(p, t)
  PROVE  GateInv'
<1>1. TypeOK'
  <2>1. readers' \in [Process -> SUBSET Thread]
    BY DEF GateInv, TypeOK, Pass, Thread
  <2>2. pc' \in [Process -> [Thread -> Place]]
    BY DEF GateInv, TypeOK, Pass, Go, Thread, Place
  <2> QED BY <2>1, <2>2 DEF GateInv, TypeOK, Pass, Go, gate, jobs, region
<1>2. GateAgrees'
  BY DEF GateInv, TypeOK, GateAgrees, ThreadsAgree, InRegion, Pass,
         At, Go, gate, region, Thread
<1>3. ThreadsAgree'
  BY DEF GateInv, TypeOK, ThreadsAgree, InRegion, Pass,
         At, Go, gate, region, Thread
<1>4. LocksAgree'
  BY DEF GateInv, TypeOK, LocksAgree, Pass,
         At, Go, gate, region, Thread
<1>5. QueueAgrees'
  BY DEF GateInv, TypeOK, ThreadsAgree, QueueAgrees, InRegion, Pass,
         At, Go, gate, region, jobs, Thread
<1> QED BY <1>1, <1>2, <1>3, <1>4, <1>5 DEF GateInv

\* A region inside another leaves the gate alone.
LEMMA NestKeeps ==
  ASSUME GateInv, NEW p \in Process, NEW t \in Thread, Nest(p, t)
  PROVE  GateInv'
<1>1. TypeOK'
  <2>1. depth' \in [Process -> [Thread -> 0 .. MaxDepth]]
    <3>1. depth[p][t] \in 0 .. MaxDepth
      BY DEF GateInv, TypeOK
    <3>2. depth[p][t] + 1 \in 0 .. MaxDepth
      BY <3>1 DEF Nest
    <3> QED BY <3>2 DEF GateInv, TypeOK, Nest
  <2> QED BY <2>1 DEF GateInv, TypeOK, Nest, Go, gate, jobs, region
<1>2. GateAgrees'
  BY DEF GateInv, TypeOK, GateAgrees, ThreadsAgree, InRegion, Nest,
         At, Go, gate, region, Thread
<1>3. ThreadsAgree'
  <2>1. depth[p][t] > 0 /\ depth'[p][t] > 0
    BY DEF GateInv, TypeOK, ThreadsAgree, InRegion, Nest, At
  <2> QED
    BY <2>1 DEF GateInv, TypeOK, ThreadsAgree, InRegion, Nest
<1>4. LocksAgree'
  BY DEF GateInv, TypeOK, LocksAgree, Nest,
         At, Go, gate, region, Thread
<1>5. QueueAgrees'
  BY DEF GateInv, TypeOK, ThreadsAgree, QueueAgrees, InRegion, Nest,
         At, Go, gate, region, jobs, Thread
<1> QED BY <1>1, <1>2, <1>3, <1>4, <1>5 DEF GateInv

\* A lock is taken inside its region.
LEMMA AcquireKeeps ==
  ASSUME GateInv, NEW p \in Process, NEW t \in Thread, Acquire(p, t)
  PROVE  GateInv'
<1>1. TypeOK'
  <2>1. holder' \in [Process -> [Lock -> Thread \cup {None}]]
    BY DEF GateInv, TypeOK, Acquire, Thread
  <2>2. pc' \in [Process -> [Thread -> Place]]
    BY DEF GateInv, TypeOK, Acquire, Go, Thread, Place
  <2> QED BY <2>1, <2>2 DEF GateInv, TypeOK, Acquire, Go, gate, jobs, region
<1>2. GateAgrees'
  <2>1. /\ \A q \in Process, u \in Thread : (q = p /\ u = t) \/ pc'[q][u] = pc[q][u]
        /\ pc[p][t] = "inside" /\ pc'[p][t] = "locked"
    BY DEF GateInv, TypeOK, Acquire, At, Go
  <2> QED BY <2>1 DEF GateInv, GateAgrees, InRegion, Acquire, gate
<1>3. ThreadsAgree'
  <2>1. /\ \A q \in Process, u \in Thread : (q = p /\ u = t) \/ pc'[q][u] = pc[q][u]
        /\ pc[p][t] = "inside" /\ pc'[p][t] = "locked" /\ t \in alive[p]
    BY DEF GateInv, TypeOK, Acquire, At, Go
  <2> QED BY <2>1 DEF GateInv, ThreadsAgree, InRegion, Acquire
<1>4. LocksAgree'
  BY DEF GateInv, TypeOK, LocksAgree, Acquire,
         At, Go, gate, region, Thread
<1>5. QueueAgrees'
  BY DEF GateInv, TypeOK, ThreadsAgree, QueueAgrees, InRegion, Acquire,
         At, Go, gate, region, jobs, Thread
<1> QED BY <1>1, <1>2, <1>3, <1>4, <1>5 DEF GateInv

\* A lock is let go inside its region.
LEMMA UnlockKeeps ==
  ASSUME GateInv, NEW p \in Process, NEW t \in Thread, Unlock(p, t)
  PROVE  GateInv'
<1>1. TypeOK'
  <2>1. holder' \in [Process -> [Lock -> Thread \cup {None}]]
    BY DEF GateInv, TypeOK, Unlock, Thread
  <2>2. pc' \in [Process -> [Thread -> Place]]
    BY DEF GateInv, TypeOK, Unlock, Go, Thread, Place
  <2> QED BY <2>1, <2>2 DEF GateInv, TypeOK, Unlock, Go, gate, jobs, region
<1>2. GateAgrees'
  <2>1. /\ \A q \in Process, u \in Thread : (q = p /\ u = t) \/ pc'[q][u] = pc[q][u]
        /\ pc[p][t] = "locked" /\ pc'[p][t] = "leaving"
    BY DEF GateInv, TypeOK, Unlock, At, Go
  <2> QED BY <2>1 DEF GateInv, GateAgrees, InRegion, Unlock, gate
<1>3. ThreadsAgree'
  <2>1. /\ \A q \in Process, u \in Thread : (q = p /\ u = t) \/ pc'[q][u] = pc[q][u]
        /\ pc[p][t] = "locked" /\ pc'[p][t] = "leaving" /\ t \in alive[p]
    BY DEF GateInv, TypeOK, Unlock, At, Go
  <2> QED BY <2>1 DEF GateInv, ThreadsAgree, InRegion, Unlock
<1>4. LocksAgree'
  BY DEF GateInv, TypeOK, LocksAgree, Unlock,
         At, Go, gate, region, Thread
<1>5. QueueAgrees'
  BY DEF GateInv, TypeOK, ThreadsAgree, QueueAgrees, InRegion, Unlock,
         At, Go, gate, region, jobs, Thread
<1> QED BY <1>1, <1>2, <1>3, <1>4, <1>5 DEF GateInv

\* Out of an inner region the thread is still in the outer one.
LEMMA LeaveInnerKeeps ==
  ASSUME GateInv, NEW p \in Process, NEW t \in Thread, LeaveInner(p, t)
  PROVE  GateInv'
<1>1. TypeOK'
  <2>1. depth' \in [Process -> [Thread -> 0 .. MaxDepth]]
    <3>1. depth[p][t] \in 0 .. MaxDepth
      BY DEF GateInv, TypeOK
    <3>2. depth[p][t] - 1 \in 0 .. MaxDepth
      BY <3>1 DEF LeaveInner
    <3> QED BY <3>2 DEF GateInv, TypeOK, LeaveInner
  <2> QED BY <2>1 DEF GateInv, TypeOK, LeaveInner, Go, gate, jobs, region
<1>2. GateAgrees'
  BY DEF GateInv, TypeOK, GateAgrees, ThreadsAgree, InRegion, LeaveInner,
         At, Go, gate, region, Thread
<1>3. ThreadsAgree'
  <2>1. depth[p][t] > 0 /\ depth'[p][t] > 0
    <3>1. depth[p][t] \in Nat /\ depth'[p][t] = depth[p][t] - 1
      BY DEF GateInv, TypeOK, LeaveInner
    <3> QED BY <3>1 DEF LeaveInner
  <2>2. \A q \in Process, u \in Thread : (q = p /\ u = t) \/ depth'[q][u] = depth[q][u]
    BY DEF GateInv, TypeOK, LeaveInner
  <2> QED BY <2>1, <2>2 DEF GateInv, ThreadsAgree, InRegion, LeaveInner
<1>4. LocksAgree'
  BY DEF GateInv, TypeOK, LocksAgree, LeaveInner,
         At, Go, gate, region, Thread
<1>5. QueueAgrees'
  BY DEF GateInv, TypeOK, ThreadsAgree, QueueAgrees, InRegion, LeaveInner,
         At, Go, gate, region, jobs, Thread
<1> QED BY <1>1, <1>2, <1>3, <1>4, <1>5 DEF GateInv

\* The last region's end gives the gate back, and the writer its next job.
LEMMA LeaveKeeps ==
  ASSUME GateInv, NEW p \in Process, NEW t \in Thread, Leave(p, t)
  PROVE  GateInv'
<1>1. TypeOK'
  <2>1. depth' \in [Process -> [Thread -> 0 .. MaxDepth]]
    <3>1. 0 \in 0 .. MaxDepth
      BY DEF Leave
    <3> QED BY <3>1 DEF GateInv, TypeOK, Leave
  <2>2. readers' \in [Process -> SUBSET Thread]
    BY DEF GateInv, TypeOK, Leave, Thread
  <2>3. want' \in [Process -> [Thread -> Lock \cup {None}]]
    BY DEF GateInv, TypeOK, Leave, Thread
  <2>4. alive' \in [Process -> SUBSET Thread]
    BY DEF GateInv, TypeOK, Leave, Thread
  <2>5. queue' \in [Process -> Seq({"job", "mark"})]
    <3>1. t = Writer => queue[p] # <<>>
      BY DEF GateInv, QueueAgrees, Leave
    <3>2. t = Writer => Tail(queue[p]) \in Seq({"job", "mark"})
      BY <3>1 DEF GateInv, TypeOK
    <3> QED BY <3>2 DEF GateInv, TypeOK, Leave
  <2>6. pc' \in [Process -> [Thread -> Place]]
    BY DEF GateInv, TypeOK, Leave, Go, Thread, Place
  <2> QED BY <2>1, <2>2, <2>3, <2>4, <2>5, <2>6 DEF GateInv, TypeOK, Leave, Go, gate, jobs, region
<1>2. GateAgrees'
  BY DEF GateInv, TypeOK, GateAgrees, ThreadsAgree, InRegion, Leave,
         At, Go, gate, region, Thread
<1>3. ThreadsAgree'
  BY DEF GateInv, TypeOK, ThreadsAgree, InRegion, Leave,
         At, Go, gate, region, Thread
<1>4. LocksAgree'
  BY DEF GateInv, TypeOK, LocksAgree, Leave,
         At, Go, gate, region, Thread
<1>5. QueueAgrees'
  BY DEF GateInv, TypeOK, ThreadsAgree, QueueAgrees, InRegion, Leave,
         At, Go, gate, region, jobs, Thread
<1> QED BY <1>1, <1>2, <1>3, <1>4, <1>5 DEF GateInv

\* A fork that waits has no region of its own.
LEMMA WantForkKeeps ==
  ASSUME GateInv, NEW p \in Process, WantFork(p)
  PROVE  GateInv'
<1>1. TypeOK'
  <2>1. waiting' \in [Process -> SUBSET Thread]
    BY DEF GateInv, TypeOK, WantFork, Thread
  <2>2. pc' \in [Process -> [Thread -> Place]]
    BY DEF GateInv, TypeOK, WantFork, Go, Thread, Place
  <2> QED BY <2>1, <2>2 DEF GateInv, TypeOK, WantFork, Go, gate, jobs, region
<1>2. GateAgrees'
  BY DEF GateInv, TypeOK, GateAgrees, ThreadsAgree, InRegion, WantFork,
         At, Go, gate, region, Thread
<1>3. ThreadsAgree'
  BY DEF GateInv, TypeOK, ThreadsAgree, InRegion, WantFork,
         At, Go, gate, region, Thread
<1>4. LocksAgree'
  BY DEF GateInv, TypeOK, LocksAgree, WantFork,
         At, Go, gate, region, Thread
<1>5. QueueAgrees'
  BY DEF GateInv, TypeOK, ThreadsAgree, QueueAgrees, InRegion, WantFork,
         At, Go, gate, region, jobs, Thread
<1> QED BY <1>1, <1>2, <1>3, <1>4, <1>5 DEF GateInv

\* A fork takes the gate when no region is open.
LEMMA TakeGateKeeps ==
  ASSUME GateInv, NEW p \in Process, TakeGate(p)
  PROVE  GateInv'
<1>1. TypeOK'
  <2>1. writer' \in [Process -> Thread \cup {None}]
    BY DEF GateInv, TypeOK, TakeGate, Thread
  <2>2. waiting' \in [Process -> SUBSET Thread]
    BY DEF GateInv, TypeOK, TakeGate, Thread
  <2>3. pc' \in [Process -> [Thread -> Place]]
    BY DEF GateInv, TypeOK, TakeGate, Go, Thread, Place
  <2> QED BY <2>1, <2>2, <2>3 DEF GateInv, TypeOK, TakeGate, Go, gate, jobs, region
<1>2. GateAgrees'
  BY DEF GateInv, TypeOK, GateAgrees, ThreadsAgree, InRegion, TakeGate,
         At, Go, gate, region, Thread
<1>3. ThreadsAgree'
  BY DEF GateInv, TypeOK, ThreadsAgree, InRegion, TakeGate,
         At, Go, gate, region, Thread
<1>4. LocksAgree'
  BY DEF GateInv, TypeOK, LocksAgree, TakeGate,
         At, Go, gate, region, Thread
<1>5. QueueAgrees'
  BY DEF GateInv, TypeOK, ThreadsAgree, QueueAgrees, InRegion, TakeGate,
         At, Go, gate, region, jobs, Thread
<1> QED BY <1>1, <1>2, <1>3, <1>4, <1>5 DEF GateInv

\* The copy has one thread, no region and no lock, and so agrees with itself.
LEMMA ForkKeeps ==
  ASSUME GateInv, NEW p \in Process, NEW q \in Process, Fork(p, q)
  PROVE  GateInv'
<1> DEFINE Idle == [t \in Thread |-> "idle"]
\* A fork happens with the gate shut, so with no region open and no lock held.
<1>1. /\ p # q
      /\ pc[p][Shell] = "forking"
      /\ readers[p] = {} /\ waiting[p] = {}
      /\ depth[p][Shell] = 0
  <2>1. p # q /\ pc[p][Shell] = "forking" /\ Shell \in Thread
    BY DEF Fork, At, Thread
  <2>2. writer[p] = Shell /\ readers[p] = {}
    BY <2>1 DEF GateInv, GateAgrees, Thread
  <2>3. ASSUME NEW t \in Thread PROVE t \notin waiting[p]
    BY <2>1 DEF GateInv, GateAgrees, ThreadsAgree
  <2>4. depth[p][Shell] = 0
    <3>1. ~(depth[p][Shell] > 0)
      BY <2>1 DEF GateInv, ThreadsAgree, InRegion
    <3>2. depth[p][Shell] \in 0 .. MaxDepth
      BY <2>1 DEF GateInv, TypeOK
    <3> QED BY <3>1, <3>2
  <2> QED BY <2>1, <2>2, <2>3, <2>4 DEF GateInv, TypeOK
<1>2. \A l \in Lock : holder[p][l] = None
  BY <1>1 DEF GateInv, TypeOK, GateAgrees, LocksAgree, InRegion
\* What each of the two has afterwards.
<1>3. /\ alive'[q] = {Shell} /\ alive'[p] = alive[p]
      /\ readers'[q] = {} /\ readers'[p] = {}
      /\ writer'[q] = None /\ writer'[p] = None
      /\ waiting'[q] = {} /\ waiting'[p] = {}
  BY <1>1 DEF GateInv, TypeOK, Fork
<1>4. /\ pc'[q] = Idle
      /\ pc'[p] = [pc[p] EXCEPT ![Shell] = "idle"]
  BY <1>1 DEF GateInv, TypeOK, Fork
<1>5. /\ \A t \in Thread : depth'[q][t] = 0
      /\ depth'[p] = depth[p]
  BY <1>1 DEF GateInv, TypeOK, Fork, Survivor
<1>6. /\ want'[p] = want[p] /\ holder'[p] = holder[p] /\ queue'[p] = queue[p]
      /\ \A l \in Lock : holder'[q][l] = None
  BY <1>1, <1>2 DEF GateInv, TypeOK, Fork
\* Every other process is as it was.
<1>7. ASSUME NEW r \in Process, r # p, r # q
      PROVE  /\ alive'[r] = alive[r] /\ readers'[r] = readers[r]
             /\ writer'[r] = writer[r] /\ waiting'[r] = waiting[r]
             /\ depth'[r] = depth[r] /\ pc'[r] = pc[r] /\ want'[r] = want[r]
             /\ holder'[r] = holder[r] /\ queue'[r] = queue[r]
  BY <1>7 DEF GateInv, TypeOK, Fork
<1>8. TypeOK'
  <2>1. /\ alive' \in [Process -> SUBSET Thread]
        /\ readers' \in [Process -> SUBSET Thread]
        /\ waiting' \in [Process -> SUBSET Thread]
        /\ writer' \in [Process -> Thread \cup {None}]
    BY DEF GateInv, TypeOK, Fork, Thread
  <2>2. depth' \in [Process -> [Thread -> 0 .. MaxDepth]]
    <3>1. Survivor(depth[p], 0) \in [Thread -> 0 .. MaxDepth]
      BY DEF GateInv, TypeOK, Survivor, Thread
    <3> QED BY <3>1 DEF GateInv, TypeOK, Fork
  <2>3. pc' \in [Process -> [Thread -> Place]]
    BY DEF GateInv, TypeOK, Fork, Thread, Place
  <2>4. want' \in [Process -> [Thread -> Lock \cup {None}]]
    <3>1. Survivor(want[p], None) \in [Thread -> Lock \cup {None}]
      BY DEF GateInv, TypeOK, Survivor, Thread
    <3> QED BY <3>1 DEF GateInv, TypeOK, Fork
  <2>5. /\ holder' \in [Process -> [Lock -> Thread \cup {None}]]
        /\ queue' \in [Process -> Seq({"job", "mark"})]
        /\ owner' \in [Process -> Process \cup {None}]
    BY DEF GateInv, TypeOK, Fork
  <2> QED BY <2>1, <2>2, <2>3, <2>4, <2>5 DEF TypeOK
<1>9. ASSUME NEW t \in Thread
      PROVE  /\ ~InRegion(p, t)' /\ ~InRegion(q, t)'
             /\ ~InRegion(p, t)
  BY <1>1, <1>4 DEF GateInv, TypeOK, GateAgrees, InRegion, Thread
<1>10. GateAgrees'
  <2> SUFFICES ASSUME NEW r \in Process
               PROVE  /\ writer'[r] # None => readers'[r] = {}
                      /\ \A t \in Thread :
                           /\ t \in readers'[r] <=> InRegion(r, t)'
                           /\ t \in waiting'[r] <=> pc'[r][t] = "fork"
                           /\ t = writer'[r] <=> pc'[r][t] = "forking"
    BY DEF GateAgrees
  <2>1. CASE r = p
    <3>1. ASSUME NEW t \in Thread
          PROVE  pc'[p][t] # "fork" /\ pc'[p][t] # "forking"
      BY <1>1, <1>4 DEF GateInv, TypeOK, ThreadsAgree
    <3> QED BY <1>3, <1>9, <2>1, <3>1
  <2>2. CASE r = q
    BY <1>3, <1>4, <1>9, <2>2
  <2>3. CASE r # p /\ r # q
    BY <1>7, <2>3 DEF GateInv, GateAgrees, InRegion
  <2> QED BY <2>1, <2>2, <2>3
<1>11. ThreadsAgree'
  <2> SUFFICES ASSUME NEW r \in Process, NEW t \in Thread
               PROVE  /\ t \notin alive'[r] => pc'[r][t] = "idle"
                      /\ depth'[r][t] > 0 <=> InRegion(r, t)' \/ pc'[r][t] = "outer"
                      /\ depth'[r][t] > 0 => want'[r][t] \in Lock
                      /\ pc'[r][t] \in {"fork", "forking", "settling"} => t = Shell
    BY DEF ThreadsAgree
  <2>1. CASE r = p
    <3>1. CASE t = Shell
      BY <1>1, <1>3, <1>4, <1>5, <1>9, <2>1, <3>1 DEF GateInv, TypeOK
    <3>2. CASE t # Shell
      BY <1>3, <1>4, <1>5, <1>6, <1>9, <2>1, <3>2 DEF GateInv, TypeOK, ThreadsAgree
    <3> QED BY <3>1, <3>2
  <2>2. CASE r = q
    BY <1>4, <1>5, <1>9, <2>2
  <2>3. CASE r # p /\ r # q
    BY <1>7, <2>3 DEF GateInv, ThreadsAgree, InRegion
  <2> QED BY <2>1, <2>2, <2>3
<1>12. LocksAgree'
  <2> SUFFICES ASSUME NEW r \in Process, NEW l \in Lock, holder'[r][l] # None
               PROVE  /\ pc'[r][holder'[r][l]] = "locked"
                      /\ want'[r][holder'[r][l]] = l
    BY DEF LocksAgree
  <2>1. r # p /\ r # q
    BY <1>2, <1>6
  <2> QED BY <1>7, <2>1 DEF GateInv, LocksAgree
<1>13. QueueAgrees'
  <2> SUFFICES ASSUME NEW r \in Process, depth'[r][Writer] > 0
               PROVE  queue'[r] # <<>> /\ Head(queue'[r]) = "job"
    BY DEF QueueAgrees
  <2>1. r # q
    BY <1>5 DEF Thread
  <2> QED BY <1>5, <1>6, <1>7, <2>1 DEF GateInv, QueueAgrees
<1> QED BY <1>8, <1>10, <1>11, <1>12, <1>13 DEF GateInv

\* A fork that made no process gives the gate back.
LEMMA ForkFailsKeeps ==
  ASSUME GateInv, NEW p \in Process, ForkFails(p)
  PROVE  GateInv'
<1>1. TypeOK'
  <2>1. writer' \in [Process -> Thread \cup {None}]
    BY DEF GateInv, TypeOK, ForkFails, Thread
  <2>2. pc' \in [Process -> [Thread -> Place]]
    BY DEF GateInv, TypeOK, ForkFails, Go, Thread, Place
  <2> QED BY <2>1, <2>2 DEF GateInv, TypeOK, ForkFails, Go, gate, jobs, region
<1>2. GateAgrees'
  BY DEF GateInv, TypeOK, GateAgrees, ThreadsAgree, InRegion, ForkFails,
         At, Go, gate, region, Thread
<1>3. ThreadsAgree'
  BY DEF GateInv, TypeOK, ThreadsAgree, InRegion, ForkFails,
         At, Go, gate, region, Thread
<1>4. LocksAgree'
  BY DEF GateInv, TypeOK, LocksAgree, ForkFails,
         At, Go, gate, region, Thread
<1>5. QueueAgrees'
  BY DEF GateInv, TypeOK, ThreadsAgree, QueueAgrees, InRegion, ForkFails,
         At, Go, gate, region, jobs, Thread
<1> QED BY <1>1, <1>2, <1>3, <1>4, <1>5 DEF GateInv

\* A mark goes behind the job the writer is doing.
LEMMA SettleKeeps ==
  ASSUME GateInv, NEW p \in Process, Settle(p)
  PROVE  GateInv'
<1>1. TypeOK'
  <2>1. queue' \in [Process -> Seq({"job", "mark"})]
    BY DEF GateInv, TypeOK, Settle, Thread
  <2>2. pc' \in [Process -> [Thread -> Place]]
    BY DEF GateInv, TypeOK, Settle, Go, Thread, Place
  <2> QED BY <2>1, <2>2 DEF GateInv, TypeOK, Settle, Go, gate, jobs, region
<1>2. GateAgrees'
  BY DEF GateInv, TypeOK, GateAgrees, ThreadsAgree, InRegion, Settle,
         At, Go, gate, region, Thread
<1>3. ThreadsAgree'
  BY DEF GateInv, TypeOK, ThreadsAgree, InRegion, Settle,
         At, Go, gate, region, Thread
<1>4. LocksAgree'
  BY DEF GateInv, TypeOK, LocksAgree, Settle,
         At, Go, gate, region, Thread
<1>5. QueueAgrees'
  <2>1. queue[p] # <<>> => Head(Append(queue[p], "mark")) = Head(queue[p])
    BY DEF GateInv, TypeOK
  <2>2. queue'[p] # <<>>
    BY DEF GateInv, TypeOK, Settle
  <2> QED
    BY <2>1, <2>2 DEF GateInv, TypeOK, QueueAgrees, Settle, region
<1> QED BY <1>1, <1>2, <1>3, <1>4, <1>5 DEF GateInv

\* The writer answers a mark between two jobs.
LEMMA AnswerKeeps ==
  ASSUME GateInv, NEW p \in Process, Answer(p)
  PROVE  GateInv'
<1>1. TypeOK'
  <2>1. queue' \in [Process -> Seq({"job", "mark"})]
    BY DEF GateInv, TypeOK, Answer, Thread
  <2>2. pc' \in [Process -> [Thread -> Place]]
    <3>1. (IF pc[p][Shell] = "settling" THEN "idle" ELSE pc[p][Shell]) \in Place
      BY DEF GateInv, TypeOK, Thread, Place
    <3> QED BY <3>1 DEF GateInv, TypeOK, Answer
  <2> QED BY <2>1, <2>2 DEF GateInv, TypeOK, Answer, Go, gate, jobs, region
<1>2. GateAgrees'
  BY DEF GateInv, TypeOK, GateAgrees, ThreadsAgree, InRegion, Answer,
         At, Go, gate, region, Thread
<1>3. ThreadsAgree'
  BY DEF GateInv, TypeOK, ThreadsAgree, InRegion, Answer,
         At, Go, gate, region, Thread
<1>4. LocksAgree'
  BY DEF GateInv, TypeOK, LocksAgree, Answer,
         At, Go, gate, region, Thread
<1>5. QueueAgrees'
  BY DEF GateInv, TypeOK, ThreadsAgree, QueueAgrees, InRegion, Answer,
         At, Go, gate, region, jobs, Thread
<1> QED BY <1>1, <1>2, <1>3, <1>4, <1>5 DEF GateInv

\* A job goes behind the one the writer is doing.
LEMMA DeferKeeps ==
  ASSUME GateInv, Defer
  PROVE  GateInv'
<1>1. TypeOK'
  <2>1. queue' \in [Process -> Seq({"job", "mark"})]
    BY DEF GateInv, TypeOK, Defer, Thread
  <2>2. owner' \in [Process -> Process \cup {None}]
    BY DEF GateInv, TypeOK, Defer, Thread
  <2>3. alive' \in [Process -> SUBSET Thread]
    BY DEF GateInv, TypeOK, Defer, Thread
  <2> QED BY <2>1, <2>2, <2>3 DEF GateInv, TypeOK, Defer, Go, gate, jobs, region
<1>2. GateAgrees'
  BY DEF GateInv, TypeOK, GateAgrees, ThreadsAgree, InRegion, Defer,
         At, Go, gate, region, Thread
<1>3. ThreadsAgree'
  BY DEF GateInv, TypeOK, ThreadsAgree, InRegion, Defer,
         At, Go, gate, region, Thread
<1>4. LocksAgree'
  BY DEF GateInv, TypeOK, LocksAgree, Defer,
         At, Go, gate, region, Thread
<1>5. QueueAgrees'
  <2>1. queue[Root] # <<>> => Head(Append(queue[Root], "job")) = Head(queue[Root])
    BY DEF GateInv, TypeOK
  <2>2. queue'[Root] # <<>>
    BY DEF GateInv, TypeOK, Defer
  <2> QED
    BY <2>1, <2>2 DEF GateInv, TypeOK, QueueAgrees, Defer, region
<1> QED BY <1>1, <1>2, <1>3, <1>4, <1>5 DEF GateInv

-----------------------------------------------------------------------------
\* The first prompt, before anything is locked, forked or queued.
LEMMA InitHolds == Init => GateInv
<1> SUFFICES ASSUME Init PROVE GateInv
  OBVIOUS
<1>1. TypeOK
  BY DEF Init, TypeOK, Thread, Place
<1>2. GateAgrees
  BY DEF Init, GateAgrees, InRegion, Thread
<1>3. ThreadsAgree
  BY DEF Init, ThreadsAgree, InRegion
<1>4. LocksAgree /\ QueueAgrees
  BY DEF Init, LocksAgree, QueueAgrees, Thread
<1> QED BY <1>1, <1>2, <1>3, <1>4 DEF GateInv

\* One action at a time.
LEMMA NextKeeps == GateInv /\ [Next]_vars => GateInv'
<1> SUFFICES ASSUME GateInv, [Next]_vars PROVE GateInv'
  OBVIOUS
<1>1. ASSUME NEW p \in Process, NEW t \in Thread,
             Enter(p, t) \/ Nest(p, t) \/ Continue(p, t)
      PROVE  GateInv'
  BY <1>1, EnterKeeps, NestKeeps, PassKeeps, AcquireKeeps, UnlockKeeps,
     LeaveInnerKeeps, LeaveKeeps DEF Continue
<1>2. ASSUME NEW p \in Process, WantFork(p) \/ Forking(p)
      PROVE  GateInv'
  BY <1>2, WantForkKeeps, TakeGateKeeps, ForkKeeps, ForkFailsKeeps DEF Forking
<1>3. ASSUME NEW p \in Process, Settle(p) \/ Answer(p)
      PROVE  GateInv'
  BY <1>3, SettleKeeps, AnswerKeeps
<1>4. CASE Defer
  BY <1>4, DeferKeeps
<1>5. CASE UNCHANGED vars
  BY <1>5 DEF vars, gate, region, jobs, GateInv, TypeOK, GateAgrees, ThreadsAgree,
              LocksAgree, QueueAgrees, InRegion
<1> QED BY <1>1, <1>2, <1>3, <1>4, <1>5 DEF Next

(***************************************************************************)
(* The gate, the threads, the locks and the queue of every process agree   *)
(* with one another, however often and from wherever the shell forks.      *)
(***************************************************************************)
THEOREM GateHolds == Spec => []GateInv
  BY InitHolds, NextKeeps, PTL DEF Spec

(***************************************************************************)
(* "The child inherits every one of them unlocked" and the gate free: no   *)
(* process ever holds a lock whose owner it does not have, and nobody is   *)
(* counted at its gate whom it does not have.                              *)
(***************************************************************************)
THEOREM NothingOrphanedHolds == Spec => []NothingOrphaned
<1>1. GateInv => NoOrphanLock
  BY DEF GateInv, TypeOK, ThreadsAgree, LocksAgree, NoOrphanLock
<1>2. ASSUME GateInv, NEW p \in Process, NEW t \in Thread,
             t \in readers[p] \/ t \in waiting[p] \/ t = writer[p]
      PROVE  t \in alive[p]
  BY <1>2 DEF GateInv, GateAgrees, ThreadsAgree, InRegion
<1>3. GateInv => NoOrphanGuard
  BY <1>2 DEF GateInv, TypeOK, NoOrphanGuard
<1>4. GateInv => NothingOrphaned
  BY <1>1, <1>3 DEF NothingOrphaned
<1> QED BY <1>4, GateHolds, PTL

-----------------------------------------------------------------------------
(***************************************************************************)
(* NameLeadsHome of Scratch, for any number of keepers and terminals and   *)
(* whatever of "crash", "list" and "kill" happens.  A serving keeper has   *)
(* its name only because it has had the lock since before it wrote the     *)
(* first file, and whoever takes the lock finds no such keeper: so the     *)
(* inductive invariant speaks of every keeper that holds.                  *)
(***************************************************************************)
USE ScratchAssumption

HoldersLock == \A k \in Holding : files.lock = k

SocketsServe == \A k \in Keeper : keeper[k].at = "serving" => files.sock = k

ScratchInv == ScratchTypeOK /\ (~ disturbed => HoldersLock /\ SocketsServe)

KeeperState == [at : KeeperPlace, shell : BOOLEAN, client : Terminal \cup {Absent, Closed},
                arriving : Seq(Terminal \cup {Closed})]
VisitorState == [at : VisitorPlace, to : Keeper \cup {Absent}, left : 0 .. 2]
FilesState == [lock : Keeper \cup Prober \cup {Absent}, attach : Terminal \cup {Absent},
               sock : Keeper \cup {Absent}, meta : Keeper \cup {Absent}]

-----------------------------------------------------------------------------
(***************************************************************************)
(* Steps that leave the keepers where they are.                            *)
(***************************************************************************)
\* Where every keeper is as before and the lock of a holder is not touched, all agrees as before.
LEMMA SameKeepers ==
  ASSUME ScratchInv, ScratchTypeOK', ~ disturbed, 
         \A k \in Keeper : keeper'[k].at = keeper[k].at,
         files'.lock = files.lock \/ Holding = {},
         files'.sock = files.sock \/ Holding = {}
  PROVE  ScratchInv'
<1>1. Holding' = Holding
  BY DEF Holding
<1>2. HoldersLock' /\ SocketsServe'
  BY <1>1 DEF ScratchInv, HoldersLock, SocketsServe, Holding
<1> QED BY <1>2 DEF ScratchInv

\* Nobody who asks is a keeper: what a visitor gives back is never a holder's.
LEMMA NobodyHolds ==
  ASSUME ScratchInv, ~ disturbed, files.lock \notin Keeper
  PROVE  Holding = {}
BY DEF ScratchInv, HoldersLock, Holding

\* Giving the lock back takes it from no keeper.
LEMMA GivesBack ==
  ASSUME ScratchInv, ~ disturbed, NEW v \in Prober, GiveBack(v)
  PROVE  /\ files' \in FilesState
         /\ files'.lock = files.lock \/ Holding = {}
         /\ files'.sock = files.sock
<1>1. files \in FilesState
  BY DEF ScratchInv, ScratchTypeOK, FilesState
<1>2. CASE files.lock = v
  BY <1>1, <1>2, NobodyHolds DEF GiveBack, Free, FilesState, Prober
<1>3. CASE files.lock # v
  BY <1>1, <1>3 DEF GiveBack, Free, FilesState
<1> QED BY <1>2, <1>3

\* A visitor that goes to a place is still a visitor.
LEMMA GoesKeepsType ==
  ASSUME ScratchTypeOK, NEW v \in Prober, NEW place \in VisitorPlace, Goes(v, place)
  PROVE  visitor' \in [Prober -> VisitorState]
<1>1. visitor \in [Prober -> VisitorState]
  BY DEF ScratchTypeOK, VisitorState
<1> QED BY <1>1 DEF Goes, VisitorState

\* Asking: the lock is taken where nobody holds it, and not otherwise.
LEMMA AskingKeeps ==
  ASSUME ScratchInv, ~ disturbed, NEW v \in Prober,
         NEW from \in VisitorPlace, NEW to \in VisitorPlace,
         TakeLock(v, from, to) \/ Taken(v, from, to)
  PROVE  ScratchInv'
<1> USE DEF ScratchInv
<1>1. visitor' \in [Prober -> VisitorState]
  BY GoesKeepsType DEF TakeLock, Taken
<1>2. CASE TakeLock(v, from, to)
  <2>1. Holding = {}
    BY <1>2, NobodyHolds DEF TakeLock, Prober
  <2>2. ScratchTypeOK'
    BY <1>1, <1>2 DEF TakeLock, ScratchTypeOK, VisitorState
  <2> QED BY <1>2, <2>1, <2>2, SameKeepers DEF TakeLock, ScratchTypeOK
<1>3. CASE Taken(v, from, to)
  <2>1. ScratchTypeOK'
    BY <1>1, <1>3 DEF Taken, ScratchTypeOK, VisitorState
  <2> QED BY <1>3, <2>1, SameKeepers DEF Taken, ScratchTypeOK
<1> QED BY <1>2, <1>3

\* What a terminal does before and after it looks.
LEMMA TerminalKeeps ==
  ASSUME ScratchInv, ~ disturbed, NEW t \in Terminal,
         Visit(t) \/ Ensure(t) \/ SpawnFails(t) \/ Attach(t) \/ ConnectFails(t) \/ LetGo(t)
           \/ ReadEnd(t)
  PROVE  ScratchInv'
<1> USE DEF ScratchInv
<1>t. t \in Prober /\ visitor \in [Prober -> VisitorState] /\ files \in FilesState
  BY DEF Prober, ScratchTypeOK, VisitorState, FilesState
<1>p. {"idle", "asking", "asked", "spawning", "spawned", "attaching", "connecting", "ended"}
        \subseteq VisitorPlace
  BY DEF VisitorPlace
<1>1. CASE Visit(t) \/ ReadEnd(t)
  <2>1. visitor' \in [Prober -> VisitorState]
    BY <1>1, <1>t, <1>p, GoesKeepsType DEF Visit, ReadEnd
  <2>2. ScratchTypeOK'
    BY <1>1, <2>1 DEF Visit, ReadEnd, ScratchTypeOK, VisitorState
  <2> QED BY <1>1, <2>2, SameKeepers DEF Visit, ReadEnd
<1>2. CASE NotThere(t) \/ SpawnFails(t)
  <2>1. visitor' \in [Prober -> VisitorState]
    BY <1>2, <1>t, <1>p, GoesKeepsType DEF NotThere, SpawnFails
  <2>2. GiveBack(t) /\ UNCHANGED <<keeper, disturbed>>
    BY <1>2 DEF NotThere, SpawnFails
  <2>3. files' \in FilesState /\ (files'.lock = files.lock \/ Holding = {})
          /\ files'.sock = files.sock
    BY <1>t, <2>2, GivesBack
  <2>4. ScratchTypeOK'
    BY <2>1, <2>2, <2>3 DEF ScratchTypeOK, VisitorState, FilesState
  <2> QED BY <2>2, <2>3, <2>4, SameKeepers
<1>3. CASE Ensure(t) /\ ~ NotThere(t)
  BY <1>3, <1>t, <1>p, AskingKeeps DEF Ensure
<1>4. CASE Attach(t) \/ ConnectFails(t) \/ LetGo(t)
  <2>1. visitor' \in [Prober -> VisitorState]
    <3>1. CASE LetGo(t)
      BY <1>t, <1>p, <3>1 DEF LetGo, VisitorState
    <3>2. CASE Attach(t) \/ ConnectFails(t)
      BY <1>t, <1>p, <3>2, GoesKeepsType DEF Attach, ConnectFails
    <3> QED BY <1>4, <3>1, <3>2
  <2>2. files' \in FilesState /\ files'.lock = files.lock /\ files'.sock = files.sock
    BY <1>4, <1>t DEF Attach, ConnectFails, LetGo, Free, FilesState
  <2>3. UNCHANGED <<keeper, disturbed>>
    BY <1>4 DEF Attach, ConnectFails, LetGo
  <2>4. ScratchTypeOK'
    BY <2>1, <2>2, <2>3 DEF ScratchTypeOK, VisitorState, FilesState
  <2> QED BY <2>2, <2>3, <2>4, SameKeepers
<1> QED BY <1>1, <1>2, <1>3, <1>4

\* A fork: the keeper it makes holds nothing yet.
LEMMA SpawnKeeps ==
  ASSUME ScratchInv, ~ disturbed, NEW t \in Terminal, NEW k \in Keeper, Spawn(t, k)
  PROVE  ScratchInv'
<1> USE DEF ScratchInv
<1>1. t \in Prober /\ "attaching" \in VisitorPlace /\ "starting" \in KeeperPlace
  BY DEF Prober, VisitorPlace, KeeperPlace
<1>2. visitor' \in [Prober -> VisitorState]
  BY <1>1, GoesKeepsType DEF Spawn
<1>3. files' \in FilesState /\ (files'.lock = files.lock \/ Holding = {})
        /\ files'.sock = files.sock
  BY <1>1, GivesBack DEF Spawn
<1>4. keeper' \in [Keeper -> KeeperState]
  <2>1. keeper \in [Keeper -> KeeperState]
    BY DEF ScratchTypeOK, KeeperState
  <2>2. [keeper[k] EXCEPT !.at = "starting"] \in KeeperState
    BY <1>1, <2>1 DEF KeeperState
  <2> QED BY <2>1, <2>2 DEF Spawn
<1>5. ScratchTypeOK'
  BY <1>2, <1>3, <1>4 DEF Spawn, ScratchTypeOK, VisitorState, FilesState, KeeperState
<1>6. Holding' = Holding /\ disturbed' = disturbed
  BY DEF Spawn, Holding, ScratchTypeOK
<1>7. HoldersLock'
  BY <1>3, <1>6 DEF HoldersLock
<1>8. SocketsServe'
  BY <1>3 DEF Spawn, SocketsServe, ScratchTypeOK
<1> QED BY <1>5, <1>7, <1>8

\* A connection is one more stream at the keeper's end.
LEMMA ConnectKeeps ==
  ASSUME ScratchInv, ~ disturbed, NEW t \in Terminal, Connect(t)
  PROVE  ScratchInv'
<1> USE DEF ScratchInv
<1> DEFINE k == files.sock
<1>1. k \in Keeper /\ t \in Prober
  BY DEF Connect, Listening, ScratchTypeOK, Prober
<1>2. keeper \in [Keeper -> KeeperState] /\ visitor \in [Prober -> VisitorState]
  BY DEF ScratchTypeOK, KeeperState, VisitorState
<1>3. Append(keeper[k].arriving, t) \in Seq(Terminal \cup {Closed})
  <2>1. keeper[k].arriving \in Seq(Terminal \cup {Closed})
    BY <1>1, <1>2 DEF KeeperState
  <2> QED BY <2>1
<1>4. keeper' \in [Keeper -> KeeperState]
  BY <1>1, <1>2, <1>3 DEF Connect, KeeperState
<1>5. visitor' \in [Prober -> VisitorState]
  <2> DEFINE there == [visitor[t] EXCEPT !.at = "on", !.to = k]
  <2>1. there \in VisitorState
    BY <1>1, <1>2 DEF VisitorState, VisitorPlace
  <2>2. visitor' = [visitor EXCEPT ![t] = there]
    BY <1>1, <1>2 DEF Connect
  <2> HIDE DEF there
  <2> QED BY <1>2, <2>1, <2>2
<1>6. ScratchTypeOK'
  BY <1>4, <1>5 DEF Connect, ScratchTypeOK, KeeperState, VisitorState
<1>7. \A j \in Keeper : keeper'[j].at = keeper[j].at
  BY <1>1, <1>2 DEF Connect, KeeperState
<1> QED BY <1>6, <1>7, SameKeepers DEF Connect

\* A stream closed is still a stream.
LEMMA DetachKeeps ==
  ASSUME ScratchInv, ~ disturbed, NEW t \in Terminal, Detach(t)
  PROVE  ScratchInv'
<1> USE DEF ScratchInv
<1> DEFINE k == visitor[t].to
           close(s) == IF s = t THEN Closed ELSE s
           closed == [i \in DOMAIN keeper[k].arriving |-> close(keeper[k].arriving[i])]
<1>1. keeper \in [Keeper -> KeeperState] /\ t \in Prober
  BY DEF ScratchTypeOK, KeeperState, Prober
<1>2. keeper' = [keeper EXCEPT ![k].client = close(@),
                               ![k].arriving = [i \in DOMAIN @ |-> close(@[i])]]
  BY DEF Detach
<1>3. keeper' \in [Keeper -> KeeperState]
        /\ \A j \in Keeper : keeper'[j].at = keeper[j].at
  <2>1. CASE k \notin Keeper
    <3>1. keeper' = keeper
      BY <1>1, <1>2, <2>1
    <3> QED BY <1>1, <3>1
  <2>2. CASE k \in Keeper
    <3>1. keeper[k].arriving \in Seq(Terminal \cup {Closed})
            /\ keeper[k].client \in Terminal \cup {Absent, Closed}
      BY <1>1, <2>2 DEF KeeperState
    <3>2. closed \in Seq(Terminal \cup {Closed})
      BY <3>1
    <3>3. close(keeper[k].client) \in Terminal \cup {Absent, Closed}
      BY <3>1
    <3>4. keeper' = [keeper EXCEPT ![k] = [keeper[k] EXCEPT !.client = close(keeper[k].client),
                                                           !.arriving = closed]]
      BY <1>1, <1>2, <2>2 DEF KeeperState
    <3> HIDE DEF closed, close
    <3> QED BY <1>1, <2>2, <3>2, <3>3, <3>4 DEF KeeperState
  <2> QED BY <2>1, <2>2
<1>4. visitor' \in [Prober -> VisitorState]
  BY <1>1, GoesKeepsType DEF Detach, VisitorPlace
<1>5. ScratchTypeOK'
  BY <1>3, <1>4 DEF Detach, ScratchTypeOK, KeeperState, VisitorState
<1> QED BY <1>3, <1>5, SameKeepers DEF Detach

-----------------------------------------------------------------------------
(***************************************************************************)
(* The keepers' own steps.                                                 *)
(***************************************************************************)
\* While one keeper holds, the others do not.
LEMMA OneHolds ==
  ASSUME ScratchInv, ~ disturbed, NEW k \in Holding
  PROVE  files.lock = k /\ \A j \in Keeper : keeper[j].at = "serving" => j = k
BY DEF ScratchInv, HoldersLock, Holding

\* A keeper that takes the lock finds it with nobody.
LEMMA HoldKeeps ==
  ASSUME ScratchInv, ~ disturbed, NEW k \in Keeper, Hold(k)
  PROVE  ScratchInv'
<1> USE DEF ScratchInv
<1>1. keeper \in [Keeper -> KeeperState] /\ files \in FilesState
  BY DEF ScratchTypeOK, KeeperState, FilesState
<1>2. CASE files.lock = Absent
  <2>1. Holding = {}
    BY <1>2, NobodyHolds DEF Prober
  <2>2. keeper' = [keeper EXCEPT ![k].at = "held", ![k].shell = TRUE]
          /\ files' = [files EXCEPT !.lock = k]
    BY <1>2 DEF Hold
  <2>3. keeper' = [keeper EXCEPT ![k] = [keeper[k] EXCEPT !.at = "held", !.shell = TRUE]]
    BY <1>1, <2>2 DEF KeeperState
  <2>4. keeper' \in [Keeper -> KeeperState]
    BY <1>1, <2>3 DEF KeeperState, KeeperPlace
  <2>5. ScratchTypeOK'
    BY <1>1, <2>2, <2>4 DEF Hold, ScratchTypeOK, KeeperState, FilesState
  <2>6. keeper'[k].at = "held" /\ \A j \in Keeper \ {k} : keeper'[j] = keeper[j]
    BY <1>1, <2>3 DEF KeeperState
  <2>7. Holding' = {k} /\ files'.lock = k
    BY <1>1, <2>1, <2>2, <2>6 DEF Holding, FilesState
  <2>8. SocketsServe'
    BY <2>1, <2>6 DEF SocketsServe, Holding
  <2> QED BY <2>5, <2>7, <2>8 DEF HoldersLock
<1>3. CASE files.lock # Absent
  <2>1. keeper[k].at = "starting" /\ keeper' = [keeper EXCEPT ![k].at = "dead"]
          /\ files' = files /\ disturbed' = disturbed
    BY <1>3 DEF Hold, Step
  <2>2. keeper' \in [Keeper -> KeeperState]
    BY <1>1, <2>1 DEF KeeperState, KeeperPlace
  <2>4. ScratchTypeOK'
    BY <2>1, <2>2 DEF Hold, ScratchTypeOK, KeeperState
  <2>3. Holding' = Holding
    BY <1>1, <2>1 DEF Holding, KeeperState
  <2> QED BY <1>1, <2>1, <2>4, <2>3 DEF HoldersLock, SocketsServe, KeeperState
<1> QED BY <1>2, <1>3

\* Where only a holder moves, and the lock is not let go before it has, the others are no holders.
LEMMA HolderMoves ==
  ASSUME ScratchInv, ScratchTypeOK', ~ disturbed, NEW k \in Holding,
         \A j \in Keeper \ {k} : keeper'[j].at = keeper[j].at,
         files'.lock = k \/ k \notin Holding',
         keeper'[k].at = "serving" => files'.sock = k
  PROVE  ScratchInv'
<1>1. \A j \in Holding : j = k
  BY DEF ScratchInv, HoldersLock
<1>2. Holding' \subseteq {k}
  BY <1>1 DEF Holding
<1>3. HoldersLock'
  BY <1>2 DEF HoldersLock
<1>4. SocketsServe'
  BY <1>1, OneHolds DEF SocketsServe, Holding
<1> QED BY <1>3, <1>4 DEF ScratchInv

\* A keeper that serves reads and writes its streams, and its shell may end.
LEMMA ServingKeeps ==
  ASSUME ScratchInv, ~ disturbed, NEW k \in Keeper, Accept(k) \/ HearEnd(k) \/ ShellExits(k)
  PROVE  ScratchInv'
<1> USE DEF ScratchInv
<1>1. keeper \in [Keeper -> KeeperState]
  BY DEF ScratchTypeOK, KeeperState
<1>2. keeper' \in [Keeper -> KeeperState] /\ \A j \in Keeper : keeper'[j].at = keeper[j].at
  <2>1. CASE Accept(k)
    <3>1. keeper[k].arriving \in Seq(Terminal \cup {Closed}) /\ keeper[k].arriving # <<>>
      BY <1>1, <2>1 DEF Accept, KeeperState
    <3>2. Head(keeper[k].arriving) \in Terminal \cup {Closed}
            /\ Tail(keeper[k].arriving) \in Seq(Terminal \cup {Closed})
      BY <3>1
    <3> DEFINE heard == IF keeper[k].client = Absent THEN Head(keeper[k].arriving)
                        ELSE keeper[k].client
    <3>3. heard \in Terminal \cup {Absent, Closed}
      BY <1>1, <3>2 DEF KeeperState
    <3>4. keeper' = [keeper EXCEPT ![k] = [keeper[k] EXCEPT !.client = heard,
                                                         !.arriving = Tail(@)]]
      BY <1>1, <2>1 DEF Accept, KeeperState
    <3> HIDE DEF heard
    <3> QED BY <1>1, <3>2, <3>3, <3>4 DEF KeeperState
  <2>2. CASE HearEnd(k)
    <3>1. [keeper[k] EXCEPT !.client = Absent] \in KeeperState
          /\ [keeper[k] EXCEPT !.client = Absent].at = keeper[k].at
      BY <1>1 DEF KeeperState
    <3> QED BY <1>1, <2>2, <3>1 DEF HearEnd
  <2>3. CASE ShellExits(k)
    <3>1. [keeper[k] EXCEPT !.shell = FALSE] \in KeeperState
          /\ [keeper[k] EXCEPT !.shell = FALSE].at = keeper[k].at
      BY <1>1 DEF KeeperState
    <3> QED BY <1>1, <2>3, <3>1 DEF ShellExits
  <2> QED BY <2>1, <2>2, <2>3
<1>3. UNCHANGED <<files, visitor, disturbed>>
  BY DEF Accept, HearEnd, ShellExits
<1>4. ScratchTypeOK'
  BY <1>2, <1>3 DEF ScratchTypeOK, KeeperState
<1> QED BY <1>2, <1>3, <1>4, SameKeepers

\* From the lock to the socket, and from the end of the pty to the end of the keeper.
LEMMA KeepsKeeps ==
  ASSUME ScratchInv, ~ disturbed, NEW k \in Keeper,
         WriteMeta(k) \/ Bind(k) \/ PtyEnds(k) \/ KeeperSweeps(k)
  PROVE  ScratchInv'
<1> USE DEF ScratchInv
<1>1. keeper \in [Keeper -> KeeperState] /\ files \in FilesState
  BY DEF ScratchTypeOK, KeeperState, FilesState
<1>2. k \in Holding
  BY DEF WriteMeta, Bind, PtyEnds, KeeperSweeps, Step, Holding
<1>3. files.lock = k
  BY <1>2, OneHolds
<1>4. UNCHANGED <<visitor, disturbed>>
  BY DEF WriteMeta, Bind, PtyEnds, KeeperSweeps
<1>5. keeper' \in [Keeper -> KeeperState] /\ \A j \in Keeper \ {k} : keeper'[j].at = keeper[j].at
  <2>1. CASE PtyEnds(k)
    <3>1. keeper' = [keeper EXCEPT ![k] = [keeper[k] EXCEPT !.at = "over", !.client = Absent,
                                                         !.arriving = <<>>]]
      BY <1>1, <2>1 DEF PtyEnds, KeeperState
    <3>2. <<>> \in Seq(Terminal \cup {Closed}) /\ "over" \in KeeperPlace
      BY DEF KeeperPlace
    <3>3. [keeper[k] EXCEPT !.at = "over", !.client = Absent, !.arriving = <<>>] \in KeeperState
      BY <1>1, <3>2 DEF KeeperState
    <3> QED BY <1>1, <3>1, <3>3
  <2>2. CASE ~ PtyEnds(k)
    <3>1. PICK place \in KeeperPlace : keeper' = [keeper EXCEPT ![k].at = place]
      BY <2>2 DEF WriteMeta, Bind, KeeperSweeps, Step, KeeperPlace
    <3> QED BY <1>1, <3>1 DEF KeeperState
  <2> QED BY <2>1, <2>2
<1>6. files' \in FilesState /\ (files'.lock = k \/ keeper'[k].at = "dead")
        /\ (keeper'[k].at = "serving" => files'.sock = k)
  <2>1. CASE WriteMeta(k)
    <3>1. files' = [files EXCEPT !.meta = k] /\ keeper'[k].at = "written"
      BY <1>1, <2>1 DEF WriteMeta, Step, KeeperState
    <3> QED BY <1>1, <1>3, <3>1 DEF FilesState
  <2>4. CASE Bind(k)
    <3>1. files' = [files EXCEPT !.sock = k] /\ keeper'[k].at = "serving"
      BY <1>1, <2>4 DEF Bind, Step, KeeperState
    <3> QED BY <1>1, <1>3, <3>1 DEF FilesState
  <2>2. CASE PtyEnds(k)
    BY <1>1, <1>3, <2>2 DEF PtyEnds, KeeperState
  <2>3. CASE KeeperSweeps(k)
    <3>1. CASE Step(k, "over", "swept")
            /\ files' = [files EXCEPT !.sock = Absent, !.meta = Absent, !.attach = Absent]
      <4>1. keeper'[k].at = "swept"
        BY <1>1, <3>1 DEF Step, KeeperState
      <4> QED BY <1>1, <1>3, <3>1, <4>1 DEF FilesState
    <3>2. CASE Step(k, "swept", "dead") /\ files' = [files EXCEPT !.lock = Absent]
      <4>1. keeper'[k].at = "dead"
        BY <1>1, <3>2 DEF Step, KeeperState
      <4> QED BY <1>1, <3>2, <4>1 DEF FilesState
    <3> QED BY <2>3, <3>1, <3>2 DEF KeeperSweeps
  <2> QED BY <2>1, <2>2, <2>3, <2>4
<1>7. ScratchTypeOK'
  BY <1>4, <1>5, <1>6 DEF ScratchTypeOK, KeeperState, FilesState
<1> QED BY <1>2, <1>5, <1>6, <1>7, HolderMoves DEF Holding

\* What the kernel takes from a keeper that is killed.
LEMMA KilledKeeps ==
  ASSUME ScratchInv, ~ disturbed, NEW k \in Keeper, Killed(k), UNCHANGED disturbed,
         visitor' \in [Prober -> VisitorState]
  PROVE  ScratchInv'
<1> USE DEF ScratchInv
<1>1. keeper \in [Keeper -> KeeperState] /\ files \in FilesState
  BY DEF ScratchTypeOK, KeeperState, FilesState
<1>2. keeper' \in [Keeper -> KeeperState] /\ keeper'[k].at = "dead"
        /\ \A j \in Keeper \ {k} : keeper'[j] = keeper[j]
  BY <1>1 DEF Killed, KeeperState, KeeperPlace
<1>3. files' \in FilesState /\ files'.sock = files.sock
        /\ (files'.lock = files.lock \/ files.lock = k)
  BY <1>1 DEF Killed, Free, FilesState
<1>4. ScratchTypeOK'
  BY <1>2, <1>3 DEF ScratchTypeOK, KeeperState, FilesState, VisitorState
<1>5. Holding' = Holding \ {k}
  BY <1>2 DEF Holding
<1>6. HoldersLock'
  BY <1>3, <1>5 DEF HoldersLock
<1>7. SocketsServe'
  BY <1>2, <1>3 DEF SocketsServe
<1> QED BY <1>4, <1>6, <1>7

-----------------------------------------------------------------------------
(***************************************************************************)
(* Whoever lists or kills.                                                 *)
(***************************************************************************)
\* Asking, telling and signalling leave a keeper its name.
LEMMA TidierKeeps ==
  ASSUME ScratchInv, ~ disturbed, Tidy \/ Leftovers \/ Running \/ Signal \/ WaitGone
  PROVE  ScratchInv'
<1> USE DEF ScratchInv
<1>t. Tidier \in Prober /\ visitor \in [Prober -> VisitorState] /\ files \in FilesState
        /\ keeper \in [Keeper -> KeeperState]
  BY DEF Prober, ScratchTypeOK, VisitorState, FilesState, KeeperState
<1>p. {"idle", "asking", "sweeping", "done", "signalling", "waiting", "waited"}
        \subseteq VisitorPlace
  BY DEF VisitorPlace
<1>1. CASE Tidy
  <2>1. visitor' \in [Prober -> VisitorState]
    BY <1>1, <1>t, <1>p, GoesKeepsType DEF Tidy
  <2>2. ScratchTypeOK'
    BY <1>1, <2>1 DEF Tidy, ScratchTypeOK, VisitorState
  <2> QED BY <1>1, <2>2, SameKeepers DEF Tidy
<1>2. CASE Leftovers
  <2>1. visitor' \in [Prober -> VisitorState]
    BY <1>2, <1>t, <1>p, GoesKeepsType DEF Leftovers
  <2>2. files' \in FilesState /\ (files'.lock = files.lock \/ Holding = {})
          /\ files'.sock = files.sock /\ UNCHANGED <<keeper, disturbed>>
    BY <1>2, <1>t, GivesBack DEF Leftovers
  <2>3. ScratchTypeOK'
    BY <2>1, <2>2 DEF ScratchTypeOK, VisitorState, FilesState
  <2> QED BY <2>2, <2>3, SameKeepers
<1>3. CASE Running
  <2>1. visitor' \in [Prober -> VisitorState]
    <3>1. CASE Goes(Tidier, "done")
      BY <1>t, <1>p, <3>1, GoesKeepsType
    <3>2. CASE ~ Goes(Tidier, "done")
      <4>1. visitor' = [visitor EXCEPT ![Tidier] = [at |-> "signalling", to |-> files.meta,
                                                   left |-> 2]]
        BY <1>3, <3>2 DEF Running
      <4>2. files.meta \in Keeper \cup {Absent}
        BY <1>t DEF FilesState
      <4>3. [at |-> "signalling", to |-> files.meta, left |-> 2] \in VisitorState
        BY <1>p, <4>2 DEF VisitorState
      <4> QED BY <1>t, <4>1, <4>3
    <3> QED BY <3>1, <3>2
  <2>2. ScratchTypeOK'
    BY <1>3, <2>1 DEF Running, ScratchTypeOK, VisitorState
  <2> QED BY <1>3, <2>2, SameKeepers DEF Running
<1>4. CASE Signal
  <2> DEFINE k == visitor[Tidier].to
  <2>1. UNCHANGED disturbed
    BY <1>4 DEF Signal
  <2>2. CASE visitor[Tidier].left = 0 \/ k = Absent
    <3>1. Goes(Tidier, "done") /\ UNCHANGED <<files, keeper>>
      BY <1>4, <2>2 DEF Signal
    <3>2. visitor' \in [Prober -> VisitorState]
      BY <1>t, <1>p, <3>1, GoesKeepsType
    <3>3. ScratchTypeOK'
      BY <2>1, <3>1, <3>2 DEF ScratchTypeOK, VisitorState
    <3> QED BY <2>1, <3>1, <3>3, SameKeepers
  <2>3. CASE ~ (visitor[Tidier].left = 0 \/ k = Absent)
    <3>1. visitor' = [visitor EXCEPT ![Tidier].at = "waiting", ![Tidier].left = @ - 1]
      BY <1>4, <2>3 DEF Signal
    <3>2. k \in Keeper /\ visitor[Tidier].left \in 0 .. 2
      BY <1>t, <2>3 DEF VisitorState
    <3>3. visitor' = [visitor EXCEPT ![Tidier] =
                       [visitor[Tidier] EXCEPT !.at = "waiting", !.left = @ - 1]]
      BY <1>t, <3>1 DEF VisitorState
    <3>4. visitor[Tidier].left - 1 \in 0 .. 2
      BY <2>3, <3>2
    <3>5. visitor' \in [Prober -> VisitorState]
      BY <1>t, <1>p, <3>3, <3>4 DEF VisitorState
    <3>6. CASE visitor[Tidier].left = 2
      <4>1. keeper' = [keeper EXCEPT ![k].shell = FALSE] /\ UNCHANGED files
        BY <1>4, <2>3, <3>6 DEF Signal
      <4>2. keeper' \in [Keeper -> KeeperState]
              /\ \A j \in Keeper : keeper'[j].at = keeper[j].at
        <5> HIDE DEF k
        <5>1. ASSUME NEW st \in KeeperState
              PROVE  /\ [st EXCEPT !.shell = FALSE] \in KeeperState
                     /\ [st EXCEPT !.shell = FALSE].at = st.at
          BY DEF KeeperState
        <5>2. k \in Keeper /\ keeper \in [Keeper -> KeeperState]
          BY <1>t, <3>2
        <5> QED BY <4>1, <5>1, <5>2
      <4>3. ScratchTypeOK'
        BY <2>1, <3>5, <4>1, <4>2 DEF ScratchTypeOK, VisitorState, KeeperState
      <4> QED BY <2>1, <4>1, <4>2, <4>3, SameKeepers
    <3>7. CASE visitor[Tidier].left # 2
      <4>1. Killed(k)
        BY <1>4, <2>3, <3>7 DEF Signal
      <4> QED BY <2>1, <3>2, <3>5, <4>1, KilledKeeps
    <3> QED BY <3>6, <3>7
  <2> QED BY <2>2, <2>3
<1>5. CASE WaitGone
  BY <1>5, <1>t, <1>p, AskingKeeps DEF WaitGone
<1> QED BY <1>1, <1>2, <1>3, <1>4, <1>5

\* A sweep takes files from under a keeper, and is remembered, or finds none that holds.
LEMMA SweepKeeps ==
  ASSUME ScratchInv, ~ disturbed, Sweep
  PROVE  ScratchInv'
<1> USE DEF ScratchInv
<1>t. Tidier \in Prober /\ visitor \in [Prober -> VisitorState] /\ files \in FilesState
  BY DEF Prober, ScratchTypeOK, VisitorState, FilesState
<1>1. visitor' \in [Prober -> VisitorState]
  <2>1. CASE Goes(Tidier, "unlocking")
    BY <1>t, <2>1, GoesKeepsType DEF VisitorPlace
  <2>2. CASE visitor' = [visitor EXCEPT ![Tidier] = [at |-> "done", to |-> Absent, left |-> 0]]
    BY <1>t, <2>2 DEF VisitorState, VisitorPlace
  <2> QED BY <2>1, <2>2 DEF Sweep
<1>2. files' \in FilesState
  BY <1>t DEF Sweep, FilesState
<1>3. keeper' = keeper /\ disturbed' = (disturbed \/ Holding # {})
  BY DEF Sweep
<1>4. ScratchTypeOK'
  BY <1>1, <1>2, <1>3 DEF ScratchTypeOK, VisitorState, FilesState
<1>5. ~ disturbed' => Holding' = {}
  BY <1>3 DEF Holding
<1> QED BY <1>4, <1>5 DEF HoldersLock, SocketsServe, Holding

-----------------------------------------------------------------------------
\* At the start no keeper holds.
LEMMA InitScratchInv ==
  ASSUME ScratchInit
  PROVE  ScratchInv
<1>1. <<>> \in Seq(Terminal \cup {Closed})
  OBVIOUS
<1> DEFINE unborn == [at |-> "unborn", shell |-> FALSE, client |-> Absent, arriving |-> <<>>]
           away == [at |-> "idle", to |-> Absent, left |-> 0]
<1>3. unborn \in KeeperState /\ away \in VisitorState
  BY <1>1 DEF KeeperState, VisitorState, KeeperPlace, VisitorPlace
<1>4. keeper = [k \in Keeper |-> unborn] /\ visitor = [v \in Prober |-> away]
  BY DEF ScratchInit
<1>5. keeper \in [Keeper -> KeeperState] /\ visitor \in [Prober -> VisitorState]
  <2> HIDE DEF unborn, away
  <2> QED BY <1>3, <1>4
<1>2. ScratchTypeOK
  BY <1>5 DEF ScratchInit, ScratchTypeOK, KeeperState, VisitorState
<1> QED BY <1>2 DEF ScratchInit, ScratchInv, HoldersLock, SocketsServe, Holding

\* Each step keeps the invariant.
LEMMA NextScratchInv ==
  ASSUME ScratchInv, [ScratchNext]_scratchVars
  PROVE  ScratchInv'
<1>1. CASE UNCHANGED scratchVars
  <2>1. ScratchTypeOK' /\ HoldersLock' = HoldersLock /\ SocketsServe' = SocketsServe
    BY <1>1 DEF ScratchInv, ScratchTypeOK, HoldersLock, SocketsServe, Holding, scratchVars
  <2> QED BY <1>1, <2>1 DEF ScratchInv, scratchVars
<1>2. CASE ~ disturbed /\ ScratchStep
  <2>1. ASSUME NEW t \in Terminal, Visit(t) \/ Terminals(t) \/ Detach(t) \/ ReadEnd(t)
        PROVE  ScratchInv'
    BY <1>2, <2>1, TerminalKeeps, SpawnKeeps, ConnectKeeps, DetachKeeps DEF Terminals
  <2>2. ASSUME NEW k \in Keeper,
               Keeps(k) \/ Accept(k) \/ HearEnd(k) \/ ShellExits(k) \/ Crash(k)
        PROVE  ScratchInv'
    <3>1. CASE Crash(k)
      <4>1. Killed(k) /\ UNCHANGED <<visitor, disturbed>>
        BY <3>1 DEF Crash
      <4>2. visitor' \in [Prober -> VisitorState]
        BY <4>1 DEF ScratchInv, ScratchTypeOK, VisitorState
      <4> QED BY <1>2, <4>1, <4>2, KilledKeeps
    <3>2. CASE ~ Crash(k)
      BY <1>2, <2>2, <3>2, HoldKeeps, KeepsKeeps, ServingKeeps DEF Keeps
    <3> QED BY <3>1, <3>2
  <2>3. CASE Tidy \/ Tidies
    <3>1. Tidier \in Prober /\ "asking" \in VisitorPlace /\ "asked" \in VisitorPlace
      BY DEF Prober, VisitorPlace
    <3> QED BY <1>2, <2>3, <3>1, AskingKeeps, TidierKeeps, SweepKeeps DEF Tidies
  <2> QED BY <1>2, <2>1, <2>2, <2>3 DEF ScratchStep
<1> QED BY <1>1, <1>2 DEF ScratchNext, Unfollowed

\* In every behaviour a keeper that holds has the lock, and one that serves has the socket too.
THEOREM ScratchInvariant == ScratchSpec => []ScratchInv
<1>1. ScratchInit => ScratchInv
  BY InitScratchInv
<1>2. ScratchInv /\ [ScratchNext]_scratchVars => ScratchInv'
  BY NextScratchInv
<1> QED BY <1>1, <1>2, PTL DEF ScratchSpec

\* Type correctness: every file leads to somebody it may lead to, and everyone is somewhere.
THEOREM ScratchTypes == ScratchSpec => []ScratchTypeOK
<1>1. ScratchInv => ScratchTypeOK
  BY DEF ScratchInv
<1> QED BY <1>1, ScratchInvariant, PTL

(***************************************************************************)
(* A scratch that runs can be found and reached by its name, however many  *)
(* keepers and terminals there are and whatever crashes, unless a sweep    *)
(* takes the files from under it.                                          *)
(***************************************************************************)
THEOREM RunningIsReachable == ScratchSpec => []NameLeadsHome
<1>1. ScratchInv => NameLeadsHome
  BY DEF ScratchInv, NameLeadsHome, HoldersLock, SocketsServe, Holding
<1> QED BY <1>1, ScratchInvariant, PTL

-----------------------------------------------------------------------------
(* Background. *)

USE BackgroundAssumption

SpawnState == [at : [Spawned -> {"unused", "running", "queued", "over"}], done : Seq(Spawned),
               live : SUBSET Spawned, waiting : SUBSET Spawned, asked : SUBSET Spawned,
               cancelled : SUBSET Spawned, calls : [Spawned -> Nat]]
PeerState == [at : {"idle", "told", "holding"}, wanted : Asked \cup {NoDir},
              said : Asked \cup {StartDir}, asks : Nat]
TurnState == [todo : Seq(Task), changed : BOOLEAN, pwd : Asked \cup {StartDir},
              cwd : Asked \cup {StartDir}, keys : Nat, wait : FrameWait \cup {"reported"}]

\* What is not a move.
Still == {t \in Task : t.do # "move"}

(***************************************************************************)
(* A job is unknown until it is started.  A callback somebody asked for is *)
(* waiting, cancelled, or has been called.                                 *)
(***************************************************************************)
Counted(w) ==
  /\ w.waiting \subseteq w.live \cap w.asked
  /\ \A j \in Spawned :
       /\ w.at[j] = "unused" => j \notin w.live \cup w.asked \cup w.cancelled /\ w.calls[j] = 0
       /\ j \in w.waiting => j \notin w.cancelled /\ w.calls[j] = 0
       /\ j \in w.cancelled => w.calls[j] = 0
       /\ j \in w.asked => j \in w.waiting \cup w.cancelled \/ w.calls[j] = 1
       /\ w.calls[j] <= 1

(***************************************************************************)
(* A move is made before anything else that is to be done, and goes where  *)
(* the shell was last told to, unless something newer waits in the slot.   *)
(***************************************************************************)
MovesFirst ==
  /\ turn.todo # << >> => Tail(turn.todo) \in Seq(Still)
  /\ Facing("move") =>
       It \in Asked /\ (peer.wanted = NoDir => It = peer.said \/ "newer" \in lost)
  /\ ~ Facing("move") /\ peer.wanted = NoDir =>
       turn.cwd = turn.pwd /\ (turn.pwd = peer.said \/ "newer" \in lost)
  /\ peer.wanted # NoDir => peer.wanted = peer.said \/ "newer" \in lost

BackgroundInv == BackgroundTypeOK /\ Counted(spawns) /\ MovesFirst

-----------------------------------------------------------------------------
LEMMA BackgroundTypes ==
  BackgroundTypeOK <=>
    /\ bytes \subseteq Pipe /\ spawns \in SpawnState
    /\ alarms \in [Alarm -> {"off", "set", "due"}]
    /\ peer \in PeerState /\ turn \in TurnState /\ lost \subseteq Pipe \cup {"newer"}
BY DEF BackgroundTypeOK, SpawnState, PeerState, TurnState

LEMMA StillTasks ==
  /\ \A do \in {"lua", "alarms", "ring", "deliver", "call", "wait", "try", "settle", "follow",
                "mark", "command"} :
       /\ Todo(do) \in Still
       /\ \A of \in LuaPlace \cup Spawned \cup Alarm \cup Asked : TaskOf(do, of) \in Still
  /\ \A place \in LuaPlace : Lua(place) \in Still
  /\ \A d \in Asked : TaskOf("move", d) \in Task
  /\ Fire \in Seq(Still) /\ Service \in Seq(Still)
<1>1. /\ \A do \in {"lua", "alarms", "ring", "deliver", "call", "wait", "try", "settle", "follow",
                    "mark", "command"} :
           /\ Todo(do) \in Still
           /\ \A of \in LuaPlace \cup Spawned \cup Alarm \cup Asked : TaskOf(do, of) \in Still
      /\ \A d \in Asked : TaskOf("move", d) \in Task
  BY DEF Todo, TaskOf, Still, Task
<1>2. \A place \in LuaPlace : Lua(place) \in Still
  BY <1>1 DEF Lua
<1>3. Fire \in Seq(Still)
  BY <1>1 DEF Fire
<1>4. Todo("follow") \in Still /\ Lua("hook") \in Still
  BY <1>1, <1>2 DEF LuaPlace
<1>5. <<Todo("follow"), Lua("hook")>> \in Seq(Still)
  BY <1>4
<1>6. Service \in Seq(Still)
  BY <1>3, <1>5, ConcatProperties DEF Service
<1> QED BY <1>1, <1>2, <1>3, <1>6

LEMMA StillAreTasks ==
  ASSUME NEW q \in Seq(Still)
  PROVE  q \in Seq(Task)
BY SeqMonotonic DEF Still

\* One thing more to do, before the rest.
LEMMA StillPut ==
  ASSUME NEW t \in Still, NEW q \in Seq(Still)
  PROVE  <<t>> \o q \in Seq(Still) /\ <<t>> \in Seq(Still)
<1>1. <<t>> \in Seq(Still)
  OBVIOUS
<1> QED BY <1>1, ConcatProperties

\* Unless it moves, the shell's thread has no move before it at all.
LEMMA NothingToMove ==
  ASSUME BackgroundInv
  PROVE  /\ ~ AtRest => Rest \in Seq(Still) /\ Head(turn.todo) \in Task
         /\ ~ Facing("move") => turn.todo \in Seq(Still)
<1>1. turn.todo \in Seq(Task)
  BY BackgroundTypes DEF BackgroundInv, TurnState
<1>2. ~ AtRest => Rest \in Seq(Still) /\ Head(turn.todo) \in Task
  BY <1>1, HeadTailProperties DEF AtRest, Rest, BackgroundInv, MovesFirst
<1>3. ASSUME ~ Facing("move"), ~ AtRest PROVE turn.todo \in Seq(Still)
  <2>1. Head(turn.todo) \in Still /\ turn.todo # << >>
    BY <1>2, <1>3 DEF Facing, Still, AtRest
  <2>2. turn.todo = <<Head(turn.todo)>> \o Tail(turn.todo)
    <3>1. 1 \in 1 .. Len(turn.todo) /\ Len(turn.todo) \in 1 .. Len(turn.todo)
      BY <1>1, <2>1, EmptySeq
    <3>2. SubSeq(turn.todo, 1, Len(turn.todo)) =
            <<turn.todo[1]>> \o SubSeq(turn.todo, 2, Len(turn.todo))
      BY <1>1, <3>1, SubSeqRecursiveFirst
    <3> QED BY <1>1, <2>1, <3>2, SubSeqFull, TailIsSubSeq
  <2> QED BY <1>2, <1>3, <2>1, <2>2, StillPut DEF Rest
<1>4. ASSUME AtRest PROVE turn.todo \in Seq(Still)
  BY <1>4, EmptySeq DEF AtRest
<1> QED BY <1>2, <1>3, <1>4

-----------------------------------------------------------------------------
(* What leaves a move where it is. *)

LEMMA MovesAsBefore ==
  ASSUME MovesFirst, UNCHANGED turn, peer'.wanted = peer.wanted, peer'.said = peer.said,
         lost \subseteq lost'
  PROVE  MovesFirst'
BY DEF MovesFirst, Facing, It, AtRest

LEMMA MovesUndisturbed ==
  ASSUME MovesFirst, ~ Facing("move"), turn'.todo \in Seq(Still),
         turn'.pwd = turn.pwd, turn'.cwd = turn.cwd,
         peer'.wanted = peer.wanted, peer'.said = peer.said, lost \subseteq lost'
  PROVE  MovesFirst'
<1>1. turn'.todo # << >> => Tail(turn'.todo) \in Seq(Still) /\ Head(turn'.todo) \in Still
  BY HeadTailProperties
<1>2. ~ Facing("move")'
  BY <1>1 DEF Facing, AtRest, Still
<1> QED BY <1>1, <1>2 DEF MovesFirst

\* The thread goes on to what is no move.
LEMMA GoesOnTo ==
  ASSUME BackgroundInv, ~ Facing("move"), NEW tasks \in Seq(Still), NEW changed \in BOOLEAN,
         NEW keys \in Nat, NEW wait \in FrameWait \cup {"reported"},
         turn' = [turn EXCEPT !.todo = tasks, !.changed = changed, !.keys = keys, !.wait = wait],
         peer'.wanted = peer.wanted, peer'.said = peer.said, lost \subseteq lost'
  PROVE  turn' \in TurnState /\ MovesFirst'
<1>1. turn \in TurnState /\ tasks \in Seq(Task)
  BY BackgroundTypes, StillAreTasks DEF BackgroundInv
<1>2. turn' \in TurnState
  BY <1>1 DEF TurnState
<1>3. turn'.todo = tasks /\ turn'.pwd = turn.pwd /\ turn'.cwd = turn.cwd
  BY <1>1 DEF TurnState
<1> QED BY <1>2, <1>3, MovesUndisturbed DEF BackgroundInv

LEMMA GoesOnToTasks ==
  ASSUME BackgroundInv, ~ Facing("move"), NEW tasks \in Seq(Still), GoOnTo(tasks),
         peer'.wanted = peer.wanted, peer'.said = peer.said, lost \subseteq lost'
  PROVE  turn' \in TurnState /\ MovesFirst'
<1>1. turn \in TurnState
  BY BackgroundTypes DEF BackgroundInv
<1>2. turn.changed \in BOOLEAN /\ turn.keys \in Nat /\ turn.wait \in FrameWait \cup {"reported"}
  BY <1>1 DEF TurnState
<1>3. turn' = [turn EXCEPT !.todo = tasks, !.changed = turn.changed, !.keys = turn.keys,
                           !.wait = turn.wait]
  BY <1>1 DEF GoOnTo, TurnState
<1> QED BY <1>2, <1>3, GoesOnTo

-----------------------------------------------------------------------------
(* Workers, the clock, and peers. *)

LEMMA JobEndsInv ==
  ASSUME BackgroundInv, NEW j \in Spawned, JobEnds(j)
  PROVE  BackgroundInv'
<1> DEFINE e == [spawns EXCEPT !.at[j] = "queued", !.done = Append(@, j)]
<1>1. spawns \in SpawnState /\ spawns' = e /\ UNCHANGED <<bytes, alarms, peer, turn, may, lost>>
  BY BackgroundTypes DEF BackgroundInv, JobEnds
<1>2. Append(spawns.done, j) \in Seq(Spawned)
  BY <1>1 DEF SpawnState
<1>3. e \in SpawnState
  BY <1>1, <1>2 DEF SpawnState
<1>4. Counted(e)
  BY <1>1 DEF SpawnState, Counted, BackgroundInv, JobEnds
<1> HIDE DEF e
<1>5. BackgroundTypeOK'
  BY <1>1, <1>3, BackgroundTypes DEF BackgroundInv, BackgroundTypeOK, SpawnState
<1>6. MovesFirst'
  BY <1>1, MovesAsBefore DEF BackgroundInv
<1> QED BY <1>1, <1>4, <1>5, <1>6 DEF BackgroundInv

LEMMA JobNudgesInv ==
  ASSUME BackgroundInv, NEW j \in Spawned, JobNudges(j)
  PROVE  BackgroundInv'
<1> DEFINE e == [spawns EXCEPT !.at[j] = "over"]
<1>1. spawns \in SpawnState /\ spawns' = e /\ UNCHANGED <<alarms, peer, turn, may, lost>>
  BY BackgroundTypes DEF BackgroundInv, JobNudges
<1>2. e \in SpawnState
  BY <1>1 DEF SpawnState
<1>3. Counted(e)
  BY <1>1 DEF SpawnState, Counted, BackgroundInv, JobNudges
<1> HIDE DEF e
<1>4. bytes' \subseteq Pipe
  BY DEF BackgroundInv, BackgroundTypeOK, JobNudges, Woken, Pipe
<1>5. BackgroundTypeOK'
  BY <1>1, <1>2, <1>4, BackgroundTypes DEF BackgroundInv, BackgroundTypeOK, SpawnState
<1>6. MovesFirst'
  BY <1>1, MovesAsBefore DEF BackgroundInv
<1> QED BY <1>1, <1>3, <1>5, <1>6 DEF BackgroundInv

LEMMA AlarmComesDueInv ==
  ASSUME BackgroundInv, NEW a \in Alarm, AlarmComesDue(a)
  PROVE  BackgroundInv'
<1>1. UNCHANGED <<bytes, spawns, peer, turn, may, lost>>
  BY DEF AlarmComesDue
<1>2. BackgroundTypeOK'
  BY <1>1 DEF BackgroundInv, BackgroundTypeOK, AlarmComesDue
<1>3. MovesFirst'
  BY <1>1, MovesAsBefore DEF BackgroundInv
<1> QED BY <1>1, <1>2, <1>3 DEF BackgroundInv

LEMMA PeerAsksInv ==
  ASSUME BackgroundInv, NEW d \in Asked, PeerAsks(d)
  PROVE  BackgroundInv'
<1> DEFINE e == [peer EXCEPT !.at = "told", !.wanted = d, !.said = d, !.asks = @ - 1]
<1>1. peer \in PeerState /\ peer' = e /\ peer.asks > 0
      /\ UNCHANGED <<bytes, spawns, alarms, turn, may, lost>>
  BY BackgroundTypes DEF BackgroundInv, PeerAsks
<1>2. peer.asks - 1 \in Nat
  BY <1>1 DEF PeerState
<1>3. e \in PeerState /\ e.wanted = d /\ e.said = d
  BY <1>1, <1>2 DEF PeerState
<1> HIDE DEF e
<1>4. BackgroundTypeOK'
  BY <1>1, <1>3 DEF BackgroundInv, BackgroundTypeOK, PeerState
<1>5. MovesFirst'
  BY <1>1, <1>3 DEF BackgroundInv, MovesFirst, Facing, It, AtRest
<1> QED BY <1>1, <1>4, <1>5 DEF BackgroundInv

\* The rest of what a peer's thread does leaves what it was told alone.
LEMMA PeerTurnsInv ==
  ASSUME BackgroundInv, PeerNudges \/ PeerHolds \/ PeerReleases
  PROVE  BackgroundInv'
<1>1. peer \in PeerState /\ UNCHANGED <<spawns, alarms, turn, may, lost>>
  BY BackgroundTypes DEF BackgroundInv, PeerNudges, PeerHolds, PeerReleases
<1>2. peer' \in PeerState /\ peer'.wanted = peer.wanted /\ peer'.said = peer.said
  <2>1. CASE PeerNudges
    BY <1>1, <2>1 DEF PeerState, PeerNudges
  <2>2. CASE PeerHolds
    <3>1. peer' = [peer EXCEPT !.at = "holding", !.asks = peer.asks - 1]
      BY <1>1, <2>2 DEF PeerState, PeerHolds
    <3>2. peer.asks - 1 \in Nat
      BY <1>1, <2>2 DEF PeerState, PeerHolds
    <3> QED BY <1>1, <3>1, <3>2 DEF PeerState
  <2>3. CASE PeerReleases
    BY <1>1, <2>3 DEF PeerState, PeerReleases
  <2> QED BY <2>1, <2>2, <2>3
<1>3. bytes' \subseteq Pipe
  BY DEF BackgroundInv, BackgroundTypeOK, PeerNudges, PeerHolds, PeerReleases, Woken, Pipe
<1>4. BackgroundTypeOK'
  BY <1>1, <1>2, <1>3 DEF BackgroundInv, BackgroundTypeOK, PeerState
<1>5. MovesFirst'
  BY <1>1, <1>2, MovesAsBefore DEF BackgroundInv
<1> QED BY <1>1, <1>4, <1>5 DEF BackgroundInv

-----------------------------------------------------------------------------
(* The editor's waits. *)

\* The thread goes on to what is no move, and jobs and peers are as they were.
LEMMA TurnsInv ==
  ASSUME BackgroundInv, turn' \in TurnState, MovesFirst', bytes' \subseteq Pipe,
         UNCHANGED <<spawns, alarms, peer, lost>>
  PROVE  BackgroundInv'
<1>1. BackgroundTypeOK'
  BY DEF BackgroundInv, BackgroundTypeOK, TurnState
<1> QED BY <1>1 DEF BackgroundInv

LEMMA WaitsForKeyInv ==
  ASSUME BackgroundInv, Wakes \/ WakesInTime \/ NothingMoves \/ IdleTimeout \/ KeyPressed
  PROVE  BackgroundInv'
<1>1. turn \in TurnState /\ ~ Facing("move") /\ UNCHANGED <<spawns, alarms, peer, lost>>
      /\ bytes' \subseteq Pipe
  BY BackgroundTypes DEF BackgroundInv, BackgroundTypeOK, Wakes, WakesInTime, NothingMoves,
     IdleTimeout, KeyPressed, Facing
<1>2. turn.changed \in BOOLEAN /\ turn.keys \in Nat /\ turn.wait \in FrameWait \cup {"reported"}
  BY <1>1 DEF TurnState
<1>3. CASE Wakes
  <2>1. Service \o <<Todo("mark")>> \in Seq(Still)
    <3>1. <<Todo("mark")>> \in Seq(Still)
      BY StillTasks
    <3> QED BY <3>1, StillTasks, ConcatProperties
  <2>2. turn' = [turn EXCEPT !.todo = Service \o <<Todo("mark")>>, !.changed = FALSE,
                             !.keys = turn.keys, !.wait = turn.wait]
    BY <1>1, <1>3 DEF Wakes, TurnState
  <2> QED BY <1>1, <1>2, <2>1, <2>2, GoesOnTo, TurnsInv
<1>4. CASE WakesInTime
  BY <1>1, <1>4, StillTasks, GoesOnToTasks, TurnsInv DEF WakesInTime
<1>5. CASE KeyPressed
  <2>1. <<Lua("key")>> \in Seq(Still)
    BY StillTasks DEF LuaPlace
  <2>2. <<Lua("command"), Todo("command"), Lua("hook")>> \in Seq(Still)
    BY StillTasks DEF LuaPlace
  <2>3. <<Lua("command"), Todo("command"), Lua("hook")>> \o Fire \o Fire \in Seq(Still)
    BY <2>2, StillTasks, ConcatProperties
  <2>4. PICK todo \in Seq(Still), wait \in FrameWait :
          turn' = [turn EXCEPT !.todo = todo, !.keys = @ - 1, !.wait = wait]
    BY <1>5, <2>1, <2>3 DEF KeyPressed
  <2>5. turn.keys - 1 \in Nat
    <3>1. turn.keys \in Nat /\ turn.keys > 0
      BY <1>2, <1>5 DEF KeyPressed
    <3> QED BY <3>1
  <2>6. turn' = [turn EXCEPT !.todo = todo, !.changed = turn.changed, !.keys = turn.keys - 1,
                             !.wait = wait]
    BY <1>1, <2>4 DEF TurnState
  <2> QED BY <1>1, <1>2, <2>5, <2>6, GoesOnTo, TurnsInv
<1>6. CASE NothingMoves
  <2>1. turn.todo \in Seq(Still) /\ "blocking" \in FrameWait
    BY <1>1, NothingToMove DEF FrameWait
  <2>2. turn' = [turn EXCEPT !.todo = turn.todo, !.changed = turn.changed, !.keys = turn.keys,
                             !.wait = "blocking"]
    BY <1>1, <1>6 DEF NothingMoves, TurnState
  <2> QED BY <1>1, <1>2, <2>1, <2>2, GoesOnTo, TurnsInv
<1>7. CASE IdleTimeout
  <2>1. <<Lua("hook")>> \in Seq(Still)
    BY StillTasks DEF LuaPlace
  <2>2. turn' = [turn EXCEPT !.todo = <<Lua("hook")>>, !.changed = turn.changed, !.keys = turn.keys,
                             !.wait = "reported"]
    BY <1>1, <1>7 DEF IdleTimeout, TurnState
  <2> QED BY <1>1, <1>2, <2>1, <2>2, GoesOnTo, TurnsInv
<1> QED BY <1>3, <1>4, <1>5, <1>6, <1>7

LEMMA CommandsInv ==
  ASSUME BackgroundInv, ReadMark \/ CommandEnds \/ Pump
  PROVE  BackgroundInv'
<1>1. turn \in TurnState /\ ~ Facing("move") /\ ~ AtRest /\ UNCHANGED <<bytes, spawns, alarms, peer, lost>>
  BY BackgroundTypes DEF BackgroundInv, ReadMark, CommandEnds, Pump, Facing
<1>2. Rest \in Seq(Still) /\ turn.todo \in Seq(Still) /\ << >> \in Seq(Still)
  BY <1>1, NothingToMove, EmptySeq
<1>3. bytes' \subseteq Pipe
  BY <1>1 DEF BackgroundInv, BackgroundTypeOK
<1>4. CASE ReadMark
  <2>1. CASE turn.changed
    <3>1. PICK wait \in FrameWait : turn' = [turn EXCEPT !.todo = Service, !.wait = wait]
      BY <1>4, <2>1 DEF ReadMark
    <3>2. turn.keys \in Nat /\ turn.changed \in BOOLEAN
      BY <1>1 DEF TurnState
    <3>3. turn' = [turn EXCEPT !.todo = Service, !.changed = turn.changed, !.keys = turn.keys,
                               !.wait = wait]
      BY <1>1, <3>1 DEF TurnState
    <3> QED BY <1>1, <1>3, <3>2, <3>3, StillTasks, GoesOnTo, TurnsInv
  <2>2. CASE ~ turn.changed
    BY <1>1, <1>2, <1>3, <1>4, <2>2, GoesOnToTasks, TurnsInv DEF ReadMark
  <2> QED BY <2>1, <2>2
<1>5. CASE CommandEnds
  BY <1>1, <1>2, <1>3, <1>5, GoesOnToTasks, TurnsInv DEF CommandEnds
<1>6. CASE Pump
  <2>1. Service \o turn.todo \in Seq(Still)
    BY <1>2, StillTasks, ConcatProperties
  <2>2. turn.keys - 1 \in Nat /\ turn.changed \in BOOLEAN /\ turn.wait \in FrameWait \cup {"reported"}
    BY <1>1, <1>6 DEF Pump, TurnState
  <2>3. turn' = [turn EXCEPT !.todo = Service \o turn.todo, !.changed = turn.changed,
                             !.keys = turn.keys - 1, !.wait = turn.wait]
    BY <1>1, <1>6 DEF Pump, TurnState
  <2> QED BY <1>1, <1>3, <2>1, <2>2, <2>3, GoesOnTo, TurnsInv
<1> QED BY <1>4, <1>5, <1>6

-----------------------------------------------------------------------------
(* Alarms. *)

LEMMA FireDueInv ==
  ASSUME BackgroundInv, FireDue
  PROVE  BackgroundInv'
<1> DEFINE due == {a \in Alarm : alarms[a] = "due"}
<1>1. turn \in TurnState /\ ~ Facing("move") /\ UNCHANGED <<bytes, spawns, peer, lost>>
  BY BackgroundTypes DEF BackgroundInv, FireDue, Facing
<1>2. alarms' \in [Alarm -> {"off", "set", "due"}]
  BY DEF BackgroundInv, BackgroundTypeOK, FireDue
<1>3. PICK order \in SetToSeqs(due) :
        turn' = [turn EXCEPT !.todo = [i \in DOMAIN order |-> TaskOf("ring", order[i])] \o Rest,
                             !.changed = @ \/ due # {}]
  BY DEF FireDue
<1>4. order \in [1 .. Cardinality(due) -> due] /\ Cardinality(due) \in Nat
  <2>1. IsFiniteSet(due)
    BY FS_Subset
  <2> QED BY <1>3, <2>1, FS_CardinalityType DEF SetToSeqs
<1>5. [i \in DOMAIN order |-> TaskOf("ring", order[i])] \in Seq(Still)
  <2>1. \A i \in 1 .. Cardinality(due) : TaskOf("ring", order[i]) \in Still
    BY <1>4, StillTasks
  <2>2. DOMAIN order = 1 .. Cardinality(due)
    BY <1>4
  <2> QED BY <1>4, <2>1, <2>2, SeqDef
<1>6. [i \in DOMAIN order |-> TaskOf("ring", order[i])] \o Rest \in Seq(Still)
  BY <1>5, NothingToMove, ConcatProperties DEF FireDue, Facing
<1>7. turn.keys \in Nat /\ (turn.changed \/ due # {}) \in BOOLEAN /\ turn.wait \in FrameWait \cup {"reported"}
  BY <1>1 DEF TurnState
<1>8. turn' = [turn EXCEPT !.todo = [i \in DOMAIN order |-> TaskOf("ring", order[i])] \o Rest,
                           !.changed = turn.changed \/ due # {}, !.keys = turn.keys,
                           !.wait = turn.wait]
  BY <1>1, <1>3 DEF TurnState
<1>9. turn' \in TurnState /\ MovesFirst'
  BY <1>1, <1>6, <1>7, <1>8, GoesOnTo
<1>10. BackgroundTypeOK'
  BY <1>1, <1>2, <1>9 DEF BackgroundInv, BackgroundTypeOK, TurnState
<1> QED BY <1>1, <1>9, <1>10 DEF BackgroundInv

LEMMA RingInv ==
  ASSUME BackgroundInv, Ring
  PROVE  BackgroundInv'
<1>1. ~ Facing("move") /\ UNCHANGED <<bytes, spawns, peer, lost>>
  BY DEF Ring, Facing
<1>2. alarms' \in [Alarm -> {"off", "set", "due"}]
  BY DEF BackgroundInv, BackgroundTypeOK, Ring
<1>3. Rest \in Seq(Still) /\ <<Lua("alarm")>> \o Rest \in Seq(Still)
  <2>1. Rest \in Seq(Still) /\ Lua("alarm") \in Still
    BY NothingToMove, StillTasks DEF Ring, Facing, LuaPlace
  <2> QED BY <2>1, StillPut
<1>4. turn' \in TurnState /\ MovesFirst'
  BY <1>1, <1>3, GoesOnToTasks DEF Ring
<1>5. BackgroundTypeOK'
  BY <1>1, <1>2, <1>4 DEF BackgroundInv, BackgroundTypeOK, TurnState
<1> QED BY <1>1, <1>4, <1>5 DEF BackgroundInv

-----------------------------------------------------------------------------
(* Results. *)

\* The jobs are accounted for and the thread goes on to what is no move.
LEMMA AccountedInv ==
  ASSUME BackgroundInv, spawns' \in SpawnState, Counted(spawns)', turn' \in TurnState, MovesFirst',
         bytes' \subseteq Pipe, lost' \subseteq Pipe \cup {"newer"}, UNCHANGED <<alarms, peer>>
  PROVE  BackgroundInv'
<1>1. BackgroundTypeOK'
  BY DEF BackgroundInv, BackgroundTypeOK, TurnState, SpawnState
<1> QED BY <1>1 DEF BackgroundInv

\* The callbacks of a queue of results are no moves.
LEMMA CallsStill ==
  ASSUME BackgroundInv
  PROVE  Calls \in Seq(Still)
<1>1. spawns.done \in Seq(Spawned)
  BY BackgroundTypes DEF BackgroundInv, SpawnState
<1>2. Len(spawns.done) \in Nat /\ DOMAIN spawns.done = 1 .. Len(spawns.done)
      /\ \A i \in 1 .. Len(spawns.done) : spawns.done[i] \in Spawned
  BY <1>1
<1>3. \A i \in 1 .. Len(spawns.done) : TaskOf("call", spawns.done[i]) \in Still
  BY <1>2, StillTasks
<1> QED BY <1>2, <1>3, SeqDef DEF Calls

\* A queue that is emptied leaves everything else about the jobs as it was.
LEMMA Emptied ==
  ASSUME BackgroundInv, spawns' = [spawns EXCEPT !.done = << >>]
  PROVE  spawns' \in SpawnState /\ Counted(spawns)'
<1> DEFINE e == [spawns EXCEPT !.done = << >>]
<1>1. spawns \in SpawnState
  BY BackgroundTypes DEF BackgroundInv
<1>2. e \in SpawnState
  BY <1>1, EmptySeq DEF SpawnState
<1>3. Counted(e)
  BY <1>1 DEF SpawnState, Counted, BackgroundInv
<1>4. spawns' = e
  OBVIOUS
<1> HIDE DEF e
<1> QED BY <1>2, <1>3, <1>4

LEMMA DeliverInv ==
  ASSUME BackgroundInv, Deliver
  PROVE  BackgroundInv'
<1>1. turn \in TurnState /\ ~ Facing("move") /\ ~ AtRest /\ UNCHANGED <<bytes, alarms, peer, lost>>
  BY BackgroundTypes DEF BackgroundInv, Deliver, Facing
<1>2. Calls \o Rest \in Seq(Still)
  BY <1>1, CallsStill, NothingToMove, ConcatProperties
<1>3. /\ turn.keys \in Nat /\ turn.wait \in FrameWait \cup {"reported"}
      /\ (turn.changed \/ spawns.done # << >>) \in BOOLEAN
  BY <1>1 DEF TurnState
<1>4. turn' = [turn EXCEPT !.todo = Calls \o Rest, !.changed = turn.changed \/ spawns.done # << >>,
                           !.keys = turn.keys, !.wait = turn.wait]
  BY <1>1 DEF TurnState, Deliver
<1>5. turn' \in TurnState /\ MovesFirst'
  BY <1>1, <1>2, <1>3, <1>4, GoesOnTo
<1>6. spawns' \in SpawnState /\ Counted(spawns)'
  BY Emptied DEF Deliver
<1>7. bytes' \subseteq Pipe /\ lost' \subseteq Pipe \cup {"newer"}
  BY <1>1 DEF BackgroundInv, BackgroundTypeOK
<1> QED BY <1>1, <1>5, <1>6, <1>7, AccountedInv

LEMMA WithoutIsQueue ==
  ASSUME NEW q \in Seq(Spawned), NEW j
  PROVE  Without(q, j) \in Seq(Spawned)
<1>1. CASE ~ Contains(q, j)
  BY <1>1 DEF Without
<1>2. CASE Contains(q, j)
  <2> DEFINE i == CHOOSE i \in DOMAIN q : q[i] = j
  <2>1. i \in 1 .. Len(q) /\ Len(q) \in Nat
    BY <1>2 DEF Contains
  <2>2. Without(q, j) = SubSeq(q, 1, i - 1) \o SubSeq(q, i + 1, Len(q))
    BY <1>2 DEF Without, RemoveAt
  <2> HIDE DEF i
  <2>3. /\ i - 1 \in Int /\ i + 1 \in Int /\ Len(q) \in Int
        /\ \A k \in 1 .. i - 1 : q[k] \in Spawned
        /\ \A k \in i + 1 .. Len(q) : q[k] \in Spawned
    BY <2>1
  <2>4. SubSeq(q, 1, i - 1) \in Seq(Spawned) /\ SubSeq(q, i + 1, Len(q)) \in Seq(Spawned)
    BY <2>3, SubSeqProperties
  <2> QED BY <2>2, <2>4, ConcatProperties
<1> QED BY <1>1, <1>2

\* claim() and call(): the callback is called if it waits, and waits no more.
LEMMA HandedBackAccounts ==
  ASSUME BackgroundInv, NEW j, NEW then \in Seq(Still), HandedBack(j, then), ~ Facing("move"),
         UNCHANGED <<bytes, alarms, peer, lost>>
  PROVE  BackgroundInv'
<1> DEFINE n == IF j \in spawns.waiting THEN spawns.calls[j] + 1 ELSE spawns.calls[j]
           e == [spawns EXCEPT !.done = Without(@, j), !.live = @ \ {j}, !.waiting = @ \ {j},
                               !.calls[j] = n]
<1>1. spawns \in SpawnState /\ Counted(spawns)
  BY BackgroundTypes DEF BackgroundInv
<1>2. spawns' = e
  BY <1>1 DEF HandedBack, SpawnState
<1>3. Without(spawns.done, j) \in Seq(Spawned)
  BY <1>1, WithoutIsQueue DEF SpawnState
<1>4. j \in Spawned => n \in Nat
  BY <1>1 DEF SpawnState
<1>5. j \in spawns.waiting => j \in Spawned /\ n = 1
  BY <1>1 DEF Counted, SpawnState
<1>6. e \in SpawnState
  BY <1>1, <1>3, <1>4 DEF SpawnState
<1>7. /\ e.at = spawns.at /\ e.asked = spawns.asked /\ e.cancelled = spawns.cancelled
      /\ e.live = spawns.live \ {j} /\ e.waiting = spawns.waiting \ {j}
      /\ \A k \in Spawned : e.calls[k] = IF k = j THEN n ELSE spawns.calls[k]
  BY <1>1 DEF SpawnState
<1> HIDE DEF e
<1>8. Counted(e)
  <2>1. \A k \in Spawned : k = j /\ k \in spawns.waiting => n = 1
    BY <1>5
  <2>2. j \notin spawns.waiting => n = spawns.calls[j]
    OBVIOUS
  <2> HIDE DEF n
  <2>3. e.waiting \subseteq e.live \cap e.asked
    BY <1>1, <1>7 DEF Counted
  <2>4. ASSUME NEW k \in Spawned
        PROVE  /\ e.at[k] = "unused" => k \notin e.live \cup e.asked \cup e.cancelled /\ e.calls[k] = 0
               /\ k \in e.waiting => k \notin e.cancelled /\ e.calls[k] = 0
               /\ k \in e.cancelled => e.calls[k] = 0
               /\ k \in e.asked => k \in e.waiting \cup e.cancelled \/ e.calls[k] = 1
               /\ e.calls[k] <= 1
    <3>1. CASE k = j /\ k \in spawns.waiting
      BY <1>1, <1>7, <2>1, <3>1 DEF Counted
    <3>2. CASE ~ (k = j /\ k \in spawns.waiting)
      BY <1>1, <1>7, <2>2, <3>2 DEF Counted
    <3> QED BY <3>1, <3>2
  <2> QED BY <2>3, <2>4 DEF Counted
<1>9. turn' \in TurnState /\ MovesFirst'
  <2>1. <<Lua("callback")>> \o then \in Seq(Still)
    BY StillTasks, StillPut DEF LuaPlace
  <2>2. PICK tasks \in Seq(Still) : GoOnTo(tasks)
    BY <2>1 DEF HandedBack
  <2> QED BY <2>2, GoesOnToTasks
<1>10. bytes' \subseteq Pipe /\ lost' \subseteq Pipe \cup {"newer"}
  BY DEF BackgroundInv, BackgroundTypeOK
<1> QED BY <1>2, <1>6, <1>8, <1>9, <1>10, AccountedInv

LEMMA CallInv ==
  ASSUME BackgroundInv, Call
  PROVE  BackgroundInv'
<1>1. ~ Facing("move") /\ Rest \in Seq(Still)
  BY NothingToMove DEF Call, Facing
<1> QED BY <1>1, HandedBackAccounts DEF Call

LEMMA BlockOnceInv ==
  ASSUME BackgroundInv, BlockOnce, UNCHANGED <<alarms, peer>>
  PROVE  BackgroundInv'
<1>1. bytes' \subseteq Pipe /\ lost' \subseteq Pipe \cup {"newer"} /\ lost \subseteq lost'
  BY DEF BackgroundInv, BackgroundTypeOK, BlockOnce
<1>2. MovesFirst' /\ UNCHANGED <<turn, spawns>>
  BY <1>1, MovesAsBefore DEF BackgroundInv, BlockOnce
<1>3. turn' \in TurnState /\ spawns' \in SpawnState /\ Counted(spawns)'
  BY <1>2, BackgroundTypes DEF BackgroundInv
<1> QED BY <1>1, <1>2, <1>3, AccountedInv

\* Going on to what is no move, and nothing else.
LEMMA OnlyGoesOn ==
  ASSUME BackgroundInv, ~ Facing("move"), NEW tasks \in Seq(Still), GoOnTo(tasks),
         UNCHANGED <<bytes, spawns, alarms, peer, lost>>
  PROVE  BackgroundInv'
<1>1. turn' \in TurnState /\ MovesFirst'
  BY GoesOnToTasks
<1>2. bytes' \subseteq Pipe
  BY DEF BackgroundInv, BackgroundTypeOK
<1> QED BY <1>1, <1>2, TurnsInv

LEMMA WaitInv ==
  ASSUME BackgroundInv, Wait
  PROVE  BackgroundInv'
<1>1. ~ Facing("move") /\ Rest \in Seq(Still) /\ UNCHANGED <<alarms, peer>>
  BY NothingToMove DEF Wait, Facing
<1>2. CASE HandedBack(It, Rest) /\ UNCHANGED <<bytes, lost>>
  BY <1>1, <1>2, HandedBackAccounts
<1>3. CASE GoOnTo(Rest) /\ UNCHANGED <<bytes, spawns, lost>>
  BY <1>1, <1>3, OnlyGoesOn
<1>4. CASE BlockOnce
  BY <1>1, <1>4, BlockOnceInv
<1> QED BY <1>2, <1>3, <1>4 DEF Wait

LEMMA SettleAllInv ==
  ASSUME BackgroundInv, SettleAll
  PROVE  BackgroundInv'
<1>1. ~ Facing("move") /\ Rest \in Seq(Still) /\ turn.todo \in Seq(Still) /\ UNCHANGED <<alarms, peer>>
  BY NothingToMove DEF SettleAll, Facing
<1>2. CASE GoOnTo(Calls \o turn.todo) /\ spawns' = [spawns EXCEPT !.done = << >>]
           /\ UNCHANGED <<bytes, lost>>
  <2>1. Calls \o turn.todo \in Seq(Still)
    BY <1>1, CallsStill, ConcatProperties
  <2>2. turn' \in TurnState /\ MovesFirst'
    BY <1>1, <1>2, <2>1, GoesOnToTasks
  <2>3. spawns' \in SpawnState /\ Counted(spawns)'
    BY <1>2, Emptied
  <2>4. bytes' \subseteq Pipe /\ lost' \subseteq Pipe \cup {"newer"}
    BY <1>2 DEF BackgroundInv, BackgroundTypeOK
  <2> QED BY <1>1, <2>2, <2>3, <2>4, AccountedInv
<1>3. CASE GoOnTo(Rest) /\ UNCHANGED <<bytes, spawns, lost>>
  BY <1>1, <1>3, OnlyGoesOn
<1>4. CASE BlockOnce
  BY <1>1, <1>4, BlockOnceInv
<1> QED BY <1>2, <1>3, <1>4 DEF SettleAll

-----------------------------------------------------------------------------
(* Following a peer. *)

LEMMA FollowInv ==
  ASSUME BackgroundInv, Follow
  PROVE  BackgroundInv'
<1> DEFINE e == [peer EXCEPT !.wanted = NoDir]
<1>1. /\ turn \in TurnState /\ peer \in PeerState /\ ~ Facing("move") /\ ~ AtRest
      /\ UNCHANGED <<bytes, spawns, alarms, lost>> /\ peer' = e
  BY BackgroundTypes DEF BackgroundInv, Follow, Facing
<1>2. Rest \in Seq(Still)
  BY <1>1, NothingToMove
<1>3. e \in PeerState /\ e.wanted = NoDir /\ e.said = peer.said
  BY <1>1 DEF PeerState
<1> HIDE DEF e
<1>4. CASE peer.wanted = NoDir
  <2>1. turn' \in TurnState /\ MovesFirst'
    BY <1>1, <1>2, <1>3, <1>4, GoesOnToTasks DEF Follow
  <2>2. BackgroundTypeOK'
    BY <1>1, <1>3, <2>1 DEF BackgroundInv, BackgroundTypeOK, TurnState, PeerState
  <2> QED BY <1>1, <2>1, <2>2 DEF BackgroundInv
<1>5. CASE peer.wanted # NoDir
  <2> DEFINE t == TaskOf("move", peer.wanted)
  <2>1. peer.wanted \in Asked
    BY <1>1, <1>5 DEF PeerState
  <2>2. t \in Task /\ t.do = "move" /\ t.of = peer.wanted
    BY <2>1, StillTasks DEF TaskOf
  <2>3. turn' = [turn EXCEPT !.todo = <<t>> \o Rest]
    BY <1>5 DEF Follow, GoOnTo
  <2> HIDE DEF t
  <2>4. Rest \in Seq(Task) /\ <<t>> \in Seq(Task)
    BY <1>2, <2>2, StillAreTasks
  <2>5. <<t>> \o Rest \in Seq(Task) /\ <<t>> \o Rest # << >>
        /\ Head(<<t>> \o Rest) = t /\ Tail(<<t>> \o Rest) = Rest
    <3>1. <<t>> \o Rest \in Seq(Task)
      BY <2>4, ConcatProperties
    <3>2. Len(<<t>> \o Rest) = 1 + Len(Rest) /\ Len(Rest) \in Nat
      BY <2>4, ConcatProperties
    <3>3. (<<t>> \o Rest)[1] = t
      BY <2>4, ConcatProperties
    <3>4. Tail(<<t>> \o Rest) = Rest
      BY <2>2, <2>4
    <3> QED BY <3>1, <3>2, <3>3, <3>4, EmptySeq
  <2>6. turn' \in TurnState
    BY <1>1, <2>3, <2>5 DEF TurnState
  <2>7. turn'.todo = <<t>> \o Rest
    BY <1>1, <2>3 DEF TurnState
  <2>8. MovesFirst'
    <3>1. (Facing("move"))' /\ It' = peer.wanted /\ Tail(turn'.todo) = Rest
      BY <2>2, <2>5, <2>7 DEF Facing, It, AtRest
    <3>2. peer'.wanted = NoDir /\ peer'.said = peer.said
      BY <1>1, <1>3
    <3>3. peer.wanted = peer.said \/ "newer" \in lost
      BY <1>5 DEF BackgroundInv, MovesFirst
    <3> QED BY <1>1, <1>2, <2>1, <3>1, <3>2, <3>3 DEF MovesFirst
  <2>9. BackgroundTypeOK'
    BY <1>1, <1>3, <2>6 DEF BackgroundInv, BackgroundTypeOK, TurnState, PeerState
  <2> QED BY <1>1, <2>8, <2>9 DEF BackgroundInv
<1> QED BY <1>4, <1>5

LEMMA MoveInv ==
  ASSUME BackgroundInv, Move
  PROVE  BackgroundInv'
<1>1. /\ turn \in TurnState /\ peer \in PeerState /\ ~ AtRest /\ MovesFirst
      /\ UNCHANGED <<spawns, alarms>>
  BY BackgroundTypes DEF BackgroundInv, Move, Facing
<1>2. It \in Asked /\ Rest \in Seq(Still)
  BY <1>1, NothingToMove DEF Move, MovesFirst
<1>3. Rest \in Seq(Task) /\ (Rest # << >> => Tail(Rest) \in Seq(Still) /\ Head(Rest) \in Still)
  BY <1>2, StillAreTasks, HeadTailProperties
<1>4. CASE Busy \/ peer.at = "holding"
  <2> DEFINE e == [turn EXCEPT !.todo = Rest, !.cwd = It, !.changed = TRUE]
             p == [peer EXCEPT !.wanted = It]
  <2>1. turn' = e /\ peer' = p /\ bytes' = bytes \cup {"live"}
        /\ lost' = IF peer.wanted \in {NoDir, It} THEN lost ELSE lost \cup {"newer"}
    BY <1>4 DEF Move, Woken
  <2>2. e \in TurnState /\ e.todo = Rest
    BY <1>1, <1>2, <1>3 DEF TurnState
  <2>3. p \in PeerState /\ p.wanted = It /\ p.said = peer.said
    BY <1>1, <1>2 DEF PeerState
  <2> HIDE DEF e, p
  <2>4. BackgroundTypeOK'
    BY <1>1, <2>1, <2>2, <2>3 DEF BackgroundInv, BackgroundTypeOK, TurnState, PeerState, Pipe
  <2>5. ~ Facing("move")'
    BY <1>3, <2>1, <2>2 DEF Facing, AtRest, Still
  <2>6. It = peer.said \/ "newer" \in lost'
    BY <1>1, <2>1 DEF MovesFirst, Move
  <2>7. It # NoDir
    BY <1>2
  <2>8. MovesFirst'
    <3> DEFINE d == It
    <3>1. d # NoDir /\ peer'.wanted = d /\ peer'.said = peer.said /\ (d = peer.said \/ "newer" \in lost')
      BY <2>1, <2>3, <2>6, <2>7
    <3> HIDE DEF d
    <3> QED BY <1>3, <2>1, <2>2, <2>5, <3>1 DEF MovesFirst
  <2> QED BY <1>1, <2>4, <2>8 DEF BackgroundInv
<1>5. CASE ~ (Busy \/ peer.at = "holding")
  <2> DEFINE e == [turn EXCEPT !.todo = Rest, !.cwd = It, !.pwd = It, !.changed = TRUE]
  <2>1. turn' = e /\ UNCHANGED <<bytes, peer, lost>>
    BY <1>5 DEF Move
  <2>2. e \in TurnState /\ e.todo = Rest /\ e.pwd = It /\ e.cwd = It
    BY <1>1, <1>2, <1>3 DEF TurnState
  <2> HIDE DEF e
  <2>3. BackgroundTypeOK'
    BY <1>1, <2>1, <2>2 DEF BackgroundInv, BackgroundTypeOK, TurnState, PeerState
  <2>4. ~ Facing("move")'
    BY <1>3, <2>1, <2>2 DEF Facing, AtRest, Still
  <2>5. peer.wanted = NoDir => It = peer.said \/ "newer" \in lost
    BY <1>1 DEF MovesFirst, Move
  <2>6. MovesFirst'
    <3> DEFINE d == It
    <3>1. turn'.pwd = d /\ turn'.cwd = d /\ peer' = peer /\ lost' = lost
          /\ (peer.wanted = NoDir => d = peer.said \/ "newer" \in lost)
      BY <2>1, <2>2, <2>5
    <3> HIDE DEF d
    <3> QED BY <1>1, <1>3, <2>1, <2>2, <2>4, <3>1 DEF MovesFirst
  <2> QED BY <1>1, <2>1, <2>3, <2>6 DEF BackgroundInv
<1> QED BY <1>4, <1>5

-----------------------------------------------------------------------------
(* What Lua does. *)

LEMMA StartAccounts ==
  ASSUME BackgroundInv, NEW j \in Spawned \ Started, NEW on_exit \in BOOLEAN,
         spawns' = [spawns EXCEPT !.at[j] = "running", !.live = @ \cup {j},
                          !.waiting = IF on_exit THEN @ \cup {j} ELSE @,
                          !.asked = IF on_exit THEN @ \cup {j} ELSE @]
  PROVE  spawns' \in SpawnState /\ Counted(spawns)'
<1> DEFINE e == [spawns EXCEPT !.at[j] = "running", !.live = @ \cup {j},
                          !.waiting = IF on_exit THEN @ \cup {j} ELSE @,
                          !.asked = IF on_exit THEN @ \cup {j} ELSE @]
<1>1. spawns \in SpawnState /\ Counted(spawns)
  BY BackgroundTypes DEF BackgroundInv
<1>2. e \in SpawnState
  BY <1>1 DEF SpawnState
<1>3. j \notin spawns.live \cup spawns.asked \cup spawns.cancelled /\ spawns.calls[j] = 0
  BY <1>1 DEF Counted, Started
<1>4. /\ e.calls = spawns.calls /\ e.cancelled = spawns.cancelled /\ e.live = spawns.live \cup {j}
      /\ e.waiting = (IF on_exit THEN spawns.waiting \cup {j} ELSE spawns.waiting)
      /\ e.asked = (IF on_exit THEN spawns.asked \cup {j} ELSE spawns.asked)
      /\ \A k \in Spawned : e.at[k] = IF k = j THEN "running" ELSE spawns.at[k]
  BY <1>1 DEF SpawnState
<1>5. spawns' = e
  OBVIOUS
<1> HIDE DEF e
<1>6. Counted(e)
  <2>1. e.waiting \subseteq e.live \cap e.asked
    BY <1>1, <1>4 DEF Counted
  <2>2. ASSUME NEW k \in Spawned
        PROVE  /\ e.at[k] = "unused" => k \notin e.live \cup e.asked \cup e.cancelled /\ e.calls[k] = 0
               /\ k \in e.waiting => k \notin e.cancelled /\ e.calls[k] = 0
               /\ k \in e.cancelled => e.calls[k] = 0
               /\ k \in e.asked => k \in e.waiting \cup e.cancelled \/ e.calls[k] = 1
               /\ e.calls[k] <= 1
    <3>1. CASE k = j
      BY <1>1, <1>3, <1>4, <3>1 DEF Counted
    <3>2. CASE k # j
      BY <1>1, <1>4, <3>2 DEF Counted
    <3> QED BY <3>1, <3>2
  <2> QED BY <2>1, <2>2 DEF Counted
<1> QED BY <1>2, <1>5, <1>6

LEMMA CancelAccounts ==
  ASSUME BackgroundInv, NEW j \in Started, NEW live \in {spawns.live \ {j}, spawns.live},
         spawns' = [spawns EXCEPT !.live = live, !.waiting = @ \ {j},
                          !.cancelled = IF j \in spawns.waiting THEN @ \cup {j} ELSE @]
  PROVE  spawns' \in SpawnState /\ Counted(spawns)'
<1> DEFINE e == [spawns EXCEPT !.live = live, !.waiting = @ \ {j},
                          !.cancelled = IF j \in spawns.waiting THEN @ \cup {j} ELSE @]
<1>1. spawns \in SpawnState /\ Counted(spawns) /\ j \in Spawned /\ spawns.at[j] # "unused"
  BY BackgroundTypes DEF BackgroundInv, Started
<1>2. live \in SUBSET Spawned
  BY <1>1 DEF SpawnState
<1>3. e \in SpawnState
  BY <1>1, <1>2 DEF SpawnState
<1>4. /\ e.calls = spawns.calls /\ e.at = spawns.at /\ e.live = live /\ e.asked = spawns.asked
      /\ e.waiting = spawns.waiting \ {j}
      /\ e.cancelled = (IF j \in spawns.waiting THEN spawns.cancelled \cup {j} ELSE spawns.cancelled)
  BY <1>1 DEF SpawnState
<1>5. spawns' = e
  OBVIOUS
<1> HIDE DEF e
<1>6. Counted(e)
  <2>1. e.waiting \subseteq e.live \cap e.asked
    BY <1>1, <1>4 DEF Counted
  <2>2. ASSUME NEW k \in Spawned
        PROVE  /\ e.at[k] = "unused" => k \notin e.live \cup e.asked \cup e.cancelled /\ e.calls[k] = 0
               /\ k \in e.waiting => k \notin e.cancelled /\ e.calls[k] = 0
               /\ k \in e.cancelled => e.calls[k] = 0
               /\ k \in e.asked => k \in e.waiting \cup e.cancelled \/ e.calls[k] = 1
               /\ e.calls[k] <= 1
    <3>1. CASE k = j
      BY <1>1, <1>4, <3>1 DEF Counted
    <3>2. CASE k # j
      BY <1>1, <1>4, <3>2 DEF Counted
    <3> QED BY <3>1, <3>2
  <2> QED BY <2>1, <2>2 DEF Counted
<1> QED BY <1>3, <1>5, <1>6

LEMMA LuaDoesInv ==
  ASSUME BackgroundInv, LuaDoes
  PROVE  BackgroundInv'
<1>1. ~ Facing("move") /\ ~ AtRest /\ UNCHANGED <<bytes, peer, lost>>
  BY DEF LuaDoes, Facing
<1>2. Rest \in Seq(Still)
  BY <1>1, NothingToMove
<1>3. bytes' \subseteq Pipe /\ lost' \subseteq Pipe \cup {"newer"}
  BY <1>1 DEF BackgroundInv, BackgroundTypeOK
<1>4. \E tasks \in Seq(Still) : GoOnTo(tasks)
  <2>1. ASSUME NEW how \in {"wait", "try"}, NEW j \in Started PROVE <<TaskOf(how, j)>> \o Rest \in Seq(Still)
    <3>1. TaskOf(how, j) \in Still
      BY StillTasks DEF Started
    <3> QED BY <1>2, <3>1, StillPut
  <2>2. <<Todo("settle")>> \o Rest \in Seq(Still)
    BY <1>2, StillTasks, StillPut
  <2> QED BY <1>2, <2>1, <2>2 DEF LuaDoes
<1>5. turn' \in TurnState /\ MovesFirst'
  BY <1>1, <1>4, GoesOnToTasks
<1>6. alarms' \in [Alarm -> {"off", "set", "due"}]
  <2>1. alarms \in [Alarm -> {"off", "set", "due"}]
    BY DEF BackgroundInv, BackgroundTypeOK
  <2>2. UNCHANGED alarms \/ \E a \in Alarm, at \in {"off", "set"} : alarms' = [alarms EXCEPT ![a] = at]
    BY DEF LuaDoes
  <2> QED BY <2>1, <2>2
<1>7. spawns' \in SpawnState /\ Counted(spawns)'
  <2>1. CASE UNCHANGED spawns
    BY <2>1, BackgroundTypes DEF BackgroundInv
  <2>2. CASE \E j \in Spawned \ Started, on_exit \in BOOLEAN :
               spawns' = [spawns EXCEPT !.at[j] = "running", !.live = @ \cup {j},
                            !.waiting = IF on_exit THEN @ \cup {j} ELSE @,
                            !.asked = IF on_exit THEN @ \cup {j} ELSE @]
    BY <2>2, StartAccounts
  <2>3. CASE \E j \in Started : \E live \in {spawns.live \ {j}, spawns.live} :
               spawns' = [spawns EXCEPT !.live = live, !.waiting = @ \ {j},
                            !.cancelled = IF j \in spawns.waiting THEN @ \cup {j} ELSE @]
    BY <2>3, CancelAccounts
  <2> QED BY <2>1, <2>2, <2>3 DEF LuaDoes
<1>8. BackgroundTypeOK'
  BY <1>1, <1>3, <1>5, <1>6, <1>7 DEF BackgroundInv, BackgroundTypeOK, SpawnState, TurnState
<1> QED BY <1>5, <1>7, <1>8 DEF BackgroundInv

-----------------------------------------------------------------------------
(***************************************************************************)
(* The jobs of oslo.spawn are accounted for, and a move comes first and    *)
(* goes where it was said, in whatever order workers, peers, the clock and *)
(* the shell's thread take their steps.                                    *)
(***************************************************************************)
THEOREM BackgroundInvHolds == BackgroundSpec => []BackgroundInv
<1>1. BackgroundInit => BackgroundInv
  <2> SUFFICES ASSUME BackgroundInit PROVE BackgroundInv
    OBVIOUS
  <2>1. PICK s \in Scenarios, wait \in FrameWait :
          /\ may = s.may
          /\ peer = [at |-> "idle", wanted |-> NoDir, said |-> StartDir, asks |-> s.asks]
          /\ turn = [todo |-> << >>, changed |-> FALSE, pwd |-> StartDir, cwd |-> StartDir, keys |-> s.keys,
                     wait |-> wait]
    BY DEF BackgroundInit
  <2>2. s.asks \in Nat /\ s.keys \in Nat
    OBVIOUS
  <2>3. BackgroundTypeOK
    <3>1. peer \in PeerState /\ turn \in TurnState
      BY <2>1, <2>2, EmptySeq DEF PeerState, TurnState
    <3>2. spawns \in SpawnState
      BY EmptySeq DEF SpawnState, BackgroundInit
    <3> QED BY <3>1, <3>2, BackgroundTypes DEF BackgroundInit
  <2>4. Counted(spawns)
    BY DEF BackgroundInit, Counted
  <2>5. MovesFirst
    BY <2>1 DEF MovesFirst, Facing, AtRest
  <2> QED BY <2>3, <2>4, <2>5 DEF BackgroundInv
<1>2. BackgroundInv /\ [BackgroundNext]_backgroundVars => BackgroundInv'
  <2> SUFFICES ASSUME BackgroundInv, [BackgroundNext]_backgroundVars PROVE BackgroundInv'
    OBVIOUS
  <2>1. CASE Wakes \/ WakesInTime \/ NothingMoves \/ IdleTimeout \/ KeyPressed
    BY <2>1, WaitsForKeyInv
  <2>2. CASE ReadMark \/ CommandEnds \/ Pump
    BY <2>2, CommandsInv
  <2>3. CASE FireDue
    BY <2>3, FireDueInv
  <2>4. CASE Ring
    BY <2>4, RingInv
  <2>5. CASE Deliver
    BY <2>5, DeliverInv
  <2>6. CASE Call
    BY <2>6, CallInv
  <2>7. CASE Wait
    BY <2>7, WaitInv
  <2>8. CASE SettleAll
    BY <2>8, SettleAllInv
  <2>9. CASE Follow
    BY <2>9, FollowInv
  <2>10. CASE Move
    BY <2>10, MoveInv
  <2>11. CASE LuaDoes
    BY <2>11, LuaDoesInv
  <2>12. CASE \E j \in Spawned : JobEnds(j) \/ JobNudges(j)
    BY <2>12, JobEndsInv, JobNudgesInv
  <2>13. CASE \E a \in Alarm : AlarmComesDue(a)
    BY <2>13, AlarmComesDueInv
  <2>14. CASE \E d \in Asked : PeerAsks(d)
    BY <2>14, PeerAsksInv
  <2>15. CASE PeerNudges \/ PeerHolds \/ PeerReleases
    BY <2>15, PeerTurnsInv
  <2>16. CASE UNCHANGED backgroundVars
    <3>1. BackgroundTypeOK' /\ MovesFirst' /\ UNCHANGED spawns
      BY <2>16, MovesAsBefore DEF BackgroundInv, BackgroundTypeOK, backgroundVars
    <3> QED BY <3>1 DEF BackgroundInv
  <2> QED BY <2>1, <2>2, <2>3, <2>4, <2>5, <2>6, <2>7, <2>8, <2>9, <2>10, <2>11, <2>12, <2>13,
             <2>14, <2>15, <2>16 DEF BackgroundNext, GoesOn
<1> QED BY <1>1, <1>2, PTL DEF BackgroundSpec

(***************************************************************************)
(* The property OnExitRunsOnce of Background, whatever Lua does where.     *)
(***************************************************************************)
THEOREM OnExitRunsOnceHolds == BackgroundSpec => []OnExitRunsOnce
<1>1. BackgroundInv => OnExitRunsOnce
  BY DEF BackgroundInv, Counted, OnExitRunsOnce
<1> QED BY <1>1, BackgroundInvHolds, PTL

(***************************************************************************)
(* The property LastWordHolds of Background, for any number of peers'      *)
(* requests, waits and commands.                                           *)
(***************************************************************************)
THEOREM LastWordHoldsAlways == BackgroundSpec => []LastWordHolds
<1>1. BackgroundInv => LastWordHolds
  <2> SUFFICES ASSUME BackgroundInv, peer.wanted = NoDir,
                      \A i \in DOMAIN turn.todo : turn.todo[i].do # "move"
               PROVE  turn.cwd = turn.pwd /\ (turn.pwd = peer.said \/ "newer" \in lost)
    BY DEF LastWordHolds
  <2>1. turn.todo \in Seq(Task)
    BY BackgroundTypes DEF BackgroundInv, TurnState
  <2>2. ~ Facing("move")
    <3> SUFFICES ASSUME ~ AtRest PROVE Head(turn.todo).do # "move"
      BY DEF Facing
    <3>1. 1 \in DOMAIN turn.todo /\ Head(turn.todo) = turn.todo[1]
      BY <2>1, EmptySeq DEF AtRest
    <3> QED BY <3>1
  <2> QED BY <2>2 DEF BackgroundInv, MovesFirst
<1> QED BY <1>1, BackgroundInvHolds, PTL
=============================================================================
