---------------------------- MODULE MCProcesses ----------------------------
(***************************************************************************)
(* What the processes of one shell do to one another: forking, a scratch   *)
(* session, and a watch with its command, on small instances.  They share  *)
(* no state, so that a behaviour is about one of them, chosen at its       *)
(* start, and the others stay as they began.                               *)
(***************************************************************************)
EXTENDS ForkGate, Scratch, Watch

CONSTANTS base, root, sub

MCParent == [d \in {root, sub} |-> IF d = sub THEN root ELSE base]

VARIABLE part

processes == <<vars, scratchVars, watchVars, part>>

ProcessesInit ==
  /\ Init /\ ScratchInit /\ WatchInit
  /\ \/ part = "watch"
     \/ part \in {"gate", "scratch"} /\ worker.policy = "coalesce"

OfGate(step) == part = "gate" /\ step /\ UNCHANGED <<scratchVars, watchVars, part>>
OfScratch(step) == part = "scratch" /\ step /\ UNCHANGED <<vars, watchVars, part>>
OfWatch(step) == part = "watch" /\ step /\ UNCHANGED <<vars, scratchVars, part>>

ProcessesNext == OfGate(Next) \/ OfScratch(ScratchNext) \/ OfWatch(WatchNext)

\* The fairness of FairSpec, ScratchFairSpec and WatchFairSpec, of the part that moves.
ProcessesSpec ==
  /\ ProcessesInit /\ [][ProcessesNext]_processes
  /\ \A p \in Process :
       /\ \A t \in Thread : WF_processes(OfGate(Continue(p, t)))
       /\ WF_processes(OfGate(Forking(p)))
       /\ WF_processes(OfGate(Enter(p, Writer))) /\ WF_processes(OfGate(Answer(p)))
  /\ \A t \in Terminal : WF_processes(OfScratch(~ disturbed /\ ReadEnd(t)))
  /\ \A k \in Keeper :
       WF_processes(OfScratch(~ disturbed /\ Accept(k))) /\ WF_processes(OfScratch(~ disturbed /\ HearEnd(k)))
  /\ WF_processes(OfWatch(Works)) /\ WF_processes(OfWatch(DebouncePasses))
  /\ WF_processes(OfWatch(worker.policy = "coalesce" /\ ChildEnds))
=============================================================================
