------------------------------ MODULE MCTables ------------------------------
(***************************************************************************)
(* Stamped copies, as every synchronised store promises them, the job      *)
(* table of one shell, and the tables of what was run where, on small      *)
(* instances.  They share no state, so that a behaviour is about one of    *)
(* them, chosen at its start, and the others stay as they began.           *)
(***************************************************************************)
EXTENDS StampedReplicas, JobTable, Prune

VARIABLE part

tables == <<vars, jobVars, pruneVars, part>>

TablesInit == Init /\ JobInit /\ PruneInit /\ part \in {"stamps", "jobs", "directory", "line"}

OfStamps(step) == part = "stamps" /\ step /\ UNCHANGED <<jobVars, pruneVars, part>>
\* A bound: only an interactive shell has children that no job of it knows.
OfJobs(step) ==
  /\ part = "jobs" /\ step
  /\ interactive \/ table'.orphans = {}
  /\ UNCHANGED <<vars, pruneVars, part>>

\* A bound: one directory under one id, with every line, or one line.
OfRuns(step) ==
  /\ part \in {"directory", "line"} /\ step
  /\ part = "directory" => track'.next <= 2
  /\ part = "line" => \A r \in Filed(track') : r[2] = (CHOOSE l \in Typed : TRUE)
  /\ UNCHANGED <<vars, jobVars, part>>

TablesNext == OfStamps(Next) \/ OfJobs(JobNext) \/ OfRuns(PruneNext)

\* The fairness of JobFairSpec, while the behaviour is about jobs.
TablesSpec ==
  /\ TablesInit /\ [][TablesNext]_tables
  /\ WF_tables(OfJobs(Proceed)) /\ WF_tables(OfJobs(Block)) /\ WF_tables(OfJobs(Command))
=============================================================================
