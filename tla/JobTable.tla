------------------------------ MODULE JobTable ------------------------------
(***************************************************************************)
(* The shell's children and its job table (exec/job/).  Children end, stop *)
(* and continue whenever they like; the shell learns of it only by asking  *)
(* the kernel, at the boundary before each command (exec/job/reap.rs), in  *)
(* the wait for a foreground pipeline, in `fg` and in `wait`.              *)
(*                                                                         *)
(* A process that is told once is gone from the kernel: whoever asks after *)
(* that has to find the status in the table.                               *)
(***************************************************************************)
EXTENDS Naturals, Sequences, FiniteSets

CONSTANTS
  MaxPid,       \* how many children the shell has in its life
  MaxJob,       \* the largest job number
  Remembered,   \* REMEMBERED_STATUSES and REMEMBERED_COMPLETIONS
  JobDoing      \* which of the optional operations happen in this instance

JobOptional == 
  {"pipeline", "sigstop", "stray", "disown", "waitnext", "interrupt", "script"}

ASSUME JobAssumption ==
  /\ MaxPid \in Nat \ {0} /\ MaxJob \in Nat \ {0} /\ Remembered \in Nat \ {0}
  /\ MaxPid < 127
  /\ JobDoing \subseteq JobOptional

Pid == 1 .. MaxPid    \* in the order they are forked; no pid is used again
JobId == 1 .. MaxJob

\* A child ends with a status of its own, so that a status says whose it is; 0 is nobody's.
Code == Pid
NoSuchChild == 127

VARIABLES
  proc,         \* what the kernel knows of each child
  table,        \* JobTable, and LIVE_CHILDREN
  shell,        \* what the shell is doing
  interactive   \* whether notices are printed at the boundary, or a script runs

jobVars == <<proc, table, shell, interactive>>

\* "parked" is stopped, and the kernel has told of the stop; "continued" is running, and it
\* has not.  Of a child that is "kept" the shell has the status and told nobody.
ProcState == {"unborn", "running", "continued", "stopped", "parked", "zombie", "kept", "gone"}
Alive == {"running", "continued", "stopped", "parked"}

Job == [state : {"none", "running", "stopped", "completed"}, status : Code \cup {0},
        pids : SUBSET Pid, ended : SUBSET Pid, stages : SUBSET Pid, notified : BOOLEAN]

NoJob == [state |-> "none", status |-> 0, pids |-> {}, ended |-> {}, stages |-> {},
          notified |-> FALSE]

EmptyTable == [job |-> [n \in JobId |-> NoJob], current |-> 0, previous |-> 0,
               statuses |-> <<>>, orphans |-> {}, live |-> 0]

Fresh(place) == [at |-> place, left |-> {}, asked |-> {}, job |-> 0, status |-> 0, stop |-> FALSE]

Least(S) == CHOOSE n \in S : \A m \in S : n <= m

-----------------------------------------------------------------------------
(***************************************************************************)
(* The table's operations (exec/job/table.rs, exec/job/table/ending.rs).   *)
(* Jobs are in the order of their numbers.                                 *)
(***************************************************************************)
Present(t) == {n \in JobId : t.job[n].state # "none"}
Finished(t) == {n \in JobId : t.job[n].state = "completed"}

JobsOf(t, p) == {n \in JobId : p \in t.job[n].pids \cup t.job[n].ended}

\* 0 when no job knows the process.
JobOfPid(t, p) == IF JobsOf(t, p) = {} THEN 0 ELSE Least(JobsOf(t, p))

Expected(t) == UNION {t.job[n].pids : n \in Present(t) \ Finished(t)}

\* Mutant: the disowned are not asked about.
JobsOnly(t) == Expected(t)

ReapablePids(t) == Expected(t) \cup t.orphans

NextJobId(t) ==
  IF Present(t) = {} THEN 1 ELSE 1 + CHOOSE n \in Present(t) : \A m \in Present(t) : m <= n

Promote(t, n) == IF t.current = n THEN t ELSE [t EXCEPT !.previous = t.current, !.current = n]

\* Mutant: a job counts for one child, however many it has.
AddJobAsOne(t, ps, state, told) ==
  LET n == NextJobId(t) IN
  Promote([t EXCEPT !.job[n] = [NoJob EXCEPT !.state = state, !.pids = ps, !.stages = ps,
                                             !.notified = told],
                    !.live = @ + 1], n)

AddJob(t, ps, state, told) ==
  LET n == NextJobId(t) IN
  Promote([t EXCEPT !.job[n] = [NoJob EXCEPT !.state = state, !.pids = ps, !.stages = ps,
                                             !.notified = told],
                    !.live = @ + Cardinality(ps)], n)

\* Mutant: a number goes on meaning the job before the one that left.
RemoveJobUnnamed(t, n) ==
  [t EXCEPT !.job[n] = NoJob,
            !.current = IF @ = n THEN t.previous ELSE @,
            !.orphans = IF t.job[n].state = "completed" THEN @ ELSE @ \cup t.job[n].pids]

\* What a job that has not ended still expects, the shell has to bury all the same.
RemoveJob(t, n) ==
  [t EXCEPT !.job[n] = NoJob,
            !.current = IF @ = n THEN t.previous ELSE @,
            !.previous = IF n \in {t.current, t.previous} THEN 0 ELSE @,
            !.orphans = IF t.job[n].state = "completed" THEN @ ELSE @ \cup t.job[n].pids]

Uncount(t) == [t EXCEPT !.live = IF @ = 0 THEN 0 ELSE @ - 1]

\* The statuses without p's, which is there once at most.
Others(s, p) ==
  IF \A i \in DOMAIN s : s[i].pid # p THEN s
  ELSE LET at == CHOOSE i \in DOMAIN s : s[i].pid = p
       IN [k \in 1 .. Len(s) - 1 |-> s[IF k < at THEN k ELSE k + 1]]

RememberStatus(t, p, c) ==
  LET s == Append(Others(t.statuses, p), [pid |-> p, status |-> c]) IN
  [t EXCEPT !.statuses = IF Len(s) > Remembered THEN Tail(s) ELSE s]

Recalled(t, p) == {t.statuses[i].status : i \in {i \in DOMAIN t.statuses : t.statuses[i].pid = p}}

\* A process of the job is no longer expected; the last one ends the job.
Gone(j, p, c) ==
  LET less == [j EXCEPT !.pids = @ \ {p}, !.ended = @ \cup {p}] IN
  IF less.pids # {} THEN less
  ELSE [less EXCEPT !.state = "completed", !.status = c, !.notified = FALSE]

\* Mutant: a status is kept only for a process some job knows to have been stopped.
FinishUnremembered(t, p, c) ==
  IF p \in t.orphans THEN [Uncount(t) EXCEPT !.orphans = @ \ {p}]
  ELSE LET n == JobOfPid(t, p) IN
       IF n = 0 THEN Uncount(t) ELSE [Uncount(t) EXCEPT !.job[n] = Gone(@, p, c)]

Finish(t, p, c) ==
  IF p \in t.orphans THEN [Uncount(t) EXCEPT !.orphans = @ \ {p}]
  ELSE LET n == JobOfPid(t, p)
           kept == RememberStatus(Uncount(t), p, c) IN
       IF n = 0 THEN kept ELSE [kept EXCEPT !.job[n] = Gone(@, p, c)]

\* The kernel knows nothing of it: gone, and no status left behind.
Abandon(t, p) ==
  IF p \in t.orphans THEN [Uncount(t) EXCEPT !.orphans = @ \ {p}]
  ELSE LET n == JobOfPid(t, p) IN
       IF n = 0 THEN Uncount(t) ELSE [Uncount(t) EXCEPT !.job[n] = Gone(@, p, 0)]

\* `wait` has told of it; a job that expects nothing more leaves the table.
NoteReaped(t, p) ==
  LET n == JobOfPid(t, p)
      less == [t EXCEPT !.job[n].pids = @ \ {p}] IN
  IF n = 0 THEN t ELSE IF less.job[n].pids = {} THEN RemoveJob(less, n) ELSE less

TakeStatus(t, p) == NoteReaped([t EXCEPT !.statuses = Others(@, p)], p)

Stopped(t, p) ==
  LET n == JobOfPid(t, p) IN
  IF n = 0 THEN t
  ELSE [Promote(t, n) EXCEPT !.job[n].state = "stopped", !.job[n].notified = FALSE]

Continued(t, p) ==
  LET n == JobOfPid(t, p) IN IF n = 0 THEN t ELSE [t EXCEPT !.job[n].state = "running"]

-----------------------------------------------------------------------------
(***************************************************************************)
(* The children, and what a waitpid does to them.                          *)
(***************************************************************************)
Children == {p \in Pid : proc[p] \in Alive \cup {"zombie"}}
Zombies == {p \in Pid : proc[p] = "zombie"}
Unborn == {p \in Pid : proc[p] = "unborn"}

Forked(n) == IF Cardinality(Unborn) < n THEN {}
           ELSE {p \in Unborn : Cardinality({q \in Unborn : q < p}) < n}

Become(ps, state) == proc' = [p \in Pid |-> IF p \in ps THEN state ELSE proc[p]]

\* A status that leaves the table's list has been told, or was the oldest of too many.
Left(p) == proc[p] = "kept" /\ Recalled(table, p) # {} /\ Recalled(table', p) = {}
Told(state) == [p \in Pid |-> IF Left(p) THEN "gone" ELSE state[p]]

\* The shell has p's status from the kernel, and keeps it unless p was disowned.
Collect(p) ==
  /\ table' = Finish(table, p, p)
  /\ proc' = Told([proc EXCEPT ![p] = IF p \in table.orphans THEN "gone" ELSE "kept"])

\* The shell takes p's status out of the table, to tell it.
TakeUp(p) == table' = TakeStatus(table, p) /\ proc' = Told(proc)

Ends(p) ==
  /\ proc[p] \in Alive
  /\ Become({p}, "zombie")
  /\ UNCHANGED <<table, shell, interactive>>

\* Ctrl-Z stops the group in the foreground; anybody may send a SIGSTOP.
Foreground ==
  IF shell.at = "pipeline" THEN shell.asked
  ELSE IF shell.at = "foreground" THEN table.job[shell.job].stages ELSE {}

Stops(p) ==
  /\ proc[p] \in {"running", "continued"}
  /\ p \in Foreground \/ "sigstop" \in JobDoing
  /\ Become({p}, "stopped")
  /\ UNCHANGED <<table, shell, interactive>>

Continues(p) ==
  /\ proc[p] \in {"stopped", "parked"}
  /\ Become({p}, "continued")
  /\ UNCHANGED <<table, shell, interactive>>

\* killpg(SIGCONT)
Woken(ps) == {p \in ps : proc[p] \in {"stopped", "parked"}}

-----------------------------------------------------------------------------
(***************************************************************************)
(* The boundary before every command: reap_background_jobs.                *)
(***************************************************************************)
Boundary ==
  /\ shell.at = "boundary"
  /\ shell' = IF table.live = 0 THEN Fresh("ready")
              ELSE [Fresh("reaping") EXCEPT !.left = ReapablePids(table)]
  /\ UNCHANGED <<proc, table, interactive>>

\* One waitpid(WNOHANG | WUNTRACED | WCONTINUED) and what record() makes of it.
Reap ==
  /\ shell.at = "reaping" /\ shell.left # {}
  /\ LET p == Least(shell.left) IN
     /\ shell' = [shell EXCEPT !.left = @ \ {p}]
     /\ \/ /\ proc[p] \in {"running", "parked"}
           /\ UNCHANGED <<proc, table>>
        \/ /\ proc[p] = "zombie"
           /\ Collect(p)
        \/ /\ proc[p] = "stopped"
           /\ table' = Stopped(table, p) /\ Become({p}, "parked")
        \/ /\ proc[p] = "continued"
           /\ table' = Continued(table, p) /\ Become({p}, "running")
        \/ /\ proc[p] \in {"kept", "gone"}
           /\ table' = Abandon(table, p) /\ UNCHANGED proc
  /\ UNCHANGED interactive

\* Removing the jobs of ns, the first of them first.
RetiredUpTo(t, ns) ==
  LET after[n \in 0 .. MaxJob] ==
        IF n = 0 THEN t ELSE IF n \in ns THEN RemoveJob(after[n - 1], n) ELSE after[n - 1]
  IN after

Retired(t, ns) == RetiredUpTo(t, ns)[MaxJob]

Untold(t) == {n \in Present(t) : ~ t.job[n].notified /\ t.job[n].state # "running"}

\* A prompt tells of a stopped job and of an ended one, which it forgets.
Noticed(t) ==
  Retired([t EXCEPT !.job = [n \in JobId |-> IF n \in Untold(t)
                                            THEN [t.job[n] EXCEPT !.notified = TRUE]
                                            ELSE t.job[n]]],
          Untold(t) \cap Finished(t))

\* A script tells nobody, and keeps the newest that have ended.
ForgetStaleCompletions(t) ==
  Retired(t, {n \in Finished(t) :
                Cardinality({m \in Finished(t) : m > n}) >= Remembered})

AnnounceChanges ==
  /\ shell.at = "reaping" /\ shell.left = {}
  /\ table' = IF interactive THEN Noticed(table) ELSE ForgetStaleCompletions(table)
  /\ shell' = Fresh("ready")
  /\ UNCHANGED <<proc, interactive>>

-----------------------------------------------------------------------------
(***************************************************************************)
(* Commands.                                                               *)
(***************************************************************************)
Ready == shell.at = "ready"
Done == shell' = Fresh("boundary")

SpawnBackground ==
  /\ Ready /\ Forked(1) # {} /\ NextJobId(table) \in JobId
  /\ Become(Forked(1), "running")
  /\ table' = AddJob(table, Forked(1), "running", FALSE)
  /\ Done
  /\ UNCHANGED interactive

\* The slow-command notification: a child that is nobody's job.
AdoptStray ==
  /\ "stray" \in JobDoing /\ Ready /\ Forked(1) # {}
  /\ Become(Forked(1), "running")
  /\ table' = [table EXCEPT !.orphans = @ \cup Forked(1), !.live = @ + 1]
  /\ Done
  /\ UNCHANGED interactive

\* A pipeline of n stages in the foreground.
RunPipeline(n) ==
  /\ "pipeline" \in JobDoing /\ Ready /\ Forked(n) # {} /\ NextJobId(table) \in JobId
  /\ Become(Forked(n), "running")
  /\ shell' = [Fresh("pipeline") EXCEPT !.left = Forked(n), !.asked = Forked(n)]
  /\ UNCHANGED <<table, interactive>>

\* Each stage is waited for in turn; one that stops leaves a job of all the stages.
WaitPipeline ==
  /\ shell.at = "pipeline"
  /\ IF shell.left = {}
     THEN /\ table' = IF shell.stop THEN AddJob(table, shell.asked, "stopped", TRUE) ELSE table
          /\ Done
          /\ UNCHANGED proc
     ELSE LET p == Least(shell.left) IN
          \/ /\ proc[p] = "zombie"
             /\ Become({p}, "gone")
             /\ shell' = [shell EXCEPT !.left = @ \ {p}]
             /\ UNCHANGED table
          \/ /\ proc[p] = "stopped"
             /\ Become({p}, "parked")
             /\ shell' = [shell EXCEPT !.left = @ \ {p}, !.stop = TRUE]
             /\ UNCHANGED table
  /\ UNCHANGED interactive

Bg(n) ==
  /\ Ready /\ n \in Present(table) \ Finished(table)
  /\ table' = Promote([table EXCEPT !.job[n].state = "running", !.job[n].notified = TRUE], n)
  /\ Become(Woken(table.job[n].stages), "continued")
  /\ Done
  /\ UNCHANGED interactive

\* foreground_job: what the job expects is read before it is woken.
Fg(n) ==
  /\ Ready /\ n \in Present(table)
  /\ table' = Promote([table EXCEPT !.job[n].state = "running", !.job[n].notified = TRUE], n)
  /\ Become(Woken(table.job[n].stages), "continued")
  /\ shell' = [Fresh("foreground") EXCEPT !.job = n, !.left = table.job[n].pids]
  /\ UNCHANGED interactive

WaitForeground ==
  /\ shell.at = "foreground"
  /\ IF shell.left = {}
     THEN /\ table' = RemoveJob(table, shell.job)
          /\ Done
          /\ UNCHANGED proc
     ELSE LET p == Least(shell.left) IN
          \/ /\ proc[p] \in {"zombie", "kept", "gone"}
             /\ Become({p} \cap Zombies, "gone")
             /\ shell' = [shell EXCEPT !.left = @ \ {p}]
             /\ UNCHANGED table
          \/ /\ proc[p] = "stopped"
             /\ Become({p}, "parked")
             /\ table' = [table EXCEPT !.job[shell.job].state = "stopped",
                                       !.job[shell.job].notified = TRUE]
             /\ Done
  /\ UNCHANGED interactive

Disown(n) ==
  /\ "disown" \in JobDoing /\ Ready /\ n \in Present(table)
  /\ \/ table' = RemoveJob(table, n)
     \/ table' = [table EXCEPT !.job[n].notified = TRUE]  \* disown -h
  /\ Done
  /\ UNCHANGED <<proc, interactive>>

\* `jobs` lists every job, and forgets those that have ended.
Jobs ==
  /\ Ready /\ Present(table) # {}
  /\ table' = Retired(table, Finished(table))
  /\ Done
  /\ UNCHANGED <<proc, interactive>>

-----------------------------------------------------------------------------
(***************************************************************************)
(* wait (env/builtins/jobs/wait.rs): the table is asked before the kernel. *)
(***************************************************************************)
AnswerWith(ps, c) == shell' = [Fresh("answered") EXCEPT !.asked = ps, !.status = c]

Waiting(how, ps) == shell' = [Fresh(how) EXCEPT !.left = ps, !.asked = ps, !.status = NoSuchChild]

\* `wait $p`, and `wait -n $p`.
WaitPid(p, how) ==
  /\ Ready /\ proc[p] # "unborn"
  /\ \/ /\ Recalled(table, p) = {}
        /\ Waiting(how, {p}) /\ UNCHANGED <<proc, table>>
     \/ \E c \in Recalled(table, p) : TakeUp(p) /\ AnswerWith({p}, c)
  /\ UNCHANGED interactive

\* `wait %n`, and `wait -n %n`.
WaitJob(n, how) ==
  /\ Ready /\ n \in Present(table)
  /\ IF n \in Finished(table)
     THEN /\ table' = RemoveJob(table, n)
          /\ AnswerWith(table.job[n].stages, table.job[n].status)
     ELSE Waiting(how, table.job[n].pids) /\ UNCHANGED table
  /\ UNCHANGED <<proc, interactive>>

\* wait_for_all_of: each in turn, and the last that answers decides.
WaitOn ==
  /\ shell.at = "wait"
  /\ IF shell.left = {} THEN AnswerWith(shell.asked, shell.status) /\ UNCHANGED <<proc, table>>
     ELSE LET p == Least(shell.left)
              rest(c) == [shell EXCEPT !.left = @ \ {p}, !.asked = {p}, !.status = c]
          IN \/ /\ \E c \in Recalled(table, p) : shell' = rest(c)
                /\ TakeUp(p)
             \/ /\ Recalled(table, p) = {} /\ proc[p] = "zombie"
                /\ table' = NoteReaped(table, p) /\ Become({p}, "gone")
                /\ shell' = rest(p)
             \/ /\ Recalled(table, p) = {} /\ proc[p] \in {"kept", "gone"}
                /\ shell' = [shell EXCEPT !.left = @ \ {p}]
                /\ UNCHANGED <<proc, table>>
  /\ UNCHANGED interactive

\* A bare `wait`: waitpid(-1) until there is no child left.
WaitEverything ==
  /\ Ready
  /\ Waiting("waitall", {})
  /\ UNCHANGED <<proc, table, interactive>>

WaitAll ==
  /\ shell.at = "waitall"
  /\ \/ /\ Children = {} /\ Done /\ UNCHANGED <<proc, table>>
     \/ \E p \in Zombies :
          table' = NoteReaped(table, p) /\ Become({p}, "gone") /\ UNCHANGED shell
  /\ UNCHANGED interactive

\* `wait -n`: a job that has ended already, or the next child that does.
WaitAny ==
  /\ "waitnext" \in JobDoing /\ Ready
  /\ IF Finished(table) # {}
     THEN LET n == Least(Finished(table)) IN
          /\ table' = RemoveJob(table, n)
          /\ AnswerWith(table.job[n].stages, table.job[n].status)
     ELSE Waiting("waitnext", {}) /\ UNCHANGED table
  /\ UNCHANGED <<proc, interactive>>

\* Mutant: the status of a child reaped on the way to another is thrown away.
WaitFirstDropping ==
  /\ shell.at = "waitnext"
  /\ \/ /\ Children = {} /\ AnswerWith(shell.asked, NoSuchChild) /\ UNCHANGED <<proc, table>>
     \/ \E p \in Zombies :
          /\ table' = NoteReaped(table, p)
          /\ IF shell.asked = {} \/ p \in shell.asked
             THEN Become({p}, "gone") /\ AnswerWith({p}, p)
             ELSE Become({p}, IF p \in table.orphans THEN "gone" ELSE "kept") /\ UNCHANGED shell
  /\ UNCHANGED interactive

\* wait_first_of: a child that was not asked for is kept for whoever asks.
WaitFirst ==
  /\ shell.at = "waitnext"
  /\ \/ /\ Children = {} /\ AnswerWith(shell.asked, NoSuchChild) /\ UNCHANGED <<proc, table>>
     \/ \E p \in Zombies :
          IF shell.asked = {} \/ p \in shell.asked
          THEN /\ table' = NoteReaped(table, p) /\ Become({p}, "gone")
               /\ AnswerWith({p}, p)
          ELSE Collect(p) /\ UNCHANGED shell
  /\ UNCHANGED interactive

\* A trapped signal ends a wait that is blocked.
Interrupt ==
  /\ "interrupt" \in JobDoing
  /\ \/ shell.at = "wait" /\ shell.left # {} /\ proc[Least(shell.left)] \in Alive
     \/ shell.at \in {"waitall", "waitnext"} /\ Children # {} /\ Zombies = {}
  /\ Done
  /\ UNCHANGED <<proc, table, interactive>>

Return ==
  /\ shell.at = "answered" /\ Done
  /\ UNCHANGED <<proc, table, interactive>>

-----------------------------------------------------------------------------
JobInit ==
  /\ proc = [p \in Pid |-> "unborn"]
  /\ table = EmptyTable
  /\ shell = Fresh("boundary")
  /\ interactive \in IF "script" \in JobDoing THEN BOOLEAN ELSE {TRUE}

Child(p) == Ends(p) \/ Stops(p) \/ Continues(p)

\* What the shell does by itself, whatever is typed.
Proceed == Boundary \/ Reap \/ AnnounceChanges \/ Return

Block == WaitPipeline \/ WaitForeground \/ WaitOn \/ WaitAll \/ WaitFirst

Command ==
  \/ SpawnBackground \/ AdoptStray \/ Jobs \/ WaitEverything \/ WaitAny
  \/ \E n \in {1, 2} : RunPipeline(n)
  \/ \E n \in JobId : Bg(n) \/ Fg(n) \/ Disown(n)
  \/ \E how \in {"wait"} \cup ({"waitnext"} \cap JobDoing) :
       (\E p \in Pid : WaitPid(p, how)) \/ (\E n \in JobId : WaitJob(n, how))

JobNext ==
  \/ \E p \in Pid : Child(p)
  \/ Proceed \/ Block \/ Command \/ Interrupt

JobSpec == JobInit /\ [][JobNext]_jobVars

\* The shell runs, and whoever types goes on typing: nothing makes a child end.
JobFairSpec ==
  JobSpec /\ WF_jobVars(Proceed) /\ WF_jobVars(Block) /\ WF_jobVars(Command)

-----------------------------------------------------------------------------
\* The numbers `%%` and `%-` mean are jobs, and two of them.
NamesAgree ==
  /\ {table.current, table.previous} \subseteq Present(table) \cup {0}
  /\ table.current = table.previous => table.current = 0

\* A process is one job's, and what a job expects or saw end is among its stages.
JobsAgree ==
  /\ \A n \in JobId :
       LET j == table.job[n] IN
       /\ j \in Job
       /\ j.state = "none" => j = NoJob
       /\ j.state = "completed" => j.pids = {}
       /\ j.pids \cup j.ended \subseteq j.stages
       /\ j.pids \cap j.ended = {} /\ j.pids \cap table.orphans = {}
       /\ \A p \in j.stages : proc[p] # "unborn"
       /\ \A m \in JobId \ {n} : j.stages \cap table.job[m].stages = {}
  /\ table.orphans \subseteq Pid /\ table.live \in Nat
  /\ \A p \in table.orphans : proc[p] # "unborn"

JobTypeOK ==
  /\ proc \in [Pid -> ProcState]
  /\ shell \in [at : {"boundary", "reaping", "ready", "pipeline", "foreground", "wait",
                      "waitall", "waitnext", "answered"},
                 left : SUBSET Pid, asked : SUBSET Pid, job : JobId \cup {0},
                 status : Code \cup {0, NoSuchChild}, stop : BOOLEAN]
  /\ interactive \in BOOLEAN

(***************************************************************************)
(* LIVE_CHILDREN is never behind what the reaper has to ask about, so that *)
(* the early return of reap_background_jobs, taken when it is zero, leaves *)
(* nobody unburied.                                                        *)
(***************************************************************************)
NothingUncounted == Cardinality(ReapablePids(table)) <= table.live

(***************************************************************************)
(* What the jobs, `%%` and `%-`, the list of disowned children and the     *)
(* count of living ones say of one another agrees, through every order in  *)
(* which children end and commands are given: a process is expected in one *)
(* place only, and is counted.                                             *)
(***************************************************************************)
JobInv == JobTypeOK /\ JobsAgree /\ NamesAgree /\ NothingUncounted

(***************************************************************************)
(* A status the shell had from the kernel is in the table exactly as long  *)
(* as nobody was told of it: "a status consumed twice is a `wait` that     *)
(* lies" (ending.rs), and one dropped is a `wait` that says 127.           *)
(***************************************************************************)
StatusesAgree ==
  /\ table.statuses \in Seq([pid : Pid, status : Code])
  /\ \A i \in DOMAIN table.statuses :
       LET s == table.statuses[i] IN
       /\ s.status = s.pid
       /\ \A k \in DOMAIN table.statuses : table.statuses[k].pid = s.pid => k = i
  /\ \A p \in Pid : proc[p] = "kept" <=> Recalled(table, p) # {}

(***************************************************************************)
(* What `wait` answers for one process is that process's own status; it    *)
(* says "not a child of this shell" only of processes whose status has     *)
(* been told, or was the oldest of too many.                               *)
(***************************************************************************)
WaitTellsTheTruth ==
  shell.at = "answered" =>
    IF shell.status = NoSuchChild
    THEN \A p \in shell.asked : proc[p] = "gone"
    ELSE Cardinality(shell.asked) = 1 => \A p \in shell.asked : shell.status = p

(***************************************************************************)
(* While commands go on being given, no child that has ended stays a       *)
(* zombie: not one that was disowned, nor a stage the foreground gave up,  *)
(* nor the detached notification ("a zombie for the rest of the session"). *)
(***************************************************************************)
EveryChildIsBuried ==
  []<>Ready => \A p \in Pid : proc[p] = "zombie" ~> proc[p] # "zombie"
=============================================================================
