-------------------------- MODULE HistoryRowsProofs --------------------------
(***************************************************************************)
(* Proofs about what becomes of a line and of its row, for any number of   *)
(* shells: when a trim may run without a live line losing its row, that a  *)
(* command's outcome finds the command's own row and event, and that the   *)
(* aggregate counts every run an event claims.                             *)
(***************************************************************************)
EXTENDS HistoryLogProofs

(***************************************************************************)
(* An instance does only what Doing names.                                 *)
(***************************************************************************)
Allowed ==
  {job \in Job : /\ job.op = "drop" => "refuse" \in Doing
                 /\ job.op = "trim" => "trim" \in Doing}

ShellDoes(st) ==
  /\ st.pc \in {"clearing", "clearing_runs"} => "clear" \in Doing
  /\ st.pc \in {"forgetting", "forgetting_log"} => "forget" \in Doing
  /\ st.pc = "leaving" => "trim" \in Doing

OnlyDoing ==
  /\ queue \in [Shell -> Seq(Allowed)]
  /\ \A sh \in Shell : ShellDoes(shell[sh])
  /\ \A sh \in Shell : trim[sh] # Idle => "trim" \in Doing
  /\ cli # {} => "cli" \in Doing

\* What is queued for a line is allowed, and so is its removal if refusing is.
LEMMA JobsAllowed ==
  ASSUME Threads, NEW sh \in Shell, shell[sh].pc \in {"running", "clearing_runs"}
  PROVE  /\ Uncount(sh) \in Seq(Allowed)
         /\ "refuse" \in Doing => RefusedJobs(sh) \in Seq(Allowed)
         /\ \A to \in Dir, text \in Line, status \in Status :
              AsTypedJobs(sh, to, text, status) \in Seq(Allowed)
         /\ \A to \in Dir, text \in Line, kept \in Kept, status \in Status :
              KeptJobs(sh, to, text, kept, status) \in Seq(Allowed)
<1>1. ASSUME NEW status, NEW jobs \in Seq(JobOf(shell[sh].id, status))
      PROVE  jobs \in Seq(Allowed)
  <2> DEFINE own == JobOf(shell[sh].id, status)
  <2>1. own \subseteq Allowed /\ jobs \in Seq(own)
    BY DEF JobOf, Allowed
  <2> HIDE DEF own
  <2> QED BY <2>1, WiderJobs
<1>2. Uncount(sh) \in Seq(Allowed)
  BY <1>1, JobsOfLine
<1>3. ASSUME "refuse" \in Doing PROVE RefusedJobs(sh) \in Seq(Allowed)
  <2>1. [op |-> "drop", id |-> shell[sh].id] \in Allowed
    BY <1>3, JobsOfLine DEF Allowed
  <2> QED BY <1>2, <2>1, AppendProperties DEF RefusedJobs
<1>4. ASSUME NEW to \in Dir, NEW text \in Line, NEW status \in Status
      PROVE  AsTypedJobs(sh, to, text, status) \in Seq(Allowed)
  BY <1>1, JobsOfLine
<1>5. ASSUME NEW to \in Dir, NEW text \in Line, NEW kept \in Kept, NEW status \in Status
      PROVE  KeptJobs(sh, to, text, kept, status) \in Seq(Allowed)
  BY <1>1, JobsOfLine
<1> QED BY <1>2, <1>3, <1>4, <1>5

\* A command that ends returns to the prompt with one of those lists.
LEMMA FinishReturns ==
  ASSUME Threads, NEW sh \in Shell, Finish(sh)
  PROVE  \E to \in Dir, status \in Status : \E jobs \in Seq(JobOf(shell[sh].id, status)) :
           /\ Return(sh, to, jobs)
           /\ result' = [result EXCEPT ![shell[sh].event] = status]
<1>1. shell[sh].pc = "running" /\ shell[sh].line \in Line
  BY LineUnderWay DEF Finish
<1>2. Texts(sh) \subseteq Line
  BY <1>1 DEF Texts
<1>3. PICK to \in Dir, text \in Texts(sh), status \in Status :
        /\ \/ Return(sh, to, AsTypedJobs(sh, to, text, status))
           \/ \E kept \in Kept : Return(sh, to, KeptJobs(sh, to, text, kept, status))
        /\ result' = [result EXCEPT ![shell[sh].event] = status]
  BY DEF Finish
<1>4. PICK jobs \in Seq(JobOf(shell[sh].id, status)) : Return(sh, to, jobs)
  BY <1>1, <1>2, <1>3, JobsOfLine
<1> QED BY <1>3, <1>4

\* A shell that returns to the prompt does nothing out of the ordinary.
LEMMA ReturnOnly ==
  ASSUME Threads, OnlyDoing, NEW sh \in Shell, NEW to, NEW jobs \in Seq(Allowed),
         Return(sh, to, jobs), UNCHANGED <<trim, cli>>
  PROVE  OnlyDoing'
<1>1. queue[sh] \o jobs \in Seq(Allowed)
  BY ConcatProperties DEF OnlyDoing
<1>2. queue' \in [Shell -> Seq(Allowed)]
  BY <1>1 DEF Return, OnlyDoing
<1>3. \A other \in Shell : ShellDoes(shell'[other])
  BY DEF Return, ShellDoes, AtPrompt, OnlyDoing, Threads
<1> QED BY <1>2, <1>3 DEF OnlyDoing

\* A job that is done leaves allowed jobs.
LEMMA DequeueOnly ==
  ASSUME Threads, OnlyDoing, NEW sh \in Shell, NEW op, Working(sh, op), Dequeue(sh)
  PROVE  queue' \in [Shell -> Seq(Allowed)]
<1>1. Tail(queue[sh]) \in Seq(Allowed)
  BY HeadTailProperties DEF OnlyDoing, Working
<1> QED BY <1>1 DEF Dequeue, OnlyDoing

\* A trim that has ended is no trim.
LEMMA EndTrimOnly ==
  ASSUME Threads, OnlyDoing, NEW sh \in Shell, EndTrim(sh), UNCHANGED cli
  PROVE  OnlyDoing'
<1>1. queue' \in [Shell -> Seq(Allowed)]
  BY DequeueOnly DEF EndTrim, OnlyDoing
<1>2. \A other \in Shell : ShellDoes(shell'[other])
  <2>1. CASE shell' = shell
    BY <2>1 DEF OnlyDoing
  <2>2. CASE shell' = [shell EXCEPT ![sh] = AtPrompt(shell[sh].dir)]
    BY <2>2 DEF ShellDoes, AtPrompt, OnlyDoing, Threads
  <2> QED BY <2>1, <2>2 DEF EndTrim
<1>3. \A other \in Shell : trim'[other] # Idle => trim[other] # Idle
  BY DEF EndTrim, Threads
<1> QED BY <1>1, <1>2, <1>3 DEF OnlyDoing

\* The prompt's steps keep to it.
LEMMA PromptOnly ==
  ASSUME Threads, OnlyDoing, NEW sh \in Shell, Prompt(sh) \/ Continue(sh)
  PROVE  OnlyDoing'
<1>1. CASE \E line \in Line : Enter(sh, line)
  <2>1. PICK line \in Line : Enter(sh, line)
    BY <1>1
  <2>2. ASSUME "trim" \in Doing PROVE Append(queue[sh], [op |-> "trim"]) \in Seq(Allowed)
    <3>1. [op |-> "trim"] \in Allowed
      BY <2>2 DEF Allowed, Job
    <3> QED BY <3>1, AppendProperties DEF OnlyDoing
  <2>3. queue' \in [Shell -> Seq(Allowed)]
    BY <2>1, <2>2 DEF Enter, OnlyDoing
  <2>4. \A other \in Shell : ShellDoes(shell'[other])
    BY <2>1 DEF Enter, ShellDoes, OnlyDoing, Threads, ShellState
  <2> QED BY <2>1, <2>3, <2>4 DEF OnlyDoing, Enter
<1>2. CASE Finish(sh)
  <2>1. PICK to \in Dir, status \in Status :
          \E jobs \in Seq(JobOf(shell[sh].id, status)) : Return(sh, to, jobs)
    BY <1>2, FinishReturns
  <2> DEFINE own == JobOf(shell[sh].id, status)
  <2>2. PICK jobs \in Seq(own) : Return(sh, to, jobs)
    BY <2>1
  <2>3. own \subseteq Allowed
    BY DEF JobOf, Allowed
  <2> HIDE DEF own
  <2>4. jobs \in Seq(Allowed)
    BY <2>3, WiderJobs
  <2> QED BY <1>2, <2>2, <2>4, ReturnOnly DEF Finish
<1>3. CASE Refuse(sh)
  <2>1. PICK to \in Dir : Return(sh, to, RefusedJobs(sh))
    BY <1>3 DEF Refuse
  <2>2. RefusedJobs(sh) \in Seq(Allowed)
    BY <1>3, JobsAllowed DEF Refuse
  <2> QED BY <1>3, <2>1, <2>2, ReturnOnly DEF Refuse
<1>4. CASE BeginClear(sh) \/ Leave(sh) \/ ClearRows(sh)
  <2>1. \A other \in Shell \ {sh} : shell'[other] = shell[other]
    BY <1>4 DEF BeginClear, Leave, ClearRows, Threads
  <2>2. \/ shell'[sh].pc = "clearing" /\ "clear" \in Doing
        \/ shell'[sh].pc = "leaving" /\ "trim" \in Doing
        \/ shell'[sh].pc = "clearing_runs" /\ shell[sh].pc = "clearing"
    BY <1>4 DEF BeginClear, Leave, ClearRows, Threads, ShellState
  <2>3. ShellDoes(shell'[sh])
    BY <2>2 DEF OnlyDoing, ShellDoes
  <2>4. \A other \in Shell : ShellDoes(shell'[other])
    BY <2>1, <2>3 DEF OnlyDoing
  <2> QED BY <1>4, <2>4 DEF BeginClear, Leave, ClearRows, OnlyDoing
<1>5. CASE ClearRuns(sh)
  BY <1>5, JobsAllowed, ReturnOnly DEF ClearRuns
<1>6. CASE (\E line \in Line : ForgetLine(sh, line)) \/ ReadForgotten(sh) \/ Count(sh)
  <2>1. PICK pc \in {"forgetting", "forgetting_log", "running"} :
          /\ \A other \in Shell \ {sh} : shell'[other] = shell[other]
          /\ shell'[sh].pc = pc
          /\ pc # "running" => "forget" \in Doing
    <3>1. shell[sh] \in ShellState /\ ShellDoes(shell[sh])
      BY DEF Threads, OnlyDoing
    <3>2. CASE \E line \in Line : ForgetLine(sh, line)
      BY <3>1, <3>2 DEF ForgetLine, Threads, ShellState
    <3>3. CASE ReadForgotten(sh)
      BY <3>1, <3>3 DEF ReadForgotten, Threads, ShellState, ShellDoes
    <3>4. CASE Count(sh)
      BY <3>1, <3>4 DEF Count, Threads, ShellState
    <3> QED BY <1>6, <3>2, <3>3, <3>4
  <2>2. \A other \in Shell : ShellDoes(shell'[other])
    BY <2>1 DEF ShellDoes, OnlyDoing
  <2> QED BY <1>6, <2>2 DEF ForgetLine, ReadForgotten, Count, OnlyDoing
<1>7. CASE ForgetLog(sh)
  <2>1. <<>> \in Seq(Allowed)
    OBVIOUS
  <2> QED BY <1>7, <2>1, ReturnOnly DEF ForgetLog
<1> QED BY <1>1, <1>2, <1>3, <1>4, <1>5, <1>6, <1>7 DEF Prompt, Continue

\* The writer's steps keep to it.
LEMMA WriteOnly ==
  ASSUME Threads, OnlyDoing, NEW sh \in Shell, Write(sh)
  PROVE  OnlyDoing'
<1>1. CASE RunBoundary(sh) \/ RunAlsoRan(sh) \/ RunForgetEntered(sh) \/ RunOnRow(sh)
             \/ SkipTrim(sh)
  <2>1. queue' \in [Shell -> Seq(Allowed)]
    BY <1>1, DequeueOnly DEF RunBoundary, RunAlsoRan, RunForgetEntered, RunOnRow, SkipTrim
  <2>2. \A other \in Shell : shell'[other].pc = shell[other].pc
    <3>1. \/ shell' = shell
          \/ \E dir : shell' = [shell EXCEPT ![sh].current = dir]
      BY <1>1 DEF RunBoundary, RunAlsoRan, RunForgetEntered, RunOnRow, SkipTrim
    <3>2. ASSUME NEW dir, shell' = [shell EXCEPT ![sh].current = dir]
          PROVE  \A other \in Shell : shell'[other].pc = shell[other].pc
      <4>1. [shell[sh] EXCEPT !.current = dir].pc = shell[sh].pc
        BY DEF Threads, ShellState
      <4>2. shell'[sh] = [shell[sh] EXCEPT !.current = dir]
            /\ \A other \in Shell \ {sh} : shell'[other] = shell[other]
        BY <3>2 DEF Threads
      <4> QED BY <4>1, <4>2
    <3> QED BY <3>1, <3>2
  <2>3. UNCHANGED <<trim, cli>>
    BY <1>1 DEF RunBoundary, RunAlsoRan, RunForgetEntered, RunOnRow, SkipTrim
  <2> QED BY <2>1, <2>2, <2>3 DEF OnlyDoing, ShellDoes
<1>2. CASE ReadDoomed(sh)
  <2>1. CASE EndTrim(sh)
    BY <1>2, <2>1, EndTrimOnly DEF ReadDoomed
  <2>2. CASE ~ EndTrim(sh)
    <3>1. "trim" \in Doing
      <4>1. CASE Working(sh, "trim")
        <5>1. Head(queue[sh]) \in Allowed
          BY <4>1, HeadTailProperties DEF Working, OnlyDoing
        <5> QED BY <4>1, <5>1 DEF Working, Allowed
      <4>2. CASE shell[sh].pc = "leaving"
        BY <4>2 DEF OnlyDoing, ShellDoes
      <4> QED BY <1>2, <4>1, <4>2 DEF ReadDoomed
    <3> QED BY <1>2, <2>2, <3>1 DEF ReadDoomed, OnlyDoing
  <2> QED BY <2>1, <2>2
<1>3. CASE HideDoomed(sh) \/ ReadOutcomes(sh) \/ SweepOutcomes(sh)
  <2>1. CASE EndTrim(sh)
    BY <1>3, <2>1, EndTrimOnly DEF HideDoomed, ReadOutcomes, SweepOutcomes
  <2>2. CASE ~ EndTrim(sh)
    <3>1. trim[sh] # Idle /\ UNCHANGED <<shell, queue, cli>>
      BY <1>3, <2>2 DEF HideDoomed, ReadOutcomes, SweepOutcomes, Idle
    <3>2. \A other \in Shell : trim'[other] # Idle => trim[other] # Idle
      BY <1>3, <2>2, <3>1 DEF HideDoomed, ReadOutcomes, SweepOutcomes, Threads
    <3> QED BY <3>1, <3>2 DEF OnlyDoing
  <2> QED BY <2>1, <2>2
<1>4. CASE SweepRows(sh)
  BY <1>4, EndTrimOnly DEF SweepRows
<1> QED BY <1>1, <1>2, <1>3, <1>4 DEF Write

\* So no instance does what Doing does not name.
LEMMA OnlyDoingHolds == Spec => [](LogInv /\ OnlyDoing)
<1>1. Init => LogInv /\ OnlyDoing
  <2> SUFFICES ASSUME Init PROVE OnlyDoing
    BY InitIsSound
  <2>1. <<>> \in Seq(Allowed)
    OBVIOUS
  <2> QED BY <2>1 DEF Init, OnlyDoing, ShellDoes, AtPrompt
<1>2. LogInv /\ OnlyDoing /\ [Next]_vars => (LogInv /\ OnlyDoing)'
  <2> SUFFICES ASSUME LogInv, OnlyDoing, [Next]_vars PROVE OnlyDoing'
    BY EveryStepKeeps
  <2>1. Threads
    BY LogInvParts
  <2>2. CASE \E sh \in Shell : Prompt(sh) \/ Continue(sh)
    BY <2>1, <2>2, PromptOnly
  <2>3. CASE \E sh \in Shell : Write(sh)
    BY <2>1, <2>3, WriteOnly
  <2>4. CASE \E sh \in Shell : Crash(sh)
    <3>1. PICK sh \in Shell : Crash(sh)
      BY <2>4
    <3>2. \A other \in Shell : ShellDoes(shell'[other])
      BY <2>1, <3>1 DEF Crash, ShellDoes, AtPrompt, OnlyDoing, Threads
    <3>3. \A other \in Shell : trim'[other] # Idle => trim[other] # Idle
      BY <2>1, <3>1 DEF Crash, Threads
    <3>4. queue' \in [Shell -> Seq(Allowed)]
      <4>1. <<>> \in Seq(Allowed)
        OBVIOUS
      <4> QED BY <3>1, <4>1 DEF Crash, OnlyDoing
    <3> QED BY <3>1, <3>2, <3>3, <3>4 DEF OnlyDoing, Crash
  <2>5. CASE CliRead \/ CliDelete
    BY <2>5 DEF CliRead, CliDelete, OnlyDoing
  <2>6. CASE UNCHANGED vars
    BY <2>6 DEF vars, OnlyDoing
  <2> QED BY <2>2, <2>3, <2>4, <2>5, <2>6 DEF Next
<1> QED BY <1>1, <1>2, PTL DEF Spec

-----------------------------------------------------------------------------
(***************************************************************************)
(* Who is trimming: the writer, at the job that asked for it, or a shell   *)
(* on its way out whose queue has settled.                                 *)
(***************************************************************************)
Trimming(sh) == Working(sh, "trim") \/ (shell[sh].pc = "leaving" /\ queue[sh] = <<>>)

TrimsGuarded == \A sh \in Shell : trim[sh] # Idle => Trimming(sh)

\* More jobs behind a job leave it the job at hand.
LEMMA StillWorking ==
  ASSUME Threads, NEW sh \in Shell, NEW op, Working(sh, op), NEW jobs \in Seq(Job),
         queue' = [queue EXCEPT ![sh] = @ \o jobs]
  PROVE  Working(sh, op)'
<1>1. queue[sh] \in Seq(Job) /\ queue[sh] # <<>>
  BY DEF Threads, Working
<1>2. queue'[sh] = queue[sh] \o jobs
  BY DEF Threads
<1>3. Len(queue[sh] \o jobs) = Len(queue[sh]) + Len(jobs) /\ Len(queue[sh]) \in Nat \ {0}
      /\ Len(jobs) \in Nat
  BY <1>1, ConcatProperties, LenProperties, EmptySeq
<1>4. queue'[sh] # <<>> /\ Head(queue'[sh]) = Head(queue[sh])
  BY <1>1, <1>2, <1>3
<1> QED BY <1>4 DEF Working

\* A shell other than the one that steps trims on.
LEMMA OthersTrim ==
  ASSUME TrimsGuarded, NEW sh \in Shell,
         \A other \in Shell \ {sh} : /\ shell'[other] = shell[other]
                                     /\ queue'[other] = queue[other]
                                     /\ trim'[other] = trim[other],
         trim'[sh] # Idle => Trimming(sh)'
  PROVE  TrimsGuarded'
<1> SUFFICES ASSUME NEW other \in Shell, trim'[other] # Idle PROVE Trimming(other)'
  BY DEF TrimsGuarded
<1>1. CASE other = sh
  BY <1>1
<1>2. CASE other # sh
  BY <1>2 DEF TrimsGuarded, Trimming, Working
<1> QED BY <1>1, <1>2

\* Nothing the prompt does takes a trim from the writer.
LEMMA PromptGuards ==
  ASSUME Threads, TrimsGuarded, NEW sh \in Shell, Prompt(sh) \/ Continue(sh)
  PROVE  TrimsGuarded'
<1>1. /\ trim' = trim
      /\ \A other \in Shell \ {sh} : shell'[other] = shell[other] /\ queue'[other] = queue[other]
      /\ shell[sh].pc # "leaving"
  BY DEF Prompt, Continue, Enter, ForgetLine, Finish, Refuse, BeginClear, Leave, Count,
         ClearRows, ClearRuns, ReadForgotten, ForgetLog, Return, Threads
<1>2. ASSUME Working(sh, "trim") PROVE Working(sh, "trim")'
  <2>1. CASE queue' = queue
    BY <1>2, <2>1 DEF Working
  <2>2. ASSUME NEW jobs \in Seq(Job), queue' = [queue EXCEPT ![sh] = @ \o jobs]
        PROVE  Working(sh, "trim")'
    BY <1>2, <2>2, StillWorking
  <2>3. CASE \E line \in Line : Enter(sh, line)
    <3>1. CASE "trim" \in Doing
      <4> DEFINE job == [op |-> "trim"]
      <4>1. job \in Job /\ queue' = [queue EXCEPT ![sh] = Append(@, job)]
        BY <2>3, <3>1 DEF Enter, Job
      <4> HIDE DEF job
      <4>2. <<job>> \in Seq(Job) /\ Append(queue[sh], job) = queue[sh] \o <<job>>
        BY <4>1 DEF Threads
      <4> QED BY <2>2, <4>1, <4>2
    <3>2. CASE "trim" \notin Doing
      <4>1. queue' = queue
        BY <2>3, <3>2 DEF Enter, Threads
      <4> QED BY <2>1, <4>1
    <3> QED BY <3>1, <3>2
  <2>4. CASE Finish(sh)
    <3>1. PICK to \in Dir, status \in Status :
            \E jobs \in Seq(JobOf(shell[sh].id, status)) : Return(sh, to, jobs)
      BY <2>4, FinishReturns
    <3> DEFINE own == JobOf(shell[sh].id, status)
    <3>2. PICK jobs \in Seq(own) : Return(sh, to, jobs)
      BY <3>1
    <3>3. own \subseteq Job
      BY DEF JobOf
    <3> HIDE DEF own
    <3>4. jobs \in Seq(Job)
      BY <3>3, WiderJobs
    <3> QED BY <2>2, <3>2, <3>4 DEF Return
  <2>5. CASE Refuse(sh) \/ ClearRuns(sh)
    <3>1. RefusedJobs(sh) \in Seq(Job) /\ Uncount(sh) \in Seq(Job)
      BY <2>5, JobsQueued DEF Refuse, ClearRuns
    <3> QED BY <2>2, <2>5, <3>1 DEF Refuse, ClearRuns, Return
  <2>6. CASE ForgetLog(sh)
    <3>1. <<>> \in Seq(Job)
      OBVIOUS
    <3> QED BY <2>2, <2>6, <3>1 DEF ForgetLog, Return
  <2>7. CASE \/ \E line \in Line : ForgetLine(sh, line)
             \/ BeginClear(sh) \/ Leave(sh) \/ Count(sh) \/ ClearRows(sh) \/ ReadForgotten(sh)
    BY <2>1, <2>7 DEF ForgetLine, BeginClear, Leave, Count, ClearRows, ReadForgotten
  <2> QED BY <2>3, <2>4, <2>5, <2>6, <2>7 DEF Prompt, Continue
<1>3. trim'[sh] # Idle => Trimming(sh)'
  BY <1>1, <1>2 DEF TrimsGuarded, Trimming
<1> QED BY <1>1, <1>3, OthersTrim

\* A job done by the writer was no trim that is still going.
LEMMA JobGuards ==
  ASSUME Threads, TrimsGuarded, NEW sh \in Shell,
         RunBoundary(sh) \/ RunAlsoRan(sh) \/ RunForgetEntered(sh) \/ RunOnRow(sh)
  PROVE  TrimsGuarded' /\ trim[sh] = Idle
<1>1. /\ queue[sh] # <<>> /\ Head(queue[sh]).op # "trim"
      /\ trim' = trim /\ Dequeue(sh)
      /\ \A other \in Shell \ {sh} : shell'[other] = shell[other]
  BY DEF RunBoundary, RunAlsoRan, RunForgetEntered, RunOnRow, Working, Threads
<1>2. trim[sh] = Idle
  BY <1>1 DEF TrimsGuarded, Trimming, Working
<1>3. \A other \in Shell \ {sh} : queue'[other] = queue[other]
  BY <1>1 DEF Dequeue, Threads
<1> QED BY <1>1, <1>2, <1>3, OthersTrim

\* A trim's own steps keep whoever is trimming at it until it has ended.
LEMMA TrimGuards ==
  ASSUME Threads, TrimsGuarded, NEW sh \in Shell,
         \/ SkipTrim(sh) \/ ReadDoomed(sh) \/ HideDoomed(sh) \/ ReadOutcomes(sh)
         \/ SweepOutcomes(sh) \/ SweepRows(sh)
  PROVE  TrimsGuarded'
<1>1. CASE EndTrim(sh)
  <2>1. trim'[sh] = Idle
    BY <1>1 DEF EndTrim, Threads
  <2>2. \A other \in Shell \ {sh} : /\ shell'[other] = shell[other]
                                    /\ queue'[other] = queue[other]
                                    /\ trim'[other] = trim[other]
    BY <1>1 DEF EndTrim, Dequeue, Threads
  <2> QED BY <2>1, <2>2, OthersTrim
<1>2. CASE ~ EndTrim(sh) /\ ~ SkipTrim(sh)
  <2>1. /\ UNCHANGED <<shell, queue>>
        /\ \A other \in Shell \ {sh} : trim'[other] = trim[other]
        /\ trim[sh] = Idle => Trimming(sh)
    BY <1>2 DEF ReadDoomed, HideDoomed, ReadOutcomes, SweepOutcomes, SweepRows, Trimming,
                Threads, Idle
  <2>2. Trimming(sh)'
    BY <2>1 DEF TrimsGuarded, Trimming, Working
  <2> QED BY <2>1, <2>2, OthersTrim
<1>3. CASE SkipTrim(sh)
  <2>1. trim'[sh] = Idle
    BY <1>3 DEF SkipTrim
  <2>2. \A other \in Shell \ {sh} : /\ shell'[other] = shell[other]
                                    /\ queue'[other] = queue[other]
                                    /\ trim'[other] = trim[other]
    BY <1>3 DEF SkipTrim, Dequeue, Threads
  <2> QED BY <2>1, <2>2, OthersTrim
<1> QED BY <1>1, <1>2, <1>3

\* Whoever trims, trims until the end.
LEMMA EveryStepGuards ==
  ASSUME Threads, TrimsGuarded, [Next]_vars
  PROVE  TrimsGuarded'
<1>1. CASE \E sh \in Shell : Prompt(sh) \/ Continue(sh)
  BY <1>1, PromptGuards
<1>2. CASE \E sh \in Shell : Write(sh)
  BY <1>2, JobGuards, TrimGuards DEF Write
<1>3. CASE \E sh \in Shell : Crash(sh)
  <2>1. PICK sh \in Shell : Crash(sh)
    BY <1>3
  <2>2. trim'[sh] = Idle /\ \A other \in Shell \ {sh} : /\ shell'[other] = shell[other]
                                                        /\ queue'[other] = queue[other]
                                                        /\ trim'[other] = trim[other]
    BY <2>1 DEF Crash, Threads
  <2> QED BY <2>2, OthersTrim
<1>4. CASE CliRead \/ CliDelete \/ UNCHANGED vars
  BY <1>4 DEF CliRead, CliDelete, vars, TrimsGuarded, Trimming, Working
<1> QED BY <1>1, <1>2, <1>3, <1>4 DEF Next

-----------------------------------------------------------------------------
(***************************************************************************)
(* What a trim under way relies on: the rows up to its threshold are rows  *)
(* it has read, withheld once it has hidden them, and a newer row stands   *)
(* above them, so that no new row is given one of their ids.               *)
(***************************************************************************)
Bounded(tr, s) ==
  /\ \E i \in Rows(s) : i > tr.from
  /\ \A i \in Rows(s) : i <= tr.from =>
       /\ i \in tr.ids
       /\ tr.step # "hide" => s.projection[s.local[i]].hidden

TrimsBounded == \A sh \in Shell : trim[sh] # Idle => Bounded(trim[sh], store)

\* Where no row goes, a trim's bound holds on.
LEMMA BoundedStays ==
  ASSUME NEW s, NEW t, RowsStay(s, t), NEW tr \in TrimState, Bounded(tr, s)
  PROVE  Bounded(tr, t)
<1>1. PICK above \in Rows(s) : above > tr.from
  BY DEF Bounded
<1>2. above \in Rows(t)
  BY DEF RowsStay
<1>3. ASSUME NEW i \in Rows(t), i <= tr.from
      PROVE  i \in Rows(s)
  <2> SUFFICES ASSUME i \notin Rows(s) PROVE FALSE
    OBVIOUS
  <2>1. above < i
    BY DEF RowsStay
  <2>2. above \in Nat /\ i \in Nat /\ tr.from \in Nat
    BY DEF Rows, LocalId, TrimState
  <2> QED BY <1>1, <1>3, <2>1, <2>2
<1> QED BY <1>1, <1>2, <1>3 DEF Bounded, RowsStay

\* The rows a trim reads are all the rows up to the newest of them, and above
\* it stand the rows that are kept.
LEMMA DoomedAreOldest ==
  ASSUME Sound(store), Doomed(store) # {}
  PROVE  /\ Max(Doomed(store)) \in LocalId
         /\ \E i \in Rows(store) : i > Max(Doomed(store))
         /\ \A i \in Rows(store) : i <= Max(Doomed(store)) => i \in Doomed(store)
<1> DEFINE d == Max(Doomed(store))
           above(i) == {j \in Rows(store) : j > i}
<1>1. Rows(store) \in SUBSET LocalId /\ Doomed(store) \in SUBSET LocalId
  BY DEF Doomed, Rows
<1>2. d \in Doomed(store)
  BY <1>1, NewestIsOne
<1>3. d \in LocalId /\ d \in Rows(store) /\ Cardinality(above(d)) >= MaxRows
  BY <1>1, <1>2 DEF Doomed
<1> HIDE DEF d
<1>4. ASSUME NEW i PROVE IsFiniteSet(above(i)) /\ Cardinality(above(i)) \in Nat
  <2>1. IsFiniteSet(LocalId)
    BY HistoryAssumption, FS_Interval DEF LocalId
  <2>2. above(i) \subseteq LocalId
    BY <1>1
  <2> QED BY <2>1, <2>2, FS_Subset, FS_CardinalityType
<1>5. \E i \in Rows(store) : i > d
  <2>1. above(d) # {}
    <3> SUFFICES ASSUME above(d) = {} PROVE FALSE
      OBVIOUS
    <3>1. Cardinality(above(d)) = 0
      BY FS_EmptySet
    <3> QED BY <1>3, <3>1, LogAssumption
  <2> QED BY <2>1
<1>6. ASSUME NEW i \in Rows(store), i <= d PROVE i \in Doomed(store)
  <2>1. above(d) \subseteq above(i)
    BY <1>1, <1>3, <1>6 DEF LocalId
  <2>2. Cardinality(above(d)) <= Cardinality(above(i))
    BY <1>4, <2>1, FS_Subset
  <2>3. Cardinality(above(d)) \in Nat /\ Cardinality(above(i)) \in Nat
        /\ Cardinality(above(d)) >= MaxRows /\ MaxRows \in Nat
    BY <1>3, <1>4, LogAssumption
  <2> DEFINE few == Cardinality(above(d))
             many == Cardinality(above(i))
  <2> HIDE DEF few, many
  <2>4. many >= MaxRows
    <3>1. few \in Nat /\ many \in Nat /\ few >= MaxRows /\ few <= many
      BY <2>2, <2>3 DEF few, many
    <3> QED BY <2>3, <3>1
  <2> QED BY <2>4 DEF Doomed, many
<1> QED BY <1>3, <1>5, <1>6 DEF d

\* One shell's trim goes on; the others' are as bounded as they were.
LEMMA TrimsStayBounded ==
  ASSUME TrimsBounded, Threads, NEW sh \in Shell, RowsStay(store, store'),
         \A other \in Shell \ {sh} : trim'[other] = trim[other],
         trim'[sh] # Idle => Bounded(trim'[sh], store')
  PROVE  TrimsBounded'
<1> SUFFICES ASSUME NEW other \in Shell, trim'[other] # Idle
             PROVE  Bounded(trim'[other], store')
  BY DEF TrimsBounded
<1>1. trim[other] \in TrimState
  BY DEF Threads
<1>2. CASE other = sh
  BY <1>2
<1>3. CASE other # sh
  BY <1>1, <1>3, BoundedStays DEF TrimsBounded
<1> QED BY <1>2, <1>3

\* Reading what to trim, and the steps that only move a trim on.
LEMMA ReadsStayBounded ==
  ASSUME Sound(store), TrimsBounded, Threads, NEW sh \in Shell,
         \/ SkipTrim(sh) \/ ReadDoomed(sh) \/ ReadOutcomes(sh) \/ SweepOutcomes(sh)
  PROVE  TrimsBounded' /\ RowsStay(store, store')
<1>1. RowsStay(store, store')
  <2>1. CASE SweepOutcomes(sh)
    <3>1. /\ store'.history = store.history /\ store'.local = store.local
          /\ store'.projection = store.projection
      BY <2>1 DEF SweepOutcomes, DropOutcomes, Sound, Store
    <3> QED BY <3>1, SameRowsStay
  <2>2. CASE SkipTrim(sh) \/ ReadDoomed(sh) \/ ReadOutcomes(sh)
    <3>1. store' = store
      BY <2>2 DEF SkipTrim, ReadDoomed, ReadOutcomes
    <3> QED BY <3>1, SameRowsStay
  <2> QED BY <2>1, <2>2
<1>2. \A other \in Shell \ {sh} : trim'[other] = trim[other]
  BY DEF SkipTrim, ReadDoomed, ReadOutcomes, SweepOutcomes, EndTrim, Threads
<1>3. trim[sh] \in TrimState
  BY DEF Threads
<1>4. CASE SkipTrim(sh)
  <2>1. trim'[sh] = Idle
    BY <1>4 DEF SkipTrim
  <2> QED BY <1>1, <1>2, <2>1, TrimsStayBounded
<1>5. CASE ReadDoomed(sh)
  <2>1. CASE Doomed(store) = {}
    <3>1. trim'[sh] = Idle
      BY <1>5, <2>1 DEF ReadDoomed, EndTrim, Threads
    <3> QED BY <1>1, <1>2, <3>1, TrimsStayBounded
  <2>2. CASE Doomed(store) # {}
    <3> DEFINE tr == [Idle EXCEPT !.step = "hide", !.ids = Doomed(store),
                                  !.from = Max(Doomed(store))]
    <3>1. trim'[sh] = tr /\ store' = store
      BY <1>5, <2>2 DEF ReadDoomed, Threads
    <3>2. tr.step = "hide" /\ tr.ids = Doomed(store) /\ tr.from = Max(Doomed(store))
      BY DEF Idle
    <3> HIDE DEF tr
    <3>3. Bounded(tr, store)
      BY <2>2, <3>2, DoomedAreOldest DEF Bounded
    <3> QED BY <1>1, <1>2, <3>1, <3>3, TrimsStayBounded
  <2> QED BY <2>1, <2>2
<1>6. CASE ReadOutcomes(sh) \/ SweepOutcomes(sh)
  <2>1. /\ trim'[sh].ids = trim[sh].ids /\ trim'[sh].from = trim[sh].from
        /\ trim[sh].step # "hide" /\ trim[sh] # Idle
    BY <1>3, <1>6 DEF ReadOutcomes, SweepOutcomes, Threads, TrimState, Idle
  <2>2. Bounded(trim[sh], store')
    BY <1>1, <1>3, <2>1, BoundedStays DEF TrimsBounded
  <2>3. Bounded(trim'[sh], store')
    BY <2>1, <2>2 DEF Bounded
  <2> QED BY <1>1, <1>2, <2>3, TrimsStayBounded
<1> QED BY <1>1, <1>4, <1>5, <1>6

\* Withholding the rows read: every row up to the threshold is withheld now.
LEMMA HideStaysBounded ==
  ASSUME Sound(store), Truthful(store), Threads, TrimsBounded, NEW sh \in Shell,
         HideDoomed(sh)
  PROVE  TrimsBounded' /\ (Standing(store) => Standing(store'))
<1> DEFINE t == HideLocals(store, trim[sh].ids)
<1>1. trim[sh] \in TrimState /\ trim[sh].step = "hide" /\ trim[sh] # Idle
  BY DEF Threads, HideDoomed, Idle
<1>2. CASE t = None
  <2>1. store' = store /\ trim'[sh] = Idle
        /\ \A other \in Shell \ {sh} : trim'[other] = trim[other]
    BY <1>2 DEF HideDoomed, EndTrim, Threads
  <2>2. RowsStay(store, store')
    BY <2>1, SameRowsStay
  <2> QED BY <2>1, <2>2, TrimsStayBounded
<1>3. CASE t # None
  <2>1. /\ store' = t
        /\ trim'[sh].ids = trim[sh].ids /\ trim'[sh].from = trim[sh].from
        /\ \A other \in Shell \ {sh} : trim'[other] = trim[other]
    BY <1>1, <1>3 DEF HideDoomed, Threads, TrimState
  <2>2. trim[sh].ids \in SUBSET LocalId
    BY <1>1 DEF TrimState
  <2>3. /\ t.history = store.history /\ t.local = store.local
        /\ \A i \in trim[sh].ids : t.projection[store.local[i]].hidden
        /\ \A e \in EventId : store.projection[e] # None /\ store.projection[e].hidden
             => t.projection[e].hidden
        /\ Standing(store) => Standing(t)
    BY <1>3, <2>2, HideLocalsTells
  <2> HIDE DEF t
  <2>4. RowsStay(store, t)
    <3>1. \A i \in Rows(store) : store.local[i] \in EventId
                                 /\ store.projection[store.local[i]] # None
      BY EventOfRow, NothingAssumption DEF Rows, Truthful, RowsTrue
    <3> QED BY <2>3, <3>1 DEF RowsStay, Rows
  <2>5. Bounded(trim[sh], t)
    BY <1>1, <2>4, BoundedStays DEF TrimsBounded
  <2>6. Bounded(trim'[sh], t)
    BY <2>1, <2>3, <2>5 DEF Bounded
  <2> QED BY <2>1, <2>3, <2>4, <2>6, TrimsStayBounded
<1> QED BY <1>2, <1>3

\* The rows that go are withheld, and above every other trim's a row is left.
LEMMA SweepStaysBounded ==
  ASSUME Sound(store), Truthful(store), Threads, TrimsBounded, NEW sh \in Shell,
         SweepRows(sh)
  PROVE  TrimsBounded' /\ (Standing(store) => Standing(store'))
<1> DEFINE from == trim[sh].from
           t == DropHistory(store, 1 .. from)
<1>1. trim[sh] \in TrimState /\ trim[sh].step = "rows" /\ trim[sh] # Idle
  BY DEF Threads, SweepRows, Idle
<1>2. store' = t /\ trim'[sh] = Idle
      /\ \A other \in Shell \ {sh} : trim'[other] = trim[other]
  BY DEF SweepRows, EndTrim, Threads
<1>3. /\ t.local = store.local /\ t.event = store.event /\ t.projection = store.projection
      /\ \A i \in LocalId : t.history[i] = IF i \in 1 .. from THEN None ELSE store.history[i]
  BY DEF DropHistory, Sound, Store
<1> HIDE DEF t
<1>4. from \in Nat /\ \A i \in Rows(store) : i \in LocalId /\ i \in Nat /\ i >= 1
  BY <1>1 DEF TrimState, Rows, LocalId
<1>5. \A i \in LocalId : i \in Rows(t) <=> i \in Rows(store) /\ i > from
  BY <1>3, <1>4 DEF Rows, LocalId
<1>6. Bounded(trim[sh], store)
  BY <1>1 DEF TrimsBounded
<1>7. \A i \in LocalId : t.history[i] # store.history[i] =>
        store.projection[store.local[i]].hidden
  BY <1>1, <1>3, <1>4, <1>6 DEF Bounded, Rows
<1>8. Standing(store) => Standing(t)
  BY <1>3, <1>7, RowsGo
<1>9. ASSUME NEW other \in Shell \ {sh}, trim[other] # Idle
      PROVE  Bounded(trim[other], t)
  <2>1. Bounded(trim[other], store) /\ trim[other].from \in Nat
    BY <1>9 DEF TrimsBounded, Threads, TrimState, LocalId
  <2>2. \E i \in Rows(t) : i > trim[other].from
    <3>1. PICK i \in Rows(store) : i > trim[other].from
      BY <2>1 DEF Bounded
    <3>2. PICK j \in Rows(store) : j > from
      BY <1>6 DEF Bounded
    <3>3. CASE i > from
      BY <1>4, <1>5, <3>1, <3>3
    <3>4. CASE ~ (i > from)
      <4>1. j > trim[other].from
        BY <1>4, <2>1, <3>1, <3>2, <3>4
      <4> QED BY <1>4, <1>5, <3>2, <4>1
    <3> QED BY <3>3, <3>4
  <2>3. \A i \in Rows(t) : i \in Rows(store)
    BY <1>5 DEF Rows
  <2> QED BY <1>3, <2>1, <2>2, <2>3 DEF Bounded
<1>10. TrimsBounded'
  BY <1>2, <1>9 DEF TrimsBounded
<1> QED BY <1>2, <1>8, <1>10

(***************************************************************************)
(* A trim is alone with its rows where nothing is trimmed, where nothing   *)
(* is deleted, and where the only shell there is deletes through the queue *)
(* that trims.                                                             *)
(***************************************************************************)
TrimAlone ==
  \/ "trim" \notin Doing
  \/ /\ "forget" \notin Doing /\ "cli" \notin Doing
     /\ \/ "refuse" \notin Doing /\ "clear" \notin Doing
        \/ \E sh \in Shell : Shell = {sh}

LinesInv ==
  /\ RowsInv /\ OnlyDoing /\ TrimsGuarded
  /\ Standing(store)
  /\ IF "trim" \in Doing THEN TrimsBounded ELSE Shown(store)

\* Deleting a line never comes between the steps of a trim.
LEMMA DeletionsAlone ==
  ASSUME TrimAlone, "trim" \in Doing, LinesInv, NEW sh \in Shell,
         ClearRows(sh) \/ ForgetLog(sh) \/ (RunOnRow(sh) /\ Working(sh, "drop"))
  PROVE  TrimsBounded'
<1>1. Threads /\ OnlyDoing /\ TrimsGuarded
  BY LogInvParts DEF LinesInv, RowsInv
<1>2. ~ ForgetLog(sh)
  BY <1>1 DEF TrimAlone, ForgetLog, OnlyDoing, ShellDoes
<1>3. ClearRows(sh) => "clear" \in Doing
  BY <1>1 DEF ClearRows, OnlyDoing, ShellDoes
<1>4. Working(sh, "drop") => "refuse" \in Doing
  <2> SUFFICES ASSUME Working(sh, "drop") PROVE "refuse" \in Doing
    OBVIOUS
  <2>1. Head(queue[sh]) \in Allowed
    BY <1>1, HeadTailProperties DEF Working, OnlyDoing
  <2> QED BY <2>1 DEF Working, Allowed
<1>5. Shell = {sh}
  BY <1>2, <1>3, <1>4 DEF TrimAlone
<1>6. trim' = trim
  BY <1>2 DEF ClearRows, RunOnRow
<1>7. trim[sh] = Idle
  BY <1>1, <1>2 DEF TrimsGuarded, Trimming, ClearRows, RunOnRow, Working
<1> QED BY <1>5, <1>6, <1>7 DEF TrimsBounded

\* Every step keeps every line that is neither deleted nor withheld.
LEMMA EveryStepStands ==
  ASSUME TrimAlone, LinesInv, [Next]_vars, OnlyDoing'
  PROVE  LinesInv'
<1>1. LogInv /\ Truthful(store) /\ Sound(store) /\ Threads /\ OnlyDoing /\ TrimsGuarded
      /\ Standing(store)
  BY LogInvParts DEF LinesInv, RowsInv
<1>2. RowsInv' /\ TrimsGuarded'
  BY <1>1, EveryStepKeeps, EveryStepTells, EveryStepGuards DEF RowsInv
<1>3. \/ /\ Tells(store, store')
         /\ \/ RowsStay(store, store')
            \/ \E sh \in Shell : \/ ClearRows(sh) \/ ForgetLog(sh)
                                 \/ RunOnRow(sh) /\ Working(sh, "drop")
      \/ \E sh \in Shell : HideDoomed(sh) \/ SweepRows(sh)
      \/ CliDelete
  BY <1>1, EveryStepTells
<1>4. CASE "trim" \notin Doing
  <2>1. Shown(store)
    BY <1>4 DEF LinesInv
  <2>2. ~ \E sh \in Shell : HideDoomed(sh) \/ SweepRows(sh)
    BY <1>1, <1>4 DEF HideDoomed, SweepRows, OnlyDoing, Idle
  <2>3. Shown(store') /\ Standing(store')
    BY <1>1, <1>3, <2>1, <2>2, CliTells, LogInvParts DEF Tells
  <2> QED BY <1>2, <1>4, <2>3 DEF LinesInv
<1>5. CASE "trim" \in Doing
  <2>1. TrimsBounded
    BY <1>5 DEF LinesInv
  <2>2. ~ CliDelete
    BY <1>1, <1>5 DEF CliDelete, OnlyDoing, TrimAlone
  <2>3. CASE \E sh \in Shell : HideDoomed(sh) \/ SweepRows(sh)
    <3>1. Standing(store') /\ TrimsBounded'
      BY <1>1, <2>1, <2>3, HideStaysBounded, SweepStaysBounded
    <3> QED BY <1>2, <1>5, <3>1 DEF LinesInv
  <2>4. CASE \E sh \in Shell : \/ ClearRows(sh) \/ ForgetLog(sh)
                               \/ RunOnRow(sh) /\ Working(sh, "drop")
    <3>1. TrimsBounded'
      BY <1>5, <2>4, DeletionsAlone
    <3>2. CASE Tells(store, store')
      BY <1>1, <1>2, <1>5, <3>1, <3>2 DEF LinesInv, Tells
    <3> QED BY <1>3, <2>2, <2>3, <3>2
  <2>5. CASE Tells(store, store') /\ RowsStay(store, store')
    <3>1. TrimsBounded'
      <4>1. CASE trim' = trim
        BY <1>1, <2>1, <2>5, <4>1, BoundedStays DEF TrimsBounded, Threads
      <4>2. CASE \E sh \in Shell : \/ SkipTrim(sh) \/ ReadDoomed(sh) \/ ReadOutcomes(sh)
                                   \/ SweepOutcomes(sh)
        BY <1>1, <2>1, <4>2, ReadsStayBounded
      <4>3. CASE \E sh \in Shell : HideDoomed(sh) \/ SweepRows(sh)
        BY <1>1, <2>1, <4>3, HideStaysBounded, SweepStaysBounded
      <4>4. CASE \E sh \in Shell : Crash(sh)
        <5>1. PICK sh \in Shell : Crash(sh)
          BY <4>4
        <5>2. trim'[sh] = Idle /\ \A other \in Shell \ {sh} : trim'[other] = trim[other]
          BY <1>1, <5>1 DEF Crash, Threads
        <5> QED BY <1>1, <2>1, <2>5, <5>2, TrimsStayBounded
      <4>5. CASE \E sh \in Shell : Prompt(sh) \/ Continue(sh)
        <5>1. trim' = trim
          BY <4>5 DEF Prompt, Continue, Enter, ForgetLine, Finish, Refuse, BeginClear, Leave,
                      Count, ClearRows, ClearRuns, ReadForgotten, ForgetLog
        <5> QED BY <4>1, <5>1
      <4>6. CASE \E sh \in Shell : \/ RunBoundary(sh) \/ RunAlsoRan(sh)
                                   \/ RunForgetEntered(sh) \/ RunOnRow(sh)
        <5>1. trim' = trim
          BY <4>6 DEF RunBoundary, RunAlsoRan, RunForgetEntered, RunOnRow
        <5> QED BY <4>1, <5>1
      <4>7. CASE CliRead \/ CliDelete \/ UNCHANGED vars
        BY <4>1, <4>7 DEF CliRead, CliDelete, vars
      <4> QED BY <4>2, <4>3, <4>4, <4>5, <4>6, <4>7 DEF Next, Write
    <3> QED BY <1>1, <1>2, <1>5, <2>5, <3>1 DEF LinesInv, Tells
  <2> QED BY <1>3, <2>2, <2>3, <2>4, <2>5
<1> QED BY <1>4, <1>5

(***************************************************************************)
(* A line leaves the log by being deleted or by being trimmed, and is      *)
(* written down as that: wherever a trim is alone with its rows, an event  *)
(* that is neither a tombstone nor withheld has its row, word for word,    *)
(* for any number of shells and events (track/log.rs, Track::trim).        *)
(***************************************************************************)
THEOREM NothingLostHolds == TrimAlone => (Spec => []NothingLost)
<1> SUFFICES ASSUME TrimAlone PROVE Spec => []NothingLost
  OBVIOUS
<1>1. Init => LinesInv \/ ~ OnlyDoing
  <2> SUFFICES ASSUME Init, OnlyDoing PROVE LinesInv
    OBVIOUS
  <2>1. RowsInv /\ Standing(store) /\ Shown(store)
    BY InitIsSound, EmptyStoreTells DEF Init, RowsInv
  <2>2. \A sh \in Shell : trim[sh] = Idle
    BY DEF Init
  <2> QED BY <2>1, <2>2 DEF LinesInv, TrimsGuarded, TrimsBounded
<1>2. LinesInv /\ OnlyDoing' /\ [Next]_vars => LinesInv'
  BY EveryStepStands
<1>3. LinesInv => NothingLost
  BY DEF LinesInv, Standing, Stands, NothingLost, Known
<1> QED BY <1>1, <1>2, <1>3, OnlyDoingHolds, PTL DEF Spec

-----------------------------------------------------------------------------
(***************************************************************************)
(* What a command did.  A shell owns the rows of the line under way and of *)
(* the jobs it has queued; while rows go at a rule's word only, a row has  *)
(* one owner at most, and that owner knows what to write in it.            *)
(***************************************************************************)
RowsGoByRule == Doing \cap {"clear", "forget", "trim", "cli"} = {}

UnderWay(st) == IF st.pc \in {"entered", "running"} THEN {st.id} ELSE {}
Queued(jobs) == UNION {About(jobs[n]) : n \in DOMAIN jobs}
Owned(sh) == UnderWay(shell[sh]) \cup Queued(queue[sh])

\* A row that is owned is there, and is owned by one shell.
RowsOwned ==
  /\ \A sh \in Shell : Owned(sh) \subseteq Rows(store)
  /\ \A sh, other \in Shell : sh # other => Owned(sh) \cap Owned(other) = {}

\* The line under way is not in the queue, and a row to be dropped is there once.
Tidy(st, jobs) ==
  /\ UnderWay(st) \cap Queued(jobs) = {}
  /\ \A n, m \in DOMAIN jobs :
       jobs[n].op = "drop" /\ jobs[n].id \in About(jobs[m]) => m = n

\* The line under way is the one that was appended, and has no outcome yet.
Running(st) ==
  \A i \in UnderWay(st) : store.local[i] = st.event /\ store.event[st.event].done = None

\* A job that writes an outcome writes what the command of its row reported.
Promised(job) ==
  job.op \in {"boundary", "outcome"} =>
    \A i \in About(job) : result[store.local[i]] = job.status

\* Each shell, and each of its jobs, knows what it is about.
JobsKnow ==
  \A sh \in Shell : /\ Tidy(shell[sh], queue[sh])
                    /\ Running(shell[sh])
                    /\ \A n \in DOMAIN queue[sh] : Promised(queue[sh][n])

\* What the tables say of outcomes.
Told ==
  /\ \A e \in EventId : store.event[e] # None =>
       /\ Applied(store, e)
       /\ store.event[e].done # None =>
            result[e] # None /\ store.event[e].done.status = result[e]
  /\ \A i \in LocalId : store.outcome[i] # None =>
       store.history[i] # None /\ store.event[store.local[i]].done = store.outcome[i]

OutcomesInv == RowsInv /\ RowsOwned /\ JobsKnow /\ Told

\* What a job is about is a row's id.
LEMMA AboutIds ==
  ASSUME NEW job \in Job
  PROVE  /\ About(job) \subseteq LocalId
         /\ \A i \in About(job) : i = job.id
BY JobFields DEF About

\* The jobs of two lists are those of the one and those of the other.
LEMMA QueuedBoth ==
  ASSUME NEW q \in Seq(Job), NEW jobs \in Seq(Job)
  PROVE  /\ \A n \in DOMAIN (q \o jobs) :
              \/ n \in DOMAIN q /\ (q \o jobs)[n] = q[n]
              \/ n - Len(q) \in DOMAIN jobs /\ (q \o jobs)[n] = jobs[n - Len(q)]
         /\ Queued(q \o jobs) \subseteq Queued(q) \cup Queued(jobs)
<1>1. \A n \in DOMAIN (q \o jobs) :
        \/ n \in DOMAIN q /\ (q \o jobs)[n] = q[n]
        \/ n - Len(q) \in DOMAIN jobs /\ (q \o jobs)[n] = jobs[n - Len(q)]
  BY ConcatProperties, LenProperties
<1> QED BY <1>1 DEF Queued

\* What is behind the head was in the queue, one place further on.
LEMMA QueuedTail ==
  ASSUME NEW q \in Seq(Job), q # <<>>
  PROVE  /\ 1 \in DOMAIN q /\ Head(q) = q[1] /\ Head(q) \in Job
         /\ \A n \in DOMAIN Tail(q) : n \in Nat /\ n + 1 \in DOMAIN q /\ Tail(q)[n] = q[n + 1]
         /\ \A n \in DOMAIN Tail(q) : n # 0
         /\ Queued(Tail(q)) \subseteq Queued(q)
         /\ About(Head(q)) \subseteq Queued(q)
<1>1. 1 \in DOMAIN q /\ Head(q) = q[1] /\ Head(q) \in Job
  BY HeadTailProperties, LenProperties, EmptySeq
<1>2. \A n \in DOMAIN Tail(q) : n \in Nat /\ n # 0 /\ n + 1 \in DOMAIN q /\ Tail(q)[n] = q[n + 1]
  BY HeadTailProperties, LenProperties
<1> QED BY <1>1, <1>2 DEF Queued

(***************************************************************************)
(* A step that gives no shell anything to own, nor any job it had not.     *)
(***************************************************************************)
Released ==
  \A sh \in Shell :
    /\ UnderWay(shell'[sh]) \subseteq UnderWay(shell[sh])
    /\ UnderWay(shell'[sh]) # {} => shell'[sh].event = shell[sh].event
    /\ Queued(queue'[sh]) \subseteq Queued(queue[sh])
    /\ Tidy(shell'[sh], queue'[sh])
    /\ \A n \in DOMAIN queue'[sh] : \E m \in DOMAIN queue[sh] : queue'[sh][n] = queue[sh][m]

\* Whoever owns a row still after such a step owned it before.
LEMMA ReleasedOwns ==
  ASSUME Released, NEW sh \in Shell
  PROVE  Owned(sh)' \subseteq Owned(sh)
BY DEF Released, Owned

\* So if what is still owned is still there, each job knows what it did.
LEMMA ReleasedKnows ==
  ASSUME Released, RowsOwned, JobsKnow, result' = result,
         \A sh \in Shell : \A i \in Owned(sh)' :
           i \in Rows(store') /\ store'.local[i] = store.local[i],
         \A sh \in Shell : UnderWay(shell'[sh]) # {} =>
           store'.event[shell[sh].event].done = None
  PROVE  RowsOwned' /\ JobsKnow'
<1>1. RowsOwned'
  BY ReleasedOwns DEF RowsOwned
<1>2. ASSUME NEW sh \in Shell
      PROVE  Tidy(shell'[sh], queue'[sh]) /\ Running(shell[sh])' 
  <2>1. Tidy(shell'[sh], queue'[sh])
    BY DEF Released
  <2>2. ASSUME NEW i \in UnderWay(shell'[sh])
        PROVE  /\ store'.local[i] = shell'[sh].event
               /\ store'.event[shell'[sh].event].done = None
    <3>1. i \in UnderWay(shell[sh]) /\ shell'[sh].event = shell[sh].event
      BY <2>2 DEF Released
    <3>2. store.local[i] = shell[sh].event
      BY <3>1 DEF JobsKnow, Running
    <3>3. i \in Owned(sh)'
      BY <2>2 DEF Owned
    <3> QED BY <2>2, <3>1, <3>2, <3>3
  <2> QED BY <2>1, <2>2 DEF Running
<1>3. ASSUME NEW sh \in Shell, NEW n \in DOMAIN queue'[sh] PROVE Promised(queue[sh][n])'
  <2>1. PICK m \in DOMAIN queue[sh] : queue'[sh][n] = queue[sh][m]
    BY <1>3 DEF Released
  <2> DEFINE job == queue[sh][m]
  <2>2. Promised(job)
    BY DEF JobsKnow
  <2>3. \A i \in About(job) : store'.local[i] = store.local[i]
    BY <2>1 DEF Owned, Queued
  <2> QED BY <2>1, <2>2, <2>3 DEF Promised
<1> QED BY <1>1, <1>2, <1>3 DEF JobsKnow

\* Taking the head from a queue is such a step, and a row that was dropped is nobody's.
LEMMA DequeueReleases ==
  ASSUME Threads, JobsKnow, RowsOwned, NEW sh \in Shell, NEW op, Working(sh, op), Dequeue(sh),
         \A other \in Shell : /\ shell'[other].pc = shell[other].pc
                              /\ shell'[other].id = shell[other].id
                              /\ shell'[other].event = shell[other].event
  PROVE  /\ Released
         /\ op = "drop" => \A other \in Shell : \A i \in About(Head(queue[sh])) :
                             i \notin Owned(other)'
<1> DEFINE q == queue[sh]
<1>1. q \in Seq(Job) /\ q # <<>>
  BY DEF Threads, Working
<1>2. queue'[sh] = Tail(q) /\ \A other \in Shell \ {sh} : queue'[other] = queue[other]
  BY DEF Dequeue, Threads
<1>3. \A other \in Shell : UnderWay(shell'[other]) = UnderWay(shell[other])
  BY DEF UnderWay
<1>4. Tidy(shell[sh], q)
  BY DEF JobsKnow
<1>5. /\ Queued(Tail(q)) \subseteq Queued(q)
      /\ \A n \in DOMAIN Tail(q) : n \in Nat /\ n # 0 /\ n + 1 \in DOMAIN q /\ Tail(q)[n] = q[n + 1]
      /\ 1 \in DOMAIN q /\ Head(q) = q[1] /\ Head(q) \in Job
  BY <1>1, QueuedTail
<1> HIDE DEF q
<1>6. Tidy(shell'[sh], queue'[sh])
  <2>1. UnderWay(shell'[sh]) \cap Queued(Tail(q)) = {}
    BY <1>3, <1>4, <1>5 DEF Tidy
  <2>2. ASSUME NEW n \in DOMAIN Tail(q), NEW m \in DOMAIN Tail(q),
               Tail(q)[n].op = "drop", Tail(q)[n].id \in About(Tail(q)[m])
        PROVE  m = n
    <3>1. m + 1 = n + 1
      BY <1>4, <1>5, <2>2 DEF Tidy
    <3> QED BY <3>1, <1>5
  <2> QED BY <1>2, <2>1, <2>2 DEF Tidy
<1>7. Released
  <2>1. ASSUME NEW other \in Shell \ {sh}
        PROVE  Tidy(shell'[other], queue'[other]) /\ queue'[other] = queue[other]
    BY <1>2, <1>3 DEF Tidy, JobsKnow
  <2>2. \A n \in DOMAIN queue'[sh] : \E m \in DOMAIN queue[sh] : queue'[sh][n] = queue[sh][m]
    BY <1>2, <1>5 DEF q
  <2>3. Queued(queue'[sh]) \subseteq Queued(queue[sh])
    BY <1>2, <1>5 DEF q
  <2> QED BY <1>3, <1>6, <2>1, <2>2, <2>3 DEF Released
<1>8. ASSUME op = "drop", NEW other \in Shell, NEW i \in About(Head(q)) PROVE i \notin Owned(other)'
  <2>1. i = q[1].id /\ q[1].op = "drop"
    BY <1>5, <1>8, AboutIds DEF Working, q
  <2>2. i \in Queued(q)
    BY <1>5, <1>8 DEF Queued
  <2>3. CASE other # sh
    <3>1. i \notin Owned(other)
      BY <2>2, <2>3 DEF RowsOwned, Owned, q
    <3> QED BY <1>7, <3>1, ReleasedOwns
  <2>4. CASE other = sh
    <3>1. i \notin UnderWay(shell'[sh])
      BY <1>3, <1>4, <2>2 DEF Tidy
    <3>2. ASSUME NEW n \in DOMAIN Tail(q) PROVE i \notin About(Tail(q)[n])
      BY <1>4, <1>5, <2>1, <3>2 DEF Tidy
    <3>3. i \notin Queued(Tail(q))
      BY <3>2 DEF Queued
    <3>4. Owned(sh)' = UnderWay(shell'[sh]) \cup Queued(Tail(q))
      BY <1>2 DEF Owned
    <3> QED BY <2>4, <3>1, <3>3, <3>4
  <2> QED BY <2>3, <2>4
<1> QED BY <1>7, <1>8 DEF q

\* Two rows that are there have an event each.
LEMMA RowsApart ==
  ASSUME NEW s, Sound(s), Truthful(s), NEW i \in Rows(s), NEW j \in Rows(s)
  PROVE  /\ s.local[i] \in EventId /\ s.event[s.local[i]] # None
         /\ ~ s.event[s.local[i]].deleted /\ s.projection[s.local[i]] # None
         /\ s.local[i] = s.local[j] => i = j
<1>1. s.local[i] # None /\ s.local[j] # None /\ ~ s.event[s.local[i]].deleted
  BY DEF Truthful, RowsTrue, Rows
<1>2. s.local[i] \in EventId /\ s.event[s.local[i]] # None /\ s.projection[s.local[i]] # None
  BY <1>1, EventOfRow DEF Rows, Sound, Indexed
<1>3. s.projection[s.local[i]].local = i /\ s.projection[s.local[j]].local = j
  BY <1>1 DEF Truthful, Placed, Rows
<1> QED BY <1>1, <1>2, <1>3

\* A step about runs: the rows, the events and the outcomes stay.
LEMMA RunsKnow ==
  ASSUME RowsOwned, JobsKnow, Told, Released, result' = result,
         store'.history = store.history, store'.outcome = store.outcome,
         store'.local = store.local, store'.event = store.event,
         store'.projection = store.projection
  PROVE  RowsOwned' /\ JobsKnow' /\ Told'
<1>1. Told'
  BY DEF Told, Applied, ProjectionOf
<1>2. \A sh \in Shell : \A i \in Owned(sh)' :
        i \in Rows(store') /\ store'.local[i] = store.local[i]
  BY ReleasedOwns DEF RowsOwned, Rows
<1>3. \A sh \in Shell : UnderWay(shell'[sh]) # {} => store'.event[shell[sh].event].done = None
  BY DEF Released, JobsKnow, Running
<1> QED BY <1>1, <1>2, <1>3, ReleasedKnows

\* A job about its row, the event behind it and its outcome, and nothing else.
LEMMA OneRowKnows ==
  ASSUME Sound(store), Truthful(store), RowsOwned, JobsKnow, Told, Released, result' = result,
         NEW sh \in Shell, NEW i \in Queued(queue[sh]), NEW e, e = store.local[i],
         store'.local = store.local, Elsewhere(store, store', {e}),
         \A j \in LocalId \ {i} : /\ store'.history[j] = store.history[j]
                                  /\ store'.outcome[j] = store.outcome[j],
         store'.projection[e] # None, Mark(store'.projection[e]) = Mark(store'.event[e]),
         store'.event[e].done # None =>
           result[e] # None /\ store'.event[e].done.status = result[e],
         store'.outcome[i] # None =>
           store'.history[i] # None /\ store'.event[e].done = store'.outcome[i],
         store'.history[i] = None => \A other \in Shell : i \notin Owned(other)'
  PROVE  RowsOwned' /\ JobsKnow' /\ Told'
<1>1. i \in Rows(store) /\ i \in Owned(sh)
  BY DEF RowsOwned, Owned
<1>2. \A j \in Rows(store) : store.local[j] \in EventId /\ (store.local[j] = e => j = i)
  BY <1>1, RowsApart
<1>3. ASSUME NEW other \in Shell, NEW j \in Owned(other)'
      PROVE  j \in Rows(store') /\ store'.local[j] = store.local[j]
  <2>1. j \in Rows(store)
    BY ReleasedOwns DEF RowsOwned
  <2> QED BY <1>3, <2>1 DEF Rows
<1>4. ASSUME NEW other \in Shell, UnderWay(shell'[other]) # {}
      PROVE  store'.event[shell[other].event].done = None
  <2>1. PICK j \in UnderWay(shell'[other]) : j \in UnderWay(shell[other])
    BY <1>4 DEF Released
  <2>2. j \in Rows(store)
    BY <2>1 DEF RowsOwned, Owned
  <2>3. store.local[j] = shell[other].event /\ store.event[shell[other].event].done = None
    BY <2>1 DEF JobsKnow, Running
  <2>4. j # i
    <3>1. CASE other = sh
      BY <2>1, <3>1 DEF JobsKnow, Tidy
    <3>2. CASE other # sh
      BY <1>1, <2>1, <3>2 DEF RowsOwned, Owned
    <3> QED BY <3>1, <3>2
  <2> QED BY <1>2, <2>2, <2>3, <2>4 DEF Elsewhere
<1>5. ASSUME NEW f \in EventId, store'.event[f] # None
      PROVE  /\ Applied(store', f)
             /\ store'.event[f].done # None =>
                  result[f] # None /\ store'.event[f].done.status = result[f]
  <2>1. CASE f = e
    BY <2>1 DEF Applied, ProjectionOf
  <2>2. CASE f # e
    BY <1>5, <2>2 DEF Told, Elsewhere, Applied, ProjectionOf
  <2> QED BY <2>1, <2>2
<1>6. ASSUME NEW j \in LocalId, store'.outcome[j] # None
      PROVE  /\ store'.history[j] # None
             /\ store'.event[store'.local[j]].done = store'.outcome[j]
  <2>1. CASE j = i
    BY <1>6, <2>1
  <2>2. CASE j # i
    <3>1. j \in Rows(store) /\ store.event[store.local[j]].done = store.outcome[j]
      BY <1>6, <2>2 DEF Told, Rows
    <3>2. store.local[j] \in EventId \ {e}
      BY <1>2, <2>2, <3>1
    <3> QED BY <1>6, <2>2, <3>1, <3>2 DEF Elsewhere, Rows
  <2> QED BY <2>1, <2>2
<1>7. Told'
  BY <1>5, <1>6 DEF Told
<1> QED BY <1>3, <1>4, <1>7, ReleasedKnows

\* An outcome written at the head of the queue is its command's.
LEMMA OutcomeKnows ==
  ASSUME Sound(store), Truthful(store), Threads, RowsOwned, JobsKnow, Told, Released,
         result' = result, NEW sh \in Shell, NEW op \in {"boundary", "outcome"},
         Working(sh, op), Head(queue[sh]).id \in LocalId, Head(queue[sh]).status \in Status,
         NEW u, Sound(u), Truthful(u), u.history = store.history, u.outcome = store.outcome,
         u.local = store.local, u.event = store.event, u.projection = store.projection,
         NEW dir \in Dir, NEW tie \in [EventId -> Tie],
         store' = WriteOutcomes(u, Head(queue[sh]).id,
                                [status |-> Head(queue[sh]).status, dir |-> dir], tie),
         store' # None
  PROVE  RowsOwned' /\ JobsKnow' /\ Told'
<1> DEFINE job == Head(queue[sh])
           i == job.id
           done == [status |-> job.status, dir |-> dir]
           e == store.local[i]
<1>1. job \in Job /\ job = queue[sh][1] /\ 1 \in DOMAIN queue[sh] /\ job.op = op
  BY QueuedTail DEF Threads, Working
<1>2. i \in About(job)
  BY <1>1, NothingAssumption DEF About, LocalId
<1>3. i \in Queued(queue[sh])
  BY <1>1, <1>2 DEF Queued
<1>4. result[e] = job.status
  BY <1>1, <1>2 DEF JobsKnow, Promised
<1>5. i \in Rows(store)
  BY <1>3 DEF RowsOwned, Owned
<1>6. e \in EventId /\ ~ store.event[e].deleted /\ store.projection[e] # None
  BY <1>5, RowsApart
<1>7. done \in Done /\ done # None /\ done.status = job.status /\ job.status # None
  BY NothingAssumption DEF Done
<1> DEFINE t == store'
<1>13. t = WriteOutcomes(u, i, done, tie) /\ t # None /\ i \in LocalId
  OBVIOUS
<1> HIDE DEF done, i, t
<1>8. /\ t.history = u.history /\ t.local = u.local
      /\ t.outcome = [u.outcome EXCEPT ![i] = done]
      /\ Elsewhere(u, t, {e})
      /\ t.event[e] = [Advance(u.event[e], tie[e]) EXCEPT !.done = done]
      /\ CanAdvance(u.event[e]) /\ u.event[e] \in Event
      /\ ~ u.event[e].deleted => Mark(t.projection[e]) = Mark(t.event[e])
  <2>1. OutcomeWritten(u, t, i, done, tie)
    BY <1>7, <1>13, WriteOutcomesChanges
  <2> QED BY <2>1 DEF OutcomeWritten
<1>9. t.event[e].done = done
  BY <1>8 DEF Event, Advance
<1>10. t.outcome[i] = done /\ \A j \in LocalId \ {i} : t.outcome[j] = store.outcome[j]
  BY <1>8, <1>13 DEF Sound, Store
<1>11. t.projection[e] # None
  <2>1. Keeps(u, t)
    BY <1>7, <1>13, WriteOutcomesKeeps
  <2> QED BY <1>6, <1>8, <1>13, <2>1, NothingAssumption DEF Keeps, Sound, Indexed, EventId
<1>12. Elsewhere(store, t, {e}) /\ t.local = store.local /\ t.history = store.history
  BY <1>8 DEF Elsewhere
<1>14. Mark(t.projection[e]) = Mark(t.event[e])
  BY <1>6, <1>8
<1>15. store'.local = store.local /\ Elsewhere(store, store', {e})
      /\ (\A j \in LocalId \ {i} : /\ store'.history[j] = store.history[j]
                                   /\ store'.outcome[j] = store.outcome[j])
      /\ store'.projection[e] # None /\ Mark(store'.projection[e]) = Mark(store'.event[e])
      /\ store'.event[e].done = done /\ store'.outcome[i] = done
      /\ store'.history[i] = store.history[i]
  BY <1>9, <1>10, <1>11, <1>12, <1>14 DEF t
<1>16. store'.history[i] # None
  BY <1>5, <1>15 DEF Rows
<1> HIDE DEF e
<1>17. e = store.local[i]
  BY DEF e
<1>18. store'.event[e].done # None =>
         result[e] # None /\ store'.event[e].done.status = result[e]
  BY <1>4, <1>7, <1>15
<1>19. store'.outcome[i] # None =>
         store'.history[i] # None /\ store'.event[e].done = store'.outcome[i]
  BY <1>15, <1>16
<1> QED BY <1>3, <1>15, <1>16, <1>17, <1>18, <1>19, OneRowKnows

\* A boundary writes the outcome of the line it ends, or none.
LEMMA RunBoundaryKnows ==
  ASSUME Sound(store), Truthful(store), Threads, RowsOwned, JobsKnow, Told,
         NEW sh \in Shell, RunBoundary(sh)
  PROVE  RowsOwned' /\ JobsKnow' /\ Told'
<1> DEFINE job == Head(queue[sh])
           ran == Recorded(store, job.from, job.line)
<1>1. Working(sh, "boundary") /\ Dequeue(sh) /\ result' = result
  BY DEF RunBoundary
<1>2. \A other \in Shell : /\ shell'[other].pc = shell[other].pc
                           /\ shell'[other].id = shell[other].id
                           /\ shell'[other].event = shell[other].event
  <2>1. \/ shell' = shell
        \/ \E dir : shell' = [shell EXCEPT ![sh].current = dir]
    BY DEF RunBoundary
  <2>2. ASSUME NEW dir, NEW st \in ShellState, NEW new, new = [st EXCEPT !.current = dir]
        PROVE  new.pc = st.pc /\ new.id = st.id /\ new.event = st.event
    BY <2>2 DEF ShellState
  <2>3. ASSUME NEW dir, shell' = [shell EXCEPT ![sh].current = dir]
        PROVE  /\ \A other \in Shell \ {sh} : shell'[other] = shell[other]
               /\ shell'[sh].pc = shell[sh].pc /\ shell'[sh].id = shell[sh].id
               /\ shell'[sh].event = shell[sh].event
    <3>1. shell[sh] \in ShellState /\ shell'[sh] = [shell[sh] EXCEPT !.current = dir]
          /\ \A other \in Shell \ {sh} : shell'[other] = shell[other]
      BY <2>3 DEF Threads
    <3> QED BY <3>1, <2>2
  <2> QED BY <2>1, <2>3
<1>3. Released
  BY <1>1, <1>2, DequeueReleases
<1>4. /\ job.from \in Dir /\ job.line \in Line \cup {None} /\ job.status \in Status
      /\ \/ store' = store
         \/ store' = ran
         \/ /\ job.id \in LocalId
            /\ \E s \in {store, ran}, dir \in Dir, tie \in [EventId -> Tie] :
                 LET t == WriteOutcomes(s, job.id, [status |-> job.status, dir |-> dir], tie)
                 IN t # None /\ store' = t
  BY BoundaryCommits
<1>5. /\ Sound(ran) /\ Tells(store, ran)
      /\ ran.history = store.history /\ ran.outcome = store.outcome
      /\ ran.local = store.local /\ ran.event = store.event
      /\ ran.projection = store.projection
  BY <1>4, RecordedTells
<1>6. Truthful(ran)
  BY <1>5 DEF Tells
<1> HIDE DEF ran
<1>7. CASE store' = store \/ store' = ran
  BY <1>1, <1>3, <1>5, <1>7, RunsKnow
<1>8. ASSUME job.id \in LocalId, NEW s \in {store, ran}, NEW dir \in Dir,
             NEW tie \in [EventId -> Tie],
             store' = WriteOutcomes(s, job.id, [status |-> job.status, dir |-> dir], tie),
             store' # None
      PROVE  RowsOwned' /\ JobsKnow' /\ Told'
  BY <1>1, <1>3, <1>4, <1>5, <1>6, <1>8, OutcomeKnows
<1> QED BY <1>4, <1>7, <1>8

\* A rewrite leaves the event what it did.
LEMMA RewriteKnows ==
  ASSUME Sound(store), Truthful(store), Threads, RowsOwned, JobsKnow, Told, Released,
         result' = result, NEW sh \in Shell, NEW i \in Queued(queue[sh]), NEW line \in Line,
         NEW tie \in [EventId -> Tie], NEW t, t = RewriteLine(store, i, line, tie), t # None,
         t # store, store' = t
  PROVE  RowsOwned' /\ JobsKnow' /\ Told'
<1> DEFINE e == store.local[i]
           ev == [Advance(store.event[e], tie[e]) EXCEPT !.line = line]
<1>1. i \in Rows(store) /\ i \in LocalId
  BY DEF RowsOwned, Owned, Rows
<1>2. e \in EventId /\ ~ store.event[e].deleted /\ store.event[e] # None
      /\ store.projection[e] # None
  BY <1>1, RowsApart
<1>3. /\ store.event[e] \in Event
      /\ t.history = [store.history EXCEPT ![i] = line]
      /\ t.outcome = store.outcome /\ t.local = store.local
      /\ \/ t.event = store.event /\ t.projection = store.projection
         \/ CanAdvance(store.event[e]) /\ Changed(store, t, e, ev)
  BY <1>1, RewriteLineChanges
<1>4. ev.done = store.event[e].done /\ ev.deleted = store.event[e].deleted
  BY <1>3 DEF Advance, Event
<1>5. /\ Applied(store, e)
      /\ store.event[e].done # None =>
           result[e] # None /\ store.event[e].done.status = result[e]
      /\ store.outcome[i] # None => store.event[e].done = store.outcome[i]
  BY <1>1, <1>2 DEF Told
<1>6. /\ Elsewhere(store, t, {e})
      /\ t.event[e].done = store.event[e].done
      /\ Mark(t.projection[e]) = Mark(t.event[e]) /\ t.projection[e] # None
  <2>1. CASE t.event = store.event /\ t.projection = store.projection
    BY <1>2, <1>5, <2>1 DEF Elsewhere, Applied, ProjectionOf
  <2>2. CASE Changed(store, t, e, ev)
    <3> HIDE DEF ev
    <3> QED BY <1>2, <1>4, <2>2, NothingAssumption DEF Changed
  <2> QED BY <1>3, <2>1, <2>2
<1>7. /\ \A j \in LocalId \ {i} : t.history[j] = store.history[j]
      /\ t.history[i] = line /\ t.history[i] # None
  BY <1>1, <1>3, HistoryAssumption DEF Sound, Store
<1> HIDE DEF e
<1>8. e = store.local[i]
  BY DEF e
<1> QED BY <1>3, <1>5, <1>6, <1>7, <1>8, OneRowKnows

\* A row that is dropped takes its outcome along, and its event's.
LEMMA DropKnows ==
  ASSUME Sound(store), Truthful(store), Threads, RowsOwned, JobsKnow, Told, Released,
         result' = result, NEW sh \in Shell, NEW i \in Queued(queue[sh]),
         \A other \in Shell : i \notin Owned(other)',
         NEW tie \in [EventId -> Tie], NEW t, t = DropLines(store, {i}, tie), t # None,
         store' = t
  PROVE  RowsOwned' /\ JobsKnow' /\ Told'
<1> DEFINE e == store.local[i]
           u == Bury(store, {e}, tie)
<1>1. i \in Rows(store) /\ i \in LocalId
  BY DEF RowsOwned, Owned, Rows
<1>2. e \in EventId /\ ~ store.event[e].deleted /\ store.event[e] # None
  BY <1>1, RowsApart
<1>3. {store.local[j] : j \in {i}} = {e}
  OBVIOUS
<1>4. u # None /\ t = DropOutcomes(DropHistory(u, {i}), {i})
  BY <1>3 DEF DropLines, TombstoneLocals
<1>5. Sound(u)
  BY <1>2, <1>4, BuryKeeps DEF Keeps
<1>6. /\ u.history = store.history /\ u.outcome = store.outcome /\ u.local = store.local
      /\ Elsewhere(store, u, {e})
      /\ u.event[e] = Buried(store.event[e], tie[e])
      /\ u.projection[e] # None /\ Mark(u.projection[e]) = Mark(u.event[e])
  <2> HIDE DEF u, e
  <2>1. u = Bury(store, {e}, tie)
    BY DEF u
  <2> QED BY <1>2, <1>4, <2>1, BuryChanges
<1>7. u.event[e].done = None
  <2>1. store.event[e] \in Event
    BY <1>2 DEF Sound, Store
  <2> HIDE DEF u, e
  <2> QED BY <1>6, <2>1 DEF Buried, Event, Advance
<1> HIDE DEF u, e
<1>8. t.local = u.local /\ t.event = u.event /\ t.projection = u.projection
  BY <1>4, <1>5, DropsLeaveEvents
<1>9. /\ \A j \in LocalId : t.history[j] = IF j \in {i} THEN None ELSE u.history[j]
      /\ \A j \in LocalId : t.outcome[j] = IF j \in {i} THEN None ELSE u.outcome[j]
  <2> DEFINE w == DropOutcomes(DropHistory(u, {i}), {i})
  <2>1. /\ \A j \in LocalId : w.history[j] = IF j \in {i} THEN None ELSE u.history[j]
        /\ \A j \in LocalId : w.outcome[j] = IF j \in {i} THEN None ELSE u.outcome[j]
    BY <1>5, DropsChange
  <2> QED BY <1>4, <2>1
<1>10. Elsewhere(store, t, {e})
  BY <1>6, <1>8 DEF Elsewhere
<1>11. e = store.local[i]
  BY DEF e
<1>12. /\ t.local = store.local
       /\ \A j \in LocalId \ {i} : /\ t.history[j] = store.history[j]
                                   /\ t.outcome[j] = store.outcome[j]
       /\ t.outcome[i] = None
       /\ t.projection[e] # None /\ Mark(t.projection[e]) = Mark(t.event[e])
       /\ t.event[e].done = None
  BY <1>1, <1>6, <1>7, <1>8, <1>9
<1> QED BY <1>10, <1>11, <1>12, OneRowKnows

\* The head of the queue, done to its row.
LEMMA RunOnRowKnows ==
  ASSUME Sound(store), Truthful(store), Threads, RowsOwned, JobsKnow, Told,
         NEW sh \in Shell, RunOnRow(sh)
  PROVE  RowsOwned' /\ JobsKnow' /\ Told'
<1> DEFINE job == Head(queue[sh])
<1>1. PICK tie \in [EventId -> Tie] :
        \/ /\ Working(sh, "rewrite")
           /\ store' = Commit(store, RewriteLine(store, job.id, job.line, tie))
        \/ /\ Working(sh, "drop")
           /\ store' = Commit(store, DropLines(store, {job.id}, tie))
        \/ /\ Working(sh, "outcome")
           /\ store' = Commit(store, WriteOutcomes(store, job.id,
                         [status |-> job.status, dir |-> shell[sh].current], tie))
  BY DEF RunOnRow
<1>2. result' = result /\ shell' = shell /\ Dequeue(sh)
  BY DEF RunOnRow
<1>3. Released
  BY <1>1, <1>2, DequeueReleases
<1>4. CASE store' = store
  BY <1>2, <1>3, <1>4, RunsKnow
<1>5. job.id \in LocalId /\ job.id \in Queued(queue[sh])
      /\ (job.op = "rewrite" => job.line \in Line)
      /\ (job.op = "outcome" => job.status \in Status)
  <2>1. job \in Job /\ job.op \in {"rewrite", "drop", "outcome"}
        /\ About(job) \subseteq Queued(queue[sh])
    BY <1>1, QueuedTail DEF Working, Threads
  <2>2. job.id \in LocalId
    BY <2>1, JobFields
  <2>3. job.id \in About(job)
    BY <2>1, <2>2, NothingAssumption DEF About, LocalId
  <2> QED BY <2>1, <2>2, <2>3, JobFields
<1>6. CASE Working(sh, "rewrite") /\ store' # store
  <2>1. store' = RewriteLine(store, job.id, job.line, tie) /\ store' # None
    BY <1>1, <1>6 DEF Working, Commit
  <2>2. job.op = "rewrite"
    BY <1>6 DEF Working
  <2> QED BY <1>2, <1>3, <1>5, <1>6, <2>1, <2>2, RewriteKnows
<1>7. CASE Working(sh, "drop") /\ store' # store
  <2>1. store' = DropLines(store, {job.id}, tie) /\ store' # None /\ job.op = "drop"
    BY <1>1, <1>7 DEF Working, Commit
  <2>2. job.id \in About(job)
    BY <1>5, <2>1, NothingAssumption DEF About, LocalId
  <2>3. \A other \in Shell : job.id \notin Owned(other)'
    BY <1>2, <1>7, <2>2, DequeueReleases
  <2> DEFINE i == job.id
             t == store'
  <2>4. /\ i \in Queued(queue[sh]) /\ t = DropLines(store, {i}, tie) /\ t # None
        /\ \A other \in Shell : i \notin Owned(other)'
    BY <1>5, <2>1, <2>3
  <2> HIDE DEF i, t
  <2>5. t = store' /\ result' = result
    BY <1>2 DEF t
  <2> QED BY <1>3, <2>4, <2>5, DropKnows
<1>8. CASE Working(sh, "outcome") /\ store' # store
  <2>1. /\ store' = WriteOutcomes(store, job.id,
                      [status |-> job.status, dir |-> shell[sh].current], tie)
        /\ store' # None /\ job.op = "outcome"
    BY <1>1, <1>8 DEF Working, Commit
  <2>2. shell[sh].current \in Dir
    BY DEF Threads, ShellState
  <2> QED BY <1>2, <1>3, <1>5, <1>8, <2>1, <2>2, OutcomeKnows
<1> QED BY <1>1, <1>4, <1>6, <1>7, <1>8

(***************************************************************************)
(* The prompt.  A command that ends hands its row over to the jobs that    *)
(* are queued for it: nobody else had it, and nothing was queued for it.   *)
(***************************************************************************)
LEMMA ReturnKnows ==
  ASSUME Sound(store), Truthful(store), Threads, RowsOwned, JobsKnow, Told,
         NEW sh \in Shell, shell[sh].pc = "running", NEW to, NEW jobs \in Seq(Job),
         Return(sh, to, jobs), store' = store,
         \A n \in DOMAIN jobs : About(jobs[n]) \subseteq {shell[sh].id},
         \A n, m \in DOMAIN jobs :
           jobs[n].op = "drop" /\ jobs[n].id \in About(jobs[m]) => m = n,
         \A e \in EventId \ {shell[sh].event} : result'[e] = result[e],
         \A n \in DOMAIN jobs :
           jobs[n].op \in {"boundary", "outcome"} /\ About(jobs[n]) # {} =>
             result'[shell[sh].event] = jobs[n].status
  PROVE  RowsOwned' /\ JobsKnow' /\ Told'
<1> DEFINE q == queue[sh]
           id == shell[sh].id
           e == shell[sh].event
<1>1. q \in Seq(Job) /\ queue'[sh] = q \o jobs
      /\ (\A other \in Shell \ {sh} : queue'[other] = queue[other]
                                      /\ shell'[other] = shell[other])
      /\ UnderWay(shell'[sh]) = {} /\ UnderWay(shell[sh]) = {id}
  BY DEF Threads, Return, UnderWay, AtPrompt
<1>2. /\ \A n \in DOMAIN (q \o jobs) :
            \/ n \in DOMAIN q /\ (q \o jobs)[n] = q[n]
            \/ n - Len(q) \in DOMAIN jobs /\ (q \o jobs)[n] = jobs[n - Len(q)]
      /\ Queued(q \o jobs) \subseteq Queued(q) \cup Queued(jobs)
  BY <1>1, QueuedBoth
<1>3. Queued(jobs) \subseteq {id}
  BY DEF Queued
<1>4. Owned(sh) = {id} \cup Queued(q) /\ id \notin Queued(q) /\ id \in Rows(store)
      /\ store.local[id] = e /\ store.event[e].done = None
  BY <1>1 DEF Owned, JobsKnow, Tidy, Running, RowsOwned
<1>5. \A other \in Shell : Owned(other)' \subseteq Owned(other)
  BY <1>1, <1>2, <1>3, <1>4 DEF Owned
<1>6. RowsOwned'
  BY <1>5 DEF RowsOwned
<1>7. \A i \in Rows(store) : i # id => store.local[i] \in EventId \ {e}
  BY <1>4, RowsApart
<1>8. Told'
  <2>1. ASSUME NEW f \in EventId, store.event[f] # None, store.event[f].done # None
        PROVE  result'[f] # None /\ store.event[f].done.status = result'[f]
    BY <1>4, <2>1 DEF Told
  <2> QED BY <2>1 DEF Told, Applied, ProjectionOf
<1>9. ASSUME NEW other \in Shell PROVE Running(shell[other])'
  <2>1. UnderWay(shell'[other]) = {} \/ shell'[other] = shell[other]
    BY <1>1
  <2>2. UnderWay(shell'[other]) = {} => Running(shell[other])'
    BY DEF Running
  <2> QED BY <2>1, <2>2 DEF Running, JobsKnow
<1>10. ASSUME NEW job, Promised(job), About(job) \subseteq Rows(store) \ {id}
       PROVE  Promised(job)'
  <2>1. \A i \in About(job) : result'[store.local[i]] = result[store.local[i]]
    BY <1>7, <1>10
  <2> QED BY <1>10, <2>1 DEF Promised
<1>11. ASSUME NEW other \in Shell \ {sh}
       PROVE  /\ Tidy(shell'[other], queue'[other])
              /\ \A n \in DOMAIN queue'[other] : Promised(queue[other][n])'
  <2>1. Tidy(shell'[other], queue'[other]) /\ queue'[other] = queue[other]
    BY <1>1 DEF JobsKnow
  <2>2. \A n \in DOMAIN queue[other] : About(queue[other][n]) \subseteq Rows(store) \ {id}
    <3>1. Queued(queue[other]) \subseteq Owned(other) /\ id \in Owned(sh)
      BY <1>4 DEF Owned
    <3>2. Queued(queue[other]) \subseteq Rows(store) \ {id}
      BY <3>1 DEF RowsOwned
    <3>3. \A n \in DOMAIN queue[other] : About(queue[other][n]) \subseteq Queued(queue[other])
      BY DEF Queued
    <3> QED BY <3>2, <3>3
  <2>3. ASSUME NEW n \in DOMAIN queue[other] PROVE Promised(queue[other][n])'
    <3> DEFINE job == queue[other][n]
    <3>1. Promised(job)
      BY DEF JobsKnow
    <3> HIDE DEF job
    <3>2. job = queue'[other][n] /\ About(job) \subseteq Rows(store) \ {id}
      BY <2>1, <2>2 DEF job
    <3> QED BY <1>10, <3>1, <3>2 DEF Promised
  <2> QED BY <2>1, <2>3
<1>12. \A n \in DOMAIN q : id \notin About(q[n]) /\ About(q[n]) \subseteq Rows(store)
  BY <1>4 DEF Queued, RowsOwned
<1>13. Tidy(shell'[sh], queue'[sh])
  <2> DEFINE all == q \o jobs
  <2> SUFFICES ASSUME NEW n \in DOMAIN all, NEW m \in DOMAIN all,
                      all[n].op = "drop", all[n].id \in About(all[m])
               PROVE  m = n
    BY <1>1 DEF Tidy
  <2>1. all[n] \in Job /\ all[m] \in Job /\ n \in Nat /\ m \in Nat /\ Len(q) \in Nat
    BY <1>1, ConcatProperties, LenProperties, ElementOfSeq
  <2>2. all[n].id \in About(all[n])
    <3>1. all[n].id \in LocalId
      BY <2>1, JobFields
    <3> QED BY <3>1, NothingAssumption DEF About, LocalId
  <2>3. CASE n \in DOMAIN q /\ all[n] = q[n] /\ m \in DOMAIN q /\ all[m] = q[m]
    <3>1. Tidy(shell[sh], q)
      BY DEF JobsKnow
    <3> QED BY <2>3, <3>1 DEF Tidy
  <2>4. CASE n - Len(q) \in DOMAIN jobs /\ all[n] = jobs[n - Len(q)]
             /\ m - Len(q) \in DOMAIN jobs /\ all[m] = jobs[m - Len(q)]
    <3>1. m - Len(q) = n - Len(q)
      BY <2>4
    <3> QED BY <2>1, <3>1
  <2>5. \A k \in DOMAIN q : all[n].id \in About(q[k]) => all[n].id # id
    BY <1>12
  <2>6. \A k \in DOMAIN jobs : all[n].id \in About(jobs[k]) => all[n].id = id
    OBVIOUS
  <2> QED BY <1>2, <2>2, <2>3, <2>4, <2>5, <2>6
<1>14. ASSUME NEW n \in DOMAIN queue'[sh] PROVE Promised(queue[sh][n])'
  <2> DEFINE all == q \o jobs
  <2>1. CASE n \in DOMAIN q /\ all[n] = q[n]
    <3> DEFINE job == q[n]
    <3>1. Promised(job) /\ About(job) \subseteq Rows(store) \ {id}
      BY <1>12, <2>1 DEF JobsKnow
    <3>2. queue'[sh][n] = job
      BY <1>1, <2>1
    <3> HIDE DEF job
    <3> QED BY <1>10, <3>1, <3>2 DEF Promised
  <2>2. CASE n - Len(q) \in DOMAIN jobs /\ all[n] = jobs[n - Len(q)]
    <3> DEFINE job == jobs[n - Len(q)]
    <3>1. queue'[sh][n] = job
      BY <1>1, <2>2
    <3>2. \A i \in About(job) : store'.local[i] = e
      BY <1>4, <2>2
    <3>3. job.op \in {"boundary", "outcome"} /\ About(job) # {} => result'[e] = job.status
      BY <2>2
    <3> HIDE DEF job
    <3> QED BY <3>1, <3>2, <3>3 DEF Promised
  <2> QED BY <1>1, <1>2, <1>14, <2>1, <2>2
<1>15. JobsKnow'
  BY <1>1, <1>9, <1>11, <1>13, <1>14 DEF JobsKnow
<1> QED BY <1>6, <1>8, <1>15

\* A command that is recorded: its status is what its jobs will write.
LEMMA FinishKnows ==
  ASSUME Sound(store), Truthful(store), Threads, Others, RowsOwned, JobsKnow, Told,
         NEW sh \in Shell, Finish(sh)
  PROVE  RowsOwned' /\ JobsKnow' /\ Told'
<1> DEFINE id == shell[sh].id
           e == shell[sh].event
<1>1. PICK to \in Dir, status \in Status :
        \E jobs \in Seq(JobOf(id, status)) :
          Return(sh, to, jobs) /\ result' = [result EXCEPT ![e] = status]
  BY FinishReturns
<1> DEFINE own == JobOf(id, status)
<1>2. PICK jobs \in Seq(own) :
        Return(sh, to, jobs) /\ result' = [result EXCEPT ![e] = status]
  BY <1>1
<1>3. own \subseteq Job
  BY DEF JobOf
<1>4. \A n \in DOMAIN jobs : jobs[n] \in own
  <2> HIDE DEF own
  <2> QED BY ElementOfSeq, LenProperties
<1>5. jobs \in Seq(Job)
  <2> HIDE DEF own
  <2> QED BY <1>3, WiderJobs
<1>6. shell[sh].pc = "running" /\ e \in EventId /\ store' = store
  BY LineUnderWay DEF Finish
<1>7. result'[e] = status /\ \A f \in EventId \ {e} : result'[f] = result[f]
  BY <1>2, <1>6 DEF Others
<1>8. \A n \in DOMAIN jobs :
        /\ About(jobs[n]) \subseteq {id} /\ jobs[n].op # "drop"
        /\ jobs[n].op \in {"boundary", "outcome"} /\ About(jobs[n]) # {} =>
             jobs[n].status = status
  BY <1>4 DEF JobOf, About
<1> QED BY <1>2, <1>5, <1>6, <1>7, <1>8, ReturnKnows

\* A command that is refused: its row's removal is all that is queued for it.
LEMMA RefuseKnows ==
  ASSUME Sound(store), Truthful(store), Threads, RowsOwned, JobsKnow, Told,
         NEW sh \in Shell, Refuse(sh)
  PROVE  RowsOwned' /\ JobsKnow' /\ Told'
<1> DEFINE id == shell[sh].id
           job == [op |-> "drop", id |-> id]
           jobs == Append(Uncount(sh), job)
<1>1. PICK to \in Dir : Return(sh, to, RefusedJobs(sh))
  BY DEF Refuse
<1>2. shell[sh].pc = "running" /\ store' = store /\ result' = result /\ id \in LocalId
  BY LineUnderWay DEF Refuse
<1>3. job \in Job /\ Uncount(sh) \in Seq(Job) /\ jobs \in Seq(Job) /\ jobs = RefusedJobs(sh)
  BY <1>2, JobsOfLine, JobsQueued DEF RefusedJobs
<1>4. \/ Uncount(sh) = <<>>
      \/ \E taken : taken.op = "forget_entered" /\ Uncount(sh) = <<taken>>
  BY DEF Uncount
<1>5. \A n \in DOMAIN jobs :
        \/ jobs[n] = job /\ n = Len(jobs)
        \/ jobs[n].op = "forget_entered"
  BY <1>3, <1>4, AppendProperties
<1> HIDE DEF jobs
<1>6. \A n \in DOMAIN jobs : /\ About(jobs[n]) \subseteq {id}
                             /\ jobs[n].op \notin {"boundary", "outcome"}
                             /\ jobs[n].op = "drop" => n = Len(jobs)
                             /\ About(jobs[n]) # {} => n = Len(jobs)
  BY <1>5 DEF About
<1>7. Return(sh, to, jobs)
  BY <1>1, <1>3
<1> QED BY <1>2, <1>3, <1>6, <1>7, ReturnKnows

\* A line that is entered owns a row nobody had, and has no outcome.
LEMMA EnterKnows ==
  ASSUME Sound(store), Truthful(store), Threads, RowsOwned, JobsKnow, Told,
         "trim" \notin Doing, NEW sh \in Shell, NEW line \in Line, Enter(sh, line)
  PROVE  RowsOwned' /\ JobsKnow' /\ Told'
<1> DEFINE i == NextId(store)
           e == CHOOSE e \in Unused : TRUE
<1>1. i \in LocalId /\ e \in EventId /\ store.event[e] = None
  BY DEF Enter, Unused, Known
<1>2. PICK tie \in [EventId -> Tie] : store' = AppendEntry(store, e, line, tie)
  BY DEF Enter
<1>3. queue' = queue /\ result' = result /\ shell[sh].pc = "prompt"
      /\ (\A other \in Shell \ {sh} : shell'[other] = shell[other])
      /\ UnderWay(shell'[sh]) = {i} /\ shell'[sh].event = e
      /\ UnderWay(shell[sh]) = {}
  BY DEF Enter, Threads, UnderWay, ShellState
<1> HIDE DEF i, e
<1>4. /\ store'.history = [store.history EXCEPT ![i] = line]
      /\ store'.local = [store.local EXCEPT ![i] = e]
      /\ store'.outcome = store.outcome
      /\ Elsewhere(store, store', {e})
      /\ store'.event[e].done = None
      /\ store'.projection[e] # None
      /\ Mark(store'.projection[e]) = Mark(store'.event[e])
  <2> DEFINE s == store
             t == store'
  <2>1. Sound(s) /\ NextId(s) = i /\ s.event[e] = None /\ t = AppendEntry(s, e, line, tie)
    BY <1>1, <1>2 DEF i
  <2> HIDE DEF s, t
  <2>2. /\ t.history = [s.history EXCEPT ![i] = line]
        /\ t.local = [s.local EXCEPT ![i] = e] /\ t.outcome = s.outcome
        /\ Elsewhere(s, t, {e}) /\ t.event[e].done = None
        /\ t.projection[e] # None /\ Mark(t.projection[e]) = Mark(t.event[e])
    BY <1>1, <2>1, AppendEntryChanges
  <2> QED BY <2>2 DEF s, t
<1>5. i \notin Rows(store)
  BY <1>1, NextIdIsNew DEF i, LocalId
<1>6. /\ i \in Rows(store') /\ store'.local[i] = e
      /\ \A j \in Rows(store) : j \in Rows(store') /\ store'.local[j] = store.local[j]
                                /\ store.local[j] \in EventId \ {e}
  <2>1. \A j \in Rows(store) : store.local[j] \in EventId \ {e}
    BY <1>1, RowsApart
  <2>2. \A j \in LocalId : /\ store'.history[j] = IF j = i THEN line ELSE store.history[j]
                           /\ store'.local[j] = IF j = i THEN e ELSE store.local[j]
    BY <1>4 DEF Sound, Store
  <2> QED BY <1>1, <1>5, <2>1, <2>2, HistoryAssumption DEF Rows
<1>7. /\ Owned(sh)' = Owned(sh) \cup {i}
      /\ \A other \in Shell \ {sh} : Owned(other)' = Owned(other)
      /\ \A other \in Shell : i \notin Owned(other)
  BY <1>3, <1>5 DEF Owned, RowsOwned
<1>8. RowsOwned'
  <2>1. \A other \in Shell : Owned(other)' \subseteq Rows(store')
    BY <1>6, <1>7 DEF RowsOwned
  <2>2. \A one, other \in Shell : one # other => Owned(one)' \cap Owned(other)' = {}
    BY <1>7 DEF RowsOwned
  <2> QED BY <2>1, <2>2 DEF RowsOwned
<1>9. ASSUME NEW other \in Shell PROVE Tidy(shell'[other], queue'[other])
  <2>1. CASE other = sh
    <3>1. i \notin Queued(queue[sh])
      BY <1>7 DEF Owned
    <3> QED BY <1>3, <2>1, <3>1 DEF Tidy, JobsKnow
  <2>2. CASE other # sh
    BY <1>3, <2>2 DEF JobsKnow
  <2> QED BY <2>1, <2>2
<1>10. ASSUME NEW other \in Shell PROVE Running(shell[other])'
  <2>1. CASE other = sh
    BY <1>3, <1>4, <1>6, <2>1 DEF Running
  <2>2. CASE other # sh
    <3>1. ASSUME NEW j \in UnderWay(shell[other])
          PROVE  /\ store'.local[j] = shell[other].event
                 /\ store'.event[shell[other].event].done = None
      <4>1. j \in Rows(store)
        BY DEF RowsOwned, Owned
      <4>2. store.local[j] = shell[other].event /\ store.event[shell[other].event].done = None
        BY DEF JobsKnow, Running
      <4> QED BY <1>4, <1>6, <4>1, <4>2 DEF Elsewhere
    <3> QED BY <1>3, <2>2, <3>1 DEF Running
  <2> QED BY <2>1, <2>2
<1>11. ASSUME NEW other \in Shell, NEW n \in DOMAIN queue'[other]
       PROVE  Promised(queue[other][n])'
  <2>1. Promised(queue[other][n]) /\ queue' = queue
    BY <1>3 DEF JobsKnow
  <2>2. \A j \in About(queue[other][n]) : store'.local[j] = store.local[j]
    <3>1. About(queue[other][n]) \subseteq Rows(store)
      BY <1>3 DEF RowsOwned, Owned, Queued
    <3> QED BY <1>6, <3>1
  <2> QED BY <1>3, <2>1, <2>2 DEF Promised
<1>12. JobsKnow'
  BY <1>9, <1>10, <1>11 DEF JobsKnow
<1>13. ASSUME NEW f \in EventId, store'.event[f] # None
       PROVE  /\ Applied(store', f)
              /\ store'.event[f].done # None =>
                   result[f] # None /\ store'.event[f].done.status = result[f]
  <2>1. CASE f = e
    BY <1>4, <2>1 DEF Applied, ProjectionOf
  <2>2. CASE f # e
    BY <1>4, <1>13, <2>2 DEF Told, Elsewhere, Applied, ProjectionOf
  <2> QED BY <2>1, <2>2
<1>14. ASSUME NEW j \in LocalId, store'.outcome[j] # None
       PROVE  /\ store'.history[j] # None
              /\ store'.event[store'.local[j]].done = store'.outcome[j]
  <2>1. j \in Rows(store) /\ store.event[store.local[j]].done = store.outcome[j]
    BY <1>4, <1>14 DEF Told, Rows
  <2>2. j \in Rows(store') /\ store'.local[j] = store.local[j]
        /\ store.local[j] \in EventId \ {e}
    BY <1>6, <2>1
  <2> QED BY <1>4, <2>1, <2>2 DEF Elsewhere, Rows
<1>15. Told'
  BY <1>3, <1>13, <1>14 DEF Told
<1> QED BY <1>8, <1>12, <1>15

\* Every step leaves every owner knowing what it owns.
LEMMA EveryStepKnows ==
  ASSUME RowsGoByRule, OutcomesInv, OnlyDoing, [Next]_vars
  PROVE  OutcomesInv'
<1>1. /\ LogInv /\ Sound(store) /\ Truthful(store) /\ Threads /\ Others
      /\ RowsOwned /\ JobsKnow /\ Told
  BY LogInvParts DEF OutcomesInv, RowsInv
<1>2. RowsInv'
  BY <1>1, EveryStepKeeps, EveryStepTells DEF RowsInv
<1> SUFFICES RowsOwned' /\ JobsKnow' /\ Told'
  BY <1>2 DEF OutcomesInv
<1>3. /\ "clear" \notin Doing /\ "forget" \notin Doing /\ "trim" \notin Doing
      /\ "cli" \notin Doing
  BY DEF RowsGoByRule
<1>4. cli = {} /\ \A sh \in Shell :
        /\ trim[sh] = Idle
        /\ shell[sh].pc \in {"prompt", "entered", "running"}
        /\ ~ Working(sh, "trim")
  <2>1. ASSUME NEW sh \in Shell, Working(sh, "trim") PROVE FALSE
    <3>1. Head(queue[sh]) \in Allowed
      BY <2>1, HeadTailProperties DEF Working, OnlyDoing
    <3> QED BY <1>3, <2>1, <3>1 DEF Working, Allowed
  <2>2. \A sh \in Shell : shell[sh].pc \in {"prompt", "entered", "running"}
    BY <1>1, <1>3 DEF OnlyDoing, ShellDoes, Threads, ShellState, Loop
  <2> QED BY <1>3, <2>1, <2>2 DEF OnlyDoing
<1>5. ASSUME NEW sh \in Shell, Prompt(sh) \/ Continue(sh)
      PROVE  RowsOwned' /\ JobsKnow' /\ Told'
  <2>1. CASE \E line \in Line : Enter(sh, line)
    BY <1>1, <1>3, <2>1, EnterKnows
  <2>2. CASE Finish(sh)
    BY <1>1, <2>2, FinishKnows
  <2>3. CASE Refuse(sh)
    BY <1>1, <2>3, RefuseKnows
  <2>4. CASE Count(sh)
    <3>1. /\ queue' = queue /\ result' = result
          /\ \A other \in Shell : UnderWay(shell'[other]) = UnderWay(shell[other])
                                  /\ shell'[other].event = shell[other].event
      <4>1. queue' = queue /\ result' = result
        BY <2>4 DEF Count
      <4>2. /\ \A other \in Shell \ {sh} : shell'[other] = shell[other]
            /\ shell[sh].pc = "entered" /\ shell'[sh].pc = "running"
            /\ shell'[sh].id = shell[sh].id /\ shell'[sh].event = shell[sh].event
        BY <1>1, <2>4 DEF Count, Threads, ShellState
      <4> QED BY <4>1, <4>2 DEF UnderWay
    <3>2. Released
      BY <1>1, <3>1 DEF Released, JobsKnow, Tidy
    <3>3. /\ store'.history = store.history /\ store'.outcome = store.outcome
          /\ store'.local = store.local /\ store'.event = store.event
          /\ store'.projection = store.projection
      BY <1>1, <2>4 DEF Count, RecordRun, Sound, Store
    <3> QED BY <1>1, <3>1, <3>2, <3>3, RunsKnow
  <2> QED BY <1>3, <1>4, <1>5, <2>1, <2>2, <2>3, <2>4
       DEF Prompt, Continue, ForgetLine, BeginClear, Leave, ClearRows, ClearRuns,
           ReadForgotten, ForgetLog
<1>6. ASSUME NEW sh \in Shell, Write(sh)
      PROVE  RowsOwned' /\ JobsKnow' /\ Told'
  <2>1. CASE RunBoundary(sh)
    BY <1>1, <2>1, RunBoundaryKnows
  <2>2. CASE RunOnRow(sh)
    BY <1>1, <2>2, RunOnRowKnows
  <2>3. CASE RunAlsoRan(sh) \/ RunForgetEntered(sh)
    <3>1. PICK op \in {"also_ran", "forget_entered"} : Working(sh, op)
      BY <2>3 DEF RunAlsoRan, RunForgetEntered
    <3>2. Dequeue(sh) /\ result' = result
          /\ \A other \in Shell : /\ shell'[other].pc = shell[other].pc
                                  /\ shell'[other].id = shell[other].id
                                  /\ shell'[other].event = shell[other].event
      BY <1>1, <2>3 DEF RunAlsoRan, RunForgetEntered, Threads, ShellState
    <3>3. Released
      BY <1>1, <3>1, <3>2, DequeueReleases
    <3>4. /\ store'.history = store.history /\ store'.outcome = store.outcome
          /\ store'.local = store.local /\ store'.event = store.event
          /\ store'.projection = store.projection
      BY <1>1, <2>3 DEF RunAlsoRan, RunForgetEntered, Recorded, RecordRun, TakeBackRun, Sound,
                        Store
    <3> QED BY <1>1, <3>2, <3>3, <3>4, RunsKnow
  <2> QED BY <1>4, <1>6, <2>1, <2>2, <2>3
       DEF Write, SkipTrim, ReadDoomed, HideDoomed, ReadOutcomes, SweepOutcomes, SweepRows, Idle
<1>7. ASSUME NEW sh \in Shell, Crash(sh)
      PROVE  RowsOwned' /\ JobsKnow' /\ Told'
  <2>1. /\ queue'[sh] = <<>> /\ UnderWay(shell'[sh]) = {}
        /\ \A other \in Shell \ {sh} : shell'[other] = shell[other]
                                       /\ queue'[other] = queue[other]
        /\ result' = result /\ store' = store
    BY <1>1, <1>7 DEF Crash, Threads, UnderWay, AtPrompt
  <2>2. Released
    <3>1. Tidy(shell'[sh], queue'[sh]) /\ Queued(queue'[sh]) = {}
      BY <2>1 DEF Tidy, Queued
    <3> QED BY <1>1, <2>1, <3>1 DEF Released, JobsKnow
  <2> QED BY <1>1, <2>1, <2>2, RunsKnow
<1>8. CASE CliRead \/ CliDelete
  BY <1>3, <1>4, <1>8 DEF CliRead, CliDelete
<1>9. CASE UNCHANGED vars
  <2>1. Released
    BY <1>1, <1>9 DEF Released, JobsKnow, vars
  <2> QED BY <1>1, <1>9, <2>1, RunsKnow DEF vars
<1> QED BY <1>5, <1>6, <1>7, <1>8, <1>9 DEF Next

\* So they do wherever rows go at a rule's word only.
LEMMA OutcomesInvHolds ==
  ASSUME RowsGoByRule
  PROVE  Spec => []OutcomesInv
<1>1. Init => OutcomesInv
  <2> SUFFICES ASSUME Init PROVE OutcomesInv
    OBVIOUS
  <2>1. RowsInv
    BY InitIsSound, EmptyStoreTells DEF Init, RowsInv
  <2>2. \A sh \in Shell : queue[sh] = <<>> /\ UnderWay(shell[sh]) = {}
    BY DEF Init, UnderWay, AtPrompt
  <2>3. \A sh \in Shell : Queued(queue[sh]) = {} /\ Tidy(shell[sh], queue[sh])
    BY <2>2 DEF Queued, Tidy
  <2>4. RowsOwned /\ JobsKnow
    <3>1. \A sh \in Shell : Owned(sh) = {} /\ Running(shell[sh]) /\ DOMAIN queue[sh] = {}
      BY <2>2, <2>3 DEF Owned, Running
    <3> QED BY <2>3, <3>1 DEF RowsOwned, JobsKnow
  <2>5. Told
    BY DEF Init, EmptyStore, Told
  <2> QED BY <2>1, <2>4, <2>5 DEF OutcomesInv
<1>2. OutcomesInv /\ OnlyDoing /\ [Next]_vars => OutcomesInv'
  BY EveryStepKnows
<1> QED BY <1>1, <1>2, OnlyDoingHolds, PTL DEF Spec

(***************************************************************************)
(* Where rows go at a rule's word only, an outcome is joined to the row    *)
(* and the event of the very command that reported it, for any number of   *)
(* shells appending, refusing, rewriting, completing and being killed at   *)
(* once (track/outcome.rs, track/writer.rs).  What carries it is           *)
(* ownership: a row's jobs are in one queue, behind each other, and when   *)
(* its id is given out again none of them is left.                         *)
(***************************************************************************)
THEOREM OutcomeIsOwnHolds == RowsGoByRule => (Spec => []OutcomeIsOwn)
<1> SUFFICES ASSUME RowsGoByRule PROVE Spec => []OutcomeIsOwn
  OBVIOUS
<1>1. OutcomesInv => OutcomeIsOwn
  BY DEF OutcomesInv, Told, OutcomeIsOwn, Known, Rows
<1>2. Spec => []OutcomesInv
  BY OutcomesInvHolds
<1> QED BY <1>1, <1>2, PTL

(***************************************************************************)
(* And no outcome is left behind that nothing can join to (outcome.rs):    *)
(* none is written for a row that has been dropped.                        *)
(***************************************************************************)
THEOREM NoOrphanOutcomeHolds == RowsGoByRule => (Spec => []NoOrphanOutcome)
<1> SUFFICES ASSUME RowsGoByRule PROVE Spec => []NoOrphanOutcome
  OBVIOUS
<1>1. OutcomesInv => NoOrphanOutcome
  BY DEF OutcomesInv, Told, NoOrphanOutcome
<1>2. Spec => []OutcomesInv
  BY OutcomesInvHolds
<1> QED BY <1>1, <1>2, PTL

(***************************************************************************)
(* And this machine's own events are applied as they are written: the      *)
(* projection has the event's stamp after every transaction, so `history   *)
(* status` has nothing to report (track/sync/projection.rs).               *)
(***************************************************************************)
THEOREM NothingPendingHolds == RowsGoByRule => (Spec => []NothingPending)
<1> SUFFICES ASSUME RowsGoByRule PROVE Spec => []NothingPending
  OBVIOUS
<1>1. OutcomesInv => NothingPending
  BY DEF OutcomesInv, Told, NothingPending, Known
<1>2. Spec => []OutcomesInv
  BY OutcomesInvHolds
<1> QED BY <1>1, <1>2, PTL

-----------------------------------------------------------------------------
(***************************************************************************)
(* Counting.  A run is counted when its line is entered or by the boundary *)
(* behind it, and taken back by forget_entered when a rule kept something  *)
(* else; the event of the command comes to stand behind the run when its   *)
(* outcome is written.  In between the run is owed to the command.  While  *)
(* rows go at a rule's word only, nothing is put in a line's place before  *)
(* it runs, every line is a command, and nobody changes directory, what is *)
(* counted is at least what events stand behind and commands are owed.     *)
(***************************************************************************)
RunsByRule == Doing \subseteq {"refuse", "crash"} /\ Unparsed \notin Status

NobodyMoves == [][\A sh \in Shell : shell'[sh].dir = shell[sh].dir]_vars

\* What the two threads of a shell take its directory to be.
JobIn(dir) ==
  {job \in Job : /\ job.op = "boundary" => job.from = dir /\ job.to = dir
                 /\ job.op = "also_ran" => job.from = dir
                 /\ job.op = "forget_entered" => job.dir = dir}

InPlace ==
  \A sh \in Shell :
    shell[sh].current = shell[sh].dir /\ queue[sh] \in Seq(JobIn(shell[sh].dir))

RunAt(dir, line) == [imported |-> FALSE, dir |-> dir, line |-> line]

(***************************************************************************)
(* A queue and, job by job, the events its jobs were queued for.  One      *)
(* command's jobs follow each other: a run taken back, a boundary, further *)
(* lines a rule kept, a rewrite, an outcome.  `text` is the line each      *)
(* command goes down as, `claim` the run each is owed or stands behind.    *)
(***************************************************************************)
Has(q, cs, op, e) == \E n \in DOMAIN q : q[n].op = op /\ cs[n] = e

Before(a, b) ==
  /\ \/ a.op \in {"forget_entered", "also_ran", "rewrite"}
     \/ a.op = "boundary" /\ a.id = None
  /\ b.op # "forget_entered"
  /\ b.op = "boundary" => a.op = "forget_entered" /\ b.line # None

\* What is still to be done about event e of s.
Due(job, e, q, cs, dir, s, claim, text) ==
  /\ s.event[e] # None /\ s.event[e].done = None
  /\ \A i \in About(job) : s.local[i] = e
  /\ job.op = "forget_entered" =>
       /\ claim[e] = RunAt(dir, job.line)
       /\ Has(q, cs, "outcome", e) => Has(q, cs, "boundary", e)
  /\ job.op = "boundary" =>
       /\ job.line = None \/ job.line = text[e]
       /\ job.line = None => claim[e] = RunAt(dir, text[e])
       /\ job.id # None => s.event[e].line = text[e]
  /\ job.op = "rewrite" => job.line = text[e]
  /\ job.op = "outcome" =>
       /\ Has(q, cs, "boundary", e) \/ claim[e] = RunAt(dir, text[e])
       /\ CanAdvance(s.event[e]) => Has(q, cs, "rewrite", e) \/ s.event[e].line = text[e]

Accounts(q, cs, dir, s, claim, text) ==
  /\ cs \in Seq(EventId) /\ Len(cs) = Len(q)
  /\ \A m, n \in DOMAIN q : m < n /\ cs[m] = cs[n] => Before(q[m], q[n])
  /\ \A n \in DOMAIN q : Due(q[n], cs[n], q, cs, dir, s, claim, text)

\* A queue without its head.
LEMMA TailOfBoth ==
  ASSUME NEW q \in Seq(Job), q # <<>>, NEW cs \in Seq(EventId), Len(cs) = Len(q)
  PROVE  /\ Tail(cs) \in Seq(EventId) /\ Len(Tail(cs)) = Len(Tail(q))
         /\ 1 \in DOMAIN q /\ Head(q) = q[1] /\ Head(cs) = cs[1] /\ cs[1] \in EventId
         /\ \A n \in DOMAIN Tail(q) :
              /\ n \in Nat /\ n >= 1 /\ n + 1 \in DOMAIN q
              /\ Tail(q)[n] = q[n + 1] /\ Tail(cs)[n] = cs[n + 1]
         /\ \A n \in DOMAIN q : n # 1 => n - 1 \in DOMAIN Tail(q)
         /\ \A op, e : Has(q, cs, op, e) =>
              Has(Tail(q), Tail(cs), op, e) \/ (q[1].op = op /\ cs[1] = e)
         /\ \A op, e : Has(Tail(q), Tail(cs), op, e) => Has(q, cs, op, e)
<1>1. cs # <<>>
  BY EmptySeq
<1>2. /\ Tail(cs) \in Seq(EventId) /\ Len(Tail(cs)) = Len(cs) - 1
      /\ Head(cs) = cs[1] /\ \A n \in 1 .. Len(cs) - 1 : Tail(cs)[n] = cs[n + 1]
  BY <1>1, HeadTailProperties
<1>3. /\ Tail(q) \in Seq(Job) /\ Len(Tail(q)) = Len(q) - 1
      /\ Head(q) = q[1] /\ \A n \in 1 .. Len(q) - 1 : Tail(q)[n] = q[n + 1]
  BY HeadTailProperties
<1>4. /\ Len(q) \in Nat /\ Len(q) >= 1 /\ DOMAIN q = 1 .. Len(q)
      /\ DOMAIN Tail(q) = 1 .. Len(q) - 1
  BY <1>3, EmptySeq, LenProperties
<1>5. \A n \in DOMAIN Tail(q) :
        /\ n \in Nat /\ n >= 1 /\ n + 1 \in DOMAIN q
        /\ Tail(q)[n] = q[n + 1] /\ Tail(cs)[n] = cs[n + 1]
  BY <1>2, <1>3, <1>4
<1>6. \A n \in DOMAIN q : n # 1 => n - 1 \in DOMAIN Tail(q) /\ (n - 1) + 1 = n
  BY <1>4
<1>7. 1 \in DOMAIN q
  BY <1>4
<1>8. cs[1] \in EventId
  BY <1>1, ElementOfSeq, <1>4
<1>9. ASSUME NEW op, NEW e, Has(q, cs, op, e)
      PROVE  Has(Tail(q), Tail(cs), op, e) \/ (q[1].op = op /\ cs[1] = e)
  BY <1>5, <1>6, <1>9 DEF Has
<1>10. ASSUME NEW op, NEW e, Has(Tail(q), Tail(cs), op, e) PROVE Has(q, cs, op, e)
  BY <1>5, <1>10 DEF Has
<1> QED BY <1>2, <1>3, <1>5, <1>6, <1>7, <1>8, <1>9, <1>10

\* What is due to a command is due after a step about another.
LEMMA DueElsewhere ==
  ASSUME NEW q \in Seq(Job), q # <<>>, NEW cs \in Seq(EventId), Len(cs) = Len(q),
         NEW dir, NEW s, NEW claim, NEW text, NEW job, NEW e, e # cs[1],
         Due(job, e, q, cs, dir, s, claim, text),
         NEW t, NEW next, t.event[e] = s.event[e], next[e] = claim[e],
         \A i \in About(job) : t.local[i] = s.local[i]
  PROVE  Due(job, e, Tail(q), Tail(cs), dir, t, next, text)
<1>1. \A op : Has(Tail(q), Tail(cs), op, e) <=> Has(q, cs, op, e)
  BY TailOfBoth
<1> QED BY <1>1 DEF Due

\* What is behind the head of a queue, once the head is done, is in order if the jobs
\* of the head's own command are.
LEMMA HeadDone ==
  ASSUME NEW q \in Seq(Job), q # <<>>, NEW cs, NEW dir, NEW s, NEW claim, NEW text,
         Accounts(q, cs, dir, s, claim, text),
         NEW t, NEW next, \A e \in EventId \ {cs[1]} : t.event[e] = s.event[e] /\ next[e] = claim[e],
         \A n \in DOMAIN q : \A i \in About(q[n]) : t.local[i] = s.local[i],
         \A n \in DOMAIN q : n # 1 /\ cs[n] = cs[1] =>
           Due(q[n], cs[n], Tail(q), Tail(cs), dir, t, next, text)
  PROVE  Accounts(Tail(q), Tail(cs), dir, t, next, text)
<1>1. cs \in Seq(EventId) /\ Len(cs) = Len(q)
  BY DEF Accounts
<1>2. /\ Tail(cs) \in Seq(EventId) /\ Len(Tail(cs)) = Len(Tail(q))
      /\ \A n \in DOMAIN Tail(q) :
           /\ n \in Nat /\ n >= 1 /\ n + 1 \in DOMAIN q
           /\ Tail(q)[n] = q[n + 1] /\ Tail(cs)[n] = cs[n + 1]
  BY <1>1, TailOfBoth
<1>3. ASSUME NEW m \in DOMAIN Tail(q), NEW n \in DOMAIN Tail(q), m < n,
             Tail(cs)[m] = Tail(cs)[n]
      PROVE  Before(Tail(q)[m], Tail(q)[n])
  <2>1. m + 1 < n + 1
    BY <1>2, <1>3
  <2> QED BY <1>2, <1>3, <2>1 DEF Accounts
<1>4. ASSUME NEW n \in DOMAIN Tail(q)
      PROVE  Due(Tail(q)[n], Tail(cs)[n], Tail(q), Tail(cs), dir, t, next, text)
  <2> DEFINE m == n + 1
  <2>1. m \in DOMAIN q /\ m # 1 /\ Tail(q)[n] = q[m] /\ Tail(cs)[n] = cs[m]
    BY <1>2
  <2> HIDE DEF m
  <2>2. Due(q[m], cs[m], q, cs, dir, s, claim, text)
    BY <2>1 DEF Accounts
  <2>3. cs[m] \in EventId
    BY <1>1, <2>1, ElementOfSeq, LenProperties
  <2>4. CASE cs[m] # cs[1]
    BY <1>1, <2>1, <2>2, <2>3, <2>4, DueElsewhere
  <2> QED BY <2>1, <2>4
<1> QED BY <1>2, <1>3, <1>4 DEF Accounts

\* What may be done to the command at the head, kind of job by kind of job.
HeadDoes(q, cs, dir, s, claim, text, t, next) ==
  LET job == q[1] e == cs[1] IN
  \/ job.op \in {"outcome", "drop"}
  \/ job.op = "boundary" /\ job.id # None
  \/ job.op = "boundary" /\ t.event[e] = s.event[e] /\ next[e] = RunAt(dir, text[e])
  \/ job.op = "forget_entered" /\ t.event[e] = s.event[e]
  \/ job.op = "also_ran" /\ t.event[e] = s.event[e] /\ next[e] = claim[e]
  \/ /\ job.op = "rewrite" /\ next[e] = claim[e]
     /\ t.event[e] # None /\ t.event[e].done = None
     /\ CanAdvance(t.event[e]) => t.event[e].line = text[e]

\* Whatever it was, what is behind it is in order.
LEMMA HeadTaken ==
  ASSUME NEW q \in Seq(Job), q # <<>>, NEW cs, NEW dir, NEW s, NEW claim, NEW text,
         Accounts(q, cs, dir, s, claim, text),
         NEW t, NEW next, \A e \in EventId \ {cs[1]} : t.event[e] = s.event[e] /\ next[e] = claim[e],
         \A n \in DOMAIN q : \A i \in About(q[n]) : t.local[i] = s.local[i],
         HeadDoes(q, cs, dir, s, claim, text, t, next)
  PROVE  Accounts(Tail(q), Tail(cs), dir, t, next, text)
<1> DEFINE head == q[1]
           e == cs[1]
<1>1. /\ cs \in Seq(EventId) /\ Len(cs) = Len(q) /\ 1 \in DOMAIN q
      /\ \A op : Has(q, cs, op, e) /\ op # head.op => Has(Tail(q), Tail(cs), op, e)
      /\ Due(head, e, q, cs, dir, s, claim, text)
  BY TailOfBoth DEF Accounts
<1> SUFFICES ASSUME NEW n \in DOMAIN q, n # 1, cs[n] = e
             PROVE  Due(q[n], e, Tail(q), Tail(cs), dir, t, next, text)
  BY HeadDone
<1>2. 1 < n
  BY LenProperties
<1>3. Before(head, q[n]) /\ Due(q[n], e, q, cs, dir, s, claim, text)
  BY <1>1, <1>2 DEF Accounts
<1>4. \A i \in About(q[n]) : t.local[i] = e
  BY <1>3 DEF Due
<1>5. CASE head.op \in {"outcome", "drop"} \/ (head.op = "boundary" /\ head.id # None)
  BY <1>3, <1>5 DEF Before
<1>6. CASE head.op = "boundary" /\ t.event[e] = s.event[e] /\ next[e] = RunAt(dir, text[e])
  BY <1>1, <1>3, <1>4, <1>6 DEF Before, Due
<1>7. CASE head.op = "forget_entered" /\ t.event[e] = s.event[e]
  <2>1. Has(q, cs, "outcome", e) => Has(q, cs, "boundary", e)
    BY <1>1, <1>7 DEF Due
  <2>2. q[n].op = "outcome" => Has(q, cs, "outcome", e)
    BY DEF Has
  <2> QED BY <1>1, <1>3, <1>4, <1>7, <2>1, <2>2 DEF Before, Due
<1>8. CASE head.op = "also_ran" /\ t.event[e] = s.event[e] /\ next[e] = claim[e]
  BY <1>1, <1>3, <1>4, <1>8 DEF Before, Due
<1>9. CASE /\ head.op = "rewrite" /\ next[e] = claim[e]
           /\ t.event[e] # None /\ t.event[e].done = None
           /\ CanAdvance(t.event[e]) => t.event[e].line = text[e]
  BY <1>1, <1>3, <1>4, <1>9 DEF Before, Due
<1> QED BY <1>5, <1>6, <1>7, <1>8, <1>9 DEF HeadDoes

\* The jobs of commands that are queued behind those of others.
LEMMA BothAccounts ==
  ASSUME NEW q \in Seq(Job), NEW jobs \in Seq(Job), NEW cs, NEW js, NEW dir, NEW s,
         NEW claim, NEW text,
         Accounts(q, cs, dir, s, claim, text), Accounts(jobs, js, dir, s, claim, text),
         \A m \in DOMAIN cs, n \in DOMAIN js : cs[m] # js[n]
  PROVE  Accounts(q \o jobs, cs \o js, dir, s, claim, text)
<1> DEFINE all == q \o jobs
           as == cs \o js
<1>1. /\ cs \in Seq(EventId) /\ Len(cs) = Len(q) /\ Len(q) \in Nat
      /\ js \in Seq(EventId) /\ Len(js) = Len(jobs) /\ Len(jobs) \in Nat
      /\ DOMAIN q = 1 .. Len(q) /\ DOMAIN jobs = 1 .. Len(jobs)
      /\ DOMAIN cs = 1 .. Len(q) /\ DOMAIN js = 1 .. Len(jobs)
  BY LenProperties DEF Accounts
<1>2. /\ all \in Seq(Job) /\ Len(all) = Len(q) + Len(jobs)
      /\ \A n \in 1 .. Len(q) + Len(jobs) :
           all[n] = IF n <= Len(q) THEN q[n] ELSE jobs[n - Len(q)]
  BY <1>1, ConcatProperties
<1>3. /\ as \in Seq(EventId) /\ Len(as) = Len(q) + Len(jobs)
      /\ \A n \in 1 .. Len(q) + Len(jobs) :
           as[n] = IF n <= Len(q) THEN cs[n] ELSE js[n - Len(q)]
  <2>1. /\ as \in Seq(EventId) /\ Len(as) = Len(cs) + Len(js)
        /\ \A n \in 1 .. Len(cs) + Len(js) :
             as[n] = IF n <= Len(cs) THEN cs[n] ELSE js[n - Len(cs)]
    <3>1. cs \in Seq(EventId) /\ js \in Seq(EventId)
      BY <1>1
    <3> QED BY <3>1, ConcatProperties
  <2> QED BY <1>1, <2>1
<1>4. DOMAIN all = 1 .. Len(q) + Len(jobs)
  BY <1>1, <1>2, LenProperties
<1> HIDE DEF all, as
<1>5. ASSUME NEW n \in DOMAIN q
      PROVE  n \in DOMAIN all /\ all[n] = q[n] /\ as[n] = cs[n]
  <2>1. n \in 1 .. Len(q) + Len(jobs) /\ n <= Len(q)
    BY <1>1
  <2> QED BY <1>2, <1>3, <1>4, <2>1
<1>6. ASSUME NEW n \in DOMAIN jobs
      PROVE  LET m == n + Len(q) IN m \in DOMAIN all /\ all[m] = jobs[n] /\ as[m] = js[n]
  <2> DEFINE m == n + Len(q)
  <2>1. m \in 1 .. Len(q) + Len(jobs) /\ ~ m <= Len(q) /\ m - Len(q) = n
    BY <1>1
  <2> HIDE DEF m
  <2>2. all[m] = jobs[n] /\ as[m] = js[n] /\ m \in DOMAIN all
    BY <1>2, <1>3, <1>4, <2>1
  <2> QED BY <2>2 DEF m
<1>7. ASSUME NEW n \in DOMAIN all
      PROVE  \/ n \in DOMAIN q /\ all[n] = q[n] /\ as[n] = cs[n] /\ n \in DOMAIN cs
             \/ LET m == n - Len(q) IN
                m \in DOMAIN jobs /\ all[n] = jobs[m] /\ as[n] = js[m] /\ m \in DOMAIN js
  <2>1. n \in 1 .. Len(q) + Len(jobs)
    BY <1>4
  <2>2. CASE n <= Len(q)
    <3>1. n \in DOMAIN q /\ n \in DOMAIN cs
      BY <1>1, <2>1, <2>2
    <3> QED BY <1>5, <3>1
  <2>3. CASE ~ n <= Len(q)
    <3>1. n - Len(q) \in DOMAIN jobs /\ n - Len(q) \in DOMAIN js
      BY <1>1, <2>1, <2>3
    <3>2. all[n] = jobs[n - Len(q)] /\ as[n] = js[n - Len(q)]
      BY <1>2, <1>3, <2>1, <2>3
    <3> QED BY <3>1, <3>2
  <2> QED BY <2>2, <2>3
<1>8. ASSUME NEW n \in DOMAIN cs, NEW op
      PROVE  Has(all, as, op, cs[n]) <=> Has(q, cs, op, cs[n])
  <2>1. Has(q, cs, op, cs[n]) => Has(all, as, op, cs[n])
    BY <1>5 DEF Has
  <2>2. Has(all, as, op, cs[n]) => Has(q, cs, op, cs[n])
    BY <1>7 DEF Has
  <2> QED BY <2>1, <2>2
<1>9. ASSUME NEW n \in DOMAIN js, NEW op
      PROVE  Has(all, as, op, js[n]) <=> Has(jobs, js, op, js[n])
  <2>1. Has(jobs, js, op, js[n]) => Has(all, as, op, js[n])
    BY <1>6 DEF Has
  <2>2. Has(all, as, op, js[n]) => Has(jobs, js, op, js[n])
    BY <1>7 DEF Has
  <2> QED BY <2>1, <2>2
<1>10. ASSUME NEW m \in DOMAIN all, NEW n \in DOMAIN all, m < n, as[m] = as[n]
       PROVE  Before(all[m], all[n])
  <2>1. CASE m \in DOMAIN q /\ n \in DOMAIN q
    BY <1>5, <1>10, <2>1 DEF Accounts
  <2>2. CASE m - Len(q) \in DOMAIN jobs /\ n - Len(q) \in DOMAIN jobs
    <3> DEFINE k == m - Len(q)
               l == n - Len(q)
    <3>1. k < l /\ m \notin DOMAIN q /\ n \notin DOMAIN q
      BY <1>1, <1>4, <1>10, <2>2
    <3>2. /\ k \in DOMAIN jobs /\ all[m] = jobs[k] /\ as[m] = js[k]
          /\ l \in DOMAIN jobs /\ all[n] = jobs[l] /\ as[n] = js[l]
      BY <1>7, <3>1
    <3> HIDE DEF k, l
    <3> QED BY <1>10, <3>1, <3>2 DEF Accounts
  <2>3. CASE m \in DOMAIN q /\ n - Len(q) \in DOMAIN jobs
    <3>1. m \in DOMAIN cs /\ as[m] = cs[m]
      BY <1>1, <1>5, <2>3
    <3>2. n \notin DOMAIN q
      BY <1>1, <1>4, <2>3
    <3> QED BY <1>7, <1>10, <3>1, <3>2
  <2>4. ~ (m - Len(q) \in DOMAIN jobs /\ n \in DOMAIN q)
    BY <1>1, <1>4, <1>10
  <2> QED BY <1>7, <2>1, <2>2, <2>3, <2>4
<1>11. ASSUME NEW n \in DOMAIN all
       PROVE  Due(all[n], as[n], all, as, dir, s, claim, text)
  <2>1. CASE n \in DOMAIN q /\ all[n] = q[n] /\ as[n] = cs[n] /\ n \in DOMAIN cs
    <3>1. Due(q[n], cs[n], q, cs, dir, s, claim, text)
      BY <2>1 DEF Accounts
    <3> QED BY <1>8, <2>1, <3>1 DEF Due
  <2>2. ASSUME NEW m \in DOMAIN jobs, all[n] = jobs[m], as[n] = js[m], m \in DOMAIN js
        PROVE  Due(all[n], as[n], all, as, dir, s, claim, text)
    <3>1. Due(jobs[m], js[m], jobs, js, dir, s, claim, text)
      BY DEF Accounts
    <3> QED BY <1>9, <2>2, <3>1 DEF Due
  <2> QED BY <1>7, <2>1, <2>2
<1>12. Len(as) = Len(all)
  BY <1>2, <1>3
<1> QED BY <1>3, <1>10, <1>11, <1>12 DEF Accounts, all, as

-----------------------------------------------------------------------------
(***************************************************************************)
(* What is counted covers what is claimed.                                 *)
(***************************************************************************)
Claimants(claim, k) == {e \in EventId : claim[e] = k}

Covered(run, claim) == \A k \in RunKey : run[k] >= Cardinality(Claimants(claim, k))

\* A run more, and a run less.
More(run, k) == [run EXCEPT ![k] = @ + 1]
Less(run, k) == [run EXCEPT ![k] = IF @ > 0 THEN @ - 1 ELSE 0]

\* One event's claim is another.
Claims(claim, next, e, k) ==
  next[e] = k /\ \A f \in EventId \ {e} : next[f] = claim[f]

\* A run counted covers one more claim.
LEMMA ClaimTaken ==
  ASSUME NEW run \in [RunKey -> Nat], NEW claim, Covered(run, claim),
         NEW e \in EventId, NEW k \in RunKey,
         NEW next, Claims(claim, next, e, k)
  PROVE  Covered(More(run, k), next)
<1> DEFINE more == More(run, k)
<1> SUFFICES ASSUME NEW j \in RunKey
             PROVE  more[j] >= Cardinality(Claimants(next, j))
  BY DEF Covered
<1> USE DEF Claims, More, Less
<1>1. /\ IsFiniteSet(Claimants(claim, j)) /\ Cardinality(Claimants(claim, j)) \in Nat
      /\ Cardinality(Claimants(next, j)) \in Nat
  <2>1. Claimants(claim, j) \in SUBSET EventId /\ Claimants(next, j) \in SUBSET EventId
    BY DEF Claimants
  <2> QED BY <2>1, EventsAreFinite
<1>2. run[j] >= Cardinality(Claimants(claim, j)) /\ run[j] \in Nat
  BY DEF Covered
<1>3. CASE j = k
  <2> DEFINE both == Claimants(claim, j) \cup {e}
  <2>1. Claimants(next, j) \subseteq both
    BY DEF Claimants
  <2>2. /\ IsFiniteSet(both)
        /\ Cardinality(both) = Cardinality(Claimants(claim, j))
           \/ Cardinality(both) = Cardinality(Claimants(claim, j)) + 1
    BY <1>1, FS_AddElement
  <2> HIDE DEF both
  <2>3. Cardinality(Claimants(next, j)) <= Cardinality(both)
    BY <2>1, <2>2, FS_Subset
  <2> QED BY <1>1, <1>2, <1>3, <2>2, <2>3
<1>4. CASE j # k
  <2>1. Claimants(next, j) \subseteq Claimants(claim, j)
    BY <1>4 DEF Claimants
  <2>2. Cardinality(Claimants(next, j)) <= Cardinality(Claimants(claim, j))
    BY <1>1, <2>1, FS_Subset
  <2> QED BY <1>1, <1>2, <1>4, <2>2
<1> QED BY <1>3, <1>4

\* A run taken back is covered no more, and claimed no more.
LEMMA ClaimGiven ==
  ASSUME NEW run \in [RunKey -> Nat], NEW claim, Covered(run, claim),
         NEW e \in EventId, NEW k \in RunKey, claim[e] = k,
         NEW next, Claims(claim, next, e, None)
  PROVE  Covered(Less(run, k), next)
<1> DEFINE less == Less(run, k)
<1> SUFFICES ASSUME NEW j \in RunKey
             PROVE  less[j] >= Cardinality(Claimants(next, j))
  BY DEF Covered
<1> USE DEF Claims, More, Less
<1>1. /\ IsFiniteSet(Claimants(claim, j)) /\ Cardinality(Claimants(claim, j)) \in Nat
      /\ Cardinality(Claimants(next, j)) \in Nat
  <2>1. Claimants(claim, j) \in SUBSET EventId /\ Claimants(next, j) \in SUBSET EventId
    BY DEF Claimants
  <2> QED BY <2>1, EventsAreFinite
<1>2. run[j] >= Cardinality(Claimants(claim, j)) /\ run[j] \in Nat
  BY DEF Covered
<1>3. e \notin Claimants(next, j)
  BY NothingAssumption DEF Claimants
<1>4. CASE j = k
  <2> DEFINE rest == Claimants(claim, j) \ {e}
  <2>1. e \in Claimants(claim, j) /\ Claimants(next, j) \subseteq rest
    BY <1>3, <1>4 DEF Claimants
  <2>2. IsFiniteSet(rest) /\ Cardinality(rest) = Cardinality(Claimants(claim, j)) - 1
    BY <1>1, <2>1, FS_RemoveElement
  <2> HIDE DEF rest
  <2>3. Cardinality(Claimants(next, j)) <= Cardinality(rest)
    BY <2>1, <2>2, FS_Subset
  <2> QED BY <1>1, <1>2, <1>4, <2>2, <2>3
<1>5. CASE j # k
  <2>1. Claimants(next, j) \subseteq Claimants(claim, j)
    BY <1>3 DEF Claimants
  <2>2. Cardinality(Claimants(next, j)) <= Cardinality(Claimants(claim, j))
    BY <1>1, <2>1, FS_Subset
  <2> QED BY <1>1, <1>2, <1>5, <2>2
<1> QED BY <1>4, <1>5

\* More is counted, and nothing more is claimed.
LEMMA CoveredMore ==
  ASSUME NEW run \in [RunKey -> Nat], NEW claim, Covered(run, claim),
         NEW k \in RunKey
  PROVE  Covered(More(run, k), claim)
<1> DEFINE more == More(run, k)
<1> SUFFICES ASSUME NEW j \in RunKey
             PROVE  more[j] >= Cardinality(Claimants(claim, j))
  BY DEF Covered
<1> USE DEF More
<1>1. Cardinality(Claimants(claim, j)) \in Nat
  <2>1. Claimants(claim, j) \in SUBSET EventId
    BY DEF Claimants
  <2> QED BY <2>1, EventsAreFinite
<1>2. run[j] >= Cardinality(Claimants(claim, j)) /\ run[j] \in Nat
  BY DEF Covered
<1> QED BY <1>1, <1>2

-----------------------------------------------------------------------------
(***************************************************************************)
(* The books of all shells: `c` has each queued job's event.  An event is  *)
(* in one shell's books only, and stands behind the run it has claimed.    *)
(***************************************************************************)
AtWork(st) == st.pc \in {"entered", "running"}

Mine(st, cs) == (IF AtWork(st) THEN {st.event} ELSE {}) \cup {cs[n] : n \in DOMAIN cs}

Books(st, q, cs, s, claim, text) ==
  /\ Accounts(q, cs, st.dir, s, claim, text)
  /\ st.pc = "prompt" => ~ st.counted
  /\ AtWork(st) =>
       /\ st.event \in EventId /\ \A n \in DOMAIN cs : cs[n] # st.event
       /\ s.event[st.event] # None /\ s.event[st.event].done = None
       /\ s.event[st.event].line = st.line
       /\ st.counted => claim[st.event] = RunAt(st.dir, st.line)

Backed(s, claim, e) ==
  s.projection[e] # None =>
    (s.projection[e].run # None =>
       claim[e] = s.projection[e].run /\ s.event[e].done # None)

Ledger(s, sts, qs, c, claim, text) ==
  /\ Covered(s.run, claim)
  /\ \A e \in EventId : Backed(s, claim, e)
  /\ \A sh \in Shell : Books(sts[sh], qs[sh], c[sh], s, claim, text)
  /\ \A one, other \in Shell :
       one # other => Mine(sts[one], c[one]) \cap Mine(sts[other], c[other]) = {}

LedgerInv ==
  \E c \in [Shell -> Seq(EventId)], claim \in [EventId -> RunKey \cup {None}],
     text \in [EventId -> Line \cup {Blank}] : Ledger(store, shell, queue, c, claim, text)

\* What is in these books is as it was.
Untouched(st, q, cs, s, claim, text, t, next, told) ==
  /\ \A e \in Mine(st, cs) : /\ t.event[e] = s.event[e] /\ next[e] = claim[e]
                              /\ told[e] = text[e]
  /\ \A i \in Queued(q) : t.local[i] = s.local[i]

\* The books of a shell are in order after a step about somebody else's events.
LEMMA BooksSame ==
  ASSUME NEW st, NEW q \in Seq(Job), NEW cs, NEW s, NEW claim, NEW text,
         Books(st, q, cs, s, claim, text), NEW t, NEW next, NEW told,
         Untouched(st, q, cs, s, claim, text, t, next, told)
  PROVE  Books(st, q, cs, t, next, told)
<1>1. /\ cs \in Seq(EventId) /\ Len(cs) = Len(q)
      /\ \A m, n \in DOMAIN q : m < n /\ cs[m] = cs[n] => Before(q[m], q[n])
      /\ \A n \in DOMAIN q : Due(q[n], cs[n], q, cs, st.dir, s, claim, text)
  BY DEF Books, Accounts
<1>2. \A n \in DOMAIN q : cs[n] \in Mine(st, cs)
  BY <1>1, LenProperties DEF Mine
<1>3. ASSUME NEW n \in DOMAIN q
      PROVE  Due(q[n], cs[n], q, cs, st.dir, t, next, told)
  <2>1. Due(q[n], cs[n], q, cs, st.dir, s, claim, text)
    BY <1>1
  <2> QED BY <1>2, <2>1 DEF Due, Untouched, Queued
<1>4. AtWork(st) => st.event \in Mine(st, cs)
  BY DEF Mine
<1> QED BY <1>1, <1>3, <1>4 DEF Books, Accounts, Untouched

\* A step changes no books but sh's, which become cs.
OthersKeep(sh, c, claim, text, cs, next, told) ==
  \A other \in Shell \ {sh} :
    /\ shell'[other] = shell[other] /\ queue'[other] = queue[other]
    /\ Untouched(shell[other], queue[other], c[other], store, claim, text, store', next, told)
    /\ Mine(shell'[sh], cs) \cap Mine(shell[other], c[other]) = {}

\* What it changes of those, it may change if they are in order.
LEMMA OneShellBooks ==
  ASSUME Threads, NEW c \in [Shell -> Seq(EventId)], NEW claim, NEW text,
         Ledger(store, shell, queue, c, claim, text),
         NEW sh \in Shell, NEW cs \in Seq(EventId),
         NEW next \in [EventId -> RunKey \cup {None}],
         NEW told \in [EventId -> Line \cup {Blank}],
         OthersKeep(sh, c, claim, text, cs, next, told),
         Covered(store'.run, next), \A e \in EventId : Backed(store', next, e),
         Books(shell'[sh], queue'[sh], cs, store', next, told)
  PROVE  LedgerInv'
<1> DEFINE d == [c EXCEPT ![sh] = cs]
<1>1. d \in [Shell -> Seq(EventId)] /\ d[sh] = cs /\ \A other \in Shell \ {sh} : d[other] = c[other]
  OBVIOUS
<1> HIDE DEF d
<1>2. ASSUME NEW other \in Shell
      PROVE  Books(shell'[other], queue'[other], d[other], store', next, told)
  <2>1. CASE other = sh
    BY <1>1, <2>1
  <2>2. CASE other # sh
    <3>1. Books(shell[other], queue[other], c[other], store, claim, text)
      BY DEF Ledger
    <3>2. queue[other] \in Seq(Job)
      BY DEF Threads
    <3>3. Untouched(shell[other], queue[other], c[other], store, claim, text,
                    store', next, told)
      BY <2>2 DEF OthersKeep
    <3>4. Books(shell[other], queue[other], c[other], store', next, told)
      BY <3>1, <3>2, <3>3, BooksSame
    <3> QED BY <1>1, <2>2, <3>4 DEF OthersKeep
  <2> QED BY <2>1, <2>2
<1>3. ASSUME NEW one \in Shell, NEW other \in Shell, one # other
      PROVE  Mine(shell'[one], d[one]) \cap Mine(shell'[other], d[other]) = {}
  <2>1. CASE one # sh /\ other # sh
    BY <1>1, <1>3, <2>1 DEF Ledger, OthersKeep
  <2>2. CASE one = sh
    BY <1>1, <1>3, <2>2 DEF OthersKeep
  <2>3. CASE other = sh
    BY <1>1, <1>3, <2>3 DEF OthersKeep
  <2> QED BY <2>1, <2>2, <2>3
<1>4. Ledger(store', shell', queue', d, next, told)
  BY <1>2, <1>3 DEF Ledger
<1> QED BY <1>1, <1>4 DEF LedgerInv

\* The writer has done the job at the head of its queue.
LEMMA JobDone ==
  ASSUME Threads, NEW c \in [Shell -> Seq(EventId)],
         NEW claim \in [EventId -> RunKey \cup {None}],
         NEW text \in [EventId -> Line \cup {Blank}],
         Ledger(store, shell, queue, c, claim, text),
         NEW sh \in Shell, queue[sh] # <<>>, Dequeue(sh),
         NEW current, shell' = [shell EXCEPT ![sh].current = current],
         NEW next \in [EventId -> RunKey \cup {None}],
         NEW e, e = c[sh][1],
         \A f \in EventId \ {e} : /\ store'.event[f] = store.event[f]
                                  /\ store'.projection[f] = store.projection[f]
                                  /\ next[f] = claim[f],
         store'.local = store.local,
         Covered(store'.run, next), Backed(store', next, e),
         HeadDoes(queue[sh], c[sh], shell[sh].dir, store, claim, text, store', next)
  PROVE  LedgerInv'
<1> DEFINE st == shell[sh]
           q == queue[sh]
           cs == c[sh]
<1>1. /\ Books(st, q, cs, store, claim, text) /\ q \in Seq(Job)
      /\ cs \in Seq(EventId) /\ Len(cs) = Len(q)
  BY DEF Ledger, Books, Accounts, Threads
<1>2. /\ Tail(cs) \in Seq(EventId) /\ Len(Tail(cs)) = Len(Tail(q)) /\ e \in EventId
      /\ \A n \in DOMAIN Tail(q) : n + 1 \in DOMAIN q /\ Tail(cs)[n] = cs[n + 1]
      /\ 1 \in DOMAIN q
  BY <1>1, TailOfBoth
<1>3. DOMAIN cs = DOMAIN q /\ DOMAIN Tail(cs) = DOMAIN Tail(q)
  <2>1. Tail(q) \in Seq(Job)
    BY <1>1, HeadTailProperties
  <2> QED BY <1>1, <1>2, <2>1, LenProperties
<1>4. /\ shell'[sh].pc = st.pc /\ shell'[sh].event = st.event /\ shell'[sh].dir = st.dir
      /\ shell'[sh].counted = st.counted /\ shell'[sh].line = st.line
      /\ queue'[sh] = Tail(q)
      /\ \A other \in Shell \ {sh} : shell'[other] = shell[other] /\ queue'[other] = queue[other]
  BY DEF Threads, Dequeue, ShellState
<1>5. e \in Mine(st, cs) /\ Mine(shell'[sh], Tail(cs)) \subseteq Mine(st, cs)
      /\ AtWork(shell'[sh]) = AtWork(st)
  BY <1>2, <1>3, <1>4 DEF Mine, AtWork
<1>6. Accounts(Tail(q), Tail(cs), st.dir, store', next, text)
  <2>1. Accounts(q, cs, st.dir, store, claim, text) /\ q # <<>>
    BY <1>1 DEF Books
  <2>2. \A f \in EventId \ {cs[1]} : store'.event[f] = store.event[f] /\ next[f] = claim[f]
    OBVIOUS
  <2>3. \A n \in DOMAIN q : \A i \in About(q[n]) : store'.local[i] = store.local[i]
    OBVIOUS
  <2>4. HeadDoes(q, cs, st.dir, store, claim, text, store', next)
    OBVIOUS
  <2> HIDE DEF q, cs
  <2> QED BY <1>1, <2>1, <2>2, <2>3, <2>4, HeadTaken
<1>7. Books(shell'[sh], queue'[sh], Tail(cs), store', next, text)
  <2>1. AtWork(st) => st.event # e
    BY <1>1, <1>2, <1>3 DEF Books
  <2>2. \A n \in DOMAIN Tail(cs) : AtWork(st) => Tail(cs)[n] # st.event
    BY <1>1, <1>2, <1>3 DEF Books
  <2> QED BY <1>1, <1>4, <1>5, <1>6, <2>1, <2>2 DEF Books
<1>8. \A f \in EventId : Backed(store', next, f)
  BY DEF Ledger, Backed
<1>9. ASSUME NEW other \in Shell \ {sh}, NEW f \in Mine(shell[other], c[other])
      PROVE  f \in EventId \ Mine(st, cs)
  <2>1. Books(shell[other], queue[other], c[other], store, claim, text)
        /\ Mine(shell[other], c[other]) \cap Mine(st, cs) = {}
    BY DEF Ledger
  <2>2. \A n \in DOMAIN c[other] : c[other][n] \in EventId
    BY ElementOfSeq, LenProperties
  <2>3. AtWork(shell[other]) => shell[other].event \in EventId
    BY <2>1 DEF Books
  <2>4. f \in EventId
    BY <2>2, <2>3 DEF Mine
  <2> HIDE DEF st, cs
  <2> QED BY <2>1, <2>4
<1>10. OthersKeep(sh, c, claim, text, Tail(cs), next, text)
  <2>1. ASSUME NEW other \in Shell \ {sh}
        PROVE  /\ Untouched(shell[other], queue[other], c[other], store, claim, text,
                            store', next, text)
               /\ Mine(shell'[sh], Tail(cs)) \cap Mine(shell[other], c[other]) = {}
    BY <1>5, <1>9 DEF Untouched
  <2> QED BY <1>4, <2>1 DEF OthersKeep
<1> DEFINE rest == Tail(cs)
<1>11. rest \in Seq(EventId)
  BY <1>2
<1>12. /\ OthersKeep(sh, c, claim, text, rest, next, text)
       /\ Books(shell'[sh], queue'[sh], rest, store', next, text)
  BY <1>7, <1>10
<1> HIDE DEF st, q, cs, rest
<1> QED BY <1>8, <1>11, <1>12, OneShellBooks

\* A run counted, and a run taken back.
LEMMA RunCounted ==
  ASSUME NEW s, Sound(s), NEW dir \in Dir, NEW line \in Line
  PROVE  /\ RunAt(dir, line) \in RunKey
         /\ Recorded(s, dir, line).run = More(s.run, RunAt(dir, line))
         /\ RecordRun(s, dir, line).run = More(s.run, RunAt(dir, line))
         /\ TakeBackRun(s, dir, line).run = Less(s.run, RunAt(dir, line))
         /\ \A t \in {RecordRun(s, dir, line), TakeBackRun(s, dir, line)} :
              t.local = s.local /\ t.event = s.event /\ t.projection = s.projection
<1>1. RunAt(dir, line) \in RunKey
  BY DEF RunAt, RunKey
<1>2. Recorded(s, dir, line) = RecordRun(s, dir, line)
  BY HistoryAssumption DEF Recorded
<1>3. /\ RecordRun(s, dir, line).run = More(s.run, RunAt(dir, line))
      /\ TakeBackRun(s, dir, line).run = Less(s.run, RunAt(dir, line))
  BY DEF RecordRun, TakeBackRun, Sound, Store, RunAt, More, Less
<1>4. \A t \in {RecordRun(s, dir, line), TakeBackRun(s, dir, line)} :
        t.local = s.local /\ t.event = s.event /\ t.projection = s.projection
  BY DEF RecordRun, TakeBackRun, Sound, Store
<1> QED BY <1>1, <1>2, <1>3, <1>4

\* What is known of the job a writer is about to do.
LEMMA HeadIsDue ==
  ASSUME Sound(store), Truthful(store), Threads, InPlace, NEW c \in [Shell -> Seq(EventId)],
         NEW claim, NEW text, Ledger(store, shell, queue, c, claim, text),
         NEW sh \in Shell, queue[sh] # <<>>
  PROVE  LET e == c[sh][1]
             job == Head(queue[sh])
             dir == shell[sh].dir
         IN
         /\ e \in EventId /\ job \in Job /\ job = queue[sh][1] /\ dir \in Dir
         /\ Due(job, e, queue[sh], c[sh], dir, store, claim, text)
         /\ job.op = "boundary" => job.from = dir /\ job.to = dir
         /\ job.op = "also_ran" => job.from = dir
         /\ job.op = "forget_entered" => job.dir = dir
         /\ shell[sh].current = dir
         /\ store.event[e] # None /\ store.event[e].done = None
         /\ \A i \in About(job) : store.local[i] = e
         /\ store.projection[e] \in Projection /\ store.projection[e] # None
         /\ store.projection[e].run = None
         /\ job.op = "outcome" =>
              /\ claim[e] = RunAt(dir, text[e])
              /\ CanAdvance(store.event[e]) => store.event[e].line = text[e]
<1> DEFINE e == c[sh][1]
           q == queue[sh]
           job == Head(q)
           dir == shell[sh].dir
<1>1. /\ Accounts(q, c[sh], dir, store, claim, text) /\ q \in Seq(Job)
      /\ c[sh] \in Seq(EventId) /\ Len(c[sh]) = Len(q)
  BY DEF Ledger, Books, Accounts, Threads
<1>2. 1 \in DOMAIN q /\ job = q[1] /\ e \in EventId
  BY <1>1, TailOfBoth
<1>3. job \in Job
  BY <1>1, <1>2, ElementOfSeq, LenProperties
<1>4. Due(job, e, q, c[sh], dir, store, claim, text)
  BY <1>1, <1>2 DEF Accounts
<1>5. store.event[e] # None /\ store.event[e].done = None
      /\ \A i \in About(job) : store.local[i] = e
  BY <1>4 DEF Due
<1>6. /\ job.op = "boundary" => job.from = dir /\ job.to = dir
      /\ job.op = "also_ran" => job.from = dir
      /\ job.op = "forget_entered" => job.dir = dir
      /\ shell[sh].current = dir /\ dir \in Dir
  <2> DEFINE own == JobIn(dir)
  <2>1. q \in Seq(own) /\ shell[sh].current = dir /\ dir \in Dir
    BY DEF InPlace, Threads, ShellState
  <2>2. job \in own
    <3> HIDE DEF own, q
    <3> QED BY <2>1, HeadTailProperties DEF q
  <2> QED BY <2>1, <2>2 DEF JobIn
<1>7. store.projection[e] \in Projection /\ store.projection[e] # None
  BY <1>2, <1>5 DEF Truthful, Projected, Sound, Store
<1>8. store.projection[e].run = None
  BY <1>2, <1>5, <1>7 DEF Ledger, Backed
<1>9. ASSUME job.op = "outcome"
      PROVE  /\ claim[e] = RunAt(dir, text[e])
             /\ CanAdvance(store.event[e]) => store.event[e].line = text[e]
  <2>1. ASSUME NEW op \in {"boundary", "rewrite"}, Has(q, c[sh], op, e) PROVE FALSE
    <3>1. PICK n \in DOMAIN q : q[n].op = op /\ c[sh][n] = e
      BY <2>1 DEF Has
    <3>2. n # 1 /\ 1 < n
      BY <1>1, <1>2, <1>9, <3>1, LenProperties
    <3>3. Before(q[1], q[n])
      BY <1>1, <1>2, <3>1, <3>2 DEF Accounts
    <3> QED BY <1>2, <1>9, <3>3 DEF Before
  <2> QED BY <1>4, <1>9, <2>1 DEF Due
<1> QED BY <1>2, <1>3, <1>4, <1>5, <1>6, <1>7, <1>8, <1>9

\* A step that changes no table but the aggregate leaves every event as it stands.
LEMMA SameBacked ==
  ASSUME NEW s, NEW claim, NEW e \in EventId, Backed(s, claim, e),
         NEW t, t.event[e] = s.event[e], t.projection[e] = s.projection[e],
         NEW next, next[e] = claim[e] \/ s.projection[e].run = None
  PROVE  Backed(t, next, e)
BY DEF Backed

\* The run is counted; or the outcome goes in with it, and the event stands behind the
\* run of its own line; or both are refused.
LEMMA BoundaryPays ==
  ASSUME Sound(store), Truthful(store), Threads, InPlace, LedgerInv,
         NEW sh \in Shell, RunBoundary(sh)
  PROVE  LedgerInv'
<1>1. PICK c \in [Shell -> Seq(EventId)], claim \in [EventId -> RunKey \cup {None}],
           text \in [EventId -> Line \cup {Blank}] :
        Ledger(store, shell, queue, c, claim, text)
  BY DEF LedgerInv
<1> DEFINE q == queue[sh]
           job == Head(q)
           e == c[sh][1]
           dir == shell[sh].dir
           done == [status |-> job.status, dir |-> dir]
           ran == Recorded(store, dir, job.line)
<1>2. q # <<>> /\ job.op = "boundary" /\ Dequeue(sh)
  BY DEF RunBoundary, Working
<1>3. /\ e \in EventId /\ job \in Job /\ job = q[1] /\ dir \in Dir
      /\ Due(job, e, q, c[sh], dir, store, claim, text)
      /\ job.from = dir /\ job.to = dir /\ shell[sh].current = dir
      /\ store.event[e] # None /\ store.event[e].done = None
      /\ \A i \in About(job) : store.local[i] = e
      /\ store.projection[e] # None /\ store.projection[e].run = None
  BY <1>1, <1>2, HeadIsDue
<1>4. /\ job.line \in Line \cup {None} /\ job.id \in LocalId \cup {None}
      /\ job.status \in Status
  BY <1>2, <1>3, JobFields
<1>5. /\ job.line = None \/ job.line = text[e]
      /\ job.line = None => claim[e] = RunAt(dir, text[e])
      /\ job.id # None => store.event[e].line = text[e] /\ store.local[job.id] = e
  BY <1>2, <1>3 DEF Due, About
<1>6. PICK tie \in [EventId -> Tie] :
        LET both == IF job.id = None THEN ran ELSE WriteOutcomes(ran, job.id, done, tie) IN
        IF both # None
        THEN store' = both /\ shell' = [shell EXCEPT ![sh].current = dir]
        ELSE store' = Commit(store, WriteOutcomes(store, job.id, done, tie)) /\ shell' = shell
  BY <1>3 DEF RunBoundary
<1>7. shell' = [shell EXCEPT ![sh].current = dir]
  BY <1>3, <1>6 DEF Threads, ShellState
<1>8. /\ Sound(ran) /\ ran # None /\ ran.local = store.local /\ ran.event = store.event
      /\ ran.projection = store.projection
  BY <1>3, <1>4, RecordedTells, RecordedKeeps, NothingAssumption
<1> DEFINE next == IF job.line = None THEN claim
                   ELSE [claim EXCEPT ![e] = RunAt(dir, job.line)]
<1>9. /\ next \in [EventId -> RunKey \cup {None}] /\ next[e] = RunAt(dir, text[e])
      /\ \A f \in EventId \ {e} : next[f] = claim[f]
      /\ Covered(ran.run, next)
  <2>1. Covered(store.run, claim) /\ store.run \in [RunKey -> Nat]
    BY <1>1 DEF Ledger, Sound, Store
  <2>2. CASE job.line = None
    BY <1>3, <1>5, <2>1, <2>2 DEF Recorded
  <2>3. CASE job.line # None
    <3> DEFINE line == job.line
               k == RunAt(dir, line)
    <3>1. k \in RunKey /\ ran.run = More(store.run, k)
      <4>1. line \in Line /\ dir \in Dir /\ ran = Recorded(store, dir, line)
        BY <1>3, <1>4, <2>3
      <4> HIDE DEF dir, line, ran
      <4> QED BY <4>1, RunCounted
    <3>2. next = [claim EXCEPT ![e] = k]
      BY <2>3
    <3>3. /\ next \in [EventId -> RunKey \cup {None}] /\ next[e] = k
          /\ \A f \in EventId \ {e} : next[f] = claim[f]
      BY <1>3, <3>1, <3>2
    <3>4. Covered(ran.run, next)
      <4> DEFINE run == store.run
                 more == ran.run
      <4>1. run \in [RunKey -> Nat] /\ Covered(run, claim) /\ more = More(run, k)
            /\ e \in EventId
        BY <1>3, <2>1, <3>1
      <4>2. Claims(claim, next, e, k)
        BY <3>3 DEF Claims
      <4> HIDE DEF next, run, more, k, e
      <4>3. Covered(more, next)
        BY <3>1, <4>1, <4>2, ClaimTaken
      <4> QED BY <4>3 DEF more
    <3> QED BY <1>5, <2>3, <3>3, <3>4
  <2> QED BY <2>2, <2>3
<1>10. Backed(store, claim, e)
  BY <1>1, <1>3 DEF Ledger
<1> HIDE DEF next, ran, done
<1>11. CASE job.id = None
  <2>1. store' = ran
    BY <1>6, <1>8, <1>11
  <2>2. Backed(store', next, e)
    BY <1>3, <1>8, <1>10, <2>1, SameBacked
  <2>3. HeadDoes(q, c[sh], dir, store, claim, text, store', next)
    BY <1>2, <1>3, <1>8, <1>9, <2>1 DEF HeadDoes
  <2> QED BY <1>1, <1>2, <1>7, <1>8, <1>9, <2>1, <2>2, <2>3, JobDone
<1>12. CASE job.id # None
  <2>1. done \in Done /\ job.id \in LocalId /\ done.dir = dir
    BY <1>3, <1>4, <1>12 DEF Done, done
  <2> DEFINE both == WriteOutcomes(ran, job.id, done, tie)
  <2>2. /\ ~ CanAdvance(store.event[e]) => both = None
        /\ CanAdvance(store.event[e]) =>
             /\ both # None /\ both.run = ran.run
             /\ both.projection[e].run \in {None, RunAt(dir, text[e])}
    <3>1. /\ ~ CanAdvance(ran.event[e]) => both = None
          /\ CanAdvance(ran.event[e]) =>
               /\ both # None /\ both.run = ran.run
               /\ both.projection[e].run \in
                    {None, [imported |-> FALSE, dir |-> done.dir, line |-> ran.event[e].line]}
      <4> DEFINE i == job.id
                 t == both
      <4>1. /\ i \in LocalId /\ e \in EventId /\ ran.local[i] = e
            /\ ran.projection[e].run = None /\ Sound(ran)
        BY <1>3, <1>5, <1>8, <1>12, <2>1
      <4>2. t = WriteOutcomes(ran, i, done, tie)
        OBVIOUS
      <4> HIDE DEF both, i, t, e
      <4>3. ~ CanAdvance(ran.event[e]) => t = None
        BY <2>1, <4>1, <4>2, WriteOutcomesRuns
      <4>4. CanAdvance(ran.event[e]) => t # None /\ t.run = ran.run
        BY <2>1, <4>1, <4>2, WriteOutcomesRuns
      <4>5. CanAdvance(ran.event[e]) =>
              t.projection[e].run \in
                {None, [imported |-> FALSE, dir |-> done.dir, line |-> ran.event[e].line]}
        BY <2>1, <4>1, <4>2, WriteOutcomesRuns
      <4> QED BY <4>3, <4>4, <4>5 DEF t
    <3> HIDE DEF both
    <3> QED BY <1>5, <1>8, <1>12, <2>1, <3>1 DEF RunAt
  <2>3. CASE CanAdvance(store.event[e])
    <3>1. store' = both /\ both # None
      BY <1>6, <1>12, <2>2, <2>3
    <3>2. OutcomeWritten(ran, both, job.id, done, tie)
      BY <1>8, <2>1, <3>1, WriteOutcomesChanges
    <3>3. /\ both.local = store.local /\ Elsewhere(store, both, {e})
          /\ both.event[e] = [Advance(ran.event[e], tie[e]) EXCEPT !.done = done]
          /\ ran.event[e] \in Event
      <4> HIDE DEF both
      <4>1. ran.local[job.id] = e
        BY <1>5, <1>8, <1>12
      <4>2. /\ both.local = ran.local /\ Elsewhere(ran, both, {e})
            /\ both.event[e] = [Advance(ran.event[e], tie[e]) EXCEPT !.done = done]
            /\ ran.event[e] \in Event
        BY <3>2, <4>1 DEF OutcomeWritten
      <4> QED BY <1>8, <4>2 DEF Elsewhere
    <3>4. both.event[e].done # None
      <4>1. done # None
        BY <2>1, NothingAssumption
      <4> HIDE DEF both
      <4> QED BY <3>3, <4>1 DEF Advance, Event
    <3> HIDE DEF both
    <3>5. Backed(store', next, e)
      BY <1>9, <2>2, <2>3, <3>1, <3>4 DEF Backed
    <3>6. HeadDoes(q, c[sh], dir, store, claim, text, store', next)
      BY <1>2, <1>3, <1>12 DEF HeadDoes
    <3>7. Covered(store'.run, next)
      BY <1>9, <2>2, <2>3, <3>1
    <3>8. \A f \in EventId \ {e} : /\ store'.event[f] = store.event[f]
                                   /\ store'.projection[f] = store.projection[f]
                                   /\ next[f] = claim[f]
      BY <1>9, <3>1, <3>3 DEF Elsewhere
    <3>9. store'.local = store.local
      BY <3>1, <3>3
    <3> QED BY <1>1, <1>2, <1>7, <1>9, <3>5, <3>6, <3>7, <3>8, <3>9, JobDone
  <2>4. CASE ~ CanAdvance(store.event[e])
    <3>1. WriteOutcomes(store, job.id, done, tie) = None
      BY <1>3, <1>5, <1>12, <2>1, <2>4, WriteOutcomesRuns
    <3>2. store' = store
      BY <1>6, <1>12, <2>2, <2>4, <3>1 DEF Commit
    <3>3. HeadDoes(q, c[sh], dir, store, claim, text, store', claim)
      BY <1>2, <1>3, <1>12 DEF HeadDoes
    <3>4. Covered(store'.run, claim) /\ Backed(store', claim, e)
      BY <1>1, <1>10, <3>2 DEF Ledger
    <3> QED BY <1>1, <1>2, <1>7, <3>2, <3>3, <3>4, JobDone
  <2> QED BY <2>3, <2>4
<1> QED BY <1>11, <1>12

\* A line a rule kept beside the first is counted, and nobody claims it.
LEMMA AlsoRanPays ==
  ASSUME Sound(store), Truthful(store), Threads, InPlace, LedgerInv,
         NEW sh \in Shell, RunAlsoRan(sh)
  PROVE  LedgerInv'
<1>1. PICK c \in [Shell -> Seq(EventId)], claim \in [EventId -> RunKey \cup {None}],
           text \in [EventId -> Line \cup {Blank}] :
        Ledger(store, shell, queue, c, claim, text)
  BY DEF LedgerInv
<1> DEFINE q == queue[sh]
           job == Head(q)
           e == c[sh][1]
           dir == shell[sh].dir
           line == job.line
<1>2. q # <<>> /\ job.op = "also_ran" /\ Dequeue(sh)
  BY DEF RunAlsoRan, Working
<1>3. /\ e \in EventId /\ job \in Job /\ job = q[1] /\ dir \in Dir /\ job.from = dir
      /\ store.projection[e].run = None
  BY <1>1, <1>2, HeadIsDue
<1>4. line \in Line \cup {None}
  BY <1>2, <1>3, JobFields
<1>5. store' = Recorded(store, dir, line) /\ shell' = [shell EXCEPT ![sh].current = dir]
  BY <1>3 DEF RunAlsoRan
<1> HIDE DEF line
<1>6. /\ store'.local = store.local /\ store'.event = store.event
      /\ store'.projection = store.projection
  BY <1>3, <1>4, <1>5, RecordedKeeps
<1>7. Covered(store'.run, claim)
  <2>1. Covered(store.run, claim) /\ store.run \in [RunKey -> Nat]
    BY <1>1 DEF Ledger, Sound, Store
  <2>2. CASE line = None
    BY <1>5, <2>1, <2>2 DEF Recorded
  <2>3. CASE line \in Line
    <3> DEFINE k == RunAt(dir, line)
               run == store.run
    <3>1. k \in RunKey /\ store'.run = More(run, k)
      <4> HIDE DEF dir
      <4> QED BY <1>3, <1>5, <2>3, RunCounted
    <3> HIDE DEF k, run
    <3>2. Covered(More(run, k), claim)
      BY <2>1, <3>1, CoveredMore DEF run
    <3> QED BY <3>1, <3>2
  <2> QED BY <1>4, <2>2, <2>3
<1>8. Backed(store', claim, e)
  BY <1>1, <1>3, <1>6, SameBacked DEF Ledger
<1>9. HeadDoes(q, c[sh], dir, store, claim, text, store', claim)
  BY <1>2, <1>3, <1>6 DEF HeadDoes
<1> QED BY <1>1, <1>2, <1>5, <1>6, <1>7, <1>8, <1>9, JobDone

\* The run Enter counted is taken back, and its command claims it no more.
LEMMA ForgetEnteredPays ==
  ASSUME Sound(store), Truthful(store), Threads, InPlace, LedgerInv,
         NEW sh \in Shell, RunForgetEntered(sh)
  PROVE  LedgerInv'
<1>1. PICK c \in [Shell -> Seq(EventId)], claim \in [EventId -> RunKey \cup {None}],
           text \in [EventId -> Line \cup {Blank}] :
        Ledger(store, shell, queue, c, claim, text)
  BY DEF LedgerInv
<1> DEFINE q == queue[sh]
           job == Head(q)
           e == c[sh][1]
           dir == shell[sh].dir
           line == job.line
           k == RunAt(dir, line)
           run == store.run
           next == [claim EXCEPT ![e] = None]
<1>2. q # <<>> /\ job.op = "forget_entered" /\ Dequeue(sh)
  BY DEF RunForgetEntered, Working
<1>3. /\ e \in EventId /\ job \in Job /\ job = q[1] /\ dir \in Dir /\ job.dir = dir
      /\ store.projection[e].run = None
      /\ Due(job, e, q, c[sh], dir, store, claim, text)
      /\ shell[sh].current = dir
  BY <1>1, <1>2, HeadIsDue
<1>4. line \in Line /\ claim[e] = k
  <2>1. line \in Line
    BY <1>2, <1>3, JobFields
  <2> QED BY <1>2, <1>3, <2>1 DEF Due
<1>5. store' = TakeBackRun(store, dir, line) /\ shell' = [shell EXCEPT ![sh].current = dir]
  BY <1>3 DEF RunForgetEntered, Threads, ShellState
<1>6. /\ store'.local = store.local /\ store'.event = store.event
      /\ store'.projection = store.projection
      /\ k \in RunKey /\ store'.run = Less(run, k)
  <2>1. dir \in Dir /\ line \in Line
    BY <1>3, <1>4
  <2> HIDE DEF dir, line
  <2> QED BY <1>5, <2>1, RunCounted
<1>7. /\ next \in [EventId -> RunKey \cup {None}] /\ next[e] = None
      /\ \A f \in EventId \ {e} : next[f] = claim[f]
  BY <1>3
<1>8. Covered(store'.run, next)
  <2>1. Covered(run, claim) /\ run \in [RunKey -> Nat] /\ e \in EventId
    BY <1>1, <1>3 DEF Ledger, Sound, Store
  <2>2. Claims(claim, next, e, None)
    BY <1>7 DEF Claims
  <2> HIDE DEF next, run, k, e
  <2>3. Covered(Less(run, k), next)
    BY <1>4, <1>6, <2>1, <2>2, ClaimGiven
  <2> QED BY <1>6, <2>3
<1> HIDE DEF next
<1>9. Backed(store', next, e)
  BY <1>1, <1>3, <1>6, SameBacked DEF Ledger
<1>10. HeadDoes(q, c[sh], dir, store, claim, text, store', next)
  BY <1>2, <1>3, <1>6 DEF HeadDoes
<1> QED BY <1>1, <1>2, <1>5, <1>6, <1>7, <1>8, <1>9, <1>10, JobDone

\* A rewrite or a removal leaves an event that stands behind nothing; an outcome puts it
\* behind the run it has claimed.
LEMMA OnRowPays ==
  ASSUME Sound(store), Truthful(store), Threads, RowsOwned, InPlace, LedgerInv,
         NEW sh \in Shell, RunOnRow(sh)
  PROVE  LedgerInv'
<1>1. PICK c \in [Shell -> Seq(EventId)], claim \in [EventId -> RunKey \cup {None}],
           text \in [EventId -> Line \cup {Blank}] :
        Ledger(store, shell, queue, c, claim, text)
  BY DEF LedgerInv
<1> DEFINE q == queue[sh]
           job == Head(q)
           e == c[sh][1]
           dir == shell[sh].dir
           i == job.id
           done == [status |-> job.status, dir |-> dir]
<1>2. q # <<>> /\ job.op \in {"rewrite", "drop", "outcome"} /\ Dequeue(sh)
  BY DEF RunOnRow, Working
<1>3. /\ e \in EventId /\ job \in Job /\ job = q[1] /\ dir \in Dir
      /\ Due(job, e, q, c[sh], dir, store, claim, text)
      /\ shell[sh].current = dir
      /\ store.event[e] # None /\ store.event[e].done = None
      /\ \A j \in About(job) : store.local[j] = e
      /\ store.projection[e] # None /\ store.projection[e].run = None
      /\ job.op = "outcome" =>
           /\ claim[e] = RunAt(dir, text[e])
           /\ CanAdvance(store.event[e]) => store.event[e].line = text[e]
  BY <1>1, <1>2, HeadIsDue
<1>4. PICK tie \in [EventId -> Tie] :
        \/ job.op = "rewrite" /\ store' = Commit(store, RewriteLine(store, i, job.line, tie))
        \/ job.op = "drop" /\ store' = Commit(store, DropLines(store, {i}, tie))
        \/ job.op = "outcome" /\ store' = Commit(store, WriteOutcomes(store, i, done, tie))
  BY <1>3 DEF RunOnRow, Working
<1>5. shell' = [shell EXCEPT ![sh].current = dir]
  BY <1>3 DEF RunOnRow, Threads, ShellState
<1>6. i \in LocalId /\ store.local[i] = e /\ store.history[i] # None
  <2>1. i \in LocalId
    BY <1>2, <1>3, JobFields
  <2>2. i \in About(job)
    BY <1>2, <2>1, NothingAssumption DEF About, LocalId
  <2>3. i \in Rows(store)
    <3>1. 1 \in DOMAIN q
      BY <1>2, QueuedTail DEF Threads
    <3> QED BY <1>3, <2>2, <3>1 DEF RowsOwned, Owned, Queued
  <2> QED BY <1>3, <2>1, <2>2, <2>3 DEF Rows
<1>7. Covered(store.run, claim) /\ Backed(store, claim, e)
  BY <1>1, <1>3 DEF Ledger
<1> HIDE DEF i, done
<1>8. ASSUME store'.local = store.local, Elsewhere(store, store', {e}),
             store'.run = store.run, Backed(store', claim, e),
             HeadDoes(q, c[sh], dir, store, claim, text, store', claim)
      PROVE  LedgerInv'
  <2>1. \A f \in EventId \ {e} : /\ store'.event[f] = store.event[f]
                                 /\ store'.projection[f] = store.projection[f]
                                 /\ claim[f] = claim[f]
    BY <1>8 DEF Elsewhere
  <2>2. Covered(store'.run, claim)
    BY <1>7, <1>8
  <2> QED BY <1>1, <1>2, <1>5, <1>8, <2>1, <2>2, JobDone
<1>9. CASE job.op = "rewrite"
  <2> DEFINE line == job.line
  <2>1. line \in Line /\ line = text[e]
    BY <1>3, <1>9, JobFields DEF Due
  <2>2. store' = Commit(store, RewriteLine(store, i, line, tie))
    BY <1>4, <1>9
  <2>3. RowsTrue(store) /\ e = store.local[i]
    BY <1>6 DEF Truthful
  <2> HIDE DEF line, e
  <2>4. /\ Runless(store, store', e)
        /\ store'.event[e] # None /\ store'.event[e].done = None
        /\ CanAdvance(store'.event[e]) => store'.event[e].line = line
    BY <1>3, <1>6, <2>1, <2>2, <2>3, RewriteLineRuns
  <2>5. Backed(store', claim, e)
    BY <2>4 DEF Backed, Runless
  <2>6. HeadDoes(q, c[sh], dir, store, claim, text, store', claim)
    BY <1>3, <1>9, <2>1, <2>4 DEF HeadDoes, e
  <2> QED BY <1>8, <2>4, <2>5, <2>6 DEF e, Runless
<1>10. CASE job.op = "drop"
  <2>1. HeadDoes(q, c[sh], dir, store, claim, text, store', claim)
    BY <1>3, <1>10 DEF HeadDoes
  <2>2. CASE store' = store
    BY <1>7, <1>8, <2>1, <2>2 DEF Elsewhere
  <2>3. CASE store' # store
    <3>1. store' = DropLines(store, {i}, tie) /\ store' # None
      BY <1>4, <1>10, <2>3 DEF Commit
    <3> HIDE DEF e
    <3>2. Runless(store, store', e)
      BY <1>3, <1>6, <3>1, DropLinesRuns
    <3>3. Backed(store', claim, e)
      BY <3>2 DEF Backed, Runless
    <3> QED BY <1>8, <2>1, <3>2, <3>3 DEF e, Runless
  <2> QED BY <2>2, <2>3
<1>11. CASE job.op = "outcome"
  <2>1. HeadDoes(q, c[sh], dir, store, claim, text, store', claim)
    BY <1>3, <1>11 DEF HeadDoes
  <2>2. done \in Done /\ done.dir = dir /\ done # None
    BY <1>3, <1>11, JobFields, NothingAssumption DEF Done, done
  <2>3. CASE store' = store
    BY <1>7, <1>8, <2>1, <2>3 DEF Elsewhere
  <2>4. CASE store' # store
    <3>1. store' = WriteOutcomes(store, i, done, tie) /\ store' # None
      BY <1>4, <1>11, <2>4 DEF Commit
    <3> HIDE DEF e
    <3>2. /\ CanAdvance(store.event[e]) /\ store'.run = store.run
          /\ store'.projection[e].run \in
               {None, [imported |-> FALSE, dir |-> done.dir, line |-> store.event[e].line]}
      <4> DEFINE t == store'
      <4>1. i \in LocalId /\ e \in EventId /\ store.local[i] = e /\ store.projection[e].run = None
            /\ Sound(store) /\ t = WriteOutcomes(store, i, done, tie) /\ t # None
        BY <1>3, <1>6, <3>1
      <4> HIDE DEF t
      <4>2. CanAdvance(store.event[e]) /\ t.run = store.run
        BY <2>2, <4>1, WriteOutcomesRuns
      <4>3. t.projection[e].run \in
              {None, [imported |-> FALSE, dir |-> done.dir, line |-> store.event[e].line]}
        BY <2>2, <4>1, <4>2, WriteOutcomesRuns
      <4> QED BY <4>2, <4>3 DEF t
    <3>3. OutcomeWritten(store, store', i, done, tie)
      BY <1>6, <2>2, <3>1, WriteOutcomesChanges
    <3>4. /\ store'.local = store.local /\ Elsewhere(store, store', {e})
          /\ store.event[e] \in Event
          /\ store'.event[e] = [Advance(store.event[e], tie[e]) EXCEPT !.done = done]
      BY <1>6, <3>3 DEF OutcomeWritten
    <3>5. store'.event[e].done # None
      BY <2>2, <3>4 DEF Advance, Event
    <3>6. Backed(store', claim, e)
      BY <1>3, <1>11, <2>2, <3>2, <3>5 DEF Backed, RunAt
    <3> QED BY <1>8, <2>1, <3>2, <3>4, <3>6 DEF e
  <2> QED BY <2>3, <2>4
<1> QED BY <1>2, <1>9, <1>10, <1>11

-----------------------------------------------------------------------------
(***************************************************************************)
(* The prompt's steps.                                                     *)
(***************************************************************************)
\* What is queued is about events that are as they were.
Unmoved(q, cs, s, claim, text, t, next, told) ==
  /\ \A n \in DOMAIN cs : /\ t.event[cs[n]] = s.event[cs[n]]
                          /\ next[cs[n]] = claim[cs[n]] /\ told[cs[n]] = text[cs[n]]
  /\ \A i \in Queued(q) : t.local[i] = s.local[i]

\* It is in order then.
LEMMA AccountsSame ==
  ASSUME NEW q \in Seq(Job), NEW cs, NEW dir, NEW s, NEW claim, NEW text,
         Accounts(q, cs, dir, s, claim, text), NEW t, NEW next, NEW told,
         Unmoved(q, cs, s, claim, text, t, next, told)
  PROVE  Accounts(q, cs, dir, t, next, told)
<1>1. /\ cs \in Seq(EventId) /\ Len(cs) = Len(q)
      /\ \A n \in DOMAIN q : Due(q[n], cs[n], q, cs, dir, s, claim, text)
  BY DEF Accounts
<1>2. DOMAIN q = DOMAIN cs
  BY <1>1, LenProperties
<1>3. ASSUME NEW n \in DOMAIN q
      PROVE  Due(q[n], cs[n], q, cs, dir, t, next, told)
  <2>1. Due(q[n], cs[n], q, cs, dir, s, claim, text)
    BY <1>1
  <2> QED BY <1>2, <2>1 DEF Due, Queued, Unmoved
<1> QED BY <1>1, <1>3 DEF Accounts

\* Every event in the books is in the tables, and has no outcome yet.
LEMMA MineIsOpen ==
  ASSUME NEW st, NEW q \in Seq(Job), NEW cs, NEW s, NEW claim, NEW text,
         Books(st, q, cs, s, claim, text), NEW e \in Mine(st, cs)
  PROVE  e \in EventId /\ s.event[e] # None /\ s.event[e].done = None
<1>1. /\ cs \in Seq(EventId) /\ Len(cs) = Len(q)
      /\ \A n \in DOMAIN q : Due(q[n], cs[n], q, cs, st.dir, s, claim, text)
  BY DEF Books, Accounts
<1>2. DOMAIN q = DOMAIN cs /\ \A n \in DOMAIN cs : cs[n] \in EventId
  BY <1>1, ElementOfSeq, LenProperties
<1> QED BY <1>1, <1>2 DEF Books, Mine, Due

\* A line that is entered is in nobody's books, and its row in nobody's queue.
LEMMA EnterPays ==
  ASSUME Sound(store), Truthful(store), Threads, RowsOwned, LedgerInv,
         "trim" \notin Doing, NEW sh \in Shell, NEW line \in Line, Enter(sh, line)
  PROVE  LedgerInv'
<1> DEFINE i == NextId(store)
           e == CHOOSE e \in Unused : TRUE
<1>1. i \in LocalId /\ e \in EventId /\ store.event[e] = None
  BY DEF Enter, Unused, Known
<1>2. PICK tie \in [EventId -> Tie] : store' = AppendEntry(store, e, line, tie)
  BY DEF Enter
<1> DEFINE st == shell[sh]
<1>3. /\ queue' = queue /\ st.pc = "prompt"
      /\ \A other \in Shell \ {sh} : shell'[other] = shell[other]
      /\ shell'[sh].event = e /\ shell'[sh].line = line /\ AtWork(shell'[sh])
      /\ shell'[sh].dir = st.dir /\ shell'[sh].counted = st.counted /\ ~ AtWork(st)
      /\ shell'[sh].pc # "prompt"
  BY DEF Enter, Threads, AtWork, ShellState
<1> HIDE DEF i, e, st
<1>4. /\ store'.history = [store.history EXCEPT ![i] = line]
      /\ store'.local = [store.local EXCEPT ![i] = e]
      /\ Elsewhere(store, store', {e})
      /\ store'.event[e] \in Event /\ ~ store'.event[e].deleted /\ store'.event[e].line = line
      /\ store'.event[e].revision = 1 /\ store'.event[e].tie = tie[e]
      /\ store'.event[e].done = None
      /\ store'.projection[e] # None /\ store'.projection[e].local = i
      /\ ~ store'.projection[e].hidden
      /\ Mark(store'.projection[e]) = Mark(store'.event[e])
  BY <1>1, <1>2, AppendEntryChanges DEF i
<1>5. store'.run = store.run /\ store'.projection[e].run = None
  BY <1>1, <1>2, AppendEntryRuns
<1>6. PICK c \in [Shell -> Seq(EventId)], claim \in [EventId -> RunKey \cup {None}],
           text \in [EventId -> Line \cup {Blank}] :
        Ledger(store, shell, queue, c, claim, text)
  BY DEF LedgerInv
<1> DEFINE q == queue[sh]
           cs == c[sh]
<1>7. store'.event[e] # None
  BY <1>4, NothingAssumption
<1>8. i \notin Rows(store)
  BY <1>1, NextIdIsNew DEF i, LocalId
<1>9. ASSUME NEW other \in Shell
      PROVE  /\ \A j \in Queued(queue[other]) : store'.local[j] = store.local[j]
             /\ \A f \in Mine(shell[other], c[other]) : f \in EventId \ {e}
             /\ queue[other] \in Seq(Job)
             /\ Books(shell[other], queue[other], c[other], store, claim, text)
  <2>1. Books(shell[other], queue[other], c[other], store, claim, text)
        /\ queue[other] \in Seq(Job)
    BY <1>6 DEF Ledger, Threads
  <2>2. \A f \in Mine(shell[other], c[other]) : f \in EventId \ {e}
    BY <1>1, <2>1, MineIsOpen
  <2>3. i \notin Queued(queue[other])
    BY <1>8 DEF RowsOwned, Owned
  <2>4. \A j : j # i => store'.local[j] = store.local[j]
    BY <1>4 DEF Sound, Store
  <2> QED BY <2>1, <2>2, <2>3, <2>4
<1>10. \A n \in DOMAIN cs : cs[n] \in EventId \ {e}
  BY <1>9 DEF Mine
<1>11. Accounts(q, cs, st.dir, store', claim, text)
  <2>1. Accounts(q, cs, st.dir, store, claim, text) /\ q \in Seq(Job)
    BY <1>9 DEF Books, st
  <2>2. \A n \in DOMAIN cs : /\ store'.event[cs[n]] = store.event[cs[n]]
                             /\ claim[cs[n]] = claim[cs[n]] /\ text[cs[n]] = text[cs[n]]
    BY <1>4, <1>10 DEF Elsewhere
  <2>3. \A j \in Queued(q) : store'.local[j] = store.local[j]
    BY <1>9
  <2>4. Unmoved(q, cs, store, claim, text, store', claim, text)
    BY <2>2, <2>3 DEF Unmoved
  <2> HIDE DEF q, cs
  <2> QED BY <2>1, <2>4, AccountsSame
<1>12. ~ st.counted
  BY <1>3, <1>9 DEF Books, st
<1>13. Books(shell'[sh], queue'[sh], cs, store', claim, text)
  <2>1. \A n \in DOMAIN cs : cs[n] # e
    BY <1>10
  <2>2. Accounts(queue'[sh], cs, shell'[sh].dir, store', claim, text)
    BY <1>3, <1>11
  <2> HIDE DEF q, cs
  <2> QED BY <1>1, <1>3, <1>4, <1>7, <1>12, <2>1, <2>2 DEF Books
<1>14. OthersKeep(sh, c, claim, text, cs, claim, text)
  <2>1. Mine(shell'[sh], cs) \subseteq Mine(st, cs) \cup {e}
    BY <1>3 DEF Mine
  <2>2. ASSUME NEW other \in Shell \ {sh}
        PROVE  /\ Untouched(shell[other], queue[other], c[other], store, claim, text,
                            store', claim, text)
               /\ Mine(shell'[sh], cs) \cap Mine(shell[other], c[other]) = {}
    <3>1. Mine(st, cs) \cap Mine(shell[other], c[other]) = {}
      BY <1>6 DEF Ledger, st
    <3>2. \A f \in Mine(shell[other], c[other]) : store'.event[f] = store.event[f] /\ f # e
      BY <1>4, <1>9 DEF Elsewhere
    <3> QED BY <1>9, <2>1, <3>1, <3>2 DEF Untouched
  <2> QED BY <1>3, <2>2 DEF OthersKeep
<1>15. \A f \in EventId : Backed(store', claim, f)
  <2>1. ASSUME NEW f \in EventId PROVE Backed(store', claim, f)
    <3>1. CASE f = e
      BY <1>5, <3>1 DEF Backed
    <3>2. CASE f # e
      BY <1>6, <1>4, <3>2 DEF Backed, Elsewhere, Ledger
    <3> QED BY <3>1, <3>2
  <2> QED BY <2>1
<1>16. Covered(store'.run, claim) /\ cs \in Seq(EventId)
  BY <1>6, <1>5 DEF Ledger
<1> HIDE DEF cs, q
<1> QED BY <1>6, <1>13, <1>14, <1>15, <1>16, OneShellBooks

\* The run Enter counts is its line's to claim.
LEMMA CountPays ==
  ASSUME Sound(store), Truthful(store), Threads, LedgerInv,
         NEW sh \in Shell, Count(sh)
  PROVE  LedgerInv'
<1>1. PICK c \in [Shell -> Seq(EventId)], claim \in [EventId -> RunKey \cup {None}],
           text \in [EventId -> Line \cup {Blank}] :
        Ledger(store, shell, queue, c, claim, text)
  BY DEF LedgerInv
<1> DEFINE st == shell[sh]
           q == queue[sh]
           cs == c[sh]
           e == st.event
           k == RunAt(st.dir, st.line)
           next == [claim EXCEPT ![e] = k]
           run == store.run
<1>2. st.pc = "entered" /\ st.line \in Line /\ st.dir \in Dir /\ AtWork(st)
  BY DEF Count, Threads, Underway, ShellState, AtWork
<1>3. /\ queue' = queue /\ (\A other \in Shell \ {sh} : shell'[other] = shell[other])
      /\ shell'[sh].pc = "running" /\ shell'[sh].event = e /\ shell'[sh].line = st.line
      /\ shell'[sh].dir = st.dir
  BY DEF Count, Threads, ShellState
<1>4. Books(st, q, cs, store, claim, text) /\ q \in Seq(Job) /\ cs \in Seq(EventId)
  BY <1>1 DEF Ledger, Threads
<1>5. /\ e \in EventId /\ (\A n \in DOMAIN cs : cs[n] # e)
      /\ store.event[e] # None /\ store.event[e].done = None /\ store.event[e].line = st.line
  BY <1>2, <1>4 DEF Books
<1>6. /\ store'.local = store.local /\ store'.event = store.event
      /\ store'.projection = store.projection
      /\ k \in RunKey /\ store'.run = More(run, k)
  <2> DEFINE dir == st.dir
             line == st.line
  <2>1. dir \in Dir /\ line \in Line /\ store' = RecordRun(store, dir, line)
    BY <1>2 DEF Count
  <2> HIDE DEF dir, line
  <2>2. /\ RunAt(dir, line) \in RunKey /\ store'.run = More(store.run, RunAt(dir, line))
        /\ store'.local = store.local /\ store'.event = store.event
        /\ store'.projection = store.projection
    BY <2>1, RunCounted
  <2> QED BY <2>2 DEF dir, line
<1> HIDE DEF k
<1>7. /\ next \in [EventId -> RunKey \cup {None}] /\ next[e] = k
      /\ \A f \in EventId \ {e} : next[f] = claim[f]
  BY <1>5, <1>6
<1> HIDE DEF next
<1>8. Covered(store'.run, next)
  <2>1. Covered(run, claim) /\ run \in [RunKey -> Nat] /\ e \in EventId
    BY <1>1, <1>5 DEF Ledger, Sound, Store
  <2>2. Claims(claim, next, e, k)
    BY <1>7 DEF Claims
  <2> HIDE DEF run, e
  <2>3. Covered(More(run, k), next)
    BY <1>6, <2>1, <2>2, ClaimTaken
  <2> QED BY <1>6, <2>3
<1>9. ASSUME NEW f \in EventId PROVE Backed(store', next, f)
  <2>1. Backed(store, claim, f)
    BY <1>1 DEF Ledger
  <2>2. f = e => store.projection[f] # None /\ store.projection[f].run = None
    BY <1>5, <2>1 DEF Backed, Truthful, Projected
  <2> QED BY <1>6, <1>7, <2>1, <2>2, SameBacked
<1>10. Accounts(q, cs, st.dir, store', next, text)
  <2>1. Accounts(q, cs, st.dir, store, claim, text)
    BY <1>4 DEF Books
  <2>2. \A n \in DOMAIN cs : /\ store'.event[cs[n]] = store.event[cs[n]]
                             /\ next[cs[n]] = claim[cs[n]] /\ text[cs[n]] = text[cs[n]]
    <3>1. \A n \in DOMAIN cs : cs[n] \in EventId
      BY <1>4, ElementOfSeq, LenProperties
    <3> QED BY <1>5, <1>6, <1>7, <3>1
  <2>3. \A i \in Queued(q) : store'.local[i] = store.local[i]
    BY <1>6
  <2>4. Unmoved(q, cs, store, claim, text, store', next, text)
    BY <2>2, <2>3 DEF Unmoved
  <2> HIDE DEF q, cs, st
  <2> QED BY <1>4, <2>1, <2>4, AccountsSame
<1>11. Books(shell'[sh], queue'[sh], cs, store', next, text)
  <2>1. Accounts(queue'[sh], cs, shell'[sh].dir, store', next, text)
    BY <1>3, <1>10
  <2>2. next[e] = RunAt(st.dir, st.line)
    BY <1>7 DEF k
  <2> HIDE DEF q, cs
  <2> QED BY <1>3, <1>5, <1>6, <2>1, <2>2 DEF Books
<1>12. OthersKeep(sh, c, claim, text, cs, next, text)
  <2>1. Mine(shell'[sh], cs) = Mine(st, cs) /\ e \in Mine(st, cs)
    BY <1>2, <1>3 DEF Mine, AtWork
  <2>2. ASSUME NEW other \in Shell \ {sh}
        PROVE  /\ Untouched(shell[other], queue[other], c[other], store, claim, text,
                            store', next, text)
               /\ Mine(shell'[sh], cs) \cap Mine(shell[other], c[other]) = {}
    <3>1. Mine(st, cs) \cap Mine(shell[other], c[other]) = {}
      BY <1>1 DEF Ledger
    <3>2. Books(shell[other], queue[other], c[other], store, claim, text)
          /\ queue[other] \in Seq(Job)
      BY <1>1 DEF Ledger, Threads
    <3>3. \A f \in Mine(shell[other], c[other]) : f \in EventId
      BY <3>2, MineIsOpen
    <3> QED BY <1>6, <1>7, <2>1, <3>1, <3>3 DEF Untouched
  <2> QED BY <1>3, <2>2 DEF OthersKeep
<1> HIDE DEF cs, q, st, e, run
<1> QED BY <1>1, <1>4, <1>7, <1>8, <1>9, <1>11, <1>12, OneShellBooks

\* What was queued in a shell that is killed is owed to nobody.
LEMMA CrashPays ==
  ASSUME Threads, LedgerInv, NEW sh \in Shell, Crash(sh)
  PROVE  LedgerInv'
<1>1. PICK c \in [Shell -> Seq(EventId)], claim \in [EventId -> RunKey \cup {None}],
           text \in [EventId -> Line \cup {Blank}] :
        Ledger(store, shell, queue, c, claim, text)
  BY DEF LedgerInv
<1>2. /\ queue'[sh] = <<>> /\ store' = store
      /\ \A other \in Shell \ {sh} : shell'[other] = shell[other]
                                     /\ queue'[other] = queue[other]
      /\ ~ AtWork(shell'[sh]) /\ ~ shell'[sh].counted
  BY DEF Crash, Threads, AtPrompt, AtWork
<1> DEFINE none == <<>>
<1>3. none \in Seq(EventId) /\ Mine(shell'[sh], none) = {}
  BY <1>2 DEF Mine
<1>4. Books(shell'[sh], queue'[sh], none, store', claim, text)
  BY <1>2 DEF Books, Accounts
<1> HIDE DEF none
<1>5. OthersKeep(sh, c, claim, text, none, claim, text)
  BY <1>2, <1>3 DEF OthersKeep, Untouched
<1>6. Covered(store'.run, claim) /\ \A e \in EventId : Backed(store', claim, e)
  BY <1>1, <1>2 DEF Ledger
<1> QED BY <1>1, <1>3, <1>4, <1>5, <1>6, OneShellBooks

(***************************************************************************)
(* The jobs one command queues: each is behind what has to be done first.  *)
(***************************************************************************)
Among(q) == {q[n] : n \in DOMAIN q}

Orderly(q) == \A m, n \in DOMAIN q : m < n => Before(q[m], q[n])

\* All of them are queued for event e.
AllFor(q, e) == [n \in 1 .. Len(q) |-> e]

\* A list behind a list is in order if everything in the one may be behind the other.
LEMMA OrderlyBoth ==
  ASSUME NEW q \in Seq(Job), NEW jobs \in Seq(Job), Orderly(q), Orderly(jobs),
         \A a \in Among(q), b \in Among(jobs) : Before(a, b)
  PROVE  /\ q \o jobs \in Seq(Job) /\ Orderly(q \o jobs)
         /\ Among(q \o jobs) = Among(q) \cup Among(jobs)
<1> DEFINE all == q \o jobs
<1>1. /\ Len(q) \in Nat /\ Len(jobs) \in Nat
      /\ DOMAIN q = 1 .. Len(q) /\ DOMAIN jobs = 1 .. Len(jobs)
  BY LenProperties
<1>2. /\ all \in Seq(Job) /\ Len(all) = Len(q) + Len(jobs)
      /\ \A n \in 1 .. Len(q) + Len(jobs) :
           all[n] = IF n <= Len(q) THEN q[n] ELSE jobs[n - Len(q)]
  BY <1>1, ConcatProperties
<1>3. DOMAIN all = 1 .. Len(q) + Len(jobs)
  BY <1>1, <1>2, LenProperties
<1> HIDE DEF all
<1>4. \A n \in DOMAIN all :
        \/ n \in DOMAIN q /\ all[n] = q[n]
        \/ ~ n <= Len(q) /\ n - Len(q) \in DOMAIN jobs /\ all[n] = jobs[n - Len(q)]
  BY <1>1, <1>2, <1>3
<1>5. \A n \in DOMAIN q : n \in DOMAIN all /\ all[n] = q[n]
  BY <1>1, <1>2, <1>3
<1>6. ASSUME NEW n \in DOMAIN jobs
      PROVE  n + Len(q) \in DOMAIN all /\ all[n + Len(q)] = jobs[n]
  <2> DEFINE m == n + Len(q)
  <2>1. m \in 1 .. Len(q) + Len(jobs) /\ ~ m <= Len(q) /\ m - Len(q) = n
    BY <1>1
  <2> HIDE DEF m
  <2>2. m \in DOMAIN all /\ all[m] = jobs[n]
    BY <1>2, <1>3, <2>1
  <2> QED BY <2>2 DEF m
<1>7. Among(all) = Among(q) \cup Among(jobs)
  <2>1. Among(all) \subseteq Among(q) \cup Among(jobs)
    BY <1>4 DEF Among
  <2>2. Among(q) \subseteq Among(all)
    BY <1>5 DEF Among
  <2>3. Among(jobs) \subseteq Among(all)
    BY <1>6 DEF Among
  <2> QED BY <2>1, <2>2, <2>3
<1>8. ASSUME NEW m \in DOMAIN all, NEW n \in DOMAIN all, m < n
      PROVE  Before(all[m], all[n])
  <2>1. CASE n \in DOMAIN q
    <3>1. m \in DOMAIN q
      BY <1>1, <1>3, <1>8, <2>1
    <3> QED BY <1>5, <1>8, <2>1, <3>1 DEF Orderly
  <2>2. CASE n \notin DOMAIN q /\ m \in DOMAIN q
    <3>1. all[m] \in Among(q) /\ all[n] \in Among(jobs)
      BY <1>4, <2>2 DEF Among
    <3> QED BY <3>1
  <2>3. CASE n \notin DOMAIN q /\ m \notin DOMAIN q
    <3> DEFINE k == m - Len(q)
               l == n - Len(q)
    <3>1. k \in DOMAIN jobs /\ all[m] = jobs[k] /\ l \in DOMAIN jobs /\ all[n] = jobs[l]
      BY <1>4, <2>3
    <3>2. k < l
      BY <1>1, <1>3, <1>8
    <3> HIDE DEF k, l
    <3> QED BY <3>1, <3>2 DEF Orderly
  <2> QED BY <2>1, <2>2, <2>3
<1> QED BY <1>2, <1>7, <1>8 DEF Orderly, all

\* No job, one job, and one job more.
LEMMA OrderlyOne ==
  ASSUME NEW job \in Job
  PROVE  /\ <<>> \in Seq(Job) /\ Orderly(<<>>) /\ Among(<<>>) = {}
         /\ <<job>> \in Seq(Job) /\ Orderly(<<job>>) /\ Among(<<job>>) = {job}
<1> DEFINE one == <<job>>
<1>1. one \in Seq(Job) /\ DOMAIN one = {1} /\ one[1] = job
  OBVIOUS
<1> HIDE DEF one
<1>2. Orderly(one) /\ Among(one) = {job}
  BY <1>1 DEF Orderly, Among
<1>3. <<>> \in Seq(Job) /\ Orderly(<<>>) /\ Among(<<>>) = {}
  BY DEF Orderly, Among
<1> QED BY <1>1, <1>2, <1>3 DEF one

LEMMA OrderlyAppend ==
  ASSUME NEW q \in Seq(Job), Orderly(q), NEW job \in Job,
         \A a \in Among(q) : Before(a, job)
  PROVE  /\ Append(q, job) \in Seq(Job) /\ Orderly(Append(q, job))
         /\ Among(Append(q, job)) = Among(q) \cup {job}
<1> DEFINE one == <<job>>
<1>1. one \in Seq(Job) /\ Orderly(one) /\ Among(one) = {job}
  BY OrderlyOne
<1>2. Append(q, job) = q \o one
  OBVIOUS
<1> HIDE DEF one
<1>3. /\ q \o one \in Seq(Job) /\ Orderly(q \o one)
      /\ Among(q \o one) = Among(q) \cup Among(one)
  BY <1>1, OrderlyBoth
<1> QED BY <1>1, <1>2, <1>3

\* Such a list is in order, if what each of its jobs needs is in it or has been done.
LEMMA OneCommand ==
  ASSUME NEW jobs \in Seq(Job), Orderly(jobs), NEW e \in EventId,
         NEW dir, NEW s, NEW claim, NEW text,
         \A job \in Among(jobs) : Due(job, e, jobs, AllFor(jobs, e), dir, s, claim, text)
  PROVE  Accounts(jobs, AllFor(jobs, e), dir, s, claim, text)
<1> DEFINE js == AllFor(jobs, e)
<1>1. Len(jobs) \in Nat /\ DOMAIN jobs = 1 .. Len(jobs)
  BY LenProperties
<1>2. js \in Seq(EventId) /\ Len(js) = Len(jobs) /\ \A n \in DOMAIN jobs : js[n] = e
  BY <1>1 DEF AllFor
<1> HIDE DEF js
<1>3. \A n \in DOMAIN jobs : Due(jobs[n], js[n], jobs, js, dir, s, claim, text)
  BY <1>2 DEF Among, js
<1> QED BY <1>2, <1>3 DEF Accounts, Orderly, js

LEMMA InOneCommand ==
  ASSUME NEW jobs \in Seq(Job), NEW e, NEW op
  PROVE  Has(jobs, AllFor(jobs, e), op, e) <=> \E job \in Among(jobs) : job.op = op
<1>1. DOMAIN jobs = 1 .. Len(jobs)
  BY LenProperties
<1> QED BY <1>1 DEF Has, AllFor, Among

\* A command that ends queues its jobs behind those of others.
LEMMA ReturnPays ==
  ASSUME Threads, NEW c \in [Shell -> Seq(EventId)],
         NEW claim \in [EventId -> RunKey \cup {None}],
         NEW text \in [EventId -> Line \cup {Blank}],
         Ledger(store, shell, queue, c, claim, text),
         NEW sh \in Shell, shell[sh].pc = "running", NEW e, e = shell[sh].event,
         NEW line \in Line, NEW told, told = [text EXCEPT ![e] = line],
         NEW jobs \in Seq(Job), Return(sh, shell[sh].dir, jobs), store' = store,
         Accounts(jobs, AllFor(jobs, e), shell[sh].dir, store, claim, told)
  PROVE  LedgerInv'
<1> DEFINE st == shell[sh]
           q == queue[sh]
           cs == c[sh]
           js == AllFor(jobs, e)
           all == cs \o js
<1>1. /\ Books(st, q, cs, store, claim, text) /\ q \in Seq(Job) /\ cs \in Seq(EventId)
      /\ AtWork(st)
  BY DEF Ledger, Threads, AtWork
<1>2. e \in EventId /\ \A n \in DOMAIN cs : cs[n] # e
  BY <1>1 DEF Books
<1>3. /\ \A n \in DOMAIN js : js[n] = e
      /\ js \in Seq(EventId) /\ all \in Seq(EventId)
  <2>1. Len(jobs) \in Nat
    BY LenProperties
  <2>2. js \in Seq(EventId) /\ \A n \in DOMAIN js : js[n] = e
    BY <1>2, <2>1 DEF AllFor
  <2> HIDE DEF js, cs
  <2> QED BY <1>1, <2>2, ConcatProperties
<1>4. told \in [EventId -> Line \cup {Blank}] /\ \A f \in EventId \ {e} : told[f] = text[f]
  BY <1>2
<1>5. Accounts(q, cs, st.dir, store, claim, told)
  <2>1. Accounts(q, cs, st.dir, store, claim, text)
    BY <1>1 DEF Books
  <2>2. \A n \in DOMAIN cs : cs[n] \in EventId \ {e}
    BY <1>1, <1>2, ElementOfSeq, LenProperties
  <2>3. Unmoved(q, cs, store, claim, text, store, claim, told)
    BY <1>4, <2>2 DEF Unmoved
  <2> HIDE DEF q, cs, st
  <2> QED BY <1>1, <2>1, <2>3, AccountsSame
<1>6. Accounts(q \o jobs, all, st.dir, store, claim, told)
  <2>1. \A m \in DOMAIN cs, n \in DOMAIN js : cs[m] # js[n]
    BY <1>2, <1>3
  <2> HIDE DEF q, cs, js, st
  <2> QED BY <1>1, <1>5, <2>1, BothAccounts DEF js, st
<1>7. /\ queue'[sh] = q \o jobs /\ shell'[sh].dir = st.dir /\ ~ shell'[sh].counted
      /\ ~ AtWork(shell'[sh])
      /\ \A other \in Shell \ {sh} : shell'[other] = shell[other]
                                     /\ queue'[other] = queue[other]
  BY DEF Return, Threads, AtPrompt, AtWork
<1>8. Books(shell'[sh], queue'[sh], all, store', claim, told)
  BY <1>6, <1>7 DEF Books
<1>9. Mine(shell'[sh], all) \subseteq Mine(st, cs) /\ e \in Mine(st, cs)
  <2>1. \A n \in DOMAIN all : all[n] = e \/ \E m \in DOMAIN cs : all[n] = cs[m]
    <3>1. \A n \in DOMAIN all :
            \/ n \in DOMAIN cs /\ all[n] = cs[n]
            \/ n - Len(cs) \in DOMAIN js /\ all[n] = js[n - Len(cs)]
      <4> HIDE DEF cs, js
      <4> QED BY <1>1, <1>3, ConcatProperties, LenProperties
    <3> QED BY <1>3, <3>1
  <2>2. e \in Mine(st, cs)
    BY <1>1 DEF Mine
  <2> HIDE DEF all, js
  <2> QED BY <1>7, <2>1, <2>2 DEF Mine
<1> HIDE DEF all, js
<1>10. OthersKeep(sh, c, claim, text, all, claim, told)
  <2>1. ASSUME NEW other \in Shell \ {sh}
        PROVE  /\ Untouched(shell[other], queue[other], c[other], store, claim, text,
                            store', claim, told)
               /\ Mine(shell'[sh], all) \cap Mine(shell[other], c[other]) = {}
    <3>1. Mine(st, cs) \cap Mine(shell[other], c[other]) = {}
      BY DEF Ledger
    <3>2. Books(shell[other], queue[other], c[other], store, claim, text)
          /\ queue[other] \in Seq(Job)
      BY DEF Ledger, Threads
    <3>3. \A f \in Mine(shell[other], c[other]) : f \in EventId
      BY <3>2, MineIsOpen
    <3> QED BY <1>4, <1>9, <3>1, <3>3 DEF Untouched
  <2> QED BY <1>7, <2>1 DEF OthersKeep
<1>11. Covered(store'.run, claim) /\ \A f \in EventId : Backed(store', claim, f)
  BY DEF Ledger
<1>12. all \in Seq(EventId)
  BY <1>3 DEF all, js
<1> HIDE DEF cs, q, st
<1> QED BY <1>4, <1>8, <1>10, <1>11, <1>12, OneShellBooks

\* What is known of a command that ends.
LEMMA CommandEnds ==
  ASSUME Sound(store), Threads, JobsKnow, NEW c, NEW claim, NEW text,
         Ledger(store, shell, queue, c, claim, text),
         NEW sh \in Shell, shell[sh].pc = "running"
  PROVE  LET st == shell[sh] e == st.event IN
         /\ e \in EventId /\ st.line \in Line /\ st.dir \in Dir /\ st.id \in LocalId
         /\ store.event[e] # None /\ store.event[e].done = None
         /\ store.event[e].line = st.line /\ store.local[st.id] = e
         /\ st.counted => claim[e] = RunAt(st.dir, st.line)
<1>1. Books(shell[sh], queue[sh], c[sh], store, claim, text) /\ AtWork(shell[sh])
  BY DEF Ledger, AtWork
<1>2. store.local[shell[sh].id] = shell[sh].event
  BY DEF JobsKnow, Running, UnderWay
<1> QED BY <1>1, <1>2, LineUnderWay DEF Books

\* A run is taken back before anything else is done about its command.
LEMMA UncountOrderly ==
  ASSUME Threads, NEW sh \in Shell, shell[sh].pc = "running"
  PROVE  /\ Uncount(sh) \in Seq(Job) /\ Orderly(Uncount(sh))
         /\ \A job \in Among(Uncount(sh)) :
              job = [op |-> "forget_entered", dir |-> shell[sh].dir, line |-> shell[sh].line]
              /\ shell[sh].counted
<1> DEFINE taken == [op |-> "forget_entered", dir |-> shell[sh].dir, line |-> shell[sh].line]
<1>1. shell[sh].line \in Line /\ shell[sh].dir \in Dir
  BY LineUnderWay
<1>2. taken \in Job
  BY <1>1 DEF Job
<1>3. Uncount(sh) = IF shell[sh].counted THEN <<taken>> ELSE <<>>
  BY DEF Uncount
<1> HIDE DEF taken
<1>4. /\ <<>> \in Seq(Job) /\ Orderly(<<>>) /\ Among(<<>>) = {}
      /\ <<taken>> \in Seq(Job) /\ Orderly(<<taken>>) /\ Among(<<taken>>) = {taken}
  BY <1>2, OrderlyOne
<1>5. CASE shell[sh].counted
  BY <1>3, <1>4, <1>5 DEF taken
<1>6. CASE ~ shell[sh].counted
  BY <1>3, <1>4, <1>6
<1> QED BY <1>5, <1>6

\* A shell that returns to the prompt is where it says.
LEMMA ReturnsTo ==
  ASSUME Threads, NEW sh \in Shell, NEW to, NEW jobs, Return(sh, to, jobs)
  PROVE  shell'[sh].dir = to
BY DEF Threads, Return, AtPrompt

\* A refused line's run is taken back, and its row goes.
LEMMA RefusePays ==
  ASSUME Sound(store), Threads, JobsKnow, LedgerInv,
         NEW sh \in Shell, Refuse(sh), shell'[sh].dir = shell[sh].dir
  PROVE  LedgerInv'
<1>1. PICK c \in [Shell -> Seq(EventId)], claim \in [EventId -> RunKey \cup {None}],
           text \in [EventId -> Line \cup {Blank}] :
        Ledger(store, shell, queue, c, claim, text)
  BY DEF LedgerInv
<1> DEFINE st == shell[sh]
           e == st.event
           line == st.line
           dir == st.dir
           told == [text EXCEPT ![e] = line]
           drop == [op |-> "drop", id |-> st.id]
           jobs == Append(Uncount(sh), drop)
<1>2. st.pc = "running" /\ store' = store /\ Return(sh, dir, jobs)
  BY ReturnsTo DEF Refuse, RefusedJobs
<1>3. /\ e \in EventId /\ line \in Line /\ dir \in Dir /\ st.id \in LocalId
      /\ store.event[e] # None /\ store.event[e].done = None
      /\ store.event[e].line = line /\ store.local[st.id] = e
      /\ st.counted => claim[e] = RunAt(dir, line)
  BY <1>1, <1>2, CommandEnds
<1>4. /\ Uncount(sh) \in Seq(Job) /\ Orderly(Uncount(sh))
      /\ \A job \in Among(Uncount(sh)) :
           job = [op |-> "forget_entered", dir |-> dir, line |-> line] /\ st.counted
  BY <1>2, UncountOrderly
<1>5. drop \in Job /\ drop.op = "drop" /\ \A i \in About(drop) : store.local[i] = e
  BY <1>3 DEF Job, About
<1>6. \A a \in Among(Uncount(sh)) : Before(a, drop)
  BY <1>4 DEF Before
<1> HIDE DEF drop, told, e, line, dir, st
<1>7. jobs \in Seq(Job) /\ Orderly(jobs) /\ Among(jobs) = Among(Uncount(sh)) \cup {drop}
  BY <1>4, <1>5, <1>6, OrderlyAppend
<1> HIDE DEF jobs
<1>8. ~ Has(jobs, AllFor(jobs, e), "outcome", e)
  BY <1>4, <1>5, <1>7, InOneCommand
<1>9. ASSUME NEW job \in Among(jobs)
      PROVE  Due(job, e, jobs, AllFor(jobs, e), dir, store, claim, told)
  <2>1. CASE job = drop
    BY <1>3, <1>5, <2>1 DEF Due
  <2>2. CASE job \in Among(Uncount(sh))
    BY <1>3, <1>4, <1>8, <2>2 DEF Due, About
  <2> QED BY <1>7, <2>1, <2>2
<1>10. Accounts(jobs, AllFor(jobs, e), dir, store, claim, told)
  BY <1>3, <1>7, <1>9, OneCommand
<1> USE DEF st, e, dir
<1> QED BY <1>1, <1>2, <1>3, <1>7, <1>10, ReturnPays DEF told

\* A line that goes down as it was typed: one boundary counts it, unless Enter has, and
\* writes the outcome.
LEMMA AsTypedPays ==
  ASSUME Sound(store), Threads, JobsKnow, NEW c \in [Shell -> Seq(EventId)],
         NEW claim \in [EventId -> RunKey \cup {None}],
         NEW text \in [EventId -> Line \cup {Blank}],
         Ledger(store, shell, queue, c, claim, text),
         NEW sh \in Shell, shell[sh].pc = "running", store' = store,
         NEW status \in Status, status # Unparsed,
         Return(sh, shell[sh].dir, AsTypedJobs(sh, shell[sh].dir, shell[sh].line, status))
  PROVE  LedgerInv'
<1> DEFINE st == shell[sh]
           e == st.event
           line == st.line
           dir == st.dir
           told == [text EXCEPT ![e] = line]
           job == Boundary(sh, dir, IF st.counted THEN None ELSE line, st.id, status)
           jobs == <<job>>
<1>1. AsTypedJobs(sh, dir, line, status) = jobs
  <2>1. Append(<<>>, job) = <<job>>
    OBVIOUS
  <2> QED BY <2>1 DEF AsTypedJobs, Uncount, RunOf
<1>2. /\ e \in EventId /\ line \in Line /\ dir \in Dir /\ st.id \in LocalId
      /\ store.event[e] # None /\ store.event[e].done = None
      /\ store.event[e].line = line /\ store.local[st.id] = e
      /\ st.counted => claim[e] = RunAt(dir, line)
  BY CommandEnds
<1>3. /\ job \in Job /\ job.op = "boundary" /\ job.id = st.id
      /\ job.line = (IF st.counted THEN None ELSE line)
      /\ \A i \in About(job) : store.local[i] = e
  BY <1>2 DEF Boundary, Job, About
<1>4. told[e] = line
  BY <1>2
<1> HIDE DEF job, told, e, line, dir
<1>5. jobs \in Seq(Job) /\ Orderly(jobs) /\ Among(jobs) = {job}
  BY <1>3, OrderlyOne
<1> HIDE DEF jobs
<1>6. Due(job, e, jobs, AllFor(jobs, e), dir, store, claim, told)
  <2>1. job.line = None => st.counted
    BY <1>2, <1>3, HistoryAssumption
  <2> HIDE DEF st
  <2> QED BY <1>2, <1>3, <1>4, <2>1 DEF Due
<1>7. Accounts(jobs, AllFor(jobs, e), dir, store, claim, told)
  BY <1>2, <1>5, <1>6, OneCommand
<1>8. Return(sh, dir, jobs)
  BY <1>1 DEF dir, line
<1> USE DEF e, dir
<1> QED BY <1>2, <1>5, <1>7, <1>8, ReturnPays DEF told

\* A rule kept other lines: what Enter counted is taken back, the first line is counted in
\* its place, the rest are counted and nobody's, the row is rewritten, and the outcome comes
\* last.
LEMMA KeptPays ==
  ASSUME Sound(store), Threads, JobsKnow, NEW c \in [Shell -> Seq(EventId)],
         NEW claim \in [EventId -> RunKey \cup {None}],
         NEW text \in [EventId -> Line \cup {Blank}],
         Ledger(store, shell, queue, c, claim, text),
         NEW sh \in Shell, shell[sh].pc = "running", store' = store,
         NEW kept \in Kept, NEW status \in Status, status # Unparsed,
         Return(sh, shell[sh].dir, KeptJobs(sh, shell[sh].dir, shell[sh].line, kept, status))
  PROVE  LedgerInv'
<1> DEFINE st == shell[sh]
           e == st.event
           line == st.line
           dir == st.dir
           first == kept[1]
           told == [text EXCEPT ![e] = first]
           ran == Boundary(sh, dir, first, None, status)
           also(n) == [op |-> "also_ran", from |-> dir, line |-> kept[n + 1]]
           more == [n \in 1 .. Len(kept) - 1 |-> also(n)]
           rewrite == [op |-> "rewrite", id |-> st.id, line |-> first]
           rewrites == IF first = line THEN <<>> ELSE <<rewrite>>
           outcome == [op |-> "outcome", id |-> st.id, status |-> status]
           counts == Append(Uncount(sh), ran)
           jobs == counts \o more \o rewrites \o <<outcome>>
<1>1. Return(sh, dir, jobs)
  BY DEF KeptJobs, RunOf
<1>2. /\ e \in EventId /\ line \in Line /\ dir \in Dir /\ st.id \in LocalId
      /\ store.event[e] # None /\ store.event[e].done = None
      /\ store.event[e].line = line /\ store.local[st.id] = e
      /\ st.counted => claim[e] = RunAt(dir, line)
  BY CommandEnds
<1>3. Len(kept) \in Nat /\ first \in Line /\ \A n \in 1 .. Len(kept) - 1 : kept[n + 1] \in Line
  <2>1. kept \in Seq(Line) /\ kept # <<>>
    BY LogAssumption
  <2>2. Len(kept) \in Nat /\ Len(kept) >= 1 /\ \A n \in 1 .. Len(kept) : kept[n] \in Line
    BY <2>1, EmptySeq, ElementOfSeq, LenProperties
  <2> QED BY <2>2
<1>4. /\ ran \in Job /\ ran.op = "boundary" /\ ran.id = None /\ ran.line = first
      /\ rewrite \in Job /\ rewrite.op = "rewrite" /\ rewrite.line = first
      /\ outcome \in Job /\ outcome.op = "outcome"
      /\ About(ran) = {} /\ About(rewrite) \subseteq {st.id} /\ About(outcome) \subseteq {st.id}
  BY <1>2, <1>3 DEF Boundary, Job, About
<1>5. \A n \in 1 .. Len(kept) - 1 : /\ also(n) \in Job /\ also(n).op = "also_ran"
                                    /\ About(also(n)) = {}
  BY <1>2, <1>3 DEF Job, About
<1>6. told[e] = first
  BY <1>2
<1> HIDE DEF ran, also, rewrite, outcome, told
<1>7. /\ Uncount(sh) \in Seq(Job) /\ Orderly(Uncount(sh))
      /\ \A job \in Among(Uncount(sh)) :
           job = [op |-> "forget_entered", dir |-> dir, line |-> line] /\ st.counted
  BY UncountOrderly
<1>8. counts \in Seq(Job) /\ Orderly(counts) /\ Among(counts) = Among(Uncount(sh)) \cup {ran}
  <2>1. \A a \in Among(Uncount(sh)) : Before(a, ran)
    BY <1>3, <1>4, <1>7, HistoryAssumption DEF Before
  <2> QED BY <1>4, <1>7, <2>1, OrderlyAppend
<1>9. more \in Seq(Job) /\ Orderly(more)
      /\ \A job \in Among(more) : job.op = "also_ran" /\ About(job) = {}
  <2>1. Len(kept) - 1 \in Nat \/ Len(kept) = 0
    BY <1>3
  <2>2. more \in Seq(Job)
    BY <1>3, <1>5
  <2>3. \A job \in Among(more) : job.op = "also_ran" /\ About(job) = {}
    BY <1>5 DEF Among
  <2>4. Orderly(more)
    <3>1. \A n \in DOMAIN more : more[n].op = "also_ran"
      BY <1>5
    <3> HIDE DEF more
    <3> QED BY <3>1 DEF Orderly, Before
  <2> QED BY <2>2, <2>3, <2>4
<1>10. rewrites \in Seq(Job) /\ Orderly(rewrites)
       /\ Among(rewrites) = IF first = line THEN {} ELSE {rewrite}
  <2>1. /\ <<>> \in Seq(Job) /\ Orderly(<<>>) /\ Among(<<>>) = {}
        /\ <<rewrite>> \in Seq(Job) /\ Orderly(<<rewrite>>) /\ Among(<<rewrite>>) = {rewrite}
    BY <1>4, OrderlyOne
  <2> QED BY <2>1
<1> DEFINE last == <<outcome>>
<1>11. last \in Seq(Job) /\ Orderly(last) /\ Among(last) = {outcome}
  BY <1>4, OrderlyOne
<1> HIDE DEF counts, more, rewrites, last
<1>12. /\ counts \o more \in Seq(Job) /\ Orderly(counts \o more)
       /\ Among(counts \o more) = Among(counts) \cup Among(more)
  <2>1. \A a \in Among(counts), b \in Among(more) : Before(a, b)
    BY <1>4, <1>7, <1>8, <1>9 DEF Before
  <2> QED BY <1>8, <1>9, <2>1, OrderlyBoth
<1> DEFINE some == counts \o more
           most == some \o rewrites
<1>13. /\ most \in Seq(Job) /\ Orderly(most)
       /\ Among(most) = Among(some) \cup Among(rewrites)
  <2>1. \A a \in Among(some), b \in Among(rewrites) : Before(a, b)
    BY <1>4, <1>7, <1>8, <1>9, <1>10, <1>12 DEF Before
  <2>2. some \in Seq(Job) /\ Orderly(some)
    BY <1>12
  <2> HIDE DEF some
  <2> QED BY <1>10, <2>1, <2>2, OrderlyBoth
<1>14. jobs \in Seq(Job) /\ Orderly(jobs) /\ Among(jobs) = Among(most) \cup {outcome}
  <2>1. \A a \in Among(most), b \in Among(last) : Before(a, b)
    BY <1>4, <1>7, <1>8, <1>9, <1>10, <1>11, <1>12, <1>13 DEF Before
  <2>2. jobs = most \o last
    BY DEF last
  <2> HIDE DEF most, jobs
  <2> QED BY <1>11, <1>13, <2>1, <2>2, OrderlyBoth
<1>15. Among(jobs) = Among(Uncount(sh)) \cup {ran} \cup Among(more)
                       \cup (IF first = line THEN {} ELSE {rewrite}) \cup {outcome}
  BY <1>8, <1>10, <1>12, <1>13, <1>14
<1> DEFINE js == AllFor(jobs, e)
<1>16. Has(jobs, js, "boundary", e) /\ (first # line => Has(jobs, js, "rewrite", e))
  <2>1. /\ ran \in Among(jobs) /\ ran.op = "boundary"
        /\ first # line => rewrite \in Among(jobs) /\ rewrite.op = "rewrite"
    BY <1>4, <1>15
  <2> HIDE DEF jobs, e
  <2> QED BY <1>14, <2>1, InOneCommand
<1> HIDE DEF jobs, js, e, line, dir, first, st
<1>17. ASSUME NEW job \in Among(jobs)
       PROVE  Due(job, e, jobs, js, dir, store, claim, told)
  <2>1. CASE job \in Among(Uncount(sh))
    BY <1>2, <1>7, <1>16, <2>1 DEF Due, About
  <2>2. CASE job = ran
    BY <1>2, <1>3, <1>4, <1>6, <2>2, HistoryAssumption DEF Due
  <2>3. CASE job \in Among(more)
    BY <1>2, <1>9, <2>3 DEF Due
  <2>4. CASE job = rewrite
    BY <1>2, <1>4, <1>6, <2>4 DEF Due
  <2>5. CASE job = outcome
    BY <1>2, <1>4, <1>6, <1>16, <2>5 DEF Due
  <2> QED BY <1>15, <2>1, <2>2, <2>3, <2>4, <2>5
<1>18. Accounts(jobs, js, dir, store, claim, told)
  BY <1>2, <1>14, <1>17, OneCommand DEF js
<1> USE DEF st, e, dir
<1> QED BY <1>1, <1>3, <1>14, <1>18, ReturnPays DEF told, js

\* However a command ends, what is queued for it is what it is owed.
LEMMA FinishPays ==
  ASSUME RunsByRule, Sound(store), Threads, JobsKnow, LedgerInv,
         NEW sh \in Shell, Finish(sh), shell'[sh].dir = shell[sh].dir
  PROVE  LedgerInv'
<1>1. PICK c \in [Shell -> Seq(EventId)], claim \in [EventId -> RunKey \cup {None}],
           text \in [EventId -> Line \cup {Blank}] :
        Ledger(store, shell, queue, c, claim, text)
  BY DEF LedgerInv
<1> DEFINE dir == shell[sh].dir
           line == shell[sh].line
<1>2. PICK status \in Status :
        \/ Return(sh, dir, AsTypedJobs(sh, dir, line, status))
        \/ \E kept \in Kept : Return(sh, dir, KeptJobs(sh, dir, line, kept, status))
  <2>1. Texts(sh) = {line}
    BY DEF RunsByRule, Texts
  <2>2. PICK to \in Dir, status \in Status :
          \/ Return(sh, to, AsTypedJobs(sh, to, line, status))
          \/ \E kept \in Kept : Return(sh, to, KeptJobs(sh, to, line, kept, status))
    BY <2>1 DEF Finish
  <2>3. to = dir
    BY <2>2, ReturnsTo
  <2> QED BY <2>2, <2>3
<1>3. shell[sh].pc = "running" /\ store' = store /\ status # Unparsed
  BY DEF Finish, RunsByRule
<1>4. CASE Return(sh, dir, AsTypedJobs(sh, dir, line, status))
  BY <1>1, <1>3, <1>4, AsTypedPays
<1>5. CASE \E kept \in Kept : Return(sh, dir, KeptJobs(sh, dir, line, kept, status))
  BY <1>1, <1>3, <1>5, KeptPays
<1> QED BY <1>2, <1>4, <1>5

-----------------------------------------------------------------------------
(***************************************************************************)
(* Every step of an instance in which rows and runs go at a rule's word    *)
(* only and nobody changes directory.                                      *)
(***************************************************************************)
\* The steps there are.
Steps(sh) ==
  \/ \E line \in Line : Enter(sh, line)
  \/ Count(sh) \/ Finish(sh) \/ Refuse(sh)
  \/ RunBoundary(sh) \/ RunAlsoRan(sh) \/ RunForgetEntered(sh) \/ RunOnRow(sh)
  \/ Crash(sh)

LEMMA OnlySteps ==
  ASSUME RowsGoByRule, Threads, OnlyDoing, Next
  PROVE  \E sh \in Shell : Steps(sh)
<1>1. /\ "clear" \notin Doing /\ "forget" \notin Doing /\ "trim" \notin Doing
      /\ "cli" \notin Doing
  BY DEF RowsGoByRule
<1>2. cli = {} /\ \A sh \in Shell :
        /\ trim[sh] = Idle
        /\ shell[sh].pc \in {"prompt", "entered", "running"}
        /\ ~ Working(sh, "trim")
  <2>1. ASSUME NEW sh \in Shell, Working(sh, "trim") PROVE FALSE
    <3>1. Head(queue[sh]) \in Allowed
      BY <2>1, HeadTailProperties DEF Working, OnlyDoing
    <3> QED BY <1>1, <2>1, <3>1 DEF Working, Allowed
  <2>2. \A sh \in Shell : shell[sh].pc \in {"prompt", "entered", "running"}
    BY <1>1 DEF OnlyDoing, ShellDoes, Threads, ShellState, Loop
  <2> QED BY <1>1, <2>1, <2>2 DEF OnlyDoing
<1>3. ASSUME NEW sh \in Shell, Prompt(sh) \/ Continue(sh) PROVE Steps(sh)
  BY <1>1, <1>2, <1>3
   DEF Steps, Prompt, Continue, ForgetLine, BeginClear, Leave, ClearRows, ClearRuns,
       ReadForgotten, ForgetLog
<1>4. ASSUME NEW sh \in Shell, Write(sh) PROVE Steps(sh)
  BY <1>2, <1>4
   DEF Steps, Write, SkipTrim, ReadDoomed, HideDoomed, ReadOutcomes, SweepOutcomes, SweepRows,
       Idle
<1>5. ~ CliRead /\ ~ CliDelete
  BY <1>1, <1>2 DEF CliRead, CliDelete
<1> QED BY <1>3, <1>4, <1>5 DEF Next, Steps

\* What the end of a command queues is in place if the command did not move.
LEMMA JobsInPlace ==
  ASSUME Threads, NEW sh \in Shell, shell[sh].pc = "running"
  PROVE  LET dir == shell[sh].dir IN
         /\ RefusedJobs(sh) \in Seq(JobIn(dir))
         /\ \A text \in Line, status \in Status :
              AsTypedJobs(sh, dir, text, status) \in Seq(JobIn(dir))
         /\ \A text \in Line, kept \in Kept, status \in Status :
              KeptJobs(sh, dir, text, kept, status) \in Seq(JobIn(dir))
<1> DEFINE id == shell[sh].id
           dir == shell[sh].dir
           own == JobIn(dir)
<1>1. /\ shell[sh].line \in Line /\ id \in LocalId
      /\ dir \in Dir
  BY LineUnderWay
<1>2. Uncount(sh) \in Seq(own)
  <2> DEFINE job == [op |-> "forget_entered", dir |-> dir, line |-> shell[sh].line]
  <2>1. job \in own
    BY <1>1 DEF Job, JobIn
  <2> HIDE DEF job, own
  <2>2. <<job>> \in Seq(own) /\ <<>> \in Seq(own)
    BY <2>1
  <2> QED BY <2>2 DEF Uncount, job
<1>3. ASSUME NEW line \in Line \cup {None}, NEW status \in Status
      PROVE  /\ Boundary(sh, dir, line, id, status) \in own
             /\ Boundary(sh, dir, line, None, status) \in own
  BY <1>1 DEF Boundary, Job, JobIn
<1>4. ASSUME NEW line \in Line, NEW status PROVE RunOf(line, status) \in Line \cup {None}
  BY DEF RunOf
<1>5. RefusedJobs(sh) \in Seq(own)
  <2> DEFINE job == [op |-> "drop", id |-> id]
  <2>1. job \in own
    BY <1>1 DEF Job, JobIn
  <2> HIDE DEF job, own
  <2> QED BY <1>2, <2>1, AppendProperties DEF RefusedJobs, job
<1>6. ASSUME NEW text \in Line, NEW status \in Status
      PROVE  AsTypedJobs(sh, dir, text, status) \in Seq(own)
  <2> DEFINE alone == Boundary(sh, dir, None, id, status)
             ran == Boundary(sh, dir, RunOf(text, status), id, status)
  <2>1. alone \in own /\ ran \in own
    BY <1>1, <1>3, <1>4
  <2> HIDE DEF alone, ran, own
  <2>2. <<alone>> \in Seq(own) /\ Append(Uncount(sh), ran) \in Seq(own)
    BY <1>2, <2>1, AppendProperties
  <2> QED BY <2>2 DEF AsTypedJobs, alone, ran
<1>7. ASSUME NEW text \in Line, NEW kept \in Kept, NEW status \in Status
      PROVE  KeptJobs(sh, dir, text, kept, status) \in Seq(own)
  <2> DEFINE ran == Boundary(sh, dir, RunOf(kept[1], status), None, status)
             also(n) == [op |-> "also_ran", from |-> dir, line |-> RunOf(kept[n + 1], status)]
             more == [n \in 1 .. Len(kept) - 1 |-> also(n)]
             rewrite == [op |-> "rewrite", id |-> id, line |-> kept[1]]
             rewrites == IF kept[1] = text THEN <<>> ELSE <<rewrite>>
             outcome == [op |-> "outcome", id |-> id, status |-> status]
  <2>1. kept \in Seq(Line) /\ kept # <<>>
    BY LogAssumption
  <2>2. Len(kept) \in Nat /\ Len(kept) >= 1 /\ \A n \in 1 .. Len(kept) : kept[n] \in Line
    BY <2>1, EmptySeq, ElementOfSeq, LenProperties
  <2>3. ran \in own
    <3>1. RunOf(kept[1], status) \in Line \cup {None}
      BY <1>4, <2>2
    <3> HIDE DEF own, dir
    <3> QED BY <1>3, <3>1
  <2>4. more \in Seq(own)
    <3>1. \A n \in 1 .. Len(kept) - 1 : also(n) \in own
      BY <1>1, <1>4, <2>2 DEF Job, JobIn
    <3> HIDE DEF also, own
    <3>2. Len(kept) - 1 \in Nat
      BY <2>2
    <3> QED BY <3>1, <3>2
  <2>5. rewrite \in own /\ outcome \in own
    BY <1>1, <2>2 DEF Job, JobIn
  <2> HIDE DEF ran, more, rewrite, outcome, own
  <2>6. rewrites \in Seq(own) /\ <<outcome>> \in Seq(own)
    BY <2>5
  <2> HIDE DEF rewrites
  <2>7. Append(Uncount(sh), ran) \in Seq(own) /\ more \in Seq(own)
    BY <1>2, <2>3, <2>4, AppendProperties
  <2>8. Append(Uncount(sh), ran) \o more \o rewrites \o <<outcome>> \in Seq(own)
    BY <2>6, <2>7, ConcatProperties
  <2> QED BY <2>8 DEF KeptJobs, ran, more, rewrites, rewrite, outcome
<1> QED BY <1>5, <1>6, <1>7

\* One shell's threads are in place after its step, and the others are as they were.
LEMMA OneInPlace ==
  ASSUME InPlace, NEW sh \in Shell,
         \A other \in Shell \ {sh} : shell'[other] = shell[other] /\ queue'[other] = queue[other],
         shell'[sh].current = shell'[sh].dir, queue'[sh] \in Seq(JobIn(shell'[sh].dir))
  PROVE  InPlace'
BY DEF InPlace

\* A command that ends where it started queues what it queues in place.
LEMMA ReturnInPlace ==
  ASSUME Threads, InPlace, NEW sh \in Shell, NEW jobs \in Seq(JobIn(shell[sh].dir)),
         Return(sh, shell[sh].dir, jobs)
  PROVE  InPlace'
<1> DEFINE own == JobIn(shell[sh].dir)
<1>1. queue[sh] \in Seq(own) /\ jobs \in Seq(own) /\ shell[sh].current = shell[sh].dir
  BY DEF InPlace
<1> HIDE DEF own
<1>2. queue[sh] \o jobs \in Seq(own)
  BY <1>1, ConcatProperties
<1>3. /\ shell'[sh].current = shell[sh].dir /\ shell'[sh].dir = shell[sh].dir
      /\ queue'[sh] = queue[sh] \o jobs
      /\ \A other \in Shell \ {sh} : shell'[other] = shell[other]
                                     /\ queue'[other] = queue[other]
  BY <1>1 DEF Return, Threads, AtPrompt
<1> QED BY <1>2, <1>3, OneInPlace DEF own

\* Nobody moves: every thread stays in place.
LEMMA StepStaysInPlace ==
  ASSUME RunsByRule, Threads, InPlace, NEW sh \in Shell, Steps(sh),
         shell'[sh].dir = shell[sh].dir
  PROVE  InPlace'
<1> DEFINE dir == shell[sh].dir
           own == JobIn(dir)
<1>1. queue[sh] \in Seq(own) /\ shell[sh].current = dir /\ dir \in Dir
  BY DEF InPlace, Threads, ShellState
<1>2. CASE \E line \in Line : Enter(sh, line)
  <2>1. queue' = queue
    BY <1>2 DEF Enter, RunsByRule, Threads
  <2>2. shell'[sh].current = dir /\ \A other \in Shell \ {sh} : shell'[other] = shell[other]
    BY <1>1, <1>2 DEF Enter, Threads, ShellState
  <2> QED BY <1>1, <2>1, <2>2, OneInPlace
<1>3. CASE Count(sh)
  <2>1. /\ queue' = queue /\ shell'[sh].current = dir
        /\ \A other \in Shell \ {sh} : shell'[other] = shell[other]
    BY <1>3 DEF Count, Threads, ShellState
  <2> QED BY <1>1, <2>1, OneInPlace
<1>4. CASE Finish(sh)
  <2>1. shell[sh].pc = "running" /\ Texts(sh) \subseteq Line
    BY <1>4, LineUnderWay DEF Finish, Texts
  <2>2. PICK to \in Dir, text \in Line, status \in Status :
          \/ Return(sh, to, AsTypedJobs(sh, to, text, status))
          \/ \E kept \in Kept : Return(sh, to, KeptJobs(sh, to, text, kept, status))
    BY <1>4, <2>1 DEF Finish
  <2>3. to = dir
    BY <2>2, ReturnsTo
  <2>4. PICK jobs \in Seq(own) : Return(sh, dir, jobs)
    BY <2>1, <2>2, <2>3, JobsInPlace
  <2> QED BY <2>4, ReturnInPlace
<1>5. CASE Refuse(sh)
  <2>1. shell[sh].pc = "running" /\ Return(sh, dir, RefusedJobs(sh))
    BY <1>5, ReturnsTo DEF Refuse
  <2>2. RefusedJobs(sh) \in Seq(own)
    BY <2>1, JobsInPlace
  <2> QED BY <2>1, <2>2, ReturnInPlace
<1>6. ASSUME queue[sh] # <<>>
      PROVE  Tail(queue[sh]) \in Seq(own) /\ Head(queue[sh]) \in own
  <2> HIDE DEF own
  <2> QED BY <1>1, <1>6, HeadTailProperties
<1>7. ASSUME queue[sh] # <<>>, Dequeue(sh), NEW current,
             shell' = [shell EXCEPT ![sh].current = current], current = dir
      PROVE  InPlace'
  <2>1. /\ queue'[sh] = Tail(queue[sh]) /\ shell'[sh].current = dir
        /\ \A other \in Shell \ {sh} : shell'[other] = shell[other]
                                       /\ queue'[other] = queue[other]
    BY <1>7 DEF Dequeue, Threads, ShellState
  <2> QED BY <1>6, <1>7, <2>1, OneInPlace
<1>8. shell = [shell EXCEPT ![sh].current = dir]
  BY <1>1 DEF Threads, ShellState
<1>9. CASE RunBoundary(sh)
  <2>1. queue[sh] # <<>> /\ Dequeue(sh) /\ Head(queue[sh]).op = "boundary"
    BY <1>9 DEF RunBoundary, Working
  <2>2. Head(queue[sh]).to = dir
    BY <1>6, <2>1 DEF JobIn
  <2>3. shell' = [shell EXCEPT ![sh].current = dir]
    BY <1>8, <1>9, <2>2 DEF RunBoundary
  <2> QED BY <1>7, <2>1, <2>3
<1>10. CASE RunAlsoRan(sh)
  <2>1. queue[sh] # <<>> /\ Dequeue(sh) /\ Head(queue[sh]).op = "also_ran"
        /\ shell' = [shell EXCEPT ![sh].current = Head(queue[sh]).from]
    BY <1>10 DEF RunAlsoRan, Working
  <2>2. Head(queue[sh]).from = dir
    BY <1>6, <2>1 DEF JobIn
  <2> QED BY <1>7, <2>1, <2>2
<1>11. CASE RunForgetEntered(sh) \/ RunOnRow(sh)
  <2>1. queue[sh] # <<>> /\ Dequeue(sh) /\ shell' = shell
    BY <1>11 DEF RunForgetEntered, RunOnRow, Working
  <2> QED BY <1>7, <1>8, <2>1
<1>12. CASE Crash(sh)
  <2>1. /\ queue'[sh] = <<>> /\ shell'[sh].current = dir
        /\ \A other \in Shell \ {sh} : shell'[other] = shell[other]
                                       /\ queue'[other] = queue[other]
    BY <1>12 DEF Crash, Threads, AtPrompt
  <2>2. queue'[sh] \in Seq(JobIn(shell'[sh].dir))
    <3>1. \A S : <<>> \in Seq(S)
      OBVIOUS
    <3> QED BY <2>1, <3>1
  <2> QED BY <2>1, <2>2, OneInPlace
<1> QED BY <1>2, <1>3, <1>4, <1>5, <1>9, <1>10, <1>11, <1>12 DEF Steps

\* Every command's claim is kept, and what is claimed is counted.
LEMMA EveryStepPays ==
  ASSUME RunsByRule, OutcomesInv, OnlyDoing, InPlace, LedgerInv, [Next]_vars,
         \A sh \in Shell : shell'[sh].dir = shell[sh].dir
  PROVE  InPlace' /\ LedgerInv'
<1>1. /\ Sound(store) /\ Truthful(store) /\ Threads /\ RowsOwned /\ JobsKnow
      /\ RowsGoByRule /\ "trim" \notin Doing
  BY LogInvParts DEF OutcomesInv, RowsInv, RunsByRule, RowsGoByRule
<1>2. CASE Next
  <2>1. PICK sh \in Shell : Steps(sh)
    BY <1>1, <1>2, OnlySteps
  <2>2. InPlace'
    BY <1>1, <2>1, StepStaysInPlace
  <2>3. CASE \E line \in Line : Enter(sh, line)
    BY <1>1, <2>2, <2>3, EnterPays
  <2>4. CASE Count(sh)
    BY <1>1, <2>2, <2>4, CountPays
  <2>5. CASE Finish(sh)
    BY <1>1, <2>2, <2>5, FinishPays
  <2>6. CASE Refuse(sh)
    BY <1>1, <2>2, <2>6, RefusePays
  <2>7. CASE RunBoundary(sh)
    BY <1>1, <2>2, <2>7, BoundaryPays
  <2>8. CASE RunAlsoRan(sh)
    BY <1>1, <2>2, <2>8, AlsoRanPays
  <2>9. CASE RunForgetEntered(sh)
    BY <1>1, <2>2, <2>9, ForgetEnteredPays
  <2>10. CASE RunOnRow(sh)
    BY <1>1, <2>2, <2>10, OnRowPays
  <2>11. CASE Crash(sh)
    BY <1>1, <2>2, <2>11, CrashPays
  <2> QED BY <2>1, <2>3, <2>4, <2>5, <2>6, <2>7, <2>8, <2>9, <2>10, <2>11 DEF Steps
<1>3. CASE UNCHANGED vars
  BY <1>3 DEF vars, InPlace, LedgerInv, Ledger
<1> QED BY <1>2, <1>3

\* To begin with nothing is counted, and nothing claimed.
LEMMA NothingOwed ==
  ASSUME Init
  PROVE  InPlace /\ LedgerInv
<1>1. /\ \A sh \in Shell : /\ queue[sh] = <<>> /\ shell[sh].current = shell[sh].dir
                           /\ ~ AtWork(shell[sh]) /\ ~ shell[sh].counted
      /\ \A e \in EventId : store.projection[e] = None
      /\ \A k \in RunKey : store.run[k] = 0
  BY DEF Init, AtPrompt, AtWork, EmptyStore
<1>2. InPlace
  <2>1. \A S : <<>> \in Seq(S)
    OBVIOUS
  <2> QED BY <1>1, <2>1 DEF InPlace
<1> DEFINE c == [sh \in Shell |-> <<>>]
           claim == [e \in EventId |-> None]
           text == [e \in EventId |-> Blank]
<1>3. /\ c \in [Shell -> Seq(EventId)] /\ claim \in [EventId -> RunKey \cup {None}]
      /\ text \in [EventId -> Line \cup {Blank}]
      /\ \A sh \in Shell : c[sh] = <<>>
      /\ \A e \in EventId : claim[e] = None
  OBVIOUS
<1> HIDE DEF c, claim, text
<1>4. Covered(store.run, claim)
  <2>1. ASSUME NEW k \in RunKey PROVE store.run[k] >= Cardinality(Claimants(claim, k))
    <3>1. Claimants(claim, k) = {}
      BY <1>3, NothingAssumption DEF Claimants
    <3> QED BY <1>1, <3>1, FS_EmptySet
  <2> QED BY <2>1 DEF Covered
<1>5. \A e \in EventId : Backed(store, claim, e)
  BY <1>1 DEF Backed
<1>6. ASSUME NEW sh \in Shell
      PROVE  /\ Books(shell[sh], queue[sh], c[sh], store, claim, text)
             /\ Mine(shell[sh], c[sh]) = {}
  BY <1>1, <1>3 DEF Books, Accounts, Mine
<1>7. Ledger(store, shell, queue, c, claim, text)
  BY <1>4, <1>5, <1>6 DEF Ledger
<1> QED BY <1>2, <1>3, <1>7 DEF LedgerInv

\* An event stands behind the run it has claimed, so what stands behind a run is counted.
LEMMA ClaimsAreContributions ==
  ASSUME Sound(store), Truthful(store), LedgerInv
  PROVE  RunsCoverContributions
<1>1. PICK c \in [Shell -> Seq(EventId)], claim \in [EventId -> RunKey \cup {None}],
           text \in [EventId -> Line \cup {Blank}] :
        Ledger(store, shell, queue, c, claim, text)
  BY DEF LedgerInv
<1> SUFFICES ASSUME NEW k \in RunKey
             PROVE  store.run[k] >=
                      Cardinality({e \in Known(store) : store.projection[e].run = k})
  BY DEF RunsCoverContributions
<1> DEFINE behind == {e \in Known(store) : store.projection[e].run = k}
<1>2. behind \subseteq Claimants(claim, k)
  <2> SUFFICES ASSUME NEW e \in EventId, store.event[e] # None, store.projection[e].run = k
               PROVE  claim[e] = k
    BY DEF Known, Claimants
  <2>1. store.projection[e] # None /\ k # None /\ Backed(store, claim, e)
    BY <1>1, NothingAssumption DEF Truthful, Projected, Ledger
  <2> QED BY <2>1 DEF Backed
<1>3. /\ IsFiniteSet(Claimants(claim, k)) /\ Cardinality(Claimants(claim, k)) \in Nat
      /\ Cardinality(behind) \in Nat
  <2>1. Claimants(claim, k) \in SUBSET EventId /\ behind \in SUBSET EventId
    BY DEF Claimants, Known
  <2> HIDE DEF behind
  <2> QED BY <2>1, EventsAreFinite
<1> HIDE DEF behind
<1>4. Cardinality(behind) <= Cardinality(Claimants(claim, k))
  BY <1>2, <1>3, FS_Subset
<1>5. store.run[k] >= Cardinality(Claimants(claim, k)) /\ store.run[k] \in Nat
  BY <1>1 DEF Ledger, Covered, Sound, Store
<1> QED BY <1>3, <1>4, <1>5 DEF behind

(***************************************************************************)
(* Where rows go at a rule's word only, every line is a command and runs   *)
(* as it was typed, and nobody changes directory, the aggregate counts     *)
(* every run an event stands behind, for any number of shells, whatever    *)
(* rules keep or refuse, whoever is killed and wherever runs are counted:  *)
(* an event that is taken away takes no run of another with it             *)
(* (track/sync/projection.rs, remove_contribution).  Each hypothesis is    *)
(* needed: a command that changes directory counts its run where it began  *)
(* and its event stands behind one where it ended.                         *)
(***************************************************************************)
THEOREM RunsCoverContributionsHolds ==
  RunsByRule => (Spec /\ NobodyMoves => []RunsCoverContributions)
<1> SUFFICES ASSUME RunsByRule PROVE Spec /\ NobodyMoves => []RunsCoverContributions
  OBVIOUS
<1>1. RowsGoByRule
  BY DEF RunsByRule, RowsGoByRule
<1>2. Spec => []OutcomesInv
  BY <1>1, OutcomesInvHolds
<1>3. Init => InPlace /\ LedgerInv
  BY NothingOwed
<1>4. OutcomesInv /\ OnlyDoing /\ InPlace /\ LedgerInv /\ [Next]_vars
      /\ [\A sh \in Shell : shell'[sh].dir = shell[sh].dir]_vars => InPlace' /\ LedgerInv'
  <2>1. CASE UNCHANGED vars
    BY <2>1 DEF vars, InPlace, LedgerInv, Ledger
  <2>2. CASE \A sh \in Shell : shell'[sh].dir = shell[sh].dir
    BY <2>2, EveryStepPays
  <2> QED BY <2>1, <2>2
<1>5. OutcomesInv /\ LedgerInv => RunsCoverContributions
  BY ClaimsAreContributions, LogInvParts DEF OutcomesInv, RowsInv
<1> QED BY <1>2, <1>3, <1>4, <1>5, OnlyDoingHolds, PTL DEF Spec, NobodyMoves
=============================================================================
