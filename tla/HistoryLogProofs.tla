-------------------------- MODULE HistoryLogProofs --------------------------
(***************************************************************************)
(* Proofs about the shells of one profile, for any number of shells,       *)
(* events, lines, directories and rules: LogInv is an invariant, and by    *)
(* what HistoryStoreProofs says of each transaction, no step of any shell  *)
(* revives a deleted event or replaces an event by a copy that loses.      *)
(***************************************************************************)
EXTENDS HistoryLog, HistoryStoreProofs, SequenceTheorems

(***************************************************************************)
(* LogInv, split by who changes what.                                      *)
(***************************************************************************)
Threads ==
  /\ shell \in [Shell -> ShellState]
  /\ queue \in [Shell -> Seq(Job)]
  /\ trim \in [Shell -> TrimState]
  /\ \A sh \in Shell : Underway(shell[sh])

Others == cli \in SUBSET EventId /\ result \in [EventId -> Status \cup {None}]

\* The invariant is its three parts.
LEMMA LogInvParts ==
  LogInv <=> Sound(store) /\ Threads /\ Others
BY DEF LogInv, TypeOK, Sound, Threads, Others

\* A step that leaves the file alone keeps everything in it.
LEMMA NothingKept ==
  ASSUME Sound(store), store' = store
  PROVE  Keeps(store, store')
BY TablesKeep DEF Sound

\* So does a transaction the code abandons (kv/mod.rs, Store::write).
LEMMA CommitKeeps ==
  ASSUME NEW s, Sound(s), NEW t, t # None => Keeps(s, t)
  PROVE  Keeps(s, Commit(s, t))
BY TablesKeep DEF Commit, Sound

\* Counting a run, where a boundary brings one, touches no event.
LEMMA RecordedKeeps ==
  ASSUME NEW s, Sound(s), NEW dir \in Dir, NEW line \in Line \cup {None}
  PROVE  LET t == Recorded(s, dir, line) IN
         /\ Keeps(s, t) /\ t \in Store
         /\ t.local = s.local /\ t.event = s.event /\ t.projection = s.projection
<1>1. CASE line = None
  BY <1>1, TablesKeep DEF Recorded, Sound
<1>2. CASE line \in Line
  <2> DEFINE t == RecordRun(s, dir, line)
  <2>1. t.local = s.local /\ t.event = s.event /\ t.projection = s.projection
    BY DEF RecordRun, Sound, Store
  <2>2. Keeps(s, t)
    BY <1>2, RecordRunKeeps
  <2> HIDE DEF t
  <2>3. t \in Store
    BY <2>2 DEF Keeps, Sound
  <2>4. Recorded(s, dir, line) = t
    BY <1>2, HistoryAssumption DEF Recorded, t
  <2> QED BY <2>1, <2>2, <2>3, <2>4
<1> QED BY <1>1, <1>2

-----------------------------------------------------------------------------
(***************************************************************************)
(* Jobs.                                                                   *)
(***************************************************************************)
LEMMA JobFields ==
  ASSUME NEW job \in Job
  PROVE  /\ job.op = "boundary" =>
              /\ job.from \in Dir /\ job.to \in Dir /\ job.line \in Line \cup {None}
              /\ job.id \in LocalId \cup {None} /\ job.status \in Status
         /\ job.op = "also_ran" => job.from \in Dir /\ job.line \in Line \cup {None}
         /\ job.op = "forget_entered" => job.dir \in Dir /\ job.line \in Line
         /\ job.op = "rewrite" => job.id \in LocalId /\ job.line \in Line
         /\ job.op = "drop" => job.id \in LocalId
         /\ job.op = "outcome" => job.id \in LocalId /\ job.status \in Status
BY DEF Job

\* What the writer is working on is a job of that kind.
LEMMA HeadIsJob ==
  ASSUME Threads, NEW sh \in Shell, NEW op, Working(sh, op)
  PROVE  Head(queue[sh]) \in Job /\ Head(queue[sh]).op = op
BY HeadTailProperties DEF Threads, Working

\* What a shell is in the middle of.
LEMMA LineUnderWay ==
  ASSUME Threads, NEW sh \in Shell,
         shell[sh].pc \in {"entered", "running", "clearing", "clearing_runs"}
  PROVE  /\ shell[sh].line \in Line /\ shell[sh].id \in LocalId
         /\ shell[sh].event \in EventId
         /\ shell[sh].dir \in Dir /\ shell[sh].current \in Dir
BY DEF Threads, Underway, ShellState

\* A single job is a list of jobs.
LEMMA OneJob ==
  ASSUME NEW job \in Job
  PROVE  <<job>> \in Seq(Job)
OBVIOUS

\* The row a job is about, if any.
About(job) ==
  IF job.op \in {"boundary", "rewrite", "drop", "outcome"} THEN {job.id} \ {None} ELSE {}

\* The jobs a recorded command may queue: about its own row, with its own status.
JobOf(id, status) ==
  {job \in Job :
     /\ job.op \notin {"drop", "trim"} /\ About(job) \subseteq {id}
     /\ job.op \in {"boundary", "outcome"} => job.id = None \/ job.status = status}

\* What the end of a command queues is a list of jobs about its row, whatever
\* the rules keep.
LEMMA JobsOfLine ==
  ASSUME Threads, NEW sh \in Shell, shell[sh].pc \in {"running", "clearing_runs"}
  PROVE  /\ \A status : Uncount(sh) \in Seq(JobOf(shell[sh].id, status))
         /\ [op |-> "drop", id |-> shell[sh].id] \in Job
         /\ \A to \in Dir, text \in Line, status \in Status :
              AsTypedJobs(sh, to, text, status) \in Seq(JobOf(shell[sh].id, status))
         /\ \A to \in Dir, text \in Line, kept \in Kept, status \in Status :
              KeptJobs(sh, to, text, kept, status) \in Seq(JobOf(shell[sh].id, status))
<1> DEFINE id == shell[sh].id
<1>1. /\ shell[sh].line \in Line /\ id \in LocalId
      /\ shell[sh].dir \in Dir
  BY LineUnderWay
<1>2. ASSUME NEW status PROVE Uncount(sh) \in Seq(JobOf(id, status))
  <2> DEFINE job == [op |-> "forget_entered", dir |-> shell[sh].dir, line |-> shell[sh].line]
  <2>1. job \in JobOf(id, status)
    BY <1>1 DEF Job, JobOf, About
  <2> HIDE DEF job
  <2>2. <<job>> \in Seq(JobOf(id, status)) /\ <<>> \in Seq(JobOf(id, status))
    BY <2>1
  <2> QED BY <2>2 DEF Uncount, job
<1>3. ASSUME NEW to \in Dir, NEW line \in Line \cup {None}, NEW status \in Status
      PROVE  /\ Boundary(sh, to, line, id, status) \in JobOf(id, status)
             /\ Boundary(sh, to, line, None, status) \in JobOf(id, status)
  BY <1>1 DEF Boundary, Job, JobOf, About
<1>4. ASSUME NEW line \in Line, NEW status PROVE RunOf(line, status) \in Line \cup {None}
  BY DEF RunOf
<1>5. [op |-> "drop", id |-> id] \in Job
  BY <1>1 DEF Job
<1>6. ASSUME NEW to \in Dir, NEW text \in Line, NEW status \in Status
      PROVE  AsTypedJobs(sh, to, text, status) \in Seq(JobOf(id, status))
  <2> DEFINE alone == Boundary(sh, to, None, shell[sh].id, status)
             ran == Boundary(sh, to, RunOf(text, status), shell[sh].id, status)
  <2>1. alone \in JobOf(id, status) /\ ran \in JobOf(id, status)
    BY <1>1, <1>3, <1>4
  <2> HIDE DEF alone, ran
  <2>2. <<alone>> \in Seq(JobOf(id, status)) /\ Append(Uncount(sh), ran) \in Seq(JobOf(id, status))
    BY <1>2, <2>1, AppendProperties
  <2> QED BY <2>2 DEF AsTypedJobs, alone, ran
<1>7. ASSUME NEW to \in Dir, NEW text \in Line, NEW kept \in Kept, NEW status \in Status
      PROVE  KeptJobs(sh, to, text, kept, status) \in Seq(JobOf(id, status))
  <2> DEFINE ran == Boundary(sh, to, RunOf(kept[1], status), None, status)
             also(n) == [op |-> "also_ran", from |-> shell[sh].dir,
                         line |-> RunOf(kept[n + 1], status)]
             more == [n \in 1 .. Len(kept) - 1 |-> also(n)]
             rewrite == [op |-> "rewrite", id |-> shell[sh].id, line |-> kept[1]]
             rewrites == IF kept[1] = text THEN <<>> ELSE <<rewrite>>
             outcome == [op |-> "outcome", id |-> shell[sh].id, status |-> status]
  <2>1. kept \in Seq(Line) /\ kept # <<>>
    BY LogAssumption
  <2>2. Len(kept) \in Nat /\ Len(kept) >= 1 /\ \A n \in 1 .. Len(kept) : kept[n] \in Line
    BY <2>1, EmptySeq, ElementOfSeq, LenProperties
  <2>3. ran \in JobOf(id, status)
    <3>1. RunOf(kept[1], status) \in Line \cup {None}
      BY <1>4, <2>2
    <3> QED BY <1>3, <3>1
  <2>4. more \in Seq(JobOf(id, status))
    <3>1. \A n \in 1 .. Len(kept) - 1 : also(n) \in JobOf(id, status)
      BY <1>1, <1>4, <2>2 DEF Job, JobOf, About
    <3> HIDE DEF also
    <3>2. Len(kept) - 1 \in Nat
      BY <2>2
    <3> QED BY <3>1, <3>2
  <2>5. rewrite \in JobOf(id, status) /\ outcome \in JobOf(id, status)
    BY <1>1, <2>2 DEF Job, JobOf, About
  <2> DEFINE own == JobOf(id, status)
  <2> HIDE DEF ran, more, rewrite, outcome, own
  <2>6. rewrites \in Seq(own) /\ <<outcome>> \in Seq(own)
    <3>1. rewrite \in own /\ outcome \in own
      BY <2>5 DEF own
    <3> QED BY <3>1
  <2> HIDE DEF rewrites
  <2>7. Append(Uncount(sh), ran) \in Seq(own) /\ more \in Seq(own)
    BY <1>2, <2>3, <2>4, AppendProperties DEF own
  <2>8. Append(Uncount(sh), ran) \o more \o rewrites \o <<outcome>> \in Seq(own)
    BY <2>6, <2>7, ConcatProperties
  <2> QED BY <2>8 DEF KeptJobs, ran, more, rewrites, rewrite, outcome, own
<1> QED BY <1>2, <1>5, <1>6, <1>7

\* A list of jobs of one kind is a list of jobs of any wider kind.
LEMMA WiderJobs ==
  ASSUME NEW S, NEW T, S \subseteq T, NEW jobs \in Seq(S)
  PROVE  jobs \in Seq(T)
<1>1. \A n \in 1 .. Len(jobs) : jobs[n] \in T
  BY ElementOfSeq
<1>2. jobs = [n \in 1 .. Len(jobs) |-> jobs[n]] /\ Len(jobs) \in Nat
  BY LenProperties
<1> QED BY <1>1, <1>2

\* In particular, what the end of a command queues is a list of jobs.
LEMMA JobsQueued ==
  ASSUME Threads, NEW sh \in Shell, shell[sh].pc \in {"running", "clearing_runs"}
  PROVE  /\ Uncount(sh) \in Seq(Job)
         /\ RefusedJobs(sh) \in Seq(Job)
         /\ \A to \in Dir, text \in Line, status \in Status :
              AsTypedJobs(sh, to, text, status) \in Seq(Job)
         /\ \A to \in Dir, text \in Line, kept \in Kept, status \in Status :
              KeptJobs(sh, to, text, kept, status) \in Seq(Job)
<1>1. ASSUME NEW status, NEW jobs \in Seq(JobOf(shell[sh].id, status))
      PROVE  jobs \in Seq(Job)
  <2> DEFINE own == JobOf(shell[sh].id, status)
  <2>1. own \subseteq Job /\ jobs \in Seq(own)
    BY DEF JobOf
  <2> HIDE DEF own
  <2> QED BY <2>1, WiderJobs
<1>2. Uncount(sh) \in Seq(Job)
  BY <1>1, JobsOfLine
<1>3. RefusedJobs(sh) \in Seq(Job)
  BY <1>2, JobsOfLine, AppendProperties DEF RefusedJobs
<1>4. ASSUME NEW to \in Dir, NEW text \in Line, NEW status \in Status
      PROVE  AsTypedJobs(sh, to, text, status) \in Seq(Job)
  BY <1>1, JobsOfLine
<1>5. ASSUME NEW to \in Dir, NEW text \in Line, NEW kept \in Kept, NEW status \in Status
      PROVE  KeptJobs(sh, to, text, kept, status) \in Seq(Job)
  BY <1>1, JobsOfLine
<1> QED BY <1>2, <1>3, <1>4, <1>5

-----------------------------------------------------------------------------
(***************************************************************************)
(* What the steps have in common.                                          *)
(***************************************************************************)
LEMMA AtPromptIsState ==
  ASSUME NEW to \in Dir, NEW dir \in Dir
  PROVE  /\ [AtPrompt(to) EXCEPT !.current = dir] \in ShellState
         /\ AtPrompt(to) \in ShellState
         /\ Underway([AtPrompt(to) EXCEPT !.current = dir])
         /\ Underway(AtPrompt(to))
BY DEF AtPrompt, ShellState, Loop, Underway

\* A shell whose state is replaced by another such state.
LEMMA ShellReplaced ==
  ASSUME Threads, NEW sh \in Shell, NEW st \in ShellState, Underway(st),
         shell' = [shell EXCEPT ![sh] = st]
  PROVE  shell' \in [Shell -> ShellState] /\ \A other \in Shell : Underway(shell'[other])
BY DEF Threads

\* Back at the prompt with more jobs queued, every thread is in order.
LEMMA ReturnKeepsThreads ==
  ASSUME Threads, NEW sh \in Shell, NEW to \in Dir, NEW jobs \in Seq(Job),
         Return(sh, to, jobs), UNCHANGED trim
  PROVE  Threads'
<1> DEFINE st == [AtPrompt(to) EXCEPT !.current = shell[sh].current]
<1>1. st \in ShellState /\ Underway(st)
  <2>1. shell[sh].current \in Dir
    BY DEF Threads, ShellState
  <2> QED BY <2>1, AtPromptIsState
<1>2. shell' = [shell EXCEPT ![sh] = st] /\ queue' = [queue EXCEPT ![sh] = @ \o jobs]
  BY DEF Return
<1> HIDE DEF st
<1>3. shell' \in [Shell -> ShellState] /\ \A other \in Shell : Underway(shell'[other])
  BY <1>1, <1>2, ShellReplaced
<1>4. queue' \in [Shell -> Seq(Job)]
  <2>1. queue[sh] \o jobs \in Seq(Job)
    BY ConcatProperties DEF Threads
  <2> QED BY <1>2, <2>1 DEF Threads
<1> QED BY <1>3, <1>4 DEF Threads

\* A job that is done leaves a queue of jobs.
LEMMA DequeueKeepsQueue ==
  ASSUME Threads, NEW sh \in Shell, NEW op, Working(sh, op), Dequeue(sh)
  PROVE  queue' \in [Shell -> Seq(Job)]
<1>1. Tail(queue[sh]) \in Seq(Job)
  BY HeadTailProperties DEF Threads, Working
<1> QED BY <1>1 DEF Threads, Dequeue

\* The same of a step that touches neither the shell nor a trim.
LEMMA DequeueKeepsThreads ==
  ASSUME Threads, NEW sh \in Shell, NEW op, Working(sh, op), Dequeue(sh),
         UNCHANGED <<shell, trim>>
  PROVE  Threads'
BY DequeueKeepsQueue DEF Threads

\* However a trim ends (writer job or way out), every thread is in order.
LEMMA EndTrimKeepsThreads ==
  ASSUME Threads, NEW sh \in Shell, EndTrim(sh)
  PROVE  Threads'
<1>1. trim' \in [Shell -> TrimState]
  BY DEF Threads, EndTrim, Idle, TrimState
<1>2. CASE Working(sh, "trim")
  <2>1. queue' \in [Shell -> Seq(Job)] /\ shell' = shell
    BY <1>2, DequeueKeepsQueue DEF EndTrim
  <2> QED BY <1>1, <2>1 DEF Threads
<1>3. CASE ~ Working(sh, "trim")
  <2>1. AtPrompt(shell[sh].dir) \in ShellState /\ Underway(AtPrompt(shell[sh].dir))
    <3>1. shell[sh].dir \in Dir
      BY DEF Threads, ShellState
    <3> QED BY <3>1, AtPromptIsState
  <2>2. shell' = [shell EXCEPT ![sh] = AtPrompt(shell[sh].dir)] /\ queue' = queue
    BY <1>3 DEF EndTrim
  <2>3. shell' \in [Shell -> ShellState] /\ \A other \in Shell : Underway(shell'[other])
    BY <2>1, <2>2, ShellReplaced
  <2> QED BY <1>1, <2>2, <2>3 DEF Threads
<1> QED BY <1>2, <1>3

\* What a trim reads are rows, and its threshold is one of them.
LEMMA DoomedRows ==
  /\ Doomed(store) \in SUBSET LocalId
  /\ Doomed(store) # {} => Max(Doomed(store)) \in LocalId
<1>1. Doomed(store) \in SUBSET LocalId
  BY DEF Doomed, Rows
<1> QED BY <1>1, NewestIsOne

-----------------------------------------------------------------------------
(***************************************************************************)
(* The prompt's steps.                                                     *)
(***************************************************************************)
LEMMA EnterKeeps ==
  ASSUME Sound(store), Threads, NEW sh \in Shell, NEW line \in Line, Enter(sh, line)
  PROVE  Keeps(store, store') /\ Threads'
<1> DEFINE e == CHOOSE e \in Unused : TRUE
           st == [shell[sh] EXCEPT !.pc = IF CountOnEnter THEN "entered" ELSE "running",
                                   !.line = line, !.id = NextId(store), !.event = e]
<1>1. e \in EventId /\ store.event[e] = None
  <2>1. e \in Unused
    BY DEF Enter
  <2> QED BY <2>1 DEF Unused, Known
<1>2. NextId(store) \in LocalId
  BY DEF Enter
<1>3. PICK tie \in [EventId -> Tie] : store' = AppendEntry(store, e, line, tie)
  BY DEF Enter
<1>4. shell' = [shell EXCEPT ![sh] = st]
  BY DEF Enter
<1> HIDE DEF e
<1>5. Keeps(store, store')
  BY <1>1, <1>2, <1>3, AppendEntryKeeps
<1>6. st \in ShellState /\ Underway(st)
  <2>1. shell[sh] \in ShellState
    BY DEF Threads
  <2> QED BY <1>1, <1>2, <2>1 DEF ShellState, Loop, Underway
<1> HIDE DEF st
<1>7. shell' \in [Shell -> ShellState] /\ \A other \in Shell : Underway(shell'[other])
  BY <1>4, <1>6, ShellReplaced
<1>8. queue' \in [Shell -> Seq(Job)]
  <2> DEFINE job == [op |-> "trim"]
  <2>1. job \in Job
    BY DEF Job
  <2> HIDE DEF job
  <2>2. queue[sh] \in Seq(Job) /\ Append(queue[sh], job) \in Seq(Job)
    BY <2>1, AppendProperties DEF Threads
  <2>3. queue' = [queue EXCEPT ![sh] = IF "trim" \in Doing THEN Append(queue[sh], job)
                                       ELSE queue[sh]]
    BY DEF Enter, job
  <2> QED BY <2>2, <2>3 DEF Threads
<1> QED BY <1>5, <1>7, <1>8 DEF Threads, Enter

\* Counting a run on Enter (Tracker::entered).
LEMMA CountKeeps ==
  ASSUME Sound(store), Threads, NEW sh \in Shell, Count(sh)
  PROVE  Keeps(store, store') /\ Threads'
<1> DEFINE st == [shell[sh] EXCEPT !.pc = "running", !.counted = TRUE,
                                   !.current = shell[sh].dir]
<1>1. shell[sh] \in ShellState /\ Underway(shell[sh]) /\ shell[sh].pc = "entered"
  BY DEF Threads, Count
<1>2. st \in ShellState /\ Underway(st)
  BY <1>1 DEF ShellState, Loop, Underway
<1>3. shell' = [shell EXCEPT ![sh] = st]
  BY DEF Count, Threads
<1> HIDE DEF st
<1>4. shell' \in [Shell -> ShellState] /\ \A other \in Shell : Underway(shell'[other])
  BY <1>2, <1>3, ShellReplaced
<1>5. shell[sh].dir \in Dir /\ shell[sh].line \in Line
  BY <1>1, LineUnderWay
<1>6. Keeps(store, store')
  BY <1>5, RecordRunKeeps DEF Count
<1> QED BY <1>4, <1>6 DEF Threads, Count

\* A shell that only moves on, with its row, event and directories.
LEMMA MoveKeepsThreads ==
  ASSUME Threads, NEW sh \in Shell, NEW pc \in Loop,
         pc \in {"entered", "running", "clearing", "clearing_runs"} =>
           shell[sh].pc \in {"entered", "running", "clearing", "clearing_runs"},
         shell' = [shell EXCEPT ![sh].pc = pc], UNCHANGED <<queue, trim>>
  PROVE  Threads'
<1> DEFINE st == [shell[sh] EXCEPT !.pc = pc]
<1>1. shell[sh] \in ShellState /\ Underway(shell[sh])
  BY DEF Threads
<1>2. st \in ShellState /\ Underway(st)
  BY <1>1 DEF ShellState, Underway
<1>3. shell' = [shell EXCEPT ![sh] = st]
  BY DEF Threads
<1> HIDE DEF st
<1> QED BY <1>2, <1>3, ShellReplaced DEF Threads

\* A command that ends, recorded or refused (Tracker::write_down).
LEMMA FinishKeeps ==
  ASSUME Sound(store), Threads, Others, NEW sh \in Shell, Finish(sh) \/ Refuse(sh)
  PROVE  Keeps(store, store') /\ Threads' /\ Others'
<1>1. CASE Finish(sh)
  <2>1. shell[sh].pc = "running" /\ shell[sh].line \in Line /\ shell[sh].event \in EventId
    BY <1>1, LineUnderWay DEF Finish
  <2>2. Texts(sh) \subseteq Line
    BY <2>1 DEF Texts
  <2>3. PICK to \in Dir, text \in Texts(sh), status \in Status :
          /\ \/ Return(sh, to, AsTypedJobs(sh, to, text, status))
             \/ \E kept \in Kept : Return(sh, to, KeptJobs(sh, to, text, kept, status))
          /\ result' = [result EXCEPT ![shell[sh].event] = status]
    BY <1>1 DEF Finish
  <2>4. PICK jobs \in Seq(Job) : Return(sh, to, jobs)
    BY <2>1, <2>2, <2>3, JobsQueued
  <2>5. Threads'
    BY <1>1, <2>4, ReturnKeepsThreads DEF Finish
  <2>6. Others'
    BY <1>1, <2>3 DEF Others, Finish
  <2> QED BY <1>1, <2>5, <2>6, NothingKept DEF Finish
<1>2. CASE Refuse(sh)
  <2>1. PICK to \in Dir : Return(sh, to, RefusedJobs(sh))
    BY <1>2 DEF Refuse
  <2>2. RefusedJobs(sh) \in Seq(Job)
    BY <1>2, JobsQueued DEF Refuse
  <2>3. Threads'
    BY <1>2, <2>1, <2>2, ReturnKeepsThreads DEF Refuse
  <2> QED BY <1>2, <2>3, NothingKept DEF Refuse, Others
<1> QED BY <1>1, <1>2

\* The three steps of `history -c`.
LEMMA ClearingKeeps ==
  ASSUME Sound(store), Threads, NEW sh \in Shell,
         BeginClear(sh) \/ ClearRows(sh) \/ ClearRuns(sh)
  PROVE  Keeps(store, store') /\ Threads'
<1>1. CASE BeginClear(sh)
  <2>1. Threads'
    BY <1>1, MoveKeepsThreads DEF BeginClear, Loop
  <2> QED BY <1>1, <2>1, NothingKept DEF BeginClear
<1>2. CASE ClearRows(sh)
  <2>1. Threads'
    BY <1>2, MoveKeepsThreads DEF ClearRows, Loop
  <2>2. PICK tie \in [EventId -> Tie] : store' = Commit(store, Clear(store, tie))
    BY <1>2 DEF ClearRows
  <2>3. Keeps(store, store')
    BY <2>2, ClearKeeps, CommitKeeps
  <2> QED BY <2>1, <2>3
<1>3. CASE ClearRuns(sh)
  <2>1. Uncount(sh) \in Seq(Job) /\ shell[sh].dir \in Dir
    BY <1>3, JobsQueued, LineUnderWay DEF ClearRuns
  <2>2. Threads'
    BY <1>3, <2>1, ReturnKeepsThreads DEF ClearRuns
  <2>3. Keeps(store, store')
    BY <1>3, ForgetRunsKeeps DEF ClearRuns
  <2> QED BY <2>2, <2>3
<1> QED BY <1>1, <1>2, <1>3

\* The three steps of the finder's Delete key.
LEMMA ForgettingKeeps ==
  ASSUME Sound(store), Threads, NEW sh \in Shell,
         (\E line \in Line : ForgetLine(sh, line)) \/ ReadForgotten(sh) \/ ForgetLog(sh)
  PROVE  Keeps(store, store') /\ Threads'
<1>1. shell[sh] \in ShellState
  BY DEF Threads
<1>2. CASE \E line \in Line : ForgetLine(sh, line)
  <2>1. PICK line \in Line : ForgetLine(sh, line)
    BY <1>2
  <2> DEFINE st == [shell[sh] EXCEPT !.pc = "forgetting", !.line = line]
  <2>2. st \in ShellState /\ Underway(st)
    BY <1>1 DEF ShellState, Loop, Underway
  <2>3. shell' = [shell EXCEPT ![sh] = st]
    BY <2>1 DEF ForgetLine, Threads
  <2> HIDE DEF st
  <2>4. Threads'
    BY <2>1, <2>2, <2>3, ShellReplaced DEF Threads, ForgetLine
  <2>5. Keeps(store, store')
    BY <2>1, ForgetRunsKeeps DEF ForgetLine
  <2> QED BY <2>4, <2>5
<1>3. CASE ReadForgotten(sh)
  <2> DEFINE ids == {i \in LocalId : store.history[i] = shell[sh].line}
             st == [shell[sh] EXCEPT !.pc = "forgetting_log", !.ids = ids]
  <2>1. shell' = [shell EXCEPT ![sh] = st]
    BY <1>3 DEF ReadForgotten, Threads
  <2>2. ids \in SUBSET LocalId
    OBVIOUS
  <2> HIDE DEF ids
  <2>3. st \in ShellState /\ Underway(st)
    BY <1>1, <2>2 DEF ShellState, Loop, Underway
  <2> HIDE DEF st
  <2>4. Threads'
    BY <1>3, <2>1, <2>3, ShellReplaced DEF Threads, ReadForgotten
  <2> QED BY <1>3, <2>4, NothingKept DEF ReadForgotten
<1>4. CASE ForgetLog(sh)
  <2>1. shell[sh].ids \in SUBSET LocalId /\ shell[sh].dir \in Dir
    BY <1>1 DEF ShellState
  <2>2. <<>> \in Seq(Job)
    OBVIOUS
  <2>3. Threads'
    BY <1>4, <2>1, <2>2, ReturnKeepsThreads DEF ForgetLog
  <2>4. PICK tie \in [EventId -> Tie] :
          store' = Commit(store, DropLines(store, shell[sh].ids, tie))
    BY <1>4 DEF ForgetLog
  <2>5. Keeps(store, store')
    BY <2>1, <2>4, DropLinesKeeps, CommitKeeps
  <2> QED BY <2>3, <2>5
<1> QED BY <1>2, <1>3, <1>4

\* Every step of a shell's prompt thread.
LEMMA PromptKeeps ==
  ASSUME Sound(store), Threads, Others, NEW sh \in Shell, Prompt(sh) \/ Continue(sh)
  PROVE  Keeps(store, store') /\ Threads' /\ Others'
<1>1. CASE \E line \in Line : Enter(sh, line)
  BY <1>1, EnterKeeps DEF Others, Enter
<1>2. CASE Finish(sh) \/ Refuse(sh)
  BY <1>2, FinishKeeps
<1>3. CASE BeginClear(sh) \/ ClearRows(sh) \/ ClearRuns(sh)
  <2>1. UNCHANGED <<cli, result>>
    BY <1>3 DEF BeginClear, ClearRows, ClearRuns
  <2> QED BY <1>3, <2>1, ClearingKeeps DEF Others
<1>4. CASE (\E line \in Line : ForgetLine(sh, line)) \/ ReadForgotten(sh) \/ ForgetLog(sh)
  <2>1. UNCHANGED <<cli, result>>
    BY <1>4 DEF ForgetLine, ReadForgotten, ForgetLog
  <2> QED BY <1>4, <2>1, ForgettingKeeps DEF Others
<1>5. CASE Leave(sh)
  <2>1. Threads'
    BY <1>5, MoveKeepsThreads DEF Leave, Loop
  <2> QED BY <1>5, <2>1, NothingKept DEF Leave, Others
<1>6. CASE Count(sh)
  BY <1>6, CountKeeps DEF Count, Others
<1> QED BY <1>1, <1>2, <1>3, <1>4, <1>5, <1>6 DEF Prompt, Continue

-----------------------------------------------------------------------------
(***************************************************************************)
(* The writer's steps.                                                     *)
(***************************************************************************)
LEMMA RunBoundaryKeeps ==
  ASSUME Sound(store), Threads, NEW sh \in Shell, RunBoundary(sh)
  PROVE  Keeps(store, store') /\ Threads'
<1> DEFINE job == Head(queue[sh])
           ran == Recorded(store, job.from, job.line)
           done(dir) == [status |-> job.status, dir |-> dir]
           outcome(s, dir, tie) == WriteOutcomes(s, job.id, done(dir), tie)
           both(tie) == IF job.id = None THEN ran ELSE outcome(ran, job.to, tie)
<1>1. Working(sh, "boundary") /\ Dequeue(sh) /\ trim' = trim
  BY DEF RunBoundary
<1>2. PICK tie \in [EventId -> Tie] :
        IF both(tie) # None
        THEN /\ store' = both(tie)
             /\ shell' = [shell EXCEPT ![sh].current = job.to]
        ELSE /\ store' = Commit(store, outcome(store, shell[sh].current, tie))
             /\ UNCHANGED shell
  BY DEF RunBoundary
<1>3. job \in Job /\ job.op = "boundary"
  BY <1>1, HeadIsJob
<1>4. /\ job.from \in Dir /\ job.to \in Dir /\ job.line \in Line \cup {None}
      /\ job.id \in LocalId \cup {None} /\ job.status \in Status
  BY <1>3, JobFields
<1>5. shell[sh] \in ShellState /\ Underway(shell[sh])
  BY DEF Threads
<1> HIDE DEF job
<1>6. \A dir \in Dir : done(dir) \in Done
  BY <1>4 DEF Done
<1>7. /\ Keeps(store, ran) /\ ran \in Store /\ Sound(ran) /\ ran # None
      /\ ran.local = store.local /\ ran.event = store.event
      /\ ran.projection = store.projection
  BY <1>4, RecordedKeeps, NothingAssumption DEF Keeps
<1> HIDE DEF ran, done
<1>8. Keeps(store, store')
  <2>1. CASE both(tie) # None /\ job.id = None
    BY <1>2, <1>7, <2>1
  <2>2. CASE both(tie) # None /\ job.id # None
    <3>1. Keeps(ran, outcome(ran, job.to, tie))
      BY <1>4, <1>6, <1>7, <2>2, WriteOutcomesKeeps
    <3>2. Keeps(store, outcome(ran, job.to, tie))
      BY <1>7, <3>1, KeepsAfterTables
    <3> QED BY <1>2, <2>2, <3>2
  <2>3. CASE both(tie) = None
    <3>1. job.id \in LocalId /\ shell[sh].current \in Dir
      BY <1>4, <1>5, <1>7, <2>3 DEF ShellState
    <3> DEFINE t == outcome(store, shell[sh].current, tie)
    <3>2. t # None => Keeps(store, t)
      BY <1>6, <3>1, WriteOutcomesKeeps
    <3>3. store' = Commit(store, t)
      BY <1>2, <2>3
    <3> HIDE DEF t
    <3> QED BY <3>2, <3>3, CommitKeeps
  <2> QED BY <2>1, <2>2, <2>3
<1>9. shell' \in [Shell -> ShellState] /\ \A other \in Shell : Underway(shell'[other])
  <2> DEFINE st == [shell[sh] EXCEPT !.current = job.to]
  <2>1. st \in ShellState /\ Underway(st)
    BY <1>4, <1>5 DEF ShellState, Underway
  <2>2. shell' = shell \/ shell' = [shell EXCEPT ![sh] = st]
    BY <1>2 DEF Threads
  <2> HIDE DEF st
  <2> QED BY <2>1, <2>2, ShellReplaced DEF Threads
<1> QED BY <1>1, <1>8, <1>9, DequeueKeepsQueue DEF Threads

\* A further line a rule kept (Track::record).
LEMMA RunAlsoRanKeeps ==
  ASSUME Sound(store), Threads, NEW sh \in Shell, RunAlsoRan(sh)
  PROVE  Keeps(store, store') /\ Threads'
<1> DEFINE job == Head(queue[sh])
           st == [shell[sh] EXCEPT !.current = job.from]
<1>1. Working(sh, "also_ran") /\ Dequeue(sh) /\ trim' = trim
  BY DEF RunAlsoRan
<1>2. job \in Job /\ job.op = "also_ran"
  BY <1>1, HeadIsJob
<1>3. job.from \in Dir /\ job.line \in Line \cup {None}
  BY <1>2, JobFields
<1>4. Keeps(store, store')
  BY <1>3, RecordedKeeps DEF RunAlsoRan
<1>5. shell[sh] \in ShellState /\ Underway(shell[sh])
  BY DEF Threads
<1>6. shell' = [shell EXCEPT ![sh] = st]
  BY DEF RunAlsoRan, Threads
<1> HIDE DEF job
<1>7. st \in ShellState /\ Underway(st)
  BY <1>3, <1>5 DEF ShellState, Underway
<1> HIDE DEF st
<1>8. shell' \in [Shell -> ShellState] /\ \A other \in Shell : Underway(shell'[other])
  BY <1>6, <1>7, ShellReplaced
<1> QED BY <1>1, <1>4, <1>8, DequeueKeepsQueue DEF Threads

\* A counted run taken back (Track::forget_entered).
LEMMA RunForgetEnteredKeeps ==
  ASSUME Sound(store), Threads, NEW sh \in Shell, RunForgetEntered(sh)
  PROVE  Keeps(store, store') /\ Threads'
<1>1. Working(sh, "forget_entered") /\ Dequeue(sh) /\ UNCHANGED <<shell, trim>>
  BY DEF RunForgetEntered
<1>2. Head(queue[sh]).dir \in Dir /\ Head(queue[sh]).line \in Line
  BY <1>1, HeadIsJob, JobFields
<1>3. Keeps(store, store')
  BY <1>2, RecordRunKeeps DEF RunForgetEntered
<1> QED BY <1>1, <1>3, DequeueKeepsThreads

\* A rewrite, a removal or an outcome, whatever became of the row meanwhile.
LEMMA RunOnRowKeeps ==
  ASSUME Sound(store), Threads, NEW sh \in Shell, RunOnRow(sh)
  PROVE  Keeps(store, store') /\ Threads'
<1> DEFINE job == Head(queue[sh])
           done == [status |-> job.status, dir |-> shell[sh].current]
<1>1. PICK tie \in [EventId -> Tie] :
        \/ /\ Working(sh, "rewrite")
           /\ store' = Commit(store, RewriteLine(store, job.id, job.line, tie))
        \/ /\ Working(sh, "drop")
           /\ store' = Commit(store, DropLines(store, {job.id}, tie))
        \/ /\ Working(sh, "outcome")
           /\ store' = Commit(store, WriteOutcomes(store, job.id, done, tie))
  BY DEF RunOnRow
<1>2. Dequeue(sh) /\ UNCHANGED <<shell, trim>>
  BY DEF RunOnRow
<1>3. Threads'
  BY <1>1, <1>2, DequeueKeepsThreads
<1>4. CASE /\ Working(sh, "rewrite")
           /\ store' = Commit(store, RewriteLine(store, job.id, job.line, tie))
  <2>1. job.id \in LocalId /\ job.line \in Line
    BY <1>4, HeadIsJob, JobFields
  <2> HIDE DEF job
  <2> QED BY <1>3, <1>4, <2>1, RewriteLineKeeps, CommitKeeps
<1>5. CASE /\ Working(sh, "drop")
           /\ store' = Commit(store, DropLines(store, {job.id}, tie))
  <2>1. job.id \in LocalId
    BY <1>5, HeadIsJob, JobFields
  <2> HIDE DEF job
  <2>2. {job.id} \in SUBSET LocalId
    BY <2>1
  <2> QED BY <1>3, <1>5, <2>2, DropLinesKeeps, CommitKeeps
<1>6. CASE /\ Working(sh, "outcome")
           /\ store' = Commit(store, WriteOutcomes(store, job.id, done, tie))
  <2>1. job.id \in LocalId /\ job.status \in Status
    BY <1>6, HeadIsJob, JobFields
  <2>2. done \in Done
    BY <2>1 DEF Threads, ShellState, Done
  <2> HIDE DEF job, done
  <2> QED BY <1>3, <1>6, <2>1, <2>2, WriteOutcomesKeeps, CommitKeeps
<1> QED BY <1>1, <1>4, <1>5, <1>6

\* Every step of a trim (Track::trim).
LEMMA TrimStepsKeep ==
  ASSUME Sound(store), Threads, NEW sh \in Shell,
         ReadDoomed(sh) \/ HideDoomed(sh) \/ ReadOutcomes(sh) \/ SweepOutcomes(sh)
           \/ SweepRows(sh)
  PROVE  Keeps(store, store') /\ Threads'
<1>1. trim[sh] \in TrimState
  BY DEF Threads
<1>2. CASE ReadDoomed(sh)
  <2>1. CASE Doomed(store) = {}
    <3>1. EndTrim(sh)
      BY <1>2, <2>1 DEF ReadDoomed
    <3> QED BY <1>2, <3>1, EndTrimKeepsThreads, NothingKept DEF ReadDoomed
  <2>2. CASE Doomed(store) # {}
    <3> DEFINE tr == [Idle EXCEPT !.step = "hide", !.ids = Doomed(store),
                                  !.from = Max(Doomed(store))]
    <3>1. trim' = [trim EXCEPT ![sh] = tr] /\ UNCHANGED <<shell, queue, store>>
      BY <1>2, <2>2 DEF ReadDoomed
    <3>2. tr \in TrimState
      BY <2>2, DoomedRows DEF Idle, TrimState
    <3> HIDE DEF tr
    <3>3. Threads'
      BY <3>1, <3>2 DEF Threads
    <3> QED BY <3>1, <3>3, NothingKept
  <2> QED BY <2>1, <2>2
<1>3. CASE HideDoomed(sh)
  <2> DEFINE t == HideLocals(store, trim[sh].ids)
  <2>1. CASE t = None
    BY <1>3, <2>1, EndTrimKeepsThreads, NothingKept DEF HideDoomed
  <2>2. CASE t # None
    <3> DEFINE tr == [trim[sh] EXCEPT !.step = "outcomes"]
    <3>1. store' = t /\ trim' = [trim EXCEPT ![sh] = tr] /\ UNCHANGED <<shell, queue>>
      BY <1>3, <2>2 DEF HideDoomed, Threads
    <3>2. tr \in TrimState
      BY <1>1 DEF TrimState
    <3> HIDE DEF tr
    <3>3. Threads'
      BY <3>1, <3>2 DEF Threads
    <3>4. trim[sh].ids \in SUBSET LocalId
      BY <1>1 DEF TrimState
    <3>5. Keeps(store, t)
      BY <2>2, <3>4, HideLocalsKeeps
    <3> QED BY <3>1, <3>3, <3>5
  <2> QED BY <2>1, <2>2
<1>4. CASE ReadOutcomes(sh)
  <2> DEFINE upto == IF Doomed(store) = {} THEN 0 ELSE Max(Doomed(store))
             tr == [trim[sh] EXCEPT !.step = "sweep", !.upto = upto]
  <2>1. trim' = [trim EXCEPT ![sh] = tr] /\ UNCHANGED <<store, shell, queue>>
    BY <1>4 DEF ReadOutcomes, Threads
  <2>2. upto \in LocalId \cup {0}
    BY DoomedRows
  <2> HIDE DEF upto
  <2>3. tr \in TrimState
    BY <1>1, <2>2 DEF TrimState
  <2> HIDE DEF tr
  <2>4. Threads'
    BY <2>1, <2>3 DEF Threads
  <2> QED BY <2>1, <2>4, NothingKept
<1>5. CASE SweepOutcomes(sh)
  <2> DEFINE tr == [trim[sh] EXCEPT !.step = "rows"]
  <2>1. trim' = [trim EXCEPT ![sh] = tr] /\ UNCHANGED <<shell, queue>>
    BY <1>5 DEF SweepOutcomes, Threads
  <2>2. tr \in TrimState
    BY <1>1 DEF TrimState
  <2> HIDE DEF tr
  <2>3. Threads'
    BY <2>1, <2>2 DEF Threads
  <2>4. Keeps(store, store')
    BY <1>5, DropsKeep DEF SweepOutcomes
  <2> QED BY <2>3, <2>4
<1>6. CASE SweepRows(sh)
  <2>1. Threads'
    BY <1>6, EndTrimKeepsThreads DEF SweepRows
  <2>2. Keeps(store, store')
    BY <1>6, DropsKeep DEF SweepRows
  <2> QED BY <2>1, <2>2
<1> QED BY <1>2, <1>3, <1>4, <1>5, <1>6

\* Every step of a shell's writer thread.
LEMMA WriteKeeps ==
  ASSUME Sound(store), Threads, Others, NEW sh \in Shell, Write(sh)
  PROVE  Keeps(store, store') /\ Threads' /\ Others'
<1>1. CASE RunBoundary(sh)
  BY <1>1, RunBoundaryKeeps DEF RunBoundary, Others
<1>2. CASE RunAlsoRan(sh)
  BY <1>2, RunAlsoRanKeeps DEF RunAlsoRan, Others
<1>3. CASE RunForgetEntered(sh)
  BY <1>3, RunForgetEnteredKeeps DEF RunForgetEntered, Others
<1>4. CASE RunOnRow(sh)
  BY <1>4, RunOnRowKeeps DEF RunOnRow, Others
<1>5. CASE SkipTrim(sh)
  BY <1>5, DequeueKeepsThreads, NothingKept DEF SkipTrim, Others
<1>6. CASE ReadDoomed(sh) \/ HideDoomed(sh) \/ ReadOutcomes(sh) \/ SweepOutcomes(sh)
             \/ SweepRows(sh)
  <2>1. UNCHANGED <<cli, result>>
    BY <1>6 DEF ReadDoomed, HideDoomed, ReadOutcomes, SweepOutcomes, SweepRows
  <2> QED BY <1>6, <2>1, TrimStepsKeep DEF Others
<1> QED BY <1>1, <1>2, <1>3, <1>4, <1>5, <1>6 DEF Write

-----------------------------------------------------------------------------
(***************************************************************************)
(* The whole system.                                                       *)
(***************************************************************************)
LEMMA CliKeeps ==
  ASSUME Sound(store), Threads, Others, CliRead \/ CliDelete
  PROVE  Keeps(store, store') /\ Threads' /\ Others'
<1>1. CASE CliRead
  <2>1. cli' \in SUBSET EventId
    BY <1>1 DEF CliRead, Known
  <2> QED BY <1>1, <2>1, NothingKept DEF CliRead, Threads, Others
<1>2. CASE CliDelete
  <2>1. PICK tie \in [EventId -> Tie] : store' = Commit(store, DeleteEvents(store, cli, tie))
    BY <1>2 DEF CliDelete
  <2>2. cli \in SUBSET EventId
    BY DEF Others
  <2>3. Keeps(store, store')
    BY <2>1, <2>2, DeleteEventsKeeps, CommitKeeps
  <2> QED BY <1>2, <2>3 DEF CliDelete, Threads, Others
<1> QED BY <1>1, <1>2

\* A shell that is killed takes only its own queue along.
LEMMA CrashKeeps ==
  ASSUME Sound(store), Threads, Others, NEW sh \in Shell, Crash(sh)
  PROVE  Keeps(store, store') /\ Threads' /\ Others'
<1> DEFINE st == AtPrompt(shell[sh].dir)
<1>1. st \in ShellState /\ Underway(st)
  <2>1. shell[sh].dir \in Dir
    BY DEF Threads, ShellState
  <2> QED BY <2>1, AtPromptIsState
<1>2. shell' = [shell EXCEPT ![sh] = st]
  BY DEF Crash
<1> HIDE DEF st
<1>3. shell' \in [Shell -> ShellState] /\ \A other \in Shell : Underway(shell'[other])
  BY <1>1, <1>2, ShellReplaced
<1>4. queue' \in [Shell -> Seq(Job)] /\ trim' \in [Shell -> TrimState]
  BY DEF Threads, Crash, Idle, TrimState
<1> QED BY <1>3, <1>4, NothingKept DEF Crash, Threads, Others

\* Every step of the system is one transaction or none, and keeps the invariant.
LEMMA EveryStepKeeps ==
  ASSUME LogInv, [Next]_vars
  PROVE  LogInv' /\ Keeps(store, store')
<1>1. Sound(store) /\ Threads /\ Others
  BY LogInvParts
<1>2. Keeps(store, store') /\ Threads' /\ Others'
  <2>1. CASE \E sh \in Shell : Prompt(sh) \/ Continue(sh)
    BY <1>1, <2>1, PromptKeeps
  <2>2. CASE \E sh \in Shell : Write(sh)
    BY <1>1, <2>2, WriteKeeps
  <2>3. CASE \E sh \in Shell : Crash(sh)
    BY <1>1, <2>3, CrashKeeps
  <2>4. CASE CliRead \/ CliDelete
    BY <1>1, <2>4, CliKeeps
  <2>5. CASE UNCHANGED vars
    BY <1>1, <2>5, NothingKept DEF vars, Threads, Others
  <2> QED BY <2>1, <2>2, <2>3, <2>4, <2>5 DEF Next
<1>3. Sound(store')
  BY <1>2 DEF Keeps
<1> QED BY <1>2, <1>3 DEF LogInv, TypeOK, Sound, Threads, Others

\* The first state, an empty database and shells at their prompts.
LEMMA InitIsSound ==
  ASSUME Init
  PROVE  LogInv
<1>1. PICK dir \in Dir : shell = [sh \in Shell |-> AtPrompt(dir)]
  BY DEF Init
<1>2. AtPrompt(dir) \in ShellState /\ Underway(AtPrompt(dir))
  BY AtPromptIsState
<1>3. shell \in [Shell -> ShellState] /\ \A sh \in Shell : Underway(shell[sh])
  BY <1>1, <1>2
<1>4. queue \in [Shell -> Seq(Job)] /\ trim \in [Shell -> TrimState]
  BY DEF Init, Idle, TrimState
<1>5. Sound(store) /\ Others
  BY EmptyStoreIsSound DEF Init, Others
<1> QED BY <1>3, <1>4, <1>5, LogInvParts DEF Threads

(***************************************************************************)
(* The tables stay well formed and a row's index always leads to an event  *)
(* and its projection, however many shells write (track/sync/projection.rs *)
(* looks both up and abandons the transaction where they are missing).     *)
(***************************************************************************)
THEOREM LogInvHolds == Spec => []LogInv
<1>1. Init => LogInv
  BY InitIsSound
<1>2. LogInv /\ [Next]_vars => LogInv'
  BY EveryStepKeeps
<1> QED BY <1>1, <1>2, PTL DEF Spec

(***************************************************************************)
(* No transaction of any shell, writer thread or `oslo history` replaces   *)
(* an event by a copy that would lose to it at another machine             *)
(* (track/stamp.rs).                                                       *)
(***************************************************************************)
THEOREM StampOnlyRisesHolds == Spec => StampOnlyRises
<1>1. LogInv /\ [Next]_vars =>
        [\A e \in Known(store) :
           store'.event[e] # store.event[e] =>
             store'.event[e] # None /\ WinsOver(store'.event[e], store.event[e])]_vars
  BY EveryStepKeeps DEF Keeps, Replaces, Known
<1> QED BY <1>1, LogInvHolds, PTL DEF Spec, StampOnlyRises

(***************************************************************************)
(* A tombstone stays a tombstone: no job a shell had queued for a row      *)
(* brings the row's event back (track/sync/projection.rs).                 *)
(***************************************************************************)
THEOREM DeletedStaysHolds == Spec => DeletedStays
<1>1. LogInv /\ [Next]_vars =>
        [\A e \in Known(store) : store.event[e].deleted => store'.event[e].deleted]_vars
  BY EveryStepKeeps DEF Keeps, Replaces, Known
<1> QED BY <1>1, LogInvHolds, PTL DEF Spec, DeletedStays

-----------------------------------------------------------------------------
(***************************************************************************)
(* What the rows say.                                                      *)
(***************************************************************************)
\* A step that leaves the file alone, and a transaction that may be abandoned.
LEMMA CommitTells ==
  ASSUME NEW s, Sound(s), Truthful(s), NEW t, t # None => Tells(s, t) /\ RowsStay(s, t)
  PROVE  Tells(s, Commit(s, t)) /\ RowsStay(s, Commit(s, t))
BY TablesTell, SameRowsStay DEF Commit

\* Counting a run, where a boundary brings one, touches no row.
LEMMA RecordedTells ==
  ASSUME NEW s, Sound(s), Truthful(s), NEW dir \in Dir, NEW line \in Line \cup {None}
  PROVE  LET t == Recorded(s, dir, line) IN
         /\ Sound(t) /\ Tells(s, t) /\ RowsStay(s, t)
         /\ t.history = s.history /\ t.outcome = s.outcome
         /\ t.local = s.local /\ t.event = s.event /\ t.projection = s.projection
<1> DEFINE t == Recorded(s, dir, line)
<1>1. t.history = s.history /\ t.outcome = s.outcome
  BY DEF Recorded, RecordRun, Sound, Store
<1>2. Sound(t) /\ t.local = s.local /\ t.event = s.event /\ t.projection = s.projection
  BY RecordedKeeps DEF Keeps
<1> HIDE DEF t
<1>3. Tells(s, t) /\ RowsStay(s, t)
  BY <1>1, <1>2, TablesTell, SameRowsStay
<1> QED BY <1>1, <1>2, <1>3 DEF t

(***************************************************************************)
(* What a boundary commits: an outcome written with its run or without it, *)
(* the run alone, or nothing.                                              *)
(***************************************************************************)
LEMMA BoundaryCommits ==
  ASSUME Sound(store), Threads, NEW sh \in Shell, RunBoundary(sh)
  PROVE  LET job == Head(queue[sh])
             ran == Recorded(store, job.from, job.line)
         IN
         /\ job.from \in Dir /\ job.line \in Line \cup {None} /\ job.status \in Status
         /\ \/ store' = store
            \/ store' = ran
            \/ /\ job.id \in LocalId
               /\ \E s \in {store, ran}, dir \in Dir, tie \in [EventId -> Tie] :
                    LET t == WriteOutcomes(s, job.id, [status |-> job.status, dir |-> dir], tie)
                    IN t # None /\ store' = t
<1> DEFINE job == Head(queue[sh])
           ran == Recorded(store, job.from, job.line)
           outcome(s, dir, tie) ==
             WriteOutcomes(s, job.id, [status |-> job.status, dir |-> dir], tie)
           both(tie) == IF job.id = None THEN ran ELSE outcome(ran, job.to, tie)
<1>1. PICK tie \in [EventId -> Tie] :
        IF both(tie) # None THEN store' = both(tie)
        ELSE store' = Commit(store, outcome(store, shell[sh].current, tie))
  BY DEF RunBoundary
<1>2. job \in Job /\ job.op = "boundary"
  BY HeadIsJob DEF RunBoundary
<1>3. /\ job.from \in Dir /\ job.to \in Dir /\ job.line \in Line \cup {None}
      /\ job.id \in LocalId \cup {None} /\ job.status \in Status
  BY <1>2, JobFields
<1>4. shell[sh].current \in Dir
  BY DEF Threads, ShellState
<1> HIDE DEF job
<1>5. ran # None
  BY <1>3, RecordedKeeps, NothingAssumption
<1> HIDE DEF ran, outcome
<1>6. \/ store' = store
      \/ store' = ran
      \/ /\ job.id \in LocalId
         /\ \E s \in {store, ran}, dir \in Dir, tt \in [EventId -> Tie] :
              outcome(s, dir, tt) # None /\ store' = outcome(s, dir, tt)
  <2>1. CASE job.id = None
    BY <1>1, <1>5, <2>1
  <2>2. CASE job.id \in LocalId /\ both(tie) # None
    BY <1>1, <1>3, <2>2, NothingAssumption DEF LocalId
  <2>3. CASE job.id \in LocalId /\ both(tie) = None
    BY <1>1, <1>4, <2>3 DEF Commit
  <2> QED BY <1>3, <2>1, <2>2, <2>3
<1> QED BY <1>3, <1>6 DEF job, ran, outcome

\* An outcome written, after a run was counted or not.
LEMMA OutcomeAfterRun ==
  ASSUME NEW s, Sound(s), Truthful(s), NEW u, Sound(u), Tells(s, u), RowsStay(s, u),
         u.history = s.history, u.local = s.local, u.projection = s.projection,
         NEW i \in LocalId, NEW done \in Done, NEW tie \in [EventId -> Tie],
         NEW t, t = WriteOutcomes(u, i, done, tie), t # None
  PROVE  Tells(s, t) /\ RowsStay(s, t)
<1>1. Tells(u, t) /\ RowsStay(u, t)
  BY WriteOutcomesTells, WriteOutcomesChanges DEF Tells, OutcomeWritten
<1>2. Tells(s, t)
  BY <1>1 DEF Tells
<1> QED BY <1>1, <1>2 DEF RowsStay, Rows

\* A boundary says nothing of the rows.
LEMMA RunBoundaryTells ==
  ASSUME Sound(store), Truthful(store), Threads, NEW sh \in Shell, RunBoundary(sh)
  PROVE  Tells(store, store') /\ RowsStay(store, store')
<1> DEFINE job == Head(queue[sh])
           ran == Recorded(store, job.from, job.line)
<1>1. /\ job.from \in Dir /\ job.line \in Line \cup {None} /\ job.status \in Status
      /\ \/ store' = store
         \/ store' = ran
         \/ /\ job.id \in LocalId
            /\ \E s \in {store, ran}, dir \in Dir, tie \in [EventId -> Tie] :
                 LET t == WriteOutcomes(s, job.id, [status |-> job.status, dir |-> dir], tie)
                 IN t # None /\ store' = t
  BY BoundaryCommits
<1> HIDE DEF job
<1>2. /\ Sound(ran) /\ Tells(store, ran) /\ RowsStay(store, ran)
      /\ ran.history = store.history /\ ran.local = store.local
      /\ ran.projection = store.projection
  BY <1>1, RecordedTells
<1> HIDE DEF ran
<1>3. Tells(store, store) /\ RowsStay(store, store)
  BY TablesTell, SameRowsStay
<1>4. CASE store' = store \/ store' = ran
  BY <1>2, <1>3, <1>4
<1>5. ASSUME job.id \in LocalId, NEW s \in {store, ran}, NEW dir \in Dir,
             NEW tie \in [EventId -> Tie],
             store' = WriteOutcomes(s, job.id, [status |-> job.status, dir |-> dir], tie),
             store' # None
      PROVE  Tells(store, store') /\ RowsStay(store, store')
  <2> DEFINE done == [status |-> job.status, dir |-> dir]
  <2>1. done \in Done
    BY <1>1 DEF Done
  <2> HIDE DEF done
  <2>2. /\ Sound(s) /\ Tells(store, s) /\ RowsStay(store, s)
        /\ s.history = store.history /\ s.local = store.local
        /\ s.projection = store.projection
    BY <1>2, <1>3
  <2>3. store' = WriteOutcomes(s, job.id, done, tie)
    BY <1>5 DEF done
  <2> QED BY <1>5, <2>1, <2>2, <2>3, OutcomeAfterRun
<1> QED BY <1>1, <1>4, <1>5

\* The head of the queue done to its row: an outcome, a rewrite, or a removal.
LEMMA RunOnRowTells ==
  ASSUME Sound(store), Truthful(store), Threads, NEW sh \in Shell, RunOnRow(sh)
  PROVE  /\ Tells(store, store')
         /\ Working(sh, "drop") \/ RowsStay(store, store')
<1> DEFINE job == Head(queue[sh])
           done == [status |-> job.status, dir |-> shell[sh].current]
<1>1. PICK tie \in [EventId -> Tie] :
        \/ /\ Working(sh, "rewrite")
           /\ store' = Commit(store, RewriteLine(store, job.id, job.line, tie))
        \/ /\ Working(sh, "drop")
           /\ store' = Commit(store, DropLines(store, {job.id}, tie))
        \/ /\ Working(sh, "outcome")
           /\ store' = Commit(store, WriteOutcomes(store, job.id, done, tie))
  BY DEF RunOnRow
<1>2. CASE /\ Working(sh, "rewrite")
           /\ store' = Commit(store, RewriteLine(store, job.id, job.line, tie))
  <2>1. job.id \in LocalId /\ job.line \in Line
    BY <1>2, HeadIsJob, JobFields
  <2> HIDE DEF job
  <2> DEFINE t == RewriteLine(store, job.id, job.line, tie)
  <2>2. t # None => Tells(store, t) /\ RowsStay(store, t)
    BY <2>1, RewriteLineTells, RewriteLineStays
  <2> HIDE DEF t
  <2>3. Tells(store, Commit(store, t)) /\ RowsStay(store, Commit(store, t))
    BY <2>2, CommitTells
  <2> QED BY <1>2, <2>3 DEF t
<1>3. CASE /\ Working(sh, "drop")
           /\ store' = Commit(store, DropLines(store, {job.id}, tie))
  <2>1. job.id \in LocalId
    BY <1>3, HeadIsJob, JobFields
  <2> HIDE DEF job
  <2>2. {job.id} \in SUBSET LocalId
    BY <2>1
  <2> DEFINE t == DropLines(store, {job.id}, tie)
  <2>3. t # None => Tells(store, t)
    BY <2>2, DropLinesTells
  <2> HIDE DEF t
  <2>4. Tells(store, Commit(store, t))
    BY <2>3, TablesTell DEF Commit
  <2> QED BY <1>3, <2>4 DEF t
<1>4. CASE /\ Working(sh, "outcome")
           /\ store' = Commit(store, WriteOutcomes(store, job.id, done, tie))
  <2>1. job.id \in LocalId /\ job.status \in Status
    BY <1>4, HeadIsJob, JobFields
  <2>2. done \in Done
    BY <2>1 DEF Threads, ShellState, Done
  <2> HIDE DEF job, done
  <2> DEFINE t == WriteOutcomes(store, job.id, done, tie)
  <2>3. t # None => Tells(store, t) /\ RowsStay(store, t)
    BY <2>1, <2>2, WriteOutcomesTells, WriteOutcomesChanges DEF OutcomeWritten
  <2> HIDE DEF t
  <2>4. Tells(store, Commit(store, t)) /\ RowsStay(store, Commit(store, t))
    BY <2>3, CommitTells
  <2> QED BY <1>4, <2>4 DEF t
<1> QED BY <1>1, <1>2, <1>3, <1>4

\* The prompt's steps: only a clear or the Delete key takes rows away.
LEMMA PromptTells ==
  ASSUME Sound(store), Truthful(store), Threads, NEW sh \in Shell,
         Prompt(sh) \/ Continue(sh)
  PROVE  /\ Tells(store, store')
         /\ RowsStay(store, store') \/ ClearRows(sh) \/ ForgetLog(sh)
<1>1. CASE \E line \in Line : Enter(sh, line)
  <2>1. PICK line \in Line : Enter(sh, line)
    BY <1>1
  <2> DEFINE e == CHOOSE e \in Unused : TRUE
  <2>2. e \in EventId /\ store.event[e] = None
    <3>1. e \in Unused
      BY <2>1 DEF Enter
    <3> QED BY <3>1 DEF Unused, Known
  <2>3. NextId(store) \in LocalId
    BY <2>1 DEF Enter
  <2>4. PICK tie \in [EventId -> Tie] : store' = AppendEntry(store, e, line, tie)
    BY <2>1 DEF Enter
  <2> HIDE DEF e
  <2> QED BY <2>2, <2>3, <2>4, AppendEntryTells, AppendEntryStays
<1>2. CASE store' = store
  BY <1>2, TablesTell, SameRowsStay
<1>3. CASE \/ Finish(sh) \/ Refuse(sh) \/ BeginClear(sh) \/ Leave(sh) \/ ReadForgotten(sh)
  BY <1>2, <1>3 DEF Finish, Refuse, BeginClear, Leave, ReadForgotten
<1>4. CASE (\E line \in Line : ForgetLine(sh, line)) \/ Count(sh) \/ ClearRuns(sh)
  BY <1>4, RunsTell, RunsStay DEF ForgetLine, Count, ClearRuns
<1>5. CASE ClearRows(sh)
  <2>1. PICK tie \in [EventId -> Tie] : store' = Commit(store, Clear(store, tie))
    BY <1>5 DEF ClearRows
  <2> DEFINE t == Clear(store, tie)
  <2>2. t # None => Tells(store, t)
    BY ClearTells
  <2> HIDE DEF t
  <2>3. Tells(store, Commit(store, t))
    BY <2>2, TablesTell DEF Commit
  <2> QED BY <1>5, <2>1, <2>3 DEF t
<1>6. CASE ForgetLog(sh)
  <2>1. PICK tie \in [EventId -> Tie] :
          store' = Commit(store, DropLines(store, shell[sh].ids, tie))
    BY <1>6 DEF ForgetLog
  <2>2. shell[sh].ids \in SUBSET LocalId
    BY DEF Threads, ShellState
  <2> DEFINE t == DropLines(store, shell[sh].ids, tie)
  <2>3. t # None => Tells(store, t)
    BY <2>2, DropLinesTells
  <2> HIDE DEF t
  <2>4. Tells(store, Commit(store, t))
    BY <2>3, TablesTell DEF Commit
  <2> QED BY <1>6, <2>1, <2>4 DEF t
<1> QED BY <1>1, <1>3, <1>4, <1>5, <1>6 DEF Prompt, Continue

\* The writer's steps outside a trim: only a removal takes a row away.
LEMMA JobTells ==
  ASSUME Sound(store), Truthful(store), Threads, NEW sh \in Shell,
         RunBoundary(sh) \/ RunAlsoRan(sh) \/ RunForgetEntered(sh) \/ RunOnRow(sh)
  PROVE  /\ Tells(store, store')
         /\ RowsStay(store, store') \/ (RunOnRow(sh) /\ Working(sh, "drop"))
<1>1. CASE RunBoundary(sh)
  BY <1>1, RunBoundaryTells
<1>2. CASE RunAlsoRan(sh)
  <2>1. Head(queue[sh]).from \in Dir /\ Head(queue[sh]).line \in Line \cup {None}
    BY <1>2, HeadIsJob, JobFields DEF RunAlsoRan
  <2> QED BY <1>2, <2>1, RecordedTells DEF RunAlsoRan
<1>3. CASE RunForgetEntered(sh)
  BY <1>3, RunsTell, RunsStay DEF RunForgetEntered
<1>4. CASE RunOnRow(sh)
  BY <1>4, RunOnRowTells
<1> QED BY <1>1, <1>2, <1>3, <1>4

\* A trim's steps: rows are withheld, outcomes dropped, rows dropped.
LEMMA TrimTells ==
  ASSUME Sound(store), Truthful(store), Threads, NEW sh \in Shell,
         \/ SkipTrim(sh) \/ ReadDoomed(sh) \/ HideDoomed(sh) \/ ReadOutcomes(sh)
         \/ SweepOutcomes(sh) \/ SweepRows(sh)
  PROVE  /\ Truthful(store')
         /\ HideDoomed(sh) \/ SweepRows(sh)
              \/ (Tells(store, store') /\ RowsStay(store, store'))
<1>1. CASE SkipTrim(sh) \/ ReadDoomed(sh) \/ ReadOutcomes(sh)
  <2>1. store' = store
    BY <1>1 DEF SkipTrim, ReadDoomed, ReadOutcomes
  <2> QED BY <2>1, TablesTell, SameRowsStay DEF Tells
<1>2. CASE HideDoomed(sh)
  <2> DEFINE t == HideLocals(store, trim[sh].ids)
  <2>1. store' = store \/ (t # None /\ store' = t)
    BY <1>2 DEF HideDoomed
  <2>2. trim[sh].ids \in SUBSET LocalId
    BY DEF Threads, TrimState
  <2>3. t # None => Truthful(t)
    BY <2>2, HideLocalsTells
  <2> QED BY <1>2, <2>1, <2>3
<1>3. CASE SweepOutcomes(sh)
  <2> DEFINE t == DropOutcomes(store, 1 .. trim[sh].upto)
  <2>1. /\ t.history = store.history /\ t.local = store.local /\ t.event = store.event
        /\ t.projection = store.projection
    BY DEF DropOutcomes, Sound, Store
  <2>2. store' = t
    BY <1>3 DEF SweepOutcomes
  <2> QED BY <2>1, <2>2, TablesTell, SameRowsStay DEF Tells
<1>4. CASE SweepRows(sh)
  <2> DEFINE t == DropHistory(store, 1 .. trim[sh].from)
  <2>1. /\ t.local = store.local /\ t.event = store.event
        /\ t.projection = store.projection
        /\ \A i \in LocalId : t.history[i] = store.history[i] \/ t.history[i] = None
    BY DEF DropHistory, Sound, Store
  <2>2. store' = t
    BY <1>4 DEF SweepRows
  <2> HIDE DEF t
  <2> QED BY <1>4, <2>1, <2>2, RowsGo
<1> QED BY <1>1, <1>2, <1>3, <1>4

\* A deletion from outside.
LEMMA CliTells ==
  ASSUME Sound(store), Truthful(store), Others, CliDelete
  PROVE  /\ Truthful(store')
         /\ Shown(store) => Shown(store')
         /\ Shown(store) /\ Standing(store) => Standing(store')
<1>1. PICK tie \in [EventId -> Tie] : store' = Commit(store, DeleteEvents(store, cli, tie))
  BY DEF CliDelete
<1> DEFINE t == DeleteEvents(store, cli, tie)
<1>2. cli \in SUBSET EventId
  BY DEF Others
<1>3. t # None => /\ Truthful(t)
                  /\ Shown(store) => Shown(t)
                  /\ Shown(store) /\ Standing(store) => Standing(t)
  BY <1>2, DeleteEventsTells
<1> HIDE DEF t
<1>4. store' = store \/ (store' = t /\ t # None)
  BY <1>1 DEF Commit, t
<1> QED BY <1>3, <1>4

\* Every step leaves every row saying what its event says.
LEMMA EveryStepTells ==
  ASSUME LogInv, Truthful(store), [Next]_vars
  PROVE  /\ Truthful(store')
         /\ \/ /\ Tells(store, store')
               /\ \/ RowsStay(store, store')
                  \/ \E sh \in Shell : \/ ClearRows(sh) \/ ForgetLog(sh)
                                       \/ RunOnRow(sh) /\ Working(sh, "drop")
            \/ \E sh \in Shell : HideDoomed(sh) \/ SweepRows(sh)
            \/ CliDelete
<1>1. Sound(store) /\ Threads /\ Others
  BY LogInvParts
<1>2. CASE \E sh \in Shell : Prompt(sh) \/ Continue(sh)
  BY <1>1, <1>2, PromptTells DEF Tells
<1>3. CASE \E sh \in Shell : Write(sh)
  BY <1>1, <1>3, JobTells, TrimTells DEF Write, Tells
<1>4. CASE CliDelete
  BY <1>1, <1>4, CliTells
<1>5. CASE store' = store
  BY <1>1, <1>5, TablesTell, SameRowsStay DEF Tells
<1>6. CASE (\E sh \in Shell : Crash(sh)) \/ CliRead \/ UNCHANGED vars
  BY <1>5, <1>6 DEF Crash, CliRead, vars
<1> QED BY <1>2, <1>3, <1>4, <1>6 DEF Next

\* The invariant behind that: the index and the projections lead to each other.
RowsInv == LogInv /\ Truthful(store)

\* It holds of every instance, whatever the shells do.
LEMMA RowsInvHolds == Spec => []RowsInv
<1>1. Init => RowsInv
  BY InitIsSound, EmptyStoreTells DEF Init, RowsInv
<1>2. RowsInv /\ [Next]_vars => RowsInv'
  BY EveryStepKeeps, EveryStepTells DEF RowsInv
<1> QED BY <1>1, <1>2, PTL DEF Spec

(***************************************************************************)
(* Every row that can be recalled is the line of a live event, whichever   *)
(* shells clear, forget, trim and delete at once (track/log.rs,            *)
(* track/sync/projection.rs).  Beside LogInv the proof needs that an       *)
(* event's projection names the one row indexed as the event's: it is why  *)
(* a burial takes the right row, and no other row, with it.                *)
(***************************************************************************)
THEOREM RowsSayTheirEventsHolds == Spec => []RowsSayTheirEvents
<1>1. RowsInv => RowsSayTheirEvents
  BY DEF RowsInv, Truthful, RowsTrue, RowsSayTheirEvents, Rows
<1> QED BY <1>1, RowsInvHolds, PTL
=============================================================================
