----------------------------- MODULE HistoryLog -----------------------------
(***************************************************************************)
(* Several shells of one profile writing to one history database.          *)
(*                                                                         *)
(* A shell appends a line before it runs it and queues everything else for *)
(* its writer thread, which runs the queued jobs in order, one or more     *)
(* transactions each (track/writer.rs).  Beside the shells stands an       *)
(* `oslo history` command that deletes events, and each shell may clear    *)
(* the history, forget one line, trim on its way out, or be killed.        *)
(*                                                                         *)
(* A hidden line (leading space, or a hook's veto) writes nothing and has  *)
(* no action here.                                                         *)
(***************************************************************************)
EXTENDS HistoryStore, Sequences

CONSTANTS
  Shell,         \* the shells that have this profile open
  Kept,          \* the lists of lines a pre-record rule may keep instead
  Unparsed,      \* the outcome of a line that was never a command
  CountOnEnter,  \* the `immediate` setting: runs are counted before they run
  MaxRows,       \* $HISTSIZE
  Doing          \* which of the optional operations happen in this instance

Optional == {"replace", "refuse", "clear", "forget", "trim", "cli", "crash"}

ASSUME LogAssumption ==
  /\ Kept \subseteq Seq(Line) \ {<<>>}
  /\ CountOnEnter \in BOOLEAN /\ MaxRows \in Nat \ {0} /\ Doing \subseteq Optional

VARIABLES
  store,   \* the database file
  shell,   \* each shell's prompt loop
  queue,   \* each shell's writer queue; the job at the head is being run
  trim,    \* where each shell's trim has got to
  cli,     \* the events an `oslo history` command has read and will delete
  result   \* how each event's command really ended (history variable)

vars == <<store, shell, queue, trim, cli, result>>

(***************************************************************************)
(* The prompt loop.  `current` is the store handle's cached directory,     *)
(* shared by the two threads; `counted` says Enter counted the run;        *)
(* `event` is the event the running line was appended as.                  *)
(***************************************************************************)
AtPrompt(dir) == [pc |-> "prompt", line |-> None, id |-> None, event |-> None,
                  dir |-> dir, current |-> dir, counted |-> FALSE, ids |-> {}]

Loop == {"prompt", "entered", "running", "clearing", "clearing_runs",
         "forgetting", "forgetting_log", "leaving"}

Job == [op : {"trim"}]
  \cup [op : {"boundary"}, from : Dir, to : Dir, line : Line \cup {None},
        id : LocalId \cup {None}, status : Status]
  \cup [op : {"also_ran"}, from : Dir, line : Line \cup {None}]
  \cup [op : {"forget_entered"}, dir : Dir, line : Line]
  \cup [op : {"rewrite"}, id : LocalId, line : Line]
  \cup [op : {"drop"}, id : LocalId]
  \cup [op : {"outcome"}, id : LocalId, status : Status]

Idle == [step |-> "idle", ids |-> {}, upto |-> 0, from |-> 0]

ShellState == [pc : Loop, line : Line \cup {None}, id : LocalId \cup {None},
               event : EventId \cup {None}, dir : Dir, current : Dir,
               counted : BOOLEAN, ids : SUBSET LocalId]
TrimState == [step : {"idle", "hide", "outcomes", "sweep", "rows"},
              ids : SUBSET LocalId, upto : LocalId \cup {0}, from : LocalId \cup {0}]

TypeOK ==
  /\ store \in Store
  /\ shell \in [Shell -> ShellState]
  /\ queue \in [Shell -> Seq(Job)]
  /\ trim \in [Shell -> TrimState]
  /\ cli \in SUBSET EventId
  /\ result \in [EventId -> Status \cup {None}]

Init ==
  /\ store = EmptyStore
  /\ \E dir \in Dir : shell = [sh \in Shell |-> AtPrompt(dir)]
  /\ queue = [sh \in Shell |-> <<>>]
  /\ trim = [sh \in Shell |-> Idle]
  /\ cli = {}
  /\ result = [e \in EventId |-> None]

-----------------------------------------------------------------------------
(***************************************************************************)
(* Enter: the row is appended before the line runs (precmd::write_down),   *)
(* a trim is queued behind it, and the run may be counted (entered).       *)
(***************************************************************************)
Unused == EventId \ Known(store)

Enter(sh, line) ==
  /\ shell[sh].pc = "prompt"
  /\ Unused # {} /\ NextId(store) \in LocalId
  \* No step of this module compares event ids, so any unused one will do.
  /\ LET e == CHOOSE e \in Unused : TRUE IN
     /\ \E tie \in [EventId -> Tie] : store' = AppendEntry(store, e, line, tie)
     /\ shell' = [shell EXCEPT ![sh] =
          [@ EXCEPT !.pc = IF CountOnEnter THEN "entered" ELSE "running",
                    !.line = line, !.id = NextId(store), !.event = e]]
  /\ queue' = [queue EXCEPT ![sh] =
                 IF "trim" \in Doing THEN Append(@, [op |-> "trim"]) ELSE @]
  /\ UNCHANGED <<trim, cli, result>>

Count(sh) ==
  /\ shell[sh].pc = "entered"
  /\ store' = RecordRun(store, shell[sh].dir, shell[sh].line)
  /\ shell' = [shell EXCEPT ![sh].pc = "running", ![sh].counted = TRUE,
                            ![sh].current = shell[sh].dir]
  /\ UNCHANGED <<queue, trim, cli, result>>

-----------------------------------------------------------------------------
(***************************************************************************)
(* The command has finished: what a pre-record rule decided becomes jobs   *)
(* (Tracker::write_down).  `text` is what ran, which a pre-cmd handler may *)
(* have put in place of the line as typed.                                 *)
(***************************************************************************)
RunOf(line, status) == IF status = Unparsed THEN None ELSE line

Uncount(sh) ==
  IF shell[sh].counted
  THEN <<[op |-> "forget_entered", dir |-> shell[sh].dir, line |-> shell[sh].line]>>
  ELSE <<>>

Boundary(sh, to, line, id, status) ==
  [op |-> "boundary", from |-> shell[sh].dir, to |-> to, line |-> line,
   id |-> id, status |-> status]

\* The outcome rides along with the boundary.
AsTypedJobs(sh, to, text, status) ==
  IF shell[sh].counted /\ text = shell[sh].line /\ status # Unparsed
  THEN <<Boundary(sh, to, None, shell[sh].id, status)>>
  ELSE Append(Uncount(sh), Boundary(sh, to, RunOf(text, status), shell[sh].id, status))

\* Mutant: a kept line never gets its outcome.
KeptJobsNoOutcome(sh, to, text, kept, status) ==
  Append(Uncount(sh), Boundary(sh, to, RunOf(kept[1], status), None, status))

\* Mutant: the outcome is written ahead of the rewrite.
KeptJobsOutcomeFirst(sh, to, text, kept, status) ==
  Append(Uncount(sh), Boundary(sh, to, RunOf(kept[1], status), None, status))
    \o <<[op |-> "outcome", id |-> shell[sh].id, status |-> status],
         [op |-> "rewrite", id |-> shell[sh].id, line |-> kept[1]]>>

\* The outcome follows the rewrite of the row.
KeptJobs(sh, to, text, kept, status) ==
  Append(Uncount(sh), Boundary(sh, to, RunOf(kept[1], status), None, status))
    \o [n \in 1 .. Len(kept) - 1 |->
          [op |-> "also_ran", from |-> shell[sh].dir, line |-> RunOf(kept[n + 1], status)]]
    \o (IF kept[1] = text THEN <<>>
        ELSE <<[op |-> "rewrite", id |-> shell[sh].id, line |-> kept[1]]>>)
    \o <<[op |-> "outcome", id |-> shell[sh].id, status |-> status]>>

\* Mutant: a refused line's outcome is queued behind its removal.
RefusedJobsWithOutcome(sh) ==
  Uncount(sh) \o <<[op |-> "drop", id |-> shell[sh].id],
                   [op |-> "outcome", id |-> shell[sh].id,
                    status |-> CHOOSE status \in Status : TRUE]>>

RefusedJobs(sh) == Append(Uncount(sh), [op |-> "drop", id |-> shell[sh].id])

Texts(sh) == IF "replace" \in Doing THEN Line ELSE {shell[sh].line}

\* Back at the prompt in `to`, with the jobs queued.
Return(sh, to, jobs) ==
  /\ shell' = [shell EXCEPT ![sh] = [AtPrompt(to) EXCEPT !.current = shell[sh].current]]
  /\ queue' = [queue EXCEPT ![sh] = @ \o jobs]

Finish(sh) ==
  /\ shell[sh].pc = "running"
  /\ \E to \in Dir, text \in Texts(sh), status \in Status :
       /\ \/ Return(sh, to, AsTypedJobs(sh, to, text, status))
          \/ \E kept \in Kept : Return(sh, to, KeptJobs(sh, to, text, kept, status))
       /\ result' = [result EXCEPT ![shell[sh].event] = status]
  /\ UNCHANGED <<store, trim, cli>>

Refuse(sh) ==
  /\ "refuse" \in Doing
  /\ shell[sh].pc = "running"
  /\ \E to \in Dir : Return(sh, to, RefusedJobs(sh))
  /\ UNCHANGED <<store, trim, cli, result>>

-----------------------------------------------------------------------------
(***************************************************************************)
(* The writer thread: one job, one transaction.                            *)
(***************************************************************************)
Working(sh, op) == queue[sh] # <<>> /\ Head(queue[sh]).op = op

Dequeue(sh) == queue' = [queue EXCEPT ![sh] = Tail(@)]

Recorded(s, dir, line) == IF line = None THEN s ELSE RecordRun(s, dir, line)

(***************************************************************************)
(* record and record_settled: the run, and the outcome under the directory *)
(* the boundary settled on.  Where the two will not go in together, the    *)
(* outcome goes in alone, under the directory of the last boundary.        *)
(***************************************************************************)
RunBoundary(sh) ==
  /\ Working(sh, "boundary")
  /\ \E tie \in [EventId -> Tie] :
       LET job == Head(queue[sh])
           ran == Recorded(store, job.from, job.line)
           outcome(s, dir) == WriteOutcomes(s, job.id, [status |-> job.status, dir |-> dir], tie)
           both == IF job.id = None THEN ran ELSE outcome(ran, job.to)
       IN IF both # None
          THEN /\ store' = both
               /\ shell' = [shell EXCEPT ![sh].current = job.to]
          ELSE /\ store' = Commit(store, outcome(store, shell[sh].current))
               /\ UNCHANGED shell
  /\ Dequeue(sh)
  /\ UNCHANGED <<trim, cli, result>>

RunAlsoRan(sh) ==
  /\ Working(sh, "also_ran")
  /\ store' = Recorded(store, Head(queue[sh]).from, Head(queue[sh]).line)
  /\ shell' = [shell EXCEPT ![sh].current = Head(queue[sh]).from]
  /\ Dequeue(sh)
  /\ UNCHANGED <<trim, cli, result>>

RunForgetEntered(sh) ==
  /\ Working(sh, "forget_entered")
  /\ store' = TakeBackRun(store, Head(queue[sh]).dir, Head(queue[sh]).line)
  /\ Dequeue(sh)
  /\ UNCHANGED <<shell, trim, cli, result>>

\* The jobs that change the row or its outcome.
RunOnRow(sh) ==
  /\ \E tie \in [EventId -> Tie] :
       LET job == Head(queue[sh]) IN
       \/ /\ Working(sh, "rewrite")
          /\ store' = Commit(store, RewriteLine(store, job.id, job.line, tie))
       \/ /\ Working(sh, "drop")
          /\ store' = Commit(store, DropLines(store, {job.id}, tie))
       \/ /\ Working(sh, "outcome")
          /\ store' = Commit(store, WriteOutcomes(store, job.id,
                        [status |-> job.status, dir |-> shell[sh].current], tie))
  /\ Dequeue(sh)
  /\ UNCHANGED <<shell, trim, cli, result>>

-----------------------------------------------------------------------------
(***************************************************************************)
(* Trimming to $HISTSIZE: on the writer thread every so many lines, and on *)
(* the way out once the queue has settled.  The rows to go are read first  *)
(* and hidden; the outcomes go by a threshold read again; the rows go last *)
(* and by the first threshold.                                             *)
(***************************************************************************)
Doomed(s) ==
  {i \in Rows(s) : Cardinality({j \in Rows(s) : j > i}) >= MaxRows}

Leave(sh) ==
  /\ "trim" \in Doing
  /\ shell[sh].pc = "prompt"
  /\ shell' = [shell EXCEPT ![sh].pc = "leaving"]
  /\ UNCHANGED <<store, queue, trim, cli, result>>

\* Mutant: only a queued trim knows how to end.
EndTrimStays(sh) ==
  /\ trim' = [trim EXCEPT ![sh] = Idle]
  /\ IF Working(sh, "trim") THEN Dequeue(sh) ELSE UNCHANGED queue
  /\ UNCHANGED shell

\* Whoever is trimming is done: the job is over, or a new session may start.
EndTrim(sh) ==
  /\ trim' = [trim EXCEPT ![sh] = Idle]
  /\ IF Working(sh, "trim")
     THEN Dequeue(sh) /\ UNCHANGED shell
     ELSE /\ shell' = [shell EXCEPT ![sh] = AtPrompt(shell[sh].dir)]
          /\ UNCHANGED queue

SkipTrim(sh) ==
  /\ Working(sh, "trim") /\ trim[sh] = Idle
  /\ Dequeue(sh)
  /\ UNCHANGED <<store, shell, trim, cli, result>>

ReadDoomed(sh) ==
  /\ trim[sh] = Idle
  /\ Working(sh, "trim") \/ (shell[sh].pc = "leaving" /\ queue[sh] = <<>>)
  /\ IF Doomed(store) = {} THEN EndTrim(sh)
     ELSE /\ trim' = [trim EXCEPT ![sh] = [Idle EXCEPT
                        !.step = "hide", !.ids = Doomed(store), !.from = Max(Doomed(store))]]
          /\ UNCHANGED <<shell, queue>>
  /\ UNCHANGED <<store, cli, result>>

HideDoomed(sh) ==
  /\ trim[sh].step = "hide"
  /\ LET t == HideLocals(store, trim[sh].ids) IN
     IF t = None THEN EndTrim(sh) /\ UNCHANGED store
     ELSE /\ store' = t
          /\ trim' = [trim EXCEPT ![sh].step = "outcomes"]
          /\ UNCHANGED <<shell, queue>>
  /\ UNCHANGED <<cli, result>>

ReadOutcomes(sh) ==
  /\ trim[sh].step = "outcomes"
  /\ trim' = [trim EXCEPT ![sh].step = "sweep",
                          ![sh].upto = IF Doomed(store) = {} THEN 0 ELSE Max(Doomed(store))]
  /\ UNCHANGED <<store, shell, queue, cli, result>>

SweepOutcomes(sh) ==
  /\ trim[sh].step = "sweep"
  /\ store' = DropOutcomes(store, 1 .. trim[sh].upto)
  /\ trim' = [trim EXCEPT ![sh].step = "rows"]
  /\ UNCHANGED <<shell, queue, cli, result>>

SweepRows(sh) ==
  /\ trim[sh].step = "rows"
  /\ store' = DropHistory(store, 1 .. trim[sh].from)
  /\ EndTrim(sh)
  /\ UNCHANGED <<cli, result>>

-----------------------------------------------------------------------------
(***************************************************************************)
(* `history -c`: the queue settles, the rows go, the runs go, and what is  *)
(* left of the line that asked is taken back.                              *)
(***************************************************************************)
BeginClear(sh) ==
  /\ "clear" \in Doing
  /\ shell[sh].pc = "running"
  /\ shell' = [shell EXCEPT ![sh].pc = "clearing"]
  /\ UNCHANGED <<store, queue, trim, cli, result>>

ClearRows(sh) ==
  /\ shell[sh].pc = "clearing" /\ queue[sh] = <<>>
  /\ \E tie \in [EventId -> Tie] : store' = Commit(store, Clear(store, tie))
  /\ shell' = [shell EXCEPT ![sh].pc = "clearing_runs"]
  /\ UNCHANGED <<queue, trim, cli, result>>

ClearRuns(sh) ==
  /\ shell[sh].pc = "clearing_runs"
  /\ store' = ForgetRuns(store)
  /\ Return(sh, shell[sh].dir, Uncount(sh))
  /\ UNCHANGED <<trim, cli, result>>

(***************************************************************************)
(* The finder's Delete key: the line leaves the aggregate, then the rows   *)
(* that say it are read, then they are taken away.  Nothing settles first. *)
(***************************************************************************)
ForgetLine(sh, line) ==
  /\ "forget" \in Doing
  /\ shell[sh].pc = "prompt"
  /\ store' = ForgetRunsOf(store, line)
  /\ shell' = [shell EXCEPT ![sh].pc = "forgetting", ![sh].line = line]
  /\ UNCHANGED <<queue, trim, cli, result>>

ReadForgotten(sh) ==
  /\ shell[sh].pc = "forgetting"
  /\ shell' = [shell EXCEPT ![sh].pc = "forgetting_log",
                            ![sh].ids = {i \in LocalId : store.history[i] = shell[sh].line}]
  /\ UNCHANGED <<store, queue, trim, cli, result>>

ForgetLog(sh) ==
  /\ shell[sh].pc = "forgetting_log"
  /\ \E tie \in [EventId -> Tie] :
       store' = Commit(store, DropLines(store, shell[sh].ids, tie))
  /\ Return(sh, shell[sh].dir, <<>>)
  /\ UNCHANGED <<trim, cli, result>>

(***************************************************************************)
(* `oslo history delete` and `clear`: another process reads the ids, and   *)
(* deletes them in a later transaction.                                    *)
(***************************************************************************)
CliRead ==
  /\ "cli" \in Doing /\ cli = {}
  /\ \E es \in SUBSET Known(store) :
       /\ es # {} /\ \A e \in es : ~ store.event[e].deleted
       /\ cli' = es
  /\ UNCHANGED <<store, shell, queue, trim, result>>

CliDelete ==
  /\ cli # {}
  /\ \E tie \in [EventId -> Tie] : store' = Commit(store, DeleteEvents(store, cli, tie))
  /\ cli' = {}
  /\ UNCHANGED <<shell, queue, trim, result>>

\* The shell is killed, its queue with it, and another is started in its place.
Crash(sh) ==
  /\ "crash" \in Doing
  /\ shell' = [shell EXCEPT ![sh] = AtPrompt(shell[sh].dir)]
  /\ queue' = [queue EXCEPT ![sh] = <<>>]
  /\ trim' = [trim EXCEPT ![sh] = Idle]
  /\ UNCHANGED <<store, cli, result>>

-----------------------------------------------------------------------------
Prompt(sh) ==
  \/ \E line \in Line : Enter(sh, line) \/ ForgetLine(sh, line)
  \/ Finish(sh) \/ Refuse(sh) \/ BeginClear(sh) \/ Leave(sh)

\* What the prompt thread goes on with by itself.
Continue(sh) ==
  Count(sh) \/ ClearRows(sh) \/ ClearRuns(sh) \/ ReadForgotten(sh) \/ ForgetLog(sh)

Write(sh) ==
  \/ RunBoundary(sh) \/ RunAlsoRan(sh) \/ RunForgetEntered(sh) \/ RunOnRow(sh)
  \/ SkipTrim(sh) \/ ReadDoomed(sh) \/ HideDoomed(sh) \/ ReadOutcomes(sh)
  \/ SweepOutcomes(sh) \/ SweepRows(sh)

Next ==
  \/ \E sh \in Shell : Prompt(sh) \/ Continue(sh) \/ Write(sh) \/ Crash(sh)
  \/ CliRead \/ CliDelete

Spec == Init /\ [][Next]_vars

(***************************************************************************)
(* Both threads of a shell are scheduled; nobody makes a person type or a  *)
(* command end.                                                            *)
(***************************************************************************)
FairSpec == Spec /\ \A sh \in Shell : WF_vars(Continue(sh)) /\ WF_vars(Write(sh))

-----------------------------------------------------------------------------
\* A shell with a line under way knows the line, its row and its event.
Underway(st) ==
  st.pc \in {"entered", "running", "clearing", "clearing_runs"} =>
    st.line \in Line /\ st.id \in LocalId /\ st.event \in EventId

(***************************************************************************)
(* What every transaction may rely on: the tables are well formed, a row's *)
(* index leads to an event and to its projection (complete_local and       *)
(* rewrite_local fail without), and no shell runs a line it did not append.*)
(***************************************************************************)
LogInv == TypeOK /\ Indexed(store) /\ \A sh \in Shell : Underway(shell[sh])

(***************************************************************************)
(* A line that can be recalled is a live event's line, word for word: no   *)
(* deleted command comes back, and what a rule kept is what is synced.     *)
(***************************************************************************)
RowsSayTheirEvents ==
  \A i \in Rows(store) :
    LET e == store.local[i] IN
    IF e = None THEN FALSE
    ELSE ~ store.event[e].deleted /\ store.event[e].line = store.history[i]

(***************************************************************************)
(* Every change to an event wins over what it replaces, or another machine *)
(* that already holds the old copy would never take the new one.           *)
(***************************************************************************)
StampOnlyRises ==
  [][\A e \in Known(store) :
       store'.event[e] # store.event[e] =>
         store'.event[e] # None /\ WinsOver(store'.event[e], store.event[e])]_vars

\* No shell brings a deleted event back, whatever it had queued for it.
DeletedStays ==
  [][\A e \in Known(store) : store.event[e].deleted => store'.event[e].deleted]_vars

(***************************************************************************)
(* "What a recorded line did, joined to the log row by its id"             *)
(* (track/outcome.rs): the status an event carries is what its own command *)
(* reported, and the outcome beside a row is the outcome of its event.     *)
(***************************************************************************)
OutcomeIsOwn ==
  /\ \A e \in Known(store) :
       store.event[e].done # None =>
         IF result[e] = None THEN FALSE
         ELSE store.event[e].done.status = result[e]
  /\ \A i \in Rows(store) :
       store.outcome[i] # None => store.event[store.local[i]].done = store.outcome[i]

\* "An outcome whose line is gone is a row nothing can ever join to."
NoOrphanOutcome == \A i \in LocalId : store.outcome[i] # None => store.history[i] # None

(***************************************************************************)
(* A line leaves the log by being deleted or by being trimmed, and both    *)
(* are written down: an event that is neither still has its row.           *)
(***************************************************************************)
NothingLost ==
  \A e \in Known(store) :
    ~ store.event[e].deleted /\ ~ store.projection[e].hidden =>
      LET i == store.projection[e].local IN
      store.local[i] = e /\ store.history[i] = store.event[e].line

\* What this machine wrote itself, it has nothing left to apply of.
NothingPending == \A e \in Known(store) : Applied(store, e)

(***************************************************************************)
(* The aggregate counts every run an event stands behind, so that taking   *)
(* an event away never takes away somebody else's run.                     *)
(***************************************************************************)
RunsCoverContributions ==
  \A k \in RunKey :
    store.run[k] >= Cardinality({e \in Known(store) : store.projection[e].run = k})

\* Whether the event of a command says what became of it, or says nothing any more.
Settled(e) ==
  IF store.event[e] = None THEN FALSE
  ELSE store.event[e].deleted \/ store.event[e].done # None

\* What a command did is written down, as long as its shell lives and nobody deletes it.
EveryOutcomeIsRecorded == \A e \in EventId : result[e] # None ~> Settled(e)

\* A shell on its way out gets out, and a clear ends, whatever is queued.
SettleReturns ==
  \A sh \in Shell :
    shell[sh].pc \in {"leaving", "clearing"} ~> shell[sh].pc = "prompt"

(***************************************************************************)
(* Nothing in the queue waits on anything but the job ahead (writer.rs):   *)
(* what was deferred is written, and who settles comes back.               *)
(***************************************************************************)
QueueDrains == EveryOutcomeIsRecorded /\ SettleReturns
=============================================================================
