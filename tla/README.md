# Verification of oslo

TLA+ models of oslo, the TLC runs that check them on small instances, and TLAPS proofs of what
holds for every instance. Paths are relative to the repository; `track/` is
`crates/oslo-base/src/track/`, `startup/` is `crates/oslo-runtime/src/startup/`.

oslo is an interactive shell. Most of it is sequential text processing that its own tests reach well.
What tests reach badly is the state it shares: one history database written by several shells, each
with two threads, and by `oslo history`; copies of that database merged between machines whose shells
go on typing; a process with threads that forks for every subshell. Those parts are modelled first.

## 1. Inventory

For each part: the state it keeps, what it does, what is hard, and what makes it correct.

**Stamped records** (`track/stamp.rs`; used by history, macros and secrets). A record carries a
revision, a tombstone flag and a random tie-breaker. `advance`, `bury`, `roll` author a copy;
`wins_over` and `settle` compare two. *Hard:* two machines changing one record from the same revision;
the same pair merged in opposite roles; the last revision. *Correct when* equal stamps are equal
copies, and a copy is only ever given up for one that wins.

**History store** (`track/log.rs`, `outcome.rs`, `sync.rs`, `sync/projection.rs`, `sync/admin.rs`,
`write.rs`, `entered.rs`, `history.rs`, `kv/mod.rs`). Six tables in one file: log rows by local id,
outcomes by local id, events by global id, the local-id-to-event index, projections (what of an event
has been applied here), and run counts. Every operation is one transaction, or several. *Hard:* ids
held across transactions; a completion, a rewrite and a deletion of one event in any order; a
transaction refused as a whole. *Correct when* a row says what its live event says, an outcome is
that of its own command, deleted stays deleted, and counts cover the events that stand behind them.

**Prompt loop and history writer** (`startup/repl*.rs`, `startup/tracking*.rs`, `track/writer.rs`). A
line is appended before it runs; everything else (boundary, outcome, rewrite, removal, trim) is a job
of a writer thread. *Hard:* the jobs of several shells interleave; `history -c` and the exit wait for
the own queue only; trim is four transactions; a killed shell loses its queue. *Correct when* what a
command did reaches its event, and whoever waits for the queue gets past it.

**Profile sync and import** (`track/sync/admin.rs`, `kv/mod.rs`, `src/cli/sync/`,
`src/cli/history/interchange.rs`). The far machine's database is copied, merged with the near one in
seven transactions, carried back and merged again; import writes exported events. *Hard:* both live
files change between the transactions; the session stops anywhere. *Correct when* a session that ends
has delivered, both ends agree when nobody typed, and an interrupted one has done no harm.

**Fork gate** (`crates/oslo-base/src/forksafe.rs`, `track/writer.rs`). `guarded` regions and
`quiesced` forks share one reader-writer lock; `OWNER` says whose writer thread `settle` waits for.
*Hard:* a fork while another thread holds a lock; a nested region behind a waiting fork; a child with
its parent's channel and no thread. *Correct when* a child inherits nothing locked, and forks, regions
and `settle` end in every process.

**Macros, secrets and their sync** (`macros.rs`, `macros/sync.rs`, `macros/snapshot.rs`, `secrets.rs`,
`secrets/sync.rs`, `startup/stored.rs`). Stamped records by name, put, removed and merged with another
machine's; a published snapshot that shells install and refresh from. *Hard:* nothing is locked between
reading a record and writing it; several commands publish through one scratch file; a shell reads
before it takes stamps. *Correct when* a merge leaves both ends with the union, an edit is not undone
by a record that loses to it, and shells come to have what is published.

**Universal variables** (`env/universal.rs`). One file, replaced by rename, and a snapshot per session.
*Hard:* edits of several sessions between read and rename. *Correct when* what is in the file is one
session's whole text and whoever looks has it.

**Prune sweep** (`track/prune/`, `track/history.rs`, `track/write.rs`). Directories under ids, runs under a
directory and a line, a twin for each run. *Hard:* a sweep is a series of transactions, and shells run
commands between any two; a shell caches its directory's id. *Correct when* no run is left without its
directory and no twin without its run.

**Job table** (`exec/job/`, `env/builtins/jobs/`). Jobs, the children each expects, remembered statuses, a
count of live children, current and previous job. *Hard:* children stop, continue and end in any order,
and whoever asks the kernel first gets the only answer. *Correct when* what `wait`, `fg` and `$?` say is
what the child said, and no child stays a zombie.

**Scratch sessions** (`crates/oslo-shell/src/scratch/`). A keeper that holds a pty, a lock, a socket and a
meta file by name, terminals that come and go. *Hard:* nothing but files says who is who, and everybody
may die between two calls. *Correct when* a live keeper's name leads to it and every terminal is served
or comes back.

**Directory environments** (`crates/oslo-shell/src/direnv/`, `startup/environments/`). What a `.env.lua` did,
as the differences to undo; stamps of the files that apply; a record handed to children. *Hard:* the file
is edited while it runs; it is denied, edited or half failed when it is to be undone; a child inherits
half of what is to be undone. *Correct when* leaving restores and an edit is noticed.

**File watching** (`crates/oslo-shell/src/watch/`). Installed watches, the kernel's bounded queue, a
debounce deadline, one child. *Hard:* files and directories made while watches are being installed;
a dropped event; a change while the command runs. *Correct when* a change nothing follows is seen by a run.

**Idle prompt** (`crates/oslo-base/src/background.rs`, `crates/oslo-ui/src/term/input/idle.rs`,
`edit/session/frame.rs`, `prompt/hold.rs`, `lua/api/spawn.rs`, `timer.rs`, `live/queued.rs`,
`startup/servicing.rs`, `follow.rs`). Workers
and peers leave a result or a directory and write a byte to a pipe; the editor's blocking wait, its timed one, a browser's
pump, `job:wait` and `oslo.settle` empty the pipes and look. *Hard:* callbacks run inside deliveries and wait for what
those hold; one pipe's byte is emptied by who looks at another's matter; a move taken and put back while a newer
one comes. only the blocking wait knows of the
nearest alarm, and an idle hook or a prompt that moves keeps the editor out of it. *Correct when* nobody has to touch
the prompt for news to arrive, a callback runs once or never, and the
shell ends where it was last told to go.

**Not modelled** (each with its files and reason in `PROJECT.json`):

| part | state and operations | why not |
|---|---|---|
| The rest of the live control socket (`lua/api/live.rs`, `live/server.rs`) | bound socket, accept loop, connection threads, the sweep of dead sockets | next in the plan |
| Scratch daemon (`scratch/daemon.rs`) | a process between terminals and keepers | next in the plan; hazard at `daemon.rs:133` |
| Pipelines (`exec/pipeline/`) | pipe ends, process groups | after the above; what becomes of the children is in `JobTable` |
| nix-shell environment cache | one file, its freshness | one reader and writer; after the above |
| Nested-shell identity and profiles, ranking, redaction | chosen once; pure functions over rows | nothing interleaves |
| Lua runtime, lexer, parser, expansion, scopes, builtins, structured data, line editor, maths, command line | sequential text processing, most of the code | large and pure, and reached by the repository's own tests |

The part of the code the models reach is small in lines for that last reason: what several processes do to
shared files and to each other is a small share of a shell.

## 2. Modules

    Stamp ─┬─ StampedReplicas
           │       ▲ implemented by
           ├─ HistoryStore ─┬─ HistoryLog ── MCHistoryLog
           │                └─ HistorySync ── MCHistorySync
           └─ NamedStores
    Replacement ─┬─ Universal
                 └─ MacroFiles
    DirEnv   ForkGate   Scratch   Watch   JobTable   Prune   Background ── MCBackground

    MCTables    = StampedReplicas | JobTable | Prune
    MCProcesses = ForkGate | Scratch | Watch
    MCStores    = MCHistorySync | NamedStores | Universal | MacroFiles | DirEnv

The last three put parts that share no state side by side in one run: a variable `part`, chosen in the
initial state, says which of them moves, so that the states of the parts add up and do not multiply.

The proofs are in eight modules beside these:

| module | proves about |
|---|---|
| `StampProofs` | `Stamp`: the lemmas on stamps that most of the others use |
| `TablesProofs` | `StampedReplicas`, `Prune`, `JobTable` |
| `StoresProofs` | `NamedStores`, `DirEnv`, `Replacement`, `Universal`, `MacroFiles` |
| `ProcessesProofs` | `ForkGate`, `Scratch`, `Background` |
| `HistoryStoreProofs` | `HistoryStore`: one lemma for each transaction |
| `HistoryLogProofs`, then `HistoryRowsProofs` | `HistoryLog` |
| `HistorySyncProofs` | `HistorySync`, and that it implements `StampedReplicas` |

- **Stamp**: the stamp, its order, and merging two copies (`stamp.rs`).
- **StampedReplicas**: the abstract specification. Replicas `Author` copies and `Take` copies somebody
  wrote where they win; nothing is said about files, sessions or transactions.
- **HistoryStore**: the database as one record of six functions, and every transaction as an operator
  from a store to a store, or to `None` where the code discards it. Tie-breakers come in as an
  argument, one per event, so that the caller chooses them.
- **HistoryLog**: several shells on one store. `Enter`, `Count`, `Finish`, `Refuse` are the prompt
  loop; `RunBoundary`, `RunAlsoRan`, `RunForgetEntered`, `RunOnRow` the writer's jobs, one transaction
  each; `ReadDoomed` … `SweepRows` the steps of a trim; `BeginClear`, `ClearRows`, `ClearRuns` are
  `history -c`; `ForgetLine`, `ReadForgotten`, `ForgetLog` the finder's Delete key; `CliRead`,
  `CliDelete` are `oslo history delete`; `Crash` kills a shell and its queue.
- **HistorySync**: two machines, a store each. `Enter`, `Finish`, `Rewrite`, `Delete`, `Retire` are
  what a shell does there, whole; `Begin`, `Read`, `Keep`, `Win`, `Overwrite`, `Back`, `Forth`,
  `Apply`, `End` are the transactions of a session in the order of `sync_files` and `apply_winners`;
  `Abort` cuts it off; `ImportRead`, `ImportWrite` are `import_events`. Its instance
  `Replicas == INSTANCE StampedReplicas WITH ...` is the refinement mapping: the event table of each
  machine is a replica, a line and its outcome the body of a record.
- **ForkGate**: processes, their threads, the gate, the locks and the writer's queue. `Enter`, `Pass`,
  `Nest`, `Acquire`, `Unlock`, `LeaveInner`, `Leave` are `guarded` around a lock; `WantFork`,
  `TakeGate`, `Fork`, `ForkFails` are `quiesced`; `Defer`, `Settle`, `Answer` are `writer.rs`.

- **NamedStores**: one name of a macro or secret store on several machines. `BeginEdit`, `FinishEdit` are
  any put or remove, cut between its read and its write; `Ask`, `ReadNear`, `WriteNear`, `ReadFar`,
  `WriteFar`, `Leave` a merge, cut at each read and write, and what the far end hands back.
- **Replacement**: a file replaced by a scratch file and a rename, with the files behind the names, so that
  two writers of one scratch name write into each other's. **Universal** and **MacroFiles** are built on it,
  a system call a step: the former `ReadForEdit`, `CreateTemporary`, `WriteTemporary`, `RenameTemporary`,
  `MoveSnapshot` of `set -U` and `Look` of a prompt; the latter `StoreMacro`, `ReadEntries` and the write of
  a publish, `Install`, `InstallStamps`, `Refresh`, `Rebuild` of a shell.
- **Prune**: `Prime`, `WriteStep` are a shell that arrives and executes; `ReadStale` … `ForgetDirectory` the
  transactions of a sweep, `ForgetTyped`, `DropSpan`, `ClearRuns` the commands that take rows too,
  `WriteFails` a refused one.
- **JobTable**: `Ends`, `Stops`, `Continues` are the children's; `Boundary`, `Reap`, `AnnounceChanges` what
  comes before each command; `SpawnBackground`, `RunPipeline`, `AdoptStray`, `Bg`, `Fg`, `Disown`, `Jobs`,
  `WaitPid`, `WaitJob`, `WaitEverything`, `WaitAny` the commands, and the `Wait…` steps what blocks in them.
- **Scratch**: `Visit` … `ReadEnd` are a terminal, `Hold`, `WriteMeta`, `Bind`, `Accept`, `ShellExits`,
  `KeeperSweeps` a keeper, `Tidy` … `Sweep` somebody who lists or kills, `Crash` the end of a keeper anywhere.
- **DirEnv**: `EachPrompt`, `Reload`, `TakeSnapshot`, `RunFile`, `FinishLoad` are a shell's way to the
  environment of where it stands; `ChangeDirectory`, `SetByHand`, `Allow`, `Deny`, `PruneTokens`,
  `RequestReload`, `Spawn` what is typed; `WriteFile` anybody's edit. `ownNames` follows what the names would
  be had no file ever run.
- **Watch**: `Write`, `Unlink`, `MakeDir`, `RemoveDir`, `MoveAway` are other processes, between any two of the
  worker's calls; `Install` and `Scan` the tasks of a rebuild, `TakeSignal`, `Reap`, `Start`, `Deadline`,
  `Poll`, `ReadEvents`, `Ended` the worker's turn.
- **Background**: `JobEnds`, `JobNudges`, `AlarmComesDue`, `PeerAsks` … `PeerReleases` are workers, the clock and
  peers; `Wakes` (the blocking wait), `WakesInTime` and `IdleTimeout` (the timed one), `KeyPressed`, `CommandEnds`, `Pump`,
  `ReadMark` what starts a turn of the shell's thread; `FrameWait` is what a frame's wait may be, and `NothingMoves` is a
  timed wait that gives way to the blocking one; `FireDue`, `Ring`, `Deliver`, `Call`, `Wait`, `SettleAll`,
  `Follow`, `Move`, `LuaDoes` are what happens in a turn.
  What the thread has still to do is a sequence, the innermost call first, since all Lua runs inside one another there.

Definitions beside a `Mutant` comment are plausible mistakes; each is used to see that a property
notices it, and none is reached by the specifications.

### Abstractions

- A line is one of a few values; `Blank` is what a tombstone has in its place. `Unparsed` is the
  outcome of a line that never was a command.
- Directories are names: their rows, dwell times, visit counts, segments and the database's directory
  ids are left out. `settle_entered` then changes nothing that is kept and has no action.
- `RevisionLimit` stands for the last `u64` revision. Reaching it refuses the change, as `checked_add` does.
- Tie-breakers are drawn from `Tie`. `StampedReplicas` and `HistorySync` let no two edits of a record
  draw one stamp (`roll` draws 128 bits); in the runs of `HistoryLog` there is one machine, no copy is
  compared with another's, and one value is enough.
- A deletion in chunks of 256 rows is one transaction, and so are the read and the write of
  `delete_span`; all instances have fewer rows than a chunk.
- A hidden line (leading space, or a hook's veto) writes nothing and has no action.
- `HistorySync` merges event tables only: the rest of the copied file is thrown away unread. `sync_files`
  orders its two files by path, so which comes first is chosen at each end. Import takes one event at
  a time. ssh, framing and `history backup` are left out.
- `ForkGate` gives each region one lock. A thread's program counter and depth do not come along in a
  fork, memory does. A process that ends is not reused. Only the shell thread forks, and never from inside
  a region: `quiesced` would let that fork through ungated (a debug assertion), and nothing in the shell does it.
- The one-time migration of a database from before events is left out.
- `NamedStores` follows one name (names are merged one by one) and starts with stamped records. Encryption
  and the formats of files are left out.
- In `Universal` and `MacroFiles` a stamp (inode, length, time) is only ever compared with that of the file in
  place, so a bit says whether it is still that; two files never share one. In `DirEnv` a stamp is the number
  of the write that made the file, where the code has its time and length: an edit that keeps both is not seen.
- `DirEnv` leaves out the Lua callbacks of a prompt and of leaving, `watch_file`, read-only names and arrays.
- `Prune` has two ages, young and old, and a chunk of a deletion is one row.
- `JobTable` gives no pid twice. Terminal modes, and orphans reaped as PID 1, are left out.
- `Scratch` opens and locks a file in one step and removes and binds a socket in one; messages are not cut
  into bytes; the daemon is left out.
- `Watch`: the pattern is everything called x below the root, and a directory has at most one such file.
  Symbolic links, hidden names, refused watches and grandchildren are left out.
- `Background`: what Lua may do where is a parameter; each run of a Lua function does one of those things or none. Time is
  that a set alarm may come due. What makes a wait a timed one (an idle hook, an outstanding answer, a segment that
  moves) is not told apart: every frame that follows a key or a repaint may begin with either wait. `job:wait`
  with a time limit may give up at any moment. A directory that is gone when the shell would move there, and a `cd` typed meanwhile, are left out; so are the children and macros looked at on a wake.

## 3. What is checked

Twelve runs. `Doing` and its kin name the optional operations of an instance: the interesting ones meet in
twos and threes, and all at once would not finish; `HistorySync` and `DirEnv` choose among several such sets in the
initial state. Between them the passing runs take every action but one, `MoveAway` of `Watch` (section 5).

| run | instance | question |
|---|---|---|
| `two_shells` | 2 shells, 3 events, kills, refusals, a rule that keeps another line | does each outcome reach its own row, and do the counts add up? |
| `deletions` | 2 shells, 2 events, `history -c`, Delete key, `oslo history delete` | does a deletion stand against what is queued? |
| `one_shell` | 1 shell, 2 events, $HISTSIZE 1, rules, clear, trim; fair | is a line only lost on purpose, and does everything queued get done? |
| `background` | 2 jobs, 2 alarms, 3 requests of a peer, 3 keys, five choices of what Lua does, both waits of the editor; fair | does news arrive, and only once, whoever empties the pipes? |
| `session` | 2 machines, 2 events; deletions and cut-offs, or rewrites and trims, or imports | does a session deliver, and is each step an edit or a take? |
| `processes` | *gate:* 2 processes, 3 threads, regions nested twice; *scratch:* 2 keepers, 2 terminals, `--kill`, a keeper killed; *watch:* 3 directories, a queue of 2, both policies; fair | who waits for whom, and does everybody get on? |
| `tables` | *stamps:* 2 replicas, 1 record, 2 revisions, 1-bit tie; *jobs:* 3 children, 2 jobs, 1 remembered status; *runs:* 1 path, 2 lines, 2 ids, 1 shell, 1 sweep; fair | do tables stay true that several actors write without waiting? |
| `stores` | *history:* 2 machines, 1 event, 3 revisions, 1-bit tie; *named:* 2 holders, 2 editors, 3 edits; *universal:* 2 windows; *macros:* 2 publishers, 1 reader; *directories:* a shell and a child, 2 nested directories, 2 texts, 2 writes | what do the owners of a shared file come to believe? |
| `import_race`, `row_reuse`, `universal`, `waits` | smallest instance | four statements of the code that it does not keep (section 5) |

The bounds are the smallest at which the cases meet. Two shells are all that any of the races needs,
since each is one actor's step between two of another's; with three events a row id can be given out,
freed and given out again while a third line runs; `MaxRows = 1` makes every append overflow
`$HISTSIZE`; three revisions are a birth, a change on each side, and the refusal at the limit; a 1-bit
tie makes equal and unequal draws both happen. Two machines are a session. In the gate the child
takes it and forks as the parent does (its fork fails for want of a process).
A scratch name has two keepers, so that one may sweep what the other holds. Three children are a pipeline of
two beside a stray one or a second job, and one remembered status makes a second push the first out; both
bounds on jobs and on orphans are named in `MCTables`. Two ids are a directory that is forgotten and comes
back. A queue of two events overflows with the third, and one directory made, removed or written while the
others are being installed is what each gap of a rebuild can miss. Two jobs are one in the hand of a delivery while
another's callback runs; two requests of a peer are one put back over the other, and the third comes after. Two writes of a file are an edit while it
runs and one after. The proofs cover any number of each.

`HistoryLog`, `HistorySync`, `Background`, `NamedStores`, `MacroFiles`, `DirEnv`, `JobTable` and `Prune` stop when events, edits, writes,
pids or ids are used up, so `tables`, `stores` and the runs of the history do not check for deadlock;
`processes` and `universal` do. Shells, machines, holders and editors are interchangeable
(`SYMMETRY`) in the runs that have several and check no liveness.

**Safety.** Per module one type invariant at most. `LogInv` adds that the rows' index leads to an event and
its projection, which the transactions look up, and is the invariant of the proofs; `SyncInv` is the types, `SameStampSameEvent`
and `RowsSayTheirEvents`; `JobInv` the types, the agreement of the table with the kernel, and `NothingUncounted`: a
child that could be reaped is in the count by which the reaper decides whether to ask.

- History: `OutcomeIsOwn`, `NoOrphanOutcome`, `NothingPending`, `RunsCoverContributions`, `RowsSayTheirEvents`,
  `NothingLost` relate rows, events, outcomes, projections and counts; `StampOnlyRises`, `DeletedStays`,
  `HiddenStays` say what no step may do; `SessionDelivers`, `SessionConverges` speak of a whole session.
  `ImplementsReplicas` is the refinement: every step of `HistorySync` is an `Author`, a `Take` or a stutter.
- Stores: `SameStampSameRecord`, `SessionLeavesUnion`, `EditsStick` (NamedStores); `LookersSee` (a window that never
  listed has what is stored when it thinks so) and `EveryWriteIsWhole` (Universal); `ShellsFollow`, of commands one at
  a time (MacroFiles); `LeavingRestores`, `EditsAreNoticed` (DirEnv); `NothingDangles`, except
  for the runs the code itself gives up, which `caught` names (Prune).
- Processes: `GateInv`, `NothingOrphaned`; `NameLeadsHome`; `OnExitRunsOnce`, `LastWordHolds` (Background); `StatusesAgree` (the shell has a status exactly
  as long as nobody was told of it) and `WaitTellsTheTruth`.

**Liveness**, each under weak fairness of what is a thread or process of the operating system and blocks on
nothing else; nobody is made to type, except where a formula says so.

- `QueueDrains` (HistoryLog; what a command did is recorded, and an exit or a clear gets past the queue): each shell's prompt thread in what it goes on with by
  itself, and its writer thread. No command is made to end.
- `ForkHappens`, `RegionsEnd`, `SettleReturns` (ForkGate): each thread inside a region, a fork that waits, and the
  writer. Weak fairness of a lock is enough because detached threads have one region each and the writer has
  no job nobody queued. The gate is taken to prefer a waiting writer, as the comment in `guarded` does.
- `NewsArrives` (Background): the shell's thread in what it goes on with by itself, workers between their result and
  their byte, a peer's thread; a command ends, and so does a job somebody waits for. Nobody types, no job ends unwaited
  and no alarm comes due by fairness, and nothing makes the editor leave its timed wait, in which only a byte is fair to
  wake it. So an alarm that is due rings unless the editor is or comes to be in that wait, each time anew, and rings
  after a command in any case. What a wait in Lua took the byte of (`lost`) is left out too, see section 5.
- `ServedOrBack` (Scratch): a terminal's reading and a keeper's accepting and hearing of an end; a terminal whose keeper
  is killed hears the end of the stream from the kernel. Like `NameLeadsHome` it claims nothing once a list or a
  kill has acted on an answer grown old and swept the files of a scratch that runs (`disturbed`).
- `EveryChildIsBuried` (JobTable): the shell goes through its prompt and is given commands (`[]<>Ready` is the
  premise). No child is made to end: a command that waits for one is only fair once it can return.
- `ChangesAreRun` (Watch): the worker is scheduled, time passes, and under the policy `coalesce`, which waits
  for its command, the command ends. Under `restart` it need not.

## 4. What is proved

Each theorem holds for every value of the constants, from the assumptions the modules name, and from nothing
else unless a hypothesis is given with it. Where an invariant that a run checks is not inductive, the section
says what was missing.

### Stamps and replicas (`StampProofs`, `TablesProofs`)

From `StampAssumption` and `NoneAssumption`: `WinsOver` is a total order on stamps, authoring moves a copy up in
it, and `Merged` is the copy that wins.

- `MergeAgreesAtBothEnds`: merging two copies gives the same copy whichever end does it.
- `Invariance`, then `TypeCorrect`, `AgreementHolds` and `OnlyRisesHolds`. `Agreement` alone is not
  inductive: a machine may take a copy that no machine holds any more. The invariant adds that every
  copy held was written by somebody and that among all copies ever written a stamp names one; authoring
  keeps the second because it draws a fresh stamp, taking keeps both because it takes only what was written.

### The history of one machine (`HistoryStoreProofs`, `HistoryLogProofs`, `HistoryRowsProofs`)

For every set of shells, lines, directories and statuses, every number of events and every choice of rules and
operations, from `StampAssumption`, `HistoryAssumption`, `NothingAssumption` and `LogAssumption`.

- Each transaction has one lemma, in terms of `Keeps`: from a sound store (well formed, every row's index
  leading to an event and its projection) it makes a sound store in which each event is the one it was or
  a copy that wins over it, a tombstone only by a tombstone. `OneEventKeeps` is the case of a completion
  and of a rewrite, `BuryKeeps` that of every deletion; the rest touch no event.
- `LogInvHolds`: `LogInv` is inductive. `TypeOK` alone is not: a completion looks its event's projection
  up, and what a shell queues is a job only if the shell with a line under way knows the line's row,
  event and text. The jobs a finished command queues are shown to be jobs for any list of lines a rule
  keeps (`JobsQueued`), and the newest of some rows to be one of them without induction, from the
  well-foundedness of finite sets (`NewestIsOne`).
- `StampOnlyRisesHolds` and `DeletedStaysHolds`: a step of the system is one transaction or none, so both
  are `Keeps` read off at every step. They cover trims, kills and `oslo history` together, which
  no run does at once.
- `RowsSayTheirEventsHolds`: a row says what its event says once the event is applied. It needs that two rows
  never lead to one event.
- `NothingLostHolds`, under `TrimAlone`: nobody trims, or several shells trim and delete in no other way, or one shell
  trims, clears and refuses. With another deletion in the middle of a trim it is false (section 5: a threshold that was read
  is kept while ids start over).
- `OutcomeIsOwnHolds`, `NoOrphanOutcomeHolds`, `NothingPendingHolds`, under `RowsGoByRule`: a row goes by a rule
  on lines only, not by a trim, a clear, the Delete key or `oslo history`. Each of these can take a row whose
  outcome a shell has still queued, and the outcome is then written without it (section 5), or, once the id is
  given out again, beside another command's row. The invariant says of every job that is queued, and of every line under way,
  that the row it names is still that command's, and that a row in somebody's hand is nobody else's.
- `RunsCoverContributionsHolds`, under `RunsByRule` (no deletion but by a rule or by a kill, and every line is a
  command) and `NobodyMoves` (every shell stays in the directory it is in). A count and a claim are made in different
  steps of different threads: Enter counts before there is anything to claim, a boundary claims on finding a count,
  whoever's that is, and a refused line takes its count back after its event may be gone. The invariant keeps books
  (`LedgerInv`): what is claimed, and what is queued or under way and will claim or take back, is together no more than
  what is counted, each queued job stands for an event and each event for one claim. One lemma for each action
  says that it pays for what it takes. Seven weaker hypotheses were tried on TLC, and each has a counterexample: a
  shell that changes directory, a handler that runs another line than was typed, `history -c` with two
  shells, the Delete key, trims, `oslo history delete` beside a refusal, and a line that never was a command.

### Sync and import (`HistorySyncProofs`)

For every number of machines, events, lines and revisions and every choice of operations, from
`StampAssumption`, `HistoryAssumption`, `NothingAssumption` and `ReplicasAssumption`.

- `SyncTypeCorrect` and `SameStampSameEventHolds`, from `SyncIInv`: the types; who a session is between (`Seated`);
  that every store is well formed (`Fits`); that every copy a machine, the travelling file, the winners of a session or
  an import holds was written by somebody (`Held`); that a stamp names one event among all ever written
  (`StampNamesEvent`); and that a copy not deleted has a line to say (`CopiesWorded`). `SameStampSameEvent`
  speaks of the machines and the file that travels, not of what a session or an import has in hand and writes next.
- `StampOnlyRisesHolds` and `SyncImplementsReplicas`, under `ImportsInTime`: an import writes only a copy that
  still wins. The hypothesis is about the one step the code leaves unguarded, and the run `import_race` shows that
  it is needed. Initial states map to initial states; `Enter`, `Finish`, `Rewrite`, `Delete` map to `Author`; a
  put of a session and an import to `Take`, once for each event that changes; every other step to none.
  Merging into a live file is a fold over events: `ApplyUpTo` and `UpToAll` prove by well-foundedness what it does
  to each, from the lemma on one, `ApplyEvent`.
- `SessionDeliversHolds`, under `ImportsInTime`, from `Carries`: what of either end has arrived where,
  for each step and whichever file is merged first.
- `SessionConvergesHolds`, without a hypothesis (a session nobody types beside meets no import), from
  `Settles`: while both ends are quiet, the half of the session done so far has made both files one.
- `HiddenStaysHolds`, `NothingIsLost` and, under `ImportsInTime`, `SyncInvHolds`, all under `RowsAreOwn`: no row id has been
  given to two events. This is what the code would have to guarantee; `row_reuse` shows `NothingLost` failing without it. An
  id comes to be shared when the newest row was taken away before the next was written, or when an event that
  is withheld is numbered though no row is written for it. `RowsAreOwnHolds` shows that the hypothesis is met where nothing is
  deleted or trimmed; in `stores` it is met because there is one event.
  None of the three is inductive. `Rowed`, `Turns` and `Steady` have the index of rows and the projections lead to each
  other, also for what a session or an import has in hand. `HonestIInv` is about a completion, which sets the
  projection to the event's new stamp without looking whether the copy before it was applied: the only copy of a running
  command's event that can come in and win is a tombstone, so that the row left standing says what the event says.

### Pruning (`TablesProofs`)

For every number of paths, lines, ids, runs and sweeps, from `PruneAssumption`, which says that no row is the
value for nowhere. `NothingDanglesHolds`, from `PruneInv`. `NothingDangles` does not say why a sweep may go on: a chunk
of rows may go because their twins are gone, and a directory because its rows are. The invariant says place by place
what is gone already, but for what was caught (`Orderly`): the twins of the rows behind the sweep, then the rows, and
for a directory also the twins of the rows it was not read to have.

### The job table (`TablesProofs`)

For every number of children and of jobs and every limit on what is remembered, from `JobAssumption`: `JobIInvHolds`,
then `JobInvHolds`, `StatusesAgreeHolds` and `WaitTellsTheTruthHolds`, with one lemma for each operation of
the table and one for each action. Neither `NothingUncounted` nor `StatusesAgree` is inductive. The count goes down
by one whenever the kernel tells of an end, so that it stays ahead only if whoever ends was expected, once. The
invariant has three parts.

- `TableSound`: the table by itself. A process is a stage of one job at most and never disowned as well;
  an ended job has the status of one of its stages, or had several; the numbers `%%` and `%-` are of jobs;
  whoever can be reaped is counted; a process has one remembered status at most, its own.
- `KernelAgrees`: whoever lives or is a zombie is expected by a job, disowned, or a stage of the pipeline in the
  foreground, which no job knows yet; a status is remembered exactly while nobody was told of it. A
  process that is gone and still expected, since a pipeline took its end and then stopped, had company: that
  is why the reaper, told that there is no such child, may end the job with no status to its name without `wait`
  answering for one process with another's.
- `PlaceSound`: what holds where the shell is. Whom the reaper has still to ask about can be asked about; the stages
  that are done with are gone, or one stopped; what `wait` has in hand is the status of the one it has in hand.

The loop that removes jobs is a recursive function on their numbers; `RetiredUpToIs` shows that it is one, and
`UpToAllJobs` that what each removal keeps the loop keeps, again from the well-foundedness of finite sets.

### Stores (`StoresProofs`)

- `NamedStores`, for every set of machines, editors and texts, from `StampAssumption`, `NoneAssumption`,
  `NamedAssumption`, `NoRecordAssumption`: `NamedInvariant`, of which `StampsNameRecords`, `UnionIsLeft` and
  `EditsStickHolds` are read off. An
  edit and a merge write what they read some steps ago, so the invariant says of every record held, in an editor's
  hand or on the way that an edit drew it; and of a merge, place by place, where each record it began with stands
  (`StandsSomewhere`), that no store has gone back behind what was read of it (`ReadStands`), and, with nobody editing,
  that what is in hand is what is stored (`QuietAgrees`).
- `DirEnv`, for every number of shells, directories, names, texts and edits, from `DirEnvAssumption`:
  `DirEnvInvHolds`, then `LeavingRestoresHolds` and `EditsAreNoticedHolds`. `LeavingRestores` speaks of a shell that has
  nothing loaded, and `EditsAreNoticed` of one that would do nothing. The invariant says of every shell that taking
  back what is on record would leave its own names (`Restorable`) and of every stamp that it is that of the text that
  ran or of none any more (`Noticed`), also half way through a load and of a record a child is handed.
- `Universal`, for every finite set of sessions, from `WindowAssumption`, `AbsentAssumption` and `NameAssumption`:
  `LookersSeeHolds` and `EveryWriteIsWholeHolds`. A session's text is whole when it is written because its scratch file is
  its own: no two names are of one file, and a file half written is of the session that made it (`WritesApart`).
  A session that only looks has in its variables what it read last, which is what the file says while its stamp
  is that of the file (`Looks`). That a text can be read back at all, so that equal texts are equal tables, is
  proved from the finiteness of the set of names.
- `MacroFiles`, for every finite set of publishers, from `PublisherAssumption` and the same two: `ShellsFollowHolds`.
  As long as commands came one at a time, at most one is under way and what it publishes is the
  database (`OneAtATime`); what a shell holds is the snapshot in place while its stamp is (`ReadersHold`).

### Processes (`ProcessesProofs`)

- `ForkGate`, for every set of processes, detached threads and locks, and every depth and queue bound, from
  `ForkAssumption`. `GateHolds`: `GateInv` is inductive, one lemma for each action. It says that the gate's holders are
  the threads whose places say so, that a fork under way means no region is open, that a thread which
  did not come along is nowhere, and that a lock is held only inside a region about it. The step that
  needs all of it is `Fork`: the gate shut means no reader, no reader means no thread in a region, no thread
  in a region means no lock held, so the copy is of a process with nothing locked. `NothingOrphanedHolds` follows
  from it at once. Alone it is not inductive, since it does not say that a held lock keeps the gate open for reading.
- `Scratch`, for every number of keepers and terminals, from `ScratchAssumption`: `ScratchInvariant`, then
  `RunningIsReachable`. `NameLeadsHome` speaks of keepers that serve and is not inductive: the invariant has every
  keeper hold the lock of the name from before it writes its first file until it has swept the last, which
  is why nobody who asks in between believes it gone.
- `Background`, for every number of jobs, alarms and directories and every choice of what Lua may do where, from
  `BackgroundAssumption`: `BackgroundInvHolds`, then `OnExitRunsOnceHolds` and `LastWordHoldsAlways`. A result goes from
  the worker to the list, to a delivery's hand, to a call, and callbacks that wait or settle deliver others in between:
  `Counted` says that a callback somebody asked for is waiting, cancelled or called, and called once. `MovesFirst` says
  that a move is the first thing the thread has to do or none of them, and goes where the shell was last told
  to, unless something newer waits in the slot.

### What is only model-checked, and why

- No safety invariant or action property of a passing run. What the hypotheses of the theorems leave out (`RunsByRule`,
  `NobodyMoves`, `RowsAreOwn`, `ImportsInTime` and their kin) is where the
  code breaks the property, as far as it was tried, and no run asks for it there.
- `Watch` has one property, and it is one of liveness.
- All liveness, here and elsewhere: temporal reasoning under fairness is beyond the prover. So is induction over data:
  where a loop is proved about, it is a function on numbers or a finite set that shrinks.

## 5. Where the code and its words differ

Each of these runs checks one property that a comment states, and TLC shows the code leaving it.

- `import_race`: `import_events` (`track/sync/admin.rs:112`, `:147`) compares outside the transaction
  that writes, so an edit in between is replaced by the older copy.
- `universal`: `all()` (`env/universal.rs:108`), which lists, moves the snapshot without applying what it read, so
  that the next prompt finds nothing changed, against "Every other session picks it up at its next prompt"
  (`env/builtins/variables/parameters.rs:127`).
- `row_reuse`: a projection keeps the row id of a row that is gone; a winning tombstone applied later
  removes whatever row has that id now (`track/sync/projection.rs:234`).
- `waits`: a delivery takes every result and strikes jobs off one by one (`lua/api/spawn.rs:260`, `:266`). A callback that
  waits for a job of the same delivery is told that it is live (`spawn/settle.rs:69`) and blocks for ever on a result
  that the delivery beneath it holds, against `docs/features/timers.md:101`. With no wait in a callback every wait returns.

The bounds and operations of the passing runs are chosen around these and those below, so that what else holds can be
seen: `two_shells` has no clear; `deletions` does not ask for `OutcomeIsOwn`; in `stores` an
import meets one event, hence no second owner of a row; in `session` an import and a session are alternatives;
`LookersSee` is about windows that do not list.

Further differences were met while modelling and have no run of their own. A property that would meet one is worded
around it, and its comment or a note in `PROJECT.json` says how.

*History.* `next_id` is one above the newest row (`track/log.rs:418`): after `history -c` in one shell the ids start over, and
an outcome another shell queued under an old id lands on the new row's event, which is what is behind `row_reuse` too.
`complete_local` (`track/sync/projection.rs:45`) completes whatever event a row names: a command whose event is deleted
while it runs leaves its outcome in the tombstone, against "A tombstone carries no command" (`sync/admin.rs:59`). An outcome, and the
event that is synced, name the directory the boundary arrived in (`write.rs:122`), against "The directory it ran in"
(`outcome.rs:42`), while the run of the same step is counted where it began: a deletion that follows takes back a run of the
wrong directory, or none; hence `two_shells` has one directory. An outcome queued before another shell's trim is written after it and has no line (`outcome.rs:276`,
`:308`); hence `two_shells` does not trim. A trim that has read its threshold deletes by it after the ids have started
over (`log.rs:388`, `:336`); hence `NothingLost` is asked of one shell. Rows of another machine get ids above newer
rows of this one, though ids are called "chronological" (`sync/projection.rs:252`, `outcome.rs:150`).

*Prune.* A directory noted as missing is forgotten later though it is back (`track/prune/mod.rs:240`). Where a chunk of
twins is refused the chunk of rows still goes, and leaves a twin that names none. A run filed while its directory is
being forgotten stays without one.

*Macros and secrets.* Two commands share one scratch file, so that half a snapshot can be published, against "never half
of either" (`macros/snapshot.rs:51`, `:22`). A shell that starts takes the stamp after it read (`startup/stored.rs:54`),
and of two publishers the one that read earlier may rename later (`macros.rs:538`). That `advance` or `bury` did
nothing at the last revision is not looked at (`macros.rs:332`, `:491`; `secrets.rs:215`, `:268`). A merge
that fails to write skips the publish (`src/cli/sync/part.rs:188`).

*Universal variables.* The identity kept after a write is that of whatever is in place then (`env/universal.rs:157`).

*Jobs.* A pipeline resumed by `fg` that had ended in part can return 0 (`exec/job/resume.rs:112`). `%%` names nothing once
the two newest jobs are gone, though others are left.

*Scratch.* A terminal that connects as another leaves may be told that the shell ended (`scratch/client.rs:113`).

*Directory environments.* The Lua table of abbreviations is read whole and never emptied, so the next project
installs those of the last, against "must not carry anything across" (`startup/environments/mod.rs:48`,
`direnv/mod.rs:282`). Files of `watch_file` are stamped after the run (`direnv/mod.rs:391`), against "The files as they
were when they were read" (`:75`). Undoing a variable unsets it and sets it without the guard for read-only names
(`:321`). An alias another source changes meanwhile is put back on leaving. A file edited while its shell stands in
its directory is looked at again at the next `cd` or reload only.

*Idle prompt.* An alarm that comes due while the editor is in its timed wait does not ring. With an idle hook armed
(`edit/session/frame.rs:24`) or a prompt that moves, which asks for its next turn in every frame
(`prompt/animation.rs:88`), `next_input` goes from slice to slice of `waiting()`, which never asks `wait_ms()` and looks
at nothing when its time is over (`term/input/idle.rs:204`); the alarm rings when a byte comes, after the next
command, or once the prompt keeps still. Against "a timer set for five minutes fires in five minutes instead of
waiting for the next keystroke" (`docs/features/timers.md:45`) and "And at an idle prompt" (`lua/api/timer.rs:16`); of the
blocking wait both are true, and the comment that says "does not tick once a second. It ticks the next time you run
something" (`timer.rs:27`) is not. `NewsArrives` without its words about the timed wait is violated: a key sets
the alarm, the next wait is a timed one, the alarm comes due.
The comment above `follow()` says that a `cd` that cannot take the lock "has to be dropped rather than deferred"
(`startup/follow.rs:28`); the code, the comment in its body (`follow.rs:42`) and `queued.rs:23` put the request back to
be finished later, which is what `LastWordHolds` states and its mutant `MoveOrDrop` breaks.
`block_once` empties every pipe (`lua/api/spawn/settle.rs:144`) while only results are looked at after it: a
move accepted during a command that waits is not made "when the command ends" (`live/queued.rs:23`) but at the next
wake, and the result of a job that was not the one waited for stays until then. A move put back (`startup/follow.rs:50`)
overwrites a newer request, against "the last word is the answer" (`queued.rs:34`). An alarm that another handler of the
same turn stops rings once more (`timer.rs:137`). A relative directory of `cd` is resolved by the shell's process, though
it is said to be "relative to the *peer*" (`live.rs:294`).

*Watching.* A stop signal that arrives between `take_signal` (`watch/runner.rs:28`) and a wait without an end is seen at
the next event. A directory that was moved away stays in the set of installed watches, so that a new one of its
name is not watched, against "New directories below a recursive root are installed as they appear"
(`docs/features/watch.md`); hence `WatchDoing` has no `move`. Changes without a pause push the deadline on for ever,
and a deletion in a directory not yet watched goes unseen: `ChangesAreRun` is about writes that nothing follows.

## 6. Plan

The project keeps to a dozen runs; a later one replaces an earlier one that has told what it had to.

1. **LiveSocket** (`lua/api/live.rs`, `live/server.rs`): the accept loop and its connections, stop against serve, and the
   sweep, which may take a socket between another shell's bind and listen.
2. **ScratchDaemon** (`scratch/daemon.rs`): two clients that find no answer and both start one.
3. **More proofs.** `NothingDangles` and `RunsCoverContributions` are about one aggregate and two models of it: one module
   of runs and directories that both use would let the second be stated for shells that move.
   That `SessionLeavesUnion` of `NamedStores` is what `HistorySync` promises of a session, as a refinement of one
   specification of a merge.
4. **Pipelines** (`exec/pipeline/`): who closes which end, beside `JobTable`; then the nix-shell cache.
