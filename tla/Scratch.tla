------------------------------ MODULE Scratch ------------------------------
(***************************************************************************)
(* One scratch session by name (oslo-shell/src/scratch/): the keeper that  *)
(* holds its pty, the terminals that look at it, and somebody who lists or *)
(* kills it meanwhile.  Nothing but files says who is who: "liveness is a  *)
(* lock, not a pid", a terminal looks at it while it holds another, and a  *)
(* keeper is reached through a socket with a name.                         *)
(*                                                                         *)
(* A lock is a file's and not a name's: who has locked a file that is then *)
(* removed holds it still, and holds it against nobody.  Opening a file    *)
(* and locking it are one step here, and so are removing and binding the   *)
(* socket.                                                                 *)
(***************************************************************************)
EXTENDS Naturals, Sequences

CONSTANTS
  MaxKeeper,    \* how many keepers are forked
  MaxArriving,  \* how many connections wait to be accepted
  Terminal,     \* the terminals
  Tidier,       \* whoever runs `scratch --list` or `scratch --kill`
  Absent,       \* no one, and no file
  Closed,       \* a stream whose other end has been closed
  ScratchDoing  \* which of the optional operations happen in this instance

Keeper == 1 .. MaxKeeper
Prober == Terminal \cup {Tidier}

ScratchOptional == {"crash", "list", "kill"}

ASSUME ScratchAssumption ==
  /\ MaxKeeper \in Nat \ {0} /\ MaxArriving \in Nat \ {0} /\ ScratchDoing \subseteq ScratchOptional
  /\ Tidier \notin Terminal /\ Absent \notin Prober /\ Closed \notin Prober \cup {Absent}
  /\ \A k \in Keeper : k \notin Prober \cup {Absent, Closed}

VARIABLES
  files,      \* what the names alpha.lock, .attach, .sock and .meta lead to
  keeper,     \* the keepers: where each is, its client, who has connected, its shell
  visitor,    \* the terminals and the tidier
  disturbed   \* whether files were swept of a scratch that was running (history variable)

scratchVars == <<files, keeper, visitor, disturbed>>

KeeperPlace == {"unborn", "starting", "held", "written", "serving", "over", "swept", "dead"}
VisitorPlace == {"idle", "asking", "asked", "spawning", "spawned", "attaching", "connecting",
                 "on", "detached", "ended", "signalling", "waiting", "waited", "sweeping",
                 "unlocking", "done"}

ScratchTypeOK ==
  /\ files \in [lock : Keeper \cup Prober \cup {Absent}, attach : Terminal \cup {Absent},
                sock : Keeper \cup {Absent}, meta : Keeper \cup {Absent}]
  /\ keeper \in [Keeper -> [at : KeeperPlace, shell : BOOLEAN,
                            client : Terminal \cup {Absent, Closed},
                            arriving : Seq(Terminal \cup {Closed})]]
  /\ visitor \in [Prober -> [at : VisitorPlace, to : Keeper \cup {Absent}, left : 0 .. 2]]
  /\ disturbed \in BOOLEAN

ScratchInit ==
  /\ files = [lock |-> Absent, attach |-> Absent, sock |-> Absent, meta |-> Absent]
  /\ keeper = [k \in Keeper |-> [at |-> "unborn", shell |-> FALSE, client |-> Absent,
                                 arriving |-> <<>>]]
  /\ visitor = [v \in Prober |-> [at |-> "idle", to |-> Absent, left |-> 0]]
  /\ disturbed = FALSE

Visitor(v, place) == visitor[v].at = place
Goes(v, place) == visitor' = [visitor EXCEPT ![v].at = place]
Holding == {k \in Keeper : keeper[k].at \in {"held", "written", "serving", "over", "swept"}}

\* A lock let go, where the name still leads to it.
Free(file, who) == IF file = who THEN Absent ELSE file

-----------------------------------------------------------------------------
(***************************************************************************)
(* alive(): "the attempt is the question", and while it is being asked the *)
(* lock is taken.                                                          *)
(***************************************************************************)
TakeLock(v, from, held) ==
  /\ Visitor(v, from) /\ files.lock = Absent
  /\ files' = [files EXCEPT !.lock = v]
  /\ Goes(v, held)
  /\ UNCHANGED <<keeper, disturbed>>

GiveBack(v) == files' = [files EXCEPT !.lock = Free(@, v)]

Taken(v, from, to) ==
  /\ Visitor(v, from) /\ files.lock # Absent
  /\ Goes(v, to)
  /\ UNCHANGED <<files, keeper, disturbed>>

-----------------------------------------------------------------------------
(***************************************************************************)
(* A terminal (scratch/enter.rs visit): ensure, attach, connect, and stay. *)
(***************************************************************************)
Visit(t) ==
  /\ Visitor(t, "idle")
  /\ Goes(t, "asking")
  /\ UNCHANGED <<files, keeper, disturbed>>

\* ensure() asks, and spawn() asks again: taken by then, it is an error.
NotThere(t) ==
  /\ Visitor(t, "asked")
  /\ GiveBack(t) /\ Goes(t, "spawning")
  /\ UNCHANGED <<keeper, disturbed>>

Ensure(t) ==
  \/ TakeLock(t, "asking", "asked") \/ Taken(t, "asking", "attaching")
  \/ TakeLock(t, "spawning", "spawned") \/ Taken(t, "spawning", "idle")
  \/ NotThere(t)

Spawn(t, k) ==
  /\ Visitor(t, "spawned") /\ keeper[k].at = "unborn"
  /\ \A j \in Keeper : j < k => keeper[j].at # "unborn"
  /\ GiveBack(t) /\ Goes(t, "attaching")
  /\ keeper' = [keeper EXCEPT ![k].at = "starting"]
  /\ UNCHANGED disturbed

\* There is no process to be had.
SpawnFails(t) ==
  /\ Visitor(t, "spawned")
  /\ GiveBack(t) /\ Goes(t, "idle")
  /\ UNCHANGED <<keeper, disturbed>>

\* "alpha is open in another terminal", where the lock is somebody's.
Attach(t) ==
  /\ Visitor(t, "attaching")
  /\ IF files.attach = Absent
     THEN files' = [files EXCEPT !.attach = t] /\ Goes(t, "connecting")
     ELSE Goes(t, "idle") /\ UNCHANGED files
  /\ UNCHANGED <<keeper, disturbed>>

Listening(k) == k # Absent /\ keeper[k].at = "serving"

Connect(t) ==
  /\ Visitor(t, "connecting") /\ Listening(files.sock)
  /\ Len(keeper[files.sock].arriving) < MaxArriving
  /\ keeper' = [keeper EXCEPT ![files.sock].arriving = Append(@, t)]
  /\ visitor' = [visitor EXCEPT ![t].at = "on", ![t].to = files.sock]
  /\ UNCHANGED <<files, disturbed>>

\* Five seconds of nobody listening.
ConnectFails(t) ==
  /\ Visitor(t, "connecting") /\ ~ Listening(files.sock)
  /\ files' = [files EXCEPT !.attach = Free(@, t)]
  /\ Goes(t, "idle")
  /\ UNCHANGED <<keeper, disturbed>>

\* The keeper's end of t's stream is there.
Held(t) ==
  LET k == keeper[visitor[t].to] IN
  k.at = "serving" /\ (k.client = t \/ \E i \in DOMAIN k.arriving : k.arriving[i] = t)

\* The detach key: the socket is closed, and only then the lock let go.
Detach(t) ==
  /\ Visitor(t, "on")
  /\ LET close(s) == IF s = t THEN Closed ELSE s IN
     keeper' = [keeper EXCEPT
       ![visitor[t].to].client = close(@),
       ![visitor[t].to].arriving = [i \in DOMAIN @ |-> close(@[i])]]
  /\ Goes(t, "detached")
  /\ UNCHANGED <<files, disturbed>>

\* The keeper is gone, "which means the shell inside has".
ReadEnd(t) ==
  /\ Visitor(t, "on") /\ ~ Held(t)
  /\ Goes(t, "ended")
  /\ UNCHANGED <<files, keeper, disturbed>>

LetGo(t) ==
  /\ Visitor(t, "detached") \/ Visitor(t, "ended")
  /\ files' = [files EXCEPT !.attach = Free(@, t)]
  /\ visitor' = [visitor EXCEPT ![t].at = "idle", ![t].to = Absent]
  /\ UNCHANGED <<keeper, disturbed>>

-----------------------------------------------------------------------------
(***************************************************************************)
(* The keeper (scratch/keeper.rs).                                         *)
(***************************************************************************)
Step(k, from, to) == keeper[k].at = from /\ keeper' = [keeper EXCEPT ![k].at = to]

\* "Somebody won the race", if only to ask.
Hold(k) ==
  /\ keeper[k].at = "starting"
  /\ IF files.lock = Absent
     THEN /\ files' = [files EXCEPT !.lock = k]
          /\ keeper' = [keeper EXCEPT ![k].at = "held", ![k].shell = TRUE]
     ELSE Step(k, "starting", "dead") /\ UNCHANGED files
  /\ UNCHANGED <<visitor, disturbed>>

WriteMeta(k) ==
  /\ Step(k, "held", "written")
  /\ files' = [files EXCEPT !.meta = k]
  /\ UNCHANGED <<visitor, disturbed>>

Bind(k) ==
  /\ Step(k, "written", "serving")
  /\ files' = [files EXCEPT !.sock = k]
  /\ UNCHANGED <<visitor, disturbed>>

\* Mutant: who arrives while another is looking is left to wait.
AcceptWhenFree(k) ==
  /\ keeper[k].at = "serving" /\ keeper[k].arriving # <<>> /\ keeper[k].client = Absent
  /\ keeper' = [keeper EXCEPT ![k].client = Head(keeper[k].arriving), ![k].arriving = Tail(@)]
  /\ UNCHANGED <<files, visitor, disturbed>>

\* "A keeper that already has one drops the new arrival": also one it has not yet heard go.
Accept(k) ==
  /\ keeper[k].at = "serving" /\ keeper[k].arriving # <<>>
  /\ keeper' = [keeper EXCEPT ![k].client = IF @ = Absent THEN Head(keeper[k].arriving) ELSE @,
                              ![k].arriving = Tail(@)]
  /\ UNCHANGED <<files, visitor, disturbed>>

HearEnd(k) ==
  /\ keeper[k].at = "serving" /\ keeper[k].client = Closed
  /\ keeper' = [keeper EXCEPT ![k].client = Absent]
  /\ UNCHANGED <<files, visitor, disturbed>>

ShellExits(k) ==
  /\ keeper[k].shell
  /\ keeper' = [keeper EXCEPT ![k].shell = FALSE]
  /\ UNCHANGED <<files, visitor, disturbed>>

\* The end of the pty ends the serving, and with it every stream.
PtyEnds(k) ==
  /\ keeper[k].at = "serving" /\ ~ keeper[k].shell
  /\ keeper' = [keeper EXCEPT ![k].at = "over", ![k].client = Absent, ![k].arriving = <<>>]
  /\ UNCHANGED <<files, visitor, disturbed>>

\* Mutant: the lock is let go before the files are swept.
KeeperSweepsLate(k) ==
  \/ /\ Step(k, "over", "swept")
     /\ files' = [files EXCEPT !.lock = Free(@, k)]
     /\ UNCHANGED <<visitor, disturbed>>
  \/ /\ Step(k, "swept", "dead")
     /\ files' = [lock |-> Absent, attach |-> Absent, sock |-> Absent, meta |-> Absent]
     /\ UNCHANGED <<visitor, disturbed>>

\* sweep(), the lock last; and then the lock is dropped, which is no name's any more.
KeeperSweeps(k) ==
  \/ /\ Step(k, "over", "swept")
     /\ files' = [files EXCEPT !.sock = Absent, !.meta = Absent, !.attach = Absent]
     /\ UNCHANGED <<visitor, disturbed>>
  \/ /\ Step(k, "swept", "dead")
     /\ files' = [files EXCEPT !.lock = Absent]
     /\ UNCHANGED <<visitor, disturbed>>

\* What the kernel does of a process killed: its lock is free, its streams are closed.
Killed(k) ==
  /\ keeper' = [keeper EXCEPT ![k] = [at |-> "dead", shell |-> FALSE, client |-> Absent,
                                      arriving |-> <<>>]]
  /\ files' = [files EXCEPT !.lock = Free(@, k)]

Crash(k) ==
  /\ "crash" \in ScratchDoing
  /\ keeper[k].at \notin {"unborn", "dead"}
  /\ Killed(k)
  /\ UNCHANGED <<visitor, disturbed>>

-----------------------------------------------------------------------------
(***************************************************************************)
(* list() and kill() (scratch/store.rs).                                   *)
(***************************************************************************)
Tidy ==
  /\ ScratchDoing \cap {"list", "kill"} # {}
  /\ Visitor(Tidier, "idle")
  /\ Goes(Tidier, "asking")
  /\ UNCHANGED <<files, keeper, disturbed>>

\* Nobody was behind it when it was asked.
Leftovers ==
  /\ Visitor(Tidier, "asked") \/ Visitor(Tidier, "waited")
  /\ GiveBack(Tidier) /\ Goes(Tidier, "sweeping")
  /\ UNCHANGED <<keeper, disturbed>>

\* A running one is listed, or killed: what the file says is what is signalled.
Running ==
  /\ Visitor(Tidier, "asking") /\ files.lock # Absent
  /\ \/ Goes(Tidier, "done")
     \/ /\ "kill" \in ScratchDoing
        /\ visitor' = [visitor EXCEPT ![Tidier] = [at |-> "signalling", to |-> files.meta,
                                                  left |-> 2]]
  /\ UNCHANGED <<files, keeper, disturbed>>

\* The shell is hung up on, then killed (here one signal), and then the keeper is.
Signal ==
  /\ Visitor(Tidier, "signalling")
  /\ LET k == visitor[Tidier].to IN
     IF visitor[Tidier].left = 0 \/ k = Absent
     THEN Goes(Tidier, "done") /\ UNCHANGED <<files, keeper>>  \* "would not stop"
     ELSE /\ visitor' = [visitor EXCEPT ![Tidier].at = "waiting", ![Tidier].left = @ - 1]
          /\ IF visitor[Tidier].left = 2
             THEN keeper' = [keeper EXCEPT ![k].shell = FALSE] /\ UNCHANGED files
             ELSE Killed(k)
  /\ UNCHANGED disturbed

\* gone(): two seconds of asking whether the lock is free.
WaitGone ==
  \/ TakeLock(Tidier, "waiting", "waited")
  \/ Taken(Tidier, "waiting", "signalling")

Sweep ==
  /\ \/ /\ Visitor(Tidier, "sweeping") /\ Goes(Tidier, "unlocking")
        /\ files' = [files EXCEPT !.sock = Absent, !.meta = Absent, !.attach = Absent]
     \/ /\ Visitor(Tidier, "unlocking")
        /\ visitor' = [visitor EXCEPT ![Tidier] = [at |-> "done", to |-> Absent, left |-> 0]]
        /\ files' = [files EXCEPT !.lock = Absent]
  /\ disturbed' = (disturbed \/ Holding # {})
  /\ UNCHANGED keeper

-----------------------------------------------------------------------------
\* What a terminal goes on with once it has begun.
Terminals(t) ==
  \/ Ensure(t) \/ SpawnFails(t) \/ Attach(t) \/ Connect(t) \/ ConnectFails(t) \/ LetGo(t)
  \/ \E k \in Keeper : Spawn(t, k)

Keeps(k) ==
  Hold(k) \/ WriteMeta(k) \/ Bind(k) \/ PtyEnds(k) \/ KeeperSweeps(k)

Tidies ==
  \/ TakeLock(Tidier, "asking", "asked") \/ Leftovers \/ Running \/ Signal \/ WaitGone \/ Sweep

\* A bound: what comes of a scratch after its files were swept from under it is not followed.
Unfollowed == disturbed /\ UNCHANGED scratchVars

ScratchStep ==
  \/ \E t \in Terminal : Visit(t) \/ Terminals(t) \/ Detach(t) \/ ReadEnd(t)
  \/ \E k \in Keeper : Keeps(k) \/ Accept(k) \/ HearEnd(k) \/ ShellExits(k) \/ Crash(k)
  \/ Tidy \/ Tidies

ScratchNext == (~ disturbed /\ ScratchStep) \/ Unfollowed

ScratchSpec == ScratchInit /\ [][ScratchNext]_scratchVars

\* poll() answers; nobody has to come, to leave or to exit.
ScratchFairSpec ==
  /\ ScratchSpec
  /\ \A t \in Terminal : WF_scratchVars(~ disturbed /\ ReadEnd(t))
  /\ \A k \in Keeper :
       WF_scratchVars(~ disturbed /\ Accept(k)) /\ WF_scratchVars(~ disturbed /\ HearEnd(k))

-----------------------------------------------------------------------------
(***************************************************************************)
(* A scratch that runs can be found and reached by its name: whatever      *)
(* crashes, and whoever else was started for the name, the lock and the    *)
(* socket lead to the keeper that serves.  Only a sweep of list() or       *)
(* kill() that acts on an answer grown old takes them from under it.       *)
(***************************************************************************)
NameLeadsHome ==
  ~ disturbed => \A k \in Keeper : keeper[k].at = "serving" => files.lock = k /\ files.sock = k

(***************************************************************************)
(* Nobody is left in front of a dead screen: a terminal that has connected *)
(* is looked after by the keeper, or comes back.                           *)
(***************************************************************************)
ServedOrBack ==
  \A t \in Terminal :
    Visitor(t, "on") ~> (Visitor(t, "on") => disturbed \/ keeper[visitor[t].to].client = t)
=============================================================================
