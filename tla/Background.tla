----------------------------- MODULE Background -----------------------------
(***************************************************************************)
(* What happens behind a prompt nobody touches (oslo-base/background.rs,   *)
(* the editor's waits in oslo-ui, edit/session/frame.rs and                *)
(* term/input/idle.rs, and what they serve:                                *)
(* lua/api/spawn.rs, lua/api/timer.rs, lua/api/live/queued.rs).  Workers   *)
(* and peers leave something in a place of their own and write a byte to   *)
(* a pipe; whoever waits on the pipes empties them and goes to look.  The  *)
(* editor looks everywhere; `job:wait` and `oslo.settle` empty the same    *)
(* pipes and look at the workers' queue only.                              *)
(*                                                                         *)
(* All Lua is run by the shell's thread, one function inside another: what *)
(* it has still to do is a sequence, the innermost first.  A Lua function  *)
(* does one thing of those its place may do here, or none.                 *)
(*                                                                         *)
(* Not modelled: what else is looked at on a wake (children, the macros;   *)
(* see JobTable and MacroFiles), a directory that is gone when its turn    *)
(* comes, and a `cd` of the shell's own.                                   *)
(***************************************************************************)
EXTENDS Naturals, Sequences, FiniteSets, SequencesExt

CONSTANTS
  Spawned,        \* what oslo.spawn can start
  Alarm,      \* what oslo.after and oslo.every can set
  Repeating,  \* the alarms of oslo.every
  Asked,      \* the directories a peer asks for
  StartDir, NoDir,
  Scenarios   \* bounds: what Lua may do where, how often a peer asks for something, and how
              \* many keys are typed, turns of a browser that runs as a command among them

LuaPlace == {"key", "command", "callback", "alarm", "hook"}
LuaOp == {"spawn", "cancel", "wait", "try", "settle", "set", "stop", "raise"}

ASSUME BackgroundAssumption ==
  /\ Repeating \subseteq Alarm /\ IsFiniteSet(Alarm) /\ NoDir \notin Asked \cup {StartDir}
  /\ \A s \in Scenarios :
       s.may \in [LuaPlace -> SUBSET LuaOp] /\ s.asks \in Nat /\ s.keys \in Nat

VARIABLES
  bytes,      \* the pipes that have something in them
  spawns,     \* the workers, their queue, and what the shell knows of them
  alarms,
  peer,       \* a connection's thread, and the slot it leaves a directory in
  turn,       \* the shell's thread, and the wait the editor is in when it has nothing to do
  may,        \* what Lua may do where
  lost        \* "newer": a directory was written over by one asked for before it; a pipe: it
              \* was emptied by who does not look at what it was about (history variable)

backgroundVars == <<bytes, spawns, alarms, peer, turn, may, lost>>

Pipe == {"self", "live"}

\* What the shell's thread can have before it, and what that is about.
Task == [do : {"lua", "alarms", "ring", "deliver", "call", "wait", "try", "settle", "follow",
               "move", "mark", "command"},
         of : {"none"} \cup LuaPlace \cup Spawned \cup Alarm \cup Asked \cup {StartDir}]
Todo(do) == [do |-> do, of |-> "none"]
TaskOf(do, it) == [do |-> do, of |-> it]
Lua(place) == TaskOf("lua", place)

\* What fire() of startup/timers.rs does, and the servicer of startup/servicing.rs.
Fire == <<Todo("alarms"), Todo("deliver")>>
Service == Fire \o <<Todo("follow"), Lua("hook")>>

\* next_input() of edit/session/frame.rs: the wait a frame begins with.  It is a timed one as long
\* as an idle hook is armed, an answer is outstanding, or a segment of the prompt moves; a timed one
\* in which the idle hook has run is "reported".
FrameWait == {"blocking", "timed"}

BackgroundInit ==
  /\ bytes = {}
  /\ spawns = [at |-> [j \in Spawned |-> "unused"], done |-> << >>, live |-> {}, waiting |-> {},
               asked |-> {}, cancelled |-> {}, calls |-> [j \in Spawned |-> 0]]
  /\ alarms = [a \in Alarm |-> "off"]
  /\ \E s \in Scenarios, wait \in FrameWait :
       /\ may = s.may
       /\ peer = [at |-> "idle", wanted |-> NoDir, said |-> StartDir, asks |-> s.asks]
       /\ turn = [todo |-> << >>, changed |-> FALSE, pwd |-> StartDir, cwd |-> StartDir, keys |-> s.keys,
                  wait |-> wait]
  /\ lost = {}

-----------------------------------------------------------------------------
(* Workers, the clock, and peers. *)

Woken(pipe) == bytes' = bytes \cup {pipe}

JobEnds(j) ==
  /\ spawns.at[j] = "running"
  /\ spawns' = [spawns EXCEPT !.at[j] = "queued", !.done = Append(@, j)]
  /\ UNCHANGED <<bytes, alarms, peer, turn, may, lost>>

JobNudges(j) ==
  /\ spawns.at[j] = "queued"
  /\ spawns' = [spawns EXCEPT !.at[j] = "over"]
  /\ Woken("self")
  /\ UNCHANGED <<alarms, peer, turn, may, lost>>

AlarmComesDue(a) ==
  /\ alarms[a] = "set"
  /\ alarms' = [alarms EXCEPT ![a] = "due"]
  /\ UNCHANGED <<bytes, spawns, peer, turn, may, lost>>

\* `cd` of the control socket: the slot first, then the byte.
PeerAsks(d) ==
  /\ peer.at = "idle" /\ peer.asks > 0
  /\ peer' = [peer EXCEPT !.at = "told", !.wanted = d, !.said = d, !.asks = @ - 1]
  /\ UNCHANGED <<bytes, spawns, alarms, turn, may, lost>>

PeerNudges ==
  /\ peer.at = "told"
  /\ peer' = [peer EXCEPT !.at = "idle"]
  /\ Woken("live")
  /\ UNCHANGED <<spawns, alarms, turn, may, lost>>

Busy == Contains(turn.todo, Todo("command"))

\* `env.get` and its like hold the environment for a moment.
PeerHolds ==
  /\ peer.at = "idle" /\ peer.asks > 0 /\ ~ Busy
  /\ peer' = [peer EXCEPT !.at = "holding", !.asks = @ - 1]
  /\ UNCHANGED <<bytes, spawns, alarms, turn, may, lost>>

PeerReleases ==
  /\ peer.at = "holding"
  /\ peer' = [peer EXCEPT !.at = "idle"]
  /\ UNCHANGED <<bytes, spawns, alarms, turn, may, lost>>

-----------------------------------------------------------------------------
(* The editor's waits. *)

AtRest == turn.todo = << >>
GoOnTo(tasks) == turn' = [turn EXCEPT !.todo = tasks]

\* fill(): a byte or a deadline.  What changed is announced by a mark, and reading it is a second look.
Wakes ==
  /\ AtRest /\ turn.wait = "blocking"
  /\ (bytes # {} \/ \E a \in Alarm : alarms[a] = "due")
  /\ bytes' = {}
  /\ turn' = [turn EXCEPT !.todo = Service \o <<Todo("mark")>>, !.changed = FALSE]
  /\ UNCHANGED <<spawns, alarms, peer, may, lost>>

\* Mutant: the timed wait empties the pipes and looks at nothing.
WakesForNothing ==
  /\ AtRest /\ turn.wait # "blocking" /\ bytes # {}
  /\ bytes' = {}
  /\ UNCHANGED <<spawns, alarms, peer, turn, may, lost>>

\* waiting(): the wait for a key within some time, which looks after a byte only; when the time
\* is over it has not asked for a deadline, and has looked at nothing.
WakesInTime ==
  /\ AtRest /\ turn.wait # "blocking" /\ bytes # {}
  /\ bytes' = {}
  /\ GoOnTo(Service)
  /\ UNCHANGED <<spawns, alarms, peer, may, lost>>

\* The last answer is in, or nothing moves any more: the timed wait gives way to the blocking one.
NothingMoves ==
  /\ AtRest /\ turn.wait # "blocking"
  /\ turn' = [turn EXCEPT !.wait = "blocking"]
  /\ UNCHANGED <<bytes, spawns, alarms, peer, may, lost>>

\* on-idle-timeout, once until a key is typed.
IdleTimeout ==
  /\ AtRest /\ turn.wait = "timed"
  /\ turn' = [turn EXCEPT !.todo = <<Lua("hook")>>, !.wait = "reported"]
  /\ UNCHANGED <<bytes, spawns, alarms, peer, may, lost>>

\* A key with a handler, or the last of a line: the command has the environment to itself.
KeyPressed ==
  /\ AtRest /\ turn.keys > 0
  /\ \E todo \in {<<Lua("key")>>,
                  <<Lua("command"), Todo("command"), Lua("hook")>> \o Fire \o Fire}, wait \in FrameWait :
       /\ peer.at = "holding" => todo = <<Lua("key")>>
       /\ turn' = [turn EXCEPT !.todo = todo, !.keys = @ - 1, !.wait = wait]
  /\ UNCHANGED <<bytes, spawns, alarms, peer, may, lost>>

Facing(do) == ~ AtRest /\ Head(turn.todo).do = do
It == Head(turn.todo).of
Rest == Tail(turn.todo)
Calls == [i \in DOMAIN spawns.done |-> TaskOf("call", spawns.done[i])]

\* Where nothing changed no mark was left, and the same wait goes on.
ReadMark ==
  /\ Facing("mark")
  /\ IF turn.changed
     THEN \E wait \in FrameWait : turn' = [turn EXCEPT !.todo = Service, !.wait = wait]
     ELSE GoOnTo(<< >>)
  /\ UNCHANGED <<bytes, spawns, alarms, peer, may, lost>>

CommandEnds ==
  /\ Facing("command")
  /\ GoOnTo(Rest)
  /\ UNCHANGED <<bytes, spawns, alarms, peer, may, lost>>

\* A browser that is the command keeps its prompt alive (prompt/hold.rs).
Pump ==
  /\ Facing("command") /\ turn.keys > 0
  /\ turn' = [turn EXCEPT !.todo = Service \o @, !.keys = @ - 1]
  /\ UNCHANGED <<bytes, spawns, alarms, peer, may, lost>>

-----------------------------------------------------------------------------
(* Alarms (lua/api/timer.rs). *)

\* settle(): the list is left as it should be before any handler runs.
FireDue ==
  /\ Facing("alarms")
  /\ LET due == {a \in Alarm : alarms[a] = "due"} IN
     /\ alarms' = [a \in Alarm |->
                     IF a \notin due THEN alarms[a] ELSE IF a \in Repeating THEN "set" ELSE "off"]
     /\ \E order \in SetToSeqs(due) :
          turn' = [turn EXCEPT !.todo = [i \in DOMAIN order |-> TaskOf("ring", order[i])] \o Rest,
                               !.changed = @ \/ due # {}]
  /\ UNCHANGED <<bytes, spawns, peer, may, lost>>

Ring ==
  /\ Facing("ring")
  /\ \/ GoOnTo(<<Lua("alarm")>> \o Rest) /\ UNCHANGED alarms
     \/ "raise" \in may["alarm"] /\ alarms' = [alarms EXCEPT ![It] = "off"] /\ GoOnTo(Rest)
  /\ UNCHANGED <<bytes, spawns, peer, may, lost>>

-----------------------------------------------------------------------------
(* Results (lua/api/spawn.rs). *)

\* The queue is emptied before anything runs.
Deliver ==
  /\ Facing("deliver")
  /\ turn' = [turn EXCEPT !.todo = Calls \o Rest, !.changed = @ \/ spawns.done # << >>]
  /\ spawns' = [spawns EXCEPT !.done = << >>]
  /\ UNCHANGED <<bytes, alarms, peer, may, lost>>

\* claim(): the queue without the result of j, which is there once at most.
Without(queue, j) ==
  IF Contains(queue, j) THEN RemoveAt(queue, CHOOSE i \in DOMAIN queue : queue[i] = j) ELSE queue

\* Mutant: who waits for a job has its result, and its callback has nothing.
HandedToWaiter(j, then) ==
  LET called == j \in spawns.waiting /\ ~ Facing("wait") IN
  /\ spawns' = [spawns EXCEPT
       !.done = Without(@, j), !.live = @ \ {j}, !.waiting = @ \ {j},
       !.calls[j] = IF called THEN @ + 1 ELSE @]
  /\ GoOnTo(IF called THEN <<Lua("callback")>> \o then ELSE then)

\* The result of j is accounted for: its callback, if it has one, is called once.
HandedBack(j, then) ==
  /\ spawns' = [spawns EXCEPT
       !.done = Without(@, j), !.live = @ \ {j}, !.waiting = @ \ {j},
       !.calls[j] = IF j \in spawns.waiting THEN @ + 1 ELSE @]
  /\ GoOnTo(IF j \in spawns.waiting THEN <<Lua("callback")>> \o then ELSE then)

Call ==
  /\ Facing("call")
  /\ HandedBack(It, Rest)
  /\ UNCHANGED <<bytes, alarms, peer, may, lost>>

\* block_once(): a byte, of whatever pipe, is worth another look.  After a command
\* the results are delivered in any case; a directory is looked for at a wake only.
BlockOnce ==
  /\ bytes # {} /\ bytes' = {}
  /\ lost' = lost \cup (bytes \cap (IF Busy THEN {"live"} ELSE Pipe))
  /\ UNCHANGED <<spawns, turn>>

Wait ==
  /\ Facing("wait") \/ Facing("try")
  /\ IF Contains(spawns.done, It) THEN HandedBack(It, Rest) /\ UNCHANGED <<bytes, lost>>
     ELSE IF It \notin spawns.live THEN GoOnTo(Rest) /\ UNCHANGED <<bytes, spawns, lost>>
     ELSE BlockOnce \/ (Facing("try") /\ GoOnTo(Rest) /\ UNCHANGED <<bytes, spawns, lost>>)
  /\ UNCHANGED <<alarms, peer, may>>

SettleAll ==
  /\ Facing("settle")
  /\ IF spawns.done # << >>
     THEN /\ GoOnTo(Calls \o turn.todo) /\ spawns' = [spawns EXCEPT !.done = << >>]
          /\ UNCHANGED <<bytes, lost>>
     ELSE IF spawns.live = {} THEN GoOnTo(Rest) /\ UNCHANGED <<bytes, spawns, lost>>
     ELSE BlockOnce
  /\ UNCHANGED <<alarms, peer, may>>

-----------------------------------------------------------------------------
(* Following a peer (startup/follow.rs). *)

Follow ==
  /\ Facing("follow")
  /\ IF peer.wanted = NoDir THEN GoOnTo(Rest) ELSE GoOnTo(<<TaskOf("move", peer.wanted)>> \o Rest)
  /\ peer' = [peer EXCEPT !.wanted = NoDir]
  /\ UNCHANGED <<bytes, spawns, alarms, may, lost>>

\* Mutant: a move that cannot be made is dropped.
MoveOrDrop ==
  /\ Facing("move")
  /\ IF Busy \/ peer.at = "holding"
     THEN turn' = [turn EXCEPT !.todo = Rest, !.cwd = It, !.changed = TRUE]
     ELSE turn' = [turn EXCEPT !.todo = Rest, !.cwd = It, !.pwd = It, !.changed = TRUE]
  /\ UNCHANGED <<bytes, spawns, alarms, peer, may, lost>>

Move ==
  /\ Facing("move")
  /\ IF Busy \/ peer.at = "holding"
     THEN /\ turn' = [turn EXCEPT !.todo = Rest, !.cwd = It, !.changed = TRUE]
          /\ peer' = [peer EXCEPT !.wanted = It]
          /\ lost' = IF peer.wanted \in {NoDir, It} THEN lost ELSE lost \cup {"newer"}
          /\ Woken("live")
     ELSE /\ turn' = [turn EXCEPT !.todo = Rest, !.cwd = It, !.pwd = It, !.changed = TRUE]
          /\ UNCHANGED <<bytes, peer, lost>>
  /\ UNCHANGED <<spawns, alarms, may>>

-----------------------------------------------------------------------------
(* What Lua does. *)

Started == {j \in Spawned : spawns.at[j] # "unused"}

LuaDoes ==
  /\ Facing("lua")
  /\ LET May(op) == op \in may[It] IN
     \/ GoOnTo(Rest) /\ UNCHANGED <<spawns, alarms>>
     \/ /\ May("spawn")
        /\ \E j \in Spawned \ Started, on_exit \in BOOLEAN :
             spawns' = [spawns EXCEPT !.at[j] = "running", !.live = @ \cup {j},
                          !.waiting = IF on_exit THEN @ \cup {j} ELSE @,
                          !.asked = IF on_exit THEN @ \cup {j} ELSE @]
        /\ GoOnTo(Rest) /\ UNCHANGED alarms
     \/ /\ May("cancel")
        /\ \E j \in Started : \E live \in {spawns.live \ {j}, spawns.live} :  \* cancel, `<close>`
             spawns' = [spawns EXCEPT !.live = live, !.waiting = @ \ {j},
                          !.cancelled = IF j \in spawns.waiting THEN @ \cup {j} ELSE @]
        /\ GoOnTo(Rest) /\ UNCHANGED alarms
     \/ /\ \E how \in {"wait", "try"}, j \in Started : May(how) /\ GoOnTo(<<TaskOf(how, j)>> \o Rest)
        /\ UNCHANGED <<spawns, alarms>>
     \/ May("settle") /\ GoOnTo(<<Todo("settle")>> \o Rest) /\ UNCHANGED <<spawns, alarms>>
     \/ /\ May("set") /\ \E a \in Alarm : alarms[a] = "off" /\ alarms' = [alarms EXCEPT ![a] = "set"]
        /\ GoOnTo(Rest) /\ UNCHANGED spawns
     \/ /\ May("stop") /\ \E a \in Alarm : alarms' = [alarms EXCEPT ![a] = "off"]
        /\ GoOnTo(Rest) /\ UNCHANGED spawns
  /\ UNCHANGED <<bytes, peer, may, lost>>

-----------------------------------------------------------------------------
\* What the shell's thread goes on with by itself.
GoesOn ==
  \/ Wakes \/ WakesInTime \/ ReadMark \/ FireDue \/ Ring \/ Deliver \/ Call \/ Wait \/ SettleAll \/ Follow \/ Move
  \/ LuaDoes \/ CommandEnds

BackgroundNext ==
  \/ GoesOn \/ NothingMoves \/ IdleTimeout \/ KeyPressed \/ Pump
  \/ \E j \in Spawned : JobEnds(j) \/ JobNudges(j)
  \/ \E a \in Alarm : AlarmComesDue(a)
  \/ (\E d \in Asked : PeerAsks(d)) \/ PeerNudges \/ PeerHolds \/ PeerReleases

BackgroundSpec == BackgroundInit /\ [][BackgroundNext]_backgroundVars

WaitedFor(j) == Facing("settle") \/ (Facing("wait") /\ It = j)

\* Threads run, a peer lets go of the environment, and a command, or a job
\* that is waited for, ends.  Nothing makes a timed wait become a blocking one.
BackgroundFairSpec ==
  /\ BackgroundSpec
  /\ WF_backgroundVars(GoesOn) /\ WF_backgroundVars(PeerNudges) /\ WF_backgroundVars(PeerReleases)
  /\ \A j \in Spawned :
       WF_backgroundVars(JobNudges(j)) /\ WF_backgroundVars(WaitedFor(j) /\ JobEnds(j))

-----------------------------------------------------------------------------
BackgroundTypeOK ==
  /\ bytes \subseteq Pipe
  /\ spawns \in [at : [Spawned -> {"unused", "running", "queued", "over"}], done : Seq(Spawned),
                 live : SUBSET Spawned, waiting : SUBSET Spawned, asked : SUBSET Spawned,
                 cancelled : SUBSET Spawned, calls : [Spawned -> Nat]]
  /\ alarms \in [Alarm -> {"off", "set", "due"}]
  /\ peer \in [at : {"idle", "told", "holding"}, wanted : Asked \cup {NoDir},
               said : Asked \cup {StartDir}, asks : Nat]
  /\ turn \in [todo : Seq(Task), changed : BOOLEAN, pwd : Asked \cup {StartDir},
               cwd : Asked \cup {StartDir}, keys : Nat, wait : FrameWait \cup {"reported"}]
  /\ lost \subseteq Pipe \cup {"newer"}

(***************************************************************************)
(* Nobody has to touch the prompt (background.rs, queued.rs): a result     *)
(* that is in is accounted for, and the move a peer was told is accepted   *)
(* is made, whichever wait the editor sits in and however the byte that    *)
(* says so falls among waits, commands and turns of the loop, unless a     *)
(* wait in Lua took the byte for itself.  An alarm comes without a byte:   *)
(* one that is due rings unless the editor is, or comes to be, in its      *)
(* timed wait, which asks for no deadline; and it rings after a command in *)
(* any case.                                                               *)
(***************************************************************************)
NewsArrives ==
  /\ \A j \in Spawned : (spawns.at[j] = "over" /\ j \in spawns.live) ~>
                      (j \notin spawns.live \/ "self" \in lost)
  /\ \A a \in Alarm : alarms[a] = "due" ~> (alarms[a] # "due" \/ turn.wait # "blocking")
  /\ \A a \in Alarm : (alarms[a] = "due" /\ Busy) ~> alarms[a] # "due"
  /\ peer.wanted # NoDir ~> (peer.wanted = NoDir \/ "live" \in lost)

(***************************************************************************)
(* on_exit is called once, "always", whether the result was delivered or   *)
(* waited for, and never once it was cancelled, even by another callback   *)
(* of the same delivery (spawn.rs).                                        *)
(***************************************************************************)
OnExitRunsOnce ==
  \A j \in Spawned :
    /\ spawns.calls[j] <= 1
    /\ j \in spawns.cancelled => spawns.calls[j] = 0
    /\ j \in spawns.asked \ (spawns.cancelled \cup spawns.live) => spawns.calls[j] = 1

(***************************************************************************)
(* "The last word is the answer" (queued.rs), and $PWD and the process's   *)
(* directory agree again (follow.rs): once nothing is owed, the shell is   *)
(* where it was last told to go, unless the request it put back was laid   *)
(* over one that had come meanwhile.  A move that cannot be made is still  *)
(* owed, as the comment in the body of follow() says (follow.rs:42); the   *)
(* one above it says that it is dropped (:29), which the code does not do. *)
(***************************************************************************)
LastWordHolds ==
  peer.wanted = NoDir /\ (\A i \in DOMAIN turn.todo : turn.todo[i].do # "move") =>
    /\ turn.cwd = turn.pwd
    /\ turn.pwd = peer.said \/ "newer" \in lost

(***************************************************************************)
(* A wait answers "rather than blocking for a result that is not coming"   *)
(* (docs/features/timers.md): `job:wait` for a job that ends comes back.   *)
(***************************************************************************)
WaitsReturn ==
  \A j \in Spawned : (Facing("wait") /\ It = j) ~> ~ (Facing("wait") /\ It = j)
=============================================================================
