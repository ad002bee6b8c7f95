----------------------------- MODULE Universal -----------------------------
(***************************************************************************)
(* Universal variables (env/universal.rs): one file, read and replaced by  *)
(* every session, and each session's copy of what it last read.            *)
(*                                                                         *)
(* A stamp is the file's inode, length and time.  All that is ever asked   *)
(* of one is whether it is still that of the file in place, so that is     *)
(* what is kept: fresh[s] is TRUE while the stamp session s took last is   *)
(* the file's.  Two files never share a stamp here.                        *)
(*                                                                         *)
(* Not modelled: a file that does not parse, and a variable typed over in  *)
(* one session alone.                                                      *)
(***************************************************************************)
EXTENDS Replacement

CONSTANT Window

ASSUME WindowAssumption == IsFiniteSet(Window) /\ "store" \notin Window

VARIABLES
  universal,  \* the disk: the store under the name "store", and each session's temporary
  session,    \* what each session is doing, and what it has seen
  env,        \* each session's own variables of these names
  looker      \* the sessions that never typed `set -U` (history variable)

universalVars == <<universal, session, env, looker>>

StoreFile == 1 .. Cardinality(Window) + 1

SessionState ==
  [pc : {"idle", "look", "missing", "edited", "made", "full", "renamed"},
   asks : {"prompt", "list"}, values : Table, key : Name \cup {Absent},
   file : StoreFile \cup {0}, seen : Table, read : BOOLEAN, fresh : BOOLEAN]

IdleSession == [pc |-> "idle", asks |-> "prompt", values |-> NothingStored, key |-> Absent,
                file |-> 0, seen |-> NothingStored, read |-> FALSE, fresh |-> FALSE]

UniversalTypeOK ==
  /\ universal \in Disk(Window \cup {"store"}, StoreFile)
  /\ session \in [Window -> SessionState]
  /\ env \in [Window -> Table]
  /\ looker \subseteq Window

UniversalInit ==
  /\ universal = EmptyDisk(Window \cup {"store"}, StoreFile)
  /\ session = [s \in Window |-> IdleSession]
  /\ env = [s \in Window |-> NothingStored]
  /\ looker = Window

OpenFiles == {session[s].file : s \in Window}

-----------------------------------------------------------------------------
(***************************************************************************)
(* Looking: sync_into before a prompt, and `set -U` with no name, which    *)
(* lists all().  Both reload() if the stamp has moved; only sync_into then *)
(* hands the session what is different.                                    *)
(***************************************************************************)
Look(s, asks) ==
  /\ session[s].pc = "idle" /\ ~ (session[s].read /\ session[s].fresh)
  /\ session' = [session EXCEPT ![s].pc = "look", ![s].asks = asks, ![s].fresh = TRUE]
  /\ looker' = IF asks = "list" THEN looker \ {s} ELSE looker
  /\ UNCHANGED <<universal, env>>

\* Mutant: names that have gone from the store are left alone.
HandedOver(before, after, mine) ==
  [k \in Name |-> IF after[k] = Absent \/ after[k] = before[k] THEN mine[k] ELSE after[k]]

\* What sync_into leaves in the variables: only what changed is touched.
Handed(before, after, mine) ==
  [k \in Name |-> IF after[k] = before[k] THEN mine[k] ELSE after[k]]

\* The snapshot moves to `values`, which the file held.
Sees(s, values, fresh) ==
  /\ session' = [session EXCEPT ![s].pc = "idle", ![s].asks = "prompt", ![s].seen = values,
                                ![s].read = TRUE, ![s].fresh = fresh]
  /\ env' = IF session[s].asks = "list" THEN env
            ELSE [env EXCEPT ![s] = Handed(session[s].seen, values, env[s])]
  /\ UNCHANGED <<universal, looker>>

ReadText(s) ==
  /\ session[s].pc = "look" /\ Exists(universal, "store")
  /\ Sees(s, Contents(universal, "store"), session[s].fresh)

ReadFails(s) ==
  /\ session[s].pc = "look" /\ ~ Exists(universal, "store")
  /\ session' = [session EXCEPT ![s].pc = "missing"]
  /\ UNCHANGED <<universal, env, looker>>

\* The file really is gone, and an empty store is what that means.
SeesNothing(s) ==
  /\ session[s].pc = "missing" /\ ~ Exists(universal, "store")
  /\ Sees(s, NothingStored, TRUE)

\* It could not be read and is there now: the session keeps what it has.
KeepsSnapshot(s) ==
  /\ session[s].pc = "missing" /\ Exists(universal, "store")
  /\ session' = [session EXCEPT ![s].pc = "idle", ![s].asks = "prompt", ![s].fresh = FALSE]
  /\ UNCHANGED <<universal, env, looker>>

-----------------------------------------------------------------------------
(***************************************************************************)
(* change(): read the file, edit, write the temporary, rename, and move    *)
(* the snapshot along.  The builtin then sets the variable here too.       *)
(***************************************************************************)
ReadForEdit(s, k, v) ==
  /\ session[s].pc = "idle"
  /\ LET found == IF Exists(universal, "store") THEN Contents(universal, "store") ELSE NothingStored
     IN  session' = [session EXCEPT ![s].pc = "edited", ![s].key = k,
                                    ![s].values = [found EXCEPT ![k] = v]]
  /\ looker' = looker \ {s}
  /\ UNCHANGED <<universal, env>>

\* Mutant: every session writes one temporary.
OneTemporary(s) == CHOOSE t \in Window : s \in Window

\* The temporary has the pid in its name.
Temporary(s) == s

CreateTemporary(s) ==
  /\ session[s].pc = "edited"
  /\ universal' = Created(universal, Temporary(s), OpenFiles)
  /\ session' = [session EXCEPT ![s].pc = "made", ![s].file = universal'.at[Temporary(s)]]
  /\ UNCHANGED <<env, looker>>

WriteTemporary(s) ==
  /\ session[s].pc = "made"
  /\ universal' = Filled(universal, session[s].file, Text(session[s].values))
  /\ session' = [session EXCEPT ![s].pc = "full", ![s].file = 0]
  /\ UNCHANGED <<env, looker>>

\* Nobody's stamp is the file's any more.
RenameTemporary(s) ==
  /\ session[s].pc = "full" /\ Exists(universal, Temporary(s))
  /\ universal' = Renamed(universal, Temporary(s), "store")
  /\ session' = [t \in Window |->
                   [session[t] EXCEPT !.fresh = FALSE, !.pc = IF t = s THEN "renamed" ELSE @]]
  /\ UNCHANGED <<env, looker>>

\* A step of the write fails: the command says so, and nothing here has changed.
ChangeFails(s) ==
  /\ session[s].pc \in {"edited", "made", "full"}
  /\ universal' = IF session[s].pc = "full" THEN Removed(universal, Temporary(s))
                  ELSE universal
  /\ session' = [session EXCEPT ![s].pc = "idle", ![s].key = Absent, ![s].values = NothingStored,
                                ![s].file = 0]
  /\ UNCHANGED <<env, looker>>

MoveSnapshot(s) ==
  /\ session[s].pc = "renamed"
  /\ session' = [session EXCEPT ![s].pc = "idle", ![s].key = Absent, ![s].values = NothingStored,
                                ![s].seen = session[s].values, ![s].read = TRUE,
                                ![s].fresh = TRUE]
  /\ env' = [env EXCEPT ![s][session[s].key] = session[s].values[session[s].key]]
  /\ UNCHANGED <<universal, looker>>

-----------------------------------------------------------------------------
Looking(s) ==
  \/ \E asks \in {"prompt", "list"} : Look(s, asks)
  \/ ReadText(s) \/ ReadFails(s) \/ SeesNothing(s) \/ KeepsSnapshot(s)

Changing(s) ==
  \/ \E k \in Name, v \in Value \cup {Absent} : ReadForEdit(s, k, v)
  \/ CreateTemporary(s) \/ WriteTemporary(s) \/ RenameTemporary(s) \/ ChangeFails(s)
  \/ MoveSnapshot(s)

UniversalNext == \E s \in Window : Looking(s) \/ Changing(s)

UniversalSpec == UniversalInit /\ [][UniversalNext]_universalVars

-----------------------------------------------------------------------------
(***************************************************************************)
(* A session at rest whose stamp is the file's will not read it again      *)
(* before somebody replaces it.                                            *)
(***************************************************************************)
ThinksCurrent(s) == session[s].pc = "idle" /\ session[s].read /\ session[s].fresh
Stored == IF Exists(universal, "store") THEN Contents(universal, "store") ELSE NothingStored

(***************************************************************************)
(* A session that only looks is never wrong about being current: its       *)
(* variables are the file's, erased ones included.                         *)
(***************************************************************************)
LookersSee == \A s \in looker : ThinksCurrent(s) => env[s] = Stored

(***************************************************************************)
(* "Every other session picks it up at its next prompt" (parameters.rs,    *)
(* `set -U`): a session the next prompt would leave as it is has what the  *)
(* store holds.                                                            *)
(***************************************************************************)
EverySessionSees == \A s \in Window : ThinksCurrent(s) => env[s] = Stored

(***************************************************************************)
(* "rename(2) makes each write whole" (universal.rs): the file in place is *)
(* one that nobody is still writing, and the file a session is about to    *)
(* put there says just what that session means to store.                   *)
(***************************************************************************)
EveryWriteIsWhole ==
  \A s \in Window :
    /\ session[s].file # 0 => session[s].file # universal.at["store"]
    /\ session[s].pc = "full" =>
         /\ Exists(universal, Temporary(s))
         /\ universal.text[universal.at[Temporary(s)]] = Text(session[s].values)
=============================================================================
