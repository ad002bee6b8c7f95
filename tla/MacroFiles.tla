----------------------------- MODULE MacroFiles -----------------------------
(***************************************************************************)
(* The macros of one machine as its shells come by them: commands change   *)
(* the database and then publish() it, and a shell reads the published     *)
(* snapshot as it starts and whenever the snapshot has moved               *)
(* (macros.rs, macros/snapshot.rs, startup/stored.rs).                     *)
(*                                                                         *)
(* Every command writes one scratch file, macros.snapshot.new.  As in      *)
(* Universal, fresh[s] stands for the comparison of stamps.                *)
(*                                                                         *)
(* Not modelled: the copies for other programs, the names turned off in    *)
(* one session, and what the configuration defines.                        *)
(***************************************************************************)
EXTENDS Replacement

CONSTANTS
  Publisher,  \* `oslo macros`, the manager, a sync: what changes the database
  Reader      \* the shells

ASSUME PublisherAssumption == IsFiniteSet(Publisher)

VARIABLES
  macros,     \* macros.db: what is stored and on
  published,  \* the disk: "snapshot" and "scratch"
  publisher,  \* how far each command has come
  reader,     \* what each shell has in hand
  behind      \* the last command to store was not alone, or one was killed (history variable)

macroVars == <<macros, published, publisher, reader, behind>>

SnapshotFile == 1 .. Cardinality(Publisher) + 2

AtRest == [pc |-> "idle", entries |-> NothingStored, file |-> 0]
NotStarted == [pc |-> "down", held |-> NothingStored, fresh |-> FALSE, overtaken |-> FALSE]

MacroTypeOK ==
  /\ macros \in Table
  /\ published \in Disk({"snapshot", "scratch"}, SnapshotFile)
  /\ publisher \in [Publisher -> [pc : {"idle", "stored", "read", "made", "full"},
                                  entries : Table, file : SnapshotFile \cup {0}]]
  /\ reader \in [Reader -> [pc : {"down", "installing", "idle", "looking"}, held : Table,
                            fresh : BOOLEAN, overtaken : BOOLEAN]]
  /\ behind \in BOOLEAN

MacroInit ==
  /\ macros = NothingStored
  /\ published = EmptyDisk({"snapshot", "scratch"}, SnapshotFile)
  /\ publisher = [p \in Publisher |-> AtRest]
  /\ reader = [s \in Reader |-> NotStarted]
  /\ behind = FALSE

OpenSnapshots == {publisher[p].file : p \in Publisher}

-----------------------------------------------------------------------------
(***************************************************************************)
(* put_and_publish and its like: the database, then all() of it, then the  *)
(* file.                                                                   *)
(***************************************************************************)
Alone(p) == \A q \in Publisher \ {p} : publisher[q].pc = "idle"

\* Mutant: what is published was read before the change was stored.
StoreMacroLate(p, k, v) ==
  /\ publisher[p].pc = "idle"
  /\ macros' = [macros EXCEPT ![k] = v]
  /\ publisher' = [publisher EXCEPT ![p].pc = "read", ![p].entries = macros]
  /\ behind' = ~ Alone(p)
  /\ UNCHANGED <<published, reader>>

StoreMacro(p, k, v) ==
  /\ publisher[p].pc = "idle"
  /\ macros' = [macros EXCEPT ![k] = v]
  /\ publisher' = [publisher EXCEPT ![p].pc = "stored"]
  /\ behind' = ~ Alone(p)
  /\ UNCHANGED <<published, reader>>

ReadEntries(p) ==
  /\ publisher[p].pc = "stored"
  /\ publisher' = [publisher EXCEPT ![p].pc = "read", ![p].entries = macros]
  /\ UNCHANGED <<macros, published, reader, behind>>

\* What a change of the snapshot in place means to the shells' stamps.
Moved(old, new) ==
  reader' = IF new.at["snapshot"] = old.at["snapshot"]
               /\ (old.at["snapshot"] = 0
                   \/ new.text[old.at["snapshot"]] = old.text[old.at["snapshot"]])
            THEN reader
            ELSE [s \in Reader |-> [reader[s] EXCEPT
                    !.fresh = FALSE, !.overtaken = @ \/ reader[s].pc = "installing"]]

CreateScratch(p) ==
  /\ publisher[p].pc = "read"
  /\ published' = Created(published, "scratch", OpenSnapshots)
  /\ publisher' = [publisher EXCEPT ![p].pc = "made", ![p].file = published'.at["scratch"]]
  /\ UNCHANGED <<macros, reader, behind>>

WriteScratch(p) ==
  /\ publisher[p].pc = "made"
  /\ published' = Filled(published, publisher[p].file, Text(publisher[p].entries))
  /\ publisher' = [publisher EXCEPT ![p].pc = "full", ![p].file = 0]
  /\ Moved(published, published')
  /\ UNCHANGED <<macros, behind>>

\* Without a scratch of that name the rename fails, and the command says so.
RenameScratch(p) ==
  /\ publisher[p].pc = "full"
  /\ published' = IF Exists(published, "scratch") THEN Renamed(published, "scratch", "snapshot")
                  ELSE published
  /\ publisher' = [publisher EXCEPT ![p] = AtRest]
  /\ Moved(published, published')
  /\ UNCHANGED <<macros, behind>>

\* A command is killed, or cannot write: what it stored stays stored.
CommandStops(p) ==
  /\ publisher[p].pc # "idle"
  /\ publisher' = [publisher EXCEPT ![p] = AtRest]
  /\ behind' = TRUE
  /\ UNCHANGED <<macros, published, reader>>

-----------------------------------------------------------------------------
(***************************************************************************)
(* A shell: install() reads and then takes the stamps, refresh() takes     *)
(* them first.                                                             *)
(***************************************************************************)
Wanted == IF Exists(published, "snapshot") THEN Contents(published, "snapshot") ELSE NothingStored

Install(s) ==
  /\ reader[s].pc = "down"
  /\ reader' = [reader EXCEPT ![s].pc = "installing", ![s].held = Wanted]
  /\ UNCHANGED <<macros, published, publisher, behind>>

InstallStamps(s) ==
  /\ reader[s].pc = "installing"
  /\ reader' = [reader EXCEPT ![s].pc = "idle", ![s].fresh = TRUE]
  /\ UNCHANGED <<macros, published, publisher, behind>>

Refresh(s) ==
  /\ reader[s].pc = "idle" /\ ~ reader[s].fresh
  /\ reader' = [reader EXCEPT ![s].pc = "looking", ![s].fresh = TRUE, ![s].overtaken = FALSE]
  /\ UNCHANGED <<macros, published, publisher, behind>>

Rebuild(s) ==
  /\ reader[s].pc = "looking"
  /\ reader' = [reader EXCEPT ![s].pc = "idle", ![s].held = Wanted]
  /\ UNCHANGED <<macros, published, publisher, behind>>

-----------------------------------------------------------------------------
Publishing(p) ==
  \/ \E k \in Name, v \in Value \cup {Absent} : StoreMacro(p, k, v)
  \/ ReadEntries(p) \/ CreateScratch(p) \/ WriteScratch(p) \/ RenameScratch(p) \/ CommandStops(p)

Reading(s) == Install(s) \/ InstallStamps(s) \/ Refresh(s) \/ Rebuild(s)

MacroNext == (\E p \in Publisher : Publishing(p)) \/ (\E s \in Reader : Reading(s))

MacroSpec == MacroInit /\ [][MacroNext]_macroVars

-----------------------------------------------------------------------------
(***************************************************************************)
(* "A macro another shell stored is picked up the moment you do anything   *)
(* at all" (macros/watch.rs).  With no command under way, a shell that     *)
(* would not read the snapshot again has what the database says, unless    *)
(* the last commands got in each other's way, or the snapshot moved        *)
(* between the two halves of this shell's own start.                       *)
(***************************************************************************)
ShellsFollow ==
  ~ behind /\ (\A p \in Publisher : publisher[p].pc = "idle") =>
    \A s \in Reader : reader[s].pc = "idle" /\ reader[s].fresh /\ ~ reader[s].overtaken =>
      reader[s].held = macros
=============================================================================
