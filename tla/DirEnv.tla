------------------------------- MODULE DirEnv -------------------------------
(***************************************************************************)
(* Directory environments (direnv/, startup/environments/): shells walk    *)
(* between directories, a .env.lua that applies there is run if it was     *)
(* allowed, and what it did is undone on the way out, also by a child      *)
(* shell that inherited it and was handed the record of what to undo.      *)
(*                                                                         *)
(* A name is a variable, an alias, a function (a builtin is like one) or   *)
(* an abbreviation; `oslo.abbr`, the Lua table, is kept beside the         *)
(* abbreviations installed from it.  A stamp is the number of the write    *)
(* that made the file what it is, and 0 while there is none.               *)
(*                                                                         *)
(* Not modelled: the Lua prompt and unload callbacks, files asked for with *)
(* watch_file, read-only names, arrays, and `set -a`.                      *)
(***************************************************************************)
EXTENDS Naturals, Sequences, FiniteSets

CONSTANTS
  DirShell,      \* shells, the first of them running at the start
  FirstShell,
  Place,         \* directories
  Above,         \* Above[d]: d and the directories it is in, innermost first
  Home,          \* where the first shell starts; never has a file
  Nowhere,
  Variable, Alias, Function, Abbreviation,
  Word,          \* what a name can stand for
  Unset,
  Script,        \* Script[t]: the assignments of a file with text t, in order
  NoFile,
  StartsAs,      \* what the first shell's names are at the start
  MaxWrite,      \* bound: files written or removed
  MaxHand,       \* bound: names set by hand
  Among          \* which of "hand", "decide", "edit" and "child" happen, one set for each behaviour

EnvName == Variable \cup Alias \cup Function \cup Abbreviation
FileText == DOMAIN Script

\* A name is unset or stands for a word, exported or not.
Cell == {Unset} \cup [word : Word, exported : BOOLEAN]
Undo == UNION {[held -> Cell] : held \in SUBSET EnvName}

ASSUME DirEnvAssumption ==
  /\ FirstShell \in DirShell /\ Home \in Place /\ Nowhere \notin Place
  /\ Above \in [Place -> Seq(Place)]
  /\ Unset \notin [word : Word, exported : BOOLEAN]
  /\ Variable \cap (Alias \cup Function \cup Abbreviation) = {}
  /\ StartsAs \in [EnvName -> Cell]
  /\ NoFile \notin FileText
  /\ \A t \in FileText : Script[t] \in Seq([name : EnvName, cell : Cell])
  /\ MaxWrite \in Nat /\ MaxHand \in Nat

VARIABLES
  envFile,    \* the file in each directory, if there is one, and its stamp
  token,      \* what was allowed (a place and a text) and what was denied (a place)
  dirShells,  \* each shell, or its absence
  ownNames,   \* each shell's names had no directory touched them (history variable)
  spent,      \* writes and hand edits so far, for the bounds
  during      \* the member of Among this behaviour is about

dirEnvVars == <<envFile, token, dirShells, ownNames, spent, during>>

NothingToUndo == [n \in {} |-> Unset]

NotLoaded == [owner |-> Nowhere, stamp |-> 0, undo |-> NothingToUndo, ran |-> 0]

NoShell == [pc |-> "none", at |-> Home, settled |-> Nowhere, names |-> StartsAs,
            table |-> [n \in Abbreviation |-> Unset], loaded |-> NotLoaded, stale |-> FALSE,
            record |-> NotLoaded, reload |-> FALSE, before |-> StartsAs]

DirEnvInit ==
  /\ envFile \in [Place -> {[text |-> t, stamp |-> 1] : t \in FileText} \cup {[text |-> NoFile, stamp |-> 0]}]
  /\ envFile[Home].text = NoFile
  /\ token = [allow |-> Place \X FileText, deny |-> {}]
  /\ dirShells = [s \in DirShell |-> IF s # FirstShell THEN NoShell
                                  ELSE [NoShell EXCEPT !.pc = "idle"]]
  /\ ownNames = [s \in DirShell |-> StartsAs]
  /\ spent = [writes |-> 1, hands |-> 0]
  /\ during \in Among

Exported(cell) == cell # Unset /\ cell.exported

-----------------------------------------------------------------------------
(***************************************************************************)
(* Which file governs, and whether it may run.                             *)
(***************************************************************************)
\* find::applicable: the nearest of the directories above that has one.
Governing(d) ==
  LET HasFile(i) == envFile[Above[d][i]].text # NoFile
      Nearest(i) == HasFile(i) /\ \A j \in 1 .. i - 1 : ~ HasFile(j)
  IN  IF \E i \in DOMAIN Above[d] : Nearest(i)
      THEN Above[d][CHOOSE i \in DOMAIN Above[d] : Nearest(i)]
      ELSE Nowhere

Allowed(d) == d \notin token.deny /\ <<d, envFile[d].text>> \in token.allow

\* arrive() returns at once: what is loaded is what governs here, as it is now.
UpToDate(s) ==
  LET it == dirShells[s]
  IN  /\ ~ it.stale /\ it.loaded # NotLoaded
      /\ Governing(it.at) = it.loaded.owner
      /\ envFile[it.loaded.owner].stamp = it.loaded.stamp

-----------------------------------------------------------------------------
(***************************************************************************)
(* Unloading.                                                              *)
(***************************************************************************)
\* Mutant: a variable is set without being cleared first, so that its export flag stays.
PutOver(cell, was) ==
  IF was = Unset THEN Unset
  ELSE [word |-> was.word, exported |-> was.exported \/ Exported(cell)]

\* unset_var, then set_var: what the name carries now makes no difference.
PutBack(cell, was) == was

\* The names after what is loaded has been undone.
Undone(names, undo) ==
  [n \in EnvName |-> IF n \in DOMAIN undo THEN PutBack(names[n], undo[n]) ELSE names[n]]

\* Mutant: the record outlives the environment it describes.
UnloadedKeepingRecord(it) ==
  [it EXCEPT !.names = Undone(it.names, it.loaded.undo), !.loaded = NotLoaded]

Unloaded(it) ==
  IF it.loaded = NotLoaded THEN it
  ELSE [it EXCEPT !.names = Undone(it.names, it.loaded.undo), !.loaded = NotLoaded,
                  !.record = NotLoaded]

-----------------------------------------------------------------------------
(***************************************************************************)
(* Arriving: unload, look at the gate, and take the snapshot and the stamp *)
(* before the file runs.  The shell's user waits for it; other processes   *)
(* do not.                                                                 *)
(***************************************************************************)
Arrived(s, it) ==
  LET owner == Governing(it.at)
      left  == [Unloaded(it) EXCEPT !.stale = FALSE]
  IN  IF UpToDate(s) THEN it
      ELSE IF owner = Nowhere \/ ~ Allowed(owner) THEN left
      ELSE [left EXCEPT !.pc = "passed", !.loaded = [NotLoaded EXCEPT !.owner = owner]]

\* At startup and before a prompt, if the shell is not where it last settled.
EachPrompt(s) ==
  /\ dirShells[s].pc = "idle" /\ ~ dirShells[s].reload /\ dirShells[s].at # dirShells[s].settled
  /\ dirShells' = [dirShells EXCEPT ![s] = [Arrived(s, @) EXCEPT !.settled = dirShells[s].at]]
  /\ UNCHANGED <<envFile, token, ownNames, spent, during>>

\* After a command that asked for it.
Reload(s) ==
  /\ dirShells[s].pc = "idle" /\ dirShells[s].reload
  /\ dirShells' = [dirShells EXCEPT ![s] = [Arrived(s, @) EXCEPT !.reload = FALSE]]
  /\ UNCHANGED <<envFile, token, ownNames, spent, during>>

TakeSnapshot(s) ==
  /\ dirShells[s].pc = "passed"
  /\ LET it == dirShells[s]
     IN  dirShells' = [dirShells EXCEPT ![s] = [it EXCEPT
           !.pc = "stamped", !.before = it.names, !.loaded.stamp = envFile[it.loaded.owner].stamp]]
  /\ UNCHANGED <<envFile, token, ownNames, spent, during>>

\* The value a name, or an entry of oslo.abbr, has after the first k assignments of a text.
ValueAfter(value, text, k, n) ==
  LET Sets(i) == Script[text][i].name = n
      Last(i) == Sets(i) /\ \A j \in i + 1 .. k : ~ Sets(j)
  IN  IF \E i \in 1 .. k : Last(i) THEN Script[text][CHOOSE i \in 1 .. k : Last(i)].cell ELSE value

\* The file is read and run, to its end or to where it fails.  The table of
\* abbreviations is read whole once it has run, and what differs installed.
RunFile(s) ==
  LET it   == dirShells[s]
      from == envFile[it.loaded.owner]
  IN  /\ it.pc = "stamped"
      /\ \E k \in 0 .. IF from.text = NoFile THEN 0 ELSE Len(Script[from.text]) :
           LET table == [n \in Abbreviation |-> ValueAfter(it.table[n], from.text, k, n)]
           IN  dirShells' = [dirShells EXCEPT ![s] = [it EXCEPT
                 !.pc = "ran", !.loaded.ran = from.stamp, !.table = table,
                 !.names = [n \in EnvName |-> IF n \notin Abbreviation THEN ValueAfter(it.names[n], from.text, k, n)
                                           ELSE IF table[n] = Unset THEN it.names[n] ELSE table[n]]]]
      /\ UNCHANGED <<envFile, token, ownNames, spent, during>>

\* What leaving has to put back.  A function is only ever taken out again.
Reversed(before, after) ==
  [n \in {n \in EnvName : before[n] # after[n] /\ (n \in Function => before[n] = Unset)} |-> before[n]]

\* Mutant: aliases travel in the record too.
CarriedWhole(undo) == undo

\* What a child is told of it: it inherits variables and nothing else.
Carried(undo) == [n \in DOMAIN undo \cap Variable |-> undo[n]]

\* Mutant: the stamp is taken when the file has run.
KeptStampLate(it) == envFile[it.loaded.owner].stamp

KeptStamp(it) == it.loaded.stamp

\* The record is written, exported like the variables it is about.
FinishLoad(s) ==
  LET it   == dirShells[s]
      undo == Reversed(it.before, it.names)
  IN  /\ it.pc = "ran"
      /\ dirShells' = [dirShells EXCEPT ![s] = [it EXCEPT
           !.pc = "idle", !.before = StartsAs, !.loaded.undo = undo,
           !.loaded.stamp = KeptStamp(it),
           !.record = [NotLoaded EXCEPT !.owner = it.loaded.owner, !.undo = Carried(undo)]]]
      \* What the file redefined of the shell's own functions stays so.
      /\ ownNames' = [ownNames EXCEPT ![s] = [n \in EnvName |->
                   IF n \in Function /\ it.before[n] # Unset THEN it.names[n] ELSE @[n]]]
      /\ UNCHANGED <<envFile, token, spent, during>>

-----------------------------------------------------------------------------
(***************************************************************************)
(* What is typed in a shell that waits at its prompt.                      *)
(***************************************************************************)
Waits(s) == dirShells[s].pc = "idle" /\ ~ dirShells[s].reload /\ dirShells[s].at = dirShells[s].settled

ChangeDirectory(s, d) ==
  /\ Waits(s) /\ d # dirShells[s].at
  /\ dirShells' = [dirShells EXCEPT ![s] = [dirShells[s] EXCEPT !.at = d]]
  /\ UNCHANGED <<envFile, token, ownNames, spent, during>>

\* A name is set or unset by hand.  One that the directory holds goes with it.
SetByHand(s, n, cell) ==
  /\ Waits(s) /\ "hand" \in during /\ spent.hands < MaxHand
  /\ n \notin Variable => ~ Exported(cell)
  /\ dirShells' = [dirShells EXCEPT ![s] = [dirShells[s] EXCEPT !.names[n] = cell]]
  /\ ownNames' = IF n \in DOMAIN dirShells[s].loaded.undo THEN ownNames ELSE [ownNames EXCEPT ![s][n] = cell]
  /\ spent' = [spent EXCEPT !.hands = @ + 1]
  /\ UNCHANGED <<envFile, token, during>>

Invalidated(s) == [dirShells EXCEPT ![s] = [dirShells[s] EXCEPT !.stale = TRUE, !.reload = TRUE]]

\* `direnv allow`: lifts a denial, and allows the text there is, if any.
Allow(s, d) ==
  /\ Waits(s) /\ "decide" \in during
  /\ token' = [allow |-> token.allow \cup ({<<d, envFile[d].text>>} \ {<<d, NoFile>>}),
               deny |-> token.deny \ {d}]
  /\ dirShells' = Invalidated(s)
  /\ UNCHANGED <<envFile, ownNames, spent, during>>

Deny(s, d) ==
  /\ Waits(s) /\ "decide" \in during
  /\ token' = [token EXCEPT !.deny = @ \cup {d}]
  /\ dirShells' = Invalidated(s)
  /\ UNCHANGED <<envFile, ownNames, spent, during>>

\* `direnv prune` forgets the decisions and leaves what is loaded alone.
PruneTokens(s) ==
  /\ Waits(s) /\ "decide" \in during
  /\ token' = [allow |-> {}, deny |-> {}]
  /\ UNCHANGED <<envFile, dirShells, ownNames, spent, during>>

RequestReload(s) ==
  /\ Waits(s)
  /\ dirShells' = Invalidated(s)
  /\ UNCHANGED <<envFile, token, ownNames, spent, during>>

-----------------------------------------------------------------------------
(***************************************************************************)
(* A child is started, with what is exported and nothing else, and finds   *)
(* the record among it.  It is stale, so that it runs the file itself.     *)
(* Its parent waits for it: two shells share the files and the decisions   *)
(* only, and those change at any time anyway.                              *)
(***************************************************************************)
\* Mutant: the record is left unread.
AdoptedNothing(record) == NotLoaded

Adopted(record) ==
  IF record = NotLoaded THEN NotLoaded
  ELSE [record EXCEPT !.stamp = envFile[record.owner].stamp]

Spawn(s, c) ==
  LET it == dirShells[s]
      inherited(names) == [n \in EnvName |-> IF n \in Variable /\ Exported(names[n]) THEN names[n] ELSE Unset]
  IN  /\ Waits(s) /\ "child" \in during /\ dirShells[c].pc = "none"
      /\ dirShells' = [dirShells EXCEPT ![s] = [it EXCEPT !.pc = "waits"], ![c] =
           [NoShell EXCEPT !.pc = "idle", !.at = it.at, !.names = inherited(it.names), !.record = it.record,
                           !.loaded = Adopted(it.record), !.stale = it.record # NotLoaded]]
      \* What the record gives back is the parent's, exported or not.
      /\ ownNames' = [ownNames EXCEPT ![c] = [n \in EnvName |->
                   IF n \in DOMAIN it.loaded.undo \cap Variable THEN ownNames[s][n] ELSE inherited(it.names)[n]]]
      /\ UNCHANGED <<envFile, token, spent, during>>

\* Somebody writes or removes a file, at any time.
WriteFile(d, t) ==
  /\ "edit" \in during /\ spent.writes < MaxWrite /\ d # Home /\ t # envFile[d].text
  /\ envFile' = [envFile EXCEPT ![d] = [text |-> t, stamp |-> IF t = NoFile THEN 0 ELSE spent.writes + 1]]
  /\ spent' = [spent EXCEPT !.writes = @ + 1]
  /\ UNCHANGED <<token, dirShells, ownNames, during>>

-----------------------------------------------------------------------------
DirEnvNext ==
  \/ \E s \in DirShell :
       \/ EachPrompt(s) \/ Reload(s) \/ TakeSnapshot(s) \/ RunFile(s) \/ FinishLoad(s)
       \/ \E d \in Place : ChangeDirectory(s, d) \/ Allow(s, d) \/ Deny(s, d)
       \/ \E n \in EnvName, cell \in Cell : SetByHand(s, n, cell)
       \/ PruneTokens(s) \/ RequestReload(s)
       \/ \E c \in DirShell : Spawn(s, c)
  \/ \E d \in Place, t \in FileText \cup {NoFile} : WriteFile(d, t)

DirEnvSpec == DirEnvInit /\ [][DirEnvNext]_dirEnvVars

-----------------------------------------------------------------------------
(***************************************************************************)
(* Properties.                                                             *)
(***************************************************************************)
LoadRecord == [owner : Place \cup {Nowhere}, stamp : 0 .. MaxWrite, undo : Undo, ran : 0 .. MaxWrite]

DirEnvTypeOK ==
  /\ envFile \in [Place -> [text : FileText \cup {NoFile}, stamp : 0 .. MaxWrite]]
  /\ token.allow \subseteq Place \X FileText /\ token.deny \subseteq Place
  /\ \A s \in DirShell :
       /\ dirShells[s].pc \in {"none", "waits", "idle", "passed", "stamped", "ran"}
       /\ dirShells[s].at \in Place /\ dirShells[s].settled \in Place \cup {Nowhere}
       /\ dirShells[s].names \in [EnvName -> Cell] /\ dirShells[s].before \in [EnvName -> Cell]
       /\ dirShells[s].table \in [Abbreviation -> Cell]
       /\ dirShells[s].loaded \in LoadRecord /\ dirShells[s].record \in LoadRecord
       /\ ownNames[s] \in [EnvName -> Cell]

(* Leaving puts everything back: a shell that has no directory environment *)
(* loaded has its variables, aliases, functions and abbreviations as they  *)
(* would be had it never been in one - however it came to hold one, by     *)
(* walking in, by a file that failed half way, by being started inside.    *)
(* What is set by hand while the directory holds the name goes with the    *)
(* directory (Direnv::unload, carry.rs, Direnv::adopting).                 *)
LeavingRestores ==
  \A s \in DirShell : dirShells[s].pc = "idle" /\ dirShells[s].loaded = NotLoaded => dirShells[s].names = ownNames[s]

(* An edit is noticed: whenever arriving would find nothing to do, what is *)
(* loaded came from the file as it is now, whatever was written to it      *)
(* while it was being run (the stamp in Direnv::load).                     *)
EditsAreNoticed ==
  \A s \in DirShell :
    dirShells[s].pc = "idle" /\ UpToDate(s) => dirShells[s].loaded.ran = envFile[dirShells[s].loaded.owner].stamp
=============================================================================
