--------------------------- MODULE StoresProofs ---------------------------
(***************************************************************************)
(* The components beside HistorySync that MCStores composes, for any       *)
(* number of machines, editors, shells and directories: named records and  *)
(* their sync (NamedStores), directory environments (DirEnv), universal    *)
(* variables (Universal) and the macros of one machine (MacroFiles).  They *)
(* share no state, and no proof uses another's but for the facts about     *)
(* replacing a file (Replacement), which the last two both stand on.       *)
(***************************************************************************)
EXTENDS NamedStores, DirEnv, Universal, MacroFiles, StampProofs, SequenceTheorems,
  FiniteSetTheorems

-----------------------------------------------------------------------------
(***************************************************************************)
(* What NamedStores promises, for any number of machines and editors and   *)
(* any number of edits.  A session is followed by what stands: a record    *)
(* stands over a stamp that does not beat it, and whatever a session began *)
(* with must stand, first in one of the copies it compares and at the end  *)
(* in both stores.                                                         *)
(***************************************************************************)
USE NamedAssumption, NoRecordAssumption

Stands(r, w) == r # None /\ ~ WinsOver(w, r)

\* A session is between two machines.
Between ==
  merge.pc # "idle" => merge.near \in Holder /\ merge.far \in Holder /\ merge.near # merge.far

HeldWereDrawn == \A r \in Held : Mark(r) \in drawn

StandsSomewhere ==
  \A had \in merge.began :
    /\ merge.pc = "asked" => Stands(kept[merge.near], had) \/ Stands(merge.theirs, had)
    /\ merge.pc = "near" => Stands(merge.mine, had) \/ Stands(merge.theirs, had)
    /\ merge.pc \in {"merged", "far"} => Stands(kept[merge.near], had) /\ Stands(merge.theirs, had)
    /\ merge.pc = "done" => Stands(kept[merge.near], had) /\ Stands(kept[merge.far], had)

\* What a session has read of a store, the store has not gone back behind.
ReadStands ==
  merge.mine # None =>
    /\ merge.pc = "near" => Stands(kept[merge.near], Mark(merge.mine))
    /\ merge.pc = "far" => Stands(kept[merge.far], Mark(merge.mine))

\* With nobody editing, what is in hand is what is in the stores.
QuietAgrees ==
  /\ merge.pc \in {"asked", "near"} => merge.theirs = kept[merge.far]
  /\ merge.pc = "near" => merge.mine = kept[merge.near]
  /\ merge.pc \in {"merged", "far"} =>
       /\ merge.theirs = kept[merge.near]
       /\ Merged(kept[merge.far], merge.theirs) = merge.theirs
  /\ merge.pc = "far" => merge.mine = kept[merge.far]
  /\ merge.pc = "done" => kept[merge.near] = kept[merge.far]

NamedInv ==
  /\ NamedTypeOK
  /\ Between
  /\ HeldWereDrawn
  /\ SameStampSameRecord
  /\ ~ merge.overtaken => StandsSomewhere /\ ReadStands
  /\ merge.quiet => QuietAgrees

-----------------------------------------------------------------------------
(***************************************************************************)
(* Records, and what stands.                                               *)
(***************************************************************************)
\* A record's mark is a stamp.
LEMMA MarkOfRecord ==
  ASSUME NEW r \in Record
  PROVE  Mark(r) \in Stamp
BY DEF Record, Mark, Stamp

\* A record stands over its own stamp.
LEMMA StandsOverItself ==
  ASSUME NEW r \in Record
  PROVE  Stands(r, Mark(r))
<1>1. ~ WinsOver(Mark(r), Mark(r))
  BY MarkOfRecord, WinsOverIsAsymmetric
<1>2. ~ WinsOver(Mark(r), r)
  BY <1>1 DEF WinsOver, Mark
<1> QED BY <1>2 DEF Stands

\* What wins over a record stands wherever the record stood.
LEMMA WinnerStands ==
  ASSUME NEW r \in Record, NEW s \in Record, NEW w \in Stamp,
         WinsOver(s, r) \/ ~ WinsOver(r, s), Stands(r, w)
  PROVE  Stands(s, w)
<1>1. Mark(r) \in Stamp /\ Mark(s) \in Stamp
  BY MarkOfRecord
<1>2. ~ WinsOver(w, Mark(r))
  BY DEF Stands, WinsOver, Mark
<1>3. Mark(s) = Mark(r) \/ WinsOver(Mark(s), Mark(r))
  BY <1>1, WinsOverMarks, WinsOverIsTotal
<1>4. ~ WinsOver(w, Mark(s))
  BY <1>1, <1>2, <1>3, StandsOver
<1>5. ~ WinsOver(w, s)
  BY <1>4 DEF WinsOver, Mark
<1> QED BY <1>5 DEF Stands

\* The survivor of a merge stands wherever either copy did, and is one of them.
LEMMA MergedStands ==
  ASSUME NEW a \in Record \cup {None}, NEW b \in Record \cup {None}, NEW w \in Stamp,
         Stands(a, w) \/ Stands(b, w)
  PROVE  Stands(Merged(a, b), w)
<1>1. CASE a = None \/ b = None
  BY <1>1 DEF Merged, Stands
<1>2. CASE a # None /\ b # None
  <2>1. a \in Record /\ b \in Record
    BY <1>2
  <2>2. Merged(a, b) = IF WinsOver(b, a) THEN b ELSE a
    BY <1>2 DEF Merged, Preferred
  <2>3. CASE WinsOver(b, a)
    <3>1. ~ WinsOver(a, b)
      BY <2>1, <2>3, MarkOfRecord, WinsOverMarks, WinsOverIsAsymmetric
    <3> QED BY <2>1, <2>2, <2>3, <3>1, WinnerStands
  <2>4. CASE ~ WinsOver(b, a)
    BY <2>1, <2>2, <2>4, WinnerStands
  <2> QED BY <2>3, <2>4
<1> QED BY <1>1, <1>2

\* A merge makes no record of its own.
LEMMA MergedIsOneOf ==
  ASSUME NEW a \in Record \cup {None}, NEW b \in Record \cup {None}
  PROVE  /\ Merged(a, b) \in {a, b}
         /\ Merged(a, b) = None => a = None /\ b = None
         /\ a # None /\ Merged(a, b) # a => Merged(a, b) = b /\ b # None /\ WinsOver(b, a)
BY DEF Merged, Preferred

\* Merging the survivor again, at the other end, changes nothing.
LEMMA MergedAgain ==
  ASSUME NEW a \in Record \cup {None}, NEW b \in Record \cup {None},
         a # None /\ b # None /\ Mark(a) = Mark(b) => a = b
  PROVE  Merged(b, Merged(a, b)) = Merged(a, b)
<1>1. CASE a = None \/ b = None
  <2>1. ASSUME a # None PROVE ~ WinsOver(a, a)
    BY <2>1, MarkOfRecord, WinsOverMarks, WinsOverIsAsymmetric
  <2>2. ASSUME b # None PROVE ~ WinsOver(b, b)
    BY <2>2, MarkOfRecord, WinsOverMarks, WinsOverIsAsymmetric
  <2> QED BY <1>1, <2>1, <2>2 DEF Merged, Preferred
<1>2. CASE a # None /\ b # None
  <2>1. Mark(a) \in Stamp /\ Mark(b) \in Stamp /\ a \in Record /\ b \in Record
    BY <1>2, MarkOfRecord
  <2>2. CASE WinsOver(b, a)
    <3>1. ~ WinsOver(b, b)
      BY <2>1, WinsOverMarks, WinsOverIsAsymmetric
    <3> QED BY <1>2, <2>2, <3>1 DEF Merged, Preferred
  <2>3. CASE ~ WinsOver(b, a)
    <3>1. a = b \/ WinsOver(a, b)
      BY <1>2, <2>1, <2>3, WinsOverMarks, WinsOverIsTotal
    <3>2. ~ WinsOver(a, a)
      BY <2>1, WinsOverMarks, WinsOverIsAsymmetric
    <3> QED BY <1>2, <2>3, <3>1, <3>2 DEF Merged, Preferred
  <2> QED BY <2>2, <2>3
<1> QED BY <1>1, <1>2

-----------------------------------------------------------------------------
(***************************************************************************)
(* Edits.                                                                  *)
(***************************************************************************)
\* What an edit writes has a stamp of its own, and wins over what the editor had read.
LEMMA AdvancedRises ==
  ASSUME NEW before \in Record \cup {None}, NEW new \in Advanced(before)
  PROVE  /\ new \in Record /\ Mark(new) \notin drawn
         /\ before # None => WinsOver(new, before)
<1>1. new \in Record /\ Mark(new) \notin drawn /\ new.revision = CountedFrom(before) + 1
  BY DEF Advanced
<1>2. ASSUME before # None PROVE WinsOver(new, before)
  <2>1. before.revision \in Nat /\ new.revision = before.revision + 1
    BY <1>1, <1>2, StampAssumption DEF CountedFrom, Record, Revision
  <2> QED BY <2>1 DEF WinsOver
<1> QED BY <1>1, <1>2

\* An editor that has read holds what was held before.
LEMMA BeginEditKeeps ==
  ASSUME NamedInv, NEW e \in Editor, NEW m \in Holder, BeginEdit(e, m)
  PROVE  NamedInv'
<1> USE DEF NamedInv
<1>1. edit' = [edit EXCEPT ![e] = [at |-> m, before |-> kept[m]]] /\ UNCHANGED <<kept, merge, drawn>>
  BY DEF BeginEdit
<1>2. kept[m] \in Record \cup {None} /\ edit \in [Editor -> [at : Holder, before : Record \cup {None}] \cup {None}]
  BY DEF NamedTypeOK
<1>3. NamedTypeOK'
  BY <1>1, <1>2 DEF NamedTypeOK
<1>4. \A f \in Editor \ {e} : edit'[f] = edit[f]
  BY <1>1, <1>2
<1>5. edit'[e].before = kept[m]
  BY <1>1, <1>2
<1>6. Held' \subseteq Held
  BY <1>1, <1>4, <1>5 DEF Held
<1>7. HeldWereDrawn' /\ SameStampSameRecord'
  BY <1>1, <1>6 DEF HeldWereDrawn, SameStampSameRecord
<1>8. Between' /\ (~ merge'.overtaken => StandsSomewhere' /\ ReadStands')
        /\ (merge'.quiet => QuietAgrees')
  BY <1>1 DEF Between, StandsSomewhere, ReadStands, QuietAgrees
<1> QED BY <1>3, <1>7, <1>8

\* Whoever finishes an edit writes a new record, and nothing else is disturbed.
LEMMA FinishEditWrites ==
  ASSUME NamedInv, NEW e \in Editor, FinishEdit(e)
  PROVE  \E new \in Record :
           /\ Mark(new) \notin drawn
           /\ edit[e] # None /\ edit[e].at \in Holder /\ edit[e].before \in Record \cup {None}
           /\ edit[e].before # None => WinsOver(new, edit[e].before)
           /\ kept' = [kept EXCEPT ![edit[e].at] = new]
           /\ drawn' = drawn \cup {Mark(new)}
           /\ edit' = [edit EXCEPT ![e] = None]
<1>1. edit[e] \in [at : Holder, before : Record \cup {None}]
  BY DEF NamedInv, NamedTypeOK, FinishEdit
<1>2. PICK new \in Advanced(edit[e].before) :
        kept' = [kept EXCEPT ![edit[e].at] = new] /\ drawn' = drawn \cup {Mark(new)}
  BY DEF FinishEdit
<1>3. edit[e].before \in Record \cup {None} /\ edit[e].at \in Holder
  BY <1>1
<1>4. edit[e] # None /\ edit' = [edit EXCEPT ![e] = None]
  BY DEF FinishEdit
<1>5. new \in Record /\ Mark(new) \notin drawn
        /\ (edit[e].before # None => WinsOver(new, edit[e].before))
  BY <1>2, <1>3, AdvancedRises
<1> QED BY <1>2, <1>3, <1>4, <1>5

\* A session an editor writes into is no longer quiet, and is overtaken by who had not read.
LEMMA FinishEditMerge ==
  ASSUME NamedInv, NEW e \in Editor, FinishEdit(e)
  PROVE  /\ merge' \in [pc : {merge.pc}, near : {merge.near}, far : {merge.far},
                        mine : {merge.mine}, theirs : {merge.theirs}, began : {merge.began},
                        quiet : {merge.pc = "idle"}, overtaken : BOOLEAN]
         /\ ~ merge'.overtaken /\ merge.pc # "idle" =>
              ~ merge.overtaken /\ edit[e].before = kept[edit[e].at]
BY DEF FinishEdit, NamedInv, NamedTypeOK

\* A finished edit is drawn fresh, and stands where it was read.
LEMMA FinishEditKeeps ==
  ASSUME NamedInv, NEW e \in Editor, FinishEdit(e)
  PROVE  NamedInv'
<1> USE DEF NamedInv
<1>1. PICK new \in Record :
           /\ Mark(new) \notin drawn
           /\ edit[e] # None /\ edit[e].at \in Holder /\ edit[e].before \in Record \cup {None}
           /\ edit[e].before # None => WinsOver(new, edit[e].before)
           /\ kept' = [kept EXCEPT ![edit[e].at] = new]
           /\ drawn' = drawn \cup {Mark(new)}
           /\ edit' = [edit EXCEPT ![e] = None]
  BY FinishEditWrites
<1>2. /\ merge'.pc = merge.pc /\ merge'.near = merge.near /\ merge'.far = merge.far
      /\ merge'.mine = merge.mine /\ merge'.theirs = merge.theirs /\ merge'.began = merge.began
      /\ (merge'.quiet <=> merge.pc = "idle") /\ merge'.overtaken \in BOOLEAN
      /\ ~ merge'.overtaken /\ merge.pc # "idle" =>
           ~ merge.overtaken /\ edit[e].before = kept[edit[e].at]
  BY FinishEditMerge
<1>3. kept \in [Holder -> Record \cup {None}] /\ Mark(new) \in Stamp
  BY MarkOfRecord DEF NamedTypeOK
<1>4. NamedTypeOK'
  <2>1. merge' \in [pc : {"idle", "asked", "near", "merged", "far", "done"},
                    near : Holder \cup {None}, far : Holder \cup {None},
                    mine : Record \cup {None}, theirs : Record \cup {None},
                    began : SUBSET Stamp, quiet : BOOLEAN, overtaken : BOOLEAN]
    BY FinishEditMerge DEF NamedTypeOK
  <2> QED BY <1>1, <1>3, <2>1 DEF NamedTypeOK
<1>5. Held' \subseteq Held \cup {new}
  <2>1. \A f \in Editor : edit'[f] # None => edit'[f] = edit[f]
    BY <1>1 DEF NamedTypeOK
  <2>2. \A m \in Holder : kept'[m] \in {kept[m], new}
    BY <1>1, <1>3
  <2> QED BY <1>2, <2>1, <2>2 DEF Held
<1>6. HeldWereDrawn' /\ SameStampSameRecord'
  BY <1>1, <1>5 DEF HeldWereDrawn, SameStampSameRecord
<1>7. Between'
  BY <1>2 DEF Between
<1>8. ASSUME NEW m \in Holder, NEW w \in Stamp, Stands(kept[m], w),
             edit[e].before = kept[edit[e].at]
      PROVE  Stands(kept'[m], w)
  <2>1. CASE m = edit[e].at
    <3>1. kept[m] \in Record /\ kept'[m] = new /\ WinsOver(new, kept[m])
      BY <1>1, <1>3, <1>8, <2>1 DEF Stands
    <3> QED BY <1>8, <3>1, WinnerStands
  <2>2. CASE m # edit[e].at
    BY <1>1, <1>3, <1>8, <2>2
  <2> QED BY <2>1, <2>2
<1>9. ASSUME ~ merge'.overtaken PROVE StandsSomewhere' /\ ReadStands'
  <2>1. CASE merge.pc = "idle"
    BY <1>2, <2>1 DEF StandsSomewhere, ReadStands
  <2>2. CASE merge.pc # "idle"
    <3>1. StandsSomewhere /\ ReadStands /\ edit[e].before = kept[edit[e].at]
            /\ merge.near \in Holder /\ merge.far \in Holder
      BY <1>2, <1>9, <2>2 DEF Between
    <3>2. merge.began \subseteq Stamp /\ (merge.mine # None => Mark(merge.mine) \in Stamp)
      BY MarkOfRecord DEF NamedTypeOK
    <3>3. \A m \in {merge.near, merge.far}, w \in Stamp :
            Stands(kept[m], w) => Stands(kept'[m], w)
      BY <1>8, <3>1
    <3>4. StandsSomewhere'
      <4> SUFFICES ASSUME NEW had \in merge.began
                   PROVE  StandsSomewhere!(had)'
        BY <1>2 DEF StandsSomewhere
      <4> QED BY <1>2, <3>1, <3>2, <3>3 DEF StandsSomewhere
    <3>5. ReadStands'
      BY <1>2, <3>1, <3>2, <3>3 DEF ReadStands
    <3> QED BY <3>4, <3>5
  <2> QED BY <2>1, <2>2
<1>10. merge'.quiet => QuietAgrees'
  BY <1>2 DEF QuietAgrees
<1> QED BY <1>4, <1>6, <1>7, <1>9, <1>10

-----------------------------------------------------------------------------
(***************************************************************************)
(* Sessions.                                                               *)
(***************************************************************************)
LEMMA AskKeeps ==
  ASSUME NamedInv, NEW near \in Holder, NEW far \in Holder, Ask(near, far)
  PROVE  NamedInv'
<1> USE DEF NamedInv
<1>1. /\ merge'.pc = "asked" /\ merge'.near = near /\ merge'.far = far /\ near # far
      /\ merge'.mine = None /\ merge'.theirs = kept[far]
      /\ merge'.began = {Mark(kept[m]) : m \in {n \in {near, far} : kept[n] # None}}
      /\ merge'.quiet = TRUE /\ merge'.overtaken = FALSE
      /\ UNCHANGED <<kept, edit, drawn>>
  BY DEF Ask, NoMerge
<1>2. kept \in [Holder -> Record \cup {None}]
  BY DEF NamedTypeOK
<1>3. merge'.began \subseteq Stamp
  BY <1>1, <1>2, MarkOfRecord
<1>4. NamedTypeOK'
  <2>1. merge' = [pc |-> "asked", near |-> near, far |-> far, mine |-> None,
                  theirs |-> kept[far], began |-> merge'.began, quiet |-> TRUE,
                  overtaken |-> FALSE]
    BY DEF Ask, NoMerge
  <2> QED BY <1>1, <1>2, <1>3, <2>1 DEF NamedTypeOK
<1>5. Held' \subseteq Held
  BY <1>1 DEF Held
<1>6. HeldWereDrawn' /\ SameStampSameRecord' /\ Between'
  BY <1>1, <1>5 DEF HeldWereDrawn, SameStampSameRecord, Between
<1>7. StandsSomewhere'
  <2> SUFFICES ASSUME NEW had \in merge'.began
               PROVE  Stands(kept[near], had) \/ Stands(kept[far], had)
    BY <1>1 DEF StandsSomewhere
  <2>1. PICK m \in {near, far} : kept[m] # None /\ had = Mark(kept[m])
    BY <1>1
  <2> QED BY <1>2, <2>1, StandsOverItself
<1>8. ReadStands' /\ QuietAgrees'
  BY <1>1 DEF ReadStands, QuietAgrees
<1> QED BY <1>4, <1>6, <1>7, <1>8

\* Reading a store brings into hand what is there.
LEMMA ReadSideKeeps ==
  ASSUME NamedInv, ReadNear \/ ReadFar
  PROVE  NamedInv'
<1> USE DEF NamedInv
<1> DEFINE m == IF merge.pc = "asked" THEN merge.near ELSE merge.far
           next == IF merge.pc = "asked" THEN "near" ELSE "far"
<1>1. /\ merge.pc \in {"asked", "merged"} /\ UNCHANGED <<kept, edit, drawn>>
      /\ merge' = [merge EXCEPT !.pc = next, !.mine = kept[m]]
  BY DEF ReadNear, ReadFar, ReadSide
<1>2. m \in Holder /\ kept \in [Holder -> Record \cup {None}]
  BY <1>1 DEF NamedTypeOK, Between
<1>3. /\ merge'.pc = next /\ merge'.near = merge.near /\ merge'.far = merge.far
      /\ merge'.mine = kept[m] /\ merge'.theirs = merge.theirs /\ merge'.began = merge.began
      /\ merge'.quiet = merge.quiet /\ merge'.overtaken = merge.overtaken
  BY <1>1 DEF NamedTypeOK
<1>4. NamedTypeOK'
  BY <1>1, <1>2 DEF NamedTypeOK
<1>5. Held' \subseteq Held
  BY <1>1, <1>2, <1>3 DEF Held
<1>6. HeldWereDrawn' /\ SameStampSameRecord' /\ Between'
  BY <1>1, <1>3, <1>5 DEF HeldWereDrawn, SameStampSameRecord, Between
<1>7. ASSUME ~ merge.overtaken PROVE StandsSomewhere' /\ ReadStands'
  <2>1. StandsSomewhere'
    BY <1>1, <1>3, <1>7 DEF StandsSomewhere
  <2>2. kept[m] # None => Stands(kept[m], Mark(kept[m]))
    BY <1>2, StandsOverItself
  <2>3. ReadStands'
    BY <1>1, <1>3, <2>2 DEF ReadStands
  <2> QED BY <2>1, <2>3
<1>8. merge.quiet => QuietAgrees'
  BY <1>1, <1>3 DEF QuietAgrees
<1> QED BY <1>3, <1>4, <1>6, <1>7, <1>8

(***************************************************************************)
(* The loser gives way to the winner, which goes on to the other side.     *)
(***************************************************************************)
LEMMA WriteLoserKeeps ==
  ASSUME NamedInv, WriteNear \/ WriteFar
  PROVE  NamedInv'
<1> USE DEF NamedInv
<1> DEFINE m == IF merge.pc = "near" THEN merge.near ELSE merge.far
           next == IF merge.pc = "near" THEN "merged" ELSE "done"
           won == Merged(merge.mine, merge.theirs)
           late == merge.overtaken \/ (won # merge.mine /\ kept[m] # merge.mine)
<1>1. /\ merge.pc \in {"near", "far"} /\ UNCHANGED <<edit, drawn>>
      /\ kept' = IF won = merge.mine THEN kept ELSE [kept EXCEPT ![m] = won]
      /\ merge' = [merge EXCEPT !.pc = next, !.mine = None, !.theirs = won, !.overtaken = late]
  BY DEF WriteNear, WriteFar, WriteLoser, HandedBack
<1>2. /\ m \in Holder /\ kept \in [Holder -> Record \cup {None}]
      /\ merge.near \in Holder /\ merge.far \in Holder /\ merge.near # merge.far
      /\ merge.mine \in Record \cup {None} /\ merge.theirs \in Record \cup {None}
      /\ merge.began \subseteq Stamp
  BY <1>1 DEF NamedTypeOK, Between
<1>3. won \in {merge.mine, merge.theirs} /\ won \in Record \cup {None}
        /\ (won = None => merge.mine = None)
  BY <1>2, MergedIsOneOf
<1> HIDE DEF won
<1>4. /\ merge'.pc = next /\ merge'.near = merge.near /\ merge'.far = merge.far
      /\ merge'.mine = None /\ merge'.theirs = won /\ merge'.began = merge.began
      /\ merge'.quiet = merge.quiet /\ merge'.overtaken = late
  BY <1>1 DEF NamedTypeOK
<1>5. NamedTypeOK'
  <2>1. late \in BOOLEAN /\ next \in {"merged", "done"}
    BY DEF NamedTypeOK
  <2>2. merge' = [merge EXCEPT !.pc = next, !.mine = None, !.theirs = won, !.overtaken = late]
    BY <1>1
  <2>3. kept' \in [Holder -> Record \cup {None}]
    BY <1>1, <1>2, <1>3
  <2>4. UNCHANGED <<edit, drawn>>
    BY <1>1
  <2> HIDE DEF late, next
  <2> QED BY <1>3, <2>1, <2>2, <2>3, <2>4 DEF NamedTypeOK
<1>6. Held' \subseteq Held
  BY <1>1, <1>2, <1>3, <1>4 DEF Held
<1>7. HeldWereDrawn' /\ SameStampSameRecord' /\ Between'
  BY <1>1, <1>4, <1>6 DEF HeldWereDrawn, SameStampSameRecord, Between
<1>8. \A n \in Holder : kept'[n] = IF n = m /\ won # merge.mine THEN won ELSE kept[n]
  BY <1>1, <1>2
<1>9. ASSUME ~ merge'.overtaken PROVE StandsSomewhere' /\ ReadStands'
  <2>1. ~ merge.overtaken /\ (won # merge.mine => kept[m] = merge.mine)
    BY <1>4, <1>9
  <2>2. StandsSomewhere /\ ReadStands
    BY <2>1
  <2>3. ASSUME NEW had \in merge.began
        PROVE  Stands(won, had) /\ Stands(kept'[m], had)
    <3>1. Stands(merge.mine, had) \/ Stands(merge.theirs, had)
      BY <1>1, <2>2 DEF StandsSomewhere
    <3>2. Stands(won, had)
      BY <1>2, <3>1, MergedStands DEF won
    <3>3. CASE won # merge.mine
      BY <1>2, <1>8, <3>2, <3>3
    <3>4. CASE won = merge.mine
      <4>1. merge.mine \in Record /\ kept'[m] = kept[m]
        BY <1>2, <1>8, <3>2, <3>4 DEF Stands
      <4>2. Stands(kept[m], Mark(merge.mine))
        BY <1>1, <2>2, <4>1 DEF ReadStands
      <4>3. kept[m] \in Record /\ ~ WinsOver(merge.mine, kept[m])
        BY <1>2, <4>2 DEF Stands, WinsOver, Mark
      <4>4. Stands(merge.mine, had) /\ had \in Stamp
        BY <1>2, <3>2, <3>4
      <4>5. Stands(kept[m], had)
        <5> HIDE DEF m
        <5> QED BY <4>1, <4>3, <4>4, WinnerStands
      <4> QED BY <3>2, <4>1, <4>5
    <3> QED BY <3>2, <3>3, <3>4
  <2>4. ASSUME merge.pc = "far", NEW had \in merge.began
        PROVE  Stands(kept'[merge.near], had)
    BY <1>2, <1>8, <2>2, <2>4 DEF StandsSomewhere
  <2>5. StandsSomewhere'
    BY <1>1, <1>4, <2>3, <2>4 DEF StandsSomewhere
  <2> QED BY <1>4, <2>5 DEF ReadStands
<1>10. ASSUME merge.quiet PROVE QuietAgrees'
  <2>1. QuietAgrees
    BY <1>10
  <2>2. CASE merge.pc = "near"
    <3>1. merge.mine = kept[merge.near] /\ merge.theirs = kept[merge.far] /\ m = merge.near
            /\ next = "merged"
      BY <2>1, <2>2 DEF QuietAgrees
    <3>2. kept'[merge.near] = won /\ kept'[merge.far] = kept[merge.far]
      BY <1>2, <1>8, <3>1
    <3>3. merge.mine # None /\ merge.theirs # None /\ Mark(merge.mine) = Mark(merge.theirs)
            => merge.mine = merge.theirs
      BY DEF SameStampSameRecord, Held
    <3>4. Merged(merge.theirs, won) = won
      BY <1>2, <3>3, MergedAgain DEF won
    <3> QED BY <1>4, <3>1, <3>2, <3>4 DEF QuietAgrees
  <2>3. CASE merge.pc = "far"
    <3>1. /\ merge.theirs = kept[merge.near] /\ merge.mine = kept[merge.far]
          /\ Merged(kept[merge.far], merge.theirs) = merge.theirs
          /\ m = merge.far /\ next = "done"
      BY <2>1, <2>3 DEF QuietAgrees
    <3>2. won = merge.theirs
      BY <3>1 DEF won
    <3>3. kept'[merge.near] = kept[merge.near] /\ kept'[merge.far] = won
      BY <1>2, <1>8, <3>1
    <3> QED BY <1>4, <3>1, <3>2, <3>3 DEF QuietAgrees
  <2> QED BY <1>1, <2>2, <2>3
<1> QED BY <1>4, <1>5, <1>7, <1>9, <1>10

\* A session that is left has nothing in hand.
LEMMA LeaveKeeps ==
  ASSUME NamedInv, Leave
  PROVE  NamedInv'
<1> USE DEF NamedInv
<1>1. merge' = NoMerge /\ UNCHANGED <<kept, edit, drawn>>
  BY DEF Leave
<1>2. NamedTypeOK'
  BY <1>1 DEF NamedTypeOK, NoMerge
<1>3. Held' \subseteq Held
  BY <1>1 DEF Held, NoMerge
<1> QED BY <1>1, <1>2, <1>3 DEF HeldWereDrawn, SameStampSameRecord, Between, StandsSomewhere,
           ReadStands, QuietAgrees, NoMerge

-----------------------------------------------------------------------------
\* At the start nothing is held.
LEMMA InitNamedInv ==
  ASSUME NamedInit
  PROVE  NamedInv
<1>1. NamedTypeOK
  BY DEF NamedInit, NamedTypeOK, NoMerge
<1>2. Held = {}
  BY DEF NamedInit, Held, NoMerge
<1> QED BY <1>1, <1>2 DEF NamedInit, NamedInv, HeldWereDrawn, SameStampSameRecord, Between,
           StandsSomewhere, ReadStands, QuietAgrees, NoMerge

\* Each step keeps the invariant.
LEMMA NextNamedInv ==
  ASSUME NamedInv, [NamedNext]_namedVars
  PROVE  NamedInv'
<1>1. CASE UNCHANGED namedVars
  BY <1>1 DEF namedVars, NamedInv, NamedTypeOK, HeldWereDrawn, SameStampSameRecord, Held, Between,
              StandsSomewhere, ReadStands, QuietAgrees
<1>2. CASE NamedNext
  BY <1>2, FinishEditKeeps, BeginEditKeeps, AskKeeps, ReadSideKeeps, WriteLoserKeeps, LeaveKeeps
     DEF NamedNext
<1> QED BY <1>1, <1>2

\* What a session began with stands, somewhere, in every reachable state.
THEOREM NamedInvariant == NamedSpec => []NamedInv
<1>1. NamedInit => NamedInv
  BY InitNamedInv
<1>2. NamedInv /\ [NamedNext]_namedVars => NamedInv'
  BY NextNamedInv
<1> QED BY <1>1, <1>2, PTL DEF NamedSpec

\* Type correctness, for any number of machines, editors and revisions.
THEOREM NamedTypes == NamedSpec => []NamedTypeOK
<1>1. NamedInv => NamedTypeOK
  BY DEF NamedInv
<1> QED BY <1>1, NamedInvariant, PTL

(***************************************************************************)
(* settle() may stop at the stamps: two records of one name that carry one *)
(* stamp are one record, on any machine and in any hand.                   *)
(***************************************************************************)
THEOREM StampsNameRecords == NamedSpec => []SameStampSameRecord
<1>1. NamedInv => SameStampSameRecord
  BY DEF NamedInv
<1> QED BY <1>1, NamedInvariant, PTL

(***************************************************************************)
(* "Both stores come out holding the union" (macros/sync.rs), unless a     *)
(* write went over a record its writer had not read.                       *)
(***************************************************************************)
THEOREM UnionIsLeft == NamedSpec => []SessionLeavesUnion
<1>1. NamedInv => SessionLeavesUnion
  BY DEF NamedInv, SessionLeavesUnion, QuietAgrees, StandsSomewhere, Stands
<1> QED BY <1>1, NamedInvariant, PTL

(***************************************************************************)
(* What a machine keeps gives way only to what wins over it, or to a       *)
(* writer that had read something else.                                    *)
(***************************************************************************)
THEOREM EditsStickHolds == NamedSpec => EditsStick
<1> DEFINE Sticks(m) ==
      kept'[m] # kept[m] /\ kept[m] # None =>
         \/ kept'[m] # None /\ WinsOver(kept'[m], kept[m])
         \/ \E e \in Editor : edit[e] # None /\ edit'[e] = None /\ edit[e].before # kept[m]
         \/ merge.pc \in {"near", "far"} /\ merge.mine # kept[m]
<1>1. NamedInv /\ [NamedNext]_namedVars => [\A m \in Holder : Sticks(m)]_namedVars
  <2> SUFFICES ASSUME NamedInv, NamedNext, NEW m \in Holder, kept'[m] # kept[m], kept[m] # None
               PROVE  Sticks(m)
    OBVIOUS
  <2>t. kept \in [Holder -> Record \cup {None}] /\ edit \in [Editor -> [at : Holder, before : Record \cup {None}] \cup {None}]
    BY DEF NamedInv, NamedTypeOK
  <2>1. CASE \E e \in Editor : FinishEdit(e)
    <3>1. PICK e \in Editor : FinishEdit(e)
      BY <2>1
    <3>2. PICK new \in Record :
           /\ edit[e] # None /\ edit[e].at \in Holder /\ edit[e].before \in Record \cup {None}
           /\ edit[e].before # None => WinsOver(new, edit[e].before)
           /\ kept' = [kept EXCEPT ![edit[e].at] = new]
           /\ edit' = [edit EXCEPT ![e] = None]
      BY <3>1, FinishEditWrites
    <3>3. m = edit[e].at /\ kept'[m] = new /\ edit'[e] = None
      BY <2>t, <3>2
    <3> QED BY <3>2, <3>3
  <2>2. CASE WriteNear \/ WriteFar
    <3>1. merge.pc \in {"near", "far"} /\ kept'[m] = Merged(merge.mine, merge.theirs)
            /\ Merged(merge.mine, merge.theirs) # merge.mine
      BY <2>t, <2>2 DEF WriteNear, WriteFar, WriteLoser
    <3>2. merge.mine \in Record \cup {None} /\ merge.theirs \in Record \cup {None}
      BY DEF NamedInv, NamedTypeOK
    <3> QED BY <3>1, <3>2, MergedIsOneOf
  <2>3. CASE ~ (\E e \in Editor : FinishEdit(e)) /\ ~ (WriteNear \/ WriteFar)
    BY <2>3 DEF NamedNext, BeginEdit, Ask, ReadNear, ReadFar, ReadSide, Leave
  <2> QED BY <2>1, <2>2, <2>3
<1> QED BY <1>1, NamedInvariant, PTL DEF NamedSpec, EditsStick

-----------------------------------------------------------------------------
(***************************************************************************)
(* That leaving a directory restores what it changed and that an edit of   *)
(* its file is noticed, for any number of shells, directories, files and   *)
(* names.                                                                  *)
(***************************************************************************)
(***************************************************************************)
(* The inductive invariant.                                                *)
(***************************************************************************)
\* What is loaded, or the record of it.
Loads == [owner : Place \cup {Nowhere}, stamp : Nat, undo : Undo, ran : Nat]

ShellState ==
  [pc : {"none", "waits", "idle", "passed", "stamped", "ran"},
   at : Place, settled : Place \cup {Nowhere}, names : [EnvName -> Cell],
   table : [Abbreviation -> Cell], loaded : Loads, stale : BOOLEAN, record : Loads,
   reload : BOOLEAN, before : [EnvName -> Cell]]

Typed ==
  /\ envFile \in [Place -> [text : FileText \cup {NoFile}, stamp : Nat]]
  /\ dirShells \in [DirShell -> ShellState]
  /\ ownNames \in [DirShell -> [EnvName -> Cell]]
  /\ spent \in [writes : Nat, hands : Nat]

\* A file that is there has a stamp, and no stamp is from a write to come.
Stamped ==
  \A d \in Place :
    /\ envFile[d].stamp <= spent.writes
    /\ envFile[d].text # NoFile => envFile[d].stamp > 0

\* The record a shell gives its children.
RecordOf(loaded) ==
  IF loaded = NotLoaded THEN NotLoaded
  ELSE [NotLoaded EXCEPT !.owner = loaded.owner, !.undo = Carried(loaded.undo)]

\* A shell that waits could undo what is loaded and have its own names again;
\* one that is loading has its own names, or noted them before the file ran.
Restorable(it, mine) ==
  /\ it.pc \in {"idle", "waits"} =>
       /\ Undone(it.names, it.loaded.undo) = mine
       /\ it.record = RecordOf(it.loaded)
       /\ it.loaded = NotLoaded \/ it.loaded.owner \in Place
  /\ it.pc \in {"passed", "stamped", "ran"} => it.loaded.owner \in Place
  /\ it.pc \in {"passed", "stamped"} => it.names = mine
  /\ it.pc \in {"stamped", "ran"} => it.before = mine

\* What was run under another stamp than the one kept is out of date for good.
Noticed(it, files, writes) ==
  /\ it.loaded.stamp <= writes
  /\ /\ it.pc = "ran" \/ (it.pc = "idle" /\ ~ it.stale)
     /\ it.loaded.stamp > 0 /\ it.loaded.ran # it.loaded.stamp
     => files[it.loaded.owner].stamp # it.loaded.stamp

DirEnvInv ==
  /\ Typed /\ Stamped
  /\ \A s \in DirShell :
       /\ Restorable(dirShells[s], ownNames[s])
       /\ Noticed(dirShells[s], envFile, spent.writes)

-----------------------------------------------------------------------------
(***************************************************************************)
(* What has to be undone.                                                  *)
(***************************************************************************)
\* A record of what to undo gives some names what they were.
LEMMA UndoIs ==
  ASSUME NEW f PROVE f \in Undo <=> DOMAIN f \subseteq EnvName /\ f \in [DOMAIN f -> Cell]
BY DEF Undo

\* There may be nothing in it.
LEMMA NothingIsUndo == NothingToUndo \in Undo /\ NotLoaded \in Loads
<1>1. DOMAIN NothingToUndo = {} /\ NothingToUndo \in [{} -> Cell]
  BY DEF NothingToUndo
<1>2. NothingToUndo \in Undo
  BY <1>1, UndoIs
<1> QED BY <1>2 DEF NotLoaded, Loads

\* Undoing leaves every name with a value (Direnv::unload).
LEMMA UndoneTyped ==
  ASSUME NEW names \in [EnvName -> Cell], NEW undo \in Undo
  PROVE Undone(names, undo) \in [EnvName -> Cell]
<1>1. DOMAIN undo \subseteq EnvName /\ undo \in [DOMAIN undo -> Cell]
  BY UndoIs
<1> QED BY <1>1 DEF Undone, PutBack

\* Undoing nothing changes nothing.
LEMMA UndoneNothing ==
  ASSUME NEW names \in [EnvName -> Cell]
  PROVE Undone(names, NothingToUndo) = names
<1>1. DOMAIN NothingToUndo = {}
  BY DEF NothingToUndo
<1> QED BY <1>1 DEF Undone

\* A child is told of variables only (carry.rs).
LEMMA CarriedTyped ==
  ASSUME NEW undo \in Undo
  PROVE /\ Carried(undo) \in Undo /\ DOMAIN Carried(undo) = DOMAIN undo \cap Variable
        /\ \A n \in DOMAIN Carried(undo) : Carried(undo)[n] = undo[n]
<1>1. DOMAIN undo \subseteq EnvName /\ undo \in [DOMAIN undo -> Cell]
  BY UndoIs
<1>2. /\ DOMAIN Carried(undo) = DOMAIN undo \cap Variable
      /\ \A n \in DOMAIN Carried(undo) : Carried(undo)[n] = undo[n]
  BY DEF Carried
<1>3. Carried(undo) \in [DOMAIN Carried(undo) -> Cell]
  BY <1>1 DEF Carried
<1>4. Carried(undo) \in Undo
  BY <1>1, <1>2, <1>3, UndoIs
<1> QED BY <1>2, <1>4

\* What was noted before a file ran takes back what it did, except to the
\* shell's own functions (diff.rs).
LEMMA ReversedUndoes ==
  ASSUME NEW before \in [EnvName -> Cell], NEW after \in [EnvName -> Cell]
  PROVE /\ Reversed(before, after) \in Undo
        /\ Undone(after, Reversed(before, after)) =
             [n \in EnvName |-> IF n \in Function /\ before[n] # Unset THEN after[n] ELSE before[n]]
<1>1. /\ DOMAIN Reversed(before, after) =
           {n \in EnvName : before[n] # after[n] /\ (n \in Function => before[n] = Unset)}
      /\ Reversed(before, after) \in [DOMAIN Reversed(before, after) -> Cell]
      /\ \A n \in DOMAIN Reversed(before, after) : Reversed(before, after)[n] = before[n]
  BY DEF Reversed
<1>2. Reversed(before, after) \in Undo
  BY <1>1, UndoIs
<1>3. Undone(after, Reversed(before, after)) =
        [n \in EnvName |-> IF n \in Function /\ before[n] # Unset THEN after[n] ELSE before[n]]
  BY <1>1 DEF Undone, PutBack
<1> QED BY <1>2, <1>3

-----------------------------------------------------------------------------
(***************************************************************************)
(* One shell at a time.                                                    *)
(***************************************************************************)
\* Where a shell is and what it was asked for make no difference to what it
\* could restore or has noticed.
LEMMA NotesKeep ==
  ASSUME NEW it, NEW new, NEW mine, NEW files, NEW writes,
         new.pc = it.pc, new.names = it.names, new.loaded = it.loaded,
         new.record = it.record, new.before = it.before, it.stale => new.stale,
         Restorable(it, mine), Noticed(it, files, writes)
  PROVE Restorable(new, mine) /\ Noticed(new, files, writes)
BY DEF Restorable, Noticed

\* Unloading gives a shell its own names back (Direnv::unload).
LEMMA UnloadedIsBack ==
  ASSUME NEW it \in ShellState, NEW mine \in [EnvName -> Cell], Restorable(it, mine), it.pc = "idle"
  PROVE /\ Unloaded(it) \in ShellState /\ Unloaded(it).pc = "idle"
        /\ Unloaded(it).names = mine
        /\ Unloaded(it).loaded = NotLoaded /\ Unloaded(it).record = NotLoaded
<1>1. /\ Undone(it.names, it.loaded.undo) = mine
      /\ it.record = RecordOf(it.loaded)
  BY DEF Restorable
<1>2. CASE it.loaded = NotLoaded
  <2>1. it.names \in [EnvName -> Cell] /\ it.loaded.undo = NothingToUndo
    BY <1>2 DEF ShellState, NotLoaded
  <2>2. it.names = mine
    BY <2>1, <1>1, UndoneNothing
  <2> QED BY <1>1, <1>2, <2>2 DEF Unloaded, RecordOf
<1>3. CASE it.loaded # NotLoaded
  <2>1. Unloaded(it) = [it EXCEPT !.names = mine, !.loaded = NotLoaded, !.record = NotLoaded]
    BY <1>1, <1>3 DEF Unloaded
  <2>2. NotLoaded \in Loads
    BY NothingIsUndo
  <2> QED BY <2>1, <2>2 DEF ShellState
<1> QED BY <1>2, <1>3

\* A shell that is idle, has nothing loaded and has its own names is as it should be.
LEMMA BareIsGood ==
  ASSUME NEW it \in ShellState, NEW mine \in [EnvName -> Cell], NEW files, NEW writes \in Nat,
         it.names = mine, it.loaded = NotLoaded, it.record = NotLoaded, it.pc = "idle"
  PROVE Restorable(it, mine) /\ Noticed(it, files, writes)
<1>1. Undone(it.names, it.loaded.undo) = mine
  BY UndoneNothing DEF NotLoaded
<1>2. it.loaded.stamp = 0
  BY DEF NotLoaded
<1> QED BY <1>1, <1>2 DEF Restorable, Noticed, RecordOf

\* The file that governs is in a directory (find::applicable).
LEMMA GoverningIsPlace ==
  ASSUME Typed, NEW d \in Place
  PROVE Governing(d) \in Place \cup {Nowhere}
<1>1. Above[d] \in Seq(Place)
  BY DirEnvAssumption
<1> QED BY <1>1 DEF Governing

\* Arriving leaves a shell as it should be (Direnv::arrive).
LEMMA ArrivedIsGood ==
  ASSUME DirEnvInv, NEW s \in DirShell, dirShells[s].pc = "idle"
  PROVE LET new == Arrived(s, dirShells[s])
        IN  /\ new \in ShellState
            /\ Restorable(new, ownNames[s]) /\ Noticed(new, envFile, spent.writes)
<1> DEFINE it == dirShells[s]
           mine == ownNames[s]
           owner == Governing(it.at)
           left == [Unloaded(it) EXCEPT !.stale = FALSE]
<1>1. /\ it \in ShellState /\ mine \in [EnvName -> Cell] /\ spent.writes \in Nat
      /\ Restorable(it, mine) /\ Noticed(it, envFile, spent.writes)
  BY DEF DirEnvInv, Typed
<1>2. owner \in Place \cup {Nowhere}
  <2>1. it.at \in Place
    BY <1>1 DEF ShellState
  <2> QED BY <2>1, GoverningIsPlace DEF DirEnvInv
<1>3. /\ left \in ShellState /\ left.pc = "idle" /\ left.names = mine
      /\ left.loaded = NotLoaded /\ left.record = NotLoaded
  <2>1. /\ Unloaded(it) \in ShellState /\ Unloaded(it).pc = "idle"
        /\ Unloaded(it).names = mine
        /\ Unloaded(it).loaded = NotLoaded /\ Unloaded(it).record = NotLoaded
    BY <1>1, UnloadedIsBack
  <2> QED BY <2>1 DEF ShellState
<1>4. Restorable(left, mine) /\ Noticed(left, envFile, spent.writes)
  BY <1>1, <1>3, BareIsGood
<1>5. ASSUME owner # Nowhere
      PROVE LET new == [left EXCEPT !.pc = "passed", !.loaded = [NotLoaded EXCEPT !.owner = owner]]
            IN  /\ new \in ShellState
                /\ Restorable(new, mine) /\ Noticed(new, envFile, spent.writes)
  <2> DEFINE new == [left EXCEPT !.pc = "passed", !.loaded = [NotLoaded EXCEPT !.owner = owner]]
  <2>1. /\ [NotLoaded EXCEPT !.owner = owner] \in Loads
        /\ [NotLoaded EXCEPT !.owner = owner].owner = owner
        /\ [NotLoaded EXCEPT !.owner = owner].stamp = 0
    BY <1>2, NothingIsUndo DEF Loads, NotLoaded
  <2>2. /\ new \in ShellState /\ new.pc = "passed" /\ new.names = mine
        /\ new.loaded = [NotLoaded EXCEPT !.owner = owner]
    BY <1>3, <2>1 DEF ShellState
  <2>3. Restorable(new, mine)
    BY <1>2, <1>5, <2>1, <2>2 DEF Restorable
  <2>4. Noticed(new, envFile, spent.writes)
    <3>1. new.pc = "passed" /\ new.loaded.stamp = 0
      BY <2>1, <2>2
    <3> HIDE DEF new, left
    <3> QED BY <1>1, <3>1 DEF Noticed
  <2> QED BY <2>2, <2>3, <2>4
<1> QED BY <1>1, <1>3, <1>4, <1>5 DEF Arrived

-----------------------------------------------------------------------------
(***************************************************************************)
(* From one shell to all of them.                                          *)
(***************************************************************************)
\* A step that changes one shell and its own names, and nothing the others are
\* measured by, keeps the invariant if that shell is as it should be.
LEMMA OneShell ==
  ASSUME DirEnvInv, NEW s \in DirShell, NEW new \in ShellState, NEW mine \in [EnvName -> Cell],
         dirShells' = [dirShells EXCEPT ![s] = new], ownNames' = [ownNames EXCEPT ![s] = mine],
         envFile' = envFile, spent' \in [writes : Nat, hands : Nat], spent'.writes = spent.writes,
         Restorable(new, mine), Noticed(new, envFile, spent.writes)
  PROVE DirEnvInv'
<1>1. Typed'
  BY DEF DirEnvInv, Typed
<1>2. Stamped'
  BY DEF DirEnvInv, Stamped
<1>3. ASSUME NEW r \in DirShell
      PROVE Restorable(dirShells'[r], ownNames'[r]) /\ Noticed(dirShells'[r], envFile', spent'.writes)
  <2>1. CASE r = s
    BY <2>1 DEF DirEnvInv, Typed
  <2>2. CASE r # s
    <3>1. dirShells'[r] = dirShells[r] /\ ownNames'[r] = ownNames[r]
      BY <2>2 DEF DirEnvInv, Typed
    <3> QED BY <3>1 DEF DirEnvInv
  <2> QED BY <2>1, <2>2
<1> QED BY <1>1, <1>2, <1>3 DEF DirEnvInv

\* The same where its own names stay as they were.
LEMMA OneShellOnly ==
  ASSUME DirEnvInv, NEW s \in DirShell, NEW new \in ShellState,
         dirShells' = [dirShells EXCEPT ![s] = new], ownNames' = ownNames,
         envFile' = envFile, spent' = spent,
         Restorable(new, ownNames[s]), Noticed(new, envFile, spent.writes)
  PROVE DirEnvInv'
<1>1. /\ ownNames[s] \in [EnvName -> Cell] /\ ownNames' = [ownNames EXCEPT ![s] = ownNames[s]]
      /\ spent' \in [writes : Nat, hands : Nat]
  BY DEF DirEnvInv, Typed
<1> QED BY <1>1, OneShell

\* Of every shell the invariant says this.
LEMMA InvOf ==
  ASSUME DirEnvInv, NEW s \in DirShell
  PROVE /\ dirShells[s] \in ShellState /\ ownNames[s] \in [EnvName -> Cell]
        /\ Restorable(dirShells[s], ownNames[s])
        /\ Noticed(dirShells[s], envFile, spent.writes)
        /\ spent.writes \in Nat
BY DEF DirEnvInv, Typed

-----------------------------------------------------------------------------
(***************************************************************************)
(* Loading.                                                                *)
(***************************************************************************)
\* Before a prompt.
LEMMA EachPromptKeeps ==
  ASSUME DirEnvInv, NEW s \in DirShell, EachPrompt(s) PROVE DirEnvInv'
<1> DEFINE new == Arrived(s, dirShells[s])
           last == [new EXCEPT !.settled = dirShells[s].at]
<1>1. new \in ShellState /\ Restorable(new, ownNames[s]) /\ Noticed(new, envFile, spent.writes)
  BY ArrivedIsGood DEF EachPrompt
<1>2. /\ dirShells' = [dirShells EXCEPT ![s] = last]
      /\ ownNames' = ownNames /\ envFile' = envFile /\ spent' = spent
  BY DEF EachPrompt, DirEnvInv, Typed
<1> HIDE DEF new
<1>3. dirShells[s].at \in Place
  BY InvOf DEF ShellState
<1>4. /\ last \in ShellState
      /\ last.pc = new.pc /\ last.names = new.names /\ last.loaded = new.loaded
      /\ last.record = new.record /\ last.before = new.before /\ last.stale = new.stale
  BY <1>1, <1>3 DEF ShellState
<1> HIDE DEF last
<1>5. Restorable(last, ownNames[s]) /\ Noticed(last, envFile, spent.writes)
  BY <1>1, <1>4, NotesKeep
<1> QED BY <1>2, <1>4, <1>5, OneShellOnly

\* After a command that asked for it.
LEMMA ReloadKeeps ==
  ASSUME DirEnvInv, NEW s \in DirShell, Reload(s) PROVE DirEnvInv'
<1> DEFINE new == Arrived(s, dirShells[s])
           last == [new EXCEPT !.reload = FALSE]
<1>1. new \in ShellState /\ Restorable(new, ownNames[s]) /\ Noticed(new, envFile, spent.writes)
  BY ArrivedIsGood DEF Reload
<1>2. /\ dirShells' = [dirShells EXCEPT ![s] = last]
      /\ ownNames' = ownNames /\ envFile' = envFile /\ spent' = spent
  BY DEF Reload, DirEnvInv, Typed
<1> HIDE DEF new
<1>3. /\ last \in ShellState
      /\ last.pc = new.pc /\ last.names = new.names /\ last.loaded = new.loaded
      /\ last.record = new.record /\ last.before = new.before /\ last.stale = new.stale
  BY <1>1 DEF ShellState
<1> HIDE DEF last
<1>4. Restorable(last, ownNames[s]) /\ Noticed(last, envFile, spent.writes)
  BY <1>1, <1>3, NotesKeep
<1> QED BY <1>2, <1>3, <1>4, OneShellOnly

\* The snapshot is of the shell's own names.
LEMMA TakeSnapshotKeeps ==
  ASSUME DirEnvInv, NEW s \in DirShell, TakeSnapshot(s) PROVE DirEnvInv'
<1> DEFINE it == dirShells[s]
           stamp == envFile[it.loaded.owner].stamp
           new == [it EXCEPT !.pc = "stamped", !.before = it.names, !.loaded.stamp = stamp]
<1>1. /\ it \in ShellState /\ ownNames[s] \in [EnvName -> Cell] /\ it.pc = "passed"
      /\ Restorable(it, ownNames[s]) /\ Noticed(it, envFile, spent.writes)
      /\ spent.writes \in Nat
  BY InvOf DEF TakeSnapshot
<1>2. it.loaded.owner \in Place /\ it.names = ownNames[s]
  BY <1>1 DEF Restorable
<1>3. stamp \in Nat /\ stamp <= spent.writes
  BY <1>2 DEF DirEnvInv, Typed, Stamped
<1>4. /\ dirShells' = [dirShells EXCEPT ![s] = new]
      /\ ownNames' = ownNames /\ envFile' = envFile /\ spent' = spent
  BY DEF TakeSnapshot, DirEnvInv, Typed
<1> HIDE DEF stamp
<1>5. /\ new \in ShellState /\ new.pc = "stamped" /\ new.names = it.names /\ new.before = it.names
      /\ new.loaded.owner = it.loaded.owner /\ new.loaded.stamp = stamp
  BY <1>1, <1>3 DEF ShellState, Loads
<1> HIDE DEF new
<1>6. Restorable(new, ownNames[s])
  BY <1>2, <1>5 DEF Restorable
<1>7. Noticed(new, envFile, spent.writes)
  BY <1>3, <1>5 DEF Noticed
<1> QED BY <1>4, <1>5, <1>6, <1>7, OneShellOnly

\* The file is run, to its end or to where it fails.
LEMMA RunFileKeeps ==
  ASSUME DirEnvInv, NEW s \in DirShell, RunFile(s) PROVE DirEnvInv'
<1> DEFINE it == dirShells[s]
           from == envFile[it.loaded.owner]
           last == IF from.text = NoFile THEN 0 ELSE Len(Script[from.text])
           tableAt(k) == [n \in Abbreviation |-> ValueAfter(it.table[n], from.text, k, n)]
           namesAt(k) == [n \in EnvName |-> IF n \notin Abbreviation THEN ValueAfter(it.names[n], from.text, k, n)
                                            ELSE IF tableAt(k)[n] = Unset THEN it.names[n] ELSE tableAt(k)[n]]
           new(k) == [it EXCEPT !.pc = "ran", !.loaded.ran = from.stamp, !.table = tableAt(k), !.names = namesAt(k)]
<1>1. /\ it \in ShellState /\ ownNames[s] \in [EnvName -> Cell] /\ it.pc = "stamped"
      /\ Restorable(it, ownNames[s]) /\ Noticed(it, envFile, spent.writes)
      /\ spent.writes \in Nat
  BY InvOf DEF RunFile
<1>2. it.loaded.owner \in Place /\ it.before = ownNames[s]
  BY <1>1 DEF Restorable
<1>3. from \in [text : FileText \cup {NoFile}, stamp : Nat]
  BY <1>2 DEF DirEnvInv, Typed
<1>4. PICK k \in 0 .. last : dirShells' = [dirShells EXCEPT ![s] = new(k)]
  BY DEF RunFile
<1>5. ownNames' = ownNames /\ envFile' = envFile /\ spent' = spent
  BY DEF RunFile
<1>6. ASSUME NEW value \in Cell, NEW n \in EnvName
      PROVE ValueAfter(value, from.text, k, n) \in Cell
  <2>1. CASE k = 0
    <3>1. 1 .. k = {}
      BY <2>1
    <3> QED BY <3>1 DEF ValueAfter
  <2>2. CASE k # 0
    <3>1. from.text \in FileText /\ 1 .. k \subseteq 1 .. Len(Script[from.text])
      BY <1>3, <2>2, DirEnvAssumption
    <3>2. Script[from.text] \in Seq([name : EnvName, cell : Cell])
      BY <3>1, DirEnvAssumption
    <3>3. \A i \in 1 .. Len(Script[from.text]) : Script[from.text][i] \in [name : EnvName, cell : Cell]
      BY <3>2, ElementOfSeq
    <3>4. \A i \in 1 .. k : Script[from.text][i].cell \in Cell
      BY <3>1, <3>3
    <3> QED BY <3>4 DEF ValueAfter
  <2> QED BY <2>1, <2>2
<1>7. tableAt(k) \in [Abbreviation -> Cell] /\ namesAt(k) \in [EnvName -> Cell]
  <2>1. it.table \in [Abbreviation -> Cell] /\ it.names \in [EnvName -> Cell] /\ Abbreviation \subseteq EnvName
    BY <1>1 DEF ShellState, EnvName
  <2>2. tableAt(k) \in [Abbreviation -> Cell]
    BY <2>1, <1>6
  <2> HIDE DEF from
  <2>3. ASSUME NEW n \in EnvName PROVE namesAt(k)[n] \in Cell
    <3>1. ValueAfter(it.names[n], from.text, k, n) \in Cell
      BY <1>6, <2>1
    <3>2. n \in Abbreviation => tableAt(k)[n] \in Cell
      BY <2>2
    <3> HIDE DEF tableAt
    <3> QED BY <3>1, <3>2, <2>1
  <2> QED BY <2>2, <2>3
<1> HIDE DEF from, tableAt, namesAt, last
<1>8. /\ new(k) \in ShellState /\ new(k).pc = "ran" /\ new(k).before = it.before
      /\ new(k).loaded.owner = it.loaded.owner /\ new(k).loaded.stamp = it.loaded.stamp
      /\ new(k).loaded.ran = from.stamp
  BY <1>1, <1>3, <1>7 DEF ShellState, Loads
<1> HIDE DEF new
<1>9. Restorable(new(k), ownNames[s])
  BY <1>2, <1>8 DEF Restorable
<1>10. Noticed(new(k), envFile, spent.writes)
  <2>1. envFile[new(k).loaded.owner].stamp = new(k).loaded.ran
    BY <1>8 DEF from
  <2> QED BY <2>1, <1>1, <1>8 DEF Noticed
<1> QED BY <1>4, <1>5, <1>8, <1>9, <1>10, OneShellOnly

\* What differs from the snapshot is what leaving puts back.
LEMMA FinishLoadKeeps ==
  ASSUME DirEnvInv, NEW s \in DirShell, FinishLoad(s) PROVE DirEnvInv'
<1> DEFINE it == dirShells[s]
           undo == Reversed(it.before, it.names)
           record == [NotLoaded EXCEPT !.owner = it.loaded.owner, !.undo = Carried(undo)]
           new == [it EXCEPT !.pc = "idle", !.before = StartsAs, !.loaded.undo = undo,
                             !.loaded.stamp = KeptStamp(it), !.record = record]
           mine == [n \in EnvName |->
                     IF n \in Function /\ it.before[n] # Unset THEN it.names[n] ELSE ownNames[s][n]]
<1>1. /\ it \in ShellState /\ ownNames[s] \in [EnvName -> Cell] /\ it.pc = "ran"
      /\ Restorable(it, ownNames[s]) /\ Noticed(it, envFile, spent.writes)
      /\ spent.writes \in Nat
  BY InvOf DEF FinishLoad
<1>2. /\ it.loaded.owner \in Place /\ it.before = ownNames[s]
      /\ it.before \in [EnvName -> Cell] /\ it.names \in [EnvName -> Cell]
  BY <1>1 DEF Restorable, ShellState
<1>3. /\ undo \in Undo
      /\ Undone(it.names, undo) =
           [n \in EnvName |-> IF n \in Function /\ it.before[n] # Unset THEN it.names[n] ELSE it.before[n]]
  BY <1>2, ReversedUndoes
<1>4. Undone(it.names, undo) = mine /\ mine \in [EnvName -> Cell]
  <2>1. Undone(it.names, undo) = mine
    BY <1>2, <1>3
  <2>2. Undone(it.names, undo) \in [EnvName -> Cell]
    BY <1>2, <1>3, UndoneTyped
  <2> QED BY <2>1, <2>2
<1>5. /\ dirShells' = [dirShells EXCEPT ![s] = new]
      /\ ownNames' = [ownNames EXCEPT ![s] = mine] /\ envFile' = envFile /\ spent' = spent
  BY DEF FinishLoad, DirEnvInv, Typed
<1> HIDE DEF undo, mine
<1>6. record \in Loads
  <2>1. Carried(undo) \in Undo
    BY <1>3, CarriedTyped
  <2> QED BY <1>2, <2>1, NothingIsUndo DEF Loads, NotLoaded
<1>7. /\ new \in ShellState /\ new.pc = "idle" /\ new.names = it.names /\ new.stale = it.stale
      /\ new.loaded.owner = it.loaded.owner /\ new.loaded.stamp = it.loaded.stamp
      /\ new.loaded.ran = it.loaded.ran /\ new.loaded.undo = undo /\ new.record = record
  <2>1. StartsAs \in [EnvName -> Cell]
    BY DirEnvAssumption
  <2> HIDE DEF record
  <2> QED BY <1>1, <1>3, <1>6, <2>1 DEF ShellState, Loads, KeptStamp
<1>8. new.loaded # NotLoaded
  <2>1. NotLoaded.owner = Nowhere /\ it.loaded.owner # Nowhere
    BY <1>2, DirEnvAssumption DEF NotLoaded
  <2> HIDE DEF new
  <2> QED BY <1>7, <2>1
<1> HIDE DEF new
<1>9. new.record = RecordOf(new.loaded)
  BY <1>7, <1>8 DEF RecordOf
<1>10. Restorable(new, mine)
  BY <1>2, <1>4, <1>7, <1>9 DEF Restorable
<1>11. Noticed(new, envFile, spent.writes)
  BY <1>1, <1>7 DEF Noticed
<1> HIDE DEF it
<1>12. spent' \in [writes : Nat, hands : Nat] /\ spent'.writes = spent.writes
  BY <1>5 DEF DirEnvInv, Typed
<1> QED BY <1>4, <1>5, <1>7, <1>10, <1>11, <1>12, OneShell

-----------------------------------------------------------------------------
(***************************************************************************)
(* What is typed at a prompt, and what others do.                          *)
(***************************************************************************)
\* Going somewhere else by itself undoes and loads nothing.
LEMMA ChangeDirectoryKeeps ==
  ASSUME DirEnvInv, NEW s \in DirShell, NEW d \in Place, ChangeDirectory(s, d) PROVE DirEnvInv'
<1> DEFINE it == dirShells[s]
           new == [it EXCEPT !.at = d]
<1>1. /\ it \in ShellState /\ Restorable(it, ownNames[s]) /\ Noticed(it, envFile, spent.writes)
  BY InvOf
<1>2. /\ dirShells' = [dirShells EXCEPT ![s] = new]
      /\ ownNames' = ownNames /\ envFile' = envFile /\ spent' = spent
  BY DEF ChangeDirectory
<1>3. /\ new \in ShellState
      /\ new.pc = it.pc /\ new.names = it.names /\ new.loaded = it.loaded
      /\ new.record = it.record /\ new.before = it.before /\ new.stale = it.stale
  BY <1>1 DEF ShellState
<1> HIDE DEF new, it
<1>4. Restorable(new, ownNames[s]) /\ Noticed(new, envFile, spent.writes)
  BY <1>1, <1>3, NotesKeep
<1> QED BY <1>2, <1>3, <1>4, OneShellOnly

\* Nor does asking for a reload, or deciding about a file.
LEMMA InvalidatedKeeps ==
  ASSUME DirEnvInv, NEW s \in DirShell, dirShells' = Invalidated(s),
         ownNames' = ownNames, envFile' = envFile, spent' = spent
  PROVE DirEnvInv'
<1> DEFINE it == dirShells[s]
           new == [it EXCEPT !.stale = TRUE, !.reload = TRUE]
<1>1. /\ it \in ShellState /\ Restorable(it, ownNames[s]) /\ Noticed(it, envFile, spent.writes)
  BY InvOf
<1>2. dirShells' = [dirShells EXCEPT ![s] = new]
  BY DEF Invalidated
<1>3. /\ new \in ShellState
      /\ new.pc = it.pc /\ new.names = it.names /\ new.loaded = it.loaded
      /\ new.record = it.record /\ new.before = it.before /\ new.stale
  BY <1>1 DEF ShellState
<1> HIDE DEF new, it
<1>4. Restorable(new, ownNames[s]) /\ Noticed(new, envFile, spent.writes)
  BY <1>1, <1>3, NotesKeep
<1> QED BY <1>2, <1>3, <1>4, OneShellOnly

\* A name that the directory holds goes with it, and another one stays.
LEMMA SetByHandKeeps ==
  ASSUME DirEnvInv, NEW s \in DirShell, NEW n \in EnvName, NEW cell \in Cell, SetByHand(s, n, cell)
  PROVE DirEnvInv'
<1> DEFINE it == dirShells[s]
           names == [it.names EXCEPT ![n] = cell]
           new == [it EXCEPT !.names[n] = cell]
           mine == IF n \in DOMAIN it.loaded.undo THEN ownNames[s] ELSE [ownNames[s] EXCEPT ![n] = cell]
<1>1. /\ it \in ShellState /\ ownNames[s] \in [EnvName -> Cell] /\ it.pc = "idle"
      /\ Restorable(it, ownNames[s]) /\ Noticed(it, envFile, spent.writes)
      /\ spent \in [writes : Nat, hands : Nat]
  BY InvOf DEF SetByHand, Waits, DirEnvInv, Typed
<1>2. it.names \in [EnvName -> Cell] /\ Undone(it.names, it.loaded.undo) = ownNames[s]
  BY <1>1 DEF Restorable, ShellState
<1>3. mine \in [EnvName -> Cell] /\ names \in [EnvName -> Cell]
  BY <1>1, <1>2
<1>4. Undone(names, it.loaded.undo) = mine
  BY <1>2 DEF Undone, PutBack
<1>5. /\ dirShells' = [dirShells EXCEPT ![s] = new] /\ envFile' = envFile
      /\ spent' \in [writes : Nat, hands : Nat] /\ spent'.writes = spent.writes
  BY <1>1 DEF SetByHand
<1>6. ownNames' = [ownNames EXCEPT ![s] = mine]
  BY DEF SetByHand, DirEnvInv, Typed
<1>7. /\ new \in ShellState /\ new.names = names
      /\ new.pc = it.pc /\ new.loaded = it.loaded
      /\ new.record = it.record /\ new.before = it.before /\ new.stale = it.stale
  BY <1>1, <1>3 DEF ShellState
<1> HIDE DEF new, mine, names
<1>8. Restorable(new, mine)
  BY <1>1, <1>4, <1>7 DEF Restorable
<1>9. Noticed(new, envFile, spent.writes)
  BY <1>1, <1>7 DEF Noticed
<1> HIDE DEF it
<1> QED BY <1>3, <1>5, <1>6, <1>7, <1>8, <1>9, OneShell

\* A write gives the file a stamp no load has seen.
LEMMA WriteFileKeeps ==
  ASSUME DirEnvInv, NEW d \in Place, NEW t \in FileText \cup {NoFile}, WriteFile(d, t) PROVE DirEnvInv'
<1> DEFINE now == IF t = NoFile THEN 0 ELSE spent.writes + 1
<1>1. /\ envFile \in [Place -> [text : FileText \cup {NoFile}, stamp : Nat]]
      /\ spent \in [writes : Nat, hands : Nat] /\ now \in Nat
      /\ \A e \in Place : envFile[e].stamp <= spent.writes /\ (envFile[e].text # NoFile => envFile[e].stamp > 0)
  BY DEF DirEnvInv, Typed, Stamped
<1>2. /\ envFile' = [envFile EXCEPT ![d] = [text |-> t, stamp |-> now]]
      /\ spent' = [spent EXCEPT !.writes = @ + 1]
      /\ dirShells' = dirShells /\ ownNames' = ownNames
  BY DEF WriteFile
<1>3. spent' \in [writes : Nat, hands : Nat] /\ spent'.writes = spent.writes + 1
  BY <1>1, <1>2
<1>4. Typed'
  BY <1>1, <1>2, <1>3 DEF DirEnvInv, Typed
<1>5. Stamped'
  BY <1>1, <1>2, <1>3 DEF Stamped
<1>6. ASSUME NEW s \in DirShell
      PROVE Restorable(dirShells'[s], ownNames'[s]) /\ Noticed(dirShells'[s], envFile', spent'.writes)
  <2> DEFINE it == dirShells[s]
  <2>1. it \in ShellState /\ Restorable(it, ownNames[s]) /\ Noticed(it, envFile, spent.writes)
    BY InvOf
  <2>2. it.loaded.stamp \in Nat /\ it.loaded.stamp <= spent.writes
    BY <2>1 DEF ShellState, Loads, Noticed
  <2>3. it.loaded.owner \in Place \/ it.loaded.stamp = 0 \/ it.pc \notin {"idle", "ran"}
    BY <2>1 DEF Restorable, NotLoaded
  <2>4. ASSUME it.loaded.owner \in Place, it.loaded.stamp > 0, envFile[it.loaded.owner].stamp # it.loaded.stamp
        PROVE envFile'[it.loaded.owner].stamp # it.loaded.stamp
    BY <2>2, <2>4, <1>1, <1>2
  <2> HIDE DEF it, now
  <2>5. Noticed(it, envFile', spent'.writes)
    BY <2>1, <2>2, <2>3, <2>4, <1>1, <1>3 DEF Noticed
  <2> QED BY <2>1, <2>5, <1>2 DEF it
<1> QED BY <1>4, <1>5, <1>6 DEF DirEnvInv

\* A child is told how to undo the variables it inherits (carry.rs).
LEMMA SpawnKeeps ==
  ASSUME DirEnvInv, NEW s \in DirShell, NEW c \in DirShell, Spawn(s, c) PROVE DirEnvInv'
<1> DEFINE it == dirShells[s]
           inherited == [n \in EnvName |-> IF n \in Variable /\ Exported(it.names[n]) THEN it.names[n] ELSE Unset]
           parent == [it EXCEPT !.pc = "waits"]
           child == [NoShell EXCEPT !.pc = "idle", !.at = it.at, !.names = inherited, !.record = it.record,
                                    !.loaded = Adopted(it.record), !.stale = it.record # NotLoaded]
           mine == [n \in EnvName |->
                     IF n \in DOMAIN it.loaded.undo \cap Variable THEN ownNames[s][n] ELSE inherited[n]]
<1>1. /\ it \in ShellState /\ ownNames[s] \in [EnvName -> Cell] /\ it.pc = "idle"
      /\ Restorable(it, ownNames[s]) /\ Noticed(it, envFile, spent.writes)
      /\ spent.writes \in Nat
  BY InvOf DEF Spawn, Waits
<1>2. /\ it.names \in [EnvName -> Cell] /\ Undone(it.names, it.loaded.undo) = ownNames[s]
      /\ it.record = RecordOf(it.loaded) /\ it.loaded.undo \in Undo
      /\ it.loaded = NotLoaded \/ it.loaded.owner \in Place
      /\ it.at \in Place /\ it.record \in Loads
  BY <1>1 DEF Restorable, ShellState, Loads
<1>3. inherited \in [EnvName -> Cell] /\ mine \in [EnvName -> Cell]
  <2>1. Unset \in Cell
    BY DEF Cell
  <2> QED BY <1>1, <1>2, <2>1
<1>4. /\ dirShells' = [dirShells EXCEPT ![s] = parent, ![c] = child]
      /\ ownNames' = [ownNames EXCEPT ![c] = mine] /\ envFile' = envFile /\ spent' = spent
      /\ s # c
  BY <1>1 DEF Spawn
<1>5. parent \in ShellState /\ parent.pc = "waits" /\ parent.names = it.names /\ parent.loaded = it.loaded
      /\ parent.record = it.record
  BY <1>1 DEF ShellState
<1>6. Restorable(parent, ownNames[s]) /\ Noticed(parent, envFile, spent.writes)
  <2> HIDE DEF parent
  <2> QED BY <1>1, <1>5 DEF Restorable, Noticed
<1>7. /\ Adopted(it.record) \in Loads /\ Adopted(it.record).stamp <= spent.writes
      /\ Adopted(it.record).undo = it.record.undo
      /\ it.record = RecordOf(Adopted(it.record))
      /\ Adopted(it.record) = NotLoaded \/ Adopted(it.record).owner \in Place
      /\ it.record = NotLoaded => Adopted(it.record).stamp = 0
  <2>1. CASE it.record = NotLoaded
    BY <2>1, <1>1, NothingIsUndo DEF Adopted, RecordOf, NotLoaded
  <2>2. CASE it.record # NotLoaded
    <3>1. it.loaded # NotLoaded /\ it.loaded.owner \in Place
      BY <2>2, <1>2 DEF RecordOf
    <3>2. it.record = [NotLoaded EXCEPT !.owner = it.loaded.owner, !.undo = Carried(it.loaded.undo)]
      BY <3>1, <1>2 DEF RecordOf
    <3>3. it.record.owner = it.loaded.owner /\ it.record.undo = Carried(it.loaded.undo)
          /\ it.record.stamp = 0 /\ it.record.ran = 0
      BY <3>2 DEF NotLoaded
    <3>4. envFile[it.record.owner].stamp \in Nat /\ envFile[it.record.owner].stamp <= spent.writes
      BY <3>1, <3>3 DEF DirEnvInv, Typed, Stamped
    <3>5. Adopted(it.record) = [it.record EXCEPT !.stamp = envFile[it.record.owner].stamp]
      BY <2>2 DEF Adopted
    <3> DEFINE got == Adopted(it.record)
    <3>6. /\ got \in Loads /\ got.owner = it.record.owner /\ got.undo = it.record.undo
          /\ got.stamp = envFile[it.record.owner].stamp
      BY <3>4, <3>5, <1>2 DEF Loads
    <3>7. got # NotLoaded
      BY <3>1, <3>3, <3>6, DirEnvAssumption DEF NotLoaded
    <3> HIDE DEF got
    <3>8. Carried(got.undo) = it.record.undo
      <4>1. /\ DOMAIN it.record.undo = DOMAIN it.loaded.undo \cap Variable
            /\ it.record.undo = [n \in DOMAIN it.record.undo |-> it.record.undo[n]]
        BY <3>3, <1>2, CarriedTyped DEF Carried
      <4>2. DOMAIN got.undo \cap Variable = DOMAIN it.record.undo
        BY <4>1, <3>6
      <4> QED BY <4>1, <4>2, <3>6 DEF Carried
    <3>9. RecordOf(got) = it.record
      BY <3>2, <3>3, <3>6, <3>7, <3>8 DEF RecordOf
    <3> QED BY <3>1, <3>3, <3>4, <3>6, <3>9, <2>2 DEF got
  <2> QED BY <2>1, <2>2
<1>8. Undone(inherited, it.record.undo) = mine
  <2>1. /\ DOMAIN it.record.undo = DOMAIN it.loaded.undo \cap Variable
        /\ \A n \in DOMAIN it.record.undo : it.record.undo[n] = it.loaded.undo[n]
    <3>1. CASE it.loaded = NotLoaded
      <4>1. it.record = NotLoaded /\ DOMAIN NotLoaded.undo = {}
        BY <3>1, <1>2 DEF RecordOf, NotLoaded, NothingToUndo
      <4> QED BY <3>1, <4>1
    <3>2. CASE it.loaded # NotLoaded
      <4>1. it.record = [NotLoaded EXCEPT !.owner = it.loaded.owner, !.undo = Carried(it.loaded.undo)]
        BY <3>2, <1>2 DEF RecordOf
      <4>2. it.record.undo = Carried(it.loaded.undo)
        BY <4>1 DEF NotLoaded
      <4>3. it.loaded.undo \in Undo
        BY <1>2
      <4>4. /\ DOMAIN Carried(it.loaded.undo) = DOMAIN it.loaded.undo \cap Variable
            /\ \A n \in DOMAIN Carried(it.loaded.undo) : Carried(it.loaded.undo)[n] = it.loaded.undo[n]
        BY <4>3, CarriedTyped
      <4> QED BY <4>2, <4>4
    <3> QED BY <3>1, <3>2
  <2>2. \A n \in DOMAIN it.loaded.undo : n \in EnvName => it.loaded.undo[n] = ownNames[s][n]
    BY <1>2 DEF Undone, PutBack
  <2> HIDE DEF it, inherited
  <2> QED BY <2>1, <2>2 DEF Undone, PutBack
<1>9. /\ child \in ShellState /\ child.pc = "idle" /\ child.names = inherited
      /\ child.record = it.record /\ child.loaded = Adopted(it.record)
      /\ child.stale = (it.record # NotLoaded)
  <2>1. NoShell \in ShellState
    <3>1. /\ StartsAs \in [EnvName -> Cell] /\ Home \in Place /\ Unset \in Cell /\ NotLoaded \in Loads
      BY DirEnvAssumption, NothingIsUndo DEF Cell
    <3> QED BY <3>1 DEF NoShell, ShellState
  <2> HIDE DEF it, inherited
  <2> QED BY <2>1, <1>2, <1>3, <1>7 DEF ShellState
<1>10. Restorable(child, mine) /\ Noticed(child, envFile, spent.writes)
  <2> HIDE DEF child, inherited, mine, it
  <2>1. Undone(child.names, child.loaded.undo) = mine
    BY <1>7, <1>8, <1>9
  <2>2. child.record = RecordOf(child.loaded)
    BY <1>7, <1>9
  <2>3. child.loaded = NotLoaded \/ child.loaded.owner \in Place
    BY <1>7, <1>9
  <2>4. child.loaded.stamp <= spent.writes /\ (child.stale \/ child.loaded.stamp = 0)
    BY <1>7, <1>9
  <2> QED BY <1>9, <2>1, <2>2, <2>3, <2>4 DEF Restorable, Noticed
<1> HIDE DEF it, inherited, parent, child, mine
<1>11. Typed' /\ Stamped'
  BY <1>3, <1>4, <1>5, <1>9 DEF DirEnvInv, Typed, Stamped
<1>12. ASSUME NEW r \in DirShell
      PROVE Restorable(dirShells'[r], ownNames'[r]) /\ Noticed(dirShells'[r], envFile', spent'.writes)
  <2>1. dirShells \in [DirShell -> ShellState] /\ ownNames \in [DirShell -> [EnvName -> Cell]]
    BY DEF DirEnvInv, Typed
  <2>2. CASE r = s
    BY <2>1, <2>2, <1>4, <1>6
  <2>3. CASE r = c
    BY <2>1, <2>3, <1>4, <1>10
  <2>4. CASE r # s /\ r # c
    <3>1. dirShells'[r] = dirShells[r] /\ ownNames'[r] = ownNames[r]
      BY <2>1, <2>4, <1>4
    <3> QED BY <3>1, <1>4, InvOf
  <2> QED BY <2>2, <2>3, <2>4
<1> QED BY <1>11, <1>12 DEF DirEnvInv

-----------------------------------------------------------------------------
(***************************************************************************)
(* The invariant, and what follows from it.                                *)
(***************************************************************************)
\* It holds at the start: the first shell has its own names and nothing loaded.
LEMMA DirEnvInvStarts == DirEnvInit => DirEnvInv
<1> SUFFICES ASSUME DirEnvInit PROVE DirEnvInv
  OBVIOUS
<1>1. /\ StartsAs \in [EnvName -> Cell] /\ Home \in Place /\ Unset \in Cell /\ NotLoaded \in Loads
  BY DirEnvAssumption, NothingIsUndo DEF Cell
<1>2. ASSUME NEW s \in DirShell
      PROVE /\ dirShells[s] \in ShellState /\ dirShells[s].names = StartsAs
            /\ dirShells[s].loaded = NotLoaded /\ dirShells[s].record = NotLoaded
            /\ dirShells[s].pc \in {"none", "idle"} /\ ownNames[s] = StartsAs
  BY <1>1 DEF DirEnvInit, NoShell, ShellState
<1>3. Typed
  <2>1. dirShells \in [DirShell -> ShellState]
    BY <1>2 DEF DirEnvInit
  <2>2. ownNames \in [DirShell -> [EnvName -> Cell]] /\ spent \in [writes : Nat, hands : Nat]
    BY <1>1 DEF DirEnvInit
  <2>3. envFile \in [Place -> [text : FileText \cup {NoFile}, stamp : Nat]]
    BY DEF DirEnvInit
  <2> QED BY <2>1, <2>2, <2>3 DEF Typed
<1>4. Stamped
  BY DirEnvAssumption DEF DirEnvInit, Stamped
<1>5. ASSUME NEW s \in DirShell
      PROVE Restorable(dirShells[s], ownNames[s]) /\ Noticed(dirShells[s], envFile, spent.writes)
  <2>1. Undone(dirShells[s].names, dirShells[s].loaded.undo) = ownNames[s]
    BY <1>1, <1>2, UndoneNothing DEF NotLoaded
  <2>2. dirShells[s].loaded.stamp = 0 /\ spent.writes = 1
    BY <1>2 DEF NotLoaded, DirEnvInit
  <2> QED BY <1>2, <2>1, <2>2 DEF Restorable, Noticed, RecordOf
<1> QED BY <1>3, <1>4, <1>5 DEF DirEnvInv

\* Every step keeps it.
LEMMA DirEnvInvStep == DirEnvInv /\ [DirEnvNext]_dirEnvVars => DirEnvInv'
<1> SUFFICES ASSUME DirEnvInv, [DirEnvNext]_dirEnvVars PROVE DirEnvInv'
  OBVIOUS
<1>1. CASE UNCHANGED dirEnvVars
  BY <1>1 DEF dirEnvVars, DirEnvInv, Typed, Stamped
<1>2. ASSUME NEW s \in DirShell, EachPrompt(s) PROVE DirEnvInv'
  BY <1>2, EachPromptKeeps
<1>3. ASSUME NEW s \in DirShell, Reload(s) PROVE DirEnvInv'
  BY <1>3, ReloadKeeps
<1>4. ASSUME NEW s \in DirShell, TakeSnapshot(s) PROVE DirEnvInv'
  BY <1>4, TakeSnapshotKeeps
<1>5. ASSUME NEW s \in DirShell, RunFile(s) PROVE DirEnvInv'
  BY <1>5, RunFileKeeps
<1>6. ASSUME NEW s \in DirShell, FinishLoad(s) PROVE DirEnvInv'
  BY <1>6, FinishLoadKeeps
<1>7. ASSUME NEW s \in DirShell, NEW d \in Place, ChangeDirectory(s, d) PROVE DirEnvInv'
  BY <1>7, ChangeDirectoryKeeps
<1>8. ASSUME NEW s \in DirShell, NEW d \in Place, Allow(s, d) \/ Deny(s, d) PROVE DirEnvInv'
  BY <1>8, InvalidatedKeeps DEF Allow, Deny
<1>9. ASSUME NEW s \in DirShell, NEW n \in EnvName, NEW cell \in Cell, SetByHand(s, n, cell)
      PROVE DirEnvInv'
  BY <1>9, SetByHandKeeps
<1>10. ASSUME NEW s \in DirShell, PruneTokens(s) PROVE DirEnvInv'
  BY <1>10 DEF PruneTokens, DirEnvInv, Typed, Stamped
<1>11. ASSUME NEW s \in DirShell, RequestReload(s) PROVE DirEnvInv'
  BY <1>11, InvalidatedKeeps DEF RequestReload
<1>12. ASSUME NEW s \in DirShell, NEW c \in DirShell, Spawn(s, c) PROVE DirEnvInv'
  BY <1>12, SpawnKeeps
<1>13. ASSUME NEW d \in Place, NEW t \in FileText \cup {NoFile}, WriteFile(d, t) PROVE DirEnvInv'
  BY <1>13, WriteFileKeeps
<1> QED
  BY <1>1, <1>2, <1>3, <1>4, <1>5, <1>6, <1>7, <1>8, <1>9, <1>10, <1>11, <1>12, <1>13 DEF DirEnvNext

\* The invariant holds in every state of every behaviour.
THEOREM DirEnvInvHolds == DirEnvSpec => []DirEnvInv
<1> QED BY DirEnvInvStarts, DirEnvInvStep, PTL DEF DirEnvSpec

\* A shell with no directory environment loaded has exactly the names it would
\* have had without one, however it came to hold one (Direnv::unload, carry.rs).
THEOREM LeavingRestoresHolds == DirEnvSpec => []LeavingRestores
<1>1. DirEnvInv => LeavingRestores
  <2> SUFFICES ASSUME DirEnvInv, NEW s \in DirShell,
                      dirShells[s].pc = "idle", dirShells[s].loaded = NotLoaded
               PROVE  dirShells[s].names = ownNames[s]
    BY DEF LeavingRestores
  <2>1. Undone(dirShells[s].names, NothingToUndo) = ownNames[s]
    BY InvOf DEF Restorable, NotLoaded
  <2>2. dirShells[s].names \in [EnvName -> Cell]
    BY InvOf DEF ShellState
  <2> QED BY <2>1, <2>2, UndoneNothing
<1> QED BY <1>1, DirEnvInvHolds, PTL

\* What a shell would leave alone on arriving came from the file as it is now,
\* whatever was written to it meanwhile (Direnv::load).
THEOREM EditsAreNoticedHolds == DirEnvSpec => []EditsAreNoticed
<1>1. DirEnvInv => EditsAreNoticed
  <2> SUFFICES ASSUME DirEnvInv, NEW s \in DirShell, dirShells[s].pc = "idle", UpToDate(s)
               PROVE  dirShells[s].loaded.ran = envFile[dirShells[s].loaded.owner].stamp
    BY DEF EditsAreNoticed
  <2> DEFINE it == dirShells[s]
  <2>1. /\ ~ it.stale /\ it.loaded # NotLoaded /\ Governing(it.at) = it.loaded.owner
        /\ envFile[it.loaded.owner].stamp = it.loaded.stamp
    BY DEF UpToDate
  <2>2. /\ it \in ShellState /\ Restorable(it, ownNames[s]) /\ Noticed(it, envFile, spent.writes)
    BY InvOf
  <2>3. it.at \in Place /\ it.loaded.owner \in Place
    BY <2>1, <2>2 DEF Restorable, ShellState
  <2>4. envFile[Governing(it.at)].text # NoFile
    <3>1. Governing(it.at) # Nowhere
      BY <2>1, <2>3, DirEnvAssumption
    <3> HIDE DEF it
    <3> QED BY <3>1 DEF Governing
  <2>5. it.loaded.stamp > 0
    BY <2>1, <2>3, <2>4 DEF DirEnvInv, Stamped
  <2> QED BY <2>1, <2>2, <2>5 DEF Noticed
<1> QED BY <1>1, DirEnvInvHolds, PTL

-----------------------------------------------------------------------------
(***************************************************************************)
(* Replacement: the text of a table reads back as the table, and what each *)
(* operation of the file system leaves of the other files.                 *)
(***************************************************************************)
LEMMA NameOrderIsOne ==
  /\ NameOrder \in [Name -> 1 .. Cardinality(Name)]
  /\ \A j, k \in Name : NameOrder[j] = NameOrder[k] => j = k
<1>1. PICK b \in Bijection(1 .. Cardinality(Name), Name) : TRUE
  BY NameAssumption, FS_CardinalityType DEF ExistsBijection
<1>2. Cardinality(Name) \in Nat
  BY NameAssumption, FS_CardinalityType
<1> DEFINE n == Cardinality(Name)
           place == [k \in Name |-> CHOOSE i \in 1 .. n : b[i] = k]
<1>3. ASSUME NEW k \in Name PROVE place[k] \in 1 .. n /\ b[place[k]] = k
  BY <1>1 DEF Bijection, Surjection
<1>4. place \in [Name -> 1 .. n] /\ \A j, k \in Name : place[j] = place[k] => j = k
  BY <1>3
<1> HIDE DEF place
<1> QED BY <1>4 DEF NameOrder

LEMMA ListedFinite ==
  ASSUME NEW t
  PROVE  IsFiniteSet(Listed(t)) /\ Cardinality(Listed(t)) \in Nat
BY NameAssumption, FS_Subset, FS_CardinalityType DEF Listed

(***************************************************************************)
(* A finite set whose members have places of their own, in some order of   *)
(* integers, is numbered from 1 by how many come no later.                 *)
(***************************************************************************)
LEMMA Numbered ==
  ASSUME NEW S, IsFiniteSet(S), NEW place, \A k \in S : place[k] \in Int,
         \A j, k \in S : place[j] = place[k] => j = k,
         NEW upto, \A k \in S : upto[k] \subseteq S,
         \A j, k \in S : j \in upto[k] <=> place[j] <= place[k]
  PROVE  /\ Cardinality(S) \in Nat
         /\ \A k \in S : Cardinality(upto[k]) \in 1 .. Cardinality(S)
         /\ \A j, k \in S : Cardinality(upto[j]) = Cardinality(upto[k]) => j = k
         /\ \A i \in 1 .. Cardinality(S) : \E k \in S : Cardinality(upto[k]) = i
<1> DEFINE n == Cardinality(S)
<1>1. n \in Nat
  BY FS_CardinalityType
<1>2. ASSUME NEW k \in S
      PROVE  IsFiniteSet(upto[k]) /\ Cardinality(upto[k]) \in 1 .. n
  <2>1. upto[k] \subseteq S /\ k \in upto[k]
    OBVIOUS
  <2>2. IsFiniteSet(upto[k]) /\ Cardinality(upto[k]) <= n /\ Cardinality(upto[k]) \in Nat
    BY <2>1, FS_Subset, FS_CardinalityType
  <2>3. Cardinality(upto[k]) # 0
    BY <2>1, <2>2, FS_EmptySet
  <2> QED BY <1>1, <2>1, <2>2, <2>3
<1>3. ASSUME NEW j \in S, NEW k \in S, Cardinality(upto[j]) = Cardinality(upto[k]) PROVE j = k
  <2>1. ASSUME NEW x \in S, NEW y \in S, place[x] < place[y]
        PROVE  Cardinality(upto[x]) # Cardinality(upto[y])
    <3>1. upto[x] \subseteq upto[y] /\ upto[x] # upto[y]
      BY <2>1
    <3> QED BY <1>2, <3>1, FS_Subset
  <2>2. place[j] < place[k] \/ place[k] < place[j] \/ place[j] = place[k]
    OBVIOUS
  <2> QED BY <1>3, <2>1, <2>2
<1> DEFINE at == [k \in S |-> Cardinality(upto[k])]
<1>4. at \in Injection(S, 1 .. n)
  BY <1>2, <1>3 DEF Injection, IsInjective
<1>5. IsFiniteSet(1 .. n) /\ Cardinality(1 .. n) = n
  BY <1>1, FS_Interval
<1>6. at \in Surjection(S, 1 .. n)
  <2> HIDE DEF at
  <2> QED BY <1>4, <1>5, FS_Injection
<1>7. \A i \in 1 .. n : \E k \in S : Cardinality(upto[k]) = i
  BY <1>6 DEF Surjection
<1> QED BY <1>1, <1>2, <1>3, <1>7

\* A finite set of integers that is not empty has a last one.
LEMMA LastOfFinite ==
  ASSUME NEW S, IsFiniteSet(S), S # {}, \A k \in S : k \in Int
  PROVE  \E i \in S : \A j \in S : j <= i
<1> DEFINE place == [k \in S |-> k]
           upto == [k \in S |-> {j \in S : j <= k}]
<1>1. /\ \A k \in S : place[k] \in Int
      /\ \A j, k \in S : place[j] = place[k] => j = k
      /\ \A k \in S : upto[k] \subseteq S
      /\ \A j, k \in S : j \in upto[k] <=> place[j] <= place[k]
  OBVIOUS
<1>2. Cardinality(S) \in Nat /\ Cardinality(S) # 0
  BY FS_CardinalityType, FS_EmptySet
<1>3. PICK i \in S : Cardinality(upto[i]) = Cardinality(S)
  <2> HIDE DEF place, upto
  <2>1. \A i \in 1 .. Cardinality(S) : \E k \in S : Cardinality(upto[k]) = i
    BY <1>1, Numbered
  <2> QED BY <1>2, <2>1
<1>4. upto[i] = S
  <2> HIDE DEF place, upto
  <2> QED BY <1>1, <1>3, FS_Subset
<1> QED BY <1>4

\* The lines of a table are numbered by the names it has.
LEMMA LinesNumbered ==
  ASSUME NEW t
  PROVE  /\ \A k \in Listed(t) : LineOf(t, k) \in 1 .. Cardinality(Listed(t))
         /\ \A j, k \in Listed(t) : LineOf(t, j) = LineOf(t, k) => j = k
         /\ \A i \in 1 .. Cardinality(Listed(t)) : \E k \in Listed(t) : LineOf(t, k) = i
<1> DEFINE upto == [k \in Listed(t) |-> {j \in Listed(t) : NameOrder[j] <= NameOrder[k]}]
<1>1. IsFiniteSet(Listed(t)) /\ Listed(t) \subseteq Name
  BY ListedFinite DEF Listed
<1>2. /\ \A k \in Listed(t) : NameOrder[k] \in Int
      /\ \A j, k \in Listed(t) : NameOrder[j] = NameOrder[k] => j = k
  BY <1>1, NameOrderIsOne, NameAssumption, FS_CardinalityType
<1>3. /\ \A k \in Listed(t) : upto[k] \subseteq Listed(t)
      /\ \A j, k \in Listed(t) : j \in upto[k] <=> NameOrder[j] <= NameOrder[k]
  OBVIOUS
<1>4. \A k \in Listed(t) : LineOf(t, k) = Cardinality(upto[k])
  BY DEF LineOf
<1>5. /\ \A k \in Listed(t) : Cardinality(upto[k]) \in 1 .. Cardinality(Listed(t))
      /\ \A j, k \in Listed(t) : Cardinality(upto[j]) = Cardinality(upto[k]) => j = k
      /\ \A i \in 1 .. Cardinality(Listed(t)) : \E k \in Listed(t) : Cardinality(upto[k]) = i
  <2> HIDE DEF upto
  <2> QED BY <1>1, <1>2, <1>3, Numbered
<1> HIDE DEF upto
<1> QED BY <1>4, <1>5

\* Whatever the lines are, reading them gives a table.
LEMMA ParsedIsTable ==
  ASSUME NEW text \in Seq(Entry)
  PROVE  Parsed(text) \in Table
<1>1. ASSUME NEW k \in Name PROVE Parsed(text)[k] \in Value \cup {Absent}
  <2> DEFINE said == {i \in 1 .. Len(text) : text[i][1] = k}
  <2>1. Parsed(text)[k] = IF said = {} THEN Absent
                          ELSE text[CHOOSE i \in said : \A j \in said : j <= i][2]
    BY DEF Parsed
  <2>2. CASE said # {}
    <3>1. said \subseteq 1 .. Len(text) /\ Len(text) \in Nat
      OBVIOUS
    <3>2. said \in SUBSET Int /\ IsFiniteSet(said)
      <4>1. IsFiniteSet(1 .. Len(text)) /\ 1 .. Len(text) \subseteq Int
        BY <3>1, FS_Interval
      <4> HIDE DEF said
      <4> QED BY <3>1, <4>1, FS_Subset
    <3> HIDE DEF said
    <3>3. (CHOOSE i \in said : \A j \in said : j <= i) \in said
      BY <2>2, <3>2, LastOfFinite
    <3>4. \A i \in 1 .. Len(text) : text[i][2] \in Value
      BY DEF Entry
    <3> QED BY <2>1, <2>2, <3>1, <3>3, <3>4
  <2> QED BY <2>1, <2>2
<1>2. Parsed(text) = [k \in Name |-> Parsed(text)[k]]
  BY DEF Parsed
<1> QED BY <1>1, <1>2 DEF Table

\* The text of a table reads back as the table.
LEMMA TextReadsBack ==
  ASSUME NEW t \in Table
  PROVE  Text(t) \in Seq(Entry) /\ Parsed(Text(t)) = t
<1> DEFINE n == Cardinality(Listed(t))
           named(i) == CHOOSE j \in Listed(t) : LineOf(t, j) = i
<1>1. n \in Nat
  BY ListedFinite
<1>2. \A i \in 1 .. n : named(i) \in Listed(t) /\ LineOf(t, named(i)) = i
  BY LinesNumbered
<1>3. \A k \in Listed(t) : LineOf(t, k) \in 1 .. n /\ named(LineOf(t, k)) = k
  BY <1>2, LinesNumbered
<1>4. Text(t) = [i \in 1 .. n |-> <<named(i), t[named(i)]>>]
  BY DEF Text
<1> HIDE DEF named, n
<1>5. \A k \in Listed(t) : k \in Name /\ t[k] \in Value
  BY DEF Listed, Table
<1>6. Text(t) \in Seq(Entry) /\ Len(Text(t)) = n
  BY <1>1, <1>2, <1>4, <1>5 DEF Entry
<1>7. ASSUME NEW k \in Name PROVE Parsed(Text(t))[k] = t[k]
  <2> DEFINE said == {i \in 1 .. Len(Text(t)) : Text(t)[i][1] = k}
  <2>1. Parsed(Text(t))[k] = IF said = {} THEN Absent
                             ELSE Text(t)[CHOOSE i \in said : \A j \in said : j <= i][2]
    BY DEF Parsed
  <2>2. said = {i \in 1 .. n : named(i) = k}
    <3>1. ASSUME NEW i \in 1 .. n PROVE Text(t)[i][1] = named(i)
      <4>1. Text(t)[i] = <<named(i), t[named(i)]>>
        BY <1>4
      <4> QED BY <4>1
    <3> QED BY <1>6, <3>1
  <2> HIDE DEF said
  <2>3. CASE k \in Listed(t)
    <3>1. said = {LineOf(t, k)} /\ LineOf(t, k) \in 1 .. n
      BY <1>2, <1>3, <2>2, <2>3
    <3>2. (CHOOSE i \in said : \A j \in said : j <= i) = LineOf(t, k)
      BY <1>1, <3>1
    <3> QED BY <1>3, <1>4, <2>1, <2>3, <3>1, <3>2
  <2>4. CASE k \notin Listed(t)
    BY <1>2, <2>1, <2>2, <2>4 DEF Listed
  <2> QED BY <2>3, <2>4
<1>8. Parsed(Text(t)) = [k \in Name |-> Parsed(Text(t))[k]] /\ t = [k \in Name |-> t[k]]
  BY DEF Parsed, Table
<1> QED BY <1>6, <1>7, <1>8

-----------------------------------------------------------------------------
\* No file has two names.
OneNameEach(disk, names) ==
  \A a, b \in names : disk.at[a] = disk.at[b] /\ disk.at[a] # 0 => a = b

LEMMA EmptyDiskIsADisk ==
  ASSUME NEW names, NEW files
  PROVE  EmptyDisk(names, files) \in Disk(names, files) /\ OneNameEach(EmptyDisk(names, files), names)
BY EmptySeq DEF EmptyDisk, Disk, OneNameEach

(***************************************************************************)
(* While fewer files are named or open than there are, one is free.        *)
(***************************************************************************)
LEMMA SomeFileIsFree ==
  ASSUME NEW names, NEW n \in Nat, NEW d \in Disk(names, 1 .. n), NEW open,
         NEW Used, IsFiniteSet(Used), Cardinality(Used) < n,
         NEW via, via \in [Used -> 0 .. n],
         \A a \in names : d.at[a] # 0 => \E u \in Used : via[u] = d.at[a],
         \A f \in open : f \in 1 .. n => \E u \in Used : via[u] = f
  PROVE  /\ Free(d, open) \in 1 .. n /\ Free(d, open) \notin open
         /\ \A a \in names : d.at[a] # Free(d, open)
<1> DEFINE user == [f \in 1 .. n |-> CHOOSE u \in Used : via[u] = f]
<1>1. DOMAIN d.text = 1 .. n /\ DOMAIN d.at = names
  BY DEF Disk
<1>2. IsFiniteSet(1 .. n) /\ Cardinality(1 .. n) = n
  BY FS_Interval
<1>3. \E f \in 1 .. n : \A u \in Used : via[u] # f
  <2> SUFFICES ASSUME \A f \in 1 .. n : \E u \in Used : via[u] = f
               PROVE  FALSE
    OBVIOUS
  <2>1. \A f \in 1 .. n : user[f] \in Used /\ via[user[f]] = f
    OBVIOUS
  <2>2. user \in [1 .. n -> Used]
    BY <2>1
  <2> HIDE DEF user
  <2>3. \E f, g \in 1 .. n : f # g /\ user[f] = user[g]
    BY <1>2, <2>2, FS_PigeonHole
  <2> QED BY <2>1, <2>3
<1>4. \E f \in 1 .. n : f \notin open /\ \A a \in names : d.at[a] # f
  BY <1>3
<1> QED BY <1>1, <1>4 DEF Free

\* An empty file of that name, and nothing else changed.
LEMMA CreatedIs ==
  ASSUME NEW names, NEW files, 0 \notin files, NEW d \in Disk(names, files),
         OneNameEach(d, names), NEW name \in names, NEW open,
         ~ Exists(d, name) => /\ Free(d, open) \in files
                              /\ \A a \in names : d.at[a] # Free(d, open)
  PROVE  LET c == Created(d, name, open)
         IN  /\ c \in Disk(names, files) /\ OneNameEach(c, names)
             /\ c.at[name] \in files /\ c.text[c.at[name]] = << >>
             /\ c.at[name] = IF d.at[name] # 0 THEN d.at[name] ELSE Free(d, open)
             /\ \A a \in names \ {name} : c.at[a] = d.at[a] /\ d.at[a] # c.at[name]
             /\ \A f \in files \ {c.at[name]} : c.text[f] = d.text[f]
<1> DEFINE f == IF Exists(d, name) THEN d.at[name] ELSE Free(d, open)
           c == Created(d, name, open)
<1>1. f \in files /\ \A a \in names \ {name} : d.at[a] # f
  BY DEF Exists, OneNameEach, Disk
<1>2. c = [at |-> [d.at EXCEPT ![name] = f], text |-> [d.text EXCEPT ![f] = << >>]]
  BY DEF Created
<1> HIDE DEF f, c
<1>3. /\ d.at \in [names -> files \cup {0}] /\ d.text \in [files -> Seq(Entry)]
      /\ << >> \in Seq(Entry)
  BY EmptySeq DEF Disk
<1>4. c \in Disk(names, files)
  BY <1>1, <1>2, <1>3 DEF Disk
<1>5. /\ c.at[name] = f /\ c.text[f] = << >>
      /\ \A a \in names \ {name} : c.at[a] = d.at[a]
      /\ \A g \in files \ {f} : c.text[g] = d.text[g]
  BY <1>1, <1>2, <1>3
<1>6. OneNameEach(c, names)
  BY <1>1, <1>3, <1>5 DEF OneNameEach
<1> QED BY <1>1, <1>4, <1>5, <1>6 DEF c, f, Exists

\* Text written to an empty file is what the file has.
LEMMA FilledIs ==
  ASSUME NEW names, NEW files, NEW d \in Disk(names, files), NEW f \in files,
         NEW text \in Seq(Entry)
  PROVE  LET w == Filled(d, f, text)
         IN  /\ w \in Disk(names, files) /\ w.at = d.at
             /\ d.text[f] = << >> => w.text[f] = text
             /\ \A g \in files \ {f} : w.text[g] = d.text[g]
<1> DEFINE old == d.text[f]
           new == text \o SubSeq(old, Len(text) + 1, Len(old))
           w == Filled(d, f, text)
<1>1. d.text \in [files -> Seq(Entry)] /\ old \in Seq(Entry) /\ Len(text) \in Nat /\ Len(old) \in Nat
  BY LenProperties DEF Disk
<1>2. w = [d EXCEPT !.text = [d.text EXCEPT ![f] = new]]
  BY DEF Filled, Disk
<1> HIDE DEF w
<1>3. SubSeq(old, Len(text) + 1, Len(old)) \in Seq(Entry)
  <2>1. \A i \in Len(text) + 1 .. Len(old) : old[i] \in Entry
    BY <1>1
  <2> HIDE DEF old
  <2> QED BY <1>1, <2>1, SubSeqProperties
<1>4. new \in Seq(Entry)
  BY <1>3, ConcatProperties
<1>5. ASSUME old = << >> PROVE new = text
  <2>1. Len(old) = 0
    BY <1>5
  <2>2. SubSeq(old, Len(text) + 1, Len(old)) = << >>
    BY <1>1, <2>1, SubSeqEmpty
  <2> QED BY <2>2, ConcatEmptySeq
<1> HIDE DEF new
<1>6. /\ w.at = d.at /\ w.text[f] = new
      /\ \A g \in files \ {f} : w.text[g] = d.text[g]
  BY <1>1, <1>2
<1>7. w \in Disk(names, files)
  <2>1. [d.text EXCEPT ![f] = new] \in [files -> Seq(Entry)]
    BY <1>1, <1>4
  <2> QED BY <1>2, <2>1 DEF Disk
<1>8. d.text[f] = << >> => w.text[f] = text
  BY <1>5, <1>6
<1> QED BY <1>6, <1>7, <1>8 DEF w

\* The first name is gone; what it led to is under the other.
LEMMA RenamedIs ==
  ASSUME NEW names, NEW files, 0 \notin files, NEW d \in Disk(names, files),
         OneNameEach(d, names), NEW from \in names, NEW to \in names, from # to,
         Exists(d, from)
  PROVE  LET r == Renamed(d, from, to)
         IN  /\ r \in Disk(names, files) /\ OneNameEach(r, names)
             /\ r.at[from] = 0 /\ r.at[to] = d.at[from]
             /\ \A a \in names \ {from, to} : r.at[a] = d.at[a]
             /\ \A f \in files : f # d.at[to] => r.text[f] = d.text[f]
<1> DEFINE texts == [f \in DOMAIN d.text |-> IF f = d.at[to] THEN << >> ELSE d.text[f]]
           r == Renamed(d, from, to)
<1>1. /\ d.at \in [names -> files \cup {0}] /\ d.text \in [files -> Seq(Entry)]
      /\ << >> \in Seq(Entry) /\ DOMAIN d.text = files
  BY EmptySeq DEF Disk
<1>2. r = [at |-> [d.at EXCEPT ![to] = d.at[from], ![from] = 0], text |-> texts]
  <2>1. Removed(d, to) = [at |-> [d.at EXCEPT ![to] = 0], text |-> texts]
    BY DEF Removed
  <2>2. r = [Removed(d, to) EXCEPT !.at = [d.at EXCEPT ![to] = d.at[from], ![from] = 0]]
    BY DEF Renamed
  <2> HIDE DEF r, texts
  <2> QED BY <2>1, <2>2
<1>3. texts \in [files -> Seq(Entry)] /\ \A f \in files : f # d.at[to] => texts[f] = d.text[f]
  BY <1>1
<1> HIDE DEF texts, r
<1>4. r \in Disk(names, files)
  BY <1>1, <1>2, <1>3 DEF Disk
<1>5. /\ r.at[from] = 0 /\ r.at[to] = d.at[from]
      /\ \A a \in names \ {from, to} : r.at[a] = d.at[a]
      /\ r.text = texts
  BY <1>1, <1>2
<1>6. OneNameEach(r, names)
  BY <1>1, <1>5 DEF OneNameEach
<1> QED BY <1>3, <1>4, <1>5, <1>6 DEF r

LEMMA RemovedIs ==
  ASSUME NEW names, NEW files, 0 \notin files, NEW d \in Disk(names, files),
         OneNameEach(d, names), NEW name \in names
  PROVE  LET r == Removed(d, name)
         IN  /\ r \in Disk(names, files) /\ OneNameEach(r, names)
             /\ \A a \in names \ {name} : r.at[a] = d.at[a]
             /\ \A f \in files : f # d.at[name] => r.text[f] = d.text[f]
<1> DEFINE texts == [f \in DOMAIN d.text |-> IF f = d.at[name] THEN << >> ELSE d.text[f]]
           r == Removed(d, name)
<1>1. /\ d.at \in [names -> files \cup {0}] /\ d.text \in [files -> Seq(Entry)]
      /\ << >> \in Seq(Entry) /\ DOMAIN d.text = files
  BY EmptySeq DEF Disk
<1>2. r = [at |-> [d.at EXCEPT ![name] = 0], text |-> texts]
  BY DEF Removed
<1>3. texts \in [files -> Seq(Entry)] /\ \A f \in files : f # d.at[name] => texts[f] = d.text[f]
  BY <1>1
<1> HIDE DEF texts, r
<1>4. /\ r.at[name] = 0 /\ \A a \in names \ {name} : r.at[a] = d.at[a]
      /\ r.text = texts /\ r \in Disk(names, files)
  BY <1>1, <1>2, <1>3 DEF Disk
<1>5. OneNameEach(r, names)
  BY <1>1, <1>4 DEF OneNameEach
<1> QED BY <1>3, <1>4, <1>5 DEF r

-----------------------------------------------------------------------------
(***************************************************************************)
(* What Universal promises, for any number of sessions.                    *)
(***************************************************************************)
USE AbsentAssumption, NameAssumption, WindowAssumption

UniversalName == Window \cup {"store"}

(***************************************************************************)
(* A session that writes has the file it wrote under its own name, and the *)
(* file in place is the text of a table.                                   *)
(***************************************************************************)
WritesApart ==
  /\ OneNameEach(universal, UniversalName)
  /\ \A s \in Window :
       /\ session[s].file # 0 <=> session[s].pc = "made"
       /\ session[s].pc = "made" => /\ session[s].file = universal.at[s]
                                    /\ universal.text[session[s].file] = << >>
       /\ session[s].pc = "full" => /\ universal.at[s] # 0
                                    /\ universal.text[universal.at[s]] = Text(session[s].values)
  /\ universal.at["store"] # 0 =>
       \E t \in Table : universal.text[universal.at["store"]] = Text(t)

\* What a session that only looks has is what it read last.
Looks(s) ==
  /\ session[s].pc \in {"idle", "look", "missing"} /\ session[s].asks = "prompt"
  /\ env[s] = session[s].seen
  /\ ThinksCurrent(s) => session[s].seen = Stored

UniversalInv ==
  UniversalTypeOK /\ WritesApart /\ \A s \in looker : Looks(s)

-----------------------------------------------------------------------------
LEMMA UniversalNames ==
  /\ "store" \in UniversalName /\ \A s \in Window : s \in UniversalName /\ s # "store"
  /\ Cardinality(Window) \in Nat
  /\ StoreFile = 1 .. Cardinality(Window) + 1 /\ 0 \notin StoreFile
BY FS_CardinalityType DEF UniversalName, StoreFile

LEMMA StoredIsTable ==
  ASSUME UniversalTypeOK
  PROVE  Stored \in Table /\ (Exists(universal, "store") => Contents(universal, "store") \in Table)
<1>1. NothingStored \in Table
  BY DEF NothingStored, Table
<1>2. ASSUME Exists(universal, "store") PROVE Contents(universal, "store") \in Table
  <2>1. universal.text[universal.at["store"]] \in Seq(Entry)
    BY <1>2, UniversalNames DEF UniversalTypeOK, Disk, Exists, UniversalName
  <2> QED BY <2>1, ParsedIsTable DEF Contents
<1> QED BY <1>1, <1>2 DEF Stored

\* A step of one session leaves it a session.
LEMMA SessionTyped ==
  ASSUME UniversalTypeOK, NEW s \in Window, NEW e \in SessionState,
         session' = [session EXCEPT ![s] = e],
         universal' \in Disk(Window \cup {"store"}, StoreFile),
         env' \in [Window -> Table], looker' \subseteq Window
  PROVE  /\ UniversalTypeOK' /\ session'[s] = e
         /\ \A t \in Window \ {s} : session'[t] = session[t]
         /\ session' = [session EXCEPT ![s] = session'[s]]
BY DEF UniversalTypeOK

\* The steps that leave the files alone disturb only the session that takes them.
LEMMA FilesLeftAlone ==
  ASSUME UniversalInv, UNCHANGED universal, NEW s \in Window,
         session' = [session EXCEPT ![s] = session'[s]],
         session'[s].file = session[s].file, session'[s].pc = "made" <=> session[s].pc = "made",
         session'[s].pc # "full"
  PROVE  WritesApart' /\ Stored' = Stored
BY DEF UniversalInv, UniversalTypeOK, WritesApart, Stored, OneNameEach

\* A session that only looks is disturbed by nothing but its own steps and a change of the store.
LEMMA LookersLeftAlone ==
  ASSUME UniversalInv, NEW s \in Window, looker' \subseteq looker,
         \A t \in Window \ {s} : session'[t] = session[t] /\ env'[t] = env[t],
         Stored' = Stored, s \in looker' => Looks(s)'
  PROVE  \A t \in looker' : Looks(t)'
<1>1. ASSUME NEW t \in looker' PROVE Looks(t)'
  <2>1. t \in Window /\ t \in looker
    BY DEF UniversalInv, UniversalTypeOK
  <2>2. CASE t = s
    BY <1>1, <2>2
  <2>3. CASE t # s
    BY <2>1, <2>3 DEF UniversalInv, Looks, ThinksCurrent
  <2> QED BY <2>2, <2>3
<1> QED BY <1>1

LEMMA LookKeeps ==
  ASSUME UniversalInv, NEW s \in Window, NEW asks \in {"prompt", "list"}, Look(s, asks)
  PROVE  UniversalInv'
<1> USE DEF UniversalInv
<1> DEFINE e == [session[s] EXCEPT !.pc = "look", !.asks = asks, !.fresh = TRUE]
<1>0. session[s] \in SessionState /\ session[s].pc = "idle"
  BY DEF Look, UniversalTypeOK
<1>1. /\ session' = [session EXCEPT ![s] = e] /\ UNCHANGED <<universal, env>>
      /\ looker' \subseteq looker /\ (s \in looker' => asks = "prompt")
  BY DEF Look, UniversalTypeOK
<1>2. /\ e \in SessionState /\ e.pc = "look" /\ e.asks = asks /\ e.file = session[s].file
      /\ e.seen = session[s].seen
  BY <1>0 DEF SessionState
<1> HIDE DEF e
<1>3. /\ UniversalTypeOK' /\ session'[s] = e /\ session' = [session EXCEPT ![s] = session'[s]]
      /\ \A t \in Window \ {s} : session'[t] = session[t] /\ env'[t] = env[t]
  <2>1. /\ universal' \in Disk(Window \cup {"store"}, StoreFile) /\ env' \in [Window -> Table]
        /\ looker' \subseteq Window
    BY <1>1 DEF UniversalTypeOK
  <2> QED BY <1>1, <1>2, <2>1, SessionTyped
<1>4. WritesApart' /\ Stored' = Stored
  BY <1>0, <1>1, <1>2, <1>3, FilesLeftAlone
<1>5. s \in looker' => Looks(s)'
  BY <1>1, <1>2, <1>3 DEF Looks, ThinksCurrent
<1> QED BY <1>1, <1>3, <1>4, <1>5, LookersLeftAlone

\* A session that looked has what it read, and is current if its stamp was.
LEMMA SeesKeeps ==
  ASSUME UniversalInv, NEW s \in Window, NEW values \in Table, NEW fresh \in BOOLEAN,
         session[s].pc \in {"look", "missing"}, fresh => values = Stored,
         Sees(s, values, fresh)
  PROVE  UniversalInv'
<1> USE DEF UniversalInv
<1> DEFINE e == [session[s] EXCEPT !.pc = "idle", !.asks = "prompt", !.seen = values,
                                   !.read = TRUE, !.fresh = fresh]
<1>0. session[s] \in SessionState
  BY DEF UniversalTypeOK
<1>1. session' = [session EXCEPT ![s] = e] /\ UNCHANGED <<universal, looker>>
  BY DEF Sees, UniversalTypeOK
<1>2. /\ e \in SessionState /\ e.pc = "idle" /\ e.asks = "prompt" /\ e.seen = values
      /\ e.fresh = fresh /\ e.file = session[s].file
  BY <1>0 DEF SessionState
<1> HIDE DEF e
<1>3. Handed(session[s].seen, values, env[s]) \in Table
  BY DEF Handed, Table, UniversalTypeOK
<1>4. /\ UniversalTypeOK' /\ session'[s] = e /\ session' = [session EXCEPT ![s] = session'[s]]
      /\ \A t \in Window \ {s} : session'[t] = session[t]
  <2>1. /\ universal' \in Disk(Window \cup {"store"}, StoreFile) /\ env' \in [Window -> Table]
        /\ looker' \subseteq Window
    BY <1>1, <1>3 DEF Sees, UniversalTypeOK
  <2> QED BY <1>1, <1>2, <2>1, SessionTyped
<1>5. WritesApart' /\ Stored' = Stored
  BY <1>1, <1>2, <1>4, FilesLeftAlone
<1>6. ASSUME s \in looker' PROVE Looks(s)'
  <2>1. Looks(s)
    BY <1>1, <1>6
  <2>2. Handed(session[s].seen, values, env[s]) = values
    BY <2>1 DEF Handed, Table, Looks
  <2>3. env'[s] = values
    BY <2>1, <2>2 DEF Sees, Looks, UniversalTypeOK
  <2> QED BY <1>2, <1>4, <1>5, <2>3 DEF Looks, ThinksCurrent
<1>7. \A t \in Window \ {s} : session'[t] = session[t] /\ env'[t] = env[t]
  BY <1>4 DEF Sees, UniversalTypeOK
<1> QED BY <1>1, <1>4, <1>5, <1>6, <1>7, LookersLeftAlone

LEMMA LookingKeeps ==
  ASSUME UniversalInv, NEW s \in Window, Looking(s)
  PROVE  UniversalInv'
<1> USE DEF UniversalInv
<1>1. ASSUME NEW asks \in {"prompt", "list"}, Look(s, asks) PROVE UniversalInv'
  BY <1>1, LookKeeps
<1>2. CASE ReadText(s)
  <2>1. session[s].fresh \in BOOLEAN
    BY DEF UniversalTypeOK, SessionState
  <2>2. Contents(universal, "store") \in Table /\ Contents(universal, "store") = Stored
    BY <1>2, StoredIsTable DEF ReadText, Stored
  <2> QED BY <1>2, <2>1, <2>2, SeesKeeps DEF ReadText
<1>3. CASE SeesNothing(s)
  <2>1. NothingStored \in Table /\ NothingStored = Stored
    BY <1>3, StoredIsTable DEF SeesNothing, Stored
  <2> QED BY <1>3, <2>1, SeesKeeps DEF SeesNothing
<1>4. CASE ReadFails(s) \/ KeepsSnapshot(s)
  <2> DEFINE e == IF ReadFails(s) THEN [session[s] EXCEPT !.pc = "missing"]
                  ELSE [session[s] EXCEPT !.pc = "idle", !.asks = "prompt", !.fresh = FALSE]
  <2>0. session[s] \in SessionState
    BY DEF UniversalTypeOK
  <2>1. /\ session' = [session EXCEPT ![s] = e] /\ UNCHANGED <<universal, env, looker>>
        /\ session[s].pc \in {"look", "missing"}
    BY <1>4 DEF ReadFails, KeepsSnapshot, UniversalTypeOK
  <2>2. /\ e \in SessionState /\ e.file = session[s].file /\ e.seen = session[s].seen
        /\ \/ e.pc = "missing" /\ e.asks = session[s].asks
           \/ e.pc = "idle" /\ e.asks = "prompt" /\ ~ e.fresh
    BY <2>0 DEF SessionState
  <2> HIDE DEF e
  <2>6. /\ UniversalTypeOK' /\ session'[s] = e /\ session' = [session EXCEPT ![s] = session'[s]]
        /\ \A t \in Window \ {s} : session'[t] = session[t] /\ env'[t] = env[t]
    <3>1. /\ universal' \in Disk(Window \cup {"store"}, StoreFile) /\ env' \in [Window -> Table]
          /\ looker' \subseteq Window
      BY <2>1 DEF UniversalTypeOK
    <3> QED BY <2>1, <2>2, <3>1, SessionTyped
  <2>3. WritesApart' /\ Stored' = Stored
    BY <2>1, <2>2, <2>6, FilesLeftAlone
  <2>4. s \in looker' => Looks(s)'
    BY <2>1, <2>2, <2>6 DEF Looks, ThinksCurrent
  <2> QED BY <2>1, <2>3, <2>4, <2>6, LookersLeftAlone
<1> QED BY <1>1, <1>2, <1>3, <1>4 DEF Looking

\* Who edits is no looker: the first step of an edit sees to that.
LEMMA ReadForEditKeeps ==
  ASSUME UniversalInv, NEW s \in Window, NEW k \in Name, NEW v \in Value \cup {Absent},
         ReadForEdit(s, k, v)
  PROVE  UniversalInv'
<1> USE DEF UniversalInv
<1> DEFINE values == [Stored EXCEPT ![k] = v]
<1>1. values \in Table
  BY StoredIsTable DEF Table
<1> DEFINE e == [session[s] EXCEPT !.pc = "edited", !.key = k, !.values = values]
<1>2. /\ session' = [session EXCEPT ![s] = e] /\ session[s].pc = "idle"
      /\ looker' = looker \ {s} /\ UNCHANGED <<universal, env>>
  BY DEF ReadForEdit, Stored, UniversalTypeOK
<1> HIDE DEF values
<1>3. e \in SessionState /\ e.pc = "edited" /\ e.file = session[s].file
  <2>1. session[s] \in SessionState
    BY DEF UniversalTypeOK
  <2> QED BY <1>1, <2>1 DEF SessionState
<1> HIDE DEF e
<1>4. /\ UniversalTypeOK' /\ session'[s] = e /\ session' = [session EXCEPT ![s] = session'[s]]
      /\ \A t \in Window \ {s} : session'[t] = session[t] /\ env'[t] = env[t]
  <2>1. /\ universal' \in Disk(Window \cup {"store"}, StoreFile) /\ env' \in [Window -> Table]
        /\ looker' \subseteq Window
    BY <1>2 DEF UniversalTypeOK
  <2> QED BY <1>2, <1>3, <2>1, SessionTyped
<1>5. WritesApart' /\ Stored' = Stored
  BY <1>2, <1>3, <1>4, FilesLeftAlone
<1> QED BY <1>2, <1>4, <1>5, LookersLeftAlone

LEMMA MoveSnapshotKeeps ==
  ASSUME UniversalInv, NEW s \in Window, MoveSnapshot(s)
  PROVE  UniversalInv'
<1> USE DEF UniversalInv
<1> DEFINE e == [session[s] EXCEPT !.pc = "idle", !.key = Absent, !.values = NothingStored,
                                   !.seen = session[s].values, !.read = TRUE, !.fresh = TRUE]
<1>0. session[s] \in SessionState
  BY DEF UniversalTypeOK
<1>1. /\ session' = [session EXCEPT ![s] = e] /\ UNCHANGED <<universal, looker>>
      /\ session[s].pc = "renamed"
  BY DEF MoveSnapshot, UniversalTypeOK
<1>2. e \in SessionState /\ e.pc = "idle" /\ e.file = session[s].file
  <2>1. NothingStored \in Table
    BY DEF NothingStored, Table
  <2> QED BY <1>0, <2>1 DEF SessionState
<1> HIDE DEF e
<1> DEFINE mine == [env[s] EXCEPT ![session[s].key] = session[s].values[session[s].key]]
<1>3. env' = [env EXCEPT ![s] = mine]
  BY DEF MoveSnapshot, UniversalTypeOK
<1>4. mine \in Table
  <2>1. env[s] \in Table /\ session[s].values \in Table
    BY <1>0 DEF UniversalTypeOK, SessionState
  <2>2. session[s].key \in Name => session[s].values[session[s].key] \in Value \cup {Absent}
    BY <2>1 DEF Table
  <2> QED BY <2>1, <2>2 DEF Table
<1> HIDE DEF mine
<1>5. /\ UniversalTypeOK' /\ session'[s] = e /\ session' = [session EXCEPT ![s] = session'[s]]
      /\ \A t \in Window \ {s} : session'[t] = session[t] /\ env'[t] = env[t]
  <2>1. /\ universal' \in Disk(Window \cup {"store"}, StoreFile) /\ env' \in [Window -> Table]
        /\ looker' \subseteq Window /\ \A t \in Window \ {s} : env'[t] = env[t]
    BY <1>1, <1>3, <1>4 DEF UniversalTypeOK
  <2> QED BY <1>1, <1>2, <2>1, SessionTyped
<1>6. WritesApart' /\ Stored' = Stored
  BY <1>1, <1>2, <1>5, FilesLeftAlone
<1>7. s \notin looker'
  BY <1>1 DEF Looks
<1> QED BY <1>1, <1>5, <1>6, <1>7, LookersLeftAlone

\* A step that changes no file but the session's own temporary.
LEMMA TemporaryStepKeeps ==
  ASSUME UniversalInv, NEW s \in Window, NEW e \in SessionState,
         session[s].pc \in {"edited", "made", "full"},
         session' = [session EXCEPT ![s] = e], UNCHANGED <<env, looker>>,
         universal' \in Disk(UniversalName, StoreFile), OneNameEach(universal', UniversalName),
         \A a \in UniversalName \ {s} :
           /\ universal'.at[a] = universal.at[a]
           /\ universal.at[a] # 0 =>
                universal'.text[universal.at[a]] = universal.text[universal.at[a]],
         e.file # 0 <=> e.pc = "made",
         e.pc = "made" => e.file = universal'.at[s] /\ universal'.text[e.file] = << >>,
         e.pc = "full" => /\ universal'.at[s] # 0
                          /\ universal'.text[universal'.at[s]] = Text(e.values)
  PROVE  UniversalInv'
<1> USE DEF UniversalInv
<1>1. /\ UniversalTypeOK' /\ session'[s] = e
      /\ \A t \in Window \ {s} : session'[t] = session[t] /\ env'[t] = env[t]
  <2>1. /\ universal' \in Disk(Window \cup {"store"}, StoreFile) /\ env' \in [Window -> Table]
        /\ looker' \subseteq Window
    BY DEF UniversalTypeOK, UniversalName
  <2> QED BY <2>1, SessionTyped
<1>2. /\ universal'.at["store"] = universal.at["store"]
      /\ universal.at["store"] # 0 =>
           universal'.text[universal.at["store"]] = universal.text[universal.at["store"]]
  BY UniversalNames
<1>3. Stored' = Stored
  BY <1>2 DEF Stored, Exists, Contents
<1>4. WritesApart'
  <2>1. ASSUME NEW t \in Window
        PROVE  /\ session'[t].file # 0 <=> session'[t].pc = "made"
               /\ session'[t].pc = "made" => /\ session'[t].file = universal'.at[t]
                                             /\ universal'.text[session'[t].file] = << >>
               /\ session'[t].pc = "full" =>
                    /\ universal'.at[t] # 0
                    /\ universal'.text[universal'.at[t]] = Text(session'[t].values)
    <3>1. CASE t = s
      BY <1>1, <3>1
    <3>2. CASE t # s
      <4>1. t \in UniversalName \ {s} /\ session'[t] = session[t]
        BY <1>1, <3>2, UniversalNames
      <4> QED BY <4>1 DEF WritesApart
    <3> QED BY <3>1, <3>2
  <2>2. universal'.at["store"] # 0 =>
          \E t \in Table : universal'.text[universal'.at["store"]] = Text(t)
    BY <1>2 DEF WritesApart
  <2> QED BY <2>1, <2>2 DEF WritesApart
<1>5. s \notin looker'
  BY DEF Looks
<1> QED BY <1>1, <1>3, <1>4, <1>5, LookersLeftAlone

LEMMA CreateTemporaryKeeps ==
  ASSUME UniversalInv, NEW s \in Window, CreateTemporary(s)
  PROVE  UniversalInv'
<1> USE DEF UniversalInv
<1> DEFINE d == universal
           n == Cardinality(Window) + 1
           Used == UniversalName \ {s}
           via == [a \in Used |-> d.at[a]]
           c == Created(d, s, OpenFiles)
           e == [session[s] EXCEPT !.pc = "made", !.file = c.at[s]]
<1>1. /\ d \in Disk(UniversalName, StoreFile) /\ OneNameEach(d, UniversalName)
      /\ s \in UniversalName /\ n \in Nat /\ StoreFile = 1 .. n /\ 0 \notin StoreFile
      /\ session[s] \in SessionState /\ session[s].pc = "edited" /\ session[s].file = 0
  BY UniversalNames DEF UniversalTypeOK, WritesApart, UniversalName, CreateTemporary
<1>2. /\ universal' = c /\ session' = [session EXCEPT ![s] = e] /\ UNCHANGED <<env, looker>>
  BY DEF CreateTemporary, Temporary, UniversalTypeOK
<1>3. ~ Exists(d, s) => /\ Free(d, OpenFiles) \in StoreFile
                        /\ \A a \in UniversalName : d.at[a] # Free(d, OpenFiles)
  <2> SUFFICES ASSUME ~ Exists(d, s)
               PROVE  /\ Free(d, OpenFiles) \in StoreFile
                      /\ \A a \in UniversalName : d.at[a] # Free(d, OpenFiles)
    OBVIOUS
  <2>1. IsFiniteSet(Used) /\ Cardinality(Used) < n
    <3>1. IsFiniteSet(UniversalName) /\ Cardinality(UniversalName) = n
      BY FS_AddElement DEF UniversalName
    <3> HIDE DEF n
    <3>2. IsFiniteSet(UniversalName \ {s}) /\ Cardinality(UniversalName \ {s}) = n - 1
      BY <1>1, <3>1, FS_RemoveElement
    <3> QED BY <1>1, <3>2
  <2>2. via \in [Used -> 0 .. n]
    BY <1>1 DEF Disk
  <2>3. \A a \in UniversalName : d.at[a] # 0 => \E u \in Used : via[u] = d.at[a]
    BY DEF Exists
  <2>4. \A f \in OpenFiles : f \in 1 .. n => \E u \in Used : via[u] = f
    BY <1>1, UniversalNames DEF OpenFiles, WritesApart
  <2> HIDE DEF Used, via, n
  <2> QED BY <1>1, <2>1, <2>2, <2>3, <2>4, SomeFileIsFree
<1> HIDE DEF n
<1>4. /\ c \in Disk(UniversalName, StoreFile) /\ OneNameEach(c, UniversalName)
      /\ c.at[s] \in StoreFile /\ c.text[c.at[s]] = << >>
      /\ \A a \in UniversalName \ {s} : c.at[a] = d.at[a] /\ d.at[a] # c.at[s]
      /\ \A f \in StoreFile \ {c.at[s]} : c.text[f] = d.text[f]
  <2> HIDE DEF c
  <2> QED BY <1>1, <1>3, CreatedIs DEF c
<1> HIDE DEF c
<1>5. /\ e \in SessionState /\ e.pc = "made" /\ e.file = c.at[s]
  BY <1>1, <1>4 DEF SessionState
<1> HIDE DEF e
<1>6. \A a \in UniversalName \ {s} : d.at[a] # 0 => c.text[d.at[a]] = d.text[d.at[a]]
  BY <1>1, <1>4 DEF Disk
<1> QED BY <1>1, <1>2, <1>4, <1>5, <1>6, TemporaryStepKeeps

LEMMA WriteTemporaryKeeps ==
  ASSUME UniversalInv, NEW s \in Window, WriteTemporary(s)
  PROVE  UniversalInv'
<1> USE DEF UniversalInv
<1> DEFINE d == universal
           f == session[s].file
           w == Filled(d, f, Text(session[s].values))
           e == [session[s] EXCEPT !.pc = "full", !.file = 0]
<1>1. /\ d \in Disk(UniversalName, StoreFile) /\ OneNameEach(d, UniversalName)
      /\ s \in UniversalName /\ 0 \notin StoreFile
      /\ session[s] \in SessionState /\ session[s].pc = "made"
  BY UniversalNames DEF UniversalTypeOK, WritesApart, UniversalName, WriteTemporary
<1>2. /\ f \in StoreFile /\ f = d.at[s] /\ d.text[f] = << >> /\ Text(session[s].values) \in Seq(Entry)
  BY <1>1, TextReadsBack DEF WritesApart, SessionState
<1>3. /\ universal' = w /\ session' = [session EXCEPT ![s] = e] /\ UNCHANGED <<env, looker>>
  BY DEF WriteTemporary, UniversalTypeOK
<1>4. /\ w \in Disk(UniversalName, StoreFile) /\ w.at = d.at
      /\ w.text[f] = Text(session[s].values) /\ \A g \in StoreFile \ {f} : w.text[g] = d.text[g]
  <2> HIDE DEF f, w
  <2> QED BY <1>1, <1>2, FilledIs DEF w
<1> HIDE DEF w
<1>5. e \in SessionState /\ e.pc = "full" /\ e.file = 0 /\ e.values = session[s].values
  BY <1>1 DEF SessionState
<1> HIDE DEF e
<1>6. OneNameEach(w, UniversalName)
  BY <1>1, <1>4 DEF OneNameEach
<1>7. \A a \in UniversalName \ {s} : w.at[a] = d.at[a] /\
          (d.at[a] # 0 => w.text[d.at[a]] = d.text[d.at[a]])
  BY <1>1, <1>2, <1>4 DEF Disk, OneNameEach
<1>8. w.at[s] # 0 /\ w.text[w.at[s]] = Text(e.values)
  BY <1>1, <1>2, <1>4, <1>5
<1> QED BY <1>1, <1>3, <1>4, <1>5, <1>6, <1>7, <1>8, TemporaryStepKeeps

LEMMA ChangeFailsKeeps ==
  ASSUME UniversalInv, NEW s \in Window, ChangeFails(s)
  PROVE  UniversalInv'
<1> USE DEF UniversalInv
<1> DEFINE d == universal
           e == [session[s] EXCEPT !.pc = "idle", !.key = Absent, !.values = NothingStored,
                                   !.file = 0]
<1>1. /\ d \in Disk(UniversalName, StoreFile) /\ OneNameEach(d, UniversalName)
      /\ s \in UniversalName /\ 0 \notin StoreFile
      /\ session[s] \in SessionState /\ session[s].pc \in {"edited", "made", "full"}
  BY UniversalNames DEF UniversalTypeOK, WritesApart, UniversalName, ChangeFails
<1>2. /\ session' = [session EXCEPT ![s] = e] /\ UNCHANGED <<env, looker>>
      /\ universal' \in {d, Removed(d, s)}
  BY DEF ChangeFails, UniversalTypeOK, Temporary
<1>3. e \in SessionState /\ e.pc = "idle" /\ e.file = 0
  <2>1. NothingStored \in Table
    BY DEF NothingStored, Table
  <2> QED BY <1>1, <2>1 DEF SessionState
<1> HIDE DEF e
<1>4. /\ Removed(d, s) \in Disk(UniversalName, StoreFile)
      /\ OneNameEach(Removed(d, s), UniversalName)
      /\ \A a \in UniversalName \ {s} : Removed(d, s).at[a] = d.at[a]
      /\ \A f \in StoreFile : f # d.at[s] => Removed(d, s).text[f] = d.text[f]
  BY <1>1, RemovedIs
<1>5. \A a \in UniversalName \ {s} : d.at[a] # 0 => d.at[a] # d.at[s] /\ d.at[a] \in StoreFile
  BY <1>1 DEF Disk, OneNameEach
<1>6. /\ universal' \in Disk(UniversalName, StoreFile) /\ OneNameEach(universal', UniversalName)
      /\ \A a \in UniversalName \ {s} :
           /\ universal'.at[a] = d.at[a]
           /\ d.at[a] # 0 => universal'.text[d.at[a]] = d.text[d.at[a]]
  BY <1>1, <1>2, <1>4, <1>5
<1> QED BY <1>1, <1>2, <1>3, <1>6, TemporaryStepKeeps

\* The store is now what was written, and nobody's stamp is its any more.
LEMMA RenameTemporaryKeeps ==
  ASSUME UniversalInv, NEW s \in Window, RenameTemporary(s)
  PROVE  UniversalInv'
<1> USE DEF UniversalInv
<1> DEFINE d == universal
           r == Renamed(d, s, "store")
           e(t) == [session[t] EXCEPT !.fresh = FALSE, !.pc = IF t = s THEN "renamed" ELSE @]
<1>1. /\ d \in Disk(UniversalName, StoreFile) /\ OneNameEach(d, UniversalName)
      /\ s \in UniversalName /\ "store" \in UniversalName /\ s # "store" /\ 0 \notin StoreFile
      /\ session[s].pc = "full" /\ Exists(d, s)
  BY UniversalNames DEF UniversalTypeOK, WritesApart, UniversalName, RenameTemporary, Temporary
<1>2. /\ universal' = r /\ session' = [t \in Window |-> e(t)] /\ UNCHANGED <<env, looker>>
  BY DEF RenameTemporary, Temporary
<1>3. /\ r \in Disk(UniversalName, StoreFile) /\ OneNameEach(r, UniversalName)
      /\ r.at[s] = 0 /\ r.at["store"] = d.at[s]
      /\ \A a \in UniversalName \ {s, "store"} : r.at[a] = d.at[a]
      /\ \A f \in StoreFile : f # d.at["store"] => r.text[f] = d.text[f]
  BY <1>1, RenamedIs
<1> HIDE DEF r
<1>4. ASSUME NEW t \in Window
      PROVE  /\ session'[t] \in SessionState /\ ~ session'[t].fresh
             /\ session'[t].pc = IF t = s THEN "renamed" ELSE session[t].pc
             /\ session'[t].file = session[t].file /\ session'[t].values = session[t].values
             /\ session'[t].seen = session[t].seen /\ session'[t].asks = session[t].asks
  <2>1. session[t] \in SessionState
    BY DEF UniversalTypeOK
  <2> QED BY <1>2, <2>1 DEF SessionState
<1>5. UniversalTypeOK'
  <2>1. session' \in [Window -> SessionState]
    BY <1>2, <1>4
  <2> QED BY <1>2, <1>3, <2>1 DEF UniversalTypeOK, UniversalName
<1>6. /\ d.at[s] \in StoreFile /\ d.at[s] # d.at["store"]
      /\ \A t \in Window \ {s} : /\ r.at[t] = d.at[t]
                                 /\ d.at[t] # 0 => r.text[d.at[t]] = d.text[d.at[t]]
  <2>1. \A a \in UniversalName : d.at[a] \in StoreFile \cup {0}
    BY <1>1 DEF Disk
  <2>2. \A a \in UniversalName \ {"store"} : d.at[a] # 0 => d.at[a] # d.at["store"]
    BY <1>1 DEF OneNameEach
  <2>3. \A t \in Window \ {s} : t \in UniversalName \ {s, "store"}
    BY UniversalNames
  <2> QED BY <1>1, <1>3, <2>1, <2>2, <2>3 DEF Exists
<1>7. WritesApart'
  <2>1. ASSUME NEW t \in Window
        PROVE  /\ session'[t].file # 0 <=> session'[t].pc = "made"
               /\ session'[t].pc = "made" => /\ session'[t].file = r.at[t]
                                             /\ r.text[session'[t].file] = << >>
               /\ session'[t].pc = "full" => /\ r.at[t] # 0
                                             /\ r.text[r.at[t]] = Text(session'[t].values)
    BY <1>1, <1>4, <1>6 DEF WritesApart
  <2>2. r.text[r.at["store"]] = Text(session[s].values) /\ session[s].values \in Table
    BY <1>1, <1>3, <1>6 DEF WritesApart, UniversalTypeOK, SessionState
  <2>3. OneNameEach(universal', UniversalName)
    BY <1>2, <1>3
  <2>4. \E v \in Table : universal'.text[universal'.at["store"]] = Text(v)
    BY <1>2, <2>2
  <2>5. universal' = r
    BY <1>2
  <2> HIDE DEF Text
  <2> QED BY <2>1, <2>3, <2>4, <2>5 DEF WritesApart
<1>8. ASSUME NEW t \in looker' PROVE Looks(t)'
  <2>1. t \in Window /\ t \in looker /\ t # s /\ Looks(t)
    BY <1>1, <1>2 DEF UniversalTypeOK, Looks
  <2>2. /\ session'[t].pc = session[t].pc /\ session'[t].asks = session[t].asks
        /\ session'[t].seen = session[t].seen /\ env'[t] = env[t] /\ ~ session'[t].fresh
    BY <1>2, <1>4, <2>1
  <2>3. ~ ThinksCurrent(t)'
    BY <2>2 DEF ThinksCurrent
  <2> QED BY <2>1, <2>2, <2>3 DEF Looks
<1> QED BY <1>5, <1>7, <1>8

THEOREM UniversalInvHolds == UniversalSpec => []UniversalInv
<1>1. UniversalInit => UniversalInv
  <2> SUFFICES ASSUME UniversalInit PROVE UniversalInv
    OBVIOUS
  <2>1. NothingStored \in Table
    BY DEF NothingStored, Table
  <2>2. universal \in Disk(UniversalName, StoreFile) /\ OneNameEach(universal, UniversalName)
    BY EmptyDiskIsADisk DEF UniversalInit, UniversalName
  <2>3. IdleSession \in SessionState
    BY <2>1 DEF IdleSession, SessionState
  <2>4. UniversalTypeOK
    BY <2>1, <2>2, <2>3 DEF UniversalInit, UniversalTypeOK, UniversalName
  <2>5. \A s \in Window : /\ session[s].pc = "idle" /\ session[s].file = 0 /\ ~ session[s].read
                          /\ session[s].asks = "prompt" /\ env[s] = session[s].seen
    BY DEF UniversalInit, IdleSession
  <2>6. universal.at["store"] = 0
    BY UniversalNames DEF UniversalInit, EmptyDisk, UniversalName
  <2> QED BY <2>2, <2>4, <2>5, <2>6 DEF UniversalInv, WritesApart, Looks, ThinksCurrent, UniversalInit
<1>2. UniversalInv /\ [UniversalNext]_universalVars => UniversalInv'
  <2> SUFFICES ASSUME UniversalInv, [UniversalNext]_universalVars PROVE UniversalInv'
    OBVIOUS
  <2>1. CASE UNCHANGED universalVars
    BY <2>1 DEF universalVars, UniversalInv, UniversalTypeOK, WritesApart, Looks, ThinksCurrent,
                OneNameEach, Stored, Exists, Contents
  <2>2. ASSUME NEW s \in Window, Looking(s) PROVE UniversalInv'
    BY <2>2, LookingKeeps
  <2>3. ASSUME NEW s \in Window, Changing(s) PROVE UniversalInv'
    BY <2>3, ReadForEditKeeps, CreateTemporaryKeeps, WriteTemporaryKeeps, RenameTemporaryKeeps,
       ChangeFailsKeeps, MoveSnapshotKeeps DEF Changing
  <2> QED BY <2>1, <2>2, <2>3 DEF UniversalNext
<1> QED BY <1>1, <1>2, PTL DEF UniversalSpec

(***************************************************************************)
(* A session that never typed `set -U` is never wrong about being current  *)
(* (sync_into, reload).                                                    *)
(***************************************************************************)
THEOREM LookersSeeHolds == UniversalSpec => []LookersSee
<1>1. UniversalInv => LookersSee
  BY DEF UniversalInv, LookersSee, Looks
<1> QED BY <1>1, UniversalInvHolds, PTL

(***************************************************************************)
(* No session ever puts a half-written file in place: its temporary is its *)
(* own, is not the store, and says what the session means to store.        *)
(***************************************************************************)
THEOREM EveryWriteIsWholeHolds == UniversalSpec => []EveryWriteIsWhole
<1>1. UniversalInv => EveryWriteIsWhole
  <2> SUFFICES ASSUME UniversalInv, NEW s \in Window
               PROVE  /\ session[s].file # 0 => session[s].file # universal.at["store"]
                      /\ session[s].pc = "full" =>
                           /\ Exists(universal, Temporary(s))
                           /\ universal.text[universal.at[Temporary(s)]] = Text(session[s].values)
    BY DEF EveryWriteIsWhole
  <2> QED BY UniversalNames DEF UniversalInv, WritesApart, OneNameEach, Exists, Temporary
<1> QED BY <1>1, UniversalInvHolds, PTL

-----------------------------------------------------------------------------
(***************************************************************************)
(* What MacroFiles promises, for any number of commands and shells.        *)
(***************************************************************************)
USE PublisherAssumption

SnapshotName == {"snapshot", "scratch"}

PublisherState == [pc : {"idle", "stored", "read", "made", "full"},
                   entries : Table, file : SnapshotFile \cup {0}]
ReaderState == [pc : {"down", "installing", "idle", "looking"}, held : Table,
                fresh : BOOLEAN, overtaken : BOOLEAN]

FilesHeld ==
  /\ OneNameEach(published, SnapshotName)
  /\ \A p \in Publisher : publisher[p].file # 0 <=> publisher[p].pc = "made"

(***************************************************************************)
(* Unless they got in each other's way, one command at most is under way:  *)
(* it publishes what the database says, in a file that is its own until it *)
(* is the snapshot.                                                        *)
(***************************************************************************)
OneAtATime ==
  ~ behind =>
    /\ \A p, q \in Publisher : publisher[p].pc # "idle" /\ publisher[q].pc # "idle" => p = q
    /\ \A p \in Publisher :
         /\ publisher[p].pc \in {"read", "made"} => publisher[p].entries = macros
         /\ publisher[p].pc = "made" => /\ publisher[p].file = published.at["scratch"]
                                        /\ published.text[publisher[p].file] = << >>
         /\ publisher[p].pc = "full" =>
              /\ published.at["scratch"] # 0
              /\ published.text[published.at["scratch"]] = Text(macros)
    /\ (\A p \in Publisher : publisher[p].pc = "idle") => Wanted = macros

\* What a shell holds is the snapshot in place, as long as its stamp is.
HoldsWanted(r, wanted) ==
  r.pc = "installing" \/ (r.pc = "idle" /\ r.fresh) => r.overtaken \/ r.held = wanted

ReadersHold == \A s \in Reader : HoldsWanted(reader[s], Wanted)

MacroInv == MacroTypeOK /\ FilesHeld /\ OneAtATime /\ ReadersHold

-----------------------------------------------------------------------------
LEMMA MacroTypes ==
  MacroTypeOK <=>
    /\ macros \in Table /\ published \in Disk(SnapshotName, SnapshotFile)
    /\ publisher \in [Publisher -> PublisherState] /\ reader \in [Reader -> ReaderState]
    /\ behind \in BOOLEAN
BY DEF MacroTypeOK, SnapshotName, PublisherState, ReaderState

LEMMA SnapshotNames ==
  /\ "snapshot" \in SnapshotName /\ "scratch" \in SnapshotName
  /\ SnapshotName = {"snapshot", "scratch"}
  /\ Cardinality(Publisher) \in Nat
  /\ SnapshotFile = 1 .. Cardinality(Publisher) + 2 /\ 0 \notin SnapshotFile
BY FS_CardinalityType DEF SnapshotName, SnapshotFile

LEMMA WantedIsTable ==
  ASSUME MacroTypeOK
  PROVE  Wanted \in Table
<1>1. NothingStored \in Table
  BY DEF NothingStored, Table
<1>2. ASSUME Exists(published, "snapshot") PROVE Contents(published, "snapshot") \in Table
  <2>1. published.text[published.at["snapshot"]] \in Seq(Entry)
    BY <1>2, SnapshotNames, MacroTypes DEF Disk, Exists
  <2> QED BY <2>1, ParsedIsTable DEF Contents
<1> QED BY <1>1, <1>2 DEF Wanted

\* A step of one command leaves it a command.
LEMMA PublisherTyped ==
  ASSUME MacroTypeOK, NEW p \in Publisher, NEW e \in PublisherState,
         publisher' = [publisher EXCEPT ![p] = e]
  PROVE  /\ publisher' \in [Publisher -> PublisherState] /\ publisher'[p] = e
         /\ \A q \in Publisher \ {p} : publisher'[q] = publisher[q]
BY MacroTypes

\* A snapshot that moves is noticed, or was read before the stamps were taken.
LEMMA MovedKeeps ==
  ASSUME MacroTypeOK, ReadersHold, Moved(published, published')
  PROVE  reader' \in [Reader -> ReaderState] /\ ReadersHold'
<1> DEFINE same == /\ published'.at["snapshot"] = published.at["snapshot"]
                   /\ \/ published.at["snapshot"] = 0
                      \/ published'.text[published.at["snapshot"]] =
                           published.text[published.at["snapshot"]]
           late(s) == [reader[s] EXCEPT !.fresh = FALSE,
                                        !.overtaken = @ \/ reader[s].pc = "installing"]
<1>1. reader' = IF same THEN reader ELSE [s \in Reader |-> late(s)]
  BY DEF Moved
<1>2. same => Wanted' = Wanted
  BY DEF Wanted, Exists, Contents
<1> HIDE DEF same
<1>3. CASE same
  BY <1>1, <1>2, <1>3, MacroTypes DEF ReadersHold
<1>4. CASE ~ same
  <2>1. ASSUME NEW s \in Reader
        PROVE  late(s) \in ReaderState /\ \A w : HoldsWanted(late(s), w)
    <3>1. reader[s] \in ReaderState
      BY MacroTypes
    <3> QED BY <3>1 DEF ReaderState, HoldsWanted
  <2> HIDE DEF late
  <2> QED BY <1>1, <1>4, <2>1 DEF ReadersHold
<1> QED BY <1>3, <1>4

-----------------------------------------------------------------------------
LEMMA StoreMacroKeeps ==
  ASSUME MacroInv, NEW p \in Publisher, NEW k \in Name, NEW v \in Value \cup {Absent},
         StoreMacro(p, k, v)
  PROVE  MacroInv'
<1> USE DEF MacroInv
<1> DEFINE e == [publisher[p] EXCEPT !.pc = "stored"]
<1>0. publisher[p] \in PublisherState /\ publisher[p].pc = "idle"
  BY MacroTypes DEF StoreMacro
<1>1. /\ publisher' = [publisher EXCEPT ![p] = e] /\ UNCHANGED <<published, reader>>
      /\ macros' = [macros EXCEPT ![k] = v] /\ behind' = ~ Alone(p)
  BY MacroTypes DEF StoreMacro
<1>2. e \in PublisherState /\ e.pc = "stored" /\ e.file = publisher[p].file
  BY <1>0 DEF PublisherState
<1> HIDE DEF e
<1>3. /\ publisher' \in [Publisher -> PublisherState] /\ publisher'[p] = e
      /\ \A q \in Publisher \ {p} : publisher'[q] = publisher[q]
  BY <1>1, <1>2, PublisherTyped
<1>4. MacroTypeOK'
  <2>1. macros' \in Table
    BY <1>1, MacroTypes DEF Table
  <2>2. behind' \in BOOLEAN
    BY <1>1 DEF Alone
  <2> QED BY <1>1, <1>3, <2>1, <2>2, MacroTypes DEF MacroTypeOK, PublisherState
<1>5. FilesHeld'
  BY <1>0, <1>1, <1>2, <1>3 DEF FilesHeld, OneNameEach
<1>6. OneAtATime'
  BY <1>1, <1>2, <1>3 DEF OneAtATime, Alone
<1>7. ReadersHold'
  BY <1>1 DEF ReadersHold, HoldsWanted, Wanted, Exists, Contents
<1> QED BY <1>4, <1>5, <1>6, <1>7

LEMMA ReadEntriesKeeps ==
  ASSUME MacroInv, NEW p \in Publisher, ReadEntries(p)
  PROVE  MacroInv'
<1> USE DEF MacroInv
<1> DEFINE e == [publisher[p] EXCEPT !.pc = "read", !.entries = macros]
<1>0. publisher[p] \in PublisherState /\ publisher[p].pc = "stored" /\ macros \in Table
  BY MacroTypes DEF ReadEntries
<1>1. /\ publisher' = [publisher EXCEPT ![p] = e]
      /\ UNCHANGED <<macros, published, reader, behind>>
  BY MacroTypes DEF ReadEntries
<1>2. e \in PublisherState /\ e.pc = "read" /\ e.file = publisher[p].file /\ e.entries = macros
  BY <1>0 DEF PublisherState
<1> HIDE DEF e
<1>3. /\ publisher' \in [Publisher -> PublisherState] /\ publisher'[p] = e
      /\ \A q \in Publisher \ {p} : publisher'[q] = publisher[q]
  BY <1>1, <1>2, PublisherTyped
<1>4. MacroTypeOK'
  BY <1>1, <1>3, MacroTypes DEF MacroTypeOK, PublisherState
<1>5. FilesHeld'
  BY <1>0, <1>1, <1>2, <1>3 DEF FilesHeld, OneNameEach
<1>6. OneAtATime'
  BY <1>0, <1>1, <1>2, <1>3 DEF OneAtATime
<1>7. ReadersHold'
  BY <1>1 DEF ReadersHold, HoldsWanted, Wanted, Exists, Contents
<1> QED BY <1>4, <1>5, <1>6, <1>7

\* The scratch is another file than the snapshot.
LEMMA CreateScratchKeeps ==
  ASSUME MacroInv, NEW p \in Publisher, CreateScratch(p)
  PROVE  MacroInv'
<1> USE DEF MacroInv
<1> DEFINE d == published
           n == Cardinality(Publisher) + 2
           Used == OpenSnapshots \cup {d.at["snapshot"]}
           via == [f \in Used |-> f]
           c == Created(d, "scratch", OpenSnapshots)
           e == [publisher[p] EXCEPT !.pc = "made", !.file = c.at["scratch"]]
<1>1. /\ d \in Disk(SnapshotName, SnapshotFile) /\ OneNameEach(d, SnapshotName)
      /\ n \in Nat /\ SnapshotFile = 1 .. n /\ 0 \notin SnapshotFile
      /\ publisher[p] \in PublisherState /\ publisher[p].pc = "read"
      /\ OpenSnapshots \subseteq 0 .. n
  <2>1. \A q \in Publisher : publisher[q].file \in SnapshotFile \cup {0}
    BY MacroTypes DEF PublisherState
  <2>2. OpenSnapshots \subseteq SnapshotFile \cup {0}
    BY <2>1 DEF OpenSnapshots
  <2> QED BY <2>2, SnapshotNames, MacroTypes DEF FilesHeld, CreateScratch
<1>2. /\ published' = c /\ publisher' = [publisher EXCEPT ![p] = e]
      /\ UNCHANGED <<macros, reader, behind>>
  BY MacroTypes DEF CreateScratch
<1>3. ~ Exists(d, "scratch") => /\ Free(d, OpenSnapshots) \in SnapshotFile
                                /\ \A a \in SnapshotName : d.at[a] # Free(d, OpenSnapshots)
  <2> SUFFICES ASSUME ~ Exists(d, "scratch")
               PROVE  /\ Free(d, OpenSnapshots) \in SnapshotFile
                      /\ \A a \in SnapshotName : d.at[a] # Free(d, OpenSnapshots)
    OBVIOUS
  <2>1. IsFiniteSet(OpenSnapshots) /\ Cardinality(OpenSnapshots) <= Cardinality(Publisher)
    <3> DEFINE opens == [q \in Publisher |-> publisher[q].file]
    <3>1. opens \in Surjection(Publisher, OpenSnapshots)
      BY DEF Surjection, OpenSnapshots
    <3> QED BY <3>1, FS_Surjection
  <2>2. IsFiniteSet(Used) /\ Cardinality(Used) < n
    <3>1. Cardinality(OpenSnapshots) \in Nat /\ Cardinality(Publisher) \in Nat
      BY <2>1, FS_CardinalityType
    <3>2. ASSUME NEW x
          PROVE  /\ IsFiniteSet(OpenSnapshots \cup {x})
                 /\ Cardinality(OpenSnapshots \cup {x}) < Cardinality(Publisher) + 2
      <4>1. IsFiniteSet(OpenSnapshots \cup {x})
        BY <2>1, FS_AddElement
      <4>2. Cardinality(OpenSnapshots \cup {x}) =
              IF x \in OpenSnapshots THEN Cardinality(OpenSnapshots)
              ELSE Cardinality(OpenSnapshots) + 1
        BY <2>1, FS_AddElement
      <4> QED BY <2>1, <3>1, <4>1, <4>2
    <3> QED BY <3>2
  <2>3. Used \subseteq 0 .. n
    <3>1. d.at["snapshot"] \in SnapshotFile \cup {0}
      BY <1>1, SnapshotNames DEF Disk
    <3> HIDE DEF n
    <3>2. SnapshotFile \cup {0} \subseteq 0 .. n
      BY <1>1
    <3> QED BY <1>1, <3>1, <3>2
  <2>4. via \in [Used -> 0 .. n]
    BY <2>3
  <2>5. \A a \in SnapshotName : d.at[a] # 0 => \E u \in Used : via[u] = d.at[a]
    BY SnapshotNames DEF Exists
  <2>6. \A f \in OpenSnapshots : f \in 1 .. n => \E u \in Used : via[u] = f
    OBVIOUS
  <2> HIDE DEF Used, via, n
  <2> QED BY <1>1, <2>2, <2>4, <2>5, <2>6, SomeFileIsFree
<1> HIDE DEF n
<1>4. /\ c \in Disk(SnapshotName, SnapshotFile) /\ OneNameEach(c, SnapshotName)
      /\ c.at["scratch"] \in SnapshotFile /\ c.text[c.at["scratch"]] = << >>
      /\ c.at["snapshot"] = d.at["snapshot"] /\ d.at["snapshot"] # c.at["scratch"]
      /\ \A f \in SnapshotFile \ {c.at["scratch"]} : c.text[f] = d.text[f]
  <2>1. /\ c \in Disk(SnapshotName, SnapshotFile) /\ OneNameEach(c, SnapshotName)
        /\ c.at["scratch"] \in SnapshotFile /\ c.text[c.at["scratch"]] = << >>
        /\ \A a \in SnapshotName \ {"scratch"} : c.at[a] = d.at[a] /\ d.at[a] # c.at["scratch"]
        /\ \A f \in SnapshotFile \ {c.at["scratch"]} : c.text[f] = d.text[f]
    <3> HIDE DEF c
    <3> QED BY <1>1, <1>3, CreatedIs, SnapshotNames DEF c
  <2> HIDE DEF c
  <2> QED BY <2>1, SnapshotNames
<1> HIDE DEF c
<1>5. /\ e \in PublisherState /\ e.pc = "made" /\ e.file = c.at["scratch"] /\ e.file # 0
      /\ e.entries = publisher[p].entries
  BY <1>1, <1>4 DEF PublisherState
<1> HIDE DEF e
<1>6. /\ publisher' \in [Publisher -> PublisherState] /\ publisher'[p] = e
      /\ \A q \in Publisher \ {p} : publisher'[q] = publisher[q]
  BY <1>2, <1>5, PublisherTyped
<1>7. MacroTypeOK'
  BY <1>2, <1>4, <1>6, MacroTypes DEF MacroTypeOK, PublisherState, SnapshotName
<1>8. FilesHeld'
  BY <1>2, <1>4, <1>5, <1>6 DEF FilesHeld
<1>9. Wanted' = Wanted
  <2>1. d.at["snapshot"] # 0 => d.at["snapshot"] \in SnapshotFile
    BY <1>1, SnapshotNames DEF Disk
  <2> QED BY <1>2, <1>4, <2>1 DEF Wanted, Exists, Contents
<1>10. OneAtATime'
  BY <1>1, <1>2, <1>4, <1>5, <1>6 DEF OneAtATime
<1>11. ReadersHold'
  BY <1>2, <1>9 DEF ReadersHold
<1> QED BY <1>7, <1>8, <1>10, <1>11

LEMMA WriteScratchKeeps ==
  ASSUME MacroInv, NEW p \in Publisher, WriteScratch(p)
  PROVE  MacroInv'
<1> USE DEF MacroInv
<1> DEFINE d == published
           f == publisher[p].file
           w == Filled(d, f, Text(publisher[p].entries))
           e == [publisher[p] EXCEPT !.pc = "full", !.file = 0]
<1>1. /\ d \in Disk(SnapshotName, SnapshotFile) /\ OneNameEach(d, SnapshotName)
      /\ publisher[p] \in PublisherState /\ publisher[p].pc = "made"
      /\ f \in SnapshotFile /\ Text(publisher[p].entries) \in Seq(Entry)
  <2>1. publisher[p] \in PublisherState /\ publisher[p].pc = "made"
    BY MacroTypes DEF WriteScratch
  <2>2. f # 0
    BY <2>1 DEF FilesHeld
  <2> QED BY <2>1, <2>2, TextReadsBack, MacroTypes DEF FilesHeld, PublisherState
<1>2. /\ published' = w /\ publisher' = [publisher EXCEPT ![p] = e]
      /\ Moved(published, published') /\ UNCHANGED <<macros, behind>>
  BY MacroTypes DEF WriteScratch
<1>3. /\ w \in Disk(SnapshotName, SnapshotFile) /\ w.at = d.at
      /\ d.text[f] = << >> => w.text[f] = Text(publisher[p].entries)
      /\ \A g \in SnapshotFile \ {f} : w.text[g] = d.text[g]
  <2> HIDE DEF f, w
  <2> QED BY <1>1, FilledIs DEF w
<1> HIDE DEF w
<1>4. e \in PublisherState /\ e.pc = "full" /\ e.file = 0 /\ e.entries = publisher[p].entries
  BY <1>1 DEF PublisherState
<1> HIDE DEF e
<1>5. /\ publisher' \in [Publisher -> PublisherState] /\ publisher'[p] = e
      /\ \A q \in Publisher \ {p} : publisher'[q] = publisher[q]
  BY <1>2, <1>4, PublisherTyped
<1>6. reader' \in [Reader -> ReaderState] /\ ReadersHold'
  BY <1>2, MovedKeeps
<1>7. MacroTypeOK'
  BY <1>2, <1>3, <1>5, <1>6, MacroTypes DEF MacroTypeOK, PublisherState, ReaderState, SnapshotName
<1>8. FilesHeld'
  BY <1>1, <1>2, <1>3, <1>4, <1>5 DEF FilesHeld, OneNameEach
<1>9. OneAtATime'
  <2> SUFFICES ASSUME ~ behind PROVE OneAtATime'
    BY <1>2 DEF OneAtATime
  <2>1. /\ \A q, r \in Publisher : publisher[q].pc # "idle" /\ publisher[r].pc # "idle" => q = r
        /\ publisher[p].entries = macros /\ f = d.at["scratch"] /\ d.text[f] = << >>
    BY <1>1 DEF OneAtATime
  <2>2. \A q \in Publisher \ {p} : publisher'[q].pc = "idle"
    BY <1>1, <1>5, <2>1
  <2>3. w.at["scratch"] # 0 /\ w.text[w.at["scratch"]] = Text(macros)
    BY <1>1, <1>3, <2>1, SnapshotNames
  <2>4. publisher'[p].pc = "full" /\ published' = w /\ macros' = macros
    BY <1>2, <1>4, <1>5
  <2> QED BY <2>2, <2>3, <2>4 DEF OneAtATime
<1> QED BY <1>6, <1>7, <1>8, <1>9

\* Undisturbed, what is put in place reads back as the database.
LEMMA RenameScratchKeeps ==
  ASSUME MacroInv, NEW p \in Publisher, RenameScratch(p)
  PROVE  MacroInv'
<1> USE DEF MacroInv
<1> DEFINE d == published
           r == Renamed(d, "scratch", "snapshot")
<1>1. /\ d \in Disk(SnapshotName, SnapshotFile) /\ OneNameEach(d, SnapshotName)
      /\ publisher[p] \in PublisherState /\ publisher[p].pc = "full" /\ macros \in Table
      /\ "scratch" \in SnapshotName /\ "snapshot" \in SnapshotName /\ 0 \notin SnapshotFile
  BY MacroTypes, SnapshotNames DEF FilesHeld, RenameScratch
<1>2. /\ publisher' = [publisher EXCEPT ![p] = AtRest]
      /\ published' = IF Exists(d, "scratch") THEN r ELSE d
      /\ Moved(published, published') /\ UNCHANGED <<macros, behind>>
  BY DEF RenameScratch
<1>3. Exists(d, "scratch") =>
        /\ r \in Disk(SnapshotName, SnapshotFile) /\ OneNameEach(r, SnapshotName)
        /\ r.at["scratch"] = 0 /\ r.at["snapshot"] = d.at["scratch"]
        /\ \A f \in SnapshotFile : f # d.at["snapshot"] => r.text[f] = d.text[f]
  <2> HIDE DEF r
  <2> QED BY <1>1, RenamedIs DEF r
<1> HIDE DEF r
<1>4. AtRest \in PublisherState /\ AtRest.pc = "idle" /\ AtRest.file = 0
  <2>1. NothingStored \in Table
    BY DEF NothingStored, Table
  <2> QED BY <2>1 DEF AtRest, PublisherState
<1>5. /\ publisher' \in [Publisher -> PublisherState] /\ publisher'[p] = AtRest
      /\ \A q \in Publisher \ {p} : publisher'[q] = publisher[q]
  BY <1>2, <1>4, PublisherTyped
<1>6. reader' \in [Reader -> ReaderState] /\ ReadersHold'
  BY <1>2, MovedKeeps
<1>7. MacroTypeOK'
  <2>1. published' \in Disk(SnapshotName, SnapshotFile)
    BY <1>1, <1>2, <1>3
  <2> QED BY <1>2, <1>5, <1>6, <2>1, MacroTypes DEF MacroTypeOK, PublisherState, ReaderState, SnapshotName
<1>8. FilesHeld'
  <2>1. OneNameEach(published', SnapshotName)
    BY <1>1, <1>2, <1>3
  <2> QED BY <1>1, <1>4, <1>5, <2>1 DEF FilesHeld
<1>9. OneAtATime'
  <2> SUFFICES ASSUME ~ behind PROVE OneAtATime'
    BY <1>2 DEF OneAtATime
  <2>1. /\ \A q, s \in Publisher : publisher[q].pc # "idle" /\ publisher[s].pc # "idle" => q = s
        /\ d.at["scratch"] # 0 /\ d.text[d.at["scratch"]] = Text(macros)
    BY <1>1 DEF OneAtATime
  <2>2. \A q \in Publisher : publisher'[q].pc = "idle"
    BY <1>1, <1>4, <1>5, <2>1
  <2>3. d.at["scratch"] \in SnapshotFile /\ d.at["scratch"] # d.at["snapshot"]
    BY <1>1, <2>1 DEF Disk, OneNameEach
  <2>4. /\ published' = r /\ r.at["snapshot"] # 0
        /\ r.text[r.at["snapshot"]] = Text(macros)
    BY <1>2, <1>3, <2>1, <2>3 DEF Exists
  <2>5. Wanted' = macros
    BY <1>1, <2>4, TextReadsBack DEF Wanted, Exists, Contents
  <2> QED BY <1>2, <2>2, <2>5 DEF OneAtATime
<1> QED BY <1>6, <1>7, <1>8, <1>9

LEMMA CommandStopsKeeps ==
  ASSUME MacroInv, NEW p \in Publisher, CommandStops(p)
  PROVE  MacroInv'
<1> USE DEF MacroInv
<1>1. /\ publisher' = [publisher EXCEPT ![p] = AtRest] /\ behind' = TRUE
      /\ UNCHANGED <<macros, published, reader>>
  BY DEF CommandStops
<1>2. AtRest \in PublisherState /\ AtRest.pc = "idle" /\ AtRest.file = 0
  <2>1. NothingStored \in Table
    BY DEF NothingStored, Table
  <2> QED BY <2>1 DEF AtRest, PublisherState
<1>3. /\ publisher' \in [Publisher -> PublisherState] /\ publisher'[p] = AtRest
      /\ \A q \in Publisher \ {p} : publisher'[q] = publisher[q]
  BY <1>1, <1>2, PublisherTyped
<1>4. MacroTypeOK'
  BY <1>1, <1>3, MacroTypes DEF MacroTypeOK, PublisherState
<1>5. FilesHeld'
  BY <1>1, <1>2, <1>3 DEF FilesHeld, OneNameEach
<1>6. OneAtATime'
  BY <1>1 DEF OneAtATime
<1>7. ReadersHold'
  BY <1>1 DEF ReadersHold, HoldsWanted, Wanted, Exists, Contents
<1> QED BY <1>4, <1>5, <1>6, <1>7

LEMMA ReadingKeeps ==
  ASSUME MacroInv, NEW s \in Reader, Reading(s)
  PROVE  MacroInv'
<1> USE DEF MacroInv
<1>1. UNCHANGED <<macros, published, publisher, behind>>
  BY DEF Reading, Install, InstallStamps, Refresh, Rebuild
<1>2. Wanted' = Wanted /\ Wanted \in Table
  BY <1>1, WantedIsTable DEF Wanted, Exists, Contents
<1>3. \E e \in ReaderState : reader' = [reader EXCEPT ![s] = e] /\ HoldsWanted(e, Wanted)
  <2>1. reader[s] \in ReaderState /\ HoldsWanted(reader[s], Wanted)
    BY MacroTypes DEF ReadersHold
  <2>2. CASE Install(s)
    <3> DEFINE e == [reader[s] EXCEPT !.pc = "installing", !.held = Wanted]
    <3>1. e \in ReaderState /\ e.held = Wanted
      BY <1>2, <2>1 DEF ReaderState
    <3>2. reader' = [reader EXCEPT ![s] = e]
      BY <2>2, MacroTypes DEF Install
    <3> QED BY <3>1, <3>2 DEF HoldsWanted
  <2>3. CASE InstallStamps(s)
    <3> DEFINE e == [reader[s] EXCEPT !.pc = "idle", !.fresh = TRUE]
    <3>1. /\ e \in ReaderState /\ e.held = reader[s].held /\ e.overtaken = reader[s].overtaken
          /\ reader[s].pc = "installing"
      BY <2>1, <2>3 DEF ReaderState, InstallStamps
    <3>2. reader' = [reader EXCEPT ![s] = e]
      BY <2>3, MacroTypes DEF InstallStamps
    <3> QED BY <2>1, <3>1, <3>2 DEF HoldsWanted
  <2>4. CASE Refresh(s)
    <3> DEFINE e == [reader[s] EXCEPT !.pc = "looking", !.fresh = TRUE, !.overtaken = FALSE]
    <3>1. e \in ReaderState /\ e.pc = "looking"
      BY <2>1 DEF ReaderState
    <3>2. reader' = [reader EXCEPT ![s] = e]
      BY <2>4, MacroTypes DEF Refresh
    <3> QED BY <3>1, <3>2 DEF HoldsWanted
  <2>5. CASE Rebuild(s)
    <3> DEFINE e == [reader[s] EXCEPT !.pc = "idle", !.held = Wanted]
    <3>1. e \in ReaderState /\ e.held = Wanted
      BY <1>2, <2>1 DEF ReaderState
    <3>2. reader' = [reader EXCEPT ![s] = e]
      BY <2>5, MacroTypes DEF Rebuild
    <3> QED BY <3>1, <3>2 DEF HoldsWanted
  <2> QED BY <2>2, <2>3, <2>4, <2>5 DEF Reading
<1>4. reader' \in [Reader -> ReaderState] /\ ReadersHold'
  BY <1>2, <1>3, MacroTypes DEF ReadersHold
<1>5. MacroTypeOK'
  BY <1>1, <1>4, MacroTypes DEF MacroTypeOK, ReaderState
<1>6. FilesHeld' /\ OneAtATime'
  BY <1>1, <1>2 DEF FilesHeld, OneAtATime, OneNameEach
<1> QED BY <1>4, <1>5, <1>6

THEOREM MacroInvHolds == MacroSpec => []MacroInv
<1>1. MacroInit => MacroInv
  <2> SUFFICES ASSUME MacroInit PROVE MacroInv
    OBVIOUS
  <2>1. NothingStored \in Table
    BY DEF NothingStored, Table
  <2>2. published \in Disk(SnapshotName, SnapshotFile) /\ OneNameEach(published, SnapshotName)
    BY EmptyDiskIsADisk DEF MacroInit, SnapshotName
  <2>3. /\ publisher \in [Publisher -> PublisherState] /\ reader \in [Reader -> ReaderState]
        /\ \A p \in Publisher : publisher[p].pc = "idle" /\ publisher[p].file = 0
        /\ \A s \in Reader : reader[s].pc = "down"
    BY <2>1 DEF MacroInit, AtRest, NotStarted, PublisherState, ReaderState
  <2>4. Wanted = macros
    <3>1. published.at["snapshot"] = 0
      BY DEF MacroInit, EmptyDisk
    <3> QED BY <3>1 DEF Wanted, Exists, MacroInit
  <2>5. MacroTypeOK
    BY <2>1, <2>2, <2>3, MacroTypes DEF MacroInit
  <2> QED BY <2>2, <2>3, <2>4, <2>5 DEF MacroInv, FilesHeld, OneAtATime, ReadersHold, HoldsWanted
<1>2. MacroInv /\ [MacroNext]_macroVars => MacroInv'
  <2> SUFFICES ASSUME MacroInv, [MacroNext]_macroVars PROVE MacroInv'
    OBVIOUS
  <2>1. CASE UNCHANGED macroVars
    BY <2>1 DEF macroVars, MacroInv, MacroTypeOK, FilesHeld, OneNameEach, OneAtATime, ReadersHold,
                HoldsWanted, Wanted, Exists, Contents
  <2>2. ASSUME NEW p \in Publisher, Publishing(p) PROVE MacroInv'
    BY <2>2, StoreMacroKeeps, ReadEntriesKeeps, CreateScratchKeeps, WriteScratchKeeps,
       RenameScratchKeeps, CommandStopsKeeps DEF Publishing
  <2>3. ASSUME NEW s \in Reader, Reading(s) PROVE MacroInv'
    BY <2>3, ReadingKeeps
  <2> QED BY <2>1, <2>2, <2>3 DEF MacroNext
<1> QED BY <1>1, <1>2, PTL DEF MacroSpec

(***************************************************************************)
(* With no command under way, a shell that would not read the snapshot     *)
(* again has what the database says (put_and_publish, refresh).            *)
(***************************************************************************)
THEOREM ShellsFollowHolds == MacroSpec => []ShellsFollow
<1>1. MacroInv => ShellsFollow
  BY DEF MacroInv, ShellsFollow, OneAtATime, ReadersHold, HoldsWanted
<1> QED BY <1>1, MacroInvHolds, PTL
=============================================================================
