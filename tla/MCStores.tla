------------------------------ MODULE MCStores ------------------------------
(***************************************************************************)
(* What several machines, and several windows of one, make of what they    *)
(* store: the history under a sync and an import, one macro or secret, the *)
(* universal variables, the macros as a machine's shells come by them, and *)
(* the directories that have an environment of their own.                  *)
(* They share no state, so that a behaviour is about one of them, chosen   *)
(* at its start, and the others stay as they began.                        *)
(***************************************************************************)
EXTENDS MCHistorySync, NamedStores, Universal, MacroFiles, DirEnv

CONSTANTS v, al, fn, ab, one, two, outer, inner

\* The directory `inner' is in `outer'.
MCAbove == [d \in Place |-> IF d = inner THEN <<inner, outer>> ELSE <<d>>]

\* One file sets a variable, an alias and an abbreviation, another adds a
\* function and takes the variable away.
MCScript ==
  [adds |-> <<[name |-> v, cell |-> [word |-> two, exported |-> TRUE]],
              [name |-> al, cell |-> [word |-> two, exported |-> FALSE]],
              [name |-> ab, cell |-> [word |-> two, exported |-> FALSE]]>>,
   drops |-> <<[name |-> fn, cell |-> [word |-> one, exported |-> FALSE]],
               [name |-> v, cell |-> Unset]>>]

MCStartsAs ==
  [n \in EnvName |-> IF n \in {v, al} THEN [word |-> one, exported |-> FALSE] ELSE Unset]

VARIABLE part

stores == <<vars, namedVars, universalVars, macroVars, dirEnvVars, part>>

StoresInit ==
  /\ Init /\ NamedInit /\ UniversalInit /\ MacroInit
  /\ part \in {"history", "named", "universal", "macros", "directories"}
  /\ part # "history" => doing = {}
  /\ IF part = "directories" THEN DirEnvInit
     ELSE /\ DirEnvInit /\ during = CHOOSE some \in Among : TRUE
          /\ \A d \in Place : envFile[d].text = NoFile

OfHistory(step) ==
  /\ part = "history" /\ step
  /\ UNCHANGED <<namedVars, universalVars, macroVars, dirEnvVars, part>>
OfNamed(step) ==
  /\ part = "named" /\ step
  /\ UNCHANGED <<vars, universalVars, macroVars, dirEnvVars, part>>
OfUniversal(step) ==
  /\ part = "universal" /\ step
  /\ UNCHANGED <<vars, namedVars, macroVars, dirEnvVars, part>>
OfMacros(step) ==
  /\ part = "macros" /\ step
  /\ UNCHANGED <<vars, namedVars, universalVars, dirEnvVars, part>>
OfDirectories(step) ==
  /\ part = "directories" /\ step
  /\ UNCHANGED <<vars, namedVars, universalVars, macroVars, part>>

StoresNext ==
  \/ OfHistory(Next) \/ OfNamed(NamedNext) \/ OfUniversal(UniversalNext) \/ OfMacros(MacroNext)
  \/ OfDirectories(DirEnvNext)

StoresSpec == StoresInit /\ [][StoresNext]_stores

StoresSymmetry ==
  Symmetry \cup Permutations(Holder) \cup Permutations(Editor)
=============================================================================
