---------------------------- MODULE MCBackground ----------------------------
(***************************************************************************)
(* Background on a small instance: what Lua does where, how often a peer   *)
(* asks and how many keys are typed, a few choices of the three together.  *)
(***************************************************************************)
EXTENDS Background

\* What Lua may do where: nothing but what is listed.
Where(some) == [place \in LuaPlace |-> IF place \in DOMAIN some THEN some[place] ELSE {}]

\* Results settled and called back; waited for at the prompt; alarms around a command and a peer;
\* a command that waits while a peer asks; and a peer that asks again and again.
MCScenarios ==
  {[may |-> Where([command |-> {"spawn", "settle"}, key |-> {"spawn"}, callback |-> {"cancel"}]),
    asks |-> 0, keys |-> 3],
   [may |-> Where([key |-> {"spawn", "try", "wait"}, callback |-> {"spawn"}, hook |-> {"try"}]),
    asks |-> 0, keys |-> 3],
   [may |-> Where([key |-> {"set"}, command |-> {"stop"}, alarm |-> {"stop", "set", "raise"}]),
    asks |-> 1, keys |-> 3],
   [may |-> Where([command |-> {"spawn", "wait"}, hook |-> {"wait"}]), asks |-> 1, keys |-> 2],
   [may |-> Where(<< >>), asks |-> 3, keys |-> 2]}

\* A callback waits for another job.
MCWaitingCallback ==
  {[may |-> Where([key |-> {"spawn"}, callback |-> {"wait"}]), asks |-> 0, keys |-> 2]}
=============================================================================
