---------------------------- MODULE PQConsensus ----------------------------
(***************************************************************************)
(* What finality of one height promises: at most one block is ever chosen, *)
(* and a member finalizes a block, once, only if it is the chosen one.     *)
(***************************************************************************)
CONSTANTS
  Correct,   \* the members whose finality counts
  Values,    \* candidate blocks
  Nil        \* no block

VARIABLES
  chosen,    \* the blocks that have been chosen
  final      \* final[m]: the block m holds to be final, or Nil

vars == <<chosen, final>>

Init ==
  /\ chosen = {}
  /\ final = [m \in Correct |-> Nil]

Choose(v) ==
  /\ chosen = {}
  /\ chosen' = {v}
  /\ UNCHANGED final

Finalize(m, v) ==
  /\ v \in chosen
  /\ final[m] = Nil
  /\ final' = [final EXCEPT ![m] = v]
  /\ UNCHANGED chosen

Next ==
  \/ \E v \in Values : Choose(v)
  \/ \E m \in Correct, v \in Values : Finalize(m, v)

Spec == Init /\ [][Next]_vars
=============================================================================
