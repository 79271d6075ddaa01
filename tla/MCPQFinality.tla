---------------------------- MODULE MCPQFinality ----------------------------
(***************************************************************************)
(* Instances of PQFinality for TLC.                                        *)
(***************************************************************************)
EXTENDS PQFinality, TLC

(* Members that differ only in name, and blocks, are interchangeable.      *)
Symmetry ==
  {p @@ q : p \in {g \in Permutations(Correct) :
                     \A m \in Unreliable : g[m] \in Unreliable},
            q \in Permutations(Values)}

(* Bound of the run with failures: nothing follows a finalization; the     *)
(* member it silences is like one that is slow.                            *)
NoneFinal == \A m \in Correct : Voting(m)
=============================================================================
