----------------------------- MODULE MCPQMember -----------------------------
(***************************************************************************)
(* Instances of PQMember for TLC: member 0 of a committee of four, and the *)
(* messages that its peers may send.                                       *)
(***************************************************************************)
EXTENDS PQMember

CONSTANTS a, b

MCPeers == {1, 2, 3}
MCSelf == 0
MCProposer == [r \in Rounds |-> r % 4]

Prevote(m, r, x) == [round |-> r, step |-> "prevote", member |-> m, value |-> x]
Precommit(m, r, x) == [round |-> r, step |-> "precommit", member |-> m, value |-> x]

(* Two votes that make a quorum for a with the member's own.               *)
Round0 == {Prevote(1, 0, a), Prevote(2, 0, a)}

(* With one report of round 2 the member may enter round 1 early, with all *)
(* of them round 2; with its own vote there is a quorum for nil in round 1.*)
ReportVotes ==
  Round0 \cup {Prevote(m, 1, Nil) : m \in {1, 2}} \cup {Prevote(m, 2, a) : m \in MCPeers}
ReportProposals == {[round |-> 2, block |-> a, polc |-> [round |-> 1, value |-> Nil]]}

(* A proof for another block reaches the member with a proposal, then the  *)
(* votes that it is made of.                                               *)
RestartVotes ==
  Round0 \cup {Prevote(m, 1, b) : m \in MCPeers}
    \cup {Prevote(1, 2, b), Prevote(2, 2, Nil), Prevote(3, 2, Nil)}
RestartProposals == {[round |-> 2, block |-> b, polc |-> [round |-> 1, value |-> b]]}

(* Bounds of that run: no write fails, and the member dies, or its signer  *)
(* does not answer, after an unlock only.                                  *)
Signs ==
  \A step \in {"prevote", "precommit"} :
    rs[step] # None => \E v \in signed : v.round = rs.round /\ v.step = step

HasUnlocked == lock # None /\ lock.value = Nil

DiesUnlocked == ~mute /\ (Signs \/ HasUnlocked \/ restarts > 0)

(* Peer 1 proposes in round 0 and peer 2 votes twice; a quorum may commit. *)
ProgressProposer == [r \in Rounds |-> (r + 1) % 4]
ProgressVotes == Round0 \cup {Prevote(2, 0, b)} \cup {Precommit(m, 0, a) : m \in {1, 2}}
ProgressProposals == {[round |-> 0, block |-> a, polc |-> None]}
=============================================================================
