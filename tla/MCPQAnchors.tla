---------------------------- MODULE MCPQAnchors ----------------------------
(***************************************************************************)
(* Instances of PQAnchors for TLC.  Block names give branch and height.    *)
(*                                                                         *)
(*   Root - a1 - a2 - a3        a2 carries the certificate of height 1,    *)
(*     |     \                  a3 that of height 2                        *)
(*     |      c2 - c3           c3 carries height 1 on another branch      *)
(*     |-- b1 - b2              b2 carries height 1                        *)
(*     |-- d1 - d2 - d3         no certificates                            *)
(*                                                                         *)
(*   Root - e1 - e2 - e3 - e4          after e2 the members are too few,   *)
(*                      \              e3 is the checkpoint; e2 carries    *)
(*                       f4 - f5       height 1, f5 height 4               *)
(*                                                                         *)
(*   Root - s1 - s2 - s3 - s4          after s2 the members are too few,   *)
(*                                     s3 is the checkpoint; s4 carries    *)
(*                                     height 1, below the checkpoint      *)
(*                                                                         *)
(* Pinned has a configured bootstrap and the branches a, b and c, which    *)
(* compete with certificates.  Automatic has no bootstrap, and PinnedFork  *)
(* has one, where the short certified branch a1 - a2 is up against the     *)
(* heavier d.  Rescued passes a dead end by a checkpoint, above which two  *)
(* branches compete, and Late by one that the last certificate before the  *)
(* dead end, published late, comes after.                                  *)
(***************************************************************************)
EXTENDS PQAnchors, TLC

CONSTANTS
  a1, a2, a3, b1, b2, c2, c3, d1, d2, d3, e1, e2, e3, e4, f4, f5, s1, s2, s3, s4

MCBlocks ==
  {a1, a2, a3, b1, b2, c2, c3, d1, d2, d3, e1, e2, e3, e4, f4, f5, s1, s2, s3, s4}

MCParent ==
  a1 :> Root @@ a2 :> a1 @@ a3 :> a2 @@ c2 :> a1 @@ c3 :> c2 @@
  b1 :> Root @@ b2 :> b1 @@ d1 :> Root @@ d2 :> d1 @@ d3 :> d2 @@
  e1 :> Root @@ e2 :> e1 @@ e3 :> e2 @@ e4 :> e3 @@ f4 :> e3 @@ f5 :> f4 @@
  s1 :> Root @@ s2 :> s1 @@ s3 :> s2 @@ s4 :> s3

MCCarries ==
  a2 :> 1 @@ a3 :> 2 @@ c3 :> 1 @@ b2 :> 1 @@ e2 :> 1 @@ f5 :> 4 @@ s4 :> 1
    @@ [b \in MCBlocks |-> 0]

MCEmpty == {e2, s2}

Pinned == [seeded |-> TRUE, recovery |-> None, blocks |-> {a1, a2, a3, b1, b2, c2, c3}]
Automatic == [seeded |-> FALSE, recovery |-> None, blocks |-> {a1, a2, d1, d2, d3}]
PinnedFork == [Automatic EXCEPT !.seeded = TRUE]
Rescued == [seeded |-> TRUE, recovery |-> e3, blocks |-> {e1, e2, e3, e4, f4, f5}]
Late == [seeded |-> TRUE, recovery |-> s3, blocks |-> {s1, s2, s3, s4}]

MCNetworks == {Pinned, Automatic, Rescued}
MCForkNetworks == {PinnedFork}
MCLateNetworks == {Late}
=============================================================================
