---------------------------- MODULE MCPQRegistry ----------------------------
(***************************************************************************)
(* An instance of PQRegistry for TLC.                                      *)
(*                                                                         *)
(*   1  registers wallet coin w with keys o1 and k1 and service s1         *)
(*   2  registers its own output with keys o2 and k2 and service s2        *)
(*   3  gives registration 1, once revoked, the operator k3                *)
(*   4  brings 1 back into service, by k3                                  *)
(*   5  revokes registration 1, by k1                                      *)
(*   6  spends w, which ends registration 1, and registers its own output  *)
(*      with the keys and the service that 1 had                           *)
(*   7  spends the collateral of 6                                         *)
(*   8  registers its own output with keys o3 and k4 and service s3        *)
(***************************************************************************)
EXTENDS PQRegistry, TLC

CONSTANTS w, o1, o2, o3, k1, k2, k3, k4, c0, c1, c2, c3, s1, s2, s3

MCWallet == {w}
MCKeys == {o1, o2, o3, k1, k2, k3, k4, c0, c1, c2, c3}
MCServices == {s1, s2, s3}

MCTx == <<
  [mode |-> "REGISTER", spends |-> {}, collateral |-> w,
   owner |-> o1, operator |-> k1, service |-> s1],
  [mode |-> "REGISTER", spends |-> {}, collateral |-> 2,
   owner |-> o2, operator |-> k2, service |-> s2],
  [mode |-> "UPDATE", spends |-> {}, registration |-> 1, sequence |-> 2,
   operator |-> k3, signer |-> o1],
  [mode |-> "SERVICE", spends |-> {}, registration |-> 1, sequence |-> 3,
   service |-> s1, signer |-> k3],
  [mode |-> "REVOKE", spends |-> {}, registration |-> 1, sequence |-> 1, signer |-> k1],
  [mode |-> "REGISTER", spends |-> {w}, collateral |-> 6,
   owner |-> o1, operator |-> k1, service |-> s1],
  [mode |-> "TRANSFER", spends |-> {6}],
  [mode |-> "REGISTER", spends |-> {}, collateral |-> 8,
   owner |-> o3, operator |-> k4, service |-> s3]>>

MCTxs == DOMAIN MCTx

MCCollateralKey == w :> c0 @@ 2 :> c2 @@ 6 :> c1 @@ 8 :> c3 @@ [t \in {1, 3, 4, 5, 7} |-> c0]

MCWalletHeight == w :> 1
=============================================================================
