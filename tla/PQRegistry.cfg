CONSTANTS
  w = w
  o1 = o1
  o2 = o2
  k1 = k1
  k2 = k2
  k3 = k3
  c0 = c0
  c1 = c1
  c2 = c2
  k4 = k4
  o3 = o3
  c3 = c3
  s3 = s3
  s1 = s1
  s2 = s2
  None = None
  Txs <- MCTxs
  Tx <- MCTx
  Wallet <- MCWallet
  Keys <- MCKeys
  Services <- MCServices
  CollateralKey <- MCCollateralKey
  WalletHeight <- MCWalletHeight
  BaseHeight = 2
  MaxHeight = 6
  MaxBlockTxs = 2
  Confirmations = 2
  Window = 2
  MaxHeartbeats = 1
  MinMembers = 1
  MaxMembers = 1
SPECIFICATION Spec
INVARIANTS IndexExact UndoExact CommitteeHistory PaidInTurn HeartbeatsCarried CollateralHeld
