SPECIFICATION FairSpec
CONSTANTS
  p1 = p1
  p2 = p2
  e1 = e1
  NoProc = NoProc
  Proc = {p1, p2, e1}
  Path <- MCPath
  Keystore <- MCKeystore
  Dir <- MCDir
  Wallet <- MCWallet
  DirOf <- MCDirOf
  FileOf <- MCFileOf
  WalletOf <- MCWalletOf
  Cmd <- MixedCmd
  PathOf <- MixedPath
  Custom = {p2, e1}
  Lossy = TRUE
  MaxRuns = 1
INVARIANTS
  NonceExclusive
  VoucherOnChain
PROPERTIES
  EveryRunEnds
CHECK_DEADLOCK FALSE
