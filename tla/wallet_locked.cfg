SPECIFICATION Spec
CONSTANTS
  p1 = p1
  p2 = p2
  e1 = e1
  NoProc = NoProc
  Proc = {p1, p2, e1}
  Path <- MCPath
  Keystore <- MCKeystore
  Dir <- MCDir
  Wallet <- MCWallet
  DirOf <- MCDirOf
  FileOf <- MCFileOf
  WalletOf <- MCWalletOf
  Cmd <- LockedCmd
  PathOf <- LockedPath
  Custom = {}
  Lossy = FALSE
  MaxRuns = 2
PROPERTIES
  SerializedNonces
CHECK_DEADLOCK FALSE
