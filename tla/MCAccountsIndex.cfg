SPECIFICATION FairSpec
CONSTANTS
  Modulus = 4096
  alice = alice
  bob = bob
  addr = addr
  e1 = e1
  e2 = e2
  Addrs = {addr}
  NoAddr = NoAddr
  NoInfo = NoInfo
  NoAnswer = NoAnswer
  NoJob = NoJob
  Users = {alice, bob}
  KeyOrder <- TwoUsers
  Editors = {e1}
  Jobs <- Attach
  Indices <- ThreeIndices
  Deposits <- MCDeposits
  MaxMinted = 3
  MaxDeposits = 0
INVARIANT AlignedKeepsIndex
PROPERTY BalancesKeepRefreshing
