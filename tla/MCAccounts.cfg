SPECIFICATION Spec
CONSTANTS
  Modulus = 4096
  alice = alice
  bob = bob
  addr = addr
  e1 = e1
  e2 = e2
  Addrs = {addr}
  NoAddr = NoAddr
  NoInfo = NoInfo
  NoAnswer = NoAnswer
  NoJob = NoJob
  Users = {alice}
  KeyOrder <- OneUser
  Editors = {e1, e2}
  Jobs <- Money
  Indices <- OneIndex
  Deposits <- MCDeposits
  MaxMinted = 1
  MaxDeposits = 1
SYMMETRY EditorSymmetry
INVARIANTS TypeOK KeptUnlessOverlap Credible CoveredUnlessOverlap
