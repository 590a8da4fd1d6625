SPECIFICATION FairSpec
CONSTANTS
  Modulus = 65536
  addr = addr
  Addrs = {addr}
  NoAddr = NoAddr
  Indices <- MCIndices
  c1 = c1
  c2 = c2
  c3 = c3
  Calls = {c1, c2, c3}
  alice = alice
  Users = {alice}
  NoInfo = NoInfo
  Forms <- MCForms
  NetFees <- MCNetFees
  TransferFees <- MCTransferFees
  NoFee = NoFee
  NoCall = NoCall
  NoReq = NoReq
  Records <- MCRecords
  MaxAbandoned = 1
INVARIANTS QueueIsOutstanding DuplicateNeedsAbandon SettledIsQuiet IInv
PROPERTIES OrderKept ImplementsPayouts NoHeadOfLineBlocking
