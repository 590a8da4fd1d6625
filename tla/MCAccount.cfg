SPECIFICATION Spec
CONSTANTS
  Modulus = 4096
  addr = addr
  Addrs = {addr}
  NoAddr = NoAddr
  Indices <- MCIndices
  Deposits <- MCDeposits
  Amounts <- MCAmounts
  Prices <- MCPrices
  NetFees <- MCNetFees
  TheAddr = addr
  TheIndex = 1
  MaxOperations = 4
INVARIANTS TypeOK  
CHECK_DEADLOCK FALSE
