SPECIFICATION Spec
CONSTANTS
  c1 = c1
  c2 = c2
  c3 = c3
  alice = alice
  bob = bob
  Calls = {c1, c2, c3}
  Users = {alice, bob}
  Creator <- MCCreator
  Funds <- MCFunds
  Price = 1
  None = None
  MaxCrashes = 2
INVARIANTS TypeOK UploadIdLeadsHome 
PROPERTY ItemsKept
SYMMETRY CallSymmetry
CHECK_DEADLOCK FALSE
