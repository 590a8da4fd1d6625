SPECIFICATION Spec
CONSTANTS
  d1 = d1
  d2 = d2
  d3 = d3
  alice = alice
  bob = bob
  Downloads = {d1, d2, d3}
  Requests <- MCRequests
  Users = {alice, bob}
  Items = {1, 2}
  Absent = Absent
  NoRequest = NoRequest
  NoItem = NoItem
  MaxTime = 1
  Stock = {1, 2, 3, 4}
  Tallies = {0, 1, 2}
  Limits = {1, 2, 3}
  MaxCrashes = 1
INVARIANTS TypeOK OwnedIsListed CountedOnce SearchFindsBest
SYMMETRY DownloadSymmetry
CHECK_DEADLOCK FALSE
