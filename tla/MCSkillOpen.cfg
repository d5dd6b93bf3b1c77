CONSTANTS
  v1 = v1
  v2 = v2
  broken = broken
  k1 = k1
  k2 = k2
  dct = dct
  h = h
  c1 = c1
  c2 = c2
  Top = 4
  Versions = {v1, v2}
  Damaged = broken
  Payloads = {h, c1, c2}
  RegionOf <- MCRegionOf
  Covers <- MCCovers
  Keys = {k1, k2}
  Dict = dct
  Readers = {r1, r2}
  Openings <- MCOpenings
SPECIFICATION Spec
SYMMETRY Threads
INVARIANTS
  TypeOK
  RangesDecide
  AcceptedIsCommitted
  IntactNeverRefused
PROPERTY ImplementsContainer
CHECK_DEADLOCK FALSE
