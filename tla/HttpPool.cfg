\* Two fibers on the pool, or one beside a fiber that connects on its own; fair fibers, any peer.
CONSTANTS
  p1 = p1
  p2 = p2
  d1 = d1
  MaxConn = 4
  PoolUser = {p1, p2}
  DirectUser = {d1}
  Parties = {{p1, p2}, {p1, d1}}
  MaxRequest = 1
  MaxSent = 3
SPECIFICATION FairSpec
CHECK_DEADLOCK FALSE
INVARIANTS
  PoolInv
  OwnResponse
PROPERTIES
  DirectRequestEnds
