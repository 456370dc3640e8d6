\* One fiber on the pool and one that connects on its own; fair fibers, any peer.
CONSTANTS
  p1 = p1
  p2 = p2
  d1 = d1
  MaxConn = 3
  PoolUser = {p1}
  DirectUser = {d1}
  Parties = {{p1, d1}}
  MaxRequest = 1
  MaxSent = 3
SPECIFICATION FairSpec
CHECK_DEADLOCK FALSE
PROPERTIES
  PoolRequestEnds
