SPECIFICATION Spec
CONSTANTS
  Users <- MCUsers
  Nets <- MCNets
  Hosts <- MCHosts
  Unparsable = Unparsable
  ZeroNet = ZeroNet
  Countries <- MCCountries
  NoCountry = NoCountry
  Agents <- MCAgents
  Inputs <- MCNeighbours
  RateLimit = 2
  RateWindow = 2
  GeoWindow = 3
  MaxEvents = 4
  MaxTime = 4
  u1 = u1
  u2 = u2
  n1 = n1
  h1 = h1
  h2 = h2
  A = A
  B = B
INVARIANT RateCountsOneAddress
CHECK_DEADLOCK FALSE
