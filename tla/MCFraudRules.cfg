SPECIFICATION Spec
CONSTANTS
  Users <- MCUsers
  Nets <- MCNets
  Hosts <- MCHosts
  Unparsable = Unparsable
  ZeroNet = ZeroNet
  Countries <- MCCountries
  NoCountry = NoCountry
  Agents <- MCAgents
  Inputs <- MCInputs
  RateLimit = 2
  RateWindow = 2
  GeoWindow = 3
  MaxEvents = 5
  MaxTime = 5
  u1 = u1
  u2 = u2
  n1 = n1
  h1 = h1
  h2 = h2
  A = A
  B = B
INVARIANTS
  TypeOK
  RateIsSlidingWindow
  NoFastTravel
  VerdictJustified
CHECK_DEADLOCK FALSE
