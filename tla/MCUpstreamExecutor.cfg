SPECIFICATION Spec
CONSTANTS
  Requests = {r1, r2}
  Plans <- MCPlans
  Answers <- MCAnswers
  Ttl = 1
  MaxLookup = 1
  MaxRequests = 3
  MaxTime = 2
  MaxChanges = 1
  None = None
  sys1 = sys1
  sys2 = sys2
  udp1 = udp1
  udp2 = udp2
SYMMETRY Symmetry
INVARIANTS
  SentToAllowedPeer
  ResolversAreShared
  StaleAddressesEnd
CHECK_DEADLOCK FALSE
