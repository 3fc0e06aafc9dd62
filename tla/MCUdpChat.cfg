SPECIFICATION Spec
CONSTANTS
  ip1 = ip1
  ip2 = ip2
  Addr <- TwoHosts
  RPort = {0, 7}
  MaxTimes = 2
INVARIANTS OneEntryEach MembersAreInformed
PROPERTIES DropsAreDeserved DropsAreAnnounced
