SPECIFICATION CacheSpec
CONSTANTS
  Callers = {c1, c2}
  tPinned = tPinned  tCom = tCom  tNew = tNew  aIp = aIp
  wPinned = wPinned  wCom = wCom  wNew = wNew  wMoved = wMoved  wRir = wRir
  TLDs <- MCTLDs
  Addresses <- MCAddresses
  Servers <- MCServers
  NoServer = NoServer
  Overrides <- MCOverrides
  Table <- MCTable
  Referrals <- MCReferrals
INVARIANTS OwnServer DiscoveredOnce CacheInv
PROPERTIES SettledForever LookupEnds
