SPECIFICATION Spec
CONSTANTS
  Ids = {1, 2, 3}
  Hosts = {ns1, ns2, ns3}
  NoHost = NoHost
  MaxEvents = 4
  MaxServers = 4
  MaxCard = 3
  Objects <- Instances
INVARIANTS TypeOK DatesTell ServersTell CardTells ContactsTell RegistrarTells EntitiesTell DepthFirst
CHECK_DEADLOCK FALSE
