SPECIFICATION FetchSpec
CONSTANTS
  Callers = {c1}
  sBase = sBase  sAuth1 = sAuth1  sAuth2 = sAuth2
  oCom = oCom  oFree = oFree  oNordap = oNordap  oIp = oIp  oAsn = oAsn
  Objects <- MCObjects
  Kind <- MCKind
  Deployed <- MCDeployed
  Existing <- MCExisting
  Sites <- MCSites
  RdapBase = sBase
  RdapBootstrap = TRUE
  NoSite = NoSite
  MaxRequests = 5
  Redirections <- MCRedirections
  Refusals <- MCRefusals
  Bodies <- MCBodies
INVARIANT NeverPanics
CHECK_DEADLOCK FALSE
