SPECIFICATION Spec
CONSTANTS
  Callers = {c1}
  dCom = dCom  dFree = dFree  dOpen = dOpen  aIp = aIp  nAsn = nAsn  tCom = tCom  tNew = tNew
  sBase = sBase  sAuth = sAuth  sOther = sOther
  wCom = wCom  wNew = wNew  wMoved = wMoved  wRir = wRir  wRegistrar = wRegistrar
  Domains <- AllDomains
  Addresses = {aIp}
  ASNs = {nAsn}
  TldOf <- MCTldOf
  Malformed = Malformed
  NoObject = NoObject
  Deployed <- MCDeployed
  Existing <- MCExisting
  Sites = {sBase, sAuth, sOther}
  RdapBase = sBase
  RdapBootstrap = TRUE
  NoSite = NoSite
  MaxRequests = 5
  Redirections <- MCRedirections
  Refusals <- MCRefusals
  Bodies = {"object", "expiring", "notJSON"}
  TLDs <- MCTLDs
  Servers <- MCServers
  NoServer = NoServer
  Overrides <- MCOverrides
  Table <- MCTable
  Referrals <- MCReferrals
  Options <- AllOptions
  Fields <- MCFields
  WhoisReplies <- ClearReplies
INVARIANTS TypeOK ErrorsAccount  Truthful AnsweredByAuthority
PROPERTIES ObeysRdapQuery FetchEnds
CHECK_DEADLOCK FALSE
