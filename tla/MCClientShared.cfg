SPECIFICATION Spec
CONSTANTS
  Callers = {c1, c2}
  dCom = dCom  dFree = dFree  dOpen = dOpen  aIp = aIp  nAsn = nAsn  tCom = tCom  tNew = tNew
  sBase = sBase  sAuth = sAuth  sOther = sOther
  wCom = wCom  wNew = wNew  wMoved = wMoved  wRir = wRir  wRegistrar = wRegistrar
  Domains <- MCDomains
  Addresses = {aIp}
  ASNs = {}
  TldOf <- MCTldOf
  Malformed = Malformed
  NoObject = NoObject
  Deployed <- MCDeployed
  Existing <- MCExisting
  Sites = {sBase, sAuth}
  RdapBase = sBase
  RdapBootstrap = TRUE
  NoSite = NoSite
  MaxRequests = 2
  Redirections <- MCRedirections
  Refusals = {}
  Bodies = {"object"}
  TLDs <- MCTLDs
  Servers <- MCServers
  NoServer = NoServer
  Overrides <- MCOverrides
  Table <- MCTable
  Referrals <- MCReferrals
  Options <- EveryProtocol
  Fields <- MCFields
  WhoisReplies <- ClearReplies
INVARIANTS AskedOwnServer
PROPERTIES ObeysServerCache AnswersTruly AnswersEventually
