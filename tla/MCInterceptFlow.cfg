SPECIFICATION InterceptSpec
CONSTANTS
  Families = {"v6"}
  Net <- MCNet
  Top <- MCTop
  MaxAddr <- MCMaxAddr
  Domains = {"a", "b"}
  Names = {"a", "b"}
  Normal <- MCNormal
  None = None
  RecordTtl = 2
  Tasks = {t1}
  Requests <- MCRequests
  MaxSkew = 1
  MaxTime = 4
  Clients = {c1}
  FamilyOf <- MCFamilyOf
  Resolvers = {1}
  ProxyPort = 8080
  TlsPort = 8443
  EstablishedTtl = 3
  ClosingTtl = 2
  MaxQueue = 1
INVARIANT
  FlowsStayRedirected
