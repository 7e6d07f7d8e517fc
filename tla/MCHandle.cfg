SPECIFICATION HSpec
CONSTANTS
  Tokens <- AnyString
  U32Max = 1000
  Thread = {t1, t2}
  Block = {b1, b2, b3}
  HrefIn <- HandleHref
  SchemeIn <- HandleScheme
  UserinfoIn <- HandleUserinfo
  HostIn <- HandleHost
  IpHost <- NoIp
  PortIn <- HandlePort
  Port <- NoPortNumber
  PathIn <- HandlePath
  QueryIn <- HandleQuery
  FragmentIn <- HandleFragment
  Parse <- MCParse
  ParseHostSetter <- MCParseHostSetter
  ParsePortSetter <- MCParsePortSetter
  ParsePath <- MCParsePath
  ParseOpaquePath <- MCParseOpaquePath
INVARIANTS CachedOriginIsCurrent PointersStayReadable
PROPERTIES EveryCallReturns
CHECK_DEADLOCK FALSE
