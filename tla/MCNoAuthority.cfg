SPECIFICATION OneSpec
CONSTANTS
  Tokens <- AnyString
  U32Max = 1000
  HrefIn <- PathHref
  SchemeIn <- PathScheme
  UserinfoIn <- PathUserinfo
  HostIn <- PathHost
  IpHost <- PathIp
  PortIn <- PathPort
  Port <- PathPortNumber
  PathIn <- PathPath
  QueryIn <- PathQuery
  FragmentIn <- PathFragment
  Parse <- MCParse
  ParseHostSetter <- MCParseHostSetter
  ParsePortSetter <- MCParsePortSetter
  ParsePath <- MCParsePath
  ParseOpaquePath <- MCParseOpaquePath
INVARIANTS AuthorityIsBehindSlashes
CHECK_DEADLOCK FALSE
