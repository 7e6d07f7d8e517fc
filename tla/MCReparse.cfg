SPECIFICATION OneSpec
CONSTANTS
  Tokens <- AnyString
  U32Max = 1000
  HrefIn <- AuthorityHref
  SchemeIn <- AuthorityScheme
  UserinfoIn <- AuthorityUserinfo
  HostIn <- AuthorityHost
  IpHost <- AuthorityIp
  PortIn <- AuthorityPort
  Port <- AuthorityPortNumber
  PathIn <- AuthorityPath
  QueryIn <- AuthorityQuery
  FragmentIn <- AuthorityFragment
  Parse <- MCParse
  ParseHostSetter <- MCParseHostSetter
  ParsePortSetter <- MCParsePortSetter
  ParsePath <- MCParsePath
  ParseOpaquePath <- MCParseOpaquePath
INVARIANTS Reparses
CHECK_DEADLOCK FALSE
