SPECIFICATION OneSpec
CONSTANTS
  Tokens <- AnyString
  U32Max = 12
  HrefIn <- OverflowHref
  SchemeIn <- OverflowScheme
  UserinfoIn <- OverflowUserinfo
  HostIn <- OverflowHost
  IpHost <- OverflowIp
  PortIn <- OverflowPort
  Port <- OverflowPortNumber
  PathIn <- OverflowPath
  QueryIn <- OverflowQuery
  FragmentIn <- OverflowFragment
  Parse <- MCParse
  ParseHostSetter <- MCParseHostSetter
  ParsePortSetter <- MCParsePortSetter
  ParsePath <- MCParsePath
  ParseOpaquePath <- MCParseOpaquePath
INVARIANTS NeverTooLong
CHECK_DEADLOCK FALSE
