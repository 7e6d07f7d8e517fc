SPECIFICATION PartSpec
CONSTANTS
  Tokens <- AnyString
  U32Max = 1000
  HrefIn <- AllHref
  SchemeIn <- AllScheme
  UserinfoIn <- AllUserinfo
  HostIn <- AllHost
  IpHost <- AllIp
  PortIn <- AllPort
  Port <- AllPortNumber
  PathIn <- AllPath
  QueryIn <- AllQuery
  FragmentIn <- AllFragment
  Parse <- MCParse
  ParseHostSetter <- MCParseHostSetter
  ParsePortSetter <- MCParsePortSetter
  ParsePath <- MCParsePath
  ParseOpaquePath <- MCParseOpaquePath
INVARIANTS Layout FlagsAgree PortAndCredentials Unambiguous RoundTrip FeedingBack
PROPERTIES ImplementsComponents
CHECK_DEADLOCK FALSE
