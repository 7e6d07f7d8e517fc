SPECIFICATION ESpec
CONSTANTS
  Tokens <- AnyString
  U32Max = 1000
  HrefIn <- SegmentHref
  SchemeIn = {}
  UserinfoIn <- NoText
  HostIn <- SegmentHost
  IpHost = {}
  PortIn <- NoText
  Port <- NoPortOnly
  PathIn <- SegmentPath
  QueryIn <- NoText
  FragmentIn = {}
  Segment <- SegmentTexts
  Parse <- MCParse
  ParseHostSetter <- MCParseHostSetter
  ParsePortSetter <- MCParsePortSetter
  ParsePath <- MCParsePath
  ParseOpaquePath <- MCParseOpaquePath
  MaxPath = 3
  MaxPairs = 2
  MaxBase = 12
INVARIANTS DropIsLaidOut ResultIsParsed JoinAgreesWithSetters ResolvesAsWritten MakeRelativeUndone
PROPERTIES ImplementsSegmentList ImplementsValueLists EditsPathOnly EditsInPlace
CHECK_DEADLOCK FALSE
