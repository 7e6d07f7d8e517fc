SPECIFICATION USpec
CONSTANTS
  Part = {"kana"}
  Point <- MCPoint
  Section <- MCSection
  Status <- MCStatus
  OverlayName <- MCName
  MaxRows = 2
  MaxNamed = 1
  MaxOps = 2
  U32Max = 2000000000
  MaxCodePoint = 1114111
  Surrogates <- RealSurrogates
  MaxLabel = 2048
  MaxAce = 4096
  AddressMax = 268435455
  ByteBits = 7
  Table <- MCTable
  Alphabetic <- MCAlphabetic
  Decomposition <- MCDecomposition
  Ccc <- MCCcc
  NfkcOf <- MCNfkc
  LowerOf <- MCLower
  MaxPieces = 3
  MaxPoints = 4
  MaxText = 5
INVARIANTS
  MappingDoesNotMatter
CHECK_DEADLOCK FALSE
