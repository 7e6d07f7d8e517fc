SPECIFICATION BSpec
CONSTANTS
  Tokens <- AnyString
  U32Max = 268435455
  Source <- BufferSource
  Char <- BufferChar
  Str <- BufferStr
  MaxLen = 5
  ByteBits = 7
  Bits = 4
  Lanes = 2
  Threshold = 5
  Tab = 1
  At = 2
  Letter = 3
  Colon = 4
  Slash = 5
  Question = 6
  Hash = 7
  Open = 8
  Close = 9
  Backslash = 10
  MaxHaystack = 5
  MaxHost = 6
  MaxWords = 6
INVARIANTS CursorBetweenChars FindsDelimiters EndsHostWhereTheStandardDoes NumbersAreBytes NoAddressIsADomain ParsesWhatIsDenoted HostIsAFixedPoint
PROPERTIES CopiesOnlyOnDifference ImplementsTextBuffer
CHECK_DEADLOCK FALSE
