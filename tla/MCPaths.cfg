SPECIFICATION MSpec
CONSTANTS
  Tokens <- AnyString
  U32Max = 1000
  Class = {"special", "other", "file"}
  Alphabet <- AnyToken
  MaxLen = 6
  MaxPath = 4
  MaxUrl = 9
INVARIANTS StaysBelowPathStart ReadsBack FilesComeBack FastAgrees
PROPERTIES ImplementsWhatwg DriveStays
CHECK_DEADLOCK FALSE
