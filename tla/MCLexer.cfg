CONSTANTS
  Alphabet <- MCAlphabet
  Capacity = 2
  MaxLen = 5
SPECIFICATION LexerFairSpec
INVARIANTS
  InsideBuffer
  AllHandedOut
PROPERTY
  Stream
