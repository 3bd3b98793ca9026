SPECIFICATION NormalizeSpec
CONSTANTS
  MaxCode = 1114111
  MaxLength = 20
  Word = 33554432
  Alphabet <- MCAlphabet
  Lower <- MCLower
  Calls <- MCCalls
  MaxScheme = 1
INVARIANTS SameName RefusedRightly EncodeInv
CHECK_DEADLOCK FALSE
