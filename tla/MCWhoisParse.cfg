SPECIFICATION ParseSpec
CONSTANTS
  s1 = s1  s2 = s2  tOk = tOk  tHold = tHold
  NoServer = NoServer
  Statuses = {tOk, tHold}
  Values <- MCValues
  Keys <- MCKeys
  Sayings <- MCSayings
  Lines <- MCLines
  Texts <- MCTexts
  Calls <- MCCalls
  Window = 2
  MaxExtra = 3
INVARIANTS InOrder FieldsKept ValuesBelong ParseInv FieldsTold ServersTold BlockTold VerdictTold
PROPERTIES RulesOnlyFill
CHECK_DEADLOCK FALSE
