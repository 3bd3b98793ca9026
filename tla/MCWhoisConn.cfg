SPECIFICATION ConnSpec
CONSTANTS
  Timeout = 3
  Limit = 3
  MaxSize = 4
INVARIANTS EndsInTime NothingLeaks AllThatWasSent
PROPERTIES ExchangeEnds
