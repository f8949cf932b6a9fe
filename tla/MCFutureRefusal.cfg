SPECIFICATION Spec
CONSTANTS
  NearIF = NearIF
  FarIF = FarIF
  Copper = Copper
  Soy = Soy
  CSI = CSI
  NoType = NoType
  Codes <- MCCodes
  MarketOf <- MCMarketOf
  TypeOf <- MCTypeOf
  Types = {CSI}
  Holdings <- MCHoldings
  Requests = {1, 2}
  Request <- RefusedRequest
  ForbidClosingToday = TRUE
  MaxTodayOpening = 1
  MaxRequests = 2
INVARIANTS FrozenIsOutstanding
CHECK_DEADLOCK FALSE
