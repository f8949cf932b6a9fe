SPECIFICATION Spec
CONSTANTS
  NearIF = NearIF
  FarIF = FarIF
  Copper = Copper
  Soy = Soy
  CSI = CSI
  NoType = NoType
  Codes <- MCCodes
  MarketOf <- MCMarketOf
  TypeOf <- MCTypeOf
  Types = {CSI}
  Holdings <- MCHoldings
  Requests = {1, 2, 3, 4, 5, 6, 7, 8, 9}
  Request <- MCRequest
  ForbidClosingToday = TRUE
  MaxTodayOpening = 2
  MaxRequests = 2
INVARIANTS TypeOK FrozenIsOutstanding AutoCloseCovered OpeningLimited
PROPERTIES NoCloseAfterOpening
CHECK_DEADLOCK FALSE
