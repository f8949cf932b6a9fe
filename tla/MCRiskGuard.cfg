SPECIFICATION Spec
CONSTANTS
  Mine = Mine
  Other = Other
  ETF = ETF
  Share = Share
  Messages <- BatchMessages
  Funds = {Mine, Other}
  Codes = {ETF, Share}
  Exempt <- SharesExempt
  Auction <- FirstTick
  OrderTimeout = 0
  OwnFund = Mine
  Overtaking <- SmallEarly
  LateReplies = FALSE
  WithdrawsHonoured = TRUE
  Duplicates = FALSE
  MaxLag = 1
  MaxTime = 2
INVARIANTS TypeOK NoSelfKnock NoGhost KnownIsGuarded Handshake CountedOnce
CHECK_DEADLOCK FALSE
