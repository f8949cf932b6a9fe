SPECIFICATION Spec
CONSTANTS
  Mine = Mine
  Other = Other
  ETF = ETF
  Share = Share
  Messages <- PairMessages
  Funds = {Mine, Other}
  Codes = {ETF, Share}
  Exempt <- SharesExempt
  Auction <- Never
  OrderTimeout = 0
  OwnFund = Mine
  Overtaking <- WithdrawnEarly
  LateReplies = FALSE
  WithdrawsHonoured = TRUE
  Duplicates = FALSE
  MaxLag = 1
  MaxTime = 2
INVARIANTS NoGhost
CHECK_DEADLOCK FALSE
