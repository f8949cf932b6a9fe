SPECIFICATION Spec
CONSTANTS
  Mine = Mine
  Other = Other
  ETF = ETF
  Share = Share
  Messages <- LateMessages
  Funds = {Mine, Other}
  Codes = {ETF, Share}
  Exempt <- SharesExempt
  Auction <- Never
  OrderTimeout = 0
  OwnFund = Mine
  Overtaking <- BigEarly
  LateReplies = TRUE
  WithdrawsHonoured = FALSE
  Duplicates = TRUE
  MaxLag = 1
  MaxTime = 2
INVARIANTS NoGhost KnownIsGuarded
CHECK_DEADLOCK FALSE
