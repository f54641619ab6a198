SPECIFICATION MCSpec
CONSTANTS
  ana = ana
  luis = luis
  w1 = w1
  w2 = w2
  e1 = e1
  o1 = o1
  o2 = o2
  request1 = request1
  request2 = request2
  approve1 = approve1
  pay1 = pay1
  reject1 = reject1
  cancel1 = cancel1
  pay2 = pay2
  cancel2 = cancel2
  close1 = close1
  close2 = close2
  SystemOwner = SystemOwner
  Users <- MCUsers
  Promoters <- MCPromoters
  References <- MCReferences
  Opening <- MCOpening
  Withdrawals <- MCWithdrawals
  OwnerOf <- MCOwnerOf
  AmountOf <- MCAmountOf
  FeePercent <- MCFeePercent
  Events <- MCEvents
  PromoterOf <- MCPromoterOf
  Orders <- MCOrders
  EventOf <- MCEventOf
  BuyerOf <- MCBuyerOf
  NetOf <- MCNetOf
  FirstStatus <- MCFirstStatus
  Calls <- MCCalls
  CallOf <- MCCallOf
  MaxFaults = 1
  Scenarios <- PayoutStories
INVARIANT PayoutsTypeOK
INVARIANT MarkedEventsAreTransferred
PROPERTY ImplementsWithdrawals
PROPERTY TransferredOnce
PROPERTY DecisionsArePosted
CHECK_DEADLOCK FALSE
