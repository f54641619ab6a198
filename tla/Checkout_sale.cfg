SPECIFICATION MCSpec
CONSTANTS
  s1 = s1
  s2 = s2
  ana = ana
  luis = luis
  o1 = o1
  o2 = o2
  o3 = o3
  NoHolder = NoHolder
  Seats <- MCSeats
  Holders <- MCHolders
  Buyers <- MCHolders
  Orders <- MCOrders
  SeatsOf <- MCSeatsOf
  BuyerOf <- MCBuyerOf
  HolderOf <- MCBuyerOf
  Requests <- NoRequests
  RequestOf <- NoCalls
  Cap = 2
  MaxPending = 3
  TtlElapses = TRUE
  RequestsCrash = TRUE
INVARIANT CheckoutTypeOK
INVARIANT SeatsArePromisedOnce
INVARIANT OrdersAreWhole
INVARIANT SoldSeatsHaveAnOrder
PROPERTY ImplementsSale
CHECK_DEADLOCK FALSE
