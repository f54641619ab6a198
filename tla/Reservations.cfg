SPECIFICATION MCSpec
CONSTANTS
  s1 = s1
  s2 = s2
  s3 = s3
  ana = ana
  visitor = visitor
  luis = luis
  v1 = v1
  v2 = v2
  v3 = v3
  v4 = v4
  v5 = v5
  v6 = v6
  v7 = v7
  o1 = o1
  o2 = o2
  seats1 = seats1
  seats2 = seats2
  quantity1 = quantity1
  seats3 = seats3
  seats4 = seats4
  seats5 = seats5
  seats6 = seats6
  quantity6 = quantity6
  seats7 = seats7
  take1 = take1
  give1 = give1
  NoHolder = NoHolder
  Seats <- MCSeats
  Holders <- MCHolders
  Requests <- MCRequests
  RequestOf <- MCRequestOf
  Cap = 2
  MaxReserved = 2
  TtlElapses = TRUE
  RequestsCrash = TRUE
  Orders <- MCOrders
  SeatsOf <- MCSeatsOf
  Buyers <- MCBuyers
  BuyerOf <- MCBuyerOf
  HolderOf <- MCHolderOf
  MaxPending = 3
  Reservations <- MCReservationIds
  CallsOf <- MCCallsOf
  Identities <- MCIdentities
  IdentityOf <- MCIdentityOf
  Scenarios <- ReservationStories
INVARIANT ReservationsTypeOK
INVARIANT RefusalsRollBack
INVARIANT TokensRespectTheCap
PROPERTY OnlyTheirHolderReleases
PROPERTY HoldsAreNotStolen
PROPERTY PendingOrdersEnd
CHECK_DEADLOCK FALSE
