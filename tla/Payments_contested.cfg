SPECIFICATION PaymentsSpec
CONSTANTS
  s1 = s1
  s2 = s2
  ana = ana
  luis = luis
  promo = promo
  platform = platform
  o1 = o1
  o2 = o2
  p1 = p1
  p2 = p2
  succeeded1 = succeeded1
  succeeded2 = succeeded2
  failed1 = failed1
  refund1 = refund1
  chargeback1 = chargeback1
  pay1 = pay1
  pay2 = pay2
  first = first
  again = again
  third = third
  refunding = refunding
  NoHolder = NoHolder
  NoPayment = NoPayment
  NoHook = NoHook
  SystemOwner = platform
  Promoter = promo
  Promoters <- MCPromoters
  Seats <- MCSeats
  Holders <- MCBuyers
  Buyers <- MCBuyers
  Users <- MCBuyers
  Requests <- NoRequests
  RequestOf <- NoCalls
  Payments <- MCPayments1
  Hooks <- MCHooks
  HookOf <- MCHookOf
  Cap = 2
  MaxPending = 3
  TtlElapses = FALSE
  TxFixed = 2
  Orders <- OneOrder
  SeatsOf <- OneSeatsOf
  BuyerOf <- OneBuyerOf
  HolderOf <- OneBuyerOf
  References <- OneOrder
  Quote <- OneQuote
  Opening <- PartOfIt
  Jobs <- ContestedJobs
  JobOf <- ContestedJobOf
  OrderOf <- BothForOne
  RequestsCrash = FALSE
  MaxCrashes = 1
INVARIANT PaymentsTypeOK
INVARIANT MoneyFollowsTheClaim
INVARIANT ReversedOnce
INVARIANT TicketsArePaidFor
PROPERTY PostingsAreNotDropped
PROPERTY ImplementsCheckout
CHECK_DEADLOCK FALSE
