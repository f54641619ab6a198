SPECIFICATION PricingSpec
CONSTANTS
  ana = ana
  promo = promo
  platform = platform
  SystemOwner = platform
  Users <- MCUsers
  Promoters <- MCPromoters
  References <- NoReferences
  Opening <- Empty
  TxFixed = 20
  Nets <- MCNets
  Params <- MCParams
  Rates <- MCRates
  MaxRequotes = 2
INVARIANT EveryOrderBalances
CHECK_DEADLOCK FALSE
