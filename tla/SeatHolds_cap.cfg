SPECIFICATION HoldsWindowSpec
CONSTANTS
  s1 = s1
  s2 = s2
  s3 = s3
  ana = ana
  luis = luis
  r1 = r1
  r2 = r2
  r3 = r3
  r4 = r4
  r5 = r5
  NoHolder = NoHolder
  Seats <- MCSeats
  Holders <- MCHolders
  Cap = 2
  Requests <- HoldRequests
  RequestOf <- HoldCalls
  TtlElapses = FALSE
  RequestsCrash = FALSE
INVARIANT CountedHoldsAreCapped
INVARIANT CountedSetsExpire
