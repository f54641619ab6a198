----------------------------- MODULE MCPayments -----------------------------
(* Small instances of Payments.                                            *)
EXTENDS Payments, TLC

CONSTANTS
  s1, s2, ana, luis, promo, platform, o1, o2, p1, p2,
  succeeded1, succeeded2, failed1, refund1, chargeback1,
  pay1, pay2, first, again, third, refunding

MCSeats == {s1, s2}
MCBuyers == {ana, luis}
MCPromoters == {promo}
NoRequests == {}
NoCalls ==
  [r \in {} |-> [op |-> "release", holder |-> ana, seats |-> {}, quantity |-> 0]]

\* One order of ana.
OneOrder == {o1}
OneSeatsOf == o1 :> {s1, s2}
OneBuyerOf == o1 :> ana

\* Two orders after the same seat, of two buyers.
TwoOrders == {o1, o2}
RivalSeatsOf == o1 :> {s1} @@ o2 :> {s1}
RivalBuyerOf == o1 :> ana @@ o2 :> luis

\* Total 18, of which the gateway's fixed fee is 2 and its percentage 2.
Price ==
  [net |-> 10, fixedFees |-> 1, platformFee |-> 2, iva |-> 1, gatewayFee |-> 4,
   paidItems |-> 1]
OneQuote == o1 :> Price
TwoQuotes == o1 :> Price @@ o2 :> Price

Broke == ana :> 0 @@ luis :> 0
PartOfIt == ana :> 9 @@ luis :> 0

MCPayments1 == {p1, p2}
BothForOne == p1 :> o1 @@ p2 :> o1
OneForEach == p1 :> o1 @@ p2 :> o2

MCHookOf ==
  succeeded1 :> [type |-> "succeeded", payment |-> p1] @@
  succeeded2 :> [type |-> "succeeded", payment |-> p2] @@
  failed1 :> [type |-> "failed", payment |-> p1] @@
  refund1 :> [type |-> "refund", payment |-> p1] @@
  chargeback1 :> [type |-> "chargeback", payment |-> p1]
MCHooks == DOMAIN MCHookOf

Pay(o, p, useWallet) ==
  [task |-> "pay", order |-> o, payment |-> p, hook |-> NoHook,
   useWallet |-> useWallet]
Deliver(o, h) ==
  [task |-> "hook", order |-> o, payment |-> MCHookOf[h].payment, hook |-> h,
   useWallet |-> FALSE]
RefundEvent(o) ==
  [task |-> "eventRefund", order |-> o, payment |-> NoPayment, hook |-> NoHook,
   useWallet |-> FALSE]

\* Each run takes some of these jobs.
\* A payment, part wallet and part card, that the gateway calls refused and
\* succeeded, then refunds, and the promoter refunds too.
ContestedJobOf ==
  pay1 :> Pay(o1, p1, TRUE) @@
  first :> Deliver(o1, succeeded1) @@ again :> Deliver(o1, failed1) @@
  third :> Deliver(o1, refund1) @@ refunding :> RefundEvent(o1)
ContestedJobs == DOMAIN ContestedJobOf

\* A payment that takes what the wallet has and asks the card for the rest; its
\* success is delivered twice, and the promoter refunds it.
MixedJobOf ==
  pay1 :> Pay(o1, p1, TRUE) @@ first :> Deliver(o1, succeeded1) @@
  again :> Deliver(o1, succeeded1) @@ refunding :> RefundEvent(o1)
MixedJobs == DOMAIN MixedJobOf
MixedHooks == {succeeded1}
MixedHookOf == succeeded1 :> MCHookOf[succeeded1]

\* Two orders after one seat: one buyer's card is called refused and accepted,
\* the other's is accepted.
RivalJobOf ==
  pay1 :> Pay(o1, p1, FALSE) @@ first :> Deliver(o1, failed1) @@
  third :> Deliver(o1, succeeded1) @@
  pay2 :> Pay(o2, p2, FALSE) @@ again :> Deliver(o2, succeeded2)
RivalJobs == DOMAIN RivalJobOf
=============================================================================
