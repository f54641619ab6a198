------------------------------ MODULE MCPayouts ------------------------------
(* Small instances of Payouts: a promoter, a buyer, one event.               *)
EXTENDS Payouts, TLC

CONSTANTS
  ana, luis, w1, w2, e1, o1, o2,
  request1, request2, approve1, pay1, reject1, cancel1, pay2, cancel2,
  close1, close2,
  Scenarios

Ask(op, subject) == [op |-> op, on |-> subject]

MCUsers == {ana, luis}
MCPromoters == {ana}
MCWithdrawals == {w1, w2}
MCEvents == {e1}
MCOrders == {o1, o2}
MCReferences == {w1, w2, e1, o1, o2}
MCCallOf ==
  request1 :> Ask("request", w1) @@ request2 :> Ask("request", w2)
  @@ approve1 :> Ask("approve", w1) @@ pay1 :> Ask("pay", w1)
  @@ reject1 :> Ask("reject", w1) @@ cancel1 :> Ask("cancel", w1)
  @@ pay2 :> Ask("pay", w2) @@ cancel2 :> Ask("cancel", w2)
  @@ close1 :> Ask("finalize", e1) @@ close2 :> Ask("finalize", e1)
MCCalls == DOMAIN MCCallOf

\* Fees of 1.5 and 1.05: one is a tie, and neither is whole.
MCOwnerOf == [w \in MCWithdrawals |-> ana]
MCAmountOf == w1 :> 15 @@ w2 :> 35
MCFeePercent == ana :> 10 @@ luis :> 6
MCPromoterOf == e1 :> ana
MCEventOf == [o \in MCOrders |-> e1]
MCBuyerOf == [o \in MCOrders |-> luis]
MCNetOf == o1 :> 10 @@ o2 :> 20
MCFirstStatus == e1 :> "published"

\* Enough for one of the withdrawals; for both once the event is closed.
MCOpening == ana :> 36 @@ luis :> 0

\* What happens in one run of the model: the calls that are made, the orders
\* that may be paid, how often something fails.
Story(made, waiting, failures) ==
  [made |-> made, waiting |-> waiting, failed |-> MaxFaults - failures]

\* Two withdrawals of one wallet, one with every decision on it.
Rivals == Story({request1, request2, pay2, cancel2}, {}, 1)
Decisions1 == Story({request1, approve1, pay1, reject1, cancel1}, {}, 1)
\* Two administrators close an event while its order is paid and refunded.
Closing == Story({close1, close2}, {o1}, 1)
\* One of two orders is paid while the other's money is counted.
TwoOrders == Story({close1}, {o1, o2}, 0)
\* The promoter withdraws what was just transferred.
Earned == Story({request1, request2, close1}, {o1}, 0)

PayoutStories == {Rivals, Decisions1, Closing, TwoOrders, Earned}

MCInit == \E s \in Scenarios : PayoutsStart(s.made, s.waiting, s.failed)

MCSpec == MCInit /\ [][PayoutsNext]_vars /\ PayoutsFairness
=============================================================================
