----------------------------- MODULE MCCheckout -----------------------------
(* Small instances of Checkout.                                            *)
EXTENDS Checkout, TLC

CONSTANTS s1, s2, ana, luis, o1, o2, o3

Call(op, h, S, q) == [op |-> op, holder |-> h, seats |-> S, quantity |-> q]

MCSeats == {s1, s2}
MCHolders == {ana, luis}
NoRequests == {}
NoCalls == [r \in {} |-> Call("release", ana, {}, 0)]

\* Three commits after the same seat, two of them with another one, so that a
\* third buyer meets what is left of two earlier orders; one buyer has two.
MCOrders == {o1, o2, o3}
MCSeatsOf == o1 :> {s1, s2} @@ o2 :> {s1} @@ o3 :> {s1, s2}
MCBuyerOf == o1 :> ana @@ o2 :> luis @@ o3 :> luis
\* Luis has held a seat since before, so his commits find a hold of their own and
\* Ana's one of somebody else, until it lapses.
MCInit ==
  /\ seat = [s \in Seats |-> "available"]
  /\ hold = s1 :> luis @@ s2 :> NoHolder
  /\ owned = luis :> {s1} @@ ana :> {}
  /\ expiring = {luis}
  /\ req = [r \in Requests |-> IdleRequest]
  /\ order = [o \in Orders |-> "none"]
  /\ items = [o \in Orders |-> {}]
  /\ due = {}
  /\ event = "published"
  /\ commit = [o \in Orders |-> [at |-> "idle", mine |-> {}]]

MCSpec == MCInit /\ [][CheckoutNext]_allCheckoutVars
=============================================================================
