--------------------------- MODULE MCReservations ---------------------------
(* Small instances of Reservations: an account, an address, another buyer. *)
EXTENDS Reservations, TLC

CONSTANTS
  s1, s2, s3, ana, visitor, luis, v1, v2, v3, v4, v5, v6, v7, o1, o2,
  seats1, quantity1, seats2, seats3, seats4, seats5, seats6, quantity6, seats7,
  take1, give1, Scenarios

Call(op, h, S, q) == [op |-> op, holder |-> h, seats |-> S, quantity |-> q]

MCSeats == {s1, s2, s3}
MCBuyers == {ana, luis}
MCIdentities == {ana, visitor, luis}
MCReservationIds == {v1, v2, v3, v4, v5, v6, v7}
MCHolders == MCReservationIds \cup MCBuyers

\* Two reservations of Ana's combine a seat and a quantity, one of them too many;
\* two others are over the cap of two together.  The visitor's two are of a seat
\* each.  Luis holds and releases seats without a reservation.
MCRequestOf ==
  seats1 :> Call("hold", v1, {s1}, 0) @@
  quantity1 :> Call("holdByQuantity", v1, {s1, s2}, 1) @@
  seats2 :> Call("hold", v2, {s2}, 0) @@
  seats5 :> Call("hold", v5, {s1, s3}, 0) @@
  seats3 :> Call("hold", v3, {s1}, 0) @@
  seats4 :> Call("hold", v4, {s2}, 0) @@
  seats6 :> Call("hold", v6, {s1}, 0) @@
  quantity6 :> Call("holdByQuantity", v6, {s2, s3}, 2) @@
  seats7 :> Call("holdByQuantity", v7, {s1}, 1) @@
  take1 :> Call("hold", luis, {s1}, 0) @@
  give1 :> Call("release", luis, {s1}, 0)
MCRequests == DOMAIN MCRequestOf
MCCallsOf ==
  v1 :> <<seats1, quantity1>> @@ v2 :> <<seats2>> @@ v3 :> <<seats3>>
  @@ v4 :> <<seats4>> @@ v5 :> <<seats5>> @@ v6 :> <<seats6, quantity6>>
  @@ v7 :> <<seats7>>
MCIdentityOf ==
  [v \in MCReservationIds |-> IF v \in {v3, v4} THEN visitor ELSE ana]

\* Luis buys what the visitor reserved, and what nobody did.
MCOrders == {o1, o2}
MCSeatsOf == [o \in MCOrders |-> {s1}]
MCBuyerOf == [o \in MCOrders |-> luis]
MCHolderOf == o1 :> v3 @@ o2 :> luis

\* What is asked for in one run of the model.
Combined == {v1, take1, give1}
TooMany == {v6, take1}
Capped == {v2, v5}
Address == {v3, v4}
Bought == {v3, o1, take1}
SoldOut == {v7, o2}

ReservationStories == {Combined, TooMany, Capped, Address, Bought, SoldOut}

MCInit == \E s \in Scenarios : ReservationsStart(s)
MCSpec == MCInit /\ [][ReservationsNext]_vars /\ ReservationsFairness
=============================================================================
