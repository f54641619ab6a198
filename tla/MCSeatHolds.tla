----------------------------- MODULE MCSeatHolds -----------------------------
(* Small instances of SeatHolds.                                           *)
EXTENDS SeatHolds, TLC

CONSTANTS s1, s2, s3, ana, luis, r1, r2, r3, r4, r5

Call(op, h, S, q) == [op |-> op, holder |-> h, seats |-> S, quantity |-> q]

MCSeats == {s1, s2, s3}
MCHolders == {ana, luis}

\* A holder whose calls meet on every seat, exceed the cap of 2 together and give
\* a seat back, and another holder after one of the seats.
HoldCalls ==
  r1 :> Call("hold", ana, {s1}, 1) @@
  r2 :> Call("holdByQuantity", ana, {s1, s2}, 1) @@
  r3 :> Call("hold", ana, {s2, s3}, 1) @@
  r4 :> Call("release", ana, {s1}, 1) @@
  r5 :> Call("hold", luis, {s3}, 1)
HoldRequests == DOMAIN HoldCalls
==============================================================================
