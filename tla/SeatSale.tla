------------------------------ MODULE SeatSale ------------------------------
(***************************************************************************)
(* What the sale of seats promises.  An order takes all of its seats or    *)
(* none, keeps them while it waits for its payment and after it, and gives *)
(* them up once and for all; no seat is ever promised to two orders.       *)
(* Checkout implements this module.                                        *)
(***************************************************************************)
CONSTANTS Orders, SeatsOf

VARIABLE stage   \* of each order

Stages == {"open", "reserved", "sold", "over"}

Keeps(o) == stage[o] \in {"reserved", "sold"}

Reserve(o) ==
  /\ stage[o] = "open"
  /\ \A other \in Orders : Keeps(other) => SeatsOf[other] \cap SeatsOf[o] = {}
  /\ stage' = [stage EXCEPT ![o] = "reserved"]

Confirm(o) ==
  /\ stage[o] = "reserved"
  /\ stage' = [stage EXCEPT ![o] = "sold"]

GiveUp(o) ==
  /\ Keeps(o)
  /\ stage' = [stage EXCEPT ![o] = "over"]

SaleInit == stage = [o \in Orders |-> "open"]
SaleNext == \E o \in Orders : Reserve(o) \/ Confirm(o) \/ GiveUp(o)
SaleSpec == SaleInit /\ [][SaleNext]_stage
=============================================================================
