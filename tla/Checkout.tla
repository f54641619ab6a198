------------------------------ MODULE Checkout ------------------------------
(***************************************************************************)
(* From a hold to an order, and from an order that is not paid back to     *)
(* free seats (api/src/modules/orders/checkout.service.ts and              *)
(* orders-sweeper.service.ts).                                             *)
(*                                                                         *)
(* A commit is a process that takes one step per await: three reads that   *)
(* decide nothing by themselves, the transaction that sells the seats, and *)
(* the Redis calls that drop the holds.  The holds are those of SeatHolds, *)
(* with their requests running beside the commits.  Payments EXTENDS this  *)
(* module; alone, the payments are an environment that may change the      *)
(* orders in every way Payments does.                                      *)
(***************************************************************************)
EXTENDS SeatHolds

CONSTANTS
  Orders,      \* one per commit: the order it creates if it succeeds
  SeatsOf,     \* the seats asked for
  Buyers,
  BuyerOf,
  HolderOf,    \* the buyer, or the reservation whose holds are bought
  MaxPending   \* maxPendingPerBuyer

ASSUME CheckoutAssumption ==
  /\ SeatsOf \in [Orders -> SUBSET Seats]
  /\ \A o \in Orders : SeatsOf[o] # {}
  /\ BuyerOf \in [Orders -> Buyers]
  /\ HolderOf \in [Orders -> Holders]
  /\ MaxPending \in Nat \ {0}

VARIABLES
  order,   \* orders.status; "none" before the row exists
  items,   \* seats of the order's active items
  due,     \* pending orders whose expiresAt is past
  event,   \* events.status
  commit   \* progress of each commit, and the holds it is about to delete

orderVars == <<order, items, due>>
saleVars == <<seat, order, items, due>>
checkoutVars == <<seat, order, items, due, event, commit>>
allCheckoutVars == <<holdVars, checkoutVars>>

OrderStatus ==
  {"none", "pending", "paid", "expired", "cancelled", "refunded"}
EventStatus == {"published", "suspended", "cancelled"}
CommitStep == {"idle", "holds", "event", "tx", "mget", "del", "srem"}

CheckoutTypeOK ==
  /\ HoldsTypeOK
  /\ order \in [Orders -> OrderStatus]
  /\ items \in [Orders -> SUBSET Seats]
  /\ due \in SUBSET Orders
  /\ event \in EventStatus
  /\ commit \in [Orders -> [at : CommitStep, mine : SUBSET Seats]]

CheckoutInit ==
  /\ HoldsInit
  /\ order = [o \in Orders |-> "none"]
  /\ items = [o \in Orders |-> {}]
  /\ due = {}
  /\ event = "published"
  /\ commit = [o \in Orders |-> [at |-> "idle", mine |-> {}]]

Live(o) == order[o] \in {"pending", "paid"}
Over(o) == order[o] \in {"expired", "cancelled", "refunded"}

\* What the cap on pending orders counts.
ActivePending(b) ==
  {o \in Orders : BuyerOf[o] = b /\ order[o] = "pending" /\ o \notin due}

CommitAt(o, step) == commit[o].at = step
CommitTo(o, step) == commit' = [commit EXCEPT ![o].at = step]
CommitEnds(o) == commit' = [commit EXCEPT ![o] = [at |-> "idle", mine |-> {}]]

-----------------------------------------------------------------------------
(* runCommit.                                                              *)

\* The count of the buyer's pending orders.
BeginCommit(o) ==
  /\ order[o] = "none" /\ CommitAt(o, "idle")
  /\ Cardinality(ActivePending(BuyerOf[o])) < MaxPending
  /\ CommitTo(o, "holds")
  /\ UNCHANGED <<holdVars, saleVars, event>>

\* assertNoForeignHold.
CheckHolds(o) ==
  /\ CommitAt(o, "holds")
  /\ IF \A s \in SeatsOf[o] : hold[s] \in {NoHolder, HolderOf[o]}
     THEN CommitTo(o, "event") ELSE CommitEnds(o)
  /\ UNCHANGED <<holdVars, saleVars, event>>

\* The event must be on sale, and the order within the cap per purchase, which
\* is that of the holds.
CheckEvent(o) ==
  /\ CommitAt(o, "event")
  /\ IF event = "published" /\ Cardinality(SeatsOf[o]) <= Cap
     THEN CommitTo(o, "tx") ELSE CommitEnds(o)
  /\ UNCHANGED <<holdVars, saleVars, event>>

\* Mistake: the unique index is missing.
NoIndex(S) == TRUE

\* order_items_active_seat_uniq.
NoActiveItem(S) == \A other \in Orders : items[other] \cap S = {}

\* commitTx: the rows are locked, so the transaction is one step, all or
\* nothing.  The unique index is checked as the items are created.
CommitTx(o) ==
  /\ CommitAt(o, "tx")
  /\ \/ /\ Available(SeatsOf[o]) = SeatsOf[o]
        /\ NoActiveItem(SeatsOf[o])
        /\ order' = [order EXCEPT ![o] = "pending"]
        /\ items' = [items EXCEPT ![o] = SeatsOf[o]]
        /\ seat' = [s \in Seats |-> IF s \in SeatsOf[o] THEN "sold" ELSE seat[s]]
        /\ CommitTo(o, "mget")
     \/ /\ Available(SeatsOf[o]) # SeatsOf[o] \/ ~NoActiveItem(SeatsOf[o])
        /\ CommitEnds(o)
        /\ UNCHANGED <<order, items, seat>>
  /\ UNCHANGED <<holdVars, due, event>>

\* Mistake: the holders are kept in the place of their keys.
ReadHolders(o) ==
  /\ CommitAt(o, "mget")
  /\ commit' = [commit EXCEPT ![o] =
       [at |-> "del", mine |-> {hold[s] : s \in SeatsOf[o]}]]
  /\ UNCHANGED <<holdVars, saleVars, event>>

\* releaseOwnHolds, first call: which of the holds are the holder's.
ReadOwnHolds(o) ==
  /\ CommitAt(o, "mget")
  /\ commit' = [commit EXCEPT ![o] =
       [at |-> "del", mine |-> SeatsOf[o] \cap HeldBy(HolderOf[o])]]
  /\ UNCHANGED <<holdVars, saleVars, event>>

\* releaseOwnHolds, second call: DEL, whoever the holder is by now.
DropOwnHolds(o) ==
  /\ CommitAt(o, "del")
  /\ SetHolds(commit[o].mine, NoHolder)
  /\ CommitTo(o, "srem")
  /\ UNCHANGED <<owned, expiring, req, saleVars, event>>

\* releaseOwnHolds, third call.
UntrackOwnHolds(o) ==
  /\ CommitAt(o, "srem")
  /\ RemoveFromOwnerSet(SeatsOf[o], HolderOf[o])
  /\ CommitEnds(o)
  /\ UNCHANGED <<hold, req, saleVars, event>>

\* The process dies, or a Redis call fails and its error is swallowed.
CrashCommit(o) ==
  /\ RequestsCrash
  /\ ~CommitAt(o, "idle")
  /\ CommitEnds(o)
  /\ UNCHANGED <<holdVars, saleVars, event>>

CommitStepOf(o) ==
  \/ BeginCommit(o) \/ CheckHolds(o) \/ CheckEvent(o) \/ CommitTx(o)
  \/ ReadOwnHolds(o) \/ DropOwnHolds(o) \/ UntrackOwnHolds(o)
  \/ CrashCommit(o)

-----------------------------------------------------------------------------
(* The sweeper of unpaid orders, and the clock.                            *)

\* Mistake: the items end, the seats stay sold.
ReleaseItemsOnly(o) ==
  /\ items' = [items EXCEPT ![o] = {}]
  /\ UNCHANGED seat

\* Items inactive and seats available again: the seats are those of all the
\* order's items, whoever has them now.
ReleaseInventory(o) ==
  /\ items' = [items EXCEPT ![o] = {}]
  /\ seat' = [s \in Seats |-> IF s \in SeatsOf[o] THEN "available" ELSE seat[s]]

Lapse(o) ==
  /\ order[o] = "pending" /\ o \notin due
  /\ due' = due \cup {o}
  /\ UNCHANGED <<holdVars, seat, order, items, event, commit>>

\* Mistake: only the status of the order changes.
SweepStatusOnly(o) ==
  /\ order[o] = "pending" /\ o \in due
  /\ order' = [order EXCEPT ![o] = "expired"]
  /\ UNCHANGED <<holdVars, seat, items, due, event, commit>>

\* Mistake: orders of an event that is off sale are left out.
SweepOnSaleOnly(o) ==
  /\ order[o] = "pending" /\ o \in due /\ event = "published"
  /\ order' = [order EXCEPT ![o] = "expired"]
  /\ ReleaseInventory(o)
  /\ UNCHANGED <<holdVars, due, event, commit>>

\* sweepExpired for one order.  Only the status is checked again when it is
\* written, and expiresAt never moves, so the list read before it adds nothing.
Sweep(o) ==
  /\ order[o] = "pending" /\ o \in due
  /\ order' = [order EXCEPT ![o] = "expired"]
  /\ ReleaseInventory(o)
  /\ UNCHANGED <<holdVars, due, event, commit>>

-----------------------------------------------------------------------------
(* The life of the event.  setStatus and suspend read the status, check it *)
(* and write the new one later without a condition.  A change that passed  *)
(* its check may be overtaken by others, so any status may follow any.     *)

SetStatus ==
  /\ event' \in EventStatus
  /\ UNCHANGED <<holdVars, saleVars, commit>>

-----------------------------------------------------------------------------
(* What the payments do to an order: the writes of fulfill, fail, reverse  *)
(* and the event refunds on it.                                            *)

\* Mistake: a late payment claims an order that the sweeper took.
ClaimExpired(o) ==
  /\ order[o] \in {"pending", "expired"}
  /\ order' = [order EXCEPT ![o] = "paid"]
  /\ UNCHANGED <<seat, items, due>>

\* fulfill, the claim.
ClaimPaid(o) ==
  /\ order[o] = "pending"
  /\ order' = [order EXCEPT ![o] = "paid"]
  /\ UNCHANGED <<seat, items, due>>

\* reverse and refundOne, the claim.
ClaimRefunded(o) ==
  /\ order[o] = "paid"
  /\ order' = [order EXCEPT ![o] = "refunded"]
  /\ UNCHANGED <<seat, items, due>>

\* reverse and refundOne, the transaction after the posting.
ReturnSeats(o) ==
  /\ order[o] # "none"
  /\ ReleaseInventory(o)
  /\ UNCHANGED <<order, due>>

\* fail, its transaction: the status it overwrites is not looked at again.
CancelOrder(o) ==
  /\ order[o] # "none"
  /\ order' = [order EXCEPT ![o] = "cancelled"]
  /\ ReleaseInventory(o)
  /\ UNCHANGED due

\* Once its order was refunded or cancelled, a reversal still returns seats.
PaymentStep(o) ==
  /\ \/ ClaimPaid(o)
     \/ ClaimRefunded(o)
     \/ order[o] \in {"refunded", "cancelled"} /\ ReturnSeats(o)
     \/ CancelOrder(o)
  /\ UNCHANGED <<holdVars, event, commit>>

SaleStep(o) == CommitStepOf(o) \/ Lapse(o) \/ Sweep(o)

CheckoutStep ==
  \/ HoldsNext /\ UNCHANGED <<order, items, due, event, commit>>
  \/ \E o \in Orders : SaleStep(o)
  \/ SetStatus

CheckoutNext == CheckoutStep \/ \E o \in Orders : PaymentStep(o)

CheckoutSpec == CheckoutInit /\ [][CheckoutNext]_allCheckoutVars

\* The sweeper runs on a timer and expiresAt is a date.
SweeperFairness ==
  \A o \in Orders : WF_allCheckoutVars(Lapse(o)) /\ WF_allCheckoutVars(Sweep(o))

-----------------------------------------------------------------------------
(* Properties.                                                             *)

\* Two orders that are waiting for their payment or paid never share a seat,
\* however commits, sweeps, late payments and refunds follow one another
\* (checkout.service.ts, Capa 2; prisma.service.ts, order_items_active_seat_uniq).
SeatsArePromisedOnce ==
  \A o1, o2 \in Orders :
    o1 # o2 /\ Live(o1) /\ Live(o2) => SeatsOf[o1] \cap SeatsOf[o2] = {}

\* An order has all of its items active while it is pending or paid, and none
\* before it exists and after it expired or was cancelled: no path sells or
\* releases a part of an order (commitTx, sweepExpired, fail).
OrdersAreWhole ==
  \A o \in Orders :
    /\ Live(o) => items[o] = SeatsOf[o]
    /\ order[o] \in {"none", "expired", "cancelled"} => items[o] = {}

\* No seat is off sale for nobody: a sold seat has an active item, so some
\* order can still give it back (the sweeper's reason to exist).
SoldSeatsHaveAnOrder ==
  \A s \in Seats : seat[s] = "sold" => \E o \in Orders : s \in items[o]

\* A pending order does not tie up its seats for ever (orders-sweeper): it is
\* paid, cancelled or swept.
PendingOrdersEnd == \A o \in Orders : []<>(order[o] # "pending")

\* What the status of each order is to the abstract sale.
StageOf(status) ==
  CASE status = "none" -> "open"
    [] status = "pending" -> "reserved"
    [] status = "paid" -> "sold"
    [] OTHER -> "over"
Stage == [o \in Orders |-> StageOf(order[o])]

Sale == INSTANCE SeatSale WITH stage <- Stage

\* Every step of commits, sweeper, clock, event and payments is a step of the
\* abstract sale or leaves it alone.
ImplementsSale == Sale!SaleSpec
=============================================================================
