--------------------------- MODULE Checkout_proofs ---------------------------
(***************************************************************************)
(* What TLAPS proves of Checkout, for any seats, orders and holders: the   *)
(* inductive invariant behind the single sale, and what follows from it.   *)
(***************************************************************************)
EXTENDS Checkout, TLAPS

\* The active items of an order are seats it asked for, and no seat is an
\* active item of two orders (order_items_active_seat_uniq): unlike the
\* statuses of orders and seats, this survives every step of the payments.
ItemsBelong == \A o \in Orders : items[o] \subseteq SeatsOf[o]
ItemsAreDisjoint ==
  \A o1, o2 \in Orders : o1 # o2 => items[o1] \cap items[o2] = {}

\* An order does not exist before its commit reaches the transaction.
CommitsComeFirst ==
  \A o \in Orders : commit[o].at \in {"holds", "event", "tx"} => order[o] = "none"

\* The inductive invariant.
SaleInv ==
  /\ CheckoutTypeOK
  /\ ItemsBelong
  /\ ItemsAreDisjoint
  /\ CommitsComeFirst
  /\ OrdersAreWhole
  /\ SoldSeatsHaveAnOrder

-----------------------------------------------------------------------------
(* The hold requests and the clock keep the types.                         *)

\* A script that writes the same value on some keys keeps the type of hold.
LEMMA SetHoldsType ==
  ASSUME hold \in [Seats -> Holders \cup {NoHolder}],
         NEW S, NEW h \in Holders \cup {NoHolder}, SetHolds(S, h)
  PROVE  hold' \in [Seats -> Holders \cup {NoHolder}]
BY DEF SetHolds

\* RELEASE_SCRIPT keeps the type of hold.
LEMMA ReleaseScriptType ==
  ASSUME hold \in [Seats -> Holders \cup {NoHolder}],
         NEW S, NEW h, ReleaseScript(S, h)
  PROVE  hold' \in [Seats -> Holders \cup {NoHolder}]
BY DEF ReleaseScript

\* SREM keeps the types of the owner sets.
LEMMA RemoveFromOwnerSetType ==
  ASSUME owned \in [Holders -> SUBSET Seats], expiring \in SUBSET Holders,
         NEW S, NEW h \in Holders, RemoveFromOwnerSet(S, h)
  PROVE  /\ owned' \in [Holders -> SUBSET Seats]
         /\ expiring' \in SUBSET Holders
BY DEF RemoveFromOwnerSet

\* Every step of a hold request keeps the types (seat-hold.service.ts).
LEMMA HoldStepType ==
  ASSUME HoldsTypeOK, NEW r \in Requests, HoldStep(r)
  PROVE  HoldsTypeOK'
<1> USE HoldsAssumption
<1>1. /\ RequestOf[r].holder \in Holders
      /\ RequestOf[r].seats \in SUBSET Seats
      /\ req[r].got \in SUBSET Seats
  BY DEF RequestType, HoldsTypeOK
<1>2. CASE BeginHold(r)
  BY <1>1, <1>2 DEF BeginHold, HoldsTypeOK, RequestStep
<1>3. CASE BeginHoldByQuantity(r)
  BY <1>1, <1>3 DEF BeginHoldByQuantity, HoldsTypeOK, RequestStep, Available
<1>4. CASE Take(r)
  <2>1. hold' \in [Seats -> Holders \cup {NoHolder}]
    BY <1>1, <1>4, SetHoldsType DEF Take, HoldsTypeOK, HolderOfRequest
  <2>2. req' \in [Requests -> [at : RequestStep, got : SUBSET Seats]]
    BY <1>1, <1>4
    DEF Take, HoldsTypeOK, MoveTo, Answer, IdleRequest, NoSeats, RequestStep
  <2> QED BY <1>4, <2>1, <2>2 DEF Take, HoldsTypeOK
<1>5. CASE TakeByQuantity(r)
  <2>1. CASE Answer(r) /\ UNCHANGED hold
    BY <1>5, <2>1
    DEF TakeByQuantity, HoldsTypeOK, Answer, IdleRequest, NoSeats, RequestStep
  <2>2. CASE \E S \in SUBSET Free(req[r].got) :
               /\ SetHolds(S, HolderOfRequest(r))
               /\ req' = [req EXCEPT ![r] = [at |-> "sadd", got |-> S]]
    <3>1. PICK S \in SUBSET Free(req[r].got) :
            /\ SetHolds(S, HolderOfRequest(r))
            /\ req' = [req EXCEPT ![r] = [at |-> "sadd", got |-> S]]
      BY <2>2
    <3>2. S \in SUBSET Seats
      BY <1>1 DEF Free
    <3>3. hold' \in [Seats -> Holders \cup {NoHolder}]
      BY <1>1, <3>1, SetHoldsType DEF HoldsTypeOK, HolderOfRequest
    <3> QED BY <1>5, <3>1, <3>2, <3>3 DEF TakeByQuantity, HoldsTypeOK, RequestStep
  <2> QED BY <1>5, <2>1, <2>2 DEF TakeByQuantity
<1>6. CASE AddToOwnerSet(r)
  BY <1>1, <1>6
  DEF AddToOwnerSet, HoldsTypeOK, MoveTo, RequestStep, HolderOfRequest
<1>7. CASE RefreshOwnerSet(r)
  BY <1>1, <1>7
  DEF RefreshOwnerSet, HoldsTypeOK, MoveTo, RequestStep, HolderOfRequest
<1>8. CASE CountOwnerSet(r)
  BY <1>8
  DEF CountOwnerSet, HoldsTypeOK, MoveTo, Answer, IdleRequest, NoSeats, RequestStep
<1>9. CASE Release(r)
  <2>1. hold' \in [Seats -> Holders \cup {NoHolder}]
    BY <1>9, ReleaseScriptType DEF Release, HoldsTypeOK
  <2>2. req' \in [Requests -> [at : RequestStep, got : SUBSET Seats]]
    BY <1>1, <1>9 DEF Release, HoldsTypeOK, MoveTo, RequestStep
  <2> QED BY <1>9, <2>1, <2>2 DEF Release, HoldsTypeOK
<1>10. CASE Untrack(r)
  <2>1. /\ owned' \in [Holders -> SUBSET Seats]
        /\ expiring' \in SUBSET Holders
    BY <1>1, <1>10, RemoveFromOwnerSetType DEF Untrack, HoldsTypeOK, HolderOfRequest
  <2>2. req' \in [Requests -> [at : RequestStep, got : SUBSET Seats]]
    BY <1>10 DEF Untrack, HoldsTypeOK, Answer, IdleRequest, NoSeats, RequestStep
  <2> QED BY <1>10, <2>1, <2>2 DEF Untrack, HoldsTypeOK
<1>11. CASE CrashRequest(r)
  BY <1>11
  DEF CrashRequest, HoldsTypeOK, Answer, IdleRequest, NoSeats, RequestStep
<1> QED
  BY <1>2, <1>3, <1>4, <1>5, <1>6, <1>7, <1>8, <1>9, <1>10, <1>11
  DEF HoldStep, HoldCallStep

\* Every step of SeatHolds keeps its types, the two TTLs included.
LEMMA HoldsNextType ==
  ASSUME HoldsTypeOK, HoldsNext
  PROVE  HoldsTypeOK'
<1>1. CASE \E r \in Requests : HoldStep(r)
  BY <1>1, HoldStepType
<1>2. CASE \E s \in Seats : HoldLapses(s)
  BY <1>2 DEF HoldLapses, HoldsTypeOK
<1>3. CASE \E h \in Holders : OwnerSetLapses(h)
  BY <1>3 DEF OwnerSetLapses, HoldsTypeOK
<1> QED BY <1>1, <1>2, <1>3 DEF HoldsNext

-----------------------------------------------------------------------------
(* The inductive invariant.                                                *)

\* What the invariant says of orders, items and seats, without the types.
SaleParts ==
  /\ ItemsBelong
  /\ ItemsAreDisjoint
  /\ CommitsComeFirst
  /\ OrdersAreWhole
  /\ SoldSeatsHaveAnOrder

\* A transaction that releases the inventory of an order that is over from
\* then on keeps the invariant (sweepExpired, fail, reverse).
LEMMA ReleaseKeepsSale ==
  ASSUME SaleInv, NEW o \in Orders, ReleaseInventory(o),
         order[o] # "none",
         order'[o] \in {"expired", "cancelled", "refunded"},
         \A p \in Orders \ {o} : order'[p] = order[p],
         UNCHANGED commit
  PROVE  /\ items' \in [Orders -> SUBSET Seats]
         /\ seat' \in [Seats -> SeatStatus]
         /\ SaleParts'
<1>1. /\ items' = [items EXCEPT ![o] = {}]
      /\ seat' = [s \in Seats |-> IF s \in SeatsOf[o] THEN "available" ELSE seat[s]]
  BY DEF ReleaseInventory
<1>2. /\ items' \in [Orders -> SUBSET Seats]
      /\ seat' \in [Seats -> SeatStatus]
  BY <1>1 DEF SaleInv, CheckoutTypeOK, HoldsTypeOK, SeatStatus
<1>3. \A p \in Orders : items'[p] = IF p = o THEN {} ELSE items[p]
  BY <1>1 DEF SaleInv, CheckoutTypeOK
<1>4. ItemsBelong' /\ ItemsAreDisjoint'
  BY <1>3 DEF SaleInv, ItemsBelong, ItemsAreDisjoint
<1>5. CommitsComeFirst'
  BY DEF SaleInv, CommitsComeFirst
<1>6. OrdersAreWhole'
  BY <1>3 DEF SaleInv, OrdersAreWhole, Live
<1>7. SoldSeatsHaveAnOrder'
  <2> SUFFICES ASSUME NEW s \in Seats, seat'[s] = "sold"
               PROVE  \E p \in Orders : s \in items'[p]
    BY DEF SoldSeatsHaveAnOrder
  <2>1. s \notin SeatsOf[o] /\ seat[s] = "sold"
    BY <1>1
  <2>2. PICK p \in Orders : s \in items[p]
    BY <2>1 DEF SaleInv, SoldSeatsHaveAnOrder
  <2>3. p # o
    BY <2>1, <2>2 DEF SaleInv, ItemsBelong
  <2> QED BY <2>2, <2>3, <1>3
<1> QED BY <1>2, <1>4, <1>5, <1>6, <1>7 DEF SaleParts

\* A transaction that only moves an order from one live status to another, or
\* from paid to refunded, keeps the invariant (the claims of the payments).
LEMMA ClaimKeepsSale ==
  ASSUME SaleInv, NEW o \in Orders, Live(o),
         order'[o] \in {"paid", "refunded"},
         \A p \in Orders \ {o} : order'[p] = order[p],
         UNCHANGED <<seat, items, commit>>
  PROVE  SaleParts'
<1>1. ItemsBelong' /\ ItemsAreDisjoint' /\ SoldSeatsHaveAnOrder'
  BY DEF SaleInv, ItemsBelong, ItemsAreDisjoint, SoldSeatsHaveAnOrder
<1>2. CommitsComeFirst'
  BY DEF SaleInv, CommitsComeFirst, Live
<1>3. OrdersAreWhole'
  BY DEF SaleInv, OrdersAreWhole, Live
<1> QED BY <1>1, <1>2, <1>3 DEF SaleParts

\* A step that leaves orders and seats alone, and no commit between its count
\* and its transaction without an order to create, keeps the invariant.
LEMMA UntouchedSale ==
  ASSUME SaleInv, UNCHANGED <<seat, order, items>>, CommitsComeFirst'
  PROVE  SaleParts'
BY DEF SaleInv, SaleParts, ItemsBelong, ItemsAreDisjoint, OrdersAreWhole,
       SoldSeatsHaveAnOrder, Live

\* The initial state satisfies the invariant.
LEMMA SaleInvInit == CheckoutInit => SaleInv
<1> SUFFICES ASSUME CheckoutInit PROVE SaleInv
  OBVIOUS
<1>1. HoldsTypeOK
  BY DEF CheckoutInit, HoldsInit, HoldsTypeOK, SeatStatus, IdleRequest,
         NoSeats, RequestStep
<1>2. CheckoutTypeOK
  BY <1>1 DEF CheckoutInit, CheckoutTypeOK, OrderStatus, EventStatus, CommitStep
<1>3. ItemsBelong /\ ItemsAreDisjoint /\ CommitsComeFirst
  BY DEF CheckoutInit, ItemsBelong, ItemsAreDisjoint, CommitsComeFirst
<1>4. OrdersAreWhole /\ SoldSeatsHaveAnOrder
  BY DEF CheckoutInit, HoldsInit, OrdersAreWhole, SoldSeatsHaveAnOrder, Live
<1> QED BY <1>2, <1>3, <1>4 DEF SaleInv

\* The transaction of the checkout keeps the invariant, whether it sells all
\* of the seats or none (commitTx).
LEMMA CommitTxKeepsSale ==
  ASSUME SaleInv, NEW o \in Orders, CommitTx(o)
  PROVE  SaleInv'
<1> USE CheckoutAssumption
<1>1. CASE CommitEnds(o) /\ UNCHANGED <<order, items, seat>>
  <2>1. CheckoutTypeOK'
    BY <1>1 DEF CommitTx, CommitEnds, SaleInv, CheckoutTypeOK, HoldsTypeOK,
                holdVars, CommitStep
  <2>2. CommitsComeFirst'
    BY <1>1 DEF CommitEnds, SaleInv, CheckoutTypeOK, CommitsComeFirst
  <2> QED BY <1>1, <2>1, <2>2, UntouchedSale DEF SaleInv, SaleParts
<1>2. CASE /\ NoActiveItem(SeatsOf[o])
           /\ order' = [order EXCEPT ![o] = "pending"]
           /\ items' = [items EXCEPT ![o] = SeatsOf[o]]
           /\ seat' = [s \in Seats |-> IF s \in SeatsOf[o] THEN "sold" ELSE seat[s]]
           /\ CommitTo(o, "mget")
  <2>1. CheckoutTypeOK'
    BY <1>2 DEF CommitTx, CommitTo, SaleInv, CheckoutTypeOK, HoldsTypeOK,
                holdVars, CommitStep, OrderStatus, SeatStatus
  <2>2. /\ \A p \in Orders : items'[p] = IF p = o THEN SeatsOf[o] ELSE items[p]
        /\ \A p \in Orders : order'[p] = IF p = o THEN "pending" ELSE order[p]
        /\ \A p \in Orders : items[p] \cap SeatsOf[o] = {}
    BY <1>2 DEF SaleInv, CheckoutTypeOK, NoActiveItem
  <2>3. ItemsBelong' /\ ItemsAreDisjoint'
    BY <2>2 DEF SaleInv, ItemsBelong, ItemsAreDisjoint
  <2>4. CommitsComeFirst'
    BY <1>2, <2>2 DEF CommitTo, SaleInv, CheckoutTypeOK, CommitsComeFirst
  <2>5. OrdersAreWhole'
    BY <2>2 DEF SaleInv, OrdersAreWhole, Live
  <2>6. SoldSeatsHaveAnOrder'
    <3> SUFFICES ASSUME NEW s \in Seats, seat'[s] = "sold"
                 PROVE  \E p \in Orders : s \in items'[p]
      BY DEF SoldSeatsHaveAnOrder
    <3>1. CASE s \in SeatsOf[o]
      BY <2>2, <3>1
    <3>2. CASE s \notin SeatsOf[o]
      <4>1. PICK p \in Orders : s \in items[p]
        BY <1>2, <3>2 DEF SaleInv, SoldSeatsHaveAnOrder
      <4>2. p # o
        BY <3>2, <4>1 DEF SaleInv, ItemsBelong
      <4> QED BY <2>2, <4>1, <4>2
    <3> QED BY <3>1, <3>2
  <2> QED BY <2>1, <2>3, <2>4, <2>5, <2>6 DEF SaleInv
<1> QED BY <1>1, <1>2 DEF CommitTx

\* Every step of a commit keeps the invariant (runCommit, releaseOwnHolds).
LEMMA CommitStepKeepsSale ==
  ASSUME SaleInv, NEW o \in Orders, CommitStepOf(o)
  PROVE  SaleInv'
<1> USE CheckoutAssumption, HoldsAssumption
<1>1. CASE CommitTx(o)
  BY <1>1, CommitTxKeepsSale
<1>2. CASE ~CommitTx(o)
  <2>1. UNCHANGED <<seat, order, items, due, event>>
    BY <1>2 DEF CommitStepOf, BeginCommit, CheckHolds, CheckEvent, ReadOwnHolds,
                DropOwnHolds, UntrackOwnHolds, CrashCommit, saleVars
  <2>2. /\ commit' \in [Orders -> [at : CommitStep, mine : SUBSET Seats]]
        /\ CommitsComeFirst'
    <3>1. /\ commit \in [Orders -> [at : CommitStep, mine : SUBSET Seats]]
          /\ CommitsComeFirst
      BY DEF SaleInv, CheckoutTypeOK
    <3>2. CASE BeginCommit(o)
      BY <2>1, <3>1, <3>2
      DEF BeginCommit, CommitTo, CommitAt, CommitStep, CommitsComeFirst
    <3>3. CASE CheckHolds(o) \/ CheckEvent(o)
      BY <2>1, <3>1, <3>3
      DEF CheckHolds, CheckEvent, CommitTo, CommitEnds, CommitAt, CommitStep,
          CommitsComeFirst
    <3>4. CASE ReadOwnHolds(o)
      <4>1. SeatsOf[o] \cap HeldBy(HolderOf[o]) \in SUBSET Seats
        BY DEF HeldBy
      <4> QED
        BY <2>1, <3>1, <3>4, <4>1 DEF ReadOwnHolds, CommitStep, CommitsComeFirst
    <3>5. CASE DropOwnHolds(o)
      BY <2>1, <3>1, <3>5 DEF DropOwnHolds, CommitTo, CommitStep, CommitsComeFirst
    <3>6. CASE UntrackOwnHolds(o) \/ CrashCommit(o)
      BY <2>1, <3>1, <3>6
      DEF UntrackOwnHolds, CrashCommit, CommitEnds, CommitStep, CommitsComeFirst
    <3> QED
      BY <1>2, <3>2, <3>3, <3>4, <3>5, <3>6 DEF CommitStepOf
  <2>3. HoldsTypeOK'
    <3>1. CASE DropOwnHolds(o)
      BY <3>1, SetHoldsType DEF DropOwnHolds, SaleInv, CheckoutTypeOK, HoldsTypeOK,
                                saleVars
    <3>2. CASE UntrackOwnHolds(o)
      BY <3>2, RemoveFromOwnerSetType
      DEF UntrackOwnHolds, SaleInv, CheckoutTypeOK, HoldsTypeOK, saleVars
    <3>3. CASE UNCHANGED <<holdVars, seat>>
      BY <3>3 DEF SaleInv, CheckoutTypeOK, HoldsTypeOK, holdVars
    <3> QED
      BY <1>2, <2>1, <3>1, <3>2, <3>3
      DEF CommitStepOf, BeginCommit, CheckHolds, CheckEvent, ReadOwnHolds, CrashCommit
  <2>4. SaleParts'
    BY <2>1, <2>2, UntouchedSale
  <2> QED BY <2>1, <2>2, <2>3, <2>4 DEF SaleInv, SaleParts, CheckoutTypeOK
<1> QED BY <1>1, <1>2

\* The clock and the sweeper keep the invariant (sweepExpired).
LEMMA SweeperKeepsSale ==
  ASSUME SaleInv, NEW o \in Orders, Lapse(o) \/ Sweep(o)
  PROVE  SaleInv'
<1>1. CASE Lapse(o)
  <2>1. CheckoutTypeOK' /\ CommitsComeFirst'
    BY <1>1 DEF Lapse, SaleInv, CheckoutTypeOK, HoldsTypeOK, holdVars,
                CommitsComeFirst
  <2> QED BY <1>1, <2>1, UntouchedSale DEF Lapse, SaleInv, SaleParts
<1>2. CASE Sweep(o)
  <2>1. /\ order' \in [Orders -> OrderStatus]
        /\ order'[o] = "expired"
        /\ \A p \in Orders \ {o} : order'[p] = order[p]
    BY <1>2 DEF Sweep, SaleInv, CheckoutTypeOK, OrderStatus
  <2>2. /\ items' \in [Orders -> SUBSET Seats]
        /\ seat' \in [Seats -> SeatStatus]
        /\ SaleParts'
    BY <1>2, <2>1, ReleaseKeepsSale DEF Sweep
  <2>3. CheckoutTypeOK'
    BY <1>2, <2>1, <2>2 DEF Sweep, SaleInv, CheckoutTypeOK, HoldsTypeOK, holdVars
  <2> QED BY <2>2, <2>3 DEF SaleInv, SaleParts
<1> QED BY <1>1, <1>2

\* What the payments write on orders, items and seats keeps the invariant
\* (fulfill, fail, reverse, refundOne).
LEMMA PaymentStepKeepsSale ==
  ASSUME SaleInv, NEW o \in Orders, PaymentStep(o)
  PROVE  SaleInv'
<1>1. /\ order' \in [Orders -> OrderStatus]
      /\ \A p \in Orders \ {o} : order'[p] = order[p]
      /\ UNCHANGED <<holdVars, due, event, commit>>
  BY DEF PaymentStep, ClaimPaid, ClaimRefunded, ReturnSeats, CancelOrder,
         SaleInv, CheckoutTypeOK, OrderStatus
<1>2. CASE ClaimPaid(o) \/ ClaimRefunded(o)
  <2>1. /\ Live(o)
        /\ order'[o] \in {"paid", "refunded"}
        /\ UNCHANGED <<seat, items, commit>>
    BY <1>1, <1>2 DEF ClaimPaid, ClaimRefunded, Live, SaleInv, CheckoutTypeOK
  <2>2. SaleParts'
    BY <1>1, <2>1, ClaimKeepsSale
  <2> QED
    BY <1>1, <2>1, <2>2
    DEF SaleInv, SaleParts, CheckoutTypeOK, HoldsTypeOK, holdVars
<1>3. CASE \/ order[o] \in {"refunded", "cancelled"} /\ ReturnSeats(o)
           \/ CancelOrder(o)
  <2>1. /\ ReleaseInventory(o)
        /\ order[o] # "none"
        /\ order'[o] \in {"expired", "cancelled", "refunded"}
    BY <1>3 DEF ReturnSeats, CancelOrder, SaleInv, CheckoutTypeOK
  <2>2. /\ items' \in [Orders -> SUBSET Seats]
        /\ seat' \in [Seats -> SeatStatus]
        /\ SaleParts'
    BY <1>1, <2>1, ReleaseKeepsSale
  <2> QED
    BY <1>1, <2>2 DEF SaleInv, SaleParts, CheckoutTypeOK, HoldsTypeOK, holdVars
<1> QED BY <1>2, <1>3 DEF PaymentStep

\* Every step of the specification keeps the invariant.
LEMMA SaleInvNext == SaleInv /\ [CheckoutNext]_allCheckoutVars => SaleInv'
<1> SUFFICES ASSUME SaleInv, [CheckoutNext]_allCheckoutVars PROVE SaleInv'
  OBVIOUS
<1>1. CASE HoldsNext /\ UNCHANGED <<order, items, due, event, commit>>
  <2>1. CheckoutTypeOK'
    BY <1>1, HoldsNextType DEF SaleInv, CheckoutTypeOK
  <2>2. UNCHANGED seat
    BY <1>1 DEF HoldsNext, HoldStep, HoldCallStep, BeginHold,
                BeginHoldByQuantity, Take, TakeByQuantity, AddToOwnerSet,
                RefreshOwnerSet, CountOwnerSet, Release, Untrack, CrashRequest, HoldLapses, OwnerSetLapses
  <2>3. CommitsComeFirst'
    BY <1>1 DEF SaleInv, CommitsComeFirst
  <2> QED BY <1>1, <2>1, <2>2, <2>3, UntouchedSale DEF SaleInv, SaleParts
<1>2. CASE \E o \in Orders : SaleStep(o)
  BY <1>2, CommitStepKeepsSale, SweeperKeepsSale DEF SaleStep
<1>3. CASE SetStatus
  <2>1. CheckoutTypeOK' /\ CommitsComeFirst'
    BY <1>3 DEF SetStatus, SaleInv, CheckoutTypeOK, HoldsTypeOK, EventStatus,
                holdVars, saleVars, CommitsComeFirst
  <2> QED BY <1>3, <2>1, UntouchedSale DEF SetStatus, saleVars, SaleInv, SaleParts
<1>4. CASE \E o \in Orders : PaymentStep(o)
  BY <1>4, PaymentStepKeepsSale
<1>5. CASE UNCHANGED allCheckoutVars
  <2>1. CheckoutTypeOK' /\ CommitsComeFirst'
    BY <1>5 DEF allCheckoutVars, checkoutVars, holdVars, SaleInv, CheckoutTypeOK,
                HoldsTypeOK, CommitsComeFirst
  <2> QED
    BY <1>5, <2>1, UntouchedSale
    DEF allCheckoutVars, checkoutVars, SaleInv, SaleParts
<1> QED BY <1>1, <1>2, <1>3, <1>4, <1>5 DEF CheckoutNext, CheckoutStep

\* The inductive invariant holds in every reachable state.
THEOREM SaleInvariant == CheckoutSpec => []SaleInv
BY SaleInvInit, SaleInvNext, PTL DEF CheckoutSpec

\* Types: the statuses, items, holds and commits are what the tables and keys
\* can hold.
THEOREM CheckoutTypes == CheckoutSpec => []CheckoutTypeOK
<1>1. SaleInv => CheckoutTypeOK
  BY DEF SaleInv
<1> QED BY <1>1, SaleInvariant, PTL

\* No seat is ever promised to two orders, for any number of seats, orders and
\* buyers, however commits, sweeps, payments and refunds interleave.
THEOREM SeatsAreSoldOnce == CheckoutSpec => []SeatsArePromisedOnce
<1>1. SaleInv => SeatsArePromisedOnce
  BY DEF SaleInv, SeatsArePromisedOnce, OrdersAreWhole, ItemsAreDisjoint
<1> QED BY <1>1, SaleInvariant, PTL

\* No order is ever sold, or released, in part.
THEOREM OrdersStayWhole == CheckoutSpec => []OrdersAreWhole
<1>1. SaleInv => OrdersAreWhole
  BY DEF SaleInv
<1> QED BY <1>1, SaleInvariant, PTL

\* No seat is off sale for nobody.
THEOREM NoSeatIsLost == CheckoutSpec => []SoldSeatsHaveAnOrder
<1>1. SaleInv => SoldSeatsHaveAnOrder
  BY DEF SaleInv
<1> QED BY <1>1, SaleInvariant, PTL

-----------------------------------------------------------------------------
(* Holds.                                                                  *)

\* A script that writes one holder on keys that do not exist, or that deletes
\* keys, takes no hold from another holder.
LEMMA SetHoldsIsNoTheft ==
  ASSUME NEW S, NEW h, SetHolds(S, h),
         h = NoHolder \/ \A s \in S : hold[s] = NoHolder,
         NEW s \in Seats, hold[s] # NoHolder
  PROVE  hold'[s] \in {hold[s], NoHolder}
BY DEF SetHolds

\* No step of a hold request, of the clock or of a commit takes a hold from
\* its holder and gives it to another (HOLD_SCRIPT, HOLD_N_SCRIPT,
\* RELEASE_SCRIPT and the DEL of releaseOwnHolds).
LEMMA NextIsNoTheft ==
  ASSUME SaleInv, CheckoutNext, NEW s \in Seats, hold[s] # NoHolder
  PROVE  hold'[s] \in {hold[s], NoHolder}
<1>1. ASSUME NEW r \in Requests, HoldStep(r)
      PROVE  hold'[s] \in {hold[s], NoHolder}
  <2>1. CASE Take(r)
    <3>1. Free(req[r].got) = req[r].got => \A t \in req[r].got : hold[t] = NoHolder
      BY DEF Free
    <3> QED BY <2>1, <3>1, SetHoldsIsNoTheft DEF Take
  <2>2. CASE TakeByQuantity(r)
    <3>1. CASE UNCHANGED hold
      BY <3>1
    <3>2. CASE \E S \in SUBSET Free(req[r].got) : SetHolds(S, HolderOfRequest(r))
      <4>1. PICK S \in SUBSET Free(req[r].got) : SetHolds(S, HolderOfRequest(r))
        BY <3>2
      <4>2. \A t \in S : hold[t] = NoHolder
        BY DEF Free
      <4> QED BY <4>1, <4>2, SetHoldsIsNoTheft
    <3> QED BY <2>2, <3>1, <3>2 DEF TakeByQuantity
  <2>3. CASE Release(r)
    BY <2>3 DEF Release, ReleaseScript
  <2>4. CASE UNCHANGED hold
    BY <2>4
  <2> QED
    BY <1>1, <2>1, <2>2, <2>3, <2>4
    DEF HoldStep, HoldCallStep, BeginHold, BeginHoldByQuantity, AddToOwnerSet,
        RefreshOwnerSet, CountOwnerSet, Untrack, CrashRequest
<1>2. CASE HoldsNext
  <2>1. hold \in [Seats -> Holders \cup {NoHolder}]
    BY DEF SaleInv, CheckoutTypeOK, HoldsTypeOK
  <2> QED BY <1>1, <1>2, <2>1 DEF HoldsNext, HoldLapses, OwnerSetLapses
<1>3. ASSUME NEW o \in Orders, SaleStep(o) \/ PaymentStep(o)
      PROVE  hold'[s] \in {hold[s], NoHolder}
  <2>1. CASE DropOwnHolds(o)
    BY <2>1, SetHoldsIsNoTheft DEF DropOwnHolds
  <2>2. CASE UNCHANGED hold
    BY <2>2
  <2> QED
    BY <1>3, <2>1, <2>2
    DEF SaleStep, CommitStepOf, BeginCommit, CheckHolds, CheckEvent, CommitTx,
        ReadOwnHolds, UntrackOwnHolds, CrashCommit, Lapse, Sweep, PaymentStep,
        holdVars
<1>4. CASE SetStatus
  BY <1>4 DEF SetStatus, holdVars
<1> QED BY <1>2, <1>3, <1>4 DEF CheckoutNext, CheckoutStep

\* A hold never passes from one holder to another without ending in between.
THEOREM HoldsStayWithTheirHolder == CheckoutSpec => HoldsAreNotStolen
<1>1. SaleInv /\ [CheckoutNext]_allCheckoutVars =>
        [\A s \in Seats :
           hold[s] # NoHolder => hold'[s] \in {hold[s], NoHolder}]_hold
  BY NextIsNoTheft DEF allCheckoutVars, holdVars
<1> QED BY <1>1, SaleInvariant, PTL DEF CheckoutSpec, HoldsAreNotStolen

-----------------------------------------------------------------------------
(* Refinement.                                                             *)

\* A step that moves one order moves its stage and no other.
LEMMA StageStep ==
  ASSUME SaleInv, NEW o \in Orders, NEW status,
         order' = [order EXCEPT ![o] = status]
  PROVE  Stage' = [Stage EXCEPT ![o] = StageOf(status)]
BY DEF SaleInv, CheckoutTypeOK, Stage

\* The transaction of the checkout reserves the seats of the abstract sale, or
\* changes nothing of it.
LEMMA CommitTxIsReserve ==
  ASSUME SaleInv, NEW o \in Orders, CommitTx(o)
  PROVE  Sale!Reserve(o) \/ UNCHANGED Stage
<1>1. CASE UNCHANGED order
  BY <1>1 DEF Stage
<1>2. CASE NoActiveItem(SeatsOf[o]) /\ order' = [order EXCEPT ![o] = "pending"]
  <2>1. order[o] = "none" /\ Stage[o] = "open"
    BY DEF CommitTx, CommitAt, SaleInv, CommitsComeFirst, Stage, StageOf
  <2>2. Stage' = [Stage EXCEPT ![o] = "reserved"]
    BY <1>2, StageStep DEF StageOf
  <2>3. ASSUME NEW other \in Orders, Sale!Keeps(other)
        PROVE  SeatsOf[other] \cap SeatsOf[o] = {}
    <3>1. order[other] \in OrderStatus
      BY DEF SaleInv, CheckoutTypeOK
    <3>2. Live(other)
      BY <2>3, <3>1 DEF Sale!Keeps, Stage, StageOf, Live, OrderStatus
    <3> QED BY <1>2, <3>2 DEF NoActiveItem, SaleInv, OrdersAreWhole
  <2> QED BY <2>1, <2>2, <2>3 DEF Sale!Reserve
<1> QED BY <1>1, <1>2 DEF CommitTx

\* A step that ends a live order gives up its seats in the abstract sale, and
\* one that ends it again changes nothing of it.
LEMMA EndIsGiveUp ==
  ASSUME SaleInv, NEW o \in Orders, order[o] # "none",
         NEW status \in {"expired", "cancelled", "refunded"},
         order' = [order EXCEPT ![o] = status]
  PROVE  Sale!GiveUp(o) \/ UNCHANGED Stage
<1>1. Stage' = [Stage EXCEPT ![o] = "over"]
  BY StageStep DEF StageOf
<1>2. order[o] \in OrderStatus
  BY DEF SaleInv, CheckoutTypeOK
<1>3. CASE Live(o)
  <2>1. Sale!Keeps(o)
    BY <1>3 DEF Live, Sale!Keeps, Stage, StageOf
  <2> QED BY <1>1, <2>1 DEF Sale!GiveUp
<1>4. CASE ~Live(o)
  <2>1. Stage[o] = "over"
    BY <1>2, <1>4 DEF Live, OrderStatus, Stage, StageOf
  <2>2. Stage = [Stage EXCEPT ![o] = "over"]
    BY <2>1 DEF Stage
  <2> QED BY <1>1, <2>2
<1> QED BY <1>3, <1>4

\* Every step of the specification is a step of the abstract sale or leaves
\* it alone.
LEMMA NextIsSale ==
  ASSUME SaleInv, [CheckoutNext]_allCheckoutVars
  PROVE  [Sale!SaleNext]_Stage
<1>1. ASSUME UNCHANGED order PROVE UNCHANGED Stage
  BY <1>1 DEF Stage
<1>2. ASSUME NEW o \in Orders, CommitStepOf(o)
      PROVE  [Sale!SaleNext]_Stage
  <2>1. CASE CommitTx(o)
    BY <2>1, CommitTxIsReserve DEF Sale!SaleNext
  <2>2. CASE UNCHANGED order
    BY <2>2, <1>1
  <2> QED
    BY <1>2, <2>1, <2>2
    DEF CommitStepOf, BeginCommit, CheckHolds, CheckEvent, ReadOwnHolds,
        DropOwnHolds, UntrackOwnHolds, CrashCommit, saleVars
<1>3. ASSUME NEW o \in Orders, Lapse(o) \/ Sweep(o)
      PROVE  [Sale!SaleNext]_Stage
  BY <1>1, <1>3, EndIsGiveUp DEF Lapse, Sweep, Sale!SaleNext
<1>4. ASSUME NEW o \in Orders, PaymentStep(o)
      PROVE  [Sale!SaleNext]_Stage
  <2>1. CASE ClaimPaid(o)
    <3>1. Stage' = [Stage EXCEPT ![o] = "sold"]
      BY <2>1, StageStep DEF ClaimPaid, StageOf
    <3>2. Stage[o] = "reserved"
      BY <2>1 DEF ClaimPaid, Stage, StageOf
    <3> QED BY <3>1, <3>2 DEF Sale!Confirm, Sale!SaleNext
  <2>2. CASE ClaimRefunded(o) \/ CancelOrder(o)
    BY <2>2, EndIsGiveUp DEF ClaimRefunded, CancelOrder, Sale!SaleNext
  <2>3. CASE ReturnSeats(o)
    BY <2>3, <1>1 DEF ReturnSeats
  <2> QED BY <1>4, <2>1, <2>2, <2>3 DEF PaymentStep
<1>5. CASE UNCHANGED order
  BY <1>1, <1>5
<1> QED
  BY <1>2, <1>3, <1>4, <1>5
  DEF CheckoutNext, CheckoutStep, SaleStep, SetStatus, saleVars,
      allCheckoutVars, checkoutVars

\* The checkout implements the abstract sale, for any seats, orders, holders
\* and calls on holds.
THEOREM CheckoutImplementsSale == CheckoutSpec => ImplementsSale
<1>1. CheckoutInit => Sale!SaleInit
  BY DEF CheckoutInit, Sale!SaleInit, Stage, StageOf
<1>2. SaleInv /\ [CheckoutNext]_allCheckoutVars => [Sale!SaleNext]_Stage
  BY NextIsSale
<1> QED
  BY <1>1, <1>2, SaleInvariant, PTL DEF CheckoutSpec, ImplementsSale, Sale!SaleSpec

=============================================================================
