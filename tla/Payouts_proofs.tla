---------------------------- MODULE Payouts_proofs ----------------------------
(***************************************************************************)
(* What TLAPS proves of Payouts, for any withdrawals, events, orders and   *)
(* calls: that withdrawals implement their promise, that the cash of an    *)
(* event is transferred once, and that the books stay balanced.            *)
(***************************************************************************)
EXTENDS Payouts, Ledger_proofs

CallStep == {"idle", "post", "create", "claim", "count", "sum", "revert",
             "done", "refused", "dead"}

CallsTypeOK ==
  /\ call \in [Calls -> [at : CallStep, net : Nat, was : EventStatus]]
  /\ faults \in 0 .. MaxFaults
  /\ order \in [Orders -> {"open", "expired", "paid", "refunded"}]

RowsTypeOK ==
  /\ withdrawal \in [Withdrawals -> WithdrawalStatus]
  /\ event \in [Events -> [status : EventStatus, ended : BOOLEAN,
                           transferred : BOOLEAN]]

\* The steps that one operation only takes.
KeepsToItsOp(c) ==
  /\ At(c, "create") => IsOp(c, "request")
  /\ At(c, "post") => ~IsOp(c, "approve")
  /\ call[c].at \in {"count", "sum", "revert"} => IsOp(c, "finalize")

\* A request comes first: until it has posted nothing is set aside, and until it
\* is over there is no row to decide on.
RequestsComeFirst ==
  \A c \in Calls : IsOp(c, "request") =>
    /\ call[c].at \in {"idle", "post"} =>
         withdrawal[On(c)] = "none" /\ ~Posted("withdrawal_request", On(c))
    /\ At(c, "create") =>
         withdrawal[On(c)] = "none" /\ Posted("withdrawal_request", On(c))

\* The row says which way the money goes, and a call that is about to post has
\* claimed the row for its decision.
RowsDecide ==
  /\ \A w \in Withdrawals :
       /\ withdrawal[w] # "none" => Posted("withdrawal_request", w)
       /\ Posted("withdrawal_paid", w) => withdrawal[w] = "paid"
       /\ Posted("withdrawal_refund", w) => withdrawal[w] \in {"rejected", "cancelled"}
  /\ \A c \in Calls :
       CallOf[c].op \in Decisions /\ At(c, "post") => withdrawal[On(c)] = Decided(c)

\* At most one call has the cash of an event in its hands, and it has not been
\* transferred yet.
Closes(c) == IsOp(c, "finalize") /\ call[c].at \in {"post", "revert"}

ClosingIsClaimed ==
  /\ \A c \in Calls : Closes(c) =>
       event[On(c)].transferred /\ ~Posted("event_cash_transfer", On(c))
  /\ \A c, d \in Calls : Closes(c) /\ Closes(d) /\ On(c) = On(d) => c = d
  /\ \A e \in Events : Posted("event_cash_transfer", e) => event[e].transferred

CallsInv == \A c \in Calls : KeepsToItsOp(c)

\* The inductive invariant.
PayoutsInv ==
  /\ CallsTypeOK /\ RowsTypeOK /\ LedgerInv
  /\ CallsInv
  /\ RequestsComeFirst
  /\ RowsDecide
  /\ ClosingIsClaimed
  /\ MarkedEventsAreTransferred

CallAction(c) ==
  \/ RequestRead(c) \/ DecideRead(c) \/ FinalizeRead(c)
  \/ CallGoesOn(c) \/ FinalizeFails(c) \/ CallDies(c)

EventAction(e) == EventEnds(e) \/ \E s \in EventStatus : SetStatus(e, s)

OrderAction(o) ==
  OrderClaim(o, "open", "paid") \/ OrderClaim(o, "paid", "refunded") \/ OrderPost(o)

-----------------------------------------------------------------------------
(* Amounts and entries.                                                    *)

\* What the constants say of a call.
LEMMA CallFacts ==
  ASSUME NEW c \in Calls
  PROVE  /\ CallOf[c].op \in {"request", "finalize"} \cup Decisions
         /\ IsOp(c, "finalize") => On(c) \in Events /\ On(c) \in References
         /\ ~IsOp(c, "finalize") => On(c) \in Withdrawals /\ On(c) \in References
BY PayoutsAssumption DEF CallType, IsOp, On, Decisions

\* Fee and net of a withdrawal are whole cents that make up its amount.
LEMMA NetAndFee ==
  ASSUME NEW w \in Withdrawals
  PROVE  /\ Fee(w) \in Int /\ Net(w) \in Int /\ AmountOf[w] \in Int
         /\ AmountOf[w] = Net(w) + Fee(w) /\ OwnerOf[w] \in Users
<1>1. OwnerOf[w] \in Users /\ AmountOf[w] \in Nat /\ FeePercent[OwnerOf[w]] \in Int
  BY PayoutsAssumption
<1>2. AmountOf[w] * FeePercent[OwnerOf[w]] \in Int
  BY <1>1
<1>3. Fee(w) \in Int
  BY <1>2, RoundHalfEvenType DEF Fee
<1> QED BY <1>1, <1>3 DEF Net

\* A transfer between two accounts.
LEMMA MoveIsEntryList ==
  ASSUME NEW from \in Accounts, NEW to \in Accounts, NEW amount \in Int
  PROVE  IsEntryList(Move(from, to, amount))
BY DEF Move, IsEntryList

\* The reserve of a withdrawal, and its return (request, refund).
LEMMA ReserveIsEntryList ==
  ASSUME NEW w \in Withdrawals
  PROVE  /\ IsEntryList(ReserveEntries(w))
         /\ IsEntryList([a \in DOMAIN ReserveEntries(w) |-> -ReserveEntries(w)[a]])
<1>1. Wallet(OwnerOf[w]) \in Accounts /\ System("payout_pending") \in Accounts
      /\ System("platform_revenue") \in Accounts
  BY NetAndFee, AccountNames DEF SystemTypes
<1>2. \A a \in DOMAIN ReserveEntries(w) : ReserveEntries(w)[a] \in Int
  BY NetAndFee DEF ReserveEntries
<1>3. DOMAIN ReserveEntries(w) \subseteq Accounts
  BY <1>1 DEF ReserveEntries
<1> QED BY <1>2, <1>3 DEF IsEntryList

-----------------------------------------------------------------------------
(* Progress of the calls.                                                  *)

\* Call c is at `step` now, with what it carried; the others are where they
\* were.
Moved(c, step) ==
  /\ call'[c].at = step /\ call'[c].net = call[c].net /\ call'[c].was = call[c].was
  /\ \A d \in Calls \ {c} : call'[d] = call[d]

\* A call goes on to its next await, or ends.
LEMMA CallGoes ==
  ASSUME CallsTypeOK, NEW c \in Calls, NEW step \in CallStep, Goes(c, step)
  PROVE  Moved(c, step) /\ call' \in [Calls -> [at : CallStep, net : Nat, was : EventStatus]]
BY DEF CallsTypeOK, Goes, Moved

\* The net that a call carries is what the paid orders of the event add up to.
LEMMA SumOfPaidOrders ==
  ASSUME NEW e
  PROVE  SumFunctionOnSet(NetOf, PaidOrders(e)) \in Nat
<1>1. PaidOrders(e) \in SUBSET Orders
  BY DEF PaidOrders
<1>2. IsFiniteSet(PaidOrders(e))
  BY <1>1, FS_Subset, PayoutsAssumption
<1>3. \A o \in PaidOrders(e) : NetOf[o] \in Nat
  BY <1>1, PayoutsAssumption
<1> QED BY <1>2, <1>3, SumIsNatural DEF SumOn

\* Every step of a call keeps the types of calls and orders.
LEMMA CallsTypeStep ==
  ASSUME PayoutsInv, NEW c \in Calls, CallAction(c)
  PROVE  CallsTypeOK'
<1>1. CallsTypeOK /\ event \in [Events -> [status : EventStatus, ended : BOOLEAN,
                                           transferred : BOOLEAN]]
  BY DEF PayoutsInv, RowsTypeOK
<1>2. ASSUME NEW step \in CallStep, Goes(c, step), UNCHANGED <<order, faults>>
      PROVE  CallsTypeOK'
  BY <1>1, <1>2, CallGoes DEF CallsTypeOK
<1>3. {"idle", "post", "create", "claim", "count", "sum", "revert",
       "done", "refused", "dead"} \subseteq CallStep
  BY DEF CallStep
<1>4. CASE FinalizeRead(c)
  <2>1. event[On(c)].status \in EventStatus
    BY <1>1, <1>4, CallFacts DEF FinalizeRead
  <2> QED BY <1>1, <1>3, <1>4, <2>1 DEF FinalizeRead, CallsTypeOK
<1>5. CASE FinalizeSum(c)
  BY <1>1, <1>3, <1>5, SumOfPaidOrders DEF FinalizeSum, CallsTypeOK
<1>6. CASE FinalizeFails(c) \/ CallDies(c)
  <2>1. faults' \in 0 .. MaxFaults /\ order' = order
    BY <1>1, <1>6, PayoutsAssumption DEF FinalizeFails, CallDies, CallsTypeOK
  <2>2. \E step \in CallStep : Goes(c, step)
    BY <1>3, <1>6 DEF FinalizeFails, CallDies
  <2> QED BY <1>1, <2>1, <2>2, CallGoes DEF CallsTypeOK
<1>7. CASE RequestRead(c) \/ RequestPost(c) \/ RequestCreate(c) \/ DecideRead(c)
  BY <1>2, <1>3, <1>7 DEF RequestRead, RequestPost, RequestCreate, DecideRead
<1>8. CASE Decide(c) \/ PayPost(c) \/ ReturnPost(c)
  BY <1>2, <1>3, <1>8 DEF Decide, PayPost, ReturnPost
<1>9. CASE FinalizeCount(c) \/ FinalizeClaim(c) \/ FinalizePost(c) \/ FinalizeRevert(c)
  BY <1>2, <1>3, <1>9
  DEF FinalizeCount, FinalizeClaim, FinalizePost, FinalizeRevert
<1> QED
  BY <1>4, <1>5, <1>6, <1>7, <1>8, <1>9 DEF CallAction, CallGoesOn

-----------------------------------------------------------------------------
(* Steps that move no money and write no row.                              *)

\* A call that moved to `step` while rows and ledger stayed as they were: a read,
\* a refusal, or the end of a call that died.
QuietStep(c, step) ==
  /\ UNCHANGED <<withdrawal, event, ledgerVars>>
  /\ call'[c].at = step /\ \A d \in Calls \ {c} : call'[d] = call[d]
  /\ step \notin {"idle", "create", "done"}
  /\ step = "post" => IsOp(c, "request") /\ At(c, "idle")
  /\ step \in {"count", "sum", "revert"} => IsOp(c, "finalize")
  /\ step = "revert" => At(c, "post")
  /\ IsOp(c, "finalize") /\ At(c, "post") => step \in {"revert", "dead"}
  /\ call[c].at \notin {"done", "dead"} /\ (At(c, "revert") => step = "dead")

\* Such a step keeps the invariant.
LEMMA QuietKeepsInv ==
  ASSUME PayoutsInv, CallsTypeOK', NEW c \in Calls, NEW step, QuietStep(c, step)
  PROVE  PayoutsInv'
<1> USE DEF QuietStep, At, IsOp, On
<1>1. RowsTypeOK' /\ LedgerInv' /\ \A k, r : Posted(k, r)' <=> Posted(k, r)
  BY LedgerUntouched DEF PayoutsInv, RowsTypeOK
<1>2. CallsInv'
  BY DEF PayoutsInv, CallsInv, KeepsToItsOp
<1>3. RequestsComeFirst'
  BY <1>1 DEF PayoutsInv, RequestsComeFirst
<1>4. RowsDecide'
  BY <1>1, CallFacts DEF PayoutsInv, RowsDecide, Decided, Decisions
<1>5. ClosingIsClaimed'
  BY <1>1 DEF PayoutsInv, ClosingIsClaimed, Closes
<1>6. MarkedEventsAreTransferred'
  <2> SUFFICES ASSUME NEW e \in Events, event[e].transferred
               PROVE  \E d \in Calls : IsOp(d, "finalize") /\ On(d) = e /\ AnswersFor(d)'
    BY DEF MarkedEventsAreTransferred
  <2>1. PICK d \in Calls : IsOp(d, "finalize") /\ On(d) = e /\ AnswersFor(d)
    BY DEF PayoutsInv, MarkedEventsAreTransferred
  <2>2. AnswersFor(d)'
    BY <1>1, <2>1 DEF AnswersFor
  <2> QED BY <2>1, <2>2
<1> QED
  BY <1>1, <1>2, <1>3, <1>4, <1>5, <1>6 DEF PayoutsInv

-----------------------------------------------------------------------------
(* Steps that move money.                                                  *)

\* The journal has the posting, new or repeated, and nothing else is new in it.
Posts(kind, ref) ==
  \A k, r : Posted(k, r)' <=> Posted(k, r) \/ (k = kind /\ r = ref)

\* Postings of withdrawals, events and orders by their kinds.
LEMMA KindsOfPayouts ==
  {"withdrawal_request", "withdrawal_paid", "withdrawal_refund",
   "event_cash_transfer", "order_payment", "event_refund"} \subseteq Kinds
BY DEF Kinds

\* The reserve of a withdrawal keeps the books balanced (request).
LEMMA RequestPostsReserve ==
  ASSUME PayoutsInv, NEW c \in Calls, IsOp(c, "request"),
         Post("withdrawal_request", On(c), ReserveEntries(On(c)))
  PROVE  LedgerInv' /\ Posts("withdrawal_request", On(c))
<1>1. On(c) \in Withdrawals /\ On(c) \in References
  BY CallFacts DEF IsOp
<1>2. IsEntryList(ReserveEntries(On(c)))
  BY <1>1, ReserveIsEntryList
<1> QED BY <1>1, <1>2, PostKeeps, KindsOfPayouts DEF PayoutsInv, Posts

\* So does the payment of a withdrawal (pay).
LEMMA PayPostsPayment ==
  ASSUME PayoutsInv, NEW c \in Calls, PayPost(c)
  PROVE  LedgerInv' /\ Posts("withdrawal_paid", On(c))
<1> DEFINE entries == Move(System("payout_pending"), System("payout_settled"), Net(On(c)))
<1>1. On(c) \in Withdrawals /\ On(c) \in References
  BY CallFacts DEF PayPost, IsOp
<1>2. IsEntryList(entries)
  BY <1>1, NetAndFee, AccountNames, MoveIsEntryList DEF SystemTypes
<1>3. PostOnce("withdrawal_paid", On(c), entries)
  BY DEF PayPost
<1> HIDE DEF entries
<1> QED BY <1>1, <1>2, <1>3, PostOnceKeeps, KindsOfPayouts DEF PayoutsInv, Posts

\* And its return (reject, cancel: refund).
LEMMA ReturnPostsReturn ==
  ASSUME PayoutsInv, NEW c \in Calls, ReturnPost(c)
  PROVE  LedgerInv' /\ Posts("withdrawal_refund", On(c))
<1> DEFINE entries == [a \in DOMAIN ReserveEntries(On(c)) |-> -ReserveEntries(On(c))[a]]
<1>1. On(c) \in Withdrawals /\ On(c) \in References
  BY CallFacts DEF ReturnPost, IsOp
<1>2. IsEntryList(entries)
  BY <1>1, ReserveIsEntryList
<1>3. PostOnce("withdrawal_refund", On(c), entries)
  BY DEF ReturnPost
<1> HIDE DEF entries
<1> QED BY <1>1, <1>2, <1>3, PostOnceKeeps, KindsOfPayouts DEF PayoutsInv, Posts

\* And the transfer of an event's cash (finalizeAndTransfer).
LEMMA FinalizePostsTransfer ==
  ASSUME PayoutsInv, NEW c \in Calls, FinalizePost(c)
  PROVE  LedgerInv' /\ Posts("event_cash_transfer", On(c))
<1> DEFINE p == PromoterOf[On(c)]
           entries == Move(Payable(p), Wallet(p), call[c].net)
<1>1. On(c) \in Events /\ On(c) \in References
  BY CallFacts DEF FinalizePost
<1>2. p \in Promoters /\ p \in Users /\ call[c].net \in Int
  BY <1>1, PayoutsAssumption DEF PayoutsInv, CallsTypeOK
<1>3. IsEntryList(entries)
  BY <1>2, AccountNames, MoveIsEntryList
<1>4. Post("event_cash_transfer", On(c), entries)
  BY DEF FinalizePost
<1> HIDE DEF entries
<1> QED BY <1>1, <1>3, <1>4, PostKeeps, KindsOfPayouts DEF PayoutsInv, Posts

\* And what orders bring in and take back meanwhile.
LEMMA OrderPostsItsShare ==
  ASSUME PayoutsInv, NEW o \in Orders, OrderPost(o)
  PROVE  /\ LedgerInv' /\ UNCHANGED payoutVars
         /\ Posts("order_payment", o) \/ Posts("event_refund", o)
<1> DEFINE promoter == Payable(PromoterOf[EventOf[o]])
           paid == Move(System("gateway_clearing"), promoter, NetOf[o])
           refunded == Move(promoter, Wallet(BuyerOf[o]), NetOf[o])
<1>1. /\ promoter \in Accounts /\ Wallet(BuyerOf[o]) \in Accounts
      /\ System("gateway_clearing") \in Accounts
      /\ NetOf[o] \in Int /\ o \in References
  BY PayoutsAssumption, AccountNames DEF SystemTypes
<1>2. IsEntryList(paid) /\ IsEntryList(refunded)
  BY <1>1, MoveIsEntryList
<1>3. Post("order_payment", o, paid) \/ Post("event_refund", o, refunded)
  BY DEF OrderPost
<1>4. UNCHANGED payoutVars
  BY DEF OrderPost
<1> HIDE DEF paid, refunded
<1> QED
  BY <1>1, <1>2, <1>3, <1>4, PostKeeps, KindsOfPayouts DEF PayoutsInv, Posts

\* A posting of a withdrawal, made by the call whose turn it is, keeps the
\* invariant.
LEMMA WithdrawalPostingKeepsInv ==
  ASSUME PayoutsInv, CallsTypeOK', LedgerInv', UNCHANGED <<withdrawal, event>>,
         NEW c \in Calls, NEW step, Moved(c, step), NEW kind, Posts(kind, On(c)),
         \/ /\ kind = "withdrawal_request" /\ IsOp(c, "request")
            /\ At(c, "post") /\ step = "create"
         \/ /\ kind = "withdrawal_paid" /\ IsOp(c, "pay")
            /\ At(c, "post") /\ step = "done"
         \/ /\ kind = "withdrawal_refund" /\ (IsOp(c, "reject") \/ IsOp(c, "cancel"))
            /\ At(c, "post") /\ step = "done"
  PROVE  PayoutsInv'
<1> USE DEF Moved, At, IsOp, On, Posts
<1>1. RowsTypeOK'
  BY DEF PayoutsInv, RowsTypeOK
<1>2. CallsInv'
  BY DEF PayoutsInv, CallsInv, KeepsToItsOp
<1>3. RequestsComeFirst'
  BY PayoutsAssumption DEF PayoutsInv, RequestsComeFirst
<1>4. RowsDecide'
  BY CallFacts DEF PayoutsInv, RowsDecide, Decided, Decisions
<1>5. ClosingIsClaimed'
  BY DEF PayoutsInv, ClosingIsClaimed, Closes
<1>6. MarkedEventsAreTransferred'
  BY DEF PayoutsInv, MarkedEventsAreTransferred, AnswersFor
<1> QED
  BY <1>1, <1>2, <1>3, <1>4, <1>5, <1>6 DEF PayoutsInv

\* The transfer of an event's cash, by the call that claimed it, keeps the
\* invariant.
LEMMA TransferKeepsInv ==
  ASSUME PayoutsInv, NEW c \in Calls, FinalizePost(c)
  PROVE  PayoutsInv'
<1> USE DEF Moved, At, IsOp, On, Posts
<1>1. LedgerInv' /\ Posts("event_cash_transfer", On(c))
  BY FinalizePostsTransfer
<1>2. CallsTypeOK' /\ Moved(c, "done")
  <2>1. Goes(c, "done") /\ "done" \in CallStep
    BY DEF FinalizePost, CallStep
  <2> QED BY <2>1, CallGoes, CallsTypeStep DEF PayoutsInv, CallAction, CallGoesOn
<1>3. UNCHANGED <<withdrawal, event>> /\ Closes(c) /\ On(c) \in Events
  BY CallFacts DEF FinalizePost, Closes
<1>4. RowsTypeOK'
  BY <1>3 DEF PayoutsInv, RowsTypeOK
<1>5. CallsInv' /\ RequestsComeFirst'
  BY <1>1, <1>2, <1>3 DEF PayoutsInv, CallsInv, KeepsToItsOp, RequestsComeFirst
<1>6. RowsDecide'
  BY <1>1, <1>2, <1>3 DEF PayoutsInv, RowsDecide, Decided, Decisions
<1>7. ClosingIsClaimed'
  BY <1>1, <1>2, <1>3 DEF PayoutsInv, ClosingIsClaimed, Closes
<1>8. MarkedEventsAreTransferred'
  <2> SUFFICES ASSUME NEW e \in Events, event[e].transferred
               PROVE  \E d \in Calls : IsOp(d, "finalize") /\ On(d) = e /\ AnswersFor(d)'
    BY <1>3 DEF MarkedEventsAreTransferred
  <2>1. PICK d \in Calls : IsOp(d, "finalize") /\ On(d) = e /\ AnswersFor(d)
    BY DEF PayoutsInv, MarkedEventsAreTransferred
  <2>2. AnswersFor(d)'
    BY <1>1, <1>2, <2>1 DEF AnswersFor
  <2> QED BY <2>1, <2>2
<1> QED
  BY <1>1, <1>2, <1>4, <1>5, <1>6, <1>7, <1>8 DEF PayoutsInv

-----------------------------------------------------------------------------
(* Steps that write a row.                                                 *)

\* The row of a withdrawal comes after its reserve, or changes to a decision
\* that its call has claimed (request; approve, pay, reject, cancel).
LEMMA RowKeepsInv ==
  ASSUME PayoutsInv, NEW c \in Calls,
         RequestCreate(c) \/ (Decide(c) /\ withdrawal[On(c)] \in Decidable(c))
  PROVE  PayoutsInv'
<1> DEFINE w == On(c)
<1>1. CallsTypeOK' /\ UNCHANGED <<event, ledgerVars>>
  BY CallsTypeStep DEF CallAction, CallGoesOn, RequestCreate, Decide
<1>2. LedgerInv' /\ \A k, r : Posted(k, r)' <=> Posted(k, r)
  BY <1>1, LedgerUntouched DEF PayoutsInv
<1>3. w \in Withdrawals /\ ~IsOp(c, "finalize")
  BY CallFacts DEF RequestCreate, Decide, IsOp, Decisions
<1>4. \E step \in {"post", "done"} :
        /\ Goes(c, step) /\ step \in CallStep
        /\ step = "post" => CallOf[c].op \in Decisions \ {"approve"}
  BY DEF RequestCreate, Decide, CallStep, IsOp
<1>5. PICK step \in {"post", "done"} :
        /\ Moved(c, step)
        /\ step = "post" => CallOf[c].op \in Decisions \ {"approve"}
  BY <1>4, CallGoes DEF PayoutsInv
<1>6. PICK status \in WithdrawalStatus :
        /\ withdrawal' = [withdrawal EXCEPT ![w] = status]
        /\ \/ IsOp(c, "request") /\ At(c, "create") /\ status = "pending"
           \/ /\ CallOf[c].op \in Decisions /\ At(c, "claim")
              /\ status = Decided(c) /\ withdrawal[w] \in {"pending", "approved"}
  BY CallFacts
  DEF RequestCreate, Decide, Decidable, Decided, WithdrawalStatus, IsOp, Decisions
<1>7. RowsTypeOK'
  BY <1>1, <1>6 DEF PayoutsInv, RowsTypeOK
<1>8. \A v \in Withdrawals : withdrawal'[v] = IF v = w THEN status ELSE withdrawal[v]
  BY <1>3, <1>6 DEF PayoutsInv, RowsTypeOK
<1> USE DEF Moved, At, IsOp, On
<1>9. CallsInv'
  BY <1>5 DEF PayoutsInv, CallsInv, KeepsToItsOp
<1>10. RequestsComeFirst'
  <2> SUFFICES ASSUME NEW d \in Calls, IsOp(d, "request")
               PROVE  /\ call'[d].at \in {"idle", "post"} =>
                           /\ withdrawal'[On(d)] = "none"
                           /\ ~Posted("withdrawal_request", On(d))
                      /\ call'[d].at = "create" =>
                           /\ withdrawal'[On(d)] = "none"
                           /\ Posted("withdrawal_request", On(d))
    BY <1>2 DEF RequestsComeFirst
  <2>1. CASE On(d) # w
    BY <1>5, <1>8, <2>1, CallFacts DEF PayoutsInv, RequestsComeFirst
  <2>2. CASE On(d) = w
    <3>1. withdrawal[w] # "none" \/ d = c
      BY <1>6, <2>2, PayoutsAssumption
    <3> QED
      BY <1>5, <1>6, <2>2, <3>1 DEF PayoutsInv, RequestsComeFirst, Decisions
  <2> QED BY <2>1, <2>2
<1>11. RowsDecide'
  <2>1. ASSUME NEW v \in Withdrawals
        PROVE  /\ withdrawal'[v] # "none" => Posted("withdrawal_request", v)
               /\ Posted("withdrawal_paid", v) => withdrawal'[v] = "paid"
               /\ Posted("withdrawal_refund", v) =>
                    withdrawal'[v] \in {"rejected", "cancelled"}
    BY <1>6, <1>8 DEF PayoutsInv, RowsDecide, RequestsComeFirst
  <2>2. ASSUME NEW d \in Calls, CallOf[d].op \in Decisions, call'[d].at = "post"
        PROVE  withdrawal'[On(d)] = Decided(d)
    <3>1. CASE d = c
      BY <1>3, <1>5, <1>6, <1>8, <2>2, <3>1 DEF Decisions
    <3>2. CASE d # c
      <4>1. withdrawal[On(d)] = Decided(d) /\ call[d].at = "post"
        BY <1>5, <2>2, <3>2 DEF PayoutsInv, RowsDecide
      <4>2. On(d) # w
        <5>1. Decided(d) \notin {"none", "pending", "approved"}
          BY <2>2, <4>1 DEF Decided, Decisions, PayoutsInv, CallsInv, KeepsToItsOp
        <5> QED BY <1>6, <4>1, <5>1 DEF PayoutsInv, RequestsComeFirst
      <4> QED BY <1>8, <4>1, <4>2, <2>2, CallFacts DEF Decisions
    <3> QED BY <3>1, <3>2
  <2> QED BY <1>2, <2>1, <2>2 DEF RowsDecide, Decided
<1>12. ClosingIsClaimed'
  BY <1>1, <1>2, <1>3, <1>5 DEF PayoutsInv, ClosingIsClaimed, Closes
<1>13. MarkedEventsAreTransferred'
  BY <1>1, <1>2, <1>3, <1>5 DEF PayoutsInv, MarkedEventsAreTransferred, AnswersFor
<1> QED
  BY <1>1, <1>2, <1>7, <1>9, <1>10, <1>11, <1>12, <1>13 DEF PayoutsInv

\* The mark of an event is set by the one call that finds it unset, and taken
\* back by that call (finalizeAndTransfer).
LEMMA MarkKeepsInv ==
  ASSUME PayoutsInv, NEW c \in Calls,
         FinalizeRevert(c) \/ (FinalizeClaim(c) /\ ~event[On(c)].transferred)
  PROVE  PayoutsInv'
<1> DEFINE e == On(c)
<1>1. CallsTypeOK' /\ UNCHANGED <<withdrawal, ledgerVars>>
  BY CallsTypeStep DEF CallAction, CallGoesOn, FinalizeClaim, FinalizeRevert
<1>2. LedgerInv' /\ \A k, r : Posted(k, r)' <=> Posted(k, r)
  BY <1>1, LedgerUntouched DEF PayoutsInv
<1>3. IsOp(c, "finalize") /\ e \in Events
  BY CallFacts DEF PayoutsInv, CallsInv, KeepsToItsOp, FinalizeClaim, FinalizeRevert, At
<1>4. PICK step \in {"post", "done", "refused"} :
        /\ Moved(c, step)
        /\ \/ /\ step \in {"post", "done"} /\ event'[e].transferred
              /\ ~event[e].transferred /\ (step = "done" => call[c].net = 0)
           \/ /\ At(c, "revert") /\ step = "refused" /\ ~event'[e].transferred
        /\ \A f \in Events \ {e} : event'[f] = event[f]
        /\ RowsTypeOK'
  <2>1. /\ event \in [Events -> [status : EventStatus, ended : BOOLEAN,
                                 transferred : BOOLEAN]]
        /\ withdrawal \in [Withdrawals -> WithdrawalStatus]
        /\ call[c].net \in Nat /\ call[c].was \in EventStatus
        /\ "finished" \in EventStatus
    BY DEF PayoutsInv, RowsTypeOK, CallsTypeOK, EventStatus
  <2>2. \A step \in {"post", "done", "refused"} : Goes(c, step) => Moved(c, step)
    BY CallGoes DEF PayoutsInv, CallStep
  <2>3. CASE FinalizeRevert(c)
    <3>1. Moved(c, "refused") /\ At(c, "revert")
      BY <2>2, <2>3 DEF FinalizeRevert
    <3>2. event' = [event EXCEPT ![e].transferred = FALSE, ![e].status = call[c].was]
      BY <2>3 DEF FinalizeRevert
    <3>3. ~event'[e].transferred /\ \A f \in Events \ {e} : event'[f] = event[f]
      BY <1>3, <2>1, <3>2
    <3>4. RowsTypeOK'
      BY <1>1, <1>3, <2>1, <3>2 DEF RowsTypeOK
    <3> QED BY <3>1, <3>3, <3>4
  <2>4. CASE FinalizeClaim(c) /\ ~event[e].transferred
    <3>1. event' = [event EXCEPT ![e].transferred = TRUE, ![e].status = "finished"]
      BY <2>4 DEF FinalizeClaim
    <3>2. event'[e].transferred /\ \A f \in Events \ {e} : event'[f] = event[f]
      BY <1>3, <2>1, <3>1
    <3>3. RowsTypeOK'
      BY <1>1, <1>3, <2>1, <3>1 DEF RowsTypeOK
    <3>4. PICK step \in {"post", "done"} :
            Goes(c, step) /\ (step = "done" => ~(call[c].net > 0))
      BY <2>4 DEF FinalizeClaim
    <3>5. Moved(c, step) /\ (step = "done" => call[c].net = 0)
      BY <2>1, <2>2, <3>4
    <3> QED BY <2>4, <3>2, <3>3, <3>5
  <2> QED BY <2>3, <2>4
<1> USE DEF Moved, At, IsOp, On
<1>5. CallsInv'
  BY <1>3, <1>4 DEF PayoutsInv, CallsInv, KeepsToItsOp
<1>6. RequestsComeFirst'
  BY <1>1, <1>2, <1>3, <1>4 DEF PayoutsInv, RequestsComeFirst
<1>7. RowsDecide'
  BY <1>1, <1>2, <1>3, <1>4 DEF PayoutsInv, RowsDecide, Decided, Decisions
<1>8. ClosingIsClaimed'
  <2>1. ASSUME NEW d \in Calls, Closes(d)'
        PROVE  /\ event'[On(d)].transferred /\ ~Posted("event_cash_transfer", On(d))
               /\ d # c => Closes(d) /\ On(d) # e
    <3>1. CASE d = c
      BY <1>3, <1>4, <2>1, <3>1 DEF PayoutsInv, ClosingIsClaimed, Closes
    <3>2. CASE d # c
      <4>1. Closes(d) /\ On(d) \in Events
        BY <1>4, <2>1, <3>2, CallFacts DEF Closes
      <4>2. On(d) # e
        BY <1>3, <1>4, <3>2, <4>1 DEF PayoutsInv, ClosingIsClaimed, Closes
      <4> QED BY <1>4, <3>2, <4>1, <4>2 DEF PayoutsInv, ClosingIsClaimed
    <3> QED BY <3>1, <3>2
  <2>2. ASSUME NEW d \in Calls, NEW f \in Calls, Closes(d)', Closes(f)', On(d) = On(f)
        PROVE  d = f
    BY <2>1, <2>2 DEF PayoutsInv, ClosingIsClaimed
  <2>3. ASSUME NEW f \in Events, Posted("event_cash_transfer", f)
        PROVE  event'[f].transferred
    BY <1>3, <1>4, <2>3 DEF PayoutsInv, ClosingIsClaimed, Closes
  <2> QED BY <1>2, <2>1, <2>2, <2>3 DEF ClosingIsClaimed
<1>9. MarkedEventsAreTransferred'
  <2> SUFFICES ASSUME NEW f \in Events, event'[f].transferred
               PROVE  \E d \in Calls : IsOp(d, "finalize") /\ On(d) = f /\ AnswersFor(d)'
    BY DEF MarkedEventsAreTransferred
  <2>1. CASE f = e
    <3>1. AnswersFor(c)'
      BY <1>4, <2>1 DEF AnswersFor
    <3> QED BY <1>3, <2>1, <3>1
  <2>2. CASE f # e
    <3>1. PICK d \in Calls : IsOp(d, "finalize") /\ On(d) = f /\ AnswersFor(d)
      BY <1>4, <2>2 DEF PayoutsInv, MarkedEventsAreTransferred
    <3>2. AnswersFor(d)'
      BY <1>2, <1>4, <2>2, <3>1 DEF AnswersFor
    <3> QED BY <3>1, <3>2
  <2> QED BY <2>1, <2>2
<1> QED
  BY <1>1, <1>2, <1>4, <1>5, <1>6, <1>7, <1>8, <1>9 DEF PayoutsInv

-----------------------------------------------------------------------------
(* The inductive invariant.                                                *)

\* A step that leaves calls and rows alone, keeps the marks of the events and
\* posts nothing of the payouts keeps the invariant.
LEMMA MeanwhileKeepsInv ==
  ASSUME PayoutsInv, CallsTypeOK', RowsTypeOK', LedgerInv',
         UNCHANGED <<withdrawal, call>>,
         \A e \in Events : event'[e].transferred = event[e].transferred,
         \A k, r : Posted(k, r)' <=>
           Posted(k, r) \/ (Posted(k, r)' /\ k \in {"order_payment", "event_refund"})
  PROVE  PayoutsInv'
<1>1. \A r : \A k \in {"withdrawal_request", "withdrawal_paid", "withdrawal_refund",
                       "event_cash_transfer"} : Posted(k, r)' <=> Posted(k, r)
  OBVIOUS
<1> USE DEF At, IsOp, On
<1>2. CallsInv' /\ RequestsComeFirst'
  BY <1>1 DEF PayoutsInv, CallsInv, KeepsToItsOp, RequestsComeFirst
<1>3. RowsDecide'
  BY <1>1 DEF PayoutsInv, RowsDecide, Decided
<1>4. ClosingIsClaimed'
  BY <1>1, CallFacts DEF PayoutsInv, ClosingIsClaimed, Closes
<1>5. MarkedEventsAreTransferred'
  BY <1>1 DEF PayoutsInv, MarkedEventsAreTransferred, AnswersFor
<1> QED BY <1>2, <1>3, <1>4, <1>5 DEF PayoutsInv

\* Every step of a call keeps the invariant.
LEMMA CallKeepsInv ==
  ASSUME PayoutsInv, NEW c \in Calls, CallAction(c)
  PROVE  PayoutsInv'
<1>1. CallsTypeOK' /\ CallsTypeOK
  BY CallsTypeStep DEF PayoutsInv
<1>2. ASSUME NEW step \in CallStep, Goes(c, step)
      PROVE  Moved(c, step)
  BY <1>2, CallGoes DEF PayoutsInv
<1>3. {"post", "create", "claim", "count", "sum", "revert",
       "done", "refused", "dead"} \subseteq CallStep
  BY DEF CallStep
<1>4. CallOf[c].op \in {"request", "finalize"} \cup Decisions /\ KeepsToItsOp(c)
  BY CallFacts DEF PayoutsInv, CallsInv
<1>5. CASE RequestRead(c) \/ DecideRead(c)
  <2>1. PICK step \in {"post", "claim"} :
          /\ Goes(c, step) /\ At(c, "idle") /\ ~IsOp(c, "finalize")
          /\ step = "post" => IsOp(c, "request")
    BY <1>5 DEF RequestRead, DecideRead, IsOp, Decisions
  <2>2. UNCHANGED <<withdrawal, event, ledgerVars>>
    BY <1>5 DEF RequestRead, DecideRead
  <2>3. QuietStep(c, step)
    BY <1>2, <1>3, <2>1, <2>2 DEF QuietStep, Moved, At, IsOp
  <2> QED BY <1>1, <2>3, QuietKeepsInv
<1>6. CASE FinalizeRead(c)
  <2>1. PICK step \in {"count", "sum"} :
          call' = [call EXCEPT ![c].was = event[On(c)].status, ![c].at = step]
    BY <1>6 DEF FinalizeRead
  <2>2. call'[c].at = step /\ \A d \in Calls \ {c} : call'[d] = call[d]
    BY <1>1, <2>1 DEF CallsTypeOK
  <2>3. QuietStep(c, step)
    BY <1>6, <2>2 DEF FinalizeRead, QuietStep, At, IsOp
  <2> QED BY <1>1, <2>3, QuietKeepsInv
<1>7. CASE FinalizeCount(c)
  <2>1. PICK step \in {"sum", "refused"} : Goes(c, step)
    BY <1>7 DEF FinalizeCount
  <2>2. QuietStep(c, step)
    BY <1>2, <1>3, <1>4, <1>7, <2>1
    DEF FinalizeCount, QuietStep, Moved, KeepsToItsOp, At, IsOp
  <2> QED BY <1>1, <2>2, QuietKeepsInv
<1>8. CASE FinalizeSum(c)
  <2>1. call'[c].at = "claim" /\ \A d \in Calls \ {c} : call'[d] = call[d]
    BY <1>1, <1>8 DEF CallsTypeOK, FinalizeSum
  <2>2. QuietStep(c, "claim")
    BY <1>4, <1>8, <2>1 DEF FinalizeSum, QuietStep, KeepsToItsOp, At, IsOp
  <2> QED BY <1>1, <2>2, QuietKeepsInv
<1>9. CASE FinalizeFails(c) \/ CallDies(c)
  <2>1. CASE FinalizeFails(c)
    <3>1. QuietStep(c, "revert")
      BY <1>2, <1>3, <2>1 DEF FinalizeFails, QuietStep, Moved, At, IsOp
    <3> QED BY <1>1, <3>1, QuietKeepsInv
  <2>2. CASE CallDies(c)
    <3>1. QuietStep(c, "dead")
      BY <1>2, <1>3, <2>2 DEF CallDies, QuietStep, Moved, At, IsOp
    <3> QED BY <1>1, <3>1, QuietKeepsInv
  <2> QED BY <1>9, <2>1, <2>2
<1>10. CASE RequestPost(c)
  <2>1. CASE Post("withdrawal_request", On(c), ReserveEntries(On(c))) /\ Goes(c, "create")
    <3>1. LedgerInv' /\ Posts("withdrawal_request", On(c))
      BY <1>10, <2>1, RequestPostsReserve DEF RequestPost
    <3>2. Moved(c, "create") /\ UNCHANGED <<withdrawal, event>>
      BY <1>2, <1>3, <1>10, <2>1 DEF RequestPost
    <3> QED
      BY <1>1, <1>10, <3>1, <3>2, WithdrawalPostingKeepsInv DEF RequestPost
  <2>2. CASE Goes(c, "refused") /\ UNCHANGED ledgerVars
    <3>1. QuietStep(c, "refused")
      BY <1>2, <1>3, <1>10, <2>2 DEF RequestPost, QuietStep, Moved, At, IsOp
    <3> QED BY <1>1, <3>1, QuietKeepsInv
  <2> QED BY <1>10, <2>1, <2>2 DEF RequestPost
<1>11. CASE PayPost(c)
  <2>1. Moved(c, "done") /\ UNCHANGED <<withdrawal, event>>
    BY <1>2, <1>3, <1>11 DEF PayPost
  <2>2. LedgerInv' /\ Posts("withdrawal_paid", On(c))
    BY <1>11, PayPostsPayment
  <2> QED
    BY <1>1, <1>11, <2>1, <2>2, WithdrawalPostingKeepsInv DEF PayPost
<1>12. CASE ReturnPost(c)
  <2>1. Moved(c, "done") /\ UNCHANGED <<withdrawal, event>>
    BY <1>2, <1>3, <1>12 DEF ReturnPost
  <2>2. LedgerInv' /\ Posts("withdrawal_refund", On(c))
    BY <1>12, ReturnPostsReturn
  <2> QED
    BY <1>1, <1>12, <2>1, <2>2, WithdrawalPostingKeepsInv DEF ReturnPost
<1>13. CASE Decide(c)
  <2>1. CASE withdrawal[On(c)] \in Decidable(c)
    BY <1>13, <2>1, RowKeepsInv
  <2>2. CASE withdrawal[On(c)] \notin Decidable(c)
    <3>1. Moved(c, "refused") /\ UNCHANGED <<withdrawal, event, ledgerVars>>
      BY <1>2, <1>3, <1>13, <2>2 DEF Decide
    <3>2. QuietStep(c, "refused")
      BY <1>13, <3>1 DEF Decide, QuietStep, Moved, At, IsOp, Decisions
    <3> QED BY <1>1, <3>2, QuietKeepsInv
  <2> QED BY <2>1, <2>2
<1>14. CASE FinalizeClaim(c)
  <2>1. CASE ~event[On(c)].transferred
    BY <1>14, <2>1, MarkKeepsInv
  <2>2. CASE event[On(c)].transferred
    <3>1. Moved(c, "refused") /\ UNCHANGED <<withdrawal, event, ledgerVars>>
      BY <1>2, <1>3, <1>14, <2>2 DEF FinalizeClaim
    <3>2. QuietStep(c, "refused")
      BY <1>14, <3>1 DEF FinalizeClaim, QuietStep, Moved, At, IsOp
    <3> QED BY <1>1, <3>2, QuietKeepsInv
  <2> QED BY <2>1, <2>2
<1> QED
  BY <1>5, <1>6, <1>7, <1>8, <1>9, <1>10, <1>11, <1>12, <1>13, <1>14,
     RowKeepsInv, TransferKeepsInv, MarkKeepsInv
  DEF CallAction, CallGoesOn

\* What happens meanwhile, to events and orders, keeps it too.
LEMMA OthersKeepInv ==
  ASSUME PayoutsInv,
         \/ \E e \in Events : EventAction(e)
         \/ \E o \in Orders : OrderAction(o)
  PROVE  PayoutsInv'
<1>1. CASE \E e \in Events : EventAction(e)
  <2>1. PICK e \in Events : EventAction(e)
    BY <1>1
  <2>2. UNCHANGED <<withdrawal, order, call, faults, ledgerVars>>
    BY <2>1 DEF EventAction, EventEnds, SetStatus
  <2>3. /\ event' \in [Events -> [status : EventStatus, ended : BOOLEAN,
                                  transferred : BOOLEAN]]
        /\ \A f \in Events : event'[f].transferred = event[f].transferred
    <3>1. event \in [Events -> [status : EventStatus, ended : BOOLEAN,
                                transferred : BOOLEAN]]
      BY DEF PayoutsInv, RowsTypeOK
    <3>2. CASE EventEnds(e)
      BY <3>1, <3>2 DEF EventEnds
    <3>3. CASE \E s \in EventStatus : SetStatus(e, s)
      BY <3>1, <3>3 DEF SetStatus
    <3> QED BY <2>1, <3>2, <3>3 DEF EventAction
  <2>4. CallsTypeOK' /\ RowsTypeOK'
    BY <2>2, <2>3 DEF PayoutsInv, CallsTypeOK, RowsTypeOK
  <2>5. LedgerInv' /\ \A k, r : Posted(k, r)' <=> Posted(k, r)
    BY <2>2, LedgerUntouched DEF PayoutsInv
  <2> QED BY <2>2, <2>3, <2>4, <2>5, MeanwhileKeepsInv
<1>2. CASE \E o \in Orders : OrderAction(o)
  <2>1. PICK o \in Orders : OrderAction(o)
    BY <1>2
  <2>2. CASE OrderPost(o)
    <3>1. /\ LedgerInv' /\ UNCHANGED payoutVars
          /\ Posts("order_payment", o) \/ Posts("event_refund", o)
      BY <2>2, OrderPostsItsShare
    <3>2. CallsTypeOK' /\ RowsTypeOK'
      BY <3>1 DEF PayoutsInv, CallsTypeOK, RowsTypeOK, payoutVars
    <3> QED BY <3>1, <3>2, MeanwhileKeepsInv DEF Posts, payoutVars
  <2>3. CASE OrderClaim(o, "open", "paid") \/ OrderClaim(o, "paid", "refunded")
    <3>1. UNCHANGED <<withdrawal, event, call, faults, ledgerVars>>
      BY <2>3 DEF OrderClaim
    <3>2. CallsTypeOK' /\ RowsTypeOK'
      BY <2>3, <3>1 DEF PayoutsInv, CallsTypeOK, RowsTypeOK, OrderClaim
    <3>3. LedgerInv' /\ \A k, r : Posted(k, r)' <=> Posted(k, r)
      BY <3>1, LedgerUntouched DEF PayoutsInv
    <3> QED BY <3>1, <3>2, <3>3, MeanwhileKeepsInv
  <2> QED BY <2>1, <2>2, <2>3 DEF OrderAction
<1> QED BY <1>1, <1>2

\* The invariant holds at the start, whichever calls are made and whichever
\* orders may still be paid.
LEMMA PayoutsStartInv ==
  ASSUME NEW made, NEW waiting, NEW failed \in 0 .. MaxFaults,
         PayoutsStart(made, waiting, failed)
  PROVE  PayoutsInv
<1>1. LedgerInv /\ \A kind, ref : ~Posted(kind, ref)
  BY LedgerInitInv DEF PayoutsStart
<1>2. /\ \A c \in Calls : call[c].at \in {"idle", "refused"}
      /\ \A w \in Withdrawals : withdrawal[w] = "none"
      /\ \A e \in Events : ~event[e].transferred
  BY DEF PayoutsStart
<1>3. CallsTypeOK
  BY DEF PayoutsStart, CallsTypeOK, CallStep, EventStatus
<1>4. RowsTypeOK
  BY PayoutsAssumption DEF PayoutsStart, RowsTypeOK, WithdrawalStatus
<1>5. CallsInv /\ RequestsComeFirst
  BY <1>1, <1>2, CallFacts DEF CallsInv, KeepsToItsOp, RequestsComeFirst, At, IsOp
<1>6. RowsDecide /\ ClosingIsClaimed
  BY <1>1, <1>2 DEF RowsDecide, ClosingIsClaimed, Closes, At
<1>7. MarkedEventsAreTransferred
  BY <1>2 DEF MarkedEventsAreTransferred
<1> QED BY <1>1, <1>3, <1>4, <1>5, <1>6, <1>7 DEF PayoutsInv

\* Every step keeps it.
LEMMA PayoutsInvNext ==
  ASSUME PayoutsInv, [PayoutsNext]_vars
  PROVE  PayoutsInv'
<1>1. CASE \E c \in Calls : CallAction(c)
  BY <1>1, CallKeepsInv
<1>2. CASE (\E e \in Events : EventAction(e)) \/ (\E o \in Orders : OrderAction(o))
  BY <1>2, OthersKeepInv
<1>3. CASE UNCHANGED vars
  <2>1. UNCHANGED <<withdrawal, event, order, call, faults, ledgerVars>>
    BY <1>3 DEF vars, payoutVars
  <2>2. CallsTypeOK' /\ RowsTypeOK'
    BY <2>1 DEF PayoutsInv, CallsTypeOK, RowsTypeOK
  <2>3. LedgerInv' /\ \A k, r : Posted(k, r)' <=> Posted(k, r)
    BY <2>1, LedgerUntouched DEF PayoutsInv
  <2> QED BY <2>1, <2>2, <2>3, MeanwhileKeepsInv
<1> QED
  BY <1>1, <1>2, <1>3 DEF PayoutsNext, CallAction, EventAction, OrderAction

-----------------------------------------------------------------------------
(* A step of the withdrawals' promise, or none.                            *)

PromiseVars ==
  <<[w \in Withdrawals |-> StageOf(w)], balance[System("payout_pending")],
    balance[System("payout_settled")], balance[System("platform_revenue")]>>

\* A posting moves what its entries say, and no other account.
LEMMA RecordMoves ==
  ASSUME NEW kind, NEW ref, NEW entries, Record(kind, ref, entries), LedgerTypeOK,
         NEW type \in SystemTypes
  PROVE  /\ balance[System(type)] \in Int
         /\ System(type) \in DOMAIN entries =>
              balance'[System(type)] = balance[System(type)] + entries[System(type)]
         /\ System(type) \notin DOMAIN entries =>
              balance'[System(type)] = balance[System(type)]
BY AccountNames DEF Record, LedgerTypeOK

\* What a posting does to the stage of every withdrawal.
LEMMA PostingMovesStages ==
  ASSUME NEW kind, NEW ref, Posts(kind, ref)
  PROVE  \A v :
           StageOf(v)' =
             IF Posted("withdrawal_paid", v) \/ (kind = "withdrawal_paid" /\ v = ref)
             THEN "paid"
             ELSE IF Posted("withdrawal_refund", v)
                     \/ (kind = "withdrawal_refund" /\ v = ref)
             THEN "returned"
             ELSE IF Posted("withdrawal_request", v)
                     \/ (kind = "withdrawal_request" /\ v = ref)
             THEN "reserved" ELSE "open"
BY DEF StageOf, Posts

\* The posting of a request sets its net aside and earns its fee.
LEMMA RequestReserves ==
  ASSUME PayoutsInv, NEW c \in Calls, RequestPost(c),
         Post("withdrawal_request", On(c), ReserveEntries(On(c)))
  PROVE  Promise!Reserve(On(c)) /\ On(c) \in Withdrawals
<1> DEFINE w == On(c)
<1>1. w \in Withdrawals /\ IsOp(c, "request") /\ At(c, "post")
  BY CallFacts DEF RequestPost, IsOp
<1>2. ~Posted("withdrawal_request", w) /\ withdrawal[w] = "none"
  BY <1>1 DEF PayoutsInv, RequestsComeFirst, At
<1>3. ~Posted("withdrawal_paid", w) /\ ~Posted("withdrawal_refund", w)
  BY <1>1, <1>2 DEF PayoutsInv, RowsDecide
<1>4. Posts("withdrawal_request", w)
  BY <1>1, RequestPostsReserve
<1>5. StageOf(w) = "open" /\ \A v : StageOf(v)' = IF v = w THEN "reserved" ELSE StageOf(v)
  BY <1>2, <1>3, <1>4, PostingMovesStages DEF StageOf
<1>6. /\ System("payout_pending") # System("platform_revenue")
      /\ System("payout_settled") # System("platform_revenue")
      /\ System("payout_settled") # System("payout_pending")
      /\ Wallet(OwnerOf[w]) \notin {System("payout_pending"), System("platform_revenue"),
                                    System("payout_settled")}
  BY AccountNames
<1>7. /\ DOMAIN ReserveEntries(w) =
           {Wallet(OwnerOf[w]), System("payout_pending"), System("platform_revenue")}
      /\ ReserveEntries(w)[System("payout_pending")] = Net(w)
      /\ ReserveEntries(w)[System("platform_revenue")] = Fee(w)
  BY <1>6 DEF ReserveEntries
<1>8. Record("withdrawal_request", w, ReserveEntries(w)) /\ LedgerTypeOK
  BY DEF Post, PayoutsInv, LedgerInv
<1>9. {"payout_pending", "payout_settled", "platform_revenue"} \subseteq SystemTypes
  BY DEF SystemTypes
<1>10. /\ balance'[System("payout_pending")] = balance[System("payout_pending")] + Net(w)
       /\ balance'[System("platform_revenue")] = balance[System("platform_revenue")] + Fee(w)
       /\ balance'[System("payout_settled")] = balance[System("payout_settled")]
  BY <1>6, <1>7, <1>8, <1>9, RecordMoves
<1> HIDE DEF w
<1>11. Promise!Reserve(w)
  BY <1>1, <1>5, <1>10 DEF Promise!Reserve
<1> QED BY <1>1, <1>11 DEF w

\* The accounts of a withdrawal and its entries.
LEMMA PlatformAccounts ==
  /\ System("payout_pending") # System("platform_revenue")
  /\ System("payout_settled") # System("platform_revenue")
  /\ System("payout_settled") # System("payout_pending")
  /\ \A type \in {"payout_pending", "payout_settled", "platform_revenue"} :
       /\ type \in SystemTypes /\ System(type) # System("gateway_clearing")
       /\ \A u : System(type) # Wallet(u) /\ System(type) # Payable(u)
BY AccountNames DEF SystemTypes

\* The payment of a withdrawal takes its net from what is set aside (pay), the
\* first time.
LEMMA PayPaysOut ==
  ASSUME PayoutsInv, NEW c \in Calls, PayPost(c), ~(UNCHANGED PromiseVars)
  PROVE  Promise!PayOut(On(c)) /\ On(c) \in Withdrawals
<1> DEFINE w == On(c)
           entries == Move(System("payout_pending"), System("payout_settled"), Net(w))
<1>1. w \in Withdrawals /\ IsOp(c, "pay") /\ At(c, "post")
  BY CallFacts DEF PayPost, IsOp
<1>2. Posts("withdrawal_paid", w)
  BY PayPostsPayment
<1>3. ~Posted("withdrawal_paid", w) /\ Record("withdrawal_paid", w, entries)
  <2>1. SUFFICES ASSUME UNCHANGED ledgerVars PROVE FALSE
    BY DEF PayPost, PostOnce
  <2> QED BY <2>1 DEF ledgerVars, PromiseVars, StageOf, Posted
<1>4. Posted("withdrawal_request", w) /\ ~Posted("withdrawal_refund", w)
  BY <1>1 DEF PayoutsInv, RowsDecide, Decisions, Decided, IsOp, At
<1>5. StageOf(w) = "reserved" /\ \A v : StageOf(v)' = IF v = w THEN "paid" ELSE StageOf(v)
  BY <1>2, <1>3, <1>4, PostingMovesStages DEF StageOf
<1>6. /\ DOMAIN entries = {System("payout_pending"), System("payout_settled")}
      /\ entries[System("payout_pending")] = -Net(w)
      /\ entries[System("payout_settled")] = Net(w)
  BY PlatformAccounts DEF Move
<1>7. Net(w) \in Int /\ LedgerTypeOK
  BY <1>1, NetAndFee DEF PayoutsInv, LedgerInv
<1> HIDE DEF entries
<1>8. /\ balance[System("payout_pending")] \in Int
      /\ balance'[System("payout_pending")] = balance[System("payout_pending")] + (-Net(w))
      /\ balance'[System("payout_settled")] = balance[System("payout_settled")] + Net(w)
      /\ balance'[System("platform_revenue")] = balance[System("platform_revenue")]
  BY <1>3, <1>6, <1>7, PlatformAccounts, RecordMoves
<1>9. balance'[System("payout_pending")] = balance[System("payout_pending")] - Net(w)
  BY <1>7, <1>8
<1> HIDE DEF w
<1>10. Promise!PayOut(w)
  BY <1>1, <1>5, <1>8, <1>9 DEF Promise!PayOut
<1> QED BY <1>1, <1>10 DEF w

\* The return of a withdrawal takes its net from what is set aside and its fee
\* from what was earned (reject and cancel), the first time.
LEMMA ReturnReturns ==
  ASSUME PayoutsInv, NEW c \in Calls, ReturnPost(c), ~(UNCHANGED PromiseVars)
  PROVE  Promise!Return(On(c)) /\ On(c) \in Withdrawals
<1> DEFINE w == On(c)
           entries == [a \in DOMAIN ReserveEntries(w) |-> -ReserveEntries(w)[a]]
<1>1. w \in Withdrawals /\ (IsOp(c, "reject") \/ IsOp(c, "cancel")) /\ At(c, "post")
  BY CallFacts DEF ReturnPost, IsOp
<1>2. Posts("withdrawal_refund", w)
  BY ReturnPostsReturn
<1>3. ~Posted("withdrawal_refund", w) /\ Record("withdrawal_refund", w, entries)
  <2>1. SUFFICES ASSUME UNCHANGED ledgerVars PROVE FALSE
    BY DEF ReturnPost, PostOnce
  <2> QED BY <2>1 DEF ledgerVars, PromiseVars, StageOf, Posted
<1>4. Posted("withdrawal_request", w) /\ ~Posted("withdrawal_paid", w)
  BY <1>1 DEF PayoutsInv, RowsDecide, Decisions, Decided, IsOp, At
<1>5. StageOf(w) = "reserved" /\ \A v : StageOf(v)' = IF v = w THEN "returned" ELSE StageOf(v)
  BY <1>2, <1>3, <1>4, PostingMovesStages DEF StageOf
<1>6. /\ DOMAIN entries =
           {Wallet(OwnerOf[w]), System("payout_pending"), System("platform_revenue")}
      /\ entries[System("payout_pending")] = -Net(w)
      /\ entries[System("platform_revenue")] = -Fee(w)
  BY PlatformAccounts DEF ReserveEntries
<1>7. Net(w) \in Int /\ Fee(w) \in Int /\ LedgerTypeOK
  BY <1>1, NetAndFee DEF PayoutsInv, LedgerInv
<1> HIDE DEF entries
<1>8. /\ balance[System("payout_pending")] \in Int
      /\ balance[System("platform_revenue")] \in Int
      /\ balance'[System("payout_pending")] = balance[System("payout_pending")] + (-Net(w))
      /\ balance'[System("platform_revenue")] =
           balance[System("platform_revenue")] + (-Fee(w))
      /\ balance'[System("payout_settled")] = balance[System("payout_settled")]
  BY <1>3, <1>6, <1>7, PlatformAccounts, RecordMoves
<1>9. /\ balance'[System("payout_pending")] = balance[System("payout_pending")] - Net(w)
      /\ balance'[System("platform_revenue")] = balance[System("platform_revenue")] - Fee(w)
  BY <1>7, <1>8
<1> HIDE DEF w
<1>10. Promise!Return(w)
  BY <1>1, <1>5, <1>8, <1>9 DEF Promise!Return
<1> QED BY <1>1, <1>10 DEF w

\* A step that leaves the ledger alone is none of the promise's.
LEMMA QuietForThePromise ==
  ASSUME UNCHANGED ledgerVars
  PROVE  UNCHANGED PromiseVars
BY DEF ledgerVars, PromiseVars, StageOf, Posted

\* Nor is a transfer between accounts that the withdrawals have no part in, posted
\* for an event or an order (finalizeAndTransfer, PaymentsService).
LEMMA OtherPostings ==
  ASSUME PayoutsInv, NEW kind \in {"event_cash_transfer", "order_payment", "event_refund"},
         NEW ref, NEW from, NEW to, NEW amount, Record(kind, ref, Move(from, to, amount)),
         \A a \in {from, to} :
           \/ a = System("gateway_clearing")
           \/ \E u : a = Wallet(u) \/ a = Payable(u)
  PROVE  UNCHANGED PromiseVars
<1>1. Posts(kind, ref)
  BY RecordJournal DEF Posts
<1>2. \A v : StageOf(v)' = StageOf(v)
  BY <1>1, PostingMovesStages DEF StageOf
<1>3. \A type \in {"payout_pending", "payout_settled", "platform_revenue"} :
        System(type) \notin DOMAIN Move(from, to, amount)
  BY PlatformAccounts DEF Move
<1>4. \A type \in {"payout_pending", "payout_settled", "platform_revenue"} :
        balance'[System(type)] = balance[System(type)]
  BY <1>3, PlatformAccounts, RecordMoves DEF PayoutsInv, LedgerInv
<1> QED BY <1>2, <1>4 DEF PromiseVars

\* Every step is one of the promise, or none.
LEMMA PromiseStep ==
  ASSUME PayoutsInv, [PayoutsNext]_vars
  PROVE  [Promise!WithdrawalsNext]_PromiseVars
<1>1. ASSUME NEW c \in Calls, CallAction(c)
      PROVE  UNCHANGED PromiseVars \/ Promise!WithdrawalsNext
  <2>1. CASE RequestPost(c)
    <3>1. UNCHANGED ledgerVars \/ Post("withdrawal_request", On(c), ReserveEntries(On(c)))
      BY <2>1 DEF RequestPost
    <3> QED
      BY <2>1, <3>1, RequestReserves, QuietForThePromise DEF Promise!WithdrawalsNext
  <2>2. CASE PayPost(c)
    BY <2>2, PayPaysOut DEF Promise!WithdrawalsNext
  <2>3. CASE ReturnPost(c)
    BY <2>3, ReturnReturns DEF Promise!WithdrawalsNext
  <2>4. CASE FinalizePost(c)
    <3>1. Record("event_cash_transfer", On(c),
                 Move(Payable(PromoterOf[On(c)]), Wallet(PromoterOf[On(c)]), call[c].net))
      BY <2>4 DEF FinalizePost, Post
    <3> QED BY <3>1, OtherPostings
  <2>5. CASE RequestRead(c) \/ DecideRead(c) \/ FinalizeRead(c) \/ RequestCreate(c)
               \/ Decide(c)
    BY <2>5, QuietForThePromise
    DEF RequestRead, DecideRead, FinalizeRead, RequestCreate, Decide
  <2>6. CASE FinalizeCount(c) \/ FinalizeSum(c) \/ FinalizeClaim(c) \/ FinalizeRevert(c)
               \/ FinalizeFails(c) \/ CallDies(c)
    BY <2>6, QuietForThePromise
    DEF FinalizeCount, FinalizeSum, FinalizeClaim, FinalizeRevert, FinalizeFails, CallDies
  <2> QED
    BY <1>1, <2>1, <2>2, <2>3, <2>4, <2>5, <2>6 DEF CallAction, CallGoesOn
<1>2. ASSUME NEW e \in Events, EventAction(e)
      PROVE  UNCHANGED PromiseVars
  BY <1>2, QuietForThePromise DEF EventAction, EventEnds, SetStatus
<1>3. ASSUME NEW o \in Orders, OrderAction(o)
      PROVE  UNCHANGED PromiseVars
  <2>1. CASE OrderPost(o)
    <3> DEFINE promoter == Payable(PromoterOf[EventOf[o]])
    <3>1. \/ Record("order_payment", o,
                    Move(System("gateway_clearing"), promoter, NetOf[o]))
          \/ Record("event_refund", o, Move(promoter, Wallet(BuyerOf[o]), NetOf[o]))
      BY <2>1 DEF OrderPost, Post
    <3> QED BY <3>1, OtherPostings
  <2>2. CASE OrderClaim(o, "open", "paid") \/ OrderClaim(o, "paid", "refunded")
    BY <2>2, QuietForThePromise DEF OrderClaim
  <2> QED BY <1>3, <2>1, <2>2 DEF OrderAction
<1>4. CASE UNCHANGED vars
  BY <1>4, QuietForThePromise DEF vars
<1> QED
  BY <1>1, <1>2, <1>3, <1>4 DEF PayoutsNext, CallAction, EventAction, OrderAction

-----------------------------------------------------------------------------
(* Theorems.                                                               *)

\* The invariant the rest follows from: what the request, the decisions and the
\* closing of an event leave behind after each of their awaits.
THEOREM PayoutsInvariant == PayoutsSpec => []PayoutsInv
<1>1. PayoutsInit => PayoutsInv
  BY PayoutsStartInv, PayoutsAssumption DEF PayoutsInit
<1>2. PayoutsInv /\ [PayoutsNext]_vars => PayoutsInv'
  BY PayoutsInvNext
<1> QED BY <1>1, <1>2, PTL DEF PayoutsSpec

\* Rows, calls and accounts keep their types, whatever withdrawals and events there
\* are (WalletWithdrawalService, SettlementService).
THEOREM PayoutsTypes == PayoutsSpec => []PayoutsTypeOK
<1>1. PayoutsInv => PayoutsTypeOK
  BY DEF PayoutsInv, PayoutsTypeOK, CallsTypeOK, RowsTypeOK, LedgerInv, CallStep
<1> QED BY <1>1, PayoutsInvariant, PTL

\* An event that is marked as transferred was, or the call that marked it is still
\* at it or died (the mark, its posting and its way back in finalizeAndTransfer).
THEOREM MarkedEvents == PayoutsSpec => []MarkedEventsAreTransferred
<1>1. PayoutsInv => MarkedEventsAreTransferred
  BY DEF PayoutsInv
<1> QED BY <1>1, PayoutsInvariant, PTL

\* The cash of an event is transferred at most once, however many administrators
\* close it at once and however often one failed before: the compare-and-set on
\* cashTransferredAt stands in for the idempotency the posting lacks.
THEOREM CashIsTransferredOnce == PayoutsSpec => TransferredOnce
<1>1. PayoutsInv =>
        [\A e \in Events :
           (\E c \in Calls : IsOp(c, "finalize") /\ On(c) = e /\ FinalizePost(c))
             => ~Posted("event_cash_transfer", e)]_vars
  BY DEF PayoutsInv, ClosingIsClaimed, Closes, FinalizePost, At
<1> QED BY <1>1, PayoutsInvariant, PTL DEF PayoutsSpec, TransferredOnce

\* The balances add up to zero and no wallet is overdrawn, whatever calls die
\* between a row and its posting (LedgerService.post).
THEOREM PayoutsBooksBalance == PayoutsSpec => [](BooksBalance /\ WalletsNonNegative)
<1>1. PayoutsInv => BooksBalance /\ WalletsNonNegative
  BY DEF PayoutsInv, LedgerInv
<1> QED BY <1>1, PayoutsInvariant, PTL

\* Withdrawals implement their promise: the money of each is set aside once and
\* goes to the bank or back to the wallet once, and the platform's accounts are
\* the sums of what is where (request, approve, pay, reject, cancel).
THEOREM PayoutsImplementWithdrawals == PayoutsSpec => ImplementsWithdrawals
<1>1. PayoutsInit => Promise!WithdrawalsInit
  <2> SUFFICES ASSUME PayoutsInit PROVE Promise!WithdrawalsInit
    OBVIOUS
  <2>1. \A kind, ref : ~Posted(kind, ref)
    BY LedgerInitInv DEF PayoutsInit, PayoutsStart
  <2>2. \A type \in {"payout_pending", "payout_settled", "platform_revenue"} :
          balance[System(type)] = 0
    BY PlatformAccounts, AccountNames DEF PayoutsInit, PayoutsStart, LedgerInit
  <2> QED BY <2>1, <2>2 DEF Promise!WithdrawalsInit, StageOf
<1>2. PayoutsInv /\ [PayoutsNext]_vars => [Promise!WithdrawalsNext]_PromiseVars
  BY PromiseStep
<1> QED
  BY <1>1, <1>2, PayoutsInvariant, PTL
  DEF PayoutsSpec, ImplementsWithdrawals, Promise!WithdrawalsSpec, PromiseVars
=============================================================================
