------------------------------- MODULE Payouts -------------------------------
(***************************************************************************)
(* How money leaves the platform: withdrawals from a wallet                *)
(* (api/src/modules/wallet/wallet-withdrawal.service.ts) and the closing   *)
(* of an event's cash, which moves what a promoter has earned to the       *)
(* promoter's wallet (api/src/modules/orders/settlement.service.ts).       *)
(*                                                                         *)
(* A call takes one step per await, and any of them may be its last: the   *)
(* row of a withdrawal or an event and the posting that goes with it are   *)
(* written in two transactions.  Orders are paid and refunded meanwhile;   *)
(* of their entries (PaymentSplit) only the promoter's part is kept here.  *)
(***************************************************************************)
EXTENDS Ledger

CONSTANTS
  Withdrawals,  \* ids, one per request
  OwnerOf,
  AmountOf,     \* in cents
  FeePercent,   \* of each user, by role
  Events,
  PromoterOf,
  Orders,
  EventOf, BuyerOf, NetOf,   \* of each order
  FirstStatus,  \* of each event
  Calls,
  CallOf,       \* what each call does, and to what
  MaxFaults     \* bound: calls that die and postings that fail

Decisions == {"approve", "pay", "reject", "cancel"}
CallType ==
  [op : {"request"} \cup Decisions, on : Withdrawals] \cup
  [op : {"finalize"}, on : Events]

Fee(w) == RoundHalfEven(AmountOf[w] * FeePercent[OwnerOf[w]], 100)
Net(w) == AmountOf[w] - Fee(w)

EventStatus == {"draft", "published", "suspended", "cancelled", "finished"}

ASSUME PayoutsAssumption ==
  /\ OwnerOf \in [Withdrawals -> Users]
  /\ AmountOf \in [Withdrawals -> Nat \ {0}]
  /\ FeePercent \in [Users -> 0 .. 99]
  /\ PromoterOf \in [Events -> Promoters] /\ Promoters \subseteq Users
  /\ EventOf \in [Orders -> Events] /\ BuyerOf \in [Orders -> Users]
  /\ NetOf \in [Orders -> Nat]
  /\ Withdrawals \cup Events \cup Orders \subseteq References
  /\ CallOf \in [Calls -> CallType] /\ IsFiniteSet(Orders)
  /\ \A c, d \in Calls :   \* a request makes the id
       CallOf[c].op = "request" /\ CallOf[d].op = "request" /\ CallOf[c].on = CallOf[d].on
         => c = d
  /\ FirstStatus \in [Events -> EventStatus] /\ MaxFaults \in Nat

VARIABLES
  withdrawal,  \* status of each row, "none" before there is one
  event,       \* status, whether its date is past, cashTransferredAt
  order,       \* status
  call,        \* progress of each call, the net it carries, the status it read
  faults

payoutVars == <<withdrawal, event, order, call, faults>>
vars == <<payoutVars, ledgerVars>>

WithdrawalStatus == {"none", "pending", "approved", "paid", "rejected", "cancelled"}

PayoutsTypeOK ==
  /\ LedgerTypeOK
  /\ withdrawal \in [Withdrawals -> WithdrawalStatus]
  /\ event \in [Events -> [status : EventStatus, ended : BOOLEAN,
                           transferred : BOOLEAN]]
  /\ order \in [Orders -> {"open", "expired", "paid", "refunded"}]
  /\ call \in [Calls -> [at : {"idle", "post", "create", "claim", "count", "sum",
                               "revert", "done", "refused", "dead"},
                         net : Nat, was : EventStatus]]
  /\ faults \in 0 .. MaxFaults

\* The calls outside `made` are never made, the orders outside `waiting` are
\* not paid any more.
PayoutsStart(made, waiting, failed) ==
  /\ LedgerInit
  /\ withdrawal = [w \in Withdrawals |-> "none"]
  /\ event = [e \in Events |-> [status |-> FirstStatus[e], ended |-> FALSE,
                                transferred |-> FALSE]]
  /\ order = [o \in Orders |-> IF o \in waiting THEN "open" ELSE "expired"]
  /\ call = [c \in Calls |-> [at |-> IF c \in made THEN "idle" ELSE "refused",
                              net |-> 0, was |-> "draft"]]
  /\ faults = failed

PayoutsInit == PayoutsStart(Calls, Orders, 0)

IsOp(c, op) == CallOf[c].op = op
On(c) == CallOf[c].on
At(c, step) == call[c].at = step
Goes(c, step) == call' = [call EXCEPT ![c].at = step]

\* The entries of a posting between two accounts.
Move(from, to, amount) == [a \in {from, to} |-> IF a = from THEN -amount ELSE amount]

-----------------------------------------------------------------------------
(* WalletWithdrawalService.request.                                        *)

\* The balance is looked at first; the ledger has the last word.
RequestRead(c) ==
  /\ IsOp(c, "request") /\ At(c, "idle")
  /\ walletBalance(OwnerOf[On(c)]) >= AmountOf[On(c)]
  /\ Goes(c, "post")
  /\ UNCHANGED <<withdrawal, event, order, faults, ledgerVars>>

ReserveEntries(w) ==
  [a \in {Wallet(OwnerOf[w]), System("payout_pending"), System("platform_revenue")} |->
     CASE a = System("payout_pending") -> Net(w)
       [] a = System("platform_revenue") -> Fee(w)
       [] OTHER -> -AmountOf[w]]

RequestPost(c) ==
  LET w == On(c) IN
  /\ IsOp(c, "request") /\ At(c, "post")
  /\ \/ /\ Post("withdrawal_request", w, ReserveEntries(w))
        /\ Goes(c, "create")
     \/ /\ ~Acceptable(ReserveEntries(w))
        /\ Goes(c, "refused")
        /\ UNCHANGED ledgerVars
  /\ UNCHANGED <<withdrawal, event, order, faults>>

RequestCreate(c) ==
  /\ IsOp(c, "request") /\ At(c, "create")
  /\ withdrawal' = [withdrawal EXCEPT ![On(c)] = "pending"]
  /\ Goes(c, "done")
  /\ UNCHANGED <<event, order, faults, ledgerVars>>

-----------------------------------------------------------------------------
(* approve, pay, reject and cancel: the row is read, claimed by a          *)
(* compare-and-set, and the posting follows.                               *)

DecideRead(c) ==
  /\ CallOf[c].op \in Decisions /\ At(c, "idle")
  /\ withdrawal[On(c)] # "none"
  /\ Goes(c, "claim")
  /\ UNCHANGED <<withdrawal, event, order, faults, ledgerVars>>

\* The owner may cancel while nobody has decided; an administrator may go back
\* on an approval.
Decidable(c) ==
  IF IsOp(c, "approve") \/ IsOp(c, "cancel") THEN {"pending"}
  ELSE {"pending", "approved"}

\* Mistake: the verb is written for the state.
DecidedVerb(c) == CallOf[c].op

Decided(c) ==
  CASE IsOp(c, "approve") -> "approved" [] IsOp(c, "pay") -> "paid"
    [] IsOp(c, "reject") -> "rejected"  [] OTHER -> "cancelled"

\* Mistake: the status that was read decides, not the one there is.
DecideUnclaimed(c) ==
  /\ CallOf[c].op \in Decisions /\ At(c, "claim")
  /\ withdrawal' = [withdrawal EXCEPT ![On(c)] = Decided(c)]
  /\ Goes(c, IF IsOp(c, "approve") THEN "done" ELSE "post")
  /\ UNCHANGED <<event, order, faults, ledgerVars>>

Decide(c) ==
  /\ CallOf[c].op \in Decisions /\ At(c, "claim")
  /\ \/ /\ withdrawal[On(c)] \in Decidable(c)
        /\ withdrawal' = [withdrawal EXCEPT ![On(c)] = Decided(c)]
        /\ Goes(c, IF IsOp(c, "approve") THEN "done" ELSE "post")
     \/ /\ withdrawal[On(c)] \notin Decidable(c)
        /\ Goes(c, "refused")
        /\ UNCHANGED withdrawal
  /\ UNCHANGED <<event, order, faults, ledgerVars>>

PayPost(c) ==
  /\ IsOp(c, "pay") /\ At(c, "post")
  /\ PostOnce("withdrawal_paid", On(c),
              Move(System("payout_pending"), System("payout_settled"), Net(On(c))))
  /\ Goes(c, "done")
  /\ UNCHANGED <<withdrawal, event, order, faults>>

\* Mistake: only a rejection gives the money back.
ReturnRejected(c) ==
  LET returned == [a \in DOMAIN ReserveEntries(On(c)) |-> -ReserveEntries(On(c))[a]] IN
  /\ (IsOp(c, "reject") \/ IsOp(c, "cancel")) /\ At(c, "post")
  /\ IF IsOp(c, "reject") THEN PostOnce("withdrawal_refund", On(c), returned)
     ELSE UNCHANGED ledgerVars
  /\ Goes(c, "done")
  /\ UNCHANGED <<withdrawal, event, order, faults>>

\* refund: the reserve in reverse, fee included.
ReturnPost(c) ==
  LET returned == [a \in DOMAIN ReserveEntries(On(c)) |-> -ReserveEntries(On(c))[a]] IN
  /\ (IsOp(c, "reject") \/ IsOp(c, "cancel")) /\ At(c, "post")
  /\ PostOnce("withdrawal_refund", On(c), returned)
  /\ Goes(c, "done")
  /\ UNCHANGED <<withdrawal, event, order, faults>>

-----------------------------------------------------------------------------
(* SettlementService.finalizeAndTransfer.                                  *)

PaidOrders(e) == {o \in Orders : EventOf[o] = e /\ order[o] = "paid"}

Eligible(e) ==
  event[e].status \in {"suspended", "cancelled", "finished"} \/ event[e].ended

FinalizeRead(c) ==
  LET e == On(c) IN
  /\ IsOp(c, "finalize") /\ At(c, "idle")
  /\ ~event[e].transferred /\ Eligible(e)
  /\ call' = [call EXCEPT ![c].was = event[e].status,
                          ![c].at = IF event[e].status = "cancelled" THEN "count"
                                    ELSE "sum"]
  /\ UNCHANGED <<withdrawal, event, order, faults, ledgerVars>>

\* The event was cancelled: its paid orders are to be refunded first.
FinalizeCount(c) ==
  /\ At(c, "count")
  /\ Goes(c, IF PaidOrders(On(c)) = {} THEN "sum" ELSE "refused")
  /\ UNCHANGED <<withdrawal, event, order, faults, ledgerVars>>

FinalizeSum(c) ==
  /\ At(c, "sum")
  /\ call' = [call EXCEPT ![c].at = "claim",
                          ![c].net = SumFunctionOnSet(NetOf, PaidOrders(On(c)))]
  /\ UNCHANGED <<withdrawal, event, order, faults, ledgerVars>>

\* Mistake: the update names the event only.
FinalizeUnclaimed(c) ==
  /\ IsOp(c, "finalize") /\ At(c, "claim")
  /\ event' = [event EXCEPT ![On(c)].transferred = TRUE, ![On(c)].status = "finished"]
  /\ Goes(c, IF call[c].net > 0 THEN "post" ELSE "done")
  /\ UNCHANGED <<withdrawal, order, faults, ledgerVars>>

\* The compare-and-set on cashTransferredAt.
FinalizeClaim(c) ==
  LET e == On(c) IN
  /\ IsOp(c, "finalize") /\ At(c, "claim")
  /\ \/ /\ ~event[e].transferred
        /\ event' = [event EXCEPT ![e].transferred = TRUE, ![e].status = "finished"]
        /\ Goes(c, IF call[c].net > 0 THEN "post" ELSE "done")
     \/ /\ event[e].transferred
        /\ Goes(c, "refused")
        /\ UNCHANGED event
  /\ UNCHANGED <<withdrawal, order, faults, ledgerVars>>

FinalizePost(c) ==
  /\ IsOp(c, "finalize") /\ At(c, "post")
  /\ Post("event_cash_transfer", On(c),
          Move(Payable(PromoterOf[On(c)]), Wallet(PromoterOf[On(c)]), call[c].net))
  /\ Goes(c, "done")
  /\ UNCHANGED <<withdrawal, event, order, faults>>

FinalizeFails(c) ==
  /\ IsOp(c, "finalize") /\ At(c, "post")
  /\ faults < MaxFaults /\ faults' = faults + 1
  /\ Goes(c, "revert")
  /\ UNCHANGED <<withdrawal, event, order, ledgerVars>>

\* Mistake: a posting that failed leaves the mark.
FinalizeKeepMark(c) ==
  /\ At(c, "revert")
  /\ Goes(c, "refused")
  /\ UNCHANGED <<withdrawal, event, order, faults, ledgerVars>>

\* The mark is taken back, with the status that was read at the start.
FinalizeRevert(c) ==
  /\ At(c, "revert")
  /\ event' = [event EXCEPT ![On(c)].transferred = FALSE, ![On(c)].status = call[c].was]
  /\ Goes(c, "refused")
  /\ UNCHANGED <<withdrawal, order, faults, ledgerVars>>

\* The process dies in the middle of a call.  No job takes it up again.
CallDies(c) ==
  /\ call[c].at \notin {"idle", "done", "refused", "dead"}
  /\ faults < MaxFaults /\ faults' = faults + 1
  /\ Goes(c, "dead")
  /\ UNCHANGED <<withdrawal, event, order, ledgerVars>>

-----------------------------------------------------------------------------
(* What happens meanwhile: the life of the event (EventsService), and its  *)
(* orders (PaymentsService: the claim of the order, then the posting).     *)

\* What the status was when the change was checked may have changed since.
SetStatus(e, s) ==
  /\ s \in {"published", "suspended", "cancelled"}
  /\ event' = [event EXCEPT ![e].status = s]
  /\ UNCHANGED <<withdrawal, order, call, faults, ledgerVars>>

EventEnds(e) ==
  /\ ~event[e].ended
  /\ event' = [event EXCEPT ![e].ended = TRUE]
  /\ UNCHANGED <<withdrawal, order, call, faults, ledgerVars>>

OrderClaim(o, from, to) ==
  /\ order[o] = from
  /\ order' = [order EXCEPT ![o] = to]
  /\ UNCHANGED <<withdrawal, event, call, faults, ledgerVars>>

\* The promoter's part comes from the gateway, and goes back to the buyer.
OrderPost(o) ==
  LET promoter == Payable(PromoterOf[EventOf[o]]) IN
  /\ \/ /\ order[o] \in {"paid", "refunded"} /\ ~Posted("order_payment", o)
        /\ Post("order_payment", o, Move(System("gateway_clearing"), promoter, NetOf[o]))
     \/ /\ order[o] = "refunded" /\ ~Posted("event_refund", o)
        /\ Post("event_refund", o, Move(promoter, Wallet(BuyerOf[o]), NetOf[o]))
  /\ UNCHANGED payoutVars

-----------------------------------------------------------------------------

CallGoesOn(c) ==
  \/ RequestPost(c) \/ RequestCreate(c)
  \/ Decide(c) \/ PayPost(c) \/ ReturnPost(c)
  \/ FinalizeCount(c) \/ FinalizeSum(c) \/ FinalizeClaim(c) \/ FinalizePost(c)
  \/ FinalizeRevert(c)

PayoutsNext ==
  \/ \E c \in Calls :
       \/ RequestRead(c) \/ DecideRead(c) \/ FinalizeRead(c)
       \/ CallGoesOn(c)
       \/ FinalizeFails(c) \/ CallDies(c)
  \/ \E e \in Events : EventEnds(e) \/ \E s \in EventStatus : SetStatus(e, s)
  \/ \E o \in Orders :
       OrderClaim(o, "open", "paid") \/ OrderClaim(o, "paid", "refunded") \/ OrderPost(o)

PayoutsFairness == \A c \in Calls : WF_vars(CallGoesOn(c))

PayoutsSpec == PayoutsInit /\ [][PayoutsNext]_vars /\ PayoutsFairness

-----------------------------------------------------------------------------
(* Properties.                                                             *)

StageOf(w) ==
  IF Posted("withdrawal_paid", w) THEN "paid"
  ELSE IF Posted("withdrawal_refund", w) THEN "returned"
  ELSE IF Posted("withdrawal_request", w) THEN "reserved" ELSE "open"

Promise == INSTANCE Withdrawals WITH
  Withdrawal <- Withdrawals,
  NetOf <- [w \in Withdrawals |-> Net(w)],
  FeeOf <- [w \in Withdrawals |-> Fee(w)],
  stage <- [w \in Withdrawals |-> StageOf(w)],
  pending <- balance[System("payout_pending")],
  settled <- balance[System("payout_settled")],
  earned <- balance[System("platform_revenue")]

\* Whatever decisions race, repeat or die half way, the money of a withdrawal
\* is set aside once and goes out or comes back once, and the accounts of the
\* platform are the sums of what is where.
ImplementsWithdrawals == Promise!WithdrawalsSpec

\* The cash of an event is transferred once, whoever else closes it, and
\* whatever failed before: the posting is not idempotent.
TransferredOnce ==
  [][\A e \in Events :
       (\E c \in Calls : IsOp(c, "finalize") /\ On(c) = e /\ FinalizePost(c))
         => ~Posted("event_cash_transfer", e)]_vars

\* An event that is marked as transferred was: the money is with the promoter,
\* or there was none, unless the call that marked it is still at it or died.
AnswersFor(c) ==
  \/ call[c].at \in {"post", "revert", "dead"}
  \/ At(c, "done") /\ (call[c].net = 0 \/ Posted("event_cash_transfer", On(c)))

MarkedEventsAreTransferred ==
  \A e \in Events :
    event[e].transferred =>
      \E c \in Calls : IsOp(c, "finalize") /\ On(c) = e /\ AnswersFor(c)

\* A withdrawal that was paid, rejected or cancelled moves its money, unless
\* the call that decided it died.
DecisionsArePosted ==
  \A w \in Withdrawals :
    []<>(\/ withdrawal[w] \notin {"paid", "rejected", "cancelled"}
         \/ StageOf(w) = (IF withdrawal[w] = "paid" THEN "paid" ELSE "returned")
         \/ \E c \in Calls : On(c) = w /\ At(c, "dead"))
=============================================================================
