------------------------------ MODULE Payments ------------------------------
(***************************************************************************)
(* The payment of orders: PaymentsService                                  *)
(* (api/src/modules/payments/payments.service.ts), the refunds of an event *)
(* (orders/event-refunds.service.ts) and the issue and revocation of       *)
(* tickets that hang from them (tickets/tickets.service.ts).               *)
(*                                                                         *)
(* A job is one call of an API handler: POST /pay, one delivery of a       *)
(* webhook, or one refund by the promoter.  It takes a step per await that *)
(* reads or writes shared state, and may be called again when it is over.  *)
(* The gateway delivers what it likes about the charges it was asked for,  *)
(* in any order and as often as it likes.  Orders and seats are those of   *)
(* Checkout, whose commits and sweeper run beside the jobs; the money is   *)
(* in Ledger.  All orders are of one event, quoted for one gateway.        *)
(***************************************************************************)
EXTENDS Checkout, PaymentSplit

CONSTANTS
  Quote,      \* the money columns of each order
  Promoter,   \* of the event
  Payments,   \* rows that the pay jobs create
  OrderOf,    \* the order each row is for
  Hooks,      \* webhook events, by event id
  HookOf,     \* what each says, of which payment
  Jobs,
  JobOf,
  NoPayment, NoHook,
  MaxCrashes  \* bound: how many times a job may die half way

Tasks == {"pay", "hook", "eventRefund"}
HookTypes == {"succeeded", "failed", "refund", "chargeback"}

JobType ==
  [task : Tasks, order : Orders, payment : Payments \cup {NoPayment},
   hook : Hooks \cup {NoHook}, useWallet : BOOLEAN]

ASSUME PaymentsAssumption ==
  /\ Quote \in [Orders -> QuoteType] /\ \A o \in Orders : Total(Quote[o]) >= 0
  /\ Promoter \in Promoters /\ MaxCrashes \in Nat
  /\ Buyers \subseteq Users /\ Orders \subseteq References
  /\ OrderOf \in [Payments -> Orders]
  /\ HookOf \in [Hooks -> [type : HookTypes, payment : Payments]]
  /\ JobOf \in [Jobs -> JobType]
  /\ \A j \in Jobs :
       /\ JobOf[j].payment \in Payments => OrderOf[JobOf[j].payment] = JobOf[j].order
       /\ JobOf[j].task # "eventRefund" => JobOf[j].payment \in Payments
       /\ JobOf[j].task = "hook" =>
            JobOf[j].hook \in Hooks /\ HookOf[JobOf[j].hook].payment = JobOf[j].payment
  /\ \A j, k \in Jobs :
       j # k /\ JobOf[j].task = "pay" /\ JobOf[k].task = "pay" =>
         JobOf[j].payment # JobOf[k].payment

VARIABLES
  payment,  \* the rows of payments
  asked,    \* payments whose charge the gateway was asked for
  hook,     \* the rows of webhook_events
  acked,    \* webhooks answered with 200: the gateway stops sending them
  job,      \* progress of each job, and the wallet balance it read
  crashes,  \* how many jobs have died
  issuing,  \* the job of the tickets queue for each order
  ticket    \* the tickets of each order, taken together

jobVars == <<payment, asked, hook, acked, job, crashes>>
ticketVars == <<issuing, ticket>>
paymentsVars == <<allCheckoutVars, ledgerVars, jobVars, ticketVars>>

JobStep ==
  {"idle", "existing", "funds", "create", "reserve", "charge", "record",
   "fulfill", "claim", "post", "enqueue", "fail", "return", "failTx",
   "reverse", "reversePost", "reverseTx", "revoke", "mark"}

NoRow == [status |-> "none", method |-> "none", wallet |-> 0, charge |-> 0]
IdleJob == [at |-> "idle", funds |-> 0]

PaymentType ==
  [status : {"none", "pending", "succeeded", "failed", "refunded"},
   method : {"none", "wallet", "mixed", "gateway"}, wallet : Nat, charge : Nat]

PaymentsTypeOK ==
  /\ CheckoutTypeOK /\ LedgerTypeOK
  /\ payment \in [Payments -> PaymentType]
  /\ asked \in SUBSET Payments
  /\ hook \in [Hooks -> {"none", "received", "processed"}]
  /\ acked \in SUBSET Hooks
  /\ job \in [Jobs -> [at : JobStep, funds : Nat]]
  /\ crashes \in 0 .. MaxCrashes
  /\ issuing \in [Orders -> {"none", "queued", "create"}]
  /\ ticket \in [Orders -> {"none", "valid", "revoked"}]

NothingPaid ==
  /\ LedgerInit
  /\ payment = [p \in Payments |-> NoRow]
  /\ asked = {}
  /\ hook = [h \in Hooks |-> "none"]
  /\ acked = {}
  /\ job = [j \in Jobs |-> IdleJob]
  /\ crashes = 0
  /\ issuing = [o \in Orders |-> "none"]
  /\ ticket = [o \in Orders |-> "none"]

PaymentsInit == CheckoutInit /\ NothingPaid

PaymentOf(j) == JobOf[j].payment
OrderOfJob(j) == JobOf[j].order
BuyerOfJob(j) == BuyerOf[OrderOfJob(j)]
QuoteOfJob(j) == Quote[OrderOfJob(j)]
Row(j) == payment[PaymentOf(j)]

JobAt(j, step) == job[j].at = step
JobTo(j, step) == job' = [job EXCEPT ![j].at = step]
JobEnds(j) == job' = [job EXCEPT ![j] = IdleJob]

\* Mistake: the webhook is not marked.
ReturnUnmarked(j) == JobEnds(j)

\* A handler returns: the webhook is marked next, the others are answered.
Return(j) == IF JobOf[j].task = "hook" THEN JobTo(j, "mark") ELSE JobEnds(j)

SetPayment(p, status) == payment' = [payment EXCEPT ![p].status = status]

OrderUntouched == UNCHANGED allCheckoutVars
RestOfCheckoutUntouched == UNCHANGED <<holdVars, event, commit>>
GatewayUntouched == UNCHANGED <<asked, hook, acked, crashes>>

-----------------------------------------------------------------------------
(* initiate.                                                               *)

PendingPayments(o) ==
  {p \in Payments : OrderOf[p] = o /\ payment[p].status = "pending"}

PayBegin(j) ==
  /\ JobOf[j].task = "pay" /\ JobAt(j, "idle")
  /\ Row(j) = NoRow
  /\ order[OrderOfJob(j)] = "pending"
  /\ JobTo(j, "existing")
  /\ OrderUntouched /\ GatewayUntouched
  /\ UNCHANGED <<ledgerVars, payment, ticketVars>>

\* An attempt under way is answered as it is.
PayExisting(j) ==
  /\ JobAt(j, "existing")
  /\ IF PendingPayments(OrderOfJob(j)) = {} THEN JobTo(j, "funds") ELSE JobEnds(j)
  /\ OrderUntouched /\ GatewayUntouched
  /\ UNCHANGED <<ledgerVars, payment, ticketVars>>

\* The wallet balance is read; a mixed payment too small for the gateway is
\* refused.
PayFunds(j) ==
  LET funds == IF JobOf[j].useWallet THEN walletBalance(BuyerOfJob(j)) ELSE 0 IN
  /\ JobAt(j, "funds")
  /\ IF Chargeable(QuoteOfJob(j), funds)
     THEN job' = [job EXCEPT ![j] = [at |-> "create", funds |-> funds]]
     ELSE JobEnds(j)
  /\ OrderUntouched /\ GatewayUntouched
  /\ UNCHANGED <<ledgerVars, payment, ticketVars>>

\* The row is created unless payments_one_pending_per_order forbids it.
PayCreate(j) ==
  LET q == QuoteOfJob(j)
      funds == job[j].funds
      method == MethodOf(q, funds)
  IN
  /\ JobAt(j, "create")
  /\ \/ /\ PendingPayments(OrderOfJob(j)) = {}
        /\ payment' = [payment EXCEPT ![PaymentOf(j)] =
             [status |-> "pending", method |-> method,
              wallet |-> WalletPortion(q, funds),
              charge |-> GatewayCharge(q, funds)]]
        /\ job' = [job EXCEPT ![j] =
             [at |-> CASE method = "wallet" -> "fulfill"
                       [] method = "mixed" -> "reserve"
                       [] method = "gateway" -> "charge",
              funds |-> 0]]
     \/ /\ PendingPayments(OrderOfJob(j)) # {}
        /\ JobEnds(j)
        /\ UNCHANGED payment
  /\ OrderUntouched /\ GatewayUntouched
  /\ UNCHANGED <<ledgerVars, ticketVars>>

\* Wallet to holding, and back when the payment fails.
ReserveEntries(buyer, amount) ==
  [a \in {Wallet(buyer), System("payment_holding")} |->
     IF a = Wallet(buyer) THEN -amount ELSE amount]

\* The reserve of a mixed payment, refused if the balance is gone meanwhile:
\* the row stays.
PayReserve(j) ==
  LET entries == ReserveEntries(BuyerOfJob(j), Row(j).wallet) IN
  /\ JobAt(j, "reserve")
  /\ \/ /\ Post("wallet_reserve", OrderOfJob(j), entries)
        /\ JobTo(j, "charge")
     \/ /\ ~Acceptable(entries)
        /\ JobEnds(j)
        /\ UNCHANGED ledgerVars
  /\ OrderUntouched /\ GatewayUntouched
  /\ UNCHANGED <<payment, ticketVars>>

\* createPayment of the provider.
PayCharge(j) ==
  /\ JobAt(j, "charge")
  /\ asked' = asked \cup {PaymentOf(j)}
  /\ JobEnds(j)
  /\ OrderUntouched
  /\ UNCHANGED <<ledgerVars, payment, hook, acked, crashes, ticketVars>>

PayStep(j) ==
  \/ PayExisting(j) \/ PayFunds(j) \/ PayCreate(j)
  \/ PayReserve(j) \/ PayCharge(j)

-----------------------------------------------------------------------------
(* processVerifiedWebhook.                                                 *)

HandlerOf(h) ==
  CASE HookOf[h].type = "succeeded" -> "fulfill"
    [] HookOf[h].type = "failed" -> "fail"
    [] HookOf[h].type \in {"refund", "chargeback"} -> "reverse"

\* A delivery.  One that was processed is answered at once and changes
\* nothing; one received and not processed is processed again.
HookReceive(j) ==
  LET h == JobOf[j].hook IN
  /\ JobOf[j].task = "hook" /\ JobAt(j, "idle")
  /\ PaymentOf(j) \in asked
  /\ hook[h] # "processed"
  /\ JobTo(j, IF hook[h] = "none" THEN "record" ELSE HandlerOf(h))
  /\ OrderUntouched /\ GatewayUntouched
  /\ UNCHANGED <<ledgerVars, payment, ticketVars>>

\* The event id is unique: who comes second answers that it was received.
HookRecord(j) ==
  LET h == JobOf[j].hook IN
  /\ JobAt(j, "record")
  /\ \/ /\ hook[h] = "none"
        /\ hook' = [hook EXCEPT ![h] = "received"]
        /\ JobTo(j, HandlerOf(h))
        /\ UNCHANGED acked
     \/ /\ hook[h] # "none"
        /\ acked' = acked \cup {h}
        /\ JobEnds(j)
        /\ UNCHANGED hook
  /\ OrderUntouched
  /\ UNCHANGED <<ledgerVars, payment, asked, crashes, ticketVars>>

\* markProcessed and the answer.
HookMark(j) ==
  LET h == JobOf[j].hook IN
  /\ JobAt(j, "mark")
  /\ hook' = [hook EXCEPT ![h] = "processed"]
  /\ acked' = acked \cup {h}
  /\ JobEnds(j)
  /\ OrderUntouched
  /\ UNCHANGED <<ledgerVars, payment, asked, crashes, ticketVars>>

-----------------------------------------------------------------------------
(* fulfill.                                                                *)

\* A late payment of an order that is over moves no money.
FulfillRead(j) ==
  /\ JobAt(j, "fulfill")
  /\ IF Live(OrderOfJob(j)) THEN JobTo(j, "claim") ELSE Return(j)
  /\ OrderUntouched /\ GatewayUntouched
  /\ UNCHANGED <<ledgerVars, payment, ticketVars>>

\* Mistake: who does not claim the order posts too.
FulfillClaimOrNot(j) ==
  LET o == OrderOfJob(j) IN
  /\ JobAt(j, "claim")
  /\ SetPayment(PaymentOf(j), "succeeded")
  /\ JobTo(j, "post")
  /\ \/ ClaimPaid(o)
     \/ order[o] # "pending" /\ UNCHANGED saleVars
  /\ RestOfCheckoutUntouched /\ GatewayUntouched
  /\ UNCHANGED <<ledgerVars, ticketVars>>

\* Mistake: the tickets are ordered before the posting.
FulfillClaimAndEnqueue(j) ==
  LET o == OrderOfJob(j) IN
  /\ JobAt(j, "claim")
  /\ SetPayment(PaymentOf(j), "succeeded")
  /\ \/ /\ ClaimPaid(o) /\ JobTo(j, "post")
        /\ issuing' = [issuing EXCEPT ![o] = "queued"]
     \/ order[o] # "pending" /\ Return(j) /\ UNCHANGED <<saleVars, issuing>>
  /\ RestOfCheckoutUntouched /\ GatewayUntouched
  /\ UNCHANGED <<ledgerVars, ticket>>

\* Mistake: who claims the order leaves the posting to another delivery.
FulfillClaimAndReturn(j) ==
  LET o == OrderOfJob(j) IN
  /\ JobAt(j, "claim")
  /\ SetPayment(PaymentOf(j), "succeeded")
  /\ \/ ClaimPaid(o) /\ Return(j)
     \/ order[o] # "pending" /\ Return(j) /\ UNCHANGED saleVars
  /\ RestOfCheckoutUntouched /\ GatewayUntouched
  /\ UNCHANGED <<ledgerVars, ticketVars>>

\* One transaction: the payment succeeds whatever the order, and the order is
\* claimed if it is pending.  Who does not claim it does not post.
FulfillClaim(j) ==
  LET o == OrderOfJob(j) IN
  /\ JobAt(j, "claim")
  /\ SetPayment(PaymentOf(j), "succeeded")
  /\ \/ ClaimPaid(o) /\ JobTo(j, "post")
     \/ order[o] # "pending" /\ Return(j) /\ UNCHANGED saleVars
  /\ RestOfCheckoutUntouched /\ GatewayUntouched
  /\ UNCHANGED <<ledgerVars, ticketVars>>

\* The posting, idempotent by order.  If the ledger refuses it the handler
\* throws: the order stays claimed.
FulfillPost(j) ==
  LET o == OrderOfJob(j) IN
  /\ JobAt(j, "post")
  /\ \E entries \in {FulfillEntries(Quote[o], BuyerOf[o], Promoter,
                       Row(j).method, Row(j).wallet, Row(j).charge)} :
       \/ PostOnce("order_payment", o, entries) /\ JobTo(j, "enqueue")
       \/ /\ Refused("order_payment", o, entries)
          /\ JobEnds(j)
          /\ UNCHANGED ledgerVars
  /\ OrderUntouched /\ GatewayUntouched
  /\ UNCHANGED <<payment, ticketVars>>

\* Mistake: the job of the tickets is lost.
FulfillWithoutTickets(j) ==
  /\ JobAt(j, "enqueue")
  /\ Return(j)
  /\ OrderUntouched /\ GatewayUntouched
  /\ UNCHANGED <<ledgerVars, payment, ticketVars>>

FulfillEnqueue(j) ==
  /\ JobAt(j, "enqueue")
  /\ issuing' = [issuing EXCEPT ![OrderOfJob(j)] = "queued"]
  /\ Return(j)
  /\ OrderUntouched /\ GatewayUntouched
  /\ UNCHANGED <<ledgerVars, payment, ticket>>

-----------------------------------------------------------------------------
(* fail.                                                                   *)

FailRead(j) ==
  /\ JobAt(j, "fail")
  /\ IF order[OrderOfJob(j)] = "paid" \/ Row(j).status # "pending" THEN Return(j)
     ELSE JobTo(j, IF Row(j).method = "mixed" THEN "return" ELSE "failTx")
  /\ OrderUntouched /\ GatewayUntouched
  /\ UNCHANGED <<ledgerVars, payment, ticketVars>>

\* The reserve goes back; this posting is not idempotent.
FailReturn(j) ==
  /\ JobAt(j, "return")
  /\ Post("wallet_refund_reserve", OrderOfJob(j),
          ReserveEntries(BuyerOfJob(j), -Row(j).wallet))
  /\ JobTo(j, "failTx")
  /\ OrderUntouched /\ GatewayUntouched
  /\ UNCHANGED <<payment, ticketVars>>

\* Mistake: the order's status is written on the payment.
FailTxWrongStatus(j) ==
  /\ JobAt(j, "failTx")
  /\ SetPayment(PaymentOf(j), "cancelled")
  /\ CancelOrder(OrderOfJob(j))
  /\ Return(j)
  /\ RestOfCheckoutUntouched /\ GatewayUntouched
  /\ UNCHANGED <<ledgerVars, ticketVars>>

\* Mistake: the inventory is released and the order stays as it is.
FailTxHalf(j) ==
  /\ JobAt(j, "failTx")
  /\ SetPayment(PaymentOf(j), "failed")
  /\ ReturnSeats(OrderOfJob(j))
  /\ Return(j)
  /\ RestOfCheckoutUntouched /\ GatewayUntouched
  /\ UNCHANGED <<ledgerVars, ticketVars>>

FailTx(j) ==
  /\ JobAt(j, "failTx")
  /\ SetPayment(PaymentOf(j), "failed")
  /\ CancelOrder(OrderOfJob(j))
  /\ Return(j)
  /\ RestOfCheckoutUntouched /\ GatewayUntouched
  /\ UNCHANGED <<ledgerVars, ticketVars>>

-----------------------------------------------------------------------------
(* reverse, and refundOne of the event refunds.                            *)

ReversalKind(j) ==
  IF JobOf[j].task = "eventRefund" THEN "event_refund"
  ELSE HookOf[JobOf[j].hook].type

\* The promoter refunds the order of an event that will not take place.
EventRefundBegin(j) ==
  /\ JobOf[j].task = "eventRefund" /\ JobAt(j, "idle")
  /\ event \in {"suspended", "cancelled"}
  /\ order[OrderOfJob(j)] = "paid"
  /\ JobTo(j, "reverse")
  /\ OrderUntouched /\ GatewayUntouched
  /\ UNCHANGED <<ledgerVars, payment, ticketVars>>

\* Mistake: an order that somebody else is reversing is reversed again.
ReverseClaimAnyway(j) ==
  LET o == OrderOfJob(j) IN
  /\ JobAt(j, "reverse")
  /\ \/ /\ order[o] \in {"paid", "refunded"}
        /\ order' = [order EXCEPT ![o] = "refunded"]
        /\ JobTo(j, "reversePost")
        /\ UNCHANGED <<seat, items, due>>
     \/ order[o] \notin {"paid", "refunded"} /\ Return(j) /\ UNCHANGED saleVars
  /\ RestOfCheckoutUntouched /\ GatewayUntouched
  /\ UNCHANGED <<ledgerVars, payment, ticketVars>>

ReverseClaim(j) ==
  LET o == OrderOfJob(j) IN
  /\ JobAt(j, "reverse")
  /\ \/ ClaimRefunded(o) /\ JobTo(j, "reversePost")
     \/ order[o] # "paid" /\ Return(j) /\ UNCHANGED saleVars
  /\ RestOfCheckoutUntouched /\ GatewayUntouched
  /\ UNCHANGED <<ledgerVars, payment, ticketVars>>

\* Mistake: the seats are not given back.
ReversePostOnly(j) ==
  LET o == OrderOfJob(j) IN
  /\ JobAt(j, "reversePost")
  /\ PostOnce(ReversalKind(j), o,
       ReversalEntries(ReversalKind(j), Quote[o], BuyerOf[o], Promoter))
  /\ JobTo(j, "revoke")
  /\ OrderUntouched /\ GatewayUntouched
  /\ UNCHANGED <<payment, ticketVars>>

\* Idempotent by kind and order.  No entry debits a wallet, and they add up
\* to nothing for every quote, so the ledger does not refuse it.
ReversePost(j) ==
  LET o == OrderOfJob(j) IN
  /\ JobAt(j, "reversePost")
  /\ PostOnce(ReversalKind(j), o,
       ReversalEntries(ReversalKind(j), Quote[o], BuyerOf[o], Promoter))
  /\ JobTo(j, "reverseTx")
  /\ OrderUntouched /\ GatewayUntouched
  /\ UNCHANGED <<payment, ticketVars>>

\* Only reverse touches the payment.
ReverseTx(j) ==
  /\ JobAt(j, "reverseTx")
  /\ ReturnSeats(OrderOfJob(j))
  /\ IF JobOf[j].task = "hook" THEN SetPayment(PaymentOf(j), "refunded")
     ELSE UNCHANGED payment
  /\ JobTo(j, "revoke")
  /\ RestOfCheckoutUntouched /\ GatewayUntouched
  /\ UNCHANGED <<ledgerVars, ticketVars>>

\* revokeByOrder: the tickets that exist by now.
ReverseRevoke(j) ==
  LET o == OrderOfJob(j) IN
  /\ JobAt(j, "revoke")
  /\ ticket' = [ticket EXCEPT ![o] = IF @ = "valid" THEN "revoked" ELSE @]
  /\ Return(j)
  /\ OrderUntouched /\ GatewayUntouched
  /\ UNCHANGED <<ledgerVars, payment, issuing>>

HandlerStep(j) ==
  \/ HookRecord(j) \/ HookMark(j)
  \/ FulfillRead(j) \/ FulfillClaim(j) \/ FulfillPost(j) \/ FulfillEnqueue(j)
  \/ FailRead(j) \/ FailReturn(j) \/ FailTx(j)
  \/ ReverseClaim(j) \/ ReversePost(j) \/ ReverseTx(j) \/ ReverseRevoke(j)

\* The process dies, or a call throws, between two awaits.
CrashJob(j) ==
  /\ crashes < MaxCrashes
  /\ ~JobAt(j, "idle")
  /\ crashes' = crashes + 1
  /\ JobEnds(j)
  /\ OrderUntouched
  /\ UNCHANGED <<ledgerVars, payment, asked, hook, acked, ticketVars>>

-----------------------------------------------------------------------------
(* issue, the consumer of the tickets queue.                               *)

IssueRead(o) ==
  /\ issuing[o] = "queued"
  /\ issuing' = [issuing EXCEPT ![o] =
       IF order[o] = "paid" /\ ticket[o] = "none" THEN "create" ELSE "none"]
  /\ OrderUntouched
  /\ UNCHANGED <<ledgerVars, jobVars, ticket>>

IssueCreate(o) ==
  /\ issuing[o] = "create"
  /\ ticket' = [ticket EXCEPT ![o] = "valid"]
  /\ issuing' = [issuing EXCEPT ![o] = "none"]
  /\ OrderUntouched
  /\ UNCHANGED <<ledgerVars, jobVars>>

\* The broker delivers the job again.
CrashIssue(o) ==
  /\ crashes < MaxCrashes
  /\ issuing[o] = "create"
  /\ crashes' = crashes + 1
  /\ issuing' = [issuing EXCEPT ![o] = "queued"]
  /\ OrderUntouched /\ UNCHANGED <<payment, asked, hook, acked, job>>
  /\ UNCHANGED <<ledgerVars, ticket>>

-----------------------------------------------------------------------------

PaymentsNext ==
  \/ CheckoutStep /\ UNCHANGED <<ledgerVars, jobVars, ticketVars>>
  \/ \E j \in Jobs :
       \/ PayBegin(j) \/ PayStep(j) \/ HookReceive(j) \/ EventRefundBegin(j)
       \/ HandlerStep(j) \/ CrashJob(j)
  \/ \E o \in Orders : IssueRead(o) \/ IssueCreate(o) \/ CrashIssue(o)

PaymentsSpec == PaymentsInit /\ [][PaymentsNext]_paymentsVars

\* What goes on by itself: handlers that have begun, the sweeper and the
\* clock, the queue, and the gateway until it is answered.
PaymentsFairness ==
  /\ SweeperFairness
  /\ \A j \in Jobs : WF_paymentsVars(PayStep(j) \/ HandlerStep(j))
  /\ \A j \in {k \in Jobs : JobOf[k].task = "hook"} :
       WF_paymentsVars(HookReceive(j) /\ JobOf[j].hook \notin acked)
  /\ \A o \in Orders : WF_paymentsVars(IssueRead(o) \/ IssueCreate(o))

FairPaymentsSpec == PaymentsSpec /\ PaymentsFairness

-----------------------------------------------------------------------------
(* Properties.                                                             *)

\* The jobs of an order that are in a given step.
Busy(o, steps) == {j \in Jobs : OrderOfJob(j) = o /\ job[j].at \in steps}

\* Whatever payments do to orders and seats, Checkout allows for it: what is
\* shown of Checkout holds of the two together.
ImplementsCheckout == CheckoutSpec

\* Money is distributed only for an order that was claimed as paid: never for
\* one that is pending or that the sweeper took (fulfill, claim-first).
MoneyFollowsTheClaim ==
  \A o \in Orders :
    Posted("order_payment", o) => order[o] \in {"paid", "refunded", "cancelled"}

\* An order is reversed once, whichever of refund, chargeback and event refund
\* arrive and however often (reverse and refundOne, claim-first).
ReversedOnce ==
  \A o \in Orders :
    Cardinality({k \in {"refund", "chargeback", "event_refund"} : Posted(k, o)}) <= 1

\* A ticket exists only for an order whose money is in the ledger (fulfill
\* enqueues the issue after the posting).
TicketsArePaidFor ==
  \A o \in Orders : ticket[o] # "none" => Posted("order_payment", o)

\* An order is paid, not in the ledger, and nobody is about to post it.
Stranded(o) ==
  order[o] = "paid" /\ ~Posted("order_payment", o) /\ Busy(o, {"post"}) = {}

\* The ledger does not take what job j posts.
PostingRefused(j) ==
  LET o == OrderOfJob(j) IN
  Refused("order_payment", o,
    FulfillEntries(Quote[o], BuyerOf[o], Promoter, Row(j).method, Row(j).wallet,
                   Row(j).charge))

\* The money of a paid order misses the ledger only where the handler that claimed
\* the order dies, or its posting is refused: never because another delivery, a
\* refusal, a refund or the sweeper came between the claim and the posting (fulfill).
PostingsAreNotDropped ==
  [][\A o \in Orders :
       Stranded(o)' /\ ~Stranded(o)
         => \/ crashes' > crashes
            \/ \E j \in Busy(o, {"post"}) : PostingRefused(j)]_paymentsVars

\* The seats of an order whose money was distributed, and not given back since,
\* are off sale: a refusal of the same payment, or of an earlier order for the
\* same seats, takes nothing away (fail ignores an order that is paid).
Reversed(o) == \E k \in {"refund", "chargeback", "event_refund"} : Posted(k, o)

PaidSeatsAreNotForSale ==
  \A o \in Orders :
    Posted("order_payment", o) /\ ~Reversed(o) => \A s \in SeatsOf[o] : seat[s] = "sold"

\* A webhook that was received is processed in the end.
ReceivedHooksAreProcessed ==
  \A h \in Hooks : hook[h] = "received" ~> hook[h] = "processed"

\* A paid order gets its tickets, unless it is reversed before.
PaidOrdersGetTickets ==
  \A o \in Orders : order[o] = "paid" ~> ticket[o] = "valid" \/ order[o] # "paid"

\* A refunded order gives its seats back.
RefundedSeatsReturn ==
  \A o \in Orders : order[o] = "refunded" ~> items[o] = {}
=============================================================================
