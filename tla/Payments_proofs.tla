---------------------------- MODULE Payments_proofs ----------------------------
(***************************************************************************)
(* What TLAPS proves of Payments, for any jobs, webhooks and crashes: the  *)
(* invariant that ties the progress of the jobs to the orders and to the   *)
(* ledger, that payments implement the checkout, and what follows.         *)
(***************************************************************************)
EXTENDS Payments, Checkout_proofs, PaymentSplit_proofs

Reversals == {"refund", "chargeback", "event_refund"}
Claimed == {"paid", "refunded", "cancelled"}
Undone == {"refunded", "cancelled"}

\* What a job does depends on its task: a refusal or a mark is of a webhook,
\* a reversal of a refund, a chargeback or the promoter.
KeepsToItsTask(j) ==
  /\ job[j].at \in {"existing", "funds", "create", "reserve", "charge"} =>
       JobOf[j].task = "pay"
  /\ job[j].at \in {"record", "fail", "return", "failTx", "mark"} =>
       JobOf[j].task = "hook"
  /\ job[j].at \in {"fulfill", "claim", "post", "enqueue"} =>
       JobOf[j].task \in {"pay", "hook"}
  /\ job[j].at \in {"reverse", "reversePost", "reverseTx", "revoke"} =>
       ReversalKind(j) \in Reversals

\* A job that has begun is of an order that exists.  Who posts a payment
\* has claimed its order, and who orders the tickets has posted it.
FollowsTheClaim(j) ==
  /\ job[j].at # "idle" => order[OrderOfJob(j)] # "none"
  /\ job[j].at \in {"post", "enqueue"} => order[OrderOfJob(j)] \in Claimed
  /\ job[j].at = "enqueue" => Posted("order_payment", OrderOfJob(j))
  /\ job[j].at \in {"reversePost", "reverseTx"} => order[OrderOfJob(j)] \in Undone

JobsInv == \A j \in Jobs : KeepsToItsTask(j) /\ FollowsTheClaim(j)

\* A payment is of an order that exists.
PaymentsHaveAnOrder ==
  \A p \in Payments :
    payment[p].status # "none" \/ p \in asked => order[OrderOf[p]] # "none"

\* Tickets, and the job that issues them, come after the posting.
TicketsFollowTheMoney ==
  \A o \in Orders :
    issuing[o] # "none" \/ ticket[o] # "none" => Posted("order_payment", o)

\* Until an order is undone nobody reverses it; afterwards one job at most is
\* about to post its reversal, and not once one was posted.
OneReversal ==
  /\ \A j \in Jobs : job[j].at = "reversePost" =>
       \A k \in Reversals : ~Posted(k, OrderOfJob(j))
  /\ \A i, j \in Jobs :
       /\ job[i].at = "reversePost" /\ job[j].at = "reversePost"
       /\ OrderOfJob(i) = OrderOfJob(j)
       => i = j
  /\ \A o \in Orders : \A k, l \in Reversals : Posted(k, o) /\ Posted(l, o) => k = l
  /\ \A o \in Orders : \A k \in Reversals : Posted(k, o) => order[o] \in Undone

\* The inductive invariant.
PaymentsInv ==
  /\ PaymentsTypeOK
  /\ SaleInv
  /\ LedgerInv
  /\ JobsInv
  /\ PaymentsHaveAnOrder
  /\ TicketsFollowTheMoney
  /\ OneReversal
  /\ MoneyFollowsTheClaim

JobAction(j) ==
  \/ PayBegin(j) \/ PayStep(j) \/ HookReceive(j) \/ EventRefundBegin(j)
  \/ HandlerStep(j) \/ CrashJob(j)

QueueAction(o) == IssueRead(o) \/ IssueCreate(o) \/ CrashIssue(o)

-----------------------------------------------------------------------------
(* Payments implement the checkout.                                        *)

\* Every step of the payments is a step of the checkout or leaves it alone.
LEMMA StepIsCheckout ==
  ASSUME PaymentsInv, [PaymentsNext]_paymentsVars
  PROVE  [CheckoutNext]_allCheckoutVars
<1>1. CASE CheckoutStep
  BY <1>1 DEF CheckoutNext
<1>2. ASSUME NEW j \in Jobs, JobAction(j) PROVE [CheckoutNext]_allCheckoutVars
  <2> DEFINE o == OrderOfJob(j)
  <2>1. o \in Orders
    BY PaymentsAssumption DEF OrderOfJob, JobType
  <2>2. CASE FulfillClaim(j) \/ FailTx(j) \/ ReverseClaim(j) \/ ReverseTx(j)
    <3>1. PaymentStep(o) \/ UNCHANGED allCheckoutVars
      <4>1. CASE FulfillClaim(j)
        BY <4>1
        DEF FulfillClaim, PaymentStep, RestOfCheckoutUntouched, saleVars,
                    allCheckoutVars, checkoutVars
      <4>2. CASE FailTx(j)
        BY <4>2 DEF FailTx, PaymentStep, RestOfCheckoutUntouched
      <4>3. CASE ReverseClaim(j)
        BY <4>3
        DEF ReverseClaim, PaymentStep, RestOfCheckoutUntouched, saleVars,
                    allCheckoutVars, checkoutVars
      <4>4. CASE ReverseTx(j)
        <5>1. order[o] \in {"refunded", "cancelled"}
          BY <4>4
          DEF PaymentsInv, JobsInv, FollowsTheClaim, ReverseTx, JobAt, Undone
        <5> QED
          BY <4>4, <5>1 DEF ReverseTx, PaymentStep, RestOfCheckoutUntouched
      <4> QED BY <2>2, <4>1, <4>2, <4>3, <4>4
    <3> QED BY <2>1, <3>1 DEF CheckoutNext
  <2>3. CASE ~(FulfillClaim(j) \/ FailTx(j) \/ ReverseClaim(j) \/ ReverseTx(j))
    <3>1. OrderUntouched
      BY <1>2, <2>3
      DEF JobAction, PayBegin, PayStep, PayExisting, PayFunds, PayCreate,
          PayReserve, PayCharge, HookReceive, EventRefundBegin, HandlerStep,
          HookRecord, HookMark, FulfillRead, FulfillPost, FulfillEnqueue, FailRead,
          FailReturn, ReversePost, ReverseRevoke, CrashJob
    <3> QED BY <3>1 DEF OrderUntouched
  <2> QED BY <2>2, <2>3
<1>3. ASSUME NEW o \in Orders, QueueAction(o) PROVE [CheckoutNext]_allCheckoutVars
  BY <1>3 DEF QueueAction, IssueRead, IssueCreate, CrashIssue, OrderUntouched
<1>4. CASE UNCHANGED paymentsVars
  BY <1>4 DEF paymentsVars
<1> QED BY <1>1, <1>2, <1>3, <1>4 DEF PaymentsNext, JobAction, QueueAction

\* The status of an order moves one way: it exists from then on, it waits for its
\* payment once and is paid only after that, who claimed it as paid is never
\* overtaken by a pending or an expired order, and what is refunded or cancelled
\* stays over.
Forward(o) ==
  /\ order[o] # "none" => order'[o] # "none"
  /\ order[o] \in Claimed => order'[o] \in Claimed
  /\ order[o] \in Undone => order'[o] \in Undone
  /\ order'[o] = "pending" => order[o] \in {"none", "pending"}
  /\ order'[o] = "paid" => order[o] \in {"pending", "paid"}

\* Every step of the checkout, the payments' writes included, moves orders so.
LEMMA OrdersMoveForward ==
  ASSUME SaleInv, [CheckoutNext]_allCheckoutVars, NEW o \in Orders
  PROVE  Forward(o)
<1> USE DEF Forward, Claimed, Undone
<1>1. order \in [Orders -> OrderStatus]
  BY DEF SaleInv, CheckoutTypeOK
<1>2. ASSUME NEW p \in Orders, CommitStepOf(p) PROVE Forward(o)
  <2>1. CASE CommitTx(p)
    <3>1. order[p] = "none"
      BY <2>1 DEF SaleInv, CommitsComeFirst, CommitTx, CommitAt
    <3>2. order'[o] = order[o] \/ (o = p /\ order'[o] = "pending")
      BY <1>1, <2>1 DEF CommitTx
    <3> QED BY <3>1, <3>2
  <2>2. CASE ~CommitTx(p)
    <3>1. UNCHANGED order
      BY <1>2, <2>2
      DEF CommitStepOf, BeginCommit, CheckHolds, CheckEvent, ReadOwnHolds,
          DropOwnHolds, UntrackOwnHolds, CrashCommit, saleVars
    <3> QED BY <3>1
  <2> QED BY <2>1, <2>2
<1>3. ASSUME NEW p \in Orders, Lapse(p) \/ Sweep(p) PROVE Forward(o)
  BY <1>1, <1>3 DEF Lapse, Sweep
<1>4. ASSUME NEW p \in Orders, PaymentStep(p) PROVE Forward(o)
  BY <1>1, <1>4
  DEF PaymentStep, ClaimPaid, ClaimRefunded, ReturnSeats, CancelOrder
<1>5. CASE SetStatus \/ UNCHANGED <<order, items, due, event, commit>>
  BY <1>5 DEF SetStatus, saleVars
<1>6. CASE UNCHANGED allCheckoutVars
  BY <1>6 DEF allCheckoutVars, checkoutVars
<1> QED
  BY <1>2, <1>3, <1>4, <1>5, <1>6 DEF CheckoutNext, CheckoutStep, SaleStep

-----------------------------------------------------------------------------
(* Progress of the jobs.                                                   *)

JobsType == job \in [Jobs -> [at : JobStep, funds : Nat]]

\* One job moved to one of the steps, the others are where they were.
Moved(j, steps) ==
  /\ JobsType'
  /\ job'[j].at \in steps
  /\ \A k \in Jobs \ {j} : job'[k] = job[k]

\* A job goes on to its next await.
LEMMA JobGoesOn ==
  ASSUME JobsType, NEW j \in Jobs, NEW step \in JobStep, JobTo(j, step)
  PROVE  Moved(j, {step})
BY DEF JobsType, JobTo, Moved

\* A job ends: it answers, throws or dies.
LEMMA JobIsOver ==
  ASSUME JobsType, NEW j \in Jobs, JobEnds(j)
  PROVE  Moved(j, {"idle"})
BY DEF JobsType, JobEnds, Moved, IdleJob, JobStep

\* A handler returns: the webhook is marked next (processVerifiedWebhook).
LEMMA JobReturns ==
  ASSUME JobsType, NEW j \in Jobs, Return(j)
  PROVE  Moved(j, IF JobOf[j].task = "hook" THEN {"mark"} ELSE {"idle"})
<1>1. "mark" \in JobStep
  BY DEF JobStep
<1> QED BY <1>1, JobGoesOn, JobIsOver DEF Return

\* What the constants say of a job (assigned at the start and never changed).
LEMMA JobFacts ==
  ASSUME NEW j \in Jobs
  PROVE  /\ OrderOfJob(j) \in Orders /\ OrderOfJob(j) \in References
         /\ BuyerOfJob(j) \in Users /\ BuyerOf[OrderOfJob(j)] \in Users
         /\ Promoter \in Promoters
         /\ QuoteOfJob(j) \in QuoteType /\ Total(QuoteOfJob(j)) >= 0
         /\ Quote[OrderOfJob(j)] = QuoteOfJob(j)
         /\ JobOf[j].task \in Tasks
         /\ JobOf[j].task # "eventRefund" =>
              /\ PaymentOf(j) \in Payments
              /\ OrderOf[PaymentOf(j)] = OrderOfJob(j)
         /\ JobOf[j].task = "hook" => HookOf[JobOf[j].hook].type \in HookTypes
<1> USE PaymentsAssumption, CheckoutAssumption DEF OrderOfJob, JobType
<1>1. JobOf[j].order \in Orders /\ JobOf[j].task \in Tasks
  OBVIOUS
<1>2. BuyerOf[JobOf[j].order] \in Users
  BY <1>1
<1>3. Quote[JobOf[j].order] \in QuoteType /\ Total(Quote[JobOf[j].order]) >= 0
  BY <1>1
<1> QED BY <1>1, <1>2, <1>3 DEF BuyerOfJob, QuoteOfJob, PaymentOf

-----------------------------------------------------------------------------
(* Types.                                                                  *)

\* What PaymentsTypeOK says beyond the checkout and the ledger.
JobsTypeOK ==
  /\ payment \in [Payments -> PaymentType]
  /\ asked \in SUBSET Payments
  /\ hook \in [Hooks -> {"none", "received", "processed"}]
  /\ acked \in SUBSET Hooks
  /\ JobsType
  /\ crashes \in 0 .. MaxCrashes
  /\ issuing \in [Orders -> {"none", "queued", "create"}]
  /\ ticket \in [Orders -> {"none", "valid", "revoked"}]

\* The reserve of a mixed payment and its return (initiate, fail).
LEMMA ReserveIsEntryList ==
  ASSUME NEW buyer \in Users, NEW amount \in Int
  PROVE  IsEntryList(ReserveEntries(buyer, amount))
BY AccountNames DEF ReserveEntries, IsEntryList, SystemTypes

\* Every step of a job keeps the types of jobs, payments, webhooks and tickets.
LEMMA JobsTypeStep ==
  ASSUME PaymentsInv, NEW j \in Jobs, JobAction(j)
  PROVE  JobsTypeOK'
<1> USE DEF GatewayUntouched, ticketVars
<1> DEFINE o == OrderOfJob(j)
           p == PaymentOf(j)
<1>1. /\ payment \in [Payments -> PaymentType]
      /\ asked \in SUBSET Payments
      /\ hook \in [Hooks -> {"none", "received", "processed"}]
      /\ acked \in SUBSET Hooks
      /\ JobsType
      /\ crashes \in 0 .. MaxCrashes
      /\ issuing \in [Orders -> {"none", "queued", "create"}]
      /\ ticket \in [Orders -> {"none", "valid", "revoked"}]
  BY DEF PaymentsInv, PaymentsTypeOK, JobsType
<1>2. o \in Orders /\ (JobOf[j].task # "eventRefund" => p \in Payments)
  BY JobFacts
<1>3. JobOf[j].task = "hook" => JobOf[j].hook \in Hooks
  BY PaymentsAssumption
<1>4. KeepsToItsTask(j)
  BY DEF PaymentsInv, JobsInv
<1>5. {"idle", "existing", "funds", "create", "reserve", "charge", "record",
       "fulfill", "claim", "post", "enqueue", "fail", "return", "failTx",
       "reverse", "reversePost", "reverseTx", "revoke", "mark"} \subseteq JobStep
  BY DEF JobStep
<1>6. ASSUME NEW status \in {"succeeded", "failed", "refunded"}, SetPayment(p, status)
      PROVE  payment' \in [Payments -> PaymentType]
  BY <1>1, <1>6 DEF SetPayment, PaymentType
<1>7. ASSUME JobsType',
             payment' \in [Payments -> PaymentType], UNCHANGED <<hook, acked, asked,
             crashes, ticketVars>>
      PROVE  JobsTypeOK'
  BY <1>1, <1>7 DEF JobsTypeOK
<1>10. CASE PayBegin(j)
  <2>1. JobsType'
    BY <1>1, <1>5, <1>10, JobGoesOn DEF PayBegin, Moved
  <2> QED BY <1>1, <1>7, <1>10, <2>1 DEF PayBegin
<1>11. CASE PayExisting(j)
  <2>1. JobsType'
    BY <1>1, <1>5, <1>11, JobGoesOn, JobIsOver DEF PayExisting, Moved
  <2> QED BY <1>1, <1>7, <1>11, <2>1 DEF PayExisting
<1>12. CASE PayFunds(j)
  <2> DEFINE funds == IF JobOf[j].useWallet THEN walletBalance(BuyerOfJob(j)) ELSE 0
  <2>1. funds \in Nat
    <3>1. Wallet(BuyerOfJob(j)) \in Accounts /\ BuyerOfJob(j) \in Users
      BY JobFacts, AccountNames
    <3> QED
      BY <3>1 DEF walletBalance, PaymentsInv, LedgerInv, LedgerTypeOK,
                  WalletsNonNegative
  <2>2. CASE job' = [job EXCEPT ![j] = [at |-> "create", funds |-> funds]]
    <3>1. JobsType'
      BY <1>1, <1>5, <2>1, <2>2 DEF JobsType
    <3> QED BY <1>1, <1>7, <1>12, <3>1 DEF PayFunds
  <2>3. CASE JobEnds(j)
    <3>1. JobsType'
      BY <1>1, <2>3, JobIsOver DEF Moved
    <3> QED BY <1>1, <1>7, <1>12, <3>1 DEF PayFunds
  <2> QED BY <1>12, <2>2, <2>3 DEF PayFunds
<1>13. CASE PayCreate(j)
  <2> DEFINE q == QuoteOfJob(j)
             funds == job[j].funds
             method == MethodOf(q, funds)
             wallet == WalletPortion(q, funds)
             charge == GatewayCharge(q, funds)
  <2>1. p \in Payments /\ funds \in Nat
    BY <1>1, <1>2, <1>4, <1>13 DEF PayCreate, JobAt, KeepsToItsTask, JobsType
  <2>2. /\ method \in {"wallet", "mixed", "gateway"}
        /\ wallet \in Nat /\ charge \in Nat
    BY <2>1, JobFacts, SplitType
  <2>3. CASE JobEnds(j) /\ UNCHANGED payment
    <3>1. JobsType'
      BY <1>1, <2>3, JobIsOver DEF Moved
    <3> QED BY <1>1, <1>7, <1>13, <2>3, <3>1 DEF PayCreate
  <2>4. CASE /\ payment' = [payment EXCEPT ![p] =
                  [status |-> "pending", method |-> method, wallet |-> wallet,
                   charge |-> charge]]
             /\ job' = [job EXCEPT ![j] =
                  [at |-> CASE method = "wallet" -> "fulfill"
                            [] method = "mixed" -> "reserve"
                            [] method = "gateway" -> "charge",
                   funds |-> 0]]
    <3> HIDE DEF method, wallet, charge
    <3>1. payment' \in [Payments -> PaymentType]
      BY <1>1, <2>1, <2>2, <2>4 DEF PaymentType
    <3>2. JobsType'
      BY <1>1, <1>5, <2>2, <2>4 DEF JobsType
    <3> QED BY <1>7, <1>13, <3>1, <3>2 DEF PayCreate
  <2> QED BY <1>13, <2>3, <2>4 DEF PayCreate
<1>14. CASE PayReserve(j)
  <2>1. JobsType'
    BY <1>1, <1>5, <1>14, JobGoesOn, JobIsOver DEF PayReserve, Moved
  <2> QED BY <1>1, <1>7, <1>14, <2>1 DEF PayReserve
<1>15. CASE PayCharge(j)
  <2>1. JobsType'
    BY <1>1, <1>15, JobIsOver DEF PayCharge, Moved
  <2>2. p \in Payments
    BY <1>2, <1>4, <1>15 DEF PayCharge, JobAt, KeepsToItsTask
  <2> QED BY <1>1, <1>15, <2>1, <2>2 DEF PayCharge, JobsTypeOK
<1>16. CASE HookReceive(j)
  <2>1. HandlerOf(JobOf[j].hook) \in JobStep
    BY <1>5, <1>16, JobFacts DEF HookReceive, HandlerOf, HookTypes
  <2>2. JobsType'
    BY <1>1, <1>5, <1>16, <2>1, JobGoesOn DEF HookReceive, Moved
  <2> QED BY <1>1, <1>7, <1>16, <2>2 DEF HookReceive
<1>17. CASE HookRecord(j)
  <2>1. JobOf[j].task = "hook"
    BY <1>4, <1>17 DEF HookRecord, JobAt, KeepsToItsTask
  <2>2. HandlerOf(JobOf[j].hook) \in JobStep
    BY <1>5, <2>1, JobFacts DEF HandlerOf, HookTypes
  <2>3. JobsType'
    BY <1>1, <1>17, <2>2, JobGoesOn, JobIsOver DEF HookRecord, Moved
  <2> QED BY <1>1, <1>3, <1>17, <2>1, <2>3 DEF HookRecord, JobsTypeOK
<1>18. CASE HookMark(j)
  <2>1. JobOf[j].task = "hook"
    BY <1>4, <1>18 DEF HookMark, JobAt, KeepsToItsTask
  <2>2. JobsType'
    BY <1>1, <1>18, JobIsOver DEF HookMark, Moved
  <2> QED BY <1>1, <1>3, <1>18, <2>1, <2>2 DEF HookMark, JobsTypeOK
<1>19. CASE FulfillRead(j)
  <2>1. JobsType'
    BY <1>1, <1>5, <1>19, JobGoesOn, JobReturns DEF FulfillRead, Moved
  <2> QED BY <1>1, <1>7, <1>19, <2>1 DEF FulfillRead
<1>20. CASE FulfillClaim(j)
  <2>1. JobsType'
    BY <1>1, <1>5, <1>20, JobGoesOn, JobReturns DEF FulfillClaim, Moved
  <2>2. payment' \in [Payments -> PaymentType]
    BY <1>6, <1>20 DEF FulfillClaim
  <2> QED BY <1>7, <1>20, <2>1, <2>2 DEF FulfillClaim
<1>21. CASE FulfillPost(j)
  <2>1. JobsType'
    BY <1>1, <1>5, <1>21, JobGoesOn, JobIsOver DEF FulfillPost, Moved
  <2> QED BY <1>1, <1>7, <1>21, <2>1 DEF FulfillPost
<1>22. CASE FulfillEnqueue(j)
  <2>1. JobsType'
    BY <1>1, <1>22, JobReturns DEF FulfillEnqueue, Moved
  <2> QED BY <1>1, <1>2, <1>22, <2>1 DEF FulfillEnqueue, JobsTypeOK
<1>23. CASE FailRead(j)
  <2>1. JobsType'
    BY <1>1, <1>5, <1>23, JobGoesOn, JobReturns DEF FailRead, Moved
  <2> QED BY <1>1, <1>7, <1>23, <2>1 DEF FailRead
<1>24. CASE FailReturn(j)
  <2>1. JobsType'
    BY <1>1, <1>5, <1>24, JobGoesOn DEF FailReturn, Moved
  <2> QED BY <1>1, <1>7, <1>24, <2>1 DEF FailReturn
<1>25. CASE FailTx(j)
  <2>1. JobsType'
    BY <1>1, <1>25, JobReturns DEF FailTx, Moved
  <2>2. payment' \in [Payments -> PaymentType]
    BY <1>6, <1>25 DEF FailTx
  <2> QED BY <1>7, <1>25, <2>1, <2>2 DEF FailTx
<1>26. CASE EventRefundBegin(j)
  <2>1. JobsType'
    BY <1>1, <1>5, <1>26, JobGoesOn DEF EventRefundBegin, Moved
  <2> QED BY <1>1, <1>7, <1>26, <2>1 DEF EventRefundBegin
<1>27. CASE ReverseClaim(j)
  <2>1. JobsType'
    BY <1>1, <1>5, <1>27, JobGoesOn, JobReturns DEF ReverseClaim, Moved
  <2> QED BY <1>1, <1>7, <1>27, <2>1 DEF ReverseClaim
<1>28. CASE ReversePost(j)
  <2>1. JobsType'
    BY <1>1, <1>5, <1>28, JobGoesOn DEF ReversePost, Moved
  <2> QED BY <1>1, <1>7, <1>28, <2>1 DEF ReversePost
<1>29. CASE ReverseTx(j)
  <2>1. JobsType'
    BY <1>1, <1>5, <1>29, JobGoesOn DEF ReverseTx, Moved
  <2>2. payment' \in [Payments -> PaymentType]
    BY <1>1, <1>6, <1>29 DEF ReverseTx
  <2> QED BY <1>7, <1>29, <2>1, <2>2 DEF ReverseTx
<1>30. CASE ReverseRevoke(j)
  <2>1. JobsType'
    BY <1>1, <1>30, JobReturns DEF ReverseRevoke, Moved
  <2> QED BY <1>1, <1>2, <1>30, <2>1 DEF ReverseRevoke, JobsTypeOK
<1>31. CASE CrashJob(j)
  <2>1. JobsType'
    BY <1>1, <1>31, JobIsOver DEF CrashJob, Moved
  <2> QED BY <1>1, <1>31, <2>1, PaymentsAssumption DEF CrashJob, JobsTypeOK
<1> QED
  BY <1>10, <1>11, <1>12, <1>13, <1>14, <1>15, <1>16, <1>17, <1>18, <1>19,
     <1>20,
     <1>21, <1>22, <1>23, <1>24, <1>25, <1>26, <1>27, <1>28, <1>29, <1>30, <1>31
  DEF JobAction, PayStep, HandlerStep

-----------------------------------------------------------------------------
(* The ledger.                                                             *)

\* What a step of job j adds to the journal: the payment of its order if it was
\* to be posted, and its reversal if that was.
JournalGrows(j) ==
  /\ \A k, r : Posted(k, r) => Posted(k, r)'
  /\ \A r : Posted("order_payment", r)' =>
       Posted("order_payment", r) \/ (job[j].at = "post" /\ r = OrderOfJob(j))
  /\ \A r : \A k \in Reversals : Posted(k, r)' =>
       \/ Posted(k, r)
       \/ job[j].at = "reversePost" /\ r = OrderOfJob(j) /\ k = ReversalKind(j)

\* Every step of a job keeps the books balanced and the wallets out of the red,
\* and posts no more than is its turn (initiate, fulfill, fail, reverse).
LEMMA LedgerStep ==
  ASSUME PaymentsInv, NEW j \in Jobs, JobAction(j)
  PROVE  /\ LedgerInv' /\ JournalGrows(j)
         /\ FulfillPost(j) /\ job'[j].at = "enqueue" =>
              Posted("order_payment", OrderOfJob(j))'
<1> DEFINE o == OrderOfJob(j)
           p == PaymentOf(j)
<1>1. /\ LedgerInv /\ KeepsToItsTask(j) /\ JobsType
      /\ payment \in [Payments -> PaymentType]
  BY DEF PaymentsInv, JobsInv, PaymentsTypeOK, JobsType
<1>2. JobOf[j].task # "eventRefund" => Row(j).wallet \in Nat /\ Row(j).charge \in Nat
  BY <1>1, JobFacts DEF Row, PaymentType
<1>3. {"wallet_reserve", "wallet_refund_reserve", "order_payment", "refund",
       "chargeback", "event_refund"} \subseteq Kinds
  BY DEF Kinds
<1>4. CASE UNCHANGED ledgerVars /\ ~FulfillPost(j)
  BY <1>1, <1>4, LedgerUntouched DEF JournalGrows
<1>5. CASE PayReserve(j)
  <2> DEFINE entries == ReserveEntries(BuyerOfJob(j), Row(j).wallet)
  <2>1. CASE Post("wallet_reserve", o, entries)
    <3>1. IsEntryList(entries)
      BY <1>1, <1>2, <1>5, JobFacts, ReserveIsEntryList
      DEF PayReserve, JobAt, KeepsToItsTask
    <3> HIDE DEF entries
    <3>2. /\ LedgerInv'
          /\ \A k, r : Posted(k, r)' <=>
               Posted(k, r) \/ (k = "wallet_reserve" /\ r = o)
      BY <1>1, <1>3, <2>1, <3>1, JobFacts, PostKeeps
    <3> QED BY <1>5, <3>2
    DEF JournalGrows, Reversals, PayReserve, FulfillPost, JobAt
  <2>2. CASE UNCHANGED ledgerVars
    BY <1>4, <1>5, <2>2 DEF PayReserve, FulfillPost, JobAt
  <2> QED BY <1>5, <2>1, <2>2 DEF PayReserve
<1>6. CASE FulfillPost(j)
  <2> DEFINE entries == FulfillEntries(Quote[o], BuyerOf[o], Promoter,
                          Row(j).method, Row(j).wallet, Row(j).charge)
  <2>1. IsEntryList(entries)
    <3>1. Row(j).wallet \in Nat /\ Row(j).charge \in Nat
      BY <1>1, <1>2, <1>6 DEF FulfillPost, JobAt, KeepsToItsTask
    <3>2. Quote[o] \in QuoteType /\ Total(Quote[o]) >= 0
      BY JobFacts
    <3> QED BY <3>1, <3>2, JobFacts, FulfillIsEntryList
  <2>2. \/ PostOnce("order_payment", o, entries)
        \/ JobEnds(j) /\ UNCHANGED ledgerVars
    BY <1>6 DEF FulfillPost
  <2> HIDE DEF entries
  <2>3. CASE PostOnce("order_payment", o, entries)
    <3>1. /\ LedgerInv'
          /\ \A k, r : Posted(k, r)' <=>
               Posted(k, r) \/ (k = "order_payment" /\ r = o)
      BY <1>1, <1>3, <2>1, <2>3, JobFacts, PostOnceKeeps
    <3> QED BY <1>6, <3>1 DEF JournalGrows, Reversals, FulfillPost, JobAt
  <2>4. CASE JobEnds(j) /\ UNCHANGED ledgerVars
    <3>1. job'[j].at # "enqueue"
      BY <1>1, <2>4, JobIsOver DEF Moved
    <3> QED BY <1>1, <2>4, <3>1, LedgerUntouched DEF JournalGrows
  <2> QED BY <2>2, <2>3, <2>4
<1>7. CASE FailReturn(j)
  <2> DEFINE entries == ReserveEntries(BuyerOfJob(j), -Row(j).wallet)
  <2>1. IsEntryList(entries)
    <3>1. -Row(j).wallet \in Int
      BY <1>1, <1>2, <1>7 DEF FailReturn, JobAt, KeepsToItsTask
    <3> QED BY <3>1, JobFacts, ReserveIsEntryList
  <2>2. Post("wallet_refund_reserve", o, entries)
    BY <1>7 DEF FailReturn
  <2> HIDE DEF entries
  <2>3. /\ LedgerInv'
        /\ \A k, r : Posted(k, r)' <=>
             Posted(k, r) \/ (k = "wallet_refund_reserve" /\ r = o)
    BY <1>1, <1>3, <2>1, <2>2, JobFacts, PostKeeps
  <2> QED BY <1>7, <2>3
  DEF JournalGrows, Reversals, FailReturn, FulfillPost, JobAt
<1>8. CASE ReversePost(j)
  <2> DEFINE kind == ReversalKind(j)
             entries == ReversalEntries(kind, Quote[o], BuyerOf[o], Promoter)
  <2>1. IsEntryList(entries)
    BY JobFacts, ReversalsBalance
  <2>2. kind \in Reversals /\ kind \in Kinds
    BY <1>1, <1>3, <1>8 DEF ReversePost, JobAt, KeepsToItsTask, Reversals
  <2>3. PostOnce(kind, o, entries) /\ job[j].at = "reversePost"
    BY <1>8 DEF ReversePost, JobAt
  <2> HIDE DEF entries, kind
  <2>4. /\ LedgerInv'
        /\ \A k, r : Posted(k, r)' <=> Posted(k, r) \/ (k = kind /\ r = o)
    BY <1>1, <2>1, <2>2, <2>3, JobFacts, PostOnceKeeps
  <2> QED
    BY <2>2, <2>3, <2>4 DEF JournalGrows, Reversals, FulfillPost, JobAt, kind
<1> QED
  BY <1>4, <1>5, <1>6, <1>7, <1>8
  DEF JobAction, PayBegin, PayStep, PayExisting, PayFunds, PayCreate, PayCharge,
      HookReceive, EventRefundBegin, HandlerStep, HookRecord, HookMark, FulfillRead,
      FulfillClaim, FulfillEnqueue, FailRead, FailTx, ReverseClaim, ReverseTx,
      ReverseRevoke, CrashJob, FulfillPost, JobAt

-----------------------------------------------------------------------------
(* The way of a job.                                                       *)

\* Every step of a job leaves it at a step of its task, with what that step
\* counts on, and only the claim of a paid order leads to a reversal.
LEMMA JobFlow ==
  ASSUME PaymentsInv, NEW j \in Jobs, JobAction(j)
  PROVE  /\ Moved(j, JobStep)
         /\ KeepsToItsTask(j)' /\ FollowsTheClaim(j)'
         /\ job'[j].at = "reversePost" =>
              /\ job[j].at = "reverse"
              /\ order[OrderOfJob(j)] = "paid" /\ order'[OrderOfJob(j)] \in Undone
<1> DEFINE o == OrderOfJob(j)
           p == PaymentOf(j)
<1>1. JobsType /\ KeepsToItsTask(j) /\ FollowsTheClaim(j)
  BY DEF PaymentsInv, PaymentsTypeOK, JobsInv, JobsType
<1>2. /\ o \in Orders /\ JobOf[j].task \in Tasks
      /\ JobOf[j].task # "eventRefund" => p \in Payments /\ OrderOf[p] = o
      /\ JobOf[j].task = "hook" => HookOf[JobOf[j].hook].type \in HookTypes
  BY JobFacts
<1>3. order \in [Orders -> OrderStatus]
  BY DEF PaymentsInv, SaleInv, CheckoutTypeOK
<1>4. Forward(o)
  <2>1. [PaymentsNext]_paymentsVars
    BY DEF PaymentsNext, JobAction
  <2> QED BY <1>2, <2>1, StepIsCheckout, OrdersMoveForward DEF PaymentsInv
<1>5. \A k, r : Posted(k, r) => Posted(k, r)'
  BY LedgerStep DEF JournalGrows
<1>6. p \in Payments /\ (payment[p].status # "none" \/ p \in asked) =>
        order[OrderOf[p]] # "none"
  BY DEF PaymentsInv, PaymentsHaveAnOrder
<1>7. {"idle", "existing", "funds", "create", "reserve", "charge", "record",
       "fulfill", "claim", "post", "enqueue", "fail", "return", "failTx",
       "reverse", "reversePost", "reverseTx", "revoke", "mark"} = JobStep
  BY DEF JobStep
<1> DEFINE Goal ==
             /\ Moved(j, JobStep)
             /\ KeepsToItsTask(j)' /\ FollowsTheClaim(j)'
             /\ job'[j].at = "reversePost" =>
                  job[j].at = "reverse" /\ order[o] = "paid" /\ order'[o] \in Undone
           Suits(step) ==
             /\ step \in {"existing", "funds", "create", "reserve", "charge"} =>
                  JobOf[j].task = "pay"
             /\ step \in {"record", "fail", "return", "failTx", "mark"} =>
                  JobOf[j].task = "hook"
             /\ step \in {"fulfill", "claim", "post", "enqueue"} =>
                  JobOf[j].task \in {"pay", "hook"}
             /\ step \in {"reverse", "reversePost", "reverseTx", "revoke"} =>
                  ReversalKind(j) \in Reversals
             /\ step # "idle" => order'[o] # "none"
             /\ step \in {"post", "enqueue"} => order'[o] \in Claimed
             /\ step = "enqueue" => Posted("order_payment", o)'
             /\ step = "reversePost" =>
                  job[j].at = "reverse" /\ order[o] = "paid" /\ order'[o] \in Undone
             /\ step = "reverseTx" => order'[o] \in Undone
<1>8. ASSUME NEW step \in JobStep, Moved(j, {step}), Suits(step) PROVE Goal
  <2>1. Moved(j, JobStep) /\ job'[j].at = step
    BY <1>8 DEF Moved
  <2>2. KeepsToItsTask(j)'
    BY <1>8, <2>1 DEF KeepsToItsTask, ReversalKind
  <2>3. FollowsTheClaim(j)'
    BY <1>8, <2>1 DEF FollowsTheClaim, OrderOfJob, Posted
  <2> QED BY <1>8, <2>1, <2>2, <2>3
<1>9. ASSUME JobEnds(j) PROVE Goal
  <2>1. Moved(j, {"idle"}) /\ "idle" \in JobStep
    BY <1>1, <1>7, <1>9, JobIsOver
  <2>2. Suits("idle")
    OBVIOUS
  <2> QED BY <1>8, <2>1, <2>2
<1>10. ASSUME Return(j), ~JobAt(j, "idle") PROVE Goal
  <2>1. CASE JobOf[j].task = "hook"
    <3>1. Moved(j, {"mark"}) /\ "mark" \in JobStep
      BY <1>1, <1>7, <1>10, <2>1, JobReturns
    <3>2. Suits("mark")
      BY <1>1, <1>4, <1>10, <2>1 DEF FollowsTheClaim, Forward, JobAt
    <3> QED BY <1>8, <3>1, <3>2
  <2>2. CASE JobOf[j].task # "hook"
    BY <1>9, <1>10, <2>2 DEF Return, JobAt
  <2> QED BY <2>1, <2>2
<1>11. ASSUME NEW step \in JobStep, JobTo(j, step), Suits(step) PROVE Goal
  BY <1>1, <1>8, <1>11, JobGoesOn
<1> HIDE DEF Goal, Suits
<1>12. ASSUME JobOf[j].task = "hook", order'[o] # "none",
              JobTo(j, HandlerOf(JobOf[j].hook))
       PROVE  Goal
  <2> DEFINE type == HookOf[JobOf[j].hook].type
  <2>1. CASE type = "succeeded"
    <3>1. Suits("fulfill") /\ HandlerOf(JobOf[j].hook) = "fulfill"
      BY <1>12, <2>1 DEF Suits, HandlerOf
    <3> QED BY <1>7, <1>11, <1>12, <3>1
  <2>2. CASE type = "failed"
    <3>1. Suits("fail") /\ HandlerOf(JobOf[j].hook) = "fail"
      BY <1>12, <2>2 DEF Suits, HandlerOf
    <3> QED BY <1>7, <1>11, <1>12, <3>1
  <2>3. CASE type \in {"refund", "chargeback"}
    <3>1. Suits("reverse") /\ HandlerOf(JobOf[j].hook) = "reverse"
      BY <1>12, <2>3 DEF Suits, HandlerOf, ReversalKind, Reversals
    <3> QED BY <1>7, <1>11, <1>12, <3>1
  <2> QED BY <1>2, <1>12, <2>1, <2>2, <2>3 DEF HookTypes
<1>13. ASSUME PayBegin(j) PROVE Goal
  <2>1. ASSUME JobTo(j, "existing") PROVE Goal
    <3>1. Suits("existing")
      BY <1>4, <1>13 DEF Suits, PayBegin, Forward
    <3> QED BY <1>7, <1>11, <2>1, <3>1
  <2> QED BY <1>9, <1>10, <1>13, <2>1 DEF PayBegin, JobAt
<1>14. ASSUME PayExisting(j) PROVE Goal
  <2>1. ASSUME JobTo(j, "funds") PROVE Goal
    <3>1. Suits("funds")
      BY <1>1, <1>4, <1>14
      DEF Suits, KeepsToItsTask, FollowsTheClaim, JobAt, Forward, Claimed,
          Undone, PayExisting
    <3> QED BY <1>7, <1>11, <2>1, <3>1
  <2> QED BY <1>9, <1>10, <1>14, <2>1 DEF PayExisting, JobAt
<1>15. ASSUME PayFunds(j) PROVE Goal
  <2>1. CASE JobEnds(j)
    BY <1>9, <2>1
  <2>2. CASE ~JobEnds(j)
    <3>1. Moved(j, {"create"})
      <4>1. JobsType'
        BY JobsTypeStep DEF JobsTypeOK
      <4> QED BY <1>1, <1>15, <2>2, <4>1 DEF PayFunds, Moved, JobsType
    <3>2. Suits("create")
      BY <1>1, <1>4, <1>15 DEF Suits, KeepsToItsTask, FollowsTheClaim, JobAt,
                               Forward, PayFunds
    <3> QED BY <1>7, <1>8, <3>1, <3>2
  <2> QED BY <2>1, <2>2
<1>16. ASSUME PayCreate(j) PROVE Goal
  <2>1. CASE JobEnds(j)
    BY <1>9, <2>1
  <2>2. CASE ~JobEnds(j)
    <3>1. \A step \in {"fulfill", "reserve", "charge"} : Suits(step)
      BY <1>1, <1>4, <1>16 DEF Suits, KeepsToItsTask, FollowsTheClaim, JobAt,
                               Forward, PayCreate
    <3>2. \E step \in {"fulfill", "reserve", "charge"} : Moved(j, {step})
      <4> DEFINE method == MethodOf(QuoteOfJob(j), job[j].funds)
                 next == CASE method = "wallet" -> "fulfill"
                           [] method = "mixed" -> "reserve"
                           [] method = "gateway" -> "charge"
      <4>1. JobsType'
        BY JobsTypeStep DEF JobsTypeOK
      <4>2. job' = [job EXCEPT ![j] = [at |-> next, funds |-> 0]]
        BY <1>16, <2>2 DEF PayCreate
      <4>3. job[j].funds \in Nat
        BY <1>1 DEF JobsType
      <4>4. method \in {"wallet", "mixed", "gateway"}
        BY <4>3, JobFacts, SplitType
      <4>5. next \in {"fulfill", "reserve", "charge"}
        BY <4>4
      <4> HIDE DEF next
      <4>6. Moved(j, {next})
        BY <1>1, <4>1, <4>2 DEF Moved, JobsType
      <4> QED BY <4>5, <4>6
    <3> QED BY <1>7, <1>8, <3>1, <3>2
  <2> QED BY <2>1, <2>2
<1>17. ASSUME PayReserve(j) PROVE Goal
  <2>1. ASSUME JobTo(j, "charge") PROVE Goal
    <3>1. Suits("charge")
      BY <1>1, <1>4, <1>17
      DEF Suits, KeepsToItsTask, FollowsTheClaim, JobAt, Forward, Claimed,
          Undone, PayReserve
    <3> QED BY <1>7, <1>11, <2>1, <3>1
  <2> QED BY <1>9, <1>10, <1>17, <2>1 DEF PayReserve, JobAt
<1>18. ASSUME HookReceive(j) PROVE Goal
  <2>1. JobOf[j].task = "hook" /\ order'[o] # "none"
    BY <1>2, <1>4, <1>6, <1>18 DEF HookReceive, Forward
  <2>2. ASSUME JobTo(j, "record") PROVE Goal
    <3>1. Suits("record")
      BY <2>1 DEF Suits
    <3> QED BY <1>7, <1>11, <2>2, <3>1
  <2> QED BY <1>12, <1>18, <2>1, <2>2 DEF HookReceive
<1>19. ASSUME HookRecord(j) PROVE Goal
  <2>1. JobOf[j].task = "hook" /\ order'[o] # "none"
    BY <1>1, <1>4, <1>19 DEF HookRecord, JobAt, KeepsToItsTask, FollowsTheClaim,
                             Forward
  <2> QED BY <1>9, <1>12, <1>19, <2>1 DEF HookRecord
<1>20. ASSUME FulfillRead(j) PROVE Goal
  <2>1. ASSUME JobTo(j, "claim") PROVE Goal
    <3>1. Suits("claim")
      BY <1>1, <1>4, <1>20
      DEF Suits, KeepsToItsTask, FollowsTheClaim, JobAt, Forward, Claimed,
          Undone, FulfillRead
    <3> QED BY <1>7, <1>11, <2>1, <3>1
  <2> QED BY <1>9, <1>10, <1>20, <2>1 DEF FulfillRead, JobAt
<1>21. ASSUME FulfillClaim(j) PROVE Goal
  <2>1. ASSUME ClaimPaid(o), JobTo(j, "post") PROVE Goal
    <3>1. Suits("post")
      BY <1>1, <1>2, <1>3, <1>21, <2>1
      DEF Suits, KeepsToItsTask, FollowsTheClaim, JobAt, Claimed, FulfillClaim,
          ClaimPaid
    <3> QED BY <1>7, <1>11, <2>1, <3>1
  <2> QED BY <1>9, <1>10, <1>21, <2>1 DEF FulfillClaim, JobAt
<1>22. ASSUME FulfillPost(j) PROVE Goal
  <2>1. ASSUME JobTo(j, "enqueue") PROVE Goal
    <3>1. job'[j].at = "enqueue"
      BY <1>1, <1>7, <2>1, JobGoesOn DEF Moved
    <3>2. Posted("order_payment", o)'
      BY <1>22, <3>1, LedgerStep
    <3>3. Suits("enqueue")
      BY <1>1, <1>4, <1>22, <3>2 DEF Suits, KeepsToItsTask, FollowsTheClaim,
                                     JobAt, Forward, Claimed, FulfillPost
    <3> QED BY <1>7, <1>11, <2>1, <3>3
  <2> QED BY <1>9, <1>22, <2>1 DEF FulfillPost
<1>23. ASSUME FailRead(j) PROVE Goal
  <2>1. CASE Return(j)
    BY <1>10, <1>23, <2>1 DEF FailRead, JobAt
  <2>2. CASE ~Return(j)
    <3>1. Suits("return") /\ Suits("failTx")
      BY <1>1, <1>4, <1>23 DEF Suits, KeepsToItsTask, FollowsTheClaim, JobAt,
                               Forward, FailRead
    <3> QED BY <1>7, <1>11, <1>23, <2>2, <3>1 DEF FailRead
  <2> QED BY <2>1, <2>2
<1>24. ASSUME FailReturn(j) PROVE Goal
  <2>1. ASSUME JobTo(j, "failTx") PROVE Goal
    <3>1. Suits("failTx")
      BY <1>1, <1>4, <1>24
      DEF Suits, KeepsToItsTask, FollowsTheClaim, JobAt, Forward, Claimed,
          Undone, FailReturn
    <3> QED BY <1>7, <1>11, <2>1, <3>1
  <2> QED BY <1>9, <1>10, <1>24, <2>1 DEF FailReturn, JobAt
<1>25. ASSUME EventRefundBegin(j) PROVE Goal
  <2>1. ASSUME JobTo(j, "reverse") PROVE Goal
    <3>1. Suits("reverse")
      BY <1>4, <1>25
      DEF Suits, EventRefundBegin, ReversalKind, Reversals, Forward
    <3> QED BY <1>7, <1>11, <2>1, <3>1
  <2> QED BY <1>9, <1>10, <1>25, <2>1 DEF EventRefundBegin, JobAt
<1>26. ASSUME ReverseClaim(j) PROVE Goal
  <2>1. ASSUME ClaimRefunded(o), JobTo(j, "reversePost") PROVE Goal
    <3>1. Suits("reversePost")
      BY <1>1, <1>2, <1>3, <1>4, <1>26, <2>1
      DEF Suits, KeepsToItsTask, FollowsTheClaim, JobAt, Forward, Undone,
          ReverseClaim, ClaimRefunded
    <3> QED BY <1>7, <1>11, <2>1, <3>1
  <2> QED BY <1>9, <1>10, <1>26, <2>1 DEF ReverseClaim, JobAt
<1>27. ASSUME ReversePost(j) PROVE Goal
  <2>1. ASSUME JobTo(j, "reverseTx") PROVE Goal
    <3>1. Suits("reverseTx")
      BY <1>1, <1>4, <1>27
      DEF Suits, KeepsToItsTask, FollowsTheClaim, JobAt, Forward, Claimed,
          Undone, ReversePost
    <3> QED BY <1>7, <1>11, <2>1, <3>1
  <2> QED BY <1>9, <1>10, <1>27, <2>1 DEF ReversePost, JobAt
<1>28. ASSUME ReverseTx(j) PROVE Goal
  <2>1. ASSUME JobTo(j, "revoke") PROVE Goal
    <3>1. Suits("revoke")
      BY <1>1, <1>4, <1>28
      DEF Suits, KeepsToItsTask, FollowsTheClaim, JobAt, Forward, Claimed,
          Undone, ReverseTx
    <3> QED BY <1>7, <1>11, <2>1, <3>1
  <2> QED BY <1>9, <1>10, <1>28, <2>1 DEF ReverseTx, JobAt
<1>29. ASSUME PayCharge(j) PROVE Goal
  BY <1>9, <1>10, <1>29 DEF PayCharge, JobAt
<1>30. ASSUME HookMark(j) PROVE Goal
  BY <1>9, <1>10, <1>30 DEF HookMark, JobAt
<1>31. ASSUME FulfillEnqueue(j) PROVE Goal
  BY <1>9, <1>10, <1>31 DEF FulfillEnqueue, JobAt
<1>32. ASSUME FailTx(j) PROVE Goal
  BY <1>9, <1>10, <1>32 DEF FailTx, JobAt
<1>33. ASSUME ReverseRevoke(j) PROVE Goal
  BY <1>9, <1>10, <1>33 DEF ReverseRevoke, JobAt
<1>34. ASSUME CrashJob(j) PROVE Goal
  BY <1>9, <1>10, <1>34 DEF CrashJob, JobAt
<1> QED
  BY <1>13, <1>14, <1>15, <1>16, <1>17, <1>18, <1>19, <1>20, <1>21, <1>22,
     <1>23, <1>24, <1>25, <1>26, <1>27, <1>28, <1>29, <1>30, <1>31, <1>32,
     <1>33, <1>34
  DEF JobAction, PayStep, HandlerStep, Goal

-----------------------------------------------------------------------------
(* The inductive invariant.                                                *)

\* Every step leaves the sale's invariant and moves every order forward.
LEMMA StepKeepsSale ==
  ASSUME PaymentsInv, [PaymentsNext]_paymentsVars
  PROVE  SaleInv' /\ \A o \in Orders : Forward(o)
BY StepIsCheckout, SaleInvNext, OrdersMoveForward DEF PaymentsInv

\* The types are those of checkout, ledger and jobs together.
LEMMA TypesTogether ==
  ASSUME SaleInv', LedgerInv', JobsTypeOK'
  PROVE  PaymentsTypeOK'
BY DEF PaymentsTypeOK, SaleInv, LedgerInv, JobsTypeOK, JobsType

\* Only a job that has begun writes the row of its payment or asks the gateway
\* (initiate, fulfill, fail, reverse).
LEMMA PaymentsComeFromJobs ==
  ASSUME PaymentsInv, NEW j \in Jobs, JobAction(j),
         NEW p \in Payments, payment'[p].status # "none" \/ p \in asked'
  PROVE  \/ payment[p].status # "none" \/ p \in asked
         \/ p = PaymentOf(j) /\ job[j].at # "idle"
<1>1. payment \in [Payments -> PaymentType]
  BY DEF PaymentsInv, PaymentsTypeOK
<1>2. CASE PayCreate(j)
  BY <1>1, <1>2 DEF PayCreate, JobAt, GatewayUntouched
<1>3. CASE PayCharge(j)
  BY <1>3 DEF PayCharge, JobAt
<1>4. CASE FulfillClaim(j) \/ FailTx(j) \/ ReverseTx(j)
  BY <1>1, <1>4
  DEF FulfillClaim, FailTx, ReverseTx, SetPayment, JobAt, GatewayUntouched
<1>5. CASE UNCHANGED <<payment, asked>>
  BY <1>5
<1> QED
  BY <1>2, <1>3, <1>4, <1>5
  DEF JobAction, PayBegin, PayStep, PayExisting, PayFunds, PayReserve,
      HookReceive, EventRefundBegin, HandlerStep, HookRecord, HookMark,
      FulfillRead, FulfillPost, FulfillEnqueue, FailRead, FailReturn,
      ReverseClaim, ReversePost, ReverseRevoke, CrashJob, GatewayUntouched

\* Only a job that is to order the tickets of an order does, and a revocation
\* makes no ticket (fulfill, reverse).
LEMMA TicketsComeFromJobs ==
  ASSUME PaymentsInv, NEW j \in Jobs, JobAction(j), NEW o \in Orders,
         issuing'[o] # "none" \/ ticket'[o] # "none"
  PROVE  \/ issuing[o] # "none" \/ ticket[o] # "none"
         \/ o = OrderOfJob(j) /\ job[j].at = "enqueue"
<1>1. /\ issuing \in [Orders -> {"none", "queued", "create"}]
      /\ ticket \in [Orders -> {"none", "valid", "revoked"}]
  BY DEF PaymentsInv, PaymentsTypeOK
<1>2. CASE FulfillEnqueue(j)
  BY <1>1, <1>2 DEF FulfillEnqueue, JobAt
<1>3. CASE ReverseRevoke(j)
  BY <1>1, <1>3 DEF ReverseRevoke
<1>4. CASE UNCHANGED <<issuing, ticket>>
  BY <1>4
<1> QED
  BY <1>2, <1>3, <1>4
  DEF JobAction, PayBegin, PayStep, PayExisting, PayFunds, PayCreate, PayReserve,
      PayCharge, HookReceive, EventRefundBegin, HandlerStep, HookRecord, HookMark,
      FulfillRead, FulfillClaim, FulfillPost, FailRead, FailReturn, FailTx,
      ReverseClaim, ReversePost, ReverseTx, CrashJob, ticketVars

\* Every step of a job keeps the invariant.
LEMMA JobKeepsInv ==
  ASSUME PaymentsInv, NEW j \in Jobs, JobAction(j)
  PROVE  PaymentsInv'
<1> DEFINE o == OrderOfJob(j)
<1>1. SaleInv' /\ \A p \in Orders : Forward(p)
  <2>1. [PaymentsNext]_paymentsVars
    BY DEF PaymentsNext, JobAction
  <2> QED BY <2>1, StepKeepsSale
<1>2. LedgerInv' /\ JournalGrows(j)
  BY LedgerStep
<1>3. PaymentsTypeOK'
  BY <1>1, <1>2, JobsTypeStep, TypesTogether
<1>4. /\ \A k \in Jobs \ {j} : job'[k] = job[k]
      /\ KeepsToItsTask(j)' /\ FollowsTheClaim(j)'
      /\ job'[j].at = "reversePost" =>
           job[j].at = "reverse" /\ order[o] = "paid" /\ order'[o] \in Undone
  BY JobFlow DEF Moved
<1>5. /\ JobsInv /\ PaymentsHaveAnOrder /\ TicketsFollowTheMoney
      /\ OneReversal /\ MoneyFollowsTheClaim
  BY DEF PaymentsInv
<1>6. \A k \in Jobs : OrderOfJob(k) \in Orders
  BY JobFacts
<1>7. JobsInv'
  <2> SUFFICES ASSUME NEW k \in Jobs, k # j
               PROVE  KeepsToItsTask(k)' /\ FollowsTheClaim(k)'
    BY <1>4 DEF JobsInv
  <2>1. job'[k] = job[k] /\ Forward(OrderOfJob(k)) /\ KeepsToItsTask(k)
        /\ FollowsTheClaim(k)
    BY <1>1, <1>4, <1>5, <1>6 DEF JobsInv
  <2>2. KeepsToItsTask(k)'
    BY <2>1 DEF KeepsToItsTask, ReversalKind
  <2>3. FollowsTheClaim(k)'
    BY <1>2, <2>1 DEF FollowsTheClaim, Forward, JournalGrows, OrderOfJob
  <2> QED BY <2>2, <2>3
<1>8. PaymentsHaveAnOrder'
  <2> SUFFICES ASSUME NEW p \in Payments, payment'[p].status # "none" \/ p \in asked'
               PROVE  order'[OrderOf[p]] # "none"
    BY DEF PaymentsHaveAnOrder
  <2>1. OrderOf[p] \in Orders /\ Forward(OrderOf[p])
    BY <1>1, PaymentsAssumption
  <2>2. CASE payment[p].status # "none" \/ p \in asked
    BY <1>5, <2>1, <2>2 DEF PaymentsHaveAnOrder, Forward
  <2>3. CASE p = PaymentOf(j) /\ job[j].at # "idle"
    <3>1. OrderOf[p] = o
      BY <2>3, PaymentsAssumption DEF PaymentOf, OrderOfJob
    <3> QED
      BY <1>5, <2>1, <2>3, <3>1 DEF JobsInv, FollowsTheClaim, Forward
  <2> QED BY <2>2, <2>3, PaymentsComeFromJobs
<1>9. TicketsFollowTheMoney'
  <2> SUFFICES ASSUME NEW p \in Orders, issuing'[p] # "none" \/ ticket'[p] # "none"
               PROVE  Posted("order_payment", p)'
    BY DEF TicketsFollowTheMoney, Posted
  <2>1. Posted("order_payment", p)
    BY <1>5, TicketsComeFromJobs DEF TicketsFollowTheMoney, JobsInv, FollowsTheClaim
  <2> QED BY <1>2, <2>1 DEF JournalGrows
<1>10. OneReversal'
  <2>1. ASSUME NEW i \in Jobs, job'[i].at = "reversePost", NEW k \in Reversals
        PROVE  ~Posted(k, OrderOfJob(i))'
    <3>1. CASE i = j
      BY <1>2, <1>4, <1>5, <1>6, <2>1, <3>1
      DEF OneReversal, JournalGrows, Undone
    <3>2. CASE i # j
      BY <1>2, <1>4, <1>5, <2>1, <3>2 DEF OneReversal, JournalGrows
    <3> QED BY <3>1, <3>2
  <2>2. ASSUME NEW i \in Jobs, NEW l \in Jobs,
               job'[i].at = "reversePost", job'[l].at = "reversePost",
               OrderOfJob(i) = OrderOfJob(l)
        PROVE  i = l
    BY <1>4, <1>5, <2>2 DEF OneReversal, JobsInv, FollowsTheClaim, Undone
  <2>3. ASSUME NEW p \in Orders, NEW k \in Reversals, NEW l \in Reversals,
               Posted(k, p)', Posted(l, p)'
        PROVE  k = l
    BY <1>2, <1>5, <2>3 DEF OneReversal, JournalGrows
  <2>4. ASSUME NEW p \in Orders, NEW k \in Reversals, Posted(k, p)'
        PROVE  order'[p] \in Undone
    BY <1>1, <1>2, <1>5, <2>4
    DEF OneReversal, JournalGrows, JobsInv, FollowsTheClaim, Forward
  <2> QED BY <2>1, <2>2, <2>3, <2>4 DEF OneReversal, OrderOfJob
<1>11. MoneyFollowsTheClaim'
  <2> SUFFICES ASSUME NEW p \in Orders, Posted("order_payment", p)'
               PROVE  order'[p] \in Claimed
    BY DEF MoneyFollowsTheClaim, Claimed, Posted
  <2>1. order[p] \in Claimed
    BY <1>2, <1>5
    DEF MoneyFollowsTheClaim, Claimed, JournalGrows, JobsInv, FollowsTheClaim
  <2> QED BY <1>1, <2>1 DEF Forward
<1> QED
  BY <1>1, <1>2, <1>3, <1>7, <1>8, <1>9, <1>10, <1>11 DEF PaymentsInv

\* The consumer of the tickets queue keeps the invariant (issue).
LEMMA QueueKeepsInv ==
  ASSUME PaymentsInv, NEW o \in Orders, QueueAction(o)
  PROVE  PaymentsInv'
<1>1. SaleInv'
  <2>1. [PaymentsNext]_paymentsVars
    BY DEF PaymentsNext, QueueAction
  <2> QED BY <2>1, StepKeepsSale
<1>2. UNCHANGED <<allCheckoutVars, ledgerVars, payment, asked, hook, acked, job>>
  BY DEF QueueAction, IssueRead, IssueCreate, CrashIssue, OrderUntouched, jobVars
<1>3. LedgerInv' /\ \A k, r : Posted(k, r)' <=> Posted(k, r)
  BY <1>2, LedgerUntouched DEF PaymentsInv
<1>4. order' = order
  BY <1>2 DEF allCheckoutVars, checkoutVars
<1>5. /\ issuing \in [Orders -> {"none", "queued", "create"}]
      /\ ticket \in [Orders -> {"none", "valid", "revoked"}]
      /\ crashes \in 0 .. MaxCrashes
  BY DEF PaymentsInv, PaymentsTypeOK
<1>6. PaymentsTypeOK'
  <2>1. crashes' \in 0 .. MaxCrashes
    BY <1>5, PaymentsAssumption
    DEF QueueAction, IssueRead, IssueCreate, CrashIssue, jobVars
  <2>2. /\ issuing' \in [Orders -> {"none", "queued", "create"}]
        /\ ticket' \in [Orders -> {"none", "valid", "revoked"}]
    BY <1>5 DEF QueueAction, IssueRead, IssueCreate, CrashIssue
  <2>3. JobsTypeOK'
    BY <1>2, <2>1, <2>2 DEF PaymentsInv, PaymentsTypeOK, JobsTypeOK, JobsType
  <2> QED BY <1>1, <1>3, <2>3, TypesTogether
<1>7. JobsInv' /\ PaymentsHaveAnOrder' /\ OneReversal' /\ MoneyFollowsTheClaim'
  BY <1>2, <1>3, <1>4
  DEF PaymentsInv, JobsInv, KeepsToItsTask, FollowsTheClaim, PaymentsHaveAnOrder,
      OneReversal, MoneyFollowsTheClaim, OrderOfJob, ReversalKind
<1>8. TicketsFollowTheMoney'
  <2> SUFFICES ASSUME NEW p \in Orders, issuing'[p] # "none" \/ ticket'[p] # "none"
               PROVE  Posted("order_payment", p)
    BY <1>3 DEF TicketsFollowTheMoney
  <2>1. issuing[p] # "none" \/ ticket[p] # "none"
    BY <1>5 DEF QueueAction, IssueRead, IssueCreate, CrashIssue
  <2> QED BY <2>1 DEF PaymentsInv, TicketsFollowTheMoney
<1> QED BY <1>1, <1>3, <1>6, <1>7, <1>8 DEF PaymentsInv

\* A step of commits, holds, sweeper or event keeps the invariant, and so does
\* one that changes nothing.
LEMMA CheckoutKeepsInv ==
  ASSUME PaymentsInv, [PaymentsNext]_paymentsVars,
         UNCHANGED <<ledgerVars, jobVars, ticketVars>>
  PROVE  PaymentsInv'
<1>1. SaleInv' /\ \A o \in Orders : Forward(o)
  BY StepKeepsSale
<1>2. LedgerInv' /\ \A k, r : Posted(k, r)' <=> Posted(k, r)
  BY LedgerUntouched DEF PaymentsInv
<1>3. UNCHANGED <<payment, asked, hook, acked, job, crashes, issuing, ticket>>
  BY DEF jobVars, ticketVars
<1>4. PaymentsTypeOK'
  <2>1. JobsTypeOK'
    BY <1>3 DEF PaymentsInv, PaymentsTypeOK, JobsTypeOK, JobsType
  <2> QED BY <1>1, <1>2, <2>1, TypesTogether
<1>5. JobsInv'
  <2> SUFFICES ASSUME NEW j \in Jobs
               PROVE  KeepsToItsTask(j)' /\ FollowsTheClaim(j)'
    BY DEF JobsInv
  <2>1. KeepsToItsTask(j) /\ FollowsTheClaim(j) /\ Forward(OrderOfJob(j))
    BY <1>1, JobFacts DEF PaymentsInv, JobsInv
  <2>2. KeepsToItsTask(j)'
    BY <1>3, <2>1 DEF KeepsToItsTask, ReversalKind
  <2>3. FollowsTheClaim(j)'
    BY <1>2, <1>3, <2>1 DEF FollowsTheClaim, Forward, OrderOfJob
  <2> QED BY <2>2, <2>3
<1>6. PaymentsHaveAnOrder'
  BY <1>1, <1>3, PaymentsAssumption DEF PaymentsInv, PaymentsHaveAnOrder, Forward
<1>7. TicketsFollowTheMoney'
  BY <1>2, <1>3 DEF PaymentsInv, TicketsFollowTheMoney
<1>8. OneReversal'
  BY <1>1, <1>2, <1>3 DEF PaymentsInv, OneReversal, Forward, OrderOfJob
<1>9. MoneyFollowsTheClaim'
  BY <1>1, <1>2 DEF PaymentsInv, MoneyFollowsTheClaim, Forward, Claimed
<1> QED BY <1>1, <1>2, <1>4, <1>5, <1>6, <1>7, <1>8, <1>9 DEF PaymentsInv

\* The initial state satisfies the invariant.
LEMMA PaymentsInvInit == PaymentsInit => PaymentsInv
<1> SUFFICES ASSUME PaymentsInit PROVE PaymentsInv
  OBVIOUS
<1>1. SaleInv /\ LedgerInv /\ \A k, r : ~Posted(k, r)
  BY SaleInvInit, LedgerInitInv DEF PaymentsInit, NothingPaid
<1>2. PaymentsTypeOK
  BY <1>1, PaymentsAssumption
  DEF PaymentsInit, NothingPaid, PaymentsTypeOK, SaleInv, LedgerInv, NoRow,
      PaymentType, IdleJob, JobStep
<1>3. JobsInv /\ OneReversal
  BY <1>1 DEF PaymentsInit, NothingPaid, JobsInv, KeepsToItsTask,
              FollowsTheClaim, IdleJob, OneReversal
<1>4. PaymentsHaveAnOrder /\ TicketsFollowTheMoney /\ MoneyFollowsTheClaim
  BY <1>1 DEF PaymentsInit, NothingPaid, PaymentsHaveAnOrder, NoRow,
              TicketsFollowTheMoney, MoneyFollowsTheClaim
<1> QED BY <1>1, <1>2, <1>3, <1>4 DEF PaymentsInv

\* Every step keeps the invariant.
LEMMA PaymentsInvNext ==
  PaymentsInv /\ [PaymentsNext]_paymentsVars => PaymentsInv'
<1> SUFFICES ASSUME PaymentsInv, [PaymentsNext]_paymentsVars PROVE PaymentsInv'
  OBVIOUS
<1>1. CASE UNCHANGED <<ledgerVars, jobVars, ticketVars>>
  BY <1>1, CheckoutKeepsInv
<1>2. CASE \E j \in Jobs : JobAction(j)
  BY <1>2, JobKeepsInv
<1>3. CASE \E o \in Orders : QueueAction(o)
  BY <1>3, QueueKeepsInv
<1> QED
  BY <1>1, <1>2, <1>3 DEF PaymentsNext, paymentsVars, JobAction, QueueAction

-----------------------------------------------------------------------------
(* Theorems.                                                               *)

\* The inductive invariant holds in every reachable state.
THEOREM PaymentsInvariant == PaymentsSpec => []PaymentsInv
BY PaymentsInvInit, PaymentsInvNext, PTL DEF PaymentsSpec

\* Types: orders, balances, payments, webhooks and tickets are what the tables
\* can hold, at every step of every job.
THEOREM PaymentsTypes == PaymentsSpec => []PaymentsTypeOK
<1>1. PaymentsInv => PaymentsTypeOK
  BY DEF PaymentsInv
<1> QED BY <1>1, PaymentsInvariant, PTL

\* Money is never distributed for an order that was not claimed, however
\* payments, webhooks, the sweeper and crashes interleave (fulfill).
THEOREM MoneyIsClaimed == PaymentsSpec => []MoneyFollowsTheClaim
<1>1. PaymentsInv => MoneyFollowsTheClaim
  BY DEF PaymentsInv
<1> QED BY <1>1, PaymentsInvariant, PTL

\* No order is reversed twice, whichever of refunds, chargebacks and event
\* refunds arrive, and whatever crashes and redeliveries (reverse, refundOne).
THEOREM OrdersAreReversedOnce == PaymentsSpec => []ReversedOnce
<1>1. PaymentsInv => ReversedOnce
  <2> SUFFICES ASSUME PaymentsInv, NEW o \in Orders
               PROVE  Cardinality({k \in Reversals : Posted(k, o)}) <= 1
    BY DEF ReversedOnce, Reversals
  <2> DEFINE K == {k \in Reversals : Posted(k, o)}
  <2>1. \A k, l \in K : k = l
    BY DEF PaymentsInv, OneReversal
  <2> HIDE DEF K
  <2>2. ASSUME K = {} PROVE Cardinality(K) <= 1
    BY <2>2, FS_EmptySet
  <2>3. ASSUME K # {} PROVE Cardinality(K) <= 1
    <3>1. PICK k \in K : K = {k}
      BY <2>1, <2>3
    <3> QED BY <3>1, FS_Singleton
  <2> QED BY <2>2, <2>3 DEF K
<1> QED BY <1>1, PaymentsInvariant, PTL

\* No ticket exists for an order whose money is not in the ledger (fulfill,
\* issue).
THEOREM TicketsWerePaidFor == PaymentsSpec => []TicketsArePaidFor
<1>1. PaymentsInv => TicketsArePaidFor
  BY DEF PaymentsInv, TicketsFollowTheMoney, TicketsArePaidFor
<1> QED BY <1>1, PaymentsInvariant, PTL

\* All the money that payments and reversals move comes from somewhere: the
\* balances together come to nothing, and no wallet is in the red, although
\* a wallet is read long before it is debited (initiate, post).
THEOREM BooksStayBalanced ==
  PaymentsSpec => [](BooksBalance /\ WalletsNonNegative)
<1>1. PaymentsInv => BooksBalance /\ WalletsNonNegative
  BY DEF PaymentsInv, LedgerInv
<1> QED BY <1>1, PaymentsInvariant, PTL

\* What is over stays over: no late payment, redelivered webhook or restarted
\* job brings a refunded or cancelled order back, and none undoes a claim but
\* by a refund or a cancellation (fulfill, fail, reverse).
THEOREM OrdersNeverComeBack ==
  PaymentsSpec => [][\A o \in Orders : Forward(o)]_paymentsVars
<1>1. PaymentsInv /\ [PaymentsNext]_paymentsVars =>
        [\A o \in Orders : Forward(o)]_paymentsVars
  BY StepKeepsSale
<1> QED BY <1>1, PaymentsInvariant, PTL DEF PaymentsSpec

\* Payments implement the checkout: whatever the jobs write on orders and
\* seats, each of their steps is one that Checkout allows, or leaves it alone.
THEOREM PaymentsImplementCheckout == PaymentsSpec => ImplementsCheckout
<1>1. PaymentsInit => CheckoutInit
  BY DEF PaymentsInit
<1>2. PaymentsInv /\ [PaymentsNext]_paymentsVars => [CheckoutNext]_allCheckoutVars
  BY StepIsCheckout
<1> QED
  BY <1>1, <1>2, PaymentsInvariant, PTL
  DEF PaymentsSpec, ImplementsCheckout, CheckoutSpec

\* With the payments running, no seat is promised to two orders, no order is
\* sold or released in part, and the sale is the abstract one.
THEOREM PaymentsKeepTheSale ==
  PaymentsSpec => [](SeatsArePromisedOnce /\ OrdersAreWhole) /\ ImplementsSale
BY PaymentsImplementCheckout, SeatsAreSoldOnce, OrdersStayWhole,
   CheckoutImplementsSale, PTL DEF ImplementsCheckout

-----------------------------------------------------------------------------
(* Where each step of a job leads.                                         *)

\* The step a job is at after each of its steps (initiate,
\* processVerifiedWebhook, fulfill, fail, reverse, refundOne).
LEMMA JobTargets ==
  ASSUME PaymentsInv, NEW j \in Jobs
  PROVE  LET type == HookOf[JobOf[j].hook].type
             handlers == {"fulfill", "fail", "reverse"}
             returns == IF JobOf[j].task = "hook" THEN {"mark"} ELSE {"idle"}
             Leads(steps) == job'[j].at \in steps
         IN /\ PayBegin(j) => Leads({"existing"})
            /\ PayExisting(j) => Leads({"funds", "idle"})
            /\ PayFunds(j) => Leads({"create", "idle"})
            /\ PayCreate(j) => Leads({"fulfill", "reserve", "charge", "idle"})
            /\ PayReserve(j) => Leads({"charge", "idle"})
            /\ PayCharge(j) \/ HookMark(j) \/ CrashJob(j) => Leads({"idle"})
            /\ HookReceive(j) => Leads({"record"} \cup handlers)
            /\ HookRecord(j) => Leads({"idle"} \cup handlers)
            /\ HookReceive(j) \/ HookRecord(j) =>
                 /\ job'[j].at = "fulfill" => type = "succeeded"
                 /\ job'[j].at = "fail" => type = "failed"
            /\ FulfillRead(j) => Leads({"claim"} \cup returns)
            /\ FulfillClaim(j) =>
                 \/ Leads({"post"}) /\ ClaimPaid(OrderOfJob(j))
                 \/ Leads(returns) /\ UNCHANGED saleVars
            /\ FulfillPost(j) => Leads({"enqueue", "idle"})
            /\ FulfillEnqueue(j) => Leads(returns)
            /\ FailRead(j) => \/ Leads(returns)
                              \/ /\ Leads({"return", "failTx"})
                                 /\ Row(j).status = "pending"
                                 /\ job'[j].at = "return" => Row(j).method = "mixed"
            /\ FailReturn(j) => Leads({"failTx"})
            /\ FailTx(j) \/ ReverseRevoke(j) => Leads(returns)
            /\ EventRefundBegin(j) => Leads({"reverse"})
            /\ ReverseClaim(j) =>
                 \/ Leads({"reversePost"}) /\ ClaimRefunded(OrderOfJob(j))
                 \/ Leads(returns) /\ UNCHANGED saleVars
            /\ ReversePost(j) => Leads({"reverseTx"})
            /\ ReverseTx(j) => Leads({"revoke"})
<1> DEFINE returns == IF JobOf[j].task = "hook" THEN {"mark"} ELSE {"idle"}
<1>1. JobsType /\ KeepsToItsTask(j)
  BY DEF PaymentsInv, PaymentsTypeOK, JobsInv, JobsType
<1>2. \A step : JobTo(j, step) => job'[j].at = step
  BY <1>1 DEF JobsType, JobTo
<1>3. JobEnds(j) => job'[j].at = "idle"
  BY <1>1 DEF JobsType, JobEnds, IdleJob
<1>4. Return(j) => job'[j].at \in returns
  BY <1>2, <1>3 DEF Return
<1>5. JobOf[j].task = "hook" =>
        \/ HandlerOf(JobOf[j].hook) = "fulfill" /\ HookOf[JobOf[j].hook].type = "succeeded"
        \/ HandlerOf(JobOf[j].hook) = "fail" /\ HookOf[JobOf[j].hook].type = "failed"
        \/ HandlerOf(JobOf[j].hook) = "reverse"
  BY JobFacts DEF HandlerOf, HookTypes
<1>6. PayFunds(j) => job'[j].at \in {"create", "idle"}
  BY <1>1, <1>3 DEF PayFunds, JobsType
<1>7. PayCreate(j) => job'[j].at \in {"fulfill", "reserve", "charge", "idle"}
  <2> SUFFICES ASSUME PayCreate(j), ~JobEnds(j)
               PROVE  job'[j].at \in {"fulfill", "reserve", "charge"}
    BY <1>3
  <2> DEFINE method == MethodOf(QuoteOfJob(j), job[j].funds)
             next == CASE method = "wallet" -> "fulfill"
                       [] method = "mixed" -> "reserve"
                       [] method = "gateway" -> "charge"
  <2>1. job' = [job EXCEPT ![j] = [at |-> next, funds |-> 0]]
    BY DEF PayCreate
  <2>2. method \in {"wallet", "mixed", "gateway"}
    BY <1>1, JobFacts, SplitType DEF JobsType
  <2>3. next \in {"fulfill", "reserve", "charge"}
    BY <2>2
  <2> HIDE DEF next
  <2> QED BY <1>1, <2>1, <2>3 DEF JobsType
<1>8. /\ HookReceive(j) =>
           /\ JobTo(j, "record") \/ JobTo(j, HandlerOf(JobOf[j].hook))
           /\ JobOf[j].task = "hook"
      /\ HookRecord(j) =>
           /\ JobTo(j, HandlerOf(JobOf[j].hook)) \/ JobEnds(j)
           /\ JobOf[j].task = "hook"
  BY <1>1 DEF HookReceive, HookRecord, KeepsToItsTask, JobAt
<1>9. FailRead(j) =>
        \/ job'[j].at \in returns
        \/ /\ job'[j].at \in {"return", "failTx"}
           /\ Row(j).status = "pending"
           /\ job'[j].at = "return" => Row(j).method = "mixed"
  BY <1>2, <1>4 DEF FailRead
<1>10. /\ PayBegin(j) => job'[j].at = "existing"
       /\ PayExisting(j) => job'[j].at \in {"funds", "idle"}
       /\ PayReserve(j) => job'[j].at \in {"charge", "idle"}
       /\ PayCharge(j) \/ HookMark(j) \/ CrashJob(j) => job'[j].at = "idle"
  BY <1>2, <1>3 DEF PayBegin, PayExisting, PayReserve, PayCharge, HookMark, CrashJob
<1>11. /\ FulfillRead(j) => job'[j].at \in {"claim"} \cup returns
       /\ FulfillClaim(j) =>
            \/ job'[j].at = "post" /\ ClaimPaid(OrderOfJob(j))
            \/ job'[j].at \in returns /\ UNCHANGED saleVars
       /\ FulfillPost(j) => job'[j].at \in {"enqueue", "idle"}
       /\ FulfillEnqueue(j) => job'[j].at \in returns
  BY <1>2, <1>3, <1>4 DEF FulfillRead, FulfillClaim, FulfillPost, FulfillEnqueue
<1>12. /\ FailReturn(j) => job'[j].at = "failTx"
       /\ FailTx(j) \/ ReverseRevoke(j) => job'[j].at \in returns
       /\ EventRefundBegin(j) => job'[j].at = "reverse"
       /\ ReverseClaim(j) =>
            \/ job'[j].at = "reversePost" /\ ClaimRefunded(OrderOfJob(j))
            \/ job'[j].at \in returns /\ UNCHANGED saleVars
       /\ ReversePost(j) => job'[j].at = "reverseTx"
       /\ ReverseTx(j) => job'[j].at = "revoke"
  BY <1>2, <1>4
  DEF FailReturn, FailTx, ReverseRevoke, EventRefundBegin, ReverseClaim,
      ReversePost, ReverseTx
<1>13. /\ HookReceive(j) => job'[j].at \in {"record", "fulfill", "fail", "reverse"}
       /\ HookRecord(j) => job'[j].at \in {"idle", "fulfill", "fail", "reverse"}
       /\ HookReceive(j) \/ HookRecord(j) =>
            /\ job'[j].at = "fulfill" => HookOf[JobOf[j].hook].type = "succeeded"
            /\ job'[j].at = "fail" => HookOf[JobOf[j].hook].type = "failed"
  BY <1>2, <1>3, <1>5, <1>8
<1> QED BY <1>6, <1>7, <1>9, <1>10, <1>11, <1>12, <1>13

-----------------------------------------------------------------------------
(* The seats of paid orders, when a refusal is only written on an order    *)
(* that is still pending.                                                  *)

\* What fail does not look at: the transaction that cancels meets an order that
\* is pending.
OnlyPendingIsRefused == \A j \in Jobs : FailTx(j) => order[OrderOfJob(j)] = "pending"

ItemsAreSold == \A o \in Orders : \A s \in items[o] : seat[s] = "sold"

\* An order whose money is in the ledger keeps its items until one job, its only
\* reversal, has posted that and gives them back.
SeatsKept ==
  /\ ItemsAreSold
  /\ \A o \in Orders :
       /\ order[o] \in {"paid", "refunded"} /\ ~Reversed(o) => items[o] = SeatsOf[o]
       /\ Posted("order_payment", o) => order[o] \in {"paid", "refunded"}
  /\ \A j \in Jobs :
       /\ job[j].at = "post" => order[OrderOfJob(j)] \in {"paid", "refunded"}
       /\ job[j].at \in {"reversePost", "reverseTx"} =>
            /\ order[OrderOfJob(j)] = "refunded"
            /\ items[OrderOfJob(j)] = SeatsOf[OrderOfJob(j)]
       /\ job[j].at = "reverseTx" => Reversed(OrderOfJob(j))
  /\ \A i, j \in Jobs :
       /\ {job[i].at, job[j].at} \subseteq {"reversePost", "reverseTx"}
       /\ OrderOfJob(i) = OrderOfJob(j)
       => i = j

\* How the status and the items of an order move then.
OrderMoves(o) ==
  \/ order'[o] = order[o] /\ items'[o] = items[o]
  \/ order[o] = "none" /\ order'[o] = "pending"
  \/ order[o] = "pending" /\ order'[o] \in {"expired", "cancelled"}
  \/ order[o] = "pending" /\ order'[o] = "paid" /\ items'[o] = items[o]
  \/ order[o] = "paid" /\ order'[o] = "refunded" /\ items'[o] = items[o]
  \/ /\ order[o] = "refunded" /\ order'[o] = "refunded"
     /\ \E j \in Jobs : ReverseTx(j) /\ OrderOfJob(j) = o

\* Releasing the inventory of an order that has all its items takes a seat from
\* no other.
LEMMA ReleaseKeepsSold ==
  ASSUME SaleInv, ItemsAreSold, NEW o \in Orders, items[o] = SeatsOf[o],
         ReleaseInventory(o)
  PROVE  ItemsAreSold' /\ \A p \in Orders \ {o} : items'[p] = items[p]
<1>1. /\ \A p \in Orders : items'[p] = IF p = o THEN {} ELSE items[p]
      /\ \A s \in Seats : seat'[s] = IF s \in SeatsOf[o] THEN "available" ELSE seat[s]
      /\ \A p \in Orders : items[p] \subseteq Seats
  BY DEF SaleInv, CheckoutTypeOK, ReleaseInventory
<1>2. \A p \in Orders \ {o} : items[p] \cap SeatsOf[o] = {}
  BY DEF SaleInv, ItemsAreDisjoint
<1> QED BY <1>1, <1>2 DEF ItemsAreSold

\* The steps of the checkout itself move orders so, and sell what they give out.
LEMMA CheckoutMoves ==
  ASSUME SaleInv, ItemsAreSold, CheckoutStep
  PROVE  ItemsAreSold' /\ \A o \in Orders : OrderMoves(o)
<1>1. /\ order \in [Orders -> OrderStatus] /\ items \in [Orders -> SUBSET Seats]
      /\ \A o \in Orders : SeatsOf[o] \in SUBSET Seats
  BY CheckoutAssumption DEF SaleInv, CheckoutTypeOK
<1>2. CASE UNCHANGED <<seat, order, items>>
  BY <1>2 DEF ItemsAreSold, OrderMoves
<1>3. ASSUME NEW o \in Orders, CommitTx(o)
      PROVE  ItemsAreSold' /\ \A p \in Orders : OrderMoves(p)
  <2>1. CASE UNCHANGED <<seat, order, items>>
    BY <1>2, <2>1
  <2>2. CASE /\ order' = [order EXCEPT ![o] = "pending"]
             /\ items' = [items EXCEPT ![o] = SeatsOf[o]]
             /\ seat' = [s \in Seats |-> IF s \in SeatsOf[o] THEN "sold" ELSE seat[s]]
    <3>1. order[o] = "none"
      BY <1>3 DEF SaleInv, CommitsComeFirst, CommitTx, CommitAt
    <3>2. \A p \in Orders : OrderMoves(p)
      BY <1>1, <2>2, <3>1 DEF OrderMoves
    <3>3. ItemsAreSold'
      BY <1>1, <2>2 DEF ItemsAreSold
    <3> QED BY <3>2, <3>3
  <2> QED BY <1>3, <2>1, <2>2 DEF CommitTx
<1>4. ASSUME NEW o \in Orders, Sweep(o)
      PROVE  ItemsAreSold' /\ \A p \in Orders : OrderMoves(p)
  <2>1. items[o] = SeatsOf[o]
    BY <1>4 DEF SaleInv, OrdersAreWhole, Sweep, Live
  <2>2. ItemsAreSold' /\ \A p \in Orders \ {o} : items'[p] = items[p]
    BY <1>4, <2>1, ReleaseKeepsSold DEF Sweep
  <2> QED BY <1>1, <1>4, <2>2 DEF Sweep, OrderMoves
<1>5. CASE HoldsNext /\ UNCHANGED <<order, items, due, event, commit>>
  <2>1. UNCHANGED seat
    BY <1>5
    DEF HoldsNext, HoldStep, HoldCallStep, BeginHold, BeginHoldByQuantity, Take,
        TakeByQuantity, AddToOwnerSet, RefreshOwnerSet, CountOwnerSet, Release,
        Untrack, CrashRequest, HoldLapses, OwnerSetLapses
  <2> QED BY <1>2, <1>5, <2>1
<1>6. ASSUME NEW o \in Orders, SaleStep(o), ~CommitTx(o), ~Sweep(o)
      PROVE  UNCHANGED <<seat, order, items>>
  BY <1>6
  DEF SaleStep, CommitStepOf, BeginCommit, CheckHolds, CheckEvent, ReadOwnHolds,
      DropOwnHolds, UntrackOwnHolds, CrashCommit, Lapse, saleVars
<1>7. CASE SetStatus
  BY <1>2, <1>7 DEF SetStatus, saleVars
<1> QED BY <1>2, <1>3, <1>4, <1>5, <1>6, <1>7 DEF CheckoutStep

\* The steps of the jobs do, if a refusal meets a pending order.
LEMMA JobMoves ==
  ASSUME PaymentsInv, SeatsKept, OnlyPendingIsRefused, NEW j \in Jobs, JobAction(j)
  PROVE  ItemsAreSold' /\ \A o \in Orders : OrderMoves(o)
<1> DEFINE o == OrderOfJob(j)
<1>1. /\ SaleInv /\ ItemsAreSold /\ o \in Orders
      /\ order \in [Orders -> OrderStatus]
  BY JobFacts DEF PaymentsInv, SaleInv, CheckoutTypeOK, SeatsKept
<1>2. CASE UNCHANGED <<seat, order, items>>
  BY <1>1, <1>2 DEF ItemsAreSold, OrderMoves
<1>3. ASSUME ClaimPaid(o) \/ ClaimRefunded(o)
      PROVE  ItemsAreSold' /\ \A p \in Orders : OrderMoves(p)
  BY <1>1, <1>3 DEF ClaimPaid, ClaimRefunded, ItemsAreSold, OrderMoves
<1>4. CASE FulfillClaim(j) \/ ReverseClaim(j)
  BY <1>2, <1>3, <1>4 DEF FulfillClaim, ReverseClaim, saleVars
<1>5. CASE FailTx(j)
  <2>1. order[o] = "pending" /\ items[o] = SeatsOf[o] /\ CancelOrder(o)
    BY <1>1, <1>5 DEF OnlyPendingIsRefused, SaleInv, OrdersAreWhole, Live, FailTx
  <2>2. ItemsAreSold' /\ \A p \in Orders \ {o} : items'[p] = items[p]
    BY <1>1, <2>1, ReleaseKeepsSold DEF CancelOrder
  <2> QED BY <1>1, <2>1, <2>2 DEF CancelOrder, OrderMoves
<1>6. CASE ReverseTx(j)
  <2>1. order[o] = "refunded" /\ items[o] = SeatsOf[o] /\ ReturnSeats(o)
    BY <1>6 DEF SeatsKept, ReverseTx, JobAt
  <2>2. ItemsAreSold' /\ \A p \in Orders \ {o} : items'[p] = items[p]
    BY <1>1, <2>1, ReleaseKeepsSold DEF ReturnSeats
  <2> QED BY <1>1, <1>6, <2>1, <2>2 DEF ReturnSeats, OrderMoves
<1>7. CASE OrderUntouched
  BY <1>2, <1>7 DEF OrderUntouched, allCheckoutVars, checkoutVars
<1> QED
  BY <1>4, <1>5, <1>6, <1>7
  DEF JobAction, PayBegin, PayStep, PayExisting, PayFunds, PayCreate, PayReserve,
      PayCharge, HookReceive, EventRefundBegin, HandlerStep, HookRecord, HookMark,
      FulfillRead, FulfillPost, FulfillEnqueue, FailRead, FailReturn, ReversePost,
      ReverseRevoke, CrashJob


\* What a step does to the journal and to the jobs that post and reverse.
LEMMA PostsAndReversals ==
  ASSUME PaymentsInv, [PaymentsNext]_paymentsVars
  PROVE  /\ \A k, r : Posted(k, r) => Posted(k, r)'
         /\ \A r : Posted("order_payment", r)' =>
              \/ Posted("order_payment", r)
              \/ \E j \in Jobs : job[j].at = "post" /\ r = OrderOfJob(j)
         /\ \A j \in Jobs :
              /\ job'[j].at = "post" =>
                   \/ job[j].at = "post"
                   \/ order[OrderOfJob(j)] = "pending" /\ order'[OrderOfJob(j)] = "paid"
              /\ job'[j].at = "reversePost" =>
                   \/ job[j].at = "reversePost"
                   \/ order[OrderOfJob(j)] = "paid" /\ order'[OrderOfJob(j)] = "refunded"
              /\ job'[j].at = "reverseTx" =>
                   \/ job[j].at = "reverseTx"
                   \/ job[j].at = "reversePost" /\ Reversed(OrderOfJob(j))'
         /\ \A i, j \in Jobs : i = j \/ job'[i] = job[i] \/ job'[j] = job[j]
<1>1. CASE UNCHANGED <<ledgerVars, job>>
  BY <1>1 DEF ledgerVars, Posted
<1>2. ASSUME NEW j \in Jobs, JobAction(j), NEW i \in Jobs
      PROVE  /\ job'[i].at = "post" =>
                  \/ job[i].at = "post"
                  \/ order[OrderOfJob(i)] = "pending" /\ order'[OrderOfJob(i)] = "paid"
             /\ job'[i].at = "reversePost" =>
                  \/ job[i].at = "reversePost"
                  \/ order[OrderOfJob(i)] = "paid" /\ order'[OrderOfJob(i)] = "refunded"
             /\ job'[i].at = "reverseTx" =>
                  \/ job[i].at = "reverseTx"
                  \/ job[i].at = "reversePost" /\ Reversed(OrderOfJob(i))'
  <2>1. \A k \in Jobs \ {j} : job'[k] = job[k]
    BY <1>2, JobFlow DEF Moved
  <2>2. CASE i # j
    BY <2>1, <2>2
  <2>3. CASE i = j /\ FulfillClaim(j)
    BY <1>2, <2>3, JobTargets, JobFacts
    DEF ClaimPaid, PaymentsInv, SaleInv, CheckoutTypeOK
  <2>4. CASE i = j /\ ReverseClaim(j)
    BY <1>2, <2>4, JobTargets, JobFacts
    DEF ClaimRefunded, PaymentsInv, SaleInv, CheckoutTypeOK
  <2>5. CASE i = j /\ ReversePost(j)
    <3>1. job[j].at = "reversePost" /\ job'[j].at = "reverseTx"
      BY <2>5, JobTargets DEF ReversePost, JobAt
    <3>2. ReversalKind(j) \in Reversals
      BY <3>1 DEF PaymentsInv, JobsInv, KeepsToItsTask
    <3>3. Posted(ReversalKind(j), OrderOfJob(j))'
      BY <2>5 DEF ReversePost, PostOnce, Record, Posted, ledgerVars
    <3> QED BY <2>5, <3>1, <3>2, <3>3 DEF Reversed, Reversals, Posted, OrderOfJob
  <2>6. CASE i = j /\ ~FulfillClaim(j) /\ ~ReverseClaim(j) /\ ~ReversePost(j)
    <3>1. job'[j].at \notin {"post", "reversePost", "reverseTx"}
      BY <1>2, <2>6, JobTargets DEF JobAction, PayStep, HandlerStep
    <3> QED BY <2>6, <3>1
  <2> QED BY <2>2, <2>3, <2>4, <2>5, <2>6
<1>3. ASSUME NEW j \in Jobs, JobAction(j)
      PROVE  /\ JournalGrows(j)
             /\ \A i, k \in Jobs : i = k \/ job'[i] = job[i] \/ job'[k] = job[k]
  BY <1>3, LedgerStep, JobFlow DEF Moved
<1>4. CASE \E j \in Jobs : JobAction(j)
  <2>1. PICK j \in Jobs : JobAction(j)
    BY <1>4
  <2>2. JournalGrows(j)
    BY <1>3, <2>1
  <2> QED BY <1>2, <1>3, <2>1, <2>2 DEF JournalGrows
<1>5. CASE ~\E j \in Jobs : JobAction(j)
  BY <1>1, <1>5
  DEF PaymentsNext, JobAction, IssueRead, IssueCreate, CrashIssue, jobVars,
      paymentsVars
<1> QED BY <1>4, <1>5

\* Every step in which a refusal meets a pending order keeps the seats.
LEMMA SeatsKeptNext ==
  ASSUME PaymentsInv, SeatsKept, OnlyPendingIsRefused, [PaymentsNext]_paymentsVars
  PROVE  SeatsKept'
<1>1. ItemsAreSold' /\ \A o \in Orders : OrderMoves(o)
  <2>1. CASE CheckoutStep
    BY <2>1, CheckoutMoves DEF PaymentsInv, SeatsKept
  <2>2. CASE \E j \in Jobs : JobAction(j)
    BY <2>2, JobMoves
  <2>3. CASE UNCHANGED allCheckoutVars
    BY <2>3 DEF allCheckoutVars, checkoutVars, OrderMoves, ItemsAreSold, SeatsKept
  <2> QED
    BY <2>1, <2>2, <2>3
    DEF PaymentsNext, JobAction, IssueRead, IssueCreate, CrashIssue,
        OrderUntouched, paymentsVars
<1>2. \A j \in Jobs : OrderOfJob(j) \in Orders /\ OrderMoves(OrderOfJob(j))
  BY <1>1, JobFacts
<1>3. \A j \in Jobs : ReverseTx(j) =>
        job[j].at = "reverseTx" /\ job'[j].at = "revoke"
  BY JobTargets DEF ReverseTx, JobAt
<1>4. ASSUME NEW o \in Orders, Reversed(o) PROVE Reversed(o)'
  BY <1>4, PostsAndReversals DEF Reversed, Posted
<1>5. ASSUME NEW o \in Orders, order'[o] \in {"paid", "refunded"}, ~Reversed(o)'
      PROVE  items'[o] = SeatsOf[o]
  <2>1. ~Reversed(o)
    BY <1>4, <1>5
  <2>2. \A j \in Jobs : OrderOfJob(j) = o => ~ReverseTx(j)
    BY <1>3, <2>1 DEF SeatsKept
  <2>3. order[o] = "pending" => items[o] = SeatsOf[o]
    BY DEF PaymentsInv, SaleInv, OrdersAreWhole, Live
  <2> QED BY <1>1, <1>5, <2>1, <2>2, <2>3 DEF OrderMoves, SeatsKept
<1>6. ASSUME NEW o \in Orders, Posted("order_payment", o)'
      PROVE  order'[o] \in {"paid", "refunded"}
  <2>1. order[o] \in {"paid", "refunded"}
    BY <1>6, PostsAndReversals DEF SeatsKept
  <2> QED BY <1>1, <2>1 DEF OrderMoves
<1>7. ASSUME NEW j \in Jobs, job'[j].at = "post"
      PROVE  order'[OrderOfJob(j)] \in {"paid", "refunded"}
  BY <1>2, <1>7, PostsAndReversals DEF SeatsKept, OrderMoves
<1>8. ASSUME NEW j \in Jobs, job'[j].at \in {"reversePost", "reverseTx"}
      PROVE  /\ order'[OrderOfJob(j)] = "refunded"
             /\ items'[OrderOfJob(j)] = SeatsOf[OrderOfJob(j)]
  <2> DEFINE o == OrderOfJob(j)
  <2>1. CASE job[j].at \in {"reversePost", "reverseTx"}
    <3>1. order[o] = "refunded" /\ items[o] = SeatsOf[o]
      BY <2>1 DEF SeatsKept
    <3>2. \A k \in Jobs : OrderOfJob(k) = o => ~ReverseTx(k)
      BY <1>3, <1>8, <2>1 DEF SeatsKept
    <3> QED BY <1>2, <3>1, <3>2 DEF OrderMoves
  <2>2. CASE job[j].at \notin {"reversePost", "reverseTx"}
    <3>1. order[o] = "paid" /\ order'[o] = "refunded"
      BY <1>8, <2>2, PostsAndReversals
    <3>2. items[o] = SeatsOf[o] /\ items'[o] = items[o]
      BY <1>2, <3>1 DEF PaymentsInv, SaleInv, OrdersAreWhole, Live, OrderMoves
    <3> QED BY <3>1, <3>2
  <2> QED BY <2>1, <2>2
<1>9. ASSUME NEW j \in Jobs, job'[j].at = "reverseTx"
      PROVE  Reversed(OrderOfJob(j))'
  BY <1>2, <1>4, <1>9, PostsAndReversals DEF SeatsKept, Reversed, OrderOfJob
<1>10. ASSUME NEW i \in Jobs, NEW j \in Jobs, OrderOfJob(i) = OrderOfJob(j),
              {job'[i].at, job'[j].at} \subseteq {"reversePost", "reverseTx"}
       PROVE  i = j
  <2>1. \A k \in {i, j} : \/ job[k].at \in {"reversePost", "reverseTx"}
                          \/ order[OrderOfJob(k)] = "paid"
    BY <1>10, PostsAndReversals
  <2>2. \A k \in {i, j} : job[k].at \in {"reversePost", "reverseTx"} =>
          order[OrderOfJob(k)] = "refunded"
    BY DEF SeatsKept
  <2>3. CASE order[OrderOfJob(j)] = "paid"
    BY <1>10, <2>2, <2>3, PostsAndReversals
  <2>4. CASE order[OrderOfJob(j)] # "paid"
    BY <1>10, <2>1, <2>4 DEF SeatsKept
  <2> QED BY <2>3, <2>4
<1> QED
  BY <1>1, <1>5, <1>6, <1>7, <1>8, <1>9, <1>10
  DEF SeatsKept, Reversed, Posted, OrderOfJob

\* The seats of an order that was paid, and not refunded since, stay off sale,
\* if only a pending order is cancelled by a refusal: the one thing that fail
\* does not make sure of in its transaction is all that is missing (fail).
THEOREM PaidSeatsStaySold ==
  PaymentsSpec /\ [][OnlyPendingIsRefused]_paymentsVars => []PaidSeatsAreNotForSale
<1>1. PaymentsInit => SeatsKept
  BY LedgerInitInv, JobFacts
  DEF PaymentsInit, NothingPaid, CheckoutInit, SeatsKept, ItemsAreSold, IdleJob
<1>2. PaymentsInv /\ SeatsKept /\ [PaymentsNext]_paymentsVars
        /\ [OnlyPendingIsRefused]_paymentsVars => SeatsKept'
  <2> SUFFICES ASSUME PaymentsInv, SeatsKept, [PaymentsNext]_paymentsVars,
                      [OnlyPendingIsRefused]_paymentsVars
               PROVE  SeatsKept'
    OBVIOUS
  <2>1. CASE OnlyPendingIsRefused
    BY <2>1, SeatsKeptNext
  <2>2. CASE UNCHANGED paymentsVars
    BY <2>2
    DEF paymentsVars, allCheckoutVars, checkoutVars, holdVars, ledgerVars, jobVars,
        SeatsKept, ItemsAreSold, Reversed, Posted, OrderOfJob
  <2> QED BY <2>1, <2>2
<1>3. SeatsKept => PaidSeatsAreNotForSale
  BY DEF SeatsKept, ItemsAreSold, PaidSeatsAreNotForSale
<1> QED BY <1>1, <1>2, <1>3, PaymentsInvariant, PTL DEF PaymentsSpec

-----------------------------------------------------------------------------
(* The rows of payments.                                                   *)

\* A pay job finds no row until it creates its own, every later step of a
\* handler has one, and the gateway talks of no payment before it was asked.  The
\* pay job itself goes on to fulfill only what the wallet pays alone.
RowOfJob(j) ==
  /\ job[j].at \in {"existing", "funds", "create"} => Row(j) = NoRow
  /\ job[j].at = "create" => Chargeable(QuoteOfJob(j), job[j].funds)
  /\ JobOf[j].task \in {"pay", "hook"}
     /\ job[j].at \notin {"idle", "existing", "funds", "create"} =>
       Row(j).status # "none"
  /\ job[j].at # "idle" =>
       /\ JobOf[j].task = "hook" => PaymentOf(j) \in asked
       /\ JobOf[j].task = "pay" => PaymentOf(j) \notin asked
  /\ job[j].at \in {"reserve", "return"} => Row(j).method = "mixed"
  /\ job[j].at \in {"fail", "return", "failTx"} =>
       HookOf[JobOf[j].hook].type = "failed"
  /\ job[j].at \in {"fulfill", "claim", "post"} =>
       IF JobOf[j].task = "hook" THEN HookOf[JobOf[j].hook].type = "succeeded"
       ELSE Row(j).method = "wallet"
  /\ job[j].at = "post" => Row(j).status # "pending"

\* A row says how the total was divided when the payment began, and what it
\* waits for: once it is no longer pending, neither is its order.
RowOfPayment(p) ==
  /\ p \in asked => payment[p].status # "none"
  /\ payment[p].status \notin {"none", "pending"} =>
       order[OrderOf[p]] \notin {"none", "pending"}
  /\ payment[p].status # "none" =>
       \E funds \in Nat :
         LET q == Quote[OrderOf[p]] IN
         /\ Chargeable(q, funds)
         /\ payment[p].method = MethodOf(q, funds)
         /\ payment[p].wallet = WalletPortion(q, funds)
         /\ payment[p].charge = GatewayCharge(q, funds)

\* One job at most is about to post the payment of an order.
OnePosting ==
  \A i, j \in Jobs :
    job[i].at = "post" /\ job[j].at = "post" /\ OrderOfJob(i) = OrderOfJob(j) => i = j

RowsInv ==
  /\ \A j \in Jobs : RowOfJob(j)
  /\ \A p \in Payments : RowOfPayment(p)
  /\ OnePosting

\* What a step of a job writes on the rows and asks of the gateway.
LEMMA RowMoves ==
  ASSUME PaymentsInv, NEW j \in Jobs, JobAction(j)
  PROVE  /\ \A p \in Payments :
              \/ payment'[p] = payment[p]
              \/ /\ PayCreate(j) /\ p = PaymentOf(j) /\ job'[j].at # "idle"
                 /\ payment'[p] =
                      [status |-> "pending",
                       method |-> MethodOf(QuoteOfJob(j), job[j].funds),
                       wallet |-> WalletPortion(QuoteOfJob(j), job[j].funds),
                       charge |-> GatewayCharge(QuoteOfJob(j), job[j].funds)]
              \/ /\ FulfillClaim(j) \/ FailTx(j) \/ ReverseTx(j)
                 /\ p = PaymentOf(j)
                 /\ JobOf[j].task \in {"pay", "hook"}
                 /\ payment'[p].status \notin {"none", "pending"}
                 /\ payment'[p].method = payment[p].method
                 /\ payment'[p].wallet = payment[p].wallet
                 /\ payment'[p].charge = payment[p].charge
                 /\ order'[OrderOf[p]] \notin {"none", "pending"}
         /\ asked' = IF PayCharge(j) THEN asked \cup {PaymentOf(j)} ELSE asked
<1> DEFINE o == OrderOfJob(j)
<1>1. /\ payment \in [Payments -> PaymentType] /\ JobsType
      /\ order \in [Orders -> OrderStatus]
      /\ KeepsToItsTask(j) /\ FollowsTheClaim(j)
  BY DEF PaymentsInv, PaymentsTypeOK, JobsInv, JobsType, SaleInv, CheckoutTypeOK
<1>2. asked' = IF PayCharge(j) THEN asked \cup {PaymentOf(j)} ELSE asked
  BY DEF JobAction, PayBegin, PayStep, PayExisting, PayFunds, PayCreate, PayReserve,
      PayCharge, HookReceive, EventRefundBegin, HandlerStep, HookRecord, HookMark,
      FulfillRead, FulfillClaim, FulfillPost, FulfillEnqueue, FailRead, FailReturn,
      FailTx, ReverseClaim, ReversePost, ReverseTx, ReverseRevoke, CrashJob,
      GatewayUntouched
<1>3. CASE UNCHANGED payment
  BY <1>2, <1>3
<1>4. CASE PayCreate(j) /\ ~UNCHANGED payment
  <2>1. job'[j].at # "idle"
    <3> DEFINE method == MethodOf(QuoteOfJob(j), job[j].funds)
               next == CASE method = "wallet" -> "fulfill"
                         [] method = "mixed" -> "reserve"
                         [] method = "gateway" -> "charge"
    <3>1. job' = [job EXCEPT ![j] = [at |-> next, funds |-> 0]]
      BY <1>4 DEF PayCreate
    <3>2. method \in {"wallet", "mixed", "gateway"}
      BY <1>1, JobFacts, SplitType DEF JobsType
    <3>3. next # "idle"
      BY <3>2
    <3> HIDE DEF next
    <3> QED BY <1>1, <3>1, <3>3 DEF JobsType
  <2> QED BY <1>1, <1>2, <1>4, <2>1 DEF PayCreate
<1>5. CASE /\ FulfillClaim(j) \/ FailTx(j) \/ ReverseTx(j)
           /\ ~UNCHANGED payment
  <2>1. JobOf[j].task \in {"pay", "hook"} /\ PaymentOf(j) \in Payments
        /\ OrderOf[PaymentOf(j)] = o /\ o \in Orders
    BY <1>1, <1>5, JobFacts
    DEF FulfillClaim, FailTx, ReverseTx, JobAt, KeepsToItsTask
  <2>2. order'[o] \notin {"none", "pending"}
    BY <1>1, <1>5, <2>1
    DEF FulfillClaim, FailTx, ReverseTx, JobAt, FollowsTheClaim, ClaimPaid,
        CancelOrder, ReturnSeats, saleVars, Undone
  <2>3. \E status \in {"succeeded", "failed", "refunded"} :
          payment' = [payment EXCEPT ![PaymentOf(j)].status = status]
    BY <1>5 DEF FulfillClaim, FailTx, ReverseTx, SetPayment
  <2> QED BY <1>1, <1>2, <1>5, <2>1, <2>2, <2>3 DEF PaymentType
<1> QED
  BY <1>3, <1>4, <1>5
  DEF JobAction, PayBegin, PayStep, PayExisting, PayFunds, PayReserve,
      PayCharge, HookReceive, EventRefundBegin, HandlerStep, HookRecord, HookMark,
      FulfillRead, FulfillPost, FulfillEnqueue, FailRead, FailReturn,
      ReverseClaim, ReversePost, ReverseRevoke, CrashJob


\* Every step of a job keeps the rows.
LEMMA JobKeepsRows ==
  ASSUME PaymentsInv, RowsInv, NEW j \in Jobs, JobAction(j)
  PROVE  RowsInv'
<1> DEFINE o == OrderOfJob(j)
           at == job[j].at
           next == job'[j].at
<1>1. /\ payment \in [Payments -> PaymentType] /\ JobsType
      /\ KeepsToItsTask(j) /\ RowOfJob(j)
  BY DEF PaymentsInv, PaymentsTypeOK, JobsInv, JobsType, RowsInv
<1>2. \A k \in Jobs \ {j} : job'[k] = job[k]
  BY JobFlow DEF Moved
<1>3. \A p \in Orders : Forward(p)
  <2>1. [PaymentsNext]_paymentsVars
    BY DEF PaymentsNext, JobAction
  <2> QED BY <2>1, StepKeepsSale
<1>4. \A k \in Jobs :
        JobOf[k].task \in {"pay", "hook"} =>
          /\ PaymentOf(k) \in Payments /\ OrderOf[PaymentOf(k)] = OrderOfJob(k)
          /\ OrderOfJob(k) \in Orders
  BY JobFacts
<1>5. ASSUME NEW p \in Payments
      PROVE  /\ \/ payment'[p] = payment[p]
                \/ payment'[p].status = "pending"
                \/ /\ payment'[p].status \notin {"none", "pending"}
                   /\ order'[OrderOf[p]] \notin {"none", "pending"}
             /\ payment[p].status # "none" => payment'[p].status # "none"
             /\ p \in asked => p \in asked'
  <2>1. \/ payment'[p] = payment[p]
        \/ payment'[p].status = "pending"
        \/ /\ payment'[p].status \notin {"none", "pending"}
           /\ order'[OrderOf[p]] \notin {"none", "pending"}
    <3>1. CASE payment'[p] = payment[p]
      BY <3>1
    <3>2. CASE payment'[p] # payment[p]
      <4>1. CASE PayCreate(j)
        <5>1. ~(FulfillClaim(j) \/ FailTx(j) \/ ReverseTx(j))
          BY <4>1 DEF FulfillClaim, FailTx, ReverseTx, JobAt, PayCreate
        <5>2. payment'[p] = [status |-> "pending",
                             method |-> MethodOf(QuoteOfJob(j), job[j].funds),
                             wallet |-> WalletPortion(QuoteOfJob(j), job[j].funds),
                             charge |-> GatewayCharge(QuoteOfJob(j), job[j].funds)]
          BY <3>2, <5>1, RowMoves
        <5> QED BY <5>2
      <4>2. CASE ~PayCreate(j)
        BY <3>2, <4>2, RowMoves
      <4> QED BY <4>1, <4>2
    <3> QED BY <3>1, <3>2
  <2>2. asked \subseteq asked'
    BY RowMoves
  <2> QED BY <2>1, <2>2
<1>6. ASSUME NEW p \in Payments PROVE RowOfPayment(p)'
  <2>1. RowOfPayment(p) /\ OrderOf[p] \in Orders
    BY PaymentsAssumption DEF RowsInv
  <2>2. p \in asked' => payment'[p].status # "none"
    <3>1. PayCharge(j) => Row(j).status # "none"
      BY <1>1 DEF RowOfJob, PayCharge, JobAt, KeepsToItsTask
    <3> QED BY <1>5, <2>1, <3>1, RowMoves DEF RowOfPayment, Row
  <2>3. payment'[p].status \notin {"none", "pending"} =>
          order'[OrderOf[p]] \notin {"none", "pending"}
    BY <1>3, <1>5, <2>1 DEF RowOfPayment, Forward
  <2>4. payment'[p].status # "none" =>
          \E funds \in Nat :
            LET q == Quote[OrderOf[p]] IN
            /\ Chargeable(q, funds)
            /\ payment'[p].method = MethodOf(q, funds)
            /\ payment'[p].wallet = WalletPortion(q, funds)
            /\ payment'[p].charge = GatewayCharge(q, funds)
    <3>1. CASE /\ payment'[p].method = payment[p].method
               /\ payment'[p].wallet = payment[p].wallet
               /\ payment'[p].charge = payment[p].charge
               /\ payment[p].status # "none"
      BY <2>1, <3>1 DEF RowOfPayment
    <3>2. CASE payment'[p].status # "none" /\ payment'[p] = payment[p]
      BY <3>1, <3>2
    <3>3. CASE FulfillClaim(j) \/ FailTx(j) \/ ReverseTx(j)
      <4>1. p = PaymentOf(j) /\ JobOf[j].task \in {"pay", "hook"} => Row(j).status # "none"
        BY <1>1, <3>3 DEF RowOfJob, FulfillClaim, FailTx, ReverseTx, JobAt
      <4>2. ~PayCreate(j)
        BY <3>3 DEF FulfillClaim, FailTx, ReverseTx, JobAt, PayCreate
      <4> QED BY <3>1, <3>2, <4>1, <4>2, RowMoves DEF Row
    <3>4. CASE PayCreate(j) /\ payment'[p] # payment[p]
      <4>1. JobOf[j].task = "pay" /\ job[j].funds \in Nat
            /\ Chargeable(QuoteOfJob(j), job[j].funds)
        BY <1>1, <3>4 DEF RowOfJob, PayCreate, JobAt, KeepsToItsTask, JobsType
      <4>2. p = PaymentOf(j) /\ QuoteOfJob(j) = Quote[OrderOf[p]]
            /\ payment'[p].method = MethodOf(QuoteOfJob(j), job[j].funds)
            /\ payment'[p].wallet = WalletPortion(QuoteOfJob(j), job[j].funds)
            /\ payment'[p].charge = GatewayCharge(QuoteOfJob(j), job[j].funds)
        <5>1. ~(FulfillClaim(j) \/ FailTx(j) \/ ReverseTx(j))
          BY <3>4 DEF FulfillClaim, FailTx, ReverseTx, JobAt, PayCreate
        <5>2. p = PaymentOf(j) /\ QuoteOfJob(j) = Quote[OrderOf[p]]
          BY <1>4, <3>4, <4>1, <5>1, RowMoves, JobFacts
        <5>3. payment'[p] = [status |-> "pending",
                             method |-> MethodOf(QuoteOfJob(j), job[j].funds),
                             wallet |-> WalletPortion(QuoteOfJob(j), job[j].funds),
                             charge |-> GatewayCharge(QuoteOfJob(j), job[j].funds)]
          BY <3>4, <5>1, RowMoves
        <5> QED BY <5>2, <5>3
      <4> QED BY <4>1, <4>2
    <3> QED BY <3>2, <3>3, <3>4, RowMoves
  <2> QED BY <2>2, <2>3, <2>4 DEF RowOfPayment
<1>7. ASSUME NEW k \in Jobs, k # j PROVE RowOfJob(k)'
  <2>1. /\ RowOfJob(k) /\ KeepsToItsTask(k) /\ job'[k] = job[k]
        /\ JobOf[k].task \in Tasks
    BY <1>2, <1>7, JobFacts DEF PaymentsInv, JobsInv, RowsInv
  <2>2. CASE job[k].at = "idle"
    BY <2>1, <2>2 DEF RowOfJob
  <2>3. CASE job[k].at # "idle" /\ JobOf[k].task = "eventRefund"
    BY <2>1, <2>3 DEF RowOfJob, KeepsToItsTask, QuoteOfJob, OrderOfJob
  <2>4. CASE job[k].at # "idle" /\ JobOf[k].task \in {"pay", "hook"}
    <3> DEFINE p == PaymentOf(k)
    <3>1. p \in Payments /\ RowOfPayment(p)
      BY <1>4, <2>4 DEF RowsInv
    <3>2. /\ JobOf[k].task = "hook" => p \in asked'
          /\ JobOf[k].task = "pay" => p \notin asked'
      <4>1. PayCharge(j) => JobOf[j].task = "pay"
        BY <1>1 DEF PayCharge, JobAt, KeepsToItsTask
      <4>2. PayCharge(j) /\ JobOf[k].task = "pay" => PaymentOf(j) # p
        BY <1>7, <4>1, PaymentsAssumption DEF PaymentOf
      <4>3. asked' = IF PayCharge(j) THEN asked \cup {PaymentOf(j)} ELSE asked
        BY RowMoves
      <4> QED BY <2>1, <2>4, <4>2, <4>3 DEF RowOfJob
    <3>3. CASE payment'[p] = payment[p]
      BY <2>1, <3>2, <3>3
      DEF RowOfJob, QuoteOfJob, OrderOfJob, Row, PaymentOf
    <3>4. CASE PayCreate(j) /\ p = PaymentOf(j)
      <4>1. JobOf[j].task = "pay" /\ Row(j) = NoRow
        BY <1>1, <3>4 DEF RowOfJob, PayCreate, JobAt, KeepsToItsTask
      <4>2. JobOf[k].task = "hook"
        BY <1>7, <2>4, <3>4, <4>1, PaymentsAssumption DEF PaymentOf
      <4> QED
        BY <2>1, <2>4, <3>1, <3>4, <4>1, <4>2 DEF RowOfJob, RowOfPayment, Row, NoRow
    <3>5. CASE /\ FulfillClaim(j) \/ FailTx(j) \/ ReverseTx(j)
               /\ p = PaymentOf(j) /\ JobOf[j].task \in {"pay", "hook"}
               /\ payment'[p].status \notin {"none", "pending"}
               /\ payment'[p].method = payment[p].method
      <4>1. Row(j).status # "none"
        BY <1>1, <3>5 DEF RowOfJob, FulfillClaim, FailTx, ReverseTx, JobAt
      <4>2. Row(k) # NoRow
        BY <3>5, <4>1 DEF Row, NoRow
      <4> QED
        BY <2>1, <3>2, <3>5, <4>2
        DEF RowOfJob, QuoteOfJob, OrderOfJob, Row, PaymentOf
    <3> QED BY <3>1, <3>3, <3>4, <3>5, RowMoves
  <2> QED BY <2>1, <2>2, <2>3, <2>4 DEF Tasks
<1>8. ASSUME next # "idle" PROVE RowOfJob(j)'
  <2>1. JobOf[j].task = "hook" => PaymentOf(j) \in asked'
    BY <1>1, <1>4, <1>5, <1>8
    DEF RowOfJob, JobAction, PayBegin, HookReceive, EventRefundBegin, PayStep,
        HandlerStep, PayExisting, PayFunds, PayCreate, PayReserve, PayCharge,
        HookRecord, HookMark, FulfillRead, FulfillClaim, FulfillPost, FulfillEnqueue,
        FailRead, FailReturn, FailTx, ReverseClaim, ReversePost, ReverseTx,
        ReverseRevoke, CrashJob, JobAt
  <2>2. JobOf[j].task = "pay" => PaymentOf(j) \notin asked'
    <3>1. ~PayCharge(j)
      BY <1>8, JobTargets
    <3>2. CASE at # "idle"
      BY <1>1, <3>1, <3>2, RowMoves DEF RowOfJob
    <3>3. CASE at = "idle" /\ JobOf[j].task = "pay"
      <4>1. PayBegin(j)
        BY <3>3
        DEF JobAction, PayBegin, HookReceive, EventRefundBegin, PayStep,
            HandlerStep, PayExisting, PayFunds, PayCreate, PayReserve, PayCharge,
            HookRecord, HookMark, FulfillRead, FulfillClaim, FulfillPost,
            FulfillEnqueue, FailRead, FailReturn, FailTx, ReverseClaim, ReversePost,
            ReverseTx, ReverseRevoke, CrashJob, JobAt
      <4> QED
        BY <1>4, <3>1, <3>3, <4>1, RowMoves
        DEF PayBegin, Row, NoRow, RowsInv, RowOfPayment
    <3> QED BY <3>2, <3>3
  <2>3. JobOf[j].task \in {"pay", "hook"} /\ next \notin {"existing", "funds", "create"}
          => payment'[PaymentOf(j)].status # "none"
    <3> SUFFICES ASSUME JobOf[j].task \in {"pay", "hook"},
                        next \notin {"existing", "funds", "create"}
                 PROVE  payment'[PaymentOf(j)].status # "none"
      OBVIOUS
    <3>1. CASE at \notin {"idle", "existing", "funds", "create"}
      BY <1>1, <1>4, <1>5, <3>1 DEF RowOfJob, Row
    <3>2. CASE HookReceive(j)
      BY <1>4, <1>5, <3>2 DEF HookReceive, RowsInv, RowOfPayment
    <3>3. CASE PayCreate(j)
      <4>1. ~JobEnds(j)
        BY <1>1, <1>8, JobIsOver DEF Moved
      <4> QED BY <1>1, <1>4, <3>3, <4>1 DEF PayCreate
    <3>4. CASE PayBegin(j) \/ PayExisting(j) \/ PayFunds(j)
      BY <1>8, <3>4, JobTargets
    <3>5. CASE at \in {"idle", "existing", "funds", "create"}
      <4>1. \/ PayBegin(j) \/ PayExisting(j) \/ PayFunds(j) \/ PayCreate(j)
            \/ HookReceive(j)
        BY <1>8, <3>5, JobTargets
        DEF JobAction, EventRefundBegin, PayStep, HandlerStep, PayReserve, PayCharge,
            HookRecord, HookMark, FulfillRead, FulfillClaim, FulfillPost,
            FulfillEnqueue, FailRead, FailReturn, FailTx, ReverseClaim, ReversePost,
            ReverseTx, ReverseRevoke, JobAt
      <4> QED BY <3>2, <3>3, <3>4, <4>1
    <3> QED BY <3>1, <3>5
  <2>4. ASSUME next \in {"existing", "funds", "create"}
        PROVE  /\ payment'[PaymentOf(j)] = NoRow
               /\ next = "create" => Chargeable(QuoteOfJob(j), job'[j].funds)
    <3>1. PayBegin(j) \/ PayExisting(j) \/ PayFunds(j)
      BY <2>4, JobTargets DEF JobAction, PayStep, HandlerStep
    <3>2. payment'[PaymentOf(j)] = NoRow
      BY <1>1, <3>1 DEF PayBegin, PayExisting, PayFunds, RowOfJob, Row, JobAt
    <3>3. next = "create" => PayFunds(j)
      BY <3>1, JobTargets
    <3>4. PayFunds(j) /\ next = "create" => Chargeable(QuoteOfJob(j), job'[j].funds)
      BY <1>1, JobIsOver DEF PayFunds, JobsType, Moved
    <3> QED BY <3>2, <3>3, <3>4
  <2>5. next \in {"reserve", "return"} => payment'[PaymentOf(j)].method = "mixed"
    <3>1. CASE next = "return"
      <4>1. FailRead(j)
        BY <3>1, JobTargets DEF JobAction, PayStep, HandlerStep
      <4> QED BY <3>1, <4>1, JobTargets DEF FailRead, Row
    <3>2. CASE next = "reserve"
      <4> DEFINE method == MethodOf(QuoteOfJob(j), job[j].funds)
      <4>1. PayCreate(j)
        BY <3>2, JobTargets DEF JobAction, PayStep, HandlerStep
      <4>2. PaymentOf(j) \in Payments
        BY <1>1, <1>4, <4>1 DEF PayCreate, JobAt, KeepsToItsTask
      <4>3. ~JobEnds(j)
        BY <1>1, <1>8, JobIsOver DEF Moved
      <4>4. method \in {"wallet", "mixed", "gateway"}
        BY DEF MethodOf
      <4> HIDE DEF method
      <4>5. /\ payment' = [payment EXCEPT ![PaymentOf(j)] =
                 [status |-> "pending", method |-> method,
                  wallet |-> WalletPortion(QuoteOfJob(j), job[j].funds),
                  charge |-> GatewayCharge(QuoteOfJob(j), job[j].funds)]]
            /\ job' = [job EXCEPT ![j] =
                 [at |-> CASE method = "wallet" -> "fulfill"
                           [] method = "mixed" -> "reserve"
                           [] method = "gateway" -> "charge",
                  funds |-> 0]]
        BY <4>1, <4>3 DEF PayCreate, method
      <4>6. next = CASE method = "wallet" -> "fulfill"
                     [] method = "mixed" -> "reserve"
                     [] method = "gateway" -> "charge"
        BY <1>1, <4>5 DEF JobsType
      <4>7. method = "mixed"
        BY <3>2, <4>4, <4>6
      <4>8. payment'[PaymentOf(j)].method = method
        BY <1>1, <4>2, <4>5
      <4> QED BY <4>7, <4>8
    <3> QED BY <3>1, <3>2
  <2>6. next \in {"fail", "return", "failTx"} => HookOf[JobOf[j].hook].type = "failed"
    <3> SUFFICES ASSUME next \in {"fail", "return", "failTx"}
                 PROVE  HookOf[JobOf[j].hook].type = "failed"
      OBVIOUS
    <3>1. HookReceive(j) \/ HookRecord(j) \/ FailRead(j) \/ FailReturn(j)
      BY JobTargets DEF JobAction, PayStep, HandlerStep
    <3>2. CASE HookReceive(j) \/ HookRecord(j)
      BY <3>2, JobTargets
    <3> QED BY <1>1, <3>1, <3>2 DEF FailRead, FailReturn, JobAt, RowOfJob
  <2>7. JobOf[j].task = "hook" /\ next \in {"fulfill", "claim", "post"} =>
          HookOf[JobOf[j].hook].type = "succeeded"
    <3> SUFFICES ASSUME JobOf[j].task = "hook", next \in {"fulfill", "claim", "post"}
                 PROVE  HookOf[JobOf[j].hook].type = "succeeded"
      OBVIOUS
    <3>1. \/ HookReceive(j) \/ HookRecord(j) \/ FulfillRead(j) \/ FulfillClaim(j)
          \/ PayCreate(j)
      BY JobTargets DEF JobAction, PayStep, HandlerStep
    <3>2. CASE HookReceive(j) \/ HookRecord(j)
      BY <3>2, JobTargets
    <3>3. ~PayCreate(j)
      BY <1>1 DEF PayCreate, JobAt, KeepsToItsTask
    <3> QED BY <1>1, <3>1, <3>2, <3>3 DEF FulfillRead, FulfillClaim, JobAt, RowOfJob
  <2>8. JobOf[j].task # "hook" /\ next \in {"fulfill", "claim", "post"} =>
          payment'[PaymentOf(j)].method = "wallet"
    <3> SUFFICES ASSUME JobOf[j].task # "hook", next \in {"fulfill", "claim", "post"}
                 PROVE  payment'[PaymentOf(j)].method = "wallet"
      OBVIOUS
    <3>1. FulfillRead(j) \/ FulfillClaim(j) \/ PayCreate(j)
      <4>1. ~HookRecord(j)
        BY <1>1 DEF HookRecord, JobAt, KeepsToItsTask
      <4> QED
        BY <4>1, JobTargets DEF JobAction, PayStep, HandlerStep, HookReceive
    <3>2. CASE FulfillRead(j)
      BY <1>1, <3>2 DEF FulfillRead, JobAt, RowOfJob, Row
    <3>3. CASE FulfillClaim(j)
      <4>1. Row(j).method = "wallet" /\ PaymentOf(j) \in Payments
        BY <1>1, <1>4, <3>3 DEF FulfillClaim, JobAt, RowOfJob, KeepsToItsTask
      <4> QED BY <1>1, <3>3, <4>1 DEF FulfillClaim, SetPayment, Row
    <3>4. CASE PayCreate(j)
      <4> DEFINE method == MethodOf(QuoteOfJob(j), job[j].funds)
      <4>1. PaymentOf(j) \in Payments /\ method \in {"wallet", "mixed", "gateway"}
        BY <1>1, <1>4, <3>4 DEF PayCreate, JobAt, KeepsToItsTask, MethodOf
      <4>2. ~JobEnds(j)
        BY <1>1, <1>8, JobIsOver DEF Moved
      <4> HIDE DEF method
      <4>3. /\ payment' = [payment EXCEPT ![PaymentOf(j)] =
                 [status |-> "pending", method |-> method,
                  wallet |-> WalletPortion(QuoteOfJob(j), job[j].funds),
                  charge |-> GatewayCharge(QuoteOfJob(j), job[j].funds)]]
            /\ job' = [job EXCEPT ![j] =
                 [at |-> CASE method = "wallet" -> "fulfill"
                           [] method = "mixed" -> "reserve"
                           [] method = "gateway" -> "charge",
                  funds |-> 0]]
        BY <3>4, <4>2 DEF PayCreate, method
      <4>4. next = CASE method = "wallet" -> "fulfill"
                     [] method = "mixed" -> "reserve"
                     [] method = "gateway" -> "charge"
        BY <1>1, <4>3 DEF JobsType
      <4>5. method = "wallet"
        BY <4>1, <4>4
      <4> QED BY <1>1, <4>1, <4>3, <4>5
    <3> QED BY <3>1, <3>2, <3>3, <3>4
  <2>9. next = "post" => payment'[PaymentOf(j)].status # "pending"
    <3> SUFFICES ASSUME next = "post" PROVE payment'[PaymentOf(j)].status # "pending"
      OBVIOUS
    <3>1. FulfillClaim(j)
      BY JobTargets DEF JobAction, PayStep, HandlerStep
    <3>2. PaymentOf(j) \in Payments
      BY <1>1, <1>4, <3>1 DEF FulfillClaim, JobAt, KeepsToItsTask
    <3> QED BY <1>1, <3>1, <3>2 DEF FulfillClaim, SetPayment
  <2> QED
    BY <1>8, <2>1, <2>2, <2>3, <2>4, <2>5, <2>6, <2>7, <2>8, <2>9
    DEF RowOfJob, Row, PaymentOf, QuoteOfJob, OrderOfJob
<1>9. next = "idle" => RowOfJob(j)'
  BY DEF RowOfJob
<1>10. OnePosting'
  <2>1. [PaymentsNext]_paymentsVars
    BY DEF PaymentsNext, JobAction
  <2> SUFFICES ASSUME NEW i \in Jobs, NEW k \in Jobs, OrderOfJob(i) = OrderOfJob(k),
                      job'[i].at = "post", job'[k].at = "post"
               PROVE  i = k
    BY DEF OnePosting, OrderOfJob
  <2>2. \A l \in {i, k} : \/ job[l].at = "post" /\ order[OrderOfJob(l)] \in Claimed
                          \/ job[l].at # "post" /\ order[OrderOfJob(l)] = "pending"
    BY <2>1, PostsAndReversals DEF PaymentsInv, JobsInv, FollowsTheClaim
  <2>3. i = k \/ job'[i] = job[i] \/ job'[k] = job[k]
    BY <2>1, PostsAndReversals
  <2> QED BY <2>2, <2>3 DEF Claimed, RowsInv, OnePosting
<1> QED BY <1>6, <1>7, <1>8, <1>9, <1>10 DEF RowsInv

\* The rows are kept by every step.
LEMMA RowsInvNext ==
  PaymentsInv /\ RowsInv /\ [PaymentsNext]_paymentsVars => RowsInv'
<1> SUFFICES ASSUME PaymentsInv, RowsInv, [PaymentsNext]_paymentsVars
             PROVE  RowsInv'
  OBVIOUS
<1>1. CASE \E j \in Jobs : JobAction(j)
  BY <1>1, JobKeepsRows
<1>2. CASE UNCHANGED <<payment, asked, job>>
  <2>1. \A o \in Orders : Forward(o)
    BY StepKeepsSale
  <2>2. ASSUME NEW p \in Payments PROVE RowOfPayment(p)'
    <3>1. RowOfPayment(p) /\ Forward(OrderOf[p])
      BY <2>1, PaymentsAssumption DEF RowsInv
    <3> QED BY <1>2, <3>1 DEF RowOfPayment, Forward
  <2>3. ASSUME NEW j \in Jobs PROVE RowOfJob(j)'
    <3>1. RowOfJob(j)
      BY DEF RowsInv
    <3> QED BY <1>2, <3>1 DEF RowOfJob, Row, PaymentOf, QuoteOfJob, OrderOfJob
  <2> QED BY <1>2, <2>2, <2>3 DEF RowsInv, OnePosting, OrderOfJob
<1> QED
  BY <1>1, <1>2
  DEF PaymentsNext, JobAction, IssueRead, IssueCreate, CrashIssue, jobVars,
      paymentsVars

\* The rows hold in every reachable state.
LEMMA RowsInvariant == PaymentsSpec => [](PaymentsInv /\ RowsInv)
<1>1. PaymentsInit => RowsInv
  BY DEF PaymentsInit, NothingPaid, RowsInv, RowOfJob, RowOfPayment, OnePosting,
         NoRow, IdleJob
<1> QED BY <1>1, RowsInvNext, PaymentsInvariant, PTL DEF PaymentsSpec

-----------------------------------------------------------------------------
(* Paid orders are in the ledger.                                          *)

\* An order becomes paid when a job claims it, which posts next (fulfill).
LEMMA PaidByAJob ==
  ASSUME PaymentsInv, [PaymentsNext]_paymentsVars, NEW o \in Orders,
         order[o] # "paid", order'[o] = "paid"
  PROVE  \E j \in Jobs : OrderOfJob(j) = o /\ job'[j].at = "post"
<1>1. order \in [Orders -> OrderStatus]
  BY DEF PaymentsInv, SaleInv, CheckoutTypeOK
<1>2. ASSUME NEW j \in Jobs, JobAction(j)
      PROVE  OrderOfJob(j) = o /\ job'[j].at = "post"
  <2>1. FulfillClaim(j)
    <3>1. ~OrderUntouched
      BY DEF OrderUntouched, allCheckoutVars, checkoutVars
    <3>2. ~FailTx(j)
      BY <1>1 DEF FailTx, CancelOrder
    <3>3. ~ReverseClaim(j) /\ ~ReverseTx(j)
      BY <1>1 DEF ReverseClaim, ReverseTx, ClaimRefunded, ReturnSeats, saleVars
    <3> QED
      BY <1>2, <3>1, <3>2, <3>3
      DEF JobAction, PayBegin, PayStep, PayExisting, PayFunds, PayCreate, PayReserve,
          PayCharge, HookReceive, EventRefundBegin, HandlerStep, HookRecord,
          HookMark, FulfillRead, FulfillPost, FulfillEnqueue, FailRead, FailReturn,
          ReversePost, ReverseRevoke, CrashJob
  <2> QED BY <1>1, <2>1, JobTargets DEF ClaimPaid, saleVars
<1>3. CASE \E j \in Jobs : JobAction(j)
  BY <1>2, <1>3
<1>4. ASSUME NEW p \in Orders, SaleStep(p) PROVE FALSE
  BY <1>1, <1>4
  DEF SaleStep, CommitStepOf, BeginCommit, CheckHolds, CheckEvent, CommitTx,
      ReadOwnHolds, DropOwnHolds, UntrackOwnHolds, CrashCommit, Lapse, Sweep, saleVars
<1>5. CASE CheckoutStep
  BY <1>4, <1>5 DEF CheckoutStep, SetStatus, saleVars
<1>6. ~UNCHANGED allCheckoutVars
  BY DEF allCheckoutVars, checkoutVars
<1> QED
  BY <1>3, <1>5, <1>6
  DEF PaymentsNext, JobAction, IssueRead, IssueCreate, CrashIssue, OrderUntouched,
      paymentsVars

\* Who is about to post does so, or dies, or the ledger refuses (fulfill).
LEMMA WhoPostsGoesOn ==
  ASSUME PaymentsInv, [PaymentsNext]_paymentsVars, NEW j \in Jobs,
         job[j].at = "post", job'[j].at # "post"
  PROVE  job'[j].at = "enqueue" \/ crashes' > crashes \/ PostingRefused(j)
<1>1. PICK k \in Jobs : JobAction(k)
  BY DEF PaymentsNext, JobAction, IssueRead, IssueCreate, CrashIssue, jobVars, paymentsVars
<1>2. job'[j] # job[j]
  OBVIOUS
<1>3. k = j
  BY <1>1, <1>2, JobFlow DEF Moved
<1>4. CASE CrashJob(j)
  <2>1. crashes \in Nat
    BY DEF PaymentsInv, PaymentsTypeOK
  <2> QED BY <1>4, <2>1 DEF CrashJob
<1>5. CASE FulfillPost(j)
  <2>1. JobTo(j, "enqueue") \/ PostingRefused(j)
    BY <1>5 DEF FulfillPost, PostingRefused
  <2>2. JobTo(j, "enqueue") => job'[j].at = "enqueue"
    BY JobGoesOn DEF PaymentsInv, PaymentsTypeOK, JobsType, Moved, JobStep
  <2> QED BY <2>1, <2>2
<1>6. FulfillPost(j) \/ CrashJob(j)
  BY <1>1, <1>3
  DEF JobAction, PayBegin, PayStep, PayExisting, PayFunds, PayCreate, PayReserve,
      PayCharge, HookReceive, EventRefundBegin, HandlerStep, HookRecord, HookMark,
      FulfillRead, FulfillClaim, FulfillEnqueue, FailRead, FailReturn, FailTx,
      ReverseClaim, ReversePost, ReverseTx, ReverseRevoke, JobAt
<1> QED BY <1>4, <1>5, <1>6

\* The money of a paid order misses the ledger only where its handler dies between
\* claim and posting or the ledger refuses, whatever the quotes, the wallets and the
\* number of deliveries, refusals, refunds and sweeps that come between (fulfill).
THEOREM PaidOrdersReachTheLedger == PaymentsSpec => PostingsAreNotDropped
<1>1. PaymentsInv /\ PaymentsInv' /\ [PaymentsNext]_paymentsVars
        => [\A o \in Orders :
              Stranded(o)' /\ ~Stranded(o)
                => \/ crashes' > crashes
                   \/ \E j \in Busy(o, {"post"}) : PostingRefused(j)]_paymentsVars
  <2> SUFFICES ASSUME PaymentsInv, PaymentsInv', [PaymentsNext]_paymentsVars,
                      NEW o \in Orders, Stranded(o)', ~Stranded(o)
               PROVE  \/ crashes' > crashes
                      \/ \E j \in Busy(o, {"post"}) : PostingRefused(j)
    OBVIOUS
  <2>1. /\ order'[o] = "paid" /\ ~Posted("order_payment", o)'
        /\ \A j \in Jobs : OrderOfJob(j) = o => job'[j].at # "post"
    BY DEF Stranded, Busy, OrderOfJob
  <2>2. order[o] = "paid"
    BY <2>1, PaidByAJob
  <2>3. ~Posted("order_payment", o)
    BY <2>1, PostsAndReversals
  <2>4. PICK j \in Jobs : OrderOfJob(j) = o /\ job[j].at = "post"
    BY <2>2, <2>3 DEF Stranded, Busy
  <2>5. job'[j].at = "enqueue" \/ crashes' > crashes \/ PostingRefused(j)
    BY <2>1, <2>4, WhoPostsGoesOn
  <2>6. job'[j].at # "enqueue"
    BY <2>1, <2>4 DEF PaymentsInv, JobsInv, FollowsTheClaim, OrderOfJob
  <2> QED BY <2>4, <2>5, <2>6 DEF Busy
<1> QED BY <1>1, PaymentsInvariant, PTL DEF PaymentsSpec, PostingsAreNotDropped

-----------------------------------------------------------------------------
(* The money in holding.                                                   *)

\* While a job refuses a payment no other one refuses or claims it (fail returns
\* the reserve before it marks the payment, with nothing to hold it meanwhile).
RefusalsAreAlone ==
  \A j, k \in Jobs :
    j # k /\ PaymentOf(j) = PaymentOf(k) /\ job[j].at \in {"return", "failTx"} =>
      job[k].at \notin {"return", "failTx", "claim", "post"}

\* No job dies between the return of the reserve and the mark of the payment.
NoRefusalDies == \A j \in Jobs : JobAt(j, "failTx") => ~CrashJob(j)

\* Some job is in one of the steps with the payment.
Working(p, steps) == \E j \in Jobs : PaymentOf(j) = p /\ job[j].at \in steps

\* What holding keeps for a payment: its reserve, from when it was made until a
\* job posts the payment or has returned it.
ReservedFor(p) ==
  IF /\ payment[p].method = "mixed"
     /\ p \in asked \/ Working(p, {"charge"})
     /\ \/ payment[p].status = "pending" /\ ~Working(p, {"failTx"})
        \/ Working(p, {"post", "return"})
  THEN payment[p].wallet ELSE 0

Reserves == [p \in Payments |-> ReservedFor(p)]

HoldsTheReserves == balance[System("payment_holding")] >= SumFunction(Reserves)

\* What a posting of a payment takes from wallets and from holding (fulfill).
LEMMA FulfillTakes ==
  ASSUME NEW q \in QuoteType, NEW buyer \in Users, NEW promoter \in Promoters,
         NEW method, NEW wallet \in Nat, NEW charge \in Nat
  PROVE  LET entries == FulfillEntries(q, buyer, promoter, method, wallet, charge)
             holding == System("payment_holding")
         IN /\ \A a \in DOMAIN entries : a[1] = "user_wallet" =>
                 /\ a = Wallet(buyer) /\ method = "wallet" /\ wallet > 0
                 /\ entries[a] = -wallet
            /\ holding \in DOMAIN entries <=> method # "wallet" /\ wallet > 0
            /\ holding \in DOMAIN entries => entries[holding] = -wallet
<1> DEFINE h == System("payment_holding")
           payer == IF method = "wallet" THEN Wallet(buyer) ELSE h
           D == {Payable(promoter), System("platform_revenue"),
                 System("tax_payable"), System("gateway_clearing"), payer}
           X == (IF wallet > 0 THEN {} ELSE {Wallet(buyer), h})
                  \cup (IF GatewayInflow(q, charge) > 0 THEN {}
                        ELSE {System("gateway_clearing")})
           all == PaymentEntries(q, buyer, promoter, method, wallet, charge)
           entries == FulfillEntries(q, buyer, promoter, method, wallet, charge)
<1>1. DOMAIN all = D /\ all[payer] = -wallet
  BY AccountNames DEF PaymentEntries
<1>2. entries = [a \in D \ X |-> all[a]]
  BY <1>1 DEF FulfillEntries, Without, Restrict
<1>3. /\ payer \in X <=> ~(wallet > 0)
      /\ \A a \in D \ {payer} : a[1] # "user_wallet" /\ a # h
      /\ h[1] # "user_wallet" /\ payer \in D
      /\ payer = h <=> method # "wallet"
  BY AccountNames
<1> HIDE DEF D, X, all, entries
<1>4. \A a \in DOMAIN entries : a \in D /\ a \notin X /\ entries[a] = all[a]
  BY <1>2
<1>5. \A a \in D : a \notin X => a \in DOMAIN entries
  BY <1>2
<1> QED BY <1>1, <1>3, <1>4, <1>5 DEF entries

\* What a step of a job moves in holding (initiate, fulfill, fail).
LEMMA HoldingMoves ==
  ASSUME PaymentsInv, NEW j \in Jobs, JobAction(j)
  PROVE  LET before == balance[System("payment_holding")]
             after == balance'[System("payment_holding")]
         IN \/ PayReserve(j) /\ JobTo(j, "charge") /\ after = before + Row(j).wallet
            \/ FailReturn(j) /\ after = before - Row(j).wallet
            \/ /\ FulfillPost(j) /\ Row(j).method # "wallet"
               /\ Row(j).wallet > 0 /\ after = before - Row(j).wallet
            \/ /\ ~FailReturn(j) /\ (PayReserve(j) => JobEnds(j))
               /\ after = before
<1> DEFINE h == System("payment_holding")
           o == OrderOfJob(j)
<1>1. /\ balance \in [Accounts -> Int] /\ h \in Accounts
      /\ payment \in [Payments -> PaymentType] /\ KeepsToItsTask(j)
      /\ balance[h] \in Int
  BY AccountNames DEF PaymentsInv, PaymentsTypeOK, LedgerTypeOK, JobsInv, SystemTypes
<1>2. JobOf[j].task # "eventRefund" => Row(j).wallet \in Nat /\ Row(j).charge \in Nat
  BY <1>1, JobFacts DEF Row, PaymentType
<1>3. ASSUME NEW kind, NEW entries, Record(kind, o, entries)
      PROVE  balance'[h] = balance[h] + IF h \in DOMAIN entries THEN entries[h] ELSE 0
  BY <1>1, <1>3 DEF Record
<1>4. ASSUME NEW amount \in Int
      PROVE  /\ h \in DOMAIN ReserveEntries(BuyerOfJob(j), amount)
             /\ ReserveEntries(BuyerOfJob(j), amount)[h] = amount
  BY AccountNames DEF ReserveEntries
<1>5. CASE UNCHANGED ledgerVars /\ ~FailReturn(j) /\ ~PayReserve(j)
  BY <1>5 DEF ledgerVars
<1>6. CASE PayReserve(j)
  <2>1. Row(j).wallet \in Nat /\ JobAt(j, "reserve")
    BY <1>1, <1>2, <1>6 DEF PayReserve, JobAt, KeepsToItsTask
  <2>2. ~FailReturn(j) /\ ~FulfillPost(j)
    BY <2>1 DEF FailReturn, FulfillPost, JobAt
  <2>3. CASE UNCHANGED ledgerVars /\ JobEnds(j)
    BY <2>2, <2>3 DEF ledgerVars
  <2>4. CASE Record("wallet_reserve", o, ReserveEntries(BuyerOfJob(j), Row(j).wallet))
             /\ JobTo(j, "charge")
    BY <1>3, <1>4, <1>6, <2>1, <2>4
  <2> QED BY <1>6, <2>3, <2>4 DEF PayReserve, Post
<1>7. CASE FailReturn(j)
  <2> DEFINE entries == ReserveEntries(BuyerOfJob(j), -Row(j).wallet)
  <2>1. Record("wallet_refund_reserve", o, entries) /\ Row(j).wallet \in Nat
    BY <1>1, <1>2, <1>7 DEF FailReturn, Post, JobAt, KeepsToItsTask
  <2>2. -Row(j).wallet \in Int
    BY <2>1
  <2>3. h \in DOMAIN entries /\ entries[h] = -Row(j).wallet
    BY <1>4, <2>2
  <2> HIDE DEF entries
  <2>4. balance'[h] = balance[h] - Row(j).wallet
    BY <1>1, <1>3, <2>1, <2>3
  <2> QED BY <1>7, <2>4
<1>8. CASE FulfillPost(j)
  <2> DEFINE entries == FulfillEntries(Quote[o], BuyerOf[o], Promoter,
                          Row(j).method, Row(j).wallet, Row(j).charge)
  <2>1. Row(j).wallet \in Nat /\ Row(j).charge \in Nat
    BY <1>1, <1>2, <1>8 DEF FulfillPost, JobAt, KeepsToItsTask
  <2>2. /\ h \in DOMAIN entries <=> Row(j).method # "wallet" /\ Row(j).wallet > 0
        /\ h \in DOMAIN entries => entries[h] = -Row(j).wallet
    BY <2>1, JobFacts, FulfillTakes
  <2>3. UNCHANGED ledgerVars \/ Record("order_payment", o, entries)
    BY <1>8 DEF FulfillPost, PostOnce
  <2>4. ~FailReturn(j) /\ ~PayReserve(j)
    BY <1>8 DEF FailReturn, FulfillPost, PayReserve, JobAt
  <2> HIDE DEF entries
  <2>5. CASE Record("order_payment", o, entries)
    <3>1. balance'[h] = balance[h] + IF h \in DOMAIN entries THEN entries[h] ELSE 0
      BY <1>3, <2>5
    <3> QED BY <1>1, <1>8, <2>1, <2>2, <2>4, <3>1
  <2> QED BY <2>3, <2>4, <2>5 DEF ledgerVars
<1>9. CASE ReversePost(j)
  <2> DEFINE kind == ReversalKind(j)
             entries == ReversalEntries(kind, Quote[o], BuyerOf[o], Promoter)
  <2>1. h \notin DOMAIN entries
    BY AccountNames DEF ReversalEntries
  <2>2. UNCHANGED ledgerVars \/ Record(kind, o, entries)
    BY <1>9 DEF ReversePost, PostOnce
  <2>3. ~FailReturn(j) /\ ~PayReserve(j)
    BY <1>9 DEF FailReturn, ReversePost, PayReserve, JobAt
  <2> HIDE DEF entries, kind
  <2>4. CASE Record(kind, o, entries)
    <3>1. balance'[h] = balance[h] + IF h \in DOMAIN entries THEN entries[h] ELSE 0
      BY <1>3, <2>4
    <3> QED BY <1>1, <2>1, <2>3, <3>1
  <2> QED BY <2>2, <2>3, <2>4 DEF ledgerVars
<1> QED
  BY <1>5, <1>6, <1>7, <1>8, <1>9
  DEF JobAction, PayBegin, PayStep, PayExisting, PayFunds, PayCreate, PayCharge,
      HookReceive, EventRefundBegin, HandlerStep, HookRecord, HookMark, FulfillRead,
      FulfillClaim, FulfillEnqueue, FailRead, FailTx, ReverseClaim, ReverseTx,
      ReverseRevoke, CrashJob

\* A step of a job leaves the reserves of other payments alone, and what holding
\* keeps for its own grows by no more than holding does.
LEMMA ReserveMoves ==
  ASSUME PaymentsInv, RowsInv, RefusalsAreAlone, RefusalsAreAlone',
         NEW j \in Jobs, JobAction(j), JobAt(j, "failTx") => ~CrashJob(j),
         NEW p \in Payments
  PROVE  LET moved == balance'[System("payment_holding")]
                        - balance[System("payment_holding")]
         IN ReservedFor(p)' <= ReservedFor(p) + IF p = PaymentOf(j) THEN moved ELSE 0
<1> DEFINE at == job[j].at
           next == job'[j].at
           h == System("payment_holding")
           moved == balance'[h] - balance[h]
<1>1. /\ payment \in [Payments -> PaymentType] /\ JobsType
      /\ order \in [Orders -> OrderStatus]
      /\ balance[h] \in Int
      /\ KeepsToItsTask(j) /\ RowOfJob(j)
      /\ \A k \in Jobs \ {j} : job'[k] = job[k]
  BY JobFlow, AccountNames
  DEF PaymentsInv, PaymentsTypeOK, LedgerTypeOK, JobsInv, JobsType, RowsInv, Moved,
      SaleInv, CheckoutTypeOK, SystemTypes
<1>2. /\ payment[p].wallet \in Nat
      /\ ReservedFor(p) \in Nat /\ ReservedFor(p) <= payment[p].wallet
  BY <1>1 DEF PaymentType, ReservedFor
<1>3. ASSUME NEW steps
      PROVE  /\ p # PaymentOf(j) => (Working(p, steps)' <=> Working(p, steps))
             /\ at \notin steps \/ next \in steps =>
                  (Working(p, steps) => Working(p, steps)')
             /\ next \notin steps \/ at \in steps =>
                  (Working(p, steps)' => Working(p, steps))
  BY <1>1 DEF Working, PaymentOf
<1>4. CASE p # PaymentOf(j)
  <2>1. payment'[p] = payment[p] /\ (p \in asked' <=> p \in asked)
    BY <1>4, RowMoves
  <2> QED BY <1>2, <1>3, <1>4, <2>1 DEF ReservedFor
<1> SUFFICES ASSUME p = PaymentOf(j) PROVE ReservedFor(p)' <= ReservedFor(p) + moved
  BY <1>4
<1>5. CASE PayReserve(j) /\ JobTo(j, "charge") /\ balance'[h] = balance[h] + Row(j).wallet
  <2>1. payment' = payment /\ Row(j) = payment[p]
    BY <1>5 DEF PayReserve, Row
  <2>2. ReservedFor(p)' <= payment[p].wallet
    BY <1>2, <2>1 DEF ReservedFor
  <2>3. ReservedFor(p)' \in Nat
    BY <1>2, <2>1 DEF ReservedFor
  <2> QED BY <1>1, <1>2, <1>5, <2>1, <2>2, <2>3
<1>6. CASE FailReturn(j) /\ balance'[h] = balance[h] - Row(j).wallet
  <2>1. payment' = payment /\ Row(j) = payment[p] /\ at = "return" /\ next = "failTx"
    BY <1>6, JobTargets DEF FailReturn, Row, JobAt
  <2>2. payment[p].method = "mixed" /\ p \in asked
    BY <1>1, <2>1 DEF RowOfJob, KeepsToItsTask
  <2>3. ReservedFor(p) = payment[p].wallet
    BY <2>1, <2>2 DEF ReservedFor, Working
  <2>4. ~Working(p, {"post", "return"})' /\ Working(p, {"failTx"})'
    BY <1>1, <2>1 DEF RefusalsAreAlone, Working, PaymentOf
  <2>5. ReservedFor(p)' = 0
    BY <2>4 DEF ReservedFor
  <2> QED BY <1>1, <1>2, <1>6, <2>1, <2>3, <2>5
<1>7. CASE /\ FulfillPost(j) /\ Row(j).method # "wallet" /\ Row(j).wallet > 0
           /\ balance'[h] = balance[h] - Row(j).wallet
  <2>1. /\ payment' = payment /\ Row(j) = payment[p]
        /\ at = "post" /\ next \in {"enqueue", "idle"}
    BY <1>7, JobTargets DEF FulfillPost, Row, JobAt
  <2>2. JobOf[j].task = "hook" /\ OrderOf[p] = OrderOfJob(j)
    BY <1>1, <1>7, <2>1, JobFacts DEF RowOfJob, KeepsToItsTask
  <2>3. p \in asked /\ payment[p].status \notin {"none", "pending"}
    BY <1>1, <2>1, <2>2 DEF RowOfJob
  <2>4. payment[p].method = "mixed"
    <3>1. PICK funds \in Nat : /\ payment[p].method = MethodOf(Quote[OrderOf[p]], funds)
                             /\ payment[p].wallet = WalletPortion(Quote[OrderOf[p]], funds)
      BY <2>3 DEF RowsInv, RowOfPayment
    <3> QED BY <1>7, <2>1, <3>1 DEF MethodOf
  <2>5. ReservedFor(p) = payment[p].wallet
    BY <2>1, <2>3, <2>4 DEF ReservedFor, Working
  <2>6. ASSUME NEW k \in Jobs, PaymentOf(k) = p, job'[k].at \in {"post", "return"}
        PROVE  FALSE
    <3>1. k # j /\ job[k].at = job'[k].at
      BY <1>1, <2>1, <2>6
    <3>2. JobOf[k].task \in {"pay", "hook"}
      BY <2>6, <3>1 DEF PaymentsInv, JobsInv, KeepsToItsTask
    <3>3. OrderOfJob(k) = OrderOfJob(j)
      BY <2>2, <2>6, <3>2, JobFacts
    <3> QED BY <2>1, <2>6, <3>1, <3>3 DEF RowsInv, OnePosting, RefusalsAreAlone
  <2>7. ReservedFor(p)' = 0
    BY <2>1, <2>3, <2>6 DEF ReservedFor, Working, PaymentOf
  <2> QED BY <1>1, <1>2, <1>7, <2>1, <2>5, <2>7
<1>8. CASE ~FailReturn(j) /\ (PayReserve(j) => JobEnds(j)) /\ balance'[h] = balance[h]
  <2> SUFFICES ReservedFor(p)' <= ReservedFor(p)
    BY <1>1, <1>2, <1>8
  <2>1. p \in asked' <=> p \in asked \/ PayCharge(j)
    BY RowMoves
  <2>2. ASSUME payment'[p].method = payment[p].method,
               payment'[p].wallet = payment[p].wallet,
               payment'[p].status = "pending" => payment[p].status = "pending",
               next \notin {"charge", "post", "return"}, at # "failTx"
        PROVE  ReservedFor(p)' <= ReservedFor(p)
    <3>1. p \in asked' \/ Working(p, {"charge"})' => p \in asked \/ Working(p, {"charge"})
      BY <1>3, <2>1, <2>2 DEF PayCharge, JobAt, Working
    <3>2. /\ Working(p, {"failTx"}) => Working(p, {"failTx"})'
          /\ Working(p, {"post", "return"})' => Working(p, {"post", "return"})
      BY <1>3, <2>2
    <3> QED BY <1>2, <2>2, <3>1, <3>2 DEF ReservedFor
  <2>3. CASE PayCreate(j) /\ payment'[p] # payment[p]
    <3>1. /\ JobOf[j].task = "pay" /\ p \notin asked
          /\ ~(FulfillClaim(j) \/ FailTx(j) \/ ReverseTx(j) \/ PayCharge(j))
      BY <1>1, <2>3
      DEF PayCreate, FulfillClaim, FailTx, ReverseTx, PayCharge, JobAt, KeepsToItsTask,
          RowOfJob
    <3>2. payment'[p].method = "mixed" => next = "reserve"
      <4> DEFINE method == MethodOf(QuoteOfJob(j), job[j].funds)
      <4>1. payment'[p] = [status |-> "pending", method |-> method,
                           wallet |-> WalletPortion(QuoteOfJob(j), job[j].funds),
                           charge |-> GatewayCharge(QuoteOfJob(j), job[j].funds)]
        BY <2>3, <3>1, RowMoves
      <4>2. ~UNCHANGED payment
        BY <2>3
      <4> HIDE DEF method
      <4>3. job' = [job EXCEPT ![j] =
                 [at |-> CASE method = "wallet" -> "fulfill"
                           [] method = "mixed" -> "reserve"
                           [] method = "gateway" -> "charge",
                  funds |-> 0]]
        BY <2>3, <4>2 DEF PayCreate, method
      <4> QED BY <1>1, <4>1, <4>3 DEF JobsType
    <3>3. next = "reserve" => ~Working(p, {"charge"})'
      <4> SUFFICES ASSUME next = "reserve", NEW k \in Jobs, PaymentOf(k) = p,
                          job'[k].at = "charge"
                   PROVE  FALSE
        BY DEF Working, PaymentOf
      <4>1. k # j /\ job[k].at = "charge"
        BY <1>1
      <4>2. JobOf[k].task = "pay"
        BY <4>1 DEF PaymentsInv, JobsInv, KeepsToItsTask
      <4> QED BY <3>1, <4>1, <4>2, PaymentsAssumption DEF PaymentOf
    <3>4. ReservedFor(p)' = 0
      BY <2>1, <3>1, <3>2, <3>3 DEF ReservedFor
    <3> QED BY <1>2, <3>4
  <2>4. CASE FulfillClaim(j) /\ next = "post"
    <3>1. /\ at = "claim" /\ ClaimPaid(OrderOfJob(j)) /\ Row(j).status # "none"
          /\ OrderOf[p] = OrderOfJob(j)
      <4>1. at = "claim" /\ JobOf[j].task \in {"pay", "hook"}
        BY <1>1, <2>4 DEF FulfillClaim, JobAt, KeepsToItsTask
      <4> QED BY <1>1, <2>4, <4>1, JobTargets, JobFacts DEF RowOfJob
    <3>2. payment[p].status = "pending"
      BY <3>1 DEF ClaimPaid, RowsInv, RowOfPayment, Row
    <3>3. ~Working(p, {"failTx"})
      BY <3>1 DEF RefusalsAreAlone, Working
    <3>4. /\ payment'[p].method = payment[p].method
          /\ payment'[p].wallet = payment[p].wallet
      BY <1>1, <2>4 DEF FulfillClaim, SetPayment, PaymentType
    <3>5. p \in asked' \/ Working(p, {"charge"})' => p \in asked \/ Working(p, {"charge"})
      BY <1>3, <2>1, <2>4, <3>1 DEF PayCharge, JobAt
    <3> QED BY <1>2, <3>2, <3>3, <3>4, <3>5 DEF ReservedFor
  <2>5. CASE FailRead(j) /\ next = "return"
    <3>1. at = "fail" /\ payment' = payment /\ payment[p].status = "pending"
      BY <2>5, JobTargets DEF FailRead, JobAt, Row
    <3>2. ~Working(p, {"failTx"})
      <4> SUFFICES ASSUME NEW k \in Jobs, PaymentOf(k) = p, job[k].at = "failTx"
                   PROVE  FALSE
        BY DEF Working
      <4>1. k # j /\ job'[k].at = "failTx"
        BY <1>1, <3>1
      <4> QED BY <2>5, <4>1 DEF RefusalsAreAlone, PaymentOf
    <3>3. p \in asked' \/ Working(p, {"charge"})' => p \in asked \/ Working(p, {"charge"})
      BY <1>3, <2>1, <2>5, <3>1 DEF PayCharge, JobAt
    <3> QED BY <1>2, <3>1, <3>2, <3>3 DEF ReservedFor
  <2>6. CASE FailTx(j)
    <3>1. at = "failTx" /\ next \notin {"post", "return"}
      BY <2>6, JobTargets DEF FailTx, JobAt
    <3>2. payment'[p].status = "failed"
      BY <1>1, <2>6 DEF FailTx, SetPayment
    <3>3. ~Working(p, {"post", "return"})'
      BY <1>1, <3>1 DEF RefusalsAreAlone, Working, PaymentOf
    <3>4. ReservedFor(p)' = 0
      BY <3>2, <3>3 DEF ReservedFor
    <3> QED BY <1>2, <3>4
  <2>7. CASE /\ ~(PayCreate(j) /\ payment'[p] # payment[p])
             /\ ~(FulfillClaim(j) /\ next = "post")
             /\ ~(FailRead(j) /\ next = "return") /\ ~FailTx(j)
    <3>1. /\ payment'[p].method = payment[p].method
          /\ payment'[p].wallet = payment[p].wallet
          /\ payment'[p].status = "pending" => payment[p].status = "pending"
      BY <2>7, RowMoves
    <3>2. at # "failTx"
      BY <2>7
      DEF JobAction, PayBegin, HookReceive, EventRefundBegin, PayStep,
          HandlerStep, PayExisting, PayFunds, PayCreate, PayReserve, PayCharge,
          HookRecord, HookMark, FulfillRead, FulfillClaim, FulfillPost,
          FulfillEnqueue, FailRead, FailReturn, ReverseClaim, ReversePost,
          ReverseTx, ReverseRevoke, JobAt
    <3>3. next \notin {"post", "return"}
      BY <1>8, <2>7, JobTargets DEF JobAction, PayStep, HandlerStep
    <3>4. next = "charge" => PayCreate(j)
      <4>1. PayReserve(j) => next = "idle"
        BY <1>1, <1>8, JobIsOver DEF Moved
      <4> QED BY <4>1, JobTargets DEF JobAction, PayStep, HandlerStep
    <3>5. PayCreate(j) => next # "charge"
      <4> SUFFICES ASSUME PayCreate(j), payment'[p] = payment[p] PROVE next = "idle"
        BY <2>7
      <4>1. Row(j) = NoRow /\ Row(j) = payment[p]
        BY <1>1 DEF PayCreate, JobAt, RowOfJob, Row
      <4>2. JobEnds(j)
        BY <1>1, <4>1 DEF PayCreate, NoRow
      <4> QED BY <1>1, <4>2, JobIsOver DEF Moved
    <3> QED BY <2>2, <3>1, <3>2, <3>3, <3>4, <3>5
  <2> QED BY <2>3, <2>4, <2>5, <2>6, <2>7
<1> QED BY <1>5, <1>6, <1>7, <1>8, HoldingMoves

\* Holding has the reserve of every payment that counts on it, and never goes below
\* zero, when refusals neither overlap nor die half way: late, repeated and
\* reordered webhooks, and deaths anywhere else, do no harm (initiate, fulfill,
\* fail).
THEOREM HoldingCoversTheReserves ==
  ASSUME IsFiniteSet(Payments)
  PROVE  PaymentsSpec /\ []RefusalsAreAlone /\ [][NoRefusalDies]_paymentsVars
           => [](HoldsTheReserves /\ HoldingNonNegative)
<1> DEFINE h == System("payment_holding")
<1>1. ASSUME PaymentsInv
      PROVE  /\ balance[h] \in Int /\ SumFunction(Reserves) = SumOn(Reserves, Payments)
             /\ SumFunction(Reserves) \in Nat
             /\ \A p \in Payments : Reserves[p] = ReservedFor(p) /\ Reserves[p] \in Nat
  <2>1. balance[h] \in Int
    BY <1>1, AccountNames DEF PaymentsInv, LedgerInv, LedgerTypeOK, SystemTypes
  <2>2. \A p \in Payments : Reserves[p] = ReservedFor(p) /\ Reserves[p] \in Nat
    BY <1>1 DEF PaymentsInv, PaymentsTypeOK, PaymentType, Reserves, ReservedFor
  <2>3. SumFunction(Reserves) = SumOn(Reserves, Payments)
    BY DEF SumFunction, SumOn, Reserves
  <2> QED BY <2>1, <2>2, <2>3, SumIsNatural
<1>2. PaymentsInit => HoldsTheReserves
  <2> SUFFICES ASSUME PaymentsInit PROVE HoldsTheReserves
    OBVIOUS
  <2>1. balance[h] = 0
    BY AccountNames DEF PaymentsInit, NothingPaid, LedgerInit, SystemTypes
  <2>2. \A p \in Payments : Reserves[p] = 0
    BY DEF PaymentsInit, NothingPaid, NoRow, Reserves, ReservedFor
  <2>3. SumOn(Reserves, Payments) = SumOn(Reserves, {})
    <3>1. {} \in SUBSET Payments
      OBVIOUS
    <3> QED BY <2>2, <3>1, SumOfSupport
  <2>4. SumOn(Reserves, {}) = 0
    BY FS_EmptySet, SumUnfolds
  <2>5. SumFunction(Reserves) = SumOn(Reserves, Payments)
    BY DEF SumFunction, SumOn, Reserves
  <2> QED BY <2>1, <2>3, <2>4, <2>5 DEF HoldsTheReserves
<1>3. ASSUME PaymentsInv, PaymentsInv', RowsInv, RefusalsAreAlone, RefusalsAreAlone',
             HoldsTheReserves, [PaymentsNext]_paymentsVars, [NoRefusalDies]_paymentsVars
      PROVE  HoldsTheReserves'
  <2> DEFINE before == Reserves
             after == Reserves'
  <2>1. /\ balance[h] \in Int /\ balance[h] >= SumOn(before, Payments)
        /\ SumOn(before, Payments) \in Nat
        /\ \A p \in Payments : before[p] = ReservedFor(p) /\ before[p] \in Nat
    BY <1>1, <1>3 DEF HoldsTheReserves
  <2>2. /\ balance'[h] \in Int
        /\ \A p \in Payments : after[p] = ReservedFor(p)' /\ after[p] \in Nat
        /\ SumFunction(after) = SumOn(after, Payments)
    <3>1. balance'[h] \in Int
      BY <1>3, AccountNames DEF PaymentsInv, LedgerInv, LedgerTypeOK, SystemTypes
    <3>2. \A p \in Payments : after[p] = ReservedFor(p)' /\ after[p] \in Nat
      BY <1>3 DEF PaymentsInv, PaymentsTypeOK, PaymentType, Reserves, ReservedFor
    <3>3. SumFunction(after) = SumOn(after, Payments)
      BY DEF SumFunction, SumOn, Reserves
    <3> QED BY <3>1, <3>2, <3>3
  <2> HIDE DEF before, after
  <2>3. ASSUME NEW j \in Jobs, JobAction(j), JobAt(j, "failTx") => ~CrashJob(j)
        PROVE  balance'[h] >= SumOn(after, Payments)
    <3> DEFINE q == PaymentOf(j)
               others == Payments \ {q}
    <3>1. \A p \in Payments :
            after[p] <= before[p] + IF p = q THEN balance'[h] - balance[h] ELSE 0
      BY <1>3, <2>1, <2>2, <2>3, ReserveMoves
    <3>2. IsFiniteSet(others) /\ \A p \in others : before[p] \in Nat /\ after[p] \in Nat
      BY <2>1, <2>2, FS_Subset
    <3>3. SumOn(after, others) <= SumOn(before, others)
      BY <2>1, <2>2, <3>1, <3>2, SumMonotone
    <3>4. CASE q \in Payments
      <4>1. SumOn(before, Payments) = before[q] + SumOn(before, others)
        BY <2>1, <3>4, SumPeels
      <4>2. SumOn(after, Payments) = after[q] + SumOn(after, others)
        BY <2>2, <3>4, SumPeels
      <4>3. after[q] <= before[q] + (balance'[h] - balance[h])
        BY <3>1, <3>4
      <4>4. SumOn(before, others) \in Nat /\ SumOn(after, others) \in Nat
        BY <3>2, SumIsNatural
      <4> QED BY <2>1, <2>2, <3>3, <3>4, <4>1, <4>2, <4>3, <4>4
    <3>5. CASE q \notin Payments
      <4>1. others = Payments
        BY <3>5
      <4>2. balance'[h] = balance[h]
        <5>1. JobOf[j].task = "eventRefund"
          BY <3>5, JobFacts
        <5>2. KeepsToItsTask(j)
          BY <1>3 DEF PaymentsInv, JobsInv
        <5>3. ~PayReserve(j) /\ ~FailReturn(j) /\ ~FulfillPost(j)
          BY <5>1, <5>2 DEF PayReserve, FailReturn, FulfillPost, JobAt, KeepsToItsTask
        <5> QED BY <1>3, <2>3, <5>3, HoldingMoves
      <4>3. SumOn(after, Payments) \in Nat
        BY <2>2, SumIsNatural
      <4> QED BY <2>1, <3>3, <4>1, <4>2, <4>3
    <3> QED BY <3>4, <3>5
  <2>4. CASE \E j \in Jobs : JobAction(j)
    <3>1. PICK j \in Jobs : JobAction(j)
      BY <2>4
    <3>2. JobAt(j, "failTx") => ~CrashJob(j)
      <4>1. ~UNCHANGED paymentsVars \/ ~CrashJob(j)
        BY <1>3 DEF CrashJob, paymentsVars, jobVars, PaymentsInv, PaymentsTypeOK
      <4> QED BY <1>3, <4>1 DEF NoRefusalDies
    <3> QED BY <2>2, <2>3, <3>1, <3>2 DEF HoldsTheReserves, after
  <2>5. CASE UNCHANGED <<balance, payment, asked, job>>
    <3>1. \A p \in Payments : ReservedFor(p)' = ReservedFor(p)
      BY <2>5 DEF ReservedFor, Working, PaymentOf
    <3>2. SumOn(after, Payments) = SumOn(before, Payments)
      BY <2>1, <2>2, <3>1, SumAgrees
    <3> QED BY <2>1, <2>2, <2>5, <3>2 DEF HoldsTheReserves, after
  <2> QED
    BY <1>3, <2>4, <2>5
    DEF PaymentsNext, JobAction, IssueRead, IssueCreate, CrashIssue, jobVars,
        ledgerVars, paymentsVars
<1>4. PaymentsInv /\ HoldsTheReserves => HoldingNonNegative
  BY <1>1 DEF HoldsTheReserves, HoldingNonNegative
<1> QED BY <1>2, <1>3, <1>4, RowsInvariant, PTL DEF PaymentsSpec
=============================================================================
