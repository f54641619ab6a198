---------------------------- MODULE PaymentSplit ----------------------------
(***************************************************************************)
(* How the money of an order is divided                                    *)
(* (api/src/modules/payments/payments.service.ts): what the wallet and the *)
(* gateway pay when the payment starts, and the entries that distribute it *)
(* when the payment succeeds.  Amounts are integers, in cents.             *)
(***************************************************************************)
EXTENDS Integers, FiniteSets, Functions, Ledger

CONSTANT TxFixed   \* transactionFixedFee of the gateway, in cents

ASSUME SplitAssumption == TxFixed \in Nat

\* The money columns of an order, and how many of its items cost something.
QuoteType ==
  [net : Nat, fixedFees : Nat, platformFee : Int, iva : Nat, gatewayFee : Nat,
   paidItems : Nat]

Total(q) == q.net + q.fixedFees + q.platformFee + q.iva + q.gatewayFee

-----------------------------------------------------------------------------
(* initiate.                                                               *)

WalletPortion(q, funds) == IF funds < Total(q) THEN funds ELSE Total(q)
GatewayCharge(q, funds) == Total(q) - WalletPortion(q, funds)

MethodOf(q, funds) ==
  IF GatewayCharge(q, funds) = 0 THEN "wallet"
  ELSE IF WalletPortion(q, funds) > 0 THEN "mixed" ELSE "gateway"

\* A mixed payment must leave the gateway more than its fixed fee.
Chargeable(q, funds) ==
  MethodOf(q, funds) = "mixed" /\ TxFixed > 0 => GatewayCharge(q, funds) > TxFixed

-----------------------------------------------------------------------------
(* fulfill.                                                                *)

\* Mistake: the fixed fees baked into the fee are not taken off.
GatewayFeeTwice(q, charge) ==
  RoundHalfEven(q.gatewayFee * charge
    + (IF charge > 0 THEN TxFixed ELSE 0) * Total(q), Total(q))

\* The percentage part of the baked fee scales with the charge; the fixed part
\* is taken once if the gateway charges at all.
RealGatewayFee(q, charge) ==
  LET percentage == q.gatewayFee - TxFixed * q.paidItems
      fixed == IF charge > 0 THEN TxFixed ELSE 0
  IN IF Total(q) = 0 THEN fixed
     ELSE RoundHalfEven(percentage * charge + fixed * Total(q), Total(q))

GatewayInflow(q, charge) == charge - RealGatewayFee(q, charge)

\* Mistake: the fixed fees of the order are forgotten.
EntriesWithoutFixedFees(q, buyer, promoter, method, wallet, charge) ==
  [a \in {Payable(promoter), System("platform_revenue"), System("tax_payable"),
          System("gateway_clearing"), System("payment_holding"), Wallet(buyer)} |->
     CASE a = Payable(promoter) -> q.net
       [] a = System("platform_revenue") ->
            q.platformFee + q.gatewayFee - RealGatewayFee(q, charge)
       [] a = System("tax_payable") -> q.iva
       [] a = System("gateway_clearing") -> -GatewayInflow(q, charge)
       [] a = Wallet(buyer) -> IF method = "wallet" THEN -wallet ELSE 0
       [] a = System("payment_holding") -> IF method = "mixed" THEN -wallet ELSE 0]

\* The entries of order_payment, before the lines that are left out.
PaymentEntries(q, buyer, promoter, method, wallet, charge) ==
  LET payer == IF method = "wallet" THEN Wallet(buyer)
               ELSE System("payment_holding")
      saved == q.gatewayFee - RealGatewayFee(q, charge)
  IN [a \in {Payable(promoter), System("platform_revenue"),
             System("tax_payable"), System("gateway_clearing"), payer} |->
        CASE a = Payable(promoter) -> q.net
          [] a = System("platform_revenue") -> q.platformFee + saved + q.fixedFees
          [] a = System("tax_payable") -> q.iva
          [] a = System("gateway_clearing") -> -GatewayInflow(q, charge)
          [] a = payer -> -wallet]

\* The wallet line is written only if the wallet pays, the clearing line only
\* if something is left of the charge after the gateway's fee.
FulfillEntries(q, buyer, promoter, method, wallet, charge) ==
  Without(PaymentEntries(q, buyer, promoter, method, wallet, charge),
    (IF wallet > 0 THEN {} ELSE {Wallet(buyer), System("payment_holding")})
      \cup (IF GatewayInflow(q, charge) > 0 THEN {}
            ELSE {System("gateway_clearing")}))

-----------------------------------------------------------------------------
(* reverse and event refunds.                                              *)

Inflow(q) == q.net + q.platformFee + q.fixedFees + q.iva

\* Mistake: the platform keeps the fixed fees it gives back.
ReversalWithoutFixedFees(kind, q, buyer, promoter) ==
  [a \in {Payable(promoter), System("platform_revenue"), System("tax_payable"),
          Wallet(buyer)} |->
     CASE a = Payable(promoter) -> -q.net
       [] a = System("platform_revenue") -> -q.platformFee
       [] a = System("tax_payable") -> -q.iva
       [] a = Wallet(buyer) -> Inflow(q)]

\* A refund and a chargeback take everything back but the gateway's fee, an
\* event refund only the promoter's net.
ReversalEntries(kind, q, buyer, promoter) ==
  LET to == IF kind = "chargeback" THEN System("gateway_clearing")
            ELSE Wallet(buyer)
  IN IF kind = "event_refund"
     THEN [a \in {Payable(promoter), to} |->
             IF a = to THEN q.net ELSE -q.net]
     ELSE [a \in {Payable(promoter), System("platform_revenue"),
                  System("tax_payable"), to} |->
             CASE a = Payable(promoter) -> -q.net
               [] a = System("platform_revenue") -> -(q.platformFee + q.fixedFees)
               [] a = System("tax_payable") -> -q.iva
               [] a = to -> Inflow(q)]

-----------------------------------------------------------------------------
(* Properties of the split of a quote q paid with `funds` in the wallet.   *)

EntriesFor(q, funds, buyer, promoter) ==
  FulfillEntries(q, buyer, promoter, MethodOf(q, funds),
    WalletPortion(q, funds), GatewayCharge(q, funds))

\* What stays with the platform of the gateway's fee the buyer paid.
Surplus(q, funds) == q.gatewayFee - RealGatewayFee(q, GatewayCharge(q, funds))

\* The entries of a payment add up to nothing if the wallet or the gateway
\* pays alone, and if the gateway's fee is within its part of a mixed payment.
PlainSplitBalances(q, funds, buyer, promoter) ==
  MethodOf(q, funds) # "mixed" \/ GatewayInflow(q, GatewayCharge(q, funds)) >= 0 =>
    WellFormed(EntriesFor(q, funds, buyer, promoter))

\* The entries of every payment that initiate lets through add up to nothing.
EverySplitBalances(q, funds, buyer, promoter) ==
  Chargeable(q, funds) => WellFormed(EntriesFor(q, funds, buyer, promoter))

\* A refund or a chargeback takes back from promoter and tax what the payment
\* gave them, and leaves the platform the surplus of the gateway's fee.
ReversalUndoesPayment(q, funds, buyer, promoter) ==
  \A kind \in {"refund", "chargeback"} :
    LET given == EntriesFor(q, funds, buyer, promoter)
        taken == ReversalEntries(kind, q, buyer, promoter)
        left(a) == given[a] + taken[a]
    IN /\ WellFormed(taken)
       /\ left(Payable(promoter)) = 0 /\ left(System("tax_payable")) = 0
       /\ left(System("platform_revenue")) = Surplus(q, funds)
=============================================================================
