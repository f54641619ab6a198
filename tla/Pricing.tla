------------------------------- MODULE Pricing -------------------------------
(***************************************************************************)
(* The price of an order: the gross-up of a promoter's net into what the   *)
(* buyer pays (api/src/modules/pricing/pricing.engine.ts), its sum over    *)
(* the items of an order (checkout.service.ts), and the new quote that an  *)
(* attempt to pay in installments writes over the old one                  *)
(* (payments.service.ts, requote).  Amounts are in cents, rates in percent *)
(* where the program has decimal fractions; TxFixed is the fixed fee of    *)
(* the one gateway.                                                        *)
(***************************************************************************)
EXTENDS PaymentSplit, Sequences

CONSTANTS
  Nets,         \* what the promoters ask for the items of an order
  Params,       \* the fee schedules and events an order may be quoted with
  Rates,        \* installmentRates of the gateway
  MaxRequotes   \* bound: attempts that write a new quote

ParamsType ==
  [platformPct : 0 .. 99, gatewayPct : 0 .. 99, ivaPct : 0 .. 99,
   ivaOnNet : BOOLEAN, fixedFees : Nat,
   absorbInstallmentCost : BOOLEAN]  \* of the event: the promoter pays for them

ASSUME PricingAssumption ==
  /\ \A nets \in Nets : nets \in Seq(Nat \ {0}) /\ nets # <<>>
  /\ Params \subseteq ParamsType /\ Rates \subseteq 0 .. 99
  /\ MaxRequotes \in Nat

\* What the gateway takes of a total that it charges whole.
gatewayFeeOf(total, pct) == RoundHalfEven(total * pct + 100 * TxFixed, 100)

\* baseQuote: before is 10000 times what is left once the gateway took its part.
baseQuote(net, params) ==
  LET taxed == (IF params.ivaOnNet THEN 100 * net ELSE 0)
               + net * params.platformPct + 100 * params.fixedFees
      iva == RoundHalfEven(taxed * params.ivaPct, 10000)
      before == 10000 * (net + params.fixedFees + TxFixed)
                + 100 * net * params.platformPct + taxed * params.ivaPct
      total == RoundHalfEven(before, 100 * (100 - params.gatewayPct))
      gatewayFee == gatewayFeeOf(total, params.gatewayPct)
  IN [net |-> net, fixedFees |-> params.fixedFees, iva |-> iva,
      gatewayFee |-> gatewayFee, paidItems |-> 1,
      platformFee |-> total - gatewayFee - iva - net - params.fixedFees]

\* quote with a plan: the buyer pays the same, and what the gateway takes in
\* addition comes off the platform's fee or the promoter's net.
inInstallments(q, rate, params) ==
  LET fee == gatewayFeeOf(Total(q), rate)
      cost == fee - q.gatewayFee
  IN IF params.absorbInstallmentCost
     THEN [q EXCEPT !.gatewayFee = fee, !.net = @ - cost]
     ELSE [q EXCEPT !.gatewayFee = fee, !.platformFee = @ - cost]

\* commitTx and requote: the totals of an order are those of its items.
OrderQuote(quotes) ==
  [net |-> SumFunction([n \in DOMAIN quotes |-> quotes[n].net]),
   fixedFees |-> SumFunction([n \in DOMAIN quotes |-> quotes[n].fixedFees]),
   platformFee |-> SumFunction([n \in DOMAIN quotes |-> quotes[n].platformFee]),
   iva |-> SumFunction([n \in DOMAIN quotes |-> quotes[n].iva]),
   gatewayFee |-> SumFunction([n \in DOMAIN quotes |-> quotes[n].gatewayFee]),
   paidItems |-> SumFunction([n \in DOMAIN quotes |-> quotes[n].paidItems])]

-----------------------------------------------------------------------------

VARIABLES
  params,     \* those of the order's event and fee schedule
  items,      \* the quote of each item
  requotes    \* for installments

priceVars == <<params, items, requotes, ledgerVars>>

price == OrderQuote(items)

\* commitTx.
PricingInit ==
  /\ LedgerInit
  /\ params \in Params
  /\ \E nets \in Nets : items = [n \in DOMAIN nets |-> baseQuote(nets[n], params)]
  /\ requotes = 0

\* requote, before a payment in installments: each item is quoted again from
\* the net it has by now.  A plan that leaves the platform with a loss, and a
\* cost above the promoter's net, are refused.
Requote(rate) ==
  LET quoted == [n \in DOMAIN items |->
                   inInstallments(baseQuote(items[n].net, params), rate, params)]
      refused == IF params.absorbInstallmentCost
                 THEN \E n \in DOMAIN quoted : quoted[n].net < 0
                 ELSE OrderQuote(quoted).platformFee < 0
  IN
  /\ requotes < MaxRequotes /\ requotes' = requotes + 1
  /\ \A n \in DOMAIN items : items[n].net > 0
  /\ ~refused
  /\ items' = quoted
  /\ UNCHANGED <<params, ledgerVars>>

PricingSpec == PricingInit /\ [][\E rate \in Rates : Requote(rate)]_priceVars

-----------------------------------------------------------------------------
(* Properties.  Any part of an order may be paid by the wallet, by anybody. *)

\* PlainSplitBalances of every payment of the order.
PlainOrdersBalance ==
  \A funds \in 0 .. Total(price), buyer \in Users, promoter \in Promoters :
    PlainSplitBalances(price, funds, buyer, promoter)

\* EverySplitBalances of every payment of the order (fulfill: it cancels exactly).
EveryOrderBalances ==
  \A funds \in 0 .. Total(price), buyer \in Users, promoter \in Promoters :
    EverySplitBalances(price, funds, buyer, promoter)

\* ReversalUndoesPayment of every payment of the order (reverse: symmetric to
\* fulfill).
OrdersAreUndone ==
  \A funds \in 0 .. Total(price), buyer \in Users, promoter \in Promoters :
    ReversalUndoesPayment(price, funds, buyer, promoter)

\* What the platform keeps of an order: its fee, the fixed charges and what the
\* gateway did not take of the fee in the price.
Revenue(q, funds) == q.platformFee + q.fixedFees + Surplus(q, funds)

\* The net an item was quoted from: before the promoter paid for installments.
QuotedNet(q) == q.net + q.gatewayFee - gatewayFeeOf(Total(q), params.gatewayPct)

\* The platform keeps its percentage of the nets it quoted, whatever part the
\* wallet pays: the residue of rounding that its fee absorbs is at most a cent
\* and a half an item, and the real fee of the gateway never exceeds the one in
\* the price.  It loses none of its own when it pays for installments.
PlatformKeepsItsMargin ==
  LET quoted == SumFunction([n \in DOMAIN items |-> QuotedNet(items[n])]) IN
  \A funds \in 0 .. Total(price) :
    IF requotes > 0 /\ ~params.absorbInstallmentCost THEN Revenue(price, funds) >= 0
    ELSE 200 * (Revenue(price, funds) - price.fixedFees) + 300 * price.paidItems
           >= 2 * params.platformPct * quoted

\* The buyer pays in installments what one payment would cost (quote: "El
\* COMPRADOR paga lo mismo que en 1 pago").
BuyersPayTheSame ==
  [][Total(OrderQuote(items)) = Total(OrderQuote(items'))]_items
=============================================================================
