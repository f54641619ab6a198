---------------------------- MODULE Pricing_proofs ----------------------------
(***************************************************************************)
(* What TLAPS proves of Pricing, for any nets, fee schedules, installment  *)
(* rates and number of attempts.                                           *)
(***************************************************************************)
EXTENDS Pricing, PaymentSplit_proofs

-----------------------------------------------------------------------------
(* One item.                                                               *)

\* A fee schedule's numbers (FeeParams).
LEMMA ParamsFacts ==
  ASSUME NEW p \in ParamsType
  PROVE  /\ p.platformPct \in 0 .. 99 /\ p.gatewayPct \in 0 .. 99
         /\ p.ivaPct \in 0 .. 99 /\ p.fixedFees \in Nat
         /\ p.ivaOnNet \in BOOLEAN /\ p.absorbInstallmentCost \in BOOLEAN
BY DEF ParamsType

\* The gateway's fee is a natural number of cents, its fixed part at least, and
\* what it says but for half a cent; just that part if it takes no percentage.
LEMMA GatewayFeeIs ==
  ASSUME NEW total \in Nat, NEW pct \in 0 .. 99
  PROVE  LET fee == gatewayFeeOf(total, pct) IN
         /\ fee \in Nat /\ fee >= TxFixed
         /\ 200 * fee <= 2 * (total * pct) + 200 * TxFixed + 100
         /\ pct = 0 => fee = TxFixed
<1> DEFINE n == total * pct + 100 * TxFixed
<1>1. total * pct \in Nat /\ TxFixed \in Nat
  BY SplitAssumption
<1>2. n \in Int /\ n >= TxFixed * 100 /\ (pct = 0 => n <= TxFixed * 100)
  BY <1>1
<1> HIDE DEF n
<1>3. /\ RoundHalfEven(n, 100) \in Int /\ RoundHalfEven(n, 100) >= TxFixed
      /\ 2 * (RoundHalfEven(n, 100) * 100) <= 2 * n + 100
      /\ pct = 0 => RoundHalfEven(n, 100) <= TxFixed
  BY <1>1, <1>2, RoundBounds, RoundKeepsOrder
<1>4. gatewayFeeOf(total, pct) = RoundHalfEven(n, 100)
  BY DEF gatewayFeeOf, n
<1> QED BY <1>1, <1>3, <1>4 DEF n

\* What a quote promises of each item: the platform's fee is its percentage of
\* the net, but for a cent and a half, and with the tax it is no loss: there is
\* enough in the total for the gateway, the promoter and the fixed fees
\* (baseQuote).
BaseItem(q, p) ==
  /\ q \in QuoteType /\ q.paidItems = 1 /\ q.net > 0
  /\ Total(q) > 0 /\ q.gatewayFee = gatewayFeeOf(Total(q), p.gatewayPct)
  /\ 200 * q.platformFee + 300 >= 2 * (p.platformPct * q.net)
  /\ q.platformFee + q.iva >= 0

LEMMA BaseQuoteIs ==
  ASSUME NEW p \in ParamsType, NEW net \in Nat \ {0}
  PROVE  BaseItem(baseQuote(net, p), p) /\ baseQuote(net, p).net = net
<1> DEFINE taxed == (IF p.ivaOnNet THEN 100 * net ELSE 0)
                    + net * p.platformPct + 100 * p.fixedFees
           iva == RoundHalfEven(taxed * p.ivaPct, 10000)
           before == 10000 * (net + p.fixedFees + TxFixed)
                     + 100 * net * p.platformPct + taxed * p.ivaPct
           d == 100 * (100 - p.gatewayPct)
           total == RoundHalfEven(before, d)
           fee == gatewayFeeOf(total, p.gatewayPct)
           platformFee == total - fee - iva - net - p.fixedFees
           q == baseQuote(net, p)
<1>1. q = [net |-> net, fixedFees |-> p.fixedFees, iva |-> iva, gatewayFee |-> fee,
           paidItems |-> 1, platformFee |-> platformFee]
  BY DEF baseQuote
<1>2. /\ net \in Nat /\ net > 0 /\ p.fixedFees \in Nat /\ TxFixed \in Nat
      /\ net * p.platformPct \in Nat
  BY ParamsFacts, SplitAssumption
<1>3. taxed \in Nat
  BY <1>2, ParamsFacts
<1> HIDE DEF taxed
<1>4. taxed * p.ivaPct \in Nat
  BY <1>3, ParamsFacts
<1>5. iva \in Nat /\ 2 * (iva * 10000) <= 2 * (taxed * p.ivaPct) + 10000
  <2>1. taxed * p.ivaPct >= 0 * 10000
    BY <1>4
  <2> QED BY <1>4, <2>1, RoundBounds, RoundKeepsOrder
<1> HIDE DEF iva
<1>6. d \in Nat \ {0} /\ d <= 10000
  BY ParamsFacts
<1>7. before \in Nat /\ before >= 1 * d
  <2>1. 100 * net * p.platformPct = 100 * (net * p.platformPct)
    BY <1>2, ParamsFacts
  <2> QED BY <1>2, <1>4, <1>6, <2>1
<1> HIDE DEF before, d
<1>8. total \in Nat /\ total >= 1 /\ 2 * (total * d) >= 2 * before - d
  BY <1>6, <1>7, RoundBounds, RoundKeepsOrder
<1> HIDE DEF total
<1>9. /\ fee \in Nat /\ 200 * fee <= 2 * (total * p.gatewayPct) + 200 * TxFixed + 100
      /\ p.gatewayPct = 0 => fee = TxFixed
  <2>1. p.gatewayPct \in 0 .. 99
    BY ParamsFacts
  <2> QED BY <1>8, <2>1, GatewayFeeIs
<1> HIDE DEF fee
<1>10. /\ 200 * platformFee + 300 >= 2 * (p.platformPct * net)
       /\ platformFee + iva >= 0
  <2> DEFINE X == total * p.gatewayPct
             Y == net * p.platformPct
             Z == taxed * p.ivaPct
  <2>1. X \in Int /\ Y \in Nat /\ Z \in Nat /\ p.platformPct * net = Y
    BY <1>2, <1>4, <1>8, ParamsFacts
  <2>2. total * d = 10000 * total - 100 * X
    BY <1>8, ParamsFacts DEF d
  <2>3. before = 10000 * (net + p.fixedFees + TxFixed) + 100 * Y + Z
    BY <1>2, ParamsFacts DEF before
  <2>4. d = 10000 - 100 * p.gatewayPct /\ p.gatewayPct \in 0 .. 99
    BY ParamsFacts DEF d
  <2>5. /\ 2 * (total * d) >= 2 * before - d
        /\ 2 * (iva * 10000) <= 2 * Z + 10000
        /\ 200 * fee <= 2 * X + 200 * TxFixed + 100
    BY <1>5, <1>8, <1>9
  <2>6. p.gatewayPct = 0 => X = 0
    BY <1>8
  <2> HIDE DEF X, Y, Z
  <2>7. 200 * platformFee + 300 >= 2 * (p.platformPct * net)
    BY <1>2, <1>5, <1>8, <1>9, <2>1, <2>2, <2>3, <2>4, <2>5
  <2>8. platformFee + iva = total - fee - net - p.fixedFees
    BY <1>2, <1>5, <1>8, <1>9
  <2> HIDE DEF platformFee
  <2>9. ASSUME p.gatewayPct = 0 PROVE platformFee + iva >= 0
    BY <1>2, <1>5, <1>8, <1>9, <2>1, <2>2, <2>3, <2>4, <2>5, <2>6, <2>8, <2>9
  <2>10. ASSUME p.gatewayPct > 0 PROVE platformFee + iva >= 0
    BY <1>2, <1>5, <1>8, <1>9, <2>1, <2>2, <2>3, <2>4, <2>5, <2>8, <2>10
  <2> QED BY <2>4, <2>7, <2>9, <2>10
<1>11. platformFee \in Int
  BY <1>2, <1>5, <1>8, <1>9
<1> HIDE DEF platformFee
<1>12. q \in QuoteType /\ q.paidItems = 1 /\ q.net = net /\ q.platformFee = platformFee
       /\ q.gatewayFee = fee /\ q.iva = iva
  BY <1>1, <1>2, <1>5, <1>9, <1>11 DEF QuoteType
<1>13. Total(q) = total
  BY <1>1, <1>2, <1>5, <1>8, <1>9 DEF Total, platformFee
<1> QED BY <1>2, <1>8, <1>10, <1>12, <1>13 DEF BaseItem, fee

\* A quote in installments is of the same total; who bears the cost takes it off
\* what is his, and nothing else changes but the gateway's fee (quote).
LEMMA InstallmentsAre ==
  ASSUME NEW p \in ParamsType, NEW q, BaseItem(q, p), NEW rate \in 0 .. 99
  PROVE  LET r == inInstallments(q, rate, p) IN
         /\ Total(r) = Total(q) /\ r.paidItems = 1 /\ r.gatewayFee >= TxFixed
         /\ r.iva = q.iva /\ r.net \in Int /\ (r.net >= 0 => r \in QuoteType)
         /\ IF p.absorbInstallmentCost
            THEN /\ r.platformFee = q.platformFee
                 /\ r.net + r.gatewayFee - gatewayFeeOf(Total(r), p.gatewayPct) = q.net
            ELSE r.net = q.net
<1> DEFINE fee == gatewayFeeOf(Total(q), rate)
           cost == fee - q.gatewayFee
           r == inInstallments(q, rate, p)
<1>1. /\ q \in QuoteType /\ q.net \in Nat /\ q.fixedFees \in Nat /\ q.platformFee \in Int
      /\ q.iva \in Nat /\ q.gatewayFee \in Nat /\ q.paidItems = 1
      /\ q.gatewayFee = gatewayFeeOf(Total(q), p.gatewayPct)
  BY DEF BaseItem, QuoteType
<1>2. Total(q) \in Nat
  BY <1>1 DEF Total, BaseItem
<1>3. fee \in Nat /\ fee >= TxFixed
  BY <1>2, GatewayFeeIs
<1>4. r = IF p.absorbInstallmentCost
          THEN [q EXCEPT !.gatewayFee = fee, !.net = @ - cost]
          ELSE [q EXCEPT !.gatewayFee = fee, !.platformFee = @ - cost]
  BY DEF inInstallments
<1> HIDE DEF fee, r
<1>5. CASE p.absorbInstallmentCost
  <2>1. r = [net |-> q.net - cost, fixedFees |-> q.fixedFees,
             platformFee |-> q.platformFee, iva |-> q.iva, gatewayFee |-> fee,
             paidItems |-> 1]
    BY <1>1, <1>4, <1>5 DEF QuoteType
  <2>2. Total(r) = Total(q)
    BY <1>1, <1>3, <2>1 DEF Total
  <2>3. /\ r.net \in Int /\ (r.net >= 0 => r \in QuoteType)
        /\ r.net + r.gatewayFee - q.gatewayFee = q.net
    BY <1>1, <1>3, <2>1 DEF QuoteType
  <2> QED BY <1>1, <1>3, <1>5, <2>1, <2>2, <2>3 DEF r
<1>6. CASE ~p.absorbInstallmentCost
  <2>1. r = [net |-> q.net, fixedFees |-> q.fixedFees,
             platformFee |-> q.platformFee - cost, iva |-> q.iva, gatewayFee |-> fee,
             paidItems |-> 1]
    BY <1>1, <1>4, <1>6 DEF QuoteType
  <2>2. Total(r) = Total(q)
    BY <1>1, <1>3, <2>1 DEF Total
  <2>3. r \in QuoteType
    BY <1>1, <1>3, <2>1 DEF QuoteType
  <2> QED BY <1>1, <1>3, <1>6, <2>1, <2>2, <2>3 DEF r
<1> QED BY <1>5, <1>6

-----------------------------------------------------------------------------
(* An order.                                                               *)

\* What a column adds up to.
LEMMA ColumnSum ==
  ASSUME NEW S, NEW f, DOMAIN f = S
  PROVE  SumFunction(f) = SumOn(f, S)
BY DEF SumFunction, SumOn

\* The totals of an order are amounts, and its total is that of its items
\* (commitTx, requote).
LEMMA OrderQuoteIs ==
  ASSUME NEW quotes, IsFiniteSet(DOMAIN quotes),
         \A n \in DOMAIN quotes : quotes[n] \in QuoteType
  PROVE  /\ OrderQuote(quotes) \in QuoteType
         /\ Total(OrderQuote(quotes)) =
              SumOn([n \in DOMAIN quotes |-> Total(quotes[n])], DOMAIN quotes)
<1> DEFINE S == DOMAIN quotes
           net == [n \in S |-> quotes[n].net]
           fixed == [n \in S |-> quotes[n].fixedFees]
           platform == [n \in S |-> quotes[n].platformFee]
           iva == [n \in S |-> quotes[n].iva]
           fee == [n \in S |-> quotes[n].gatewayFee]
           paid == [n \in S |-> quotes[n].paidItems]
           all == [n \in S |-> Total(quotes[n])]
           two == [n \in S |-> net[n] + fixed[n]]
           three == [n \in S |-> two[n] + platform[n]]
           four == [n \in S |-> three[n] + iva[n]]
           q == OrderQuote(quotes)
<1>1. /\ \A n \in S : /\ net[n] \in Nat /\ fixed[n] \in Nat /\ platform[n] \in Int
                      /\ iva[n] \in Nat /\ fee[n] \in Nat /\ paid[n] \in Nat
                      /\ all[n] = net[n] + fixed[n] + platform[n] + iva[n] + fee[n]
      /\ \A n \in S : /\ two[n] = net[n] + fixed[n] /\ three[n] = two[n] + platform[n]
                      /\ four[n] = three[n] + iva[n]
  BY DEF QuoteType, Total
<1>2. q = [net |-> SumFunction(net), fixedFees |-> SumFunction(fixed),
           platformFee |-> SumFunction(platform), iva |-> SumFunction(iva),
           gatewayFee |-> SumFunction(fee), paidItems |-> SumFunction(paid)]
  BY DEF OrderQuote
<1>3. /\ SumFunction(net) = SumOn(net, S) /\ SumFunction(fixed) = SumOn(fixed, S)
      /\ SumFunction(platform) = SumOn(platform, S)
      /\ SumFunction(iva) = SumOn(iva, S) /\ SumFunction(fee) = SumOn(fee, S)
      /\ SumFunction(paid) = SumOn(paid, S)
  BY ColumnSum
<1> HIDE DEF S, net, fixed, platform, iva, fee, paid, all, two, three, four, q
<1>4. IsFiniteSet(S)
  BY DEF S
<1>5. /\ SumOn(net, S) \in Nat /\ SumOn(fixed, S) \in Nat /\ SumOn(iva, S) \in Nat
      /\ SumOn(fee, S) \in Nat /\ SumOn(paid, S) \in Nat
  BY <1>1, <1>4, SumIsNatural
<1>6. SumOn(platform, S) \in Int
  BY <1>1, <1>4, SumType
<1>7. q \in QuoteType
  BY <1>2, <1>3, <1>5, <1>6 DEF QuoteType
<1>8. SumOn(two, S) = SumOn(net, S) + SumOn(fixed, S)
  BY <1>1, <1>4, SumAdds
<1>9. SumOn(three, S) = SumOn(two, S) + SumOn(platform, S)
  <2>1. \A n \in S : two[n] \in Int /\ platform[n] \in Int
    BY <1>1
  <2> QED BY <1>1, <1>4, <2>1, SumAdds
<1>10. SumOn(four, S) = SumOn(three, S) + SumOn(iva, S)
  <2>1. \A n \in S : three[n] \in Int /\ iva[n] \in Int
    BY <1>1
  <2> QED BY <1>1, <1>4, <2>1, SumAdds
<1>11. SumOn(all, S) = SumOn(four, S) + SumOn(fee, S)
  <2>1. \A n \in S : four[n] \in Int /\ fee[n] \in Int /\ all[n] = four[n] + fee[n]
    BY <1>1
  <2> QED BY <1>4, <2>1, SumAdds
<1>12. Total(q) = SumOn(all, S)
  BY <1>2, <1>3, <1>5, <1>6, <1>8, <1>9, <1>10, <1>11 DEF Total
<1> QED BY <1>7, <1>12 DEF q, all, S

-----------------------------------------------------------------------------
(* The invariant.                                                          *)

\* The platform pays for the installments that the order was quoted again for.
PlatformPays == requotes > 0 /\ ~params.absorbInstallmentCost

\* Of an item of the order: the gateway's fixed fee is in it once; until its
\* promoter has paid for installments it costs what its net was first quoted at;
\* and until the platform has, the platform's fee is its percentage of that net
\* and no loss together with the tax.
ItemInv(q) ==
  /\ q \in QuoteType /\ q.paidItems = 1 /\ q.gatewayFee >= TxFixed /\ Total(q) > 0
  /\ requotes = 0 \/ ~params.absorbInstallmentCost =>
       q.net > 0 /\ Total(q) = Total(baseQuote(q.net, params))
  /\ ~PlatformPays =>
       /\ QuotedNet(q) \in Nat
       /\ 200 * q.platformFee + 300 >= 2 * (params.platformPct * QuotedNet(q))
       /\ q.platformFee + q.iva >= 0

PricingInv ==
  /\ params \in Params /\ requotes \in Nat
  /\ IsFiniteSet(DOMAIN items) /\ DOMAIN items # {}
  /\ \A n \in DOMAIN items : ItemInv(items[n])
  /\ PlatformPays => price.platformFee >= 0

LEMMA PricingInitInv ==
  ASSUME PricingInit
  PROVE  PricingInv
<1>1. PICK nets \in Nets : items = [n \in DOMAIN nets |-> baseQuote(nets[n], params)]
  BY DEF PricingInit
<1>2. /\ params \in Params /\ params \in ParamsType /\ requotes = 0
      /\ nets \in Seq(Nat \ {0}) /\ nets # <<>>
  BY PricingAssumption DEF PricingInit
<1>3. /\ DOMAIN nets = 1 .. Len(nets) /\ Len(nets) \in Nat
      /\ \A n \in DOMAIN nets : nets[n] \in Nat \ {0}
  BY <1>2
<1>4. Len(nets) # 0
  BY <1>2
<1>5. IsFiniteSet(DOMAIN items) /\ DOMAIN items # {}
  <2>1. DOMAIN items = 1 .. Len(nets)
    BY <1>1, <1>3
  <2>2. IsFiniteSet(1 .. Len(nets))
    BY <1>3, FS_Interval
  <2>3. 1 \in 1 .. Len(nets)
    BY <1>3, <1>4
  <2> QED BY <2>1, <2>2, <2>3
<1>6. ASSUME NEW n \in DOMAIN items PROVE ItemInv(items[n])
  <2> DEFINE q == baseQuote(nets[n], params)
  <2>1. items[n] = q /\ nets[n] \in Nat \ {0}
    BY <1>1, <1>3, <1>6
  <2>2. BaseItem(q, params) /\ q.net = nets[n]
    BY <1>2, <2>1, BaseQuoteIs
  <2>3. q = baseQuote(q.net, params)
    BY <2>2
  <2> HIDE DEF q
  <2>4. q.net \in Nat /\ q.gatewayFee \in Nat /\ Total(q) \in Nat
    BY <2>2 DEF BaseItem, QuoteType, Total
  <2>5. params.gatewayPct \in 0 .. 99
    BY <1>2, ParamsFacts
  <2>6. QuotedNet(q) = q.net
    BY <2>2, <2>4 DEF BaseItem, QuotedNet
  <2>7. q.gatewayFee >= TxFixed
    BY <2>2, <2>4, <2>5, GatewayFeeIs DEF BaseItem
  <2> QED BY <2>1, <2>2, <2>3, <2>4, <2>6, <2>7 DEF ItemInv, BaseItem
<1> QED BY <1>2, <1>5, <1>6 DEF PricingInv, PlatformPays

LEMMA RequoteInv ==
  ASSUME PricingInv, NEW rate \in Rates, Requote(rate)
  PROVE  PricingInv'
<1>1. /\ params \in Params /\ params \in ParamsType /\ params' = params
      /\ requotes \in Nat /\ requotes' \in Nat /\ requotes' > 0 /\ rate \in 0 .. 99
  BY PricingAssumption DEF PricingInv, Requote
<1>2. /\ DOMAIN items' = DOMAIN items
      /\ \A n \in DOMAIN items :
           items'[n] = inInstallments(baseQuote(items[n].net, params), rate, params)
  BY DEF Requote
<1>3. \A n \in DOMAIN items : items[n].net \in Nat \ {0}
  BY DEF PricingInv, ItemInv, QuoteType, Requote
<1>4. IF params.absorbInstallmentCost
      THEN \A n \in DOMAIN items' : ~(items'[n].net < 0)
      ELSE ~(OrderQuote(items').platformFee < 0)
  BY DEF Requote
<1>5. ASSUME NEW n \in DOMAIN items PROVE ItemInv(items[n])'
  <2> DEFINE q == baseQuote(items[n].net, params)
             r == items'[n]
  <2>1. BaseItem(q, params) /\ q.net = items[n].net
    BY <1>1, <1>3, <1>5, BaseQuoteIs
  <2>2. r = inInstallments(q, rate, params) /\ q = baseQuote(q.net, params)
    BY <1>2, <1>5, <2>1
  <2> HIDE DEF q, r
  <2>3. /\ Total(r) = Total(q) /\ r.paidItems = 1 /\ r.gatewayFee >= TxFixed
        /\ r.iva = q.iva /\ r.net \in Int /\ (r.net >= 0 => r \in QuoteType)
        /\ IF params.absorbInstallmentCost
           THEN /\ r.platformFee = q.platformFee
                /\ r.net + r.gatewayFee - gatewayFeeOf(Total(r), params.gatewayPct) = q.net
           ELSE r.net = q.net
    BY <1>1, <2>1, <2>2, InstallmentsAre
  <2>4. q.net \in Nat /\ q.net > 0 /\ Total(q) > 0
        /\ 200 * q.platformFee + 300 >= 2 * (params.platformPct * q.net)
        /\ q.platformFee + q.iva >= 0
    BY <2>1 DEF BaseItem, QuoteType
  <2>5. r.net >= 0
    BY <1>2, <1>4, <1>5, <2>3, <2>4 DEF r
  <2> QED
    BY <1>1, <2>2, <2>3, <2>4, <2>5 DEF ItemInv, PlatformPays, QuotedNet, r
<1>6. ASSUME PlatformPays' PROVE (price.platformFee >= 0)'
  <2>1. OrderQuote(items') \in QuoteType
    BY <1>2, <1>5, OrderQuoteIs DEF PricingInv, ItemInv
  <2>2. OrderQuote(items').platformFee \in Int
    BY <2>1 DEF QuoteType
  <2> QED BY <1>1, <1>4, <1>6, <2>2 DEF PlatformPays, price
<1> QED BY <1>1, <1>2, <1>5, <1>6 DEF PricingInv

\* The invariant holds of every order, however often it was quoted again.
THEOREM PricingInvariant == PricingSpec => []PricingInv
<1>1. PricingInv /\ [\E rate \in Rates : Requote(rate)]_priceVars => PricingInv'
  <2>1. PricingInv /\ UNCHANGED priceVars => PricingInv'
    BY DEF priceVars, PricingInv, ItemInv, PlatformPays, QuotedNet, price
  <2> QED BY <2>1, RequoteInv
<1> QED BY <1>1, PricingInitInv, PTL DEF PricingSpec

-----------------------------------------------------------------------------
(* What follows from it for the price.                                     *)

\* The price of an order is an amount, and the fixed fee of the gateway is in it
\* once for each item.
LEMMA PriceIs ==
  ASSUME PricingInv
  PROVE  /\ price \in QuoteType /\ Total(price) > 0
         /\ price.paidItems > 0 /\ price.gatewayFee >= TxFixed * price.paidItems
<1> DEFINE S == DOMAIN items
           fee == [n \in S |-> items[n].gatewayFee]
           paid == [n \in S |-> items[n].paidItems]
           all == [n \in S |-> Total(items[n])]
<1>1. IsFiniteSet(S) /\ S # {} /\ \A n \in S : items[n] \in QuoteType
  BY DEF PricingInv, ItemInv
<1>2. price \in QuoteType /\ Total(price) = SumOn(all, S)
  BY <1>1, OrderQuoteIs DEF price
<1>3. price.gatewayFee = SumOn(fee, S) /\ price.paidItems = SumOn(paid, S)
  BY ColumnSum DEF price, OrderQuote
<1>4. \A n \in S : /\ fee[n] \in Nat /\ paid[n] = 1 /\ all[n] \in Nat \ {0}
                   /\ fee[n] >= TxFixed
  BY DEF PricingInv, ItemInv, QuoteType, Total
<1>5. TxFixed \in Nat
  BY SplitAssumption
<1> HIDE DEF S, fee, paid, all
<1>6. ASSUME NEW f, \A n \in S : f[n] \in Nat /\ f[n] >= 1 PROVE SumOn(f, S) > 0
  <2>1. PICK x \in S : TRUE
    BY <1>1
  <2>2. SumOn(f, S) = f[x] + SumOn(f, S \ {x})
    BY <1>1, <1>6, SumPeels
  <2>3. SumOn(f, S \ {x}) \in Nat
    <3>1. IsFiniteSet(S \ {x}) /\ \A n \in S \ {x} : f[n] \in Nat
      BY <1>1, <1>6, FS_Subset
    <3> QED BY <3>1, SumIsNatural
  <2>4. f[x] \in Nat /\ f[x] >= 1
    BY <1>6, <2>1
  <2> QED BY <2>2, <2>3, <2>4
<1>7. SumOn(all, S) > 0 /\ SumOn(paid, S) > 0
  BY <1>4, <1>6
<1>8. SumOn(fee, S) >= TxFixed * SumOn(paid, S)
  <2> DEFINE c == 1
             d == 0
  <2>1. c \in Int /\ d \in Int /\ TxFixed \in Int
    BY <1>5
  <2>2. \A n \in S : /\ fee[n] \in Int /\ paid[n] \in Int /\ paid[n] \in Int
                     /\ c * fee[n] + d * paid[n] >= TxFixed * paid[n]
    BY <1>4, <1>5
  <2> HIDE DEF c, d
  <2>3. c * SumOn(fee, S) + d * SumOn(paid, S) >= TxFixed * SumOn(paid, S)
    BY <1>1, <2>1, <2>2, SumKeepsBound, Zenon
  <2>4. SumOn(fee, S) \in Int /\ SumOn(paid, S) \in Int
    BY <1>1, <2>2, SumType
  <2> QED BY <1>5, <2>3, <2>4 DEF c, d
<1> QED BY <1>2, <1>3, <1>7, <1>8

\* What an order brings in besides the gateway's fee is not a loss, also where
\* installments left a promoter with nothing.
LEMMA InflowIsNoLoss ==
  ASSUME PricingInv
  PROVE  Inflow(price) >= 0
<1> DEFINE S == DOMAIN items
           fee == [n \in S |-> items[n].gatewayFee]
           all == [n \in S |-> Total(items[n])]
<1>1. IsFiniteSet(S) /\ \A n \in S : items[n] \in QuoteType
  BY DEF PricingInv, ItemInv
<1>2. price \in QuoteType /\ Total(price) = SumOn(all, S)
  BY <1>1, OrderQuoteIs DEF price
<1>3. CASE PlatformPays
  <2>1. price.platformFee >= 0
    BY <1>3 DEF PricingInv
  <2> HIDE DEF S, fee, all
  <2> QED BY <1>2, <2>1 DEF QuoteType, Inflow
<1>4. CASE ~PlatformPays
  <2>1. ASSUME NEW n \in S
        PROVE  fee[n] \in Int /\ all[n] \in Int /\ fee[n] <= all[n]
    <3> DEFINE q == items[n]
    <3>1. q \in QuoteType /\ q.platformFee + q.iva >= 0
      BY <1>4, <2>1 DEF PricingInv, ItemInv
    <3> QED BY <3>1 DEF QuoteType, Total
  <2> HIDE DEF S, fee, all
  <2>2. SumOn(fee, S) <= SumOn(all, S)
    BY <1>1, <2>1, SumMonotone
  <2>3. price.gatewayFee = SumOn(fee, S)
    BY ColumnSum DEF price, OrderQuote, fee, S
  <2> QED BY <1>2, <2>2, <2>3 DEF QuoteType, Inflow, Total
<1> QED BY <1>3, <1>4

-----------------------------------------------------------------------------
(* The properties.                                                         *)

\* The gateway never takes more of a payment than the price has for it: the
\* percentage shrinks with what it charges, and the fixed fee is taken once.
LEMMA SurplusIsNoLoss ==
  ASSUME NEW q \in QuoteType, Total(q) > 0, q.paidItems > 0,
         q.gatewayFee >= TxFixed * q.paidItems, NEW funds \in Nat
  PROVE  Surplus(q, funds) \in Nat
<1> DEFINE total == Total(q)
           charge == GatewayCharge(q, funds)
           k == TxFixed * q.paidItems
           percentage == q.gatewayFee - k
           fixed == IF charge > 0 THEN TxFixed ELSE 0
           n == percentage * charge + fixed * total
<1>1. /\ total \in Nat \ {0} /\ charge \in Nat /\ charge <= total
      /\ q.gatewayFee \in Nat /\ q.paidItems \in Nat \ {0} /\ TxFixed \in Nat
  <2>1. total \in Nat \ {0} /\ Total(q) >= 0
    BY DEF QuoteType, Total
  <2>2. /\ charge \in Nat /\ WalletPortion(q, funds) \in Nat
        /\ WalletPortion(q, funds) + charge = total
    BY <2>1, SplitType
  <2> HIDE DEF total, charge
  <2> QED BY <2>1, <2>2, SplitAssumption DEF QuoteType
<1>2. k \in Nat /\ k >= TxFixed
  <2>1. k = TxFixed * (q.paidItems - 1) + TxFixed
    BY <1>1
  <2>2. TxFixed * (q.paidItems - 1) \in Nat
    BY <1>1
  <2> QED BY <1>1, <2>1, <2>2
<1>3. RealGatewayFee(q, charge) = RoundHalfEven(n, total)
  BY <1>1 DEF RealGatewayFee
<1> HIDE DEF k
<1>4. percentage \in Nat /\ fixed \in Nat /\ percentage + fixed <= q.gatewayFee
  BY <1>1, <1>2 DEF k
<1> HIDE DEF total, charge, percentage, fixed
<1>5. n \in Int /\ n <= q.gatewayFee * total
  <2>1. percentage * charge <= percentage * total
    <3>1. percentage * total = percentage * charge + percentage * (total - charge)
      BY <1>1, <1>4
    <3>2. percentage * (total - charge) \in Nat /\ percentage * charge \in Nat
      BY <1>1, <1>4
    <3> QED BY <3>1, <3>2
  <2>2. q.gatewayFee * total
          = percentage * total + fixed * total
              + (q.gatewayFee - percentage - fixed) * total
    BY <1>1, <1>4
  <2>3. /\ (q.gatewayFee - percentage - fixed) * total \in Nat
        /\ percentage * charge \in Nat /\ fixed * total \in Nat
        /\ percentage * total \in Nat
    BY <1>1, <1>4
  <2> QED BY <2>1, <2>2, <2>3
<1> HIDE DEF n
<1>6. RoundHalfEven(n, total) \in Int /\ RoundHalfEven(n, total) <= q.gatewayFee
  <2>1. q.gatewayFee \in Int
    BY <1>1
  <2> QED BY <1>1, <1>5, <2>1, RoundBounds, RoundKeepsOrder
<1> QED BY <1>1, <1>3, <1>6 DEF Surplus, charge

\* A refund or a chargeback takes back what the payment of an order gave, and
\* leaves the platform the surplus of the gateway's fee (reverse), whatever part
\* the wallet paid and however often the order was quoted again.
THEOREM EveryOrderIsUndone == PricingSpec => []OrdersAreUndone
<1>1. PricingInv => OrdersAreUndone
  BY PriceIs, ReversalsUndoPayments DEF OrdersAreUndone, QuoteType, Total
<1> QED BY <1>1, PricingInvariant, PTL

\* The entries of a payment by wallet or gateway alone add up to nothing, and so
\* do those of a mixed one that the gateway's fee is within (fulfill), whatever
\* order was quoted and quoted again.
THEOREM EveryPlainOrderBalances == PricingSpec => []PlainOrdersBalance
<1>1. PricingInv => PlainOrdersBalance
  BY PriceIs, InflowIsNoLoss, PlainSplitsBalance DEF PlainOrdersBalance, QuoteType, Total
<1> QED BY <1>1, PricingInvariant, PTL

\* In installments the buyer pays what one payment costs (quote), if the platform
\* bears them or the order is quoted again once: a second quote starts from the
\* net that the first left the promoter with.
THEOREM EveryBuyerPaysTheSame ==
  ASSUME MaxRequotes <= 1 \/ \A p \in Params : ~p.absorbInstallmentCost
  PROVE  PricingSpec => BuyersPayTheSame
<1>1. ASSUME PricingInv, NEW rate \in Rates, Requote(rate)
      PROVE  Total(OrderQuote(items)) = Total(OrderQuote(items'))
  <2> DEFINE S == DOMAIN items
             before == [n \in S |-> Total(items[n])]
             after == [n \in S |-> Total(items'[n])]
  <2>1. IsFiniteSet(S) /\ \A n \in S : items[n] \in QuoteType
    BY <1>1 DEF PricingInv, ItemInv
  <2>2. PricingInv'
    BY <1>1, RequoteInv
  <2>3. DOMAIN items' = S /\ \A n \in S : items'[n] \in QuoteType
    BY <1>1, <2>2 DEF PricingInv, ItemInv, Requote
  <2>4. Total(OrderQuote(items)) = SumOn(before, S)
    BY <2>1, OrderQuoteIs
  <2>5. Total(OrderQuote(items')) = SumOn(after, S)
    BY <2>1, <2>3, OrderQuoteIs
  <2>6. requotes = 0 \/ ~params.absorbInstallmentCost
    BY <1>1, PricingAssumption DEF PricingInv, Requote
  <2>7. ASSUME NEW n \in S PROVE Total(items[n]) = Total(items'[n])
    <3> DEFINE q == baseQuote(items[n].net, params)
    <3>1. /\ items[n].net \in Nat \ {0} /\ Total(items[n]) = Total(q)
          /\ params \in ParamsType /\ rate \in 0 .. 99
      BY <1>1, <2>6, <2>7, PricingAssumption DEF PricingInv, ItemInv, QuoteType
    <3>2. BaseItem(q, params) /\ items'[n] = inInstallments(q, rate, params)
      BY <1>1, <2>7, <3>1, BaseQuoteIs DEF Requote
    <3> QED BY <3>1, <3>2, InstallmentsAre
  <2>8. SumOn(before, S) = SumOn(after, S)
    BY <2>1, <2>7, SumAgrees
  <2> QED BY <2>4, <2>5, <2>8
<1>2. PricingInv /\ [\E rate \in Rates : Requote(rate)]_priceVars =>
        [Total(OrderQuote(items)) = Total(OrderQuote(items'))]_items
  BY <1>1 DEF priceVars
<1> QED BY <1>2, PricingInvariant, PTL DEF PricingSpec, BuyersPayTheSame

\* The platform keeps its percentage of the nets it quoted, but for the rounding
\* of a cent and a half an item, and loses nothing of its own by installments
\* (baseQuote, quote, requote, realGatewayFee).
THEOREM ThePlatformKeepsItsMargin == PricingSpec => []PlatformKeepsItsMargin
<1>1. ASSUME PricingInv PROVE PlatformKeepsItsMargin
  <2> DEFINE S == DOMAIN items
             fee == [n \in S |-> items[n].platformFee]
             paid == [n \in S |-> items[n].paidItems]
             net == [n \in S |-> QuotedNet(items[n])]
             e == 2 * params.platformPct
             c == 200
             d == 300
  <2>1. \A funds \in 0 .. Total(price) : Surplus(price, funds) \in Nat
    BY <1>1, PriceIs, SurplusIsNoLoss DEF QuoteType, Total
  <2>2. /\ price.fixedFees \in Nat /\ price.platformFee \in Int
        /\ price.paidItems \in Nat
    BY <1>1, PriceIs DEF QuoteType
  <2>3. ASSUME PlatformPays, NEW funds \in 0 .. Total(price)
        PROVE  Revenue(price, funds) >= 0
    <3>1. price.platformFee >= 0 /\ Surplus(price, funds) \in Nat
      BY <1>1, <2>1, <2>3 DEF PricingInv
    <3> QED BY <2>2, <3>1 DEF Revenue
  <2>4. ASSUME ~PlatformPays
        PROVE  c * price.platformFee + d * price.paidItems >= e * SumFunction(net)
    <3>1. params \in ParamsType
      BY <1>1, PricingAssumption DEF PricingInv
    <3>2. params.platformPct \in 0 .. 99
      BY <3>1, ParamsFacts
    <3>3. ASSUME NEW n \in S
          PROVE  /\ fee[n] \in Int /\ paid[n] \in Int /\ net[n] \in Int
                 /\ c * fee[n] + d * paid[n] >= e * net[n]
      <4> DEFINE q == items[n]
                 m == params.platformPct * QuotedNet(q)
      <4>1. /\ q \in QuoteType /\ q.paidItems = 1 /\ QuotedNet(q) \in Nat
            /\ 200 * q.platformFee + 300 >= 2 * m
        BY <1>1, <2>4, <3>3 DEF PricingInv, ItemInv
      <4>2. e * net[n] = 2 * m /\ fee[n] = q.platformFee /\ paid[n] = 1
            /\ net[n] \in Int
        BY <3>2, <4>1
      <4> HIDE DEF m, fee, paid, net, e
      <4> QED BY <4>1, <4>2 DEF QuoteType
    <3>4. c \in Int /\ d \in Int /\ e \in Int
      BY <3>2
    <3>5. IsFiniteSet(S)
      BY <1>1 DEF PricingInv
    <3>6. /\ price.platformFee = SumOn(fee, S) /\ price.paidItems = SumOn(paid, S)
          /\ SumFunction(net) = SumOn(net, S)
      BY ColumnSum DEF price, OrderQuote
    <3> HIDE DEF S, fee, paid, net, c, d, e
    <3>7. c * SumOn(fee, S) + d * SumOn(paid, S) >= e * SumOn(net, S)
      BY <3>3, <3>4, <3>5, SumKeepsBound, Zenon
    <3> QED BY <3>6, <3>7
  <2>5. ASSUME ~PlatformPays, NEW funds \in 0 .. Total(price)
        PROVE  200 * (Revenue(price, funds) - price.fixedFees) + 300 * price.paidItems
                 >= 2 * params.platformPct * SumFunction(net)
    <3> DEFINE bound == 2 * params.platformPct * SumFunction(net)
               surplus == Surplus(price, funds)
    <3>1. /\ 200 * price.platformFee + 300 * price.paidItems >= bound
          /\ surplus \in Nat
      BY <2>1, <2>4, <2>5
    <3> HIDE DEF bound, surplus
    <3>2. Revenue(price, funds) - price.fixedFees = price.platformFee + surplus
      BY <2>2, <3>1 DEF Revenue, surplus
    <3> HIDE DEF net
    <3>3. bound \in Int
      <4>1. params \in ParamsType
        BY <1>1, PricingAssumption DEF PricingInv
      <4>2. params.platformPct \in 0 .. 99
        BY <4>1, ParamsFacts
      <4>3. SumFunction(net) \in Int
        <5>1. \A n \in S : net[n] \in Int
          BY <1>1, <2>5 DEF PricingInv, ItemInv, net
        <5>2. IsFiniteSet(S)
          BY <1>1 DEF PricingInv
        <5>3. SumFunction(net) = SumOn(net, S)
          BY ColumnSum DEF net
        <5> QED BY <5>1, <5>2, <5>3, SumType
      <4> QED BY <4>2, <4>3 DEF bound
    <3> QED BY <2>2, <3>1, <3>2, <3>3 DEF bound
  <2> QED BY <2>3, <2>5 DEF PlatformKeepsItsMargin, PlatformPays
<1> QED BY <1>1, PricingInvariant, PTL
=============================================================================
