-------------------------- MODULE PaymentSplit_proofs --------------------------
(***************************************************************************)
(* What TLAPS proves of the split of an order's money, for every quote and *)
(* every wallet.                                                           *)
(***************************************************************************)
EXTENDS PaymentSplit, Ledger_proofs

-----------------------------------------------------------------------------
(* The amounts.                                                            *)

\* What the wallet pays of a quote is within what it has and what is due.
LEMMA SplitType ==
  ASSUME NEW q \in QuoteType, Total(q) >= 0, NEW funds \in Nat
  PROVE  /\ Total(q) \in Nat
         /\ WalletPortion(q, funds) \in Nat /\ GatewayCharge(q, funds) \in Nat
         /\ WalletPortion(q, funds) + GatewayCharge(q, funds) = Total(q)
         /\ MethodOf(q, funds) \in {"wallet", "mixed", "gateway"}
<1>1. Total(q) \in Int
  BY DEF QuoteType, Total
<1> QED BY <1>1 DEF WalletPortion, GatewayCharge, MethodOf

\* A whole multiple of d is divided without a remainder.
LEMMA RoundMultiple ==
  ASSUME NEW k \in Int, NEW d \in Nat \ {0}
  PROVE  RoundHalfEven(k * d, d) = k
<1>1. (k * d) \div d = k /\ (k * d) % d = 0
  OBVIOUS
<1> QED BY <1>1 DEF RoundHalfEven

\* The gateway's real fee is a whole number of cents, nothing if the gateway
\* is not charged, and what the quote says but for the fixed fees when it is
\* charged everything.
LEMMA RealGatewayFeeIs ==
  ASSUME NEW q \in QuoteType, Total(q) >= 0, NEW charge \in Nat
  PROVE  /\ RealGatewayFee(q, charge) \in Int
         /\ charge = 0 => RealGatewayFee(q, charge) = 0
         /\ charge > 0 /\ charge = Total(q) =>
              RealGatewayFee(q, charge) = q.gatewayFee - TxFixed * q.paidItems + TxFixed
<1> DEFINE percentage == q.gatewayFee - TxFixed * q.paidItems
           fixed == IF charge > 0 THEN TxFixed ELSE 0
<1>1. Total(q) \in Int /\ q.gatewayFee \in Nat /\ q.paidItems \in Nat
  BY DEF QuoteType, Total
<1>2. TxFixed * q.paidItems \in Int
  BY <1>1, SplitAssumption
<1>3. percentage \in Int /\ fixed \in Int /\ TxFixed \in Int
  BY <1>1, <1>2, SplitAssumption
<1>4. /\ charge = 0 => fixed = 0
      /\ charge > 0 => fixed = TxFixed
  OBVIOUS
<1>5. RealGatewayFee(q, charge) =
        IF Total(q) = 0 THEN fixed
        ELSE RoundHalfEven(percentage * charge + fixed * Total(q), Total(q))
  BY DEF RealGatewayFee, percentage, fixed
<1> HIDE DEF percentage, fixed
<1>6. percentage * charge + fixed * Total(q) \in Int
  BY <1>1, <1>3
<1>7. RealGatewayFee(q, charge) \in Int
  BY <1>1, <1>3, <1>5, <1>6, RoundHalfEvenType
<1>8. ASSUME charge = 0, Total(q) # 0 PROVE RealGatewayFee(q, charge) = 0
  <2>1. percentage * charge + fixed * Total(q) = 0 * Total(q)
    BY <1>1, <1>3, <1>4, <1>8
  <2>2. RoundHalfEven(0 * Total(q), Total(q)) = 0
    BY <1>1, <1>8, RoundMultiple
  <2> QED BY <1>5, <1>8, <2>1, <2>2
<1>9. ASSUME charge > 0, charge = Total(q)
      PROVE  RealGatewayFee(q, charge) = percentage + TxFixed
  <2>1. percentage * charge + fixed * Total(q) = (percentage + TxFixed) * Total(q)
    BY <1>1, <1>3, <1>4, <1>9
  <2>2. RoundHalfEven((percentage + TxFixed) * Total(q), Total(q)) = percentage + TxFixed
    BY <1>1, <1>3, <1>9, RoundMultiple
  <2> QED BY <1>1, <1>5, <1>9, <2>1, <2>2
<1> QED BY <1>4, <1>5, <1>7, <1>8, <1>9 DEF percentage

-----------------------------------------------------------------------------
(* The entries.                                                            *)

\* The accounts of a payment and of a reversal are five and four.
LEMMA AccountsDiffer ==
  ASSUME NEW promoter \in Promoters, NEW buyer \in Users,
         NEW other \in {Wallet(buyer), System("payment_holding")}
  PROVE  LET p == Payable(promoter)
             r == System("platform_revenue")
             t == System("tax_payable")
             c == System("gateway_clearing")
         IN /\ p \in Accounts /\ r \in Accounts /\ t \in Accounts /\ c \in Accounts
            /\ other \in Accounts
            /\ p # r /\ p # t /\ p # c /\ r # t /\ r # c /\ t # c
            /\ other # p /\ other # r /\ other # t /\ other # c
BY AccountNames DEF SystemTypes

\* The entries of a payment are amounts for accounts that exist (fulfill).
LEMMA FulfillIsEntryList ==
  ASSUME NEW q \in QuoteType, Total(q) >= 0,
         NEW buyer \in Users, NEW promoter \in Promoters, NEW method,
         NEW wallet \in Nat, NEW charge \in Nat
  PROVE  IsEntryList(FulfillEntries(q, buyer, promoter, method, wallet, charge))
<1>1. RealGatewayFee(q, charge) \in Int
  BY RealGatewayFeeIs
<1>2. /\ q.net \in Int /\ q.platformFee \in Int /\ q.fixedFees \in Int
      /\ q.iva \in Int /\ q.gatewayFee \in Int
  BY DEF QuoteType
<1> DEFINE all == PaymentEntries(q, buyer, promoter, method, wallet, charge)
<1>3. \A a \in DOMAIN all : all[a] \in Int
  BY <1>1, <1>2 DEF PaymentEntries, GatewayInflow
<1>4. DOMAIN all \subseteq Accounts
  BY AccountsDiffer DEF PaymentEntries
<1> HIDE DEF all
<1>5. \A dropped : IsEntryList(Without(all, dropped))
  BY <1>3, <1>4 DEF IsEntryList, Without, Restrict
<1> QED BY <1>5 DEF FulfillEntries, all

\* Two entries at least.
LEMMA TwoEntries ==
  ASSUME NEW entries, IsEntryList(entries),
         NEW a \in DOMAIN entries, NEW b \in DOMAIN entries, a # b
  PROVE  Cardinality(DOMAIN entries) >= 2
<1> DEFINE P == {a, b}
<1>1. IsFiniteSet(DOMAIN entries)
  BY AccountsFinite, FS_Subset DEF IsEntryList
<1>2. Cardinality(P) = 2 /\ P \in SUBSET DOMAIN entries
  BY PairIsFinite
<1> HIDE DEF P
<1>3. Cardinality(P) <= Cardinality(DOMAIN entries)
  BY <1>1, <1>2, FS_Subset
<1>4. Cardinality(DOMAIN entries) \in Nat
  BY <1>1, FS_CardinalityType
<1> QED BY <1>2, <1>3, <1>4

\* The entries of a payment add up to what is left of the charge after the
\* gateway's fee, less the clearing line (fulfill).
LEMMA FulfillSum ==
  ASSUME NEW q \in QuoteType, Total(q) >= 0,
         NEW buyer \in Users, NEW promoter \in Promoters,
         NEW method \in {"wallet", "mixed", "gateway"},
         NEW wallet \in Nat, NEW charge \in Nat, wallet + charge = Total(q)
  PROVE  LET entries == FulfillEntries(q, buyer, promoter, method, wallet, charge)
             inflow == GatewayInflow(q, charge)
         IN  /\ Cardinality(DOMAIN entries) >= 2
             /\ SumFunction(entries) = IF inflow > 0 THEN 0 ELSE inflow
<1> DEFINE p == Payable(promoter)
           r == System("platform_revenue")
           t == System("tax_payable")
           c == System("gateway_clearing")
           payer == IF method = "wallet" THEN Wallet(buyer) ELSE System("payment_holding")
           D == {p, r, t, c, payer}
           saved == q.gatewayFee - RealGatewayFee(q, charge)
           inflow == GatewayInflow(q, charge)
           all == PaymentEntries(q, buyer, promoter, method, wallet, charge)
           X == (IF wallet > 0 THEN {} ELSE {Wallet(buyer), System("payment_holding")})
                  \cup (IF inflow > 0 THEN {} ELSE {c})
           entries == FulfillEntries(q, buyer, promoter, method, wallet, charge)
           z == [a \in D |-> IF a \in X THEN 0 ELSE all[a]]
<1>1. /\ p # r /\ p # t /\ p # c /\ r # t /\ r # c /\ t # c
      /\ payer # p /\ payer # r /\ payer # t /\ payer # c
      /\ p \notin X /\ r \notin X /\ t \notin X
      /\ c \in X <=> ~(inflow > 0)
      /\ payer \in X <=> ~(wallet > 0)
  BY AccountNames DEF SystemTypes
<1>2. /\ RealGatewayFee(q, charge) \in Int
      /\ q.net \in Int /\ q.platformFee \in Int /\ q.fixedFees \in Int
      /\ q.iva \in Int /\ q.gatewayFee \in Int
      /\ Total(q) = q.net + q.fixedFees + q.platformFee + q.iva + q.gatewayFee
      /\ inflow = charge - RealGatewayFee(q, charge)
  BY RealGatewayFeeIs DEF QuoteType, Total, GatewayInflow
<1>3. inflow \in Int /\ saved \in Int
  BY <1>2
<1>4. DOMAIN all = D
  BY DEF PaymentEntries
<1>5. /\ all[p] = q.net /\ all[r] = q.platformFee + saved + q.fixedFees
      /\ all[t] = q.iva /\ all[c] = -inflow /\ all[payer] = -wallet
  BY <1>1 DEF PaymentEntries
<1>6. entries = [a \in D \ X |-> all[a]]
  BY <1>4 DEF FulfillEntries, Without, Restrict
<1>7. /\ z[p] = q.net /\ z[r] = q.platformFee + saved + q.fixedFees
      /\ z[t] = q.iva
      /\ z[c] = IF inflow > 0 THEN -inflow ELSE 0
      /\ z[payer] = IF wallet > 0 THEN -wallet ELSE 0
  BY <1>1, <1>5
<1> HIDE DEF p, r, t, c, payer, saved, inflow, all, X, entries
<1>8. /\ z[p] \in Int /\ z[r] \in Int /\ z[t] \in Int /\ z[c] \in Int
      /\ z[payer] \in Int
  BY <1>2, <1>3, <1>7
<1>9. IsFiniteSet(D) /\ SumOn(z, D) = z[p] + z[r] + z[t] + z[c] + z[payer]
  <2> HIDE DEF z
  <2> DEFINE S2 == {p, r}
             S3 == S2 \cup {t}
             S4 == S3 \cup {c}
  <2>1. /\ t \notin S2 /\ c \notin S3 /\ payer \notin S4 /\ D = S4 \cup {payer}
        /\ \A a \in D : z[a] \in Int
    BY <1>1, <1>8
  <2>2. S3 \subseteq D /\ S4 \subseteq D
    OBVIOUS
  <2>3. IsFiniteSet(S2) /\ SumOn(z, S2) = z[p] + z[r]
    BY <1>1, <1>8, SumOfTwo
  <2> HIDE DEF S2, D
  <2>4. IsFiniteSet(S3) /\ SumOn(z, S3) = z[t] + SumOn(z, S2)
    BY <2>1, <2>2, <2>3, SumGrows
  <2> HIDE DEF S3
  <2>5. IsFiniteSet(S4) /\ SumOn(z, S4) = z[c] + SumOn(z, S3)
    BY <2>1, <2>2, <2>4, SumGrows
  <2> HIDE DEF S4
  <2>6. IsFiniteSet(D) /\ SumOn(z, D) = z[payer] + SumOn(z, S4)
    BY <2>1, <2>5, SumGrows
  <2> QED BY <1>8, <2>3, <2>4, <2>5, <2>6
<1>10. SumOn(z, D) = IF inflow > 0 THEN 0 ELSE inflow
  <2> HIDE DEF z, D
  <2>1. CASE inflow > 0
    BY <1>2, <1>3, <1>7, <1>9, <2>1 DEF saved
  <2>2. CASE ~(inflow > 0)
    BY <1>2, <1>3, <1>7, <1>9, <2>2 DEF saved
  <2> QED BY <2>1, <2>2
<1>11. SumOn(z, D) = SumOn(z, D \ X)
  <2>1. \A a \in D : z[a] \in Int
    <3> HIDE DEF z
    <3> QED BY <1>8
  <2>2. \A a \in D \ (D \ X) : z[a] = 0
    OBVIOUS
  <2>3. D \ X \in SUBSET D
    OBVIOUS
  <2> HIDE DEF z, D
  <2> QED BY <1>9, <2>1, <2>2, <2>3, SumOfSupport
<1>12. SumOn(z, D \ X) = SumOn(entries, D \ X)
  <2>1. \A a \in D \ X : z[a] = entries[a]
    BY <1>6
  <2>2. IsFiniteSet(D \ X)
    BY <1>9, FS_Difference
  <2> HIDE DEF z, D
  <2> QED BY <2>1, <2>2, SumAgrees
<1>13. DOMAIN entries = D \ X
  BY <1>6
<1>14. SumFunction(entries) = SumOn(entries, D \ X)
  BY <1>13 DEF SumFunction, SumOn
<1>15. Cardinality(DOMAIN entries) >= 2
  <2>1. IsEntryList(entries)
    BY FulfillIsEntryList DEF entries
  <2>2. p \in DOMAIN entries /\ r \in DOMAIN entries /\ p # r
    BY <1>1, <1>13
  <2> QED BY <2>1, <2>2, TwoEntries
<1> QED BY <1>10, <1>11, <1>12, <1>14, <1>15 DEF entries, inflow

-----------------------------------------------------------------------------
(* Theorems.                                                               *)

\* The ledger finds the entries of a payment well formed exactly when the
\* gateway's real fee is within its charge (fulfill): for every quote and every
\* wallet the finding about mixed payments is the only way they fail to cancel.
THEOREM SplitBalancesIff ==
  ASSUME NEW q \in QuoteType, Total(q) >= 0, NEW funds \in Nat,
         NEW buyer \in Users, NEW promoter \in Promoters
  PROVE  WellFormed(EntriesFor(q, funds, buyer, promoter))
           <=> GatewayInflow(q, GatewayCharge(q, funds)) >= 0
<1> DEFINE inflow == GatewayInflow(q, GatewayCharge(q, funds))
           entries == EntriesFor(q, funds, buyer, promoter)
<1>1. /\ Cardinality(DOMAIN entries) >= 2
      /\ SumFunction(entries) = IF inflow > 0 THEN 0 ELSE inflow
  <2> DEFINE m == MethodOf(q, funds)
             w == WalletPortion(q, funds)
             c == GatewayCharge(q, funds)
  <2>1. /\ m \in {"wallet", "mixed", "gateway"} /\ w \in Nat /\ c \in Nat
        /\ w + c = Total(q)
    BY SplitType
  <2>2. entries = FulfillEntries(q, buyer, promoter, m, w, c)
    BY DEF EntriesFor
  <2> HIDE DEF m, w, entries
  <2>3. inflow = GatewayInflow(q, c)
    OBVIOUS
  <2> HIDE DEF c, inflow
  <2> QED BY <2>1, <2>2, <2>3, FulfillSum
<1>2. inflow \in Int
  BY SplitType, RealGatewayFeeIs DEF GatewayInflow
<1> HIDE DEF inflow, entries
<1>3. WellFormed(entries) <=> inflow >= 0
  BY <1>1, <1>2 DEF WellFormed
<1> QED BY <1>3 DEF inflow, entries

\* Where the quote leaves something once the gateway's fee is paid, payments
\* that the wallet or the gateway makes alone always balance (fulfill).
THEOREM PlainSplitsBalance ==
  ASSUME NEW q \in QuoteType, Inflow(q) >= 0, q.paidItems > 0 \/ Total(q) = 0,
         NEW funds \in Nat, NEW buyer \in Users, NEW promoter \in Promoters
  PROVE  PlainSplitBalances(q, funds, buyer, promoter)
<1> DEFINE charge == GatewayCharge(q, funds)
           inflow == GatewayInflow(q, charge)
<1>1. /\ q.gatewayFee \in Nat /\ q.paidItems \in Nat /\ Inflow(q) \in Int
      /\ Total(q) = Inflow(q) + q.gatewayFee
  BY DEF QuoteType, Total, Inflow
<1>2. Total(q) \in Nat
  BY <1>1
<1>3. charge \in Nat /\ inflow = charge - RealGatewayFee(q, charge)
  BY <1>2, SplitType DEF GatewayInflow
<1>4. CASE MethodOf(q, funds) = "wallet"
  <2>1. charge = 0
    BY <1>4 DEF MethodOf
  <2>2. RealGatewayFee(q, charge) = 0
    BY <1>2, <1>3, <2>1, RealGatewayFeeIs
  <2>3. inflow >= 0
    BY <1>3, <2>1, <2>2
  <2> QED BY <1>2, <2>3, SplitBalancesIff DEF PlainSplitBalances
<1>5. CASE MethodOf(q, funds) = "gateway"
  <2>1. charge = Total(q) /\ charge > 0
    BY <1>2, <1>3, <1>5, SplitType DEF MethodOf
  <2>2. RealGatewayFee(q, charge) = q.gatewayFee - TxFixed * q.paidItems + TxFixed
    BY <1>2, <1>3, <2>1, RealGatewayFeeIs
  <2>3. TxFixed * q.paidItems >= TxFixed /\ TxFixed * q.paidItems \in Nat
    <3>1. TxFixed * q.paidItems = TxFixed * (q.paidItems - 1) + TxFixed
      BY <1>1, SplitAssumption
    <3>2. TxFixed * (q.paidItems - 1) \in Nat
      BY <1>1, <2>1, SplitAssumption
    <3> QED BY <3>1, <3>2, SplitAssumption
  <2>4. inflow >= 0
    BY <1>1, <1>3, <2>1, <2>2, <2>3, SplitAssumption
  <2> QED BY <1>2, <2>4, SplitBalancesIff DEF PlainSplitBalances
<1>6. CASE MethodOf(q, funds) = "mixed"
  BY <1>2, <1>6, SplitBalancesIff DEF PlainSplitBalances
<1> QED BY <1>2, <1>4, <1>5, <1>6, SplitType

\* The entries of a refund, a chargeback and an event refund always add up to
\* nothing, and are amounts for accounts that exist (reverse, refundOne).
THEOREM ReversalsBalance ==
  ASSUME NEW q \in QuoteType, NEW kind,
         NEW buyer \in Users, NEW promoter \in Promoters
  PROVE  /\ IsEntryList(ReversalEntries(kind, q, buyer, promoter))
         /\ WellFormed(ReversalEntries(kind, q, buyer, promoter))
<1> DEFINE p == Payable(promoter)
           r == System("platform_revenue")
           t == System("tax_payable")
           c == System("gateway_clearing")
           to == IF kind = "chargeback" THEN c ELSE Wallet(buyer)
           D == {p, r, t, to}
           entries == ReversalEntries(kind, q, buyer, promoter)
<1>1. /\ p \in Accounts /\ r \in Accounts /\ t \in Accounts /\ to \in Accounts
      /\ p # r /\ p # t /\ r # t /\ to # p /\ to # r /\ to # t
  BY AccountNames DEF SystemTypes
<1>2. /\ q.net \in Int /\ q.platformFee \in Int /\ q.fixedFees \in Int
      /\ q.iva \in Int
      /\ Inflow(q) = q.net + q.platformFee + q.fixedFees + q.iva
  BY DEF QuoteType, Inflow
<1>3. CASE kind = "event_refund"
  <2>1. /\ DOMAIN entries = {p, to}
        /\ entries[p] = -q.net /\ entries[to] = q.net
    BY <1>1, <1>3 DEF ReversalEntries
  <2> HIDE DEF p, to, entries
  <2>2. IsEntryList(entries)
    BY <1>1, <1>2, <2>1 DEF IsEntryList
  <2>3. SumOn(entries, {p, to}) = entries[p] + entries[to]
    BY <1>1, <1>2, <2>1, SumOfTwo
  <2>4. SumFunction(entries) = 0
    BY <1>2, <2>1, <2>3 DEF SumFunction, SumOn
  <2>5. Cardinality(DOMAIN entries) >= 2
    BY <1>1, <2>1, <2>2, TwoEntries
  <2> QED BY <2>2, <2>4, <2>5 DEF entries, WellFormed
<1>4. CASE kind # "event_refund"
  <2>1. /\ DOMAIN entries = D
        /\ entries[p] = -q.net
        /\ entries[r] = -(q.platformFee + q.fixedFees)
        /\ entries[t] = -q.iva /\ entries[to] = Inflow(q)
    BY <1>1, <1>4 DEF ReversalEntries
  <2> HIDE DEF p, r, t, to, entries
  <2>2. /\ \A a \in D : entries[a] \in Int
        /\ IsEntryList(entries)
    BY <1>1, <1>2, <2>1 DEF IsEntryList
  <2> DEFINE S2 == {p, r}
             S3 == S2 \cup {t}
  <2>3. t \notin S2 /\ to \notin S3 /\ D = S3 \cup {to} /\ S3 \subseteq D
    BY <1>1
  <2>4. p \in DOMAIN entries /\ r \in DOMAIN entries
    BY <2>1
  <2>5. IsFiniteSet(S2) /\ SumOn(entries, S2) = entries[p] + entries[r]
    BY <1>1, <2>1, <2>2, SumOfTwo
  <2> HIDE DEF S2, D
  <2>6. IsFiniteSet(S3) /\ SumOn(entries, S3) = entries[t] + SumOn(entries, S2)
    BY <2>2, <2>3, <2>5, SumGrows
  <2> HIDE DEF S3
  <2>7. SumOn(entries, D) = entries[to] + SumOn(entries, S3)
    BY <2>2, <2>3, <2>6, SumGrows
  <2>8. SumFunction(entries) = SumOn(entries, D)
    BY <2>1 DEF SumFunction, SumOn
  <2>9. SumFunction(entries) = 0
    BY <1>2, <2>1, <2>5, <2>6, <2>7, <2>8
  <2>10. Cardinality(DOMAIN entries) >= 2
    BY <1>1, <2>2, <2>4, TwoEntries
  <2> QED BY <2>2, <2>9, <2>10 DEF entries, WellFormed
<1> QED BY <1>3, <1>4

\* A refund or a chargeback undoes a payment for every quote and every wallet:
\* promoter and tax are left with nothing of it, the platform with the surplus
\* of the gateway's fee (reverse: symmetric to fulfill).
THEOREM ReversalsUndoPayments ==
  ASSUME NEW q \in QuoteType, Total(q) >= 0, NEW funds \in Nat,
         NEW buyer \in Users, NEW promoter \in Promoters
  PROVE  ReversalUndoesPayment(q, funds, buyer, promoter)
<1> DEFINE wallet == WalletPortion(q, funds)
           charge == GatewayCharge(q, funds)
           method == MethodOf(q, funds)
           p == Payable(promoter)
           r == System("platform_revenue")
           t == System("tax_payable")
           given == EntriesFor(q, funds, buyer, promoter)
<1> SUFFICES ASSUME NEW kind \in {"refund", "chargeback"}
             PROVE  LET taken == ReversalEntries(kind, q, buyer, promoter)
                    IN  /\ WellFormed(taken)
                        /\ given[p] + taken[p] = 0
                        /\ given[t] + taken[t] = 0
                        /\ given[r] + taken[r] = Surplus(q, funds)
  BY DEF ReversalUndoesPayment
<1> DEFINE taken == ReversalEntries(kind, q, buyer, promoter)
<1>1. /\ RealGatewayFee(q, charge) \in Int
      /\ q.net \in Int /\ q.platformFee \in Int /\ q.fixedFees \in Int
      /\ q.iva \in Int /\ q.gatewayFee \in Int
  BY SplitType, RealGatewayFeeIs DEF QuoteType
<1>2. /\ given[p] = q.net
      /\ given[t] = q.iva
      /\ given[r] = q.platformFee + (q.gatewayFee - RealGatewayFee(q, charge))
                      + q.fixedFees
  BY AccountNames
  DEF EntriesFor, FulfillEntries, PaymentEntries, Without, Restrict, SystemTypes
<1>3. /\ taken[p] = -q.net /\ taken[t] = -q.iva
      /\ taken[r] = -(q.platformFee + q.fixedFees)
  BY AccountNames DEF ReversalEntries, SystemTypes
<1>4. WellFormed(taken)
  BY ReversalsBalance
<1> HIDE DEF given, taken
<1>5. /\ given[p] + taken[p] = 0 /\ given[t] + taken[t] = 0
      /\ given[r] + taken[r] = q.gatewayFee - RealGatewayFee(q, charge)
  BY <1>1, <1>2, <1>3
<1> QED BY <1>4, <1>5 DEF Surplus, taken
=============================================================================
