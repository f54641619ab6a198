------------------------------ MODULE MCPricing ------------------------------
(* Pricing and PaymentSplit over bounded nets: orders of one or two items,  *)
(* quoted again up to MaxRequotes times; every split on the way is looked   *)
(* at.                                                                      *)
EXTENDS Pricing, TLC

CONSTANTS ana, promo, platform

MCUsers == {ana}
MCPromoters == {promo}
NoReferences == {}
Empty == ana :> 0

MCNets == {<<40>>, <<199>>, <<40, 57>>}
MCParams ==
  [platformPct : {0, 10}, gatewayPct : {5}, ivaPct : {12}, ivaOnNet : BOOLEAN,
   fixedFees : {0, 3}, absorbInstallmentCost : BOOLEAN]
MCRates == {4, 9, 14}
=============================================================================
