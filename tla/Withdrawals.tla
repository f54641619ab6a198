----------------------------- MODULE Withdrawals -----------------------------
(***************************************************************************)
(* What the withdrawals of wallet balances promise.  The money of a        *)
(* withdrawal is set aside once, and from there it goes one way and once:  *)
(* to its owner's bank, or back to its owner's wallet together with the    *)
(* fee.  What is set aside, what was paid out and what was earned are the  *)
(* withdrawals' own sums, to the cent.  Payouts implements this module.    *)
(***************************************************************************)
EXTENDS Integers

CONSTANTS Withdrawal, NetOf, FeeOf   \* in cents

VARIABLES stage, pending, settled, earned

Reserve(w) ==
  /\ stage[w] = "open"
  /\ stage' = [stage EXCEPT ![w] = "reserved"]
  /\ pending' = pending + NetOf[w]
  /\ earned' = earned + FeeOf[w]
  /\ UNCHANGED settled

PayOut(w) ==
  /\ stage[w] = "reserved"
  /\ stage' = [stage EXCEPT ![w] = "paid"]
  /\ pending' = pending - NetOf[w]
  /\ settled' = settled + NetOf[w]
  /\ UNCHANGED earned

Return(w) ==
  /\ stage[w] = "reserved"
  /\ stage' = [stage EXCEPT ![w] = "returned"]
  /\ pending' = pending - NetOf[w]
  /\ earned' = earned - FeeOf[w]
  /\ UNCHANGED settled

WithdrawalsInit ==
  /\ stage = [w \in Withdrawal |-> "open"]
  /\ pending = 0 /\ settled = 0 /\ earned = 0

WithdrawalsNext == \E w \in Withdrawal : Reserve(w) \/ PayOut(w) \/ Return(w)

WithdrawalsSpec ==
  WithdrawalsInit /\ [][WithdrawalsNext]_<<stage, pending, settled, earned>>
=============================================================================
