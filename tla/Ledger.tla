-------------------------------- MODULE Ledger --------------------------------
(***************************************************************************)
(* The double-entry ledger (api/src/modules/ledger/ledger.service.ts).     *)
(*                                                                         *)
(* LedgerService.post runs in one database transaction under an advisory   *)
(* lock, so a posting is one atomic step.  An entry list is a function     *)
(* from accounts to signed amounts in cents.  The hash chain of the        *)
(* transactions is not part of this module.  Components that move money    *)
(* EXTEND it; what a refused posting means to them is theirs to say.       *)
(***************************************************************************)
EXTENDS Integers, FiniteSets, Functions

CONSTANTS
  Users,       \* owners of wallets
  Promoters,   \* owners of payable accounts
  SystemOwner, \* SYSTEM_OWNER, the owner of the platform's own accounts
  References,  \* refId of a transaction: orders, withdrawals, events
  Opening      \* wallet balances at the start

SystemTypes ==
  {"platform_revenue", "tax_payable", "gateway_clearing", "payment_holding",
   "payout_pending", "payout_settled"}

Wallet(u) == <<"user_wallet", u>>
Payable(p) == <<"promoter_payable", p>>
System(type) == <<type, SystemOwner>>

Accounts ==
  {Wallet(u) : u \in Users} \cup {Payable(p) : p \in Promoters}
    \cup {System(type) : type \in SystemTypes}

ASSUME LedgerAssumption ==
  /\ IsFiniteSet(Users) /\ IsFiniteSet(Promoters)
  /\ Opening \in [Users -> Nat]
  /\ SystemOwner \notin Users \cup Promoters

VARIABLES
  balance, \* cached balance of every account
  journal  \* the transactions, as <<kind, reference>>

ledgerVars == <<balance, journal>>

Kinds == {"wallet_reserve", "wallet_refund_reserve", "order_payment",
          "refund", "chargeback", "event_refund", "withdrawal_request",
          "withdrawal_paid", "withdrawal_refund", "event_cash_transfer"}

LedgerTypeOK ==
  /\ balance \in [Accounts -> Int]
  /\ journal \in SUBSET (Kinds \X References)

\* Wallets start with what was credited from outside: the clearing account
\* carries the other side.
LedgerInit ==
  /\ balance = [a \in Accounts |->
                  IF a[1] = "user_wallet" THEN Opening[a[2]]
                  ELSE IF a = System("gateway_clearing")
                       THEN -SumFunction(Opening) ELSE 0]
  /\ journal = {}

\* n / d to the nearest integer, ties to the even one (ROUND_HALF_EVEN), d > 0.
RoundHalfEven(n, d) ==
  LET down == n \div d
      twice == 2 * (n % d)
  IN IF twice > d \/ (twice = d /\ down % 2 = 1) THEN down + 1 ELSE down

walletBalance(u) == balance[Wallet(u)]
Posted(kind, ref) == <<kind, ref>> \in journal

-----------------------------------------------------------------------------

\* The entry list without the accounts `dropped`: how callers leave out a line.
Without(entries, dropped) == Restrict(entries, DOMAIN entries \ dropped)

\* Two entries at least, that add up to nothing.
WellFormed(entries) ==
  Cardinality(DOMAIN entries) >= 2 /\ SumFunction(entries) = 0

\* No wallet goes into the red.
Covered(entries) ==
  \A a \in DOMAIN entries :
    a[1] = "user_wallet" => balance[a] + entries[a] >= 0

Acceptable(entries) == WellFormed(entries) /\ Covered(entries)

\* The posting itself: balances and transaction in one database transaction.
Record(kind, ref, entries) ==
  /\ balance' = [a \in Accounts |->
                   balance[a] + IF a \in DOMAIN entries THEN entries[a] ELSE 0]
  /\ journal' = journal \cup {<<kind, ref>>}

\* post without `idempotent`: every call moves money.
Post(kind, ref, entries) == Acceptable(entries) /\ Record(kind, ref, entries)

\* The sum and the length are checked before the journal is looked up, the
\* wallets after it: a repeated posting answers the existing transaction even
\* when the wallet could not pay twice.
Refused(kind, ref, entries) ==
  \/ ~WellFormed(entries)
  \/ ~Posted(kind, ref) /\ ~Covered(entries)

\* post with `idempotent`.
PostOnce(kind, ref, entries) ==
  /\ ~Refused(kind, ref, entries)
  /\ IF Posted(kind, ref) THEN UNCHANGED ledgerVars
     ELSE Record(kind, ref, entries)

-----------------------------------------------------------------------------

\* The platform's holding account is owed to buyers: it never goes below zero.
HoldingNonNegative == balance[System("payment_holding")] >= 0
=============================================================================
