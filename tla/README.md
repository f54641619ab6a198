# Boletiva in TLA+

Boletiva sells and validates tickets for events: an API (NestJS, Prisma,
PostgreSQL) with Redis for seat holds, RabbitMQ/BullMQ for queues, and external
payment gateways. This directory holds TLA+ modules of the part that must not go
wrong, the way from a free seat to a paid ticket and back, and from there to the
gate and to the promoter's money, with the TLC configurations that check them on
small instances and the TLAPS proofs of what holds for every instance. Paths are
relative to the repository; `modules/` stands for `src/api/src/modules/`.

    tlc -workers 2 -config Checkout_sale.cfg MCCheckout.tla     (any run below)
    tlapm Payments_proofs.tla                          (any of the `_proofs` modules)

## 1. Inventory

### Modelled here

| Component | State it keeps | Operations | What makes it correct |
|---|---|---|---|
| Seat holds, `modules/inventory/seat-hold.service.ts` | Redis: a key per seat with its holder and a TTL; an owner set per holder with a TTL | `hold`, `holdByQuantity`, `release`, the roll-back of a hold over the cap; Lua scripts, then single commands | a hold does not change hands; what the owner set counts is within the cap; the set ends by itself |
| Reservations, `modules/reservations/reservations.service.ts` | Redis: a token with the seats of an id of its own; the seats each account or address has reserved; a mark and a cooldown per address | `create` (one or more hold calls, then the count, the mark, the token), `cancel`, `checkoutReservation` | a refusal gives back what was taken; what an identity reserves is within the cap; nobody ends a hold of somebody else |
| Checkout, `modules/orders/checkout.service.ts` | `orders`, `order_items`, `seats.status` | `commit`: three reads, one transaction, three Redis calls | a seat is promised to one order; all the seats of an order or none |
| Sweeper, `modules/orders/orders-sweeper.service.ts` | the same rows | `sweepExpired` on a timer | unpaid orders end; no seat stays sold for nobody |
| Pricing, `modules/pricing/pricing.engine.ts` | none; the totals it computes are stored in items and orders | gross-up of a net, installments, sum over the items | the platform keeps its margin, rounding and real gateway fee included |
| Payments, `modules/payments/payments.service.ts` | `payments`, `webhook_events`, orders, ledger | `initiate` with `requote`, `handleWebhook` → `fulfill`, `fail`, `reverse` | money moves for claimed orders only, once in and once out; a webhook is not lost |
| Event refunds, `modules/orders/event-refunds.service.ts` | orders, ledger | `refund`, order by order | never beside another reversal |
| Ledger, `modules/ledger/ledger.service.ts` | accounts, transactions, hash chain | `post` (balanced, wallets covered, optionally idempotent) | entries cancel, no wallet in the red |
| Wallet withdrawals, `modules/wallet/wallet-withdrawal.service.ts` | `wallet_withdrawals`; the reserve in the ledger | `request`, `approve`, `pay`, `reject`, `cancel` | the money set aside goes one way, once |
| Settlement, `modules/orders/settlement.service.ts` | `cashTransferredAt` and the status of an event; the promoter's wallet | `finalizeAndTransfer` | the cash of an event is transferred once, and not without its mark |
| Tickets, `modules/tickets` | tickets, transfers, custody chain, sync log, conflicts | `issue`, `verify`, `revokeByOrder`; transfer `initiate`, `claim`, `cancel`; `applyCheckin`; `record` of custody and of the log; `manifest` | checked in once; custody tells of every change of owner; revocations reach the gates |
| Validators, `modules/validators/validators.service.ts` | the active session of each | `claim`, `disable`, `enable` | one session per validator |
| Gate page, `src/frontend/src/app/features/gate/gate-validate.page.ts`, `core/gate/gate-db.ts` | IndexedDB: rows, cursor, queue of check-ins; the phase of the page | `start`, `validate`, `flush`, `resync`; offline and online, reload | no check-in is lost; a refunded ticket stops being admitted |
| Message broker, `src/api/src/infra/messaging/rabbit.service.ts` | queues; the `x-attempts` of a message | bounded requeue, redelivery after a crash | handlers bear repetition |
| Events, `modules/events/events.service.ts` | `events.status` | `setStatus`, `suspend` | sales, refunds and settlements bear any change of status |

### The rest

| Component | State and operations | Why it is not here |
|---|---|---|
| Hash chain of the ledger, of custody; signatures, codes | previous hash of each record | a chain under one lock; the cryptography is taken as unforgeable |
| Connection of the broker and the queue library, `infra/queue` | connection, dead letters | section 6 says what its failures do; next in the plan |
| Authentication, users | sessions, refresh tokens, passwords | the sale does not depend on them; rotation of a refresh token is in the plan |
| Electronic invoices, `modules/fel` | external service behind the queue | in the plan |
| Ticket media, mail, wallet passes | rendering and delivery | no state anything else depends on |
| Payment gateways and methods | configuration and tokens of external providers | CRUD; the gateway itself is the environment of `Payments` |
| Halls, venues, seat templates, promoters, advisors, support, knowledge base, notifications, analytics, audit, email log, retention, media, banner, categories, cost share, settings, maintenance, admin | CRUD, reports, searches, best-effort pushes | no concurrent protocol, no state the sale depends on |
| Front end (but for the gate), generated API schema, seeds, tools, tests | clients, data and scripts | decide nothing that the services do not check |

Most of the repository's 83 000 lines are in this second table (pages, the
generated schema of the API client, seeds, CRUD modules), and they stay there:
they have no protocol of their own, only forms and queries. What has one, and
keeps state that others rely on, is in the first table.

### How they interact

A buyer holds seats (Redis), by himself or through a reservation whose id is a
holder like any other, commits them into a pending order (database), and pays it.
Nothing joins Redis and the database: the checkout reads the holds, sells the
seats in a transaction protected by row locks and a unique index, and drops the
holds afterwards. From then on three writers race for the order: the sweeper
when it has lapsed, and the success and the refusal that the gateway reports
through webhooks, which may be repeated, late or contradictory. A success claims
the order, posts the money, then queues the tickets; refunds, chargebacks and the
refund of a whole event claim it back, post the reversal, return the seats and
revoke the tickets.

A ticket has a row, a custody chain and entries in a synchronisation log, written
one after the other in transactions of their own. Gates are pages that work
without a network: they pull the log from a cursor on, admit against what they
have in IndexedDB, and upload their check-ins, which the server only publishes to
RabbitMQ; a worker applies them to the rows later, beside check-ins made online,
transfers and refunds.

What a promoter earns lies in the ledger until the cash of the event is closed,
while its orders may still be paid and refunded; from the wallet it leaves by
withdrawals, which several people may decide at once.

Every `await` between two of these is a point where another handler runs or the
process dies.

## 2. The modules

| Module | Models |
|---|---|
| `SeatHolds` | the hold service and its requests |
| `Checkout` | EXTENDS `SeatHolds`: commits, sweeper, clock, life of the event; and, as its environment, each write that the payments make on an order |
| `SeatSale` | abstract: what a sale of seats promises (reserve all, keep, give up for good) |
| `Reservations` | EXTENDS `Checkout`: reservations over its hold calls and commits |
| `Ledger` | accounts, balances, journal, `post` |
| `PaymentSplit` | EXTENDS `Ledger`: the arithmetic of a payment and its reversal, as operators |
| `Pricing` | EXTENDS `PaymentSplit`: the quote of an order and its requotes |
| `Payments` | EXTENDS `Checkout` and `PaymentSplit`: POST /pay, webhooks, event refunds, ticket issue and revocation |
| `Payouts` | EXTENDS `Ledger`: withdrawals, and the closing of an event's cash |
| `Withdrawals` | abstract: what a withdrawal promises (set aside once, then paid or returned, once) |
| `Tickets` | the tickets of an order, their transfers, records and check-ins, the broker |
| `Gate` | EXTENDS `Tickets`: the pages at the doors, their uploads and pulls, access to them |
| `Checkout_proofs` | proofs: the sale, and that it implements `SeatSale` |
| `Ledger_proofs` | proofs: lemmas on sums over finite sets and on rounding; `post` keeps the books balanced |
| `PaymentSplit_proofs` | EXTENDS `Ledger_proofs`: when the entries of a payment and its reversal cancel |
| `Pricing_proofs` | EXTENDS `PaymentSplit_proofs`: the price of an order, its requotes, the platform's margin |
| `Payments_proofs` | EXTENDS `Checkout_proofs` and `PaymentSplit_proofs`: claims, postings, reserves, reversals, tickets; payments implement the checkout |
| `Payouts_proofs` | EXTENDS `Ledger_proofs`: closings, and that withdrawals implement `Withdrawals` |
| `Gate_proofs` | proofs: tickets, custody, check-ins, manifests, entries |
| `Reservations_proofs` | EXTENDS `Checkout_proofs`: the cap of a holder and of an identity, refusals that roll back |
| `MCSeatHolds`, `MCCheckout`, `MCReservations`, `MCPricing`, `MCPayments`, `MCPayouts`, `MCGate` | instances for TLC |

A request, a commit, a reservation, a payment job, a call and a page are processes
with a program counter (`req`, `commit`, `resv`, `job`, `call`, and `page`, `scan`,
`up`, `pull` of a gate). A step is what happens between two points where
something else may interleave: one Lua script, one Redis command, one database
transaction or statement. What a process read and uses later is part of its
state: the seats a call took (`req[r].got`), the holds it is about to delete
(`commit[o].mine`), the wallet balance it read (`job[j].funds`), the net it has
added up (`call[c].net`), the rows of a reply (`pull[g].row`). The operators
marked *Mistake* are plausible bugs of the definition that follows them; no
specification uses them. They are there to show that the properties notice.

**SeatHolds.** `hold` is the hold keys, `owned` the owner sets, `expiring` the
holders whose owner set has a TTL (it is set by a second command), `seat` the
status in the database. `Take` and `TakeByQuantity` are the two Lua scripts,
`AddToOwnerSet`, `RefreshOwnerSet`, `CountOwnerSet` the SADD, EXPIRE, SCARD of
`trackAndCap`, `Release` and `Untrack` the script and the SREM of `release`,
which the roll-back goes through as well. Time is seen only through the two TTLs;
their order is in `OwnerSetLapses` (the set is renewed after the keys it counts).

**Checkout.** `BeginCommit` to `UntrackOwnHolds` are the awaits of `runCommit`.
`CommitTx` is one step because the transaction locks the seats' rows. `SetStatus`
lets any status of the event follow any other, because the code checks the status
and later writes it without a condition. `items` are
the active items of an order, on which the partial unique index works. `due`
stands for `expiresAt` in the past. `PaymentStep` is the union of the writes of
`PaymentsService` and `EventRefundsService` on orders, items and seats, without
their reasons; `Payments` is checked to do nothing else (`ImplementsCheckout`), so
that what is shown of `Checkout` holds of both.

**Reservations.** A reservation is a holder, and its hold calls are requests of
`SeatHolds` that run one after the other (`BeginCall`, `ServeCall`); `Fails` leads
to the release of what earlier ones took. Every call of Redis may also fail:
`CallThrows` is an error thrown out of a hold call, whose seats are not yet known to
`create`, `RedisFails` one of the reservation's own calls, thrown or swallowed as
the code does with each (`AfterError`). `kept` and `miscounted` name the seats that
such an error left held, or counted without a comparison. `Summarize` is the read
that ends `create`, and fails when the event went off sale. `AddToCount`, `RefreshCount`,
`CompareCount` are the SADD, EXPIRE, SCARD of `capReservedSeats` on `counted`, the
set of an account or address; `MarkAddress`, `UnmarkAddress`, `CoolAddress` the
keys `res:ip:active` and `res:ip:cooldown`. `Cancel` is possible as often as the
token is valid, whatever became of the seats. `CommitReserved` and
`CommitGoesOn` are the commit of `Checkout` for the token's seats, `UncountSold`
what `checkoutReservation` does after it.

**Pricing.** `baseQuote` is the gross-up of one item; amounts are in cents and
divisions are exact before the rounding. `inInstallments` is the branch with a
plan: the buyer pays the same, the cost goes to the platform's fee or to the
promoter's net. `items` are the quotes in the rows of the items, `price` the sum
that the order has of them. `Requote` is what an attempt in installments writes
over the items, from what it finds there. The ledger of the module rests: the
properties are about the entries that a payment of `price` would post.

**Payments.** `payment` and `hook` are the rows of `payments` and
`webhook_events`, `asked` and `acked` what the gateway knows: what it was asked to
charge, which webhooks it need not repeat. The gateway may say anything about a
charge it was asked for, in any order, several times. `FulfillClaim` and `FailTx`
are the transactions of `fulfill` and `fail`; the reads that precede them
(`FulfillRead`, `FailRead`) are steps of their own. `ticket` stands for all the
tickets of an order.

**Ledger.** An entry list is a function from accounts to signed cents. `post`
runs under an advisory lock in a transaction, hence one step. The order of its
checks matters and is kept: sum and length, then the journal, then the wallets, so
a repeated posting answers even if the wallet could not pay twice.

**PaymentSplit.** Money is in cents and rounding half to even, exact, where the
code divides decimals of 28 digits first; for the amounts of an order the two
round alike.

**Payouts.** `withdrawal` is the status column, `call` the progress of each
request. `RequestRead`, `RequestPost`, `RequestCreate` are the three awaits of
`request`; `DecideRead`, `Decide` (the compare-and-set), `PayPost` or `ReturnPost`
those of the four decisions. `FinalizeRead` to `FinalizePost` are the reads, the
claim and the posting of `finalizeAndTransfer`, `FinalizeRevert` its `catch`.
`OrderClaim` and `OrderPost` are what the payments do meanwhile, with the
promoter's part of their entries; `SetStatus` is as in `Checkout`.

**Tickets.** `ticket[t].count` is the number of transfers, and with it the secret,
which changes with each. `call[c].at` walks through the awaits of an operation;
`custody`, `sync` and `commit` are the records that follow every change. A claim
holds the advisory lock of the ticket from `ClaimFresh` to `ClaimMove`. The number
of a log entry is drawn by `RecordSync` and its insert commits in `CommitSync`,
which a later number may do before; `late` is not in the code, it remembers that
one did. `HandlerFails` and
`HandlerDies` are the two ways in which the broker hands over a message again.

**Gate.** `db` is IndexedDB and survives `Reload`; `page`, `scan`, `up` and `pull`
do not. `ScanRead`, `MarkUsed`, `ScanQueue` are the awaits of `validate`;
`FlushRead` to `UploadFails` those of `flush` and `uploadBatch`, with `submit` of
the server in `UploadPublish`; `PullEntries` and `PullRows` the two queries of
`manifest`, `PullApply` what `saveManifest` or `applyDelta` writes of the answer.
`session` is `activeSessionId`: the last claim wins, and the others are refused.

## 3. What the runs check

| Run | Instance | Distinct states | Shows |
|---|---|---|---|
| `SeatHolds_cap` | 3 seats, two holders; three holds of one, by seat and by quantity, that meet on each seat, his release, a hold of the other; cap 2; one TTL window, no crash; seats sold and returned at any time | 385 000 | `CountedHoldsAreCapped`, `CountedSetsExpire`: what is counted is within the cap, wherever calls and releases meet |
| `Checkout_sale` | 3 overlapping orders, 2 seats, one of them held from before, TTLs, crashes, all writes of payments | 1 112 000 | `SeatsArePromisedOnce`, `OrdersAreWhole`, `SoldSeatsHaveAnOrder`, and that `Checkout` implements `SeatSale` |
| `Reservations` | 3 seats; reservations of an account (one or two hold calls, by seat and by quantity) and of an address, holds and a release of another buyer, two commits; cap 2, TTLs, errors of Redis, crashes, fair | 332 000 | `RefusalsRollBack`, `TokensRespectTheCap`, `OnlyTheirHolderReleases`, `HoldsAreNotStolen`, `PendingOrdersEnd` |
| `PaymentSplit_plain` | nets of 40, of 199, of 40 and 57 cents; platform 0 or 10 %, gateway 5 % + 20, tax 12 % with and without the net, fixed fees 0 or 3; installments at 4, 9, 14 %, paid by either side, up to two requotes; any part of the price paid by the wallet, cent by cent | 408 | entries cancel, reversals undo, the platform keeps its margin |
| `Payments_contested` | 1 order of 2 seats; payment by wallet and card; success, refusal and refund from the gateway; event refund; 1 crash | 576 000 | `MoneyFollowsTheClaim`, `ReversedOnce`, `TicketsArePaidFor`, `PostingsAreNotDropped`, `ImplementsCheckout` |
| `Payments_settle` | the same order and payment, success delivered twice, event refund, no crash, fair | 21 000 | `ReceivedHooksAreProcessed`, `PaidOrdersGetTickets`, `RefundedSeatsReturn` |
| `Gate_checkin` | twelve stories of 2 tickets, 2 gates of one validator, 2 transfers, issue, online check-in, refund; chunks of 1, 2 attempts, 1 fault; fair | 162 000 | `CheckedInOnce`, `CustodyCountsTransfers`, `NoCheckinIsLost`, `NoRevocationIsSkipped`, `RevocationsReachTheGates`, `CheckinsReachTheServer` |
| `Payouts` | five stories of 2 withdrawals with every decision, an event closed twice, 2 orders; 1 fault; fair | 62 000 | `TransferredOnce`, `MarkedEventsAreTransferred`, `DecisionsArePosted`, and that the withdrawals implement `Withdrawals` |
| `PaymentSplit_mixed`, `Pricing_requote`, `Payments_refusal`, `Gate_reload` | small, or that of the component | — | a counterexample each, section 5 |

**Bounds.** The number of calls, orders, hooks and jobs is the bound; hold calls
and deliveries may run again when they are over, so histories have no length
limit there. `MaxCrashes`, `MaxFaults`, `MaxAttempts`, `MaxRequotes` and the
`Budget` of a gate (how often its network, its page, its clock and its access
change) are counters, named in their modules. Three orders share a
seat and two of them a second one: the third meets what late releases of the first
leave of the second, which two orders would not show. The proofs carry the result
to any number. Two calls of one holder and a release are what the counting needs to go
wrong; a third call takes it over the cap of 2. In `Payments` one order suffices for what a claim
protects; two orders on one seat are used where the second order matters
(`Payments_refusal`). The nets straddle the roundings: fixed fees alone, and
percentages of a cent and less, of one item and of two.

In `Reservations`, `Gate_checkin` and `Payouts` everything at once would be too
much. There the instance lists *scenarios* (`ReservationStories`,
`CheckinStories`, `PayoutStories`), each a set of calls that may be made, in every
order and interleaving; the initial state chooses one. Each scenario puts together
the operations that touch the same state: the comments in the MC modules say what
each is about. A call that is not in the scenario is never made; nothing else is
restricted.

`SeatHolds_cap` assumes that no TTL elapses within the window and that calls are
answered (`HoldsWindowSpec`): with a call that dies between SADD and EXPIRE,
`CountedSetsExpire` does not hold (section 6). The caps are stated for the seats
that are still counted, because a late SREM drops seats from the count
(section 6). That of `SeatHolds` is for a holder with no call
in flight, because a call over the cap holds its seats until it has rolled them
back; that of `Reservations` leaves out the seats of a reservation that has yet to
compare, has found itself over the cap, or stopped at an error or died before.
`RefusalsRollBack` exempts the seats that an error of Redis left held (`kept`), and
`PostingsAreNotDropped` the crash and the refused posting; everything that the code
does roll back or post must be. `NoRevocationIsSkipped` and `RevocationsReachTheGates`
exempt a revocation that committed after an entry with a later number (`late`,
section 6): the story `RefundOfTwo` has revocations that commit in order and ones
that do not.

**Deadlock** is checked in `SeatHolds_cap`. In the others everything may
legitimately come to rest: orders, withdrawals and tickets are created once and
end.

**Fairness.** Weak throughout, and only for what runs by itself: the sweeper's
timer and the clock (`SweeperFairness`, also for reservations), handlers that have begun, the consumer of the tickets queue, and the gateway,
which repeats a webhook until it is answered 200 (`PaymentsFairness`); calls of the
server and handled messages, the loops and the timer of a page (`GateFairness`);
calls that have begun (`PayoutsFairness`). No user action is fair: nobody has to
hold, commit, pay, scan, withdraw or refund, and no network has to come back. The
calls of `Gate` share one fairness condition, because each is a finite number of
steps: while one goes on, the others' turn comes. In `Payments_settle` no process
dies: with a crash webhooks and tickets may be lost, see section 6. The liveness of the
gates is conditional for the same reason: an upload that failed is not repeated by
itself.

## 4. What is proved

Eight modules hold theorems, `PROJECT.json` lists the 55 a reader should know of.
They hold for every value of the constants: any seats, holders, orders, hold
calls, payments, webhooks, withdrawals, tickets, gates, and any order of their
steps, with the crashes, losses and repetitions of the models. Of the constants
they assume what the modules assume of them by name: functions of the right type;
markers such as "no holder" that are not members; finite sets of seats and
accounts, because they are counted and summed (and of orders in `Payouts`, where a
closing adds up their nets); orders with at least one seat, reservations with at
least one call; openings, caps and fees that are natural numbers; quotes whose
total is not negative; one request per id of a withdrawal. Some results need more
and say so in their statement (three about the owner set and its cap and one about the
cap of an identity, in a window of time; one about manifests; two about payments;
one about prices); the conditions are explained below. A condition is, wherever the
code breaks a property, the step by which it does: such a theorem says that nothing
else does.

None of the properties is inductive alone. Each proof has an invariant that is,
one lemma per action or group of actions that it is kept, and the results follow
from it.

**Checkout** (`SaleInv`). That two live orders are disjoint follows from their
active items, that these are disjoint from the index, that a release takes back
the right seats from the item lists. `SaleInv` is `CheckoutTypeOK`; active items
are seats the order asked for (`ItemsBelong`), and no seat is in those of two
orders (`ItemsAreDisjoint`); a commit before its transaction has no order yet, so
that the transaction creates the row (`CommitsComeFirst`); `OrdersAreWhole` and
`SoldSeatsHaveAnOrder`. The last one is subtle: `ReleaseInventory` gives back *all*
seats of the order, even those another order has bought since, so "sold implies an
active item" survives every release although its converse does not (that is part
of the finding of `Payments_refusal`). `HoldsStayWithTheirHolder` is an action
property, and `CheckoutImplementsSale` shows, step by step, that `Checkout`
implements `SeatSale` under the mapping `Stage`.

**Sums and the ledger.** `Ledger_proofs` has what is needed of sums over finite sets
(a member taken out, one value changed, the sum of two functions, a linear bound
kept by the sums) and of rounding; as induction over data is out of reach, by the
smallest set for which a claim fails. With it, it
shows that `post` keeps `LedgerInv`: types, no wallet in the red,
balances that together come to nothing. `PaymentSplit_proofs` is about the entries
of a payment, for every quote: `SplitBalancesIff` says that they cancel *if and
only if* the real gateway fee is within what the gateway charges, so that the
finding of `PaymentSplit_mixed` is the only way in which a payment can fail to
balance; payments by wallet or by card alone always balance where the quote leaves
something for the gateway (`PlainSplitsBalance`), reversals always
(`ReversalsBalance`), and a reversal undoes what the payment did
(`ReversalsUndoPayments`).

**Pricing** (`PricingInv`). That the quotes which orders really have meet those
conditions is a matter of rounding. `BaseQuoteIs` says of one item that the
roundings of total, tax and gateway fee cost the platform's fee a cent and a half
at most, `InstallmentsAre` that a plan moves the cost from one to the other and
leaves the total. `PricingInv` keeps of each item that the gateway's fixed fee is
in it once, what it was first quoted at, and the bound; sums over the items carry
it to the order (`PriceIs`). From it, for any nets, schedules, rates and number of
requotes:

- `EveryOrderIsUndone`: a reversal undoes the payment of every order.
- `ThePlatformKeepsItsMargin`: its percentage of the nets it quoted, but for the
  roundings, whatever part the wallet pays (`SurplusIsNoLoss`: the real fee of the
  gateway is never above the one in the price). The property speaks of the nets as
  quoted, `QuotedNet`, and not of what the promoter is left with: where a plan
  costs less than one payment, a promoter who bears it gains by it, and the
  platform's percentage is not of that gain.
- `EveryPlainOrderBalances`: payments by wallet or card alone balance, and mixed
  ones that the fee is within. It needs more than the bound on the platform's fee,
  which may be minus one cent where a net is tiny: installments may consume that net
  to the last cent, and a loss would then unbalance the entries. `BaseQuoteIs` has
  the stronger fact, that fee and tax together are never below zero: two roundings
  cost less than a cent if the gateway takes a percentage, and one of them is exact
  if it does not.
- `EveryBuyerPaysTheSame`: if the platform bears the cost of installments, or the
  order is quoted again at most once. The finding of `Pricing_requote` therefore
  needs a second attempt, and a promoter who pays.

**Payments** (`PaymentsInv`). The properties relate a journal to an order, but what
keeps them true is where the jobs are: who is about to post has claimed the order,
who is about to queue tickets has posted, who is about to post a reversal has moved
the order on and nobody else has (`FollowsTheClaim`, `OneReversal`); tickets, and
jobs in the queue, are of orders whose payment is in the journal
(`TicketsFollowTheMoney`). With these `MoneyIsClaimed`, `OrdersAreReversedOnce`,
`TicketsWerePaidFor` and `BooksStayBalanced` are consequences.
`OrdersNeverComeBack` says of every step that an order that is over stays over.
`PaymentsImplementCheckout` shows that each step of a payment is a `PaymentStep` of
`Checkout` or leaves it alone, so that all of `Checkout_proofs` holds with the
payments running (`PaymentsKeepTheSale`).

`PaidOrdersReachTheLedger` is about the moment between the claim of an order and its
posting: an order that is paid, not in the ledger and with nobody about to post it
comes about only by a step in which its handler dies or the ledger refuses. No
delivery, refusal, refund or sweep that comes between has that effect.

Two properties of the payments do not hold for every value of the constants
(sections 5 and 6). For each a theorem names a condition on the steps taken under
which it does, and thereby what in the code would have to be closed:

- *The seats of a paid order stay off sale* (`PaidSeatsStaySold`) if the write of
  `fail` only ever meets a pending order (`OnlyPendingIsRefused`): the update
  without a condition at the end of `fail` is the only cause of the finding
  `Payments_refusal`.
- *Holding covers the reserves* (`HoldingCoversTheReserves`): at any time it holds
  at least the wallet part of every mixed payment that counts on it, if refusals of
  one payment do not overlap with each other or with its claim (`RefusalsAreAlone`)
  and no refusal dies between returning the reserve and marking the payment
  (`NoRefusalDies`). The code does allow both, see section 6. The invariant,
  `HoldsTheReserves`, is a sum over the payments with a reserve, so each posting is
  matched with the row that it belongs to.

**Payouts** (`PayoutsInv`). A request comes first: until it has posted, nothing is
set aside, until it is over there is no row (`RequestsComeFirst`); which status a
row has says which posting was or will be made, and by whom (`RowsDecide`); at most
one call has a closing under way, and it has set the mark (`ClosingIsClaimed`).
From it `MarkedEvents`, `CashIsTransferredOnce`, `PayoutsBooksBalance`, and
`PayoutsImplementWithdrawals`, whose abstract accounts are sums over withdrawals:
the platform's payout accounts are at all times the sums of what is where.

**Tickets and gates** (`TicketsInv`, `DoorsInv`, `ManifestsInv`). `TicketsInv` says
of each call what it knows where it is (`CallOK`), that of a ticket with a check-in
on record, or one about to be recorded, there is one and the ticket is no longer
valid (`CheckinIsExclusive`), that custody and the claims about to record count the
transfers (`TransfersAreCounted`), and that the log tells the truth (`LogIsTrue`).
`DoorsInv` adds what a page and an upload know: what is in the queue was marked,
and what is taken off the queue is in a message. `TicketsAreCheckedInOnce`,
`CustodyIsComplete`, `CheckinsAreNotLost`, `NothingIsEverUndone` follow.
`RevocationsAreNotSkipped` needs no condition: of the revocations that committed
before any entry with a later number, none behind the cursor of a device leaves the
ticket valid there, so the reads of `manifest`, rows after entries, the merge of
`applyDelta`, the marks of the page and reloads lose none, and neither do other
entries that commit out of order. `ManifestsInv` says that the entry at the cursor,
or at the number a pull is about to bring, has committed (`SettledUpTo`), so that
whatever commits before it from then on is late; and that the device has the
revocations up to there, or the pull brings their tickets.
`EntriesAreMadeOnce` is about the finding of `Gate_reload`: with any reloads, lost
requests, transfers and refunds, a door shows green once for every secret of a
ticket, if a manifest never makes valid again, with the secret it had, what the
device has used (`PullsKeepEntries`). So `saveManifest` and `applyDelta` are the
only cause, and a merge that keeps `used` would be enough of a repair; the late
write of `setStatus`, which puts back an older row as used, admits nobody twice. `EntriesInv` is
its invariant: the server's secrets are ahead of the rows of every device and of
every reply on its way (`RowsOK`, `BringsOK`), a download brings all tickets the
device has, because whatever was told once is in the log for good (`Told`,
`RecordsAreOfTickets`), the code being scanned has a secret that has not entered
(`ScanOK`), and who has entered has by now a newer secret here or none that opens
(`EnteredOK`).

**Holds and reservations.** Within a TTL window (`HoldsWindowSpec`) an owner set has
its TTL or a call is about to set it, and what no call is still working on in it
was compared with the cap (`CountingInv`): `CountsEndByThemselves`, and
`CountedHoldsStayCapped` for calls of a holder that meet wherever they like. Of all
the seats a holder has, `OnlyALateUntrackPassesTheCap` says that they are within the
cap if no SREM takes a seat off the set that its holder has again by then
(`UntracksNoHeldSeat`): `HeldIsCounted`, its invariant, has every held seat in the
set, or in a call about to add it. So the late SREM of section 6 is the only way past
the cap, and a RELEASE_SCRIPT that removed from the set what it deleted would
close it.

`ReservationsInv` adds to `SaleInv` that of a reservation only the call it is at
may be under way (`KeepsToItsCalls`) and that it holds no seats but those it knows
of, and once it was refused none but what an error of Redis left it
(`HoldsWhatItKnows`). That gives
`RefusedReservationsRollBack`, `NobodyReleasesForOthers`, `ReservationsStealNoHold`,
`ReservedSeatsAreSoldOnce`, `ReservationsImplementSale`. For the cap of an identity,
`ComparedIsCapped`: what its count has besides the seats of reservations that are
still to compare, or died before, is within the cap. It gives `TokensAreCapped`: of
the seats an identity holds under its tokens, those that are counted are within the
cap. That says nothing of seats that have dropped out of the count;
`TokensAreCappedInAWindow` does: where no TTL elapses, no call of Redis fails and
nobody dies, and before
anything is bought, an identity that has cancelled nothing has *all* the seats it
holds under tokens within the cap. `WindowInv` is what that needs: each reservation
keeps its seats held, and counted once it has passed its SADD.

**Model-checked only.**

- Liveness, which is outside the prover's reach: `PendingOrdersEnd`,
  `ReceivedHooksAreProcessed`, `PaidOrdersGetTickets`,
  `RefundedSeatsReturn`, `RevocationsReachTheGates`, `CheckinsReachTheServer`,
  `DecisionsArePosted`.
- The four counterexamples of section 5. What is proved around them: exactly when
  entries balance (`SplitBalancesIff`), and that what they show is the only way for
  the price, the seats and the doors to go wrong (`EveryBuyerPaysTheSame`,
  `PaidSeatsStaySold`, `EntriesAreMadeOnce`). Likewise around behaviours of section 6
  `OnlyALateUntrackPassesTheCap`, `RefusedReservationsRollBack`,
  `PaidOrdersReachTheLedger`, `HoldingCoversTheReserves`, `RevocationsAreNotSkipped`.

## 5. Disagreements between the code and what it says

Each is a run whose property restates a comment of the code, with a
counterexample.

- `PaymentSplit_mixed`: a mixed payment whose card part is barely above the fixed
  fee has a real gateway fee above it. The clearing line is left out, the entries
  do not cancel, and the ledger refuses a payment the card has already made.
- `Pricing_requote`: an attempt in installments quotes each item again from its
  stored net, which an earlier attempt has lowered where the promoter pays for
  installments. Each attempt that writes its quote and is then refused, or runs
  beside another one, lowers the buyer's price and the promoter's net once more;
  the engine says that the buyer pays what one payment costs.
- `Payments_refusal`: `fail` looks at the order before its transaction and
  writes `cancelled`, and the seats available, without a condition. A success in
  between is overwritten. Likewise a refusal that finds its own order expired puts
  seats back on sale that belong to another order by then; that order keeps its
  items, so the unique index still stops a double sale (`SeatsArePromisedOnce`
  holds), but the seat is offered and cannot be bought.
- `Gate_reload`: when the page starts it uploads its queue and downloads the
  manifest, so that the manifest knows of the check-ins; but the upload is only
  published. The manifest that comes back says `valid`, replaces the local `used`,
  and the same ticket is admitted again at the same gate. The record at the server
  stays right (`CheckedInOnce`): the second check-in is a conflict. Nothing but the
  manifest can do this (`EntriesAreMadeOnce`).

## 6. What else the models reach

Behaviours the models have, and about which the code promises less than one may
expect. They are the reason why the runs of section 3 have the preconditions
they have.

- *Holds.* `release` frees the keys with its script and takes every seat it was asked
  about off the owner set, released or not, with an SREM afterwards. If the holder
  takes one of them again in between, a held seat drops from the count, and he may
  take as many more than the cap, although the comment of `trackAndCap` says that
  nobody can, by holding in a loop. A call that dies
  between SADD and EXPIRE leaves an owner set without a TTL, which keeps counting
  seats that have long lapsed, until a later call of the holder renews it; on a set
  with an older TTL it leaves holds that outlive the set.
- *Refused reservations.* `create` releases the seats of the hold calls that
  returned. When SADD, EXPIRE or SCARD of a hold call throws, the seats that this
  call has taken stay held until their TTL, under the id of a reservation that was
  refused; likewise all of them when the count throws, or when `summarize` finds the
  event off sale and answers 404. The comment says all or nothing.
- *Reservations.* A cancellation sent twice, one that meets a new reservation, and
  the purchase of one token take seats off the count of the identity that another
  token holds. The mark of an address is looked at and set in different calls: two
  reservations pass. A death between SADD and EXPIRE leaves a count without a TTL.
  A count that lapses between its SADD and its EXPIRE is not there when it should
  be renewed: the token is given all the same and its seats are not counted. A
  roll-back over the cap, like the DEL of a commit, may come late and meet a seat
  that lapsed and was taken by another reservation of the identity; the roll-back
  takes it off the count. (An attempt to prove the cap showed these; hence the form
  of `TokensRespectTheCap`, and `TokensAreCappedInAWindow`.)
  A roll-back swallows errors of Redis: seats stay held, or counted. A cancelled
  token can still be bought, if its seats are free.
- *Checkout.* Holds, the event and the number of pending orders are read before
  the transaction and not again: a commit sells a seat somebody holds by then, an
  order of a suspended event is created, two commits pass `maxPendingPerBuyer`
  together. `releaseOwnHolds` finds its own holds with MGET and deletes them with a
  later DEL: a hold that lapses and is taken by another buyer in between is deleted.
- *Events.* A publication checked before a cancellation and written after it puts
  the cancelled event back on sale.
- *Prices.* `platformFee` is what the roundings leave, and may be a cent below its
  percentage, or below zero for tiny nets; `PlatformKeepsItsMargin` allows a cent
  and a half per item. A rate for installments that is below the gateway's for one
  payment raises the net of a promoter who bears their cost. Installments may
  consume a net to the last cent, and the item is then never quoted again.
- *One order, two charges.* The unique index forbids two pending attempts. An
  attempt that saw none and creates its row after another one has ended asks the
  gateway again. An attempt whose reserve the ledger refuses leaves its pending row,
  which keeps further attempts out; an order that expires while its card is charged
  leaves the reserve in holding.
- *Between claim and posting.* Who wins the claim of an order posts its money; if it
  dies in between, or the ledger refuses the posting (among others, for two orders
  paid by wallet from one balance), the delivery that repeats the success finds the
  order paid, posts nothing and is processed. One comment says that the
  posting is made sure of by whoever finds the order paid, the next that it is not;
  the order is paid for good and its money never distributed.
- *Repeated refusals.* `fail` looks at the payment, returns its reserve, and then
  marks it. Two deliveries of the refusal that overlap both return the reserve, at
  the cost of what other payments have in holding, and so does one that is
  delivered again after it died between the two.
- *Webhooks.* While a delivery is being processed, a second one that loses the
  race for the row is answered 200; should the first one die, nobody repeats it.
- *Sweeper.* It releases seats, not the reserve of a mixed payment.
- *Queue.* `enqueue` swallows every error and `getConnection` keeps a rejected
  promise: without a broker, a paid order gets no job and no ticket, also after the
  broker is back. The models take a publication as certain.
- *Tickets.* `issue` reads the status before it creates: a reversal in between
  revokes nothing, and the tickets come out valid. A job that dies between a ticket
  and its records leaves the ticket out of the log for good; when it is handled
  again the ticket exists and is skipped.
- *The log.* The number of an entry is drawn when its insert runs, not when it
  commits. A check-in with a later number may commit first; a gate that pulls between
  the two has a cursor behind which the revocation then commits, and the refunded
  ticket stays valid there until the whole manifest is downloaded again.
- *Transfers.* A claim reads the ticket again under its lock, but not the transfer,
  and it does not write the status conditionally: a transfer cancelled meanwhile is
  claimed all the same, a claim may be overwritten by `cancelled`, and a ticket that
  is checked in between the read and the move belongs to the new owner, used. A
  ticket that went away and came back makes an old code valid again.
- *Gates.* A delta, too, replaces the local `used` by what the server knows. A
  failed upload waits for the next check-in or the next return of the network,
  also while the network is up.
- *Payouts.* The net of an event is added up before the claim: an order refunded
  in between is transferred too, an order paid in between never is. An event that
  is cancelled between the two is closed with paid orders. `FinalizeRevert` writes
  the status it once read over whatever was set meanwhile. A decision whose process
  dies before the posting is not taken up again, nor is a reserve whose row was
  never written.

## 7. What is left out of the modelled components

- One event, one promoter, one gateway and currency per instance.
- `Pricing`: percentages are whole; quotes for display, their hash, the resolution
  of schedules (a requote without one uses the defaults) and a change of gateway
  are left out; who pays for installments is fixed per order. In `Payments`,
  prices are given per order and there is no requote.
- `initiate`: saved cards, the choice of gateway; an error of the gateway is a
  crash after the row was created.
- Webhooks: signatures; webhooks about payments nobody knows (logged and
  ignored); the reconciliation by polling of one gateway.
- `holdByQuantity` takes its candidates from the whole locality and any of them
  (the code reads a bounded list, by label).
- `Reservations`: a reservation, a commit and a direct call are asked for once in
  a history; a token is cancelled by one caller at a time, who is the one that
  reserved; the event changes only while a commit runs.
- The sweeper's batches and lock; its list of candidates, since it checks the
  status of each order again when it writes.
- In `Tickets`, a handler of the broker may fail or die; a request of the API (a
  claim, a refund) that dies between its row and its records appears only as a call
  that never goes on. The safety properties bear that; for the liveness properties
  its fairness excludes it, so that nothing is said of the records of such a call: it
  is never repeated, and a ticket it revoked stays out of the log.
- The hash chains of ledger and custody, account creation, reads.
- In `Payments` the tickets of an order are issued and revoked together; in
  `Tickets` one by one, but the payment is only its outcome (`paid`).
- `Gate`: `setStatus` of the device reads and writes in two transactions, merged
  here; a return of the network during `start`, and a page without a manifest that
  pulls in the background once the network is back, are left out; a request that
  publishes is not cut by a reload. Codes are those of the secret the device has,
  and unforgeable. Invitations and removal of validators are CRUD.
- `Payouts`: one currency; the mails; a posting fails before it has any effect (one
  that was committed while its answer was lost would be reverted, and made again).
- Editing of events, and their states before the first publication. A seat is
  available or sold; `held` and `blocked` are never stored by the code.

## 8. Plan

1. *Done*: the sale (`SeatHolds`, `Checkout`, `SeatSale`, `Reservations`), its
   money (`Ledger`, `PaymentSplit`, `Pricing`, `Payments`, `Payouts`,
   `Withdrawals`), its tickets (`Tickets`, `Gate`).
2. *Done*: the theorems of section 4. Every safety property that a passing run
   checks is stated by one of them, some under a condition that section 4 explains,
   and so are the three refinements. Where the code breaks a property, a theorem
   names the step by which it does, but for the fee of a mixed payment, of which
   `SplitBalancesIff` says when it happens.
3. A theorem still worth stating: that the mark of an address lets one reservation
   pass when its look and its writing are one step.
4. Models still worth writing: the connection of the broker and the retries of the
   queue, rotation of refresh tokens, the retry of an electronic invoice, the hash
   chain of the ledger.
