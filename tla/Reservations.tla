---------------------------- MODULE Reservations ----------------------------
(***************************************************************************)
(* Shareable reservations                                                  *)
(* (api/src/modules/reservations/reservations.service.ts): an id of its    *)
(* own holds seats through one or more hold calls of SeatHolds, whoever    *)
(* has the token may cancel it, and a buyer may turn it into an order of   *)
(* Checkout.  Who asks is known by account or, without one, by address;    *)
(* Redis counts the seats each of them has reserved, and for an address    *)
(* marks that it has a reservation, or cancelled one of late.              *)
(*                                                                         *)
(* A reservation is a process that takes one step per Redis call, beside   *)
(* hold calls made directly, commits, the sweeper and the TTLs.            *)
(***************************************************************************)
EXTENDS Checkout, Sequences

CONSTANTS
  Reservations,  \* their ids, which are holders
  CallsOf,       \* the hold calls of each, in order
  Identities,    \* accounts and addresses
  IdentityOf,    \* who makes each reservation, and cancels it
  MaxReserved    \* MAX_HELD_SEATS_PER_HOLDER

ASSUME ReservationsAssumption ==
  /\ Reservations \subseteq Holders
  /\ CallsOf \in [Reservations -> Seq(Requests)]
  /\ \A v \in Reservations : CallsOf[v] # <<>>   \* hasSeats or quantities
  /\ \A v \in Reservations : \A n \in DOMAIN CallsOf[v] :
       /\ RequestOf[CallsOf[v][n]].holder = v
       /\ RequestOf[CallsOf[v][n]].op \in {"hold", "holdByQuantity"}
  /\ IdentityOf \in [Reservations -> Identities]
  /\ Buyers \subseteq Identities
  /\ MaxReserved \in Nat /\ Cap <= MaxReserved   \* resolveCap takes the minimum

VARIABLES
  resv,      \* progress of each, its next hold call, the seats of its token;
             \* those that an error left held, and left in the count
  counted,   \* res:seats:<identity>
  marked,    \* addresses with res:ip:active:<ip>
  cooling,   \* addresses with res:ip:cooldown:<ip>
  lasting,   \* identities whose count has a TTL
  sold,      \* orders whose seats are still to leave their buyer's count
  made       \* what is still to be asked for: reservations, commits, and
             \* hold calls without a reservation

limitVars == <<counted, marked, cooling, lasting>>
resvVars == <<resv, limitVars, sold, made>>
vars == <<allCheckoutVars, resvVars>>

ReservationStep ==
  {"idle", "call", "undo", "untrack", "refused", "sadd", "expire", "scard",
   "over", "mark", "summary", "token", "lost", "free", "untrackFree", "uncount",
   "unmark", "cool", "cancelled", "dead"}

ReservationType ==
  [at : ReservationStep, call : Nat \ {0}, held : SUBSET Seats,
   kept : SUBSET Seats, miscounted : SUBSET Seats]

NewReservation ==
  [at |-> "idle", call |-> 1, held |-> {}, kept |-> {}, miscounted |-> {}]

ReservationsTypeOK ==
  /\ CheckoutTypeOK
  /\ resv \in [Reservations -> ReservationType]
  /\ counted \in [Identities -> SUBSET Seats]
  /\ marked \in SUBSET (Identities \ Buyers)
  /\ cooling \in SUBSET (Identities \ Buyers)
  /\ lasting \in SUBSET Identities
  /\ sold \in SUBSET Orders
  /\ made \in SUBSET (Reservations \cup Orders \cup Requests)

ReservationsStart(asked) ==
  /\ CheckoutInit
  /\ resv = [v \in Reservations |-> NewReservation]
  /\ counted = [i \in Identities |-> {}]
  /\ marked = {} /\ cooling = {} /\ lasting = {}
  /\ sold = {}
  /\ made = asked

Asked(x) == x \in made /\ made' = made \ {x}

ReservationAt(v, step) == resv[v].at = step
ReservationTo(v, step) == resv' = [resv EXCEPT ![v].at = step]
Who(v) == IdentityOf[v]

\* limitApplies: who has no account is limited by address.
limitApplies(v) == Who(v) \notin Buyers

-----------------------------------------------------------------------------
(* create.                                                                 *)

\* The two EXISTS.  A refusal leaves nothing behind.
Create(v) ==
  /\ Asked(v)
  /\ limitApplies(v) => Who(v) \notin marked \cup cooling
  /\ ReservationTo(v, "call")
  /\ UNCHANGED <<allCheckoutVars, limitVars, sold>>

NextCall(v) == CallsOf[v][resv[v].call]

\* Mistake: what earlier calls have taken is kept.
KeepsHeld(v) == ReservationTo(v, "refused")

\* A call failed: what earlier ones have taken is released.
AfterFailure(v) == IF resv[v].held = {} THEN "refused" ELSE "undo"
Fails(v) == ReservationTo(v, AfterFailure(v))

\* hold and holdByQuantity refuse for lack of seats in the database.
RefusedByDatabase(r) ==
  LET available == Available(RequestOf[r].seats) IN
  IF RequestOf[r].op = "hold" THEN available # RequestOf[r].seats
  ELSE Cardinality(available) < RequestOf[r].quantity

BeginCall(v) ==
  LET r == NextCall(v) IN
  /\ ReservationAt(v, "call") /\ At(r, "idle")
  /\ \/ /\ BeginHold(r) \/ BeginHoldByQuantity(r)
        /\ UNCHANGED resv
     \/ /\ RefusedByDatabase(r)
        /\ Fails(v)
        /\ UNCHANGED <<holdVars, seat>>
  /\ UNCHANGED <<order, items, due, event, commit, limitVars, sold, made>>

\* The call goes on to its answer: it has its seats only if it was counted and
\* not above the cap.
ServeCall(v) ==
  LET r == NextCall(v)
      last == resv[v].call = Len(CallsOf[v])
  IN
  /\ ReservationAt(v, "call") /\ ~At(r, "idle")
  /\ \/ Take(r) \/ TakeByQuantity(r)
     \/ AddToOwnerSet(r) \/ RefreshOwnerSet(r) \/ CountOwnerSet(r)
     \/ Release(r) \/ Untrack(r)
  /\ CASE req'[r].at # "idle" -> UNCHANGED resv
       [] At(r, "scard") /\ req'[r].at = "idle" ->
            resv' = [resv EXCEPT ![v].held = @ \cup req[r].got,
                                 ![v].call = IF last THEN @ ELSE @ + 1,
                                 ![v].at = IF last THEN "sadd" ELSE @]
       [] OTHER -> Fails(v)
  /\ UNCHANGED <<order, items, due, event, commit, limitVars, sold, made>>

\* A Redis call of the hold call fails and its error is thrown: what this call has
\* taken is not in `held`, so nothing releases it.
CallThrows(v) ==
  LET r == NextCall(v) IN
  /\ ReservationAt(v, "call")
  /\ CrashRequest(r)
  /\ resv' = [resv EXCEPT ![v].at = AfterFailure(v),
                          ![v].kept = @ \cup
               ((HeldBy(v) \cap req[r].got) \ resv[v].held)]
  /\ UNCHANGED <<order, items, due, event, commit, limitVars, sold, made>>

\* release, its script and its SREM: after a failure, over the cap, to cancel.
ReleaseHeld(v) ==
  /\ \/ ReservationAt(v, "undo") /\ ReservationTo(v, "untrack")
     \/ ReservationAt(v, "free") /\ ReservationTo(v, "untrackFree")
  /\ ReleaseScript(resv[v].held, v)
  /\ UNCHANGED <<owned, expiring, req, checkoutVars, limitVars, sold, made>>

UntrackHeld(v) ==
  /\ \/ ReservationAt(v, "untrack") /\ ReservationTo(v, "refused")
     \/ ReservationAt(v, "untrackFree") /\ ReservationTo(v, "uncount")
  /\ RemoveFromOwnerSet(resv[v].held, v)
  /\ UNCHANGED <<hold, req, checkoutVars, limitVars, sold, made>>

-----------------------------------------------------------------------------
(* capReservedSeats, and the mark of an address.                           *)

AddToCount(v) ==
  /\ ReservationAt(v, "sadd")
  /\ counted' = [counted EXCEPT ![Who(v)] = @ \cup resv[v].held]
  /\ ReservationTo(v, "expire")
  /\ UNCHANGED <<allCheckoutVars, marked, cooling, lasting, sold, made>>

RefreshCount(v) ==
  /\ ReservationAt(v, "expire")
  /\ lasting' = IF counted[Who(v)] = {} THEN lasting ELSE lasting \cup {Who(v)}
  /\ ReservationTo(v, "scard")
  /\ UNCHANGED <<allCheckoutVars, counted, marked, cooling, sold, made>>

\* Mistake: accounts are marked like addresses.
MarkEverybody(v) == "mark"

Counted(v) == IF limitApplies(v) THEN "mark" ELSE "summary"

\* Mistake: the seats of this reservation alone are compared with the cap.
CompareOwnSeats(v) ==
  /\ ReservationAt(v, "scard")
  /\ ReservationTo(v, IF Cardinality(resv[v].held) > MaxReserved THEN "over"
                      ELSE Counted(v))
  /\ UNCHANGED <<allCheckoutVars, limitVars, sold, made>>

CompareCount(v) ==
  /\ ReservationAt(v, "scard")
  /\ ReservationTo(v, IF Cardinality(counted[Who(v)]) > MaxReserved THEN "over"
                      ELSE Counted(v))
  /\ UNCHANGED <<allCheckoutVars, limitVars, sold, made>>

\* SREM on the count; the TTL goes with the last member.
Uncount(S, i) ==
  /\ counted' = [counted EXCEPT ![i] = @ \ S]
  /\ lasting' = IF counted[i] \subseteq S THEN lasting \ {i} ELSE lasting

\* Over the cap, or cancelled.
UncountHeld(v) ==
  /\ \/ ReservationAt(v, "over") /\ ReservationTo(v, "undo")
     \/ /\ ReservationAt(v, "uncount")
        /\ ReservationTo(v, IF limitApplies(v) THEN "unmark" ELSE "cancelled")
  /\ Uncount(resv[v].held, Who(v))
  /\ UNCHANGED <<allCheckoutVars, marked, cooling, sold, made>>

MarkAddress(v) ==
  /\ ReservationAt(v, "mark")
  /\ marked' = marked \cup {Who(v)}
  /\ ReservationTo(v, "summary")
  /\ UNCHANGED <<allCheckoutVars, counted, cooling, lasting, sold, made>>

\* summarize, the read that ends create: it throws when the event has gone off
\* sale, or the read fails.  Nothing is released, and no token is handed out.
Summarize(v) ==
  /\ ReservationAt(v, "summary")
  /\ \/ event = "published" /\ ReservationTo(v, "token")
     \/ /\ event # "published" \/ RequestsCrash
        /\ ReservationTo(v, "lost")
  /\ UNCHANGED <<allCheckoutVars, limitVars, sold, made>>

-----------------------------------------------------------------------------
(* cancel: any number of times while the token is valid, whatever became   *)
(* of the reservation.  Bound: one cancellation of a token at a time, and  *)
(* by whoever reserved.                                                    *)

Cancelling == {"free", "untrackFree", "uncount", "unmark", "cool"}

Cancel(v) ==
  /\ resv[v].at \in {"token", "cancelled"}
  /\ ReservationTo(v, "free")
  /\ UNCHANGED <<allCheckoutVars, limitVars, sold, made>>

UnmarkAddress(v) ==
  /\ ReservationAt(v, "unmark")
  /\ marked' = marked \ {Who(v)}
  /\ ReservationTo(v, "cool")
  /\ UNCHANGED <<allCheckoutVars, counted, cooling, lasting, sold, made>>

CoolAddress(v) ==
  /\ ReservationAt(v, "cool")
  /\ cooling' = cooling \cup {Who(v)}
  /\ ReservationTo(v, "cancelled")
  /\ UNCHANGED <<allCheckoutVars, counted, marked, lasting, sold, made>>

-----------------------------------------------------------------------------
(* checkoutReservation: a commit of the seats of the token, held by the    *)
(* reservation, then the buyer's count.                                    *)

Reserved(o) == HolderOf[o] \in Reservations

CommitReserved(o) ==
  LET v == HolderOf[o] IN
  /\ Reserved(o) => /\ resv[v].at \in {"token", "cancelled"} \cup Cancelling
                    /\ resv[v].held = SeatsOf[o]
  /\ Asked(o)
  /\ BeginCommit(o)
  /\ UNCHANGED <<resv, limitVars, sold>>

\* The commit returns after its last call, sold or not; the token outlives it.
CommitGoesOn(o) ==
  /\ \/ CheckHolds(o) \/ CheckEvent(o) \/ CommitTx(o)
     \/ ReadOwnHolds(o) \/ DropOwnHolds(o) \/ UntrackOwnHolds(o)
  /\ sold' = IF Reserved(o) /\ CommitAt(o, "srem") THEN sold \cup {o} ELSE sold
  /\ UNCHANGED <<resv, limitVars, made>>

UncountSold(o) ==
  /\ o \in sold /\ sold' = sold \ {o}
  /\ Uncount(SeatsOf[o], BuyerOf[o])
  /\ UNCHANGED <<allCheckoutVars, resv, marked, cooling, made>>

-----------------------------------------------------------------------------
(* What else happens: TTLs, errors of Redis, a process that dies, hold     *)
(* calls made directly, the sweeper and the life of the event.             *)

\* The step that follows when the Redis call of a step fails: create's count
\* throws; the calls of a roll-back, of the mark and of cancel have their errors
\* swallowed, and a script that failed leaves the SREM after it out.
AfterError(v) ==
  CASE resv[v].at \in {"sadd", "expire", "scard", "undo", "untrack"} -> "refused"
    [] resv[v].at = "over" -> "undo"
    [] resv[v].at = "mark" -> "summary"
    [] resv[v].at \in {"free", "untrackFree"} -> "uncount"
    [] resv[v].at = "uncount" /\ limitApplies(v) -> "unmark"
    [] resv[v].at = "unmark" -> "cool"
    [] OTHER -> "cancelled"

HeldAt(v, steps) == IF resv[v].at \in steps THEN resv[v].held ELSE {}

FailedOver(v) ==
  [resv[v] EXCEPT
     !.at = AfterError(v),
     !.kept = @ \cup HeldAt(v, {"sadd", "expire", "scard", "undo"}),
     !.miscounted = @ \cup HeldAt(v, {"expire", "scard", "over"})]

RedisFails(v) ==
  /\ RequestsCrash
  /\ resv[v].at \in {"sadd", "expire", "scard", "over", "undo", "untrack", "mark"}
                     \cup Cancelling
  /\ resv' = [resv EXCEPT ![v] = FailedOver(v)]
  /\ UNCHANGED <<allCheckoutVars, limitVars, sold, made>>

\* RESERVATION_TTL is that of the holds it counts, and renewed after them: only the
\* count of a reservation that did not come to its EXPIRE lapses before its holds.
CountLapses(i) ==
  /\ TtlElapses
  /\ i \in lasting
  /\ \A v \in Reservations : Who(v) = i =>
       \/ HeldBy(v) \cap counted[i] = {}
       \/ resv[v].at \in {"call", "sadd", "expire", "undo", "refused", "dead"}
  /\ counted' = [counted EXCEPT ![i] = {}]
  /\ lasting' = lasting \ {i}
  /\ UNCHANGED <<allCheckoutVars, resv, marked, cooling, sold, made>>

MarkLapses(i) ==
  /\ TtlElapses
  /\ \/ i \in marked /\ marked' = marked \ {i} /\ UNCHANGED cooling
     \/ i \in cooling /\ cooling' = cooling \ {i} /\ UNCHANGED marked
  /\ UNCHANGED <<allCheckoutVars, resv, counted, lasting, sold, made>>

\* Whoever has the token may try again to cancel it.
ReservationDies(v) ==
  /\ RequestsCrash
  /\ resv[v].at \notin {"idle", "token", "refused", "lost", "cancelled", "dead"}
  /\ ReservationTo(v, IF resv[v].at \in Cancelling THEN "cancelled" ELSE "dead")
  /\ req' = [req EXCEPT ![NextCall(v)] = IdleRequest]
  /\ UNCHANGED <<hold, owned, expiring, checkoutVars, limitVars, sold, made>>

Direct(r) == \A v \in Reservations : HolderOfRequest(r) # v

DirectCall(r) ==
  /\ Direct(r)
  /\ IF At(r, "idle") THEN Asked(r) ELSE UNCHANGED made
  /\ HoldStep(r)
  /\ UNCHANGED <<order, items, due, event, commit, resv, limitVars, sold>>

\* Bound: the event changes only where it is about to be read, by a commit or by
\* the summary of a new reservation.
Elsewhere ==
  /\ \/ /\ \/ \E s \in Seats : HoldLapses(s)
           \/ \E h \in Holders : OwnerSetLapses(h)
        /\ UNCHANGED <<order, items, due, event, commit>>
     \/ \E o \in Orders : CrashCommit(o) \/ Lapse(o) \/ Sweep(o)
     \/ /\ \/ \E o \in Orders : ~CommitAt(o, "idle")
           \/ \E v \in Reservations : ReservationAt(v, "summary")
        /\ SetStatus
  /\ UNCHANGED resvVars

ReservationGoesOn(v) ==
  \/ BeginCall(v) \/ ServeCall(v) \/ ReleaseHeld(v) \/ UntrackHeld(v)
  \/ AddToCount(v) \/ RefreshCount(v) \/ CompareCount(v) \/ UncountHeld(v)
  \/ MarkAddress(v) \/ Summarize(v) \/ UnmarkAddress(v) \/ CoolAddress(v)
  \/ CallThrows(v) \/ RedisFails(v)

ReservationsNext ==
  \/ \E v \in Reservations :
       Create(v) \/ ReservationGoesOn(v) \/ Cancel(v) \/ ReservationDies(v)
  \/ \E o \in Orders : CommitReserved(o) \/ CommitGoesOn(o) \/ UncountSold(o)
  \/ \E r \in Requests : DirectCall(r)
  \/ \E i \in Identities : CountLapses(i) \/ MarkLapses(i)
  \/ Elsewhere

ReservationsSpec ==
  /\ ReservationsStart(Reservations \cup Orders \cup Requests)
  /\ [][ReservationsNext]_vars

ReservationsFairness == SweeperFairness

-----------------------------------------------------------------------------
(* Properties.                                                             *)

\* A refused reservation holds nothing but what an error of Redis left held,
\* whichever of its calls was refused, and whatever lapsed and was taken by others
\* meanwhile (create, capReservedSeats: what was taken is released).
RefusalsRollBack ==
  \A v \in Reservations :
    ReservationAt(v, "refused") => HeldBy(v) \subseteq resv[v].kept

\* What an identity holds under its tokens is within the cap as far as it is
\* counted, however its reservations overlap, fail, die half way, lapse, are
\* cancelled or bought.  A seat that a count lost, because it lapsed between its
\* SADD and its EXPIRE or because another reservation took the seat off, is not
\* in the comparison; neither is one whose reservation is still to compare it, or
\* stopped at an error or died before the comparison took effect.
Tokens(i) == {v \in Reservations : Who(v) = i /\ ReservationAt(v, "token")}
Uncompared(v) ==
  resv[v].miscounted \cup
    (IF resv[v].at \in {"expire", "scard", "over", "dead"} THEN resv[v].held ELSE {})

TokensRespectTheCap ==
  \A i \in Identities :
    LET compared(s) ==
          \A v \in Reservations : Who(v) = i => s \notin Uncompared(v)
        held == UNION {HeldBy(v) : v \in Tokens(i)}
    IN Cardinality({s \in held \cap counted[i] : compared(s)}) <= MaxReserved

\* No call of any kind ends a hold of somebody else: a release, a rollback or a
\* cancellation that meets a seat which lapsed and was taken again leaves it.
OnlyTheirHolderReleases ==
  [][\A s \in Seats : hold[s] # NoHolder /\ hold'[s] # hold[s] =>
       /\ \A r \in Requests : req'[r] # req[r] => HolderOfRequest(r) = hold[s]
       /\ \A v \in Reservations : resv'[v] # resv[v] => v = hold[s]
    ]_<<hold, req, resv>>
=============================================================================
