------------------------------ MODULE SeatHolds ------------------------------
(***************************************************************************)
(* Temporary seat holds (api/src/modules/inventory/seat-hold.service.ts).  *)
(*                                                                         *)
(* A hold is a Redis key per seat whose value is the holder (a buyer, or   *)
(* the id of an anonymous reservation) and which lapses with its TTL.  A   *)
(* second Redis structure, the owner set of a holder, counts its holds for *)
(* the cap.  Each Redis call is atomic; nothing joins two of them, so a    *)
(* request is a process that takes one step per call.  Seats are sold and  *)
(* returned by module Checkout, which EXTENDS this one.                    *)
(***************************************************************************)
EXTENDS Integers, FiniteSets

CONSTANTS
  Seats,         \* seats of one event
  Holders,       \* buyers and reservation ids, the values of hold keys
  NoHolder,      \* the value of a key that does not exist
  Requests,      \* API calls on holds
  RequestOf,     \* what each call asks for
  Cap,           \* resolveCap: most seats a holder may hold
  TtlElapses,    \* FALSE: the run spans less than one TTL window
  RequestsCrash  \* TRUE: a call may die, or meet an error, at a Redis call

Operation == {"hold", "holdByQuantity", "release"}

\* For "hold" and "release", `seats` are the seats named by the caller; for
\* "holdByQuantity", the seats of the general-admission locality.
RequestType ==
  [op : Operation, holder : Holders, seats : SUBSET Seats, quantity : Nat]

ASSUME HoldsAssumption ==
  /\ IsFiniteSet(Seats)
  /\ NoHolder \notin Holders
  /\ RequestOf \in [Requests -> RequestType]
  /\ Cap \in Nat \ {0}
  /\ TtlElapses \in BOOLEAN
  /\ RequestsCrash \in BOOLEAN

VARIABLES
  seat,      \* seats.status in the database
  hold,      \* the hold keys
  owned,     \* the owner sets, hold:owner:<holder>
  expiring,  \* holders whose owner set has a TTL
  req        \* progress of each request, and the seats it took

holdVars == <<hold, owned, expiring, req>>

SeatStatus == {"available", "sold"}
RequestStep ==
  {"idle", "take", "sadd", "expire", "scard", "rollback", "srem"}
NoSeats == {}
IdleRequest == [at |-> "idle", got |-> NoSeats]

HoldsTypeOK ==
  /\ seat \in [Seats -> SeatStatus]
  /\ hold \in [Seats -> Holders \cup {NoHolder}]
  /\ owned \in [Holders -> SUBSET Seats]
  /\ expiring \in SUBSET Holders
  /\ req \in [Requests -> [at : RequestStep, got : SUBSET Seats]]

HoldsInit ==
  /\ seat = [s \in Seats |-> "available"]
  /\ hold = [s \in Seats |-> NoHolder]
  /\ owned = [h \in Holders |-> {}]
  /\ expiring = {}
  /\ req = [r \in Requests |-> IdleRequest]

HolderOfRequest(r) == RequestOf[r].holder
Free(S) == {s \in S : hold[s] = NoHolder}
Available(S) == {s \in S : seat[s] = "available"}
HeldBy(h) == {s \in Seats : hold[s] = h}

At(r, step) == req[r].at = step
MoveTo(r, step) == req' = [req EXCEPT ![r].at = step]
Answer(r) == req' = [req EXCEPT ![r] = IdleRequest]

-----------------------------------------------------------------------------
(* Atomic Redis scripts and commands.                                      *)

\* HOLD_SCRIPT, and the successful end of HOLD_N_SCRIPT: SET EX on every key.
SetHolds(S, h) == hold' = [s \in Seats |-> IF s \in S THEN h ELSE hold[s]]

\* Mistake: plain DEL on the keys.
ReleaseUnchecked(S, h) ==
  hold' = [s \in Seats |-> IF s \in S THEN NoHolder ELSE hold[s]]

\* RELEASE_SCRIPT deletes only the keys whose value is the holder.
ReleaseScript(S, h) ==
  hold' = [s \in Seats |->
             IF s \in S /\ hold[s] = h THEN NoHolder ELSE hold[s]]

\* SREM on the owner set; Redis drops the key, and its TTL, with the last member.
RemoveFromOwnerSet(S, h) ==
  /\ owned' = [owned EXCEPT ![h] = @ \ S]
  /\ expiring' = IF owned[h] \subseteq S THEN expiring \ {h} ELSE expiring

-----------------------------------------------------------------------------
(* The requests.                                                           *)

\* runHold up to the script: the cap on the call and the read of the database.
BeginHold(r) ==
  LET S == RequestOf[r].seats IN
  /\ RequestOf[r].op = "hold" /\ At(r, "idle")
  /\ S # {} /\ Cardinality(S) <= Cap
  /\ Available(S) = S
  /\ req' = [req EXCEPT ![r] = [at |-> "take", got |-> S]]
  /\ UNCHANGED <<hold, owned, expiring, seat>>

\* runHoldByQuantity up to the script: the candidates are the available seats
\* of the locality (the code reads at most min(4q + 20, 2000) of them).
BeginHoldByQuantity(r) ==
  LET candidates == Available(RequestOf[r].seats)
      quantity == RequestOf[r].quantity
  IN
  /\ RequestOf[r].op = "holdByQuantity" /\ At(r, "idle")
  /\ quantity \in 1 .. Cap
  /\ Cardinality(candidates) >= quantity
  /\ req' = [req EXCEPT ![r] = [at |-> "take", got |-> candidates]]
  /\ UNCHANGED <<hold, owned, expiring, seat>>

\* Mistake: SET without looking whether the keys exist.
TakeUnchecked(r) ==
  /\ RequestOf[r].op = "hold" /\ At(r, "take")
  /\ SetHolds(req[r].got, HolderOfRequest(r))
  /\ MoveTo(r, "sadd")
  /\ UNCHANGED <<owned, expiring, seat>>

\* HOLD_SCRIPT: all the seats or none, whoever holds one of them.
Take(r) ==
  /\ RequestOf[r].op = "hold" /\ At(r, "take")
  /\ \/ /\ Free(req[r].got) = req[r].got
        /\ SetHolds(req[r].got, HolderOfRequest(r))
        /\ MoveTo(r, "sadd")
     \/ /\ Free(req[r].got) # req[r].got
        /\ Answer(r)
        /\ UNCHANGED hold
  /\ UNCHANGED <<owned, expiring, seat>>

\* HOLD_N_SCRIPT: `quantity` free candidates or none.  The code takes the
\* first ones by label; which ones they are is left open.
TakeByQuantity(r) ==
  LET free == Free(req[r].got)
      quantity == RequestOf[r].quantity
  IN
  /\ RequestOf[r].op = "holdByQuantity" /\ At(r, "take")
  /\ \/ \E S \in SUBSET free :
          /\ Cardinality(S) = quantity
          /\ SetHolds(S, HolderOfRequest(r))
          /\ req' = [req EXCEPT ![r] = [at |-> "sadd", got |-> S]]
     \/ /\ Cardinality(free) < quantity
        /\ Answer(r)
        /\ UNCHANGED hold
  /\ UNCHANGED <<owned, expiring, seat>>

\* trackAndCap, first call.
AddToOwnerSet(r) ==
  LET h == HolderOfRequest(r) IN
  /\ At(r, "sadd")
  /\ owned' = [owned EXCEPT ![h] = @ \cup req[r].got]
  /\ MoveTo(r, "expire")
  /\ UNCHANGED <<hold, expiring, seat>>

\* Mistake: no EXPIRE on the owner set.
LeaveOwnerSet(r) ==
  /\ At(r, "expire")
  /\ MoveTo(r, "scard")
  /\ UNCHANGED <<hold, owned, expiring, seat>>

\* trackAndCap, second call: no effect on a set that has lapsed meanwhile.
RefreshOwnerSet(r) ==
  LET h == HolderOfRequest(r) IN
  /\ At(r, "expire")
  /\ expiring' = IF owned[h] = {} THEN expiring ELSE expiring \cup {h}
  /\ MoveTo(r, "scard")
  /\ UNCHANGED <<hold, owned, seat>>

\* Mistake: one seat above the cap goes through.
CountOwnerSetOffByOne(r) ==
  /\ At(r, "scard")
  /\ \/ /\ Cardinality(owned[HolderOfRequest(r)]) > Cap + 1
        /\ MoveTo(r, "rollback")
     \/ /\ Cardinality(owned[HolderOfRequest(r)]) <= Cap + 1
        /\ Answer(r)
  /\ UNCHANGED <<hold, owned, expiring, seat>>

\* trackAndCap, third call: over the cap the seats just taken go back.
CountOwnerSet(r) ==
  /\ At(r, "scard")
  /\ \/ /\ Cardinality(owned[HolderOfRequest(r)]) > Cap
        /\ MoveTo(r, "rollback")
     \/ /\ Cardinality(owned[HolderOfRequest(r)]) <= Cap
        /\ Answer(r)
  /\ UNCHANGED <<hold, owned, expiring, seat>>

\* release, first call: the script.  A "release" request starts here, a hold
\* over the cap arrives here.
Release(r) ==
  /\ \/ At(r, "rollback") /\ MoveTo(r, "srem")
     \/ /\ RequestOf[r].op = "release" /\ At(r, "idle")
        /\ req' = [req EXCEPT ![r] = [at |-> "srem", got |-> RequestOf[r].seats]]
  /\ ReleaseScript(req'[r].got, HolderOfRequest(r))
  /\ UNCHANGED <<owned, expiring, seat>>

\* release, second call: every seat named leaves the owner set, released or not.
Untrack(r) ==
  /\ At(r, "srem")
  /\ RemoveFromOwnerSet(req[r].got, HolderOfRequest(r))
  /\ Answer(r)
  /\ UNCHANGED <<hold, seat>>

\* The process that serves the call dies between two Redis calls, or one of them
\* fails: nothing catches the error, and what the earlier ones did stays.
CrashRequest(r) ==
  /\ RequestsCrash
  /\ ~At(r, "idle")
  /\ Answer(r)
  /\ UNCHANGED <<hold, owned, expiring, seat>>

-----------------------------------------------------------------------------
(* Time, seen through the two TTLs.                                        *)

HoldLapses(s) ==
  /\ TtlElapses
  /\ hold[s] # NoHolder
  /\ hold' = [hold EXCEPT ![s] = NoHolder]
  /\ UNCHANGED <<owned, expiring, req, seat>>

\* The TTL of an owner set is renewed after the holds it counts are written,
\* with the same duration, so the set outlives them, but for a hold whose EXPIRE
\* is still to come, or never comes because its call died or met an error.
OwnerSetLapses(h) ==
  /\ TtlElapses
  /\ h \in expiring
  /\ \/ RequestsCrash
     \/ \A s \in owned[h] \cap HeldBy(h) :
          \E r \in Requests :
            At(r, "expire") /\ HolderOfRequest(r) = h /\ s \in req[r].got
  /\ owned' = [owned EXCEPT ![h] = {}]
  /\ expiring' = expiring \ {h}
  /\ UNCHANGED <<hold, req, seat>>

HoldCallStep(r) ==
  \/ BeginHold(r) \/ BeginHoldByQuantity(r)
  \/ Take(r) \/ TakeByQuantity(r)
  \/ AddToOwnerSet(r) \/ RefreshOwnerSet(r) \/ CountOwnerSet(r)
  \/ Release(r) \/ Untrack(r)

HoldStep(r) == HoldCallStep(r) \/ CrashRequest(r)

HoldsNext ==
  \/ \E r \in Requests : HoldStep(r)
  \/ \E s \in Seats : HoldLapses(s)
  \/ \E h \in Holders : OwnerSetLapses(h)

-----------------------------------------------------------------------------
(* The component alone, with the sales of the checkout as its environment. *)

\* A seat is sold or comes back: the visible effect of Checkout on this one.
SeatChanges(s) ==
  /\ seat' = [seat EXCEPT ![s] = IF @ = "sold" THEN "available" ELSE "sold"]
  /\ UNCHANGED holdVars

\* The counting is shown for a window in which no TTL elapses and every call is
\* served to its end; Reservations and Checkout take up the rest of HoldsNext.
HoldsWindowSpec ==
  /\ HoldsInit
  /\ [][\/ \E r \in Requests : HoldCallStep(r)
        \/ \E s \in Seats : SeatChanges(s)]_<<seat, holdVars>>

-----------------------------------------------------------------------------
(* Properties.                                                             *)

\* A key never changes hands: a hold that another call, another buyer or a
\* rollback meets is left as it is (HOLD_SCRIPT, HOLD_N_SCRIPT, RELEASE_SCRIPT).
HoldsAreNotStolen ==
  [][\A s \in Seats : hold[s] # NoHolder => hold'[s] \in {hold[s], NoHolder}]_hold

\* The calls of h that have taken seats and not yet been answered.
InFlight(h) ==
  {r \in Requests : HolderOfRequest(r) = h /\ ~At(r, "idle") /\ ~At(r, "take")}

\* A holder with no call in flight holds at most Cap of the seats that his owner
\* set counts, also when calls of his met on a seat and the SREM of one came after
\* the SADD of another (trackAndCap, release).
CountedHoldsAreCapped ==
  \A h \in Holders :
    InFlight(h) = {} => Cardinality(HeldBy(h) \cap owned[h]) <= Cap

\* An owner set that no call is working on has a TTL: its count ends by itself.
CountedSetsExpire ==
  \A h \in Holders : owned[h] # {} /\ InFlight(h) = {} => h \in expiring
==============================================================================
