-------------------------- MODULE Reservations_proofs --------------------------
(***************************************************************************)
(* What TLAPS proves of SeatHolds and Reservations, for any seats, holders *)
(* and calls: that the cap of a holder counts what he holds, that a        *)
(* reservation is all or nothing and nobody ends it but its holder, that   *)
(* the cap of an identity counts its tokens, and that the sale is kept.    *)
(***************************************************************************)
EXTENDS Reservations, Checkout_proofs, FiniteSetTheorems

-----------------------------------------------------------------------------
(* Hold calls within a TTL window (trackAndCap).                           *)

Works(r) == req[r].at \notin {"idle", "take"}

\* The seats in the owner set of h that no call of his is still working on.
Settled(h) == {s \in owned[h] : \A r \in InFlight(h) : s \notin req[r].got}

\* An owner set has a TTL, or a call is about to give it one.
SetsExpire ==
  \A h \in Holders :
    owned[h] # {} => h \in expiring \/ \E r \in InFlight(h) : At(r, "expire")

\* What is settled was compared with the cap.
SettledIsCapped ==
  \A h \in Holders : Cardinality(Settled(h)) <= Cap

\* The inductive invariant of the counting.
CountingInv == HoldsTypeOK /\ SetsExpire /\ SettledIsCapped

\* The steps of a call, each with its effect on the call itself; it leaves the
\* other calls where they are.
LEMMA CallStepEffect ==
  ASSUME HoldsTypeOK, NEW r \in Requests, HoldCallStep(r)
  PROVE  /\ UNCHANGED seat
         /\ req' \in [Requests -> [at : RequestStep, got : SUBSET Seats]]
         /\ \A t \in Requests : t # r => req'[t] = req[t]
         /\ \/ /\ req[r].at = "idle" /\ req'[r].at = "take"
               /\ UNCHANGED <<hold, owned, expiring>>
            \/ /\ req[r].at = "take" /\ req'[r].at \in {"sadd", "idle"}
               /\ req'[r].at = "idle" => UNCHANGED hold
               /\ UNCHANGED <<owned, expiring>>
            \/ AddToOwnerSet(r) /\ req'[r] = [at |-> "expire", got |-> req[r].got]
            \/ RefreshOwnerSet(r) /\ req'[r] = [at |-> "scard", got |-> req[r].got]
            \/ /\ CountOwnerSet(r) /\ req'[r] = [at |-> "rollback", got |-> req[r].got]
            \/ /\ CountOwnerSet(r) /\ req'[r] = IdleRequest
               /\ Cardinality(owned[HolderOfRequest(r)]) <= Cap
            \/ /\ Release(r) /\ req[r].at \in {"idle", "rollback"}
               /\ req'[r].at = "srem"
               /\ req[r].at = "rollback" => req'[r].got = req[r].got
            \/ Untrack(r) /\ req[r].at = "srem" /\ req'[r] = IdleRequest
<1>1. /\ HoldsTypeOK'
      /\ req \in [Requests -> [at : RequestStep, got : SUBSET Seats]]
  BY HoldStepType DEF HoldStep, HoldsTypeOK
<1>2. req' \in [Requests -> [at : RequestStep, got : SUBSET Seats]]
  BY <1>1 DEF HoldsTypeOK
<1>3. CASE BeginHold(r) \/ BeginHoldByQuantity(r)
  BY <1>1, <1>2, <1>3 DEF BeginHold, BeginHoldByQuantity, At
<1>4. CASE Take(r)
  BY <1>1, <1>2, <1>4 DEF Take, At, MoveTo, Answer, IdleRequest
<1>5. CASE TakeByQuantity(r)
  <2>1. /\ req[r].at = "take" /\ UNCHANGED <<owned, expiring, seat>>
        /\ \/ \E S : req' = [req EXCEPT ![r] = [at |-> "sadd", got |-> S]]
           \/ req' = [req EXCEPT ![r] = IdleRequest] /\ UNCHANGED hold
    BY <1>5 DEF TakeByQuantity, At, Answer
  <2> QED BY <1>1, <1>2, <2>1 DEF IdleRequest
<1>6. CASE AddToOwnerSet(r)
  BY <1>1, <1>2, <1>6 DEF AddToOwnerSet, At, MoveTo
<1>7. CASE RefreshOwnerSet(r)
  BY <1>1, <1>2, <1>7 DEF RefreshOwnerSet, At, MoveTo
<1>8. CASE CountOwnerSet(r)
  BY <1>1, <1>2, <1>8 DEF CountOwnerSet, At, MoveTo, Answer, IdleRequest
<1>9. CASE Release(r)
  BY <1>1, <1>2, <1>9 DEF Release, At, MoveTo
<1>10. CASE Untrack(r)
  BY <1>1, <1>2, <1>10 DEF Untrack, At, Answer, IdleRequest
<1> QED
  BY <1>3, <1>4, <1>5, <1>6, <1>7, <1>8, <1>9, <1>10 DEF HoldCallStep

\* A call that moves on without leaving the calls in flight leaves no fewer seats
\* to it.
LEMMA SettledShrinks ==
  ASSUME HoldsTypeOK, HoldsTypeOK', NEW r \in Requests, NEW h \in Holders,
         \A t \in Requests : t # r => req'[t] = req[t],
         owned'[h] \subseteq owned[h] \cup
           (IF r \in InFlight(h)' THEN req'[r].got ELSE {}),
         r \in InFlight(h) =>
           \/ r \in InFlight(h)' /\ req'[r].got = req[r].got
           \/ owned'[h] \cap req[r].got = {}
  PROVE  Settled(h)' \subseteq Settled(h)
BY DEF Settled, InFlight, At

\* The seats of a set are finitely many.
LEMMA SeatsFinite ==
  ASSUME NEW S, NEW T \in SUBSET Seats, S \subseteq T
  PROVE  /\ IsFiniteSet(T) /\ IsFiniteSet(S) /\ Cardinality(S) \in Nat
         /\ Cardinality(T) \in Nat /\ Cardinality(S) <= Cardinality(T)
<1>1. IsFiniteSet(T)
  BY HoldsAssumption, FS_Subset
<1> QED BY <1>1, FS_Subset, FS_CardinalityType

\* Every step of a call keeps the counting (trackAndCap, release).
LEMMA CallKeepsCounting ==
  ASSUME CountingInv, NEW r \in Requests, HoldCallStep(r)
  PROVE  CountingInv'
<1> DEFINE me == HolderOfRequest(r)
<1>1. HoldsTypeOK /\ HoldsTypeOK' /\ me \in Holders
  BY HoldStepType, HoldsAssumption
  DEF CountingInv, HoldStep, HolderOfRequest, RequestType
<1>2. \A t \in Requests : t # r => req'[t] = req[t]
  BY <1>1, CallStepEffect
<1>3. SetsExpire'
  <2> SUFFICES ASSUME NEW h \in Holders, owned'[h] # {}, h \notin expiring'
               PROVE  \E t \in InFlight(h)' : At(t, "expire")'
    BY DEF SetsExpire
  <2>1. CASE h = me /\ AddToOwnerSet(r)
    <3>1. req'[r].at = "expire"
      BY <1>1, <2>1 DEF AddToOwnerSet, MoveTo, HoldsTypeOK
    <3> QED BY <2>1, <3>1 DEF InFlight, At
  <2>2. CASE ~(h = me /\ AddToOwnerSet(r))
    <3>1. owned[h] # {} /\ (h \in expiring => h \in expiring')
      <4>1. CASE RefreshOwnerSet(r)
        BY <4>1 DEF RefreshOwnerSet
      <4>2. CASE AddToOwnerSet(r)
        BY <1>1, <2>2, <4>2 DEF AddToOwnerSet, HoldsTypeOK
      <4>3. CASE Untrack(r)
        BY <1>1, <4>3 DEF Untrack, RemoveFromOwnerSet, HoldsTypeOK
      <4>4. CASE UNCHANGED <<owned, expiring>>
        BY <4>4
      <4> QED
        BY <1>1, <4>1, <4>2, <4>3, <4>4, CallStepEffect DEF CountOwnerSet, Release
    <3>2. PICK t \in InFlight(h) : At(t, "expire")
      BY <3>1 DEF CountingInv, SetsExpire
    <3>3. t # r
      <4> SUFFICES ASSUME t = r PROVE FALSE
        OBVIOUS
      <4>1. h = me /\ req[r].at = "expire"
        BY <3>2 DEF InFlight, At
      <4>2. RefreshOwnerSet(r)
        BY <1>1, <4>1, CallStepEffect DEF AddToOwnerSet, CountOwnerSet, At
      <4> QED
        BY <4>1, <4>2, <3>1 DEF RefreshOwnerSet
    <3> QED BY <1>2, <3>2, <3>3 DEF InFlight, At
  <2> QED BY <2>1, <2>2
<1>4. SettledIsCapped'
  <2> SUFFICES ASSUME NEW h \in Holders PROVE Cardinality(Settled(h)') <= Cap
    BY DEF SettledIsCapped
  <2>0. /\ Settled(h) \in SUBSET Seats /\ Settled(h)' \subseteq owned'[h]
        /\ owned'[h] \in SUBSET Seats /\ owned[h] \in SUBSET Seats
    BY <1>1 DEF Settled, HoldsTypeOK
  <2>1. CASE /\ CountOwnerSet(r) /\ req'[r] = IdleRequest /\ h = me
             /\ Cardinality(owned[me]) <= Cap
    <3>1. Settled(h)' \subseteq owned[h]
      BY <2>0, <2>1 DEF CountOwnerSet
    <3> QED BY <2>0, <2>1, <3>1, SeatsFinite, HoldsAssumption
  <2>2. CASE ~(/\ CountOwnerSet(r) /\ req'[r] = IdleRequest /\ h = me
               /\ Cardinality(owned[me]) <= Cap)
    <3>1. /\ owned'[h] \subseteq owned[h] \cup
               (IF r \in InFlight(h)' THEN req'[r].got ELSE {})
          /\ r \in InFlight(h) =>
               \/ r \in InFlight(h)' /\ req'[r].got = req[r].got
               \/ owned'[h] \cap req[r].got = {}
      <4>1. CASE AddToOwnerSet(r) /\ req'[r] = [at |-> "expire", got |-> req[r].got]
        BY <1>1, <4>1 DEF AddToOwnerSet, HoldsTypeOK, InFlight, At
      <4>2. CASE Untrack(r)
        BY <1>1, <4>2
        DEF Untrack, RemoveFromOwnerSet, HoldsTypeOK, InFlight, At
      <4>3. CASE UNCHANGED owned /\ ~Untrack(r)
        <5>1. r \in InFlight(h) => h = me /\ req[r].at \notin {"idle", "take"}
          BY DEF InFlight, At
        <5>2. \/ req[r].at \in {"idle", "take"}
              \/ req'[r].got = req[r].got /\ req'[r].at \notin {"idle", "take"}
              \/ /\ CountOwnerSet(r) /\ req'[r] = IdleRequest
                 /\ Cardinality(owned[me]) <= Cap
          <6>1. HoldsTypeOK /\ r \in Requests /\ HoldCallStep(r)
            BY <1>1
          <6>2. \/ req[r].at = "idle"
                \/ req[r].at = "take"
                \/ req'[r] = [at |-> "expire", got |-> req[r].got]
                \/ req'[r] = [at |-> "scard", got |-> req[r].got]
                \/ req'[r] = [at |-> "rollback", got |-> req[r].got]
                \/ /\ CountOwnerSet(r) /\ req'[r] = IdleRequest
                   /\ Cardinality(owned[me]) <= Cap
                \/ req'[r].at = "srem" /\ req'[r].got = req[r].got
            BY <4>3, <6>1, CallStepEffect
          <6> QED BY <6>2
        <5>3. r \in InFlight(h) =>
                req'[r].got = req[r].got /\ req'[r].at \notin {"idle", "take"}
          BY <2>2, <5>1, <5>2
        <5> QED BY <4>3, <5>1, <5>3 DEF InFlight, At
      <4> QED
        BY <1>1, <4>1, <4>2, <4>3, CallStepEffect
        DEF CountOwnerSet, Release, RefreshOwnerSet
    <3>2. Settled(h)' \subseteq Settled(h)
      BY <1>1, <1>2, <3>1, SettledShrinks
    <3>3. Cardinality(Settled(h)) <= Cap
      BY DEF CountingInv, SettledIsCapped
    <3> QED BY <2>0, <3>2, <3>3, SeatsFinite, HoldsAssumption
  <2> QED BY <2>1, <2>2
<1> QED BY <1>1, <1>3, <1>4 DEF CountingInv

\* The counting holds from the start, and is not about the seats' status.
LEMMA CountingBegins == HoldsInit => CountingInv
<1> SUFFICES ASSUME HoldsInit PROVE CountingInv
  OBVIOUS
<1>1. HoldsTypeOK
  BY DEF HoldsInit, HoldsTypeOK, SeatStatus, IdleRequest, NoSeats, RequestStep
<1>2. SetsExpire
  BY DEF HoldsInit, SetsExpire
<1>3. SettledIsCapped
  <2>1. \A h \in Holders : Settled(h) = {}
    BY DEF HoldsInit, Settled
  <2> QED BY <2>1, FS_EmptySet, HoldsAssumption DEF SettledIsCapped
<1> QED BY <1>1, <1>2, <1>3 DEF CountingInv

WindowStep == (\E r \in Requests : HoldCallStep(r)) \/ \E s \in Seats : SeatChanges(s)

\* A step that leaves holds and calls alone keeps the counting.
LEMMA CountingStands ==
  ASSUME CountingInv, UNCHANGED holdVars, seat' \in [Seats -> SeatStatus]
  PROVE  CountingInv'
<1>1. HoldsTypeOK' /\ SetsExpire'
  BY DEF CountingInv, HoldsTypeOK, SetsExpire, holdVars, InFlight, At
<1>2. \A h \in Holders : Settled(h)' = Settled(h)
  BY DEF Settled, holdVars, InFlight, At
<1>3. SettledIsCapped'
  BY <1>2 DEF CountingInv, SettledIsCapped
<1> QED BY <1>1, <1>3 DEF CountingInv

\* Every step of a TTL window keeps the counting.
LEMMA WindowKeepsCounting ==
  CountingInv /\ [WindowStep]_<<seat, holdVars>> => CountingInv'
<1> SUFFICES ASSUME CountingInv, [WindowStep]_<<seat, holdVars>>
             PROVE  CountingInv'
  OBVIOUS
<1>1. ASSUME NEW s \in Seats, SeatChanges(s) PROVE CountingInv'
  <2>1. seat' \in [Seats -> SeatStatus]
    BY <1>1 DEF SeatChanges, CountingInv, HoldsTypeOK, SeatStatus
  <2> QED BY <1>1, <2>1, CountingStands DEF SeatChanges
<1>2. CASE UNCHANGED <<seat, holdVars>>
  <2>1. seat' \in [Seats -> SeatStatus]
    BY <1>2 DEF CountingInv, HoldsTypeOK
  <2> QED BY <1>2, <2>1, CountingStands
<1> QED BY <1>1, <1>2, CallKeepsCounting DEF WindowStep

\* In a TTL window the counting holds, however the calls of a holder interleave.
THEOREM CountingInvariant == HoldsWindowSpec => []CountingInv
BY CountingBegins, WindowKeepsCounting, PTL DEF HoldsWindowSpec, WindowStep

\* The owner set of a holder has a TTL whenever none of his calls is under way:
\* nobody stays over the cap for good (trackAndCap, release).
THEOREM CountsEndByThemselves == HoldsWindowSpec => []CountedSetsExpire
<1>1. CountingInv => CountedSetsExpire
  BY DEF CountingInv, SetsExpire, CountedSetsExpire
<1> QED BY <1>1, CountingInvariant, PTL

-----------------------------------------------------------------------------
(* The cap of a holder.                                                    *)

\* Whatever calls of his meet, the seats that the owner set of a holder counts are
\* within the cap when none of his calls is under way (trackAndCap, release).
THEOREM CountedHoldsStayCapped == HoldsWindowSpec => []CountedHoldsAreCapped
<1>1. CountingInv => CountedHoldsAreCapped
  <2> SUFFICES ASSUME CountingInv, NEW h \in Holders, InFlight(h) = {}
               PROVE  Cardinality(HeldBy(h) \cap owned[h]) <= Cap
    BY DEF CountedHoldsAreCapped
  <2>1. HeldBy(h) \cap owned[h] \subseteq Settled(h) /\ Settled(h) \in SUBSET Seats
    BY DEF Settled, CountingInv, HoldsTypeOK
  <2>2. Cardinality(Settled(h)) <= Cap
    BY DEF CountingInv, SettledIsCapped
  <2> QED BY <2>1, <2>2, SeatsFinite, HoldsAssumption
<1> QED BY <1>1, CountingInvariant, PTL

\* What a call does to its seats and to those held.
LEMMA CallStepSeats ==
  ASSUME HoldsTypeOK, NEW r \in Requests, HoldCallStep(r)
  PROVE  /\ req[r].got \subseteq RequestOf[r].seats =>
              req'[r].got \subseteq RequestOf[r].seats
         /\ \A s \in Seats : \/ hold'[s] \in {hold[s], NoHolder}
                             \/ /\ hold'[s] = HolderOfRequest(r)
                                /\ s \in req'[r].got /\ req'[r].at = "sadd"
         /\ Release(r) => \A s \in req'[r].got : hold'[s] # HolderOfRequest(r)
<1> DEFINE me == HolderOfRequest(r)
<1>1. /\ RequestOf[r].seats \in SUBSET Seats /\ me \in Holders /\ NoHolder # me
      /\ req \in [Requests -> [at : RequestStep, got : SUBSET Seats]]
      /\ req'[r].got \in SUBSET Seats
      /\ hold \in [Seats -> Holders \cup {NoHolder}]
  BY HoldsAssumption, CallStepEffect DEF RequestType, HolderOfRequest, HoldsTypeOK
<1> HIDE DEF me
<1>2. CASE Take(r)
  <2>1. Take(r) => ~Release(r)
    BY DEF Take, Release, At
  <2>2. CASE Answer(r) /\ UNCHANGED hold
    BY <1>1, <1>2, <2>1, <2>2 DEF Answer, IdleRequest, NoSeats
  <2>3. CASE SetHolds(req[r].got, me) /\ MoveTo(r, "sadd")
    <3>1. req'[r].got = req[r].got /\ req'[r].at = "sadd"
      BY <1>1, <2>3 DEF MoveTo
    <3>2. \A s \in Seats : hold'[s] = IF s \in req[r].got THEN me ELSE hold[s]
      BY <2>3 DEF SetHolds
    <3>3. ~Release(r)
      BY <1>2, <2>1
    <3> QED BY <1>1, <3>1, <3>2, <3>3 DEF me
  <2> QED BY <1>2, <2>2, <2>3 DEF Take, me
<1>3. CASE TakeByQuantity(r)
  <2>1. TakeByQuantity(r) => ~Release(r)
    BY DEF TakeByQuantity, Release, At
  <2>2. CASE Answer(r) /\ UNCHANGED hold
    BY <1>1, <1>3, <2>1, <2>2 DEF Answer, IdleRequest, NoSeats
  <2>3. CASE \E S \in SUBSET Free(req[r].got) :
               SetHolds(S, me) /\ req' = [req EXCEPT ![r] = [at |-> "sadd", got |-> S]]
    <3>1. PICK S \in SUBSET Free(req[r].got) :
            SetHolds(S, me) /\ req' = [req EXCEPT ![r] = [at |-> "sadd", got |-> S]]
      BY <2>3
    <3>2. S \subseteq req[r].got /\ req'[r].got = S /\ req'[r].at = "sadd"
      BY <1>1, <3>1 DEF Free
    <3>3. \A s \in Seats : hold'[s] = IF s \in S THEN me ELSE hold[s]
      BY <3>1 DEF SetHolds
    <3>4. ~Release(r)
      BY <1>3, <2>1
    <3> QED BY <1>1, <3>2, <3>3, <3>4 DEF me
  <2> QED BY <1>3, <2>2, <2>3 DEF TakeByQuantity, me
<1>4. CASE Release(r)
  <2>1. /\ req'[r].got \in {req[r].got, RequestOf[r].seats}
        /\ ReleaseScript(req'[r].got, me)
    BY <1>1, <1>4 DEF Release, MoveTo, me
  <2>2. \A s \in Seats :
          hold'[s] = IF s \in req'[r].got /\ hold[s] = me THEN NoHolder ELSE hold[s]
    BY <2>1 DEF ReleaseScript
  <2> QED BY <1>1, <2>1, <2>2 DEF me
<1>5. CASE BeginHold(r) \/ BeginHoldByQuantity(r)
  BY <1>1, <1>5
  DEF BeginHold, BeginHoldByQuantity, Available, Release, At, me
<1>6. CASE \/ AddToOwnerSet(r) \/ RefreshOwnerSet(r) \/ CountOwnerSet(r) \/ Untrack(r)
  <2>1. UNCHANGED hold /\ ~Release(r)
    BY <1>6 DEF AddToOwnerSet, RefreshOwnerSet, CountOwnerSet, Untrack, Release, At
  <2>2. req'[r].got \in {req[r].got, {}}
    BY <1>1, <1>6
    DEF AddToOwnerSet, RefreshOwnerSet, CountOwnerSet, Untrack, MoveTo, Answer,
        IdleRequest, NoSeats
  <2> QED BY <1>1, <2>1, <2>2
<1> QED BY <1>2, <1>3, <1>4, <1>5, <1>6 DEF HoldCallStep, me

\* What a call does to the owner sets: it adds its seats to that of its holder, or
\* takes them off.
LEMMA CallStepOwned ==
  ASSUME HoldsTypeOK, NEW r \in Requests, HoldCallStep(r)
  PROVE  \/ UNCHANGED owned
         \/ /\ req[r].at = "sadd" /\ req'[r].got = req[r].got
            /\ owned' = [owned EXCEPT ![HolderOfRequest(r)] = @ \cup req[r].got]
         \/ /\ req[r].at = "srem" /\ req'[r].at = "idle"
            /\ owned' = [owned EXCEPT ![HolderOfRequest(r)] = @ \ req[r].got]
<1>1. CASE AddToOwnerSet(r) /\ req'[r] = [at |-> "expire", got |-> req[r].got]
  BY <1>1 DEF AddToOwnerSet, At
<1>2. CASE Untrack(r) /\ req[r].at = "srem" /\ req'[r] = IdleRequest
  BY <1>2 DEF Untrack, RemoveFromOwnerSet, IdleRequest
<1>3. CASE RefreshOwnerSet(r) \/ CountOwnerSet(r) \/ Release(r)
  BY <1>3 DEF RefreshOwnerSet, CountOwnerSet, Release
<1> QED BY <1>1, <1>2, <1>3, CallStepEffect

\* The seats that calls of h have taken and not yet added to his owner set.
ToBeCounted(h) ==
  {s \in Seats : \E r \in Requests :
     HolderOfRequest(r) = h /\ At(r, "sadd") /\ s \in req[r].got}

\* A held seat is counted, or about to be.
HeldIsCounted == \A h \in Holders : HeldBy(h) \subseteq owned[h] \cup ToBeCounted(h)

\* The SREM of this step takes no seat off the count that its holder has: no call
\* of his took the seat between the script of the release and its SREM.
UntracksNoHeldSeat ==
  \A r \in Requests : Untrack(r) => \A s \in req[r].got : hold[s] # HolderOfRequest(r)

\* Every step of a call but such an SREM leaves held seats counted.
LEMMA CallKeepsHeldCounted ==
  ASSUME HoldsTypeOK, HeldIsCounted, UntracksNoHeldSeat,
         NEW r \in Requests, HoldCallStep(r)
  PROVE  HeldIsCounted'
<1> DEFINE me == HolderOfRequest(r)
<1>1. /\ me \in Holders /\ NoHolder \notin Holders
      /\ \A t \in Requests : t # r => req'[t] = req[t]
      /\ owned \in [Holders -> SUBSET Seats]
      /\ req \in [Requests -> [at : RequestStep, got : SUBSET Seats]]
      /\ hold \in [Seats -> Holders \cup {NoHolder}]
  BY HoldsAssumption, CallStepEffect
  DEF HolderOfRequest, RequestType, HoldsTypeOK
<1> SUFFICES ASSUME NEW h \in Holders, NEW s \in Seats, hold'[s] = h,
                    s \notin owned'[h]
             PROVE  \E t \in Requests :
                      /\ HolderOfRequest(t) = h /\ req'[t].at = "sadd"
                      /\ s \in req'[t].got
  BY DEF HeldIsCounted, HeldBy, ToBeCounted, At, HolderOfRequest
<1>2. CASE hold'[s] = me /\ s \in req'[r].got /\ req'[r].at = "sadd"
  BY <1>2
<1>3. CASE hold[s] = h
  <2>1. CASE s \in owned[h]
    <3>1. /\ req[r].at = "srem" /\ h = me /\ s \in req[r].got
      BY <1>1, <2>1, CallStepOwned
    <3>2. Untrack(r)
      BY <3>1
      DEF HoldCallStep, BeginHold, BeginHoldByQuantity, Take, TakeByQuantity,
          AddToOwnerSet, RefreshOwnerSet, CountOwnerSet, Release, At
    <3> QED BY <1>3, <3>1, <3>2 DEF UntracksNoHeldSeat
  <2>2. CASE s \notin owned[h]
    <3>1. PICK t \in Requests :
            HolderOfRequest(t) = h /\ req[t].at = "sadd" /\ s \in req[t].got
      BY <1>3, <2>2 DEF HeldIsCounted, HeldBy, ToBeCounted, At
    <3>2. CASE t = r
      <4>1. AddToOwnerSet(r)
        BY <3>1, <3>2
        DEF HoldCallStep, BeginHold, BeginHoldByQuantity, Take, TakeByQuantity,
            RefreshOwnerSet, CountOwnerSet, Release, Untrack, At
      <4> QED BY <1>1, <3>1, <3>2, <4>1 DEF AddToOwnerSet
    <3> QED BY <1>1, <3>1, <3>2
  <2> QED BY <2>1, <2>2
<1>4. hold'[s] = hold[s] \/ (hold'[s] = me /\ s \in req'[r].got /\ req'[r].at = "sadd")
  BY <1>1, CallStepSeats
<1> QED BY <1>2, <1>3, <1>4

\* What the comment of trackAndCap says: nobody holds more than the cap, in a loop
\* or otherwise.
CapRespected ==
  \A h \in Holders : InFlight(h) = {} => Cardinality(HeldBy(h)) <= Cap

\* Nobody exceeds the cap by holding in a loop or at once, but by an SREM that comes
\* after he took the seat again: as long as no step is one, a holder none of whose
\* calls is under way has at most Cap seats.  It is the only way past the cap.
THEOREM OnlyALateUntrackPassesTheCap ==
  HoldsWindowSpec /\ [][UntracksNoHeldSeat]_<<seat, holdVars>> => []CapRespected
<1>1. HoldsInit => HeldIsCounted
  <2> SUFFICES ASSUME HoldsInit PROVE HeldIsCounted
    OBVIOUS
  <2>1. \A s \in Seats : hold[s] \notin Holders
    BY HoldsAssumption DEF HoldsInit
  <2> QED BY <2>1 DEF HeldIsCounted, HeldBy
<1>2. /\ CountingInv /\ HeldIsCounted
      /\ [WindowStep]_<<seat, holdVars>> /\ [UntracksNoHeldSeat]_<<seat, holdVars>>
      => HeldIsCounted'
  <2> SUFFICES ASSUME CountingInv, HeldIsCounted, [WindowStep]_<<seat, holdVars>>,
                      [UntracksNoHeldSeat]_<<seat, holdVars>>
               PROVE  HeldIsCounted'
    OBVIOUS
  <2>1. CASE UNCHANGED holdVars
    BY <2>1 DEF HeldIsCounted, HeldBy, ToBeCounted, At, holdVars
  <2>2. ASSUME NEW r \in Requests, HoldCallStep(r), UntracksNoHeldSeat
        PROVE  HeldIsCounted'
    BY <2>2, CallKeepsHeldCounted DEF CountingInv
  <2> QED BY <2>1, <2>2 DEF WindowStep, SeatChanges, holdVars
<1>3. CountingInv /\ HeldIsCounted => CapRespected
  <2> SUFFICES ASSUME CountingInv, HeldIsCounted,
                      NEW h \in Holders, InFlight(h) = {}
               PROVE  Cardinality(HeldBy(h)) <= Cap
    BY DEF CapRespected
  <2>1. ToBeCounted(h) = {}
    BY DEF ToBeCounted, InFlight, At
  <2>2. HeldBy(h) \subseteq Settled(h) /\ Settled(h) \in SUBSET Seats
    BY <2>1 DEF HeldIsCounted, Settled, CountingInv, HoldsTypeOK
  <2>3. Cardinality(Settled(h)) <= Cap
    BY DEF CountingInv, SettledIsCapped
  <2> QED BY <2>2, <2>3, SeatsFinite, HoldsAssumption
<1> QED
  BY <1>1, <1>2, <1>3, CountingInvariant, PTL DEF HoldsWindowSpec, WindowStep

-----------------------------------------------------------------------------
(* Reservations.                                                           *)

\* A reservation is at one of its calls, and its requests are all idle but that
\* one, while it is at it.  Only addresses are marked.  Before it is asked for,
\* nothing has happened to it.
KeepsToItsCalls(v) ==
  /\ v \in made => ReservationAt(v, "idle")
  /\ resv[v].call \in DOMAIN CallsOf[v]
  /\ \A r \in Requests : HolderOfRequest(r) = v /\ ~At(r, "idle") =>
       ReservationAt(v, "call") /\ r = NextCall(v)
  /\ resv[v].at \in {"mark", "unmark", "cool"} => limitApplies(v)

\* The seats of the call it is at.
Taken(v) ==
  IF ReservationAt(v, "call") /\ Works(NextCall(v)) THEN req[NextCall(v)].got ELSE {}

\* A reservation that is alive holds no seats but those it knows of and those that
\* an error left held, and none that it has just released.
HoldsWhatItKnows(v) ==
  /\ ~ReservationAt(v, "dead") => 
       HeldBy(v) \subseteq resv[v].held \cup resv[v].kept \cup Taken(v)
  /\ resv[v].at \in {"untrack", "refused"} => HeldBy(v) \subseteq resv[v].kept
  /\ ReservationAt(v, "call") /\ At(NextCall(v), "srem") =>
       \A s \in req[NextCall(v)].got : hold[s] # v

\* The inductive invariant of the reservations.
ReservationsInv ==
  /\ SaleInv /\ ReservationsTypeOK
  /\ \A v \in Reservations : KeepsToItsCalls(v) /\ HoldsWhatItKnows(v)

\* What the constants say of a reservation and the call it is at.
LEMMA NextCallFacts ==
  ASSUME NEW v \in Reservations, resv[v].call \in DOMAIN CallsOf[v]
  PROVE  /\ v \in Holders /\ v # NoHolder /\ Who(v) \in Identities
         /\ NextCall(v) \in Requests
         /\ HolderOfRequest(NextCall(v)) = v
         /\ RequestOf[NextCall(v)].op # "release"
<1>1. v \in Holders /\ v # NoHolder /\ Who(v) \in Identities
  BY HoldsAssumption, ReservationsAssumption DEF Who
<1>2. CallsOf[v] \in Seq(Requests)
  BY ReservationsAssumption
<1>3. NextCall(v) \in Requests
  BY <1>2 DEF NextCall
<1>4. /\ RequestOf[NextCall(v)].holder = v
      /\ RequestOf[NextCall(v)].op \in {"hold", "holdByQuantity"}
  BY ReservationsAssumption DEF NextCall
<1> QED BY <1>1, <1>3, <1>4 DEF HolderOfRequest

\* The steps of a call that a reservation is at.
CallGoesOn(r) ==
  \/ Take(r) \/ TakeByQuantity(r)
  \/ AddToOwnerSet(r) \/ RefreshOwnerSet(r) \/ CountOwnerSet(r)
  \/ Release(r) \/ Untrack(r)

\* Most steps are steps of the checkout and its holds, or leave both alone; a
\* reservation only releases besides, and dies.
LEMMA StepsOfTheCheckout ==
  ASSUME \A v \in Reservations : resv[v].call \in DOMAIN CallsOf[v],
         [ReservationsNext]_vars
  PROVE  \/ [CheckoutNext]_allCheckoutVars
         \/ \E v \in Reservations :
              ReleaseHeld(v) \/ UntrackHeld(v) \/ ReservationDies(v)
<1> DEFINE others == <<order, items, due, event, commit>>
<1>1. ASSUME NEW r \in Requests, HoldStep(r), UNCHANGED others
      PROVE  CheckoutNext
  BY <1>1 DEF CheckoutNext, CheckoutStep, HoldsNext
<1>2. ASSUME UNCHANGED allCheckoutVars PROVE [CheckoutNext]_allCheckoutVars
  BY <1>2
<1>3. ASSUME NEW v \in Reservations,
             Create(v) \/ ReservationGoesOn(v) \/ Cancel(v) \/ ReservationDies(v)
      PROVE  \/ [CheckoutNext]_allCheckoutVars
             \/ ReleaseHeld(v) \/ UntrackHeld(v) \/ ReservationDies(v)
  <2>1. NextCall(v) \in Requests
    BY NextCallFacts
  <2>2. CASE BeginCall(v)
    <3>1. CASE BeginHold(NextCall(v)) \/ BeginHoldByQuantity(NextCall(v))
      BY <1>1, <2>1, <2>2, <3>1 DEF BeginCall, HoldStep, HoldCallStep
    <3>2. CASE UNCHANGED <<holdVars, seat>>
      BY <2>2, <3>2 DEF BeginCall, allCheckoutVars, checkoutVars
    <3> QED BY <2>2, <3>1, <3>2 DEF BeginCall
  <2>3. CASE ServeCall(v)
    <3>1. CallGoesOn(NextCall(v)) /\ UNCHANGED others
      BY <2>3 DEF ServeCall, CallGoesOn
    <3> QED BY <1>1, <2>1, <3>1 DEF CallGoesOn, HoldStep, HoldCallStep
  <2>4. CASE CallThrows(v)
    BY <1>1, <2>1, <2>4 DEF CallThrows, HoldStep
  <2> QED
    BY <1>2, <1>3, <2>2, <2>3, <2>4
    DEF ReservationGoesOn, Create, AddToCount, RefreshCount, CompareCount,
        UncountHeld, MarkAddress, Summarize, UnmarkAddress, CoolAddress, RedisFails,
        Cancel
<1>4. ASSUME NEW o \in Orders, CommitReserved(o) \/ CommitGoesOn(o) \/ UncountSold(o)
      PROVE  [CheckoutNext]_allCheckoutVars
  BY <1>4
  DEF CommitReserved, CommitGoesOn, UncountSold, CheckoutNext, CheckoutStep,
      SaleStep, CommitStepOf
<1>5. ASSUME NEW r \in Requests, DirectCall(r) PROVE [CheckoutNext]_allCheckoutVars
  BY <1>1, <1>5 DEF DirectCall
<1>6. ASSUME NEW i \in Identities, CountLapses(i) \/ MarkLapses(i)
      PROVE  [CheckoutNext]_allCheckoutVars
  BY <1>6 DEF CountLapses, MarkLapses
<1>7. CASE Elsewhere
  <2>1. CASE /\ (\E s \in Seats : HoldLapses(s)) \/ (\E h \in Holders : OwnerSetLapses(h))
             /\ UNCHANGED others
    BY <2>1 DEF CheckoutNext, CheckoutStep, HoldsNext
  <2>2. CASE \E o \in Orders : CrashCommit(o) \/ Lapse(o) \/ Sweep(o)
    BY <2>2 DEF CheckoutNext, CheckoutStep, SaleStep, CommitStepOf
  <2>3. CASE SetStatus
    BY <2>3 DEF CheckoutNext, CheckoutStep
  <2> QED BY <1>7, <2>1, <2>2, <2>3 DEF Elsewhere
<1>8. CASE UNCHANGED vars
  BY <1>8 DEF vars
<1> QED
  BY <1>3, <1>4, <1>5, <1>6, <1>7, <1>8 DEF ReservationsNext

\* Every step keeps what is proved of the checkout: reservations sell nothing.
LEMMA ReservationsKeepSale ==
  ASSUME ReservationsInv, [ReservationsNext]_vars PROVE SaleInv'
<1>1. CASE [CheckoutNext]_allCheckoutVars
  BY <1>1, SaleInvNext DEF ReservationsInv
<1>2. ASSUME NEW v \in Reservations,
             ReleaseHeld(v) \/ UntrackHeld(v) \/ ReservationDies(v)
      PROVE  SaleInv'
  <2>1. HoldsTypeOK /\ v \in Holders /\ NextCall(v) \in Requests
    BY NextCallFacts
    DEF ReservationsInv, SaleInv, CheckoutTypeOK, KeepsToItsCalls
  <2>2. UNCHANGED checkoutVars
    BY <1>2 DEF ReleaseHeld, UntrackHeld, ReservationDies
  <2>3. HoldsTypeOK'
    <3>1. CASE ReleaseHeld(v)
      <4>1. hold' \in [Seats -> Holders \cup {NoHolder}]
        BY <2>1, <3>1, ReleaseScriptType DEF ReleaseHeld, HoldsTypeOK
      <4> QED BY <2>1, <2>2, <3>1, <4>1 DEF ReleaseHeld, HoldsTypeOK, checkoutVars
    <3>2. CASE UntrackHeld(v)
      <4>1. owned' \in [Holders -> SUBSET Seats] /\ expiring' \in SUBSET Holders
        BY <2>1, <3>2, RemoveFromOwnerSetType DEF UntrackHeld, HoldsTypeOK
      <4> QED BY <2>1, <2>2, <3>2, <4>1 DEF UntrackHeld, HoldsTypeOK, checkoutVars
    <3>3. CASE ReservationDies(v)
      <4>1. req' \in [Requests -> [at : RequestStep, got : SUBSET Seats]]
        BY <2>1, <3>3
        DEF ReservationDies, HoldsTypeOK, IdleRequest, NoSeats, RequestStep
      <4> QED BY <2>1, <2>2, <3>3, <4>1 DEF ReservationDies, HoldsTypeOK, checkoutVars
    <3> QED BY <1>2, <3>1, <3>2, <3>3
  <2>4. CheckoutTypeOK' /\ CommitsComeFirst'
    BY <2>2, <2>3
    DEF ReservationsInv, SaleInv, CheckoutTypeOK, checkoutVars, CommitsComeFirst
  <2> QED
    BY <2>2, <2>4, UntouchedSale
    DEF ReservationsInv, SaleInv, SaleParts, checkoutVars
<1> QED
  BY <1>1, <1>2, StepsOfTheCheckout DEF ReservationsInv, KeepsToItsCalls

ReservationAction(v) ==
  Create(v) \/ ReservationGoesOn(v) \/ Cancel(v) \/ ReservationDies(v)

\* What a call leaves of the reservation that is at it: it goes on, it has got its
\* seats, or it failed.
LEMMA ServeCallEffect ==
  ASSUME ReservationsInv, NEW v \in Reservations, ServeCall(v)
  PROVE  /\ CallGoesOn(NextCall(v)) /\ resv[v].at = "call" /\ ~At(NextCall(v), "idle")
         /\ \/ UNCHANGED resv /\ req'[NextCall(v)].at # "idle"
            \/ /\ At(NextCall(v), "scard") /\ req'[NextCall(v)].at = "idle"
               /\ resv' = [resv EXCEPT
                    ![v].held = @ \cup req[NextCall(v)].got,
                    ![v].call = IF resv[v].call = Len(CallsOf[v]) THEN @ ELSE @ + 1,
                    ![v].at = IF resv[v].call = Len(CallsOf[v]) THEN "sadd" ELSE @]
            \/ Fails(v) /\ ~At(NextCall(v), "scard") /\ req'[NextCall(v)].at = "idle"
BY DEF ServeCall, CallGoesOn, ReservationAt, At

\* A step of a reservation changes no other, and keeps its type.
LEMMA ReservationEffect ==
  ASSUME ReservationsInv, NEW v \in Reservations, ReservationAction(v)
  PROVE  /\ resv' \in [Reservations -> ReservationType]
         /\ \A w \in Reservations : w # v => resv'[w] = resv[w]
         /\ resv'[v].call \in DOMAIN CallsOf[v]
         /\ resv'[v].at \in {"mark", "unmark", "cool"} => limitApplies(v)
<1> DEFINE T == [Reservations -> ReservationType]
           Goal == /\ resv' \in T
                   /\ \A w \in Reservations : w # v => resv'[w] = resv[w]
                   /\ resv'[v].call \in DOMAIN CallsOf[v]
                   /\ resv'[v].at \in {"mark", "unmark", "cool"} => limitApplies(v)
<1>1. /\ resv \in T /\ resv[v].call \in DOMAIN CallsOf[v]
      /\ resv[v].at \in {"mark", "unmark", "cool"} => limitApplies(v)
      /\ CallsOf[v] \in Seq(Requests)
      /\ req \in [Requests -> [at : RequestStep, got : SUBSET Seats]]
      /\ NextCall(v) \in Requests
  BY ReservationsAssumption, NextCallFacts
  DEF ReservationsInv, ReservationsTypeOK, KeepsToItsCalls, CheckoutTypeOK, HoldsTypeOK
<1>2. ASSUME NEW step \in ReservationStep, ReservationTo(v, step),
             step \in {"mark", "unmark", "cool"} => limitApplies(v)
      PROVE  Goal
  BY <1>1, <1>2 DEF ReservationTo, ReservationType
<1>3. CASE UNCHANGED resv
  BY <1>1, <1>3
<1>4. CASE Fails(v)
  <2>1. ReservationTo(v, "refused") \/ ReservationTo(v, "undo")
    BY <1>4 DEF Fails, AfterFailure
  <2> QED BY <1>2, <2>1 DEF ReservationStep
<1>5. CASE ServeCall(v)
  <2>1. CASE resv' = [resv EXCEPT
              ![v].held = @ \cup req[NextCall(v)].got,
              ![v].call = IF resv[v].call = Len(CallsOf[v]) THEN @ ELSE @ + 1,
              ![v].at = IF resv[v].call = Len(CallsOf[v]) THEN "sadd" ELSE @]
    <3>1. /\ resv[v].call \in 1 .. Len(CallsOf[v]) /\ Len(CallsOf[v]) \in Nat
          /\ DOMAIN CallsOf[v] = 1 .. Len(CallsOf[v])
      BY <1>1
    <3> DEFINE c == IF resv[v].call = Len(CallsOf[v]) THEN resv[v].call
                    ELSE resv[v].call + 1
               a == IF resv[v].call = Len(CallsOf[v]) THEN "sadd" ELSE resv[v].at
               H == resv[v].held \cup req[NextCall(v)].got
    <3>2. c \in 1 .. Len(CallsOf[v]) /\ c \in Nat \ {0}
      BY <3>1
    <3>3. H \in SUBSET Seats
      BY <1>1 DEF ReservationType
    <3>4. a \in ReservationStep /\ a \in {"sadd", resv[v].at}
      BY <1>1 DEF ReservationStep, ReservationType
    <3>5. resv' = [resv EXCEPT ![v].held = H, ![v].call = c, ![v].at = a]
      BY <1>1, <2>1
    <3> HIDE DEF c, a, H
    <3>6. /\ resv' \in T
          /\ \A w \in Reservations : w # v => resv'[w] = resv[w]
          /\ resv'[v].call = c /\ resv'[v].at = a
      <4> DEFINE new == [resv[v] EXCEPT !.held = H, !.call = c, !.at = a]
      <4>1. resv[v] \in ReservationType
        BY <1>1
      <4>2. new \in ReservationType /\ new.call = c /\ new.at = a
        BY <4>1, <3>2, <3>3, <3>4 DEF ReservationType
      <4>3. resv' = [resv EXCEPT ![v] = new]
        BY <1>1, <4>1, <3>5 DEF ReservationType
      <4> HIDE DEF new
      <4> QED BY <1>1, <4>2, <4>3
    <3> QED BY <1>1, <3>1, <3>2, <3>4, <3>6
  <2> QED BY <1>3, <1>4, <1>5, <2>1, ServeCallEffect
<1>6. CASE BeginCall(v)
  BY <1>3, <1>4, <1>6 DEF BeginCall
<1>7. CASE Create(v) \/ Cancel(v) \/ ReservationDies(v)
  <2>1. PICK step \in {"call", "free", "cancelled", "dead"} : ReservationTo(v, step)
    BY <1>7 DEF Create, Cancel, ReservationDies
  <2> QED BY <1>2, <2>1 DEF ReservationStep
<1>8. CASE ReleaseHeld(v) \/ UntrackHeld(v) \/ AddToCount(v) \/ RefreshCount(v)
  <2>1. PICK step \in {"untrack", "untrackFree", "refused", "uncount", "expire", "scard"} :
          ReservationTo(v, step)
    BY <1>8 DEF ReleaseHeld, UntrackHeld, AddToCount, RefreshCount
  <2> QED BY <1>2, <2>1 DEF ReservationStep
<1>9. CASE CompareCount(v) \/ UncountHeld(v)
  <2>1. PICK step \in {"over", "mark", "summary", "undo", "unmark", "cancelled"} :
          /\ ReservationTo(v, step)
          /\ step \in {"mark", "unmark"} => limitApplies(v)
    BY <1>9 DEF CompareCount, UncountHeld, Counted
  <2> QED BY <1>2, <2>1 DEF ReservationStep
<1>10. CASE MarkAddress(v) \/ Summarize(v) \/ CoolAddress(v)
  <2>1. PICK step \in {"summary", "token", "lost", "cancelled"} : ReservationTo(v, step)
    BY <1>10 DEF MarkAddress, Summarize, CoolAddress
  <2> QED BY <1>2, <2>1 DEF ReservationStep
<1>11. CASE UnmarkAddress(v)
  BY <1>1, <1>2, <1>11 DEF UnmarkAddress, ReservationAt, ReservationStep
<1>12. ASSUME NEW a \in ReservationStep, a \in {"mark", "unmark", "cool"} => limitApplies(v),
              NEW K \in SUBSET Seats, NEW M \in SUBSET Seats,
              resv' = [resv EXCEPT ![v] =
                         [resv[v] EXCEPT !.at = a, !.kept = K, !.miscounted = M]]
       PROVE  Goal
  <2> DEFINE new == [resv[v] EXCEPT !.at = a, !.kept = K, !.miscounted = M]
  <2>1. new \in ReservationType /\ new.call = resv[v].call /\ new.at = a
    BY <1>1, <1>12 DEF ReservationType
  <2> HIDE DEF new
  <2> QED BY <1>1, <1>12, <2>1 DEF new
<1>13. resv[v] \in ReservationType
  BY <1>1
<1>14. CASE CallThrows(v)
  <2> DEFINE K == resv[v].kept \cup ((HeldBy(v) \cap req[NextCall(v)].got) \ resv[v].held)
  <2>1. AfterFailure(v) \in ReservationStep /\ AfterFailure(v) \in {"refused", "undo"}
    BY DEF AfterFailure, ReservationStep
  <2>2. K \in SUBSET Seats /\ resv[v].miscounted \in SUBSET Seats
    BY <1>1, <1>13 DEF ReservationType, HeldBy
  <2>3. resv' = [resv EXCEPT ![v] =
                   [resv[v] EXCEPT !.at = AfterFailure(v), !.kept = K,
                                   !.miscounted = resv[v].miscounted]]
    BY <1>1, <1>13, <1>14 DEF CallThrows, ReservationType
  <2> HIDE DEF K
  <2> QED BY <1>12, <2>1, <2>2, <2>3
<1>15. CASE RedisFails(v)
  <2> DEFINE K == resv[v].kept \cup HeldAt(v, {"sadd", "expire", "scard", "undo"})
             M == resv[v].miscounted \cup HeldAt(v, {"expire", "scard", "over"})
  <2>1. /\ AfterError(v) \in ReservationStep
        /\ AfterError(v) \in {"mark", "unmark", "cool"} => limitApplies(v)
    BY <1>1 DEF AfterError, ReservationStep
  <2>2. K \in SUBSET Seats /\ M \in SUBSET Seats
    BY <1>13 DEF ReservationType, HeldAt
  <2>3. resv' = [resv EXCEPT ![v] =
                   [resv[v] EXCEPT !.at = AfterError(v), !.kept = K, !.miscounted = M]]
    BY <1>1, <1>13, <1>15 DEF RedisFails, FailedOver, ReservationType
  <2> HIDE DEF K, M
  <2> QED BY <1>12, <2>1, <2>2, <2>3
<1> QED
  BY <1>5, <1>6, <1>7, <1>8, <1>9, <1>10, <1>11, <1>14, <1>15
  DEF ReservationAction, ReservationGoesOn

OtherAction ==
  \/ \E o \in Orders : CommitReserved(o) \/ CommitGoesOn(o) \/ UncountSold(o)
  \/ \E r \in Requests : DirectCall(r)
  \/ \E i \in Identities : CountLapses(i) \/ MarkLapses(i)
  \/ Elsewhere

\* The steps that are not of a reservation leave all of them alone.
LEMMA OthersLeaveReservations == ASSUME OtherAction PROVE UNCHANGED resv
BY DEF OtherAction, CommitReserved, CommitGoesOn, UncountSold, DirectCall,
       CountLapses, MarkLapses, Elsewhere, resvVars

\* Every step keeps the types of the limits, whoever takes it.
LEMMA LimitsKeepTypes ==
  ASSUME ReservationsInv, [ReservationsNext]_vars
  PROVE  /\ counted' \in [Identities -> SUBSET Seats]
         /\ marked' \in SUBSET (Identities \ Buyers)
         /\ cooling' \in SUBSET (Identities \ Buyers)
         /\ lasting' \in SUBSET Identities
         /\ sold' \in SUBSET Orders
         /\ made' \in SUBSET (Reservations \cup Orders \cup Requests)
<1> DEFINE Goal == /\ counted' \in [Identities -> SUBSET Seats]
                   /\ marked' \in SUBSET (Identities \ Buyers)
                   /\ cooling' \in SUBSET (Identities \ Buyers)
                   /\ lasting' \in SUBSET Identities
                   /\ sold' \in SUBSET Orders
                   /\ made' \in SUBSET (Reservations \cup Orders \cup Requests)
<1>1. /\ counted \in [Identities -> SUBSET Seats]
      /\ marked \in SUBSET (Identities \ Buyers)
      /\ cooling \in SUBSET (Identities \ Buyers)
      /\ lasting \in SUBSET Identities
      /\ sold \in SUBSET Orders
      /\ made \in SUBSET (Reservations \cup Orders \cup Requests)
  BY DEF ReservationsInv, ReservationsTypeOK
<1>2. ASSUME NEW S, NEW i \in Identities, Uncount(S, i)
      PROVE  /\ counted' \in [Identities -> SUBSET Seats]
             /\ lasting' \in SUBSET Identities
  BY <1>1, <1>2 DEF Uncount
<1>3. ASSUME NEW v \in Reservations, ReservationAction(v) PROVE Goal
  <2>1. /\ resv[v].held \in SUBSET Seats /\ Who(v) \in Identities
        /\ resv[v].at \in {"mark", "unmark", "cool"} => Who(v) \in Identities \ Buyers
    BY NextCallFacts
    DEF ReservationsInv, ReservationsTypeOK, ReservationType, KeepsToItsCalls,
        limitApplies
  <2>2. CASE Create(v)
    BY <1>1, <2>2 DEF Create, Asked, limitVars
  <2>3. CASE UNCHANGED <<limitVars, sold, made>>
    BY <1>1, <2>3 DEF limitVars
  <2>4. CASE AddToCount(v) \/ RefreshCount(v)
    BY <1>1, <2>1, <2>4 DEF AddToCount, RefreshCount
  <2>5. CASE UncountHeld(v)
    BY <1>1, <1>2, <2>1, <2>5 DEF UncountHeld
  <2>6. CASE MarkAddress(v) \/ UnmarkAddress(v) \/ CoolAddress(v)
    BY <1>1, <2>1, <2>6 DEF MarkAddress, UnmarkAddress, CoolAddress, ReservationAt
  <2> QED
    BY <1>3, <2>2, <2>3, <2>4, <2>5, <2>6
    DEF ReservationAction, ReservationGoesOn, BeginCall, ServeCall, ReleaseHeld,
        CallThrows, RedisFails, UntrackHeld, CompareCount, Summarize, Cancel,
        ReservationDies
<1>4. ASSUME NEW o \in Orders, CommitReserved(o) \/ CommitGoesOn(o) \/ UncountSold(o)
      PROVE  Goal
  <2>1. CASE CommitReserved(o)
    BY <1>1, <2>1 DEF CommitReserved, Asked, limitVars
  <2>2. CASE CommitGoesOn(o)
    BY <1>1, <2>2 DEF CommitGoesOn, limitVars
  <2>3. CASE UncountSold(o)
    <3>1. BuyerOf[o] \in Identities
      BY CheckoutAssumption, ReservationsAssumption
    <3> QED BY <1>1, <1>2, <2>3, <3>1 DEF UncountSold
  <2> QED BY <1>4, <2>1, <2>2, <2>3
<1>5. ASSUME NEW r \in Requests, DirectCall(r) PROVE Goal
  BY <1>1, <1>5 DEF DirectCall, Asked, limitVars
<1>6. ASSUME NEW i \in Identities, CountLapses(i) \/ MarkLapses(i) PROVE Goal
  BY <1>1, <1>6 DEF CountLapses, MarkLapses
<1>7. CASE Elsewhere \/ UNCHANGED vars
  BY <1>1, <1>7 DEF Elsewhere, vars, resvVars, limitVars
<1> QED
  BY <1>3, <1>4, <1>5, <1>6, <1>7 DEF ReservationsNext, ReservationAction

\* Every step keeps the types of the reservations.
LEMMA ReservationsKeepTypes ==
  ASSUME ReservationsInv, [ReservationsNext]_vars PROVE ReservationsTypeOK'
<1>1. CheckoutTypeOK'
  BY ReservationsKeepSale DEF SaleInv
<1>2. resv' \in [Reservations -> ReservationType]
  <2>1. CASE UNCHANGED resv
    BY <2>1 DEF ReservationsInv, ReservationsTypeOK
  <2> QED
    BY <2>1, ReservationEffect, OthersLeaveReservations
    DEF ReservationsNext, ReservationAction, OtherAction, vars, resvVars
<1> QED BY <1>1, <1>2, LimitsKeepTypes DEF ReservationsTypeOK

\* A step of a call leaves the other calls alone, and gives seats to nobody but its
\* holder.
LEMMA CallLeavesOthers ==
  ASSUME HoldsTypeOK, NEW r \in Requests, HoldStep(r),
         NEW h \in Holders, h # HolderOfRequest(r)
  PROVE  /\ \A t \in Requests : HolderOfRequest(t) = h => req'[t] = req[t]
         /\ \A s \in Seats : hold'[s] = h => hold[s] = h
<1>1. h # NoHolder
  BY HoldsAssumption
<1>2. CASE HoldCallStep(r)
  BY <1>1, <1>2, CallStepEffect, CallStepSeats
<1>3. CASE CrashRequest(r)
  BY <1>3 DEF CrashRequest, Answer, HoldsTypeOK
<1> QED BY <1>2, <1>3 DEF HoldStep

\* Nothing is asked for again.
LEMMA NothingIsAskedAgain == ASSUME [ReservationsNext]_vars PROVE made' \subseteq made
BY DEF ReservationsNext, vars, resvVars, Create, ReservationGoesOn, BeginCall,
       ServeCall, ReleaseHeld, UntrackHeld, AddToCount, RefreshCount, CompareCount,
       UncountHeld, MarkAddress, Summarize, UnmarkAddress, CoolAddress, CallThrows,
       RedisFails, Cancel, ReservationDies, CommitReserved, CommitGoesOn, UncountSold, DirectCall, CountLapses, MarkLapses,
       Elsewhere, Asked

\* A reservation that is left alone keeps what is said of it.
LEMMA UntouchedReservation ==
  ASSUME ReservationsInv, NEW w \in Reservations,
         resv'[w] = resv[w], made' \subseteq made,
         \A r \in Requests : HolderOfRequest(r) = w => req'[r] = req[r],
         \A s \in Seats : hold'[s] = w => hold[s] = w
  PROVE  KeepsToItsCalls(w)' /\ HoldsWhatItKnows(w)'
<1>1. KeepsToItsCalls(w) /\ HoldsWhatItKnows(w)
  BY DEF ReservationsInv
<1>2. /\ NextCall(w)' = NextCall(w) /\ NextCall(w) \in Requests
      /\ HolderOfRequest(NextCall(w)) = w
      /\ req'[NextCall(w)] = req[NextCall(w)]
  BY <1>1, NextCallFacts DEF KeepsToItsCalls, NextCall
<1>3. KeepsToItsCalls(w)'
  BY <1>1, <1>2
  DEF KeepsToItsCalls, ReservationAt, At, HolderOfRequest, limitApplies, Who
<1>4. Taken(w)' = Taken(w) /\ HeldBy(w)' \subseteq HeldBy(w)
  BY <1>2 DEF Taken, ReservationAt, Works, HeldBy
<1>5. HoldsWhatItKnows(w)'
  BY <1>1, <1>2, <1>4 DEF HoldsWhatItKnows, ReservationAt, At, HeldBy,
     ReservationsInv, ReservationsTypeOK, CheckoutTypeOK, HoldsTypeOK
<1> QED BY <1>3, <1>5

\* What no step of somebody else does to a reservation: it leaves its requests
\* alone, and gives it no seats.
Leaves(w) ==
  /\ resv'[w] = resv[w]
  /\ \A r \in Requests : HolderOfRequest(r) = w => req'[r] = req[r]
  /\ \A s \in Seats : hold'[s] = w => hold[s] = w

\* The steps of one reservation leave the others alone.
LEMMA OneReservationMoves ==
  ASSUME ReservationsInv, NEW v \in Reservations, ReservationAction(v),
         NEW w \in Reservations, w # v
  PROVE  Leaves(w)
<1>1. /\ HoldsTypeOK /\ w \in Holders /\ w # NoHolder
      /\ NextCall(v) \in Requests /\ HolderOfRequest(NextCall(v)) = v
      /\ resv'[w] = resv[w]
  BY NextCallFacts, ReservationEffect, HoldsAssumption, ReservationsAssumption
  DEF ReservationsInv, KeepsToItsCalls, ReservationsTypeOK, CheckoutTypeOK
<1>2. CASE UNCHANGED <<hold, req>>
  BY <1>1, <1>2 DEF Leaves
<1>3. CASE HoldStep(NextCall(v))
  BY <1>1, <1>3, CallLeavesOthers DEF Leaves
<1>4. CASE ReleaseHeld(v)
  BY <1>1, <1>4 DEF ReleaseHeld, ReleaseScript, Leaves
<1>5. CASE ReservationDies(v)
  BY <1>1, <1>5 DEF ReservationDies, HoldsTypeOK, Leaves
<1>6. CASE BeginCall(v)
  <2>1. CASE BeginHold(NextCall(v)) \/ BeginHoldByQuantity(NextCall(v))
    BY <1>3, <2>1 DEF HoldStep, HoldCallStep
  <2>2. CASE UNCHANGED holdVars
    BY <1>2, <2>2 DEF holdVars
  <2> QED BY <1>6, <2>1, <2>2 DEF BeginCall
<1>7. CASE ServeCall(v)
  BY <1>3, <1>7 DEF ServeCall, HoldStep, HoldCallStep
<1>8. CASE UntrackHeld(v)
  BY <1>2, <1>8 DEF UntrackHeld
<1>9. CASE CallThrows(v)
  BY <1>3, <1>9 DEF CallThrows, HoldStep
<1> QED
  BY <1>2, <1>4, <1>5, <1>6, <1>7, <1>8, <1>9
  DEF ReservationAction, ReservationGoesOn, Create, AddToCount, RefreshCount,
      CompareCount, UncountHeld, MarkAddress, Summarize, UnmarkAddress, CoolAddress,
      RedisFails, Cancel, allCheckoutVars, holdVars

\* A commit takes no hold for a reservation, and runs none of its requests.
LEMMA CommitLeavesReservations ==
  ASSUME HoldsTypeOK, NEW w \in Holders, NEW o \in Orders,
         SaleStep(o) \/ PaymentStep(o)
  PROVE  /\ UNCHANGED req
         /\ \A s \in Seats : hold'[s] = w => hold[s] = w
<1>1. w # NoHolder
  BY HoldsAssumption
<1>2. CASE DropOwnHolds(o)
  BY <1>1, <1>2 DEF DropOwnHolds, SetHolds
<1>3. CASE UNCHANGED <<hold, req>>
  BY <1>3
<1> QED
  BY <1>2, <1>3
  DEF SaleStep, CommitStepOf, BeginCommit, CheckHolds, CheckEvent, CommitTx,
      ReadOwnHolds, UntrackOwnHolds, CrashCommit, Lapse, Sweep, PaymentStep, holdVars

\* The steps that are not of a reservation leave them all alone.
LEMMA OthersLeave ==
  ASSUME ReservationsInv, OtherAction, NEW w \in Reservations
  PROVE  Leaves(w)
<1>1. /\ HoldsTypeOK /\ w \in Holders /\ w # NoHolder /\ resv'[w] = resv[w]
  BY OthersLeaveReservations, HoldsAssumption, ReservationsAssumption
  DEF ReservationsInv, ReservationsTypeOK, CheckoutTypeOK
<1>2. CASE UNCHANGED <<hold, req>>
  BY <1>1, <1>2 DEF Leaves
<1>3. ASSUME NEW o \in Orders, SaleStep(o) PROVE Leaves(w)
  BY <1>1, <1>3, CommitLeavesReservations DEF Leaves
<1>4. ASSUME NEW r \in Requests, DirectCall(r) PROVE Leaves(w)
  BY <1>1, <1>4, CallLeavesOthers DEF DirectCall, Direct, Leaves
<1>5. ASSUME NEW o \in Orders, CommitReserved(o) \/ CommitGoesOn(o) \/ UncountSold(o)
      PROVE  Leaves(w)
  BY <1>2, <1>3, <1>5
  DEF CommitReserved, CommitGoesOn, UncountSold, SaleStep, CommitStepOf,
      allCheckoutVars, holdVars
<1>6. CASE Elsewhere
  <2>1. ASSUME NEW s \in Seats, HoldLapses(s) PROVE Leaves(w)
    BY <1>1, <2>1 DEF HoldLapses, Leaves, HoldsTypeOK
  <2>2. ASSUME NEW h \in Holders, OwnerSetLapses(h) PROVE Leaves(w)
    BY <1>2, <2>2 DEF OwnerSetLapses
  <2>3. CASE SetStatus
    BY <1>2, <2>3 DEF SetStatus, holdVars
  <2> QED
    BY <1>3, <1>6, <2>1, <2>2, <2>3 DEF Elsewhere, SaleStep, CommitStepOf
<1>7. ASSUME NEW i \in Identities, CountLapses(i) \/ MarkLapses(i) PROVE Leaves(w)
  BY <1>2, <1>7 DEF CountLapses, MarkLapses, allCheckoutVars, holdVars
<1> QED BY <1>4, <1>5, <1>6, <1>7 DEF OtherAction

\* What there is to show of a reservation none of whose requests is under way.
LEMMA ReservationRests ==
  ASSUME ReservationsInv, NEW v \in Reservations, v \notin made',
         resv'[v].call \in DOMAIN CallsOf[v],
         resv'[v].at \in {"mark", "unmark", "cool"} => limitApplies(v),
         \A r \in Requests : HolderOfRequest(r) = v => req'[r].at = "idle",
         resv'[v].at # "dead" => HeldBy(v)' \subseteq resv'[v].held \cup resv'[v].kept,
         resv'[v].at \in {"untrack", "refused"} => HeldBy(v)' \subseteq resv'[v].kept
  PROVE  KeepsToItsCalls(v)' /\ HoldsWhatItKnows(v)'
<1>1. CallsOf[v] \in Seq(Requests)
  BY ReservationsAssumption
<1>2. NextCall(v)' = CallsOf[v][resv'[v].call]
  BY DEF NextCall
<1>3. NextCall(v)' \in Requests /\ HolderOfRequest(NextCall(v)') = v
  BY <1>1, <1>2, ReservationsAssumption DEF HolderOfRequest
<1>4. KeepsToItsCalls(v)'
  BY DEF KeepsToItsCalls, ReservationAt, At, HolderOfRequest, limitApplies, Who
<1>5. req'[NextCall(v)'].at = "idle"
  BY <1>3
<1>6. HoldsWhatItKnows(v)'
  BY <1>5 DEF HoldsWhatItKnows, ReservationAt, At
<1> QED BY <1>4, <1>6

\* What the invariant says of the requests and the seats of one reservation.
LEMMA ReservationFacts ==
  ASSUME ReservationsInv, NEW v \in Reservations
  PROVE  /\ HoldsTypeOK /\ v \in Holders /\ v # NoHolder
         /\ NextCall(v) \in Requests /\ HolderOfRequest(NextCall(v)) = v
         /\ RequestOf[NextCall(v)].op # "release"
         /\ \A r \in Requests : HolderOfRequest(r) = v /\ r # NextCall(v) =>
              req[r].at = "idle"
         /\ \A r \in Requests : HolderOfRequest(r) = v /\ resv[v].at # "call" =>
              req[r].at = "idle"
         /\ resv[v].at # "dead" =>
              HeldBy(v) \subseteq resv[v].held \cup resv[v].kept \cup Taken(v)
         /\ resv[v].at # "call" => Taken(v) = {}
         /\ v \in made => resv[v].at = "idle"
         /\ resv[v].held \subseteq Seats /\ resv[v].kept \subseteq Seats
         /\ resv[v].at \in ReservationStep
BY NextCallFacts
DEF ReservationsInv, KeepsToItsCalls, HoldsWhatItKnows, ReservationAt, At, Taken,
    ReservationsTypeOK, ReservationType, CheckoutTypeOK

\* A reservation that only moves on, with no request under way, keeps what is said
\* of it.
LEMMA ReservationMovesOn ==
  ASSUME ReservationsInv, NEW v \in Reservations, ReservationAction(v),
         made' \subseteq made, v \notin made',
         NEW step \in ReservationStep, ReservationTo(v, step),
         resv[v].at # "dead",
         resv[v].at = "call" => req[NextCall(v)].at = "idle",
         step \in {"untrack", "refused"} => HeldBy(v) \subseteq resv[v].kept,
         UNCHANGED <<hold, req>>
  PROVE  KeepsToItsCalls(v)' /\ HoldsWhatItKnows(v)'
<1>1. Taken(v) = {}
  BY ReservationFacts DEF Taken, Works
<1>2. resv'[v].at = step /\ resv'[v].held = resv[v].held /\ resv'[v].kept = resv[v].kept
  BY DEF ReservationTo, ReservationsInv, ReservationsTypeOK, ReservationType
<1>3. HeldBy(v)' = HeldBy(v)
  BY DEF HeldBy
<1>4. \A r \in Requests : HolderOfRequest(r) = v => req'[r].at = "idle"
  BY ReservationFacts
<1> QED
  BY <1>1, <1>2, <1>3, <1>4, ReservationFacts, ReservationRests, ReservationEffect

\* The steps of the call it is at.
LEMMA ServingKeepsReservation ==
  ASSUME ReservationsInv, NEW v \in Reservations, ServeCall(v), made' \subseteq made
  PROVE  KeepsToItsCalls(v)' /\ HoldsWhatItKnows(v)'
<1> DEFINE r == NextCall(v)
<1>1. /\ HoldsTypeOK /\ v \in Holders /\ v # NoHolder
      /\ r \in Requests /\ HolderOfRequest(r) = v /\ RequestOf[r].op # "release"
      /\ \A t \in Requests : HolderOfRequest(t) = v /\ t # r => req[t].at = "idle"
      /\ resv[v].at = "call" /\ req[r].at # "idle"
      /\ HeldBy(v) \subseteq resv[v].held \cup resv[v].kept \cup Taken(v)
      /\ v \notin made'
  BY ReservationFacts, ServeCallEffect DEF At
<1>2. HoldCallStep(r)
  BY ServeCallEffect DEF CallGoesOn, HoldCallStep
<1>3. \A t \in Requests : HolderOfRequest(t) = v /\ t # r => req'[t].at = "idle"
  BY <1>1, <1>2, CallStepEffect
<1>4. /\ resv \in [Reservations -> ReservationType]
      /\ KeepsToItsCalls(v) /\ HoldsWhatItKnows(v)
  BY DEF ReservationsInv, ReservationsTypeOK
<1>5. ReservationAction(v)
  BY DEF ReservationAction, ReservationGoesOn
<1> HIDE DEF r
<1>9. \/ req[r].at = "take" /\ req'[r].at \in {"sadd", "idle"}
         /\ (req'[r].at = "idle" => UNCHANGED hold)
      \/ req'[r].at \in {"expire", "scard", "rollback"} /\ req'[r].got = req[r].got
      \/ req[r].at = "rollback" /\ req'[r].at = "srem" /\ req'[r].got = req[r].got
         /\ Release(r)
      \/ req[r].at = "scard" /\ req'[r].at = "idle" /\ UNCHANGED hold
      \/ req[r].at = "srem" /\ req'[r].at = "idle" /\ UNCHANGED hold
  <2>1. CASE CountOwnerSet(r) /\ req'[r] = IdleRequest
    BY <2>1 DEF CountOwnerSet, At, IdleRequest
  <2>2. CASE Untrack(r) /\ req[r].at = "srem" /\ req'[r] = IdleRequest
    BY <2>2 DEF Untrack, IdleRequest
  <2>3. CASE \/ req'[r] = [at |-> "expire", got |-> req[r].got]
             \/ req'[r] = [at |-> "scard", got |-> req[r].got]
             \/ req'[r] = [at |-> "rollback", got |-> req[r].got]
    BY <2>3
  <2>4. CASE /\ Release(r) /\ req[r].at \in {"idle", "rollback"} /\ req'[r].at = "srem"
             /\ (req[r].at = "rollback" => req'[r].got = req[r].got)
    BY <1>1, <2>4
  <2>5. \/ req[r].at = "idle"
        \/ req[r].at = "take" /\ req'[r].at \in {"sadd", "idle"}
           /\ (req'[r].at = "idle" => UNCHANGED hold)
        \/ req'[r] = [at |-> "expire", got |-> req[r].got]
        \/ req'[r] = [at |-> "scard", got |-> req[r].got]
        \/ req'[r] = [at |-> "rollback", got |-> req[r].got]
        \/ CountOwnerSet(r) /\ req'[r] = IdleRequest
        \/ /\ Release(r) /\ req[r].at \in {"idle", "rollback"} /\ req'[r].at = "srem"
           /\ (req[r].at = "rollback" => req'[r].got = req[r].got)
        \/ Untrack(r) /\ req[r].at = "srem" /\ req'[r] = IdleRequest
    BY <1>1, <1>2, CallStepEffect
  <2> QED BY <1>1, <2>1, <2>2, <2>3, <2>4, <2>5
<1>6. CASE UNCHANGED resv /\ req'[r].at # "idle"
  <2>1. NextCall(v)' = r /\ resv'[v] = resv[v]
    BY <1>6 DEF NextCall, r
  <2>2. KeepsToItsCalls(v)'
    BY <1>1, <1>3, <1>4, <2>1
    DEF KeepsToItsCalls, ReservationAt, At, HolderOfRequest, limitApplies, Who
  <2>3. /\ req'[r].at \notin {"idle", "take"}
        /\ req[r].at # "take" => req'[r].got = req[r].got
        /\ req'[r].at = "srem" => Release(r)
    BY <1>6, <1>9
  <2>4. Taken(v) \subseteq req'[r].got
    BY <1>1, <2>3 DEF Taken, Works, ReservationAt, r
  <2>5. Taken(v)' = req'[r].got
    BY <1>1, <2>1, <2>3 DEF Taken, Works, ReservationAt
  <2>6. HeldBy(v)' \subseteq HeldBy(v) \cup req'[r].got
    BY <1>1, <1>2, CallStepSeats DEF HeldBy
  <2>7. req'[r].at = "srem" => \A s \in req'[r].got : hold'[s] # v
    BY <1>1, <1>2, <2>3, CallStepSeats
  <2>8. HoldsWhatItKnows(v)'
    BY <1>1, <2>1, <2>4, <2>5, <2>6, <2>7 DEF HoldsWhatItKnows, ReservationAt, At
  <2> QED BY <2>2, <2>8
<1>7. CASE /\ At(r, "scard") /\ req'[r].at = "idle"
           /\ resv' = [resv EXCEPT
                ![v].held = @ \cup req[r].got,
                ![v].call = IF resv[v].call = Len(CallsOf[v]) THEN @ ELSE @ + 1,
                ![v].at = IF resv[v].call = Len(CallsOf[v]) THEN "sadd" ELSE @]
  <2>1. UNCHANGED hold
    BY <1>7, <1>9 DEF At
  <2>2. Taken(v) = req[r].got
    BY <1>1, <1>7 DEF Taken, Works, ReservationAt, At, r
  <2>3. /\ resv'[v].held = resv[v].held \cup req[r].got
        /\ resv'[v].at \in {"call", "sadd"} /\ resv'[v].kept = resv[v].kept
    BY <1>1, <1>4, <1>7 DEF ReservationType
  <2>4. HeldBy(v)' = HeldBy(v)
    BY <2>1 DEF HeldBy
  <2>5. \A t \in Requests : HolderOfRequest(t) = v => req'[t].at = "idle"
    BY <1>3, <1>7
  <2>6. HeldBy(v)' \subseteq resv'[v].held \cup resv'[v].kept
    BY <1>1, <2>2, <2>3, <2>4
  <2> QED
    BY <1>1, <1>5, <2>3, <2>5, <2>6, ReservationRests, ReservationEffect
<1>8. CASE Fails(v) /\ ~At(r, "scard") /\ req'[r].at = "idle"
  <2>1. UNCHANGED hold /\ req[r].at \in {"take", "srem"}
    BY <1>8, <1>9 DEF At
  <2>2. Taken(v) \cap HeldBy(v) = {}
    BY <1>4, <2>1 DEF Taken, Works, HoldsWhatItKnows, ReservationAt, At, HeldBy, r
  <2>3. HeldBy(v)' = HeldBy(v)
    BY <2>1 DEF HeldBy
  <2>4. /\ resv'[v].held = resv[v].held /\ resv'[v].kept = resv[v].kept
        /\ resv'[v].at = IF resv[v].held = {} THEN "refused" ELSE "undo"
    BY <1>4, <1>8 DEF Fails, AfterFailure, ReservationTo, ReservationType
  <2>5. \A t \in Requests : HolderOfRequest(t) = v => req'[t].at = "idle"
    BY <1>3, <1>8
  <2>6. /\ HeldBy(v)' \subseteq resv'[v].held \cup resv'[v].kept
        /\ resv'[v].at \in {"untrack", "refused"} => HeldBy(v)' \subseteq resv'[v].kept
    BY <1>1, <2>2, <2>3, <2>4
  <2> QED
    BY <1>1, <1>5, <2>5, <2>6, ReservationRests, ReservationEffect
<1> QED BY <1>6, <1>7, <1>8, ServeCallEffect DEF r

\* A call begins, or is refused by the database.
LEMMA BeginningKeepsReservation ==
  ASSUME ReservationsInv, NEW v \in Reservations, BeginCall(v), made' \subseteq made
  PROVE  KeepsToItsCalls(v)' /\ HoldsWhatItKnows(v)'
<1> DEFINE r == NextCall(v)
<1>1. /\ HoldsTypeOK /\ r \in Requests /\ HolderOfRequest(r) = v
      /\ \A t \in Requests : HolderOfRequest(t) = v /\ t # r => req[t].at = "idle"
      /\ resv[v].at = "call" /\ req[r].at = "idle"
      /\ HeldBy(v) \subseteq resv[v].held \cup resv[v].kept \cup Taken(v)
      /\ v \notin made' /\ ReservationAction(v)
      /\ KeepsToItsCalls(v) /\ resv[v].held \subseteq Seats
  BY ReservationFacts
  DEF BeginCall, At, ReservationAt, ReservationAction, ReservationGoesOn, ReservationsInv
<1>2. Taken(v) = {}
  BY <1>1 DEF Taken, Works
<1> HIDE DEF r
<1>3. CASE (BeginHold(r) \/ BeginHoldByQuantity(r)) /\ UNCHANGED resv
  <2>1. HoldCallStep(r)
    BY <1>3 DEF HoldCallStep
  <2>2. /\ req'[r].at = "take" /\ UNCHANGED hold
        /\ \A t \in Requests : HolderOfRequest(t) = v /\ t # r => req'[t].at = "idle"
    BY <1>1, <1>3, <2>1, CallStepEffect DEF BeginHold, BeginHoldByQuantity, HoldsTypeOK
  <2>3. NextCall(v)' = r /\ resv'[v] = resv[v] /\ HeldBy(v)' = HeldBy(v)
    BY <1>3, <2>2 DEF NextCall, HeldBy, r
  <2>4. KeepsToItsCalls(v)'
    BY <1>1, <2>2, <2>3
    DEF KeepsToItsCalls, ReservationAt, At, HolderOfRequest, limitApplies, Who
  <2>5. HoldsWhatItKnows(v)'
    BY <1>1, <1>2, <2>2, <2>3 DEF HoldsWhatItKnows, ReservationAt, At
  <2> QED BY <2>4, <2>5
<1>4. CASE Fails(v) /\ UNCHANGED holdVars
  <2>1. PICK step \in {"refused", "undo"} :
          ReservationTo(v, step) /\ (step = "refused" => resv[v].held = {})
    BY <1>4 DEF Fails, AfterFailure
  <2>2. step \in ReservationStep /\ UNCHANGED <<hold, req>>
        /\ (step = "refused" => HeldBy(v) \subseteq resv[v].kept)
    BY <1>1, <1>2, <1>4, <2>1 DEF ReservationStep, holdVars
  <2> QED BY <1>1, <2>1, <2>2, ReservationMovesOn DEF r
<1> QED BY <1>3, <1>4 DEF BeginCall, r

\* Every step of a reservation keeps what is said of it.
LEMMA ActingKeepsReservation ==
  ASSUME ReservationsInv, NEW v \in Reservations, ReservationAction(v),
         made' \subseteq made
  PROVE  KeepsToItsCalls(v)' /\ HoldsWhatItKnows(v)'
<1>1. /\ HoldsTypeOK /\ v \in Holders /\ v # NoHolder
      /\ \A t \in Requests : HolderOfRequest(t) = v /\ resv[v].at # "call" =>
           req[t].at = "idle"
      /\ resv[v].at # "dead" =>
           HeldBy(v) \subseteq resv[v].held \cup resv[v].kept \cup Taken(v)
      /\ resv[v].at # "call" => Taken(v) = {}
      /\ v \in made => resv[v].at = "idle"
  BY ReservationFacts
<1>2. ASSUME NEW step \in ReservationStep \ {"untrack", "refused"},
             ReservationTo(v, step), UNCHANGED <<hold, req>>,
             resv[v].at \notin {"idle", "call", "dead"}
      PROVE  KeepsToItsCalls(v)' /\ HoldsWhatItKnows(v)'
  BY <1>1, <1>2, ReservationMovesOn
<1>3. CASE Create(v)
  <2>1. v \in made /\ v \notin made'
    BY <1>3 DEF Create, Asked
  <2> QED
    BY <1>1, <1>3, <2>1, ReservationMovesOn
    DEF Create, allCheckoutVars, holdVars, ReservationStep
<1>4. CASE BeginCall(v) \/ ServeCall(v)
  BY <1>4, BeginningKeepsReservation, ServingKeepsReservation
<1>5. CASE ReleaseHeld(v)
  <2>1. /\ resv'[v].held = resv[v].held /\ resv'[v].kept = resv[v].kept
        /\ resv'[v].at \in {"untrack", "untrackFree"}
        /\ resv[v].at \in {"undo", "free"} /\ UNCHANGED req
    BY <1>5
    DEF ReleaseHeld, ReservationAt, ReservationTo, ReservationsInv, ReservationsTypeOK,
        ReservationType
  <2>2. HeldBy(v)' \subseteq resv[v].kept
    BY <1>1, <1>5, <2>1 DEF ReleaseHeld, ReleaseScript, HeldBy
  <2> QED BY <1>1, <2>1, <2>2, ReservationRests, ReservationEffect
<1>6. CASE UntrackHeld(v)
  <2>1. UNCHANGED <<hold, req>>
    BY <1>6 DEF UntrackHeld
  <2>2. CASE ReservationAt(v, "untrack") /\ ReservationTo(v, "refused")
    <3>1. HeldBy(v) \subseteq resv[v].kept
      BY <2>2 DEF ReservationsInv, HoldsWhatItKnows, ReservationAt
    <3> QED
      BY <1>1, <2>1, <2>2, <3>1, ReservationMovesOn DEF ReservationAt, ReservationStep
  <2>3. CASE ReservationAt(v, "untrackFree") /\ ReservationTo(v, "uncount")
    BY <1>2, <2>1, <2>3 DEF ReservationAt, ReservationStep
  <2> QED BY <1>6, <2>2, <2>3 DEF UntrackHeld
<1>7. CASE ReservationDies(v)
  <2>1. UNCHANGED hold /\ resv[v].at \notin {"idle", "dead"}
        /\ req' = [req EXCEPT ![NextCall(v)] = IdleRequest]
    BY <1>7 DEF ReservationDies
  <2>2. /\ resv'[v].held = resv[v].held /\ resv'[v].kept = resv[v].kept
        /\ resv'[v].at = IF resv[v].at \in Cancelling THEN "cancelled" ELSE "dead"
    BY <1>7
    DEF ReservationDies, ReservationTo, ReservationsInv, ReservationsTypeOK,
        ReservationType
  <2>3. \A t \in Requests : HolderOfRequest(t) = v => req'[t].at = "idle"
    BY <1>1, <2>1, ReservationFacts DEF HoldsTypeOK, IdleRequest
  <2>4. resv'[v].at # "dead" => HeldBy(v)' \subseteq resv'[v].held \cup resv'[v].kept
    BY <1>1, <2>1, <2>2 DEF Cancelling, HeldBy
  <2> QED BY <1>1, <2>1, <2>2, <2>3, <2>4, ReservationRests, ReservationEffect
<1>8. CASE AddToCount(v) \/ RefreshCount(v) \/ CompareCount(v) \/ UncountHeld(v)
  <2>1. PICK step \in {"expire", "scard", "over", "mark", "summary", "undo", "unmark",
                       "cancelled"} : ReservationTo(v, step)
    BY <1>8 DEF AddToCount, RefreshCount, CompareCount, UncountHeld, Counted
  <2>2. /\ UNCHANGED <<hold, req>>
        /\ resv[v].at \notin {"idle", "call", "dead"}
    BY <1>8
    DEF AddToCount, RefreshCount, CompareCount, UncountHeld, ReservationAt,
        allCheckoutVars, holdVars
  <2> QED BY <1>2, <2>1, <2>2 DEF ReservationStep
<1>9. CASE \/ MarkAddress(v) \/ Summarize(v) \/ UnmarkAddress(v) \/ CoolAddress(v)
           \/ Cancel(v)
  <2>1. PICK step \in {"summary", "token", "lost", "cool", "cancelled", "free"} :
          ReservationTo(v, step)
    BY <1>9 DEF MarkAddress, Summarize, UnmarkAddress, CoolAddress, Cancel
  <2>2. /\ UNCHANGED <<hold, req>>
        /\ resv[v].at \notin {"idle", "call", "dead"}
    BY <1>9
    DEF MarkAddress, Summarize, UnmarkAddress, CoolAddress, Cancel, ReservationAt,
        allCheckoutVars, holdVars
  <2> QED BY <1>2, <2>1, <2>2 DEF ReservationStep
<1>10. resv[v] \in ReservationType
  BY DEF ReservationsInv, ReservationsTypeOK
<1>11. CASE CallThrows(v)
  <2> DEFINE r == NextCall(v)
  <2>1. /\ r \in Requests /\ HolderOfRequest(r) = v /\ UNCHANGED hold
        /\ \A t \in Requests : HolderOfRequest(t) = v /\ t # r => req[t].at = "idle"
        /\ req' = [req EXCEPT ![r] = IdleRequest] /\ resv[v].at = "call"
    BY <1>11, ReservationFacts DEF CallThrows, CrashRequest, Answer, ReservationAt
  <2>2. /\ resv'[v].at = AfterFailure(v) /\ resv'[v].held = resv[v].held
        /\ resv'[v].kept =
             resv[v].kept \cup ((HeldBy(v) \cap req[r].got) \ resv[v].held)
    BY <1>11 DEF CallThrows, ReservationsInv, ReservationsTypeOK, ReservationType
  <2>3. \A t \in Requests : HolderOfRequest(t) = v => req'[t].at = "idle"
    BY <1>1, <2>1 DEF HoldsTypeOK, IdleRequest
  <2>4. Taken(v) \subseteq req[r].got /\ HeldBy(v)' = HeldBy(v)
    BY <2>1 DEF Taken, HeldBy
  <2>5. /\ HeldBy(v)' \subseteq resv'[v].held \cup resv'[v].kept
        /\ resv'[v].at \in {"untrack", "refused"} => HeldBy(v)' \subseteq resv'[v].kept
    BY <1>1, <2>1, <2>2, <2>4 DEF AfterFailure
  <2>6. v \notin made'
    BY <1>1, <2>1
  <2> QED BY <2>3, <2>5, <2>6, <1>1, <2>1, ReservationRests, ReservationEffect
<1>12. CASE RedisFails(v)
  <2>1. /\ resv[v].at \in {"sadd", "expire", "scard", "over", "undo", "untrack", "mark"}
                           \cup Cancelling
        /\ UNCHANGED <<hold, req>>
    BY <1>12 DEF RedisFails, allCheckoutVars, holdVars
  <2>2. /\ resv'[v].at = AfterError(v) /\ resv'[v].held = resv[v].held
        /\ resv'[v].kept =
             resv[v].kept \cup HeldAt(v, {"sadd", "expire", "scard", "undo"})
    BY <1>10, <1>12
    DEF RedisFails, FailedOver, ReservationsInv, ReservationsTypeOK, ReservationType
  <2>3. /\ resv[v].at \notin {"idle", "call", "dead"} /\ HeldBy(v)' = HeldBy(v)
        /\ HeldBy(v) \subseteq resv[v].held \cup resv[v].kept
    BY <1>1, <2>1 DEF Cancelling, HeldBy
  <2>4. resv[v].at = "untrack" => HeldBy(v) \subseteq resv[v].kept
    BY DEF ReservationsInv, HoldsWhatItKnows
  <2>5. AfterError(v) # "untrack" /\
        (AfterError(v) = "refused" =>
           resv[v].at \in {"sadd", "expire", "scard", "undo", "untrack"})
    BY DEF AfterError
  <2>6. /\ HeldBy(v)' \subseteq resv'[v].held \cup resv'[v].kept
        /\ resv'[v].at \in {"untrack", "refused"} => HeldBy(v)' \subseteq resv'[v].kept
    BY <2>2, <2>3, <2>4, <2>5 DEF HeldAt
  <2>7. \A t \in Requests : HolderOfRequest(t) = v => req'[t].at = "idle"
    BY <1>1, <2>1, <2>3
  <2> QED BY <1>1, <2>3, <2>6, <2>7, ReservationRests, ReservationEffect
<1> QED
  BY <1>3, <1>4, <1>5, <1>6, <1>7, <1>8, <1>9, <1>11, <1>12
  DEF ReservationAction, ReservationGoesOn

\* Every step, of anybody, keeps the invariant of the reservations.
LEMMA ReservationsInvNext ==
  ReservationsInv /\ [ReservationsNext]_vars => ReservationsInv'
<1> SUFFICES ASSUME ReservationsInv, [ReservationsNext]_vars PROVE ReservationsInv'
  OBVIOUS
<1>1. SaleInv' /\ ReservationsTypeOK' /\ made' \subseteq made
  BY ReservationsKeepSale, ReservationsKeepTypes, NothingIsAskedAgain
<1>2. ASSUME NEW w \in Reservations, Leaves(w)
      PROVE  KeepsToItsCalls(w)' /\ HoldsWhatItKnows(w)'
  BY <1>1, <1>2, UntouchedReservation DEF Leaves
<1>3. ASSUME NEW w \in Reservations, NEW v \in Reservations, ReservationAction(v)
      PROVE  KeepsToItsCalls(w)' /\ HoldsWhatItKnows(w)'
  BY <1>1, <1>2, <1>3, ActingKeepsReservation, OneReservationMoves
<1>4. ASSUME NEW w \in Reservations, UNCHANGED vars PROVE Leaves(w)
  BY <1>4 DEF Leaves, vars, allCheckoutVars, holdVars, resvVars
<1>5. ASSUME NEW w \in Reservations
      PROVE  KeepsToItsCalls(w)' /\ HoldsWhatItKnows(w)'
  <2>1. \/ \E v \in Reservations : ReservationAction(v)
        \/ OtherAction \/ UNCHANGED vars
    BY DEF ReservationsNext, ReservationAction, OtherAction
  <2> QED BY <1>2, <1>3, <1>4, <2>1, OthersLeave
<1> QED BY <1>1, <1>5 DEF ReservationsInv

\* It holds at the start, whatever is still to be asked for.
LEMMA ReservationsInvInit ==
  ASSUME NEW asked \in SUBSET (Reservations \cup Orders \cup Requests),
         ReservationsStart(asked)
  PROVE  ReservationsInv
<1>1. SaleInv
  BY SaleInvInit DEF ReservationsStart
<1>2. ReservationsTypeOK
  BY <1>1
  DEF SaleInv, ReservationsStart, ReservationsTypeOK, ReservationType, ReservationStep,
      NewReservation
<1>3. ASSUME NEW v \in Reservations PROVE KeepsToItsCalls(v) /\ HoldsWhatItKnows(v)
  <2>1. /\ resv[v] = NewReservation
        /\ \A r \in Requests : req[r].at = "idle"
        /\ \A s \in Seats : hold[s] # v
    BY HoldsAssumption, ReservationsAssumption
    DEF ReservationsStart, CheckoutInit, HoldsInit, IdleRequest
  <2>2. 1 \in DOMAIN CallsOf[v]
    BY ReservationsAssumption
  <2>3. KeepsToItsCalls(v)
    BY <2>1, <2>2 DEF KeepsToItsCalls, ReservationAt, At, NewReservation
  <2>4. HoldsWhatItKnows(v)
    BY <2>1 DEF HoldsWhatItKnows, ReservationAt, HeldBy, NewReservation
  <2> QED BY <2>3, <2>4
<1> QED BY <1>1, <1>2, <1>3 DEF ReservationsInv

\* The inductive invariant of the reservations: it holds in every behaviour.
THEOREM ReservationsInvariant == ReservationsSpec => []ReservationsInv
<1>1. ReservationsStart(Reservations \cup Orders \cup Requests) => ReservationsInv
  BY ReservationsInvInit
<1> QED BY <1>1, ReservationsInvNext, PTL DEF ReservationsSpec

\* Every variable of the reservations, the holds and the checkout under them keeps
\* its type.
THEOREM ReservationsTypes == ReservationsSpec => []ReservationsTypeOK
<1>1. ReservationsInv => ReservationsTypeOK
  BY DEF ReservationsInv
<1> QED BY <1>1, ReservationsInvariant, PTL

\* A reservation that was refused, by the database, by a seat that is taken or by a
\* cap, holds nothing once its refusal is answered, but what an error of Redis left
\* held: in the call that failed, in the count or in the roll-back itself.
THEOREM RefusedReservationsRollBack == ReservationsSpec => []RefusalsRollBack
<1>1. ReservationsInv => RefusalsRollBack
  BY DEF ReservationsInv, HoldsWhatItKnows, ReservationAt, RefusalsRollBack
<1> QED BY <1>1, ReservationsInvariant, PTL

-----------------------------------------------------------------------------
(* The holds, and the sale, with reservations.                             *)

\* A step of a call ends no hold but those of its holder.
LEMMA CallEndsItsOwn ==
  ASSUME HoldsTypeOK, NEW r \in Requests, HoldStep(r),
         NEW s \in Seats, hold[s] \notin {NoHolder, HolderOfRequest(r)}
  PROVE  hold'[s] = hold[s]
<1>1. CASE Take(r)
  <2>1. Free(req[r].got) = req[r].got => s \notin req[r].got
    BY DEF Free
  <2> QED BY <1>1, <2>1 DEF Take, SetHolds
<1>2. CASE TakeByQuantity(r)
  <2>1. CASE UNCHANGED hold
    BY <2>1
  <2>2. CASE \E S \in SUBSET Free(req[r].got) : SetHolds(S, HolderOfRequest(r))
    <3>1. PICK S \in SUBSET Free(req[r].got) : SetHolds(S, HolderOfRequest(r))
      BY <2>2
    <3> QED BY <3>1 DEF SetHolds, Free
  <2> QED BY <1>2, <2>1, <2>2 DEF TakeByQuantity
<1>3. CASE Release(r)
  BY <1>3 DEF Release, ReleaseScript
<1>4. CASE UNCHANGED hold
  BY <1>4
<1> QED
  BY <1>1, <1>2, <1>3, <1>4
  DEF HoldStep, HoldCallStep, BeginHold, BeginHoldByQuantity, AddToOwnerSet,
      RefreshOwnerSet, CountOwnerSet, Untrack, CrashRequest

\* A step of a reservation moves no request but its own, and ends no hold but its
\* own.
LEMMA ReservationEndsItsOwn ==
  ASSUME ReservationsInv, NEW v \in Reservations, ReservationAction(v)
  PROVE  /\ \A r \in Requests : req'[r] # req[r] => HolderOfRequest(r) = v
         /\ \A s \in Seats : hold[s] \notin {NoHolder, v} => hold'[s] = hold[s]
         /\ \A s \in Seats : hold[s] # NoHolder => hold'[s] \in {hold[s], NoHolder}
<1> DEFINE Goal ==
      /\ \A r \in Requests : req'[r] # req[r] => HolderOfRequest(r) = v
      /\ \A s \in Seats : hold[s] \notin {NoHolder, v} => hold'[s] = hold[s]
      /\ \A s \in Seats : hold[s] # NoHolder => hold'[s] \in {hold[s], NoHolder}
<1>1. /\ HoldsTypeOK /\ SaleInv /\ v \in Holders /\ v # NoHolder
      /\ NextCall(v) \in Requests /\ HolderOfRequest(NextCall(v)) = v
  BY ReservationFacts DEF ReservationsInv
<1>2. CASE UNCHANGED <<hold, req>>
  BY <1>2
<1>3. ASSUME HoldStep(NextCall(v)), UNCHANGED <<order, items, due, event, commit>>
      PROVE  Goal
  <2>1. CheckoutNext
    BY <1>1, <1>3 DEF CheckoutNext, CheckoutStep, HoldsNext
  <2>2. \A s \in Seats : hold[s] # NoHolder => hold'[s] \in {hold[s], NoHolder}
    BY <1>1, <2>1, NextIsNoTheft
  <2>3. \A t \in Requests : t # NextCall(v) => req'[t] = req[t]
    <3>1. CASE HoldCallStep(NextCall(v))
      BY <1>1, <3>1, CallStepEffect
    <3>2. CASE CrashRequest(NextCall(v))
      BY <1>1, <3>2 DEF CrashRequest, Answer, HoldsTypeOK
    <3> QED BY <1>3, <3>1, <3>2 DEF HoldStep
  <2> QED BY <1>1, <1>3, <2>2, <2>3, CallEndsItsOwn
<1>4. CASE ReleaseHeld(v)
  BY <1>1, <1>4 DEF ReleaseHeld, ReleaseScript
<1>5. CASE ReservationDies(v)
  BY <1>1, <1>5 DEF ReservationDies, HoldsTypeOK
<1>6. CASE BeginCall(v)
  <2>1. CASE BeginHold(NextCall(v)) \/ BeginHoldByQuantity(NextCall(v))
    BY <1>3, <1>6, <2>1 DEF HoldStep, HoldCallStep, BeginCall
  <2>2. CASE UNCHANGED holdVars
    BY <1>2, <2>2 DEF holdVars
  <2> QED BY <1>6, <2>1, <2>2 DEF BeginCall
<1>7. CASE ServeCall(v)
  BY <1>3, <1>7 DEF ServeCall, HoldStep, HoldCallStep
<1>8. CASE UntrackHeld(v)
  BY <1>2, <1>8 DEF UntrackHeld
<1>9. CASE CallThrows(v)
  BY <1>3, <1>9 DEF CallThrows, HoldStep
<1> QED
  BY <1>2, <1>4, <1>5, <1>6, <1>7, <1>8, <1>9
  DEF ReservationAction, ReservationGoesOn, Create, AddToCount, RefreshCount,
      CompareCount, UncountHeld, MarkAddress, Summarize, UnmarkAddress, CoolAddress,
      RedisFails, Cancel, allCheckoutVars, holdVars

\* What the steps that are not of a reservation do to requests and holds: a call
\* made directly moves itself and ends holds of its holder, the rest moves none.
LEMMA OthersEndTheirOwn ==
  ASSUME ReservationsInv, OtherAction
  PROVE  \/ UNCHANGED req
         \/ \E r \in Requests :
              /\ \A t \in Requests : t # r => req'[t] = req[t]
              /\ \A s \in Seats : hold[s] \notin {NoHolder, HolderOfRequest(r)} =>
                                    hold'[s] = hold[s]
<1>1. HoldsTypeOK
  BY DEF ReservationsInv, ReservationsTypeOK, CheckoutTypeOK
<1>2. ASSUME NEW r \in Requests, DirectCall(r)
      PROVE  /\ \A t \in Requests : t # r => req'[t] = req[t]
             /\ \A s \in Seats : hold[s] \notin {NoHolder, HolderOfRequest(r)} =>
                                   hold'[s] = hold[s]
  <2>1. HoldStep(r)
    BY <1>2 DEF DirectCall
  <2>2. CASE HoldCallStep(r)
    BY <1>1, <2>1, <2>2, CallStepEffect, CallEndsItsOwn
  <2>3. CASE CrashRequest(r)
    BY <1>1, <2>1, <2>3, CallEndsItsOwn DEF CrashRequest, Answer, HoldsTypeOK
  <2> QED BY <2>1, <2>2, <2>3 DEF HoldStep
<1>3. ASSUME NEW o \in Orders, CommitReserved(o) \/ CommitGoesOn(o) \/ UncountSold(o)
      PROVE  UNCHANGED req
  BY <1>3
  DEF CommitReserved, CommitGoesOn, UncountSold, BeginCommit, CheckHolds, CheckEvent,
      CommitTx, ReadOwnHolds, DropOwnHolds, UntrackOwnHolds, allCheckoutVars, holdVars
<1>4. CASE Elsewhere
  BY <1>4
  DEF Elsewhere, HoldLapses, OwnerSetLapses, CrashCommit, Lapse, Sweep, SetStatus,
      holdVars
<1>5. ASSUME NEW i \in Identities, CountLapses(i) \/ MarkLapses(i) PROVE UNCHANGED req
  BY <1>5 DEF CountLapses, MarkLapses, allCheckoutVars, holdVars
<1> QED BY <1>2, <1>3, <1>4, <1>5 DEF OtherAction

\* No call, rollback, cancellation or reservation that dies ends the hold of somebody
\* else, also when the seat it names lapsed and was taken again.
THEOREM NobodyReleasesForOthers == ReservationsSpec => OnlyTheirHolderReleases
<1>1. ASSUME ReservationsInv, [ReservationsNext]_vars,
             NEW s \in Seats, hold[s] # NoHolder, hold'[s] # hold[s]
      PROVE  /\ \A r \in Requests : req'[r] # req[r] => HolderOfRequest(r) = hold[s]
             /\ \A v \in Reservations : resv'[v] # resv[v] => v = hold[s]
  <2>1. CASE UNCHANGED vars
    BY <1>1, <2>1 DEF vars, allCheckoutVars, holdVars
  <2>2. ASSUME NEW v \in Reservations, ReservationAction(v)
        PROVE  /\ \A r \in Requests : req'[r] # req[r] => HolderOfRequest(r) = hold[s]
               /\ \A w \in Reservations : resv'[w] # resv[w] => w = hold[s]
    BY <1>1, <2>2, ReservationEndsItsOwn, ReservationEffect
  <2>3. CASE OtherAction
    BY <1>1, <2>3, OthersEndTheirOwn, OthersLeaveReservations
  <2> QED
    BY <1>1, <2>1, <2>2, <2>3 DEF ReservationsNext, ReservationAction, OtherAction
<1>2. ReservationsInv /\ [ReservationsNext]_vars =>
        [\A s \in Seats : hold[s] # NoHolder /\ hold'[s] # hold[s] =>
           /\ \A r \in Requests : req'[r] # req[r] => HolderOfRequest(r) = hold[s]
           /\ \A v \in Reservations : resv'[v] # resv[v] => v = hold[s]
        ]_<<hold, req, resv>>
  BY <1>1
<1> QED BY <1>2, ReservationsInvariant, PTL DEF ReservationsSpec, OnlyTheirHolderReleases

\* A hold never passes from one holder to another without ending in between, with
\* reservations that release, cancel and die as well.
THEOREM ReservationsStealNoHold == ReservationsSpec => HoldsAreNotStolen
<1>1. ASSUME ReservationsInv, [ReservationsNext]_vars, NEW s \in Seats, hold[s] # NoHolder
      PROVE  hold'[s] \in {hold[s], NoHolder}
  <2>1. CASE [CheckoutNext]_allCheckoutVars
    BY <1>1, <2>1, NextIsNoTheft DEF ReservationsInv, allCheckoutVars, holdVars
  <2>2. ASSUME NEW v \in Reservations,
               ReleaseHeld(v) \/ UntrackHeld(v) \/ ReservationDies(v)
        PROVE  hold'[s] \in {hold[s], NoHolder}
    BY <1>1, <2>2, ReservationEndsItsOwn DEF ReservationAction, ReservationGoesOn
  <2> QED
    BY <1>1, <2>1, <2>2, StepsOfTheCheckout DEF ReservationsInv, KeepsToItsCalls
<1>2. ReservationsInv /\ [ReservationsNext]_vars =>
        [\A s \in Seats :
           hold[s] # NoHolder => hold'[s] \in {hold[s], NoHolder}]_hold
  BY <1>1
<1> QED BY <1>2, ReservationsInvariant, PTL DEF ReservationsSpec, HoldsAreNotStolen

\* Buying what was reserved sells no seat twice, and no part of an order.
THEOREM ReservedSeatsAreSoldOnce ==
  ReservationsSpec => [](SeatsArePromisedOnce /\ OrdersAreWhole)
<1>1. ReservationsInv => SeatsArePromisedOnce /\ OrdersAreWhole
  BY DEF ReservationsInv, SaleInv, SeatsArePromisedOnce, OrdersAreWhole,
         ItemsAreDisjoint
<1> QED BY <1>1, ReservationsInvariant, PTL

\* The checkout with reservations implements the abstract sale: reserving, cancelling
\* and dying are steps that it does not see.
THEOREM ReservationsImplementSale == ReservationsSpec => ImplementsSale
<1>1. ReservationsStart(Reservations \cup Orders \cup Requests) => Sale!SaleInit
  BY DEF ReservationsStart, CheckoutInit, Sale!SaleInit, Stage, StageOf
<1>2. ReservationsInv /\ [ReservationsNext]_vars => [Sale!SaleNext]_Stage
  <2> SUFFICES ASSUME ReservationsInv, [ReservationsNext]_vars
               PROVE  [Sale!SaleNext]_Stage
    OBVIOUS
  <2>1. CASE [CheckoutNext]_allCheckoutVars
    BY <2>1, NextIsSale DEF ReservationsInv
  <2>2. ASSUME NEW v \in Reservations,
               ReleaseHeld(v) \/ UntrackHeld(v) \/ ReservationDies(v)
        PROVE  UNCHANGED Stage
    BY <2>2 DEF ReleaseHeld, UntrackHeld, ReservationDies, checkoutVars, Stage
  <2> QED BY <2>1, <2>2, StepsOfTheCheckout DEF ReservationsInv, KeepsToItsCalls
<1> QED
  BY <1>1, <1>2, ReservationsInvariant, PTL
  DEF ReservationsSpec, ImplementsSale, Sale!SaleSpec

-----------------------------------------------------------------------------
(* The cap of an identity (capReservedSeats).                              *)

\* What is counted for i, and was compared with the cap.
Compared(i) ==
  {s \in counted[i] : \A v \in Reservations : Who(v) = i => s \notin Uncompared(v)}

\* The inductive invariant of the count.
ComparedIsCapped == \A i \in Identities : Cardinality(Compared(i)) <= MaxReserved

\* The seats that are counted are finitely many.
LEMMA CountedIsFinite ==
  ASSUME ReservationsTypeOK, NEW i \in Identities, NEW S \in SUBSET counted[i]
  PROVE  IsFiniteSet(S) /\ Cardinality(S) \in Nat
<1>1. S \in SUBSET Seats
  BY DEF ReservationsTypeOK
<1> QED BY <1>1, HoldsAssumption, FS_Subset, FS_CardinalityType

\* A step that adds nothing to what was compared keeps it within the cap.
LEMMA ComparedShrinks ==
  ASSUME ReservationsTypeOK, NEW i \in Identities,
         Compared(i)' \subseteq Compared(i), Cardinality(Compared(i)) <= MaxReserved
  PROVE  Cardinality(Compared(i))' <= MaxReserved
<1>1. Compared(i) \in SUBSET counted[i]
  BY DEF Compared
<1>2. /\ IsFiniteSet(Compared(i)) /\ Cardinality(Compared(i)) \in Nat
      /\ Compared(i)' \in SUBSET counted[i]
  BY <1>1, CountedIsFinite
<1>3. /\ Cardinality(Compared(i)') <= Cardinality(Compared(i))
      /\ Cardinality(Compared(i)') \in Nat
  BY <1>2, CountedIsFinite, FS_Subset
<1> QED BY <1>2, <1>3, ReservationsAssumption

\* A seat is compared after a step only if it was before it: new seats are counted
\* by a reservation that has still to compare them, and one that ends without a
\* comparison takes its seats off.
LEMMA StepAddsNothingCompared ==
  ASSUME ReservationsInv, NEW v \in Reservations, ReservationAction(v),
         ~CompareCount(v), NEW i \in Identities
  PROVE  Compared(i)' \subseteq Compared(i)
<1> DEFINE waits == {"expire", "scard", "over", "dead"}
<1>1. /\ resv \in [Reservations -> ReservationType]
      /\ resv' \in [Reservations -> ReservationType]
      /\ \A w \in Reservations : w # v => resv'[w] = resv[w]
      /\ counted \in [Identities -> SUBSET Seats] /\ Who(v) \in Identities
  BY ReservationEffect, NextCallFacts
  DEF ReservationsInv, ReservationsTypeOK, KeepsToItsCalls
<1>2. \A w \in Reservations : Who(w)' = Who(w)
  BY DEF Who
<1>3. /\ \A w \in Reservations : w # v => Uncompared(w)' = Uncompared(w)
      /\ Uncompared(v) =
           resv[v].miscounted \cup (IF resv[v].at \in waits THEN resv[v].held ELSE {})
      /\ Uncompared(v)' =
           resv'[v].miscounted \cup (IF resv'[v].at \in waits THEN resv'[v].held ELSE {})
  BY <1>1 DEF Uncompared
<1> HIDE DEF waits
<1>4. ASSUME counted'[i] \subseteq counted[i], Uncompared(v) \subseteq Uncompared(v)'
      PROVE  Compared(i)' \subseteq Compared(i)
  BY <1>2, <1>3, <1>4 DEF Compared
<1>5. ASSUME counted'[i] \subseteq counted[i],
             resv'[v].miscounted = resv[v].miscounted,
             resv[v].at \in waits =>
               resv'[v].at \in waits /\ resv'[v].held = resv[v].held
      PROVE  Compared(i)' \subseteq Compared(i)
  BY <1>3, <1>4, <1>5
<1>6. CASE Create(v)
  <2>1. v \in made /\ UNCHANGED counted /\ resv'[v].miscounted = resv[v].miscounted
    BY <1>1, <1>6 DEF Create, Asked, limitVars, ReservationTo, ReservationType
  <2>2. resv[v].at = "idle"
    BY <2>1, ReservationFacts
  <2> QED BY <1>5, <2>1, <2>2 DEF waits
<1>7. CASE BeginCall(v) \/ ServeCall(v) \/ CallThrows(v)
  <2>1. resv[v].at = "call" /\ UNCHANGED counted
    BY <1>7 DEF BeginCall, ServeCall, CallThrows, ReservationAt, limitVars
  <2>2. CASE Fails(v) \/ UNCHANGED resv \/ CallThrows(v)
    BY <1>1, <1>5, <2>1, <2>2
    DEF Fails, CallThrows, ReservationTo, ReservationType, waits
  <2>3. CASE resv' = [resv EXCEPT
              ![v].held = @ \cup req[NextCall(v)].got,
              ![v].call = IF resv[v].call = Len(CallsOf[v]) THEN @ ELSE @ + 1,
              ![v].at = IF resv[v].call = Len(CallsOf[v]) THEN "sadd" ELSE @]
    <3>1. resv'[v].miscounted = resv[v].miscounted
      BY <1>1, <2>3 DEF ReservationType
    <3> QED BY <1>5, <2>1, <3>1 DEF waits
  <2> QED BY <1>7, <2>2, <2>3, ServeCallEffect DEF BeginCall
<1>8. CASE ReleaseHeld(v) \/ UntrackHeld(v)
  BY <1>1, <1>5, <1>8
  DEF ReleaseHeld, UntrackHeld, ReservationAt, ReservationTo, ReservationType, limitVars,
      waits
<1>9. CASE \/ MarkAddress(v) \/ Summarize(v) \/ UnmarkAddress(v) \/ CoolAddress(v)
           \/ Cancel(v)
  <2>1. /\ UNCHANGED counted /\ resv[v].at \notin waits
        /\ resv'[v].miscounted = resv[v].miscounted
    BY <1>1, <1>9
    DEF MarkAddress, Summarize, UnmarkAddress, CoolAddress, Cancel, ReservationAt,
        ReservationTo, ReservationType, limitVars, waits
  <2> QED BY <1>5, <2>1
<1>10. CASE ReservationDies(v)
  <2>1. /\ UNCHANGED counted /\ resv'[v].held = resv[v].held
        /\ resv'[v].miscounted = resv[v].miscounted
        /\ resv'[v].at = IF resv[v].at \in Cancelling THEN "cancelled" ELSE "dead"
    BY <1>1, <1>10 DEF ReservationDies, ReservationTo, ReservationType, limitVars
  <2> QED BY <1>5, <2>1 DEF Cancelling, waits
<1>11. CASE RefreshCount(v)
  BY <1>1, <1>5, <1>11 DEF RefreshCount, ReservationTo, ReservationType, waits
<1>12. CASE AddToCount(v)
  <2>1. /\ resv[v].at = "sadd" /\ resv'[v].at = "expire"
        /\ resv'[v].held = resv[v].held /\ resv'[v].miscounted = resv[v].miscounted
        /\ counted' = [counted EXCEPT ![Who(v)] = @ \cup resv[v].held]
    BY <1>1, <1>12 DEF AddToCount, ReservationAt, ReservationTo, ReservationType
  <2>2. CASE Who(v) # i
    BY <1>1, <1>5, <2>1, <2>2 DEF waits
  <2>3. CASE Who(v) = i
    <3>1. /\ counted'[i] = counted[i] \cup resv[v].held
          /\ resv[v].held \subseteq Uncompared(v)'
          /\ Uncompared(v) \subseteq Uncompared(v)'
      BY <1>1, <1>3, <2>1, <2>3 DEF waits
    <3> QED BY <1>2, <1>3, <2>3, <3>1 DEF Compared
  <2> QED BY <2>2, <2>3
<1>13. CASE UncountHeld(v)
  <2>1. /\ resv[v].at \in {"over", "uncount"}
        /\ resv'[v].held = resv[v].held /\ resv'[v].miscounted = resv[v].miscounted
        /\ counted' = [counted EXCEPT ![Who(v)] = @ \ resv[v].held]
    BY <1>1, <1>13
    DEF UncountHeld, Uncount, ReservationAt, ReservationTo, ReservationType
  <2>2. \A w \in Reservations : Uncompared(w) \ resv[v].held \subseteq Uncompared(w)'
    BY <1>3, <2>1
  <2>3. CASE Who(v) # i
    BY <1>1, <1>2, <1>3, <2>1, <2>3 DEF Compared
  <2>4. CASE Who(v) = i
    <3>1. counted'[i] = counted[i] \ resv[v].held
      BY <1>1, <2>1, <2>4
    <3> QED BY <1>2, <2>2, <3>1 DEF Compared
  <2> QED BY <2>3, <2>4
<1>14. CASE RedisFails(v)
  <2>1. /\ UNCHANGED counted /\ resv'[v].held = resv[v].held
        /\ resv'[v].miscounted =
             resv[v].miscounted \cup HeldAt(v, {"expire", "scard", "over"})
        /\ resv[v].at # "dead"
    BY <1>1, <1>14 DEF RedisFails, FailedOver, ReservationType, Cancelling, limitVars
  <2>2. Uncompared(v) \subseteq Uncompared(v)'
    BY <1>3, <2>1 DEF HeldAt, waits
  <2> QED BY <1>4, <2>1, <2>2
<1> QED
  BY <1>6, <1>7, <1>8, <1>9, <1>10, <1>11, <1>12, <1>13, <1>14
  DEF ReservationAction, ReservationGoesOn

\* Every step keeps what was compared within the cap.
LEMMA StepKeepsCompared ==
  ReservationsInv /\ ComparedIsCapped /\ [ReservationsNext]_vars => ComparedIsCapped'
<1> SUFFICES ASSUME ReservationsInv, ComparedIsCapped, [ReservationsNext]_vars,
                    NEW i \in Identities
             PROVE  Cardinality(Compared(i))' <= MaxReserved
  BY DEF ComparedIsCapped
<1>1. ReservationsTypeOK /\ ReservationsTypeOK' /\ Cardinality(Compared(i)) <= MaxReserved
  BY ReservationsKeepTypes DEF ReservationsInv, ComparedIsCapped
<1>2. ASSUME UNCHANGED resv, counted'[i] \subseteq counted[i]
      PROVE  Compared(i)' \subseteq Compared(i)
  BY <1>2 DEF Compared, Uncompared, Who
<1>3. ASSUME NEW v \in Reservations, CompareCount(v)
      PROVE  Cardinality(Compared(i))' <= MaxReserved
  <2>1. /\ UNCHANGED counted /\ resv[v].at = "scard"
        /\ \A w \in Reservations : w # v => resv'[w] = resv[w]
    BY <1>3, ReservationEffect
    DEF CompareCount, limitVars, ReservationAt, ReservationAction, ReservationGoesOn
  <2>2. CASE ReservationTo(v, "over")
    <3>1. /\ resv'[v].held = resv[v].held /\ resv'[v].at = "over"
          /\ resv'[v].miscounted = resv[v].miscounted
      BY <1>1, <2>2 DEF ReservationTo, ReservationsTypeOK, ReservationType
    <3>2. \A w \in Reservations : Uncompared(w)' = Uncompared(w)
      BY <2>1, <3>1 DEF Uncompared
    <3>3. Compared(i)' \subseteq Compared(i)
      BY <2>1, <3>2 DEF Compared, Who
    <3> QED BY <1>1, <3>3, ComparedShrinks
  <2>3. CASE Who(v) # i
    <3>1. \A w \in Reservations : Who(w) = i => Uncompared(w)' = Uncompared(w)
      BY <2>1, <2>3 DEF Uncompared
    <3>2. Compared(i)' \subseteq Compared(i)
      BY <2>1, <3>1 DEF Compared, Who
    <3> QED BY <1>1, <3>2, ComparedShrinks
  <2>4. CASE Who(v) = i /\ ~ReservationTo(v, "over")
    <3>1. ~(Cardinality(counted[i]) > MaxReserved)
      BY <1>3, <2>4 DEF CompareCount
    <3>2. IsFiniteSet(counted[i]) /\ Cardinality(counted[i]) \in Nat
      BY <1>1, CountedIsFinite
    <3>3. Compared(i)' \in SUBSET counted[i]
      BY <2>1 DEF Compared
    <3>4. /\ Cardinality(Compared(i)') <= Cardinality(counted[i])
          /\ Cardinality(Compared(i)') \in Nat
      BY <1>1, <3>2, <3>3, CountedIsFinite, FS_Subset
    <3> QED BY <3>1, <3>2, <3>4, ReservationsAssumption
  <2> QED BY <2>2, <2>3, <2>4
<1>4. ASSUME NEW v \in Reservations, ReservationAction(v)
      PROVE  Cardinality(Compared(i))' <= MaxReserved
  BY <1>1, <1>3, <1>4, StepAddsNothingCompared, ComparedShrinks
<1>5. CASE OtherAction
  <2>1. counted'[i] \subseteq counted[i]
    BY <1>1, <1>5
    DEF OtherAction, CommitReserved, CommitGoesOn, UncountSold, DirectCall, CountLapses,
        MarkLapses, Elsewhere, Uncount, resvVars, limitVars, ReservationsTypeOK
  <2> QED BY <1>1, <1>2, <1>5, <2>1, OthersLeaveReservations, ComparedShrinks
<1>6. CASE UNCHANGED vars
  BY <1>1, <1>2, <1>6, ComparedShrinks DEF vars, resvVars, limitVars
<1> QED
  BY <1>4, <1>5, <1>6 DEF ReservationsNext, ReservationAction, OtherAction

\* What an identity holds under its tokens, as far as it is counted, is within the
\* cap, for any number of reservations and however they overlap, lapse, die, are
\* cancelled or bought (capReservedSeats).
THEOREM TokensAreCapped == ReservationsSpec => []TokensRespectTheCap
<1>1. ReservationsStart(Reservations \cup Orders \cup Requests) => ComparedIsCapped
  <2> SUFFICES ASSUME ReservationsStart(Reservations \cup Orders \cup Requests),
                      NEW i \in Identities
               PROVE  Cardinality(Compared(i)) <= MaxReserved
    BY DEF ComparedIsCapped
  <2>1. Compared(i) = {}
    BY DEF ReservationsStart, Compared
  <2> QED BY <2>1, FS_EmptySet, ReservationsAssumption
<1>2. ReservationsInv /\ ComparedIsCapped => TokensRespectTheCap
  <2> SUFFICES ASSUME ReservationsInv, ComparedIsCapped, NEW i \in Identities
               PROVE  Cardinality({s \in (UNION {HeldBy(v) : v \in Tokens(i)}) \cap counted[i] :
                                     \A v \in Reservations :
                                       Who(v) = i => s \notin Uncompared(v)})
                        <= MaxReserved
    BY DEF TokensRespectTheCap
  <2> DEFINE some == {s \in (UNION {HeldBy(v) : v \in Tokens(i)}) \cap counted[i] :
                        \A v \in Reservations : Who(v) = i => s \notin Uncompared(v)}
  <2>1. some \subseteq Compared(i) /\ Compared(i) \in SUBSET counted[i]
        /\ some \in SUBSET counted[i]
    BY DEF Compared
  <2> HIDE DEF some
  <2>2. /\ IsFiniteSet(Compared(i)) /\ Cardinality(Compared(i)) \in Nat
        /\ Cardinality(some) \in Nat
    BY <2>1, CountedIsFinite DEF ReservationsInv
  <2>3. Cardinality(some) <= Cardinality(Compared(i))
    BY <2>1, <2>2, FS_Subset
  <2>4. Cardinality(Compared(i)) <= MaxReserved
    BY DEF ComparedIsCapped
  <2> QED BY <2>2, <2>3, <2>4, ReservationsAssumption DEF some
<1> QED
  BY <1>1, <1>2, StepKeepsCompared, ReservationsInvariant, PTL DEF ReservationsSpec

-----------------------------------------------------------------------------
(* The cap of an identity within a TTL window: while nothing lapses, no    *)
(* process dies, nobody cancels and nothing has been bought, the count has *)
(* every seat that is reserved.                                            *)

\* Nothing has been bought yet, and i has cancelled nothing.
Undisturbed(i) ==
  /\ \A o \in Orders : order[o] = "none"
  /\ \A v \in Reservations :
       Who(v) = i => resv[v].at \notin Cancelling \cup {"cancelled"}

\* A commit that goes on to the holds, or to the buyer's count, has its order.
CommitsHaveOrders ==
  \A o \in Orders :
    commit[o].at \in {"mget", "del", "srem"} \/ o \in sold => order[o] # "none"

NothingFailed ==
  \A v \in Reservations :
    resv[v].at # "dead" /\ resv[v].kept = {} /\ resv[v].miscounted = {}

\* A reservation that was not refused holds what it has taken, and has it counted
\* once it has passed its SADD.
KeepsItsSeats(v) ==
  /\ resv[v].at \in {"idle", "sadd", "expire", "scard", "over", "mark", "summary",
                      "token"} =>
       resv[v].held \subseteq HeldBy(v)
  /\ ReservationAt(v, "call") /\ req[NextCall(v)].at \notin {"rollback", "srem"} =>
       resv[v].held \subseteq HeldBy(v)
  /\ ReservationAt(v, "call") /\ req[NextCall(v)].at \in {"sadd", "expire", "scard"} =>
       req[NextCall(v)].got \subseteq HeldBy(v)
  /\ resv[v].at \in {"expire", "scard", "mark", "summary", "token"} =>
       resv[v].held \subseteq counted[Who(v)]

\* The inductive invariant of the window.
WindowInv ==
  /\ ReservationsInv /\ ComparedIsCapped
  /\ CommitsHaveOrders /\ NothingFailed
  /\ \A v \in Reservations : Undisturbed(Who(v)) => KeepsItsSeats(v)

\* No order goes back to not being there.
LEMMA OrdersStayThere ==
  ASSUME ReservationsInv, [ReservationsNext]_vars, NEW o \in Orders, order[o] # "none"
  PROVE  order'[o] # "none"
<1>1. order \in [Orders -> OrderStatus]
  BY DEF ReservationsInv, SaleInv, CheckoutTypeOK
<1>2. ASSUME NEW p \in Orders, CommitTx(p) \/ Sweep(p) PROVE order'[o] # "none"
  BY <1>1, <1>2 DEF CommitTx, Sweep
<1>3. CASE UNCHANGED order
  BY <1>3
<1> QED
  BY <1>2, <1>3
  DEF ReservationsNext, ReservationGoesOn, Create, BeginCall, ServeCall, ReleaseHeld,
      UntrackHeld, AddToCount, RefreshCount, CompareCount, UncountHeld, MarkAddress,
      Summarize, UnmarkAddress, CoolAddress, CallThrows, RedisFails, Cancel,
      ReservationDies, CommitReserved, CommitGoesOn, UncountSold, DirectCall, CountLapses, MarkLapses, Elsewhere, BeginCommit,
      CheckHolds, CheckEvent, ReadOwnHolds, DropOwnHolds, UntrackOwnHolds, CrashCommit,
      Lapse, SetStatus, saleVars, checkoutVars, allCheckoutVars, vars

\* Every step leaves the commits their orders.
LEMMA CommitsKeepOrders ==
  ASSUME ReservationsInv, CommitsHaveOrders, [ReservationsNext]_vars
  PROVE  CommitsHaveOrders'
<1>1. /\ commit \in [Orders -> [at : CommitStep, mine : SUBSET Seats]]
      /\ order \in [Orders -> OrderStatus]
      /\ \A o \in Orders : order[o] # "none" => order'[o] # "none"
  BY OrdersStayThere DEF ReservationsInv, SaleInv, CheckoutTypeOK
<1>2. ASSUME UNCHANGED commit, sold' \subseteq sold PROVE CommitsHaveOrders'
  BY <1>1, <1>2 DEF CommitsHaveOrders
<1>3. ASSUME NEW o \in Orders, SaleStep(o),
             sold' \subseteq sold \cup (IF CommitAt(o, "srem") THEN {o} ELSE {})
      PROVE  CommitsHaveOrders'
  <2>1. \A p \in Orders : p # o => commit'[p] = commit[p]
    BY <1>1, <1>3
    DEF SaleStep, CommitStepOf, BeginCommit, CheckHolds, CheckEvent, CommitTx,
        ReadOwnHolds, DropOwnHolds, UntrackOwnHolds, CrashCommit, CommitTo, CommitEnds,
        Lapse, Sweep
  <2>2. commit'[o].at \in {"mget", "del", "srem"} => order'[o] # "none"
    <3>1. CASE CommitTx(o)
      BY <1>1, <3>1 DEF CommitTx, CommitTo, CommitEnds
    <3>2. CASE ReadOwnHolds(o) \/ DropOwnHolds(o)
      BY <1>1, <3>2 DEF ReadOwnHolds, DropOwnHolds, CommitAt, CommitsHaveOrders
    <3>3. CASE BeginCommit(o) \/ CheckHolds(o) \/ CheckEvent(o) \/ UntrackOwnHolds(o)
      BY <1>1, <3>3
      DEF BeginCommit, CheckHolds, CheckEvent, UntrackOwnHolds, CommitTo, CommitEnds
    <3>4. CASE CrashCommit(o)
      BY <1>1, <3>4 DEF CrashCommit, CommitEnds
    <3>5. CASE Lapse(o) \/ Sweep(o)
      BY <1>1, <3>5 DEF Lapse, Sweep, CommitsHaveOrders
    <3> QED BY <1>3, <3>1, <3>2, <3>3, <3>4, <3>5 DEF SaleStep, CommitStepOf
  <2>3. \A p \in Orders : p \in sold' => order'[p] # "none"
    BY <1>1, <1>3 DEF CommitAt, CommitsHaveOrders
  <2> QED BY <1>1, <2>1, <2>2, <2>3 DEF CommitsHaveOrders
<1>4. ASSUME NEW o \in Orders, CommitReserved(o) \/ CommitGoesOn(o) \/ UncountSold(o)
      PROVE  CommitsHaveOrders'
  BY <1>2, <1>3, <1>4
  DEF CommitReserved, CommitGoesOn, UncountSold, SaleStep, CommitStepOf,
      allCheckoutVars, checkoutVars
<1>5. CASE Elsewhere
  BY <1>2, <1>3, <1>5 DEF Elsewhere, SaleStep, CommitStepOf, SetStatus, resvVars
<1>6. CASE UNCHANGED <<commit, sold>>
  BY <1>2, <1>6
<1> QED
  BY <1>4, <1>5, <1>6
  DEF ReservationsNext, ReservationGoesOn, Create, BeginCall, ServeCall, ReleaseHeld,
      UntrackHeld, AddToCount, RefreshCount, CompareCount, UncountHeld, MarkAddress,
      Summarize, UnmarkAddress, CoolAddress, CallThrows, RedisFails, Cancel,
      ReservationDies, DirectCall, CountLapses,
      MarkLapses, checkoutVars, allCheckoutVars, vars, resvVars

\* What an identity has cancelled, and what was bought, stays so.
LEMMA DisturbedStays ==
  ASSUME ReservationsInv, [ReservationsNext]_vars, NEW i, Undisturbed(i)'
  PROVE  Undisturbed(i)
<1> DEFINE gone == Cancelling \cup {"cancelled"}
<1>1. \A o \in Orders : order[o] = "none"
  BY OrdersStayThere DEF Undisturbed
<1>2. ASSUME NEW v \in Reservations, resv[v].at \in gone PROVE resv'[v].at \in gone
  <2>1. resv[v].at \notin {"idle", "call", "dead"} /\ resv \in
          [Reservations -> ReservationType]
    BY <1>2 DEF Cancelling, ReservationsInv, ReservationsTypeOK
  <2>2. CASE resv'[v] = resv[v]
    BY <1>2, <2>2
  <2>3. CASE ReservationAction(v)
    <3>1. CASE Create(v)
      BY <2>1, <3>1, ReservationFacts DEF Create, Asked
    <3>2. CASE ReservationGoesOn(v)
      <4>1. CASE RedisFails(v)
        <5>1. resv'[v].at = AfterError(v)
          BY <2>1, <4>1 DEF RedisFails, FailedOver, ReservationType
        <5> QED BY <1>2, <5>1 DEF AfterError, Cancelling
      <4> QED
        BY <1>2, <2>1, <3>2, <4>1
        DEF ReservationGoesOn, BeginCall, ServeCall, ReleaseHeld, UntrackHeld, AddToCount,
            RefreshCount, CompareCount, UncountHeld, MarkAddress, Summarize,
            UnmarkAddress, CoolAddress, CallThrows, ReservationAt, ReservationTo,
            ReservationType, Cancelling
    <3>3. CASE Cancel(v) \/ ReservationDies(v)
      BY <1>2, <2>1, <3>3
      DEF Cancel, ReservationDies, ReservationTo, ReservationType, Cancelling
    <3> QED BY <2>3, <3>1, <3>2, <3>3 DEF ReservationAction
  <2>4. \/ \E w \in Reservations : ReservationAction(w)
        \/ OtherAction \/ UNCHANGED vars
    BY DEF ReservationsNext, ReservationAction, OtherAction
  <2> QED
    BY <2>2, <2>3, <2>4, ReservationEffect, OthersLeaveReservations DEF vars, resvVars
<1> QED BY <1>1, <1>2 DEF Undisturbed, Who

\* Within the window, who is left alone keeps the holds of his reservations: only a
\* commit that has its order deletes keys of others.
LEMMA OthersEndNoHold ==
  ASSUME TtlElapses = FALSE, ReservationsInv, CommitsHaveOrders,
         [ReservationsNext]_vars, NEW v \in Reservations, Undisturbed(Who(v)),
         ~ReservationAction(v), NEW s \in Seats, hold[s] = v
  PROVE  hold'[s] = v
<1>1. v \in Holders /\ v # NoHolder /\ HoldsTypeOK
  BY ReservationFacts
<1>2. ASSUME NEW w \in Reservations, ReservationAction(w) PROVE hold'[s] = v
  BY <1>1, <1>2, ReservationEndsItsOwn
<1>3. CASE UNCHANGED hold
  BY <1>3
<1>4. ASSUME NEW o \in Orders, SaleStep(o) PROVE hold'[s] = v
  <2>1. ~DropOwnHolds(o)
    BY DEF DropOwnHolds, CommitAt, CommitsHaveOrders, Undisturbed
  <2> QED
    BY <1>3, <1>4, <2>1
    DEF SaleStep, CommitStepOf, BeginCommit, CheckHolds, CheckEvent, CommitTx,
        ReadOwnHolds, UntrackOwnHolds, CrashCommit, Lapse, Sweep, holdVars
<1>5. ASSUME NEW r \in Requests, DirectCall(r) PROVE hold'[s] = v
  BY <1>1, <1>5, CallEndsItsOwn DEF DirectCall, Direct
<1>6. CASE OtherAction
  <2>1. ASSUME NEW o \in Orders, CommitReserved(o) \/ CommitGoesOn(o) \/ UncountSold(o)
        PROVE  hold'[s] = v
    BY <1>3, <1>4, <2>1
    DEF CommitReserved, CommitGoesOn, UncountSold, SaleStep, CommitStepOf,
        allCheckoutVars, holdVars
  <2>2. ASSUME NEW i \in Identities, CountLapses(i) \/ MarkLapses(i) PROVE hold'[s] = v
    BY <2>2 DEF CountLapses, MarkLapses
  <2>3. CASE Elsewhere
    BY <1>3, <1>4, <2>3
    DEF Elsewhere, HoldLapses, OwnerSetLapses, SaleStep, CommitStepOf, SetStatus, holdVars
  <2> QED BY <1>5, <1>6, <2>1, <2>2, <2>3 DEF OtherAction
<1> QED
  BY <1>2, <1>3, <1>6
  DEF ReservationsNext, ReservationAction, OtherAction, vars, allCheckoutVars, holdVars

\* Within the window, others take nothing off the count that a reservation holds:
\* what a roll-back takes off is held by the reservation that is rolled back.
LEMMA OthersUncountNothing ==
  ASSUME TtlElapses = FALSE, WindowInv, [ReservationsNext]_vars,
         NEW v \in Reservations, Undisturbed(Who(v)), ~ReservationAction(v),
         NEW s \in Seats, hold[s] = v, s \in counted[Who(v)]
  PROVE  s \in counted'[Who(v)]
<1>1. /\ counted \in [Identities -> SUBSET Seats] /\ Who(v) \in Identities
      /\ ReservationsInv /\ CommitsHaveOrders
  BY NextCallFacts
  DEF WindowInv, ReservationsInv, ReservationsTypeOK, KeepsToItsCalls
<1>2. CASE UNCHANGED counted
  BY <1>2
<1>3. ASSUME NEW w \in Reservations, ReservationAction(w) PROVE s \in counted'[Who(v)]
  <2>1. CASE UncountHeld(w)
    <3>1. counted' = [counted EXCEPT ![Who(w)] = @ \ resv[w].held]
      BY <2>1 DEF UncountHeld, Uncount
    <3>2. CASE Who(w) # Who(v)
      BY <1>1, <3>1, <3>2
    <3>3. CASE Who(w) = Who(v)
      <4>1. resv[w].at = "over"
        BY <2>1, <3>3 DEF UncountHeld, ReservationAt, Undisturbed, Cancelling
      <4>2. resv[w].held \subseteq HeldBy(w)
        BY <3>3, <4>1 DEF WindowInv, KeepsItsSeats
      <4>3. w # v
        BY <1>3
      <4> QED BY <1>1, <3>1, <4>2, <4>3 DEF HeldBy
    <3> QED BY <3>2, <3>3
  <2>2. CASE AddToCount(w)
    BY <1>1, <2>2 DEF AddToCount
  <2> QED
    BY <1>2, <1>3, <2>1, <2>2
    DEF ReservationAction, ReservationGoesOn, Create, BeginCall, ServeCall, ReleaseHeld,
        UntrackHeld, RefreshCount, CompareCount, MarkAddress, Summarize, UnmarkAddress,
        CoolAddress, CallThrows, RedisFails, Cancel, ReservationDies, limitVars
<1>4. CASE OtherAction
  <2>1. ASSUME NEW o \in Orders PROVE ~UncountSold(o)
    BY <1>1 DEF UncountSold, CommitsHaveOrders, Undisturbed
  <2> QED
    BY <1>2, <1>4, <2>1
    DEF OtherAction, CommitReserved, CommitGoesOn, DirectCall, CountLapses, MarkLapses,
        Elsewhere, resvVars, limitVars
<1> QED
  BY <1>2, <1>3, <1>4
  DEF ReservationsNext, ReservationAction, OtherAction, vars, resvVars, limitVars

\* A reservation that is left alone keeps its seats.
LEMMA UntouchedKeepsItsSeats ==
  ASSUME TtlElapses = FALSE, WindowInv, [ReservationsNext]_vars,
         NEW v \in Reservations, Undisturbed(Who(v)), ~ReservationAction(v)
  PROVE  KeepsItsSeats(v)'
<1>1. /\ ReservationsInv /\ CommitsHaveOrders /\ KeepsItsSeats(v)
      /\ resv[v].held \subseteq Seats
      /\ NextCall(v) \in Requests /\ HolderOfRequest(NextCall(v)) = v
  BY ReservationFacts DEF WindowInv
<1>2. Leaves(v)
  <2>1. \/ \E w \in Reservations : ReservationAction(w)
        \/ OtherAction \/ UNCHANGED vars
    BY DEF ReservationsNext, ReservationAction, OtherAction
  <2>2. UNCHANGED vars => Leaves(v)
    BY DEF Leaves, vars, allCheckoutVars, holdVars, resvVars
  <2> QED BY <1>1, <2>1, <2>2, OneReservationMoves, OthersLeave
<1>3. /\ resv'[v] = resv[v] /\ NextCall(v)' = NextCall(v)
      /\ req'[NextCall(v)] = req[NextCall(v)]
  BY <1>1, <1>2 DEF Leaves, NextCall
<1>4. \A s \in Seats : hold[s] = v => hold'[s] = v
  BY <1>1, OthersEndNoHold
<1>5. \A s \in Seats : hold[s] = v /\ s \in counted[Who(v)] => s \in counted'[Who(v)]
  BY OthersUncountNothing
<1>6. Who(v)' = Who(v)
  BY DEF Who
<1>7. HeldBy(v) \subseteq HeldBy(v)'
  BY <1>4 DEF HeldBy
<1>8. resv[v].held \subseteq HeldBy(v) /\ resv[v].held \subseteq counted[Who(v)]
        => resv[v].held \subseteq counted'[Who(v)]
  BY <1>5 DEF HeldBy
<1> QED
  BY <1>1, <1>3, <1>6, <1>7, <1>8 DEF KeepsItsSeats, ReservationAt

\* A call that takes seats holds them from then on, and loses none.
LEMMA TakingHolds ==
  ASSUME HoldsTypeOK, NEW r \in Requests, Take(r) \/ TakeByQuantity(r)
  PROVE  /\ \A s \in Seats : hold[s] = HolderOfRequest(r) => hold'[s] = hold[s]
         /\ req'[r].at = "sadd" =>
              \A s \in req'[r].got : s \in Seats /\ hold'[s] = HolderOfRequest(r)
<1> DEFINE me == HolderOfRequest(r)
<1>1. /\ req \in [Requests -> [at : RequestStep, got : SUBSET Seats]]
      /\ hold \in [Seats -> Holders \cup {NoHolder}]
  BY DEF HoldsTypeOK
<1>2. CASE Answer(r) /\ UNCHANGED hold
  BY <1>1, <1>2 DEF Answer, IdleRequest
<1>3. ASSUME NEW S \in SUBSET Seats, SetHolds(S, me), req'[r].got = S
      PROVE  /\ \A s \in Seats : hold[s] = me => hold'[s] = hold[s]
             /\ \A s \in req'[r].got : s \in Seats /\ hold'[s] = me
  BY <1>3 DEF SetHolds
<1>4. CASE Take(r)
  <2>1. CASE SetHolds(req[r].got, me) /\ MoveTo(r, "sadd")
    <3>1. req'[r].got = req[r].got /\ req[r].got \in SUBSET Seats
      BY <1>1, <2>1 DEF MoveTo
    <3> QED BY <1>3, <2>1, <3>1 DEF me
  <2> QED BY <1>2, <1>4, <2>1 DEF Take, me
<1>5. CASE TakeByQuantity(r)
  <2>1. CASE \E S \in SUBSET Free(req[r].got) :
               SetHolds(S, me) /\ req' = [req EXCEPT ![r] = [at |-> "sadd", got |-> S]]
    <3>1. PICK S \in SUBSET Free(req[r].got) :
            SetHolds(S, me) /\ req' = [req EXCEPT ![r] = [at |-> "sadd", got |-> S]]
      BY <2>1
    <3>2. S \in SUBSET Seats /\ req'[r].got = S
      BY <1>1, <3>1 DEF Free
    <3> QED BY <1>3, <3>1, <3>2 DEF me
  <2> QED BY <1>2, <1>5, <2>1 DEF TakeByQuantity, me
<1> QED BY <1>4, <1>5

\* The call of a reservation leaves it the seats it has, until it is rolled back.
LEMMA ServingKeepsItsSeats ==
  ASSUME ReservationsInv, NEW v \in Reservations, KeepsItsSeats(v), ServeCall(v)
  PROVE  KeepsItsSeats(v)'
<1> DEFINE r == NextCall(v)
<1>1. /\ HoldsTypeOK /\ r \in Requests /\ HolderOfRequest(r) = v
      /\ \A t \in Requests : HolderOfRequest(t) = v /\ t # r => req[t].at = "idle"
      /\ resv[v].at = "call" /\ req[r].at # "idle" /\ HoldCallStep(r)
      /\ resv[v].held \subseteq Seats
      /\ resv \in [Reservations -> ReservationType]
  BY ReservationFacts, ServeCallEffect
  DEF At, CallGoesOn, HoldCallStep, ReservationsInv, ReservationsTypeOK
<1>2. /\ req[r].at \notin {"rollback", "srem"} => resv[v].held \subseteq HeldBy(v)
      /\ req[r].at \in {"sadd", "expire", "scard"} => req[r].got \subseteq HeldBy(v)
  BY <1>1 DEF KeepsItsSeats, ReservationAt, r
<1> HIDE DEF r
<1>3. CASE UNCHANGED resv /\ req'[r].at # "idle"
  <2>1. NextCall(v)' = r /\ resv'[v] = resv[v]
    BY <1>3 DEF NextCall, r
  <2>2. /\ req'[r].at \notin {"rollback", "srem"} => resv[v].held \subseteq HeldBy(v)'
        /\ req'[r].at \in {"sadd", "expire", "scard"} => req'[r].got \subseteq HeldBy(v)'
    <3>1. CASE Take(r) \/ TakeByQuantity(r)
      <4>1. req[r].at = "take" /\ req'[r].at = "sadd"
        BY <1>1, <1>3, <3>1, CallStepEffect
        DEF Take, TakeByQuantity, At, AddToOwnerSet, RefreshOwnerSet, CountOwnerSet,
            Release, Untrack
      <4>2. /\ \A s \in Seats : hold[s] = v => hold'[s] = v
            /\ \A s \in req'[r].got : s \in Seats /\ hold'[s] = v
        BY <1>1, <3>1, <4>1, TakingHolds
      <4>3. HeldBy(v) \subseteq HeldBy(v)' /\ req'[r].got \subseteq HeldBy(v)'
        BY <4>2 DEF HeldBy
      <4> QED BY <1>2, <4>1, <4>3
    <3>2. CASE AddToOwnerSet(r) \/ RefreshOwnerSet(r)
      <4>1. /\ UNCHANGED hold /\ req[r].at \in {"sadd", "expire"}
            /\ req'[r].got = req[r].got
        BY <1>1, <3>2 DEF AddToOwnerSet, RefreshOwnerSet, At, MoveTo, HoldsTypeOK
      <4>2. HeldBy(v)' = HeldBy(v)
        BY <4>1 DEF HeldBy
      <4> QED BY <1>2, <4>1, <4>2
    <3>3. CASE CountOwnerSet(r)
      BY <1>1, <1>3, <3>3 DEF CountOwnerSet, MoveTo, Answer, HoldsTypeOK, IdleRequest
    <3>4. CASE Release(r)
      BY <1>1, <3>4 DEF Release, MoveTo, HoldsTypeOK
    <3>5. CASE Untrack(r)
      BY <1>1, <1>3, <3>5 DEF Untrack, Answer, HoldsTypeOK, IdleRequest
    <3> QED
      BY <3>1, <3>2, <3>3, <3>4, <3>5, ServeCallEffect DEF CallGoesOn, r
  <2> QED BY <1>1, <2>1, <2>2 DEF KeepsItsSeats, ReservationAt
<1>4. CASE /\ At(r, "scard") /\ req'[r].at = "idle"
           /\ resv' = [resv EXCEPT
                ![v].held = @ \cup req[r].got,
                ![v].call = IF resv[v].call = Len(CallsOf[v]) THEN @ ELSE @ + 1,
                ![v].at = IF resv[v].call = Len(CallsOf[v]) THEN "sadd" ELSE @]
  <2>1. CountOwnerSet(r)
    BY <1>1, <1>4 DEF HoldCallStep, BeginHold, BeginHoldByQuantity, Take, TakeByQuantity,
       AddToOwnerSet, RefreshOwnerSet, Release, Untrack, At
  <2>2. HeldBy(v)' = HeldBy(v)
    BY <2>1 DEF CountOwnerSet, HeldBy
  <2>3. /\ resv'[v].held = resv[v].held \cup req[r].got
        /\ resv'[v].at \in {"call", "sadd"}
    BY <1>1, <1>4
  <2>4. resv'[v].held \subseteq HeldBy(v)'
    BY <1>2, <1>4, <2>2, <2>3 DEF At
  <2>5. req'[NextCall(v)'].at = "idle"
    <3>1. resv'[v].call \in DOMAIN CallsOf[v] /\ CallsOf[v] \in Seq(Requests)
      BY ReservationEffect, ReservationsAssumption
      DEF ReservationAction, ReservationGoesOn
    <3>2. NextCall(v)' \in Requests /\ HolderOfRequest(NextCall(v)') = v
      BY <3>1, ReservationsAssumption DEF NextCall, HolderOfRequest
    <3> QED BY <1>1, <1>4, <3>2, CallStepEffect
  <2> QED BY <2>3, <2>4, <2>5 DEF KeepsItsSeats, ReservationAt
<1>5. CASE Fails(v)
  <2>1. resv'[v].at \in {"refused", "undo"}
    BY <1>1, <1>5 DEF Fails, AfterFailure, ReservationTo, ReservationType
  <2> QED BY <2>1 DEF KeepsItsSeats, ReservationAt
<1> QED BY <1>3, <1>4, <1>5, ServeCallEffect DEF r

\* Every other step of a reservation leaves it its seats, and counts them.
LEMMA ActingKeepsItsSeats ==
  ASSUME RequestsCrash = FALSE, ReservationsInv, NEW v \in Reservations,
         KeepsItsSeats(v), ReservationAction(v)
  PROVE  KeepsItsSeats(v)'
<1>1. /\ HoldsTypeOK /\ NextCall(v) \in Requests /\ HolderOfRequest(NextCall(v)) = v
      /\ \A t \in Requests : HolderOfRequest(t) = v /\ resv[v].at # "call" =>
           req[t].at = "idle"
      /\ v \in made => resv[v].at = "idle"
      /\ resv \in [Reservations -> ReservationType]
      /\ counted \in [Identities -> SUBSET Seats] /\ Who(v) \in Identities
      /\ Who(v)' = Who(v)
  BY ReservationFacts, NextCallFacts
  DEF ReservationsInv, ReservationsTypeOK, KeepsToItsCalls, Who
<1>2. ASSUME resv'[v].at \notin {"idle", "call", "sadd", "expire", "scard", "over",
                                 "mark", "summary", "token"}
      PROVE  KeepsItsSeats(v)'
  BY <1>2 DEF KeepsItsSeats, ReservationAt
<1>3. CASE Create(v)
  <2>1. /\ resv'[v].at = "call" /\ resv'[v].held = resv[v].held
        /\ resv[v].at = "idle" /\ UNCHANGED <<hold, req>>
        /\ resv'[v].call = resv[v].call
    BY <1>1, <1>3 DEF Create, Asked, ReservationTo, allCheckoutVars, holdVars
  <2>2. NextCall(v)' = NextCall(v) /\ req'[NextCall(v)].at = "idle"
    BY <1>1, <2>1 DEF NextCall
  <2>3. resv[v].held \subseteq HeldBy(v) /\ HeldBy(v)' = HeldBy(v)
    BY <2>1 DEF KeepsItsSeats, HeldBy
  <2> QED BY <2>1, <2>2, <2>3 DEF KeepsItsSeats, ReservationAt
<1>4. CASE BeginCall(v)
  <2>1. CASE (BeginHold(NextCall(v)) \/ BeginHoldByQuantity(NextCall(v))) /\ UNCHANGED resv
    <3>1. req'[NextCall(v)].at = "take" /\ UNCHANGED hold
      BY <1>1, <2>1 DEF BeginHold, BeginHoldByQuantity, HoldsTypeOK
    <3>2. NextCall(v)' = NextCall(v) /\ HeldBy(v)' = HeldBy(v)
      BY <2>1, <3>1 DEF NextCall, HeldBy
    <3>3. resv[v].at = "call" /\ req[NextCall(v)].at = "idle"
      BY <1>4 DEF BeginCall, ReservationAt, At
    <3> QED BY <2>1, <3>1, <3>2, <3>3 DEF KeepsItsSeats, ReservationAt
  <2>2. CASE Fails(v)
    BY <1>1, <1>2, <2>2 DEF Fails, AfterFailure, ReservationTo, ReservationType
  <2> QED BY <1>4, <2>1, <2>2 DEF BeginCall
<1>5. CASE ServeCall(v)
  BY <1>5, ServingKeepsItsSeats
<1>6. CASE ReleaseHeld(v) \/ UntrackHeld(v) \/ UncountHeld(v) \/ Cancel(v)
  BY <1>1, <1>2, <1>6
  DEF ReleaseHeld, UntrackHeld, UncountHeld, Cancel, ReservationTo, ReservationType
<1>7. CASE UnmarkAddress(v) \/ CoolAddress(v)
  BY <1>1, <1>2, <1>7 DEF UnmarkAddress, CoolAddress, ReservationTo, ReservationType
<1>8. CASE \/ AddToCount(v) \/ RefreshCount(v) \/ CompareCount(v) \/ MarkAddress(v)
           \/ Summarize(v)
  <2>1. /\ resv[v].at \in {"sadd", "expire", "scard", "mark", "summary"}
        /\ resv'[v].held = resv[v].held /\ UNCHANGED hold
    BY <1>1, <1>8
    DEF AddToCount, RefreshCount, CompareCount, MarkAddress, Summarize, ReservationAt,
        ReservationTo, ReservationType, allCheckoutVars, holdVars
  <2>2. resv'[v].held \subseteq HeldBy(v)'
    BY <2>1 DEF KeepsItsSeats, HeldBy
  <2>3. resv'[v].at \notin {"over", "lost"} =>
          resv'[v].held \subseteq counted'[Who(v)]
    <3>1. CASE AddToCount(v)
      BY <1>1, <2>1, <3>1 DEF AddToCount
    <3>2. CASE RefreshCount(v) \/ CompareCount(v) \/ MarkAddress(v) \/ Summarize(v)
      BY <2>1, <3>2
      DEF RefreshCount, CompareCount, MarkAddress, Summarize, ReservationAt,
          KeepsItsSeats, limitVars
    <3> QED BY <1>8, <3>1, <3>2
  <2>4. resv'[v].at \in {"expire", "scard", "over", "mark", "summary", "token", "lost"}
    BY <1>1, <1>8
    DEF AddToCount, RefreshCount, CompareCount, MarkAddress, Summarize, ReservationTo,
        ReservationType, Counted
  <2> QED BY <1>1, <2>2, <2>3, <2>4 DEF KeepsItsSeats, ReservationAt
<1> QED
  BY <1>3, <1>4, <1>5, <1>6, <1>7, <1>8
  DEF ReservationAction, ReservationGoesOn, ReservationDies, CallThrows, CrashRequest,
      RedisFails

\* Every step within the window keeps its invariant.
LEMMA WindowInvNext ==
  ASSUME TtlElapses = FALSE, RequestsCrash = FALSE,
         WindowInv, [ReservationsNext]_vars
  PROVE  WindowInv'
<1>1. ReservationsInv' /\ ComparedIsCapped' /\ CommitsHaveOrders'
  BY ReservationsInvNext, StepKeepsCompared, CommitsKeepOrders DEF WindowInv
<1>2. NothingFailed'
  <2> DEFINE fine(record) ==
               record.at # "dead" /\ record.kept = {} /\ record.miscounted = {}
  <2>1. ASSUME NEW v \in Reservations, fine(resv[v])
        PROVE  fine(resv'[v])
    <3>1. CASE resv'[v] = resv[v]
      BY <2>1, <3>1
    <3>2. CASE ReservationAction(v)
      <4>1. ReservationsInv /\ resv \in [Reservations -> ReservationType]
        BY DEF WindowInv, ReservationsInv, ReservationsTypeOK
      <4>2. ASSUME NEW step, ReservationTo(v, step), step # "dead" PROVE fine(resv'[v])
        BY <2>1, <4>1, <4>2 DEF ReservationTo, ReservationType
      <4>3. CASE Fails(v)
        BY <4>2, <4>3 DEF Fails, AfterFailure
      <4>4. CASE ServeCall(v)
        <5>1. resv[v].at = "call"
          BY <4>4 DEF ServeCall, ReservationAt
        <5>2. CASE resv' = [resv EXCEPT
                     ![v].held = @ \cup req[NextCall(v)].got,
                     ![v].call = IF resv[v].call = Len(CallsOf[v]) THEN @ ELSE @ + 1,
                     ![v].at = IF resv[v].call = Len(CallsOf[v]) THEN "sadd" ELSE @]
          BY <2>1, <4>1, <5>1, <5>2 DEF ReservationType
        <5> QED BY <2>1, <4>1, <4>3, <4>4, <5>2, ServeCallEffect
      <4>5. CASE BeginCall(v)
        BY <2>1, <4>3, <4>5 DEF BeginCall
      <4>6. ~CallThrows(v) /\ ~RedisFails(v) /\ ~ReservationDies(v)
        BY DEF CallThrows, CrashRequest, RedisFails, ReservationDies
      <4> HIDE DEF fine
      <4> QED
        BY <3>2, <4>2, <4>4, <4>5, <4>6
        DEF ReservationAction, ReservationGoesOn, Create, ReleaseHeld, UntrackHeld,
            AddToCount, RefreshCount, CompareCount, Counted, UncountHeld, MarkAddress,
            Summarize, UnmarkAddress, CoolAddress, Cancel
    <3>3. \/ \E w \in Reservations : ReservationAction(w)
          \/ OtherAction \/ UNCHANGED vars
      BY DEF ReservationsNext, ReservationAction, OtherAction
    <3> HIDE DEF fine
    <3> QED
      BY <3>1, <3>2, <3>3, ReservationEffect, OthersLeaveReservations
      DEF WindowInv, vars, resvVars
  <2> QED BY <2>1 DEF WindowInv, NothingFailed
<1>3. ASSUME NEW v \in Reservations, Undisturbed(Who(v))'
      PROVE  KeepsItsSeats(v)'
  <2>1. Undisturbed(Who(v)) /\ ReservationsInv
    BY <1>3, DisturbedStays DEF WindowInv, Who
  <2>2. KeepsItsSeats(v)
    BY <2>1 DEF WindowInv
  <2> QED BY <2>1, <2>2, UntouchedKeepsItsSeats, ActingKeepsItsSeats
<1> QED BY <1>1, <1>2, <1>3 DEF WindowInv

\* Within a TTL window and as long as no process dies, what an identity that has
\* cancelled nothing holds under its tokens is within the cap, counted or not, as
\* long as nothing has been bought: two reservations that run together do not pass
\* it (capReservedSeats).
THEOREM TokensAreCappedInAWindow ==
  ASSUME TtlElapses = FALSE, RequestsCrash = FALSE
  PROVE  ReservationsSpec =>
           [](\A i \in Identities : Undisturbed(i) =>
                Cardinality(UNION {HeldBy(v) : v \in Tokens(i)}) <= MaxReserved)
<1> DEFINE asked == Reservations \cup Orders \cup Requests
<1>1. ReservationsStart(asked) => WindowInv
  <2> SUFFICES ASSUME ReservationsStart(asked) PROVE WindowInv
    OBVIOUS
  <2>1. ReservationsInv
    BY ReservationsInvInit
  <2>2. ComparedIsCapped
    <3> SUFFICES ASSUME NEW i \in Identities PROVE Cardinality(Compared(i)) <= MaxReserved
      BY DEF ComparedIsCapped
    <3>1. Compared(i) = {}
      BY DEF ReservationsStart, Compared
    <3> QED BY <3>1, FS_EmptySet, ReservationsAssumption
  <2>3. /\ \A v \in Reservations :
             /\ resv[v].at = "idle"
             /\ resv[v].held = {} /\ resv[v].kept = {} /\ resv[v].miscounted = {}
        /\ \A o \in Orders : commit[o].at = "idle" /\ sold = {}
    BY DEF ReservationsStart, CheckoutInit, NewReservation
  <2>4. \A v \in Reservations : KeepsItsSeats(v)
    BY <2>3 DEF KeepsItsSeats, ReservationAt
  <2> QED
    BY <2>1, <2>2, <2>3, <2>4
    DEF WindowInv, CommitsHaveOrders, NothingFailed, ReservationAt
<1>2. WindowInv /\ [ReservationsNext]_vars => WindowInv'
  BY WindowInvNext
<1>3. WindowInv => \A i \in Identities : Undisturbed(i) =>
        Cardinality(UNION {HeldBy(v) : v \in Tokens(i)}) <= MaxReserved
  <2> SUFFICES ASSUME WindowInv, NEW i \in Identities, Undisturbed(i)
               PROVE  Cardinality(UNION {HeldBy(v) : v \in Tokens(i)}) <= MaxReserved
    OBVIOUS
  <2> DEFINE reserved == UNION {HeldBy(v) : v \in Tokens(i)}
  <2>1. \A v \in Reservations : Who(v) = i => KeepsItsSeats(v)
    BY DEF WindowInv
  <2>2. ASSUME NEW v \in Tokens(i), NEW s \in HeldBy(v) PROVE s \in Compared(i)
    <3>1. v \in Reservations /\ Who(v) = i /\ resv[v].at = "token"
      BY DEF Tokens, ReservationAt
    <3>2. s \in resv[v].held
      BY <3>1, ReservationFacts DEF WindowInv, NothingFailed
    <3>3. s \in counted[i]
      BY <2>1, <3>1, <3>2 DEF KeepsItsSeats
    <3>4. ASSUME NEW w \in Reservations, Who(w) = i PROVE s \notin Uncompared(w)
      <4>1. CASE resv[w].at \in {"expire", "scard", "over"}
        <5>1. resv[w].held \subseteq HeldBy(w)
          BY <2>1, <3>4, <4>1 DEF KeepsItsSeats
        <5>2. w # v
          BY <3>1, <4>1
        <5>3. Uncompared(w) = resv[w].held
          BY <4>1 DEF Uncompared, WindowInv, NothingFailed
        <5> QED BY <5>1, <5>2, <5>3 DEF HeldBy
      <4>2. CASE resv[w].at \notin {"expire", "scard", "over"}
        BY <4>2 DEF Uncompared, WindowInv, NothingFailed
      <4> QED BY <4>1, <4>2
    <3> QED BY <3>3, <3>4 DEF Compared
  <2>3. reserved \subseteq Compared(i) /\ Compared(i) \in SUBSET counted[i]
    BY <2>2 DEF Compared
  <2>4. reserved \in SUBSET counted[i]
    BY <2>3
  <2> HIDE DEF reserved
  <2>5. /\ IsFiniteSet(Compared(i)) /\ Cardinality(Compared(i)) \in Nat
        /\ Cardinality(reserved) \in Nat
    BY <2>3, <2>4, CountedIsFinite DEF WindowInv, ReservationsInv
  <2>6. Cardinality(reserved) <= Cardinality(Compared(i))
    BY <2>3, <2>5, FS_Subset
  <2>7. Cardinality(Compared(i)) <= MaxReserved
    BY DEF WindowInv, ComparedIsCapped
  <2> QED BY <2>5, <2>6, <2>7, ReservationsAssumption DEF reserved
<1> QED BY <1>1, <1>2, <1>3, PTL DEF ReservationsSpec

=============================================================================
