------------------------------ MODULE Gate_proofs ------------------------------
(***************************************************************************)
(* What TLAPS proves of Tickets and Gate, for any tickets, calls, messages *)
(* and devices: that a ticket is checked in once, that the custody chain   *)
(* counts its transfers, that no check-in of a gate is lost, that no       *)
(* revocation is skipped as long as inserts into the log commit in order,  *)
(* and that only a manifest can make a door admit one ticket twice.        *)
(***************************************************************************)
EXTENDS Gate, SequenceTheorems, FiniteSetTheorems, TLAPS

\* The steps each operation takes: one per await (TicketsService,
\* TicketTransferService, ValidationIngestService).
StepsOf(op) ==
  CASE op = "issue" -> {"idle", "ready", "create", "custody", "sync", "commit", "done",
                        "dropped"}
    [] op = "initiate" -> {"idle", "write", "done"}
    [] op = "claim" -> {"idle", "read", "void", "lapse", "lock", "move", "custody",
                        "sync", "commit", "done"}
    [] op = "cancel" -> {"idle", "write", "done"}
    [] op = "verify" -> {"idle", "cas", "custody", "sync", "commit", "done"}
    [] op = "ingest" -> {"idle", "ready", "cas", "custody", "sync", "commit", "done",
                         "dropped"}
    [] op = "revoke" -> {"idle", "read", "write", "custody", "sync", "commit", "done"}

Recording(c) == call[c].at \in {"custody", "sync", "commit"}
Revoked(t) == ticket[t].status = "revoked"

\* What a call knows where it is: which ticket it has at hand, and what it has
\* made true of it.
CallOK(c) ==
  /\ call[c].at \in StepsOf(CallOf[c].op)
  /\ CallOf[c].op \notin {"issue", "revoke"} => call[c].left = {}
  /\ (Recording(c) \/ call[c].at \in {"create", "void", "lapse", "lock", "move", "cas"})
       => call[c].on \in Tix
  /\ IsOp(c, "claim") /\ At(c, "read") => call[c].on \in Tix
  /\ IsOp(c, "claim") /\ (Recording(c) \/ call[c].at \in {"lock", "move"})
       => Exists(call[c].on)
  /\ IsOp(c, "ingest") /\ At(c, "idle") => call[c].on = NoTicket
  /\ IsOp(c, "ingest") /\ At(c, "ready") => call[c].on \in Tix
  /\ IsOp(c, "ingest") /\ call[c].at \in {"sync", "commit"}
       => Recorded(call[c].on, "checked_in") # {}
  /\ IsOp(c, "revoke") /\ Recording(c)
       => Revoked(call[c].on) /\ \A t \in call[c].left : Revoked(t)
  /\ At(c, "commit") => call[c].slot \in DOMAIN log

\* A check-in has taken its ticket and is about to record it.
CheckingIn(c, t) == At(c, "custody") /\ CustodyTypeOf(c) = "checked_in" /\ call[c].on = t

\* One check-in at most holds a ticket or is on record for it.
CheckinIsExclusive(t) ==
  /\ \A c, d \in Calls : CheckingIn(c, t) /\ CheckingIn(d, t) => c = d
  /\ \A c \in Calls : CheckingIn(c, t) => Recorded(t, "checked_in") = {}
  /\ \A i, j \in Recorded(t, "checked_in") : i = j
  /\ (Recorded(t, "checked_in") # {} \/ \E c \in Calls : CheckingIn(c, t))
       => ticket[t].status \in {"used", "revoked"}

\* The claims that have moved a ticket and are about to record it.
Claiming(t) == {c \in Calls : IsOp(c, "claim") /\ At(c, "custody") /\ call[c].on = t}

TransfersAreCounted(t) ==
  /\ IsFiniteSet(Claiming(t))
  /\ ticket[t].count = Cardinality(Recorded(t, "transferred")) + Cardinality(Claiming(t))
  /\ ~Exists(t) => ticket[t].count = 0

\* What the log says of revocations is so, and is so for good, also before the
\* entry has committed.
LogIsTrue == \A i \in DOMAIN log : log[i].reason = "revoked" => Revoked(log[i].ticket)

\* The inductive invariant of the server's part.
TicketsInv ==
  /\ TicketsTypeOK
  /\ \A c \in Calls : CallOK(c)
  /\ \A t \in Tix : CheckinIsExclusive(t) /\ TransfersAreCounted(t)
  /\ LogIsTrue

-----------------------------------------------------------------------------
(* The gates.                                                              *)

\* A check-in of t at gate g is in a message, and if the message is done with, on
\* record or a conflict.
Sent(g, t) ==
  \E c \in UploadsOf[g] :
    /\ call[c].on = t
    /\ At(c, "done") => c \in conflicts \/ Recorded(t, "checked_in") # {}

Queued(g) == {db[g].queue[i] : i \in DOMAIN db[g].queue}

\* The batch on its way is the head of the queue, and what of it was published is
\* in messages.
UploadOK(g) ==
  up[g].at = "send" =>
    /\ Len(up[g].batch) <= Len(db[g].queue) /\ up[g].sent <= Len(up[g].batch)
    /\ \A i \in 1 .. Len(up[g].batch) : up[g].batch[i] = db[g].queue[i]
    /\ \A i \in 1 .. up[g].sent : Sent(g, up[g].batch[i])

\* A page that scans has a manifest, a page that starts pulls nothing yet.
PageOK(g) ==
  /\ page[g].at = "scanning" => db[g].cursor # NoManifest
  /\ page[g].at \in {"closed", "starting"} => pull[g].at = "off"
  /\ scan[g].at # "idle" => scan[g].on \in Tix

\* The inductive invariant of devices and server.
DoorsInv ==
  /\ GateTypeOK /\ TicketsInv
  /\ \A g \in Gates : PageOK(g) /\ UploadOK(g)
  /\ NoCheckinIsLost

\* Entry i tells of a revocation, and committed before any entry after it.
Tells(i) == log[i].reason = "revoked" /\ log[i].in /\ ~log[i].late

\* Entry n, if there is one, has committed: what commits before it from now on is
\* late.
SettledUpTo(n) == n <= Len(log) /\ (n >= 1 => log[n].in)

\* A pull brings every ticket whose revocation an entry up to its number tells of,
\* but for those the device has already; and it brings them as they are.
PullOK(g) ==
  LET p == pull[g] IN
  p.at # "off" =>
    /\ SettledUpTo(p.max)
    /\ \A i \in 1 .. p.max :
         Tells(i)
           => log[i].ticket \in p.of \/ (i <= db[g].cursor /\ page[g].at # "loading")
    /\ p.at = "reply" =>
         \A i \in 1 .. p.max :
           log[i].reason = "revoked" /\ log[i].ticket \in p.of
             => p.row[log[i].ticket].status # "valid"

\* A revocation behind the cursor of g has reached it.
SkipsNothing(g) ==
  \A i \in DOMAIN log :
    Tells(i) /\ i <= db[g].cursor
      => db[g].row[log[i].ticket].status # "valid"

\* The inductive invariant of the manifests.
ManifestsInv ==
  \A g \in Gates : SettledUpTo(db[g].cursor) /\ PullOK(g) /\ SkipsNothing(g)

\* Records are of tickets that exist.
RecordsAreOfTickets ==
  /\ \A c \in Calls : Recording(c) => Exists(call[c].on)
  /\ \A i \in DOMAIN log : Exists(log[i].ticket)

\* A manifest read from now on brings t.
Told(t) == \E i \in DOMAIN log : log[i].in /\ log[i].ticket = t

\* The tickets the device has, and the entries it has made or is about to show.
Known(g) == {t \in Tix : db[g].row[t].status # "none"}
Entered(g) ==
  admitted[g] \cup IF scan[g].at = "queue" THEN {<<scan[g].on, scan[g].row.gen>>} ELSE {}

\* The server is ahead of the rows of the device.
RowsOK(g) ==
  \A t \in Tix :
    /\ db[g].row[t].gen <= ticket[t].count
    /\ t \in Known(g) => Told(t)
    /\ db[g].row[t].status = "revoked" => Revoked(t)

\* The ticket being scanned has a secret that has not entered here.
ScanOK(g) ==
  scan[g].at # "idle" =>
    /\ page[g].at \in {"scanning", "invalid"}
    /\ scan[g].on \in Known(g)
    /\ scan[g].row.gen <= ticket[scan[g].on].count
    /\ \A a \in admitted[g] : a[1] = scan[g].on => a[2] < scan[g].row.gen

\* A pull brings rows no older than the device has, and a download all of them.
BringsOK(g) ==
  LET p == pull[g] IN
  p.at # "off" =>
    /\ \A t \in p.of : Told(t)
    /\ page[g].at = "loading" => Known(g) \subseteq p.of
    /\ p.at = "reply" =>
         \A t \in p.of :
           /\ p.row[t].status # "none" /\ p.row[t].gen <= ticket[t].count
           /\ db[g].row[t].gen <= p.row[t].gen
           /\ scan[g].at # "idle" /\ scan[g].on = t => scan[g].row.gen <= p.row[t].gen
           /\ p.row[t].status = "revoked" => Revoked(t)
           /\ db[g].row[t].status = "revoked" => p.row[t].status = "revoked"

\* Who has entered has a newer secret here by now, or none that opens.
EnteredOK(g) ==
  \A a \in Entered(g) :
    LET row == db[g].row[a[1]] IN
    /\ a[1] \in Known(g)
    /\ a[2] < row.gen \/ (a[2] = row.gen /\ row.status \in {"used", "revoked"})

DoorOK(g) == RowsOK(g) /\ ScanOK(g) /\ BringsOK(g) /\ EnteredOK(g)

\* The inductive invariant of the entries.
EntriesInv == RecordsAreOfTickets /\ \A g \in Gates : DoorOK(g)

\* What saveManifest and applyDelta would have to see to: the manifest does not
\* make a ticket valid again that the device has used, unless with a new secret.
PullsKeepEntries ==
  \A g \in Gates : \A t \in Tix :
    PullApply(g) /\ db[g].row[t].status = "used" /\ db'[g].row[t].status = "valid"
      => db[g].row[t].gen < db'[g].row[t].gen

-----------------------------------------------------------------------------
(* What never goes back.                                                   *)

\* A ticket stays, and stays revoked; custody chains, log and conflicts only grow,
\* an entry of the log is what it was, and it commits late if one after it has
\* committed.
NothingIsUndone ==
  /\ \A t \in Tix : /\ Exists(t) => Exists(t)'
                    /\ Revoked(t) => Revoked(t)'
                    /\ Recorded(t, "checked_in") # {} => Recorded(t, "checked_in")' # {}
  /\ Len(log) \in Nat /\ Len(log)' \in Nat /\ Len(log) <= Len(log)'
  /\ DOMAIN log = 1 .. Len(log) /\ DOMAIN log' = 1 .. Len(log)'
  /\ \A i \in DOMAIN log : /\ log'[i].ticket = log[i].ticket
                           /\ log'[i].reason = log[i].reason
                           /\ log[i].in => log'[i].in
                           /\ log[i].late => log'[i].late
                           /\ log'[i].in /\ ~log'[i].late =>
                                \/ log[i].in
                                \/ \A j \in DOMAIN log : j > i => ~log[j].in
  /\ conflicts \subseteq conflicts'

\* A step of call c, or the publication of message c: the other calls stay where
\* they are.
Moved(c) == \A d \in Calls : d # c => call'[d] = call[d]

\* Another call knows what it knew.
LEMMA OthersKeepKnowing ==
  ASSUME TicketsTypeOK, NEW c \in Calls, CallOK(c), call'[c] = call[c], NothingIsUndone
  PROVE  CallOK(c)'
<1>1. call[c].on \in Tix \/ ~(Recording(c) \/ call[c].at \in {"lock", "move"})
  BY DEF CallOK
<1>2. call[c].left \subseteq Tix
  BY DEF TicketsTypeOK, CallState
<1>3. DOMAIN log \subseteq DOMAIN log'
  BY DEF NothingIsUndone
<1> QED
  BY <1>1, <1>2, <1>3 DEF CallOK, NothingIsUndone, Recording, IsOp, At, Exists, Revoked

-----------------------------------------------------------------------------
(* Steps that write neither rows nor records.                              *)

\* Nothing is undone where nothing is written.
LEMMA UnwrittenIsNotUndone ==
  ASSUME TicketsTypeOK, UNCHANGED <<ticket, custody, log>>, conflicts \subseteq conflicts'
  PROVE  NothingIsUndone
<1>1. Len(log) \in Nat /\ DOMAIN log = 1 .. Len(log)
  BY DEF TicketsTypeOK
<1> QED BY <1>1 DEF NothingIsUndone, Exists, Revoked, Recorded

\* A call that reads, refuses, or begins again, and that has no custody to record
\* before it or after it, keeps the invariant.
LEMMA QuietKeepsInv ==
  ASSUME TicketsInv, TicketsTypeOK', NEW c \in Calls, Moved(c), CallOK(c)',
         UNCHANGED <<ticket, custody, log>>, conflicts \subseteq conflicts',
         call'[c].at # "custody", IsOp(c, "claim") => ~At(c, "custody")
  PROVE  TicketsInv' /\ NothingIsUndone
<1>1. NothingIsUndone
  BY UnwrittenIsNotUndone DEF TicketsInv
<1>2. ASSUME NEW d \in Calls PROVE CallOK(d)'
  BY <1>1, OthersKeepKnowing DEF TicketsInv, Moved
<1>3. ASSUME NEW d \in Calls, NEW t, CheckingIn(d, t)'
      PROVE  CheckingIn(d, t)
  BY <1>3 DEF CheckingIn, CustodyTypeOf, IsOp, At, Moved
<1>4. \A t : Claiming(t)' = Claiming(t)
  BY DEF Claiming, IsOp, At, Moved
<1>5. ASSUME NEW t \in Tix PROVE CheckinIsExclusive(t)' /\ TransfersAreCounted(t)'
  BY <1>3, <1>4 DEF TicketsInv, CheckinIsExclusive, TransfersAreCounted, Recorded, Exists
<1>6. LogIsTrue'
  BY DEF TicketsInv, LogIsTrue, Revoked
<1> QED BY <1>1, <1>2, <1>5, <1>6 DEF TicketsInv

-----------------------------------------------------------------------------
(* What calls are, and where they go.                                      *)

\* What the constants say of a call.
LEMMA CallFacts ==
  ASSUME NEW c \in Calls
  PROVE  /\ CallOf[c].op \in Operation /\ CallOf[c].user \in Users
         /\ CallOf[c].ticket \in Tix /\ TransferAsked(c) \in Transfers
         /\ TicketAsked(c) \in Tix /\ Sender(c) \in Users
BY TicketsAssumption DEF CallType, TransferAsked, TicketAsked, Sender

\* The steps, operation by operation.
LEMMA StepsOfEach ==
  /\ StepsOf("issue") = {"idle", "ready", "create", "custody", "sync", "commit", "done",
                         "dropped"}
  /\ StepsOf("initiate") = {"idle", "write", "done"}
  /\ StepsOf("claim") = {"idle", "read", "void", "lapse", "lock", "move", "custody",
                         "sync", "commit", "done"}
  /\ StepsOf("cancel") = {"idle", "write", "done"}
  /\ StepsOf("verify") = {"idle", "cas", "custody", "sync", "commit", "done"}
  /\ StepsOf("ingest") = {"idle", "ready", "cas", "custody", "sync", "commit", "done",
                          "dropped"}
  /\ StepsOf("revoke") = {"idle", "read", "write", "custody", "sync", "commit", "done"}
  /\ \A op \in Operation : StepsOf(op) \subseteq Step
BY SMTT(60) DEF StepsOf, Operation, Step

\* The call of which an update is, and the others.
LEMMA CallUpdated ==
  ASSUME call \in [Calls -> CallState], NEW c \in Calls, NEW new \in CallState,
         call' = [call EXCEPT ![c] = new]
  PROVE  call' \in [Calls -> CallState] /\ call'[c] = new /\ Moved(c)
BY DEF Moved

\* A call goes on to its next await.
LEMMA CallGoes ==
  ASSUME call \in [Calls -> CallState], NEW c \in Calls, NEW step \in Step, Goes(c, step)
  PROVE  /\ call' \in [Calls -> CallState] /\ Moved(c)
         /\ call'[c].at = step /\ call'[c].on = call[c].on
         /\ call'[c].left = call[c].left /\ call'[c].slot = call[c].slot
<1> DEFINE new == [call[c] EXCEPT !.at = step]
<1>1. new \in CallState
  BY DEF CallState
<1>2. call' = [call EXCEPT ![c] = new]
  BY DEF Goes, CallState
<1> HIDE DEF new
<1>3. call' \in [Calls -> CallState] /\ call'[c] = new /\ Moved(c)
  BY <1>1, <1>2, CallUpdated
<1>4. /\ new.at = step /\ new.left = call[c].left /\ new.slot = call[c].slot
      /\ new.on = call[c].on
  BY DEF new, CallState
<1> QED BY <1>3, <1>4

\* It takes up a ticket.
LEMMA CallTakesUp ==
  ASSUME call \in [Calls -> CallState], NEW c \in Calls, NEW step \in Step,
         NEW t \in Tix, TakesUp(c, step, t)
  PROVE  /\ call' \in [Calls -> CallState] /\ Moved(c)
         /\ call'[c].at = step /\ call'[c].on = t
         /\ call'[c].left = call[c].left /\ call'[c].slot = call[c].slot
<1> DEFINE new == [call[c] EXCEPT !.at = step, !.on = t]
<1>1. new \in CallState
  BY DEF CallState
<1>2. call' = [call EXCEPT ![c] = new]
  BY DEF TakesUp, CallState
<1> HIDE DEF new
<1>3. call' \in [Calls -> CallState] /\ call'[c] = new /\ Moved(c)
  BY <1>1, <1>2, CallUpdated
<1>4. /\ new.at = step /\ new.left = call[c].left /\ new.slot = call[c].slot
      /\ new.on = t
  BY DEF new, CallState
<1> QED BY <1>3, <1>4

-----------------------------------------------------------------------------
(* The actions that write neither tickets nor records.                     *)

\* The tables besides tickets and records keep their types, whatever the step.
OthersTypeOK ==
  /\ paid \in BOOLEAN /\ transfer \in [Transfers -> TransferStatus]
  /\ lapsed \in SUBSET Transfers /\ conflicts \in SUBSET Calls /\ faults \in 0 .. MaxFaults

\* A call that goes on quietly to `step`.
LEMMA QuietGo ==
  ASSUME TicketsInv, NEW c \in Calls, NEW step, Goes(c, step), OthersTypeOK',
         step \in StepsOf(CallOf[c].op) \ {"idle", "ready", "custody", "sync", "commit"},
         step \in {"void", "lapse", "lock", "move", "cas"} => call[c].on \in Tix,
         IsOp(c, "claim") /\ step = "read" => call[c].on \in Tix,
         IsOp(c, "claim") /\ step \in {"lock", "move"} => Exists(call[c].on),
         step # "create",
         UNCHANGED <<ticket, custody, log>>, conflicts \subseteq conflicts',
         IsOp(c, "claim") => ~At(c, "custody")
  PROVE  TicketsInv' /\ NothingIsUndone
<1>1. call \in [Calls -> CallState] /\ step \in Step /\ CallOK(c)
  BY CallFacts, StepsOfEach DEF TicketsInv, TicketsTypeOK
<1>2. /\ call' \in [Calls -> CallState] /\ Moved(c)
      /\ call'[c].at = step /\ call'[c].on = call[c].on /\ call'[c].left = call[c].left
  BY <1>1, CallGoes
<1>3. TicketsTypeOK'
  BY <1>2 DEF TicketsInv, TicketsTypeOK, OthersTypeOK
<1>4. step \notin {"idle", "ready", "create", "custody", "sync", "commit"}
  OBVIOUS
<1>5. CallOK(c)'
  BY <1>1, <1>2, <1>4 DEF CallOK, Recording, IsOp, At, Exists
<1> QED BY <1>2, <1>3, <1>4, <1>5, QuietKeepsInv

\* A call that takes up ticket t quietly.
LEMMA QuietTakesUp ==
  ASSUME TicketsInv, NEW c \in Calls, NEW step, NEW t \in Tix, TakesUp(c, step, t),
         OthersTypeOK', At(c, "idle"),
         step \in StepsOf(CallOf[c].op) \cap {"ready", "write", "read", "lapse", "cas"},
         UNCHANGED <<ticket, custody, log, conflicts>>
  PROVE  /\ TicketsInv' /\ NothingIsUndone /\ Moved(c)
         /\ call'[c].at = step /\ call'[c].on = t
<1>1. call \in [Calls -> CallState] /\ step \in Step /\ CallOK(c)
  BY CallFacts, StepsOfEach DEF TicketsInv, TicketsTypeOK
<1>2. /\ call' \in [Calls -> CallState] /\ Moved(c)
      /\ call'[c].at = step /\ call'[c].on = t /\ call'[c].left = call[c].left
  BY <1>1, CallTakesUp
<1>3. TicketsTypeOK'
  BY <1>2 DEF TicketsInv, TicketsTypeOK, OthersTypeOK
<1>4. step \in {"ready", "write", "read", "lapse", "cas"}
  OBVIOUS
<1>5. CallOK(c)'
  BY <1>1, <1>2, <1>4 DEF CallOK, Recording, IsOp, At, Exists
<1>6. TicketsInv' /\ NothingIsUndone
  BY <1>2, <1>3, <1>4, <1>5, QuietKeepsInv DEF At
<1> QED BY <1>2, <1>6

\* It goes on with one of the tickets that are left, or ends.
LEMMA CallContinues ==
  ASSUME call \in [Calls -> CallState], NEW c \in Calls, NEW step \in Step,
         Continue(c, step)
  PROVE  /\ call' \in [Calls -> CallState] /\ Moved(c) /\ call'[c].slot = call[c].slot
         /\ \/ /\ call[c].left = {} /\ call'[c].left = {}
               /\ call'[c].at = "done" /\ call'[c].on = call[c].on
            \/ \E t \in call[c].left :
                 /\ call'[c].at = step /\ call'[c].on = t /\ t \in Tix
                 /\ call'[c].left = call[c].left \ {t}
<1>1. CASE call[c].left = {} /\ Goes(c, "done")
  <2>1. "done" \in Step
    BY DEF Step
  <2> QED BY <1>1, <2>1, CallGoes
<1>2. ASSUME NEW t \in call[c].left,
             call' = [call EXCEPT ![c].at = step, ![c].on = t, ![c].left = @ \ {t}]
      PROVE  /\ call' \in [Calls -> CallState] /\ Moved(c) /\ call'[c].slot = call[c].slot
             /\ call'[c].at = step /\ call'[c].on = t /\ t \in Tix
             /\ call'[c].left = call[c].left \ {t}
  <2> DEFINE new == [call[c] EXCEPT !.at = step, !.on = t, !.left = call[c].left \ {t}]
  <2>1. t \in Tix /\ new \in CallState
    BY DEF CallState
  <2>2. call' = [call EXCEPT ![c] = new]
    BY <1>2 DEF CallState
  <2>3. /\ new.at = step /\ new.on = t /\ new.left = call[c].left \ {t}
        /\ new.slot = call[c].slot
    BY DEF CallState
  <2> HIDE DEF new
  <2>4. call' \in [Calls -> CallState] /\ call'[c] = new /\ Moved(c)
    BY <2>1, <2>2, CallUpdated
  <2> QED BY <2>1, <2>3, <2>4
<1> QED BY <1>1, <1>2 DEF Continue

\* The reads and refusals of transfers and check-ins, and the end of an order that
\* is refunded, keep the invariant.
LEMMA QuietActionsKeepInv ==
  ASSUME TicketsInv, NEW c \in Calls,
         \/ InitiateRead(c) \/ InitiateCreate(c)
         \/ ClaimFind(c) \/ ClaimRead(c) \/ ClaimVoid(c) \/ ClaimFresh(c)
         \/ CancelRead(c) \/ CancelWrite(c) \/ VerifyRead(c) \/ IngestRead(c)
         \/ RevokeBegin(c)
  PROVE  TicketsInv' /\ NothingIsUndone
<1>1. /\ TicketsTypeOK /\ CallOK(c) /\ TransferAsked(c) \in Transfers
      /\ TicketAsked(c) \in Tix /\ CallOf[c].ticket \in Tix
  BY CallFacts DEF TicketsInv
<1>2. OthersTypeOK
  BY <1>1 DEF TicketsTypeOK, OthersTypeOK
<1>3. CallOf[c].op = "claim" \/ ~(call[c].at \in {"void", "lapse", "lock", "move"})
  BY <1>1, StepsOfEach, CallFacts DEF CallOK, Operation
<1>4. CASE InitiateRead(c)
  <2>1. OthersTypeOK' /\ "write" \in StepsOf(CallOf[c].op)
    BY <1>2, <1>4, StepsOfEach DEF InitiateRead, OthersTypeOK, IsOp, rows, records
  <2> QED BY <1>1, <1>4, <2>1, QuietTakesUp DEF InitiateRead, rows, records
<1>5. CASE InitiateCreate(c)
  <2>1. OthersTypeOK' /\ "done" \in StepsOf(CallOf[c].op)
    BY <1>1, <1>2, <1>5, StepsOfEach
    DEF InitiateCreate, OthersTypeOK, IsOp, records, TransferStatus
  <2> QED BY <1>5, <2>1, QuietGo DEF InitiateCreate, IsOp, records
<1>6. CASE ClaimFind(c)
  <2>1. PICK step \in {"lapse", "read"} : TakesUp(c, step, TicketAsked(c))
    BY <1>6 DEF ClaimFind
  <2>2. OthersTypeOK' /\ step \in StepsOf(CallOf[c].op)
    BY <1>2, <1>6, StepsOfEach DEF ClaimFind, OthersTypeOK, IsOp, rows, records
  <2> QED BY <1>1, <1>6, <2>1, <2>2, QuietTakesUp DEF ClaimFind, rows, records
<1>7. CASE ClaimRead(c)
  <2>1. PICK step \in {"void", "done", "lock"} :
          Goes(c, step) /\ (step = "lock" => ticket[call[c].on].status = "valid")
    BY <1>7 DEF ClaimRead
  <2>2. OthersTypeOK' /\ step \in StepsOf(CallOf[c].op)
    BY <1>2, <1>7, StepsOfEach DEF ClaimRead, OthersTypeOK, IsOp, rows, records
  <2>3. call[c].on \in Tix /\ (step = "lock" => Exists(call[c].on))
    BY <1>1, <1>7, <2>1 DEF ClaimRead, CallOK, Exists
  <2>4. UNCHANGED <<ticket, custody, log, conflicts>> /\ ~At(c, "custody")
    BY <1>7 DEF ClaimRead, rows, records, At
  <2> QED BY <2>1, <2>2, <2>3, <2>4, QuietGo
<1>8. CASE ClaimVoid(c)
  <2>1. OthersTypeOK' /\ "done" \in StepsOf(CallOf[c].op)
    BY <1>1, <1>2, <1>3, <1>8, StepsOfEach
    DEF ClaimVoid, OthersTypeOK, At, records, TransferStatus
  <2> QED BY <1>8, <2>1, QuietGo DEF ClaimVoid, At, records
<1>9. CASE ClaimFresh(c)
  <2>1. PICK step \in {"move", "done"} : Goes(c, step)
    BY <1>9 DEF ClaimFresh
  <2>2. OthersTypeOK' /\ step \in StepsOf(CallOf[c].op) /\ IsOp(c, "claim")
    BY <1>2, <1>3, <1>9, StepsOfEach
    DEF ClaimFresh, OthersTypeOK, IsOp, At, rows, records
  <2>3. call[c].on \in Tix /\ Exists(call[c].on)
    BY <1>1, <1>9, <2>2 DEF ClaimFresh, CallOK, At
  <2>4. UNCHANGED <<ticket, custody, log, conflicts>> /\ ~At(c, "custody")
    BY <1>9 DEF ClaimFresh, rows, records, At
  <2> QED BY <2>1, <2>2, <2>3, <2>4, QuietGo
<1>10. CASE CancelRead(c)
  <2>1. OthersTypeOK' /\ "write" \in StepsOf(CallOf[c].op)
    BY <1>2, <1>10, StepsOfEach DEF CancelRead, OthersTypeOK, IsOp, rows, records
  <2> QED BY <1>1, <1>10, <2>1, QuietTakesUp DEF CancelRead, rows, records
<1>11. CASE CancelWrite(c)
  <2>1. OthersTypeOK' /\ "done" \in StepsOf(CallOf[c].op)
    BY <1>1, <1>2, <1>11, StepsOfEach
    DEF CancelWrite, OthersTypeOK, IsOp, records, TransferStatus
  <2> QED BY <1>11, <2>1, QuietGo DEF CancelWrite, IsOp, records
<1>12. CASE VerifyRead(c)
  <2>1. OthersTypeOK' /\ "cas" \in StepsOf(CallOf[c].op)
    BY <1>2, <1>12, StepsOfEach DEF VerifyRead, OthersTypeOK, IsOp, rows, records
  <2> QED BY <1>1, <1>12, <2>1, QuietTakesUp DEF VerifyRead, rows, records
<1>13. CASE IngestRead(c)
  <2>1. PICK step \in {"cas", "done"} : Goes(c, step)
    BY <1>13 DEF IngestRead
  <2>2. /\ conflicts \subseteq conflicts' /\ conflicts' \in SUBSET Calls
        /\ UNCHANGED <<paid, ticket, transfer, lapsed, custody, log, faults>>
    BY <1>2, <1>13 DEF IngestRead, Conflict, OthersTypeOK, rows
  <2>3. OthersTypeOK' /\ step \in StepsOf(CallOf[c].op) /\ ~IsOp(c, "claim")
    BY <1>2, <1>13, <2>2, StepsOfEach DEF IngestRead, OthersTypeOK, IsOp
  <2>4. call[c].on \in Tix
    BY <1>1, <1>13 DEF IngestRead, CallOK
  <2> QED BY <2>1, <2>2, <2>3, <2>4, QuietGo
<1>14. CASE RevokeBegin(c)
  <2>1. OthersTypeOK' /\ "read" \in StepsOf(CallOf[c].op)
    BY <1>2, <1>14, StepsOfEach DEF RevokeBegin, OthersTypeOK, IsOp, records
  <2> QED BY <1>14, <2>1, QuietGo DEF RevokeBegin, IsOp, records
<1> QED
  BY <1>4, <1>5, <1>6, <1>7, <1>8, <1>9, <1>10, <1>11, <1>12, <1>13, <1>14

\* A job reads which tickets are missing (issue).
LEMMA IssueReadKeepsInv ==
  ASSUME TicketsInv, NEW c \in Calls, IssueRead(c)
  PROVE  TicketsInv' /\ NothingIsUndone
<1> USE DEF At, IsOp
<1>1. TicketsTypeOK /\ CallOK(c) /\ OthersTypeOK'
  BY DEF TicketsInv, TicketsTypeOK, IssueRead, OthersTypeOK, rows, records
<1>2. UNCHANGED <<ticket, custody, log, conflicts>> /\ CallOf[c].op = "issue"
  BY DEF IssueRead, rows, records
<1>3. CASE Goes(c, "done")
  BY <1>1, <1>2, <1>3, StepsOfEach, QuietGo
<1>4. CASE \E t \in {u \in Tix : ~Exists(u)} :
             call' = [call EXCEPT ![c].at = "create", ![c].on = t,
                                  ![c].left = {u \in Tix : ~Exists(u)} \ {t}]
  <2>1. PICK t \in Tix :
          call' = [call EXCEPT ![c].at = "create", ![c].on = t,
                               ![c].left = {u \in Tix : ~Exists(u)} \ {t}]
    BY <1>4
  <2> DEFINE left == {u \in Tix : ~Exists(u)} \ {t}
             new == [call[c] EXCEPT !.at = "create", !.on = t, !.left = left]
  <2>2. new \in CallState
    BY <1>1 DEF TicketsTypeOK, CallState, Step
  <2>3. call' = [call EXCEPT ![c] = new]
    BY <1>1, <2>1 DEF TicketsTypeOK, CallState
  <2>4. new.at = "create" /\ new.on = t
    BY <1>1 DEF TicketsTypeOK, CallState
  <2> HIDE DEF new
  <2>5. call' \in [Calls -> CallState] /\ call'[c] = new /\ Moved(c)
    BY <1>1, <2>2, <2>3, CallUpdated DEF TicketsTypeOK
  <2>6. TicketsTypeOK'
    BY <1>1, <1>2, <2>5 DEF TicketsTypeOK, OthersTypeOK
  <2>7. CallOK(c)'
    BY <1>2, <2>4, <2>5, StepsOfEach DEF CallOK, Recording
  <2> QED BY <1>2, <2>4, <2>5, <2>6, <2>7, QuietKeepsInv
<1> QED BY <1>3, <1>4 DEF IssueRead

\* A reversal reads which tickets it revokes (revokeByOrder).
LEMMA RevokeReadKeepsInv ==
  ASSUME TicketsInv, NEW c \in Calls, RevokeRead(c)
  PROVE  TicketsInv' /\ NothingIsUndone
<1> USE DEF At, IsOp
<1>1. TicketsTypeOK /\ CallOK(c) /\ OthersTypeOK'
  BY DEF TicketsInv, TicketsTypeOK, RevokeRead, OthersTypeOK, rows, records
<1>2. UNCHANGED <<ticket, custody, log, conflicts>> /\ CallOf[c].op = "revoke"
  BY DEF RevokeRead, rows, records
<1> DEFINE affected == {t \in Tix : ticket[t].status \in {"valid", "used"}}
<1>3. PICK step \in {"done", "write"} :
        call' = [call EXCEPT ![c].at = step, ![c].left = affected]
  BY DEF RevokeRead
<1> DEFINE new == [call[c] EXCEPT !.at = step, !.left = affected]
<1>4. new \in CallState /\ new.at = step
  BY <1>1 DEF TicketsTypeOK, CallState, Step
<1>5. call' = [call EXCEPT ![c] = new]
  BY <1>1, <1>3 DEF TicketsTypeOK, CallState
<1> HIDE DEF new, affected
<1>6. call' \in [Calls -> CallState] /\ call'[c] = new /\ Moved(c)
  BY <1>1, <1>4, <1>5, CallUpdated DEF TicketsTypeOK
<1>7. TicketsTypeOK'
  BY <1>1, <1>2, <1>6 DEF TicketsTypeOK, OthersTypeOK
<1>8. CallOK(c)'
  BY <1>2, <1>4, <1>6, StepsOfEach DEF CallOK, Recording
<1> QED BY <1>2, <1>4, <1>6, <1>7, <1>8, QuietKeepsInv

\* A message is delivered again, with what its handler has written in place, or
\* given up (RabbitService).
LEMMA BrokerKeepsInv ==
  ASSUME TicketsInv, NEW c \in Calls, HandlerFails(c) \/ HandlerDies(c)
  PROVE  TicketsInv' /\ NothingIsUndone
<1> USE DEF At, IsOp
<1>1. TicketsTypeOK /\ CallOK(c) /\ OthersTypeOK'
  <2>1. faults \in 0 .. MaxFaults /\ faults < MaxFaults /\ faults' = faults + 1
    BY DEF TicketsInv, TicketsTypeOK, HandlerFails, HandlerDies
  <2>2. faults' \in 0 .. MaxFaults
    BY <2>1, TicketsAssumption
  <2> QED
    BY <2>2
    DEF TicketsInv, TicketsTypeOK, HandlerFails, HandlerDies, OthersTypeOK, rows, records
<1>2. /\ UNCHANGED <<ticket, custody, log, conflicts>>
      /\ CallOf[c].op \in {"issue", "ingest"}
  BY DEF HandlerFails, HandlerDies, rows, records, FromBroker
<1>3. CASE Goes(c, "dropped")
  BY <1>1, <1>2, <1>3, StepsOfEach, QuietGo
<1>4. CASE \E tries \in Nat : Redeliver(c, tries)
  <2>1. PICK tries \in Nat : Redeliver(c, tries)
    BY <1>4
  <2> DEFINE on == IF IsOp(c, "ingest") THEN call[c].on ELSE NoTicket
             new == [NotBegun EXCEPT !.at = "ready", !.tries = tries, !.on = on]
  <2>2. call' = [call EXCEPT ![c] = new]
    BY <2>1 DEF Redeliver
  <2>3. on \in Tix \cup {NoTicket}
    BY <1>1 DEF TicketsTypeOK, CallState
  <2>4. CallOf[c].op = "ingest" => on \in Tix
    <3>1. CallOf[c].op = "ingest" => call[c].at \in {"cas", "custody", "sync"}
      BY <1>1, <1>2, StepsOfEach
      DEF CallOK, HandlerFails, HandlerDies, UnderWay, Handled
    <3> QED BY <1>1, <3>1 DEF CallOK, Recording
  <2> HIDE DEF on
  <2>5. new \in CallState
    BY <2>3 DEF CallState, Step, NotBegun
  <2>6. new.at = "ready" /\ new.on = on /\ new.left = {}
    BY DEF NotBegun
  <2> HIDE DEF new
  <2>7. call' \in [Calls -> CallState] /\ call'[c] = new /\ Moved(c)
    BY <1>1, <2>2, <2>5, CallUpdated DEF TicketsTypeOK
  <2>8. TicketsTypeOK'
    BY <1>1, <1>2, <2>7 DEF TicketsTypeOK, OthersTypeOK
  <2>9. CallOK(c)'
    BY <1>2, <2>4, <2>6, <2>7, StepsOfEach DEF CallOK, Recording
  <2> QED BY <1>2, <2>6, <2>7, <2>8, <2>9, QuietKeepsInv
<1>5. call[c].tries \in Nat /\ call[c].tries + 1 \in Nat
  BY <1>1 DEF TicketsTypeOK, CallState
<1> QED BY <1>3, <1>4, <1>5 DEF HandlerFails, HandlerDies

\* A check-in of t becomes a message (submit), and is that until it is handled.
LEMMA PublishKeepsInv ==
  ASSUME TicketsInv, NEW c \in Calls, NEW t \in Tix, Publish(c, t),
         UNCHANGED <<rows, records, faults>>
  PROVE  /\ TicketsInv' /\ NothingIsUndone /\ Moved(c)
         /\ At(c, "idle") /\ call'[c].at = "ready" /\ call'[c].on = t
<1>1. OthersTypeOK' /\ "ready" \in StepsOf(CallOf[c].op)
  BY StepsOfEach
  DEF TicketsInv, TicketsTypeOK, OthersTypeOK, rows, records, Publish, IsOp
<1> QED BY <1>1, QuietTakesUp DEF Publish, rows, records

\* A transfer that grows old, and a request that fails, touch none of it.
LEMMA OtherTablesKeepInv ==
  ASSUME TicketsInv, UNCHANGED <<ticket, custody, log, conflicts, call>>, OthersTypeOK'
  PROVE  TicketsInv' /\ NothingIsUndone
<1>1. NothingIsUndone
  BY UnwrittenIsNotUndone DEF TicketsInv
<1>2. TicketsTypeOK'
  BY DEF TicketsInv, TicketsTypeOK, OthersTypeOK
<1>3. \A c \in Calls : CallOK(c)'
  BY <1>1, OthersKeepKnowing DEF TicketsInv
<1>4. \A t : Claiming(t)' = Claiming(t)
  BY DEF Claiming, At
<1>5. \A t \in Tix : CheckinIsExclusive(t)'
  BY DEF TicketsInv, CheckinIsExclusive, Recorded, CheckingIn, At
<1>6. \A t \in Tix : TransfersAreCounted(t)'
  BY <1>4 DEF TicketsInv, TransfersAreCounted, Recorded, Exists
<1> QED BY <1>1, <1>2, <1>3, <1>5, <1>6 DEF TicketsInv, LogIsTrue, Revoked

-----------------------------------------------------------------------------
(* The actions that write tickets.                                         *)

\* Where no ticket goes away and no revoked one comes back, and the records stay
\* as they are, nothing is undone.
LEMMA RowsNotUndone ==
  ASSUME TicketsTypeOK, UNCHANGED <<custody, log>>, conflicts \subseteq conflicts',
         \A t \in Tix : (Exists(t) => Exists(t)') /\ (Revoked(t) => Revoked(t)')
  PROVE  NothingIsUndone
<1>1. Len(log) \in Nat /\ DOMAIN log = 1 .. Len(log)
  BY DEF TicketsTypeOK
<1> QED BY <1>1 DEF NothingIsUndone, Recorded

\* The log is one of entries about tickets.
LEMMA LogFacts ==
  ASSUME TicketsTypeOK
  PROVE  /\ Len(log) \in Nat /\ DOMAIN log = 1 .. Len(log)
         /\ \A i \in DOMAIN log : log[i].ticket \in Tix
<1>1. log \in Seq(LogEntry)
  BY DEF TicketsTypeOK
<1>2. Len(log) \in Nat /\ DOMAIN log = 1 .. Len(log)
  BY <1>1, LenProperties
<1>3. \A i \in 1 .. Len(log) : log[i] \in LogEntry
  BY <1>1, ElementOfSeq
<1> QED BY <1>2, <1>3 DEF LogEntry

\* The log stays true.
LEMMA RowsKeepLogTrue ==
  ASSUME TicketsTypeOK, LogIsTrue, UNCHANGED log, NothingIsUndone
  PROVE  LogIsTrue'
<1>1. \A i \in DOMAIN log : log[i].ticket \in Tix
  BY LogFacts
<1> QED BY <1>1 DEF LogIsTrue, NothingIsUndone

\* A ticket is created and goes on to its records, unless another worker has
\* created it (issue).
LEMMA IssueCreateKeepsInv ==
  ASSUME TicketsInv, NEW c \in Calls, IssueCreate(c)
  PROVE  TicketsInv' /\ NothingIsUndone
<1> DEFINE t == call[c].on
<1> USE DEF At, IsOp
<1>1. TicketsTypeOK /\ CallOK(c) /\ OthersTypeOK' /\ t \in Tix /\ CallOf[c].op = "issue"
  BY StepsOfEach, CallFacts
  DEF TicketsInv, TicketsTypeOK, IssueCreate, OthersTypeOK, records, CallOK, Operation
<1>2. UNCHANGED <<custody, log, conflicts>> /\ At(c, "create")
  BY DEF IssueCreate, records
<1>3. CASE Exists(t) /\ Continue(c, "create") /\ UNCHANGED ticket
  <2>1. "create" \in Step
    BY DEF Step
  <2>2. /\ call' \in [Calls -> CallState] /\ Moved(c)
        /\ \/ call'[c].at = "done"
           \/ call'[c].at = "create" /\ call'[c].on \in Tix
    BY <1>1, <1>3, <2>1, CallContinues DEF TicketsTypeOK
  <2>3. TicketsTypeOK'
    BY <1>1, <1>2, <1>3, <2>2 DEF TicketsTypeOK, OthersTypeOK
  <2>4. CallOK(c)'
    BY <1>1, <2>2, StepsOfEach DEF CallOK, Recording
  <2> QED BY <1>1, <1>2, <1>3, <2>2, <2>3, <2>4, QuietKeepsInv
<1>4. CASE ~Exists(t) /\ ticket' = [ticket EXCEPT ![t] = Fresh] /\ Goes(c, "custody")
  <2>1. "custody" \in Step
    BY DEF Step
  <2>2. /\ call' \in [Calls -> CallState] /\ Moved(c) /\ call'[c].at = "custody"
        /\ call'[c].on = t
    BY <1>1, <1>4, <2>1, CallGoes DEF TicketsTypeOK
  <2>3. /\ \A u \in Tix : u # t => ticket'[u] = ticket[u]
        /\ ticket'[t].status = "valid" /\ ticket'[t].count = 0
    BY <1>1, <1>4 DEF TicketsTypeOK, Fresh
  <2>4. Fresh \in [status : TicketStatus, owner : Users \cup {NoUser}, count : Nat]
    BY TicketsAssumption DEF Fresh, TicketStatus
  <2>5. TicketsTypeOK'
    BY <1>1, <1>2, <1>4, <2>2, <2>4 DEF TicketsTypeOK, OthersTypeOK
  <2>6. NothingIsUndone
    BY <1>1, <1>2, <1>4, <2>3, RowsNotUndone DEF Exists, Revoked
  <2>7. \A d \in Calls : CallOK(d)'
    <3>1. CallOK(c)'
      BY <1>1, <2>2, StepsOfEach DEF CallOK, Recording
    <3> QED BY <1>1, <2>2, <2>6, <3>1, OthersKeepKnowing DEF TicketsInv, Moved
  <2>8. \A u : \A d \in Calls : CheckingIn(d, u)' <=> CheckingIn(d, u)
    BY <1>1, <1>2, <2>2 DEF CheckingIn, CustodyTypeOf, Moved
  <2>9. \A u : Claiming(u)' = Claiming(u)
    BY <1>1, <2>2 DEF Claiming, Moved
  <2>10. \A u \in Tix : CheckinIsExclusive(u)'
    BY <1>2, <1>4, <2>3, <2>8 DEF TicketsInv, CheckinIsExclusive, Recorded, Exists
  <2>11. \A u \in Tix : TransfersAreCounted(u)'
    BY <1>2, <1>4, <2>3, <2>9 DEF TicketsInv, TransfersAreCounted, Recorded, Exists
  <2>12. LogIsTrue'
    BY <1>1, <1>2, <2>6, RowsKeepLogTrue DEF TicketsInv
  <2> QED BY <2>5, <2>6, <2>7, <2>10, <2>11, <2>12 DEF TicketsInv
<1> QED BY <1>3, <1>4 DEF IssueCreate

\* A check-in finds the ticket valid and uses it up, or is a conflict (verify,
\* applyCheckin).
LEMMA CheckInKeepsInv ==
  ASSUME TicketsInv, NEW c \in Calls, CheckIn(c)
  PROVE  TicketsInv' /\ NothingIsUndone
<1> DEFINE t == call[c].on
<1> USE DEF At, IsOp
<1>1. TicketsTypeOK /\ CallOK(c) /\ t \in Tix /\ CallOf[c].op \in {"verify", "ingest"}
  BY StepsOfEach, CallFacts DEF TicketsInv, CheckIn, CallOK, Operation
<1>2. /\ UNCHANGED <<paid, transfer, lapsed, custody, log, faults>> /\ At(c, "cas")
      /\ conflicts \subseteq conflicts'
  BY DEF CheckIn, Conflict
<1>3. OthersTypeOK'
  BY <1>1, <1>2 DEF TicketsTypeOK, OthersTypeOK, CheckIn, Conflict
<1>4. CASE Goes(c, "done") /\ UNCHANGED ticket
  BY <1>1, <1>2, <1>3, <1>4, StepsOfEach, QuietGo
<1>5. CASE /\ ticket[t].status = "valid" /\ Goes(c, "custody")
           /\ ticket' = [ticket EXCEPT ![t].status = "used"]
  <2>1. "custody" \in Step /\ "used" \in TicketStatus
    BY DEF Step, TicketStatus
  <2>2. /\ call' \in [Calls -> CallState] /\ Moved(c) /\ call'[c].at = "custody"
        /\ call'[c].on = t /\ call'[c].left = call[c].left
    BY <1>1, <1>5, <2>1, CallGoes DEF TicketsTypeOK
  <2>3. /\ \A u \in Tix : u # t => ticket'[u] = ticket[u]
        /\ ticket'[t].status = "used" /\ ticket'[t].count = ticket[t].count
    BY <1>1, <1>5 DEF TicketsTypeOK
  <2>4. TicketsTypeOK'
    BY <1>1, <1>2, <1>3, <1>5, <2>1, <2>2 DEF TicketsTypeOK, OthersTypeOK
  <2>5. NothingIsUndone
    BY <1>1, <1>2, <1>5, <2>3, RowsNotUndone DEF Exists, Revoked
  <2>6. \A d \in Calls : CallOK(d)'
    <3>1. CallOK(c)'
      BY <1>1, <2>2, StepsOfEach DEF CallOK, Recording
    <3> QED BY <1>1, <2>2, <2>5, <3>1, OthersKeepKnowing DEF TicketsInv, Moved
  <2>7. /\ \A u : \A d \in Calls :
              CheckingIn(d, u)' <=> CheckingIn(d, u) \/ (d = c /\ u = t)
        /\ \A d \in Calls : ~CheckingIn(d, t)
        /\ Recorded(t, "checked_in") = {}
    BY <1>1, <1>2, <1>5, <2>2
    DEF CheckingIn, CustodyTypeOf, Moved, TicketsInv, CheckinIsExclusive
  <2>8. \A u : Claiming(u)' = Claiming(u)
    BY <1>1, <2>2 DEF Claiming, Moved
  <2>9. \A u \in Tix : CheckinIsExclusive(u)'
    BY <1>2, <2>3, <2>7 DEF TicketsInv, CheckinIsExclusive, Recorded
  <2>10. \A u \in Tix : TransfersAreCounted(u)'
    BY <1>2, <1>5, <2>3, <2>8 DEF TicketsInv, TransfersAreCounted, Recorded, Exists
  <2>11. LogIsTrue'
    BY <1>1, <1>2, <2>5, RowsKeepLogTrue DEF TicketsInv
  <2> QED BY <2>4, <2>5, <2>6, <2>9, <2>10, <2>11 DEF TicketsInv
<1> QED BY <1>4, <1>5 DEF CheckIn

\* A ticket moves to its new owner, whatever its status is by now (claim).
LEMMA ClaimMoveKeepsInv ==
  ASSUME TicketsInv, NEW c \in Calls, ClaimMove(c)
  PROVE  TicketsInv' /\ NothingIsUndone
<1> DEFINE t == call[c].on
<1> USE DEF At, IsOp
<1>1. TicketsTypeOK /\ CallOK(c) /\ t \in Tix /\ CallOf[c].op = "claim" /\ Exists(t)
  BY StepsOfEach, CallFacts DEF TicketsInv, ClaimMove, CallOK, Operation
<1>2. /\ UNCHANGED <<paid, lapsed, custody, log, conflicts, faults>> /\ At(c, "move")
      /\ Goes(c, "custody")
  BY DEF ClaimMove, records
<1>3. OthersTypeOK'
  <2>1. transfer' = [transfer EXCEPT ![TransferAsked(c)] = "claimed"]
    BY DEF ClaimMove
  <2> QED BY <1>1, <1>2, <2>1 DEF TicketsTypeOK, OthersTypeOK, TransferStatus
<1>4. /\ "custody" \in Step /\ CallOf[c].user \in Users
      /\ ticket[t].count \in Nat
  BY <1>1, CallFacts DEF Step, TicketsTypeOK
<1>5. /\ call' \in [Calls -> CallState] /\ Moved(c) /\ call'[c].at = "custody"
      /\ call'[c].on = t /\ call'[c].left = call[c].left
  BY <1>1, <1>2, <1>4, CallGoes DEF TicketsTypeOK
<1>6. /\ \A u \in Tix : u # t => ticket'[u] = ticket[u]
      /\ ticket'[t].status = ticket[t].status /\ ticket'[t].count = ticket[t].count + 1
      /\ ticket' \in [Tix -> [status : TicketStatus, owner : Users \cup {NoUser},
                               count : Nat]]
  <2> DEFINE row == [ticket[t] EXCEPT !.owner = CallOf[c].user,
                                      !.count = ticket[t].count + 1]
  <2>1. ticket' = [ticket EXCEPT ![t] = row]
    BY <1>1 DEF ClaimMove, TicketsTypeOK
  <2>2. /\ row.status = ticket[t].status /\ row.count = ticket[t].count + 1
        /\ row \in [status : TicketStatus, owner : Users \cup {NoUser}, count : Nat]
    <3>1. /\ ticket[t] \in [status : TicketStatus, owner : Users \cup {NoUser}, count : Nat]
          /\ ticket[t].count + 1 \in Nat
      BY <1>1, <1>4 DEF TicketsTypeOK
    <3> QED BY <1>4, <3>1
  <2> HIDE DEF row
  <2> QED BY <1>1, <2>1, <2>2 DEF TicketsTypeOK
<1>7. TicketsTypeOK'
  BY <1>1, <1>2, <1>3, <1>5, <1>6 DEF TicketsTypeOK, OthersTypeOK
<1>8. NothingIsUndone
  BY <1>1, <1>2, <1>6, RowsNotUndone DEF Exists, Revoked
<1>9. \A d \in Calls : CallOK(d)'
  <2>1. CallOK(c)'
    BY <1>1, <1>5, <1>6, StepsOfEach DEF CallOK, Recording, Exists
  <2> QED BY <1>1, <1>5, <1>8, <2>1, OthersKeepKnowing DEF TicketsInv, Moved
<1>10. \A u : \A d \in Calls : CheckingIn(d, u)' <=> CheckingIn(d, u)
  BY <1>1, <1>2, <1>5 DEF CheckingIn, CustodyTypeOf, Moved
<1>11. \A u \in Tix : CheckinIsExclusive(u)'
  BY <1>2, <1>6, <1>10 DEF TicketsInv, CheckinIsExclusive, Recorded
<1>12. \A u \in Tix : TransfersAreCounted(u)'
  <2>1. ASSUME NEW u \in Tix, u # t PROVE TransfersAreCounted(u)'
    <3>1. Claiming(u)' = Claiming(u)
      BY <1>1, <1>5, <2>1 DEF Claiming, Moved
    <3> QED
      BY <1>2, <1>6, <2>1, <3>1 DEF TicketsInv, TransfersAreCounted, Recorded, Exists
  <2>2. ASSUME NEW u \in Tix, u = t PROVE TransfersAreCounted(u)'
    <3>1. Claiming(u)' = Claiming(u) \cup {c} /\ c \notin Claiming(u)
      BY <1>1, <1>2, <1>5, <2>2 DEF Claiming, Moved
    <3>2. IsFiniteSet(Claiming(u))
      BY DEF TicketsInv, TransfersAreCounted
    <3>3. /\ IsFiniteSet(Claiming(u)')
          /\ Cardinality(Claiming(u)') = Cardinality(Claiming(u)) + 1
      BY <3>1, <3>2, FS_AddElement
    <3>4. Recorded(u, "transferred")' = Recorded(u, "transferred")
      BY <1>2 DEF Recorded
    <3>5. /\ Cardinality(Claiming(u)) \in Nat
          /\ IsFiniteSet(Recorded(u, "transferred"))
      <4>1. Recorded(u, "transferred") \in SUBSET (1 .. Len(custody[u]))
        BY <1>1 DEF Recorded, TicketsTypeOK
      <4>2. Len(custody[u]) \in Nat
        BY <1>1, LenProperties DEF TicketsTypeOK
      <4>3. IsFiniteSet(1 .. Len(custody[u]))
        BY <4>2, FS_Interval
      <4> QED BY <3>2, <4>1, <4>3, FS_CardinalityType, FS_Subset
    <3>6. Cardinality(Recorded(u, "transferred")) \in Nat
      BY <3>5, FS_CardinalityType
    <3> QED
      BY <1>1, <1>6, <2>2, <3>3, <3>4, <3>5, <3>6
      DEF TicketsInv, TransfersAreCounted, Exists
  <2> QED BY <2>1, <2>2
<1>13. LogIsTrue'
  BY <1>1, <1>2, <1>8, RowsKeepLogTrue DEF TicketsInv
<1> QED BY <1>7, <1>8, <1>9, <1>11, <1>12, <1>13 DEF TicketsInv

\* The tickets of an order are revoked, whatever their status is by now
\* (revokeByOrder).
LEMMA RevokeWriteKeepsInv ==
  ASSUME TicketsInv, NEW c \in Calls, RevokeWrite(c)
  PROVE  TicketsInv' /\ NothingIsUndone
<1> DEFINE left == call[c].left
<1> USE DEF At, IsOp
<1>1. TicketsTypeOK /\ CallOK(c) /\ CallOf[c].op = "revoke"
  BY DEF TicketsInv, RevokeWrite
<1>2. /\ UNCHANGED <<paid, transfer, lapsed, custody, log, conflicts, faults>>
      /\ At(c, "write") /\ Continue(c, "custody")
      /\ ticket' = [t \in Tix |-> IF t \in left
                                  THEN [ticket[t] EXCEPT !.status = "revoked"]
                                  ELSE ticket[t]]
  BY DEF RevokeWrite, records
<1>3. "custody" \in Step /\ "revoked" \in TicketStatus
  BY DEF Step, TicketStatus
<1>4. /\ call' \in [Calls -> CallState] /\ Moved(c)
      /\ \/ call'[c].at = "done"
         \/ /\ call'[c].at = "custody" /\ call'[c].on \in left /\ call'[c].on \in Tix
            /\ call'[c].left \subseteq left
  BY <1>1, <1>2, <1>3, CallContinues DEF TicketsTypeOK
<1>5. \A t \in Tix : /\ ticket'[t].count = ticket[t].count
                     /\ t \in left => ticket'[t].status = "revoked"
                     /\ t \notin left => ticket'[t].status = ticket[t].status
  BY <1>1, <1>2 DEF TicketsTypeOK
<1>6. TicketsTypeOK'
  <2>1. ticket' \in [Tix -> [status : TicketStatus, owner : Users \cup {NoUser},
                             count : Nat]]
    BY <1>1, <1>2, <1>3 DEF TicketsTypeOK
  <2> QED BY <1>1, <1>2, <1>4, <2>1 DEF TicketsTypeOK
<1>7. NothingIsUndone
  BY <1>1, <1>2, <1>5, RowsNotUndone DEF Exists, Revoked
<1>8. left \subseteq Tix
  BY <1>1 DEF TicketsTypeOK, CallState
<1>9. \A d \in Calls : CallOK(d)'
  <2>1. CallOK(c)'
    BY <1>1, <1>4, <1>5, <1>8, StepsOfEach DEF CallOK, Recording, Revoked
  <2> QED BY <1>1, <1>4, <1>7, <2>1, OthersKeepKnowing DEF TicketsInv, Moved
<1>10. \A u : \A d \in Calls : CheckingIn(d, u)' <=> CheckingIn(d, u)
  BY <1>1, <1>2, <1>4 DEF CheckingIn, CustodyTypeOf, Moved
<1>11. \A u : Claiming(u)' = Claiming(u)
  BY <1>1, <1>4 DEF Claiming, Moved
<1>12. \A u \in Tix : CheckinIsExclusive(u)'
  BY <1>2, <1>5, <1>10 DEF TicketsInv, CheckinIsExclusive, Recorded
<1>13. \A u \in Tix : TransfersAreCounted(u)'
  BY <1>2, <1>5, <1>7, <1>11
  DEF TicketsInv, TransfersAreCounted, Recorded, Exists, NothingIsUndone
<1>14. LogIsTrue'
  BY <1>1, <1>2, <1>7, RowsKeepLogTrue DEF TicketsInv
<1> QED BY <1>6, <1>7, <1>9, <1>12, <1>13, <1>14 DEF TicketsInv

-----------------------------------------------------------------------------
(* The actions that write records.                                         *)

\* A sequence with one more element.
LEMMA AppendFacts ==
  ASSUME NEW S, NEW s \in Seq(S), NEW e \in S
  PROVE  /\ Append(s, e) \in Seq(S)
         /\ Len(s) \in Nat /\ Len(Append(s, e)) = Len(s) + 1
         /\ DOMAIN s = 1 .. Len(s) /\ DOMAIN Append(s, e) = 1 .. Len(s) + 1
         /\ \A i \in 1 .. Len(s) : Append(s, e)[i] = s[i] /\ s[i] \in S
         /\ Append(s, e)[Len(s) + 1] = e
<1>1. Append(s, e) \in Seq(S) /\ Len(s) \in Nat /\ Len(Append(s, e)) = Len(s) + 1
  OBVIOUS
<1>2. DOMAIN s = 1 .. Len(s) /\ DOMAIN Append(s, e) = 1 .. Len(s) + 1
  BY <1>1, LenProperties
<1>3. \A i \in 1 .. Len(s) : Append(s, e)[i] = s[i] /\ s[i] \in S
  BY <1>1, ElementOfSeq
<1>4. Append(s, e)[Len(s) + 1] = e
  BY <1>1
<1> QED BY <1>1, <1>2, <1>3, <1>4

\* What a new record adds to the custody chain of t, and that chains are finite.
LEMMA CustodyGrows ==
  ASSUME custody \in [Tix -> Seq([type : CustodyType, by : Calls])], NEW t \in Tix,
         NEW new \in [type : CustodyType, by : Calls],
         custody' = [custody EXCEPT ![t] = Append(@, new)]
  PROVE  /\ custody' \in [Tix -> Seq([type : CustodyType, by : Calls])]
         /\ \A type : \A u \in Tix : u # t => Recorded(u, type)' = Recorded(u, type)
         /\ \A type : type # new.type => Recorded(t, type)' = Recorded(t, type)
         /\ Recorded(t, new.type)' = Recorded(t, new.type) \cup {Len(custody[t]) + 1}
         /\ Len(custody[t]) + 1 \notin Recorded(t, new.type)
         /\ \A type : IsFiniteSet(Recorded(t, type))
<1>1. custody[t] \in Seq([type : CustodyType, by : Calls])
  OBVIOUS
<1>2. Len(custody[t]) \in Nat /\ DOMAIN custody[t] = 1 .. Len(custody[t])
  BY <1>1, LenProperties
<1>3. /\ custody'[t] = Append(custody[t], new)
      /\ \A u \in Tix : u # t => custody'[u] = custody[u]
  OBVIOUS
<1>4. /\ custody'[t] \in Seq([type : CustodyType, by : Calls])
      /\ DOMAIN custody'[t] = 1 .. Len(custody[t]) + 1
      /\ \A i \in 1 .. Len(custody[t]) : custody'[t][i] = custody[t][i]
      /\ custody'[t][Len(custody[t]) + 1] = new
  BY <1>1, <1>3, AppendFacts
<1>5. custody' \in [Tix -> Seq([type : CustodyType, by : Calls])]
  BY <1>3, <1>4
<1>6. \A type : \A u \in Tix : u # t => Recorded(u, type)' = Recorded(u, type)
  BY <1>3 DEF Recorded
<1>7. \A type : type # new.type => Recorded(t, type)' = Recorded(t, type)
  BY <1>2, <1>4 DEF Recorded
<1>8. /\ Recorded(t, new.type)' = Recorded(t, new.type) \cup {Len(custody[t]) + 1}
      /\ Len(custody[t]) + 1 \notin Recorded(t, new.type)
  BY <1>2, <1>4 DEF Recorded
<1>9. ASSUME NEW type PROVE IsFiniteSet(Recorded(t, type))
  <2>1. Recorded(t, type) \in SUBSET (1 .. Len(custody[t]))
    BY <1>2 DEF Recorded
  <2>2. IsFiniteSet(1 .. Len(custody[t]))
    BY <1>2, FS_Interval
  <2> QED BY <2>1, <2>2, FS_Subset
<1> QED BY <1>5, <1>6, <1>7, <1>8, <1>9

\* The custody record of what a call did (TicketCustodyService.record): of a
\* check-in the only one, of a claim one for the transfer it made.
LEMMA RecordCustodyKeepsInv ==
  ASSUME TicketsInv, NEW c \in Calls, RecordCustody(c)
  PROVE  TicketsInv' /\ NothingIsUndone
<1> USE DEF At, IsOp
<1>1. PICK t \in Tix : t = call[c].on
  BY DEF TicketsInv, CallOK, Recording, RecordCustody
<1>2. /\ TicketsTypeOK /\ CallOK(c) /\ At(c, "custody") /\ Goes(c, "sync")
      /\ UNCHANGED <<rows, log, conflicts, faults>>
  BY DEF TicketsInv, RecordCustody
<1>3. PICK new \in [type : CustodyType, by : Calls] :
        /\ new.type = CustodyTypeOf(c)
        /\ custody' = [custody EXCEPT ![t] = Append(@, new)]
  <2> DEFINE new == [type |-> CustodyTypeOf(c), by |-> c]
  <2>1. new \in [type : CustodyType, by : Calls]
    BY DEF CustodyTypeOf, CustodyType
  <2>2. custody' = [custody EXCEPT ![t] = Append(@, new)]
    BY <1>1 DEF RecordCustody
  <2> QED BY <2>1, <2>2
<1>4. /\ custody' \in [Tix -> Seq([type : CustodyType, by : Calls])]
      /\ \A type : \A u \in Tix : u # t => Recorded(u, type)' = Recorded(u, type)
      /\ \A type : type # new.type => Recorded(t, type)' = Recorded(t, type)
      /\ Recorded(t, new.type)' = Recorded(t, new.type) \cup {Len(custody[t]) + 1}
      /\ Len(custody[t]) + 1 \notin Recorded(t, new.type)
      /\ \A type : IsFiniteSet(Recorded(t, type))
  BY <1>2, <1>3, CustodyGrows DEF TicketsTypeOK
<1>5. /\ call' \in [Calls -> CallState] /\ Moved(c) /\ call'[c].at = "sync"
      /\ call'[c].on = t /\ call'[c].left = call[c].left
  <2>1. "sync" \in Step
    BY DEF Step
  <2> QED BY <1>1, <1>2, <2>1, CallGoes DEF TicketsTypeOK
<1>6. TicketsTypeOK'
  BY <1>2, <1>4, <1>5 DEF TicketsTypeOK, rows
<1>7. NothingIsUndone
  <2>1. Len(log) \in Nat /\ DOMAIN log = 1 .. Len(log)
    BY <1>2 DEF TicketsTypeOK
  <2>2. \A u \in Tix : Recorded(u, "checked_in") # {} => Recorded(u, "checked_in")' # {}
    BY <1>4
  <2> QED BY <1>2, <2>1, <2>2 DEF NothingIsUndone, Exists, Revoked, rows
<1>8. \A d \in Calls : CallOK(d)'
  <2>1. CallOf[c].op = "ingest" => Recorded(t, "checked_in")' # {}
    BY <1>3, <1>4 DEF CustodyTypeOf
  <2>2. CallOK(c)'
    BY <1>1, <1>2, <1>5, <2>1, StepsOfEach, CallFacts
    DEF CallOK, Recording, Exists, Revoked, rows, Operation
  <2> QED BY <1>2, <1>5, <1>7, <2>2, OthersKeepKnowing DEF TicketsInv, Moved
<1>9. \A u : \A d \in Calls : CheckingIn(d, u)' <=> CheckingIn(d, u) /\ d # c
  BY <1>1, <1>2, <1>5 DEF CheckingIn, CustodyTypeOf, Moved
<1>10. ASSUME NEW u \in Tix PROVE CheckinIsExclusive(u)'
  <2>1. CASE u # t \/ new.type # "checked_in"
    <3>1. Recorded(u, "checked_in")' = Recorded(u, "checked_in")
      BY <1>4, <2>1
    <3> QED
      BY <1>2, <1>9, <3>1 DEF TicketsInv, CheckinIsExclusive, rows
  <2>2. CASE u = t /\ new.type = "checked_in"
    <3>1. CheckingIn(c, t)
      BY <1>1, <1>2, <1>3, <2>2 DEF CheckingIn
    <3>2. Recorded(u, "checked_in") = {} /\ \A d \in Calls : CheckingIn(d, u) => d = c
      BY <2>2, <3>1 DEF TicketsInv, CheckinIsExclusive
    <3>3. Recorded(u, "checked_in")' = {Len(custody[t]) + 1}
      BY <1>4, <2>2, <3>2
    <3>4. ticket'[u].status \in {"used", "revoked"}
      BY <1>2, <2>2, <3>1 DEF TicketsInv, CheckinIsExclusive, rows
    <3> QED BY <1>9, <3>2, <3>3, <3>4 DEF CheckinIsExclusive
  <2> QED BY <2>1, <2>2
<1>11. ASSUME NEW u \in Tix PROVE TransfersAreCounted(u)'
  <2>1. CASE u # t \/ CallOf[c].op # "claim"
    <3>1. new.type = "transferred" <=> CallOf[c].op = "claim"
      BY <1>3 DEF CustodyTypeOf
    <3>2. Recorded(u, "transferred")' = Recorded(u, "transferred")
      BY <1>4, <2>1, <3>1
    <3>3. Claiming(u)' = Claiming(u)
      BY <1>1, <1>2, <1>5, <2>1 DEF Claiming, Moved
    <3> QED
      BY <1>2, <3>2, <3>3 DEF TicketsInv, TransfersAreCounted, Exists, rows
  <2>2. CASE u = t /\ CallOf[c].op = "claim"
    <3>1. new.type = "transferred"
      BY <1>3, <2>2 DEF CustodyTypeOf
    <3>2. /\ Cardinality(Recorded(u, "transferred")') =
               Cardinality(Recorded(u, "transferred")) + 1
          /\ Cardinality(Recorded(u, "transferred")) \in Nat
      <4>1. /\ Recorded(u, "transferred")' =
                 Recorded(u, "transferred") \cup {Len(custody[t]) + 1}
            /\ Len(custody[t]) + 1 \notin Recorded(u, "transferred")
            /\ IsFiniteSet(Recorded(u, "transferred"))
        BY <1>4, <2>2, <3>1
      <4> QED BY <4>1, FS_AddElement, FS_CardinalityType
    <3>3. Claiming(u)' = Claiming(u) \ {c} /\ c \in Claiming(u)
      BY <1>1, <1>2, <1>5, <2>2 DEF Claiming, Moved
    <3>4. IsFiniteSet(Claiming(u)) /\ Cardinality(Claiming(u)) \in Nat
      BY FS_CardinalityType DEF TicketsInv, TransfersAreCounted
    <3>5. /\ IsFiniteSet(Claiming(u)')
          /\ Cardinality(Claiming(u)') = Cardinality(Claiming(u)) - 1
      BY <3>3, <3>4, FS_RemoveElement
    <3> QED
      BY <1>2, <3>2, <3>4, <3>5 DEF TicketsInv, TransfersAreCounted, Exists, rows
  <2> QED BY <2>1, <2>2
<1>12. LogIsTrue'
  BY <1>2, <1>7, RowsKeepLogTrue DEF TicketsInv
<1> QED BY <1>6, <1>7, <1>8, <1>10, <1>11, <1>12 DEF TicketsInv

\* An entry of the log draws its number (TicketSyncService.record).
LEMMA RecordSyncKeepsInv ==
  ASSUME TicketsInv, NEW c \in Calls, RecordSync(c)
  PROVE  TicketsInv' /\ NothingIsUndone
<1> USE DEF At, IsOp
<1>1. PICK t \in Tix : t = call[c].on
  BY DEF TicketsInv, CallOK, Recording, RecordSync
<1>2. /\ TicketsTypeOK /\ CallOK(c) /\ At(c, "sync") /\ log' = Append(log, Entry(c))
      /\ UNCHANGED <<rows, custody, conflicts, faults>>
      /\ call' = [call EXCEPT ![c].at = "commit", ![c].slot = Len(log')]
  BY DEF TicketsInv, RecordSync
<1>3. PICK new \in LogEntry :
        /\ new = Entry(c) /\ new.ticket = t /\ new.reason = CustodyTypeOf(c) /\ ~new.in
  <2> DEFINE new ==
        [ticket |-> t, reason |-> CustodyTypeOf(c), in |-> FALSE, late |-> FALSE]
  <2>1. new = Entry(c)
    BY <1>1 DEF Entry
  <2>2. CustodyTypeOf(c) \in CustodyType
    BY DEF CustodyTypeOf, CustodyType
  <2>3. /\ new.ticket = t /\ new.reason = CustodyTypeOf(c) /\ new.in = FALSE
        /\ new \in LogEntry
    BY <2>2 DEF LogEntry
  <2> QED BY <2>1, <2>3
<1>4. /\ log' \in Seq(LogEntry) /\ Len(log) \in Nat /\ Len(log') = Len(log) + 1
      /\ DOMAIN log = 1 .. Len(log) /\ DOMAIN log' = 1 .. Len(log')
      /\ \A i \in DOMAIN log : log'[i] = log[i]
      /\ log'[Len(log')] = new
  <2>1. log \in Seq(LogEntry) /\ log' = Append(log, new)
    BY <1>2, <1>3 DEF TicketsTypeOK
  <2> QED BY <2>1, AppendFacts
<1>5. /\ call' \in [Calls -> CallState] /\ Moved(c) /\ call'[c].at = "commit"
      /\ call'[c].on = t /\ call'[c].left = call[c].left /\ call'[c].slot = Len(log')
  <2> DEFINE next == [call[c] EXCEPT !.at = "commit", !.slot = Len(log')]
  <2>1. next \in CallState
    <3>1. Len(log') \in Nat /\ call[c] \in CallState
      BY <1>2, <1>4 DEF TicketsTypeOK
    <3> QED BY <3>1 DEF CallState, Step
  <2>2. call' = [call EXCEPT ![c] = next]
    BY <1>2 DEF TicketsTypeOK, CallState
  <2>3. /\ next.at = "commit" /\ next.on = t /\ next.left = call[c].left
        /\ next.slot = Len(log')
    BY <1>1, <1>2 DEF TicketsTypeOK, CallState
  <2> HIDE DEF next
  <2> QED BY <1>2, <2>1, <2>2, <2>3, CallUpdated DEF TicketsTypeOK
<1>6. TicketsTypeOK'
  BY <1>2, <1>4, <1>5 DEF TicketsTypeOK, rows
<1>7. NothingIsUndone
  BY <1>2, <1>4 DEF NothingIsUndone, Exists, Revoked, rows, Recorded
<1>8. \A d \in Calls : CallOK(d)'
  <2>1. CallOK(c)'
    <3>1. Len(log') \in DOMAIN log'
      BY <1>4
    <3>2. "commit" \in StepsOf(CallOf[c].op)
      BY <1>2, StepsOfEach, CallFacts DEF CallOK, Operation
    <3>3. CallOf[c].op = "ingest" => Recorded(t, "checked_in")' # {}
      BY <1>1, <1>2 DEF CallOK, Recorded
    <3>4. CallOf[c].op = "claim" => Exists(t)'
      BY <1>1, <1>2 DEF CallOK, Recording, Exists, rows
    <3>5. CallOf[c].op = "revoke"
            => Revoked(t)' /\ \A u \in call[c].left : Revoked(u)'
      BY <1>1, <1>2 DEF CallOK, Recording, Revoked, rows
    <3>6. CallOf[c].op \notin {"issue", "revoke"} => call[c].left = {}
      BY <1>2 DEF CallOK
    <3> QED
      BY <1>5, <3>1, <3>2, <3>3, <3>4, <3>5, <3>6 DEF CallOK, Recording
  <2> QED BY <1>2, <1>5, <1>7, <2>1, OthersKeepKnowing DEF TicketsInv, Moved
<1>9. \A u : \A d \in Calls : CheckingIn(d, u)' <=> CheckingIn(d, u)
  BY <1>2, <1>5 DEF CheckingIn, CustodyTypeOf, Moved
<1>10. \A u : Claiming(u)' = Claiming(u)
  BY <1>2, <1>5 DEF Claiming, Moved
<1>11. \A u \in Tix : CheckinIsExclusive(u)'
  BY <1>2, <1>9 DEF TicketsInv, CheckinIsExclusive, Recorded, rows
<1>12. \A u \in Tix : TransfersAreCounted(u)'
  BY <1>2, <1>10 DEF TicketsInv, TransfersAreCounted, Recorded, Exists, rows
<1>13. LogIsTrue'
  <2>1. new.reason = "revoked" => Revoked(t)
    BY <1>1, <1>2, <1>3 DEF CustodyTypeOf, CallOK, Recording
  <2> QED BY <1>2, <1>3, <1>4, <2>1 DEF TicketsInv, LogIsTrue, Revoked, rows
<1> QED BY <1>6, <1>7, <1>8, <1>11, <1>12, <1>13 DEF TicketsInv

\* The entry commits, and the call goes on with the next ticket of its order.
LEMMA CommitSyncKeepsInv ==
  ASSUME TicketsInv, NEW c \in Calls, CommitSync(c)
  PROVE  TicketsInv' /\ NothingIsUndone
<1> USE DEF At, IsOp
<1>1. /\ TicketsTypeOK /\ CallOK(c) /\ At(c, "commit")
      /\ UNCHANGED <<rows, custody, conflicts, faults>>
  BY DEF TicketsInv, CommitSync
<1> DEFINE step == IF CallOf[c].op = "issue" THEN "create" ELSE "custody"
<1>2. PICK slot \in DOMAIN log : slot = call[c].slot
  BY <1>1 DEF CallOK
<1> DEFINE late == \E i \in DOMAIN log : i > slot /\ log[i].in
<1>3. /\ log \in Seq(LogEntry)
      /\ log' = [log EXCEPT ![slot].in = TRUE, ![slot].late = @ \/ late]
  BY <1>1, <1>2 DEF TicketsTypeOK, CommitSync
<1> HIDE DEF late
<1>4. Len(log) \in Nat /\ DOMAIN log = 1 .. Len(log) /\ log[slot] \in LogEntry
  <2>1. Len(log) \in Nat /\ DOMAIN log = 1 .. Len(log)
    BY <1>3, LenProperties
  <2> QED BY <1>3, <2>1, ElementOfSeq
<1>5. /\ log' \in Seq(LogEntry) /\ Len(log') = Len(log) /\ DOMAIN log' = DOMAIN log
      /\ \A i \in DOMAIN log : /\ log'[i].ticket = log[i].ticket
                               /\ log'[i].reason = log[i].reason
                               /\ log'[i].in <=> log[i].in \/ i = slot
                               /\ log'[i].late <=> log[i].late \/ (i = slot /\ late)
  <2> DEFINE new == [log[slot] EXCEPT !.in = TRUE, !.late = @ \/ late]
  <2>1. /\ new \in LogEntry /\ new.in /\ (new.late <=> log[slot].late \/ late)
        /\ new.ticket = log[slot].ticket /\ new.reason = log[slot].reason
    BY <1>4 DEF LogEntry
  <2>2. log' = [log EXCEPT ![slot] = new]
    BY <1>3, <1>4 DEF LogEntry
  <2> HIDE DEF new
  <2>5. slot \in 1 .. Len(log) /\ log \in Seq(LogEntry)
    BY <1>3, <1>4
  <2>3. /\ log' \in Seq(LogEntry) /\ Len(log') = Len(log)
        /\ \A i \in 1 .. Len(log) : log'[i] = IF i = slot THEN new ELSE log[i]
    BY <1>4, <2>1, <2>2, <2>5, ExceptSeq
  <2>4. DOMAIN log' = DOMAIN log
    BY <2>2
  <2> QED BY <1>4, <2>1, <2>3, <2>4
<1>6. /\ call' \in [Calls -> CallState] /\ Moved(c) /\ call'[c].slot = call[c].slot
      /\ \/ /\ call[c].left = {} /\ call'[c].left = {}
            /\ call'[c].at = "done" /\ call'[c].on = call[c].on
         \/ \E t \in call[c].left :
              /\ call'[c].at = step /\ call'[c].on = t /\ t \in Tix
              /\ call'[c].left = call[c].left \ {t}
  <2>1. step \in Step /\ Continue(c, step)
    BY DEF CommitSync, NextTicket, Step
  <2> HIDE DEF step
  <2> QED BY <1>1, <2>1, CallContinues DEF TicketsTypeOK
<1>7. TicketsTypeOK'
  BY <1>1, <1>5, <1>6 DEF TicketsTypeOK, rows
<1>8. NothingIsUndone
  BY <1>1, <1>4, <1>5 DEF NothingIsUndone, Exists, Revoked, rows, Recorded, late
<1>9. call[c].left # {} => CallOf[c].op \in {"issue", "revoke"}
  BY <1>1 DEF CallOK
<1>10. \A d \in Calls : CallOK(d)'
  <2>1. CallOK(c)'
    BY <1>1, <1>6, <1>9, StepsOfEach, CallFacts
    DEF CallOK, Recording, Exists, Revoked, rows, Operation
  <2> QED BY <1>1, <1>6, <1>8, <2>1, OthersKeepKnowing DEF TicketsInv, Moved
<1>11. \A u : \A d \in Calls : CheckingIn(d, u)' <=> CheckingIn(d, u)
  BY <1>1, <1>6, <1>9 DEF CheckingIn, CustodyTypeOf, Moved
<1>12. \A u : Claiming(u)' = Claiming(u)
  BY <1>1, <1>6, <1>9 DEF Claiming, Moved
<1>13. \A u \in Tix : CheckinIsExclusive(u)'
  BY <1>1, <1>11 DEF TicketsInv, CheckinIsExclusive, Recorded, rows
<1>14. \A u \in Tix : TransfersAreCounted(u)'
  BY <1>1, <1>12 DEF TicketsInv, TransfersAreCounted, Recorded, Exists, rows
<1>15. LogIsTrue'
  <2>1. SUFFICES ASSUME NEW i \in DOMAIN log', log'[i].reason = "revoked"
                 PROVE  ticket'[log'[i].ticket].status = "revoked"
    BY DEF LogIsTrue, Revoked
  <2>2. i \in DOMAIN log /\ log[i].reason = "revoked" /\ log'[i].ticket = log[i].ticket
    BY <1>5, <2>1
  <2>3. Revoked(log[i].ticket)
    BY <2>2 DEF TicketsInv, LogIsTrue
  <2>4. UNCHANGED ticket
    BY <1>1 DEF rows
  <2> QED BY <2>2, <2>3, <2>4 DEF Revoked
<1> QED BY <1>7, <1>8, <1>10, <1>13, <1>14, <1>15 DEF TicketsInv

-----------------------------------------------------------------------------
(* The server as a whole.                                                  *)

\* Every step of a call, or of the broker with it, keeps the invariant, and none
\* takes back what was done.
LEMMA CallStepKeepsInv ==
  ASSUME TicketsInv, NEW c \in Calls, CallStep(c)
  PROVE  TicketsInv' /\ NothingIsUndone
BY IssueReadKeepsInv, RevokeReadKeepsInv, BrokerKeepsInv, QuietActionsKeepInv,
   IssueCreateKeepsInv, CheckInKeepsInv, ClaimMoveKeepsInv, RevokeWriteKeepsInv,
   RecordCustodyKeepsInv, RecordSyncKeepsInv, CommitSyncKeepsInv
DEF CallStep, CallGoesOn

\* So does every step of the server.
LEMMA TicketsStepKeepsInv ==
  ASSUME TicketsInv, TicketsNext
  PROVE  TicketsInv' /\ NothingIsUndone
<1>1. CASE \E c \in Calls : CallStep(c)
  BY <1>1, CallStepKeepsInv
<1>2. CASE \E x \in Transfers : TransferLapses(x)
  <2>1. OthersTypeOK' /\ UNCHANGED <<ticket, custody, log, conflicts, call>>
    BY <1>2 DEF TransferLapses, OthersTypeOK, TicketsInv, TicketsTypeOK, records
  <2> QED BY <2>1, OtherTablesKeepInv
<1> QED BY <1>1, <1>2 DEF TicketsNext

\* At the start the order is paid, and nothing is issued yet.
LEMMA TicketsStart0 ==
  ASSUME TicketsInit
  PROVE  TicketsInv /\ log = <<>> /\ \A c \in Calls : call[c] = NotBegun
<1>1. ticket = [t \in Tix |-> Absent] /\ custody = [t \in Tix |-> <<>>]
  BY DEF TicketsInit, TicketsStart, IssuedBefore
<1>2. log = <<>>
  <2> DEFINE order == [1 .. Cardinality({}) -> {}]
             nth == CHOOSE f \in order : \A t \in {} : \E i \in DOMAIN f : f[i] = t
  <2>1. 1 .. Cardinality({}) = {}
    BY FS_EmptySet
  <2>2. nth \in order
    <3>1. \E f \in order : \A t \in {} : \E i \in DOMAIN f : f[i] = t
      <4>1. [i \in {} |-> i] \in order
        BY <2>1
      <4> QED BY <4>1
    <3> HIDE DEF order
    <3> QED BY <3>1
  <2>3. DOMAIN nth = {}
    BY <2>1, <2>2
  <2>4. log = [i \in DOMAIN nth |->
                 [ticket |-> nth[i], reason |-> "issued", in |-> TRUE, late |-> FALSE]]
    BY DEF TicketsInit, TicketsStart, IssuedBefore
  <2> HIDE DEF nth
  <2> QED BY <2>3, <2>4
<1>3. \A c \in Calls : call[c] = NotBegun
  BY DEF TicketsInit, TicketsStart
<1>4. NotBegun \in CallState /\ Absent \in [status : TicketStatus,
                                            owner : Users \cup {NoUser}, count : Nat]
  BY DEF NotBegun, CallState, Step, Absent, TicketStatus
<1>5. TicketsTypeOK
  BY <1>1, <1>2, <1>4, TicketsAssumption
  DEF TicketsTypeOK, TicketsInit, TicketsStart, TransferStatus
<1>6. ASSUME NEW c \in Calls PROVE CallOK(c)
  <2>1. call[c].at = "idle" /\ call[c].on = NoTicket /\ call[c].left = {}
    BY <1>3 DEF NotBegun
  <2>2. "idle" \in StepsOf(CallOf[c].op)
    BY StepsOfEach, CallFacts DEF Operation
  <2> QED BY <2>1, <2>2 DEF CallOK, Recording, At, IsOp
<1>7. \A t, type : t \in Tix => Recorded(t, type) = {}
  BY <1>1 DEF Recorded
<1>8. /\ \A t : \A c \in Calls : ~CheckingIn(c, t)
      /\ \A t : Claiming(t) = {}
  BY <1>3 DEF CheckingIn, Claiming, At, NotBegun
<1>9. ASSUME NEW t \in Tix PROVE CheckinIsExclusive(t) /\ TransfersAreCounted(t)
  <2>1. CheckinIsExclusive(t)
    BY <1>7, <1>8 DEF CheckinIsExclusive
  <2>2. ticket[t].count = 0 /\ Cardinality({}) = 0 /\ IsFiniteSet({})
    BY <1>1, FS_EmptySet DEF Absent
  <2>3. Recorded(t, "transferred") = {} /\ Claiming(t) = {}
    BY <1>7, <1>8
  <2> QED BY <2>1, <2>2, <2>3 DEF TransfersAreCounted
<1>10. LogIsTrue
  BY <1>2 DEF LogIsTrue
<1> QED BY <1>2, <1>3, <1>5, <1>6, <1>9, <1>10 DEF TicketsInv

-----------------------------------------------------------------------------
(* What the server makes of the messages.                                  *)

\* A message that was published stays the check-in it is, and is done with only
\* once the check-in is on record or a conflict.
MessagesKept ==
  \A c \in Calls : IsOp(c, "ingest") =>
    /\ ~At(c, "idle") => call'[c].on = call[c].on
    /\ call'[c].at = "done" =>
         \/ At(c, "done") /\ UNCHANGED call[c]
         \/ c \in conflicts'
         \/ (call[c].on \in Tix /\ Recorded(call[c].on, "checked_in") # {})'

\* Where no call moves, messages stay.
LEMMA UnmovedKeepsMessages ==
  ASSUME UNCHANGED call
  PROVE  MessagesKept
BY DEF MessagesKept, At

\* A step of one call moves no other.
LEMMA CallStepMoves ==
  ASSUME TicketsTypeOK, NEW c \in Calls, CallStep(c)
  PROVE  Moved(c)
<1>1. call \in [Calls -> CallState]
  BY DEF TicketsTypeOK
<1>2. \A step : \A d \in Calls : Goes(c, step) /\ d # c => call'[d] = call[d]
  BY <1>1 DEF Goes
<1>3. \A step, t : \A d \in Calls : TakesUp(c, step, t) /\ d # c => call'[d] = call[d]
  BY <1>1 DEF TakesUp
<1>4. \A step : \A d \in Calls : Continue(c, step) /\ d # c => call'[d] = call[d]
  BY <1>1, <1>2 DEF Continue
<1>5. \A tries : \A d \in Calls : Redeliver(c, tries) /\ d # c => call'[d] = call[d]
  BY <1>1 DEF Redeliver
<1>6. CASE HandlerFails(c) \/ HandlerDies(c)
  BY <1>2, <1>5, <1>6 DEF HandlerFails, HandlerDies, Moved
<1>7. CASE IssueRead(c) \/ RevokeRead(c) \/ RecordSync(c)
  BY <1>1, <1>2, <1>7 DEF IssueRead, RevokeRead, RecordSync, Moved
<1>8. CASE IssueCreate(c) \/ RevokeWrite(c) \/ CommitSync(c)
  BY <1>2, <1>4, <1>8 DEF IssueCreate, RevokeWrite, CommitSync, NextTicket, Moved
<1>9. CASE InitiateRead(c) \/ ClaimFind(c) \/ CancelRead(c) \/ VerifyRead(c)
  BY <1>3, <1>9 DEF InitiateRead, ClaimFind, CancelRead, VerifyRead, Moved
<1>10. CASE \/ RevokeBegin(c) \/ InitiateCreate(c) \/ ClaimRead(c) \/ ClaimVoid(c)
            \/ ClaimFresh(c) \/ ClaimMove(c) \/ CancelWrite(c) \/ IngestRead(c)
            \/ CheckIn(c) \/ RecordCustody(c)
  BY <1>2, <1>10
  DEF RevokeBegin, InitiateCreate, ClaimRead, ClaimVoid, ClaimFresh, ClaimMove,
      CancelWrite, IngestRead, CheckIn, RecordCustody, Moved
<1> QED BY <1>6, <1>7, <1>8, <1>9, <1>10 DEF CallStep, CallGoesOn

\* Every step of the server keeps the messages: the handler ends with the check-in
\* on record or with a conflict, and begins again with the check-in it had.
LEMMA ServerKeepsMessages ==
  ASSUME TicketsInv, TicketsNext
  PROVE  MessagesKept
<1> USE DEF At, IsOp
<1>1. CASE \E x \in Transfers : TransferLapses(x)
  BY <1>1, UnmovedKeepsMessages DEF TransferLapses
<1>2. ASSUME NEW c \in Calls, CallStep(c) PROVE MessagesKept
  <2>1. TicketsTypeOK /\ CallOK(c) /\ Moved(c) /\ call \in [Calls -> CallState]
    BY <1>2, CallStepMoves DEF TicketsInv, TicketsTypeOK
  <2>2. CASE CallOf[c].op # "ingest"
    BY <2>1, <2>2 DEF MessagesKept, Moved
  <2>3. CASE CallOf[c].op = "ingest"
    <3>1. /\ call[c].at \in {"idle", "ready", "cas", "custody", "sync", "commit", "done",
                             "dropped"}
          /\ call[c].left = {}
      BY <2>1, <2>3, StepsOfEach DEF CallOK
    <3>2. \/ IngestRead(c) \/ CheckIn(c) \/ RecordCustody(c) \/ RecordSync(c)
          \/ CommitSync(c) \/ HandlerFails(c) \/ HandlerDies(c)
      BY <1>2, <2>3, <3>1
      DEF CallStep, CallGoesOn, IssueRead, InitiateRead, ClaimFind, CancelRead, VerifyRead,
          RevokeBegin, IssueCreate, InitiateCreate, ClaimRead, ClaimVoid, ClaimFresh,
          ClaimMove, CancelWrite, RevokeRead, RevokeWrite
    <3>3. SUFFICES
            /\ call[c].at # "idle" => call'[c].on = call[c].on
            /\ call'[c].at = "done" =>
                 \/ c \in conflicts'
                 \/ (call[c].on \in Tix /\ Recorded(call[c].on, "checked_in") # {})'
      BY <2>1 DEF MessagesKept, Moved
    <3>4. \A step : Goes(c, step) => call'[c].at = step /\ call'[c].on = call[c].on
      BY <2>1 DEF Goes, CallState
    <3>5. CASE IngestRead(c)
      BY <2>3, <3>4, <3>5 DEF IngestRead, Conflict
    <3>6. CASE CheckIn(c)
      BY <2>3, <3>4, <3>6 DEF CheckIn, Conflict
    <3>7. CASE RecordCustody(c)
      BY <3>4, <3>7 DEF RecordCustody
    <3>8. CASE RecordSync(c)
      BY <2>1, <3>8 DEF RecordSync, CallState
    <3>9. CASE CommitSync(c)
      <4>1. call[c].on \in Tix /\ Recorded(call[c].on, "checked_in") # {}
        BY <2>1, <2>3, <3>9 DEF CommitSync, CallOK, Recording
      <4>2. Goes(c, "done") /\ UNCHANGED custody
        BY <3>1, <3>9 DEF CommitSync, NextTicket, Continue
      <4> QED BY <3>4, <4>1, <4>2 DEF Recorded
    <3>10. CASE HandlerFails(c) \/ HandlerDies(c)
      <4>1. \A tries : Redeliver(c, tries)
                         => call'[c].at = "ready" /\ call'[c].on = call[c].on
        BY <2>1, <2>3 DEF Redeliver, NotBegun
      <4> QED BY <3>4, <3>10, <4>1 DEF HandlerFails, HandlerDies
    <3> QED BY <3>2, <3>5, <3>6, <3>7, <3>8, <3>9, <3>10
  <2> QED BY <2>2, <2>3
<1> QED BY <1>1, <1>2 DEF TicketsNext

\* A check-in that is in a message is not lost.
LEMMA SentStays ==
  ASSUME TicketsInv, NothingIsUndone, MessagesKept, NEW g \in Gates, NEW t \in Tix,
         Sent(g, t)
  PROVE  Sent(g, t)'
<1> USE DEF At, IsOp
<1>1. PICK c \in UploadsOf[g] :
        /\ call[c].on = t
        /\ call[c].at = "done" => c \in conflicts \/ Recorded(t, "checked_in") # {}
  BY DEF Sent
<1>2. c \in Calls /\ CallOf[c].op = "ingest"
  BY GateAssumption
<1>3. call[c].at # "idle" /\ CallOK(c)
  BY <1>1, <1>2, TicketsAssumption DEF TicketsInv, CallOK
<1>4. call'[c].on = t
  BY <1>1, <1>2, <1>3 DEF MessagesKept
<1>5. call'[c].at = "done" =>
        c \in conflicts' \/ Recorded(t, "checked_in")' # {}
  BY <1>1, <1>2, <1>4 DEF MessagesKept, NothingIsUndone
<1> QED BY <1>1, <1>4, <1>5 DEF Sent

-----------------------------------------------------------------------------
(* The devices: types, and what a step of one leaves of the others.        *)

DbState == [row : [Tix -> Row], cursor : Nat \cup {NoManifest}, queue : Seq(Tix)]
PageState == [at : {"closed", "starting", "loading", "scanning", "invalid"},
              online : BOOLEAN, expired : BOOLEAN]
ScanState == [at : {"idle", "mark", "queue"}, on : Tix \cup {NoTicket}, row : Row]
UploadState == [at : {"off", "read", "send", "failed"}, batch : Seq(Tix), sent : Nat]
PullState == [at : {"off", "rows", "reply"}, max : Nat, row : [Tix -> Row],
              of : SUBSET Tix]

DeviceTypeOK ==
  /\ session \in [Validators -> Gates \cup {NoGate, Disabled}]
  /\ db \in [Gates -> DbState] /\ page \in [Gates -> PageState]
  /\ scan \in [Gates -> ScanState] /\ up \in [Gates -> UploadState]
  /\ pull \in [Gates -> PullState] /\ admitted \in [Gates -> SUBSET (Tix \X Nat)]
  /\ budget \in [DOMAIN Budget -> Nat]

\* The types of the model are those of the server and those of the devices.
LEMMA TypesApart == GateTypeOK <=> TicketsTypeOK /\ DeviceTypeOK
BY DEF GateTypeOK, DeviceTypeOK, DbState, PageState, ScanState, UploadState, PullState

\* What a gate has shown green is queued or sent.
Kept(g) == \A a \in admitted[g] : a[1] \in Queued(g) \/ Sent(g, a[1])

\* The invariant, gate by gate.
LEMMA DoorByDoor ==
  DoorsInv <=> /\ DeviceTypeOK /\ TicketsInv
               /\ \A g \in Gates : PageOK(g) /\ UploadOK(g) /\ Kept(g)
BY TypesApart DEF DoorsInv, NoCheckinIsLost, Kept, Queued, Sent, TicketsInv

\* The devices other than g stay as they are.
OtherDoors(g) ==
  \A h \in Gates \ {g} :
    /\ db'[h] = db[h] /\ page'[h] = page[h] /\ scan'[h] = scan[h]
    /\ up'[h] = up[h] /\ pull'[h] = pull[h] /\ admitted'[h] = admitted[h]

\* What a sequence of tickets holds.
LEMMA QueueFacts ==
  ASSUME NEW q \in Seq(Tix)
  PROVE  Len(q) \in Nat /\ DOMAIN q = 1 .. Len(q) /\ \A i \in DOMAIN q : q[i] \in Tix
<1>1. Len(q) \in Nat /\ DOMAIN q = 1 .. Len(q)
  BY LenProperties
<1> QED BY <1>1, ElementOfSeq

\* A gate whose queue stays, and that sends nothing new, loses nothing.
LEMMA QueueStays ==
  ASSUME DoorsInv, NothingIsUndone, MessagesKept, NEW g \in Gates,
         db'[g].queue = db[g].queue, admitted'[g] = admitted[g],
         up'[g] = up[g] \/ up'[g].at # "send"
  PROVE  UploadOK(g)' /\ Kept(g)'
<1>1. DeviceTypeOK /\ TicketsInv /\ UploadOK(g) /\ Kept(g)
  BY DoorByDoor
<1>2. \A t \in Tix : Sent(g, t) => Sent(g, t)'
  BY <1>1, SentStays
<1>3. \A a \in admitted[g] : a[1] \in Tix
  BY <1>1 DEF DeviceTypeOK
<1>4. Kept(g)'
  BY <1>1, <1>2, <1>3 DEF Kept, Queued
<1>5. \A i \in 1 .. Len(up[g].batch) : up[g].batch[i] \in Tix
  BY <1>1, QueueFacts DEF DeviceTypeOK, UploadState
<1>6. CASE up'[g].at # "send"
  BY <1>4, <1>6 DEF UploadOK
<1>7. CASE up'[g] = up[g] /\ up[g].at = "send"
  <2>1. up[g].sent \in Nat /\ Len(up[g].batch) \in Nat /\ up[g].sent <= Len(up[g].batch)
    BY <1>1, <1>7, QueueFacts DEF DeviceTypeOK, UploadState, UploadOK
  <2>2. \A i \in 1 .. up[g].sent : Sent(g, up[g].batch[i])'
    BY <1>1, <1>2, <1>5, <1>7, <2>1 DEF UploadOK
  <2> QED BY <1>1, <1>4, <1>7, <2>2 DEF UploadOK
<1> QED BY <1>4, <1>6, <1>7

\* A step that leaves a device alone keeps what holds of it.
LEMMA DoorStays ==
  ASSUME DoorsInv, NothingIsUndone, MessagesKept, NEW g \in Gates,
         db'[g] = db[g], page'[g] = page[g], scan'[g] = scan[g], up'[g] = up[g],
         pull'[g] = pull[g], admitted'[g] = admitted[g]
  PROVE  PageOK(g)' /\ UploadOK(g)' /\ Kept(g)'
<1>1. PageOK(g)'
  BY DoorByDoor DEF PageOK
<1> QED BY <1>1, QueueStays

\* A step of device g keeps the invariant where it keeps what holds of g.
LEMMA DoorSteps ==
  ASSUME DoorsInv, TicketsInv', NothingIsUndone, MessagesKept, NEW g \in Gates,
         DeviceTypeOK', OtherDoors(g), PageOK(g)', UploadOK(g)', Kept(g)'
  PROVE  DoorsInv'
<1>1. \A h \in Gates \ {g} : PageOK(h)' /\ UploadOK(h)' /\ Kept(h)'
  BY DoorStays DEF OtherDoors
<1>2. \A h \in Gates : PageOK(h)' /\ UploadOK(h)' /\ Kept(h)'
  BY <1>1
<1>3. NoCheckinIsLost'
  BY <1>2 DEF NoCheckinIsLost, Kept, Queued, Sent
<1>4. GateTypeOK'
  BY DEF GateTypeOK, DeviceTypeOK, DbState, PageState, ScanState, UploadState, PullState,
         TicketsInv
<1> QED BY <1>2, <1>3, <1>4 DEF DoorsInv

\* A step that leaves the server alone keeps its invariant and its messages.
LEMMA ServerStays ==
  ASSUME TicketsInv, UNCHANGED serverVars
  PROVE  TicketsInv' /\ NothingIsUndone /\ MessagesKept
<1>1. OthersTypeOK' /\ UNCHANGED <<ticket, custody, log, conflicts, call>>
  BY DEF TicketsInv, TicketsTypeOK, OthersTypeOK, serverVars
<1> QED BY <1>1, OtherTablesKeepInv, UnmovedKeepsMessages

\* So does one that fails a request.
LEMMA RequestFails ==
  ASSUME TicketsInv, UNCHANGED <<rows, records, call>>,
         UNCHANGED faults \/ (faults < MaxFaults /\ faults' = faults + 1)
  PROVE  TicketsInv' /\ NothingIsUndone /\ MessagesKept
<1>1. faults \in 0 .. MaxFaults /\ MaxFaults \in Nat
  BY TicketsAssumption DEF TicketsInv, TicketsTypeOK
<1>2. faults' \in 0 .. MaxFaults
  BY <1>1
<1>3. OthersTypeOK' /\ UNCHANGED <<ticket, custody, log, conflicts, call>>
  BY <1>2 DEF TicketsInv, TicketsTypeOK, OthersTypeOK, rows, records
<1> QED BY <1>3, OtherTablesKeepInv, UnmovedKeepsMessages

\* The update of one device's part, and the others.
LEMMA Updated ==
  ASSUME NEW S, NEW f \in [Gates -> S], NEW g \in Gates, NEW e \in S, NEW new,
         new = [f EXCEPT ![g] = e]
  PROVE  /\ new \in [Gates -> S] /\ new[g] = e
         /\ \A h \in Gates \ {g} : new[h] = f[h]
OBVIOUS

-----------------------------------------------------------------------------
(* The steps of a device that neither queue nor send.                      *)

\* A step that leaves queue and batch of device g alone keeps the invariant.
LEMMA QuietDoor ==
  ASSUME DoorsInv, TicketsInv', NothingIsUndone, MessagesKept, NEW g \in Gates,
         DeviceTypeOK', OtherDoors(g), PageOK(g)',
         db'[g].queue = db[g].queue, admitted' = admitted,
         up'[g] = up[g] \/ up'[g].at # "send"
  PROVE  DoorsInv'
BY QueueStays, DoorSteps

\* A page enters a phase.
LEMMA PageEnters ==
  ASSUME DeviceTypeOK, NEW g \in Gates, NEW phase, Enters(g, phase),
         phase \in {"closed", "starting", "loading", "scanning", "invalid"}
  PROVE  /\ page' \in [Gates -> PageState] /\ page'[g].at = phase
         /\ \A h \in Gates \ {g} : page'[h] = page[h]
<1> DEFINE new == [page[g] EXCEPT !.at = phase]
<1>1. page \in [Gates -> PageState] /\ page' = [page EXCEPT ![g] = new]
  BY DEF DeviceTypeOK, Enters
<1>2. new \in PageState /\ new.at = phase
  BY <1>1 DEF PageState
<1> HIDE DEF new
<1> QED BY <1>1, <1>2, Updated

\* An upload goes on to its next step.
LEMMA UploadGoes ==
  ASSUME DeviceTypeOK, NEW g \in Gates, NEW step \in {"off", "read", "send", "failed"},
         up' = [up EXCEPT ![g].at = step]
  PROVE  /\ up' \in [Gates -> UploadState] /\ up'[g].at = step
         /\ \A h \in Gates \ {g} : up'[h] = up[h]
<1> DEFINE new == [up[g] EXCEPT !.at = step]
<1>1. up \in [Gates -> UploadState] /\ up' = [up EXCEPT ![g] = new]
  BY DEF DeviceTypeOK
<1>2. new \in UploadState /\ new.at = step
  BY <1>1 DEF UploadState
<1> HIDE DEF new
<1> QED BY <1>1, <1>2, Updated

\* It ends, or begins anew.
LEMMA UploadEnds ==
  ASSUME DeviceTypeOK, NEW g \in Gates, NEW step \in {"off", "read", "failed"},
         up' = [up EXCEPT ![g] = [NoUpload EXCEPT !.at = step]]
  PROVE  /\ up' \in [Gates -> UploadState] /\ up'[g].at = step
         /\ \A h \in Gates \ {g} : up'[h] = up[h]
<1> DEFINE new == [NoUpload EXCEPT !.at = step]
<1>1. up \in [Gates -> UploadState] /\ up' = [up EXCEPT ![g] = new]
  BY DEF DeviceTypeOK
<1>2. new \in UploadState /\ new.at = step
  <2>1. <<>> \in Seq(Tix)
    OBVIOUS
  <2> QED BY <2>1 DEF UploadState, NoUpload
<1> HIDE DEF new
<1> QED BY <1>1, <1>2, Updated

\* The bounds on what comes from outside.
LEMMA BudgetSpent ==
  ASSUME DeviceTypeOK, NEW kind \in {"network", "reload", "clock", "access"},
         Happens(kind)
  PROVE  budget' \in [DOMAIN Budget -> Nat]
<1>1. kind \in DOMAIN Budget /\ budget \in [DOMAIN Budget -> Nat]
  BY GateAssumption DEF DeviceTypeOK
<1>2. budget[kind] - 1 \in Nat
  BY <1>1 DEF Happens
<1> QED BY <1>1, <1>2 DEF Happens

\* The link is opened and claimed (claim, start).
LEMMA StartKeepsDoors ==
  ASSUME DoorsInv, NEW g \in Gates, Start(g)
  PROVE  DoorsInv' /\ NothingIsUndone
<1>1. DeviceTypeOK /\ TicketsInv /\ PageOK(g) /\ page[g].at = "closed"
  BY DoorByDoor DEF Start
<1>2. /\ UNCHANGED <<serverVars, db, scan, pull, admitted, budget>>
      /\ Enters(g, "starting") /\ up' = [up EXCEPT ![g].at = "read"]
  BY DEF Start
<1>3. TicketsInv' /\ NothingIsUndone /\ MessagesKept
  BY <1>1, <1>2, ServerStays
<1>4. session' \in [Validators -> Gates \cup {NoGate, Disabled}]
  BY <1>1, GateAssumption DEF Start, DeviceTypeOK
<1>5. /\ page' \in [Gates -> PageState] /\ page'[g].at = "starting"
      /\ \A h \in Gates \ {g} : page'[h] = page[h]
  BY <1>1, <1>2, PageEnters
<1>6. /\ up' \in [Gates -> UploadState] /\ up'[g].at = "read"
      /\ \A h \in Gates \ {g} : up'[h] = up[h]
  BY <1>1, <1>2, UploadGoes
<1>7. DeviceTypeOK' /\ OtherDoors(g)
  BY <1>1, <1>2, <1>4, <1>5, <1>6 DEF DeviceTypeOK, OtherDoors
<1>8. PageOK(g)'
  BY <1>1, <1>2, <1>5 DEF PageOK
<1> QED BY <1>2, <1>3, <1>6, <1>7, <1>8, QuietDoor

\* A validator loses its session, or its right to one (disable, enable).
LEMMA AccessKeepsDoors ==
  ASSUME DoorsInv, NEW v \in Validators, Disable(v) \/ Enable(v)
  PROVE  DoorsInv' /\ NothingIsUndone
<1>1. DeviceTypeOK /\ TicketsInv /\ UNCHANGED <<serverVars, device>>
  BY DoorByDoor DEF Disable, Enable
<1>2. TicketsInv' /\ NothingIsUndone /\ MessagesKept
  BY <1>1, ServerStays
<1>3. /\ budget' \in [DOMAIN Budget -> Nat]
      /\ session' \in [Validators -> Gates \cup {NoGate, Disabled}]
  BY <1>1, BudgetSpent DEF Disable, Enable, DeviceTypeOK
<1>4. DeviceTypeOK'
  BY <1>1, <1>3 DEF DeviceTypeOK, device
<1>5. \A g \in Gates : PageOK(g)' /\ UploadOK(g)' /\ Kept(g)'
  BY <1>1, <1>2, DoorStays DEF device
<1>6. NoCheckinIsLost'
  BY <1>5 DEF NoCheckinIsLost, Kept, Queued, Sent
<1>7. GateTypeOK'
  BY <1>2, <1>4 DEF GateTypeOK, DeviceTypeOK, DbState, PageState, ScanState, UploadState,
                    PullState, TicketsInv
<1> QED BY <1>2, <1>5, <1>6, <1>7 DEF DoorsInv

\* A code is read, and its ticket marked used on the device (validate).
LEMMA ScanKeepsDoors ==
  ASSUME DoorsInv, NEW g \in Gates, MarkUsed(g) \/ \E t \in Tix : ScanRead(g, t)
  PROVE  DoorsInv' /\ NothingIsUndone
<1>1. /\ DeviceTypeOK /\ TicketsInv /\ PageOK(g)
      /\ UNCHANGED <<serverVars, session, page, up, pull, admitted, budget>>
  BY DoorByDoor DEF MarkUsed, ScanRead
<1>2. TicketsInv' /\ NothingIsUndone /\ MessagesKept
  BY <1>1, ServerStays
<1>3. CASE \E t \in Tix : ScanRead(g, t)
  <2>1. PICK t \in Tix : ScanRead(g, t)
    BY <1>3
  <2> DEFINE new == [at |-> "mark", on |-> t, row |-> db[g].row[t]]
  <2>2. scan' = [scan EXCEPT ![g] = new] /\ UNCHANGED db
    BY <2>1 DEF ScanRead
  <2>3. new \in ScanState /\ new.on = t
    BY <1>1 DEF DeviceTypeOK, DbState, ScanState
  <2> HIDE DEF new
  <2>4. /\ scan' \in [Gates -> ScanState] /\ scan'[g] = new
        /\ \A h \in Gates \ {g} : scan'[h] = scan[h]
    BY <1>1, <2>2, <2>3, Updated DEF DeviceTypeOK
  <2>5. DeviceTypeOK' /\ OtherDoors(g) /\ PageOK(g)'
    BY <1>1, <2>2, <2>3, <2>4 DEF DeviceTypeOK, OtherDoors, PageOK
  <2> QED BY <1>1, <1>2, <2>2, <2>5, QuietDoor
<1>4. CASE MarkUsed(g)
  <2> DEFINE next == [scan[g] EXCEPT !.at = "queue"]
             used == [scan[g].row EXCEPT !.status = "used"]
             new == [db[g] EXCEPT !.row[scan[g].on] = used]
  <2>1. scan[g].on \in Tix /\ scan[g] \in ScanState /\ db[g] \in DbState
    BY <1>1, <1>4 DEF MarkUsed, PageOK, DeviceTypeOK
  <2>2. scan' = [scan EXCEPT ![g] = next] /\ db' = [db EXCEPT ![g] = new]
    BY <1>1, <1>4 DEF MarkUsed, DeviceTypeOK
  <2>3. next \in ScanState /\ next.on = scan[g].on
    BY <2>1 DEF ScanState
  <2>4. used \in Row
    BY <2>1 DEF ScanState, Row, TicketStatus
  <2>5. new \in DbState /\ new.cursor = db[g].cursor /\ new.queue = db[g].queue
    BY <2>1, <2>4 DEF DbState
  <2> HIDE DEF next, used, new
  <2>6. /\ scan' \in [Gates -> ScanState] /\ scan'[g] = next
        /\ \A h \in Gates \ {g} : scan'[h] = scan[h]
    BY <1>1, <2>2, <2>3, Updated DEF DeviceTypeOK
  <2>7. /\ db' \in [Gates -> DbState] /\ db'[g] = new
        /\ \A h \in Gates \ {g} : db'[h] = db[h]
    BY <1>1, <2>2, <2>5, Updated DEF DeviceTypeOK
  <2>8. DeviceTypeOK' /\ OtherDoors(g) /\ PageOK(g)'
    BY <1>1, <2>1, <2>3, <2>5, <2>6, <2>7 DEF DeviceTypeOK, OtherDoors, PageOK
  <2> QED BY <1>1, <1>2, <2>5, <2>7, <2>8, QuietDoor
<1> QED BY <1>3, <1>4

\* The upload is refused or fails: the batch stays queued (uploadBatch).
LEMMA UploadStopsKeepsDoors ==
  ASSUME DoorsInv, NEW g \in Gates, UploadRefused(g) \/ UploadFails(g)
  PROVE  DoorsInv' /\ NothingIsUndone
<1>1. /\ DeviceTypeOK /\ TicketsInv /\ PageOK(g)
      /\ UNCHANGED <<session, db, scan, pull, admitted, budget>>
      /\ up' = [up EXCEPT ![g] = [NoUpload EXCEPT !.at = "failed"]]
  BY DoorByDoor DEF UploadRefused, UploadFails
<1>2. TicketsInv' /\ NothingIsUndone /\ MessagesKept
  BY <1>1, ServerStays, RequestFails DEF UploadRefused, UploadFails
<1>3. /\ up' \in [Gates -> UploadState] /\ up'[g].at = "failed"
      /\ \A h \in Gates \ {g} : up'[h] = up[h]
  BY <1>1, UploadEnds
<1>4. \/ UNCHANGED page
      \/ Enters(g, "invalid")
      \/ Enters(g, "loading") /\ page[g].at = "starting"
  BY DEF UploadRefused, UploadFails, FlushEnds, StopsScanning
<1>5. /\ page' \in [Gates -> PageState]
      /\ page'[g].at \in {page[g].at, "invalid", "loading"}
      /\ \A h \in Gates \ {g} : page'[h] = page[h]
  BY <1>1, <1>4, PageEnters DEF DeviceTypeOK
<1>6. DeviceTypeOK' /\ OtherDoors(g) /\ PageOK(g)'
  BY <1>1, <1>3, <1>5 DEF DeviceTypeOK, OtherDoors, PageOK
<1> QED BY <1>1, <1>2, <1>3, <1>6, QuietDoor

\* The network comes and goes, a manifest grows old.
LEMMA DeviceChangesKeepDoors ==
  ASSUME DoorsInv, NEW g \in Gates, GoOffline(g) \/ GoOnline(g) \/ ManifestExpires(g)
  PROVE  DoorsInv' /\ NothingIsUndone
<1>1. /\ DeviceTypeOK /\ TicketsInv /\ PageOK(g)
      /\ UNCHANGED <<serverVars, session, db, scan, pull, admitted>>
  BY DoorByDoor DEF GoOffline, GoOnline, ManifestExpires
<1>2. TicketsInv' /\ NothingIsUndone /\ MessagesKept
  BY <1>1, ServerStays
<1>3. budget' \in [DOMAIN Budget -> Nat]
  BY <1>1, BudgetSpent DEF GoOffline, GoOnline, ManifestExpires, DeviceTypeOK
<1>4. /\ page' \in [Gates -> PageState] /\ page'[g].at = page[g].at
      /\ \A h \in Gates \ {g} : page'[h] = page[h]
  <2>1. page[g] \in PageState
    BY <1>1 DEF DeviceTypeOK
  <2>2. PICK new \in PageState :
          page' = [page EXCEPT ![g] = new] /\ new.at = page[g].at
    <3>1. CASE \E b \in BOOLEAN : page' = [page EXCEPT ![g].online = b]
      <4>1. PICK b \in BOOLEAN : page' = [page EXCEPT ![g].online = b]
        BY <3>1
      <4>2. /\ [page[g] EXCEPT !.online = b] \in PageState
            /\ [page[g] EXCEPT !.online = b].at = page[g].at
        BY <2>1 DEF PageState
      <4> QED BY <1>1, <4>1, <4>2 DEF DeviceTypeOK
    <3>2. CASE page' = [page EXCEPT ![g].expired = TRUE]
      <4>1. /\ [page[g] EXCEPT !.expired = TRUE] \in PageState
            /\ [page[g] EXCEPT !.expired = TRUE].at = page[g].at
        BY <2>1 DEF PageState
      <4> QED BY <1>1, <3>2, <4>1 DEF DeviceTypeOK
    <3> QED BY <3>1, <3>2 DEF GoOffline, GoOnline, ManifestExpires
  <2> QED BY <1>1, <2>2, Updated DEF DeviceTypeOK
<1>5. /\ up' \in [Gates -> UploadState] /\ (up'[g] = up[g] \/ up'[g].at # "send")
      /\ \A h \in Gates \ {g} : up'[h] = up[h]
  <2>1. UNCHANGED up \/ up' = [up EXCEPT ![g].at = "read"]
    BY DEF GoOffline, GoOnline, ManifestExpires
  <2> QED BY <1>1, <2>1, UploadGoes DEF DeviceTypeOK
<1>6. DeviceTypeOK' /\ OtherDoors(g) /\ PageOK(g)'
  BY <1>1, <1>3, <1>4, <1>5 DEF DeviceTypeOK, OtherDoors, PageOK
<1> QED BY <1>1, <1>2, <1>5, <1>6, QuietDoor

\* The page is loaded anew: what was under way on it is gone, the queue is not.
LEMMA ReloadKeepsDoors ==
  ASSUME DoorsInv, NEW g \in Gates, Reload(g)
  PROVE  DoorsInv' /\ NothingIsUndone
<1>1. /\ DeviceTypeOK /\ TicketsInv /\ PageOK(g)
      /\ UNCHANGED <<serverVars, session, db, admitted>>
  BY DoorByDoor DEF Reload
<1>2. TicketsInv' /\ NothingIsUndone /\ MessagesKept
  BY <1>1, ServerStays
<1>3. budget' \in [DOMAIN Budget -> Nat]
  BY <1>1, BudgetSpent DEF Reload
<1>4. /\ page' \in [Gates -> PageState] /\ page'[g].at = "closed"
      /\ \A h \in Gates \ {g} : page'[h] = page[h]
  BY <1>1 DEF Reload, DeviceTypeOK, PageState
<1>5. NoScan \in ScanState /\ NoUpload \in UploadState /\ NoPull \in PullState
  <2>1. Unknown \in Row /\ <<>> \in Seq(Tix)
    BY DEF Unknown, Row, TicketStatus
  <2> QED
    BY <2>1 DEF NoScan, ScanState, NoUpload, UploadState, NoPull, PullState
<1>6. /\ scan' \in [Gates -> ScanState] /\ scan'[g] = NoScan
      /\ \A h \in Gates \ {g} : scan'[h] = scan[h]
  BY <1>1, <1>5, Updated DEF Reload, DeviceTypeOK
<1>7. /\ up' \in [Gates -> UploadState] /\ up'[g] = NoUpload
      /\ \A h \in Gates \ {g} : up'[h] = up[h]
  BY <1>1, <1>5, Updated DEF Reload, DeviceTypeOK
<1>8. /\ pull' \in [Gates -> PullState] /\ pull'[g] = NoPull
      /\ \A h \in Gates \ {g} : pull'[h] = pull[h]
  BY <1>1, <1>5, Updated DEF Reload, DeviceTypeOK
<1>9. NoScan.at = "idle" /\ NoUpload.at = "off" /\ NoPull.at = "off"
  BY DEF NoScan, NoUpload, NoPull
<1>10. DeviceTypeOK' /\ OtherDoors(g) /\ PageOK(g)'
  BY <1>1, <1>3, <1>4, <1>6, <1>7, <1>8, <1>9 DEF DeviceTypeOK, OtherDoors, PageOK
<1> QED BY <1>1, <1>2, <1>7, <1>9, <1>10, QuietDoor

-----------------------------------------------------------------------------
(* The pulls.                                                              *)

\* A set of numbers up to n has a last one (the highest sequence number of what a
\* manifest reads, TicketSyncService.manifest).
LEMMA LastExists ==
  ASSUME NEW n \in Nat, NEW S \in SUBSET (1 .. n), S # {}
  PROVE  \E i \in S : \A j \in S : j <= i
<1> DEFINE T == {n - i : i \in S}
<1>1. T \subseteq Nat /\ T # {}
  <2>1. \A i \in S : i \in 1 .. n /\ n - i \in Nat
    OBVIOUS
  <2> QED BY <2>1
<1>2. PICK k \in T : \A l \in T : ~(<<l, k>> \in OpToRel(<, Nat))
  <2> HIDE DEF T
  <2> QED BY <1>1, NatLessThanWellFounded, WFMin
<1>3. \A l \in T : k <= l
  <2> HIDE DEF T
  <2>1. \A l \in T : l < k => <<l, k>> \in OpToRel(<, Nat)
    BY <1>1 DEF OpToRel
  <2>2. k \in Nat /\ \A l \in T : l \in Nat /\ ~(l < k)
    BY <1>1, <1>2, <2>1
  <2> QED BY <2>2
<1>4. PICK i \in S : k = n - i
  OBVIOUS
<1>5. ASSUME NEW j \in S PROVE j <= i
  <2>1. k <= n - j
    BY <1>3
  <2>2. i \in 1 .. n /\ j \in 1 .. n
    OBVIOUS
  <2> HIDE DEF T
  <2> QED BY <1>4, <2>1, <2>2
<1> QED BY <1>5

\* The number of a pull: the last committed entry it reads, or where it began.
LEMMA LastOfFacts ==
  ASSUME DeviceTypeOK, TicketsTypeOK, NEW g \in Gates, PageOK(g),
         page[g].at \in {"loading", "scanning"}
  PROVE  /\ Since(g) \in Nat
         /\ LastOf(News(g), Since(g)) \in Nat
         /\ LastOf(News(g), Since(g)) \in News(g) \cup {Since(g)}
         /\ \A i \in News(g) : i <= LastOf(News(g), Since(g))
         /\ Since(g) <= LastOf(News(g), Since(g))
<1>1. Since(g) \in Nat
  BY DEF Since, PageOK, DeviceTypeOK, DbState
<1>2. Len(log) \in Nat /\ DOMAIN log = 1 .. Len(log)
  BY DEF TicketsTypeOK
<1>3. News(g) \in SUBSET (1 .. Len(log)) /\ \A i \in News(g) : i > Since(g)
  BY <1>2 DEF News
<1>4. CASE News(g) = {}
  BY <1>1, <1>4 DEF LastOf
<1>5. CASE News(g) # {}
  <2> DEFINE last == LastOf(News(g), Since(g))
  <2>1. \E i \in News(g) : \A j \in News(g) : j <= i
    BY <1>2, <1>3, <1>5, LastExists
  <2>2. last \in News(g) /\ \A j \in News(g) : j <= last
    BY <1>5, <2>1 DEF LastOf
  <2> HIDE DEF last
  <2>3. last \in Nat /\ last > Since(g)
    BY <1>2, <1>3, <2>2
  <2>4. Since(g) <= last
    BY <1>1, <2>3
  <2> QED BY <1>1, <2>2, <2>3, <2>4 DEF last
<1> QED BY <1>4, <1>5

\* What the server answers is a row.
LEMMA RowNowIsRow ==
  ASSUME TicketsTypeOK, NEW t \in Tix
  PROVE  RowNow(t) \in Row
BY DEF TicketsTypeOK, RowNow, Row

\* The entries are read, then the rows (TicketSyncService.manifest).
LEMMA ManifestReadsKeepDoors ==
  ASSUME DoorsInv, NEW g \in Gates, PullEntries(g) \/ PullRows(g)
  PROVE  DoorsInv' /\ NothingIsUndone
<1>1. /\ DeviceTypeOK /\ TicketsInv /\ TicketsTypeOK /\ PageOK(g)
      /\ UNCHANGED <<serverVars, session, db, page, scan, up, admitted, budget>>
  BY DoorByDoor DEF PullEntries, PullRows, TicketsInv
<1>2. TicketsInv' /\ NothingIsUndone /\ MessagesKept
  BY <1>1, ServerStays
<1>3. Unknown \in Row
  BY DEF Unknown, Row, TicketStatus
<1>4. /\ page[g].at \in {"loading", "scanning", "invalid"}
      /\ pull' \in [Gates -> PullState]
      /\ \A h \in Gates \ {g} : pull'[h] = pull[h]
  <2>1. CASE PullEntries(g)
    <3> DEFINE new == [at |-> "rows", max |-> LastOf(News(g), Since(g)),
                       row |-> [t \in Tix |-> Unknown],
                       of |-> {log[i].ticket : i \in News(g)}]
    <3>1. pull' = [pull EXCEPT ![g] = new] /\ page[g].at \in {"loading", "scanning"}
      BY <2>1 DEF PullEntries
    <3>2. LastOf(News(g), Since(g)) \in Nat
      BY <1>1, <3>1, LastOfFacts
    <3>3. \A i \in News(g) : log[i].ticket \in Tix
      BY <1>1, LogFacts DEF News
    <3>4. new \in PullState
      BY <1>3, <3>2, <3>3 DEF PullState
    <3> HIDE DEF new
    <3> QED BY <1>1, <3>1, <3>4, Updated DEF DeviceTypeOK
  <2>2. CASE PullRows(g)
    <3> DEFINE row == [t \in Tix |-> IF t \in pull[g].of THEN RowNow(t) ELSE Unknown]
               new == [pull[g] EXCEPT !.at = "reply", !.row = row]
    <3>1. pull[g] \in PullState /\ pull[g].at = "rows"
      BY <1>1, <2>2 DEF PullRows, DeviceTypeOK
    <3>2. pull' = [pull EXCEPT ![g] = new]
      BY <1>1, <2>2 DEF PullRows, DeviceTypeOK
    <3>3. row \in [Tix -> Row]
      BY <1>1, <1>3, RowNowIsRow
    <3> HIDE DEF row
    <3>4. new \in PullState
      BY <3>1, <3>3 DEF PullState
    <3>5. page[g].at \in {"loading", "scanning", "invalid"}
      BY <1>1, <3>1 DEF PageOK, DeviceTypeOK, PageState
    <3> HIDE DEF new
    <3> QED BY <1>1, <3>2, <3>4, <3>5, Updated DEF DeviceTypeOK
  <2> QED BY <2>1, <2>2
<1>5. DeviceTypeOK' /\ OtherDoors(g) /\ PageOK(g)'
  BY <1>1, <1>4 DEF DeviceTypeOK, OtherDoors, PageOK
<1> QED BY <1>1, <1>2, <1>5, QuietDoor

\* What the page does with a manifest that did not come: it goes on with the one
\* it has, if it has one.
LEMMA GoesOnFacts ==
  ASSUME DeviceTypeOK, NEW g \in Gates, GoesOnOffline(g)
  PROVE  /\ page' \in [Gates -> PageState]
         /\ \/ page'[g].at = "invalid"
            \/ page'[g].at = "scanning" /\ db[g].cursor # NoManifest
         /\ \A h \in Gates \ {g} : page'[h] = page[h]
<1>1. CASE Enters(g, "invalid")
  BY <1>1, PageEnters
<1>2. CASE /\ db[g].cursor # NoManifest
           /\ \E old \in BOOLEAN :
                page' = [page EXCEPT ![g].at = "scanning", ![g].expired = old]
  <2>1. PICK old \in BOOLEAN :
          page' = [page EXCEPT ![g].at = "scanning", ![g].expired = old]
    BY <1>2
  <2> DEFINE new == [page[g] EXCEPT !.at = "scanning", !.expired = old]
  <2>2. page' = [page EXCEPT ![g] = new]
    BY <2>1 DEF DeviceTypeOK
  <2>3. new \in PageState /\ new.at = "scanning"
    BY DEF DeviceTypeOK, PageState
  <2> HIDE DEF new
  <2> QED BY <1>2, <2>2, <2>3, Updated DEF DeviceTypeOK
<1> QED BY <1>1, <1>2 DEF GoesOnOffline

\* A manifest is refused, or gets lost.
LEMMA PullStopsKeepsDoors ==
  ASSUME DoorsInv, NEW g \in Gates, PullRefused(g) \/ PullFails(g)
  PROVE  DoorsInv' /\ NothingIsUndone
<1>1. /\ DeviceTypeOK /\ TicketsInv /\ PageOK(g)
      /\ UNCHANGED <<session, db, scan, up, admitted, budget>>
  BY DoorByDoor DEF PullRefused, PullFails
<1>2. TicketsInv' /\ NothingIsUndone /\ MessagesKept
  BY <1>1, ServerStays, RequestFails DEF PullRefused, PullFails
<1>3. /\ pull' \in [Gates -> PullState] /\ pull'[g].at = "off"
      /\ \A h \in Gates \ {g} : pull'[h] = pull[h]
  <2>1. (UNCHANGED pull /\ pull[g].at = "off") \/ pull' = [pull EXCEPT ![g] = NoPull]
    BY DEF PullRefused, PullFails
  <2>2. NoPull \in PullState /\ NoPull.at = "off"
    <3>1. Unknown \in Row
      BY DEF Unknown, Row, TicketStatus
    <3> QED BY <3>1 DEF NoPull, PullState
  <2> QED BY <1>1, <2>1, <2>2, Updated DEF DeviceTypeOK
<1>4. GoesOnOffline(g) \/ UNCHANGED page \/ Enters(g, "invalid")
  BY DEF PullRefused, PullFails, StopsScanning
<1>5. /\ page' \in [Gates -> PageState]
      /\ \/ page'[g].at = "invalid"
         \/ page'[g].at = "scanning" /\ db[g].cursor # NoManifest
         \/ page'[g].at = page[g].at
      /\ \A h \in Gates \ {g} : page'[h] = page[h]
  BY <1>1, <1>4, PageEnters, GoesOnFacts DEF DeviceTypeOK
<1>6. DeviceTypeOK' /\ OtherDoors(g) /\ PageOK(g)'
  BY <1>1, <1>3, <1>5 DEF DeviceTypeOK, OtherDoors, PageOK
<1> QED BY <1>1, <1>2, <1>6, QuietDoor

\* What a device is after it has taken a manifest in.
LEMMA PullApplyFacts ==
  ASSUME DeviceTypeOK, NEW g \in Gates, PullApply(g)
  PROVE  /\ db' \in [Gates -> DbState] /\ page' \in [Gates -> PageState]
         /\ pull' \in [Gates -> PullState] /\ OtherDoors(g)
         /\ db'[g].cursor = pull[g].max /\ db'[g].queue = db[g].queue
         /\ \A t \in Tix : db'[g].row[t] =
              IF t \in pull[g].of THEN pull[g].row[t]
              ELSE IF page[g].at = "loading" THEN Unknown ELSE db[g].row[t]
         /\ page'[g].at = IF page[g].at = "loading" THEN "scanning" ELSE page[g].at
         /\ pull'[g].at = "off" /\ pull[g].max \in Nat
<1> DEFINE kept == IF page[g].at = "loading" THEN [t \in Tix |-> Unknown] ELSE db[g].row
           row == [t \in Tix |-> IF t \in pull[g].of THEN pull[g].row[t] ELSE kept[t]]
           next == [db[g] EXCEPT !.row = row, !.cursor = pull[g].max]
           shown == [page[g] EXCEPT
                       !.at = IF page[g].at = "loading" THEN "scanning" ELSE page[g].at,
                       !.expired = FALSE]
<1>1. Unknown \in Row
  BY DEF Unknown, Row, TicketStatus
<1>2. pull[g] \in PullState /\ db[g] \in DbState /\ page[g] \in PageState
  BY DEF DeviceTypeOK
<1>3. kept \in [Tix -> Row]
  BY <1>1, <1>2 DEF DbState
<1>4. row \in [Tix -> Row]
  <2> HIDE DEF kept
  <2> QED BY <1>2, <1>3 DEF PullState
<1>5. db' = [db EXCEPT ![g] = next] /\ page' = [page EXCEPT ![g] = shown]
  BY DEF PullApply, DeviceTypeOK
<1>6. /\ next \in DbState /\ next.cursor = pull[g].max /\ next.queue = db[g].queue
      /\ next.row = row
  <2> HIDE DEF row
  <2> QED BY <1>2, <1>4 DEF DbState, PullState
<1>7. /\ shown \in PageState
      /\ shown.at = IF page[g].at = "loading" THEN "scanning" ELSE page[g].at
  BY <1>2 DEF PageState
<1>8. NoPull \in PullState /\ NoPull.at = "off"
  BY <1>1 DEF NoPull, PullState
<1>9. \A t \in Tix : row[t] = IF t \in pull[g].of THEN pull[g].row[t]
                               ELSE IF page[g].at = "loading" THEN Unknown
                               ELSE db[g].row[t]
  OBVIOUS
<1> HIDE DEF kept, row, next, shown
<1>10. /\ db' \in [Gates -> DbState] /\ db'[g] = next
       /\ \A h \in Gates \ {g} : db'[h] = db[h]
  BY <1>5, <1>6, Updated DEF DeviceTypeOK
<1>11. /\ page' \in [Gates -> PageState] /\ page'[g] = shown
       /\ \A h \in Gates \ {g} : page'[h] = page[h]
  BY <1>5, <1>7, Updated DEF DeviceTypeOK
<1>12. /\ pull' \in [Gates -> PullState] /\ pull'[g] = NoPull
       /\ \A h \in Gates \ {g} : pull'[h] = pull[h]
  BY <1>8, Updated DEF PullApply, DeviceTypeOK
<1>13. OtherDoors(g)
  BY <1>10, <1>11, <1>12 DEF OtherDoors, PullApply
<1>14. pull[g].max \in Nat
  BY <1>2 DEF PullState
<1> QED BY <1>6, <1>7, <1>8, <1>9, <1>10, <1>11, <1>12, <1>13, <1>14

\* The manifest is saved or merged (saveManifest, applyDelta).
LEMMA PullApplyKeepsDoors ==
  ASSUME DoorsInv, NEW g \in Gates, PullApply(g)
  PROVE  DoorsInv' /\ NothingIsUndone
<1>1. /\ DeviceTypeOK /\ TicketsInv /\ PageOK(g)
      /\ UNCHANGED <<serverVars, session, scan, up, admitted, budget>>
      /\ pull[g].at = "reply"
  BY DoorByDoor DEF PullApply
<1>2. TicketsInv' /\ NothingIsUndone /\ MessagesKept
  BY <1>1, ServerStays
<1>3. NoManifest \notin Nat
  BY DEF NoManifest
<1>4. DeviceTypeOK' /\ OtherDoors(g) /\ PageOK(g)'
  BY <1>1, <1>3, PullApplyFacts DEF DeviceTypeOK, PageOK
<1>5. db'[g].queue = db[g].queue
  BY <1>1, PullApplyFacts
<1> QED BY <1>1, <1>2, <1>4, <1>5, QuietDoor

-----------------------------------------------------------------------------
(* The queue and its uploads.                                              *)

\* A part of a queue.
LEMMA PartOfQueue ==
  ASSUME NEW q \in Seq(Tix), NEW m \in Nat \ {0}, NEW n \in 0 .. Len(q), m <= n + 1
  PROVE  /\ SubSeq(q, m, n) \in Seq(Tix) /\ Len(SubSeq(q, m, n)) = n - m + 1
         /\ DOMAIN SubSeq(q, m, n) = 1 .. n - m + 1
         /\ \A i \in 1 .. n - m + 1 : SubSeq(q, m, n)[i] = q[m + i - 1]
<1>1. Len(q) \in Nat /\ \A i \in 1 .. Len(q) : q[i] \in Tix
  BY QueueFacts
<1>2. m \in Int /\ n \in Int /\ \A i \in m .. n : q[i] \in Tix
  BY <1>1
<1>3. /\ SubSeq(q, m, n) \in Seq(Tix)
      /\ Len(SubSeq(q, m, n)) = IF m <= n THEN n - m + 1 ELSE 0
      /\ \A i \in 1 .. n - m + 1 : SubSeq(q, m, n)[i] = q[m + i - 1]
  BY <1>2, SubSeqProperties
<1>4. Len(SubSeq(q, m, n)) = n - m + 1
  BY <1>2, <1>3
<1>5. DOMAIN SubSeq(q, m, n) = 1 .. n - m + 1
  BY <1>3, <1>4, LenProperties
<1> QED BY <1>3, <1>4, <1>5

\* A check-in is queued and shown green (validate).
LEMMA ScanQueueKeepsDoors ==
  ASSUME DoorsInv, NEW g \in Gates, ScanQueue(g)
  PROVE  DoorsInv' /\ NothingIsUndone
<1>1. /\ DeviceTypeOK /\ TicketsInv /\ PageOK(g) /\ UploadOK(g) /\ Kept(g)
      /\ UNCHANGED <<serverVars, session, page, pull, budget>> /\ scan[g].at = "queue"
  BY DoorByDoor DEF ScanQueue
<1>2. TicketsInv' /\ NothingIsUndone /\ MessagesKept
  BY <1>1, ServerStays
<1> DEFINE t == scan[g].on
           q == db[g].queue
           next == [db[g] EXCEPT !.queue = Append(q, t)]
           shown == admitted[g] \cup {<<t, scan[g].row.gen>>}
<1>3. /\ t \in Tix /\ scan[g].row.gen \in Nat /\ db[g] \in DbState
      /\ q \in Seq(Tix)
  BY <1>1 DEF PageOK, DeviceTypeOK, ScanState, DbState, Row
<1>4. /\ Append(q, t) \in Seq(Tix) /\ Len(q) \in Nat /\ Len(Append(q, t)) = Len(q) + 1
      /\ DOMAIN q = 1 .. Len(q) /\ DOMAIN Append(q, t) = 1 .. Len(q) + 1
      /\ \A i \in 1 .. Len(q) : Append(q, t)[i] = q[i]
      /\ Append(q, t)[Len(q) + 1] = t
  <2> HIDE DEF q, t
  <2> QED BY <1>3, AppendFacts
<1>5. db' = [db EXCEPT ![g] = next] /\ admitted' = [admitted EXCEPT ![g] = shown]
  BY <1>1 DEF ScanQueue, DeviceTypeOK
<1>6. /\ next \in DbState /\ next.cursor = db[g].cursor /\ next.queue = Append(q, t)
  <2> HIDE DEF t
  <2> QED BY <1>3, <1>4 DEF DbState
<1>7. shown \in SUBSET (Tix \X Nat)
  BY <1>1, <1>3 DEF DeviceTypeOK
<1>8. NoScan \in ScanState /\ NoScan.at = "idle"
  <2>1. Unknown \in Row
    BY DEF Unknown, Row, TicketStatus
  <2> QED BY <2>1 DEF NoScan, ScanState
<1> HIDE DEF next
<1>9. /\ db' \in [Gates -> DbState] /\ db'[g] = next
      /\ \A h \in Gates \ {g} : db'[h] = db[h]
  BY <1>1, <1>5, <1>6, Updated DEF DeviceTypeOK
<1>10. /\ admitted' \in [Gates -> SUBSET (Tix \X Nat)] /\ admitted'[g] = shown
       /\ \A h \in Gates \ {g} : admitted'[h] = admitted[h]
  <2> HIDE DEF shown
  <2> QED BY <1>1, <1>5, <1>7, Updated DEF DeviceTypeOK
<1>11. /\ scan' \in [Gates -> ScanState] /\ scan'[g] = NoScan
       /\ \A h \in Gates \ {g} : scan'[h] = scan[h]
  BY <1>1, <1>8, Updated DEF ScanQueue, DeviceTypeOK
<1>12. /\ up' \in [Gates -> UploadState] /\ (up'[g] = up[g] \/ up'[g].at = "read")
       /\ \A h \in Gates \ {g} : up'[h] = up[h]
  <2>1. UNCHANGED up \/ up' = [up EXCEPT ![g].at = "read"]
    BY DEF ScanQueue
  <2> QED BY <1>1, <2>1, UploadGoes DEF DeviceTypeOK
<1>13. DeviceTypeOK' /\ OtherDoors(g) /\ PageOK(g)'
  BY <1>1, <1>6, <1>8, <1>9, <1>10, <1>11, <1>12 DEF DeviceTypeOK, OtherDoors, PageOK
<1>14. \A u \in Tix : Sent(g, u) => Sent(g, u)'
  BY <1>1, <1>2, SentStays
<1>15. Kept(g)'
  <2>1. Queued(g)' = Queued(g) \cup {t}
    <3>1. db'[g].queue = Append(q, t)
      BY <1>6, <1>9
    <3>2. Queued(g)' = {Append(q, t)[i] : i \in 1 .. Len(q) + 1}
      BY <1>4, <3>1 DEF Queued
    <3>3. Queued(g) = {q[i] : i \in 1 .. Len(q)}
      BY <1>4 DEF Queued
    <3>4. 1 .. Len(q) + 1 = (1 .. Len(q)) \cup {Len(q) + 1}
      BY <1>4
    <3> HIDE DEF t, q
    <3> QED BY <1>4, <3>2, <3>3, <3>4
  <2>2. \A a \in admitted[g] : a[1] \in Tix
    BY <1>1 DEF DeviceTypeOK
  <2>3. ASSUME NEW a \in admitted'[g] PROVE a[1] \in Queued(g)' \/ Sent(g, a[1])'
    <3>1. CASE a \in admitted[g]
      BY <1>1, <1>14, <2>1, <2>2, <3>1 DEF Kept
    <3>2. CASE a[1] = t
      BY <2>1, <3>2
    <3> QED BY <1>10, <3>1, <3>2
  <2> QED BY <2>3 DEF Kept
<1>16. UploadOK(g)'
  <2>1. CASE up'[g].at # "send"
    BY <2>1 DEF UploadOK
  <2>2. CASE up'[g] = up[g] /\ up[g].at = "send"
    <3>1. /\ up[g].batch \in Seq(Tix) /\ up[g].sent \in Nat
          /\ Len(up[g].batch) \in Nat
          /\ \A i \in 1 .. Len(up[g].batch) : up[g].batch[i] \in Tix
      BY <1>1, QueueFacts DEF DeviceTypeOK, UploadState
    <3>2. /\ Len(up[g].batch) <= Len(q) /\ up[g].sent <= Len(up[g].batch)
          /\ \A i \in 1 .. Len(up[g].batch) : up[g].batch[i] = q[i]
          /\ \A i \in 1 .. up[g].sent : Sent(g, up[g].batch[i])
      BY <1>1, <2>2 DEF UploadOK
    <3>3. \A i \in 1 .. up[g].sent : Sent(g, up[g].batch[i])'
      BY <1>14, <2>2, <3>1, <3>2
    <3>4. db'[g].queue = Append(q, t)
      BY <1>6, <1>9
    <3>5. Len(up[g].batch) <= Len(Append(q, t))
      BY <1>4, <3>1, <3>2
    <3>6. \A i \in 1 .. Len(up[g].batch) : up[g].batch[i] = Append(q, t)[i]
      BY <1>4, <3>1, <3>2
    <3> HIDE DEF q, t
    <3> QED BY <2>2, <3>2, <3>3, <3>4, <3>5, <3>6 DEF UploadOK
  <2> QED BY <1>12, <2>1, <2>2
<1> QED BY <1>2, <1>13, <1>15, <1>16, DoorSteps

\* The oldest check-ins of the queue become the batch, or the loop ends (flush).
LEMMA FlushReadKeepsDoors ==
  ASSUME DoorsInv, NEW g \in Gates, FlushRead(g)
  PROVE  DoorsInv' /\ NothingIsUndone
<1>1. /\ DeviceTypeOK /\ TicketsInv /\ PageOK(g) /\ UploadOK(g) /\ Kept(g)
      /\ UNCHANGED <<serverVars, session, db, scan, pull, admitted, budget>>
  BY DoorByDoor DEF FlushRead
<1>2. TicketsInv' /\ NothingIsUndone /\ MessagesKept
  BY <1>1, ServerStays
<1> DEFINE n == Shorter(Len(db[g].queue), FlushChunk)
           batch == SubSeq(db[g].queue, 1, n)
           new == [at |-> "send", sent |-> 0, batch |-> batch]
<1>3. CASE up' = [up EXCEPT ![g] = new] /\ UNCHANGED page
  <2>1. db[g].queue \in Seq(Tix) /\ Len(db[g].queue) \in Nat
    BY <1>1, QueueFacts DEF DeviceTypeOK, DbState
  <2>2. n \in 0 .. Len(db[g].queue)
    BY <2>1, GateAssumption DEF Shorter
  <2> HIDE DEF n
  <2>3. 1 \in Nat \ {0} /\ 1 <= n + 1 /\ n \in Nat
    BY <2>1, <2>2
  <2>4. /\ batch \in Seq(Tix) /\ Len(batch) = n - 1 + 1
        /\ \A i \in 1 .. n - 1 + 1 : batch[i] = db[g].queue[1 + i - 1]
    BY <2>1, <2>2, <2>3, PartOfQueue
  <2> HIDE DEF batch
  <2>5. Len(batch) = n /\ \A i \in 1 .. n : batch[i] = db[g].queue[i]
    <3>1. n - 1 + 1 = n /\ \A i \in 1 .. n : 1 + i - 1 = i
      BY <2>3
    <3> QED BY <2>4, <3>1
  <2>6. new \in UploadState /\ new.at = "send" /\ new.sent = 0 /\ new.batch = batch
    BY <2>4 DEF UploadState
  <2> HIDE DEF new
  <2>7. /\ up' \in [Gates -> UploadState] /\ up'[g] = new
        /\ \A h \in Gates \ {g} : up'[h] = up[h]
    BY <1>1, <1>3, <2>6, Updated DEF DeviceTypeOK
  <2>8. DeviceTypeOK' /\ OtherDoors(g) /\ PageOK(g)'
    BY <1>1, <1>3, <2>7 DEF DeviceTypeOK, OtherDoors, PageOK
  <2>9. UploadOK(g)'
    <3>1. Len(batch) <= Len(db[g].queue) /\ 0 <= Len(batch)
      BY <2>1, <2>2, <2>5
    <3>2. \A i \in 1 .. Len(batch) : batch[i] = db[g].queue[i]
      BY <2>5
    <3>3. 1 .. 0 = {}
      OBVIOUS
    <3>4. db'[g].queue = db[g].queue
      BY <1>1
    <3> QED BY <2>6, <2>7, <3>1, <3>2, <3>3, <3>4 DEF UploadOK
  <2>10. Kept(g)'
    <3>1. \A u \in Tix : Sent(g, u) => Sent(g, u)'
      BY <1>1, <1>2, SentStays
    <3>2. \A a \in admitted[g] : a[1] \in Tix
      BY <1>1 DEF DeviceTypeOK
    <3> QED BY <1>1, <3>1, <3>2 DEF Kept, Queued
  <2> QED BY <1>2, <2>8, <2>9, <2>10, DoorSteps
<1>4. CASE up' = [up EXCEPT ![g] = NoUpload] /\ FlushEnds(g)
  <2>1. NoUpload \in UploadState /\ NoUpload.at = "off"
    <3>1. <<>> \in Seq(Tix)
      OBVIOUS
    <3> QED BY <3>1 DEF NoUpload, UploadState
  <2>2. /\ up' \in [Gates -> UploadState] /\ up'[g] = NoUpload
        /\ \A h \in Gates \ {g} : up'[h] = up[h]
    BY <1>1, <1>4, <2>1, Updated DEF DeviceTypeOK
  <2>3. /\ page' \in [Gates -> PageState] /\ page'[g].at \in {page[g].at, "loading"}
        /\ \A h \in Gates \ {g} : page'[h] = page[h]
    BY <1>1, <1>4, PageEnters DEF FlushEnds, DeviceTypeOK
  <2>4. DeviceTypeOK' /\ OtherDoors(g) /\ PageOK(g)'
    BY <1>1, <2>2, <2>3 DEF DeviceTypeOK, OtherDoors, PageOK
  <2> QED BY <1>1, <1>2, <2>1, <2>2, <2>4, QuietDoor
<1> QED BY <1>3, <1>4 DEF FlushRead

\* A check-in of the batch becomes a message (submit).
LEMMA UploadPublishKeepsDoors ==
  ASSUME DoorsInv, NEW g \in Gates, UploadPublish(g)
  PROVE  DoorsInv' /\ NothingIsUndone
<1> DEFINE next == up[g].sent + 1
<1>1. /\ DeviceTypeOK /\ TicketsInv /\ PageOK(g) /\ UploadOK(g) /\ Kept(g)
      /\ UNCHANGED <<rows, records, faults, session, db, page, scan, pull, admitted, budget>>
      /\ up[g].at = "send" /\ up[g].sent < Len(up[g].batch)
  BY DoorByDoor DEF UploadPublish
<1>2. /\ up[g] \in UploadState /\ up[g].sent \in Nat /\ Len(up[g].batch) \in Nat
      /\ \A i \in 1 .. Len(up[g].batch) : up[g].batch[i] \in Tix
  BY <1>1, QueueFacts DEF DeviceTypeOK, UploadState
<1>3. PICK t \in Tix : t = up[g].batch[next]
  BY <1>1, <1>2
<1>4. PICK c \in UploadsOf[g] : Publish(c, t)
  BY <1>3 DEF UploadPublish
<1>5. c \in Calls /\ CallOf[c].op = "ingest"
  BY GateAssumption
<1>6. /\ TicketsInv' /\ NothingIsUndone /\ Moved(c)
      /\ At(c, "idle") /\ call'[c].at = "ready" /\ call'[c].on = t
  BY <1>1, <1>4, <1>5, PublishKeepsInv
<1>7. MessagesKept
  BY <1>6 DEF MessagesKept, Moved, At
<1>8. Sent(g, t)'
  BY <1>6 DEF Sent, At
<1>9. \A u \in Tix : Sent(g, u) => Sent(g, u)'
  BY <1>1, <1>6, <1>7, SentStays
<1> DEFINE new == [up[g] EXCEPT !.sent = next]
<1>10. up' = [up EXCEPT ![g] = new]
  BY <1>1 DEF UploadPublish, DeviceTypeOK
<1>11. /\ new \in UploadState /\ new.at = "send" /\ new.sent = next
       /\ new.batch = up[g].batch
  BY <1>1, <1>2 DEF UploadState
<1> HIDE DEF new
<1>12. /\ up' \in [Gates -> UploadState] /\ up'[g] = new
       /\ \A h \in Gates \ {g} : up'[h] = up[h]
  BY <1>1, <1>10, <1>11, Updated DEF DeviceTypeOK
<1>13. DeviceTypeOK' /\ OtherDoors(g) /\ PageOK(g)'
  BY <1>1, <1>12 DEF DeviceTypeOK, OtherDoors, PageOK
<1>14. UploadOK(g)'
  <2>1. up'[g].batch = up[g].batch /\ up'[g].sent = next /\ db'[g].queue = db[g].queue
    BY <1>1, <1>11, <1>12
  <2>2. ASSUME NEW i \in 1 .. next PROVE Sent(g, up[g].batch[i])'
    <3>1. CASE i = next
      BY <1>3, <1>8, <2>1, <3>1
    <3>2. CASE i # next
      <4>1. i \in 1 .. up[g].sent /\ i \in 1 .. Len(up[g].batch)
        BY <1>1, <1>2, <3>2
      <4>2. PICK u \in Tix : u = up[g].batch[i]
        BY <1>2, <4>1
      <4>3. Sent(g, u)
        BY <1>1, <4>1, <4>2 DEF UploadOK
      <4>4. Sent(g, u)'
        BY <1>9, <4>3
      <4> QED BY <2>1, <4>2, <4>4
    <3> QED BY <3>1, <3>2
  <2>3. next <= Len(up[g].batch)
    BY <1>1, <1>2
  <2>4. /\ Len(up[g].batch) <= Len(db[g].queue)
        /\ \A i \in 1 .. Len(up[g].batch) : up[g].batch[i] = db[g].queue[i]
    BY <1>1 DEF UploadOK
  <2> HIDE DEF next
  <2> QED BY <2>1, <2>2, <2>3, <2>4 DEF UploadOK
<1>15. Kept(g)'
  <2>1. \A a \in admitted[g] : a[1] \in Tix
    BY <1>1 DEF DeviceTypeOK
  <2> QED BY <1>1, <1>9, <2>1 DEF Kept, Queued
<1> QED BY <1>6, <1>7, <1>13, <1>14, <1>15, DoorSteps

\* The check-ins of the batch, and no others, leave the queue (deleteQueued).
LEMMA UploadAcceptedKeepsDoors ==
  ASSUME DoorsInv, NEW g \in Gates, UploadAccepted(g)
  PROVE  DoorsInv' /\ NothingIsUndone
<1> DEFINE q == db[g].queue
           m == Len(up[g].batch)
           rest == SubSeq(q, m + 1, Len(q))
           next == [db[g] EXCEPT !.queue = rest]
<1>1. /\ DeviceTypeOK /\ TicketsInv /\ PageOK(g) /\ UploadOK(g) /\ Kept(g)
      /\ UNCHANGED <<serverVars, session, page, scan, pull, admitted, budget>>
      /\ up[g].at = "send" /\ up[g].sent = m
  BY DoorByDoor DEF UploadAccepted
<1>2. TicketsInv' /\ NothingIsUndone /\ MessagesKept
  BY <1>1, ServerStays
<1>3. /\ db[g] \in DbState /\ q \in Seq(Tix) /\ Len(q) \in Nat /\ m \in Nat
      /\ DOMAIN q = 1 .. Len(q) /\ \A i \in 1 .. m : up[g].batch[i] \in Tix
  BY <1>1, QueueFacts DEF DeviceTypeOK, DbState, UploadState
<1>4. /\ m <= Len(q) /\ \A i \in 1 .. m : up[g].batch[i] = q[i]
      /\ \A i \in 1 .. m : Sent(g, up[g].batch[i])
  BY <1>1 DEF UploadOK
<1>5. /\ rest \in Seq(Tix) /\ DOMAIN rest = 1 .. Len(q) - m
      /\ \A i \in 1 .. Len(q) - m : rest[i] = q[m + i]
  <2>1. m + 1 \in Nat \ {0} /\ Len(q) \in 0 .. Len(q) /\ m + 1 <= Len(q) + 1
    BY <1>3, <1>4
  <2>2. Len(q) - (m + 1) + 1 = Len(q) - m /\ \A i \in Int : m + 1 + i - 1 = m + i
    BY <1>3
  <2> HIDE DEF q, m
  <2>3. /\ rest \in Seq(Tix) /\ DOMAIN rest = 1 .. Len(q) - (m + 1) + 1
        /\ \A i \in 1 .. Len(q) - (m + 1) + 1 : rest[i] = q[m + 1 + i - 1]
    BY <1>3, <2>1, PartOfQueue
  <2> HIDE DEF rest
  <2>4. 1 .. Len(q) - (m + 1) + 1 = 1 .. Len(q) - m
    BY <2>2
  <2>5. ASSUME NEW i \in 1 .. Len(q) - m PROVE rest[i] = q[m + i]
    <3>1. rest[i] = q[m + 1 + i - 1]
      BY <2>3, <2>4
    <3>2. m + 1 + i - 1 = m + i
      BY <2>2
    <3> QED BY <3>1, <3>2
  <2> QED BY <2>3, <2>4, <2>5
<1> HIDE DEF rest
<1>6. db' = [db EXCEPT ![g] = next]
  BY <1>1 DEF UploadAccepted, DeviceTypeOK, rest
<1>7. next \in DbState /\ next.cursor = db[g].cursor /\ next.queue = rest
  BY <1>3, <1>5 DEF DbState
<1> HIDE DEF next
<1>8. /\ db' \in [Gates -> DbState] /\ db'[g] = next
      /\ \A h \in Gates \ {g} : db'[h] = db[h]
  BY <1>1, <1>6, <1>7, Updated DEF DeviceTypeOK
<1>9. /\ up' \in [Gates -> UploadState] /\ up'[g].at = "read"
      /\ \A h \in Gates \ {g} : up'[h] = up[h]
  BY <1>1, UploadEnds DEF UploadAccepted
<1>10. DeviceTypeOK' /\ OtherDoors(g) /\ PageOK(g)'
  BY <1>1, <1>7, <1>8, <1>9 DEF DeviceTypeOK, OtherDoors, PageOK
<1>11. UploadOK(g)'
  BY <1>9 DEF UploadOK
<1>12. \A u \in Tix : Sent(g, u) => Sent(g, u)'
  BY <1>1, <1>2, SentStays
<1>13. ASSUME NEW u \in Queued(g) PROVE u \in Queued(g)' \/ Sent(g, u)'
  <2>1. PICK i \in 1 .. Len(q) : u = q[i]
    BY <1>3 DEF Queued
  <2>2. CASE i <= m
    <3>1. i \in 1 .. m
      BY <1>3, <2>1, <2>2
    <3>2. u \in Tix /\ Sent(g, u)
      BY <1>3, <1>4, <2>1, <3>1
    <3> QED BY <1>12, <3>2
  <2>3. CASE ~(i <= m)
    <3>1. i - m \in 1 .. Len(q) - m /\ m + (i - m) = i
      BY <1>3, <2>1, <2>3
    <3>2. rest[i - m] = u
      BY <1>5, <2>1, <3>1
    <3>3. db'[g].queue = rest
      BY <1>7, <1>8
    <3> QED BY <1>5, <3>1, <3>2, <3>3 DEF Queued
  <2> QED BY <2>2, <2>3
<1>14. Kept(g)'
  <2>1. \A a \in admitted[g] : a[1] \in Tix
    BY <1>1 DEF DeviceTypeOK
  <2> QED BY <1>1, <1>12, <1>13, <2>1 DEF Kept
<1> QED BY <1>2, <1>10, <1>11, <1>14, DoorSteps

-----------------------------------------------------------------------------
(* The doors as a whole.                                                   *)

\* Every step of a device or of the server keeps the invariant, and takes nothing
\* back.
LEMMA DoorsStepKeepsInv ==
  ASSUME DoorsInv, GateNext
  PROVE  DoorsInv' /\ NothingIsUndone
<1>1. CASE TicketsNext /\ UNCHANGED gateVars
  <2>1. DeviceTypeOK /\ TicketsInv
    BY DoorByDoor
  <2>2. TicketsInv' /\ NothingIsUndone /\ MessagesKept
    BY <1>1, <2>1, TicketsStepKeepsInv, ServerKeepsMessages
  <2>3. DeviceTypeOK'
    BY <1>1, <2>1 DEF DeviceTypeOK, gateVars
  <2>4. \A g \in Gates : PageOK(g)' /\ UploadOK(g)' /\ Kept(g)'
    BY <1>1, <2>2, DoorStays DEF gateVars
  <2>5. NoCheckinIsLost'
    BY <2>4 DEF NoCheckinIsLost, Kept, Queued, Sent
  <2>6. GateTypeOK'
    BY <2>2, <2>3 DEF GateTypeOK, DeviceTypeOK, DbState, PageState, ScanState, UploadState,
                      PullState, TicketsInv
  <2> QED BY <2>2, <2>4, <2>5, <2>6 DEF DoorsInv
<1>2. ASSUME NEW g \in Gates, GateStep(g) PROVE DoorsInv' /\ NothingIsUndone
  BY <1>2, StartKeepsDoors, ScanKeepsDoors, ScanQueueKeepsDoors, FlushReadKeepsDoors,
     UploadStopsKeepsDoors, UploadPublishKeepsDoors, UploadAcceptedKeepsDoors,
     ManifestReadsKeepDoors, PullApplyKeepsDoors, PullStopsKeepsDoors,
     DeviceChangesKeepDoors, ReloadKeepsDoors
  DEF GateStep, PageGoesOn
<1>3. ASSUME NEW v \in Validators, Disable(v) \/ Enable(v)
      PROVE  DoorsInv' /\ NothingIsUndone
  BY <1>3, AccessKeepsDoors
<1> QED BY <1>1, <1>2, <1>3 DEF GateNext

\* A step that changes nothing keeps it too.
LEMMA DoorsStand ==
  ASSUME DoorsInv, UNCHANGED allVars
  PROVE  DoorsInv' /\ NothingIsUndone
<1>1. UNCHANGED serverVars /\ UNCHANGED gateVars
  BY DEF allVars, vars, serverVars
<1>2. DeviceTypeOK /\ TicketsInv
  BY DoorByDoor
<1>3. TicketsInv' /\ NothingIsUndone /\ MessagesKept
  BY <1>1, <1>2, ServerStays
<1>4. DeviceTypeOK'
  BY <1>1, <1>2 DEF DeviceTypeOK, gateVars
<1>5. \A g \in Gates : PageOK(g)' /\ UploadOK(g)' /\ Kept(g)'
  BY <1>1, <1>3, DoorStays DEF gateVars
<1>6. NoCheckinIsLost'
  BY <1>5 DEF NoCheckinIsLost, Kept, Queued, Sent
<1>7. GateTypeOK'
  BY <1>3, <1>4 DEF GateTypeOK, DeviceTypeOK, DbState, PageState, ScanState, UploadState,
                    PullState, TicketsInv
<1> QED BY <1>3, <1>5, <1>6, <1>7 DEF DoorsInv

\* No link has been claimed at the start.
LEMMA DoorsAtStart ==
  ASSUME TicketsInit, GateInit
  PROVE  /\ DoorsInv /\ log = <<>>
         /\ \A g \in Gates : db[g].cursor = NoManifest /\ pull[g].at = "off"
<1>1. TicketsInv /\ log = <<>>
  BY TicketsStart0
<1>2. Unknown \in Row /\ <<>> \in Seq(Tix)
  BY DEF Unknown, Row, TicketStatus
<1>3. NoScan \in ScanState /\ NoUpload \in UploadState /\ NoPull \in PullState
  BY <1>2 DEF NoScan, ScanState, NoUpload, UploadState, NoPull, PullState
<1>4. \A g \in Gates : /\ page[g].at = "closed" /\ scan[g] = NoScan /\ up[g] = NoUpload
                       /\ pull[g] = NoPull /\ admitted[g] = {}
                       /\ db[g].cursor = NoManifest
  BY DEF GateInit, GateStart
<1>5. DeviceTypeOK
  <2>1. session \in [Validators -> Gates \cup {NoGate, Disabled}]
    BY DEF GateInit, GateStart
  <2>2. db \in [Gates -> DbState]
    BY <1>2 DEF GateInit, GateStart, DbState
  <2>3. page \in [Gates -> PageState]
    BY DEF GateInit, GateStart, PageState
  <2>4. /\ scan \in [Gates -> ScanState] /\ up \in [Gates -> UploadState]
        /\ pull \in [Gates -> PullState]
    BY <1>3 DEF GateInit, GateStart
  <2>5. /\ admitted \in [Gates -> SUBSET (Tix \X Nat)]
        /\ budget \in [DOMAIN Budget -> Nat]
    BY GateAssumption DEF GateInit, GateStart
  <2> QED BY <2>1, <2>2, <2>3, <2>4, <2>5 DEF DeviceTypeOK
<1>6. \A g \in Gates : PageOK(g) /\ UploadOK(g) /\ Kept(g)
  BY <1>4 DEF PageOK, UploadOK, Kept, NoScan, NoUpload, NoPull
<1> QED BY <1>1, <1>4, <1>5, <1>6, DoorByDoor DEF NoPull

-----------------------------------------------------------------------------
(* The manifests.                                                          *)

\* An entry that has committed stays so, and up to it no entry comes to tell of a
\* revocation any more: it would be late.
LEMMA SettledStays ==
  ASSUME NothingIsUndone, NEW n \in Int, SettledUpTo(n)
  PROVE  /\ n <= Len(log)' /\ (n >= 1 => log'[n].in)
         /\ \A i \in 1 .. n : /\ i \in DOMAIN log
                              /\ log'[i].ticket = log[i].ticket
                              /\ log'[i].reason = log[i].reason
                              /\ Tells(i)' => Tells(i)
<1>1. n <= Len(log) /\ (n >= 1 => log[n].in)
  BY DEF SettledUpTo
<1>2. /\ Len(log) \in Nat /\ Len(log)' \in Nat /\ Len(log) <= Len(log)'
      /\ DOMAIN log = 1 .. Len(log)
  BY DEF NothingIsUndone
<1>3. n <= Len(log)' /\ (n >= 1 => n \in DOMAIN log) /\ \A i \in 1 .. n : i \in DOMAIN log
  BY <1>1, <1>2
<1>4. n <= Len(log)' /\ (n >= 1 => log'[n].in)
  BY <1>1, <1>3 DEF NothingIsUndone
<1>5. ASSUME NEW i \in 1 .. n, Tells(i)'
      PROVE  Tells(i)
  <2>1. i \in DOMAIN log /\ n \in DOMAIN log /\ log[n].in /\ (n > i \/ n = i)
    BY <1>1, <1>3
  <2>2. log'[i].reason = log[i].reason /\ ~log[i].late
    BY <1>5, <2>1 DEF NothingIsUndone, Tells
  <2>3. log[i].in \/ \A j \in DOMAIN log : j > i => ~log[j].in
    BY <1>5, <2>1 DEF NothingIsUndone, Tells
  <2> QED BY <1>5, <2>1, <2>2, <2>3 DEF Tells
<1> QED BY <1>3, <1>4, <1>5 DEF NothingIsUndone

\* A device that takes in no manifest, and makes no ticket valid, keeps what holds
\* of its manifest, however the log grows.
LEMMA ManifestStays ==
  ASSUME DoorsInv, ManifestsInv, NothingIsUndone, NEW g \in Gates,
         db'[g].cursor = db[g].cursor,
         \A t \in Tix : db'[g].row[t].status = "valid" => db[g].row[t].status = "valid",
         pull'[g] = pull[g] \/ pull'[g].at = "off",
         page'[g].at = "loading" => page[g].at = "loading" \/ pull[g].at = "off"
  PROVE  SettledUpTo(db[g].cursor)' /\ PullOK(g)' /\ SkipsNothing(g)'
<1>1. /\ DeviceTypeOK /\ TicketsTypeOK
      /\ SettledUpTo(db[g].cursor) /\ PullOK(g) /\ SkipsNothing(g)
  BY DoorByDoor DEF ManifestsInv, TicketsInv
<1>2. db[g].cursor \in Int /\ pull[g].max \in Nat
  BY <1>1 DEF DeviceTypeOK, DbState, PullState, NoManifest
<1>3. /\ Len(log) \in Nat /\ DOMAIN log = 1 .. Len(log)
      /\ \A i \in DOMAIN log : log[i].ticket \in Tix
  BY <1>1, LogFacts
<1>4. /\ SettledUpTo(db[g].cursor)'
      /\ \A i \in 1 .. db[g].cursor : /\ i \in DOMAIN log
                                      /\ log'[i].ticket = log[i].ticket
                                      /\ Tells(i)' => Tells(i)
  BY <1>1, <1>2, SettledStays DEF SettledUpTo
<1>5. SkipsNothing(g)'
  <2>1. \A i \in DOMAIN log' : i <= db[g].cursor => i \in 1 .. db[g].cursor
    BY <1>2, <1>3 DEF NothingIsUndone
  <2> QED
    BY <1>1, <1>3, <1>4, <2>1 DEF SkipsNothing
<1>6. PullOK(g)'
  <2>1. CASE pull'[g].at = "off"
    BY <2>1 DEF PullOK
  <2>2. CASE pull'[g] = pull[g] /\ pull[g].at # "off"
    <3>1. /\ SettledUpTo(pull[g].max)
          /\ \A i \in 1 .. pull[g].max :
               Tells(i) => \/ log[i].ticket \in pull[g].of
                           \/ i <= db[g].cursor /\ page[g].at # "loading"
          /\ pull[g].at = "reply" =>
               \A i \in 1 .. pull[g].max :
                 log[i].reason = "revoked" /\ log[i].ticket \in pull[g].of
                   => pull[g].row[log[i].ticket].status # "valid"
      BY <1>1, <2>2 DEF PullOK
    <3>2. /\ pull[g].max <= Len(log)'
          /\ pull[g].max >= 1 => log'[pull[g].max].in
          /\ \A i \in 1 .. pull[g].max : /\ log'[i].ticket = log[i].ticket
                                         /\ log'[i].reason = log[i].reason
                                         /\ Tells(i)' => Tells(i)
      BY <1>2, <3>1, SettledStays
    <3>3. SettledUpTo(pull[g].max)'
      BY <2>2, <3>2 DEF SettledUpTo
    <3> QED BY <2>2, <3>1, <3>2, <3>3 DEF PullOK
  <2> QED BY <2>1, <2>2
<1> QED BY <1>4, <1>5, <1>6

\* The actions that leave every manifest alone.
LEMMA ManifestsLeftAlone ==
  ASSUME DoorsInv, NEW g \in Gates,
         \/ Start(g) \/ ScanQueue(g) \/ FlushRead(g) \/ UploadRefused(g)
         \/ UploadPublish(g) \/ UploadAccepted(g) \/ PullRefused(g)
         \/ UploadFails(g) \/ PullFails(g) \/ GoOffline(g) \/ GoOnline(g)
         \/ ManifestExpires(g) \/ Reload(g) \/ \E t \in Tix : ScanRead(g, t),
         NEW h \in Gates
  PROVE  /\ db'[h].cursor = db[h].cursor /\ db'[h].row = db[h].row
         /\ pull'[h] = pull[h] \/ pull'[h].at = "off"
         /\ page'[h].at = "loading" => page[h].at = "loading" \/ pull[h].at = "off"
<1>1. DeviceTypeOK /\ PageOK(h)
  BY DoorByDoor
<1>2. db'[h].cursor = db[h].cursor /\ db'[h].row = db[h].row
  <2>1. CASE ScanQueue(g) \/ UploadAccepted(g)
    <3>1. PICK queue : db' = [db EXCEPT ![g].queue = queue]
      BY <2>1 DEF ScanQueue, UploadAccepted
    <3> QED BY <1>1, <3>1 DEF DeviceTypeOK, DbState
  <2>2. CASE UNCHANGED db
    BY <2>2
  <2> QED
    BY <2>1, <2>2
    DEF Start, FlushRead, UploadRefused, UploadPublish, PullRefused, UploadFails, PullFails,
        GoOffline, GoOnline, ManifestExpires, Reload, ScanRead
<1>3. pull'[h] = pull[h] \/ pull'[h].at = "off"
  <2>1. UNCHANGED pull \/ pull' = [pull EXCEPT ![g] = NoPull]
    BY DEF Start, ScanQueue, FlushRead, UploadRefused, UploadPublish, UploadAccepted,
           PullRefused, UploadFails, PullFails, GoOffline, GoOnline, ManifestExpires,
           Reload, ScanRead
  <2> QED BY <1>1, <2>1 DEF DeviceTypeOK, NoPull
<1>4. page'[h].at = "loading" => page[h].at = "loading" \/ pull[h].at = "off"
  <2>1. CASE UNCHANGED page
    BY <2>1
  <2>2. CASE Enters(g, "starting") \/ Enters(g, "invalid")
    BY <1>1, <2>2 DEF Enters, DeviceTypeOK, PageState
  <2>3. CASE page[g].at = "starting" /\ Enters(g, "loading")
    BY <1>1, <2>3 DEF Enters, DeviceTypeOK, PageState, PageOK
  <2>4. CASE GoesOnOffline(g)
    BY <1>1, <2>4 DEF GoesOnOffline, Enters, DeviceTypeOK, PageState
  <2>5. CASE GoOffline(g) \/ GoOnline(g) \/ ManifestExpires(g) \/ Reload(g)
    <3>1. CASE \E b \in BOOLEAN : page' = [page EXCEPT ![g].online = b]
      BY <1>1, <3>1 DEF DeviceTypeOK, PageState
    <3>2. CASE page' = [page EXCEPT ![g].expired = TRUE]
      BY <1>1, <3>2 DEF DeviceTypeOK, PageState
    <3>3. CASE page' = [page EXCEPT ![g].at = "closed", ![g].expired = FALSE]
      BY <1>1, <3>3 DEF DeviceTypeOK, PageState
    <3> QED
      BY <2>5, <3>1, <3>2, <3>3 DEF GoOffline, GoOnline, ManifestExpires, Reload
  <2> QED
    BY <2>1, <2>2, <2>3, <2>4, <2>5
    DEF Start, ScanQueue, FlushRead, FlushEnds, UploadRefused, StopsScanning, UploadPublish,
        UploadAccepted, PullRefused, UploadFails, PullFails, ScanRead
<1> QED BY <1>2, <1>3, <1>4

\* A mark on the device makes no ticket valid (setStatus).
LEMMA MarkKeepsManifests ==
  ASSUME DoorsInv, NEW g \in Gates, MarkUsed(g), NEW h \in Gates
  PROVE  /\ db'[h].cursor = db[h].cursor /\ pull'[h] = pull[h] /\ page'[h] = page[h]
         /\ \A t \in Tix :
              db'[h].row[t].status = "valid" => db[h].row[t].status = "valid"
<1> DEFINE used == [scan[g].row EXCEPT !.status = "used"]
<1>1. DeviceTypeOK /\ UNCHANGED <<page, pull>>
  BY DoorByDoor DEF MarkUsed
<1>2. used.status = "used"
  BY <1>1 DEF DeviceTypeOK, ScanState, Row
<1>3. db' = [db EXCEPT ![g].row[scan[g].on] = used]
  BY DEF MarkUsed
<1> HIDE DEF used
<1>4. db'[h].cursor = db[h].cursor
  BY <1>1, <1>3 DEF DeviceTypeOK, DbState
<1>5. ASSUME NEW t \in Tix
      PROVE  db'[h].row[t] = db[h].row[t] \/ db'[h].row[t] = used
  BY <1>1, <1>3 DEF DeviceTypeOK, DbState
<1>6. \A t \in Tix : db'[h].row[t].status = "valid" => db[h].row[t].status = "valid"
  <2>1. ASSUME NEW t \in Tix, db'[h].row[t].status = "valid"
        PROVE  db[h].row[t].status = "valid"
    BY <1>2, <1>5, <2>1
  <2> QED BY <2>1
<1> QED BY <1>1, <1>4, <1>6

\* A pull goes up to an entry that has committed, and brings the ticket of every
\* revocation before it (TicketSyncService.manifest).
LEMMA EntriesAreComplete ==
  ASSUME DoorsInv, ManifestsInv, NEW g \in Gates, PullEntries(g)
  PROVE  SettledUpTo(db[g].cursor)' /\ PullOK(g)' /\ SkipsNothing(g)'
<1> DEFINE max == LastOf(News(g), Since(g))
           tickets == {log[i].ticket : i \in News(g)}
<1>1. /\ DeviceTypeOK /\ TicketsTypeOK /\ LogIsTrue /\ PageOK(g)
      /\ SettledUpTo(db[g].cursor) /\ SkipsNothing(g)
      /\ UNCHANGED <<log, db, page>> /\ page[g].at \in {"loading", "scanning"}
  BY DoorByDoor DEF ManifestsInv, TicketsInv, PullEntries, serverVars
<1>2. /\ Since(g) \in Nat /\ max \in Nat /\ max \in News(g) \cup {Since(g)}
      /\ \A i \in News(g) : i <= max /\ Since(g) <= max
  BY <1>1, LastOfFacts
<1>3. Len(log) \in Nat /\ DOMAIN log = 1 .. Len(log)
  BY <1>1, LogFacts
<1>4. pull'[g].at = "rows" /\ pull'[g].max = max /\ pull'[g].of = tickets
  BY <1>1 DEF PullEntries, DeviceTypeOK
<1> HIDE DEF max, tickets
<1>5. SettledUpTo(max)
  <2>1. CASE max \in News(g)
    BY <1>3, <2>1 DEF News, SettledUpTo
  <2>2. CASE max = Since(g)
    BY <1>1, <1>3, <2>2 DEF Since, SettledUpTo
  <2> QED BY <1>2, <2>1, <2>2
<1>6. ASSUME NEW i \in 1 .. max, Tells(i)
      PROVE  log[i].ticket \in tickets \/ (i <= db[g].cursor /\ page[g].at # "loading")
  <2>1. i \in DOMAIN log /\ log[i].in
    BY <1>2, <1>3, <1>5, <1>6 DEF SettledUpTo, Tells
  <2>2. CASE i > Since(g)
    BY <2>1, <2>2 DEF News, tickets
  <2>3. CASE ~(i > Since(g))
    BY <1>1, <1>2, <2>3 DEF Since
  <2> QED BY <2>2, <2>3
<1>7. PullOK(g)'
  BY <1>1, <1>4, <1>5, <1>6 DEF PullOK, SettledUpTo, Tells
<1> QED BY <1>1, <1>7 DEF SettledUpTo, SkipsNothing, Tells

\* A revoked ticket is brought as revoked, since it was so before the log told of it.
LEMMA RowsAreFresh ==
  ASSUME DoorsInv, ManifestsInv, NEW g \in Gates, PullRows(g)
  PROVE  SettledUpTo(db[g].cursor)' /\ PullOK(g)' /\ SkipsNothing(g)'
<1> DEFINE row == [t \in Tix |-> IF t \in pull[g].of THEN RowNow(t) ELSE Unknown]
<1>1. /\ DeviceTypeOK /\ TicketsTypeOK /\ LogIsTrue /\ PullOK(g)
      /\ SettledUpTo(db[g].cursor) /\ SkipsNothing(g)
      /\ UNCHANGED <<log, db, page>> /\ pull[g].at = "rows"
  BY DoorByDoor DEF ManifestsInv, TicketsInv, PullRows, serverVars
<1>2. /\ pull'[g].at = "reply" /\ pull'[g].max = pull[g].max
      /\ pull'[g].of = pull[g].of /\ pull'[g].row = row
  BY <1>1 DEF PullRows, DeviceTypeOK, PullState
<1>3. /\ SettledUpTo(pull[g].max)
      /\ \A i \in 1 .. pull[g].max :
           Tells(i)
             => \/ log[i].ticket \in pull[g].of
                \/ i <= db[g].cursor /\ page[g].at # "loading"
  BY <1>1 DEF PullOK
<1>4. Len(log) \in Nat /\ DOMAIN log = 1 .. Len(log) /\ pull[g].max \in Nat
      /\ \A i \in DOMAIN log : log[i].ticket \in Tix
  BY <1>1, LogFacts DEF DeviceTypeOK, PullState
<1>5. ASSUME NEW i \in 1 .. pull[g].max, log[i].reason = "revoked",
             log[i].ticket \in pull[g].of
      PROVE  row[log[i].ticket].status # "valid"
  <2>1. i \in DOMAIN log
    BY <1>3, <1>4 DEF SettledUpTo
  <2>2. Revoked(log[i].ticket) /\ log[i].ticket \in Tix
    BY <1>1, <1>4, <1>5, <2>1 DEF LogIsTrue
  <2> QED BY <1>5, <2>2 DEF Revoked, RowNow
<1> HIDE DEF row
<1>6. PullOK(g)'
  BY <1>1, <1>2, <1>3, <1>5 DEF PullOK, SettledUpTo, Tells
<1> QED BY <1>1, <1>6 DEF SettledUpTo, SkipsNothing, Tells

\* What the device has then, it has up to its new number (saveManifest, applyDelta).
LEMMA AppliedManifestSkipsNothing ==
  ASSUME DoorsInv, ManifestsInv, NEW g \in Gates, PullApply(g)
  PROVE  SettledUpTo(db[g].cursor)' /\ PullOK(g)' /\ SkipsNothing(g)'
<1>1. /\ DeviceTypeOK /\ TicketsTypeOK /\ PullOK(g) /\ SkipsNothing(g)
      /\ UNCHANGED log /\ pull[g].at = "reply"
  BY DoorByDoor DEF ManifestsInv, TicketsInv, PullApply, serverVars
<1>2. /\ db'[g].cursor = pull[g].max /\ pull'[g].at = "off" /\ pull[g].max \in Nat
      /\ \A t \in Tix : db'[g].row[t] =
           IF t \in pull[g].of THEN pull[g].row[t]
           ELSE IF page[g].at = "loading" THEN Unknown ELSE db[g].row[t]
  BY <1>1, PullApplyFacts
<1>3. /\ SettledUpTo(pull[g].max)
      /\ \A i \in 1 .. pull[g].max :
           Tells(i)
             => \/ log[i].ticket \in pull[g].of
                \/ i <= db[g].cursor /\ page[g].at # "loading"
      /\ \A i \in 1 .. pull[g].max :
           log[i].reason = "revoked" /\ log[i].ticket \in pull[g].of
             => pull[g].row[log[i].ticket].status # "valid"
  BY <1>1 DEF PullOK
<1>4. Len(log) \in Nat /\ DOMAIN log = 1 .. Len(log)
      /\ \A i \in DOMAIN log : log[i].ticket \in Tix
  BY <1>1, LogFacts
<1>5. ASSUME NEW i \in DOMAIN log, Tells(i), i <= pull[g].max
      PROVE  db'[g].row[log[i].ticket].status # "valid"
  <2>1. i \in 1 .. pull[g].max /\ log[i].ticket \in Tix
    BY <1>2, <1>4, <1>5
  <2>2. CASE log[i].ticket \in pull[g].of
    BY <1>2, <1>3, <1>5, <2>1, <2>2 DEF Tells
  <2>3. CASE log[i].ticket \notin pull[g].of
    <3>1. i <= db[g].cursor /\ page[g].at # "loading"
      BY <1>3, <1>5, <2>1, <2>3
    <3>2. db[g].row[log[i].ticket].status # "valid"
      BY <1>1, <1>5, <3>1 DEF SkipsNothing
    <3> QED BY <1>2, <2>1, <2>3, <3>1, <3>2
  <2> QED BY <2>2, <2>3
<1>6. SkipsNothing(g)'
  BY <1>1, <1>2, <1>5 DEF SkipsNothing, Tells
<1>7. SettledUpTo(db[g].cursor)' /\ PullOK(g)'
  BY <1>1, <1>2, <1>3 DEF SettledUpTo, PullOK
<1> QED BY <1>6, <1>7

\* Every step keeps the invariant of the manifests.
LEMMA ManifestsStepKeepsInv ==
  ASSUME DoorsInv, ManifestsInv, NothingIsUndone, GateNext \/ UNCHANGED allVars
  PROVE  ManifestsInv'
<1> SUFFICES ASSUME NEW h \in Gates
             PROVE  SettledUpTo(db[h].cursor)' /\ PullOK(h)' /\ SkipsNothing(h)'
  BY DEF ManifestsInv
<1>1. CASE db'[h] = db[h] /\ pull'[h] = pull[h] /\ page'[h] = page[h]
  BY <1>1, ManifestStays
<1>2. CASE TicketsNext /\ UNCHANGED gateVars
  BY <1>1, <1>2 DEF gateVars
<1>3. CASE UNCHANGED allVars
  BY <1>1, <1>3 DEF allVars, gateVars
<1>4. CASE \E v \in Validators : Disable(v) \/ Enable(v)
  BY <1>1, <1>4 DEF Disable, Enable, device
<1>5. ASSUME NEW g \in Gates, GateStep(g)
      PROVE  SettledUpTo(db[h].cursor)' /\ PullOK(h)' /\ SkipsNothing(h)'
  <2>1. CASE \/ Start(g) \/ ScanQueue(g) \/ FlushRead(g) \/ UploadRefused(g)
             \/ UploadPublish(g) \/ UploadAccepted(g) \/ PullRefused(g)
             \/ UploadFails(g) \/ PullFails(g) \/ GoOffline(g) \/ GoOnline(g)
             \/ ManifestExpires(g) \/ Reload(g) \/ \E t \in Tix : ScanRead(g, t)
    BY <2>1, ManifestsLeftAlone, ManifestStays
  <2>2. CASE MarkUsed(g)
    BY <2>2, MarkKeepsManifests, ManifestStays
  <2>3. CASE PullEntries(g) \/ PullRows(g) \/ PullApply(g)
    <3>1. CASE h = g
      BY <2>3, <3>1, EntriesAreComplete, RowsAreFresh, AppliedManifestSkipsNothing
    <3>2. CASE h # g
      <4>1. DeviceTypeOK
        BY DoorByDoor
      <4>2. db'[h] = db[h] /\ pull'[h] = pull[h] /\ page'[h] = page[h]
        BY <2>3, <3>2, <4>1 DEF PullEntries, PullRows, PullApply, DeviceTypeOK
      <4> QED BY <1>1, <4>2
    <3> QED BY <3>1, <3>2
  <2> QED BY <1>5, <2>1, <2>2, <2>3 DEF GateStep, PageGoesOn
<1> QED BY <1>2, <1>3, <1>4, <1>5 DEF GateNext

-----------------------------------------------------------------------------
(* The entries at a door.                                                  *)

\* The secrets of a ticket are numbered upwards.
CountsGrow == \A t \in Tix : ticket[t].count <= ticket'[t].count

\* Where a call goes.
LEMMA CallArrives ==
  ASSUME TicketsTypeOK, NEW c \in Calls
  PROVE  /\ \A step : Goes(c, step) => call'[c].at = step /\ call'[c].on = call[c].on
         /\ \A step, t : TakesUp(c, step, t) => call'[c].at = step
         /\ \A n : Redeliver(c, n) => call'[c].at = "ready"
         /\ \A step : Continue(c, step) =>
              \/ call'[c].at = "done"
              \/ call'[c].at = step /\ call[c].left # {}
<1>1. call \in [Calls -> CallState]
  BY DEF TicketsTypeOK
<1>2. \A step : Goes(c, step) => call'[c].at = step /\ call'[c].on = call[c].on
  BY <1>1 DEF Goes, CallState
<1>3. \A step, t : TakesUp(c, step, t) => call'[c].at = step
  BY <1>1 DEF TakesUp, CallState
<1>4. \A n : Redeliver(c, n) => call'[c].at = "ready"
  BY <1>1 DEF Redeliver, NotBegun
<1>5. ASSUME NEW step, Continue(c, step)
      PROVE  call'[c].at = "done" \/ (call'[c].at = step /\ call[c].left # {})
  BY <1>1, <1>2, <1>5 DEF Continue, CallState
<1> QED BY <1>2, <1>3, <1>4, <1>5

\* A call records what exists: it has created the ticket, found it valid, moved it
\* or revoked it.
LEMMA RecordsWhatExists ==
  ASSUME TicketsInv, TicketsInv', NothingIsUndone, RecordsAreOfTickets,
         NEW c \in Calls, CallStep(c), Recording(c)'
  PROVE  Exists(call[c].on)'
<1> USE DEF At, IsOp
<1>1. TicketsTypeOK /\ CallOK(c) /\ CallOK(c)' /\ CallOf[c].op \in Operation
  BY CallFacts DEF TicketsInv
<1>2. CASE CallOf[c].op \in {"claim", "revoke"}
  BY <1>1, <1>2 DEF CallOK, Exists, Revoked
<1>3. CASE RecordCustody(c) \/ RecordSync(c)
  <2>1. Recording(c) /\ call'[c].on = call[c].on
    <3>1. Recording(c)
      BY <1>3 DEF RecordCustody, RecordSync, Recording
    <3>2. CASE Goes(c, "sync")
      BY <1>1, <3>1, <3>2, CallArrives
    <3>3. CASE \E n : call' = [call EXCEPT ![c].at = "commit", ![c].slot = n]
      BY <1>1, <3>1, <3>3 DEF TicketsTypeOK, CallState
    <3> QED BY <1>3, <3>2, <3>3, <3>1 DEF RecordCustody, RecordSync
  <2>2. call[c].on \in Tix /\ Exists(call[c].on)
    BY <1>1, <2>1 DEF CallOK, RecordsAreOfTickets
  <2> QED BY <2>1, <2>2 DEF NothingIsUndone, Exists
<1>4. CASE IssueCreate(c)
  <2>1. call[c].on \in Tix
    BY <1>1, <1>4 DEF IssueCreate, CallOK
  <2>2. Goes(c, "custody") /\ ticket' = [ticket EXCEPT ![call[c].on] = Fresh]
    BY <1>1, <1>4, CallArrives DEF IssueCreate, Recording
  <2> QED BY <1>1, <2>1, <2>2, CallArrives DEF TicketsTypeOK, Fresh, Exists
<1>5. CASE CheckIn(c)
  <2>1. call[c].on \in Tix
    BY <1>1, <1>5 DEF CheckIn, CallOK
  <2>2. Goes(c, "custody") /\ ticket' = [ticket EXCEPT ![call[c].on].status = "used"]
    BY <1>1, <1>5, CallArrives DEF CheckIn, Recording
  <2> QED BY <1>1, <2>1, <2>2, CallArrives DEF TicketsTypeOK, Exists
<1>6. CASE CommitSync(c) /\ CallOf[c].op \notin {"claim", "revoke"}
  <2>1. CallOf[c].op # "issue" => call[c].left = {}
    BY <1>1, <1>6 DEF CallOK
  <2> QED
    BY <1>1, <1>6, <2>1, CallArrives DEF CommitSync, NextTicket, Recording
<1>7. CASE \/ IssueRead(c) \/ InitiateRead(c) \/ InitiateCreate(c) \/ CancelRead(c)
           \/ CancelWrite(c) \/ VerifyRead(c) \/ IngestRead(c) \/ HandlerFails(c)
           \/ HandlerDies(c)
  <2>1. CASE IssueRead(c)
    <3>1. CASE Goes(c, "done")
      BY <1>1, <3>1, CallArrives DEF Recording
    <3>2. CASE \E t, left :
                 call' = [call EXCEPT ![c].at = "create", ![c].on = t, ![c].left = left]
      BY <1>1, <3>2 DEF TicketsTypeOK, CallState, Recording
    <3> QED BY <2>1, <3>1, <3>2 DEF IssueRead
  <2>2. CASE InitiateRead(c) \/ CancelRead(c) \/ VerifyRead(c)
    BY <1>1, <2>2, CallArrives DEF InitiateRead, CancelRead, VerifyRead, Recording
  <2>3. CASE InitiateCreate(c) \/ CancelWrite(c) \/ IngestRead(c)
    BY <1>1, <2>3, CallArrives DEF InitiateCreate, CancelWrite, IngestRead, Recording
  <2>4. CASE HandlerFails(c) \/ HandlerDies(c)
    BY <1>1, <2>4, CallArrives DEF HandlerFails, HandlerDies, Recording
  <2> QED BY <1>7, <2>1, <2>2, <2>3, <2>4
<1>8. CASE \/ ClaimFind(c) \/ ClaimRead(c) \/ ClaimVoid(c) \/ ClaimFresh(c)
           \/ ClaimMove(c) \/ RevokeBegin(c) \/ RevokeRead(c) \/ RevokeWrite(c)
  <2>1. CallOf[c].op \in {"claim", "revoke"}
    BY <1>1, <1>8, StepsOfEach
    DEF ClaimFind, ClaimRead, ClaimVoid, ClaimFresh, ClaimMove, RevokeBegin, RevokeRead,
        RevokeWrite, CallOK, Operation
  <2> QED BY <1>2, <2>1
<1> QED
  BY <1>2, <1>3, <1>4, <1>5, <1>6, <1>7, <1>8 DEF CallStep, CallGoesOn

\* The log grows by what is recorded.
LEMMA LogGrowsByRecords ==
  ASSUME TicketsInv, NEW c \in Calls, CallStep(c), NEW i \in DOMAIN log'
  PROVE  \/ i \in DOMAIN log
         \/ Recording(c) /\ log'[i].ticket = call[c].on
<1>1. CASE RecordSync(c)
  <2>1. /\ log \in Seq(LogEntry)
        /\ log' = Append(log, Entry(c))
    BY <1>1 DEF TicketsInv, TicketsTypeOK, RecordSync
  <2>2. Entry(c).ticket = call[c].on
    BY DEF Entry
  <2>3. i \in DOMAIN log \/ log'[i] = Entry(c)
    <3> HIDE DEF Entry
    <3> QED BY <2>1
  <2> QED BY <1>1, <2>2, <2>3 DEF RecordSync, Recording, At
<1>2. CASE CommitSync(c)
  BY <1>2 DEF CommitSync
<1>3. CASE UNCHANGED log
  BY <1>3
<1> QED
  BY <1>1, <1>2, <1>3
  DEF CallStep, CallGoesOn, IssueRead, InitiateRead, ClaimFind, CancelRead, VerifyRead,
      RevokeBegin, IssueCreate, InitiateCreate, ClaimRead, ClaimVoid, ClaimFresh,
      ClaimMove, CancelWrite, IngestRead, CheckIn, RevokeRead, RevokeWrite,
      RecordCustody, HandlerFails, HandlerDies, records

\* No step of a call counts backwards.
LEMMA CallCountsUp ==
  ASSUME TicketsInv, NEW c \in Calls, CallStep(c)
  PROVE  CountsGrow
<1>1. /\ TicketsTypeOK /\ \A t \in Tix : ticket[t].count \in Nat
      /\ \A t \in Tix : ~Exists(t) => ticket[t].count = 0
  BY DEF TicketsInv, TicketsTypeOK, TransfersAreCounted
<1>2. CASE UNCHANGED ticket
  BY <1>1, <1>2 DEF CountsGrow
<1>3. CASE \E t : ~Exists(t) /\ ticket' = [ticket EXCEPT ![t] = Fresh]
  BY <1>1, <1>3 DEF CountsGrow, TicketsTypeOK, Fresh
<1>4. CASE \E t : ticket' = [ticket EXCEPT ![t].status = "used"]
  BY <1>1, <1>4 DEF CountsGrow, TicketsTypeOK
<1>5. CASE ClaimMove(c)
  <2>1. PICK t, user :
          ticket' = [ticket EXCEPT ![t].owner = user, ![t].count = @ + 1]
    BY <1>5 DEF ClaimMove
  <2> QED BY <1>1, <2>1 DEF CountsGrow, TicketsTypeOK
<1>6. CASE RevokeWrite(c)
  BY <1>1, <1>6 DEF RevokeWrite, CountsGrow, TicketsTypeOK
<1> QED
  BY <1>2, <1>3, <1>4, <1>5, <1>6
  DEF CallStep, CallGoesOn, IssueRead, InitiateRead, ClaimFind, CancelRead, VerifyRead,
      RevokeBegin, IssueCreate, InitiateCreate, ClaimRead, ClaimVoid, ClaimFresh,
      CancelWrite, IngestRead, CheckIn, RevokeRead, RecordCustody, RecordSync,
      CommitSync, HandlerFails, HandlerDies, rows

\* The server keeps its part of the invariant.
LEMMA ServerKeepsRecords ==
  ASSUME TicketsInv, RecordsAreOfTickets, TicketsNext
  PROVE  RecordsAreOfTickets' /\ CountsGrow
<1>1. TicketsInv' /\ NothingIsUndone /\ TicketsTypeOK
  BY TicketsStepKeepsInv DEF TicketsInv
<1>2. ASSUME NEW c \in Calls, CallStep(c)
      PROVE  RecordsAreOfTickets' /\ CountsGrow
  <2>1. ASSUME NEW d \in Calls, Recording(d)' PROVE Exists(call[d].on)'
    <3>1. CASE d = c
      BY <1>1, <1>2, <2>1, <3>1, RecordsWhatExists
    <3>2. CASE d # c
      <4>1. call'[d] = call[d]
        BY <1>1, <1>2, <3>2, CallStepMoves DEF Moved
      <4>2. Recording(d) /\ call[d].on \in Tix
        BY <2>1, <4>1 DEF Recording, TicketsInv, CallOK
      <4> QED BY <1>1, <4>1, <4>2 DEF RecordsAreOfTickets, NothingIsUndone, Exists
    <3> QED BY <3>1, <3>2
  <2>2. ASSUME NEW i \in DOMAIN log' PROVE Exists(log[i].ticket)'
    <3>1. PICK t \in Tix : log'[i].ticket = t /\ Exists(t)
      <4>1. CASE i \in DOMAIN log
        BY <1>1, <4>1, LogFacts DEF RecordsAreOfTickets, NothingIsUndone
      <4>2. CASE Recording(c) /\ log'[i].ticket = call[c].on
        BY <4>2 DEF RecordsAreOfTickets, TicketsInv, CallOK
      <4> QED BY <1>2, <4>1, <4>2, LogGrowsByRecords
    <3> QED BY <1>1, <3>1 DEF NothingIsUndone, Exists
  <2>3. CountsGrow
    BY <1>2, CallCountsUp
  <2> QED BY <2>1, <2>2, <2>3 DEF RecordsAreOfTickets
<1>3. CASE \E x \in Transfers : TransferLapses(x)
  <2>1. UNCHANGED <<ticket, call, log>>
    BY <1>3 DEF TransferLapses, records
  <2> QED
    BY <1>1, <2>1 DEF RecordsAreOfTickets, Recording, Exists, CountsGrow, TicketsTypeOK
<1> QED BY <1>2, <1>3 DEF TicketsNext

\* A device whose rows stay, and that makes no entry, keeps what holds of its
\* entries, whatever the server does.
LEMMA EntriesStay ==
  ASSUME DoorsInv, EntriesInv, NothingIsUndone, CountsGrow, TicketsTypeOK', NEW g \in Gates,
         db'[g].row = db[g].row, pull'[g] = pull[g] \/ pull'[g].at = "off",
         \/ scan'[g] = scan[g] /\ admitted'[g] = admitted[g]
         \/ scan'[g].at = "idle" /\ admitted'[g] \subseteq Entered(g),
         page'[g].at = "loading" => page[g].at = "loading" \/ pull[g].at = "off",
         scan'[g].at # "idle" => page'[g].at \in {"scanning", "invalid"}
  PROVE  DoorOK(g)'
<1>1. /\ DeviceTypeOK /\ TicketsTypeOK /\ RowsOK(g) /\ ScanOK(g) /\ BringsOK(g)
      /\ EnteredOK(g)
  BY DoorByDoor DEF EntriesInv, DoorOK, TicketsInv
<1>2. \A t \in Tix :
        /\ ticket[t].count \in Nat /\ ticket'[t].count \in Nat
        /\ ticket[t].count <= ticket'[t].count
        /\ Told(t) => Told(t)'
        /\ Revoked(t) => Revoked(t)'
  <2>1. DOMAIN log \subseteq DOMAIN log'
    BY DEF NothingIsUndone
  <2>2. \A t \in Tix : ticket[t].count \in Nat /\ ticket'[t].count \in Nat
    BY <1>1 DEF TicketsTypeOK
  <2> QED BY <2>1, <2>2 DEF NothingIsUndone, Told, CountsGrow
<1>3. /\ \A t \in Tix : db[g].row[t].gen \in Nat /\ pull[g].row[t].gen \in Nat
      /\ scan[g].row.gen \in Nat /\ pull[g].of \subseteq Tix
  BY <1>1 DEF DeviceTypeOK, DbState, PullState, ScanState, Row
<1>4. Known(g)' = Known(g) /\ Known(g) \subseteq Tix
  BY DEF Known
<1>5. RowsOK(g)'
  BY <1>1, <1>2, <1>3, <1>4 DEF RowsOK
<1>6. ScanOK(g)'
  BY <1>1, <1>2, <1>3, <1>4 DEF ScanOK
<1>7. BringsOK(g)'
  <2>1. CASE pull'[g].at = "off"
    BY <2>1 DEF BringsOK
  <2>2. CASE pull'[g] = pull[g] /\ pull[g].at # "off"
    BY <1>1, <1>2, <1>3, <1>4, <2>2 DEF BringsOK
  <2> QED BY <2>1, <2>2
<1>8. EnteredOK(g)'
  <2>1. Entered(g)' \subseteq Entered(g)
    BY DEF Entered
  <2> QED BY <1>1, <1>4, <2>1 DEF EnteredOK
<1> QED BY <1>5, <1>6, <1>7, <1>8 DEF DoorOK

\* A step of one device leaves the others alone.
LEMMA StepsOfOneDoor ==
  ASSUME DeviceTypeOK, NEW g \in Gates, GateStep(g)
  PROVE  OtherDoors(g)
<1> SUFFICES ASSUME NEW h \in Gates, h # g
             PROVE  /\ db'[h] = db[h] /\ page'[h] = page[h] /\ scan'[h] = scan[h]
                    /\ up'[h] = up[h] /\ pull'[h] = pull[h] /\ admitted'[h] = admitted[h]
  BY DEF OtherDoors
<1>1. db'[h] = db[h]
  <2>1. CASE \E e : db' = [db EXCEPT ![g] = e]
    BY <2>1 DEF DeviceTypeOK
  <2>2. CASE UNCHANGED db
    BY <2>2
  <2> QED
    BY <2>1, <2>2
    DEF GateStep, PageGoesOn, Start, ScanRead, MarkUsed, ScanQueue, FlushRead,
        UploadRefused, UploadPublish, UploadAccepted, UploadFails, PullEntries, PullRows,
        PullApply, PullRefused, PullFails, GoOffline, GoOnline, ManifestExpires, Reload
<1>2. page'[h] = page[h]
  <2>1. CASE \E e : page' = [page EXCEPT ![g] = e]
    BY <2>1 DEF DeviceTypeOK
  <2>2. CASE UNCHANGED page
    BY <2>2
  <2> QED
    BY <2>1, <2>2
    DEF GateStep, PageGoesOn, Start, ScanRead, MarkUsed, ScanQueue, FlushRead, FlushEnds,
        UploadRefused, UploadPublish, UploadAccepted, UploadFails, PullEntries, PullRows,
        PullApply, PullRefused, PullFails, GoesOnOffline, StopsScanning, Enters,
        GoOffline, GoOnline, ManifestExpires, Reload
<1>3. scan'[h] = scan[h]
  <2>1. CASE \E e : scan' = [scan EXCEPT ![g] = e]
    BY <2>1 DEF DeviceTypeOK
  <2>2. CASE UNCHANGED scan
    BY <2>2
  <2> QED
    BY <2>1, <2>2
    DEF GateStep, PageGoesOn, Start, ScanRead, MarkUsed, ScanQueue, FlushRead,
        UploadRefused, UploadPublish, UploadAccepted, UploadFails, PullEntries, PullRows,
        PullApply, PullRefused, PullFails, GoOffline, GoOnline, ManifestExpires, Reload
<1>4. up'[h] = up[h]
  <2>1. CASE \E e : up' = [up EXCEPT ![g] = e]
    BY <2>1 DEF DeviceTypeOK
  <2>2. CASE UNCHANGED up
    BY <2>2
  <2> QED
    BY <2>1, <2>2
    DEF GateStep, PageGoesOn, Start, ScanRead, MarkUsed, ScanQueue, FlushRead,
        UploadRefused, UploadPublish, UploadAccepted, UploadFails, PullEntries, PullRows,
        PullApply, PullRefused, PullFails, GoOffline, GoOnline, ManifestExpires, Reload
<1>5. pull'[h] = pull[h]
  <2>1. CASE \E e : pull' = [pull EXCEPT ![g] = e]
    BY <2>1 DEF DeviceTypeOK
  <2>2. CASE UNCHANGED pull
    BY <2>2
  <2> QED
    BY <2>1, <2>2
    DEF GateStep, PageGoesOn, Start, ScanRead, MarkUsed, ScanQueue, FlushRead,
        UploadRefused, UploadPublish, UploadAccepted, UploadFails, PullEntries, PullRows,
        PullApply, PullRefused, PullFails, GoOffline, GoOnline, ManifestExpires, Reload
<1>6. admitted'[h] = admitted[h]
  <2>1. CASE \E e : admitted' = [admitted EXCEPT ![g] = e]
    BY <2>1 DEF DeviceTypeOK
  <2>2. CASE UNCHANGED admitted
    BY <2>2
  <2> QED
    BY <2>1, <2>2
    DEF GateStep, PageGoesOn, Start, ScanRead, MarkUsed, ScanQueue, FlushRead,
        UploadRefused, UploadPublish, UploadAccepted, UploadFails, PullEntries, PullRows,
        PullApply, PullRefused, PullFails, GoOffline, GoOnline, ManifestExpires, Reload
<1> QED BY <1>1, <1>2, <1>3, <1>4, <1>5, <1>6

\* The steps of a device that scan nothing and pull nothing.
LEMMA EntriesLeftAlone ==
  ASSUME DoorsInv, EntriesInv, NEW g \in Gates,
         \/ Start(g) \/ ScanQueue(g) \/ FlushRead(g) \/ UploadRefused(g)
         \/ UploadPublish(g) \/ UploadAccepted(g) \/ PullRefused(g)
         \/ UploadFails(g) \/ PullFails(g) \/ GoOffline(g) \/ GoOnline(g)
         \/ ManifestExpires(g) \/ Reload(g)
  PROVE  /\ \/ scan'[g] = scan[g] /\ admitted'[g] = admitted[g]
            \/ scan'[g].at = "idle" /\ admitted'[g] \subseteq Entered(g)
         /\ scan'[g].at # "idle" => page'[g].at \in {"scanning", "invalid"}
<1>1. DeviceTypeOK /\ ScanOK(g) /\ NoScan.at = "idle"
  BY DoorByDoor DEF EntriesInv, DoorOK, NoScan
<1>2. CASE ScanQueue(g)
  <2>1. scan'[g].at = "idle"
    BY <1>1, <1>2 DEF ScanQueue, DeviceTypeOK
  <2>2. admitted'[g] = admitted[g] \cup {<<scan[g].on, scan[g].row.gen>>}
    BY <1>1, <1>2 DEF ScanQueue, DeviceTypeOK
  <2>3. admitted'[g] = Entered(g)
    BY <1>2, <2>2 DEF ScanQueue, Entered
  <2> QED BY <2>1, <2>3
<1>3. CASE Reload(g)
  <2>1. scan'[g].at = "idle" /\ admitted' = admitted
    BY <1>1, <1>3 DEF Reload, DeviceTypeOK
  <2> QED BY <2>1 DEF Entered
<1>4. CASE ~ScanQueue(g) /\ ~Reload(g)
  <2>1. UNCHANGED <<scan, admitted>>
    BY <1>4
    DEF Start, FlushRead, UploadRefused, UploadPublish, UploadAccepted, PullRefused,
        UploadFails, PullFails, GoOffline, GoOnline, ManifestExpires
  <2>2. ASSUME scan[g].at # "idle" PROVE page'[g].at \in {"scanning", "invalid"}
    <3>1. page[g].at \in {"scanning", "invalid"}
      BY <1>1, <2>2 DEF ScanOK
    <3>2. CASE UNCHANGED page
      BY <3>1, <3>2
    <3>3. CASE Enters(g, "invalid")
      BY <1>1, <3>3 DEF Enters, DeviceTypeOK, PageState
    <3>4. CASE \E online : page' = [page EXCEPT ![g].online = online]
      BY <1>1, <3>1, <3>4 DEF DeviceTypeOK, PageState
    <3>5. CASE page' = [page EXCEPT ![g].expired = TRUE]
      BY <1>1, <3>1, <3>5 DEF DeviceTypeOK, PageState
    <3> QED
      BY <1>4, <3>1, <3>2, <3>3, <3>4, <3>5
      DEF Start, FlushRead, FlushEnds, UploadRefused, StopsScanning, UploadPublish,
          UploadAccepted, PullRefused, UploadFails, PullFails, GoOffline, GoOnline,
          ManifestExpires
  <2> QED BY <2>1, <2>2
<1> QED BY <1>2, <1>3, <1>4

\* A code is read whose secret has not entered: the row is valid (validate).
LEMMA ScanReadKeepsEntries ==
  ASSUME DoorsInv, EntriesInv, NEW g \in Gates, NEW t \in Tix, ScanRead(g, t)
  PROVE  DoorOK(g)'
<1> DEFINE row == db[g].row[t]
<1>1. /\ DeviceTypeOK /\ RowsOK(g) /\ BringsOK(g) /\ EnteredOK(g)
      /\ UNCHANGED <<ticket, log, db, page, pull, admitted>>
      /\ page[g].at = "scanning" /\ row.status = "valid"
  BY DoorByDoor DEF EntriesInv, DoorOK, ScanRead, serverVars
<1>2. scan'[g] = [at |-> "mark", on |-> t, row |-> row]
  BY <1>1 DEF ScanRead, DeviceTypeOK
<1>3. scan'[g].at = "mark" /\ scan'[g].on = t /\ scan'[g].row = row
  BY <1>2
<1>4. row.gen \in Nat /\ \A a \in admitted[g] : a[2] \in Nat
  BY <1>1 DEF DeviceTypeOK, DbState, Row
<1> HIDE DEF row
<1>5. RowsOK(g)'
  BY <1>1 DEF RowsOK, Told, Revoked, Known
<1>6. ScanOK(g)'
  <2>1. t \in Known(g)' /\ row.gen <= ticket'[t].count
    BY <1>1 DEF Known, RowsOK, row
  <2>2. ASSUME NEW a \in admitted[g], a[1] = t PROVE a[2] < row.gen
    <3>1. a \in Entered(g)
      BY DEF Entered
    <3> QED BY <1>1, <2>2, <3>1 DEF EnteredOK, row
  <2> QED BY <1>1, <1>3, <2>1, <2>2 DEF ScanOK
<1>7. BringsOK(g)'
  BY <1>1, <1>3 DEF BringsOK, Told, Revoked, Known, row
<1>8. EnteredOK(g)'
  <2>1. Entered(g)' \subseteq Entered(g)
    BY <1>1, <1>3 DEF Entered
  <2> QED BY <1>1, <2>1 DEF EnteredOK, Known
<1> QED BY <1>5, <1>6, <1>7, <1>8 DEF DoorOK

\* The mark leaves a secret that no entry here is newer than (setStatus).
LEMMA MarkKeepsEntries ==
  ASSUME DoorsInv, EntriesInv, NEW g \in Gates, MarkUsed(g)
  PROVE  DoorOK(g)'
<1> DEFINE t == scan[g].on
           used == [scan[g].row EXCEPT !.status = "used"]
<1>1. /\ DeviceTypeOK /\ RowsOK(g) /\ ScanOK(g) /\ BringsOK(g) /\ EnteredOK(g)
      /\ UNCHANGED <<ticket, log, page, pull, admitted>>
      /\ scan[g].at = "mark"
  BY DoorByDoor DEF EntriesInv, DoorOK, MarkUsed, serverVars
<1>2. /\ scan'[g].at = "queue" /\ scan'[g].on = t /\ scan'[g].row = scan[g].row
  BY <1>1 DEF MarkUsed, DeviceTypeOK, ScanState
<1>3. /\ page[g].at \in {"scanning", "invalid"} /\ t \in Known(g) /\ t \in Tix
      /\ scan[g].row.gen <= ticket[t].count
      /\ \A a \in admitted[g] : a[1] = t => a[2] < scan[g].row.gen
  BY <1>1 DEF ScanOK, Known
<1>4. used.status = "used" /\ used.gen = scan[g].row.gen /\ used.gen \in Nat
  BY <1>1 DEF DeviceTypeOK, ScanState, Row
<1>5. db'[g].row[t] = used /\ \A u \in Tix : u # t => db'[g].row[u] = db[g].row[u]
  <2>1. db' = [db EXCEPT ![g].row[t] = used]
    BY DEF MarkUsed
  <2> HIDE DEF t, used
  <2> QED BY <1>1, <1>3, <2>1 DEF DeviceTypeOK, DbState
<1> HIDE DEF t, used
<1>6. Known(g)' = Known(g)
  BY <1>3, <1>4, <1>5 DEF Known
<1>7. RowsOK(g)'
  <2>1. ASSUME NEW u \in Tix
        PROVE  /\ db'[g].row[u].gen <= ticket[u].count
               /\ u \in Known(g) => Told(u)
               /\ db'[g].row[u].status = "revoked" => Revoked(u)
    <3>1. CASE u = t
      BY <1>1, <1>3, <1>4, <1>5, <3>1 DEF RowsOK
    <3>2. CASE u # t
      BY <1>1, <1>5, <3>2 DEF RowsOK
    <3> QED BY <3>1, <3>2
  <2> QED BY <1>1, <1>6, <2>1 DEF RowsOK, Told, Revoked
<1>8. ScanOK(g)'
  BY <1>1, <1>2, <1>3, <1>6 DEF ScanOK
<1>9. BringsOK(g)'
  <2>1. ASSUME pull[g].at = "reply", NEW u \in pull[g].of
        PROVE  /\ db'[g].row[u].gen <= pull[g].row[u].gen
               /\ t = u => scan[g].row.gen <= pull[g].row[u].gen
               /\ db'[g].row[u].status = "revoked" => pull[g].row[u].status = "revoked"
    <3>1. /\ u \in Tix /\ db[g].row[u].gen <= pull[g].row[u].gen
          /\ t = u => scan[g].row.gen <= pull[g].row[u].gen
          /\ db[g].row[u].status = "revoked" => pull[g].row[u].status = "revoked"
      BY <1>1, <2>1 DEF BringsOK, t, DeviceTypeOK, PullState
    <3> QED BY <1>4, <1>5, <3>1
  <2> QED BY <1>1, <1>2, <1>3, <1>6, <2>1 DEF BringsOK, Told, Revoked
<1>10. EnteredOK(g)'
  <2>1. ASSUME NEW a \in Entered(g)'
        PROVE  /\ a[1] \in Known(g)
               /\ \/ a[2] < db'[g].row[a[1]].gen
                  \/ /\ a[2] = db'[g].row[a[1]].gen
                     /\ db'[g].row[a[1]].status \in {"used", "revoked"}
    <3>1. CASE a \in admitted[g]
      <4>1. a \in Entered(g)
        BY <3>1 DEF Entered
      <4>2. /\ a[1] \in Known(g) /\ a[1] \in Tix
            /\ \/ a[2] < db[g].row[a[1]].gen
               \/ /\ a[2] = db[g].row[a[1]].gen
                  /\ db[g].row[a[1]].status \in {"used", "revoked"}
        BY <1>1, <4>1 DEF EnteredOK, Known
      <4> QED BY <1>3, <1>4, <1>5, <3>1, <4>2
    <3>2. CASE a = <<t, scan[g].row.gen>>
      <4>1. a[1] = t /\ a[2] = scan[g].row.gen
        BY <3>2
      <4> QED BY <1>3, <1>4, <1>5, <4>1
    <3>3. a \in admitted[g] \/ a = <<t, scan[g].row.gen>>
      BY <1>1, <1>2 DEF Entered
    <3> QED BY <3>1, <3>2, <3>3
  <2> QED BY <1>6, <2>1 DEF EnteredOK
<1> QED BY <1>7, <1>8, <1>9, <1>10 DEF DoorOK

\* The reads of a manifest: every ticket told of, as it is (TicketSyncService.manifest).
LEMMA ManifestReadsKeepEntries ==
  ASSUME DoorsInv, EntriesInv, NEW g \in Gates, PullEntries(g) \/ PullRows(g)
  PROVE  DoorOK(g)'
<1>1. /\ DeviceTypeOK /\ TicketsTypeOK /\ RecordsAreOfTickets
      /\ RowsOK(g) /\ ScanOK(g) /\ BringsOK(g) /\ EnteredOK(g)
      /\ UNCHANGED <<ticket, log, db, page, scan, admitted>>
  BY DoorByDoor
  DEF EntriesInv, DoorOK, TicketsInv, PullEntries, PullRows, serverVars
<1>2. RowsOK(g)' /\ ScanOK(g)' /\ EnteredOK(g)'
  BY <1>1 DEF RowsOK, ScanOK, EnteredOK, Told, Revoked, Known, Entered
<1>3. CASE PullEntries(g)
  <2> DEFINE tickets == {log[i].ticket : i \in News(g)}
  <2>1. pull'[g].at = "rows" /\ pull'[g].of = tickets
    BY <1>1, <1>3 DEF PullEntries, DeviceTypeOK
  <2>2. \A t \in tickets : Told(t)
    BY DEF News, Told
  <2>3. ASSUME page[g].at = "loading", NEW t \in Known(g) PROVE t \in tickets
    <3>1. PICK i \in DOMAIN log : log[i].in /\ log[i].ticket = t
      BY <1>1 DEF RowsOK, Told, Known
    <3>2. i > 0
      BY <1>1, LogFacts
    <3> QED BY <2>3, <3>1, <3>2 DEF News, Since
  <2> HIDE DEF tickets
  <2>4. BringsOK(g)'
    BY <1>1, <2>1, <2>2, <2>3 DEF BringsOK, Told, Known
  <2> QED BY <1>2, <2>4 DEF DoorOK
<1>4. CASE PullRows(g)
  <2> DEFINE row == [t \in Tix |-> IF t \in pull[g].of THEN RowNow(t) ELSE Unknown]
  <2>1. pull'[g].at = "reply" /\ pull'[g].of = pull[g].of /\ pull'[g].row = row
    BY <1>1, <1>4 DEF PullRows, DeviceTypeOK, PullState
  <2>2. ASSUME NEW t \in pull[g].of
        PROVE  /\ row[t].status # "none" /\ row[t].gen <= ticket[t].count
               /\ db[g].row[t].gen <= row[t].gen
               /\ scan[g].at # "idle" /\ scan[g].on = t => scan[g].row.gen <= row[t].gen
               /\ row[t].status = "revoked" => Revoked(t)
               /\ db[g].row[t].status = "revoked" => row[t].status = "revoked"
    <3>1. t \in Tix /\ Told(t)
      BY <1>1, <1>4 DEF BringsOK, DeviceTypeOK, PullState, PullRows
    <3>2. Exists(t)
      BY <1>1, <3>1 DEF Told, RecordsAreOfTickets
    <3>3. row[t].status = ticket[t].status /\ row[t].gen = ticket[t].count
      BY <3>1 DEF RowNow
    <3>4. ticket[t].count \in Nat
      BY <1>1, <3>1 DEF TicketsTypeOK
    <3> HIDE DEF row
    <3> QED BY <1>1, <3>1, <3>2, <3>3, <3>4 DEF RowsOK, ScanOK, Exists, Revoked
  <2> HIDE DEF row
  <2>3. /\ \A t \in pull[g].of : Told(t)
        /\ page[g].at = "loading" => Known(g) \subseteq pull[g].of
    BY <1>1, <1>4 DEF BringsOK, PullRows
  <2>4. BringsOK(g)'
    BY <1>1, <2>1, <2>2, <2>3 DEF BringsOK, Told, Revoked, Known
  <2> QED BY <1>2, <2>4 DEF DoorOK
<1> QED BY <1>3, <1>4

\* A manifest that is taken in, where it does not undo what the device has used
\* (saveManifest, applyDelta).
LEMMA PullKeepsEntries ==
  ASSUME DoorsInv, EntriesInv, PullsKeepEntries, NEW g \in Gates, PullApply(g)
  PROVE  DoorOK(g)'
<1>1. /\ DeviceTypeOK /\ TicketsTypeOK
      /\ RowsOK(g) /\ ScanOK(g) /\ BringsOK(g) /\ EnteredOK(g)
      /\ UNCHANGED <<ticket, log, scan, admitted>> /\ pull[g].at = "reply"
  BY DoorByDoor DEF EntriesInv, DoorOK, TicketsInv, PullApply, serverVars
<1>2. /\ \A t \in Tix : db'[g].row[t] =
           IF t \in pull[g].of THEN pull[g].row[t]
           ELSE IF page[g].at = "loading" THEN Unknown ELSE db[g].row[t]
      /\ page'[g].at = IF page[g].at = "loading" THEN "scanning" ELSE page[g].at
      /\ pull'[g].at = "off"
  BY <1>1, PullApplyFacts
<1>3. /\ pull[g].of \subseteq Tix /\ \A t \in pull[g].of : Told(t)
      /\ page[g].at = "loading" => Known(g) \subseteq pull[g].of
      /\ \A t \in pull[g].of :
           /\ pull[g].row[t].status # "none" /\ pull[g].row[t].gen <= ticket[t].count
           /\ db[g].row[t].gen <= pull[g].row[t].gen
           /\ pull[g].row[t].status = "revoked" => Revoked(t)
           /\ db[g].row[t].status = "revoked" => pull[g].row[t].status = "revoked"
  BY <1>1 DEF BringsOK, DeviceTypeOK, PullState
<1>4. \A t \in Known(g) : t \in Tix /\ (t \in pull[g].of \/ db'[g].row[t] = db[g].row[t])
  BY <1>2, <1>3 DEF Known
<1>5. Known(g) \subseteq Known(g)'
  BY <1>2, <1>3, <1>4 DEF Known
<1>6. RowsOK(g)'
  <2>1. ASSUME NEW t \in Tix
        PROVE  /\ db'[g].row[t].gen <= ticket[t].count
               /\ db'[g].row[t].status # "none" => Told(t)
               /\ db'[g].row[t].status = "revoked" => Revoked(t)
    <3>1. /\ db[g].row[t].gen <= ticket[t].count /\ ticket[t].count \in Nat
          /\ db[g].row[t].status # "none" => Told(t)
          /\ db[g].row[t].status = "revoked" => Revoked(t)
      BY <1>1 DEF RowsOK, Known, TicketsTypeOK
    <3>2. Unknown.status = "none" /\ Unknown.gen = 0
      BY DEF Unknown
    <3> QED BY <1>2, <1>3, <3>1, <3>2
  <2> QED BY <1>1, <2>1 DEF RowsOK, Told, Revoked, Known
<1>7. ScanOK(g)'
  BY <1>1, <1>2, <1>5 DEF ScanOK
<1>8. BringsOK(g)'
  BY <1>2 DEF BringsOK
<1>9. EnteredOK(g)'
  <2>1. ASSUME NEW a \in Entered(g)
        PROVE  \/ a[2] < db'[g].row[a[1]].gen
               \/ /\ a[2] = db'[g].row[a[1]].gen
                  /\ db'[g].row[a[1]].status \in {"used", "revoked"}
    <3> DEFINE old == db[g].row[a[1]]
               new == db'[g].row[a[1]]
    <3>1. /\ a[1] \in Known(g)
          /\ a[2] < old.gen \/ (a[2] = old.gen /\ old.status \in {"used", "revoked"})
      BY <1>1 DEF EnteredOK
    <3>2. CASE new = old
      BY <3>1, <3>2
    <3>3. CASE a[1] \in pull[g].of
      <4>1. a[1] \in Tix /\ new = pull[g].row[a[1]]
        BY <1>2, <1>3, <3>3
      <4>2. new.gen \in Nat /\ old.gen \in Nat /\ a[2] \in Nat /\ new.status \in TicketStatus
        BY <1>1, <4>1 DEF DeviceTypeOK, DbState, PullState, ScanState, Row, Entered
      <4>3. old.gen <= new.gen /\ (old.status = "revoked" => new.status = "revoked")
        BY <1>3, <3>3, <4>1
      <4>4. old.status = "used" /\ new.status = "valid" => old.gen < new.gen
        BY <4>1 DEF PullsKeepEntries
      <4>5. new.status # "none"
        BY <1>3, <3>3, <4>1
      <4> HIDE DEF old, new
      <4>6. new.status \in {"valid", "used", "revoked"}
        BY <4>2, <4>5 DEF TicketStatus
      <4>7. a[2] < new.gen \/ (a[2] = new.gen /\ new.status \in {"used", "revoked"})
        BY <3>1, <4>2, <4>3, <4>4, <4>6
      <4> QED BY <4>7 DEF new
    <3> QED BY <1>4, <3>1, <3>2, <3>3
  <2>2. Entered(g)' = Entered(g) /\ \A a \in Entered(g) : a[1] \in Known(g)
    BY <1>1 DEF Entered, EnteredOK
  <2> QED BY <1>5, <2>1, <2>2 DEF EnteredOK
<1> QED BY <1>6, <1>7, <1>8, <1>9 DEF DoorOK

\* Every step keeps the invariant of the entries, where manifests do.
LEMMA EntriesStepKeepsInv ==
  ASSUME DoorsInv, EntriesInv, GateNext \/ UNCHANGED allVars,
         PullsKeepEntries \/ UNCHANGED allVars
  PROVE  EntriesInv'
<1>1. /\ DoorsInv' /\ NothingIsUndone /\ TicketsTypeOK' /\ DeviceTypeOK /\ TicketsInv
      /\ TicketsTypeOK
  BY DoorsStepKeepsInv, DoorsStand, DoorByDoor DEF DoorsInv, TicketsInv
<1>2. RecordsAreOfTickets' /\ CountsGrow
  <2>1. CASE UNCHANGED <<ticket, log>> /\ \A c \in Calls : Recording(c)' =>
                                            Recording(c) /\ call'[c].on = call[c].on
    <3>1. \A t \in Tix : ticket[t].count \in Nat
      BY <1>1 DEF TicketsTypeOK
    <3>2. CountsGrow
      BY <2>1, <3>1 DEF CountsGrow
    <3>3. RecordsAreOfTickets'
      BY <2>1 DEF EntriesInv, RecordsAreOfTickets, Exists
    <3> QED BY <3>2, <3>3
  <2>2. CASE TicketsNext
    BY <1>1, <2>2, ServerKeepsRecords DEF EntriesInv
  <2>3. CASE UNCHANGED serverVars
    BY <2>1, <2>3 DEF serverVars, Recording
  <2>4. ASSUME NEW g \in Gates, UploadPublish(g) PROVE RecordsAreOfTickets' /\ CountsGrow
    <3>1. PICK c \in Calls : \E t : Publish(c, t)
      BY <2>4, GateAssumption DEF UploadPublish
    <3>2. call'[c].at = "ready" /\ \A d \in Calls : d # c => call'[d] = call[d]
      BY <1>1, <3>1, CallArrives DEF Publish, TakesUp, TicketsTypeOK
    <3>3. \A d \in Calls : Recording(d)' => Recording(d) /\ call'[d].on = call[d].on
      BY <3>2 DEF Recording
    <3> QED BY <2>1, <2>4, <3>3 DEF UploadPublish, rows, records
  <2>5. ASSUME NEW g \in Gates, UploadFails(g) \/ PullFails(g)
        PROVE  RecordsAreOfTickets' /\ CountsGrow
    <3>1. UNCHANGED <<ticket, log, call>>
      BY <2>5 DEF UploadFails, PullFails, rows, records
    <3> QED BY <2>1, <3>1 DEF Recording
  <2>6. ASSUME NEW g \in Gates, GateStep(g)
        PROVE  UNCHANGED serverVars \/ UploadPublish(g) \/ UploadFails(g) \/ PullFails(g)
    BY <2>6
    DEF GateStep, PageGoesOn, Start, ScanRead, MarkUsed, ScanQueue, FlushRead,
        UploadRefused, UploadAccepted, PullEntries, PullRows, PullApply, PullRefused,
        GoOffline, GoOnline, ManifestExpires, Reload
  <2>7. UNCHANGED allVars => UNCHANGED serverVars
    BY DEF allVars, vars, serverVars
  <2> QED
    BY <2>2, <2>3, <2>4, <2>5, <2>6, <2>7 DEF GateNext, Disable, Enable
<1>3. ASSUME NEW h \in Gates PROVE DoorOK(h)'
  <2>1. CASE /\ db'[h] = db[h] /\ page'[h] = page[h] /\ scan'[h] = scan[h]
             /\ pull'[h] = pull[h] /\ admitted'[h] = admitted[h]
    <3>1. scan'[h].at # "idle" => page'[h].at \in {"scanning", "invalid"}
      BY <2>1 DEF EntriesInv, DoorOK, ScanOK
    <3> QED BY <1>1, <1>2, <2>1, <3>1, EntriesStay
  <2>2. CASE UNCHANGED gateVars
    BY <2>1, <2>2 DEF gateVars
  <2>3. CASE \E v \in Validators : Disable(v) \/ Enable(v)
    BY <2>1, <2>3 DEF Disable, Enable, device
  <2>4. ASSUME NEW g \in Gates, GateStep(g), h # g PROVE DoorOK(h)'
    BY <1>1, <2>1, <2>4, StepsOfOneDoor DEF OtherDoors
  <2>5. CASE GateStep(h) /\ PullsKeepEntries
    <3>1. CASE \/ Start(h) \/ ScanQueue(h) \/ FlushRead(h) \/ UploadRefused(h)
               \/ UploadPublish(h) \/ UploadAccepted(h) \/ PullRefused(h)
               \/ UploadFails(h) \/ PullFails(h) \/ GoOffline(h) \/ GoOnline(h)
               \/ ManifestExpires(h) \/ Reload(h)
      <4>1. /\ db'[h].row = db[h].row
            /\ pull'[h] = pull[h] \/ pull'[h].at = "off"
            /\ page'[h].at = "loading" => page[h].at = "loading" \/ pull[h].at = "off"
        BY <3>1, ManifestsLeftAlone
      <4> QED BY <1>1, <1>2, <3>1, <4>1, EntriesLeftAlone, EntriesStay
    <3>2. CASE MarkUsed(h) \/ \E t \in Tix : ScanRead(h, t)
      BY <3>2, MarkKeepsEntries, ScanReadKeepsEntries
    <3>3. CASE PullEntries(h) \/ PullRows(h) \/ PullApply(h)
      BY <2>5, <3>3, ManifestReadsKeepEntries, PullKeepsEntries
    <3> QED BY <2>5, <3>1, <3>2, <3>3 DEF GateStep, PageGoesOn
  <2> QED
    BY <2>2, <2>3, <2>4, <2>5 DEF GateNext, allVars
<1> QED BY <1>2, <1>3 DEF EntriesInv

-----------------------------------------------------------------------------
(* The theorems.                                                           *)

\* At every moment every call, every gate and every message knows what the
\* invariant says of it, whatever fails, is delivered again, or is loaded anew.
THEOREM GateInvariant == GateSpec => []DoorsInv
<1>1. TicketsInit /\ GateInit => DoorsInv
  BY DoorsAtStart
<1>2. DoorsInv /\ [GateNext]_allVars => DoorsInv'
  BY DoorsStepKeepsInv, DoorsStand
<1> QED BY <1>1, <1>2, PTL DEF GateSpec

\* Every variable of server and devices stays in its type.
THEOREM GateTypes == GateSpec => []GateTypeOK
<1>1. DoorsInv => GateTypeOK
  BY DEF DoorsInv
<1> QED BY <1>1, GateInvariant, PTL

\* A ticket is checked in once on record, whichever gates, uploads and deliveries
\* tell of it, and is not valid again afterwards: the update that finds it valid
\* (verify, applyCheckin) lets one check-in through to the custody chain.
THEOREM TicketsAreCheckedInOnce == GateSpec => []CheckedInOnce
<1>1. DoorsInv => CheckedInOnce
  <2>1. SUFFICES ASSUME DoorsInv, NEW t \in Tix
                 PROVE  /\ Cardinality(Recorded(t, "checked_in")) <= 1
                        /\ Recorded(t, "checked_in") # {}
                             => ticket[t].status \in {"used", "revoked"}
    BY DEF CheckedInOnce
  <2>2. /\ \A i, j \in Recorded(t, "checked_in") : i = j
        /\ Recorded(t, "checked_in") # {} => ticket[t].status \in {"used", "revoked"}
    BY <2>1 DEF DoorsInv, TicketsInv, CheckinIsExclusive
  <2>3. CASE Recorded(t, "checked_in") = {}
    <3>1. Cardinality(Recorded(t, "checked_in")) = 0
      BY <2>3, FS_EmptySet
    <3> QED BY <2>2, <3>1
  <2>4. CASE Recorded(t, "checked_in") # {}
    <3>1. PICK i : Recorded(t, "checked_in") = {i}
      BY <2>2, <2>4
    <3>2. Cardinality(Recorded(t, "checked_in")) = 1
      BY <3>1, FS_Singleton
    <3> QED BY <2>2, <3>2
  <2> QED BY <2>3, <2>4
<1> QED BY <1>1, GateInvariant, PTL

\* The custody chain tells of every change of owner, but for the claims that are
\* about to record theirs (claim, TicketCustodyService.record).
THEOREM CustodyIsComplete == GateSpec => []CustodyCountsTransfers
<1>1. DoorsInv => CustodyCountsTransfers
  BY DEF DoorsInv, TicketsInv, TransfersAreCounted, CustodyCountsTransfers, Claiming
<1> QED BY <1>1, GateInvariant, PTL

\* What a gate has shown green is queued, in a message, on record or a conflict,
\* whatever uploads fail, are made twice or are cut off by a reload.
THEOREM CheckinsAreNotLost == GateSpec => []NoCheckinIsLost
<1>1. DoorsInv => NoCheckinIsLost
  BY DEF DoorsInv
<1> QED BY <1>1, GateInvariant, PTL

\* Tickets, records and conflicts are never taken back: no step, of any call or
\* device, un-revokes a ticket, shortens the log or drops a conflict.
THEOREM NothingIsEverUndone == GateSpec => [][NothingIsUndone]_allVars
<1>1. DoorsInv /\ [GateNext]_allVars => [NothingIsUndone]_allVars
  BY DoorsStepKeepsInv
<1> QED BY <1>1, GateInvariant, PTL DEF GateSpec

\* A revocation that committed before any entry with a later number is never
\* skipped: no device whose cursor is past it holds the ticket valid, whatever
\* other entries commit out of order, rows change between the two reads of a
\* manifest, or reloads and failed downloads come between.
THEOREM RevocationsAreNotSkipped == GateSpec => []NoRevocationIsSkipped
<1>1. TicketsInit /\ GateInit => ManifestsInv
  <2>1. SUFFICES ASSUME TicketsInit, GateInit PROVE ManifestsInv
    OBVIOUS
  <2>2. /\ log = <<>> /\ DOMAIN log = {} /\ Len(log) = 0
        /\ \A g \in Gates : db[g].cursor = NoManifest /\ pull[g].at = "off"
    BY <2>1, DoorsAtStart
  <2> QED
    BY <2>2 DEF ManifestsInv, SettledUpTo, PullOK, SkipsNothing, NoManifest
<1>2. DoorsInv /\ ManifestsInv /\ [GateNext]_allVars => ManifestsInv'
  BY DoorsStepKeepsInv, DoorsStand, ManifestsStepKeepsInv
<1>3. ManifestsInv => NoRevocationIsSkipped
  BY DEF ManifestsInv, SkipsNothing, NoRevocationIsSkipped, Tells
<1> QED BY <1>1, <1>2, <1>3, GateInvariant, PTL DEF GateSpec

\* A door that does not let a manifest make valid again what it has used shows
\* green once for every secret of a ticket, whatever reloads, lost requests,
\* transfers and refunds come between: the manifests (saveManifest, applyDelta)
\* are the only way to a second entry at one door.
THEOREM EntriesAreMadeOnce ==
  GateSpec /\ [][PullsKeepEntries]_allVars => OneEntryPerDoor
<1>1. TicketsInit /\ GateInit => EntriesInv
  <2>1. SUFFICES ASSUME TicketsInit, GateInit PROVE EntriesInv
    OBVIOUS
  <2>2. log = <<>> /\ DOMAIN log = {} /\ TicketsTypeOK /\ \A c \in Calls : call[c] = NotBegun
    BY <2>1, TicketsStart0 DEF TicketsInv
  <2>3. RecordsAreOfTickets
    BY <2>2 DEF RecordsAreOfTickets, Recording, NotBegun
  <2>4. ASSUME NEW g \in Gates PROVE DoorOK(g)
    <3>1. /\ scan[g].at = "idle" /\ pull[g].at = "off" /\ admitted[g] = {}
          /\ \A t \in Tix : db[g].row[t].status = "none" /\ db[g].row[t].gen = 0
      BY <2>1 DEF GateInit, GateStart, NoScan, NoPull, Unknown
    <3>2. \A t \in Tix : ticket[t].count \in Nat
      BY <2>2 DEF TicketsTypeOK
    <3> QED
      BY <3>1, <3>2 DEF DoorOK, RowsOK, ScanOK, BringsOK, EnteredOK, Entered, Known
  <2> QED BY <2>3, <2>4 DEF EntriesInv
<1>2. DoorsInv /\ EntriesInv /\ [GateNext]_allVars /\ [PullsKeepEntries]_allVars
        => EntriesInv'
  BY EntriesStepKeepsInv
<1>3. DoorsInv /\ EntriesInv
        => [\A g \in Gates :
              ScanQueue(g) => <<scan[g].on, scan[g].row.gen>> \notin admitted[g]]_allVars
  <2>1. SUFFICES ASSUME DoorsInv, EntriesInv, NEW g \in Gates, ScanQueue(g),
                        <<scan[g].on, scan[g].row.gen>> \in admitted[g]
                 PROVE  FALSE
    OBVIOUS
  <2>2. scan[g].row.gen < scan[g].row.gen
    BY <2>1 DEF EntriesInv, DoorOK, ScanOK, ScanQueue
  <2>3. scan[g].row.gen \in Nat
    BY <2>1, DoorByDoor DEF DeviceTypeOK, ScanState, Row
  <2> QED BY <2>2, <2>3
<1> QED BY <1>1, <1>2, <1>3, GateInvariant, PTL DEF GateSpec, OneEntryPerDoor

=============================================================================
