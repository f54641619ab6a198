------------------------------- MODULE Tickets -------------------------------
(***************************************************************************)
(* The tickets of one paid order: issue, transfer, check-in, revocation,   *)
(* with the custody chain and the synchronisation log they leave behind    *)
(* (api/src/modules/tickets: tickets, ticket-transfer, ticket-custody,     *)
(* ticket-sync and validation-ingest services).                            *)
(*                                                                         *)
(* A call is a process that takes one step per await.  The row of a        *)
(* ticket, its custody record and its entry in the log are three writes of *)
(* three transactions, with other calls in between.  The check-ins that a  *)
(* validator uploads are messages of a broker; each is a call of its own   *)
(* once it is published (RabbitService: at least once, in any order).      *)
(***************************************************************************)
EXTENDS Integers, Sequences, FiniteSets

CONSTANTS
  Tix,             \* the tickets, one per item of the order
  Users,
  Buyer,           \* who paid the order
  NoUser,          \* the owner of a ticket that does not exist
  Transfers,       \* rows of ticket_transfers, by the code that names them
  TransferOf,      \* the ticket and the sender of each
  MaxTransfers,    \* maxTransfers of the event
  Calls,           \* API calls, jobs of the queue, messages of the broker
  CallOf,          \* what each call asks for
  NoTicket,        \* the item of a message that was not published
  MaxAttempts,     \* MAX_ATTEMPTS of a message
  MaxFaults        \* how often a handler or a request fails or dies, at most

Operation ==
  {"issue", "initiate", "claim", "cancel", "verify", "ingest", "revoke"}

\* `user` is who claims, `ticket` the one verified, `transfer` the one
\* initiated, claimed or cancelled; each is ignored where it means nothing.
CallType ==
  [op : Operation, user : Users, ticket : Tix, transfer : Transfers]

ASSUME TicketsAssumption ==
  /\ Buyer \in Users
  /\ NoUser \notin Users
  /\ NoTicket \notin Tix
  /\ TransferOf \in [Transfers -> [ticket : Tix, sender : Users]]
  /\ CallOf \in [Calls -> CallType]
  /\ MaxTransfers \in Nat /\ MaxFaults \in Nat /\ MaxAttempts \in Nat \ {0}

VARIABLES
  paid,       \* the order is paid, FALSE once it is refunded
  ticket,     \* the ticket rows; `count` also names the current secret
  transfer,   \* ticket_transfers.status
  lapsed,     \* transfers whose expiresAt is past
  custody,    \* the custody chain of each ticket
  log,        \* ticket_sync_entries by seq; `in`: committed, `late`: after a later one
  conflicts,  \* messages that left a checkin_conflicts row
  call,       \* progress of each call
  faults      \* failures and deaths so far

vars == <<paid, ticket, transfer, lapsed, custody, log, conflicts, call, faults>>
rows == <<paid, ticket, transfer, lapsed>>
records == <<custody, log, conflicts>>

TicketStatus == {"none", "valid", "used", "revoked"}
TransferStatus == {"none", "pending", "claimed", "cancelled", "expired"}
CustodyType == {"issued", "transferred", "checked_in", "revoked"}
Step == {"idle", "ready", "create", "read", "write", "void", "lapse", "lock",
         "move", "cas", "custody", "sync", "commit", "done", "dropped"}

\* `on` is the ticket at hand, `left` those still to do, `slot` the sequence
\* number that was drawn, `tries` the x-attempts header.
CallState ==
  [at : Step, on : Tix \cup {NoTicket}, left : SUBSET Tix, slot : Nat,
   tries : Nat]

LogEntry == [ticket : Tix, reason : CustodyType, in : BOOLEAN, late : BOOLEAN]

TicketsTypeOK ==
  /\ paid \in BOOLEAN
  /\ ticket \in [Tix -> [status : TicketStatus, owner : Users \cup {NoUser},
                         count : Nat]]
  /\ transfer \in [Transfers -> TransferStatus]
  /\ lapsed \in SUBSET Transfers
  /\ custody \in [Tix -> Seq([type : CustodyType, by : Calls])]
  /\ log \in Seq(LogEntry)
  /\ conflicts \in SUBSET Calls
  /\ call \in [Calls -> CallState]
  /\ faults \in 0 .. MaxFaults

Absent == [status |-> "none", owner |-> NoUser, count |-> 0]
Fresh == [status |-> "valid", owner |-> Buyer, count |-> 0]
NotBegun == [at |-> "idle", on |-> NoTicket, left |-> {}, slot |-> 0, tries |-> 0]

\* What a job before has left of the tickets it issued, in some order.
IssuedBefore(issued) ==
  LET job == CHOOSE c \in Calls : CallOf[c].op = "issue"
      nth == CHOOSE f \in [1 .. Cardinality(issued) -> issued] :
               \A t \in issued : \E i \in DOMAIN f : f[i] = t
  IN
  /\ ticket = [t \in Tix |-> IF t \in issued THEN Fresh ELSE Absent]
  /\ log = [i \in DOMAIN nth |->
              [ticket |-> nth[i], reason |-> "issued", in |-> TRUE, late |-> FALSE]]
  /\ custody = [t \in Tix |->
                  IF t \in issued THEN <<[type |-> "issued", by |-> job]>> ELSE <<>>]

\* The order has been paid.  The calls outside `made` are never made.
TicketsStart(made, issued, failed) ==
  /\ paid = TRUE
  /\ IssuedBefore(issued)
  /\ transfer = [x \in Transfers |-> "none"]
  /\ lapsed = {}
  /\ conflicts = {}
  /\ call = [c \in Calls |-> IF c \in made THEN NotBegun
                             ELSE [NotBegun EXCEPT !.at = "done"]]
  /\ faults = failed

TicketsInit == TicketsStart(Calls, {}, 0)

IsOp(c, op) == CallOf[c].op = op
At(c, step) == call[c].at = step
Goes(c, step) == call' = [call EXCEPT ![c].at = step]
TakesUp(c, step, t) == call' = [call EXCEPT ![c].at = step, ![c].on = t]
TransferAsked(c) == CallOf[c].transfer
TicketAsked(c) == TransferOf[TransferAsked(c)].ticket
Sender(c) == TransferOf[TransferAsked(c)].sender

\* pg_advisory_xact_lock on a ticket, which the transaction of a claim holds.
Locked(t) == \E c \in Calls : At(c, "move") /\ call[c].on = t

-----------------------------------------------------------------------------
(* What every operation leaves behind: TicketCustodyService.record, then   *)
(* TicketSyncService.record, for one ticket after the other.               *)

CustodyTypeOf(c) ==
  CASE IsOp(c, "issue") -> "issued"
    [] IsOp(c, "claim") -> "transferred"
    [] IsOp(c, "revoke") -> "revoked"
    [] OTHER -> "checked_in"

\* The call goes on with one of the tickets that are left, or ends.
Continue(c, step) ==
  \/ /\ call[c].left = {}
     /\ Goes(c, "done")
  \/ \E t \in call[c].left :
       call' = [call EXCEPT ![c].at = step, ![c].on = t, ![c].left = @ \ {t}]

\* One transaction under the advisory lock of the ticket, so one step.
RecordCustody(c) ==
  LET t == call[c].on IN
  /\ At(c, "custody") /\ ~Locked(t)
  /\ custody' = [custody EXCEPT ![t] =
                   Append(@, [type |-> CustodyTypeOf(c), by |-> c])]
  /\ Goes(c, "sync")
  /\ UNCHANGED <<rows, log, conflicts, faults>>

Entry(c) ==
  [ticket |-> call[c].on, reason |-> CustodyTypeOf(c), in |-> FALSE, late |-> FALSE]
NextTicket(c) == Continue(c, IF IsOp(c, "issue") THEN "create" ELSE "custody")

\* Mistake: revocations are kept out of the log.
RecordSyncUnlessRevoked(c) ==
  /\ At(c, "sync")
  /\ IF IsOp(c, "revoke") THEN NextTicket(c) /\ UNCHANGED log
     ELSE /\ log' = Append(log, Entry(c))
          /\ call' = [call EXCEPT ![c].at = "commit", ![c].slot = Len(log')]
  /\ UNCHANGED <<rows, custody, conflicts, faults>>

\* The sequence number is drawn when the insert runs ...
RecordSync(c) ==
  /\ At(c, "sync")
  /\ log' = Append(log, Entry(c))
  /\ call' = [call EXCEPT ![c].at = "commit", ![c].slot = Len(log')]
  /\ UNCHANGED <<rows, custody, conflicts, faults>>

\* ... and the entry is seen once it has committed, which another insert with
\* a later number may have done before.  (`late` only remembers that.)
CommitSync(c) ==
  LET slot == call[c].slot IN
  /\ At(c, "commit")
  /\ log' = [log EXCEPT ![slot].in = TRUE,
                        ![slot].late = @ \/ \E i \in DOMAIN log : i > slot /\ log[i].in]
  /\ NextTicket(c)
  /\ UNCHANGED <<rows, custody, conflicts, faults>>

-----------------------------------------------------------------------------
(* TicketsService.issue, a job of the queue.                               *)

Exists(t) == ticket[t].status # "none"

\* The order must be paid; the tickets it lacks are those to create.
IssueRead(c) ==
  LET missing == {t \in Tix : ~Exists(t)} IN
  /\ IsOp(c, "issue") /\ (At(c, "idle") \/ At(c, "ready"))
  /\ \/ /\ paid
        /\ \E t \in missing :
             call' = [call EXCEPT ![c].at = "create", ![c].on = t,
                                  ![c].left = missing \ {t}]
     \/ /\ ~paid \/ missing = {}
        /\ Goes(c, "done")
  /\ UNCHANGED <<rows, records, faults>>

\* order_item_id is unique: a ticket that another worker has created by now is
\* skipped, and with it its custody record and its entry in the log.
IssueCreate(c) ==
  LET t == call[c].on IN
  /\ At(c, "create")
  /\ \/ /\ ~Exists(t)
        /\ ticket' = [ticket EXCEPT ![t] = Fresh]
        /\ Goes(c, "custody")
     \/ /\ Exists(t)
        /\ Continue(c, "create")
        /\ UNCHANGED ticket
  /\ UNCHANGED <<paid, transfer, lapsed, records, faults>>

-----------------------------------------------------------------------------
(* TicketTransferService.                                                  *)

\* The ticket must be the sender's, valid and below the limit.
InitiateRead(c) ==
  LET t == TicketAsked(c) IN
  /\ IsOp(c, "initiate") /\ At(c, "idle")
  /\ ticket[t].owner = Sender(c)
  /\ ticket[t].status = "valid"
  /\ ticket[t].count < MaxTransfers
  /\ TakesUp(c, "write", t)
  /\ UNCHANGED <<rows, records, faults>>

\* A partial unique index keeps a second pending transfer of the ticket out.
InitiateCreate(c) ==
  LET x == TransferAsked(c)
      taken == \E y \in Transfers :
                 TransferOf[y].ticket = call[c].on /\ transfer[y] = "pending"
  IN
  /\ IsOp(c, "initiate") /\ At(c, "write")
  /\ transfer' = IF taken THEN transfer ELSE [transfer EXCEPT ![x] = "pending"]
  /\ Goes(c, "done")
  /\ UNCHANGED <<paid, ticket, lapsed, records, faults>>

TransferLapses(x) ==
  /\ transfer[x] = "pending" /\ x \notin lapsed
  /\ lapsed' = lapsed \cup {x}
  /\ UNCHANGED <<paid, ticket, transfer, records, call, faults>>

\* The code names a pending transfer of somebody else; one that is too old is
\* marked so, in a write of its own.
ClaimFind(c) ==
  LET x == TransferAsked(c) IN
  /\ IsOp(c, "claim") /\ At(c, "idle")
  /\ transfer[x] = "pending"
  /\ x \in lapsed \/ Sender(c) # CallOf[c].user
  /\ TakesUp(c, IF x \in lapsed THEN "lapse" ELSE "read", TicketAsked(c))
  /\ UNCHANGED <<rows, records, faults>>

\* The ticket as it is now: gone to somebody else, used up, or free to move.
ClaimRead(c) ==
  LET row == ticket[call[c].on] IN
  /\ IsOp(c, "claim") /\ At(c, "read")
  /\ Goes(c, IF row.owner # Sender(c) \/ row.status # "valid" THEN "void"
             ELSE IF row.count >= MaxTransfers THEN "done" ELSE "lock")
  /\ UNCHANGED <<rows, records, faults>>

\* The update that ends the transfer, whatever its status is by now.
ClaimVoid(c) ==
  /\ At(c, "void") \/ At(c, "lapse")
  /\ transfer' = [transfer EXCEPT ![TransferAsked(c)] =
                    IF At(c, "void") THEN "cancelled" ELSE "expired"]
  /\ Goes(c, "done")
  /\ UNCHANGED <<paid, ticket, lapsed, records, faults>>

\* Mistake: the refusal inside the transaction does not reach the caller.
ClaimFreshSwallowed(c) ==
  LET row == ticket[call[c].on] IN
  /\ At(c, "lock") /\ ~Locked(call[c].on)
  /\ Goes(c, IF row.owner = Sender(c) /\ row.status = "valid"
             THEN "move" ELSE "custody")
  /\ UNCHANGED <<rows, records, faults>>

\* The transaction takes the lock and reads the ticket once more; the transfer
\* itself is not read again.
ClaimFresh(c) ==
  LET row == ticket[call[c].on] IN
  /\ At(c, "lock") /\ ~Locked(call[c].on)
  /\ Goes(c, IF row.owner = Sender(c) /\ row.status = "valid"
             THEN "move" ELSE "done")
  /\ UNCHANGED <<rows, records, faults>>

\* Its two updates: a new owner with a new secret, and the end of the transfer.
\* The status of the ticket is left as it is, used by now or not.
ClaimMove(c) ==
  LET t == call[c].on IN
  /\ At(c, "move")
  /\ ticket' = [ticket EXCEPT ![t].owner = CallOf[c].user, ![t].count = @ + 1]
  /\ transfer' = [transfer EXCEPT ![TransferAsked(c)] = "claimed"]
  /\ Goes(c, "custody")
  /\ UNCHANGED <<paid, lapsed, records, faults>>

CancelRead(c) ==
  /\ IsOp(c, "cancel") /\ At(c, "idle")
  /\ transfer[TransferAsked(c)] = "pending"
  /\ TakesUp(c, "write", TicketAsked(c))
  /\ UNCHANGED <<rows, records, faults>>

CancelWrite(c) ==
  /\ IsOp(c, "cancel") /\ At(c, "write")
  /\ transfer' = [transfer EXCEPT ![TransferAsked(c)] = "cancelled"]
  /\ Goes(c, "done")
  /\ UNCHANGED <<paid, ticket, lapsed, records, faults>>

-----------------------------------------------------------------------------
(* Check-in: TicketsService.verify at a gate that is online, and           *)
(* ValidationIngestService.applyCheckin for those that were not.           *)

Conflict(c) ==
  conflicts' = IF IsOp(c, "ingest") THEN conflicts \cup {c} ELSE conflicts

\* The code shown is that of the current secret; any other changes nothing.
VerifyRead(c) ==
  LET t == CallOf[c].ticket IN
  /\ IsOp(c, "verify") /\ At(c, "idle")
  /\ ticket[t].status = "valid"
  /\ TakesUp(c, "cas", t)
  /\ UNCHANGED <<rows, records, faults>>

\* The ticket of a message is taken as it is when the message is handled, and
\* its code is not looked at: the validator did so.
IngestRead(c) ==
  LET open == ticket[call[c].on].status = "valid" IN
  /\ IsOp(c, "ingest") /\ At(c, "ready")
  /\ Goes(c, IF open THEN "cas" ELSE "done")
  /\ IF open THEN UNCHANGED conflicts ELSE Conflict(c)
  /\ UNCHANGED <<rows, custody, log, faults>>

\* Mistake: the update names the ticket only.
CheckInUnchecked(c) ==
  LET t == call[c].on IN
  /\ At(c, "cas")
  /\ ticket' = [ticket EXCEPT ![t].status = "used"]
  /\ Goes(c, "custody")
  /\ UNCHANGED <<paid, transfer, lapsed, records, faults>>

\* updateMany where the status is valid: one of several check-ins finds it so.
CheckIn(c) ==
  LET t == call[c].on IN
  /\ At(c, "cas")
  /\ \/ /\ ticket[t].status = "valid"
        /\ ticket' = [ticket EXCEPT ![t].status = "used"]
        /\ Goes(c, "custody")
        /\ UNCHANGED conflicts
     \/ /\ ticket[t].status # "valid"
        /\ Conflict(c)
        /\ Goes(c, "done")
        /\ UNCHANGED ticket
  /\ UNCHANGED <<paid, transfer, lapsed, custody, log, faults>>

-----------------------------------------------------------------------------
(* TicketsService.revokeByOrder, called by the reversals of the payments   *)
(* once they have claimed the order.                                       *)

RevokeBegin(c) ==
  /\ IsOp(c, "revoke") /\ At(c, "idle") /\ paid
  /\ paid' = FALSE
  /\ Goes(c, "read")
  /\ UNCHANGED <<ticket, transfer, lapsed, records, faults>>

RevokeRead(c) ==
  LET affected == {t \in Tix : ticket[t].status \in {"valid", "used"}} IN
  /\ IsOp(c, "revoke") /\ At(c, "read")
  /\ call' = [call EXCEPT ![c].at = IF affected = {} THEN "done" ELSE "write",
                          ![c].left = affected]
  /\ UNCHANGED <<rows, records, faults>>

\* By id, whatever the status is by now.
RevokeWrite(c) ==
  /\ IsOp(c, "revoke") /\ At(c, "write")
  /\ ticket' = [t \in Tix |->
                  IF t \in call[c].left THEN [ticket[t] EXCEPT !.status = "revoked"]
                  ELSE ticket[t]]
  /\ Continue(c, "custody")
  /\ UNCHANGED <<paid, transfer, lapsed, records, faults>>

-----------------------------------------------------------------------------
(* RabbitService: messages that are handled again, or given up.            *)

FromBroker(c) == IsOp(c, "issue") \/ IsOp(c, "ingest")
Handled(c) == At(c, "done") \/ At(c, "dropped")
\* (An insert that runs is one statement: it commits, whoever waits for it.)
UnderWay(c) ==
  ~At(c, "idle") /\ ~At(c, "ready") /\ ~At(c, "commit") /\ ~Handled(c)

\* The calls that have something left to do.
Made == {c \in Calls : ~At(c, "idle") /\ ~Handled(c)}

\* The message goes back to its queue.  What the handler has written stays.
Redeliver(c, tries) ==
  call' = [call EXCEPT ![c] =
             [NotBegun EXCEPT !.at = "ready", !.tries = tries,
                !.on = IF IsOp(c, "ingest") THEN call[c].on ELSE NoTicket]]

\* The handler throws: a copy with one more attempt, up to MAX_ATTEMPTS.
HandlerFails(c) ==
  /\ FromBroker(c) /\ UnderWay(c) /\ faults < MaxFaults
  /\ faults' = faults + 1
  /\ IF call[c].tries + 1 < MaxAttempts THEN Redeliver(c, call[c].tries + 1)
     ELSE Goes(c, "dropped")
  /\ UNCHANGED <<rows, records>>

\* The worker dies before its ack: the broker delivers the message as it was.
HandlerDies(c) ==
  /\ FromBroker(c) /\ UnderWay(c) /\ faults < MaxFaults
  /\ faults' = faults + 1
  /\ Redeliver(c, call[c].tries)
  /\ UNCHANGED <<rows, records>>

\* A message reaches its queue: the upload of a check-in of t.
Publish(c, t) ==
  /\ IsOp(c, "ingest") /\ At(c, "idle")
  /\ TakesUp(c, "ready", t)

-----------------------------------------------------------------------------

\* What a call does by itself once it was made.
CallGoesOn(c) ==
  \/ IssueCreate(c) \/ InitiateCreate(c)
  \/ ClaimRead(c) \/ ClaimVoid(c) \/ ClaimFresh(c) \/ ClaimMove(c)
  \/ CancelWrite(c) \/ IngestRead(c) \/ CheckIn(c)
  \/ RevokeRead(c) \/ RevokeWrite(c)
  \/ RecordCustody(c) \/ RecordSync(c) \/ CommitSync(c)

CallStep(c) ==
  \/ IssueRead(c) \/ InitiateRead(c) \/ ClaimFind(c) \/ CancelRead(c)
  \/ VerifyRead(c) \/ RevokeBegin(c)
  \/ CallGoesOn(c)
  \/ HandlerFails(c) \/ HandlerDies(c)

TicketsNext ==
  \/ \E c \in Calls : CallStep(c)
  \/ \E x \in Transfers : TransferLapses(x)

-----------------------------------------------------------------------------
(* Properties.                                                             *)

Recorded(t, type) == {i \in DOMAIN custody[t] : custody[t][i].type = type}

\* A ticket is checked in once on record, whichever gates, uploads and
\* deliveries tell of it, and it does not become valid again afterwards.
CheckedInOnce ==
  \A t \in Tix :
    /\ Cardinality(Recorded(t, "checked_in")) <= 1
    /\ Recorded(t, "checked_in") # {} => ticket[t].status \in {"used", "revoked"}

\* The custody chain tells of every change of owner: as many transfers as the
\* ticket has seen, but for the claims that are about to be recorded.
CustodyCountsTransfers ==
  \A t \in Tix :
    ticket[t].count = Cardinality(Recorded(t, "transferred"))
      + Cardinality({c \in Calls : IsOp(c, "claim") /\ At(c, "custody")
                                   /\ call[c].on = t})
=============================================================================
