--------------------------------- MODULE Gate ---------------------------------
(***************************************************************************)
(* The doors of the event: each gate is one page on one device (frontend   *)
(* features/gate/gate-validate.page.ts), which validates tickets against a *)
(* manifest in IndexedDB (core/gate/gate-db.ts), queues the check-ins,     *)
(* uploads them when it can and pulls the changes the server has logged.   *)
(* The database of the device survives a reload; the page does not.        *)
(*                                                                         *)
(* Who may talk to the server is decided by the validators module of the   *)
(* API: one session per validator, the last one opened wins.               *)
(***************************************************************************)
EXTENDS Tickets

CONSTANTS
  Gates,
  Validators,
  ValidatorOf,   \* whose link a gate opens
  UploadsOf,     \* the messages a gate may publish
  FlushChunk,    \* FLUSH_CHUNK
  NoGate,        \* the session of a validator nobody has opened yet
  Disabled,      \* the session of a validator whose access was taken away
  Budget         \* bound: how often each change from outside may come

ASSUME GateAssumption ==
  /\ ValidatorOf \in [Gates -> Validators]
  /\ UploadsOf \in [Gates -> SUBSET Calls]
  /\ \A g \in Gates : \A c \in UploadsOf[g] : CallOf[c].op = "ingest"
  /\ \A g, h \in Gates : g # h => UploadsOf[g] \cap UploadsOf[h] = {}
  /\ {NoGate, Disabled} \cap Gates = {} /\ NoGate # Disabled
  /\ FlushChunk \in Nat \ {0}
  /\ Budget \in [{"network", "reload", "clock", "access"} -> Nat]

VARIABLES
  session,   \* activeSessionId: the gate whose claim was the last
  db,        \* IndexedDB: rows by serial, cursor (maxSeq), queue of check-ins
  page,      \* phase and network of the page, and whether its manifest is old
  scan,      \* validate(): the check-in being made
  up,        \* flush(): the batch being uploaded, how much of it is published
  pull,      \* a manifest on its way: entries read, then rows read
  admitted,  \* history: what has shown green at each gate
  budget     \* the changes from outside that are left

device == <<db, page, scan, up, pull, admitted>>
gateVars == <<session, db, page, scan, up, pull, admitted, budget>>
serverVars == <<paid, ticket, transfer, lapsed, custody, log, conflicts, call, faults>>
allVars == <<vars, gateVars>>

NoManifest == -1
Unknown == [status |-> "none", gen |-> 0]
Row == [status : TicketStatus, gen : Nat]

GateTypeOK ==
  /\ TicketsTypeOK
  /\ session \in [Validators -> Gates \cup {NoGate, Disabled}]
  /\ db \in [Gates -> [row : [Tix -> Row], cursor : Nat \cup {NoManifest},
                       queue : Seq(Tix)]]
  /\ page \in [Gates -> [at : {"closed", "starting", "loading", "scanning", "invalid"},
                         online : BOOLEAN, expired : BOOLEAN]]
  /\ scan \in [Gates -> [at : {"idle", "mark", "queue"},
                         on : Tix \cup {NoTicket}, row : Row]]
  /\ up \in [Gates -> [at : {"off", "read", "send", "failed"}, batch : Seq(Tix),
                       sent : Nat]]
  /\ pull \in [Gates -> [at : {"off", "rows", "reply"}, max : Nat,
                         row : [Tix -> Row], of : SUBSET Tix]]
  /\ admitted \in [Gates -> SUBSET (Tix \X Nat)]
  /\ budget \in [DOMAIN Budget -> Nat]

NoScan == [at |-> "idle", on |-> NoTicket, row |-> Unknown]
NoUpload == [at |-> "off", batch |-> <<>>, sent |-> 0]
NoPull == [at |-> "off", max |-> 0, row |-> [t \in Tix |-> Unknown], of |-> {}]

\* Nobody has claimed a link yet; the gates outside `linked` have a dead one.
GateStart(linked, changes) ==
  /\ session = [v \in Validators |-> NoGate]
  /\ db = [g \in Gates |-> [row |-> [t \in Tix |-> Unknown],
                            cursor |-> NoManifest, queue |-> <<>>]]
  /\ page = [g \in Gates |-> [at |-> IF g \in linked THEN "closed" ELSE "invalid",
                              online |-> TRUE, expired |-> FALSE]]
  /\ scan = [g \in Gates |-> NoScan]
  /\ up = [g \in Gates |-> NoUpload]
  /\ pull = [g \in Gates |-> NoPull]
  /\ admitted = [g \in Gates |-> {}]
  /\ budget = changes

GateInit == GateStart(Gates, Budget)

Happens(kind) == budget[kind] > 0 /\ budget' = [budget EXCEPT ![kind] = @ - 1]
Open(g) == page[g].at \in {"starting", "loading", "scanning"}
Enters(g, phase) == page' = [page EXCEPT ![g].at = phase]

\* assertActiveSession: the claim of this gate is the validator's last one.
HasSession(g) == session[ValidatorOf[g]] = g

\* markRevoked: no more scans and no more pulls.
StopsScanning(g) == Enters(g, "invalid")

-----------------------------------------------------------------------------
(* Access: ValidatorsService.claim, disable and enable.                    *)

\* The link is opened and claimed.  flush() runs first, then the manifest is
\* downloaded.
Start(g) ==
  /\ page[g].at = "closed" /\ page[g].online
  /\ session[ValidatorOf[g]] # Disabled
  /\ session' = [session EXCEPT ![ValidatorOf[g]] = g]
  /\ Enters(g, "starting")
  /\ up' = [up EXCEPT ![g].at = "read"]
  /\ UNCHANGED <<serverVars, db, scan, pull, admitted, budget>>

Disable(v) ==
  /\ Happens("access")
  /\ session[v] # Disabled
  /\ session' = [session EXCEPT ![v] = Disabled]
  /\ UNCHANGED <<serverVars, device>>

\* Of one that is disabled, or to send the link again; a token that was issued
\* before stops working either way.
Enable(v) ==
  /\ Happens("access")
  /\ session[v] # NoGate
  /\ session' = [session EXCEPT ![v] = NoGate]
  /\ UNCHANGED <<serverVars, device>>

-----------------------------------------------------------------------------
(* validate(): the ticket of a code, mark it used here, queue, show green. *)

\* The code is one of the secret the device has: whoever holds it shows it.
ScanRead(g, t) ==
  LET row == db[g].row[t] IN
  /\ page[g].at = "scanning" /\ ~page[g].expired
  /\ scan[g].at = "idle"
  /\ row.status = "valid"
  /\ scan' = [scan EXCEPT ![g] = [at |-> "mark", on |-> t, row |-> row]]
  /\ UNCHANGED <<serverVars, session, db, page, up, pull, admitted, budget>>

\* setStatus writes the row it read as used, over whatever a pull has written
\* since.  (It reads the row once more; that read is the one of ScanRead here.)
MarkUsed(g) ==
  /\ scan[g].at = "mark"
  /\ db' = [db EXCEPT ![g].row[scan[g].on] = [scan[g].row EXCEPT !.status = "used"]]
  /\ scan' = [scan EXCEPT ![g].at = "queue"]
  /\ UNCHANGED <<serverVars, session, page, up, pull, admitted, budget>>

\* Whatever its phase, as long as it has a token and no upload is running.
CanFlush(g) == up[g].at \in {"off", "failed"} /\ page[g].at # "closed"

\* The check-in is queued, the page shows green and flush() is called.
ScanQueue(g) ==
  /\ scan[g].at = "queue"
  /\ db' = [db EXCEPT ![g].queue = Append(@, scan[g].on)]
  /\ admitted' = [admitted EXCEPT ![g] = @ \cup {<<scan[g].on, scan[g].row.gen>>}]
  /\ scan' = [scan EXCEPT ![g] = NoScan]
  /\ up' = IF CanFlush(g) /\ page[g].online THEN [up EXCEPT ![g].at = "read"] ELSE up
  /\ UNCHANGED <<serverVars, session, page, pull, budget>>

-----------------------------------------------------------------------------
(* flush() and uploadBatch(): one upload at a time, a chunk at a time.     *)

Shorter(m, n) == IF m < n THEN m ELSE n

\* start() awaits its flush, then downloads the manifest.
FlushEnds(g) ==
  IF page[g].at = "starting" THEN Enters(g, "loading") ELSE UNCHANGED page

\* The oldest check-ins of the queue, or the end of the loop.
FlushRead(g) ==
  LET n == Shorter(Len(db[g].queue), FlushChunk) IN
  /\ up[g].at = "read"
  /\ \/ /\ n # 0 /\ page[g].online
        /\ up' = [up EXCEPT ![g] = [at |-> "send", sent |-> 0,
                                   batch |-> SubSeq(db[g].queue, 1, n)]]
        /\ UNCHANGED page
     \/ /\ n = 0 \/ ~page[g].online
        /\ up' = [up EXCEPT ![g] = NoUpload]
        /\ FlushEnds(g)
  /\ UNCHANGED <<serverVars, session, db, scan, pull, admitted, budget>>

UploadRefused(g) ==
  /\ up[g].at = "send" /\ up[g].sent = 0 /\ page[g].online
  /\ ~HasSession(g)
  /\ up' = [up EXCEPT ![g] = [NoUpload EXCEPT !.at = "failed"]]
  /\ StopsScanning(g)
  /\ UNCHANGED <<serverVars, session, db, scan, pull, admitted, budget>>

\* submit(): each check-in of the batch becomes a message.
UploadPublish(g) ==
  /\ up[g].at = "send" /\ up[g].sent < Len(up[g].batch)
  /\ up[g].sent = 0 => page[g].online /\ HasSession(g)
  /\ \E c \in UploadsOf[g] : Publish(c, up[g].batch[up[g].sent + 1])
  /\ up' = [up EXCEPT ![g].sent = @ + 1]
  /\ UNCHANGED <<rows, records, faults, session, db, page, scan, pull, admitted,
                 budget>>

\* Mistake: the queue is cleared once a batch was accepted.
UploadAcceptedClears(g) ==
  /\ up[g].at = "send" /\ up[g].sent = Len(up[g].batch)
  /\ page[g].online
  /\ db' = [db EXCEPT ![g].queue = <<>>]
  /\ up' = [up EXCEPT ![g] = [NoUpload EXCEPT !.at = "read"]]
  /\ UNCHANGED <<serverVars, session, page, scan, pull, admitted, budget>>

\* deleteQueued by id: what was queued meanwhile stays, and the loop goes on.
UploadAccepted(g) ==
  /\ up[g].at = "send" /\ up[g].sent = Len(up[g].batch)
  /\ page[g].online
  /\ db' = [db EXCEPT ![g].queue = SubSeq(@, Len(up[g].batch) + 1, Len(@))]
  /\ up' = [up EXCEPT ![g] = [NoUpload EXCEPT !.at = "read"]]
  /\ UNCHANGED <<serverVars, session, page, scan, pull, admitted, budget>>

\* The request fails, before, between or after the messages it publishes.
UploadFails(g) ==
  /\ up[g].at = "send"
  /\ \/ ~page[g].online /\ UNCHANGED faults
     \/ faults < MaxFaults /\ faults' = faults + 1
  /\ up' = [up EXCEPT ![g] = [NoUpload EXCEPT !.at = "failed"]]
  /\ FlushEnds(g)
  /\ UNCHANGED <<rows, records, call, session, db, scan, pull, admitted, budget>>

-----------------------------------------------------------------------------
(* The manifest: TicketSyncService.manifest reads the entries of the log   *)
(* and then the rows of their tickets; the page saves or merges them.      *)

Since(g) == IF page[g].at = "loading" THEN 0 ELSE db[g].cursor
News(g) == {i \in DOMAIN log : i > Since(g) /\ log[i].in}
\* Mistake: a reply without news names no number.
LastOfNews(S, else) ==
  IF S = {} THEN NoManifest ELSE CHOOSE i \in S : \A j \in S : j <= i
LastOf(S, else) == IF S = {} THEN else ELSE CHOOSE i \in S : \A j \in S : j <= i
RowNow(t) == [status |-> ticket[t].status, gen |-> ticket[t].count]

\* One pull at a time; the first follows the download, the others a timer or
\* the return of the network.
PullEntries(g) ==
  /\ page[g].at \in {"loading", "scanning"} /\ page[g].online
  /\ pull[g].at = "off" /\ HasSession(g)
  /\ pull' = [pull EXCEPT ![g] =
                [at |-> "rows", max |-> LastOf(News(g), Since(g)),
                 row |-> [t \in Tix |-> Unknown], of |-> {log[i].ticket : i \in News(g)}]]
  /\ UNCHANGED <<serverVars, session, db, page, scan, up, admitted, budget>>

\* Mistake: the number is asked for with the rows, after the entries were read.
PullRowsAndNumber(g) ==
  /\ pull[g].at = "rows"
  /\ pull' = [pull EXCEPT ![g].at = "reply",
                          ![g].max = LastOf(News(g), Since(g)),
                          ![g].row = [t \in Tix |-> IF t \in pull[g].of THEN RowNow(t)
                                                    ELSE Unknown]]
  /\ UNCHANGED <<serverVars, session, db, page, scan, up, admitted, budget>>

PullRows(g) ==
  /\ pull[g].at = "rows"
  /\ pull' = [pull EXCEPT ![g].at = "reply",
                          ![g].row = [t \in Tix |-> IF t \in pull[g].of THEN RowNow(t)
                                                    ELSE Unknown]]
  /\ UNCHANGED <<serverVars, session, db, page, scan, up, admitted, budget>>

\* saveManifest clears what was there; applyDelta keeps the tickets it does
\* not bring, and leaves the others as the server had them.  Access that was
\* revoked meanwhile stays so.
PullApply(g) ==
  LET kept == IF page[g].at = "loading" THEN [t \in Tix |-> Unknown] ELSE db[g].row IN
  /\ pull[g].at = "reply" /\ page[g].online
  /\ db' = [db EXCEPT
              ![g].row = [t \in Tix |-> IF t \in pull[g].of THEN pull[g].row[t]
                                        ELSE kept[t]],
              ![g].cursor = pull[g].max]
  /\ page' = [page EXCEPT ![g].at = IF @ = "loading" THEN "scanning" ELSE @,
                          ![g].expired = FALSE]
  /\ pull' = [pull EXCEPT ![g] = NoPull]
  /\ UNCHANGED <<serverVars, session, scan, up, admitted, budget>>

\* Without a download the page goes on with the manifest it has, if any; it is
\* as old as it is.
GoesOnOffline(g) ==
  IF db[g].cursor = NoManifest THEN Enters(g, "invalid")
  ELSE \E old \in BOOLEAN :
         page' = [page EXCEPT ![g].at = "scanning", ![g].expired = old]

\* The session is somebody else's.  The download does not tell this from a
\* network that is down; a later pull does.
PullRefused(g) ==
  /\ page[g].at \in {"loading", "scanning"} /\ page[g].online
  /\ pull[g].at = "off" /\ ~HasSession(g)
  /\ IF page[g].at = "loading" THEN GoesOnOffline(g) ELSE StopsScanning(g)
  /\ UNCHANGED <<serverVars, session, db, scan, up, pull, admitted, budget>>

PullFails(g) ==
  /\ \/ /\ pull[g].at # "off" \/ page[g].at = "loading"
        /\ ~page[g].online /\ UNCHANGED faults
     \/ /\ pull[g].at # "off"
        /\ faults < MaxFaults /\ faults' = faults + 1
  /\ pull' = [pull EXCEPT ![g] = NoPull]
  /\ IF page[g].at = "loading" THEN GoesOnOffline(g) ELSE UNCHANGED page
  /\ UNCHANGED <<rows, records, call, session, db, scan, up, admitted, budget>>

-----------------------------------------------------------------------------
(* The device: its network, its clock and its browser.                     *)

GoOffline(g) ==
  /\ Happens("network")
  /\ page[g].online
  /\ page' = [page EXCEPT ![g].online = FALSE]
  /\ UNCHANGED <<serverVars, session, db, scan, up, pull, admitted>>

\* Mistake: the return of the network does not start an upload.
GoOnlineSilently(g) ==
  /\ ~page[g].online
  /\ page' = [page EXCEPT ![g].online = TRUE]
  /\ UNCHANGED <<serverVars, session, db, scan, up, pull, admitted, budget>>

GoOnline(g) ==
  /\ ~page[g].online
  /\ page' = [page EXCEPT ![g].online = TRUE]
  /\ up' = IF CanFlush(g) THEN [up EXCEPT ![g].at = "read"] ELSE up
  /\ UNCHANGED <<serverVars, session, db, scan, pull, admitted, budget>>

ManifestExpires(g) ==
  /\ Happens("clock")
  /\ page[g].at = "scanning" /\ ~page[g].expired
  /\ page' = [page EXCEPT ![g].expired = TRUE]
  /\ UNCHANGED <<serverVars, session, db, scan, up, pull, admitted>>

\* The page is loaded anew.  A request that is publishing runs to its end first.
Reload(g) ==
  /\ Happens("reload")
  /\ page[g].at # "closed"
  /\ up[g].at = "send" => up[g].sent \in {0, Len(up[g].batch)}
  /\ page' = [page EXCEPT ![g].at = "closed", ![g].expired = FALSE]
  /\ scan' = [scan EXCEPT ![g] = NoScan]
  /\ up' = [up EXCEPT ![g] = NoUpload]
  /\ pull' = [pull EXCEPT ![g] = NoPull]
  /\ UNCHANGED <<serverVars, session, db, admitted>>

-----------------------------------------------------------------------------

\* What a page does by itself.
PageGoesOn(g) ==
  \/ MarkUsed(g) \/ ScanQueue(g)
  \/ FlushRead(g) \/ UploadRefused(g) \/ UploadPublish(g) \/ UploadAccepted(g)
  \/ PullEntries(g) \/ PullRows(g) \/ PullApply(g) \/ PullRefused(g)

GateStep(g) ==
  \/ Start(g) \/ PageGoesOn(g)
  \/ \E t \in Tix : ScanRead(g, t)
  \/ UploadFails(g) \/ PullFails(g)
  \/ GoOffline(g) \/ GoOnline(g) \/ ManifestExpires(g) \/ Reload(g)

GateNext ==
  \/ TicketsNext /\ UNCHANGED gateVars
  \/ \E g \in Gates : GateStep(g)
  \/ \E v \in Validators : Disable(v) \/ Enable(v)

\* A call that was made runs to its end (calls are finitely many steps, so their
\* union is as fair as each), and so does a page: its loops go on, its timer
\* fires and the network, where it is up, answers.
GateFairness ==
  /\ WF_allVars(\E c \in Made : CallGoesOn(c) /\ UNCHANGED gateVars)
  /\ \A g \in Gates :
       /\ WF_allVars(FlushRead(g) \/ UploadRefused(g) \/ UploadPublish(g)
                     \/ UploadAccepted(g))
       /\ WF_allVars(PullEntries(g) \/ PullRows(g) \/ PullApply(g) \/ PullRefused(g))

GateSpec == TicketsInit /\ GateInit /\ [][GateNext]_allVars /\ GateFairness

-----------------------------------------------------------------------------
(* Properties.                                                             *)

\* What a gate has shown green is never lost on the way: it waits in the queue
\* of the device, or in a message, or it is on record at the server (as the
\* check-in, or as a conflict for the organizer), or the broker gave it up.
NoCheckinIsLost ==
  \A g \in Gates : \A a \in admitted[g] :
    \/ a[1] \in {db[g].queue[i] : i \in DOMAIN db[g].queue}
    \/ \E c \in UploadsOf[g] :
         /\ call[c].on = a[1]
         /\ At(c, "done") => c \in conflicts \/ Recorded(a[1], "checked_in") # {}

\* A revocation that lies behind the cursor of a device, and committed before any
\* entry with a later number, has reached it: the ticket is not valid there,
\* whatever pulls, check-ins and reloads came after (TicketSyncService.manifest).
NoRevocationIsSkipped ==
  \A g \in Gates : \A i \in DOMAIN log :
    (log[i].reason = "revoked" /\ log[i].in /\ ~log[i].late /\ i <= db[g].cursor)
      => db[g].row[log[i].ticket].status # "valid"

\* A revocation that committed after an entry with a later number, which the
\* device had seen or has seen since.
Overtaken(g, t) ==
  \E i \in DOMAIN log :
    /\ log[i].ticket = t /\ log[i].reason = "revoked"
    /\ log[i].late /\ i <= db[g].cursor

\* A ticket that was refunded (for good: revoked is final) stops being valid at
\* every gate that scans with the network up, however far the gate lags behind,
\* unless its entry in the log was overtaken by a later one.
RevocationsReachTheGates ==
  \A g \in Gates : \A t \in Tix :
    []<>(\/ ticket[t].status # "revoked" \/ db[g].row[t].status # "valid"
         \/ page[g].at # "scanning" \/ ~page[g].online \/ Overtaken(g, t))

NoMessageLeft(g) == \A c \in UploadsOf[g] : ~At(c, "idle")

\* Check-ins do not stay queued while the page is open and the network is up;
\* after an upload that failed they wait for the next check-in or the next
\* return of the network.  (NoMessageLeft is the bound on messages.)
CheckinsReachTheServer ==
  \A g \in Gates :
    []<>(\/ db[g].queue = <<>> \/ up[g].at = "failed"
         \/ ~page[g].online \/ ~Open(g) \/ NoMessageLeft(g))

\* A gate shows green once for a ticket with the secret it had.
OneEntryPerDoor ==
  [][\A g \in Gates :
       ScanQueue(g) => <<scan[g].on, scan[g].row.gen>> \notin admitted[g]]_allVars
=============================================================================
