-------------------------------- MODULE MCGate --------------------------------
(* Small instances of Gate: two tickets, two gates.                          *)
EXTENDS Gate, TLC

CONSTANTS
  t1, t2, ann, bob, carl, x1, x2, g1, g2, v1,
  issue, reissue, initiate, initiate2, claim, claim2, cancel, verify, revoke,
  upload1, upload2, upload3,
  Scenarios

Ask(op, user) == [op |-> op, user |-> user, ticket |-> t1, transfer |-> x1]
AskSecond(op, user) == [Ask(op, user) EXCEPT !.transfer = x2]

MCTix == {t1, t2}
MCUsers == {ann, bob, carl}
MCTransfers == {x1, x2}
MCTransferOf == [x \in MCTransfers |-> [ticket |-> t1, sender |-> ann]]
MCCallOf ==
  issue :> Ask("issue", ann) @@ reissue :> Ask("issue", ann)
  @@ initiate :> Ask("initiate", ann) @@ initiate2 :> AskSecond("initiate", ann)
  @@ claim :> Ask("claim", bob) @@ claim2 :> AskSecond("claim", carl)
  @@ cancel :> Ask("cancel", ann) @@ verify :> Ask("verify", ann)
  @@ revoke :> Ask("revoke", ann)
  @@ [c \in {upload1, upload2, upload3} |-> Ask("ingest", ann)]
MCCalls == DOMAIN MCCallOf

\* One link on two devices.
MCGates == {g1, g2}
MCValidators == {v1}
MCValidatorOf == [g \in MCGates |-> v1]
MCUploadsOf == g1 :> {upload1, upload2} @@ g2 :> {upload3}

Changes(network, reload, clock, access) ==
  [network |-> network, reload |-> reload, clock |-> clock, access |-> access]
MCBudget == Changes(2, 1, 1, 2)

\* What happens in one run of the model: the calls that are made, the tickets
\* that a job has issued before, the gates that open, the failures and the
\* changes from outside.
Story(made, issued, linked, failures, changes) ==
  [made |-> made, issued |-> issued, linked |-> linked,
   failed |-> MaxFaults - failures, changes |-> changes]

Nothing == Changes(0, 0, 0, 0)

\* The order is refunded while a gate scans and loses its network,
Refund == Story({revoke, upload1}, {t1}, {g1}, 0, Changes(1, 0, 0, 0))
\* or lets its manifest grow old.
OldManifest == Story({revoke}, {t1}, {g1}, 0, Changes(0, 0, 1, 0))
\* The page is opened again, with check-ins that were not uploaded.
Reopened == Story({upload1}, {t1}, {g1}, 0, Changes(1, 1, 0, 0))
\* Two devices admit the same ticket.  On one of them, the access of the
\* validator is taken away and given back.
Rivals == Story({upload1, upload3}, {t1}, {g1, g2}, 0, Nothing)
Access == Story({upload1}, {t1}, {g1}, 0, Changes(0, 0, 0, 2))
\* Two tickets are refunded while one of them is checked in: their entries in the
\* log may commit in another order than that of their numbers.
RefundOfTwo == Story({revoke, upload1}, {t1, t2}, {g1}, 0, Nothing)
\* Two tickets, one scanned while the other is uploaded.
Crowd == Story({upload1, upload2}, {t1, t2}, {g1}, 0, Nothing)
\* A request or a handler fails: the check-in is sent or handled again.
Retries == Story({upload1, upload2}, {t1}, {g1}, 1, Changes(1, 0, 0, 0))
\* The tickets are issued: by a job that is handled again, and refunded; by two
\* workers at once.
Issue == Story({issue, revoke}, {}, {}, 1, Nothing)
TwoWorkers == Story({issue, reissue}, {}, {}, 0, Nothing)
\* The ticket changes hands while it is checked in, online or at the gate.
Handover ==
  Story({initiate, initiate2, claim, claim2, cancel, verify}, {t1}, {}, 0, Nothing)
NewSecret ==
  Story({initiate, claim, upload1, upload2}, {t1}, {g1}, 0, Nothing)

CheckinStories ==
  {Refund, OldManifest, Reopened, Rivals, Access, Crowd, Retries, Issue, TwoWorkers,
   Handover, NewSecret, RefundOfTwo}

ReloadStories == {Reopened}

MCInit ==
  \E s \in Scenarios :
    /\ TicketsStart(s.made, s.issued, s.failed)
    /\ GateStart(s.linked, s.changes)

MCSpec == MCInit /\ [][GateNext]_allVars /\ GateFairness
=============================================================================
