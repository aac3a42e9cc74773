--------------------------- MODULE Delivery ---------------------------
(***************************************************************************)
(* Requests with their receipts, and the notifications their transactions  *)
(* write: one process, one database.  A transaction that does the work of  *)
(* a request commits the effect, the receipt, the notification and its     *)
(* outbox row together; an announcement commits notifications alone and    *)
(* keeps no receipt.  The reply and the line in the notify file come       *)
(* later, each by its own thread, and a crash takes both threads along.    *)
(***************************************************************************)
EXTENDS Receipts, Outbox

CONSTANTS
  Notifying,  \* payloads whose effect concerns somebody else
  Announcing, \* the administrator's announcements
  Hold        \* the topic of a notice on an expired hold

ASSUME NotifyingAssumption ==
  /\ Notifying \cup Announcing \subseteq Payloads
  /\ Announcing \cap (Notifying \cup Kept) = {}
  /\ Request \cup {Hold} \subseteq Topics

deliveryVars == <<receiptVars, outboxVars>>

DeliveryInit == ReceiptInit /\ OutboxInit

\* The work of a request, with what it tells others.
Tell(m) ==
  \/ m.asks \in Notifying /\ Notify(m)
  \/ m.asks \in Announcing /\ \E users \in 1..MaxNotes : Announce(m, users)
  \/ m.asks \notin Notifying \cup Announcing /\ UNCHANGED outboxVars

Commit(m) == Act(m, "done") /\ Tell(m)

Serve(m) ==
  \/ Commit(m)
  \/ (Act(m, "refused") \/ Replay(m) \/ Collide(m)) /\ UNCHANGED outboxVars

Client(k) ==
  \/ Retry(k)
  \/ \E p \in Payloads : Ask(k, p) \/ Reuse(k, p)

Crash == CrashReceipts /\ CrashOutbox

DeliveryNext ==
  \/ \E k \in Keys : Client(k) /\ UNCHANGED outboxVars
  \/ \E m \in Request : Serve(m)
  \/ \E m \in Request : (Deny(m) \/ Fail(m)) /\ UNCHANGED outboxVars
  \/ \E r \in replies : (Hear(r) \/ Lose(r)) /\ UNCHANGED outboxVars
  \/ (Dispatch \/ NoticeHold(Hold)) /\ UNCHANGED receiptVars
  \/ Crash

Failures == {r \in replies : r.answer \in TryAgain}

\* The workers take what waits for them, the connections carry replies, the
\* sweeper thread sweeps again and again, and a client that was not answered,
\* or was told to, sends the request again.
Fairness ==
  /\ \A k \in Keys : WF_deliveryVars(Retry(k) /\ UNCHANGED outboxVars)
  /\ \A m \in Request : WF_deliveryVars(Serve(m))
  /\ \A m \in Request :
       /\ WF_deliveryVars(\E r \in InFlight(m) \ Failures : Hear(r) /\ UNCHANGED outboxVars)
       /\ WF_deliveryVars(\E r \in InFlight(m) \cap Failures : Hear(r) /\ UNCHANGED outboxVars)
  /\ WF_deliveryVars(Dispatch /\ UNCHANGED receiptVars)

DeliverySpec == DeliveryInit /\ [][DeliveryNext]_deliveryVars /\ Fairness
-----------------------------------------------------------------------------
\* Whoever keeps asking is answered: a client of booking() learns a result in
\* the end, whatever was lost or failed on the way.
AskersAnswered == \A k \in Keys : (asking[k] \in Replayed) ~> Settled(k)

\* What notify() wrote in a transaction reaches the notify file in the end,
\* across crashes, failed appends and failed updates.
NotesDelivered ==
  \A n \in 1..MaxNotes :
     (n \in DOMAIN notes /\ notes[n].by = "transaction")
        ~> (\E i \in DOMAIN file : outbox[file[i]].note = n)
=============================================================================
