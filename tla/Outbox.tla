---------------------------- MODULE Outbox ----------------------------
(***************************************************************************)
(* Notifications.  notify() writes the notification and, with a notify     *)
(* file configured, its outbox row into the transaction of its caller; the *)
(* sweeper thread sends the rows later, appending each to the file and     *)
(* then marking it, without a transaction around the two.  Two kinds of    *)
(* notifications are different.  The notices on an expired hold and on the *)
(* promotion after it: sweep_once calls notify() outside a transaction, so *)
(* its two rows are committed one after the other.  And announcements:     *)
(* admin_notify() writes the table itself, without rows of the outbox.     *)
(***************************************************************************)
EXTENDS Naturals, Sequences, FiniteSets, Functions

CONSTANTS
  Topics,    \* what a notification may be about
  Batch,     \* rows one dispatch reads, 100 in the code
  MaxNotes,  \* rows of notifications: bound of the model
  MaxSlips   \* steps of the sweeper thread that go wrong: bound of the model

ASSUME OutboxBounds == Batch \in Nat \ {0} /\ MaxNotes \in Nat /\ MaxSlips \in Nat

VARIABLES
  notes,     \* the table notifications: id -> [about, by]
  outbox,    \* the table outbox: id -> [note, sent]
  file,      \* the lines of the notify file, each the id of its outbox row
  mailer,    \* the dispatching thread
  slips      \* how often a step of the sweeper thread below has gone wrong

\* How a notification came to the table.
Writers == {"transaction", "sweep", "announcement"}

outboxVars == <<notes, outbox, file, mailer, slips>>

\* pc: "idle", "send" and "mark" (before the append and before the UPDATE of
\* the first row), "queue" (a hold's notification is committed, its outbox row
\* is not).  rows: the rows still to do, in the order of their ids.  error: the
\* append was reported to fail.
Resting == [pc |-> "idle", rows |-> {}, error |-> FALSE]
InTurn(i) == i \in mailer.rows /\ \A j \in mailer.rows : i <= j

Copies(i) == Cardinality({n \in DOMAIN file : file[n] = i})
Unsent == {i \in DOMAIN outbox : ~outbox[i].sent}
Queued(n) == \E i \in DOMAIN outbox : outbox[i].note = n

\* A step that may go wrong is counted when it does.
Slip(wrong) == slips' = (IF wrong THEN slips + 1 ELSE slips) /\ slips' <= MaxSlips

OutboxInit ==
  /\ notes = <<>> /\ outbox = <<>> /\ file = <<>>
  /\ mailer = Resting /\ slips = 0
-----------------------------------------------------------------------------
\* notify() inside the transaction of a request, of the release of no-shows or
\* of the reminder.  An INSERT that fails undoes the whole transaction.
NotifyUnqueued(topic) == \* mutant
  /\ Len(notes) < MaxNotes
  /\ notes' = Append(notes, [about |-> topic, by |-> "transaction"])
  /\ UNCHANGED <<outbox, file, mailer, slips>>
Notify(topic) ==
  /\ Len(notes) < MaxNotes
  /\ notes' = Append(notes, [about |-> topic, by |-> "transaction"])
  /\ outbox' = Append(outbox, [note |-> Len(notes) + 1, sent |-> FALSE])
  /\ UNCHANGED <<file, mailer, slips>>

\* admin_notify(): a notification for each of the users it addresses, in one
\* transaction.  Nothing is queued for the notify file.
Announce(topic, users) ==
  /\ Len(notes) + users <= MaxNotes
  /\ notes' = notes \o [n \in 1..users |-> [about |-> topic, by |-> "announcement"]]
  /\ UNCHANGED <<outbox, file, mailer, slips>>

\* notify() for an expired hold or the promotion after it, in two statements of
\* their own.
NoticeHold(topic) ==
  /\ mailer.pc = "idle" /\ Len(notes) < MaxNotes
  /\ notes' = Append(notes, [about |-> topic, by |-> "sweep"])
  /\ mailer' = [mailer EXCEPT !.pc = "queue", !.rows = {Len(notes) + 1}]
  /\ UNCHANGED <<outbox, file, slips>>
\* The second INSERT; when it fails, the notice stays without a row.
QueueHoldLast(done) == \* mutant
  /\ mailer.pc = "queue"
  /\ outbox' = IF done THEN Append(outbox, [note |-> Len(notes), sent |-> FALSE]) ELSE outbox
  /\ mailer' = Resting
  /\ Slip(~done)
  /\ UNCHANGED <<notes, file>>
QueueHold(done) ==
  /\ mailer.pc = "queue"
  /\ \E n \in mailer.rows :
       outbox' = IF done THEN Append(outbox, [note |-> n, sent |-> FALSE]) ELSE outbox
  /\ mailer' = Resting
  /\ Slip(~done)
  /\ UNCHANGED <<notes, file>>
-----------------------------------------------------------------------------
(***************************************************************************)
(* outbox_dispatch, at the beginning and the end of a sweep.               *)
(***************************************************************************)
Earliest(S, n) == {i \in S : Cardinality({j \in S : j <= i}) <= n}

ListNewest == \* mutant
  /\ mailer.pc = "idle" /\ Unsent # {}
  /\ mailer' = [mailer EXCEPT !.pc = "send",
                  !.rows = Unsent \cap {Len(outbox)}]
  /\ UNCHANGED <<notes, outbox, file, slips>>
ListUnsent ==
  /\ mailer.pc = "idle" /\ Unsent # {}
  /\ mailer' = [mailer EXCEPT !.pc = "send", !.rows = Earliest(Unsent, Batch)]
  /\ UNCHANGED <<notes, outbox, file, slips>>

\* The append succeeds; or it is reported to have failed, with or without the
\* line in the file (the error may come with the close).
Send(i, written, error) ==
  /\ mailer.pc = "send" /\ InTurn(i)
  /\ written \/ error
  /\ file' = IF written THEN Append(file, i) ELSE file
  /\ mailer' = [mailer EXCEPT !.pc = "mark", !.error = error]
  /\ Slip(error)
  /\ UNCHANGED <<notes, outbox>>

Without(i) == [mailer EXCEPT !.pc = "send", !.rows = @ \ {i}, !.error = FALSE]

\* sent_at is set unless there was an error; the row of an error is left for
\* the next dispatch.  An UPDATE that fails leaves the row as it was.
MarkAlways(i, done) == \* mutant
  /\ mailer.pc = "mark" /\ InTurn(i)
  /\ outbox' = [outbox EXCEPT ![i].sent = TRUE]
  /\ mailer' = Without(i)
  /\ Slip(~done)
  /\ UNCHANGED <<notes, file>>
MarkNever(i, done) == \* mutant
  /\ mailer.pc = "mark" /\ InTurn(i)
  /\ mailer' = Without(i)
  /\ Slip(~done)
  /\ UNCHANGED <<notes, outbox, file>>
Mark(i, done) ==
  /\ mailer.pc = "mark" /\ InTurn(i)
  /\ outbox' = IF done /\ ~mailer.error
               THEN [outbox EXCEPT ![i].sent = TRUE] ELSE outbox
  /\ mailer' = Without(i)
  /\ Slip(~done)
  /\ UNCHANGED <<notes, file>>

EndDispatch ==
  /\ mailer.pc = "send" /\ mailer.rows = {}
  /\ mailer' = Resting
  /\ UNCHANGED <<notes, outbox, file, slips>>

\* The process dies: the list is gone, the tables and the file stay.
CrashOutbox ==
  /\ mailer' = Resting
  /\ Slip(mailer.pc # "idle")
  /\ UNCHANGED <<notes, outbox, file>>
-----------------------------------------------------------------------------
\* The steps of the sweeper thread that write or send outbox rows.
Dispatch ==
  \/ ListUnsent \/ EndDispatch
  \/ \E done \in BOOLEAN : QueueHold(done)
  \/ \E i \in mailer.rows, written, error \in BOOLEAN : Send(i, written, error)
  \/ \E i \in mailer.rows, done \in BOOLEAN : Mark(i, done)

\* Every outbox row belongs to a notification, at most one row each, and what
\* the mailer sends are rows it has read.
OutboxTypeOK ==
  /\ notes \in Seq([about: Topics, by: Writers])
  /\ outbox \in Seq([note: DOMAIN notes, sent: BOOLEAN])
  /\ \A i, j \in DOMAIN outbox : outbox[i].note = outbox[j].note => i = j
  /\ file \in Seq(DOMAIN outbox)
  /\ slips \in 0..MaxSlips
  /\ mailer \in [pc: {"idle", "send", "mark", "queue"}, rows: SUBSET Nat, error: BOOLEAN]
  /\ mailer.pc \in {"send", "mark"} => mailer.rows \subseteq DOMAIN outbox

\* A row counts as sent only when its line is in the file.
SentIsWritten == \A i \in DOMAIN outbox : outbox[i].sent => Copies(i) > 0

\* A line is in the file twice only because a step between the append and the
\* mark has gone wrong: one more copy for each time, over all rows.
CopiesExplained == Len(file) <= Cardinality(Range(file)) + slips

\* What notify() writes in a transaction is committed with its outbox row.  What
\* it writes outside one, for the sweeper's holds, can lose that row, once for
\* each step that went wrong.  Only announcements never have one.
NotesQueued ==
  LET bare == {n \in DOMAIN notes : ~Queued(n)}
      lost == {n \in bare : notes[n].by # "announcement"}
  IN /\ \A n \in lost : notes[n].by = "sweep"
     /\ Cardinality(lost) <= slips + (IF mailer.pc = "queue" THEN 1 ELSE 0)
     /\ \A n \in DOMAIN notes : notes[n].by = "announcement" => n \in bare
=============================================================================
