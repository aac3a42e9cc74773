---------------------------- MODULE Sweeper ----------------------------
(***************************************************************************)
(* The sweeper thread beside the worker threads.  One sweep first expires  *)
(* the overdue holds, each statement a transaction of its own, and offers  *)
(* their seats; then it reads the list of no-shows, and releases them in   *)
(* one transaction.  Requests run between any two of these steps, so what  *)
(* the sweeper has read may be out of date when it writes.                 *)
(*                                                                         *)
(* The queries with which promote() chooses a waiter are one step, Pick:   *)
(* what matters is that its result is used two transactions later.         *)
(***************************************************************************)
EXTENDS Booking, SequencesExt

CONSTANT MaxFailures  \* sweeps that are cut short: bound of the model

ASSUME FailuresAssumption == MaxFailures \in Nat

VARIABLES
  sweep,     \* where the sweeper is, and what it has read
  failures   \* sweeps cut short so far

allVars == <<vars, sweep, failures>>

\* pc: "idle", "holds" (before the next overdue hold), "fill" (before the next
\* promotion), "grant" and "link" (before its two writes), "release" (before
\* the transaction on the no-shows).  at: the clock, read once.  listed: the
\* rows of the held or of the due list not yet handled.
Idle == [pc |-> "idle", at |-> 0, listed |-> {}, slot |-> {}, wait |-> 0, rid |-> 0]

\* a reservation as the sweeper remembers it; slot is {} or the set of one slot
Item(i) == [row |-> i, slot |-> resv[i].slot]

SweepInit == Init /\ sweep = Idle /\ failures = 0
-----------------------------------------------------------------------------
(***************************************************************************)
(* Overdue holds.                                                          *)
(***************************************************************************)
HoldOverdue(row, t) ==
  row.status = "HELD" /\ (row.deadline <= t \/ Start[row.slot] <= t)

ListUpcoming == \* mutant
  /\ sweep.pc = "idle"
  /\ sweep' = [Idle EXCEPT !.pc = "holds", !.at = now,
                 !.listed = {Item(i) : i \in {k \in DOMAIN resv :
                               HoldOverdue(resv[k], now) /\ ~Started(resv[k].slot)}}]
  /\ UNCHANGED <<vars, failures>>
ListHolds ==
  /\ sweep.pc = "idle"
  /\ sweep' = [Idle EXCEPT !.pc = "holds", !.at = now,
                 !.listed = {Item(i) : i \in {k \in DOMAIN resv : HoldOverdue(resv[k], now)}}]
  /\ UNCHANGED <<vars, failures>>

ExpireListed(row) == TRUE \* mutant
\* The row is looked at again: it may have been confirmed or cancelled.
StillHeld(row) == row.status = "HELD"

Expire(x) ==
  /\ sweep.pc = "holds" /\ x \in sweep.listed
  /\ IF StillHeld(resv[x.row])
     THEN /\ Commit([resv EXCEPT ![x.row].status = "EXPIRED", ![x.row].deadline = 0],
                    waits, accounts)
          /\ sweep' = [sweep EXCEPT !.pc = "fill", !.slot = {x.slot}, !.listed = @ \ {x}]
     ELSE /\ UNCHANGED vars
          /\ sweep' = [sweep EXCEPT !.listed = @ \ {x}]
  /\ UNCHANGED failures

\* Nothing is free or nobody can come: back to the list of holds.
Pick(s) ==
  /\ sweep.pc = "fill" /\ s \in sweep.slot
  /\ IF Free(resv, s) <= 0
     THEN UNCHANGED vars /\ sweep' = [sweep EXCEPT !.pc = "holds", !.slot = {}]
     ELSE LET queue == Executable(resv, waits, accounts, s) IN
          /\ Commit(resv, SkipStale(waits, accounts, s), accounts)
          /\ sweep' = IF queue = {}
                      THEN [sweep EXCEPT !.pc = "holds", !.slot = {}]
                      ELSE [sweep EXCEPT !.pc = "grant",
                                         !.wait = Nth(waits, accounts, queue, 0)]
  /\ UNCHANGED failures

\* The bound on the reservations is for requests; a promotion uses up a waiter.
Write(r, w) ==
  resv' = r /\ waits' = w /\ UNCHANGED <<now, slots, labs, accounts, failures>>

Grant(s) ==
  /\ sweep.pc = "grant" /\ s \in sweep.slot
  /\ Write(Append(resv, GrantedRow(waits[sweep.wait].user, s)), waits)
  /\ sweep' = [sweep EXCEPT !.pc = "link", !.rid = Len(resv) + 1]

\* The waitlist row is marked whatever its status is by now.
Link ==
  /\ sweep.pc = "link"
  /\ Write(resv, [waits EXCEPT ![sweep.wait] = Promoted(waits[sweep.wait], sweep.rid)])
  /\ sweep' = [sweep EXCEPT !.pc = "fill", !.wait = 0, !.rid = 0]
-----------------------------------------------------------------------------
(***************************************************************************)
(* No-shows.                                                               *)
(***************************************************************************)
ShowDeadline(row) ==
  (IF row.source = "WAITLIST" THEN row.since ELSE Start[row.slot]) + CheckinWindow

Missing(row) == row.status = "CONFIRMED" /\ ~row.checkedIn

NoShow(row, t) == Missing(row) /\ ShowDeadline(row) <= t

ListLive == \* mutant
  /\ sweep.pc = "holds" /\ sweep.listed = {}
  /\ sweep' = [sweep EXCEPT !.pc = "release",
                 !.listed = {Item(i) : i \in {k \in DOMAIN resv :
                               NoShow(resv[k], sweep.at) /\ End(resv[k].slot) > sweep.at}}]
  /\ UNCHANGED <<vars, failures>>
ListNoShows ==
  /\ sweep.pc = "holds" /\ sweep.listed = {}
  /\ sweep' = [sweep EXCEPT !.pc = "release",
                 !.listed = {Item(i) : i \in {k \in DOMAIN resv : NoShow(resv[k], sweep.at)}}]
  /\ UNCHANGED <<vars, failures>>

ReleaseListed(row) == row.status = "CONFIRMED" \* mutant
StillMissing(row) == Missing(row)

\* What the transaction does with one row of the list.
ReleaseOne(t, x) ==
  LET r == [t.resv EXCEPT ![x.row].status = "CANCELLED", ![x.row].reason = "NO_SHOW"]
      a == CreditApply(t.accounts, t.resv[x.row].user, -1)
      f == PromoteFill(r, t.waits, a, x.slot)
  IN IF ~StillMissing(t.resv[x.row]) THEN t
     ELSE IF End(x.slot) > sweep.at
     THEN [resv |-> f.resv, waits |-> f.waits, accounts |-> a]
     ELSE [resv |-> r, waits |-> t.waits, accounts |-> a]

\* The tables after the transaction has gone through the list in this order.
Released(order) ==
  LET after[k \in 0..Len(order)] ==
        IF k = 0 THEN [resv |-> resv, waits |-> waits, accounts |-> accounts]
        ELSE ReleaseOne(after[k - 1], order[k])
  IN after[Len(order)]

\* The query fixes no order of the rows.
Release ==
  /\ sweep.pc = "release"
  /\ \E order \in SetToSeqs(sweep.listed) :
       LET t == Released(order)
       IN resv' = t.resv /\ waits' = t.waits /\ accounts' = t.accounts
  /\ sweep' = Idle
  /\ UNCHANGED <<now, slots, labs, failures>>
-----------------------------------------------------------------------------
\* A sweep ends where it is when the process dies or a statement fails, and the
\* next one starts from the beginning.  A transaction that has not ended is
\* rolled back: Release is whole or not at all.
Fail ==
  /\ sweep.pc # "idle"
  /\ failures < MaxFailures
  /\ failures' = failures + 1
  /\ sweep' = Idle
  /\ UNCHANGED vars

Sweep ==
  \/ ListHolds \/ (\E x \in sweep.listed : Expire(x))
  \/ (\E s \in sweep.slot : Pick(s) \/ Grant(s)) \/ Link
  \/ ListNoShows \/ Release

SweepNext ==
  \/ Next /\ UNCHANGED <<sweep, failures>>
  \/ Sweep
  \/ Fail

\* The thread sweeps for ever, every --sweep-interval seconds.
SweepSpec == SweepInit /\ [][SweepNext]_allVars /\ WF_allVars(Sweep)
-----------------------------------------------------------------------------
(***************************************************************************)
(* Properties.                                                             *)
(***************************************************************************)

\* A hold expires only while it is unconfirmed, and only when its time is over:
\* a user who confirmed in time keeps the seat, even if the sweeper had already
\* listed it.
HoldExpiresLate ==
  [][\A i \in DOMAIN resv :
       (resv[i].status # "EXPIRED" /\ resv'[i].status = "EXPIRED") =>
          resv[i].status = "HELD" /\ (resv[i].deadline <= now \/ Started(resv[i].slot))]_allVars

\* A user is marked a no-show only when the check-in window of the reservation
\* is over.
NoShowAfterWindow ==
  [][\A i \in DOMAIN resv :
       (resv[i].reason # "NO_SHOW" /\ resv'[i].reason = "NO_SHOW") =>
          now >= CheckinBegin(resv[i]) + CheckinWindow]_allVars

\* Nobody but the sweeper fills a slot beyond its capacity, or makes it worse: a
\* step that does is the INSERT of its promotion, which finds the slot exactly
\* full and takes one seat too many.
OversoldOnlyByGrant ==
  [][\A s \in Slots :
       (Free(resv, s)' < 0 /\ Free(resv, s)' < Free(resv, s)) =>
          /\ Free(resv, s) = 0 /\ Free(resv, s)' = -1
          /\ sweep.pc = "grant" /\ s \in sweep.slot]_allVars

\* A hold whose time is over does not block its seat for ever.
OverdueHoldReleased ==
  \A i \in 1..(MaxReservations + MaxWaits) :
     (i \in DOMAIN resv /\ HoldOverdue(resv[i], now))
       ~> ~(i \in DOMAIN resv /\ resv[i].status = "HELD")

\* Nor does a reservation nobody checked in for, whatever fails in between.
NoShowReleased ==
  \A i \in 1..(MaxReservations + MaxWaits) :
     (i \in DOMAIN resv /\ NoShow(resv[i], now))
       ~> ~(i \in DOMAIN resv /\ Missing(resv[i]))
=============================================================================
