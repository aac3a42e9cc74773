---------------------------- MODULE Booking ----------------------------
(***************************************************************************)
(* The requests of users and administrators that change bookings, as the   *)
(* worker threads execute them.  Every handler runs in one transaction     *)
(* opened with BEGIN IMMEDIATE, and the database admits one writer at a    *)
(* time: a handler is one step.  A request that is refused and leaves the  *)
(* tables as they were is no step; one that is refused after it has        *)
(* already changed them is, because its transaction still commits.         *)
(*                                                                         *)
(* Requests names the requests clients send, so that a configuration can   *)
(* set some of them aside; it is the first conjunct of each action.        *)
(***************************************************************************)
EXTENDS LabState

CONSTANTS
  Requests,        \* the requests clients send, a subset of AllRequests
  InitialCredit,   \* balances accounts may begin with
  InitialApproval, \* laboratories that begin with require_approval
  InitialCapacity, \* slot -> the capacity it is published with
  MaxBatch         \* slots of one batch request, 8 in the code

AllRequests ==
  {"reserve", "wait", "cancel", "withdraw", "checkin", "checkout", "confirm",
   "reschedule", "batch", "approve", "reject", "force-complete",
   "force-cancel", "slot", "lab", "disable", "enable", "grant"}

ASSUME RequestsAssumption == Requests \subseteq AllRequests
ASSUME InitialAssumption ==
  /\ InitialCredit \subseteq 0..CreditBase
  /\ InitialApproval \subseteq Labs
  /\ InitialCapacity \in [Slots -> 1..MaxCapacity]
  /\ MaxBatch \in Nat
-----------------------------------------------------------------------------
Init ==
  /\ now = 0
  /\ slots = [s \in Slots |-> [capacity |-> InitialCapacity[s], open |-> TRUE]]
  /\ labs = [l \in Labs |-> [open |-> TRUE, approval |-> l \in InitialApproval]]
  /\ accounts \in [Users -> [credit: InitialCredit, toppedUp: {FALSE}, enabled: {TRUE}]]
  /\ resv = <<>>
  /\ waits = <<>>

\* The transaction ends with these tables.  The tables of the model are
\* bounded: a request that would grow them further does not take place.
Commit(r, w, a) ==
  /\ Len(r) <= MaxReservations \/ Len(r) = Len(resv)
  /\ Len(w) <= MaxWaits \/ Len(w) = Len(waits)
  /\ resv' = r
  /\ waits' = w
  /\ accounts' = a
  /\ UNCHANGED <<now, slots, labs>>

CommitFill(t, a) == Commit(t.resv, t.waits, a)

\* what booking() asks before it looks at the request itself
Admitted(u, s) == accounts[u].enabled /\ ~Started(s) /\ LeadOk(s)
-----------------------------------------------------------------------------
(***************************************************************************)
(* booking(): reserve.                                                     *)
(***************************************************************************)
Refused(u, s, a) ==
  a[u].credit = 0 \/ Penalised(u) \/ Clash(resv, u, s) \/ QuotaUsed(u)

\* Seats an administrator may take over, and the one the code takes.
Evictable(u, s) ==
  {i \in Seated(resv, s) : ~resv[i].checkedIn /\ resv[i].prio < RolePriority(u)}
Victim(u, s) ==
  {i \in Evictable(u, s) :
     \A k \in Evictable(u, s) :
        resv[i].prio < resv[k].prio \/ (resv[i].prio = resv[k].prio /\ i <= k)}
Evict(r, v) == [r EXCEPT ![v].status = "CANCELLED", ![v].reason = "PREEMPTED"]

\* The free seats go to the waiters first; the request gets one of those left.
AdmitAtOnce(u, s, r, a) == \* mutant
  Commit(Append(r, DirectRow(u, s, "CONFIRMED")), waits, a)
Admit(u, s, r, a) ==
  LET t == PromoteFill(r, waits, a, s)
      status == IF labs[LabOf[s]].approval THEN "PENDING" ELSE "CONFIRMED"
  IN IF HoldsSeat(t.resv, u, s) \/ Free(t.resv, s) <= 0
     THEN CommitFill(t, a)
     ELSE Commit(Append(t.resv, DirectRow(u, s, status)), t.waits, a)

\* The evicted user is compensated, and the seats are counted again.
TakeOverThenFull(u, s, v, a) == \* mutant
  Commit(Evict(resv, v), waits, CreditApply(a, resv[v].user, 1))
TakeOver(u, s, v, a) ==
  LET r == Evict(resv, v)
      b == CreditApply(a, resv[v].user, 1)
  IN IF Free(r, s) <= 0 THEN Commit(r, waits, b) ELSE Admit(u, s, r, b)

Reserve(u, s) ==
  /\ "reserve" \in Requests
  /\ Admitted(u, s)
  /\ Open(s)
  /\ ~HoldsSeat(resv, u, s)
  /\ LET a == WeeklyTopup(accounts, u) IN
       \/ Refused(u, s, a) /\ Commit(resv, waits, a)
       \/ ~Refused(u, s, a) /\ Free(resv, s) > 0 /\ Admit(u, s, resv, a)
       \/ /\ ~Refused(u, s, a) /\ Free(resv, s) <= 0
          /\ Victim(u, s) = {}
          /\ Commit(resv, waits, a)
       \/ /\ ~Refused(u, s, a) /\ Free(resv, s) <= 0
          /\ \E v \in Victim(u, s) : TakeOver(u, s, v, a)
-----------------------------------------------------------------------------
(***************************************************************************)
(* booking(): wait, cancel, withdraw, checkin.                             *)
(***************************************************************************)
WaitRow(u, s) ==
  [user |-> u, slot |-> s, status |-> "WAITING", prio |-> RolePriority(u),
   since |-> now, resv |-> 0]

Join(u, s) ==
  /\ "wait" \in Requests
  /\ Admitted(u, s)
  /\ Open(s)
  /\ ~HoldsSeat(resv, u, s)
  /\ Free(resv, s) <= 0
  /\ ~Penalised(u)
  /\ ~Clash(resv, u, s)
  /\ LET a == WeeklyTopup(accounts, u)
         refused == a[u].credit = 0 \/ DailyLimitReached(u) \/ Queued(waits, u, s)
     IN Commit(resv, IF refused THEN waits ELSE Append(waits, WaitRow(u, s)), a)

Cancelled(r, i, why) ==
  [r EXCEPT ![i].status = "CANCELLED", ![i].reason = why, ![i].deadline = 0]

Cancel(i) ==
  /\ "cancel" \in Requests
  /\ Admitted(resv[i].user, resv[i].slot)
  /\ LET r == Cancelled(resv, i, "USER") IN
       \/ /\ Live(resv[i])
          /\ CommitFill(PromoteFill(r, waits, accounts, resv[i].slot), accounts)
       \/ resv[i].status = "PENDING" /\ Commit(r, waits, accounts)

Withdraw(j) ==
  /\ "withdraw" \in Requests
  /\ Admitted(waits[j].user, waits[j].slot)
  /\ waits[j].status = "WAITING"
  /\ Commit(resv, [waits EXCEPT ![j].status = "WITHDRAWN"], accounts)

\* A promoted reservation may be checked in from the moment of the promotion.
CheckinBegin(row) ==
  IF row.source = "WAITLIST" /\ row.since > Start[row.slot] THEN row.since ELSE Start[row.slot]
InCheckinWindow(row) ==
  CheckinBegin(row) <= now /\ now < CheckinBegin(row) + CheckinWindow

CheckIn(i) ==
  /\ "checkin" \in Requests
  /\ accounts[resv[i].user].enabled
  /\ InCheckinWindow(resv[i])
  /\ LeadOk(resv[i].slot)
  /\ resv[i].status = "CONFIRMED" /\ ~resv[i].checkedIn
  /\ Commit([resv EXCEPT ![i].checkedIn = TRUE], waits,
            CreditApply(accounts, resv[i].user, 1))
-----------------------------------------------------------------------------
(***************************************************************************)
(* The other requests of a user.  Their session was found valid before the *)
(* transaction began; the account is not looked at again inside it.        *)
(***************************************************************************)
Checkout(i) ==
  /\ "checkout" \in Requests
  /\ resv[i].status = "CONFIRMED" /\ resv[i].checkedIn /\ ~resv[i].checkedOut
  /\ now < End(resv[i].slot)
  /\ Commit([resv EXCEPT ![i].checkedOut = TRUE], waits, accounts)

ConfirmAnyRow(i) == \* mutant
  /\ "confirm" \in Requests
  /\ ~Started(resv[i].slot)
  /\ Commit([resv EXCEPT ![i].status = "CONFIRMED", ![i].deadline = 0], waits, accounts)
Confirm(i) ==
  /\ "confirm" \in Requests
  /\ resv[i].status = "HELD"
  /\ resv[i].deadline > 0 => now < resv[i].deadline
  /\ ~Started(resv[i].slot)
  /\ Commit([resv EXCEPT ![i].status = "CONFIRMED", ![i].deadline = 0], waits, accounts)

\* capacity and overlap of the new slot are counted without the row itself
WithoutRow(r, i) == [r EXCEPT ![i].status = "CANCELLED"]

RescheduleFillsNew(i, t) == \* mutant
  /\ "reschedule" \in Requests
  /\ resv[i].status = "CONFIRMED" /\ ~Started(resv[i].slot) /\ ~Started(t)
  /\ t # resv[i].slot /\ Free(resv, t) > 0
  /\ CommitFill(PromoteFill([resv EXCEPT ![i].slot = t], waits, accounts, t), accounts)
RescheduleAnyLab(i, t) == \* mutant
  /\ "reschedule" \in Requests
  /\ resv[i].status = "CONFIRMED" /\ ~Started(resv[i].slot) /\ ~Started(t)
  /\ Free(resv, t) > 0 /\ Open(t)
  /\ CommitFill(PromoteFill([resv EXCEPT ![i].slot = t], waits, accounts, resv[i].slot),
                accounts)
Reschedule(i, t) ==
  /\ "reschedule" \in Requests
  /\ resv[i].status = "CONFIRMED"
  /\ ~Started(resv[i].slot)
  /\ t # resv[i].slot
  /\ Open(t)
  /\ LabOf[t] = LabOf[resv[i].slot]
  /\ ~Started(t) /\ LeadOk(t)
  /\ Free(WithoutRow(resv, i), t) > 0
  /\ ~Clash(WithoutRow(resv, i), resv[i].user, t)
  /\ CommitFill(PromoteFill([resv EXCEPT ![i].slot = t], waits, accounts, resv[i].slot),
                accounts)

\* consecutive slots of one laboratory: each starts when the one before it ends
Runs ==
  {b \in UNION {[1..n -> Slots] : n \in 1..MaxBatch} :
     \A j, k \in DOMAIN b : /\ LabOf[b[k]] = LabOf[b[j]]
                           /\ Start[b[k]] - Start[b[j]] = (k - j) * SlotLength}

\* The overlap test of the code leaves out the bookings that lie within the
\* hours of the batch.
ClashAround(u, b) ==
  LET first == Start[b[1]]
      last == End(b[Len(b)])
  IN \E i \in DOMAIN resv :
        /\ resv[i].user = u /\ Live(resv[i])
        /\ ~(Start[resv[i].slot] >= first /\ End(resv[i].slot) <= last)
        /\ Start[resv[i].slot] < last /\ End(resv[i].slot) > first

Batch(u, b) ==
  /\ "batch" \in Requests
  /\ LET a == WeeklyTopup(accounts, u) IN
       /\ a[u].credit >= Len(b)
       /\ \A k \in DOMAIN b : Open(b[k]) /\ Free(resv, b[k]) > 0 /\ ~HoldsSeat(resv, u, b[k])
       /\ ~ClashAround(u, b)
       /\ Commit(resv \o [k \in DOMAIN b |-> DirectRow(u, b[k], "CONFIRMED")], waits, a)
-----------------------------------------------------------------------------
(***************************************************************************)
(* The requests of administrators.                                         *)
(***************************************************************************)
ApproveUnchecked(i) == \* mutant
  /\ "approve" \in Requests
  /\ resv[i].status = "PENDING"
  /\ Commit([resv EXCEPT ![i].status = "CONFIRMED"], waits, accounts)
Approve(i) ==
  /\ "approve" \in Requests
  /\ resv[i].status = "PENDING"
  /\ Free(resv, resv[i].slot) > 0
  /\ Commit([resv EXCEPT ![i].status = "CONFIRMED"], waits, accounts)

Reject(i) ==
  /\ "reject" \in Requests
  /\ resv[i].status = "PENDING"
  /\ Commit([resv EXCEPT ![i].status = "CANCELLED", ![i].reason = "REJECTED"], waits, accounts)

ForceComplete(i) ==
  /\ "force-complete" \in Requests
  /\ resv[i].status = "CONFIRMED" /\ resv[i].checkedIn /\ ~resv[i].checkedOut
  /\ Commit([resv EXCEPT ![i].checkedOut = TRUE], waits, accounts)

ForceCancelAttended(i) == \* mutant
  /\ "force-cancel" \in Requests
  /\ Live(resv[i])
  /\ CommitFill(PromoteFill(Cancelled(resv, i, "ADMIN"), waits, accounts, resv[i].slot),
                accounts)
ForceCancel(i) ==
  /\ "force-cancel" \in Requests
  /\ Live(resv[i]) \/ resv[i].status = "PENDING"
  /\ ~resv[i].checkedIn
  /\ CommitFill(PromoteFill(Cancelled(resv, i, "ADMIN"), waits, accounts, resv[i].slot),
                accounts)

\* A request may name the capacity, which is then checked, or leave it alone.
\* Raising the capacity promotes nobody.
SlotUpdateUnchecked(s, c, o) == \* mutant
  /\ "slot" \in Requests
  /\ slots' = [slots EXCEPT ![s] = [capacity |-> c, open |-> o]]
  /\ UNCHANGED <<now, labs, accounts, resv, waits>>
SlotUpdate(s, c, o) ==
  /\ "slot" \in Requests
  /\ c = slots[s].capacity \/ c >= Cardinality(Seated(resv, s))
  /\ slots' = [slots EXCEPT ![s] = [capacity |-> c, open |-> o]]
  /\ UNCHANGED <<now, labs, accounts, resv, waits>>

LabUpdate(l, o, p) ==
  /\ "lab" \in Requests
  /\ labs' = [labs EXCEPT ![l] = [open |-> o, approval |-> p]]
  /\ UNCHANGED <<now, slots, accounts, resv, waits>>

\* An administrator cannot disable the account in use.
Disable(u) ==
  /\ "disable" \in Requests
  /\ \E actor \in Admins : actor # u
  /\ Commit(resv, waits, [accounts EXCEPT ![u].enabled = FALSE])

Enable(u) ==
  /\ "enable" \in Requests
  /\ Commit(resv, waits, [accounts EXCEPT ![u].enabled = TRUE])

CreditGrant(u, n) ==
  /\ "grant" \in Requests
  /\ Commit(resv, waits, CreditApply(accounts, u, n))
-----------------------------------------------------------------------------
(***************************************************************************)
(* Time passes between transactions; with a new week the WEEKLY rows of    *)
(* the ledger stop counting.                                               *)
(***************************************************************************)
NewWeek == (now + 1) % WeekLength = 0

Tick ==
  /\ now < MaxTime
  /\ now' = now + 1
  /\ accounts' = IF NewWeek THEN [u \in Users |-> [accounts[u] EXCEPT !.toppedUp = FALSE]]
                 ELSE accounts
  /\ UNCHANGED <<slots, labs, resv, waits>>

UserRequest ==
  \/ \E u \in Users, s \in Slots : Reserve(u, s) \/ Join(u, s)
  \/ \E i \in DOMAIN resv : Cancel(i) \/ CheckIn(i) \/ Checkout(i) \/ Confirm(i)
  \/ \E i \in DOMAIN resv, t \in Slots : Reschedule(i, t)
  \/ \E j \in DOMAIN waits : Withdraw(j)
  \/ \E u \in Users, b \in Runs : Batch(u, b)

AdminRequest ==
  \/ \E i \in DOMAIN resv : Approve(i) \/ Reject(i) \/ ForceComplete(i) \/ ForceCancel(i)
  \/ \E s \in Slots, c \in 1..MaxCapacity, o \in BOOLEAN : SlotUpdate(s, c, o)
  \/ \E l \in Labs, o, p \in BOOLEAN : LabUpdate(l, o, p)
  \/ \E u \in Users : Disable(u) \/ Enable(u)
  \/ \E u \in Users, n \in 1..CreditBase : CreditGrant(u, n)

Next == Tick \/ UserRequest \/ AdminRequest

Spec == Init /\ [][Next]_vars
-----------------------------------------------------------------------------
(***************************************************************************)
(* Properties.                                                             *)
(***************************************************************************)

\* The tables hold rows of their schema, within the CHECK constraints that
\* init_schema declares and the clamp of credit_apply; no waitlist row is from
\* the future.
TypeOK ==
  /\ now \in 0..MaxTime
  /\ slots \in [Slots -> [capacity: 1..MaxCapacity, open: BOOLEAN]]
  /\ labs \in [Labs -> [open: BOOLEAN, approval: BOOLEAN]]
  /\ accounts \in [Users -> Account]
  /\ resv \in Seq(Reservation)
  /\ waits \in Seq(Wait)
  /\ \A j \in DOMAIN waits : waits[j].since <= now

\* No slot is oversold: confirmed and held rows together never exceed its
\* capacity, whichever of reserve, promotion, eviction, approval,
\* rescheduling, batch and capacity changes led there.
SeatsWithinCapacity ==
  \A s \in Slots : Cardinality(Seated(resv, s)) <= slots[s].capacity

\* The overlap tests of reserve, wait, promote and reschedule keep a user out
\* of two laboratories at one time, also when the second booking comes from a
\* promotion started by somebody else.
NoDoubleBooking ==
  \A i, k \in DOMAIN resv :
     (i # k /\ Live(resv[i]) /\ Live(resv[k]) /\ resv[i].user = resv[k].user)
        => ~Overlaps(resv[i].slot, resv[k].slot)

\* db_check: a promoted waitlist row leads to the reservation of that user for
\* that slot, and to one made by a promotion.
PromotedLink ==
  \A j \in DOMAIN waits :
     waits[j].status = "PROMOTED" =>
        /\ waits[j].resv \in DOMAIN resv
        /\ LET row == resv[waits[j].resv]
           IN row.user = waits[j].user /\ row.slot = waits[j].slot /\ row.source = "WAITLIST"

\* db_check, with the unique index one_waiter: a user waits once for a slot,
\* and not for a slot in which they hold a confirmed seat.
WaitersUnseated ==
  \A j \in DOMAIN waits :
     waits[j].status = "WAITING" =>
        /\ ~\E i \in DOMAIN resv : /\ resv[i].user = waits[j].user
                                  /\ resv[i].slot = waits[j].slot
                                  /\ resv[i].status = "CONFIRMED"
        /\ \A k \in Waiting(waits, waits[j].slot) : waits[k].user = waits[j].user => k = j

\* db_check: a reservation that was checked in is confirmed for ever, and is
\* checked out only after that; neither an eviction nor a forced or late
\* cancellation takes it away.
AttendanceStands ==
  \A i \in DOMAIN resv :
     /\ resv[i].checkedIn => resv[i].status = "CONFIRMED"
     /\ resv[i].checkedOut => resv[i].checkedIn

\* a waiter the executable strategy may serve, told without the operators of
\* the promotion itself
Servable(r, w, a, j) ==
  /\ w[j].status = "WAITING"
  /\ a[w[j].user].enabled
  /\ ~\E i \in DOMAIN r : /\ r[i].user = w[j].user
                         /\ r[i].status \in {"CONFIRMED", "HELD"}
                         /\ Start[r[i].slot] < End(w[j].slot)
                         /\ Start[w[j].slot] < End(r[i].slot)

\* BR19: a request never overtakes the queue.  When a step gives a seat of a
\* slot to somebody who asked for it directly, no waiter of that slot who
\* could have taken it is left waiting.
NoQueueJumping ==
  [][\A i \in DOMAIN resv' \ DOMAIN resv :
       (resv'[i].source = "DIRECT" /\ Live(resv'[i])) =>
          ~\E j \in DOMAIN waits' : waits'[j].slot = resv'[i].slot
                                  /\ Servable(resv', waits', accounts', j)]_vars

\* A seat given up does not stay idle while somebody can take it: the
\* transaction that takes a row out of a slot ends with the slot full or with
\* no servable waiter left.
FreedSeatOffered ==
  [][\A i \in DOMAIN resv :
       LET s == resv[i].slot IN
       (Live(resv[i]) /\ ~(Live(resv'[i]) /\ resv'[i].slot = s)) =>
          \/ Cardinality(Seated(resv', s)) >= slots[s].capacity
          \/ ~\E j \in DOMAIN waits' : waits'[j].slot = s
                                     /\ Servable(resv', waits', accounts', j)]_vars

\* A waiter is promoted before another of the same slot only if the other has
\* no better place in the queue or cannot attend.
PromotedInOrder ==
  [][\A j, k \in DOMAIN waits :
       (/\ waits[j].status = "WAITING" /\ waits'[j].status = "PROMOTED"
        /\ waits[k].slot = waits[j].slot /\ waits'[k].status = "WAITING"
        /\ Servable(resv', waits', accounts', k)) =>
          \/ waits[j].prio > waits[k].prio
          \/ waits[j].prio = waits[k].prio /\ j < k]_vars

\* An eviction moves a seat, it does not empty one: the slot of a PREEMPTED
\* row is as full after the step as before.
EvictionKeepsSeatTaken ==
  [][\A i \in DOMAIN resv :
       (resv[i].reason = "NONE" /\ resv'[i].reason = "PREEMPTED") =>
          Cardinality(Seated(resv', resv[i].slot)) = Cardinality(Seated(resv, resv[i].slot))]_vars

\* A cancelled or expired reservation and a waitlist row that is no longer
\* waiting are history: no later step changes them.
HistoryFrozen ==
  [][/\ \A i \in DOMAIN resv : resv[i].status \in {"CANCELLED", "EXPIRED"} => resv'[i] = resv[i]
     /\ \A j \in DOMAIN waits : waits[j].status # "WAITING" => waits'[j] = waits[j]]_vars

\* The closed form of the promotion gives the tables the loop of promote() and
\* promote_fill() gives: in every reachable state, and in those a transaction
\* goes through when one of the rows gives up its seat.
FillIsTheLoop ==
  \A s \in Slots, r \in {resv} \cup {WithoutRow(resv, i) : i \in {k \in DOMAIN resv : Live(resv[k])}} :
     PromoteFill(r, waits, accounts, s) = Loop(r, waits, accounts, s)
=============================================================================
