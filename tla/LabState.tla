---------------------------- MODULE LabState ----------------------------
(***************************************************************************)
(* The tables of the booking database, and the queries and statements the  *)
(* transactions of the server are built from.                              *)
(*                                                                         *)
(* A table whose rows are never deleted while the rules below look at them *)
(* (reservations, waitlist) is a sequence: the index of a row is its       *)
(* AUTOINCREMENT id.  The other tables are functions from the key to the   *)
(* row.  Every operator takes the rows it reads as arguments, so that a    *)
(* transaction can be written as successive states of the same tables.     *)
(***************************************************************************)
EXTENDS Naturals, Integers, Sequences, FiniteSets

CONSTANTS
  Users,            \* accounts
  Admins,           \* the accounts with role ADMIN
  Labs,             \* laboratories
  Slots,            \* published slots: one hour of one laboratory
  LabOf,            \* slot -> its laboratory
  Start,            \* slot -> start_at
  SlotLength,       \* end_at - start_at, the same for every slot
  \* the command line of the server
  Strategy,         \* --waitlist-strategy: "fifo" (executable), "strict" or "weighted"
  HoldWindow,       \* --hold-window, 0: a promoted waiter is confirmed at once
  CheckinWindow,    \* --checkin-window
  LeadTime,         \* --lead-time, 0: none
  QuotaWeekly,      \* --quota-weekly, 0: none
  WaitlistDailyLimit, \* --waitlist-daily-limit, 0: none
  \* the constants of service.h
  CreditBase,       \* CREDIT_BASE, the ceiling of a balance
  NoShowGrace,      \* NO_SHOW_GRACE, strikes that suspend booking
  PenaltyTime,      \* PENALTY_DAYS, how long a strike counts
  \* the calendar
  DayLength,
  WeekLength,
  Aging,            \* waiting time -> points of the weighted strategy
  \* bounds of the model
  MaxTime,          \* the clock stops here
  MaxCapacity,      \* largest capacity an administrator gives a slot
  MaxReservations,  \* rows of the reservations table
  MaxWaits          \* rows of the waitlist table

ASSUME UsersAssumption == IsFiniteSet(Users) /\ Admins \subseteq Users

ASSUME SlotsAssumption ==
  /\ LabOf \in [Slots -> Labs]
  /\ Start \in [Slots -> Nat]
  /\ SlotLength \in Nat \ {0}

ASSUME ConfigAssumption ==
  /\ Strategy \in {"fifo", "strict", "weighted"}
  /\ HoldWindow \in Nat
  /\ CheckinWindow \in Nat
  /\ LeadTime \in Nat
  /\ QuotaWeekly \in Nat
  /\ WaitlistDailyLimit \in Nat

ASSUME ServiceAssumption ==
  /\ CreditBase \in Nat \ {0}
  /\ NoShowGrace \in Nat \ {0}
  /\ PenaltyTime \in Nat
  /\ DayLength \in Nat \ {0}
  /\ WeekLength \in Nat \ {0}
  /\ MaxTime \in Nat
  /\ Aging \in [0..MaxTime -> Nat]

ASSUME BoundsAssumption ==
  /\ MaxCapacity \in Nat \ {0}
  /\ MaxReservations \in Nat
  /\ MaxWaits \in Nat

VARIABLES
  now,        \* the clock every transaction reads (clock_now)
  slots,      \* slot -> [capacity, open]: the columns capacity and enabled
  labs,       \* laboratory -> [open, approval]: enabled and require_approval
  accounts,   \* user -> [credit, toppedUp, enabled]
  resv,       \* the reservations table
  waits       \* the waitlist table

tables == <<slots, labs, accounts, resv, waits>>
vars == <<now, slots, labs, accounts, resv, waits>>
-----------------------------------------------------------------------------
(***************************************************************************)
(* Rows.                                                                   *)
(***************************************************************************)
ResvStatus == {"CONFIRMED", "PENDING", "HELD", "CANCELLED", "EXPIRED"}
Reasons == {"NONE", "USER", "ADMIN", "PREEMPTED", "REJECTED", "NO_SHOW"}
WaitStatus == {"WAITING", "WITHDRAWN", "PROMOTED", "SKIPPED"}

\* An absent hold_deadline is 0.  since is created_at; it is read of the rows
\* of source WAITLIST only and left 0 in the others.
Reservation ==
  [user: Users, slot: Slots, status: ResvStatus, source: {"DIRECT", "WAITLIST"},
   prio: Nat, since: Nat, deadline: Nat, checkedIn: BOOLEAN,
   checkedOut: BOOLEAN, reason: Reasons]

\* resv is promoted_reservation_id, 0 when it is NULL.
Wait ==
  [user: Users, slot: Slots, status: WaitStatus, prio: Nat, since: Nat, resv: Nat]

\* toppedUp: the ledger holds a WEEKLY row of the current week.
Account == [credit: 0..CreditBase, toppedUp: BOOLEAN, enabled: BOOLEAN]

RolePriority(u) == IF u \in Admins THEN 10 ELSE 0

Row(u, s, status, source, prio, since, deadline) ==
  [user |-> u, slot |-> s, status |-> status, source |-> source,
   prio |-> prio, since |-> since, deadline |-> deadline,
   checkedIn |-> FALSE, checkedOut |-> FALSE, reason |-> "NONE"]

DirectRow(u, s, status) == Row(u, s, status, "DIRECT", RolePriority(u), 0, 0)

Earlier(m, n) == IF m <= n THEN m ELSE n

\* The row a promotion inserts: its priority is the column default, whatever
\* the role of the waiter.
GrantedRow(u, s) ==
  IF HoldWindow > 0
  THEN Row(u, s, "HELD", "WAITLIST", 0, now, Earlier(now + HoldWindow, Start[s]))
  ELSE Row(u, s, "CONFIRMED", "WAITLIST", 0, now, 0)
-----------------------------------------------------------------------------
(***************************************************************************)
(* Queries.                                                                *)
(***************************************************************************)
End(s) == Start[s] + SlotLength
Overlaps(s, t) == Start[s] < End(t) /\ Start[t] < End(s)
Started(s) == Start[s] <= now
Open(s) == slots[s].open /\ labs[LabOf[s]].open
LeadOk(s) == LeadTime > 0 => Start[s] - now >= LeadTime

Live(row) == row.status \in {"CONFIRMED", "HELD"}
Seated(r, s) == {i \in DOMAIN r : r[i].slot = s /\ Live(r[i])}
Free(r, s) == slots[s].capacity - Cardinality(Seated(r, s))
ClashSameSlot(r, u, s) == \E i \in Seated(r, s) : r[i].user = u \* mutant of Clash
HoldsSeat(r, u, s) == \E i \in Seated(r, s) : r[i].user = u
Clash(r, u, s) ==
  \E i \in DOMAIN r : r[i].user = u /\ Live(r[i]) /\ Overlaps(s, r[i].slot)

Strikes(u) ==
  Cardinality({i \in DOMAIN resv : /\ resv[i].user = u
                                   /\ resv[i].reason = "NO_SHOW"
                                   /\ Start[resv[i].slot] >= now - PenaltyTime})
Penalised(u) == Strikes(u) >= NoShowGrace

DayStart == now - (now % DayLength)
WeekStart == now - (now % WeekLength)
BookedThisWeek(u) ==
  {i \in DOMAIN resv : /\ resv[i].user = u
                       /\ Live(resv[i])
                       /\ Start[resv[i].slot] >= WeekStart}
QuotaUsed(u) == QuotaWeekly > 0 /\ Cardinality(BookedThisWeek(u)) >= QuotaWeekly
JoinedToday(u) == {j \in DOMAIN waits : waits[j].user = u /\ waits[j].since >= DayStart}
DailyLimitReached(u) ==
  WaitlistDailyLimit > 0 /\ Cardinality(JoinedToday(u)) >= WaitlistDailyLimit

Waiting(w, s) == {j \in DOMAIN w : w[j].slot = s /\ w[j].status = "WAITING"}
NeverQueued(w, u, s) == FALSE \* mutant
Queued(w, u, s) == \E j \in Waiting(w, s) : w[j].user = u
-----------------------------------------------------------------------------
(***************************************************************************)
(* Credit.  a is the accounts table.                                       *)
(***************************************************************************)
Clamp(n) == IF n < 0 THEN 0 ELSE IF n > CreditBase THEN CreditBase ELSE n

CreditUnclamped(a, u, delta) == [a EXCEPT ![u].credit = a[u].credit + delta] \* mutant
CreditApply(a, u, delta) == [a EXCEPT ![u].credit = Clamp(a[u].credit + delta)]

\* A full balance leaves no ledger row, so the account can still be topped up
\* later in the same week.
WeeklyTopup(a, u) ==
  IF a[u].toppedUp \/ a[u].credit >= CreditBase THEN a
  ELSE [a EXCEPT ![u].credit = CreditBase, ![u].toppedUp = TRUE]
-----------------------------------------------------------------------------
(***************************************************************************)
(* Promotion.  The code promotes one waiter at a time until no seat is     *)
(* free or no waiter can take one.  A promotion changes what only the      *)
(* promoted user may do (a user waits at most once for a slot), so the     *)
(* waiters it serves are the first Free(r, s) of the queue that can attend.*)
(* PromoteFill says so in one expression; Loop is the loop of the code.    *)
(***************************************************************************)
Score(w, a, j) ==
  1000 * w[j].prio + 200 * (a[w[j].user].credit - 5) + Aging[now - w[j].since]

LastIn(w, j, k) == w[j].prio > w[k].prio \/ (w[j].prio = w[k].prio /\ j > k) \* mutant
RoleAhead(w, j, k) == w[j].prio > w[k].prio \/ (w[j].prio = w[k].prio /\ j < k)

\* j is scanned before k
Ahead(w, a, j, k) ==
  IF Strategy = "weighted"
  THEN \/ Score(w, a, j) > Score(w, a, k)
       \/ Score(w, a, j) = Score(w, a, k) /\ RoleAhead(w, j, k)
  ELSE RoleAhead(w, j, k)

\* the rows the first statement of promote() marks SKIPPED
Stale(w, a, s) == {j \in Waiting(w, s) : ~a[w[j].user].enabled}

SkipStale(w, a, s) ==
  [j \in DOMAIN w |->
     IF j \in Stale(w, a, s) THEN [w[j] EXCEPT !.status = "SKIPPED"] ELSE w[j]]

\* the rows the scan may choose; strict stops at the first one with a clash
Executable(r, w, a, s) ==
  LET candidates == Waiting(w, s) \ Stale(w, a, s)
      Clear(j) == ~Clash(r, w[j].user, s)
  IN {j \in candidates :
        /\ Clear(j)
        /\ Strategy = "strict" => \A k \in candidates : Ahead(w, a, k, j) => Clear(k)}

\* how many rows of queue are scanned before j
Rank(w, a, queue, j) == Cardinality({k \in queue : Ahead(w, a, k, j)})

ChosenOneMore(r, w, a, s) == \* mutant
  LET queue == Executable(r, w, a, s)
  IN {j \in queue : Rank(w, a, queue, j) <= Free(r, s)}
Chosen(r, w, a, s) ==
  LET queue == Executable(r, w, a, s)
  IN {j \in queue : Rank(w, a, queue, j) < Free(r, s)}

Unlinked(row, rid) == [row EXCEPT !.status = "PROMOTED"] \* mutant
Promoted(row, rid) == [row EXCEPT !.status = "PROMOTED", !.resv = rid]

\* the row of queue with n rows ahead of it
Nth(w, a, queue, n) == CHOOSE j \in queue : Rank(w, a, queue, j) = n

\* the tables after promote_fill(s)
PromoteFill(r, w, a, s) ==
  LET chosen == Chosen(r, w, a, s)
      seat(i) == w[Nth(w, a, chosen, i - Len(r) - 1)]
  IN IF Free(r, s) <= 0 THEN [resv |-> r, waits |-> w]
     ELSE [resv |-> [i \in 1..(Len(r) + Cardinality(chosen)) |->
                       IF i <= Len(r) THEN r[i]
                       ELSE GrantedRow(seat(i).user, s)],
           waits |-> [j \in 1..Len(w) |->
                        IF j \in chosen
                        THEN Promoted(w[j], Len(r) + 1 + Rank(w, a, chosen, j))
                        ELSE IF j \in Stale(w, a, s)
                        THEN [w[j] EXCEPT !.status = "SKIPPED"]
                        ELSE w[j]]]

\* the row promote() takes from the queue it scans, 0 if it takes none
Scan(r, w, a, s) ==
  LET queue == Waiting(w, s)
      size == Cardinality(queue)
      from[n \in 0..size] ==
        IF n = size THEN 0
        ELSE LET j == Nth(w, a, queue, n)
             IN IF ~Clash(r, w[j].user, s) THEN j
                ELSE IF Strategy = "strict" THEN 0 ELSE from[n + 1]
  IN from[0]

\* one round of promote_fill(s) on the tables t
Promote(t, a, s) ==
  LET w == SkipStale(t.waits, a, s)
      j == Scan(t.resv, w, a, s)
  IN IF Free(t.resv, s) <= 0 THEN t
     ELSE IF j = 0 THEN [resv |-> t.resv, waits |-> w]
     ELSE [resv |-> Append(t.resv, GrantedRow(w[j].user, s)),
           waits |-> [w EXCEPT ![j] = Promoted(w[j], Len(t.resv) + 1)]]

\* Each round but the last takes a waiter, and a round more changes nothing.
Loop(r, w, a, s) ==
  LET rounds == Cardinality(Waiting(w, s)) + 1
      after[n \in 0..rounds] ==
        IF n = 0 THEN [resv |-> r, waits |-> w] ELSE Promote(after[n - 1], a, s)
  IN after[rounds]
=============================================================================
