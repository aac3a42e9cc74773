-------------------------- MODULE BookingProofs --------------------------
(***************************************************************************)
(* The tables of Booking stay well formed, no slot is oversold, attended   *)
(* bookings stand and ended rows stay as they are: for every set of users  *)
(* and slots, every configuration of the server and every sequence of      *)
(* requests, batches and approvals included.                               *)
(*                                                                         *)
(* A transaction is followed through its successive states of the tables.  *)
(* Good says what holds of each of them, and one lemma per kind of         *)
(* statement that it keeps Good.  The half of Good about capacity compares  *)
(* with the beginning: a slot may have more seats taken than it has only if *)
(* it had as many then.  So the lemmas serve where another thread oversells *)
(* one (Sweeper).                                                          *)
(*                                                                         *)
(* The second part is about the rows that are there already.               *)
(* AttendanceStands is not inductive: a cancellation or a move does not    *)
(* look at the attendance, it only asks that the slot has not started.     *)
(* The invariant adds why that is enough: who is checked in has a slot     *)
(* that has started.  Grown compares two states of the reservations table  *)
(* and is transitive; Kept compares the waitlist before and after a        *)
(* transaction, and reads the seats of the promoted waiters in the         *)
(* reservations it ends with.                                              *)
(***************************************************************************)
EXTENDS Booking, LabStateProofs

\* what holds of the tables of a transaction on the way: it has left no slot
\* oversold, or not more than when it began
Good(r, w, a) ==
  /\ Typed(r, w, a)
  /\ \A s \in Slots : Free(r, s) >= 0 \/ Free(r, s) >= Free(resv, s)

\* what holds of a step
NoFuller == \A s \in Slots : Free(resv, s)' >= 0 \/ Free(resv, s)' >= Free(resv, s)
Sound == TypeOK' /\ NoFuller

IInv == TypeOK /\ SeatsWithinCapacity

\* How many seats are free is a number; it is below zero in an oversold slot.
LEMMA FreeInt ==
  ASSUME NEW r \in Seq(Reservation), NEW s \in Slots,
         slots \in [Slots -> [capacity: 1..MaxCapacity, open: BOOLEAN]]
  PROVE  Free(r, s) \in Int
<1>1. slots[s].capacity \in Int /\ Cardinality(Seated(r, s)) \in Int
  BY SeatedFinite, BoundsAssumption
<1> QED
  BY <1>1 DEF Free

LEMMA CapacityFree ==
  ASSUME TypeOK
  PROVE  SeatsWithinCapacity <=> \A s \in Slots : Free(resv, s) >= 0
<1>1. ASSUME NEW s \in Slots
      PROVE  Cardinality(Seated(resv, s)) <= slots[s].capacity <=> Free(resv, s) >= 0
  <2>1. slots[s].capacity \in Int /\ Cardinality(Seated(resv, s)) \in Int
    BY SeatedFinite, BoundsAssumption DEF TypeOK
  <2> QED
    BY <2>1 DEF Free
<1> QED
  BY <1>1 DEF SeatsWithinCapacity

\* The committed tables satisfy what a transaction builds on.
LEMMA GoodNow ==
  ASSUME TypeOK
  PROVE  Good(resv, waits, accounts)
<1>1. \A s \in Slots : Free(resv, s) \in Int
  BY FreeInt DEF TypeOK
<1> QED
  BY <1>1 DEF TypeOK, Good, Typed

\* Committing Good tables is sound.
LEMMA GoodCommit ==
  ASSUME TypeOK, NEW r, NEW w, NEW a, Good(r, w, a), Commit(r, w, a)
  PROVE  Sound
<1>1. /\ resv' = r /\ waits' = w /\ accounts' = a
      /\ now' = now /\ slots' = slots /\ labs' = labs
  BY DEF Commit
<1>2. TypeOK'
  BY <1>1 DEF TypeOK, Good, Typed
<1>3. \A s \in Slots : Free(resv, s)' = Free(r, s)
  BY <1>1 DEF Free, Seated
<1> QED
  BY <1>2, <1>3 DEF Good, Sound, NoFuller

\* PromoteFill keeps the tables Good.
LEMMA GoodFill ==
  ASSUME NEW r, NEW w, NEW a, NEW s \in Slots, Good(r, w, a)
  PROVE  Good(PromoteFill(r, w, a, s).resv, PromoteFill(r, w, a, s).waits, a)
<1> DEFINE t == PromoteFill(r, w, a, s)
<1>1. Typed(r, w, a)
  BY DEF Good
<1>2. Extends(t, r, w, s)
  BY <1>1, FillType
<1>3. /\ \A p \in Slots : p # s => Seated(t.resv, p) = Seated(r, p)
      /\ Free(r, s) > 0 => Cardinality(Seated(t.resv, s)) <= slots[s].capacity
      /\ Free(r, s) <= 0 => t.resv = r
  BY <1>1, FillSeats
<1> HIDE DEF t
<1>4. Typed(t.resv, t.waits, a)
  BY <1>1, <1>2 DEF Typed, Extends
<1>5. ASSUME NEW p \in Slots
      PROVE  Free(t.resv, p) >= 0 \/ Free(t.resv, p) >= Free(resv, p)
  <2>1. Free(r, p) >= 0 \/ Free(r, p) >= Free(resv, p)
    BY DEF Good
  <2>2. CASE p # s
    BY <1>3, <2>1, <2>2 DEF Free
  <2>3. CASE p = s /\ Free(r, s) <= 0
    BY <1>3, <2>1, <2>3
  <2>4. CASE p = s /\ ~(Free(r, s) <= 0)
    <3>1. Free(r, s) \in Int
      BY <1>1, FreeInt DEF Typed
    <3>2. Cardinality(Seated(t.resv, s)) \in Int /\ slots[s].capacity \in Int
      BY <1>1, <1>4, SeatedFinite, BoundsAssumption DEF Typed
    <3> QED
      BY <1>3, <2>4, <3>1, <3>2 DEF Free
  <2> QED
    BY <2>2, <2>3, <2>4
<1> QED
  BY <1>4, <1>5 DEF Good, t

\* At most one seat more in each slot that has a free one, and none in the
\* others, keeps the tables Good.
LEMMA GoodSeats ==
  ASSUME TypeOK, NEW r, NEW w, NEW a, Good(r, w, a), NEW q \in Seq(Reservation),
         \A s \in Slots : \/ Seated(q, s) \subseteq Seated(r, s)
                          \/ /\ Free(r, s) > 0
                             /\ \E n : Seated(q, s) \subseteq Seated(r, s) \cup {n}
  PROVE  Good(q, w, a)
<1>1. r \in Seq(Reservation)
  BY DEF Good, Typed
<1>2. ASSUME NEW s \in Slots
      PROVE  Free(q, s) >= 0 \/ Free(q, s) >= Free(resv, s)
  <2>1. /\ IsFiniteSet(Seated(r, s)) /\ Cardinality(Seated(r, s)) \in Nat
        /\ IsFiniteSet(Seated(q, s)) /\ Cardinality(Seated(q, s)) \in Nat
    BY <1>1, SeatedFinite
  <2>2. slots[s].capacity \in Nat
    BY BoundsAssumption DEF Good, Typed
  <2>3. CASE Seated(q, s) \subseteq Seated(r, s)
    <3>1. Cardinality(Seated(q, s)) <= Cardinality(Seated(r, s))
      BY <2>1, <2>3, FS_Subset
    <3>2. /\ Free(r, s) \in Int /\ Free(q, s) \in Int
          /\ Free(q, s) >= Free(r, s)
      BY <2>1, <2>2, <3>1 DEF Free
    <3>3. Free(r, s) >= 0 \/ Free(r, s) >= Free(resv, s)
      BY DEF Good
    <3>4. CASE Free(r, s) >= 0
      BY <3>2, <3>4
    <3>5. CASE ~(Free(r, s) >= 0)
      <4>1. Free(resv, s) \in Int
        BY FreeInt DEF TypeOK
      <4> QED
        BY <3>2, <3>3, <3>5, <4>1
    <3> QED
      BY <3>4, <3>5
  <2>4. ASSUME Free(r, s) > 0, NEW n, Seated(q, s) \subseteq Seated(r, s) \cup {n}
        PROVE  Free(q, s) >= 0
    <3> DEFINE more == Seated(r, s) \cup {n}
    <3>1. /\ IsFiniteSet(more)
          /\ Cardinality(more) = IF n \in Seated(r, s) THEN Cardinality(Seated(r, s))
                                 ELSE Cardinality(Seated(r, s)) + 1
      BY <2>1, FS_AddElement
    <3>2. Cardinality(Seated(q, s)) <= Cardinality(more)
      BY <2>4, <3>1, FS_Subset
    <3>3. Cardinality(Seated(r, s)) < slots[s].capacity
      BY <2>1, <2>2, <2>4 DEF Free
    <3> HIDE DEF more
    <3>4. Cardinality(Seated(q, s)) <= slots[s].capacity
      BY <2>1, <2>2, <3>1, <3>2, <3>3
    <3> QED
      BY <2>1, <2>2, <3>4 DEF Free
  <2> QED
    BY <2>3, <2>4
<1>3. Typed(q, w, a)
  BY DEF Good, Typed
<1> QED
  BY <1>2, <1>3 DEF Good

\* Replacing one row keeps the tables Good, if it takes no seat the row did not
\* have or takes a free one.
LEMMA GoodRow ==
  ASSUME TypeOK, NEW r, NEW w, NEW a, Good(r, w, a),
         NEW i \in DOMAIN r, NEW row \in Reservation,
         Live(row) => \/ Live(r[i]) /\ row.slot = r[i].slot
                      \/ Free(r, row.slot) > 0
  PROVE  Good([r EXCEPT ![i] = row], w, a)
<1> DEFINE q == [r EXCEPT ![i] = row]
<1>1. r \in Seq(Reservation) /\ DOMAIN r = 1..Len(r)
  BY LenProperties DEF Good, Typed
<1>2. /\ q \in Seq(Reservation) /\ Len(q) = Len(r)
      /\ \A k \in 1..Len(r) : q[k] = IF k = i THEN row ELSE r[k]
  BY <1>1, ExceptSeq
<1>3. DOMAIN q = DOMAIN r
  BY <1>1
<1> HIDE DEF q
<1>4. ASSUME NEW s \in Slots
      PROVE  \/ Seated(q, s) \subseteq Seated(r, s)
             \/ /\ Free(r, s) > 0
                /\ \E n : Seated(q, s) \subseteq Seated(r, s) \cup {n}
  <2>1. Seated(q, s) \subseteq Seated(r, s) \cup {i}
    BY <1>1, <1>2, <1>3 DEF Seated
  <2>2. CASE Free(r, s) > 0
    BY <2>1, <2>2
  <2>3. CASE ~(Free(r, s) > 0)
    <3>1. i \in Seated(q, s) => i \in Seated(r, s)
      BY <1>1, <1>2, <1>3, <2>3 DEF Seated
    <3> QED
      BY <2>1, <3>1
  <2> QED
    BY <2>2, <2>3
<1>5. Good(q, w, a)
  BY <1>2, <1>4, GoodSeats
<1> QED
  BY <1>5 DEF q

\* So does a new row that takes no seat or a free one.
LEMMA GoodAppend ==
  ASSUME TypeOK, NEW r, NEW w, NEW a, Good(r, w, a), NEW row \in Reservation,
         Live(row) => Free(r, row.slot) > 0
  PROVE  Good(Append(r, row), w, a)
<1> DEFINE q == Append(r, row)
<1>1. r \in Seq(Reservation) /\ DOMAIN r = 1..Len(r) /\ Len(r) \in Nat
  BY LenProperties DEF Good, Typed
<1>2. /\ q \in Seq(Reservation) /\ Len(q) = Len(r) + 1
      /\ \A k \in 1..Len(r) : q[k] = r[k]
      /\ q[Len(r) + 1] = row
  BY <1>1, AppendProperties
<1>3. DOMAIN q = 1..(Len(r) + 1)
  BY <1>2, LenProperties
<1> HIDE DEF q
<1>4. ASSUME NEW s \in Slots
      PROVE  \/ Seated(q, s) \subseteq Seated(r, s)
             \/ /\ Free(r, s) > 0
                /\ \E n : Seated(q, s) \subseteq Seated(r, s) \cup {n}
  <2>1. Seated(q, s) \subseteq Seated(r, s) \cup {Len(r) + 1}
    BY <1>1, <1>2, <1>3 DEF Seated
  <2>2. CASE Free(r, s) > 0
    BY <2>1, <2>2
  <2>3. CASE ~(Free(r, s) > 0)
    <3>1. Len(r) + 1 \notin Seated(q, s)
      BY <1>1, <1>2, <1>3, <2>3 DEF Seated
    <3> QED
      BY <2>1, <3>1
  <2> QED
    BY <2>2, <2>3
<1>5. Good(q, w, a)
  BY <1>2, <1>4, GoodSeats
<1> QED
  BY <1>5 DEF q

\* Nor do the balances of a transaction matter to the seats.
LEMMA GoodAccounts ==
  ASSUME NEW r, NEW w, NEW a, Good(r, w, a), NEW b \in [Users -> Account]
  PROVE  Good(r, w, b)
BY DEF Good, Typed

\* The rows of the waitlist hold no seat.
LEMMA GoodWaits ==
  ASSUME NEW r, NEW w, NEW a, Good(r, w, a),
         NEW q \in Seq(Wait), \A j \in DOMAIN q : q[j].since <= now
  PROVE  Good(r, q, a)
BY DEF Good, Typed

\* The clamp keeps a balance within the CHECK constraint of its column.
LEMMA CreditType ==
  ASSUME NEW a \in [Users -> Account], NEW u \in Users, NEW delta \in Int
  PROVE  /\ CreditApply(a, u, delta) \in [Users -> Account]
         /\ WeeklyTopup(a, u) \in [Users -> Account]
<1>1. a[u] \in Account /\ a[u].credit \in Int
  BY ServiceAssumption DEF Account
<1>2. Clamp(a[u].credit + delta) \in 0..CreditBase
  BY <1>1, ServiceAssumption DEF Clamp
<1>3. CreditApply(a, u, delta) \in [Users -> Account]
  BY <1>2 DEF CreditApply, Account
<1>4. CreditBase \in 0..CreditBase
  BY ServiceAssumption
<1>5. WeeklyTopup(a, u) \in [Users -> Account]
  BY <1>4 DEF WeeklyTopup, Account
<1> QED
  BY <1>3, <1>5

\* The first step of most requests.
LEMMA TopupType ==
  ASSUME TypeOK, NEW u \in Users
  PROVE  accounts \in [Users -> Account] /\ WeeklyTopup(accounts, u) \in [Users -> Account]
<1>1. accounts \in [Users -> Account] /\ 0 \in Int
  BY DEF TypeOK
<1> QED
  BY <1>1, CreditType
-----------------------------------------------------------------------------
\* The rows the tables hold are reservations of users for slots.
LEMMA ResvRow ==
  ASSUME TypeOK, NEW i \in DOMAIN resv
  PROVE  /\ resv[i] \in Reservation
         /\ resv[i].user \in Users /\ resv[i].slot \in Slots
<1>1. resv \in Seq(Reservation) /\ DOMAIN resv = 1..Len(resv)
  BY LenProperties DEF TypeOK
<1>2. resv[i] \in Reservation
  BY <1>1, ElementOfSeq
<1> QED
  BY <1>2 DEF Reservation

\* A row that leaves its seat keeps the tables Good.
LEMMA LeaveGood ==
  ASSUME TypeOK, NEW i \in DOMAIN resv, NEW why \in Reasons
  PROVE  /\ Good(Evict(resv, i), waits, accounts)
         /\ Good(Cancelled(resv, i, why), waits, accounts)
         /\ Good([resv EXCEPT ![i].status = "CANCELLED", ![i].reason = why], waits, accounts)
<1>1. Good(resv, waits, accounts)
  BY GoodNow
<1>2. resv[i] \in Reservation
  BY ResvRow
<1> DEFINE evicted == [resv[i] EXCEPT !.status = "CANCELLED", !.reason = "PREEMPTED"]
           cancelled == [resv[i] EXCEPT !.status = "CANCELLED", !.reason = why, !.deadline = 0]
           rejected == [resv[i] EXCEPT !.status = "CANCELLED", !.reason = why]
<1>3. /\ evicted \in Reservation /\ ~Live(evicted)
      /\ cancelled \in Reservation /\ ~Live(cancelled)
      /\ rejected \in Reservation /\ ~Live(rejected)
  BY <1>2 DEF Reservation, ResvStatus, Reasons, Live
<1>4. Evict(resv, i) = [resv EXCEPT ![i] = evicted]
  BY DEF Evict
<1>5. Cancelled(resv, i, why) = [resv EXCEPT ![i] = cancelled]
  BY DEF Cancelled
<1>6. [resv EXCEPT ![i].status = "CANCELLED", ![i].reason = why] = [resv EXCEPT ![i] = rejected]
  OBVIOUS
<1> HIDE DEF evicted, cancelled, rejected
<1>7. ASSUME NEW row \in Reservation, ~Live(row)
      PROVE  Good([resv EXCEPT ![i] = row], waits, accounts)
  BY <1>1, <1>7, GoodRow
<1>8. Good(Evict(resv, i), waits, accounts)
  BY <1>3, <1>4, <1>7
<1>9. Good(Cancelled(resv, i, why), waits, accounts)
  BY <1>3, <1>5, <1>7
<1>10. Good([resv EXCEPT ![i] = rejected], waits, accounts)
  BY <1>3, <1>7
<1> QED
  BY <1>6, <1>8, <1>9, <1>10

\* A direct row is well formed.
LEMMA DirectType ==
  ASSUME NEW u \in Users, NEW s \in Slots, NEW status \in ResvStatus
  PROVE  /\ DirectRow(u, s, status) \in Reservation
         /\ DirectRow(u, s, status).slot = s
BY DEF DirectRow, Row, Reservation, Reasons, RolePriority

\* Admit and TakeOver are sound.
LEMMA AdmitKeeps ==
  ASSUME TypeOK, NEW u \in Users, NEW s \in Slots, NEW r, NEW a,
         Good(r, waits, a), Admit(u, s, r, a)
  PROVE  Sound
<1> DEFINE t == PromoteFill(r, waits, a, s)
           status == IF labs[LabOf[s]].approval THEN "PENDING" ELSE "CONFIRMED"
           row == DirectRow(u, s, status)
<1>1. Good(t.resv, t.waits, a)
  BY GoodFill
<1>2. CASE HoldsSeat(t.resv, u, s) \/ Free(t.resv, s) <= 0
  <2>1. Commit(t.resv, t.waits, a)
    BY <1>2 DEF Admit, CommitFill
  <2> QED
    BY <1>1, <2>1, GoodCommit
<1>3. CASE ~(HoldsSeat(t.resv, u, s) \/ Free(t.resv, s) <= 0)
  <2>1. Commit(Append(t.resv, row), t.waits, a)
    BY <1>3 DEF Admit
  <2>2. row \in Reservation /\ row.slot = s
    <3>1. status \in ResvStatus
      BY DEF ResvStatus
    <3> QED
      BY <3>1, DirectType
  <2>3. Free(t.resv, s) > 0
    <3>1. t.resv \in Seq(Reservation) /\ slots[s].capacity \in Nat
      BY <1>1, BoundsAssumption DEF Good, Typed
    <3>2. Free(t.resv, s) \in Int
      BY <3>1, SeatedFinite DEF Free
    <3> QED
      BY <1>3, <3>2
  <2> HIDE DEF t, row
  <2>4. Good(Append(t.resv, row), t.waits, a)
    BY <1>1, <2>2, <2>3, GoodAppend
  <2> QED
    BY <2>1, <2>4, GoodCommit
<1> QED
  BY <1>2, <1>3

\* So does taking over a seat: the eviction frees the seat the request gets.
LEMMA TakeOverKeeps ==
  ASSUME TypeOK, NEW u \in Users, NEW s \in Slots, NEW v \in DOMAIN resv,
         NEW a \in [Users -> Account], TakeOver(u, s, v, a)
  PROVE  Sound
<1> DEFINE r == Evict(resv, v)
           b == CreditApply(a, resv[v].user, 1)
<1>1. b \in [Users -> Account]
  BY ResvRow, CreditType
<1>2. Good(r, waits, accounts)
  BY LeaveGood DEF Reasons
<1>3. Good(r, waits, b)
  BY <1>1, <1>2, GoodAccounts
<1>4. CASE Free(r, s) <= 0
  BY <1>3, <1>4, GoodCommit DEF TakeOver
<1>5. CASE ~(Free(r, s) <= 0)
  BY <1>3, <1>5, AdmitKeeps DEF TakeOver
<1> QED
  BY <1>4, <1>5

\* A reserve request is sound, refused or granted.
LEMMA ReserveKeeps ==
  ASSUME TypeOK, NEW u \in Users, NEW s \in Slots, Reserve(u, s)
  PROVE  Sound
<1> DEFINE a == WeeklyTopup(accounts, u)
<1>1. a \in [Users -> Account]
  BY TopupType
<1>2. Good(resv, waits, a)
  BY <1>1, GoodNow, GoodAccounts
<1>3. CASE Commit(resv, waits, a)
  BY <1>2, <1>3, GoodCommit
<1>4. CASE Admit(u, s, resv, a)
  BY <1>2, <1>4, AdmitKeeps
<1>5. CASE \E v \in Victim(u, s) : TakeOver(u, s, v, a)
  <2>1. Victim(u, s) \subseteq DOMAIN resv
    BY DEF Victim, Evictable, Seated
  <2> QED
    BY <1>1, <1>5, <2>1, TakeOverKeeps
<1> QED
  BY <1>3, <1>4, <1>5 DEF Reserve

\* Joining a waitlist is sound: the new row is from the present.
LEMMA JoinKeeps ==
  ASSUME TypeOK, NEW u \in Users, NEW s \in Slots, Join(u, s)
  PROVE  Sound
<1> DEFINE a == WeeklyTopup(accounts, u)
           row == WaitRow(u, s)
           q == Append(waits, row)
<1>1. a \in [Users -> Account]
  BY TopupType
<1>2. Good(resv, waits, a)
  BY <1>1, GoodNow, GoodAccounts
<1>3. CASE Commit(resv, waits, a)
  BY <1>2, <1>3, GoodCommit
<1>4. CASE Commit(resv, q, a)
  <2>1. now \in Nat /\ waits \in Seq(Wait) /\ \A j \in DOMAIN waits : waits[j].since <= now
    BY ServiceAssumption DEF TypeOK
  <2>2. row \in Wait /\ row.since = now
    BY <2>1 DEF WaitRow, Wait, WaitStatus, RolePriority
  <2> HIDE DEF row
  <2>3. /\ q \in Seq(Wait) /\ Len(q) = Len(waits) + 1 /\ Len(waits) \in Nat
        /\ DOMAIN waits = 1..Len(waits) /\ DOMAIN q = 1..Len(q)
        /\ \A j \in 1..Len(waits) : q[j] = waits[j]
        /\ q[Len(waits) + 1] = row
    BY <2>1, <2>2, AppendProperties, LenProperties
  <2> HIDE DEF q
  <2>4. \A j \in DOMAIN q : q[j].since <= now
    BY <2>1, <2>2, <2>3
  <2>5. Good(resv, q, a)
    BY <1>2, <2>3, <2>4, GoodWaits
  <2> QED
    BY <1>4, <2>5, GoodCommit
<1> QED
  BY <1>3, <1>4 DEF Join

\* Fill after a change of the reservations
LEMMA FillKeeps ==
  ASSUME TypeOK, NEW r, NEW w, NEW a, NEW s \in Slots, Good(r, w, a),
         CommitFill(PromoteFill(r, w, a, s), a)
  PROVE  Sound
BY GoodFill, GoodCommit DEF CommitFill

\* A cancellation, by the user or forced, frees a seat and refills the slot.
LEMMA CancelKeeps ==
  ASSUME TypeOK, NEW i \in DOMAIN resv, Cancel(i) \/ Reject(i) \/ ForceCancel(i)
  PROVE  Sound
<1>1. resv[i].slot \in Slots
  BY ResvRow
<1>2. CASE Cancel(i)
  <2>1. Good(Cancelled(resv, i, "USER"), waits, accounts)
    BY LeaveGood DEF Reasons
  <2> QED
    BY <1>1, <1>2, <2>1, FillKeeps, GoodCommit DEF Cancel
<1>3. CASE Reject(i)
  <2>1. Good([resv EXCEPT ![i].status = "CANCELLED", ![i].reason = "REJECTED"], waits, accounts)
    BY LeaveGood DEF Reasons
  <2> QED
    BY <1>3, <2>1, GoodCommit DEF Reject
<1>4. CASE ForceCancel(i)
  <2>1. Good(Cancelled(resv, i, "ADMIN"), waits, accounts)
    BY LeaveGood DEF Reasons
  <2> QED
    BY <1>1, <1>4, <2>1, FillKeeps DEF ForceCancel
<1> QED
  BY <1>2, <1>3, <1>4

\* Withdrawing from a waitlist is sound.
LEMMA WithdrawKeeps ==
  ASSUME TypeOK, NEW j \in DOMAIN waits, Withdraw(j)
  PROVE  Sound
<1> DEFINE q == [waits EXCEPT ![j].status = "WITHDRAWN"]
           row == [waits[j] EXCEPT !.status = "WITHDRAWN"]
<1>1. /\ waits \in Seq(Wait) /\ DOMAIN waits = 1..Len(waits)
      /\ \A k \in DOMAIN waits : waits[k].since <= now
  BY LenProperties DEF TypeOK
<1>2. waits[j] \in Wait
  BY <1>1, ElementOfSeq
<1>3. row \in Wait /\ row.since = waits[j].since
  BY <1>2 DEF Wait, WaitStatus
<1>4. q = [waits EXCEPT ![j] = row]
  OBVIOUS
<1> HIDE DEF row, q
<1>5. /\ q \in Seq(Wait) /\ DOMAIN q = DOMAIN waits
      /\ \A k \in DOMAIN waits : q[k] = IF k = j THEN row ELSE waits[k]
  BY <1>1, <1>3, <1>4, ExceptSeq
<1>6. \A k \in DOMAIN q : q[k].since <= now
  BY <1>1, <1>3, <1>5
<1>7. Good(resv, q, accounts)
  BY <1>5, <1>6, GoodNow, GoodWaits
<1> QED
  BY <1>7, GoodCommit DEF Withdraw, q

\* Attendance and confirmation change a row without giving it a seat.
LEMMA AttendKeeps ==
  ASSUME TypeOK, NEW i \in DOMAIN resv,
         CheckIn(i) \/ Checkout(i) \/ Confirm(i) \/ ForceComplete(i)
  PROVE  Sound
<1> DEFINE in == [resv[i] EXCEPT !.checkedIn = TRUE]
           out == [resv[i] EXCEPT !.checkedOut = TRUE]
           confirmed == [resv[i] EXCEPT !.status = "CONFIRMED", !.deadline = 0]
<1>1. resv[i] \in Reservation /\ resv[i].user \in Users
  BY ResvRow
<1>2. /\ in \in Reservation /\ in.slot = resv[i].slot /\ in.status = resv[i].status
      /\ out \in Reservation /\ out.slot = resv[i].slot /\ out.status = resv[i].status
      /\ confirmed \in Reservation /\ confirmed.slot = resv[i].slot
  BY <1>1 DEF Reservation, ResvStatus
<1>3. ASSUME NEW row \in Reservation, row.slot = resv[i].slot, Live(row) => Live(resv[i])
      PROVE  Good([resv EXCEPT ![i] = row], waits, accounts)
  BY <1>3, GoodNow, GoodRow
<1>4. CASE CheckIn(i)
  <2> DEFINE b == CreditApply(accounts, resv[i].user, 1)
  <2>1. Good([resv EXCEPT ![i] = in], waits, accounts)
    BY <1>2, <1>3 DEF Live
  <2>2. b \in [Users -> Account]
    BY <1>1, CreditType DEF TypeOK
  <2>3. Good([resv EXCEPT ![i] = in], waits, b)
    BY <2>1, <2>2, GoodAccounts
  <2>4. Commit([resv EXCEPT ![i] = in], waits, b)
    BY <1>4 DEF CheckIn
  <2> QED
    BY <2>3, <2>4, GoodCommit
<1>5. CASE Checkout(i) \/ ForceComplete(i)
  <2>1. Good([resv EXCEPT ![i] = out], waits, accounts)
    BY <1>2, <1>3 DEF Live
  <2>2. Commit([resv EXCEPT ![i] = out], waits, accounts)
    BY <1>5 DEF Checkout, ForceComplete
  <2> QED
    BY <2>1, <2>2, GoodCommit
<1>6. CASE Confirm(i)
  <2>1. Live(resv[i])
    BY <1>6 DEF Confirm, Live
  <2>2. Good([resv EXCEPT ![i] = confirmed], waits, accounts)
    BY <1>2, <1>3, <2>1
  <2>3. Commit([resv EXCEPT ![i] = confirmed], waits, accounts)
    BY <1>6 DEF Confirm
  <2> QED
    BY <2>2, <2>3, GoodCommit
<1> QED
  BY <1>4, <1>5, <1>6

\* An approval takes a free seat, a rejection takes none.
LEMMA ApproveKeeps ==
  ASSUME TypeOK, NEW i \in DOMAIN resv, Approve(i)
  PROVE  Sound
<1> DEFINE row == [resv[i] EXCEPT !.status = "CONFIRMED"]
<1>1. resv[i] \in Reservation
  BY ResvRow
<1>2. row \in Reservation /\ row.slot = resv[i].slot
  BY <1>1 DEF Reservation, ResvStatus
<1>3. Free(resv, row.slot) > 0
  BY <1>2 DEF Approve
<1>4. Commit([resv EXCEPT ![i] = row], waits, accounts)
  BY DEF Approve
<1> HIDE DEF row
<1>5. Good([resv EXCEPT ![i] = row], waits, accounts)
  BY <1>2, <1>3, GoodNow, GoodRow
<1> QED
  BY <1>4, <1>5, GoodCommit

\* Moving a booking: the seat counted without the row is free for it.
LEMMA RescheduleKeeps ==
  ASSUME TypeOK, NEW i \in DOMAIN resv, NEW t \in Slots, Reschedule(i, t)
  PROVE  Sound
<1> DEFINE row == [resv[i] EXCEPT !.slot = t]
<1>1. resv[i] \in Reservation /\ resv[i].slot \in Slots
  BY ResvRow
<1>2. row \in Reservation /\ row.slot = t
  BY <1>1 DEF Reservation
<1>3. Seated(WithoutRow(resv, i), t) = Seated(resv, t)
  <2>1. resv \in Seq(Reservation) /\ resv[i].slot # t
    BY DEF TypeOK, Reschedule
  <2>2. \A k \in DOMAIN resv :
           /\ WithoutRow(resv, i)[k].slot = resv[k].slot
           /\ k # i => WithoutRow(resv, i)[k] = resv[k]
    BY <2>1, ElementOfSeq DEF WithoutRow, Reservation
  <2>3. DOMAIN WithoutRow(resv, i) = DOMAIN resv
    BY DEF WithoutRow
  <2> QED
    BY <2>1, <2>2, <2>3 DEF Seated
<1>4. Free(resv, row.slot) > 0
  BY <1>2, <1>3 DEF Reschedule, Free
<1>5. CommitFill(PromoteFill([resv EXCEPT ![i] = row], waits, accounts, resv[i].slot), accounts)
  BY DEF Reschedule
<1> HIDE DEF row
<1>6. Good([resv EXCEPT ![i] = row], waits, accounts)
  BY <1>2, <1>4, GoodNow, GoodRow
<1> QED
  BY <1>1, <1>5, <1>6, FillKeeps

\* The slots of a batch are different ones.
LEMMA RunsDistinct ==
  ASSUME NEW b \in Runs
  PROVE  /\ b \in Seq(Slots) /\ DOMAIN b = 1..Len(b) /\ Len(b) \in Nat
         /\ \A j, k \in DOMAIN b : b[j] = b[k] => j = k
<1>1. PICK n \in 1..MaxBatch : b \in [1..n -> Slots]
  BY DEF Runs
<1>2. n \in Nat
  BY <1>1, InitialAssumption
<1>3. b \in Seq(Slots) /\ Len(b) = n /\ DOMAIN b = 1..n
  BY <1>1, <1>2
<1>4. ASSUME NEW j \in DOMAIN b, NEW k \in DOMAIN b, b[j] = b[k]
      PROVE  j = k
  <2>1. Start[b[k]] - Start[b[j]] = (k - j) * SlotLength
    BY DEF Runs
  <2>2. Start[b[k]] \in Nat /\ j \in Int /\ k \in Int /\ SlotLength \in Nat \ {0}
    BY <1>1, <1>2, SlotsAssumption
  <2>3. (k - j) * SlotLength = 0
    BY <1>4, <2>1, <2>2
  <2>4. \A x \in Int : x * SlotLength = 0 => x = 0
    BY <2>2
  <2>5. k - j = 0
    BY <2>2, <2>3, <2>4
  <2> QED
    BY <2>2, <2>5
<1> QED
  BY <1>2, <1>3, <1>4

\* A batch takes one free seat in each of its slots.
LEMMA BatchKeeps ==
  ASSUME TypeOK, NEW u \in Users, NEW b \in Runs, Batch(u, b)
  PROVE  Sound
<1> DEFINE a == WeeklyTopup(accounts, u)
           new == [k \in DOMAIN b |-> DirectRow(u, b[k], "CONFIRMED")]
           q == resv \o new
<1>1. /\ b \in Seq(Slots) /\ DOMAIN b = 1..Len(b) /\ Len(b) \in Nat
      /\ \A j, k \in DOMAIN b : b[j] = b[k] => j = k
  BY RunsDistinct
<1>2. resv \in Seq(Reservation) /\ Len(resv) \in Nat /\ DOMAIN resv = 1..Len(resv)
  BY LenProperties DEF TypeOK
<1>3. \A k \in 1..Len(b) : new[k] \in Reservation /\ new[k].slot = b[k]
  <2>1. ASSUME NEW k \in 1..Len(b) PROVE b[k] \in Slots
    BY <1>1, ElementOfSeq
  <2>2. "CONFIRMED" \in ResvStatus
    BY DEF ResvStatus
  <2> QED
    BY <1>1, <2>1, <2>2, DirectType
<1>4. DOMAIN new = 1..Len(b)
  BY <1>1
<1>5. new \in Seq(Reservation) /\ Len(new) = Len(b)
  <2>1. new = [k \in 1..Len(b) |-> new[k]]
    BY <1>1
  <2> HIDE DEF new
  <2> QED
    BY <1>1, <1>3, <2>1
<1> HIDE DEF new
<1>6. /\ q \in Seq(Reservation) /\ Len(q) = Len(resv) + Len(b)
      /\ \A i \in 1..Len(q) : q[i] = IF i <= Len(resv) THEN resv[i] ELSE new[i - Len(resv)]
  <2>1. /\ resv \o new \in Seq(Reservation)
        /\ Len(resv \o new) = Len(resv) + Len(new)
        /\ \A i \in 1..Len(resv) + Len(new) :
             (resv \o new)[i] = IF i <= Len(resv) THEN resv[i] ELSE new[i - Len(resv)]
    BY <1>2, <1>5, ConcatProperties
  <2> QED
    BY <1>5, <2>1
<1>7. DOMAIN q = 1..(Len(resv) + Len(b))
  BY <1>6, LenProperties
<1> HIDE DEF q
<1>8. ASSUME NEW s \in Slots
      PROVE  \/ Seated(q, s) \subseteq Seated(resv, s)
             \/ /\ Free(resv, s) > 0
                /\ \E n : Seated(q, s) \subseteq Seated(resv, s) \cup {n}
  <2>1. ASSUME NEW i \in Seated(q, s), i \notin Seated(resv, s)
        PROVE  i - Len(resv) \in 1..Len(b) /\ b[i - Len(resv)] = s /\ i \in Int
    <3>1. i \in 1..(Len(resv) + Len(b)) /\ q[i].slot = s /\ Live(q[i])
      BY <1>7 DEF Seated
    <3>2. ~(i <= Len(resv))
      BY <1>1, <1>2, <1>6, <2>1, <3>1 DEF Seated
    <3>3. i - Len(resv) \in 1..Len(b)
      BY <1>1, <1>2, <3>1, <3>2
    <3>4. q[i] = new[i - Len(resv)]
      BY <1>6, <3>1, <3>2
    <3> QED
      BY <1>3, <3>1, <3>3, <3>4
  <2>2. CASE Seated(q, s) \subseteq Seated(resv, s)
    BY <2>2
  <2>3. ASSUME NEW n \in Seated(q, s), n \notin Seated(resv, s)
        PROVE  Free(resv, s) > 0 /\ Seated(q, s) \subseteq Seated(resv, s) \cup {n}
    <3>1. n - Len(resv) \in 1..Len(b) /\ b[n - Len(resv)] = s /\ n \in Int
      BY <2>1, <2>3
    <3>2. Free(resv, s) > 0
      BY <1>1, <3>1 DEF Batch
    <3>3. ASSUME NEW i \in Seated(q, s), i \notin Seated(resv, s) PROVE i = n
      <4>1. i - Len(resv) \in 1..Len(b) /\ b[i - Len(resv)] = s /\ i \in Int
        BY <2>1, <3>3
      <4>2. i - Len(resv) = n - Len(resv)
        BY <1>1, <3>1, <4>1
      <4> QED
        BY <1>2, <3>1, <4>1, <4>2
    <3> QED
      BY <3>2, <3>3
  <2> QED
    BY <2>2, <2>3
<1>9. Good(q, waits, accounts)
  BY <1>6, <1>8, GoodNow, GoodSeats
<1>10. a \in [Users -> Account]
  BY TopupType
<1>11. Good(q, waits, a)
  BY <1>9, <1>10, GoodAccounts
<1>12. Commit(q, waits, a)
  BY DEF Batch, q, new
<1> QED
  BY <1>11, <1>12, GoodCommit

\* The new capacity is the old one or at least the seats taken.
LEMMA SlotKeeps ==
  ASSUME TypeOK, NEW s \in Slots, NEW c \in 1..MaxCapacity, NEW o \in BOOLEAN, SlotUpdate(s, c, o)
  PROVE  Sound
<1>1. /\ slots' = [slots EXCEPT ![s] = [capacity |-> c, open |-> o]]
      /\ slots \in [Slots -> [capacity: 1..MaxCapacity, open: BOOLEAN]]
      /\ now' = now /\ labs' = labs /\ accounts' = accounts /\ resv' = resv /\ waits' = waits
  BY DEF SlotUpdate, TypeOK
<1>2. slots' \in [Slots -> [capacity: 1..MaxCapacity, open: BOOLEAN]]
  BY <1>1
<1>3. TypeOK'
  BY <1>1, <1>2 DEF TypeOK
<1>4. ASSUME NEW p \in Slots
      PROVE  Free(resv, p)' >= 0 \/ Free(resv, p)' >= Free(resv, p)
  <2>1. /\ Cardinality(Seated(resv, p)) \in Nat /\ c \in Int /\ slots[p].capacity \in Int
        /\ Free(resv, p) \in Int
    BY SeatedFinite, FreeInt, BoundsAssumption DEF TypeOK
  <2>2. Free(resv, p)' = slots'[p].capacity - Cardinality(Seated(resv, p))
    BY <1>1 DEF Free, Seated
  <2>3. CASE p # s
    BY <1>1, <2>1, <2>2, <2>3 DEF Free
  <2>4. CASE p = s
    <3>1. slots'[s].capacity = c
      BY <1>1
    <3>2. c = slots[s].capacity \/ c >= Cardinality(Seated(resv, s))
      BY DEF SlotUpdate
    <3> QED
      BY <2>1, <2>2, <2>4, <3>1, <3>2 DEF Free
  <2> QED
    BY <2>3, <2>4
<1> QED
  BY <1>3, <1>4 DEF Sound, NoFuller

\* Disabling, enabling and granting credit are sound.
LEMMA AccountKeeps ==
  ASSUME TypeOK, NEW u \in Users,
         Disable(u) \/ Enable(u) \/ \E n \in 1..CreditBase : CreditGrant(u, n)
  PROVE  Sound
<1> DEFINE off == [accounts EXCEPT ![u].enabled = FALSE]
           on == [accounts EXCEPT ![u].enabled = TRUE]
<1>1. accounts \in [Users -> Account]
  BY DEF TypeOK
<1>2. off \in [Users -> Account] /\ on \in [Users -> Account]
  BY <1>1 DEF Account
<1>3. ASSUME NEW a \in [Users -> Account], Commit(resv, waits, a)
      PROVE  Sound
  BY <1>3, GoodNow, GoodAccounts, GoodCommit
<1>4. ASSUME NEW n \in 1..CreditBase PROVE CreditApply(accounts, u, n) \in [Users -> Account]
  BY <1>1, CreditType, ServiceAssumption
<1> QED
  BY <1>2, <1>3, <1>4 DEF Disable, Enable, CreditGrant

\* Neither time nor the switches of a laboratory touch a seat.
LEMMA IdleKeeps ==
  ASSUME TypeOK, Tick \/ (\E l \in Labs, o, p \in BOOLEAN : LabUpdate(l, o, p)) \/ UNCHANGED vars
  PROVE  Sound
<1>1. /\ now' \in 0..MaxTime /\ now <= now'
      /\ labs' \in [Labs -> [open: BOOLEAN, approval: BOOLEAN]]
      /\ accounts' \in [Users -> Account]
      /\ slots' = slots /\ resv' = resv /\ waits' = waits
  <2>1. CASE Tick
    <3>1. accounts \in [Users -> Account] /\ now \in 0..MaxTime /\ MaxTime \in Nat
      BY ServiceAssumption DEF TypeOK
    <3>2. [u \in Users |-> [accounts[u] EXCEPT !.toppedUp = FALSE]] \in [Users -> Account]
      BY <3>1 DEF Account
    <3>3. accounts' \in [Users -> Account]
      BY <2>1, <3>1, <3>2 DEF Tick
    <3>4. now' \in 0..MaxTime /\ now <= now'
      BY <2>1, <3>1 DEF Tick
    <3>5. labs' \in [Labs -> [open: BOOLEAN, approval: BOOLEAN]]
      BY <2>1 DEF Tick, TypeOK
    <3> QED
      BY <2>1, <3>3, <3>4, <3>5 DEF Tick
  <2>2. CASE \E l \in Labs, o, p \in BOOLEAN : LabUpdate(l, o, p)
    BY <2>2, ServiceAssumption DEF LabUpdate, TypeOK
  <2>3. CASE UNCHANGED vars
    BY <2>3, ServiceAssumption DEF vars, TypeOK
  <2> QED
    BY <2>1, <2>2, <2>3
<1>2. ASSUME NEW j \in DOMAIN waits PROVE waits[j].since <= now'
  <2>1. waits \in Seq(Wait) /\ DOMAIN waits = 1..Len(waits)
    BY LenProperties DEF TypeOK
  <2>2. waits[j] \in Wait
    BY <2>1, ElementOfSeq
  <2>3. waits[j].since \in Nat /\ now \in Nat /\ now' \in Nat /\ waits[j].since <= now
    BY <1>1, <2>2, ServiceAssumption DEF Wait, TypeOK
  <2> QED
    BY <1>1, <2>3
<1>3. TypeOK'
  BY <1>1, <1>2 DEF TypeOK
<1>4. ASSUME NEW s \in Slots PROVE Free(resv, s)' = Free(resv, s) /\ Free(resv, s) \in Int
  BY <1>1, FreeInt DEF TypeOK, Free, Seated
<1> QED
  BY <1>3, <1>4 DEF Sound, NoFuller
-----------------------------------------------------------------------------
\* The invariant holds of the empty tables.
LEMMA InitKeeps == Init => IInv
<1> SUFFICES ASSUME Init PROVE IInv
  OBVIOUS
<1>1. /\ resv = <<>> /\ waits = <<>> /\ now = 0
      /\ slots = [s \in Slots |-> [capacity |-> InitialCapacity[s], open |-> TRUE]]
      /\ labs = [l \in Labs |-> [open |-> TRUE, approval |-> l \in InitialApproval]]
      /\ accounts \in [Users -> [credit: InitialCredit, toppedUp: {FALSE}, enabled: {TRUE}]]
  BY DEF Init
<1>2. accounts \in [Users -> Account]
  BY <1>1, InitialAssumption DEF Account
<1>3. TypeOK
  BY <1>1, <1>2, InitialAssumption, ServiceAssumption DEF TypeOK
<1>4. ASSUME NEW s \in Slots
      PROVE  Cardinality(Seated(resv, s)) <= slots[s].capacity
  <2>1. Seated(resv, s) = {}
    BY <1>1 DEF Seated
  <2>2. Cardinality(Seated(resv, s)) = 0
    BY <2>1, FS_EmptySet
  <2> QED
    BY <1>1, <2>2, InitialAssumption
<1> QED
  BY <1>3, <1>4 DEF IInv, SeatsWithinCapacity

\* Every request, and the passing of time, is sound.
LEMMA NextSound == TypeOK /\ [Next]_vars => Sound
<1> SUFFICES ASSUME TypeOK, [Next]_vars PROVE Sound
  OBVIOUS
<1>1. CASE Tick
  BY <1>1, IdleKeeps
<1>2. CASE \E u \in Users, s \in Slots : Reserve(u, s) \/ Join(u, s)
  BY <1>2, ReserveKeeps, JoinKeeps
<1>3. CASE \E i \in DOMAIN resv : Cancel(i) \/ CheckIn(i) \/ Checkout(i) \/ Confirm(i)
  BY <1>3, CancelKeeps, AttendKeeps
<1>4. CASE \E i \in DOMAIN resv, t \in Slots : Reschedule(i, t)
  BY <1>4, RescheduleKeeps
<1>5. CASE \E j \in DOMAIN waits : Withdraw(j)
  BY <1>5, WithdrawKeeps
<1>6. CASE \E u \in Users, b \in Runs : Batch(u, b)
  BY <1>6, BatchKeeps
<1>7. CASE \E i \in DOMAIN resv : Approve(i) \/ Reject(i) \/ ForceComplete(i) \/ ForceCancel(i)
  BY <1>7, ApproveKeeps, CancelKeeps, AttendKeeps
<1>8. CASE \E s \in Slots, c \in 1..MaxCapacity, o \in BOOLEAN : SlotUpdate(s, c, o)
  BY <1>8, SlotKeeps
<1>9. CASE \E l \in Labs, o, p \in BOOLEAN : LabUpdate(l, o, p)
  BY <1>9, IdleKeeps
<1>10. CASE \E u \in Users : Disable(u) \/ Enable(u)
  BY <1>10, AccountKeeps
<1>11. CASE \E u \in Users, n \in 1..CreditBase : CreditGrant(u, n)
  BY <1>11, AccountKeeps
<1>12. CASE UNCHANGED vars
  BY <1>12, IdleKeeps
<1> QED
  BY <1>1, <1>2, <1>3, <1>4, <1>5, <1>6, <1>7, <1>8, <1>9, <1>10, <1>11, <1>12
     DEF Next, UserRequest, AdminRequest

\* A sound step oversells nothing that was not oversold.
LEMMA SoundSafe ==
  ASSUME TypeOK, Sound, SeatsWithinCapacity
  PROVE  SeatsWithinCapacity'
<1>1. ASSUME NEW s \in Slots PROVE Cardinality(Seated(resv', s)) <= slots'[s].capacity
  <2>1. Free(resv, s) >= 0 /\ Free(resv, s) \in Int
    BY CapacityFree, FreeInt DEF TypeOK
  <2>2. slots'[s].capacity \in Int /\ Cardinality(Seated(resv', s)) \in Int
    BY SeatedFinite, BoundsAssumption DEF Sound, TypeOK
  <2>3. Free(resv, s)' = slots'[s].capacity - Cardinality(Seated(resv', s))
    BY DEF Free, Seated
  <2> QED
    BY <2>1, <2>2, <2>3 DEF Sound, NoFuller
<1> QED
  BY <1>1 DEF SeatsWithinCapacity, Seated

\* Well-formed tables with no oversold slot: the inductive invariant of Booking.
THEOREM Invariance == Spec => []IInv
<1>1. IInv /\ [Next]_vars => IInv'
  BY NextSound, SoundSafe DEF IInv, Sound
<1> QED
  BY <1>1, InitKeeps, PTL DEF Spec

\* Every table holds rows of its schema: a balance stays within 0..CREDIT_BASE
\* and the status of a row is one its CHECK constraint allows.
THEOREM TypeCorrect == Spec => []TypeOK
<1>1. IInv => TypeOK
  BY DEF IInv
<1> QED
  BY <1>1, Invariance, PTL

\* No sequence of requests oversells a slot.
THEOREM NeverOversold == Spec => []SeatsWithinCapacity
<1>1. IInv => SeatsWithinCapacity
  BY DEF IInv
<1> QED
  BY <1>1, Invariance, PTL
-----------------------------------------------------------------------------
(***************************************************************************)
(* What the requests may do to a row that is there already.                *)
(***************************************************************************)
Ended(row) == row.status \in {"CANCELLED", "EXPIRED"}

\* An attended row is confirmed, and its slot has started.
Attended(row) ==
  /\ row.checkedIn => row.status = "CONFIRMED" /\ Started(row.slot)
  /\ row.checkedOut => row.checkedIn

\* what a statement may make of row x; no request puts a row on hold, changes
\* a hold but to end it, or lets it expire
Succeeds(x, y) ==
  /\ LabOf[y.slot] = LabOf[x.slot]
  /\ "reschedule" \notin Requests => y.slot = x.slot
  /\ y.user = x.user /\ y.source = x.source
  /\ Ended(x) => y = x
  /\ y.status \in {"HELD", "EXPIRED"} => y = x
  /\ Attended(x) => Attended(y)

Grown(r, q) ==
  /\ DOMAIN r \subseteq DOMAIN q
  /\ \A i \in DOMAIN r : Succeeds(r[i], q[i])
  /\ \A i \in DOMAIN q \ DOMAIN r : Attended(q[i])

\* the promoted waiter of row has its seat in q
Linked(row, q) ==
  /\ row.resv \in DOMAIN q
  /\ q[row.resv].user = row.user /\ q[row.resv].slot = row.slot
  /\ q[row.resv].source = "WAITLIST"

\* the same user in the same place of the same queue
Kin(x, y) == x.user = y.user /\ x.slot = y.slot /\ x.prio = y.prio

Kept(w, v, q) ==
  /\ DOMAIN w \subseteq DOMAIN v
  /\ \A j \in DOMAIN w : Kin(v[j], w[j])
  /\ \A j \in DOMAIN w : w[j].status # "WAITING" => v[j] = w[j]
  /\ \A j \in DOMAIN v :
       v[j].status = "PROMOTED" => (j \in DOMAIN w /\ v[j] = w[j]) \/ Linked(v[j], q)

AttInv == \A i \in DOMAIN resv : Attended(resv[i])
-----------------------------------------------------------------------------
\* Every table has grown from itself.
LEMMA GrownSame == ASSUME NEW r PROVE Grown(r, r)
BY DEF Grown, Succeeds

\* One statement after another.
LEMMA GrownTrans ==
  ASSUME NEW r, NEW q, NEW p, Grown(r, q), Grown(q, p)
  PROVE  Grown(r, p)
BY DEF Grown, Succeeds

\* A waitlist that is left alone is kept.
LEMMA KeptSame == ASSUME NEW w, NEW q PROVE Kept(w, w, q)
BY DEF Kept, Kin

\* A changed row.
LEMMA GrownRow ==
  ASSUME NEW r, NEW i \in DOMAIN r, NEW row, Succeeds(r[i], row)
  PROVE  Grown(r, [r EXCEPT ![i] = row])
BY DEF Grown, Succeeds

\* A new row that nobody has attended yet.
LEMMA GrownAppend ==
  ASSUME NEW r \in Seq(Reservation), NEW row \in Reservation, Attended(row)
  PROVE  Grown(r, Append(r, row))
<1>1. /\ Len(r) \in Nat /\ DOMAIN r = 1..Len(r) /\ DOMAIN Append(r, row) = 1..(Len(r) + 1)
      /\ \A i \in 1..Len(r) : Append(r, row)[i] = r[i]
      /\ Append(r, row)[Len(r) + 1] = row
  BY AppendProperties, LenProperties
<1>2. \A i \in DOMAIN Append(r, row) \ DOMAIN r : Append(r, row)[i] = row
  BY <1>1
<1> QED
  BY <1>1, <1>2 DEF Grown, Succeeds

\* A seat that was just given is not attended.
LEMMA FreshRows ==
  ASSUME NEW u, NEW s, NEW status
  PROVE  Attended(DirectRow(u, s, status)) /\ Attended(GrantedRow(u, s))
BY DEF Attended, DirectRow, GrantedRow, Row

\* A promotion adds rows, and changes waitlist rows that were waiting.
LEMMA FillGrows ==
  ASSUME NEW r, NEW w, NEW a, NEW s \in Slots, Typed(r, w, a)
  PROVE  /\ Grown(r, PromoteFill(r, w, a, s).resv)
         /\ Kept(w, PromoteFill(r, w, a, s).waits, PromoteFill(r, w, a, s).resv)
<1> DEFINE t == PromoteFill(r, w, a, s)
           chosen == Chosen(r, w, a, s)
           n == Cardinality(chosen)
           seat(i) == w[Nth(w, a, chosen, i - Len(r) - 1)]
<1>1. /\ Len(r) \in Nat /\ DOMAIN r = 1..Len(r) /\ DOMAIN w = 1..Len(w)
      /\ Free(r, s) \in Int
  BY LenProperties, SeatedFinite, BoundsAssumption DEF Typed, Free
<1>2. CASE Free(r, s) <= 0
  BY <1>2, GrownSame, KeptSame DEF PromoteFill
<1>3. CASE Free(r, s) > 0
  <2>1. n \in Nat /\ chosen \in SUBSET (1..Len(w))
    BY <1>1, <1>3, ChosenBound
  <2>2. /\ t.resv = [i \in 1..(Len(r) + n) |->
                       IF i <= Len(r) THEN r[i] ELSE GrantedRow(seat(i).user, s)]
        /\ t.waits = [j \in 1..Len(w) |->
                        IF j \in chosen THEN Promoted(w[j], Len(r) + 1 + Rank(w, a, chosen, j))
                        ELSE IF j \in Stale(w, a, s) THEN [w[j] EXCEPT !.status = "SKIPPED"]
                        ELSE w[j]]
    <3>1. ~(Free(r, s) <= 0)
      BY <1>1, <1>3
    <3> QED
      BY <3>1, Zenon DEF PromoteFill
  <2>3. \A i \in 1..Len(r) : t.resv[i] = r[i]
    BY <1>1, <2>1, <2>2
  <2>4. \A i \in DOMAIN t.resv \ DOMAIN r : t.resv[i] = GrantedRow(seat(i).user, s)
    BY <1>1, <2>1, <2>2
  <2>5. DOMAIN r \subseteq DOMAIN t.resv
    BY <1>1, <2>1, <2>2
  <2>6. \A j \in 1..Len(w) : w[j].status # "WAITING" => t.waits[j] = w[j]
    <3>1. \A j \in chosen \cup Stale(w, a, s) : w[j].status = "WAITING"
      BY DEF Chosen, Executable, Stale, Waiting
    <3> HIDE DEF chosen
    <3> QED
      BY <2>2, <3>1
  <2>7. DOMAIN t.waits = DOMAIN w
    BY <1>1, <2>2
  <2>10. ASSUME NEW j \in chosen
         PROVE  Linked(Promoted(w[j], Len(r) + 1 + Rank(w, a, chosen, j)), t.resv)
    <3> DEFINE k == Rank(w, a, chosen, j)
               i == Len(r) + 1 + k
    <3>1. /\ w \in Seq(Wait) /\ a \in [Users -> Account] /\ now \in 0..MaxTime
          /\ \A l \in DOMAIN w : w[l].since <= now
      BY DEF Typed
    <3>2. k \in 0..(n - 1)
      BY <2>1, <3>1, RankNumbers
    <3>3. Nth(w, a, chosen, k) \in chosen /\ Rank(w, a, chosen, Nth(w, a, chosen, k)) = k
      BY <2>1, <3>1, <3>2, NthRow
    <3>4. Nth(w, a, chosen, k) = j
      BY <2>1, <3>1, <3>3, RankNumbers
    <3>5. i \in 1..(Len(r) + n) /\ ~(i <= Len(r)) /\ i - Len(r) - 1 = k
      <4>1. Len(r) \in Nat /\ n \in Nat
        BY <1>1, <2>1
      <4> HIDE DEF k, n
      <4> QED
        BY <3>2, <4>1
    <3>6. w[j] \in Wait /\ w[j].slot = s
      BY <2>1, <3>1, ElementOfSeq DEF Chosen, Executable, Waiting
    <3> HIDE DEF k, i, chosen
    <3>7. t.resv[i] = GrantedRow(w[j].user, s) /\ i \in DOMAIN t.resv
      BY <2>2, <3>4, <3>5
    <3>8. Linked(Promoted(w[j], i), t.resv)
      BY <3>6, <3>7 DEF Linked, Promoted, GrantedRow, Row, Wait
    <3> QED
      BY <3>8 DEF i, k
  <2>11. \A j \in DOMAIN t.waits :
           t.waits[j].status = "PROMOTED" => t.waits[j] = w[j] \/ Linked(t.waits[j], t.resv)
    <3>1. ASSUME NEW j \in 1..Len(w), j \notin chosen, j \in Stale(w, a, s)
          PROVE  t.waits[j].status = "SKIPPED"
      <4>1. w[j] \in Wait
        BY ElementOfSeq DEF Typed
      <4>2. t.waits[j] = [w[j] EXCEPT !.status = "SKIPPED"]
        BY <2>2, <3>1
      <4> QED
        BY <4>1, <4>2 DEF Wait
    <3>2. ASSUME NEW j \in 1..Len(w), j \notin chosen, j \notin Stale(w, a, s)
          PROVE  t.waits[j] = w[j]
      BY <2>2, <3>2
    <3>3. ASSUME NEW j \in chosen PROVE Linked(t.waits[j], t.resv)
      BY <2>1, <2>2, <2>10
    <3> QED
      BY <1>1, <2>7, <3>1, <3>2, <3>3
  <2> HIDE DEF t
  <2>8. Grown(r, t.resv)
    <3>1. \A i \in DOMAIN t.resv \ DOMAIN r : Attended(t.resv[i])
      BY <2>4, FreshRows
    <3> QED
      BY <1>1, <2>3, <2>5, <3>1 DEF Grown, Succeeds
  <2>9. Kept(w, t.waits, t.resv)
    <3>1. ASSUME NEW j \in 1..Len(w) PROVE Kin(t.waits[j], w[j])
      <4>1. w[j] \in Wait
        BY ElementOfSeq DEF Typed
      <4>2. t.waits[j] \in {Promoted(w[j], Len(r) + 1 + Rank(w, a, chosen, j)),
                            [w[j] EXCEPT !.status = "SKIPPED"], w[j]}
        BY <2>2 DEF t
      <4> QED
        BY <4>1, <4>2 DEF Kin, Promoted, Wait
    <3> QED
      BY <1>1, <2>6, <2>7, <2>11, <3>1 DEF Kept
  <2> QED
    BY <2>8, <2>9 DEF t
<1> QED
  BY <1>1, <1>2, <1>3
-----------------------------------------------------------------------------
(***************************************************************************)
(* The requests.  Step is what each of them does to the two tables.        *)
(***************************************************************************)
Step == Grown(resv, resv') /\ Kept(waits, waits', resv')

\* Rows that grew may be committed beside the waitlist as it is.
LEMMA CommitStep ==
  ASSUME NEW r, NEW w, NEW a, Commit(r, w, a), Grown(resv, r), Kept(waits, w, r)
  PROVE  Step
BY DEF Commit, Step

\* Rows that grew, and a promotion after them.
LEMMA FillStep ==
  ASSUME NEW r, NEW a, NEW s \in Slots, Typed(r, waits, a), Grown(resv, r),
         CommitFill(PromoteFill(r, waits, a, s), a)
  PROVE  Step
<1>1. /\ Grown(r, PromoteFill(r, waits, a, s).resv)
      /\ Kept(waits, PromoteFill(r, waits, a, s).waits, PromoteFill(r, waits, a, s).resv)
  BY FillGrows
<1>2. Grown(resv, PromoteFill(r, waits, a, s).resv)
  BY <1>1, GrownTrans
<1> QED
  BY <1>1, <1>2, CommitStep DEF CommitFill

\* A row that is replaced by one that may succeed it.
LEMMA RowStep ==
  ASSUME NEW i \in DOMAIN resv, NEW row, Succeeds(resv[i], row), NEW a,
         Commit([resv EXCEPT ![i] = row], waits, a)
  PROVE  Step
BY GrownRow, KeptSame, CommitStep

\* A row that loses its seat without having been attended.
LEMMA LeaveGrows ==
  ASSUME TypeOK, NEW i \in DOMAIN resv, ~Ended(resv[i]), Attended(resv[i]), ~resv[i].checkedIn, NEW why
  PROVE  /\ Grown(resv, Evict(resv, i))
         /\ Grown(resv, Cancelled(resv, i, why))
         /\ Grown(resv, [resv EXCEPT ![i].status = "CANCELLED", ![i].reason = why])
<1>1. resv[i] \in Reservation
  BY ResvRow
<1> QED
  BY <1>1 DEF Grown, Succeeds, Attended, Evict, Cancelled, Reservation

\* Giving the free seats to the queue and one that is left to the request.
LEMMA AdmitStep ==
  ASSUME NEW u \in Users, NEW s \in Slots, NEW r, NEW a,
         Good(r, waits, a), Grown(resv, r), Admit(u, s, r, a)
  PROVE  Step
<1> DEFINE t == PromoteFill(r, waits, a, s)
           status == IF labs[LabOf[s]].approval THEN "PENDING" ELSE "CONFIRMED"
           row == DirectRow(u, s, status)
<1>1. CASE HoldsSeat(t.resv, u, s) \/ Free(t.resv, s) <= 0
  BY <1>1, FillStep DEF Admit, Good
<1>2. CASE ~(HoldsSeat(t.resv, u, s) \/ Free(t.resv, s) <= 0)
  <2>1. Commit(Append(t.resv, row), t.waits, a)
    BY <1>2 DEF Admit
  <2>2. Grown(r, t.resv) /\ Kept(waits, t.waits, t.resv) /\ t.resv \in Seq(Reservation)
    BY FillGrows, GoodFill DEF Good, Typed
  <2>3. row \in Reservation /\ Attended(row)
    BY DirectType, FreshRows DEF ResvStatus
  <2> HIDE DEF t, row
  <2>4. Grown(resv, Append(t.resv, row))
    BY <2>2, <2>3, GrownAppend, GrownTrans
  <2>5. Kept(waits, t.waits, Append(t.resv, row))
    <3>1. \A i \in DOMAIN t.resv : i \in DOMAIN Append(t.resv, row) /\ Append(t.resv, row)[i] = t.resv[i]
      BY <2>2, AppendProperties, LenProperties
    <3> QED
      BY <2>2, <3>1 DEF Kept, Linked
  <2> QED
    BY <2>1, <2>4, <2>5, CommitStep
<1> QED
  BY <1>1, <1>2

\* A reservation, with its promotion and its eviction.
LEMMA ReserveStep ==
  ASSUME TypeOK, AttInv, NEW u \in Users, NEW s \in Slots, Reserve(u, s)
  PROVE  Step
<1> DEFINE a == WeeklyTopup(accounts, u)
<1>1. a \in [Users -> Account]
  BY TopupType
<1>2. Good(resv, waits, a)
  BY <1>1, GoodNow, GoodAccounts
<1>3. CASE Commit(resv, waits, a)
  BY <1>3, CommitStep, GrownSame, KeptSame
<1>4. CASE Admit(u, s, resv, a)
  BY <1>2, <1>4, AdmitStep, GrownSame
<1>5. ASSUME NEW v \in Victim(u, s), TakeOver(u, s, v, a) PROVE Step
  <2> DEFINE r == Evict(resv, v)
             b == CreditApply(a, resv[v].user, 1)
  <2>1. v \in DOMAIN resv /\ ~resv[v].checkedIn /\ Live(resv[v])
    BY DEF Victim, Evictable, Seated
  <2>2. Grown(resv, r)
    BY <2>1, LeaveGrows DEF AttInv, Ended, Live
  <2>3. b \in [Users -> Account]
    BY <1>1, <2>1, ResvRow, CreditType
  <2>4. Good(r, waits, b)
    <3>1. Good(r, waits, accounts)
      BY <2>1, LeaveGood DEF Reasons
    <3> QED
      BY <2>3, <3>1, GoodAccounts
  <2>5. Commit(r, waits, b) \/ Admit(u, s, r, b)
    BY <1>5 DEF TakeOver
  <2> HIDE DEF r, b
  <2> QED
    BY <2>2, <2>4, <2>5, CommitStep, KeptSame, AdmitStep
<1> QED
  BY <1>3, <1>4, <1>5 DEF Reserve

\* Somebody queues up, or leaves the queue.
LEMMA QueueStep ==
  ASSUME TypeOK,
         \/ \E u \in Users, s \in Slots : Join(u, s)
         \/ \E j \in DOMAIN waits : Withdraw(j)
  PROVE  Step
<1>1. waits \in Seq(Wait) /\ DOMAIN waits = 1..Len(waits) /\ Len(waits) \in Nat
  BY LenProperties DEF TypeOK
<1>2. ASSUME NEW u \in Users, NEW s \in Slots, Join(u, s) PROVE Step
  <2>1. PICK w : /\ w \in {waits, Append(waits, WaitRow(u, s))}
                 /\ Commit(resv, w, WeeklyTopup(accounts, u))
    BY <1>2 DEF Join
  <2>2. now \in Nat
    BY ServiceAssumption DEF TypeOK
  <2>3. WaitRow(u, s) \in Wait
    BY <2>2 DEF WaitRow, Wait, WaitStatus, RolePriority
  <2>4. Kept(waits, Append(waits, WaitRow(u, s)), resv)
    <3>1. /\ DOMAIN Append(waits, WaitRow(u, s)) = 1..(Len(waits) + 1)
          /\ \A j \in 1..Len(waits) : Append(waits, WaitRow(u, s))[j] = waits[j]
          /\ Append(waits, WaitRow(u, s))[Len(waits) + 1] = WaitRow(u, s)
      BY <1>1, <2>3, AppendProperties, LenProperties
    <3>2. WaitRow(u, s).status # "PROMOTED"
      BY DEF WaitRow
    <3> QED
      BY <1>1, <3>1, <3>2 DEF Kept, Kin
  <2> QED
    BY <2>1, <2>4, KeptSame, GrownSame, CommitStep
<1>3. ASSUME NEW j \in DOMAIN waits, Withdraw(j) PROVE Step
  <2>1. waits[j] \in Wait
    BY <1>1, ElementOfSeq
  <2>2. Kept(waits, [waits EXCEPT ![j].status = "WITHDRAWN"], resv)
    BY <1>3, <2>1 DEF Withdraw, Kept, Kin, Wait
  <2> QED
    BY <1>3, <2>2, GrownSame, CommitStep DEF Withdraw
<1> QED
  BY <1>2, <1>3

\* A slot that has not started has no attended row.
LEMMA NotAttended ==
  ASSUME NEW row, Attended(row), ~Started(row.slot) \/ row.status # "CONFIRMED"
  PROVE  ~row.checkedIn
BY DEF Attended

\* A cancellation.
LEMMA CancelStep ==
  ASSUME TypeOK, AttInv, NEW i \in DOMAIN resv, Cancel(i) \/ Reject(i) \/ ForceCancel(i)
  PROVE  Step
<1>1. resv[i].slot \in Slots /\ Attended(resv[i])
  BY ResvRow DEF AttInv
<1>2. ~resv[i].checkedIn /\ ~Ended(resv[i])
  <2>1. CASE Cancel(i)
    BY <1>1, <2>1, NotAttended DEF Cancel, Admitted, Live, Ended
  <2>2. CASE Reject(i) \/ ForceCancel(i)
    BY <1>1, <2>2, NotAttended DEF Reject, ForceCancel, Live, Ended
  <2> QED
    BY <2>1, <2>2
<1>3. /\ Grown(resv, Cancelled(resv, i, "USER"))
      /\ Grown(resv, Cancelled(resv, i, "ADMIN"))
      /\ Grown(resv, [resv EXCEPT ![i].status = "CANCELLED", ![i].reason = "REJECTED"])
  BY <1>1, <1>2, LeaveGrows
<1>4. /\ Good(Cancelled(resv, i, "USER"), waits, accounts)
      /\ Good(Cancelled(resv, i, "ADMIN"), waits, accounts)
  BY LeaveGood DEF Reasons
<1>5. CASE Cancel(i)
  BY <1>1, <1>3, <1>4, <1>5, FillStep, CommitStep, KeptSame DEF Cancel, Good
<1>6. CASE Reject(i)
  BY <1>3, <1>6, CommitStep, KeptSame DEF Reject
<1>7. CASE ForceCancel(i)
  BY <1>1, <1>3, <1>4, <1>7, FillStep DEF ForceCancel, Good
<1> QED
  BY <1>5, <1>6, <1>7

\* Check-in is open from the start of the slot, also for promoted rows.
LEMMA CheckinStarted ==
  ASSUME TypeOK, NEW i \in DOMAIN resv, InCheckinWindow(resv[i])
  PROVE  Started(resv[i].slot)
<1>1. resv[i] \in Reservation /\ resv[i].slot \in Slots
  BY ResvRow
<1>2. resv[i].since \in Nat /\ Start[resv[i].slot] \in Nat /\ now \in Nat
  BY <1>1, SlotsAssumption, ServiceAssumption DEF Reservation, TypeOK
<1>3. Start[resv[i].slot] <= CheckinBegin(resv[i]) /\ CheckinBegin(resv[i]) \in Nat
  BY <1>2 DEF CheckinBegin
<1> QED
  BY <1>2, <1>3 DEF InCheckinWindow, Started

\* A row whose attendance or end is recorded.
LEMMA AttendStep ==
  ASSUME TypeOK, AttInv, NEW i \in DOMAIN resv,
         CheckIn(i) \/ Checkout(i) \/ Confirm(i) \/ ForceComplete(i) \/ Approve(i)
  PROVE  Step
<1>1. resv[i] \in Reservation /\ Attended(resv[i])
  BY ResvRow DEF AttInv
<1>2. CASE CheckIn(i)
  <2>1. Succeeds(resv[i], [resv[i] EXCEPT !.checkedIn = TRUE])
    BY <1>1, <1>2, CheckinStarted DEF CheckIn, Succeeds, Attended, Ended, Reservation
  <2> QED
    BY <1>2, <2>1, RowStep DEF CheckIn
<1>3. CASE Checkout(i) \/ ForceComplete(i)
  <2>1. Succeeds(resv[i], [resv[i] EXCEPT !.checkedOut = TRUE])
    BY <1>1, <1>3 DEF Checkout, ForceComplete, Succeeds, Attended, Ended, Reservation
  <2> QED
    BY <1>3, <2>1, RowStep DEF Checkout, ForceComplete
<1>4. CASE Confirm(i)
  <2>1. Succeeds(resv[i], [resv[i] EXCEPT !.status = "CONFIRMED", !.deadline = 0])
    BY <1>1, <1>4 DEF Confirm, Succeeds, Attended, Ended, Reservation
  <2> QED
    BY <1>4, <2>1, RowStep DEF Confirm
<1>5. CASE Approve(i)
  <2>1. Succeeds(resv[i], [resv[i] EXCEPT !.status = "CONFIRMED"])
    BY <1>1, <1>5 DEF Approve, Succeeds, Attended, Ended, Reservation
  <2> QED
    BY <1>5, <2>1, RowStep DEF Approve
<1> QED
  BY <1>2, <1>3, <1>4, <1>5

\* A booking is moved before its slot starts, within its laboratory.
LEMMA RescheduleStep ==
  ASSUME TypeOK, AttInv, NEW i \in DOMAIN resv, NEW t \in Slots, Reschedule(i, t)
  PROVE  Step
<1> DEFINE row == [resv[i] EXCEPT !.slot = t]
           r == [resv EXCEPT ![i] = row]
<1>1. resv[i] \in Reservation /\ resv[i].slot \in Slots /\ Attended(resv[i])
  BY ResvRow DEF AttInv
<1>2. row \in Reservation /\ row.slot = t
  BY <1>1 DEF Reservation
<1>3. Succeeds(resv[i], row)
  <2>1. ~resv[i].checkedIn /\ ~Ended(resv[i])
    BY <1>1, NotAttended DEF Reschedule, Ended
  <2> QED
    BY <1>1, <2>1 DEF Reschedule, Succeeds, Attended, Reservation
<1>4. CommitFill(PromoteFill(r, waits, accounts, resv[i].slot), accounts)
  BY DEF Reschedule
<1> HIDE DEF row
<1>5. Grown(resv, r)
  BY <1>3, GrownRow
<1>6. r \in Seq(Reservation)
  BY <1>2, ExceptSeq, LenProperties DEF TypeOK
<1>7. Typed(r, waits, accounts)
  BY <1>6 DEF TypeOK, Typed
<1> HIDE DEF r
<1> QED
  BY <1>1, <1>4, <1>5, <1>7, FillStep

\* A batch adds rows.
LEMMA BatchStep ==
  ASSUME TypeOK, NEW u \in Users, NEW b \in Runs, Batch(u, b)
  PROVE  Step
<1> DEFINE new == [k \in DOMAIN b |-> DirectRow(u, b[k], "CONFIRMED")]
<1>1. DOMAIN b = 1..Len(b) /\ Len(b) \in Nat
  BY RunsDistinct
<1>2. /\ DOMAIN resv = 1..Len(resv) /\ Len(resv) \in Nat
      /\ DOMAIN (resv \o new) = 1..(Len(resv) + Len(b))
      /\ \A i \in 1..(Len(resv) + Len(b)) :
           (resv \o new)[i] = IF i <= Len(resv) THEN resv[i] ELSE new[i - Len(resv)]
  BY <1>1, LenProperties DEF TypeOK
<1>3. \A k \in 1..Len(b) : Attended(new[k])
  BY <1>1, FreshRows
<1>4. \A i \in DOMAIN (resv \o new) \ DOMAIN resv :
         i - Len(resv) \in 1..Len(b) /\ (resv \o new)[i] = new[i - Len(resv)]
  BY <1>1, <1>2
<1>5. \A i \in DOMAIN resv : (resv \o new)[i] = resv[i]
  BY <1>1, <1>2
<1> HIDE DEF new
<1>6. Grown(resv, resv \o new)
  BY <1>1, <1>2, <1>3, <1>4, <1>5 DEF Grown, Succeeds
<1> QED
  BY <1>6, KeptSame, CommitStep DEF Batch, new

\* Every request takes such a step, and so does the passing of time.
LEMMA NextStep == TypeOK /\ AttInv /\ [Next]_vars => Step
<1> SUFFICES ASSUME TypeOK, AttInv, [Next]_vars PROVE Step
  OBVIOUS
<1>1. CASE UNCHANGED <<resv, waits>>
  BY <1>1, GrownSame, KeptSame DEF Step
<1>2. CASE \E u \in Users, s \in Slots : Reserve(u, s) \/ Join(u, s)
  BY <1>2, ReserveStep, QueueStep
<1>3. CASE \E i \in DOMAIN resv : Cancel(i) \/ CheckIn(i) \/ Checkout(i) \/ Confirm(i)
  BY <1>3, CancelStep, AttendStep
<1>4. CASE \E i \in DOMAIN resv, t \in Slots : Reschedule(i, t)
  BY <1>4, RescheduleStep
<1>5. CASE \E j \in DOMAIN waits : Withdraw(j)
  BY <1>5, QueueStep
<1>6. CASE \E u \in Users, b \in Runs : Batch(u, b)
  BY <1>6, BatchStep
<1>7. CASE \E i \in DOMAIN resv : Approve(i) \/ Reject(i) \/ ForceComplete(i) \/ ForceCancel(i)
  BY <1>7, CancelStep, AttendStep
<1>8. CASE \/ Tick \/ UNCHANGED vars
           \/ \E s \in Slots, c \in 1..MaxCapacity, o \in BOOLEAN : SlotUpdate(s, c, o)
           \/ \E l \in Labs, o, p \in BOOLEAN : LabUpdate(l, o, p)
           \/ \E u \in Users : Disable(u) \/ Enable(u)
           \/ \E u \in Users, n \in 1..CreditBase : CreditGrant(u, n)
  BY <1>1, <1>8 DEF Tick, vars, SlotUpdate, LabUpdate, Disable, Enable, CreditGrant, Commit
<1> QED
  BY <1>2, <1>3, <1>4, <1>5, <1>6, <1>7, <1>8 DEF Next, UserRequest, AdminRequest

\* The clock does not run backwards.
LEMMA TimePasses == [Next]_vars => now' = now \/ Tick
<1> SUFFICES ASSUME [Next]_vars, ~Tick PROVE now' = now
  OBVIOUS
<1>1. \A r, w, a : Commit(r, w, a) => now' = now
  BY DEF Commit
<1>2. \A u, s, r, a : Admit(u, s, r, a) => now' = now
  BY <1>1 DEF Admit, CommitFill
<1>3. ASSUME NEW u \in Users, NEW s \in Slots, Reserve(u, s) \/ Join(u, s) PROVE now' = now
  BY <1>1, <1>2, <1>3 DEF Reserve, TakeOver, Join
<1>4. ASSUME NEW i \in DOMAIN resv, Cancel(i) \/ CheckIn(i) \/ Checkout(i) \/ Confirm(i)
      PROVE  now' = now
  BY <1>1, <1>4 DEF Cancel, CheckIn, Checkout, Confirm, CommitFill
<1>5. ASSUME NEW i \in DOMAIN resv, NEW t \in Slots, Reschedule(i, t) PROVE now' = now
  BY <1>1, <1>5 DEF Reschedule, CommitFill
<1>6. ASSUME \/ \E j \in DOMAIN waits : Withdraw(j)
             \/ \E u \in Users, b \in Runs : Batch(u, b)
      PROVE  now' = now
  BY <1>1, <1>6 DEF Withdraw, Batch
<1>7. ASSUME NEW i \in DOMAIN resv, Approve(i) \/ Reject(i) \/ ForceComplete(i) \/ ForceCancel(i)
      PROVE  now' = now
  BY <1>1, <1>7 DEF Approve, Reject, ForceComplete, ForceCancel, CommitFill
<1>8. ASSUME \/ \E s \in Slots, c \in 1..MaxCapacity, o \in BOOLEAN : SlotUpdate(s, c, o)
             \/ \E l \in Labs, o, p \in BOOLEAN : LabUpdate(l, o, p)
             \/ \E u \in Users : Disable(u) \/ Enable(u)
             \/ \E u \in Users, n \in 1..CreditBase : CreditGrant(u, n)
             \/ UNCHANGED vars
      PROVE  now' = now
  BY <1>1, <1>8 DEF SlotUpdate, LabUpdate, Disable, Enable, CreditGrant, vars
<1> QED
  BY <1>3, <1>4, <1>5, <1>6, <1>7, <1>8 DEF Next, UserRequest, AdminRequest

\* Whoever is checked in stays in a slot that has started.
LEMMA AttKeeps == TypeOK /\ AttInv /\ [Next]_vars => AttInv'
<1> SUFFICES ASSUME TypeOK, AttInv, [Next]_vars PROVE AttInv'
  OBVIOUS
<1>1. Grown(resv, resv')
  BY NextStep DEF Step
<1>2. CASE now' = now
  BY <1>1, <1>2 DEF AttInv, Grown, Succeeds, Attended, Started
<1>3. CASE Tick
  <2>1. resv' = resv /\ now' = now + 1 /\ now \in Nat
    BY <1>3, ServiceAssumption DEF Tick, TypeOK
  <2>2. ASSUME NEW i \in DOMAIN resv PROVE Started(resv[i].slot) => Started(resv[i].slot)'
    <3>1. Start[resv[i].slot] \in Nat
      BY ResvRow, SlotsAssumption
    <3> QED
      BY <2>1, <3>1 DEF Started
  <2> QED
    BY <2>1, <2>2 DEF AttInv, Attended
<1> QED
  BY <1>2, <1>3, TimePasses
-----------------------------------------------------------------------------
\* Whoever has checked in keeps the booking: no cancellation, eviction, move or
\* decision of an administrator takes it away.
THEOREM AttendanceHolds == Spec => []AttendanceStands
<1>1. Init => AttInv
  BY DEF Init, AttInv
<1>2. AttInv => AttendanceStands
  BY DEF AttInv, Attended, AttendanceStands
<1> QED
  BY <1>1, <1>2, TypeCorrect, AttKeeps, PTL DEF Spec

\* As long as nobody moves a booking, a promoted waiter leads to the seat of the
\* promotion: the assertion of db_check.
THEOREM LinkHolds == "reschedule" \notin Requests => (Spec => []PromotedLink)
<1> SUFFICES ASSUME "reschedule" \notin Requests PROVE Spec => []PromotedLink
  OBVIOUS
<1>1. Init => AttInv /\ PromotedLink
  BY DEF Init, AttInv, PromotedLink
<1>2. PromotedLink /\ Step => PromotedLink'
  BY DEF PromotedLink, Step, Kept, Linked, Grown, Succeeds
<1> QED
  BY <1>1, <1>2, TypeCorrect, AttKeeps, NextStep, PTL DEF Spec

\* No request changes a reservation or a waitlist row that has ended.
THEOREM HistoryHolds == Spec => HistoryFrozen
<1>1. Init => AttInv
  BY DEF Init, AttInv
<1>2. Step => /\ \A i \in DOMAIN resv : Ended(resv[i]) => resv'[i] = resv[i]
              /\ \A j \in DOMAIN waits : waits[j].status # "WAITING" => waits'[j] = waits[j]
  BY DEF Step, Grown, Succeeds, Kept
<1>3. TypeOK /\ AttInv /\ [Next]_vars =>
        [/\ \A i \in DOMAIN resv : resv[i].status \in {"CANCELLED", "EXPIRED"} => resv'[i] = resv[i]
         /\ \A j \in DOMAIN waits : waits[j].status # "WAITING" => waits'[j] = waits[j]]_vars
  BY <1>2, NextStep DEF Ended
<1> QED
  BY <1>1, <1>3, TypeCorrect, AttKeeps, PTL DEF Spec, HistoryFrozen
=============================================================================
