-------------------------- MODULE SweeperProofs --------------------------
(***************************************************************************)
(* The sweeper beside the requests: the tables stay well formed, attended  *)
(* bookings stand, a promoted waiter leads to a seat, and only an overdue  *)
(* hold expires, however requests and the statements of a sweep alternate  *)
(* and wherever a sweep is cut short.  Capacity is not among it, since the *)
(* run oversell shows the sweeper oversell a slot: what is proved is that  *)
(* only its INSERT does, and by one seat at most.                          *)
(*                                                                         *)
(* What the sweeper remembers stays right while requests run.  The rows it *)
(* listed are there for ever, and those that are still on hold are as      *)
(* overdue as they were (Overdue), since no request changes a hold but to  *)
(* end it.  The transaction on the no-shows goes through its list: what it *)
(* keeps is proved along the list, by induction (UpTo).                    *)
(***************************************************************************)
EXTENDS Sweeper, BookingProofs

Pcs == {"idle", "holds", "fill", "grant", "link", "release"}

SweepTyped ==
  /\ sweep \in [pc: Pcs, at: Nat, listed: SUBSET [row: Nat, slot: Slots], slot: SUBSET Slots,
                wait: Nat, rid: Nat]
  /\ sweep.at <= now
  /\ IsFiniteSet(sweep.listed) /\ \A s, p \in sweep.slot : s = p
  /\ \A x \in sweep.listed : x.row \in DOMAIN resv
  /\ sweep.pc \in {"grant", "link"} =>
       sweep.wait \in DOMAIN waits /\ sweep.slot = {waits[sweep.wait].slot}

\* The holds on the list that are still holds are overdue.
Overdue ==
  sweep.pc # "release" =>
    \A x \in sweep.listed :
       resv[x.row].status = "HELD" => HoldOverdue(resv[x.row], sweep.at)

SInv == TypeOK /\ AttInv /\ SweepTyped /\ Overdue

\* The row just granted is the one the waiter is about to be linked to.
LinkDue == sweep.pc = "link" => Linked(Promoted(waits[sweep.wait], sweep.rid), resv)
-----------------------------------------------------------------------------
(***************************************************************************)
(* The transaction on the no-shows.                                        *)
(***************************************************************************)

\* the tables the transaction begins with
Tables == [resv |-> resv, waits |-> waits, accounts |-> accounts]

\* g is the course of a transaction on the first n rows of the list
Course(g, n, order) ==
  g = [k \in 0..n |-> IF k = 0 THEN Tables ELSE ReleaseOne(g[k - 1], order[k])]

\* Along any list, however long, there is a course.
LEMMA CourseExists ==
  ASSUME NEW order, NEW n \in Nat
  PROVE  \E g : Course(g, n, order)
<1> DEFINE T == {m \in Nat : ~\E g : Course(g, m, order)}
<1> SUFFICES ASSUME T # {} PROVE FALSE
  OBVIOUS
<1>1. PICK m \in T : \A k \in T : m <= k
  BY LeastNumber
<1>2. CASE m = 0
  <2>1. Course([k \in 0..0 |-> Tables], 0, order)
    BY DEF Course
  <2> QED
    BY <1>1, <1>2, <2>1
<1>3. CASE m # 0
  <2>1. m - 1 \in Nat /\ m - 1 \notin T
    BY <1>1, <1>3
  <2>2. PICK g : Course(g, m - 1, order)
    BY <2>1
  <2> DEFINE h == [k \in 0..m |-> IF k = m THEN ReleaseOne(g[m - 1], order[m]) ELSE g[k]]
  <2>3. \A k \in 0..m : h[k] = IF k = 0 THEN Tables ELSE ReleaseOne(h[k - 1], order[k])
    <3>1. \A k \in 0..(m - 1) : g[k] = IF k = 0 THEN Tables ELSE ReleaseOne(g[k - 1], order[k])
      BY <2>2, Zenon DEF Course
    <3>2. h[m] = ReleaseOne(g[m - 1], order[m]) /\ \A k \in 0..(m - 1) : h[k] = g[k]
      BY <1>1
    <3>3. ASSUME NEW k \in 0..m
          PROVE  h[k] = IF k = 0 THEN Tables ELSE ReleaseOne(h[k - 1], order[k])
      <4> HIDE DEF h
      <4>1. CASE k = 0
        BY <1>1, <1>3, <3>1, <3>2, <4>1
      <4>2. CASE k = m
        <5>1. h[k - 1] = g[m - 1]
          BY <1>1, <1>3, <3>2, <4>2
        <5> QED
          BY <1>3, <3>2, <4>2, <5>1
      <4>3. CASE k # 0 /\ k # m
        <5>1. k \in 0..(m - 1) /\ k - 1 \in 0..(m - 1)
          BY <1>1, <4>3
        <5>2. h[k] = g[k] /\ h[k - 1] = g[k - 1]
          BY <3>2, <5>1
        <5> QED
          BY <3>1, <4>3, <5>1, <5>2
      <4> QED
        BY <4>1, <4>2, <4>3
    <3> QED
      BY <3>3
  <2>4. h = [k \in 0..m |-> h[k]]
    OBVIOUS
  <2> HIDE DEF h
  <2>5. Course(h, m, order)
    BY <2>3, <2>4, Zenon DEF Course
  <2> QED
    BY <1>1, <2>5
<1> QED
  BY <1>2, <1>3

\* The transaction takes such a course.
LEMMA ReleasedCourse ==
  ASSUME NEW order, Len(order) \in Nat
  PROVE  \E g : Course(g, Len(order), order) /\ Released(order) = g[Len(order)]
<1> DEFINE g == CHOOSE f : Course(f, Len(order), order)
<1>1. Course(g, Len(order), order)
  BY CourseExists, Zenon
<1>2. Released(order) = g[Len(order)]
  BY DEF Released, Course, Tables
<1> QED
  BY <1>1, <1>2

\* what holds of the tables after each row of the list
Onward(t) ==
  /\ Good(t.resv, t.waits, t.accounts)
  /\ Grown(resv, t.resv)
  /\ "reschedule" \notin Requests => Kept(waits, t.waits, t.resv)

\* While no row is moved, two statements keep the waitlist as one does.
LEMMA KeptTrans ==
  ASSUME NEW w, NEW v, NEW x, NEW r, NEW q, "reschedule" \notin Requests,
         Kept(w, v, r), Grown(r, q), Kept(v, x, q)
  PROVE  Kept(w, x, q)
<1>1. ASSUME NEW row, Linked(row, r) PROVE Linked(row, q)
  BY <1>1 DEF Linked, Grown, Succeeds
<1>2. \A j \in DOMAIN x :
         x[j].status = "PROMOTED" => (j \in DOMAIN w /\ x[j] = w[j]) \/ Linked(x[j], q)
  BY <1>1 DEF Kept
<1> QED
  BY <1>2 DEF Kept, Kin

\* One row more is released.
LEMMA ReleaseOnward ==
  ASSUME TypeOK, AttInv, NEW t, Onward(t), NEW x, x.row \in DOMAIN resv, x.slot \in Slots
  PROVE  Onward(ReleaseOne(t, x))
<1> DEFINE row == [t.resv[x.row] EXCEPT !.status = "CANCELLED", !.reason = "NO_SHOW"]
           r == [t.resv EXCEPT ![x.row] = row]
           a == CreditApply(t.accounts, t.resv[x.row].user, -1)
           f == PromoteFill(r, t.waits, a, x.slot)
<1>1. CASE ~StillMissing(t.resv[x.row])
  BY <1>1 DEF ReleaseOne
<1>2. CASE StillMissing(t.resv[x.row])
  <2>1. /\ t.resv \in Seq(Reservation) /\ x.row \in DOMAIN t.resv
        /\ t.resv[x.row] \in Reservation /\ Attended(t.resv[x.row])
    <3>1. t.resv \in Seq(Reservation) /\ x.row \in DOMAIN t.resv /\ Attended(t.resv[x.row])
      BY DEF Onward, Good, Typed, Grown, Succeeds, AttInv
    <3> QED
      BY <3>1, ElementOfSeq, LenProperties
  <2>2. Succeeds(t.resv[x.row], row)
    BY <1>2, <2>1 DEF StillMissing, Missing, Succeeds, Attended, Ended, Reservation
  <2>3. row \in Reservation /\ ~Live(row)
    BY <2>1 DEF Reservation, Reasons, ResvStatus, Live
  <2>4. r = [t.resv EXCEPT ![x.row].status = "CANCELLED", ![x.row].reason = "NO_SHOW"]
    BY <2>1
  <2> HIDE DEF row
  <2>5. r \in Seq(Reservation) /\ Grown(t.resv, r)
    BY <2>1, <2>2, <2>3, ExceptSeq, LenProperties, GrownRow
  <2>6. a \in [Users -> Account]
    <3>1. t.accounts \in [Users -> Account] /\ -1 \in Int
      BY <2>1 DEF Onward, Good, Typed
    <3>2. t.resv[x.row].user \in Users
      BY <2>1 DEF Reservation
    <3> QED
      BY <3>1, <3>2, CreditType
  <2>7. /\ Good(r, t.waits, a) /\ Typed(r, t.waits, a) /\ Grown(resv, r)
        /\ "reschedule" \notin Requests => Kept(waits, t.waits, r)
    <3>0. Good(r, t.waits, t.accounts)
      BY <2>1, <2>3, GoodRow DEF Onward
    <3> HIDE DEF r, a
    <3>1. Good(r, t.waits, a) /\ Typed(r, t.waits, a)
      BY <2>6, <3>0, GoodAccounts DEF Good
    <3>2. Grown(resv, r)
      BY <2>5, GrownTrans DEF Onward
    <3>3. "reschedule" \notin Requests => Kept(waits, t.waits, r)
      BY <2>5, KeptSame, KeptTrans DEF Onward
    <3> QED
      BY <3>1, <3>2, <3>3
  <2>8. /\ Good(f.resv, f.waits, a) /\ Grown(r, f.resv) /\ Kept(t.waits, f.waits, f.resv)
    <3> HIDE DEF r, a
    <3> QED
      BY <2>7, FillGrows, GoodFill
  <2> HIDE DEF r, a
  <2>9. ReleaseOne(t, x) \in {[resv |-> f.resv, waits |-> f.waits, accounts |-> a],
                             [resv |-> r, waits |-> t.waits, accounts |-> a]}
    BY <1>2, <2>4, Zenon DEF ReleaseOne, a
  <2> HIDE DEF f
  <2> QED
    BY <2>7, <2>8, <2>9, GrownTrans, KeptTrans DEF Onward
<1> QED
  BY <1>1, <1>2

\* Whatever order the query returns, the whole transaction keeps the tables.
LEMMA ReleasedOnward ==
  ASSUME SInv, NEW order \in SetToSeqs(sweep.listed)
  PROVE  Onward(Released(order))
<1> DEFINE n == Len(order)
<1>1. n \in Nat /\ \A k \in 1..n : order[k] \in sweep.listed
  <2>1. Cardinality(sweep.listed) \in Nat
    BY FS_CardinalityType DEF SInv, SweepTyped
  <2>2. order \in [1..Cardinality(sweep.listed) -> sweep.listed]
    BY DEF SetToSeqs
  <2>3. order \in Seq(sweep.listed)
    BY <2>1, <2>2, SeqDef
  <2> QED
    BY <2>3, LenProperties, ElementOfSeq
<1>2. PICK g : Course(g, n, order) /\ Released(order) = g[n]
  BY <1>1, ReleasedCourse
<1>3. g[0] = Tables /\ \A k \in 1..n : g[k] = ReleaseOne(g[k - 1], order[k])
  BY <1>1, <1>2 DEF Course
<1> DEFINE T == {k \in 0..n : Onward(g[k])}
<1>4. 0 \in T
  <2>1. Onward(Tables)
    BY GoodNow, GrownSame, KeptSame DEF Onward, Tables, SInv
  <2> QED
    BY <1>1, <1>3, <2>1
<1>5. ASSUME NEW k \in 0..(n - 1), k \in T PROVE k + 1 \in T
  <2>1. k + 1 \in 1..n /\ k + 1 \in 0..n /\ (k + 1) - 1 = k
    BY <1>1
  <2>2. order[k + 1].row \in DOMAIN resv /\ order[k + 1].slot \in Slots
    BY <1>1, <2>1 DEF SInv, SweepTyped
  <2>3. Onward(g[k])
    BY <1>5
  <2>4. Onward(ReleaseOne(g[k], order[k + 1]))
    BY <2>2, <2>3, ReleaseOnward DEF SInv
  <2>5. g[k + 1] = ReleaseOne(g[k], order[k + 1])
    BY <1>3, <2>1
  <2> QED
    BY <2>1, <2>4, <2>5
<1>6. n \in T
  <2> HIDE DEF T, n
  <2> QED
    BY <1>1, <1>4, <1>5, UpTo
<1> QED
  BY <1>2, <1>6
-----------------------------------------------------------------------------
(***************************************************************************)
(* What the sweeper remembers.                                             *)
(***************************************************************************)

\* Rows of the tables that may become others: what requests and most statements
\* of the sweeper do.
Flows == Grown(resv, resv') /\ DOMAIN waits \subseteq DOMAIN waits'
         /\ \A j \in DOMAIN waits : Kin(waits'[j], waits[j])

\* What it remembers outlives the requests.
LEMMA FlowKeeps ==
  ASSUME SInv, Flows, now \in Nat, now' \in Nat, now <= now', sweep' = sweep
  PROVE  SweepTyped' /\ Overdue'
<1>1. SweepTyped'
  BY DEF SInv, SweepTyped, Flows, Grown, Kin
<1>2. Overdue'
  BY DEF SInv, SweepTyped, Overdue, Flows, Grown, Succeeds
<1> QED
  BY <1>1, <1>2

\* A request between two steps of a sweep.
LEMMA RequestKeeps ==
  ASSUME SInv, [Next]_vars, sweep' = sweep
  PROVE  SInv' /\ Flows /\ Step /\ NoFuller
<1>1. TypeOK /\ AttInv
  BY DEF SInv
<1>2. TypeOK' /\ AttInv' /\ Step /\ NoFuller
  BY <1>1, NextSound, AttKeeps, NextStep DEF Sound
<1>3. now \in Nat /\ now' \in Nat
  BY <1>1, <1>2, ServiceAssumption DEF TypeOK
<1>4. now <= now'
  BY <1>3, TimePasses DEF Tick
<1>5. Flows
  BY <1>2 DEF Step, Kept, Flows
<1> QED
  BY <1>2, <1>3, <1>4, <1>5, FlowKeeps DEF SInv

\* The rows a query returns.
LEMMA ItemsTyped ==
  ASSUME TypeOK, NEW D \in SUBSET DOMAIN resv
  PROVE  /\ {Item(i) : i \in D} \in SUBSET [row: Nat, slot: Slots]
         /\ IsFiniteSet({Item(i) : i \in D})
         /\ \A x \in {Item(i) : i \in D} : x.row \in DOMAIN resv /\ x.row \in D
<1>1. DOMAIN resv = 1..Len(resv) /\ Len(resv) \in Nat
  BY LenProperties DEF TypeOK
<1>2. IsFiniteSet(D)
  <2>1. IsFiniteSet(1..Len(resv))
    BY <1>1, FS_Interval
  <2> QED
    BY <1>1, <2>1, FS_Subset
<1>3. IsFiniteSet({Item(i) : i \in D})
  <2> DEFINE f == [i \in D |-> Item(i)]
  <2>1. f \in Surjection(D, {Item(i) : i \in D})
    BY DEF Surjection
  <2> HIDE DEF f
  <2> QED
    BY <1>2, <2>1, FS_Surjection
<1> QED
  BY <1>1, <1>3, ResvRow DEF Item

\* A query changes no table; the holds it returns are overdue at the time it was run.
LEMMA ListKeeps ==
  ASSUME SInv, ListHolds \/ ListNoShows
  PROVE  SInv' /\ Flows
<1>1. TypeOK /\ AttInv /\ now \in Nat
  BY ServiceAssumption DEF SInv, TypeOK
<1>2. UNCHANGED vars
  BY DEF ListHolds, ListNoShows
<1>3. TypeOK' /\ AttInv' /\ Flows
  BY <1>1, <1>2, GrownSame DEF vars, TypeOK, AttInv, Attended, Started, Flows, Kin
<1>4. CASE ListHolds
  <2> DEFINE D == {k \in DOMAIN resv : HoldOverdue(resv[k], now)}
  <2>1. sweep' = [pc |-> "holds", at |-> now, listed |-> {Item(i) : i \in D}, slot |-> {},
                  wait |-> 0, rid |-> 0]
    BY <1>4 DEF ListHolds, Idle
  <2>2. SweepTyped'
    <3> DEFINE listed == {Item(i) : i \in D}
    <3>1. /\ listed \in SUBSET [row: Nat, slot: Slots] /\ IsFiniteSet(listed)
          /\ \A x \in listed : x.row \in DOMAIN resv
      BY <1>1, ItemsTyped
    <3> HIDE DEF listed
    <3> QED
      BY <1>1, <1>2, <2>1, <3>1 DEF SweepTyped, Pcs, vars, listed
  <2>3. Overdue'
    <3>1. \A x \in {Item(i) : i \in D} : HoldOverdue(resv[x.row], now)
      BY DEF Item
    <3> QED
      BY <1>2, <2>1, <3>1 DEF Overdue, vars
  <2> QED
    BY <1>3, <2>2, <2>3 DEF SInv
<1>5. CASE ListNoShows
  <2> DEFINE D == {k \in DOMAIN resv : NoShow(resv[k], sweep.at)}
  <2>1. sweep' = [sweep EXCEPT !.pc = "release", !.listed = {Item(i) : i \in D}]
    BY <1>5 DEF ListNoShows
  <2>2. SweepTyped'
    <3> DEFINE listed == {Item(i) : i \in D}
    <3>1. /\ listed \in SUBSET [row: Nat, slot: Slots] /\ IsFiniteSet(listed)
          /\ \A x \in listed : x.row \in DOMAIN resv
      BY <1>1, ItemsTyped
    <3> HIDE DEF listed
    <3> QED
      BY <1>1, <1>2, <2>1, <3>1 DEF SInv, SweepTyped, Pcs, vars, listed
  <2>3. Overdue'
    BY <2>1 DEF SInv, SweepTyped, Overdue
  <2> QED
    BY <1>3, <2>2, <2>3 DEF SInv
<1> QED
  BY <1>4, <1>5

\* An overdue hold expires; one that is no hold any more is passed over.
LEMMA ExpireKeeps ==
  ASSUME SInv, NEW x \in sweep.listed, Expire(x)
  PROVE  SInv'
<1>1. /\ TypeOK /\ AttInv /\ now \in Nat
      /\ x.row \in DOMAIN resv /\ x.slot \in Slots
  BY ServiceAssumption DEF SInv, TypeOK, SweepTyped
<1>2. IsFiniteSet(sweep.listed \ {x})
  BY FS_Subset DEF SInv, SweepTyped
<1>3. CASE ~StillHeld(resv[x.row])
  <2>1. UNCHANGED vars /\ sweep' = [sweep EXCEPT !.listed = sweep.listed \ {x}]
    BY <1>3 DEF Expire
  <2>2. TypeOK' /\ AttInv'
    BY <1>1, <2>1 DEF vars, TypeOK, AttInv, Attended, Started
  <2>3. SweepTyped' /\ Overdue'
    BY <1>2, <2>1 DEF SInv, SweepTyped, Overdue, vars
  <2> QED
    BY <2>2, <2>3 DEF SInv
<1>4. CASE StillHeld(resv[x.row])
  <2> DEFINE row == [resv[x.row] EXCEPT !.status = "EXPIRED", !.deadline = 0]
             r == [resv EXCEPT ![x.row] = row]
  <2>1. /\ Commit(r, waits, accounts)
        /\ sweep' = [sweep EXCEPT !.pc = "fill", !.slot = {x.slot}, !.listed = sweep.listed \ {x}]
    BY <1>1, <1>4 DEF Expire
  <2>2. resv[x.row] \in Reservation /\ resv[x.row].status = "HELD" /\ Attended(resv[x.row])
    BY <1>1, <1>4, ResvRow DEF StillHeld, AttInv
  <2>3. row \in Reservation /\ Attended(row) /\ row.status # "HELD"
    BY <2>2 DEF Reservation, ResvStatus, Attended
  <2> HIDE DEF row
  <2>4. /\ r \in Seq(Reservation) /\ DOMAIN r = DOMAIN resv /\ r[x.row] = row
        /\ \A i \in DOMAIN resv : i # x.row => r[i] = resv[i]
    BY <1>1, <2>3, ExceptSeq, LenProperties DEF TypeOK
  <2> HIDE DEF r
  <2>5. /\ resv' = r /\ waits' = waits /\ accounts' = accounts
        /\ now' = now /\ slots' = slots /\ labs' = labs
    BY <2>1 DEF Commit
  <2>6. TypeOK'
    BY <1>1, <2>4, <2>5 DEF TypeOK
  <2>7. AttInv'
    BY <1>1, <2>3, <2>4, <2>5 DEF AttInv, Attended, Started
  <2>8. SweepTyped'
    BY <1>1, <1>2, <2>1, <2>4, <2>5 DEF SInv, SweepTyped, Pcs
  <2>9. Overdue'
    BY <2>1, <2>3, <2>4, <2>5 DEF SInv, SweepTyped, Overdue, Expire
  <2> QED
    BY <2>6, <2>7, <2>8, <2>9 DEF SInv
<1> QED
  BY <1>3, <1>4

\* The promotion looks for a waiter.
LEMMA PickKeeps ==
  ASSUME SInv, NEW s \in sweep.slot, Pick(s)
  PROVE  SInv' /\ Flows /\ Kept(waits, waits', resv') /\ resv' = resv
<1> DEFINE w == SkipStale(waits, accounts, s)
           queue == Executable(resv, waits, accounts, s)
<1>1. TypeOK /\ AttInv /\ now \in Nat /\ s \in Slots
  BY ServiceAssumption DEF SInv, TypeOK, SweepTyped
<1>2. waits \in Seq(Wait) /\ DOMAIN waits = 1..Len(waits) /\ Len(waits) \in Nat
  BY <1>1, LenProperties DEF TypeOK
<1>3. \A j \in DOMAIN waits : waits[j] \in Wait
  BY <1>2, ElementOfSeq
<1>4. /\ DOMAIN w = DOMAIN waits
      /\ \A j \in DOMAIN waits : w[j] = IF j \in Stale(waits, accounts, s)
                                       THEN [waits[j] EXCEPT !.status = "SKIPPED"] ELSE waits[j]
  BY DEF SkipStale
<1>5. \A j \in Stale(waits, accounts, s) : waits[j].status = "WAITING"
  BY DEF Stale, Waiting
<1>6. \A j \in DOMAIN waits : w[j] \in Wait /\ Kin(w[j], waits[j]) /\ w[j].since = waits[j].since
  BY <1>3, <1>4 DEF Wait, WaitStatus, Kin
<1>7. w \in Seq(Wait)
  <2>1. w = [j \in 1..Len(waits) |-> w[j]]
    BY <1>2 DEF SkipStale
  <2> HIDE DEF w
  <2>2. w \in [1..Len(waits) -> Wait]
    BY <1>2, <1>6, <2>1
  <2> QED
    BY <1>2, <2>2, SeqDef
<1>8. Kept(waits, w, resv)
  <2>1. \A j \in DOMAIN waits : w[j] = waits[j] \/ w[j].status = "SKIPPED"
    BY <1>3, <1>4 DEF Wait
  <2> HIDE DEF w
  <2> QED
    BY <1>4, <1>5, <1>6, <2>1 DEF Kept
<1> HIDE DEF w
<1>9. queue \in SUBSET (1..Len(waits)) /\ \A j \in queue : waits[j].slot = s
  BY <1>2 DEF Executable, Waiting
<1>10. ASSUME queue # {} PROVE Nth(waits, accounts, queue, 0) \in queue
  <2> HIDE DEF queue
  <2>1. /\ accounts \in [Users -> Account] /\ now \in 0..MaxTime
        /\ \A j \in DOMAIN waits : waits[j].since <= now
    BY <1>1 DEF TypeOK
  <2>2. IsFiniteSet(queue) /\ Cardinality(queue) \in Nat
    BY <1>2, <1>9, <2>1, RankNumbers
  <2>3. 0 \in 0..(Cardinality(queue) - 1)
    BY <1>10, <2>2, FS_EmptySet
  <2> QED
    BY <1>2, <1>9, <2>1, <2>3, NthRow
<1>11. CASE Free(resv, s) <= 0
  <2>1. UNCHANGED vars /\ sweep' = [sweep EXCEPT !.pc = "holds", !.slot = {}]
    BY <1>11 DEF Pick
  <2>2. TypeOK' /\ AttInv' /\ Flows /\ Kept(waits, waits', resv') /\ resv' = resv
    BY <1>1, <2>1, GrownSame, KeptSame
       DEF vars, TypeOK, AttInv, Attended, Started, Flows, Kin
  <2>3. SweepTyped' /\ Overdue'
    BY <2>1 DEF SInv, SweepTyped, Pcs, Overdue, Pick, vars
  <2> QED
    BY <2>2, <2>3 DEF SInv
<1>12. CASE ~(Free(resv, s) <= 0)
  <2>1. /\ Commit(resv, w, accounts)
        /\ sweep' = IF queue = {} THEN [sweep EXCEPT !.pc = "holds", !.slot = {}]
                    ELSE [sweep EXCEPT !.pc = "grant", !.wait = Nth(waits, accounts, queue, 0)]
    BY <1>12 DEF Pick, w
  <2>2. /\ resv' = resv /\ waits' = w /\ accounts' = accounts
        /\ now' = now /\ slots' = slots /\ labs' = labs
    BY <2>1 DEF Commit
  <2>3. TypeOK'
    BY <1>1, <1>4, <1>6, <1>7, <2>2 DEF TypeOK
  <2>4. AttInv' /\ Flows
    BY <1>1, <1>4, <1>6, <2>2, GrownSame DEF AttInv, Attended, Started, Flows
  <2> HIDE DEF queue
  <2>5. SweepTyped'
    <3>1. CASE queue = {}
      BY <2>1, <2>2, <3>1 DEF SInv, SweepTyped, Pcs
    <3>2. CASE queue # {}
      <4> DEFINE j == Nth(waits, accounts, queue, 0)
      <4>0. j \in queue
        BY <1>10, <3>2
      <4>1. j \in queue /\ j \in DOMAIN waits /\ j \in Nat /\ waits[j].slot = s
        <5> HIDE DEF j
        <5> QED
          BY <1>2, <1>9, <4>0
      <4>2. w[j].slot = s
        BY <1>6, <4>1 DEF Kin
      <4>3. sweep' = [sweep EXCEPT !.pc = "grant", !.wait = j]
        BY <2>1, <3>2
      <4>4. sweep.slot = {s} /\ SweepTyped
        BY DEF SInv, SweepTyped
      <4> HIDE DEF j
      <4>5. /\ sweep' \in [pc: Pcs, at: Nat, listed: SUBSET [row: Nat, slot: Slots],
                           slot: SUBSET Slots, wait: Nat, rid: Nat]
            /\ sweep'.at = sweep.at /\ sweep'.listed = sweep.listed
            /\ sweep'.slot = sweep.slot /\ sweep'.wait = j
        BY <4>1, <4>3, <4>4 DEF SweepTyped, Pcs
      <4> HIDE DEF w
      <4> QED
        BY <1>4, <2>2, <4>1, <4>2, <4>4, <4>5 DEF SweepTyped
    <3> QED
      BY <3>1, <3>2
  <2>6. Overdue'
    BY <2>1, <2>2 DEF SInv, SweepTyped, Overdue, Pick
  <2> QED
    BY <1>8, <2>2, <2>3, <2>4, <2>5, <2>6 DEF SInv
<1> QED
  BY <1>11, <1>12

\* The chosen waiter gets a row, whatever has become of the seat meanwhile.
LEMMA GrantKeeps ==
  ASSUME SInv, NEW s \in sweep.slot, Grant(s)
  PROVE  /\ SInv' /\ Flows /\ waits' = waits
         /\ Grown(resv, resv')
         /\ LinkDue'
<1> DEFINE row == GrantedRow(waits[sweep.wait].user, s)
           r == Append(resv, row)
<1>1. /\ TypeOK /\ AttInv /\ now \in Nat /\ s \in Slots
      /\ sweep.wait \in DOMAIN waits /\ waits[sweep.wait].slot = s /\ sweep.slot = {s}
  <2>1. TypeOK /\ AttInv /\ SweepTyped
    BY DEF SInv
  <2>2. now \in Nat
    BY <2>1, ServiceAssumption DEF TypeOK
  <2>3. s \in Slots /\ sweep.slot = {s}
    BY <2>1 DEF SweepTyped
  <2>4. sweep.wait \in DOMAIN waits /\ waits[sweep.wait].slot = s
    BY <2>1, <2>3 DEF SweepTyped, Grant
  <2> QED
    BY <2>1, <2>2, <2>3, <2>4
<1>2. waits[sweep.wait] \in Wait
  BY <1>1, ElementOfSeq, LenProperties DEF TypeOK
<1>3. /\ row \in Reservation /\ Attended(row)
      /\ row.user = waits[sweep.wait].user /\ row.slot = s /\ row.source = "WAITLIST"
  <2>1. waits[sweep.wait].user \in Users
    BY <1>2 DEF Wait
  <2> QED
    BY <1>1, <2>1, GrantedType, FreshRows DEF GrantedRow, Row
<1> HIDE DEF row
<1>4. /\ r \in Seq(Reservation) /\ DOMAIN r = DOMAIN resv \cup {Len(resv) + 1}
      /\ r[Len(resv) + 1] = row /\ Len(resv) \in Nat
  BY <1>1, <1>3, AppendProperties, LenProperties DEF TypeOK
<1>5. Grown(resv, r)
  BY <1>1, <1>3, GrownAppend DEF TypeOK
<1> HIDE DEF r
<1>6. /\ resv' = r /\ waits' = waits /\ UNCHANGED <<now, slots, labs, accounts>>
      /\ sweep' = [sweep EXCEPT !.pc = "link", !.rid = Len(resv) + 1] /\ sweep.pc = "grant"
  BY DEF Grant, Write, r, row
<1>7. TypeOK'
  BY <1>1, <1>4, <1>6 DEF TypeOK
<1>8. Flows
  BY <1>5, <1>6 DEF Flows, Kin
<1>9. AttInv'
  BY <1>1, <1>5, <1>6 DEF AttInv, Attended, Started, Grown, Succeeds
<1>10. SweepTyped'
  <2>1. SweepTyped
    BY DEF SInv
  <2>2. /\ sweep' \in [pc: Pcs, at: Nat, listed: SUBSET [row: Nat, slot: Slots],
                      slot: SUBSET Slots, wait: Nat, rid: Nat]
        /\ sweep'.at = sweep.at /\ sweep'.listed = sweep.listed
        /\ sweep'.slot = sweep.slot /\ sweep'.wait = sweep.wait
    <3> DEFINE m == Len(resv) + 1
    <3>1. m \in Nat /\ sweep' = [sweep EXCEPT !.pc = "link", !.rid = m]
      BY <1>4, <1>6
    <3> HIDE DEF m
    <3> QED
      BY <2>1, <3>1 DEF SweepTyped, Pcs
  <2>3. \A x \in sweep.listed : x.row \in DOMAIN r
    BY <1>4, <2>1 DEF SweepTyped
  <2> QED
    BY <1>1, <1>6, <2>1, <2>2, <2>3 DEF SweepTyped
<1>11. Overdue'
  BY <1>5, <1>6 DEF SInv, SweepTyped, Overdue, Grown, Succeeds
<1>12. LinkDue'
  <2>1. sweep'.rid = Len(resv) + 1 /\ sweep'.wait = sweep.wait
    BY <1>6 DEF SInv, SweepTyped
  <2> QED
    BY <1>1, <1>2, <1>3, <1>4, <1>6, <2>1 DEF LinkDue, Linked, Promoted, Wait
<1> QED
  BY <1>5, <1>6, <1>7, <1>8, <1>9, <1>10, <1>11, <1>12 DEF SInv

\* The waitlist row is marked, whatever has become of it meanwhile.
LEMMA LinkKeeps ==
  ASSUME SInv, Link
  PROVE  /\ SInv' /\ Flows /\ resv' = resv
         /\ waits' = [waits EXCEPT ![sweep.wait] = Promoted(waits[sweep.wait], sweep.rid)]
<1> DEFINE row == Promoted(waits[sweep.wait], sweep.rid)
           w == [waits EXCEPT ![sweep.wait] = row]
<1>1. /\ TypeOK /\ AttInv /\ now \in Nat /\ sweep.wait \in DOMAIN waits /\ sweep.rid \in Nat
  BY ServiceAssumption DEF SInv, TypeOK, SweepTyped, Link
<1>2. waits[sweep.wait] \in Wait
  BY <1>1, ElementOfSeq, LenProperties DEF TypeOK
<1>3. row \in Wait /\ Kin(row, waits[sweep.wait]) /\ row.since = waits[sweep.wait].since
  BY <1>1, <1>2 DEF Promoted, Wait, WaitStatus, Kin
<1>4. /\ resv' = resv /\ waits' = w /\ UNCHANGED <<now, slots, labs, accounts>>
      /\ sweep' = [sweep EXCEPT !.pc = "fill", !.wait = 0, !.rid = 0] /\ sweep.pc = "link"
  BY DEF Link, Write
<1> HIDE DEF row
<1>5. /\ w \in Seq(Wait) /\ DOMAIN w = DOMAIN waits /\ w[sweep.wait] = row
      /\ \A j \in DOMAIN waits : j # sweep.wait => w[j] = waits[j]
  BY <1>1, <1>3, ExceptSeq, LenProperties DEF TypeOK
<1>6. waits' = [waits EXCEPT ![sweep.wait] = Promoted(waits[sweep.wait], sweep.rid)]
  BY <1>4 DEF row
<1> HIDE DEF w
<1>7. TypeOK'
  BY <1>1, <1>3, <1>4, <1>5 DEF TypeOK
<1>8. Flows
  BY <1>3, <1>4, <1>5, GrownSame DEF Flows, Kin
<1>9. AttInv'
  BY <1>1, <1>4 DEF AttInv, Attended, Started
<1>10. SweepTyped' /\ Overdue'
  BY <1>4 DEF SInv, SweepTyped, Pcs, Overdue
<1> QED
  BY <1>4, <1>6, <1>7, <1>8, <1>9, <1>10 DEF SInv

\* Where no sweep is under way nothing is remembered.
LEMMA IdleKept ==
  ASSUME now' \in Nat, sweep' = Idle
  PROVE  SweepTyped' /\ Overdue'
BY FS_EmptySet DEF SweepTyped, Overdue, Idle, Pcs

\* The transaction on the no-shows, and with it the sweep, ends.
LEMMA ReleaseKeeps ==
  ASSUME SInv, Release
  PROVE  /\ SInv' /\ Grown(resv, resv') /\ NoFuller
         /\ "reschedule" \notin Requests => Kept(waits, waits', resv')
<1>1. PICK order \in SetToSeqs(sweep.listed) :
         /\ resv' = Released(order).resv /\ waits' = Released(order).waits
         /\ accounts' = Released(order).accounts
  BY Zenon DEF Release
<1>2. Onward(Released(order))
  BY ReleasedOnward
<1>3. /\ Typed(resv', waits', accounts') /\ Grown(resv, resv')
      /\ "reschedule" \notin Requests => Kept(waits, waits', resv')
  BY <1>1, <1>2 DEF Onward, Good
<1>4. UNCHANGED <<now, slots, labs>> /\ sweep' = Idle
  BY DEF Release
<1>8. NoFuller
  <2>1. \A s \in Slots : Free(resv, s)' = Free(Released(order).resv, s)
    BY <1>1, <1>4 DEF Free, Seated
  <2> QED
    BY <1>2, <2>1 DEF Onward, Good, NoFuller
<1>5. TypeOK'
  BY <1>3, <1>4 DEF SInv, TypeOK, Typed
<1>6. AttInv'
  BY <1>3, <1>4 DEF SInv, AttInv, Grown, Succeeds, Attended, Started
<1>7. now' \in Nat
  BY <1>5, ServiceAssumption DEF TypeOK
<1> QED
  BY <1>3, <1>4, <1>5, <1>6, <1>7, <1>8, IdleKept DEF SInv

\* A sweep is cut short.
LEMMA FailKeeps ==
  ASSUME SInv, Fail
  PROVE  SInv'
<1>1. UNCHANGED vars /\ sweep' = Idle
  BY DEF Fail
<1>2. TypeOK' /\ AttInv' /\ now' \in Nat
  BY <1>1, ServiceAssumption DEF SInv, vars, TypeOK, AttInv, Attended, Started
<1> QED
  BY <1>1, <1>2, IdleKept DEF SInv
-----------------------------------------------------------------------------
(***************************************************************************)
(* The seats.                                                              *)
(***************************************************************************)
\* The slot for which the sweeper is about to insert is not oversold: it had a
\* free seat when the sweeper counted, and requests oversell nothing.
PickedFits == sweep.pc = "grant" => \A s \in sweep.slot : Free(resv, s) >= 0

\* what a step does to the seats
Within(s) ==
  (Free(resv, s)' < 0 /\ Free(resv, s)' < Free(resv, s)) =>
     /\ Free(resv, s) = 0 /\ Free(resv, s)' = -1
     /\ sweep.pc = "grant" /\ s \in sweep.slot

LEMMA FreeNumbers ==
  ASSUME TypeOK, TypeOK', NEW s \in Slots
  PROVE  Free(resv, s) \in Int /\ Free(resv, s)' \in Int
<1>1. slots'[s].capacity \in Int /\ Cardinality(Seated(resv', s)) \in Int
  BY SeatedFinite, BoundsAssumption DEF TypeOK
<1>2. Free(resv, s)' = slots'[s].capacity - Cardinality(Seated(resv', s))
  BY DEF Free, Seated
<1> QED
  BY <1>1, <1>2, FreeInt DEF TypeOK

\* Steps that fill no slot beyond its capacity.
LEMMA NoFullerWithin ==
  ASSUME TypeOK, TypeOK', NoFuller
  PROVE  /\ \A s \in Slots : Within(s)
         /\ \A s \in Slots : Free(resv, s) >= 0 => Free(resv, s)' >= 0
<1>1. ASSUME NEW s \in Slots
      PROVE  Within(s) /\ (Free(resv, s) >= 0 => Free(resv, s)' >= 0)
  <2>1. Free(resv, s) \in Int /\ Free(resv, s)' \in Int
    BY FreeNumbers
  <2>2. Free(resv, s)' >= 0 \/ Free(resv, s)' >= Free(resv, s)
    BY DEF NoFuller
  <2> QED
    BY <2>1, <2>2 DEF Within
<1> QED
  BY <1>1

\* An expired hold gives its seat up.
LEMMA ExpireFrees ==
  ASSUME SInv, NEW x \in sweep.listed, Expire(x)
  PROVE  NoFuller
<1>1. TypeOK /\ x.row \in DOMAIN resv
  BY DEF SInv, SweepTyped
<1>2. CASE ~StillHeld(resv[x.row])
  <2>1. UNCHANGED vars
    BY <1>2 DEF Expire
  <2> QED
    BY <1>1, <2>1, NextSound DEF Sound
<1>3. CASE StillHeld(resv[x.row])
  <2> DEFINE row == [resv[x.row] EXCEPT !.status = "EXPIRED", !.deadline = 0]
             r == [resv EXCEPT ![x.row] = row]
  <2>1. Commit(r, waits, accounts)
    BY <1>1, <1>3 DEF Expire
  <2>0. resv[x.row] \in Reservation
    BY <1>1, ResvRow
  <2>2. row \in Reservation /\ ~Live(row)
    BY <2>0 DEF Reservation, ResvStatus, Live
  <2> HIDE DEF row
  <2>3. Good(r, waits, accounts)
    BY <1>1, <2>2, GoodNow, GoodRow
  <2> HIDE DEF r
  <2>4. Sound
    BY <1>1, <2>1, <2>3, GoodCommit
  <2> QED
    BY <2>4 DEF Sound
<1> QED
  BY <1>2, <1>3

\* The sweeper inserts one row, in a slot that is not oversold.
LEMMA GrantTakesOne ==
  ASSUME SInv, PickedFits, NEW p \in sweep.slot, Grant(p), NEW s \in Slots
  PROVE  Within(s) /\ (s # p => Free(resv, s)' = Free(resv, s))
<1> DEFINE row == GrantedRow(waits[sweep.wait].user, p)
<1>1. /\ resv \in Seq(Reservation) /\ Len(resv) \in Nat /\ DOMAIN resv = 1..Len(resv)
      /\ TypeOK /\ TypeOK' /\ p \in Slots
  BY LenProperties, GrantKeeps DEF SInv, TypeOK, SweepTyped
<1>2. row.slot = p /\ row \in Reservation
  <2>1. sweep.wait \in DOMAIN waits
    BY DEF SInv, SweepTyped, Grant
  <2>2. waits[sweep.wait] \in Wait
    BY <1>1, <2>1, ElementOfSeq, LenProperties DEF TypeOK
  <2>3. waits[sweep.wait].user \in Users
    BY <2>2 DEF Wait
  <2>4. now \in Nat
    BY <1>1, ServiceAssumption DEF TypeOK
  <2> QED
    BY <1>1, <2>3, <2>4, GrantedType DEF row
<1> HIDE DEF row
<1>3. resv' = Append(resv, row) /\ slots' = slots /\ sweep.pc = "grant"
  BY DEF Grant, Write, row
<1>4. /\ DOMAIN resv' = 1..(Len(resv) + 1)
      /\ \A k \in 1..Len(resv) : resv'[k] = resv[k]
      /\ resv'[Len(resv) + 1] = row
  BY <1>1, <1>2, <1>3, AppendProperties, LenProperties
<1>5. CASE s # p
  <2>1. Seated(resv', s) = Seated(resv, s)
    BY <1>1, <1>2, <1>4, <1>5 DEF Seated
  <2>2. Free(resv, s)' = Free(resv, s) /\ Free(resv, s) \in Int
    BY <1>1, <1>3, <2>1, FreeNumbers DEF Free, Seated
  <2> QED
    BY <2>2 DEF Within
<1>6. CASE s = p
  <2>1. Seated(resv', s) \subseteq Seated(resv, s) \cup {Len(resv) + 1}
    BY <1>1, <1>4 DEF Seated
  <2>2. /\ IsFiniteSet(Seated(resv, s)) /\ Cardinality(Seated(resv, s)) \in Nat
        /\ Cardinality(Seated(resv', s)) \in Nat /\ slots[s].capacity \in Nat
    BY <1>1, SeatedFinite, BoundsAssumption DEF TypeOK
  <2>3. Cardinality(Seated(resv', s)) <= Cardinality(Seated(resv, s)) + 1
    <3> DEFINE more == Seated(resv, s) \cup {Len(resv) + 1}
    <3>1. /\ IsFiniteSet(more)
          /\ \/ Cardinality(more) = Cardinality(Seated(resv, s))
             \/ Cardinality(more) = Cardinality(Seated(resv, s)) + 1
      BY <2>2, FS_AddElement
    <3>2. Cardinality(Seated(resv', s)) <= Cardinality(more)
      BY <2>1, <3>1, FS_Subset
    <3> HIDE DEF more
    <3> QED
      BY <2>2, <3>1, <3>2
  <2>4. Free(resv, s)' = slots[s].capacity - Cardinality(Seated(resv', s))
    BY <1>3 DEF Free, Seated
  <2>5. Free(resv, s)' >= Free(resv, s) - 1 /\ Free(resv, s) \in Int /\ Free(resv, s)' \in Int
    BY <2>2, <2>3, <2>4 DEF Free
  <2>6. Free(resv, s) >= 0
    BY <1>3, <1>6 DEF PickedFits
  <2> QED
    BY <1>3, <1>6, <2>5, <2>6 DEF Within
<1> QED
  BY <1>5, <1>6

-----------------------------------------------------------------------------
(***************************************************************************)
(* The theorems.                                                           *)
(***************************************************************************)
\* The initial states satisfy the invariant.
LEMMA SweepInitKeeps == SweepInit => SInv
<1> SUFFICES ASSUME SweepInit PROVE SInv
  OBVIOUS
<1>1. TypeOK
  BY InitKeeps DEF SweepInit, IInv
<1>2. AttInv /\ now \in Nat /\ sweep = Idle
  BY <1>1, ServiceAssumption DEF SweepInit, Init, AttInv, TypeOK
<1>3. SweepTyped /\ Overdue
  BY <1>2, FS_EmptySet DEF SweepTyped, Overdue, Idle, Pcs
<1> QED
  BY <1>1, <1>2, <1>3 DEF SInv

\* Every step of a request or of the sweeper keeps it.
LEMMA SweepNextKeeps == SInv /\ [SweepNext]_allVars => SInv'
<1>1. SInv /\ [Next]_vars /\ sweep' = sweep => SInv'
  BY RequestKeeps
<1>2. SInv /\ Sweep => SInv'
  BY ListKeeps, ExpireKeeps, PickKeeps, GrantKeeps, LinkKeeps, ReleaseKeeps DEF Sweep
<1> QED
  BY <1>1, <1>2, FailKeeps DEF SweepNext, allVars

\* The invariant of the sweeper and the requests together.
THEOREM SweepInvariance == SweepSpec => []SInv
BY SweepInitKeeps, SweepNextKeeps, PTL DEF SweepSpec

\* The tables stay well formed, whatever requests come between the statements
\* of a sweep and wherever it is cut short.
THEOREM SweptTyped == SweepSpec => []TypeOK
<1>1. SInv => TypeOK
  BY DEF SInv
<1> QED
  BY <1>1, SweepInvariance, PTL

\* Nor does the sweeper take an attended booking away, though it lists the
\* no-shows before the transaction that releases them.
THEOREM SweptAttendance == SweepSpec => []AttendanceStands
<1>1. SInv => AttendanceStands
  BY DEF SInv, AttInv, Attended, AttendanceStands
<1> QED
  BY <1>1, SweepInvariance, PTL

\* A request, a hold that expires or the release of no-shows oversells nothing;
\* the promotion in autocommit mode may, but only by the first seat too many.
THEOREM OversellingExplained == SweepSpec => OversoldOnlyByGrant
<1> DEFINE Fits == SInv /\ PickedFits
           Excused == \A s \in Slots : Within(s)
<1>1. SweepInit => Fits
  BY SweepInitKeeps DEF SweepInit, Idle, PickedFits
<1>2. ASSUME Fits, SInv', NoFuller, sweep'.pc = "grant" => sweep' = sweep
      PROVE  Fits' /\ Excused
  <2>1. /\ Excused
        /\ \A s \in Slots : Free(resv, s) >= 0 => Free(resv, s)' >= 0
    BY <1>2, NoFullerWithin DEF SInv
  <2>2. sweep.slot \subseteq Slots
    BY <1>2 DEF SInv, SweepTyped
  <2> QED
    BY <1>2, <2>1, <2>2 DEF PickedFits
<1>3. ASSUME Fits, [Next]_vars, sweep' = sweep PROVE Fits' /\ Excused
  BY <1>2, <1>3, RequestKeeps
<1>4. ASSUME UNCHANGED vars, SInv PROVE NoFuller
  BY <1>4, NextSound DEF Sound, SInv
<1>5. ASSUME Fits, ListHolds \/ ListNoShows \/ Link \/ Fail PROVE Fits' /\ Excused
  <2>1. SInv' /\ sweep'.pc # "grant"
    <3>0. SInv'
      BY <1>5, ListKeeps, LinkKeeps, FailKeeps
    <3>1. CASE ListHolds
      <4>1. PICK L : sweep' = [Idle EXCEPT !.pc = "holds", !.at = now, !.listed = L]
        BY <3>1 DEF ListHolds
      <4>2. sweep'.pc = "holds"
        BY <4>1 DEF Idle
      <4> QED
        BY <3>0, <4>2
    <3>2. CASE ListNoShows
      <4>1. PICK L : sweep' = [sweep EXCEPT !.pc = "release", !.listed = L]
        BY <3>2 DEF ListNoShows
      <4> QED
        BY <1>5, <3>0, <4>1 DEF SInv, SweepTyped
    <3>3. CASE Link
      BY <1>5, <3>0, <3>3 DEF Link, SInv, SweepTyped
    <3>4. CASE Fail
      BY <3>0, <3>4 DEF Fail, Idle
    <3> QED
      BY <1>5, <3>1, <3>2, <3>3, <3>4
  <2>2. NoFuller
    <3>1. CASE Link
      <4>1. resv' = resv /\ slots' = slots
        BY <3>1 DEF Link, Write
      <4>2. \A s \in Slots : Free(resv, s)' = Free(resv, s) /\ Free(resv, s) \in Int
        BY <1>5, <4>1, FreeInt DEF Free, Seated, SInv, TypeOK
      <4> QED
        BY <4>2 DEF NoFuller
    <3> QED
      BY <1>4, <1>5, <3>1 DEF ListHolds, ListNoShows, Fail
  <2> QED
    BY <1>2, <1>5, <2>1, <2>2
<1>6. ASSUME Fits, NEW x \in sweep.listed, Expire(x) PROVE Fits' /\ Excused
  <2>1. SInv' /\ NoFuller
    BY <1>6, ExpireKeeps, ExpireFrees
  <2>2. sweep'.pc # "grant"
    BY <1>6 DEF Expire, SInv, SweepTyped
  <2> QED
    BY <1>2, <1>6, <2>1, <2>2
<1>7. ASSUME Fits, NEW s \in sweep.slot, Pick(s) PROVE Fits' /\ Excused
  <2>1. SInv' /\ resv' = resv /\ slots' = slots
    BY <1>7, PickKeeps DEF Pick, Commit, vars
  <2>2. \A p \in Slots : Free(resv, p)' = Free(resv, p) /\ Free(resv, p) \in Int
    BY <1>7, <2>1, FreeInt DEF Free, Seated, SInv, TypeOK
  <2>3. Excused
    BY <2>2 DEF Within
  <2>4. sweep.slot = {s} /\ s \in Slots
    BY <1>7 DEF SInv, SweepTyped
  <2>5. sweep'.pc = "grant" => sweep'.slot = sweep.slot /\ Free(resv, s) > 0
    <3>1. Free(resv, s) \in Int /\ SweepTyped
      BY <1>7, <2>2, <2>4 DEF SInv
    <3>2. CASE Free(resv, s) <= 0
      <4>1. sweep' = [sweep EXCEPT !.pc = "holds", !.slot = {}]
        BY <1>7, <3>2 DEF Pick
      <4> QED
        BY <3>1, <4>1 DEF SweepTyped
    <3>3. CASE ~(Free(resv, s) <= 0)
      <4>1. PICK n : \/ sweep' = [sweep EXCEPT !.pc = "holds", !.slot = {}]
                     \/ sweep' = [sweep EXCEPT !.pc = "grant", !.wait = n]
        BY <1>7, <3>3, Zenon DEF Pick
      <4>2. sweep'.pc = "grant" => sweep'.slot = sweep.slot
        BY <3>1, <4>1 DEF SweepTyped
      <4> QED
        BY <3>1, <3>3, <4>2
    <3> QED
      BY <3>2, <3>3
  <2>6. PickedFits'
    BY <2>2, <2>4, <2>5 DEF PickedFits
  <2> QED
    BY <2>1, <2>3, <2>6
<1>8. ASSUME Fits, NEW s \in sweep.slot, Grant(s) PROVE Fits' /\ Excused
  <2>1. SInv' /\ Excused
    BY <1>8, GrantKeeps, GrantTakesOne
  <2>2. sweep'.pc # "grant"
    BY <1>8 DEF Grant, SInv, SweepTyped
  <2> QED
    BY <2>1, <2>2 DEF PickedFits
<1>9. ASSUME Fits, Release PROVE Fits' /\ Excused
  <2>1. SInv' /\ NoFuller /\ sweep'.pc # "grant"
    BY <1>9, ReleaseKeeps DEF Release, Idle
  <2> QED
    BY <1>2, <1>9, <2>1
<1>10. Fits /\ [SweepNext]_allVars => Fits' /\ Excused
  <2>1. Fits /\ UNCHANGED allVars => Fits' /\ Excused
    BY <1>3 DEF allVars
  <2> HIDE DEF Fits, Excused
  <2> QED
    BY <1>3, <1>5, <1>6, <1>7, <1>8, <1>9, <2>1 DEF SweepNext, Sweep
<1>11. Fits /\ [SweepNext]_allVars =>
         [\A s \in Slots :
            (Free(resv, s)' < 0 /\ Free(resv, s)' < Free(resv, s)) =>
               /\ Free(resv, s) = 0 /\ Free(resv, s)' = -1
               /\ sweep.pc = "grant" /\ s \in sweep.slot]_allVars
  <2> HIDE DEF Fits
  <2> QED
    BY <1>10 DEF Within
<1> HIDE DEF Fits
<1> QED
  BY <1>1, <1>10, <1>11, PTL DEF SweepSpec, OversoldOnlyByGrant

\* So no slot is ever oversold by more than one seat, however many holds expire
\* and whatever requests come between.
THEOREM OversoldByOne == SweepSpec => [](\A s \in Slots : Free(resv, s) >= -1)
<1> DEFINE Bounded == \A s \in Slots : Free(resv, s) >= -1
           Explained == \A s \in Slots :
                          (Free(resv, s)' < 0 /\ Free(resv, s)' < Free(resv, s)) =>
                             /\ Free(resv, s) = 0 /\ Free(resv, s)' = -1
                             /\ sweep.pc = "grant" /\ s \in sweep.slot
<1>1. SweepInit => Bounded
  <2> SUFFICES ASSUME SweepInit, NEW s \in Slots PROVE Free(resv, s) >= -1
    OBVIOUS
  <2>1. TypeOK /\ SeatsWithinCapacity
    BY InitKeeps DEF SweepInit, IInv
  <2>2. Free(resv, s) \in Int /\ Free(resv, s) >= 0
    BY <2>1, FreeInt, CapacityFree DEF TypeOK
  <2> QED
    BY <2>2
<1>2. SInv /\ SInv' /\ Bounded /\ [Explained]_allVars => Bounded'
  <2> SUFFICES ASSUME SInv, SInv', Bounded, [Explained]_allVars, NEW s \in Slots
               PROVE  Free(resv, s)' >= -1
    OBVIOUS
  <2>1. Free(resv, s) \in Int /\ Free(resv, s)' \in Int /\ Free(resv, s) >= -1
    BY FreeNumbers DEF SInv
  <2>2. CASE UNCHANGED allVars
    <3>1. Free(resv, s)' = Free(resv, s)
      BY <2>2 DEF allVars, vars, Free, Seated
    <3> QED
      BY <2>1, <3>1
  <2>3. CASE Explained
    BY <2>1, <2>3
  <2> QED
    BY <2>2, <2>3
<1> QED
  BY <1>1, <1>2, SweepInvariance, OversellingExplained, PTL DEF SweepSpec, OversoldOnlyByGrant

\* A hold expires only while it is unconfirmed and its time is over, even if
\* requests come between the listing and the update.
THEOREM HoldsExpireLate == SweepSpec => HoldExpiresLate
<1> DEFINE Late == \A i \in DOMAIN resv :
                      (resv[i].status # "EXPIRED" /\ resv'[i].status = "EXPIRED") =>
                         resv[i].status = "HELD" /\ (resv[i].deadline <= now \/ Started(resv[i].slot))
<1>1. ASSUME Grown(resv, resv') PROVE Late
  BY <1>1 DEF Grown, Succeeds
<1>2. ASSUME SInv, NEW x \in sweep.listed, Expire(x) PROVE Late
  <2>1. CASE ~StillHeld(resv[x.row])
    <3>1. resv' = resv
      BY <1>2, <2>1 DEF Expire, vars
    <3> QED
      BY <1>1, <3>1, GrownSame
  <2>2. CASE StillHeld(resv[x.row])
    <3>1. \A i \in DOMAIN resv : i # x.row => resv'[i] = resv[i]
      BY <1>2, <2>2 DEF Expire, Commit
    <3>2. /\ x.row \in DOMAIN resv /\ resv[x.row].status = "HELD"
          /\ HoldOverdue(resv[x.row], sweep.at)
      BY <1>2, <2>2 DEF StillHeld, SInv, SweepTyped, Overdue, Expire
    <3>3. /\ resv[x.row].deadline \in Nat /\ Start[resv[x.row].slot] \in Nat
          /\ now \in Nat /\ sweep.at \in Nat /\ sweep.at <= now
      <4>1. TypeOK /\ SweepTyped
        BY <1>2 DEF SInv
      <4>2. resv[x.row] \in Reservation /\ resv[x.row].slot \in Slots
        BY <3>2, <4>1, ResvRow
      <4>3. resv[x.row].deadline \in Nat /\ Start[resv[x.row].slot] \in Nat
        BY <4>2, SlotsAssumption DEF Reservation
      <4>4. now \in Nat
        BY <4>1, ServiceAssumption DEF TypeOK
      <4> QED
        BY <4>1, <4>3, <4>4 DEF SweepTyped
    <3> QED
      BY <3>1, <3>2, <3>3 DEF HoldOverdue, Started
  <2> QED
    BY <2>1, <2>2
<1>3. SInv /\ [Next]_vars /\ sweep' = sweep => Grown(resv, resv')
  BY RequestKeeps DEF Step
<1>4. SInv /\ Sweep => Grown(resv, resv') \/ \E x \in sweep.listed : Expire(x)
  BY ListKeeps, PickKeeps, GrantKeeps, LinkKeeps, ReleaseKeeps DEF Sweep, Flows
<1>5. Fail => Grown(resv, resv')
  BY GrownSame DEF Fail, vars
<1>6. SInv /\ [SweepNext]_allVars =>
        [\A i \in DOMAIN resv :
           (resv[i].status # "EXPIRED" /\ resv'[i].status = "EXPIRED") =>
              resv[i].status = "HELD" /\ (resv[i].deadline <= now \/ Started(resv[i].slot))]_allVars
  BY <1>1, <1>2, <1>3, <1>4, <1>5 DEF SweepNext, allVars
<1> QED
  BY <1>6, SweepInvariance, PTL DEF SweepSpec, HoldExpiresLate

\* As long as nobody moves a booking, the sweeper too links a waitlist row to a
\* reservation of its user for its slot, even one that was withdrawn or served
\* by somebody else meanwhile.
THEOREM SweptLinks == "reschedule" \notin Requests => (SweepSpec => []PromotedLink)
<1> SUFFICES ASSUME "reschedule" \notin Requests PROVE SweepSpec => []PromotedLink
  OBVIOUS
<1> DEFINE LInv == PromotedLink /\ LinkDue
<1>1. SweepInit => LInv
  BY DEF SweepInit, Init, Idle, PromotedLink, LinkDue
<1>2. ASSUME PromotedLink, Grown(resv, resv'), Kept(waits, waits', resv') PROVE PromotedLink'
  BY <1>2 DEF PromotedLink, Kept, Linked, Grown, Succeeds
<1>3. ASSUME SInv, LinkDue, Flows, sweep' = sweep PROVE LinkDue'
  BY <1>3 DEF SInv, SweepTyped, LinkDue, Linked, Promoted, Flows, Grown, Succeeds, Kin
<1>4. SInv /\ LInv /\ [Next]_vars /\ sweep' = sweep => LInv'
  BY <1>2, <1>3, RequestKeeps DEF Step
<1>5. ASSUME SInv, LInv, UNCHANGED <<resv, waits>>, sweep'.pc # "link" PROVE LInv'
  BY <1>5 DEF PromotedLink, LinkDue
<1>6. ASSUME SInv, LInv, NEW x \in sweep.listed, Expire(x) PROVE LInv'
  <2>1. sweep'.pc # "link" /\ waits' = waits
    BY <1>6 DEF Expire, SInv, SweepTyped, Commit, vars
  <2>2. /\ DOMAIN resv' = DOMAIN resv
        /\ \A i \in DOMAIN resv : /\ resv'[i].user = resv[i].user
                                 /\ resv'[i].slot = resv[i].slot
                                 /\ resv'[i].source = resv[i].source
    <3>1. CASE StillHeld(resv[x.row])
      <4>1. resv' = [resv EXCEPT ![x.row].status = "EXPIRED", ![x.row].deadline = 0]
        BY <1>6, <3>1 DEF Expire, Commit
      <4>2. x.row \in DOMAIN resv /\ resv[x.row] \in Reservation
        BY <1>6, ResvRow DEF SInv, SweepTyped
      <4> QED
        BY <4>1, <4>2 DEF Reservation
    <3>2. CASE ~StillHeld(resv[x.row])
      BY <1>6, <3>2 DEF Expire, vars
    <3> QED
      BY <3>1, <3>2
  <2> QED
    BY <1>6, <2>1, <2>2 DEF PromotedLink, LinkDue
<1>7. ASSUME SInv, LInv, Link PROVE LInv'
  <2>1. /\ resv' = resv /\ sweep'.pc = "fill"
        /\ waits' = [waits EXCEPT ![sweep.wait] = Promoted(waits[sweep.wait], sweep.rid)]
    BY <1>7, LinkKeeps DEF Link, SInv, SweepTyped
  <2>2. Linked(Promoted(waits[sweep.wait], sweep.rid), resv)
    BY <1>7 DEF LinkDue, Link
  <2> QED
    BY <1>7, <2>1, <2>2 DEF PromotedLink, Linked, LinkDue
<1>8. ASSUME SInv, LInv, NEW s \in sweep.slot, Pick(s) PROVE LInv'
  <2>1. sweep'.pc # "link"
    BY <1>8 DEF Pick, SInv, SweepTyped
  <2> QED
    BY <1>2, <1>8, <2>1, PickKeeps DEF LinkDue, Flows
<1>9. ASSUME SInv, LInv, NEW s \in sweep.slot, Grant(s) PROVE LInv'
  BY <1>2, <1>9, GrantKeeps, KeptSame
<1>10. ASSUME SInv, LInv, Release PROVE LInv'
  <2>1. sweep'.pc # "link"
    BY <1>10 DEF Release, Idle
  <2> QED
    BY <1>2, <1>10, <2>1, ReleaseKeeps DEF LinkDue
<1>11. ASSUME SInv, LInv, ListHolds \/ ListNoShows \/ Fail PROVE LInv'
  <2>1. UNCHANGED <<resv, waits>>
    BY <1>11 DEF ListHolds, ListNoShows, Fail, vars
  <2>2. sweep'.pc # "link"
    <3>0. CASE Fail
      BY <3>0 DEF Fail, Idle
    <3>1. CASE ListHolds
      <4>1. PICK L : sweep' = [Idle EXCEPT !.pc = "holds", !.at = now, !.listed = L]
        BY <3>1 DEF ListHolds
      <4>2. sweep'.pc = "holds"
        BY <4>1 DEF Idle
      <4> QED
        BY <4>2
    <3>2. CASE ListNoShows
      <4>1. PICK L : sweep' = [sweep EXCEPT !.pc = "release", !.listed = L]
        BY <3>2 DEF ListNoShows
      <4> QED
        BY <1>11, <4>1 DEF SInv, SweepTyped
    <3> QED
      BY <1>11, <3>0, <3>1, <3>2
  <2> QED
    BY <1>5, <1>11, <2>1, <2>2
<1>12. SInv /\ LInv /\ [SweepNext]_allVars => LInv'
  <2>1. SInv /\ LInv /\ UNCHANGED allVars => LInv'
    BY <1>4 DEF allVars
  <2> HIDE DEF LInv
  <2> QED
    BY <1>4, <1>6, <1>7, <1>8, <1>9, <1>10, <1>11, <2>1 DEF SweepNext, Sweep
<1>13. LInv => PromotedLink
  OBVIOUS
<1> HIDE DEF LInv
<1> QED
  BY <1>1, <1>12, <1>13, SweepInvariance, PTL DEF SweepSpec
=============================================================================
