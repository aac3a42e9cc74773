--------------------------- MODULE QueueProofs ---------------------------
(***************************************************************************)
(* What promotion owes the queue, and what keeps a user out of two places. *)
(*                                                                         *)
(* First the promotion: when a slot is filled, as many of the executable   *)
(* waiters are taken as there are seats (ChosenFill), each is taken once   *)
(* (FillTakes), nobody who could still be served is left beside a free     *)
(* seat (FillServes), and nobody is taken past a waiter ahead of them      *)
(* (FillOrder).  Then the requests: a step either leaves the seats as they *)
(* are (Plain), adds a waiter (Joins), or fills a slot and perhaps gives a *)
(* seat to its user (Offers).  Approvals and batches are the exceptions:   *)
(* they give a seat without the test for overlaps.                         *)
(***************************************************************************)
EXTENDS BookingProofs

\* the waiter who gets row i of the filled table
Taker(r, w, a, s, i) == Nth(w, a, Chosen(r, w, a, s), i - Len(r) - 1)

\* What PromoteFill makes of a waitlist row.
Marked(r, w, a, s, j, y) ==
  /\ Kin(y, w[j])
  /\ j \in Chosen(r, w, a, s) => y.status = "PROMOTED"
  /\ y.status = "WAITING" =>
       w[j].status = "WAITING" /\ j \notin Chosen(r, w, a, s) \cup Stale(w, a, s)
  /\ y.status = "PROMOTED" => w[j].status = "PROMOTED" \/ j \in Chosen(r, w, a, s)

\* A promotion keeps every waitlist row in its place; see Marked.
LEMMA FillWaits ==
  ASSUME NEW r, NEW w, NEW a, NEW s \in Slots, Typed(r, w, a)
  PROVE  /\ DOMAIN PromoteFill(r, w, a, s).waits = DOMAIN w
         /\ \A j \in DOMAIN w :
              Free(r, s) > 0 => Marked(r, w, a, s, j, PromoteFill(r, w, a, s).waits[j])
<1> DEFINE t == PromoteFill(r, w, a, s)
           chosen == Chosen(r, w, a, s)
           mark(j) == IF j \in chosen
                      THEN Promoted(w[j], Len(r) + 1 + Rank(w, a, chosen, j))
                      ELSE IF j \in Stale(w, a, s)
                      THEN [w[j] EXCEPT !.status = "SKIPPED"]
                      ELSE w[j]
<1>1. DOMAIN w = 1..Len(w) /\ Free(r, s) \in Int
  BY LenProperties, SeatedFinite, BoundsAssumption DEF Typed, Free
<1>2. CASE Free(r, s) <= 0
  BY <1>1, <1>2 DEF PromoteFill
<1>3. CASE Free(r, s) > 0
  <2>1. t.waits = [j \in 1..Len(w) |-> mark(j)]
    <3>1. ~(Free(r, s) <= 0)
      BY <1>1, <1>3
    <3> QED
      BY <3>1, Zenon DEF PromoteFill
  <2>2. ASSUME NEW j \in 1..Len(w) PROVE Marked(r, w, a, s, j, mark(j))
    <3>1. w[j] \in Wait
      BY ElementOfSeq DEF Typed
    <3>2. CASE j \in chosen
      <4>1. mark(j) = Promoted(w[j], Len(r) + 1 + Rank(w, a, chosen, j))
        BY <3>2
      <4> QED
        BY <3>1, <3>2, <4>1 DEF Promoted, Wait, Kin, Marked
    <3>3. CASE j \notin chosen /\ j \in Stale(w, a, s)
      <4>1. mark(j) = [w[j] EXCEPT !.status = "SKIPPED"]
        BY <3>3
      <4> QED
        BY <3>1, <3>3, <4>1 DEF Wait, Kin, Marked
    <3>4. CASE j \notin chosen /\ j \notin Stale(w, a, s)
      <4>1. mark(j) = w[j]
        BY <3>4
      <4> QED
        BY <3>1, <3>4, <4>1 DEF Kin, Marked
    <3> QED
      BY <3>2, <3>3, <3>4
  <2> HIDE DEF mark, t
  <2>3. \A j \in 1..Len(w) : t.waits[j] = mark(j)
    BY <2>1
  <2>4. DOMAIN t.waits = 1..Len(w)
    BY <2>1
  <2> QED
    BY <1>1, <2>2, <2>3, <2>4 DEF t
<1> QED
  BY <1>1, <1>2, <1>3

\* The rows PromoteFill adds: one granted row for each chosen waiter.
LEMMA FillRows ==
  ASSUME NEW r, NEW w, NEW a, NEW s \in Slots, Typed(r, w, a), Free(r, s) > 0,
         NEW n, n = Cardinality(Chosen(r, w, a, s))
  PROVE  /\ n \in Nat /\ Chosen(r, w, a, s) \subseteq 1..Len(w)
         /\ Len(r) \in Nat /\ DOMAIN r = 1..Len(r)
         /\ PromoteFill(r, w, a, s).resv \in Seq(Reservation)
         /\ DOMAIN PromoteFill(r, w, a, s).resv = 1..(Len(r) + n)
         /\ \A i \in 1..Len(r) : PromoteFill(r, w, a, s).resv[i] = r[i]
         /\ \A i \in (Len(r) + 1)..(Len(r) + n) :
              /\ Taker(r, w, a, s, i) \in Chosen(r, w, a, s)
              /\ PromoteFill(r, w, a, s).resv[i] = GrantedRow(w[Taker(r, w, a, s, i)].user, s)
         /\ \A i, k \in (Len(r) + 1)..(Len(r) + n) :
              Taker(r, w, a, s, i) = Taker(r, w, a, s, k) => i = k
         /\ \A j \in Chosen(r, w, a, s) :
              \E i \in (Len(r) + 1)..(Len(r) + n) : Taker(r, w, a, s, i) = j
<1> DEFINE t == PromoteFill(r, w, a, s)
           chosen == Chosen(r, w, a, s)
           taker(i) == Nth(w, a, chosen, i - Len(r) - 1)
           new == (Len(r) + 1)..(Len(r) + n)
<1>1. /\ r \in Seq(Reservation) /\ w \in Seq(Wait) /\ a \in [Users -> Account]
      /\ now \in 0..MaxTime /\ \A j \in DOMAIN w : w[j].since <= now
      /\ Len(r) \in Nat /\ DOMAIN r = 1..Len(r) /\ Free(r, s) \in Int
  BY LenProperties, SeatedFinite, BoundsAssumption DEF Typed, Free
<1>2. n \in Nat /\ chosen \in SUBSET (1..Len(w)) /\ n = Cardinality(chosen)
  BY <1>1, ChosenBound
<1>3. ~(Free(r, s) <= 0)
  BY <1>1
<1>4. t.resv = [i \in 1..(Len(r) + n) |->
                  IF i <= Len(r) THEN r[i] ELSE GrantedRow(w[taker(i)].user, s)]
  BY <1>2, <1>3, Zenon DEF PromoteFill
<1>5. t.resv \in Seq(Reservation)
  BY FillType DEF Extends
<1> HIDE DEF chosen
<1>6. \A k \in 0..(n - 1) : Nth(w, a, chosen, k) \in chosen /\ Rank(w, a, chosen, Nth(w, a, chosen, k)) = k
  BY <1>1, <1>2, NthRow
<1>7. \A j \in chosen : Rank(w, a, chosen, j) \in 0..(n - 1)
  BY <1>1, <1>2, RankNumbers
<1>8. \A j, k \in chosen : Rank(w, a, chosen, j) = Rank(w, a, chosen, k) => j = k
  BY <1>1, <1>2, RankNumbers
<1>9. ASSUME NEW i \in new
      PROVE  taker(i) \in chosen /\ Rank(w, a, chosen, taker(i)) = i - Len(r) - 1
  <2>1. i - Len(r) - 1 \in 0..(n - 1)
    BY <1>1, <1>2
  <2> QED
    BY <1>6, <2>1
<1>10. ASSUME NEW j \in chosen PROVE \E i \in new : taker(i) = j
  <2> DEFINE i == Len(r) + 1 + Rank(w, a, chosen, j)
  <2>1. i \in new /\ i - Len(r) - 1 = Rank(w, a, chosen, j)
    BY <1>1, <1>2, <1>7
  <2> HIDE DEF i
  <2>2. taker(i) = j
    BY <1>7, <1>6, <1>8, <2>1
  <2> QED
    BY <2>1, <2>2
<1>11. \A i, k \in new : taker(i) = taker(k) => i = k
  <2> SUFFICES ASSUME NEW i \in new, NEW k \in new, taker(i) = taker(k) PROVE i = k
    OBVIOUS
  <2>1. i - Len(r) - 1 = k - Len(r) - 1
    BY <1>9
  <2> QED
    BY <1>1, <1>2, <2>1
<1>12. \A i \in 1..Len(r) : t.resv[i] = r[i]
  BY <1>1, <1>2, <1>4
<1>13. \A i \in new : t.resv[i] = GrantedRow(w[taker(i)].user, s)
  BY <1>1, <1>2, <1>4
<1>14. DOMAIN t.resv = 1..(Len(r) + n)
  BY <1>4
<1> HIDE DEF t
<1> QED
  BY <1>1, <1>2, <1>5, <1>9, <1>10, <1>11, <1>12, <1>13, <1>14, Zenon DEF chosen, t, Taker

\* Who can be served and is not has as many chosen waiters ahead as seats are free.
LEMMA ChosenFill ==
  ASSUME NEW r, NEW w, NEW a, NEW s \in Slots, Typed(r, w, a), Free(r, s) > 0,
         NEW j \in Executable(r, w, a, s), j \notin Chosen(r, w, a, s)
  PROVE  Cardinality(Chosen(r, w, a, s)) = Free(r, s)
<1> DEFINE queue == Executable(r, w, a, s)
           chosen == Chosen(r, w, a, s)
           f == Free(r, s)
           pick == [n \in 0..(f - 1) |-> Nth(w, a, queue, n)]
<1>1. /\ w \in Seq(Wait) /\ a \in [Users -> Account]
      /\ now \in 0..MaxTime /\ \A l \in DOMAIN w : w[l].since <= now
      /\ DOMAIN w = 1..Len(w) /\ f \in Nat
  BY LenProperties, SeatedFinite, BoundsAssumption DEF Typed, Free
<1>2. queue \in SUBSET (1..Len(w))
  BY <1>1 DEF Executable, Waiting
<1>3. IsFiniteSet(chosen) /\ Cardinality(chosen) \in Nat /\ Cardinality(chosen) <= f
  BY <1>1, ChosenBound
<1>4. chosen = {k \in queue : Rank(w, a, queue, k) < f}
  BY DEF Chosen
<1> HIDE DEF queue, chosen, f
<1>5. /\ Cardinality(queue) \in Nat
      /\ Rank(w, a, queue, j) \in 0..(Cardinality(queue) - 1)
  BY <1>1, <1>2, RankNumbers DEF queue
<1>6. f <= Rank(w, a, queue, j)
  BY <1>1, <1>4, <1>5 DEF queue, chosen
<1>7. ASSUME NEW n \in 0..(f - 1)
      PROVE  Nth(w, a, queue, n) \in queue /\ Rank(w, a, queue, Nth(w, a, queue, n)) = n
  <2>1. n \in 0..(Cardinality(queue) - 1)
    BY <1>1, <1>5, <1>6
  <2> QED
    BY <1>1, <1>2, <2>1, NthRow
<1>8. ASSUME NEW n \in 0..(f - 1) PROVE pick[n] \in chosen
  BY <1>1, <1>4, <1>7
<1>9. pick \in Injection(0..(f - 1), chosen)
  BY <1>7, <1>8 DEF Injection, IsInjective
<1>10. Cardinality(0..(f - 1)) <= Cardinality(chosen)
  BY <1>3, <1>9, FS_Injection
<1>11. Cardinality(0..(f - 1)) = f
  <2>1. 0 \in Int /\ f - 1 \in Int
    BY <1>1
  <2>2. Cardinality(0..(f - 1)) = IF 0 > f - 1 THEN 0 ELSE f - 1 - 0 + 1
    BY <2>1, FS_Interval
  <2> QED
    BY <1>1, <2>2
<1> QED
  BY <1>1, <1>3, <1>10, <1>11 DEF f, chosen

\* The seats of the slot after a promotion are the ones it had and the new rows.
LEMMA FillTakes ==
  ASSUME NEW r, NEW w, NEW a, NEW s \in Slots, Typed(r, w, a), Free(r, s) > 0
  PROVE  Cardinality(Seated(PromoteFill(r, w, a, s).resv, s)) =
           Cardinality(Seated(r, s)) + Cardinality(Chosen(r, w, a, s))
<1> DEFINE q == PromoteFill(r, w, a, s).resv
           n == Cardinality(Chosen(r, w, a, s))
           new == (Len(r) + 1)..(Len(r) + n)
<1>1. /\ n \in Nat /\ Len(r) \in Nat /\ DOMAIN r = 1..Len(r)
      /\ DOMAIN q = 1..(Len(r) + n)
      /\ \A i \in 1..Len(r) : q[i] = r[i]
  BY FillRows
<1>2. ASSUME NEW i \in new PROVE q[i].slot = s /\ Live(q[i])
  <2>1. q[i] = GrantedRow(w[Taker(r, w, a, s, i)].user, s)
    BY FillRows
  <2> QED
    BY <2>1 DEF GrantedRow, Row, Live
<1> HIDE DEF q, n
<1>3. Seated(q, s) = Seated(r, s) \cup new
  <2>1. \A i \in DOMAIN q : i \in DOMAIN r \/ i \in new
    BY <1>1
  <2>2. new \subseteq DOMAIN q /\ DOMAIN r \subseteq DOMAIN q
    BY <1>1
  <2> HIDE DEF new
  <2> QED
    BY <1>1, <1>2, <2>1, <2>2 DEF Seated
<1>4. Seated(r, s) \cap new = {}
  BY <1>1 DEF Seated
<1>5. IsFiniteSet(Seated(r, s)) /\ Cardinality(Seated(r, s)) \in Nat
  BY SeatedFinite DEF Typed
<1>6. IsFiniteSet(new) /\ Cardinality(new) = n
  BY <1>1, FS_Interval
<1>7. Cardinality(Seated(r, s) \cup new) = Cardinality(Seated(r, s)) + Cardinality(new) - Cardinality(Seated(r, s) \cap new)
  BY <1>5, <1>6, FS_Union
<1>8. Cardinality(Seated(r, s) \cap new) = 0
  BY <1>4, FS_EmptySet
<1> QED
  BY <1>1, <1>3, <1>5, <1>6, <1>7, <1>8 DEF q, n

\* A waiter of the slot who could still take a seat after the promotion could
\* have taken one in it.
LEMMA StillServable ==
  ASSUME NEW r, NEW w, NEW a, NEW s \in Slots, Typed(r, w, a), Free(r, s) > 0,
         NEW k \in DOMAIN w, w[k].slot = s,
         Servable(PromoteFill(r, w, a, s).resv, PromoteFill(r, w, a, s).waits, a, k)
  PROVE  /\ k \in Waiting(w, s) \ Stale(w, a, s) /\ k \notin Chosen(r, w, a, s)
         /\ ~Clash(r, w[k].user, s)
<1> DEFINE t == PromoteFill(r, w, a, s)
           n == Cardinality(Chosen(r, w, a, s))
<1>1. Marked(r, w, a, s, k, t.waits[k])
  BY FillWaits
<1>2. /\ n \in Nat /\ Len(r) \in Nat /\ DOMAIN r = 1..Len(r)
      /\ DOMAIN t.resv = 1..(Len(r) + n) /\ \A i \in 1..Len(r) : t.resv[i] = r[i]
  BY FillRows
<1>3. \A i \in DOMAIN r : i \in DOMAIN t.resv /\ t.resv[i] = r[i]
  BY <1>2
<1> HIDE DEF t
<1>4. k \in Waiting(w, s) /\ k \notin Chosen(r, w, a, s) /\ k \notin Stale(w, a, s)
  BY <1>1 DEF Servable, Marked, Waiting, t
<1>5. ~\E i \in DOMAIN t.resv : /\ t.resv[i].user = w[k].user /\ Live(t.resv[i])
                                /\ Overlaps(s, t.resv[i].slot)
  BY <1>1 DEF Servable, Marked, Kin, Live, Overlaps, t
<1> QED
  BY <1>3, <1>4, <1>5 DEF Clash

\* A promotion ends with a full slot or with nobody left who can be served,
\* unless the strategy stops at a clash.
LEMMA FillServes ==
  ASSUME NEW r, NEW w, NEW a, NEW s \in Slots, Typed(r, w, a), Strategy # "strict",
         NEW k \in DOMAIN w, w[k].slot = s,
         Servable(PromoteFill(r, w, a, s).resv, PromoteFill(r, w, a, s).waits, a, k)
  PROVE  Free(PromoteFill(r, w, a, s).resv, s) <= 0
<1> DEFINE q == PromoteFill(r, w, a, s).resv
<1>1. r \in Seq(Reservation) /\ Free(r, s) \in Int /\ slots[s].capacity \in Nat
  BY SeatedFinite, BoundsAssumption DEF Typed, Free
<1>2. CASE Free(r, s) <= 0
  BY <1>2 DEF PromoteFill
<1>3. CASE Free(r, s) > 0
  <2>1. k \in Executable(r, w, a, s) /\ k \notin Chosen(r, w, a, s)
    <3>1. /\ k \in Waiting(w, s) \ Stale(w, a, s) /\ k \notin Chosen(r, w, a, s)
          /\ ~Clash(r, w[k].user, s)
      BY <1>3, StillServable
    <3> QED
      BY <3>1 DEF Executable
  <2>2. Cardinality(Chosen(r, w, a, s)) = Free(r, s)
    BY <1>3, <2>1, ChosenFill
  <2>3. Cardinality(Seated(q, s)) = Cardinality(Seated(r, s)) + Cardinality(Chosen(r, w, a, s))
    BY <1>3, FillTakes
  <2>4. Cardinality(Seated(r, s)) \in Nat
    BY <1>1, SeatedFinite
  <2> HIDE DEF q
  <2>5. Cardinality(Seated(q, s)) = slots[s].capacity
    BY <1>1, <2>2, <2>3, <2>4 DEF Free
  <2> QED
    BY <1>1, <2>5 DEF Free, q
<1> QED
  BY <1>1, <1>2, <1>3

\* No waiter is passed over by one with a worse place, where places are roles
\* and arrival.
LEMMA FillOrder ==
  ASSUME NEW r, NEW w, NEW a, NEW s \in Slots, Typed(r, w, a), Strategy # "weighted",
         NEW j \in DOMAIN w, NEW k \in DOMAIN w, w[j].status = "WAITING",
         PromoteFill(r, w, a, s).waits[j].status = "PROMOTED", w[k].slot = w[j].slot,
         Servable(PromoteFill(r, w, a, s).resv, PromoteFill(r, w, a, s).waits, a, k)
  PROVE  RoleAhead(w, j, k)
<1> DEFINE queue == Executable(r, w, a, s)
<1>1. /\ w \in Seq(Wait) /\ a \in [Users -> Account] /\ now \in 0..MaxTime
      /\ \A l \in DOMAIN w : w[l].since <= now
      /\ DOMAIN w = 1..Len(w) /\ Free(r, s) \in Int
  BY LenProperties, SeatedFinite, BoundsAssumption DEF Typed, Free
<1>2. Free(r, s) > 0
  <2>1. CASE Free(r, s) <= 0
    BY <2>1 DEF PromoteFill
  <2> QED
    BY <1>1, <2>1
<1>3. j \in Chosen(r, w, a, s)
  BY <1>2, FillWaits DEF Marked
<1>4. j \in queue /\ Rank(w, a, queue, j) < Free(r, s) /\ w[j].slot = s
  BY <1>3 DEF Chosen, Executable, Waiting
<1>5. /\ k \in Waiting(w, s) \ Stale(w, a, s) /\ k \notin Chosen(r, w, a, s)
      /\ ~Clash(r, w[k].user, s)
  BY <1>2, <1>4, StillServable
<1>6. \A x, y \in 1..Len(w) : Ahead(w, a, x, y) <=> RoleAhead(w, x, y)
  BY DEF Ahead
<1>7. ASSUME Ahead(w, a, k, j) PROVE FALSE
  <2>1. k \in queue
    <3>1. ASSUME Strategy = "strict", NEW l \in Waiting(w, s) \ Stale(w, a, s), Ahead(w, a, l, k)
          PROVE  ~Clash(r, w[l].user, s)
      <4>1. l \in 1..Len(w)
        BY <1>1 DEF Waiting
      <4>2. Ahead(w, a, l, j)
        BY <1>1, <1>7, <3>1, <4>1, ScanOrder
      <4> QED
        BY <1>4, <3>1, <4>2 DEF Executable
    <3> QED
      BY <1>5, <3>1 DEF Executable
  <2>2. queue \in SUBSET (1..Len(w))
    BY <1>1 DEF Executable, Waiting
  <2>3. /\ Rank(w, a, queue, k) \in 0..(Cardinality(queue) - 1)
        /\ Rank(w, a, queue, j) \in 0..(Cardinality(queue) - 1)
        /\ Cardinality(queue) \in Nat
    BY <1>1, <1>4, <2>1, <2>2, RankNumbers
  <2>4. Rank(w, a, queue, k) < Rank(w, a, queue, j)
    BY <1>1, <1>4, <1>7, <2>1, <2>2, RankGrows
  <2>5. Rank(w, a, queue, k) < Free(r, s)
    BY <1>1, <1>4, <2>3, <2>4
  <2> QED
    BY <1>5, <2>1, <2>5 DEF Chosen
<1>8. j # k
  BY <1>3, <1>5
<1> QED
  BY <1>1, <1>6, <1>7, <1>8, ScanOrder
-----------------------------------------------------------------------------
(***************************************************************************)
(* Three facts about the rows of a transaction.                            *)
(***************************************************************************)

\* no user is booked in two places at one time
Apart(r) ==
  \A i, k \in DOMAIN r :
     (i # k /\ Live(r[i]) /\ Live(r[k]) /\ r[i].user = r[k].user)
        => ~Overlaps(r[i].slot, r[k].slot)

\* nobody waits for a slot in which they hold a seat
Unseated(r, w) ==
  \A j \in DOMAIN w : w[j].status = "WAITING" => ~HoldsSeat(r, w[j].user, w[j].slot)

\* Overlapping is symmetric.
LEMMA OverlapsBoth ==
  ASSUME NEW s, NEW p
  PROVE  Overlaps(s, p) <=> Overlaps(p, s)
BY DEF Overlaps

\* The chosen wait for the slot, each without a clash.
LEMMA ChosenClear ==
  ASSUME NEW r, NEW w, NEW a, NEW s, NEW j \in Chosen(r, w, a, s)
  PROVE  /\ j \in DOMAIN w /\ w[j].status = "WAITING" /\ w[j].slot = s
         /\ ~Clash(r, w[j].user, s)
BY DEF Chosen, Executable, Waiting

\* Promotion books nobody twice: the chosen have no clash among the rows that
\* were there, and as nobody waits twice for a slot no two of them are the same.
LEMMA FillApart ==
  ASSUME NEW r, NEW w, NEW a, NEW s \in Slots, Typed(r, w, a), Apart(r), OneWait(w)
  PROVE  Apart(PromoteFill(r, w, a, s).resv)
<1> DEFINE q == PromoteFill(r, w, a, s).resv
           n == Cardinality(Chosen(r, w, a, s))
           new == (Len(r) + 1)..(Len(r) + n)
           j(i) == Taker(r, w, a, s, i)
<1>1. CASE Free(r, s) <= 0
  BY <1>1 DEF PromoteFill
<1>2. CASE Free(r, s) > 0
  <2>1. /\ n \in Nat /\ Len(r) \in Nat /\ DOMAIN r = 1..Len(r)
        /\ DOMAIN q = 1..(Len(r) + n)
        /\ \A i \in 1..Len(r) : q[i] = r[i]
    BY <1>2, FillRows
  <2>2. \A i \in new : j(i) \in Chosen(r, w, a, s) /\ q[i] = GrantedRow(w[j(i)].user, s)
    BY <1>2, FillRows
  <2>3. \A i, k \in new : j(i) = j(k) => i = k
    BY <1>2, FillRows
  <2>4. ASSUME NEW i \in new
        PROVE  /\ j(i) \in DOMAIN w /\ w[j(i)].status = "WAITING" /\ w[j(i)].slot = s
               /\ ~Clash(r, w[j(i)].user, s)
               /\ q[i].user = w[j(i)].user /\ q[i].slot = s
    <3>1. j(i) \in Chosen(r, w, a, s) /\ q[i] = GrantedRow(w[j(i)].user, s)
      BY <2>2
    <3> HIDE DEF q, j
    <3>2. q[i].user = w[j(i)].user /\ q[i].slot = s
      BY <3>1 DEF GrantedRow, Row
    <3> QED
      BY <3>1, <3>2, ChosenClear
  <2>5. \A i \in DOMAIN q : i \in DOMAIN r \/ i \in new
    BY <2>1
  <2> HIDE DEF new, q, j, n
  <2>6. ASSUME NEW i \in DOMAIN r, NEW k \in new, Live(r[i]), r[i].user = q[k].user
        PROVE  ~Overlaps(r[i].slot, q[k].slot) /\ ~Overlaps(q[k].slot, r[i].slot)
    <3>1. ~Overlaps(s, r[i].slot)
      BY <2>4, <2>6 DEF Clash
    <3> QED
      BY <2>4, <3>1, OverlapsBoth
  <2>7. \A i, k \in new : q[i].user = q[k].user => i = k
    BY <2>3, <2>4 DEF OneWait
  <2>8. \A i \in DOMAIN r : q[i] = r[i]
    BY <2>1
  <2>9. Apart(q)
    <3> SUFFICES ASSUME NEW i \in DOMAIN q, NEW k \in DOMAIN q, i # k,
                        Live(q[i]), Live(q[k]), q[i].user = q[k].user
                 PROVE  ~Overlaps(q[i].slot, q[k].slot)
      BY DEF Apart
    <3>1. CASE i \in DOMAIN r /\ k \in DOMAIN r
      BY <2>8, <3>1 DEF Apart
    <3>2. CASE i \in DOMAIN r /\ k \in new
      BY <2>6, <2>8, <3>2
    <3>3. CASE i \in new /\ k \in DOMAIN r
      BY <2>6, <2>8, <3>3
    <3>4. CASE i \in new /\ k \in new
      BY <2>7, <3>4
    <3> QED
      BY <2>5, <3>1, <3>2, <3>3, <3>4
  <2> QED
    BY <2>9 DEF q
<1>3. Free(r, s) \in Int
  BY SeatedFinite, BoundsAssumption DEF Typed, Free
<1> QED
  BY <1>1, <1>2, <1>3

\* Nor does it make anybody wait twice.
LEMMA FillOneWait ==
  ASSUME NEW r, NEW w, NEW a, NEW s \in Slots, Typed(r, w, a), OneWait(w)
  PROVE  OneWait(PromoteFill(r, w, a, s).waits)
<1>1. CASE Free(r, s) <= 0
  BY <1>1 DEF PromoteFill
<1>2. CASE Free(r, s) > 0
  BY <1>2, FillWaits DEF Marked, Kin, OneWait
<1>3. Free(r, s) \in Int
  BY SeatedFinite, BoundsAssumption DEF Typed, Free
<1> QED
  BY <1>1, <1>2, <1>3

\* Who gets a seat stops waiting for it.
LEMMA FillUnseated ==
  ASSUME NEW r, NEW w, NEW a, NEW s \in Slots, Typed(r, w, a), OneWait(w), Unseated(r, w)
  PROVE  Unseated(PromoteFill(r, w, a, s).resv, PromoteFill(r, w, a, s).waits)
<1> DEFINE t == PromoteFill(r, w, a, s)
           n == Cardinality(Chosen(r, w, a, s))
           new == (Len(r) + 1)..(Len(r) + n)
<1>1. CASE Free(r, s) <= 0
  BY <1>1 DEF PromoteFill
<1>2. CASE Free(r, s) > 0
  <2>1. /\ n \in Nat /\ Len(r) \in Nat /\ DOMAIN r = 1..Len(r)
        /\ DOMAIN t.resv = 1..(Len(r) + n)
        /\ \A i \in 1..Len(r) : t.resv[i] = r[i]
    BY <1>2, FillRows
  <2>2. ASSUME NEW i \in new
        PROVE  /\ Taker(r, w, a, s, i) \in Chosen(r, w, a, s)
               /\ t.resv[i].user = w[Taker(r, w, a, s, i)].user /\ t.resv[i].slot = s
    <3>1. /\ Taker(r, w, a, s, i) \in Chosen(r, w, a, s)
          /\ t.resv[i] = GrantedRow(w[Taker(r, w, a, s, i)].user, s)
      BY <1>2, FillRows
    <3> QED
      BY <3>1 DEF GrantedRow, Row
  <2>3. \A i \in DOMAIN t.resv : (i \in DOMAIN r /\ t.resv[i] = r[i]) \/ i \in new
    BY <2>1
  <2>4. /\ DOMAIN t.waits = DOMAIN w
        /\ \A j \in DOMAIN w : Marked(r, w, a, s, j, t.waits[j])
    BY <1>2, FillWaits
  <2> HIDE DEF t, new, n
  <2>5. ASSUME NEW j \in DOMAIN w, t.waits[j].status = "WAITING", NEW i \in DOMAIN t.resv,
               Live(t.resv[i]), t.resv[i].user = t.waits[j].user, t.resv[i].slot = t.waits[j].slot
        PROVE  FALSE
    <3>1. Kin(t.waits[j], w[j]) /\ w[j].status = "WAITING" /\ j \notin Chosen(r, w, a, s)
      BY <2>4, <2>5 DEF Marked
    <3>2. CASE i \in DOMAIN r /\ t.resv[i] = r[i]
      BY <2>5, <3>1, <3>2 DEF Unseated, HoldsSeat, Seated, Kin
    <3>3. CASE i \in new
      BY <2>2, <2>5, <3>1, <3>3, ChosenClear DEF OneWait, Kin
    <3> QED
      BY <2>3, <3>2, <3>3
  <2>6. Unseated(t.resv, t.waits)
    BY <2>4, <2>5 DEF Unseated, HoldsSeat, Seated
  <2> QED
    BY <2>6 DEF t
<1>3. Free(r, s) \in Int
  BY SeatedFinite, BoundsAssumption DEF Typed, Free
<1> QED
  BY <1>1, <1>2, <1>3
-----------------------------------------------------------------------------
(***************************************************************************)
(* The kinds of steps.                                                     *)
(***************************************************************************)

\* Nobody gets or leaves a seat, and nobody joins a queue.
Plain ==
  /\ DOMAIN resv' = DOMAIN resv /\ DOMAIN waits' = DOMAIN waits
  /\ \A i \in DOMAIN resv :
       /\ resv'[i].user = resv[i].user /\ resv'[i].slot = resv[i].slot
       /\ Live(resv'[i]) <=> Live(resv[i])
  /\ \A j \in DOMAIN waits :
       /\ Kin(waits'[j], waits[j])
       /\ waits'[j].status = waits[j].status \/ waits'[j].status \notin {"WAITING", "PROMOTED"}

Joins(u, s) ==
  /\ resv' = resv
  /\ ~Queued(waits, u, s) /\ ~HoldsSeat(resv, u, s)
  /\ waits' = Append(waits, WaitRow(u, s))

\* what a request makes of the reservations before it offers slot s to its queue
Clears(r, s) ==
  /\ DOMAIN r = DOMAIN resv
  /\ Apart(resv) => Apart(r)
  /\ "reschedule" \notin Requests => (Unseated(resv, waits) => Unseated(r, waits))
  /\ \A i \in DOMAIN resv :
       Live(resv[i]) => resv[i].slot = s \/ (Live(r[i]) /\ r[i].slot = resv[i].slot)

Fills(r, a, s) ==
  /\ resv' = PromoteFill(r, waits, a, s).resv
  /\ waits' = PromoteFill(r, waits, a, s).waits

\* the seat left over goes to user u
Grants(r, a, s, u, status) ==
  LET t == PromoteFill(r, waits, a, s) IN
  /\ a[u].enabled /\ ~Clash(r, u, s)
  /\ ~HoldsSeat(t.resv, u, s) /\ Free(t.resv, s) > 0
  /\ resv' = Append(t.resv, DirectRow(u, s, status)) /\ waits' = t.waits

Offers(r, a, s) ==
  /\ Good(r, waits, a) /\ Clears(r, s)
  /\ accounts' = a /\ slots' = slots
  /\ \/ Fills(r, a, s)
     \/ \E u \in Users, status \in {"PENDING", "CONFIRMED"} : Grants(r, a, s, u, status)

Kinds ==
  \/ Plain
  \/ \E u \in Users, s \in Slots : Joins(u, s)
  \/ \E r, a : \E s \in Slots : Offers(r, a, s)
  \/ \E i \in DOMAIN resv : Approve(i)
  \/ \E u \in Users, b \in Runs : Batch(u, b)

\* One row that gives up its seat, or never had one.
LEMMA LeaveClears ==
  ASSUME TypeOK, NEW i \in DOMAIN resv, NEW row, ~Live(row)
  PROVE  Clears([resv EXCEPT ![i] = row], resv[i].slot)
<1> DEFINE r == [resv EXCEPT ![i] = row]
<1>1. DOMAIN r = DOMAIN resv
  OBVIOUS
<1>2. \A k \in DOMAIN resv : k # i => r[k] = resv[k]
  OBVIOUS
<1>3. ~Live(r[i])
  OBVIOUS
<1> HIDE DEF r
<1>4. Apart(resv) => Apart(r)
  BY <1>1, <1>2, <1>3 DEF Apart
<1>5. Unseated(resv, waits) => Unseated(r, waits)
  BY <1>1, <1>2, <1>3 DEF Unseated, HoldsSeat, Seated
<1> QED
  BY <1>1, <1>2, <1>4, <1>5 DEF Clears, r

\* A row that changes in place.
LEMMA RowPlain ==
  ASSUME NEW i \in DOMAIN resv, NEW row, NEW a, row.user = resv[i].user, row.slot = resv[i].slot,
         Live(row) <=> Live(resv[i]), Commit([resv EXCEPT ![i] = row], waits, a)
  PROVE  Plain
BY DEF Commit, Plain, Kin

\* A step that leaves both tables alone is plain.
LEMMA SamePlain == ASSUME UNCHANGED <<resv, waits>> PROVE Plain
BY DEF Plain, Kin

\* A slot without a free seat is not filled.
LEMMA NoFill ==
  ASSUME NEW r, NEW w, NEW a, NEW s, Free(r, s) <= 0
  PROVE  PromoteFill(r, w, a, s).resv = r /\ PromoteFill(r, w, a, s).waits = w
BY DEF PromoteFill

\* A row leaves its slot and the slot is filled.
LEMMA FillOffers ==
  ASSUME NEW r, NEW a, NEW s \in Slots, Good(r, waits, a), Clears(r, s),
         CommitFill(PromoteFill(r, waits, a, s), a)
  PROVE  Kinds
BY DEF CommitFill, Commit, Kinds, Offers, Fills

\* So does the second half of a reservation, which may then take a seat itself.
LEMMA AdmitOffers ==
  ASSUME NEW u \in Users, NEW s \in Slots, NEW r, NEW a, Good(r, waits, a), Clears(r, s),
         a[u].enabled, ~Clash(r, u, s), Admit(u, s, r, a)
  PROVE  Offers(r, a, s)
<1> DEFINE t == PromoteFill(r, waits, a, s)
           status == IF labs[LabOf[s]].approval THEN "PENDING" ELSE "CONFIRMED"
<1>1. CASE HoldsSeat(t.resv, u, s) \/ Free(t.resv, s) <= 0
  BY <1>1, Zenon DEF Admit, CommitFill, Commit, Offers, Fills
<1>2. CASE ~(HoldsSeat(t.resv, u, s) \/ Free(t.resv, s) <= 0)
  <2>1. Commit(Append(t.resv, DirectRow(u, s, status)), t.waits, a)
    BY <1>2 DEF Admit
  <2>2. status \in {"PENDING", "CONFIRMED"}
    OBVIOUS
  <2>3. Free(t.resv, s) > 0
    <3>1. t.resv \in Seq(Reservation) /\ slots[s].capacity \in Nat
      <4>1. Good(t.resv, t.waits, a)
        BY GoodFill
      <4> HIDE DEF t
      <4> QED
        BY <4>1, BoundsAssumption DEF Good, Typed
    <3>2. Free(t.resv, s) \in Int
      BY <3>1, SeatedFinite DEF Free
    <3> QED
      BY <1>2, <3>2
  <2>4. Grants(r, a, s, u, status)
    BY <1>2, <2>1, <2>3 DEF Grants, Commit
  <2> HIDE DEF status
  <2> QED
    BY <2>1, <2>2, <2>4 DEF Offers, Commit
<1> QED
  BY <1>1, <1>2

\* Credit does not enable or disable an account.
LEMMA CreditEnabled ==
  ASSUME NEW a \in [Users -> Account], NEW u \in Users, NEW delta \in Int, NEW x \in Users
  PROVE  /\ WeeklyTopup(a, u)[x].enabled = a[x].enabled
         /\ CreditApply(a, u, delta)[x].enabled = a[x].enabled
BY DEF WeeklyTopup, CreditApply, Account

\* A reservation, refused or not, with or without an eviction.
LEMMA ReserveKind ==
  ASSUME TypeOK, NEW u \in Users, NEW s \in Slots, Reserve(u, s)
  PROVE  Kinds
<1> DEFINE a == WeeklyTopup(accounts, u)
<1>1. accounts \in [Users -> Account] /\ a \in [Users -> Account]
  BY TopupType
<1>2. Good(resv, waits, a)
  BY <1>1, GoodNow, GoodAccounts
<1>3. a[u].enabled
  <2>1. accounts[u].enabled
    BY DEF Reserve, Admitted
  <2> QED
    BY <1>1, <2>1, CreditEnabled
<1>4. CASE Commit(resv, waits, a)
  BY <1>4, SamePlain DEF Commit, Kinds
<1>5. ASSUME ~Refused(u, s, a), Admit(u, s, resv, a) PROVE Kinds
  <2>1. ~Clash(resv, u, s)
    BY <1>5 DEF Refused
  <2>2. Clears(resv, s)
    BY DEF Clears
  <2> QED
    BY <1>2, <1>3, <1>5, <2>1, <2>2, AdmitOffers DEF Kinds
<1>6. ASSUME ~Refused(u, s, a), NEW v \in Victim(u, s), TakeOver(u, s, v, a) PROVE Kinds
  <2> DEFINE row == [resv[v] EXCEPT !.status = "CANCELLED", !.reason = "PREEMPTED"]
             r == Evict(resv, v)
             b == CreditApply(a, resv[v].user, 1)
  <2>1. v \in DOMAIN resv /\ resv[v].slot = s
    BY DEF Victim, Evictable, Seated
  <2>2. resv[v] \in Reservation /\ resv[v].user \in Users
    BY <2>1, ResvRow
  <2>3. r = [resv EXCEPT ![v] = row] /\ ~Live(row)
    BY <2>2 DEF Evict, Reservation, Live
  <2>4. Clears(r, s)
    <3> HIDE DEF row, r
    <3>1. Clears([resv EXCEPT ![v] = row], resv[v].slot)
      BY <2>1, <2>3, LeaveClears
    <3> QED
      BY <2>1, <2>3, <3>1
  <2>5. b \in [Users -> Account] /\ b[u].enabled
    BY <1>1, <1>3, <2>2, CreditType, CreditEnabled
  <2>6. Good(r, waits, b)
    <3>1. Good(r, waits, accounts)
      BY <2>1, LeaveGood DEF Reasons
    <3> QED
      BY <2>5, <3>1, GoodAccounts
  <2>7. ~Clash(r, u, s)
    <3>1. ~Clash(resv, u, s)
      BY <1>6 DEF Refused
    <3>2. \A k \in DOMAIN resv : k # v => r[k] = resv[k]
      BY <2>3
    <3>3. DOMAIN r = DOMAIN resv /\ ~Live(r[v])
      BY <2>1, <2>3
    <3> QED
      BY <3>1, <3>2, <3>3 DEF Clash
  <2>8. (Free(r, s) <= 0 /\ Commit(r, waits, b)) \/ Admit(u, s, r, b)
    BY <1>6 DEF TakeOver
  <2> HIDE DEF r, b
  <2>9. CASE Free(r, s) <= 0 /\ Commit(r, waits, b)
    <3>1. Fills(r, b, s) /\ accounts' = b /\ slots' = slots
      BY <2>9, NoFill DEF Fills, Commit
    <3> QED
      BY <2>4, <2>6, <3>1 DEF Offers, Kinds
  <2>10. CASE Admit(u, s, r, b)
    BY <2>4, <2>5, <2>6, <2>7, <2>10, AdmitOffers DEF Kinds
  <2> QED
    BY <2>8, <2>9, <2>10
<1> QED
  BY <1>4, <1>5, <1>6 DEF Reserve

\* The requests on the waitlist.
LEMMA QueueKind ==
  ASSUME TypeOK,
         \/ \E u \in Users, s \in Slots : Join(u, s)
         \/ \E j \in DOMAIN waits : Withdraw(j)
  PROVE  Kinds
<1>1. waits \in Seq(Wait) /\ DOMAIN waits = 1..Len(waits)
  BY LenProperties DEF TypeOK
<1>2. ASSUME NEW u \in Users, NEW s \in Slots, Join(u, s) PROVE Kinds
  <2>1. ~HoldsSeat(resv, u, s)
    BY <1>2 DEF Join
  <2>2. \/ Commit(resv, waits, WeeklyTopup(accounts, u))
        \/ /\ ~Queued(waits, u, s)
           /\ Commit(resv, Append(waits, WaitRow(u, s)), WeeklyTopup(accounts, u))
    BY <1>2 DEF Join
  <2> QED
    BY <2>1, <2>2, SamePlain DEF Commit, Joins, Kinds
<1>3. ASSUME NEW j \in DOMAIN waits, Withdraw(j) PROVE Kinds
  <2>1. waits[j] \in Wait
    BY <1>1, ElementOfSeq
  <2>2. resv' = resv /\ waits' = [waits EXCEPT ![j].status = "WITHDRAWN"]
    BY <1>3 DEF Withdraw, Commit
  <2> QED
    BY <2>1, <2>2 DEF Plain, Kin, Kinds, Wait
<1> QED
  BY <1>2, <1>3

\* The requests that end a booking offer its seat.
LEMMA CancelKind ==
  ASSUME TypeOK, NEW i \in DOMAIN resv, Cancel(i) \/ Reject(i) \/ ForceCancel(i)
  PROVE  Kinds
<1> DEFINE row(why) == [resv[i] EXCEPT !.status = "CANCELLED", !.reason = why, !.deadline = 0]
           rejected == [resv[i] EXCEPT !.status = "CANCELLED", !.reason = "REJECTED"]
<1>1. resv[i] \in Reservation /\ resv[i].slot \in Slots
  BY ResvRow
<1>2. ASSUME NEW why \in {"USER", "ADMIN"}
      PROVE  /\ Cancelled(resv, i, why) = [resv EXCEPT ![i] = row(why)]
             /\ row(why).user = resv[i].user /\ row(why).slot = resv[i].slot /\ ~Live(row(why))
             /\ Good(Cancelled(resv, i, why), waits, accounts)
             /\ Clears(Cancelled(resv, i, why), resv[i].slot)
  <2>1. /\ Cancelled(resv, i, why) = [resv EXCEPT ![i] = row(why)]
        /\ row(why).user = resv[i].user /\ row(why).slot = resv[i].slot /\ ~Live(row(why))
    BY <1>1 DEF Cancelled, Reservation, Live
  <2>2. Good(Cancelled(resv, i, why), waits, accounts)
    BY LeaveGood DEF Reasons
  <2> HIDE DEF row
  <2>3. Clears([resv EXCEPT ![i] = row(why)], resv[i].slot)
    BY <2>1, LeaveClears
  <2> QED
    BY <2>1, <2>2, <2>3
<1>3. /\ rejected.user = resv[i].user /\ rejected.slot = resv[i].slot /\ ~Live(rejected)
      /\ [resv EXCEPT ![i].status = "CANCELLED", ![i].reason = "REJECTED"] = [resv EXCEPT ![i] = rejected]
  BY <1>1 DEF Reservation, Live
<1> HIDE DEF row, rejected
<1>4. CASE Cancel(i)
  <2>1. \/ CommitFill(PromoteFill(Cancelled(resv, i, "USER"), waits, accounts, resv[i].slot), accounts)
        \/ resv[i].status = "PENDING" /\ Commit(Cancelled(resv, i, "USER"), waits, accounts)
    BY <1>4 DEF Cancel
  <2>2. CASE CommitFill(PromoteFill(Cancelled(resv, i, "USER"), waits, accounts, resv[i].slot), accounts)
    BY <1>1, <1>2, <2>2, FillOffers
  <2>3. CASE resv[i].status = "PENDING" /\ Commit(Cancelled(resv, i, "USER"), waits, accounts)
    <3>1. ~Live(resv[i])
      BY <2>3 DEF Live
    <3> QED
      BY <1>2, <2>3, <3>1, RowPlain DEF Kinds
  <2> QED
    BY <2>1, <2>2, <2>3
<1>5. CASE Reject(i)
  <2>1. ~Live(resv[i]) /\ Commit([resv EXCEPT ![i] = rejected], waits, accounts)
    BY <1>3, <1>5 DEF Reject, Live
  <2> QED
    BY <1>3, <2>1, RowPlain DEF Kinds
<1>6. CASE ForceCancel(i)
  <2>1. CommitFill(PromoteFill(Cancelled(resv, i, "ADMIN"), waits, accounts, resv[i].slot), accounts)
    BY <1>6 DEF ForceCancel
  <2> QED
    BY <1>1, <1>2, <2>1, FillOffers
<1> QED
  BY <1>4, <1>5, <1>6

\* The requests on attendance leave the seats as they are.
LEMMA AttendKind ==
  ASSUME TypeOK, NEW i \in DOMAIN resv,
         CheckIn(i) \/ Checkout(i) \/ Confirm(i) \/ ForceComplete(i)
  PROVE  Kinds
<1> DEFINE in == [resv[i] EXCEPT !.checkedIn = TRUE]
           out == [resv[i] EXCEPT !.checkedOut = TRUE]
           confirmed == [resv[i] EXCEPT !.status = "CONFIRMED", !.deadline = 0]
<1>1. resv[i] \in Reservation
  BY ResvRow
<1>2. ASSUME NEW row \in {in, out, confirmed}
      PROVE  row.user = resv[i].user /\ row.slot = resv[i].slot
  BY <1>1 DEF Reservation
<1>3. /\ in.status = resv[i].status /\ out.status = resv[i].status
      /\ confirmed.status = "CONFIRMED"
  BY <1>1 DEF Reservation
<1>4. ASSUME CheckIn(i) PROVE Plain
  <2>1. Commit([resv EXCEPT ![i] = in], waits, CreditApply(accounts, resv[i].user, 1))
    BY <1>4 DEF CheckIn
  <2>2. Live(in) <=> Live(resv[i])
    BY <1>3 DEF Live
  <2> HIDE DEF in
  <2> QED
    BY <1>2, <2>1, <2>2, RowPlain
<1>5. ASSUME Checkout(i) \/ ForceComplete(i) PROVE Plain
  <2>1. Commit([resv EXCEPT ![i] = out], waits, accounts)
    BY <1>5 DEF Checkout, ForceComplete
  <2>2. Live(out) <=> Live(resv[i])
    BY <1>3 DEF Live
  <2> HIDE DEF out
  <2> QED
    BY <1>2, <2>1, <2>2, RowPlain
<1>6. ASSUME Confirm(i) PROVE Plain
  <2>1. Commit([resv EXCEPT ![i] = confirmed], waits, accounts)
    BY <1>6 DEF Confirm
  <2>2. Live(confirmed) /\ Live(resv[i])
    BY <1>3, <1>6 DEF Confirm, Live
  <2> HIDE DEF confirmed
  <2> QED
    BY <1>2, <2>1, <2>2, RowPlain
<1> QED
  BY <1>4, <1>5, <1>6 DEF Kinds

\* A booking moves only where its user has no clash.
LEMMA RescheduleKind ==
  ASSUME TypeOK, NEW i \in DOMAIN resv, NEW t \in Slots, Reschedule(i, t)
  PROVE  Kinds
<1> DEFINE row == [resv[i] EXCEPT !.slot = t]
           r == [resv EXCEPT ![i] = row]
           s == resv[i].slot
<1>1. resv[i] \in Reservation /\ s \in Slots
  BY ResvRow
<1>2. row \in Reservation /\ row.slot = t /\ row.user = resv[i].user
  BY <1>1 DEF Reservation
<1>3. \A k \in DOMAIN resv : k # i => r[k] = resv[k]
  OBVIOUS
<1>4. DOMAIN r = DOMAIN resv /\ r[i] = row
  OBVIOUS
<1>5. CommitFill(PromoteFill(r, waits, accounts, s), accounts)
  BY DEF Reschedule
<1>6. ~Clash(WithoutRow(resv, i), resv[i].user, t)
  BY DEF Reschedule
<1>7. /\ DOMAIN WithoutRow(resv, i) = DOMAIN resv
      /\ \A k \in DOMAIN resv : k # i => WithoutRow(resv, i)[k] = resv[k]
  BY DEF WithoutRow
<1>8. Good(r, waits, accounts)
  <2>1. Seated(WithoutRow(resv, i), t) = Seated(resv, t)
    <3>1. resv[i].slot # t
      BY DEF Reschedule
    <3>2. WithoutRow(resv, i)[i].slot = resv[i].slot
      BY <1>1 DEF WithoutRow, Reservation
    <3> QED
      BY <1>7, <3>1, <3>2 DEF Seated
  <2>2. Free(resv, row.slot) > 0
    BY <1>2, <2>1 DEF Reschedule, Free
  <2> HIDE DEF row
  <2> QED
    BY <1>2, <2>2, GoodNow, GoodRow
<1> HIDE DEF r, row
<1>9. Apart(resv) => Apart(r)
  <2> SUFFICES ASSUME Apart(resv), NEW k \in DOMAIN r, NEW l \in DOMAIN r, k # l,
                      Live(r[k]), Live(r[l]), r[k].user = r[l].user
               PROVE  ~Overlaps(r[k].slot, r[l].slot)
    BY DEF Apart
  <2>1. ASSUME NEW m \in DOMAIN resv, m # i, Live(resv[m]), resv[m].user = row.user
        PROVE  ~Overlaps(row.slot, resv[m].slot) /\ ~Overlaps(resv[m].slot, row.slot)
    <3>1. ~Overlaps(t, resv[m].slot)
      BY <1>2, <1>6, <1>7, <2>1 DEF Clash
    <3> QED
      BY <1>2, <3>1, OverlapsBoth
  <2>2. CASE k # i /\ l # i
    BY <1>3, <1>4, <2>2 DEF Apart
  <2>3. CASE k = i
    BY <1>3, <1>4, <2>1, <2>3
  <2>4. CASE l = i
    BY <1>3, <1>4, <2>1, <2>4
  <2> QED
    BY <2>2, <2>3, <2>4
<1>10. Clears(r, s)
  <2>1. "reschedule" \in Requests
    BY DEF Reschedule
  <2> QED
    BY <1>3, <1>4, <1>9, <2>1 DEF Clears
<1> QED
  BY <1>1, <1>5, <1>8, <1>10, FillOffers

\* Every step is of one of these kinds.
LEMMA NextKind == TypeOK /\ [Next]_vars => Kinds
<1> SUFFICES ASSUME TypeOK, [Next]_vars PROVE Kinds
  OBVIOUS
<1>1. CASE \E u \in Users, s \in Slots : Reserve(u, s) \/ Join(u, s)
  BY <1>1, ReserveKind, QueueKind
<1>2. CASE \E i \in DOMAIN resv : Cancel(i) \/ CheckIn(i) \/ Checkout(i) \/ Confirm(i)
  BY <1>2, CancelKind, AttendKind
<1>3. CASE \E i \in DOMAIN resv, t \in Slots : Reschedule(i, t)
  BY <1>3, RescheduleKind
<1>4. CASE \E j \in DOMAIN waits : Withdraw(j)
  BY <1>4, QueueKind
<1>5. CASE \E u \in Users, b \in Runs : Batch(u, b)
  BY <1>5 DEF Kinds
<1>6. CASE \E i \in DOMAIN resv : Approve(i) \/ Reject(i) \/ ForceComplete(i) \/ ForceCancel(i)
  BY <1>6, CancelKind, AttendKind DEF Kinds
<1>7. CASE \/ Tick \/ UNCHANGED vars
           \/ \E s \in Slots, c \in 1..MaxCapacity, o \in BOOLEAN : SlotUpdate(s, c, o)
           \/ \E l \in Labs, o, p \in BOOLEAN : LabUpdate(l, o, p)
           \/ \E u \in Users : Disable(u) \/ Enable(u)
           \/ \E u \in Users, n \in 1..CreditBase : CreditGrant(u, n)
  <2>1. UNCHANGED <<resv, waits>>
    BY <1>7 DEF Tick, vars, SlotUpdate, LabUpdate, Disable, Enable, CreditGrant, Commit
  <2> QED
    BY <2>1, SamePlain DEF Kinds
<1> QED
  BY <1>1, <1>2, <1>3, <1>4, <1>5, <1>6, <1>7 DEF Next, UserRequest, AdminRequest
-----------------------------------------------------------------------------
(***************************************************************************)
(* What such steps keep.                                                   *)
(***************************************************************************)

\* The seat left over is taken in a table that keeps the rows of the others.
LEMMA GrantRows ==
  ASSUME NEW r, NEW a, NEW s \in Slots, NEW u \in Users, NEW status \in {"PENDING", "CONFIRMED"},
         Good(r, waits, a), Grants(r, a, s, u, status), NEW q, q = PromoteFill(r, waits, a, s).resv
  PROVE  /\ q \in Seq(Reservation) /\ Len(q) \in Nat /\ DOMAIN q = 1..Len(q)
         /\ DOMAIN resv' = 1..(Len(q) + 1)
         /\ \A i \in DOMAIN q : resv'[i] = q[i]
         /\ resv'[Len(q) + 1] = DirectRow(u, s, status)
         /\ resv'[Len(q) + 1].user = u /\ resv'[Len(q) + 1].slot = s
<1>1. q \in Seq(Reservation) /\ Len(q) \in Nat /\ DOMAIN q = 1..Len(q)
  BY GoodFill, LenProperties DEF Good, Typed
<1>2. DirectRow(u, s, status) \in Reservation
  BY DirectType DEF ResvStatus
<1>3. resv' = Append(q, DirectRow(u, s, status))
  BY DEF Grants
<1>4. DirectRow(u, s, status).user = u /\ DirectRow(u, s, status).slot = s
  BY DEF DirectRow, Row
<1> QED
  BY <1>1, <1>2, <1>3, <1>4, AppendProperties, LenProperties

\* The rows of the table an offer starts from are still there when it ends.
LEMMA OfferKeepsRows ==
  ASSUME NEW r, NEW a, NEW s \in Slots, Offers(r, a, s)
  PROVE  /\ DOMAIN PromoteFill(r, waits, a, s).resv \subseteq DOMAIN resv'
         /\ \A i \in DOMAIN PromoteFill(r, waits, a, s).resv :
              resv'[i] = PromoteFill(r, waits, a, s).resv[i]
         /\ DOMAIN r \subseteq DOMAIN PromoteFill(r, waits, a, s).resv
         /\ \A i \in DOMAIN r : PromoteFill(r, waits, a, s).resv[i] = r[i]
         /\ waits' = PromoteFill(r, waits, a, s).waits /\ accounts' = a
<1> DEFINE t == PromoteFill(r, waits, a, s)
<1>1. Good(r, waits, a)
  BY DEF Offers
<1>2. /\ DOMAIN r \subseteq DOMAIN t.resv
      /\ \A i \in DOMAIN r : t.resv[i] = r[i]
  <2>1. Extends(t, r, waits, s)
    BY <1>1, FillType DEF Good
  <2>2. r \in Seq(Reservation) /\ DOMAIN r = 1..Len(r) /\ Len(r) \in Nat
    BY <1>1, LenProperties DEF Good, Typed
  <2> HIDE DEF t
  <2>3. DOMAIN t.resv = 1..Len(t.resv) /\ Len(t.resv) \in Nat
    BY <2>1, LenProperties DEF Extends
  <2> QED
    BY <2>1, <2>2, <2>3 DEF Extends
<1>3. waits' = t.waits /\ accounts' = a
  BY DEF Offers, Fills, Grants
<1>4. DOMAIN t.resv \subseteq DOMAIN resv' /\ \A i \in DOMAIN t.resv : resv'[i] = t.resv[i]
  <2>1. CASE Fills(r, a, s)
    BY <2>1 DEF Fills
  <2>2. ASSUME NEW u \in Users, NEW status \in {"PENDING", "CONFIRMED"}, Grants(r, a, s, u, status)
        PROVE  DOMAIN t.resv \subseteq DOMAIN resv' /\ \A i \in DOMAIN t.resv : resv'[i] = t.resv[i]
    <3> HIDE DEF t
    <3>1. /\ Len(t.resv) \in Nat /\ DOMAIN t.resv = 1..Len(t.resv)
          /\ DOMAIN resv' = 1..(Len(t.resv) + 1) /\ \A i \in DOMAIN t.resv : resv'[i] = t.resv[i]
      BY <1>1, <2>2, GrantRows DEF t
    <3> QED
      BY <3>1
  <2> QED
    BY <2>1, <2>2 DEF Offers
<1> QED
  BY <1>2, <1>3, <1>4

\* After a promotion a user without a seat in the slot has a clash only if they
\* had one before.
LEMMA FillClash ==
  ASSUME NEW r, NEW w, NEW a, NEW s \in Slots, Typed(r, w, a), NEW u,
         ~Clash(r, u, s), ~HoldsSeat(PromoteFill(r, w, a, s).resv, u, s)
  PROVE  ~Clash(PromoteFill(r, w, a, s).resv, u, s)
<1> DEFINE t == PromoteFill(r, w, a, s)
<1>1. Extends(t, r, w, s)
  BY FillType
<1>2. DOMAIN r = 1..Len(r) /\ Len(r) \in Nat
  BY LenProperties DEF Typed
<1> HIDE DEF t
<1>3. DOMAIN t.resv = 1..Len(t.resv) /\ Len(t.resv) \in Nat
  BY <1>1, LenProperties DEF Extends
<1>4. \A i \in DOMAIN t.resv : (i \in DOMAIN r /\ t.resv[i] = r[i]) \/ t.resv[i].slot = s
  BY <1>1, <1>2, <1>3 DEF Extends
<1>5. ~HoldsSeat(t.resv, u, s)
  BY DEF t
<1>6. ~Clash(t.resv, u, s)
  BY <1>4, <1>5 DEF Clash, HoldsSeat, Seated
<1> QED
  BY <1>6 DEF t

\* An offer books nobody twice,
LEMMA OfferApart ==
  ASSUME NEW r, NEW a, NEW s \in Slots, Offers(r, a, s), Apart(resv), OneWait(waits)
  PROVE  Apart(resv')
<1> DEFINE q == PromoteFill(r, waits, a, s).resv
<1>1. Good(r, waits, a) /\ Typed(r, waits, a) /\ Apart(r)
  BY DEF Offers, Clears, Good
<1>2. Apart(q)
  BY <1>1, FillApart
<1>3. CASE Fills(r, a, s)
  BY <1>2, <1>3 DEF Fills
<1>4. ASSUME NEW u \in Users, NEW status \in {"PENDING", "CONFIRMED"}, Grants(r, a, s, u, status)
      PROVE  Apart(resv')
  <2>1. ~Clash(q, u, s)
    BY <1>1, <1>4, FillClash DEF Grants
  <2>2. /\ Len(q) \in Nat /\ DOMAIN q = 1..Len(q)
        /\ DOMAIN resv' = 1..(Len(q) + 1) /\ \A i \in DOMAIN q : resv'[i] = q[i]
        /\ resv'[Len(q) + 1].user = u /\ resv'[Len(q) + 1].slot = s
    BY <1>1, <1>4, GrantRows
  <2> HIDE DEF q
  <2>3. \A i \in DOMAIN resv' : i \in DOMAIN q \/ i = Len(q) + 1
    BY <2>2
  <2>4. \A i \in DOMAIN q : (Live(q[i]) /\ q[i].user = u) =>
           ~Overlaps(s, q[i].slot) /\ ~Overlaps(q[i].slot, s)
    BY <2>1, OverlapsBoth DEF Clash
  <2> SUFFICES ASSUME NEW i \in DOMAIN resv', NEW k \in DOMAIN resv', i # k,
                      Live(resv'[i]), Live(resv'[k]), resv'[i].user = resv'[k].user
               PROVE  ~Overlaps(resv'[i].slot, resv'[k].slot)
    BY DEF Apart
  <2>5. CASE i \in DOMAIN q /\ k \in DOMAIN q
    BY <1>2, <2>2, <2>5 DEF Apart
  <2>6. CASE i \in DOMAIN q /\ k = Len(q) + 1
    BY <2>2, <2>4, <2>6
  <2>7. CASE i = Len(q) + 1 /\ k \in DOMAIN q
    BY <2>2, <2>4, <2>7
  <2> QED
    BY <2>3, <2>5, <2>6, <2>7
<1> QED
  BY <1>3, <1>4 DEF Offers

\* nor a user who would go on waiting for the slot: the queue came first.
LEMMA OfferUnseated ==
  ASSUME NEW r, NEW a, NEW s \in Slots, Offers(r, a, s), Strategy # "strict",
         "reschedule" \notin Requests, Unseated(resv, waits), OneWait(waits)
  PROVE  Unseated(resv', waits')
<1> DEFINE t == PromoteFill(r, waits, a, s)
<1>1. Good(r, waits, a) /\ Typed(r, waits, a) /\ Unseated(r, waits)
  BY DEF Offers, Clears, Good
<1>2. Unseated(t.resv, t.waits)
  BY <1>1, FillUnseated
<1>3. CASE Fills(r, a, s)
  BY <1>2, <1>3 DEF Fills
<1>4. ASSUME NEW u \in Users, NEW status \in {"PENDING", "CONFIRMED"}, Grants(r, a, s, u, status)
      PROVE  Unseated(resv', waits')
  <2>1. /\ ~Clash(t.resv, u, s) /\ Free(t.resv, s) > 0 /\ a[u].enabled /\ waits' = t.waits
    BY <1>1, <1>4, FillClash DEF Grants
  <2>2. /\ Len(t.resv) \in Nat /\ DOMAIN t.resv = 1..Len(t.resv)
        /\ DOMAIN resv' = 1..(Len(t.resv) + 1) /\ \A i \in DOMAIN t.resv : resv'[i] = t.resv[i]
        /\ resv'[Len(t.resv) + 1].user = u /\ resv'[Len(t.resv) + 1].slot = s
    BY <1>1, <1>4, GrantRows
  <2>3. Free(t.resv, s) \in Int
    <3>1. t.resv \in Seq(Reservation)
      BY <1>1, FillType DEF Extends
    <3> QED
      BY <1>1, <3>1, SeatedFinite, BoundsAssumption DEF Typed, Free
  <2>4. ASSUME NEW j \in DOMAIN t.waits, t.waits[j].status = "WAITING",
               t.waits[j].user = u, t.waits[j].slot = s
        PROVE  FALSE
    <3>1. Servable(t.resv, t.waits, a, j)
      BY <2>1, <2>4 DEF Servable, Clash, Overlaps, Live
    <3>2. j \in DOMAIN waits /\ waits[j].slot = s
      <4>1. DOMAIN t.waits = DOMAIN waits
        BY <1>1, FillWaits
      <4>2. CASE Free(r, s) > 0
        <5>1. Marked(r, waits, a, s, j, t.waits[j])
          BY <1>1, <2>4, <4>1, <4>2, FillWaits
        <5> QED
          BY <2>4, <4>1, <5>1 DEF Marked, Kin
      <4>3. CASE Free(r, s) <= 0
        BY <2>4, <4>1, <4>3, NoFill
      <4>4. Free(r, s) \in Int
        BY <1>1, SeatedFinite, BoundsAssumption DEF Typed, Free
      <4> QED
        BY <4>2, <4>3, <4>4
    <3>3. Free(t.resv, s) <= 0
      BY <1>1, <3>1, <3>2, FillServes
    <3> QED
      BY <2>1, <2>3, <3>3
  <2> HIDE DEF t
  <2>5. \A i \in DOMAIN resv' : i \in DOMAIN t.resv \/ i = Len(t.resv) + 1
    BY <2>2
  <2> QED
    BY <1>2, <2>1, <2>2, <2>4, <2>5 DEF Unseated, HoldsSeat, Seated
<1> QED
  BY <1>3, <1>4 DEF Offers

\* The row a user joins a queue with.
LEMMA JoinRows ==
  ASSUME TypeOK, NEW u \in Users, NEW s \in Slots, Joins(u, s)
  PROVE  /\ DOMAIN waits = 1..Len(waits) /\ Len(waits) \in Nat
         /\ DOMAIN waits' = 1..(Len(waits) + 1)
         /\ \A j \in DOMAIN waits : waits'[j] = waits[j]
         /\ waits'[Len(waits) + 1].user = u /\ waits'[Len(waits) + 1].slot = s
         /\ waits'[Len(waits) + 1].status = "WAITING"
<1>1. waits \in Seq(Wait) /\ now \in Nat
  BY ServiceAssumption DEF TypeOK
<1>2. WaitRow(u, s) \in Wait
  BY <1>1 DEF WaitRow, Wait, WaitStatus, RolePriority
<1>3. WaitRow(u, s).user = u /\ WaitRow(u, s).slot = s /\ WaitRow(u, s).status = "WAITING"
  BY DEF WaitRow
<1>4. waits' = Append(waits, WaitRow(u, s))
  BY DEF Joins
<1> HIDE DEF WaitRow
<1> QED
  BY <1>1, <1>2, <1>3, <1>4, AppendProperties, LenProperties

\* Nobody ever waits twice for a slot.
LEMMA OneWaitKeeps == TypeOK /\ OneWait(waits) /\ [Next]_vars => OneWait(waits')
<1> SUFFICES ASSUME TypeOK, OneWait(waits), [Next]_vars PROVE OneWait(waits')
  OBVIOUS
<1>1. CASE Plain
  BY <1>1 DEF Plain, Kin, OneWait
<1>2. ASSUME NEW u \in Users, NEW s \in Slots, Joins(u, s) PROVE OneWait(waits')
  <2>1. \A j \in DOMAIN waits : waits[j].status = "WAITING" /\ waits[j].slot = s => waits[j].user # u
    BY <1>2 DEF Joins, Queued, Waiting
  <2>2. /\ \A j \in DOMAIN waits' : j \in DOMAIN waits \/ j = Len(waits) + 1
        /\ \A j \in DOMAIN waits : waits'[j] = waits[j]
        /\ waits'[Len(waits) + 1].user = u /\ waits'[Len(waits) + 1].slot = s
    BY <1>2, JoinRows
  <2> QED
    BY <2>1, <2>2 DEF OneWait
<1>3. ASSUME NEW r, NEW a, NEW s \in Slots, Offers(r, a, s) PROVE OneWait(waits')
  BY <1>3, OfferKeepsRows, FillOneWait DEF Offers, Good
<1>4. CASE \/ \E i \in DOMAIN resv : Approve(i)
           \/ \E u \in Users, b \in Runs : Batch(u, b)
  BY <1>4 DEF Approve, Batch, Commit
<1> QED
  BY <1>1, <1>2, <1>3, <1>4, NextKind DEF Kinds

\* Only an approval or a batch can book a user in two places at one time.
LEMMA ApartKeeps ==
  TypeOK /\ OneWait(waits) /\ Apart(resv) /\ [Next]_vars =>
     \/ Apart(resv')
     \/ \E i \in DOMAIN resv : Approve(i)
     \/ \E u \in Users, b \in Runs : Batch(u, b)
<1> SUFFICES ASSUME TypeOK, OneWait(waits), Apart(resv), [Next]_vars
             PROVE  \/ Apart(resv')
                    \/ \E i \in DOMAIN resv : Approve(i)
                    \/ \E u \in Users, b \in Runs : Batch(u, b)
  OBVIOUS
<1>1. CASE Plain
  BY <1>1 DEF Plain, Apart
<1>2. ASSUME NEW u \in Users, NEW s \in Slots, Joins(u, s) PROVE Apart(resv')
  BY <1>2 DEF Joins
<1>3. ASSUME NEW r, NEW a, NEW s \in Slots, Offers(r, a, s) PROVE Apart(resv')
  BY <1>3, OfferApart
<1> QED
  BY <1>1, <1>2, <1>3, NextKind DEF Kinds

\* Only an approval or a batch can seat somebody who waits.
LEMMA UnseatedKeeps ==
  ASSUME Strategy # "strict", "reschedule" \notin Requests
  PROVE  TypeOK /\ OneWait(waits) /\ Unseated(resv, waits) /\ [Next]_vars =>
           \/ Unseated(resv', waits')
           \/ \E i \in DOMAIN resv : Approve(i)
           \/ \E u \in Users, b \in Runs : Batch(u, b)
<1> SUFFICES ASSUME TypeOK, OneWait(waits), Unseated(resv, waits), [Next]_vars
             PROVE  \/ Unseated(resv', waits')
                    \/ \E i \in DOMAIN resv : Approve(i)
                    \/ \E u \in Users, b \in Runs : Batch(u, b)
  OBVIOUS
<1>1. CASE Plain
  BY <1>1 DEF Plain, Kin, Unseated, HoldsSeat, Seated
<1>2. ASSUME NEW u \in Users, NEW s \in Slots, Joins(u, s) PROVE Unseated(resv', waits')
  <2>1. resv' = resv /\ ~HoldsSeat(resv, u, s)
    BY <1>2 DEF Joins
  <2>2. /\ \A j \in DOMAIN waits' : j \in DOMAIN waits \/ j = Len(waits) + 1
        /\ \A j \in DOMAIN waits : waits'[j] = waits[j]
        /\ waits'[Len(waits) + 1].user = u /\ waits'[Len(waits) + 1].slot = s
    BY <1>2, JoinRows
  <2> QED
    BY <2>1, <2>2 DEF Unseated
<1>3. ASSUME NEW r, NEW a, NEW s \in Slots, Offers(r, a, s) PROVE Unseated(resv', waits')
  BY <1>3, OfferUnseated
<1> QED
  BY <1>1, <1>2, <1>3, NextKind DEF Kinds
-----------------------------------------------------------------------------
\* No user is booked in two laboratories at one time, neither by a request of
\* their own nor by a promotion somebody else set off: the overlap tests of
\* reserve, promote and reschedule are enough.  An approval and a batch do not
\* make that test as the others do.
THEOREM NowhereTwice ==
  Requests \cap {"approve", "batch"} = {} => (Spec => []NoDoubleBooking)
<1> SUFFICES ASSUME Requests \cap {"approve", "batch"} = {} PROVE Spec => []NoDoubleBooking
  OBVIOUS
<1> DEFINE Inv == OneWait(waits) /\ Apart(resv)
<1>1. Init => Inv
  BY DEF Init, OneWait, Apart
<1>2. \A i : ~Approve(i)
  BY DEF Approve
<1>3. \A u, b : ~Batch(u, b)
  BY DEF Batch
<1>4. TypeOK /\ Inv /\ [Next]_vars => Inv'
  <2>1. OneWait(waits') /\ Apart(resv') => Inv'
    BY DEF OneWait, Apart, Live, Overlaps, End
  <2> QED
    BY <1>2, <1>3, <2>1, OneWaitKeeps, ApartKeeps
<1>5. Inv => NoDoubleBooking
  BY DEF Apart, NoDoubleBooking
<1> HIDE DEF Inv
<1> QED
  BY <1>1, <1>4, <1>5, TypeCorrect, PTL DEF Spec

\* A user waits once for a slot, and not for one in which they have a seat: the
\* assertion of db_check.  It fails where a request takes a seat without looking
\* at the queue, and where the strict strategy leaves a waiter behind a clash.
THEOREM NobodyWaitsSeated ==
  (Strategy # "strict" /\ Requests \cap {"approve", "batch", "reschedule"} = {}) =>
     (Spec => []WaitersUnseated)
<1> SUFFICES ASSUME Strategy # "strict", Requests \cap {"approve", "batch", "reschedule"} = {}
             PROVE  Spec => []WaitersUnseated
  OBVIOUS
<1> DEFINE Inv == OneWait(waits) /\ Unseated(resv, waits)
<1>1. Init => Inv
  BY DEF Init, OneWait, Unseated
<1>2. \A i : ~Approve(i)
  BY DEF Approve
<1>3. \A u, b : ~Batch(u, b)
  BY DEF Batch
<1>4. TypeOK /\ Inv /\ [Next]_vars => Inv'
  <2>1. OneWait(waits') /\ Unseated(resv', waits') => Inv'
    BY DEF OneWait, Unseated, HoldsSeat, Seated, Live
  <2>2. "reschedule" \notin Requests
    OBVIOUS
  <2> QED
    BY <1>2, <1>3, <2>1, <2>2, OneWaitKeeps, UnseatedKeeps
<1>5. Inv => WaitersUnseated
  BY DEF OneWait, Unseated, HoldsSeat, Seated, Live, Waiting, WaitersUnseated
<1> HIDE DEF Inv
<1> QED
  BY <1>1, <1>4, <1>5, TypeCorrect, PTL DEF Spec

\* What the model does in one expression is what promote_fill() does row by row:
\* a user waits once for a slot, so to seat one waiter stands in no other's way.
THEOREM PromotionIsTheLoop == Spec => []FillIsTheLoop
<1> DEFINE Inv == OneWait(waits)
<1>1. Init => Inv
  BY DEF Init, OneWait
<1>2. TypeOK /\ Inv /\ [Next]_vars => Inv'
  <2>1. OneWait(waits') => Inv'
    BY DEF OneWait
  <2> QED
    BY <2>1, OneWaitKeeps
<1>3. TypeOK /\ Inv => FillIsTheLoop
  <2> SUFFICES ASSUME TypeOK, OneWait(waits), NEW s \in Slots,
                      NEW r \in {resv} \cup {WithoutRow(resv, i) :
                                             i \in {k \in DOMAIN resv : Live(resv[k])}}
               PROVE  PromoteFill(r, waits, accounts, s) = Loop(r, waits, accounts, s)
    BY DEF FillIsTheLoop
  <2>1. Typed(resv, waits, accounts)
    BY DEF TypeOK, Typed
  <2>2. ASSUME NEW i \in DOMAIN resv PROVE Typed(WithoutRow(resv, i), waits, accounts)
    <3>1. resv \in Seq(Reservation) /\ resv[i] \in Reservation
      BY ElementOfSeq, LenProperties DEF TypeOK
    <3>2. [resv[i] EXCEPT !.status = "CANCELLED"] \in Reservation
      BY <3>1 DEF Reservation, ResvStatus
    <3>3. WithoutRow(resv, i) \in Seq(Reservation)
      BY <3>1, <3>2, ExceptSeq DEF WithoutRow
    <3> QED
      BY <2>1, <3>3 DEF Typed
  <2>3. Typed(r, waits, accounts)
    BY <2>1, <2>2
  <2> QED
    BY <2>3, FillIsLoop
<1> HIDE DEF Inv
<1> QED
  BY <1>1, <1>2, <1>3, TypeCorrect, PTL DEF Spec
-----------------------------------------------------------------------------
(***************************************************************************)
(* The order of the queue.                                                 *)
(***************************************************************************)

\* Who could be served at the end of a step could be served in the table its
\* promotion ended with.
LEMMA OfferServable ==
  ASSUME NEW r, NEW a, NEW s \in Slots, Offers(r, a, s), NEW k,
         Servable(resv', waits', accounts', k)
  PROVE  Servable(PromoteFill(r, waits, a, s).resv, PromoteFill(r, waits, a, s).waits, a, k)
<1> DEFINE t == PromoteFill(r, waits, a, s)
<1>1. /\ DOMAIN t.resv \subseteq DOMAIN resv'
      /\ \A i \in DOMAIN t.resv : resv'[i] = t.resv[i]
      /\ waits' = t.waits /\ accounts' = a
  BY OfferKeepsRows
<1> HIDE DEF t
<1>2. Servable(t.resv, t.waits, a, k)
  BY <1>1 DEF Servable
<1> QED
  BY <1>2 DEF t

\* The waitlist keeps its rows, each for its user and slot.
LEMMA OfferKin ==
  ASSUME NEW r, NEW a, NEW s \in Slots, Offers(r, a, s)
  PROVE  DOMAIN waits' = DOMAIN waits /\ \A j \in DOMAIN waits : Kin(waits'[j], waits[j])
<1>1. Typed(r, waits, a) /\ waits' = PromoteFill(r, waits, a, s).waits
  BY OfferKeepsRows DEF Offers, Good
<1>2. Free(r, s) \in Int
  BY <1>1, SeatedFinite, BoundsAssumption DEF Typed, Free
<1>3. CASE Free(r, s) > 0
  BY <1>1, <1>3, FillWaits DEF Marked
<1>4. CASE Free(r, s) <= 0
  BY <1>1, <1>4, NoFill DEF Kin
<1> QED
  BY <1>2, <1>3, <1>4

\* With roles and arrival as the order, nobody is promoted past a waiter who
\* could be served.
THEOREM PromotionsInOrder == Strategy # "weighted" => (Spec => PromotedInOrder)
<1> SUFFICES ASSUME Strategy # "weighted" PROVE Spec => PromotedInOrder
  OBVIOUS
<1> DEFINE InOrder ==
      \A j, k \in DOMAIN waits :
         (/\ waits[j].status = "WAITING" /\ waits'[j].status = "PROMOTED"
          /\ waits[k].slot = waits[j].slot /\ waits'[k].status = "WAITING"
          /\ Servable(resv', waits', accounts', k)) =>
            \/ waits[j].prio > waits[k].prio
            \/ waits[j].prio = waits[k].prio /\ j < k
<1>1. ASSUME TypeOK, [Next]_vars PROVE InOrder
  <2>1. CASE Plain
    BY <2>1 DEF Plain
  <2>2. ASSUME NEW u \in Users, NEW s \in Slots, Joins(u, s) PROVE InOrder
    <3>1. \A j \in DOMAIN waits : waits'[j] = waits[j]
      BY <1>1, <2>2, JoinRows
    <3> QED
      BY <3>1
  <2>3. ASSUME NEW r, NEW a, NEW s \in Slots, Offers(r, a, s) PROVE InOrder
    <3> SUFFICES ASSUME NEW j \in DOMAIN waits, NEW k \in DOMAIN waits,
                        waits[j].status = "WAITING", waits'[j].status = "PROMOTED",
                        waits[k].slot = waits[j].slot, Servable(resv', waits', accounts', k)
                 PROVE  RoleAhead(waits, j, k)
      BY DEF RoleAhead
    <3>1. waits' = PromoteFill(r, waits, a, s).waits /\ Typed(r, waits, a)
      BY <2>3, OfferKeepsRows DEF Offers, Good
    <3> QED
      BY <2>3, <3>1, OfferServable, FillOrder
  <2>4. CASE \/ \E i \in DOMAIN resv : Approve(i)
             \/ \E u \in Users, b \in Runs : Batch(u, b)
    BY <2>4 DEF Approve, Batch, Commit
  <2> QED
    BY <1>1, <2>1, <2>2, <2>3, <2>4, NextKind DEF Kinds
<1>2. TypeOK /\ [Next]_vars => [InOrder]_vars
  BY <1>1
<1> QED
  BY <1>2, TypeCorrect, PTL DEF Spec, PromotedInOrder

\* What an offer leaves: a full slot, or nobody to serve.
LEMMA OfferServes ==
  ASSUME NEW r, NEW a, NEW s \in Slots, Offers(r, a, s), Strategy # "strict",
         NEW k \in DOMAIN waits', waits'[k].slot = s, Servable(resv', waits', accounts', k)
  PROVE  /\ Fills(r, a, s)
         /\ Cardinality(Seated(resv', s)) >= slots[s].capacity
<1> DEFINE q == PromoteFill(r, waits, a, s).resv
<1>1. Typed(r, waits, a) /\ Good(r, waits, a)
  BY DEF Offers, Good
<1>2. k \in DOMAIN waits /\ waits[k].slot = s
  BY OfferKin DEF Kin
<1>3. Free(q, s) <= 0
  BY <1>1, <1>2, OfferServable, FillServes
<1>4. Cardinality(Seated(q, s)) \in Nat /\ slots[s].capacity \in Nat
  <2>1. q \in Seq(Reservation)
    BY <1>1, FillType DEF Extends
  <2>2. slots[s].capacity \in Nat
    BY <1>1, BoundsAssumption DEF Typed
  <2> HIDE DEF q
  <2> QED
    BY <2>1, <2>2, SeatedFinite
<1> HIDE DEF q
<1>5. ~(Free(q, s) > 0) /\ Cardinality(Seated(q, s)) >= slots[s].capacity
  BY <1>3, <1>4 DEF Free
<1>6. Fills(r, a, s)
  BY <1>5 DEF Offers, Grants, q
<1> QED
  BY <1>5, <1>6 DEF Fills, q, Seated

\* A seat that is given up is offered to the queue in the same transaction.
THEOREM FreedSeatsOffered == Strategy # "strict" => (Spec => FreedSeatOffered)
<1> SUFFICES ASSUME Strategy # "strict" PROVE Spec => FreedSeatOffered
  OBVIOUS
<1> DEFINE Full(s) == Cardinality(Seated(resv', s)) >= slots[s].capacity
           Wanted(s) == \E j \in DOMAIN waits' : /\ waits'[j].slot = s
                                                /\ Servable(resv', waits', accounts', j)
           Left(i) == Live(resv[i]) /\ ~(Live(resv'[i]) /\ resv'[i].slot = resv[i].slot)
           Offered == \A i \in DOMAIN resv :
                         Left(i) => Full(resv[i].slot) \/ ~Wanted(resv[i].slot)
<1>1. ASSUME TypeOK, [Next]_vars PROVE Offered
  <2>1. CASE Plain
    BY <2>1 DEF Plain
  <2>2. ASSUME NEW u \in Users, NEW s \in Slots, Joins(u, s) PROVE Offered
    BY <2>2 DEF Joins
  <2>3. ASSUME NEW r, NEW a, NEW s \in Slots, Offers(r, a, s) PROVE Offered
    <3> SUFFICES ASSUME NEW i \in DOMAIN resv, Left(i), Wanted(resv[i].slot)
                 PROVE  Full(resv[i].slot)
      OBVIOUS
    <3>1. resv[i].slot = s
      <4>1. \/ resv[i].slot = s
            \/ i \in DOMAIN r /\ Live(r[i]) /\ r[i].slot = resv[i].slot
        BY <2>3 DEF Offers, Clears
      <4>2. i \in DOMAIN r => resv'[i] = r[i]
        BY <2>3, OfferKeepsRows
      <4> QED
        BY <4>1, <4>2
    <3> QED
      BY <2>3, <3>1, OfferServes
  <2>4. CASE \E k \in DOMAIN resv : Approve(k)
    <3> PICK k \in DOMAIN resv : Approve(k)
      BY <2>4
    <3>1. resv' = [resv EXCEPT ![k].status = "CONFIRMED"] /\ resv[k] \in Reservation
      BY <1>1, ResvRow DEF Approve, Commit
    <3>2. \A i \in DOMAIN resv : Live(resv[i]) => Live(resv'[i]) /\ resv'[i].slot = resv[i].slot
      BY <3>1 DEF Live, Reservation
    <3> QED
      BY <3>2
  <2>5. CASE \E u \in Users, b \in Runs : Batch(u, b)
    <3> PICK u \in Users, b \in Runs : Batch(u, b)
      BY <2>5
    <3> DEFINE new == [k \in DOMAIN b |-> DirectRow(u, b[k], "CONFIRMED")]
    <3>1. resv' = resv \o new
      BY DEF Batch, Commit
    <3>2. \A i \in DOMAIN resv : resv'[i] = resv[i]
      <4>1. resv \in Seq(Reservation) /\ DOMAIN resv = 1..Len(resv) /\ Len(resv) \in Nat
        BY <1>1, LenProperties DEF TypeOK
      <4>2. DOMAIN b = 1..Len(b) /\ Len(b) \in Nat
        BY RunsDistinct
      <4>3. new = [k \in 1..Len(b) |-> new[k]]
        BY <4>2
      <4> HIDE DEF new
      <4>4. Len(new) = Len(b)
        BY <4>2, <4>3
      <4> QED
        BY <3>1, <4>1, <4>2, <4>3, <4>4
    <3> QED
      BY <3>2
  <2> QED
    BY <1>1, <2>1, <2>2, <2>3, <2>4, <2>5, NextKind DEF Kinds
<1>2. TypeOK /\ [Next]_vars =>
        [\A i \in DOMAIN resv :
           LET s == resv[i].slot IN
           (Live(resv[i]) /\ ~(Live(resv'[i]) /\ resv'[i].slot = s)) =>
              \/ Cardinality(Seated(resv', s)) >= slots[s].capacity
              \/ ~\E j \in DOMAIN waits' : waits'[j].slot = s
                                         /\ Servable(resv', waits', accounts', j)]_vars
  BY <1>1
<1> QED
  BY <1>2, TypeCorrect, PTL DEF Spec, FreedSeatOffered

\* The rows a promotion adds are seats of its slot, and are known as promoted.
LEMMA FillNew ==
  ASSUME NEW r, NEW w, NEW a, NEW s \in Slots, Typed(r, w, a),
         NEW i \in DOMAIN PromoteFill(r, w, a, s).resv, i \notin DOMAIN r
  PROVE  /\ PromoteFill(r, w, a, s).resv[i].slot = s
         /\ PromoteFill(r, w, a, s).resv[i].source = "WAITLIST"
<1> DEFINE q == PromoteFill(r, w, a, s).resv
           n == Cardinality(Chosen(r, w, a, s))
<1>1. Free(r, s) > 0
  <2>1. Free(r, s) \in Int
    BY SeatedFinite, BoundsAssumption DEF Typed, Free
  <2> QED
    BY <2>1, NoFill
<1>2. n \in Nat /\ Len(r) \in Nat /\ DOMAIN r = 1..Len(r) /\ DOMAIN q = 1..(Len(r) + n)
  BY <1>1, FillRows
<1>3. i \in (Len(r) + 1)..(Len(r) + n)
  BY <1>2
<1>4. q[i] = GrantedRow(w[Taker(r, w, a, s, i)].user, s)
  BY <1>1, <1>3, FillRows
<1> HIDE DEF q
<1>5. q[i].slot = s /\ q[i].source = "WAITLIST"
  BY <1>4 DEF GrantedRow, Row
<1> QED
  BY <1>5 DEF q

\* BR19: a direct booking never overtakes a waiter of the slot who could be
\* served; only a batch books without asking the queue.
THEOREM QueueComesFirst ==
  (Strategy # "strict" /\ "batch" \notin Requests) => (Spec => NoQueueJumping)
<1> SUFFICES ASSUME Strategy # "strict", "batch" \notin Requests PROVE Spec => NoQueueJumping
  OBVIOUS
<1> DEFINE Wanted(s) == \E j \in DOMAIN waits' : /\ waits'[j].slot = s
                                                /\ Servable(resv', waits', accounts', j)
           InTurn == \A i \in DOMAIN resv' \ DOMAIN resv :
                        (resv'[i].source = "DIRECT" /\ Live(resv'[i])) => ~Wanted(resv'[i].slot)
<1>1. ASSUME TypeOK, [Next]_vars PROVE InTurn
  <2>1. CASE Plain
    BY <2>1 DEF Plain
  <2>2. ASSUME NEW u \in Users, NEW s \in Slots, Joins(u, s) PROVE InTurn
    BY <2>2 DEF Joins
  <2>3. ASSUME NEW r, NEW a, NEW s \in Slots, Offers(r, a, s) PROVE InTurn
    <3> DEFINE q == PromoteFill(r, waits, a, s).resv
    <3> SUFFICES ASSUME NEW i \in DOMAIN resv' \ DOMAIN resv, resv'[i].source = "DIRECT",
                        Wanted(resv'[i].slot)
                 PROVE  FALSE
      OBVIOUS
    <3>1. Typed(r, waits, a) /\ Good(r, waits, a) /\ DOMAIN r = DOMAIN resv
      BY <2>3 DEF Offers, Good, Clears
    <3>2. i \in DOMAIN q => q[i].slot = s /\ q[i].source = "WAITLIST" /\ resv'[i] = q[i]
      BY <2>3, <3>1, FillNew, OfferKeepsRows
    <3>3. resv'[i].slot = s
      <4>1. CASE Fills(r, a, s)
        BY <3>2, <4>1 DEF Fills
      <4>2. ASSUME NEW u \in Users, NEW status \in {"PENDING", "CONFIRMED"},
                   Grants(r, a, s, u, status)
            PROVE  resv'[i].slot = s
        <5> HIDE DEF q
        <5>1. /\ Len(q) \in Nat /\ DOMAIN q = 1..Len(q) /\ DOMAIN resv' = 1..(Len(q) + 1)
              /\ resv'[Len(q) + 1].slot = s
          BY <3>1, <4>2, GrantRows DEF q
        <5>2. i \in DOMAIN q \/ i = Len(q) + 1
          BY <5>1
        <5> QED
          BY <3>2, <5>1, <5>2
      <4> QED
        BY <2>3, <4>1, <4>2 DEF Offers
    <3>4. Fills(r, a, s)
      BY <2>3, <3>3, OfferServes
    <3> QED
      BY <3>2, <3>4 DEF Fills
  <2>4. CASE \E k \in DOMAIN resv : Approve(k)
    BY <2>4 DEF Approve, Commit
  <2>5. \A u, b : ~Batch(u, b)
    BY DEF Batch
  <2> QED
    BY <1>1, <2>1, <2>2, <2>3, <2>4, <2>5, NextKind DEF Kinds
<1>2. TypeOK /\ [Next]_vars =>
        [\A i \in DOMAIN resv' \ DOMAIN resv :
           (resv'[i].source = "DIRECT" /\ Live(resv'[i])) =>
              ~\E j \in DOMAIN waits' : waits'[j].slot = resv'[i].slot
                                      /\ Servable(resv', waits', accounts', j)]_vars
  BY <1>1
<1> QED
  BY <1>2, TypeCorrect, PTL DEF Spec, NoQueueJumping
-----------------------------------------------------------------------------
(***************************************************************************)
(* Evictions.                                                              *)
(***************************************************************************)
NoneEvicted ==
  \A i \in DOMAIN resv : resv'[i].reason = "PREEMPTED" => resv[i].reason = "PREEMPTED"

\* the same of a table on the way
Spares(r) ==
  /\ DOMAIN r = DOMAIN resv
  /\ \A i \in DOMAIN resv : r[i].reason = "PREEMPTED" => resv[i].reason = "PREEMPTED"

\* A promotion evicts nobody.
LEMMA FillSpares ==
  ASSUME NEW r, NEW a, NEW s \in Slots, Typed(r, waits, a), Spares(r),
         CommitFill(PromoteFill(r, waits, a, s), a)
  PROVE  NoneEvicted
<1> DEFINE q == PromoteFill(r, waits, a, s).resv
<1>1. resv' = q
  BY DEF CommitFill, Commit
<1>2. DOMAIN r = 1..Len(r) /\ \A i \in 1..Len(r) : q[i] = r[i]
  BY FillType, LenProperties DEF Typed, Extends
<1> HIDE DEF q
<1> QED
  BY <1>1, <1>2 DEF Spares, NoneEvicted

\* Admitting a request adds rows to the table and changes none of it.
LEMMA AdmitAdds ==
  ASSUME NEW u, NEW s \in Slots, NEW r, NEW a, Good(r, waits, a), Admit(u, s, r, a)
  PROVE  \A i \in DOMAIN r : resv'[i] = r[i]
<1> DEFINE t == PromoteFill(r, waits, a, s)
           row == DirectRow(u, s, IF labs[LabOf[s]].approval THEN "PENDING" ELSE "CONFIRMED")
<1>1. Extends(t, r, waits, s)
  BY FillType DEF Good
<1>2. DOMAIN r = 1..Len(r) /\ Len(r) \in Nat
  BY LenProperties DEF Good, Typed
<1>3. resv' = t.resv \/ resv' = Append(t.resv, row)
  BY DEF Admit, CommitFill, Commit
<1> HIDE DEF t, row
<1> QED
  BY <1>1, <1>2, <1>3 DEF Extends

\* The other requests evict nobody.
LEMMA OthersSpare ==
  ASSUME TypeOK, [Next]_vars, ~\E u \in Users, s \in Slots : Reserve(u, s)
  PROVE  NoneEvicted
<1>1. \A i \in DOMAIN resv : resv[i] \in Reservation /\ resv[i].slot \in Slots
  BY ResvRow
<1>2. ASSUME NEW i \in DOMAIN resv, NEW why \in Reasons \ {"PREEMPTED"}
      PROVE  Spares(Cancelled(resv, i, why))
  BY <1>1 DEF Cancelled, Spares, Reservation
<1>3. ASSUME NEW i \in DOMAIN resv,
             CheckIn(i) \/ Checkout(i) \/ Confirm(i) \/ Approve(i) \/ Reject(i) \/ ForceComplete(i)
      PROVE  NoneEvicted
  BY <1>1, <1>3
     DEF CheckIn, Checkout, Confirm, Approve, Reject, ForceComplete, Commit, NoneEvicted, Reservation
<1>4. ASSUME NEW i \in DOMAIN resv, Cancel(i) \/ ForceCancel(i) PROVE NoneEvicted
  <2>1. PICK why \in {"USER", "ADMIN"} :
          \/ CommitFill(PromoteFill(Cancelled(resv, i, why), waits, accounts, resv[i].slot), accounts)
          \/ Commit(Cancelled(resv, i, why), waits, accounts)
    BY <1>4 DEF Cancel, ForceCancel
  <2>2. Spares(Cancelled(resv, i, why)) /\ Typed(Cancelled(resv, i, why), waits, accounts)
    <3>1. why \in Reasons \ {"PREEMPTED"}
      BY DEF Reasons
    <3> QED
      BY <1>2, <3>1, LeaveGood DEF Good
  <2>3. CASE Commit(Cancelled(resv, i, why), waits, accounts)
    BY <2>2, <2>3 DEF Commit, Spares, NoneEvicted
  <2> QED
    BY <1>1, <2>1, <2>2, <2>3, FillSpares
<1>5. ASSUME NEW i \in DOMAIN resv, NEW t \in Slots, Reschedule(i, t) PROVE NoneEvicted
  <2> DEFINE r == [resv EXCEPT ![i].slot = t]
  <2>1. CommitFill(PromoteFill(r, waits, accounts, resv[i].slot), accounts)
    BY <1>5 DEF Reschedule
  <2>2. Spares(r)
    BY <1>1 DEF Spares, Reservation
  <2>3. r \in Seq(Reservation)
    <3>1. [resv[i] EXCEPT !.slot = t] \in Reservation
      BY <1>1 DEF Reservation
    <3>2. resv \in Seq(Reservation) /\ DOMAIN resv = 1..Len(resv)
      BY LenProperties DEF TypeOK
    <3> QED
      BY <3>1, <3>2, ExceptSeq
  <2>4. Typed(r, waits, accounts)
    BY <2>3 DEF TypeOK, Typed
  <2> HIDE DEF r
  <2> QED
    BY <1>1, <2>1, <2>2, <2>4, FillSpares
<1>6. ASSUME NEW u \in Users, NEW b \in Runs, Batch(u, b) PROVE NoneEvicted
  <2> DEFINE new == [k \in DOMAIN b |-> DirectRow(u, b[k], "CONFIRMED")]
  <2>1. resv' = resv \o new
    BY <1>6 DEF Batch, Commit
  <2>2. resv \in Seq(Reservation) /\ DOMAIN resv = 1..Len(resv) /\ Len(resv) \in Nat
    BY LenProperties DEF TypeOK
  <2>3. Len(new) = Len(b) /\ Len(b) \in Nat
    <3>1. DOMAIN b = 1..Len(b) /\ Len(b) \in Nat
      BY RunsDistinct
    <3>2. new = [k \in 1..Len(b) |-> new[k]]
      BY <3>1
    <3> HIDE DEF new
    <3> QED
      BY <3>1, <3>2
  <2> HIDE DEF new
  <2>4. \A i \in DOMAIN resv : (resv \o new)[i] = resv[i]
    BY <2>2, <2>3
  <2> QED
    BY <2>1, <2>4 DEF NoneEvicted
<1>7. CASE UNCHANGED resv
  BY <1>7 DEF NoneEvicted
<1>8. CASE \/ Tick \/ UNCHANGED vars
           \/ \E u \in Users, s \in Slots : Join(u, s)
           \/ \E j \in DOMAIN waits : Withdraw(j)
           \/ \E s \in Slots, c \in 1..MaxCapacity, o \in BOOLEAN : SlotUpdate(s, c, o)
           \/ \E l \in Labs, o, p \in BOOLEAN : LabUpdate(l, o, p)
           \/ \E u \in Users : Disable(u) \/ Enable(u)
           \/ \E u \in Users, n \in 1..CreditBase : CreditGrant(u, n)
  BY <1>7, <1>8 DEF Tick, vars, Join, Withdraw, SlotUpdate, LabUpdate, Disable, Enable,
                    CreditGrant, Commit
<1> QED
  BY <1>3, <1>4, <1>5, <1>6, <1>8 DEF Next, UserRequest, AdminRequest

\* The slot an administrator takes a seat over in is full before and after,
\* whoever gets the seat in the end.
LEMMA TakeOverFull ==
  ASSUME IInv, NEW u \in Users, NEW s \in Slots, NEW v \in Victim(u, s), NEW a \in [Users -> Account],
         Free(resv, s) <= 0, ~HoldsSeat(resv, u, s), ~labs[LabOf[s]].approval, TakeOver(u, s, v, a)
  PROVE  Cardinality(Seated(resv', s)) = Cardinality(Seated(resv, s))
<1> DEFINE r == Evict(resv, v)
           b == CreditApply(a, resv[v].user, 1)
           t == PromoteFill(r, waits, b, s)
           c == slots[s].capacity
           n == Cardinality(Chosen(r, waits, b, s))
           row == DirectRow(u, s, "CONFIRMED")
<1>1. v \in Seated(resv, s) /\ v \in DOMAIN resv
  BY DEF Victim, Evictable, Seated
<1>0. TypeOK /\ SeatsWithinCapacity
  BY DEF IInv
<1>2. resv \in Seq(Reservation) /\ c \in Nat /\ resv[v] \in Reservation /\ resv[v].user \in Users
  BY <1>0, <1>1, ResvRow, BoundsAssumption DEF TypeOK
<1>3. Good(r, waits, b)
  <2>1. Good(r, waits, accounts)
    BY <1>0, <1>1, LeaveGood DEF Reasons
  <2> QED
    BY <1>2, <2>1, CreditType, GoodAccounts
<1>4. IsFiniteSet(Seated(resv, s)) /\ Cardinality(Seated(resv, s)) = c
  <2>1. IsFiniteSet(Seated(resv, s)) /\ Cardinality(Seated(resv, s)) \in Nat
    BY <1>2, SeatedFinite
  <2>2. Cardinality(Seated(resv, s)) <= c
    BY <1>0 DEF SeatsWithinCapacity
  <2> QED
    BY <1>2, <2>1, <2>2 DEF Free
<1>5. /\ DOMAIN r = DOMAIN resv /\ ~Live(r[v])
      /\ \A k \in DOMAIN resv : k # v => r[k] = resv[k]
  BY <1>1, <1>2 DEF Evict, Live, Reservation
<1> HIDE DEF r, b
<1>6. Seated(r, s) = Seated(resv, s) \ {v}
  BY <1>5 DEF Seated
<1>7. Cardinality(Seated(r, s)) = c - 1 /\ Free(r, s) = 1
  <2>1. Cardinality(Seated(resv, s) \ {v}) = Cardinality(Seated(resv, s)) - 1
    BY <1>1, <1>4, FS_RemoveElement, Zenon
  <2>2. c - (c - 1) = 1
    BY <1>2
  <2> QED
    BY <1>4, <1>6, <2>1, <2>2 DEF Free
<1>8. Admit(u, s, r, b)
  BY <1>7 DEF TakeOver, r, b
<1>9. Good(t.resv, t.waits, b)
  BY <1>3, GoodFill
<1>10. /\ t.resv \in Seq(Reservation) /\ Cardinality(Seated(t.resv, s)) \in Nat
       /\ Cardinality(Seated(t.resv, s)) <= c
  <2>1. t.resv \in Seq(Reservation) /\ Cardinality(Seated(t.resv, s)) \in Nat
    BY <1>9, SeatedFinite DEF Good, Typed
  <2>2. Free(resv, s) = 0
    BY <1>2, <1>4 DEF Free
  <2>3. Free(t.resv, s) >= 0
    BY <1>9, <2>2 DEF Good
  <2> HIDE DEF t
  <2>4. Free(t.resv, s) = c - Cardinality(Seated(t.resv, s))
    BY DEF Free
  <2> QED
    BY <1>2, <2>1, <2>3, <2>4
<1>11. n \in Nat /\ Cardinality(Seated(t.resv, s)) = c - 1 + n
  BY <1>3, <1>7, FillTakes, ChosenBound DEF Good
<1>12. Cardinality(Seated(t.resv, s)) = c - 1 \/ Cardinality(Seated(t.resv, s)) = c
  BY <1>2, <1>10, <1>11
<1>13. HoldsSeat(t.resv, u, s) => Cardinality(Seated(t.resv, s)) = c
  <2> SUFFICES ASSUME NEW i \in Seated(t.resv, s), t.resv[i].user = u PROVE n # 0
    BY <1>2, <1>11, <1>12 DEF HoldsSeat
  <2>1. /\ Len(r) \in Nat /\ DOMAIN r = 1..Len(r)
        /\ DOMAIN t.resv = 1..(Len(r) + n) /\ \A k \in 1..Len(r) : t.resv[k] = r[k]
    BY <1>3, <1>7, FillRows DEF Good
  <2> HIDE DEF t, n
  <2>2. i \notin DOMAIN r
    BY <1>5, <2>1 DEF HoldsSeat, Seated
  <2> QED
    BY <2>1, <2>2 DEF Seated
<1>14. CASE CommitFill(t, b) /\ (HoldsSeat(t.resv, u, s) \/ Free(t.resv, s) <= 0)
  <2>1. Cardinality(Seated(t.resv, s)) = c
    BY <1>2, <1>10, <1>12, <1>13, <1>14 DEF Free
  <2> QED
    BY <1>4, <1>14, <2>1 DEF CommitFill, Commit, Seated
<1>15. CASE Commit(Append(t.resv, row), t.waits, b) /\ ~(Free(t.resv, s) <= 0)
  <2>1. Cardinality(Seated(t.resv, s)) = c - 1
    BY <1>2, <1>10, <1>12, <1>15 DEF Free
  <2>2. row \in Reservation /\ row.slot = s /\ Live(row)
    BY DirectType DEF ResvStatus, Live, DirectRow, Row
  <2> HIDE DEF t, row
  <2>3. /\ Len(t.resv) \in Nat /\ DOMAIN t.resv = 1..Len(t.resv)
        /\ DOMAIN resv' = 1..(Len(t.resv) + 1)
        /\ \A k \in 1..Len(t.resv) : resv'[k] = t.resv[k]
        /\ resv'[Len(t.resv) + 1] = row
    BY <1>10, <1>15, <2>2, AppendProperties, LenProperties DEF Commit
  <2>4. \A k \in DOMAIN resv' : k \in DOMAIN t.resv \/ k = Len(t.resv) + 1
    BY <2>3
  <2>5. Seated(resv', s) = Seated(t.resv, s) \cup {Len(t.resv) + 1}
    BY <2>2, <2>3, <2>4 DEF Seated
  <2>6. IsFiniteSet(Seated(t.resv, s)) /\ Len(t.resv) + 1 \notin Seated(t.resv, s)
    <3>1. IsFiniteSet(Seated(t.resv, s)) /\ Seated(t.resv, s) \subseteq 1..Len(t.resv)
      BY <1>10, SeatedFinite
    <3> QED
      BY <2>3, <3>1
  <2>7. Cardinality(Seated(resv', s)) = Cardinality(Seated(t.resv, s)) + 1
    BY <2>5, <2>6, FS_AddElement
  <2> QED
    BY <1>2, <1>4, <2>1, <2>7
<1>16. \/ CommitFill(t, b) /\ (HoldsSeat(t.resv, u, s) \/ Free(t.resv, s) <= 0)
       \/ Commit(Append(t.resv, row), t.waits, b) /\ ~(Free(t.resv, s) <= 0)
  BY <1>8 DEF Admit
<1> QED
  BY <1>14, <1>15, <1>16

\* An eviction moves a seat, it does not empty one; where bookings have to be
\* approved it does, for the administrator's own booking is pending then.
THEOREM EvictionsMoveSeats ==
  (InitialApproval = {} /\ "lab" \notin Requests) => (Spec => EvictionKeepsSeatTaken)
<1> SUFFICES ASSUME InitialApproval = {}, "lab" \notin Requests PROVE Spec => EvictionKeepsSeatTaken
  OBVIOUS
<1> DEFINE Unapproved == \A l \in Labs : ~labs[l].approval
           Moved == \A i \in DOMAIN resv :
                       (resv[i].reason = "NONE" /\ resv'[i].reason = "PREEMPTED") =>
                          Cardinality(Seated(resv', resv[i].slot)) = Cardinality(Seated(resv, resv[i].slot))
<1>1. Init => Unapproved
  <2> SUFFICES ASSUME Init, NEW l \in Labs PROVE ~labs[l].approval
    OBVIOUS
  <2>1. labs[l] = [open |-> TRUE, approval |-> l \in InitialApproval]
    BY DEF Init
  <2>2. labs[l].approval = (l \in InitialApproval)
    BY <2>1
  <2> QED
    BY <2>2
<1>2. IInv /\ Unapproved /\ [Next]_vars => Unapproved'
  <2>1. [Next]_vars => labs' = labs
    <3>1. \A l, o, p : ~LabUpdate(l, o, p)
      BY DEF LabUpdate
    <3>2. \A r, w, a : Commit(r, w, a) => labs' = labs
      BY DEF Commit
    <3>3. \A u, s, r, a : Admit(u, s, r, a) => labs' = labs
      BY <3>2 DEF Admit, CommitFill
    <3>4. \A u, s : Reserve(u, s) \/ Join(u, s) => labs' = labs
      BY <3>2, <3>3 DEF Reserve, TakeOver, Join
    <3>5. \A i : Cancel(i) \/ CheckIn(i) \/ Checkout(i) \/ Confirm(i) => labs' = labs
      BY <3>2 DEF Cancel, CheckIn, Checkout, Confirm, CommitFill
    <3>6. \A i, t : Reschedule(i, t) => labs' = labs
      BY <3>2 DEF Reschedule, CommitFill
    <3>7. \A i : Approve(i) \/ Reject(i) \/ ForceComplete(i) \/ ForceCancel(i) => labs' = labs
      BY <3>2 DEF Approve, Reject, ForceComplete, ForceCancel, CommitFill
    <3>8. \A j, u, b, n : Withdraw(j) \/ Batch(u, b) \/ Disable(u) \/ Enable(u) \/ CreditGrant(u, n)
             => labs' = labs
      BY <3>2 DEF Withdraw, Batch, Disable, Enable, CreditGrant
    <3>9. \A s, c, o : SlotUpdate(s, c, o) \/ Tick \/ UNCHANGED vars => labs' = labs
      BY DEF SlotUpdate, Tick, vars
    <3> QED
      BY <3>1, <3>4, <3>5, <3>6, <3>7, <3>8, <3>9 DEF Next, UserRequest, AdminRequest
  <2> QED
    BY <2>1
<1>3. ASSUME IInv, Unapproved, [Next]_vars PROVE Moved
  <2>0. TypeOK
    BY <1>3 DEF IInv
  <2>1. CASE NoneEvicted
    BY <2>1 DEF NoneEvicted
  <2>2. ASSUME NEW u \in Users, NEW s \in Slots, Reserve(u, s) PROVE Moved
    <3> DEFINE a == WeeklyTopup(accounts, u)
    <3>1. a \in [Users -> Account] /\ ~HoldsSeat(resv, u, s)
      BY <2>0, <2>2, TopupType DEF Reserve
    <3>2. Good(resv, waits, a)
      BY <2>0, <3>1, GoodNow, GoodAccounts
    <3>3. CASE Commit(resv, waits, a)
      BY <3>3 DEF Commit
    <3>4. CASE Admit(u, s, resv, a)
      BY <3>2, <3>4, AdmitAdds
    <3>5. ASSUME Free(resv, s) <= 0, NEW v \in Victim(u, s), TakeOver(u, s, v, a) PROVE Moved
      <4>1. LabOf[s] \in Labs
        BY SlotsAssumption
      <4>2. Cardinality(Seated(resv', s)) = Cardinality(Seated(resv, s))
        BY <1>3, <3>1, <3>5, <4>1, TakeOverFull
      <4>3. \A i \in DOMAIN resv : i # v => resv'[i] = resv[i]
        <5> DEFINE r == Evict(resv, v)
                   b == CreditApply(a, resv[v].user, 1)
        <5>1. v \in DOMAIN resv
          BY DEF Victim, Evictable, Seated
        <5>2. Good(r, waits, b)
          <6>1. Good(r, waits, accounts)
            BY <2>0, <5>1, LeaveGood DEF Reasons
          <6> QED
            BY <2>0, <3>1, <5>1, <6>1, ResvRow, CreditType, GoodAccounts
        <5>3. Commit(r, waits, b) \/ Admit(u, s, r, b)
          BY <3>5 DEF TakeOver
        <5>4. DOMAIN r = DOMAIN resv /\ \A i \in DOMAIN resv : i # v => r[i] = resv[i]
          BY DEF Evict
        <5> HIDE DEF r, b
        <5>5. \A i \in DOMAIN r : resv'[i] = r[i]
          BY <5>2, <5>3, AdmitAdds DEF Commit
        <5> QED
          BY <5>4, <5>5
      <4>4. resv[v].slot = s
        BY DEF Victim, Evictable, Seated
      <4> QED
        BY <4>2, <4>3, <4>4
    <3> QED
      BY <2>2, <3>3, <3>4, <3>5 DEF Reserve
  <2> QED
    BY <1>3, <2>0, <2>1, <2>2, OthersSpare
<1>4. IInv /\ Unapproved /\ [Next]_vars =>
        [\A i \in DOMAIN resv :
           (resv[i].reason = "NONE" /\ resv'[i].reason = "PREEMPTED") =>
              Cardinality(Seated(resv', resv[i].slot)) = Cardinality(Seated(resv, resv[i].slot))]_vars
  BY <1>3
<1> HIDE DEF Unapproved
<1> QED
  BY <1>1, <1>2, <1>4, Invariance, PTL DEF Spec, EvictionKeepsSeatTaken
=============================================================================
