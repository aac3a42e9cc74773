------------------------- MODULE LabStateProofs -------------------------
(***************************************************************************)
(* Lemmas about the queries of LabState and about PromoteFill: the scan    *)
(* order is a strict total order, so the rows it chooses can be numbered,  *)
(* they are no more than the free seats, and the tables stay well formed.  *)
(***************************************************************************)
EXTENDS LabState, TLAPS, Functions, FiniteSetTheorems, SequenceTheorems,
        WellFoundedInduction

\* what a transaction knows of the tables it works on
Typed(r, w, a) ==
  /\ r \in Seq(Reservation)
  /\ w \in Seq(Wait)
  /\ a \in [Users -> Account]
  /\ now \in 0..MaxTime
  /\ slots \in [Slots -> [capacity: 1..MaxCapacity, open: BOOLEAN]]
  /\ \A j \in DOMAIN w : w[j].since <= now

\* There are n numbers below n.
LEMMA CountBelow ==
  ASSUME NEW n \in Nat
  PROVE  IsFiniteSet(0..(n - 1)) /\ Cardinality(0..(n - 1)) = n
<1>1. 0 \in Int /\ n - 1 \in Int
  OBVIOUS
<1>2. /\ IsFiniteSet(0..(n - 1))
      /\ Cardinality(0..(n - 1)) = IF 0 > n - 1 THEN 0 ELSE n - 1 - 0 + 1
  BY <1>1, FS_Interval
<1> QED
  BY <1>2

\* A set of numbers has a least one: what induction rests on here.
LEMMA LeastNumber ==
  ASSUME NEW T \in SUBSET Nat, T # {}
  PROVE  \E n \in T : \A k \in T : n <= k
<1> DEFINE R == OpToRel(<, Nat)
<1>1. IsWellFoundedOn(R, Nat)
  BY NatLessThanWellFounded, Zenon
<1>2. \A k, n \in Nat : k < n => <<k, n>> \in R
  <2> SUFFICES ASSUME NEW k \in Nat, NEW n \in Nat, k < n PROVE <<k, n>> \in R
    OBVIOUS
  <2>1. <<k, n>> \in Nat \X Nat
    OBVIOUS
  <2>2. <<k, n>>[1] < <<k, n>>[2]
    OBVIOUS
  <2> QED
    BY <2>1, <2>2, Zenon DEF OpToRel
<1> HIDE DEF R
<1>3. PICK n \in T : \A k \in T : ~(<<k, n>> \in R)
  BY <1>1, WFMin
<1>4. \A k \in T : ~(k < n)
  BY <1>2, <1>3, Zenon
<1> QED
  BY <1>4

\* Induction along the numbers up to n.
LEMMA UpTo ==
  ASSUME NEW n \in Nat, NEW T, 0 \in T, \A k \in 0..(n - 1) : k \in T => k + 1 \in T
  PROVE  0..n \subseteq T
<1> DEFINE U == (0..n) \ T
<1> SUFFICES ASSUME U # {} PROVE FALSE
  OBVIOUS
<1>1. PICK m \in U : \A k \in U : m <= k
  <2>1. U \in SUBSET Nat
    OBVIOUS
  <2> HIDE DEF U
  <2> QED
    BY <2>1, LeastNumber
<1>2. m # 0 /\ m - 1 \in 0..(n - 1) /\ m - 1 \notin U
  BY <1>1
<1> QED
  BY <1>1, <1>2

\* g starts at x and takes n steps of F in the set S
Path(g, F, x, n, S) ==
  /\ g \in [0..n -> S] /\ g[0] = x
  /\ \A k \in 1..n : g[k] = F[g[k - 1]]

\* A function may be defined by what it does next, on a set it does not leave.
LEMMA Iterated ==
  ASSUME NEW S, NEW n \in Nat, NEW x \in S, NEW F, \A y \in S : F[y] \in S
  PROVE  \E g : Path(g, F, x, n, S)
<1> DEFINE T == {m \in 0..n : \E g : Path(g, F, x, m, S)}
<1>1. 0 \in T
  <2> DEFINE h == [k \in 0..0 |-> x]
  <2>1. h \in [0..0 -> S] /\ h[0] = x /\ 0 \in 0..n
    OBVIOUS
  <2>2. 1..0 = {}
    OBVIOUS
  <2> HIDE DEF h
  <2>3. Path(h, F, x, 0, S)
    BY <2>1, <2>2, Zenon DEF Path
  <2> QED
    BY <2>1, <2>3
<1>2. ASSUME NEW m \in 0..(n - 1), m \in T PROVE m + 1 \in T
  <2>1. PICK g : Path(g, F, x, m, S)
    BY <1>2
  <2> DEFINE h == [k \in 0..(m + 1) |-> IF k = m + 1 THEN F[g[m]] ELSE g[k]]
  <2>2. /\ g \in [0..m -> S] /\ g[0] = x /\ \A k \in 1..m : g[k] = F[g[k - 1]]
        /\ g[m] \in S /\ F[g[m]] \in S
    BY <2>1 DEF Path
  <2>3. h \in [0..(m + 1) -> S] /\ h[0] = x
    BY <2>2
  <2>4. ASSUME NEW k \in 1..(m + 1) PROVE h[k] = F[h[k - 1]]
    <3>1. CASE k = m + 1
      BY <3>1
    <3>2. CASE k # m + 1
      <4>1. k \in 1..m /\ k \in 0..m /\ k - 1 \in 0..m
        BY <3>2
      <4>2. h[k] = g[k] /\ h[k - 1] = g[k - 1]
        BY <4>1
      <4> QED
        BY <2>2, <4>1, <4>2
    <3> QED
      BY <3>1, <3>2
  <2> HIDE DEF h
  <2>5. Path(h, F, x, m + 1, S)
    BY <2>3, <2>4 DEF Path
  <2> QED
    BY <2>5
<1> HIDE DEF T
<1>3. n \in T
  BY <1>1, <1>2, UpTo
<1> QED
  BY <1>3 DEF T

\* The seats of a slot are rows of the table, hence finitely many.
LEMMA SeatedFinite ==
  ASSUME NEW r \in Seq(Reservation), NEW s
  PROVE  /\ Seated(r, s) \subseteq 1..Len(r)
         /\ IsFiniteSet(Seated(r, s))
         /\ Cardinality(Seated(r, s)) \in Nat
<1>1. Len(r) \in Nat /\ DOMAIN r = 1..Len(r)
  BY LenProperties
<1>2. Seated(r, s) \subseteq 1..Len(r)
  BY <1>1 DEF Seated
<1>3. IsFiniteSet(1..Len(r))
  BY <1>1, FS_Interval
<1> QED
  BY <1>2, <1>3, FS_Subset, FS_CardinalityType

\* The points of a waitlist row are an integer.
LEMMA ScoreType ==
  ASSUME NEW w \in Seq(Wait), NEW a \in [Users -> Account], now \in 0..MaxTime,
         NEW j \in 1..Len(w), w[j].since <= now
  PROVE  Score(w, a, j) \in Int
<1>1. w[j] \in Wait
  BY ElementOfSeq
<1>2. w[j].user \in Users /\ w[j].prio \in Nat /\ w[j].since \in Nat
  BY <1>1 DEF Wait
<1>3. a[w[j].user].credit \in Int
  BY <1>2, ServiceAssumption DEF Account
<1>4. now - w[j].since \in 0..MaxTime
  <2>1. MaxTime \in Nat
    BY ServiceAssumption
  <2> QED
    BY <1>2, <2>1
<1>5. Aging[now - w[j].since] \in Nat
  BY <1>4, ServiceAssumption
<1>6. 1000 * w[j].prio \in Int
  BY <1>2
<1>7. 200 * (a[w[j].user].credit - 5) \in Int
  BY <1>3
<1> QED
  BY <1>5, <1>6, <1>7 DEF Score

\* The scan order of the queue is a strict total order, under each strategy.
LEMMA ScanOrder ==
  ASSUME NEW w \in Seq(Wait), NEW a \in [Users -> Account], now \in 0..MaxTime,
         \A j \in DOMAIN w : w[j].since <= now
  PROVE  /\ \A j, k \in 1..Len(w) : j # k => Ahead(w, a, j, k) \/ Ahead(w, a, k, j)
         /\ \A j, k \in 1..Len(w) : ~(Ahead(w, a, j, k) /\ Ahead(w, a, k, j))
         /\ \A j, k, l \in 1..Len(w) :
              Ahead(w, a, j, k) /\ Ahead(w, a, k, l) => Ahead(w, a, j, l)
<1>1. DOMAIN w = 1..Len(w) /\ Len(w) \in Nat
  BY LenProperties
<1>2. \A j \in 1..Len(w) : Score(w, a, j) \in Int
  BY <1>1, ScoreType
<1>3. ASSUME NEW j \in 1..Len(w) PROVE w[j].prio \in Nat
  <2>1. w[j] \in Wait
    BY ElementOfSeq
  <2> QED
    BY <2>1 DEF Wait
<1>4. /\ \A j, k \in 1..Len(w) : j # k => RoleAhead(w, j, k) \/ RoleAhead(w, k, j)
      /\ \A j, k \in 1..Len(w) : ~(RoleAhead(w, j, k) /\ RoleAhead(w, k, j))
      /\ \A j, k, l \in 1..Len(w) :
           RoleAhead(w, j, k) /\ RoleAhead(w, k, l) => RoleAhead(w, j, l)
  BY <1>3 DEF RoleAhead
<1> QED
  BY <1>2, <1>4 DEF Ahead

\* Rows further back have strictly more rows ahead of them.
LEMMA RankGrows ==
  ASSUME NEW w \in Seq(Wait), NEW a \in [Users -> Account], now \in 0..MaxTime,
         \A j \in DOMAIN w : w[j].since <= now,
         NEW queue \in SUBSET (1..Len(w)),
         NEW j \in queue, NEW k \in queue, Ahead(w, a, j, k)
  PROVE  Rank(w, a, queue, j) < Rank(w, a, queue, k)
<1> DEFINE Front(x) == {i \in queue : Ahead(w, a, i, x)}
<1>1. IsFiniteSet(Front(k))
  <2>1. Len(w) \in Nat
    BY LenProperties
  <2>2. IsFiniteSet(1..Len(w))
    BY <2>1, FS_Interval
  <2> QED
    BY <2>2, FS_Subset
<1>2. Front(j) \subseteq Front(k)
  BY ScanOrder
<1>3. j \in Front(k) /\ j \notin Front(j)
  BY ScanOrder
<1>4. /\ Cardinality(Front(j)) <= Cardinality(Front(k))
      /\ Cardinality(Front(j)) # Cardinality(Front(k))
  BY <1>1, <1>2, <1>3, FS_Subset
<1>5. Cardinality(Front(j)) \in Nat /\ Cardinality(Front(k)) \in Nat
  BY <1>1, <1>2, FS_Subset, FS_CardinalityType
<1> QED
  BY <1>4, <1>5 DEF Rank

\* Ranks in a queue of n rows are numbers below n, different for different rows.
LEMMA RankNumbers ==
  ASSUME NEW w \in Seq(Wait), NEW a \in [Users -> Account], now \in 0..MaxTime,
         \A j \in DOMAIN w : w[j].since <= now,
         NEW queue \in SUBSET (1..Len(w))
  PROVE  /\ IsFiniteSet(queue) /\ Cardinality(queue) \in Nat
         /\ \A j \in queue : Rank(w, a, queue, j) \in 0..(Cardinality(queue) - 1)
         /\ \A j, k \in queue :
              Rank(w, a, queue, j) = Rank(w, a, queue, k) => j = k
<1>1. IsFiniteSet(queue) /\ Cardinality(queue) \in Nat
  <2>1. Len(w) \in Nat
    BY LenProperties
  <2>2. IsFiniteSet(1..Len(w))
    BY <2>1, FS_Interval
  <2> QED
    BY <2>2, FS_Subset, FS_CardinalityType
<1>2. ASSUME NEW j \in queue
      PROVE  Rank(w, a, queue, j) \in 0..(Cardinality(queue) - 1)
  <2> DEFINE Front == {i \in queue : Ahead(w, a, i, j)}
  <2>1. Front \subseteq queue /\ j \notin Front
    BY ScanOrder
  <2>2. /\ IsFiniteSet(Front)
        /\ Cardinality(Front) <= Cardinality(queue)
        /\ Cardinality(Front) # Cardinality(queue)
    BY <1>1, <2>1, FS_Subset
  <2>3. Cardinality(Front) \in Nat
    BY <2>2, FS_CardinalityType
  <2> QED
    BY <1>1, <2>2, <2>3 DEF Rank
<1>3. ASSUME NEW j \in queue, NEW k \in queue,
             Rank(w, a, queue, j) = Rank(w, a, queue, k)
      PROVE  j = k
  <2>1. Rank(w, a, queue, j) \in Int
    BY <1>1, <1>2
  <2>2. ~Ahead(w, a, j, k) /\ ~Ahead(w, a, k, j)
    BY <1>3, <2>1, RankGrows
  <2> QED
    BY <2>2, ScanOrder
<1> QED
  BY <1>1, <1>2, <1>3

\* The numbers below the length of a queue are the ranks of its rows.
LEMMA NthRow ==
  ASSUME NEW w \in Seq(Wait), NEW a \in [Users -> Account], now \in 0..MaxTime,
         \A j \in DOMAIN w : w[j].since <= now,
         NEW queue \in SUBSET (1..Len(w)),
         NEW n \in 0..(Cardinality(queue) - 1)
  PROVE  Nth(w, a, queue, n) \in queue /\ Rank(w, a, queue, Nth(w, a, queue, n)) = n
<1> DEFINE size == Cardinality(queue)
           number == [j \in queue |-> Rank(w, a, queue, j)]
<1>1. /\ IsFiniteSet(queue) /\ size \in Nat
      /\ \A j \in queue : Rank(w, a, queue, j) \in 0..(size - 1)
      /\ \A j, k \in queue : Rank(w, a, queue, j) = Rank(w, a, queue, k) => j = k
  BY RankNumbers
<1>2. number \in Injection(queue, 0..(size - 1))
  BY <1>1 DEF Injection, IsInjective
<1>3. IsFiniteSet(0..(size - 1)) /\ Cardinality(0..(size - 1)) = size
  BY <1>1, CountBelow
<1>4. number \in Surjection(queue, 0..(size - 1))
  BY <1>2, <1>3, FS_Injection
<1>5. \E j \in queue : Rank(w, a, queue, j) = n
  BY <1>4 DEF Surjection
<1> QED
  BY <1>5 DEF Nth

\* Promotion serves no more waiters than there are free seats.
LEMMA ChosenBound ==
  ASSUME NEW r, NEW w, NEW a, NEW s, Typed(r, w, a), Free(r, s) \in Nat
  PROVE  /\ Chosen(r, w, a, s) \in SUBSET (1..Len(w))
         /\ IsFiniteSet(Chosen(r, w, a, s))
         /\ Cardinality(Chosen(r, w, a, s)) \in Nat
         /\ Cardinality(Chosen(r, w, a, s)) <= Free(r, s)
<1> DEFINE queue == Executable(r, w, a, s)
           chosen == Chosen(r, w, a, s)
           number == [j \in chosen |-> Rank(w, a, queue, j)]
<1>1. /\ w \in Seq(Wait) /\ a \in [Users -> Account] /\ now \in 0..MaxTime
      /\ \A j \in DOMAIN w : w[j].since <= now
      /\ DOMAIN w = 1..Len(w)
  BY LenProperties DEF Typed
<1>2. queue \in SUBSET (1..Len(w))
  BY <1>1 DEF Executable, Waiting
<1>3. chosen \subseteq queue
  BY DEF Chosen
<1>4. /\ \A j \in queue : Rank(w, a, queue, j) \in Nat
      /\ \A j, k \in queue : Rank(w, a, queue, j) = Rank(w, a, queue, k) => j = k
  <2>1. /\ Cardinality(queue) \in Nat
        /\ \A j \in queue : Rank(w, a, queue, j) \in 0..(Cardinality(queue) - 1)
        /\ \A j, k \in queue : Rank(w, a, queue, j) = Rank(w, a, queue, k) => j = k
    BY <1>1, <1>2, RankNumbers
  <2> HIDE DEF queue
  <2> QED
    BY <2>1
<1>5. \A j \in chosen : Rank(w, a, queue, j) < Free(r, s)
  BY DEF Chosen
<1>6. number \in Injection(chosen, 0..(Free(r, s) - 1))
  BY <1>3, <1>4, <1>5 DEF Injection, IsInjective
<1>7. IsFiniteSet(0..(Free(r, s) - 1)) /\ Cardinality(0..(Free(r, s) - 1)) = Free(r, s)
  BY CountBelow
<1> QED
  BY <1>2, <1>3, <1>6, <1>7, FS_Injection, FS_CardinalityType

\* A granted seat is a well-formed row that counts as a seat.
LEMMA GrantedType ==
  ASSUME now \in Nat, NEW u \in Users, NEW s \in Slots
  PROVE  GrantedRow(u, s) \in Reservation /\ GrantedRow(u, s).slot = s
<1>1. Start[s] \in Nat /\ now + HoldWindow \in Nat
  BY SlotsAssumption, ConfigAssumption
<1>2. Earlier(now + HoldWindow, Start[s]) \in Nat
  BY <1>1 DEF Earlier
<1> QED
  BY <1>2 DEF GrantedRow, Row, Reservation, ResvStatus, Reasons

\* t extends the tables r and w by seats of slot s, at most as many as were free
Extends(t, r, w, s) ==
  /\ t.resv \in Seq(Reservation)
  /\ t.waits \in Seq(Wait)
  /\ DOMAIN t.waits = DOMAIN w
  /\ \A j \in DOMAIN w : t.waits[j].since = w[j].since
  /\ Len(t.resv) \in Nat /\ Len(r) <= Len(t.resv)
  /\ \A i \in 1..Len(r) : t.resv[i] = r[i]
  /\ \A i \in 1..Len(t.resv) : i > Len(r) => t.resv[i].slot = s
  /\ Len(t.resv) <= Len(r) + (IF Free(r, s) > 0 THEN Free(r, s) ELSE 0)

\* PromoteFill leaves the tables well formed: it appends rows to the reservations
\* and changes the status of waitlist rows.
LEMMA FillType ==
  ASSUME NEW r, NEW w, NEW a, NEW s \in Slots, Typed(r, w, a)
  PROVE  Extends(PromoteFill(r, w, a, s), r, w, s)
<1> DEFINE t == PromoteFill(r, w, a, s)
           chosen == Chosen(r, w, a, s)
           n == Cardinality(chosen)
<1>1. /\ r \in Seq(Reservation) /\ w \in Seq(Wait) /\ a \in [Users -> Account]
      /\ now \in 0..MaxTime /\ now \in Nat
      /\ \A j \in DOMAIN w : w[j].since <= now
  BY ServiceAssumption DEF Typed
<1>2. /\ Len(r) \in Nat /\ DOMAIN r = 1..Len(r)
      /\ Len(w) \in Nat /\ DOMAIN w = 1..Len(w)
  BY <1>1, LenProperties
<1>3. Free(r, s) \in Int
  BY SeatedFinite DEF Free, Typed
<1>4. CASE Free(r, s) <= 0
  <2>1. t.resv = r /\ t.waits = w
    BY <1>4 DEF PromoteFill
  <2> QED
    BY <2>1, <1>1, <1>2, <1>3, <1>4 DEF Extends
<1>5. CASE Free(r, s) > 0
  <2>1. /\ chosen \in SUBSET (1..Len(w)) /\ IsFiniteSet(chosen)
        /\ n \in Nat /\ n <= Free(r, s)
    BY <1>3, <1>5, ChosenBound
  <2>2. ASSUME NEW i \in (Len(r) + 1)..(Len(r) + n)
        PROVE  Nth(w, a, chosen, i - Len(r) - 1) \in chosen
    <3>1. i - Len(r) - 1 \in 0..(n - 1)
      BY <1>2, <2>1
    <3> QED
      BY <1>1, <2>1, <3>1, NthRow
  <2> DEFINE seat(i) == w[Nth(w, a, chosen, i - Len(r) - 1)]
             row(i) == IF i <= Len(r) THEN r[i] ELSE GrantedRow(seat(i).user, s)
             rows == [i \in 1..(Len(r) + n) |-> row(i)]
             mark(j) == IF j \in chosen
                        THEN Promoted(w[j], Len(r) + 1 + Rank(w, a, chosen, j))
                        ELSE IF j \in Stale(w, a, s)
                        THEN [w[j] EXCEPT !.status = "SKIPPED"]
                        ELSE w[j]
             marks == [j \in 1..Len(w) |-> mark(j)]
  <2>3. t.resv = rows /\ t.waits = marks
    <3>1. ~(Free(r, s) <= 0)
      BY <1>3, <1>5
    <3> QED
      BY <3>1, Zenon DEF PromoteFill
  <2>4. ASSUME NEW i \in 1..(Len(r) + n)
        PROVE  row(i) \in Reservation /\ (i > Len(r) => row(i).slot = s)
    <3>1. CASE i <= Len(r)
      <4>1. r[i] \in Reservation
        BY <1>1, <1>2, <3>1, ElementOfSeq
      <4> QED
        BY <4>1, <1>2, <3>1
    <3>2. CASE i > Len(r)
      <4>1. Nth(w, a, chosen, i - Len(r) - 1) \in 1..Len(w)
        BY <1>2, <2>1, <2>2, <3>2
      <4>2. seat(i) \in Wait
        BY <1>1, <4>1, ElementOfSeq
      <4>3. seat(i).user \in Users
        BY <4>2 DEF Wait
      <4>4. GrantedRow(seat(i).user, s) \in Reservation /\ GrantedRow(seat(i).user, s).slot = s
        BY <1>1, <4>3, GrantedType
      <4> QED
        BY <4>4, <1>2, <3>2
    <3> QED
      BY <1>2, <2>1, <3>1, <3>2
  <2>5. ASSUME NEW j \in 1..Len(w)
        PROVE  mark(j) \in Wait /\ mark(j).since = w[j].since
    <3>1. w[j] \in Wait
      BY <1>1, ElementOfSeq
    <3>2. CASE j \in chosen
      <4>1. Rank(w, a, chosen, j) \in 0..(n - 1)
        BY <1>1, <2>1, <3>2, RankNumbers
      <4>2. Len(r) + 1 + Rank(w, a, chosen, j) \in Nat
        BY <1>2, <2>1, <4>1
      <4>3. mark(j) = Promoted(w[j], Len(r) + 1 + Rank(w, a, chosen, j))
        BY <3>2
      <4> QED
        BY <3>1, <4>2, <4>3 DEF Promoted, Wait, WaitStatus
    <3>3. CASE j \notin chosen /\ j \in Stale(w, a, s)
      <4>1. mark(j) = [w[j] EXCEPT !.status = "SKIPPED"]
        BY <3>3
      <4> QED
        BY <3>1, <4>1 DEF Wait, WaitStatus
    <3>4. CASE j \notin chosen /\ j \notin Stale(w, a, s)
      <4>1. mark(j) = w[j]
        BY <3>4
      <4> QED
        BY <3>1, <4>1
    <3> QED
      BY <3>2, <3>3, <3>4
  <2> HIDE DEF row, mark
  <2>6. rows \in Seq(Reservation) /\ Len(rows) = Len(r) + n
    BY <1>2, <2>1, <2>4
  <2>7. marks \in Seq(Wait) /\ Len(marks) = Len(w)
    BY <1>2, <2>5
  <2>8. \A i \in 1..Len(r) : rows[i] = r[i]
    BY <1>2, <2>1 DEF row
  <2>9. \A i \in 1..Len(rows) : i > Len(r) => rows[i].slot = s
    BY <2>4, <2>6
  <2>10. DOMAIN marks = DOMAIN w /\ \A j \in DOMAIN w : marks[j].since = w[j].since
    BY <1>2, <2>5
  <2>11. Len(rows) \in Nat /\ Len(r) <= Len(rows) /\ Len(rows) <= Len(r) + Free(r, s)
    BY <1>2, <1>3, <2>1, <2>6
  <2> HIDE DEF rows, marks
  <2> QED
    BY <1>5, <2>3, <2>6, <2>7, <2>8, <2>9, <2>10, <2>11 DEF Extends
<1> QED
  BY <1>3, <1>4, <1>5

\* Adding rows numbered from m+1 to n adds at most n - m seats.
LEMMA SeatsAdded ==
  ASSUME NEW r \in Seq(Reservation), NEW q \in Seq(Reservation), NEW s,
         NEW m \in Nat, NEW n \in Nat, m <= n,
         Seated(q, s) \subseteq Seated(r, s) \cup (m + 1)..n
  PROVE  Cardinality(Seated(q, s)) <= Cardinality(Seated(r, s)) + (n - m)
<1> DEFINE before == Seated(r, s)
           new == (m + 1)..n
<1>1. IsFiniteSet(before) /\ Cardinality(before) \in Nat
  BY SeatedFinite
<1>2. IsFiniteSet(new) /\ Cardinality(new) = n - m
  <2>1. m + 1 \in Int /\ n \in Int
    OBVIOUS
  <2>2. IsFiniteSet(new) /\ Cardinality(new) = IF m + 1 > n THEN 0 ELSE n - (m + 1) + 1
    BY <2>1, FS_Interval
  <2> QED
    BY <2>2
<1>3. /\ IsFiniteSet(before \cup new) /\ IsFiniteSet(before \cap new)
      /\ Cardinality(before \cup new) =
           Cardinality(before) + Cardinality(new) - Cardinality(before \cap new)
  BY <1>1, <1>2, FS_Union, FS_Intersection
<1>4. Cardinality(before \cap new) \in Nat /\ Cardinality(before \cup new) \in Nat
  BY <1>3, FS_CardinalityType
<1>5. Cardinality(Seated(q, s)) <= Cardinality(before \cup new)
  BY <1>3, FS_Subset
<1>6. Cardinality(Seated(q, s)) \in Nat
  BY SeatedFinite
<1> QED
  BY <1>1, <1>2, <1>3, <1>4, <1>5, <1>6

\* PromoteFill touches the seats of its slot only, and fills it at most up to
\* its capacity; a slot without a free seat keeps the seats it has.
LEMMA FillSeats ==
  ASSUME NEW r, NEW w, NEW a, NEW s \in Slots, Typed(r, w, a)
  PROVE  LET t == PromoteFill(r, w, a, s)
         IN /\ \A p \in Slots : p # s => Seated(t.resv, p) = Seated(r, p)
            /\ Free(r, s) > 0 => Cardinality(Seated(t.resv, s)) <= slots[s].capacity
            /\ Free(r, s) <= 0 => t.resv = r
<1> DEFINE t == PromoteFill(r, w, a, s)
<1>1. /\ r \in Seq(Reservation) /\ t.resv \in Seq(Reservation)
      /\ Len(t.resv) \in Nat /\ Len(r) <= Len(t.resv)
      /\ \A i \in 1..Len(r) : t.resv[i] = r[i]
      /\ \A i \in 1..Len(t.resv) : i > Len(r) => t.resv[i].slot = s
      /\ Len(t.resv) <= Len(r) + (IF Free(r, s) > 0 THEN Free(r, s) ELSE 0)
  <2>1. Extends(t, r, w, s)
    BY FillType
  <2> HIDE DEF t
  <2> QED
    BY <2>1 DEF Typed, Extends
<1>2. Len(r) \in Nat /\ DOMAIN r = 1..Len(r) /\ DOMAIN t.resv = 1..Len(t.resv)
  BY <1>1, LenProperties
<1>3. /\ Free(r, s) \in Int /\ slots[s].capacity \in Nat
      /\ Free(r, s) = slots[s].capacity - Cardinality(Seated(r, s))
      /\ Cardinality(Seated(r, s)) \in Nat
  BY <1>1, SeatedFinite, BoundsAssumption DEF Free, Typed
<1> HIDE DEF t
<1>4. ASSUME NEW p \in Slots, p # s
      PROVE  Seated(t.resv, p) = Seated(r, p)
  <2>1. \A i \in Seated(t.resv, p) : i \in 1..Len(r)
    BY <1>1, <1>2, <1>4 DEF Seated
  <2> QED
    BY <1>1, <1>2, <2>1 DEF Seated
<1>5. ASSUME Free(r, s) > 0
      PROVE  Cardinality(Seated(t.resv, s)) <= slots[s].capacity
  <2>1. Seated(t.resv, s) \subseteq Seated(r, s) \cup (Len(r) + 1)..Len(t.resv)
    BY <1>1, <1>2 DEF Seated
  <2>2. Cardinality(Seated(t.resv, s)) <= Cardinality(Seated(r, s)) + (Len(t.resv) - Len(r))
    BY <1>1, <1>2, <2>1, SeatsAdded
  <2>3. Cardinality(Seated(t.resv, s)) \in Nat
    BY <1>1, SeatedFinite
  <2>4. Len(r) \in Nat /\ Len(t.resv) \in Nat /\ Len(t.resv) - Len(r) <= Free(r, s)
    BY <1>1, <1>2, <1>3, <1>5
  <2> QED
    BY <1>3, <2>2, <2>3, <2>4
<1>6. Free(r, s) <= 0 => t.resv = r
  BY DEF t, PromoteFill
<1> QED
  BY <1>4, <1>5, <1>6 DEF t
-----------------------------------------------------------------------------
(***************************************************************************)
(* PromoteFill against the loop of the code.  To take the first row of the *)
(* queue leaves the rest of the promotion as it was (FillTakesFirst), a    *)
(* round does that or finds nothing to do (RoundTakesOne), so the rounds   *)
(* end where PromoteFill says (FillIsLoop).                                *)
(***************************************************************************)
\* two waitlists whose rows differ in status only
SamePlaces(w, v) ==
  /\ v \in Seq(Wait) /\ DOMAIN v = DOMAIN w
  /\ \A j \in DOMAIN w : /\ v[j].user = w[j].user /\ v[j].slot = w[j].slot
                         /\ v[j].prio = w[j].prio /\ v[j].since = w[j].since

\* They are scanned in the same order.
LEMMA SameOrder ==
  ASSUME NEW r, NEW w, NEW a, Typed(r, w, a), NEW v, SamePlaces(w, v)
  PROVE  /\ Len(v) = Len(w)
         /\ \A x, y \in 1..Len(w) : Ahead(v, a, x, y) <=> Ahead(w, a, x, y)
         /\ \A Q \in SUBSET (1..Len(w)) :
              /\ \A j \in Q : Rank(v, a, Q, j) = Rank(w, a, Q, j)
              /\ \A n \in 0..(Cardinality(Q) - 1) : Nth(v, a, Q, n) = Nth(w, a, Q, n)
<1>1. /\ w \in Seq(Wait) /\ a \in [Users -> Account] /\ now \in 0..MaxTime
      /\ \A j \in DOMAIN w : w[j].since <= now
      /\ Len(w) \in Nat /\ DOMAIN w = 1..Len(w)
  BY LenProperties DEF Typed
<1>2. v \in Seq(Wait) /\ Len(v) = Len(w)
  <2>1. Len(v) \in Nat /\ DOMAIN v = 1..Len(v)
    BY LenProperties DEF SamePlaces
  <2> QED
    BY <1>1, <2>1 DEF SamePlaces
<1>3. \A j \in DOMAIN v : v[j].since <= now
  BY <1>1 DEF SamePlaces
<1>4. \A x, y \in 1..Len(w) : Ahead(v, a, x, y) <=> Ahead(w, a, x, y)
  BY <1>1 DEF SamePlaces, Ahead, RoleAhead, Score
<1>5. ASSUME NEW Q \in SUBSET (1..Len(w)), NEW j \in Q
      PROVE  Rank(v, a, Q, j) = Rank(w, a, Q, j)
  <2>1. {k \in Q : Ahead(v, a, k, j)} = {k \in Q : Ahead(w, a, k, j)}
    BY <1>4
  <2> QED
    BY <2>1, Zenon DEF Rank
<1>6. ASSUME NEW Q \in SUBSET (1..Len(w)), NEW n \in 0..(Cardinality(Q) - 1)
      PROVE  Nth(v, a, Q, n) = Nth(w, a, Q, n)
  <2>1. Nth(w, a, Q, n) \in Q /\ Rank(w, a, Q, Nth(w, a, Q, n)) = n
    BY <1>1, NthRow
  <2>2. Nth(v, a, Q, n) \in Q /\ Rank(v, a, Q, Nth(v, a, Q, n)) = n
    BY <1>1, <1>2, <1>3, NthRow
  <2>3. \A j, k \in Q : Rank(w, a, Q, j) = Rank(w, a, Q, k) => j = k
    BY <1>1, RankNumbers
  <2> QED
    BY <1>5, <2>1, <2>2, <2>3
<1> QED
  BY <1>2, <1>4, <1>5, <1>6

\* j is the first row of queue, rest are the rows behind it
First(w, a, queue, j, rest) ==
  j \in queue /\ rest = queue \ {j} /\ \A k \in rest : Ahead(w, a, j, k)

\* Without its first row, a queue moves up by one.
LEMMA RanksMoveUp ==
  ASSUME NEW r, NEW w, NEW a, Typed(r, w, a),
         NEW Q \in SUBSET (1..Len(w)), NEW j, NEW rest, First(w, a, Q, j, rest)
  PROVE  \A k \in rest : Rank(w, a, rest, k) = Rank(w, a, Q, k) - 1
<1>1. /\ w \in Seq(Wait) /\ a \in [Users -> Account] /\ now \in 0..MaxTime
      /\ \A l \in DOMAIN w : w[l].since <= now
  BY DEF Typed
<1> j \in Q /\ rest = Q \ {j} /\ \A k \in rest : Ahead(w, a, j, k)
  BY DEF First
<1>2. IsFiniteSet(Q) /\ j \in Q /\ rest = Q \ {j} /\ \A k \in rest : Ahead(w, a, j, k)
  BY <1>1, RankNumbers DEF First
<1>3. ASSUME NEW k \in rest PROVE Rank(w, a, rest, k) = Rank(w, a, Q, k) - 1
  <2> DEFINE front == {i \in Q : Ahead(w, a, i, k)}
  <2>1. IsFiniteSet(front) /\ j \in front
    BY <1>2, FS_Subset
  <2>2. {i \in rest : Ahead(w, a, i, k)} = front \ {j}
    BY <1>2
  <2> HIDE DEF front
  <2>3. Cardinality(front \ {j}) = Cardinality(front) - 1
    BY <2>1, FS_RemoveElement, Zenon
  <2> QED
    BY <2>2, <2>3, Zenon DEF Rank, front
<1> QED
  BY <1>3

\* The rest of the queue is numbered from the second row on.
LEMMA MovesUp ==
  ASSUME NEW r, NEW w, NEW a, Typed(r, w, a),
         NEW Q \in SUBSET (1..Len(w)), NEW j, NEW rest, First(w, a, Q, j, rest)
  PROVE  /\ Rank(w, a, Q, j) = 0
         /\ Cardinality(rest) = Cardinality(Q) - 1
         /\ Nth(w, a, Q, 0) = j
         /\ \A n \in 0..(Cardinality(Q) - 2) : Nth(w, a, rest, n) = Nth(w, a, Q, n + 1)
<1>1. /\ w \in Seq(Wait) /\ a \in [Users -> Account] /\ now \in 0..MaxTime
      /\ \A l \in DOMAIN w : w[l].since <= now
  BY DEF Typed
<1> j \in Q /\ rest = Q \ {j} /\ \A k \in rest : Ahead(w, a, j, k)
  BY DEF First
<1>2. /\ \A k \in Q : ~Ahead(w, a, k, k)
      /\ \A k \in rest : ~Ahead(w, a, k, j)
  BY <1>1, ScanOrder
<1>3. IsFiniteSet(Q) /\ Cardinality(Q) \in Nat
  BY <1>1, RankNumbers
<1>4. Cardinality(rest) = Cardinality(Q) - 1
  BY <1>3, FS_RemoveElement, Zenon
<1>5. Rank(w, a, Q, j) = 0
  <2>1. {k \in Q : Ahead(w, a, k, j)} = {}
    BY <1>2
  <2> QED
    BY <2>1, FS_EmptySet, Zenon DEF Rank
<1>6. \A k \in rest : Rank(w, a, rest, k) = Rank(w, a, Q, k) - 1
  BY RanksMoveUp
<1>7. \A k \in Q : Rank(w, a, Q, k) \in 0..(Cardinality(Q) - 1)
  BY <1>1, RankNumbers
<1>8. \A i, k \in Q : Rank(w, a, Q, i) = Rank(w, a, Q, k) => i = k
  BY <1>1, RankNumbers
<1>9. Nth(w, a, Q, 0) = j
  <2>1. 0 \in 0..(Cardinality(Q) - 1)
    BY <1>5, <1>7
  <2>2. Nth(w, a, Q, 0) \in Q /\ Rank(w, a, Q, Nth(w, a, Q, 0)) = 0
    BY <1>1, <2>1, NthRow
  <2> QED
    BY <1>5, <1>8, <2>2
<1>10. ASSUME NEW n \in 0..(Cardinality(Q) - 2) PROVE Nth(w, a, rest, n) = Nth(w, a, Q, n + 1)
  <2> DEFINE k == Nth(w, a, rest, n)
             i == Nth(w, a, Q, n + 1)
  <2>1. n \in 0..(Cardinality(rest) - 1) /\ n + 1 \in 0..(Cardinality(Q) - 1)
    BY <1>3, <1>4
  <2>2. k \in rest /\ Rank(w, a, rest, k) = n
    BY <1>1, <2>1, NthRow
  <2>3. i \in Q /\ Rank(w, a, Q, i) = n + 1
    BY <1>1, <2>1, NthRow
  <2> HIDE DEF k, i
  <2>4. Rank(w, a, Q, k) = n + 1
    <3>1. k \in Q /\ Rank(w, a, rest, k) = Rank(w, a, Q, k) - 1
      BY <1>6, <2>2
    <3>2. Rank(w, a, Q, k) \in Int
      BY <1>3, <1>7, <3>1
    <3> QED
      BY <2>2, <3>1, <3>2
  <2> QED
    BY <1>8, <2>2, <2>3, <2>4 DEF k, i
<1> QED
  BY <1>4, <1>5, <1>9, <1>10
\* Where nobody is to be skipped, the scan finds the first executable row.
LEMMA ScanFinds ==
  ASSUME NEW r, NEW w, NEW a, NEW s \in Slots, Typed(r, w, a), Stale(w, a, s) = {}
  PROVE  \/ Scan(r, w, a, s) = 0 /\ Executable(r, w, a, s) = {}
         \/ /\ Scan(r, w, a, s) \in Executable(r, w, a, s)
            /\ \A k \in Executable(r, w, a, s) \ {Scan(r, w, a, s)} :
                 Ahead(w, a, Scan(r, w, a, s), k)
<1> DEFINE queue == Waiting(w, s)
           m == Cardinality(queue)
           row(n) == Nth(w, a, queue, n)
           Clear(n) == ~Clash(r, w[row(n)].user, s)
           next(f, n) == IF n = m THEN 0
                         ELSE IF Clear(n) THEN row(n)
                         ELSE IF Strategy = "strict" THEN 0 ELSE f[n + 1]
           Found(n) == {i \in n..(m - 1) :
                          Clear(i) /\ (Strategy = "strict" => \A l \in n..(i - 1) : Clear(l))}
           first(n) == CHOOSE i \in Found(n) : \A k \in Found(n) : i <= k
           e == [n \in 0..m |-> IF Found(n) = {} THEN 0 ELSE row(first(n))]
<1>1. /\ w \in Seq(Wait) /\ a \in [Users -> Account] /\ now \in 0..MaxTime
      /\ \A l \in DOMAIN w : w[l].since <= now
      /\ Len(w) \in Nat /\ DOMAIN w = 1..Len(w)
  BY LenProperties DEF Typed
<1>2. queue \in SUBSET (1..Len(w)) /\ m \in Nat
  <2>1. queue \in SUBSET (1..Len(w))
    BY <1>1 DEF Waiting
  <2> QED
    BY <1>1, <2>1, RankNumbers
<1>3. /\ \A n \in 0..(m - 1) : row(n) \in queue /\ Rank(w, a, queue, row(n)) = n
      /\ \A j \in queue : /\ Rank(w, a, queue, j) \in 0..(m - 1)
                          /\ row(Rank(w, a, queue, j)) = j
  <2>1. \A n \in 0..(m - 1) : row(n) \in queue /\ Rank(w, a, queue, row(n)) = n
    BY <1>1, <1>2, NthRow
  <2>2. /\ \A j \in queue : Rank(w, a, queue, j) \in 0..(m - 1)
        /\ \A j, k \in queue : Rank(w, a, queue, j) = Rank(w, a, queue, k) => j = k
    BY <1>1, <1>2, RankNumbers
  <2> QED
    BY <2>1, <2>2
<1>4. \A i, k \in 0..(m - 1) : i < k => Ahead(w, a, row(i), row(k))
  <2> SUFFICES ASSUME NEW i \in 0..(m - 1), NEW k \in 0..(m - 1), i < k,
                      ~Ahead(w, a, row(i), row(k))
               PROVE  FALSE
    OBVIOUS
  <2>1. row(i) \in queue /\ row(k) \in queue /\ row(i) # row(k)
    BY <1>2, <1>3
  <2>2. Ahead(w, a, row(k), row(i))
    BY <1>1, <1>2, <2>1, ScanOrder
  <2>3. Rank(w, a, queue, row(k)) < Rank(w, a, queue, row(i))
    BY <1>1, <1>2, <2>1, <2>2, RankGrows
  <2> QED
    BY <1>2, <1>3, <2>3
<1>5. Scan(r, w, a, s) = (CHOOSE f : f = [n \in 0..m |-> next(f, n)])[0]
  BY DEF Scan
<1> HIDE DEF queue, m, row, Clear
<1>6. \A n \in 0..m : Found(n) # {} => first(n) \in Found(n) /\ \A k \in Found(n) : first(n) <= k
  <2> SUFFICES ASSUME NEW n \in 0..m, Found(n) # {}
               PROVE  \E i \in Found(n) : \A k \in Found(n) : i <= k
    OBVIOUS
  <2>1. Found(n) \in SUBSET Nat
    BY <1>2
  <2> HIDE DEF Found
  <2> QED
    BY <2>1, LeastNumber
<1>7. ASSUME NEW n \in 0..m PROVE e[n] = next(e, n)
  <2>1. CASE n = m
    <3>1. Found(n) = {}
      BY <1>2, <2>1
    <3> QED
      BY <2>1, <3>1
  <2>2. CASE n # m /\ Clear(n)
    <3>1. n \in Found(n) /\ \A k \in Found(n) : k >= n
      BY <1>2, <2>2
    <3>2. first(n) = n
      <4>1. first(n) \in Found(n) /\ \A k \in Found(n) : first(n) <= k
        BY <1>6, <3>1
      <4>2. first(n) \in Int
        BY <1>2, <4>1
      <4> HIDE DEF first, Found
      <4> QED
        BY <1>2, <3>1, <4>1, <4>2
    <3> HIDE DEF first, Found
    <3> QED
      BY <2>2, <3>1, <3>2
  <2>3. CASE n # m /\ ~Clear(n)
    <3>1. CASE Strategy = "strict"
      <4>1. Found(n) = {}
        BY <1>2, <2>3, <3>1
      <4> QED
        BY <2>3, <3>1, <4>1
    <3>2. CASE Strategy # "strict"
      <4>1. n + 1 \in 0..m
        BY <1>2, <2>3
      <4>2. Found(n) = Found(n + 1)
        BY <1>2, <2>3, <3>2
      <4>3. first(n) = first(n + 1)
        BY <4>2
      <4> HIDE DEF first, Found
      <4> QED
        BY <2>3, <3>2, <4>1, <4>2, <4>3
    <3> QED
      BY <3>1, <3>2
  <2> QED
    BY <2>1, <2>2, <2>3
<1> DEFINE f == CHOOSE h : h = [n \in 0..m |-> next(h, n)]
<1>8. f = [n \in 0..m |-> next(f, n)]
  <2>1. e = [n \in 0..m |-> e[n]]
    OBVIOUS
  <2> HIDE DEF e
  <2>2. e = [n \in 0..m |-> next(e, n)]
    BY <1>7, <2>1
  <2> QED
    BY <2>2
<1> HIDE DEF f, e
<1>9. f[0] = e[0]
  <2> DEFINE T == {k \in 0..m : f[m - k] = e[m - k]}
  <2>1. 0 \in T
    <3>1. m - 0 = m /\ m \in 0..m /\ 0 \in 0..m
      BY <1>2
    <3>2. f[m] = 0 /\ e[m] = 0
      BY <1>7, <1>8, <3>1
    <3> QED
      BY <3>1, <3>2
  <2>2. ASSUME NEW k \in 0..(m - 1), k \in T PROVE k + 1 \in T
    <3> DEFINE n == m - (k + 1)
    <3>1. n \in 0..m /\ n + 1 = m - k /\ k + 1 \in 0..m
      BY <1>2
    <3>2. f[n + 1] = e[n + 1]
      BY <2>2, <3>1
    <3> HIDE DEF n
    <3>3. f[n] = next(f, n) /\ e[n] = next(e, n)
      BY <1>7, <1>8, <3>1
    <3>4. f[n] = e[n]
      BY <3>2, <3>3
    <3> QED
      BY <3>1, <3>4 DEF n
  <2> HIDE DEF T
  <2>3. m \in T
    BY <1>2, <2>1, <2>2, UpTo
  <2> QED
    BY <1>2, <2>3 DEF T
<1>10. Scan(r, w, a, s) = IF Found(0) = {} THEN 0 ELSE row(first(0))
  BY <1>2, <1>5, <1>9 DEF f, e
<1>11. ASSUME NEW i \in 0..(m - 1)
       PROVE  i \in Found(0) <=> row(i) \in Executable(r, w, a, s)
  <2>1. row(i) \in Executable(r, w, a, s) <=>
          /\ Clear(i)
          /\ Strategy = "strict" =>
               \A k \in queue : Ahead(w, a, k, row(i)) => ~Clash(r, w[k].user, s)
    BY <1>3 DEF Executable, Clear, queue
  <2>2. ASSUME NEW l \in 0..(i - 1) PROVE row(l) \in queue /\ Ahead(w, a, row(l), row(i))
    BY <1>2, <1>3, <1>4
  <2>3. ASSUME NEW k \in queue, Ahead(w, a, k, row(i))
        PROVE  \E l \in 0..(i - 1) : k = row(l)
    <3>1. Rank(w, a, queue, k) \in 0..(m - 1) /\ row(Rank(w, a, queue, k)) = k
      BY <1>3
    <3>2. Rank(w, a, queue, k) < Rank(w, a, queue, row(i))
      BY <1>1, <1>2, <1>3, <2>3, RankGrows
    <3>3. Rank(w, a, queue, k) \in 0..(i - 1)
      BY <1>2, <1>3, <3>1, <3>2
    <3> QED
      BY <3>1, <3>3
  <2> QED
    BY <2>1, <2>2, <2>3 DEF Clear
<1>12. \A j \in Executable(r, w, a, s) : j \in queue
  BY DEF Executable, queue
<1>13. CASE Found(0) = {}
  <2>1. ASSUME NEW j \in Executable(r, w, a, s) PROVE FALSE
    <3>1. Rank(w, a, queue, j) \in 0..(m - 1) /\ row(Rank(w, a, queue, j)) = j
      BY <1>3, <1>12
    <3>2. Rank(w, a, queue, j) \in Found(0)
      BY <1>11, <3>1
    <3> HIDE DEF Found
    <3> QED
      BY <1>13, <3>2
  <2> QED
    BY <1>10, <1>13, <2>1
<1>14. CASE Found(0) # {}
  <2> DEFINE i == first(0)
  <2>1. i \in Found(0) /\ \A k \in Found(0) : i <= k
    <3>1. 0 \in 0..m
      BY <1>2
    <3> HIDE DEF Found, first
    <3> QED
      BY <1>6, <1>14, <3>1
  <2>2. i \in 0..(m - 1)
    BY <2>1
  <2>3. Scan(r, w, a, s) = row(i)
    BY <1>10, <1>14
  <2> HIDE DEF i, Found
  <2>4. row(i) \in Executable(r, w, a, s)
    BY <1>11, <2>1, <2>2
  <2>5. ASSUME NEW k \in Executable(r, w, a, s) \ {row(i)} PROVE Ahead(w, a, row(i), k)
    <3>1. Rank(w, a, queue, k) \in 0..(m - 1) /\ row(Rank(w, a, queue, k)) = k
      BY <1>3, <1>12
    <3>2. Rank(w, a, queue, k) \in Found(0)
      BY <1>11, <3>1
    <3>3. i < Rank(w, a, queue, k)
      BY <1>2, <2>1, <2>2, <2>5, <3>1, <3>2
    <3> QED
      BY <1>4, <2>2, <3>1, <3>3
  <2> QED
    BY <2>3, <2>4, <2>5
<1> QED
  BY <1>13, <1>14
\* the unique index one_waiter
OneWait(w) ==
  \A j, k \in DOMAIN w :
     (w[j].status = "WAITING" /\ w[k].status = "WAITING"
      /\ w[j].user = w[k].user /\ w[j].slot = w[k].slot) => j = k

\* PromoteFill in one form, also where nothing is free and nobody to be skipped.
LEMMA FillForm ==
  ASSUME NEW r, NEW w, NEW a, NEW s \in Slots, Typed(r, w, a), Free(r, s) \in Nat,
         Free(r, s) = 0 => Stale(w, a, s) = {},
         NEW C, C = Chosen(r, w, a, s)
  PROVE  /\ C \in SUBSET (1..Len(w)) /\ Cardinality(C) \in Nat /\ IsFiniteSet(C)
         /\ PromoteFill(r, w, a, s) =
              [resv |-> [i \in 1..(Len(r) + Cardinality(C)) |->
                           IF i <= Len(r) THEN r[i]
                           ELSE GrantedRow(w[Nth(w, a, C, i - Len(r) - 1)].user, s)],
               waits |-> [j \in 1..Len(w) |->
                            IF j \in C THEN Promoted(w[j], Len(r) + 1 + Rank(w, a, C, j))
                            ELSE IF j \in Stale(w, a, s)
                            THEN [w[j] EXCEPT !.status = "SKIPPED"]
                            ELSE w[j]]]
<1>1. C \in SUBSET (1..Len(w)) /\ Cardinality(C) \in Nat /\ IsFiniteSet(C)
  BY ChosenBound
<1>2. CASE Free(r, s) > 0
  <2>1. ~(Free(r, s) <= 0)
    BY <1>2
  <2> QED
    BY <1>1, <2>1, Zenon DEF PromoteFill
<1>3. CASE Free(r, s) = 0
  <2>1. /\ r \in Seq(Reservation) /\ Len(r) \in Nat /\ r = [i \in 1..Len(r) |-> r[i]]
        /\ w \in Seq(Wait) /\ Len(w) \in Nat /\ w = [j \in 1..Len(w) |-> w[j]]
    BY LenProperties DEF Typed
  <2>2. Cardinality(C) = 0 /\ C = {}
    <3>1. Cardinality(C) <= 0
      BY <1>3, ChosenBound
    <3> QED
      BY <1>1, <3>1, FS_EmptySet
  <2>3. PromoteFill(r, w, a, s) = [resv |-> r, waits |-> w]
    BY <1>3 DEF PromoteFill
  <2>4. Len(r) + Cardinality(C) = Len(r)
    BY <2>1, <2>2
  <2> DEFINE rows == [i \in 1..(Len(r) + Cardinality(C)) |->
                        IF i <= Len(r) THEN r[i]
                        ELSE GrantedRow(w[Nth(w, a, C, i - Len(r) - 1)].user, s)]
             marks == [j \in 1..Len(w) |->
                         IF j \in C THEN Promoted(w[j], Len(r) + 1 + Rank(w, a, C, j))
                         ELSE IF j \in Stale(w, a, s)
                         THEN [w[j] EXCEPT !.status = "SKIPPED"]
                         ELSE w[j]]
  <2>5. rows = r
    BY <2>1, <2>4
  <2>6. marks = w
    BY <1>3, <2>1, <2>2
  <2> HIDE DEF rows, marks
  <2>7. PromoteFill(r, w, a, s) = [resv |-> rows, waits |-> marks]
    BY <2>3, <2>5, <2>6
  <2> QED
    BY <1>1, <2>7 DEF rows, marks
<1> QED
  BY <1>2, <1>3

\* Skipping the accounts that are off first changes nothing for the others.
LEMMA FillSkips ==
  ASSUME NEW r, NEW w, NEW a, NEW s \in Slots, Typed(r, w, a),
         NEW v, v = SkipStale(w, a, s)
  PROVE  /\ SamePlaces(w, v) /\ Typed(r, v, a) /\ Stale(v, a, s) = {}
         /\ Waiting(v, s) = Waiting(w, s) \ Stale(w, a, s)
         /\ OneWait(w) => OneWait(v)
         /\ Executable(r, v, a, s) = Executable(r, w, a, s)
         /\ Free(r, s) > 0 => PromoteFill(r, v, a, s) = PromoteFill(r, w, a, s)
<1>1. /\ w \in Seq(Wait) /\ DOMAIN w = 1..Len(w) /\ Len(w) \in Nat
      /\ \A j \in DOMAIN w : w[j].since <= now
  BY LenProperties DEF Typed
<1>2. ASSUME NEW j \in DOMAIN w
      PROVE  /\ v[j] \in Wait /\ v[j].user = w[j].user /\ v[j].slot = w[j].slot
             /\ v[j].prio = w[j].prio /\ v[j].since = w[j].since
             /\ j \in Stale(w, a, s) => v[j] = [w[j] EXCEPT !.status = "SKIPPED"]
             /\ j \in Stale(w, a, s) => v[j].status = "SKIPPED"
             /\ j \notin Stale(w, a, s) => v[j] = w[j]
  <2>1. w[j] \in Wait
    BY <1>1, ElementOfSeq
  <2>2. v[j] = IF j \in Stale(w, a, s) THEN [w[j] EXCEPT !.status = "SKIPPED"] ELSE w[j]
    BY DEF SkipStale
  <2> QED
    BY <2>1, <2>2 DEF Wait, WaitStatus
<1>3. SamePlaces(w, v)
  <2>1. v = [j \in 1..Len(w) |-> v[j]]
    BY <1>1 DEF SkipStale
  <2>2. v \in [1..Len(w) -> Wait]
    BY <1>1, <1>2, <2>1
  <2>3. v \in Seq(Wait)
    BY <1>1, <2>2, SeqDef
  <2>4. DOMAIN v = DOMAIN w
    BY <1>1, <2>1
  <2> QED
    BY <1>2, <2>3, <2>4 DEF SamePlaces
<1>4. Typed(r, v, a)
  BY <1>2, <1>3 DEF Typed, SamePlaces
<1>5. Waiting(v, s) = Waiting(w, s) \ Stale(w, a, s)
  <2>1. \A j \in Stale(w, a, s) : j \in DOMAIN w
    BY DEF Stale, Waiting
  <2> QED
    BY <1>2, <1>3, <2>1 DEF Waiting, SamePlaces
<1>6. Stale(v, a, s) = {}
  <2>1. \A j \in Waiting(w, s) : j \in DOMAIN w /\ (j \in Stale(w, a, s) <=> ~a[w[j].user].enabled)
    BY DEF Waiting, Stale
  <2>2. \A j \in Waiting(v, s) : a[v[j].user].enabled
    BY <1>2, <1>5, <2>1
  <2> QED
    BY <2>2 DEF Stale
<1>7. OneWait(w) => OneWait(v)
  BY <1>2, <1>3 DEF OneWait, SamePlaces, Stale, Waiting
<1>8. \A x, y \in 1..Len(w) : Ahead(v, a, x, y) <=> Ahead(w, a, x, y)
  BY <1>3, SameOrder
<1>9. Executable(r, v, a, s) = Executable(r, w, a, s)
  <2> DEFINE candidates == Waiting(w, s) \ Stale(w, a, s)
  <2>1. /\ Waiting(v, s) \ Stale(v, a, s) = candidates
        /\ \A j \in candidates : j \in 1..Len(w) /\ v[j].user = w[j].user
    BY <1>1, <1>2, <1>5, <1>6 DEF Waiting
  <2> HIDE DEF candidates
  <2> QED
    BY <1>8, <2>1 DEF Executable, candidates
<1>10. ASSUME Free(r, s) > 0 PROVE PromoteFill(r, v, a, s) = PromoteFill(r, w, a, s)
  <2> DEFINE C == Chosen(r, w, a, s)
             n == Cardinality(C)
             t == PromoteFill(r, w, a, s)
             u == PromoteFill(r, v, a, s)
             queue == Executable(r, w, a, s)
  <2>1. Free(r, s) \in Nat /\ Len(r) \in Nat
    <3>1. Free(r, s) \in Int
      BY SeatedFinite, BoundsAssumption DEF Typed, Free
    <3> QED
      BY <1>10, <3>1, LenProperties DEF Typed
  <2>2. queue \in SUBSET (1..Len(w)) /\ Len(v) = Len(w)
    BY <1>1, <1>3, SameOrder DEF Executable, Waiting
  <2>3. Chosen(r, v, a, s) = C
    <3> HIDE DEF queue
    <3>1. \A j \in queue : Rank(v, a, queue, j) = Rank(w, a, queue, j)
      BY <1>3, <2>2, SameOrder
    <3> QED
      BY <1>9, <3>1 DEF Chosen, queue
  <2>4. C \in SUBSET (1..Len(w)) /\ n \in Nat
    BY <1>10, <2>1, FillForm
  <2>5. \A j \in C : j \notin Stale(w, a, s)
    BY DEF Chosen, Executable
  <2> HIDE DEF C
  <2>6. /\ \A j \in C : Rank(v, a, C, j) = Rank(w, a, C, j)
        /\ \A k \in 0..(n - 1) : Nth(v, a, C, k) = Nth(w, a, C, k)
        /\ \A k \in 0..(n - 1) : Nth(w, a, C, k) \in C
    <3>1. \A k \in 0..(n - 1) : Nth(w, a, C, k) \in C
      BY <1>1, <2>4, NthRow DEF Typed
    <3> QED
      BY <1>3, <2>4, <3>1, SameOrder
  <2> HIDE DEF n
  <2>7. t = [resv |-> [i \in 1..(Len(r) + n) |->
                         IF i <= Len(r) THEN r[i]
                         ELSE GrantedRow(w[Nth(w, a, C, i - Len(r) - 1)].user, s)],
             waits |-> [j \in 1..Len(w) |->
                          IF j \in C THEN Promoted(w[j], Len(r) + 1 + Rank(w, a, C, j))
                          ELSE IF j \in Stale(w, a, s)
                          THEN [w[j] EXCEPT !.status = "SKIPPED"]
                          ELSE w[j]]]
    BY <1>10, <2>1, FillForm DEF C, n
  <2>8. u = [resv |-> [i \in 1..(Len(r) + n) |->
                         IF i <= Len(r) THEN r[i]
                         ELSE GrantedRow(v[Nth(v, a, C, i - Len(r) - 1)].user, s)],
             waits |-> [j \in 1..Len(v) |->
                          IF j \in C THEN Promoted(v[j], Len(r) + 1 + Rank(v, a, C, j))
                          ELSE IF j \in Stale(v, a, s)
                          THEN [v[j] EXCEPT !.status = "SKIPPED"]
                          ELSE v[j]]]
    BY <1>4, <1>10, <2>1, <2>3, FillForm DEF C, n
  <2> HIDE DEF t, u
  <2>9. ASSUME NEW i \in 1..(Len(r) + n), ~(i <= Len(r))
        PROVE  v[Nth(v, a, C, i - Len(r) - 1)].user = w[Nth(w, a, C, i - Len(r) - 1)].user
    <3>1. i - Len(r) - 1 \in 0..(n - 1)
      BY <2>1, <2>4, <2>9
    <3>2. Nth(w, a, C, i - Len(r) - 1) \in DOMAIN w
      BY <1>1, <2>4, <2>6, <3>1
    <3> QED
      BY <1>2, <2>6, <3>1, <3>2
  <2>10. u.resv = t.resv
    BY <2>7, <2>8, <2>9
  <2>11. u.waits = t.waits
    <3>1. ASSUME NEW j \in 1..Len(w) PROVE u.waits[j] = t.waits[j]
      <4>1. CASE j \in C
        BY <1>1, <1>2, <2>2, <2>5, <2>6, <2>7, <2>8, <4>1
      <4>2. CASE j \notin C /\ j \in Stale(w, a, s)
        BY <1>1, <1>2, <1>6, <2>2, <2>7, <2>8, <4>2
      <4>3. CASE j \notin C /\ j \notin Stale(w, a, s)
        BY <1>1, <1>2, <1>6, <2>2, <2>7, <2>8, <4>3
      <4> QED
        BY <4>1, <4>2, <4>3
    <3>2. u.waits = [j \in 1..Len(w) |-> u.waits[j]] /\ t.waits = [j \in 1..Len(w) |-> t.waits[j]]
      BY <2>2, <2>7, <2>8
    <3> QED
      BY <3>1, <3>2
  <2>12. t = [resv |-> t.resv, waits |-> t.waits] /\ u = [resv |-> u.resv, waits |-> u.waits]
    BY <2>7, <2>8
  <2> QED
    BY <2>10, <2>11, <2>12 DEF t, u
<1> QED
  BY <1>3, <1>4, <1>5, <1>6, <1>7, <1>9, <1>10
\* the tables with one waiter served: the seat and the mark
SeatTo(r, u, s) == Append(r, GrantedRow(u, s))
MarkAt(w, j, rid) == [w EXCEPT ![j] = Promoted(w[j], rid)]

\* A seat granted to user u of slot s: one free seat less, and a clash for u only.
LEMMA SeatGranted ==
  ASSUME NEW r \in Seq(Reservation), NEW u \in Users, NEW s \in Slots, now \in Nat,
         slots[s].capacity \in Int, NEW q, q = SeatTo(r, u, s)
  PROVE  /\ q \in Seq(Reservation) /\ Len(q) = Len(r) + 1
         /\ \A i \in 1..Len(r) : q[i] = r[i]
         /\ q[Len(r) + 1] = GrantedRow(u, s)
         /\ Free(q, s) = Free(r, s) - 1
         /\ \A x \in Users \ {u} : Clash(q, x, s) <=> Clash(r, x, s)
<1> DEFINE new == GrantedRow(u, s)
<1>1. new \in Reservation /\ new.slot = s /\ new.user = u /\ Live(new)
  <2>1. new \in Reservation /\ new.slot = s
    BY GrantedType
  <2>2. new.user = u /\ Live(new)
    BY DEF GrantedRow, Row, Live
  <2> QED
    BY <2>1, <2>2
<1> HIDE DEF new
<1>2. Len(r) \in Nat /\ DOMAIN r = 1..Len(r)
  BY LenProperties
<1>3. /\ q \in Seq(Reservation) /\ Len(q) = Len(r) + 1
      /\ \A i \in 1..Len(r) : q[i] = r[i]
      /\ q[Len(r) + 1] = new
  <2>1. q = Append(r, new)
    BY DEF new, SeatTo
  <2> QED
    BY <1>1, <2>1, AppendProperties
<1>4. DOMAIN q = 1..(Len(r) + 1)
  BY <1>3, LenProperties
<1>5. Seated(q, s) = Seated(r, s) \cup {Len(r) + 1} /\ Len(r) + 1 \notin Seated(r, s)
  BY <1>1, <1>2, <1>3, <1>4 DEF Seated
<1>6. Cardinality(Seated(q, s)) = Cardinality(Seated(r, s)) + 1
  BY <1>5, SeatedFinite, FS_AddElement
<1>7. Free(q, s) = Free(r, s) - 1
  <2>1. Cardinality(Seated(r, s)) \in Nat
    BY SeatedFinite
  <2> QED
    BY <1>6, <2>1 DEF Free
<1>8. ASSUME NEW x \in Users \ {u} PROVE Clash(q, x, s) <=> Clash(r, x, s)
  BY <1>1, <1>2, <1>3, <1>4 DEF Clash
<1> QED
  BY <1>3, <1>7, <1>8 DEF new

\* A waiter of slot s marked as promoted: the queue loses one row and nothing else.
LEMMA WaiterPromoted ==
  ASSUME NEW r, NEW w, NEW a, NEW s \in Slots, Typed(r, w, a), Stale(w, a, s) = {},
         OneWait(w), NEW j \in Waiting(w, s), NEW rid \in Nat,
         NEW v, v = MarkAt(w, j, rid)
  PROVE  /\ SamePlaces(w, v) /\ Typed(r, v, a) /\ OneWait(v)
         /\ \A k \in DOMAIN w \ {j} : v[k] = w[k]
         /\ v[j] = Promoted(w[j], rid)
         /\ Waiting(v, s) = Waiting(w, s) \ {j}
         /\ Stale(v, a, s) = {}
<1>1. /\ w \in Seq(Wait) /\ DOMAIN w = 1..Len(w) /\ Len(w) \in Nat
      /\ \A k \in DOMAIN w : w[k].since <= now
  BY LenProperties DEF Typed
<1>2. j \in DOMAIN w /\ w[j] \in Wait
  BY <1>1, ElementOfSeq DEF Waiting
<1>3. /\ \A k \in DOMAIN w \ {j} : v[k] = w[k]
      /\ v[j] = Promoted(w[j], rid) /\ DOMAIN v = DOMAIN w
  BY <1>1, <1>2 DEF MarkAt
<1>4. /\ v[j] \in Wait /\ v[j].user = w[j].user /\ v[j].slot = w[j].slot
      /\ v[j].prio = w[j].prio /\ v[j].since = w[j].since /\ v[j].status = "PROMOTED"
  BY <1>2, <1>3 DEF Promoted, Wait, WaitStatus
<1>5. SamePlaces(w, v)
  <2>1. v \in Seq(Wait)
    <3>1. \A k \in DOMAIN w : v[k] \in Wait
      BY <1>1, <1>3, <1>4, ElementOfSeq
    <3>2. v = [k \in 1..Len(w) |-> v[k]]
      BY <1>1 DEF MarkAt
    <3>3. v \in [1..Len(w) -> Wait]
      BY <1>1, <3>1, <3>2
    <3> QED
      BY <1>1, <3>3, SeqDef
  <2> QED
    BY <1>3, <1>4, <2>1 DEF SamePlaces
<1>6. Typed(r, v, a)
  BY <1>1, <1>5 DEF Typed, SamePlaces
<1>7. OneWait(v)
  BY <1>2, <1>3, <1>4 DEF OneWait
<1>8. Waiting(v, s) = Waiting(w, s) \ {j}
  BY <1>2, <1>3, <1>4 DEF Waiting
<1>9. Stale(v, a, s) = {}
  BY <1>3, <1>8 DEF Stale, Waiting
<1> QED
  BY <1>3, <1>5, <1>6, <1>7, <1>8, <1>9

\* When the first executable row is served, the rows behind it move up: a user
\* waits once for a slot, so the seat granted is in nobody else's way.
LEMMA QueueMoves ==
  ASSUME NEW r, NEW w, NEW a, NEW s \in Slots, Typed(r, w, a), Stale(w, a, s) = {},
         OneWait(w), Free(r, s) > 0,
         NEW j \in Executable(r, w, a, s),
         \A k \in Executable(r, w, a, s) \ {j} : Ahead(w, a, j, k),
         NEW q, q = SeatTo(r, w[j].user, s),
         NEW v, v = MarkAt(w, j, Len(r) + 1)
  PROVE  /\ Executable(q, v, a, s) = Executable(r, w, a, s) \ {j}
         /\ j \in Chosen(r, w, a, s)
         /\ Chosen(q, v, a, s) = Chosen(r, w, a, s) \ {j}
<1> DEFINE queue == Executable(r, w, a, s)
<1>1. /\ w \in Seq(Wait) /\ DOMAIN w = 1..Len(w) /\ Len(w) \in Nat
      /\ a \in [Users -> Account] /\ now \in 0..MaxTime /\ now \in Nat
      /\ r \in Seq(Reservation) /\ Len(r) \in Nat /\ Len(r) + 1 \in Nat
      /\ slots[s].capacity \in Int
      /\ \A k \in DOMAIN w : w[k].since <= now
  BY LenProperties, ServiceAssumption, BoundsAssumption DEF Typed
<1>2. Free(r, s) \in Int
  BY <1>1, SeatedFinite DEF Free
<1>3. j \in Waiting(w, s) /\ ~Clash(r, w[j].user, s)
  BY DEF Executable
<1>4. \A k \in Waiting(w, s) : k \in DOMAIN w /\ w[k].user \in Users
  <2>1. ASSUME NEW k \in DOMAIN w PROVE w[k].user \in Users
    <3>1. w[k] \in Wait
      BY <1>1, ElementOfSeq
    <3> QED
      BY <3>1 DEF Wait
  <2> QED
    BY <2>1 DEF Waiting
<1>5. \A k \in Waiting(w, s) \ {j} : w[k].user # w[j].user
  BY <1>3 DEF OneWait, Waiting
<1>6. /\ Free(q, s) = Free(r, s) - 1
      /\ \A x \in Users \ {w[j].user} : Clash(q, x, s) <=> Clash(r, x, s)
  <2>1. w[j].user \in Users
    BY <1>3, <1>4
  <2>2. r \in Seq(Reservation) /\ now \in Nat /\ slots[s].capacity \in Int
    BY <1>1
  <2> QED
    BY <2>1, <2>2, SeatGranted
<1>7. /\ SamePlaces(w, v) /\ Waiting(v, s) = Waiting(w, s) \ {j}
      /\ Stale(v, a, s) = {} /\ \A k \in DOMAIN w \ {j} : v[k] = w[k]
  <2>1. Len(r) + 1 \in Nat
    BY <1>1
  <2> QED
    BY <1>3, <2>1, WaiterPromoted
<1>8. \A k \in Waiting(v, s) : Clash(q, v[k].user, s) <=> Clash(r, w[k].user, s)
  BY <1>4, <1>5, <1>6, <1>7
<1>9. queue \in SUBSET (1..Len(w))
  BY <1>1 DEF Executable, Waiting
<1>10. \A x, y \in 1..Len(w) : Ahead(v, a, x, y) <=> Ahead(w, a, x, y)
  BY <1>7, SameOrder
<1>11. Executable(q, v, a, s) = queue \ {j}
  <2> DEFINE candidates == Waiting(w, s)
  <2>1. Waiting(w, s) \ Stale(w, a, s) = candidates
    OBVIOUS
  <2>2. Waiting(v, s) \ Stale(v, a, s) = candidates \ {j}
    BY <1>7
  <2>3. candidates \in SUBSET (1..Len(w))
    BY <1>1 DEF Waiting
  <2>4. \A k \in candidates \ {j} : Clash(q, v[k].user, s) <=> Clash(r, w[k].user, s)
    BY <1>7, <1>8
  <2>5. \A k, l \in candidates : Ahead(v, a, k, l) <=> Ahead(w, a, k, l)
    BY <1>10, <2>3
  <2> HIDE DEF candidates, queue
  <2>6. queue = {k \in candidates :
                   /\ ~Clash(r, w[k].user, s)
                   /\ Strategy = "strict" =>
                        \A l \in candidates : Ahead(w, a, l, k) => ~Clash(r, w[l].user, s)}
    BY <2>1 DEF Executable, queue
  <2>7. Executable(q, v, a, s) =
          {k \in candidates \ {j} :
                   /\ ~Clash(q, v[k].user, s)
                   /\ Strategy = "strict" =>
                        \A l \in candidates \ {j} : Ahead(v, a, l, k) => ~Clash(q, v[l].user, s)}
    BY <2>2 DEF Executable
  <2> QED
    BY <1>3, <2>4, <2>5, <2>6, <2>7
<1> DEFINE rest == queue \ {j}
<1>12. j \in queue /\ First(w, a, queue, j, rest)
  BY DEF First
<1> HIDE DEF queue
<1>19. rest = queue \ {j} /\ rest \in SUBSET (1..Len(w))
  BY <1>9
<1> HIDE DEF rest
<1>13. /\ Rank(w, a, queue, j) = 0
       /\ \A k \in rest : Rank(w, a, rest, k) = Rank(w, a, queue, k) - 1
  <2>1. Typed(r, w, a) /\ queue \in SUBSET (1..Len(w)) /\ First(w, a, queue, j, rest)
    BY <1>9, <1>12
  <2>2. Rank(w, a, queue, j) = 0
    BY <2>1, MovesUp
  <2>3. \A k \in rest : Rank(w, a, rest, k) = Rank(w, a, queue, k) - 1
    BY <2>1, RanksMoveUp
  <2> QED
    BY <2>2, <2>3
<1>14. /\ Chosen(r, w, a, s) = {k \in queue : Rank(w, a, queue, k) < Free(r, s)}
       /\ Chosen(q, v, a, s) = {k \in rest : Rank(v, a, rest, k) < Free(q, s)}
  BY <1>11, <1>19 DEF Chosen, queue
<1>15. \A k \in rest : Rank(v, a, rest, k) = Rank(w, a, rest, k)
  BY <1>7, <1>19, SameOrder
<1>16. \A k \in queue : Rank(w, a, queue, k) \in Int
  <2>1. /\ Cardinality(queue) \in Nat
        /\ \A k \in queue : Rank(w, a, queue, k) \in 0..(Cardinality(queue) - 1)
    BY <1>1, <1>9, RankNumbers
  <2> QED
    BY <2>1
<1>17. j \in Chosen(r, w, a, s)
  BY <1>12, <1>13, <1>14
<1>18. Chosen(q, v, a, s) = Chosen(r, w, a, s) \ {j}
  <2>1. \A k \in rest : Rank(v, a, rest, k) < Free(q, s) <=> Rank(w, a, queue, k) < Free(r, s)
    <3>1. ASSUME NEW k \in rest
          PROVE  /\ Rank(v, a, rest, k) = Rank(w, a, queue, k) - 1
                 /\ Rank(w, a, queue, k) \in Int
      BY <1>13, <1>15, <1>16, <1>19
    <3>2. Free(q, s) = Free(r, s) - 1
      BY <1>6
    <3> QED
      BY <1>2, <3>1, <3>2
  <2> QED
    BY <1>14, <1>19, <2>1
<1> QED
  BY <1>11, <1>17, <1>18 DEF queue
\* Serving the first executable row leaves the outcome of the promotion as it was.
LEMMA FillTakesFirst ==
  ASSUME NEW r, NEW w, NEW a, NEW s \in Slots, Typed(r, w, a), Stale(w, a, s) = {},
         OneWait(w), Free(r, s) > 0,
         NEW j \in Executable(r, w, a, s),
         \A k \in Executable(r, w, a, s) \ {j} : Ahead(w, a, j, k),
         NEW q, q = SeatTo(r, w[j].user, s),
         NEW v, v = MarkAt(w, j, Len(r) + 1)
  PROVE  /\ Typed(q, v, a) /\ OneWait(v) /\ Stale(v, a, s) = {}
         /\ Free(q, s) \in Nat
         /\ Waiting(v, s) = Waiting(w, s) \ {j} /\ j \in Waiting(w, s)
         /\ PromoteFill(q, v, a, s) = PromoteFill(r, w, a, s)
<1> DEFINE C == Chosen(r, w, a, s)
           n == Cardinality(C)
           rest == Chosen(q, v, a, s)
           t == PromoteFill(r, w, a, s)
           u == PromoteFill(q, v, a, s)
<1>1. /\ w \in Seq(Wait) /\ DOMAIN w = 1..Len(w) /\ Len(w) \in Nat
      /\ a \in [Users -> Account] /\ now \in 0..MaxTime /\ now \in Nat
      /\ r \in Seq(Reservation) /\ Len(r) \in Nat /\ Len(r) + 1 \in Nat
      /\ slots[s].capacity \in Int
  BY LenProperties, ServiceAssumption, BoundsAssumption DEF Typed
<1>2. \A l \in DOMAIN w : w[l].since <= now
  BY DEF Typed
<1>3. j \in Waiting(w, s) /\ j \in DOMAIN w
  BY DEF Executable, Waiting
<1>4. w[j].user \in Users
  <2>1. w[j] \in Wait
    BY <1>1, <1>3, ElementOfSeq
  <2> QED
    BY <2>1 DEF Wait
<1>5. /\ q \in Seq(Reservation) /\ Len(q) = Len(r) + 1
      /\ \A i \in 1..Len(r) : q[i] = r[i]
      /\ q[Len(r) + 1] = GrantedRow(w[j].user, s)
      /\ Free(q, s) = Free(r, s) - 1
  BY <1>1, <1>4, SeatGranted
<1>6. /\ SamePlaces(w, v) /\ Typed(r, v, a) /\ OneWait(v)
      /\ \A k \in DOMAIN w \ {j} : v[k] = w[k]
      /\ v[j] = Promoted(w[j], Len(r) + 1)
      /\ Waiting(v, s) = Waiting(w, s) \ {j}
      /\ Stale(v, a, s) = {}
  BY <1>1, <1>3, WaiterPromoted
<1>7. Typed(q, v, a)
  BY <1>5, <1>6 DEF Typed
<1>8. Free(r, s) \in Nat /\ Free(q, s) \in Nat
  <2>1. Free(r, s) \in Int
    BY <1>1, SeatedFinite DEF Free
  <2>2. Free(q, s) = Free(r, s) - 1
    BY <1>5
  <2> QED
    BY <2>1, <2>2
<1>9. j \in C /\ rest = C \ {j}
  BY QueueMoves
<1>10. C \in SUBSET (1..Len(w)) /\ n \in Nat /\ IsFiniteSet(C)
  BY <1>8, ChosenBound
<1>11. rest \in SUBSET (1..Len(w))
  BY <1>9, <1>10
<1>12. First(w, a, C, j, rest)
  BY <1>9 DEF First, Chosen
<1>13. t = [resv |-> [i \in 1..(Len(r) + n) |->
                        IF i <= Len(r) THEN r[i]
                        ELSE GrantedRow(w[Nth(w, a, C, i - Len(r) - 1)].user, s)],
            waits |-> [k \in 1..Len(w) |->
                         IF k \in C THEN Promoted(w[k], Len(r) + 1 + Rank(w, a, C, k))
                         ELSE IF k \in Stale(w, a, s)
                         THEN [w[k] EXCEPT !.status = "SKIPPED"]
                         ELSE w[k]]]
  BY <1>8, FillForm
<1>14. u = [resv |-> [i \in 1..(Len(q) + Cardinality(rest)) |->
                        IF i <= Len(q) THEN q[i]
                        ELSE GrantedRow(v[Nth(v, a, rest, i - Len(q) - 1)].user, s)],
            waits |-> [k \in 1..Len(v) |->
                         IF k \in rest THEN Promoted(v[k], Len(q) + 1 + Rank(v, a, rest, k))
                         ELSE IF k \in Stale(v, a, s)
                         THEN [v[k] EXCEPT !.status = "SKIPPED"]
                         ELSE v[k]]]
  <2>1. Typed(q, v, a) /\ Free(q, s) \in Nat /\ Stale(v, a, s) = {}
    BY <1>6, <1>7, <1>8
  <2>2. rest = Chosen(q, v, a, s) /\ u = PromoteFill(q, v, a, s)
    OBVIOUS
  <2> HIDE DEF rest, u
  <2> QED
    BY ONLY <2>1, <2>2, s \in Slots, FillForm
<1> HIDE DEF t, u, C, rest
<1>15. /\ Typed(r, w, a) /\ C \in SUBSET (1..Len(w)) /\ rest \in SUBSET (1..Len(w))
       /\ First(w, a, C, j, rest)
  BY <1>10, <1>11, <1>12
<1>16. /\ Rank(w, a, C, j) = 0
       /\ Cardinality(rest) = n - 1
       /\ Nth(w, a, C, 0) = j
  <2>1. Typed(r, w, a) /\ C \in SUBSET (1..Len(w)) /\ First(w, a, C, j, rest)
    BY <1>15
  <2>2. Rank(w, a, C, j) = 0
    BY <2>1, MovesUp
  <2>3. Cardinality(rest) = n - 1
    BY <2>1, MovesUp
  <2>4. Nth(w, a, C, 0) = j
    BY <2>1, MovesUp
  <2> QED
    BY <2>2, <2>3, <2>4
<1>17. \A i \in 0..(n - 2) : Nth(w, a, rest, i) = Nth(w, a, C, i + 1)
  BY <1>15, MovesUp
<1>18. \A k \in rest : Rank(w, a, rest, k) = Rank(w, a, C, k) - 1
  BY <1>15, RanksMoveUp
<1>19. /\ Len(v) = Len(w)
       /\ \A k \in rest : Rank(v, a, rest, k) = Rank(w, a, rest, k)
  <2>1. SamePlaces(w, v) /\ Typed(r, w, a) /\ rest \in SUBSET (1..Len(w))
    BY <1>6, <1>15
  <2>2. Len(v) = Len(w)
    BY <2>1, SameOrder
  <2>3. \A k \in rest : Rank(v, a, rest, k) = Rank(w, a, rest, k)
    BY <2>1, SameOrder
  <2> QED
    BY <2>2, <2>3
<1>20. \A i \in 0..(Cardinality(rest) - 1) : Nth(v, a, rest, i) = Nth(w, a, rest, i)
  <2>1. SamePlaces(w, v) /\ Typed(r, w, a) /\ rest \in SUBSET (1..Len(w))
    BY <1>6, <1>15
  <2> QED
    BY <2>1, SameOrder
<1>21. \A k \in C : Rank(w, a, C, k) \in 0..(n - 1)
  BY <1>1, <1>2, <1>15, RankNumbers
<1>22. \A i \in 0..(n - 1) : Nth(w, a, C, i) \in C
  BY <1>1, <1>2, <1>15, NthRow
<1>23. n \in Nat
  BY <1>10
<1> HIDE DEF n
<1>24. u.resv = t.resv
  <2>1. Len(q) + Cardinality(rest) = Len(r) + n
    BY <1>1, <1>5, <1>16, <1>23
  <2>2. ASSUME NEW i \in 1..(Len(r) + n) PROVE u.resv[i] = t.resv[i]
    <3>1. CASE i <= Len(r)
      BY <1>1, <1>5, <1>13, <1>14, <1>23, <2>1, <3>1
    <3>2. CASE i = Len(r) + 1
      <4>1. i - Len(r) - 1 = 0 /\ ~(i <= Len(r)) /\ i <= Len(q)
        BY <1>1, <1>5, <3>2
      <4>2. t.resv[i] = GrantedRow(w[j].user, s)
        BY <1>13, <1>16, <4>1
      <4>3. u.resv[i] = q[Len(r) + 1]
        BY <1>14, <2>1, <3>2, <4>1
      <4> QED
        BY <1>5, <4>2, <4>3
    <3>3. CASE i > Len(r) + 1
      <4> DEFINE m == i - Len(r) - 2
      <4>1. /\ m \in 0..(n - 2) /\ m \in 0..(Cardinality(rest) - 1) /\ m + 1 \in 0..(n - 1)
            /\ i - Len(q) - 1 = m /\ i - Len(r) - 1 = m + 1
            /\ ~(i <= Len(r)) /\ ~(i <= Len(q))
        BY <1>1, <1>5, <1>16, <1>23, <3>3
      <4> HIDE DEF m
      <4>2. Nth(v, a, rest, m) = Nth(w, a, C, m + 1) /\ Nth(w, a, C, m + 1) \in C
        BY <1>17, <1>20, <1>22, <4>1
      <4>3. Nth(w, a, C, m + 1) \in DOMAIN w
        BY <1>1, <1>15, <4>2
      <4>4. v[Nth(w, a, C, m + 1)].user = w[Nth(w, a, C, m + 1)].user
        BY <1>6, <4>3 DEF SamePlaces
      <4>5. t.resv[i] = GrantedRow(w[Nth(w, a, C, m + 1)].user, s)
        BY <1>13, <4>1
      <4>6. u.resv[i] = GrantedRow(v[Nth(v, a, rest, m)].user, s)
        BY <1>14, <2>1, <4>1
      <4> QED
        BY <4>2, <4>4, <4>5, <4>6
    <3> QED
      <4>1. i \in Int /\ Len(r) \in Int
        BY <1>1
      <4> QED
        BY <3>1, <3>2, <3>3, <4>1
  <2>3. /\ u.resv = [i \in 1..(Len(r) + n) |-> u.resv[i]]
        /\ t.resv = [i \in 1..(Len(r) + n) |-> t.resv[i]]
    BY <1>13, <1>14, <2>1
  <2> QED
    BY <2>2, <2>3
<1>25. u.waits = t.waits
  <2>1. ASSUME NEW k \in 1..Len(w) PROVE u.waits[k] = t.waits[k]
    <3>1. CASE k \in rest
      <4>1. /\ Rank(w, a, C, k) \in Int
            /\ Rank(v, a, rest, k) = Rank(w, a, C, k) - 1
        <5>1. k \in C /\ Rank(w, a, C, k) \in 0..(n - 1)
          BY <1>9, <1>21, <3>1
        <5> QED
          BY <1>18, <1>19, <1>23, <3>1, <5>1
      <4>2. Len(q) + 1 + Rank(v, a, rest, k) = Len(r) + 1 + Rank(w, a, C, k)
        BY <1>1, <1>5, <4>1
      <4>3. v[k] = w[k] /\ k \in C
        BY <1>1, <1>6, <1>9, <3>1
      <4>4. u.waits[k] = Promoted(v[k], Len(q) + 1 + Rank(v, a, rest, k))
        BY <1>14, <1>19, <3>1
      <4>5. t.waits[k] = Promoted(w[k], Len(r) + 1 + Rank(w, a, C, k))
        BY <1>13, <4>3
      <4> QED
        BY <4>2, <4>3, <4>4, <4>5
    <3>2. CASE k = j
      <4>1. k \in C /\ k \notin rest /\ k \notin Stale(v, a, s)
        BY <1>6, <1>9, <3>2
      <4>2. u.waits[k] = v[k]
        BY <1>14, <1>19, <4>1
      <4>3. t.waits[k] = Promoted(w[k], Len(r) + 1 + 0)
        BY <1>13, <1>16, <3>2, <4>1
      <4>4. Len(r) + 1 + 0 = Len(r) + 1
        BY <1>1
      <4> QED
        BY <1>6, <3>2, <4>2, <4>3, <4>4
    <3>3. CASE k \notin C
      <4>1. k \notin rest /\ k # j /\ k \notin Stale(v, a, s) /\ k \notin Stale(w, a, s)
        BY <1>6, <1>9, <3>3
      <4>2. u.waits[k] = v[k]
        BY <1>14, <1>19, <4>1
      <4>3. t.waits[k] = w[k]
        BY <1>13, <3>3, <4>1
      <4> QED
        BY <1>1, <1>6, <4>1, <4>2, <4>3
    <3> QED
      BY <1>9, <3>1, <3>2, <3>3
  <2>2. /\ u.waits = [k \in 1..Len(w) |-> u.waits[k]]
        /\ t.waits = [k \in 1..Len(w) |-> t.waits[k]]
    BY <1>13, <1>14, <1>19
  <2> QED
    BY <2>1, <2>2
<1>26. t = [resv |-> t.resv, waits |-> t.waits] /\ u = [resv |-> u.resv, waits |-> u.waits]
  BY <1>13, <1>14
<1> QED
  BY <1>3, <1>6, <1>7, <1>8, <1>24, <1>25, <1>26 DEF t, u
\* The queue of a slot is finite.
LEMMA WaitingFinite ==
  ASSUME NEW w \in Seq(Wait), NEW s
  PROVE  IsFiniteSet(Waiting(w, s)) /\ Cardinality(Waiting(w, s)) \in Nat
<1>1. Len(w) \in Nat /\ DOMAIN w = 1..Len(w)
  BY LenProperties
<1>2. Waiting(w, s) \subseteq 1..Len(w)
  BY <1>1 DEF Waiting
<1>3. IsFiniteSet(1..Len(w))
  BY <1>1, FS_Interval
<1> QED
  BY <1>2, <1>3, FS_Subset, FS_CardinalityType

\* the tables t hold nothing for promote_fill(s) to do
Settled(t, a, s) ==
  \/ Free(t.resv, s) <= 0
  \/ Executable(t.resv, t.waits, a, s) = {} /\ Stale(t.waits, a, s) = {}

\* the tables the rounds of promote_fill pass through
Rounds(a) ==
  {t \in [resv: Seq(Reservation), waits: Seq(Wait)] :
     Typed(t.resv, t.waits, a) /\ OneWait(t.waits)}

\* Where nothing is left to do, neither the formula nor a round does anything.
LEMMA SettledStays ==
  ASSUME NEW a, NEW s \in Slots, NEW t \in Rounds(a), Settled(t, a, s)
  PROVE  /\ PromoteFill(t.resv, t.waits, a, s) = t
         /\ Promote(t, a, s) = t
<1> DEFINE r == t.resv
           w == t.waits
<1>1. t = [resv |-> r, waits |-> w] /\ Typed(r, w, a)
  BY DEF Rounds
<1>2. CASE Free(r, s) <= 0
  BY <1>1, <1>2 DEF PromoteFill, Promote
<1>3. CASE ~(Free(r, s) <= 0)
  <2> HIDE DEF r, w
  <2>1. Executable(r, w, a, s) = {} /\ Stale(w, a, s) = {}
    BY <1>3 DEF Settled, r, w
  <2>2. /\ r \in Seq(Reservation) /\ w \in Seq(Wait)
        /\ Len(r) \in Nat /\ r = [i \in 1..Len(r) |-> r[i]]
        /\ Len(w) \in Nat /\ DOMAIN w = 1..Len(w) /\ w = [k \in 1..Len(w) |-> w[k]]
    BY <1>1, LenProperties DEF Typed
  <2>3. SkipStale(w, a, s) = w
    BY <2>1, <2>2 DEF SkipStale
  <2>4. Scan(r, w, a, s) = 0
    BY <1>1, <2>1, ScanFinds
  <2>5. Promote(t, a, s) = [resv |-> r, waits |-> w]
    BY <1>3, <2>3, <2>4 DEF Promote, r, w
  <2>6. PromoteFill(r, w, a, s) = [resv |-> r, waits |-> w]
    <3> DEFINE C == Chosen(r, w, a, s)
               rows == [i \in 1..(Len(r) + Cardinality(C)) |->
                          IF i <= Len(r) THEN r[i]
                          ELSE GrantedRow(w[Nth(w, a, C, i - Len(r) - 1)].user, s)]
               marks == [k \in 1..Len(w) |->
                           IF k \in C THEN Promoted(w[k], Len(r) + 1 + Rank(w, a, C, k))
                           ELSE IF k \in Stale(w, a, s)
                           THEN [w[k] EXCEPT !.status = "SKIPPED"]
                           ELSE w[k]]
    <3>1. PromoteFill(r, w, a, s) = [resv |-> rows, waits |-> marks]
      BY <1>3, Zenon DEF PromoteFill
    <3>2. C = {}
      BY <2>1 DEF Chosen
    <3>3. Cardinality(C) = 0
      BY <3>2, FS_EmptySet
    <3> HIDE DEF C
    <3>4. rows = r
      BY <2>2, <3>3
    <3>5. marks = w
      BY <2>1, <2>2, <3>2
    <3> QED
      BY <3>1, <3>4, <3>5
  <2> QED
    BY <1>1, <2>5, <2>6 DEF r, w
<1> QED
  BY <1>2, <1>3

\* A round leaves the outcome as it was and ends the promotion or shortens the queue.
LEMMA RoundTakesOne ==
  ASSUME NEW a, NEW s \in Slots, NEW t \in Rounds(a), ~Settled(t, a, s),
         NEW p, p = Promote(t, a, s)
  PROVE  /\ p \in Rounds(a)
         /\ PromoteFill(p.resv, p.waits, a, s) = PromoteFill(t.resv, t.waits, a, s)
         /\ \/ Settled(p, a, s)
            \/ Cardinality(Waiting(p.waits, s)) <= Cardinality(Waiting(t.waits, s)) - 1
<1> DEFINE r == t.resv
           w == t.waits
           v == SkipStale(w, a, s)
           j == Scan(r, v, a, s)
<1>1. Typed(r, w, a) /\ OneWait(w) /\ ~(Free(r, s) <= 0)
  BY DEF Rounds, Settled
<1>2. p = IF j = 0 THEN [resv |-> r, waits |-> v]
          ELSE [resv |-> SeatTo(r, v[j].user, s), waits |-> MarkAt(v, j, Len(r) + 1)]
  BY <1>1 DEF Promote, SeatTo, MarkAt
<1>3. r \in Seq(Reservation) /\ Free(r, s) > 0
  <2>1. r \in Seq(Reservation) /\ Free(r, s) \in Int
    BY <1>1, SeatedFinite, BoundsAssumption DEF Typed, Free
  <2> HIDE DEF r
  <2> QED
    BY <1>1, <2>1
<1> HIDE DEF r, w, v
<1>4. /\ Typed(r, v, a) /\ Stale(v, a, s) = {} /\ OneWait(v)
      /\ Waiting(v, s) = Waiting(w, s) \ Stale(w, a, s)
      /\ PromoteFill(r, v, a, s) = PromoteFill(r, w, a, s)
  <2>1. v = SkipStale(w, a, s)
    BY DEF v
  <2> QED
    BY <1>1, <1>3, <2>1, FillSkips
<1> HIDE DEF j
<1>5. CASE j = 0
  <2>1. Executable(r, v, a, s) = {}
    <3>1. \/ Executable(r, v, a, s) = {}
          \/ j \in Executable(r, v, a, s)
      BY <1>4, ScanFinds DEF j
    <3>2. \A k \in Executable(r, v, a, s) : k \in DOMAIN v
      BY DEF Executable, Waiting
    <3>3. 0 \notin DOMAIN v
      BY <1>4, LenProperties DEF Typed
    <3> QED
      BY <1>5, <3>1, <3>2, <3>3
  <2>2. p = [resv |-> r, waits |-> v]
    BY <1>2, <1>5
  <2>3. p \in Rounds(a)
    BY <1>4, <2>2 DEF Rounds, Typed
  <2>4. Settled(p, a, s)
    BY <1>4, <2>1, <2>2 DEF Settled
  <2> QED
    BY <1>4, <2>2, <2>3, <2>4 DEF r, w
<1>6. CASE j # 0
  <2>1. /\ j \in Executable(r, v, a, s)
        /\ \A k \in Executable(r, v, a, s) \ {j} : Ahead(v, a, j, k)
    BY <1>4, <1>6, ScanFinds DEF j
  <2> DEFINE q == SeatTo(r, v[j].user, s)
             x == MarkAt(v, j, Len(r) + 1)
  <2>2. p = [resv |-> q, waits |-> x]
    BY <1>2, <1>6
  <2>3. /\ Typed(q, x, a) /\ OneWait(x)
        /\ Waiting(x, s) = Waiting(v, s) \ {j} /\ j \in Waiting(v, s)
        /\ PromoteFill(q, x, a, s) = PromoteFill(r, v, a, s)
    BY <1>3, <1>4, <2>1, FillTakesFirst
  <2> HIDE DEF q, x
  <2>4. p \in Rounds(a)
    BY <2>2, <2>3 DEF Rounds, Typed
  <2>5. Cardinality(Waiting(x, s)) <= Cardinality(Waiting(w, s)) - 1
    <3>1. IsFiniteSet(Waiting(w, s)) /\ Cardinality(Waiting(w, s)) \in Nat
      BY <1>1, WaitingFinite DEF Typed
    <3>2. j \in Waiting(w, s) /\ Waiting(x, s) \subseteq Waiting(w, s) \ {j}
      BY <1>4, <2>3
    <3>3. /\ IsFiniteSet(Waiting(w, s) \ {j})
          /\ Cardinality(Waiting(w, s) \ {j}) = Cardinality(Waiting(w, s)) - 1
      BY <3>1, <3>2, FS_RemoveElement
    <3>4. Cardinality(Waiting(x, s)) <= Cardinality(Waiting(w, s) \ {j})
      BY <3>2, <3>3, FS_Subset
    <3> QED
      BY <3>3, <3>4
  <2> QED
    BY <1>4, <2>2, <2>3, <2>4, <2>5 DEF r, w
<1> QED
  BY <1>5, <1>6

\* PromoteFill is what the loop of promote_fill() computes.
LEMMA FillIsLoop ==
  ASSUME NEW r, NEW w, NEW a, NEW s \in Slots, Typed(r, w, a), OneWait(w)
  PROVE  PromoteFill(r, w, a, s) = Loop(r, w, a, s)
<1> DEFINE S == Rounds(a)
           x == [resv |-> r, waits |-> w]
           m == Cardinality(Waiting(w, s))
           rounds == m + 1
           F == [t \in S |-> Promote(t, a, s)]
           next(f, n) == IF n = 0 THEN x ELSE Promote(f[n - 1], a, s)
           f == CHOOSE g : g = [n \in 0..rounds |-> next(g, n)]
           PF(t) == PromoteFill(t.resv, t.waits, a, s)
           Left(t) == Cardinality(Waiting(t.waits, s))
<1>1. x \in S
  BY DEF Rounds, Typed
<1>2. m \in Nat /\ rounds \in Nat
  <2>1. m \in Nat
    BY WaitingFinite DEF Typed
  <2> QED
    BY <2>1
<1>3. Loop(r, w, a, s) = f[rounds]
  BY DEF Loop
<1>4. \A t \in S : /\ Promote(t, a, s) \in S
                   /\ PF(Promote(t, a, s)) = PF(t)
                   /\ Settled(t, a, s) => Promote(t, a, s) = t
                   /\ \/ Settled(Promote(t, a, s), a, s)
                      \/ Left(Promote(t, a, s)) <= Left(t) - 1
  <2> SUFFICES ASSUME NEW t \in S
               PROVE  /\ Promote(t, a, s) \in S
                      /\ PF(Promote(t, a, s)) = PF(t)
                      /\ Settled(t, a, s) => Promote(t, a, s) = t
                      /\ \/ Settled(Promote(t, a, s), a, s)
                         \/ Left(Promote(t, a, s)) <= Left(t) - 1
    OBVIOUS
  <2>1. CASE Settled(t, a, s)
    <3>1. Promote(t, a, s) = t
      BY <2>1, SettledStays
    <3> QED
      BY <2>1, <3>1
  <2>2. CASE ~Settled(t, a, s)
    BY <2>2, RoundTakesOne
  <2> QED
    BY <2>1, <2>2
<1>5. x.resv = r /\ x.waits = w
  OBVIOUS
<1>14. \A t \in S : Left(t) \in Nat
  BY WaitingFinite DEF Rounds
<1> HIDE DEF S, x
<1>6. \A t \in S : F[t] \in S
  BY <1>4
<1>7. \A t \in S : F[t] = Promote(t, a, s)
  OBVIOUS
<1> HIDE DEF F, m, rounds
<1>8. f = [n \in 0..rounds |-> next(f, n)]
  <2>1. PICK g : Path(g, F, x, rounds, S)
    BY <1>1, <1>2, <1>6, Iterated
  <2>2. ASSUME NEW n \in 0..rounds PROVE g[n] = next(g, n)
    <3>1. CASE n = 0
      BY <2>1, <3>1 DEF Path
    <3>2. CASE n # 0
      <4>1. n \in 1..rounds /\ n - 1 \in 0..rounds
        BY <1>2, <3>2
      <4>2. g[n] = Promote(g[n - 1], a, s)
        BY <1>7, <2>1, <4>1 DEF Path
      <4> QED
        BY <3>2, <4>2
    <3> QED
      BY <3>1, <3>2
  <2>3. g = [n \in 0..rounds |-> next(g, n)]
    BY <2>1, <2>2 DEF Path
  <2> QED
    BY <2>3
<1> HIDE DEF f, PF, Left
<1> DEFINE Good(n) == /\ f[n] \in S /\ PF(f[n]) = PF(x)
                      /\ Settled(f[n], a, s) \/ Left(f[n]) <= m - n
           T == {n \in 0..rounds : Good(n)}
<1>9. 0 \in T
  <2>1. f[0] = x /\ 0 \in 0..rounds
    BY <1>2, <1>8
  <2>2. Left(x) <= m - 0
    BY <1>2, <1>5 DEF Left, m
  <2> QED
    BY <1>1, <2>1, <2>2
<1>10. ASSUME NEW n \in 0..(rounds - 1), n \in T PROVE n + 1 \in T
  <2>1. n + 1 \in 0..rounds /\ n + 1 # 0 /\ (n + 1) - 1 = n
    BY <1>2
  <2>2. f[n + 1] = Promote(f[n], a, s)
    BY <1>8, <2>1
  <2>3. f[n] \in S /\ PF(f[n]) = PF(x) /\ (Settled(f[n], a, s) \/ Left(f[n]) <= m - n)
    BY <1>10
  <2>4. f[n + 1] \in S /\ PF(f[n + 1]) = PF(x)
    BY <1>4, <2>2, <2>3
  <2>5. Settled(f[n + 1], a, s) \/ Left(f[n + 1]) <= m - (n + 1)
    <3>1. CASE Settled(f[n], a, s)
      BY <1>4, <2>2, <2>3, <3>1
    <3>2. CASE ~Settled(f[n], a, s)
      <4>1. Left(f[n]) <= m - n /\ Left(f[n]) \in Int
        BY <1>14, <2>3, <3>2
      <4>2. Settled(f[n + 1], a, s) \/ Left(f[n + 1]) <= Left(f[n]) - 1
        BY <1>4, <2>2, <2>3
      <4> QED
        <5>1. n \in Int /\ m \in Int /\ Left(f[n + 1]) \in Int
          BY <1>2, <1>14, <2>4
        <5> QED
          BY <4>1, <4>2, <5>1
    <3> QED
      BY <3>1, <3>2
  <2> QED
    BY <2>1, <2>4, <2>5
<1>11. Good(rounds)
  <2> HIDE DEF T
  <2>1. rounds \in T
    BY <1>2, <1>9, <1>10, UpTo
  <2> QED
    BY <2>1 DEF T
<1>12. Settled(f[rounds], a, s)
  <2>1. Left(f[rounds]) \in Nat
    BY <1>11, <1>14
  <2> QED
    BY <1>2, <1>11, <2>1 DEF rounds
<1>13. PF(f[rounds]) = f[rounds]
  BY <1>11, <1>12, SettledStays DEF PF, S
<1> QED
  BY <1>3, <1>5, <1>11, <1>13 DEF PF
=============================================================================
