-------------------------- MODULE AssetsProofs --------------------------
(***************************************************************************)
(* Reservations with claims keep what is proved of the reservations alone, *)
(* and the claims and the maintenance orders keep their own rules.         *)
(*                                                                         *)
(* Every request of Assets that touches the reservations is a request of   *)
(* Booking with a further test, except one: a reservation whose claim is   *)
(* refused after it evicted somebody or promoted waiters.  MaintenanceHolds *)
(* needs to know what a worker that is about to write has read: Watched    *)
(* says what is still true of it as long as no other request disturbed the *)
(* asset.                                                                  *)
(***************************************************************************)
EXTENDS Assets, QueueProofs

Base == TypeOK /\ SeatsWithinCapacity /\ AttInv

Desk == [pc: {"idle", "open", "close"}, asset: SUBSET DOMAIN assets, order: Nat]

Order == [asset: DOMAIN assets, open: BOOLEAN]

Equipment ==
  /\ DOMAIN assets \subseteq Assets
  /\ \A a \in DOMAIN assets :
       assets[a] \in [total: 1..MaxTotal, status: Condition, qualified: BOOLEAN]
  /\ orders \in Seq(Order)
  /\ desks \in [Desks -> Desk]
  /\ disturbed \subseteq Assets

Schema ==
  /\ windows \in [Assets -> Seq(Windows)]
  /\ quals \subseteq [user: Users, asset: DOMAIN assets, expires: Expiries]
  /\ \A p, q \in quals : p.user = q.user /\ p.asset = q.asset => p = q
  /\ \A d \in Desks :
       desks[d].pc = "close" => /\ desks[d].order \in DOMAIN orders
                               /\ desks[d].asset = {orders[desks[d].order].asset}

Claimed == claims \subseteq [resv: DOMAIN resv, asset: DOMAIN assets]

\* What the requests at a desk have read of asset a is still so.
Quiet(a) ==
  /\ \A d, e \in AtDesk(a) : d = e
  /\ \A j, k \in OpenOrders(orders, a) : j = k
  /\ OpenOrders(orders, a) # {} => assets[a].status # "AVAILABLE"
  /\ \A d \in AtDesk(a) :
       /\ desks[d].pc = "open" => OpenOrders(orders, a) = {}
       /\ desks[d].pc = "close" => OpenOrders(orders, a) \subseteq {desks[d].order}

Watched == \A a \in DOMAIN assets \ disturbed : Quiet(a)

AInv ==
  /\ Base
  /\ Equipment
  /\ Schema
  /\ Claimed
  /\ ClaimsInLab
  /\ Watched
-----------------------------------------------------------------------------
(***************************************************************************)
(* The reservations.                                                       *)
(***************************************************************************)

\* A request of Booking keeps its invariant, and moves no row to another
\* laboratory.
LEMMA BookingKeeps ==
  Base /\ [Next]_vars => Base' /\ Grown(resv, resv')
BY NextSound, SoundSafe, AttKeeps, NextStep DEF Base, Step, Sound

\* So does the reservation whose claim was refused.
LEMMA TurnedAwayKeeps ==
  ASSUME Base, NEW u \in Users, NEW s \in Slots, NEW C \in SUBSET Assets, TurnedAway(u, s, C)
  PROVE  Base' /\ Grown(resv, resv')
<1> DEFINE a == WeeklyTopup(accounts, u)
<1>1. a \in [Users -> Account]
  BY CreditType DEF Base, TypeOK
<1>2. PICK r, b : /\ CommitFill(PromoteFill(r, waits, b, s), b)
                  /\ Good(r, waits, b) /\ Grown(resv, r)
  <2>1. CASE CommitFill(PromoteFill(resv, waits, a, s), a)
    <3>1. Good(resv, waits, a)
      BY <1>1, GoodNow, GoodAccounts DEF Base
    <3> QED
      BY <2>1, <3>1, GrownSame
  <2>2. ASSUME NEW v \in Victim(u, s),
               LET r == Evict(resv, v)
                   b == CreditApply(a, resv[v].user, 1)
               IN CommitFill(PromoteFill(r, waits, b, s), b)
        PROVE  \E r, b : /\ CommitFill(PromoteFill(r, waits, b, s), b)
                         /\ Good(r, waits, b) /\ Grown(resv, r)
    <3> DEFINE r == Evict(resv, v)
               b == CreditApply(a, resv[v].user, 1)
    <3>1. v \in DOMAIN resv /\ ~resv[v].checkedIn /\ Live(resv[v])
      BY DEF Victim, Evictable, Seated
    <3>2. Grown(resv, r)
      BY <3>1, LeaveGrows DEF Base, AttInv, Ended, Live
    <3>3. b \in [Users -> Account]
      BY <1>1, <3>1, ResvRow, CreditType DEF Base
    <3>4. Good(r, waits, accounts)
      BY <3>1, LeaveGood DEF Reasons, Base
    <3>5. Good(r, waits, b)
      BY <3>3, <3>4, GoodAccounts
    <3>6. CommitFill(PromoteFill(r, waits, b, s), b)
      BY <2>2
    <3> HIDE DEF r, b
    <3> QED
      BY <3>2, <3>5, <3>6
  <2> QED
    BY <2>1, <2>2 DEF TurnedAway
<1>3. TypeOK' /\ SeatsWithinCapacity'
  <2>1. Sound
    BY <1>2, FillKeeps DEF Base
  <2> QED
    BY <2>1, SoundSafe DEF Base, Sound
<1>4. Grown(resv, resv')
  BY <1>2, FillStep DEF Good, Step
<1>5. now' = now
  BY <1>2 DEF CommitFill, Commit
<1>6. AttInv'
  BY <1>4, <1>5 DEF Base, AttInv, Grown, Succeeds, Attended, Started
<1> QED
  BY <1>3, <1>4, <1>6 DEF Base

\* The rows that a reservation adds, its own and the promoted ones, are of the
\* slot it is for.
LEMMA AdmitSlot ==
  ASSUME NEW u \in Users, NEW s \in Slots, NEW r, NEW a, Good(r, waits, a),
         DOMAIN r = DOMAIN resv, Admit(u, s, r, a)
  PROVE  \A i \in DOMAIN resv' \ DOMAIN resv : resv'[i].slot = s
<1> DEFINE t == PromoteFill(r, waits, a, s)
           status == IF labs[LabOf[s]].approval THEN "PENDING" ELSE "CONFIRMED"
           row == DirectRow(u, s, status)
<1>1. Extends(t, r, waits, s) /\ r \in Seq(Reservation)
  BY FillType DEF Good, Typed
<1>2. /\ t.resv \in Seq(Reservation) /\ DOMAIN r = 1..Len(r)
      /\ DOMAIN t.resv = 1..Len(t.resv) /\ Len(t.resv) \in Nat /\ Len(r) \in Nat
      /\ \A i \in 1..Len(t.resv) : i > Len(r) => t.resv[i].slot = s
  BY <1>1, LenProperties DEF Extends
<1>3. row \in Reservation /\ row.slot = s
  BY DirectType DEF ResvStatus
<1>4. resv' = t.resv \/ resv' = Append(t.resv, row)
  BY DEF Admit, CommitFill, Commit
<1> HIDE DEF t, row
<1>5. /\ DOMAIN Append(t.resv, row) = 1..(Len(t.resv) + 1)
      /\ \A i \in 1..Len(t.resv) : Append(t.resv, row)[i] = t.resv[i]
      /\ Append(t.resv, row)[Len(t.resv) + 1] = row
  BY <1>2, <1>3, AppendProperties
<1>6. \A i \in 1..Len(t.resv) : i \notin 1..Len(r) => i > Len(r)
  BY <1>2
<1>7. CASE resv' = t.resv
  BY <1>2, <1>6, <1>7
<1>8. CASE resv' = Append(t.resv, row)
  <2>1. \A i \in 1..(Len(t.resv) + 1) : i \in 1..Len(t.resv) \/ i = Len(t.resv) + 1
    BY <1>2
  <2> QED
    BY <1>2, <1>3, <1>5, <1>6, <1>8, <2>1
<1> QED
  BY <1>4, <1>7, <1>8

\* The rows a reservation adds, its own and the promoted ones, are of its slot.
LEMMA ReserveSlot ==
  ASSUME Base, NEW u \in Users, NEW s \in Slots, Reserve(u, s)
  PROVE  \A i \in DOMAIN resv' \ DOMAIN resv : resv'[i].slot = s
<1> DEFINE a == WeeklyTopup(accounts, u)
<1>1. a \in [Users -> Account]
  BY CreditType DEF Base, TypeOK
<1>2. CASE Commit(resv, waits, a)
  BY <1>2 DEF Commit
<1>3. CASE Admit(u, s, resv, a)
  BY <1>1, <1>3, GoodNow, GoodAccounts, AdmitSlot DEF Base
<1>4. ASSUME NEW v \in Victim(u, s), TakeOver(u, s, v, a)
      PROVE  \A i \in DOMAIN resv' \ DOMAIN resv : resv'[i].slot = s
  <2> DEFINE r == Evict(resv, v)
             b == CreditApply(a, resv[v].user, 1)
  <2>1. v \in DOMAIN resv
    BY DEF Victim, Evictable, Seated
  <2>2. b \in [Users -> Account]
    BY <1>1, <2>1, ResvRow, CreditType DEF Base
  <2>3. Good(r, waits, b)
    BY <2>1, <2>2, LeaveGood, GoodAccounts DEF Reasons, Base
  <2>4. DOMAIN r = DOMAIN resv
    BY DEF Evict
  <2>5. Commit(r, waits, b) \/ Admit(u, s, r, b)
    BY <1>4 DEF TakeOver
  <2> HIDE DEF r, b
  <2> QED
    BY <2>3, <2>4, <2>5, AdmitSlot DEF Commit
<1> QED
  BY <1>2, <1>3, <1>4 DEF Reserve

\* The requests of Assets on the reservations: how they change the rows, and
\* which claims they add.
BookingAction ==
  \/ \E u \in Users, s \in Slots, C \in SUBSET Assets :
       ReserveClaiming(u, s, C) \/ TurnedAway(u, s, C)
  \/ \E i \in DOMAIN resv, t \in Slots : RescheduleClaiming(i, t)
  \/ \E i \in DOMAIN resv : ApproveClaiming(i)
  \/ Unclaiming

\* A request on the reservations: what it keeps, and the claims it adds.
LEMMA BookingActionKeeps ==
  ASSUME AInv, BookingAction
  PROVE  /\ Base' /\ Grown(resv, resv')
         /\ \A c \in claims' \ claims :
              /\ c \in [resv: DOMAIN resv', asset: DOMAIN assets]
              /\ AssetLab[c.asset] = LabOf[resv'[c.resv].slot]
         /\ UNCHANGED <<equipment, maintenance, edits>>
<1>1. CASE UNCHANGED assetVars /\ [Next]_vars
  BY <1>1, BookingKeeps DEF AInv, assetVars, equipment, maintenance
<1>2. ASSUME NEW u \in Users, NEW s \in Slots, NEW C \in SUBSET Assets, ReserveClaiming(u, s, C)
      PROVE  /\ Base' /\ Grown(resv, resv')
             /\ \A c \in claims' \ claims :
                  /\ c \in [resv: DOMAIN resv', asset: DOMAIN assets]
                  /\ AssetLab[c.asset] = LabOf[resv'[c.resv].slot]
             /\ UNCHANGED <<equipment, maintenance, edits>>
  <2>1. Reserve(u, s) /\ UNCHANGED <<equipment, maintenance, edits>>
    BY <1>2 DEF ReserveClaiming
  <2>2. Base' /\ Grown(resv, resv')
    BY <2>1, BookingKeeps DEF AInv, Next, UserRequest
  <2>3. \A i \in Booked : resv'[i].slot = s
    BY <2>1, ReserveSlot DEF Booked, AInv
  <2>4. claims' \ claims \subseteq [resv: Booked, asset: C]
    BY <1>2 DEF ReserveClaiming
  <2>5. ASSUME NEW c \in claims' \ claims
        PROVE  /\ c \in [resv: DOMAIN resv', asset: DOMAIN assets]
               /\ AssetLab[c.asset] = LabOf[resv'[c.resv].slot]
    <3>1. c \in [resv: Booked, asset: C] /\ c.resv \in Booked /\ c.asset \in C
      BY <2>4
    <3>2. ClaimOk(resv', u, s, c.asset)
      BY <1>2, <3>1 DEF ReserveClaiming
    <3>3. c.asset \in DOMAIN assets /\ AssetLab[c.asset] = LabOf[s]
      BY <3>2 DEF ClaimOk, Available
    <3>4. c.resv \in DOMAIN resv'
      BY <3>1 DEF Booked
    <3> QED
      BY <2>3, <3>1, <3>3, <3>4
  <2> QED
    BY <2>1, <2>2, <2>5
<1>3. ASSUME NEW u \in Users, NEW s \in Slots, NEW C \in SUBSET Assets, TurnedAway(u, s, C)
      PROVE  Base' /\ Grown(resv, resv') /\ UNCHANGED assetVars
  <2>1. UNCHANGED assetVars
    BY <1>3 DEF TurnedAway
  <2> QED
    BY <1>3, <2>1, TurnedAwayKeeps DEF AInv
<1>4. CASE \E i \in DOMAIN resv, t \in Slots : RescheduleClaiming(i, t)
  BY <1>1, <1>4 DEF RescheduleClaiming, Next, UserRequest
<1>5. CASE \E i \in DOMAIN resv : ApproveClaiming(i)
  BY <1>1, <1>5 DEF ApproveClaiming, Next, AdminRequest
<1>6. CASE Unclaiming
  BY <1>1, <1>6 DEF Unclaiming, Next, UserRequest, AdminRequest
<1> QED
  BY <1>2, <1>3, <1>4, <1>5, <1>6 DEF BookingAction, assetVars, equipment, maintenance

\* A row keeps its laboratory, so its claims stay claims of that laboratory.
LEMMA ClaimsKeep ==
  ASSUME AInv, Grown(resv, resv'), DOMAIN assets \subseteq DOMAIN assets',
         \A c \in claims' \ claims :
           /\ c \in [resv: DOMAIN resv', asset: DOMAIN assets]
           /\ AssetLab[c.asset] = LabOf[resv'[c.resv].slot]
  PROVE  Claimed' /\ ClaimsInLab'
<1>1. ASSUME NEW c \in claims'
      PROVE  /\ c \in [resv: DOMAIN resv', asset: DOMAIN assets']
             /\ AssetLab[c.asset] = LabOf[resv'[c.resv].slot]
  <2>1. CASE c \in claims
    <3>1. c \in [resv: DOMAIN resv, asset: DOMAIN assets]
      BY <2>1 DEF AInv, Claimed
    <3>2. AssetLab[c.asset] = LabOf[resv[c.resv].slot]
      BY <2>1 DEF AInv, ClaimsInLab
    <3>3. /\ DOMAIN resv \subseteq DOMAIN resv'
          /\ LabOf[resv'[c.resv].slot] = LabOf[resv[c.resv].slot]
      BY <3>1 DEF Grown, Succeeds
    <3> QED
      BY <3>1, <3>2, <3>3
  <2> QED
    BY <2>1
<1> QED
  BY <1>1 DEF Claimed, ClaimsInLab

\* Such a request keeps the invariant.
LEMMA BookingActionInv == AInv /\ BookingAction => AInv'
<1> SUFFICES ASSUME AInv, BookingAction PROVE AInv'
  OBVIOUS
<1>1. /\ Base' /\ Grown(resv, resv')
      /\ assets' = assets /\ orders' = orders /\ desks' = desks /\ disturbed' = disturbed
  BY BookingActionKeeps DEF equipment, maintenance
<1>2. Claimed' /\ ClaimsInLab'
  BY <1>1, BookingActionKeeps, ClaimsKeep
<1>3. Equipment' /\ Schema' /\ Watched'
  <2>1. windows' = windows /\ quals' = quals
    BY BookingActionKeeps DEF equipment
  <2> QED
    BY <1>1, <2>1 DEF AInv, Equipment, Schema, Desk, Order, Watched, Quiet, AtDesk, OpenOrders
<1> QED
  BY <1>1, <1>2, <1>3 DEF AInv
-----------------------------------------------------------------------------
(***************************************************************************)
(* Equipment and maintenance.                                              *)
(***************************************************************************)

\* These requests leave the reservations and their claims alone.
LEMMA ElsewhereKeeps ==
  ASSUME AInv, UNCHANGED <<vars, claims>>, DOMAIN assets \subseteq DOMAIN assets'
  PROVE  Base' /\ Claimed' /\ ClaimsInLab'
<1>1. Base' /\ Grown(resv, resv')
  BY BookingKeeps DEF AInv
<1> QED
  BY <1>1, ClaimsKeep

\* An asset whose orders and desks stay as they are stays quiet.
LEMMA QuietSame ==
  ASSUME NEW a \in DOMAIN assets, Quiet(a),
         orders' = orders, desks' = desks, assets'[a].status = assets[a].status
  PROVE  Quiet(a)'
BY DEF Quiet, AtDesk, OpenOrders

\* An order and a desk are of assets that exist.
LEMMA OrderType ==
  ASSUME Equipment
  PROVE  /\ DOMAIN orders = 1..Len(orders) /\ Len(orders) \in Nat
         /\ \A k \in DOMAIN orders : orders[k] \in Order
         /\ \A a : a \notin DOMAIN assets => AtDesk(a) = {} /\ OpenOrders(orders, a) = {}
<1>1. orders \in Seq(Order) /\ desks \in [Desks -> Desk]
  BY DEF Equipment
<1>2. DOMAIN orders = 1..Len(orders) /\ Len(orders) \in Nat
  BY <1>1, LenProperties
<1>3. \A k \in DOMAIN orders : orders[k] \in Order
  BY <1>1, <1>2, ElementOfSeq
<1>4. \A d \in Desks : desks[d].asset \subseteq DOMAIN assets
  BY <1>1 DEF Desk
<1> QED
  BY <1>2, <1>3, <1>4 DEF AtDesk, OpenOrders, Order

\* asset_admin, asset_window_admin, asset_qual_admin
EditAction ==
  \/ \E a \in Assets, n \in 1..MaxTotal, c \in Condition : AssetCreate(a, n, c)
  \/ \E a \in DOMAIN assets :
       \/ \E n \in 1..MaxTotal, c \in Condition : AssetUpdate(a, n, c)
       \/ \E w \in Windows : WindowAdd(a, w)
       \/ \E k \in DOMAIN windows[a] : WindowDelete(a, k)
       \/ \E u \in Users, e \in Expiries : QualGrant(u, a, e)
       \/ \E on \in BOOLEAN : QualRequire(a, on)
  \/ \E q \in quals : QualRevoke(q)

\* An edit changes the row of one asset, or adds one; a status that is written
\* over an open order is marked.
Edited ==
  /\ UNCHANGED <<vars, claims, orders, desks>>
  /\ DOMAIN assets \subseteq DOMAIN assets' /\ DOMAIN assets' \subseteq Assets
  /\ \A a \in DOMAIN assets' :
       assets'[a] \in [total: 1..MaxTotal, status: Condition, qualified: BOOLEAN]
  /\ disturbed \subseteq disturbed' /\ disturbed' \subseteq Assets
  /\ \A a \in DOMAIN assets :
       \/ assets'[a].status = assets[a].status
       \/ a \in disturbed' \/ OpenOrders(orders, a) = {}

\* What an edit of an asset, a window or a qualification changes.
LEMMA EditEffect == AInv /\ EditAction => Edited
<1> SUFFICES ASSUME AInv, EditAction PROVE Edited
  OBVIOUS
<1>1. /\ DOMAIN assets \subseteq Assets /\ disturbed \subseteq Assets
      /\ \A a \in DOMAIN assets :
           assets[a] \in [total: 1..MaxTotal, status: Condition, qualified: BOOLEAN]
  BY DEF AInv, Equipment
<1>2. UNCHANGED <<vars, claims, orders, desks>>
  BY DEF EditAction, Edit, AssetCreate, AssetUpdate, WindowAdd, WindowDelete, QualGrant,
         QualRequire, QualRevoke
<1>3. CASE assets' = assets /\ disturbed' = disturbed
  BY <1>1, <1>2, <1>3 DEF Edited
<1>4. ASSUME NEW a \in Assets, NEW n \in 1..MaxTotal, NEW c \in Condition, AssetCreate(a, n, c)
      PROVE  /\ DOMAIN assets' = DOMAIN assets \cup {a} /\ disturbed' = disturbed
             /\ \A b \in DOMAIN assets : assets'[b] = assets[b]
             /\ assets'[a] \in [total: 1..MaxTotal, status: Condition, qualified: BOOLEAN]
  BY <1>4 DEF AssetCreate
<1>5. ASSUME NEW a \in DOMAIN assets, NEW n \in 1..MaxTotal, NEW c \in Condition,
             AssetUpdate(a, n, c)
      PROVE  /\ DOMAIN assets' = DOMAIN assets
             /\ disturbed \subseteq disturbed' /\ disturbed' \subseteq disturbed \cup {a}
             /\ OpenOrders(orders, a) # {} => a \in disturbed'
             /\ \A b \in DOMAIN assets : b # a => assets'[b] = assets[b]
             /\ assets'[a] \in [total: 1..MaxTotal, status: Condition, qualified: BOOLEAN]
  BY <1>1, <1>5 DEF AssetUpdate
<1>6. ASSUME NEW a \in DOMAIN assets, NEW on \in BOOLEAN, QualRequire(a, on)
      PROVE  /\ DOMAIN assets' = DOMAIN assets /\ disturbed' = disturbed
             /\ \A b \in DOMAIN assets : b # a => assets'[b] = assets[b]
             /\ assets'[a].status = assets[a].status
             /\ assets'[a] \in [total: 1..MaxTotal, status: Condition, qualified: BOOLEAN]
  BY <1>1, <1>6 DEF QualRequire
<1>7. CASE \E a \in Assets, n \in 1..MaxTotal, c \in Condition : AssetCreate(a, n, c)
  <2>1. PICK a \in Assets, n \in 1..MaxTotal, c \in Condition : AssetCreate(a, n, c)
    BY <1>7
  <2> QED
    BY <1>1, <1>2, <1>4, <2>1 DEF Edited
<1>8. CASE \E a \in DOMAIN assets, n \in 1..MaxTotal, c \in Condition : AssetUpdate(a, n, c)
  BY <1>1, <1>2, <1>5, <1>8 DEF Edited
<1>9. CASE \E a \in DOMAIN assets, on \in BOOLEAN : QualRequire(a, on)
  BY <1>1, <1>2, <1>6, <1>9 DEF Edited
<1>10. CASE \/ \E a \in DOMAIN assets, w \in Windows : WindowAdd(a, w)
            \/ \E a \in DOMAIN assets : \E k \in DOMAIN windows[a] : WindowDelete(a, k)
            \/ \E a \in DOMAIN assets, u \in Users, e \in Expiries : QualGrant(u, a, e)
            \/ \E q \in quals : QualRevoke(q)
  BY <1>3, <1>10 DEF WindowAdd, WindowDelete, QualGrant, QualRevoke
<1> QED
  BY <1>7, <1>8, <1>9, <1>10 DEF EditAction

\* Windows stay lists of windows, and a user has one qualification for an asset.
LEMMA EditSchema ==
  ASSUME AInv, EditAction
  PROVE  Schema'
<1>1. /\ orders' = orders /\ desks' = desks /\ DOMAIN assets \subseteq DOMAIN assets'
      /\ Schema /\ DOMAIN assets \subseteq Assets
  BY EditEffect DEF Edited, AInv, Equipment
<1>2. CASE windows' = windows /\ quals' \subseteq quals
  BY <1>1, <1>2 DEF Schema
<1>3. ASSUME NEW a \in DOMAIN assets, NEW w \in Windows, WindowAdd(a, w) PROVE Schema'
  <2>1. quals' = quals /\ windows' = [windows EXCEPT ![a] = Append(@, w)] /\ a \in Assets
    BY <1>1, <1>3 DEF WindowAdd
  <2>2. Append(windows[a], w) \in Seq(Windows)
    BY <1>1, <2>1, AppendProperties DEF Schema
  <2> QED
    BY <1>1, <2>1, <2>2 DEF Schema
<1>4. ASSUME NEW a \in DOMAIN assets, NEW k \in DOMAIN windows[a], WindowDelete(a, k) PROVE Schema'
  <2> DEFINE new == SubSeq(windows[a], 1, k - 1) \o SubSeq(windows[a], k + 1, Len(windows[a]))
  <2>1. quals' = quals /\ windows' = [windows EXCEPT ![a] = new] /\ a \in Assets
    BY <1>1, <1>4 DEF WindowDelete
  <2>2. windows[a] \in Seq(Windows) /\ k \in 1..Len(windows[a]) /\ Len(windows[a]) \in Nat
    BY <1>1, <2>1, LenProperties DEF Schema
  <2>3. new \in Seq(Windows)
    <3>1. SubSeq(windows[a], 1, k - 1) \in Seq(Windows)
      BY <2>2, SubSeqProperties
    <3>2. SubSeq(windows[a], k + 1, Len(windows[a])) \in Seq(Windows)
      BY <2>2, SubSeqProperties
    <3> QED
      BY <3>1, <3>2, ConcatProperties
  <2> HIDE DEF new
  <2> QED
    BY <1>1, <2>1, <2>3 DEF Schema
<1>5. ASSUME NEW a \in DOMAIN assets, NEW u \in Users, NEW e \in Expiries, QualGrant(u, a, e)
      PROVE  Schema'
  BY <1>1, <1>5 DEF QualGrant, Schema
<1> QED
  BY <1>2, <1>3, <1>4, <1>5
     DEF EditAction, AssetCreate, AssetUpdate, QualRequire, QualRevoke

\* Such an edit keeps the invariant.
LEMMA EditInv == AInv /\ EditAction => AInv'
<1> SUFFICES ASSUME AInv, EditAction PROVE AInv'
  OBVIOUS
<1>1. /\ UNCHANGED <<vars, claims, orders, desks>>
      /\ DOMAIN assets \subseteq DOMAIN assets' /\ DOMAIN assets' \subseteq Assets
  BY EditEffect DEF Edited
<1>2. Base' /\ Claimed' /\ ClaimsInLab'
  BY <1>1, ElsewhereKeeps
<1>3. Equipment'
  <2>1. orders' \in Seq(Order')
    <3>1. Order \subseteq Order' /\ orders \in Seq(Order)
      BY <1>1 DEF Order, AInv, Equipment
    <3>2. orders \in Seq(Order')
      BY <3>1, SeqDef, LenProperties, ElementOfSeq
    <3> QED
      BY <1>1, <3>2
  <2>2. desks' \in [Desks -> Desk']
    BY <1>1 DEF AInv, Equipment, Desk
  <2> QED
    BY <1>1, <2>1, <2>2, EditEffect DEF Equipment, Edited
<1>4. Schema'
  BY <1>1, EditSchema DEF AInv
<1>5. ASSUME NEW a \in DOMAIN assets' \ disturbed' PROVE Quiet(a)'
  <2>1. orders' = orders /\ desks' = desks
    BY <1>1
  <2>2. CASE a \in DOMAIN assets
    <3>1. Quiet(a)
      BY <2>2, EditEffect DEF Edited, AInv, Watched
    <3>2. assets'[a].status = assets[a].status \/ OpenOrders(orders, a) = {}
      BY <2>2, EditEffect DEF Edited
    <3> QED
      BY <2>1, <3>1, <3>2 DEF Quiet, AtDesk, OpenOrders
  <2>3. CASE a \notin DOMAIN assets
    <3>1. AtDesk(a) = {} /\ OpenOrders(orders, a) = {}
      BY <2>3, OrderType DEF AInv
    <3> QED
      BY <2>1, <3>1 DEF Quiet, AtDesk, OpenOrders
  <2> QED
    BY <2>2, <2>3
<1> QED
  BY <1>2, <1>3, <1>4, <1>5 DEF AInv, Watched

\* A worker that is served by the next request of asset_maintenance_admin.
DeskAction ==
  \E a \in DOMAIN assets, d \in Desks :
     LookToOpen(d, a) \/ LookToClose(d, a) \/ OpenOrder(d, a) \/ CloseOrder(d, a)

\* A worker has read the open orders of an asset.
LEMMA LookInv ==
  ASSUME AInv, NEW a \in DOMAIN assets, NEW d \in Desks, LookToOpen(d, a) \/ LookToClose(d, a)
  PROVE  AInv'
<1>1. PICK op \in {"open", "close"}, k \in Nat :
         /\ Look(d, a, op, k)
         /\ op = "open" => OpenOrders(orders, a) = {}
         /\ op = "close" => k \in OpenOrders(orders, a)
  <2>1. CASE LookToOpen(d, a)
    BY <2>1 DEF LookToOpen
  <2>2. CASE LookToClose(d, a)
    <3>1. OpenOrders(orders, a) \subseteq Nat
      BY OrderType DEF AInv, OpenOrders
    <3> QED
      BY <2>2, <3>1 DEF LookToClose
  <2> QED
    BY <2>1, <2>2
<1>2. /\ UNCHANGED <<vars, claims, orders, assets, windows, quals>>
      /\ desks[d] = IdleDesk
      /\ desks' = [desks EXCEPT ![d] = [pc |-> op, asset |-> {a}, order |-> k]]
      /\ disturbed' = IF AtDesk(a) = {} THEN disturbed ELSE disturbed \cup {a}
  BY <1>1 DEF Look, equipment
<1>3. /\ DOMAIN assets \subseteq Assets /\ desks \in [Desks -> Desk] /\ disturbed \subseteq Assets
      /\ a \in Assets
  BY DEF AInv, Equipment
<1>4. Base' /\ Claimed' /\ ClaimsInLab'
  BY <1>2, ElsewhereKeeps
<1>5. Equipment'
  <2>1. [pc |-> op, asset |-> {a}, order |-> k] \in Desk
    BY DEF Desk
  <2> QED
    BY <1>2, <1>3, <2>1 DEF AInv, Equipment, Desk, Order
<1>6. Schema'
  BY <1>1, <1>2, <1>3 DEF AInv, Schema, OpenOrders
<1>7. ASSUME NEW b \in DOMAIN assets \ disturbed' PROVE Quiet(b)'
  <2>1. Quiet(b) /\ assets' = assets /\ orders' = orders
    BY <1>2 DEF AInv, Watched
  <2>2. CASE b # a
    <3>1. \A e \in AtDesk(b)' : e \in AtDesk(b) /\ desks'[e] = desks[e]
      BY <1>2, <1>3, <2>2 DEF AtDesk
    <3> QED
      BY <2>1, <3>1 DEF Quiet, OpenOrders
  <2>3. CASE b = a
    <3>1. AtDesk(b) = {}
      BY <1>2, <2>3
    <3>2. /\ \A e \in AtDesk(b)' : e = d
          /\ desks'[d].pc = op /\ desks'[d].order = k
      BY <1>2, <1>3, <3>1 DEF AtDesk
    <3> QED
      BY <1>1, <2>1, <2>3, <3>2 DEF Quiet, OpenOrders
  <2> QED
    BY <2>2, <2>3
<1> QED
  BY <1>2, <1>4, <1>5, <1>6, <1>7 DEF AInv, Watched

\* A worker writes what it decided: the order is opened or closed, and its desk
\* is free.
LEMMA DoneInv ==
  ASSUME AInv, NEW a \in DOMAIN assets, NEW d \in AtDesk(a),
         NEW rows \in Seq(Order), NEW status \in Condition, Done(d, a, rows, status),
         DOMAIN orders \subseteq DOMAIN rows,
         \A k \in DOMAIN orders : rows[k].asset = orders[k].asset,
         \A b \in DOMAIN assets : b # a => OpenOrders(rows, b) = OpenOrders(orders, b),
         a \notin disturbed =>
            /\ \A j, k \in OpenOrders(rows, a) : j = k
            /\ OpenOrders(rows, a) # {} => status # "AVAILABLE"
  PROVE  AInv'
<1>1. /\ UNCHANGED <<vars, windows, quals, claims>>
      /\ orders' = rows /\ assets' = [assets EXCEPT ![a].status = status]
      /\ desks' = [desks EXCEPT ![d] = IdleDesk]
      /\ disturbed' = IF OpenOrders(rows, a) = {} /\ AtDesk(a) = {d}
                      THEN disturbed \ {a} ELSE disturbed
  BY DEF Done
<1>2. /\ desks \in [Desks -> Desk] /\ d \in Desks /\ DOMAIN assets' = DOMAIN assets
      /\ disturbed \subseteq Assets
      /\ \A b \in DOMAIN assets :
           assets[b] \in [total: 1..MaxTotal, status: Condition, qualified: BOOLEAN]
  BY <1>1 DEF AInv, Equipment, AtDesk
<1>3. Base' /\ Claimed' /\ ClaimsInLab'
  BY <1>1, <1>2, ElsewhereKeeps
<1>4. Equipment'
  <2>1. IdleDesk \in Desk
    BY DEF IdleDesk, Desk
  <2>2. Desk' = Desk /\ Order' = Order
    BY <1>2 DEF Desk, Order
  <2>3. desks' \in [Desks -> Desk]
    BY <1>1, <1>2, <2>1
  <2>4. \A b \in DOMAIN assets :
          assets'[b] \in [total: 1..MaxTotal, status: Condition, qualified: BOOLEAN]
    BY <1>1, <1>2
  <2> QED
    BY <1>1, <1>2, <2>2, <2>3, <2>4 DEF AInv, Equipment
<1>5. Schema'
  BY <1>1, <1>2 DEF AInv, Schema, IdleDesk
<1>6. \A b, e : e \in AtDesk(b)' => e \in AtDesk(b) /\ e # d /\ desks'[e] = desks[e]
  BY <1>1, <1>2 DEF AtDesk, IdleDesk
<1>7. ASSUME NEW b \in DOMAIN assets \ disturbed' PROVE Quiet(b)'
  <2>1. CASE b # a
    <3>1. Quiet(b) /\ assets'[b] = assets[b]
      BY <1>1, <2>1 DEF AInv, Watched
    <3>2. OpenOrders(orders, b)' = OpenOrders(orders, b)
      BY <1>1, <2>1 DEF OpenOrders
    <3> QED
      BY <1>6, <3>1, <3>2 DEF Quiet
  <2>2. CASE b = a /\ a \in disturbed
    <3>1. OpenOrders(rows, a) = {} /\ AtDesk(a) = {d}
      BY <1>1, <2>2
    <3>2. OpenOrders(orders, a)' = {} /\ AtDesk(a)' = {}
      BY <1>1, <1>6, <3>1 DEF OpenOrders
    <3> QED
      BY <2>2, <3>2 DEF Quiet
  <2>3. CASE b = a /\ a \notin disturbed
    <3>1. \A e \in AtDesk(a) : e = d
      BY <2>3 DEF AInv, Watched, Quiet
    <3>2. AtDesk(a)' = {}
      BY <1>6, <3>1
    <3>3. OpenOrders(orders, a)' = OpenOrders(rows, a) /\ assets'[a].status = status
      BY <1>1, <1>2 DEF OpenOrders
    <3> QED
      BY <2>3, <3>2, <3>3 DEF Quiet
  <2> QED
    BY <2>1, <2>2, <2>3
<1> QED
  BY <1>2, <1>3, <1>4, <1>5, <1>7 DEF AInv, Watched

\* Of an undisturbed asset, the request that opens an order has found none, and
\* the one that closes an order closes the last.
LEMMA DeskInv == AInv /\ DeskAction => AInv'
<1> SUFFICES ASSUME AInv, NEW a \in DOMAIN assets, NEW d \in Desks,
                    LookToOpen(d, a) \/ LookToClose(d, a) \/ OpenOrder(d, a) \/ CloseOrder(d, a)
             PROVE  AInv'
  BY DEF DeskAction
<1>1. /\ orders \in Seq(Order) /\ DOMAIN orders = 1..Len(orders) /\ Len(orders) \in Nat
      /\ \A k \in DOMAIN orders : orders[k] \in Order
      /\ assets[a].status \in Condition
  BY OrderType DEF AInv, Equipment
<1>2. CASE OpenOrder(d, a)
  <2> DEFINE row == [asset |-> a, open |-> TRUE]
             rows == Append(orders, row)
  <2>1. /\ d \in AtDesk(a) /\ desks[d].pc = "open"
        /\ Done(d, a, rows, "MAINTENANCE") /\ "MAINTENANCE" \in Condition
    BY <1>2 DEF OpenOrder, AtDesk, Condition
  <2>2. row \in Order
    BY DEF Order
  <2>3. /\ rows \in Seq(Order) /\ DOMAIN rows = 1..(Len(orders) + 1)
        /\ \A k \in 1..Len(orders) : rows[k] = orders[k]
        /\ rows[Len(orders) + 1] = row
    BY <1>1, <2>2, AppendProperties, LenProperties
  <2>4. /\ row.asset = a
        /\ \A k \in 1..(Len(orders) + 1) : k \in 1..Len(orders) \/ k = Len(orders) + 1
        /\ 1..Len(orders) \subseteq 1..(Len(orders) + 1)
    BY <1>1
  <2> HIDE DEF rows, row
  <2>5. \A b \in DOMAIN assets : b # a => OpenOrders(rows, b) = OpenOrders(orders, b)
    BY <1>1, <2>3, <2>4 DEF OpenOrders
  <2>6. ASSUME a \notin disturbed PROVE \A j, k \in OpenOrders(rows, a) : j = k
    <3>1. OpenOrders(orders, a) = {}
      BY <2>1, <2>6 DEF AInv, Watched, Quiet
    <3>2. OpenOrders(rows, a) \subseteq {Len(orders) + 1}
      BY <1>1, <2>3, <2>4, <3>1 DEF OpenOrders
    <3> QED
      BY <3>2
  <2> QED
    BY <1>1, <2>1, <2>3, <2>4, <2>5, <2>6, DoneInv
<1>3. CASE CloseOrder(d, a)
  <2> DEFINE o == desks[d].order
             rows == [orders EXCEPT ![o].open = FALSE]
             status == IF assets[a].status = "MAINTENANCE" THEN "AVAILABLE" ELSE assets[a].status
  <2>1. d \in AtDesk(a) /\ desks[d].pc = "close" /\ Done(d, a, rows, status)
    BY <1>3 DEF CloseOrder, AtDesk
  <2>2. status \in Condition
    BY <1>1 DEF Condition
  <2>3. /\ rows \in Seq(Order) /\ DOMAIN rows = DOMAIN orders
        /\ \A k \in DOMAIN orders : rows[k].asset = orders[k].asset
        /\ \A k \in DOMAIN orders : k # o => rows[k] = orders[k]
        /\ o \in DOMAIN orders => ~rows[o].open
    <3>1. o \in DOMAIN orders
      BY <2>1 DEF AInv, Schema
    <3>2. [orders[o] EXCEPT !.open = FALSE] \in Order
      BY <1>1, <3>1 DEF Order
    <3>3. rows \in Seq(Order)
      BY <1>1, <3>1, <3>2, ExceptSeq
    <3> QED
      BY <1>1, <3>1, <3>3 DEF Order
  <2> HIDE DEF rows, status, o
  <2>4. o \in DOMAIN orders /\ orders[o].asset = a
    BY <2>1 DEF AInv, Schema, AtDesk, o
  <2>5. \A b \in DOMAIN assets : b # a => OpenOrders(rows, b) = OpenOrders(orders, b)
    BY <2>3, <2>4 DEF OpenOrders
  <2>6. ASSUME a \notin disturbed PROVE OpenOrders(rows, a) = {}
    <3>1. OpenOrders(orders, a) \subseteq {o}
      BY <2>1, <2>6 DEF AInv, Watched, Quiet, o
    <3> QED
      BY <2>3, <2>4, <3>1 DEF OpenOrders
  <2> QED
    BY <1>1, <2>1, <2>2, <2>3, <2>5, <2>6, DoneInv
<1> QED
  BY <1>2, <1>3, LookInv
-----------------------------------------------------------------------------
\* The initial states satisfy the invariant.
LEMMA AssetsInitInv == AssetsInit => AInv
<1> SUFFICES ASSUME AssetsInit PROVE AInv
  OBVIOUS
<1>1. Init
  BY DEF AssetsInit
<1>2. Base
  <2>1. DOMAIN resv = {}
    BY <1>1 DEF Init
  <2> QED
    BY <1>1, <2>1, InitKeeps DEF IInv, Base, AttInv
<1>3. /\ assets = <<>> /\ claims = {} /\ quals = {} /\ orders = <<>> /\ disturbed = {}
      /\ windows = [a \in Assets |-> <<>>] /\ desks = [d \in Desks |-> IdleDesk]
  BY DEF AssetsInit
<1>4. DOMAIN assets = {} /\ orders \in Seq(Order) /\ <<>> \in Seq(Windows)
  BY <1>3, EmptySeq
<1>5. IdleDesk \in Desk
  BY DEF IdleDesk, Desk
<1> QED
  BY <1>2, <1>3, <1>4, <1>5
     DEF AInv, Equipment, Schema, Claimed, ClaimsInLab, Watched, IdleDesk

\* Every step keeps it.
LEMMA AssetsNextInv == AInv /\ [AssetsNext]_allVars => AInv'
<1>1. AInv /\ UNCHANGED allVars => AInv'
  <2> SUFFICES ASSUME AInv, UNCHANGED allVars PROVE AInv'
    OBVIOUS
  <2>1. UNCHANGED <<vars, assets, windows, quals, claims, orders, desks, disturbed>>
    BY DEF allVars, assetVars, equipment, maintenance
  <2>2. Base'
    BY <2>1, BookingKeeps DEF AInv
  <2>3. resv' = resv
    BY <2>1 DEF vars
  <2> QED
    BY <2>1, <2>2, <2>3
       DEF AInv, Equipment, Schema, Claimed, ClaimsInLab, Watched, Quiet, Desk, Order,
           AtDesk, OpenOrders
<1>2. AssetsNext => BookingAction \/ EditAction \/ DeskAction
  BY DEF AssetsNext, BookingAction, EditAction, DeskAction
<1> QED
  BY <1>1, <1>2, BookingActionInv, EditInv, DeskInv

\* The inductive invariant of the equipment.
LEMMA AssetsInvariance == AssetsSpec => []AInv
BY AssetsInitInv, AssetsNextInv, PTL DEF AssetsSpec

\* The equipment tables hold rows of their schema: claims of reservations and
\* assets that exist, one qualification of a user for an asset.
THEOREM AssetsTyped == AssetsSpec => []AssetsTypeOK
<1>1. AInv => AssetsTypeOK
  BY DEF AInv, Equipment, Schema, Claimed, Order, AssetsTypeOK
<1> QED
  BY <1>1, AssetsInvariance, PTL

\* A reservation with claims, and one turned away because of a claim, oversell
\* no slot and take no attended booking away.
THEOREM SeatsWithClaims == AssetsSpec => [](SeatsWithinCapacity /\ AttendanceStands)
<1>1. AInv => SeatsWithinCapacity /\ AttendanceStands
  BY DEF AInv, Base, AttInv, Attended, AttendanceStands
<1> QED
  BY <1>1, AssetsInvariance, PTL

\* Wherever a reservation is moved, its claims are of assets of its laboratory:
\* what the comment of reservation_reschedule relies on.
THEOREM ClaimsStay == AssetsSpec => []ClaimsInLab
<1>1. AInv => ClaimsInLab
  BY DEF AInv
<1> QED
  BY <1>1, AssetsInvariance, PTL

\* An asset under an open maintenance order cannot be claimed, as long as no
\* other request meddled with it.
THEOREM MaintenanceStands == AssetsSpec => []MaintenanceHolds
<1>1. AInv => MaintenanceHolds
  BY DEF AInv, Watched, Quiet, MaintenanceHolds
<1> QED
  BY <1>1, AssetsInvariance, PTL
-----------------------------------------------------------------------------
(***************************************************************************)
(* Quotas.  A step makes at most one reservation count that did not count  *)
(* before, and that one found a copy left.                                 *)
(***************************************************************************)

\* Row y after a step takes no more equipment than x before it.
Wanes(x, y) == Live(y) => Live(x) /\ y.slot = x.slot

AllWane == \A i \in DOMAIN resv : Wanes(resv[i], resv'[i])

\* Rows that are cancelled, and rows added after them.
LEMMA FillWanes ==
  ASSUME NEW r, NEW a, NEW s \in Slots, Typed(r, waits, a), DOMAIN r = DOMAIN resv,
         \A i \in DOMAIN resv : Wanes(resv[i], r[i]),
         CommitFill(PromoteFill(r, waits, a, s), a)
  PROVE  AllWane
<1> DEFINE q == PromoteFill(r, waits, a, s).resv
<1>1. resv' = q
  BY DEF CommitFill, Commit
<1>2. DOMAIN r = 1..Len(r) /\ \A i \in 1..Len(r) : q[i] = r[i]
  BY FillType, LenProperties DEF Typed, Extends
<1> HIDE DEF q
<1> QED
  BY <1>1, <1>2 DEF AllWane

\* A row that gives up its seat counts no more than it did.
LEMMA CancelWanes ==
  ASSUME TypeOK, NEW i \in DOMAIN resv, NEW why \in Reasons
  PROVE  /\ \A k \in DOMAIN resv : Wanes(resv[k], Evict(resv, i)[k])
         /\ \A k \in DOMAIN resv : Wanes(resv[k], Cancelled(resv, i, why)[k])
         /\ \A k \in DOMAIN resv :
              Wanes(resv[k], [resv EXCEPT ![i].status = "CANCELLED", ![i].reason = why][k])
<1>1. resv[i] \in Reservation
  BY ResvRow
<1> QED
  BY <1>1 DEF Wanes, Live, Evict, Cancelled, Reservation

\* A reservation makes no other row count.
LEMMA ReserveWanes ==
  ASSUME TypeOK, NEW u \in Users, NEW s \in Slots, Reserve(u, s)
  PROVE  AllWane
<1> DEFINE a == WeeklyTopup(accounts, u)
<1>1. a \in [Users -> Account]
  BY TopupType
<1>2. CASE Commit(resv, waits, a)
  BY <1>2 DEF Commit, AllWane, Wanes
<1>3. CASE Admit(u, s, resv, a)
  BY <1>1, <1>3, GoodNow, GoodAccounts, AdmitAdds DEF AllWane, Wanes
<1>4. ASSUME NEW v \in Victim(u, s), TakeOver(u, s, v, a) PROVE AllWane
  <2> DEFINE r == Evict(resv, v)
             b == CreditApply(a, resv[v].user, 1)
  <2>1. v \in DOMAIN resv
    BY DEF Victim, Evictable, Seated
  <2>2. b \in [Users -> Account]
    BY <1>1, <2>1, ResvRow, CreditType
  <2>3. Good(r, waits, b) /\ \A k \in DOMAIN resv : Wanes(resv[k], r[k])
    BY <2>1, <2>2, LeaveGood, GoodAccounts, CancelWanes DEF Reasons
  <2>4. DOMAIN r = DOMAIN resv
    BY DEF Evict
  <2>5. Commit(r, waits, b) \/ Admit(u, s, r, b)
    BY <1>4 DEF TakeOver
  <2> HIDE DEF r, b
  <2>6. CASE Commit(r, waits, b)
    BY <2>3, <2>6 DEF Commit, AllWane
  <2>7. CASE Admit(u, s, r, b)
    <3>1. \A k \in DOMAIN r : resv'[k] = r[k]
      BY <2>3, <2>7, AdmitAdds
    <3> QED
      BY <2>3, <2>4, <3>1 DEF AllWane
  <2> QED
    BY <2>5, <2>6, <2>7
<1> QED
  BY <1>2, <1>3, <1>4 DEF Reserve

\* Of the other requests of Booking none makes a row count that did not.
LEMMA UnclaimingWanes ==
  ASSUME TypeOK, Unclaiming
  PROVE  AllWane
<1>1. \A i \in DOMAIN resv : resv[i] \in Reservation /\ resv[i].slot \in Slots
  BY ResvRow
<1>2. ASSUME NEW i \in DOMAIN resv,
             CheckIn(i) \/ Checkout(i) \/ Confirm(i) \/ Reject(i) \/ ForceComplete(i)
      PROVE  AllWane
  BY <1>1, <1>2
     DEF CheckIn, Checkout, Confirm, Reject, ForceComplete, Commit, AllWane, Wanes, Live, Reservation
<1>3. ASSUME NEW i \in DOMAIN resv, Cancel(i) \/ ForceCancel(i) PROVE AllWane
  <2>1. PICK why \in {"USER", "ADMIN"} :
          \/ CommitFill(PromoteFill(Cancelled(resv, i, why), waits, accounts, resv[i].slot), accounts)
          \/ Commit(Cancelled(resv, i, why), waits, accounts)
    BY <1>3 DEF Cancel, ForceCancel
  <2>2. why \in Reasons
    BY DEF Reasons
  <2>3. /\ Typed(Cancelled(resv, i, why), waits, accounts)
        /\ \A k \in DOMAIN resv : Wanes(resv[k], Cancelled(resv, i, why)[k])
        /\ DOMAIN Cancelled(resv, i, why) = DOMAIN resv
    BY <2>2, CancelWanes, LeaveGood DEF Good, Cancelled
  <2>4. CASE Commit(Cancelled(resv, i, why), waits, accounts)
    BY <2>3, <2>4 DEF Commit, AllWane
  <2> QED
    BY <1>1, <2>1, <2>3, <2>4, FillWanes
<1>4. ASSUME NEW u \in Users, NEW b \in Runs, Batch(u, b) PROVE AllWane
  <2> DEFINE new == [k \in DOMAIN b |-> DirectRow(u, b[k], "CONFIRMED")]
  <2>1. resv' = resv \o new
    BY <1>4 DEF Batch, Commit
  <2>2. resv \in Seq(Reservation) /\ DOMAIN resv = 1..Len(resv) /\ Len(resv) \in Nat
    BY LenProperties DEF TypeOK
  <2>3. Len(new) = Len(b) /\ Len(b) \in Nat
    <3>1. DOMAIN b = 1..Len(b) /\ Len(b) \in Nat
      BY RunsDistinct
    <3>2. new = [k \in 1..Len(b) |-> new[k]]
      BY <3>1
    <3> HIDE DEF new
    <3> QED
      BY <3>1, <3>2
  <2> HIDE DEF new
  <2>4. \A i \in DOMAIN resv : (resv \o new)[i] = resv[i]
    BY <2>2, <2>3
  <2> QED
    BY <2>1, <2>4 DEF AllWane, Wanes
<1>5. CASE UNCHANGED resv
  BY <1>5 DEF AllWane, Wanes
<1>6. CASE \/ Tick
           \/ \E u \in Users, s \in Slots : Join(u, s)
           \/ \E j \in DOMAIN waits : Withdraw(j)
           \/ \E s \in Slots, c \in 1..MaxCapacity, o \in BOOLEAN : SlotUpdate(s, c, o)
           \/ \E l \in Labs, o, p \in BOOLEAN : LabUpdate(l, o, p)
           \/ \E u \in Users : Disable(u) \/ Enable(u)
           \/ \E u \in Users, n \in 1..CreditBase : CreditGrant(u, n)
  BY <1>5, <1>6 DEF Tick, Join, Withdraw, SlotUpdate, LabUpdate, Disable, Enable,
                    CreditGrant, Commit
<1> QED
  BY <1>2, <1>3, <1>4, <1>6 DEF Unclaiming

\* A claim that is refused does not undo the eviction before it, nor does it
\* add a reservation.
LEMMA TurnedAwayWanes ==
  ASSUME Base, NEW u \in Users, NEW s \in Slots, NEW C \in SUBSET Assets, TurnedAway(u, s, C)
  PROVE  AllWane
<1> DEFINE a == WeeklyTopup(accounts, u)
<1>1. a \in [Users -> Account]
  BY CreditType DEF Base, TypeOK
<1>2. CASE CommitFill(PromoteFill(resv, waits, a, s), a)
  <2>1. Typed(resv, waits, a)
    BY <1>1, GoodNow, GoodAccounts DEF Base, Good
  <2> QED
    BY <1>2, <2>1, FillWanes DEF Wanes
<1>3. ASSUME NEW v \in Victim(u, s),
             LET r == Evict(resv, v)
                 b == CreditApply(a, resv[v].user, 1)
             IN CommitFill(PromoteFill(r, waits, b, s), b)
      PROVE  AllWane
  <2> DEFINE r == Evict(resv, v)
             b == CreditApply(a, resv[v].user, 1)
  <2>1. v \in DOMAIN resv
    BY DEF Victim, Evictable, Seated
  <2>2. b \in [Users -> Account]
    BY <1>1, <2>1, ResvRow, CreditType DEF Base
  <2>3. Typed(r, waits, b) /\ \A k \in DOMAIN resv : Wanes(resv[k], r[k])
    BY <2>1, <2>2, LeaveGood, GoodAccounts, CancelWanes DEF Reasons, Base, Good
  <2>4. DOMAIN r = DOMAIN resv
    BY DEF Evict
  <2>5. CommitFill(PromoteFill(r, waits, b, s), b)
    BY <1>3
  <2> HIDE DEF r, b
  <2> QED
    BY <2>3, <2>4, <2>5, FillWanes
<1> QED
  BY <1>2, <1>3 DEF TurnedAway

\* A reservation appends one row of its own, the others it adds are promoted.
LEMMA BookedOnce ==
  ASSUME Base, NEW u \in Users, NEW s \in Slots, Reserve(u, s)
  PROVE  \A i, k \in Booked : i = k
<1> DEFINE a == WeeklyTopup(accounts, u)
           status == IF labs[LabOf[s]].approval THEN "PENDING" ELSE "CONFIRMED"
           row == DirectRow(u, s, status)
           Once == \A i, k \in Booked : i = k
<1>1. a \in [Users -> Account]
  BY CreditType DEF Base, TypeOK
<1>2. ASSUME NEW r, NEW b, Good(r, waits, b), DOMAIN r = DOMAIN resv, Admit(u, s, r, b)
      PROVE  Once
  <2> DEFINE q == PromoteFill(r, waits, b, s).resv
  <2>1. Typed(r, waits, b)
    BY <1>2 DEF Good
  <2>2. \A i \in DOMAIN q \ DOMAIN r : q[i].source = "WAITLIST"
    BY <2>1, FillNew
  <2>3. q \in Seq(Reservation)
    BY <2>1, FillType DEF Extends
  <2>4. resv' = q \/ resv' = Append(q, row)
    BY <1>2 DEF Admit, CommitFill, Commit
  <2> HIDE DEF q, row
  <2>5. DOMAIN q = 1..Len(q) /\ Len(q) \in Nat
    BY <2>3, LenProperties
  <2>6. /\ DOMAIN Append(q, row) = 1..(Len(q) + 1)
        /\ \A i \in 1..Len(q) : Append(q, row)[i] = q[i]
    BY <2>3, <2>5
  <2>7. Booked \subseteq {Len(q) + 1}
    <3> SUFFICES ASSUME NEW i \in Booked, i # Len(q) + 1 PROVE FALSE
      OBVIOUS
    <3>1. i \in DOMAIN resv' /\ i \notin DOMAIN r /\ resv'[i].source = "DIRECT"
      BY <1>2 DEF Booked
    <3>2. i \in 1..Len(q) /\ resv'[i] = q[i]
      BY <2>4, <2>5, <2>6, <3>1
    <3> QED
      BY <2>2, <2>5, <3>1, <3>2
  <2> QED
    BY <2>7
<1>3. CASE Commit(resv, waits, a)
  BY <1>3 DEF Commit, Booked
<1>4. CASE Admit(u, s, resv, a)
  BY <1>1, <1>2, <1>4, GoodNow, GoodAccounts DEF Base
<1>5. ASSUME NEW v \in Victim(u, s), TakeOver(u, s, v, a) PROVE Once
  <2> DEFINE r == Evict(resv, v)
             b == CreditApply(a, resv[v].user, 1)
  <2>1. v \in DOMAIN resv
    BY DEF Victim, Evictable, Seated
  <2>2. b \in [Users -> Account]
    BY <1>1, <2>1, ResvRow, CreditType DEF Base
  <2>3. Good(r, waits, b)
    BY <2>1, <2>2, LeaveGood, GoodAccounts DEF Reasons, Base
  <2>4. DOMAIN r = DOMAIN resv
    BY DEF Evict
  <2>5. Commit(r, waits, b) \/ Admit(u, s, r, b)
    BY <1>5 DEF TakeOver
  <2> HIDE DEF r, b
  <2>6. CASE Commit(r, waits, b)
    BY <2>4, <2>6 DEF Commit, Booked
  <2> QED
    BY <1>2, <2>3, <2>4, <2>5, <2>6
<1> QED
  BY <1>3, <1>4, <1>5 DEF Reserve

\* the claims that Need counts
Needed(r, c, a, h) ==
  {x \in c : /\ x.asset = a /\ Live(r[x.resv])
             /\ Start[r[x.resv].slot] <= h /\ h < End(r[x.resv].slot)}

\* The claims are finite: at most one of each reservation on each asset.
LEMMA ClaimsFinite == ASSUME AInv PROVE IsFiniteSet(claims)
<1> DEFINE R == DOMAIN resv
           A == DOMAIN assets
           f == [c \in claims |-> <<c.resv, c.asset>>]
<1>1. IsFiniteSet(R)
  <2>1. R = 1..Len(resv) /\ Len(resv) \in Nat
    BY LenProperties DEF AInv, Base, TypeOK
  <2>2. 1 \in Int /\ Len(resv) \in Int
    BY <2>1
  <2> QED
    BY <2>1, <2>2, FS_Interval
<1>2. IsFiniteSet(A)
  BY AssetsAssumption, FS_Subset DEF AInv, Equipment
<1>3. IsFiniteSet(R \X A)
  BY <1>1, <1>2, FS_Product
<1>4. claims \subseteq [resv: R, asset: A]
  BY DEF AInv, Claimed
<1> HIDE DEF R, A
<1>5. f \in [claims -> R \X A]
  BY <1>4
<1>6. \A c, d \in claims : f[c] = f[d] => c = d
  BY <1>4
<1>7. f \in Injection(claims, R \X A)
  BY <1>5, <1>6 DEF Injection, IsInjective
<1> QED
  BY <1>3, <1>7, FS_Injection

\* Row i is new among those that count, and of what it claims a copy is left.
LEMMA FitsQuota ==
  ASSUME AInv, AInv', assets' = assets, NEW i, NEW C,
         claims' \subseteq claims \cup [resv: {i}, asset: C],
         \A k \in DOMAIN resv \ {i} : Wanes(resv[k], resv'[k]),
         \A c \in claims' : c.resv = i =>
           Cardinality(InUse(resv', c.asset, resv'[i].slot, i)) < assets[c.asset].total,
         NEW a \in DOMAIN assets, NEW h \in Nat,
         Need(resv', claims', a, h) > Need(resv, claims, a, h)
  PROVE  Need(resv', claims', a, h) <= assets'[a].total
<1> DEFINE N == Needed(resv, claims, a, h)
           M == Needed(resv', claims', a, h)
           own == [resv |-> i, asset |-> a]
           U == InUse(resv', a, resv'[i].slot, i)
<1>1. /\ Need(resv, claims, a, h) = Cardinality(N)
      /\ Need(resv', claims', a, h) = Cardinality(M)
  BY DEF Need, Needed
<1>2. /\ claims \subseteq [resv: DOMAIN resv, asset: DOMAIN assets]
      /\ claims' \subseteq [resv: DOMAIN resv', asset: DOMAIN assets]
  BY DEF AInv, Claimed
<1>3. IsFiniteSet(claims) /\ IsFiniteSet(N) /\ IsFiniteSet(U)
  BY ClaimsFinite, FS_Subset DEF Needed, InUse
<1>4. \A x \in M : x # own => x.resv # i /\ x \in claims
  BY <1>2 DEF Needed
<1>5. \A x \in M : x # own => x \in N
  BY <1>2, <1>4 DEF Needed, Wanes
<1>6. own \in M
  <2> SUFFICES ASSUME own \notin M PROVE FALSE
    OBVIOUS
  <2>1. M \in SUBSET N
    BY <1>5
  <2>2. Cardinality(M) <= Cardinality(N) /\ Cardinality(M) \in Nat /\ Cardinality(N) \in Nat
    BY <1>3, <2>1, FS_Subset, FS_CardinalityType
  <2> QED
    BY <1>1, <2>2
<1>7. own \in claims' /\ Start[resv'[i].slot] <= h /\ h < End(resv'[i].slot)
  BY <1>6 DEF Needed
<1>8. M \ {own} \subseteq U
  <2> SUFFICES ASSUME NEW x \in M, x # own PROVE x \in U
    OBVIOUS
  <2>1. x \in claims /\ x.resv # i /\ x.asset = a
    BY <1>4 DEF Needed
  <2>2. Live(resv'[x.resv]) /\ Start[resv'[x.resv].slot] <= h /\ h < End(resv'[x.resv].slot)
    BY DEF Needed
  <2>3. resv'[x.resv].slot \in Slots /\ resv'[i].slot \in Slots
    <3>1. x.resv \in DOMAIN resv' /\ i \in DOMAIN resv'
      BY <1>2, <1>7 DEF Needed
    <3>2. \A k \in DOMAIN resv' : resv'[k].slot \in Slots
      <4>1. resv' \in Seq(Reservation) /\ DOMAIN resv' = 1..Len(resv')
        BY LenProperties DEF AInv, Base, TypeOK
      <4>2. \A k \in DOMAIN resv' : resv'[k] \in Reservation
        BY <4>1, ElementOfSeq
      <4> QED
        BY <4>2 DEF Reservation
    <3> QED
      BY <3>1, <3>2
  <2>4. Overlaps(resv'[x.resv].slot, resv'[i].slot)
    BY <1>7, <2>2, <2>3, SlotsAssumption DEF Overlaps, End
  <2> QED
    BY <2>1, <2>2, <2>4 DEF InUse
<1>9. Cardinality(U) < assets[a].total
  BY <1>7
<1>10. /\ IsFiniteSet(U \cup {own}) /\ Cardinality(U) \in Nat
       /\ Cardinality(U \cup {own}) <= Cardinality(U) + 1
  <2>1. Cardinality(U) \in Nat
    BY <1>3, FS_CardinalityType
  <2> HIDE DEF U, own
  <2>2. /\ IsFiniteSet(U \cup {own})
        /\ Cardinality(U \cup {own}) = IF own \in U THEN Cardinality(U) ELSE Cardinality(U) + 1
    BY <1>3, FS_AddElement
  <2> QED
    BY <2>1, <2>2
<1>11. M \in SUBSET (U \cup {own})
  BY <1>8
<1>12. Cardinality(M) <= Cardinality(U \cup {own}) /\ Cardinality(M) \in Nat
       /\ Cardinality(U \cup {own}) \in Nat
  BY <1>10, <1>11, FS_Subset, FS_CardinalityType
<1>13. assets[a].total \in Nat
  BY AssetsAssumption DEF AInv, Equipment
<1> QED
  BY <1>1, <1>9, <1>10, <1>12, <1>13

\* A row whose own claims were tested against those of the rows before the step.
LEMMA InUseWanes ==
  ASSUME AInv, NEW i, \A k \in DOMAIN resv \ {i} : Wanes(resv[k], resv'[k]), NEW a, NEW s,
         NEW n, Cardinality(InUse(resv, a, s, i)) < n, n \in Nat
  PROVE  Cardinality(InUse(resv', a, s, i)) < n
<1>1. claims \subseteq [resv: DOMAIN resv, asset: DOMAIN assets]
  BY DEF AInv, Claimed
<1>2. InUse(resv', a, s, i) \in SUBSET InUse(resv, a, s, i)
  BY <1>1 DEF InUse, Wanes
<1>3. IsFiniteSet(InUse(resv, a, s, i))
  BY ClaimsFinite, FS_Subset DEF InUse
<1> QED
  BY <1>2, <1>3, FS_Subset, FS_CardinalityType

\* A request that adds no claim, and makes no row count, needs no more copies.
LEMMA WaneFits ==
  ASSUME AInv, AInv', assets' = assets, claims' = claims, AllWane,
         NEW a \in DOMAIN assets, NEW h \in Nat,
         Need(resv', claims', a, h) > Need(resv, claims, a, h)
  PROVE  Need(resv', claims', a, h) <= assets'[a].total
<1>1. 0 \notin DOMAIN resv
  BY LenProperties DEF AInv, Base, TypeOK
<1>2. \A c \in claims' : c.resv # 0
  BY <1>1 DEF AInv, Claimed
<1>3. claims' \subseteq claims \cup [resv: {0}, asset: {}]
  OBVIOUS
<1>4. \A k \in DOMAIN resv \ {0} : Wanes(resv[k], resv'[k])
  BY DEF AllWane
<1> QED
  BY <1>2, <1>3, <1>4, FitsQuota

\* A reservation that claims an asset found a copy left.
LEMMA ReserveFits ==
  ASSUME AInv, AInv', NEW u \in Users, NEW s \in Slots, NEW C \in SUBSET Assets,
         ReserveClaiming(u, s, C),
         NEW a \in DOMAIN assets, NEW h \in Nat,
         Need(resv', claims', a, h) > Need(resv, claims, a, h)
  PROVE  Need(resv', claims', a, h) <= assets'[a].total
<1>1. Reserve(u, s) /\ assets' = assets /\ claims' = claims \cup [resv: Booked, asset: C]
  BY DEF ReserveClaiming, equipment
<1>2. AllWane /\ (\A i, k \in Booked : i = k) /\ (\A i \in Booked : resv'[i].slot = s)
  BY <1>1, ReserveWanes, BookedOnce, ReserveSlot DEF AInv, Base, Booked
<1>3. CASE Booked = {}
  BY <1>1, <1>2, <1>3, WaneFits
<1>4. ASSUME NEW i \in Booked PROVE Need(resv', claims', a, h) <= assets'[a].total
  <2>1. Booked = {i}
    BY <1>2, <1>4
  <2>2. \A k \in DOMAIN resv \ {i} : Wanes(resv[k], resv'[k])
    BY <1>2 DEF AllWane
  <2>3. ASSUME NEW c \in claims', c.resv = i
        PROVE  Cardinality(InUse(resv', c.asset, resv'[i].slot, i)) < assets[c.asset].total
    <3>1. claims \subseteq [resv: DOMAIN resv, asset: DOMAIN assets] /\ i \notin DOMAIN resv
      BY DEF AInv, Claimed, Booked
    <3>2. c \in [resv: Booked, asset: C] /\ c.asset \in C
      BY <1>1, <2>3, <3>1
    <3>3. Cardinality(InUse(resv', c.asset, s, 0)) < assets[c.asset].total
      BY <3>2, <1>4 DEF ReserveClaiming, ClaimOk
    <3>4. 0 \notin DOMAIN resv
      BY LenProperties DEF AInv, Base, TypeOK
    <3>5. InUse(resv', c.asset, s, 0) = InUse(resv', c.asset, s, i)
      BY <3>1, <3>4 DEF InUse
    <3> QED
      BY <1>2, <3>3, <3>5
  <2> QED
    BY <1>1, <2>1, <2>2, <2>3, FitsQuota
<1> QED
  BY <1>3, <1>4

\* An approval or a change of date of a row whose claims fit.
LEMMA ChangeFits ==
  ASSUME AInv, AInv', UNCHANGED assetVars, NEW i \in DOMAIN resv, NEW s,
         resv'[i].slot = s, ClaimsFit(i, s),
         \A k \in DOMAIN resv \ {i} : Wanes(resv[k], resv'[k]),
         NEW a \in DOMAIN assets, NEW h \in Nat,
         Need(resv', claims', a, h) > Need(resv, claims, a, h)
  PROVE  Need(resv', claims', a, h) <= assets'[a].total
<1>1. assets' = assets /\ claims' = claims
  BY DEF assetVars, equipment
<1>2. ASSUME NEW c \in claims', c.resv = i
      PROVE  Cardinality(InUse(resv', c.asset, resv'[i].slot, i)) < assets[c.asset].total
  <2>1. c.asset \in ClaimsOf(i) /\ c.asset \in DOMAIN assets
    BY <1>1, <1>2 DEF ClaimsOf, AInv, Claimed
  <2>2. Cardinality(InUse(resv, c.asset, s, i)) < assets[c.asset].total
    BY <2>1 DEF ClaimsFit
  <2>3. assets[c.asset].total \in Nat
    BY <2>1, AssetsAssumption DEF AInv, Equipment
  <2> QED
    BY <2>2, <2>3, InUseWanes
<1>3. claims' \subseteq claims \cup [resv: {i}, asset: {}]
  BY <1>1
<1> QED
  BY <1>1, <1>2, <1>3, FitsQuota

\* So did an approved one.
LEMMA ApproveFits ==
  ASSUME AInv, AInv', NEW i \in DOMAIN resv, ApproveClaiming(i),
         NEW a \in DOMAIN assets, NEW h \in Nat,
         Need(resv', claims', a, h) > Need(resv, claims, a, h)
  PROVE  Need(resv', claims', a, h) <= assets'[a].total
<1>1. resv' = [resv EXCEPT ![i].status = "CONFIRMED"] /\ resv[i] \in Reservation
  BY ResvRow DEF ApproveClaiming, Approve, Commit, AInv, Base
<1>2. resv'[i].slot = resv[i].slot /\ \A k \in DOMAIN resv \ {i} : resv'[k] = resv[k]
  BY <1>1 DEF Reservation
<1> QED
  BY <1>2, ChangeFits DEF ApproveClaiming, Wanes

\* And a moved one, at its new hour.
LEMMA RescheduleFits ==
  ASSUME AInv, AInv', NEW i \in DOMAIN resv, NEW t \in Slots, RescheduleClaiming(i, t),
         NEW a \in DOMAIN assets, NEW h \in Nat,
         Need(resv', claims', a, h) > Need(resv, claims, a, h)
  PROVE  Need(resv', claims', a, h) <= assets'[a].total
<1> DEFINE r == [resv EXCEPT ![i].slot = t]
           q == PromoteFill(r, waits, accounts, resv[i].slot).resv
<1>1. resv' = q
  BY DEF RescheduleClaiming, Reschedule, CommitFill, Commit
<1>2. resv \in Seq(Reservation) /\ DOMAIN resv = 1..Len(resv) /\ resv[i] \in Reservation
  BY LenProperties, ElementOfSeq DEF AInv, Base, TypeOK
<1>3. /\ r \in Seq(Reservation) /\ DOMAIN r = DOMAIN resv /\ r[i].slot = t
      /\ \A k \in DOMAIN resv \ {i} : r[k] = resv[k]
  <2>1. [resv[i] EXCEPT !.slot = t] \in Reservation /\ [resv[i] EXCEPT !.slot = t].slot = t
    BY <1>2 DEF Reservation
  <2> QED
    BY <1>2, <2>1, ExceptSeq
<1>4. Typed(r, waits, accounts)
  BY <1>3 DEF AInv, Base, TypeOK, Typed
<1> HIDE DEF r
<1>5. DOMAIN r = 1..Len(r) /\ \A k \in 1..Len(r) : q[k] = r[k]
  <2>1. resv[i].slot \in Slots
    BY <1>2 DEF Reservation
  <2> QED
    BY <1>4, <2>1, FillType, LenProperties DEF Typed, Extends
<1> HIDE DEF q
<1>6. resv'[i].slot = t /\ \A k \in DOMAIN resv \ {i} : resv'[k] = resv[k]
  BY <1>1, <1>3, <1>5
<1> QED
  BY <1>6, ChangeFits DEF RescheduleClaiming, Wanes

\* Where a step raises the number of claims at an hour, it is within the total.
LEMMA QuotaStep ==
  ASSUME AInv, AInv', [AssetsNext]_allVars,
         NEW a \in DOMAIN assets, NEW h \in Nat,
         Need(resv', claims', a, h) > Need(resv, claims, a, h)
  PROVE  Need(resv', claims', a, h) <= assets'[a].total
<1>1. ~(resv' = resv /\ claims' = claims)
  <2> SUFFICES ASSUME resv' = resv, claims' = claims PROVE FALSE
    OBVIOUS
  <2>1. Need(resv', claims', a, h) = Need(resv, claims, a, h)
    OBVIOUS
  <2>2. IsFiniteSet(Needed(resv, claims, a, h))
    BY ClaimsFinite, FS_Subset DEF Needed
  <2>3. Need(resv, claims, a, h) \in Nat
    BY <2>2, FS_CardinalityType DEF Need, Needed
  <2> QED
    BY <2>1, <2>3
<1>2. BookingAction
  <2>1. CASE EditAction
    BY <1>1, <2>1 DEF EditAction, AssetCreate, AssetUpdate, WindowAdd, WindowDelete,
                      QualGrant, QualRequire, QualRevoke, Edit, vars
  <2>2. CASE DeskAction
    BY <1>1, <2>2 DEF DeskAction, LookToOpen, LookToClose, Look, OpenOrder, CloseOrder, Done, vars
  <2>3. CASE UNCHANGED allVars
    BY <1>1, <2>3 DEF allVars, assetVars, vars
  <2>4. AssetsNext => BookingAction \/ EditAction \/ DeskAction
    BY DEF AssetsNext, BookingAction, EditAction, DeskAction
  <2> QED
    BY <2>1, <2>2, <2>3, <2>4
<1>3. UNCHANGED assetVars => assets' = assets /\ claims' = claims
  BY DEF assetVars, equipment
<1>4. CASE \E u \in Users, s \in Slots, C \in SUBSET Assets : ReserveClaiming(u, s, C)
  BY <1>4, ReserveFits
<1>5. CASE \E u \in Users, s \in Slots, C \in SUBSET Assets : TurnedAway(u, s, C)
  <2>1. AllWane /\ UNCHANGED assetVars
    BY <1>5, TurnedAwayWanes DEF AInv, TurnedAway
  <2> QED
    BY <1>3, <2>1, WaneFits
<1>6. CASE \E i \in DOMAIN resv, t \in Slots : RescheduleClaiming(i, t)
  BY <1>6, RescheduleFits
<1>7. CASE \E i \in DOMAIN resv : ApproveClaiming(i)
  BY <1>7, ApproveFits
<1>8. CASE Unclaiming
  <2>1. AllWane
    BY <1>8, UnclaimingWanes DEF AInv, Base
  <2> QED
    BY <1>3, <1>8, <2>1, WaneFits DEF Unclaiming
<1> QED
  BY <1>2, <1>4, <1>5, <1>6, <1>7, <1>8 DEF BookingAction

\* BR12: no step makes more reservations count on an asset at one hour than
\* there are copies, be it a reservation, an approval, a change of date, or a
\* promotion that somebody else set off.
THEOREM QuotasHold == AssetsSpec => QuotaRespected
<1>1. AInv /\ AInv' /\ [AssetsNext]_allVars =>
        [\A a \in DOMAIN assets, h \in {Start[s] : s \in Slots} :
           Need(resv', claims', a, h) > Need(resv, claims, a, h) =>
              Need(resv', claims', a, h) <= assets'[a].total]_allVars
  <2>1. {Start[s] : s \in Slots} \subseteq Nat
    BY SlotsAssumption
  <2> QED
    BY <2>1, QuotaStep
<1> QED
  BY <1>1, AssetsInvariance, PTL DEF AssetsSpec, QuotaRespected
=============================================================================
