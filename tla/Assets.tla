---------------------------- MODULE Assets ----------------------------
(***************************************************************************)
(* The equipment of the laboratories: assets, the claims a reservation     *)
(* makes on them, their windows of use, the qualifications they ask for    *)
(* and their maintenance orders, beside the requests of Booking.           *)
(*                                                                         *)
(* A claim is tested inside the transaction that books; the maintenance    *)
(* requests look for an open order before their transaction begins, so     *)
(* they are two steps of an administrator's worker.                        *)
(***************************************************************************)
EXTENDS Booking

CONSTANTS
  Assets,          \* pieces of equipment an administrator may enter
  AssetLab,        \* asset -> its laboratory
  Windows,         \* windows an administrator may give: sets of starting times
  Expiries,        \* expires_at of a qualification, 0: it does not expire
  Desks,           \* workers that serve maintenance requests at one time
  \* bounds of the model
  MaxTotal,        \* copies of one asset, 999 in the code
  MaxWindows,      \* windows of one asset
  MaxClaims,       \* assets of one reservation, 5 in the code
  MaxOrders,       \* rows of the maintenance table
  MaxWork          \* reservations, waits, orders and edits of a behaviour

ASSUME AssetsAssumption ==
  /\ IsFiniteSet(Assets)
  /\ AssetLab \in [Assets -> Labs]
  /\ Windows \subseteq SUBSET Nat
  /\ Expiries \subseteq Nat
  /\ MaxTotal \in Nat \ {0}
  /\ {MaxWindows, MaxClaims, MaxOrders, MaxWork} \subseteq Nat

VARIABLES
  assets,     \* asset -> [total, status, qualified], for those entered so far
  claims,     \* asset_claims: [resv, asset]
  windows,    \* asset -> its windows in the order of their ids
  quals,      \* qualifications: [user, asset, expires]
  orders,     \* asset_maintenance: [asset, open]
  desks,      \* what a worker has read: [pc, asset, order]
  disturbed,  \* history: see MaintenanceHolds
  edits       \* requests that changed assets, windows or qualifications

equipment == <<assets, windows, quals>>
maintenance == <<orders, desks, disturbed>>
assetVars == <<equipment, claims, maintenance, edits>>
allVars == <<vars, assetVars>>

Condition == {"AVAILABLE", "MAINTENANCE", "DISABLED"}
IdleDesk == [pc |-> "idle", asset |-> {}, order |-> 0]

AssetsInit ==
  /\ Init
  /\ assets = <<>>
  /\ claims = {} /\ quals = {}
  /\ windows = [a \in Assets |-> <<>>]
  /\ orders = <<>>
  /\ desks = [d \in Desks |-> IdleDesk]
  /\ disturbed = {}
  /\ edits = 0

\* bound of the model: a request that may add to the tables finds room
Room == Len(resv) + Len(waits) + Len(orders) + edits < MaxWork
-----------------------------------------------------------------------------
(***************************************************************************)
(* Claims.  r is the reservations table.                                   *)
(***************************************************************************)
ClaimsOf(i) == {c.asset : c \in {x \in claims : x.resv = i}}

\* live claims on a that overlap slot s, the one of row i left out
InUse(r, a, s, i) ==
  {c \in claims : /\ c.asset = a /\ c.resv # i
                  /\ Live(r[c.resv]) /\ Overlaps(r[c.resv].slot, s)}

Available(a, s) ==
  /\ a \in DOMAIN assets
  /\ AssetLab[a] = LabOf[s]
  /\ assets[a].status = "AVAILABLE"

QualifiedFor(u, a) ==
  assets[a].qualified =>
    \E q \in quals : /\ q.user = u /\ q.asset = a
                     /\ q.expires = 0 \/ q.expires > now

\* An asset without windows may be used at any time.  Weekday mask and minutes
\* of a window are told by the starting times that lie in it.
WindowOk(a, s) ==
  windows[a] # <<>> => \E k \in DOMAIN windows[a] : Start[s] \in windows[a][k]

ClaimOk(r, u, s, a) ==
  /\ Available(a, s)
  /\ QualifiedFor(u, a)
  /\ WindowOk(a, s)
  /\ Cardinality(InUse(r, a, s, 0)) < assets[a].total

\* the row a reservation of this transaction appended, if any
Booked == {i \in DOMAIN resv' \ DOMAIN resv : resv'[i].source = "DIRECT"}

\* The claims are tested last, when a seat is there for the request.
ReserveClaiming(u, s, C) ==
  /\ Room
  /\ Reserve(u, s)
  /\ Booked # {} => \A a \in C : ClaimOk(resv', u, s, a)
  /\ claims' = claims \cup [resv: Booked, asset: C]
  /\ UNCHANGED <<equipment, maintenance, edits>>

\* A claim is refused.  The eviction and the promotions the request made on
\* its way are committed all the same.
TurnedAwayFirst(u, s, C) == \* mutant
  /\ "reserve" \in Requests /\ Admitted(u, s) /\ Open(s)
  /\ ~HoldsSeat(resv, u, s) /\ ~Refused(u, s, WeeklyTopup(accounts, u))
  /\ \E v \in Victim(u, s), a \in C :
       ~ClaimOk(resv, u, s, a) /\ Commit(Evict(resv, v), waits, accounts)
  /\ UNCHANGED assetVars
TurnedAway(u, s, C) ==
  /\ Room
  /\ "reserve" \in Requests
  /\ Admitted(u, s)
  /\ Open(s)
  /\ ~HoldsSeat(resv, u, s)
  /\ LET a == WeeklyTopup(accounts, u)
         Refuse(r, b) ==
           LET t == PromoteFill(r, waits, b, s) IN
           /\ ~HoldsSeat(t.resv, u, s)
           /\ Free(t.resv, s) > 0
           /\ \E x \in C : ~ClaimOk(t.resv, u, s, x)
           /\ CommitFill(t, b)
     IN /\ ~Refused(u, s, a)
        /\ \/ Free(resv, s) > 0 /\ Refuse(resv, a)
           \/ /\ Free(resv, s) <= 0
              /\ \E v \in Victim(u, s) :
                   Refuse(Evict(resv, v), CreditApply(a, resv[v].user, 1))
  /\ UNCHANGED assetVars

\* Only the number of copies is looked at again; the condition of the asset,
\* its windows and the qualification are not.
ClaimsFit(i, s) ==
  \A a \in ClaimsOf(i) : Cardinality(InUse(resv, a, s, i)) < assets[a].total

RescheduleClaiming(i, t) ==
  /\ Reschedule(i, t)
  /\ ClaimsFit(i, t)
  /\ UNCHANGED assetVars

ApproveUnfit(i) == Approve(i) /\ UNCHANGED assetVars \* mutant
ApproveClaiming(i) ==
  /\ Approve(i)
  /\ ClaimsFit(i, resv[i].slot)
  /\ UNCHANGED assetVars

\* The other requests of Booking neither read nor write these tables: the
\* claims of a row that is no longer live stop counting by themselves.
Unclaiming ==
  /\ \/ Tick
     \/ \E u \in Users, s \in Slots : Room /\ Join(u, s)
     \/ \E i \in DOMAIN resv : Cancel(i) \/ CheckIn(i) \/ Checkout(i) \/ Confirm(i)
     \/ \E j \in DOMAIN waits : Withdraw(j)
     \/ \E u \in Users, b \in Runs : Batch(u, b)
     \/ \E i \in DOMAIN resv : Reject(i) \/ ForceComplete(i) \/ ForceCancel(i)
     \/ \E s \in Slots, c \in 1..MaxCapacity, o \in BOOLEAN : SlotUpdate(s, c, o)
     \/ \E l \in Labs, o, p \in BOOLEAN : LabUpdate(l, o, p)
     \/ \E u \in Users : Disable(u) \/ Enable(u)
     \/ \E u \in Users, n \in 1..CreditBase : CreditGrant(u, n)
  /\ UNCHANGED assetVars
-----------------------------------------------------------------------------
(***************************************************************************)
(* asset_admin, asset_window_admin, asset_qual_admin.                      *)
(***************************************************************************)
Edit == Room /\ edits' = edits + 1 /\ UNCHANGED <<vars, claims, orders, desks>>

OpenOrders(o, a) == {k \in DOMAIN o : o[k].asset = a /\ o[k].open}

\* lab id given: a new asset, whose name is not yet taken
AssetCreate(a, n, c) ==
  /\ a \notin DOMAIN assets
  /\ assets' = [b \in DOMAIN assets \cup {a} |->
                  IF b = a THEN [total |-> n, status |-> c, qualified |-> FALSE]
                  ELSE assets[b]]
  /\ Edit
  /\ UNCHANGED <<windows, quals, disturbed>>

\* All columns are written, whatever orders or claims the asset has; a request
\* that names no status makes it AVAILABLE, one that names no total 1.
AssetUpdate(a, n, c) ==
  /\ assets' = [assets EXCEPT ![a].total = n, ![a].status = c]
  /\ disturbed' = IF OpenOrders(orders, a) = {} THEN disturbed ELSE disturbed \cup {a}
  /\ Edit
  /\ UNCHANGED <<windows, quals>>

WindowAdd(a, w) ==
  /\ Len(windows[a]) < MaxWindows
  /\ windows' = [windows EXCEPT ![a] = Append(@, w)]
  /\ Edit
  /\ UNCHANGED <<assets, quals, disturbed>>

WindowDelete(a, k) ==
  /\ windows' = [windows EXCEPT ![a] = SubSeq(@, 1, k - 1) \o SubSeq(@, k + 1, Len(@))]
  /\ Edit
  /\ UNCHANGED <<assets, quals, disturbed>>

QualGrantAgain(u, a, e) == \* mutant
  quals' = quals \cup {[user |-> u, asset |-> a, expires |-> e]}
    /\ Edit /\ UNCHANGED <<assets, windows, disturbed>>
QualGrant(u, a, e) ==
  /\ quals' = {q \in quals : q.user # u \/ q.asset # a}
                \cup {[user |-> u, asset |-> a, expires |-> e]}
  /\ Edit
  /\ UNCHANGED <<assets, windows, disturbed>>

QualRequire(a, on) ==
  /\ assets' = [assets EXCEPT ![a].qualified = on]
  /\ Edit
  /\ UNCHANGED <<windows, quals, disturbed>>

QualRevoke(q) ==
  /\ quals' = quals \ {q}
  /\ Edit
  /\ UNCHANGED <<assets, windows, disturbed>>
-----------------------------------------------------------------------------
(***************************************************************************)
(* asset_maintenance_admin.                                                *)
(***************************************************************************)
AtDesk(a) == {d \in Desks : a \in desks[d].asset}

\* Two requests for one asset overlap: history.
Look(d, a, op, k) ==
  /\ desks[d] = IdleDesk
  /\ desks' = [desks EXCEPT ![d] = [pc |-> op, asset |-> {a}, order |-> k]]
  /\ disturbed' = IF AtDesk(a) = {} THEN disturbed ELSE disturbed \cup {a}
  /\ UNCHANGED <<vars, equipment, claims, orders, edits>>

LookToOpen(d, a) == OpenOrders(orders, a) = {} /\ Look(d, a, "open", 0)

LookToClose(d, a) ==
  \E k \in OpenOrders(orders, a) :
     (\A j \in OpenOrders(orders, a) : j <= k) /\ Look(d, a, "close", k)

\* The write of a request: nothing it has read is looked at again.
Done(d, a, rows, status) ==
  /\ orders' = rows
  /\ assets' = [assets EXCEPT ![a].status = status]
  /\ desks' = [desks EXCEPT ![d] = IdleDesk]
  /\ disturbed' = IF OpenOrders(rows, a) = {} /\ AtDesk(a) = {d}
                  THEN disturbed \ {a} ELSE disturbed
  /\ UNCHANGED <<vars, windows, quals, claims, edits>>

\* A DISABLED asset too is put under maintenance.
OpenOrder(d, a) ==
  /\ desks[d].pc = "open" /\ a \in desks[d].asset
  /\ Room /\ Len(orders) < MaxOrders
  /\ Done(d, a, Append(orders, [asset |-> a, open |-> TRUE]), "MAINTENANCE")

CloseOrderLeavingRow(d, a) == \* mutant
  /\ desks[d].pc = "close" /\ a \in desks[d].asset
  /\ Done(d, a, orders, "AVAILABLE")
CloseOrder(d, a) ==
  /\ desks[d].pc = "close" /\ a \in desks[d].asset
  /\ Done(d, a, [orders EXCEPT ![desks[d].order].open = FALSE],
          IF assets[a].status = "MAINTENANCE" THEN "AVAILABLE" ELSE assets[a].status)
-----------------------------------------------------------------------------
AssetsNext ==
  \/ \E u \in Users, s \in Slots, C \in SUBSET Assets :
       Cardinality(C) <= MaxClaims /\ (ReserveClaiming(u, s, C) \/ TurnedAway(u, s, C))
  \/ \E i \in DOMAIN resv, t \in Slots : RescheduleClaiming(i, t)
  \/ \E i \in DOMAIN resv : ApproveClaiming(i)
  \/ Unclaiming
  \/ \E a \in Assets, n \in 1..MaxTotal, c \in Condition : AssetCreate(a, n, c)
  \/ \E a \in DOMAIN assets :
       \/ \E n \in 1..MaxTotal, c \in Condition : AssetUpdate(a, n, c)
       \/ \E w \in Windows : WindowAdd(a, w)
       \/ \E k \in DOMAIN windows[a] : WindowDelete(a, k)
       \/ \E u \in Users, e \in Expiries : QualGrant(u, a, e)
       \/ \E on \in BOOLEAN : QualRequire(a, on)
       \/ \E d \in Desks : LookToOpen(d, a) \/ LookToClose(d, a)
       \/ \E d \in Desks : OpenOrder(d, a) \/ CloseOrder(d, a)
  \/ \E q \in quals : QualRevoke(q)

AssetsSpec == AssetsInit /\ [][AssetsNext]_allVars
-----------------------------------------------------------------------------
(***************************************************************************)
(* Properties.                                                             *)
(***************************************************************************)

\* The tables hold rows of their schema: a claim is of an existing reservation
\* and an existing asset, a user has one qualification for an asset, and a
\* worker closes an order that exists.
AssetsTypeOK ==
  /\ DOMAIN assets \subseteq Assets
  /\ \A a \in DOMAIN assets :
       assets[a] \in [total: 1..MaxTotal, status: Condition, qualified: BOOLEAN]
  /\ claims \subseteq [resv: DOMAIN resv, asset: DOMAIN assets]
  /\ windows \in [Assets -> Seq(Windows)]
  /\ quals \subseteq [user: Users, asset: DOMAIN assets, expires: Expiries]
  /\ \A p, q \in quals : p.user = q.user /\ p.asset = q.asset => p = q
  /\ orders \in Seq([asset: DOMAIN assets, open: BOOLEAN])
  /\ \A d \in Desks : desks[d].pc = "close" => desks[d].order \in DOMAIN orders
  /\ disturbed \subseteq Assets

\* how many copies of asset a the reservations r need at the hour h
Need(r, c, a, h) ==
  Cardinality({x \in c : /\ x.asset = a /\ Live(r[x.resv])
                         /\ Start[r[x.resv].slot] <= h /\ h < End(r[x.resv].slot)})

\* BR12: no step makes more reservations count on an asset at one hour than
\* there are copies of it, be it a reservation, an approval, a change of date
\* or a promotion.  (Lowering the number of copies may leave more claims than
\* copies; such a state can then only get better.)
QuotaRespected ==
  [][\A a \in DOMAIN assets, h \in {Start[s] : s \in Slots} :
       Need(resv', claims', a, h) > Need(resv, claims, a, h) =>
          Need(resv', claims', a, h) <= assets'[a].total]_allVars

\* "Claims stay, the same laboratory guarantees that the asset belongs to it":
\* wherever a reservation is moved, its claims are of assets of its laboratory.
ClaimsInLab ==
  \A c \in claims : AssetLab[c.asset] = LabOf[resv[c.resv].slot]

\* An asset with an open maintenance order cannot be claimed, unless an
\* administrator wrote its status since the order was opened, or two
\* maintenance requests for it were handled at one time.
MaintenanceHolds ==
  \A a \in DOMAIN assets :
     (OpenOrders(orders, a) # {} /\ a \notin disturbed) => assets[a].status # "AVAILABLE"
=============================================================================
