------------------------ MODULE ReceiptsProofs ------------------------
(***************************************************************************)
(* Proofs about Receipts, for any number of clients, copies and crashes.   *)
(*                                                                         *)
(* AtMostOnce is not inductive: nothing in it says that an effect without  *)
(* a receipt cannot exist.  The invariant ties the two tables together     *)
(* (an effect of a kept request has its receipt, a receipt of a request    *)
(* that was done has its effect) and both to the replies under way.        *)
(***************************************************************************)
EXTENDS Receipts, FiniteSetTheorems, TLAPS

Effect(row) == effects[[key |-> row.key, asks |-> row.asks]]

\* The effect of a request with a receipt is the one the receipt tells of.
EffectsReceipted ==
  \A m \in Request :
     m.asks \in Kept =>
        /\ effects[m] \in {0, 1}
        /\ effects[m] = 1 => \E row \in receipts :
              row.key = m.key /\ row.asks = m.asks /\ row.answer.status = "done"
ReceiptsEffective == \A row \in receipts : row.answer.status = "done" => Effect(row) > 0

\* A result that is told was committed.
Truthful(r) ==
  /\ r.answer.status = "done" => Effect(r) > 0
  /\ (r.answer \in Results /\ r.asks \in Kept) => r \in receipts
ToldTruthfully == \A r \in replies \cup heard : Truthful(r)

IInv ==
  /\ ReceiptTypeOK
  /\ IsFiniteSet(replies)
  /\ EffectsReceipted
  /\ ReceiptsEffective
  /\ ToldTruthfully
-----------------------------------------------------------------------------
\* The answers that say no are no results.
LEMMA NoResult ==
  /\ Failure \notin Results /\ Failure.status # "done" /\ Failure \in Answer
  /\ Conflict \notin Results /\ Conflict.status # "done" /\ Conflict \in Answer
  /\ Denied \notin Results /\ Denied.status # "done" /\ Denied \in Answer
BY DEF Failure, Conflict, Denied, Results, Answer

\* Sending a copy keeps the count of copies under its bound.
LEMMA TransmitType ==
  ASSUME IInv, NEW m \in Request, Transmit(m)
  PROVE  inbox' \in [Request -> 0..MaxCopies]
<1>1. IsFiniteSet(InFlight(m))
  BY FS_Subset DEF IInv, InFlight
<1>2. Cardinality(InFlight(m)) \in Nat
  BY <1>1, FS_CardinalityType
<1>3. inbox[m] \in 0..MaxCopies /\ inbox[m] < MaxCopies
  BY <1>2, ReceiptBounds DEF Transmit, IInv, ReceiptTypeOK
<1> QED
  BY <1>3, ReceiptBounds DEF Transmit, IInv, ReceiptTypeOK

\* Where the tables and what is told stay, so does what the invariant says of
\* them.
LEMMA SameTables ==
  ASSUME IInv, receipts' = receipts, effects' = effects,
         (replies \cup heard)' \subseteq replies \cup heard
  PROVE  EffectsReceipted' /\ ReceiptsEffective' /\ ToldTruthfully'
BY DEF IInv, EffectsReceipted, ReceiptsEffective, ToldTruthfully, Truthful, Effect

\* A worker that takes a request and changes no table tells an answer that is
\* no result, or the one of a receipt.
LEMMA TakenKeeps ==
  ASSUME IInv, NEW m \in Request, NEW a \in Answer, Taken(m, a),
         Nothing, faults' \in 0..MaxFaults,
         Truthful(Told(m, a))
  PROVE  IInv'
<1>1. Told(m, a) \in Reply /\ replies' = replies \cup {Told(m, a)}
  BY DEF Told, Reply, Request, Taken
<1>2. inbox[m] - 1 \in 0..MaxCopies
  BY ReceiptBounds DEF Taken, IInv, ReceiptTypeOK
<1>3. ReceiptTypeOK'
  BY <1>1, <1>2 DEF Taken, Nothing, IInv, ReceiptTypeOK
<1>4. IsFiniteSet(replies')
  BY <1>1, FS_AddElement DEF IInv
<1>5. EffectsReceipted' /\ ReceiptsEffective'
  BY DEF Nothing, IInv, EffectsReceipted, ReceiptsEffective, Effect
<1>6. ToldTruthfully'
  BY <1>1 DEF Taken, Nothing, IInv, ToldTruthfully, Truthful, Effect
<1> QED
  BY <1>3, <1>4, <1>5, <1>6 DEF IInv
-----------------------------------------------------------------------------
\* The transaction that does the work, or refuses it.
LEMMA ActKeeps ==
  ASSUME IInv, NEW m \in Request, NEW status \in {"done", "refused"}, Act(m, status)
  PROVE  IInv'
<1>1. PICK a \in Results : a = [status |-> status, version |-> version]
  BY DEF Results, IInv, ReceiptTypeOK
<1> a \in Answer
  BY DEF Answer
<1> DEFINE t == Told(m, a)
<1>2. /\ t \in Reply /\ t.key = m.key /\ t.asks = m.asks /\ t.answer = a
      /\ m = [key |-> m.key, asks |-> m.asks] /\ m.key \in Keys /\ m.asks \in Payloads
  BY DEF Told, Reply, Request
<1>3. /\ replies' = replies \cup {t} /\ heard' = heard /\ asking' = asking
      /\ inbox[m] > 0 /\ inbox' = [inbox EXCEPT ![m] = @ - 1] /\ faults' = faults
  BY <1>1 DEF Act, Taken
<1>4. /\ m.asks \in Kept => ReceiptsOf(m.key) = {}
      /\ receipts' = IF m.asks \in Kept THEN receipts \cup {t} ELSE receipts
      /\ effects' = IF status = "done" THEN [effects EXCEPT ![m] = @ + 1] ELSE effects
      /\ version' = IF status = "done" THEN version + 1 ELSE version
      /\ status = "done" => version < MaxVersion
  BY <1>1 DEF Act
<1>5. effects \in [Request -> Nat] /\ effects' \in [Request -> Nat]
  BY <1>4 DEF IInv, ReceiptTypeOK
<1>6. \A n \in Request : effects'[n] >= effects[n]
  BY <1>4, <1>5
<1>7. receipts \subseteq receipts'
  BY <1>4
<1>8. ReceiptTypeOK'
  <2>1. inbox[m] - 1 \in 0..MaxCopies
    BY <1>3, ReceiptBounds DEF IInv, ReceiptTypeOK
  <2>2. inbox' \in [Request -> 0..MaxCopies]
    BY <1>3, <2>1 DEF IInv, ReceiptTypeOK
  <2>3. version' \in 0..MaxVersion
    BY <1>4, ReceiptBounds DEF IInv, ReceiptTypeOK
  <2>4. receipts' \subseteq [key: Keys, asks: Kept, answer: Results]
    BY <1>2, <1>4 DEF IInv, ReceiptTypeOK, Told
  <2>5. \A x, y \in receipts' : x.key = y.key => x = y
    BY <1>2, <1>4 DEF IInv, ReceiptTypeOK, ReceiptsOf
  <2> QED
    BY <1>2, <1>3, <1>5, <2>2, <2>3, <2>4, <2>5 DEF IInv, ReceiptTypeOK
<1>9. IsFiniteSet(replies')
  BY <1>3, FS_AddElement DEF IInv
<1>10. EffectsReceipted'
  <2> SUFFICES ASSUME NEW n \in Request, n.asks \in Kept
               PROVE  /\ effects'[n] \in {0, 1}
                      /\ effects'[n] = 1 => \E row \in receipts' :
                           row.key = n.key /\ row.asks = n.asks /\ row.answer.status = "done"
    BY DEF EffectsReceipted
  <2>1. CASE n = m /\ status = "done"
    <3>1. ReceiptsOf(m.key) = {}
      BY <1>4, <2>1
    <3>2. effects[m] = 0
      BY <2>1, <3>1 DEF IInv, EffectsReceipted, ReceiptsOf
    <3>3. effects'[n] = 1
      BY <1>4, <1>5, <2>1, <3>2
    <3>4. t \in receipts' /\ t.answer.status = "done"
      BY <1>1, <1>2, <1>4, <2>1
    <3> QED
      BY <1>2, <2>1, <3>3, <3>4
  <2>2. CASE ~(n = m /\ status = "done")
    <3>1. effects'[n] = effects[n]
      BY <1>4, <1>5, <2>2
    <3> QED
      BY <1>7, <3>1 DEF IInv, EffectsReceipted
  <2> QED
    BY <2>1, <2>2
<1>11. status = "done" => effects'[m] > 0
  BY <1>4, <1>5
<1>12. ASSUME NEW r \in Reply, Effect(r) > 0
       PROVE  effects'[[key |-> r.key, asks |-> r.asks]] > 0
  <2>1. [key |-> r.key, asks |-> r.asks] \in Request
    BY DEF Reply, Request
  <2> QED
    BY <1>5, <1>6, <1>12, <2>1 DEF Effect
<1>13. ReceiptsEffective'
  <2> SUFFICES ASSUME NEW row \in receipts', row.answer.status = "done"
               PROVE  effects'[[key |-> row.key, asks |-> row.asks]] > 0
    BY DEF ReceiptsEffective, Effect
  <2>1. CASE row = t
    BY <1>1, <1>2, <1>11, <2>1
  <2>2. CASE row \in receipts
    <3>1. row \in Reply
      BY <2>2, PayloadsAssumption DEF IInv, ReceiptTypeOK, Reply, Answer, Kept
    <3> QED
      BY <1>12, <2>2, <3>1 DEF IInv, ReceiptsEffective
  <2> QED
    BY <1>4, <2>1, <2>2
<1>14. ToldTruthfully'
  <2> SUFFICES ASSUME NEW r \in replies' \cup heard'
               PROVE  /\ r.answer.status = "done" => effects'[[key |-> r.key, asks |-> r.asks]] > 0
                      /\ (r.answer \in Results /\ r.asks \in Kept) => r \in receipts'
    BY DEF ToldTruthfully, Truthful, Effect
  <2>1. CASE r = t
    BY <1>1, <1>2, <1>4, <1>11, <2>1
  <2>2. CASE r \in replies \cup heard
    <3>1. r \in Reply /\ Truthful(r)
      BY <2>2 DEF IInv, ReceiptTypeOK, ToldTruthfully
    <3> QED
      BY <1>7, <1>12, <3>1 DEF Truthful
  <2> QED
    BY <1>3, <2>1, <2>2
<1> QED
  BY <1>8, <1>9, <1>10, <1>13, <1>14 DEF IInv

\* A receipt that is found is repeated only to the request that left it.
LEMMA ReplayKeeps ==
  ASSUME IInv, NEW m \in Request, Replay(m)
  PROVE  IInv'
<1>1. PICK row \in ReceiptsOf(m.key) :
         Taken(m, IF row.asks = m.asks THEN row.answer ELSE Conflict)
  BY DEF Replay
<1>2. /\ row \in receipts /\ row.key = m.key
      /\ row = [key |-> row.key, asks |-> row.asks, answer |-> row.answer]
      /\ row.answer \in Results
  BY DEF ReceiptsOf, IInv, ReceiptTypeOK
<1>3. Nothing /\ faults' \in 0..MaxFaults
  BY DEF Replay, IInv, ReceiptTypeOK
<1>4. CASE row.asks = m.asks
  <2>1. Told(m, row.answer) = row
    BY <1>2, <1>4 DEF Told
  <2>2. Truthful(Told(m, row.answer))
    BY <1>2, <2>1 DEF Truthful, IInv, ReceiptsEffective
  <2> QED
    BY <1>1, <1>2, <1>3, <1>4, <2>2, TakenKeeps DEF Answer
<1>5. CASE row.asks # m.asks
  <2>1. Truthful(Told(m, Conflict))
    BY NoResult DEF Truthful, Told
  <2> QED
    BY <1>1, <1>3, <1>5, <2>1, NoResult, TakenKeeps
<1> QED
  BY <1>4, <1>5

\* Collisions, denials and failed transactions tell no result.
LEMMA RefusalKeeps ==
  ASSUME IInv, NEW m \in Request, Collide(m) \/ Deny(m) \/ Fail(m)
  PROVE  IInv'
<1>1. Truthful(Told(m, Failure)) /\ Truthful(Told(m, Denied))
  BY NoResult DEF Truthful, Told
<1>2. Nothing /\ faults' \in 0..MaxFaults
  BY ReceiptBounds DEF Collide, Deny, Fail, IInv, ReceiptTypeOK
<1>3. Taken(m, Failure) \/ Taken(m, Denied)
  BY DEF Collide, Deny, Fail
<1> QED
  BY <1>1, <1>2, <1>3, NoResult, TakenKeeps

\* Clients only send: the tables stay.
LEMMA ClientKeeps ==
  ASSUME IInv, NEW k \in Keys,
         Retry(k) \/ \E p \in Payloads : Ask(k, p) \/ Reuse(k, p)
  PROVE  IInv'
<1>1. UNCHANGED <<replies, heard, receipts, effects, version>>
  BY DEF Retry, Ask, Reuse
<1>2. EffectsReceipted' /\ ReceiptsEffective' /\ ToldTruthfully'
  BY <1>1, SameTables
<1>3. PICK p \in Payloads : Transmit([key |-> k, asks |-> p])
  BY DEF Retry, Ask, Reuse, IInv, ReceiptTypeOK
<1>4. inbox' \in [Request -> 0..MaxCopies]
  BY <1>3, TransmitType DEF Request
<1>5. faults' \in 0..MaxFaults
  <2>1. faults' = faults \/ (faults < MaxFaults /\ faults' = faults + 1)
    BY DEF Retry, Ask, Reuse
  <2> QED
    BY <2>1, ReceiptBounds DEF IInv, ReceiptTypeOK
<1>6. asking' \in [Keys -> Payloads \cup {NoPayload}]
  <2>1. asking' = asking \/ \E q \in Payloads : asking' = [asking EXCEPT ![k] = q]
    BY DEF Retry, Ask, Reuse
  <2> QED
    BY <2>1 DEF IInv, ReceiptTypeOK
<1> QED
  BY <1>1, <1>2, <1>4, <1>5, <1>6 DEF IInv, ReceiptTypeOK

\* Replies are heard, lost, or die with the process; none is made up.
LEMMA NetworkKeeps ==
  ASSUME IInv, CrashReceipts \/ \E r \in replies : Hear(r) \/ Lose(r)
  PROVE  IInv'
<1>1. /\ UNCHANGED <<asking, receipts, effects, version>>
      /\ replies' \subseteq replies /\ heard' \subseteq replies \cup heard
      /\ faults' \in 0..MaxFaults
  BY ReceiptBounds DEF CrashReceipts, Hear, Lose, IInv, ReceiptTypeOK
<1>2. inbox' \in [Request -> 0..MaxCopies]
  BY ReceiptBounds DEF CrashReceipts, Hear, Lose, IInv, ReceiptTypeOK
<1>3. IsFiniteSet(replies')
  BY <1>1, FS_Subset DEF IInv
<1>4. EffectsReceipted' /\ ReceiptsEffective' /\ ToldTruthfully'
  BY <1>1, SameTables
<1> QED
  BY <1>1, <1>2, <1>3, <1>4 DEF IInv, ReceiptTypeOK
-----------------------------------------------------------------------------
\* No request was sent, nothing was committed.
LEMMA InitKeeps == ReceiptInit => IInv
<1> SUFFICES ASSUME ReceiptInit PROVE IInv
  OBVIOUS
<1>1. ReceiptTypeOK
  BY ReceiptBounds DEF ReceiptInit, ReceiptTypeOK
<1>2. EffectsReceipted /\ ReceiptsEffective /\ ToldTruthfully
  BY DEF ReceiptInit, EffectsReceipted, ReceiptsEffective, ToldTruthfully
<1> QED
  BY <1>1, <1>2, FS_EmptySet DEF ReceiptInit, IInv

LEMMA NextKeeps == IInv /\ [ReceiptNext]_receiptVars => IInv'
<1> SUFFICES ASSUME IInv, [ReceiptNext]_receiptVars PROVE IInv'
  OBVIOUS
<1>1. CASE \E k \in Keys : Retry(k) \/ \E p \in Payloads : Ask(k, p) \/ Reuse(k, p)
  BY <1>1, ClientKeeps
<1>2. CASE \E m \in Request : Handle(m) \/ Deny(m) \/ Fail(m)
  BY <1>2, ActKeeps, ReplayKeeps, RefusalKeeps DEF Handle
<1>3. CASE CrashReceipts \/ \E r \in replies : Hear(r) \/ Lose(r)
  BY <1>3, NetworkKeeps
<1>4. CASE UNCHANGED receiptVars
  <2>1. EffectsReceipted' /\ ReceiptsEffective' /\ ToldTruthfully'
    BY <1>4, SameTables DEF receiptVars
  <2> QED
    BY <1>4, <2>1 DEF receiptVars, IInv, ReceiptTypeOK
<1> QED
  BY <1>1, <1>2, <1>3, <1>4 DEF ReceiptNext

\* Receipts, effects and replies agree in every reachable state.
THEOREM ReceiptInvariance == ReceiptSpec => []IInv
BY InitKeeps, NextKeeps, PTL DEF ReceiptSpec

\* The receipts are rows with distinct ids, and every result on its way or
\* heard is one that some handler gave.
THEOREM ReceiptsTyped == ReceiptSpec => []ReceiptTypeOK
<1>1. IInv => ReceiptTypeOK
  BY DEF IInv
<1> QED
  BY <1>1, ReceiptInvariance, PTL

\* However often a request is sent, and whatever is lost or fails, a handler
\* that keeps a receipt has at most one effect under one request id.
THEOREM OnceOnly == ReceiptSpec => []AtMostOnce
<1>1. IInv => AtMostOnce
  BY DEF IInv, EffectsReceipted, AtMostOnce, ReceiptTypeOK, Request
<1> QED
  BY <1>1, ReceiptInvariance, PTL

\* What a client was told is done is in the database, before and after every
\* crash.
THEOREM DoneStays == ReceiptSpec => []DoneIsDurable
<1>1. IInv => DoneIsDurable
  <2> SUFFICES ASSUME IInv, NEW h \in heard, h.answer.status = "done"
               PROVE  /\ effects[[key |-> h.key, asks |-> h.asks]] > 0
                      /\ h.asks \in Kept => h \in receipts
    BY DEF DoneIsDurable
  <2>1. h \in Reply /\ Truthful(h)
    BY DEF IInv, ReceiptTypeOK, ToldTruthfully
  <2>2. h.answer \in Results
    BY <2>1, NoResult DEF Reply, Answer
  <2> QED
    BY <2>1, <2>2 DEF Truthful, Effect
<1> QED
  BY <1>1, ReceiptInvariance, PTL
-----------------------------------------------------------------------------
(***************************************************************************)
(* Receipts implements FirstResult.                                        *)
(***************************************************************************)
KeptEffects == [m \in [key: Keys, asks: Kept] |-> effects[m]]
ToldResults == {h \in KeptOnly(heard) : h.answer \in Results}

\* A transaction decides the result of its request id, or does not concern
\* the receipts at all.
LEMMA ActDecides ==
  ASSUME IInv, NEW m \in Request, NEW status \in {"done", "refused"}, Act(m, status)
  PROVE  First!FRNext \/ UNCHANGED <<receipts, KeptEffects, ToldResults>>
<1>1. PICK a \in Results : a = [status |-> status, version |-> version]
  BY DEF Results, IInv, ReceiptTypeOK
<1>2. heard' = heard /\ ToldResults' = ToldResults
  BY DEF Act, Taken, ToldResults, KeptOnly
<1>3. effects \in [Request -> Nat] /\ [key: Keys, asks: Kept] \subseteq Request
  BY PayloadsAssumption DEF IInv, ReceiptTypeOK, Request, Kept
<1>4. CASE m.asks \in Kept
  <2>1. m \in [key: Keys, asks: Kept]
    BY <1>4 DEF Request
  <2>2. \A d \in receipts : d.key # m.key
    BY <1>4 DEF Act, ReceiptsOf
  <2>3. receipts' = receipts \cup {[key |-> m.key, asks |-> m.asks, answer |-> a]}
    BY <1>1, <1>4 DEF Act, Told
  <2>4. KeptEffects' = IF a.status = "done" THEN [KeptEffects EXCEPT ![m] = @ + 1]
                       ELSE KeptEffects
    BY <1>1, <1>3, <2>1 DEF Act, KeptEffects
  <2>5. First!Decide(m, a)
    BY <1>2, <2>2, <2>3, <2>4 DEF First!Decide, KeptEffects, ToldResults
  <2> QED
    BY <2>1, <2>5 DEF First!FRNext, First!Asked
<1>5. CASE m.asks \notin Kept
  <2>1. receipts' = receipts
    BY <1>5 DEF Act
  <2>2. m \notin [key: Keys, asks: Kept]
    BY <1>5
  <2>3. KeptEffects' = KeptEffects
    BY <1>3, <2>2 DEF Act, KeptEffects
  <2> QED
    BY <1>2, <2>1, <2>3
<1> QED
  BY <1>4, <1>5

\* A client learns a result that was decided before.
LEMMA HearTells ==
  ASSUME IInv, NEW r \in replies, Hear(r)
  PROVE  First!FRNext \/ UNCHANGED <<receipts, KeptEffects, ToldResults>>
<1>1. UNCHANGED <<receipts, KeptEffects>>
  BY DEF Hear, KeptEffects
<1>2. CASE r.answer \in Results /\ r.asks \in Kept
  <2>1. r \in receipts
    BY <1>2 DEF IInv, ToldTruthfully, Truthful
  <2>2. heard' = heard \cup {r}
    BY <1>2, NoResult DEF Hear, TryAgain
  <2>3. ToldResults' = ToldResults \cup {r}
    BY <1>2, <2>2 DEF ToldResults, KeptOnly
  <2>4. First!Tell(r)
    BY <1>1, <2>3 DEF First!Tell, ToldResults, KeptEffects
  <2> QED
    BY <2>1, <2>4 DEF First!FRNext
<1>3. CASE ~(r.answer \in Results /\ r.asks \in Kept)
  <2>1. ToldResults' = ToldResults
    BY <1>3 DEF Hear, ToldResults, KeptOnly
  <2> QED
    BY <1>1, <2>1
<1> QED
  BY <1>2, <1>3

\* Receipts with retries, lost replies and crashes implements the plain
\* promise: the result of a request id is decided once, with its effect, and
\* no client is told another.
THEOREM ReceiptsImplementFirstResult == ReceiptSpec => ReturnsFirstResult
<1>1. ReceiptInit => First!FRInit
  BY PayloadsAssumption DEF ReceiptInit, First!FRInit, First!Asked, KeptOnly, Request, Kept
<1>2. IInv /\ [ReceiptNext]_receiptVars
        => [First!FRNext]_<<receipts, KeptEffects, ToldResults>>
  <2> SUFFICES ASSUME IInv, [ReceiptNext]_receiptVars
               PROVE  First!FRNext \/ UNCHANGED <<receipts, KeptEffects, ToldResults>>
    OBVIOUS
  <2>1. CASE \E k \in Keys : Retry(k) \/ \E p \in Payloads : Ask(k, p) \/ Reuse(k, p)
    BY <2>1 DEF Retry, Ask, Reuse, KeptEffects, ToldResults, KeptOnly
  <2>2. CASE \E m \in Request, status \in {"done", "refused"} : Act(m, status)
    BY <2>2, ActDecides
  <2>3. CASE \E m \in Request : Replay(m) \/ Collide(m) \/ Deny(m) \/ Fail(m)
    BY <2>3 DEF Replay, Collide, Deny, Fail, Taken, Nothing,
                KeptEffects, ToldResults, KeptOnly
  <2>4. CASE \E r \in replies : Hear(r)
    BY <2>4, HearTells
  <2>5. CASE CrashReceipts \/ \E r \in replies : Lose(r)
    BY <2>5 DEF CrashReceipts, Lose, KeptEffects, ToldResults, KeptOnly
  <2>6. CASE UNCHANGED receiptVars
    BY <2>6 DEF receiptVars, KeptEffects, ToldResults, KeptOnly
  <2> QED
    BY <2>1, <2>2, <2>3, <2>4, <2>5, <2>6 DEF ReceiptNext, Handle
<1>3. KeptEffects = [m \in [key: Keys, asks: Kept] |-> effects[m]]
  BY DEF KeptEffects
<1>4. ToldResults = {h \in KeptOnly(heard) : h.answer \in Results}
  BY DEF ToldResults
<1> QED
  BY <1>1, <1>2, ReceiptInvariance, PTL
     DEF ReturnsFirstResult, First!FRSpec, ReceiptSpec, KeptEffects, ToldResults
=============================================================================
