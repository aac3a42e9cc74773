--------------------------- MODULE Receipts ---------------------------
(***************************************************************************)
(* Requests that change something carry a request id chosen by the client, *)
(* who sends the same request again when no answer came.  A handler leaves *)
(* a receipt in the transaction that does the work:                        *)
(*                                                                         *)
(*   Replayed   booking() reads the receipt first and repeats its result,  *)
(*   Written    checkout, reschedule and the approvals only insert one,    *)
(*   the rest   batch, confirm, force and the grant of credit keep none.   *)
(*                                                                         *)
(* A transaction is one step, as in Booking; here the steps around it are  *)
(* apart: a request waits for a worker, the worker commits, the reply      *)
(* travels, and the process may die between any two of them.               *)
(***************************************************************************)
EXTENDS Naturals, FiniteSets

CONSTANTS
  Keys,        \* request ids (of one user each: the primary key holds both)
  Payloads,    \* an action with its canonical arguments
  Replayed,
  Written,
  NoPayload,   \* the client of this id has asked nothing yet
  MaxCopies,   \* copies of one request, or its replies, under way: bound of the model
  MaxVersion,  \* effects committed: bound of the model
  MaxFaults    \* failures, refused sessions, lost replies, misused ids, crashes: bound

ASSUME PayloadsAssumption ==
  /\ Replayed \subseteq Payloads /\ Written \subseteq Payloads
  /\ Replayed \cap Written = {}
  /\ NoPayload \notin Payloads
ASSUME ReceiptBounds == MaxCopies \in Nat /\ MaxVersion \in Nat /\ MaxFaults \in Nat

VARIABLES
  asking,    \* key -> what its client wants, or NoPayload
  inbox,     \* request -> copies of it that wait for a worker
  replies,   \* replies on their way
  heard,     \* replies a client goes by: all but the ones that say "try again"
  receipts,  \* the table request_receipts
  effects,   \* request -> how often its effect has been committed
  version,   \* effects committed so far
  faults

receiptVars == <<asking, inbox, replies, heard, receipts, effects, version, faults>>

Request == [key: Keys, asks: Payloads]
Kept == Replayed \cup Written

\* A result quotes the rows it found or made: version stands for them.
Results == [status: {"done", "refused"}, version: 0..MaxVersion]
Failure == [status |-> "failed", version |-> 0]     \* 500 or 503
Conflict == [status |-> "conflict", version |-> 0]  \* REQUEST_ID_CONFLICT
Denied == [status |-> "denied", version |-> 0]      \* 401, the account is disabled
Answer == Results \cup {Failure, Conflict, Denied}
TryAgain == {Failure, Denied}                       \* the page keeps the request and its id
Reply == [key: Keys, asks: Payloads, answer: Answer]

Told(m, a) == [key |-> m.key, asks |-> m.asks, answer |-> a]
ReceiptsOf(k) == {row \in receipts : row.key = k}

ReceiptInit ==
  /\ asking = [k \in Keys |-> NoPayload]
  /\ inbox = [m \in Request |-> 0]
  /\ replies = {} /\ heard = {} /\ receipts = {}
  /\ effects = [m \in Request |-> 0]
  /\ version = 0 /\ faults = 0
-----------------------------------------------------------------------------
(***************************************************************************)
(* Clients.                                                                *)
(***************************************************************************)
Settled(k) == \E h \in heard : h.key = k /\ h.asks = asking[k]

InFlight(m) == {r \in replies : r.key = m.key /\ r.asks = m.asks}

Transmit(m) ==
  /\ inbox[m] + Cardinality(InFlight(m)) < MaxCopies
  /\ inbox' = [inbox EXCEPT ![m] = @ + 1]

Ask(k, p) ==
  /\ asking[k] = NoPayload
  /\ asking' = [asking EXCEPT ![k] = p]
  /\ Transmit([key |-> k, asks |-> p])
  /\ UNCHANGED <<replies, heard, receipts, effects, version, faults>>

\* No answer in time, or a failure: the same request under the same id.  An
\* earlier copy may still wait or have been answered meanwhile.
Retry(k) ==
  /\ asking[k] # NoPayload /\ ~Settled(k)
  /\ Transmit([key |-> k, asks |-> asking[k]])
  /\ UNCHANGED <<asking, replies, heard, receipts, effects, version, faults>>

\* A client that takes one id for two requests.
Reuse(k, p) ==
  /\ asking[k] # NoPayload /\ p # asking[k]
  /\ faults < MaxFaults /\ faults' = faults + 1
  /\ Transmit([key |-> k, asks |-> p])
  /\ UNCHANGED <<asking, replies, heard, receipts, effects, version>>
-----------------------------------------------------------------------------
(***************************************************************************)
(* Workers.  Taken is the part every handler shares; the reply follows the *)
(* COMMIT or the ROLLBACK.                                                 *)
(***************************************************************************)
Taken(m, a) ==
  /\ inbox[m] > 0
  /\ inbox' = [inbox EXCEPT ![m] = @ - 1]
  /\ replies' = replies \cup {Told(m, a)}
  /\ UNCHANGED <<asking, heard>>

Nothing == UNCHANGED <<receipts, effects, version>>

\* The transaction of a handler that has found no receipt: the request is
\* carried out or refused by the rules of Booking, and the receipt of either
\* result is inserted before the COMMIT.
ActWithoutReceipt(m, status) == \* mutant
  /\ version < MaxVersion
  /\ Taken(m, [status |-> status, version |-> version + 1])
  /\ effects' = IF status = "done" THEN [effects EXCEPT ![m] = @ + 1] ELSE effects
  /\ version' = version + 1 /\ UNCHANGED <<receipts, faults>>
ActUnkeyed(m, status) == \* mutant
  LET a == [status |-> status, version |-> version] IN
  /\ m.asks \in Replayed => ReceiptsOf(m.key) = {}
  /\ status = "done" => version < MaxVersion
  /\ Taken(m, a)
  /\ receipts' = IF m.asks \in Kept THEN receipts \cup {Told(m, a)} ELSE receipts
  /\ effects' = IF status = "done" THEN [effects EXCEPT ![m] = @ + 1] ELSE effects
  /\ version' = IF status = "done" THEN version + 1 ELSE version
  /\ UNCHANGED faults
Act(m, status) ==
  LET a == [status |-> status, version |-> version] IN
  /\ m.asks \in Kept => ReceiptsOf(m.key) = {}
  /\ status = "done" => version < MaxVersion
  /\ Taken(m, a)
  /\ receipts' = IF m.asks \in Kept THEN receipts \cup {Told(m, a)} ELSE receipts
  /\ effects' = IF status = "done" THEN [effects EXCEPT ![m] = @ + 1] ELSE effects
  /\ version' = IF status = "done" THEN version + 1 ELSE version
  /\ UNCHANGED faults

\* booking() finds a receipt of this user and id.
ReplayAnything(m) == \* mutant
  /\ m.asks \in Replayed
  /\ \E row \in ReceiptsOf(m.key) : Taken(m, row.answer)
  /\ Nothing /\ UNCHANGED faults
ReplayOrFail(m) == \* mutant
  /\ m.asks \in Replayed
  /\ \E row \in ReceiptsOf(m.key) :
       Taken(m, IF row.asks = m.asks THEN row.answer ELSE Failure)
  /\ Nothing /\ UNCHANGED faults
Replay(m) ==
  /\ m.asks \in Replayed
  /\ \E row \in ReceiptsOf(m.key) :
       Taken(m, IF row.asks = m.asks THEN row.answer ELSE Conflict)
  /\ Nothing /\ UNCHANGED faults

\* The other handlers act first; then the INSERT meets the primary key, and
\* the work is rolled back.
Collide(m) ==
  /\ m.asks \in Written /\ ReceiptsOf(m.key) # {}
  /\ Taken(m, Failure)
  /\ Nothing /\ UNCHANGED faults

\* The session is not accepted, or the account is disabled: every handler is
\* told so before it looks for anything.
Deny(m) ==
  /\ faults < MaxFaults /\ faults' = faults + 1
  /\ Taken(m, Denied)
  /\ Nothing

\* A statement fails or the database stays busy: nothing is left of the work.
Fail(m) ==
  /\ faults < MaxFaults /\ faults' = faults + 1
  /\ Taken(m, Failure)
  /\ Nothing

Hear(r) ==
  /\ r \in replies
  /\ replies' = replies \ {r}
  /\ heard' = IF r.answer \in TryAgain THEN heard ELSE heard \cup {r}
  /\ UNCHANGED <<asking, inbox, receipts, effects, version, faults>>

\* The client has given up waiting and closed the connection.
Lose(r) ==
  /\ r \in replies /\ faults < MaxFaults
  /\ replies' = replies \ {r} /\ faults' = faults + 1
  /\ UNCHANGED <<asking, inbox, heard, receipts, effects, version>>

\* The process dies, also between a COMMIT and its reply; what was committed
\* stays, every connection is gone.
CrashReceipts ==
  /\ faults < MaxFaults /\ faults' = faults + 1
  /\ inbox' = [m \in Request |-> 0] /\ replies' = {}
  /\ UNCHANGED <<asking, heard, receipts, effects, version>>
-----------------------------------------------------------------------------
Handle(m) ==
  \/ \E status \in {"done", "refused"} : Act(m, status)
  \/ Replay(m) \/ Collide(m)

ReceiptNext ==
  \/ \E k \in Keys : Retry(k) \/ \E p \in Payloads : Ask(k, p) \/ Reuse(k, p)
  \/ \E m \in Request : Handle(m) \/ Deny(m) \/ Fail(m)
  \/ \E r \in replies : Hear(r) \/ Lose(r)
  \/ CrashReceipts

ReceiptSpec == ReceiptInit /\ [][ReceiptNext]_receiptVars
-----------------------------------------------------------------------------
(***************************************************************************)
(* Properties.                                                             *)
(***************************************************************************)

\* The receipts are rows with distinct ids, and every result on its way or
\* heard is one that some handler gave.
ReceiptTypeOK ==
  /\ asking \in [Keys -> Payloads \cup {NoPayload}]
  /\ inbox \in [Request -> 0..MaxCopies]
  /\ replies \subseteq Reply /\ heard \subseteq Reply
  /\ receipts \subseteq [key: Keys, asks: Kept, answer: Results]
  /\ effects \in [Request -> Nat]
  /\ version \in 0..MaxVersion /\ faults \in 0..MaxFaults
  /\ \A x, y \in receipts : x.key = y.key => x = y

\* A request id has at most one effect, however often the request was sent,
\* and whatever else was sent under the same id to handlers with receipts.
AtMostOnce ==
  \A m, n \in {q \in Request : q.asks \in Kept} :
     /\ effects[m] <= 1
     /\ (m.key = n.key /\ effects[m] = 1 /\ effects[n] = 1) => m = n

\* A client that was told its request is done can rely on it: the effect and
\* the receipt are in the database, also after every crash that follows.
DoneIsDurable ==
  \A h \in heard :
     h.answer.status = "done" =>
        /\ effects[[key |-> h.key, asks |-> h.asks]] > 0
        /\ h.asks \in Kept => h \in receipts

\* The receipts carry out what FirstResult promises, for the handlers that
\* keep one: the contract's "the same key and arguments return the original
\* result", as far as a result is returned at all.
KeptOnly(S) == {x \in S : x.asks \in Kept}
First ==
  INSTANCE FirstResult WITH
    Payloads <- Kept,
    Answers <- Results,
    decided <- receipts,
    effects <- [m \in [key: Keys, asks: Kept] |-> effects[m]],
    told <- {h \in KeptOnly(heard) : h.answer \in Results}
ReturnsFirstResult == First!FRSpec
=============================================================================
