-------------------------- MODULE FirstResult --------------------------
(***************************************************************************)
(* What the request receipts promise a client, told without clients that   *)
(* time out, servers that die and replies that get lost: the result of a   *)
(* request id is decided once, its effect happens with that decision, and  *)
(* whatever the client is told afterwards is that first result.            *)
(***************************************************************************)
EXTENDS Naturals

CONSTANTS
  Keys,      \* request ids
  Payloads,  \* what a request asks for
  Answers    \* results; the effective ones have status "done"

VARIABLES
  decided,   \* set of [key, asks, answer]
  effects,   \* [key, asks] -> how often its effect has happened
  told       \* set of [key, asks, answer]: the results clients have seen

Asked == [key: Keys, asks: Payloads]

FRInit == decided = {} /\ effects = [m \in Asked |-> 0] /\ told = {}

Decide(m, a) ==
  /\ \A d \in decided : d.key # m.key
  /\ decided' = decided \cup {[key |-> m.key, asks |-> m.asks, answer |-> a]}
  /\ effects' = IF a.status = "done" THEN [effects EXCEPT ![m] = @ + 1] ELSE effects
  /\ UNCHANGED told

Tell(d) ==
  /\ told' = told \cup {d}
  /\ UNCHANGED <<decided, effects>>

FRNext ==
  \/ \E m \in Asked, a \in Answers : Decide(m, a)
  \/ \E d \in decided : Tell(d)

FRSpec == FRInit /\ [][FRNext]_<<decided, effects, told>>
=============================================================================
