-------------------------- MODULE MCAccounts --------------------------
(***************************************************************************)
(* A small instance of Accounts for TLC.                                   *)
(***************************************************************************)
EXTENDS Accounts, TLC

CONSTANTS root, amy, p1, p2, none, w1, w2

MCRequests ==
  {[by |-> amy, do |-> d, about |-> 0] : d \in {"token", "password"}}
    \cup {[by |-> amy, do |-> "delete", about |-> i] : i \in 1..MaxIds}
    \cup {[by |-> amy, do |-> "disable", about |-> amy]}
    \cup {[by |-> root, do |-> "disable", about |-> n] : n \in Names}
    \cup {[by |-> root, do |-> d, about |-> amy] : d \in {"enable", "reset"}}

Symmetry == Permutations(Workers)
=============================================================================
