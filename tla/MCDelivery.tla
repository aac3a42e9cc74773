-------------------------- MODULE MCDelivery --------------------------
(***************************************************************************)
(* Small instances of Delivery for TLC.                                    *)
(***************************************************************************)
EXTENDS Delivery

CONSTANTS k1, reserve, checkout, announce, none, hold

MCTopics == Request \cup {hold}
=============================================================================
