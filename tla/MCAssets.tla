---------------------------- MODULE MCAssets ----------------------------
(***************************************************************************)
(* A small instance of Assets for TLC: two hours of labA and one of labB,  *)
(* a microscope in labA.                                                   *)
(***************************************************************************)
EXTENDS Assets, TLC

CONSTANTS adm, u1, u2, labA, labB, a1, a2, b1, microscope, d1, d2

MCLabOf == [s \in Slots |-> IF s = b1 THEN labB ELSE labA]
MCStart == [s \in Slots |-> IF s = a2 THEN 2 ELSE 1]
MCCapacity == [s \in Slots |-> IF s = a1 THEN 2 ELSE 1]
MCAging == [t \in 0..MaxTime |-> 0]
MCWindows == {{1}}
MCAssetLab == [a \in Assets |-> labA]
MCSymmetry == Permutations(Users \ Admins) \cup Permutations(Desks)
=============================================================================
