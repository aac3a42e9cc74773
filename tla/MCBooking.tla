---------------------------- MODULE MCBooking ----------------------------
(***************************************************************************)
(* Small instances of Booking for TLC.                                     *)
(***************************************************************************)
EXTENDS Booking, TLC

CONSTANTS adm, u1, u2, u3, labA, labB, a1, a2, b1

\* a1 and b1 are the same hour in two laboratories, a2 follows a1
MCLabOf == [s \in Slots |-> IF s = b1 THEN labB ELSE labA]
MCCapacity == [s \in Slots |-> 1]
MCStart == [s \in Slots |-> IF s = a2 THEN 2 ELSE 1]
\* 60 * log2(1 + t), rounded
MCAging == [t \in 0..MaxTime |-> <<0, 60, 95, 120, 139>>[t + 1]]
MCSymmetry == Permutations(Users \ Admins)

\* The contract's rule for check-in, BR14 included: only reservations and waits
\* are closed LeadTime before the start of a slot, so an attendee whose window
\* is open can check in.
CheckInOpen ==
  \A i \in DOMAIN resv :
     (/\ resv[i].status = "CONFIRMED" /\ ~resv[i].checkedIn
      /\ accounts[resv[i].user].enabled /\ InCheckinWindow(resv[i])) => ENABLED CheckIn(i)
=============================================================================
