------------------------- MODULE MC_Notifications ---------------------------
(***************************************************************************)
(* Notifications for TLC: two objects and two destinations, so the three   *)
(* delete modes remove different sets; statuses that are resent by time   *)
(* (Update), always (Getdata) and never (Updated).                         *)
(***************************************************************************)
EXTENDS Notifications

CONSTANTS o1, o2, d1, d2

MCObjs == {o1, o2}
MCDests == {d1, d2}
MCStatuses == {"Update", "Getdata", "Updated"}
=============================================================================
