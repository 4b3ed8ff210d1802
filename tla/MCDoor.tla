------------------------------- MODULE MCDoor -------------------------------
(* Constants of the runs of DoorControl.  The flag the stack has left in   *)
(* buf is one that ranging never clears, as it belongs to the detection:   *)
(* it travels with every report.                                           *)
EXTENDS DoorControl

LeftOnStack == {"recognize_result"}
=============================================================================
