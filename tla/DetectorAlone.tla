---------------------------- MODULE DetectorAlone ----------------------------
(***************************************************************************)
(* The promise of the human detection as a specification of its own.  The  *)
(* rest of the program makes requests, sends messages and takes messages   *)
(* from sas_msg, each at any time the queues allow.                        *)
(***************************************************************************)
EXTENDS Detector

others == <<hpc, apc, detectstatus, range_status, picture, has_taken, initial_flag, door>>

Request ==
  /\ fpgamsg < MaxMsgs
  /\ fpgamsg' = fpgamsg + 1
  /\ UNCHANGED <<sas_msg, others>>

OtherReport ==
  /\ Send({"taking_now"})
  /\ UNCHANGED <<fpgamsg, others>>

Consume ==
  /\ sas_msg # << >>
  /\ sas_msg' = Tail(sas_msg)
  /\ UNCHANGED <<fpgamsg, others>>

Init == SharedInit /\ DetectorInit

Next ==
  \/ DetectorNext
  \/ Request
  \/ OtherReport
  \/ Consume

Spec == Init /\ [][Next]_<<sharedVars, detectorVars>>

=============================================================================
