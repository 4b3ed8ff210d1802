------------------------------ MODULE Detector ------------------------------
(***************************************************************************)
(* What the human detection (fpgadrv.c) promises the rest of the program:  *)
(* a start request is taken from fpgamsg and, unless a detection is under  *)
(* way, accepted; an accepted request is answered by one message to the    *)
(* main thread, recognize_result or disappear_object, and the next one can *)
(* be accepted only after the answer has been sent.                        *)
(*                                                                         *)
(* Module HumanDetect is the code: two threads, the driver and the FPGA.   *)
(***************************************************************************)
EXTENDS SasShared

VARIABLES
  hpc,           (* exec_humandetect: waiting for a request, or holding one. *)
  apc,           (* adaboostthread: idle, or just after its answer.          *)
  detectstatus   (* 2 since power-up, 1 detecting, 0 ready.                  *)

detectorVars == <<hpc, apc, detectstatus>>

DetectorTypeOK ==
  /\ hpc \in {"receive", "camera"}
  /\ apc \in {"work", "answered"}
  /\ detectstatus \in 0 .. 2

DetectorInit ==
  /\ hpc = "receive"
  /\ apc = "work"
  /\ detectstatus = 2

(* Mutant: a request waits in the queue until the detection is ready.      *)
TakeRequestWhenReady ==
  /\ hpc = "receive"
  /\ fpgamsg > 0
  /\ detectstatus = 0
  /\ fpgamsg' = fpgamsg - 1
  /\ hpc' = "camera"
  /\ UNCHANGED <<apc, detectstatus,
                 sas_msg, range_status, picture, has_taken, initial_flag, door>>

(* The request is taken; the camera frame is read before it is looked at.  *)
TakeRequest ==
  /\ hpc = "receive"
  /\ fpgamsg > 0
  /\ fpgamsg' = fpgamsg - 1
  /\ hpc' = "camera"
  /\ UNCHANGED <<apc, detectstatus,
                 sas_msg, range_status, picture, has_taken, initial_flag, door>>

AcceptRequest ==
  /\ hpc = "camera"
  /\ detectstatus = 0
  /\ detectstatus' = 1
  /\ hpc' = "receive"
  /\ UNCHANGED <<apc, sharedVars>>

DropRequest ==
  /\ hpc = "camera"
  /\ detectstatus # 0
  /\ hpc' = "receive"
  /\ UNCHANGED <<apc, detectstatus, sharedVars>>

(* sas_msgSend(0) reports a human, sas_msgSend(1) that there is none.      *)
Answers == {{"recognize_result"}, {"disappear_object"}}

(* Mutant: nothing is sent when there is no human.                         *)
AnswerOnlyHuman ==
  /\ apc = "work"
  /\ detectstatus # 0
  /\ \/ Send({"recognize_result"})
     \/ UNCHANGED sas_msg
  /\ apc' = "answered"
  /\ UNCHANGED <<hpc, detectstatus,
                 fpgamsg, range_status, picture, has_taken, initial_flag, door>>

(* Mutant: an interrupt is answered even if no detection is under way.     *)
AnswerUnasked ==
  /\ apc = "work"
  /\ \E m \in Answers : Send(m)
  /\ apc' = "answered"
  /\ UNCHANGED <<hpc, detectstatus,
                 fpgamsg, range_status, picture, has_taken, initial_flag, door>>

Answer ==
  /\ apc = "work"
  /\ detectstatus # 0
  /\ \E m \in Answers : Send(m)
  /\ apc' = "answered"
  /\ UNCHANGED <<hpc, detectstatus,
                 fpgamsg, range_status, picture, has_taken, initial_flag, door>>

Finish ==
  /\ apc = "answered"
  /\ detectstatus' = 0
  /\ apc' = "work"
  /\ UNCHANGED <<hpc, sharedVars>>

DetectorNext ==
  \/ TakeRequest
  \/ AcceptRequest
  \/ DropRequest
  \/ Answer
  \/ Finish

=============================================================================
