------------------------------ MODULE MainLoop ------------------------------
(***************************************************************************)
(* The main thread (main.c).  It carries out the entry function of its     *)
(* status, waits for a message, changes status, takes a picture when one   *)
(* is due, and starts over: the entry function runs again even when the    *)
(* message changed nothing.                                                *)
(***************************************************************************)
EXTENDS SasShared

CONSTANT MotorMayFail   (* motor_initialize may return an error.           *)

ASSUME MotorMayFailAssumption == MotorMayFail \in BOOLEAN

AdStatus == {"initialize", "start_process", "wait_detect",
             "wait_calculate", "approval_open", "wait_close"}

VARIABLES
  mpc,             (* Where the main thread is in its loop.                *)
  status,
  taking_picture

mainVars == <<mpc, status, taking_picture>>

MainTypeOK ==
  /\ mpc \in {"enter", "request", "prepare", "open", "receive", "take"}
  /\ status \in AdStatus
  /\ taking_picture \in BOOLEAN

MainInit ==
  /\ mpc = "enter"
  /\ status = "initialize"
  /\ taking_picture = FALSE

MainAt(pc, next) == mpc = pc /\ mpc' = next

-----------------------------------------------------------------------------
(* Entry functions.                                                        *)

(* start_detectdistance sets the motor up and creates the ranging thread   *)
(* the first time; main ignores its result.                                *)
StartDetectDistance ==
  /\ MainAt("enter", "receive")
  /\ status = "initialize"
  /\ initial_flag' = TRUE
  /\ range_status' = "detect"
  /\ UNCHANGED <<status, taking_picture, door, sas_msg, fpgamsg, picture, has_taken>>

MotorInitializeFails ==
  /\ MotorMayFail
  /\ MainAt("enter", "receive")
  /\ status = "initialize"
  /\ ~initial_flag
  /\ UNCHANGED <<status, taking_picture, sharedVars>>

DetectSpeed ==
  /\ MainAt("enter", "request")
  /\ status = "start_process"
  /\ range_status' = "speed"
  /\ UNCHANGED <<status, taking_picture, initial_flag, door,
                 sas_msg, fpgamsg, picture, has_taken>>

(* Mutant: a request is sent to a queue that is full.                      *)
StartHumanDetectUnbounded ==
  /\ MainAt("request", "receive")
  /\ fpgamsg' = fpgamsg + 1
  /\ UNCHANGED <<status, taking_picture, initial_flag, door,
                 sas_msg, range_status, picture, has_taken>>

StartHumanDetect ==
  /\ MainAt("request", "receive")
  /\ fpgamsg < MaxMsgs
  /\ fpgamsg' = fpgamsg + 1
  /\ UNCHANGED <<status, taking_picture, initial_flag, door,
                 sas_msg, range_status, picture, has_taken>>

EnterWaitDetect ==
  /\ MainAt("enter", "receive")
  /\ status = "wait_detect"
  /\ UNCHANGED <<status, taking_picture, sharedVars>>

AfterPrepare == IF status = "approval_open" THEN "open" ELSE "receive"

(* prepare_picture reads has_taken and only then writes picture.           *)
PreparePictureTest ==
  /\ status \in {"wait_calculate", "approval_open"}
  /\ MainAt("enter", IF has_taken THEN AfterPrepare ELSE "prepare")
  /\ UNCHANGED <<status, taking_picture, sharedVars>>

PreparePictureSet ==
  /\ MainAt("prepare", AfterPrepare)
  /\ picture' = TRUE
  /\ UNCHANGED <<status, taking_picture, initial_flag, door,
                 sas_msg, fpgamsg, range_status, has_taken>>

OpenDoor ==
  /\ MainAt("open", "receive")
  /\ range_status' = "dooropen"
  /\ UNCHANGED <<status, taking_picture, initial_flag, door,
                 sas_msg, fpgamsg, picture, has_taken>>

CloseDoor ==
  /\ MainAt("enter", "receive")
  /\ status = "wait_close"
  /\ range_status' = "doorclose"
  /\ UNCHANGED <<status, taking_picture, initial_flag, door,
                 sas_msg, fpgamsg, picture, has_taken>>

-----------------------------------------------------------------------------
(* The status that follows status s when message m is received.            *)
NextStatus(s, m) ==
  CASE "disappear_object" \in m -> "initialize"
    [] OTHER ->
       CASE s = "initialize" /\ "detect_result" \in m    -> "start_process"
         [] s = "start_process" /\ {"calculate_result", "recognize_result"} \subseteq m
                                                         -> "approval_open"
         [] s = "start_process" /\ m \cap {"calculate_result", "recognize_result"} =
                                     {"calculate_result"} -> "wait_detect"
         [] s = "start_process" /\ m \cap {"calculate_result", "recognize_result"} =
                                     {"recognize_result"} -> "wait_calculate"
         [] s = "wait_detect" /\ "recognize_result" \in m    -> "approval_open"
         [] s = "wait_calculate" /\ "calculate_result" \in m -> "approval_open"
         [] s = "approval_open" /\ "open_result" \in m       -> "wait_close"
         [] s = "wait_close" /\ "close_result" \in m         -> "initialize"
         [] OTHER -> s

PictureStatus == {"wait_calculate", "approval_open", "wait_close"}

(* taking_picture is still FALSE when a message is received: the loop      *)
(* clears it after each picture.                                           *)
PictureDue(s, m) ==
  /\ s \in PictureStatus
  /\ "taking_now" \in m
  /\ "disappear_object" \notin m

Receive ==
  /\ sas_msg # << >>
  /\ LET m == Head(sas_msg)
         due == taking_picture \/ PictureDue(status, m)
     IN  /\ MainAt("receive", IF due THEN "take" ELSE "enter")
         /\ status' = NextStatus(status, m)
         /\ taking_picture' = due
  /\ sas_msg' = Tail(sas_msg)
  /\ UNCHANGED <<initial_flag, door, fpgamsg, range_status, picture, has_taken>>

(* take_picture keeps the main thread for the seconds an upload lasts.     *)
TakePicture ==
  /\ MainAt("take", "enter")
  /\ taking_picture
  /\ taking_picture' = FALSE
  /\ UNCHANGED <<status, sharedVars>>

MainNext ==
  \/ StartDetectDistance
  \/ MotorInitializeFails
  \/ DetectSpeed
  \/ StartHumanDetect
  \/ EnterWaitDetect
  \/ PreparePictureTest
  \/ PreparePictureSet
  \/ OpenDoor
  \/ CloseDoor
  \/ Receive
  \/ TakePicture

=============================================================================
