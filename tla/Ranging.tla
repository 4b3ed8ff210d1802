------------------------------- MODULE Ranging -------------------------------
(***************************************************************************)
(* The ranging thread (ranging in range.c).  Every cycle it samples the    *)
(* distance sensor and runs five stages on the sample: it looks for an     *)
(* approaching object, estimates its speed, opens the door, closes it, and *)
(* asks for a picture.  The first four act on one value of range_status    *)
(* each, report to the main thread, and then reset range_status if it      *)
(* still is the command they served.                                       *)
(*                                                                         *)
(* How the speed stage turns samples into an average is module SpeedCalc;  *)
(* here the stage ends with some average of the set Averages.              *)
(***************************************************************************)
EXTENDS SasShared

CONSTANTS
  Readings,        (* Distances the sensor reports, in mm.                 *)
  Averages,        (* Averages the speed stage can arrive at.              *)
  MaxDetect,       (* Samples that must be exceeded to detect: 5.          *)
  OpenWaitTime,    (* OPEN_WAIT_TIME, the samples a door takes: 200.       *)
  StackResidue,    (* The flags the uninitialised buf holds at start.      *)
  RangingMayFail   (* The set-up of the sensor or a msgQSend may fail.     *)

Distance == 0 .. 65535   (* RangeMilliMeter is 16 bits wide.               *)

ASSUME ReadingsAssumption == Readings \subseteq Distance
ASSUME AveragesAssumption == Averages \subseteq Nat
ASSUME MaxDetectAssumption == MaxDetect \in Nat
ASSUME OpenWaitTimeAssumption == OpenWaitTime \in Nat /\ OpenWaitTime >= 4
ASSUME StackResidueAssumption == StackResidue \in Message
ASSUME RangingMayFailAssumption == RangingMayFail \in BOOLEAN

MaxRange == 700
MinRange == 50
BestshotUpperLimit == 220
GateDistance == 250
UltraSpeed == 500
HighSpeed == 300

VARIABLES
  stage,        (* The stage the thread is in ...                          *)
  step,         (* ... and how far it has got.                             *)
  reading,      (* range_datas.RangeMilliMeter.                            *)
  rbuf,         (* buf: the flags raised in it, whatever put them there.   *)
  detect_count,
  average,
  open_timing,  (* Distance at which the door is to be opened, in mm.      *)
  open_wait     (* Samples since the door began to open.                   *)

rangingVars ==
  <<stage, step, reading, rbuf, detect_count, average, open_timing, open_wait>>

Commanded == {"detect", "speed", "open", "close"}

Command == [detect |-> "detect", speed |-> "speed",
            open |-> "dooropen", close |-> "doorclose"]

Report == [detect |-> "detect_result", speed |-> "calculate_result",
           open |-> "open_result", close |-> "close_result",
           picture |-> "taking_now"]

StageAfter == [detect |-> "speed", speed |-> "open", open |-> "close",
               close |-> "picture", picture |-> "sample"]

Stages == {"setup", "sample", "exited", "detect", "speed", "open", "close", "picture"}

Steps == {"decide", "send", "check", "reset", "clear", "clear2"}

RangingTypeOK ==
  /\ stage \in Stages
  /\ step \in Steps
  /\ reading \in Distance
  /\ rbuf \in Message
  /\ detect_count \in 0 .. MaxDetect + 1
  /\ average \in Nat
  /\ open_timing \in Nat
  /\ open_wait \in Nat

RangingInit ==
  /\ stage = "setup"
  /\ step = "decide"
  /\ reading = 0
  /\ rbuf = StackResidue
  /\ detect_count = 0
  /\ average = 0
  /\ open_timing = 0
  /\ open_wait = 0

At(st, sp) == stage = st /\ step = sp

Goto(st, sp) == stage' = st /\ step' = sp

calcVars == <<average, open_timing>>

-----------------------------------------------------------------------------
(* The thread exists once initial_flag is set.  It configures the sensor   *)
(* and gives up for good when that fails.                                  *)
SetUp ==
  /\ At("setup", "decide")
  /\ initial_flag
  /\ Goto("sample", "decide")
  /\ UNCHANGED <<sharedVars, reading, rbuf, detect_count, calcVars, open_wait>>

SetUpFails ==
  /\ RangingMayFail
  /\ At("setup", "decide")
  /\ initial_flag
  /\ Goto("exited", "decide")
  /\ UNCHANGED <<sharedVars, reading, rbuf, detect_count, calcVars, open_wait>>

Sample ==
  /\ At("sample", "decide")
  /\ Goto("detect", "decide")
  /\ reading' \in Readings
  /\ UNCHANGED <<sharedVars, rbuf, detect_count, calcVars, open_wait>>

-----------------------------------------------------------------------------
(* What each stage decides on a sample.                                    *)

ObjectSeen == MinRange < reading /\ reading < MaxRange

(* Mutant: objects are looked for whatever the command is.                 *)
DetectStageAlways ==
  /\ At("detect", "decide")
  /\ IF ObjectSeen
     THEN /\ detect_count' = detect_count + 1
          /\ IF detect_count' > MaxDetect
             THEN Goto("detect", "send")
             ELSE Goto("speed", "decide")
     ELSE /\ detect_count' = 0
          /\ Goto("speed", "decide")
  /\ rbuf' = IF step' = "send" THEN rbuf \cup {"detect_result"} ELSE rbuf
  /\ UNCHANGED <<sharedVars, reading, calcVars, open_wait>>

DetectStage ==
  /\ At("detect", "decide")
  /\ IF range_status = "detect" /\ ObjectSeen
     THEN /\ detect_count' = detect_count + 1
          /\ IF detect_count' > MaxDetect
             THEN Goto("detect", "send")
             ELSE Goto("speed", "decide")
     ELSE /\ detect_count' = 0
          /\ Goto("speed", "decide")
  /\ rbuf' = IF step' = "send" THEN rbuf \cup {"detect_result"} ELSE rbuf
  /\ UNCHANGED <<sharedVars, reading, calcVars, open_wait>>

(* No command to estimate, or an estimate that needs more samples.         *)
SpeedStageContinues ==
  /\ At("speed", "decide")
  /\ Goto("open", "decide")
  /\ UNCHANGED <<sharedVars, reading, rbuf, detect_count, calcVars, open_wait>>

SpeedStageDone ==
  /\ At("speed", "decide")
  /\ range_status = "speed"
  /\ Goto("speed", "send")
  /\ average' \in Averages
  /\ open_timing' = IF 10 * average' < GateDistance THEN GateDistance ELSE 10 * average'
  /\ rbuf' = rbuf \cup {"calculate_result"}
  /\ UNCHANGED <<sharedVars, reading, detect_count, open_wait>>

Delay == IF average > UltraSpeed THEN OpenWaitTime \div 4
         ELSE IF average > HighSpeed THEN OpenWaitTime \div 2
         ELSE OpenWaitTime

(* motor_open is called once, when open_wait leaves 0, and open_wait is    *)
(* incremented again in the same cycle.                                    *)
OpenStage ==
  /\ At("open", "decide")
  /\ range_status = "dooropen"
  /\ open_wait' = IF open_wait # 0 THEN open_wait + 1
                  ELSE IF reading < open_timing THEN 2 ELSE 0
  /\ door' = IF open_wait = 0 /\ open_wait' # 0 THEN "open" ELSE door
  /\ IF open_wait' # 0 /\ open_wait' >= Delay
     THEN Goto("open", "send") /\ rbuf' = rbuf \cup {"open_result"}
     ELSE Goto("close", "decide") /\ rbuf' = rbuf
  /\ UNCHANGED <<sas_msg, fpgamsg, range_status, picture, has_taken, initial_flag,
                 reading, detect_count, calcVars>>

OpenStageIdle ==
  /\ At("open", "decide")
  /\ range_status # "dooropen"
  /\ Goto("close", "decide")
  /\ UNCHANGED <<sharedVars, reading, rbuf, detect_count, calcVars, open_wait>>

ObjectGone == MinRange > reading \/ reading > MaxRange

(* Mutant: close_result without motor_close.                               *)
CloseStageNoMotor ==
  /\ At("close", "decide")
  /\ range_status = "doorclose"
  /\ ObjectGone
  /\ Goto("close", "send")
  /\ rbuf' = rbuf \cup {"close_result"}
  /\ UNCHANGED <<sharedVars, reading, detect_count, calcVars, open_wait>>

CloseStage ==
  /\ At("close", "decide")
  /\ range_status = "doorclose"
  /\ ObjectGone
  /\ door' = "closed"
  /\ Goto("close", "send")
  /\ rbuf' = rbuf \cup {"close_result"}
  /\ UNCHANGED <<sas_msg, fpgamsg, range_status, picture, has_taken, initial_flag,
                 reading, detect_count, calcVars, open_wait>>

CloseStageIdle ==
  /\ At("close", "decide")
  /\ ~(range_status = "doorclose" /\ ObjectGone)
  /\ Goto("picture", "decide")
  /\ UNCHANGED <<sharedVars, reading, rbuf, detect_count, calcVars, open_wait>>

PictureStage ==
  /\ At("picture", "decide")
  /\ IF picture /\ reading < BestshotUpperLimit
     THEN Goto("picture", "send") /\ rbuf' = rbuf \cup {"taking_now"}
     ELSE Goto("sample", "decide") /\ rbuf' = rbuf
  /\ UNCHANGED <<sharedVars, reading, detect_count, calcVars, open_wait>>

-----------------------------------------------------------------------------
(* Reporting to the main thread, and what follows a report.                *)

SendReport ==
  /\ step = "send"
  /\ Send(rbuf)
  /\ Goto(stage, IF stage = "picture" THEN "clear" ELSE "check")
  /\ UNCHANGED <<fpgamsg, range_status, picture, has_taken, initial_flag, door,
                 reading, rbuf, detect_count, calcVars, open_wait>>

SendReportFails ==
  /\ RangingMayFail
  /\ step = "send"
  /\ Goto("exited", "decide")
  /\ UNCHANGED <<sharedVars, reading, rbuf, detect_count, calcVars, open_wait>>

(* Mutant: buf keeps the flag of the report.                               *)
EndStageKeepsFlag ==
  /\ IF stage = "close" THEN Goto("close", "clear") ELSE Goto(StageAfter[stage], "decide")
  /\ detect_count' = IF stage = "detect" THEN 0 ELSE detect_count
  /\ open_wait' = IF stage = "open" THEN 0 ELSE open_wait
  /\ UNCHANGED <<sas_msg, fpgamsg, picture, has_taken, initial_flag, door,
                 reading, rbuf, calcVars>>

(* The local clean-up that ends a stage that has reported.                 *)
EndStage ==
  /\ IF stage = "close" THEN Goto("close", "clear") ELSE Goto(StageAfter[stage], "decide")
  /\ rbuf' = rbuf \ {Report[stage]}
  /\ detect_count' = IF stage = "detect" THEN 0 ELSE detect_count
  /\ open_wait' = IF stage = "open" THEN 0 ELSE open_wait
  /\ UNCHANGED <<sas_msg, fpgamsg, picture, has_taken, initial_flag, door,
                 reading, calcVars>>

(* Mutant: range_status is reset without a look at it.                     *)
CheckChangedResets ==
  /\ step = "check"
  /\ range_status # Command[stage]
  /\ range_status' = "initial"
  /\ EndStage

(* The command has changed since: it is left alone.                        *)
CheckChanged ==
  /\ step = "check"
  /\ range_status # Command[stage]
  /\ EndStage
  /\ UNCHANGED range_status

(* The command has not changed: the assignment comes next, as a step of    *)
(* its own unless "atomic_reset" is assumed.                               *)
CheckSame ==
  /\ "atomic_reset" \notin Timing
  /\ step = "check"
  /\ range_status = Command[stage]
  /\ Goto(stage, "reset")
  /\ UNCHANGED <<sharedVars, reading, rbuf, detect_count, calcVars, open_wait>>

Reset ==
  /\ step = "reset"
  /\ range_status' = "initial"
  /\ EndStage

CheckAndReset ==
  /\ "atomic_reset" \in Timing
  /\ step = "check"
  /\ range_status = Command[stage]
  /\ range_status' = "initial"
  /\ EndStage

(* After close_result: has_taken = OFF; picture = OFF.                     *)
CloseClearTaken ==
  /\ At("close", "clear")
  /\ has_taken' = FALSE
  /\ Goto("close", "clear2")
  /\ UNCHANGED <<sas_msg, fpgamsg, range_status, picture, initial_flag, door,
                 reading, rbuf, detect_count, calcVars, open_wait>>

(* Mutant: a picture that is still wanted stays wanted.                    *)
CloseKeepsPicture ==
  /\ At("close", "clear2")
  /\ Goto("picture", "decide")
  /\ UNCHANGED <<sharedVars, reading, rbuf, detect_count, calcVars, open_wait>>

CloseClearPicture ==
  /\ At("close", "clear2")
  /\ picture' = FALSE
  /\ Goto("picture", "decide")
  /\ UNCHANGED <<sas_msg, fpgamsg, range_status, has_taken, initial_flag, door,
                 reading, rbuf, detect_count, calcVars, open_wait>>

(* After taking_now: picture = OFF; has_taken = ON.                        *)
PictureOff ==
  /\ At("picture", "clear")
  /\ picture' = FALSE
  /\ Goto("picture", "clear2")
  /\ UNCHANGED <<sas_msg, fpgamsg, range_status, has_taken, initial_flag, door,
                 reading, rbuf, detect_count, calcVars, open_wait>>

PictureTaken ==
  /\ At("picture", "clear2")
  /\ has_taken' = TRUE
  /\ rbuf' = rbuf \ {"taking_now"}
  /\ Goto("sample", "decide")
  /\ UNCHANGED <<sas_msg, fpgamsg, range_status, picture, initial_flag, door,
                 reading, detect_count, calcVars, open_wait>>

RangingNext ==
  \/ SetUp
  \/ SetUpFails
  \/ Sample
  \/ DetectStage
  \/ SpeedStageContinues
  \/ SpeedStageDone
  \/ OpenStage
  \/ OpenStageIdle
  \/ CloseStage
  \/ CloseStageIdle
  \/ PictureStage
  \/ SendReport
  \/ SendReportFails
  \/ CheckChanged
  \/ CheckSame
  \/ Reset
  \/ CheckAndReset
  \/ CloseClearTaken
  \/ CloseClearPicture
  \/ PictureOff
  \/ PictureTaken

=============================================================================
