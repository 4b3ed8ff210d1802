------------------------------ MODULE Opening ------------------------------
(***************************************************************************)
(* From the estimate of the approach to the open door: the ranging thread  *)
(* sets the speed of the motor by the estimate (range.c lines 391 to 400), *)
(* opens the door when it is told to (lines 424 to 431), and reports it as *)
(* open after a time that depends on the estimate again (lines 436 to      *)
(* 460), without a look at the door.                                       *)
(*                                                                         *)
(* Here a pass is not abandoned once the door is opening: what open_wait   *)
(* does then is a matter of DoorControl.                                   *)
(***************************************************************************)
EXTENDS SpeedCalc, Motor

CONSTANTS UltraSpeed, HighSpeed, NormalSpeed   (* 500, 300 and 50.         *)

ASSUME SpeedsAssumption ==
  /\ UltraSpeed \in Nat /\ HighSpeed \in Nat /\ NormalSpeed \in Nat
  /\ NormalSpeed < HighSpeed /\ HighSpeed < UltraSpeed

OpenWaitTime == 200   (* 4000 ms in samples of SAMPLE_INT, 20 ms.          *)

VARIABLES
  door,      (* The part of a pass after the estimate.                     *)
  open_wait

openVars == <<vars, motorVars, door, open_wait>>

(* The register, the door and the delay of the ranging thread.             *)
DoorTypeOK ==
  /\ MotorTypeOK
  /\ door \in {"idle", "estimated", "opening", "open"}
  /\ open_wait \in 0 .. OpenWaitTime

(* Every variable of the opening keeps to its range: the counters and the  *)
(* samples of the estimate (range.c lines 324 to 395), the ten bits of the *)
(* register of the motor, the quarter turn of the door and the delay.      *)
OpeningTypeOK ==
  /\ TypeOK
  /\ DoorTypeOK

OpeningInit ==
  /\ Init
  /\ MotorInit
  /\ door = "idle"
  /\ open_wait = 0

-----------------------------------------------------------------------------
DetectSpeed ==
  /\ door = "idle"
  /\ Command
  /\ UNCHANGED <<motorVars, door, open_wait>>

(* disappear_object: with an estimate under way, or made.                  *)
AbandonPass ==
  /\ \/ Abandon /\ UNCHANGED <<motorVars, door>>
     \/ /\ door = "estimated"
        /\ door' = "idle"
        /\ lost' = FALSE
        /\ UNCHANGED <<vars, max_speed, goal, position>>
  /\ UNCHANGED open_wait

MotorSpeed(a) ==
  IF a > UltraSpeed THEN SetSpeed * 4
  ELSE IF a > HighSpeed THEN SetSpeed * 2
  ELSE IF a > NormalSpeed THEN SetSpeed
  ELSE SetSpeed \div 2

SpeedStage ==
  /\ \E r \in Readings : Reading(r)
  /\ IF passes' # passes
       THEN door' = "estimated" /\ SetMaxSpeed(MotorSpeed(average'))
       ELSE UNCHANGED <<door, motorVars>>
  /\ UNCHANGED open_wait

OpenDoor ==
  /\ door = "estimated"
  /\ door' = "opening"
  /\ UNCHANGED <<vars, motorVars, open_wait>>

(* Mutant: a high speed waits for as long as an ultra speed.               *)
DelayShort ==
  IF average > HighSpeed THEN OpenWaitTime \div 4 ELSE OpenWaitTime

Delay ==
  IF average > UltraSpeed THEN OpenWaitTime \div 4
  ELSE IF average > HighSpeed THEN OpenWaitTime \div 2
  ELSE OpenWaitTime

(* Somebody is nearer than open_timing; until then nothing happens.        *)
OpenStage ==
  /\ door = "opening"
  /\ open_wait = 0
  /\ MotorOpen
  /\ open_wait' = 2
  /\ UNCHANGED <<vars, door>>

OpenWait ==
  /\ door = "opening"
  /\ open_wait # 0
  /\ Turns
  /\ IF open_wait + 1 >= Delay
       THEN door' = "open" /\ open_wait' = 0
       ELSE open_wait' = open_wait + 1 /\ UNCHANGED door
  /\ UNCHANGED vars

CloseStage ==
  /\ door = "open"
  /\ MotorClose
  /\ door' = "idle"
  /\ UNCHANGED <<vars, open_wait>>

(* The chip keeps its register, unless motor_initialize sets it.           *)
ProgramRestarts ==
  /\ Restart
  /\ door' = "idle"
  /\ open_wait' = 0
  /\ max_speed' \in Initialized(max_speed)
  /\ goal' = 0
  /\ position' = 0
  /\ lost' = FALSE

OpeningNext ==
  \/ DetectSpeed
  \/ AbandonPass
  \/ SpeedStage
  \/ OpenDoor
  \/ OpenStage
  \/ OpenWait
  \/ CloseStage
  \/ ProgramRestarts

OpeningSpec == OpeningInit /\ [][OpeningNext]_openVars

-----------------------------------------------------------------------------
(* When the door is reported as open (range.c, line 435: no message before *)
(* it is), it is, unless a write to the motor failed: at each speed the    *)
(* delay is long enough for a quarter turn.  At slow speed it is not.      *)
DoorOpenWhenTold ==
  door = "open" => position = P90Deg \/ lost \/ average <= NormalSpeed

=============================================================================
