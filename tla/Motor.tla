------------------------------- MODULE Motor -------------------------------
(***************************************************************************)
(* motor.c, and the motor driver it writes to: an external chip that turns *)
(* the door at the speed of its register MAX_SPEED.  A write that fails is *)
(* logged by motor.c and otherwise ignored.  Every opening is taken to     *)
(* begin with the door closed, from where it has the farthest to go: what  *)
(* is left of the last closing makes it only shorter.                      *)
(***************************************************************************)
EXTENDS Integers, FiniteSetsExt

VARIABLES
  max_speed,   (* The register: 10 bits.                                   *)
  goal,        (* Where the chip turns the door to ...                     *)
  position,    (* ... and where the door is, in microsteps.                *)
  lost         (* A write of the pass under way has failed.                *)

motorVars == <<max_speed, goal, position, lost>>

P90Deg == 6400   (* MOTOR_SET_MARK_P90DEG *)
SetSpeed == 256  (* MOTOR_SET_SPEED: 0x0100, which is one unit: 15.26 full *)
                 (* steps per second, ...                                  *)
UnitSteps == 39  (* ... or 39 microsteps in SAMPLE_INT.                    *)

DefaultSpeed == 65  (* The register after power-up.                        *)

(* write sends the low byte first, and the chip takes it for the high one. *)
Register(v) == ((v % 256) * 256 + v \div 256) % 1024

MotorTypeOK ==
  /\ max_speed \in 0 .. 1023
  /\ goal \in {0, P90Deg}
  /\ position \in 0 .. P90Deg
  /\ lost \in BOOLEAN

(* Of its six writes motor_initialize looks only at the last: the one that *)
(* sets the speed may have failed.                                         *)
Initialized(m) == {Register(SetSpeed), m}

MotorInit ==
  /\ max_speed \in Initialized(DefaultSpeed)
  /\ goal = 0
  /\ position = 0
  /\ lost = FALSE

SetMaxSpeed(v) ==
  /\ \/ max_speed' = Register(v) /\ UNCHANGED lost
     \/ lost' = TRUE /\ UNCHANGED max_speed
  /\ UNCHANGED <<goal, position>>

MotorOpen ==
  /\ \/ goal' = P90Deg /\ UNCHANGED lost
     \/ lost' = TRUE /\ UNCHANGED goal
  /\ UNCHANGED <<max_speed, position>>

(* A closing that fails leaves the door open, see above.                   *)
MotorClose ==
  /\ goal' = 0
  /\ position' = 0
  /\ lost' = FALSE
  /\ UNCHANGED max_speed

(* Mutant: the door turns on past its goal.                                *)
TurnsPastGoal ==
  /\ position' = IF goal = 0 THEN 0 ELSE position + UnitSteps * max_speed
  /\ UNCHANGED <<max_speed, goal, lost>>

(* What the door moves in SAMPLE_INT.                                      *)
Turns ==
  /\ position' = Min({goal, position + UnitSteps * max_speed})
  /\ UNCHANGED <<max_speed, goal, lost>>

=============================================================================
