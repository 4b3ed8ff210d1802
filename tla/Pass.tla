-------------------------------- MODULE Pass --------------------------------
(***************************************************************************)
(* What the door controller promises of one person's pass, without its     *)
(* threads and queues: a pass begins with the door closed; it needs the    *)
(* speed and a human, in either order; it can be abandoned only until a    *)
(* human has been seen; the door moves only in the part of the pass that   *)
(* closes it again; pictures are uploaded only once a human has been seen, *)
(* while the pass stands still; and the pass is over when the door is      *)
(* closed.                                                                 *)
(***************************************************************************)

VARIABLES
  phase,      (* How far the pass has got: the names are those of main.c.  *)
  door,
  uploading   (* The main thread is busy with a picture.                   *)

vars == <<phase, door, uploading>>

Init ==
  /\ phase = "initialize"
  /\ door = "closed"
  /\ uploading = FALSE

(* The pass goes on, and the main thread is free to see to it.             *)
Goes(from, to) ==
  /\ ~uploading
  /\ phase = from
  /\ phase' = to
  /\ UNCHANGED <<door, uploading>>

ObjectDetected ==
  /\ door = "closed"
  /\ Goes("initialize", "start_process")

SpeedKnown ==
  \/ Goes("start_process", "wait_detect")
  \/ Goes("wait_calculate", "approval_open")

HumanSeen ==
  \/ Goes("start_process", "wait_calculate")
  \/ Goes("wait_detect", "approval_open")

NobodySeen ==
  \/ Goes("start_process", "initialize")
  \/ Goes("wait_detect", "initialize")

DoorReported == Goes("approval_open", "wait_close")

PassOver ==
  /\ door = "closed"
  /\ Goes("wait_close", "initialize")

(* The ranging thread moves the door while main may be doing anything.     *)
DoorOpens ==
  /\ phase \in {"approval_open", "wait_close"}
  /\ door' = "open"
  /\ UNCHANGED <<phase, uploading>>

DoorCloses ==
  /\ phase = "wait_close"
  /\ door' = "closed"
  /\ UNCHANGED <<phase, uploading>>

UploadStarts ==
  /\ ~uploading
  /\ phase \in {"wait_calculate", "approval_open", "wait_close"}
  /\ uploading' = TRUE
  /\ UNCHANGED <<phase, door>>

UploadEnds ==
  /\ uploading
  /\ uploading' = FALSE
  /\ UNCHANGED <<phase, door>>

Next ==
  \/ ObjectDetected
  \/ SpeedKnown
  \/ HumanSeen
  \/ NobodySeen
  \/ DoorReported
  \/ PassOver
  \/ DoorOpens
  \/ DoorCloses
  \/ UploadStarts
  \/ UploadEnds

Spec == Init /\ [][Next]_vars

=============================================================================
