------------------------------- MODULE Camera -------------------------------
(***************************************************************************)
(* CameraDev::readCamera (camera.cpp).  The main thread calls it for a     *)
(* picture and exec_humandetect for a detection, at any time.  A call      *)
(* copies the camera's frame, which the camera keeps overwriting, to       *)
(* tmpframe, and then converts tmpframe to its caller's image.  There is   *)
(* one tmpframe, and no lock.                                              *)
(*                                                                         *)
(* What a pixel shows is left out; what counts is when it was loaded from  *)
(* the camera's frame, relative to the call main is in: before it by a     *)
(* call that was over ("old"), or by one that was not or since ("recent"). *)
(* While main is in no call everything is "old".                           *)
(***************************************************************************)
EXTENDS Integers

CONSTANT Lines   (* Height of a frame: MAX_HEIGHT in the code.             *)

ASSUME LinesAssumption == Lines \in Nat \ {0}

Line == 1 .. Lines
Age == {"old", "recent"}
Reader == {"main", "human"}

VARIABLES
  tmpframe,   (* The copy both readers work with.                          *)
  image,      (* colptr of take_picture.                                   *)
  rpc,        (* Where a reader is in readCamera.                          *)
  rline,      (* The line it is at.                                        *)
  rword       (* What it has loaded and not yet stored.                    *)

cameraVars == <<tmpframe, image, rpc, rline, rword>>

CameraTypeOK ==
  /\ tmpframe \in [Line -> Age]
  /\ image \in [Line -> Age]
  /\ rpc \in [Reader -> {"idle", "load", "store", "convert"}]
  /\ rline \in [Reader -> Line]
  /\ rword \in [Reader -> Age]

AllOld == [l \in Line |-> "old"]

CameraInit ==
  /\ tmpframe = AllOld
  /\ image = AllOld
  /\ rpc = [r \in Reader |-> "idle"]
  /\ rline = [r \in Reader |-> 1]
  /\ rword = [r \in Reader |-> "old"]

(* exec_humandetect has stored line l in the call it is in.                *)
HumanStored(l) ==
  \/ rpc["human"] = "convert"
  \/ rpc["human"] \in {"load", "store"} /\ l < rline["human"]

StartMain ==
  /\ rpc["main"] = "idle"
  /\ rpc' = [rpc EXCEPT !["main"] = "load"]
  /\ rline' = [rline EXCEPT !["main"] = 1]
  /\ tmpframe' = [l \in Line |-> IF HumanStored(l) THEN "recent" ELSE "old"]
  /\ rword' = [rword EXCEPT !["human"] = IF rpc["human"] = "store" THEN "recent" ELSE "old"]
  /\ image' = AllOld

StartHuman ==
  /\ rpc["human"] = "idle"
  /\ rpc' = [rpc EXCEPT !["human"] = "load"]
  /\ rline' = [rline EXCEPT !["human"] = 1]
  /\ UNCHANGED <<tmpframe, image, rword>>

(* memcpy loads a piece of the frame and stores it.                        *)
Load(r) ==
  /\ rpc[r] = "load"
  /\ rpc' = [rpc EXCEPT ![r] = "store"]
  /\ rword' = [rword EXCEPT ![r] = IF rpc["main"] = "idle" THEN "old" ELSE "recent"]
  /\ UNCHANGED <<tmpframe, image, rline>>

(* Mutant: the copy runs over the end of the frame.                        *)
StoreOneMore(r) ==
  /\ rpc[r] = "store"
  /\ tmpframe' = [tmpframe EXCEPT ![rline[r]] = rword[r]]
  /\ rword' = [rword EXCEPT ![r] = "old"]
  /\ IF rline[r] <= Lines
     THEN /\ rline' = [rline EXCEPT ![r] = rline[r] + 1]
          /\ rpc' = [rpc EXCEPT ![r] = "load"]
     ELSE /\ rline' = [rline EXCEPT ![r] = 1]
          /\ rpc' = [rpc EXCEPT ![r] = "convert"]
  /\ UNCHANGED image

(* Mutant: the last line is not copied.                                    *)
StoreOneLess(r) ==
  /\ rpc[r] = "store"
  /\ tmpframe' = [tmpframe EXCEPT ![rline[r]] = rword[r]]
  /\ rword' = [rword EXCEPT ![r] = "old"]
  /\ IF rline[r] < Lines - 1
     THEN /\ rline' = [rline EXCEPT ![r] = rline[r] + 1]
          /\ rpc' = [rpc EXCEPT ![r] = "load"]
     ELSE /\ rline' = [rline EXCEPT ![r] = 1]
          /\ rpc' = [rpc EXCEPT ![r] = "convert"]
  /\ UNCHANGED image

Store(r) ==
  /\ rpc[r] = "store"
  /\ tmpframe' = [tmpframe EXCEPT ![rline[r]] = rword[r]]
  /\ rword' = [rword EXCEPT ![r] = "old"]
  /\ IF rline[r] < Lines
     THEN /\ rline' = [rline EXCEPT ![r] = rline[r] + 1]
          /\ rpc' = [rpc EXCEPT ![r] = "load"]
     ELSE /\ rline' = [rline EXCEPT ![r] = 1]
          /\ rpc' = [rpc EXCEPT ![r] = "convert"]
  /\ UNCHANGED image

Convert ==
  /\ rpc["main"] = "convert"
  /\ rline["main"] < Lines
  /\ image' = [image EXCEPT ![rline["main"]] = tmpframe[rline["main"]]]
  /\ rline' = [rline EXCEPT !["main"] = @ + 1]
  /\ UNCHANGED <<tmpframe, rpc, rword>>

(* The last line.  When main's call is over, its ages have had their use.  *)
EndMain ==
  /\ rpc["main"] = "convert"
  /\ rline["main"] = Lines
  /\ image' = [image EXCEPT ![Lines] = tmpframe[Lines]]
  /\ rpc' = [rpc EXCEPT !["main"] = "idle"]
  /\ rline' = [rline EXCEPT !["main"] = 1]
  /\ tmpframe' = AllOld
  /\ rword' = [r \in Reader |-> "old"]

(* The image of exec_humandetect goes to the display and is not followed.  *)
EndHuman ==
  /\ rpc["human"] = "convert"
  /\ rpc' = [rpc EXCEPT !["human"] = "idle"]
  /\ UNCHANGED <<tmpframe, image, rline, rword>>

Copies(r) == Load(r) \/ Store(r)

MainReads == Copies("main") \/ Convert

HumanReads == StartHuman \/ Copies("human") \/ EndHuman

=============================================================================
