------------------------------ MODULE StartUp ------------------------------
(***************************************************************************)
(* The life of the human detection: the driver is loaded, init_fpga        *)
(* (fpgadrv.c) starts the threads one after the other and only then maps   *)
(* the features, the threads of HumanDetect run with exec_adaboost in      *)
(* them, and in the end the driver is unloaded.  Every call on the way may *)
(* fail.                                                                   *)
(***************************************************************************)
EXTENDS HumanDetect, Adaboost, FpgaLoad

VARIABLES
  spc,      (* The next call of init_fpga; "up", "undetected" and "gone"   *)
            (* are its outcomes.                                           *)
  hogbase   (* A null pointer, or the mapped features.                     *)

startVars == <<vars, scanVars, loadVars, spc, hogbase>>

(* Every variable keeps to its range, from the loading of the driver to    *)
(* its unloading: those of the threads and the FPGA, the position of the   *)
(* classifier in the image, what the driver holds, and the calls of        *)
(* init_fpga.                                                              *)
StartTypeOK ==
  /\ TypeOK
  /\ ScanTypeOK
  /\ LoadTypeOK
  /\ spc \in {"off", "open", "weak", "msgq", "human", "adaboost", "mem",
              "up", "undetected", "gone"}
  /\ hogbase \in {"null", "mapped"}

StartInit ==
  /\ Init
  /\ ScanInit
  /\ LoadInit
  /\ spc = "off"
  /\ hogbase = "null"

-----------------------------------------------------------------------------
LoadDriver ==
  /\ spc = "off"
  /\ Load
  /\ UNCHANGED <<vars, scanVars, spc, hogbase>>

(* Nobody unloads the driver under a running program.                      *)
UnloadDriver ==
  /\ spc = "gone"
  /\ Unload
  /\ UNCHANGED <<vars, scanVars, spc, hogbase>>

(* The program is started when the driver has been loaded, or has failed.  *)
Start ==
  /\ spc = "off"
  /\ load \in {"loaded", "failed"}
  /\ spc' = "open"
  /\ UNCHANGED <<vars, scanVars, loadVars, hogbase>>

Call(from, to) ==
  /\ spc = from
  /\ spc' = to
  /\ UNCHANGED <<vars, scanVars, loadVars>>

OpenDevice == "chrdev" \in held /\ Call("open", "weak") /\ UNCHANGED hogbase

ReadWeak == Call("weak", "msgq") /\ UNCHANGED hogbase

(* Without weak_data.dat init_fpga returns 0 all the same, and the program *)
(* runs without a detection.                                               *)
ReadWeakFails == Call("weak", "undetected") /\ UNCHANGED hogbase

CreateQueue == Call("msgq", "human") /\ UNCHANGED hogbase

CreateHumanDetect == Call("human", "adaboost") /\ UNCHANGED hogbase

CreateAdaboost == Call("adaboost", "mem") /\ UNCHANGED hogbase

MapFeatures == Call("mem", "up") /\ hogbase' = "mapped"

(* The other errors of init_fpga end the program, with all its threads.    *)
FatalCalls == {"open", "msgq", "human", "adaboost", "mem"}

CallFails ==
  /\ spc \in FatalCalls
  /\ Call(spc, "gone")
  /\ UNCHANGED hogbase

InitFpga ==
  \/ OpenDevice
  \/ ReadWeak
  \/ ReadWeakFails
  \/ CreateQueue
  \/ CreateHumanDetect
  \/ CreateAdaboost
  \/ MapFeatures

-----------------------------------------------------------------------------
(* exec_humandetect and adaboostthread from their creation on.             *)
HumanDetectRuns == {"adaboost", "mem", "up"}
AdaboostRuns == {"mem", "up"}

HumanDetectStep ==
  /\ spc \in HumanDetectRuns
  /\ HumanDetectThread
  /\ UNCHANGED <<scanVars, loadVars, spc, hogbase>>

(* exec_adaboost runs while apc is "exec", and its answer decides the way. *)
Scan ==
  /\ spc \in AdaboostRuns
  /\ apc = "exec"
  /\ \/ hogbase = "mapped" /\ Copy
     \/ TryWindow
  /\ UNCHANGED <<vars, loadVars, spc, hogbase>>

ScanAnswer(answer) ==
  /\ scan = answer
  /\ ScanReturns

AdaboostStep ==
  /\ spc \in AdaboostRuns
  /\ AdaboostThread
  /\ IF apc = "exec"
       THEN ScanAnswer(IF apc' = "found" THEN "human" ELSE "none")
       ELSE UNCHANGED scanVars
  /\ UNCHANGED <<loadVars, spc, hogbase>>

(* hogbase is null until it is mapped: to read through it ends the program. *)
ReadUnmapped ==
  /\ spc \in AdaboostRuns
  /\ apc = "exec" /\ scan = "copy" /\ hogbase = "null"
  /\ spc' = "gone"
  /\ UNCHANGED <<vars, scanVars, loadVars, hogbase>>

(* A window at the edge makes a classifier read behind the last cell.  If  *)
(* nothing is mapped there, that ends the program as well.                 *)
ReadBeyond ==
  /\ spc \in AdaboostRuns
  /\ apc = "exec" /\ scan = "window"
  /\ Tried(row, col) /\ \E m \in DOMAIN Weak : CellOf(m, row, col) \notin Cells
  /\ spc' = "gone"
  /\ UNCHANGED <<vars, scanVars, loadVars, hogbase>>

Signal ==
  /\ spc \in AdaboostRuns
  /\ WakeUpBySignal
  /\ UNCHANGED <<scanVars, loadVars, spc, hogbase>>

(* The interrupt waits in the device until there is a handler.             *)
Interrupt ==
  /\ "irq" \in held
  /\ RunEnds
  /\ UNCHANGED <<scanVars, loadVars, spc, hogbase>>

(* main makes requests once init_fpga has returned, and the messages of    *)
(* the other threads come and go.                                          *)
Others ==
  /\ \/ spc = "up" /\ Request
     \/ spc \in {"up", "undetected"} /\ (OtherReport \/ Consume)
  /\ UNCHANGED <<scanVars, loadVars, spc, hogbase>>

StartNext ==
  \/ LoadDriver
  \/ UnloadDriver
  \/ Start
  \/ InitFpga
  \/ CallFails
  \/ HumanDetectStep
  \/ Scan
  \/ AdaboostStep
  \/ ReadUnmapped
  \/ ReadBeyond
  \/ Signal
  \/ Interrupt
  \/ Others

StartSpec == StartInit /\ [][StartNext]_startVars

(* Threads keep running, runs of the FPGA end, and main keeps reading.     *)
(* SendFound and SendNotFound compete with other senders for room.  No     *)
(* signal need come.                                                       *)
FairSpec ==
  /\ StartSpec
  /\ WF_startVars(InitFpga \/ CallFails)
  /\ WF_startVars(HumanDetectStep)
  /\ WF_startVars(Scan \/ AdaboostStep)
  /\ SF_startVars(AdaboostStep /\ (SendFound \/ SendNotFound))
  /\ WF_startVars(Interrupt)
  /\ WF_startVars(Others /\ Consume)

-----------------------------------------------------------------------------
(* No interrupt is missed for good: a detection that is under way when     *)
(* init_fpga has returned is answered, although the interrupt may come     *)
(* before the threads do and wait_status is cleared in three places, or a  *)
(* read behind HogBin ends the program.                                    *)
DetectionEnds == spc = "up" /\ detectstatus # 0 ~> detectstatus = 0 \/ spc = "gone"

=============================================================================
