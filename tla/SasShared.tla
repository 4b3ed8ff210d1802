----------------------------- MODULE SasShared -----------------------------
(***************************************************************************)
(* What the threads of the door controller share: the message queue        *)
(* sas_msg, which only the main thread reads, the request queue fpgamsg of *)
(* the human detection, and the variables of range.c that the main thread  *)
(* and the ranging thread read and write with no lock.                     *)
(*                                                                         *)
(* A message of sas_msg is a buffer of ten flags indexed by enum msg_num;  *)
(* it is modelled by the set of the flags that are raised.                 *)
(***************************************************************************)
EXTENDS Integers, Sequences

CONSTANTS
  MaxMsgs,   (* Capacity given to msgQCreate: 10 in the code.              *)
  Timing     (* The assumptions made on the relative speed of the threads. *)

(* The code synchronises nothing but its message queues.  With Timing = {} *)
(* every interleaving is allowed; DoorControl says what "prompt" and       *)
(* "settled" exclude, Ranging what "atomic_reset" does.                    *)
ASSUME MaxMsgsAssumption == MaxMsgs \in Nat \ {0}
ASSUME TimingAssumption == Timing \subseteq {"prompt", "settled", "atomic_reset"}

Flags == {"detect_result", "calculate_result", "recognize_result",
          "taking_now", "open_result", "close_result", "disappear_object"}

Message == SUBSET Flags

RangeState == {"initial", "detect", "speed", "dooropen", "doorclose"}

VARIABLES
  sas_msg,       (* Messages on their way to the main thread.              *)
  fpgamsg,       (* Number of start requests waiting in fpgamsg.           *)
  range_status,  (* The command the ranging thread is to carry out.        *)
  picture,       (* A picture is wanted ...                                *)
  has_taken,     (* ... and one has been asked for in this pass.           *)
  initial_flag,  (* The ranging thread has been created.                   *)
  door           (* Where the last motor command sends the door.           *)

sharedVars ==
  <<sas_msg, fpgamsg, range_status, picture, has_taken, initial_flag, door>>

SharedTypeOK ==
  /\ sas_msg \in Seq(Message)
  /\ Len(sas_msg) <= MaxMsgs
  /\ fpgamsg \in 0 .. MaxMsgs
  /\ range_status \in RangeState
  /\ picture \in BOOLEAN
  /\ has_taken \in BOOLEAN
  /\ initial_flag \in BOOLEAN
  /\ door \in {"open", "closed"}

(* The door is at its home position when the controller is powered up.     *)
SharedInit ==
  /\ sas_msg = << >>
  /\ fpgamsg = 0
  /\ range_status = "initial"
  /\ picture = FALSE
  /\ has_taken = FALSE
  /\ initial_flag = FALSE
  /\ door = "closed"

(* Mutant: a message queue without a limit.                                *)
SendUnbounded(m) == sas_msg' = Append(sas_msg, m)

(* msgQSend to sas_msg waits while the queue is full.                      *)
Send(m) ==
  /\ Len(sas_msg) < MaxMsgs
  /\ sas_msg' = Append(sas_msg, m)

=============================================================================
