----------------------------- MODULE MessageQueue -----------------------------
(***************************************************************************)
(* What msgQLib promises the threads of the controller: a bounded FIFO.    *)
(* A call of msgQSend that succeeds has put its message into the queue     *)
(* once, a call that fails has not; msgQReceive takes the oldest message   *)
(* or fails and takes nothing; and a controller that is started anew never *)
(* sees a message of its last life.                                        *)
(***************************************************************************)
EXTENDS Integers, Sequences

CONSTANTS
  Senders,   (* Threads that send to the queue.                            *)
  Payload,   (* Messages.                                                  *)
  MaxMsgs    (* Capacity given to msgQCreate.                              *)

VARIABLES
  queue,
  sending,    (* idle, the message that is being sent, ok or error.        *)
  receiving   (* The same for the only thread that receives.               *)

vars == <<queue, sending, receiving>>

Idle == [state |-> "idle"]
Ok == [state |-> "ok"]
Error == [state |-> "error"]
Sending(m) == [state |-> "sending", msg |-> m]
Waiting == [state |-> "waiting"]
Received(m) == [state |-> "received", msg |-> m]

Init ==
  /\ queue = << >>
  /\ sending = [s \in Senders |-> Idle]
  /\ receiving = Idle

CallSend(s, m) ==
  /\ sending[s] = Idle
  /\ sending' = [sending EXCEPT ![s] = Sending(m)]
  /\ UNCHANGED <<queue, receiving>>

SendSucceeds(s, m) ==
  /\ sending[s] = Sending(m)
  /\ Len(queue) < MaxMsgs
  /\ queue' = Append(queue, m)
  /\ sending' = [sending EXCEPT ![s] = Ok]
  /\ UNCHANGED receiving

SendFails(s, m) ==
  /\ sending[s] = Sending(m)
  /\ sending' = [sending EXCEPT ![s] = Error]
  /\ UNCHANGED <<queue, receiving>>

SendReturns(s) ==
  /\ sending[s] \in {Ok, Error}
  /\ sending' = [sending EXCEPT ![s] = Idle]
  /\ UNCHANGED <<queue, receiving>>

CallReceive ==
  /\ receiving = Idle
  /\ receiving' = Waiting
  /\ UNCHANGED <<queue, sending>>

ReceiveSucceeds ==
  /\ receiving = Waiting
  /\ queue # << >>
  /\ receiving' = Received(Head(queue))
  /\ queue' = Tail(queue)
  /\ UNCHANGED sending

ReceiveFails ==
  /\ receiving = Waiting
  /\ receiving' = Error
  /\ UNCHANGED <<queue, sending>>

ReceiveReturns ==
  /\ receiving \notin {Idle, Waiting}
  /\ receiving' = Idle
  /\ UNCHANGED <<queue, sending>>

(* The controller is stopped, or crashes, and is started again.            *)
Restart ==
  /\ queue' = << >>
  /\ sending' = [s \in Senders |-> Idle]
  /\ receiving' = Idle

Next ==
  \/ \E s \in Senders :
       \/ \E m \in Payload : CallSend(s, m) \/ SendSucceeds(s, m) \/ SendFails(s, m)
       \/ SendReturns(s)
  \/ CallReceive
  \/ ReceiveSucceeds
  \/ ReceiveFails
  \/ ReceiveReturns
  \/ Restart

Spec == Init /\ [][Next]_vars

=============================================================================
