-------------------------------- MODULE MsgQLib --------------------------------
(***************************************************************************)
(* msgQLib.cpp: one queue of the controller on top of the POSIX message    *)
(* queues of the kernel.  The kernel's queues have names and outlive the   *)
(* process; mq_open, mq_send and mq_receive fail with the errors the code  *)
(* handles.                                                                *)
(***************************************************************************)
EXTENDS Integers, Sequences

CONSTANTS
  Senders,      (* Threads that send to the queue.                         *)
  Payload,      (* Messages.                                               *)
  MaxMsgs,      (* Capacity given to msgQCreate: 10.                       *)
  MsgLength,    (* Length of a message given to msgQCreate: 10.            *)
  ReceiveSize,  (* Buffer of the receiver: 10 in main, 1 in fpgadrv.       *)
  Names         (* Names a queue gets: they hold the id of a thread.       *)

ASSUME LibAssumption ==
  /\ MaxMsgs \in Nat \ {0}
  /\ MsgLength \in Nat \ {0}
  /\ ReceiveSize \in Nat \ {0}

VARIABLES
  kernel,   (* For each name no queue, or a queue and its messages.        *)
  name,     (* Name of the queue in this life of the process.              *)
  cpc,      (* Where msgQCreate is, "ready" once it has returned.          *)
  spc,      (* Where each sender is in msgQSend.                           *)
  smsg,     (* The message each sender sends.                              *)
  rpc,      (* Where the receiver is in msgQReceive.                       *)
  tmpbuf,   (* The caller's buffer, one from the heap, or NULL.            *)
  tmpsize,
  rmsg,     (* The message received.                                       *)
  heap      (* Buffers allocated and not freed.                            *)

createVars == <<name, cpc>>
sendVars == <<spc, smsg>>
receiveVars == <<rpc, tmpbuf, tmpsize, rmsg, heap>>
vars == <<kernel, createVars, sendVars, receiveVars>>

NoQueue == [exists |-> FALSE, msgs |-> << >>]
Queue(q) == [exists |-> TRUE, msgs |-> q]

TypeOK ==
  /\ kernel \in [Names -> [exists : BOOLEAN, msgs : Seq(Payload)]]
  /\ \A n \in Names : Len(kernel[n].msgs) <= MaxMsgs
  /\ name \in Names
  /\ cpc \in {"open", "unlink", "reopen", "ready", "failed"}
  /\ spc \in [Senders -> {"idle", "getattr", "send", "interrupted", "ok", "error"}]
  /\ smsg \in [Senders -> Payload]
  /\ rpc \in {"idle", "receive", "interrupted", "getattr", "malloc", "got", "error"}
  /\ tmpbuf \in {"buffer", "heap", "NULL"}
  /\ tmpsize \in {ReceiveSize, MsgLength}
  /\ rmsg \in Payload
  /\ heap \in 0 .. 1

(* The process starts; what the kernel holds is from its earlier lives.    *)
Start ==
  /\ name' \in Names
  /\ cpc' = "open"
  /\ spc' = [s \in Senders |-> "idle"]
  /\ rpc' = "idle"
  /\ tmpbuf' = "buffer"
  /\ tmpsize' = ReceiveSize
  /\ heap' = 0

Init ==
  /\ kernel = [n \in Names |-> NoQueue]
  /\ name \in Names
  /\ cpc = "open"
  /\ spc = [s \in Senders |-> "idle"]
  /\ smsg \in [Senders -> Payload]
  /\ rpc = "idle"
  /\ tmpbuf = "buffer"
  /\ tmpsize = ReceiveSize
  /\ rmsg \in Payload
  /\ heap = 0

-----------------------------------------------------------------------------
(* msgQCreate.                                                             *)

CreateMoves(from, to) ==
  /\ cpc = from
  /\ cpc' = to
  /\ UNCHANGED <<name, sendVars, receiveVars>>

(* There is no memory for the queue's record: NULL, and the callers give   *)
(* up, as they do after ReopenFails.                                       *)
NoMemory == CreateMoves("open", "failed") /\ UNCHANGED kernel

(* Mutant: opened without O_EXCL, a queue that is there is used again.     *)
OpenShared ==
  /\ CreateMoves("open", "ready")
  /\ kernel' = [kernel EXCEPT ![name].exists = TRUE]

(* O_EXCL: the name must be new.                                           *)
Open ==
  /\ CreateMoves("open", "ready")
  /\ ~kernel[name].exists
  /\ kernel' = [kernel EXCEPT ![name] = Queue(<< >>)]

(* It is not, or mq_open fails for another reason.                         *)
OpenFails == CreateMoves("open", "unlink") /\ UNCHANGED kernel

Unlink ==
  /\ CreateMoves("unlink", "reopen")
  /\ kernel' = [kernel EXCEPT ![name] = NoQueue]

Reopen ==
  /\ CreateMoves("reopen", "ready")
  /\ ~kernel[name].exists
  /\ kernel' = [kernel EXCEPT ![name] = Queue(<< >>)]

ReopenFails == CreateMoves("reopen", "failed") /\ UNCHANGED kernel

-----------------------------------------------------------------------------
(* msgQSend.                                                               *)

SendGoto(s, from, to) ==
  /\ spc[s] = from
  /\ spc' = [spc EXCEPT ![s] = to]
  /\ UNCHANGED <<createVars, receiveVars>>

SendMoves(s, from, to) == SendGoto(s, from, to) /\ UNCHANGED <<kernel, smsg>>

CallSend(s, m) ==
  /\ cpc = "ready"
  /\ SendGoto(s, "idle", "getattr")
  /\ smsg' = [smsg EXCEPT ![s] = m]
  /\ UNCHANGED kernel

GetAttr(s) == SendMoves(s, "getattr", "send")

GetAttrFails(s) == SendMoves(s, "getattr", "error")

(* mq_send waits while the queue is full.                                  *)
MqSend(s) ==
  /\ SendGoto(s, "send", "ok")
  /\ Len(kernel[name].msgs) < MaxMsgs
  /\ kernel' = [kernel EXCEPT ![name].msgs = Append(kernel[name].msgs, smsg[s])]
  /\ UNCHANGED smsg

(* EINTR: i_Ret = 0 only keeps the loop going.                             *)
SendInterrupted(s) == SendMoves(s, "send", "interrupted")

SendAgain(s) == SendMoves(s, "interrupted", "send")

MqSendFails(s) == SendMoves(s, "send", "error")

SendReturns(s) == \E end \in {"ok", "error"} : SendMoves(s, end, "idle")

-----------------------------------------------------------------------------
(* msgQReceive.                                                            *)

ReceiveGoto(from, to) ==
  /\ rpc = from
  /\ rpc' = to
  /\ UNCHANGED <<createVars, sendVars>>

ReceiveMoves(from, to) ==
  /\ ReceiveGoto(from, to)
  /\ UNCHANGED <<kernel, tmpbuf, tmpsize, rmsg, heap>>

CallReceive ==
  /\ cpc = "ready"
  /\ ReceiveGoto("idle", "receive")
  /\ tmpbuf' = "buffer"
  /\ tmpsize' = ReceiveSize
  /\ UNCHANGED <<kernel, rmsg, heap>>

MqReceive ==
  /\ ReceiveGoto("receive", "got")
  /\ tmpsize >= MsgLength
  /\ kernel[name].msgs # << >>
  /\ rmsg' = Head(kernel[name].msgs)
  /\ kernel' = [kernel EXCEPT ![name].msgs = Tail(kernel[name].msgs)]
  /\ UNCHANGED <<tmpbuf, tmpsize, heap>>

(* Mutant: EMSGSIZE is retried like EINTR.                                 *)
MessageTooLongRetries ==
  /\ ReceiveMoves("receive", "interrupted")
  /\ tmpsize < MsgLength

(* EMSGSIZE: a buffer as long as a message is tried next, once.            *)
MessageTooLong ==
  /\ ReceiveMoves("receive", IF tmpbuf = "buffer" THEN "getattr" ELSE "error")
  /\ tmpsize < MsgLength

ReceiveGetAttr ==
  /\ ReceiveGoto("getattr", "malloc")
  /\ tmpsize' = MsgLength
  /\ UNCHANGED <<kernel, tmpbuf, rmsg, heap>>

ReceiveGetAttrFails == ReceiveMoves("getattr", "error")

(* Mutant: the size stays what the caller has asked for.                   *)
MallocSmall ==
  /\ ReceiveGoto("malloc", "receive")
  /\ tmpbuf' = "heap"
  /\ heap' = heap + 1
  /\ tmpsize' = ReceiveSize
  /\ UNCHANGED <<kernel, rmsg>>

Malloc ==
  /\ ReceiveGoto("malloc", "receive")
  /\ tmpbuf' = "heap"
  /\ heap' = heap + 1
  /\ UNCHANGED <<kernel, tmpsize, rmsg>>

MallocFails ==
  /\ ReceiveGoto("malloc", "error")
  /\ tmpbuf' = "NULL"
  /\ UNCHANGED <<kernel, tmpsize, rmsg, heap>>

ReceiveInterrupted == ReceiveMoves("receive", "interrupted")

ReceiveAgain == ReceiveMoves("interrupted", "receive")

MqReceiveFails == ReceiveMoves("receive", "error")

ReceiveReturnsFrom(end) ==
  /\ ReceiveGoto(end, "idle")
  /\ UNCHANGED <<kernel, tmpbuf, tmpsize, rmsg>>

(* Mutant: only a call that succeeds frees its buffer.                     *)
ReceiveReturnsLeaky ==
  \E end \in {"got", "error"} :
    /\ ReceiveReturnsFrom(end)
    /\ heap' = IF tmpbuf = "heap" /\ end = "got" THEN heap - 1 ELSE heap

(* Mutant: the caller's buffer is freed too.                               *)
ReceiveReturnsFreesAny ==
  \E end \in {"got", "error"} : ReceiveReturnsFrom(end) /\ heap' = heap - 1

ReceiveReturns ==
  \E end \in {"got", "error"} :
    /\ ReceiveReturnsFrom(end)
    /\ heap' = IF tmpbuf = "heap" THEN heap - 1 ELSE heap

-----------------------------------------------------------------------------
(* The process ends at any time and is started again; nothing deletes its  *)
(* queue (msgQDelete is never called).                                     *)
Restart ==
  /\ Start
  /\ UNCHANGED <<kernel, smsg, rmsg>>

Create == NoMemory \/ Open \/ OpenFails \/ Unlink \/ Reopen \/ ReopenFails

SendStep(s) ==
  \/ GetAttr(s)
  \/ GetAttrFails(s)
  \/ MqSend(s)
  \/ SendInterrupted(s)
  \/ SendAgain(s)
  \/ MqSendFails(s)
  \/ SendReturns(s)

ReceiveStep ==
  \/ MqReceive
  \/ MessageTooLong
  \/ ReceiveGetAttr
  \/ ReceiveGetAttrFails
  \/ Malloc
  \/ MallocFails
  \/ ReceiveInterrupted
  \/ ReceiveAgain
  \/ MqReceiveFails
  \/ ReceiveReturns

Next ==
  \/ Create
  \/ \E s \in Senders : (\E m \in Payload : CallSend(s, m)) \/ SendStep(s)
  \/ CallReceive
  \/ ReceiveStep
  \/ Restart

Spec == Init /\ [][Next]_vars

(* The receiver runs; signals do not interrupt it for ever.                *)
FairSpec ==
  /\ Spec
  /\ WF_vars(ReceiveStep)
  /\ SF_vars(MqReceive \/ MessageTooLong)

-----------------------------------------------------------------------------
(* What callers may rely on.  Before msgQCreate has returned there is      *)
(* nothing to see of the queue; of a call they see that it is under way.   *)
queueSeen == IF cpc = "ready" THEN kernel[name].msgs ELSE << >>

SendState(at, m) ==
  CASE at = "idle"  -> [state |-> "idle"]
    [] at = "ok"    -> [state |-> "ok"]
    [] at = "error" -> [state |-> "error"]
    [] OTHER        -> [state |-> "sending", msg |-> m]

ReceiveState(at, m) ==
  CASE at = "idle"  -> [state |-> "idle"]
    [] at = "got"   -> [state |-> "received", msg |-> m]
    [] at = "error" -> [state |-> "error"]
    [] OTHER        -> [state |-> "waiting"]

sendingSeen == [s \in Senders |-> SendState(spc[s], smsg[s])]

receivingSeen == ReceiveState(rpc, rmsg)

Promise ==
  INSTANCE MessageQueue WITH
    queue <- queueSeen, sending <- sendingSeen, receiving <- receivingSeen

(* The library is the bounded FIFO its callers take it for, whatever the   *)
(* kernel answers and whenever the process is restarted: no message is     *)
(* lost, doubled or left over from an earlier life (lines 39 to 45).       *)
KeepsPromise == Promise!Spec

(* The buffer for a message that is longer than the caller's is returned   *)
(* to the heap on every way out (lines 192 to 219).                        *)
BufferFreed == rpc = "idle" => heap = 0

(* A receiver with a buffer shorter than a message gets the message        *)
(* nevertheless, or an error: the retry after EMSGSIZE does not go on for  *)
(* ever.                                                                   *)
MessageTaken ==
  rpc = "receive" /\ kernel[name].msgs # << >> ~> rpc \in {"idle", "got", "error"}

(* A buffer that has been enlarged is long enough: EMSGSIZE does not come  *)
(* a second time (lines 193 to 195).                                       *)
EnlargedOnce == rpc = "receive" /\ tmpbuf = "heap" => tmpsize >= MsgLength

=============================================================================
