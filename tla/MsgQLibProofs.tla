----------------------------- MODULE MsgQLibProofs -----------------------------
(***************************************************************************)
(* msgQLib.cpp implements the bounded FIFO of module MessageQueue, for any *)
(* number of senders, names and messages, and gives its buffers back.      *)
(***************************************************************************)
EXTENDS MsgQLib, TLAPS

(* The receive side alone: what is on the heap, and how long it is.        *)
BufferInv ==
  /\ rpc \in {"idle", "receive", "interrupted", "getattr", "malloc", "got", "error"}
  /\ heap = IF rpc # "idle" /\ tmpbuf = "heap" THEN 1 ELSE 0
  /\ rpc \in {"getattr", "malloc"} => tmpbuf = "buffer"
  /\ rpc = "malloc" => tmpsize = MsgLength
  /\ rpc # "idle" /\ tmpbuf = "heap" => tmpsize = MsgLength
  /\ tmpbuf \in {"buffer", "heap", "NULL"}
  /\ tmpsize \in {ReceiveSize, MsgLength}

-----------------------------------------------------------------------------
(* BufferInv is inductive.                                                 *)

LEMMA BufferInvReceive ==
  ASSUME BufferInv, CallReceive \/ ReceiveStep
  PROVE  BufferInv'
<1>1. CASE CallReceive
  BY <1>1, SMT DEF CallReceive, BufferInv, ReceiveGoto
<1>2. CASE MqReceive \/ MessageTooLong
  BY <1>2, SMT DEF MqReceive, MessageTooLong, BufferInv, ReceiveMoves, ReceiveGoto
<1>3. CASE ReceiveGetAttr \/ ReceiveGetAttrFails
  BY <1>3, SMT DEF ReceiveGetAttr, ReceiveGetAttrFails, BufferInv, ReceiveMoves, ReceiveGoto
<1>4. CASE Malloc \/ MallocFails
  BY <1>4, SMT DEF Malloc, MallocFails, BufferInv, ReceiveGoto
<1>5. CASE ReceiveInterrupted \/ ReceiveAgain \/ MqReceiveFails
  BY <1>5, SMT DEF ReceiveInterrupted, ReceiveAgain, MqReceiveFails, BufferInv, ReceiveMoves,
     ReceiveGoto
<1>6. CASE ReceiveReturns
  BY <1>6, SMT DEF ReceiveReturns, BufferInv, ReceiveReturnsFrom, ReceiveGoto
<1> QED
  BY <1>1, <1>2, <1>3, <1>4, <1>5, <1>6 DEF ReceiveStep

(* Creating the queue and sending do not touch the receive side.           *)
LEMMA OthersKeepBuffers ==
  ASSUME Create \/ (\E s \in Senders : (\E m \in Payload : CallSend(s, m)) \/ SendStep(s))
  PROVE  UNCHANGED receiveVars
<1>1. CASE Create
  BY <1>1, Zenon DEF Create, NoMemory, Open, OpenFails, Unlink, Reopen, ReopenFails, CreateMoves
<1>2. ASSUME NEW s \in Senders, NEW m \in Payload, CallSend(s, m)
      PROVE  UNCHANGED receiveVars
  BY <1>2, Zenon DEF CallSend, SendGoto
<1>3. ASSUME NEW s \in Senders, SendStep(s)
      PROVE  UNCHANGED receiveVars
  BY <1>3, Zenon DEF SendStep, GetAttr, GetAttrFails, MqSend, SendInterrupted, SendAgain,
     MqSendFails, SendReturns, SendMoves, SendGoto
<1> QED
  BY <1>1, <1>2, <1>3

LEMMA BufferInvariance == Spec => []BufferInv
<1>1. Init => BufferInv
  BY SMT DEF Init, BufferInv
<1>2. BufferInv /\ [Next]_vars => BufferInv'
  <2> SUFFICES ASSUME BufferInv, [Next]_vars
               PROVE  BufferInv'
    OBVIOUS
  <2>1. CASE UNCHANGED receiveVars
    BY <2>1, Zenon DEF receiveVars, BufferInv
  <2>2. CASE Restart
    BY <2>2, SMT DEF Restart, Start, BufferInv
  <2>3. CASE CallReceive \/ ReceiveStep
    BY <2>3, BufferInvReceive
  <2>4. UNCHANGED vars => UNCHANGED receiveVars
    BY DEF vars
  <2> QED
    BY <2>1, <2>2, <2>3, <2>4, OthersKeepBuffers DEF Next
<1> QED
  BY <1>1, <1>2, PTL DEF Spec

(* The temporary buffer of a receive goes back to the heap on every path.  *)
THEOREM BufferAlwaysFreed == Spec => []BufferFreed
<1>1. BufferInv => BufferFreed
  BY SMT DEF BufferInv, BufferFreed
<1> QED
  BY <1>1, BufferInvariance, PTL

(* The buffer tried after EMSGSIZE is long enough for every message.       *)
THEOREM EnlargedOnceOnly == Spec => []EnlargedOnce
<1>1. BufferInv => EnlargedOnce
  BY LibAssumption, SMT DEF BufferInv, EnlargedOnce
<1> QED
  BY <1>1, BufferInvariance, PTL

-----------------------------------------------------------------------------
KernelQueue ==
  {q \in [exists : BOOLEAN, msgs : Seq(Payload)] : Len(q.msgs) <= MaxMsgs}

(* Nobody uses a queue that has not been created.                          *)
CallsInv ==
  /\ kernel \in [Names -> KernelQueue]
  /\ name \in Names
  /\ cpc \in {"open", "unlink", "reopen", "ready", "failed"}
  /\ rmsg \in Payload
  /\ spc \in [Senders -> {"idle", "getattr", "send", "interrupted", "ok", "error"}]
  /\ smsg \in [Senders -> Payload]
  /\ cpc # "ready" => rpc = "idle" /\ \A s \in Senders : spc[s] = "idle"

LEMMA KernelQueues ==
  /\ NoQueue \in KernelQueue
  /\ Queue(<< >>) \in KernelQueue
  /\ \A q \in KernelQueue :
       /\ q.msgs \in Seq(Payload)
       /\ \A m \in Payload :
            Len(q.msgs) < MaxMsgs => [q EXCEPT !.msgs = Append(q.msgs, m)] \in KernelQueue
       /\ q.msgs # << >> => /\ Head(q.msgs) \in Payload
                            /\ [q EXCEPT !.msgs = Tail(q.msgs)] \in KernelQueue
<1>1. NoQueue \in KernelQueue /\ Queue(<< >>) \in KernelQueue
  BY LibAssumption, SMT DEF KernelQueue, NoQueue, Queue
<1>2. ASSUME NEW q \in KernelQueue, NEW m \in Payload, Len(q.msgs) < MaxMsgs
      PROVE  [q EXCEPT !.msgs = Append(q.msgs, m)] \in KernelQueue
  <2> DEFINE a == Append(q.msgs, m)
  <2>1. a \in Seq(Payload) /\ Len(a) <= MaxMsgs
    BY <1>2, LibAssumption, SMT DEF KernelQueue
  <2>2. [q EXCEPT !.msgs = a] \in KernelQueue
    <3> HIDE DEF a
    <3> QED
      BY <2>1, SMT DEF KernelQueue
  <2> QED
    BY <2>2
<1>3. ASSUME NEW q \in KernelQueue, q.msgs # << >>
      PROVE  Head(q.msgs) \in Payload /\ [q EXCEPT !.msgs = Tail(q.msgs)] \in KernelQueue
  <2> DEFINE t == Tail(q.msgs)
  <2>1. Head(q.msgs) \in Payload /\ t \in Seq(Payload) /\ Len(t) <= MaxMsgs
    BY <1>3, LibAssumption, SMT DEF KernelQueue
  <2>2. [q EXCEPT !.msgs = t] \in KernelQueue
    <3> HIDE DEF t
    <3> QED
      BY <2>1, SMT DEF KernelQueue
  <2> QED
    BY <2>1, <2>2
<1>4. \A q \in KernelQueue : q.msgs \in Seq(Payload)
  BY SMT DEF KernelQueue
<1> QED
  BY <1>1, <1>2, <1>3, <1>4, Zenon

LEMMA CallsInvCreate ==
  ASSUME CallsInv, Create
  PROVE  CallsInv'
<1>1. /\ UNCHANGED <<name, spc, smsg, rpc, rmsg>>
      /\ cpc # "ready" /\ cpc' \in {"open", "unlink", "reopen", "ready", "failed"}
  BY SMT DEF Create, NoMemory, Open, OpenFails, Unlink, Reopen, ReopenFails, sendVars, receiveVars,
     CreateMoves
<1>2. kernel' \in [Names -> KernelQueue]
  BY KernelQueues, SMT DEF Create, NoMemory, Open, OpenFails, Unlink, Reopen, ReopenFails, CallsInv,
     CreateMoves
<1> QED
  BY <1>1, <1>2, SMT DEF CallsInv

LEMMA CallsInvSend ==
  ASSUME CallsInv, NEW s \in Senders,
         (\E m \in Payload : CallSend(s, m)) \/ SendStep(s)
  PROVE  CallsInv'
<1>1. UNCHANGED <<name, cpc, rpc, rmsg>> /\ cpc = "ready"
  <2>1. CASE \E m \in Payload : CallSend(s, m)
    BY <2>1, SMT DEF CallSend, createVars, receiveVars, SendGoto
  <2>2. CASE SendStep(s)
    BY <2>2, SMT DEF SendStep, GetAttr, GetAttrFails, MqSend, SendInterrupted, SendAgain,
       MqSendFails, SendReturns, SendGoto, createVars, receiveVars, CallsInv, SendMoves
  <2> QED
    BY <2>1, <2>2
<1>2. spc' \in [Senders -> {"idle", "getattr", "send", "interrupted", "ok", "error"}]
  BY SMT DEF CallSend, SendStep, GetAttr, GetAttrFails, MqSend, SendInterrupted, SendAgain,
     MqSendFails, SendReturns, SendGoto, CallsInv, SendMoves
<1>3. smsg' \in [Senders -> Payload]
  BY SMT DEF CallSend, SendStep, GetAttr, GetAttrFails, MqSend, SendInterrupted, SendAgain,
     MqSendFails, SendReturns, CallsInv, SendMoves, SendGoto
<1>4. kernel' \in [Names -> KernelQueue]
  <2>1. CASE MqSend(s)
    <3>1. kernel' = [kernel EXCEPT ![name] =
                      [kernel[name] EXCEPT !.msgs = Append(kernel[name].msgs, smsg[s])]]
      BY <2>1, SMT DEF MqSend
    <3>2. kernel[name] \in KernelQueue /\ smsg[s] \in Payload
          /\ Len(kernel[name].msgs) < MaxMsgs
      BY <2>1, SMT DEF CallsInv, MqSend
    <3>3. [kernel[name] EXCEPT !.msgs = Append(kernel[name].msgs, smsg[s])] \in KernelQueue
      BY <3>2, KernelQueues, Zenon
    <3> QED
      BY <3>1, <3>3, Zenon DEF CallsInv
  <2>2. CASE UNCHANGED kernel
    BY <2>2 DEF CallsInv
  <2> QED
    BY <2>1, <2>2, Zenon DEF CallSend, SendStep, GetAttr, GetAttrFails, SendInterrupted,
       SendAgain, MqSendFails, SendReturns, SendMoves, SendGoto
<1> QED
  BY <1>1, <1>2, <1>3, <1>4, SMT DEF CallsInv

LEMMA CallsInvReceive ==
  ASSUME CallsInv, CallReceive \/ ReceiveStep
  PROVE  CallsInv'
<1>1. UNCHANGED <<name, cpc, spc, smsg>> /\ cpc = "ready"
  BY SMT DEF CallReceive, ReceiveStep, MqReceive, MessageTooLong, ReceiveGetAttr,
     ReceiveGetAttrFails, Malloc, MallocFails, ReceiveInterrupted, ReceiveAgain,
     MqReceiveFails, ReceiveReturns, ReceiveGoto, createVars, sendVars, CallsInv, ReceiveMoves,
     ReceiveReturnsFrom
<1>2. kernel' \in [Names -> KernelQueue]
  <2>1. CASE MqReceive
    <3>1. /\ kernel[name].msgs # << >>
          /\ kernel' = [kernel EXCEPT ![name] =
                         [kernel[name] EXCEPT !.msgs = Tail(kernel[name].msgs)]]
      BY <2>1, SMT DEF MqReceive, ReceiveGoto
    <3> QED
      BY <3>1, KernelQueues, SMT DEF CallsInv
  <2>2. CASE UNCHANGED kernel
    BY <2>2 DEF CallsInv
  <2> QED
    BY <2>1, <2>2, Zenon DEF CallReceive, ReceiveStep, MessageTooLong, ReceiveGetAttr,
     ReceiveGetAttrFails, Malloc, MallocFails, ReceiveInterrupted, ReceiveAgain,
     MqReceiveFails, ReceiveReturns, ReceiveMoves, ReceiveReturnsFrom, ReceiveGoto
<1>3. rmsg' \in Payload
  <2>1. CASE MqReceive
    <3>1. kernel[name] \in KernelQueue /\ kernel[name].msgs # << >>
          /\ rmsg' = Head(kernel[name].msgs)
      BY <2>1, SMT DEF CallsInv, MqReceive, ReceiveGoto
    <3> QED
      BY <3>1, KernelQueues, Zenon
  <2>2. CASE UNCHANGED rmsg
    BY <2>2 DEF CallsInv
  <2> QED
    BY <2>1, <2>2, Zenon DEF CallReceive, ReceiveStep, MessageTooLong, ReceiveGetAttr,
     ReceiveGetAttrFails, Malloc, MallocFails, ReceiveInterrupted, ReceiveAgain,
     MqReceiveFails, ReceiveReturns, ReceiveMoves, ReceiveReturnsFrom, ReceiveGoto
<1> QED
  BY <1>1, <1>2, <1>3, SMT DEF CallsInv

LEMMA CallsInvariance == Spec => []CallsInv
<1>1. Init => CallsInv
  BY KernelQueues, SMT DEF Init, CallsInv
<1>2. CallsInv /\ [Next]_vars => CallsInv'
  <2> SUFFICES ASSUME CallsInv, [Next]_vars
               PROVE  CallsInv'
    OBVIOUS
  <2>1. CASE Restart
    BY <2>1, SMT DEF Restart, Start, CallsInv
  <2>2. CASE UNCHANGED vars
    BY <2>2, Zenon DEF vars, createVars, sendVars, receiveVars, CallsInv
  <2> QED
    BY <2>1, <2>2, CallsInvCreate, CallsInvSend, CallsInvReceive DEF Next
<1> QED
  BY <1>1, <1>2, PTL DEF Spec

(* The variables of the library keep to their ranges, and no queue of the  *)
(* kernel holds more than it was created for.                              *)
THEOREM LibTypeCorrect == Spec => []TypeOK
<1>1. CallsInv /\ BufferInv => TypeOK
  <2> SUFFICES ASSUME CallsInv, BufferInv
               PROVE  TypeOK
    OBVIOUS
  <2>1. kernel \in [Names -> [exists : BOOLEAN, msgs : Seq(Payload)]]
    BY SMT DEF CallsInv, KernelQueue
  <2>2. \A n \in Names : Len(kernel[n].msgs) <= MaxMsgs
    BY SMT DEF CallsInv, KernelQueue
  <2>3. heap \in 0 .. 1
    BY SMT DEF BufferInv
  <2> QED
    BY <2>1, <2>2, <2>3, Zenon DEF CallsInv, BufferInv, TypeOK
<1> QED
  BY <1>1, CallsInvariance, BufferInvariance, PTL

-----------------------------------------------------------------------------
(* The refinement: every step of the library is a step of the FIFO, or     *)
(* none.                                                                   *)

promiseVars == <<queueSeen, sendingSeen, receivingSeen>>

LEMMA ExceptAsFunction ==
  ASSUME NEW S, NEW f, f = [t \in S |-> f[t]], NEW s \in S, NEW x
  PROVE  [f EXCEPT ![s] = x] = [t \in S |-> IF t = s THEN x ELSE f[t]]
BY SMT

(* A step of sender s is seen as a change of its entry alone.              *)
LEMMA SenderMoves ==
  ASSUME CallsInv, NEW s \in Senders, NEW at,
         spc' = [spc EXCEPT ![s] = at],
         \A t \in Senders : t # s => smsg'[t] = smsg[t]
  PROVE  sendingSeen' = [sendingSeen EXCEPT ![s] = SendState(at, smsg'[s])]
<1>1. /\ spc'[s] = at
      /\ \A t \in Senders : t # s => spc'[t] = spc[t]
  BY SMT DEF CallsInv
<1>2. \A t \in Senders :
        SendState(spc'[t], smsg'[t]) =
          IF t = s THEN SendState(at, smsg'[s]) ELSE sendingSeen[t]
  <2> TAKE t \in Senders
  <2>1. CASE t = s
    BY <1>1, <2>1
  <2>2. CASE t # s
    <3>1. spc'[t] = spc[t] /\ smsg'[t] = smsg[t]
      BY <1>1, <2>2
    <3>2. sendingSeen[t] = SendState(spc[t], smsg[t])
      BY DEF sendingSeen
    <3> QED
      BY <2>2, <3>1, <3>2, Zenon
  <2> QED
    BY <2>1, <2>2
<1>3. sendingSeen' = [t \in Senders |-> SendState(spc'[t], smsg'[t])]
  BY DEF sendingSeen
<1>4. [sendingSeen EXCEPT ![s] = SendState(at, smsg'[s])] =
        [t \in Senders |-> IF t = s THEN SendState(at, smsg'[s]) ELSE sendingSeen[t]]
  BY ExceptAsFunction DEF sendingSeen
<1> QED
  BY <1>2, <1>3, <1>4, Zenon

LEMMA SenderSeen ==
  ASSUME NEW s \in Senders
  PROVE  sendingSeen[s] = SendState(spc[s], smsg[s])
BY DEF sendingSeen

(* Creating the queue shows nothing, and neither does a restart but that   *)
(* everything is gone.                                                     *)
LEMMA CreateStep ==
  ASSUME CallsInv, Create
  PROVE  UNCHANGED promiseVars
<1>1. queueSeen = << >>
  BY SMT DEF Create, NoMemory, Open, OpenFails, Unlink, Reopen, ReopenFails, queueSeen, CreateMoves
<1>2. queueSeen' = << >>
  <2>1. CASE Open \/ Reopen
    <3>1. kernel'[name'] = Queue(<< >>)
      BY <2>1, SMT DEF Open, Reopen, CallsInv, CreateMoves
    <3> QED
      BY <3>1, SMT DEF queueSeen, Queue
  <2>2. CASE NoMemory \/ OpenFails \/ Unlink \/ ReopenFails
    BY <2>2, SMT DEF NoMemory, OpenFails, Unlink, ReopenFails, queueSeen, CreateMoves
  <2> QED
    BY <2>1, <2>2 DEF Create
<1>3. UNCHANGED <<spc, smsg, rpc, rmsg>>
  BY SMT DEF Create, NoMemory, Open, OpenFails, Unlink, Reopen, ReopenFails, sendVars, receiveVars,
     CreateMoves
<1> QED
  BY <1>1, <1>2, <1>3, Zenon DEF promiseVars, sendingSeen, receivingSeen

LEMMA RestartStep ==
  ASSUME Restart
  PROVE  Promise!Restart
<1>1. queueSeen' = << >>
  BY SMT DEF Restart, Start, queueSeen
<1>2. \A s \in Senders : spc'[s] = "idle"
  BY SMT DEF Restart, Start
<1>3. sendingSeen' = [s \in Senders |-> [state |-> "idle"]]
  BY <1>2, Zenon DEF sendingSeen, SendState
<1>4. receivingSeen' = [state |-> "idle"]
  BY SMT DEF Restart, Start, receivingSeen, ReceiveState
<1> QED
  BY <1>1, <1>3, <1>4 DEF Promise!Restart, Promise!Idle

LEMMA SendStates ==
  \A m : /\ SendState("idle", m) = Promise!Idle
         /\ SendState("ok", m) = Promise!Ok
         /\ SendState("error", m) = Promise!Error
         /\ \A at \in {"getattr", "send", "interrupted"} :
              SendState(at, m) = Promise!Sending(m)
BY SMT DEF SendState, Promise!Idle, Promise!Ok, Promise!Error, Promise!Sending

LEMMA SendRefines ==
  ASSUME CallsInv, NEW s \in Senders,
         (\E m \in Payload : CallSend(s, m)) \/ SendStep(s)
  PROVE  [Promise!Next]_promiseVars
<1> DEFINE seen == sendingSeen[s]
<1>1. receivingSeen' = receivingSeen
  BY OthersKeepBuffers DEF receiveVars, receivingSeen
<1>2. seen = SendState(spc[s], smsg[s]) /\ smsg[s] \in Payload
  BY SenderSeen DEF CallsInv
<1>3. UNCHANGED <<kernel, name, cpc>> => queueSeen' = queueSeen
  BY DEF queueSeen
<1>4. ASSUME NEW m \in Payload, CallSend(s, m)
      PROVE  Promise!Next
  <2>1. /\ spc' = [spc EXCEPT ![s] = "getattr"] /\ spc[s] = "idle"
        /\ smsg'[s] = m /\ \A t \in Senders : t # s => smsg'[t] = smsg[t]
        /\ UNCHANGED <<kernel, name, cpc>>
    BY <1>4, SMT DEF CallSend, SendGoto, createVars, CallsInv
  <2>2. sendingSeen' = [sendingSeen EXCEPT ![s] = Promise!Sending(m)]
    <3>1. sendingSeen' = [sendingSeen EXCEPT ![s] = SendState("getattr", smsg'[s])]
      BY <2>1, SenderMoves
    <3>2. SendState("getattr", smsg'[s]) = Promise!Sending(m)
      BY <2>1, SendStates
    <3> QED
      BY <3>1, <3>2, Zenon
  <2>3. Promise!CallSend(s, m)
    BY <1>1, <1>2, <1>3, <2>1, <2>2, SendStates, Zenon DEF Promise!CallSend, SendGoto
  <2> QED
    BY <2>3 DEF Promise!Next
<1>5. CASE GetAttr(s) \/ SendInterrupted(s) \/ SendAgain(s)
  <2>1. /\ spc[s] \in {"getattr", "send", "interrupted"}
        /\ \E at \in {"getattr", "send", "interrupted"} : spc' = [spc EXCEPT ![s] = at]
        /\ UNCHANGED <<smsg, kernel, name, cpc>>
    BY <1>5, SMT DEF GetAttr, SendInterrupted, SendAgain, SendGoto, createVars, SendMoves
  <2>2. sendingSeen' = [sendingSeen EXCEPT ![s] = seen]
    <3>1. PICK at \in {"getattr", "send", "interrupted"} : spc' = [spc EXCEPT ![s] = at]
      BY <2>1
    <3>2. sendingSeen' = [sendingSeen EXCEPT ![s] = SendState(at, smsg'[s])]
      BY <2>1, <3>1, SenderMoves
    <3>3. SendState(at, smsg'[s]) = seen
      BY <1>2, <2>1, SendStates
    <3> QED
      BY <3>2, <3>3, Zenon
  <2>3. sendingSeen' = sendingSeen
    BY <2>2, Zenon DEF sendingSeen
  <2> QED
    BY <1>1, <1>3, <2>1, <2>3 DEF promiseVars
<1>6. CASE GetAttrFails(s) \/ MqSendFails(s)
  <2>1. /\ spc[s] \in {"getattr", "send", "interrupted"}
        /\ spc' = [spc EXCEPT ![s] = "error"]
        /\ UNCHANGED <<smsg, kernel, name, cpc>>
    BY <1>6, SMT DEF GetAttrFails, MqSendFails, SendGoto, createVars, SendMoves
  <2>2. sendingSeen' = [sendingSeen EXCEPT ![s] = Promise!Error]
    <3>1. sendingSeen' = [sendingSeen EXCEPT ![s] = SendState("error", smsg'[s])]
      BY <2>1, SenderMoves
    <3>2. SendState("error", smsg'[s]) = Promise!Error
      BY SendStates
    <3> QED
      BY <3>1, <3>2, Zenon
  <2>3. Promise!SendFails(s, smsg[s])
    BY <1>1, <1>2, <1>3, <2>1, <2>2, SendStates, Zenon DEF Promise!SendFails
  <2> QED
    BY <1>2, <2>3 DEF Promise!Next
<1>7. CASE MqSend(s)
  <2>1. /\ spc[s] = "send" /\ spc' = [spc EXCEPT ![s] = "ok"]
        /\ UNCHANGED <<smsg, name, cpc>> /\ cpc = "ready"
    BY <1>7, SMT DEF MqSend, SendGoto, createVars, CallsInv
  <2>2. sendingSeen' = [sendingSeen EXCEPT ![s] = Promise!Ok]
    <3>1. sendingSeen' = [sendingSeen EXCEPT ![s] = SendState("ok", smsg'[s])]
      BY <2>1, SenderMoves
    <3>2. SendState("ok", smsg'[s]) = Promise!Ok
      BY SendStates
    <3> QED
      BY <3>1, <3>2, Zenon
  <2>3. /\ Len(queueSeen) < MaxMsgs
        /\ queueSeen' = Append(queueSeen, smsg[s])
    <3>1. kernel'[name].msgs = Append(kernel[name].msgs, smsg[s])
          /\ Len(kernel[name].msgs) < MaxMsgs
      <4>1. kernel' = [kernel EXCEPT ![name] =
                        [kernel[name] EXCEPT !.msgs = Append(kernel[name].msgs, smsg[s])]]
        BY <1>7, SMT DEF MqSend
      <4>2. kernel'[name] = [kernel[name] EXCEPT !.msgs = Append(kernel[name].msgs, smsg[s])]
        BY <4>1, Zenon DEF CallsInv
      <4>3. "msgs" \in DOMAIN kernel[name]
        BY SMT DEF CallsInv, KernelQueue
      <4> QED
        BY <1>7, <4>2, <4>3, Zenon DEF MqSend
    <3> QED
      BY <2>1, <3>1 DEF queueSeen
  <2>4. Promise!SendSucceeds(s, smsg[s])
    BY <1>1, <1>2, <2>1, <2>2, <2>3, SendStates, Zenon DEF Promise!SendSucceeds
  <2> QED
    BY <1>2, <2>4 DEF Promise!Next
<1>8. CASE SendReturns(s)
  <2>1. /\ spc[s] \in {"ok", "error"} /\ spc' = [spc EXCEPT ![s] = "idle"]
        /\ UNCHANGED <<smsg, kernel, name, cpc>>
    BY <1>8, SMT DEF SendReturns, createVars, SendMoves, SendGoto
  <2>2. sendingSeen' = [sendingSeen EXCEPT ![s] = Promise!Idle]
    <3>1. sendingSeen' = [sendingSeen EXCEPT ![s] = SendState("idle", smsg'[s])]
      BY <2>1, SenderMoves
    <3>2. SendState("idle", smsg'[s]) = Promise!Idle
      BY SendStates
    <3> QED
      BY <3>1, <3>2, Zenon
  <2>3. Promise!SendReturns(s)
    BY <1>1, <1>2, <1>3, <2>1, <2>2, SendStates, Zenon DEF Promise!SendReturns, SendMoves, SendGoto
  <2> QED
    BY <2>3 DEF Promise!Next
<1> QED
  BY <1>4, <1>5, <1>6, <1>7, <1>8 DEF SendStep

LEMMA ReceiveStates ==
  \A m : /\ ReceiveState("idle", m) = Promise!Idle
         /\ ReceiveState("got", m) = Promise!Received(m)
         /\ ReceiveState("error", m) = Promise!Error
         /\ \A at \in {"receive", "interrupted", "getattr", "malloc"} :
              ReceiveState(at, m) = Promise!Waiting
         /\ Promise!Received(m) \notin {Promise!Idle, Promise!Waiting}
         /\ Promise!Error \notin {Promise!Idle, Promise!Waiting}
<1> TAKE m
<1>1. Promise!Received(m).state = "received" /\ Promise!Error.state = "error"
  BY DEF Promise!Received, Promise!Error
<1>2. Promise!Idle.state = "idle" /\ Promise!Waiting.state = "waiting"
  BY DEF Promise!Idle, Promise!Waiting
<1>3. /\ Promise!Received(m) \notin {Promise!Idle, Promise!Waiting}
      /\ Promise!Error \notin {Promise!Idle, Promise!Waiting}
  BY <1>1, <1>2
<1> QED
  BY <1>3, SMT DEF ReceiveState, Promise!Idle, Promise!Received, Promise!Error, Promise!Waiting

LEMMA ReceiveRefines ==
  ASSUME CallsInv, CallReceive \/ ReceiveStep
  PROVE  [Promise!Next]_promiseVars
<1> DEFINE Under == {"receive", "interrupted", "getattr", "malloc"}
<1>1. sendingSeen' = sendingSeen /\ UNCHANGED <<name, cpc>>
  <2>1. UNCHANGED <<spc, smsg, name, cpc>>
    BY SMT DEF CallReceive, ReceiveStep, MqReceive, MessageTooLong, ReceiveGetAttr,
       ReceiveGetAttrFails, Malloc, MallocFails, ReceiveInterrupted, ReceiveAgain,
       MqReceiveFails, ReceiveReturns, createVars, sendVars, ReceiveMoves, ReceiveReturnsFrom,
       ReceiveGoto
  <2> QED
    BY <2>1, Zenon DEF sendingSeen
<1>2. UNCHANGED kernel => queueSeen' = queueSeen
  BY <1>1 DEF queueSeen
<1>3. receivingSeen = ReceiveState(rpc, rmsg) /\ receivingSeen' = ReceiveState(rpc', rmsg')
  BY DEF receivingSeen
<1>4. CASE CallReceive
  <2>1. rpc = "idle" /\ rpc' = "receive" /\ UNCHANGED kernel
    BY <1>4, SMT DEF CallReceive, ReceiveGoto
  <2>2. receivingSeen = Promise!Idle /\ receivingSeen' = Promise!Waiting
    BY <1>3, <2>1, ReceiveStates
  <2> QED
    BY <1>1, <1>2, <2>1, <2>2, Zenon DEF Promise!CallReceive, Promise!Next, ReceiveGoto
<1>5. CASE MqReceive
  <2>1. /\ rpc = "receive" /\ rpc' = "got" /\ cpc = "ready"
        /\ kernel[name].msgs # << >> /\ rmsg' = Head(kernel[name].msgs)
    BY <1>5, SMT DEF MqReceive, ReceiveGoto, CallsInv
  <2>2. kernel'[name].msgs = Tail(kernel[name].msgs)
    <3>1. kernel' = [kernel EXCEPT ![name] =
                      [kernel[name] EXCEPT !.msgs = Tail(kernel[name].msgs)]]
      BY <1>5, SMT DEF MqReceive, ReceiveGoto
    <3>2. kernel'[name] = [kernel[name] EXCEPT !.msgs = Tail(kernel[name].msgs)]
      BY <3>1, Zenon DEF CallsInv
    <3>3. "msgs" \in DOMAIN kernel[name]
      BY SMT DEF CallsInv, KernelQueue
    <3> QED
      BY <3>2, <3>3, Zenon
  <2>3. /\ queueSeen = kernel[name].msgs
        /\ queueSeen' = Tail(queueSeen)
    BY <1>1, <2>1, <2>2 DEF queueSeen
  <2>4. receivingSeen = Promise!Waiting
    BY <1>3, <2>1, ReceiveStates
  <2>5. receivingSeen' = Promise!Received(Head(queueSeen))
    BY <1>3, <2>1, <2>3, ReceiveStates, Zenon
  <2> QED
    BY <1>1, <2>1, <2>3, <2>4, <2>5, Zenon DEF Promise!ReceiveSucceeds, Promise!Next
<1>6. ASSUME rpc \in Under, rpc' = "error", UNCHANGED kernel
      PROVE  Promise!Next
  <2>1. receivingSeen = Promise!Waiting /\ receivingSeen' = Promise!Error
    BY <1>3, <1>6, ReceiveStates
  <2> QED
    BY <1>1, <1>2, <1>6, <2>1, Zenon DEF Promise!ReceiveFails, Promise!Next
<1>7. ASSUME rpc \in Under, rpc' \in Under, UNCHANGED kernel
      PROVE  UNCHANGED promiseVars
  <2>1. receivingSeen = Promise!Waiting /\ receivingSeen' = Promise!Waiting
    BY <1>3, <1>7, ReceiveStates
  <2> QED
    BY <1>1, <1>2, <1>7, <2>1, Zenon DEF promiseVars
<1>8. CASE ReceiveReturns
  <2>1. rpc \in {"got", "error"} /\ rpc' = "idle" /\ UNCHANGED kernel
    BY <1>8, SMT DEF ReceiveReturns, ReceiveReturnsFrom, ReceiveGoto
  <2>2. receivingSeen \notin {Promise!Idle, Promise!Waiting} /\ receivingSeen' = Promise!Idle
    BY <1>3, <2>1, ReceiveStates
  <2> QED
    BY <1>1, <1>2, <2>1, <2>2, Zenon DEF Promise!ReceiveReturns, Promise!Next
<1>9. CASE MessageTooLong \/ ReceiveGetAttr \/ ReceiveGetAttrFails \/ Malloc \/ MallocFails
           \/ ReceiveInterrupted \/ ReceiveAgain \/ MqReceiveFails
  <2>1. rpc \in Under /\ rpc' \in Under \cup {"error"} /\ UNCHANGED kernel
    BY <1>9, SMT DEF MessageTooLong, ReceiveGetAttr, ReceiveGetAttrFails, Malloc, MallocFails,
       ReceiveInterrupted, ReceiveAgain, MqReceiveFails, ReceiveGoto, ReceiveMoves
  <2> QED
    BY <1>6, <1>7, <2>1
<1> QED
  BY <1>4, <1>5, <1>8, <1>9 DEF ReceiveStep

(* msgQLib is the bounded FIFO its callers take it for (lines 39 to 219),  *)
(* however many threads send, however long the queue and whatever the      *)
(* length of messages and buffers: every step of the code is a step of     *)
(* MessageQueue, or not seen by the callers.                               *)
THEOREM LibKeepsPromise == Spec => KeepsPromise
<1>1. Init => Promise!Init
  <2> SUFFICES ASSUME Init
               PROVE  Promise!Init
    OBVIOUS
  <2>1. queueSeen = << >>
    BY SMT DEF Init, queueSeen
  <2>2. sendingSeen = [s \in Senders |-> [state |-> "idle"]]
    <3>1. \A s \in Senders : spc[s] = "idle"
      BY Zenon DEF Init
    <3> QED
      BY <3>1, Zenon DEF sendingSeen, SendState
  <2>3. receivingSeen = [state |-> "idle"]
    BY SMT DEF Init, receivingSeen, ReceiveState
  <2> QED
    BY <2>1, <2>2, <2>3 DEF Promise!Init, Promise!Idle
<1>2. CallsInv /\ [Next]_vars => [Promise!Next]_promiseVars
  <2> SUFFICES ASSUME CallsInv, [Next]_vars
               PROVE  [Promise!Next]_promiseVars
    OBVIOUS
  <2>1. CASE UNCHANGED vars
    BY <2>1, Zenon DEF vars, createVars, sendVars, receiveVars, promiseVars, queueSeen,
       sendingSeen, receivingSeen
  <2>2. CASE Restart
    BY <2>2, RestartStep, Zenon DEF Promise!Next
  <2> QED
    BY <2>1, <2>2, CreateStep, SendRefines, ReceiveRefines DEF Next
<1>3. Promise!vars = promiseVars
  BY DEF Promise!vars, promiseVars
<1> QED
  BY <1>1, <1>2, <1>3, CallsInvariance, PTL DEF Spec, KeepsPromise, Promise!Spec, promiseVars,
     Promise!vars
=============================================================================
