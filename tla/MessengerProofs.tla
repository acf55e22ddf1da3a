--------------------------- MODULE MessengerProofs ---------------------------
(***************************************************************************)
(* Proofs about Messenger for any number of calls, IDs, retries and frames *)
(* on the wire: its types, and that the two registries of a Messenger,     *)
(* pendingAcks and pendingResponses, hold exactly what they should.        *)
(***************************************************************************)
EXTENDS Messenger, TLAPS

\* What control flow says about the other variables.  A thread that begins an
\* attempt has one left; a Serve loop past readHeader has a frame; the call
\* whose pipe it fills has been handed its response; a call that has not
\* started has been handed nothing.
Control ==
    /\ \A t \in Threads : pc[t] = "begin" => attempt[t] < attempts(t)
    /\ \A e \in Ends : pc[e] \in {"handler", "begin", "write", "awaitAck", "pipe", "pipeWrite"}
                          => frame[e] \in Frame
    /\ \A e \in Ends : pc[e] \in {"pipe", "pipeWrite"}
                          => pipeTo[e] \in Calls /\ resp[pipeTo[e]] # "none"
    /\ \A c \in Calls : pc[c] = "idle" => resp[c] = "none" /\ attempt[c] = 0

\* The inductive invariant.
IInv == TypeOK /\ Control /\ PendingAcksExact /\ PendingResponsesExact

\* The message a thread sends is a frame whenever the thread is in its send loop.
LEMMA OutIsFrame ==
    ASSUME TypeOK, Control, NEW t \in Threads,
           pc[t] \in {"begin", "write", "awaitAck"}
    PROVE  Out(t) \in Frame
BY CallsAssumption, EndsAssumption DEF TypeOK, Control, Out, Threads, Frame, CallTypes, Types

LEMMA EndOfThread ==
    ASSUME NEW t \in Threads
    PROVE  EndOf(t) \in Ends
BY CallsAssumption DEF EndOf, Threads

LEMMA AttemptsPositive ==
    ASSUME NEW t \in Threads
    PROVE  attempts(t) \in Nat /\ attempts(t) > 0
BY EndOfThread, ConfigAssumption DEF attempts, shouldAwaitAcknowledge

\* Updating one entry of a table of tables keeps its type.
LEMMA NestedUpdate ==
    ASSUME NEW S, NEW T, NEW V, NEW g \in [S -> [T -> V]], NEW x \in S, NEW y \in T, NEW v \in V
    PROVE  [g EXCEPT ![x][y] = v] \in [S -> [T -> V]]
OBVIOUS

\* The helpers return registries, counters and wires of the right type.
LEMMA RegistryTypes ==
    ASSUME TypeOK, NEW t \in Threads, Out(t).id \in IDs
    PROVE  /\ registerPendingAck(t) \in [Ends -> [IDs -> Threads \cup {None}]]
           /\ unregisterPendingAck(t) \in [Ends -> [IDs -> Threads \cup {None}]]
<1> EndOf(t) \in Ends
  BY EndOfThread
<1> pendingAcks \in [Ends -> [IDs -> Threads \cup {None}]]
  BY DEF TypeOK
<1> QED
  BY DEF registerPendingAck, unregisterPendingAck

LEMMA ResponsesType ==
    ASSUME TypeOK, NEW t \in Threads
    PROVE  unregisterPendingResponse(t) \in [Ends -> [IDs -> Calls \cup {None}]]
BY CallsAssumption DEF TypeOK, unregisterPendingResponse

LEMMA AckOutType ==
    ASSUME TypeOK, NEW e \in Ends, NEW id \in IDs
    PROVE  sendAcknowledge(e, id) \in [Ends -> [IDs -> Nat]]
BY DEF TypeOK, sendAcknowledge

LEMMA WireType ==
    ASSUME TypeOK, NEW e \in Ends, NEW f \in Frame
    PROVE  Put(e, f) \in [Ends -> Seq(Frame)]
BY EndsAssumption DEF TypeOK, Put

\* A thread moves to a place of its own kind.
LEMMA PCType ==
    ASSUME TypeOK, NEW t \in Threads, NEW v,
           t \in Ends => v \in ServePCs, t \in Calls => v \in CallPCs,
           pc' = [pc EXCEPT ![t] = v]
    PROVE  /\ pc' \in [Threads -> CallPCs \cup ServePCs]
           /\ \A e \in Ends : pc'[e] \in ServePCs
           /\ \A c \in Calls : pc'[c] \in CallPCs
BY EndsAssumption DEF TypeOK, Threads

-----------------------------------------------------------------------------
(* Type correctness.                                                       *)

LEMMA TypeOKSend ==
    ASSUME IInv, NEW t \in Threads, SendStep(t)
    PROVE  TypeOK'
<1> USE DEF IInv, sendVars, serveVars, envVars
<1>e. EndOf(t) \in Ends
  BY EndOfThread
<1>o. pc[t] \in {"begin", "write", "awaitAck"} => Out(t) \in Frame /\ Out(t).id \in IDs
  BY OutIsFrame DEF Frame
<1>f. t \in Ends /\ pc[t] \in {"write", "awaitAck"} => frame[t].id \in IDs
  BY DEF Control, Frame
<1>g. t \in Ends \/ t \in Calls
  BY DEF Threads
<1>h. Ends \cap Calls = {}
  BY EndsAssumption
<1>1. CASE SendRefused(t)
  <2>1. pc' = [pc EXCEPT ![t] = AfterError(t)]
    BY <1>1 DEF SendRefused, Fail
  <2>2. (t \in Ends => AfterError(t) \in ServePCs) /\ (t \in Calls => AfterError(t) \in CallPCs)
    BY <1>h DEF AfterError, ServePCs, CallPCs
  <2>3. pendingResponses' \in [Ends -> [IDs -> Calls \cup {None}]]
    BY <1>1, ResponsesType DEF SendRefused, Fail
  <2> QED
    BY <1>1, <2>1, <2>2, <2>3, PCType DEF SendRefused, TypeOK
<1>2. CASE BeginAttempt(t)
  <2>1. pc' = [pc EXCEPT ![t] = "write"]
    BY <1>2 DEF BeginAttempt
  <2>2. pendingAcks' \in [Ends -> [IDs -> Threads \cup {None}]]
    BY <1>2, <1>o, RegistryTypes DEF BeginAttempt, TypeOK
  <2>3. attempt' \in [Threads -> Nat] /\ \A u \in Threads : attempt'[u] <= attempts(u)
    BY <1>2, AttemptsPositive DEF BeginAttempt, TypeOK, Control
  <2>4. acked' \in [Threads -> BOOLEAN]
    BY <1>2 DEF BeginAttempt, TypeOK
  <2> QED
    BY <1>2, <2>1, <2>2, <2>3, <2>4, PCType DEF BeginAttempt, TypeOK, ServePCs, CallPCs
<1>3. CASE SendWrite(t)
  <2>1. wire' \in [Ends -> Seq(Frame)]
    BY <1>3, <1>e, <1>o, WireType DEF SendWrite
  <2>2. PICK v : pc' = [pc EXCEPT ![t] = v] /\ v \in {"awaitAck", AfterSend(t)}
    BY <1>3 DEF SendWrite, Succeed
  <2>3. (t \in Ends => v \in ServePCs) /\ (t \in Calls => v \in CallPCs)
    BY <2>2, <1>h DEF AfterSend, ServePCs, CallPCs
  <2>4. ackOut' \in [Ends -> [IDs -> Nat]]
    BY <1>3, <1>f, AckOutType DEF SendWrite, Succeed, TypeOK
  <2> QED
    BY <1>3, <2>1, <2>2, <2>3, <2>4, PCType DEF SendWrite, TypeOK
<1>4. ASSUME pc[t] \in {"write", "awaitAck"}, Retry(t),
             UNCHANGED <<attempt, acked, serveVars, envVars, wire, resp, ackOut, runs>>
      PROVE  TypeOK'
  <2>1. pendingAcks' \in [Ends -> [IDs -> Threads \cup {None}]]
    BY <1>4, <1>o, RegistryTypes DEF Retry
  <2>2. PICK v : pc' = [pc EXCEPT ![t] = v] /\ v \in {"begin", AfterError(t)}
    BY <1>4 DEF Retry, Fail
  <2>3. (t \in Ends => v \in ServePCs) /\ (t \in Calls => v \in CallPCs)
    BY <2>2, <1>h DEF AfterError, ServePCs, CallPCs
  <2>4. pendingResponses' \in [Ends -> [IDs -> Calls \cup {None}]]
    BY <1>4, ResponsesType DEF Retry, Fail, TypeOK
  <2> QED
    BY <1>4, <2>1, <2>2, <2>3, <2>4, PCType DEF TypeOK
<1>5. CASE AckArrives(t)
  <2>1. pendingAcks' \in [Ends -> [IDs -> Threads \cup {None}]]
    BY <1>5, <1>o, RegistryTypes DEF AckArrives
  <2>2. pc' = [pc EXCEPT ![t] = AfterSend(t)]
    BY <1>5 DEF AckArrives, Succeed
  <2>3. (t \in Ends => AfterSend(t) \in ServePCs) /\ (t \in Calls => AfterSend(t) \in CallPCs)
    BY <1>h DEF AfterSend, ServePCs, CallPCs
  <2>4. ackOut' \in [Ends -> [IDs -> Nat]]
    BY <1>5, <1>f, AckOutType DEF AckArrives, Succeed, TypeOK
  <2> QED
    BY <1>5, <2>1, <2>2, <2>3, <2>4, PCType DEF AckArrives, TypeOK
<1>6. CASE AttemptCancelled(t)
  <2>1. pc' = [pc EXCEPT ![t] = AfterError(t)]
    BY <1>6 DEF AttemptCancelled, Fail
  <2>2. (t \in Ends => AfterError(t) \in ServePCs) /\ (t \in Calls => AfterError(t) \in CallPCs)
    BY <1>h DEF AfterError, ServePCs, CallPCs
  <2>3. pendingResponses' \in [Ends -> [IDs -> Calls \cup {None}]]
    BY <1>6, ResponsesType DEF AttemptCancelled, Fail
  <2>4. pendingAcks' \in [Ends -> [IDs -> Threads \cup {None}]]
    <3>1. pendingAcks \in [Ends -> [IDs -> Threads \cup {None}]] /\ None \in Threads \cup {None}
      BY DEF TypeOK
    <3>2. Out(t).id \in IDs
      BY <1>6, <1>o DEF AttemptCancelled
    <3>3. [pendingAcks EXCEPT ![EndOf(t)][Out(t).id] = None] \in [Ends -> [IDs -> Threads \cup {None}]]
      BY <1>e, <3>1, <3>2, NestedUpdate
    <3> QED
      BY <1>6, <3>1, <3>3 DEF AttemptCancelled
  <2>5. attempt' \in [Threads -> Nat] /\ \A u \in Threads : attempt'[u] <= attempts(u)
    BY <1>6, AttemptsPositive DEF AttemptCancelled, TypeOK, Control
  <2>6. acked' \in [Threads -> BOOLEAN]
    BY <1>6 DEF AttemptCancelled, TypeOK
  <2> QED
    BY <1>6, <2>1, <2>2, <2>3, <2>4, <2>5, <2>6, PCType DEF AttemptCancelled, TypeOK
<1> QED
  BY <1>1, <1>2, <1>3, <1>4, <1>5, <1>6 DEF SendStep, SendFails, SendCancelled, AckTimeout

LEMMA TypeOKCall ==
    ASSUME IInv, NEW c \in Calls, CallStep(c)
    PROVE  TypeOK'
<1> USE DEF IInv, sendVars, serveVars, envVars
<1> c \in Threads /\ c \notin Ends
  BY EndsAssumption DEF Threads
<1>1. PICK v \in CallPCs : pc' = [pc EXCEPT ![c] = v]
  BY DEF CallStep, StartCall, StartSend, StartRequest, StartDuplicate, RespArrives, RespCancelled, BodyRead, CallPCs
<1>2. pendingResponses' \in [Ends -> [IDs -> Calls \cup {None}]]
  <2>1. registerPendingResponse(c) \in [Ends -> [IDs -> Calls \cup {None}]]
    BY CallsAssumption DEF registerPendingResponse, TypeOK
  <2> QED
    BY <2>1, ResponsesType DEF CallStep, StartCall, StartSend, StartRequest, StartDuplicate, RespArrives, RespCancelled,
                               BodyRead, TypeOK
<1> QED
  BY <1>1, <1>2, PCType DEF CallStep, StartCall, StartSend, StartRequest, StartDuplicate, RespArrives, RespCancelled,
                            BodyRead, TypeOK

\* The frame a Serve loop takes off the wire, and what it leaves there.
LEMMA NextFrameType ==
    ASSUME TypeOK, NEW e \in Ends, NextFrame(e)
    PROVE  /\ Head(wire[e]) \in Frame /\ Head(wire[e]).id \in IDs
           /\ wire' \in [Ends -> Seq(Frame)]
<1> wire[e] \in Seq(Frame) /\ wire[e] # <<>>
  BY DEF TypeOK, NextFrame
<1> Head(wire[e]) \in Frame /\ Tail(wire[e]) \in Seq(Frame)
  OBVIOUS
<1> QED
  BY DEF NextFrame, TypeOK, Frame

\* Control gives the frame a Serve loop is busy with its type.
LEMMA FrameInHand ==
    ASSUME Control, NEW e \in Ends,
           pc[e] \in {"handler", "begin", "write", "awaitAck", "pipe", "pipeWrite"}
    PROVE  frame[e] \in Frame /\ frame[e].id \in IDs
BY DEF Control, Frame

LEMMA TypeOKServe ==
    ASSUME IInv, NEW e \in Ends, ServeStep(e)
    PROVE  TypeOK'
<1> USE DEF IInv, sendVars, serveVars, envVars
<1> e \in Threads /\ e \notin Calls
  BY EndsAssumption DEF Threads
<1>1. CASE ServeResponse(e)
  <2> DEFINE f == Head(wire[e])
  <2>1. f \in Frame /\ f.id \in IDs /\ wire' \in [Ends -> Seq(Frame)]
    BY <1>1, NextFrameType DEF ServeResponse
  <2>2. pendingResponses[e][f.id] \in Calls
    BY <1>1, <2>1 DEF ServeResponse, PendingMatches, TypeOK
  <2>3. pendingResponses' \in [Ends -> [IDs -> Calls \cup {None}]]
    BY <1>1, <2>1 DEF ServeResponse, TypeOK
  <2>4. pc' = [pc EXCEPT ![e] = "pipe"]
    BY <1>1 DEF ServeResponse
  <2> QED
    BY <1>1, <2>1, <2>2, <2>3, <2>4, PCType DEF ServeResponse, TypeOK, ServePCs
<1>2. CASE ServeAck(e)
  <2> DEFINE f == Head(wire[e])
  <2>1. f \in Frame /\ f.id \in IDs /\ wire' \in [Ends -> Seq(Frame)]
    BY <1>2, NextFrameType DEF ServeAck
  <2>2. pendingAcks' \in [Ends -> [IDs -> Threads \cup {None}]]
    <3>1. pendingAcks' = pendingAcks \/ pendingAcks' = [pendingAcks EXCEPT ![e][f.id] = None]
      BY <1>2 DEF ServeAck
    <3>2. pendingAcks \in [Ends -> [IDs -> Threads \cup {None}]] /\ None \in Threads \cup {None}
      BY DEF TypeOK
    <3>3. [pendingAcks EXCEPT ![e][f.id] = None] \in [Ends -> [IDs -> Threads \cup {None}]]
      BY <2>1, <3>2, NestedUpdate
    <3> QED
      BY <3>1, <3>2, <3>3
  <2>3. acked' \in [Threads -> BOOLEAN]
    BY <1>2 DEF ServeAck, TypeOK
  <2> QED
    BY <1>2, <2>1, <2>2, <2>3 DEF ServeAck, TypeOK
<1>3. CASE ServeHandle(e)
  <2>1. Head(wire[e]) \in Frame /\ wire' \in [Ends -> Seq(Frame)]
    BY <1>3, NextFrameType DEF ServeHandle
  <2>2. pc' = [pc EXCEPT ![e] = "handler"]
    BY <1>3 DEF ServeHandle
  <2> QED
    BY <1>3, <2>1, <2>2, PCType DEF ServeHandle, TypeOK, ServePCs
<1>4. CASE ServeIgnore(e)
  <2>1. Head(wire[e]).id \in IDs /\ wire' \in [Ends -> Seq(Frame)]
    BY <1>4, NextFrameType DEF ServeIgnore
  <2> QED
    BY <1>4, <2>1, AckOutType DEF ServeIgnore, TypeOK
<1>5. CASE ServeRefuse(e)
  <2>1. wire' \in [Ends -> Seq(Frame)]
    BY <1>5, NextFrameType DEF ServeRefuse
  <2>2. pc' = [pc EXCEPT ![e] = "stopped"]
    BY <1>5 DEF ServeRefuse
  <2> QED
    BY <1>5, <2>1, <2>2, PCType DEF ServeRefuse, TypeOK, ServePCs
<1>6. CASE ServeReturns(e)
  BY <1>6, PCType DEF ServeReturns, TypeOK, ServePCs
<1>7. CASE HandlerReturns(e)
  <2>1. frame[e].id \in IDs
    BY <1>7, FrameInHand DEF HandlerReturns
  <2>2. runs' \in [Ends -> [IDs -> Nat]]
    BY <1>7, <2>1 DEF HandlerReturns, TypeOK
  <2>3. ackOut' \in [Ends -> [IDs -> Nat]]
    BY <1>7, <2>1, AckOutType DEF HandlerReturns
  <2> QED
    BY <1>7, <2>2, <2>3, PCType DEF HandlerReturns, TypeOK, ServePCs
<1>8. CASE HandlerReplies(e)
  <2>1. frame[e].id \in IDs
    BY <1>8, FrameInHand DEF HandlerReplies
  <2>2. runs' \in [Ends -> [IDs -> Nat]]
    BY <1>8, <2>1 DEF HandlerReplies, TypeOK
  <2>3. frame' \in [Ends -> Frame \cup {NoFrame}]
    BY <1>8, <2>1, CallsAssumption DEF HandlerReplies, TypeOK, Frame, Types
  <2>4. attempt' \in [Threads -> Nat] /\ \A t \in Threads : attempt'[t] <= attempts(t)
    BY <1>8, AttemptsPositive DEF HandlerReplies, TypeOK
  <2> QED
    BY <1>8, <2>2, <2>3, <2>4, PCType DEF HandlerReplies, TypeOK, ServePCs
<1>9. CASE HandlerFails(e)
  BY <1>9, PCType DEF HandlerFails, TypeOK, ServePCs
<1>10. CASE PipeRead(e) \/ PipeWrite(e)
  <2>1. frame[e].id \in IDs
    BY <1>10, FrameInHand DEF PipeRead, PipeWrite
  <2>2. ackOut' \in [Ends -> [IDs -> Nat]]
    BY <1>10, <2>1, AckOutType DEF PipeRead, PipeWrite, TypeOK
  <2>3. PICK v \in ServePCs : pc' = [pc EXCEPT ![e] = v]
    BY <1>10 DEF PipeRead, PipeWrite, ServePCs
  <2>4. resp' \in [Calls -> {"none", "open", "full", "cut"}]
    BY <1>10 DEF PipeRead, PipeWrite, TypeOK
  <2> QED
    BY <1>10, <2>2, <2>3, <2>4, PCType DEF PipeRead, PipeWrite, TypeOK
<1>11. CASE PipeCut(e)
  BY <1>11, PCType DEF PipeCut, TypeOK, ServePCs
<1> QED
  BY <1>1, <1>2, <1>3, <1>4, <1>5, <1>6, <1>7, <1>8, <1>9, <1>10, <1>11 DEF ServeStep

LEMMA TypeOKAckEnv ==
    ASSUME IInv,
           (\E e \in Ends, id \in IDs : AckStep(e, id)) \/ EnvStep
    PROVE  TypeOK'
<1> USE DEF IInv, sendVars, serveVars, envVars
<1>1. ASSUME NEW e \in Ends, NEW id \in IDs, AckStep(e, id)
      PROVE  TypeOK'
  <2>1. ackOut' \in [Ends -> [IDs -> Nat]]
    <3>1. ackOut[e][id] - 1 \in Nat /\ ackOut' = [ackOut EXCEPT ![e][id] = @ - 1]
      BY <1>1 DEF AckStep, AckWrite, AckDropped, TypeOK
    <3> QED
      BY <3>1 DEF TypeOK
  <2>2. AckFrame(id) \in Frame
    BY DEF AckFrame, Frame, Types
  <2>3. wire' \in [Ends -> Seq(Frame)]
    BY <1>1, <2>2, WireType DEF AckStep, AckWrite, AckDropped, TypeOK
  <2> QED
    BY <1>1, <2>1, <2>3 DEF AckStep, AckWrite, AckDropped, TypeOK
<1>2. CASE EnvStep
  <2>1. ASSUME NEW t \in Threads, Cancel(t) PROVE TypeOK'
    BY <2>1 DEF Cancel, TypeOK
  <2>2. ASSUME NEW e \in Ends, CloseConn(e) PROVE TypeOK'
    BY <2>2 DEF CloseConn, TypeOK
  <2>3. ASSUME NEW e \in Ends, NEW y \in Wrapped, RemoveReceiver(e, y) \/ OnReceive(e, y)
        PROVE  TypeOK'
    <3>1. PICK b \in BOOLEAN : receiver' = [receiver EXCEPT ![e][y] = b]
      BY <2>3 DEF RemoveReceiver, OnReceive
    <3>2. receiver \in [Ends -> [Wrapped -> BOOLEAN]]
      BY DEF TypeOK
    <3>3. receiver' \in [Ends -> [Wrapped -> BOOLEAN]]
      BY <3>1, <3>2, NestedUpdate, Zenon
    <3> QED
      BY <2>3, <3>3 DEF RemoveReceiver, OnReceive, TypeOK
  <2> QED
    BY <1>2, <2>1, <2>2, <2>3 DEF EnvStep
<1> QED
  BY <1>1, <1>2

-----------------------------------------------------------------------------
(* Control.                                                                *)

LEMMA ControlSend ==
    ASSUME IInv, NEW t \in Threads, SendStep(t)
    PROVE  Control'
<1> USE DEF IInv, sendVars, serveVars, envVars
<1>1. UNCHANGED <<frame, pipeTo, resp>>
  BY DEF SendStep, SendRefused, BeginAttempt, AttemptCancelled, SendWrite, SendFails, SendCancelled,
         AckArrives, AckTimeout
<1>2. /\ pc' = [pc EXCEPT ![t] = pc'[t]]
      /\ pc[t] \in {"begin", "write", "awaitAck"}
      /\ pc'[t] \in {"begin", "write", "awaitAck", "awaitResp", "ok", "err", "read", "stopped"}
  BY DEF SendStep, SendRefused, BeginAttempt, AttemptCancelled, SendWrite, SendFails, SendCancelled, AckArrives,
         AckTimeout, Retry, Fail, Succeed, AfterError, AfterSend, TypeOK
<1>3. pc'[t] = "begin" => attempt' = attempt /\ ~LastAttempt(t) /\ attempt[t] <= attempts(t)
  BY <1>2 DEF SendStep, SendRefused, BeginAttempt, AttemptCancelled, SendWrite, SendFails, SendCancelled, AckArrives,
         AckTimeout, Retry, Fail, Succeed, AfterError, AfterSend, TypeOK
<1>4. attempt[t] \in Nat /\ attempts(t) \in Nat
  BY AttemptsPositive DEF TypeOK
<1>5. pc'[t] = "begin" => attempt'[t] < attempts(t)
  BY <1>3, <1>4 DEF LastAttempt
<1>6. \A u \in Threads \ {t} : attempt'[u] = attempt[u] /\ pc'[u] = pc[u]
  BY <1>2 DEF SendStep, SendRefused, BeginAttempt, AttemptCancelled, SendWrite, SendFails, SendCancelled, AckArrives,
         AckTimeout, TypeOK
<1>7. \A u \in Threads : pc'[u] = "begin" => attempt'[u] < attempts(u)
  BY <1>5, <1>6 DEF Control
<1> QED
  BY <1>1, <1>2, <1>6, <1>7 DEF Control, Threads

LEMMA ControlCall ==
    ASSUME IInv, NEW c \in Calls, CallStep(c)
    PROVE  Control'
<1> USE DEF IInv, sendVars, serveVars, envVars
<1>1. UNCHANGED <<frame, pipeTo, resp, attempt>>
  BY DEF CallStep, StartCall, StartSend, StartRequest, StartDuplicate, RespArrives, RespCancelled, BodyRead
<1>2. pc' = [pc EXCEPT ![c] = pc'[c]] /\ pc'[c] \in {"begin", "readBody", "ok", "err"}
  BY DEF CallStep, StartCall, StartSend, StartRequest, StartDuplicate, RespArrives, RespCancelled, BodyRead, TypeOK, Threads
<1>3. pc'[c] = "begin" => attempt[c] < attempts(c)
  BY <1>2, AttemptsPositive DEF CallStep, StartCall, StartSend, StartRequest, StartDuplicate, RespArrives, RespCancelled,
                                BodyRead, Control, Threads, TypeOK
<1> QED
  BY <1>1, <1>2, <1>3, EndsAssumption DEF Control, Threads, TypeOK

LEMMA ControlServe ==
    ASSUME IInv, NEW e \in Ends, ServeStep(e)
    PROVE  Control'
<1> USE DEF IInv, sendVars, serveVars, envVars
<1>t. e \in Threads /\ e \notin Calls
  BY EndsAssumption DEF Threads
<1>a. \A c \in Calls : pc'[c] = pc[c] /\ attempt'[c] = attempt[c]
  BY <1>t DEF ServeStep, ServeResponse, ServeAck, ServeHandle, ServeIgnore, ServeRefuse, ServeReturns,
         HandlerReturns, HandlerReplies, HandlerFails, PipeRead, PipeCut, PipeWrite, TypeOK, Threads
<1>b. \A d \in Ends \ {e} : /\ pc'[d] = pc[d] /\ attempt'[d] = attempt[d]
                              /\ frame'[d] = frame[d] /\ pipeTo'[d] = pipeTo[d]
  BY <1>t DEF ServeStep, ServeResponse, ServeAck, ServeHandle, ServeIgnore, ServeRefuse, ServeReturns,
         HandlerReturns, HandlerReplies, HandlerFails, PipeRead, PipeCut, PipeWrite, TypeOK, Threads
<1>c. /\ pc'[e] = "begin" => attempt'[e] < attempts(e)
      /\ pc'[e] \in {"handler", "begin", "write", "awaitAck", "pipe", "pipeWrite"} => frame'[e] \in Frame
      /\ pc'[e] \in {"pipe", "pipeWrite"} => pipeTo'[e] \in Calls /\ resp'[pipeTo'[e]] # "none"
      /\ \A c \in Calls : resp[c] # "none" => resp'[c] # "none"
      /\ \A c \in Calls : pc[c] = "idle" => resp'[c] = "none"
  <2>1. CASE ServeResponse(e)
    <3> DEFINE f == Head(wire[e])
    <3>1. f \in Frame /\ f.id \in IDs
      BY <2>1, NextFrameType DEF ServeResponse
    <3>2. pendingResponses[e][f.id] \in Calls
      BY <2>1, <3>1 DEF ServeResponse, PendingMatches, TypeOK
    <3>3. pc[pendingResponses[e][f.id]] # "idle"
      BY <3>1, <3>2 DEF PendingResponsesExact, Waiting
    <3>4. /\ pc'[e] = "pipe" /\ frame'[e] = f /\ pipeTo'[e] = pendingResponses[e][f.id]
          /\ resp' = [resp EXCEPT ![pendingResponses[e][f.id]] = "open"]
      BY <1>t, <2>1 DEF ServeResponse, TypeOK
    <3> HIDE DEF f
    <3> QED
      BY <3>1, <3>2, <3>3, <3>4 DEF Control, TypeOK
  <2>2. CASE ServeAck(e) \/ ServeIgnore(e)
    <3>1. UNCHANGED <<pc, attempt, frame, pipeTo, resp>>
      BY <2>2 DEF ServeAck, ServeIgnore
    <3> QED
      BY <1>t, <3>1 DEF Control
  <2>3. CASE ServeHandle(e)
    <3>1. /\ pc'[e] = "handler" /\ frame'[e] = Head(wire[e]) /\ Head(wire[e]) \in Frame
          /\ UNCHANGED <<attempt, pipeTo, resp>>
      BY <1>t, <2>3, NextFrameType DEF ServeHandle, TypeOK
    <3> QED
      BY <3>1 DEF Control
  <2>4. CASE ServeRefuse(e) \/ ServeReturns(e) \/ HandlerReturns(e) \/ HandlerFails(e)
    BY <1>t, <2>4 DEF ServeRefuse, ServeReturns, HandlerReturns, HandlerFails, Control, TypeOK
  <2>5. CASE HandlerReplies(e)
    <3>1. frame[e].id \in IDs
      BY <2>5, FrameInHand DEF HandlerReplies
    <3>2. frame'[e] \in Frame
      BY <2>5, <3>1, CallsAssumption DEF HandlerReplies, TypeOK, Frame, Types
    <3>3. attempt'[e] = 0 /\ attempts(e) > 0 /\ pc'[e] = "begin"
      BY <1>t, <2>5, AttemptsPositive DEF HandlerReplies, TypeOK
    <3> QED
      BY <2>5, <3>2, <3>3 DEF HandlerReplies, Control
  <2>6. CASE PipeRead(e) \/ PipeCut(e) \/ PipeWrite(e)
    <3>1. pipeTo[e] \in Calls /\ resp[pipeTo[e]] # "none" /\ frame[e] \in Frame
      BY <2>6 DEF PipeRead, PipeCut, PipeWrite, Control
    <3>2. pc[pipeTo[e]] # "idle"
      BY <3>1 DEF Control
    <3> QED
      BY <1>t, <2>6, <3>1, <3>2 DEF PipeRead, PipeCut, PipeWrite, Control, TypeOK
  <2> QED
    BY <2>1, <2>2, <2>3, <2>4, <2>5, <2>6 DEF ServeStep
<1>d. \A t \in Threads : pc'[t] = "begin" => attempt'[t] < attempts(t)
  BY <1>a, <1>b, <1>c DEF Control, Threads
<1> QED
  BY <1>a, <1>b, <1>c, <1>d DEF Control

LEMMA ControlAckEnv ==
    ASSUME IInv,
           (\E e \in Ends, id \in IDs : AckStep(e, id)) \/ EnvStep
    PROVE  Control'
BY DEF IInv, Control, AckStep, AckWrite, AckDropped, EnvStep, Cancel, CloseConn,
       RemoveReceiver, OnReceive, sendVars, serveVars

-----------------------------------------------------------------------------
(* The registry of acknowledgements.                                       *)

\* What PendingAcksExact says of one entry.
Owns(t, e, id) ==
    /\ EndOf(t) = e /\ Out(t).id = id
    /\ pc[t] \in {"write", "awaitAck"}
    /\ RequireAcknowledge[e] /\ ~acked[t]

LEMMA AcksSend ==
    ASSUME IInv, NEW t \in Threads, SendStep(t)
    PROVE  PendingAcksExact'
<1> USE DEF IInv, sendVars, serveVars, envVars
<1> SUFFICES ASSUME NEW e \in Ends, NEW id \in IDs, NEW u, u = pendingAcks'[e][id], u # None
             PROVE  Owns(u, e, id)'
  BY DEF PendingAcksExact, Owns
<1>e. EndOf(t) \in Ends
  BY EndOfThread
<1>o. pc[t] \in {"begin", "write", "awaitAck"} /\ Out(t).id \in IDs
  <2>1. pc[t] \in {"begin", "write", "awaitAck"}
    BY DEF SendStep, SendRefused, BeginAttempt, AttemptCancelled, SendWrite, SendFails, SendCancelled, AckArrives,
           AckTimeout
  <2> QED
    BY <2>1, OutIsFrame DEF Frame
<1>a. /\ frame' = frame
      /\ \A v \in Threads \ {t} : pc'[v] = pc[v] /\ acked'[v] = acked[v]
  BY DEF SendStep, SendRefused, BeginAttempt, AttemptCancelled, SendWrite, SendFails, SendCancelled, AckArrives,
         AckTimeout, Retry, Fail, Succeed, TypeOK
<1>b. \A v : Out(v)' = Out(v)
  BY <1>a DEF Out
<1>c. pendingAcks[e][id] # None => Owns(pendingAcks[e][id], e, id) /\ pendingAcks[e][id] \in Threads
  BY DEF PendingAcksExact, Owns, TypeOK
<1>1. CASE SendRefused(t)
  <2>1. u = pendingAcks[e][id] /\ u # t
    BY <1>1, <1>c DEF SendRefused, Owns
  <2> QED
    BY <1>a, <1>b, <1>c, <2>1 DEF Owns
<1>2. CASE BeginAttempt(t)
  <2>1. CASE shouldAwaitAcknowledge(t) /\ e = EndOf(t) /\ id = Out(t).id
    <3>1. u = t
      BY <1>2, <1>e, <1>o, <2>1 DEF BeginAttempt, registerPendingAck, TypeOK
    <3>2. pc'[t] = "write" /\ ~acked'[t]
      BY <1>2, <2>1 DEF BeginAttempt, TypeOK
    <3> QED
      BY <1>b, <2>1, <3>1, <3>2 DEF Owns, shouldAwaitAcknowledge
  <2>2. CASE ~(shouldAwaitAcknowledge(t) /\ e = EndOf(t) /\ id = Out(t).id)
    <3>1. u = pendingAcks[e][id]
      BY <1>2, <1>e, <1>o, <2>2 DEF BeginAttempt, registerPendingAck, TypeOK
    <3>2. u # t
      BY <1>2, <1>c, <3>1 DEF BeginAttempt, Owns
    <3> QED
      BY <1>a, <1>b, <1>c, <3>1, <3>2 DEF Owns
  <2> QED
    BY <2>1, <2>2
<1>3. CASE SendWrite(t)
  <2>1. u = pendingAcks[e][id] /\ acked' = acked
    BY <1>3 DEF SendWrite
  <2>2. u = t => pc'[t] = "awaitAck"
    BY <1>3, <1>c, <2>1 DEF SendWrite, Owns, shouldAwaitAcknowledge, TypeOK
  <2> QED
    BY <1>a, <1>b, <1>c, <2>1, <2>2 DEF Owns
<1>5. CASE AttemptCancelled(t)
  <2>1. u = pendingAcks[e][id]
    <3>1. \/ pendingAcks' = pendingAcks
          \/ pendingAcks' = [pendingAcks EXCEPT ![EndOf(t)][Out(t).id] = None]
      BY <1>5 DEF AttemptCancelled
    <3>2. pendingAcks \in [Ends -> [IDs -> Threads \cup {None}]]
      BY DEF TypeOK
    <3> QED
      BY <1>e, <1>o, <3>1, <3>2
  <2>2. u # t
    BY <1>5, <1>c, <2>1 DEF AttemptCancelled, Owns
  <2> QED
    BY <1>a, <1>b, <1>c, <2>1, <2>2 DEF Owns
<1>4. ASSUME pendingAcks' = unregisterPendingAck(t)
      PROVE  Owns(u, e, id)'
  <2>1. u = pendingAcks[e][id]
    BY <1>4, <1>e, <1>o DEF unregisterPendingAck, TypeOK
  <2>2. u # t
    BY <1>4, <1>c, <1>e, <1>o, <2>1 DEF unregisterPendingAck, Owns, TypeOK
  <2> QED
    BY <1>a, <1>b, <1>c, <2>1, <2>2 DEF Owns
<1> QED
  BY <1>1, <1>2, <1>3, <1>4, <1>5 DEF SendStep, SendFails, SendCancelled, AckArrives, AckTimeout, Retry

\* Calls and Serve loops that do not touch the registry: whoever moves is
\* outside an attempt before and after.
LEMMA AcksOthers ==
    ASSUME IInv, NEW t \in Threads,
           UNCHANGED <<pendingAcks, acked>>,
           \A u \in Threads \ {t} : pc'[u] = pc[u] /\ Out(u)' = Out(u),
           pc[t] \notin {"write", "awaitAck"}
    PROVE  PendingAcksExact'
<1> SUFFICES ASSUME NEW e \in Ends, NEW id \in IDs, pendingAcks[e][id] # None
             PROVE  Owns(pendingAcks[e][id], e, id)'
  BY DEF PendingAcksExact, Owns
<1> DEFINE u == pendingAcks[e][id]
<1>1. u \in Threads /\ Owns(u, e, id)
  BY DEF IInv, PendingAcksExact, Owns, TypeOK
<1>2. u # t
  BY <1>1 DEF Owns
<1> QED
  BY <1>1, <1>2 DEF Owns

LEMMA AcksCall ==
    ASSUME IInv, NEW c \in Calls, CallStep(c)
    PROVE  PendingAcksExact'
<1> c \in Threads
  BY DEF Threads
<1>1. /\ UNCHANGED <<pendingAcks, acked, frame>>
      /\ pc[c] \notin {"write", "awaitAck"}
      /\ \A u \in Threads \ {c} : pc'[u] = pc[u]
  BY DEF CallStep, StartCall, StartSend, StartRequest, StartDuplicate, RespArrives, RespCancelled, BodyRead,
         IInv, TypeOK, sendVars, serveVars
<1>2. \A u : Out(u)' = Out(u)
  BY <1>1 DEF Out
<1> QED
  BY <1>1, <1>2, AcksOthers

LEMMA AcksServe ==
    ASSUME IInv, NEW e \in Ends, ServeStep(e)
    PROVE  PendingAcksExact'
<1> USE DEF sendVars, serveVars, envVars
<1>t. e \in Threads
  BY DEF Threads
<1>1. CASE ServeAck(e)
  <2> DEFINE f == Head(wire[e])
             w == pendingAcks[e][f.id]
  <2>1. f.id \in IDs
    BY <1>1, NextFrameType DEF ServeAck, IInv
  <2>2. UNCHANGED <<pc, frame>>
    BY <1>1 DEF ServeAck
  <2>3. \A u : Out(u)' = Out(u)
    BY <2>2 DEF Out
  <2>4. CASE w = None
    <3>1. UNCHANGED <<pendingAcks, acked>>
      BY <1>1, <2>4 DEF ServeAck
    <3> QED
      BY <2>2, <2>3, <3>1 DEF IInv, PendingAcksExact
  <2>5. CASE w # None
    <3>1. /\ acked' = [acked EXCEPT ![w] = TRUE]
          /\ pendingAcks' = [pendingAcks EXCEPT ![e][f.id] = None]
      BY <1>1, <2>5 DEF ServeAck
    <3>2. EndOf(w) = e /\ Out(w).id = f.id
      BY <2>1, <2>5 DEF IInv, PendingAcksExact
    <3> HIDE DEF w, f
    <3> SUFFICES ASSUME NEW d \in Ends, NEW id \in IDs, NEW u, u = pendingAcks'[d][id], u # None
                 PROVE  Owns(u, d, id)'
      BY DEF PendingAcksExact, Owns
    <3>3. u = pendingAcks[d][id] /\ ~(d = e /\ id = f.id)
      BY <2>1, <3>1 DEF IInv, TypeOK
    <3>4. Owns(u, d, id) /\ u \in Threads
      BY <3>3 DEF IInv, PendingAcksExact, Owns, TypeOK
    <3>5. u # w
      BY <3>2, <3>3, <3>4 DEF Owns
    <3>6. acked'[u] = acked[u]
      BY <3>1, <3>4, <3>5 DEF IInv, TypeOK
    <3> QED
      BY <2>2, <2>3, <3>4, <3>6 DEF Owns
  <2> QED
    BY <2>4, <2>5
<1>2. CASE ~ServeAck(e)
  <2>1. /\ UNCHANGED <<pendingAcks, acked>>
        /\ pc[e] \notin {"write", "awaitAck"}
        /\ \A u \in Threads \ {e} : pc'[u] = pc[u]
        /\ \A d \in Ends \ {e} : frame'[d] = frame[d]
    BY <1>2, <1>t DEF ServeStep, ServeResponse, ServeHandle, ServeIgnore, ServeRefuse, ServeReturns,
           HandlerReturns, HandlerReplies, HandlerFails, PipeRead, PipeCut, PipeWrite, NextFrame,
           IInv, TypeOK
  <2>2. \A u \in Threads \ {e} : Out(u)' = Out(u)
    BY <2>1 DEF Out
  <2> QED
    BY <1>t, <2>1, <2>2, AcksOthers
<1> QED
  BY <1>1, <1>2

LEMMA AcksAckEnv ==
    ASSUME IInv,
           (\E e \in Ends, id \in IDs : AckStep(e, id)) \/ EnvStep
    PROVE  PendingAcksExact'
<1>1. UNCHANGED <<pendingAcks, acked, pc, frame>>
  BY DEF AckStep, AckWrite, AckDropped, EnvStep, Cancel, CloseConn, RemoveReceiver, OnReceive,
         sendVars, serveVars
<1>2. \A u : Out(u)' = Out(u)
  BY <1>1 DEF Out
<1> QED
  BY <1>1, <1>2 DEF IInv, PendingAcksExact

-----------------------------------------------------------------------------
(* The registry of responses.                                              *)

\* What PendingResponsesExact says of one call at one entry.
Registered(e, id, c) ==
    pendingResponses[e][id] = c <=> CallEnd[c] = e /\ CallID[c] = id /\ Waiting(c)

\* unregisterPendingResponse removes the entry of its caller and no other.
LEMMA UnregisterRemoves ==
    ASSUME TypeOK, PendingResponsesExact, NEW c \in Calls,
           pendingResponses' = unregisterPendingResponse(c),
           NEW e \in Ends, NEW id \in IDs, NEW d \in Calls
    PROVE  pendingResponses'[e][id] = d <=> pendingResponses[e][id] = d /\ d # c
<1>1. CallEnd[c] \in Ends /\ CallID[c] \in IDs /\ None \notin Calls
  BY CallsAssumption, EndsAssumption DEF Threads
<1>2. pendingResponses[e][id] = c => e = CallEnd[c] /\ id = CallID[c]
  BY DEF PendingResponsesExact
<1> QED
  BY <1>1, <1>2 DEF unregisterPendingResponse, TypeOK

\* A call that returns with an error stops waiting.
LEMMA ResponsesFail ==
    ASSUME IInv, NEW c \in Calls,
           pendingResponses' = unregisterPendingResponse(c),
           resp' = resp,
           \A d \in Calls \ {c} : pc'[d] = pc[d],
           pc'[c] \in {"err", "readBody"}
    PROVE  PendingResponsesExact'
<1> SUFFICES ASSUME NEW e \in Ends, NEW id \in IDs, NEW d \in Calls
             PROVE  Registered(e, id, d)'
  BY DEF PendingResponsesExact, Registered
<1>1. pendingResponses'[e][id] = d <=> pendingResponses[e][id] = d /\ d # c
  BY UnregisterRemoves DEF IInv
<1>2. ~Waiting(c)'
  BY DEF Waiting
<1>3. d # c => (Waiting(d)' <=> Waiting(d))
  BY DEF Waiting
<1>4. Registered(e, id, d)
  BY DEF IInv, PendingResponsesExact, Registered
<1> QED
  BY <1>1, <1>2, <1>3, <1>4 DEF Registered

\* Steps that leave the registry and every call's waiting alone.
LEMMA ResponsesOthers ==
    ASSUME IInv, UNCHANGED pendingResponses,
           \A c \in Calls : Waiting(c)' <=> Waiting(c)
    PROVE  PendingResponsesExact'
BY DEF IInv, PendingResponsesExact

LEMMA ResponsesSend ==
    ASSUME IInv, NEW t \in Threads, SendStep(t)
    PROVE  PendingResponsesExact'
<1> USE DEF sendVars, serveVars, envVars
<1>h. Ends \cap Calls = {} /\ t \in Ends \cup Calls
  BY EndsAssumption DEF Threads
<1>a. resp' = resp /\ \A u \in Threads \ {t} : pc'[u] = pc[u]
  BY DEF SendStep, SendRefused, BeginAttempt, AttemptCancelled, SendWrite, SendFails, SendCancelled, AckArrives,
         AckTimeout, Retry, Fail, Succeed, IInv, TypeOK
<1>b. pc[t] \in {"begin", "write", "awaitAck"}
  BY DEF SendStep, SendRefused, BeginAttempt, AttemptCancelled, SendWrite, SendFails, SendCancelled, AckArrives,
         AckTimeout
<1>1. CASE t \in Ends
  <2>1. UNCHANGED pendingResponses
    BY <1>1, <1>h DEF SendStep, SendRefused, BeginAttempt, AttemptCancelled, SendWrite, SendFails, SendCancelled,
           AckArrives, AckTimeout, Retry, Fail, unregisterPendingResponse
  <2>2. \A c \in Calls : Waiting(c)' <=> Waiting(c)
    BY <1>1, <1>a, <1>h DEF Waiting, Threads
  <2> QED
    BY <2>1, <2>2, ResponsesOthers
<1>2. CASE t \in Calls /\ pendingResponses' = unregisterPendingResponse(t) /\ pc'[t] = "err"
  BY <1>2, <1>a, ResponsesFail DEF Threads
<1>3. CASE t \in Calls /\ UNCHANGED pendingResponses /\ pc'[t] \in {"begin", "write", "awaitAck", AfterSend(t)}
  <2>1. Waiting(t)' <=> Waiting(t)
    BY <1>3, <1>a, <1>b, <1>h DEF Waiting, AfterSend
  <2>2. \A c \in Calls : Waiting(c)' <=> Waiting(c)
    BY <2>1, <1>a DEF Waiting, Threads
  <2> QED
    BY <1>3, <2>2, ResponsesOthers
<1>4. t \in Calls => \/ pendingResponses' = unregisterPendingResponse(t) /\ pc'[t] = "err"
                     \/ UNCHANGED pendingResponses /\ pc'[t] \in {"begin", "write", "awaitAck", AfterSend(t)}
  BY <1>h DEF SendStep, SendRefused, BeginAttempt, AttemptCancelled, SendWrite, SendFails, SendCancelled, AckArrives,
         AckTimeout, Retry, Fail, Succeed, AfterError, IInv, TypeOK
<1> QED
  BY <1>1, <1>2, <1>3, <1>4, <1>h

LEMMA ResponsesCall ==
    ASSUME IInv, NEW c \in Calls, CallStep(c)
    PROVE  PendingResponsesExact'
<1> USE DEF sendVars, serveVars, envVars
<1>t. c \in Threads
  BY DEF Threads
<1>a. resp' = resp /\ \A d \in Calls \ {c} : pc'[d] = pc[d]
  BY <1>t DEF CallStep, StartCall, StartSend, StartRequest, StartDuplicate, RespArrives, RespCancelled, BodyRead, IInv, TypeOK,
         Threads
<1>1. CASE StartCall(c)
  <2>0. CallEnd[c] \in Ends /\ CallID[c] \in IDs /\ None \notin Calls
    BY CallsAssumption, EndsAssumption DEF Threads
  <2>1. pc'[c] = "begin" /\ resp[c] = "none"
    BY <1>1, <1>t DEF StartCall, StartSend, StartRequest, IInv, Control, TypeOK
  <2>2. CASE CallType[c] = "req"
    <3> SUFFICES ASSUME NEW e \in Ends, NEW id \in IDs, NEW d \in Calls
                 PROVE  Registered(e, id, d)'
      BY DEF PendingResponsesExact, Registered
    <3>1. Registered(e, id, d)
      BY DEF IInv, PendingResponsesExact, Registered
    <3>2. /\ pendingResponses[CallEnd[c]][CallID[c]] = None
          /\ pendingResponses' = [pendingResponses EXCEPT ![CallEnd[c]][CallID[c]] = c]
      BY <1>1, <2>2 DEF StartCall, StartSend, StartRequest, DuplicateID, registerPendingResponse
    <3>3. Waiting(c)' /\ ~Waiting(c)
      BY <1>1, <1>a, <2>1, <2>2 DEF Waiting, StartCall, StartSend, StartRequest
    <3>4. CASE e = CallEnd[c] /\ id = CallID[c]
      <4>1. pendingResponses'[e][id] = c
        BY <2>0, <3>2, <3>4 DEF IInv, TypeOK
      <4>2. d # c => ~(CallEnd[d] = e /\ CallID[d] = id /\ Waiting(d))
        BY <2>0, <3>1, <3>2, <3>4 DEF Registered
      <4>3. d # c => (Waiting(d)' <=> Waiting(d))
        BY <1>a DEF Waiting
      <4> QED
        BY <3>3, <3>4, <4>1, <4>2, <4>3 DEF Registered
    <3>5. CASE ~(e = CallEnd[c] /\ id = CallID[c])
      <4>1. pendingResponses'[e][id] = pendingResponses[e][id]
        BY <2>0, <3>2, <3>5 DEF IInv, TypeOK
      <4>2. d # c => (Waiting(d)' <=> Waiting(d))
        BY <1>a DEF Waiting
      <4> QED
        BY <3>1, <3>3, <3>5, <4>1, <4>2 DEF Registered
    <3> QED
      BY <3>4, <3>5
  <2>3. CASE CallType[c] # "req"
    <3>1. UNCHANGED pendingResponses
      BY <1>1, <2>3 DEF StartCall, StartSend, StartRequest
    <3>2. \A d \in Calls : Waiting(d)' <=> Waiting(d)
      BY <1>a, <2>3 DEF Waiting
    <3> QED
      BY <3>1, <3>2, ResponsesOthers
  <2> QED
    BY <2>2, <2>3
<1>2. CASE StartDuplicate(c) \/ BodyRead(c)
  <2>1. UNCHANGED pendingResponses /\ pc[c] \in {"idle", "readBody"} /\ pc'[c] \in {"ok", "err"}
    BY <1>2, <1>t DEF StartDuplicate, BodyRead, IInv, TypeOK
  <2>2. \A d \in Calls : Waiting(d)' <=> Waiting(d)
    BY <1>a, <2>1 DEF Waiting
  <2> QED
    BY <2>1, <2>2, ResponsesOthers
<1>3. CASE RespArrives(c) \/ RespCancelled(c)
  <2>1. pendingResponses' = unregisterPendingResponse(c) /\ pc'[c] \in {"err", "readBody"}
    BY <1>3, <1>t DEF RespArrives, RespCancelled, IInv, TypeOK
  <2> QED
    BY <1>a, <2>1, ResponsesFail
<1> QED
  BY <1>1, <1>2, <1>3 DEF CallStep

LEMMA ResponsesServe ==
    ASSUME IInv, NEW e \in Ends, ServeStep(e)
    PROVE  PendingResponsesExact'
<1> USE DEF sendVars, serveVars, envVars
<1>t. e \in Threads /\ e \notin Calls
  BY EndsAssumption DEF Threads
<1>a. \A c \in Calls : pc'[c] = pc[c]
  BY <1>t DEF ServeStep, ServeResponse, ServeAck, ServeHandle, ServeIgnore, ServeRefuse, ServeReturns,
         HandlerReturns, HandlerReplies, HandlerFails, PipeRead, PipeCut, PipeWrite, IInv, TypeOK, Threads
<1>1. CASE ServeResponse(e)
  <2>1. PICK i \in IDs : i = Head(wire[e]).id
    BY <1>1, NextFrameType DEF ServeResponse, IInv
  <2>2. PICK w \in Calls : w = pendingResponses[e][i]
    BY <1>1, <2>1 DEF ServeResponse, PendingMatches, IInv, TypeOK
  <2>3. /\ resp' = [resp EXCEPT ![w] = "open"]
        /\ pendingResponses' = [pendingResponses EXCEPT ![e][i] = None]
    BY <1>1, <2>1, <2>2 DEF ServeResponse
  <2>4. None \notin Calls
    BY EndsAssumption DEF Threads
  <2> SUFFICES ASSUME NEW d \in Ends, NEW id \in IDs, NEW c \in Calls
               PROVE  Registered(d, id, c)'
    BY DEF PendingResponsesExact, Registered
  <2>5. Registered(d, id, c) /\ Registered(e, i, w)
    BY <2>1, <2>2 DEF IInv, PendingResponsesExact, Registered
  <2>6. pendingResponses'[d][id] = IF d = e /\ id = i THEN None ELSE pendingResponses[d][id]
    BY <2>1, <2>3 DEF IInv, TypeOK
  <2>7. ~Waiting(w)' /\ \A x \in Calls \ {w} : Waiting(x)' <=> Waiting(x)
    BY <1>a, <2>2, <2>3 DEF Waiting, IInv, TypeOK
  <2> QED
    BY <2>2, <2>4, <2>5, <2>6, <2>7 DEF Registered
<1>2. CASE PipeRead(e) \/ PipeCut(e) \/ PipeWrite(e)
  <2>1. UNCHANGED pendingResponses
    BY <1>2 DEF PipeRead, PipeCut, PipeWrite
  <2>2. pipeTo[e] \in Calls /\ resp[pipeTo[e]] # "none"
    BY <1>2 DEF PipeRead, PipeCut, PipeWrite, IInv, Control
  <2>3. resp' = resp \/ \E v \in {"full", "cut"} : resp' = [resp EXCEPT ![pipeTo[e]] = v]
    BY <1>2 DEF PipeRead, PipeCut, PipeWrite
  <2>4. \A c \in Calls : resp'[c] = "none" <=> resp[c] = "none"
    BY <2>2, <2>3 DEF IInv, TypeOK
  <2> QED
    BY <1>a, <2>1, <2>4, ResponsesOthers DEF Waiting
<1>3. CASE ~(ServeResponse(e) \/ PipeRead(e) \/ PipeCut(e) \/ PipeWrite(e))
  <2>1. UNCHANGED <<pendingResponses, resp>>
    BY <1>3 DEF ServeStep, ServeAck, ServeHandle, ServeIgnore, ServeRefuse, ServeReturns,
         HandlerReturns, HandlerReplies, HandlerFails
  <2> QED
    BY <1>a, <2>1, ResponsesOthers DEF Waiting
<1> QED
  BY <1>1, <1>2, <1>3

LEMMA ResponsesAckEnv ==
    ASSUME IInv,
           (\E e \in Ends, id \in IDs : AckStep(e, id)) \/ EnvStep
    PROVE  PendingResponsesExact'
<1>1. UNCHANGED <<pendingResponses, resp, pc>>
  BY DEF AckStep, AckWrite, AckDropped, EnvStep, Cancel, CloseConn, RemoveReceiver, OnReceive
<1> QED
  BY <1>1, ResponsesOthers DEF Waiting

-----------------------------------------------------------------------------
(* The theorems.                                                           *)

LEMMA InitIInv == Init => IInv
<1> SUFFICES ASSUME Init PROVE IInv
  OBVIOUS
<1> USE DEF Init
<1>1. TypeOK
  <2>1. /\ pc \in [Threads -> CallPCs \cup ServePCs]
        /\ \A e \in Ends : pc[e] \in ServePCs
        /\ \A c \in Calls : pc[c] \in CallPCs
    BY EndsAssumption DEF Threads, CallPCs, ServePCs
  <2>2. \A t \in Threads : attempt[t] <= attempts(t)
    BY AttemptsPositive
  <2>3. wire \in [Ends -> Seq(Frame)]
    OBVIOUS
  <2> QED
    BY <2>1, <2>2, <2>3 DEF TypeOK
<1>2. Control
  BY EndsAssumption DEF Control, Threads
<1>3. PendingAcksExact
  BY DEF PendingAcksExact
<1>4. PendingResponsesExact
  BY EndsAssumption DEF PendingResponsesExact, Waiting, Threads
<1> QED
  BY <1>1, <1>2, <1>3, <1>4 DEF IInv

LEMMA NextIInv == IInv /\ [Next]_vars => IInv'
<1> SUFFICES ASSUME IInv, [Next]_vars PROVE IInv'
  OBVIOUS
<1>1. ASSUME NEW t \in Threads, SendStep(t) PROVE IInv'
  BY <1>1, TypeOKSend, ControlSend, AcksSend, ResponsesSend DEF IInv
<1>2. ASSUME NEW c \in Calls, CallStep(c) PROVE IInv'
  BY <1>2, TypeOKCall, ControlCall, AcksCall, ResponsesCall DEF IInv
<1>3. ASSUME NEW e \in Ends, ServeStep(e) PROVE IInv'
  BY <1>3, TypeOKServe, ControlServe, AcksServe, ResponsesServe DEF IInv
<1>4. CASE (\E e \in Ends, id \in IDs : AckStep(e, id)) \/ EnvStep
  BY <1>4, TypeOKAckEnv, ControlAckEnv, AcksAckEnv, ResponsesAckEnv DEF IInv
<1>5. CASE UNCHANGED vars
  BY <1>5 DEF vars, IInv, TypeOK, Control, PendingAcksExact, PendingResponsesExact, Waiting, Out
<1> QED
  BY <1>1, <1>2, <1>3, <1>4, <1>5 DEF Next

\* Every reachable state of two Messengers satisfies the inductive invariant.
THEOREM Invariance == Spec => []IInv
<1>1. Init => IInv
  BY InitIInv
<1>2. IInv /\ [Next]_vars => IInv'
  BY NextIInv
<1> QED
  BY <1>1, <1>2, PTL DEF Spec

\* Type correctness, with the bound on the attempts of SendStreamWithID, for any
\* number of calls, IDs, retries and buffered frames.
THEOREM TypeCorrectness == Spec => []TypeOK
<1>1. IInv => TypeOK
  BY DEF IInv
<1> QED
  BY <1>1, Invariance, PTL

\* pendingAcks never holds a stale or an already closed channel, however the
\* acknowledgements, timeouts, retries and cancellations interleave and even if
\* callers reuse message IDs: resolveAck never closes a channel twice.
THEOREM PendingAcksCorrect == Spec => []PendingAcksExact
<1>1. IInv => PendingAcksExact
  BY DEF IInv
<1> QED
  BY <1>1, Invariance, PTL

\* pendingResponses holds exactly the requests that wait: request unregisters on
\* every path, a response is delivered once, and no waiting request loses its
\* entry to another one.
THEOREM PendingResponsesCorrect == Spec => []PendingResponsesExact
<1>1. IInv => PendingResponsesExact
  BY DEF IInv
<1> QED
  BY <1>1, Invariance, PTL
=============================================================================
