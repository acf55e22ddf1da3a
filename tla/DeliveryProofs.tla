---------------------------- MODULE DeliveryProofs ----------------------------
(***************************************************************************)
(* Proofs about what two Messengers deliver, for any calls, IDs, retries,  *)
(* failures and frames on the wire: a response or an acknowledgement is    *)
(* evidence that the peer's callback ran, no callback runs beyond the      *)
(* retry budget, and so Messenger implements Channel.                      *)
(***************************************************************************)
EXTENDS MessengerProofs, FiniteSetTheorems

\* The frames that travel towards e.
Frames(e) == {wire[e][j] : j \in 1..Len(wire[e])}

\* The Serve loop of e sends the response of its R callback.
Replying(e) == pc[e] \in {"begin", "write", "awaitAck"}

PeerOf(c) == Peer[CallEnd[c]]
Ran(c)    == runs[PeerOf(c)][CallID[c]] > 0

\* A response is sent, travels and is handed over only when a callback of its end has
\* run for its ID, ...
Answered ==
    /\ \A e \in Ends : Replying(e) => frame[e].type = "resp" /\ runs[e][frame[e].id] > 0
    /\ \A e \in Ends, f \in Frame :
        f \in Frames(e) /\ f.type = "resp" => runs[Peer[e]][f.id] > 0
    /\ \A c \in Calls : resp[c] # "none" => Ran(c)

\* ... and a call that has gone past the select of request has been handed one.
Selected ==
    \A c \in Calls :
        /\ pc[c] \in {"awaitResp", "readBody"} => CallType[c] = "req"
        /\ CallType[c] = "req" /\ pc[c] \in {"readBody", "ok"} => resp[c] # "none"

\* Under the ID of a call that nobody else uses, nothing but its message and
\* acknowledgements travel to the peer, and nothing but responses and
\* acknowledgements come back; the two Serve loops take them for what they are.
Origin ==
    \A c \in Own :
        LET e == CallEnd[c]  p == PeerOf(c)  id == CallID[c] IN
        /\ \A f \in Frame : f \in Frames(p) /\ f.id = id => f.type \in {CallType[c], "ack"}
        /\ \A f \in Frame : f \in Frames(e) /\ f.id = id => f.type \in {"resp", "ack"}
        /\ pc[p] = "handler" /\ frame[p].id = id => frame[p].type = CallType[c]
        /\ pc[p] \in {"pipe", "pipeWrite"} => frame[p].id # id
        /\ pc[e] = "handler" /\ frame[e].id = id => frame[e].type = "resp"
        /\ Replying(e) => frame[e].id # id

\* Receivers that nobody removes stay.
Listening == \A e \in Ends \ Removable, y \in Wrapped : receiver[e][y]

\* A message of an M whose receiver stays is acknowledged only after its callback.
Vouched(c) ==
    \/ ackOut[PeerOf(c)][CallID[c]] > 0
    \/ \E f \in Frame : f \in Frames(CallEnd[c]) /\ f.id = CallID[c] /\ f.type = "ack"
    \/ acked[c]
    \/ pc[c] = "ok" /\ RequireAcknowledge[CallEnd[c]]
Acknowledged ==
    \A c \in Own : CallType[c] = "evt" /\ PeerOf(c) \notin Removable /\ Vouched(c) => Ran(c)

\* The places on the wire of the copies of the message of c.
Copies(c) ==
    {j \in 1..Len(wire[PeerOf(c)]) :
        wire[PeerOf(c)][j].id = CallID[c] /\ wire[PeerOf(c)][j].type # "ack"}

One(b) == IF b THEN 1 ELSE 0

\* Every attempt yields at most one copy, which is about to be written, on the wire, in
\* the hands of the callback, or handled.
Counted ==
    \A c \in Own :
        Cardinality(Copies(c)) + One(pc[c] = "write")
            + One(pc[PeerOf(c)] = "handler" /\ frame[PeerOf(c)].id = CallID[c])
            + runs[PeerOf(c)][CallID[c]] <= attempt[c]

\* The inductive invariant, on top of the one for the registries.
DInv == IInv /\ Answered /\ Selected /\ Origin /\ Listening /\ Acknowledged /\ Counted
-----------------------------------------------------------------------------
(* The wire.                                                               *)

\* Put appends one frame to what travels to the peer.
LEMMA FramesPut ==
    ASSUME TypeOK, NEW e \in Ends, NEW g \in Frame, wire' = Put(e, g)
    PROVE  /\ \A x \in Ends : x # Peer[e] => wire'[x] = wire[x]
           /\ Len(wire[Peer[e]]) \in Nat
           /\ Len(wire'[Peer[e]]) = Len(wire[Peer[e]]) + 1
           /\ \A j \in 1..Len(wire[Peer[e]]) : wire'[Peer[e]][j] = wire[Peer[e]][j]
           /\ wire'[Peer[e]][Len(wire[Peer[e]]) + 1] = g
           /\ \A x \in Ends : \A f : f \in Frames(x)' => f \in Frames(x) \/ (x = Peer[e] /\ f = g)
<1>1. PICK p \in Ends : p = Peer[e]
  BY EndsAssumption
<1>2. wire[p] \in Seq(Frame) /\ wire'[p] = Append(wire[p], g)
      /\ \A x \in Ends : x # p => wire'[x] = wire[x]
  BY <1>1 DEF TypeOK, Put
<1>3. /\ Len(wire[p]) \in Nat /\ Len(wire'[p]) = Len(wire[p]) + 1
      /\ \A j \in 1..Len(wire[p]) : wire'[p][j] = wire[p][j]
      /\ wire'[p][Len(wire[p]) + 1] = g
  BY <1>2
<1>4. ASSUME NEW x \in Ends, NEW f, f \in Frames(x)'
      PROVE  f \in Frames(x) \/ (x = p /\ f = g)
  <2>1. PICK j \in 1..Len(wire'[x]) : f = wire'[x][j]
    BY <1>4 DEF Frames
  <2>2. CASE x = p
    BY <1>3, <2>1, <2>2 DEF Frames
  <2>3. CASE x # p
    BY <1>2, <2>1, <2>3 DEF Frames
  <2> QED
    BY <2>2, <2>3
<1> QED
  BY <1>1, <1>2, <1>3, <1>4

\* A Serve loop that reads takes the first frame that travels towards it.
LEMMA FramesTake ==
    ASSUME TypeOK, NEW e \in Ends, NextFrame(e)
    PROVE  /\ \A x \in Ends : x # e => wire'[x] = wire[x]
           /\ Len(wire[e]) \in Nat \ {0} /\ Len(wire'[e]) = Len(wire[e]) - 1
           /\ \A j \in 1..Len(wire'[e]) : wire'[e][j] = wire[e][j + 1]
           /\ \A x \in Ends : \A f : f \in Frames(x)' => f \in Frames(x)
           /\ Head(wire[e]) = wire[e][1] /\ Head(wire[e]) \in Frames(e)
           /\ Head(wire[e]) \in Frame
<1>1. wire[e] \in Seq(Frame) /\ wire[e] # <<>> /\ wire'[e] = Tail(wire[e])
      /\ \A x \in Ends : x # e => wire'[x] = wire[x]
  BY DEF TypeOK, NextFrame
<1>2. /\ Len(wire[e]) \in Nat \ {0} /\ Len(wire'[e]) = Len(wire[e]) - 1
      /\ \A j \in 1..Len(wire'[e]) : wire'[e][j] = wire[e][j + 1]
      /\ Head(wire[e]) = wire[e][1] /\ Head(wire[e]) \in Frame
  BY <1>1
<1>3. Head(wire[e]) \in Frames(e)
  BY <1>2 DEF Frames
<1>4. ASSUME NEW x \in Ends, NEW f, f \in Frames(x)'
      PROVE  f \in Frames(x)
  <2>1. PICK j \in 1..Len(wire'[x]) : f = wire'[x][j]
    BY <1>4 DEF Frames
  <2>2. CASE x = e
    <3>1. j + 1 \in 1..Len(wire[x]) /\ f = wire[x][j + 1]
      BY <1>2, <2>1, <2>2
    <3> QED
      BY <3>1 DEF Frames
  <2>3. CASE x # e
    BY <1>1, <2>1, <2>3 DEF Frames
  <2> QED
    BY <2>2, <2>3
<1> QED
  BY <1>1, <1>2, <1>3, <1>4

\* Everything on the wire is a frame.
LEMMA FramesAreFrames ==
    ASSUME TypeOK
    PROVE  \A e \in Ends : \A f : f \in Frames(e) => f \in Frame
BY DEF TypeOK, Frames

\* A wire that does not change carries the same frames.
LEMMA FramesSame ==
    ASSUME UNCHANGED wire
    PROVE  \A x, f : f \in Frames(x)' <=> f \in Frames(x)
BY DEF Frames

\* An end is the peer of its peer.
LEMMA PeerOfPeer ==
    /\ \A e \in Ends : Peer[e] \in Ends /\ Peer[Peer[e]] = e /\ Peer[e] # e
    /\ \A c \in Calls : CallEnd[c] \in Ends /\ PeerOf(c) \in Ends /\ Peer[PeerOf(c)] = CallEnd[c]
                        /\ CallID[c] \in IDs /\ PeerOf(c) # CallEnd[c]
BY EndsAssumption, CallsAssumption DEF PeerOf

\* The copies of a message can be counted.
LEMMA CopiesFinite ==
    ASSUME TypeOK, NEW c \in Calls
    PROVE  IsFiniteSet(Copies(c)) /\ Cardinality(Copies(c)) \in Nat
<1>1. Len(wire[PeerOf(c)]) \in Nat
  BY PeerOfPeer DEF TypeOK
<1>2. IsFiniteSet(1..Len(wire[PeerOf(c)]))
  BY <1>1, FS_Interval
<1>3. Copies(c) \in SUBSET (1..Len(wire[PeerOf(c)]))
  BY DEF Copies
<1>4. IsFiniteSet(Copies(c))
  BY <1>2, <1>3, FS_Subset
<1> QED
  BY <1>4, FS_CardinalityType

\* A write adds at most one copy, of the message it carries.
LEMMA CopiesPut ==
    ASSUME TypeOK, NEW e \in Ends, NEW g \in Frame, wire' = Put(e, g), NEW c \in Calls
    PROVE  IF e = CallEnd[c] /\ g.id = CallID[c] /\ g.type # "ack"
           THEN Cardinality(Copies(c)') = Cardinality(Copies(c)) + 1
           ELSE Copies(c)' = Copies(c)
<1>1. PICK p \in Ends : p = PeerOf(c)
  BY PeerOfPeer
<1>2. p = Peer[e] <=> e = CallEnd[c]
  BY <1>1, PeerOfPeer DEF PeerOf
<1>3. CASE e # CallEnd[c]
  <2>1. wire'[p] = wire[p]
    BY <1>2, <1>3, FramesPut
  <2> QED
    BY <1>1, <1>3, <2>1 DEF Copies
<1>4. CASE e = CallEnd[c]
  <2>1. PICK n \in Nat : n = Len(wire[p])
    BY <1>2, <1>4, FramesPut
  <2>2. Len(wire'[p]) = n + 1 /\ wire'[p][n + 1] = g
        /\ \A j \in 1..n : wire'[p][j] = wire[p][j]
    BY <1>2, <1>4, <2>1, FramesPut
  <2>3. /\ Copies(c) = {j \in 1..n : wire[p][j].id = CallID[c] /\ wire[p][j].type # "ack"}
        /\ Copies(c)' = {j \in 1..(n + 1) : wire'[p][j].id = CallID[c] /\ wire'[p][j].type # "ack"}
    BY <1>1, <2>1, <2>2 DEF Copies
  <2>4. CASE g.id = CallID[c] /\ g.type # "ack"
    <3>1. Copies(c)' = Copies(c) \cup {n + 1} /\ n + 1 \notin Copies(c)
      BY <2>2, <2>3, <2>4
    <3> QED
      BY <1>4, <2>4, <3>1, CopiesFinite, FS_AddElement
  <2>5. CASE ~(g.id = CallID[c] /\ g.type # "ack")
    BY <2>2, <2>3, <2>5
  <2> QED
    BY <1>4, <2>4, <2>5
<1> QED
  BY <1>3, <1>4

\* Reading a frame adds no copy, and takes one away if it was one.
LEMMA CopiesTake ==
    ASSUME TypeOK, NEW e \in Ends, NextFrame(e), NEW c \in Calls
    PROVE  /\ Cardinality(Copies(c)') <= Cardinality(Copies(c))
           /\ Cardinality(Copies(c)') \in Nat
           /\ e = PeerOf(c) /\ Head(wire[e]).id = CallID[c] /\ Head(wire[e]).type # "ack"
                 => Cardinality(Copies(c)') + 1 <= Cardinality(Copies(c))
<1>1. CASE e # PeerOf(c)
  <2>1. Copies(c)' = Copies(c)
    BY <1>1, FramesTake, PeerOfPeer DEF Copies
  <2> QED
    BY <1>1, <2>1, CopiesFinite
<1>2. CASE e = PeerOf(c)
  <2>1. PICK S : S = Copies(c) \ {1}
    OBVIOUS
  <2>2. IsFiniteSet(Copies(c)) /\ Cardinality(Copies(c)) \in Nat
    BY CopiesFinite
  <2>3. IsFiniteSet(S)
        /\ Cardinality(S) = IF 1 \in Copies(c) THEN Cardinality(Copies(c)) - 1
                            ELSE Cardinality(Copies(c))
    BY <2>1, <2>2, FS_RemoveElement
  <2>4. PICK T : T = Copies(c)'
    OBVIOUS
  <2> DEFINE shift == [j \in T |-> j + 1]
  <2>5. T \subseteq Nat /\ \A j \in T : j + 1 \in S
    BY <1>2, <2>1, <2>4, FramesTake DEF Copies
  <2>6. shift \in Injection(T, S)
    BY <2>5 DEF Injection, IsInjective
  <2> HIDE DEF shift
  <2>7. IsFiniteSet(T) /\ Cardinality(T) <= Cardinality(S)
    BY <2>3, <2>6, FS_Injection
  <2>8. Cardinality(T) \in Nat
    BY <2>7, FS_CardinalityType
  <2>9. Head(wire[e]).id = CallID[c] /\ Head(wire[e]).type # "ack" => 1 \in Copies(c)
    BY <1>2, FramesTake DEF Copies
  <2> QED
    BY <2>2, <2>3, <2>4, <2>7, <2>8, <2>9
<1> QED
  BY <1>1, <1>2
-----------------------------------------------------------------------------
(* Steps of the send loop.                                                 *)

\* What a step of SendStreamWithID does to what DInv is about.
LEMMA SendEffects ==
    ASSUME IInv, NEW t \in Threads, SendStep(t)
    PROVE  /\ UNCHANGED <<resp, runs, frame, receiver>>
           /\ pc[t] \in {"begin", "write", "awaitAck"}
           /\ \A u \in Threads : u # t =>
                 pc'[u] = pc[u] /\ acked'[u] = acked[u] /\ attempt'[u] = attempt[u]
           /\ pc'[t] \in {"begin", "write", "awaitAck", AfterSend(t), AfterError(t)}
           /\ acked'[t] => acked[t]
           /\ t \in Calls => ackOut' = ackOut
           /\ ackOut' = ackOut \/ ackOut' = sendAcknowledge(t, frame[t].id)
           /\ t \in Calls /\ pc'[t] = "ok" /\ RequireAcknowledge[CallEnd[t]] => acked[t]
<1> USE DEF sendVars, serveVars, envVars
<1>0. t \in Calls => t \notin Ends
  BY EndsAssumption
<1>t. pc \in [Threads -> CallPCs \cup ServePCs] /\ acked \in [Threads -> BOOLEAN]
      /\ attempt \in [Threads -> Nat]
  BY DEF IInv, TypeOK
<1>1. CASE SendRefused(t)
  BY <1>0, <1>1, <1>t DEF SendRefused, Fail, AfterError
<1>2. CASE BeginAttempt(t)
  BY <1>0, <1>2, <1>t DEF BeginAttempt
<1>3. CASE SendWrite(t)
  BY <1>0, <1>3, <1>t DEF SendWrite, Succeed, shouldAwaitAcknowledge, EndOf
<1>4. CASE SendFails(t) \/ SendCancelled(t) \/ AckTimeout(t)
  BY <1>0, <1>4, <1>t DEF SendFails, SendCancelled, AckTimeout, Retry, Fail, AfterError
<1>5. CASE AckArrives(t)
  BY <1>0, <1>5, <1>t DEF AckArrives, Succeed
<1>6. CASE AttemptCancelled(t)
  BY <1>0, <1>6, <1>t DEF AttemptCancelled, Fail, AfterError
<1> QED
  BY <1>1, <1>2, <1>3, <1>4, <1>5, <1>6 DEF SendStep

\* Only its write puts a frame on the wire, one per attempt.
LEMMA SendWrites ==
    ASSUME IInv, NEW t \in Threads, SendStep(t)
    PROVE  /\ attempt'[t] \in Nat
           /\ \/ /\ UNCHANGED wire
                 /\ One(pc'[t] = "write") + attempt[t] <= One(pc[t] = "write") + attempt'[t]
              \/ /\ wire' = Put(EndOf(t), Out(t)) /\ Out(t) \in Frame /\ EndOf(t) \in Ends
                 /\ pc[t] = "write" /\ pc'[t] # "write" /\ attempt'[t] = attempt[t]
<1> USE DEF sendVars, serveVars, envVars
<1>t. pc \in [Threads -> CallPCs \cup ServePCs] /\ attempt \in [Threads -> Nat]
  BY DEF IInv, TypeOK
<1>1. CASE SendRefused(t)
  BY <1>1, <1>t DEF SendRefused, Fail, AfterError, One
<1>2. CASE BeginAttempt(t)
  BY <1>2, <1>t DEF BeginAttempt, One
<1>3. CASE SendWrite(t)
  <2>1. Out(t) \in Frame /\ EndOf(t) \in Ends
    BY <1>3, OutIsFrame, EndOfThread DEF SendWrite, IInv
  <2>2. pc'[t] # "write" /\ pc[t] = "write" /\ attempt' = attempt /\ wire' = Put(EndOf(t), Out(t))
    BY <1>3, <1>t DEF SendWrite, Succeed, AfterSend
  <2> QED
    BY <1>t, <2>1, <2>2
<1>4. CASE SendFails(t) \/ SendCancelled(t) \/ AckTimeout(t)
  BY <1>4, <1>t DEF SendFails, SendCancelled, AckTimeout, Retry, Fail, AfterError, One
<1>5. CASE AckArrives(t)
  BY <1>5, <1>t DEF AckArrives, Succeed, AfterSend, One
<1>6. CASE AttemptCancelled(t)
  BY <1>6, <1>t DEF AttemptCancelled, Fail, AfterError, One
<1> QED
  BY <1>1, <1>2, <1>3, <1>4, <1>5, <1>6 DEF SendStep

\* The frame a thread may write: a response whose callback ran, or a call's message.
LEMMA FrameSent ==
    ASSUME DInv, NEW t \in Threads, SendStep(t), NEW x \in Ends, NEW f, f \in Frames(x)',
           f \notin Frames(x)
    PROVE  /\ f \in Frame
           /\ \/ /\ t \in Ends /\ x = Peer[t] /\ f = frame[t] /\ f.type = "resp"
                 /\ runs[t][f.id] > 0 /\ Replying(t)
              \/ /\ t \in Calls /\ x = PeerOf(t) /\ f.id = CallID[t] /\ f.type = CallType[t]
<1> IInv /\ Answered /\ TypeOK
  BY DEF DInv, IInv
<1>1. wire' = Put(EndOf(t), Out(t)) /\ Out(t) \in Frame /\ EndOf(t) \in Ends /\ pc[t] = "write"
  BY SendWrites, FramesSame
<1>2. x = Peer[EndOf(t)] /\ f = Out(t)
  BY <1>1, FramesPut
<1>3. CASE t \in Ends
  BY <1>1, <1>2, <1>3 DEF Answered, Out, EndOf, Replying
<1>4. CASE t \in Calls
  BY <1>1, <1>2, <1>4, EndsAssumption DEF Out, EndOf, PeerOf
<1> QED
  BY <1>3, <1>4 DEF Threads

\* A send puts nothing under an ID that does not belong there, and no response before
\* its callback.
LEMMA SendKeeps ==
    ASSUME DInv, NEW t \in Threads, SendStep(t)
    PROVE  Answered' /\ Selected' /\ Origin' /\ Listening'
<1>0. IInv /\ Answered /\ Selected /\ Origin /\ Listening /\ TypeOK
  BY DEF DInv, IInv
<1>h. Ends \cap Calls = {} /\ (t \in Ends \/ t \in Calls) /\ Ends \subseteq Threads /\ Calls \subseteq Threads
  BY EndsAssumption DEF Threads
<1>1. \A e \in Ends : /\ pc'[e] = "handler" => pc[e] = "handler"
                      /\ pc'[e] \in {"pipe", "pipeWrite"} => pc[e] \in {"pipe", "pipeWrite"}
                      /\ Replying(e)' => Replying(e)
  BY <1>0, <1>h, SendEffects DEF Replying, AfterSend, AfterError
<1>2. UNCHANGED <<resp, runs, frame, receiver>>
  BY <1>0, SendEffects
<1>3. Answered'
  <2>1. \A e \in Ends : Replying(e)' => frame'[e].type = "resp" /\ runs'[e][frame'[e].id] > 0
    BY <1>0, <1>1, <1>2 DEF Answered
  <2>2. ASSUME NEW e \in Ends, NEW f \in Frame, f \in Frames(e)', f.type = "resp"
        PROVE  runs'[Peer[e]][f.id] > 0
    <3>1. CASE f \in Frames(e)
      BY <1>0, <1>2, <2>2, <3>1 DEF Answered
    <3>2. CASE f \notin Frames(e)
      <4>1. t \in Ends /\ e = Peer[t] /\ runs[t][f.id] > 0
        BY <2>2, <3>2, FrameSent, CallsAssumption DEF CallTypes
      <4> QED
        BY <1>2, <4>1, PeerOfPeer
    <3> QED
      BY <3>1, <3>2
  <2> QED
    BY <1>0, <1>2, <2>1, <2>2 DEF Answered, Ran
<1>4. Selected'
  <2> SUFFICES ASSUME NEW c \in Calls
               PROVE  /\ pc'[c] \in {"awaitResp", "readBody"} => CallType[c] = "req"
                      /\ CallType[c] = "req" /\ pc'[c] \in {"readBody", "ok"} => resp'[c] # "none"
    BY DEF Selected
  <2>1. CASE c = t
    BY <1>0, <1>h, <2>1, SendEffects DEF AfterSend, AfterError
  <2>2. CASE c # t
    BY <1>0, <1>2, <1>h, <2>2, SendEffects DEF Selected
  <2> QED
    BY <2>1, <2>2
<1>5. Origin'
  <2> SUFFICES ASSUME NEW c \in Own
               PROVE  /\ \A f \in Frame : f \in Frames(PeerOf(c))' /\ f.id = CallID[c]
                            => f.type \in {CallType[c], "ack"}
                      /\ \A f \in Frame : f \in Frames(CallEnd[c])' /\ f.id = CallID[c]
                            => f.type \in {"resp", "ack"}
    BY <1>0, <1>1, <1>2, PeerOfPeer DEF Origin, Own
  <2>1. c \in Calls /\ \A d \in Calls : CallID[d] = CallID[c] => d = c
    BY DEF Own, UniqueID
  <2>2. ASSUME NEW f \in Frame, f \in Frames(PeerOf(c))', f.id = CallID[c]
        PROVE  f.type \in {CallType[c], "ack"}
    <3>1. CASE f \in Frames(PeerOf(c))
      BY <1>0, <2>2, <3>1 DEF Origin
    <3>2. CASE f \notin Frames(PeerOf(c))
      <4>1. t = CallEnd[c] /\ t \in Ends => ~(Replying(t) /\ f = frame[t])
        BY <1>0, <2>2 DEF Origin
      <4>2. t \in Calls
        BY <2>1, <2>2, <3>2, <4>1, FrameSent, PeerOfPeer DEF PeerOf
      <4> QED
        BY <1>h, <2>1, <2>2, <3>2, <4>2, FrameSent, PeerOfPeer
    <3> QED
      BY <3>1, <3>2
  <2>3. ASSUME NEW f \in Frame, f \in Frames(CallEnd[c])', f.id = CallID[c]
        PROVE  f.type \in {"resp", "ack"}
    <3>1. CASE f \in Frames(CallEnd[c])
      BY <1>0, <2>3, <3>1 DEF Origin
    <3>2. CASE f \notin Frames(CallEnd[c])
      BY <1>h, <2>1, <2>3, <3>2, FrameSent, PeerOfPeer
    <3> QED
      BY <3>1, <3>2
  <2> QED
    BY <2>2, <2>3
<1>6. Listening'
  BY <1>0, <1>2 DEF Listening
<1> QED
  BY <1>3, <1>4, <1>5, <1>6

\* A send trusts only an acknowledgement that came.
LEMMA SendKeepsAcks ==
    ASSUME DInv, NEW t \in Threads, SendStep(t)
    PROVE  Acknowledged'
<1>0. IInv /\ Answered /\ Acknowledged /\ TypeOK
  BY DEF DInv, IInv
<1>h. Ends \cap Calls = {} /\ (t \in Ends \/ t \in Calls) /\ Calls \subseteq Threads
  BY EndsAssumption DEF Threads
<1>1. UNCHANGED runs
  BY <1>0, SendEffects
<1> SUFFICES ASSUME NEW c \in Own, CallType[c] = "evt", PeerOf(c) \notin Removable, Vouched(c)'
             PROVE  Ran(c)
  BY <1>1 DEF Acknowledged, Ran
<1>c. c \in Calls /\ PeerOf(c) \in Ends /\ CallID[c] \in IDs
  BY PeerOfPeer DEF Own
<1>2. Vouched(c) => Ran(c)
  BY <1>0 DEF Acknowledged
<1>3. CASE ackOut'[PeerOf(c)][CallID[c]] > 0
  <2>1. CASE ackOut' = ackOut
    BY <1>2, <1>3, <2>1 DEF Vouched
  <2>2. CASE t \in Ends /\ ackOut' = sendAcknowledge(t, frame[t].id)
    <3>1. frame[t].id \in IDs /\ runs[t][frame[t].id] > 0
      BY <1>0, <2>2, SendEffects, FrameInHand DEF Answered, Replying, IInv
    <3>2. CASE t = PeerOf(c) /\ frame[t].id = CallID[c]
      BY <3>1, <3>2 DEF Ran
    <3>3. CASE ~(t = PeerOf(c) /\ frame[t].id = CallID[c])
      <4>1. ackOut'[PeerOf(c)][CallID[c]] = ackOut[PeerOf(c)][CallID[c]]
        BY <1>0, <1>c, <2>2, <3>1, <3>3 DEF sendAcknowledge, TypeOK
      <4> QED
        BY <1>2, <1>3, <4>1 DEF Vouched
    <3> QED
      BY <3>2, <3>3
  <2> QED
    BY <1>0, <1>h, <2>1, <2>2, SendEffects
<1>4. ASSUME NEW f \in Frame, f \in Frames(CallEnd[c])', f.id = CallID[c], f.type = "ack"
      PROVE  Ran(c)
  <2>1. f \in Frames(CallEnd[c])
    BY <1>4, <1>c, FrameSent, PeerOfPeer, CallsAssumption DEF CallTypes
  <2> QED
    BY <1>2, <1>4, <2>1 DEF Vouched
<1>5. CASE acked'[c]
  <2>1. acked[c]
    BY <1>0, <1>5, <1>c, <1>h, SendEffects
  <2> QED
    BY <1>2, <2>1 DEF Vouched
<1>6. CASE pc'[c] = "ok" /\ RequireAcknowledge[CallEnd[c]]
  <2>1. acked[c] \/ pc[c] = "ok"
    BY <1>0, <1>6, <1>c, <1>h, SendEffects
  <2> QED
    BY <1>2, <1>6, <2>1 DEF Vouched
<1> QED
  BY <1>3, <1>4, <1>5, <1>6 DEF Vouched

\* What Counted says of one call.
CountedOf(c) ==
    Cardinality(Copies(c)) + One(pc[c] = "write")
        + One(pc[PeerOf(c)] = "handler" /\ frame[PeerOf(c)].id = CallID[c])
        + runs[PeerOf(c)][CallID[c]] <= attempt[c]

\* The terms of Counted are natural numbers.
LEMMA CountTypes ==
    ASSUME TypeOK, NEW c \in Calls
    PROVE  /\ Cardinality(Copies(c)) \in Nat /\ attempt[c] \in Nat
           /\ runs[PeerOf(c)][CallID[c]] \in Nat
           /\ \A b : One(b) \in Nat
BY CopiesFinite, PeerOfPeer DEF TypeOK, One, Threads

\* SendStreamWithID raises attempt before it writes a copy.
LEMMA SendKeepsCount ==
    ASSUME DInv, NEW t \in Threads, SendStep(t)
    PROVE  Counted'
<1>0. IInv /\ Answered /\ Counted /\ Origin /\ TypeOK
  BY DEF DInv, IInv
<1>h. Ends \cap Calls = {} /\ (t \in Ends \/ t \in Calls) /\ Calls \subseteq Threads /\ Ends \subseteq Threads
  BY EndsAssumption DEF Threads
<1> SUFFICES ASSUME NEW c \in Own PROVE CountedOf(c)'
  BY DEF Counted, CountedOf
<1>c. c \in Calls /\ PeerOf(c) \in Ends /\ CallID[c] \in IDs /\ CountedOf(c)
      /\ \A d \in Calls : CallID[d] = CallID[c] => d = c
  BY <1>0, PeerOfPeer DEF Own, UniqueID, Counted, CountedOf
<1>n. /\ Cardinality(Copies(c)) \in Nat /\ attempt[c] \in Nat /\ attempt'[c] \in Nat
      /\ runs[PeerOf(c)][CallID[c]] \in Nat
  BY <1>0, <1>c, <1>h, CountTypes, SendWrites, SendEffects
<1>1. /\ UNCHANGED <<runs, frame>>
      /\ pc'[PeerOf(c)] = "handler" => pc[PeerOf(c)] = "handler"
  BY <1>0, <1>c, <1>h, SendEffects DEF AfterSend, AfterError
<1>2. CASE UNCHANGED wire
  <2>1. Copies(c)' = Copies(c)
    BY <1>2 DEF Copies
  <2>2. One(pc'[c] = "write") + attempt[c] <= One(pc[c] = "write") + attempt'[c]
    <3>1. CASE c # t
      BY <1>0, <1>c, <1>h, <3>1, <1>n, SendEffects DEF One
    <3>2. CASE c = t
      BY <1>0, <1>2, <3>2, <1>n, SendWrites DEF One
    <3> QED
      BY <3>1, <3>2
  <2> QED
    BY <1>1, <1>c, <1>n, <2>1, <2>2 DEF CountedOf, One
<1>3. CASE /\ wire' = Put(EndOf(t), Out(t)) /\ Out(t) \in Frame /\ EndOf(t) \in Ends
           /\ pc[t] = "write" /\ pc'[t] # "write" /\ attempt'[t] = attempt[t]
  <2>1. CASE c = t
    <3>1. Cardinality(Copies(c)') \in {Cardinality(Copies(c)), Cardinality(Copies(c)) + 1}
      BY <1>0, <1>3, <1>c, CopiesPut
    <3> QED
      BY <1>1, <1>3, <1>c, <1>n, <2>1, <3>1 DEF CountedOf, One
  <2>2. CASE c # t
    <3>1. ~(EndOf(t) = CallEnd[c] /\ Out(t).id = CallID[c])
      BY <1>0, <1>3, <1>c, <1>h, <2>2 DEF EndOf, Out, Origin, Replying
    <3>2. Copies(c)' = Copies(c)
      BY <1>0, <1>3, <1>c, <3>1, CopiesPut
    <3>3. pc'[c] = pc[c] /\ attempt'[c] = attempt[c]
      BY <1>0, <1>c, <1>h, <2>2, SendEffects
    <3> QED
      BY <1>1, <1>c, <1>n, <3>2, <3>3 DEF CountedOf, One
  <2> QED
    BY <2>1, <2>2
<1> QED
  BY <1>0, <1>2, <1>3, SendWrites
-----------------------------------------------------------------------------
(* Steps of a call outside its send loop.                                  *)

\* What a caller does outside the send loop puts no frame on the wire.
LEMMA CallKeeps ==
    ASSUME DInv, NEW c \in Calls, CallStep(c)
    PROVE  Answered' /\ Selected' /\ Origin' /\ Listening' /\ Acknowledged' /\ Counted'
<1> USE DEF sendVars, serveVars, envVars
<1>0. IInv /\ Answered /\ Selected /\ Origin /\ Listening /\ Acknowledged /\ Counted /\ TypeOK
  BY DEF DInv, IInv
<1>h. Ends \cap Calls = {} /\ Calls \subseteq Threads /\ Ends \subseteq Threads
  BY EndsAssumption DEF Threads
<1>1. UNCHANGED <<wire, resp, runs, frame, receiver, ackOut, acked, attempt>>
  BY DEF CallStep, StartCall, StartSend, StartRequest, StartDuplicate, RespArrives, RespCancelled,
         BodyRead
<1>2. /\ \A u \in Threads : u # c => pc'[u] = pc[u]
      /\ pc[c] # "write" /\ pc'[c] # "write"
      /\ pc'[c] \in {"awaitResp", "readBody", "ok"} =>
            pc[c] \in {"awaitResp", "readBody"} /\ resp[c] # "none" /\ pc'[c] # "awaitResp"
  BY <1>0, <1>h DEF CallStep, StartCall, StartSend, StartRequest, StartDuplicate, RespArrives,
         RespCancelled, BodyRead, TypeOK
<1>3. \A e \in Ends : pc'[e] = pc[e]
  BY <1>2, <1>h
<1>4. Answered'
  BY <1>0, <1>1, <1>3, FramesSame DEF Answered, Ran, Replying
<1>5. Selected'
  BY <1>0, <1>1, <1>2, <1>h DEF Selected
<1>6. Origin'
  BY <1>0, <1>1, <1>3, FramesSame, PeerOfPeer DEF Origin, Replying, Own
<1>7. Listening'
  BY <1>0, <1>1 DEF Listening
<1>8. Acknowledged'
  <2> SUFFICES ASSUME NEW d \in Own, CallType[d] = "evt", PeerOf(d) \notin Removable, Vouched(d)'
               PROVE  Ran(d)
    BY <1>1 DEF Acknowledged, Ran
  <2>1. pc'[d] = "ok" => pc[d] = "ok"
    BY <1>0, <1>2, <1>h DEF Own, Selected
  <2>2. Vouched(d)
    BY <1>1, <2>1, FramesSame DEF Vouched
  <2> QED
    BY <1>0, <2>2 DEF Acknowledged
<1>9. Counted'
  <2> SUFFICES ASSUME NEW d \in Own PROVE CountedOf(d)'
    BY DEF Counted, CountedOf
  <2>1. CountedOf(d) /\ d \in Calls
    BY <1>0 DEF Counted, CountedOf, Own
  <2>2. Copies(d)' = Copies(d)
    BY <1>1 DEF Copies
  <2>3. pc'[PeerOf(d)] = pc[PeerOf(d)] /\ (pc'[d] = "write" <=> pc[d] = "write")
    BY <1>2, <1>3, <1>h, <2>1, PeerOfPeer
  <2> QED
    BY <1>1, <2>1, <2>2, <2>3 DEF CountedOf, One
<1> QED
  BY <1>4, <1>5, <1>6, <1>7, <1>8, <1>9
-----------------------------------------------------------------------------
(* Steps of a Serve loop.                                                  *)

\* What a turn of Serve leaves alone, and that the history grows.
LEMMA ServeEffects ==
    ASSUME IInv, NEW e \in Ends, ServeStep(e)
    PROVE  /\ UNCHANGED receiver
           /\ \A c \in Calls : pc'[c] = pc[c] /\ attempt'[c] = attempt[c]
           /\ \A x \in Ends : x # e => pc'[x] = pc[x] /\ frame'[x] = frame[x]
           /\ \A x \in Ends, i \in IDs : runs'[x][i] \in Nat /\ runs[x][i] \in Nat
                                         /\ runs'[x][i] >= runs[x][i]
<1> USE DEF sendVars, serveVars, envVars
<1>h. e \notin Calls /\ e \in Threads /\ Calls \subseteq Threads /\ Ends \subseteq Threads
  BY EndsAssumption DEF Threads
<1>t. pc \in [Threads -> CallPCs \cup ServePCs] /\ attempt \in [Threads -> Nat]
      /\ frame \in [Ends -> Frame \cup {NoFrame}] /\ runs \in [Ends -> [IDs -> Nat]]
  BY DEF IInv, TypeOK
<1>1. /\ UNCHANGED receiver
      /\ \A c \in Calls : pc'[c] = pc[c] /\ attempt'[c] = attempt[c]
      /\ \A x \in Ends : x # e => pc'[x] = pc[x] /\ frame'[x] = frame[x]
  BY <1>h, <1>t DEF ServeStep, ServeResponse, ServeAck, ServeHandle, ServeIgnore, ServeRefuse, ServeReturns,
         HandlerReturns, HandlerReplies, HandlerFails, PipeRead, PipeCut, PipeWrite
<1>2. runs' = runs \/ \E i \in IDs : runs' = [runs EXCEPT ![e][i] = @ + 1]
  <2>1. CASE HandlerReturns(e) \/ HandlerReplies(e)
    <3>1. frame[e].id \in IDs
      BY <2>1, FrameInHand DEF HandlerReturns, HandlerReplies, IInv
    <3> QED
      BY <2>1, <3>1 DEF HandlerReturns, HandlerReplies
  <2>2. CASE ~(HandlerReturns(e) \/ HandlerReplies(e))
    BY <2>2 DEF ServeStep, ServeResponse, ServeAck, ServeHandle, ServeIgnore, ServeRefuse, ServeReturns,
           HandlerFails, PipeRead, PipeCut, PipeWrite
  <2> QED
    BY <2>1, <2>2
<1>3. \A x \in Ends, i \in IDs : runs'[x][i] \in Nat /\ runs[x][i] \in Nat
                                 /\ runs'[x][i] >= runs[x][i]
  <2>1. CASE runs' = runs
    BY <1>t, <2>1
  <2>2. ASSUME NEW i \in IDs, runs' = [runs EXCEPT ![e][i] = @ + 1]
        PROVE  \A x \in Ends, k \in IDs : runs'[x][k] \in Nat /\ runs[x][k] \in Nat
                                          /\ runs'[x][k] >= runs[x][k]
    BY <1>t, <2>2
  <2> QED
    BY <1>2, <2>1, <2>2
<1> QED
  BY <1>1, <1>3

\* What ran has run.
LEMMA RanStays ==
    ASSUME IInv, NEW e \in Ends, ServeStep(e)
    PROVE  /\ \A c \in Calls : Ran(c) => Ran(c)'
           /\ \A x \in Ends, i \in IDs : runs[x][i] > 0 => runs'[x][i] > 0
<1>1. \A x \in Ends, i \in IDs : runs[x][i] > 0 => runs'[x][i] > 0
  <2> SUFFICES ASSUME NEW x \in Ends, NEW i \in IDs, runs[x][i] > 0 PROVE runs'[x][i] > 0
    OBVIOUS
  <2>1. runs'[x][i] \in Nat /\ runs[x][i] \in Nat /\ runs'[x][i] >= runs[x][i]
    BY ServeEffects
  <2> QED
    BY <2>1
<1> QED
  BY <1>1, PeerOfPeer DEF Ran

\* Serve writes nothing to the wire: it takes a frame off or leaves it alone.
LEMMA ServeWire ==
    ASSUME TypeOK, NEW e \in Ends, ServeStep(e)
    PROVE  /\ UNCHANGED wire \/ NextFrame(e)
           /\ \A x \in Ends : \A f : f \in Frames(x)' => f \in Frames(x)
<1>1. UNCHANGED wire \/ NextFrame(e)
  BY DEF ServeStep, ServeResponse, ServeAck, ServeHandle, ServeIgnore, ServeRefuse, ServeReturns,
         HandlerReturns, HandlerReplies, HandlerFails, PipeRead, PipeCut, PipeWrite
<1> QED
  BY <1>1, FramesTake, FramesSame

\* A response is handed to a call of this end, under its ID.
LEMMA ServeHands ==
    ASSUME IInv, NEW e \in Ends, ServeStep(e), NEW c \in Calls
    PROVE  /\ resp[c] # "none" => resp'[c] # "none"
           /\ resp'[c] # "none" => \/ resp[c] # "none"
                                   \/ /\ CallEnd[c] = e
                                      /\ \E f \in Frame : f \in Frames(e) /\ f.type = "resp"
                                                          /\ f.id = CallID[c]
<1> USE DEF sendVars, serveVars, envVars
<1>0. TypeOK /\ resp \in [Calls -> {"none", "open", "full", "cut"}]
  BY DEF IInv, TypeOK
<1>1. CASE ServeResponse(e)
  <2>1. PICK f \in Frame : f = Head(wire[e]) /\ f \in Frames(e) /\ f.id \in IDs
    BY <1>0, <1>1, FramesTake DEF ServeResponse, Frame
  <2>2. PICK w \in Calls : w = pendingResponses[e][f.id]
    BY <1>1, <2>1 DEF ServeResponse, PendingMatches, IInv, TypeOK
  <2>3. CallEnd[w] = e /\ CallID[w] = f.id
    BY <2>1, <2>2 DEF IInv, PendingResponsesExact
  <2>4. resp' = [resp EXCEPT ![w] = "open"] /\ f.type = "resp"
    BY <1>1, <2>1, <2>2 DEF ServeResponse, PendingMatches
  <2> QED
    BY <1>0, <2>1, <2>3, <2>4
<1>2. CASE PipeRead(e) \/ PipeCut(e) \/ PipeWrite(e)
  <2>1. pipeTo[e] \in Calls /\ resp[pipeTo[e]] # "none"
    BY <1>2 DEF PipeRead, PipeCut, PipeWrite, IInv, Control
  <2>2. resp' = resp \/ \E v \in {"full", "cut"} : resp' = [resp EXCEPT ![pipeTo[e]] = v]
    BY <1>2 DEF PipeRead, PipeCut, PipeWrite
  <2> QED
    BY <1>0, <2>1, <2>2
<1>3. CASE ~(ServeResponse(e) \/ PipeRead(e) \/ PipeCut(e) \/ PipeWrite(e))
  <2>1. UNCHANGED resp
    BY <1>3 DEF ServeStep, ServeAck, ServeHandle, ServeIgnore, ServeRefuse, ServeReturns,
         HandlerReturns, HandlerReplies, HandlerFails
  <2> QED
    BY <2>1
<1> QED
  BY <1>1, <1>2, <1>3

\* A Serve loop begins to send only what its callback returned.
LEMMA ServeReplies ==
    ASSUME IInv, NEW e \in Ends, ServeStep(e), Replying(e)'
    PROVE  /\ pc[e] = "handler" /\ frame[e].type = "req" /\ frame[e].id \in IDs
           /\ frame'[e].type = "resp" /\ frame'[e].id = frame[e].id
           /\ runs'[e][frame[e].id] > 0
<1> USE DEF sendVars, serveVars, envVars
<1>h. e \in Threads
  BY DEF Threads
<1>1. HandlerReplies(e)
  BY <1>h DEF ServeStep, ServeResponse, ServeAck, ServeHandle, ServeIgnore, ServeRefuse, ServeReturns,
         HandlerReturns, HandlerFails, PipeRead, PipeCut, PipeWrite, Replying, IInv, TypeOK, NextFrame
<1>2. frame[e].id \in IDs
  BY <1>1, FrameInHand DEF HandlerReplies, IInv
<1>3. runs'[e][frame[e].id] = runs[e][frame[e].id] + 1 /\ runs[e][frame[e].id] \in Nat
  BY <1>1, <1>2 DEF HandlerReplies, IInv, TypeOK
<1>4. PICK len : frame' = [frame EXCEPT ![e] = [id |-> frame[e].id, type |-> "resp", len |-> len]]
  BY <1>1 DEF HandlerReplies
<1>5. frame'[e] = [id |-> frame[e].id, type |-> "resp", len |-> len]
  BY <1>4 DEF IInv, TypeOK
<1> QED
  BY <1>1, <1>2, <1>3, <1>5 DEF HandlerReplies

\* Serve hands over only responses that were sent, and responds only after the
\* callback.
LEMMA ServeKeepsAnswers ==
    ASSUME DInv, NEW e \in Ends, ServeStep(e)
    PROVE  Answered' /\ Selected' /\ Listening'
<1>0. IInv /\ Answered /\ Selected /\ Listening /\ TypeOK
  BY DEF DInv, IInv
<1>1. Answered'
  <2>1. ASSUME NEW x \in Ends, Replying(x)'
        PROVE  frame'[x].type = "resp" /\ runs'[x][frame'[x].id] > 0
    <3>1. CASE x = e
      BY <1>0, <2>1, <3>1, ServeReplies
    <3>2. CASE x # e
      <4>1. Replying(x) /\ frame'[x] = frame[x]
        BY <1>0, <2>1, <3>2, ServeEffects DEF Replying
      <4>2. frame[x].id \in IDs
        BY <1>0, <4>1, FrameInHand DEF Replying, IInv
      <4> QED
        BY <1>0, <4>1, <4>2, RanStays DEF Answered
    <3> QED
      BY <3>1, <3>2
  <2>2. ASSUME NEW x \in Ends, NEW f \in Frame, f \in Frames(x)', f.type = "resp"
        PROVE  runs'[Peer[x]][f.id] > 0
    <3>1. f \in Frames(x) /\ f.id \in IDs
      BY <1>0, <2>2, ServeWire DEF Frame
    <3> QED
      BY <1>0, <2>2, <3>1, RanStays, PeerOfPeer DEF Answered
  <2>3. ASSUME NEW c \in Calls, resp'[c] # "none"
        PROVE  Ran(c)'
    <3>1. CASE resp[c] # "none"
      BY <1>0, <3>1, RanStays DEF Answered
    <3>2. CASE resp[c] = "none"
      <4>1. Ran(c)
        BY <1>0, <2>3, <3>2, ServeHands DEF Answered, Ran, PeerOf
      <4> QED
        BY <1>0, <4>1, RanStays
    <3> QED
      BY <3>1, <3>2
  <2> QED
    BY <2>1, <2>2, <2>3 DEF Answered
<1>2. Selected'
  BY <1>0, ServeEffects, ServeHands DEF Selected
<1>3. Listening'
  BY <1>0, ServeEffects DEF Listening
<1> QED
  BY <1>1, <1>2, <1>3

\* What a Serve loop has in hand after a step: what it had, or what it has read.
LEMMA ServeTakes ==
    ASSUME IInv, NEW e \in Ends, ServeStep(e),
           pc'[e] \in {"handler", "pipe", "pipeWrite"}
    PROVE  \/ /\ pc[e] = "pipe" /\ pc'[e] = "pipeWrite" /\ frame'[e] = frame[e]
           \/ /\ NextFrame(e) /\ frame'[e] = Head(wire[e]) /\ frame'[e] # NoFrame
              /\ frame'[e] \in Frames(e) /\ frame'[e] \in Frame
              /\ pc'[e] = "handler" => frame'[e].type # "ack"
              /\ pc'[e] # "handler" => frame'[e].type = "resp"
           \/ NextFrame(e) /\ pc'[e] = pc[e]
<1> USE DEF sendVars, serveVars, envVars
<1>0. TypeOK /\ e \in Threads /\ pc \in [Threads -> CallPCs \cup ServePCs]
      /\ frame \in [Ends -> Frame \cup {NoFrame}]
  BY DEF Threads, IInv, TypeOK
<1>n. \A f \in Frame : f # NoFrame
  BY DEF Frame, NoFrame, Types, CallTypes
<1>1. CASE ServeHandle(e) \/ ServeResponse(e)
  <2>1. NextFrame(e) /\ frame'[e] = Head(wire[e])
    BY <1>0, <1>1 DEF ServeHandle, ServeResponse
  <2>2. Head(wire[e]) \in Frames(e) /\ Head(wire[e]) \in Frame
    BY <1>0, <2>1, FramesTake
  <2>3. (pc'[e] = "handler" => Head(wire[e]).type # "ack")
        /\ (pc'[e] # "handler" => Head(wire[e]).type = "resp")
    BY <1>0, <1>1 DEF ServeHandle, ServeResponse, Dispatched, PendingMatches
  <2> QED
    BY <1>n, <2>1, <2>2, <2>3
<1>2. CASE ~(ServeHandle(e) \/ ServeResponse(e))
  BY <1>0, <1>2 DEF ServeStep, ServeAck, ServeIgnore, ServeRefuse, ServeReturns, HandlerReturns,
         HandlerReplies, HandlerFails, PipeRead, PipeCut, PipeWrite
<1> QED
  BY <1>1, <1>2

\* Serve takes a frame for what it is, and adds none.
LEMMA ServeKeepsOrigin ==
    ASSUME DInv, NEW e \in Ends, ServeStep(e)
    PROVE  Origin'
<1>0. IInv /\ Origin /\ TypeOK
  BY DEF DInv, IInv
<1> SUFFICES ASSUME NEW c \in Own
             PROVE  /\ \A f \in Frame : f \in Frames(PeerOf(c))' /\ f.id = CallID[c]
                          => f.type \in {CallType[c], "ack"}
                    /\ \A f \in Frame : f \in Frames(CallEnd[c])' /\ f.id = CallID[c]
                          => f.type \in {"resp", "ack"}
                    /\ pc'[PeerOf(c)] = "handler" /\ frame'[PeerOf(c)].id = CallID[c]
                          => frame'[PeerOf(c)].type = CallType[c]
                    /\ pc'[PeerOf(c)] \in {"pipe", "pipeWrite"} => frame'[PeerOf(c)].id # CallID[c]
                    /\ pc'[CallEnd[c]] = "handler" /\ frame'[CallEnd[c]].id = CallID[c]
                          => frame'[CallEnd[c]].type = "resp"
                    /\ Replying(CallEnd[c])' => frame'[CallEnd[c]].id # CallID[c]
  BY DEF Origin
<1>c. c \in Calls /\ PeerOf(c) \in Ends /\ CallEnd[c] \in Ends /\ CallType[c] \in {"evt", "req", "unk"}
  BY PeerOfPeer, CallsAssumption DEF Own, CallTypes
<1>1. /\ \A f \in Frame : f \in Frames(PeerOf(c)) /\ f.id = CallID[c] => f.type \in {CallType[c], "ack"}
      /\ \A f \in Frame : f \in Frames(CallEnd[c]) /\ f.id = CallID[c] => f.type \in {"resp", "ack"}
      /\ pc[PeerOf(c)] = "handler" /\ frame[PeerOf(c)].id = CallID[c]
            => frame[PeerOf(c)].type = CallType[c]
      /\ pc[PeerOf(c)] \in {"pipe", "pipeWrite"} => frame[PeerOf(c)].id # CallID[c]
      /\ pc[CallEnd[c]] = "handler" /\ frame[CallEnd[c]].id = CallID[c]
            => frame[CallEnd[c]].type = "resp"
      /\ Replying(CallEnd[c]) => frame[CallEnd[c]].id # CallID[c]
  BY <1>0 DEF Origin
<1>2. /\ \A f \in Frame : f \in Frames(PeerOf(c))' /\ f.id = CallID[c] => f.type \in {CallType[c], "ack"}
      /\ \A f \in Frame : f \in Frames(CallEnd[c])' /\ f.id = CallID[c] => f.type \in {"resp", "ack"}
  BY <1>0, <1>1, <1>c, ServeWire
<1>r. NextFrame(e) => pc[e] = "read"
  BY DEF NextFrame
<1>3. /\ pc'[PeerOf(c)] = "handler" /\ frame'[PeerOf(c)].id = CallID[c]
            => frame'[PeerOf(c)].type = CallType[c]
      /\ pc'[PeerOf(c)] \in {"pipe", "pipeWrite"} => frame'[PeerOf(c)].id # CallID[c]
  <2>1. CASE PeerOf(c) = e
    BY <1>0, <1>1, <1>c, <1>r, <2>1, ServeTakes
  <2>2. CASE PeerOf(c) # e
    BY <1>0, <1>1, <1>c, <2>2, ServeEffects
  <2> QED
    BY <2>1, <2>2
<1>4. /\ pc'[CallEnd[c]] = "handler" /\ frame'[CallEnd[c]].id = CallID[c]
            => frame'[CallEnd[c]].type = "resp"
      /\ Replying(CallEnd[c])' => frame'[CallEnd[c]].id # CallID[c]
  <2>1. CASE CallEnd[c] = e
    <3>1. pc'[e] = "handler" /\ frame'[e].id = CallID[c] => frame'[e].type = "resp"
      BY <1>0, <1>1, <1>c, <1>r, <2>1, ServeTakes
    <3>2. Replying(e)' => frame'[e].id # CallID[c]
      BY <1>0, <1>1, <2>1, ServeReplies
    <3> QED
      BY <2>1, <3>1, <3>2
  <2>2. CASE CallEnd[c] # e
    BY <1>0, <1>1, <1>c, <2>2, ServeEffects DEF Replying
  <2> QED
    BY <2>1, <2>2
<1> QED
  BY <1>2, <1>3, <1>4

\* A Serve loop acknowledges what it has ignored, handled, or handed over.
LEMMA ServeAcks ==
    ASSUME IInv, NEW e \in Ends, ServeStep(e)
    PROVE  \/ ackOut' = ackOut
           \/ \E i \in IDs :
                /\ ackOut' = sendAcknowledge(e, i)
                /\ \/ ServeIgnore(e) /\ i = Head(wire[e]).id
                   \/ runs'[e][i] > 0
                   \/ pc[e] \in {"pipe", "pipeWrite"} /\ i = frame[e].id
<1> USE DEF sendVars, serveVars, envVars
<1>0. TypeOK
  BY DEF IInv
<1>1. CASE ServeIgnore(e)
  BY <1>0, <1>1, NextFrameType DEF ServeIgnore
<1>2. CASE HandlerReturns(e)
  <2>1. frame[e].id \in IDs
    BY <1>2, FrameInHand DEF HandlerReturns, IInv
  <2>2. runs'[e][frame[e].id] = runs[e][frame[e].id] + 1 /\ runs[e][frame[e].id] \in Nat
    BY <1>0, <1>2, <2>1 DEF HandlerReturns, TypeOK
  <2> QED
    BY <1>2, <2>1, <2>2 DEF HandlerReturns
<1>3. CASE PipeRead(e) \/ PipeWrite(e)
  <2>1. frame[e].id \in IDs
    BY <1>3, FrameInHand DEF PipeRead, PipeWrite, IInv
  <2> QED
    BY <1>3, <2>1 DEF PipeRead, PipeWrite
<1>4. CASE ~(ServeIgnore(e) \/ HandlerReturns(e) \/ PipeRead(e) \/ PipeWrite(e))
  BY <1>4 DEF ServeStep, ServeResponse, ServeAck, ServeHandle, ServeRefuse, ServeReturns,
         HandlerReplies, HandlerFails, PipeCut
<1> QED
  BY <1>1, <1>2, <1>3, <1>4

\* An acknowledgement reaches only the call it names.
LEMMA ServeResolves ==
    ASSUME IInv, NEW e \in Ends, ServeStep(e), NEW c \in Calls, acked'[c], ~acked[c]
    PROVE  /\ CallEnd[c] = e
           /\ \E f \in Frame : f \in Frames(e) /\ f.type = "ack" /\ f.id = CallID[c]
<1> USE DEF sendVars, serveVars, envVars
<1>0. TypeOK /\ c \in Threads /\ c \notin Ends
  BY EndsAssumption DEF IInv, Threads
<1>1. ServeAck(e)
  BY DEF ServeStep, ServeResponse, ServeHandle, ServeIgnore, ServeRefuse, ServeReturns,
         HandlerReturns, HandlerReplies, HandlerFails, PipeRead, PipeCut, PipeWrite
<1>2. PICK f \in Frame : f = Head(wire[e]) /\ f \in Frames(e) /\ f.id \in IDs
  BY <1>0, <1>1, FramesTake DEF ServeAck, Frame
<1>3. f.type = "ack" /\ pendingAcks[e][f.id] = c
  BY <1>0, <1>1, <1>2 DEF ServeAck, TypeOK
<1>4. EndOf(c) = e /\ Out(c).id = f.id
  BY <1>0, <1>2, <1>3, EndsAssumption DEF IInv, PendingAcksExact
<1> QED
  BY <1>0, <1>2, <1>3, <1>4 DEF EndOf, Out

\* Serve acknowledges a message of an M only after its callback, and resolves the call
\* it names.
LEMMA ServeKeepsAcks ==
    ASSUME DInv, NEW e \in Ends, ServeStep(e)
    PROVE  Acknowledged'
<1>0. IInv /\ Origin /\ Listening /\ Acknowledged /\ TypeOK
  BY DEF DInv, IInv
<1> SUFFICES ASSUME NEW c \in Own, CallType[c] = "evt", PeerOf(c) \notin Removable, Vouched(c)'
             PROVE  Ran(c)'
  BY DEF Acknowledged
<1>c. c \in Calls /\ PeerOf(c) \in Ends /\ CallEnd[c] \in Ends /\ CallID[c] \in IDs
  BY PeerOfPeer DEF Own
<1>2. Vouched(c) => Ran(c)'
  BY <1>0, <1>c, RanStays DEF Acknowledged
<1>3. CASE ackOut'[PeerOf(c)][CallID[c]] > 0
  <2>1. CASE ackOut'[PeerOf(c)][CallID[c]] = ackOut[PeerOf(c)][CallID[c]]
    BY <1>2, <1>3, <2>1 DEF Vouched
  <2>2. CASE ackOut'[PeerOf(c)][CallID[c]] # ackOut[PeerOf(c)][CallID[c]]
    <3>1. PICK i \in IDs : /\ ackOut' = sendAcknowledge(e, i)
                           /\ \/ ServeIgnore(e) /\ i = Head(wire[e]).id
                              \/ runs'[e][i] > 0
                              \/ pc[e] \in {"pipe", "pipeWrite"} /\ i = frame[e].id
      BY <1>0, <2>2, ServeAcks
    <3>2. e = PeerOf(c) /\ i = CallID[c]
      BY <1>0, <1>c, <2>2, <3>1 DEF sendAcknowledge, TypeOK
    <3>3. ~(pc[e] \in {"pipe", "pipeWrite"} /\ i = frame[e].id)
      BY <1>0, <3>2 DEF Origin
    <3>4. ~(ServeIgnore(e) /\ i = Head(wire[e]).id)
      <4> SUFFICES ASSUME ServeIgnore(e), i = Head(wire[e]).id PROVE FALSE
        OBVIOUS
      <4>1. PICK f \in Frame : f = Head(wire[e]) /\ f \in Frames(e)
        BY <1>0, FramesTake DEF ServeIgnore
      <4>2. f.type # "ack" /\ ~HasCallback(e, f)
        BY <4>1 DEF ServeIgnore, Dispatched
      <4>3. f.type = "evt"
        BY <1>0, <3>2, <4>1, <4>2 DEF Origin
      <4> QED
        BY <1>0, <3>2, <4>2, <4>3 DEF HasCallback, Listening, Wrapped
    <3> QED
      BY <3>1, <3>2, <3>3, <3>4 DEF Ran
  <2> QED
    BY <2>1, <2>2
<1>4. ASSUME NEW f \in Frame, f \in Frames(CallEnd[c])', f.id = CallID[c], f.type = "ack"
      PROVE  Ran(c)'
  BY <1>0, <1>2, <1>4, <1>c, ServeWire DEF Vouched
<1>5. CASE acked'[c]
  BY <1>0, <1>2, <1>5, <1>c, ServeResolves DEF Vouched
<1>6. CASE pc'[c] = "ok" /\ RequireAcknowledge[CallEnd[c]]
  BY <1>0, <1>2, <1>6, <1>c, ServeEffects DEF Vouched
<1> QED
  BY <1>3, <1>4, <1>5, <1>6 DEF Vouched

\* A callback that returns is counted under the ID of the frame it was given.
LEMMA ServeRuns ==
    ASSUME IInv, NEW e \in Ends, ServeStep(e), NEW x \in Ends, NEW i \in IDs
    PROVE  \/ runs'[x][i] = runs[x][i]
           \/ /\ x = e /\ pc[e] = "handler" /\ i = frame[e].id /\ pc'[e] # "handler"
              /\ UNCHANGED wire /\ runs'[x][i] = runs[x][i] + 1
<1> USE DEF sendVars, serveVars, envVars
<1>0. e \in Threads /\ pc \in [Threads -> CallPCs \cup ServePCs] /\ runs \in [Ends -> [IDs -> Nat]]
  BY DEF IInv, TypeOK, Threads
<1>1. CASE HandlerReturns(e) \/ HandlerReplies(e)
  <2>1. /\ frame[e].id \in IDs /\ runs' = [runs EXCEPT ![e][frame[e].id] = @ + 1]
        /\ pc[e] = "handler" /\ pc'[e] # "handler" /\ UNCHANGED wire
    BY <1>0, <1>1, FrameInHand DEF HandlerReturns, HandlerReplies, IInv
  <2> QED
    BY <1>0, <2>1
<1>2. CASE ~(HandlerReturns(e) \/ HandlerReplies(e))
  BY <1>2 DEF ServeStep, ServeResponse, ServeAck, ServeHandle, ServeIgnore, ServeRefuse, ServeReturns,
         HandlerFails, PipeRead, PipeCut, PipeWrite
<1> QED
  BY <1>1, <1>2

\* A copy that Serve reads leaves the wire, and runs its callback at most once.
LEMMA ServeKeepsCount ==
    ASSUME DInv, NEW e \in Ends, ServeStep(e)
    PROVE  Counted'
<1>0. IInv /\ Counted /\ TypeOK
  BY DEF DInv, IInv
<1> SUFFICES ASSUME NEW c \in Own PROVE CountedOf(c)'
  BY DEF Counted, CountedOf
<1>c. c \in Calls /\ PeerOf(c) \in Ends /\ CallID[c] \in IDs /\ CountedOf(c)
  BY <1>0, PeerOfPeer DEF Own, Counted, CountedOf
<1>n. /\ Cardinality(Copies(c)) \in Nat /\ attempt[c] \in Nat /\ runs[PeerOf(c)][CallID[c]] \in Nat
  BY <1>0, <1>c, CountTypes
<1>1. pc'[c] = pc[c] /\ attempt'[c] = attempt[c]
  BY <1>0, <1>c, ServeEffects
<1>2. Cardinality(Copies(c)') \in Nat /\ Cardinality(Copies(c)') <= Cardinality(Copies(c))
  <2>1. CASE UNCHANGED wire
    <3>1. Copies(c)' = Copies(c)
      BY <2>1 DEF Copies
    <3> QED
      BY <1>n, <3>1
  <2>2. CASE NextFrame(e)
    BY <1>0, <1>c, <2>2, CopiesTake
  <2> QED
    BY <1>0, <2>1, <2>2, ServeWire
<1>3. CASE e # PeerOf(c)
  <2>1. runs'[PeerOf(c)][CallID[c]] = runs[PeerOf(c)][CallID[c]]
    BY <1>0, <1>3, <1>c, ServeRuns
  <2>2. pc'[PeerOf(c)] = pc[PeerOf(c)] /\ frame'[PeerOf(c)] = frame[PeerOf(c)]
    BY <1>0, <1>3, <1>c, ServeEffects
  <2> QED
    BY <1>1, <1>2, <1>c, <1>n, <2>1, <2>2 DEF CountedOf, One
<1>4. CASE e = PeerOf(c) /\ pc'[e] # "handler"
  <2>1. runs'[e][CallID[c]] + 0 <= runs[e][CallID[c]]
           + One(pc[e] = "handler" /\ frame[e].id = CallID[c])
        /\ runs'[e][CallID[c]] \in Nat
    BY <1>0, <1>4, <1>c, <1>n, ServeRuns DEF One
  <2> QED
    BY <1>1, <1>2, <1>4, <1>c, <1>n, <2>1 DEF CountedOf, One
<1>5. CASE e = PeerOf(c) /\ pc'[e] = "handler"
  <2>1. runs'[e][CallID[c]] = runs[e][CallID[c]]
    BY <1>0, <1>5, <1>c, ServeRuns
  <2>2. /\ NextFrame(e) /\ pc[e] = "read" /\ frame'[e] = Head(wire[e]) /\ frame'[e].type # "ack"
    BY <1>0, <1>5, ServeTakes DEF NextFrame
  <2>3. frame'[e].id = CallID[c] => Cardinality(Copies(c)') + 1 <= Cardinality(Copies(c))
    BY <1>0, <1>5, <1>c, <2>2, CopiesTake
  <2> QED
    BY <1>1, <1>2, <1>5, <1>c, <1>n, <2>1, <2>2, <2>3 DEF CountedOf, One
<1> QED
  BY <1>3, <1>4, <1>5
-----------------------------------------------------------------------------
(* Acknowledgements and the environment.                                   *)

\* The goroutine that acknowledges writes what the callback has earned, or nothing.
LEMMA AckKeeps ==
    ASSUME DInv, NEW e \in Ends, NEW i \in IDs, AckStep(e, i)
    PROVE  Answered' /\ Selected' /\ Origin' /\ Listening' /\ Acknowledged' /\ Counted'
<1> USE DEF sendVars, serveVars, envVars
<1>0. IInv /\ Answered /\ Selected /\ Origin /\ Listening /\ Acknowledged /\ Counted /\ TypeOK
  BY DEF DInv, IInv
<1>1. /\ UNCHANGED <<pc, resp, runs, frame, receiver, acked, attempt>>
      /\ ackOut[e][i] > 0 /\ ackOut' = [ackOut EXCEPT ![e][i] = @ - 1]
      /\ UNCHANGED wire \/ wire' = Put(e, AckFrame(i))
  BY DEF AckStep, AckWrite, AckDropped
<1>2. AckFrame(i) \in Frame /\ AckFrame(i).type = "ack" /\ AckFrame(i).id = i
  BY DEF AckFrame, Frame, Types
<1>3. \A x \in Ends : \A f : f \in Frames(x)' =>
          f \in Frames(x) \/ (x = Peer[e] /\ f = AckFrame(i))
  BY <1>0, <1>1, <1>2, FramesPut, FramesSame
<1>4. Answered'
  BY <1>0, <1>1, <1>2, <1>3 DEF Answered, Ran, Replying
<1>5. Selected' /\ Listening'
  BY <1>0, <1>1 DEF Selected, Listening
<1>6. Origin'
  BY <1>0, <1>1, <1>2, <1>3, PeerOfPeer DEF Origin, Replying, Own
<1>7. Acknowledged'
  <2> SUFFICES ASSUME NEW c \in Own, CallType[c] = "evt", PeerOf(c) \notin Removable, Vouched(c)'
               PROVE  Ran(c)
    BY <1>1 DEF Acknowledged, Ran
  <2>c. c \in Calls /\ PeerOf(c) \in Ends /\ CallEnd[c] \in Ends /\ CallID[c] \in IDs
        /\ Peer[PeerOf(c)] = CallEnd[c]
    BY PeerOfPeer DEF Own
  <2>1. ackOut'[PeerOf(c)][CallID[c]] > 0 => ackOut[PeerOf(c)][CallID[c]] > 0
    BY <1>0, <1>1, <2>c DEF TypeOK
  <2>2. ASSUME NEW f \in Frame, f \in Frames(CallEnd[c])', f.id = CallID[c], f.type = "ack"
        PROVE  Vouched(c)
    <3>1. CASE f \in Frames(CallEnd[c])
      BY <2>2, <3>1 DEF Vouched
    <3>2. CASE f \notin Frames(CallEnd[c])
      <4>1. e = PeerOf(c) /\ i = CallID[c]
        BY <1>2, <1>3, <2>2, <2>c, <3>2, PeerOfPeer
      <4> QED
        BY <1>1, <4>1 DEF Vouched
    <3> QED
      BY <3>1, <3>2
  <2>3. Vouched(c)
    BY <1>1, <2>1, <2>2 DEF Vouched
  <2> QED
    BY <1>0, <2>3 DEF Acknowledged
<1>8. Counted'
  <2> SUFFICES ASSUME NEW c \in Own PROVE CountedOf(c)'
    BY DEF Counted, CountedOf
  <2>1. CountedOf(c) /\ c \in Calls
    BY <1>0 DEF Counted, CountedOf, Own
  <2>2. Copies(c)' = Copies(c)
    <3>1. CASE UNCHANGED wire
      BY <3>1 DEF Copies
    <3>2. CASE wire' = Put(e, AckFrame(i))
      BY <1>0, <1>2, <2>1, <3>2, CopiesPut
    <3> QED
      BY <1>1, <3>1, <3>2
  <2> QED
    BY <1>1, <2>1, <2>2 DEF CountedOf
<1> QED
  BY <1>4, <1>5, <1>6, <1>7, <1>8

\* Cancellations, a closed connection and removed receivers add no evidence.
LEMMA EnvKeeps ==
    ASSUME DInv, EnvStep \/ UNCHANGED vars
    PROVE  Answered' /\ Selected' /\ Origin' /\ Listening' /\ Acknowledged' /\ Counted'
<1> USE DEF sendVars, serveVars, envVars
<1>0. Answered /\ Selected /\ Origin /\ Listening /\ Acknowledged /\ Counted /\ TypeOK
  BY DEF DInv, IInv
<1>1. UNCHANGED <<pc, resp, runs, frame, acked, attempt, ackOut, wire>>
  BY DEF EnvStep, Cancel, CloseConn, RemoveReceiver, OnReceive, vars
<1>2. Listening'
  <2>1. ASSUME NEW e \in Ends, NEW y \in Wrapped, RemoveReceiver(e, y) \/ OnReceive(e, y)
        PROVE  Listening'
    BY <1>0, <2>1 DEF RemoveReceiver, OnReceive, Listening, TypeOK
  <2>2. CASE UNCHANGED receiver
    BY <1>0, <2>2 DEF Listening
  <2> QED
    BY <2>1, <2>2 DEF EnvStep, Cancel, CloseConn, vars
<1>3. Answered' /\ Selected'
  BY <1>0, <1>1, FramesSame DEF Answered, Selected, Ran, Replying
<1>4. Origin'
  BY <1>0, <1>1, FramesSame DEF Origin, Replying
<1>5. Acknowledged'
  BY <1>0, <1>1, FramesSame DEF Acknowledged, Vouched, Ran
<1>6. Counted'
  <2> SUFFICES ASSUME NEW c \in Own PROVE CountedOf(c)'
    BY DEF Counted, CountedOf
  <2>1. CountedOf(c)
    BY <1>0 DEF Counted, CountedOf
  <2>2. Copies(c)' = Copies(c)
    BY <1>1 DEF Copies
  <2> QED
    BY <1>1, <2>1, <2>2 DEF CountedOf
<1> QED
  BY <1>2, <1>3, <1>4, <1>5, <1>6
-----------------------------------------------------------------------------
(* The theorems.                                                           *)

\* Nothing is on the wire and nothing has run.
LEMMA InitDInv == Init => DInv
<1> SUFFICES ASSUME Init PROVE DInv
  OBVIOUS
<1>0. IInv /\ TypeOK
  BY InitIInv DEF IInv
<1>h. Ends \cap Calls = {} /\ Calls \subseteq Threads /\ Ends \subseteq Threads
  BY EndsAssumption DEF Threads
<1>1. \A e \in Ends : pc[e] = "read" /\ Len(wire[e]) = 0 /\ \A f : f \notin Frames(e)
  <2>1. \A e \in Ends : pc[e] = "read" /\ wire[e] = <<>>
    BY <1>h DEF Init
  <2>2. Len(<<>>) = 0
    OBVIOUS
  <2>3. 1..0 = {}
    OBVIOUS
  <2>4. ASSUME NEW e \in Ends, NEW f PROVE f \notin Frames(e)
    BY <2>1, <2>2, <2>3 DEF Frames
  <2> QED
    BY <2>1, <2>2, <2>4
<1>2. \A c \in Calls : pc[c] = "idle" /\ resp[c] = "none" /\ attempt[c] = 0 /\ ~acked[c]
  BY <1>h DEF Init
<1>3. Answered /\ Selected
  BY <1>1, <1>2 DEF Answered, Selected, Replying
<1>4. Origin
  BY <1>1, PeerOfPeer DEF Origin, Own, Replying
<1>5. Listening
  BY DEF Init, Listening
<1>6. Acknowledged
  <2>1. \A c \in Calls : ackOut[PeerOf(c)][CallID[c]] = 0
    BY PeerOfPeer DEF Init
  <2> QED
    BY <1>1, <1>2, <2>1, PeerOfPeer DEF Acknowledged, Vouched, Own
<1>7. Counted
  <2> SUFFICES ASSUME NEW c \in Own PROVE CountedOf(c)
    BY DEF Counted, CountedOf
  <2>1. c \in Calls /\ PeerOf(c) \in Ends /\ CallID[c] \in IDs
    BY PeerOfPeer DEF Own
  <2>2. Copies(c) = {}
    BY <1>1, <2>1 DEF Copies
  <2>3. Cardinality(Copies(c)) = 0
    BY <2>2, FS_EmptySet
  <2>4. runs[PeerOf(c)][CallID[c]] = 0
    BY <2>1 DEF Init
  <2> QED
    BY <1>1, <1>2, <2>1, <2>3, <2>4 DEF CountedOf, One
<1> QED
  BY <1>0, <1>3, <1>4, <1>5, <1>6, <1>7 DEF DInv

\* Every step keeps the invariant.
LEMMA NextDInv == DInv /\ [Next]_vars => DInv'
<1> SUFFICES ASSUME DInv, [Next]_vars PROVE DInv'
  OBVIOUS
<1>0. IInv'
  BY NextIInv DEF DInv
<1>1. ASSUME NEW t \in Threads, SendStep(t) PROVE DInv'
  BY <1>0, <1>1, SendKeeps, SendKeepsAcks, SendKeepsCount DEF DInv
<1>2. ASSUME NEW c \in Calls, CallStep(c) PROVE DInv'
  BY <1>0, <1>2, CallKeeps DEF DInv
<1>3. ASSUME NEW e \in Ends, ServeStep(e) PROVE DInv'
  BY <1>0, <1>3, ServeKeepsAnswers, ServeKeepsOrigin, ServeKeepsAcks, ServeKeepsCount DEF DInv
<1>4. ASSUME NEW e \in Ends, NEW i \in IDs, AckStep(e, i) PROVE DInv'
  BY <1>0, <1>4, AckKeeps DEF DInv
<1>5. CASE EnvStep \/ UNCHANGED vars
  BY <1>0, <1>5, EnvKeeps DEF DInv
<1> QED
  BY <1>1, <1>2, <1>3, <1>4, <1>5 DEF Next

\* What a response, an acknowledgement or a callback that returned is worth is kept
\* by every step of the two Messengers.
THEOREM DeliveryInvariance == Spec => []DInv
BY InitDInv, NextDInv, PTL DEF Spec

\* A Request that returned a response was answered by a callback of the peer, whatever
\* was retried, cancelled, lost or answered late: resolveResponse hands over nothing
\* but a response sent after the callback, under the ID of the request.
THEOREM ResponseTrue == Spec => []ResponseMeansHandled
<1>1. DInv => ResponseMeansHandled
  BY DEF DInv, Selected, Answered, Ran, PeerOf, ResponseMeansHandled
<1> QED
  BY <1>1, DeliveryInvariance, PTL

\* The peer's callback runs for a message no more often than SendStreamWithID may
\* attempt to send it, and once if the payload cannot be replayed.
THEOREM RunsWithinBudget == Spec => []RunsBounded
<1>1. ASSUME DInv PROVE RunsBounded
  <2> SUFFICES ASSUME NEW c \in Calls, UniqueID(c)
               PROVE  runs[Peer[CallEnd[c]]][CallID[c]] <= attempts(c)
    BY EndsAssumption DEF RunsBounded, attempts, shouldAwaitAcknowledge, EndOf
  <2>1. TypeOK /\ CountedOf(c) /\ c \in Threads
    BY <1>1 DEF DInv, IInv, Counted, CountedOf, Own, Threads
  <2>2. /\ Cardinality(Copies(c)) \in Nat /\ attempt[c] \in Nat /\ attempt[c] <= attempts(c)
        /\ runs[PeerOf(c)][CallID[c]] \in Nat /\ attempts(c) \in Nat
    BY <2>1, CountTypes, AttemptsPositive DEF TypeOK
  <2>3. runs[PeerOf(c)][CallID[c]] <= attempts(c)
    BY <2>1, <2>2 DEF CountedOf, One
  <2> QED
    BY <2>3 DEF PeerOf
<1> QED
  BY <1>1, DeliveryInvariance, PTL

\* The receivers of the messages sent with an M are not removed.
EventsReceived == \A c \in Calls : CallType[c] = "evt" => PeerOf(c) \notin Removable

\* A Send of an M that was acknowledged has run the peer's callback, as long as nobody
\* removes the receiver: sendAcknowledge is reached only after it returned nil, and
\* resolveAck tells only the goroutine that waits under that ID.
THEOREM AckTrue ==
    ASSUME EventsReceived
    PROVE  Spec => []AckMeansHandled
<1>1. DInv => AckMeansHandled
  BY DEF EventsReceived, DInv, Acknowledged, Vouched, Ran, PeerOf, AckMeansHandled, Own
<1> QED
  BY <1>1, DeliveryInvariance, PTL
-----------------------------------------------------------------------------
(* Messenger implements Channel.                                           *)

\* Neither what callers have been told nor how often callbacks ran changes.
Stutters ==
    \A c \in Own : Outcome(c)' = Outcome(c)
                   /\ runs'[PeerOf(c)][CallID[c]] = runs[PeerOf(c)][CallID[c]]

\* A step that changes no outcome and runs no callback is invisible to callers.
LEMMA StutterImplements ==
    ASSUME Stutters
    PROVE  UNCHANGED Abstract!channelVars
BY DEF Stutters, PeerOf, Abstract!channelVars

\* One call moves: its outcome changes as Channel allows.
Moves(c, from, to) == Outcome(c) = from /\ Outcome(c)' = to

\* A call that begins, fails or succeeds is a step of Channel.
LEMMA MoveImplements ==
    ASSUME NEW c \in Own, UNCHANGED runs, \A d \in Own : d # c => Outcome(d)' = Outcome(d),
           \/ Moves(c, "idle", "open") \/ Moves(c, "idle", "err") \/ Moves(c, "open", "err")
           \/ Moves(c, "open", "ok") /\
                (CallType[c] = "req" \/ (CallType[c] = "evt" /\ RequireAcknowledge[CallEnd[c]])
                    => Ran(c))
    PROVE  Abstract!Next
<1> DEFINE o == [d \in Own |-> Outcome(d)]
           n == [d \in Own |-> runs[Peer[CallEnd[d]]][CallID[d]]]
<1>1. n' = n
  OBVIOUS
<1>2. o' = [o EXCEPT ![c] = Outcome(c)'] /\ o[c] = Outcome(c)
  OBVIOUS
<1>3. Ran(c) => n[c] > 0
  BY DEF Ran, PeerOf
<1>4. CASE Moves(c, "idle", "open") \/ Moves(c, "idle", "err")
  <2>1. Abstract!Call(c)
    BY <1>1, <1>2, <1>4 DEF Moves, Abstract!Call, Abstract!Return
  <2> QED
    BY <2>1 DEF Abstract!Next
<1>5. CASE Moves(c, "open", "err")
  <2>1. Abstract!GiveUp(c)
    BY <1>1, <1>2, <1>5 DEF Moves, Abstract!GiveUp, Abstract!Return
  <2> QED
    BY <2>1 DEF Abstract!Next
<1>6. CASE Moves(c, "open", "ok")
  <2>1. Abstract!Succeed(c)
    BY <1>1, <1>2, <1>3, <1>6 DEF Moves, Abstract!Succeed, Abstract!Return
  <2> QED
    BY <2>1 DEF Abstract!Next
<1> QED
  BY <1>4, <1>5, <1>6

\* A send gives up, or succeeds with what Channel asks of it.
LEMMA SendImplements ==
    ASSUME EventsReceived, DInv, DInv', NEW t \in Threads, SendStep(t)
    PROVE  Abstract!Next \/ Stutters
<1>0. IInv
  BY DEF DInv
<1>h. Ends \cap Calls = {} /\ (t \in Ends \/ t \in Calls) /\ Own \subseteq Calls /\ Calls \subseteq Threads
  BY EndsAssumption DEF Threads, Own
<1>1. UNCHANGED runs /\ \A u \in Calls : u # t => Outcome(u)' = Outcome(u)
  BY <1>0, <1>h, SendEffects DEF Outcome
<1>2. CASE t \notin Own
  BY <1>1, <1>2, <1>h DEF Stutters
<1>3. CASE t \in Own
  <2>1. /\ Outcome(t) = "open" /\ t \in Calls /\ t \notin Ends
        /\ pc'[t] \in {"begin", "write", "awaitAck", AfterSend(t), "err"}
    BY <1>0, <1>3, <1>h, SendEffects DEF Outcome, AfterError
  <2>2. Outcome(t)' \in {"open", "ok", "err"}
    BY <2>1 DEF Outcome, AfterSend
  <2>3. CASE Outcome(t)' = "open"
    BY <1>1, <1>h, <2>1, <2>3 DEF Stutters
  <2>4. CASE Outcome(t)' = "err"
    BY <1>1, <1>3, <1>h, <2>1, <2>4, MoveImplements DEF Moves
  <2>5. CASE Outcome(t)' = "ok"
    <3>1. pc'[t] = "ok" /\ CallType[t] # "req"
      BY <2>1, <2>5 DEF Outcome, AfterSend
    <3>2. CallType[t] = "evt" /\ RequireAcknowledge[CallEnd[t]] => Ran(t)'
      BY <1>3, <2>1, <3>1 DEF EventsReceived, DInv, Acknowledged, Vouched
    <3>3. CallType[t] = "evt" /\ RequireAcknowledge[CallEnd[t]] => Ran(t)
      BY <1>1, <3>2 DEF Ran
    <3> QED
      BY <1>1, <1>3, <1>h, <2>1, <2>5, <3>1, <3>3, MoveImplements DEF Moves
  <2> QED
    BY <2>2, <2>3, <2>4, <2>5
<1> QED
  BY <1>2, <1>3

\* A request that ends with a response was handed one, so its callback ran.
LEMMA CallImplements ==
    ASSUME DInv, NEW c \in Calls, CallStep(c)
    PROVE  Abstract!Next \/ Stutters
<1> USE DEF sendVars, serveVars, envVars
<1>0. TypeOK /\ Answered /\ Selected /\ c \in Threads /\ Own \subseteq Calls /\ Calls \subseteq Threads
  BY DEF DInv, IInv, Threads, Own
<1>1. UNCHANGED runs /\ \A u \in Calls : u # c => Outcome(u)' = Outcome(u)
  BY <1>0 DEF CallStep, StartCall, StartSend, StartRequest, StartDuplicate, RespArrives, RespCancelled,
         BodyRead, Outcome, TypeOK
<1>2. CASE c \notin Own
  BY <1>0, <1>1, <1>2 DEF Stutters
<1>3. CASE c \in Own
  <2>1. CASE StartCall(c) \/ StartDuplicate(c)
    <3>1. Moves(c, "idle", "open") \/ Moves(c, "idle", "err")
      BY <1>0, <2>1 DEF StartCall, StartSend, StartRequest, StartDuplicate, Moves, Outcome, TypeOK
    <3> QED
      BY <1>0, <1>1, <1>3, <3>1, MoveImplements
  <2>2. CASE RespArrives(c)
    <3>1. Outcome(c)' = Outcome(c)
      BY <1>0, <2>2 DEF RespArrives, Outcome, TypeOK
    <3> QED
      BY <1>0, <1>1, <3>1 DEF Stutters
  <2>3. CASE RespCancelled(c) \/ BodyRead(c)
    <3>1. /\ Moves(c, "open", "err") \/ Moves(c, "open", "ok")
          /\ Moves(c, "open", "ok") => resp[c] # "none"
      BY <1>0, <2>3 DEF RespCancelled, BodyRead, Moves, Outcome, TypeOK
    <3>2. Moves(c, "open", "ok") => Ran(c)
      BY <1>0, <3>1 DEF Answered
    <3> QED
      BY <1>0, <1>1, <1>3, <3>1, <3>2, MoveImplements
  <2> QED
    BY <2>1, <2>2, <2>3 DEF CallStep
<1> QED
  BY <1>2, <1>3

\* A callback that returns is a run that Channel allows.
LEMMA ServeImplements ==
    ASSUME DInv, DInv', NEW e \in Ends, ServeStep(e)
    PROVE  Abstract!Next \/ Stutters
<1>0. IInv /\ TypeOK /\ Control /\ Counted /\ TypeOK' /\ Counted' /\ Own \subseteq Calls
  BY DEF DInv, IInv, Own
<1>1. \A c \in Own : Outcome(c)' = Outcome(c)
  BY <1>0, ServeEffects DEF Outcome
<1>2. CASE \A c \in Own : runs'[PeerOf(c)][CallID[c]] = runs[PeerOf(c)][CallID[c]]
  BY <1>1, <1>2 DEF Stutters
<1>3. ASSUME NEW c \in Own, runs'[PeerOf(c)][CallID[c]] # runs[PeerOf(c)][CallID[c]]
      PROVE  Abstract!Next
  <2>0. c \in Calls /\ c \in Threads /\ PeerOf(c) \in Ends /\ CallID[c] \in IDs
    BY <1>0, PeerOfPeer DEF Threads
  <2>1. /\ PeerOf(c) = e /\ pc[e] = "handler" /\ CallID[c] = frame[e].id
        /\ runs'[PeerOf(c)][CallID[c]] = runs[PeerOf(c)][CallID[c]] + 1
    BY <1>0, <1>3, <2>0, ServeRuns
  <2>2. \A d \in Own : d # c => runs'[PeerOf(d)][CallID[d]] = runs[PeerOf(d)][CallID[d]]
    <3> SUFFICES ASSUME NEW d \in Own, d # c
                 PROVE  runs'[PeerOf(d)][CallID[d]] = runs[PeerOf(d)][CallID[d]]
      OBVIOUS
    <3>1. d \in Calls /\ PeerOf(d) \in Ends /\ CallID[d] \in IDs /\ CallID[d] # CallID[c]
      BY <1>0, <2>0, PeerOfPeer DEF Own, UniqueID
    <3> QED
      BY <1>0, <2>1, <3>1, ServeRuns
  <2>3. /\ Cardinality(Copies(c)) \in Nat /\ attempt[c] \in Nat
        /\ runs[PeerOf(c)][CallID[c]] \in Nat /\ attempts(c) \in Nat /\ attempt[c] <= attempts(c)
        /\ CountedOf(c)
    BY <1>0, <2>0, CountTypes, AttemptsPositive DEF TypeOK, Counted, CountedOf
  <2>4. attempt[c] > 0 /\ runs[PeerOf(c)][CallID[c]] < attempts(c)
    BY <2>1, <2>3 DEF CountedOf, One
  <2>5. Outcome(c) # "idle"
    BY <1>0, <2>0, <2>4 DEF Control, Outcome
  <2>6. attempts(c) = IF RequireAcknowledge[CallEnd[c]] /\ c \in Replayable
                      THEN 1 + MaxRetries[CallEnd[c]] ELSE 1
    BY <2>0, EndsAssumption, ConfigAssumption, PeerOfPeer DEF attempts, shouldAwaitAcknowledge, EndOf
  <2> DEFINE o == [d \in Own |-> Outcome(d)]
             n == [d \in Own |-> runs[Peer[CallEnd[d]]][CallID[d]]]
  <2>7. o' = o /\ o[c] # "idle"
    BY <1>1, <2>5
  <2>8. n' = [n EXCEPT ![c] = @ + 1]
    BY <2>1, <2>2 DEF PeerOf
  <2>9. n[c] < attempts(c)
    BY <2>4 DEF PeerOf
  <2>10. Abstract!Serve(c)
    BY <2>6, <2>7, <2>8, <2>9 DEF Abstract!Serve
  <2> QED
    BY <2>10 DEF Abstract!Next
<1> QED
  BY <1>2, <1>3

\* Two Messengers and their Serve loops are a channel as callers see it, for any
\* retries, timeouts, cancellations, failures and any reuse of IDs by others, as long
\* as nobody removes the receiver of a message that is acknowledged.
THEOREM ChannelImplemented ==
    ASSUME EventsReceived
    PROVE  Spec => ImplementsChannel
<1>1. Init => Abstract!Init
  <2> SUFFICES ASSUME Init PROVE Abstract!Init
    OBVIOUS
  <2>1. \A c \in Own : Outcome(c) = "idle" /\ runs[Peer[CallEnd[c]]][CallID[c]] = 0
    BY EndsAssumption, PeerOfPeer DEF Init, Outcome, Own, Threads, PeerOf
  <2> QED
    BY <2>1 DEF Abstract!Init
<1>2. DInv /\ DInv' /\ [Next]_vars => [Abstract!Next]_(Abstract!channelVars)
  <2> SUFFICES ASSUME DInv, DInv', [Next]_vars
               PROVE  Abstract!Next \/ Stutters
    BY StutterImplements
  <2>1. ASSUME NEW t \in Threads, SendStep(t) PROVE Abstract!Next \/ Stutters
    BY <2>1, SendImplements
  <2>2. ASSUME NEW c \in Calls, CallStep(c) PROVE Abstract!Next \/ Stutters
    BY <2>2, CallImplements
  <2>3. ASSUME NEW e \in Ends, ServeStep(e) PROVE Abstract!Next \/ Stutters
    BY <2>3, ServeImplements
  <2>4. CASE (\E e \in Ends, i \in IDs : AckStep(e, i)) \/ EnvStep \/ UNCHANGED vars
    <3>1. UNCHANGED <<pc, runs>>
      BY <2>4 DEF AckStep, AckWrite, AckDropped, EnvStep, Cancel, CloseConn, RemoveReceiver, OnReceive,
                  vars
    <3> QED
      BY <3>1 DEF Stutters, Outcome
  <2> QED
    BY <2>1, <2>2, <2>3, <2>4 DEF Next
<1> QED
  BY <1>1, <1>2, DeliveryInvariance, PTL DEF Spec, ImplementsChannel, Abstract!Spec
=============================================================================
