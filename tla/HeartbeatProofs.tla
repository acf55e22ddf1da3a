---------------------------- MODULE HeartbeatProofs ----------------------------
(***************************************************************************)
(* For any number of Start calls at any ends, with any cancellations,       *)
(* timeouts, hangs and exits: started tells whether a loop runs, and only   *)
(* one does; and every ping that waits is under way exactly once, however   *)
(* pings, replies, acknowledgements and abandoned pings cross.              *)
(***************************************************************************)
EXTENDS Heartbeat, SequenceTheorems, TLAPS

\* The inductive invariant.
IInv ==
    /\ pc \in [Loops -> PCs]
    /\ started \in [Ends -> BOOLEAN]
    /\ SingleLoop

\* What becomes of the loops decides about SingleLoop.
LEMMA SameLoops ==
    ASSUME IInv, pc' \in [Loops -> PCs], started' = started,
           \A l \in Loops : pc'[l] \in Running <=> pc[l] \in Running
    PROVE  IInv'
<1>1. \A e \in Ends : RunningAt(e)' = RunningAt(e)
  BY DEF RunningAt
<1> QED
  BY <1>1 DEF IInv, SingleLoop

\* Start, which begins a loop only where none runs.
LEMMA StartKeeps ==
    ASSUME IInv, NEW l \in Loops, Start(l)
    PROVE  IInv'
<1> DEFINE e == LoopEnd[l]
<1> e \in Ends
  BY HeartbeatAssumption
<1>1. ~started[e] /\ pc' = [pc EXCEPT ![l] = "between"] /\ started' = [started EXCEPT ![e] = TRUE]
  BY DEF Start, Goto
<1>2. pc' \in [Loops -> PCs] /\ started' \in [Ends -> BOOLEAN] /\ started'[e] = TRUE
  BY <1>1 DEF IInv, PCs, Running
<1>3. RunningAt(e) = {}
  BY <1>1 DEF IInv, SingleLoop
<1>4. RunningAt(e)' = {l}
  BY <1>1, <1>3 DEF RunningAt, IInv, Running
<1>5. \A f \in Ends \ {e} : RunningAt(f)' = RunningAt(f) /\ started'[f] = started[f]
  BY <1>1 DEF RunningAt, IInv
<1> QED
  BY <1>2, <1>4, <1>5 DEF IInv, SingleLoop

\* The steps between the ends of a loop.
LEMMA TurnKeeps ==
    ASSUME IInv, NEW l \in Loops,
           \/ BeginPing(l) \/ SampleHealth(l) \/ WritePing(l) \/ WriteFails(l) \/ Answered(l)
           \/ AwaitExpired(l) \/ AwaitCancelled(l) \/ PingFailed(l)
           \/ WriteExpired(l) \/ WriteCancelled(l)
    PROVE  IInv'
<1>1. pc[l] \in Running /\ started' = started
  BY DEF BeginPing, SampleHealth, WritePing, WriteFails, Answered, AwaitExpired, AwaitCancelled,
         PingFailed, WriteExpired, WriteCancelled, Running
<1>2. \E x \in Running : pc' = [pc EXCEPT ![l] = x]
  BY DEF BeginPing, SampleHealth, WritePing, WriteFails, Answered, AwaitExpired, AwaitCancelled,
         PingFailed, WriteExpired, WriteCancelled, Goto, Running
<1>3. PICK x \in Running : pc' = [pc EXCEPT ![l] = x]
  BY <1>2
<1>4. pc' \in [Loops -> PCs]
  BY <1>3 DEF IInv, PCs
<1>5. \A m \in Loops : pc'[m] \in Running <=> pc[m] \in Running
  BY <1>1, <1>3 DEF IInv
<1> QED
  BY <1>1, <1>4, <1>5, SameLoops

\* stop ends the one loop of its end.
LEMMA stopKeeps ==
    ASSUME IInv, NEW l \in Loops, stop(l)
    PROVE  IInv'
<1> DEFINE e == LoopEnd[l]
<1> e \in Ends
  BY HeartbeatAssumption
<1>1. pc' = [pc EXCEPT ![l] = "done"] /\ started' = [started EXCEPT ![e] = FALSE]
  BY DEF stop, Goto
<1>2. pc' \in [Loops -> PCs] /\ started' \in [Ends -> BOOLEAN] /\ started'[e] = FALSE
  BY <1>1 DEF IInv, PCs
<1>3. RunningAt(e) \subseteq {l}
  <2>1. l \in RunningAt(e)
    BY DEF stop, RunningAt, Running
  <2> QED
    BY <2>1 DEF IInv, SingleLoop
<1>4. RunningAt(e)' = {}
  BY <1>1, <1>3 DEF RunningAt, IInv, Running
<1>5. \A f \in Ends \ {e} : RunningAt(f)' = RunningAt(f) /\ started'[f] = started[f]
  BY <1>1 DEF RunningAt, IInv
<1> QED
  BY <1>2, <1>4, <1>5 DEF IInv, SingleLoop

\* An end that stops takes all its loops with it.
LEMMA StopsKeeps ==
    ASSUME IInv, NEW e \in Ends, Stops(e)
    PROVE  IInv'
<1>1. /\ pc' = [l \in Loops |-> IF LoopEnd[l] = e THEN "gone" ELSE pc[l]]
      /\ started' = [started EXCEPT ![e] = FALSE]
  BY DEF Stops
<1>2. pc' \in [Loops -> PCs] /\ started' \in [Ends -> BOOLEAN] /\ started'[e] = FALSE
  BY <1>1 DEF IInv, PCs
<1>3. RunningAt(e)' = {}
  BY <1>1 DEF RunningAt, Running
<1>4. \A f \in Ends \ {e} : RunningAt(f)' = RunningAt(f) /\ started'[f] = started[f]
  BY <1>1 DEF RunningAt, IInv
<1> QED
  BY <1>2, <1>3, <1>4 DEF IInv, SingleLoop

\* Everything else leaves pc and started alone.
LEMMA OthersKeep ==
    ASSUME IInv, UNCHANGED <<pc, started>>
    PROVE  IInv'
BY SameLoops DEF IInv

\* Every step keeps the invariant.
LEMMA NextKeeps == IInv /\ [Next]_vars => IInv'
<1> SUFFICES ASSUME IInv, [Next]_vars PROVE IInv'
  OBVIOUS
<1>1. CASE UNCHANGED vars
  BY <1>1, OthersKeep DEF vars
<1>2. ASSUME NEW l \in Loops, Start(l) \/ Turn(l) \/ WriteExpired(l) \/ WriteCancelled(l)
      PROVE  IInv'
  BY <1>2, StartKeeps, TurnKeeps, stopKeeps DEF Turn
<1>3. ASSUME NEW l \in Loops, Cancel(l) PROVE IInv'
  BY <1>3, OthersKeep DEF Cancel
<1>4. ASSUME NEW e \in Ends, Serve(e) \/ sendAcknowledge(e) \/ OnHealth(e) PROVE IInv'
  BY <1>4, OthersKeep DEF Serve, handleRequest, WriteReply, resolveResponse, DropResponse, ReadAck,
                          ServeEnds, sendAcknowledge, WriteAck, AckFails, OnHealth
<1>5. ASSUME NEW e \in Ends, Hang(e) \/ Exit(e) PROVE IInv'
  BY <1>5, StopsKeeps DEF Hang, Exit
<1> QED
  BY <1>1, <1>2, <1>3, <1>4, <1>5 DEF Next

\* At every end at most one loop runs, and started says whether one does: Start
\* neither begins a second loop nor is refused without one.
THEOREM OneLoop == Spec => []SingleLoop
<1>1. Init => IInv
  BY DEF Init, IInv, SingleLoop, RunningAt, PCs, Running
<1>2. IInv => SingleLoop
  BY DEF IInv
<1> QED
  BY <1>1, <1>2, NextKeeps, PTL DEF Spec
-----------------------------------------------------------------------------
(* Pings and their frames.                                                 *)

\* What Serve has in hand fits what it does, and acknowledgements belong to no ping.
InHand ==
    /\ \A e \in Ends : serve[e] = "reading" => task[e] = None
    /\ \A e \in Ends :
           serve[e] \in {"replying", "handing"} => task[e] \in Frame /\ task[e].kind = "resp"
    /\ \A e \in Ends : \A i \in DOMAIN wire[e] : wire[e][i].kind = "ack" => wire[e][i].of = None

FrameTypes ==
    /\ pc \in [Loops -> PCs]
    /\ sampled \in [Loops -> Ends \cup {None}]
    /\ wire \in [Ends -> Seq(Frame)]
    /\ serve \in [Ends -> {"reading", "replying", "handing", "stuck", "gone"}]
    /\ task \in [Ends -> Frame \cup {None}]

\* The inductive invariant: types, and the three parts of PingAccounted for each ping.
Once(l) ==
    \A e, f \in Ends : \A i \in Frames(e), j \in Frames(f) :
        Carries(e, i, l) /\ Carries(f, j, l) => e = f /\ i = j
OnlyWaiting(l) == UnderWay(l) => pc[l] \in {"await", "gone"}
NeverLost(l)   == pc[l] = "await" /\ Healthy => UnderWay(l)

Accounted(l) == Once(l) /\ OnlyWaiting(l) /\ NeverLost(l)

PInv == FrameTypes /\ InHand /\ \A l \in Loops : Accounted(l)

\* A frame appended to what an end has written: one more frame, the others as before.
LEMMA AppendFrames ==
    ASSUME FrameTypes, NEW e \in Ends, NEW r \in Frame,
           wire' = [wire EXCEPT ![e] = Append(@, r)]
    PROVE  /\ wire' \in [Ends -> Seq(Frame)]
           /\ \A f \in Ends \ {e} : wire'[f] = wire[f]
           /\ \E n \in Nat : /\ DOMAIN wire[e] = 1..n /\ DOMAIN wire'[e] = 1..(n + 1)
                             /\ \A i \in 1..n : wire'[e][i] = wire[e][i]
                             /\ wire'[e][n + 1] = r
<1>1. PICK q \in Seq(Frame) : q = wire[e]
  BY DEF FrameTypes
<1>2. PICK n \in Nat : n = Len(q)
  OBVIOUS
<1>3. /\ Append(q, r) \in Seq(Frame) /\ Len(Append(q, r)) = n + 1
      /\ \A i \in 1..n : Append(q, r)[i] = q[i]
      /\ Append(q, r)[n + 1] = r
  BY <1>2
<1>4. DOMAIN q = 1..n /\ DOMAIN Append(q, r) = 1..(n + 1)
  BY <1>2, <1>3
<1>5. wire'[e] = Append(q, r) /\ wire' \in [Ends -> Seq(Frame)]
  BY <1>1, <1>3 DEF FrameTypes
<1> QED
  BY <1>1, <1>3, <1>4, <1>5 DEF FrameTypes

\* The first frame that an end has written is read: the others move up.
LEMMA TailFrames ==
    ASSUME FrameTypes, NEW p \in Ends, wire[p] # <<>>, wire' = [wire EXCEPT ![p] = Tail(@)]
    PROVE  /\ wire' \in [Ends -> Seq(Frame)]
           /\ \A f \in Ends \ {p} : wire'[f] = wire[f]
           /\ \E n \in Nat : /\ DOMAIN wire[p] = 1..(n + 1) /\ DOMAIN wire'[p] = 1..n
                             /\ \A i \in 1..n : wire'[p][i] = wire[p][i + 1]
                             /\ wire[p][1] = Head(wire[p]) /\ Head(wire[p]) \in Frame
<1>1. PICK q \in Seq(Frame) : q = wire[p]
  BY DEF FrameTypes
<1>2. PICK n \in Nat : Len(q) = n + 1
  <2>1. Len(q) \in Nat /\ Len(q) # 0
    BY <1>1
  <2> QED
    BY <2>1
<1>3. /\ Tail(q) \in Seq(Frame) /\ Len(Tail(q)) = n
      /\ \A i \in 1..n : Tail(q)[i] = q[i + 1]
      /\ q[1] = Head(q) /\ Head(q) \in Frame
  BY <1>1, <1>2
<1>4. DOMAIN q = 1..(n + 1) /\ DOMAIN Tail(q) = 1..n
  BY <1>2, <1>3
<1>5. wire'[p] = Tail(q) /\ wire' \in [Ends -> Seq(Frame)]
  BY <1>1, <1>3 DEF FrameTypes
<1> QED
  BY <1>1, <1>3, <1>4, <1>5 DEF FrameTypes

\* The frame that is read was there, and those that remain were, too.
LEMMA TailMembers ==
    ASSUME FrameTypes, NEW p \in Ends, wire[p] # <<>>, wire' = [wire EXCEPT ![p] = Tail(@)]
    PROVE  /\ 1 \in DOMAIN wire[p] /\ wire[p][1] = Head(wire[p])
           /\ \A f \in Ends : \A i \in DOMAIN wire'[f] : \E j \in DOMAIN wire[f] : wire'[f][i] = wire[f][j]
<1>1. PICK n \in Nat : /\ DOMAIN wire[p] = 1..(n + 1) /\ DOMAIN wire'[p] = 1..n
                       /\ \A i \in 1..n : wire'[p][i] = wire[p][i + 1]
                       /\ wire[p][1] = Head(wire[p])
  BY TailFrames
<1>2. \A f \in Ends \ {p} : wire'[f] = wire[f]
  BY TailFrames
<1>3. \A i \in DOMAIN wire'[p] : i + 1 \in DOMAIN wire[p] /\ wire'[p][i] = wire[p][i + 1]
  BY <1>1
<1>4. 1 \in DOMAIN wire[p]
  BY <1>1
<1> QED
  BY <1>1, <1>2, <1>3, <1>4

\* A ping that is abandoned changes whose the frames are, and nothing else about them.
LEMMA AbandonedFrames ==
    ASSUME FrameTypes, NEW l \in Loops
    PROVE  /\ Abandoned(l) \in [Ends -> Seq(Frame)]
           /\ \A e \in Ends :
                /\ DOMAIN Abandoned(l)[e] = DOMAIN wire[e]
                /\ \A i \in DOMAIN wire[e] :
                     /\ Abandoned(l)[e][i].of = IF wire[e][i].of = l THEN None ELSE wire[e][i].of
                     /\ Abandoned(l)[e][i].kind = wire[e][i].kind
<1>1. ASSUME NEW e \in Ends
      PROVE  /\ Abandoned(l)[e] \in Seq(Frame)
             /\ DOMAIN Abandoned(l)[e] = DOMAIN wire[e]
             /\ \A i \in DOMAIN wire[e] :
                  /\ Abandoned(l)[e][i].of = IF wire[e][i].of = l THEN None ELSE wire[e][i].of
                  /\ Abandoned(l)[e][i].kind = wire[e][i].kind
  <2>1. PICK q \in Seq(Frame) : q = wire[e]
    BY DEF FrameTypes
  <2>2. PICK n \in Nat : n = Len(q) /\ DOMAIN q = 1..n
    BY <2>1, LenProperties
  <2> DEFINE r == [i \in 1..n |-> IF q[i].of = l THEN [q[i] EXCEPT !.of = None] ELSE q[i]]
  <2>3. Abandoned(l)[e] = r
    BY <2>1, <2>2 DEF Abandoned
  <2>4. \A f \in Frame : /\ [f EXCEPT !.of = None] \in Frame
                         /\ [f EXCEPT !.of = None].of = None
                         /\ [f EXCEPT !.of = None].kind = f.kind
    BY DEF Frame
  <2>5. \A i \in 1..n : q[i] \in Frame
    BY <2>1, <2>2, ElementOfSeq
  <2>6. /\ r \in [1..n -> Frame]
        /\ \A i \in 1..n : /\ r[i].of = IF q[i].of = l THEN None ELSE q[i].of
                           /\ r[i].kind = q[i].kind
    BY <2>4, <2>5
  <2> HIDE DEF r
  <2>7. r \in Seq(Frame) /\ DOMAIN r = 1..n
    BY <2>2, <2>6, SeqDef
  <2> QED
    BY <2>1, <2>2, <2>3, <2>6, <2>7
<1>2. Abandoned(l) = [e \in Ends |-> Abandoned(l)[e]]
  BY DEF Abandoned
<1> QED
  BY <1>1, <1>2

\* A step that leaves the frames alone and neither begins nor ends a wait.
LEMMA SameFrames ==
    ASSUME NEW m \in Loops, Accounted(m), UNCHANGED <<wire, task>>, Healthy' => Healthy,
           pc'[m] = pc[m] \/ (pc[m] \notin {"await", "gone"} /\ pc'[m] # "await")
    PROVE  Accounted(m)'
<1>1. \A e \in Ends : Frames(e)' = Frames(e) /\ \A i : Carries(e, i, m)' <=> Carries(e, i, m)
  BY DEF Frames, Carries
<1>2. UnderWay(m)' <=> UnderWay(m)
  BY <1>1 DEF UnderWay
<1> QED
  BY <1>1, <1>2 DEF Accounted, Once, OnlyWaiting, NeverLost

\* The wait of l ends, and with it whatever is under way for it.
LEMMA RemovedFrames ==
    ASSUME NEW m \in Loops, Accounted(m), NEW l \in Loops, Healthy' => Healthy,
           \A e \in Ends : Frames(e)' = Frames(e),
           \A e \in Ends : \A i \in Frames(e) : Carries(e, i, m)' <=> Carries(e, i, m) /\ m # l,
           pc'[l] # "await", m # l => pc'[m] = pc[m]
    PROVE  Accounted(m)'
<1>1. UnderWay(m)' <=> UnderWay(m) /\ m # l
  BY DEF UnderWay
<1> QED
  BY <1>1 DEF Accounted, Once, OnlyWaiting, NeverLost

\* An end has died with the frame it had in hand.
LEMMA LostFrames ==
    ASSUME NEW m \in Loops, Accounted(m), ~Healthy',
           \A e \in Ends : Frames(e)' = Frames(e),
           \A e \in Ends : \A i \in Frames(e) : Carries(e, i, m)' => Carries(e, i, m),
           pc'[m] = pc[m] \/ pc'[m] = "gone"
    PROVE  Accounted(m)'
<1>1. UnderWay(m)' => UnderWay(m)
  BY DEF UnderWay
<1> QED
  BY <1>1 DEF Accounted, Once, OnlyWaiting, NeverLost

\* A frame that belongs to no waiting ping is appended, or the request of l, which has
\* nothing under way yet.
LEMMA NewFrame ==
    ASSUME FrameTypes, NEW m \in Loops, Accounted(m), NEW e \in Ends, NEW r \in Frame,
           wire' = [wire EXCEPT ![e] = Append(@, r)], UNCHANGED task, Healthy' => Healthy,
           r.of # m => pc'[m] = pc[m],
           r.of = m => ~UnderWay(m) /\ pc'[m] = "await"
    PROVE  Accounted(m)'
<1>1. PICK n \in Nat : /\ DOMAIN wire[e] = 1..n /\ DOMAIN wire'[e] = 1..(n + 1)
                       /\ \A i \in 1..n : wire'[e][i] = wire[e][i]
                       /\ wire'[e][n + 1] = r
  BY AppendFrames
<1>2. \A f \in Ends \ {e} : wire'[f] = wire[f]
  BY AppendFrames
<1>3. \A f \in Ends : \A i \in Frames(f) :
          i \in Frames(f)' /\ (Carries(f, i, m)' <=> Carries(f, i, m))
  BY <1>1, <1>2 DEF Frames, Carries
<1>4. n + 1 \in Frames(e)' /\ (Carries(e, n + 1, m)' <=> r.of = m)
  BY <1>1 DEF Frames, Carries
<1>5. \A f \in Ends : \A i \in Frames(f)' : i \in Frames(f) \/ (f = e /\ i = n + 1)
  BY <1>1, <1>2 DEF Frames
<1>6. CASE r.of = m
  <2>1. \A f \in Ends : \A i \in Frames(f)' : Carries(f, i, m)' => f = e /\ i = n + 1
    BY <1>3, <1>5, <1>6 DEF UnderWay
  <2>2. Once(m)'
    BY <2>1 DEF Once
  <2> QED
    BY <1>4, <1>6, <2>2 DEF Accounted, OnlyWaiting, NeverLost, UnderWay
<1>7. CASE r.of # m
  <2>1. \A f \in Ends : \A i \in Frames(f)' : Carries(f, i, m)' => i \in Frames(f) /\ Carries(f, i, m)
    BY <1>3, <1>4, <1>5, <1>7
  <2>2. Once(m)'
    BY <2>1 DEF Once, Accounted
  <2>3. UnderWay(m)' <=> UnderWay(m)
    BY <1>3, <2>1 DEF UnderWay
  <2> QED
    BY <1>7, <2>2, <2>3 DEF Accounted, OnlyWaiting, NeverLost
<1> QED
  BY <1>6, <1>7

\* The reply that Serve has in hand is appended.
LEMMA WrittenFrame ==
    ASSUME FrameTypes, NEW m \in Loops, Accounted(m), NEW e \in Ends, task[e] \in Frame,
           wire' = [wire EXCEPT ![e] = Append(@, task[e])], task' = [task EXCEPT ![e] = None],
           Healthy' => Healthy, pc' = pc
    PROVE  Accounted(m)'
<1>1. PICK n \in Nat : /\ DOMAIN wire[e] = 1..n /\ DOMAIN wire'[e] = 1..(n + 1)
                       /\ \A i \in 1..n : wire'[e][i] = wire[e][i]
                       /\ wire'[e][n + 1] = task[e]
  BY AppendFrames
<1>2. \A f \in Ends \ {e} : wire'[f] = wire[f] /\ task'[f] = task[f]
  BY AppendFrames DEF FrameTypes
<1>3. task'[e] = None /\ task[e] # None
  BY NoneAssumption DEF FrameTypes
<1>4. \A f \in Ends : \A i \in Frames(f) :
          f # e \/ i # 0 => i \in Frames(f)' /\ (Carries(f, i, m)' <=> Carries(f, i, m))
  BY <1>1, <1>2 DEF Frames, Carries
<1>5. n + 1 \in Frames(e)' /\ 0 \in Frames(e) /\ ~Carries(e, 0, m)'
      /\ (Carries(e, n + 1, m)' <=> Carries(e, 0, m))
  BY <1>1, <1>3 DEF Frames, Carries
<1>6. \A f \in Ends : \A i \in Frames(f)' : i \in Frames(f) \/ (f = e /\ i = n + 1)
  BY <1>1, <1>2 DEF Frames
<1>7. Once(m)'
  BY <1>4, <1>5, <1>6 DEF Once, Accounted
<1>8. UnderWay(m)' <=> UnderWay(m)
  BY <1>4, <1>5, <1>6 DEF UnderWay
<1> QED
  BY <1>7, <1>8 DEF Accounted, OnlyWaiting, NeverLost

\* A frame is read and turned into what Serve has in hand.
LEMMA TakenFrame ==
    ASSUME FrameTypes, NEW m \in Loops, Accounted(m), NEW e \in Ends, NEW p \in Ends, p # e,
           wire[p] # <<>>, wire' = [wire EXCEPT ![p] = Tail(@)],
           NEW r \in Frame, r.of = Head(wire[p]).of, task[e] = None, task' = [task EXCEPT ![e] = r],
           Healthy' => Healthy, pc' = pc
    PROVE  Accounted(m)'
<1>1. PICK n \in Nat : /\ DOMAIN wire[p] = 1..(n + 1) /\ DOMAIN wire'[p] = 1..n
                       /\ \A i \in 1..n : wire'[p][i] = wire[p][i + 1]
                       /\ wire[p][1] = Head(wire[p])
  BY TailFrames
<1>2. \A f \in Ends \ {p} : wire'[f] = wire[f]
  BY TailFrames
<1>3. task'[e] = r /\ r # None /\ \A f \in Ends \ {e} : task'[f] = task[f]
  BY NoneAssumption DEF FrameTypes
<1>4. \A f \in Ends \ {p} : Frames(f)' = Frames(f)
  BY <1>2 DEF Frames
<1>5. \A f \in Ends \ {p} : \A i \in Frames(f) \ {0} : Carries(f, i, m)' <=> Carries(f, i, m)
  BY <1>2 DEF Carries
<1>6. \A f \in Ends \ {e} : Carries(f, 0, m)' <=> Carries(f, 0, m)
  BY <1>3 DEF Carries
<1>7. /\ Frames(p)' = 0..n /\ Frames(p) = 0..(n + 1)
      /\ \A i \in 1..n : Carries(p, i, m)' <=> Carries(p, i + 1, m)
  BY <1>1 DEF Frames, Carries
<1>8. 0 \in Frames(e) /\ 0 \in Frames(e)' /\ ~Carries(e, 0, m)
      /\ (Carries(e, 0, m)' <=> Carries(p, 1, m))
  BY <1>1, <1>3 DEF Frames, Carries
<1>9. ASSUME NEW f \in Ends, NEW i \in Frames(f)', Carries(f, i, m)'
      PROVE  \/ f = e /\ i = 0 /\ 1 \in Frames(p) /\ Carries(p, 1, m)
             \/ f = p /\ i \in 1..n /\ i + 1 \in Frames(p) /\ Carries(p, i + 1, m)
             \/ (f # e \/ i # 0) /\ (f # p \/ i = 0) /\ i \in Frames(f) /\ Carries(f, i, m)
  BY <1>4, <1>5, <1>6, <1>7, <1>8, <1>9
<1>10. Once(m)'
  <2> SUFFICES ASSUME NEW f \in Ends, NEW i \in Frames(f)', Carries(f, i, m)',
                      NEW g \in Ends, NEW j \in Frames(g)', Carries(g, j, m)'
               PROVE  f = g /\ i = j
    BY DEF Once
  <2>1. \A a, b \in Ends : \A x \in Frames(a), y \in Frames(b) :
            Carries(a, x, m) /\ Carries(b, y, m) => a = b /\ x = y
    BY DEF Accounted, Once
  <2>2. CASE f = e /\ i = 0 /\ 1 \in Frames(p) /\ Carries(p, 1, m)
    BY <1>9, <2>1, <2>2
  <2>3. CASE f = p /\ i \in 1..n /\ i + 1 \in Frames(p) /\ Carries(p, i + 1, m)
    BY <1>9, <2>1, <2>3
  <2>4. CASE (f # e \/ i # 0) /\ (f # p \/ i = 0) /\ i \in Frames(f) /\ Carries(f, i, m)
    BY <1>9, <2>1, <2>4
  <2> QED
    BY <1>9, <2>2, <2>3, <2>4
<1>11. UnderWay(m)' => UnderWay(m)
  BY <1>9 DEF UnderWay
<1>12. UnderWay(m) => UnderWay(m)'
  <2> SUFFICES ASSUME NEW f \in Ends, NEW i \in Frames(f), Carries(f, i, m) PROVE UnderWay(m)'
    BY DEF UnderWay
  <2>1. CASE f = p /\ i = 1
    BY <1>8, <2>1 DEF UnderWay
  <2>2. CASE f = p /\ i \notin {0, 1}
    <3>1. i - 1 \in 1..n /\ (i - 1) + 1 = i
      BY <1>7, <2>2
    <3>2. i - 1 \in Frames(p)' /\ Carries(p, i - 1, m)'
      BY <1>7, <2>2, <3>1
    <3> QED
      BY <3>2 DEF UnderWay
  <2>3. CASE f = p /\ i = 0
    BY <1>6, <1>7, <2>3 DEF UnderWay
  <2>4. CASE f # p
    BY <1>4, <1>5, <1>6, <1>8, <2>4 DEF UnderWay
  <2> QED
    BY <2>1, <2>2, <2>3, <2>4
<1> QED
  BY <1>10, <1>11, <1>12 DEF Accounted, OnlyWaiting, NeverLost

\* A frame that belongs to no ping is read and skipped.
LEMMA SkippedFrame ==
    ASSUME FrameTypes, NEW m \in Loops, Accounted(m), NEW p \in Ends,
           wire[p] # <<>>, wire' = [wire EXCEPT ![p] = Tail(@)], Head(wire[p]).of # m,
           UNCHANGED task, Healthy' => Healthy, pc' = pc
    PROVE  Accounted(m)'
<1>1. PICK n \in Nat : /\ DOMAIN wire[p] = 1..(n + 1) /\ DOMAIN wire'[p] = 1..n
                       /\ \A i \in 1..n : wire'[p][i] = wire[p][i + 1]
                       /\ wire[p][1] = Head(wire[p])
  BY TailFrames
<1>2. \A f \in Ends \ {p} : wire'[f] = wire[f]
  BY TailFrames
<1>3. \A f \in Ends \ {p} : Frames(f)' = Frames(f)
                            /\ \A i \in Frames(f) : Carries(f, i, m)' <=> Carries(f, i, m)
  BY <1>2 DEF Frames, Carries
<1>4. /\ Frames(p)' = 0..n /\ Frames(p) = 0..(n + 1) /\ ~Carries(p, 1, m)
      /\ (Carries(p, 0, m)' <=> Carries(p, 0, m))
      /\ \A i \in 1..n : Carries(p, i, m)' <=> Carries(p, i + 1, m)
  BY <1>1 DEF Frames, Carries
<1>5. Once(m)'
  BY <1>3, <1>4 DEF Accounted, Once
<1>6. UnderWay(m)' => UnderWay(m)
  BY <1>3, <1>4 DEF UnderWay
<1>7. UnderWay(m) => UnderWay(m)'
  <2> SUFFICES ASSUME NEW f \in Ends, NEW i \in Frames(f), Carries(f, i, m) PROVE UnderWay(m)'
    BY DEF UnderWay
  <2>1. CASE f = p /\ i # 0
    <3>1. i - 1 \in 1..n /\ (i - 1) + 1 = i
      BY <1>4, <2>1
    <3>2. i - 1 \in Frames(p)' /\ Carries(p, i - 1, m)'
      BY <1>4, <2>1, <3>1
    <3> QED
      BY <3>2 DEF UnderWay
  <2>2. CASE f # p \/ i = 0
    BY <1>3, <1>4, <2>2 DEF UnderWay
  <2> QED
    BY <2>1, <2>2
<1> QED
  BY <1>5, <1>6, <1>7 DEF Accounted, OnlyWaiting, NeverLost

-----------------------------------------------------------------------------
(* The steps, one by one.                                                  *)

\* Nothing heals an end or the connection.
LEMMA StaysBroken ==
    ASSUME FrameTypes, \A e \in Ends : serve[e] \in {"stuck", "gone"} => serve'[e] \in {"stuck", "gone"},
           closed => closed'
    PROVE  Healthy' => Healthy
BY DEF Healthy

\* Steps of a loop outside its wait.
LEMMA LoopAccounted ==
    ASSUME PInv, NEW l \in Loops,
           \/ Start(l) \/ BeginPing(l) \/ SampleHealth(l) \/ WriteFails(l) \/ PingFailed(l)
           \/ stop(l) \/ WriteExpired(l) \/ WriteCancelled(l) \/ Cancel(l)
    PROVE  PInv'
<1> USE DEF serveVars, environment
<1>1. UNCHANGED <<wire, serve, task, closed>>
  BY DEF Start, BeginPing, SampleHealth, WriteFails, PingFailed, stop, WriteExpired, WriteCancelled,
         Cancel
<1>2. \/ UNCHANGED pc
      \/ /\ pc[l] \notin {"await", "gone"}
         /\ \E x \in PCs \ {"await"} : pc' = [pc EXCEPT ![l] = x]
  BY DEF Start, BeginPing, SampleHealth, WriteFails, PingFailed, stop, WriteExpired, WriteCancelled,
         Cancel, Goto, PCs, Running
<1>3. sampled' \in [Loops -> Ends \cup {None}]
  <2>1. sampled' = sampled \/ \E x \in Ends \cup {None} : sampled' = [sampled EXCEPT ![l] = x]
    <3>1. CASE SampleHealth(l)
      BY <3>1, HeartbeatAssumption DEF SampleHealth, snapshotHealth
    <3>2. CASE WriteFails(l) \/ WriteExpired(l) \/ WriteCancelled(l)
      BY <3>2 DEF WriteFails, WriteExpired, WriteCancelled, Forget
    <3>3. CASE Start(l) \/ BeginPing(l) \/ PingFailed(l) \/ stop(l) \/ Cancel(l)
      BY <3>3 DEF Start, BeginPing, PingFailed, stop, Cancel
    <3> QED
      BY <3>1, <3>2, <3>3
  <2> QED
    BY <2>1 DEF PInv, FrameTypes
<1>4. FrameTypes' /\ InHand'
  BY <1>1, <1>2, <1>3 DEF PInv, FrameTypes, InHand
<1>5. Healthy' => Healthy
  BY <1>1 DEF Healthy
<1>6. ASSUME NEW m \in Loops PROVE Accounted(m)'
  <2>1. pc'[m] = pc[m] \/ (pc[m] \notin {"await", "gone"} /\ pc'[m] # "await")
    BY <1>2 DEF PInv, FrameTypes
  <2> QED
    BY <1>1, <1>5, <2>1, SameFrames DEF PInv
<1> QED
  BY <1>4, <1>6 DEF PInv

\* The ping is written.
LEMMA WritePingAccounted ==
    ASSUME PInv, NEW l \in Loops, WritePing(l)
    PROVE  PInv'
<1> USE DEF serveVars, environment
<1>1. PICK e \in Ends : e = LoopEnd[l]
  BY HeartbeatAssumption
<1>2. PICK r : r = [kind |-> "req", of |-> l, health |-> sampled[l]]
  OBVIOUS
<1>3. r \in Frame /\ r.of = l /\ r.kind = "req"
  BY <1>2 DEF Frame, PInv, FrameTypes
<1>4. /\ wire' = [wire EXCEPT ![e] = Append(@, r)] /\ pc[l] = "write"
      /\ pc' = [pc EXCEPT ![l] = "await"] /\ sampled' = [sampled EXCEPT ![l] = None]
      /\ UNCHANGED <<serve, task, closed>>
  BY <1>1, <1>2 DEF WritePing, Goto, Forget
<1>5. FrameTypes'
  <2>1. wire' \in [Ends -> Seq(Frame)]
    BY <1>3, <1>4, AppendFrames DEF PInv
  <2> QED
    BY <1>4, <2>1 DEF PInv, FrameTypes, PCs, Running
<1>6. InHand'
  <2>1. \A f \in Ends : \A i \in DOMAIN wire'[f] :
            wire'[f][i] = r \/ (i \in DOMAIN wire[f] /\ wire'[f][i] = wire[f][i])
    BY <1>3, <1>4, AppendFrames DEF PInv
  <2> QED
    BY <1>3, <1>4, <2>1 DEF PInv, InHand
<1>7. Healthy' => Healthy
  BY <1>4 DEF Healthy
<1>8. ASSUME NEW m \in Loops PROVE Accounted(m)'
  <2>1. r.of # m => pc'[m] = pc[m]
    BY <1>3, <1>4 DEF PInv, FrameTypes
  <2>2. r.of = m => ~UnderWay(m) /\ pc'[m] = "await"
    BY <1>3, <1>4 DEF PInv, FrameTypes, Accounted, OnlyWaiting
  <2> QED
    BY <1>3, <1>4, <1>7, <2>1, <2>2, NewFrame DEF PInv
<1> QED
  BY <1>5, <1>6, <1>8 DEF PInv

\* The wait ends with the response, which was the only frame of the ping.
LEMMA AnsweredAccounted ==
    ASSUME PInv, NEW l \in Loops, Answered(l)
    PROVE  PInv'
<1> USE DEF environment
<1>1. PICK e \in Ends : e = LoopEnd[l]
  BY HeartbeatAssumption
<1>2. /\ serve[e] = "handing" /\ task[e].of = l /\ pc' = [pc EXCEPT ![l] = "between"]
      /\ serve' = [serve EXCEPT ![e] = "reading"] /\ task' = [task EXCEPT ![e] = None]
      /\ UNCHANGED <<wire, sampled, closed>>
  BY <1>1 DEF Answered, HandedOver, Goto
<1>3. FrameTypes' /\ InHand'
  BY <1>2 DEF PInv, FrameTypes, InHand, PCs, Running
<1>4. Healthy' => Healthy
  BY <1>2, StaysBroken DEF PInv, FrameTypes
<1>5. ASSUME NEW m \in Loops PROVE Accounted(m)'
  <2>1. \A f \in Ends : Frames(f)' = Frames(f)
    BY <1>2 DEF Frames
  <2>2. task[e] # None /\ 0 \in Frames(e) /\ (Carries(e, 0, m) <=> m = l) /\ ~Carries(e, 0, m)'
    BY <1>2, NoneAssumption DEF PInv, FrameTypes, InHand, Frames, Carries
  <2>3. \A f \in Ends : \A i \in Frames(f) : f # e \/ i # 0 => (Carries(f, i, m)' <=> Carries(f, i, m))
    BY <1>2 DEF PInv, FrameTypes, Carries
  <2>4. m = l => \A f \in Ends : \A i \in Frames(f) : Carries(f, i, m) => f = e /\ i = 0
    BY <2>2 DEF PInv, Accounted, Once
  <2>5. \A f \in Ends : \A i \in Frames(f) : Carries(f, i, m)' <=> Carries(f, i, m) /\ m # l
    BY <2>2, <2>3, <2>4
  <2>6. pc'[l] # "await" /\ (m # l => pc'[m] = pc[m])
    BY <1>2 DEF PInv, FrameTypes
  <2> QED
    BY <1>4, <2>1, <2>5, <2>6, RemovedFrames DEF PInv
<1> QED
  BY <1>3, <1>5 DEF PInv

\* The wait ends without the response: whatever is under way belongs to nobody.
LEMMA AbandonAccounted ==
    ASSUME PInv, NEW l \in Loops, AwaitExpired(l) \/ AwaitCancelled(l)
    PROVE  PInv'
<1> USE DEF environment
<1>1. PICK e \in Ends : e = LoopEnd[l]
  BY HeartbeatAssumption
<1>2. /\ Abandon(l) /\ UNCHANGED <<sampled, closed>>
      /\ \E x \in {"between", "failed"} : pc' = [pc EXCEPT ![l] = x]
  BY DEF AwaitExpired, AwaitCancelled, Goto
<1>3. /\ wire' = Abandoned(l)
      /\ serve' = serve \/ serve' = [serve EXCEPT ![e] = "stuck"]
      /\ task' = [f \in Ends |-> IF task[f] = None \/ task[f].of # l
                                 THEN task[f] ELSE [task[f] EXCEPT !.of = None]]
  BY <1>1, <1>2 DEF Abandon
<1>4. \A f \in Ends : task[f] # None => /\ task[f] \in Frame
                                        /\ [task[f] EXCEPT !.of = None] \in Frame
                                        /\ [task[f] EXCEPT !.of = None].of = None
                                        /\ [task[f] EXCEPT !.of = None].kind = task[f].kind
  BY DEF PInv, FrameTypes, Frame
<1>5. \A f \in Ends :
        /\ task[f] = None => task'[f] = None
        /\ task[f] # None => /\ task'[f] \in Frame /\ task'[f].kind = task[f].kind
                             /\ task'[f].of = IF task[f].of = l THEN None ELSE task[f].of
  BY <1>3, <1>4
<1>6. FrameTypes'
  <2>1. wire' \in [Ends -> Seq(Frame)]
    BY <1>3, AbandonedFrames DEF PInv
  <2>2. task' \in [Ends -> Frame \cup {None}]
    BY <1>3, <1>5
  <2>3. serve' \in [Ends -> {"reading", "replying", "handing", "stuck", "gone"}]
    BY <1>3 DEF PInv, FrameTypes
  <2>4. pc' \in [Loops -> PCs]
    BY <1>2 DEF PInv, FrameTypes, PCs, Running
  <2> QED
    BY <1>2, <2>1, <2>2, <2>3, <2>4 DEF PInv, FrameTypes
<1>7. InHand'
  <2>1. \A f \in Ends : serve'[f] # "stuck" => serve'[f] = serve[f]
    BY <1>3 DEF PInv, FrameTypes
  <2>2. \A f \in Ends : DOMAIN wire'[f] = DOMAIN wire[f]
    BY <1>3, AbandonedFrames DEF PInv
  <2>3. \A f \in Ends : \A i \in DOMAIN wire[f] :
            /\ wire'[f][i].of = IF wire[f][i].of = l THEN None ELSE wire[f][i].of
            /\ wire'[f][i].kind = wire[f][i].kind
    BY <1>3, AbandonedFrames DEF PInv
  <2>4. \A f \in Ends : serve'[f] = "reading" => task'[f] = None
    BY <1>5, <2>1 DEF PInv, InHand
  <2>5. \A f \in Ends : serve'[f] \in {"replying", "handing"} => task'[f] \in Frame /\ task'[f].kind = "resp"
    BY <1>5, <2>1, NoneAssumption DEF PInv, InHand
  <2> QED
    BY <2>2, <2>3, <2>4, <2>5 DEF PInv, InHand
<1>8. Healthy' => Healthy
  <2>1. \A f \in Ends : serve[f] \in {"stuck", "gone"} => serve'[f] \in {"stuck", "gone"}
    BY <1>3 DEF PInv, FrameTypes
  <2> QED
    BY <1>2, <2>1, StaysBroken DEF PInv
<1>9. ASSUME NEW m \in Loops PROVE Accounted(m)'
  <2>1. \A f \in Ends : DOMAIN wire'[f] = DOMAIN wire[f] /\ Frames(f)' = Frames(f)
    BY <1>3, AbandonedFrames DEF PInv, Frames
  <2>2. m # None
    BY HeartbeatAssumption
  <2>3. \A f \in Ends : Carries(f, 0, m)' <=> Carries(f, 0, m) /\ m # l
    BY <1>5, <2>2, NoneAssumption DEF Carries
  <2>4. \A f \in Ends : \A i \in DOMAIN wire[f] :
            wire'[f][i].of = IF wire[f][i].of = l THEN None ELSE wire[f][i].of
    BY <1>3, AbandonedFrames DEF PInv
  <2>5. \A f \in Ends : \A i \in DOMAIN wire[f] : i # 0 => (Carries(f, i, m)' <=> Carries(f, i, m) /\ m # l)
    BY <2>2, <2>4 DEF Carries
  <2>6. \A f \in Ends : \A i \in Frames(f) : Carries(f, i, m)' <=> Carries(f, i, m) /\ m # l
    BY <2>3, <2>5 DEF Frames
  <2>7. pc'[l] # "await" /\ (m # l => pc'[m] = pc[m])
    BY <1>2 DEF PInv, FrameTypes
  <2> QED
    BY <1>8, <2>1, <2>6, <2>7, RemovedFrames DEF PInv
<1> QED
  BY <1>6, <1>7, <1>9 DEF PInv

\* Serve reads a ping and prepares the reply, or hands a response over.
LEMMA TakeAccounted ==
    ASSUME PInv, NEW e \in Ends, handleRequest(e) \/ resolveResponse(e)
    PROVE  PInv'
<1> USE DEF environment
<1>1. PICK p \in Ends : p = Peer[e] /\ p # e
  BY HeartbeatAssumption
<1>2. PICK h : h = Head(wire[p])
  OBVIOUS
<1>3. /\ serve[e] = "reading" /\ wire[p] # <<>> /\ h.kind \in {"req", "resp"}
      /\ wire' = [wire EXCEPT ![p] = Tail(@)]
  BY <1>1, <1>2 DEF handleRequest, resolveResponse, Reads
<1>4. h \in Frame
  BY <1>2, <1>3, TailFrames DEF PInv
<1>5. PICK r \in Frame : /\ r.of = h.of /\ r.kind = "resp" /\ task' = [task EXCEPT ![e] = r]
  <2>1. CASE handleRequest(e)
    <3>1. snapshotHealth(e) \in Ends \cup {None}
      BY DEF snapshotHealth
    <3>2. PICK r : r = [kind |-> "resp", of |-> h.of, health |-> snapshotHealth(e)]
      OBVIOUS
    <3>3. r \in Frame /\ r.of = h.of /\ r.kind = "resp"
      BY <1>4, <3>1, <3>2 DEF Frame
    <3> QED
      BY <1>1, <1>2, <2>1, <3>2, <3>3 DEF handleRequest
  <2>2. CASE resolveResponse(e)
    BY <1>1, <1>2, <1>4, <2>2 DEF resolveResponse, Reads
  <2> QED
    BY <2>1, <2>2
<1>6. /\ UNCHANGED <<pc, sampled, closed>>
      /\ serve' = [serve EXCEPT ![e] = "replying"] \/ serve' = [serve EXCEPT ![e] = "handing"]
  BY DEF handleRequest, resolveResponse
<1>7. wire' \in [Ends -> Seq(Frame)]
  BY <1>3, TailFrames DEF PInv
<1>8. FrameTypes'
  BY <1>5, <1>6, <1>7 DEF PInv, FrameTypes
<1>9. InHand'
  <2>1. \A f \in Ends : \A i \in DOMAIN wire'[f] : \E j \in DOMAIN wire[f] : wire'[f][i] = wire[f][j]
    BY <1>3, TailMembers DEF PInv
  <2>2. \A f \in Ends : \A i \in DOMAIN wire'[f] : wire'[f][i].kind = "ack" => wire'[f][i].of = None
    BY <2>1 DEF PInv, InHand
  <2> QED
    BY <1>5, <1>6, <2>2 DEF PInv, FrameTypes, InHand
<1>10. Healthy' => Healthy
  BY <1>3, <1>6, StaysBroken DEF PInv, FrameTypes
<1>11. task[e] = None
  BY <1>3 DEF PInv, InHand
<1> QED
  BY <1>1, <1>2, <1>3, <1>5, <1>6, <1>8, <1>9, <1>10, <1>11, TakenFrame DEF PInv

\* Serve reads a frame that belongs to no ping.
LEMMA SkipAccounted ==
    ASSUME PInv, NEW e \in Ends, DropResponse(e) \/ ReadAck(e)
    PROVE  PInv'
<1> USE DEF environment, serveVars
<1>1. PICK p \in Ends : p = Peer[e]
  BY HeartbeatAssumption
<1>2. /\ wire[p] # <<>> /\ wire' = [wire EXCEPT ![p] = Tail(@)]
      /\ Head(wire[p]).kind = "ack" \/ Head(wire[p]).of = None
      /\ UNCHANGED <<pc, sampled, serve, task, closed>>
  BY <1>1 DEF DropResponse, ReadAck, Reads
<1>3. Head(wire[p]).of = None
  <2>1. 1 \in DOMAIN wire[p] /\ wire[p][1] = Head(wire[p])
    BY <1>2, TailMembers DEF PInv
  <2> QED
    BY <1>2, <2>1 DEF PInv, InHand
<1>4. wire' \in [Ends -> Seq(Frame)]
  BY <1>2, TailFrames DEF PInv
<1>5. FrameTypes'
  BY <1>2, <1>4 DEF PInv, FrameTypes
<1>6. InHand'
  <2>1. \A f \in Ends : \A i \in DOMAIN wire'[f] : \E j \in DOMAIN wire[f] : wire'[f][i] = wire[f][j]
    BY <1>2, TailMembers DEF PInv
  <2> QED
    BY <1>2, <2>1 DEF PInv, InHand
<1>7. Healthy' => Healthy
  BY <1>2 DEF Healthy
<1>8. \A m \in Loops : m # None
  BY HeartbeatAssumption
<1> QED
  BY <1>2, <1>3, <1>5, <1>6, <1>7, <1>8, SkippedFrame DEF PInv

\* Serve writes the reply, or the goroutine of an acknowledgement that.
LEMMA WriteAccounted ==
    ASSUME PInv, NEW e \in Ends, WriteReply(e) \/ WriteAck(e)
    PROVE  PInv'
<1> USE DEF environment
<1>1. PICK r \in Frame :
        /\ wire' = [wire EXCEPT ![e] = Append(@, r)]
        /\ r.kind = "ack" => r.of = None
        /\ \/ /\ serve[e] = "replying" /\ r = task[e]
              /\ serve' = [serve EXCEPT ![e] = "reading"] /\ task' = [task EXCEPT ![e] = None]
           \/ r.of = None /\ UNCHANGED <<serve, task>>
  <2>1. CASE WriteReply(e)
    <3>1. task[e] \in Frame /\ task[e].kind = "resp"
      BY <2>1 DEF WriteReply, PInv, InHand
    <3> QED
      BY <2>1, <3>1 DEF WriteReply
  <2>2. CASE WriteAck(e)
    <3>1. PICK r : r = [kind |-> "ack", of |-> None, health |-> None]
      OBVIOUS
    <3>2. r \in Frame /\ r.of = None
      BY <3>1 DEF Frame
    <3> QED
      BY <2>2, <3>1, <3>2 DEF WriteAck
  <2> QED
    BY <2>1, <2>2
<1>2. UNCHANGED <<pc, sampled, closed>>
  BY DEF WriteReply, WriteAck
<1>3. wire' \in [Ends -> Seq(Frame)]
  BY <1>1, AppendFrames DEF PInv
<1>4. FrameTypes'
  BY <1>1, <1>2, <1>3 DEF PInv, FrameTypes
<1>5. InHand'
  <2>1. \A f \in Ends : \A i \in DOMAIN wire'[f] :
            wire'[f][i] = r \/ (i \in DOMAIN wire[f] /\ wire'[f][i] = wire[f][i])
    BY <1>1, AppendFrames DEF PInv
  <2>2. \A f \in Ends : \A i \in DOMAIN wire'[f] : wire'[f][i].kind = "ack" => wire'[f][i].of = None
    BY <1>1, <2>1 DEF PInv, InHand
  <2>3. \A f \in Ends : serve'[f] = "reading" => task'[f] = None
    BY <1>1 DEF PInv, FrameTypes, InHand
  <2>4. \A f \in Ends : serve'[f] \in {"replying", "handing"} =>
                             serve'[f] = serve[f] /\ task'[f] = task[f]
    BY <1>1 DEF PInv, FrameTypes
  <2>5. \A f \in Ends :
            serve'[f] \in {"replying", "handing"} => task'[f] \in Frame /\ task'[f].kind = "resp"
    BY <2>4 DEF PInv, InHand
  <2> QED
    BY <2>2, <2>3, <2>5 DEF InHand
<1>6. Healthy' => Healthy
  <2>1. \A f \in Ends : serve[f] \in {"stuck", "gone"} => serve'[f] \in {"stuck", "gone"}
    BY <1>1 DEF PInv, FrameTypes
  <2> QED
    BY <1>2, <2>1, StaysBroken DEF PInv
<1>7. \A m \in Loops : m # None
  BY HeartbeatAssumption
<1>8. CASE r = task[e] /\ task' = [task EXCEPT ![e] = None]
  BY <1>1, <1>2, <1>4, <1>5, <1>6, <1>8, WrittenFrame DEF PInv
<1>9. CASE r.of = None /\ UNCHANGED task
  BY <1>1, <1>2, <1>4, <1>5, <1>6, <1>7, <1>9, NewFrame DEF PInv
<1> QED
  BY <1>1, <1>8, <1>9

\* An end dies, or its Serve returns because the connection is closed.
LEMMA DieAccounted ==
    ASSUME PInv, NEW e \in Ends, Hang(e) \/ Exit(e) \/ ServeEnds(e)
    PROVE  PInv'
<1> USE DEF environment
<1>1. /\ UNCHANGED <<wire, sampled>> /\ task' = [task EXCEPT ![e] = None]
      /\ serve' = [serve EXCEPT ![e] = "gone"]
      /\ pc' = pc \/ pc' = [l \in Loops |-> IF LoopEnd[l] = e THEN "gone" ELSE pc[l]]
  BY DEF Hang, Exit, Stops, ServeEnds
<1>2. pc' \in [Loops -> PCs]
  BY <1>1 DEF PInv, FrameTypes, PCs
<1>3. FrameTypes' /\ InHand'
  BY <1>1, <1>2 DEF PInv, FrameTypes, InHand
<1>4. ~Healthy'
  BY <1>1 DEF PInv, FrameTypes, Healthy
<1>5. ASSUME NEW m \in Loops PROVE Accounted(m)'
  <2>1. \A f \in Ends : Frames(f)' = Frames(f)
    BY <1>1 DEF Frames
  <2>2. \A f \in Ends : \A i \in Frames(f) : Carries(f, i, m)' => Carries(f, i, m)
    BY <1>1 DEF PInv, FrameTypes, Carries
  <2>3. pc'[m] = pc[m] \/ pc'[m] = "gone"
    BY <1>1
  <2> QED
    BY <1>4, <2>1, <2>2, <2>3, LostFrames DEF PInv
<1> QED
  BY <1>3, <1>5 DEF PInv

\* Everything else leaves the pings and their frames alone.
LEMMA OthersAccounted ==
    ASSUME PInv, UNCHANGED <<pc, sampled, wire, serve, task, closed>>
    PROVE  PInv'
<1>1. FrameTypes' /\ InHand' /\ (Healthy' => Healthy)
  BY DEF PInv, FrameTypes, InHand, Healthy
<1> QED
  BY <1>1, SameFrames DEF PInv

\* At first nothing is under way.
LEMMA InitAccounted == Init => PInv
<1> SUFFICES ASSUME Init PROVE PInv
  OBVIOUS
<1>1. \A e \in Ends : wire[e] = <<>> /\ wire[e] \in Seq(Frame) /\ DOMAIN wire[e] = {}
  <2>1. <<>> \in Seq(Frame) /\ Len(<<>>) = 0
    BY EmptySeq
  <2>2. DOMAIN <<>> = 1..0
    BY <2>1, LenProperties
  <2>3. DOMAIN <<>> = {}
    BY <2>2
  <2>4. \A e \in Ends : wire[e] = <<>>
    BY DEF Init
  <2> QED
    BY <2>1, <2>3, <2>4
<1>2. FrameTypes /\ InHand
  BY <1>1 DEF Init, FrameTypes, InHand, PCs
<1>3. \A m \in Loops : ~UnderWay(m)
  BY <1>1 DEF Init, UnderWay, Frames, Carries
<1>4. \A m \in Loops : Accounted(m)
  BY <1>3 DEF Init, Accounted, Once, OnlyWaiting, NeverLost, UnderWay
<1> QED
  BY <1>2, <1>4 DEF PInv

\* A ping that waits is under way exactly once while both ends serve, and of a ping
\* that is over nothing is left that could answer the next one: for any number of
\* loops, however timeouts, cancellations, late responses, acknowledgements and the
\* ends of a loop or of Serve cross.
THEOREM PingsAccounted == Spec => []PingAccounted
<1>1. PInv /\ [Next]_vars => PInv'
  <2> SUFFICES ASSUME PInv, [Next]_vars PROVE PInv'
    OBVIOUS
  <2>1. CASE UNCHANGED vars
    BY <2>1, OthersAccounted DEF vars
  <2>2. ASSUME NEW l \in Loops,
               Start(l) \/ Turn(l) \/ WriteExpired(l) \/ WriteCancelled(l) \/ Cancel(l)
        PROVE  PInv'
    BY <2>2, LoopAccounted, WritePingAccounted, AnsweredAccounted, AbandonAccounted DEF Turn
  <2>3. ASSUME NEW e \in Ends, Serve(e) \/ WriteAck(e) \/ Hang(e) \/ Exit(e) PROVE PInv'
    BY <2>3, TakeAccounted, SkipAccounted, WriteAccounted, DieAccounted DEF Serve
  <2>4. ASSUME NEW e \in Ends, AckFails(e) \/ OnHealth(e) PROVE PInv'
    BY <2>4, OthersAccounted DEF AckFails, OnHealth, environment, serveVars
  <2> QED
    BY <2>1, <2>2, <2>3, <2>4 DEF Next, sendAcknowledge
<1>2. PInv => PingAccounted
  BY DEF PInv, Accounted, Once, OnlyWaiting, NeverLost, PingAccounted
<1> QED
  BY <1>1, <1>2, InitAccounted, PTL DEF Spec
=============================================================================
