------------------------------ MODULE Heartbeat ------------------------------
(***************************************************************************)
(* Heartbeat (vsock/protocol/common/heartbeat.go): at each end of a         *)
(* connection a ping loop, which any number of Start calls may try to run,  *)
(* and the handler of the peer's pings on the goroutine of Serve.  Both     *)
(* write HeartbeatState; every critical section of Heartbeat.lock is a      *)
(* step.                                                                   *)
(*                                                                         *)
(* Of the Messenger this keeps what a ping can see: frames arrive in order  *)
(* and at most Capacity of them fit between the ends, Write does not look   *)
(* at a context once it blocks, a response whose request was abandoned is   *)
(* dropped, and Serve hands a response over and waits until it is read.     *)
(* Acknowledgements are not awaited, but they are sent: for every ping and  *)
(* response an end has handled, a goroutine writes one.                     *)
(***************************************************************************)
EXTENDS Naturals, Sequences

CONSTANTS
    Ends, Peer,   \* the two ends of the connection
    Loops,        \* calls of Start, each with a context of its own
    LoopEnd,      \* the end a Start is called at
    Capacity,     \* frames that fit into one direction of the connection
    MayCancel,    \* Start calls whose context may be cancelled
    MayCrash,     \* ends that may hang or exit
    MayReport,    \* ends at which OnHealth may be called, ...
    LateReport,   \* ... even after the first Start
    MaxGivenUp,   \* bound on givenUp
    MaxAcks,      \* acknowledgements of an end that wait to be written, at most
    None

ASSUME HeartbeatAssumption ==
    /\ Peer \in [Ends -> Ends] /\ \A e \in Ends : Peer[e] # e /\ Peer[Peer[e]] = e
    /\ LoopEnd \in [Loops -> Ends]
    /\ Capacity \in Nat \ {0} /\ MaxGivenUp \in Nat /\ MaxAcks \in Nat
    /\ MayCancel \subseteq Loops /\ MayCrash \subseteq Ends /\ MayReport \subseteq Ends
    /\ LateReport \in BOOLEAN
    /\ None \notin Ends \cup Loops

\* A frame tells whose ping it is or answers, None once that ping is abandoned.
Frame == [kind : {"req", "resp", "ack"}, of : Loops \cup {None}, health : Ends \cup {None}]

ASSUME NoneAssumption == None \notin Frame

VARIABLES
    pc,        \* where each Start call, or the loop it began, is
    ctxDone,   \* its context is cancelled
    started,   \* Heartbeat.started of each end
    status,    \* HeartbeatState.Status
    health,    \* HeartbeatState.Health: of which end it tells, None if of neither
    provider,  \* OnHealth has been called
    sampled,   \* the health a ping is about to tell
    wire,      \* frames written by an end and not yet read by its peer
    serve,     \* what the Serve goroutine of an end does
    task,      \* the frame it replies with or hands over
    acks,      \* acknowledgements that goroutines of an end are about to write
    closed,    \* an end has exited and closed the connection
    givenUp    \* cancellations, and timeouts of pings that would have been answered

vars == <<pc, ctxDone, started, status, health, provider, sampled, wire, serve, task, acks,
          closed, givenUp>>
stateVars   == <<status, health>>
serveVars   == <<serve, task, acks>>
environment == <<ctxDone, provider, closed>>

\* "between" two pings a loop sleeps and then looks at its context.
Running  == {"between", "sample", "write", "await", "failed"}
PCs      == Running \cup {"idle", "done", "gone"}
Init ==
    /\ pc = [l \in Loops |-> "idle"] /\ ctxDone = [l \in Loops |-> FALSE]
    /\ started = [e \in Ends |-> FALSE]
    /\ status = [e \in Ends |-> "Unknown"] /\ health = [e \in Ends |-> None]
    /\ provider = [e \in Ends |-> FALSE] /\ sampled = [l \in Loops |-> None]
    /\ wire = [e \in Ends |-> <<>>]
    /\ serve = [e \in Ends |-> "reading"] /\ task = [e \in Ends |-> None]
    /\ acks = [e \in Ends |-> 0]
    /\ closed = FALSE /\ givenUp = 0

Goto(l, label)    == pc' = [pc EXCEPT ![l] = label]
setStatus(e, s)   == status' = [status EXCEPT ![e] = s]
snapshotHealth(e) == IF provider[e] THEN e ELSE None

HasRoom(e) == Len(wire[e]) < Capacity
-----------------------------------------------------------------------------
(* Start and the loop.                                                     *)

\* Faulty variant: started is set but not looked at.
StartTwice(l) ==
    LET e == LoopEnd[l] IN
    /\ pc[l] = "idle"
    /\ started' = [started EXCEPT ![e] = TRUE] /\ Goto(l, "between")
    /\ UNCHANGED <<stateVars, sampled, wire, serveVars, environment, givenUp>>

\* A Start while a loop of this end runs returns and changes nothing; it may be
\* tried again.
Start(l) ==
    LET e == LoopEnd[l] IN
    /\ pc[l] = "idle" /\ ~started[e]
    /\ started' = [started EXCEPT ![e] = TRUE] /\ Goto(l, "between")
    /\ UNCHANGED <<stateVars, sampled, wire, serveVars, environment, givenUp>>

\* The interval is over, and the context not yet done.
BeginPing(l) ==
    /\ pc[l] = "between" /\ ~ctxDone[l]
    /\ setStatus(LoopEnd[l], "Starting")
    /\ Goto(l, "sample")
    /\ UNCHANGED <<started, health, sampled, wire, serveVars, environment, givenUp>>

\* ping takes its own health and shows it.
SampleHealth(l) ==
    LET e == LoopEnd[l] IN
    /\ pc[l] = "sample"
    /\ health' = [health EXCEPT ![e] = snapshotHealth(e)]
    /\ sampled' = [sampled EXCEPT ![l] = snapshotHealth(e)]
    /\ Goto(l, "write")
    /\ UNCHANGED <<started, status, wire, serveVars, environment, givenUp>>

\* What a ping tells is not looked at again.
Forget(l) == sampled' = [sampled EXCEPT ![l] = None]

\* transport.Request registers its response and writes the ping, when it fits.
WritePing(l) ==
    LET e == LoopEnd[l] IN
    /\ pc[l] = "write" /\ ~closed /\ HasRoom(e)
    /\ wire' = [wire EXCEPT ![e] =
                   Append(@, [kind |-> "req", of |-> l, health |-> sampled[l]])]
    /\ Forget(l)
    /\ Goto(l, "await")
    /\ UNCHANGED <<started, stateVars, serveVars, environment, givenUp>>


\* It cannot be written: Warning, and Error once ping has returned.
WriteFails(l) ==
    /\ pc[l] = "write" /\ closed
    /\ setStatus(LoopEnd[l], "Warning")
    /\ Forget(l) /\ Goto(l, "failed")
    /\ UNCHANGED <<started, health, wire, serveVars, environment, givenUp>>

\* The peer will not answer the ping that waits at end e, or e will not see it.
Unanswerable(e) ==
    closed \/ serve[e] \in {"stuck", "gone"} \/ serve[Peer[e]] \in {"stuck", "gone"}

\* The bound on what goes wrong while both ends run.
GiveUp == givenUp < MaxGivenUp /\ givenUp' = givenUp + 1

\* A timeout strikes: a ping nobody would answer, or an answer that was too late.
TimesOut(e) ==
    IF Unanswerable(e) THEN UNCHANGED givenUp ELSE GiveUp

\* The frames of a ping that is over belong to nobody.
Abandoned(l) ==
    [e \in Ends |-> [i \in DOMAIN wire[e] |->
        IF wire[e][i].of = l THEN [wire[e][i] EXCEPT !.of = None] ELSE wire[e][i]]]

\* The response of l is in its channel: Serve waits for l to read the body.
HandedOver(l) ==
    LET e == LoopEnd[l] IN serve[e] = "handing" /\ task[e].of = l

\* Faulty variant: responses are told apart by their type alone, so that of a ping
\* that is over answers the next one.
AbandonUnmatched(l) ==
    /\ serve' = IF HandedOver(l) THEN [serve EXCEPT ![LoopEnd[l]] = "stuck"] ELSE serve
    /\ UNCHANGED <<wire, task, acks>>

\* A ping ends without its response.  If that was already handed over nobody
\* reads it, and Serve of this end waits for ever.  A reply the peer is about to
\* write will belong to nobody.
Abandon(l) ==
    /\ wire' = Abandoned(l)
    /\ serve' = IF HandedOver(l) THEN [serve EXCEPT ![LoopEnd[l]] = "stuck"] ELSE serve
    /\ task' = [e \in Ends |-> IF task[e] = None \/ task[e].of # l
                               THEN task[e] ELSE [task[e] EXCEPT !.of = None]]
    /\ UNCHANGED acks

\* The timeout is noticed before Write is called; Write itself does not notice.
WriteExpired(l) ==
    /\ pc[l] = "write" /\ ~ctxDone[l]
    /\ TimesOut(LoopEnd[l])
    /\ setStatus(LoopEnd[l], "Warning")
    /\ Forget(l) /\ Goto(l, "between")
    /\ UNCHANGED <<started, health, wire, serveVars, environment>>

\* So is the end of the loop's context.
WriteCancelled(l) ==
    /\ pc[l] = "write" /\ ctxDone[l]
    /\ Forget(l) /\ Goto(l, "failed")
    /\ UNCHANGED <<started, stateVars, wire, serveVars, environment, givenUp>>

\* Once Serve has handled a frame, a goroutine is to write its acknowledgement.
Acknowledges(e) ==
    acks' = [acks EXCEPT ![e] = IF @ < MaxAcks THEN @ + 1 ELSE @]

\* Faulty variant: the health of the peer is left out.
AnsweredStatusOnly(l) ==
    LET e == LoopEnd[l] IN
    /\ pc[l] = "await" /\ HandedOver(l)
    /\ setStatus(e, "OK")
    /\ serve' = [serve EXCEPT ![e] = "reading"] /\ task' = [task EXCEPT ![e] = None]
    /\ Acknowledges(e)
    /\ Goto(l, "between")
    /\ UNCHANGED <<started, health, sampled, wire, environment, givenUp>>

\* The response says OK and how the peer is.
Answered(l) ==
    LET e == LoopEnd[l] IN
    /\ pc[l] = "await" /\ HandedOver(l)
    /\ setStatus(e, "OK")
    /\ health' = [health EXCEPT ![e] = task[e].health]
    /\ serve' = [serve EXCEPT ![e] = "reading"] /\ task' = [task EXCEPT ![e] = None]
    /\ Acknowledges(e)
    /\ Goto(l, "between")
    /\ UNCHANGED <<started, sampled, wire, environment, givenUp>>

\* DeadlineExceeded: a Warning, but not an error of ping.
AwaitExpired(l) ==
    /\ pc[l] = "await" /\ ~ctxDone[l]
    /\ TimesOut(LoopEnd[l])
    /\ setStatus(LoopEnd[l], "Warning")
    /\ Abandon(l)
    /\ Goto(l, "between")
    /\ UNCHANGED <<started, health, sampled, environment>>


\* The loop's context ends the wait, even if the response has just come.
AwaitCancelled(l) ==
    /\ pc[l] = "await" /\ ctxDone[l]
    /\ Abandon(l)
    /\ Goto(l, "failed")
    /\ UNCHANGED <<started, stateVars, sampled, environment, givenUp>>

\* ping returned an error.
PingFailed(l) ==
    /\ pc[l] = "failed"
    /\ setStatus(LoopEnd[l], "Error")
    /\ Goto(l, "between")
    /\ UNCHANGED <<started, health, sampled, wire, serveVars, environment, givenUp>>

\* stop, from either select; the one that sleeps may overlook the context, the
\* one at the top does not.
stop(l) ==
    LET e == LoopEnd[l] IN
    /\ pc[l] = "between" /\ ctxDone[l]
    /\ setStatus(e, "Stopping") /\ started' = [started EXCEPT ![e] = FALSE]
    /\ Goto(l, "done")
    /\ UNCHANGED <<health, sampled, wire, serveVars, environment, givenUp>>
-----------------------------------------------------------------------------
(* Serve.                                                                  *)

Reads(e, kind) ==
    LET p == Peer[e] IN
    /\ serve[e] = "reading" /\ wire[p] # <<>> /\ Head(wire[p]).kind = kind
    /\ wire' = [wire EXCEPT ![p] = Tail(@)]

\* handleRequest, which returns the reply that is to be written.
handleRequest(e) ==
    LET req == Head(wire[Peer[e]]) IN
    /\ Reads(e, "req")
    /\ setStatus(e, "OK") /\ health' = [health EXCEPT ![e] = req.health]
    /\ serve' = [serve EXCEPT ![e] = "replying"]
    /\ task' = [task EXCEPT ![e] =
                   [kind |-> "resp", of |-> req.of, health |-> snapshotHealth(e)]]
    /\ UNCHANGED <<pc, started, sampled, acks, environment, givenUp>>

\* Serve itself writes the reply, and reads nothing until it fits.
WriteReply(e) ==
    /\ serve[e] = "replying" /\ ~closed /\ HasRoom(e)
    /\ wire' = [wire EXCEPT ![e] = Append(@, task[e])]
    /\ serve' = [serve EXCEPT ![e] = "reading"] /\ task' = [task EXCEPT ![e] = None]
    /\ Acknowledges(e)
    /\ UNCHANGED <<pc, started, stateVars, sampled, environment, givenUp>>

\* A response is handed to the ping that waits for it.
resolveResponse(e) ==
    LET resp == Head(wire[Peer[e]]) IN
    /\ Reads(e, "resp") /\ resp.of # None
    /\ serve' = [serve EXCEPT ![e] = "handing"] /\ task' = [task EXCEPT ![e] = resp]
    /\ UNCHANGED <<pc, started, stateVars, sampled, acks, environment, givenUp>>

\* One that nobody waits for is skipped, and acknowledged.
DropResponse(e) ==
    /\ Reads(e, "resp") /\ Head(wire[Peer[e]]).of = None
    /\ Acknowledges(e)
    /\ UNCHANGED <<pc, started, stateVars, sampled, serve, task, environment, givenUp>>

\* An acknowledgement, which nobody waits for either, is skipped.
ReadAck(e) ==
    /\ Reads(e, "ack")
    /\ UNCHANGED <<pc, started, stateVars, sampled, serveVars, environment, givenUp>>

\* On a closed connection Serve returns, from reading or from a failed reply.
ServeEnds(e) ==
    /\ closed /\ serve[e] \in {"reading", "replying"}
    /\ serve' = [serve EXCEPT ![e] = "gone"] /\ task' = [task EXCEPT ![e] = None]
    /\ UNCHANGED <<pc, started, stateVars, sampled, wire, acks, environment, givenUp>>

\* sendAcknowledge's goroutine writes when it can, ...
WriteAck(e) ==
    /\ acks[e] > 0 /\ ~closed /\ HasRoom(e)
    /\ wire' = [wire EXCEPT ![e] = Append(@, [kind |-> "ack", of |-> None, health |-> None])]
    /\ acks' = [acks EXCEPT ![e] = @ - 1]
    /\ UNCHANGED <<pc, started, stateVars, sampled, serve, task, environment, givenUp>>

\* ... and nobody learns when it cannot.
AckFails(e) ==
    /\ acks[e] > 0 /\ closed
    /\ acks' = [acks EXCEPT ![e] = @ - 1]
    /\ UNCHANGED <<pc, started, stateVars, sampled, wire, serve, task, environment, givenUp>>
-----------------------------------------------------------------------------
(* The callers and the world.                                              *)

OnHealth(e) ==
    /\ e \in MayReport /\ (LateReport \/ \A l \in Loops : pc[l] = "idle")
    /\ ~provider[e] /\ provider' = [provider EXCEPT ![e] = TRUE]
    /\ UNCHANGED <<pc, started, stateVars, sampled, wire, serveVars, ctxDone, closed, givenUp>>

Cancel(l) ==
    /\ l \in MayCancel /\ ~ctxDone[l] /\ ctxDone' = [ctxDone EXCEPT ![l] = TRUE]
    /\ GiveUp
    /\ UNCHANGED <<pc, started, stateVars, sampled, wire, serveVars, provider, closed>>

\* An end stops where it is: it hangs, and the connection stays open, or it exits,
\* and the connection is closed with what it wrote still to be read.
Stops(e) ==
    /\ e \in MayCrash /\ \A f \in Ends : serve[f] # "gone"
    /\ pc' = [l \in Loops |-> IF LoopEnd[l] = e THEN "gone" ELSE pc[l]]
    /\ started' = [started EXCEPT ![e] = FALSE]
    /\ serve' = [serve EXCEPT ![e] = "gone"] /\ task' = [task EXCEPT ![e] = None]
    /\ acks' = [acks EXCEPT ![e] = 0]
    /\ UNCHANGED <<stateVars, sampled, wire, ctxDone, provider, givenUp>>

Hang(e) == Stops(e) /\ UNCHANGED closed

Exit(e) == Stops(e) /\ closed' = TRUE
-----------------------------------------------------------------------------
\* What a loop does by itself.  That Write is not begun before a timeout or a
\* cancellation is a matter of luck, so nothing relies on it.
Turn(l) ==
    \/ BeginPing(l) \/ SampleHealth(l) \/ WritePing(l) \/ WriteFails(l) \/ Answered(l)
    \/ AwaitExpired(l) \/ AwaitCancelled(l) \/ PingFailed(l) \/ stop(l)

Serve(e) ==
    \/ handleRequest(e) \/ WriteReply(e) \/ resolveResponse(e) \/ DropResponse(e) \/ ReadAck(e)
    \/ ServeEnds(e)

sendAcknowledge(e) == WriteAck(e) \/ AckFails(e)

Next ==
    \/ \E l \in Loops : Start(l) \/ Turn(l) \/ WriteExpired(l) \/ WriteCancelled(l) \/ Cancel(l)
    \/ \E e \in Ends : Serve(e) \/ sendAcknowledge(e) \/ OnHealth(e) \/ Hang(e) \/ Exit(e)

Spec == Init /\ [][Next]_vars

\* Goroutines that can go on do.
Fairness ==
    /\ \A l \in Loops : WF_vars(Turn(l))
    /\ \A e \in Ends : WF_vars(Serve(e)) /\ WF_vars(sendAcknowledge(e))

FairSpec == Spec /\ Fairness
-----------------------------------------------------------------------------
(* Properties.                                                             *)

RunningAt(e) == {l \in Loops : LoopEnd[l] = e /\ pc[l] \in Running}

\* started tells exactly whether a loop runs, and never do two: however Start,
\* cancellation and stop overlap, no end is left without the loop it asked for.
SingleLoop ==
    \A e \in Ends :
        /\ \A l, m \in RunningAt(e) : l = m
        /\ started[e] <=> RunningAt(e) # {}

\* Nothing has happened to either end or to the connection between them.
Healthy == ~closed /\ \A e \in Ends : serve[e] \notin {"stuck", "gone"}

\* The frames of an end: those it has written, and as number 0 the one its Serve has
\* in hand.
Frames(e) == {0} \cup DOMAIN wire[e]

\* A frame is the request of l, the reply to it or its response.
Carries(e, i, l) ==
    IF i = 0 THEN task[e] # None /\ task[e].of = l ELSE wire[e][i].of = l

UnderWay(l) == \E e \in Ends : \E i \in Frames(e) : Carries(e, i, l)

\* A ping that waits is under way exactly once, as request, reply or response, as long
\* as both ends serve; and of a ping that is over nothing is left that could answer
\* the next one, however timeouts, cancellations and late responses cross.
PingAccounted ==
    \A l \in Loops :
        /\ \A e, f \in Ends : \A i \in Frames(e), j \in Frames(f) :
               Carries(e, i, l) /\ Carries(f, j, l) => e = f /\ i = j
        /\ UnderWay(l) => pc[l] \in {"await", "gone"}
        /\ pc[l] = "await" /\ Healthy => UnderWay(l)

\* Both Serves wait to write a reply, and neither reads.
Jammed == ~closed /\ \A e \in Ends : serve[e] = "replying" /\ ~HasRoom(e)

\* An end whose loop runs sees its peer: while both ends serve, it shows again and
\* again status OK with the health of the peer, although ping and handler write
\* the same state, and replies and acknowledgements cross; unless they have filled
\* the connection in both directions and jammed both ends.
LivePeerSeen ==
    \A e \in Ends :
        [](RunningAt(e) # {} =>
            <>(\/ status[e] = "OK" /\ (provider[Peer[e]] => health[e] = Peer[e])
               \/ RunningAt(e) = {} \/ ~Healthy \/ Jammed))

\* Write does not return, and does not look at the timeout.
Blocked(l) == pc[l] = "write" /\ ~closed /\ ~HasRoom(LoopEnd[l])

\* No loop at e can tell: it has stopped or is blocked.
NoLoopTells(e) == \A l \in RunningAt(e) : Blocked(l)


=============================================================================
