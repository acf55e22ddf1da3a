------------------------------ MODULE Messenger ------------------------------
(***************************************************************************)
(* The vsock messenger: two Messengers (vsock/messenger.go) joined by one  *)
(* connection, the goroutines that call Send and Request on them, their    *)
(* Serve loops, and the goroutines that sendAcknowledge starts.            *)
(*                                                                         *)
(* A frame is written and read as a unit here; module FileTransfer has a   *)
(* frame that is cut short.  The M and R wrappers of vsock/protocol are    *)
(* part of the model: "evt" is the type of an M, "req" and "resp" are the  *)
(* two types of an R, "unk" is a type nobody registered.                   *)
(***************************************************************************)
EXTENDS Integers, Sequences

CONSTANTS
    Ends,                    \* the two Messengers; e also names e's Serve goroutine
    Peer,                    \* the Messenger at the other end of the connection
    Calls,                   \* goroutines that each make one Send or Request
    CallEnd,                 \* the Messenger a call is made on
    CallID, CallType, CallLen,  \* the message it passes
    Replayable,              \* threads whose payload is an io.ReadSeeker
    ReplyLens,               \* lengths an R handler's response may have
    IDs,                     \* message IDs; 0 is never a valid one
    RequireAcknowledge, MaxRetries,          \* MessengerConfig, per end
    MaxMessageSize, MaxMessageSizeReceived,  \* 0 means no limit
    WireCap,                 \* frames the connection buffers in one direction
    Cancellable,             \* threads whose context may be cancelled
    FailingHandlers,         \* ends whose callbacks may return an error
    UnknownHandlers,         \* ends with an OnUnknown receiver
    Removable,               \* ends whose M and R receivers come and go
    MayClose,                \* ends that may close the connection
    Stalling,                \* ends whose frames may stop for good in mid-body
    None

Threads   == Ends \cup Calls
CallTypes == {"evt", "req", "unk"}
Types     == CallTypes \cup {"resp", "ack"}
Wrapped   == {"evt", "req"}
Frame     == [id : IDs, type : Types, len : Nat]
NoFrame   == [id |-> 0, type |-> "none", len |-> 0]
CallPCs   == {"idle", "begin", "write", "awaitAck", "awaitResp", "readBody", "ok", "err"}
ServePCs  == {"read", "handler", "begin", "write", "awaitAck", "pipe", "pipeWrite", "stopped"}

ASSUME EndsAssumption ==
    /\ Peer \in [Ends -> Ends]
    /\ \A e \in Ends : Peer[e] # e /\ Peer[Peer[e]] = e
    /\ Ends \cap Calls = {}
    /\ None \notin Threads
ASSUME CallsAssumption ==
    /\ IDs \subseteq Nat
    /\ CallEnd \in [Calls -> Ends]
    /\ CallID \in [Calls -> IDs]
    /\ CallType \in [Calls -> CallTypes]
    /\ CallLen \in [Calls -> Nat]
    /\ ReplyLens \subseteq Nat
ASSUME ConfigAssumption ==
    /\ RequireAcknowledge \in [Ends -> BOOLEAN]
    /\ MaxRetries \in [Ends -> Nat]
    /\ MaxMessageSize \in [Ends -> Nat]
    /\ MaxMessageSizeReceived \in [Ends -> Nat]
    /\ WireCap \in Nat

VARIABLES
    pc,                \* where each thread is
    attempt,           \* attempts a thread has begun in its current send loop
    ctxDone,           \* its context is done
    wire,              \* frames travelling towards an end
    closed,            \* ends that closed the connection
    pendingAcks,       \* Messenger.pendingAcks: the thread whose channel is registered
    acked,             \* the channel of a thread's current attempt is closed
    pendingResponses,  \* Messenger.pendingResponses: the call registered for an ID
    resp,              \* what a call's response channel and pipe hold
    frame,             \* the frame a Serve loop handles, or the response it sends
    pipeTo,            \* the call whose pipe a Serve loop writes to
    ackOut,            \* acknowledgement goroutines not finished yet, per ID
    receiver,          \* the receiver slot of the M and R wrappers is filled
    runs               \* history: callbacks that returned nil, per end and ID

vars == <<pc, attempt, ctxDone, wire, closed, pendingAcks, acked,
          pendingResponses, resp, frame, pipeTo, ackOut, receiver, runs>>
sendVars  == <<attempt, pendingAcks, acked>>
serveVars == <<frame, pipeTo>>
envVars   == <<ctxDone, closed, receiver>>

-----------------------------------------------------------------------------
(* Helpers of ack.go, request.go and stream.go.                            *)

EndOf(t) == IF t \in Ends THEN t ELSE CallEnd[t]

\* The message a thread passes to SendStreamWithID.
Out(t) == IF t \in Ends THEN frame[t]
          ELSE [id |-> CallID[t], type |-> CallType[t], len |-> CallLen[t]]

headerLength == 16

\* The size limit on what is sent counts the header, the limit on what is
\* received does not.
TooLargeToSend(e, len) == MaxMessageSize[e] > 0 /\ headerLength + len > MaxMessageSize[e]

RefusedHeader(e, f) ==
    f.id = 0 \/ (MaxMessageSizeReceived[e] > 0 /\ f.len > MaxMessageSizeReceived[e])

shouldAwaitAcknowledge(t) == RequireAcknowledge[EndOf(t)]

\* Faulty variant: the retries are granted to every payload.
attemptsAlways(t) ==
    1 + IF shouldAwaitAcknowledge(t) THEN MaxRetries[EndOf(t)] ELSE 0

attempts(t) ==
    1 + IF shouldAwaitAcknowledge(t) /\ t \in Replayable THEN MaxRetries[EndOf(t)] ELSE 0

\* Faulty variant: the bound of the retry loop is off by one.
LastAttemptLate(t) == attempt[t] > attempts(t)

LastAttempt(t) == attempt[t] = attempts(t)

registerPendingAck(t) == [pendingAcks EXCEPT ![EndOf(t)][Out(t).id] = t]

\* Faulty variant: the deferred unregister is forgotten.
unregisterPendingAckForgotten(t) == pendingAcks

unregisterPendingAck(t) ==
    IF pendingAcks[EndOf(t)][Out(t).id] = t
    THEN [pendingAcks EXCEPT ![EndOf(t)][Out(t).id] = None]
    ELSE pendingAcks

\* Faulty variant: a second request takes over the entry of the first.
DuplicateIDNever(c) == FALSE

DuplicateID(c) == pendingResponses[CallEnd[c]][CallID[c]] # None

registerPendingResponse(c) == [pendingResponses EXCEPT ![CallEnd[c]][CallID[c]] = c]

\* Faulty variant: a call that has ended leaves its entry behind.
unregisterPendingResponseForgotten(t) == pendingResponses

unregisterPendingResponse(t) ==
    IF t \in Calls /\ pendingResponses[CallEnd[t]][CallID[t]] = t
    THEN [pendingResponses EXCEPT ![CallEnd[t]][CallID[t]] = None]
    ELSE pendingResponses

\* sendAcknowledge starts a goroutine whatever RequireAcknowledge says.
sendAcknowledge(e, id) == [ackOut EXCEPT ![e][id] = @ + 1]

\* A write by e proceeds while e has not closed the connection and there is room
\* for the frame, or the peer's Serve is reading; with WireCap = 0 (net.Pipe, or
\* frames larger than the socket buffer) only the latter.  It fails once either
\* side closed the connection.  conn.Write knows no context.
Room(e) ==
    /\ e \notin closed
    /\ \/ Len(wire[Peer[e]]) < WireCap
       \/ wire[Peer[e]] = <<>> /\ pc[Peer[e]] = "read"
Put(e, f) == [wire EXCEPT ![Peer[e]] = Append(@, f)]
Broken    == closed # {}

\* Reads of Serve's connection fail: the deadline is set, or e closed it.
CannotRead(e) == ctxDone[e] \/ e \in closed

\* Faulty variant: the type of the response is not compared.
PendingMatchesID(e, f) == pendingResponses[e][f.id] # None

\* A matching entry of pendingResponses: registered for the ID, and the frame
\* has the response type it was registered with.
PendingMatches(e, f) == f.type = "resp" /\ pendingResponses[e][f.id] # None

HasCallback(e, f) ==
    \/ f.type \in Wrapped /\ receiver[e][f.type]
    \/ f.type \in {"unk", "resp"} /\ e \in UnknownHandlers
-----------------------------------------------------------------------------
Init ==
    /\ pc = [t \in Threads |-> IF t \in Ends THEN "read" ELSE "idle"]
    /\ attempt = [t \in Threads |-> 0]
    /\ ctxDone = [t \in Threads |-> FALSE]
    /\ wire = [e \in Ends |-> <<>>]
    /\ closed = {}
    /\ pendingAcks = [e \in Ends |-> [id \in IDs |-> None]]
    /\ acked = [t \in Threads |-> FALSE]
    /\ pendingResponses = [e \in Ends |-> [id \in IDs |-> None]]
    /\ resp = [c \in Calls |-> "none"]
    /\ frame = [e \in Ends |-> NoFrame]
    /\ pipeTo = [e \in Ends |-> None]
    /\ ackOut = [e \in Ends |-> [id \in IDs |-> 0]]
    /\ receiver = [e \in Ends |-> [y \in Wrapped |-> TRUE]]
    /\ runs = [e \in Ends |-> [id \in IDs |-> 0]]
-----------------------------------------------------------------------------
(* Sending: SendStreamWithID and its helpers, run by a call for its message *)
(* and by a Serve loop, inside an R handler, for its response.             *)

\* Where a thread goes when its send loop returns nil, and when it fails.
AfterSend(t) == IF t \in Ends THEN "read"
                ELSE IF CallType[t] = "req" THEN "awaitResp" ELSE "ok"
AfterError(t) == IF t \in Ends THEN "stopped" ELSE "err"

\* SendStreamWithID returns an error: request's deferred unregister runs.
Fail(t) ==
    /\ pc' = [pc EXCEPT ![t] = AfterError(t)]
    /\ pendingResponses' = unregisterPendingResponse(t)

\* SendStreamWithID returns nil: a Serve loop goes on to acknowledge the
\* request its handler answered.
Succeed(t) ==
    /\ pc' = [pc EXCEPT ![t] = AfterSend(t)]
    /\ ackOut' = IF t \in Ends THEN sendAcknowledge(t, frame[t].id) ELSE ackOut

\* Send of an M hands its message to the Messenger.
StartSend(c) ==
    /\ pc[c] = "idle" /\ CallType[c] # "req"
    /\ pc' = [pc EXCEPT ![c] = "begin"]
    /\ UNCHANGED <<sendVars, serveVars, envVars, wire, pendingResponses, resp, ackOut, runs>>

\* Request of an R registers its pending response before anything is sent.
StartRequest(c) ==
    /\ pc[c] = "idle" /\ CallType[c] = "req" /\ ~DuplicateID(c)
    /\ pc' = [pc EXCEPT ![c] = "begin"]
    /\ pendingResponses' = registerPendingResponse(c)
    /\ UNCHANGED <<sendVars, serveVars, envVars, wire, resp, ackOut, runs>>

StartCall(c) == StartSend(c) \/ StartRequest(c)

\* registerPendingResponse returns ErrDuplicateMessageID.
StartDuplicate(c) ==
    /\ pc[c] = "idle"
    /\ CallType[c] = "req" /\ DuplicateID(c)
    /\ pc' = [pc EXCEPT ![c] = "err"]
    /\ UNCHANGED <<sendVars, serveVars, envVars, wire, pendingResponses, resp, ackOut, runs>>

Refused(t) == Out(t).id = 0 \/ TooLargeToSend(EndOf(t), Out(t).len)

\* SendStreamWithID rejects the message before its first attempt.
SendRefused(t) ==
    /\ pc[t] = "begin" /\ Refused(t)
    /\ Fail(t)
    /\ UNCHANGED <<sendVars, serveVars, envVars, wire, resp, ackOut, runs>>

\* The next attempt begins: with acknowledgements on, a new channel is
\* registered under the ID, replacing whatever is there.  writeAll sees a live
\* context and goes on to conn.Write.
BeginAttempt(t) ==
    /\ pc[t] = "begin" /\ ~Refused(t) /\ ~ctxDone[t]
    /\ pc' = [pc EXCEPT ![t] = "write"]
    /\ attempt' = [attempt EXCEPT ![t] = @ + 1]
    /\ IF shouldAwaitAcknowledge(t)
       THEN pendingAcks' = registerPendingAck(t) /\ acked' = [acked EXCEPT ![t] = FALSE]
       ELSE UNCHANGED <<pendingAcks, acked>>
    /\ UNCHANGED <<serveVars, envVars, wire, pendingResponses, resp, ackOut, runs>>

\* writeAll finds the context done already: nothing is written, the channel just
\* registered is removed again, with whatever it replaced, and the send fails.
AttemptCancelled(t) ==
    /\ pc[t] = "begin" /\ ~Refused(t) /\ ctxDone[t]
    /\ attempt' = [attempt EXCEPT ![t] = @ + 1]
    /\ IF shouldAwaitAcknowledge(t)
       THEN /\ pendingAcks' = [pendingAcks EXCEPT ![EndOf(t)][Out(t).id] = None]
            /\ acked' = [acked EXCEPT ![t] = FALSE]
       ELSE UNCHANGED <<pendingAcks, acked>>
    /\ Fail(t)
    /\ UNCHANGED <<serveVars, envVars, wire, resp, ackOut, runs>>

\* sendStreamOnce writes the frame, even if the context ends while it is inside
\* conn.Write; without acknowledgements that ends the send.
SendWrite(t) ==
    /\ pc[t] = "write" /\ Room(EndOf(t))
    /\ wire' = Put(EndOf(t), Out(t))
    /\ IF shouldAwaitAcknowledge(t)
       THEN pc' = [pc EXCEPT ![t] = "awaitAck"] /\ UNCHANGED ackOut
       ELSE Succeed(t)
    /\ UNCHANGED <<sendVars, serveVars, envVars, pendingResponses, resp, runs>>

\* An attempt has failed: give up if the context is done or it was the last.
Retry(t) ==
    /\ pendingAcks' = unregisterPendingAck(t)
    /\ IF ctxDone[t] \/ LastAttempt(t)
       THEN Fail(t)
       ELSE pc' = [pc EXCEPT ![t] = "begin"] /\ UNCHANGED pendingResponses

\* The write fails because the connection is closed.
SendFails(t) ==
    /\ pc[t] = "write" /\ Broken
    /\ Retry(t)
    /\ UNCHANGED <<attempt, acked, serveVars, envVars, wire, resp, ackOut, runs>>

\* The context ends while the thread waits for writeLock, before writeAll looks.
SendCancelled(t) ==
    /\ pc[t] = "write" /\ ctxDone[t]
    /\ Retry(t)
    /\ UNCHANGED <<attempt, acked, serveVars, envVars, wire, resp, ackOut, runs>>

\* waitForAcknowledge: its select takes the closed channel, ...
AckArrives(t) ==
    /\ pc[t] = "awaitAck" /\ acked[t]
    /\ pendingAcks' = unregisterPendingAck(t)
    /\ Succeed(t)
    /\ UNCHANGED <<attempt, acked, serveVars, envVars, wire, pendingResponses, resp, runs>>

\* ... or the timer or the context, even when the channel is closed too.
AckTimeout(t) ==
    /\ pc[t] = "awaitAck"
    /\ Retry(t)
    /\ UNCHANGED <<attempt, acked, serveVars, envVars, wire, resp, ackOut, runs>>
-----------------------------------------------------------------------------
(* The goroutines started by sendAcknowledge, under the context of Serve.  *)

AckFrame(id) == [id |-> id, type |-> "ack", len |-> 0]

AckWrite(e, id) ==
    /\ ackOut[e][id] > 0
    /\ ~TooLargeToSend(e, 0) /\ Room(e)
    /\ wire' = Put(e, AckFrame(id))
    /\ ackOut' = [ackOut EXCEPT ![e][id] = @ - 1]
    /\ UNCHANGED <<pc, sendVars, serveVars, envVars, pendingResponses, resp, runs>>

AckDropped(e, id) ==
    /\ ackOut[e][id] > 0
    /\ TooLargeToSend(e, 0) \/ ctxDone[e] \/ Broken
    /\ ackOut' = [ackOut EXCEPT ![e][id] = @ - 1]
    /\ UNCHANGED <<pc, sendVars, serveVars, envVars, wire, pendingResponses, resp, runs>>
-----------------------------------------------------------------------------
(* The Serve loop: readHeader, then handleMessage.                         *)

\* Serve takes the next frame off the connection.
NextFrame(e) ==
    /\ pc[e] = "read" /\ e \notin closed
    /\ wire[e] # <<>>
    /\ wire' = [wire EXCEPT ![e] = Tail(@)]

\* handleMessage reaches the callbacks: neither an acknowledgement nor the
\* response of a pending request.
Dispatched(e, f) == ~RefusedHeader(e, f) /\ f.type # "ack" /\ ~PendingMatches(e, f)

\* resolveResponse: the pending call is handed a message whose body is the
\* read end of a pipe; Serve will fill that pipe before it does anything else.
ServeResponse(e) ==
    /\ NextFrame(e)
    /\ LET f == Head(wire[e]) IN
        /\ ~RefusedHeader(e, f) /\ PendingMatches(e, f)
        /\ resp' = [resp EXCEPT ![pendingResponses[e][f.id]] = "open"]
        /\ pipeTo' = [pipeTo EXCEPT ![e] = pendingResponses[e][f.id]]
        /\ pendingResponses' = [pendingResponses EXCEPT ![e][f.id] = None]
        /\ frame' = [frame EXCEPT ![e] = f]
        /\ pc' = [pc EXCEPT ![e] = "pipe"]
    /\ UNCHANGED <<sendVars, envVars, ackOut, runs>>

\* resolveAck: the entry is removed and its channel closed.
ServeAck(e) ==
    /\ NextFrame(e)
    /\ LET f == Head(wire[e]) IN
        /\ ~RefusedHeader(e, f) /\ f.type = "ack"
        /\ IF pendingAcks[e][f.id] # None
           THEN /\ acked' = [acked EXCEPT ![pendingAcks[e][f.id]] = TRUE]
                /\ pendingAcks' = [pendingAcks EXCEPT ![e][f.id] = None]
           ELSE UNCHANGED <<acked, pendingAcks>>
    /\ UNCHANGED <<pc, attempt, serveVars, envVars, pendingResponses, resp, ackOut, runs>>

\* handleMessage calls the receiver of the frame's type, or the OnUnknown one.
ServeHandle(e) ==
    /\ NextFrame(e)
    /\ LET f == Head(wire[e]) IN
        /\ Dispatched(e, f) /\ HasCallback(e, f)
        /\ frame' = [frame EXCEPT ![e] = f]
        /\ pc' = [pc EXCEPT ![e] = "handler"]
    /\ UNCHANGED <<sendVars, pipeTo, envVars, pendingResponses, resp, ackOut, runs>>

\* There is no callback, or the wrapper's receiver slot is empty: the frame is
\* drained and acknowledged.
ServeIgnore(e) ==
    /\ NextFrame(e)
    /\ LET f == Head(wire[e]) IN
        /\ Dispatched(e, f) /\ ~HasCallback(e, f)
        /\ ackOut' = sendAcknowledge(e, f.id)
    /\ UNCHANGED <<pc, sendVars, serveVars, envVars, pendingResponses, resp, runs>>

\* readHeader rejects the header: Serve returns.
ServeRefuse(e) ==
    /\ NextFrame(e) /\ RefusedHeader(e, Head(wire[e]))
    /\ pc' = [pc EXCEPT ![e] = "stopped"]
    /\ UNCHANGED <<sendVars, serveVars, envVars, pendingResponses, resp, ackOut, runs>>

\* The context of Serve is done (the read deadline fires), the connection was
\* closed on this side, or everything the closed peer wrote has been read.
ServeReturns(e) ==
    /\ pc[e] = "read"
    /\ ctxDone[e] \/ e \in closed \/ (Peer[e] \in closed /\ wire[e] = <<>>)
    /\ pc' = [pc EXCEPT ![e] = "stopped"]
    /\ UNCHANGED <<sendVars, serveVars, envVars, wire, pendingResponses, resp, ackOut, runs>>

\* A callback that answers nothing returns nil; the frame is acknowledged.
HandlerReturns(e) ==
    /\ pc[e] = "handler" /\ frame[e].type # "req"
    /\ runs' = [runs EXCEPT ![e][frame[e].id] = @ + 1]
    /\ ackOut' = sendAcknowledge(e, frame[e].id)
    /\ pc' = [pc EXCEPT ![e] = "read"]
    /\ UNCHANGED <<sendVars, serveVars, envVars, wire, pendingResponses, resp>>

\* Faulty variant: the response does not carry the ID of the request.
HandlerRepliesFreshID(e) ==
    /\ pc[e] = "handler" /\ frame[e].type = "req"
    /\ \E len \in ReplyLens, id \in IDs \ {frame[e].id} :
          frame' = [frame EXCEPT ![e] = [id |-> id, type |-> "resp", len |-> len]]
    /\ runs' = [runs EXCEPT ![e][frame[e].id] = @ + 1]
    /\ attempt' = [attempt EXCEPT ![e] = 0]
    /\ pc' = [pc EXCEPT ![e] = "begin"]
    /\ UNCHANGED <<pendingAcks, acked, pipeTo, envVars, wire, pendingResponses, resp, ackOut>>

\* The callback of an R returns a response; the wrapper sends it, with the ID
\* of the request, on the goroutine of Serve.
HandlerReplies(e) ==
    /\ pc[e] = "handler" /\ frame[e].type = "req"
    /\ \E len \in ReplyLens :
          frame' = [frame EXCEPT ![e] = [id |-> frame[e].id, type |-> "resp", len |-> len]]
    /\ runs' = [runs EXCEPT ![e][frame[e].id] = @ + 1]
    /\ attempt' = [attempt EXCEPT ![e] = 0]
    /\ pc' = [pc EXCEPT ![e] = "begin"]
    /\ UNCHANGED <<pendingAcks, acked, pipeTo, envVars, wire, pendingResponses, resp, ackOut>>

\* Faulty variant: the message is acknowledged although its callback failed.
HandlerFailsAcked(e) ==
    /\ pc[e] = "handler"
    /\ e \in FailingHandlers \/ CannotRead(e)
    /\ pc' = [pc EXCEPT ![e] = "stopped"]
    /\ ackOut' = sendAcknowledge(e, frame[e].id)
    /\ UNCHANGED <<sendVars, serveVars, envVars, wire, pendingResponses, resp, runs>>

\* The callback, or reading the payload for it, fails: Serve returns.
HandlerFails(e) ==
    /\ pc[e] = "handler"
    /\ e \in FailingHandlers \/ CannotRead(e)
    /\ pc' = [pc EXCEPT ![e] = "stopped"]
    /\ UNCHANGED <<sendVars, serveVars, envVars, wire, pendingResponses, resp, ackOut, runs>>
-----------------------------------------------------------------------------
(* The pipe between resolveResponse and the caller of Request.             *)

\* WriteTo has a chunk of the body in hand, or the body is empty and the pipe
\* is closed at once.
PipeRead(e) ==
    /\ pc[e] = "pipe"
    /\ IF frame[e].len = 0
       THEN /\ resp' = [resp EXCEPT ![pipeTo[e]] = "full"]
            /\ ackOut' = sendAcknowledge(e, frame[e].id)
            /\ pc' = [pc EXCEPT ![e] = "read"]
       ELSE pc' = [pc EXCEPT ![e] = "pipeWrite"] /\ UNCHANGED <<resp, ackOut>>
    /\ UNCHANGED <<sendVars, serveVars, envVars, wire, pendingResponses, runs>>

\* Reading the body fails or ends early: the pipe is closed all the same, and
\* the caller will see the end of the body where it was cut.
PipeCut(e) ==
    /\ pc[e] = "pipe" /\ frame[e].len > 0
    /\ CannotRead(e)
    /\ resp' = [resp EXCEPT ![pipeTo[e]] = "cut"]
    /\ pc' = [pc EXCEPT ![e] = "stopped"]
    /\ UNCHANGED <<sendVars, serveVars, envVars, wire, pendingResponses, ackOut, runs>>

\* The write end of an io.Pipe blocks until the caller reads.
PipeWrite(e) ==
    /\ pc[e] = "pipeWrite" /\ pc[pipeTo[e]] = "readBody"
    /\ resp' = [resp EXCEPT ![pipeTo[e]] = "full"]
    /\ ackOut' = sendAcknowledge(e, frame[e].id)
    /\ pc' = [pc EXCEPT ![e] = "read"]
    /\ UNCHANGED <<sendVars, serveVars, envVars, wire, pendingResponses, runs>>

\* request's select: the response message, ...
RespArrives(c) ==
    /\ pc[c] = "awaitResp" /\ resp[c] # "none"
    /\ pendingResponses' = unregisterPendingResponse(c)
    /\ pc' = [pc EXCEPT ![c] = "readBody"]
    /\ UNCHANGED <<sendVars, serveVars, envVars, wire, resp, ackOut, runs>>

\* Faulty variant: the context is looked at only once the response is there.
RespCancelledLate(c) ==
    /\ pc[c] = "awaitResp" /\ ctxDone[c] /\ resp[c] # "none"
    /\ pendingResponses' = unregisterPendingResponse(c)
    /\ pc' = [pc EXCEPT ![c] = "err"]
    /\ UNCHANGED <<sendVars, serveVars, envVars, wire, resp, ackOut, runs>>

\* ... or the context, even when the response is there too.
RespCancelled(c) ==
    /\ pc[c] = "awaitResp" /\ ctxDone[c]
    /\ pendingResponses' = unregisterPendingResponse(c)
    /\ pc' = [pc EXCEPT ![c] = "err"]
    /\ UNCHANGED <<sendVars, serveVars, envVars, wire, resp, ackOut, runs>>

\* The response codec has read the body up to the end of the pipe.  A cut body
\* is an error only if the codec notices.
BodyRead(c) ==
    /\ pc[c] = "readBody" /\ resp[c] \in {"full", "cut"}
    /\ \E r \in {"ok", "err"} :
        /\ r = "err" => resp[c] = "cut"
        /\ pc' = [pc EXCEPT ![c] = r]
    /\ UNCHANGED <<sendVars, serveVars, envVars, wire, pendingResponses, resp, ackOut, runs>>
-----------------------------------------------------------------------------
(* The environment.                                                        *)

Cancel(t) ==
    /\ t \in Cancellable /\ ~ctxDone[t]
    /\ ctxDone' = [ctxDone EXCEPT ![t] = TRUE]
    /\ UNCHANGED <<pc, sendVars, serveVars, wire, closed, pendingResponses, resp,
                   ackOut, receiver, runs>>

CloseConn(e) ==
    /\ e \in MayClose \ closed
    /\ closed' = closed \cup {e}
    /\ UNCHANGED <<pc, sendVars, serveVars, wire, ctxDone, pendingResponses, resp,
                   ackOut, receiver, runs>>

\* RemoveReceiver of an M or R empties its slot, ...
RemoveReceiver(e, y) ==
    /\ e \in Removable /\ receiver[e][y]
    /\ receiver' = [receiver EXCEPT ![e][y] = FALSE]
    /\ UNCHANGED <<pc, sendVars, serveVars, wire, ctxDone, closed, pendingResponses,
                   resp, ackOut, runs>>

\* ... OnReceive and OnRequest fill an empty one.
OnReceive(e, y) ==
    /\ e \in Removable /\ ~receiver[e][y]
    /\ receiver' = [receiver EXCEPT ![e][y] = TRUE]
    /\ UNCHANGED <<pc, sendVars, serveVars, wire, ctxDone, closed, pendingResponses,
                   resp, ackOut, runs>>
-----------------------------------------------------------------------------
SendStep(t) ==
    \/ SendRefused(t) \/ BeginAttempt(t) \/ AttemptCancelled(t) \/ SendWrite(t)
    \/ SendFails(t) \/ SendCancelled(t) \/ AckArrives(t) \/ AckTimeout(t)

CallStep(c) ==
    \/ StartCall(c) \/ StartDuplicate(c) \/ RespArrives(c) \/ RespCancelled(c) \/ BodyRead(c)

ServeStep(e) ==
    \/ ServeResponse(e) \/ ServeAck(e) \/ ServeHandle(e) \/ ServeIgnore(e)
    \/ ServeRefuse(e) \/ ServeReturns(e)
    \/ HandlerReturns(e) \/ HandlerReplies(e) \/ HandlerFails(e)
    \/ PipeRead(e) \/ PipeCut(e) \/ PipeWrite(e)

AckStep(e, id) == AckWrite(e, id) \/ AckDropped(e, id)

EnvStep ==
    \/ \E t \in Threads : Cancel(t)
    \/ \E e \in Ends : CloseConn(e)
    \/ \E e \in Ends, y \in Wrapped : RemoveReceiver(e, y) \/ OnReceive(e, y)

Next ==
    \/ \E t \in Threads : SendStep(t)
    \/ \E c \in Calls : CallStep(c)
    \/ \E e \in Ends : ServeStep(e)
    \/ \E e \in Ends, id \in IDs : AckStep(e, id)
    \/ EnvStep

Spec == Init /\ [][Next]_vars

\* Reading the body of the frame in hand blocks: its sender has stalled, and no
\* deadline or close ends the read.
Stalled(e) ==
    /\ pc[e] \in {"handler", "pipe"} /\ frame[e].len > 0
    /\ Peer[e] \in Stalling /\ ~CannotRead(e)

\* conn.Write of an end cannot go on, and no close makes it fail: whoever is in it
\* stays there, and keeps writeLock.
WriteBlocked(e) == ~Room(e) /\ ~Broken

\* A goroutine that can run does, a frame for which there is room is eventually
\* written, timers fire, and callbacks whose input has arrived return.  Nothing
\* obliges anyone to start a call, to cancel, or to close.  A cancelled writer may
\* be inside conn.Write, which does not look at the context, or waiting for
\* writeLock behind a writer that is.
SendProgress(t) ==
    \/ SendRefused(t) \/ BeginAttempt(t) \/ SendWrite(t) \/ SendFails(t)
    \/ AckArrives(t) \/ AckTimeout(t)
    \/ AttemptCancelled(t) /\ ~WriteBlocked(EndOf(t))
CallProgress(c) == RespArrives(c) \/ RespCancelled(c) \/ BodyRead(c)

FairSpec ==
    /\ Spec
    /\ \A t \in Threads : WF_vars(SendProgress(t))
    /\ \A c \in Calls : WF_vars(CallProgress(c))
    /\ \A e \in Ends : WF_vars(ServeStep(e) /\ ~Stalled(e))
    /\ \A e \in Ends, id \in IDs : WF_vars(AckStep(e, id))
-----------------------------------------------------------------------------
(* Properties.                                                             *)

\* Every variable has its type, and SendStreamWithID never begins more attempts
\* than its retry budget allows.
TypeOK ==
    /\ pc \in [Threads -> CallPCs \cup ServePCs]
    /\ \A e \in Ends : pc[e] \in ServePCs
    /\ \A c \in Calls : pc[c] \in CallPCs
    /\ attempt \in [Threads -> Nat]
    /\ \A t \in Threads : attempt[t] <= attempts(t)
    /\ ctxDone \in [Threads -> BOOLEAN]
    /\ wire \in [Ends -> Seq(Frame)]
    /\ closed \subseteq Ends
    /\ pendingAcks \in [Ends -> [IDs -> Threads \cup {None}]]
    /\ acked \in [Threads -> BOOLEAN]
    /\ pendingResponses \in [Ends -> [IDs -> Calls \cup {None}]]
    /\ resp \in [Calls -> {"none", "open", "full", "cut"}]
    /\ frame \in [Ends -> Frame \cup {NoFrame}]
    /\ pipeTo \in [Ends -> Calls \cup {None}]
    /\ ackOut \in [Ends -> [IDs -> Nat]]
    /\ receiver \in [Ends -> [Wrapped -> BOOLEAN]]
    /\ runs \in [Ends -> [IDs -> Nat]]

\* pendingAcks holds no stale channel: an entry belongs to a goroutine of this
\* Messenger that is inside an attempt for that ID and whose channel is still
\* open.  So no entry leaks and resolveAck never closes a channel twice, not
\* even when IDs are reused and entries overwrite each other.
PendingAcksExact ==
    \A e \in Ends, id \in IDs :
        LET t == pendingAcks[e][id] IN
        t # None => /\ EndOf(t) = e /\ Out(t).id = id
                    /\ pc[t] \in {"write", "awaitAck"}
                    /\ RequireAcknowledge[e] /\ ~acked[t]

\* A call of Request whose response has not arrived and that has not returned.
Waiting(c) ==
    CallType[c] = "req" /\ pc[c] \in {"begin", "write", "awaitAck", "awaitResp"}
                        /\ resp[c] = "none"

\* pendingResponses holds exactly the requests that wait: none leaks when a
\* request fails or is cancelled at any point, no channel is sent to twice
\* (resolveResponse would block or panic), and none that waits is forgotten.
PendingResponsesExact ==
    \A e \in Ends, id \in IDs, c \in Calls :
        pendingResponses[e][id] = c <=> CallEnd[c] = e /\ CallID[c] = id /\ Waiting(c)

\* The calls whose ID nobody else uses, as newMessageID makes it.
UniqueID(c) == \A d \in Calls : CallID[d] = CallID[c] => d = c

\* A send that was acknowledged reached a registered callback which returned
\* nil (vsock/approaches.d/typed-handler-semantics.md, "Ack semantics").
AckMeansHandled ==
    \A c \in Calls :
        pc[c] = "ok" /\ CallType[c] = "evt" /\ UniqueID(c) /\ RequireAcknowledge[CallEnd[c]]
            => runs[Peer[CallEnd[c]]][CallID[c]] > 0

\* A request that returned a whole response was answered by the peer's callback:
\* no frame but its own response resolves it.
ResponseMeansHandled ==
    \A c \in Calls :
        pc[c] = "ok" /\ CallType[c] = "req" /\ UniqueID(c)
            => runs[Peer[CallEnd[c]]][CallID[c]] > 0

\* Retries repeat the callback, but never more often than the retry budget, and
\* never for a payload that cannot be replayed or without acknowledgements.
RunsBounded ==
    \A c \in Calls :
        LET e == CallEnd[c] IN
        UniqueID(c) => runs[Peer[e]][CallID[c]] <=
            IF RequireAcknowledge[e] /\ c \in Replayable THEN 1 + MaxRetries[e] ELSE 1

\* Seen from its callers, for the calls whose ID nobody else uses.
Own == {c \in Calls : UniqueID(c)}

Outcome(c) == IF pc[c] \in {"idle", "ok", "err"} THEN pc[c] ELSE "open"

Abstract == INSTANCE Channel WITH
    Calls     <- Own,
    Budget    <- [c \in Own |-> IF RequireAcknowledge[CallEnd[c]] /\ c \in Replayable
                                THEN 1 + MaxRetries[CallEnd[c]] ELSE 1],
    Confirmed <- {c \in Own : CallType[c] = "req" \/
                                 (CallType[c] = "evt" /\ RequireAcknowledge[CallEnd[c]])},
    outcome   <- [c \in Own |-> Outcome(c)],
    served    <- [c \in Own |-> runs[Peer[CallEnd[c]]][CallID[c]]]

\* The connection with its Serve loops, acknowledgements, retries and timers is a
\* channel as module Channel has it: callbacks run only for calls that were made,
\* never beyond the budget, and nobody is told of a success that did not happen.
ImplementsChannel == Abstract!Spec

\* Both Serve loops are in conn.Write with a response, and neither reads.
CrossedReplies == \A e \in Ends : pc[e] = "write" /\ WriteBlocked(e)

\* What may keep a request from its response: somebody gave up, a Serve loop has
\* returned, a body has stalled, or the two Serve loops wait for each other.
Obstructed ==
    \/ \E d \in Calls : ctxDone[d]
    \/ \E e \in Ends : pc[e] = "stopped" \/ Stalled(e)
    \/ CrossedReplies

\* A request that has started, and is not too large, returns its response, unless
\* it is obstructed for good: although each Serve loop reads, runs callbacks,
\* answers and fills pipes on one goroutine, crossed replies are the only way for
\* them to wait for each other, and a second request with the same ID does not
\* cost the first its response.
RequestCompletes ==
    \A c \in Calls :
        pc[c] = "begin" /\ ~Refused(c) ~> pc[c] = "ok" \/ []Obstructed

\* A call that is where no context reaches it: in conn.Write (or waiting for
\* writeLock behind it), or in the codec that reads a body which does not come.
Deaf(c) ==
    \/ pc[c] \in {"begin", "write"} /\ WriteBlocked(CallEnd[c])
    \/ pc[c] = "readBody" /\ resp[c] = "open"

\* A call whose context is done returns (request-response.md: "timeout comes
\* from the request context"), unless it stays for good in conn.Write or in the
\* codec, the only two places where the context is not looked at.
CancelledCallReturns ==
    \A c \in Calls :
        ctxDone[c] /\ pc[c] # "idle" ~> pc[c] \in {"ok", "err"} \/ []Deaf(c)

\* A Serve whose context is done returns.
CancelledServeReturns ==
    \A e \in Ends : ctxDone[e] ~> pc[e] = "stopped"

\* A Serve loop that hands a response to its caller gets rid of it.
ResponseHandedOver ==
    \A e \in Ends : pc[e] = "pipeWrite" ~> pc[e] # "pipeWrite"
=============================================================================
