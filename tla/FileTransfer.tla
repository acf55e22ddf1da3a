----------------------------- MODULE FileTransfer -----------------------------
(***************************************************************************)
(* FileTransfer (vsock/protocol/common/file_transfer.go): goroutines that  *)
(* call SendFile on one Messenger, and the open, body and commit handlers  *)
(* of the peer, which run one at a time on its Serve goroutine.            *)
(*                                                                         *)
(* Of the Messenger (module Messenger) this keeps what SendFile can see:   *)
(* frames arrive in order, a request may be written again while it is      *)
(* outstanding, its first response is the one it gets, a caller may give   *)
(* up at any time, and a failing handler ends Serve.  With acknowledgements *)
(* on, a request does not read its response before the acknowledgement     *)
(* that the response keeps from being read (the finding acked_request), so *)
(* every response may also remain unread; that it may be read then, too,   *)
(* is what module Channel promises.                                        *)
(* A checksum is the content it was computed from.                         *)
(***************************************************************************)
EXTENDS Integers, FiniteSets, Sequences

CONSTANTS
    Senders,      \* goroutines that each call SendFile once
    IDs,          \* transfer IDs
    TransferID,   \* the ID a sender uses
    Dests,        \* final paths
    Dest,         \* the path the receiver's plan gives to a sender's file
    GivenSHA256,  \* the checksum the caller supplies, or None to compute it
    Bytes, MaxLen,  \* a file has at most MaxLen of these bytes
    RequireAcknowledge,  \* MessengerConfig of the senders' Messenger
    Retries,      \* times it may repeat a sender's request
    MaxChanges,   \* bound on modifications of the files being sent
    Failures,     \* what may fail: subset of Faults
    None

Faults   == {"plan", "temp", "disk", "rename", "conn"}
Contents == UNION {[1..n -> Bytes] : n \in 0..MaxLen}

ASSUME TransferAssumption ==
    /\ TransferID \in [Senders -> IDs]
    /\ Dest \in [Senders -> Dests]
    /\ GivenSHA256 \in [Senders -> Contents \cup {None}]
    /\ MaxLen \in Nat /\ MaxChanges \in Nat
    /\ RequireAcknowledge \in BOOLEAN
    /\ Retries \in [Senders -> Nat]
    /\ ~RequireAcknowledge => \A s \in Senders : Retries[s] = 0
    /\ Failures \subseteq Faults
    /\ None \notin Contents

VARIABLES
    pc,         \* where each SendFile is
    src,        \* content of the file it sends, which others may modify
    changes,    \* modifications so far
    size, sha,  \* FileTransferRequest: Size and SHA256, None before they are known
    repeats,    \* retries used for the outstanding request
    answer,     \* the response to a sender's request: what it says, or "unread"
    wire,       \* frames on their way to the receiver
    torn,       \* a frame was left incomplete: nothing after it makes sense
    serving,    \* the receiver's Serve runs
    onReceive,  \* FileTransfer.onReceive is set
    incoming,   \* FileTransfer.incoming
    temps,      \* host: .part files that exist
    final,      \* host: content of each final path
    installed   \* history: senders whose file was renamed into place

vars == <<pc, src, changes, size, sha, repeats, answer, wire, torn, serving, onReceive,
          incoming, temps, final, installed>>
requestVars  == <<size, sha>>
fileVars     == <<src, changes>>
wireVars     == <<wire, torn>>
receiverVars == <<incoming, temps, final, installed>>

PCs   == {"idle", "stat", "open", "accepted", "sent", "commit", "ok", "rejected", "failed"}
Busy  == {"stat", "open", "accepted", "sent", "commit"}
Kinds == {"open", "body", "torn", "commit"}
Entry == [by : Senders, temp : Nat, content : Contents, bodyWritten : BOOLEAN]

ASSUME EntryAssumption == None \notin Entry

Init ==
    /\ pc = [s \in Senders |-> "idle"]
    /\ src \in [Senders -> Contents]
    /\ changes = 0
    /\ size = [s \in Senders |-> 0] /\ sha = [s \in Senders |-> None]
    /\ repeats = [s \in Senders |-> 0]
    /\ answer = [s \in Senders |-> "none"]
    /\ wire = <<>> /\ torn = FALSE /\ serving = TRUE /\ onReceive = FALSE
    /\ incoming = [i \in IDs |-> None]
    /\ temps = {}
    /\ final = [d \in Dests |-> None]
    /\ installed = {}

CanFail(f) == f \in Failures
Goto(s, l) == pc' = [pc EXCEPT ![s] = l]
-----------------------------------------------------------------------------
(* SendFile.                                                               *)

\* What is written behind an incomplete frame is taken for the rest of it.
Put(s, kind, data) ==
    IF torn THEN wire ELSE Append(wire, [from |-> s, kind |-> kind, data |-> data])

\* os.Stat gives the size, ...
StatFile(s) ==
    /\ pc[s] = "idle"
    /\ size' = [size EXCEPT ![s] = Len(src[s])]
    /\ Goto(s, "stat")
    /\ UNCHANGED <<fileVars, sha, repeats, answer, wireVars, serving, onReceive, receiverVars>>

\* ... checksumFile then reads the file, and the open request is written.
RequestOpen(s) ==
    /\ pc[s] = "stat"
    /\ sha' = [sha EXCEPT ![s] = IF GivenSHA256[s] = None THEN src[s] ELSE GivenSHA256[s]]
    /\ wire' = Put(s, "open", <<>>)
    /\ repeats' = [repeats EXCEPT ![s] = 0]
    /\ answer' = [answer EXCEPT ![s] = "none"]
    /\ Goto(s, "open")
    /\ UNCHANGED <<fileVars, size, torn, serving, onReceive, receiverVars>>

\* Faulty variant: one retry too many.
RetryRequestLate(s) ==
    /\ pc[s] \in {"open", "commit"} /\ repeats[s] <= Retries[s]
    /\ wire' = Put(s, pc[s], <<>>)
    /\ repeats' = [repeats EXCEPT ![s] = @ + 1]
    /\ UNCHANGED <<pc, fileVars, requestVars, answer, torn, serving, onReceive, receiverVars>>

\* The Messenger repeats an open or commit it has seen no acknowledgement of.
RetryRequest(s) ==
    /\ pc[s] \in {"open", "commit"} /\ repeats[s] < Retries[s]
    /\ wire' = Put(s, pc[s], <<>>)
    /\ repeats' = [repeats EXCEPT ![s] = @ + 1]
    /\ UNCHANGED <<pc, fileVars, requestVars, answer, torn, serving, onReceive, receiverVars>>

OpenAnswered(s) ==
    /\ pc[s] = "open" /\ answer[s] \in {"yes", "no"}
    /\ Goto(s, IF answer[s] = "yes" THEN "accepted" ELSE "rejected")
    /\ UNCHANGED <<fileVars, requestVars, repeats, answer, wireVars, serving, onReceive,
                   receiverVars>>

\* The file is opened again; as many bytes as were announced are sent, of what
\* it holds by now.  The body cannot be replayed and is sent once.
SendBody(s) ==
    /\ pc[s] = "accepted" /\ Len(src[s]) >= size[s]
    /\ wire' = Put(s, "body", SubSeq(src[s], 1, size[s]))
    /\ Goto(s, "sent")
    /\ UNCHANGED <<fileVars, requestVars, repeats, answer, torn, serving, onReceive,
                   receiverVars>>

\* The file has become shorter, or the context is done in mid-frame: Send
\* returns an error after part of the frame.
SendBodyTorn(s) ==
    /\ pc[s] = "accepted" /\ size[s] > 0
    /\ \E n \in 0..MaxLen :
        /\ n < size[s] /\ n <= Len(src[s])
        /\ wire' = Put(s, "torn", SubSeq(src[s], 1, n))
    /\ torn' = TRUE
    /\ Goto(s, "failed")
    /\ UNCHANGED <<fileVars, requestVars, repeats, answer, serving, onReceive, receiverVars>>

RequestCommit(s) ==
    /\ pc[s] = "sent"
    /\ wire' = Put(s, "commit", <<>>)
    /\ repeats' = [repeats EXCEPT ![s] = 0]
    /\ answer' = [answer EXCEPT ![s] = "none"]
    /\ Goto(s, "commit")
    /\ UNCHANGED <<fileVars, requestVars, torn, serving, onReceive, receiverVars>>

CommitAnswered(s) ==
    /\ pc[s] = "commit" /\ answer[s] \in {"yes", "no"}
    /\ Goto(s, IF answer[s] = "yes" THEN "ok" ELSE "rejected")
    /\ UNCHANGED <<fileVars, requestVars, repeats, answer, wireVars, serving, onReceive,
                   receiverVars>>

\* The context is done, the connection fails, or the file cannot be read.  There
\* is no message that tells the receiver.
GiveUp(s) ==
    /\ pc[s] \in Busy
    /\ Goto(s, "failed")
    /\ UNCHANGED <<fileVars, requestVars, repeats, answer, wireVars, serving, onReceive,
                   receiverVars>>
-----------------------------------------------------------------------------
(* The receiver's handlers, each a whole turn of Serve.                    *)

Arrives(kind) ==
    /\ serving /\ wire # <<>> /\ Head(wire).kind = kind
    /\ wire' = Tail(wire)

\* The senders' Serve writes a response into a pipe that nobody reads.
Stuck == \E s \in Senders : answer[s] = "unread"

\* What becomes of a response that says a.
Delivered(a) ==
    IF Stuck THEN {"unread"} ELSE {a} \cup {u \in {"unread"} : RequireAcknowledge}

\* Faulty variant: a response resolves whatever its sender waits for.
ReplyAny(s, kind, a) ==
    IF pc[s] \in {"open", "commit"} /\ answer[s] = "none"
    THEN \E d \in Delivered(a) : answer' = [answer EXCEPT ![s] = d]
    ELSE UNCHANGED answer

\* A response carries the ID of its request: it reaches the sender only while
\* that request is pending, and only the first one does.  Behind a response that
\* nobody reads no other is read either.
Reply(s, kind, a) ==
    IF pc[s] = kind /\ answer[s] = "none"
    THEN \E d \in Delivered(a) : answer' = [answer EXCEPT ![s] = d]
    ELSE UNCHANGED answer

\* Faulty variant: the transfer ID is not looked up.
ExistsNever(s) == FALSE

Exists(s) == incoming[TransferID[s]] # None

\* os.CreateTemp picks a name that is not taken.
NewTemp == CHOOSE n \in 1..(Cardinality(temps) + 1) : n \notin temps

handleOpen ==
    /\ Arrives("open")
    /\ LET s == Head(wire).from IN
       \/ /\ ~Exists(s) /\ onReceive
          /\ incoming' = [incoming EXCEPT ![TransferID[s]] =
                 [by |-> s, temp |-> NewTemp, content |-> <<>>, bodyWritten |-> FALSE]]
          /\ temps' = temps \cup {NewTemp}
          /\ Reply(s, "open", "yes")
       \/ /\ Exists(s) \/ ~onReceive \/ CanFail("plan") \/ CanFail("temp")
          /\ Reply(s, "open", "no")
          /\ UNCHANGED <<incoming, temps>>
    /\ UNCHANGED <<pc, fileVars, requestVars, repeats, torn, serving, onReceive, final,
                   installed>>

AwaitsBody(i) == incoming[i] # None /\ ~incoming[i].bodyWritten

\* The body of a known transfer is copied to its temporary file.
handleBody ==
    /\ Arrives("body")
    /\ LET f == Head(wire)  i == TransferID[f.from] IN
        /\ AwaitsBody(i)
        /\ incoming' = [incoming EXCEPT ![i].content = f.data, ![i].bodyWritten = TRUE]
    /\ UNCHANGED <<pc, fileVars, requestVars, repeats, answer, torn, serving, onReceive,
                   temps, final, installed>>

\* It fails: there is no such transfer, it has its body already, or the disk is
\* full.  Serve returns.
handleBodyFails ==
    /\ Arrives("body")
    /\ LET f == Head(wire)  i == TransferID[f.from] IN
       \/ ~AwaitsBody(i) /\ UNCHANGED incoming
       \/ /\ AwaitsBody(i) /\ CanFail("disk")
          /\ \E n \in 0..Len(f.data) :
                incoming' = [incoming EXCEPT ![i].content = SubSeq(f.data, 1, n)]
    /\ serving' = FALSE
    /\ UNCHANGED <<pc, fileVars, requestVars, repeats, answer, torn, onReceive, temps, final,
                   installed>>

\* An incomplete body is filled up with whatever was written next, or ends with
\* the connection; io.Copy reports neither.  Serve finds no header behind it.
handleTornBody ==
    /\ Arrives("torn")
    /\ LET f == Head(wire)  i == TransferID[f.from] IN
       IF AwaitsBody(i)
       THEN \E c \in Contents :
              /\ Len(f.data) <= Len(c) /\ Len(c) <= size[f.from]
              /\ SubSeq(c, 1, Len(f.data)) = f.data
              /\ incoming' = [incoming EXCEPT ![i].content = c, ![i].bodyWritten = TRUE]
       ELSE UNCHANGED incoming
    /\ serving' = FALSE
    /\ UNCHANGED <<pc, fileVars, requestVars, repeats, answer, torn, onReceive, temps, final,
                   installed>>

\* Faulty variant: the checksum is not compared.
VerifiedSize(e) == e.bodyWritten /\ Len(e.content) = size[e.by]

\* The body is there, with the size and the checksum announced when the transfer
\* was opened.
Verified(e) == e.bodyWritten /\ Len(e.content) = size[e.by] /\ e.content = sha[e.by]


commitUnknown ==
    /\ Arrives("commit") /\ ~Exists(Head(wire).from)
    /\ Reply(Head(wire).from, "commit", "no")
    /\ UNCHANGED <<pc, fileVars, requestVars, repeats, torn, serving, onReceive, receiverVars>>

\* Faulty variant: success is reported before the rename is known to work.
commitRenamesEarly ==
    /\ Arrives("commit") /\ Exists(Head(wire).from)
    /\ LET s == Head(wire).from  e == incoming[TransferID[s]] IN
        /\ Verified(e)
        /\ \/ /\ final' = [final EXCEPT ![Dest[e.by]] = e.content]
              /\ installed' = installed \cup {e.by}
           \/ CanFail("rename") /\ UNCHANGED <<final, installed>>
        /\ temps' = temps \ {e.temp}
        /\ incoming' = [incoming EXCEPT ![TransferID[s]] = None]
        /\ Reply(s, "commit", "yes")
    /\ UNCHANGED <<pc, fileVars, requestVars, repeats, torn, serving, onReceive>>

\* The temporary file becomes the final one.
commitRenames ==
    /\ Arrives("commit") /\ Exists(Head(wire).from)
    /\ LET s == Head(wire).from  e == incoming[TransferID[s]] IN
        /\ Verified(e)
        /\ final' = [final EXCEPT ![Dest[e.by]] = e.content]
        /\ installed' = installed \cup {e.by}
        /\ temps' = temps \ {e.temp}
        /\ incoming' = [incoming EXCEPT ![TransferID[s]] = None]
        /\ Reply(s, "commit", "yes")
    /\ UNCHANGED <<pc, fileVars, requestVars, repeats, torn, serving, onReceive>>

\* Faulty variant: the temporary file of a refused transfer is left behind.
commitRefusedKeepsTemp ==
    /\ Arrives("commit") /\ Exists(Head(wire).from)
    /\ LET s == Head(wire).from  e == incoming[TransferID[s]] IN
        /\ ~Verified(e) \/ CanFail("rename")
        /\ incoming' = [incoming EXCEPT ![TransferID[s]] = None]
        /\ Reply(s, "commit", "no")
    /\ UNCHANGED <<pc, fileVars, requestVars, repeats, torn, serving, onReceive, temps, final,
                   installed>>

\* The transfer does not verify, or the rename fails: its temporary file goes.
commitRefused ==
    /\ Arrives("commit") /\ Exists(Head(wire).from)
    /\ LET s == Head(wire).from  e == incoming[TransferID[s]] IN
        /\ ~Verified(e) \/ CanFail("rename")
        /\ temps' = temps \ {e.temp}
        /\ incoming' = [incoming EXCEPT ![TransferID[s]] = None]
        /\ Reply(s, "commit", "no")
    /\ UNCHANGED <<pc, fileVars, requestVars, repeats, torn, serving, onReceive, final,
                   installed>>

handleCommit == commitUnknown \/ commitRenames \/ commitRefused
-----------------------------------------------------------------------------
(* The environment.                                                        *)

OnReceive ==
    /\ ~onReceive /\ onReceive' = TRUE
    /\ UNCHANGED <<pc, fileVars, requestVars, repeats, answer, wireVars, serving, receiverVars>>

ChangeFile(s) ==
    /\ pc[s] \in Busy /\ changes < MaxChanges
    /\ changes' = changes + 1
    /\ \E c \in Contents \ {src[s]} : src' = [src EXCEPT ![s] = c]
    /\ UNCHANGED <<pc, requestVars, repeats, answer, wireVars, serving, onReceive, receiverVars>>

\* The receiver's Serve returns: its context, or the connection.
ServeEnds ==
    /\ serving /\ CanFail("conn") /\ serving' = FALSE
    /\ UNCHANGED <<pc, fileVars, requestVars, repeats, answer, wireVars, onReceive, receiverVars>>
-----------------------------------------------------------------------------
SendFile(s) ==
    \/ StatFile(s) \/ RequestOpen(s) \/ RetryRequest(s) \/ OpenAnswered(s) \/ SendBody(s)
    \/ SendBodyTorn(s) \/ RequestCommit(s) \/ CommitAnswered(s) \/ GiveUp(s)

Serve == handleOpen \/ handleBody \/ handleBodyFails \/ handleTornBody \/ handleCommit

Next ==
    \/ \E s \in Senders : SendFile(s) \/ ChangeFile(s)
    \/ Serve \/ OnReceive \/ ServeEnds

Spec == Init /\ [][Next]_vars

\* A SendFile under way goes on, without anybody giving up, and so does Serve.
Progress(s) ==
    \/ RequestOpen(s) \/ OpenAnswered(s) \/ SendBody(s) \/ SendBodyTorn(s)
    \/ RequestCommit(s) \/ CommitAnswered(s)

FairSpec == Spec /\ WF_vars(Serve) /\ \A s \in Senders : WF_vars(Progress(s))
-----------------------------------------------------------------------------
(* Properties.                                                             *)

\* Every variable has its type, and no request is repeated beyond its budget.
TypeOK ==
    /\ pc \in [Senders -> PCs]
    /\ src \in [Senders -> Contents]
    /\ changes \in 0..MaxChanges
    /\ size \in [Senders -> 0..MaxLen]
    /\ sha \in [Senders -> Contents \cup {None}]
    /\ repeats \in [Senders -> Nat] /\ \A s \in Senders : repeats[s] <= Retries[s]
    /\ answer \in [Senders -> {"none", "yes", "no", "unread"}]
    /\ wire \in Seq([from : Senders, kind : Kinds, data : Contents])
    /\ torn \in BOOLEAN /\ serving \in BOOLEAN /\ onReceive \in BOOLEAN
    /\ incoming \in [IDs -> Entry \cup {None}]
    /\ temps \subseteq Nat
    /\ final \in [Dests -> Contents \cup {None}]
    /\ installed \subseteq Senders

\* A final path never shows a partial or foreign file: what is there is exactly
\* what some sender announced for it, whatever happened to the file, the frames
\* and the receiver on the way.
FinalIsWhole ==
    \A d \in Dests :
        final[d] # None => \E s \in installed :
            Dest[s] = d /\ final[d] = sha[s] /\ Len(final[d]) = size[s]

\* Nobody else who uses the transfer ID of s repeats requests.
IDRespected(s) ==
    \A r \in Senders \ {s} : TransferID[r] = TransferID[s] => Retries[r] = 0

\* SendFile returns success only for a file that was put in place (with a third
\* sender of the same ID, the repeated commit of another one can make room for a
\* transfer that this sender's commit then installs).
SuccessMeansInstalled ==
    \A s \in Senders : IDRespected(s) /\ pc[s] = "ok" => s \in installed

\* A transfer the receiver refused in so many words was not put in place, not
\* even when its own requests were repeated (a sender that gave up knows nothing,
\* and a repeated commit of another sender can commit this one's transfer).
RefusalMeansNotInstalled ==
    \A s \in Senders : IDRespected(s) /\ pc[s] = "rejected" => s \notin installed

\* The .part files are those of the open transfers: none is orphaned by a repeated
\* open, a refused commit or a failed rename, and none disappears too early.
TempsOwned == temps = {incoming[i].temp : i \in {j \in IDs : incoming[j] # None}}

\* A transfer that was accepted stays open, and its sender's, until its commit:
\* neither another sender of the same ID nor a repeated open takes it over.
SessionKept ==
    \A s \in Senders :
        IDRespected(s) /\ pc[s] \in {"accepted", "sent"}
            => Exists(s) /\ incoming[TransferID[s]].by = s

=============================================================================
