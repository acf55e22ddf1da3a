-------------------------- MODULE FileTransferProofs --------------------------
(***************************************************************************)
(* Proofs about FileTransfer for any senders, transfer IDs, files, retry   *)
(* budgets and failures.                                                   *)
(***************************************************************************)
EXTENDS FileTransfer, SequenceTheorems, FiniteSetTheorems, TLAPS

Frame == [from : Senders, kind : Kinds, data : Contents]

\* A frame of this kind from sender s is on its way.
OnWire(s, kind) == \E j \in 1..Len(wire) : wire[j].from = s /\ wire[j].kind = kind

Stage(kind) == IF kind = "open" THEN 0 ELSE IF kind = "commit" THEN 2 ELSE 1

\* A sender has put no frames on the wire but those of the requests it has made, ...
WireFollowsPC ==
    \A s \in Senders, k \in Kinds : OnWire(s, k) =>
        /\ pc[s] \notin {"idle", "stat"}
        /\ pc[s] \in {"open", "accepted"} => k = "open"
        /\ pc[s] = "sent" => k # "commit"

\* ... they are in the order of the protocol, ...
WireInOrder ==
    \A j, k \in 1..Len(wire) :
        j < k /\ wire[j].from = wire[k].from => Stage(wire[j].kind) <= Stage(wire[k].kind)

\* ... and only a sender that may repeat its requests has two commits under way.
CommitOnce ==
    \A j, k \in 1..Len(wire) :
        /\ wire[j].from = wire[k].from /\ Retries[wire[j].from] = 0
        /\ wire[j].kind = "commit" /\ wire[k].kind = "commit"
        => j = k

\* The transfers the receiver knows, open or installed, were announced by their
\* senders, whose size and checksum do not change any more.
Announced ==
    /\ \A i \in IDs : incoming[i] # None =>
        TransferID[incoming[i].by] = i /\ pc[incoming[i].by] \notin {"idle", "stat"}
    /\ \A s \in installed : pc[s] \notin {"idle", "stat"}

\* Open transfers have different .part files.
TempsDistinct ==
    /\ IsFiniteSet(temps)
    /\ \A i, j \in IDs :
        incoming[i] # None /\ incoming[j] # None /\ incoming[i].temp = incoming[j].temp => i = j

\* The open transfer of the ID of s is its own.
Holds(s) == Exists(s) /\ incoming[TransferID[s]].by = s

\* The transfer of s is not open and will not be opened any more.
Closed(s) == ~OnWire(s, "open") /\ ~Holds(s)

\* s was told that its transfer is open, and its commit has not been handled yet.
Owes(s) ==
    \/ pc[s] = "open" /\ answer[s] = "yes"
    \/ pc[s] \in {"accepted", "sent"}
    \/ pc[s] = "commit" /\ answer[s] = "none"
    \/ \E k \in {"body", "torn", "commit"} : OnWire(s, k)

\* No commit of s has been handled.
Fresh(s) ==
    \/ pc[s] \in {"idle", "stat", "open", "accepted", "sent"}
    \/ pc[s] = "commit" /\ answer[s] = "none"
    \/ pc[s] = "rejected" /\ ~Closed(s)

\* When the answer to a commit is there, the transfer is closed for good; one that
\* was refused when it was opened has sent no body and no commit.
AnswerCloses ==
    \A s \in Senders :
        /\ pc[s] = "commit" /\ answer[s] # "none" => Closed(s)
        /\ pc[s] = "rejected" =>
            Closed(s) \/ \A k \in {"body", "torn", "commit"} : ~OnWire(s, k)

\* As long as no commit of s has been handled, nobody of the same ID who has been
\* told that his transfer is open has lost it: bodies and commits find their own.
OwnersKept ==
    \A s \in Senders : IDRespected(s) /\ Fresh(s) =>
        \A r \in Senders : TransferID[r] = TransferID[s] /\ Owes(r) => Holds(r)

\* What the answer to a commit says is what happened to the file.
AnswerTrue ==
    \A s \in Senders : IDRespected(s) =>
        /\ pc[s] = "commit" /\ answer[s] = "yes" => s \in installed
        /\ Fresh(s) => s \notin installed
        /\ pc[s] = "commit" /\ answer[s] = "no" => s \notin installed

\* The inductive invariant, in three layers.
WireInv     == TypeOK /\ WireFollowsPC /\ WireInOrder /\ CommitOnce
ReceiverInv == WireInv /\ Announced /\ TempsDistinct /\ TempsOwned /\ FinalIsWhole
IInv        == ReceiverInv /\ AnswerCloses /\ OwnersKept /\ AnswerTrue /\ SuccessMeansInstalled
               /\ RefusalMeansNotInstalled
-----------------------------------------------------------------------------
(* Lemmas about files, frames and names.                                   *)

\* Contents are the short sequences of bytes.
LEMMA ContentsAreSeqs ==
    \A c : c \in Contents <=> c \in Seq(Bytes) /\ Len(c) <= MaxLen
<1> MaxLen \in Nat
  BY TransferAssumption
<1>1. ASSUME NEW n \in 0..MaxLen, NEW c \in [1..n -> Bytes]
      PROVE  c \in Seq(Bytes) /\ Len(c) <= MaxLen
  <2>1. c \in Seq(Bytes)
    BY SeqDef
  <2> QED
    BY <2>1, LenProperties
<1>2. ASSUME NEW c \in Seq(Bytes), Len(c) <= MaxLen
      PROVE  c \in Contents
  <2>1. Len(c) \in 0..MaxLen /\ c \in [1..Len(c) -> Bytes]
    BY <1>2, LenProperties
  <2> QED
    BY <2>1 DEF Contents
<1> QED
  BY <1>1, <1>2 DEF Contents

\* A file that was cut is a file.
LEMMA Prefix ==
    ASSUME NEW c \in Contents, NEW n \in Nat, n <= Len(c)
    PROVE  SubSeq(c, 1, n) \in Contents
<1> c \in Seq(Bytes) /\ Len(c) <= MaxLen /\ MaxLen \in Nat
  BY ContentsAreSeqs, TransferAssumption
<1>1. \A i \in 1..n : c[i] \in Bytes
  BY LenProperties, ElementOfSeq
<1>2. SubSeq(c, 1, n) \in Seq(Bytes)
  BY <1>1, SubSeqProperties, 1 \in Int, n \in Int, Zenon
<1>3. Len(SubSeq(c, 1, n)) = n
  OBVIOUS
<1>4. Len(SubSeq(c, 1, n)) <= MaxLen
  BY <1>3, LenProperties
<1> QED
  BY <1>2, <1>4, ContentsAreSeqs

\* So is one of no bytes.
LEMMA Empty == <<>> \in Contents
<1>1. <<>> \in Seq(Bytes) /\ Len(<<>>) = 0
  BY EmptySeq
<1>2. Len(<<>>) <= MaxLen
  BY <1>1, TransferAssumption
<1> QED
  BY <1>1, <1>2, ContentsAreSeqs

\* os.CreateTemp always finds a name that is not taken.
LEMMA NewTempIsNew ==
    ASSUME IsFiniteSet(temps)
    PROVE  NewTemp \in Nat /\ NewTemp \notin temps
<1> DEFINE n == Cardinality(temps)
<1>1. n \in Nat
  BY FS_CardinalityType
<1>2. IsFiniteSet(1..(n + 1)) /\ Cardinality(1..(n + 1)) = n + 1
  BY <1>1, FS_Interval
<1>3. ~(1..(n + 1) \subseteq temps)
  BY <1>1, <1>2, FS_Subset
<1> QED
  BY <1>1, <1>3 DEF NewTemp

\* A sender appends one frame, or none once a body was cut short.
LEMMA WirePut ==
    ASSUME TypeOK, NEW s \in Senders, NEW k \in Kinds, NEW d \in Contents, wire' = Put(s, k, d)
    PROVE  /\ wire' \in Seq(Frame)
           /\ \/ wire' = wire
              \/ /\ Len(wire') = Len(wire) + 1
                 /\ \A j \in 1..Len(wire) : wire'[j] = wire[j]
                 /\ wire'[Len(wire) + 1] = [from |-> s, kind |-> k, data |-> d]
<1> DEFINE f == [from |-> s, kind |-> k, data |-> d]
<1>1. f \in Frame /\ wire \in Seq(Frame)
  BY DEF Frame, TypeOK
<1>2. wire' = wire \/ wire' = Append(wire, f)
  BY DEF Put
<1> HIDE DEF f
<1> QED
  BY <1>1, <1>2 DEF f

\* A handler takes the first frame.
LEMMA WireTake ==
    ASSUME TypeOK, NEW k, Arrives(k)
    PROVE  /\ wire' \in Seq(Frame) /\ Len(wire) \in Nat \ {0} /\ Len(wire') = Len(wire) - 1
           /\ \A j \in 1..Len(wire') : wire'[j] = wire[j + 1]
           /\ Head(wire) = wire[1] /\ Head(wire) \in Frame
           /\ wire[1].from \in Senders /\ wire[1].kind = k /\ wire[1].data \in Contents
<1>1. wire \in Seq(Frame) /\ wire # <<>> /\ wire' = Tail(wire) /\ Head(wire).kind = k
  BY DEF TypeOK, Arrives, Frame
<1>2. wire' \in Seq(Frame) /\ Len(wire') = Len(wire) - 1 /\ Len(wire) \in Nat \ {0}
      /\ Head(wire) \in Frame /\ \A j \in 1..Len(wire') : wire'[j] = wire[j + 1]
  BY <1>1, HeadTailProperties, EmptySeq
<1>3. Head(wire) = wire[1]
  BY <1>1
<1> QED
  BY <1>1, <1>2, <1>3 DEF Frame

-----------------------------------------------------------------------------
(* Type correctness.                                                       *)

\* The steps of SendFile keep the type.
LEMMA TypeSend ==
    ASSUME TypeOK, NEW s \in Senders, SendFile(s)
    PROVE  TypeOK'
<1> USE TransferAssumption DEF Goto, PCs, Busy, requestVars, fileVars, wireVars, receiverVars
<1> USE DEF TypeOK
<1>0. src[s] \in Contents /\ Len(src[s]) \in 0..MaxLen /\ size[s] \in 0..MaxLen
  BY ContentsAreSeqs, LenProperties
<1>1. CASE StatFile(s)
  BY <1>0, <1>1 DEF StatFile
<1>2. CASE RequestOpen(s)
  <2>1. wire' \in Seq(Frame)
    BY <1>2, WirePut, Empty DEF RequestOpen, Kinds
  <2>2. sha' \in [Senders -> Contents \cup {None}]
    BY <1>0, <1>2 DEF RequestOpen
  <2> QED
    BY <1>2, <2>1, <2>2 DEF RequestOpen, Frame
<1>3. CASE RetryRequest(s)
  <2>1. wire' \in Seq(Frame)
    BY <1>3, WirePut, Empty DEF RetryRequest, Kinds
  <2> QED
    BY <1>3, <2>1 DEF RetryRequest, Frame
<1>4. CASE OpenAnswered(s) \/ CommitAnswered(s) \/ GiveUp(s)
  BY <1>4 DEF OpenAnswered, CommitAnswered, GiveUp
<1>5. CASE SendBody(s)
  <2>1. SubSeq(src[s], 1, size[s]) \in Contents
    BY <1>0, <1>5, Prefix DEF SendBody
  <2>2. wire' \in Seq(Frame)
    BY <1>5, <2>1, WirePut DEF SendBody, Kinds
  <2> QED
    BY <1>5, <2>2 DEF SendBody, Frame
<1>6. CASE SendBodyTorn(s)
  <2>1. PICK n \in 0..MaxLen : n <= Len(src[s]) /\ wire' = Put(s, "torn", SubSeq(src[s], 1, n))
    BY <1>6 DEF SendBodyTorn
  <2>2. SubSeq(src[s], 1, n) \in Contents
    BY <1>0, <2>1, Prefix
  <2>3. wire' \in Seq(Frame)
    BY <2>1, <2>2, WirePut DEF Kinds
  <2> QED
    BY <1>6, <2>3 DEF SendBodyTorn, Frame
<1>7. CASE RequestCommit(s)
  <2>1. wire' \in Seq(Frame)
    BY <1>7, WirePut, Empty DEF RequestCommit, Kinds
  <2> QED
    BY <1>7, <2>1 DEF RequestCommit, Frame
<1> QED
  BY <1>1, <1>2, <1>3, <1>4, <1>5, <1>6, <1>7 DEF SendFile

\* A reply reaches the sender whose request is pending, who reads it or does not.
LEMMA ReplyEffect ==
    ASSUME NEW s \in Senders, NEW k, NEW a, Reply(s, k, a)
    PROVE  \/ ~(pc[s] = k /\ answer[s] = "none") /\ UNCHANGED answer
           \/ /\ pc[s] = k /\ answer[s] = "none"
              /\ \E d \in {a, "unread"} : answer' = [answer EXCEPT ![s] = d]
<1> Delivered(a) \subseteq {a, "unread"}
  BY DEF Delivered
<1> QED
  BY DEF Reply

\* A reply is an answer.
LEMMA ReplyType ==
    ASSUME TypeOK, NEW s \in Senders, NEW k, NEW a \in {"yes", "no"}, Reply(s, k, a)
    PROVE  answer' \in [Senders -> {"none", "yes", "no", "unread"}]
<1> answer \in [Senders -> {"none", "yes", "no", "unread"}]
  BY DEF TypeOK
<1> QED
  BY ReplyEffect

\* What a body does to an open transfer.
Written(i, c) == [incoming EXCEPT ![i].content = c]
WrittenAll(i, c) == [incoming EXCEPT ![i].content = c, ![i].bodyWritten = TRUE]

\* The transfers are those of incoming, with their senders and files.
SameTransfers(table) ==
    /\ table \in [IDs -> Entry \cup {None}]
    /\ \A i \in IDs : /\ table[i] # None <=> incoming[i] # None
                      /\ incoming[i] # None => /\ table[i].by = incoming[i].by
                                               /\ table[i].temp = incoming[i].temp

\* Writing a body changes the content of its transfer, not which transfers are open.
LEMMA WrittenSame ==
    ASSUME TypeOK, NEW i \in IDs, AwaitsBody(i), NEW c \in Contents
    PROVE  SameTransfers(Written(i, c)) /\ SameTransfers(WrittenAll(i, c))
<1>1. incoming \in [IDs -> Entry \cup {None}] /\ incoming[i] \in Entry
  BY DEF TypeOK, AwaitsBody
<1>2. ASSUME NEW e \in Entry, e.by = incoming[i].by, e.temp = incoming[i].temp
      PROVE  SameTransfers([incoming EXCEPT ![i] = e])
  <2>1. e # None /\ incoming[i] # None
    BY <1>1, EntryAssumption
  <2> QED
    BY <1>1, <1>2, <2>1 DEF SameTransfers
<1>3. SameTransfers([incoming EXCEPT ![i] = [incoming[i] EXCEPT !.content = c]])
  <2> DEFINE e == [incoming[i] EXCEPT !.content = c]
  <2>1. e \in Entry /\ e.by = incoming[i].by /\ e.temp = incoming[i].temp
    BY <1>1 DEF Entry
  <2> HIDE DEF e
  <2>2. SameTransfers([incoming EXCEPT ![i] = e])
    BY <1>2, <2>1
  <2> QED
    BY <2>2 DEF e
<1>4. SameTransfers([incoming EXCEPT ![i] =
                        [incoming[i] EXCEPT !.content = c, !.bodyWritten = TRUE]])
  <2> DEFINE e == [incoming[i] EXCEPT !.content = c, !.bodyWritten = TRUE]
  <2>1. e \in Entry /\ e.by = incoming[i].by /\ e.temp = incoming[i].temp
    BY <1>1 DEF Entry
  <2> HIDE DEF e
  <2>2. SameTransfers([incoming EXCEPT ![i] = e])
    BY <1>2, <2>1
  <2> QED
    BY <2>2 DEF e
<1>5. Written(i, c) = [incoming EXCEPT ![i] = [incoming[i] EXCEPT !.content = c]]
  BY <1>1 DEF Written
<1>6. WrittenAll(i, c)
          = [incoming EXCEPT ![i] = [incoming[i] EXCEPT !.content = c, !.bodyWritten = TRUE]]
  BY <1>1 DEF WrittenAll
<1> QED
  BY <1>3, <1>4, <1>5, <1>6

\* The handlers of a body change no more than the content of one transfer.
LEMMA BodyKeepsTransfers ==
    ASSUME TypeOK, handleBody \/ handleBodyFails \/ handleTornBody
    PROVE  SameTransfers(incoming')
<1>1. ASSUME NEW k, Arrives(k)
      PROVE  TransferID[Head(wire).from] \in IDs /\ Head(wire).data \in Contents
  BY <1>1, WireTake, TransferAssumption
<1>2. SameTransfers(incoming)
  BY DEF SameTransfers, TypeOK
<1>3. UNCHANGED incoming \/ \E i \in IDs, c \in Contents :
          AwaitsBody(i) /\ incoming' \in {Written(i, c), WrittenAll(i, c)}
  <2> DEFINE i == TransferID[Head(wire).from]
             d == Head(wire).data
  <2>1. i \in IDs /\ d \in Contents
    BY <1>1 DEF handleBody, handleBodyFails, handleTornBody
  <2>2. CASE handleBody
    <3>1. AwaitsBody(i) /\ incoming' = WrittenAll(i, d)
      BY <2>2 DEF handleBody, WrittenAll
    <3> HIDE DEF i, d
    <3> QED
      BY <2>1, <3>1
  <2>3. CASE handleBodyFails /\ ~UNCHANGED incoming
    <3>1. PICK n \in 0..Len(d) : AwaitsBody(i) /\ incoming' = Written(i, SubSeq(d, 1, n))
      BY <2>3 DEF handleBodyFails, Written
    <3>2. Len(d) \in Nat
      BY <2>1, ContentsAreSeqs, LenProperties
    <3>3. SubSeq(d, 1, n) \in Contents
      BY <2>1, <3>2, Prefix
    <3> HIDE DEF i, d
    <3> QED
      BY <2>1, <3>1, <3>3
  <2>4. CASE handleTornBody /\ ~UNCHANGED incoming
    <3>1. PICK c \in Contents : AwaitsBody(i) /\ incoming' = WrittenAll(i, c)
      BY <2>4 DEF handleTornBody, WrittenAll
    <3> HIDE DEF i, d
    <3> QED
      BY <2>1, <3>1
  <2> QED
    BY <2>2, <2>3, <2>4
<1> QED
  BY <1>2, <1>3, WrittenSame

\* So do the handlers, as long as os.CreateTemp has names left.
LEMMA TypeServe ==
    ASSUME TypeOK, IsFiniteSet(temps), Serve
    PROVE  TypeOK'
<1> USE TransferAssumption DEF requestVars, fileVars, wireVars, receiverVars
<1>w. ASSUME NEW k, Arrives(k) PROVE wire' \in Seq([from : Senders, kind : Kinds, data : Contents])
  BY <1>w, WireTake DEF Frame
<1>h. ASSUME NEW k, Arrives(k)
      PROVE  Head(wire).from \in Senders /\ Head(wire).data \in Contents
             /\ TransferID[Head(wire).from] \in IDs
  BY <1>h, WireTake
<1>1. CASE handleOpen
  <2> DEFINE s == Head(wire).from
  <2>1. s \in Senders /\ TransferID[s] \in IDs
    BY <1>1, <1>h DEF handleOpen
  <2>2. wire' \in Seq([from : Senders, kind : Kinds, data : Contents])
    BY <1>1, <1>w DEF handleOpen
  <2>3. answer' \in [Senders -> {"none", "yes", "no", "unread"}]
    BY <1>1, <2>1, ReplyType DEF handleOpen
  <2>4. [by |-> s, temp |-> NewTemp, content |-> <<>>, bodyWritten |-> FALSE] \in Entry
    BY <2>1, NewTempIsNew, Empty DEF Entry
  <2>5. incoming' \in [IDs -> Entry \cup {None}] /\ temps' \subseteq Nat
    <3> DEFINE new == [by |-> s, temp |-> NewTemp, content |-> <<>>, bodyWritten |-> FALSE]
    <3>1. NewTemp \in Nat /\ temps \subseteq Nat /\ incoming \in [IDs -> Entry \cup {None}]
      BY NewTempIsNew DEF TypeOK
    <3>2. temps' = temps \/ temps' = temps \cup {NewTemp}
      BY <1>1 DEF handleOpen
    <3>3. incoming' = incoming \/ incoming' = [incoming EXCEPT ![TransferID[s]] = new]
      BY <1>1 DEF handleOpen
    <3>4. new \in Entry
      BY <2>4
    <3>5. temps' \subseteq Nat
      BY <3>1, <3>2
    <3> HIDE DEF new, s
    <3>6. [incoming EXCEPT ![TransferID[s]] = new] \in [IDs -> Entry \cup {None}]
      BY <2>1, <3>1, <3>4
    <3> QED
      BY <3>1, <3>3, <3>5, <3>6
  <2> QED
    BY <1>1, <2>2, <2>3, <2>5 DEF handleOpen, TypeOK
<1>2. CASE handleBody \/ handleBodyFails \/ handleTornBody
  <2>1. wire' \in Seq([from : Senders, kind : Kinds, data : Contents])
    BY <1>2, <1>w DEF handleBody, handleBodyFails, handleTornBody
  <2>2. incoming' \in [IDs -> Entry \cup {None}]
    BY <1>2, BodyKeepsTransfers DEF SameTransfers
  <2>3. serving' \in BOOLEAN
    BY <1>2 DEF handleBody, handleBodyFails, handleTornBody, TypeOK
  <2>4. UNCHANGED <<pc, fileVars, requestVars, repeats, answer, torn, onReceive, temps, final,
                    installed>>
    BY <1>2 DEF handleBody, handleBodyFails, handleTornBody
  <2> QED
    BY <2>1, <2>2, <2>3, <2>4 DEF TypeOK
<1>3. CASE handleCommit
  <2> DEFINE s == Head(wire).from
             e == incoming[TransferID[s]]
  <2>1. s \in Senders /\ TransferID[s] \in IDs
    BY <1>3, <1>h DEF handleCommit, commitUnknown, commitRenames, commitRefused
  <2>2. wire' \in Seq([from : Senders, kind : Kinds, data : Contents])
    BY <1>3, <1>w DEF handleCommit, commitUnknown, commitRenames, commitRefused
  <2>3. answer' \in [Senders -> {"none", "yes", "no", "unread"}]
    BY <1>3, <2>1, ReplyType DEF handleCommit, commitUnknown, commitRenames, commitRefused
  <2>4. Exists(s) => e \in Entry
    BY <2>1 DEF Exists, TypeOK
  <2>5. CASE commitUnknown
    BY <2>2, <2>3, <2>5 DEF commitUnknown, TypeOK
  <2>6. CASE commitRenames
    <3>1. e.by \in Senders /\ e.content \in Contents /\ Dest[e.by] \in Dests
      BY <2>4, <2>6 DEF commitRenames, Entry
    <3>2. final' \in [Dests -> Contents \cup {None}] /\ installed' \subseteq Senders
      BY <2>6, <3>1 DEF commitRenames, TypeOK
    <3>3. incoming' \in [IDs -> Entry \cup {None}] /\ temps' \subseteq Nat
      BY <2>1, <2>6 DEF commitRenames, TypeOK
    <3> QED
      BY <2>2, <2>3, <2>6, <3>2, <3>3 DEF commitRenames, TypeOK
  <2>7. CASE commitRefused
    <3>1. incoming' \in [IDs -> Entry \cup {None}] /\ temps' \subseteq Nat
      BY <2>1, <2>7 DEF commitRefused, TypeOK
    <3> QED
      BY <2>2, <2>3, <2>7, <3>1 DEF commitRefused, TypeOK
  <2> QED
    BY <1>3, <2>5, <2>6, <2>7 DEF handleCommit
<1> QED
  BY <1>1, <1>2, <1>3 DEF Serve

\* So do changes of a file, OnReceive and the end of Serve.
LEMMA TypeOther ==
    ASSUME TypeOK, (\E s \in Senders : ChangeFile(s)) \/ OnReceive \/ ServeEnds \/ UNCHANGED vars
    PROVE  TypeOK'
<1> USE DEF TypeOK, requestVars, fileVars, wireVars, receiverVars
<1>1. ASSUME NEW s \in Senders, ChangeFile(s) PROVE TypeOK'
  BY <1>1, TransferAssumption DEF ChangeFile
<1>2. CASE OnReceive \/ ServeEnds \/ UNCHANGED vars
  BY <1>2 DEF OnReceive, ServeEnds, vars
<1> QED
  BY <1>1, <1>2

-----------------------------------------------------------------------------
(* The frames on the wire.                                                 *)

\* Every frame has a sender and a kind.
LEMMA WireFrames ==
    ASSUME TypeOK
    PROVE  /\ Len(wire) \in Nat
           /\ \A j \in 1..Len(wire) : wire[j].from \in Senders /\ wire[j].kind \in Kinds
<1>1. wire \in Seq(Frame)
  BY DEF TypeOK, Frame
<1>2. Len(wire) \in Nat
  BY <1>1
<1>3. \A j \in 1..Len(wire) : wire[j] \in Frame
  BY <1>1, ElementOfSeq
<1> QED
  BY <1>2, <1>3 DEF Frame

\* A sender that writes its requests in order keeps them in order on the wire.
LEMMA PutKeepsOrder ==
    ASSUME WireInv, NEW s \in Senders, NEW k \in Kinds, NEW d \in Contents, wire' = Put(s, k, d),
           \A k2 \in Kinds : OnWire(s, k2) => Stage(k2) <= Stage(k),
           k = "commit" /\ Retries[s] = 0 => ~OnWire(s, "commit")
    PROVE  /\ WireInOrder' /\ CommitOnce'
           /\ \A r, k2 : OnWire(r, k2)' => OnWire(r, k2) \/ (r = s /\ k2 = k)
<1> USE DEF OnWire
<1>0. Len(wire) \in Nat /\ \A j \in 1..Len(wire) : wire[j].kind \in Kinds
  BY WireFrames DEF WireInv
<1>1. CASE wire' = wire
  BY <1>1 DEF WireInv, WireInOrder, CommitOnce
<1>2. CASE /\ Len(wire') = Len(wire) + 1
           /\ \A j \in 1..Len(wire) : wire'[j] = wire[j]
           /\ wire'[Len(wire) + 1] = [from |-> s, kind |-> k, data |-> d]
  <2>1. wire'[Len(wire) + 1].from = s /\ wire'[Len(wire) + 1].kind = k
    BY <1>2
  <2>2. \A j \in 1..Len(wire') : j \in 1..Len(wire) \/ j = Len(wire) + 1
    BY <1>0, <1>2
  <2>3. WireInOrder'
    <3> SUFFICES ASSUME NEW j \in 1..Len(wire'), NEW l \in 1..Len(wire'), j < l,
                        wire'[j].from = wire'[l].from
                 PROVE  Stage(wire'[j].kind) <= Stage(wire'[l].kind)
      BY DEF WireInOrder
    <3>1. j \in 1..Len(wire) /\ wire'[j] = wire[j]
      BY <1>0, <1>2, <2>2
    <3>2. CASE l \in 1..Len(wire)
      BY <1>2, <3>1, <3>2 DEF WireInv, WireInOrder
    <3>3. CASE l = Len(wire) + 1
      BY <1>0, <2>1, <3>1, <3>3
    <3> QED
      BY <2>2, <3>2, <3>3
  <2>4. CommitOnce'
    <3> SUFFICES ASSUME NEW j \in 1..Len(wire'), NEW l \in 1..Len(wire'),
                        wire'[j].from = wire'[l].from, Retries[wire'[j].from] = 0,
                        wire'[j].kind = "commit", wire'[l].kind = "commit"
                 PROVE  j = l
      BY DEF CommitOnce
    <3>1. CASE j \in 1..Len(wire) /\ l \in 1..Len(wire)
      BY <1>2, <3>1 DEF WireInv, CommitOnce
    <3>2. CASE j = Len(wire) + 1 /\ l \in 1..Len(wire)
      BY <1>2, <2>1, <3>2
    <3>3. CASE l = Len(wire) + 1 /\ j \in 1..Len(wire)
      BY <1>2, <2>1, <3>3
    <3> QED
      BY <2>2, <3>1, <3>2, <3>3
  <2>5. \A r, k2 : OnWire(r, k2)' => OnWire(r, k2) \/ (r = s /\ k2 = k)
    BY <1>2, <2>1, <2>2
  <2> QED
    BY <2>3, <2>4, <2>5
<1> QED
  BY <1>1, <1>2, WirePut DEF WireInv

\* Reading keeps the order; when a commit is read, what its sender wrote before is
\* gone.
LEMMA TakeKeepsOrder ==
    ASSUME WireInv, NEW k, Arrives(k), NEW s, s = Head(wire).from
    PROVE  /\ WireInOrder' /\ CommitOnce'
           /\ \A r, k2 : OnWire(r, k2)' => OnWire(r, k2)
           /\ s \in Senders /\ OnWire(s, k)
           /\ k = "commit" => \A k2 \in Kinds \ {"commit"} : ~OnWire(s, k2)'
           /\ k = "commit" /\ Retries[s] = 0 => ~OnWire(s, "commit")'
<1>0. /\ Len(wire) \in Nat \ {0} /\ Len(wire') = Len(wire) - 1
      /\ \A j \in 1..Len(wire') : wire'[j] = wire[j + 1]
      /\ s = wire[1].from /\ s \in Senders /\ wire[1].kind = k
  BY WireTake DEF WireInv
<1>1. \A j \in 1..Len(wire') : j + 1 \in 1..Len(wire) /\ 1 < j + 1
  BY <1>0
<1>2. 1 \in 1..Len(wire)
  BY <1>0
<1>3. WireInOrder'
  <2> SUFFICES ASSUME NEW j \in 1..Len(wire'), NEW l \in 1..Len(wire'), j < l,
                      wire'[j].from = wire'[l].from
               PROVE  Stage(wire'[j].kind) <= Stage(wire'[l].kind)
    BY DEF WireInOrder
  <2>1. j + 1 < l + 1
    BY <1>0
  <2> QED
    BY <1>0, <1>1, <2>1 DEF WireInv, WireInOrder
<1>4. CommitOnce'
  <2> SUFFICES ASSUME NEW j \in 1..Len(wire'), NEW l \in 1..Len(wire'),
                      wire'[j].from = wire'[l].from, Retries[wire'[j].from] = 0,
                      wire'[j].kind = "commit", wire'[l].kind = "commit"
               PROVE  j = l
    BY DEF CommitOnce
  <2>1. j + 1 = l + 1
    BY <1>0, <1>1 DEF WireInv, CommitOnce
  <2> QED
    BY <1>0, <2>1
<1>5. \A r, k2 : OnWire(r, k2)' => OnWire(r, k2)
  BY <1>0, <1>1 DEF OnWire
<1>6. OnWire(s, k)
  BY <1>0, <1>2 DEF OnWire
<1>7. ASSUME k = "commit", NEW k2 \in Kinds \ {"commit"}, OnWire(s, k2)' PROVE FALSE
  <2>1. PICK j \in 1..Len(wire') : wire'[j].from = s /\ wire'[j].kind = k2
    BY <1>7, <1>0 DEF OnWire
  <2>2. Stage(wire[1].kind) <= Stage(wire[j + 1].kind)
    BY <1>0, <1>1, <1>2, <2>1 DEF WireInv, WireInOrder
  <2> QED
    BY <1>0, <1>7, <2>1, <2>2 DEF Stage
<1>8. ASSUME k = "commit", Retries[s] = 0, OnWire(s, "commit")' PROVE FALSE
  <2>1. PICK j \in 1..Len(wire') : wire'[j].from = s /\ wire'[j].kind = "commit"
    BY <1>8, <1>0 DEF OnWire
  <2>2. 1 = j + 1
    BY <1>0, <1>1, <1>2, <1>8, <2>1 DEF WireInv, CommitOnce
  <2> QED
    BY <1>1, <2>2
<1> QED
  BY <1>0, <1>3, <1>4, <1>5, <1>6, <1>7, <1>8

\* SendFile writes open, body and commit in that order, repeating only the request it
\* is in.
LEMMA WireSend ==
    ASSUME WireInv, NEW s \in Senders, SendFile(s)
    PROVE  WireInv'
<1> TypeOK /\ TypeOK' /\ WireFollowsPC
  BY TypeSend DEF WireInv
<1> pc \in [Senders -> PCs]
  BY DEF TypeOK
<1> USE DEF Goto, requestVars, fileVars, wireVars, receiverVars
\* No frame goes on the wire.
<1>2. ASSUME UNCHANGED wire, NEW l, pc' = [pc EXCEPT ![s] = l],
             l \in {"idle", "stat"} => pc[s] = "idle",
             l \in {"open", "accepted"} => pc[s] = "open",
             l # "sent"
      PROVE  WireInv'
  <2>1. \A r, k : OnWire(r, k)' <=> OnWire(r, k)
    BY <1>2 DEF OnWire
  <2>2. WireFollowsPC'
    BY <1>2, <2>1 DEF WireFollowsPC
  <2>3. WireInOrder' /\ CommitOnce'
    BY <1>2 DEF WireInv, WireInOrder, CommitOnce
  <2> QED
    BY <2>2, <2>3 DEF WireInv
<1>3. CASE StatFile(s)
  BY <1>2, <1>3 DEF StatFile
<1>k. "open" \in Kinds /\ "body" \in Kinds /\ "torn" \in Kinds /\ "commit" \in Kinds
  BY DEF Kinds
<1>4. CASE RequestOpen(s)
  <2>1. \A k2 \in Kinds : ~OnWire(s, k2)
    BY <1>4 DEF RequestOpen, WireFollowsPC
  <2>2. pc' = [pc EXCEPT ![s] = "open"] /\ wire' = Put(s, "open", <<>>)
    BY <1>4 DEF RequestOpen
  <2>3. WireInOrder' /\ CommitOnce'
        /\ \A r, k2 : OnWire(r, k2)' => OnWire(r, k2) \/ (r = s /\ k2 = "open")
    BY <1>k, <2>1, <2>2, PutKeepsOrder, Empty
  <2>4. WireFollowsPC'
    BY <2>1, <2>2, <2>3 DEF WireFollowsPC
  <2> QED
    BY <2>3, <2>4 DEF WireInv
<1>5. CASE RetryRequest(s) /\ pc[s] = "open"
  <2>1. \A k2 \in Kinds : OnWire(s, k2) => Stage(k2) <= Stage("open")
    BY <1>5 DEF WireFollowsPC, Stage
  <2>2. pc' = pc /\ wire' = Put(s, "open", <<>>)
    BY <1>5 DEF RetryRequest
  <2>3. WireInOrder' /\ CommitOnce'
        /\ \A r, k2 : OnWire(r, k2)' => OnWire(r, k2) \/ (r = s /\ k2 = "open")
    BY <1>k, <2>1, <2>2, PutKeepsOrder, Empty
  <2>4. WireFollowsPC'
    BY <1>5, <2>2, <2>3 DEF WireFollowsPC
  <2> QED
    BY <2>3, <2>4 DEF WireInv
<1>6. CASE RetryRequest(s) /\ pc[s] = "commit"
  <2>1. Retries[s] # 0
    BY <1>6, TransferAssumption DEF RetryRequest, TypeOK
  <2>2. pc' = pc /\ wire' = Put(s, "commit", <<>>)
    BY <1>6 DEF RetryRequest
  <2>3. \A k2 \in Kinds : OnWire(s, k2) => Stage(k2) <= Stage("commit")
    BY DEF Stage
  <2>4. WireInOrder' /\ CommitOnce'
        /\ \A r, k2 : OnWire(r, k2)' => OnWire(r, k2) \/ (r = s /\ k2 = "commit")
    BY <1>k, <2>1, <2>2, <2>3, PutKeepsOrder, Empty
  <2>5. WireFollowsPC'
    BY <1>6, <2>2, <2>4 DEF WireFollowsPC
  <2> QED
    BY <2>4, <2>5 DEF WireInv
<1>7. CASE OpenAnswered(s)
  BY <1>2, <1>7 DEF OpenAnswered
<1>8. CASE CommitAnswered(s)
  BY <1>2, <1>8 DEF CommitAnswered
<1>9. CASE GiveUp(s)
  BY <1>2, <1>9 DEF GiveUp
<1>10. \A k \in Kinds : OnWire(s, k) /\ pc[s] = "accepted" => k = "open"
  BY DEF WireFollowsPC
<1>11. src[s] \in Contents /\ Len(src[s]) \in Nat /\ size[s] \in Nat
  BY ContentsAreSeqs, LenProperties, TransferAssumption DEF TypeOK
<1>12. CASE SendBody(s)
  <2>1. SubSeq(src[s], 1, size[s]) \in Contents
    BY <1>11, <1>12, Prefix DEF SendBody
  <2>2. \A k2 \in Kinds : OnWire(s, k2) => Stage(k2) <= Stage("body")
    BY <1>10, <1>12 DEF SendBody, Stage
  <2>3. pc' = [pc EXCEPT ![s] = "sent"] /\ wire' = Put(s, "body", SubSeq(src[s], 1, size[s]))
    BY <1>12 DEF SendBody
  <2>4. WireInOrder' /\ CommitOnce'
        /\ \A r, k2 : OnWire(r, k2)' => OnWire(r, k2) \/ (r = s /\ k2 = "body")
    BY <1>k, <2>1, <2>2, <2>3, PutKeepsOrder
  <2>5. WireFollowsPC'
    BY <1>10, <1>12, <2>3, <2>4 DEF WireFollowsPC, SendBody
  <2> QED
    BY <2>4, <2>5 DEF WireInv
<1>13. CASE SendBodyTorn(s)
  <2>1. PICK n \in Nat : n <= Len(src[s]) /\ wire' = Put(s, "torn", SubSeq(src[s], 1, n))
    BY <1>13, TransferAssumption DEF SendBodyTorn
  <2>2. SubSeq(src[s], 1, n) \in Contents
    BY <1>11, <2>1, Prefix
  <2>3. \A k2 \in Kinds : OnWire(s, k2) => Stage(k2) <= Stage("torn")
    BY <1>10, <1>13 DEF SendBodyTorn, Stage
  <2>4. WireInOrder' /\ CommitOnce'
        /\ \A r, k2 : OnWire(r, k2)' => OnWire(r, k2) \/ (r = s /\ k2 = "torn")
    BY <1>k, <2>1, <2>2, <2>3, PutKeepsOrder
  <2>5. WireFollowsPC'
    BY <1>13, <2>4 DEF WireFollowsPC, SendBodyTorn
  <2> QED
    BY <2>4, <2>5 DEF WireInv
<1>14. CASE RequestCommit(s)
  <2>1. ~OnWire(s, "commit")
    BY <1>14 DEF RequestCommit, WireFollowsPC, Kinds
  <2>2. \A k2 \in Kinds : OnWire(s, k2) => Stage(k2) <= Stage("commit")
    BY DEF Stage
  <2>3. pc' = [pc EXCEPT ![s] = "commit"] /\ wire' = Put(s, "commit", <<>>)
    BY <1>14 DEF RequestCommit
  <2>4. WireInOrder' /\ CommitOnce'
        /\ \A r, k2 : OnWire(r, k2)' => OnWire(r, k2) \/ (r = s /\ k2 = "commit")
    BY <1>k, <2>1, <2>2, <2>3, PutKeepsOrder, Empty
  <2>5. WireFollowsPC'
    BY <2>3, <2>4 DEF WireFollowsPC
  <2> QED
    BY <2>4, <2>5 DEF WireInv
<1> QED
  BY <1>3, <1>4, <1>5, <1>6, <1>7, <1>8, <1>9, <1>12, <1>13, <1>14 DEF SendFile, RetryRequest

\* Handlers only take frames from the wire.
LEMMA WireServe ==
    ASSUME WireInv, IsFiniteSet(temps), Serve
    PROVE  WireInv'
<1>1. TypeOK'
  BY TypeServe DEF WireInv
<1>2. PICK k : Arrives(k)
  BY DEF Serve, handleOpen, handleBody, handleBodyFails, handleTornBody, handleCommit, commitUnknown,
         commitRenames, commitRefused
<1>3. WireInOrder' /\ CommitOnce' /\ \A r, k2 : OnWire(r, k2)' => OnWire(r, k2)
  BY <1>2, TakeKeepsOrder
<1>4. UNCHANGED pc
  BY DEF Serve, handleOpen, handleBody, handleBodyFails, handleTornBody, handleCommit, commitUnknown,
         commitRenames, commitRefused
<1>5. WireFollowsPC'
  BY <1>3, <1>4 DEF WireInv, WireFollowsPC
<1> QED
  BY <1>1, <1>3, <1>5 DEF WireInv

\* Nothing else touches the wire.
LEMMA WireOther ==
    ASSUME WireInv, (\E s \in Senders : ChangeFile(s)) \/ OnReceive \/ ServeEnds \/ UNCHANGED vars
    PROVE  WireInv'
<1>1. TypeOK'
  BY TypeOther DEF WireInv
<1>2. UNCHANGED <<pc, wire>>
  BY DEF ChangeFile, OnReceive, ServeEnds, vars, wireVars
<1> QED
  BY <1>1, <1>2 DEF WireInv, WireFollowsPC, WireInOrder, CommitOnce, OnWire

-----------------------------------------------------------------------------
(* The receiver's transfers and files.                                     *)

\* A sender changes nothing at the receiver.
LEMMA ReceiverSend ==
    ASSUME ReceiverInv, NEW s \in Senders, SendFile(s)
    PROVE  ReceiverInv'
<1> WireInv /\ WireInv'
  BY WireSend DEF ReceiverInv
<1> pc \in [Senders -> PCs] /\ size \in [Senders -> 0..MaxLen]
    /\ sha \in [Senders -> Contents \cup {None}]
    /\ installed \subseteq Senders /\ incoming \in [IDs -> Entry \cup {None}]
  BY DEF WireInv, TypeOK
<1>1. UNCHANGED receiverVars
  BY DEF SendFile, StatFile, RequestOpen, RetryRequest, OpenAnswered, SendBody, SendBodyTorn,
         RequestCommit, CommitAnswered, GiveUp
<1>2. \A r \in Senders : pc[r] \notin {"idle", "stat"} =>
          pc'[r] \notin {"idle", "stat"} /\ size'[r] = size[r] /\ sha'[r] = sha[r]
  <2> USE DEF Goto, requestVars, PCs
  <2>1. CASE StatFile(s) \/ RequestOpen(s)
    BY <2>1 DEF StatFile, RequestOpen
  <2>2. CASE RetryRequest(s) \/ OpenAnswered(s) \/ SendBody(s) \/ SendBodyTorn(s)
    BY <2>2 DEF RetryRequest, OpenAnswered, SendBody, SendBodyTorn
  <2>3. CASE RequestCommit(s) \/ CommitAnswered(s) \/ GiveUp(s)
    BY <2>3 DEF RequestCommit, CommitAnswered, GiveUp
  <2> QED
    BY <2>1, <2>2, <2>3 DEF SendFile
<1>3. Announced'
  <2>1. \A i \in IDs : incoming[i] # None => incoming[i].by \in Senders
    BY DEF Entry
  <2> QED
    BY <1>1, <1>2, <2>1 DEF receiverVars, ReceiverInv, Announced
<1>4. TempsDistinct' /\ TempsOwned'
  BY <1>1 DEF receiverVars, ReceiverInv, TempsDistinct, TempsOwned
<1>5. FinalIsWhole'
  BY <1>1, <1>2 DEF receiverVars, ReceiverInv, Announced, FinalIsWhole
<1> QED
  BY <1>3, <1>4, <1>5 DEF ReceiverInv

\* The open transfer of ID i is gone, with its file.
LEMMA RemoveTransfer ==
    ASSUME ReceiverInv, NEW i \in IDs, incoming[i] # None,
           incoming' = [incoming EXCEPT ![i] = None], temps' = temps \ {incoming[i].temp},
           UNCHANGED pc
    PROVE  /\ TempsDistinct' /\ TempsOwned'
           /\ \A j \in IDs : incoming'[j] # None =>
                 TransferID[incoming'[j].by] = j /\ pc'[incoming'[j].by] \notin {"idle", "stat"}
<1>1. incoming \in [IDs -> Entry \cup {None}]
  BY DEF ReceiverInv, WireInv, TypeOK
<1>2. \A j \in IDs : incoming'[j] = IF j = i THEN None ELSE incoming[j]
  BY <1>1
<1>3. TempsDistinct'
  <2>1. IsFiniteSet(temps')
    BY FS_RemoveElement DEF ReceiverInv, TempsDistinct
  <2> QED
    BY <1>2, <2>1 DEF ReceiverInv, TempsDistinct
<1>4. TempsOwned'
  BY <1>2 DEF ReceiverInv, TempsOwned, TempsDistinct
<1>5. \A j \in IDs : incoming'[j] # None =>
          TransferID[incoming'[j].by] = j /\ pc'[incoming'[j].by] \notin {"idle", "stat"}
  BY <1>2 DEF ReceiverInv, Announced
<1> QED
  BY <1>3, <1>4, <1>5

\* The handlers create, keep and remove .part files together with their transfers, and
\* rename only what was announced.
LEMMA ReceiverServe ==
    ASSUME ReceiverInv, Serve
    PROVE  ReceiverInv'
<1> WireInv /\ WireInv'
  BY WireServe DEF ReceiverInv, TempsDistinct
<1>0. incoming \in [IDs -> Entry \cup {None}] /\ final \in [Dests -> Contents \cup {None}]
  BY DEF WireInv, TypeOK
<1>1. CASE handleOpen
  <2>1. PICK s : s = Head(wire).from
    OBVIOUS
  <2>2. s \in Senders /\ pc[s] \notin {"idle", "stat"} /\ TransferID[s] \in IDs
    BY <1>1, <2>1, TakeKeepsOrder, TransferAssumption DEF handleOpen, WireInv, WireFollowsPC, Kinds
  <2>3. UNCHANGED <<pc, size, sha, final, installed>>
    BY <1>1 DEF handleOpen, requestVars
  <2>4. FinalIsWhole'
    BY <2>3 DEF ReceiverInv, FinalIsWhole
  <2>5. CASE UNCHANGED <<incoming, temps>>
    BY <2>3, <2>4, <2>5 DEF ReceiverInv, Announced, TempsDistinct, TempsOwned
  <2>6. CASE ~UNCHANGED <<incoming, temps>>
    <3>1. PICK t : t = NewTemp
      OBVIOUS
    <3>2. PICK e : e = [by |-> s, temp |-> t, content |-> <<>>, bodyWritten |-> FALSE]
      OBVIOUS
    <3>3. t \in Nat /\ t \notin temps
      BY <3>1, NewTempIsNew DEF ReceiverInv, TempsDistinct
    <3>4. /\ incoming[TransferID[s]] = None /\ temps' = temps \cup {t}
          /\ incoming' = [incoming EXCEPT ![TransferID[s]] = e]
      BY <1>1, <2>1, <2>6, <3>1, <3>2 DEF handleOpen, Exists
    <3>5. e # None /\ e.by = s /\ e.temp = t
      <4>1. e \in Entry
        BY <2>2, <3>2, <3>3, Empty DEF Entry
      <4> QED
        BY <3>2, <4>1, EntryAssumption
    <3>6. \A j \in IDs : incoming'[j] = IF j = TransferID[s] THEN e ELSE incoming[j]
      BY <1>0, <3>4
    <3>7. \A j \in IDs : incoming[j] # None => incoming[j].temp \in temps
      BY DEF ReceiverInv, TempsOwned
    <3>8. TempsDistinct'
      <4>1. IsFiniteSet(temps')
        BY <3>4, FS_AddElement DEF ReceiverInv, TempsDistinct
      <4> QED
        BY <3>3, <3>5, <3>6, <3>7, <4>1 DEF ReceiverInv, TempsDistinct
    <3>9. TempsOwned'
      BY <2>2, <3>4, <3>5, <3>6 DEF ReceiverInv, TempsOwned
    <3>10. Announced'
      BY <2>2, <2>3, <3>5, <3>6 DEF ReceiverInv, Announced
    <3> QED
      BY <2>4, <3>8, <3>9, <3>10 DEF ReceiverInv
  <2> QED
    BY <2>5, <2>6
<1>2. CASE handleBody \/ handleBodyFails \/ handleTornBody
  <2>1. UNCHANGED <<pc, size, sha, temps, final, installed>>
    BY <1>2 DEF handleBody, handleBodyFails, handleTornBody, requestVars
  <2>2. SameTransfers(incoming')
    BY <1>2, BodyKeepsTransfers DEF WireInv
  <2>3. Announced' /\ TempsDistinct'
    BY <2>1, <2>2 DEF SameTransfers, ReceiverInv, Announced, TempsDistinct
  <2>4. TempsOwned'
    BY <2>1, <2>2 DEF SameTransfers, ReceiverInv, TempsOwned
  <2>5. FinalIsWhole'
    BY <2>1 DEF ReceiverInv, FinalIsWhole
  <2> QED
    BY <2>3, <2>4, <2>5 DEF ReceiverInv
<1>3. CASE handleCommit
  <2>1. PICK s : s = Head(wire).from
    OBVIOUS
  <2>2. s \in Senders /\ TransferID[s] \in IDs
    BY <1>3, <2>1, TakeKeepsOrder, TransferAssumption
       DEF handleCommit, commitUnknown, commitRenames, commitRefused
  <2>3. UNCHANGED <<pc, size, sha>>
    BY <1>3 DEF handleCommit, commitUnknown, commitRenames, commitRefused, requestVars
  <2>4. CASE commitUnknown
    BY <2>3, <2>4 DEF commitUnknown, receiverVars, ReceiverInv, Announced, TempsDistinct, TempsOwned,
                      FinalIsWhole
  <2>5. PICK e : e = incoming[TransferID[s]]
    OBVIOUS
  <2>6. CASE commitRefused
    <3>1. /\ incoming[TransferID[s]] # None
          /\ incoming' = [incoming EXCEPT ![TransferID[s]] = None]
          /\ temps' = temps \ {incoming[TransferID[s]].temp}
          /\ UNCHANGED <<final, installed>>
      BY <2>1, <2>6 DEF commitRefused, Exists
    <3>2. TempsDistinct' /\ TempsOwned' /\ Announced'
      BY <2>2, <2>3, <3>1, RemoveTransfer DEF ReceiverInv, Announced
    <3>3. FinalIsWhole'
      BY <2>3, <3>1 DEF ReceiverInv, FinalIsWhole
    <3> QED
      BY <3>2, <3>3 DEF ReceiverInv
  <2>7. CASE commitRenames
    <3>1. /\ e # None /\ Verified(e)
          /\ incoming' = [incoming EXCEPT ![TransferID[s]] = None]
          /\ temps' = temps \ {e.temp}
          /\ final' = [final EXCEPT ![Dest[e.by]] = e.content]
          /\ installed' = installed \cup {e.by}
      BY <2>1, <2>5, <2>7 DEF commitRenames, Exists
    <3>2. e \in Entry /\ e.by \in Senders /\ Dest[e.by] \in Dests /\ pc[e.by] \notin {"idle", "stat"}
      BY <1>0, <2>2, <2>5, <3>1, TransferAssumption DEF Entry, ReceiverInv, Announced
    <3>3. TempsDistinct' /\ TempsOwned' /\ Announced'
      BY <2>2, <2>3, <2>5, <3>1, <3>2, RemoveTransfer DEF ReceiverInv, Announced
    <3>4. \A d \in Dests : final'[d] = IF d = Dest[e.by] THEN e.content ELSE final[d]
      BY <1>0, <3>1
    <3>5. e.content = sha[e.by] /\ Len(e.content) = size[e.by]
      BY <3>1 DEF Verified
    <3>6. FinalIsWhole'
      BY <2>3, <3>1, <3>4, <3>5 DEF ReceiverInv, FinalIsWhole
    <3> QED
      BY <3>3, <3>6 DEF ReceiverInv
  <2> QED
    BY <1>3, <2>4, <2>6, <2>7 DEF handleCommit
<1> QED
  BY <1>1, <1>2, <1>3 DEF Serve

\* A source file that changes is announced as it was when its transfer was opened.
LEMMA ReceiverOther ==
    ASSUME ReceiverInv, (\E s \in Senders : ChangeFile(s)) \/ OnReceive \/ ServeEnds \/ UNCHANGED vars
    PROVE  ReceiverInv'
<1>1. WireInv'
  BY WireOther DEF ReceiverInv
<1>2. UNCHANGED <<pc, size, sha, receiverVars>>
  BY DEF ChangeFile, OnReceive, ServeEnds, vars, requestVars, receiverVars
<1> QED
  BY <1>1, <1>2 DEF receiverVars, ReceiverInv, Announced, TempsDistinct, TempsOwned, FinalIsWhole

-----------------------------------------------------------------------------
(* Whose transfer is whose.                                                *)

\* A sender changes its own place, its own answer and its own frames only, and
\* asks for a transfer only when it is in its open request.
LEMMA SendMonotone ==
    ASSUME ReceiverInv, NEW s \in Senders, SendFile(s)
    PROVE  /\ UNCHANGED <<incoming, installed>>
           /\ \A r \in Senders : r # s => pc'[r] = pc[r] /\ answer'[r] = answer[r]
           /\ \A r, k : OnWire(r, k)' =>
                 OnWire(r, k) \/ (r = s /\ wire' # wire /\ (k = "open" => pc'[s] = "open"))
<1> WireInv /\ TypeOK
  BY DEF ReceiverInv, WireInv
<1> pc \in [Senders -> PCs] /\ answer \in [Senders -> {"none", "yes", "no", "unread"}]
  BY DEF TypeOK
<1>1. UNCHANGED <<incoming, installed>>
  BY DEF SendFile, StatFile, RequestOpen, RetryRequest, OpenAnswered, SendBody, SendBodyTorn,
         RequestCommit, CommitAnswered, GiveUp, receiverVars
<1>2. \A r \in Senders : r # s => pc'[r] = pc[r] /\ answer'[r] = answer[r]
  BY DEF SendFile, StatFile, RequestOpen, RetryRequest, OpenAnswered, SendBody, SendBodyTorn,
         RequestCommit, CommitAnswered, GiveUp, Goto
<1>3. UNCHANGED wire \/ \E k \in Kinds, d \in Contents :
                           wire' = Put(s, k, d) /\ (k = "open" => pc'[s] = "open")
  <2>0. src[s] \in Contents /\ Len(src[s]) \in Nat /\ size[s] \in Nat
    BY ContentsAreSeqs, LenProperties, TransferAssumption DEF TypeOK
  <2>1. CASE StatFile(s) \/ OpenAnswered(s) \/ CommitAnswered(s) \/ GiveUp(s)
    BY <2>1 DEF StatFile, OpenAnswered, CommitAnswered, GiveUp, wireVars
  <2>2. CASE RequestOpen(s) \/ RetryRequest(s) \/ RequestCommit(s)
    <3>1. \E k \in Kinds : wire' = Put(s, k, <<>>) /\ (k = "open" => pc'[s] = "open")
      BY <2>2 DEF RequestOpen, RetryRequest, RequestCommit, Kinds, Goto
    <3> QED
      BY <3>1, Empty
  <2>3. CASE SendBody(s)
    BY <2>0, <2>3, Prefix DEF SendBody, Kinds
  <2>4. CASE SendBodyTorn(s)
    <3>1. PICK n \in Nat : n <= Len(src[s]) /\ wire' = Put(s, "torn", SubSeq(src[s], 1, n))
      BY <2>4, TransferAssumption DEF SendBodyTorn
    <3>2. SubSeq(src[s], 1, n) \in Contents
      BY <2>0, <3>1, Prefix
    <3> QED
      BY <3>1, <3>2 DEF Kinds
  <2> QED
    BY <2>1, <2>2, <2>3, <2>4 DEF SendFile
<1>4. ASSUME NEW r, NEW k, OnWire(r, k)'
      PROVE  OnWire(r, k) \/ (r = s /\ wire' # wire /\ (k = "open" => pc'[s] = "open"))
  <2>1. PICK j \in 1..Len(wire') : wire'[j].from = r /\ wire'[j].kind = k
    BY <1>4 DEF OnWire
  <2>2. CASE UNCHANGED wire
    BY <2>1, <2>2 DEF OnWire
  <2>3. ASSUME NEW k2 \in Kinds, NEW d \in Contents, wire' = Put(s, k2, d), wire' # wire,
               k2 = "open" => pc'[s] = "open"
        PROVE  OnWire(r, k) \/ (r = s /\ wire' # wire /\ (k = "open" => pc'[s] = "open"))
    <3>1. /\ Len(wire') = Len(wire) + 1
          /\ \A i \in 1..Len(wire) : wire'[i] = wire[i]
          /\ wire'[Len(wire) + 1] = [from |-> s, kind |-> k2, data |-> d]
      BY <2>3, WirePut
    <3>2. j \in 1..Len(wire) \/ j = Len(wire) + 1
      BY <3>1, WireFrames
    <3>3. wire'[Len(wire) + 1].from = s /\ wire'[Len(wire) + 1].kind = k2
      BY <3>1
    <3> QED
      BY <2>1, <2>3, <3>1, <3>2, <3>3 DEF OnWire
  <2> QED
    BY <1>3, <2>2, <2>3
<1> QED
  BY <1>1, <1>2, <1>4

\* SendFile believes the first answer to the request it is in.
LEMMA OwnersSend ==
    ASSUME IInv, NEW s \in Senders, SendFile(s)
    PROVE  IInv'
<1>0. ReceiverInv /\ ReceiverInv' /\ TypeOK /\ WireFollowsPC /\ WireFollowsPC'
  BY ReceiverSend DEF IInv, ReceiverInv, WireInv
<1>t. pc \in [Senders -> PCs] /\ answer \in [Senders -> {"none", "yes", "no", "unread"}]
  BY <1>0 DEF TypeOK
<1>k. "open" \in Kinds /\ "body" \in Kinds /\ "torn" \in Kinds /\ "commit" \in Kinds
  BY DEF Kinds
<1>1. /\ UNCHANGED <<incoming, installed>>
      /\ \A r \in Senders : r # s => pc'[r] = pc[r] /\ answer'[r] = answer[r]
      /\ \A r, k : OnWire(r, k)' =>
            OnWire(r, k) \/ (r = s /\ wire' # wire /\ (k = "open" => pc'[s] = "open"))
  BY <1>0, SendMonotone
<1>2. \A r \in Senders : Holds(r)' <=> Holds(r)
  BY <1>1 DEF Holds, Exists
<1>3. \A r \in Senders : r # s =>
          (Closed(r) => Closed(r)') /\ (Fresh(r)' => Fresh(r)) /\ (Owes(r)' => Owes(r))
  BY <1>1, <1>2 DEF Closed, Fresh, Owes
\* What the step does to s itself.
<1>4. /\ Fresh(s)' => Fresh(s)
      /\ Owes(s)' => Owes(s) \/ (Retries[s] # 0 /\ ~Fresh(s)')
      /\ pc'[s] = "commit" /\ answer'[s] # "none" => Closed(s)'
      /\ pc'[s] = "rejected" => Closed(s)' \/ \A k \in {"body", "torn", "commit"} : ~OnWire(s, k)'
      /\ pc'[s] = "commit" /\ answer'[s] # "none" => pc[s] = "commit" /\ answer'[s] = answer[s]
      /\ pc'[s] = "ok" => pc[s] = "commit" /\ answer[s] = "yes"
      /\ pc'[s] = "rejected" => Fresh(s) \/ (pc[s] = "commit" /\ answer[s] = "no")
  <2>0. \A k : UNCHANGED wire => (OnWire(s, k)' <=> OnWire(s, k))
    BY DEF OnWire
  <2> USE <1>t, <1>k DEF Goto
  <2>1. CASE StatFile(s)
    BY <1>0, <2>0, <2>1 DEF StatFile, wireVars, Fresh, Owes, WireFollowsPC
  <2>2. CASE RequestOpen(s)
    BY <1>0, <2>2 DEF RequestOpen, Fresh, Owes, WireFollowsPC
  <2>3. CASE RetryRequest(s) /\ pc[s] = "open"
    BY <1>0, <2>3 DEF RetryRequest, Fresh, Owes, WireFollowsPC
  <2>4. CASE RetryRequest(s) /\ pc[s] = "commit"
    <3>1. Retries[s] # 0
      BY <1>0, <2>4, TransferAssumption DEF RetryRequest, TypeOK
    <3>2. UNCHANGED <<pc, answer>>
      BY <2>4 DEF RetryRequest
    <3>3. Closed(s) => Closed(s)'
      BY <1>1, <1>2, <2>4, <3>2 DEF Closed
    <3>4. answer[s] # "none" => Closed(s)
      BY <2>4 DEF IInv, AnswerCloses
    <3>5. answer[s] = "none" => Owes(s)
      BY <2>4 DEF Owes
    <3> QED
      BY <2>4, <3>1, <3>2, <3>3, <3>4, <3>5 DEF Fresh
  <2>5. CASE OpenAnswered(s)
    BY <1>0, <2>0, <2>5 DEF OpenAnswered, wireVars, Fresh, Owes, WireFollowsPC
  <2>6. CASE SendBody(s) \/ SendBodyTorn(s)
    BY <2>6 DEF SendBody, SendBodyTorn, Fresh, Owes
  <2>7. CASE RequestCommit(s)
    BY <2>7 DEF RequestCommit, Fresh, Owes
  <2>8. CASE CommitAnswered(s)
    <3>1. Closed(s) /\ Closed(s)'
      BY <1>2, <2>0, <2>8 DEF CommitAnswered, wireVars, Closed, IInv, AnswerCloses
    <3>2. pc' = [pc EXCEPT ![s] = IF answer[s] = "yes" THEN "ok" ELSE "rejected"]
          /\ UNCHANGED answer /\ pc[s] = "commit" /\ answer[s] \in {"yes", "no"}
      BY <2>8 DEF CommitAnswered
    <3>3. Owes(s)' => Owes(s)
      BY <2>0, <2>8, <3>2 DEF Owes, CommitAnswered, wireVars
    <3> QED
      BY <3>1, <3>2, <3>3 DEF Fresh
  <2>9. CASE GiveUp(s)
    BY <2>0, <2>9 DEF GiveUp, wireVars, Fresh, Owes
  <2> QED
    BY <2>1, <2>2, <2>3, <2>4, <2>5, <2>6, <2>7, <2>8, <2>9 DEF SendFile, RetryRequest
<1>5. AnswerCloses'
  BY <1>1, <1>3, <1>4 DEF IInv, AnswerCloses
<1>6. OwnersKept'
  <2> SUFFICES ASSUME NEW q \in Senders, IDRespected(q), Fresh(q)',
                      NEW r \in Senders, TransferID[r] = TransferID[q], Owes(r)'
               PROVE  Holds(r)'
    BY DEF OwnersKept, IDRespected
  <2>1. Fresh(q)
    BY <1>3, <1>4
  <2>2. Owes(r)
    BY <1>3, <1>4 DEF IDRespected
  <2> QED
    BY <1>2, <2>1, <2>2 DEF IInv, OwnersKept
<1>7. AnswerTrue'
  BY <1>1, <1>3, <1>4 DEF IInv, AnswerTrue, IDRespected
<1>8. SuccessMeansInstalled'
  BY <1>1, <1>4 DEF IInv, SuccessMeansInstalled, AnswerTrue, IDRespected
<1>9. RefusalMeansNotInstalled'
  BY <1>1, <1>4 DEF IInv, RefusalMeansNotInstalled, AnswerTrue, IDRespected
<1> QED
  BY <1>0, <1>5, <1>6, <1>7, <1>8, <1>9 DEF IInv

\* handleOpen gives an ID to the sender whose open it reads, and refuses an ID in use.
LEMMA OwnersOpen ==
    ASSUME IInv, handleOpen
    PROVE  AnswerCloses' /\ OwnersKept' /\ AnswerTrue' /\ SuccessMeansInstalled'
           /\ RefusalMeansNotInstalled'
<1>0. WireInv /\ TypeOK /\ WireFollowsPC
  BY DEF IInv, ReceiverInv, WireInv
<1>t. pc \in [Senders -> PCs] /\ answer \in [Senders -> {"none", "yes", "no", "unread"}]
      /\ incoming \in [IDs -> Entry \cup {None}]
  BY <1>0 DEF TypeOK
<1>1. PICK s : s = Head(wire).from
  OBVIOUS
<1>2. s \in Senders /\ OnWire(s, "open") /\ (\A r, k : OnWire(r, k)' => OnWire(r, k))
  BY <1>0, <1>1, TakeKeepsOrder DEF handleOpen
<1>3. UNCHANGED <<pc, installed>>
  BY DEF handleOpen
<1>4. \A r \in Senders : answer'[r] = answer[r] \/ (r = s /\ pc[s] = "open" /\ answer[s] = "none")
  <2>1. \E a : Reply(s, "open", a)
    BY <1>1 DEF handleOpen
  <2> QED
    BY <1>2, <1>t, <2>1, ReplyEffect
\* The transfer of s is opened, and no transfer of the same ID was open; or
\* nothing changes, and s does not hear that its transfer is open.
<1>5. \/ /\ Holds(s)' /\ \A r \in Senders : TransferID[r] = TransferID[s] => ~Holds(r)
         /\ \A r \in Senders : r # s => (Holds(r)' <=> Holds(r))
      \/ /\ \A r \in Senders : Holds(r)' <=> Holds(r)
         /\ answer'[s] = "yes" => answer[s] = "yes"
  <2>1. CASE UNCHANGED incoming /\ Reply(s, "open", "no")
    <3>1. answer'[s] = "yes" => answer[s] = "yes"
      BY <1>2, <1>t, <2>1, ReplyEffect
    <3> QED
      BY <2>1, <3>1 DEF Holds, Exists
  <2>2. CASE ~Exists(s) /\ incoming' = [incoming EXCEPT ![TransferID[s]] =
                 [by |-> s, temp |-> NewTemp, content |-> <<>>, bodyWritten |-> FALSE]]
    <3>1. PICK e : e = [by |-> s, temp |-> NewTemp, content |-> <<>>, bodyWritten |-> FALSE]
      OBVIOUS
    <3>2. e \in Entry
      BY <1>2, <3>1, NewTempIsNew, Empty DEF Entry, IInv, ReceiverInv, TempsDistinct
    <3>3. e # None /\ e.by = s
      BY <3>1, <3>2, EntryAssumption
    <3>4. incoming' = [incoming EXCEPT ![TransferID[s]] = e]
      BY <2>2, <3>1
    <3>5. \A i \in IDs : incoming'[i] = IF i = TransferID[s] THEN e ELSE incoming[i]
      BY <1>t, <3>4
    <3>6. \A r \in Senders : TransferID[r] \in IDs
      BY TransferAssumption
    <3> QED
      BY <1>2, <2>2, <3>3, <3>5, <3>6 DEF Holds, Exists
  <2> QED
    BY <1>1, <2>1, <2>2 DEF handleOpen
<1>6. \A r \in Senders : Fresh(r)' => Fresh(r)
  BY <1>2, <1>3, <1>4, <1>5 DEF Fresh, Closed
<1>7. \A r \in Senders : Owes(r)' => Owes(r) \/ Holds(r)'
  BY <1>2, <1>3, <1>4, <1>5 DEF Owes
<1>8. \A r \in Senders : Closed(r) => Closed(r)'
  BY <1>2, <1>5 DEF Closed
<1>9. AnswerCloses'
  BY <1>2, <1>3, <1>4, <1>8 DEF IInv, AnswerCloses
<1>10. OwnersKept'
  <2> SUFFICES ASSUME NEW q \in Senders, IDRespected(q), Fresh(q)',
                      NEW r \in Senders, TransferID[r] = TransferID[q], Owes(r)'
               PROVE  Holds(r)'
    BY DEF OwnersKept, IDRespected
  <2>1. Holds(r)' \/ Holds(r)
    BY <1>6, <1>7 DEF IInv, OwnersKept
  <2> QED
    BY <1>5, <2>1
<1>11. AnswerTrue'
  BY <1>3, <1>4, <1>6 DEF IInv, AnswerTrue, IDRespected
<1>12. SuccessMeansInstalled' /\ RefusalMeansNotInstalled'
  BY <1>3 DEF IInv, SuccessMeansInstalled, RefusalMeansNotInstalled, IDRespected
<1> QED
  BY <1>9, <1>10, <1>11, <1>12

\* Bodies change no owner, and answer nobody.
LEMMA OwnersBody ==
    ASSUME IInv, handleBody \/ handleBodyFails \/ handleTornBody
    PROVE  AnswerCloses' /\ OwnersKept' /\ AnswerTrue' /\ SuccessMeansInstalled'
           /\ RefusalMeansNotInstalled'
<1>0. WireInv /\ TypeOK
  BY DEF IInv, ReceiverInv, WireInv
<1>1. UNCHANGED <<pc, answer, installed>>
  BY DEF handleBody, handleBodyFails, handleTornBody
<1>2. \A r, k : OnWire(r, k)' => OnWire(r, k)
  BY <1>0, TakeKeepsOrder DEF handleBody, handleBodyFails, handleTornBody
<1>3. \A r \in Senders : Holds(r)' <=> Holds(r)
  BY <1>0, BodyKeepsTransfers, TransferAssumption DEF SameTransfers, Holds, Exists
<1>4. \A r \in Senders :
          (Closed(r) => Closed(r)') /\ (Fresh(r)' => Fresh(r)) /\ (Owes(r)' => Owes(r))
  BY <1>1, <1>2, <1>3 DEF Closed, Fresh, Owes
<1>5. AnswerCloses'
  BY <1>1, <1>2, <1>4 DEF IInv, AnswerCloses
<1>6. OwnersKept'
  BY <1>3, <1>4 DEF IInv, OwnersKept, IDRespected
<1>7. AnswerTrue' /\ SuccessMeansInstalled' /\ RefusalMeansNotInstalled'
  BY <1>1, <1>4 DEF IInv, AnswerTrue, SuccessMeansInstalled, RefusalMeansNotInstalled, IDRespected
<1> QED
  BY <1>5, <1>6, <1>7

\* handleCommit closes the transfer, and says yes only after the rename.
LEMMA OwnersCommit ==
    ASSUME IInv, handleCommit
    PROVE  AnswerCloses' /\ OwnersKept' /\ AnswerTrue' /\ SuccessMeansInstalled'
           /\ RefusalMeansNotInstalled'
<1>0. WireInv /\ TypeOK /\ WireFollowsPC
  BY DEF IInv, ReceiverInv, WireInv
<1>t. pc \in [Senders -> PCs] /\ answer \in [Senders -> {"none", "yes", "no", "unread"}]
      /\ incoming \in [IDs -> Entry \cup {None}]
  BY <1>0 DEF TypeOK
<1>1. PICK s : s = Head(wire).from
  OBVIOUS
<1>2. /\ s \in Senders /\ OnWire(s, "commit")
      /\ \A r, k : OnWire(r, k)' => OnWire(r, k)
      /\ \A k \in Kinds \ {"commit"} : ~OnWire(s, k)'
      /\ Retries[s] = 0 => ~OnWire(s, "commit")'
  BY <1>0, <1>1, TakeKeepsOrder DEF handleCommit, commitUnknown, commitRenames, commitRefused
<1>3. UNCHANGED pc /\ pc[s] \in {"commit", "ok", "rejected", "failed"}
  BY <1>0, <1>2, <1>t DEF handleCommit, commitUnknown, commitRenames, commitRefused, WireFollowsPC,
                         Kinds, PCs
<1>4. /\ \A r \in Senders : r # s => answer'[r] = answer[r]
      /\ answer'[s] = answer[s] \/ (pc[s] = "commit" /\ answer[s] = "none")
      /\ pc[s] = "commit" => answer'[s] # "none"
  <2>1. PICK a \in {"yes", "no"} : Reply(s, "commit", a)
    BY <1>1 DEF handleCommit, commitUnknown, commitRenames, commitRefused
  <2> QED
    BY <1>2, <1>t, <2>1, ReplyEffect
<1>5. /\ \A r \in Senders : Holds(r)' => Holds(r)
      /\ \A r \in Senders : TransferID[r] = TransferID[s] => ~Holds(r)'
      /\ \A r \in Senders : TransferID[r] # TransferID[s] => (Holds(r)' <=> Holds(r))
  <2>1. incoming'[TransferID[s]] = None
        /\ \A i \in IDs : i # TransferID[s] => incoming'[i] = incoming[i]
    BY <1>1, <1>2, <1>t, TransferAssumption
       DEF handleCommit, commitUnknown, commitRenames, commitRefused, Exists, receiverVars
  <2> QED
    BY <2>1, TransferAssumption DEF Holds, Exists
\* Nothing is installed; or the open transfer of the ID of s is, and if that
\* answers s, with yes.
<1>6. \/ UNCHANGED installed /\ (answer'[s] = "yes" => answer[s] = "yes")
      \/ \E x \in Senders : /\ Holds(x) /\ TransferID[x] = TransferID[s]
                            /\ installed' = installed \cup {x}
                            /\ answer'[s] = "no" => answer[s] = "no"
  <2>1. CASE commitUnknown \/ commitRefused
    <3>1. Reply(s, "commit", "no") /\ UNCHANGED installed
      BY <1>1, <2>1 DEF commitUnknown, commitRefused, receiverVars
    <3> QED
      BY <1>2, <1>t, <3>1, ReplyEffect
  <2>2. CASE commitRenames
    <3>1. PICK e : e = incoming[TransferID[s]]
      OBVIOUS
    <3>2. e # None /\ installed' = installed \cup {e.by} /\ Reply(s, "commit", "yes")
      BY <1>1, <2>2, <3>1 DEF commitRenames, Exists
    <3>3. e \in Entry /\ e.by \in Senders /\ TransferID[e.by] = TransferID[s]
      BY <1>2, <1>t, <3>1, <3>2, TransferAssumption DEF Entry, IInv, ReceiverInv, Announced
    <3>4. Holds(e.by)
      BY <3>1, <3>2, <3>3 DEF Holds, Exists
    <3>5. answer'[s] = "no" => answer[s] = "no"
      BY <1>2, <1>t, <3>2, ReplyEffect
    <3> QED
      BY <3>2, <3>3, <3>4, <3>5
  <2> QED
    BY <2>1, <2>2 DEF handleCommit
<1>7. \A r \in Senders :
          (Closed(r) => Closed(r)') /\ (Fresh(r)' => Fresh(r)) /\ (Owes(r)' => Owes(r))
  BY <1>2, <1>3, <1>4, <1>5 DEF Closed, Fresh, Owes
<1>8. Closed(s)' /\ ~Fresh(s)' /\ (Retries[s] = 0 => ~Owes(s)') /\ Owes(s)
  <2>1. Closed(s)'
    BY <1>2, <1>5 DEF Closed, Kinds
  <2>2. ~Fresh(s)'
    BY <1>3, <1>4, <2>1 DEF Fresh
  <2>3. Retries[s] = 0 => ~Owes(s)'
    BY <1>2, <1>3, <1>4 DEF Owes, Kinds
  <2> QED
    BY <1>2, <2>1, <2>2, <2>3 DEF Owes
\* A sender whose commit has not been handled loses nothing.
<1>9. ASSUME NEW q \in Senders, IDRespected(q), Fresh(q), TransferID[q] = TransferID[s]
      PROVE  Holds(s) /\ \A r \in Senders : TransferID[r] = TransferID[q] /\ Owes(r) => r = s
  <2>1. \A r \in Senders : TransferID[r] = TransferID[q] /\ Owes(r) => Holds(r)
    BY <1>9 DEF IInv, OwnersKept
  <2> QED
    BY <1>2, <1>8, <1>9, <2>1 DEF Holds
<1>10. AnswerCloses'
  BY <1>2, <1>3, <1>4, <1>7, <1>8 DEF IInv, AnswerCloses
<1>11. OwnersKept'
  <2> SUFFICES ASSUME NEW q \in Senders, IDRespected(q), Fresh(q)',
                      NEW r \in Senders, TransferID[r] = TransferID[q], Owes(r)'
               PROVE  Holds(r)'
    BY DEF OwnersKept, IDRespected
  <2>1. Fresh(q) /\ Owes(r) /\ Holds(r)
    BY <1>7 DEF IInv, OwnersKept
  <2>2. CASE TransferID[q] # TransferID[s]
    BY <1>5, <2>1, <2>2
  <2>3. CASE TransferID[q] = TransferID[s]
    <3>1. r = s
      BY <1>9, <2>1, <2>3
    <3>2. q # s => Retries[s] = 0
      BY <1>2, <2>3 DEF IDRespected
    <3> QED
      BY <1>8, <3>1, <3>2
  <2> QED
    BY <2>2, <2>3
<1>12. AnswerTrue'
  <2> SUFFICES ASSUME NEW q \in Senders, IDRespected(q)
               PROVE  /\ pc'[q] = "commit" /\ answer'[q] = "yes" => q \in installed'
                      /\ Fresh(q)' => q \notin installed'
                      /\ pc'[q] = "commit" /\ answer'[q] = "no" => q \notin installed'
    BY DEF AnswerTrue, IDRespected
  <2>0. /\ pc[q] = "commit" /\ answer[q] = "yes" => q \in installed
        /\ Fresh(q) => q \notin installed
        /\ pc[q] = "commit" /\ answer[q] = "no" => q \notin installed
    BY DEF IInv, AnswerTrue
  <2>1. ASSUME pc'[q] = "commit", answer'[q] = "yes" PROVE q \in installed'
    <3>1. CASE answer[q] = "yes"
      BY <1>3, <1>6, <2>0, <2>1, <3>1
    <3>2. CASE answer[q] # "yes"
      <4>1. q = s /\ Fresh(s)
        BY <1>3, <1>4, <2>1, <3>2 DEF Fresh
      <4>2. Holds(s)
        BY <1>9, <4>1
      <4> QED
        BY <1>6, <2>1, <3>2, <4>1, <4>2 DEF Holds
    <3> QED
      BY <3>1, <3>2
  <2>2. ASSUME Fresh(q)' PROVE q \notin installed'
    <3>1. Fresh(q) /\ q # s
      BY <1>7, <1>8, <2>2
    <3>2. TransferID[q] = TransferID[s] => ~Holds(q)
      BY <1>2, <1>9, <3>1 DEF Holds
    <3> QED
      BY <1>6, <2>0, <3>1, <3>2
  <2>3. ASSUME pc'[q] = "commit", answer'[q] = "no" PROVE q \notin installed'
    <3>1. CASE answer[q] = "no"
      <4>1. ~Holds(q)
        BY <1>3, <2>3, <3>1 DEF IInv, AnswerCloses, Closed
      <4> QED
        BY <1>3, <1>6, <2>0, <2>3, <3>1, <4>1
    <3>2. CASE answer[q] # "no"
      <4>1. q = s /\ Fresh(s)
        BY <1>3, <1>4, <2>3, <3>2 DEF Fresh
      <4> QED
        BY <1>6, <2>0, <2>3, <3>2, <4>1
    <3> QED
      BY <3>1, <3>2
  <2> QED
    BY <2>1, <2>2, <2>3
<1>13. SuccessMeansInstalled'
  BY <1>3, <1>6 DEF IInv, SuccessMeansInstalled, IDRespected
<1>14. RefusalMeansNotInstalled'
  <2> SUFFICES ASSUME NEW q \in Senders, IDRespected(q), pc[q] = "rejected", q \in installed'
               PROVE  FALSE
    BY <1>3 DEF RefusalMeansNotInstalled, IDRespected
  <2>1. q \notin installed
    BY DEF IInv, RefusalMeansNotInstalled
  <2>2. Holds(q) /\ TransferID[q] = TransferID[s]
    BY <1>6, <2>1
  <2>3. Fresh(q)
    BY <2>2 DEF Fresh, Closed
  <2>4. q = s
    BY <1>2, <1>9, <2>2, <2>3 DEF Holds
  <2> QED
    BY <1>2, <2>2, <2>4 DEF IInv, AnswerCloses, Closed
<1> QED
  BY <1>10, <1>11, <1>12, <1>13, <1>14

\* Nothing else changes owners or answers.
LEMMA OwnersOther ==
    ASSUME IInv, (\E s \in Senders : ChangeFile(s)) \/ OnReceive \/ ServeEnds \/ UNCHANGED vars
    PROVE  IInv'
<1>1. ReceiverInv'
  BY ReceiverOther DEF IInv
<1>2. UNCHANGED <<pc, answer, wire, incoming, installed>>
  BY DEF ChangeFile, OnReceive, ServeEnds, vars, wireVars, receiverVars
<1>3. AnswerCloses' /\ OwnersKept'
  BY <1>2 DEF IInv, AnswerCloses, OwnersKept, Fresh, Owes, Closed, Holds, Exists, OnWire
<1>4. AnswerTrue' /\ SuccessMeansInstalled' /\ RefusalMeansNotInstalled'
  BY <1>2 DEF IInv, AnswerTrue, SuccessMeansInstalled, RefusalMeansNotInstalled, Fresh, Closed,
              Holds, Exists, OnWire
<1> QED
  BY <1>1, <1>3, <1>4 DEF IInv
-----------------------------------------------------------------------------
(* The theorems.                                                           *)

\* No transfer is open and nothing is announced.
LEMMA InitIInv == Init => IInv
<1> SUFFICES ASSUME Init PROVE IInv
  OBVIOUS
<1> USE TransferAssumption DEF Init
<1>1. TypeOK
  <2>1. 0 \in 0..MaxLen /\ 0 \in 0..MaxChanges
    OBVIOUS
  <2>2. wire \in Seq([from : Senders, kind : Kinds, data : Contents])
    OBVIOUS
  <2>3. size \in [Senders -> 0..MaxLen] /\ repeats \in [Senders -> Nat]
        /\ \A s \in Senders : repeats[s] <= Retries[s]
    BY <2>1
  <2> QED
    BY <2>1, <2>2, <2>3 DEF TypeOK, PCs
<1>2. Len(wire) = 0 /\ \A s, k : ~OnWire(s, k)
  BY DEF OnWire
<1>3. WireInv
  BY <1>1, <1>2 DEF WireInv, WireFollowsPC, WireInOrder, CommitOnce
<1>4. TempsDistinct
  BY FS_EmptySet DEF TempsDistinct
<1>5. ReceiverInv
  BY <1>3, <1>4 DEF ReceiverInv, Announced, TempsOwned, FinalIsWhole
<1>6. AnswerCloses /\ OwnersKept
  BY <1>2 DEF AnswerCloses, OwnersKept, Owes
<1>7. AnswerTrue /\ SuccessMeansInstalled /\ RefusalMeansNotInstalled
  BY DEF AnswerTrue, SuccessMeansInstalled, RefusalMeansNotInstalled
<1> QED
  BY <1>5, <1>6, <1>7 DEF IInv

\* Every step keeps the invariant.
LEMMA NextIInv == IInv /\ [Next]_vars => IInv'
<1> SUFFICES ASSUME IInv, [Next]_vars PROVE IInv'
  OBVIOUS
<1>1. ASSUME NEW s \in Senders, SendFile(s) PROVE IInv'
  BY <1>1, OwnersSend
<1>2. CASE Serve
  <2>1. ReceiverInv'
    BY <1>2, ReceiverServe DEF IInv
  <2>2. AnswerCloses' /\ OwnersKept' /\ AnswerTrue' /\ SuccessMeansInstalled'
        /\ RefusalMeansNotInstalled'
    BY <1>2, OwnersOpen, OwnersBody, OwnersCommit DEF Serve
  <2> QED
    BY <2>1, <2>2 DEF IInv
<1>3. CASE (\E s \in Senders : ChangeFile(s)) \/ OnReceive \/ ServeEnds \/ UNCHANGED vars
  BY <1>3, OwnersOther
<1> QED
  BY <1>1, <1>2, <1>3 DEF Next

\* The inductive invariant holds in every run of SendFile calls and the peer's Serve.
THEOREM Invariance == Spec => []IInv
BY InitIInv, NextIInv, PTL DEF Spec

\* Every variable keeps its type and no open or commit request is repeated more often
\* than its Messenger may, whatever the handlers meet.
THEOREM TypeCorrect == Spec => []TypeOK
<1>1. IInv => TypeOK
  BY DEF IInv, ReceiverInv, WireInv
<1> QED
  BY <1>1, Invariance, PTL

\* handleCommit never shows a partial or foreign file: what a final path holds is what
\* one of the senders of that path announced when it opened its transfer, for any
\* number of senders that share IDs, paths and the connection.
THEOREM FinalWhole == Spec => []FinalIsWhole
<1>1. IInv => FinalIsWhole
  BY DEF IInv, ReceiverInv
<1> QED
  BY <1>1, Invariance, PTL

\* handleOpen and handleCommit keep the .part files exactly those of the open transfers.
THEOREM TempsExact == Spec => []TempsOwned
<1>1. IInv => TempsOwned
  BY DEF IInv, ReceiverInv
<1> QED
  BY <1>1, Invariance, PTL

\* SendFile reports success only for a file that handleCommit renamed into place, as
\* long as nobody else repeats requests under its transfer ID.
THEOREM SuccessTrue == Spec => []SuccessMeansInstalled
<1>1. IInv => SuccessMeansInstalled
  BY DEF IInv
<1> QED
  BY <1>1, Invariance, PTL

\* A SendFile that the receiver refused has not put its file in place, even when its
\* own open or commit was repeated.
THEOREM RefusalTrue == Spec => []RefusalMeansNotInstalled
<1>1. IInv => RefusalMeansNotInstalled
  BY DEF IInv
<1> QED
  BY <1>1, Invariance, PTL

\* The transfer that handleOpen accepted is still its sender's when the body and the
\* commit are sent.
THEOREM SessionsKept == Spec => []SessionKept
<1>1. IInv => SessionKept
  BY TransferAssumption DEF IInv, OwnersKept, SessionKept, Fresh, Owes, Holds, Exists
<1> QED
  BY <1>1, Invariance, PTL
=============================================================================
