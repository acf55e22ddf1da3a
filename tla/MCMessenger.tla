---------------------------- MODULE MCMessenger ----------------------------
(***************************************************************************)
(* Instances of Messenger for TLC: a host and a guest, and two or three     *)
(* calls.                                                                  *)
(* Each cfg picks one of the named values below for a CONSTANT.            *)
(***************************************************************************)
EXTENDS Messenger, TLC

CONSTANTS host, guest, c1, c2, c3

BothEnds   == {host, guest}
BothCalls  == {c1, c2}
ThreeCalls == {c1, c2, c3}
Across     == (host :> guest) @@ (guest :> host)

\* Who calls.
FromHost   == (c1 :> host) @@ (c2 :> host)
FromBoth   == (c1 :> host) @@ (c2 :> guest)
HostTwice  == FromBoth @@ (c3 :> host)

\* Which IDs the calls use.
TwoIDs     == (c1 :> 1) @@ (c2 :> 2)
Repeated   == TwoIDs @@ (c3 :> 1)

\* What they send.
EvtEvt     == (c1 :> "evt") @@ (c2 :> "evt")
ReqReq     == (c1 :> "req") @@ (c2 :> "req")
ReqEvt     == (c1 :> "req") @@ (c2 :> "evt")
AllReq     == [c \in ThreeCalls |-> "req"]
SmallLens  == (c1 :> 1) @@ (c2 :> 1)
OneLarge   == SmallLens @@ (c3 :> 5)

\* MessengerConfig of the two ends.
AllTrue    == [e \in BothEnds |-> TRUE]
AllFalse   == [e \in BothEnds |-> FALSE]
HostOnly   == (host :> TRUE) @@ (guest :> FALSE)
NoRetries  == [e \in BothEnds |-> 0]
OneRetry   == [e \in BothEnds |-> 1]
NoLimit    == [e \in BothEnds |-> 0]
Limit20    == (host :> 20) @@ (guest :> 0)
Limit4     == (host :> 4) @@ (guest :> 0)
=============================================================================
