----------------------------- MODULE MCHeartbeat -----------------------------
(***************************************************************************)
(* Instance of Heartbeat for TLC: Start is called twice at the host and     *)
(* once at the guest.                                                      *)
(***************************************************************************)
EXTENDS Heartbeat, TLC

CONSTANTS host, guest, h1, h2, g1

BothEnds   == {host, guest}
Across     == (host :> guest) @@ (guest :> host)
ThreeLoops == {h1, h2, g1}
HostTwice  == (h1 :> host) @@ (h2 :> host) @@ (g1 :> guest)
=============================================================================
