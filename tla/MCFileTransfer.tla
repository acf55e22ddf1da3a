--------------------------- MODULE MCFileTransfer ---------------------------
(***************************************************************************)
(* Instance of FileTransfer for TLC: two senders that choose the same      *)
(* transfer ID; the first repeats its requests, the second is given a      *)
(* checksum by its caller.                                                 *)
(***************************************************************************)
EXTENDS FileTransfer, TLC

CONSTANTS s1, s2, id, d1

TwoSenders == {s1, s2}
OneID      == [s \in TwoSenders |-> id]
OneDest    == [s \in TwoSenders |-> d1]
SecondGiven == (s1 :> None) @@ (s2 :> <<1>>)
FirstRetries == (s1 :> 1) @@ (s2 :> 0)
=============================================================================
