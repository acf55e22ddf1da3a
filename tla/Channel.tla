------------------------------- MODULE Channel -------------------------------
(***************************************************************************)
(* What a pair of Messengers (vsock/messenger.go) promises to the          *)
(* goroutines that call Send and Request, and what FileTransfer and        *)
(* Heartbeat are built on: the callback of the peer runs after the call,   *)
(* no more often than the retries allow, possibly after the caller has     *)
(* given up; and a success that is confirmed means that it did run.        *)
(***************************************************************************)
EXTENDS Naturals

CONSTANTS
    Calls,      \* the calls
    Budget,     \* how often the callback may run for a call
    Confirmed   \* calls that return only what the peer has told them

VARIABLES
    outcome,    \* what each call has returned
    served      \* how often the peer's callback has run for it

channelVars == <<outcome, served>>

Init ==
    /\ outcome = [c \in Calls |-> "idle"]
    /\ served = [c \in Calls |-> 0]

Return(c, r) == outcome' = [outcome EXCEPT ![c] = r]

\* The call is under way; one that repeats a pending ID is refused.
Call(c) == outcome[c] = "idle" /\ (Return(c, "open") \/ Return(c, "err")) /\ UNCHANGED served

\* The callback of the peer returns nil.
Serve(c) ==
    /\ outcome[c] # "idle" /\ served[c] < Budget[c]
    /\ served' = [served EXCEPT ![c] = @ + 1]
    /\ UNCHANGED outcome

Succeed(c) ==
    /\ outcome[c] = "open" /\ (c \in Confirmed => served[c] > 0)
    /\ Return(c, "ok")
    /\ UNCHANGED served

\* The caller learns nothing: the callback may have run, or may still run.
GiveUp(c) == outcome[c] = "open" /\ Return(c, "err") /\ UNCHANGED served

Next == \E c \in Calls : Call(c) \/ Serve(c) \/ Succeed(c) \/ GiveUp(c)

Spec == Init /\ [][Next]_channelVars
=============================================================================
