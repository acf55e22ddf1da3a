------------------------------- MODULE VMProofs -------------------------------
(***************************************************************************)
(* What the second Lock of v.lock amounts to, for any number of goroutines  *)
(* and drives: no operation that takes it ever has an effect.               *)
(***************************************************************************)
EXTENDS VM, TLAPS

\* A goroutine past its own Lock is the one that holds v.lock.
HoldsLock == \A p \in Procs : pc[p] \in {"locked", "relock"} => lock = p

\* The inductive invariant.
IInv ==
    /\ pc \in [Procs -> {"idle", "lock", "locked", "relock"}]
    /\ HoldsLock

\* What a step may do at most: Cleanup stops the machine, or it changes by itself.
Inert ==
    /\ drives' = drives
    /\ machine' = machine \/ MachineChanges \/ \E p \in Procs : Cleanup(p)

\* No goroutine gets past the Lock of IsStarted that an operation calls.
LEMMA NoneChecked ==
    ASSUME None \notin Procs, IInv, NEW p \in Procs, NEW op
    PROVE  ~Checked(p, op)
  BY DEF IInv, HoldsLock, Checked

\* A step keeps the invariant and has no other effect.
LEMMA StepInert ==
    ASSUME None \notin Procs, IInv, [Next]_vars
    PROVE  IInv' /\ Inert
  <1>1. CASE UNCHANGED vars
    BY <1>1 DEF vars, IInv, HoldsLock, Inert
  <1>2. ASSUME NEW p \in Procs, Call(p)
        PROVE  IInv' /\ Inert
    BY <1>2 DEF Call, Goto, IInv, HoldsLock, Inert
  <1>3. ASSUME NEW p \in Procs, Lock(p)
        PROVE  IInv' /\ Inert
    BY <1>3 DEF Lock, Goto, IInv, HoldsLock, Inert
  <1>4. ASSUME NEW p \in Procs,
               Answer(p) \/ HotRemoveDrive(p) \/ UnknownDrive(p) \/ Cleanup(p)
        PROVE  IInv' /\ Inert
    <2>1. lock = p /\ lock' = None /\ pc' = [pc EXCEPT ![p] = "idle"]
      BY <1>4 DEF Answer, HotRemoveDrive, UnknownDrive, Cleanup, In, Return, Goto, IInv,
                  HoldsLock
    <2>2. Inert
      BY <1>4 DEF Answer, HotRemoveDrive, UnknownDrive, Cleanup, Inert
    <2>3. \A q \in Procs : pc'[q] \notin {"locked", "relock"}
      BY <2>1 DEF IInv, HoldsLock
    <2> QED
      BY <2>1, <2>2, <2>3 DEF IInv, HoldsLock
  <1>5. ASSUME NEW p \in Procs, CallIsStarted(p)
        PROVE  IInv' /\ Inert
    BY <1>5 DEF CallIsStarted, In, Goto, IInv, HoldsLock, Inert
  <1>6. ASSUME NEW p \in Procs
        PROVE  ~(Start(p) \/ Stop(p) \/ AddDrive(p) \/ RemoveDrive(p) \/ HotAddDrive(p))
    BY NoneChecked DEF Start, Stop, AddDrive, RemoveDrive, HotAddDrive
  <1>7. CASE MachineChanges
    BY <1>7 DEF MachineChanges, IInv, HoldsLock, Inert
  <1> QED
    BY <1>1, <1>2, <1>3, <1>4, <1>5, <1>6, <1>7 DEF Next, Proceed

\* However the operations are called, the set of drives stays the one NewVM was
\* given, and none of them changes the machine but Cleanup: Start, Stop, AddDrive,
\* RemoveDrive and HotAddDrive never get to their effect.
THEOREM OperationsInert ==
    ASSUME None \notin Procs
    PROVE  Spec => [][Inert]_vars
  <1>1. Init => IInv
    BY DEF Init, IInv, HoldsLock
  <1>2. IInv /\ [Next]_vars => IInv' /\ [Inert]_vars
    BY StepInert
  <1> QED
    BY <1>1, <1>2, PTL DEF Spec
=============================================================================
