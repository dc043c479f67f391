-------------------------- MODULE UsbSemaphoreProofs --------------------------
(***************************************************************************)
(* Proofs about UsbSemaphore, for any set of processes.                    *)
(***************************************************************************)
EXTENDS UsbSemaphore, TLAPS

(* A semaphore that is not there has no users; one that was not set has    *)
(* not been taken, and has one maker at most.                              *)
FreshInv ==
  /\ ~exists => users = {}
  /\ holders \subseteq users
  /\ ~ready => val = 0 /\ holders = {}
  /\ \A p \in Procs : pc[p] = "setval" => p \in users /\ ~ready
  /\ \A p, q \in Procs : pc[p] = "setval" /\ pc[q] = "setval" => p = q

(* Only who has set a semaphore removes it, so that none is removed that   *)
(* is not yet set.                                                         *)
OwnerInv ==
  /\ \A p \in Procs : pc[p] = "attach" => ~semaphore_owner[p]
  /\ \A p \in users : semaphore_owner[p] => ready \/ pc[p] = "setval"

(* One process at most has the semaphore, and every user of it that deals  *)
(* with the device does.                                                   *)
HeldInv ==
  /\ TakenIfHeld
  /\ \A p, q \in holders : p = q
  /\ \A p \in users : InSection(p) => p \in holders

Inv == TypeOK /\ FreshInv /\ OwnerInv /\ HeldInv

LEMMA InitInv == Init => Inv
<1> SUFFICES ASSUME Init PROVE Inv
  OBVIOUS
<1>1. TypeOK
  <2>1. val \in 0..1
    BY DEF Init
  <2>2. exists \in BOOLEAN /\ ready \in BOOLEAN
    BY DEF Init
  <2>3. holders \subseteq Procs /\ users \subseteq Procs
    BY DEF Init
  <2>4. pc \in [Procs -> Places] /\ semaphore_owner \in [Procs -> BOOLEAN] /\ failed \in [Procs -> BOOLEAN]
    BY DEF Init, Places
  <2> QED BY <2>1, <2>2, <2>3, <2>4 DEF TypeOK
<1>2. FreshInv
  BY DEF Init, FreshInv
<1>3. OwnerInv
  BY DEF Init, OwnerInv
<1>4. HeldInv
  BY DEF Init, HeldInv, TakenIfHeld, InSection
<1> QED BY <1>1, <1>2, <1>3, <1>4 DEF Inv

(* init_usb_criticalsection() makes or finds a semaphore.                  *)
LEMMA MakeInv ==
  ASSUME Inv, NEW p \in Procs, Create(p) \/ Exists(p) \/ SetVal(p) \/ Attach(p)
  PROVE  Inv'
<1> USE DEF Goto
<1>1. CASE Create(p)
  <2>1. TypeOK'
    <3>1. val' \in 0..1
      BY <1>1 DEF Create, MakeSemaphore
    <3>2. exists' \in BOOLEAN /\ ready' \in BOOLEAN
      BY <1>1 DEF Create, MakeSemaphore
    <3>3. holders' \subseteq Procs /\ users' \subseteq Procs
      BY <1>1 DEF Inv, TypeOK, Create, MakeSemaphore
    <3>4. pc' \in [Procs -> Places] /\ semaphore_owner' \in [Procs -> BOOLEAN] /\ failed' \in [Procs -> BOOLEAN]
      BY <1>1 DEF Inv, TypeOK, Create, Places
    <3> QED BY <3>1, <3>2, <3>3, <3>4 DEF TypeOK
  <2>2. FreshInv' /\ OwnerInv'
    BY <1>1 DEF Inv, TypeOK, FreshInv, OwnerInv, Create, MakeSemaphore
  <2>3. HeldInv'
    BY <1>1 DEF Inv, TypeOK, FreshInv, HeldInv, TakenIfHeld, InSection, Create, MakeSemaphore
  <2> QED BY <2>1, <2>2, <2>3 DEF Inv
<1>2. CASE Exists(p)
  <2>1. TypeOK'
    BY <1>2 DEF Inv, TypeOK, Exists, kernel, Places
  <2>2. FreshInv' /\ OwnerInv'
    BY <1>2 DEF Inv, TypeOK, FreshInv, OwnerInv, Exists, kernel
  <2>3. HeldInv'
    BY <1>2 DEF Inv, TypeOK, HeldInv, TakenIfHeld, InSection, Exists, kernel
  <2> QED BY <2>1, <2>2, <2>3 DEF Inv
<1>3. CASE SetVal(p)
  <2>1. TypeOK'
    BY <1>3 DEF Inv, TypeOK, SetVal, Places
  <2>2. FreshInv' /\ OwnerInv'
    BY <1>3 DEF Inv, TypeOK, FreshInv, OwnerInv, SetVal
  <2>3. HeldInv'
    BY <1>3 DEF Inv, TypeOK, FreshInv, HeldInv, TakenIfHeld, InSection, SetVal
  <2> QED BY <2>1, <2>2, <2>3 DEF Inv
<1>4. CASE Attach(p) /\ exists
  <2>1. TypeOK'
    BY <1>4 DEF Inv, TypeOK, Attach, kernel, Places
  <2>2. FreshInv' /\ OwnerInv'
    BY <1>4 DEF Inv, TypeOK, FreshInv, OwnerInv, Attach, kernel
  <2>3. HeldInv'
    BY <1>4 DEF Inv, TypeOK, HeldInv, TakenIfHeld, InSection, Attach, kernel
  <2> QED BY <2>1, <2>2, <2>3 DEF Inv
<1>5. CASE Attach(p) /\ ~exists
  <2>1. TypeOK'
    <3>1. val' \in 0..1
      BY <1>5 DEF Attach, MakeSemaphore
    <3>2. exists' \in BOOLEAN /\ ready' \in BOOLEAN
      BY <1>5 DEF Attach, MakeSemaphore
    <3>3. holders' \subseteq Procs /\ users' \subseteq Procs
      BY <1>5 DEF Inv, TypeOK, Attach, MakeSemaphore
    <3>4. pc' \in [Procs -> Places] /\ semaphore_owner' \in [Procs -> BOOLEAN] /\ failed' \in [Procs -> BOOLEAN]
      BY <1>5 DEF Inv, TypeOK, Attach, Places
    <3> QED BY <3>1, <3>2, <3>3, <3>4 DEF TypeOK
  <2>2. FreshInv' /\ OwnerInv'
    BY <1>5 DEF Inv, TypeOK, FreshInv, OwnerInv, Attach, MakeSemaphore
  <2>3. HeldInv'
    BY <1>5 DEF Inv, TypeOK, FreshInv, HeldInv, TakenIfHeld, InSection, Attach, MakeSemaphore
  <2> QED BY <2>1, <2>2, <2>3 DEF Inv
<1> QED BY <1>1, <1>2, <1>3, <1>4, <1>5

(* enter_usb_criticalsection() and the rest of OpenDevice().               *)
LEMMA EnterInv ==
  ASSUME Inv, NEW p \in Procs, Take(p) \/ EnterFails(p) \/ Opened(p) \/ OpenFails(p)
  PROVE  Inv'
<1> USE DEF Goto
<1>1. CASE Take(p)
  <2>1. TypeOK'
    BY <1>1 DEF Inv, TypeOK, Take, Places
  <2>2. FreshInv' /\ OwnerInv'
    BY <1>1 DEF Inv, TypeOK, FreshInv, OwnerInv, Take
  <2>3. holders = {}
    BY <1>1 DEF Inv, TypeOK, FreshInv, HeldInv, TakenIfHeld, Take
  <2>4. val' = 0 /\ holders' = {p}
    BY <1>1, <2>3 DEF Inv, TypeOK, Take
  <2>5. HeldInv'
    BY <1>1, <2>3, <2>4 DEF Inv, TypeOK, HeldInv, TakenIfHeld, InSection, Take
  <2> QED BY <2>1, <2>2, <2>5 DEF Inv
<1>2. CASE EnterFails(p) \/ Opened(p) \/ OpenFails(p)
  <2>1. TypeOK'
    BY <1>2 DEF Inv, TypeOK, EnterFails, Opened, OpenFails, kernel, Places
  <2>2. FreshInv' /\ OwnerInv'
    BY <1>2 DEF Inv, TypeOK, FreshInv, OwnerInv, EnterFails, Opened, OpenFails, InSection, kernel
  <2>3. HeldInv'
    BY <1>2 DEF Inv, TypeOK, HeldInv, TakenIfHeld, InSection, EnterFails, Opened, OpenFails, kernel
  <2> QED BY <2>1, <2>2, <2>3 DEF Inv
<1> QED BY <1>1, <1>2

(* CloseDevice() and the end of a process.                                 *)
LEMMA LeaveInv ==
  ASSUME Inv, NEW p \in Procs, CloseDevice(p) \/ Exit(p)
  PROVE  Inv'
<1> USE DEF Goto
<1>1. CASE Release(p) /\ p \in users
  <2>1. p \in holders /\ holders = {p} /\ val = 0 /\ ready
    BY <1>1 DEF Inv, TypeOK, FreshInv, HeldInv, TakenIfHeld, InSection, Release
  <2>2. val' = 1 /\ holders' = {}
    BY <1>1, <2>1 DEF Release
  <2>3. TypeOK'
    BY <1>1, <2>2 DEF Inv, TypeOK, Release, Places
  <2>4. FreshInv' /\ OwnerInv'
    BY <1>1, <2>1, <2>2 DEF Inv, TypeOK, FreshInv, OwnerInv, Release
  <2>5. HeldInv'
    BY <1>1, <2>1, <2>2 DEF Inv, TypeOK, HeldInv, TakenIfHeld, InSection, Release
  <2> QED BY <2>3, <2>4, <2>5 DEF Inv
<1>2. CASE Release(p) /\ p \notin users
  <2>1. TypeOK'
    BY <1>2 DEF Inv, TypeOK, Release, Places
  <2>2. FreshInv' /\ OwnerInv'
    BY <1>2 DEF Inv, TypeOK, FreshInv, OwnerInv, Release
  <2>3. HeldInv'
    BY <1>2 DEF Inv, TypeOK, HeldInv, TakenIfHeld, InSection, Release
  <2> QED BY <2>1, <2>2, <2>3 DEF Inv
<1>3. CASE Discard(p) /\ semaphore_owner[p] /\ p \in users
  <2>1. \A q \in Procs : pc[q] # "setval"
    BY <1>3 DEF Inv, FreshInv, OwnerInv, Discard
  <2>2. TypeOK'
    <3>1. val' \in 0..1
      BY <1>3 DEF Discard
    <3>2. exists' \in BOOLEAN /\ ready' \in BOOLEAN
      BY <1>3 DEF Discard
    <3>3. holders' \subseteq Procs /\ users' \subseteq Procs
      BY <1>3 DEF Discard
    <3>4. pc' \in [Procs -> Places] /\ semaphore_owner' \in [Procs -> BOOLEAN] /\ failed' \in [Procs -> BOOLEAN]
      BY <1>3 DEF Inv, TypeOK, Discard, Places
    <3> QED BY <3>1, <3>2, <3>3, <3>4 DEF TypeOK
  <2>3. FreshInv' /\ OwnerInv'
    BY <1>3, <2>1 DEF Inv, TypeOK, FreshInv, OwnerInv, Discard
  <2>4. HeldInv'
    BY <1>3 DEF Inv, TypeOK, HeldInv, TakenIfHeld, InSection, Discard
  <2> QED BY <2>2, <2>3, <2>4 DEF Inv
<1>4. CASE Discard(p) /\ ~(semaphore_owner[p] /\ p \in users)
  <2>1. TypeOK'
    BY <1>4 DEF Inv, TypeOK, Discard, kernel, Places
  <2>2. FreshInv' /\ OwnerInv'
    BY <1>4 DEF Inv, TypeOK, FreshInv, OwnerInv, Discard, kernel
  <2>3. HeldInv'
    BY <1>4 DEF Inv, TypeOK, HeldInv, TakenIfHeld, InSection, Discard, kernel
  <2> QED BY <2>1, <2>2, <2>3 DEF Inv
<1>5. CASE Exit(p) /\ p \in holders
  <2>1. holders = {p} /\ val = 0 /\ ready
    BY <1>5 DEF Inv, TypeOK, FreshInv, HeldInv, TakenIfHeld
  <2>2. val' = 1 /\ holders' = {}
    BY <1>5, <2>1 DEF Exit
  <2>3. TypeOK'
    BY <1>5, <2>2 DEF Inv, TypeOK, Exit, Places
  <2>4. FreshInv' /\ OwnerInv'
    BY <1>5, <2>1, <2>2 DEF Inv, TypeOK, FreshInv, OwnerInv, Exit
  <2>5. HeldInv'
    BY <1>5, <2>1, <2>2 DEF Inv, TypeOK, HeldInv, TakenIfHeld, InSection, Exit
  <2> QED BY <2>3, <2>4, <2>5 DEF Inv
<1>6. CASE Exit(p) /\ p \notin holders
  <2>1. holders' = holders /\ val' = val
    BY <1>6 DEF Exit
  <2>2. TypeOK'
    BY <1>6, <2>1 DEF Inv, TypeOK, Exit, Places
  <2>3. FreshInv' /\ OwnerInv'
    BY <1>6, <2>1 DEF Inv, TypeOK, FreshInv, OwnerInv, Exit
  <2>4. HeldInv'
    BY <1>6, <2>1 DEF Inv, TypeOK, HeldInv, TakenIfHeld, InSection, Exit
  <2> QED BY <2>2, <2>3, <2>4 DEF Inv
<1> QED BY <1>1, <1>2, <1>3, <1>4, <1>5, <1>6 DEF CloseDevice

LEMMA StutterInv == Inv /\ UNCHANGED vars => Inv'
  BY DEF Inv, TypeOK, FreshInv, OwnerInv, HeldInv, TakenIfHeld, InSection, vars, kernel

LEMMA Invariance == Spec => []Inv
<1>1. Inv /\ [Next]_vars => Inv'
  BY MakeInv, EnterInv, LeaveInv, StutterInv DEF Next, OpenDevice
<1> QED BY InitInv, <1>1, PTL DEF Spec

(* The variables of the semaphore have their types, for any number of      *)
(* processes: its value never gets beyond 1.                               *)
THEOREM SemaphoreTypes == Spec => []TypeOK
  BY Invariance, PTL DEF Inv

(* Under the semaphore that has the key one process at a time deals with   *)
(* the device, for any number of processes that open, close, fail and are  *)
(* killed anywhere in OpenDevice() and CloseDevice().                      *)
THEOREM ExclusionUnderKey == Spec => []OverlapNeedsRemoval
<1>1. Inv => OverlapNeedsRemoval
  BY DEF Inv, HeldInv, OverlapNeedsRemoval
<1> QED BY Invariance, <1>1, PTL

(* No exit and no removal leaves a semaphore taken that was set, or gives  *)
(* it free while a process has it.                                         *)
THEOREM NoExitLocks == Spec => []TakenIfHeld
<1>1. Inv => TakenIfHeld
  BY DEF Inv, HeldInv
<1> QED BY Invariance, <1>1, PTL
=============================================================================
