----------------------------- MODULE UsbSemaphore -----------------------------
(***************************************************************************)
(* The System V semaphore by which processes take turns at a USB scanner   *)
(* (libsane-brother/brother_devaccs.c): OpenDevice() makes or finds the    *)
(* semaphore and takes it, CloseDevice() releases it, and the process that *)
(* made it removes it. Every sane_open() of a legacy scanner and the first *)
(* page of every scan opens the device, the end of each closes it.         *)
(*                                                                         *)
(* The id of a semaphore that was removed is not given again: of sem_id    *)
(* only matters whether it is the id of the one that has the key.          *)
(* Each step is one system call.                                           *)
(***************************************************************************)
EXTENDS Naturals

CONSTANT Procs  (* the processes, each with one scanner open               *)

VARIABLES
  exists,   (* there is a semaphore                                        *)
  val,      (* its value                                                   *)
  ready,    (* its value was set when it was new                           *)
  holders,  (* the processes at whose exit the kernel releases it          *)
            (* (SEM_UNDO)                                                  *)
  users,    (* the processes whose sem_id is its id                        *)
  semaphore_owner,  (* the global of a process                             *)
  pc,       (* where in OpenDevice() or CloseDevice() a process is         *)
  failed    (* an OpenDevice() of the process has failed with no close     *)

kernel == <<exists, val, ready, holders>>
vars   == <<kernel, users, semaphore_owner, pc, failed>>

(* "out" and "in": between the calls, without and with the device open     *)
Places == {"out", "attach", "setval", "enter", "open", "in", "discard"}

(* The process deals with the device.                                      *)
InSection(p) == pc[p] \in {"open", "in"}

Goto(p, l) == pc' = [pc EXCEPT ![p] = l]

(* A new semaphore has the value 0.                                        *)
MakeSemaphore(p) ==
  /\ exists' = TRUE /\ val' = 0 /\ ready' = FALSE
  /\ users' = {p}
  /\ UNCHANGED holders

-----------------------------------------------------------------------------
(* init_usb_criticalsection(): semget() for a new semaphore, ...           *)

Create(p) ==
  /\ pc[p] = "out" /\ ~exists
  /\ MakeSemaphore(p)
  /\ Goto(p, "setval")
  /\ UNCHANGED <<semaphore_owner, failed>>

(* ... which fails if there is one, ...                                    *)
Exists(p) ==
  /\ pc[p] = "out" /\ exists
  /\ semaphore_owner' = [semaphore_owner EXCEPT ![p] = FALSE]
  /\ Goto(p, "attach")
  /\ UNCHANGED <<kernel, users, failed>>

(* ... the initial value of the new one, ...                               *)
SetVal(p) ==
  /\ pc[p] = "setval"
  /\ val' = 1 /\ ready' = TRUE /\ holders' = {}
  /\ semaphore_owner' = [semaphore_owner EXCEPT ![p] = TRUE]
  /\ Goto(p, "enter")
  /\ UNCHANGED <<exists, users, failed>>

(* Variant for the mutation check: an existing semaphore is set as well.   *)
SettingAttach(p) ==
  /\ pc[p] = "attach"
  /\ IF exists
     THEN users' = users \cup {p} /\ val' = 1 /\ UNCHANGED <<exists, ready, holders>>
     ELSE MakeSemaphore(p)
  /\ Goto(p, "enter")
  /\ UNCHANGED <<semaphore_owner, failed>>

(* ... or semget() for the one there is; it makes one that nobody will set *)
(* if that is gone.                                                        *)
Attach(p) ==
  /\ pc[p] = "attach"
  /\ IF exists
     THEN users' = users \cup {p} /\ UNCHANGED kernel
     ELSE MakeSemaphore(p)
  /\ Goto(p, "enter")
  /\ UNCHANGED <<semaphore_owner, failed>>

-----------------------------------------------------------------------------
(* enter_usb_criticalsection(): semop() waits for a positive value.        *)

(* Variant for the mutation check: semop() without SEM_UNDO.               *)
TakeNoUndo(p) ==
  /\ pc[p] = "enter" /\ p \in users /\ val > 0
  /\ val' = val - 1
  /\ Goto(p, "open")
  /\ UNCHANGED <<exists, ready, holders, users, semaphore_owner, failed>>

Take(p) ==
  /\ pc[p] = "enter" /\ p \in users /\ val > 0
  /\ val' = val - 1
  /\ holders' = holders \cup {p}
  /\ Goto(p, "open")
  /\ UNCHANGED <<exists, ready, users, semaphore_owner, failed>>

(* It fails on a semaphore that was removed, before or during the wait.    *)
(* OpenDevice() does not look at the result.                               *)
EnterFails(p) ==
  /\ pc[p] = "enter" /\ p \notin users
  /\ Goto(p, "open")
  /\ UNCHANGED <<kernel, users, semaphore_owner, failed>>

(* The device answers GET_OPEN, and what it still had to send is read.     *)
Opened(p) ==
  /\ pc[p] = "open"
  /\ Goto(p, "in")
  /\ UNCHANGED <<kernel, users, semaphore_owner, failed>>

(* It does not, or not the query that follows: sane_open() returns an error *)
(* and no handle to close.                                                 *)
OpenFails(p) ==
  /\ InSection(p)
  /\ failed' = [failed EXCEPT ![p] = TRUE]
  /\ Goto(p, "out")
  /\ UNCHANGED <<kernel, users, semaphore_owner>>

-----------------------------------------------------------------------------
(* CloseDevice(): release_usb_criticalsection() and                        *)
(* discard_usb_criticalsection().                                          *)

(* Variant for the mutation check: the semaphore is not released.          *)
SilentRelease(p) ==
  /\ pc[p] = "in"
  /\ Goto(p, "discard")
  /\ UNCHANGED <<kernel, users, semaphore_owner, failed>>

(* Variant for the mutation check: the semaphore is looked up by its key.  *)
KeyedRelease(p) ==
  /\ pc[p] = "in"
  /\ IF exists
     THEN val' = val + 1 /\ holders' = holders \ {p}
     ELSE UNCHANGED <<val, holders>>
  /\ Goto(p, "discard")
  /\ UNCHANGED <<exists, ready, users, semaphore_owner, failed>>

Release(p) ==
  /\ pc[p] = "in"
  /\ IF p \in users
     THEN val' = val + 1 /\ holders' = holders \ {p}
     ELSE UNCHANGED <<val, holders>>
  /\ Goto(p, "discard")
  /\ UNCHANGED <<exists, ready, users, semaphore_owner, failed>>

(* The semaphore is removed, even if another process has it.               *)
Discard(p) ==
  /\ pc[p] = "discard"
  /\ IF semaphore_owner[p] /\ p \in users
     THEN exists' = FALSE /\ val' = 0 /\ ready' = FALSE /\ holders' = {} /\ users' = {}
     ELSE UNCHANGED <<kernel, users>>
  /\ Goto(p, "out")
  /\ UNCHANGED <<semaphore_owner, failed>>

(* The process ends or is killed wherever it is, and a new one starts.     *)
Exit(p) ==
  /\ val' = IF p \in holders THEN val + 1 ELSE val
  /\ holders' = holders \ {p}
  /\ users' = users \ {p}
  /\ semaphore_owner' = [semaphore_owner EXCEPT ![p] = FALSE]
  /\ failed' = [failed EXCEPT ![p] = FALSE]
  /\ Goto(p, "out")
  /\ UNCHANGED <<exists, ready>>

-----------------------------------------------------------------------------
Init ==
  /\ exists = FALSE /\ val = 0 /\ ready = FALSE /\ holders = {} /\ users = {}
  /\ semaphore_owner = [p \in Procs |-> FALSE]
  /\ pc = [p \in Procs |-> "out"]
  /\ failed = [p \in Procs |-> FALSE]

OpenDevice(p) ==
  \/ Create(p) \/ Exists(p) \/ SetVal(p) \/ Attach(p)
  \/ Take(p) \/ EnterFails(p)
  \/ Opened(p) \/ OpenFails(p)

CloseDevice(p) == Release(p) \/ Discard(p)

Next == \E p \in Procs : OpenDevice(p) \/ CloseDevice(p) \/ Exit(p)

(* The calls of OpenDevice() and CloseDevice() return, a scan ends, and the *)
(* kernel serves those that wait for the semaphore in turn. Nobody has to  *)
(* start a scan.                                                           *)
Fairness ==
  \A p \in Procs :
    /\ WF_vars(SetVal(p) \/ Attach(p) \/ EnterFails(p) \/ Opened(p) \/ CloseDevice(p))
    /\ SF_vars(Take(p))

Spec == Init /\ [][Next]_vars /\ Fairness

-----------------------------------------------------------------------------
(* Properties.                                                             *)

(* The variables have their types.                                         *)
TypeOK ==
  /\ exists \in BOOLEAN /\ val \in 0..1 /\ ready \in BOOLEAN
  /\ holders \subseteq Procs /\ users \subseteq Procs
  /\ semaphore_owner \in [Procs -> BOOLEAN]
  /\ pc \in [Procs -> Places]
  /\ failed \in [Procs -> BOOLEAN]

(* No two processes deal with the device under the semaphore that has the  *)
(* key: of two that overlap, one waited on a semaphore that its maker has  *)
(* removed. (That two overlap is not excluded.)                            *)
OverlapNeedsRemoval ==
  \A p, q \in users : InSection(p) /\ InSection(q) => p = q

(* The semaphore is taken while a living process has it, and only then,    *)
(* whatever process ends where: no exit leaves the scanner locked. (If its *)
(* first value was set: a maker that ends before that locks it for good.)  *)
TakenIfHeld == ready => (val = 0 <=> holders # {})

(* A process that waits for the semaphore gets on, or it meets one of two  *)
(* things that nothing ends: a semaphore that nobody will set, made by     *)
(* Attach or by a process that has ended; or one of a process whose        *)
(* OpenDevice() has failed.                                                *)
NeverSet == exists /\ ~ready /\ \A p \in Procs : pc[p] # "setval"
Leaked   == \E p \in holders : failed[p]

WaitEnds ==
  \A p \in Procs : pc[p] = "enter" ~> (pc[p] # "enter" \/ NeverSet \/ Leaked)
=============================================================================
