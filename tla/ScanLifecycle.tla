---------------------------- MODULE ScanLifecycle ----------------------------
(***************************************************************************)
(* What a backend promises to a SANE frontend that opens a scanner, starts *)
(* a scan, reads the scanlines and ends with EOF or with a cancel: a GOOD  *)
(* sane_start leaves a page that can be read, EOF comes behind the last of *)
(* its scanlines and not before, and from a cancel to the next start a     *)
(* read returns CANCELLED.                                                 *)
(***************************************************************************)
EXTENDS Naturals

VARIABLES
  phase,  (* "closed", "idle", "starting", "page", "ending" or "cancelled" *)
  left,   (* the scanlines of the page that are not delivered              *)
  ret     (* what the last call that has returned returned, "none": void   *)

vars == <<phase, left, ret>>

Open  == phase = "closed" /\ phase' = "idle" /\ left' = 0 /\ ret' = "none"
Close == phase # "closed" /\ phase' = "closed" /\ left' = 0 /\ ret' = "none"

Start ==
  /\ phase \in {"idle", "cancelled"}
  /\ phase' = "starting" /\ left' = 0
  /\ UNCHANGED ret

StartGood ==
  /\ phase = "starting"
  /\ phase' = "page" /\ left' \in Nat /\ ret' = "GOOD"

StartFails ==
  /\ phase = "starting"
  /\ phase' = "idle" /\ left' = 0
  /\ ret' \in {"EOF", "IO_ERROR", "NO_DOCS", "JAMMED"}

Deliver ==
  /\ phase = "page" /\ left > 0
  /\ left' \in 0..(left - 1)
  /\ ret' = "GOOD"
  /\ UNCHANGED phase

(* The caller's buffer does not hold a scanline.                           *)
Refuse == phase = "page" /\ ret' = "INVAL" /\ UNCHANGED <<phase, left>>

AllDelivered == phase = "page" /\ left = 0 /\ phase' = "ending" /\ UNCHANGED <<left, ret>>

End == phase = "ending" /\ phase' = "idle" /\ ret' = "EOF" /\ UNCHANGED left

(* The page cannot be decoded.                                             *)
Lose == phase = "page" /\ phase' = "idle" /\ left' = 0 /\ ret' = "IO_ERROR"

ReadNoPage == phase = "idle" /\ ret' \in {"EOF", "IO_ERROR"} /\ UNCHANGED <<phase, left>>

ReadCancelled == phase = "cancelled" /\ ret' = "CANCELLED" /\ UNCHANGED <<phase, left>>

(* A cancel with no scan to cancel leaves the scanner idle.                *)
Cancel ==
  /\ \/ phase \in {"page", "idle", "cancelled"} /\ phase' = "cancelled"
     \/ phase = "idle" /\ phase' = "idle"
  /\ left' = 0 /\ ret' = "none"

Init == phase = "closed" /\ left = 0 /\ ret = "none"

Next ==
  \/ Open \/ Close
  \/ Start \/ StartGood \/ StartFails
  \/ Deliver \/ Refuse \/ AllDelivered \/ End \/ Lose
  \/ ReadNoPage \/ ReadCancelled
  \/ Cancel

Spec == Init /\ [][Next]_vars
=============================================================================
