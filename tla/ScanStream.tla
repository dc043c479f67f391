----------------------------- MODULE ScanStream ------------------------------
(***************************************************************************)
(* What the stream parser promises (brscan5_stream.h, br5_event_type_t):   *)
(* the stream of a scan is taken apart token by token, in order. Payload   *)
(* is passed on and nothing else is; a page-end or session-end record is   *)
(* reported when it is reached; only padding is dropped. How the stream    *)
(* was cut into reads cannot be seen.                                      *)
(***************************************************************************)
EXTENDS Naturals, Sequences

CONSTANT Streams

VARIABLES
  wire,  (* the stream of the scan                                         *)
  pos,   (* the first fragment not yet taken                               *)
  page,  (* the positions passed on as page payload                        *)
  log    (* the milestones reported                                        *)

vars == <<wire, pos, page, log>>

Payload == {"dat", "ff", "d9", "pay"}

(* A scan starts, or what is left of it is dropped.                        *)
Start ==
  /\ wire' \in Streams \cup {<<>>}
  /\ pos' = 1 /\ page' = {} /\ log' = <<>>

TakePayload ==
  /\ wire[pos] \in Payload
  /\ page' = page \cup {pos}
  /\ pos' = pos + 1
  /\ log' = IF wire[pos] = "d9" THEN Append(log, "JPEG_EOI") ELSE log

TakeRecord ==
  /\ wire[pos] = "nul"
  /\ pos' = pos + (IF wire[pos + 1] = "x20" THEN 2 ELSE 3)
  /\ log' = CASE wire[pos + 1] = "x21" -> Append(log, "PAGE_END")
              [] wire[pos + 1] = "x20" -> Append(log, "SESSION_END")
              [] OTHER                 -> log
  /\ UNCHANGED page

DropPadding ==
  /\ \E n \in (pos + 1)..(Len(wire) + 1) :
       /\ \A k \in pos..(n - 1) : wire[k] = "pad"
       /\ pos' = n
  /\ UNCHANGED <<page, log>>

Init == wire = <<>> /\ pos = 1 /\ page = {} /\ log = <<>>

Next ==
  \/ Start
  \/ /\ pos <= Len(wire)
     /\ TakePayload \/ TakeRecord \/ DropPadding
     /\ UNCHANGED wire

Spec == Init /\ [][Next]_vars
=============================================================================
