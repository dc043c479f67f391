--------------------------- MODULE MCBrscan5Stream ---------------------------
(***************************************************************************)
(* Properties for model checking Brscan5Stream.                            *)
(***************************************************************************)
EXTENDS Brscan5Stream, ScanStreams

(* The captured scans, and those of a device that does its part, keep to   *)
(* the order that Ordered asks for: the phases in which w is sent.         *)
Behind(p, f) == CHOOSE q \in Phases : <<p, f, q>> \in Moves

PhasesOf(w) ==
  LET ph[k \in 1..(Len(w) + 1)] ==
        CASE k = 1                      -> "armed"
          [] k > 1 /\ w[k - 1] \in Data -> Behind(ph[k - 1], w[k - 1])
          [] k > 1 /\ w[k - 1] = "x20"  -> Behind(ph[k - 2], "x20")
          [] k > 1 /\ w[k - 1] \in {"body", "hdr"} -> Behind(ph[k - 3], w[k - 2])
          [] OTHER                      -> "armed"
  IN  ph

ASSUME CapturedAssumption == \A w \in CapturedScans \cup GoodScans : Follows(w, PhasesOf(w))

-----------------------------------------------------------------------------
(* Every scan that was armed comes to its end: the session-end record is   *)
(* recognized wherever it rides, so that the reads for it stop.            *)
SessionEnds == (state \in {"ARMED", "DATA"}) ~> (state = "IDLE")

(* However a stream is cut, br5_parser_feed() returns: it never goes round *)
(* without consuming anything.                                             *)
FeedReturns == pc # "out" ~> pc = "out"
=============================================================================
