-------------------------- MODULE MCBrscan5Session ---------------------------
(***************************************************************************)
(* Brscan5Session with the streams of ScanStreams, for model checking, and *)
(* what comments of brother_brscan5.c say that the code does not do.       *)
(***************************************************************************)
EXTENDS Brscan5Session, ScanStreams

BothTransports == {"usb", "replay"}
UsbOnly        == {"usb"}

ASSUME GoodAssumption == \A w \in GoodScans : HoldsPage(w)

(* "page fully delivered (SESSION_END drained) -> SANE_STATUS_EOF"         *)
(* (brother_brscan5.c:1516): a sane_read() that returns EOF leaves no page *)
(* that was received and not served. A session end in the read that also   *)
(* completes the page sets eof before the first scanline is asked for.     *)
EofBehindPage ==
  at = "out" /\ op = "read" /\ ret = "EOF" => dec = "none" /\ ~page_ready

(* "a fresh start after cancel (or after a previous page) must work        *)
(* WITHOUT sane_close/sane_open" (brother_brscan5.c:993): behind a scan    *)
(* without an error in the session. sane_cancel() ends in ScanEnd(), which *)
(* closes the USB handle, and nothing but sane_open() opens it.            *)
RestartAfterCancel == scans > 0 /\ ~n_errors => StartedWell
=============================================================================
