---------------------------- MODULE Brscan5Session ---------------------------
(***************************************************************************)
(* A scan session of the brscan5 backend (libsane-brother/brother_brscan5.c *)
(* behind sane_start, sane_read and sane_cancel of brother.c), composed    *)
(* with the stream parser it feeds (Brscan5Stream).                        *)
(*                                                                         *)
(* The calls run one at a time, each to its return: at is where the        *)
(* running call is. A step is an exchange with the device, one read, one   *)
(* iteration of the parser with the callback brscan5_on_event(), or the    *)
(* code between two of these.                                              *)
(***************************************************************************)
EXTENDS Naturals, Sequences, FiniteSets, SequencesExt

CONSTANTS
  Streams, MaxScans, ShortPackets, BlocksAligned, PaddedTails,  (* Brscan5Stream *)
  GoodStreams,  (* the streams of a device that does its part              *)
  Transports,   (* "usb", or "replay": a recorded fixture, no USB handle   *)
  MaxFaults,    (* how often the link or the page data may fail. Bounds the *)
                (* model.                                                  *)
  LargePages    (* TRUE: the end of a page is not in the read that holds   *)
                (* the XSC response, nor in the one with the session end   *)

ASSUME SessionAssumption ==
  /\ GoodStreams \subseteq Streams
  /\ Transports \subseteq {"usb", "replay"}
  /\ MaxFaults \in Nat
  /\ LargePages \in BOOLEAN

VARIABLES
  wire, scans, state, rle_mode, rle_pend, pending_ff, accum, pc, lo, hi, i,
  ev, page, trailing, log,  (* Brscan5Stream                               *)
  transport,    (* the transport sane_open() chose                         *)
  open,         (* there is a session: this->br5 # NULL                    *)
  usb,          (* hScanner->usb # NULL                                    *)
  at,           (* where the running call is, "out": no call runs          *)
  fed,          (* the read of the loop at is was fed to the parser        *)
  op,           (* the last call                                           *)
  ret,          (* what the last call that has returned returned           *)
  armed, canceled, eof, page_ready, s_rle,  (* brscan5_session             *)
  n_errors,     (* brscan5_session.n_errors > 0                            *)
  page_buf,     (* the positions of the stream held in page_buf            *)
  dec,          (* the active decoder: "none", "jpeg" or "rle"             *)
  lines,        (* params.lines                                            *)
  lines_out,    (* brscan5_session.lines_out                               *)
  bScanning,    (* scanState.bScanning                                     *)
  stale,        (* the device holds data of a scan that was given up       *)
  faults,       (* faults so far                                           *)
  fair          (* the device did its part in the last sane_start()        *)

P == INSTANCE Brscan5Stream

ASSUME StreamsAssumption ==
  /\ Streams \subseteq Seq(P!Fragments)
  /\ MaxScans \in Nat
  /\ {ShortPackets, BlocksAligned, PaddedTails} \subseteq BOOLEAN

(* A scan session has one page and ends once, with records that are whole. *)
(* brscan5_on_event() holds one page: what a second one does is not        *)
(* modelled.                                                               *)
ASSUME DeviceAssumption ==
  \A w \in Streams : P!OnePage(w) /\ P!EndsOnce(w) /\ P!WholeRecords(w)

parser  == <<wire, scans, state, rle_mode, rle_pend, pending_ff, accum, pc, lo, hi, i,
             ev, page, trailing, log>>
handle  == <<transport, open, usb>>
call    == <<at, fed, op, ret>>
buffer  == <<page_ready, s_rle, page_buf, dec, lines_out>>
session == <<armed, canceled, eof, n_errors, lines>>
device  == <<stale, faults, fair>>
vars    == <<parser, handle, call, buffer, session, bScanning, device>>

(* w holds a page that is complete, in JPEG or in blocks: what makes a     *)
(* device do its part, for the proofs.                                     *)
HoldsPage(w) == "d9" \in Range(w) \/ {"x01", "x21"} \subseteq Range(w)

(* the commands of the handshake and what each is followed by              *)
After == [Q |-> "QDI", QDI |-> "CKD", CKD |-> "CLOSE", CLOSE |-> "OPEN",
          OPEN |-> "SSP", SSP |-> "XSC"]
Handshake == DOMAIN After \cup {"XSC"}
Reading   == {"xsc", "pump", "drain"}

-----------------------------------------------------------------------------
(* The transport exists: replay needs no USB handle.                       *)
Linked == transport = "replay" \/ usb

Return(s) ==
  /\ at' = "out" /\ fed' = FALSE
  /\ ret' = s
  /\ UNCHANGED op

(* The running call goes on at a.                                          *)
Goto(a) ==
  /\ at' = a /\ fed' = FALSE
  /\ UNCHANGED <<op, ret>>

(* Variant for the mutation check: the page stays ready.                   *)
ForgetfulTeardown ==
  /\ dec' = "none" /\ page_buf' = {} /\ s_rle' = FALSE
  /\ lines_out' = 0 /\ UNCHANGED page_ready

(* brscan5_decoder_teardown()                                              *)
Teardown ==
  /\ dec' = "none" /\ page_buf' = {} /\ s_rle' = FALSE
  /\ page_ready' = FALSE /\ lines_out' = 0

(* Something fails that a device that does its part lets succeed.          *)
Fault ==
  /\ faults < MaxFaults
  /\ faults' = faults + 1
  /\ fair' = FALSE

NoFault == UNCHANGED <<faults, fair>>

(* The device has data of the running scan that was not read.              *)
Unread == hi < Len(wire)

-----------------------------------------------------------------------------
(* sane_open() and sane_close(). GET_OPEN opens a fresh device session.    *)

OpenSession ==
  /\ ~open
  /\ open' = TRUE
  /\ usb' = (transport = "usb")
  /\ stale' = FALSE
  /\ P!Reset
  /\ UNCHANGED <<transport, call, buffer, session, bScanning, faults, fair>>

CloseSession ==
  /\ open /\ at = "out"
  /\ open' = FALSE /\ usb' = FALSE
  /\ op' = "close" /\ ret' = "none" /\ UNCHANGED <<at, fed>>
  /\ Teardown
  /\ armed' = FALSE /\ canceled' = FALSE /\ eof' = FALSE /\ n_errors' = FALSE /\ lines' = 0
  /\ bScanning' = FALSE
  /\ P!Reset
  /\ UNCHANGED <<transport, device>>

(* Variant for the mutation check: the end of the last session is not      *)
(* forgotten.                                                              *)
StaleStart ==
  /\ open /\ at = "out"
  /\ ret \notin {"GOOD", "INVAL", "IO_ERROR"}
  /\ op' = "start" /\ at' = "Q" /\ UNCHANGED <<fed, ret>>
  /\ canceled' = FALSE /\ armed' = FALSE /\ UNCHANGED eof
  /\ Teardown
  /\ P!Reset
  /\ stale' = (stale \/ Unread)
  /\ fair' = ~stale'
  /\ UNCHANGED <<handle, n_errors, lines, bScanning, faults>>

(* sane_start(): brscan5_start() drops what an earlier scan has left. The  *)
(* frontend calls it with no page to read and no error to cancel.          *)
Start ==
  /\ open /\ at = "out"
  /\ ret \notin {"GOOD", "INVAL", "IO_ERROR"}
  /\ op' = "start" /\ at' = "Q" /\ UNCHANGED <<fed, ret>>
  /\ canceled' = FALSE /\ armed' = FALSE /\ eof' = FALSE
  /\ Teardown
  /\ P!Reset
  /\ stale' = (stale \/ Unread)
  /\ fair' = ~stale'
  /\ UNCHANGED <<handle, n_errors, lines, bScanning, faults>>

(* A command is answered as it should be. The bulk commands read what the  *)
(* device has, be it the answer or not.                                    *)
Exchange ==
  /\ at \in DOMAIN After
  /\ Linked
  /\ stale => at \in {"CLOSE", "OPEN"}
  /\ Goto(After[at])
  /\ UNCHANGED <<parser, handle, buffer, session, bScanning, device>>

ExchangeFails ==
  /\ at \in Handshake
  /\ \/ ~Linked /\ UNCHANGED device
     \/ stale /\ stale' \in BOOLEAN /\ NoFault
     \/ Fault /\ UNCHANGED stale
  /\ Return("IO_ERROR")
  /\ UNCHANGED <<parser, handle, buffer, session, bScanning>>

(* XSC 90 00 and 91 00                                                     *)
Refused ==
  /\ at = "XSC" /\ Linked
  /\ \E s \in {"NO_DOCS", "JAMMED"} : Return(s)
  /\ fair' = FALSE
  /\ UNCHANGED <<parser, handle, buffer, session, bScanning, stale, faults>>

ScanStarted ==
  /\ at = "XSC" /\ Linked
  /\ \E w \in Streams : P!Arm(w) /\ fair' = (fair /\ w \in GoodStreams)
  /\ armed' = TRUE
  /\ Goto("xsc")
  /\ UNCHANGED <<handle, canceled, eof, n_errors, lines, buffer, bScanning, stale, faults>>

-----------------------------------------------------------------------------
(* One read and what it brings: the XSC response in brscan5_start(), page  *)
(* data in brscan5_pump(), the rest of the session in brscan5_drain().     *)

(* the page ends with the EOI, or with the page-end record of a B/W page   *)
EndsPage(k) == wire[k] = "d9" \/ (wire[k] = "x21" /\ "hdr" \in Range(wire))

ReadFits(h) ==
  LET chunk == (hi + 1)..h
  IN  LargePages =>
        \A k \in chunk : EndsPage(k) =>
          /\ at # "xsc"
          /\ ~\E e \in chunk : wire[e] = "x20"

Receive ==
  /\ at \in Reading /\ ~fed
  /\ Linked
  /\ \E h \in (hi + 1)..Len(wire) : ReadFits(h) /\ P!Feed(h)
  /\ fed' = TRUE
  /\ UNCHANGED <<handle, at, op, ret, buffer, session, bScanning, device>>

(* brscan5_on_event() for every event of the parser's step                 *)
OnEvents ==
  LET Has(e) == e \in Range(ev')
  IN  /\ s_rle' = (s_rle \/ Has("BLOCK") \/ Has("RLE_DATA"))
      /\ page_buf' = IF Has("JPEG_DATA") \/ Has("RLE_DATA")
                     THEN page_buf \cup {i} ELSE page_buf
      /\ page_ready' = (page_ready \/ Has("JPEG_EOI") \/ (Has("PAGE_END") /\ s_rle))
      /\ n_errors' = (n_errors \/ Has("ERROR"))
      /\ eof' = (eof \/ Has("SESSION_END") \/ Has("ERROR"))

Parse ==
  /\ fed /\ pc # "out"
  /\ P!Step
  /\ OnEvents
  /\ UNCHANGED <<handle, call, dec, lines_out, armed, canceled, lines, bScanning, device>>

(* br5_parser_feed() has returned.                                         *)
FedXsc ==
  /\ at = "xsc"
  /\ IF state = "ERROR"
     THEN Return("IO_ERROR") /\ UNCHANGED bScanning
     ELSE Goto("pump") /\ bScanning' = TRUE

FedPump ==
  /\ at = "pump"
  /\ CASE state = "ERROR" \/ n_errors -> Return("IO_ERROR")
       [] page_ready /\ ~n_errors     -> Goto("decode")
       [] eof /\ ~page_ready /\ ~n_errors -> Return("EOF")
       [] OTHER                       -> Goto("pump")
  /\ UNCHANGED bScanning

FedDrain ==
  /\ at = "drain"
  /\ IF state = "ERROR" \/ n_errors \/ eof THEN Return("EOF") ELSE Goto("drain")
  /\ UNCHANGED bScanning

Fed ==
  /\ fed /\ pc = "out"
  /\ FedXsc \/ FedPump \/ FedDrain
  /\ UNCHANGED <<parser, handle, buffer, session, device>>

(* Variant for the mutation check: the pump reads on at the end of the data. *)
WaitingReadNothing ==
  /\ at \in {"pump", "drain"} /\ ~fed
  /\ \/ ~Unread /\ UNCHANGED device
     \/ ~Linked /\ UNCHANGED device
     \/ Fault /\ UNCHANGED stale
  /\ CASE at = "drain" -> Return("EOF") /\ UNCHANGED eof
       [] at = "pump" /\ transport = "usb" -> Return("IO_ERROR") /\ UNCHANGED eof
       [] OTHER -> Goto("pump") /\ UNCHANGED eof
  /\ UNCHANGED <<parser, handle, buffer, armed, canceled, n_errors, lines, bScanning>>

(* The read fails, or (replay) the fixture has no more data. A fixture     *)
(* may also have an entry for an error, or end within one.                 *)
ReadNothing ==
  /\ at \in {"pump", "drain"} /\ ~fed
  /\ \/ ~Unread /\ UNCHANGED device
     \/ ~Linked /\ UNCHANGED device
     \/ Fault /\ UNCHANGED stale
  /\ CASE at = "drain" -> Return("EOF") /\ UNCHANGED eof
       [] at = "pump" /\ transport = "usb" -> Return("IO_ERROR") /\ UNCHANGED eof
       [] OTHER -> \/ faults' # faults /\ Return("IO_ERROR") /\ UNCHANGED eof
                   \/ /\ eof' = TRUE
                      /\ IF page_ready THEN Goto("decode") ELSE Return("EOF")
  /\ UNCHANGED <<parser, handle, buffer, armed, canceled, n_errors, lines, bScanning>>

-----------------------------------------------------------------------------
(* brscan5_decoder_start(): the decoder of the page that was received. A   *)
(* scanline is a run of JPEG data, or a block.                             *)
Lines == Cardinality(IF s_rle THEN page_buf ELSE {k \in page_buf : wire[k] = "dat"})

Decode ==
  /\ at = "decode"
  /\ dec' = IF s_rle THEN "rle" ELSE "jpeg"
  /\ lines' = Lines /\ lines_out' = 0
  /\ IF op = "start" THEN Return("GOOD") ELSE Goto("serve")
  /\ UNCHANGED <<parser, handle, page_ready, s_rle, page_buf, armed, canceled, eof,
                 n_errors, bScanning, device>>

DecodeFails ==
  /\ at = "decode" /\ ~s_rle
  /\ Fault
  /\ n_errors' = TRUE /\ eof' = TRUE
  /\ Return("IO_ERROR")
  /\ UNCHANGED <<parser, handle, buffer, armed, canceled, lines, bScanning, stale>>

(* Variant for the mutation check: the cancel latch does not win over EOF. *)
UnlatchedRead ==
  /\ open /\ at = "out"
  /\ ret \in {"GOOD", "INVAL", "CANCELLED"} \/ (ret = "EOF" /\ op = "read") \/ canceled
  /\ op' = "read"
  /\ fed' = FALSE
  /\ IF eof
     THEN ret' = "EOF" /\ UNCHANGED at
     ELSE at' = (IF dec # "jpeg" /\ ~page_ready THEN "pump" ELSE "serve") /\ UNCHANGED ret
  /\ UNCHANGED <<parser, handle, buffer, session, bScanning, device>>

(* sane_read(): the frontend has a page, or asks again behind its end.     *)
Read ==
  /\ open /\ at = "out"
  /\ ret \in {"GOOD", "INVAL", "CANCELLED"} \/ (ret = "EOF" /\ op = "read") \/ canceled
  /\ op' = "read"
  /\ fed' = FALSE
  /\ IF canceled \/ eof
     THEN ret' = (IF canceled THEN "CANCELLED" ELSE "EOF") /\ UNCHANGED at
     ELSE at' = (IF dec # "jpeg" /\ ~page_ready THEN "pump" ELSE "serve") /\ UNCHANGED ret
  /\ UNCHANGED <<parser, handle, buffer, session, bScanning, device>>

(* The buffer holds no scanline, or some of those that are left.           *)
ServeLines ==
  /\ at = "serve" /\ dec # "none"
  /\ \/ Return("INVAL") /\ UNCHANGED lines_out
     \/ \E n \in 1..(lines - lines_out) : lines_out' = lines_out + n /\ Return("GOOD")
  /\ UNCHANGED <<parser, handle, page_ready, s_rle, page_buf, dec, session, bScanning, device>>

ServeEnd ==
  /\ at = "serve" /\ dec # "none"
  /\ lines_out = lines
  /\ Teardown
  /\ Goto("drain")
  /\ UNCHANGED <<parser, handle, session, bScanning, device>>

(* libjpeg fails in a scanline.                                            *)
ServeFails ==
  /\ at = "serve" /\ dec = "jpeg"
  /\ Fault
  /\ Teardown
  /\ n_errors' = TRUE /\ eof' = TRUE
  /\ Return("IO_ERROR")
  /\ UNCHANGED <<parser, handle, armed, canceled, lines, bScanning, stale>>

-----------------------------------------------------------------------------
(* sane_cancel(): brscan5_cancel() if a scan is running, and ScanEnd(),    *)
(* which closes the USB handle. The drain discards what the device sends.  *)

(* Variant for the mutation check: the link is not drained.                *)
UndrainedCancelScan ==
  /\ canceled' = TRUE /\ eof' = TRUE /\ armed' = FALSE
  /\ Teardown
  /\ P!Reset
  /\ NoFault /\ stale' = (stale \/ Unread)
  /\ bScanning' = FALSE
  /\ UNCHANGED <<n_errors, lines>>

CancelScan ==
  /\ canceled' = TRUE /\ eof' = TRUE /\ armed' = FALSE
  /\ Teardown
  /\ P!Reset
  /\ \/ NoFault /\ stale' = (stale \/ (Unread /\ ~(armed /\ Linked)))
     \/ Fault /\ stale' = (stale \/ Unread)
  /\ bScanning' = FALSE
  /\ UNCHANGED <<n_errors, lines>>

Cancel ==
  /\ open /\ at = "out"
  /\ IF bScanning
     THEN CancelScan
     ELSE UNCHANGED <<parser, buffer, session, bScanning, device>>
  /\ usb' = FALSE
  /\ op' = "cancel" /\ ret' = "none"
  /\ UNCHANGED <<transport, open, at, fed>>

-----------------------------------------------------------------------------
Init ==
  /\ P!Init
  /\ transport \in Transports /\ open = FALSE /\ usb = FALSE
  /\ at = "out" /\ fed = FALSE /\ op = "close" /\ ret = "none"
  /\ page_ready = FALSE /\ s_rle = FALSE /\ page_buf = {} /\ dec = "none" /\ lines_out = 0
  /\ armed = FALSE /\ canceled = FALSE /\ eof = FALSE /\ n_errors = FALSE /\ lines = 0
  /\ bScanning = FALSE
  /\ stale = FALSE /\ faults = 0 /\ fair = FALSE

(* what the frontend does                                                  *)
Frontend == OpenSession \/ CloseSession \/ Start \/ Read \/ Cancel

(* what the running call does                                              *)
Work ==
  \/ Exchange \/ ExchangeFails \/ Refused \/ ScanStarted
  \/ Receive \/ Parse \/ Fed \/ ReadNothing
  \/ Decode \/ DecodeFails
  \/ ServeLines \/ ServeEnd \/ ServeFails

Next == Frontend \/ Work

(* Every wait of a call has a time-out; nobody has to make a call.         *)
Spec == Init /\ [][Next]_vars /\ WF_vars(Work)

-----------------------------------------------------------------------------
(* Properties.                                                             *)

(* Scanlines are served by a decoder that exists: sane_read() never gets   *)
(* to the libjpeg calls with a decoder that was destroyed or not made, and *)
(* no scanline is served that the decoder does not have.                   *)
DecoderLives == (at = "serve" => dec # "none") /\ lines_out <= lines

(* A start meets no data of an earlier scan, unless a fault or an error    *)
(* left it there: the drain behind the last scanline and the drain of a    *)
(* cancel take all that the device has sent.                               *)
QuietAtStart == at = "Q" /\ faults = 0 /\ ~n_errors => ~stale

(* A sane_start() succeeds if the device does its part and no fault has    *)
(* left data of an earlier scan: nothing that a page, a cancel or a        *)
(* refused start has left in the session prevents it. Not claimed without  *)
(* a USB handle and behind an error of an earlier scan of the session; the *)
(* parser is cleared at a start, so that its ERROR is one of this scan.    *)
StartedWell == op = "start" /\ at = "out" /\ fair => ret = "GOOD"

StartWorks == Linked /\ (n_errors => state = "ERROR") => StartedWell

(* The calls give the frontend what the SANE standard and the status table *)
(* of brother_brscan5.c promise: a started page is delivered to its last   *)
(* scanline before EOF, and a cancelled one is CANCELLED until the next    *)
(* start.                                                                  *)
Phase ==
  CASE ~open                                  -> "closed"
    [] open /\ canceled                       -> "cancelled"
    [] open /\ at # "out" /\ op = "start"     -> "starting"
    [] open /\ at = "drain"                   -> "ending"
    [] open /\ dec # "none" /\ ~eof /\ (at = "out" \/ op # "start") -> "page"
    [] OTHER                                  -> "idle"

Lifecycle == INSTANCE ScanLifecycle WITH
               phase <- Phase,
               left  <- IF Phase = "page" THEN lines - lines_out ELSE 0

Delivers == Lifecycle!Spec

(* Every call returns.                                                     *)
CallsReturn == at # "out" ~> at = "out"
=============================================================================
