------------------------ MODULE Brscan5SessionProofs ------------------------
(***************************************************************************)
(* Proofs about Brscan5Session: the inductive invariant of a session, its  *)
(* safety invariants, and that its calls implement ScanLifecycle. What the *)
(* parser contributes is proved in Brscan5StreamProofs and used through PP. *)
(***************************************************************************)
EXTENDS Brscan5Session, FiniteSetTheorems, TLAPS

PP == INSTANCE Brscan5StreamProofs

-----------------------------------------------------------------------------
(* The parser of a session, P, is the one the lemmas of PP speak of.       *)

LEMMA ParserAssumptions ==
  PP!StreamsAssumption /\ PP!MaxScansAssumption /\ PP!RulesAssumption
BY StreamsAssumption
DEF PP!StreamsAssumption, PP!MaxScansAssumption, PP!RulesAssumption,
    P!Fragments, PP!Fragments, P!Ids, PP!Ids

LEMMA SameStreams ==
  ASSUME NEW w \in Streams
  PROVE  PP!OnePage(w) /\ PP!EndsOnce(w) /\ PP!WholeRecords(w)
BY DeviceAssumption
DEF P!OnePage, PP!OnePage, P!EndsOnce, PP!EndsOnce, P!WholeRecords, PP!WholeRecords

LEMMA SameClear ==
  ASSUME NEW s
  PROVE  P!Clear(s) <=> PP!Clear(s)
BY DEF P!Clear, PP!Clear

LEMMA SameReset == P!Reset <=> PP!Reset
BY SameClear DEF P!Reset, PP!Reset

LEMMA SameArm ==
  ASSUME NEW w
  PROVE  P!Arm(w) <=> PP!Arm(w)
BY SameClear DEF P!Arm, PP!Arm

LEMMA SameFeed ==
  ASSUME NEW h
  PROVE  P!Feed(h) <=> PP!Feed(h)
BY DEF P!Feed, PP!Feed, P!MayEnd, PP!MayEnd, P!RecordMayContinue, PP!RecordMayContinue,
  P!AfterEoi, PP!AfterEoi, P!Ids, PP!Ids, P!parser, PP!parser, P!result, PP!result

LEMMA SameInit == P!Init <=> PP!Init
BY DEF P!Init, PP!Init

LEMMA SameStep == P!Step <=> PP!Step
BY DEF P!Fragments, PP!Fragments, P!parser, PP!parser, P!cursor, PP!cursor, P!result, PP!result,
  P!Milestones, PP!Milestones, P!RecordOf, PP!RecordOf, P!RecLen, PP!RecLen, P!RecordAt, PP!RecordAt,
  P!BlockAt, PP!BlockAt, P!Long, PP!Long, P!TailRecord, PP!TailRecord, P!DataEnd, PP!DataEnd,
  P!Listening, PP!Listening, P!NextState, PP!NextState, P!MilestoneOf, PP!MilestoneOf,
  P!OpensBlock, PP!OpensBlock, P!HandleRecord, PP!HandleRecord, P!Done, PP!Done, P!Continue, PP!Continue,
  P!CountTrailing, PP!CountTrailing, P!Fail, PP!Fail, P!OpensRle, PP!OpensRle,
  P!CoalescedStart, PP!CoalescedStart, P!ShortStart, PP!ShortStart,
  P!BoundaryLeavesChunk, PP!BoundaryLeavesChunk, P!BoundaryInJpeg, PP!BoundaryInJpeg,
  P!BoundaryOpensRle, PP!BoundaryOpensRle, P!BoundaryCoalesced, PP!BoundaryCoalesced,
  P!BoundaryShort, PP!BoundaryShort, P!BoundaryNoRecord, PP!BoundaryNoRecord, P!Boundary, PP!Boundary,
  P!BurstRecord, PP!BurstRecord, P!BurstPartial, PP!BurstPartial, P!BurstUnknown, PP!BurstUnknown,
  P!BurstRest, PP!BurstRest, P!Burst, PP!Burst, P!InJpeg, PP!InJpeg, P!DataEoi, PP!DataEoi,
  P!DataAppend, PP!DataAppend, P!DataTail, PP!DataTail, P!ConsumeTrailing, PP!ConsumeTrailing,
  P!InRle, PP!InRle, P!RlePayload, PP!RlePayload, P!RleBlock, PP!RleBlock, P!RleRecord, PP!RleRecord,
  P!RleError, PP!RleError, P!InNonData, PP!InNonData, P!AccumId, PP!AccumId, P!AccumRest, PP!AccumRest,
  P!NoRecord, PP!NoRecord, P!IgnoreRest, PP!IgnoreRest, P!Step, PP!Step

(* What each use of the parser leaves true of it.                          *)

LEMMA ParserStep ==
  ASSUME PP!FrameInv, P!Step
  PROVE  PP!FrameInv' /\ PP!Contract
BY ParserAssumptions, SameStep, PP!StepFrame

(* brscan5_on_event() looks for an event among those of the step.          *)
LEMMA Said ==
  ASSUME PP!FrameInv', NEW e
  PROVE  e \in Range(ev') <=> PP!Says(e)'
<1>1. ev' \in Seq(PP!Events)
  BY DEF PP!FrameInv, PP!TypeInv, PP!TypeOK
<1> QED
  BY <1>1 DEF Range, PP!Says

LEMMA ParserFeed ==
  ASSUME PP!FrameInv, NEW h \in (hi + 1)..Len(wire), P!Feed(h)
  PROVE  /\ PP!FrameInv' /\ UNCHANGED <<wire, rle_pend, accum, state>>
         /\ i = hi + 1 /\ i' = i /\ lo' = i /\ hi' = h
BY ParserAssumptions, SameFeed, PP!FeedFrame

LEMMA ParserArm ==
  ASSUME PP!FrameInv, NEW w \in Streams, P!Arm(w)
  PROVE  PP!FrameInv' /\ wire' = w /\ ~rle_pend' /\ i' = 1 /\ hi' = 0 /\ state' = "ARMED"
<1>1. PP!Arm(w) /\ PP!Next
  BY SameArm DEF PP!Next
<1>2. PP!FrameInv'
  BY <1>1, ParserAssumptions, PP!FrameInductive
<1> QED
  BY <1>1, <1>2 DEF PP!Arm, PP!Clear

LEMMA ParserReset ==
  ASSUME PP!FrameInv, P!Reset
  PROVE  PP!FrameInv' /\ wire' = <<>> /\ ~rle_pend' /\ i' = 1 /\ hi' = 0 /\ state' = "IDLE"
<1>1. PP!Reset /\ PP!Next
  BY SameReset DEF PP!Next
<1>2. PP!FrameInv'
  BY <1>1, ParserAssumptions, PP!FrameInductive
<1> QED
  BY <1>1, <1>2 DEF PP!Reset, PP!Clear

LEMMA ParserStays ==
  ASSUME PP!FrameInv, UNCHANGED parser
  PROVE  /\ PP!FrameInv'
         /\ UNCHANGED <<wire, state, rle_pend, accum, pc, lo, hi, i>>
         /\ PP!OwedInv => PP!OwedInv'
         /\ PP!PageOver => PP!PageOver'
         /\ PP!Passed("x01") => PP!Passed("x01")'
<1>1. UNCHANGED PP!vars
  BY DEF parser, PP!vars, PP!parser, PP!cursor, PP!result
<1>2. PP!FrameInv'
  BY <1>1, ParserAssumptions, PP!FrameInductive
<1>3. UNCHANGED <<wire, state, rle_mode, rle_pend, accum, pc, lo, hi, i>>
  BY DEF parser
<1> QED
  BY <1>2, <1>3 DEF PP!OwedInv, PP!PageOver, PP!Passed

-----------------------------------------------------------------------------
(* The inductive invariant.                                                *)

(* where a call is, and what its place says of the session                 *)
CallInv ==
  /\ at \in {"out", "decode", "serve"} \cup Handshake \cup Reading
  /\ fed => at \in Reading
  /\ at # "out" => open /\ ~canceled /\ op \in {"start", "read"}
  /\ at \in Handshake => op = "start" /\ wire = <<>> /\ ~eof
  /\ at = "xsc" => op = "start"
  /\ at \in {"serve", "drain"} => op = "read"
  /\ ~open => at = "out" /\ ret = "none" /\ ~canceled /\ wire = <<>> /\ ~page_ready
  /\ canceled => ret \in {"none", "CANCELLED"} /\ wire = <<>> /\ ~page_ready

(* the page and its decoder                                                *)
DecoderInv ==
  /\ s_rle => PP!Passed("x01")
  /\ dec # "none" => page_ready
  /\ page_ready => PP!PageOver
  /\ at = "serve" => dec # "none"
  /\ at \notin {"serve", "out"} => dec = "none"
  /\ at = "decode" => page_ready
  /\ at = "drain" => PP!PageOver /\ ~page_ready /\ ~s_rle
  /\ at \in Handshake => ~page_ready
  /\ at = "out" /\ page_ready /\ dec = "none" => ret \in {"IO_ERROR", "none"}

LinesInv == IsFiniteSet(page_buf) /\ lines \in Nat /\ lines_out \in 0..lines

(* the link, and what the device has still to send                         *)
QuietInv ==
  /\ faults \in Nat
  /\ state = "ERROR" => n_errors
  /\ wire # <<>> => armed
  /\ wire # <<>> /\ ~n_errors => Linked
  /\ wire # <<>> /\ ~n_errors /\ at # "xsc" => bScanning
  /\ open /\ faults = 0 /\ ~n_errors =>
       /\ ~stale
       /\ eof => ~Unread
       /\ at = "out" /\ Unread => ret \in {"GOOD", "INVAL", "IO_ERROR"}

SessionInv ==
  PP!FrameInv /\ PP!OwedInv /\ CallInv /\ DecoderInv /\ LinesInv /\ QuietInv

-----------------------------------------------------------------------------
(* What the calls and the stream are like.                                 *)

LEMMA Commands ==
  /\ DOMAIN After = {"Q", "QDI", "CKD", "CLOSE", "OPEN", "SSP"}
  /\ Handshake = {"Q", "QDI", "CKD", "CLOSE", "OPEN", "SSP", "XSC"}
  /\ \A c \in DOMAIN After : After[c] \in Handshake
BY DEF After, Handshake

(* Before the device accepts a scan no byte of it was taken.               *)
LEMMA NothingSent ==
  ASSUME PP!FrameInv, wire = <<>>
  PROVE  i = 1 /\ ~PP!Passed("x01") /\ ~Unread
<1>1. Len(wire) = 0
  OBVIOUS
<1>2. i = 1 /\ hi = 0
  BY <1>1 DEF PP!FrameInv, PP!TypeInv, PP!TypeOK
<1> QED
  BY <1>1, <1>2 DEF PP!Passed, Unread

LEMMA Placed ==
  ASSUME PP!FrameInv
  PROVE  /\ hi \in Nat /\ i \in Nat /\ lo \in Nat /\ Len(wire) \in Nat
         /\ hi <= Len(wire) /\ 1 <= lo /\ lo <= i /\ i <= hi + 1
         /\ DOMAIN wire = 1..Len(wire)
         /\ (wire = <<>> => Len(wire) = 0)
         /\ wire # <<>> => wire \in Streams
         /\ pc # "out" => i <= hi
<1>1. wire \in Streams \cup {<<>>}
  BY DEF PP!FrameInv, PP!TypeInv, PP!TypeOK
<1>2. wire \in Seq(P!Fragments)
  <2>1. CASE wire \in Streams
    BY <2>1, StreamsAssumption
  <2>2. CASE wire = <<>>
    <3>1. <<>> \in Seq(P!Fragments)
      OBVIOUS
    <3> QED
      BY <2>2, <3>1
  <2> QED
    BY <1>1, <2>1, <2>2
<1>3. hi \in 0..Len(wire) /\ lo \in 1..(Len(wire) + 1) /\ i \in lo..(hi + 1)
  BY DEF PP!FrameInv, PP!TypeInv, PP!TypeOK
<1>4. pc # "out" => i <= hi
  BY DEF PP!FrameInv, PP!TypeInv, PP!CursorOK
<1> QED
  BY <1>1, <1>2, <1>3, <1>4

LEMMA WireIsSound ==
  ASSUME PP!FrameInv
  PROVE  PP!OnePage(wire) /\ PP!EndsOnce(wire) /\ PP!WholeRecords(wire)
<1>1. CASE wire = <<>>
  BY <1>1 DEF PP!OnePage, PP!EndsOnce, PP!WholeRecords
<1>2. CASE wire # <<>>
  BY <1>2, Placed, SameStreams
<1> QED
  BY <1>1, <1>2

-----------------------------------------------------------------------------
(* The steps that do not touch the parser.                                 *)

ParserInv == PP!FrameInv /\ PP!OwedInv

LEMMA Idle ==
  ASSUME SessionInv, UNCHANGED parser
  PROVE  /\ ParserInv'
         /\ UNCHANGED <<wire, state, pc, lo, hi, i>>
         /\ (PP!PageOver => PP!PageOver')
         /\ (PP!Passed("x01") => PP!Passed("x01")')
         /\ Unread' = Unread
<1>1. PP!FrameInv /\ PP!OwedInv
  BY DEF SessionInv
<1>2. PP!FrameInv' /\ PP!OwedInv'
  BY <1>1, ParserStays
<1>3. UNCHANGED <<wire, state, pc, lo, hi, i>>
  BY DEF parser
<1> QED
  BY <1>1, <1>2, <1>3, ParserStays DEF ParserInv, Unread

LEMMA HandshakeSteps ==
  ASSUME SessionInv, Exchange \/ ExchangeFails \/ Refused
  PROVE  SessionInv'
<1>0. UNCHANGED <<parser, handle, buffer, session, bScanning>> /\ op' = op
  BY DEF Exchange, ExchangeFails, Refused, Goto, Return
<1>1. CallInv /\ DecoderInv /\ LinesInv /\ QuietInv /\ PP!FrameInv
  BY DEF SessionInv
<1>2. /\ at \in Handshake /\ fed' = FALSE
      /\ \/ at' \in Handshake /\ ret' = ret
         \/ at' = "out" /\ ret' \in {"IO_ERROR", "NO_DOCS", "JAMMED"}
  BY Commands DEF Exchange, ExchangeFails, Refused, Goto, Return
<1>3. stale' => stale \/ faults' # 0
  BY DEF Exchange, ExchangeFails, Refused, device, NoFault, Fault
<1>4. faults' \in Nat /\ (faults' = 0 => faults = 0)
  BY <1>1 DEF QuietInv, Exchange, ExchangeFails, Refused, device, NoFault, Fault
<1>c. CallInv'
  BY <1>0, <1>1, <1>2, Idle, Commands DEF CallInv, handle, session, buffer, Reading
<1>d. DecoderInv'
  BY <1>0, <1>1, <1>2, Idle, Commands DEF DecoderInv, CallInv, buffer
<1>l. LinesInv'
  BY <1>0, <1>1 DEF LinesInv, buffer, session
<1>q. QuietInv'
  <2>1. wire = <<>> /\ ~Unread /\ Unread' = Unread /\ wire' = wire /\ state' = state
    BY <1>0, <1>1, <1>2, NothingSent, Idle DEF CallInv
  <2> QED
    BY <2>1, <1>0, <1>1, <1>2, <1>3, <1>4 DEF QuietInv, handle, session
<1> QED
  BY <1>0, <1>c, <1>d, <1>l, <1>q, Idle DEF SessionInv, ParserInv

LEMMA ReadingNothing ==
  ASSUME SessionInv, ReadNothing
  PROVE  SessionInv'
<1>0. /\ UNCHANGED <<parser, handle, buffer, armed, canceled, n_errors, lines, bScanning>>
      /\ op' = op /\ fed' = FALSE /\ at \in {"pump", "drain"} /\ ~fed
  BY DEF ReadNothing, Goto, Return
<1>1. CallInv /\ DecoderInv /\ LinesInv /\ QuietInv /\ PP!FrameInv
  BY DEF SessionInv
<1>2. \/ at' = "out" /\ ret' \in {"EOF", "IO_ERROR"} /\ (page_ready => ret' = "IO_ERROR")
      \/ at' = "decode" /\ page_ready /\ ret' = ret
  BY <1>0, <1>1 DEF ReadNothing, Goto, Return, DecoderInv
<1>3. /\ faults' \in Nat /\ (faults' = 0 => faults = 0)
      /\ stale' = stale
      /\ ~Unread \/ ~Linked \/ faults' # 0
  BY <1>0, <1>1 DEF QuietInv, ReadNothing, device, Fault
<1>c. CallInv'
  BY <1>0, <1>1, <1>2, Idle DEF CallInv, handle, buffer, Reading, Handshake, After
<1>d. DecoderInv'
  BY <1>0, <1>1, <1>2, Idle DEF DecoderInv, CallInv, buffer, Handshake, After
<1>l. LinesInv'
  BY <1>0, <1>1 DEF LinesInv, buffer
<1>q. QuietInv'
  <2>1. wire' = wire /\ state' = state /\ Unread' = Unread
    BY <1>0, Idle
  <2>2. ~Linked => wire = <<>> \/ n_errors
    BY <1>1 DEF QuietInv
  <2>3. wire = <<>> => ~Unread
    BY <1>1, NothingSent
  <2>4. Linked' = Linked
    BY <1>0 DEF Linked, handle
  <2>5. armed' = armed /\ n_errors' = n_errors /\ open' = open /\ bScanning' = bScanning
    BY <1>0 DEF handle
  <2>6. open /\ faults' = 0 /\ ~n_errors => ~stale /\ ~Unread
    BY <1>1, <1>3, <2>2, <2>3 DEF QuietInv
  <2> QED
    BY <2>1, <2>4, <2>5, <2>6, <1>0, <1>1, <1>2, <1>3 DEF QuietInv
<1> QED
  BY <1>0, <1>c, <1>d, <1>l, <1>q, Idle DEF SessionInv, ParserInv

LEMMA FeedReturns ==
  ASSUME SessionInv, Fed
  PROVE  SessionInv'
<1>0. /\ UNCHANGED <<parser, handle, buffer, session, device>>
      /\ op' = op /\ fed' = FALSE /\ at \in Reading /\ fed /\ pc = "out"
  BY DEF Fed, FedXsc, FedPump, FedDrain, Goto, Return, Reading
<1>1. CallInv /\ DecoderInv /\ LinesInv /\ QuietInv /\ PP!FrameInv
  BY DEF SessionInv
<1>2. \/ at' = "out" /\ ret' = "IO_ERROR" /\ n_errors /\ bScanning' = bScanning
      \/ at' = "out" /\ ret' = "EOF" /\ ~page_ready /\ at # "xsc" /\ bScanning' = bScanning
           /\ (n_errors \/ eof)
      \/ at' = "decode" /\ page_ready /\ ret' = ret /\ at = "pump" /\ bScanning' = bScanning
      \/ at' = "drain" /\ ret' = ret /\ at = "drain" /\ bScanning' = bScanning
      \/ at' = "pump" /\ ret' = ret /\ at = "pump" /\ bScanning' = bScanning
      \/ at' = "pump" /\ ret' = ret /\ at = "xsc" /\ bScanning'
  BY <1>1 DEF Fed, FedXsc, FedPump, FedDrain, Goto, Return, QuietInv, DecoderInv
<1>c. CallInv'
  BY <1>0, <1>1, <1>2, Idle DEF CallInv, handle, buffer, session, Reading, Handshake, After
<1>d. DecoderInv'
  BY <1>0, <1>1, <1>2, Idle DEF DecoderInv, CallInv, buffer, Handshake, After
<1>l. LinesInv'
  BY <1>0, <1>1 DEF LinesInv, buffer, session
<1>q. QuietInv'
  <2>1. wire' = wire /\ state' = state /\ Unread' = Unread
    BY <1>0, Idle
  <2>4. Linked' = Linked
    BY <1>0 DEF Linked, handle
  <2>5. armed' = armed /\ n_errors' = n_errors /\ open' = open /\ eof' = eof
        /\ stale' = stale /\ faults' = faults
    BY <1>0 DEF handle, session, device
  <2> QED
    BY <2>1, <2>4, <2>5, <1>0, <1>1, <1>2 DEF QuietInv
<1> QED
  BY <1>0, <1>c, <1>d, <1>l, <1>q, Idle DEF SessionInv, ParserInv

LEMMA Decoding ==
  ASSUME SessionInv, Decode \/ DecodeFails
  PROVE  SessionInv'
<1>0. /\ UNCHANGED <<parser, handle, page_ready, s_rle, page_buf, armed, canceled, bScanning>>
      /\ op' = op /\ fed' = FALSE /\ at = "decode"
  BY DEF Decode, DecodeFails, Goto, Return, buffer
<1>1. CallInv /\ DecoderInv /\ LinesInv /\ QuietInv /\ PP!FrameInv
  BY DEF SessionInv
<1>2. \/ /\ at' = "out" /\ ret' = "GOOD" /\ dec' # "none" /\ eof' = eof /\ n_errors' = n_errors
         /\ UNCHANGED device
      \/ /\ at' = "serve" /\ ret' = ret /\ op # "start" /\ dec' # "none"
         /\ eof' = eof /\ n_errors' = n_errors /\ UNCHANGED device
      \/ /\ at' = "out" /\ ret' = "IO_ERROR" /\ dec' = dec /\ n_errors' /\ faults' \in Nat
  BY <1>1 DEF Decode, DecodeFails, Goto, Return, buffer, Fault, QuietInv
<1>c. CallInv'
  BY <1>0, <1>1, <1>2, Idle DEF CallInv, handle, Reading, Handshake, After
<1>d. DecoderInv'
  BY <1>0, <1>1, <1>2, Idle DEF DecoderInv, CallInv, Handshake, After
<1>l. LinesInv'
  <2>1. Lines \in Nat
    <3>1. (IF s_rle THEN page_buf ELSE {k \in page_buf : wire[k] = "dat"}) \subseteq page_buf
      OBVIOUS
    <3> QED
      BY <1>1, <3>1, FS_Subset, FS_CardinalityType DEF LinesInv, Lines
  <2>2. \/ lines' = Lines /\ lines_out' = 0
        \/ lines' = lines /\ lines_out' = lines_out
    BY DEF Decode, DecodeFails, buffer
  <2> QED
    BY <2>1, <2>2, <1>0, <1>1 DEF LinesInv
<1>q. QuietInv'
  <2>1. wire' = wire /\ state' = state /\ Unread' = Unread
    BY <1>0, Idle
  <2>4. Linked' = Linked /\ open' = open
    BY <1>0 DEF Linked, handle
  <2>5. UNCHANGED device => stale' = stale /\ faults' = faults
    BY DEF device
  <2> QED
    BY <2>1, <2>4, <2>5, <1>0, <1>1, <1>2 DEF QuietInv
<1> QED
  BY <1>0, <1>c, <1>d, <1>l, <1>q, Idle DEF SessionInv, ParserInv

LEMMA Reads ==
  ASSUME SessionInv, Read
  PROVE  SessionInv'
<1>0. /\ UNCHANGED <<parser, handle, buffer, session, bScanning, device>>
      /\ op' = "read" /\ fed' = FALSE /\ at = "out" /\ open
      /\ ret \in {"GOOD", "INVAL", "CANCELLED"} \/ (ret = "EOF" /\ op = "read") \/ canceled
  BY DEF Read
<1>1. CallInv /\ DecoderInv /\ LinesInv /\ QuietInv /\ PP!FrameInv
  BY DEF SessionInv
<1>2. \/ at' = "out" /\ ret' = "CANCELLED" /\ canceled /\ ~page_ready
      \/ at' = "out" /\ ret' = "EOF" /\ eof /\ ~canceled /\ (page_ready => dec # "none")
      \/ at' = "pump" /\ ret' = ret /\ ~canceled /\ dec = "none" /\ ~page_ready
      \/ at' = "serve" /\ ret' = ret /\ ~canceled /\ dec # "none"
  <2>1. dec # "none" => page_ready
    BY <1>1 DEF DecoderInv
  <2>2. ~canceled => ret \in {"GOOD", "INVAL", "CANCELLED", "EOF"}
    BY <1>0
  <2>3. ~canceled /\ page_ready => dec # "none"
    BY <1>0, <2>2, <1>1 DEF DecoderInv
  <2> QED
    BY <2>1, <2>3, <1>1 DEF Read, CallInv
<1>c. CallInv'
  BY <1>0, <1>1, <1>2, Idle DEF CallInv, handle, buffer, session, Reading, Handshake, After
<1>d. DecoderInv'
  BY <1>0, <1>1, <1>2, Idle DEF DecoderInv, CallInv, buffer, Handshake, After
<1>l. LinesInv'
  BY <1>0, <1>1 DEF LinesInv, buffer, session
<1>q. QuietInv'
  <2>1. wire' = wire /\ state' = state /\ Unread' = Unread
    BY <1>0, Idle
  <2>4. Linked' = Linked
    BY <1>0 DEF Linked, handle
  <2>5. armed' = armed /\ n_errors' = n_errors /\ open' = open /\ eof' = eof
        /\ stale' = stale /\ faults' = faults
    BY <1>0 DEF handle, session, device
  <2>6. wire = <<>> => ~Unread
    BY <1>1, NothingSent
  <2> QED
    BY <2>1, <2>4, <2>5, <2>6, <1>0, <1>1, <1>2 DEF QuietInv, CallInv
<1> QED
  BY <1>0, <1>c, <1>d, <1>l, <1>q, Idle DEF SessionInv, ParserInv

LEMMA Serving ==
  ASSUME SessionInv, ServeLines \/ ServeEnd \/ ServeFails
  PROVE  SessionInv'
<1>0. /\ UNCHANGED <<parser, handle, armed, canceled, lines, bScanning>>
      /\ op' = op /\ fed' = FALSE /\ at = "serve" /\ dec # "none"
  BY DEF ServeLines, ServeEnd, ServeFails, Goto, Return, session
<1>1. CallInv /\ DecoderInv /\ LinesInv /\ QuietInv /\ PP!FrameInv
  BY DEF SessionInv
<1>2. \/ /\ at' = "out" /\ ret' \in {"INVAL", "GOOD"} /\ eof' = eof /\ n_errors' = n_errors
         /\ UNCHANGED <<device, page_ready, s_rle, page_buf, dec>> /\ lines_out' \in 0..lines
      \/ /\ at' = "drain" /\ ret' = ret /\ eof' = eof /\ n_errors' = n_errors
         /\ UNCHANGED device /\ Teardown
      \/ /\ at' = "out" /\ ret' = "IO_ERROR" /\ n_errors' /\ faults' \in Nat /\ Teardown
  BY <1>1 DEF ServeLines, ServeEnd, ServeFails, Goto, Return, session, Fault, QuietInv, LinesInv
<1>c. CallInv'
  BY <1>0, <1>1, <1>2, Idle DEF CallInv, handle, Reading, Handshake, After, Teardown
<1>d. DecoderInv'
  <2>1. CASE Teardown
    BY <2>1, <1>0, <1>1, <1>2, Idle DEF DecoderInv, Handshake, After, Teardown
  <2>2. CASE UNCHANGED <<page_ready, s_rle, dec>> /\ at' = "out"
    BY <2>2, <1>0, <1>1, Idle DEF DecoderInv, Handshake, After
  <2> QED
    BY <2>1, <2>2, <1>2
<1>l. LinesInv'
  <2>1. IsFiniteSet({})
    BY FS_EmptySet
  <2> QED
    BY <2>1, <1>0, <1>1, <1>2 DEF LinesInv, Teardown
<1>q. QuietInv'
  <2>1. wire' = wire /\ state' = state /\ Unread' = Unread
    BY <1>0, Idle
  <2>4. Linked' = Linked /\ open' = open
    BY <1>0 DEF Linked, handle
  <2>5. UNCHANGED device => stale' = stale /\ faults' = faults
    BY DEF device
  <2> QED
    BY <2>1, <2>4, <2>5, <1>0, <1>1, <1>2 DEF QuietInv
<1> QED
  BY <1>0, <1>c, <1>d, <1>l, <1>q, Idle DEF SessionInv, ParserInv

-----------------------------------------------------------------------------
(* The steps that clear the parser: a session is opened or closed, a scan  *)
(* starts or is given up.                                                  *)

LEMMA Cleared ==
  ASSUME SessionInv, P!Reset
  PROVE  /\ ParserInv' /\ wire' = <<>> /\ state' = "IDLE" /\ ~Unread'
         /\ Unread => wire # <<>>
         /\ wire = <<>> => ~s_rle
<1>1. PP!FrameInv /\ PP!OwedInv /\ DecoderInv
  BY DEF SessionInv
<1>2. PP!FrameInv' /\ wire' = <<>> /\ ~rle_pend' /\ state' = "IDLE"
  BY <1>1, ParserReset
<1>3. PP!OwedInv'
  BY <1>2 DEF PP!OwedInv
<1>4. ~Unread'
  BY <1>1, <1>2, ParserReset DEF Unread
<1>5. wire = <<>> => ~Unread /\ ~PP!Passed("x01")
  BY <1>1, NothingSent
<1> QED
  BY <1>1, <1>2, <1>3, <1>4, <1>5 DEF ParserInv, DecoderInv

LEMMA Opening ==
  ASSUME SessionInv, OpenSession
  PROVE  SessionInv'
<1>0. /\ UNCHANGED <<call, buffer, session, bScanning, faults>>
      /\ ~open /\ P!Reset /\ stale' = FALSE
  BY DEF OpenSession
<1>1. CallInv /\ DecoderInv /\ LinesInv /\ QuietInv
  BY DEF SessionInv
<1>2. /\ ParserInv' /\ wire' = <<>> /\ state' = "IDLE" /\ ~Unread'
      /\ Unread => wire # <<>>
      /\ wire = <<>> => ~s_rle
  BY <1>0, Cleared
<1>3. at = "out" /\ ret = "none" /\ ~canceled /\ wire = <<>> /\ ~page_ready /\ ~fed
  BY <1>0, <1>1 DEF CallInv, Reading
<1>c. CallInv'
  BY <1>0, <1>2, <1>3 DEF CallInv, call, buffer, session, Handshake, After, Reading
<1>d. DecoderInv'
  BY <1>0, <1>1, <1>2, <1>3 DEF DecoderInv, call, buffer, Handshake, After
<1>l. LinesInv'
  BY <1>0, <1>1 DEF LinesInv, buffer, session
<1>q. QuietInv'
  BY <1>0, <1>1, <1>2 DEF QuietInv
<1> QED
  BY <1>2, <1>c, <1>d, <1>l, <1>q DEF SessionInv, ParserInv

LEMMA Closing ==
  ASSUME SessionInv, CloseSession
  PROVE  SessionInv'
<1>0. /\ Teardown /\ P!Reset /\ at = "out" /\ UNCHANGED <<at, fed, device>>
      /\ open' = FALSE /\ ret' = "none"
      /\ armed' = FALSE /\ canceled' = FALSE /\ lines' = 0
  BY DEF CloseSession
<1>1. CallInv /\ DecoderInv /\ LinesInv /\ QuietInv
  BY DEF SessionInv
<1>2. ParserInv' /\ wire' = <<>> /\ state' = "IDLE"
  BY <1>0, Cleared
<1>3. IsFiniteSet({})
  BY FS_EmptySet
<1>c. CallInv'
  BY <1>0, <1>1, <1>2 DEF CallInv, Teardown, Handshake, After, Reading
<1>d. DecoderInv'
  BY <1>0, <1>2 DEF DecoderInv, Teardown, Handshake, After
<1>l. LinesInv'
  BY <1>0, <1>3 DEF LinesInv, Teardown
<1>q. QuietInv'
  BY <1>0, <1>1, <1>2 DEF QuietInv, device
<1> QED
  BY <1>2, <1>c, <1>d, <1>l, <1>q DEF SessionInv, ParserInv

LEMMA Starting ==
  ASSUME SessionInv, Start
  PROVE  SessionInv'
<1>0. /\ Teardown /\ P!Reset /\ at = "out" /\ open
      /\ UNCHANGED <<handle, n_errors, lines, bScanning, faults, fed>>
      /\ at' = "Q" /\ op' = "start" /\ ret \notin {"GOOD", "INVAL", "IO_ERROR"}
      /\ canceled' = FALSE /\ eof' = FALSE /\ stale' = (stale \/ Unread)
  BY DEF Start
<1>1. CallInv /\ DecoderInv /\ LinesInv /\ QuietInv
  BY DEF SessionInv
<1>2. ParserInv' /\ wire' = <<>> /\ state' = "IDLE" /\ ~Unread'
  BY <1>0, Cleared
<1>3. IsFiniteSet({})
  BY FS_EmptySet
<1>c. CallInv'
  BY <1>0, <1>1, <1>2 DEF CallInv, handle, Teardown, Handshake, After, Reading
<1>d. DecoderInv'
  BY <1>0, <1>2 DEF DecoderInv, Teardown
<1>l. LinesInv'
  BY <1>0, <1>1, <1>3 DEF LinesInv, Teardown
<1>q. QuietInv'
  BY <1>0, <1>1, <1>2 DEF QuietInv
<1> QED
  BY <1>2, <1>c, <1>d, <1>l, <1>q DEF SessionInv, ParserInv

LEMMA Cancelling ==
  ASSUME SessionInv, Cancel
  PROVE  SessionInv'
<1>0. at = "out" /\ open /\ ret' = "none" /\ UNCHANGED <<transport, open, at, fed>>
  BY DEF Cancel
<1>1. CallInv /\ DecoderInv /\ LinesInv /\ QuietInv /\ PP!FrameInv
  BY DEF SessionInv
<1>2. CASE bScanning
  <2>1. CancelScan
    BY <1>2 DEF Cancel
  <2>2. Teardown /\ P!Reset /\ canceled' = TRUE /\ UNCHANGED <<n_errors, lines>>
    BY <2>1 DEF CancelScan
  <2>3. /\ ParserInv' /\ wire' = <<>> /\ state' = "IDLE" /\ ~Unread'
        /\ Unread => wire # <<>>
    BY <2>2, Cleared
  <2>4. IsFiniteSet({})
    BY FS_EmptySet
  <2>5. faults' \in Nat /\ (faults' = 0 => faults = 0)
    BY <1>1, <2>1 DEF CancelScan, NoFault, Fault, QuietInv
  <2>6. faults' = 0 => stale' = (stale \/ (Unread /\ ~(armed /\ Linked)))
    <3>1. Fault => faults' # 0
      BY <1>1 DEF Fault, QuietInv
    <3> QED
      BY <2>1, <3>1 DEF CancelScan
  <2>c. CallInv'
    BY <1>0, <1>1, <2>2, <2>3 DEF CallInv, Teardown, Handshake, After, Reading
  <2>d. DecoderInv'
    BY <1>0, <2>2, <2>3 DEF DecoderInv, Teardown, Handshake, After
  <2>l. LinesInv'
    BY <1>1, <2>2, <2>4 DEF LinesInv, Teardown
  <2>q. QuietInv'
    BY <1>0, <1>1, <2>2, <2>3, <2>5, <2>6 DEF QuietInv
  <2> QED
    BY <2>3, <2>c, <2>d, <2>l, <2>q DEF SessionInv, ParserInv
<1>3. CASE ~bScanning
  <2>1. UNCHANGED <<parser, buffer, session, bScanning, device>>
    BY <1>3 DEF Cancel
  <2>2. wire = <<>> \/ n_errors
    BY <1>0, <1>1, <1>3 DEF QuietInv
  <2>3. wire = <<>> => ~Unread
    BY <1>1, NothingSent
  <2>c. CallInv'
    BY <1>0, <1>1, <2>1, Idle DEF CallInv, buffer, session, Handshake, After, Reading
  <2>d. DecoderInv'
    BY <1>0, <1>1, <2>1, Idle DEF DecoderInv, buffer, Handshake, After
  <2>l. LinesInv'
    BY <1>1, <2>1 DEF LinesInv, buffer, session
  <2>q. QuietInv'
    BY <1>0, <1>1, <2>1, <2>2, <2>3, Idle DEF QuietInv, session, device
  <2> QED
    BY <2>1, <2>c, <2>d, <2>l, <2>q, Idle DEF SessionInv, ParserInv
<1> QED
  BY <1>2, <1>3

LEMMA Accepting ==
  ASSUME SessionInv, ScanStarted
  PROVE  SessionInv'
<1>0. /\ at = "XSC" /\ Linked /\ at' = "xsc" /\ fed' = FALSE /\ UNCHANGED <<op, ret>>
      /\ UNCHANGED <<handle, canceled, eof, n_errors, lines, buffer, bScanning, stale, faults>>
      /\ armed' = TRUE
  BY DEF ScanStarted, Goto
<1>1. CallInv /\ DecoderInv /\ LinesInv /\ QuietInv /\ PP!FrameInv
  BY DEF SessionInv
<1>2. PICK w \in Streams : P!Arm(w)
  BY DEF ScanStarted
<1>3. PP!FrameInv' /\ ~rle_pend' /\ state' = "ARMED"
  BY <1>1, <1>2, ParserArm
<1>4. PP!OwedInv'
  BY <1>3 DEF PP!OwedInv
<1>5. wire = <<>> /\ op = "start" /\ open /\ ~canceled /\ ~eof /\ ~page_ready /\ dec = "none"
  BY <1>0, <1>1 DEF CallInv, DecoderInv, Handshake, After
<1>6. ~s_rle
  BY <1>1, <1>5, NothingSent DEF DecoderInv
<1>7. Linked'
  BY <1>0 DEF Linked, handle
<1>c. CallInv'
  BY <1>0, <1>5 DEF CallInv, handle, buffer, Handshake, After, Reading
<1>d. DecoderInv'
  BY <1>0, <1>5, <1>6 DEF DecoderInv, buffer, Handshake, After
<1>l. LinesInv'
  BY <1>0, <1>1 DEF LinesInv, buffer
<1>q. QuietInv'
  BY <1>0, <1>1, <1>3, <1>5, <1>7 DEF QuietInv, handle
<1> QED
  BY <1>3, <1>4, <1>c, <1>d, <1>l, <1>q DEF SessionInv

-----------------------------------------------------------------------------
(* A read, and an iteration of the parser on it.                           *)

LEMMA Receiving ==
  ASSUME SessionInv, Receive
  PROVE  SessionInv'
<1>0. /\ at \in Reading /\ ~fed /\ fed' = TRUE
      /\ UNCHANGED <<handle, at, op, ret, buffer, session, bScanning, device>>
  BY DEF Receive
<1>1. CallInv /\ DecoderInv /\ LinesInv /\ QuietInv /\ PP!FrameInv /\ PP!OwedInv
  BY DEF SessionInv
<1>2. PICK h \in (hi + 1)..Len(wire) : P!Feed(h)
  BY DEF Receive
<1>3. PP!FrameInv' /\ UNCHANGED <<wire, rle_pend, accum, state>> /\ i' = i
  BY <1>1, <1>2, ParserFeed
<1>4. rle_mode' = rle_mode
  BY <1>2 DEF P!Feed, P!parser
<1>5. PP!OwedInv' /\ (PP!PageOver => PP!PageOver') /\ (PP!Passed("x01") => PP!Passed("x01")')
  BY <1>1, <1>3, <1>4 DEF PP!OwedInv, PP!PageOver, PP!Passed
<1>6. Unread
  BY <1>1, <1>2, Placed DEF Unread
<1>7. Linked' = Linked
  BY <1>0 DEF Linked, handle
<1>c. CallInv'
  BY <1>0, <1>1, <1>3 DEF CallInv, handle, buffer, session, Handshake, After, Reading
<1>d. DecoderInv'
  BY <1>0, <1>1, <1>5 DEF DecoderInv, buffer, Handshake, After, Reading
<1>l. LinesInv'
  BY <1>0, <1>1 DEF LinesInv, buffer, session
<1>q. QuietInv'
  BY <1>0, <1>1, <1>3, <1>6, <1>7 DEF QuietInv, handle, session, device, Reading
<1> QED
  BY <1>3, <1>5, <1>c, <1>d, <1>l, <1>q DEF SessionInv

(* What the events of a step mean: a page that is over stays over and has  *)
(* no more data, the end of a page means that it is over, and the session  *)
(* end is the end of what the device sends.                                *)
LEMMA EventsMean ==
  ASSUME SessionInv, Parse
  PROVE  /\ ParserInv' /\ UNCHANGED <<wire, lo, hi>> /\ i <= i'
         /\ PP!PageOver =>
              /\ PP!PageOver' /\ ~PP!Says("JPEG_EOI")'
              /\ ~PP!Says("RLE_DATA")' /\ ~PP!Says("BLOCK")'
         /\ PP!Passed("x01") => PP!Passed("x01")'
         /\ PP!Says("JPEG_EOI")' => PP!PageOver'
         /\ PP!Says("PAGE_END")' /\ PP!Passed("x01") => PP!PageOver'
         /\ PP!Says("BLOCK")' \/ PP!Says("RLE_DATA")' => PP!Passed("x01")'
         /\ PP!Says("SESSION_END")' => ~Unread
         /\ state' = "ERROR" => PP!Says("ERROR")'
<1>1. P!Step /\ fed /\ pc # "out" /\ PP!FrameInv /\ PP!OwedInv
  BY DEF Parse, SessionInv
<1>2. PP!FrameInv' /\ PP!Contract
  BY <1>1, ParserStep
<1>3. PP!OnePage(wire) /\ PP!EndsOnce(wire)
  BY <1>1, WireIsSound
<1>4. i <= hi /\ i \in Nat
  BY <1>1, Placed
<1>5. PP!OwedInv'
  BY <1>1, <1>2, <1>3, SameStep, ParserAssumptions, PP!OwedStays
<1>6. UNCHANGED <<wire, lo, hi>> /\ i <= i' /\ (state' = "ERROR" => PP!Says("ERROR")')
  BY <1>2 DEF PP!Contract
<1>7. PICK n \in Nat : i' = n
  BY <1>2 DEF PP!FrameInv, PP!TypeInv, PP!TypeOK
<1>8. PP!PageOver =>
        /\ PP!PageOver' /\ ~PP!Says("JPEG_EOI")'
        /\ ~PP!Says("RLE_DATA")' /\ ~PP!Says("BLOCK")'
  BY <1>1, <1>2, <1>4, ParserAssumptions, PP!OverStays
<1>9. PP!Passed("x01") => PP!Passed("x01")'
  BY <1>1, <1>6, <1>7, <1>4, Placed DEF PP!Passed
<1>10. PP!Says("JPEG_EOI")' \/ (PP!Says("PAGE_END")' /\ PP!Passed("x01")) => PP!PageOver'
  BY <1>1, <1>2, <1>3, <1>4, <1>5, ParserAssumptions, PP!OverBegins
<1>11. PP!Says("BLOCK")' \/ PP!Says("RLE_DATA")' => PP!Passed("x01")'
  BY <1>1, <1>2, <1>4, ParserAssumptions, PP!BlocksPassed
<1>12. PP!Says("SESSION_END")' => ~Unread
  <2>1. SUFFICES ASSUME PP!Says("SESSION_END")' PROVE ~Unread
    OBVIOUS
  <2>2. i < n /\ wire[n - 1] = "x20"
    BY <2>1, <1>2, <1>7 DEF PP!Contract
  <2>3. n <= hi + 1 /\ hi \in Nat /\ hi <= Len(wire) /\ DOMAIN wire = 1..Len(wire) /\ 1 <= i
    BY <1>1, <1>2, <1>6, <1>7, Placed DEF PP!FrameInv, PP!TypeInv, PP!TypeOK
  <2>4. n - 1 \in 1..Len(wire) /\ Len(wire) \in Nat
    BY <2>2, <2>3, <1>4, <1>1, Placed
  <2>5. n - 1 = Len(wire)
    BY <2>2, <2>3, <2>4, <1>3 DEF PP!EndsOnce
  <2> QED
    BY <2>3, <2>4, <2>5 DEF Unread
<1> QED
  BY <1>2, <1>5, <1>6, <1>8, <1>9, <1>10, <1>11, <1>12 DEF ParserInv

LEMMA Parsing ==
  ASSUME SessionInv, Parse
  PROVE  SessionInv'
<1>0. /\ fed /\ fed' = fed /\ at' = at /\ op' = op /\ ret' = ret /\ OnEvents
      /\ UNCHANGED <<handle, dec, lines_out, armed, canceled, lines, bScanning, device>>
  BY DEF Parse, call
<1>1. CallInv /\ DecoderInv /\ LinesInv /\ QuietInv
  BY DEF SessionInv
<1>2. at \in Reading
  BY <1>0, <1>1 DEF CallInv
<1>3. ParserInv' /\ wire' = wire /\ Unread' = Unread
  BY EventsMean DEF Unread
<1>4. \A e : e \in Range(ev') <=> PP!Says(e)'
  BY <1>3, Said DEF ParserInv
<1>5. /\ s_rle' = (s_rle \/ PP!Says("BLOCK")' \/ PP!Says("RLE_DATA")')
      /\ page_ready' = (page_ready \/ PP!Says("JPEG_EOI")' \/ (PP!Says("PAGE_END")' /\ s_rle))
      /\ n_errors' = (n_errors \/ PP!Says("ERROR")')
      /\ eof' = (eof \/ PP!Says("SESSION_END")' \/ PP!Says("ERROR")')
  BY <1>0, <1>4 DEF OnEvents
<1>c. CallInv'
  BY <1>0, <1>1, <1>2, <1>3 DEF CallInv, handle, Handshake, After, Reading
<1>d. DecoderInv'
  BY <1>0, <1>1, <1>2, <1>5, EventsMean DEF DecoderInv, Handshake, After, Reading
<1>l. LinesInv'
  <2>1. page_buf' = page_buf \/ page_buf' = page_buf \cup {i}
    BY <1>0 DEF OnEvents
  <2>2. IsFiniteSet(page_buf')
    BY <2>1, <1>1, FS_AddElement DEF LinesInv
  <2> QED
    BY <2>2, <1>0, <1>1 DEF LinesInv
<1>q. QuietInv'
  <2>1. Linked' = Linked /\ open' = open /\ stale' = stale /\ faults' = faults
    BY <1>0 DEF Linked, handle, device
  <2> QED
    BY <2>1, <1>0, <1>1, <1>2, <1>3, <1>5, EventsMean DEF QuietInv, Reading
<1> QED
  BY <1>3, <1>c, <1>d, <1>l, <1>q DEF SessionInv, ParserInv

-----------------------------------------------------------------------------
(* The session starts in the invariant and every step keeps it.            *)

LEMMA SessionBegins == Init => SessionInv
<1> SUFFICES ASSUME Init PROVE SessionInv
  OBVIOUS
<1>1. PP!Init /\ wire = <<>> /\ i = 1 /\ ~rle_pend /\ state = "IDLE"
  BY SameInit DEF Init, P!Init
<1>2. PP!TypeInv
  BY <1>1, ParserAssumptions, PP!InitType
<1>3. PP!FrameInv
  BY <1>1, <1>2 DEF PP!Init, PP!FrameInv, PP!CursorInv, PP!LoopInv, PP!AccumInv, PP!ReadInv
<1>4. PP!OwedInv
  BY <1>1 DEF PP!OwedInv
<1>5. IsFiniteSet({})
  BY FS_EmptySet
<1> QED
  BY <1>1, <1>3, <1>4, <1>5
  DEF Init, SessionInv, CallInv, DecoderInv, LinesInv, QuietInv, Handshake, After, Reading

LEMMA SessionStutters ==
  ASSUME SessionInv, UNCHANGED vars
  PROVE  SessionInv'
<1>0. UNCHANGED <<parser, handle, call, buffer, session, bScanning, device>>
  BY DEF vars
<1>1. CallInv /\ DecoderInv /\ LinesInv /\ QuietInv
  BY DEF SessionInv
<1>c. CallInv'
  BY <1>0, <1>1, Idle DEF CallInv, handle, call, buffer, session
<1>d. DecoderInv'
  BY <1>0, <1>1, Idle DEF DecoderInv, call, buffer
<1>l. LinesInv'
  BY <1>0, <1>1 DEF LinesInv, buffer, session
<1>q. QuietInv'
  <2>1. Linked' = Linked
    BY <1>0 DEF Linked, handle
  <2> QED
    BY <2>1, <1>0, <1>1, Idle DEF QuietInv, handle, call, session, device
<1> QED
  BY <1>0, <1>c, <1>d, <1>l, <1>q, Idle DEF SessionInv, ParserInv

LEMMA SessionInductive ==
  ASSUME SessionInv, [Next]_vars
  PROVE  SessionInv'
<1>1. CASE Frontend
  BY <1>1, Opening, Closing, Starting, Reads, Cancelling DEF Frontend
<1>2. CASE Work
  BY <1>2, HandshakeSteps, Accepting, Receiving, Parsing, FeedReturns, ReadingNothing,
     Decoding, Serving DEF Work
<1>3. CASE UNCHANGED vars
  BY <1>3, SessionStutters
<1> QED
  BY <1>1, <1>2, <1>3 DEF Next

LEMMA SessionInvariant == Spec => []SessionInv
<1>1. SessionInv /\ [Next]_vars => SessionInv'
  BY SessionInductive
<1> QED
  BY <1>1, SessionBegins, PTL DEF Spec

(* Scanlines are served by a decoder that exists, and none that it does    *)
(* not have: brscan5_read_buffer() reaches libjpeg with a live decoder     *)
(* whatever starts, reads, cancels, errors and events came before.         *)
THEOREM DecodersLive == Spec => []DecoderLives
<1>1. SessionInv => DecoderLives
  BY DEF SessionInv, DecoderInv, LinesInv, DecoderLives
<1> QED
  BY <1>1, SessionInvariant, PTL

(* A sane_start() meets no data of an earlier scan, unless a fault or an   *)
(* error left it there: for every stream of a device that ends its session *)
(* once, however it is cut into reads, and whenever the scan is cancelled. *)
THEOREM QuietStarts == Spec => []QuietAtStart
<1>1. SessionInv => QuietAtStart
  BY DEF SessionInv, QuietInv, CallInv, QuietAtStart
<1> QED
  BY <1>1, SessionInvariant, PTL

-----------------------------------------------------------------------------
(* The calls implement ScanLifecycle, if the end of a page is not in a read *)
(* that holds the XSC response or the session end.                         *)

(* the last read holds the end of the page, or the session end             *)
PageHeld == \E k \in lo..hi : EndsPage(k)
EndHeld  == \E k \in lo..hi : wire[k] = "x20"

(* A page that is ready was ended by the read that is parsed, and then the *)
(* session end is still to be read.                                        *)
PageInv ==
  /\ (at = "pump" /\ ~fed) \/ at = "xsc" => ~page_ready
  /\ at \in {"xsc", "pump"} /\ fed /\ eof /\ ~n_errors => EndHeld
  /\ at \in {"xsc", "pump"} /\ ~fed /\ eof /\ ~n_errors => ~Unread
  /\ at = "pump" /\ page_ready => PageHeld
  /\ fed /\ PageHeld => at # "xsc" /\ ~EndHeld

(* What the last return says of the page, and that a read which waits for  *)
(* data has no page to lose.                                               *)
ReturnInv ==
  /\ at \in {"decode", "serve"} => ~eof
  /\ at = "decode" => op = "start"
  /\ at = "out" => (ret \in {"GOOD", "INVAL"} <=> dec # "none" /\ ~eof)
  /\ at = "out" /\ ret = "CANCELLED" => canceled
  /\ op = "read" /\ (at = "pump" \/ (at = "out" /\ ret = "EOF")) =>
       PP!PageOver /\ ~s_rle /\ ~page_ready /\ bScanning
  /\ dec # "none" \/ at \in {"pump", "drain", "decode", "serve"} => bScanning

DeliverInv == SessionInv /\ PageInv /\ ReturnInv

LEMMA IdlePage ==
  ASSUME DeliverInv, UNCHANGED parser
  PROVE  /\ PageHeld' = PageHeld /\ EndHeld' = EndHeld /\ Unread' = Unread
         /\ (PP!PageOver => PP!PageOver')
<1>1. UNCHANGED <<wire, lo, hi>>
  BY Idle DEF DeliverInv
<1> QED
  BY <1>1, Idle DEF DeliverInv, PageHeld, EndHeld, EndsPage

LEMMA HandshakeReturns ==
  ASSUME DeliverInv, Exchange \/ ExchangeFails \/ Refused \/ ScanStarted
  PROVE  PageInv' /\ ReturnInv'
<1>1. CallInv /\ DecoderInv /\ ReturnInv
  BY DEF DeliverInv, SessionInv
<1>2. /\ at \in Handshake /\ op' = op /\ fed' = FALSE
      /\ UNCHANGED <<page_ready, dec, eof, bScanning>>
      /\ \/ at' \in Handshake \/ at' = "xsc"
         \/ at' = "out" /\ ret' \in {"IO_ERROR", "NO_DOCS", "JAMMED"}
  BY Commands DEF Exchange, ExchangeFails, Refused, ScanStarted, Goto, Return, buffer, session
<1>3. op = "start" /\ ~eof /\ ~page_ready /\ dec = "none"
  BY <1>1, <1>2 DEF CallInv, DecoderInv, Handshake, After
<1> QED
  BY <1>1, <1>2, <1>3 DEF PageInv, ReturnInv, Handshake, After

LEMMA ReadingNothingReturns ==
  ASSUME DeliverInv, ReadNothing
  PROVE  PageInv' /\ ReturnInv'
<1>1. CallInv /\ DecoderInv /\ PageInv /\ ReturnInv
  BY DEF DeliverInv, SessionInv
<1>2. /\ UNCHANGED <<parser, buffer, bScanning>> /\ op' = op /\ fed' = FALSE
      /\ at \in {"pump", "drain"} /\ ~fed
  BY DEF ReadNothing, Goto, Return
<1>3. ~page_ready
  BY <1>1, <1>2 DEF PageInv, DecoderInv
<1>4. at' = "out" /\ ret' \in {"EOF", "IO_ERROR"}
  BY <1>2, <1>3 DEF ReadNothing, Return
<1>5. dec = "none" /\ (op = "read" => PP!PageOver /\ ~s_rle /\ bScanning)
  BY <1>1, <1>2 DEF DecoderInv, ReturnInv, Handshake, After
<1> QED
  BY <1>2, <1>3, <1>4, <1>5, IdlePage DEF PageInv, ReturnInv, buffer

LEMMA FeedReturnsPage ==
  ASSUME DeliverInv, Fed
  PROVE  PageInv' /\ ReturnInv'
<1>1. CallInv /\ DecoderInv /\ QuietInv /\ PageInv /\ ReturnInv /\ PP!FrameInv
  BY DEF DeliverInv, SessionInv
<1>2. /\ UNCHANGED <<parser, buffer, session>> /\ op' = op /\ fed' = FALSE
      /\ at \in Reading /\ fed
  BY DEF Fed, FedXsc, FedPump, FedDrain, Goto, Return, Reading
<1>3. /\ UNCHANGED <<page_ready, dec, eof, s_rle, n_errors>> /\ dec = "none"
      /\ Unread' = Unread /\ (PP!PageOver => PP!PageOver')
  BY <1>1, <1>2, IdlePage DEF buffer, session, DecoderInv, Reading, Handshake, After
<1>4. CASE at = "xsc"
  <2>1. EndHeld => ~Unread
    <3>1. /\ PP!EndsOnce(wire) /\ lo \in Nat /\ 1 <= lo /\ hi \in Nat /\ hi <= Len(wire)
          /\ DOMAIN wire = 1..Len(wire) /\ Len(wire) \in Nat
      BY <1>1, WireIsSound, Placed
    <3> QED
      BY <3>1 DEF EndHeld, Unread, PP!EndsOnce
  <2>2. ~page_ready /\ op = "start"
    BY <1>4, <1>1 DEF PageInv, CallInv
  <2>3. /\ bScanning' = bScanning \/ bScanning'
        /\ \/ at' = "out" /\ ret' = "IO_ERROR"
           \/ at' = "pump" /\ bScanning'
    BY <1>4 DEF Fed, FedXsc, FedPump, FedDrain, Goto, Return
  <2>4. eof /\ ~n_errors => EndHeld
    BY <1>4, <1>1, <1>2 DEF PageInv
  <2> QED
    BY <2>1, <2>2, <2>3, <2>4, <1>2, <1>3 DEF PageInv, ReturnInv
<1>5. CASE at = "pump"
  <2>1. /\ bScanning' = bScanning /\ bScanning
        /\ \/ at' = "out" /\ ret' = "IO_ERROR"
           \/ at' = "decode" /\ page_ready /\ ~n_errors
           \/ at' = "out" /\ ret' = "EOF" /\ ~page_ready
           \/ at' = "pump" /\ ~page_ready /\ (~eof \/ n_errors)
    BY <1>5, <1>1 DEF Fed, FedXsc, FedPump, FedDrain, Goto, Return, ReturnInv
  <2>2. page_ready => ~eof \/ n_errors
    BY <1>5, <1>1, <1>2 DEF PageInv
  <2>3. op = "read" => PP!PageOver /\ ~s_rle /\ ~page_ready
    BY <1>5, <1>1 DEF ReturnInv
  <2>4. op \in {"start", "read"}
    BY <1>5, <1>1 DEF CallInv
  <2> QED
    BY <2>1, <2>2, <2>3, <2>4, <1>2, <1>3 DEF PageInv, ReturnInv
<1>6. CASE at = "drain"
  <2>1. /\ bScanning' = bScanning /\ bScanning
        /\ \/ at' = "out" /\ ret' = "EOF"
           \/ at' = "drain"
    BY <1>6, <1>1 DEF Fed, FedXsc, FedPump, FedDrain, Goto, Return, ReturnInv
  <2>2. PP!PageOver /\ ~page_ready /\ ~s_rle
    BY <1>6, <1>1 DEF DecoderInv
  <2> QED
    BY <2>1, <2>2, <1>2, <1>3 DEF PageInv, ReturnInv
<1> QED
  BY <1>2, <1>4, <1>5, <1>6 DEF Reading

LEMMA DecodingReturns ==
  ASSUME DeliverInv, Decode \/ DecodeFails
  PROVE  PageInv' /\ ReturnInv'
<1>1. CallInv /\ DecoderInv /\ ReturnInv
  BY DEF DeliverInv, SessionInv
<1>2. /\ op = "start" /\ op' = op /\ fed' = FALSE /\ bScanning' /\ at' = "out"
      /\ \/ ret' = "GOOD" /\ dec' # "none" /\ ~eof'
         \/ ret' = "IO_ERROR" /\ dec' = "none"
  <2>1. at = "decode"
    BY DEF Decode, DecodeFails
  <2>2. op = "start" /\ ~eof /\ bScanning /\ dec = "none"
    BY <1>1, <2>1 DEF DecoderInv, ReturnInv, Handshake, After
  <2>3. CASE Decode
    BY <2>2, <2>3 DEF Decode, Return
  <2>4. CASE DecodeFails
    BY <2>2, <2>4 DEF DecodeFails, Return, buffer
  <2> QED
    BY <2>3, <2>4
<1> QED
  BY <1>2 DEF PageInv, ReturnInv

LEMMA ReadReturns ==
  ASSUME DeliverInv, Read
  PROVE  PageInv' /\ ReturnInv'
<1>1. CallInv /\ DecoderInv /\ PageInv /\ ReturnInv
  BY DEF DeliverInv, SessionInv
<1>2. /\ UNCHANGED <<parser, buffer, session, bScanning>> /\ op' = "read" /\ fed' = FALSE
      /\ at = "out" /\ open
      /\ ret \in {"GOOD", "INVAL", "CANCELLED"} \/ (ret = "EOF" /\ op = "read") \/ canceled
  BY DEF Read
<1>3. /\ UNCHANGED <<page_ready, dec, eof, s_rle, n_errors, canceled>>
      /\ (PP!PageOver => PP!PageOver')
  BY <1>2, IdlePage DEF buffer, session
<1>4. CASE canceled
  <2>1. at' = "out" /\ ret' = "CANCELLED" /\ dec = "none"
    BY <1>1, <1>2, <1>4 DEF Read, CallInv, DecoderInv
  <2> QED
    BY <2>1, <1>2, <1>3, <1>4 DEF PageInv, ReturnInv
<1>5. CASE ~canceled /\ (dec # "none" /\ ~eof)
  <2>1. at' = "serve" /\ ret' = ret /\ bScanning
    BY <1>1, <1>5 DEF Read, DecoderInv, ReturnInv
  <2> QED
    BY <2>1, <1>2, <1>3, <1>5 DEF PageInv, ReturnInv
<1>6. CASE ~canceled /\ ~(dec # "none" /\ ~eof)
  <2>1. ret = "EOF" /\ op = "read"
    BY <1>1, <1>2, <1>6 DEF ReturnInv
  <2>2. PP!PageOver /\ ~s_rle /\ ~page_ready /\ bScanning /\ dec = "none"
    BY <1>1, <1>2, <2>1 DEF ReturnInv, DecoderInv
  <2>3. \/ at' = "out" /\ ret' = "EOF" /\ eof
        \/ at' = "pump" /\ ret' = ret /\ ~eof
    BY <1>6, <2>2 DEF Read
  <2> QED
    BY <2>2, <2>3, <1>2, <1>3, <1>6 DEF PageInv, ReturnInv
<1> QED
  BY <1>4, <1>5, <1>6

LEMMA ServingReturns ==
  ASSUME DeliverInv, ServeLines \/ ServeEnd \/ ServeFails
  PROVE  PageInv' /\ ReturnInv'
<1>1. CallInv /\ DecoderInv /\ ReturnInv
  BY DEF DeliverInv, SessionInv
<1>2. at = "serve" /\ ~eof /\ bScanning /\ bScanning' = bScanning /\ fed' = FALSE
  BY <1>1 DEF ServeLines, ServeEnd, ServeFails, Goto, Return, ReturnInv
<1>3. \/ at' = "out" /\ ret' \in {"INVAL", "GOOD"} /\ eof' = eof /\ dec' # "none"
      \/ at' = "drain" /\ dec' = "none"
      \/ at' = "out" /\ ret' = "IO_ERROR" /\ dec' = "none"
  BY DEF ServeLines, ServeEnd, ServeFails, Goto, Return, session, Teardown
<1> QED
  BY <1>2, <1>3 DEF PageInv, ReturnInv

LEMMA ClearingReturns ==
  ASSUME DeliverInv, OpenSession \/ CloseSession \/ Start \/ Cancel
  PROVE  PageInv' /\ ReturnInv'
<1>1. CallInv /\ DecoderInv /\ ReturnInv
  BY DEF DeliverInv, SessionInv
<1>2. CASE Start
  BY <1>1, <1>2 DEF Start, Teardown, PageInv, ReturnInv, CallInv, Reading
<1>3. CASE OpenSession \/ CloseSession \/ Cancel
  <2>1. at' = "out" /\ ret' = "none" /\ fed' = FALSE
    BY <1>1, <1>3 DEF OpenSession, CloseSession, Cancel, CallInv, call, Reading
  <2>2. dec' = "none" \/ (eof' /\ bScanning')
    <3>1. CASE OpenSession
      BY <3>1, <1>1 DEF OpenSession, CallInv, DecoderInv, buffer
    <3>2. CASE CloseSession
      BY <3>2 DEF CloseSession, Teardown
    <3>3. CASE Cancel /\ bScanning
      BY <3>3 DEF Cancel, CancelScan, Teardown
    <3>4. CASE Cancel /\ ~bScanning
      BY <3>4, <1>1 DEF Cancel, ReturnInv, buffer
    <3> QED
      BY <1>3, <3>1, <3>2, <3>3, <3>4
  <2> QED
    BY <2>1, <2>2 DEF PageInv, ReturnInv
<1> QED
  BY <1>2, <1>3

LEMMA ReceivingReturns ==
  ASSUME DeliverInv, Receive, LargePages
  PROVE  PageInv' /\ ReturnInv'
<1>1. CallInv /\ DecoderInv /\ PageInv /\ ReturnInv /\ PP!FrameInv
  BY DEF DeliverInv, SessionInv
<1>2. /\ at \in Reading /\ ~fed /\ fed' = TRUE
      /\ UNCHANGED <<handle, at, op, ret, buffer, session, bScanning>>
  BY DEF Receive
<1>3. PICK h \in (hi + 1)..Len(wire) : ReadFits(h) /\ P!Feed(h)
  BY DEF Receive
<1>4. /\ UNCHANGED <<wire, rle_pend, accum>> /\ i' = i
      /\ i = hi + 1 /\ lo' = i /\ hi' = h
  BY <1>1, <1>3, ParserFeed
<1>5. PP!PageOver => PP!PageOver'
  BY <1>4 DEF PP!PageOver
<1>6. Unread
  BY <1>1, <1>3, Placed DEF Unread
<1>7. PageHeld' => at # "xsc" /\ ~EndHeld'
  BY <1>3, <1>4 DEF PageHeld, EndHeld, EndsPage, ReadFits
<1> QED
  BY <1>1, <1>2, <1>5, <1>6, <1>7 DEF PageInv, ReturnInv, buffer, session, Reading

LEMMA ParsingReturns ==
  ASSUME DeliverInv, Parse, ShortPackets
  PROVE  PageInv' /\ ReturnInv'
<1>0. /\ fed /\ fed' = fed /\ at' = at /\ op' = op /\ ret' = ret /\ OnEvents
      /\ UNCHANGED <<dec, canceled, bScanning>>
  BY DEF Parse, call
<1>1. CallInv /\ DecoderInv /\ PageInv /\ ReturnInv /\ PP!FrameInv /\ SessionInv
  BY DEF DeliverInv, SessionInv
<1>2. at \in Reading
  BY <1>0, <1>1 DEF CallInv
<1>3. /\ ParserInv' /\ UNCHANGED <<wire, lo, hi>>
      /\ (PP!PageOver => PP!PageOver' /\ ~PP!Says("JPEG_EOI")'
            /\ ~PP!Says("RLE_DATA")' /\ ~PP!Says("BLOCK")')
  BY <1>1, EventsMean
<1>4. \A e : e \in Range(ev') <=> PP!Says(e)'
  BY <1>3, Said DEF ParserInv
<1>5. /\ s_rle' = (s_rle \/ PP!Says("BLOCK")' \/ PP!Says("RLE_DATA")')
      /\ page_ready' = (page_ready \/ PP!Says("JPEG_EOI")' \/ (PP!Says("PAGE_END")' /\ s_rle))
      /\ n_errors' = (n_errors \/ PP!Says("ERROR")')
      /\ eof' = (eof \/ PP!Says("SESSION_END")' \/ PP!Says("ERROR")')
  BY <1>0, <1>4 DEF OnEvents
<1>6. PageHeld' = PageHeld /\ EndHeld' = EndHeld
  BY <1>3 DEF PageHeld, EndHeld, EndsPage
<1>7. PP!Contract /\ PP!FrameInv' /\ pc # "out"
  BY <1>1, ParserStep DEF Parse
<1>8. /\ PP!WholeRecords(wire) /\ lo \in Nat /\ hi \in Nat /\ i \in Nat
      /\ lo <= i /\ i <= hi /\ 1 <= lo /\ hi <= Len(wire) /\ DOMAIN wire = 1..Len(wire)
      /\ Len(wire) \in Nat
  BY <1>1, <1>7, WireIsSound, Placed
<1>9. PP!Says("JPEG_EOI")' => PageHeld
  BY <1>7, <1>8 DEF PP!Contract, PageHeld, EndsPage
<1>10. PP!Says("PAGE_END")' /\ s_rle => PageHeld
  <2>1. SUFFICES ASSUME PP!Says("PAGE_END")', s_rle PROVE PageHeld
    OBVIOUS
  <2>2. PICK k \in lo..hi : wire[k] = "x21"
    BY <1>1, <1>7, <1>8, <2>1, ParserAssumptions, PP!EndInChunk
  <2>3. PP!Passed("x01")
    BY <1>1, <2>1 DEF DecoderInv
  <2>4. PICK j \in 1..(i - 1) : wire[j] = "x01"
    BY <2>3 DEF PP!Passed
  <2>5. j + 1 \in DOMAIN wire /\ wire[j + 1] = "hdr"
    BY <1>8, <2>4 DEF PP!WholeRecords
  <2>6. "hdr" \in Range(wire)
    BY <2>5 DEF Range
  <2> QED
    BY <2>2, <2>6 DEF PageHeld, EndsPage
<1>11. PP!Says("SESSION_END")' => EndHeld
  <2>1. PICK n \in Nat : i' = n
    BY <1>7 DEF PP!FrameInv, PP!TypeInv, PP!TypeOK
  <2>2. n <= hi + 1
    BY <1>3, <1>7, <2>1 DEF PP!FrameInv, PP!TypeInv, PP!TypeOK
  <2> QED
    BY <1>7, <1>8, <2>1, <2>2 DEF PP!Contract, EndHeld
<1> QED
  BY <1>0, <1>1, <1>2, <1>3, <1>5, <1>6, <1>9, <1>10, <1>11
  DEF PageInv, ReturnInv, Reading

LEMMA DeliverInductive ==
  ASSUME DeliverInv, [Next]_vars, LargePages, ShortPackets
  PROVE  DeliverInv'
<1>1. SessionInv'
  BY SessionInductive DEF DeliverInv
<1>2. CASE UNCHANGED vars
  <2>1. UNCHANGED <<parser, handle, call, buffer, session, bScanning>>
    BY <1>2 DEF vars
  <2> QED
    BY <2>1, <1>1, IdlePage DEF DeliverInv, PageInv, ReturnInv, call, buffer, session
<1>3. CASE Frontend
  BY <1>1, <1>3, ClearingReturns, ReadReturns DEF Frontend, DeliverInv
<1>4. CASE Work
  BY <1>1, <1>4, HandshakeReturns, ReceivingReturns, ParsingReturns, FeedReturnsPage,
     ReadingNothingReturns, DecodingReturns, ServingReturns DEF Work, DeliverInv
<1> QED
  BY <1>2, <1>3, <1>4 DEF Next

(* The refinement mapping: the phase of every state of a call.             *)
Left == IF Phase = "page" THEN lines - lines_out ELSE 0

PhaseInv ==
  /\ ~open => Phase = "closed"
  /\ open /\ canceled => Phase = "cancelled"
  /\ at # "out" /\ op = "start" => Phase = "starting"
  /\ at = "drain" => Phase = "ending"
  /\ at = "serve" => Phase = "page"
  /\ at = "pump" /\ op = "read" => Phase = "idle"
  /\ open /\ at = "out" /\ ~canceled =>
       Phase = IF dec # "none" /\ ~eof THEN "page" ELSE "idle"

LEMMA PhaseOf == DeliverInv => PhaseInv
<1> SUFFICES ASSUME DeliverInv PROVE PhaseInv
  OBVIOUS
<1>1. CallInv /\ DecoderInv /\ ReturnInv
  BY DEF DeliverInv, SessionInv
<1>2. ~open => Phase = "closed"
  BY DEF Phase
<1>3. open /\ canceled => Phase = "cancelled"
  BY <1>1 DEF Phase, CallInv, DecoderInv
<1>4. at # "out" /\ op = "start" => Phase = "starting"
  BY <1>1 DEF Phase, CallInv
<1>5. at = "drain" => Phase = "ending"
  BY <1>1 DEF Phase, CallInv, DecoderInv, Handshake, After
<1>6. at = "serve" => Phase = "page"
  BY <1>1 DEF Phase, CallInv, DecoderInv, ReturnInv
<1>7. at = "pump" /\ op = "read" => Phase = "idle"
  BY <1>1 DEF Phase, CallInv, DecoderInv, Handshake, After
<1>8. open /\ at = "out" /\ ~canceled =>
        Phase = IF dec # "none" /\ ~eof THEN "page" ELSE "idle"
  BY DEF Phase
<1> QED
  BY <1>2, <1>3, <1>4, <1>5, <1>6, <1>7, <1>8 DEF PhaseInv

LEMMA SamePhase ==
  ASSUME Phase' = Phase, Left' = Left, ret' = ret
  PROVE  UNCHANGED Lifecycle!vars
BY DEF Left, Lifecycle!vars

LEMMA FrontendImplements ==
  ASSUME DeliverInv, DeliverInv', Frontend
  PROVE  Lifecycle!Next \/ UNCHANGED Lifecycle!vars
<1>1. CallInv /\ DecoderInv /\ ReturnInv /\ CallInv' /\ DecoderInv' /\ ReturnInv'
  BY DEF DeliverInv, SessionInv
<1>2. PhaseInv
  BY PhaseOf
<1>3. PhaseInv'
  BY PhaseOf, PTL
<1>4. /\ (Phase # "page" => Left = 0) /\ (Phase' # "page" => Left' = 0)
      /\ (Phase = "page" => Left = lines - lines_out)
      /\ (Phase' = "page" => Left' = lines' - lines_out')
  BY DEF Left
<1>5. CASE OpenSession
  <2>1. ~open /\ open' /\ at' = "out" /\ ret' = "none" /\ ~canceled'
    BY <1>5, <1>1 DEF OpenSession, CallInv, call, session
  <2>2. dec' = "none"
    BY <1>5, <1>1 DEF OpenSession, CallInv, DecoderInv, buffer
  <2>3. Phase = "closed" /\ Phase' = "idle"
    BY <2>1, <2>2, <1>2, <1>3 DEF PhaseInv
  <2>4. Lifecycle!Open
    BY <2>1, <2>3, <1>4 DEF Lifecycle!Open, Left
  <2> QED
    BY <2>4 DEF Lifecycle!Next
<1>6. CASE CloseSession
  <2>1. open /\ ~open' /\ ret' = "none"
    BY <1>6 DEF CloseSession
  <2>2. Phase # "closed" /\ Phase' = "closed"
    BY <2>1, <1>2, <1>3, <1>6 DEF PhaseInv, CloseSession
  <2>3. Lifecycle!Close
    BY <2>1, <2>2, <1>4 DEF Lifecycle!Close, Left
  <2> QED
    BY <2>3 DEF Lifecycle!Next
<1>7. CASE Start
  <2>1. /\ open /\ at = "out" /\ ret \notin {"GOOD", "INVAL"}
        /\ at' # "out" /\ op' = "start" /\ ret' = ret
    BY <1>7 DEF Start
  <2>2. Phase \in {"idle", "cancelled"}
    BY <2>1, <1>1, <1>2 DEF PhaseInv, ReturnInv
  <2>3. Phase' = "starting"
    BY <2>1, <1>3 DEF PhaseInv
  <2>4. Lifecycle!Start
    BY <2>1, <2>2, <2>3, <1>4 DEF Lifecycle!Start, Left
  <2> QED
    BY <2>4 DEF Lifecycle!Next
<1>8. CASE Read
  <2>1. /\ open /\ at = "out" /\ op' = "read" /\ open' = open
        /\ UNCHANGED <<canceled, eof, dec, lines, lines_out>>
        /\ \/ at' = at /\ ret' = IF canceled THEN "CANCELLED" ELSE "EOF"
           \/ ~canceled /\ ~eof /\ at' \in {"pump", "serve"} /\ ret' = ret
    BY <1>8 DEF Read, handle, session, buffer
  <2>2. CASE at' = at
    <3>1. Phase' = Phase
      BY <2>1, <2>2, <1>2, <1>3 DEF PhaseInv
    <3>2. CASE canceled
      <4>1. Phase = "cancelled" /\ ret' = "CANCELLED"
        BY <2>1, <2>2, <3>2, <1>2 DEF PhaseInv
      <4> QED
        BY <3>1, <4>1 DEF Lifecycle!ReadCancelled, Lifecycle!Next
    <3>3. CASE ~canceled
      <4>1. ret' = "EOF" /\ at' = "out"
        BY <2>1, <2>2, <3>3
      <4>2. Phase = "idle"
        <5>1. eof
          BY <1>8, <2>1, <2>2, <3>3 DEF Read
        <5> QED
          BY <5>1, <2>1, <3>3, <1>2 DEF PhaseInv
      <4> QED
        BY <3>1, <4>1, <4>2 DEF Lifecycle!ReadNoPage, Lifecycle!Next
    <3> QED
      BY <3>2, <3>3
  <2>3. CASE at' # at
    <3>1. ~canceled /\ ~eof /\ at' \in {"pump", "serve"} /\ ret' = ret
      BY <2>1, <2>3
    <3>2. at' = "serve" <=> dec # "none"
      BY <2>1, <3>1, <1>1 DEF DecoderInv, ReturnInv, Handshake, After
    <3>3. Phase' = Phase
      BY <2>1, <3>1, <3>2, <1>2, <1>3 DEF PhaseInv
    <3> QED
      BY <2>1, <3>1, <3>3, <1>4, SamePhase
  <2> QED
    BY <2>2, <2>3
<1>9. CASE Cancel
  <2>1. open /\ open' /\ at = "out" /\ at' = "out" /\ ret' = "none"
    BY <1>9 DEF Cancel
  <2>2. CASE bScanning
    <3>1. canceled'
      BY <1>9, <2>2 DEF Cancel, CancelScan
    <3>2. Phase' = "cancelled" /\ Phase \in {"page", "idle", "cancelled"}
      BY <2>1, <3>1, <1>2, <1>3 DEF PhaseInv
    <3>3. Lifecycle!Cancel
      BY <2>1, <3>2, <1>4 DEF Lifecycle!Cancel, Left
    <3> QED
      BY <3>3 DEF Lifecycle!Next
  <2>3. CASE ~bScanning
    <3>1. UNCHANGED <<canceled, eof, dec>> /\ dec = "none"
      BY <1>9, <2>3, <1>1 DEF Cancel, session, buffer, ReturnInv
    <3>2. Phase' = Phase /\ Phase \in {"idle", "cancelled"}
      BY <2>1, <3>1, <1>2, <1>3 DEF PhaseInv
    <3>3. Lifecycle!Cancel
      BY <2>1, <3>2, <1>4 DEF Lifecycle!Cancel, Left
    <3> QED
      BY <3>3 DEF Lifecycle!Next
  <2> QED
    BY <2>2, <2>3
<1> QED
  BY <1>5, <1>6, <1>7, <1>8, <1>9 DEF Frontend

(* The work of a sane_start().                                             *)
LEMMA StartImplements ==
  ASSUME DeliverInv, DeliverInv', Work, op = "start"
  PROVE  Lifecycle!Next \/ UNCHANGED Lifecycle!vars
<1>1. CallInv /\ DecoderInv /\ LinesInv /\ ReturnInv /\ CallInv' /\ DecoderInv' /\ LinesInv' /\ ReturnInv'
  BY DEF DeliverInv, SessionInv
<1>2. PhaseInv
  BY PhaseOf
<1>3. PhaseInv'
  BY PhaseOf, PTL
<1>4. at # "out" /\ at \notin {"drain", "serve"}
  BY <1>1 DEF Work, Exchange, ExchangeFails, Refused, ScanStarted, Receive, Parse, Fed,
     ReadNothing, Decode, DecodeFails, ServeLines, ServeEnd, ServeFails, CallInv,
     Handshake, After, Reading
<1>5. open /\ op' = "start" /\ open' = open /\ canceled' = canceled /\ ~canceled
  BY <1>1, <1>4 DEF Work, Exchange, ExchangeFails, Refused, ScanStarted, Receive, Parse, Fed,
     FedXsc, FedPump, FedDrain, ReadNothing, Decode, DecodeFails, ServeLines, ServeEnd,
     ServeFails, CallInv, Goto, Return, handle, session, call
<1>6. Phase = "starting" /\ Left = 0
  BY <1>2, <1>4 DEF PhaseInv, Left
<1>7. CASE at' # "out"
  <2>1. Phase' = "starting" /\ Left' = 0
    BY <1>3, <1>5, <1>7 DEF PhaseInv, Left
  <2>2. ret' = ret
    BY <1>4, <1>7 DEF Work, Exchange, ExchangeFails, Refused, ScanStarted, Receive, Parse, Fed,
       FedXsc, FedPump, FedDrain, ReadNothing, Decode, DecodeFails, ServeLines, ServeEnd,
       ServeFails, Goto, Return, call
  <2> QED
    BY <1>6, <2>1, <2>2, SamePhase
<1>8. CASE at' = "out"
  <2>1. \/ ret' \in {"EOF", "IO_ERROR", "NO_DOCS", "JAMMED"}
        \/ ret' = "GOOD" /\ lines_out' = 0
    BY <1>4, <1>8, Commands DEF Work, Exchange, ExchangeFails, Refused, ScanStarted, Receive, Parse, Fed,
       FedXsc, FedPump, FedDrain, ReadNothing, Decode, DecodeFails, ServeLines, ServeEnd,
       ServeFails, Goto, Return, call, Handshake, After
  <2>2. CASE ret' = "GOOD" /\ lines_out' = 0
    <3>1. Phase' = "page"
      BY <1>1, <1>3, <1>5, <1>8, <2>2 DEF PhaseInv, ReturnInv
    <3>2. Left' \in Nat
      <4>1. PICK n \in Nat : lines' = n
        BY <1>1 DEF LinesInv
      <4>2. Left' = n - 0
        BY <2>2, <3>1, <4>1 DEF Left
      <4> QED
        BY <4>2
    <3>3. Lifecycle!StartGood
      BY <1>6, <2>2, <3>1, <3>2 DEF Lifecycle!StartGood, Left
    <3> QED
      BY <3>3 DEF Lifecycle!Next
  <2>3. CASE ret' \in {"EOF", "IO_ERROR", "NO_DOCS", "JAMMED"}
    <3>1. Phase' = "idle" /\ Left' = 0
      BY <1>1, <1>3, <1>5, <1>8, <2>3 DEF PhaseInv, ReturnInv, Left
    <3>2. Lifecycle!StartFails
      BY <1>6, <2>3, <3>1 DEF Lifecycle!StartFails, Left
    <3> QED
      BY <3>2 DEF Lifecycle!Next
  <2> QED
    BY <2>1, <2>2, <2>3
<1> QED
  BY <1>7, <1>8

(* The work of a sane_read().                                              *)
LEMMA ReadImplements ==
  ASSUME DeliverInv, DeliverInv', Work, op # "start"
  PROVE  Lifecycle!Next \/ UNCHANGED Lifecycle!vars
<1>1. CallInv /\ DecoderInv /\ LinesInv /\ ReturnInv /\ CallInv' /\ DecoderInv' /\ LinesInv' /\ ReturnInv'
  BY DEF DeliverInv, SessionInv
<1>2. PhaseInv
  BY PhaseOf
<1>3. PhaseInv'
  BY PhaseOf, PTL
<1>4. at # "out"
  BY <1>1 DEF Work, Exchange, ExchangeFails, Refused, ScanStarted, Receive, Parse, Fed,
     ReadNothing, Decode, DecodeFails, ServeLines, ServeEnd, ServeFails, CallInv,
     Handshake, After, Reading
<1>5. at \in {"pump", "drain", "serve"} /\ op = "read" /\ open /\ ~canceled
  BY <1>1, <1>4 DEF CallInv, ReturnInv, Handshake, After, Reading
<1>6. Receive \/ Parse \/ Fed \/ ReadNothing \/ ServeLines \/ ServeEnd \/ ServeFails
  BY <1>5 DEF Work, Exchange, ExchangeFails, Refused, ScanStarted, Decode, DecodeFails,
     Handshake, After
<1>7. op' = "read" /\ open' /\ ~canceled'
  <2>1. op' = op
    BY <1>6 DEF Receive, Parse, Fed, FedXsc, FedPump, FedDrain, ReadNothing,
       ServeLines, ServeEnd, ServeFails, Goto, Return, call
  <2>2. open' = open
    BY <1>6 DEF Receive, Parse, Fed, ReadNothing, ServeLines, ServeEnd, ServeFails, handle
  <2>3. canceled' = canceled
    BY <1>6 DEF Receive, Parse, Fed, ReadNothing, ServeLines, ServeEnd, ServeFails, session
  <2> QED
    BY <2>1, <2>2, <2>3, <1>5
<1>8. CASE ServeLines
  <2>1. at = "serve" /\ at' = "out" /\ dec' = dec /\ eof' = eof /\ lines' = lines
    BY <1>8 DEF ServeLines, Return, session
  <2>2. Phase = "page" /\ Phase' = "page"
    BY <2>1, <1>1, <1>2, <1>3, <1>7 DEF PhaseInv, DecoderInv, ReturnInv
  <2>3. PICK n \in Nat, m \in Nat : lines = n /\ lines_out = m /\ m <= n
    BY <1>1 DEF LinesInv
  <2>4. CASE ret' = "INVAL" /\ lines_out' = lines_out
    <3>1. Lifecycle!Refuse
      BY <2>1, <2>2, <2>4 DEF Lifecycle!Refuse
    <3> QED
      BY <3>1 DEF Lifecycle!Next
  <2>5. CASE ret' = "GOOD" /\ \E k \in 1..(lines - lines_out) : lines_out' = lines_out + k
    <3>1. PICK k \in 1..(n - m) : lines_out' = m + k
      BY <2>3, <2>5
    <3>2. Left = n - m /\ Left' = n - (m + k)
      BY <2>1, <2>2, <2>3, <3>1 DEF Left
    <3>3. Left > 0 /\ Left' \in 0..(Left - 1)
      BY <3>2
    <3>4. Lifecycle!Deliver
      BY <2>2, <2>5, <3>3 DEF Lifecycle!Deliver, Left
    <3> QED
      BY <3>4 DEF Lifecycle!Next
  <2> QED
    BY <1>8, <2>4, <2>5 DEF ServeLines, Return
<1>9. CASE ServeEnd
  <2>1. at = "serve" /\ at' = "drain" /\ ret' = ret /\ lines_out = lines
    BY <1>9 DEF ServeEnd, Goto
  <2>2. Phase = "page" /\ Phase' = "ending"
    BY <2>1, <1>2, <1>3 DEF PhaseInv
  <2>3. Left = 0 /\ Left' = 0
    <3>1. PICK n \in Nat : lines = n
      BY <1>1 DEF LinesInv
    <3> QED
      BY <3>1, <2>1, <2>2 DEF Left
  <2>4. Lifecycle!AllDelivered
    BY <2>1, <2>2, <2>3 DEF Lifecycle!AllDelivered, Left
  <2> QED
    BY <2>4 DEF Lifecycle!Next
<1>10. CASE ServeFails
  <2>1. at = "serve" /\ at' = "out" /\ ret' = "IO_ERROR" /\ dec' = "none"
    BY <1>10 DEF ServeFails, Return, Teardown
  <2>2. Phase = "page" /\ Phase' = "idle" /\ Left' = 0
    BY <2>1, <1>2, <1>3, <1>7 DEF PhaseInv, Left
  <2>3. Lifecycle!Lose
    BY <2>1, <2>2 DEF Lifecycle!Lose, Left
  <2> QED
    BY <2>3 DEF Lifecycle!Next
<1>11. CASE Receive \/ Parse \/ Fed \/ ReadNothing
  <2>1. /\ at \in {"pump", "drain"} /\ dec = "none" /\ dec' = "none"
        /\ \/ at' = at /\ ret' = ret
           \/ at' = "out" /\ ret' \in {"EOF", "IO_ERROR"} /\ (at = "drain" => ret' = "EOF")
    <3>1. at \in {"pump", "drain"}
      BY <1>1, <1>5, <1>11 DEF Receive, Parse, Fed, FedXsc, FedPump, FedDrain, ReadNothing,
         CallInv, Reading
    <3>2. dec = "none" /\ dec' = dec
      BY <3>1, <1>1, <1>11 DEF Receive, Parse, Fed, ReadNothing, DecoderInv, buffer,
         Handshake, After
    <3>3. at = "pump" => ~page_ready
      BY <1>5, <1>1 DEF ReturnInv
    <3> QED
      BY <3>1, <3>2, <3>3, <1>11 DEF Receive, Parse, Fed, FedXsc, FedPump, FedDrain,
         ReadNothing, Goto, Return, call
  <2>2. Phase = IF at = "pump" THEN "idle" ELSE "ending"
    BY <2>1, <1>2, <1>5 DEF PhaseInv
  <2>3. CASE at' = at /\ ret' = ret
    <3>1. Phase' = Phase
      BY <2>1, <2>2, <2>3, <1>3, <1>7 DEF PhaseInv
    <3>2. Left' = Left
      BY <3>1, <2>2 DEF Left
    <3> QED
      BY <3>1, <3>2, <2>3, SamePhase
  <2>4. CASE at' = "out" /\ ret' \in {"EOF", "IO_ERROR"} /\ (at = "drain" => ret' = "EOF")
    <3>1. Phase' = "idle" /\ Left' = 0 /\ Left = 0
      BY <2>1, <2>2, <2>4, <1>3, <1>7 DEF PhaseInv, Left
    <3>2. CASE at = "pump"
      <4>1. Lifecycle!ReadNoPage
        BY <2>2, <2>4, <3>1, <3>2 DEF Lifecycle!ReadNoPage, Left
      <4> QED
        BY <4>1 DEF Lifecycle!Next
    <3>3. CASE at = "drain"
      <4>1. Lifecycle!End
        BY <2>2, <2>4, <3>1, <3>3 DEF Lifecycle!End, Left
      <4> QED
        BY <4>1 DEF Lifecycle!Next
    <3> QED
      BY <3>2, <3>3, <2>1
  <2> QED
    BY <2>1, <2>3, <2>4
<1> QED
  BY <1>6, <1>8, <1>9, <1>10, <1>11

(* The calls give the frontend what the SANE standard promises: a started  *)
(* page is delivered to its last scanline before EOF, and a cancelled one  *)
(* is CANCELLED until the next start. Every step of a session is a step of *)
(* ScanLifecycle or leaves what it sees alone. It needs LargePages:        *)
(* brscan5_pump() loses a page that ends in the read with the session end. *)
THEOREM SessionDelivers ==
  ASSUME LargePages, ShortPackets
  PROVE  Spec => Delivers
<1>1. Init => DeliverInv
  <2> SUFFICES ASSUME Init PROVE DeliverInv
    OBVIOUS
  <2>1. SessionInv
    BY SessionBegins
  <2> QED
    BY <2>1 DEF Init, DeliverInv, PageInv, ReturnInv
<1>2. Init => Lifecycle!Init
  BY DEF Init, Lifecycle!Init, Phase
<1>3. DeliverInv /\ [Next]_vars => DeliverInv'
  BY DeliverInductive
<1>4. DeliverInv /\ DeliverInv' /\ [Next]_vars => [Lifecycle!Next]_(Lifecycle!vars)
  <2> SUFFICES ASSUME DeliverInv, DeliverInv', [Next]_vars
               PROVE  Lifecycle!Next \/ UNCHANGED Lifecycle!vars
    OBVIOUS
  <2>1. CASE UNCHANGED vars
    <3>1. Phase' = Phase /\ Left' = Left /\ ret' = ret
      BY <2>1 DEF vars, handle, call, buffer, session, Phase, Left
    <3> QED
      BY <3>1, SamePhase
  <2> QED
    BY <2>1, FrontendImplements, StartImplements, ReadImplements DEF Next
<1> QED
  BY <1>1, <1>2, <1>3, <1>4, PTL DEF Spec, Delivers, Lifecycle!Spec

-----------------------------------------------------------------------------
(* A start succeeds if the device does its part: it sends a page that is   *)
(* complete, in the order of a scan. All that was taken of the stream is   *)
(* then known to the session, so that the page is ready when nothing is    *)
(* left to read, or when the session ends.                                 *)

GoodDevice == \A w \in GoodStreams : P!Ordered(w) /\ HoldsPage(w)

Rules == LargePages /\ ShortPackets /\ BlocksAligned /\ ~PaddedTails

FairStart == op = "start" /\ fair

Loading == at \in {"xsc", "pump", "decode"}

TakenInv ==
  /\ PP!Passed("d9") => page_ready
  /\ PP!Passed("x01") => s_rle
  /\ PP!Passed("x01") /\ PP!Passed("x21") => page_ready

StartInv ==
  /\ ~fed => pc = "out"
  /\ ~open => op # "start"
  /\ FairStart => state # "ERROR"
  /\ FairStart /\ at \in Handshake => ~stale
  /\ FairStart /\ Loading => wire \in GoodStreams /\ PP!DeframeInv /\ TakenInv
  /\ StartWorks

WorksInv == DeliverInv /\ StartInv

LEMMA SameOrdered ==
  ASSUME NEW w
  PROVE  P!Ordered(w) <=> PP!Ordered(w)
BY DEF P!Ordered, PP!Ordered, P!Follows, PP!Follows, P!Moves, PP!Moves, P!Phases, PP!Phases,
  P!Data, PP!Data, P!RecordIds, PP!RecordIds, P!Ids, PP!Ids

(* All of a good stream was taken: its page is ready.                      *)
LEMMA AllTaken ==
  ASSUME GoodDevice, PP!FrameInv, TakenInv, wire \in GoodStreams, i = Len(wire) + 1
  PROVE  page_ready
<1>1. wire \in Seq(P!Fragments)
  BY SessionAssumption, StreamsAssumption
<1>2. \A k \in DOMAIN wire : k \in 1..(i - 1)
  BY <1>1
<1>3. \A f : f \in Range(wire) => PP!Passed(f)
  BY <1>2 DEF Range, PP!Passed
<1>4. HoldsPage(wire)
  BY DEF GoodDevice
<1> QED
  BY <1>3, <1>4 DEF HoldsPage, TakenInv

(* Steps that leave the parser alone.                                      *)
LEMMA IdleStart ==
  ASSUME WorksInv, UNCHANGED parser
  PROVE  /\ UNCHANGED <<wire, state, pc, i, hi>> /\ PP!FrameInv'
         /\ PP!DeframeInv => PP!DeframeInv'
         /\ UNCHANGED <<page_ready, s_rle>> => (TakenInv => TakenInv')
<1>1. UNCHANGED <<wire, state, pc, i, hi>>
  BY DEF parser
<1>2. UNCHANGED PP!vars
  BY DEF parser, PP!vars, PP!parser, PP!cursor, PP!result
<1>3. PP!DeframeInv => PP!DeframeInv'
  BY <1>2, ParserAssumptions, PP!DeframeStays
<1>4. PP!FrameInv'
  BY Idle DEF WorksInv, DeliverInv, ParserInv
<1> QED
  BY <1>1, <1>3, <1>4 DEF TakenInv, PP!Passed

LEMMA HandshakeStarts ==
  ASSUME WorksInv, Exchange \/ ExchangeFails \/ Refused
  PROVE  StartInv'
<1>1. CallInv /\ StartInv
  BY DEF WorksInv, DeliverInv, SessionInv
<1>2. /\ UNCHANGED <<parser, handle, buffer, session, bScanning>> /\ op' = op /\ fed' = FALSE
      /\ at \in Handshake
  BY Commands DEF Exchange, ExchangeFails, Refused, Goto, Return
<1>3. at' \in Handshake \/ at' = "out"
  BY Commands DEF Exchange, ExchangeFails, Refused, Goto, Return
<1>4. fair' => fair
  BY DEF Exchange, ExchangeFails, Refused, device, NoFault, Fault
<1>5. at' \in Handshake => UNCHANGED device
  BY DEF Exchange, ExchangeFails, Refused, Return, Handshake, After
<1>6. op = "start" /\ fair' => at' \in Handshake \/ ~Linked
  <2>1. CASE Exchange
    BY <2>1, Commands DEF Exchange, Goto
  <2>2. CASE ExchangeFails
    BY <2>2, <1>1, <1>2, <1>4 DEF ExchangeFails, Fault, StartInv, FairStart
  <2>3. CASE Refused
    BY <2>3 DEF Refused
  <2> QED
    BY <2>1, <2>2, <2>3
<1>7. ~fed /\ pc = "out" /\ UNCHANGED <<state, pc>>
  BY <1>1, <1>2, IdleStart DEF CallInv, StartInv, Reading, Handshake, After
<1>8. ~Loading' /\ Linked' = Linked /\ open' = open
  BY <1>2, <1>3 DEF Loading, Linked, handle, Handshake, After
<1>9. StartWorks'
  BY <1>2, <1>6, <1>8, Commands DEF StartWorks, StartedWell
<1> QED
  BY <1>1, <1>2, <1>3, <1>4, <1>5, <1>7, <1>8, <1>9 DEF StartInv, FairStart, device

LEMMA ScanIsOpened == PP!Opened => PP!DeframeInv
BY ParserAssumptions, PP!ScanOpens

LEMMA AcceptedStarts ==
  ASSUME WorksInv, ScanStarted, GoodDevice
  PROVE  StartInv'
<1>1. CallInv /\ StartInv /\ PP!FrameInv
  BY DEF WorksInv, DeliverInv, SessionInv
<1>2. at' = "xsc" /\ fed' = FALSE /\ op' = op /\ UNCHANGED <<handle, buffer>>
  BY DEF ScanStarted, Goto
<1>3. PICK w \in Streams : P!Arm(w) /\ fair' = (fair /\ w \in GoodStreams)
  BY DEF ScanStarted
<1>4. /\ wire' = w /\ i' = 1 /\ hi' = 0 /\ pc' = "out" /\ state' = "ARMED" /\ ~rle_mode' /\ ~rle_pend'
      /\ ~pending_ff' /\ accum' = <<>> /\ log' = <<>>
  BY <1>3 DEF P!Arm, P!Clear
<1>5. fair' => wire' \in GoodStreams /\ PP!DeframeInv'
  <2>1. SUFFICES ASSUME fair' PROVE wire' \in GoodStreams /\ PP!DeframeInv'
    OBVIOUS
  <2>2. wire' \in GoodStreams
    BY <1>3, <1>4, <2>1
  <2>3. PP!Ordered(w)
    BY <1>4, <2>2, SameOrdered DEF GoodDevice
  <2>4. PP!Ordered(wire)'
    BY <1>4, <2>3
  <2>5. PP!Opened'
    BY <1>4, <2>4 DEF PP!Opened
  <2>6. PP!DeframeInv'
    BY <2>5, ScanIsOpened, PTL
  <2> QED
    BY <2>2, <2>6
<1>6. TakenInv'
  BY <1>4 DEF TakenInv, PP!Passed
<1>7. StartedWell'
  BY <1>2 DEF StartedWell
<1>8. open
  BY <1>1 DEF CallInv, ScanStarted
<1> QED
  BY <1>2, <1>4, <1>5, <1>6, <1>7, <1>8 DEF StartInv, FairStart, StartWorks, handle, Handshake, After

LEMMA ReceivedStarts ==
  ASSUME WorksInv, Receive, Rules
  PROVE  StartInv'
<1>1. CallInv /\ StartInv /\ PP!FrameInv
  BY DEF WorksInv, DeliverInv, SessionInv
<1>2. at \in Reading /\ fed' = TRUE /\ UNCHANGED <<handle, at, op, ret, buffer, session, device>>
  BY DEF Receive
<1>3. PICK h \in (hi + 1)..Len(wire) : P!Feed(h)
  BY DEF Receive
<1>4. PP!FrameInv' /\ UNCHANGED <<wire, state>> /\ i' = i
  BY <1>1, <1>3, ParserFeed
<1>5. PP!DeframeInv => PP!DeframeInv'
  <2>1. PP!FeedNext
    BY <1>3, SameFeed DEF PP!FeedNext
  <2>2. PP!TypeInv /\ PP!TypeInv'
    BY <1>1, <1>4 DEF PP!FrameInv
  <2> QED
    BY <2>1, <2>2, ParserAssumptions, PP!FeedDeframes DEF Rules
<1>6. TakenInv => TakenInv'
  BY <1>2, <1>4 DEF TakenInv, PP!Passed, buffer
<1> QED
  BY <1>1, <1>2, <1>4, <1>5, <1>6
  DEF StartInv, FairStart, Loading, StartWorks, StartedWell, CallInv, handle, device, Reading

LEMMA ParsedStarts ==
  ASSUME WorksInv, Parse
  PROVE  StartInv'
<1>1. CallInv /\ StartInv /\ PP!FrameInv /\ SessionInv
  BY DEF WorksInv, DeliverInv, SessionInv
<1>2. /\ fed /\ fed' = fed /\ at' = at /\ op' = op /\ fair' = fair /\ OnEvents /\ P!Step
      /\ UNCHANGED <<handle, stale>>
  BY DEF Parse, call, device
<1>3. at \in Reading
  BY <1>1, <1>2 DEF CallInv
<1>4. PP!Step /\ PP!Contract /\ PP!FrameInv' /\ wire' = wire
  BY <1>1, <1>2, SameStep, ParserStep DEF PP!Contract
<1>5. PP!TypeInv /\ PP!TypeInv' /\ PP!TypeOK'
  BY <1>1, <1>4 DEF PP!FrameInv, PP!TypeInv
<1>6. /\ s_rle' = (s_rle \/ PP!Says("BLOCK")' \/ PP!Says("RLE_DATA")')
      /\ page_ready' = (page_ready \/ PP!Says("JPEG_EOI")' \/ (PP!Says("PAGE_END")' /\ s_rle))
  <2>1. \A e : e \in Range(ev') <=> PP!Says(e)'
    BY <1>4, Said
  <2> QED
    BY <1>2, <2>1 DEF OnEvents
<1>7. ASSUME FairStart
      PROVE  wire \in GoodStreams /\ PP!DeframeInv /\ TakenInv /\ state # "ERROR"
  BY <1>1, <1>3, <1>7 DEF StartInv, CallInv, Reading, Loading, FairStart
<1>8. ASSUME FairStart
      PROVE  PP!DeframeInv' /\ TakenInv' /\ state' # "ERROR"
  <2>1. PP!DeframeInv' /\ state' # "ERROR"
    BY <1>4, <1>5, <1>7, <1>8, ParserAssumptions, PP!StepDeframes, PP!NeverFails
  <2>2. \A k \in i..(i' - 1) :
          /\ wire[k] = "d9" => PP!Says("JPEG_EOI")'
          /\ wire[k] = "x01" => PP!Says("BLOCK")'
          /\ wire[k] = "x21" => PP!Says("PAGE_END")' /\ \A j \in i..(i' - 1) : wire[j] # "x01"
    BY <1>4, <1>5, <1>7, <1>8, ParserAssumptions, PP!TokenTaken
  <2>3. PICK n \in Nat : i' = n
    BY <1>5 DEF PP!TypeInv, PP!TypeOK
  <2>4. i \in Nat /\ 1 <= i /\ n <= Len(wire) + 1 /\ DOMAIN wire = 1..Len(wire) /\ Len(wire) \in Nat
    <3>1. n \in 1..(Len(wire) + 1)
      <4>1. /\ lo' \in 1..(Len(wire') + 1) /\ hi' \in 0..Len(wire') /\ i' \in lo'..(hi' + 1)
        BY <1>5 DEF PP!TypeOK
      <4>2. PICK l \in Nat : l = Len(wire)
        BY <1>1, Placed
      <4>3. lo' \in 1..(l + 1) /\ hi' \in 0..l /\ n \in lo'..(hi' + 1)
        BY <1>4, <2>3, <4>1, <4>2
      <4>4. PICK m \in 1..(l + 1) : m = lo'
        BY <4>3
      <4>5. PICK h \in 0..l : h = hi'
        BY <4>3
      <4>6. n \in m..(h + 1)
        BY <4>3, <4>4, <4>5
      <4>7. n \in 1..(l + 1)
        BY <4>6
      <4> QED
        BY <4>2, <4>7
    <3> QED
      BY <1>1, <3>1, Placed
  <2>5. \A k \in 1..(n - 1) : k \in 1..(i - 1) \/ k \in i..(i' - 1)
    BY <2>3, <2>4
  <2>6. PP!Passed("d9")' => page_ready'
    BY <1>4, <1>6, <1>7, <1>8, <2>2, <2>3, <2>5 DEF PP!Passed, TakenInv
  <2>7. PP!Passed("x01")' => s_rle'
    BY <1>4, <1>6, <1>7, <1>8, <2>2, <2>3, <2>5 DEF PP!Passed, TakenInv
  <2>8. ASSUME PP!Passed("x01")', PP!Passed("x21")' PROVE page_ready'
    <3>1. PICK k \in 1..(n - 1) : wire[k] = "x21"
      BY <1>4, <2>3, <2>8 DEF PP!Passed
    <3>2. PICK j \in 1..(n - 1) : wire[j] = "x01"
      BY <1>4, <2>3, <2>8 DEF PP!Passed
    <3>3. j < k
      BY <1>1, <2>4, <3>1, <3>2, WireIsSound DEF PP!OnePage
    <3>4. CASE k \in 1..(i - 1)
      <4>1. PP!Passed("x21") /\ PP!Passed("x01")
        BY <2>4, <3>1, <3>2, <3>3, <3>4 DEF PP!Passed
      <4> QED
        BY <4>1, <1>6, <1>7, <1>8 DEF TakenInv
    <3>5. CASE k \in i..(i' - 1)
      <4>1. PP!Says("PAGE_END")' /\ j \notin i..(i' - 1)
        BY <2>2, <3>1, <3>2, <3>5
      <4>2. PP!Passed("x01")
        BY <2>5, <3>2, <4>1 DEF PP!Passed
      <4> QED
        BY <1>6, <1>7, <1>8, <4>1, <4>2 DEF TakenInv
    <3> QED
      BY <2>5, <3>4, <3>5
  <2> QED
    BY <2>1, <2>6, <2>7, <2>8 DEF TakenInv
<1> QED
  BY <1>1, <1>2, <1>3, <1>4, <1>7, <1>8
  DEF StartInv, FairStart, Loading, StartWorks, StartedWell, handle, Reading, Handshake, After

(* br5_parser_feed() has taken all it was given.                           *)
LEMMA ChunkTaken ==
  ASSUME WorksInv, FairStart, Loading, pc = "out", hi = Len(wire), GoodDevice
  PROVE  page_ready
<1>1. PP!FrameInv /\ StartInv
  BY DEF WorksInv, DeliverInv, SessionInv
<1>2. i = hi + 1
  BY <1>1 DEF PP!FrameInv, PP!CursorInv, StartInv
<1> QED
  BY <1>1, <1>2, AllTaken DEF StartInv

LEMMA FedStarts ==
  ASSUME WorksInv, Fed, GoodDevice
  PROVE  StartInv'
<1>1. CallInv /\ StartInv /\ PP!FrameInv /\ PageInv
  BY DEF WorksInv, DeliverInv, SessionInv
<1>2. /\ UNCHANGED <<parser, handle, buffer, session, device>> /\ op' = op /\ fed' = FALSE
      /\ at \in Reading /\ fed /\ pc = "out"
  BY DEF Fed, FedXsc, FedPump, FedDrain, Goto, Return, Reading
<1>3. UNCHANGED <<page_ready, s_rle, n_errors, fair, open, stale, Linked>>
  BY <1>2 DEF buffer, session, device, handle, Linked
<1>4. CASE op = "start" /\ fair
  <2>1. FairStart /\ Loading /\ at \in {"xsc", "pump"} /\ state # "ERROR"
    BY <1>1, <1>2, <1>4 DEF FairStart, Loading, StartInv, CallInv, Reading
  <2>2. eof /\ ~n_errors => page_ready
    <3>1. SUFFICES ASSUME eof, ~n_errors PROVE page_ready
      OBVIOUS
    <3>2. EndHeld
      BY <1>1, <1>2, <2>1, <3>1 DEF PageInv
    <3>3. PICK k \in lo..hi : wire[k] = "x20"
      BY <3>2 DEF EndHeld
    <3>4. hi = Len(wire)
      BY <1>1, <3>3, WireIsSound, Placed DEF PP!EndsOnce
    <3> QED
      BY <1>2, <2>1, <3>4, ChunkTaken
  <2>3. at' \in {"pump", "decode"} \/ (at' = "out" /\ n_errors)
    BY <2>1, <2>2 DEF Fed, FedXsc, FedPump, FedDrain, Goto, Return
  <2>4. PP!DeframeInv' /\ TakenInv' /\ wire' \in GoodStreams /\ UNCHANGED <<state, pc>>
    BY <1>1, <1>2, <1>3, <2>1, IdleStart DEF StartInv
  <2> QED
    BY <1>1, <1>2, <1>3, <2>1, <2>3, <2>4
    DEF StartInv, FairStart, StartWorks, StartedWell, Handshake, After
<1>5. CASE ~(op = "start" /\ fair)
  BY <1>1, <1>2, <1>3, <1>5, IdleStart DEF StartInv, FairStart, StartWorks, StartedWell
<1> QED
  BY <1>4, <1>5

LEMMA NothingReadStarts ==
  ASSUME WorksInv, ReadNothing, GoodDevice
  PROVE  StartInv'
<1>1. CallInv /\ StartInv /\ PP!FrameInv /\ PageInv
  BY DEF WorksInv, DeliverInv, SessionInv
<1>2. /\ UNCHANGED <<parser, handle, buffer, n_errors>> /\ op' = op /\ fed' = FALSE
      /\ at \in {"pump", "drain"} /\ ~fed /\ pc = "out"
  BY <1>1 DEF ReadNothing, Goto, Return, StartInv
<1>3. UNCHANGED <<open, Linked, state, pc>>
  BY <1>2, IdleStart DEF handle, Linked
<1>4. ASSUME op = "start", fair' PROVE ~Linked /\ fair
  <2>1. fair /\ (~Unread \/ ~Linked)
    BY <1>4 DEF ReadNothing, device, Fault
  <2>2. at = "pump" /\ Loading /\ FairStart
    BY <1>1, <1>2, <1>4, <2>1 DEF CallInv, Loading, FairStart
  <2>3. ~page_ready
    BY <1>1, <1>2, <2>2 DEF PageInv
  <2>4. hi # Len(wire)
    BY <1>2, <2>2, <2>3, ChunkTaken
  <2>5. Unread
    BY <1>1, <2>4, Placed DEF Unread
  <2> QED
    BY <2>1, <2>5
<1>5. op = "start" /\ fair => at = "pump" /\ Loading /\ FairStart
  BY <1>1, <1>2 DEF CallInv, Loading, FairStart
<1>6. at' \in {"out", "decode", "pump"}
  BY DEF ReadNothing, Goto, Return
<1>7. TakenInv => TakenInv'
  BY <1>2, IdleStart DEF buffer
<1>8. StartWorks'
  BY <1>2, <1>3, <1>4 DEF StartWorks, StartedWell
<1> QED
  BY <1>1, <1>2, <1>3, <1>4, <1>5, <1>6, <1>7, <1>8, IdleStart
  DEF StartInv, FairStart, Handshake, After

LEMMA DecodedStarts ==
  ASSUME WorksInv, Decode \/ DecodeFails
  PROVE  StartInv'
<1>1. CallInv /\ StartInv
  BY DEF WorksInv, DeliverInv, SessionInv
<1>2. /\ UNCHANGED <<parser, handle>> /\ op' = op /\ fed' = FALSE /\ at = "decode"
      /\ at' \in {"out", "serve"} /\ (fair' => fair)
      /\ op = "start" /\ fair' => ret' = "GOOD"
  BY DEF Decode, DecodeFails, Goto, Return, device, Fault
<1>3. UNCHANGED <<open, state, pc>>
  BY <1>2, IdleStart DEF handle
<1>4. ~fed /\ pc = "out"
  BY <1>1, <1>2 DEF CallInv, StartInv, Reading
<1> QED
  BY <1>1, <1>2, <1>3, <1>4
  DEF StartInv, FairStart, Loading, StartWorks, StartedWell, Handshake, After

(* The steps of other calls, and the calls themselves.                     *)
LEMMA ServedStarts ==
  ASSUME WorksInv, ServeLines \/ ServeEnd \/ ServeFails
  PROVE  StartInv'
<1>1. CallInv /\ StartInv
  BY DEF WorksInv, DeliverInv, SessionInv
<1>2. UNCHANGED <<parser, handle>> /\ op' = op /\ fed' = FALSE /\ at = "serve"
  BY DEF ServeLines, ServeEnd, ServeFails, Goto, Return
<1>3. op = "read" /\ ~fed /\ pc = "out" /\ UNCHANGED <<open, pc>>
  BY <1>1, <1>2, IdleStart DEF CallInv, StartInv, Reading, handle
<1> QED
  BY <1>2, <1>3 DEF StartInv, FairStart, StartWorks, StartedWell

LEMMA FrontendStarts ==
  ASSUME WorksInv, Frontend
  PROVE  StartInv'
<1>1. CallInv /\ StartInv
  BY DEF WorksInv, DeliverInv, SessionInv
<1>2. P!Reset => pc' = "out" /\ state' = "IDLE"
  BY DEF P!Reset, P!Clear
<1>3. CASE OpenSession
  <2>1. op # "start" /\ op' = op
    BY <1>1, <1>3 DEF OpenSession, StartInv, call
  <2> QED
    BY <1>2, <1>3, <2>1 DEF OpenSession, StartInv, FairStart, StartWorks, StartedWell
<1>4. CASE CloseSession
  BY <1>2, <1>4 DEF CloseSession, StartInv, FairStart, StartWorks, StartedWell
<1>5. CASE Start
  BY <1>2, <1>5 DEF Start, StartInv, FairStart, Loading, StartWorks, StartedWell, handle
<1>6. CASE Read
  <2>1. op' = "read" /\ UNCHANGED pc /\ fed' = FALSE /\ at = "out"
    BY <1>6, IdleStart DEF Read
  <2>2. pc = "out"
    BY <1>1, <2>1 DEF CallInv, StartInv, Reading
  <2> QED
    BY <2>1, <2>2 DEF StartInv, FairStart, StartWorks, StartedWell
<1>7. CASE Cancel
  <2>1. op' = "cancel" /\ at = "out" /\ fed' = fed
    BY <1>7 DEF Cancel
  <2>2. pc = "out"
    BY <1>1, <2>1 DEF CallInv, StartInv, Reading
  <2>3. pc' = "out"
    <3>1. CASE bScanning
      BY <1>2, <1>7, <3>1 DEF Cancel, CancelScan
    <3>2. CASE ~bScanning
      BY <1>7, <2>2, <3>2, IdleStart DEF Cancel
    <3> QED
      BY <3>1, <3>2
  <2> QED
    BY <2>1, <2>3 DEF StartInv, FairStart, StartWorks, StartedWell
<1> QED
  BY <1>3, <1>4, <1>5, <1>6, <1>7 DEF Frontend

LEMMA WorksInductive ==
  ASSUME GoodDevice, Rules, WorksInv, [Next]_vars
  PROVE  WorksInv'
<1>1. DeliverInv'
  BY DeliverInductive DEF WorksInv, Rules
<1>2. CASE UNCHANGED vars
  <2>1. /\ UNCHANGED <<parser, handle, call, buffer, session, device>>
        /\ UNCHANGED <<at, fed, op, ret, open, stale, fair, page_ready, s_rle, n_errors, Linked>>
    BY <1>2 DEF vars, handle, call, buffer, session, device, Linked
  <2>2. StartInv
    BY DEF WorksInv
  <2>3. StartWorks'
    BY <2>1, <2>2, IdleStart DEF StartInv, StartWorks, StartedWell
  <2>4. StartInv'
    BY <2>1, <2>2, <2>3, IdleStart DEF StartInv, FairStart, Loading
  <2> QED
    BY <1>1, <2>4 DEF WorksInv
<1>3. CASE Frontend
  BY <1>1, <1>3, FrontendStarts DEF WorksInv
<1>4. CASE Work
  BY <1>1, <1>4, HandshakeStarts, AcceptedStarts, ReceivedStarts, ParsedStarts, FedStarts,
     NothingReadStarts, DecodedStarts, ServedStarts DEF Work, WorksInv
<1> QED
  BY <1>2, <1>3, <1>4 DEF Next

(* A sane_start() of a linked session succeeds whenever the device does its *)
(* part and no fault has left data of an earlier scan: whatever pages,     *)
(* cancels and refused starts came before, and however the stream is cut   *)
(* into reads. It needs the rules of the device: of a page whose end is in *)
(* the read with the XSC response nothing is read any more.                *)
THEOREM StartsWork ==
  ASSUME GoodDevice, Rules
  PROVE  Spec => []StartWorks
<1>1. Init => WorksInv
  <2> SUFFICES ASSUME Init PROVE WorksInv
    OBVIOUS
  <2>1. SessionInv
    BY SessionBegins
  <2>2. DeliverInv
    BY <2>1 DEF Init, DeliverInv, PageInv, ReturnInv
  <2>3. StartInv
    BY DEF Init, P!Init, StartInv, FairStart, StartWorks, StartedWell
  <2> QED
    BY <2>2, <2>3 DEF WorksInv
<1>2. WorksInv /\ [Next]_vars => WorksInv'
  BY WorksInductive
<1>3. WorksInv => StartWorks
  BY DEF WorksInv, StartInv
<1> QED
  BY <1>1, <1>2, <1>3, PTL DEF Spec
=============================================================================
