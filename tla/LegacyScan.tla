------------------------------ MODULE LegacyScan ------------------------------
(***************************************************************************)
(* The legacy engine (libsane-brother/brother_scanner.c): ScanStart(),     *)
(* PageScan() and the cancel, as sane_start(), sane_read() and             *)
(* sane_cancel() call them. A PageScan() reads until it has three lines,   *)
(* decodes what fits into the transmission buffer and hands that out in    *)
(* the pieces the frontend asks for; the end of a page is its status byte, *)
(* or, without one, what the code calls the fallback.                      *)
(*                                                                         *)
(* Bytes are 0..Base-1: 0 for the header of a white line, the members of   *)
(* DOMAIN Answer for the bytes above 0x7F, the rest for other headers. A   *)
(* line of a scan is known by the place where it ends in the stream; a     *)
(* byte of the image is the line it belongs to, 0 where the code writes no *)
(* line. The decoder gives a line for a line (for three, in colour).       *)
(***************************************************************************)
EXTENDS Integers, Sequences, SequencesExt

CONSTANTS
  Base,
  Answer,      (* GetStatusCode(): what each status byte means             *)
  Boundary,    (* the status bytes of brscan4_is_boundary_status()         *)
  Components,  (* the headers of the three parts of a colour line          *)
  Scans,       (* the scans: the kind of device, the width, the pages      *)
  MaxLens,     (* the lengths a frontend asks for                          *)
  Height,      (* ScanAreaSize.lHeight, in lines                           *)
  InBuffSize, WordSize,       (* gwInBuffSize, the values of a WORD        *)
  MaxScans, MaxFaults         (* bounds                                    *)

ASSUME SizesAssumption ==
  /\ {Base, Height, WordSize} \subseteq Nat \ {0} /\ {InBuffSize, MaxScans, MaxFaults} \subseteq Nat
  /\ DOMAIN Answer \subseteq 0..(Base - 1) /\ Boundary \subseteq DOMAIN Answer
  /\ Range(Answer) \subseteq {"eof", "mps", "cancel", "nodoc", "docjam", "cover_open", "service_err"}
  /\ Components \in [1..3 -> 0..(Base - 1)] /\ Range(Components) \cap DOMAIN Answer = {}
ASSUME ScansAssumption ==
  /\ \A s \in Scans :
       /\ {s.convert, s.colour, s.adf} \subseteq BOOLEAN /\ s.width \in Nat \ {0}
       /\ s.pages \in Seq(Seq(0..(Base - 1))) /\ s.pages # <<>>
  /\ MaxLens \subseteq Nat \ {0}

VARIABLES
  scan, page,    (* the scan and which of its pages the device sends       *)
  sent,          (* how much of the page it has sent                       *)
  done,          (* how much of that was decoded                           *)
  kept,          (* dwRxTempBuffLength                                     *)
  fw,            (* lpFwTempBuff up to FwTempBuffLength                    *)
  lRealY,
  nPageCnt, bScanning, bReadbufEnd, bEOF, iProcessEnd,  (* scanState       *)
  pc, maxlen, nAnswer,        (* the running PageScan()                    *)
  rc,            (* what the last call has returned                        *)
  out,           (* what the frontend has of the page                      *)
  ended,         (* what has ended the page                                *)
  scans, faults

device == <<scan, page, sent>>
state  == <<nPageCnt, bScanning, bReadbufEnd, bEOF, iProcessEnd>>
call   == <<pc, maxlen, nAnswer>>
vars   == <<device, done, kept, fw, lRealY, state, call, rc, out, ended, scans, faults>>

Least(a, b) == IF a <= b THEN a ELSE b
Most(a, b)  == IF a >= b THEN a ELSE b
Times(n, x) == [i \in 1..n |-> x]

-----------------------------------------------------------------------------
(* Sizes.                                                                  *)

wire     == scan.pages[page]
wData    == sent - done
OutWidth == IF scan.colour THEN 3 * scan.width ELSE scan.width
LineRoom == IF scan.colour THEN 3 * (scan.width + 3) ELSE scan.width + 3

nMinReadSize        == 3 * LineRoom
dwRxBuffMaxSize     == Most(4 * LineRoom, InBuffSize)
dwFwTempBuffMaxSize == Most(12 * OutWidth, InBuffSize)
nFwTempBuffMaxLine ==
  ((dwFwTempBuffMaxSize \div 2 - Len(fw)) \div OutWidth) * (IF scan.colour THEN 3 ELSE 1)

-----------------------------------------------------------------------------
(* Lines in the receive buffer.                                            *)

IsStatus(b) == b \in DOMAIN Answer
Length(k)   == wire[k] + Base * wire[k + 1]

(* the length of the line or record at k, 0 if it goes beyond e            *)
FrameLength(k, e) ==
  LET data == k + 3 + Length(k + 1)
      last == data + 1 + Length(data)
  IN  IF k + 2 > e \/ data + 1 > e \/ last > e THEN 0 ELSE last - k + 1

LineLength(k, e) ==
  CASE scan.convert  -> FrameLength(k, e)
    [] ~scan.convert /\ wire[k] = 0 -> 1
    [] OTHER         -> IF k + 2 > e \/ k + 2 + Length(k + 1) > e THEN 0 ELSE 3 + Length(k + 1)

(* StatusChk(): it takes the length of a line with its bytes swapped, and  *)
(* a white line does not count: it may read behind what was received,      *)
(* where any byte may be.                                                  *)
StatusChk ==
  LET Chk[at \in [pt : 1..(Len(wire) + 1), left : Int]] ==
        LET len == 3 + Base * wire[at.pt + 1] + wire[at.pt + 2]
        IN  IF at.left <= 0 THEN {FALSE}
            ELSE IF at.pt > sent' THEN BOOLEAN
            ELSE IF IsStatus(wire[at.pt]) THEN {TRUE}
            ELSE IF wire[at.pt] = 0 THEN Chk[[at EXCEPT !.pt = @ + 1]]
            ELSE IF at.left < 3 THEN {FALSE}
            ELSE IF at.pt + 2 > sent' THEN BOOLEAN
            ELSE IF at.left < len THEN {FALSE}
            ELSE IF at.pt + len > sent' + 1 THEN BOOLEAN
            ELSE Chk[[pt |-> at.pt + len, left |-> at.left - len]]
  IN  Chk[[pt |-> done + 1, left |-> sent' - done]]

StatusAtFrameBoundary ==
  LET From[k \in 1..(Len(wire) + 1)] ==
        /\ k <= sent'
        /\ \/ wire[k] \in Boundary
           \/ FrameLength(k, sent') # 0 /\ From[k + FrameLength(k, sent')]
  IN  {From[done + 1]}

StatusSeen == IF scan.convert THEN StatusAtFrameBoundary ELSE StatusChk

-----------------------------------------------------------------------------
(* PageScan(): the reads.                                                  *)

(* Variant for the mutation check: only the kept bytes are in the buffer.  *)
KeptReadSize == dwRxBuffMaxSize - kept

nReadSize == dwRxBuffMaxSize - (kept + wData)

(* the bytes that a read may bring: one record, or what the WORD size of   *)
(* ReadNonFixedData() lets through                                         *)
Brought ==
  IF scan.convert
  THEN LET n == IF sent = Len(wire) THEN 0
                ELSE IF wire[sent + 1] \in Boundary THEN 1 ELSE FrameLength(sent + 1, Len(wire))
       IN  IF n = 0 \/ n > nReadSize THEN {} ELSE {n}
  ELSE 1..Least(nReadSize % WordSize, Len(wire) - sent)

Read ==
  /\ pc = "read"
  /\ \E n \in Brought : sent' = sent + n
  /\ \E seen \in StatusSeen :
       /\ bReadbufEnd' = seen
       /\ pc' = IF seen \/ sent' - done >= nMinReadSize THEN "process" ELSE "read"
  /\ UNCHANGED <<scan, page, done, kept, fw, lRealY, nPageCnt, bScanning, bEOF, iProcessEnd,
                 maxlen, nAnswer, rc, out, ended, scans, faults>>

(* Variant for the mutation check: silence is no end, the loop reads on.   *)
WaitingReadNothing == pc = "read" /\ Brought = {} /\ UNCHANGED vars

(* The device is silent, or a read fails.                                  *)
ReadNothing ==
  /\ pc = "read"
  /\ \/ Brought = {} /\ UNCHANGED faults
     \/ Brought # {} /\ faults < MaxFaults /\ faults' = faults + 1
  /\ bReadbufEnd' = TRUE /\ pc' = "process"
  /\ UNCHANGED <<device, done, kept, fw, lRealY, nPageCnt, bScanning, bEOF, iProcessEnd,
                 maxlen, nAnswer, rc, out, ended, scans>>

-----------------------------------------------------------------------------
(* PageScan(): what was received is split into lines and decoded.          *)

(* where the lines end that the transmission buffer has room for, and how  *)
(* many they are                                                           *)
Batch == [end : 0..sent, n : Nat]

Split ==
  LET From[b \in Batch] ==
        LET k    == b.end + 1
            line == [end |-> b.end + LineLength(k, sent), n |-> b.n + 1]
        IN  IF b.n >= nFwTempBuffMaxLine \/ b.end = sent THEN b
            ELSE IF scan.convert /\ wire[k] \in Boundary THEN [end |-> k, n |-> b.n + 1]
            ELSE IF ~scan.convert /\ IsStatus(wire[k]) THEN From[[end |-> k, n |-> b.n + 3]]
            ELSE IF LineLength(k, sent) = 0 THEN b
            ELSE From[line]
  IN  From[[end |-> done, n |-> 0]]

(* What the decoding of a batch has done: the headers it has seen, where   *)
(* it is, the bytes it has written, how many of them it counts, the lines  *)
(* it counts.                                                              *)
Decoding ==
  [headers : Nat, at : Nat \ {0}, region : Seq(Nat), count : Nat, lines : Nat,
   answer : {"good"} \cup Range(Answer)]
Start ==
  [headers |-> 0, at |-> done + 1, region |-> <<>>, count |-> 0, lines |-> 0, answer |-> "good"]

Stop(d) == [d EXCEPT !.answer = Answer[wire[d.at]], !.at = @ + 1]

(* a line of white, and n bytes that end at e                              *)
White(d) ==
  [d EXCEPT !.headers = @ + 1, !.at = @ + 1, !.region = @ \o Times(OutWidth, 0), !.lines = @ + 1]
Written(d, n, e) ==
  [d EXCEPT !.headers = @ + 1, !.at = e + 1, !.region = @ \o Times(n, e), !.count = @ + n,
            !.lines = @ + (IF n = 0 THEN 0 ELSE 1)]

(* Variant for the mutation check: lines of one or two parts.              *)
AllLines(n) == n

(* In colour, only whole lines are decoded.                                *)
WholeLines(n) == IF scan.colour THEN (n \div 3) * 3 ELSE n

(* ProcessMain() on n lines                                                *)
ProcessMain(n) ==
  LET Image(d) ==
        Written(d, IF scan.colour /\ (d.headers + 1) % 3 # 0 THEN 0 ELSE OutWidth,
                   d.at + LineLength(d.at, sent) - 1)
      From[d \in Decoding] ==
        IF d.headers >= WholeLines(n) \/ d.at > sent THEN d
        ELSE IF IsStatus(wire[d.at]) THEN Stop(d)
        ELSE IF ~scan.convert /\ wire[d.at] = 0 THEN From[White(d)]
        ELSE From[Image(d)]
  IN  From[Start]

(* brscan4_process_color_direct() on what ends at e                        *)
ColorDirect(e) ==
  LET max_lines == (dwFwTempBuffMaxSize - Len(fw)) \div OutWidth
      Pixels(k) == Length(k + 3 + Length(k + 1))
      Part(i) ==    (* behind the i-th part if it is at k, or 0             *)
        [k \in 0..(e + 1) |->
           IF k \in 1..e /\ wire[k] = Components[i] /\ FrameLength(k, e) # 0 /\ Pixels(k) >= scan.width
           THEN k + FrameLength(k, e)
           ELSE 0]
      Behind(k) == Part(3)[Part(2)[Part(1)[k]]]
      From[d \in Decoding] ==
        IF d.at > e \/ d.lines >= max_lines THEN d
        ELSE IF wire[d.at] \in Boundary THEN Stop(d)
        ELSE IF Behind(d.at) = 0 THEN d
        ELSE From[Written(d, OutWidth, Behind(d.at) - 1)]
  IN  From[Start]

Decoded == IF scan.convert /\ scan.colour THEN ColorDirect(Split.end) ELSE ProcessMain(Split.n)

(* The answer where no status was decoded: all lines are there, or the     *)
(* reads have ended.                                                       *)
Fallback(answer, lines) ==
  CASE answer = "good" /\ lines > 0 /\ (lines >= Height \/ bReadbufEnd) -> "eof"
    [] answer = "good" /\ lines = 0 /\ bReadbufEnd                      -> "service_err"
    [] OTHER                                                            -> answer

Process ==
  /\ pc = "process" /\ wData > 0
  /\ \E d \in {Decoded} :
     LET answer == Fallback(d.answer, lRealY + d.lines)
         ends == answer \in {"eof", "mps"}
     IN  /\ done' = d.at - 1 /\ kept' = sent - done'
         /\ fw' = fw \o SubSeq(d.region, 1, d.count)
         /\ lRealY' = lRealY + d.lines
         /\ nAnswer' = answer
         /\ bReadbufEnd' = (bReadbufEnd \/ (answer = "eof" /\ d.answer = "good"))
         /\ iProcessEnd' = IF ends THEN answer ELSE iProcessEnd
         /\ ended' = IF ~ends THEN ended
                     ELSE IF d.answer = "good" THEN "fallback" ELSE "status"
  /\ pc' = "deliver"
  /\ UNCHANGED <<device, nPageCnt, bScanning, bEOF, maxlen, rc, out, scans, faults>>

(* Nothing was received.                                                   *)
ProcessNothing ==
  /\ pc = "process" /\ wData = 0
  /\ IF fw = <<>> THEN nAnswer' = "eof" /\ ended' = "silence" ELSE UNCHANGED <<nAnswer, ended>>
  /\ pc' = "deliver"
  /\ UNCHANGED <<device, done, kept, fw, lRealY, state, maxlen, rc, out, scans, faults>>

-----------------------------------------------------------------------------
(* PageScan(): what it hands out.                                          *)

Errors == [nodoc |-> "no_docs", docjam |-> "jammed", cover_open |-> "cover_open",
           service_err |-> "io_error"]

(* the lines of white that fit behind n bytes of image                     *)
WhiteLines(n) ==
  IF (Height - lRealY) * OutWidth < maxlen - n
  THEN Height - lRealY
  ELSE (maxlen - n) \div OutWidth

(* Variant for the mutation check: the last data and EOF in one call.      *)
HastyPageEnd(n) ==
  IF nAnswer = "eof" /\ lRealY' = 0
  THEN rc' = "io_error" /\ UNCHANGED <<bEOF, bScanning>>
  ELSE rc' = "eof" /\ bEOF' = TRUE /\ bScanning' = (bScanning /\ nAnswer # "eof")

(* the results of a page that has ended, after n bytes                     *)
PageEnd(n) ==
  IF n > 0
  THEN rc' = "good" /\ UNCHANGED <<bEOF, bScanning>>
  ELSE IF nAnswer = "eof" /\ lRealY' = 0
  THEN rc' = "io_error" /\ UNCHANGED <<bEOF, bScanning>>
  ELSE /\ rc' = "eof" /\ bEOF' = TRUE
       /\ bScanning' = (bScanning /\ nAnswer # "eof")

Deliver ==
  LET n == Least(Len(fw), maxlen)
      rest == SubSeq(fw, n + 1, Len(fw))
      white == IF lRealY < Height THEN WhiteLines(n) ELSE 0
  IN
  /\ pc = "deliver" /\ pc' = "out"
  /\ fw' = rest
  /\ \/ /\ nAnswer \in {"eof", "mps"} /\ rest # <<>>
        /\ out' = out \o SubSeq(fw, 1, n) /\ rc' = "good"
        /\ UNCHANGED <<lRealY, nPageCnt, bScanning, bEOF>>
     \/ /\ nAnswer \in {"eof", "mps"} /\ rest = <<>>
        /\ out' = out \o fw \o Times(white * OutWidth, 0)
        /\ lRealY' = lRealY + white
        /\ PageEnd(n + white * OutWidth)
        /\ UNCHANGED nPageCnt
     \/ /\ nAnswer = "cancel"
        /\ out' = out \o SubSeq(fw, 1, n)
        /\ rc' = "cancelled" /\ bScanning' = FALSE /\ nPageCnt' = 0
        /\ UNCHANGED <<lRealY, bEOF>>
     \/ /\ nAnswer \in DOMAIN Errors \cup {"good"}
        /\ out' = out \o SubSeq(fw, 1, n)
        /\ rc' = IF nAnswer = "good" THEN "good" ELSE Errors[nAnswer]
        /\ UNCHANGED <<lRealY, nPageCnt, bScanning, bEOF>>
  /\ UNCHANGED <<device, done, kept, bReadbufEnd, iProcessEnd, maxlen, nAnswer, ended, scans, faults>>

-----------------------------------------------------------------------------
(* The calls of the frontend.                                              *)

(* sane_read() of a page that has not ended. After an error the frontend   *)
(* cancels.                                                                *)
PageScan ==
  /\ pc = "out" /\ rc \in {"started", "good"} /\ ~bEOF /\ bScanning
  /\ \E n \in MaxLens : maxlen' = n
  /\ nAnswer' = IF iProcessEnd = "none" THEN "good" ELSE iProcessEnd
  /\ pc' = IF iProcessEnd # "none" \/ Len(fw) >= maxlen' THEN "deliver"
           ELSE IF bReadbufEnd \/ wData >= nMinReadSize THEN "process" ELSE "read"
  /\ UNCHANGED <<device, done, kept, fw, lRealY, state, rc, out, ended, scans, faults>>

(* sane_read() where a failed start was taken for that of a next page.     *)
PageScanRefused ==
  /\ pc = "out" /\ rc = "started" /\ ~bScanning
  /\ rc' = "io_error"
  /\ UNCHANGED <<device, done, kept, fw, lRealY, state, call, out, ended, scans, faults>>

(* Nothing is left of the last page.                                       *)
Forget ==
  /\ sent' = 0 /\ done' = 0 /\ kept' = 0 /\ fw' = <<>>
  /\ out' = <<>> /\ ended' = "no"
  /\ pc' = "out" /\ maxlen' = 0 /\ nAnswer' = "good"

NewPage == Forget /\ lRealY' = 0 /\ bReadbufEnd' = FALSE /\ bEOF' = FALSE

(* ScanStart() of a first page. A failure before the start command leaves  *)
(* nPageCnt at 1, one of the command itself ends the scan.                 *)
ScanStart ==
  /\ pc = "out" /\ nPageCnt = 0 /\ rc \in {"idle", "failed"}
  /\ scans < MaxScans /\ scans' = scans + 1
  /\ \/ /\ scan' \in Scans /\ page' = 1 /\ NewPage
        /\ nPageCnt' = 1 /\ bScanning' = TRUE /\ iProcessEnd' = "none" /\ rc' = "started"
        /\ UNCHANGED faults
     \/ /\ faults < MaxFaults /\ faults' = faults + 1
        /\ nPageCnt' \in {0, 1} /\ rc' = "failed"
        /\ bReadbufEnd' = FALSE /\ bEOF' = FALSE /\ lRealY' = 0
        /\ UNCHANGED <<device, done, kept, fw, bScanning, iProcessEnd, call, out, ended>>

HasNextPage == scan.adf /\ iProcessEnd = "mps"

(* ScanStart() of a following page, or behind one that has failed. A page  *)
(* that the device has announced and does not have cannot be started.      *)
NextPage ==
  /\ pc = "out" /\ nPageCnt > 0 /\ rc \in {"eof", "failed", "no_docs", "busy"}
  /\ scans < MaxScans /\ scans' = scans + 1
  /\ nPageCnt' = nPageCnt + 1 /\ NewPage
  /\ \/ /\ HasNextPage /\ page < Len(scan.pages)
        /\ page' = page + 1 /\ iProcessEnd' = "none" /\ rc' = "started"
        /\ UNCHANGED faults
     \/ /\ HasNextPage
        /\ \/ page = Len(scan.pages) /\ UNCHANGED faults
           \/ faults < MaxFaults /\ faults' = faults + 1
        /\ iProcessEnd' = "none" /\ rc' = "failed"
        /\ UNCHANGED page
     \/ /\ ~HasNextPage
        /\ rc' = IF iProcessEnd = "eof" THEN "no_docs" ELSE "busy"
        /\ UNCHANGED <<page, iProcessEnd, faults>>
  /\ UNCHANGED <<scan, bScanning>>

(* sane_cancel(): AbortPageScan(), which drains the device, and ScanEnd(), *)
(* which frees the buffers                                                 *)
Cancel ==
  /\ pc = "out" /\ Forget
  /\ bScanning' = FALSE /\ nPageCnt' = 0 /\ rc' = "idle"
  /\ UNCHANGED <<scan, page, lRealY, bReadbufEnd, bEOF, iProcessEnd, scans, faults>>

Init ==
  /\ scan \in Scans /\ page = 1
  /\ sent = 0 /\ done = 0 /\ kept = 0 /\ fw = <<>> /\ lRealY = 0
  /\ nPageCnt = 0 /\ bScanning = FALSE /\ bReadbufEnd = FALSE /\ bEOF = FALSE
  /\ iProcessEnd = "none"
  /\ pc = "out" /\ maxlen = 0 /\ nAnswer = "good"
  /\ rc = "idle" /\ out = <<>> /\ ended = "no" /\ scans = 0 /\ faults = 0

Work == Read \/ ReadNothing \/ Process \/ ProcessNothing \/ Deliver
Next == Work \/ PageScan \/ PageScanRefused \/ ScanStart \/ NextPage \/ Cancel

(* A read has a time-out, and the frontend reads on.                       *)
Spec == Init /\ [][Next]_vars /\ WF_vars(Work \/ PageScan \/ PageScanRefused)

-----------------------------------------------------------------------------
(* Properties.                                                             *)

(* The variables have their types. A read stays within the receive buffer, *)
(* which takes an InBuffSize of twice nMinReadSize since kept bytes are    *)
(* subtracted twice, and the lines in half of the transmission buffer.     *)
TypeOK ==
  /\ scan \in Scans /\ page \in 1..Len(scan.pages)
  /\ sent \in 0..Len(wire) /\ done \in 0..sent /\ kept \in 0..wData
  /\ wData <= dwRxBuffMaxSize
  /\ fw \in Seq(0..Len(wire)) /\ Len(fw) <= dwFwTempBuffMaxSize \div 2
  /\ lRealY \in Nat /\ nPageCnt \in Nat
  /\ {bScanning, bReadbufEnd, bEOF} \subseteq BOOLEAN /\ iProcessEnd \in {"none", "eof", "mps"}
  /\ pc \in {"out", "read", "process", "deliver"} /\ maxlen \in Nat
  /\ nAnswer \in {"good", "eof", "mps", "cancel"} \cup DOMAIN Errors
  /\ rc \in {"idle", "started", "good", "eof", "cancelled", "failed", "busy"}
            \cup {Errors[e] : e \in DOMAIN Errors}
  /\ out \in Seq(0..Len(wire)) /\ ended \in {"no", "status", "fallback", "silence"}
  /\ scans \in 0..MaxScans /\ faults \in 0..MaxFaults

(* the ends of what StatusChk() calls lines in the page's first e bytes,   *)
(* up to its status, and those where a line of the image ends              *)
LineEnds(e) ==
  LET From[k \in 1..(Len(wire) + 1)] ==
        IF k > e \/ IsStatus(wire[k]) \/ LineLength(k, e) = 0 THEN <<>>
        ELSE <<k + LineLength(k, e) - 1>> \o From[k + LineLength(k, e)]
  IN  From[1]

Lines(e) ==
  LET ends == LineEnds(e)
  IN  IF scan.colour THEN [i \in 1..(Len(ends) \div 3) |-> ends[3 * i]] ELSE ends

Image(e) ==
  LET ends == Lines(e) IN [p \in 1..(Len(ends) * OutWidth) |-> ends[(p - 1) \div OutWidth + 1]]

(* No line decoded was white: such a line is a header, others are longer.  *)
Before(ends, i) == IF i = 1 THEN 0 ELSE ends[i - 1]
NoWhiteLine ==
  LET ends == LineEnds(done) IN \A i \in DOMAIN ends : ends[i] # Before(ends, i) + 1

PageOpen == pc # "out" \/ rc \in {"started", "good", "eof"}

(* What the frontend has and will be given next is the image of the lines  *)
(* decoded, each once, in order and at its place whatever the reads, the   *)
(* batches and the pieces were, with white behind it; lRealY counts it.    *)
LinesInOrder ==
  PageOpen /\ NoWhiteLine =>
    LET white == lRealY - Len(Lines(done))
    IN  white >= 0 /\ out \o fw = Image(done) \o Times(white * OutWidth, 0)

(* EOF comes when the frontend has the whole image: as high as was asked   *)
(* for, or higher if the device sent more, and all lines of the page if    *)
(* its status ended it. (A frontend that asks for less than a line gets    *)
(* EOF instead of the white.)                                              *)
WholePage ==
  pc = "out" /\ rc = "eof" /\ maxlen >= OutWidth /\ NoWhiteLine =>
    /\ Len(out) = OutWidth * Most(Height, Len(Lines(done)))
    /\ ended = "status" => Lines(done) = Lines(Len(wire))

(* A page ends: a frontend that reads on gets EOF or an error.             *)
PageEnds == rc \in {"started", "good"} ~> rc \notin {"started", "good"}
=============================================================================
