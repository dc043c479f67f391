---------------------------- MODULE Brscan5Stream ----------------------------
(***************************************************************************)
(* The incremental stream parser of the brscan5 backend                    *)
(* (libsane-brother/brscan5_stream.c): br5_parser_feed() is handed one USB  *)
(* read at a time and separates the page payload from the status records   *)
(* that ride between, behind and inside the reads.                         *)
(*                                                                         *)
(* Bytes are abstracted to FRAGMENTS, the shortest runs the parser tells   *)
(* apart: the 0x00 and the id byte every record begins with, the rest of a *)
(* record, the header and the payload of an RLENGTH block, a run of JPEG   *)
(* data, the ff and the d9 of the EOI marker, a run of padding. A chunk is *)
(* an interval of positions of the device's stream, so that every way of   *)
(* cutting the stream into reads is an interval, and a record cut by a     *)
(* read is the same record.                                                *)
(*                                                                         *)
(* One step is one iteration of the loop the code is in (pc). The result   *)
(* of a step is the list of events it passes to the callback (ev).         *)
(***************************************************************************)
EXTENDS Naturals, Sequences, FiniteSets

CONSTANTS
  Streams,       (* the fragment sequences a scan may produce              *)
  MaxScans,      (* how often the parser is armed. Bounds the model.       *)
  ShortPackets,  (* TRUE: reads are cut as the USB short-packet rule cuts  *)
                 (* them; FALSE: anywhere                                  *)
  BlocksAligned, (* TRUE: no read ends inside an RLENGTH block             *)
  PaddedTails    (* TRUE: a record may follow padding in the same read     *)

Ids       == {"x02", "x11", "x21", "x20"}
Fragments == Ids \cup {"nul", "x01", "x33", "body", "hdr", "pay",
                       "dat", "ff", "d9", "pad"}

ASSUME StreamsAssumption == Streams \subseteq Seq(Fragments)
ASSUME MaxScansAssumption == MaxScans \in Nat
ASSUME RulesAssumption == {ShortPackets, BlocksAligned, PaddedTails} \subseteq BOOLEAN

VARIABLES
  wire,        (* the stream the device sends for this scan                *)
  scans,       (* scans armed so far                                       *)
  state,       (* br5_parser.state                                         *)
  rle_mode,    (* br5_parser.rle_mode                                      *)
  rle_pend,    (* br5_parser.rle_pend_len > 0: a block payload is owed     *)
  pending_ff,  (* br5_parser.pending_ff                                    *)
  accum,       (* br5_parser.rec_buf[0 .. rec_accum_len)                   *)
  pc,          (* the loop of br5_parser_feed() that runs, "out" for none  *)
  lo, hi, i,   (* the chunk is wire[lo .. hi], the next fragment wire[i]   *)
  ev,          (* the events of the last step                              *)
  page,        (* positions passed on by JPEG_DATA and RLE_DATA events     *)
  trailing,    (* positions counted as trailing bytes                      *)
  log          (* the EOI, PAGE_END, SESSION_END and ERROR events it caused  *)

parser == <<state, rle_mode, rle_pend, pending_ff, accum>>
cursor == <<pc, lo, hi, i>>
result == <<page, trailing, log>>
vars   == <<wire, scans, parser, cursor, ev, result>>

States     == {"IDLE", "ARMED", "DATA", "PAGE_DONE", "SESSION_DONE", "ERROR"}
Milestones == {"JPEG_EOI", "PAGE_END", "SESSION_END", "ERROR"}
Events     == Milestones \cup {"RECORD", "BLOCK", "JPEG_DATA", "RLE_DATA", "WARN"}
Records    == {"progress", "endstat", "pageEnd", "scanEnd", "block"}

-----------------------------------------------------------------------------
(* Records in the stream.                                                  *)

(* record_expected_len(): the record an id byte announces, "none" if the   *)
(* length of such a record is not known                                    *)
RecordOf(id) ==
  CASE id = "x02" -> "progress"
    [] id = "x11" -> "endstat"
    [] id = "x21" -> "pageEnd"
    [] id = "x20" -> "scanEnd"
    [] OTHER      -> "none"

RecLen(r) == IF r = "scanEnd" THEN 2 ELSE 3

(* Variant for the mutation check: a record need not be complete.          *)
UncheckedRecordAt(k, h) ==
  IF k + 1 <= h /\ wire[k] = "nul" THEN RecordOf(wire[k + 1]) ELSE "none"

(* the known record that begins at k and is complete by h                  *)
RecordAt(k, h) ==
  IF /\ k + 1 <= h
     /\ wire[k] = "nul"
     /\ k + RecLen(RecordOf(wire[k + 1])) - 1 <= h
  THEN RecordOf(wire[k + 1])
  ELSE "none"

(* an RLENGTH block header (00 01 01 00, at least 8 bytes) is at k         *)
BlockAt(k, h) ==
  k + 2 <= h /\ wire[k] = "nul" /\ wire[k + 1] = "x01" /\ wire[k + 2] = "hdr"

(* more than BR5_MAX_RECORD_LEN bytes: the chunk holds a run of bytes      *)
Long(l, h) == \E k \in l..h : wire[k] \in {"dat", "pay", "pad"}

(* Variant for the mutation check: the tail of a data chunk is not looked at. *)
NoTailRecord == "none"

(* data_bytes(): the record with a strict signature that ends the chunk;   *)
(* the bare 00 20 has none                                                 *)
TailRecord ==
  IF hi - 2 >= lo /\ wire[hi] = "body" THEN RecordAt(hi - 2, hi) ELSE "none"

DataEnd == IF TailRecord = "none" THEN hi ELSE hi - 3

-----------------------------------------------------------------------------
(* What the captures of docs/brscan5-protocol.md have in common, for those *)
(* who rely on it: the parser does not.                                    *)

(* a session with one page, in JPEG or in blocks                           *)
OnePage(w) ==
  /\ \A j, k \in DOMAIN w : w[j] = "d9" /\ w[k] = "d9" => j = k
  /\ \A j, k \in DOMAIN w : w[j] = "d9" => w[k] # "x01"
  /\ \A j, k \in DOMAIN w : w[j] = "x21" /\ w[k] = "x01" => k < j

(* The session end is the last that is sent.                               *)
EndsOnce(w) == \A k \in DOMAIN w : w[k] = "x20" => k = Len(w)

(* No id byte without the rest of its record.                              *)
WholeRecords(w) ==
  \A k \in DOMAIN w :
    /\ w[k] \in {"x02", "x11", "x21"} => k < Len(w) /\ w[k + 1] = "body"
    /\ w[k] = "x01" => k < Len(w) /\ w[k + 1] = "hdr"

(* The order in which a scan sends its data and records: <<p, f, q>> if    *)
(* the data f, or a record with the id f, is sent in phase p and leads to  *)
(* q. In data and half (behind an ff) the page is JPEG; in rle and owed    *)
(* (its payload is to come) it is blocks; page, ended and rledone are      *)
(* behind the data, again is before that of a further page.                *)
Moves ==
  { <<"armed", "x33", "armed">>, <<"armed", "x02", "data">>, <<"armed", "x01", "owed">>,
    <<"armed", "x21", "ended">>, <<"armed", "x20", "over">>,
    <<"data", "dat", "data">>, <<"data", "ff", "half">>,
    <<"data", "x02", "data">>, <<"data", "x11", "data">>,
    <<"half", "dat", "data">>, <<"half", "ff", "half">>, <<"half", "d9", "page">>,
    <<"half", "x02", "half">>, <<"half", "x11", "half">>,
    <<"page", "pad", "page">>, <<"page", "x02", "page">>, <<"page", "x11", "page">>,
    <<"page", "x33", "page">>, <<"page", "x21", "ended">>, <<"page", "x20", "over">>,
    <<"ended", "x11", "ended">>, <<"ended", "x33", "ended">>, <<"ended", "x20", "over">>,
    <<"ended", "x02", "again">>, <<"again", "dat", "data">>, <<"again", "ff", "half">>,
    <<"owed", "pay", "rle">>, <<"rle", "x01", "owed">>, <<"rle", "x02", "rle">>,
    <<"rle", "x21", "rledone">>, <<"rle", "x20", "over">>,
    <<"rledone", "x02", "rledone">>, <<"rledone", "x20", "over">> }

Data      == {"dat", "ff", "d9", "pay", "pad"}
RecordIds == Ids \cup {"x01", "x33"}
Phases    == {m[1] : m \in Moves} \cup {"over"}

(* w is sent in the phases ph: whole records and blocks, with data between *)
(* two records that come in the data of a page.                            *)
Follows(w, ph) ==
  /\ ph[1] = "armed" /\ ph[Len(w) + 1] # "owed"
  /\ \A k \in DOMAIN w :
       /\ w[k] \in Data => <<ph[k], w[k], ph[k + 1]>> \in Moves
       /\ w[k] = "nul" =>
            /\ k < Len(w) /\ w[k + 1] \in RecordIds
            /\ w[k + 1] = "x20" => <<ph[k], "x20", ph[k + 2]>> \in Moves
            /\ w[k + 1] # "x20" =>
                 /\ k + 1 < Len(w) /\ w[k + 2] = (IF w[k + 1] = "x01" THEN "hdr" ELSE "body")
                 /\ <<ph[k], w[k + 1], ph[k + 3]>> \in Moves
       /\ w[k] \in RecordIds => k > 1 /\ w[k - 1] = "nul"
       /\ w[k] \in {"body", "hdr"} => k > 1 /\ w[k - 1] \in RecordIds \ {"x20"}
       /\ w[k] = "body" /\ 3 < k /\ k < Len(w) /\ ph[k + 1] \in {"data", "half"} => w[k + 1] # "nul"

Ordered(w) == \E ph \in [1..(Len(w) + 1) -> Phases] : Follows(w, ph)

-----------------------------------------------------------------------------
(* handle_record(): the phase transition of a record and its events.       *)

(* Variant for the mutation check: a session end behind a page end is      *)
(* not listened for.                                                       *)
DeafListening == state \in {"ARMED", "PAGE_DONE"} \/ (state = "DATA" /\ rle_mode)

Listening == state \in {"ARMED", "PAGE_DONE", "SESSION_DONE"}
             \/ (state = "DATA" /\ rle_mode)

NextState(r) ==
  CASE r = "scanEnd" /\ Listening                         -> "IDLE"
    [] r = "pageEnd" /\ state \in {"ARMED", "PAGE_DONE"}  -> "SESSION_DONE"
    [] r = "pageEnd" /\ state = "DATA" /\ rle_mode        -> "PAGE_DONE"
    [] r = "progress" /\ state = "ARMED"                  -> "DATA"
    [] r = "progress" /\ state = "SESSION_DONE"           -> "ARMED"
    [] r = "block" /\ state = "ARMED"                     -> "DATA"
    [] OTHER                                              -> state

(* Variant for the mutation check: the session end is told from the state  *)
(* after the record, not from the record.                                  *)
MilestoneByState(r) ==
  CASE NextState(r) = "IDLE"                                -> <<"SESSION_END">>
    [] r = "pageEnd" /\ Listening /\ state # "SESSION_DONE" -> <<"PAGE_END">>
    [] OTHER                                                -> <<>>

MilestoneOf(r) ==
  CASE r = "scanEnd" /\ Listening                             -> <<"SESSION_END">>
    [] r = "pageEnd" /\ Listening /\ state # "SESSION_DONE"   -> <<"PAGE_END">>
    [] OTHER                                                  -> <<>>

OpensBlock(r) == r = "block" /\ state = "ARMED"

HandleRecord(r) ==
  /\ state' = NextState(r)
  /\ rle_mode' = (rle_mode \/ OpensBlock(r))
  /\ rle_pend' = (rle_pend \/ OpensBlock(r))
  /\ ev' = <<IF r = "block" THEN "BLOCK" ELSE "RECORD">> \o MilestoneOf(r)
  /\ log' = log \o MilestoneOf(r)

(* The chunk is used up: br5_parser_feed() returns.                        *)
Done ==
  /\ pc' = "out"
  /\ i' = hi + 1

(* Go on at position k in loop p.                                          *)
Continue(p, k) ==
  /\ pc' = IF k > hi THEN "out" ELSE p
  /\ i' = k

(* count_trailing() of the rest of the chunk                               *)
CountTrailing ==
  /\ trailing' = trailing \cup (i..hi)
  /\ Done

(* A fatal error: the rest of the chunk is abandoned.                      *)
Fail ==
  /\ state' = "ERROR"
  /\ ev' = <<"ERROR">>
  /\ log' = Append(log, "ERROR")
  /\ pc' = "out"
  /\ UNCHANGED i

-----------------------------------------------------------------------------
(* The callers: br5_parser_arm(), br5_parser_reset(), br5_parser_feed().   *)

Clear(s) ==
  /\ state' = s
  /\ rle_mode' = FALSE
  /\ rle_pend' = FALSE
  /\ pending_ff' = FALSE
  /\ accum' = <<>>
  /\ pc' = "out" /\ lo' = 1 /\ hi' = 0 /\ i' = 1
  /\ ev' = <<>>
  /\ page' = {} /\ trailing' = {} /\ log' = <<>>

(* The device accepted a scan: it will send w.                             *)
Arm(w) ==
  /\ pc = "out"
  /\ state = "IDLE"
  /\ scans < MaxScans
  /\ scans' = scans + 1
  /\ wire' = w
  /\ Clear("ARMED")

(* A cancel or a fresh start drops what the scan had left.                 *)
Reset ==
  /\ pc = "out"
  /\ Clear("IDLE")
  /\ wire' = <<>>
  /\ UNCHANGED scans

(* Where a read may end. A status record is a short packet: it ends the    *)
(* read it rides in, unless it is the XSC response with which the stream   *)
(* begins or a record of a burst behind the EOI (docs/brscan5-protocol.md, *)
(* 4a). RLENGTH records may be followed by blocks. In no case does a read   *)
(* end with just the first byte of a record that follows something else.   *)
AfterEoi(k) == \E j \in 1..k : wire[j] = "d9"

RecordMayContinue(k) ==
  \/ k <= 3
  \/ wire[k + 1] = "nul" /\ (AfterEoi(k) \/ "x01" \in {wire[j] : j \in 1..k})

MayEnd(l, h) ==
  /\ ShortPackets =>
       /\ h < Len(wire) => wire[h + 1] \notin Ids \cup {"x01", "x33", "hdr", "body"}
       /\ \A k \in l..(h - 1) :
            /\ wire[k] \in {"body", "x20"} => RecordMayContinue(k)
            /\ wire[k] = "pad" => wire[k + 1] = "pad" \/ PaddedTails
       /\ \A k \in l..h : wire[k] = "x33" => l = k - 1 /\ h = k + 1
  /\ BlocksAligned => (h < Len(wire) => wire[h + 1] # "pay")
  /\ wire[h] = "nul" => l = h

(* br5_parser_feed() with the chunk wire[hi + 1 .. h]                      *)
Feed(h) ==
  /\ pc = "out"
  /\ state \notin {"IDLE", "ERROR"}
  /\ MayEnd(hi + 1, h)
  /\ lo' = hi + 1 /\ hi' = h /\ i' = hi + 1
  /\ pc' = "boundary"
  /\ ev' = <<>>
  /\ UNCHANGED <<wire, scans, parser, result>>

(* A chunk while no scan is armed is a protocol violation.                 *)
FeedUnarmed ==
  /\ pc = "out"
  /\ state = "IDLE"
  /\ state' = "ERROR"
  /\ ev' = <<"ERROR">>
  /\ UNCHANGED <<wire, scans, rle_mode, rle_pend, pending_ff, accum, cursor, result>>

-----------------------------------------------------------------------------
(* boundary(): what the begin of a chunk says of it.                       *)

OpensRle == state # "DATA" /\ BlockAt(lo, hi)

CoalescedStart ==
  state = "ARMED" /\ RecordAt(lo, hi) = "progress"

ShortStart == wire[lo] = "nul" /\ ~Long(lo, hi)

(* A record is being accumulated, or the RLENGTH framing is rle_bytes()'s. *)
BoundaryLeavesChunk ==
  /\ accum # <<>> \/ (state = "DATA" /\ rle_mode)
  /\ pc' = "main"
  /\ ev' = <<>>
  /\ UNCHANGED <<wire, scans, parser, lo, hi, i, result>>

(* JPEG data: a chunk that is exactly one known record is a record.        *)
BoundaryInJpeg ==
  /\ accum = <<>> /\ state = "DATA" /\ ~rle_mode
  /\ \/ /\ RecordAt(lo, hi) # "none"
        /\ hi = lo + RecLen(RecordAt(lo, hi)) - 1
        /\ HandleRecord(RecordAt(lo, hi))
        /\ Done
     \/ /\ RecordAt(lo, hi) = "none" \/ hi # lo + RecLen(RecordAt(lo, hi)) - 1
        /\ ev' = <<>>
        /\ pc' = "main"
        /\ UNCHANGED <<state, rle_mode, rle_pend, i, log>>
  /\ UNCHANGED <<wire, scans, pending_ff, accum, lo, hi, page, trailing>>

(* The first RLENGTH block opens the page; rle_bytes() parses it.          *)
BoundaryOpensRle ==
  /\ accum = <<>> /\ OpensRle
  /\ state' = "DATA" /\ rle_mode' = TRUE
  /\ pc' = "main"
  /\ ev' = <<>>
  /\ UNCHANGED <<wire, scans, rle_pend, pending_ff, accum, lo, hi, i, result>>

(* The XSC response and the first JPEG data in one read.                   *)
BoundaryCoalesced ==
  /\ accum = <<>> /\ state # "DATA" /\ ~OpensRle /\ CoalescedStart
  /\ HandleRecord("progress")
  /\ Continue("main", lo + 3)
  /\ UNCHANGED <<wire, scans, pending_ff, accum, lo, hi, page, trailing>>

(* A short chunk that begins with 0x00: a burst of records, or its first   *)
(* byte alone.                                                             *)
BoundaryShort ==
  /\ accum = <<>> /\ state # "DATA" /\ ~OpensRle /\ ~CoalescedStart /\ ShortStart
  /\ IF lo = hi
     THEN accum' = <<"nul">> /\ Done
     ELSE pc' = "burst" /\ UNCHANGED <<accum, i>>
  /\ ev' = <<>>
  /\ UNCHANGED <<wire, scans, state, rle_mode, rle_pend, pending_ff, lo, hi, result>>

(* Not a record: JPEG data when armed, otherwise padding.                  *)
BoundaryNoRecord ==
  /\ accum = <<>> /\ state # "DATA" /\ ~OpensRle /\ ~CoalescedStart /\ ~ShortStart
  /\ state' = IF state = "ARMED" THEN "DATA" ELSE state
  /\ pc' = "main"
  /\ ev' = <<>>
  /\ UNCHANGED <<wire, scans, rle_mode, rle_pend, pending_ff, accum, lo, hi, i, result>>

Boundary ==
  /\ pc = "boundary"
  /\ \/ BoundaryLeavesChunk
     \/ BoundaryInJpeg
     \/ BoundaryOpensRle
     \/ BoundaryCoalesced
     \/ BoundaryShort
     \/ BoundaryNoRecord

-----------------------------------------------------------------------------
(* boundary()'s loop over a burst of records in a short chunk.             *)

BurstRecord ==
  LET r == RecordAt(i, hi)
  IN  /\ r # "none"
      /\ HandleRecord(r)
      /\ Continue(CASE state' \in {"DATA", "ARMED"} -> "main"
                    [] state' = "IDLE"              -> "rest"
                    [] OTHER                        -> "burst",
                  i + RecLen(r))
      /\ UNCHANGED <<wire, scans, pending_ff, accum, lo, hi, page, trailing>>

(* The last record is cut: it is buffered until the next chunk.            *)
BurstPartial ==
  /\ RecordAt(i, hi) = "none"
  /\ wire[i] = "nul" /\ RecordOf(wire[i + 1]) # "none"
  /\ accum' = <<"nul", wire[i + 1]>>
  /\ ev' = <<>>
  /\ Done
  /\ UNCHANGED <<wire, scans, state, rle_mode, rle_pend, pending_ff, lo, hi, result>>

(* An unknown id: the whole chunk is one unknown record if it begins the   *)
(* chunk, otherwise the rest is trailing.                                  *)
BurstUnknown ==
  /\ wire[i] # "nul" \/ RecordOf(wire[i + 1]) = "none"
  /\ IF i = lo
     THEN ev' = <<"WARN", "RECORD">> /\ Done /\ UNCHANGED trailing
     ELSE ev' = <<>> /\ CountTrailing
  /\ UNCHANGED <<wire, scans, parser, lo, hi, page, log>>

BurstRest ==
  /\ pc = "rest"
  /\ CountTrailing
  /\ ev' = <<>>
  /\ UNCHANGED <<wire, scans, parser, lo, hi, page, log>>

Burst ==
  \/ pc = "burst" /\ (BurstRecord \/ BurstPartial \/ BurstUnknown)
  \/ BurstRest

-----------------------------------------------------------------------------
(* data_bytes(): JPEG payload up to the EOI, without the record at the     *)
(* tail of the chunk, and consume_trailing() behind it.                    *)

InJpeg == pc = "main" /\ state = "DATA" /\ ~rle_mode

DataEoi ==
  /\ InJpeg /\ i <= DataEnd
  /\ pending_ff /\ wire[i] = "d9"
  /\ state' = "PAGE_DONE"
  /\ pending_ff' = FALSE
  /\ page' = page \cup {i}
  /\ trailing' = {}
  /\ ev' = <<"JPEG_DATA", "JPEG_EOI">>
  /\ log' = Append(log, "JPEG_EOI")
  /\ Continue("trail", i + 1)
  /\ UNCHANGED <<wire, scans, rle_mode, rle_pend, accum, lo, hi>>

(* Variant for the mutation check: an ff stays pending over other bytes.   *)
StickyDataAppend ==
  /\ InJpeg /\ i <= DataEnd
  /\ ~(pending_ff /\ wire[i] = "d9")
  /\ page' = page \cup {i}
  /\ pending_ff' = (pending_ff \/ wire[i] = "ff")
  /\ ev' = <<"JPEG_DATA">>
  /\ Continue("main", i + 1)
  /\ UNCHANGED <<wire, scans, state, rle_mode, rle_pend, accum, lo, hi, trailing, log>>

DataAppend ==
  /\ InJpeg /\ i <= DataEnd
  /\ ~(pending_ff /\ wire[i] = "d9")
  /\ page' = page \cup {i}
  /\ pending_ff' = (wire[i] = "ff")
  /\ ev' = <<"JPEG_DATA">>
  /\ Continue("main", i + 1)
  /\ UNCHANGED <<wire, scans, state, rle_mode, rle_pend, accum, lo, hi, trailing, log>>

DataTail ==
  /\ InJpeg /\ i > DataEnd
  /\ HandleRecord(TailRecord)
  /\ Done
  /\ UNCHANGED <<wire, scans, pending_ff, accum, lo, hi, page, trailing>>

ConsumeTrailing ==
  /\ pc = "trail"
  /\ LET r == RecordAt(i, hi)
     IN  IF r # "none"
         THEN HandleRecord(r) /\ Continue("trail", i + RecLen(r)) /\ UNCHANGED trailing
         ELSE CountTrailing /\ ev' = <<>> /\ UNCHANGED <<state, rle_mode, rle_pend, log>>
  /\ UNCHANGED <<wire, scans, pending_ff, accum, lo, hi, page>>

-----------------------------------------------------------------------------
(* rle_bytes(): the RLENGTH block framing. It stays in its loop whatever   *)
(* state the records it meets lead to.                                     *)

InRle == pc = "rle" \/ (pc = "main" /\ state = "DATA" /\ rle_mode)

RlePayload ==
  /\ InRle /\ rle_pend
  /\ rle_pend' = FALSE
  /\ page' = page \cup {i}
  /\ ev' = <<"RLE_DATA">>
  /\ Continue("rle", i + 1)
  /\ UNCHANGED <<wire, scans, state, rle_mode, pending_ff, accum, lo, hi, trailing, log>>

RleBlock ==
  /\ InRle /\ ~rle_pend
  /\ BlockAt(i, hi) /\ i + 3 <= hi
  /\ rle_pend' = TRUE
  /\ ev' = <<"BLOCK">>
  /\ Continue("rle", i + 3)
  /\ UNCHANGED <<wire, scans, state, rle_mode, pending_ff, accum, lo, hi, result>>

RleRecord ==
  /\ InRle /\ ~rle_pend
  /\ LET r == RecordAt(i, hi)
     IN  /\ r \in {"progress", "pageEnd", "scanEnd"}
         /\ HandleRecord(r)
         /\ Continue(IF r = "scanEnd" THEN "main" ELSE "rle", i + RecLen(r))
  /\ UNCHANGED <<wire, scans, pending_ff, accum, lo, hi, page, trailing>>

(* A block that the chunk does not hold completely, or no record at all.   *)
RleError ==
  /\ InRle /\ ~rle_pend
  /\ ~(BlockAt(i, hi) /\ i + 3 <= hi)
  /\ RecordAt(i, hi) \notin {"progress", "pageEnd", "scanEnd"}
  /\ Fail
  /\ UNCHANGED <<wire, scans, rle_mode, rle_pend, pending_ff, accum, lo, hi, page, trailing>>

-----------------------------------------------------------------------------
(* non_data_bytes(): a record continued from the last chunk, or padding.   *)

InNonData == pc = "main" /\ state \in {"ARMED", "PAGE_DONE", "SESSION_DONE"}

AccumId ==
  /\ InNonData /\ Len(accum) = 1
  /\ CASE wire[i] = "x20" ->
            accum' = <<>> /\ HandleRecord("scanEnd")
       [] wire[i] \in {"x02", "x11", "x21", "x01"} ->
            /\ accum' = <<"nul", wire[i]>>
            /\ ev' = <<>>
            /\ UNCHANGED <<state, rle_mode, rle_pend, log>>
       [] OTHER ->
            /\ accum' = <<>>
            /\ ev' = <<"WARN", "RECORD">>
            /\ UNCHANGED <<state, rle_mode, rle_pend, log>>
  /\ Continue("main", i + 1)
  /\ UNCHANGED <<wire, scans, pending_ff, lo, hi, page, trailing>>

AccumRest ==
  /\ InNonData /\ Len(accum) = 2
  /\ accum' = <<>>
  /\ HandleRecord(IF accum[2] = "x01" THEN "block" ELSE RecordOf(accum[2]))
  /\ Continue("main", i + 1)
  /\ UNCHANGED <<wire, scans, pending_ff, lo, hi, page, trailing>>

(* Variant for the mutation check: an armed parser waits for a record.     *)
WaitingNoRecord ==
  /\ InNonData /\ accum = <<>>
  /\ IF state = "ARMED" THEN UNCHANGED <<pc, i, trailing>> ELSE CountTrailing
  /\ ev' = <<>>
  /\ UNCHANGED <<wire, scans, parser, lo, hi, page, log>>

NoRecord ==
  /\ InNonData /\ accum = <<>>
  /\ IF state = "ARMED"
     THEN state' = "DATA" /\ UNCHANGED <<pc, i, trailing>>
     ELSE CountTrailing /\ UNCHANGED state
  /\ ev' = <<>>
  /\ UNCHANGED <<wire, scans, rle_mode, rle_pend, pending_ff, accum, lo, hi, page, log>>

(* The session is over: the rest of the chunk is ignored.                  *)
IgnoreRest ==
  /\ pc = "main" /\ state = "IDLE"
  /\ Done
  /\ ev' = <<>>
  /\ UNCHANGED <<wire, scans, parser, lo, hi, result>>

(* One iteration of br5_parser_feed() on the chunk it was given.           *)
Step ==
  \/ Boundary
  \/ Burst
  \/ DataEoi \/ DataAppend \/ DataTail
  \/ ConsumeTrailing
  \/ RlePayload \/ RleBlock \/ RleRecord \/ RleError
  \/ AccumId \/ AccumRest \/ NoRecord
  \/ IgnoreRest

FeedNext == \E h \in (hi + 1)..Len(wire) : Feed(h)

Init ==
  /\ wire = <<>> /\ scans = 0
  /\ state = "IDLE" /\ rle_mode = FALSE /\ rle_pend = FALSE
  /\ pending_ff = FALSE /\ accum = <<>>
  /\ pc = "out" /\ lo = 1 /\ hi = 0 /\ i = 1
  /\ ev = <<>>
  /\ page = {} /\ trailing = {} /\ log = <<>>

Next ==
  \/ \E w \in Streams : Arm(w)
  \/ Reset
  \/ FeedUnarmed
  \/ FeedNext
  \/ Step

(* br5_parser_feed() runs to its end, and the device sends what it has to  *)
(* send; nobody has to start or to cancel a scan.                          *)
Spec == Init /\ [][Next]_vars /\ WF_vars(Step) /\ WF_vars(FeedNext)

-----------------------------------------------------------------------------
(* Properties.                                                             *)

(* The variables have their types, and the cursor stays in the chunk.      *)
TypeOK ==
  /\ wire \in Streams \cup {<<>>}
  /\ scans \in 0..MaxScans
  /\ state \in States
  /\ rle_mode \in BOOLEAN /\ rle_pend \in BOOLEAN /\ pending_ff \in BOOLEAN
  /\ accum \in Seq(Fragments)
  /\ pc \in {"out", "boundary", "main", "burst", "rest", "trail", "rle"}
  /\ lo \in 1..(Len(wire) + 1) /\ hi \in 0..Len(wire) /\ i \in lo..(hi + 1)
  /\ ev \in Seq(Events) /\ log \in Seq(Milestones)
  /\ page \subseteq 1..(i - 1) /\ trailing \subseteq 1..(i - 1)

(* JPEG_EOI is reported exactly when the JPEG payload passed on holds an   *)
(* ff directly followed by a d9, wherever reads were cut and whatever rode *)
(* between the two bytes: a truncated page never counts as complete, and   *)
(* the end of a complete one is not missed. (The scanlines of an RLENGTH   *)
(* page are not looked into.)                                              *)
EoiReached ==
  \E q, p \in page :
    /\ q < p /\ wire[q] = "ff" /\ wire[p] = "d9"
    /\ \A k \in page : k <= q \/ k >= p

Reported(m) == \E k \in 1..Len(log) : log[k] = m

EoiExact ==
  /\ Reported("JPEG_EOI") => EoiReached
  /\ ~rle_mode /\ EoiReached => Reported("JPEG_EOI")

(* A page-end or session-end event stands for a record that was received,  *)
(* and no record gives two: not when it is cut, not when the rest of a     *)
(* burst is buffered for the next read.                                    *)
Reports(m) == {k \in 1..Len(log) : log[k] = m}
Taken(f)   == {k \in 1..(i - 1) : wire[k] = f}

EventsBacked ==
  /\ Cardinality(Reports("PAGE_END")) <= Cardinality(Taken("x21"))
  /\ Cardinality(Reports("SESSION_END")) <= Cardinality(Taken("x20"))

(* Whatever way the device's scheduling cuts a scan into reads, the parser *)
(* is the token-by-token de-framer: no record gets into the JPEG, no data  *)
(* is dropped, no record is missed or reported twice.                      *)
Deframer == INSTANCE ScanStream WITH pos <- i
Deframes == Deframer!Spec
=============================================================================
