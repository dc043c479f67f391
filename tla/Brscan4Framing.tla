---------------------------- MODULE Brscan4Framing ----------------------------
(***************************************************************************)
(* The framing of the brscan4 models (libsane-brother/brother_brscan4.c):  *)
(* brscan4_read_next_record() takes one record at a time out of a cache    *)
(* that it fills with reads of the device. PageScan() appends it to what   *)
(* it has of the page, and reads no more once a status is among that or a  *)
(* call has returned 0.                                                    *)
(*                                                                         *)
(* A record is a status byte, or a frame: a header byte, a wrapper and     *)
(* data, each with its length in two bytes before it. Bytes are 0..Base-1, *)
(* so that a small Base shows lengths of both bytes (it is 256 in the      *)
(* code). The buffers hold positions of the device's stream.               *)
(***************************************************************************)
EXTENDS Integers, Sequences

CONSTANTS
  Base,
  Status,   (* the header bytes that are a status                          *)
  Streams,  (* what the device sends for a page                            *)
  Ends,     (* for each of these, where in it a record of the device ends  *)
  Rooms,    (* the room in the receive buffer when a record is asked for   *)
  BRSCAN4_READ_CACHE_SIZE, BRSCAN4_MAX_REQUEST_SIZE, BRSCAN4_MAX_USB_READ_SIZE

Bytes == 0..(Base - 1)

(* A wrapper or data of any length can be asked for: the code's sizes are  *)
(* 0x20400, 0x20200 and 0x7FFF, a length is at most 0xFFFF.                *)
ASSUME SizesAssumption ==
  /\ Base \in Nat \ {0}
  /\ BRSCAN4_MAX_REQUEST_SIZE \in Nat /\ Base * Base + 1 <= BRSCAN4_MAX_REQUEST_SIZE
  /\ BRSCAN4_READ_CACHE_SIZE \in Nat /\ BRSCAN4_MAX_REQUEST_SIZE <= BRSCAN4_READ_CACHE_SIZE
  /\ BRSCAN4_MAX_USB_READ_SIZE \in Nat \ {0}
ASSUME StreamsAssumption == Streams \subseteq Seq(Bytes) /\ Rooms \subseteq Int

(* the bytes of w behind the e-th, up to the f-th, are a record            *)
LengthAt(w, k) == w[k] + Base * w[k + 1]
IsRecord(w, e, f) ==
  IF w[e + 1] \in Status
  THEN f = e + 1
  ELSE /\ e + 5 <= f /\ e + 5 + LengthAt(w, e + 2) <= f
       /\ f = e + 5 + LengthAt(w, e + 2) + LengthAt(w, e + 4 + LengthAt(w, e + 2))

(* A stream is records one behind the other. It may end within one.        *)
ASSUME FramesAssumption ==
  \A w \in Streams :
    /\ 0 \in Ends[w] /\ Ends[w] \subseteq 0..Len(w)
    /\ \A e \in Ends[w] :
         /\ \A f \in (e + 1)..Len(w) : IsRecord(w, e, f) => f \in Ends[w]
         /\ \A g \in Ends[w] : e < g => \E f \in Ends[w] : IsRecord(w, e, f) /\ f <= g

VARIABLES
  wire,         (* the stream of the page                                  *)
  sent,         (* how much of it the device has sent                      *)
  cache,        (* Brscan4ReadCache                                        *)
  dst,          (* what the running call has taken from the cache          *)
  maxlen,       (* the room of the running call                            *)
  pc,           (* what brscan4_read_next_record() asks the cache for      *)
  ret,          (* what the last call of the page has returned             *)
  lpRxBuff,     (* the records PageScan() has not processed                *)
  bReadbufEnd   (* PageScan() reads no more of the page                    *)

stream == <<wire, sent>>
vars   == <<stream, cache, dst, maxlen, pc, ret, lpRxBuff, bReadbufEnd>>

Least(a, b) == IF a <= b THEN a ELSE b

-----------------------------------------------------------------------------
(* Records in a buffer.                                                    *)

IsBoundaryStatus(b) == b \in Status

(* the length that the bytes at k and k + 1 of a buffer give               *)
Length(buf, k) == wire[buf[k]] + Base * wire[buf[k + 1]]

(* Variant for the mutation check: a record has no wrapper.                *)
PlainRecordLength(buf, k) ==
  LET len == Len(buf) - k + 1 IN
  IF len > 0 /\ IsBoundaryStatus(wire[buf[k]]) THEN 1
  ELSE IF len < 3 \/ 3 + Length(buf, k + 1) > len THEN 0 ELSE 3 + Length(buf, k + 1)

(* brscan4_record_length(): the length of the record at k, 0 if it is not  *)
(* complete                                                                *)
RecordLength(buf, k) ==
  LET len == Len(buf) - k + 1
      data_offset == 3 + Length(buf, k + 1)
      total == data_offset + 2 + Length(buf, k + data_offset)
  IN  IF len > 0 /\ IsBoundaryStatus(wire[buf[k]]) THEN 1
      ELSE IF len < 3 \/ data_offset + 2 > len \/ total > len THEN 0 ELSE total

StatusAtFrameBoundary(buf) ==
  LET StatusFrom[k \in 1..(Len(buf) + 1)] ==
        /\ k <= Len(buf)
        /\ \/ IsBoundaryStatus(wire[buf[k]])
           \/ RecordLength(buf, k) # 0 /\ StatusFrom[k + RecordLength(buf, k)]
  IN  StatusFrom[1]

-----------------------------------------------------------------------------
(* brscan4_cache_read(): what it is asked for, ...                         *)
Want ==
  CASE pc = "header"  -> 1
    [] pc = "lengths" -> 2
    [] pc = "wrapper" -> Length(dst, 2) + 2
    [] OTHER          -> Length(dst, Len(dst) - 1)

(* Variant for the mutation check: the end of the cache is not minded.     *)
UnboundedFreeSize == BRSCAN4_MAX_USB_READ_SIZE

(* ... the room it gives the device, ...                                   *)
FreeSize == Least(BRSCAN4_READ_CACHE_SIZE - Len(cache), BRSCAN4_MAX_USB_READ_SIZE)

(* ... and a read.                                                         *)
Fill ==
  /\ pc # "out" /\ Len(cache) < Want
  /\ \E n \in 1..FreeSize :
       /\ sent + n <= Len(wire)
       /\ sent' = sent + n
       /\ cache' = cache \o [k \in 1..n |-> sent + k]
  /\ UNCHANGED <<wire, dst, maxlen, pc, ret, lpRxBuff, bReadbufEnd>>

(* The call returns 0, and what it has taken from the cache is gone.       *)

(* Variant for the mutation check: only a negative result ends the page.   *)
ReadingReturnNothing ==
  /\ pc' = "out" /\ dst' = <<>> /\ ret' = 0
  /\ UNCHANGED <<lpRxBuff, bReadbufEnd>>

ReturnNothing ==
  /\ pc' = "out" /\ dst' = <<>> /\ ret' = 0
  /\ bReadbufEnd' = TRUE
  /\ UNCHANGED lpRxBuff

(* Variant for the mutation check: such a read is repeated.                *)
WaitingReadFails ==
  /\ pc # "out" /\ Len(cache) < Want
  /\ UNCHANGED vars

(* A read fails, or brings nothing until it times out.                     *)
ReadFails ==
  /\ pc # "out" /\ Len(cache) < Want
  /\ cache' = <<>>
  /\ ReturnNothing
  /\ UNCHANGED <<stream, maxlen>>

-----------------------------------------------------------------------------
(* brscan4_read_next_record(): each part of a record as the cache has it.  *)

Taken == dst \o SubSeq(cache, 1, Want)

(* Variant for the mutation check: a byte too much leaves the cache.       *)
GreedyServed(part) ==
  /\ pc = part /\ Len(cache) >= Want
  /\ cache' = SubSeq(cache, Want + 2, Len(cache))
  /\ UNCHANGED <<stream, maxlen>>

Served(part) ==
  /\ pc = part /\ Len(cache) >= Want
  /\ cache' = SubSeq(cache, Want + 1, Len(cache))
  /\ UNCHANGED <<stream, maxlen>>

(* The record does not fit if it is longer than n.                         *)
Ask(part, n) ==
  IF n > maxlen
  THEN ReturnNothing
  ELSE pc' = part /\ dst' = Taken /\ UNCHANGED <<ret, lpRxBuff, bReadbufEnd>>

(* PageScan() appends the record.                                          *)
ReturnRecord ==
  /\ pc' = "out" /\ dst' = <<>> /\ ret' = Len(Taken)
  /\ lpRxBuff' = lpRxBuff \o Taken
  /\ IF StatusAtFrameBoundary(lpRxBuff') THEN bReadbufEnd' = TRUE ELSE UNCHANGED bReadbufEnd

TakeHeader ==
  /\ Served("header")
  /\ IF IsBoundaryStatus(wire[cache[1]]) THEN ReturnRecord ELSE Ask("lengths", 3)

TakeLengths == Served("lengths") /\ Ask("wrapper", 5 + Length(Taken, 2))

TakeWrapper ==
  /\ Served("wrapper")
  /\ Ask("data", Len(Taken) + Length(Taken, Len(Taken) - 1))

TakeData == Served("data") /\ ReturnRecord

-----------------------------------------------------------------------------
(* PageScan().                                                             *)

ReadNextRecord ==
  /\ pc = "out" /\ ~bReadbufEnd
  /\ \E room \in Rooms :
       /\ maxlen' = room
       /\ IF room < 1
          THEN ReturnNothing
          ELSE pc' = "header" /\ UNCHANGED <<dst, ret, lpRxBuff, bReadbufEnd>>
  /\ UNCHANGED <<stream, cache>>

(* The first record of the receive buffer is processed.                    *)
ProcessRecord ==
  /\ pc = "out" /\ RecordLength(lpRxBuff, 1) > 0
  /\ lpRxBuff' = SubSeq(lpRxBuff, RecordLength(lpRxBuff, 1) + 1, Len(lpRxBuff))
  /\ UNCHANGED <<stream, cache, dst, maxlen, pc, ret, bReadbufEnd>>

(* ScanStart(): brscan4_cache_reset() and a new page. What the device had  *)
(* still to send of the last one was drained by the cancel or the close.   *)
NextPage ==
  /\ pc = "out"
  /\ wire' \in Streams /\ sent' = 0
  /\ cache' = <<>> /\ lpRxBuff' = <<>> /\ ret' = 0 /\ bReadbufEnd' = FALSE
  /\ UNCHANGED <<dst, maxlen, pc>>

Init ==
  /\ wire \in Streams /\ sent = 0
  /\ cache = <<>> /\ dst = <<>> /\ maxlen = 0 /\ pc = "out" /\ ret = 0
  /\ lpRxBuff = <<>> /\ bReadbufEnd = FALSE

Take == TakeHeader \/ TakeLengths \/ TakeWrapper \/ TakeData
Work == Fill \/ ReadFails \/ Take
Next == Work \/ ReadNextRecord \/ ProcessRecord \/ NextPage

(* A read of the device has a time-out.                                    *)
Spec == Init /\ [][Next]_vars /\ WF_vars(Work)

-----------------------------------------------------------------------------
(* Properties.                                                             *)

(* The variables have their types. The reads of the device stay inside the *)
(* cache, and what a call takes from it inside the room of its caller.     *)
TypeOK ==
  /\ wire \in Streams /\ sent \in 0..Len(wire)
  /\ cache \in Seq(1..Len(wire)) /\ Len(cache) <= BRSCAN4_READ_CACHE_SIZE
  /\ dst \in Seq(1..Len(wire)) /\ lpRxBuff \in Seq(1..Len(wire))
  /\ maxlen \in Int /\ ret \in Nat /\ bReadbufEnd \in BOOLEAN
  /\ pc \in {"out", "header", "lengths", "wrapper", "data"}
  /\ IF pc = "out" THEN ret > 0 => ret <= maxlen ELSE Len(dst) <= maxlen

(* s holds the positions that end at e.                                    *)
EndsAt(s, e) == \A k \in 1..Len(s) : s[k] = e - Len(s) + k

(* However the reads cut the stream, its bytes go through the cache to the *)
(* caller and into the receive buffer in order, each of them once and none *)
(* left out, until a call fails.                                           *)
InOrder ==
  /\ EndsAt(cache, sent)
  /\ EndsAt(dst, sent - Len(cache))
  /\ ~bReadbufEnd => EndsAt(lpRxBuff, sent - Len(cache) - Len(dst))

(* how much of the stream the running call and those before it were given  *)
Given == sent - Len(cache)

(* The framing does not get out of step with the device's: each call       *)
(* begins at a record and returns all of it, whatever bytes a record has   *)
(* in it, and no call follows one that left a record in the middle.        *)
InStep ==
  /\ ~bReadbufEnd => Given - Len(dst) \in Ends[wire]
  /\ ret > 0 /\ pc = "out" => Given \in Ends[wire] /\ Given - ret \in Ends[wire]

StatusEnds == {e \in Ends[wire] : e - 1 \in Ends[wire] /\ wire[e] \in Status}

(* PageScan() reads up to the page's status and no further: it sees it in  *)
(* the receive buffer, behind any number of records it has not processed,  *)
(* and takes no byte within a record for one.                              *)
StopsAtStatus ==
  /\ ~bReadbufEnd => \A e \in StatusEnds : Given - Len(dst) < e
  /\ bReadbufEnd /\ ret > 0 => Given \in StatusEnds

(* Every call returns.                                                     *)
CallsReturn == pc # "out" ~> pc = "out"
=============================================================================
