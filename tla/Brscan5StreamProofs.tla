------------------------- MODULE Brscan5StreamProofs -------------------------
(***************************************************************************)
(* Theorems about Brscan5Stream, for every set of streams, every number of *)
(* scans and whatever rule cuts the streams into reads.                    *)
(***************************************************************************)
EXTENDS Brscan5Stream, FiniteSetTheorems, WellFoundedInduction, TLAPS

(* The strengthening of TypeOK: a loop runs only while the chunk lasts, and *)
(* boundary() looks at the begin of a chunk.                               *)
CursorOK ==
  /\ pc # "out" => i <= hi
  /\ pc = "boundary" => i = lo

TypeInv == TypeOK /\ CursorOK

-----------------------------------------------------------------------------
(* What the helpers return.                                                *)

(* The byte after the 00 never makes a record longer than three bytes, and *)
(* a complete record lies inside the chunk.                                *)
LEMMA RecordAtInside ==
  ASSUME NEW k \in Nat, NEW h \in Nat, RecordAt(k, h) # "none"
  PROVE  /\ RecordAt(k, h) \in Records
         /\ k + RecLen(RecordAt(k, h)) <= h + 1
         /\ RecLen(RecordAt(k, h)) \in {2, 3}
BY DEF RecordAt, RecordOf, RecLen, Records

LEMMA NextStateType ==
  ASSUME state \in States, NEW r
  PROVE  NextState(r) \in States
BY DEF NextState, States

LEMMA Singleton ==
  ASSUME NEW S, NEW x \in S
  PROVE  <<x>> \in Seq(S) /\ <<>> \in Seq(S)
OBVIOUS

LEMMA Pair ==
  ASSUME NEW S, NEW x \in S, NEW y \in S
  PROVE  <<x, y>> \in Seq(S)
OBVIOUS

LEMMA MilestoneType ==
  ASSUME NEW r
  PROVE  /\ MilestoneOf(r) \in Seq(Milestones)
         /\ <<IF r = "block" THEN "BLOCK" ELSE "RECORD">> \o MilestoneOf(r) \in Seq(Events)
<1>. MilestoneOf(r) \in {<<>>, <<"SESSION_END">>, <<"PAGE_END">>}
  BY DEF MilestoneOf
<1>1. MilestoneOf(r) \in Seq(Milestones)
  BY Singleton DEF Milestones
<1>2. MilestoneOf(r) \in Seq(Events)
  BY Singleton DEF Milestones, Events
<1>3. <<IF r = "block" THEN "BLOCK" ELSE "RECORD">> \in Seq(Events)
  BY DEF Events
<1> QED
  BY <1>1, <1>2, <1>3

(* handle_record() keeps the types of what it assigns.                     *)
LEMMA HandleRecordType ==
  ASSUME TypeOK, NEW r, HandleRecord(r)
  PROVE  /\ state' \in States
         /\ rle_mode' \in BOOLEAN /\ rle_pend' \in BOOLEAN
         /\ ev' \in Seq(Events) /\ log' \in Seq(Milestones)
<1>1. state' \in States
  BY NextStateType DEF TypeOK, HandleRecord
<1>2. rle_mode' \in BOOLEAN /\ rle_pend' \in BOOLEAN
  BY DEF TypeOK, HandleRecord, OpensBlock
<1>3. ev' \in Seq(Events)
  BY MilestoneType DEF HandleRecord
<1>4. log' \in Seq(Milestones)
  BY MilestoneType DEF HandleRecord, TypeOK
<1> QED
  BY <1>1, <1>2, <1>3, <1>4

(* Continue() and Done keep the cursor in the chunk.                       *)
InChunk ==
  /\ pc \in {"out", "boundary", "main", "burst", "rest", "trail", "rle"}
  /\ lo \in 1..(Len(wire) + 1) /\ hi \in 0..Len(wire) /\ i \in lo..(hi + 1)
  /\ CursorOK

LEMMA ContinueInside ==
  ASSUME TypeInv, UNCHANGED <<wire, lo, hi>>, NEW p, NEW k \in Nat,
         i <= k, k <= hi + 1, Continue(p, k),
         p \in {"main", "burst", "rest", "trail", "rle"}
  PROVE  InChunk' /\ i' = k
BY DEF TypeInv, TypeOK, CursorOK, Continue, InChunk

LEMMA DoneInside ==
  ASSUME TypeInv, UNCHANGED <<wire, lo, hi>>, Done
  PROVE  InChunk' /\ i' = hi + 1
BY DEF TypeInv, TypeOK, CursorOK, Done, InChunk

(* The cursor of a running loop is a position of the chunk.                *)
LEMMA Running ==
  ASSUME TypeInv, pc # "out"
  PROVE  /\ i \in Nat /\ hi \in Nat /\ lo \in Nat /\ 1 <= lo /\ lo <= i /\ i <= hi
         /\ page \subseteq 1..(i - 1) /\ trailing \subseteq 1..(i - 1)
BY DEF TypeInv, TypeOK, CursorOK

(* A step that only handles a record and moves the cursor.                 *)
LEMMA HandledAndMoved ==
  ASSUME TypeInv, pc # "out", NEW r, HandleRecord(r), InChunk', i <= i',
         accum' \in {accum, <<>>},
         UNCHANGED <<wire, scans, pending_ff, page, trailing>>
  PROVE  TypeInv'
<1>1. i' \in Nat
  BY DEF InChunk, TypeInv, TypeOK
<1>2. page' \subseteq 1..(i' - 1) /\ trailing' \subseteq 1..(i' - 1)
  BY <1>1, Running
<1>3. /\ state' \in States
      /\ rle_mode' \in BOOLEAN /\ rle_pend' \in BOOLEAN
      /\ ev' \in Seq(Events) /\ log' \in Seq(Milestones)
  BY HandleRecordType DEF TypeInv
<1>4. accum' \in Seq(Fragments)
  <2>1. <<>> \in Seq(Fragments)
    OBVIOUS
  <2> QED
    BY <2>1 DEF TypeInv, TypeOK
<1>5. TypeOK'
  BY <1>2, <1>3, <1>4 DEF TypeInv, TypeOK, InChunk
<1> QED
  BY <1>5 DEF TypeInv, InChunk

-----------------------------------------------------------------------------
(* Each step preserves TypeInv: first the begin of a chunk, ...            *)

LEMMA BoundaryType ==
  ASSUME TypeInv, Boundary
  PROVE  TypeInv'
<1>. USE DEF Boundary
<1>. i \in Nat /\ hi \in Nat /\ lo \in Nat /\ 1 <= lo /\ lo <= i /\ i <= hi
  BY Running
<1>1. CASE BoundaryLeavesChunk
  BY <1>1 DEF BoundaryLeavesChunk, TypeInv, TypeOK, CursorOK, parser, result
<1>2. CASE BoundaryInJpeg
  <2>1. CASE HandleRecord(RecordAt(lo, hi)) /\ Done
    BY <1>2, <2>1, HandleRecordType, DoneInside
    DEF BoundaryInJpeg, TypeInv, TypeOK, InChunk
  <2>2. CASE ev' = <<>> /\ pc' = "main" /\ UNCHANGED <<state, rle_mode, rle_pend, i, log>>
    BY <1>2, <2>2 DEF BoundaryInJpeg, TypeInv, TypeOK, CursorOK
  <2> QED
    BY <1>2, <2>1, <2>2 DEF BoundaryInJpeg
<1>3. CASE BoundaryOpensRle
  BY <1>3 DEF BoundaryOpensRle, TypeInv, TypeOK, CursorOK, States, result
<1>4. CASE BoundaryCoalesced
  <2>1. lo + 3 <= hi + 1
    BY <1>4, RecordAtInside DEF BoundaryCoalesced, CoalescedStart, RecLen
  <2>2. i = lo
    BY DEF TypeInv, CursorOK
  <2>3. InChunk' /\ i' = lo + 3
    BY <1>4, <2>1, <2>2, ContinueInside DEF BoundaryCoalesced
  <2> QED
    BY <1>4, <2>2, <2>3, HandledAndMoved DEF BoundaryCoalesced
<1>5. CASE BoundaryShort
  <2>1. CASE lo = hi
    <3>1. InChunk' /\ i' = hi + 1
      BY <1>5, <2>1, DoneInside DEF BoundaryShort
    <3>2. accum' \in Seq(Fragments)
      BY <1>5, <2>1, Singleton DEF BoundaryShort, Fragments
    <3>3. TypeOK'
      BY <1>5, <2>1, <3>1, <3>2 DEF BoundaryShort, TypeInv, TypeOK, InChunk, result
    <3> QED
      BY <3>1, <3>3 DEF TypeInv, InChunk
  <2>2. CASE lo # hi
    BY <1>5, <2>2 DEF BoundaryShort, TypeInv, TypeOK, CursorOK, result
  <2> QED
    BY <2>1, <2>2
<1>6. CASE BoundaryNoRecord
  BY <1>6 DEF BoundaryNoRecord, TypeInv, TypeOK, CursorOK, States, result
<1> QED
  BY <1>1, <1>2, <1>3, <1>4, <1>5, <1>6

(* ... then the loop over a burst, ...                                     *)
LEMMA BurstType ==
  ASSUME TypeInv, Burst
  PROVE  TypeInv'
<1>. pc # "out"
  BY DEF Burst, BurstRest
<1>. i \in Nat /\ hi \in Nat /\ lo \in Nat /\ 1 <= lo /\ lo <= i /\ i <= hi
  BY Running
<1>1. CASE BurstRecord
  <2>1. i + RecLen(RecordAt(i, hi)) <= hi + 1 /\ RecLen(RecordAt(i, hi)) \in {2, 3}
    BY <1>1, RecordAtInside DEF BurstRecord
  <2>2. InChunk' /\ i' = i + RecLen(RecordAt(i, hi))
    BY <1>1, <2>1, ContinueInside DEF BurstRecord
  <2> QED
    BY <1>1, <2>1, <2>2, HandledAndMoved DEF BurstRecord
<1>2. CASE BurstPartial
  <2>1. InChunk' /\ i' = hi + 1
    BY <1>2, DoneInside DEF BurstPartial
  <2>2. wire[i + 1] \in Fragments
    BY <1>2 DEF BurstPartial, RecordOf, Fragments, Ids
  <2>3. accum' \in Seq(Fragments)
    BY <1>2, <2>2 DEF BurstPartial, Fragments
  <2>4. TypeOK'
    BY <1>2, <2>1, <2>3 DEF BurstPartial, TypeInv, TypeOK, InChunk, result
  <2> QED
    BY <2>1, <2>4 DEF TypeInv, InChunk
<1>3. CASE BurstUnknown
  <2>1. InChunk' /\ i' = hi + 1
    BY <1>3, DoneInside DEF BurstUnknown, CountTrailing
  <2>2. ev' \in Seq(Events)
    BY <1>3, Singleton, Pair DEF BurstUnknown, Events
  <2>3. page' \subseteq 1..(i' - 1) /\ trailing' \subseteq 1..(i' - 1)
    BY <1>3, <2>1, Running DEF BurstUnknown, CountTrailing
  <2>4. TypeOK'
    BY <1>3, <2>1, <2>2, <2>3 DEF BurstUnknown, TypeInv, TypeOK, InChunk, parser
  <2> QED
    BY <2>1, <2>4 DEF TypeInv, InChunk
<1>4. CASE BurstRest
  <2>1. InChunk' /\ i' = hi + 1
    BY <1>4, DoneInside DEF BurstRest, CountTrailing
  <2>2. TypeOK'
    BY <1>4, <2>1 DEF BurstRest, CountTrailing, TypeInv, TypeOK, InChunk, parser
  <2> QED
    BY <2>1, <2>2 DEF TypeInv, InChunk
<1> QED
  BY <1>1, <1>2, <1>3, <1>4 DEF Burst

(* ... the JPEG payload and what trails it, ...                            *)
LEMMA DataType ==
  ASSUME TypeInv, DataEoi \/ DataAppend \/ DataTail \/ ConsumeTrailing
  PROVE  TypeInv'
<1>. pc # "out"
  BY DEF DataEoi, DataAppend, DataTail, ConsumeTrailing, InJpeg
<1>. i \in Nat /\ hi \in Nat /\ lo \in Nat /\ 1 <= lo /\ lo <= i /\ i <= hi
  BY Running
<1>1. CASE DataEoi
  <2>1. InChunk' /\ i' = i + 1
    BY <1>1, ContinueInside DEF DataEoi
  <2>2. log' \in Seq(Milestones) /\ ev' \in Seq(Events)
    BY <1>1 DEF DataEoi, TypeInv, TypeOK, Milestones, Events
  <2>3. page' \subseteq 1..(i' - 1) /\ trailing' \subseteq 1..(i' - 1)
    BY <1>1, <2>1, Running DEF DataEoi
  <2>4. TypeOK'
    BY <1>1, <2>1, <2>2, <2>3 DEF DataEoi, TypeInv, TypeOK, InChunk, States
  <2> QED
    BY <2>1, <2>4 DEF TypeInv, InChunk
<1>2. CASE DataAppend
  <2>1. InChunk' /\ i' = i + 1
    BY <1>2, ContinueInside DEF DataAppend
  <2>2. ev' \in Seq(Events)
    BY <1>2 DEF DataAppend, Events
  <2>3. TypeOK'
    BY <1>2, <2>1, <2>2 DEF DataAppend, TypeInv, TypeOK, InChunk
  <2> QED
    BY <2>1, <2>3 DEF TypeInv, InChunk
<1>3. CASE DataTail
  <2>1. InChunk' /\ i' = hi + 1
    BY <1>3, DoneInside DEF DataTail
  <2> QED
    BY <1>3, <2>1, HandledAndMoved DEF DataTail
<1>4. CASE ConsumeTrailing
  <2>1. CASE RecordAt(i, hi) # "none"
    <3>1. i + RecLen(RecordAt(i, hi)) <= hi + 1 /\ RecLen(RecordAt(i, hi)) \in {2, 3}
      BY <2>1, RecordAtInside
    <3>2. InChunk' /\ i' = i + RecLen(RecordAt(i, hi))
      BY <1>4, <2>1, <3>1, ContinueInside DEF ConsumeTrailing
    <3> QED
      BY <1>4, <2>1, <3>1, <3>2, HandledAndMoved DEF ConsumeTrailing
  <2>2. CASE RecordAt(i, hi) = "none"
    <3>1. InChunk' /\ i' = hi + 1
      BY <1>4, <2>2, DoneInside DEF ConsumeTrailing, CountTrailing
    <3>2. page' \subseteq 1..(i' - 1) /\ trailing' \subseteq 1..(i' - 1)
      BY <1>4, <2>2, <3>1, Running DEF ConsumeTrailing, CountTrailing
    <3>3. TypeOK'
      BY <1>4, <2>2, <3>1, <3>2, Singleton
      DEF ConsumeTrailing, TypeInv, TypeOK, InChunk
    <3> QED
      BY <3>1, <3>3 DEF TypeInv, InChunk
  <2> QED
    BY <2>1, <2>2
<1> QED
  BY <1>1, <1>2, <1>3, <1>4

(* ... the RLENGTH framing, ...                                            *)
LEMMA RleType ==
  ASSUME TypeInv, RlePayload \/ RleBlock \/ RleRecord \/ RleError
  PROVE  TypeInv'
<1>. pc # "out"
  BY DEF RlePayload, RleBlock, RleRecord, RleError, InRle
<1>. i \in Nat /\ hi \in Nat /\ lo \in Nat /\ 1 <= lo /\ lo <= i /\ i <= hi
  BY Running
<1>1. CASE RlePayload
  <2>1. InChunk' /\ i' = i + 1
    BY <1>1, ContinueInside DEF RlePayload
  <2>2. ev' \in Seq(Events)
    BY <1>1 DEF RlePayload, Events
  <2>3. page' \subseteq 1..(i' - 1) /\ trailing' \subseteq 1..(i' - 1)
    BY <1>1, <2>1, Running DEF RlePayload
  <2>4. TypeOK'
    BY <1>1, <2>1, <2>2, <2>3 DEF RlePayload, TypeInv, TypeOK, InChunk
  <2> QED
    BY <2>1, <2>4 DEF TypeInv, InChunk
<1>2. CASE RleBlock
  <2>1. InChunk' /\ i' = i + 3
    BY <1>2, ContinueInside DEF RleBlock
  <2>2. ev' \in Seq(Events)
    BY <1>2 DEF RleBlock, Events
  <2>3. TypeOK'
    BY <1>2, <2>1, <2>2 DEF RleBlock, TypeInv, TypeOK, InChunk, result
  <2> QED
    BY <2>1, <2>3 DEF TypeInv, InChunk
<1>3. CASE RleRecord
  <2>1. i + RecLen(RecordAt(i, hi)) <= hi + 1 /\ RecLen(RecordAt(i, hi)) \in {2, 3}
    BY <1>3, RecordAtInside DEF RleRecord
  <2>2. InChunk' /\ i' = i + RecLen(RecordAt(i, hi))
    BY <1>3, <2>1, ContinueInside DEF RleRecord
  <2> QED
    BY <1>3, <2>1, <2>2, HandledAndMoved DEF RleRecord
<1>4. CASE RleError
  <2>1. log' \in Seq(Milestones) /\ ev' \in Seq(Events)
    BY <1>4 DEF RleError, Fail, TypeInv, TypeOK, Milestones, Events
  <2> QED
    BY <1>4, <2>1 DEF RleError, Fail, TypeInv, TypeOK, CursorOK, States
<1> QED
  BY <1>1, <1>2, <1>3, <1>4

(* ... the records continued from the last chunk, ...                      *)
LEMMA NonDataType ==
  ASSUME TypeInv, AccumId \/ AccumRest \/ NoRecord \/ IgnoreRest
  PROVE  TypeInv'
<1>. pc # "out"
  BY DEF AccumId, AccumRest, NoRecord, IgnoreRest, InNonData
<1>. i \in Nat /\ hi \in Nat /\ lo \in Nat /\ 1 <= lo /\ lo <= i /\ i <= hi
  BY Running
<1>1. CASE AccumId
  <2>1. InChunk' /\ i' = i + 1
    BY <1>1, ContinueInside DEF AccumId
  <2>2. /\ accum' \in Seq(Fragments) /\ ev' \in Seq(Events) /\ log' \in Seq(Milestones)
        /\ state' \in States /\ rle_mode' \in BOOLEAN /\ rle_pend' \in BOOLEAN
    <3>1. CASE wire[i] = "x20"
      BY <1>1, <3>1, HandleRecordType, Singleton DEF AccumId, TypeInv
    <3>2. CASE wire[i] \in {"x02", "x11", "x21", "x01"}
      <4>1. /\ accum' = <<"nul", wire[i]>> /\ ev' = <<>>
            /\ UNCHANGED <<state, rle_mode, rle_pend, log>>
        BY <1>1, <3>2 DEF AccumId
      <4>2. accum' \in Seq(Fragments)
        BY <3>2, <4>1, Pair DEF Fragments, Ids
      <4> QED
        BY <4>1, <4>2, Singleton DEF TypeInv, TypeOK
    <3>3. CASE wire[i] \notin {"x20", "x02", "x11", "x21", "x01"}
      <4>1. /\ accum' = <<>> /\ ev' = <<"WARN", "RECORD">>
            /\ UNCHANGED <<state, rle_mode, rle_pend, log>>
        BY <1>1, <3>3 DEF AccumId
      <4>2. ev' \in Seq(Events)
        BY <4>1, Pair DEF Events
      <4> QED
        BY <4>1, <4>2, Singleton DEF TypeInv, TypeOK
    <3> QED
      BY <3>1, <3>2, <3>3
  <2>3. UNCHANGED <<wire, scans, pending_ff, page, trailing>>
    BY <1>1 DEF AccumId
  <2>4. page' \subseteq 1..(i' - 1) /\ trailing' \subseteq 1..(i' - 1)
    BY <2>1, <2>3, Running
  <2>5. TypeOK'
    BY <2>1, <2>2, <2>3, <2>4 DEF TypeInv, TypeOK, InChunk
  <2> QED
    BY <2>1, <2>5 DEF TypeInv, InChunk
<1>2. CASE AccumRest
  <2>1. InChunk' /\ i' = i + 1
    BY <1>2, ContinueInside DEF AccumRest
  <2> QED
    BY <1>2, <2>1, HandledAndMoved DEF AccumRest
<1>3. CASE NoRecord
  <2>1. CASE state = "ARMED"
    <3>1. ev' \in Seq(Events)
      BY <1>3 DEF NoRecord
    <3> QED
      BY <1>3, <2>1, <3>1 DEF NoRecord, InNonData, TypeInv, TypeOK, CursorOK, States
  <2>2. CASE state # "ARMED"
    <3>1. InChunk' /\ i' = hi + 1
      BY <1>3, <2>2, DoneInside DEF NoRecord, CountTrailing
    <3>2. page' \subseteq 1..(i' - 1) /\ trailing' \subseteq 1..(i' - 1)
      BY <1>3, <2>2, <3>1, Running DEF NoRecord, CountTrailing
    <3>3. TypeOK'
      BY <1>3, <2>2, <3>1, <3>2, Singleton DEF NoRecord, TypeInv, TypeOK, InChunk
    <3> QED
      BY <3>1, <3>3 DEF TypeInv, InChunk
  <2> QED
    BY <2>1, <2>2
<1>4. CASE IgnoreRest
  <2>1. InChunk' /\ i' = hi + 1
    BY <1>4, DoneInside DEF IgnoreRest
  <2>2. TypeOK'
    BY <1>4, <2>1 DEF IgnoreRest, TypeInv, TypeOK, InChunk, parser, result
  <2> QED
    BY <2>1, <2>2 DEF TypeInv, InChunk
<1> QED
  BY <1>1, <1>2, <1>3, <1>4

(* Clear() leaves an empty chunk before the stream.                        *)
LEMMA ClearType ==
  ASSUME NEW s \in States, Clear(s)
  PROVE  /\ state' \in States
         /\ rle_mode' \in BOOLEAN /\ rle_pend' \in BOOLEAN /\ pending_ff' \in BOOLEAN
         /\ accum' \in Seq(Fragments) /\ ev' \in Seq(Events) /\ log' \in Seq(Milestones)
         /\ pc' = "out" /\ lo' = 1 /\ hi' = 0 /\ i' = 1 /\ page' = {} /\ trailing' = {}
<1>1. <<>> \in Seq(Fragments) /\ <<>> \in Seq(Events) /\ <<>> \in Seq(Milestones)
  OBVIOUS
<1> QED
  BY <1>1 DEF Clear

(* ... and the callers.                                                    *)
LEMMA CallerType ==
  ASSUME TypeInv, (\E w \in Streams : Arm(w)) \/ Reset \/ FeedUnarmed \/ FeedNext
  PROVE  TypeInv'
<1>1. CASE \E w \in Streams : Arm(w)
  <2>1. PICK w \in Streams : Arm(w)
    BY <1>1
  <2>2. wire' \in Streams /\ scans' \in 0..MaxScans /\ Clear("ARMED")
    BY <2>1, MaxScansAssumption DEF Arm, TypeInv, TypeOK
  <2>3. Len(wire') \in Nat
    BY <2>2, StreamsAssumption
  <2> QED
    BY <2>2, <2>3, ClearType DEF States, TypeInv, TypeOK, CursorOK
<1>2. CASE Reset
  <2>1. wire' = <<>> /\ scans' \in 0..MaxScans /\ Clear("IDLE")
    BY <1>2 DEF Reset, TypeInv, TypeOK
  <2>2. Len(wire') = 0
    BY <2>1
  <2> QED
    BY <2>1, <2>2, ClearType DEF States, TypeInv, TypeOK, CursorOK
<1>3. CASE FeedUnarmed
  <2>1. ev' \in Seq(Events)
    BY <1>3, Singleton DEF FeedUnarmed, Events, Milestones
  <2> QED
    BY <1>3, <2>1 DEF FeedUnarmed, TypeInv, TypeOK, CursorOK, States, cursor, result
<1>4. CASE FeedNext
  <2>1. PICK h \in (hi + 1)..Len(wire) : Feed(h)
    BY <1>4 DEF FeedNext
  <2> QED
    BY <2>1 DEF Feed, TypeInv, TypeOK, CursorOK, parser, result
<1> QED
  BY <1>1, <1>2, <1>3, <1>4

-----------------------------------------------------------------------------
(* The variables have their types, the cursor stays in the chunk that      *)
(* br5_parser_feed() was given, and nothing behind it is passed on or      *)
(* counted: for every set of streams, however they are cut.                *)
LEMMA TypeInductive ==
  ASSUME TypeInv, [Next]_vars
  PROVE  TypeInv'
<1>1. CASE Next
  BY <1>1, BoundaryType, BurstType, DataType, RleType, NonDataType, CallerType DEF Next, Step
<1>2. CASE UNCHANGED vars
  BY <1>2 DEF vars, parser, cursor, result, TypeInv, TypeOK, CursorOK
<1> QED
  BY <1>1, <1>2

LEMMA InitType == Init => TypeInv
<1> SUFFICES ASSUME Init PROVE TypeInv
  OBVIOUS
<1>1. /\ accum \in Seq(Fragments) /\ ev \in Seq(Events) /\ log \in Seq(Milestones)
      /\ Len(wire) = 0 /\ wire \in Streams \cup {<<>>} /\ scans \in 0..MaxScans
  BY Singleton, MaxScansAssumption DEF Init
<1>2. /\ lo \in 1..(Len(wire) + 1) /\ hi \in 0..Len(wire) /\ i \in lo..(hi + 1)
      /\ page \subseteq 1..(i - 1) /\ trailing \subseteq 1..(i - 1)
  BY <1>1 DEF Init
<1> QED
  BY <1>1, <1>2 DEF Init, TypeInv, TypeOK, CursorOK, States

LEMMA TypeInvariant == Spec => []TypeInv
BY InitType, TypeInductive, PTL DEF Spec

THEOREM TypeCorrect == Spec => []TypeOK
<1>1. TypeInv => TypeOK
  BY DEF TypeInv
<1> QED
  BY <1>1, TypeInvariant, PTL

-----------------------------------------------------------------------------
(* EoiExact. It is not inductive: that a d9 closes the page depends on the *)
(* flag pending_ff, so the invariant says what the flag stands for. It is  *)
(* set exactly when the last payload byte passed on is an ff, and only     *)
(* while JPEG data is read; hence no record between two reads disturbs it. *)

LastIsFf == \E q \in page : wire[q] = "ff" /\ \A p \in page : p <= q

EoiInv ==
  /\ pending_ff => state = "DATA" /\ ~rle_mode /\ LastIsFf
  /\ LastIsFf /\ ~rle_mode => pending_ff
  /\ pc = "rle" => rle_mode
  /\ EoiExact

(* A record reports no EOI, ...                                            *)
LEMMA RecordsReportNoEoi ==
  ASSUME TypeOK, NEW r, HandleRecord(r)
  PROVE  Reported("JPEG_EOI")' <=> Reported("JPEG_EOI")
<1>1. MilestoneOf(r) \in {<<>>, <<"SESSION_END">>, <<"PAGE_END">>}
  BY DEF MilestoneOf
<1>2. log \in Seq(Milestones) /\ log' = log \o MilestoneOf(r)
  BY DEF TypeOK, HandleRecord
<1>3. CASE MilestoneOf(r) = <<>>
  BY <1>2, <1>3 DEF Reported
<1>4. CASE MilestoneOf(r) = <<"SESSION_END">>
  BY <1>2, <1>4 DEF Reported
<1>5. CASE MilestoneOf(r) = <<"PAGE_END">>
  BY <1>2, <1>5 DEF Reported
<1> QED
  BY <1>1, <1>3, <1>4, <1>5

(* ... and leaves JPEG data JPEG data.                                     *)
LEMMA RecordsKeepJpeg ==
  ASSUME NEW r, HandleRecord(r)
  PROVE  /\ state = "DATA" /\ ~rle_mode => state' = "DATA" /\ ~rle_mode'
         /\ rle_mode => rle_mode'
BY DEF HandleRecord, NextState, OpensBlock, Listening

(* Neither does anything that passes no payload on.                        *)
LEMMA NoPayload ==
  ASSUME EoiInv, UNCHANGED <<wire, page, pending_ff>>,
         Reported("JPEG_EOI")' <=> Reported("JPEG_EOI"),
         pending_ff => state' = "DATA" /\ ~rle_mode',
         rle_mode => rle_mode', pc' = "rle" => rle_mode'
  PROVE  EoiInv'
<1>1. EoiReached' <=> EoiReached
  BY DEF EoiReached
<1>2. LastIsFf' <=> LastIsFf
  BY DEF LastIsFf
<1>3. EoiExact'
  BY <1>1 DEF EoiInv, EoiExact
<1> QED
  BY <1>2, <1>3 DEF EoiInv

LEMMA HandledRecord ==
  ASSUME TypeOK, EoiInv, NEW r, HandleRecord(r), UNCHANGED <<wire, page, pending_ff>>,
         pc' = "rle" => rle_mode
  PROVE  EoiInv'
<1>1. pending_ff => state' = "DATA" /\ ~rle_mode'
  BY RecordsKeepJpeg DEF EoiInv
<1>2. rle_mode => rle_mode'
  BY RecordsKeepJpeg
<1> QED
  BY <1>1, <1>2, RecordsReportNoEoi, NoPayload

(* A step that handles no record and passes nothing on.                    *)
LEMMA QuietStep ==
  ASSUME EoiInv, UNCHANGED <<wire, page, pending_ff, log, rle_mode>>,
         state' = state \/ ~pending_ff, pc' = "rle" => rle_mode
  PROVE  EoiInv'
<1>1. Reported("JPEG_EOI")' <=> Reported("JPEG_EOI")
  BY DEF Reported
<1> QED
  BY <1>1, NoPayload DEF EoiInv

(* The step that passes payload on: the ff of an earlier read counts.      *)
LEMMA AppendedData ==
  ASSUME TypeInv, EoiInv, DataAppend
  PROVE  EoiInv'
<1>1. /\ i \in Nat /\ page \subseteq 1..(i - 1)
      /\ page' = page \cup {i} /\ UNCHANGED <<wire, state, rle_mode, log>>
      /\ pending_ff' = (wire[i] = "ff")
      /\ state = "DATA" /\ ~rle_mode /\ pc' # "rle"
  BY Running DEF DataAppend, InJpeg, Continue
<1>2. LastIsFf' <=> wire[i] = "ff"
  BY <1>1 DEF LastIsFf
<1>3. ~(pending_ff /\ wire[i] = "d9")
  BY DEF DataAppend
<1>4. EoiReached => EoiReached'
  BY <1>1 DEF EoiReached
<1>5. EoiReached' => EoiReached
  <2> SUFFICES ASSUME NEW q \in page', NEW p \in page',
                      q < p, wire[q] = "ff", wire[p] = "d9",
                      \A k \in page' : k <= q \/ k >= p
               PROVE  EoiReached
    BY <1>1 DEF EoiReached
  <2>1. CASE p = i
    <3>1. q \in page /\ \A k \in page : k <= q
      BY <1>1, <2>1
    <3>2. LastIsFf
      BY <3>1 DEF LastIsFf
    <3> QED
      BY <1>1, <1>3, <2>1, <3>2 DEF EoiInv
  <2>2. CASE p # i
    <3>1. p \in page /\ q \in page
      BY <1>1, <2>2
    <3> QED
      BY <1>1, <3>1 DEF EoiReached
  <2> QED
    BY <2>1, <2>2
<1>6. Reported("JPEG_EOI")' <=> Reported("JPEG_EOI")
  BY <1>1 DEF Reported
<1>7. EoiExact'
  BY <1>1, <1>4, <1>5, <1>6 DEF EoiInv, EoiExact
<1> QED
  BY <1>1, <1>2, <1>7 DEF EoiInv

LEMMA FoundEoi ==
  ASSUME TypeInv, EoiInv, DataEoi
  PROVE  EoiInv'
<1>1. /\ i \in Nat /\ page \subseteq 1..(i - 1)
      /\ page' = page \cup {i} /\ UNCHANGED <<wire, rle_mode>>
      /\ ~pending_ff' /\ pending_ff /\ wire[i] = "d9"
      /\ log' = Append(log, "JPEG_EOI") /\ log \in Seq(Milestones)
      /\ pc' # "rle"
  BY Running DEF DataEoi, InJpeg, Continue, TypeInv, TypeOK
<1>2. ~LastIsFf'
  BY <1>1 DEF LastIsFf
<1>3. EoiReached'
  <2>1. PICK q \in page : wire[q] = "ff" /\ \A p \in page : p <= q
    BY <1>1 DEF EoiInv, LastIsFf
  <2> QED
    BY <1>1, <2>1 DEF EoiReached
<1>4. Reported("JPEG_EOI")'
  BY <1>1 DEF Reported
<1> QED
  BY <1>1, <1>2, <1>3, <1>4 DEF EoiInv, EoiExact

(* The scanlines of an RLENGTH page come behind every JPEG payload.        *)
LEMMA PassedBlock ==
  ASSUME TypeInv, EoiInv, RlePayload
  PROVE  EoiInv'
<1>1. /\ i \in Nat /\ page \subseteq 1..(i - 1)
      /\ page' = page \cup {i} /\ UNCHANGED <<wire, rle_mode, pending_ff, log>>
      /\ rle_mode
  BY Running DEF RlePayload, InRle, EoiInv
<1>2. EoiReached => EoiReached'
  BY <1>1 DEF EoiReached
<1>3. Reported("JPEG_EOI")' <=> Reported("JPEG_EOI")
  BY <1>1 DEF Reported
<1> QED
  BY <1>1, <1>2, <1>3 DEF EoiInv, EoiExact

LEMMA ChunkStart ==
  ASSUME TypeInv, EoiInv, Boundary
  PROVE  EoiInv'
<1>1. CASE BoundaryLeavesChunk
  BY <1>1, QuietStep DEF BoundaryLeavesChunk, parser, result
<1>2. CASE BoundaryInJpeg
  <2>1. CASE HandleRecord(RecordAt(lo, hi)) /\ Done
    BY <1>2, <2>1, HandledRecord DEF BoundaryInJpeg, Done, TypeInv
  <2>2. CASE ev' = <<>> /\ pc' = "main" /\ UNCHANGED <<state, rle_mode, rle_pend, i, log>>
    BY <1>2, <2>2, QuietStep DEF BoundaryInJpeg
  <2> QED
    BY <1>2, <2>1, <2>2 DEF BoundaryInJpeg
<1>3. CASE BoundaryOpensRle
  <2>1. Reported("JPEG_EOI")' <=> Reported("JPEG_EOI")
    BY <1>3 DEF BoundaryOpensRle, result, Reported
  <2>2. ~pending_ff
    BY <1>3 DEF BoundaryOpensRle, OpensRle, EoiInv
  <2> QED
    BY <1>3, <2>1, <2>2, NoPayload DEF BoundaryOpensRle, result
<1>4. CASE BoundaryCoalesced
  BY <1>4, HandledRecord DEF BoundaryCoalesced, Continue, TypeInv
<1>5. CASE BoundaryShort
  BY <1>5, QuietStep DEF BoundaryShort, Done, result
<1>6. CASE BoundaryNoRecord
  BY <1>6, QuietStep DEF BoundaryNoRecord, result, EoiInv
<1> QED
  BY <1>1, <1>2, <1>3, <1>4, <1>5, <1>6 DEF Boundary

LEMMA ParserStep ==
  ASSUME TypeInv, EoiInv, Step
  PROVE  EoiInv'
<1>. TypeOK
  BY DEF TypeInv
<1>1. CASE Boundary
  BY <1>1, ChunkStart
<1>2. CASE Burst
  <2>1. CASE BurstRecord
    BY <2>1, HandledRecord DEF BurstRecord, Continue
  <2>2. CASE BurstPartial
    BY <2>2, QuietStep DEF BurstPartial, Done, result
  <2>3. CASE BurstUnknown
    BY <2>3, QuietStep DEF BurstUnknown, CountTrailing, Done, parser
  <2>4. CASE BurstRest
    BY <2>4, QuietStep DEF BurstRest, CountTrailing, Done, parser
  <2> QED
    BY <1>2, <2>1, <2>2, <2>3, <2>4 DEF Burst
<1>3. CASE DataEoi \/ DataAppend
  BY <1>3, FoundEoi, AppendedData
<1>4. CASE DataTail
  BY <1>4, HandledRecord DEF DataTail, Done
<1>5. CASE ConsumeTrailing
  <2>1. CASE RecordAt(i, hi) # "none"
    BY <1>5, <2>1, HandledRecord DEF ConsumeTrailing, Continue
  <2>2. CASE RecordAt(i, hi) = "none"
    BY <1>5, <2>2, QuietStep DEF ConsumeTrailing, CountTrailing, Done
  <2> QED
    BY <2>1, <2>2
<1>6. CASE RlePayload
  BY <1>6, PassedBlock
<1>7. CASE RleBlock
  BY <1>7, QuietStep DEF RleBlock, Continue, InRle, result, EoiInv
<1>8. CASE RleRecord
  BY <1>8, HandledRecord DEF RleRecord, Continue, InRle, EoiInv
<1>9. CASE RleError
  <2>1. rle_mode /\ ~pending_ff
    BY <1>9 DEF RleError, InRle, EoiInv
  <2>2. Reported("JPEG_EOI")' <=> Reported("JPEG_EOI")
    BY <1>9 DEF RleError, Fail, Reported, TypeOK
  <2> QED
    BY <1>9, <2>1, <2>2, NoPayload DEF RleError, Fail
<1>10. CASE AccumId
  <2>1. CASE wire[i] = "x20"
    BY <1>10, <2>1, HandledRecord DEF AccumId, Continue
  <2>2. CASE wire[i] # "x20"
    BY <1>10, <2>2, QuietStep DEF AccumId, Continue
  <2> QED
    BY <2>1, <2>2
<1>11. CASE AccumRest
  BY <1>11, HandledRecord DEF AccumRest, Continue
<1>12. CASE NoRecord
  <2>1. ~pending_ff
    BY <1>12 DEF NoRecord, InNonData, EoiInv
  <2> QED
    BY <1>12, <2>1, QuietStep DEF NoRecord, InNonData, CountTrailing, Done
<1>13. CASE IgnoreRest
  BY <1>13, QuietStep DEF IgnoreRest, Done, parser, result
<1> QED
  BY <1>1, <1>2, <1>3, <1>4, <1>5, <1>6, <1>7, <1>8, <1>9, <1>10, <1>11, <1>12, <1>13
  DEF Step

(* A fresh scan has nothing passed on and nothing reported.                *)
LEMMA FreshScan ==
  ASSUME page' = {}, log' = <<>>, ~pending_ff', pc' = "out"
  PROVE  EoiInv'
BY DEF EoiInv, EoiExact, EoiReached, Reported, LastIsFf

LEMMA EoiInductive ==
  ASSUME TypeInv, EoiInv, [Next]_vars
  PROVE  EoiInv'
<1>1. CASE \E w \in Streams : Arm(w)
  BY <1>1, FreshScan DEF Arm, Clear
<1>2. CASE Reset
  BY <1>2, FreshScan DEF Reset, Clear
<1>3. CASE FeedUnarmed
  BY <1>3, QuietStep DEF FeedUnarmed, cursor, result, EoiInv
<1>4. CASE FeedNext
  BY <1>4, QuietStep DEF FeedNext, Feed, parser, result
<1>5. CASE Step
  BY <1>5, ParserStep
<1>6. CASE UNCHANGED vars
  BY <1>6, QuietStep DEF vars, parser, cursor, result, EoiInv
<1> QED
  BY <1>1, <1>2, <1>3, <1>4, <1>5, <1>6 DEF Next

(* JPEG_EOI is reported exactly when an ff directly followed by a d9 was    *)
(* passed on as JPEG payload: for every stream, wherever the reads cut it  *)
(* and whatever records ride between the two bytes.                        *)
THEOREM EoiIsExact == Spec => []EoiExact
<1>1. Init => EoiInv
  BY DEF Init, EoiInv, EoiExact, EoiReached, Reported, LastIsFf
<1>2. TypeInv /\ EoiInv /\ [Next]_vars => EoiInv'
  BY EoiInductive
<1>3. EoiInv => EoiExact
  BY DEF EoiInv
<1> QED
  BY <1>1, <1>2, <1>3, TypeInvariant, PTL DEF Spec

-----------------------------------------------------------------------------
(* What the parser promises the session that feeds it.                     *)

Waiting  == {"ARMED", "PAGE_DONE", "SESSION_DONE"}
Headless == Ids \cup {"x01", "x33", "hdr", "body"}

(* A fragment f was taken from the stream.                                 *)
Passed(f) == \E k \in 1..(i - 1) : wire[k] = f

Says(e) == \E k \in 1..Len(ev) : ev[k] = e

CursorInv ==
  /\ pc = "out" /\ state # "ERROR" => i = hi + 1
  /\ pc # "out" => state # "ERROR"
  /\ pc # "out" /\ wire[hi] = "nul" => lo = hi

LoopInv ==
  /\ pc = "boundary" => state # "IDLE"
  /\ pc = "burst" => lo < hi /\ state \in Waiting
  /\ pc = "trail" => ~rle_mode
  /\ pc = "rle" => rle_mode
  /\ pc = "rle" => state = "DATA" \/ Passed("x21")

(* the record that a read has cut                                          *)
AccumInv ==
  /\ accum # <<>> => pc \in {"out", "boundary", "main"} /\ state \in Waiting
  /\ Len(accum) = 2 => 1 < i /\ wire[i - 1] = accum[2]
  /\ Len(accum) = 2 => accum[2] \in {"x02", "x11", "x21", "x01"}

ReadInv ==
  ShortPackets =>
    \A b \in {lo, hi + 1} : 2 <= b /\ b <= Len(wire) => wire[b] \notin Headless

FrameInv == TypeInv /\ CursorInv /\ LoopInv /\ AccumInv /\ ReadInv

(* What an event says of the stream, and the steps that owe a payload or   *)
(* report a milestone.                                                     *)
Contract ==
  /\ UNCHANGED <<wire, lo, hi>> /\ i <= i'
  /\ Says("JPEG_EOI")' => wire[i] = "d9" /\ i' = i + 1
  /\ Says("RLE_DATA")' => rle_pend
  /\ Says("BLOCK")' =>
       \/ \E k \in i..(i' - 1) : wire[k] = "x01"
       \/ Len(accum) = 2 /\ accum[2] = "x01"
  /\ Says("PAGE_END")' =>
       /\ accum' = <<>> /\ state' # "DATA"
       /\ \/ \E k \in i..(i' - 1) : wire[k] = "x21"
          \/ Len(accum) = 2 /\ accum[2] = "x21" /\ i < i'
  /\ Says("SESSION_END")' => i < i' /\ wire[i' - 1] = "x20"
  /\ state' = "ERROR" => Says("ERROR")'
  /\ rle_pend' => rle_pend \/ Says("BLOCK")'
  /\ i' = i => accum' \in {accum, <<>>}
  /\ log' = log \/ \E m \in Milestones : log' = Append(log, m) /\ Says(m)'

(* Nothing is left that belongs to a page.                                 *)
PageOver ==
  /\ ~rle_pend
  /\ Len(accum) = 2 => accum[2] # "x01"
  /\ \A k \in i..Len(wire) : wire[k] \notin {"d9", "x01"}

-----------------------------------------------------------------------------
LEMMA RecordBytes ==
  ASSUME NEW k \in Nat, NEW h \in Nat
  PROVE  /\ RecordAt(k, h) # "block"
         /\ RecordAt(k, h) = "pageEnd" => wire[k + 1] = "x21" /\ k + 2 <= h
         /\ RecordAt(k, h) = "scanEnd" => wire[k + 1] = "x20" /\ k + 1 <= h
         /\ RecordAt(k, h) = "progress" => k + 2 <= h
BY DEF RecordAt, RecordOf, RecLen

(* The events of handle_record().                                          *)
LEMMA HandledEvents ==
  ASSUME NEW r, HandleRecord(r), NEW e, Says(e)'
  PROVE  \/ e = "BLOCK" /\ r = "block"
         \/ e = "RECORD" /\ r # "block"
         \/ e = "SESSION_END" /\ r = "scanEnd" /\ Listening
         \/ e = "PAGE_END" /\ r = "pageEnd" /\ Listening /\ state # "SESSION_DONE"
<1>1. ev' = <<IF r = "block" THEN "BLOCK" ELSE "RECORD">> \o MilestoneOf(r)
  BY DEF HandleRecord
<1>2. CASE r = "scanEnd" /\ Listening
  BY <1>1, <1>2 DEF MilestoneOf, Says
<1>3. CASE r = "pageEnd" /\ Listening /\ state # "SESSION_DONE"
  BY <1>1, <1>3 DEF MilestoneOf, Says
<1>4. CASE MilestoneOf(r) = <<>>
  BY <1>1, <1>4 DEF Says
<1> QED
  BY <1>2, <1>3, <1>4 DEF MilestoneOf

LEMMA HandledPageEnd ==
  ASSUME NEW r, HandleRecord(r), Says("PAGE_END")'
  PROVE  state' # "DATA"
<1>1. r = "pageEnd" /\ Listening /\ state # "SESSION_DONE"
  BY HandledEvents
<1> QED
  BY <1>1 DEF HandleRecord, NextState, Listening

LEMMA HandledLog ==
  ASSUME NEW r, HandleRecord(r), TypeOK
  PROVE  log' = log \/ \E m \in Milestones : log' = Append(log, m) /\ Says(m)'
<1>1. log \in Seq(Milestones) /\ log' = log \o MilestoneOf(r)
  BY DEF HandleRecord, TypeOK
<1>2. CASE MilestoneOf(r) = <<>>
  BY <1>1, <1>2
<1>3. ASSUME NEW m \in {"SESSION_END", "PAGE_END"}, MilestoneOf(r) = <<m>>
      PROVE  log' = Append(log, m) /\ Says(m)' /\ m \in Milestones
  <2>1. log' = Append(log, m)
    BY <1>1, <1>3
  <2>2. Len(ev') = 2 /\ ev'[2] = m
    BY <1>3 DEF HandleRecord
  <2> QED
    BY <2>1, <2>2 DEF Says, Milestones
<1> QED
  BY <1>2, <1>3 DEF MilestoneOf

(* A step with none of the events that say something.                      *)
LEMMA QuietEvents ==
  ASSUME ev' \in {<<>>, <<"RECORD">>, <<"JPEG_DATA">>, <<"WARN", "RECORD">>}
  PROVE  \A e \in {"JPEG_EOI", "RLE_DATA", "BLOCK", "PAGE_END", "SESSION_END", "ERROR"} :
           ~Says(e)'
BY DEF Says

LEMMA QuietContract ==
  ASSUME ev' \in {<<>>, <<"RECORD">>, <<"JPEG_DATA">>, <<"WARN", "RECORD">>},
         UNCHANGED <<wire, lo, hi, log>>, i <= i', state' # "ERROR", rle_pend' => rle_pend,
         i' = i => accum' \in {accum, <<>>}
  PROVE  Contract
BY QuietEvents DEF Contract

LEMMA PassedStays ==
  ASSUME TypeInv, wire' = wire, NEW n \in Nat, i' = n, i <= n, NEW f, Passed(f)
  PROVE  Passed(f)'
BY DEF Passed, TypeInv, TypeOK

LEMMA JustPassed ==
  ASSUME wire' = wire, NEW n \in Nat, i' = n, NEW k \in 1..(n - 1)
  PROVE  Passed(wire[k])'
BY DEF Passed

(* What is left to show of a step is what concerns the loops and the record *)
(* that was cut.                                                           *)
LEMMA FrameKept ==
  ASSUME FrameInv, TypeInv', UNCHANGED <<wire, lo, hi>>, pc # "out",
         NEW n \in Nat, i' = n, i <= n,
         pc' = "out" => n = hi + 1 \/ state' = "ERROR",
         pc' # "out" => state' # "ERROR",
         LoopInv', AccumInv'
  PROVE  FrameInv'
<1>1. CursorInv'
  BY DEF FrameInv, CursorInv
<1>2. ReadInv'
  BY DEF FrameInv, ReadInv
<1> QED
  BY <1>1, <1>2 DEF FrameInv

(* The cursor of a running loop.                                           *)
LEMMA At ==
  ASSUME FrameInv, pc # "out"
  PROVE  /\ i \in Nat /\ hi \in Nat /\ lo \in Nat /\ 1 <= lo /\ lo <= i /\ i <= hi
         /\ state # "ERROR" /\ state \in States
         /\ (wire[hi] = "nul" => lo = hi)
BY Running DEF FrameInv, CursorInv, TypeInv, TypeOK

LEMMA StepKeepsType ==
  ASSUME FrameInv, Step
  PROVE  TypeInv'
BY TypeInductive DEF FrameInv, Next

(* The record at the cursor is handled.                                    *)
LEMMA HandledAtCursor ==
  ASSUME FrameInv, pc # "out", NEW r, r = RecordAt(i, hi), r # "none", HandleRecord(r),
         UNCHANGED <<wire, lo, hi, accum>>, i' = i + RecLen(r),
         accum = <<>>
  PROVE  /\ Contract
         /\ rle_pend' = rle_pend /\ rle_mode' = rle_mode
         /\ state' # "ERROR"
         /\ r = "pageEnd" => Passed("x21")'
<1>. i \in Nat /\ hi \in Nat /\ 1 <= i /\ state # "ERROR"
  BY At
<1>1. r # "block" /\ RecLen(r) \in {2, 3}
  BY RecordBytes, RecordAtInside
<1>2. rle_pend' = rle_pend /\ rle_mode' = rle_mode
  BY <1>1 DEF HandleRecord, OpensBlock, FrameInv, TypeInv, TypeOK
<1>3. state' # "ERROR"
  BY DEF HandleRecord, NextState
<1>4. r = "pageEnd" => wire[i + 1] = "x21" /\ i' = i + 3
  BY RecordBytes DEF RecLen
<1>5. r = "scanEnd" => wire[i + 1] = "x20" /\ i' = i + 2
  BY RecordBytes DEF RecLen
<1>6. \A e : Says(e)' => \/ e = "RECORD"
                         \/ e = "SESSION_END" /\ r = "scanEnd"
                         \/ e = "PAGE_END" /\ r = "pageEnd"
  BY <1>1, HandledEvents
<1>7. i <= i' /\ i' # i /\ (Says("PAGE_END")' => state' # "DATA")
  BY <1>1, HandledPageEnd
<1>8. Contract
  <2>1. log' = log \/ \E m \in Milestones : log' = Append(log, m) /\ Says(m)'
    BY HandledLog DEF FrameInv, TypeInv
  <2> QED
    BY <1>2, <1>3, <1>4, <1>5, <1>6, <1>7, <2>1 DEF Contract
<1>9. ASSUME r = "pageEnd" PROVE Passed("x21")'
  <2>1. i + 1 \in 1..(i' - 1)
    BY <1>4, <1>9
  <2> QED
    BY <1>4, <1>9, <2>1 DEF Passed
<1> QED
  BY <1>2, <1>3, <1>8, <1>9

(* In JPEG data a record is only reported.                                 *)
LEMMA HandledInJpeg ==
  ASSUME FrameInv, NEW r, r # "block", HandleRecord(r), state = "DATA", ~rle_mode
  PROVE  ev' = <<"RECORD">> /\ UNCHANGED <<state, rle_mode, rle_pend, log>>
<1>1. MilestoneOf(r) = <<>> /\ ~OpensBlock(r) /\ NextState(r) = "DATA"
  BY DEF MilestoneOf, Listening, OpensBlock, NextState
<1>2. log \in Seq(Milestones) /\ rle_mode \in BOOLEAN /\ rle_pend \in BOOLEAN
  BY DEF FrameInv, TypeInv, TypeOK
<1> QED
  BY <1>1, <1>2 DEF HandleRecord

LEMMA BoundaryFrame ==
  ASSUME FrameInv, Boundary
  PROVE  FrameInv' /\ Contract
<1>. TypeInv'
  BY StepKeepsType DEF Step
<1>. /\ pc = "boundary" /\ state # "IDLE" /\ state # "ERROR" /\ i = lo
     /\ i \in Nat /\ hi \in Nat /\ 1 <= i /\ i <= hi /\ state \in States
  BY At DEF Boundary, FrameInv, LoopInv, TypeInv, CursorOK
<1>1. CASE BoundaryLeavesChunk
  <2>1. Contract
    BY <1>1, QuietContract DEF BoundaryLeavesChunk, parser, result
  <2>2. LoopInv' /\ AccumInv'
    BY <1>1 DEF BoundaryLeavesChunk, parser, result, FrameInv, LoopInv, AccumInv,
                Passed
  <2> QED
    BY <1>1, <2>1, <2>2, FrameKept DEF BoundaryLeavesChunk, parser
<1>2. CASE BoundaryInJpeg
  <2>1. CASE RecordAt(lo, hi) # "none" /\ HandleRecord(RecordAt(lo, hi)) /\ Done
    <3>1. ev' = <<"RECORD">> /\ UNCHANGED <<state, rle_mode, rle_pend, log>>
      BY <1>2, <2>1, HandledInJpeg, RecordBytes DEF BoundaryInJpeg
    <3>2. Contract
      BY <1>2, <2>1, <3>1, QuietContract DEF BoundaryInJpeg, Done
    <3>3. LoopInv' /\ AccumInv'
      BY <1>2, <2>1, <3>1
      DEF BoundaryInJpeg, Done, FrameInv, LoopInv, AccumInv, Passed
    <3> QED
      BY <1>2, <2>1, <3>1, <3>2, <3>3, FrameKept DEF BoundaryInJpeg, Done
  <2>2. CASE ev' = <<>> /\ pc' = "main" /\ UNCHANGED <<state, rle_mode, rle_pend, i, log>>
    <3>1. Contract
      BY <1>2, <2>2, QuietContract DEF BoundaryInJpeg
    <3>2. LoopInv' /\ AccumInv'
      BY <1>2, <2>2 DEF BoundaryInJpeg, FrameInv, LoopInv, AccumInv, Passed
    <3> QED
      BY <1>2, <2>2, <3>1, <3>2, FrameKept DEF BoundaryInJpeg
  <2> QED
    BY <1>2, <2>1, <2>2 DEF BoundaryInJpeg
<1>3. CASE BoundaryOpensRle
  <2>2. Contract
    BY <1>3, QuietContract DEF BoundaryOpensRle, result
  <2>3. LoopInv' /\ AccumInv'
    BY <1>3 DEF BoundaryOpensRle, result, FrameInv, LoopInv, AccumInv
  <2> QED
    BY <1>3, <2>2, <2>3, FrameKept DEF BoundaryOpensRle
<1>4. CASE BoundaryCoalesced
  <2>1. /\ RecordAt(i, hi) = "progress" /\ state = "ARMED" /\ accum = <<>>
        /\ HandleRecord("progress") /\ i' = i + 3 /\ pc' \in {"out", "main"}
        /\ UNCHANGED <<wire, lo, hi, accum>>
    BY <1>4 DEF BoundaryCoalesced, CoalescedStart, Continue, FrameInv
  <2>2. i + 3 <= hi + 1 /\ (pc' = "out" => i + 3 = hi + 1)
    BY <1>4, <2>1, RecordBytes DEF BoundaryCoalesced, Continue
  <2>3. Contract /\ state' # "ERROR"
    BY <2>1, HandledAtCursor DEF RecLen
  <2>4. LoopInv' /\ AccumInv'
    BY <2>1, <2>3 DEF LoopInv, AccumInv
  <2> QED
    BY <2>1, <2>2, <2>3, <2>4, FrameKept
<1>5. CASE BoundaryShort
  <2>1. state \in Waiting
    BY <1>5 DEF BoundaryShort, FrameInv, States, Waiting
  <2>2. CASE lo = hi
    <3>1. /\ accum' = <<"nul">> /\ pc' = "out" /\ i' = hi + 1
          /\ UNCHANGED <<wire, lo, hi, log, state, rle_mode, rle_pend>> /\ ev' = <<>>
      BY <1>5, <2>2 DEF BoundaryShort, Done, result
    <3>2. Contract
      BY <3>1, <2>1, QuietContract
    <3>3. LoopInv' /\ AccumInv'
      BY <2>1, <3>1 DEF LoopInv, AccumInv
    <3> QED
      BY <2>1, <3>1, <3>2, <3>3, FrameKept
  <2>3. CASE lo # hi
    <3>1. /\ accum' = <<>> /\ pc' = "burst" /\ i' = i
          /\ UNCHANGED <<wire, lo, hi, log, state, rle_mode, rle_pend>> /\ ev' = <<>>
      BY <1>5, <2>3 DEF BoundaryShort, result
    <3>2. Contract
      BY <3>1, <2>1, QuietContract
    <3>3. LoopInv' /\ AccumInv'
      BY <2>1, <2>3, <3>1 DEF LoopInv, AccumInv
    <3> QED
      BY <2>1, <3>1, <3>2, <3>3, FrameKept
  <2> QED
    BY <2>2, <2>3
<1>6. CASE BoundaryNoRecord
  <2>2. Contract
    BY <1>6, QuietContract DEF BoundaryNoRecord, result
  <2>3. LoopInv' /\ AccumInv'
    BY <1>6 DEF BoundaryNoRecord, result, FrameInv, LoopInv, AccumInv
  <2> QED
    BY <1>6, <2>2, <2>3, FrameKept DEF BoundaryNoRecord
<1> QED
  BY <1>1, <1>2, <1>3, <1>4, <1>5, <1>6 DEF Boundary

LEMMA BurstFrame ==
  ASSUME FrameInv, Burst
  PROVE  FrameInv' /\ Contract
<1>. TypeInv'
  BY StepKeepsType DEF Step
<1>. pc # "out"
  BY DEF Burst, BurstRest
<1>. /\ i \in Nat /\ hi \in Nat /\ lo \in Nat /\ 1 <= lo /\ lo <= i /\ i <= hi
     /\ state # "ERROR" /\ state \in States /\ (wire[hi] = "nul" => lo = hi)
  BY At
<1>. accum = <<>>
  BY DEF Burst, BurstRest, FrameInv, AccumInv
<1>1. CASE pc = "burst" /\ BurstRecord
  <2>1. /\ RecordAt(i, hi) # "none" /\ HandleRecord(RecordAt(i, hi))
        /\ i' = i + RecLen(RecordAt(i, hi))
        /\ UNCHANGED <<wire, lo, hi, accum>>
    BY <1>1 DEF BurstRecord, Continue
  <2>2. lo < hi /\ state \in Waiting
    BY <1>1 DEF FrameInv, LoopInv, Waiting
  <2>3. Contract /\ state' # "ERROR"
    BY <2>1, <2>2, HandledAtCursor
  <2>4. /\ i + RecLen(RecordAt(i, hi)) <= hi + 1 /\ RecLen(RecordAt(i, hi)) \in {2, 3}
        /\ (pc' = "out" => i + RecLen(RecordAt(i, hi)) > hi)
        /\ pc' \in {"out", "main", "rest", "burst"}
        /\ (pc' = "burst" => state' \notin {"DATA", "ARMED", "IDLE"})
    BY <1>1, <2>1, RecordAtInside DEF BurstRecord, Continue
  <2>5. state' \in States
    BY <2>1, NextStateType DEF HandleRecord
  <2>6. LoopInv' /\ AccumInv'
    BY <2>1, <2>2, <2>3, <2>4, <2>5 DEF LoopInv, AccumInv, States, Waiting
  <2> QED
    BY <2>1, <2>3, <2>4, <2>6, FrameKept
<1>2. CASE pc = "burst" /\ BurstPartial
  <2>1. lo < hi /\ state \in Waiting
    BY <1>2 DEF FrameInv, LoopInv, Waiting
  <2>2. /\ RecordAt(i, hi) = "none" /\ wire[i] = "nul" /\ RecordOf(wire[i + 1]) # "none"
        /\ accum' = <<"nul", wire[i + 1]>> /\ ev' = <<>> /\ pc' = "out" /\ i' = hi + 1
        /\ UNCHANGED <<wire, lo, hi, log, state, rle_mode, rle_pend>>
    BY <1>2 DEF BurstPartial, Done, result
  <2>3. i # hi
    BY <2>1, <2>2
  <2>4. wire[i + 1] \in {"x02", "x11", "x21"} /\ hi = i + 1
    BY <2>2, <2>3 DEF RecordAt, RecordOf, RecLen
  <2>5. Contract
    BY <2>1, <2>2, QuietContract
  <2>6. Len(accum') = 2 /\ accum'[2] = wire[i + 1] /\ wire'[hi + 1 - 1] = wire[i + 1]
    BY <2>2, <2>4
  <2>7. AccumInv'
    BY <2>1, <2>2, <2>4, <2>6 DEF AccumInv
  <2>8. LoopInv'
    BY <2>1, <2>2 DEF LoopInv
  <2> QED
    BY <2>1, <2>2, <2>5, <2>7, <2>8, FrameKept
<1>3. CASE (pc = "burst" /\ BurstUnknown) \/ BurstRest
  <2>1. /\ ev' \in {<<>>, <<"WARN", "RECORD">>} /\ pc' = "out" /\ i' = hi + 1
        /\ UNCHANGED <<wire, lo, hi, log, state, rle_mode, rle_pend, accum>>
    BY <1>3 DEF BurstUnknown, BurstRest, CountTrailing, Done, parser
  <2>2. Contract
    BY <2>1, QuietContract
  <2>3. LoopInv' /\ AccumInv'
    BY <2>1 DEF LoopInv, AccumInv
  <2> QED
    BY <2>1, <2>2, <2>3, FrameKept
<1> QED
  BY <1>1, <1>2, <1>3 DEF Burst

LEMMA DataFrame ==
  ASSUME FrameInv, DataEoi \/ DataAppend \/ DataTail \/ ConsumeTrailing
  PROVE  FrameInv' /\ Contract
<1>. TypeInv'
  BY StepKeepsType DEF Step
<1>. pc # "out"
  BY DEF DataEoi, DataAppend, DataTail, ConsumeTrailing, InJpeg
<1>. /\ i \in Nat /\ hi \in Nat /\ lo \in Nat /\ 1 <= lo /\ lo <= i /\ i <= hi
     /\ state # "ERROR" /\ state \in States
  BY At
<1>. accum = <<>> /\ ~rle_mode
  BY DEF DataEoi, DataAppend, DataTail, ConsumeTrailing, InJpeg, FrameInv, LoopInv, AccumInv, Waiting
<1>1. CASE DataEoi
  <2>1. /\ wire[i] = "d9" /\ ev' = <<"JPEG_DATA", "JPEG_EOI">> /\ state' = "PAGE_DONE"
        /\ i' = i + 1 /\ pc' \in {"out", "trail"} /\ (pc' = "out" => i + 1 > hi)
        /\ log' = Append(log, "JPEG_EOI")
        /\ UNCHANGED <<wire, lo, hi, rle_mode, rle_pend, accum>>
    BY <1>1 DEF DataEoi, Continue
  <2>2. (\A e : Says(e)' => e \in {"JPEG_DATA", "JPEG_EOI"}) /\ Says("JPEG_EOI")'
    BY <2>1 DEF Says
  <2>3. Contract
    BY <2>1, <2>2 DEF Contract, Milestones
  <2>4. LoopInv' /\ AccumInv'
    BY <2>1 DEF LoopInv, AccumInv
  <2> QED
    BY <2>1, <2>3, <2>4, FrameKept
<1>2. CASE DataAppend
  <2>1. /\ ev' = <<"JPEG_DATA">>
        /\ i' = i + 1 /\ pc' \in {"out", "main"} /\ (pc' = "out" => i + 1 > hi)
        /\ UNCHANGED <<wire, lo, hi, log, state, rle_mode, rle_pend, accum>>
    BY <1>2 DEF DataAppend, Continue
  <2>2. Contract
    BY <2>1, QuietContract
  <2>3. LoopInv' /\ AccumInv'
    BY <2>1 DEF LoopInv, AccumInv
  <2> QED
    BY <2>1, <2>2, <2>3, FrameKept
<1>3. CASE DataTail
  <2>1. /\ HandleRecord(TailRecord) /\ i' = hi + 1 /\ pc' = "out" /\ state = "DATA"
        /\ UNCHANGED <<wire, lo, hi, accum>>
    BY <1>3 DEF DataTail, Done, InJpeg
  <2>2. TailRecord # "block"
    BY RecordBytes DEF TailRecord
  <2>3. ev' = <<"RECORD">> /\ UNCHANGED <<state, rle_mode, rle_pend, log>>
    BY <2>1, <2>2, HandledInJpeg
  <2>4. Contract
    BY <2>1, <2>3, QuietContract
  <2>5. LoopInv' /\ AccumInv'
    BY <2>1, <2>3 DEF LoopInv, AccumInv
  <2> QED
    BY <2>1, <2>3, <2>4, <2>5, FrameKept
<1>4. CASE ConsumeTrailing /\ RecordAt(i, hi) # "none"
  <2>1. /\ HandleRecord(RecordAt(i, hi)) /\ i' = i + RecLen(RecordAt(i, hi))
        /\ pc' \in {"out", "trail"} /\ (pc' = "out" => i + RecLen(RecordAt(i, hi)) > hi)
        /\ UNCHANGED <<wire, lo, hi, accum>>
    BY <1>4 DEF ConsumeTrailing, Continue
  <2>2. Contract /\ ~rle_mode' /\ state' # "ERROR"
    BY <1>4, <2>1, HandledAtCursor
  <2>3. i + RecLen(RecordAt(i, hi)) <= hi + 1 /\ RecLen(RecordAt(i, hi)) \in {2, 3}
    BY <1>4, RecordAtInside
  <2>4. LoopInv' /\ AccumInv'
    BY <2>1, <2>2 DEF LoopInv, AccumInv
  <2> QED
    BY <2>1, <2>2, <2>3, <2>4, FrameKept
<1>5. CASE ConsumeTrailing /\ RecordAt(i, hi) = "none"
  <2>1. /\ ev' = <<>> /\ pc' = "out" /\ i' = hi + 1
        /\ UNCHANGED <<wire, lo, hi, log, state, rle_mode, rle_pend, accum>>
    BY <1>5 DEF ConsumeTrailing, CountTrailing, Done
  <2>2. Contract
    BY <2>1, QuietContract
  <2>3. LoopInv' /\ AccumInv'
    BY <2>1 DEF LoopInv, AccumInv
  <2> QED
    BY <2>1, <2>2, <2>3, FrameKept
<1> QED
  BY <1>1, <1>2, <1>3, <1>4, <1>5

LEMMA RleFrame ==
  ASSUME FrameInv, RlePayload \/ RleBlock \/ RleRecord \/ RleError
  PROVE  FrameInv' /\ Contract
<1>. TypeInv'
  BY StepKeepsType DEF Step
<1>. pc # "out" /\ rle_mode
  BY DEF RlePayload, RleBlock, RleRecord, RleError, InRle, FrameInv, LoopInv
<1>. /\ i \in Nat /\ hi \in Nat /\ lo \in Nat /\ 1 <= lo /\ lo <= i /\ i <= hi
     /\ state # "ERROR" /\ state \in States
  BY At
<1>. accum = <<>> /\ (state = "DATA" \/ Passed("x21"))
  BY DEF RlePayload, RleBlock, RleRecord, RleError, InRle, FrameInv, LoopInv, AccumInv, Waiting
<1>1. CASE RlePayload
  <2>1. /\ ev' = <<"RLE_DATA">> /\ rle_pend /\ ~rle_pend'
        /\ i' = i + 1 /\ pc' \in {"out", "rle"} /\ (pc' = "out" => i + 1 > hi)
        /\ UNCHANGED <<wire, lo, hi, state, rle_mode, accum, log>>
    BY <1>1 DEF RlePayload, Continue
  <2>2. \A e : Says(e)' => e = "RLE_DATA"
    BY <2>1 DEF Says
  <2>3. Contract
    BY <2>1, <2>2 DEF Contract
  <2>4. Passed("x21") => Passed("x21")'
    BY <2>1, PassedStays DEF FrameInv
  <2>5. LoopInv' /\ AccumInv'
    BY <2>1, <2>4 DEF LoopInv, AccumInv
  <2> QED
    BY <2>1, <2>3, <2>5, FrameKept
<1>2. CASE RleBlock
  <2>1. /\ ev' = <<"BLOCK">> /\ rle_pend'
        /\ i' = i + 3 /\ pc' \in {"out", "rle"} /\ (pc' = "out" => i + 3 > hi)
        /\ i + 3 <= hi /\ wire[i + 1] = "x01"
        /\ UNCHANGED <<wire, lo, hi, state, rle_mode, accum, log>>
    BY <1>2 DEF RleBlock, Continue, BlockAt, result
  <2>2. (\A e : Says(e)' => e = "BLOCK") /\ Says("BLOCK")'
    BY <2>1 DEF Says
  <2>3. \E k \in i..(i' - 1) : wire[k] = "x01"
    BY <2>1
  <2>4. Contract
    BY <2>1, <2>2, <2>3 DEF Contract
  <2>5. Passed("x21") => Passed("x21")'
    BY <2>1, PassedStays DEF FrameInv
  <2>7. LoopInv' /\ AccumInv'
    BY <2>1, <2>5 DEF LoopInv, AccumInv
  <2> QED
    BY <2>1, <2>4, <2>7, FrameKept
<1>3. CASE RleRecord
  <2>1. /\ HandleRecord(RecordAt(i, hi)) /\ i' = i + RecLen(RecordAt(i, hi))
        /\ RecordAt(i, hi) \in {"progress", "pageEnd", "scanEnd"} /\ ~rle_pend
        /\ pc' \in {"out", "rle", "main"}
        /\ (pc' = "rle" => RecordAt(i, hi) # "scanEnd")
        /\ (pc' = "out" => i + RecLen(RecordAt(i, hi)) > hi)
        /\ UNCHANGED <<wire, lo, hi, accum>>
    BY <1>3 DEF RleRecord, Continue
  <2>2. /\ Contract /\ rle_mode' = rle_mode /\ state' # "ERROR"
        /\ (RecordAt(i, hi) = "pageEnd" => Passed("x21")')
    BY <2>1, HandledAtCursor
  <2>3. i + RecLen(RecordAt(i, hi)) <= hi + 1 /\ RecLen(RecordAt(i, hi)) \in {2, 3}
    BY <2>1, RecordAtInside
  <2>4. Passed("x21") => Passed("x21")'
    BY <2>1, <2>3, PassedStays DEF FrameInv
  <2>5. RecordAt(i, hi) = "progress" /\ state = "DATA" => state' = "DATA"
    BY <2>1 DEF HandleRecord, NextState
  <2>6. LoopInv' /\ AccumInv'
    BY <2>1, <2>2, <2>4, <2>5 DEF LoopInv, AccumInv
  <2> QED
    BY <2>1, <2>2, <2>3, <2>6, FrameKept
<1>4. CASE RleError
  <2>1. /\ ev' = <<"ERROR">> /\ ~rle_pend /\ ~rle_pend' /\ state' = "ERROR"
        /\ i' = i /\ pc' = "out" /\ log' = Append(log, "ERROR")
        /\ UNCHANGED <<wire, lo, hi, accum>>
    BY <1>4 DEF RleError, Fail
  <2>2. (\A e : Says(e)' => e = "ERROR") /\ Says("ERROR")'
    BY <2>1 DEF Says
  <2>3. Contract
    BY <2>1, <2>2 DEF Contract, Milestones
  <2>4. LoopInv' /\ AccumInv'
    BY <2>1 DEF LoopInv, AccumInv
  <2> QED
    BY <2>1, <2>3, <2>4, FrameKept
<1> QED
  BY <1>1, <1>2, <1>3, <1>4

LEMMA NonDataFrame ==
  ASSUME FrameInv, AccumId \/ AccumRest \/ NoRecord \/ IgnoreRest
  PROVE  FrameInv' /\ Contract
<1>. TypeInv'
  BY StepKeepsType DEF Step
<1>. pc = "main"
  BY DEF AccumId, AccumRest, NoRecord, IgnoreRest, InNonData
<1>. /\ i \in Nat /\ hi \in Nat /\ lo \in Nat /\ 1 <= lo /\ lo <= i /\ i <= hi
     /\ state # "ERROR" /\ state \in States
  BY At
<1>1. CASE AccumId
  <2>1. /\ state \in Waiting /\ i' = i + 1 /\ pc' \in {"out", "main"}
        /\ (pc' = "out" => i + 1 > hi)
        /\ UNCHANGED <<wire, lo, hi>>
    BY <1>1 DEF AccumId, Continue, InNonData, Waiting
  <2>2. CASE wire[i] = "x20"
    <3>1. accum' = <<>> /\ HandleRecord("scanEnd")
      BY <1>1, <2>2 DEF AccumId
    <3>2. rle_pend' = rle_pend /\ state' # "ERROR"
      BY <3>1 DEF HandleRecord, OpensBlock, NextState, FrameInv, TypeInv, TypeOK
    <3>3. \A e : Says(e)' => e \in {"RECORD", "SESSION_END"}
      BY <3>1, HandledEvents
    <3>4. Contract
      <4>1. log' = log \/ \E m \in Milestones : log' = Append(log, m) /\ Says(m)'
        BY <3>1, HandledLog DEF FrameInv, TypeInv
      <4> QED
        BY <2>1, <2>2, <3>1, <3>2, <3>3, <4>1 DEF Contract
    <3>5. LoopInv' /\ AccumInv'
      BY <2>1, <3>1, <3>2 DEF LoopInv, AccumInv
    <3> QED
      BY <2>1, <3>2, <3>4, <3>5, FrameKept
  <2>3. CASE wire[i] \in {"x02", "x11", "x21", "x01"}
    <3>1. /\ accum' = <<"nul", wire[i]>> /\ ev' = <<>>
          /\ UNCHANGED <<state, rle_mode, rle_pend, log>>
      BY <1>1, <2>3 DEF AccumId
    <3>2. Contract
      BY <2>1, <3>1, QuietContract
    <3>3. Len(accum') = 2 /\ accum'[2] = wire[i] /\ wire'[i + 1 - 1] = wire[i]
      BY <2>1, <3>1
    <3>4. AccumInv'
      BY <2>1, <2>3, <3>1, <3>3 DEF AccumInv
    <3>5. LoopInv'
      BY <2>1, <3>1 DEF LoopInv
    <3> QED
      BY <2>1, <3>1, <3>2, <3>4, <3>5, FrameKept
  <2>4. CASE wire[i] \notin {"x20", "x02", "x11", "x21", "x01"}
    <3>1. /\ accum' = <<>> /\ ev' = <<"WARN", "RECORD">>
          /\ UNCHANGED <<state, rle_mode, rle_pend, log>>
      BY <1>1, <2>4 DEF AccumId
    <3>2. Contract
      BY <2>1, <3>1, QuietContract
    <3>3. LoopInv' /\ AccumInv'
      BY <2>1, <3>1 DEF LoopInv, AccumInv
    <3> QED
      BY <2>1, <3>1, <3>2, <3>3, FrameKept
  <2> QED
    BY <2>2, <2>3, <2>4
<1>2. CASE AccumRest
  <2>1. /\ state \in Waiting /\ i' = i + 1 /\ pc' \in {"out", "main"}
        /\ (pc' = "out" => i + 1 > hi)
        /\ Len(accum) = 2 /\ accum' = <<>>
        /\ UNCHANGED <<wire, lo, hi>>
    BY <1>2 DEF AccumRest, Continue, InNonData, Waiting
  <2>2. 1 < i /\ wire[i - 1] = accum[2] /\ accum[2] \in {"x02", "x11", "x21", "x01"}
    BY <2>1 DEF FrameInv, AccumInv
  <2>3. CASE accum[2] = "x01"
    <3>1. HandleRecord("block")
      BY <1>2, <2>3 DEF AccumRest
    <3>2. state' # "ERROR"
      BY <3>1 DEF HandleRecord, NextState
    <3>3. \A e : Says(e)' => e = "BLOCK"
      BY <3>1, HandledEvents
    <3>4. Says("BLOCK")'
      BY <3>1 DEF HandleRecord, MilestoneOf, Says
    <3>5. Contract
      <4>1. log' = log \/ \E m \in Milestones : log' = Append(log, m) /\ Says(m)'
        BY <3>1, HandledLog DEF FrameInv, TypeInv
      <4> QED
        BY <2>1, <2>3, <3>2, <3>3, <3>4, <4>1 DEF Contract
    <3>6. LoopInv' /\ AccumInv'
      BY <2>1, <3>2 DEF LoopInv, AccumInv
    <3> QED
      BY <2>1, <3>2, <3>5, <3>6, FrameKept
  <2>4. CASE accum[2] # "x01"
    <3>1. PICK r : r = RecordOf(accum[2]) /\ HandleRecord(r)
      BY <1>2, <2>4 DEF AccumRest
    <3>2. r \in {"progress", "endstat", "pageEnd"} /\ (r = "pageEnd" => accum[2] = "x21")
      BY <2>2, <2>4, <3>1 DEF RecordOf
    <3>3. rle_pend' = rle_pend /\ state' # "ERROR"
      BY <3>1, <3>2 DEF HandleRecord, OpensBlock, NextState, FrameInv, TypeInv, TypeOK
    <3>4. /\ \A e : Says(e)' => e = "RECORD" \/ (e = "PAGE_END" /\ r = "pageEnd")
          /\ Says("PAGE_END")' => state' # "DATA"
      BY <3>1, <3>2, HandledEvents, HandledPageEnd
    <3>5. Contract
      <4>1. log' = log \/ \E m \in Milestones : log' = Append(log, m) /\ Says(m)'
        BY <3>1, HandledLog DEF FrameInv, TypeInv
      <4> QED
        BY <2>1, <3>2, <3>3, <3>4, <4>1 DEF Contract
    <3>6. LoopInv' /\ AccumInv'
      BY <2>1, <3>3 DEF LoopInv, AccumInv
    <3> QED
      BY <2>1, <3>3, <3>5, <3>6, FrameKept
  <2> QED
    BY <2>3, <2>4
<1>3. CASE NoRecord
  <2>1. /\ ev' = <<>> /\ accum = <<>> /\ accum' = <<>> /\ state' \in {state, "DATA"}
        /\ \/ pc' = "main" /\ i' = i
           \/ pc' = "out" /\ i' = hi + 1
        /\ UNCHANGED <<wire, lo, hi, log, rle_mode, rle_pend>>
    BY <1>3 DEF NoRecord, CountTrailing, Done
  <2>2. Contract
    BY <2>1, QuietContract
  <2>3. LoopInv' /\ AccumInv'
    BY <2>1 DEF LoopInv, AccumInv
  <2> QED
    BY <2>1, <2>2, <2>3, FrameKept
<1>4. CASE IgnoreRest
  <2>1. accum = <<>>
    BY <1>4 DEF IgnoreRest, FrameInv, AccumInv, Waiting
  <2>2. /\ ev' = <<>> /\ pc' = "out" /\ i' = hi + 1
        /\ UNCHANGED <<wire, lo, hi, log, state, rle_mode, rle_pend, accum>>
    BY <1>4 DEF IgnoreRest, Done, parser, result
  <2>3. Contract
    BY <2>2, QuietContract
  <2>4. LoopInv' /\ AccumInv'
    BY <2>1, <2>2 DEF LoopInv, AccumInv
  <2> QED
    BY <2>2, <2>3, <2>4, FrameKept
<1> QED
  BY <1>1, <1>2, <1>3, <1>4

(* One iteration of the parser: the framing holds, and its events mean     *)
(* what they say.                                                          *)
LEMMA StepFrame ==
  ASSUME FrameInv, Step
  PROVE  FrameInv' /\ Contract
BY BoundaryFrame, BurstFrame, DataFrame, RleFrame, NonDataFrame DEF Step

(* What the callers do: a fresh scan, ...                                  *)
LEMMA ClearFrame ==
  ASSUME NEW s \in {"IDLE", "ARMED"}, Clear(s), TypeInv'
  PROVE  FrameInv'
<1>1. /\ pc' = "out" /\ lo' = 1 /\ hi' = 0 /\ i' = 1 /\ accum' = <<>> /\ ~rle_pend'
      /\ state' # "ERROR"
  BY DEF Clear
<1> QED
  BY <1>1 DEF FrameInv, CursorInv, LoopInv, AccumInv, ReadInv

(* ... and a read, which ends where MayEnd() lets it end.                  *)
LEMMA FeedFrame ==
  ASSUME FrameInv, NEW h \in (hi + 1)..Len(wire), Feed(h)
  PROVE  /\ FrameInv' /\ UNCHANGED <<wire, rle_pend, accum, state>>
         /\ i = hi + 1 /\ i' = i /\ lo' = i /\ hi' = h
<1>. TypeInv'
  BY TypeInductive DEF FrameInv, Next, FeedNext
<1>1. /\ pc = "out" /\ state \notin {"IDLE", "ERROR"} /\ i = hi + 1
      /\ lo' = hi + 1 /\ hi' = h /\ i' = i /\ pc' = "boundary"
      /\ UNCHANGED <<wire, state, rle_mode, rle_pend, accum>>
  BY DEF Feed, parser, FrameInv, CursorInv
<1>. hi \in Nat /\ h \in Nat /\ hi < h /\ Len(wire) \in Nat
  BY DEF FrameInv, TypeInv, TypeOK
<1>2. wire[h] = "nul" => hi + 1 = h
  BY DEF Feed, MayEnd
<1>3. CursorInv'
  BY <1>1, <1>2 DEF CursorInv
<1>4. LoopInv'
  BY <1>1 DEF FrameInv, LoopInv, Passed
<1>5. AccumInv'
  BY <1>1 DEF FrameInv, AccumInv
<1>6. ReadInv'
  <2> SUFFICES ASSUME ShortPackets, NEW b \in {hi + 1, h + 1}, 2 <= b, b <= Len(wire)
               PROVE  wire[b] \notin Headless
    BY <1>1 DEF ReadInv
  <2>1. CASE b = hi + 1
    BY <2>1 DEF FrameInv, ReadInv
  <2>2. CASE b = h + 1
    <3>1. wire[h + 1] \notin Ids \cup {"x01", "x33", "hdr", "body"}
      BY <2>2 DEF Feed, MayEnd
    <3> QED
      BY <2>2, <3>1 DEF Headless
  <2> QED
    BY <2>1, <2>2
<1> QED
  BY <1>1, <1>3, <1>4, <1>5, <1>6 DEF FrameInv

(* A payload is owed only to a block of the page that is open, unless the  *)
(* blocks go on behind the page.                                           *)
OwedInv == rle_pend => rle_mode /\ state = "DATA" /\ Passed("x01")

LEMMA OwedQuiet ==
  ASSUME FrameInv, OwedInv, UNCHANGED <<wire, rle_mode, rle_pend>>,
         state' \in {state, "DATA"}, NEW n \in Nat, i' = n, i <= n
  PROVE  OwedInv'
<1>1. Passed("x01") => Passed("x01")'
  BY PassedStays DEF FrameInv
<1> QED
  BY <1>1 DEF OwedInv

LEMMA HandledOwes ==
  ASSUME FrameInv, NEW r, r # "block", HandleRecord(r), ~rle_pend
  PROVE  ~rle_pend'
BY DEF HandleRecord, OpensBlock, FrameInv, TypeInv, TypeOK

LEMMA OwedStays ==
  ASSUME FrameInv, FrameInv', OwedInv, OnePage(wire), Step, Contract
  PROVE  OwedInv'
<1>. pc # "out"
  BY DEF Step, Boundary, Burst, BurstRest, DataEoi, DataAppend, DataTail, InJpeg, ConsumeTrailing,
     RlePayload, RleBlock, RleRecord, RleError, InRle, AccumId, AccumRest, NoRecord, InNonData,
     IgnoreRest
<1>. PICK n \in Nat : i' = n /\ i <= n
  BY DEF FrameInv, TypeInv, TypeOK, Contract
<1>. /\ i \in Nat /\ hi \in Nat /\ lo \in Nat /\ 1 <= lo /\ lo <= i /\ i <= hi
     /\ \A k \in Nat, h \in Nat : RecordAt(k, h) # "block"
  BY At, RecordBytes
<1>1. CASE Boundary
  <2>1. CASE BoundaryLeavesChunk \/ BoundaryShort
    BY <2>1, OwedQuiet DEF BoundaryLeavesChunk, BoundaryShort, parser
  <2>2. CASE BoundaryInJpeg
    BY <2>2, HandledOwes DEF BoundaryInJpeg, OwedInv
  <2>3. CASE BoundaryOpensRle \/ BoundaryNoRecord
    BY <2>3 DEF BoundaryOpensRle, OpensRle, BoundaryNoRecord, OwedInv
  <2>4. CASE BoundaryCoalesced
    BY <2>4, HandledOwes DEF BoundaryCoalesced, OwedInv
  <2> QED
    BY <1>1, <2>1, <2>2, <2>3, <2>4 DEF Boundary
<1>2. CASE pc = "burst" /\ BurstRecord
  BY <1>2, HandledOwes DEF BurstRecord, OwedInv, FrameInv, LoopInv, Waiting
<1>3. CASE BurstPartial \/ BurstUnknown \/ BurstRest
  BY <1>3, OwedQuiet DEF BurstPartial, BurstUnknown, BurstRest, parser
<1>4. CASE DataEoi \/ DataAppend
  BY <1>4 DEF DataEoi, DataAppend, InJpeg, OwedInv
<1>5. CASE DataTail
  <2>1. TailRecord # "block"
    BY RecordBytes DEF TailRecord
  <2> QED
    BY <1>5, <2>1, HandledOwes DEF DataTail, InJpeg, OwedInv
<1>6. CASE ConsumeTrailing
  BY <1>6, HandledOwes DEF ConsumeTrailing, OwedInv, FrameInv, LoopInv
<1>7. CASE RlePayload
  BY <1>7 DEF RlePayload, OwedInv
<1>8. CASE RleBlock
  <2>1. /\ i' = i + 3 /\ i + 3 <= hi /\ wire[i + 1] = "x01"
        /\ UNCHANGED <<wire, state, rle_mode>>
    BY <1>8 DEF RleBlock, Continue, BlockAt
  <2>2. rle_mode /\ (state = "DATA" \/ Passed("x21"))
    BY <1>8 DEF RleBlock, InRle, FrameInv, LoopInv
  <2>3. i + 1 \in DOMAIN wire /\ 1..(i - 1) \subseteq DOMAIN wire
    BY <2>1, StreamsAssumption DEF FrameInv, TypeInv, TypeOK
  <2>4. ~Passed("x21")
    BY <2>1, <2>3 DEF OnePage, Passed
  <2>5. Passed("x01")'
    BY <2>1 DEF Passed
  <2> QED
    BY <2>1, <2>2, <2>4, <2>5 DEF OwedInv
<1>9. CASE RleRecord
  BY <1>9, HandledOwes DEF RleRecord, OwedInv
<1>10. CASE RleError
  BY <1>10 DEF RleError, OwedInv
<1>11. CASE AccumId
  BY <1>11, HandledOwes DEF AccumId, InNonData, OwedInv
<1>12. CASE AccumRest
  <2>1. ~rle_pend /\ Len(accum) = 2
    BY <1>12 DEF AccumRest, InNonData, OwedInv
  <2>2. CASE accum[2] = "x01"
    <3>1. 1 < i /\ wire[i - 1] = "x01" /\ wire' = wire /\ i' = i + 1
      BY <1>12, <2>1, <2>2 DEF FrameInv, AccumInv, AccumRest, Continue
    <3>2. Passed("x01")'
      BY <3>1 DEF Passed
    <3>3. rle_pend' => rle_mode' /\ state' = "DATA"
      BY <1>12, <2>1, <2>2
      DEF AccumRest, HandleRecord, OpensBlock, NextState, FrameInv, TypeInv, TypeOK
    <3> QED
      BY <3>2, <3>3 DEF OwedInv
  <2>3. CASE accum[2] # "x01"
    <3>1. RecordOf(accum[2]) # "block"
      BY DEF RecordOf
    <3> QED
      BY <1>12, <2>1, <2>3, <3>1, HandledOwes DEF AccumRest, OwedInv
  <2> QED
    BY <2>2, <2>3
<1>13. CASE NoRecord
  BY <1>13 DEF NoRecord, InNonData, OwedInv
<1>14. CASE IgnoreRest
  BY <1>14, OwedQuiet DEF IgnoreRest, parser
<1> QED
  BY <1>1, <1>2, <1>3, <1>4, <1>5, <1>6, <1>7, <1>8, <1>9, <1>10, <1>11, <1>12, <1>13, <1>14
  DEF Step, Burst

(* Once the page is over it stays over, and no event of a page comes.      *)
LEMMA OverStays ==
  ASSUME FrameInv, FrameInv', Contract, PageOver, i <= hi
  PROVE  /\ PageOver'
         /\ ~Says("JPEG_EOI")' /\ ~Says("RLE_DATA")' /\ ~Says("BLOCK")'
<1>. PICK n \in Nat : i' = n /\ i \in Nat /\ hi \in Nat /\ Len(wire) \in Nat /\ 1 <= i /\ hi <= Len(wire)
  BY DEF FrameInv, TypeInv, TypeOK
<1>1. i <= n /\ n <= Len(wire) + 1 /\ wire' = wire
  BY DEF Contract, FrameInv, TypeInv, TypeOK
<1>2. ~Says("JPEG_EOI")' /\ ~Says("RLE_DATA")'
  BY <1>1 DEF Contract, PageOver
<1>3. ~Says("BLOCK")'
  <2>1. \A k \in i..(n - 1) : wire[k] # "x01"
    BY <1>1 DEF PageOver
  <2> QED
    BY <2>1 DEF Contract, PageOver
<1>4. ~rle_pend'
  BY <1>3 DEF Contract, PageOver
<1>5. ASSUME Len(accum') = 2 PROVE accum'[2] # "x01"
  <2>1. CASE n = i
    <3>1. accum' # <<>>
      BY <1>5
    <3>2. accum' = accum
      BY <2>1, <3>1 DEF Contract
    <3> QED
      BY <1>5, <3>2 DEF PageOver
  <2>2. CASE n # i
    <3>1. n - 1 \in i..Len(wire) /\ wire[n - 1] = accum'[2]
      BY <1>1, <1>5, <2>2 DEF FrameInv, AccumInv
    <3> QED
      BY <3>1 DEF PageOver
  <2> QED
    BY <2>1, <2>2
<1>6. \A k \in n..Len(wire) : wire[k] \notin {"d9", "x01"}
  BY <1>1 DEF PageOver
<1> QED
  BY <1>1, <1>2, <1>3, <1>4, <1>5, <1>6 DEF PageOver

(* The end of a page leaves nothing of a page behind it.                   *)
LEMMA OverBegins ==
  ASSUME FrameInv, FrameInv', OwedInv, OwedInv', OnePage(wire), Contract, i <= hi,
         Says("JPEG_EOI")' \/ (Says("PAGE_END")' /\ Passed("x01"))
  PROVE  PageOver'
<1>. PICK n \in Nat : /\ i' = n /\ i \in Nat /\ hi \in Nat /\ Len(wire) \in Nat
                      /\ 1 <= i /\ hi <= Len(wire)
  BY DEF FrameInv, TypeInv, TypeOK
<1>1. i <= n /\ n <= Len(wire) + 1 /\ wire' = wire
  BY DEF Contract, FrameInv, TypeInv, TypeOK
<1>2. DOMAIN wire = 1..Len(wire)
  BY StreamsAssumption DEF FrameInv, TypeInv, TypeOK
<1>3. CASE Says("JPEG_EOI")'
  <2>1. wire[i] = "d9" /\ n = i + 1 /\ i \in DOMAIN wire
    BY <1>2, <1>3 DEF Contract
  <2>2. \A k \in DOMAIN wire : wire[k] # "x01" /\ (wire[k] = "d9" => k = i)
    BY <2>1 DEF OnePage
  <2>3. ~Passed("x01")'
    BY <1>1, <1>2, <2>2 DEF Passed
  <2>4. ~rle_pend'
    BY <2>3 DEF Contract, OwedInv
  <2>5. ASSUME Len(accum') = 2 PROVE accum'[2] # "x01"
    <3>1. wire[n - 1] = accum'[2] /\ n - 1 \in DOMAIN wire
      BY <1>1, <1>2, <2>1, <2>5 DEF FrameInv, AccumInv
    <3> QED
      BY <2>2, <3>1
  <2>6. \A k \in n..Len(wire) : wire[k] \notin {"d9", "x01"}
    BY <1>1, <1>2, <2>1, <2>2
  <2> QED
    BY <1>1, <2>4, <2>5, <2>6 DEF PageOver
<1>4. CASE Says("PAGE_END")' /\ Passed("x01")
  <2>1. ~rle_pend' /\ accum' = <<>>
    BY <1>4 DEF Contract, OwedInv
  <2>2. \E k \in 1..(n - 1) : wire[k] = "x21"
    <3>1. CASE \E k \in i..(i' - 1) : wire[k] = "x21"
      BY <1>1, <3>1
    <3>2. CASE Len(accum) = 2 /\ accum[2] = "x21" /\ i < i'
      <4>1. 1 < i /\ wire[i - 1] = "x21"
        BY <3>2 DEF FrameInv, AccumInv
      <4>2. i - 1 \in 1..(n - 1)
        BY <4>1, <1>1
      <4> QED
        BY <4>1, <4>2
    <3> QED
      BY <1>4, <3>1, <3>2 DEF Contract
  <2>3. PICK j \in DOMAIN wire : wire[j] = "x21" /\ j < n
    BY <1>1, <1>2, <2>2
  <2>4. \A k \in DOMAIN wire : wire[k] = "x01" => k < j
    BY <2>3 DEF OnePage
  <2>5. \A k \in DOMAIN wire : wire[k] # "d9"
    BY <1>1, <1>2, <1>4 DEF OnePage, Passed
  <2>6. \A k \in n..Len(wire) : wire[k] \notin {"d9", "x01"}
    BY <1>1, <1>2, <2>3, <2>4, <2>5
  <2> QED
    BY <1>1, <2>1, <2>6 DEF PageOver
<1> QED
  BY <1>3, <1>4

(* A block of the page was passed when its event comes.                    *)
LEMMA BlocksPassed ==
  ASSUME FrameInv, FrameInv', OwedInv, Contract, i <= hi, Says("BLOCK")' \/ Says("RLE_DATA")'
  PROVE  Passed("x01")'
<1>. PICK n \in Nat : /\ i' = n /\ i \in Nat /\ hi \in Nat /\ 1 <= i
  BY DEF FrameInv, TypeInv, TypeOK
<1>1. i <= n /\ wire' = wire
  BY DEF Contract
<1>2. CASE Says("RLE_DATA")'
  <2>1. Passed("x01")
    BY <1>2 DEF Contract, OwedInv
  <2> QED
    BY <1>1, <2>1, PassedStays DEF FrameInv
<1>3. CASE \E k \in i..(i' - 1) : wire[k] = "x01"
  BY <1>1, <1>3 DEF Passed
<1>4. CASE Len(accum) = 2 /\ accum[2] = "x01"
  <2>1. 1 < i /\ wire[i - 1] = "x01"
    BY <1>4 DEF FrameInv, AccumInv
  <2>2. Passed("x01")
    BY <2>1 DEF Passed
  <2> QED
    BY <1>1, <2>2, PassedStays DEF FrameInv
<1> QED
  BY <1>2, <1>3, <1>4 DEF Contract

(* A device that begins no read inside a record has its page end in the    *)
(* chunk that holds the byte 21.                                           *)
LEMMA EndInChunk ==
  ASSUME FrameInv, FrameInv', Contract, ShortPackets, WholeRecords(wire), pc # "out",
         Says("PAGE_END")'
  PROVE  \E k \in lo..hi : wire[k] = "x21" /\ k < i'
<1>. /\ i \in Nat /\ hi \in Nat /\ lo \in Nat /\ 1 <= lo /\ lo <= i /\ i <= hi
     /\ Len(wire) \in Nat /\ hi <= Len(wire) /\ DOMAIN wire = 1..Len(wire)
  BY At, StreamsAssumption DEF FrameInv, TypeInv, TypeOK
<1>. PICK n \in Nat : i' = n
  BY DEF FrameInv, TypeInv, TypeOK
<1>1. i <= n /\ n <= hi + 1
  BY DEF Contract, FrameInv, TypeInv, TypeOK
<1>2. CASE \E k \in i..(i' - 1) : wire[k] = "x21"
  <2>1. PICK k \in i..(n - 1) : wire[k] = "x21"
    BY <1>2
  <2>2. k \in lo..hi /\ k < n
    BY <1>1
  <2> QED
    BY <2>1, <2>2
<1>3. CASE Len(accum) = 2 /\ accum[2] = "x21" /\ i < i'
  <2>1. 1 < i /\ wire[i - 1] = "x21"
    BY <1>3 DEF FrameInv, AccumInv
  <2>2. wire[i] = "body"
    BY <2>1 DEF WholeRecords
  <2>3. lo # i
    BY <2>1, <2>2 DEF FrameInv, ReadInv, Headless
  <2>4. i - 1 \in lo..hi /\ i - 1 < n
    BY <1>3, <2>3
  <2> QED
    BY <2>1, <2>4
<1> QED
  BY <1>2, <1>3 DEF Contract

-----------------------------------------------------------------------------
(* EventsBacked. It is not inductive: the id byte of a record that a read  *)
(* has cut was taken and its event is still to come, so it must not have   *)
(* been spent on another event.                                            *)

Cut(f) == IF Len(accum) = 2 /\ accum[2] = f THEN 1 ELSE 0

Backed(m, f) == Cardinality(Reports(m)) + Cut(f) <= Cardinality(Taken(f))

BackedInv == Backed("PAGE_END", "x21") /\ Backed("SESSION_END", "x20")

LEMMA Counted ==
  ASSUME FrameInv, NEW m, NEW f
  PROVE  /\ IsFiniteSet(Reports(m)) /\ Cardinality(Reports(m)) \in Nat
         /\ IsFiniteSet(Taken(f)) /\ Cardinality(Taken(f)) \in Nat
<1>1. Len(log) \in Nat /\ i \in Nat /\ i - 1 \in Int
  BY DEF FrameInv, TypeInv, TypeOK
<1>2. IsFiniteSet(1..Len(log)) /\ IsFiniteSet(1..(i - 1))
  BY <1>1, FS_Interval
<1>3. Reports(m) \subseteq 1..Len(log) /\ Taken(f) \subseteq 1..(i - 1)
  BY DEF Reports, Taken
<1>4. IsFiniteSet(Reports(m)) /\ IsFiniteSet(Taken(f))
  BY <1>2, <1>3, FS_Subset
<1> QED
  BY <1>4, FS_CardinalityType

(* A step takes no byte back, and one it takes now is a new one.           *)
LEMMA TakenGrows ==
  ASSUME FrameInv, FrameInv', wire' = wire, NEW n \in Nat, i' = n, i <= n, NEW f
  PROVE  /\ Cardinality(Taken(f)) <= Cardinality(Taken(f)')
         /\ \A k \in i..(n - 1) : wire[k] = f =>
              Cardinality(Taken(f)) + 1 <= Cardinality(Taken(f)')
<1>1. /\ IsFiniteSet(Taken(f)) /\ Cardinality(Taken(f)) \in Nat
      /\ IsFiniteSet(Taken(f)') /\ Cardinality(Taken(f)') \in Nat
  <2>1. IsFiniteSet(1..(n - 1)) /\ Taken(f)' \subseteq 1..(n - 1)
    BY FS_Interval DEF Taken
  <2>2. IsFiniteSet(Taken(f)')
    BY <2>1, FS_Subset
  <2> QED
    BY <2>2, Counted, FS_CardinalityType
<1>2. i \in Nat /\ 1 <= i
  BY DEF FrameInv, TypeInv, TypeOK
<1>3. Taken(f) \subseteq Taken(f)'
  BY <1>2 DEF Taken
<1>4. Cardinality(Taken(f)) <= Cardinality(Taken(f)')
  BY <1>1, <1>3, FS_Subset
<1>5. ASSUME NEW k \in i..(n - 1), wire[k] = f
      PROVE  Cardinality(Taken(f)) + 1 <= Cardinality(Taken(f)')
  <2>1. k \notin Taken(f) /\ Taken(f) \cup {k} \subseteq Taken(f)'
    BY <1>2, <1>3, <1>5 DEF Taken
  <2>2. Cardinality(Taken(f) \cup {k}) = Cardinality(Taken(f)) + 1
    BY <1>1, <2>1, FS_AddElement
  <2>3. Cardinality(Taken(f) \cup {k}) <= Cardinality(Taken(f)')
    BY <1>1, <2>1, FS_Subset
  <2> QED
    BY <2>2, <2>3
<1> QED
  BY <1>4, <1>5

LEMMA ReportsGrow ==
  ASSUME FrameInv, NEW x \in Milestones, log' = Append(log, x), NEW m
  PROVE  /\ x = m => Cardinality(Reports(m)') = Cardinality(Reports(m)) + 1
         /\ x # m => Reports(m)' = Reports(m)
<1>1. log \in Seq(Milestones)
  BY DEF FrameInv, TypeInv, TypeOK
<1>2. PICK n \in Nat : n = Len(log)
  BY <1>1
<1>3. /\ Len(log') = n + 1 /\ log'[n + 1] = x
      /\ \A k \in 1..n : log'[k] = log[k]
  BY <1>1, <1>2
<1>4. CASE x = m
  <2>1. Reports(m)' = Reports(m) \cup {n + 1}
    BY <1>2, <1>3, <1>4 DEF Reports
  <2>2. n + 1 \notin Reports(m)
    BY <1>2 DEF Reports
  <2> QED
    BY <1>4, <2>1, <2>2, Counted, FS_AddElement
<1>5. CASE x # m
  BY <1>2, <1>3, <1>5 DEF Reports
<1> QED
  BY <1>4, <1>5

(* A step that reports nothing of m spends no byte.                        *)
LEMMA BackedQuiet ==
  ASSUME FrameInv, FrameInv', Contract, NEW m, NEW f,
         Backed(m, f), Reports(m)' = Reports(m)
  PROVE  Backed(m, f)'
<1>. PICK n \in Nat : i' = n /\ i \in Nat /\ i <= n /\ wire' = wire
  BY DEF FrameInv, TypeInv, TypeOK, Contract
<1>1. PICK a, b, c \in Nat : a = Cardinality(Reports(m)) /\ b = Cardinality(Taken(f))
                             /\ c = Cardinality(Taken(f)')
  <2>1. IsFiniteSet(1..(n - 1)) /\ Taken(f)' \subseteq 1..(n - 1)
    BY FS_Interval DEF Taken
  <2> QED
    BY <2>1, FS_Subset, FS_CardinalityType, Counted
<1>2. a + Cut(f) <= b /\ b <= c
  BY <1>1, TakenGrows DEF Backed
<1>3. CASE Cut(f)' = 0
  BY <1>1, <1>2, <1>3 DEF Backed, Cut
<1>4. CASE Cut(f)' # 0
  <2>1. Len(accum') = 2 /\ accum'[2] = f /\ Cut(f)' = 1
    BY <1>4 DEF Cut
  <2>2. CASE n = i
    <3>1. accum' = accum
      BY <2>1, <2>2 DEF Contract
    <3> QED
      BY <1>1, <1>2, <2>1, <3>1 DEF Backed, Cut
  <2>3. CASE n # i
    <3>1. n - 1 \in i..(n - 1) /\ wire[n - 1] = f
      BY <2>1, <2>3 DEF FrameInv, AccumInv
    <3>2. b + 1 <= c
      BY <1>1, <3>1, TakenGrows
    <3>3. a <= b
      BY <1>2 DEF Cut
    <3> QED
      BY <1>1, <2>1, <3>2, <3>3 DEF Backed
  <2> QED
    BY <2>2, <2>3
<1> QED
  BY <1>3, <1>4

LEMMA BackedStep ==
  ASSUME FrameInv, FrameInv', Contract, BackedInv
  PROVE  BackedInv'
<1>1. CASE Reports("PAGE_END")' = Reports("PAGE_END")
           /\ Reports("SESSION_END")' = Reports("SESSION_END")
  BY <1>1, BackedQuiet DEF BackedInv
<1>2. CASE log' = log
  BY <1>1, <1>2 DEF Reports
<1>3. ASSUME NEW x \in Milestones, log' = Append(log, x), Says(x)'
      PROVE  BackedInv'
  <2>. PICK n \in Nat : i' = n /\ i \in Nat /\ i <= n /\ wire' = wire
    BY DEF FrameInv, TypeInv, TypeOK, Contract
  <2>1. ASSUME NEW f
        PROVE  \E b, c \in Nat : /\ b = Cardinality(Taken(f)) /\ c = Cardinality(Taken(f)')
                                 /\ b <= c
                                 /\ \A k \in i..(n - 1) : wire[k] = f => b + 1 <= c
    <3>1. IsFiniteSet(1..(n - 1)) /\ Taken(f)' \subseteq 1..(n - 1)
      BY FS_Interval DEF Taken
    <3>2. Cardinality(Taken(f)) \in Nat /\ Cardinality(Taken(f)') \in Nat
      BY <3>1, FS_Subset, FS_CardinalityType, Counted
    <3> QED
      BY <3>2, TakenGrows
  <2>2. CASE x = "PAGE_END"
    <3>1. Backed("SESSION_END", "x20")'
      BY <1>3, <2>2, ReportsGrow, BackedQuiet DEF BackedInv
    <3>2. PICK a \in Nat : a = Cardinality(Reports("PAGE_END"))
      BY Counted
    <3>3. Cardinality(Reports("PAGE_END")') = a + 1
      BY <1>3, <2>2, <3>2, ReportsGrow
    <3>4. PICK b, c \in Nat :
            /\ b = Cardinality(Taken("x21")) /\ c = Cardinality(Taken("x21")')
            /\ b <= c
            /\ \A k \in i..(n - 1) : wire[k] = "x21" => b + 1 <= c
      BY <2>1
    <3>5. a + Cut("x21") <= b
      BY <3>2, <3>4 DEF BackedInv, Backed
    <3>6. accum' = <<>>
      BY <1>3, <2>2 DEF Contract
    <3>7. Cut("x21")' = 0
      BY <3>6 DEF Cut
    <3>8. a + 1 <= c
      <4>1. CASE \E k \in i..(i' - 1) : wire[k] = "x21"
        BY <3>4, <3>5, <4>1 DEF Cut
      <4>2. CASE Len(accum) = 2 /\ accum[2] = "x21"
        BY <3>4, <3>5, <4>2 DEF Cut
      <4> QED
        BY <1>3, <2>2, <4>1, <4>2 DEF Contract
    <3> QED
      BY <3>1, <3>3, <3>4, <3>7, <3>8 DEF BackedInv, Backed
  <2>3. CASE x = "SESSION_END"
    <3>1. Backed("PAGE_END", "x21")'
      BY <1>3, <2>3, ReportsGrow, BackedQuiet DEF BackedInv
    <3>2. PICK a \in Nat : a = Cardinality(Reports("SESSION_END"))
      BY Counted
    <3>3. Cardinality(Reports("SESSION_END")') = a + 1
      BY <1>3, <2>3, <3>2, ReportsGrow
    <3>4. PICK b, c \in Nat :
            /\ b = Cardinality(Taken("x20")) /\ c = Cardinality(Taken("x20")')
            /\ b <= c
            /\ \A k \in i..(n - 1) : wire[k] = "x20" => b + 1 <= c
      BY <2>1
    <3>5. Cut("x20") = 0 /\ Cut("x20")' = 0
      BY DEF Cut, FrameInv, AccumInv
    <3>6. a <= b
      BY <3>2, <3>4, <3>5 DEF BackedInv, Backed
    <3>7. n - 1 \in i..(n - 1) /\ wire[n - 1] = "x20"
      BY <1>3, <2>3 DEF Contract
    <3>8. a + 1 <= c
      BY <3>4, <3>6, <3>7
    <3> QED
      BY <3>1, <3>3, <3>4, <3>5, <3>8 DEF BackedInv, Backed
  <2>4. CASE x \notin {"PAGE_END", "SESSION_END"}
    BY <1>1, <1>3, <2>4, ReportsGrow
  <2> QED
    BY <2>2, <2>3, <2>4
<1> QED
  BY <1>2, <1>3 DEF Contract

(* With no step of the parser nothing is spent or taken.                   *)
LEMMA BackedStays ==
  ASSUME BackedInv, UNCHANGED <<wire, i, accum, log>>
  PROVE  BackedInv'
<1>1. /\ Reports("PAGE_END")' = Reports("PAGE_END")
      /\ Reports("SESSION_END")' = Reports("SESSION_END")
      /\ Taken("x21")' = Taken("x21") /\ Taken("x20")' = Taken("x20")
      /\ Cut("x21")' = Cut("x21") /\ Cut("x20")' = Cut("x20")
  BY DEF Reports, Taken, Cut
<1> QED
  BY <1>1 DEF BackedInv, Backed

LEMMA BackedFresh == accum = <<>> /\ log = <<>> /\ i = 1 => BackedInv
<1> SUFFICES ASSUME accum = <<>>, log = <<>>, i = 1 PROVE BackedInv
  OBVIOUS
<1>1. ASSUME NEW m, NEW f PROVE Backed(m, f)
  <2>1. Reports(m) = {} /\ Taken(f) = {} /\ Cut(f) = 0
    BY DEF Reports, Taken, Cut
  <2> QED
    BY <2>1, FS_EmptySet DEF Backed
<1> QED
  BY <1>1 DEF BackedInv

LEMMA FrameInductive ==
  ASSUME FrameInv, [Next]_vars
  PROVE  FrameInv'
<1>. TypeInv'
  BY TypeInductive DEF FrameInv
<1>1. CASE \E w \in Streams : Arm(w)
  BY <1>1, ClearFrame DEF Arm
<1>2. CASE Reset
  BY <1>2, ClearFrame DEF Reset
<1>3. CASE FeedUnarmed
  BY <1>3 DEF FeedUnarmed, cursor, FrameInv, CursorInv, LoopInv, AccumInv, ReadInv, Waiting
<1>4. CASE FeedNext
  BY <1>4, FeedFrame DEF FeedNext
<1>5. CASE Step
  BY <1>5, StepFrame
<1>6. CASE UNCHANGED vars
  BY <1>6 DEF vars, parser, cursor, FrameInv, CursorInv, LoopInv, AccumInv, ReadInv, Passed
<1> QED
  BY <1>1, <1>2, <1>3, <1>4, <1>5, <1>6 DEF Next

LEMMA BackedInductive ==
  ASSUME FrameInv, BackedInv, [Next]_vars
  PROVE  BackedInv'
<1>1. FrameInv'
  BY FrameInductive
<1>2. CASE (\E w \in Streams : Arm(w)) \/ Reset
  <2>1. (accum = <<>> /\ log = <<>> /\ i = 1)'
    BY <1>2 DEF Arm, Reset, Clear
  <2> QED
    BY <2>1, BackedFresh, PTL
<1>3. CASE FeedUnarmed
  BY <1>3, BackedStays DEF FeedUnarmed, cursor, result
<1>4. CASE FeedNext
  BY <1>4, FeedFrame, BackedStays DEF FeedNext, Feed, result
<1>5. CASE Step
  BY <1>1, <1>5, StepFrame, BackedStep
<1>6. CASE UNCHANGED vars
  BY <1>6, BackedStays DEF vars, parser, cursor, result
<1> QED
  BY <1>2, <1>3, <1>4, <1>5, <1>6 DEF Next

(* A page-end or session-end event stands for a record that was received,  *)
(* and no record gives two: for every stream, wherever the reads cut it.   *)
THEOREM EventsAreBacked == Spec => []EventsBacked
<1>1. Init => TypeInv
  BY InitType
<1>2. Init => FrameInv /\ BackedInv
  <2> SUFFICES ASSUME Init PROVE FrameInv /\ BackedInv
    OBVIOUS
  <2>1. FrameInv
    BY <1>1 DEF Init, FrameInv, CursorInv, LoopInv, AccumInv, ReadInv
  <2> QED
    BY <2>1, BackedFresh DEF Init
<1>3. FrameInv /\ BackedInv /\ [Next]_vars => (FrameInv /\ BackedInv)'
  BY FrameInductive, BackedInductive
<1>4. FrameInv /\ BackedInv => EventsBacked
  <2> SUFFICES ASSUME FrameInv, BackedInv PROVE EventsBacked
    OBVIOUS
  <2>1. \A f : Cut(f) \in {0, 1}
    BY DEF Cut
  <2>2. /\ Cardinality(Reports("PAGE_END")) \in Nat /\ Cardinality(Taken("x21")) \in Nat
        /\ Cardinality(Reports("SESSION_END")) \in Nat /\ Cardinality(Taken("x20")) \in Nat
    BY Counted
  <2> QED
    BY <2>1, <2>2 DEF BackedInv, Backed, EventsBacked
<1> QED
  BY <1>2, <1>3, <1>4, PTL DEF Spec

-----------------------------------------------------------------------------
(* The parser implements ScanStream, if reads are cut by the rules of the  *)
(* device and the streams keep to the order of a scan. Such a stream is    *)
(* sent in phases; DeframeInv says that the parser's state is the phase of *)
(* the next fragment, that nothing is ever buffered, and what a loop knows *)
(* of the phase and of the read it is in. So each step takes a token, and  *)
(* the steps that take none only look at the begin of a read.              *)

(* The fragments with which no token begins.                               *)
Inner == RecordIds \cup {"body", "hdr"}

(* No record goes on at k.                                                 *)
Begins(k) == k \in DOMAIN wire => wire[k] \notin Inner

(* The phases in which a stream is sent.                                   *)
PhasesIn(w) == CHOOSE ph : Follows(w, ph)
Phase(k)    == PhasesIn(wire)[k]

(* The length of the record at k.                                          *)
Span(k) == IF wire[k + 1] = "x20" THEN 2 ELSE 3

(* br5_parser.state in a phase.                                            *)
StateIn ==
  [armed |-> "ARMED", data |-> "DATA", half |-> "DATA", page |-> "PAGE_DONE",
   ended |-> "SESSION_DONE", again |-> "ARMED", owed |-> "DATA", rle |-> "DATA",
   rledone |-> "PAGE_DONE", over |-> "IDLE"]

(* The parser is where the device is, in phase p.                          *)
InPhase(p) ==
  /\ state = StateIn[p]
  /\ p # "over" =>
       /\ rle_mode <=> p \in {"owed", "rle", "rledone"}
       /\ rle_pend <=> p = "owed"
       /\ pending_ff <=> p = "half"

(* The read that is parsed, as the rules of the device have it.            *)
WholeRead ==
  /\ lo \in Nat \ {0} /\ hi \in Nat /\ i \in lo..hi /\ hi <= Len(wire)
  /\ Begins(lo) /\ Begins(hi + 1)
  /\ hi < Len(wire) => wire[hi + 1] # "pay"
  /\ \A k \in lo..(hi - 1) : wire[k] \in {"body", "x20"} => k <= 3 \/ wire[k + 1] = "nul"
  /\ \A k \in lo..(hi - 1) : wire[k] = "pad" => wire[k + 1] = "pad"
  /\ \A k \in lo..hi : wire[k] = "x33" => lo = k - 1 /\ hi = k + 1

(* The stream and the cursor in it: no record is buffered.                 *)
StreamInv ==
  /\ wire \in Seq(Fragments) /\ Follows(wire, PhasesIn(wire))
  /\ accum = <<>> /\ log \in Seq(Milestones) /\ state \in States
  /\ i \in Nat /\ Begins(i)
  /\ pc \in {"out", "boundary", "main", "burst", "trail", "rle"}
  /\ pc # "out" => WholeRead

(* What the loops know of the phase. Behind a page, boundary() arms data    *)
(* for a further page and RLENGTH blocks before it has taken the first.    *)
PhaseInv ==
  /\ pc = "out" /\ state \notin {"IDLE", "ERROR"} =>
       i = hi + 1 /\ InPhase(Phase(i)) /\ (i \in DOMAIN wire => wire[i] # "pay")
  /\ pc = "boundary" => i = lo /\ InPhase(Phase(i)) /\ Phase(i) # "owed"
  /\ pc = "main" =>
       \/ Phase(i) \in {"data", "half", "rle"} /\ InPhase(Phase(i))
       \/ Phase(i) = "page" /\ wire[i] = "pad" /\ InPhase("page")
       \/ Phase(i) = "again" /\ InPhase("data")
       \/ Phase(i) = "armed" /\ InPhase("rle") /\ wire[i] = "nul" /\ wire[i + 1] = "x01"
  /\ pc = "burst" =>
       /\ Phase(i) \in {"armed", "page", "ended", "rledone"} /\ InPhase(Phase(i)) /\ wire[i] = "nul"
       /\ Phase(i) = "armed" => i = lo /\ wire[i + 1] \notin {"x01", "x02"}
  /\ pc = "trail" => Phase(i) \in {"page", "ended"} /\ InPhase(Phase(i)) /\ lo < i
  /\ pc = "rle" => Phase(i) \in {"rle", "owed", "rledone"} /\ InPhase(Phase(i))

DeframeInv == StreamInv /\ PhaseInv

-----------------------------------------------------------------------------
(* What is sent.                                                           *)

(* A phase is left by what may be sent in it.                              *)
LEMMA Moved ==
  ASSUME NEW p, NEW f, NEW q, <<p, f, q>> \in Moves
  PROVE  /\ p = "armed" => <<f, q>> \in {<<"x33", "armed">>, <<"x02", "data">>, <<"x01", "owed">>,
                                         <<"x21", "ended">>, <<"x20", "over">>}
         /\ p = "data" => <<f, q>> \in {<<"dat", "data">>, <<"ff", "half">>, <<"x02", "data">>,
                                        <<"x11", "data">>}
         /\ p = "half" => <<f, q>> \in {<<"dat", "data">>, <<"ff", "half">>, <<"d9", "page">>,
                                        <<"x02", "half">>, <<"x11", "half">>}
         /\ p = "page" => <<f, q>> \in {<<"pad", "page">>, <<"x02", "page">>, <<"x11", "page">>,
                                        <<"x33", "page">>, <<"x21", "ended">>, <<"x20", "over">>}
         /\ p = "ended" => <<f, q>> \in {<<"x11", "ended">>, <<"x33", "ended">>, <<"x20", "over">>,
                                         <<"x02", "again">>}
         /\ p = "again" => <<f, q>> \in {<<"dat", "data">>, <<"ff", "half">>}
         /\ p = "owed" => <<f, q>> = <<"pay", "rle">>
         /\ p = "rle" => <<f, q>> \in {<<"x01", "owed">>, <<"x02", "rle">>, <<"x21", "rledone">>,
                                       <<"x20", "over">>}
         /\ p = "rledone" => <<f, q>> \in {<<"x02", "rledone">>, <<"x20", "over">>}
         /\ p \in {"armed", "data", "half", "page", "ended", "again", "owed", "rle", "rledone"}
         /\ q \in {"armed", "data", "half", "page", "ended", "again", "owed", "rle", "rledone", "over"}
BY DEF Moves

(* What begins at a position is a record or data.                          *)
LEMMA Sent ==
  ASSUME StreamInv, NEW k \in DOMAIN wire, Begins(k)
  PROVE  /\ k \in Nat /\ 1 <= k /\ k <= Len(wire) /\ Len(wire) \in Nat
         /\ wire[k] = "nul" \/ wire[k] \in Data
BY DEF StreamInv, Begins, Inner, RecordIds, Ids, Data, Fragments

(* Behind data something new begins.                                       *)
LEMMA DataSent ==
  ASSUME StreamInv, NEW k \in DOMAIN wire, wire[k] \in Data
  PROVE  <<Phase(k), wire[k], Phase(k + 1)>> \in Moves /\ Begins(k + 1)
<1>1. <<Phase(k), wire[k], Phase(k + 1)>> \in Moves
  BY DEF StreamInv, Follows, Phase
<1>2. ASSUME k + 1 \in DOMAIN wire, wire[k + 1] \in Inner PROVE FALSE
  <2>1. k \in Nat /\ (k + 1) - 1 = k
    BY DEF StreamInv
  <2>2. wire[k + 1] \in RecordIds => wire[k] = "nul"
    BY <1>2, <2>1 DEF StreamInv, Follows
  <2>3. wire[k + 1] \in {"body", "hdr"} => wire[k] \in RecordIds
    BY <1>2, <2>1 DEF StreamInv, Follows
  <2> QED
    BY <1>2, <2>2, <2>3 DEF Inner, RecordIds, Ids, Data
<1> QED
  BY <1>1, <1>2 DEF Begins

(* A record is whole, and behind it something new begins.                  *)
LEMMA RecordSent ==
  ASSUME StreamInv, NEW k \in DOMAIN wire, wire[k] = "nul"
  PROVE  /\ k \in Nat /\ 1 <= k /\ Len(wire) \in Nat /\ Span(k) \in {2, 3}
         /\ wire[k + 1] \in RecordIds
         /\ k + Span(k) - 1 <= Len(wire)
         /\ <<Phase(k), wire[k + 1], Phase(k + Span(k))>> \in Moves
         /\ Begins(k + Span(k)) /\ ~Begins(k + 1)
         /\ Span(k) = 3 => /\ ~Begins(k + 2)
                           /\ wire[k + 2] = IF wire[k + 1] = "x01" THEN "hdr" ELSE "body"
<1>1. k \in Nat /\ 1 <= k /\ Len(wire) \in Nat /\ k <= Len(wire)
  BY DEF StreamInv
<1>2. k < Len(wire) /\ wire[k + 1] \in RecordIds
  BY DEF StreamInv, Follows
<1>3. wire[k + 1] # "x20" => k + 1 < Len(wire) /\ wire[k + 2] = IF wire[k + 1] = "x01" THEN "hdr" ELSE "body"
  BY DEF StreamInv, Follows
<1>4. <<Phase(k), wire[k + 1], Phase(k + Span(k))>> \in Moves
  BY DEF StreamInv, Follows, Phase, Span
<1>5. Span(k) \in {2, 3} /\ k + Span(k) - 1 <= Len(wire)
  BY <1>1, <1>2, <1>3 DEF Span
<1>6. ~Begins(k + 1)
  BY <1>1, <1>2 DEF Begins, Inner, StreamInv
<1>7. Span(k) = 3 => ~Begins(k + 2)
  BY <1>1, <1>3 DEF Begins, Inner, StreamInv, Span
<1>8. wire[k + Span(k) - 1] \in {"x20", "body", "hdr"}
  <2>1. CASE wire[k + 1] = "x20"
    <3>1. k + Span(k) - 1 = k + 1
      BY <1>1, <2>1 DEF Span
    <3> QED
      BY <2>1, <3>1
  <2>2. CASE wire[k + 1] # "x20"
    <3>1. k + Span(k) - 1 = k + 2
      BY <1>1, <2>2 DEF Span
    <3> QED
      BY <1>3, <2>2, <3>1
  <2> QED
    BY <2>1, <2>2
<1>9. Begins(k + Span(k))
  <2> DEFINE n == k + Span(k)
  <2>1. n \in Nat /\ n - 1 \in Nat /\ n - 1 = k + Span(k) - 1
    BY <1>1, <1>5
  <2>2. wire[n - 1] \in {"x20", "body", "hdr"}
    BY <1>8, <2>1, Zenon
  <2> HIDE DEF n
  <2>3. ASSUME n \in DOMAIN wire, wire[n] \in RecordIds PROVE FALSE
    BY <2>1, <2>2, <2>3 DEF StreamInv, Follows
  <2>4. ASSUME n \in DOMAIN wire, wire[n] \in {"body", "hdr"} PROVE FALSE
    <3>1. wire[n - 1] \in RecordIds \ {"x20"}
      BY <2>4 DEF StreamInv, Follows
    <3> QED
      BY <3>1, <2>2 DEF RecordIds, Ids
  <2>5. Begins(n)
    BY <2>3, <2>4 DEF Begins, Inner
  <2> QED
    BY <2>5 DEF n
<1> QED
  BY <1>1, <1>2, <1>3, <1>4, <1>5, <1>6, <1>7, <1>9 DEF Span

(* A record that is behind the first has no byte among the first three.    *)
LEMMA NotFirst ==
  ASSUME StreamInv, NEW k \in DOMAIN wire, Begins(k), k # 1
  PROVE  3 < k
<1>1. k \in Nat /\ 1 <= k /\ 1 \in DOMAIN wire
  BY DEF StreamInv
<1>2. PICK f \in DOMAIN wire : f = 1
  BY <1>1
<1>3. Begins(f)
  <2>1. wire[f] \in RecordIds => f > 1
    BY DEF StreamInv, Follows
  <2>2. wire[f] \in {"body", "hdr"} => f > 1
    BY DEF StreamInv, Follows
  <2> QED
    BY <1>2, <2>1, <2>2 DEF Begins, Inner
<1>4. Phase(f) = "armed"
  BY <1>2 DEF StreamInv, Follows, Phase
<1>5. wire[f] = "nul"
  <2>1. wire[f] \in Data => <<"armed", wire[f], Phase(f + 1)>> \in Moves
    BY <1>4, DataSent
  <2>2. wire[f] \notin Data
    BY <2>1, Moved DEF Data
  <2> QED
    BY <2>2, <1>3, Sent
<1>6. Span(f) = 2 => Phase(f + Span(f)) = "over"
  <2>1. <<"armed", wire[f + 1], Phase(f + Span(f))>> \in Moves
    BY <1>4, <1>5, RecordSent
  <2>2. Span(f) = 2 => wire[f + 1] = "x20"
    BY DEF Span
  <2> QED
    BY <2>1, <2>2, Moved
<1>7. Phase(k) # "over"
  <2>1. \E g, q : <<Phase(k), g, q>> \in Moves
    BY RecordSent, DataSent, Sent
  <2> QED
    BY <2>1, Moved
<1>8. ~Begins(f + 1) /\ Span(f) \in {2, 3} /\ (Span(f) = 3 => ~Begins(f + 2))
  BY <1>5, RecordSent
<1>9. k # f + 1 /\ (Span(f) = 3 => k # f + 2) /\ (Span(f) = 2 => k # f + Span(f))
  BY <1>6, <1>7, <1>8
<1> QED
  BY <1>1, <1>2, <1>8, <1>9

-----------------------------------------------------------------------------
(* What a read holds.                                                      *)

(* A record that begins in a read ends in it, and unless it is the first   *)
(* of the stream another record follows it there.                          *)
LEMMA Inside ==
  ASSUME StreamInv, WholeRead, NEW k \in lo..hi, wire[k] = "nul"
  PROVE  /\ k \in DOMAIN wire /\ k \in Nat /\ Span(k) \in {2, 3}
         /\ k + Span(k) <= hi + 1
         /\ RecordAt(k, hi) = RecordOf(wire[k + 1])
         /\ wire[k + 1] = "x33" => lo = k /\ hi = k + 2
         /\ k + Span(k) <= hi /\ wire[k + 1] # "x01" => k = 1 \/ wire[k + Span(k)] = "nul"
<1>1. lo \in Nat /\ hi \in Nat /\ k \in Nat /\ 1 <= k /\ k <= hi /\ lo <= k /\ Len(wire) \in Nat
      /\ k \in DOMAIN wire
  BY DEF WholeRead, StreamInv
<1>2. /\ Span(k) \in {2, 3} /\ k + Span(k) - 1 <= Len(wire)
      /\ ~Begins(k + 1) /\ (Span(k) = 3 => ~Begins(k + 2))
  BY <1>1, RecordSent
<1>3. k + Span(k) <= hi + 1
  <2>1. Begins(hi + 1)
    BY DEF WholeRead
  <2>2. hi + 1 # k + 1 /\ (Span(k) = 3 => hi + 1 # k + 2)
    BY <2>1, <1>2
  <2> QED
    BY <1>1, <1>2, <2>2
<1>4. RecordAt(k, hi) = RecordOf(wire[k + 1])
  <2>1. RecLen(RecordOf(wire[k + 1])) = Span(k)
    BY DEF RecLen, RecordOf, Span
  <2>2. k + 1 <= hi /\ k + Span(k) - 1 <= hi
    BY <1>1, <1>2, <1>3
  <2> QED
    BY <2>1, <2>2 DEF RecordAt
<1>5. wire[k + 1] = "x33" => lo = k /\ hi = k + 2
  <2>1. k + 1 \in lo..hi
    BY <1>1, <1>2, <1>3
  <2>2. wire[k + 1] = "x33" => lo = (k + 1) - 1 /\ hi = (k + 1) + 1
    BY <2>1 DEF WholeRead
  <2> QED
    BY <2>2, <1>1
<1>6. ASSUME k + Span(k) <= hi, wire[k + 1] # "x01", k # 1
      PROVE  wire[k + Span(k)] = "nul"
  <2>1. Begins(k)
    BY DEF Begins, Inner, RecordIds, Ids
  <2>2. 3 < k
    BY <1>1, <1>6, <2>1, NotFirst
  <2>3. PICK e \in Nat : e = k + Span(k) - 1
    BY <1>1, <1>2
  <2>4. wire[e] \in {"x20", "body"}
    <3>1. CASE Span(k) = 2
      <4>1. wire[k + 1] = "x20"
        BY <3>1 DEF Span
      <4> QED
        BY <1>1, <2>3, <3>1, <4>1
    <3>2. CASE Span(k) = 3
      <4>1. wire[k + 2] = "body"
        BY <1>1, <1>6, <3>2, RecordSent
      <4> QED
        BY <1>1, <2>3, <3>2, <4>1
    <3> QED
      BY <1>2, <3>1, <3>2
  <2>5. e \in lo..(hi - 1) /\ 3 < e /\ e + 1 = k + Span(k)
    BY <1>1, <1>2, <1>6, <2>2, <2>3
  <2>6. wire[e + 1] = "nul"
    BY <2>4, <2>5 DEF WholeRead
  <2> QED
    BY <2>5, <2>6
<1> QED
  BY <1>1, <1>2, <1>3, <1>4, <1>5, <1>6

(* A set of numbers has a least one.                                       *)
LEMMA HasLeast ==
  ASSUME NEW S \in SUBSET Nat, S # {}
  PROVE  \E m \in S : \A y \in S : m <= y
<1> DEFINE Below == {ss \in Nat \X Nat : ss[1] < ss[2]}
<1>1. IsWellFoundedOn(Below, Nat)
  BY NatLessThanWellFounded DEF OpToRel
<1> HIDE DEF Below
<1>2. PICK m \in S : \A y \in S : <<y, m>> \notin Below
  BY <1>1, WFMin
<1>3. ASSUME NEW y \in S PROVE m <= y
  <2>1. y \in Nat /\ m \in Nat
    OBVIOUS
  <2>2. ~(y < m)
    BY <1>2, <2>1 DEF Below
  <2> QED
    BY <2>1, <2>2
<1> QED
  BY <1>3

(* Padding fills the rest of the read, and leads nowhere.                  *)
LEMMA PadsOnly ==
  ASSUME StreamInv, WholeRead, wire[i] = "pad", Phase(i) = "page"
  PROVE  (\A k \in i..hi : wire[k] = "pad") /\ Phase(hi + 1) = "page"
<1> DEFINE Other == {k \in i..hi : ~(wire[k] = "pad" /\ Phase(k) = "page")}
<1>1. i \in Nat /\ lo \in Nat /\ lo <= i /\ hi \in Nat /\ 1 <= lo /\ hi <= Len(wire) /\ i <= hi
  BY DEF WholeRead
<1>2. ASSUME NEW k \in i..hi, wire[k] = "pad", Phase(k) = "page" PROVE Phase(k + 1) = "page"
  <2>1. k \in DOMAIN wire
    BY <1>1 DEF StreamInv
  <2>2. <<"page", "pad", Phase(k + 1)>> \in Moves
    BY <1>2, <2>1, DataSent DEF Data
  <2> QED
    BY <2>2, Moved
<1>3. Other \in SUBSET Nat
  BY <1>1
<1>4. ASSUME Other # {} PROVE FALSE
  <2>1. PICK m \in Other : \A y \in Other : m <= y
    BY <1>3, <1>4, HasLeast
  <2>2. m \in Nat /\ i <= m /\ m <= hi /\ m # i /\ ~(wire[m] = "pad" /\ Phase(m) = "page")
    BY <1>1, <2>1
  <2>3. PICK j \in Nat : j = m - 1
    BY <2>2, <1>1
  <2>4. j \in i..hi /\ j \in lo..(hi - 1) /\ ~(m <= j) /\ j + 1 = m
    BY <1>1, <2>2, <2>3
  <2>5. wire[j] = "pad" /\ Phase(j) = "page"
    BY <2>1, <2>4
  <2>6. wire[j + 1] = "pad"
    BY <2>4, <2>5 DEF WholeRead
  <2>7. Phase(j + 1) = "page"
    BY <1>2, <2>4, <2>5
  <2> QED
    BY <2>2, <2>4, <2>6, <2>7
<1>5. \A k \in i..hi : wire[k] = "pad" /\ Phase(k) = "page"
  BY <1>4
<1>6. hi \in i..hi
  BY <1>1
<1>7. Phase(hi + 1) = "page"
  BY <1>2, <1>5, <1>6
<1> QED
  BY <1>5, <1>7

(* A read that begins with a record, but not with the one that opens a page, *)
(* holds nothing but records.                                              *)
LEMMA RecordsOnly ==
  ASSUME StreamInv, WholeRead, wire[lo] = "nul",
         Phase(lo) \in {"armed", "page", "ended", "rledone"},
         Phase(lo) = "armed" => wire[lo + 1] \notin {"x01", "x02"}
  PROVE  ~Long(lo, hi)
<1> DEFINE Onward == {"page", "ended", "rledone"}
           Other  == {k \in lo..hi : Begins(k) /\ k # lo /\ ~(wire[k] = "nul" /\ Phase(k) \in Onward)}
<1>1. lo \in Nat /\ 1 <= lo /\ hi \in Nat /\ lo <= hi /\ hi <= Len(wire) /\ Len(wire) \in Nat
      /\ Begins(lo)
  BY DEF WholeRead, StreamInv
<1>2. Other \in SUBSET Nat
  BY <1>1
<1>3. ASSUME Other # {} PROVE FALSE
  <2>1. PICK m \in Other : \A y \in Other : m <= y
    BY <1>2, <1>3, HasLeast
  <2>2. m \in Nat /\ lo < m /\ m <= hi /\ Begins(m) /\ m \in DOMAIN wire
        /\ ~(wire[m] = "nul" /\ Phase(m) \in Onward)
    BY <1>1, <2>1 DEF StreamInv
  \* the record or the byte before it
  <2>3. PICK j \in lo..(m - 1) :
          /\ Begins(j)
          /\ wire[j] = "nul" => j + Span(j) = m
          /\ wire[j] # "nul" => j + 1 = m
    <3>1. PICK a \in Nat : a = m - 1
      BY <1>1, <2>2
    <3>2. a \in DOMAIN wire /\ lo <= a /\ a < m /\ a + 1 = m /\ 1 <= a
      BY <1>1, <2>2, <3>1 DEF StreamInv
    <3>3. CASE wire[a] \notin Inner
      <4>1. wire[a] # "nul"
        <5>1. wire[a] = "nul" => ~Begins(a + 1)
          BY <3>2, RecordSent
        <5> QED
          BY <5>1, <3>2, <2>2
      <4> QED
        BY <1>1, <2>2, <3>2, <3>3, <4>1 DEF Begins
    <3>4. CASE wire[a] \in RecordIds
      <4>1. a > 1 /\ wire[a - 1] = "nul"
        BY <3>2, <3>4 DEF StreamInv, Follows
      <4>2. PICK b \in Nat : b = a - 1
        BY <3>2, <4>1
      <4>3. b \in DOMAIN wire /\ b + 1 = a /\ b + 2 = m /\ wire[b] = "nul"
        BY <3>2, <4>1, <4>2 DEF StreamInv
      <4>4. Span(b) \in {2, 3} /\ (Span(b) = 3 => ~Begins(b + 2))
        BY <4>3, RecordSent
      <4>5. a # lo
        BY <1>1, <3>2, <3>4 DEF Begins, Inner
      <4>6. b \in lo..(m - 1)
        BY <1>1, <2>2, <3>2, <4>2, <4>3, <4>5
      <4>7. Begins(b)
        BY <4>3 DEF Begins, Inner, RecordIds, Ids
      <4>8. b + Span(b) = m
        BY <2>2, <4>3, <4>4
      <4> QED
        BY <4>3, <4>6, <4>7, <4>8
    <3>5. CASE wire[a] \in {"body", "hdr"}
      <4>1. a > 1 /\ wire[a - 1] \in RecordIds \ {"x20"}
        BY <3>2, <3>5 DEF StreamInv, Follows
      <4>2. PICK c \in Nat : c = a - 1
        BY <3>2, <4>1
      <4>3. c \in DOMAIN wire /\ c + 1 = a /\ wire[c] \in RecordIds \ {"x20"}
        BY <3>2, <4>1, <4>2 DEF StreamInv
      <4>4. c > 1 /\ wire[c - 1] = "nul"
        BY <4>3 DEF StreamInv, Follows
      <4>5. PICK b \in Nat : b = c - 1
        BY <4>3, <4>4
      <4>6. b \in DOMAIN wire /\ b + 1 = c /\ b + 3 = m /\ wire[b] = "nul"
        BY <3>2, <4>3, <4>4, <4>5 DEF StreamInv
      <4>7. Span(b) = 3
        BY <4>3, <4>6 DEF Span
      <4>8. a # lo /\ c # lo
        BY <1>1, <3>2, <3>5, <4>3 DEF Begins, Inner
      <4>9. b \in lo..(m - 1)
        BY <1>1, <2>2, <3>2, <4>2, <4>3, <4>5, <4>6, <4>8
      <4>10. Begins(b)
        BY <4>6 DEF Begins, Inner, RecordIds, Ids
      <4> QED
        BY <4>6, <4>7, <4>9, <4>10
    <3> QED
      BY <3>3, <3>4, <3>5 DEF Inner
  <2>4. j \in lo..hi /\ j \in Nat /\ j < m /\ j \notin Other
    <3>1. j \in lo..hi /\ j \in Nat /\ j < m /\ ~(m <= j)
      BY <1>1, <2>2
    <3> QED
      BY <3>1, <2>1
  <2>5. wire[j] = "nul" /\ (j = lo \/ Phase(j) \in Onward)
    BY <2>3, <2>4
  <2> HIDE DEF Other
  <2>6. /\ j \in DOMAIN wire /\ j + Span(j) <= hi
        /\ <<Phase(j), wire[j + 1], Phase(m)>> \in Moves
    BY <1>1, <2>2, <2>3, <2>4, <2>5, RecordSent DEF StreamInv
  <2>7. Phase(m) \in Onward \cup {"armed", "again", "over"} /\ wire[j + 1] # "x01"
        /\ (Phase(m) = "armed" => wire[j + 1] = "x33")
        /\ (Phase(j) = "armed" => Phase(m) # "again")
    BY <2>5, <2>6, Moved
  <2>8. wire[j + 1] # "x33"
    BY <2>4, <2>5, <2>6, Inside DEF Span
  <2>9. PICK g, q : /\ <<Phase(m), g, q>> \in Moves
                    /\ (wire[m] \in Data /\ g = wire[m]) \/ (wire[m] = "nul" /\ g \in RecordIds)
    BY <2>2, RecordSent, DataSent, Sent
  <2>10. Phase(m) # "over" /\ (Phase(m) \in {"ended", "rledone"} => wire[m] = "nul")
    <3>0. <<Phase(m), g, q>> \in Moves
      BY <2>9
    <3>1. Phase(m) # "over"
      BY <3>0, Moved
    <3>2. Phase(m) \in {"ended", "rledone"} => g \in RecordIds
      BY <2>9, Moved DEF RecordIds, Ids
    <3> QED
      BY <2>9, <3>1, <3>2 DEF RecordIds, Ids, Data
  <2>14. ~(Phase(m) = "again" /\ wire[m] = "nul")
    <3>0. <<Phase(m), g, q>> \in Moves
      BY <2>9
    <3>1. Phase(m) = "again" => g \in {"dat", "ff"}
      BY <3>0, Moved
    <3> QED
      BY <2>9, <3>1 DEF RecordIds, Ids, Data
  <2>11. j = 1 => Phase(j) = "armed"
    BY DEF StreamInv, Follows, Phase
  <2>12. j = 1 => Phase(m) \in {"ended", "over"} 
    BY <2>5, <2>6, <2>7, <2>8, <2>11, Moved
  <2>13. j = 1 \/ wire[m] = "nul"
    BY <2>3, <2>4, <2>5, <2>6, <2>7, Inside
  <2> QED
    BY <2>2, <2>7, <2>8, <2>10, <2>12, <2>13, <2>14
<1>4. ASSUME NEW k \in lo..hi, wire[k] \in {"dat", "pay", "pad"} PROVE FALSE
  <2>1. Begins(k) /\ k # lo
    BY <1>4 DEF Begins, Inner, RecordIds, Ids
  <2> QED
    BY <2>1, <1>3, <1>4
<1> QED
  BY <1>4 DEF Long

-----------------------------------------------------------------------------
(* A step takes what is sent next.                                         *)

(* The cursor goes on to n, in this loop or another.                       *)
LEMMA Onwards ==
  ASSUME StreamInv, pc # "out", UNCHANGED <<wire, lo, hi, accum>>, TypeOK', NEW n \in Nat,
         i <= n, n <= hi + 1, Begins(n), i' = n, pc' # "rest", n <= hi \/ pc' = "out"
  PROVE  StreamInv' /\ Phase(i)' = Phase(n)
<1>1. WholeRead /\ hi \in Nat /\ lo \in Nat
  BY DEF StreamInv, WholeRead
<1>2. wire' = wire /\ lo' = lo /\ hi' = hi /\ accum' = accum
  OBVIOUS
<1>3. Begins(i)' /\ Begins(lo)' /\ Begins(hi + 1)'
  BY <1>1, <1>2 DEF Begins, WholeRead
<1>4. pc' # "out" => WholeRead'
  BY <1>1, <1>2, <1>3 DEF WholeRead
<1>5. pc' \in {"out", "boundary", "main", "burst", "trail", "rle"} /\ log' \in Seq(Milestones)
      /\ state' \in States
  BY DEF TypeOK
<1>6. StreamInv'
  BY <1>2, <1>3, <1>4, <1>5 DEF StreamInv
<1>7. Phase(i)' = Phase(n)
  BY <1>2 DEF Phase
<1> QED
  BY <1>6, <1>7

(* What handle_record() does in a phase with a record that is sent in it.  *)
LEMMA RecordTaken ==
  ASSUME StreamInv, WholeRead, TypeOK, wire[i] = "nul", wire[i + 1] \notin {"x33", "x01"},
         NEW p, p = Phase(i), InPhase(p), NEW q, q = Phase(i + Span(i)),
         HandleRecord(RecordOf(wire[i + 1])), i' = i + Span(i),
         UNCHANGED <<wire, page, pending_ff>>
  PROVE  InPhase(q)' /\ Deframer!Next
<1>1. i \in DOMAIN wire /\ i \in Nat /\ i <= Len(wire) /\ i \in lo..hi
  BY DEF WholeRead, StreamInv
<1>2. <<p, wire[i + 1], q>> \in Moves
  BY <1>1, RecordSent
<1>3. PICK f \in {"x02", "x11", "x21", "x20"} : f = wire[i + 1]
  BY <1>1, RecordSent DEF RecordIds, Ids
<1>4. /\ state' = NextState(RecordOf(f)) /\ rle_mode' = rle_mode /\ rle_pend' = rle_pend
      /\ log' = log \o MilestoneOf(RecordOf(f)) /\ pending_ff' = pending_ff
  <2>1. RecordOf(f) # "block"
    BY DEF RecordOf
  <2>2. rle_mode \in BOOLEAN /\ rle_pend \in BOOLEAN
    BY DEF TypeOK
  <2> QED
    BY <1>3, <2>1, <2>2 DEF HandleRecord, OpensBlock
<1>5. /\ f = "x02" => RecordOf(f) = "progress"
      /\ f = "x11" => RecordOf(f) = "endstat"
      /\ f = "x21" => RecordOf(f) = "pageEnd"
      /\ f = "x20" => RecordOf(f) = "scanEnd"
  BY DEF RecordOf
<1>6. <<p, f, q>> \in Moves
  BY <1>2, <1>3
<1>7. /\ p \in {"armed", "data", "half", "page", "ended", "rle", "rledone"}
      /\ f = "x20" => q = "over" /\ p \in {"armed", "page", "ended", "rle", "rledone"}
      /\ f = "x21" => \/ p \in {"armed", "page"} /\ q = "ended"
                      \/ p = "rle" /\ q = "rledone"
      /\ f = "x02" => \/ p = "armed" /\ q = "data"
                      \/ p = "ended" /\ q = "again"
                      \/ p \in {"data", "half", "page", "rle", "rledone"} /\ q = p
      /\ f = "x11" => p \in {"data", "half", "page", "ended"} /\ q = p
  BY <1>3, <1>6, Moved
<1>a. /\ p = "armed" => state = "ARMED" /\ ~rle_mode /\ ~rle_pend /\ ~pending_ff
      /\ p = "data" => state = "DATA" /\ ~rle_mode /\ ~rle_pend /\ ~pending_ff
      /\ p = "half" => state = "DATA" /\ ~rle_mode /\ ~rle_pend /\ pending_ff
      /\ p = "page" => state = "PAGE_DONE" /\ ~rle_mode /\ ~rle_pend /\ ~pending_ff
      /\ p = "ended" => state = "SESSION_DONE" /\ ~rle_mode /\ ~rle_pend /\ ~pending_ff
      /\ p = "rle" => state = "DATA" /\ rle_mode /\ ~rle_pend /\ ~pending_ff
      /\ p = "rledone" => state = "PAGE_DONE" /\ rle_mode /\ ~rle_pend /\ ~pending_ff
  BY DEF InPhase, StateIn
<1>b. Listening \/ f \notin {"x20", "x21"}
  BY <1>7, <1>a DEF Listening
<1>8. InPhase(q)'
  <2>1. CASE f = "x02" /\ p = "armed"
    BY <1>4, <1>5, <1>7, <1>a, <2>1 DEF InPhase, StateIn, NextState
  <2>2. CASE f = "x02" /\ p = "ended"
    BY <1>4, <1>5, <1>7, <1>a, <2>2 DEF InPhase, StateIn, NextState
  <2>3. CASE f \in {"x02", "x11"} /\ q = p /\ p # "armed"
    <3>1. state' = state
      <4>1. state \notin {"ARMED", "SESSION_DONE"} \/ f = "x11"
        BY <1>7, <1>a, <2>3
      <4> QED
        BY <1>4, <1>5, <2>3, <4>1 DEF NextState
    <3> QED
      BY <1>4, <2>3, <3>1 DEF InPhase
  <2>4. CASE f = "x21" /\ p \in {"armed", "page"}
    <3>1. state' = "SESSION_DONE" /\ q = "ended"
      BY <1>4, <1>5, <1>7, <1>a, <2>4 DEF NextState
    <3> QED
      BY <1>4, <1>a, <2>4, <3>1 DEF InPhase, StateIn
  <2>5. CASE f = "x21" /\ p = "rle"
    <3>1. state' = "PAGE_DONE" /\ q = "rledone"
      BY <1>4, <1>5, <1>7, <1>a, <2>5 DEF NextState
    <3> QED
      BY <1>4, <1>a, <2>5, <3>1 DEF InPhase, StateIn
  <2>6. CASE f = "x20"
    <3>1. state' = "IDLE" /\ q = "over"
      BY <1>4, <1>5, <1>7, <1>b, <2>6 DEF NextState
    <3> QED
      BY <3>1 DEF InPhase, StateIn
  <2> QED
    BY <1>3, <1>7, <2>1, <2>2, <2>3, <2>4, <2>5, <2>6
<1>9. log' = CASE f = "x21" -> Append(log, "PAGE_END")
               [] f = "x20" -> Append(log, "SESSION_END")
               [] OTHER     -> log
  <2>1. log \in Seq(Milestones) /\ log \o <<>> = log
        /\ log \o <<"PAGE_END">> = Append(log, "PAGE_END")
        /\ log \o <<"SESSION_END">> = Append(log, "SESSION_END")
    BY DEF StreamInv
  <2>2. MilestoneOf(RecordOf(f)) = CASE f = "x21" -> <<"PAGE_END">>
                                     [] f = "x20" -> <<"SESSION_END">>
                                     [] OTHER     -> <<>>
    <3>1. f = "x21" => state # "SESSION_DONE"
      BY <1>7, <1>a
    <3> QED
      BY <1>3, <1>5, <1>b, <3>1 DEF MilestoneOf
  <2> QED
    BY <1>3, <1>4, <2>1, <2>2
<1>10. Deframer!TakeRecord
  BY <1>3, <1>9 DEF Deframer!TakeRecord, Span
<1> QED
  BY <1>1, <1>8, <1>10 DEF Deframer!Next

(* What is passed on as data of the page.                                  *)
LEMMA PayloadTaken ==
  ASSUME StreamInv, WholeRead, wire[i] \in Data \ {"pad"}, page' = page \cup {i}, i' = i + 1,
         wire' = wire, log' = IF wire[i] = "d9" THEN Append(log, "JPEG_EOI") ELSE log
  PROVE  Deframer!Next
<1>1. i <= Len(wire)
  BY DEF WholeRead
<1>2. Deframer!TakePayload
  BY DEF Deframer!TakePayload, Deframer!Payload, Data
<1> QED
  BY <1>1, <1>2 DEF Deframer!Next

(* The phases that can be met, by what is sent in them.                    *)
LEMMA PhaseSent ==
  ASSUME StreamInv, WholeRead
  PROVE  /\ i \in DOMAIN wire /\ i \in lo..hi /\ i \in Nat
         /\ wire[i] = "nul" => /\ wire[i + 1] \in RecordIds
                              /\ <<Phase(i), wire[i + 1], Phase(i + Span(i))>> \in Moves
                              /\ Begins(i + Span(i)) /\ i + Span(i) <= hi + 1
                              /\ Phase(i) \in {"armed", "data", "half", "page", "ended", "rle", "rledone"}
         /\ wire[i] # "nul" => /\ wire[i] \in Data
                              /\ <<Phase(i), wire[i], Phase(i + 1)>> \in Moves
                              /\ Begins(i + 1)
                              /\ Phase(i) \in {"data", "half", "page", "again", "owed"}
<1>1. i \in DOMAIN wire /\ i \in lo..hi /\ i \in Nat /\ Begins(i)
  BY DEF StreamInv, WholeRead
<1>2. CASE wire[i] = "nul"
  <2>1. /\ wire[i + 1] \in RecordIds /\ <<Phase(i), wire[i + 1], Phase(i + Span(i))>> \in Moves
        /\ Begins(i + Span(i)) /\ i + Span(i) <= hi + 1
    BY <1>1, <1>2, RecordSent, Inside
  <2>2. wire[i + 1] \notin Data
    BY <2>1 DEF RecordIds, Ids, Data
  <2>3. Phase(i) \in {"armed", "data", "half", "page", "ended", "rle", "rledone"}
    BY <2>1, <2>2, Moved DEF Data
  <2> QED
    BY <1>1, <1>2, <2>1, <2>3
<1>3. CASE wire[i] # "nul"
  <2>1. wire[i] \in Data
    BY <1>1, <1>3, Sent
  <2>2. <<Phase(i), wire[i], Phase(i + 1)>> \in Moves /\ Begins(i + 1)
    BY <1>1, <2>1, DataSent
  <2>3. Phase(i) \in {"data", "half", "page", "again", "owed"}
    BY <2>1, <2>2, Moved DEF Data
  <2> QED
    BY <1>1, <1>3, <2>1, <2>2, <2>3
<1> QED
  BY <1>2, <1>3

(* The read is used up: the next begins as the device goes on.             *)
LEMMA ReadOver ==
  ASSUME StreamInv, WholeRead, TypeOK', UNCHANGED <<wire, lo, hi, accum>>, pc # "out",
         pc' = "out", i' = hi + 1, InPhase(Phase(hi + 1))'
  PROVE  DeframeInv'
<1>1. hi + 1 \in Nat /\ Begins(hi + 1) /\ i <= hi + 1 /\ hi \in Nat /\ hi <= Len(wire) /\ Len(wire) \in Nat
  BY DEF WholeRead, StreamInv
<1>2. StreamInv' /\ Phase(i)' = Phase(hi + 1)
  BY <1>1, Onwards
<1>3. hi + 1 \in DOMAIN wire => wire[hi + 1] # "pay"
  BY <1>1 DEF WholeRead, StreamInv
<1>4. (i \in DOMAIN wire => wire[i] # "pay")'
  BY <1>3
<1>5. InPhase(Phase(i))'
  BY <1>2 DEF Phase
<1> QED
  BY <1>2, <1>4, <1>5 DEF DeframeInv, PhaseInv

(* A step that handles the record at i and goes on behind it.              *)
LEMMA RecordStep ==
  ASSUME StreamInv, WholeRead, TypeOK, TypeOK', pc # "out", UNCHANGED <<wire, lo, hi, accum>>,
         wire[i] = "nul", wire[i + 1] \notin {"x33", "x01"}, InPhase(Phase(i)),
         HandleRecord(RecordOf(wire[i + 1])), UNCHANGED <<page, pending_ff>>,
         NEW l, Continue(l, i + Span(i))
  PROVE  /\ Deframer!Next
         /\ i + Span(i) > hi => DeframeInv'
         /\ i + Span(i) <= hi /\ l # "rest" =>
              /\ StreamInv' /\ InPhase(Phase(i))' /\ Phase(i)' = Phase(i + Span(i))
              /\ i' = i + Span(i) /\ pc' = l
<1>1. i \in DOMAIN wire /\ i \in lo..hi /\ i \in Nat /\ Begins(i + Span(i)) /\ i + Span(i) <= hi + 1
      /\ Span(i) \in {2, 3} /\ hi \in Nat
  BY PhaseSent, Inside DEF WholeRead
<1>2. PICK n \in Nat : n = i + Span(i)
  BY <1>1
<1>3. i <= n /\ n <= hi + 1 /\ Begins(n) /\ i' = n /\ pc' = IF n > hi THEN "out" ELSE l
  BY <1>1, <1>2 DEF Continue
<1>4. PICK p : p = Phase(i)
  OBVIOUS
<1>5. PICK q : q = Phase(n)
  OBVIOUS
<1>6. InPhase(q)' /\ Deframer!Next
  BY <1>2, <1>3, <1>4, <1>5, RecordTaken
<1>7. Phase(n)' = q
  BY <1>5 DEF Phase
<1>8. InPhase(Phase(n))'
  BY <1>6, <1>7 DEF InPhase
<1>9. n > hi => DeframeInv'
  <2>1. n > hi => n = hi + 1
    BY <1>1, <1>3
  <2>2. n > hi => InPhase(Phase(hi + 1))'
    BY <1>8, <2>1 DEF Phase
  <2> QED
    BY <1>3, <2>1, <2>2, ReadOver
<1>10. n <= hi /\ l # "rest" => StreamInv' /\ Phase(i)' = Phase(n) /\ pc' = l
  BY <1>1, <1>3, Onwards
<1>11. n <= hi /\ l # "rest" => InPhase(Phase(i))'
  BY <1>3, <1>8 DEF Phase
<1> QED
  BY <1>2, <1>3, <1>6, <1>9, <1>10, <1>11

(* boundary() takes the first record of a read or nothing.                 *)
LEMMA BoundaryDeframes ==
  ASSUME DeframeInv, TypeInv, TypeOK', Boundary
  PROVE  DeframeInv' /\ (Deframer!Next \/ UNCHANGED Deframer!vars)
<1> USE DEF Boundary
<1>1. /\ StreamInv /\ WholeRead /\ accum = <<>> /\ i = lo /\ InPhase(Phase(i)) /\ Phase(i) # "owed"
      /\ pc = "boundary" /\ i \in Nat /\ hi \in Nat /\ i <= hi
  BY DEF DeframeInv, StreamInv, PhaseInv, WholeRead
<1>2. TypeOK
  BY DEF TypeInv
<1>3. /\ state = "DATA" => Phase(i) \in {"data", "half", "rle"}
      /\ state # "DATA" => Phase(i) \notin {"data", "half", "rle"}
      /\ Phase(i) = "rle" <=> state = "DATA" /\ rle_mode
  BY <1>1, PhaseSent DEF InPhase, StateIn
<1>4. BoundaryLeavesChunk \/ BoundaryInJpeg \/ BoundaryOpensRle \/ BoundaryCoalesced \/ BoundaryShort
      \/ BoundaryNoRecord
  BY DEF Boundary
<1> HIDE DEF Boundary
<1>5. CASE BoundaryLeavesChunk
  <2>1. UNCHANGED <<wire, lo, hi, i, accum, state, rle_mode, rle_pend, pending_ff, page, log>> /\ pc' = "main"
    BY <1>5 DEF BoundaryLeavesChunk, parser, result
  <2>2. Phase(i) = "rle"
    BY <1>1, <1>3, <1>5 DEF BoundaryLeavesChunk
  <2>3. StreamInv' /\ Phase(i)' = Phase(i)
    BY <1>1, <2>1, Onwards DEF StreamInv
  <2>4. InPhase(Phase(i))'
    BY <1>1, <2>1, <2>3 DEF InPhase, Phase
  <2>5. DeframeInv'
    BY <2>1, <2>2, <2>3, <2>4 DEF DeframeInv, PhaseInv
  <2> QED
    BY <2>1, <2>5 DEF Deframer!vars
<1>6. CASE BoundaryInJpeg
  <2>1. Phase(i) \in {"data", "half"} /\ UNCHANGED <<wire, lo, hi, accum, pending_ff, page>>
    BY <1>1, <1>3, <1>6 DEF BoundaryInJpeg
  <2>2. CASE /\ RecordAt(lo, hi) # "none"
             /\ hi = lo + RecLen(RecordAt(lo, hi)) - 1
             /\ HandleRecord(RecordAt(lo, hi))
             /\ Done
    <3>1. wire[i] = "nul" /\ i + 1 <= hi
      BY <1>1, <2>2 DEF RecordAt
    <3>2. RecordAt(lo, hi) = RecordOf(wire[i + 1])
      BY <1>1, <3>1, Inside, PhaseSent
    <3>3. wire[i + 1] \notin {"x33", "x01"}
      BY <2>2, <3>2 DEF RecordOf
    <3>4. RecLen(RecordAt(lo, hi)) = Span(i)
      BY <3>2 DEF RecLen, RecordOf, Span
    <3>5. Continue("main", i + Span(i)) /\ i + Span(i) > hi
      BY <1>1, <2>2, <3>4 DEF Continue, Done, Span
    <3> QED
      BY <1>1, <1>2, <2>1, <2>2, <3>1, <3>2, <3>3, <3>5, RecordStep
  <2>3. CASE ev' = <<>> /\ pc' = "main" /\ UNCHANGED <<state, rle_mode, rle_pend, i, log>>
    <3>1. StreamInv' /\ Phase(i)' = Phase(i)
      BY <1>1, <2>1, <2>3, Onwards DEF StreamInv
    <3>2. InPhase(Phase(i))'
      BY <1>1, <2>1, <2>3, <3>1 DEF InPhase, Phase
    <3>3. DeframeInv'
      BY <2>1, <2>3, <3>1, <3>2 DEF DeframeInv, PhaseInv
    <3> QED
      BY <2>1, <2>3, <3>3 DEF Deframer!vars
  <2> QED
    BY <1>6, <2>2, <2>3 DEF BoundaryInJpeg
<1>7. CASE BoundaryOpensRle
  <2>1. /\ UNCHANGED <<wire, lo, hi, i, accum, rle_pend, pending_ff, page, log>> /\ pc' = "main"
        /\ state' = "DATA" /\ rle_mode' = TRUE
    BY <1>7 DEF BoundaryOpensRle, result
  <2>2. wire[i] = "nul" /\ wire[i + 1] = "x01" /\ state # "DATA"
    BY <1>1, <1>7 DEF BoundaryOpensRle, OpensRle, BlockAt
  <2>3. Phase(i) = "armed"
    <3>1. <<Phase(i), "x01", Phase(i + Span(i))>> \in Moves
      BY <1>1, <2>2, PhaseSent
    <3> QED
      BY <1>3, <2>2, <3>1, Moved
  <2>4. StreamInv' /\ Phase(i)' = "armed"
    BY <1>1, <2>1, <2>3, Onwards DEF StreamInv
  <2>5. InPhase("rle")'
    BY <1>1, <2>1, <2>3 DEF InPhase, StateIn
  <2>6. DeframeInv'
    BY <2>1, <2>2, <2>4, <2>5 DEF DeframeInv, PhaseInv
  <2> QED
    BY <2>1, <2>6 DEF Deframer!vars
<1>8. CASE BoundaryCoalesced
  <2>1. /\ UNCHANGED <<wire, lo, hi, accum, pending_ff, page>> /\ state # "DATA"
        /\ HandleRecord("progress") /\ Continue("main", lo + 3) /\ RecordAt(lo, hi) = "progress"
    BY <1>8 DEF BoundaryCoalesced, CoalescedStart
  <2>2. wire[i] = "nul" /\ i + 1 <= hi
    BY <1>1, <2>1 DEF RecordAt
  <2>3. RecordOf(wire[i + 1]) = "progress"
    BY <1>1, <2>1, <2>2, Inside, PhaseSent
  <2>4. wire[i + 1] = "x02"
    BY <2>3, <2>2, PhaseSent, <1>1 DEF RecordOf, RecordIds, Ids
  <2>5. Span(i) = 3
    BY <2>4 DEF Span
  <2>6. Phase(i) = "armed"
    <3>1. state = "ARMED"
      BY <1>8 DEF BoundaryCoalesced, CoalescedStart
    <3>2. Phase(i) \in {"armed", "page", "ended", "rledone"}
      BY <1>1, <1>3, <2>1, <2>2, PhaseSent
    <3> QED
      BY <1>1, <3>1, <3>2 DEF InPhase, StateIn
  <2>7. Phase(i + Span(i)) = "data"
    BY <1>1, <2>2, <2>4, <2>6, PhaseSent, Moved
  <2>8. /\ Deframer!Next
        /\ i + Span(i) > hi => DeframeInv'
        /\ i + Span(i) <= hi => StreamInv' /\ InPhase(Phase(i))' /\ Phase(i)' = Phase(i + Span(i)) /\ pc' = "main"
    BY <1>1, <1>2, <2>1, <2>2, <2>3, <2>4, <2>5, RecordStep
  <2>9. i + Span(i) <= hi => DeframeInv'
    BY <2>7, <2>8 DEF DeframeInv, PhaseInv
  <2>10. i + Span(i) <= hi \/ i + Span(i) > hi
    BY <1>1, <2>5
  <2> QED
    BY <2>8, <2>9, <2>10
<1>9. CASE BoundaryShort
  <2>1. /\ UNCHANGED <<wire, lo, hi, state, rle_mode, rle_pend, pending_ff, page, log>>
        /\ state # "DATA" /\ wire[i] = "nul" /\ ~OpensRle /\ ~CoalescedStart
    BY <1>1, <1>9 DEF BoundaryShort, ShortStart, result
  <2>2. lo # hi
    BY <1>1, <2>1, Inside, PhaseSent
  <2>3. pc' = "burst" /\ UNCHANGED <<accum, i>>
    BY <1>9, <2>2 DEF BoundaryShort
  <2>4. Phase(i) \in {"armed", "page", "ended", "rledone"}
    BY <1>1, <1>3, <2>1, PhaseSent
  <2>5. wire[i + 1] # "x01"
    <3>1. ASSUME wire[i + 1] = "x01" PROVE FALSE
      <4>1. Span(i) = 3
        BY <3>1 DEF Span
      <4>2. i + 2 <= hi
        BY <1>1, <2>1, <4>1, PhaseSent
      <4>3. wire[i + 2] = "hdr"
        BY <1>1, <2>1, <3>1, <4>1, PhaseSent, RecordSent
      <4> QED
        BY <1>1, <2>1, <3>1, <4>2, <4>3 DEF OpensRle, BlockAt
    <3> QED
      BY <3>1
  <2>6. Phase(i) = "armed" => wire[i + 1] # "x02"
    <3>1. Phase(i) = "armed" => state = "ARMED"
      BY <1>1 DEF InPhase, StateIn
    <3>2. RecordAt(lo, hi) = RecordOf(wire[i + 1])
      BY <1>1, <2>1, Inside, PhaseSent
    <3> QED
      BY <2>1, <3>1, <3>2 DEF CoalescedStart, RecordOf
  <2>7. StreamInv' /\ Phase(i)' = Phase(i)
    BY <1>1, <2>1, <2>3, Onwards DEF StreamInv
  <2>8. InPhase(Phase(i))'
    BY <1>1, <2>1, <2>3, <2>7 DEF InPhase, Phase
  <2>9. DeframeInv'
    BY <1>1, <2>1, <2>3, <2>4, <2>5, <2>6, <2>7, <2>8 DEF DeframeInv, PhaseInv
  <2> QED
    BY <2>1, <2>3, <2>9 DEF Deframer!vars
<1>10. CASE BoundaryNoRecord
  <2>1. /\ UNCHANGED <<wire, lo, hi, i, accum, rle_mode, rle_pend, pending_ff, page, log>>
        /\ state # "DATA" /\ ~OpensRle /\ ~CoalescedStart /\ ~ShortStart /\ pc' = "main"
        /\ state' = IF state = "ARMED" THEN "DATA" ELSE state
    BY <1>10 DEF BoundaryNoRecord, result
  <2>2. ASSUME wire[i] = "nul" PROVE FALSE
    <3>1. Phase(i) \in {"armed", "page", "ended", "rledone"}
      BY <1>1, <1>3, <2>1, <2>2, PhaseSent
    <3>2. RecordAt(lo, hi) = RecordOf(wire[i + 1])
      BY <1>1, <2>2, Inside, PhaseSent
    <3>3. Phase(i) = "armed" => wire[i + 1] # "x02"
      <4>1. Phase(i) = "armed" => state = "ARMED"
        BY <1>1 DEF InPhase, StateIn
      <4> QED
        BY <2>1, <3>2, <4>1 DEF CoalescedStart, RecordOf
    <3>4. ASSUME wire[i + 1] = "x01" PROVE FALSE
      <4>1. Span(i) = 3
        BY <3>4 DEF Span
      <4>2. i + 2 <= hi
        BY <1>1, <2>2, <4>1, PhaseSent
      <4>3. wire[i + 2] = "hdr"
        BY <1>1, <2>2, <3>4, <4>1, PhaseSent, RecordSent
      <4> QED
        BY <1>1, <2>1, <2>2, <3>4, <4>2, <4>3 DEF OpensRle, BlockAt
    <3>5. ~Long(lo, hi)
      BY <1>1, <2>2, <3>1, <3>3, <3>4, RecordsOnly
    <3> QED
      BY <1>1, <2>1, <2>2, <3>5 DEF ShortStart
  <2>3. (Phase(i) = "page" /\ wire[i] = "pad") \/ Phase(i) = "again"
    <3>1. Phase(i) \in {"page", "again"}
      BY <1>1, <1>3, <2>1, <2>2, PhaseSent
    <3>2. wire[i] \in Data /\ <<Phase(i), wire[i], Phase(i + 1)>> \in Moves
      BY <1>1, <2>2, PhaseSent
    <3>3. Phase(i) = "page" => wire[i] = "pad"
      BY <3>2, Moved DEF Data
    <3> QED
      BY <3>1, <3>3
  <2>4. StreamInv' /\ Phase(i)' = Phase(i)
    BY <1>1, <2>1, Onwards DEF StreamInv
  <2>5. Phase(i) = "page" => InPhase("page")'
    BY <1>1, <2>1 DEF InPhase, StateIn
  <2>6. Phase(i) = "again" => InPhase("data")'
    BY <1>1, <2>1 DEF InPhase, StateIn
  <2>7. DeframeInv'
    BY <2>1, <2>3, <2>4, <2>5, <2>6 DEF DeframeInv, PhaseInv
  <2> QED
    BY <2>1, <2>7 DEF Deframer!vars
<1> QED
  BY <1>4, <1>5, <1>6, <1>7, <1>8, <1>9, <1>10

(* What may be sent in a phase that is met.                                *)
LEMMA NextSent ==
  ASSUME StreamInv, NEW n \in DOMAIN wire, Begins(n)
  PROVE  /\ Phase(n) # "over"
         /\ Phase(n) = "owed" => wire[n] = "pay"
         /\ Phase(n) \in {"again", "owed"} => wire[n] # "nul"
         /\ Phase(n) \in {"armed", "ended", "rle", "rledone"} => wire[n] = "nul"
<1>1. CASE wire[n] = "nul"
  <2>1. PICK f, q : f \in RecordIds /\ <<Phase(n), f, q>> \in Moves
    BY <1>1, RecordSent
  <2>2. f \notin {"dat", "ff", "pay"}
    BY <2>1 DEF RecordIds, Ids
  <2>3. <<Phase(n), f, q>> \in Moves
    BY <2>1
  <2>4. Phase(n) \notin {"over", "again", "owed"}
    BY <2>2, <2>3, Moved
  <2> QED
    BY <1>1, <2>4
<1>2. CASE wire[n] # "nul"
  <2>1. wire[n] \in Data
    BY <1>2, Sent
  <2>2. <<Phase(n), wire[n], Phase(n + 1)>> \in Moves
    BY <2>1, DataSent
  <2>3. wire[n] \notin {"x33", "x02", "x01", "x21", "x20", "x11"}
    BY <2>1 DEF Data
  <2>4. Phase(n) \notin {"over", "armed", "ended", "rle", "rledone"} /\ (Phase(n) = "owed" => wire[n] = "pay")
    BY <2>2, <2>3, Moved
  <2> QED
    BY <1>2, <2>4
<1> QED
  BY <1>1, <1>2

(* count_trailing() drops padding and nothing else.                        *)
LEMMA PadsDropped ==
  ASSUME DeframeInv, TypeOK', pc # "out", Phase(i) = "page", wire[i] = "pad", InPhase("page"),
         CountTrailing, UNCHANGED <<wire, lo, hi, accum, state, rle_mode, rle_pend, pending_ff, page, log>>
  PROVE  DeframeInv' /\ Deframer!Next
<1>1. StreamInv /\ WholeRead /\ i \in Nat /\ hi \in Nat /\ i <= hi /\ hi <= Len(wire) /\ Len(wire) \in Nat
  BY DEF DeframeInv, StreamInv, WholeRead
<1>2. (\A k \in i..hi : wire[k] = "pad") /\ Phase(hi + 1) = "page"
  BY <1>1, PadsOnly
<1>3. i' = hi + 1 /\ pc' = "out"
  BY DEF CountTrailing, Done
<1>4. InPhase("page")'
  BY DEF InPhase
<1>5. InPhase(Phase(hi + 1))'
  BY <1>2, <1>4 DEF Phase
<1>6. DeframeInv'
  BY <1>1, <1>3, <1>5, ReadOver
<1>7. PICK n \in (i + 1)..(Len(wire) + 1) : n = hi + 1
  BY <1>1
<1>8. \A k \in i..(n - 1) : wire[k] = "pad"
  BY <1>1, <1>2, <1>7
<1>9. Deframer!DropPadding
  BY <1>3, <1>7, <1>8 DEF Deframer!DropPadding
<1> QED
  BY <1>1, <1>6, <1>9 DEF Deframer!Next

(* A step that goes on behind the byte at i, or behind the record there.   *)
LEMMA GoneOn ==
  ASSUME StreamInv, pc # "out", UNCHANGED <<wire, lo, hi, accum>>, TypeOK',
         NEW n \in Nat, i <= n, n <= hi + 1, Begins(n), NEW l, l # "rest", Continue(l, n),
         NEW q, q = Phase(n), InPhase(q)'
  PROVE  /\ n > hi => DeframeInv'
         /\ n <= hi => StreamInv' /\ InPhase(Phase(i))' /\ Phase(i)' = q /\ i' = n /\ pc' = l
<1>1. i' = n /\ pc' = IF n > hi THEN "out" ELSE l
  BY DEF Continue
<1>2. hi \in Nat /\ WholeRead
  BY DEF StreamInv, WholeRead
<1>3. Phase(n)' = q
  BY DEF Phase
<1>4. InPhase(Phase(n))'
  BY <1>3 DEF InPhase
<1>5. n > hi => DeframeInv'
  <2>1. n > hi => n = hi + 1
    BY <1>2
  <2>2. n > hi => InPhase(Phase(hi + 1))'
    BY <1>4, <2>1 DEF Phase
  <2> QED
    BY <1>1, <1>2, <2>1, <2>2, ReadOver DEF StreamInv
<1>6. n <= hi => StreamInv' /\ Phase(i)' = Phase(n) /\ pc' = l
  BY <1>1, <1>2, Onwards
<1>7. n <= hi => InPhase(Phase(i))'
  BY <1>1, <1>4 DEF Phase
<1> QED
  BY <1>1, <1>5, <1>6, <1>7

(* Data at the cursor is not held back for the record at the tail, and a   *)
(* record in the data is the last that the read holds.                     *)
LEMMA TailHeld ==
  ASSUME StreamInv, WholeRead, Phase(i) \in {"data", "half", "again"}
  PROVE  /\ wire[i] # "nul" => i <= DataEnd
         /\ wire[i] = "nul" => /\ i > DataEnd /\ i + 2 = hi /\ Span(i) = 3
                               /\ wire[i + 1] \in {"x02", "x11"}
                               /\ TailRecord = RecordOf(wire[i + 1])
<1>1. i \in DOMAIN wire /\ i \in lo..hi /\ i \in Nat /\ Begins(i) /\ hi \in Nat /\ lo \in Nat /\ 1 <= lo
      /\ hi <= Len(wire) /\ Len(wire) \in Nat /\ Begins(hi + 1)
  BY PhaseSent DEF StreamInv, WholeRead
<1>2. ASSUME wire[i] # "nul" PROVE i <= DataEnd
  <2>1. wire[i] \in Data
    BY <1>2, PhaseSent
  <2>2. CASE TailRecord = "none"
    BY <1>1, <2>2 DEF DataEnd
  <2>3. CASE TailRecord # "none"
    <3>1. hi - 2 >= lo /\ wire[hi] = "body" /\ RecordAt(hi - 2, hi) # "none"
      BY <2>3 DEF TailRecord
    <3>2. PICK t \in Nat : t = hi - 2
      BY <1>1, <3>1
    <3>3. wire[t] = "nul" /\ RecordOf(wire[t + 1]) # "none"
      <4>1. RecordAt(t, hi) # "none"
        BY <3>1, <3>2
      <4>2. RecordAt(t, hi) # "none" => wire[t] = "nul" /\ RecordOf(wire[t + 1]) # "none"
        BY DEF RecordAt
      <4> QED
        BY <4>1, <4>2
    <3>4. i # t /\ i # t + 1 /\ i # t + 2
      <4>1. wire[t + 1] \in Ids
        BY <3>3 DEF RecordOf, Ids
      <4>2. t + 2 = hi
        BY <1>1, <3>2
      <4> QED
        BY <2>1, <3>1, <3>3, <4>1, <4>2 DEF Data, Ids
    <3>5. i <= hi - 3
      BY <1>1, <3>1, <3>2, <3>4
    <3> QED
      BY <2>3, <3>5 DEF DataEnd
  <2> QED
    BY <2>2, <2>3
<1>3. ASSUME wire[i] = "nul"
      PROVE  /\ i > DataEnd /\ i + 2 = hi /\ Span(i) = 3
             /\ wire[i + 1] \in {"x02", "x11"} /\ TailRecord = RecordOf(wire[i + 1])
  <2>1. PICK p : p = Phase(i)
    OBVIOUS
  <2>2. PICK q : q = Phase(i + Span(i))
    OBVIOUS
  <2>3. <<p, wire[i + 1], q>> \in Moves /\ wire[i + 1] \in RecordIds /\ Begins(i + Span(i))
        /\ i + Span(i) <= hi + 1
    BY <1>3, <2>1, <2>2, PhaseSent
  <2>4. p \in {"data", "half"}
    BY <1>1, <1>3, <2>1, NextSent
  <2>5. wire[i + 1] \in {"x02", "x11"} /\ q = p
    BY <2>3, <2>4, Moved DEF RecordIds, Ids
  <2>6. Span(i) = 3
    BY <2>5 DEF Span
  <2>7. i + 2 = hi
    <3>1. ASSUME i + 3 <= hi PROVE FALSE
      <4>1. i # 1
        <5>1. i = 1 => Phase(i) = "armed"
          BY DEF StreamInv, Follows, Phase
        <5> QED
          BY <2>1, <2>4, <5>1
      <4>2. 3 < i
        BY <1>1, <4>1, NotFirst
      <4>3. wire[i + 3] = "nul"
        BY <1>1, <1>3, <2>5, <2>6, <3>1, <4>1, Inside
      <4>4. wire[i + 2] = "body"
        BY <1>1, <1>3, <2>5, <2>6, RecordSent
      <4>5. PICK e \in DOMAIN wire : e = i + 2
        BY <1>1, <3>1 DEF StreamInv
      <4>6. e \in Nat /\ 3 < e /\ e < Len(wire) /\ e + 1 = i + 3
        BY <1>1, <3>1, <4>2, <4>5
      <4>7. PhasesIn(wire)[e + 1] \in {"data", "half"}
        BY <2>2, <2>4, <2>5, <2>6, <4>6 DEF Phase
      <4> QED
        BY <4>3, <4>4, <4>5, <4>6, <4>7 DEF StreamInv, Follows
    <3> QED
      BY <1>1, <2>3, <2>6, <3>1
  <2>8. RecordAt(i, hi) = RecordOf(wire[i + 1])
    BY <1>1, <1>3, Inside
  <2>9. TailRecord = RecordOf(wire[i + 1])
    <3>1. wire[hi] = "body"
      BY <1>1, <1>3, <2>5, <2>6, <2>7, RecordSent
    <3>2. hi - 2 = i /\ hi - 2 >= lo
      BY <1>1, <2>7
    <3> QED
      BY <2>8, <3>1, <3>2 DEF TailRecord
  <2>10. i > DataEnd
    <3>1. TailRecord # "none"
      BY <2>5, <2>9 DEF RecordOf
    <3> QED
      BY <1>1, <2>7, <3>1 DEF DataEnd
  <2> QED
    BY <2>5, <2>6, <2>7, <2>9, <2>10
<1> QED
  BY <1>2, <1>3

(* data_bytes() passes on what is data, and takes the record at the tail.  *)
LEMMA DataDeframes ==
  ASSUME DeframeInv, TypeInv, TypeOK', DataEoi \/ DataAppend \/ DataTail
  PROVE  DeframeInv' /\ Deframer!Next
<1>1. /\ StreamInv /\ WholeRead /\ TypeOK /\ pc = "main" /\ state = "DATA" /\ ~rle_mode
      /\ UNCHANGED <<wire, lo, hi, accum>>
  BY DEF DataEoi, DataAppend, DataTail, InJpeg, DeframeInv, StreamInv, TypeInv
<1>2. PICK p : p = Phase(i)
  OBVIOUS
<1>3. /\ \/ p \in {"data", "half"} /\ InPhase(p)
         \/ p = "again" /\ InPhase("data")
      /\ ~rle_pend /\ (pending_ff <=> p = "half")
  <2>0. /\ InPhase("rle") => rle_mode
        /\ InPhase("page") => state = "PAGE_DONE"
    BY DEF InPhase, StateIn
  <2>1. \/ p \in {"data", "half", "rle"} /\ InPhase(p)
        \/ InPhase("page")
        \/ p = "again" /\ InPhase("data")
        \/ InPhase("rle")
    BY <1>1, <1>2, Zenon DEF DeframeInv, PhaseInv
  <2>2. ~InPhase("rle") /\ ~InPhase("page")
    BY <1>1, <2>0
  <2>3. p # "rle" \/ ~InPhase(p)
    BY <2>2
  <2>4. \/ p \in {"data", "half"} /\ InPhase(p)
        \/ p = "again" /\ InPhase("data")
    BY <2>1, <2>2, <2>3
  <2>5. InPhase("data") => ~rle_pend /\ ~pending_ff
    BY DEF InPhase
  <2>6. p \in {"data", "half"} /\ InPhase(p) => ~rle_pend /\ (pending_ff <=> p = "half")
    BY DEF InPhase
  <2> QED
    BY <2>4, <2>5, <2>6
<1>4. i \in DOMAIN wire /\ i \in lo..hi /\ i \in Nat /\ hi \in Nat /\ lo \in Nat
  BY <1>1, PhaseSent DEF WholeRead
<1>5. CASE wire[i] = "nul"
  <2>1. i > DataEnd /\ i + 2 = hi /\ Span(i) = 3 /\ wire[i + 1] \in {"x02", "x11"}
        /\ TailRecord = RecordOf(wire[i + 1])
    BY <1>1, <1>2, <1>3, <1>5, TailHeld
  <2>2. ~(i <= DataEnd)
    <3>1. DataEnd = hi - 3 \/ DataEnd = hi
      BY DEF DataEnd
    <3> QED
      BY <1>4, <2>1, <3>1
  <2>3. DataTail
    BY <2>2 DEF DataEoi, DataAppend
  <2>4. HandleRecord(RecordOf(wire[i + 1])) /\ Done /\ UNCHANGED <<page, pending_ff>>
    BY <2>1, <2>3 DEF DataTail
  <2>5. Continue("main", i + Span(i)) /\ i + Span(i) > hi
    <3>1. i + Span(i) = hi + 1 /\ hi + 1 > hi
      BY <1>4, <2>1
    <3>2. i' = hi + 1 /\ pc' = "out"
      BY <2>4 DEF Done
    <3> QED
      BY <3>1, <3>2 DEF Continue
  <2>6. InPhase(Phase(i))
    <3>1. p # "again"
      BY <1>1, <1>2, <1>4, <1>5, NextSent DEF StreamInv
    <3> QED
      BY <1>2, <1>3, <3>1
  <2> QED
    BY <1>1, <1>5, <2>1, <2>4, <2>5, <2>6, RecordStep
<1>6. CASE wire[i] # "nul"
  <2>1. i <= DataEnd
    BY <1>1, <1>2, <1>3, <1>6, TailHeld
  <2>2. DataEoi \/ DataAppend
    <3>1. DataEnd = hi - 3 \/ DataEnd = hi
      BY DEF DataEnd
    <3>2. ~(i > DataEnd)
      BY <1>4, <2>1, <3>1
    <3> QED
      BY <3>2 DEF DataTail
  <2>3. PICK q : q = Phase(i + 1)
    OBVIOUS
  <2>4. wire[i] \in Data /\ <<p, wire[i], q>> \in Moves /\ Begins(i + 1)
    BY <1>1, <1>2, <1>6, <2>3, PhaseSent
  <2>5. <<wire[i], q>> \in {<<"dat", "data">>, <<"ff", "half">>, <<"d9", "page">>}
        /\ (wire[i] = "d9" => p = "half")
    BY <1>3, <2>4, Moved DEF Data
  <2>6. PICK n \in Nat : n = i + 1
    BY <1>4
  <2>7. i <= n /\ n <= hi + 1 /\ Begins(n) /\ q = Phase(n) /\ lo < n
    BY <1>4, <2>3, <2>4, <2>6
  <2>8. CASE DataEoi
    <3>1. /\ pending_ff /\ wire[i] = "d9" /\ state' = "PAGE_DONE" /\ pending_ff' = FALSE
          /\ page' = page \cup {i} /\ log' = Append(log, "JPEG_EOI") /\ Continue("trail", n)
          /\ UNCHANGED <<rle_mode, rle_pend>>
      BY <2>6, <2>8 DEF DataEoi
    <3>2. q = "page"
      BY <2>5, <3>1
    <3>3. InPhase(q)'
      BY <1>1, <1>3, <3>1, <3>2 DEF InPhase, StateIn
    <3>4. /\ n > hi => DeframeInv'
          /\ n <= hi => StreamInv' /\ InPhase(Phase(i))' /\ Phase(i)' = q /\ i' = n /\ pc' = "trail"
      BY <1>1, <2>7, <3>1, <3>3, GoneOn
    <3>5. n <= hi => DeframeInv'
      BY <1>1, <2>7, <3>2, <3>4 DEF DeframeInv, PhaseInv
    <3>6. Deframer!Next
      <4>1. i' = i + 1
        BY <2>6, <3>1 DEF Continue
      <4> QED
        BY <1>1, <2>4, <3>1, <4>1, PayloadTaken DEF Data
    <3> QED
      BY <1>4, <3>4, <3>5, <3>6
  <2>9. CASE DataAppend
    <3>1. /\ ~(pending_ff /\ wire[i] = "d9") /\ pending_ff' = (wire[i] = "ff")
          /\ page' = page \cup {i} /\ log' = log /\ Continue("main", n)
          /\ UNCHANGED <<state, rle_mode, rle_pend>>
      BY <2>6, <2>9 DEF DataAppend
    <3>2. \/ wire[i] = "dat" /\ q = "data"
          \/ wire[i] = "ff" /\ q = "half"
      <4>1. wire[i] # "d9"
        <5>1. wire[i] = "d9" => pending_ff
          BY <1>3, <2>5
        <5> QED
          BY <3>1, <5>1
      <4>2. \/ wire[i] = "dat" /\ q = "data"
            \/ wire[i] = "ff" /\ q = "half"
            \/ wire[i] = "d9"
        BY <2>5
      <4> QED
        BY <4>1, <4>2
    <3>3. InPhase(q)'
      <4>1. pending_ff' <=> q = "half"
        BY <3>1, <3>2
      <4> QED
        BY <1>1, <1>3, <3>1, <3>2, <4>1 DEF InPhase, StateIn
    <3>4. /\ n > hi => DeframeInv'
          /\ n <= hi => StreamInv' /\ InPhase(Phase(i))' /\ Phase(i)' = q /\ i' = n /\ pc' = "main"
      BY <1>1, <2>7, <3>1, <3>3, GoneOn
    <3>5. n <= hi => DeframeInv'
      BY <1>1, <2>7, <3>2, <3>4 DEF DeframeInv, PhaseInv
    <3>6. Deframer!Next
      <4>1. i' = i + 1 /\ wire[i] # "d9" /\ wire[i] # "pad"
        BY <2>6, <3>1, <3>2 DEF Continue
      <4> QED
        BY <1>1, <2>4, <3>1, <4>1, PayloadTaken
    <3> QED
      BY <1>4, <3>4, <3>5, <3>6
  <2> QED
    BY <2>2, <2>8, <2>9
<1> QED
  BY <1>5, <1>6

(* consume_trailing() takes the records behind the EOI.                    *)
LEMMA TrailDeframes ==
  ASSUME DeframeInv, TypeInv, TypeOK', ConsumeTrailing
  PROVE  DeframeInv' /\ Deframer!Next
<1>1. /\ StreamInv /\ WholeRead /\ TypeOK /\ pc = "trail" /\ UNCHANGED <<wire, lo, hi, accum, pending_ff, page>>
      /\ Phase(i) \in {"page", "ended"} /\ InPhase(Phase(i)) /\ lo < i
  BY DEF ConsumeTrailing, DeframeInv, PhaseInv, StreamInv, TypeInv
<1>2. i \in DOMAIN wire /\ i \in lo..hi /\ i \in Nat /\ Begins(i) /\ hi \in Nat /\ lo \in Nat /\ 1 <= lo
      /\ hi <= Len(wire) /\ Len(wire) \in Nat
  BY <1>1, PhaseSent DEF StreamInv, WholeRead
<1>3. CASE wire[i] = "nul"
  <2>1. PICK q : q = Phase(i + Span(i))
    OBVIOUS
  <2>2. /\ RecordAt(i, hi) = RecordOf(wire[i + 1]) /\ wire[i + 1] # "x33" /\ wire[i + 1] \in RecordIds
        /\ <<Phase(i), wire[i + 1], q>> \in Moves /\ Span(i) \in {2, 3} /\ Begins(i + Span(i))
    BY <1>1, <1>2, <1>3, <2>1, Inside, PhaseSent
  <2>3. wire[i + 1] # "x01" /\ q \in {"page", "ended", "over", "again"}
    BY <1>1, <2>2, Moved DEF RecordIds, Ids
  <2>4. wire[i + 1] \in Ids
    BY <2>2, <2>3 DEF RecordIds
  <2>5. RecordOf(wire[i + 1]) # "none" /\ RecLen(RecordOf(wire[i + 1])) = Span(i)
    BY <2>4 DEF RecordOf, RecLen, Span, Ids
  <2>6. HandleRecord(RecordOf(wire[i + 1])) /\ Continue("trail", i + Span(i))
    BY <2>2, <2>5 DEF ConsumeTrailing
  <2>7. /\ Deframer!Next
        /\ i + Span(i) > hi => DeframeInv'
        /\ i + Span(i) <= hi => /\ StreamInv' /\ InPhase(Phase(i))' /\ Phase(i)' = Phase(i + Span(i))
                                /\ i' = i + Span(i) /\ pc' = "trail"
    BY <1>1, <1>3, <2>2, <2>3, <2>6, RecordStep
  <2>8. ASSUME i + Span(i) <= hi PROVE q \in {"page", "ended"}
    <3>1. PICK n \in DOMAIN wire : n = i + Span(i)
      BY <1>2, <2>2, <2>8 DEF StreamInv
    <3>2. wire[n] = "nul"
      BY <1>1, <1>2, <1>3, <2>3, <2>8, <3>1, Inside
    <3>3. Phase(n) \notin {"over", "again"}
      BY <1>1, <2>2, <3>1, <3>2, NextSent
    <3> QED
      BY <2>1, <2>3, <3>1, <3>3
  <2>9. i + Span(i) <= hi => DeframeInv'
    <3>1. i + Span(i) <= hi => lo < i + Span(i)
      BY <1>1, <1>2, <2>2
    <3> QED
      BY <1>1, <2>1, <2>7, <2>8, <3>1 DEF DeframeInv, PhaseInv
  <2> QED
    BY <1>2, <2>2, <2>7, <2>9
<1>4. CASE wire[i] # "nul"
  <2>1. RecordAt(i, hi) = "none"
    BY <1>4 DEF RecordAt
  <2>2. CountTrailing /\ UNCHANGED <<state, rle_mode, rle_pend, log>>
    BY <2>1 DEF ConsumeTrailing
  <2>3. wire[i] \in Data /\ <<Phase(i), wire[i], Phase(i + 1)>> \in Moves
    BY <1>1, <1>4, PhaseSent
  <2>4. Phase(i) = "page" /\ wire[i] = "pad"
    <3>1. wire[i] \notin {"x33", "x02", "x01", "x21", "x20", "x11"}
      BY <2>3 DEF Data
    <3> QED
      BY <1>1, <2>3, <3>1, Moved
  <2> QED
    BY <1>1, <2>2, <2>4, PadsDropped
<1> QED
  BY <1>3, <1>4

(* non_data_bytes() is left with padding.                                  *)
LEMMA NonDataDeframes ==
  ASSUME DeframeInv, TypeInv, TypeOK', AccumId \/ AccumRest \/ NoRecord \/ IgnoreRest
  PROVE  DeframeInv' /\ Deframer!Next
<1>1. StreamInv /\ WholeRead /\ accum = <<>> /\ Len(accum) = 0 /\ pc = "main"
  BY DEF AccumId, AccumRest, NoRecord, InNonData, IgnoreRest, DeframeInv, StreamInv
<1>2. \/ state = "DATA"
      \/ Phase(i) = "page" /\ wire[i] = "pad" /\ InPhase("page") /\ state = "PAGE_DONE"
  BY <1>1 DEF DeframeInv, PhaseInv, InPhase, StateIn
<1>3. NoRecord
  BY <1>1, <1>2 DEF AccumId, AccumRest, IgnoreRest
<1>4. /\ Phase(i) = "page" /\ wire[i] = "pad" /\ InPhase("page") /\ CountTrailing
      /\ UNCHANGED <<wire, lo, hi, accum, state, rle_mode, rle_pend, pending_ff, page, log>>
  BY <1>2, <1>3 DEF NoRecord, InNonData
<1> QED
  BY <1>1, <1>4, PadsDropped

(* Where rle_bytes() is: at a block or record, or at the payload of a block. *)
LEMMA RlePlace ==
  ASSUME DeframeInv, InRle, pc # "out", NEW p, p = Phase(i)
  PROVE  /\ \/ p \in {"rle", "owed", "rledone"} /\ InPhase(p)
            \/ p = "armed" /\ InPhase("rle") /\ wire[i] = "nul" /\ wire[i + 1] = "x01"
         /\ rle_mode /\ (rle_pend <=> p = "owed") /\ ~pending_ff
         /\ p # "rledone" => state = "DATA"
<1>1. /\ InPhase("data") => ~rle_mode
      /\ InPhase("half") => ~rle_mode
      /\ InPhase("page") => state = "PAGE_DONE"
  BY DEF InPhase, StateIn
<1>2. CASE pc = "rle"
  <2>1. p \in {"rle", "owed", "rledone"} /\ InPhase(p)
    BY <1>2, Zenon DEF DeframeInv, PhaseInv
  <2> QED
    BY <2>1 DEF InPhase, StateIn
<1>3. CASE pc = "main" /\ state = "DATA" /\ rle_mode
  <2>1. \/ p \in {"data", "half", "rle"} /\ InPhase(p)
        \/ InPhase("page")
        \/ InPhase("data")
        \/ p = "armed" /\ InPhase("rle") /\ wire[i] = "nul" /\ wire[i + 1] = "x01"
    BY <1>3, Zenon DEF DeframeInv, PhaseInv
  <2>2. \/ p = "rle" /\ InPhase("rle")
        \/ p = "armed" /\ InPhase("rle") /\ wire[i] = "nul" /\ wire[i + 1] = "x01"
    <3>1. ~InPhase("data") /\ ~InPhase("half") /\ ~InPhase("page")
      BY <1>1, <1>3
    <3>2. p \in {"data", "half"} => ~InPhase(p)
      BY <3>1
    <3> QED
      BY <2>1, <3>1, <3>2
  <2>3. InPhase("rle") => rle_mode /\ ~rle_pend /\ ~pending_ff /\ state = "DATA"
    BY DEF InPhase, StateIn
  <2> QED
    BY <2>2, <2>3
<1> QED
  BY <1>2, <1>3 DEF InRle

(* It finds no fault with a stream that keeps to the order of a scan.      *)
LEMMA NoRleError == DeframeInv /\ TypeInv => ~RleError
<1> SUFFICES ASSUME DeframeInv, TypeInv, RleError PROVE FALSE
  OBVIOUS
<1>1. StreamInv /\ WholeRead /\ pc # "out" /\ InRle
  BY DEF RleError, InRle, DeframeInv, StreamInv
<1>2. PICK p : p = Phase(i)
  OBVIOUS
<1>3. /\ \/ p \in {"rle", "owed", "rledone"} /\ InPhase(p)
         \/ p = "armed" /\ InPhase("rle") /\ wire[i] = "nul" /\ wire[i + 1] = "x01"
      /\ rle_mode /\ (rle_pend <=> p = "owed")
  BY <1>1, <1>2, RlePlace
<1>4. i \in DOMAIN wire /\ i \in lo..hi /\ i \in Nat /\ Begins(i) /\ hi \in Nat /\ lo \in Nat /\ 1 <= lo
      /\ hi <= Len(wire) /\ Len(wire) \in Nat
  BY <1>1, PhaseSent DEF StreamInv, WholeRead
<1>5. p # "owed"
  BY <1>3 DEF RleError
<1>6. wire[i] = "nul"
  BY <1>1, <1>2, <1>3, <1>4, <1>5, NextSent
<1>7. PICK q : q = Phase(i + Span(i))
  OBVIOUS
<1>8. /\ RecordAt(i, hi) = RecordOf(wire[i + 1]) /\ wire[i + 1] \in RecordIds /\ Begins(i + Span(i))
      /\ <<p, wire[i + 1], q>> \in Moves /\ i + Span(i) <= hi + 1
  BY <1>1, <1>2, <1>4, <1>6, <1>7, Inside, PhaseSent
<1>9. wire[i + 1] \in {"x01", "x02", "x21", "x20"} /\ (wire[i + 1] = "x01" => q = "owed")
  <2>1. p \in {"rle", "rledone", "armed"} /\ (p = "armed" => wire[i + 1] = "x01")
    BY <1>3, <1>5
  <2> QED
    BY <1>8, <2>1, Moved
<1>10. wire[i + 1] = "x01"
  BY <1>5, <1>8, <1>9 DEF RleError, RecordOf
<1>11. Span(i) = 3
  BY <1>10 DEF Span
<1>12. BlockAt(i, hi)
  <2>1. wire[i + 2] = "hdr"
    BY <1>1, <1>4, <1>6, <1>10, <1>11, RecordSent
  <2>2. i + 2 <= hi
    BY <1>4, <1>8, <1>11
  <2> QED
    BY <1>6, <1>10, <2>1, <2>2 DEF BlockAt
<1>13. hi + 1 = i + 3
  BY <1>4, <1>8, <1>11, <1>12 DEF RleError
<1>14. Phase(hi + 1) = "owed" /\ Begins(hi + 1)
  BY <1>7, <1>8, <1>9, <1>10, <1>11, <1>13
<1>15. CASE hi = Len(wire)
  BY <1>1, <1>14, <1>15 DEF StreamInv, Follows, Phase
<1>16. CASE hi < Len(wire)
  <2>1. PICK n \in DOMAIN wire : n = hi + 1
    BY <1>1, <1>4, <1>16 DEF StreamInv
  <2>2. wire[n] = "pay"
    BY <1>1, <1>14, <2>1, NextSent
  <2> QED
    BY <1>1, <1>16, <2>1, <2>2 DEF WholeRead
<1> QED
  BY <1>4, <1>15, <1>16

(* rle_bytes() takes blocks and their payload, and meets no error.         *)
LEMMA RleDeframes ==
  ASSUME DeframeInv, TypeInv, TypeOK', RlePayload \/ RleBlock \/ RleRecord \/ RleError
  PROVE  DeframeInv' /\ Deframer!Next
<1>1. StreamInv /\ WholeRead /\ TypeOK /\ pc # "out" /\ UNCHANGED <<wire, lo, hi, accum>> /\ InRle
  BY DEF RlePayload, RleBlock, RleRecord, RleError, InRle, DeframeInv, StreamInv, TypeInv
<1>2. PICK p : p = Phase(i)
  OBVIOUS
<1>3. /\ \/ p \in {"rle", "owed", "rledone"} /\ InPhase(p)
         \/ p = "armed" /\ InPhase("rle") /\ wire[i] = "nul" /\ wire[i + 1] = "x01"
      /\ rle_mode /\ (rle_pend <=> p = "owed") /\ ~pending_ff
      /\ p # "rledone" => state = "DATA"
  BY <1>1, <1>2, RlePlace
<1>4. i \in DOMAIN wire /\ i \in lo..hi /\ i \in Nat /\ Begins(i) /\ hi \in Nat /\ lo \in Nat /\ 1 <= lo
      /\ hi <= Len(wire) /\ Len(wire) \in Nat
  BY <1>1, PhaseSent DEF StreamInv, WholeRead
<1>5. CASE RlePayload
  <2>1. p = "owed" /\ wire[i] = "pay"
    BY <1>1, <1>2, <1>3, <1>4, <1>5, NextSent DEF RlePayload
  <2>2. PICK q : q = Phase(i + 1)
    OBVIOUS
  <2>3. wire[i] \in Data /\ <<p, wire[i], q>> \in Moves /\ Begins(i + 1)
    BY <1>1, <1>2, <2>1, <2>2, PhaseSent
  <2>4. q = "rle"
    BY <2>1, <2>3, Moved
  <2>5. PICK n \in Nat : n = i + 1
    BY <1>4
  <2>6. i <= n /\ n <= hi + 1 /\ Begins(n) /\ q = Phase(n)
    BY <1>4, <2>2, <2>3, <2>5
  <2>7. /\ rle_pend' = FALSE /\ page' = page \cup {i} /\ log' = log /\ Continue("rle", n)
        /\ UNCHANGED <<state, rle_mode, pending_ff>>
    BY <1>5, <2>5 DEF RlePayload
  <2>8. InPhase(q)'
    BY <1>3, <2>1, <2>4, <2>7 DEF InPhase, StateIn
  <2>9. /\ n > hi => DeframeInv'
        /\ n <= hi => StreamInv' /\ InPhase(Phase(i))' /\ Phase(i)' = q /\ i' = n /\ pc' = "rle"
    BY <1>1, <2>6, <2>7, <2>8, GoneOn
  <2>10. n <= hi => DeframeInv'
    BY <2>4, <2>9 DEF DeframeInv, PhaseInv
  <2>11. Deframer!Next
    <3>1. i' = i + 1
      BY <2>5, <2>7 DEF Continue
    <3> QED
      BY <1>1, <2>1, <2>3, <2>7, <3>1, PayloadTaken
  <2> QED
    BY <1>4, <2>9, <2>10, <2>11
<1>6. CASE RleBlock
  <2>1. wire[i] = "nul" /\ wire[i + 1] = "x01" /\ i + 3 <= hi
    BY <1>6 DEF RleBlock, BlockAt
  <2>2. Span(i) = 3
    BY <2>1 DEF Span
  <2>3. PICK q : q = Phase(i + 3)
    OBVIOUS
  <2>4. <<p, "x01", q>> \in Moves /\ Begins(i + 3)
    BY <1>1, <1>2, <2>1, <2>2, <2>3, PhaseSent
  <2>5. q = "owed" /\ p # "rledone"
    BY <1>3, <2>4, Moved
  <2>6. PICK n \in Nat : n = i + 3
    BY <1>4
  <2>7. i <= n /\ n <= hi + 1 /\ n <= hi /\ Begins(n) /\ q = Phase(n)
    BY <1>4, <2>1, <2>3, <2>4, <2>6
  <2>8. /\ rle_pend' = TRUE /\ Continue("rle", n)
        /\ UNCHANGED <<state, rle_mode, pending_ff, page, log>>
    BY <1>6, <2>6 DEF RleBlock, result
  <2>9. InPhase(q)'
    BY <1>3, <2>5, <2>8 DEF InPhase, StateIn
  <2>10. StreamInv' /\ InPhase(Phase(i))' /\ Phase(i)' = q /\ i' = n /\ pc' = "rle"
    BY <1>1, <2>7, <2>8, <2>9, GoneOn
  <2>11. DeframeInv'
    BY <2>5, <2>10 DEF DeframeInv, PhaseInv
  <2>12. Deframer!TakeRecord
    BY <2>1, <2>6, <2>8, <2>10 DEF Deframer!TakeRecord
  <2> QED
    BY <1>1, <1>4, <2>11, <2>12 DEF Deframer!Next
<1>7. CASE RleRecord
  <2>1. PICK r : r = RecordAt(i, hi)
    OBVIOUS
  <2>2. PICK l : l = IF r = "scanEnd" THEN "main" ELSE "rle"
    OBVIOUS
  <2>3. /\ r \in {"progress", "pageEnd", "scanEnd"} /\ HandleRecord(r) /\ Continue(l, i + RecLen(r))
        /\ UNCHANGED <<page, pending_ff>>
    BY <1>7, <2>1, <2>2 DEF RleRecord
  <2>4. wire[i] = "nul"
    BY <2>1, <2>3 DEF RecordAt
  <2>5. PICK q : q = Phase(i + Span(i))
    OBVIOUS
  <2>6. /\ r = RecordOf(wire[i + 1]) /\ wire[i + 1] \in RecordIds /\ Begins(i + Span(i))
        /\ <<p, wire[i + 1], q>> \in Moves /\ Span(i) \in {2, 3} /\ i + Span(i) <= hi + 1
    BY <1>1, <1>2, <1>4, <2>1, <2>4, <2>5, Inside, PhaseSent
  <2>7. /\ wire[i + 1] \in {"x02", "x21", "x20"}
        /\ r = "scanEnd" <=> wire[i + 1] = "x20"
        /\ RecLen(r) = Span(i)
    BY <2>3, <2>6 DEF RecordOf, RecordIds, Ids, RecLen, Span
  <2>8. p \in {"rle", "rledone"} /\ q \in {"rle", "rledone", "over"}
        /\ (wire[i + 1] = "x20" => q = "over")
    BY <1>3, <2>6, <2>7, Moved
  <2>9. InPhase(Phase(i))
    BY <1>2, <1>3, <2>8
  <2>10. /\ Deframer!Next
         /\ i + Span(i) > hi => DeframeInv'
         /\ i + Span(i) <= hi => /\ StreamInv' /\ InPhase(Phase(i))' /\ Phase(i)' = Phase(i + Span(i))
                                 /\ i' = i + Span(i) /\ pc' = l
    <3>1. l # "rest"
      BY <2>2
    <3>2. Continue(l, i + Span(i)) /\ HandleRecord(RecordOf(wire[i + 1]))
      BY <2>3, <2>6, <2>7
    <3>3. wire[i + 1] \notin {"x33", "x01"}
      BY <2>7
    <3> QED
      BY <1>1, <2>3, <2>4, <2>9, <3>1, <3>2, <3>3, RecordStep
  <2>11. ASSUME i + Span(i) <= hi PROVE q # "over"
    <3>1. PICK n \in DOMAIN wire : n = i + Span(i)
      BY <1>4, <2>6, <2>11 DEF StreamInv
    <3> QED
      BY <1>1, <2>5, <2>6, <3>1, NextSent
  <2>12. i + Span(i) <= hi => DeframeInv'
    <3>1. i + Span(i) <= hi => l = "rle" /\ q \in {"rle", "rledone"}
      BY <2>2, <2>7, <2>8, <2>11
    <3> QED
      BY <2>5, <2>10, <3>1 DEF DeframeInv, PhaseInv
  <2> QED
    BY <1>4, <2>6, <2>10, <2>12
<1>8. ~RleError
  BY NoRleError
<1> QED
  BY <1>5, <1>6, <1>7, <1>8

(* The loop of boundary() takes one record after the other.                *)
LEMMA BurstDeframes ==
  ASSUME DeframeInv, TypeInv, TypeOK', Burst
  PROVE  DeframeInv' /\ Deframer!Next
<1>1. StreamInv /\ WholeRead /\ TypeOK /\ pc # "out" /\ pc # "rest"
  BY DEF Burst, BurstRest, DeframeInv, StreamInv, TypeInv
<1>2. pc = "burst" /\ (BurstRecord \/ BurstPartial \/ BurstUnknown)
  BY <1>1 DEF Burst, BurstRest
<1>3. PICK p : p = Phase(i)
  OBVIOUS
<1>4. /\ p \in {"armed", "page", "ended", "rledone"} /\ InPhase(p) /\ wire[i] = "nul"
      /\ p = "armed" => i = lo /\ wire[i + 1] \notin {"x01", "x02"}
  BY <1>2, <1>3, Zenon DEF DeframeInv, PhaseInv
<1>5. i \in DOMAIN wire /\ i \in lo..hi /\ i \in Nat /\ Begins(i) /\ hi \in Nat /\ lo \in Nat /\ 1 <= lo
      /\ hi <= Len(wire) /\ Len(wire) \in Nat
  BY <1>1, PhaseSent DEF StreamInv, WholeRead
<1>6. PICK q : q = Phase(i + Span(i))
  OBVIOUS
<1>7. /\ RecordAt(i, hi) = RecordOf(wire[i + 1]) /\ wire[i + 1] \in RecordIds /\ Begins(i + Span(i))
      /\ <<p, wire[i + 1], q>> \in Moves /\ Span(i) \in {2, 3} /\ i + Span(i) <= hi + 1
  BY <1>1, <1>3, <1>4, <1>5, <1>6, Inside, PhaseSent
<1>8. /\ p = "armed" => \/ wire[i + 1] = "x33" /\ q = "armed"
                        \/ wire[i + 1] \in {"x21", "x20"} /\ q \in {"ended", "over"}
      /\ p = "page" => \/ wire[i + 1] = "x33" /\ q = "page"
                       \/ wire[i + 1] \in Ids /\ q \in {"page", "ended", "over"}
      /\ p = "ended" => \/ wire[i + 1] = "x33" /\ q = "ended"
                        \/ wire[i + 1] \in Ids /\ q \in {"ended", "again", "over"}
      /\ p = "rledone" => wire[i + 1] \in Ids /\ q \in {"rledone", "over"}
  <2>1. wire[i + 1] \notin Data /\ (p = "armed" => wire[i + 1] \notin {"x01", "x02"})
    BY <1>4, <1>7 DEF RecordIds, Ids, Data
  <2>2. p = "armed" => \/ wire[i + 1] = "x33" /\ q = "armed"
                       \/ wire[i + 1] \in {"x21", "x20"} /\ q \in {"ended", "over"}
    BY <1>7, <2>1, Moved
  <2>3. p = "page" => \/ wire[i + 1] = "x33" /\ q = "page"
                      \/ wire[i + 1] \in Ids /\ q \in {"page", "ended", "over"}
    BY <1>7, <2>1, Moved DEF Ids, Data
  <2>4. p = "ended" => \/ wire[i + 1] = "x33" /\ q = "ended"
                       \/ wire[i + 1] \in Ids /\ q \in {"ended", "again", "over"}
    BY <1>7, <2>1, Moved DEF Ids, Data
  <2>5. p = "rledone" => wire[i + 1] \in Ids /\ q \in {"rledone", "over"}
    BY <1>7, <2>1, Moved DEF Ids, Data
  <2> QED
    BY <2>2, <2>3, <2>4, <2>5
<1>9. CASE BurstRecord
  <2>1. PICK r : r = RecordAt(i, hi)
    OBVIOUS
  <2>2. PICK l : l = CASE state' \in {"DATA", "ARMED"} -> "main"
                       [] state' = "IDLE"              -> "rest"
                       [] OTHER                        -> "burst"
    OBVIOUS
  <2>3. /\ r # "none" /\ HandleRecord(r) /\ Continue(l, i + RecLen(r))
        /\ UNCHANGED <<wire, lo, hi, accum, page, pending_ff>>
    BY <1>9, <2>1, <2>2 DEF BurstRecord
  <2>4. wire[i + 1] \in Ids /\ RecLen(r) = Span(i) /\ r = RecordOf(wire[i + 1])
    BY <1>7, <2>1, <2>3 DEF RecordOf, RecLen, Span, Ids
  <2>5. wire[i + 1] \notin {"x33", "x01"} /\ q \in {"page", "ended", "again", "rledone", "over"}
    BY <1>4, <1>8, <2>4 DEF Ids
  <2>6. /\ Deframer!Next
        /\ i + Span(i) > hi => DeframeInv'
        /\ i + Span(i) <= hi /\ l # "rest" =>
             /\ StreamInv' /\ InPhase(Phase(i))' /\ Phase(i)' = Phase(i + Span(i))
             /\ i' = i + Span(i) /\ pc' = l
    <3>1. Continue(l, i + Span(i)) /\ HandleRecord(RecordOf(wire[i + 1])) /\ InPhase(Phase(i))
      BY <1>3, <1>4, <2>3, <2>4
    <3> QED
      BY <1>1, <1>4, <2>3, <2>5, <3>1, RecordStep
  <2>7. ASSUME i + Span(i) <= hi PROVE DeframeInv'
    <3>1. PICK n \in DOMAIN wire : n = i + Span(i)
      BY <1>5, <1>7, <2>7 DEF StreamInv
    <3>2. q # "over" /\ (q \in {"ended", "rledone"} => wire[n] = "nul")
          /\ (q = "again" => wire[n] # "nul")
      BY <1>1, <1>6, <1>7, <3>1, NextSent
    <3>3. i = 1 \/ wire[n] = "nul"
      BY <1>1, <1>4, <1>5, <2>5, <2>7, <3>1, Inside
    <3>4. i = 1 => q = "ended"
      <4>1. i = 1 => p = "armed"
        BY <1>1, <1>3 DEF StreamInv, Follows, Phase
      <4> QED
        BY <1>8, <2>5, <3>2, <4>1
    <3>5. wire[n] = "nul" /\ q \in {"page", "ended", "rledone"}
      BY <2>5, <3>2, <3>3, <3>4
    <3>6. state' \in {"PAGE_DONE", "SESSION_DONE"}
      <4>1. i + Span(i) = i' \/ i' = i + RecLen(r)
        BY <2>3 DEF Continue
      <4>2. i' = i + Span(i)
        BY <2>4, <4>1
      <4>3. InPhase(q)'
        BY <1>1, <1>3, <1>4, <1>6, <2>3, <2>4, <2>5, <4>2, RecordTaken
      <4> QED
        BY <3>5, <4>3 DEF InPhase, StateIn
    <3>7. l = "burst"
      BY <2>2, <3>6
    <3>8. /\ StreamInv' /\ InPhase(Phase(i))' /\ Phase(i)' = q /\ i' = n /\ pc' = "burst" /\ wire' = wire
      BY <1>6, <2>3, <2>6, <2>7, <3>1, <3>7
    <3> QED
      BY <3>5, <3>8 DEF DeframeInv, PhaseInv
  <2> QED
    BY <1>5, <1>7, <2>6, <2>7
<1>10. CASE BurstPartial
  BY <1>7, <1>10 DEF BurstPartial
<1>11. CASE BurstUnknown
  <2>1. RecordOf(wire[i + 1]) = "none"
    BY <1>4, <1>11 DEF BurstUnknown
  <2>2. wire[i + 1] = "x33" /\ q = p
    <3>1. wire[i + 1] \notin Ids
      BY <2>1 DEF RecordOf, Ids
    <3> QED
      BY <1>4, <1>8, <3>1 DEF Ids
  <2>3. lo = i /\ hi = i + 2 /\ Span(i) = 3
    BY <1>1, <1>4, <1>5, <2>2, Inside DEF Span
  <2>4. /\ Done
        /\ UNCHANGED <<wire, lo, hi, accum, state, rle_mode, rle_pend, pending_ff, page, log>>
    BY <1>11, <2>3 DEF BurstUnknown, parser
  <2>5. i' = hi + 1 /\ pc' = "out" /\ hi + 1 = i + 3
    BY <1>5, <2>3, <2>4 DEF Done
  <2>6. InPhase(p)'
    BY <1>4, <2>4 DEF InPhase
  <2>7. Phase(hi + 1)' = p
    BY <1>6, <2>2, <2>3, <2>4, <2>5 DEF Phase
  <2>8. InPhase(Phase(hi + 1))'
    BY <2>6, <2>7 DEF InPhase
  <2>9. DeframeInv'
    BY <1>1, <2>4, <2>5, <2>8, ReadOver
  <2>10. Deframer!TakeRecord
    BY <1>4, <2>2, <2>4, <2>5 DEF Deframer!TakeRecord
  <2> QED
    BY <1>5, <2>4, <2>9, <2>10 DEF Deframer!Next
<1> QED
  BY <1>2, <1>9, <1>10, <1>11

-----------------------------------------------------------------------------
(* The callers, and the theorem.                                           *)

(* How a stream begins.                                                    *)
LEMMA Opens ==
  ASSUME NEW w \in Seq(Fragments), Ordered(w)
  PROVE  /\ Follows(w, PhasesIn(w)) /\ PhasesIn(w)[1] = "armed"
         /\ 1 \in DOMAIN w => w[1] \notin Inner \cup {"pay"}
<1>1. PICK ph : ph = PhasesIn(w)
  OBVIOUS
<1>2. Follows(w, ph)
  BY <1>1 DEF Ordered, PhasesIn
<1>3. ASSUME 1 \in DOMAIN w PROVE w[1] \notin Inner \cup {"pay"}
  <2>1. PICK f \in DOMAIN w : f = 1
    BY <1>3
  <2>2. w[f] \notin RecordIds /\ w[f] \notin {"body", "hdr"}
    <3>1. w[f] \in RecordIds => f > 1
      BY <1>2 DEF Follows
    <3>2. w[f] \in {"body", "hdr"} => f > 1
      BY <1>2 DEF Follows
    <3> QED
      BY <2>1, <3>1, <3>2
  <2>3. w[f] # "pay"
    <3>1. "pay" \in Data
      BY DEF Data
    <3>2. w[f] = "pay" => <<ph[f], "pay", ph[f + 1]>> \in Moves
      BY <1>2, <3>1 DEF Follows
    <3>3. ph[f] = "armed"
      BY <1>2, <2>1 DEF Follows
    <3> QED
      BY <3>2, <3>3, Moved
  <2> QED
    BY <2>1, <2>2, <2>3 DEF Inner
<1> QED
  BY <1>1, <1>2, <1>3 DEF Follows

(* Nothing is sent when no scan is armed.                                  *)
LEMMA EmptyOrdered == <<>> \in Seq(Fragments) /\ Ordered(<<>>)
<1>1. PICK ph : ph = [x \in 1..1 |-> "armed"]
  OBVIOUS
<1>2. "armed" \in Phases
  BY DEF Phases, Moves
<1>3. Len(<<>>) = 0 /\ DOMAIN <<>> = {}
  OBVIOUS
<1>4. ph \in [1..(Len(<<>>) + 1) -> Phases]
  BY <1>1, <1>2, <1>3
<1>5. Follows(<<>>, ph)
  BY <1>1, <1>3 DEF Follows
<1> QED
  BY <1>4, <1>5 DEF Ordered

(* A scan is armed, or the parser is at rest.                              *)
Opened ==
  /\ wire \in Streams \cup {<<>>} /\ Ordered(wire)
  /\ state \in {"IDLE", "ARMED"} /\ ~rle_mode /\ ~rle_pend /\ ~pending_ff /\ accum = <<>>
  /\ pc = "out" /\ hi = 0 /\ i = 1 /\ log = <<>>

LEMMA ScanOpens == Opened => DeframeInv
<1> SUFFICES ASSUME Opened PROVE DeframeInv
  OBVIOUS
<1>1. wire \in Seq(Fragments) /\ Ordered(wire)
  BY StreamsAssumption, EmptyOrdered DEF Opened
<1>2. /\ Follows(wire, PhasesIn(wire)) /\ PhasesIn(wire)[1] = "armed"
      /\ 1 \in DOMAIN wire => wire[1] \notin Inner \cup {"pay"}
  BY <1>1, Opens
<1>3. Begins(i) /\ Phase(i) = "armed" /\ (i \in DOMAIN wire => wire[i] # "pay")
  BY <1>2 DEF Opened, Begins, Phase
<1>4. StreamInv
  BY <1>1, <1>2, <1>3 DEF Opened, StreamInv, States
<1>5. state = "ARMED" => InPhase(Phase(i))
  BY <1>3 DEF Opened, InPhase, StateIn
<1>6. i = hi + 1 /\ pc = "out" /\ state \in {"IDLE", "ARMED"}
  BY DEF Opened
<1> QED
  BY <1>3, <1>4, <1>5, <1>6 DEF DeframeInv, PhaseInv

(* A read is what the rules of the device make it.                         *)
LEMMA FeedDeframes ==
  ASSUME ShortPackets, BlocksAligned, ~PaddedTails, DeframeInv, TypeInv, TypeInv', FeedNext
  PROVE  DeframeInv' /\ UNCHANGED Deframer!vars
<1>1. PICK h \in (hi + 1)..Len(wire) : Feed(h)
  BY DEF FeedNext
<1>2. /\ StreamInv /\ i = hi + 1 /\ InPhase(Phase(i)) /\ (i \in DOMAIN wire => wire[i] # "pay")
      /\ MayEnd(i, h) /\ lo' = i /\ hi' = h /\ i' = i /\ pc' = "boundary"
      /\ UNCHANGED <<wire, state, rle_mode, rle_pend, pending_ff, accum, page, log>>
  BY <1>1 DEF Feed, DeframeInv, PhaseInv, parser, result
<1>3. i \in Nat \ {0} /\ hi \in Nat /\ h \in Nat /\ i <= h /\ h <= Len(wire) /\ Len(wire) \in Nat
      /\ i \in DOMAIN wire /\ Begins(i)
  <2>1. hi \in Nat
    BY DEF TypeInv, TypeOK
  <2> QED
    BY <1>1, <1>2, <2>1 DEF StreamInv
<1>4. /\ h < Len(wire) => wire[h + 1] \notin Inner \cup {"pay"}
      /\ \A k \in i..(h - 1) : wire[k] \in {"body", "x20"} => k <= 3 \/ wire[k + 1] = "nul"
      /\ \A k \in i..(h - 1) : wire[k] = "pad" => wire[k + 1] = "pad"
      /\ \A k \in i..h : wire[k] = "x33" => i = k - 1 /\ h = k + 1
  BY <1>2 DEF MayEnd, RecordMayContinue, Inner, RecordIds
<1>5. Begins(h + 1)
  BY <1>2, <1>3, <1>4 DEF Begins, StreamInv
<1>6. (Begins(lo) /\ Begins(hi + 1))'
  BY <1>2, <1>3, <1>5 DEF Begins
<1>7. WholeRead'
  BY <1>2, <1>3, <1>4, <1>6 DEF WholeRead
<1>8. StreamInv'
  BY <1>2, <1>3, <1>6, <1>7 DEF StreamInv
<1>9. Phase(i) # "owed"
  BY <1>2, <1>3, NextSent
<1>10. InPhase(Phase(i))' /\ (Phase(i) # "owed")'
  BY <1>2, <1>9 DEF InPhase, Phase
<1>11. DeframeInv'
  BY <1>2, <1>8, <1>10 DEF DeframeInv, PhaseInv
<1> QED
  BY <1>2, <1>11 DEF Deframer!vars

LEMMA DeframeStays ==
  ASSUME DeframeInv, UNCHANGED vars
  PROVE  DeframeInv' /\ UNCHANGED Deframer!vars
<1>1. UNCHANGED <<wire, state, rle_mode, rle_pend, pending_ff, accum, pc, lo, hi, i, page, log>>
  BY DEF vars, parser, cursor, result
<1>2. StreamInv'
  BY <1>1 DEF DeframeInv, StreamInv, WholeRead, Begins
<1>3. PhaseInv'
  BY <1>1 DEF DeframeInv, PhaseInv, InPhase, Phase
<1> QED
  BY <1>1, <1>2, <1>3 DEF DeframeInv, Deframer!vars

LEMMA StepDeframes ==
  ASSUME TypeInv, TypeOK', DeframeInv, Step
  PROVE  DeframeInv' /\ (Deframer!Next \/ UNCHANGED Deframer!vars)
BY BoundaryDeframes, BurstDeframes, DataDeframes, TrailDeframes, RleDeframes, NonDataDeframes DEF Step

(* A step takes what it goes past: the end of a page, in the data or as a  *)
(* record, and a block are reported when they are taken.                   *)

LEMMA BlockTaken ==
  ASSUME DeframeInv, TypeInv, Step, wire[i] = "nul", wire[i + 1] = "x01", i' = i + 3
  PROVE  Says("BLOCK")'
<1>1. StreamInv /\ pc # "out" /\ pc # "rest" /\ accum = <<>>
  BY DEF Step, Boundary, Burst, BurstRest, DataEoi, DataAppend, DataTail, InJpeg, ConsumeTrailing,
     RlePayload, RleBlock, RleRecord, RleError, InRle, AccumId, AccumRest, NoRecord, InNonData,
     IgnoreRest, DeframeInv, StreamInv
<1>2. /\ WholeRead /\ i \in Nat /\ lo \in Nat /\ hi \in Nat /\ lo <= i /\ i <= hi
      /\ <<Phase(i), "x01", Phase(i + Span(i))>> \in Moves
  BY <1>1, PhaseSent DEF StreamInv, WholeRead
<1>3. Phase(i) \in {"armed", "rle"}
  BY <1>2, Moved
<1>4. RecordAt(i, hi) = "none" /\ RecordOf(wire[i + 1]) = "none"
  BY DEF RecordAt, RecordOf
<1>5. ~Boundary
  <2>1. SUFFICES ASSUME Boundary PROVE FALSE
    OBVIOUS
  <2>2. i = lo
    BY <1>1, <2>1 DEF Boundary, DeframeInv, PhaseInv
  <2> QED
    BY <1>1, <1>2, <1>4, <2>1, <2>2
    DEF Boundary, BoundaryLeavesChunk, BoundaryInJpeg, BoundaryOpensRle, BoundaryCoalesced,
        CoalescedStart, BoundaryShort, BoundaryNoRecord, Done
<1>6. ~Burst
  <2>1. pc = "burst" => Phase(i) \in {"armed", "page", "ended", "rledone"} /\ Phase(i) # "armed"
    BY DEF DeframeInv, PhaseInv
  <2> QED
    BY <1>1, <1>3, <2>1 DEF Burst, BurstRest
<1>7. pc = "main" /\ state = "DATA" => rle_mode
  BY <1>3 DEF DeframeInv, PhaseInv, InPhase, StateIn
<1>8. pc = "main" => state = "DATA"
  BY <1>3 DEF DeframeInv, PhaseInv, InPhase, StateIn
<1>9. pc # "trail"
  BY <1>3 DEF DeframeInv, PhaseInv
<1>10. ~RlePayload /\ ~RleRecord
  <2>1. InRle => (rle_pend <=> Phase(i) = "owed")
    BY <1>1, RlePlace
  <2> QED
    BY <1>3, <1>4, <2>1 DEF RlePayload, RleRecord
<1>11. ~RleError
  BY NoRleError
<1>12. RleBlock
  BY <1>1, <1>5, <1>6, <1>7, <1>8, <1>9, <1>10, <1>11
  DEF Step, DataEoi, DataAppend, DataTail, InJpeg, ConsumeTrailing, AccumId, AccumRest, NoRecord,
      InNonData, IgnoreRest
<1>13. ev' = <<"BLOCK">>
  BY <1>12 DEF RleBlock
<1> QED
  BY <1>13 DEF Says

LEMMA TokenTaken ==
  ASSUME DeframeInv, TypeInv, TypeInv', Step, Contract, NEW k \in i..(i' - 1)
  PROVE  /\ wire[k] = "d9" => Says("JPEG_EOI")'
         /\ wire[k] = "x01" => Says("BLOCK")'
         /\ wire[k] = "x21" => Says("PAGE_END")' /\ \A j \in i..(i' - 1) : wire[j] # "x01"
<1>1. StreamInv /\ WholeRead /\ i \in Nat /\ 1 <= i /\ i' \in Nat /\ i < i' /\ k \in Nat
  <2>1. pc # "out"
    BY DEF Step, Boundary, Burst, BurstRest, DataEoi, DataAppend, DataTail, InJpeg, ConsumeTrailing,
       RlePayload, RleBlock, RleRecord, RleError, InRle, AccumId, AccumRest, NoRecord, InNonData,
       IgnoreRest
  <2>2. StreamInv /\ WholeRead /\ i \in Nat /\ 1 <= i
    BY <2>1 DEF DeframeInv, StreamInv, WholeRead
  <2>3. i' \in Nat
    BY DEF TypeInv, TypeOK
  <2>4. PICK n \in Nat : i' = n
    BY <2>3
  <2>5. PICK m \in Nat : i = m
    BY <2>2
  <2>6. k \in Nat /\ m < n
    BY <2>4, <2>5
  <2> QED
    BY <2>2, <2>4, <2>5, <2>6
<1>2. PICK n \in Nat : i' = n
  BY <1>1
<1>3. log \in Seq(Milestones) /\ \A m \in Milestones : log' = Append(log, m) => Says(m)'
  <2>1. log \in Seq(Milestones)
    BY <1>1 DEF StreamInv
  <2>2. SUFFICES ASSUME NEW m \in Milestones, log' = Append(log, m) PROVE Says(m)'
    BY <2>1
  <2>3. log' # log
    <3>1. Len(Append(log, m)) = Len(log) + 1 /\ Len(log) \in Nat
      BY <2>1
    <3> QED
      BY <2>2, <3>1
  <2>4. PICK l \in Milestones : log' = Append(log, l) /\ Says(l)'
    BY <2>3 DEF Contract
  <2>5. l = m
    <3>1. Append(log, m)[Len(log) + 1] = m /\ Append(log, l)[Len(log) + 1] = l
      BY <2>1
    <3> QED
      BY <2>2, <2>4, <3>1
  <2> QED
    BY <2>4, <2>5
<1>4. Deframer!TakePayload \/ Deframer!TakeRecord \/ Deframer!DropPadding
  <2>1. Deframer!Next
    <3>1. ~UNCHANGED Deframer!vars
      BY <1>1, <1>2 DEF Deframer!vars
    <3> QED
      BY <3>1, StepDeframes DEF TypeInv
  <2>2. ~Deframer!Start
    BY <1>1, <1>2 DEF Deframer!Start
  <2> QED
    BY <2>1, <2>2 DEF Deframer!Next
<1>5. CASE Deframer!TakePayload
  <2>1. n = i + 1 /\ wire[i] \in {"dat", "ff", "d9", "pay"}
        /\ (wire[i] = "d9" => log' = Append(log, "JPEG_EOI"))
    BY <1>2, <1>5 DEF Deframer!TakePayload, Deframer!Payload
  <2>2. k = i /\ \A j \in i..(i' - 1) : j = i
    BY <1>1, <1>2, <2>1
  <2>3. "JPEG_EOI" \in Milestones
    BY DEF Milestones
  <2> QED
    BY <1>3, <2>1, <2>2, <2>3
<1>6. CASE Deframer!TakeRecord
  <2>1. /\ wire[i] = "nul" /\ n = i + (IF wire[i + 1] = "x20" THEN 2 ELSE 3)
        /\ wire[i + 1] = "x21" => log' = Append(log, "PAGE_END")
    BY <1>2, <1>6 DEF Deframer!TakeRecord
  <2>2. /\ wire[i + 1] \in RecordIds /\ i \in DOMAIN wire
        /\ Span(i) = 3 => wire[i + 2] \in {"hdr", "body"}
    BY <1>1, <2>1, PhaseSent, RecordSent
  <2>3. \A j \in i..(i' - 1) : j = i \/ j = i + 1 \/ (Span(i) = 3 /\ j = i + 2)
    BY <1>1, <1>2, <2>1 DEF Span
  <2>4. \A j \in i..(i' - 1) : wire[j] \in {"d9", "x01", "x21"} => wire[j] = wire[i + 1]
    BY <2>1, <2>2, <2>3
  <2>5. wire[i + 1] # "d9"
    BY <2>2 DEF RecordIds, Ids
  <2>6. wire[i + 1] = "x01" => Says("BLOCK")'
    BY <1>2, <2>1, BlockTaken
  <2>7. wire[i + 1] = "x21" => Says("PAGE_END")'
    BY <1>3, <2>1 DEF Milestones
  <2> QED
    BY <2>4, <2>5, <2>6, <2>7
<1>7. CASE Deframer!DropPadding
  <2>1. PICK m \in (i + 1)..(Len(wire) + 1) : (\A j \in i..(m - 1) : wire[j] = "pad") /\ i' = m
    BY <1>7 DEF Deframer!DropPadding
  <2>2. \A j \in i..(i' - 1) : wire[j] = "pad"
    BY <2>1
  <2> QED
    BY <2>2
<1> QED
  BY <1>4, <1>5, <1>6, <1>7

(* No step fails on a stream that keeps to the order of a scan.            *)
LEMMA NeverFails ==
  ASSUME DeframeInv, TypeInv, Step, state # "ERROR"
  PROVE  state' # "ERROR"
<1>1. ~RleError
  BY NoRleError
<1>2. \A r : NextState(r) # "ERROR"
  BY DEF NextState
<1> QED
  BY <1>1, <1>2
  DEF Step, Boundary, BoundaryLeavesChunk, BoundaryInJpeg, BoundaryOpensRle, BoundaryCoalesced,
      BoundaryShort, BoundaryNoRecord, Burst, BurstRecord, BurstPartial, BurstUnknown, BurstRest,
      DataEoi, DataAppend, DataTail, ConsumeTrailing, RlePayload, RleBlock, RleRecord,
      AccumId, AccumRest, NoRecord, IgnoreRest, HandleRecord, parser

(* Each step is a step of ScanStream, or none.                             *)
LEMMA DeframeStep ==
  ASSUME ShortPackets, BlocksAligned, ~PaddedTails, \A w \in Streams : Ordered(w),
         TypeInv, DeframeInv, [Next]_vars
  PROVE  DeframeInv' /\ (Deframer!Next \/ UNCHANGED Deframer!vars)
<1>1. TypeInv' /\ TypeOK'
  BY TypeInductive DEF TypeInv
<1>2. CASE (\E w \in Streams : Arm(w)) \/ Reset
  <2>1. PICK w \in Streams \cup {<<>>}, s \in {"IDLE", "ARMED"} : wire' = w /\ Clear(s)
    BY <1>2 DEF Arm, Reset
  <2>2. Opened'
    BY <2>1, EmptyOrdered DEF Clear, Opened
  <2>3. DeframeInv'
    BY <2>2, ScanOpens, PTL
  <2>4. Deframer!Start
    BY <2>1 DEF Clear, Deframer!Start
  <2> QED
    BY <2>3, <2>4 DEF Deframer!Next
<1>3. CASE FeedUnarmed
  <2>1. UNCHANGED <<wire, accum, pc, i, page, log>> /\ pc = "out" /\ state' = "ERROR"
    BY <1>3 DEF FeedUnarmed, cursor, result
  <2>2. DeframeInv'
    BY <2>1 DEF DeframeInv, StreamInv, PhaseInv, Begins, States
  <2> QED
    BY <2>1, <2>2 DEF Deframer!vars
<1>4. CASE FeedNext
  BY <1>1, <1>4, FeedDeframes
<1>5. CASE Step
  BY <1>1, <1>5, StepDeframes
<1>6. CASE UNCHANGED vars
  BY <1>6, DeframeStays
<1> QED
  BY <1>2, <1>3, <1>4, <1>5, <1>6 DEF Next

(* Whatever way the rules of the device cut a scan into reads, the parser  *)
(* takes the stream apart token by token, for every stream that keeps to the *)
(* order of a scan.                                                        *)
THEOREM ParserDeframes ==
  ASSUME ShortPackets, BlocksAligned, ~PaddedTails, \A w \in Streams : Ordered(w)
  PROVE  Spec => Deframes
<1>1. Init => TypeInv
  BY InitType
<1>2. Init => DeframeInv
  <2> SUFFICES ASSUME Init PROVE DeframeInv
    OBVIOUS
  <2> QED
    BY ScanOpens, EmptyOrdered DEF Init, Opened
<1>3. Init => Deframer!Init
  BY DEF Init, Deframer!Init
<1>4. TypeInv /\ DeframeInv /\ [Next]_vars => (TypeInv /\ DeframeInv)' /\ [Deframer!Next]_(Deframer!vars)
  BY TypeInductive, DeframeStep
<1> QED
  BY <1>1, <1>2, <1>3, <1>4, PTL DEF Spec, Deframes, Deframer!Spec
=============================================================================
