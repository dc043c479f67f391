------------------------- MODULE Brscan4FramingProofs -------------------------
(***************************************************************************)
(* Proofs about Brscan4Framing, for any streams of records, any room and   *)
(* any sizes that satisfy SizesAssumption.                                 *)
(***************************************************************************)
EXTENDS Brscan4Framing, SequenceTheorems, WellFoundedInduction, TLAPS

(* What the running call has taken when it asks for the next part, which   *)
(* fits the caller's room.                                                 *)
PartOK ==
  /\ pc \in {"out", "header"} => dst = <<>>
  /\ pc = "header" => 1 <= maxlen
  /\ pc = "lengths" => Len(dst) = 1 /\ 3 <= maxlen
  /\ pc = "wrapper" => Len(dst) = 3 /\ 5 + Length(dst, 2) <= maxlen
  /\ pc = "data" => Len(dst) >= 5 /\ Len(dst) + Length(dst, Len(dst) - 1) <= maxlen

TypeInv == TypeOK /\ PartOK

-----------------------------------------------------------------------------
(* Two bytes give a length below Base * Base.                              *)
LEMMA LengthType ==
  ASSUME wire \in Streams, NEW buf \in Seq(1..Len(wire)), NEW k \in 1..(Len(buf) - 1)
  PROVE  Length(buf, k) \in 0..(Base * Base - 1)
<1> DEFINE x == wire[buf[k]]
           y == wire[buf[k + 1]]
<1>1. wire \in Seq(0..(Base - 1))
  BY StreamsAssumption DEF Bytes
<1>2. buf[k] \in 1..Len(wire) /\ buf[k + 1] \in 1..Len(wire)
  OBVIOUS
<1>3. x \in 0..(Base - 1) /\ y \in 0..(Base - 1)
  BY <1>1, <1>2, ElementOfSeq
<1>4. Base \in Nat
  BY SizesAssumption
<1> HIDE DEF x, y
<1>5. Base * y \in Nat /\ Base * y <= Base * (Base - 1)
  BY <1>3, <1>4
<1>6. Base * (Base - 1) = Base * Base - Base /\ Base * Base \in Nat
  BY <1>4
<1>7. x + Base * y \in Nat /\ x + Base * y <= Base * Base - 1
  BY <1>3, <1>4, <1>5, <1>6
<1> QED BY <1>4, <1>6, <1>7 DEF Length, x, y

LEMMA RecordLengthType ==
  ASSUME wire \in Streams, NEW buf \in Seq(1..Len(wire))
  PROVE  RecordLength(buf, 1) \in Nat
<1> DEFINE data_offset == 3 + Length(buf, 2)
           total == data_offset + 2 + Length(buf, 1 + data_offset)
<1> USE DEF RecordLength
<1>1. Len(buf) \in Nat /\ Len(buf) - 1 + 1 = Len(buf) /\ 1 + 1 = 2
  OBVIOUS
<1>2. CASE Len(buf) < 3
  BY <1>1, <1>2
<1>3. CASE ~(Len(buf) < 3)
  <2>1. Length(buf, 2) \in Nat
    <3>1. 2 \in 1..(Len(buf) - 1)
      BY <1>1, <1>3
    <3>2. Length(buf, 2) \in 0..(Base * Base - 1)
      BY <3>1, LengthType
    <3> QED BY <3>2, SizesAssumption
  <2>2. CASE data_offset + 2 > Len(buf)
    BY <1>1, <2>1, <2>2
  <2>3. CASE ~(data_offset + 2 > Len(buf))
    <3>1. 1 + data_offset \in 1..(Len(buf) - 1)
      BY <1>1, <2>1, <2>3
    <3>2. Length(buf, 1 + data_offset) \in 0..(Base * Base - 1)
      BY <3>1, LengthType
    <3>3. total \in Nat
      BY <2>1, <3>2, SizesAssumption
    <3> QED BY <1>1, <2>1, <3>3
  <2> QED BY <2>2, <2>3
<1> QED BY <1>2, <1>3

(* What is asked for is at most BRSCAN4_MAX_REQUEST_SIZE.                  *)
LEMMA WantType ==
  ASSUME TypeInv, pc # "out"
  PROVE  Want \in 0..(Base * Base + 1)
<1>1. Base * Base \in Nat /\ Base * Base >= 1
  BY SizesAssumption
<1>2. CASE pc = "header"
  BY <1>1, <1>2 DEF Want
<1>3. CASE pc = "lengths"
  BY <1>1, <1>3 DEF Want
<1>4. CASE pc = "wrapper"
  <2>1. Length(dst, 2) \in 0..(Base * Base - 1)
    <3>1. wire \in Streams /\ dst \in Seq(1..Len(wire))
      BY DEF TypeInv, TypeOK
    <3>2. Len(dst) = 3
      BY <1>4 DEF TypeInv, PartOK
    <3>3. 2 \in 1..(Len(dst) - 1)
      BY <3>2
    <3> QED BY <3>1, <3>3, LengthType
  <2> QED BY <1>1, <1>4, <2>1 DEF Want
<1>5. CASE pc = "data"
  <2>1. Length(dst, Len(dst) - 1) \in 0..(Base * Base - 1)
    BY <1>5, LengthType DEF TypeInv, TypeOK, PartOK
  <2> QED BY <1>1, <1>5, <2>1 DEF Want
<1> QED BY <1>2, <1>3, <1>4, <1>5 DEF TypeInv, TypeOK

(* What a served request leaves in dst and in the cache.                   *)
LEMMA TakenType ==
  ASSUME TypeInv, pc # "out", Len(cache) >= Want
  PROVE  /\ Taken \in Seq(1..Len(wire)) /\ Len(Taken) = Len(dst) + Want
         /\ \A k \in 1..Len(Taken) :
              Taken[k] = IF k <= Len(dst) THEN dst[k] ELSE cache[k - Len(dst)]
         /\ SubSeq(cache, Want + 1, Len(cache)) \in Seq(1..Len(wire))
         /\ Len(SubSeq(cache, Want + 1, Len(cache))) = Len(cache) - Want
         /\ \A k \in 1..(Len(cache) - Want) :
              SubSeq(cache, Want + 1, Len(cache))[k] = cache[Want + k]
<1> DEFINE W == Want
           S == 1..Len(wire)
<1>1. W \in Nat
  BY WantType, SizesAssumption
<1>2. cache \in Seq(S) /\ dst \in Seq(S) /\ Len(cache) \in Nat /\ W <= Len(cache)
  BY DEF TypeInv, TypeOK
<1> HIDE DEF W, S
<1>3. /\ SubSeq(cache, 1, W) \in Seq(S) /\ Len(SubSeq(cache, 1, W)) = W
      /\ \A k \in 1..W : SubSeq(cache, 1, W)[k] = cache[k]
  <2>1. \A k \in 1..W : cache[k] \in S
    BY <1>1, <1>2
  <2> QED BY <1>1, <1>2, <2>1, SubSeqProperties
<1>4. /\ SubSeq(cache, W + 1, Len(cache)) \in Seq(S)
      /\ Len(SubSeq(cache, W + 1, Len(cache))) = Len(cache) - W
      /\ \A k \in 1..(Len(cache) - W) : SubSeq(cache, W + 1, Len(cache))[k] = cache[W + k]
  <2>1. \A k \in (W + 1)..Len(cache) : cache[k] \in S
    BY <1>1, <1>2
  <2> QED BY <1>1, <1>2, <2>1, SubSeqProperties
<1>5. /\ dst \o SubSeq(cache, 1, W) \in Seq(S)
      /\ Len(dst \o SubSeq(cache, 1, W)) = Len(dst) + W
      /\ \A k \in 1..(Len(dst) + W) : (dst \o SubSeq(cache, 1, W))[k] =
           IF k <= Len(dst) THEN dst[k] ELSE SubSeq(cache, 1, W)[k - Len(dst)]
  BY <1>2, <1>3, ConcatProperties
<1>6. \A k \in 1..(Len(dst) + W) : (dst \o SubSeq(cache, 1, W))[k] =
        IF k <= Len(dst) THEN dst[k] ELSE cache[k - Len(dst)]
  BY <1>1, <1>2, <1>3, <1>5
<1> QED BY <1>4, <1>5, <1>6 DEF Taken, W, S

-----------------------------------------------------------------------------
(* A read of the device adds to the cache what fits it.                    *)
LEMMA FillType ==
  ASSUME TypeInv, Fill
  PROVE  TypeInv'
<1>1. PICK n \in 1..FreeSize :
        /\ sent + n <= Len(wire) /\ sent' = sent + n
        /\ cache' = cache \o [k \in 1..n |-> sent + k]
  BY DEF Fill
<1>2. sent \in 0..Len(wire) /\ cache \in Seq(1..Len(wire)) /\ Len(wire) \in Nat
  BY StreamsAssumption DEF TypeInv, TypeOK
<1>3. n \in Nat /\ Len(cache) + n <= BRSCAN4_READ_CACHE_SIZE
  BY <1>2, SizesAssumption DEF FreeSize, Least, TypeInv, TypeOK
<1>4. [k \in 1..n |-> sent + k] \in Seq(1..Len(wire)) /\ Len([k \in 1..n |-> sent + k]) = n
  <2>1. \A k \in 1..n : sent + k \in 1..Len(wire)
    BY <1>1, <1>2, <1>3
  <2> QED BY <1>3, <2>1
<1>5. cache' \in Seq(1..Len(wire)) /\ Len(cache') = Len(cache) + n
  BY <1>1, <1>2, <1>4, ConcatProperties
<1>6. sent' \in 0..Len(wire)
  BY <1>1, <1>2, <1>3
<1>7. TypeOK'
  BY <1>3, <1>5, <1>6 DEF Fill, TypeInv, TypeOK
<1>8. PartOK'
  BY DEF Fill, TypeInv, PartOK, Length
<1> QED BY <1>7, <1>8 DEF TypeInv

(* A call that fails.                                                      *)
LEMMA ReadFailsType ==
  ASSUME TypeInv, ReadFails
  PROVE  TypeInv'
<1>1. TypeOK'
  BY EmptySeq, SizesAssumption DEF ReadFails, ReturnNothing, stream, TypeInv, TypeOK
<1>2. PartOK'
  BY DEF ReadFails, ReturnNothing, PartOK
<1> QED BY <1>1, <1>2 DEF TypeInv

(* The parts of a record.                                                  *)
LEMMA ServedType ==
  ASSUME TypeInv, NEW part, part # "out", Served(part)
  PROVE  /\ cache' \in Seq(1..Len(wire)) /\ Len(cache') <= BRSCAN4_READ_CACHE_SIZE
         /\ Taken \in Seq(1..Len(wire)) /\ Len(Taken) = Len(dst) + Want
         /\ Want \in Nat /\ pc = part /\ UNCHANGED <<wire, sent, maxlen>>
<1>1. Want \in Nat
  BY WantType, SizesAssumption DEF Served
<1>2. /\ pc = part /\ Len(cache) >= Want /\ UNCHANGED <<wire, sent, maxlen>>
      /\ cache' = SubSeq(cache, Want + 1, Len(cache))
  BY DEF Served, stream
<1>3. /\ cache' \in Seq(1..Len(wire)) /\ Len(cache') = Len(cache) - Want
      /\ Taken \in Seq(1..Len(wire)) /\ Len(Taken) = Len(dst) + Want
  BY <1>2, TakenType
<1>4. Len(cache') <= BRSCAN4_READ_CACHE_SIZE
  <2>1. Len(cache) \in Nat /\ Len(cache) <= BRSCAN4_READ_CACHE_SIZE
    BY DEF TypeInv, TypeOK
  <2>2. PICK w \in Nat : w = Want
    BY <1>1
  <2>3. PICK c \in Nat : c = Len(cache)
    BY <2>1
  <2>4. Len(cache') = c - w /\ c <= BRSCAN4_READ_CACHE_SIZE
    BY <1>3, <2>1, <2>2, <2>3
  <2> QED BY <2>4, SizesAssumption
<1> QED BY <1>1, <1>2, <1>3, <1>4

LEMMA AskType ==
  ASSUME TypeInv, NEW part \in {"lengths", "wrapper", "data"}, NEW n \in Nat, Ask(part, n),
         cache' \in Seq(1..Len(wire)), Len(cache') <= BRSCAN4_READ_CACHE_SIZE,
         Taken \in Seq(1..Len(wire)), Len(Taken) <= n, UNCHANGED <<wire, sent, maxlen>>
  PROVE  /\ TypeOK'
         /\ \/ pc' = "out" /\ dst' = <<>>
            \/ pc' = part /\ dst' = Taken /\ n <= maxlen
<1>1. CASE n > maxlen
  BY <1>1, EmptySeq DEF Ask, ReturnNothing, TypeInv, TypeOK
<1>2. CASE ~(n > maxlen)
  <2>1. n <= maxlen /\ Len(Taken) <= maxlen
    BY <1>2 DEF TypeInv, TypeOK
  <2> QED BY <1>2, <2>1 DEF Ask, TypeInv, TypeOK
<1> QED BY <1>1, <1>2

LEMMA ReturnRecordType ==
  ASSUME TypeInv, ReturnRecord,
         cache' \in Seq(1..Len(wire)), Len(cache') <= BRSCAN4_READ_CACHE_SIZE,
         Taken \in Seq(1..Len(wire)), Len(Taken) <= maxlen, UNCHANGED <<wire, sent, maxlen>>
  PROVE  TypeInv'
<1>1. lpRxBuff' \in Seq(1..Len(wire)) /\ Len(Taken) \in Nat
  BY ConcatProperties DEF ReturnRecord, TypeInv, TypeOK
<1>2. TypeOK'
  BY <1>1, EmptySeq DEF ReturnRecord, TypeInv, TypeOK
<1>3. PartOK'
  BY DEF ReturnRecord, PartOK
<1> QED BY <1>2, <1>3 DEF TypeInv

LEMMA TakeHeaderType ==
  ASSUME TypeInv, TakeHeader
  PROVE  TypeInv'
<1>1. /\ cache' \in Seq(1..Len(wire)) /\ Len(cache') <= BRSCAN4_READ_CACHE_SIZE
      /\ Taken \in Seq(1..Len(wire)) /\ Len(Taken) = Len(dst) + Want
      /\ pc = "header" /\ UNCHANGED <<wire, sent, maxlen>>
  BY ServedType DEF TakeHeader
<1>2. Len(Taken) = 1 /\ 1 <= maxlen
  BY <1>1 DEF Want, TypeInv, PartOK
<1>3. CASE ReturnRecord
  BY <1>1, <1>2, <1>3, ReturnRecordType
<1>4. CASE Ask("lengths", 3)
  <2>1. /\ TypeOK'
        /\ \/ pc' = "out" /\ dst' = <<>>
           \/ pc' = "lengths" /\ dst' = Taken /\ 3 <= maxlen
    <3>1. 3 \in Nat /\ Len(Taken) <= 3
      BY <1>2
    <3> QED BY <1>1, <1>4, <3>1, AskType
  <2>2. PartOK'
    BY <1>1, <1>2, <2>1 DEF PartOK
  <2> QED BY <2>1, <2>2 DEF TypeInv
<1> QED BY <1>3, <1>4 DEF TakeHeader

LEMMA TakeLengthsType ==
  ASSUME TypeInv, TakeLengths
  PROVE  TypeInv'
<1>1. /\ cache' \in Seq(1..Len(wire)) /\ Len(cache') <= BRSCAN4_READ_CACHE_SIZE
      /\ Taken \in Seq(1..Len(wire)) /\ Len(Taken) = Len(dst) + Want
      /\ pc = "lengths" /\ UNCHANGED <<wire, sent, maxlen>>
  BY ServedType DEF TakeLengths
<1>2. Len(Taken) = 3
  <2>1. Len(dst) = 1
    BY <1>1 DEF TypeInv, PartOK
  <2>2. Want = 2
    BY <1>1 DEF Want
  <2> QED BY <1>1, <2>1, <2>2
<1>3. Length(Taken, 2) \in Nat
  <2>1. wire \in Streams /\ 2 \in 1..(Len(Taken) - 1)
    BY <1>2 DEF TypeInv, TypeOK
  <2>2. Length(Taken, 2) \in 0..(Base * Base - 1)
    BY <1>1, <2>1, LengthType
  <2> QED BY <2>2, SizesAssumption
<1>4. /\ TypeOK'
      /\ \/ pc' = "out" /\ dst' = <<>>
         \/ pc' = "wrapper" /\ dst' = Taken /\ 5 + Length(Taken, 2) <= maxlen
  <2>1. 5 + Length(Taken, 2) \in Nat /\ Len(Taken) <= 5 + Length(Taken, 2)
    BY <1>2, <1>3
  <2> QED BY <1>1, <2>1, AskType DEF TakeLengths
<1>5. PartOK'
  BY <1>1, <1>2, <1>4 DEF PartOK, Length
<1> QED BY <1>4, <1>5 DEF TypeInv

LEMMA TakeWrapperType ==
  ASSUME TypeInv, TakeWrapper
  PROVE  TypeInv'
<1> DEFINE D == Length(Taken, Len(Taken) - 1)
<1>1. /\ cache' \in Seq(1..Len(wire)) /\ Len(cache') <= BRSCAN4_READ_CACHE_SIZE
      /\ Taken \in Seq(1..Len(wire)) /\ Len(Taken) = Len(dst) + Want
      /\ Want \in Nat /\ pc = "wrapper" /\ UNCHANGED <<wire, sent, maxlen>>
  BY ServedType DEF TakeWrapper
<1>2. Len(Taken) \in Nat /\ Len(Taken) >= 5
  <2>1. Len(dst) = 3
    BY <1>1 DEF TypeInv, PartOK
  <2>2. Length(dst, 2) \in Nat
    <3>1. wire \in Streams /\ dst \in Seq(1..Len(wire)) /\ 2 \in 1..(Len(dst) - 1)
      BY <2>1 DEF TypeInv, TypeOK
    <3>2. Length(dst, 2) \in 0..(Base * Base - 1)
      BY <3>1, LengthType
    <3> QED BY <3>2, SizesAssumption
  <2> QED BY <1>1, <2>1, <2>2 DEF Want
<1>3. D \in Nat
  <2>1. wire \in Streams /\ Len(Taken) - 1 \in 1..(Len(Taken) - 1)
    BY <1>2 DEF TypeInv, TypeOK
  <2>2. D \in 0..(Base * Base - 1)
    BY <1>1, <2>1, LengthType
  <2> QED BY <2>2, SizesAssumption
<1>4. /\ TypeOK'
      /\ \/ pc' = "out" /\ dst' = <<>>
         \/ pc' = "data" /\ dst' = Taken /\ Len(Taken) + D <= maxlen
  <2>1. Len(Taken) + D \in Nat /\ Len(Taken) <= Len(Taken) + D
    BY <1>2, <1>3
  <2> QED BY <1>1, <2>1, AskType DEF TakeWrapper
<1>5. PartOK'
  BY <1>1, <1>2, <1>4 DEF PartOK, Length
<1> QED BY <1>4, <1>5 DEF TypeInv

LEMMA TakeDataType ==
  ASSUME TypeInv, TakeData
  PROVE  TypeInv'
<1>1. /\ cache' \in Seq(1..Len(wire)) /\ Len(cache') <= BRSCAN4_READ_CACHE_SIZE
      /\ Taken \in Seq(1..Len(wire)) /\ Len(Taken) = Len(dst) + Want
      /\ pc = "data" /\ UNCHANGED <<wire, sent, maxlen>>
  BY ServedType DEF TakeData
<1>2. Len(Taken) <= maxlen
  BY <1>1 DEF Want, TypeInv, PartOK
<1> QED BY <1>1, <1>2, ReturnRecordType DEF TakeData

(* PageScan() and ScanStart().                                             *)
LEMMA CallerType ==
  ASSUME TypeInv, ReadNextRecord \/ ProcessRecord \/ NextPage
  PROVE  TypeInv'
<1>1. CASE ReadNextRecord
  <2>1. PICK room \in Rooms :
          /\ maxlen' = room
          /\ IF room < 1
             THEN ReturnNothing
             ELSE pc' = "header" /\ UNCHANGED <<dst, ret, lpRxBuff, bReadbufEnd>>
    BY <1>1 DEF ReadNextRecord
  <2>2. room \in Int /\ dst = <<>>
    BY <1>1, StreamsAssumption DEF ReadNextRecord, TypeInv, PartOK
  <2>3. TypeOK'
    <3>1. CASE room < 1
      BY <1>1, <2>1, <2>2, <3>1, EmptySeq DEF ReadNextRecord, ReturnNothing, stream, TypeInv, TypeOK
    <3>2. CASE ~(room < 1)
      <4>1. Len(dst) <= maxlen'
        BY <2>1, <2>2, <3>2
      <4> QED BY <1>1, <2>1, <2>2, <3>2, <4>1 DEF ReadNextRecord, stream, TypeInv, TypeOK
    <3> QED BY <3>1, <3>2
  <2>4. PartOK'
    BY <2>1, <2>2 DEF ReturnNothing, PartOK
  <2> QED BY <2>3, <2>4 DEF TypeInv
<1>2. CASE ProcessRecord
  <2> DEFINE n == RecordLength(lpRxBuff, 1)
  <2>1. lpRxBuff' = SubSeq(lpRxBuff, n + 1, Len(lpRxBuff)) /\ n > 0
    BY <1>2 DEF ProcessRecord
  <2>2. n \in Nat /\ lpRxBuff \in Seq(1..Len(wire))
    BY RecordLengthType DEF TypeInv, TypeOK
  <2> HIDE DEF n
  <2>3. lpRxBuff' \in Seq(1..Len(wire))
    <3>1. Len(lpRxBuff) \in Int /\ \A k \in (n + 1)..Len(lpRxBuff) : lpRxBuff[k] \in 1..Len(wire)
      BY <2>2
    <3>2. n + 1 \in Int
      BY <2>2
    <3> QED BY <2>1, <3>1, <3>2, SubSeqProperties
  <2>4. TypeOK'
    BY <1>2, <2>3 DEF ProcessRecord, stream, TypeInv, TypeOK
  <2>5. PartOK'
    BY <1>2 DEF ProcessRecord, stream, TypeInv, PartOK, Length
  <2> QED BY <2>4, <2>5 DEF TypeInv
<1>3. CASE NextPage
  <2>1. Len(wire') \in Nat /\ wire' \in Streams
    BY <1>3, StreamsAssumption DEF NextPage
  <2>2. dst = <<>> /\ pc = "out"
    BY <1>3 DEF NextPage, TypeInv, PartOK
  <2>3. <<>> \in Seq(1..Len(wire'))
    BY EmptySeq
  <2>4. sent' \in 0..Len(wire')
    BY <1>3, <2>1 DEF NextPage
  <2>5. TypeOK'
    <3>1. cache' \in Seq(1..Len(wire')) /\ Len(cache') <= BRSCAN4_READ_CACHE_SIZE
      BY <1>3, <2>3, SizesAssumption DEF NextPage
    <3>2. dst' \in Seq(1..Len(wire')) /\ lpRxBuff' \in Seq(1..Len(wire'))
      BY <1>3, <2>2, <2>3 DEF NextPage
    <3>3. maxlen' \in Int /\ pc' = "out" /\ ret' = 0
      BY <1>3, <2>2 DEF NextPage, TypeInv, TypeOK
    <3>4. bReadbufEnd' \in BOOLEAN
      BY <1>3 DEF NextPage
    <3> QED BY <2>1, <2>4, <3>1, <3>2, <3>3, <3>4 DEF TypeOK
  <2>6. PartOK'
    BY <1>3, <2>2 DEF NextPage, PartOK
  <2> QED BY <2>5, <2>6 DEF TypeInv
<1> QED BY <1>1, <1>2, <1>3

-----------------------------------------------------------------------------
LEMMA InitType == Init => TypeInv
<1> SUFFICES ASSUME Init PROVE TypeInv
  OBVIOUS
<1>1. Len(wire) \in Nat /\ wire \in Streams /\ sent \in 0..Len(wire)
  BY StreamsAssumption DEF Init
<1>2. \A s \in {cache, dst, lpRxBuff} : s \in Seq(1..Len(wire)) /\ Len(s) = 0
  BY EmptySeq DEF Init
<1>3. bReadbufEnd \in BOOLEAN
  BY DEF Init
<1>4. TypeOK
  BY <1>1, <1>2, <1>3, SizesAssumption DEF Init, TypeOK
<1>5. PartOK
  BY DEF Init, PartOK
<1> QED BY <1>4, <1>5 DEF TypeInv

LEMMA StutterType == TypeInv /\ UNCHANGED vars => TypeInv'
  BY DEF TypeInv, TypeOK, PartOK, Length, vars, stream

LEMMA TypeStep == TypeInv /\ [Next]_vars => TypeInv'
  BY FillType, ReadFailsType, TakeHeaderType, TakeLengthsType, TakeWrapperType, TakeDataType,
     CallerType, StutterType DEF Next, Work, Take

LEMMA TypeInvariant == Spec => []TypeInv
  BY InitType, TypeStep, PTL DEF Spec

(* For any streams, room and sizes: no read of the device gets beyond the  *)
(* end of the cache, and no record beyond the room of the caller, whatever *)
(* lengths stand in it.                                                    *)
THEOREM BoundsKept == Spec => []TypeOK
  BY TypeInvariant, PTL DEF TypeInv

(* The cache never asks for more than it may, and a call that waits has    *)
(* room for a read: that a read brings nothing means that the device sent  *)
(* nothing. This is why the sizes in brother_brscan4.h are as they are.    *)
RoomToRead ==
  pc # "out" =>
    /\ Want <= BRSCAN4_MAX_REQUEST_SIZE
    /\ Len(cache) < Want => FreeSize > 0

THEOREM ReadsHaveRoom == Spec => []RoomToRead
<1>1. TypeInv => RoomToRead
  <2> SUFFICES ASSUME TypeInv, pc # "out"
               PROVE  /\ Want <= BRSCAN4_MAX_REQUEST_SIZE
                      /\ Len(cache) < Want => FreeSize > 0
    BY DEF RoomToRead
  <2>1. Base * Base \in Nat
    BY SizesAssumption
  <2>2. Want \in Nat /\ Want <= BRSCAN4_MAX_REQUEST_SIZE
    BY <2>1, WantType, SizesAssumption
  <2>3. ASSUME Len(cache) < Want PROVE FreeSize > 0
    BY <2>2, <2>3, SizesAssumption DEF FreeSize, Least, TypeInv, TypeOK
  <2> QED BY <2>2, <2>3
<1> QED BY TypeInvariant, <1>1, PTL

-----------------------------------------------------------------------------
(* The order of the bytes. What a served request takes and leaves.         *)
LEMMA ServedOrder ==
  ASSUME TypeInv, InOrder, NEW part, part # "out", Served(part)
  PROVE  /\ EndsAt(cache', sent)
         /\ EndsAt(Taken, sent - Len(cache'))
         /\ sent - Len(cache') - Len(Taken) = sent - Len(cache) - Len(dst)
         /\ \A s \in {cache, cache', Taken, dst} : Len(s) \in Nat
         /\ sent \in Int
<1> DEFINE W == Want
<1>1. /\ W \in Nat /\ Len(cache) \in Nat /\ W <= Len(cache) /\ Len(dst) \in Nat
      /\ sent \in Int
  BY WantType, SizesAssumption, StreamsAssumption DEF Served, TypeInv, TypeOK
<1>2. /\ Len(Taken) = Len(dst) + W
      /\ \A k \in 1..Len(Taken) :
           Taken[k] = IF k <= Len(dst) THEN dst[k] ELSE cache[k - Len(dst)]
      /\ Len(cache') = Len(cache) - W
      /\ \A k \in 1..(Len(cache) - W) : cache'[k] = cache[W + k]
  BY TakenType DEF Served
<1>3. /\ \A k \in 1..Len(cache) : cache[k] = sent - Len(cache) + k
      /\ \A k \in 1..Len(dst) : dst[k] = sent - Len(cache) - Len(dst) + k
  BY DEF InOrder, EndsAt
<1> HIDE DEF W
<1>4. \A k \in 1..Len(cache') : cache'[k] = sent - Len(cache') + k
  BY <1>1, <1>2, <1>3
<1>5. ASSUME NEW k \in 1..Len(Taken) PROVE Taken[k] = (sent - Len(cache')) - Len(Taken) + k
  <2>1. CASE k <= Len(dst)
    <3>1. Taken[k] = dst[k] /\ k \in 1..Len(dst)
      BY <1>1, <1>2, <2>1
    <3> QED BY <1>1, <1>2, <1>3, <3>1
  <2>2. CASE ~(k <= Len(dst))
    <3>1. Taken[k] = cache[k - Len(dst)] /\ k - Len(dst) \in 1..Len(cache)
      BY <1>1, <1>2, <2>2
    <3>2. cache[k - Len(dst)] = sent - Len(cache) + (k - Len(dst))
      BY <1>3, <3>1
    <3> QED BY <1>1, <1>2, <3>1, <3>2
  <2> QED BY <2>1, <2>2
<1>6. /\ sent - Len(cache') - Len(Taken) = sent - Len(cache) - Len(dst)
      /\ Len(cache') \in Nat /\ Len(Taken) \in Nat
  BY <1>1, <1>2
<1> QED BY <1>1, <1>4, <1>5, <1>6 DEF EndsAt

(* A sequence behind another.                                              *)
LEMMA ConcatOrder ==
  ASSUME NEW S, NEW s \in Seq(S), NEW t \in Seq(S), NEW e \in Int,
         EndsAt(t, e), EndsAt(s, e - Len(t))
  PROVE  EndsAt(s \o t, e)
<1>1. /\ Len(s \o t) = Len(s) + Len(t)
      /\ \A k \in 1..(Len(s) + Len(t)) :
           (s \o t)[k] = IF k <= Len(s) THEN s[k] ELSE t[k - Len(s)]
  BY ConcatProperties
<1>2. Len(s) \in Nat /\ Len(t) \in Nat
  OBVIOUS
<1> QED BY <1>1, <1>2 DEF EndsAt

LEMMA FillOrder ==
  ASSUME TypeInv, InOrder, Fill
  PROVE  InOrder'
<1>1. PICK n \in 1..FreeSize :
        /\ sent + n <= Len(wire) /\ sent' = sent + n
        /\ cache' = cache \o [k \in 1..n |-> sent + k]
  BY DEF Fill
<1>2. sent \in 0..Len(wire) /\ cache \in Seq(1..Len(wire)) /\ Len(wire) \in Nat
  BY StreamsAssumption DEF TypeInv, TypeOK
<1>3. n \in Nat
  BY <1>2, SizesAssumption DEF FreeSize, Least, TypeInv, TypeOK
<1> DEFINE new == [k \in 1..n |-> sent + k]
<1>4. new \in Seq(1..Len(wire)) /\ Len(new) = n
  <2>1. \A k \in 1..n : sent + k \in 1..Len(wire)
    BY <1>1, <1>2, <1>3
  <2> QED BY <1>3, <2>1
<1>5. EndsAt(new, sent') /\ EndsAt(cache, sent' - Len(new))
  BY <1>1, <1>2, <1>3, <1>4 DEF InOrder, EndsAt
<1>6. EndsAt(cache', sent')
  <2>1. sent' \in Int /\ cache' = cache \o new
    BY <1>1, <1>2, <1>3
  <2> HIDE DEF new
  <2> QED BY <1>2, <1>4, <1>5, <2>1, ConcatOrder
<1>7. sent' - Len(cache') = sent - Len(cache)
  <2>1. Len(cache') = Len(cache) + n /\ Len(cache) \in Nat
    BY <1>1, <1>2, <1>4, ConcatProperties
  <2> QED BY <1>1, <1>2, <1>3, <2>1
<1> QED BY <1>6, <1>7 DEF Fill, InOrder, EndsAt

LEMMA EmptyOrder == ASSUME NEW e PROVE EndsAt(<<>>, e)
  BY DEF EndsAt

LEMMA ReadFailsOrder ==
  ASSUME TypeInv, InOrder, ReadFails
  PROVE  InOrder'
<1>1. cache' = <<>> /\ dst' = <<>> /\ bReadbufEnd' = TRUE
  BY DEF ReadFails, ReturnNothing
<1> QED BY <1>1, EmptyOrder DEF InOrder, EndsAt

LEMMA AskOrder ==
  ASSUME TypeInv, InOrder, NEW part, part # "out", Served(part), NEW next, NEW n, Ask(next, n)
  PROVE  InOrder'
<1>1. /\ EndsAt(cache', sent) /\ EndsAt(Taken, sent - Len(cache'))
      /\ sent - Len(cache') - Len(Taken) = sent - Len(cache) - Len(dst)
  BY ServedOrder
<1>2. sent' = sent
  BY DEF Served, stream
<1>3. CASE ReturnNothing
  <2>1. dst' = <<>> /\ bReadbufEnd' = TRUE
    BY <1>3 DEF ReturnNothing
  <2> QED BY <1>1, <1>2, <2>1, EmptyOrder DEF InOrder, EndsAt
<1>4. CASE dst' = Taken /\ UNCHANGED <<lpRxBuff, bReadbufEnd>>
  BY <1>1, <1>4, <1>2 DEF InOrder, EndsAt
<1> QED BY <1>3, <1>4 DEF Ask

LEMMA ReturnRecordOrder ==
  ASSUME TypeInv, InOrder, NEW part, part # "out", Served(part), ReturnRecord
  PROVE  InOrder'
<1>1. /\ EndsAt(cache', sent) /\ EndsAt(Taken, sent - Len(cache'))
      /\ sent - Len(cache') - Len(Taken) = sent - Len(cache) - Len(dst)
      /\ sent \in Int /\ Len(cache') \in Nat
  BY ServedOrder
<1>2. sent' = sent
  BY DEF Served, stream
<1>3. sent - Len(cache') \in Int
  BY <1>1
<1>4. dst' = <<>> /\ Len(dst') = 0 /\ lpRxBuff' = lpRxBuff \o Taken
  BY DEF ReturnRecord
<1>5. ASSUME ~bReadbufEnd' PROVE EndsAt(lpRxBuff', sent' - Len(cache') - Len(dst'))
  <2>1. ~bReadbufEnd
    BY <1>5 DEF ReturnRecord
  <2>2. EndsAt(lpRxBuff, (sent - Len(cache')) - Len(Taken))
    BY <1>1, <2>1 DEF InOrder
  <2>3. lpRxBuff \in Seq(1..Len(wire)) /\ Taken \in Seq(1..Len(wire))
    BY TakenType DEF Served, TypeInv, TypeOK
  <2>4. EndsAt(lpRxBuff \o Taken, sent - Len(cache'))
    BY <1>1, <1>3, <2>2, <2>3, ConcatOrder
  <2>5. sent' - Len(cache') - Len(dst') = sent - Len(cache')
    BY <1>2, <1>3, <1>4
  <2> QED BY <1>4, <2>4, <2>5
<1>6. EndsAt(dst', sent' - Len(cache'))
  BY <1>4, EmptyOrder
<1> QED BY <1>1, <1>5, <1>6, <1>2 DEF InOrder, EndsAt

LEMMA TakeOrder ==
  ASSUME TypeInv, InOrder, Take
  PROVE  InOrder'
<1>1. CASE TakeHeader
  BY <1>1, AskOrder, ReturnRecordOrder DEF TakeHeader
<1>2. CASE TakeLengths
  BY <1>2, AskOrder DEF TakeLengths
<1>3. CASE TakeWrapper
  BY <1>3, AskOrder DEF TakeWrapper
<1>4. CASE TakeData
  BY <1>4, ReturnRecordOrder DEF TakeData
<1> QED BY <1>1, <1>2, <1>3, <1>4 DEF Take

LEMMA CallerOrder ==
  ASSUME TypeInv, InOrder, ReadNextRecord \/ ProcessRecord \/ NextPage
  PROVE  InOrder'
<1>1. CASE ReadNextRecord
  <2>1. dst = <<>> /\ UNCHANGED <<sent, cache, lpRxBuff>>
    BY <1>1 DEF ReadNextRecord, ReturnNothing, stream, TypeInv, PartOK
  <2>2. dst' = dst /\ (bReadbufEnd' = TRUE \/ bReadbufEnd' = bReadbufEnd)
    BY <1>1, <2>1 DEF ReadNextRecord, ReturnNothing
  <2> QED BY <2>1, <2>2 DEF InOrder, EndsAt
<1>2. CASE ProcessRecord
  <2> DEFINE n == RecordLength(lpRxBuff, 1)
             e == sent - Len(cache) - Len(dst)
  <2>1. lpRxBuff' = SubSeq(lpRxBuff, n + 1, Len(lpRxBuff)) /\ n > 0
        /\ UNCHANGED <<sent, cache, dst, bReadbufEnd>>
    BY <1>2 DEF ProcessRecord, stream
  <2>2. n \in Nat /\ lpRxBuff \in Seq(1..Len(wire)) /\ e \in Int
    BY RecordLengthType, StreamsAssumption DEF TypeInv, TypeOK
  <2> HIDE DEF n, e
  <2>3. /\ Len(lpRxBuff') = IF n + 1 <= Len(lpRxBuff) THEN Len(lpRxBuff) - n ELSE 0
        /\ \A k \in 1..(Len(lpRxBuff) - n) : lpRxBuff'[k] = lpRxBuff[n + k]
    <3>1. Len(lpRxBuff) \in Int /\ \A k \in (n + 1)..Len(lpRxBuff) : lpRxBuff[k] \in 1..Len(wire)
      BY <2>2
    <3>2. n + 1 \in Int
      BY <2>2
    <3> QED BY <2>1, <2>2, <3>1, <3>2, SubSeqProperties
  <2>4. ASSUME EndsAt(lpRxBuff, e), NEW k \in 1..Len(lpRxBuff')
        PROVE  lpRxBuff'[k] = e - Len(lpRxBuff') + k
    <3>1. Len(lpRxBuff) \in Nat /\ Len(lpRxBuff') = Len(lpRxBuff) - n /\ n + k \in 1..Len(lpRxBuff)
      BY <2>2, <2>3
    <3>2. lpRxBuff'[k] = lpRxBuff[n + k] /\ lpRxBuff[n + k] = e - Len(lpRxBuff) + (n + k)
      BY <2>2, <2>3, <2>4, <3>1 DEF EndsAt
    <3> QED BY <2>2, <3>1, <3>2
  <2>5. EndsAt(lpRxBuff, e) => EndsAt(lpRxBuff', e)
    BY <2>4 DEF EndsAt
  <2> QED BY <2>1, <2>5 DEF InOrder, e
<1>3. CASE NextPage
  <2>1. dst = <<>>
    BY <1>3 DEF NextPage, TypeInv, PartOK
  <2> QED BY <1>3, <2>1, EmptyOrder DEF NextPage, InOrder, EndsAt
<1> QED BY <1>1, <1>2, <1>3

LEMMA OrderStep == TypeInv /\ InOrder /\ [Next]_vars => InOrder'
<1>1. InOrder /\ UNCHANGED vars => InOrder'
  BY DEF InOrder, EndsAt, vars, stream
<1> QED BY <1>1, FillOrder, ReadFailsOrder, TakeOrder, CallerOrder DEF Next, Work

(* For any streams, room and sizes: the bytes of a page go from the device *)
(* through the cache into the receive buffer in order, each of them once.  *)
THEOREM BytesInOrder == Spec => []InOrder
<1>1. Init => InOrder
  BY EmptyOrder DEF Init, InOrder, EndsAt
<1> QED BY <1>1, OrderStep, TypeInvariant, PTL DEF Spec
-----------------------------------------------------------------------------
\* A set of numbers has a least one.
LEMMA HasLeast ==
  ASSUME NEW S \in SUBSET Nat, S # {}
  PROVE  \E m \in S : \A y \in S : m <= y
<1> DEFINE Below == {ss \in Nat \X Nat : ss[1] < ss[2]}
<1>1. IsWellFoundedOn(Below, Nat)
  BY NatLessThanWellFounded DEF OpToRel
<1> HIDE DEF Below
<1>2. PICK m \in S : \A y \in S : <<y, m>> \notin Below
  BY <1>1, WFMin
<1>3. ASSUME NEW y \in S PROVE m <= y
  <2>1. y \in Nat /\ m \in Nat
    OBVIOUS
  <2>2. ~(y < m)
    BY <1>2, <2>1 DEF Below
  <2> QED BY <2>1, <2>2
<1> QED BY <1>3

\* A walk over a buffer of N bytes that stops at a byte in Stops and goes on by
\* the length found at another: it can be computed from the end of the buffer.
LEMMA WalkExists ==
  ASSUME NEW N \in Nat, NEW Stops \in SUBSET (1..N), NEW L \in [1..N -> Nat],
         \A k \in 1..N : k + L[k] <= N + 1
  PROVE  \E f \in [1..(N + 1) -> BOOLEAN] :
           \A k \in 1..(N + 1) : f[k] <=> k <= N /\ (k \in Stops \/ (L[k] # 0 /\ f[k + L[k]]))
<1> DEFINE Right(f, k) == f[k] <=> k <= N /\ (k \in Stops \/ (L[k] # 0 /\ f[k + L[k]]))
           From(n) == (N + 1 - n)..(N + 1)
           P(n) == \E f \in [From(n) -> BOOLEAN] : \A k \in From(n) : Right(f, k)
           S == {n \in 0..N : ~P(n)}
<1>1. P(0)
  <2> DEFINE f == [k \in From(0) |-> FALSE]
  <2>1. f \in [From(0) -> BOOLEAN]
    OBVIOUS
  <2>2. \A k \in From(0) : k = N + 1 /\ ~f[k]
    OBVIOUS
  <2>3. \A k \in From(0) : Right(f, k)
    BY <2>2
  <2> QED BY <2>1, <2>3
<1>2. ASSUME NEW n \in 1..N, P(n - 1) PROVE P(n)
  <2> DEFINE j == N + 1 - n
  <2>1. PICK f \in [From(n - 1) -> BOOLEAN] : \A k \in From(n - 1) : Right(f, k)
    BY <1>2
  <2> DEFINE g == [k \in From(n) |-> IF k = j THEN j \in Stops \/ (L[j] # 0 /\ f[j + L[j]])
                                     ELSE f[k]]
  <2>2. j \in 1..N /\ From(n) = {j} \union From(n - 1) /\ j \notin From(n - 1)
        /\ From(n - 1) = (j + 1)..(N + 1)
    OBVIOUS
  <2> HIDE DEF j, From
  <2>3. \A k \in From(n) : k <= N => (k \in 1..N /\ L[k] # 0 => k + L[k] \in From(n - 1))
    BY <2>2
  <2>4. g \in [From(n) -> BOOLEAN]
    BY <2>2, <2>3
  <2>5. ASSUME NEW k \in From(n) PROVE Right(g, k)
    <3>1. k \in 1..(N + 1)
      BY <2>2
    <3>2. k <= N /\ L[k] # 0 => k + L[k] \in From(n - 1) /\ g[k + L[k]] = f[k + L[k]]
      BY <2>2, <2>3, <3>1
    <3>3. CASE k = j
      <4>1. g[j] = (j \in Stops \/ (L[j] # 0 /\ f[j + L[j]])) /\ j <= N
        BY <2>2
      <4>2. L[j] # 0 => g[j + L[j]] = f[j + L[j]]
        BY <2>2, <3>2, <3>3
      <4> HIDE DEF g
      <4> QED BY <3>3, <4>1, <4>2
    <3>4. CASE k # j
      <4>1. k \in From(n - 1) /\ g[k] = f[k]
        BY <2>2, <3>4
      <4>2. f[k] <=> k <= N /\ (k \in Stops \/ (L[k] # 0 /\ f[k + L[k]]))
        BY <2>1, <4>1
      <4> HIDE DEF g
      <4>3. CASE k <= N /\ L[k] # 0
        BY <3>2, <4>1, <4>2, <4>3
      <4>4. CASE ~(k <= N /\ L[k] # 0)
        BY <4>1, <4>2, <4>4
      <4> QED BY <4>3, <4>4
    <3> QED BY <3>3, <3>4
  <2> QED BY <2>4, <2>5
<1> HIDE DEF P
<1>3. S = {}
  <2> SUFFICES ASSUME S # {} PROVE FALSE
    OBVIOUS
  <2>1. PICK m \in S : \A y \in S : m <= y
    <3>1. S \in SUBSET Nat
      OBVIOUS
    <3> HIDE DEF S
    <3> QED BY <3>1, HasLeast
  <2>2. m # 0 /\ m \in 1..N
    BY <1>1
  <2>3. m - 1 \in 0..N /\ m - 1 \notin S
    BY <2>1, <2>2
  <2> QED BY <1>2, <2>2, <2>3
<1>4. P(N)
  BY <1>3
<1>5. From(N) = 1..(N + 1)
  OBVIOUS
<1> QED BY <1>4, <1>5 DEF P

-----------------------------------------------------------------------------
(* Where records end.                                                      *)
LEMMA EndsType ==
  ASSUME NEW w \in Streams
  PROVE  /\ Len(w) \in Nat /\ Ends[w] \subseteq 0..Len(w) /\ Ends[w] \subseteq Nat /\ 0 \in Ends[w]
         /\ \A k \in 1..(Len(w) - 1) : LengthAt(w, k) \in Nat
<1>1. w \in Seq(0..(Base - 1))
  BY StreamsAssumption DEF Bytes
<1>2. Base \in Nat /\ Len(w) \in Nat
  BY <1>1, SizesAssumption
<1>3. ASSUME NEW k \in 1..(Len(w) - 1) PROVE LengthAt(w, k) \in Nat
  <2> DEFINE x == w[k]
             y == w[k + 1]
  <2>1. x \in Nat /\ y \in Nat
    <3>1. k \in 1..Len(w) /\ k + 1 \in 1..Len(w)
      BY <1>2
    <3> QED BY <1>1, <1>2, <3>1, ElementOfSeq
  <2> HIDE DEF x, y
  <2>2. Base * y \in Nat
    BY <1>2, <2>1
  <2>3. x + Base * y \in Nat
    BY <2>1, <2>2
  <2> QED BY <2>3 DEF LengthAt, x, y
<1> QED BY <1>2, <1>3, FramesAssumption

\* One record begins at a place.
LEMMA OneRecord ==
  ASSUME NEW w, NEW e, NEW f, NEW g, IsRecord(w, e, f), IsRecord(w, e, g)
  PROVE  f = g
BY DEF IsRecord

\* The next end behind one is that of the record that begins there.
LEMMA NextEnd ==
  ASSUME NEW w \in Streams, NEW e \in Ends[w], NEW g \in Ends[w], e < g,
         NEW f, IsRecord(w, e, f)
  PROVE  f <= g
<1>1. PICK n \in Ends[w] : IsRecord(w, e, n) /\ n <= g
  BY FramesAssumption
<1> QED BY <1>1, OneRecord

\* brscan4_record_length() finds the record that begins at the k-th place of a
\* buffer if all of it is there, and no other.
LEMMA RecordFound ==
  ASSUME wire \in Streams, NEW buf \in Seq(1..Len(wire)), NEW e \in Nat, EndsAt(buf, e),
         NEW k \in 1..Len(buf), NEW b \in Int, b = e - Len(buf) + k - 1
  PROVE  /\ b \in Nat /\ buf[k] = b + 1
         /\ RecordLength(buf, k) \in Nat /\ k + RecordLength(buf, k) <= Len(buf) + 1
         /\ RecordLength(buf, k) # 0 => IsRecord(wire, b, b + RecordLength(buf, k))
         /\ \A f \in (b + 1)..e : IsRecord(wire, b, f) => RecordLength(buf, k) = f - b
<1>1. Len(wire) \in Nat /\ Len(buf) \in Nat /\ k \in Nat /\ 1 <= k /\ k <= Len(buf)
  BY EndsType
<1>2. b \in Int /\ Len(buf) - k + 1 = e - b
  BY <1>1
<1>3. ASSUME NEW j \in 0..(Len(buf) - k) PROVE buf[k + j] = b + 1 + j
  <2>1. j \in Nat /\ k + j \in 1..Len(buf)
    BY <1>1
  <2>2. buf[k + j] = e - Len(buf) + (k + j)
    BY <2>1 DEF EndsAt
  <2> QED BY <1>1, <1>2, <2>1, <2>2
<1>4. b \in Nat /\ b + 1 \in 1..Len(wire) /\ e \in 1..Len(wire) /\ buf[k] = b + 1
  <2>1. buf[k] \in 1..Len(wire) /\ buf[Len(buf)] \in 1..Len(wire)
    BY <1>1
  <2>2. 0 \in 0..(Len(buf) - k) /\ Len(buf) - k \in 0..(Len(buf) - k)
    BY <1>1
  <2>3. k + 0 = k /\ b + 1 + 0 = b + 1 /\ k + (Len(buf) - k) = Len(buf) /\ b + 1 + (Len(buf) - k) = e
    BY <1>1, <1>2
  <2>4. buf[k + 0] = b + 1 + 0 /\ buf[k + (Len(buf) - k)] = b + 1 + (Len(buf) - k)
    BY <1>3, <2>2
  <2>5. buf[k] = b + 1 /\ buf[Len(buf)] = e
    BY <2>3, <2>4
  <2> QED BY <1>1, <1>2, <2>1, <2>5
<1>5. ASSUME NEW j \in 0..(Len(buf) - k - 1)
      PROVE  /\ Length(buf, k + j) = LengthAt(wire, b + 1 + j)
             /\ LengthAt(wire, b + 1 + j) \in Nat
  <2>1. buf[k + j] = b + 1 + j /\ buf[k + j + 1] = b + 1 + j + 1
    <3>1. j \in 0..(Len(buf) - k) /\ j + 1 \in 0..(Len(buf) - k) /\ k + (j + 1) = k + j + 1
      BY <1>1
    <3>2. buf[k + j] = b + 1 + j /\ buf[k + (j + 1)] = b + 1 + (j + 1)
      BY <1>3, <3>1
    <3>3. b + 1 + (j + 1) = b + 1 + j + 1
      BY <1>2
    <3> QED BY <3>1, <3>2, <3>3
  <2>2. b + 1 + j \in 1..(Len(wire) - 1)
    BY <1>1, <1>2, <1>4
  <2> QED BY <2>1, <2>2, EndsType DEF Length, LengthAt
<1>6. RecordLength(buf, k) =
        IF wire[b + 1] \in Status THEN 1
        ELSE IF \/ e - b < 3
                \/ 3 + Length(buf, k + 1) + 2 > e - b
                \/ 3 + Length(buf, k + 1) + 2 + Length(buf, k + (3 + Length(buf, k + 1))) > e - b
             THEN 0
             ELSE 3 + Length(buf, k + 1) + 2 + Length(buf, k + (3 + Length(buf, k + 1)))
  BY <1>1, <1>2, <1>4 DEF RecordLength, IsBoundaryStatus
<1>7. CASE wire[b + 1] \in Status
  <2>1. RecordLength(buf, k) = 1 /\ \A f : IsRecord(wire, b, f) <=> f = b + 1
    BY <1>6, <1>7 DEF IsRecord
  <2> QED BY <1>1, <1>4, <2>1
<1>8. CASE wire[b + 1] \notin Status /\ e - b < 5
  <2>1. RecordLength(buf, k) = 0
    <3>1. CASE e - b < 3
      BY <1>6, <1>8, <3>1
    <3>2. CASE ~(e - b < 3)
      <4>1. PICK m \in Nat : m = Length(buf, k + 1)
        <5>1. 1 \in 0..(Len(buf) - k - 1)
          BY <1>1, <1>2, <3>2
        <5> QED BY <1>5, <5>1
      <4>2. 3 + m + 2 > e - b
        BY <1>2, <1>8, <4>1
      <4> QED BY <1>6, <1>8, <4>1, <4>2
    <3> QED BY <3>1, <3>2
  <2>2. \A f \in (b + 1)..e : ~IsRecord(wire, b, f)
    BY <1>2, <1>8 DEF IsRecord
  <2> QED BY <1>1, <1>4, <2>1, <2>2
<1>9. CASE wire[b + 1] \notin Status /\ ~(e - b < 5)
  <2>1. PICK m \in Nat : m = Length(buf, k + 1) /\ m = LengthAt(wire, b + 2)
    <3>1. 1 \in 0..(Len(buf) - k - 1) /\ b + 1 + 1 = b + 2
      BY <1>1, <1>2, <1>9
    <3> QED BY <1>5, <3>1
  <2>2. \A f : IsRecord(wire, b, f) <=>
          b + 5 <= f /\ b + 5 + m <= f /\ f = b + 5 + m + LengthAt(wire, b + 4 + m)
    BY <1>9, <2>1 DEF IsRecord
  <2>3. CASE 3 + m + 2 > e - b
    <3>1. RecordLength(buf, k) = 0
      BY <1>6, <1>9, <2>1, <2>3
    <3>2. \A f \in (b + 1)..e : ~IsRecord(wire, b, f)
      <4>1. \A f \in (b + 1)..e : ~(b + 5 + m <= f)
        BY <1>2, <2>3
      <4> QED BY <2>2, <4>1
    <3>3. 0 \in Nat /\ k + 0 <= Len(buf) + 1
      BY <1>1
    <3> QED BY <1>4, <3>1, <3>2, <3>3
  <2>4. CASE ~(3 + m + 2 > e - b)
    <3>1. PICK d \in Nat : d = Length(buf, k + (3 + m)) /\ d = LengthAt(wire, b + 4 + m)
      <4>1. 3 + m \in 0..(Len(buf) - k - 1) /\ b + 1 + (3 + m) = b + 4 + m
        BY <1>1, <1>2, <2>4
      <4> QED BY <1>5, <4>1
    <3>2. \A f : IsRecord(wire, b, f) <=> f = b + 5 + m + d
      <4>1. b + 5 <= b + 5 + m + d /\ b + 5 + m <= b + 5 + m + d
        BY <1>2
      <4> QED BY <2>2, <3>1, <4>1
    <3>3. PICK L \in Nat : /\ L = RecordLength(buf, k)
                           /\ L = IF 3 + m + 2 + d > e - b THEN 0 ELSE 3 + m + 2 + d
      <4>1. ~(e - b < 3)
        BY <1>2, <1>9
      <4>2. RecordLength(buf, k) = IF 3 + m + 2 + d > e - b THEN 0 ELSE 3 + m + 2 + d
        BY <1>6, <1>9, <2>1, <2>4, <3>1, <4>1
      <4>3. 3 + m + 2 + d \in Nat
        OBVIOUS
      <4> QED BY <4>2, <4>3
    <3>4. k + L <= Len(buf) + 1
      <4>1. k + (e - b) = Len(buf) + 1 /\ L <= e - b
        BY <1>1, <1>2, <2>4, <3>3
      <4> QED BY <1>1, <1>2, <4>1
    <3>5. L # 0 => b + L = b + 5 + m + d
      BY <3>3
    <3>6. \A f \in (b + 1)..e : f = b + 5 + m + d => L = f - b
      BY <3>3
    <3> QED BY <1>4, <3>2, <3>3, <3>4, <3>5, <3>6
  <2> QED BY <2>3, <2>4
<1> QED BY <1>7, <1>8, <1>9

\* brscan4_status_at_frame_boundary(), one place at a time: whatever is in the
\* buffer, its walk is defined at each of them.
StatusStep(buf, F, k) ==
  /\ k <= Len(buf)
  /\ \/ IsBoundaryStatus(wire[buf[k]])
     \/ RecordLength(buf, k) # 0 /\ F[k + RecordLength(buf, k)]

LEMMA StatusWalk ==
  ASSUME wire \in Streams, NEW buf \in Seq(1..Len(wire)), NEW e \in Nat, EndsAt(buf, e)
  PROVE  \E F : /\ StatusAtFrameBoundary(buf) = F[1]
                /\ \A k \in 1..(Len(buf) + 1) : F[k] = StatusStep(buf, F, k)
<1> DEFINE N == Len(buf)
           L == [k \in 1..N |-> RecordLength(buf, k)]
           Stops == {k \in 1..N : IsBoundaryStatus(wire[buf[k]])}
           F == CHOOSE StatusFrom : StatusFrom = [k \in 1..(Len(buf) + 1) |->
                  /\ k <= Len(buf)
                  /\ \/ IsBoundaryStatus(wire[buf[k]])
                     \/ RecordLength(buf, k) # 0 /\ StatusFrom[k + RecordLength(buf, k)]]
           G(f) == [k \in 1..(Len(buf) + 1) |-> StatusStep(buf, f, k)]
<1>1. StatusAtFrameBoundary(buf) = F[1]
  BY DEF StatusAtFrameBoundary
<1>2. ASSUME NEW k \in 1..N PROVE RecordLength(buf, k) \in Nat /\ k + RecordLength(buf, k) <= N + 1
  <2>1. e - Len(buf) + k - 1 \in Int
    OBVIOUS
  <2> QED BY <2>1, RecordFound
<1>3. N \in Nat /\ Stops \in SUBSET (1..N) /\ L \in [1..N -> Nat] /\ \A k \in 1..N : k + L[k] <= N + 1
  BY <1>2
<1>4. PICK f \in [1..(N + 1) -> BOOLEAN] :
        \A k \in 1..(N + 1) : f[k] <=> k <= N /\ (k \in Stops \/ (L[k] # 0 /\ f[k + L[k]]))
  <2> HIDE DEF N, L, Stops
  <2> QED BY <1>3, WalkExists
<1>5. \A k \in 1..(N + 1) : f[k] = StatusStep(buf, f, k)
  <2> SUFFICES ASSUME NEW k \in 1..(N + 1) PROVE f[k] = StatusStep(buf, f, k)
    OBVIOUS
  <2>1. f[k] \in BOOLEAN /\ StatusStep(buf, f, k) \in BOOLEAN
    BY <1>4 DEF StatusStep
  <2>2. f[k] <=> k <= N /\ (k \in Stops \/ (L[k] # 0 /\ f[k + L[k]]))
    BY <1>4
  <2>3. CASE k <= N
    <3>1. k \in 1..N
      BY <1>3, <2>3
    <3>2. L[k] = RecordLength(buf, k) /\ (k \in Stops <=> IsBoundaryStatus(wire[buf[k]]))
      BY <3>1
    <3> QED BY <2>1, <2>2, <2>3, <3>2 DEF StatusStep
  <2>4. CASE ~(k <= N)
    BY <2>1, <2>2, <2>4 DEF StatusStep
  <2> QED BY <2>3, <2>4
<1>6. f = G(f)
  BY <1>4, <1>5
<1>7. F = G(F)
  BY <1>6, Zenon DEF StatusStep
<1> HIDE DEF F
<1>8. \A k \in 1..(Len(buf) + 1) : F[k] = StatusStep(buf, F, k)
  <2> SUFFICES ASSUME NEW k \in 1..(Len(buf) + 1) PROVE F[k] = StatusStep(buf, F, k)
    OBVIOUS
  <2>1. G(F)[k] = StatusStep(buf, F, k)
    OBVIOUS
  <2> QED BY <1>7, <2>1, Zenon
<1> QED BY <1>1, <1>8

\* A buffer that begins and ends where records do: it has a status between two
\* records if and only if a status record is in it.
LEMMA StatusSeen ==
  ASSUME wire \in Streams, NEW buf \in Seq(1..Len(wire)), NEW e \in Nat, EndsAt(buf, e),
         e \in Ends[wire], e - Len(buf) \in Ends[wire]
  PROVE  StatusAtFrameBoundary(buf) <=> \E s \in StatusEnds : e - Len(buf) < s /\ s <= e
<1>0. PICK N \in Nat : N = Len(buf)
  OBVIOUS
<1> DEFINE Ahead(n) == \E s \in StatusEnds : e - n < s /\ s <= e
<1>1. /\ N = Len(buf) /\ e \in Nat /\ StatusEnds \subseteq Nat /\ Ends[wire] \subseteq Nat
      /\ StatusEnds \subseteq Ends[wire]
  BY <1>0, EndsType DEF StatusEnds
<1>2. PICK F : /\ StatusAtFrameBoundary(buf) = F[1]
               /\ \A k \in 1..(N + 1) : F[k] = StatusStep(buf, F, k)
  BY <1>1, StatusWalk
<1> DEFINE Right(n) == e - n \in Ends[wire] => (F[N + 1 - n] <=> Ahead(n))
           Wrong == {n \in 0..N : ~Right(n)}
<1> HIDE DEF Ahead
<1>3. ASSUME NEW n \in 0..N, \A j \in 0..(n - 1) : Right(j)
      PROVE  Right(n)
  <2> SUFFICES ASSUME e - n \in Ends[wire] PROVE F[N + 1 - n] <=> Ahead(n)
    OBVIOUS
  <2>1. PICK k \in Nat : k = N + 1 - n
    BY <1>1
  <2>2. k \in 1..(N + 1) /\ (k <= N <=> n # 0)
    BY <1>1, <2>1
  <2>3. F[k] <=> StatusStep(buf, F, k)
    BY <1>2, <2>2
  <2>4. CASE n = 0
    <3>1. ~(k <= Len(buf)) /\ ~Ahead(n)
      BY <1>1, <2>2, <2>4 DEF Ahead
    <3> QED BY <2>1, <2>3, <3>1 DEF StatusStep
  <2>5. CASE n # 0
    <3>1. PICK b \in Nat : b = e - n /\ b \in Ends[wire]
      BY <1>1
    <3>2. b < e /\ e <= Len(wire) /\ Len(wire) \in Nat
      BY <1>1, <2>5, <3>1, EndsType
    <3>3. PICK L \in Nat :
            /\ L = RecordLength(buf, k) /\ buf[k] = b + 1 /\ k + L <= N + 1
            /\ L # 0 => IsRecord(wire, b, b + L)
            /\ \A f \in (b + 1)..e : IsRecord(wire, b, f) => L = f - b
      <4>1. k \in 1..Len(buf) /\ b \in Int /\ b = e - Len(buf) + k - 1
        BY <1>1, <2>1, <2>2, <2>5, <3>1
      <4>2. RecordLength(buf, k) \in Nat /\ buf[k] = b + 1
        BY <4>1, RecordFound
      <4>3. k + RecordLength(buf, k) <= Len(buf) + 1
        BY <4>1, RecordFound
      <4>4. RecordLength(buf, k) # 0 => IsRecord(wire, b, b + RecordLength(buf, k))
        BY <4>1, RecordFound
      <4>5. \A f \in (b + 1)..e : IsRecord(wire, b, f) => RecordLength(buf, k) = f - b
        BY <4>1, RecordFound
      <4> QED BY <1>1, <4>2, <4>3, <4>4, <4>5
    <3>4. F[k] <=> wire[b + 1] \in Status \/ (L # 0 /\ F[k + L])
      BY <1>1, <2>2, <2>3, <2>5, <3>3 DEF StatusStep, IsBoundaryStatus
    <3>5. CASE wire[b + 1] \in Status
      <4>1. b + 1 \in (b + 1)..Len(wire)
        BY <3>2
      <4>2. b + 1 \in Ends[wire]
        BY <3>1, <3>5, <4>1, FramesAssumption DEF IsRecord
      <4>3. b + 1 - 1 = b /\ e - n < b + 1 /\ b + 1 <= e
        BY <3>1, <3>2
      <4>4. b + 1 \in StatusEnds
        BY <3>1, <3>5, <4>2, <4>3 DEF StatusEnds
      <4> QED BY <2>1, <3>4, <3>5, <4>3, <4>4 DEF Ahead
    <3>6. CASE wire[b + 1] \notin Status /\ L = 0
      <4>1. ASSUME NEW s \in StatusEnds, b < s, s <= e PROVE FALSE
        <5>1. PICK f \in Ends[wire] : IsRecord(wire, b, f) /\ f <= s
          BY <3>1, <4>1, <1>1, FramesAssumption
        <5>2. b + 1 <= f
          <6>1. b + 5 <= f
            BY <3>6, <5>1 DEF IsRecord
          <6>2. f \in Nat
            BY <1>1
          <6> QED BY <3>2, <6>1, <6>2
        <5>3. f \in (b + 1)..e
          BY <1>1, <3>2, <4>1, <5>1, <5>2
        <5>4. 0 = f - b
          BY <3>3, <3>6, <5>1, <5>3
        <5> QED BY <1>1, <3>2, <5>2, <5>4
      <4>2. ~Ahead(n)
        BY <3>1, <4>1 DEF Ahead
      <4> QED BY <2>1, <3>4, <3>6, <4>2
    <3>7. CASE wire[b + 1] \notin Status /\ L # 0
      <4>1. IsRecord(wire, b, b + L) /\ b + 5 <= b + L
        BY <3>3, <3>7 DEF IsRecord
      <4>2. PICK j \in 0..(n - 1) : j = n - L
        <5>1. 5 <= L /\ L <= n
          <6>1. k + L <= N + 1
            BY <3>3
          <6>2. b + 5 <= b + L
            BY <4>1
          <6> QED BY <2>1, <6>1, <6>2
        <5> QED BY <5>1
      <4>3. b + L = e - j /\ k + L = N + 1 - j
        <5>1. b = e - n
          BY <3>1
        <5> QED BY <2>1, <4>2, <5>1
      <4>4. e - j \in Ends[wire]
        <5>1. b + L \in (b + 1)..Len(wire)
          <6>1. b + 1 <= b + L /\ b + L <= e
            BY <3>1, <4>1, <4>2
          <6> QED BY <3>2, <6>1
        <5> QED BY <3>1, <4>1, <4>3, <5>1, FramesAssumption
      <4>5. F[N + 1 - j] <=> Ahead(j)
        BY <1>3, <4>4 DEF Right
      <4>6. Ahead(j) => Ahead(n)
        <5>1. e - n < e - j
          BY <4>2
        <5>2. ASSUME NEW s \in StatusEnds, e - j < s PROVE e - n < s
          BY <1>1, <5>1, <5>2
        <5> QED BY <5>2 DEF Ahead
      <4>7. ASSUME NEW s \in StatusEnds, b < s, s <= e PROVE e - j < s
        <5>1. s \in Nat /\ s \in Ends[wire] /\ s - 1 \in Ends[wire]
          BY <1>1 DEF StatusEnds
        <5>2. b + L <= s
          BY <3>1, <4>1, <4>7, <5>1, NextEnd
        <5>3. s # b + L
          <6> SUFFICES ASSUME s = b + L PROVE FALSE
            OBVIOUS
          <6>1. b < s - 1
            BY <4>1
          <6>2. b + L <= s - 1
            BY <3>1, <4>1, <5>1, <6>1, NextEnd
          <6> QED BY <5>1, <6>2
        <5>4. b + L < s
          BY <5>1, <5>2, <5>3
        <5> QED BY <4>3, <5>4
      <4>8. Ahead(n) => Ahead(j)
        BY <3>1, <4>7 DEF Ahead
      <4> QED BY <2>1, <3>4, <3>7, <4>3, <4>5, <4>6, <4>8
    <3> QED BY <3>5, <3>6, <3>7
  <2> QED BY <2>4, <2>5
<1> HIDE DEF Right
<1>4. Wrong = {}
  <2> SUFFICES ASSUME Wrong # {} PROVE FALSE
    OBVIOUS
  <2>1. PICK m \in Wrong : \A y \in Wrong : m <= y
    <3>1. Wrong \in SUBSET Nat
      BY <1>1
    <3> HIDE DEF Wrong
    <3> QED BY <3>1, HasLeast
  <2>2. ASSUME NEW j \in 0..(m - 1) PROVE Right(j)
    <3>1. j \in 0..N /\ ~(m <= j)
      BY <1>1
    <3> QED BY <2>1, <3>1
  <2> QED BY <1>3, <2>2
<1>5. Right(N)
  BY <1>1, <1>4
<1>6. N + 1 - N = 1
  BY <1>1
<1> QED BY <1>1, <1>2, <1>5, <1>6 DEF Right, Ahead

-----------------------------------------------------------------------------
(* Records are taken whole, and PageScan() sees the status. What the       *)
(* running call and the records not processed begin with, and what of a    *)
(* record the call has.                                                    *)
StepInv ==
  /\ bReadbufEnd => pc = "out"
  /\ ~bReadbufEnd => /\ Given - Len(dst) \in Ends[wire]
                     /\ Given - Len(dst) - Len(lpRxBuff) \in Ends[wire]
  /\ pc \in {"lengths", "wrapper", "data"} => wire[Given - Len(dst) + 1] \notin Status
  /\ pc = "data" => Len(dst) = 5 + Length(dst, 2)
  /\ InStep /\ StopsAtStatus

FrameInv == TypeInv /\ InOrder /\ StepInv

\* What a call has taken when it was served: the bytes behind the end of a
\* record, all of them sent.
LEMMA Serving ==
  ASSUME FrameInv, NEW part, part # "out", Served(part)
  PROVE  \E p \in Ends[wire], q \in Nat :
           /\ p = Given - Len(dst) /\ p \in Nat /\ p - Len(lpRxBuff) \in Ends[wire]
           /\ Given' = q /\ q = p + Len(Taken) /\ q <= Len(wire)
           /\ Len(Taken) = Len(dst) + Want /\ Taken \in Seq(1..Len(wire))
           /\ \A k \in 1..Len(Taken) : Taken[k] = p + k
           /\ EndsAt(Taken, q) /\ EndsAt(lpRxBuff, p)
           /\ ~bReadbufEnd /\ pc = part /\ wire' = wire
<1>1. ~bReadbufEnd /\ pc = part
  BY DEF Served, FrameInv, StepInv
<1>2. PICK p \in Nat : p = Given - Len(dst) /\ p \in Ends[wire]
  <2>1. wire \in Streams /\ Given - Len(dst) \in Ends[wire]
    BY <1>1 DEF FrameInv, TypeInv, TypeOK, StepInv
  <2> QED BY <2>1, EndsType
<1>3. /\ EndsAt(Taken, sent - Len(cache'))
      /\ sent - Len(cache') - Len(Taken) = p
      /\ Len(cache') \in Nat /\ Len(Taken) \in Nat /\ sent \in Int
  BY <1>1, <1>2, ServedOrder DEF FrameInv, Given
<1>4. /\ Taken \in Seq(1..Len(wire)) /\ Len(Taken) = Len(dst) + Want
      /\ sent' = sent /\ wire' = wire
  BY <1>1, TakenType DEF FrameInv, Served, stream
<1>5. PICK q \in Nat : q = p + Len(Taken) /\ q = sent - Len(cache')
  BY <1>3
<1>6. q <= Len(wire)
  BY <1>3, <1>5, EndsType DEF FrameInv, TypeInv, TypeOK
<1>7. EndsAt(Taken, q) /\ \A k \in 1..Len(Taken) : Taken[k] = p + k
  BY <1>3, <1>5 DEF EndsAt
<1>8. EndsAt(lpRxBuff, p) /\ p - Len(lpRxBuff) \in Ends[wire]
  BY <1>1, <1>2 DEF FrameInv, InOrder, StepInv, Given
<1> QED BY <1>1, <1>2, <1>4, <1>5, <1>6, <1>7, <1>8 DEF Given

\* A call that does not return leaves what the properties speak of alone.
LEMMA AskStep ==
  ASSUME FrameInv, NEW part, part # "out", Served(part), NEW next, next # "out", NEW n, Ask(next, n),
         wire[Taken[1]] \notin Status, Len(Taken) >= 1, next = "data" => Len(Taken) = 5 + Length(Taken, 2)
  PROVE  StepInv'
<1>1. PICK p \in Ends[wire], q \in Nat :
           /\ p = Given - Len(dst) /\ p \in Nat /\ p - Len(lpRxBuff) \in Ends[wire]
           /\ Given' = q /\ q = p + Len(Taken) /\ q <= Len(wire)
           /\ Len(Taken) = Len(dst) + Want /\ Taken \in Seq(1..Len(wire))
           /\ \A k \in 1..Len(Taken) : Taken[k] = p + k
           /\ EndsAt(Taken, q) /\ EndsAt(lpRxBuff, p)
           /\ ~bReadbufEnd /\ pc = part /\ wire' = wire
  BY Serving
<1>2. CASE ReturnNothing
  BY <1>1, <1>2 DEF ReturnNothing, StepInv, InStep, StopsAtStatus
<1>3. CASE pc' = next /\ dst' = Taken /\ UNCHANGED <<ret, lpRxBuff, bReadbufEnd>>
  <2>1. Given' - Len(dst') = p /\ Len(Taken) \in Nat
    BY <1>1, <1>3
  <2>2. Taken[1] = p + 1
    BY <1>1, <2>1
  <2>3. StatusEnds' = StatusEnds /\ \A e \in StatusEnds : p < e
    BY <1>1 DEF FrameInv, StepInv, StopsAtStatus, StatusEnds
  <2>4. InStep' /\ StopsAtStatus'
    BY <1>1, <1>3, <2>1, <2>3 DEF InStep, StopsAtStatus
  <2>5. next = "data" => Len(dst') = 5 + Length(dst, 2)'
    BY <1>1, <1>3 DEF Length
  <2> QED BY <1>1, <1>3, <2>1, <2>2, <2>4, <2>5 DEF StepInv
<1> QED BY <1>2, <1>3 DEF Ask

\* A call that returns a record: the receive buffer now has a status between
\* two records if and only if this record is one.
LEMMA ReturnStep ==
  ASSUME FrameInv, NEW part, part # "out", Served(part), ReturnRecord,
         \A p, q \in Nat : p = Given - Len(dst) /\ q = p + Len(Taken) /\ q <= Len(wire) =>
           p < q /\ IsRecord(wire, p, q)
  PROVE  StepInv'
<1>1. PICK p \in Ends[wire], q \in Nat :
           /\ p = Given - Len(dst) /\ p \in Nat /\ p - Len(lpRxBuff) \in Ends[wire]
           /\ Given' = q /\ q = p + Len(Taken) /\ q <= Len(wire)
           /\ Len(Taken) = Len(dst) + Want /\ Taken \in Seq(1..Len(wire))
           /\ \A k \in 1..Len(Taken) : Taken[k] = p + k
           /\ EndsAt(Taken, q) /\ EndsAt(lpRxBuff, p)
           /\ ~bReadbufEnd /\ pc = part /\ wire' = wire
  BY Serving
<1>2. p < q /\ IsRecord(wire, p, q)
  BY <1>1
<1>3. wire \in Streams /\ Ends[wire] \subseteq Nat /\ StatusEnds \subseteq Ends[wire] /\ Len(wire) \in Nat
  BY EndsType DEF FrameInv, TypeInv, TypeOK, StatusEnds
<1>4. q \in Ends[wire]
  <2>1. q \in (p + 1)..Len(wire)
    BY <1>1, <1>2, <1>3
  <2> QED BY <1>2, <1>3, <2>1, FramesAssumption
<1>5. PICK rx \in Seq(1..Len(wire)) :
        /\ rx = lpRxBuff \o Taken /\ Len(rx) = Len(lpRxBuff) + Len(Taken) /\ EndsAt(rx, q)
  <2>1. lpRxBuff \in Seq(1..Len(wire)) /\ Taken \in Seq(1..Len(wire)) /\ q \in Int
    BY <1>1 DEF FrameInv, TypeInv, TypeOK
  <2>2. p = q - Len(Taken)
    <3>1. PICK t \in Nat : t = Len(Taken)
      BY <2>1
    <3>2. p \in Nat /\ q = p + t
      BY <1>1, <3>1
    <3> QED BY <3>1, <3>2
  <2>3. EndsAt(Taken, q) /\ EndsAt(lpRxBuff, q - Len(Taken))
    BY <1>1, <2>2
  <2>4. EndsAt(lpRxBuff \o Taken, q)
    BY <2>1, <2>3, ConcatOrder
  <2>5. /\ lpRxBuff \o Taken \in Seq(1..Len(wire))
        /\ Len(lpRxBuff \o Taken) = Len(lpRxBuff) + Len(Taken)
    BY <2>1, ConcatProperties
  <2> QED BY <2>4, <2>5
<1>6. q - Len(rx) = p - Len(lpRxBuff) /\ p - Len(lpRxBuff) <= p
  <2>1. lpRxBuff \in Seq(1..Len(wire)) /\ Taken \in Seq(1..Len(wire))
    BY <1>1 DEF FrameInv, TypeInv, TypeOK
  <2>2. PICK a \in Nat, t \in Nat : a = Len(lpRxBuff) /\ t = Len(Taken)
    BY <2>1
  <2>3. q = p + t /\ Len(rx) = a + t /\ p \in Nat
    BY <1>1, <1>5, <2>2
  <2> QED BY <2>2, <2>3
<1>7. ASSUME NEW s \in StatusEnds PROVE p < s /\ q <= s
  <2>1. p < s
    BY <1>1 DEF FrameInv, StepInv, StopsAtStatus
  <2> QED BY <1>2, <1>3, <2>1, NextEnd
<1>8. StatusAtFrameBoundary(rx) <=> q \in StatusEnds
  <2>1. StatusAtFrameBoundary(rx) <=> \E s \in StatusEnds : q - Len(rx) < s /\ s <= q
    BY <1>3, <1>4, <1>5, <1>6, <1>1, StatusSeen
  <2>2. ASSUME NEW s \in StatusEnds, s <= q PROVE s = q
    BY <1>3, <1>7, <2>2
  <2>3. q - Len(rx) < q
    <3>1. PICK a \in Nat : a = p - Len(lpRxBuff)
      BY <1>1, <1>3
    <3> QED BY <1>1, <1>2, <1>6, <3>1
  <2> QED BY <2>1, <2>2, <2>3
<1>9. /\ pc' = "out" /\ dst' = <<>> /\ ret' = Len(Taken) /\ lpRxBuff' = rx
      /\ bReadbufEnd' <=> q \in StatusEnds
  BY <1>1, <1>5, <1>8 DEF ReturnRecord
<1>10. Given' - Len(dst') = q /\ q - ret' = p /\ StatusEnds' = StatusEnds
  BY <1>1, <1>9 DEF StatusEnds
<1>11. InStep'
  BY <1>1, <1>4, <1>9, <1>10 DEF InStep
<1>12. StopsAtStatus'
  <2>1. ASSUME ~bReadbufEnd', NEW s \in StatusEnds PROVE q < s
    BY <1>3, <1>7, <1>9, <2>1
  <2> QED BY <1>1, <1>9, <1>10, <2>1 DEF StopsAtStatus
<1> QED BY <1>1, <1>4, <1>6, <1>9, <1>10, <1>11, <1>12 DEF StepInv

LEMMA TakeHeaderStep ==
  ASSUME FrameInv, TakeHeader
  PROVE  StepInv'
<1>1. PICK p \in Ends[wire], q \in Nat :
           /\ p = Given - Len(dst) /\ p \in Nat
           /\ q = p + Len(Taken) /\ q <= Len(wire)
           /\ Len(Taken) = Len(dst) + Want /\ Taken \in Seq(1..Len(wire))
           /\ \A k \in 1..Len(Taken) : Taken[k] = p + k
           /\ pc = "header"
  BY Serving DEF TakeHeader
<1>2. dst = <<>> /\ Want = 1 /\ Len(Taken) = 1
  BY <1>1 DEF FrameInv, TypeInv, PartOK, Want
<1>3. Taken[1] = p + 1 /\ Taken[1] = cache[1]
  <2>1. Taken[1] = IF 1 <= Len(dst) THEN dst[1] ELSE cache[1 - Len(dst)]
    BY <1>1, <1>2, TakenType DEF FrameInv, TakeHeader, Served
  <2> QED BY <1>1, <1>2, <2>1
<1>4. CASE wire[cache[1]] \in Status
  <2>1. ReturnRecord
    BY <1>4 DEF TakeHeader, IsBoundaryStatus
  <2>2. \A b, f \in Nat : b = Given - Len(dst) /\ f = b + Len(Taken) /\ f <= Len(wire) =>
           b < f /\ IsRecord(wire, b, f)
    BY <1>1, <1>2, <1>3, <1>4 DEF IsRecord
  <2> QED BY <2>1, <2>2, ReturnStep DEF TakeHeader
<1>5. CASE wire[cache[1]] \notin Status
  <2>1. Ask("lengths", 3)
    BY <1>5 DEF TakeHeader, IsBoundaryStatus
  <2> QED BY <1>2, <1>3, <1>5, <2>1, AskStep DEF TakeHeader
<1> QED BY <1>4, <1>5

LEMMA TakeLengthsStep ==
  ASSUME FrameInv, TakeLengths
  PROVE  StepInv'
<1>1. PICK p \in Ends[wire] :
           /\ p = Given - Len(dst) /\ p \in Nat
           /\ Len(Taken) = Len(dst) + Want /\ Taken \in Seq(1..Len(wire))
           /\ \A k \in 1..Len(Taken) : Taken[k] = p + k
           /\ pc = "lengths"
  BY Serving DEF TakeLengths
<1>2. Len(Taken) = 3 /\ wire[p + 1] \notin Status
  <2>1. Len(dst) = 1 /\ Want = 2 /\ wire[p + 1] \notin Status
    BY <1>1 DEF FrameInv, TypeInv, PartOK, StepInv, Want
  <2> QED BY <1>1, <2>1
<1>3. wire[Taken[1]] \notin Status
  <2>1. 1 \in 1..Len(Taken)
    BY <1>2
  <2>2. Taken[1] = p + 1
    BY <1>1, <2>1
  <2> QED BY <1>2, <2>2
<1> QED BY <1>2, <1>3, AskStep DEF TakeLengths

LEMMA TakeWrapperStep ==
  ASSUME FrameInv, TakeWrapper
  PROVE  StepInv'
<1>1. PICK p \in Ends[wire] :
           /\ p = Given - Len(dst) /\ p \in Nat
           /\ Len(Taken) = Len(dst) + Want /\ Taken \in Seq(1..Len(wire))
           /\ \A k \in 1..Len(Taken) : Taken[k] = p + k
           /\ pc = "wrapper"
  BY Serving DEF TakeWrapper
<1>2. Len(dst) = 3 /\ Want = Length(dst, 2) + 2 /\ wire[p + 1] \notin Status
  BY <1>1 DEF FrameInv, TypeInv, PartOK, StepInv, Want
<1>3. PICK m \in Nat : m = Length(dst, 2)
  <2>1. wire \in Streams /\ dst \in Seq(1..Len(wire)) /\ 2 \in 1..(Len(dst) - 1)
    BY <1>2 DEF FrameInv, TypeInv, TypeOK
  <2>2. Length(dst, 2) \in 0..(Base * Base - 1)
    BY <2>1, LengthType
  <2> QED BY <2>2, SizesAssumption
<1>4. Len(Taken) = 5 + m
  BY <1>1, <1>2, <1>3
<1>5. Taken[1] = p + 1 /\ Taken[2] = dst[2] /\ Taken[3] = dst[3]
  <2>1. \A k \in 1..Len(Taken) : Taken[k] = IF k <= Len(dst) THEN dst[k] ELSE cache[k - Len(dst)]
    BY <1>1, TakenType DEF FrameInv, TakeWrapper, Served
  <2>2. 1 \in 1..Len(Taken) /\ 2 \in 1..Len(Taken) /\ 3 \in 1..Len(Taken)
    BY <1>4
  <2> QED BY <1>1, <1>2, <2>1, <2>2
<1>6. Length(Taken, 2) = m
  BY <1>3, <1>5 DEF Length
<1>7. wire[Taken[1]] \notin Status
  BY <1>2, <1>5
<1> QED BY <1>4, <1>6, <1>7, AskStep DEF TakeWrapper

LEMMA TakeDataStep ==
  ASSUME FrameInv, TakeData
  PROVE  StepInv'
<1>1. PICK p \in Ends[wire] :
           /\ p = Given - Len(dst) /\ p \in Nat
           /\ Len(Taken) = Len(dst) + Want /\ Taken \in Seq(1..Len(wire))
           /\ \A k \in 1..Len(Taken) : Taken[k] = p + k
           /\ pc = "data"
  BY Serving DEF TakeData
<1>2. /\ Len(dst) = 5 + Length(dst, 2) /\ Want = Length(dst, Len(dst) - 1)
      /\ wire[p + 1] \notin Status /\ Len(dst) >= 5
  BY <1>1 DEF FrameInv, TypeInv, PartOK, StepInv, Want
<1>3. wire \in Streams /\ dst \in Seq(1..Len(wire)) /\ Base * Base \in Nat
  BY SizesAssumption DEF FrameInv, TypeInv, TypeOK
<1>4. PICK m \in Nat : m = Length(dst, 2)
  <2>1. 2 \in 1..(Len(dst) - 1)
    BY <1>2, <1>3
  <2> QED BY <1>3, <2>1, LengthType
<1>5. PICK d \in Nat : d = Length(dst, m + 4)
  <2>1. m + 4 \in 1..(Len(dst) - 1)
    BY <1>2, <1>4
  <2> QED BY <1>3, <2>1, LengthType
<1>6. Len(dst) = 5 + m /\ Len(Taken) = 5 + m + d
  BY <1>1, <1>2, <1>4, <1>5
<1>7. \A k \in 1..(5 + m) : dst[k] = p + k
  <2>1. \A k \in 1..Len(Taken) : Taken[k] = IF k <= Len(dst) THEN dst[k] ELSE cache[k - Len(dst)]
    BY TakenType DEF FrameInv, TakeData, Served
  <2>2. \A k \in 1..(5 + m) : k \in 1..Len(Taken) /\ k <= Len(dst)
    BY <1>6
  <2>3. \A k \in 1..Len(Taken) : Taken[k] = p + k
    BY <1>1
  <2> QED BY <2>1, <2>2, <2>3
<1>8. m = LengthAt(wire, p + 2) /\ d = LengthAt(wire, p + 4 + m)
  <2>1. 2 \in 1..(5 + m) /\ 2 + 1 \in 1..(5 + m) /\ m + 4 \in 1..(5 + m) /\ m + 4 + 1 \in 1..(5 + m)
    OBVIOUS
  <2>2. dst[2] = p + 2 /\ dst[2 + 1] = p + (2 + 1) /\ dst[m + 4] = p + (m + 4)
        /\ dst[m + 4 + 1] = p + (m + 4 + 1)
    BY <1>7, <2>1
  <2>3. /\ p + (2 + 1) = p + 2 + 1 /\ p + (m + 4) = p + 4 + m
        /\ p + (m + 4 + 1) = p + 4 + m + 1
    BY <1>1
  <2> QED BY <1>4, <1>5, <2>2, <2>3 DEF Length, LengthAt
<1>9. ASSUME NEW b \in Nat, NEW f \in Nat, b = Given - Len(dst), f = b + Len(Taken)
      PROVE  b < f /\ IsRecord(wire, b, f)
  <2>1. b = p /\ f = p + 5 + m + d
    BY <1>1, <1>6, <1>9
  <2>2. b < f /\ b + 5 <= f /\ b + 5 + m <= f /\ f = b + 5 + m + d
    BY <2>1
  <2> QED BY <1>2, <1>8, <2>1, <2>2 DEF IsRecord
<1> QED BY <1>9, ReturnStep DEF TakeData

LEMMA FillStep ==
  ASSUME FrameInv, Fill
  PROVE  StepInv'
<1>1. PICK n \in 1..FreeSize :
        /\ sent' = sent + n /\ cache' = cache \o [k \in 1..n |-> sent + k]
  BY DEF Fill
<1>2. PICK c \in Nat : c = Len(cache)
  BY DEF FrameInv, TypeInv, TypeOK
<1>3. n \in Nat /\ sent \in Nat
  BY <1>2, SizesAssumption, StreamsAssumption DEF FreeSize, Least, FrameInv, TypeInv, TypeOK
<1>4. Len(cache') = c + n
  BY <1>1, <1>2, <1>3
<1>5. Given' = Given
  BY <1>1, <1>2, <1>3, <1>4 DEF Given
<1>6. UNCHANGED <<wire, dst, pc, ret, lpRxBuff, bReadbufEnd>>
  BY DEF Fill
<1> HIDE DEF Given
<1> QED BY <1>5, <1>6 DEF FrameInv, StepInv, InStep, StopsAtStatus, StatusEnds, Length

LEMMA ReadFailsStep ==
  ASSUME FrameInv, ReadFails
  PROVE  StepInv'
<1>1. pc' = "out" /\ ret' = 0 /\ bReadbufEnd' = TRUE
  BY DEF ReadFails, ReturnNothing
<1> QED BY <1>1 DEF StepInv, InStep, StopsAtStatus

LEMMA ReadNextRecordStep ==
  ASSUME FrameInv, ReadNextRecord
  PROVE  StepInv'
<1>1. CASE ReturnNothing
  BY <1>1 DEF ReturnNothing, StepInv, InStep, StopsAtStatus
<1>2. CASE pc' = "header" /\ UNCHANGED <<dst, ret, lpRxBuff, bReadbufEnd>>
  <2>1. UNCHANGED <<wire, Given>> /\ ~bReadbufEnd
    BY DEF ReadNextRecord, stream, Given
  <2> HIDE DEF Given
  <2> QED BY <1>2, <2>1 DEF FrameInv, StepInv, InStep, StopsAtStatus, StatusEnds
<1> QED BY <1>1, <1>2 DEF ReadNextRecord

\* The splitter takes a whole record.
LEMMA ProcessRecordStep ==
  ASSUME FrameInv, ProcessRecord
  PROVE  StepInv'
<1>1. /\ UNCHANGED <<wire, Given, dst, pc, ret, bReadbufEnd>> /\ pc = "out" /\ wire \in Streams
      /\ lpRxBuff \in Seq(1..Len(wire))
  BY DEF ProcessRecord, stream, Given, FrameInv, TypeInv, TypeOK
<1>2. ASSUME ~bReadbufEnd PROVE Given - Len(dst) - Len(lpRxBuff') \in Ends[wire]
  <2>1. PICK e \in Nat : e = Given - Len(dst) /\ e \in Ends[wire] /\ EndsAt(lpRxBuff, e)
    BY <1>1, <1>2, EndsType DEF FrameInv, StepInv, InOrder, Given
  <2>2. PICK N \in Nat : N = Len(lpRxBuff)
    BY <1>1
  <2>3. PICK b \in Nat : b = e - N /\ b \in Ends[wire]
    BY <1>1, <1>2, <2>1, <2>2, EndsType DEF FrameInv, StepInv
  <2>4. PICK L \in Nat : L = RecordLength(lpRxBuff, 1) /\ L > 0
    BY <1>1, RecordLengthType DEF ProcessRecord
  <2>5. 1 \in 1..Len(lpRxBuff)
    <3>1. N # 0
      <4> SUFFICES ASSUME N = 0 PROVE FALSE
        OBVIOUS
      <4>1. RecordLength(lpRxBuff, 1) = 0
        BY <2>2 DEF RecordLength
      <4> QED BY <2>4, <4>1
    <3> QED BY <2>2, <3>1
  <2>6. b = e - Len(lpRxBuff) + 1 - 1
    BY <2>2, <2>3
  <2>7. 1 + L <= N + 1
    BY <1>1, <2>1, <2>2, <2>4, <2>5, <2>6, RecordFound
  <2>8. IsRecord(wire, b, b + L)
    BY <1>1, <2>1, <2>4, <2>5, <2>6, RecordFound
  <2>9. b + L \in Ends[wire]
    <3>1. e <= Len(wire) /\ Len(wire) \in Nat
      BY <1>1, <2>1, EndsType
    <3>2. b + L \in (b + 1)..Len(wire)
      BY <2>3, <2>4, <2>7, <3>1
    <3> QED BY <1>1, <2>3, <2>8, <3>2, FramesAssumption
  <2>10. lpRxBuff' = SubSeq(lpRxBuff, L + 1, N)
    BY <2>2, <2>4 DEF ProcessRecord
  <2>11. Len(lpRxBuff') = N - L
    <3>1. \A k \in (L + 1)..N : lpRxBuff[k] \in 1..Len(wire)
      BY <1>1, <2>2
    <3>2. Len(SubSeq(lpRxBuff, L + 1, N)) = IF L + 1 <= N THEN N - (L + 1) + 1 ELSE 0
      BY <1>1, <2>2, <3>1, SubSeqProperties
    <3> QED BY <2>7, <2>10, <3>2
  <2>12. e - (N - L) = b + L
    BY <2>3
  <2> QED BY <2>1, <2>9, <2>11, <2>12
<1> HIDE DEF Given
<1> QED BY <1>1, <1>2 DEF FrameInv, StepInv, InStep, StopsAtStatus, StatusEnds

\* A page begins with a record.
LEMMA PageStep ==
  /\ wire \in Streams /\ sent = 0 /\ cache = <<>> /\ dst = <<>> /\ pc = "out" /\ ret = 0
  /\ lpRxBuff = <<>> /\ bReadbufEnd = FALSE
  => StepInv
<1> SUFFICES ASSUME wire \in Streams, sent = 0, cache = <<>>, dst = <<>>, pc = "out", ret = 0,
                    lpRxBuff = <<>>, bReadbufEnd = FALSE
             PROVE  StepInv
  OBVIOUS
<1>1. Given = 0 /\ Given - Len(dst) = 0 /\ Given - Len(dst) - Len(lpRxBuff) = 0
  <2>1. Len(cache) = 0 /\ Len(dst) = 0 /\ Len(lpRxBuff) = 0
    OBVIOUS
  <2>2. Given = 0 - 0
    BY <2>1, Zenon DEF Given
  <2>3. 0 - 0 = 0
    OBVIOUS
  <2> QED BY <2>1, <2>2, <2>3, Zenon
<1>2. 0 \in Ends[wire]
  BY FramesAssumption
<1>3. ASSUME NEW e \in StatusEnds PROVE 0 < e
  <2>1. e \in Nat /\ e - 1 \in Nat
    BY EndsType DEF StatusEnds
  <2> QED BY <2>1
<1> QED BY <1>1, <1>2, <1>3 DEF StepInv, InStep, StopsAtStatus

LEMMA FrameInvariant == Spec => []FrameInv
<1>1. Init => FrameInv
  <2> SUFFICES ASSUME Init PROVE FrameInv
    OBVIOUS
  <2>1. InOrder
    BY EmptyOrder DEF Init, InOrder, EndsAt
  <2>2. StepInv
    BY PageStep DEF Init
  <2> QED BY InitType, <2>1, <2>2 DEF FrameInv
<1>2. FrameInv /\ [Next]_vars => FrameInv'
  <2> SUFFICES ASSUME FrameInv, [Next]_vars PROVE FrameInv'
    OBVIOUS
  <2>1. TypeInv' /\ InOrder'
    BY TypeStep, OrderStep DEF FrameInv
  <2>2. StepInv'
    <3>1. CASE Fill \/ ReadFails
      BY <3>1, FillStep, ReadFailsStep
    <3>2. CASE Take
      BY <3>2, TakeHeaderStep, TakeLengthsStep, TakeWrapperStep, TakeDataStep DEF Take
    <3>3. CASE ReadNextRecord \/ ProcessRecord
      BY <3>3, ReadNextRecordStep, ProcessRecordStep
    <3>4. CASE NextPage
      <4>1. dst' = <<>> /\ pc' = "out"
        BY <3>4 DEF NextPage, FrameInv, TypeInv, PartOK
      <4>2. /\ wire' \in Streams /\ sent' = 0 /\ cache' = <<>> /\ ret' = 0 /\ lpRxBuff' = <<>>
            /\ bReadbufEnd' = FALSE
        BY <3>4 DEF NextPage
      <4>3. (/\ wire \in Streams /\ sent = 0 /\ cache = <<>> /\ dst = <<>> /\ pc = "out" /\ ret = 0
             /\ lpRxBuff = <<>> /\ bReadbufEnd = FALSE)'
        BY <4>1, <4>2
      <4> QED BY <4>3, PageStep, PTL
    <3>5. CASE UNCHANGED vars
      BY <3>5 DEF FrameInv, StepInv, InStep, StopsAtStatus, StatusEnds, Given, Length, vars, stream
    <3> QED BY <3>1, <3>2, <3>3, <3>4, <3>5 DEF Next, Work
  <2> QED BY <2>1, <2>2 DEF FrameInv
<1> QED BY <1>1, <1>2, PTL DEF Spec

(* For any streams of records, room and sizes, and however the reads cut   *)
(* them: each call begins where a record does and returns all of it.       *)
THEOREM StaysInStep == Spec => []InStep
  BY FrameInvariant, PTL DEF FrameInv, StepInv

(* ... and PageScan() reads up to the status of the page and no further,   *)
(* whatever bytes are in the records before it.                            *)
THEOREM StopsAtItsStatus == Spec => []StopsAtStatus
  BY FrameInvariant, PTL DEF FrameInv, StepInv
=============================================================================
