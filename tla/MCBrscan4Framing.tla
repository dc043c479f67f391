--------------------------- MODULE MCBrscan4Framing ---------------------------
(***************************************************************************)
(* Brscan4Framing with pages of short records, bytes 0..2 and 2 for the    *)
(* status: a status byte also stands in the wrappers and the data. Lengths *)
(* up to 8 need both bytes. The reads are shorter than the cache.          *)
(***************************************************************************)
EXTENDS Brscan4Framing, FiniteSets, SequencesExt

(* a frame with w bytes of wrapper and d bytes of data                     *)
Frame(w, d) ==
  <<0, w % 3, w \div 3>> \o [k \in 1..w |-> 2] \o <<d % 3, d \div 3>> \o [k \in 1..d |-> 1 + (k % 2)]
End == <<2>>

Pages ==
  { <<Frame(0, 1), Frame(1, 2), End>>,
    <<Frame(2, 0), Frame(0, 3), End, Frame(0, 0)>>,
    <<Frame(0, 8), End>>,
    <<Frame(8, 0), Frame(0, 1), End>>,
    <<Frame(6, 0), Frame(0, 1)>> }

Flat(records) == FoldLeft(LAMBDA s, r : s \o r, <<>>, records)
(* a device that stops in its second frame                                 *)
CutPage     == SubSeq(Flat(<<Frame(0, 1), Frame(1, 2)>>), 1, 10)
PageStreams == {Flat(p) : p \in Pages} \union {CutPage}
SomeRooms   == {-3, 2, 6, 13, 20}

(* where the first n records of a page end, for each n                     *)
EndsOf(p) == {Len(Flat(SubSeq(p, 1, n))) : n \in 0..Len(p)}
PageEnds  ==
  [w \in PageStreams |->
     EndsOf(CHOOSE p \in Pages : IsPrefix(w, Flat(p))) \intersect 0..Len(w)]
=============================================================================
