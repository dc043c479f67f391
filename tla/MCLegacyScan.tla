----------------------------- MODULE MCLegacyScan -----------------------------
(***************************************************************************)
(* LegacyScan with short lines. The bytes: 0 white, 1 gray, 2..4 the parts *)
(* of a colour line, 5 for 0x80, 6 for 0x81, 7 for 0xC2, 8 for 0xE3.       *)
(***************************************************************************)
EXTENDS LegacyScan

Answers == 5 :> "eof" @@ 6 :> "mps" @@ 7 :> "nodoc" @@ 8 :> "cancel"
BoundaryStatus == {5, 7, 8}
CrYCb == <<2, 3, 4>>

(* a line of n bytes, and a frame with a wrapper of one byte               *)
Line(h, n)  == <<h, n, 0>> \o Times(n, 1)
Frame(h, n) == <<h, 1, 0, 8, n, 0>> \o Times(n, 1)
Colour(L(_, _), n) == L(2, n) \o L(3, n) \o L(4, n)
Copies(n, s) == FlattenSeq(Times(n, s))

Plain == [convert |-> FALSE, colour |-> FALSE, adf |-> FALSE, width |-> 8]

PageScans ==
  { (* nine short lines, more than a batch, and a short page behind them   *)
    [Plain EXCEPT !.adf = TRUE] @@ [pages |->
      <<Copies(9, Line(1, 1)) \o <<6>>, Line(1, 2) \o Line(1, 8) \o <<5>> >>],
    (* white lines, and a page that ends with the device's cancel          *)
    [Plain EXCEPT !.adf = TRUE] @@ [pages |->
      <<<<0, 0>> \o Line(1, 1) \o <<0>> \o Line(1, 1) \o <<6>>, Line(1, 1) \o <<8>> >>],
    (* no document, and nothing at all                                     *)
    Plain @@ [pages |-> << <<7>> >>],
    Plain @@ [pages |-> << <<>> >>],
    (* colour, with and without a status                                   *)
    [Plain EXCEPT !.colour = TRUE, !.width = 1] @@ [pages |->
      << Copies(6, Colour(Line, 1)) \o <<5>> >>],
    [Plain EXCEPT !.colour = TRUE, !.width = 1, !.convert = TRUE] @@ [pages |->
      << Copies(3, Colour(Frame, 1)) \o <<5>> >>],
    [Plain EXCEPT !.colour = TRUE, !.width = 1, !.convert = TRUE] @@ [pages |->
      << Copies(2, Colour(Frame, 1)) \o Frame(2, 1) >>],
    (* frames in gray, with a next page                                    *)
    [Plain EXCEPT !.convert = TRUE, !.adf = TRUE] @@ [pages |->
      <<Copies(5, Frame(0, 8)) \o Line(6, 0) \o <<0, 0>>, Frame(1, 1) \o Frame(0, 2) \o <<5>> >>] }

SomeMaxLens == {5, 16, 50}
=============================================================================
