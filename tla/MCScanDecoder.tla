---------------------------- MODULE MCScanDecoder ----------------------------
(***************************************************************************)
(* ScanDecoder on the resolutions of the drivers' tables, with the packed  *)
(* lines told from what they were packed from.                             *)
(***************************************************************************)
EXTENDS ScanDecoder

Job(x, y, colour, order, long) ==
  [inX |-> x[1], outX |-> x[2], inY |-> y[1], outY |-> y[2], colour |-> colour,
   pixels |-> 16, order |-> order, long |-> long]
Plain(r, colour) == Job(r, r, colour, "RGB", FALSE)

\* Up and down by interpolation, the same, and two that cannot be had.
Sides == {<<200, 300>>, <<300, 400>>, <<300, 200>>, <<400, 300>>, <<200, 200>>}

MCJobs ==
  {Plain(r, c) : r \in Sides, c \in {"BW", "GRAY"}}
    \cup {Plain(<<200, 100>>, "GRAY"), Plain(<<100, 300>>, "GRAY")}
    \cup {Plain(<<300, 100>>, "GRAY"), Plain(<<100, 4800>>, "GRAY")}
    \* only one of the two resolutions changes
    \cup {Job(<<200, 200>>, r, c, "RGB", FALSE) :
            r \in {<<200, 400>>, <<400, 200>>}, c \in {"BW", "GRAY"}}
    \cup {Job(r, r, "RGB", o, FALSE) :
            r \in {<<200, 300>>, <<300, 200>>, <<200, 200>>}, o \in {"RGB", "BGR", "PLANE"}}
    \cup {Job(<<200, 300>>, <<200, 300>>, c, "PLANE", TRUE) : c \in {"GRAY", "RGB"}}

\* B/W enlarged by a whole factor.
ScaledJobs == {Plain(<<300, 600>>, "BW")}

MCGrey(t, byte) == IF t = NoTable THEN byte ELSE 255 - byte

-----------------------------------------------------------------------------
(* Packets: [bytes, run]; a run repeats its byte, and an empty packet is   *)
(* the control byte that means nothing.                                    *)
Literal(bytes)  == [bytes |-> bytes, run |-> 0]
Run(byte, n)    == [bytes |-> <<byte>>, run |-> n]
Void            == [bytes |-> <<>>, run |-> 0]

Packing(p) ==
  IF p = Void THEN <<128>>
  ELSE <<IF p.run = 0 THEN Len(p.bytes) - 1 ELSE 257 - p.run>> \o p.bytes

Contents(p) == IF p.run = 0 THEN p.bytes ELSE [i \in 1..p.run |-> p.bytes[1]]

\* Two packets, and how many bytes of theirs the device has sent.
Lines ==
  {<<Literal(<<7>>), Run(9, 2), 4>>, <<Literal(<<7, 200, 128>>), Literal(<<1>>), 6>>,
   <<Literal(<<7, 8, 9>>), Void, 3>>, <<Run(255, 128), Literal(<<3>>), 4>>,
   <<Run(5, 3), Run(6, 4), 4>>, <<Void, Run(6, 4), 3>>, <<Run(5, 3), Run(6, 4), 3>>,
   <<Literal([i \in 1..20 |-> i]), Run(6, 2), 23>>, <<Literal(<<7>>), Literal(<<1, 2>>), 1>>}

DataOf(line) == SubSeq(Packing(line[1]) \o Packing(line[2]), 1, line[3])
MCData == {DataOf(line) : line \in Lines}

\* What was packed, as far as it has been sent.
Sent(p, n) ==
  IF n <= 1 THEN <<>>
  ELSE IF p.run = 0 THEN SubSeq(p.bytes, 1, Least(Len(p.bytes), n - 1)) ELSE Contents(p)

Packed2(line) ==
  Sent(line[1], line[3]) \o Sent(line[2], line[3] - Len(Packing(line[1])))

Meant == [d \in MCData |-> Packed2(CHOOSE line \in Lines : DataOf(line) = d)]

-----------------------------------------------------------------------------
(* Properties.                                                             *)

\* The data of a packed line give back what was packed, as far as it was sent
\* and the buffer holds it; no byte of the line before shows through.
LinesUnpacked ==
  ~ended /\ sent.comp = "packed" =>
    LET meant == Meant[sent.data]
    IN  decoded = [bytes |-> [i \in 1..Least(Len(meant), buffer) |->
                                MCGrey(hGray, meant[i])],
                   fill |-> 255]

\* The lines made of a B/W page have what the page had.
ContentKept == \A i \in DOMAIN made : made[i].rows[1] # Blank
=============================================================================
