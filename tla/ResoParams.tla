----------------------------- MODULE ResoParams -----------------------------
(***************************************************************************)
(* What ChangeResoInit() of libbrscandec works out from the job it is      *)
(* opened with: the resolutions in lowest terms, the sizes of a line, the  *)
(* way lines are made, and where the samples of a line come from and go.   *)
(*                                                                         *)
(* A job is a record                                                       *)
(*    inX, inY, outX, outY   resolutions of the device and of the picture  *)
(*    colour                 "BW", "GRAY", "INDEXED" (256 colours), "RGB"  *)
(*    pixels                 pixels in a line of the device                *)
(*    order                  "RGB", "BGR" or "PLANE": how colour is stored *)
(*    long                   lines end on a multiple of four bytes         *)
(*                                                                         *)
(* The code computes positions as floats that are sums of multiples of     *)
(* in/out; here they are exact: they are never close enough to an integer  *)
(* for the rounding to change a comparison.                                *)
(***************************************************************************)
EXTENDS Integers, FiniteSets
Sets == INSTANCE FiniteSetsExt        \* Min

WindowLines == 4                    \* DAT_002088d8 of an interpolating job
TableSize   == 32                   \* entries of a table of coefficients
Planes      == {"R", "G", "B"}

-----------------------------------------------------------------------------
(* The resolutions.                                                        *)

\* The two in lowest terms; as they are when that takes a factor over 99.
LowestTerms(in, out) ==
  LET exact == {k \in 1..99 : (k * out) % in = 0}
  IN  IF exact = {} THEN [in |-> in, out |-> out]
                    ELSE [in |-> Sets!Min(exact), out |-> (Sets!Min(exact) * out) \div in]

\* 1 to 4 for a whole multiple, 5 for one half, 0 for any other ratio.
SimpleRatio(r) ==
  IF \E n \in 1..4 : r.out = n * r.in THEN r.out \div r.in
  ELSE IF 2 * r.out = r.in THEN 5 ELSE 0

-----------------------------------------------------------------------------
(* The sizes of a line, in bytes and in pixels; x are the resolutions      *)
(* across in lowest terms.                                                 *)

RoundDown(n, unit) == n - (n % unit)

PlainBytes(job) ==
  CASE job.colour = "BW"  -> (job.pixels + 7) \div 8
    [] job.colour = "RGB" -> 3 * job.pixels
    [] OTHER              -> job.pixels

\* The bytes of a line made.
OutBytes(job, x) ==
  LET scaled == (x.out * PlainBytes(job)) \div x.in
  IN  IF ~job.long THEN scaled
      ELSE RoundDown(scaled, IF job.colour = "RGB" THEN 12 ELSE 4)

\* The bytes of a line of the device that are looked at.
InBytes(job, x) ==
  IF job.long THEN (x.in * OutBytes(job, x)) \div x.out ELSE PlainBytes(job)

OutPixels(job, bytes) ==
  CASE job.colour = "BW"  -> 8 * bytes
    [] job.colour = "RGB" -> bytes \div 3
    [] OTHER              -> bytes

-----------------------------------------------------------------------------
(* The way lines are made; y are the resolutions down the page.            *)

\* Interpolating takes no more than two lines of the device for one made.
Interpolation(x, y) ==
  IF 2 * y.out < y.in THEN "none" ELSE IF x.out < x.in THEN "area" ELSE "cubic"

Select(job, x, y) ==
  LET simple == SimpleRatio(x) # 0 /\ SimpleRatio(y) # 0
  IN  IF job.inX = job.outX /\ job.inY = job.outY THEN "copy"
      ELSE IF job.colour \in {"BW", "INDEXED"} /\ simple THEN "multiply"
      ELSE IF job.colour = "INDEXED" THEN "none" ELSE Interpolation(x, y)

\* The tables of coefficients are filled for the cubic way only.
TablesFit(x, y) == x.out <= TableSize /\ y.out <= TableSize

Way(job, x, y) ==
  IF Select(job, x, y) = "cubic" /\ ~TablesFit(x, y) THEN "none" ELSE Select(job, x, y)

Interpolating == {"area", "cubic"}

\* Bytes of one line of the window: a B/W line has a byte for each pixel.
SlotBytes(job, x) == IF job.colour = "BW" THEN job.pixels ELSE InBytes(job, x)

OneLineSize(job, x, y) == ((y.out + y.in - 1) \div y.in) * OutBytes(job, x)

\* What one call may write, as the caller is told: the end of a page makes
\* the lines of two lines of the device at once.
WriteMaxSize(job, x, y) ==
  ((y.out + y.in - 1) \div y.in) * OutBytes(job, x)
     * (IF Way(job, x, y) \in Interpolating THEN 2 ELSE 1)

\* What is kept of a job.
Setup(job) ==
  LET x == LowestTerms(job.inX, job.outX)
      y == LowestTerms(job.inY, job.outY)
  IN  [colour |-> job.colour, order |-> job.order, x |-> x, y |-> y,
       simpleX |-> SimpleRatio(x), simpleY |-> SimpleRatio(y),
       way |-> Way(job, x, y),
       inBytes |-> InBytes(job, x), outBytes |-> OutBytes(job, x),
       outPixels |-> OutPixels(job, OutBytes(job, x)),
       slotBytes |-> SlotBytes(job, x), writeMax |-> WriteMaxSize(job, x, y)]

-----------------------------------------------------------------------------
(* The columns of a line made by interpolation; p is the setup of the job. *)
(* Columns are made in groups of x.out for x.in of the device, then the    *)
(* rest.                                                                   *)

SlotColumns(p) == IF p.colour = "RGB" THEN p.slotBytes \div 3 ELSE p.slotBytes

\* A column outside of the slot is read as its last one: the index is
\* unsigned, so the column left of the first is beyond the last, too.
InSlot(p, c) == IF c \in 0..(SlotColumns(p) - 1) THEN c ELSE SlotColumns(p) - 1

InGroup(p, c)       == ((c % p.x.out) * p.x.in) \div p.x.out
FloorColumn(p, c)   == (c * p.x.in) \div p.x.out
CeilingColumn(p, c) == (c * p.x.in + p.x.out - 1) \div p.x.out

\* The columns of the device a column made is mixed from: four around it, or
\* all it covers.
CubicColumns(p, c) == (FloorColumn(p, c) - 1)..(FloorColumn(p, c) + 2)
AreaColumns(p, c)  == FloorColumn(p, c)..(CeilingColumn(p, c + 1) - 1)
ColumnsRead(p, c) ==
  {InSlot(p, s) : s \in IF p.way = "cubic" THEN CubicColumns(p, c) ELSE AreaColumns(p, c)}

\* The columns behind the last whole group of a cubic B/W line pick their
\* byte as they should and their bit by the counter that the loop over the
\* groups has left at x.out.
Grouped(p) == RoundDown(p.outPixels, p.x.out)

BitOf(p, c) ==
  IF p.way = "cubic" /\ c >= Grouped(p)
  THEN RoundDown(c, 8) + ((p.x.out + Grouped(p)) % 8)
  ELSE c

TwoThirds(bytes)  == (2 * bytes) \div 3
PlaneBytes(bytes) == ((2 * bytes) \div 3) \div 2

Offset(order, plane) ==
  CASE plane = "G"                     -> 1
    [] plane = "R" /\ order # "BGR"    -> 0
    [] plane = "B" /\ order = "BGR"    -> 0
    [] OTHER                           -> 2

\* The byte of a line made that holds the sample of a plane, for black and
\* white the bit.
Place(p, plane, c) ==
  IF p.colour = "BW" THEN BitOf(p, c)
  ELSE IF p.colour # "RGB" THEN c
  ELSE IF p.order = "PLANE" THEN c + Offset("RGB", plane) * PlaneBytes(p.outBytes)
  ELSE 3 * c + Offset(p.order, plane)

-----------------------------------------------------------------------------
(* How many bytes of the device's line an expander reads for a line made   *)
(* by repeating.  A grey byte stands for x.in others, so a line that is to *)
(* be widened is only copied.                                              *)
BytesRead(p) ==
  IF p.simpleX = 5 THEN 2 * p.outBytes
  ELSE IF p.colour = "BW" THEN (p.outBytes + p.simpleX - 1) \div p.simpleX
  ELSE p.x.in * p.outBytes
=============================================================================
