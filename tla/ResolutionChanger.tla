-------------------------- MODULE ResolutionChanger --------------------------
(***************************************************************************)
(* The resolution changer of libbrscandec, brother_chreso.c: the functions *)
(* ChangeResoInit(), WriteStart(), Write(), WriteEnd() and Close() with    *)
(* the functions they choose between by pointers.                          *)
(*                                                                         *)
(* The content of a line is its number on the page, for each plane of      *)
(* colour its own; a grey or B/W line fills all planes.                    *)
(***************************************************************************)
EXTENDS ResoParams, Sequences

CONSTANTS
  Jobs,      \* the jobs ChangeResoInit() is called with
  MaxLines   \* lines in a page

Colours == {"BW", "GRAY", "INDEXED", "RGB"}

ASSUME JobsAssumption ==
  Jobs \subseteq [inX : Nat \ {0}, inY : Nat \ {0}, outX : Nat \ {0}, outY : Nat \ {0},
                  colour : Colours, pixels : Nat,
                  order : {"RGB", "BGR", "PLANE"}, long : BOOLEAN]
\* The count of lines is compared with 0 as 16 bits: a page is shorter.
ASSUME LinesAssumption == MaxLines \in 0..65533

VARIABLES
  job,      \* the setup of the job in force, NoJob before and after
  slot,     \* the window: the contents of its lines (DAT_002088e8)
  next,     \* the slot the next line goes to (DAT_002088dc)
  count,    \* lines put into the window, or repeated (DAT_00208988)
  planes,   \* planes of the line being put together (_DAT_002088e0)
  armed,    \* the end of the page may make lines (_DAT_002088c8)
  partial,  \* a line being put together in the caller's buffer
  lines,    \* whole lines of the page the caller has given
  made,     \* the lines made of the page
  wrote,    \* lines the last call has written
  ended     \* ChangeResoWriteEnd() was called for the page

vars == <<job, slot, next, count, planes, armed, partial, lines, made, wrote, ended>>

NoJob == [colour |-> "none"]
Slots == 0..(WindowLines - 1)

\* What is in memory before a line of the page is.
Blank    == [p \in Planes |-> 0]
Line(n)  == [p \in Planes |-> n]
\* The packed bits of line n where one byte for each of its pixels belongs.
Packed(n) == Line(-n)

Kinds == {"whole"} \cup Planes

\* Line n, or a plane of it, comes into the memory that holds old.
Fill(old, kind, n) == IF kind \in Planes THEN [old EXCEPT ![kind] = n] ELSE Line(n)

PlaneCount(kind) == IF kind \in Planes THEN 1 ELSE 3

Open         == job # NoJob
Interpolates == job.way \in Interpolating

-----------------------------------------------------------------------------
(* The window.                                                             *)

\* The first line of a page also goes to the last slot, for the line above
\* the page; the count is compared as 16 bits.  What goes there is the line
\* as the caller gave it: the bits of a B/W line, not the bytes made of them.
AboveFirst(content) ==
  IF job.colour = "BW" THEN [p \in Planes |-> -content[p]] ELSE content

Push(window, at, n, content) ==
  LET placed == [window EXCEPT ![at] = content]
  IN  IF n % 65536 = 0
      THEN [placed EXCEPT ![WindowLines - 1] = AboveFirst(content)]
      ELSE placed

Unwrapped(at) == at + 1
After(at) == (at + 1) % WindowLines

\* At the end of the page the newest line is given once more.
OldestInstead(window, at) == window[at]
Newest(window, at) == window[(at + WindowLines - 1) % WindowLines]

-----------------------------------------------------------------------------
(* The lines made when the window has moved on to n lines: they lie on     *)
(* line n - 2, which is the window's second.                               *)

Moved(n) == (n - 3) % job.y.in

\* The coefficients of the first of them.
FirstPhase(n) == (Moved(n) * job.y.out + job.y.in - 1) \div job.y.in

Number(n) ==
  Cardinality({j \in 0..(job.y.out - 1) : (j * job.y.in) \div job.y.out = Moved(n)})

\* The line of the window at height y over its oldest.
Fetch(window, at, y) == window[(y + at) % WindowLines]

\* The heights a line is mixed from whose own is one line and a fraction of
\* Y.out parts.
Heights(phase, n) ==
  IF job.way = "cubic" THEN 0..3
  ELSE LET top == job.y.out + phase * job.y.in - Moved(n) * job.y.out
       IN  (top \div job.y.out)..(((top + job.y.in + job.y.out - 1) \div job.y.out) - 1)

Interpolated(window, at, n) ==
  IF n <= 2 THEN <<>>
  ELSE [i \in 1..Number(n) |->
          LET phase == FirstPhase(n) + i - 1
              ys    == Heights(phase, n)
              low   == CHOOSE y \in ys : \A z \in ys : y <= z
          IN  [phase |-> phase,
               rows  |-> [r \in 1..Cardinality(ys) |-> Fetch(window, at, low + r - 1)]]]

-----------------------------------------------------------------------------
(* Lines made by repeating.                                                *)

\* The tables that stretch or halve the bits of a line are never filled.
Expanded(content) ==
  IF job.colour = "BW" /\ job.simpleX # 1 THEN Blank ELSE content

\* Every second line for one half, else Y.out times each.
Repeated(content, n) ==
  IF job.simpleY = 5 /\ n % 2 = 1 THEN <<>>
  ELSE [i \in 1..job.y.out |-> [phase |-> i - 1, rows |-> <<Expanded(content)>>]]
-----------------------------------------------------------------------------
(* The operations.                                                         *)

\* A job begins before any page of another; it need not have been closed.
ChangeResoInit(j) ==
  /\ ended /\ lines = 0
  /\ job' = IF Setup(j).way = "none" THEN NoJob ELSE Setup(j)
  /\ slot' = [s \in Slots |-> Blank]
  /\ armed' = FALSE
  /\ made' = <<>> /\ lines' = 0 /\ wrote' = 0 /\ ended' = TRUE
  /\ UNCHANGED <<next, count, planes, partial>>

StartKeepingPlanes ==
  /\ Open
  /\ next' = 0 /\ planes' = planes /\ count' = 0
  /\ armed' = (armed \/ Interpolates)
  /\ slot' = [s \in Slots |-> Blank] /\ partial' = Blank
  /\ made' = <<>> /\ lines' = 0 /\ wrote' = 0 /\ ended' = FALSE
  /\ UNCHANGED job

\* Lines left in the window by the page before are no lines of this one.
ChangeResoWriteStart ==
  /\ Open
  /\ next' = 0 /\ planes' = 0 /\ count' = 0
  /\ armed' = (armed \/ Interpolates)
  /\ slot' = [s \in Slots |-> Blank] /\ partial' = Blank
  /\ made' = <<>> /\ lines' = 0 /\ wrote' = 0 /\ ended' = FALSE
  /\ UNCHANGED job

Deliver(new) == made' = made \o new /\ wrote' = Len(new)

\* A plane that does not complete its line only goes into its slot.
FillPlane(kind) ==
  /\ job.colour = "RGB" /\ planes + PlaneCount(kind) <= 2
  /\ planes' = planes + PlaneCount(kind)
  /\ IF Interpolates
     THEN slot' = [slot EXCEPT ![next] = Fill(@, kind, lines + 1)] /\ UNCHANGED partial
     ELSE partial' = Fill(partial, kind, lines + 1) /\ UNCHANGED slot
  /\ Deliver(<<>>)
  /\ UNCHANGED <<job, next, count, armed, lines, ended>>

Completes(kind) == job.colour = "RGB" => planes + PlaneCount(kind) > 2

\* FUN_001019e4, FUN_00101cba and FUN_00101eae.
WriteInterpolated(kind) ==
  /\ Interpolates /\ Completes(kind)
  /\ slot' = Push(slot, next, count, Fill(slot[next], kind, lines + 1))
  /\ next' = After(next) /\ count' = count + 1 /\ planes' = 0
  /\ lines' = lines + 1
  /\ Deliver(Interpolated(slot', next', count'))
  /\ UNCHANGED <<job, armed, partial, ended>>

\* FUN_0010194b and FUN_00101bd8.
WriteRepeated(kind) ==
  /\ job.way = "multiply" /\ kind = "whole"
  /\ count' = count + 1 /\ lines' = lines + 1
  /\ Deliver(Repeated(Line(lines + 1), count))
  /\ UNCHANGED <<job, slot, next, planes, armed, partial, ended>>

\* FUN_001016e4, FUN_001017b1 and FUN_0010187e.
WriteCopy(kind) ==
  /\ job.way = "copy" /\ Completes(kind)
  /\ planes' = 0 /\ lines' = lines + 1 /\ partial' = Blank
  /\ count' = IF job.colour = "RGB" THEN count + 1 ELSE count
  /\ Deliver(<<[phase |-> 0, rows |-> <<Fill(partial, kind, lines + 1)>>]>>)
  /\ UNCHANGED <<job, slot, next, armed, ended>>

\* The caller gives colour as whole lines or as planes, red, green, blue.
InTurn(kind) ==
  IF job.colour = "RGB"
  THEN planes = IF kind = "G" THEN 1 ELSE IF kind = "B" THEN 2 ELSE 0
  ELSE kind = "whole"

ChangeResoWrite(kind) ==
  /\ Open /\ ~ended /\ lines < MaxLines
  /\ InTurn(kind)
  /\ \/ FillPlane(kind)
     \/ WriteInterpolated(kind)
     \/ WriteRepeated(kind)
     \/ WriteCopy(kind)

\* The last line twice more, when there have been three; a line being put
\* together is overwritten.
EndWindow ==
  /\ armed /\ count > 2
  /\ LET once  == Push(slot, next, count, Newest(slot, next))
         twice == Push(once, After(next), count + 1, Newest(once, After(next)))
     IN  /\ slot' = twice
         /\ Deliver(Interpolated(once, After(next), count + 1)
                      \o Interpolated(twice, After(After(next)), count + 2))
  /\ next' = After(After(next)) /\ count' = count + 2
  /\ planes' = IF job.colour = "RGB" THEN 0 ELSE planes
  /\ armed' = FALSE
  /\ UNCHANGED <<job, partial>>

EndNothing ==
  /\ ~(armed /\ count > 2)
  /\ Deliver(<<>>)
  /\ UNCHANGED <<job, slot, next, count, planes, armed, partial>>

ChangeResoWriteEnd ==
  /\ Open /\ ~ended
  /\ (EndWindow \/ EndNothing)
  /\ ended' = TRUE
  /\ UNCHANGED lines

ChangeResoClose ==
  /\ Open
  /\ job' = NoJob /\ ended' = TRUE
  /\ slot' = [s \in Slots |-> Blank]
  /\ made' = <<>> /\ lines' = 0 /\ wrote' = 0
  /\ UNCHANGED <<next, count, planes, armed, partial>>

-----------------------------------------------------------------------------
Init ==
  /\ job = NoJob /\ slot = [s \in Slots |-> Blank] /\ partial = Blank
  /\ next = 0 /\ count = 0 /\ planes = 0 /\ armed = FALSE
  /\ lines = 0 /\ made = <<>> /\ wrote = 0 /\ ended = TRUE

Next ==
  \/ \E j \in Jobs : ChangeResoInit(j)
  \/ ChangeResoWriteStart
  \/ \E kind \in Kinds : ChangeResoWrite(kind)
  \/ ChangeResoWriteEnd
  \/ ChangeResoClose

Spec == Init /\ [][Next]_vars

-----------------------------------------------------------------------------
(* Properties.                                                             *)

TypeOK ==
  /\ job \in {NoJob} \cup {Setup(j) : j \in Jobs}
  /\ slot \in [Slots -> [Planes -> Int]] /\ partial \in [Planes -> Int]
  /\ next \in Slots /\ planes \in 0..2
  /\ count \in 0..(MaxLines + 2) /\ lines \in 0..MaxLines
  /\ armed \in BOOLEAN /\ ended \in BOOLEAN

\* Line number i of the page as the window keeps it.
Kept(i) ==
  IF i >= 1 THEN Line(IF i > lines THEN lines ELSE i)
  ELSE IF job.colour = "BW" THEN Packed(1) ELSE Line(1)

\* With only whole lines in the window, and after three or more of a page, it
\* holds the last four in their order: above the page stands its first line,
\* below it the last one.  A slot off by one, or a first line not doubled,
\* mixes lines that are no neighbours.
WindowHolds ==
  Open /\ Interpolates /\ lines > 0 /\ planes = 0 /\ count > 2 =>
    \A y \in 0..3 : Fetch(slot, next, y) = Kept(count - 3 + y)

\* A call never writes more than the caller was told to make room for.
WriteFits == Open => wrote * job.outBytes <= job.writeMax

\* The lines of a page come out of a line resampler.  What stands above the
\* first line is the line itself, or the packed bits of a B/W one.
RowOf(content) ==
  IF content["R"] = content["G"] /\ content["R"] = content["B"] THEN content["R"] ELSE -1000

Seen(line) ==
  [phase |-> line.phase, rows |-> [r \in DOMAIN line.rows |-> RowOf(line.rows[r])]]

Style ==
  IF job = NoJob THEN [way |-> "closed", in |-> 1, out |-> 1, above |-> 1]
  ELSE [way |-> job.way, in |-> job.y.in, out |-> job.y.out,
        above |-> IF job.colour = "BW" THEN -1 ELSE 1]

Resampler == INSTANCE LineResampler WITH
  style <- Style, given <- lines, over <- ended,
  made  <- [i \in DOMAIN made |-> Seen(made[i])]

\* Each line made is mixed from the lines around its own place on the page,
\* all planes of the same line, in order and none left out, to the last line
\* of the page, whatever happened to the page before.
Resamples == Resampler!Spec

\* The samples of a line made have places of their own inside the line: the
\* planes do not overlap where the length of a line is no multiple of three.
\* The last columns of a cubic B/W line do share a bit.
SamplesApart ==
  Open /\ Interpolates =>
    LET columns == 0..((IF job.way = "cubic" /\ job.colour = "BW"
                        THEN Grouped(job) ELSE job.outPixels) - 1)
        samples == (IF job.colour = "RGB" THEN Planes ELSE {"R"}) \X columns
        places  == {Place(job, s[1], s[2]) : s \in samples}
    IN  /\ Cardinality(places) = Cardinality(samples)
        /\ places \subseteq 0..((IF job.colour = "BW" THEN 8 ELSE 1) * job.outBytes - 1)

\* A column made is mixed from the columns around its own place on the line,
\* or from the last one where there are none: over the whole line no column
\* drifts, and no column of the slot that it comes to is left out.  A line
\* made by repeating reads no byte behind the line of the device.
ColumnsInPlace ==
  Open =>
    /\ Interpolates =>
         LET columns == 0..(job.outPixels - 1)
             near(c, s) == /\ (s + 2) * job.x.out > c * job.x.in
                           /\ (s - 2) * job.x.out < (c + 1) * job.x.in
         IN  /\ \A c \in columns : \A s \in ColumnsRead(job, c) :
                   near(c, s) \/ s = SlotColumns(job) - 1
             /\ (0..(FloorColumn(job, job.outPixels) - 1)) \cap (0..(SlotColumns(job) - 1))
                  \subseteq UNION {ColumnsRead(job, c) : c \in columns}
    /\ job.way = "multiply" => BytesRead(job) <= job.inBytes
=============================================================================
