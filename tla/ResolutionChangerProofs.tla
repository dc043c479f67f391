----------------------- MODULE ResolutionChangerProofs -----------------------
(***************************************************************************)
(* For any jobs and any length of page below 65534 lines: the window of    *)
(* the resolution changer holds the four lines around the place on the     *)
(* page that lines are made for, no call writes more than the caller was   *)
(* told to make room for, and the lines that come out are those of a line  *)
(* resampler; a line's columns are mixed from those around their place and *)
(* its samples do not overlap.                                             *)
(***************************************************************************)
EXTENDS ResolutionChanger, FiniteSetTheorems, WellFoundedInduction, TLAPS

-----------------------------------------------------------------------------
(* Numbers.                                                                *)

\* A set of natural numbers has a least one.
LEMMA LeastExists ==
  ASSUME NEW S \in SUBSET Nat, S # {}
  PROVE  Sets!Min(S) \in S /\ \A y \in S : Sets!Min(S) <= y
<1> DEFINE Below == {ss \in Nat \X Nat : ss[1] < ss[2]}
<1>1. IsWellFoundedOn(Below, Nat)
  BY NatLessThanWellFounded DEF OpToRel
<1> HIDE DEF Below
<1>2. PICK m \in S : \A y \in S : <<y, m>> \notin Below
  BY <1>1, WFMin
<1>3. ASSUME NEW y \in S PROVE m <= y
  <2>1. y \in Nat /\ m \in Nat
    OBVIOUS
  <2>2. ~(y < m)
    BY <1>2, <2>1 DEF Below
  <2> QED
    BY <2>1, <2>2
<1> QED
  BY <1>3, Zenon DEF Sets!Min

LEMMA Dividing ==
  ASSUME NEW a \in Int, NEW b \in Int, b > 0
  PROVE  /\ a \div b \in Int /\ a % b \in Int
         /\ a = b * (a \div b) + (a % b) /\ 0 <= a % b /\ a % b < b
  BY SMT

\* Factors and products are compared alike.
LEMMA Products ==
  ASSUME NEW a \in Int, NEW b \in Int, NEW c \in Int, c > 0
  PROVE  /\ a * c \in Int /\ b * c \in Int
         /\ a <= b <=> a * c <= b * c
         /\ a < b <=> a * c < b * c
         /\ a = b <=> a * c = b * c
  BY SMT

\* Two resolutions in lowest terms have the ratio they had; one that is a
\* multiple of the other becomes one.
LEMMA Lowest ==
  ASSUME NEW in \in Nat \ {0}, NEW out \in Nat \ {0}
  PROVE  /\ LowestTerms(in, out).in \in Nat \ {0}
         /\ LowestTerms(in, out).out \in Nat \ {0}
         /\ LowestTerms(in, out).in * out = LowestTerms(in, out).out * in
         /\ out % in = 0 => LowestTerms(in, out).in = 1
         /\ (2 * out) % in = 0 => LowestTerms(in, out).in <= 2
<1> DEFINE exact == {k \in 1..99 : (k * out) % in = 0}
<1>. /\ out % in = 0 => 1 \in exact
     /\ (2 * out) % in = 0 => 2 \in exact
  <2>1. 1 * out = out
    OBVIOUS
  <2> QED
    BY <2>1
<1>1. CASE exact = {}
  <2>1. LowestTerms(in, out) = [in |-> in, out |-> out]
    BY <1>1 DEF LowestTerms
  <2>2. out % in # 0 /\ (2 * out) % in # 0
    BY <1>1
  <2> QED
    BY <2>1, <2>2
<1>2. CASE exact # {}
  <2> DEFINE least == Sets!Min(exact)
  <2>1. least \in 1..99 /\ (least * out) % in = 0 /\ \A k \in exact : least <= k
    <3>1. exact \in SUBSET Nat
      OBVIOUS
    <3>2. least \in exact /\ \A k \in exact : least <= k
      BY <1>2, <3>1, LeastExists
    <3> QED
      BY <3>2
  <2>2. LowestTerms(in, out) = [in |-> least, out |-> (least * out) \div in]
    BY <1>2 DEF LowestTerms
  <2>3. /\ out % in = 0 => least <= 1
        /\ (2 * out) % in = 0 => least <= 2
    BY <2>1
  <2> HIDE DEF least, exact
  <2> DEFINE q == (least * out) \div in
  <2>5. q \in Int /\ least * out = in * q
    <3>1. least * out \in Int
      BY <2>1
    <3> QED
      BY <3>1, <2>1, Dividing
  <2>6. least * out > 0
    BY <2>1
  <2>7. q > 0
    BY <2>5, <2>6
  <2> QED
    BY <2>1, <2>2, <2>3, <2>5, <2>7
<1> QED
  BY <1>1, <1>2

\* How many lines of out fit between two of in, rounded up.
Ceiling(y) == (y.out + y.in - 1) \div y.in

LEMMA CeilingBounds ==
  ASSUME NEW in \in Nat \ {0}, NEW out \in Nat \ {0}
  PROVE  /\ Ceiling([in |-> in, out |-> out]) \in Nat \ {0}
         /\ out <= in * Ceiling([in |-> in, out |-> out])
         /\ in = 1 => Ceiling([in |-> in, out |-> out]) = out
<1> DEFINE c == (out + in - 1) \div in
<1>1. out + in - 1 = in * c + ((out + in - 1) % in) /\ c \in Int
      /\ 0 <= (out + in - 1) % in /\ (out + in - 1) % in < in
  BY Dividing
<1>2. out <= in * c
  BY <1>1
<1>3. c > 0
  BY <1>2
<1>4. in = 1 => c = out
  BY <1>1
<1> QED
  BY <1>1, <1>2, <1>3, <1>4 DEF Ceiling

\* A size rounded down to whole samples.
LEMMA Whole ==
  ASSUME NEW n \in Nat, NEW unit \in {4, 12}
  PROVE  RoundDown(n, unit) \in Nat
<1>1. n % unit <= n /\ n % unit \in Nat
  BY SMT
<1> QED
  BY <1>1 DEF RoundDown

-----------------------------------------------------------------------------
(* The inductive invariant.                                                *)

\* During a page of an interpolating job the count is that of the lines.
CountInv ==
  ~ended => /\ Open /\ count <= lines
            /\ Interpolates => count = lines

\* The planes counted are in the slot of the line being put together.
PlaneInv ==
  ~ended =>
    /\ job.colour # "RGB" => planes = 0
    /\ Interpolates =>
         /\ planes \in {1, 2} => slot[next]["R"] = lines + 1
         /\ planes = 2 => slot[next]["G"] = lines + 1

\* What WindowHolds says, also of the first lines; the oldest line gives way
\* to the planes of a new one.
Due(y) == count > 0 /\ count - 3 + y >= 0 /\ (y = 0 => planes = 0)

WindowInv ==
  Open /\ Interpolates /\ (~ended \/ lines > 0) =>
    /\ count = 0 => next = 0
    /\ \A y \in 0..3 : Due(y) => Fetch(slot, next, y) = Kept(count - 3 + y)

Inv == TypeOK /\ CountInv /\ PlaneInv /\ WindowInv

-----------------------------------------------------------------------------
(* The window turns.                                                       *)

\* The slot filled becomes the newest line, the others grow older by one.
LEMMA Turning ==
  ASSUME NEW at \in Slots
  PROVE  /\ After(at) \in Slots
         /\ (3 + After(at)) % WindowLines = at
         /\ (at + WindowLines - 1) % WindowLines = (3 + at) % WindowLines
         /\ \A y \in 0..2 : /\ (y + After(at)) % WindowLines = (y + 1 + at) % WindowLines
                            /\ (y + 1 + at) % WindowLines # at
         /\ \A y \in 0..3 : (y + at) % WindowLines \in Slots
  BY SMT DEF After, Slots, WindowLines

\* A push puts the line in its slot and leaves the others alone ...
LEMMA Pushing ==
  ASSUME NEW window \in [Slots -> [Planes -> Int]], NEW at \in Slots,
         NEW n \in Int, 0 < n, n < 65536, NEW content \in [Planes -> Int]
  PROVE  /\ Push(window, at, n, content) \in [Slots -> [Planes -> Int]]
         /\ Push(window, at, n, content)[at] = content
         /\ \A s \in Slots : s # at => Push(window, at, n, content)[s] = window[s]
<1>1. n % 65536 # 0
  BY SMT
<1>2. Push(window, at, n, content) = [window EXCEPT ![at] = content]
  BY <1>1 DEF Push
<1> QED
  BY <1>2

\* ... but the first line of a page goes to the last slot, too.
LEMMA PushingFirst ==
  ASSUME NEW window \in [Slots -> [Planes -> Int]], NEW content \in [Planes -> Int]
  PROVE  /\ Push(window, 0, 0, content) \in [Slots -> [Planes -> Int]]
         /\ Push(window, 0, 0, content)[0] = content
         /\ Push(window, 0, 0, content)[3] = AboveFirst(content)
<1> DEFINE placed == [window EXCEPT ![0] = content]
<1>1. AboveFirst(content) \in [Planes -> Int]
  BY DEF AboveFirst, Planes
<1>2. 0 \in Slots /\ 3 \in Slots /\ WindowLines - 1 = 3
  BY DEF Slots, WindowLines
<1>3. Push(window, 0, 0, content) = [placed EXCEPT ![3] = AboveFirst(content)]
  BY <1>2 DEF Push
<1>4. placed \in [Slots -> [Planes -> Int]] /\ placed[0] = content
  BY <1>2
<1> HIDE DEF placed
<1> QED
  BY <1>1, <1>2, <1>3, <1>4

\* A whole line, or the blue plane behind the other two, gives the line.
LEMMA Filling ==
  ASSUME NEW old \in [Planes -> Int], NEW n \in Int, NEW kind \in Kinds
  PROVE  /\ Fill(old, kind, n) \in [Planes -> Int]
         /\ kind = "whole" => Fill(old, kind, n) = Line(n)
         /\ kind = "B" /\ old["R"] = n /\ old["G"] = n => Fill(old, kind, n) = Line(n)
         /\ kind = "R" => Fill(old, kind, n)["R"] = n
         /\ kind = "G" => Fill(old, kind, n)["G"] = n /\ Fill(old, kind, n)["R"] = old["R"]
  BY DEF Fill, Kinds, Planes, Line

\* A push makes its line the newest, the others each one older.
LEMMA Advancing ==
  ASSUME NEW window \in [Slots -> [Planes -> Int]], NEW at \in Slots,
         NEW n \in Int, 0 < n, n < 65536, NEW content \in [Planes -> Int]
  PROVE  /\ Fetch(Push(window, at, n, content), After(at), 3) = content
         /\ \A y \in 0..2 :
              Fetch(Push(window, at, n, content), After(at), y) = Fetch(window, at, y + 1)
         /\ Newest(window, at) = Fetch(window, at, 3)
         /\ Fetch(window, at, 3) \in [Planes -> Int]
<1> DEFINE pushed == Push(window, at, n, content)
<1>1. pushed[at] = content /\ \A s \in Slots : s # at => pushed[s] = window[s]
  BY Pushing
<1> HIDE DEF pushed
<1>2. Fetch(pushed, After(at), 3) = content
  BY <1>1, Turning DEF Fetch
<1>3. ASSUME NEW y \in 0..2
      PROVE  Fetch(pushed, After(at), y) = Fetch(window, at, y + 1)
  <2>1. (y + 1 + at) % WindowLines \in Slots
    <3>1. y + 1 \in 0..3
      OBVIOUS
    <3> QED
      BY <3>1, Turning
  <2> QED
    BY <1>1, <2>1, Turning DEF Fetch
<1>4. Newest(window, at) = Fetch(window, at, 3)
  BY Turning DEF Newest, Fetch
<1>5. Fetch(window, at, 3) \in [Planes -> Int]
  BY Turning DEF Fetch
<1> QED
  BY <1>2, <1>3, <1>4, <1>5 DEF pushed

-----------------------------------------------------------------------------
(* The steps.                                                              *)

LEMMA Contents == \A n \in Int : Line(n) \in [Planes -> Int] /\ Packed(n) = Line(-n)
  BY DEF Line, Packed

\* Line i of a page of n so far.
PageLine(i, n, colour) ==
  IF i >= 1 THEN Line(IF i > n THEN n ELSE i)
  ELSE IF colour = "BW" THEN Packed(1) ELSE Line(1)

LEMMA PageLines ==
  ASSUME NEW i \in Int, NEW n \in Int, NEW colour, n >= 1
  PROVE  /\ i >= 1 /\ i <= n => PageLine(i, n, colour) = Line(i)
         /\ i > n => PageLine(i, n, colour) = Line(n)
         /\ i <= n => PageLine(i, n + 1, colour) = PageLine(i, n, colour)
         /\ PageLine(0, n, colour) = AboveFirst(Line(1)) \/ job.colour # colour
<1>1. AboveFirst(Line(1)) = IF job.colour = "BW" THEN Packed(1) ELSE Line(1)
  BY DEF AboveFirst, Line, Packed
<1>2. CASE i >= 1 /\ i <= n
  BY <1>1, <1>2 DEF PageLine
<1>3. CASE i > n
  BY <1>1, <1>3 DEF PageLine
<1>4. CASE i < 1
  BY <1>1, <1>4 DEF PageLine
<1> QED
  BY <1>2, <1>3, <1>4

LEMMA Blanks == Blank \in [Planes -> Int] /\ [s \in Slots |-> Blank] \in [Slots -> [Planes -> Int]]
  BY DEF Blank

LEMMA Limits == MaxLines \in Int /\ 0 <= MaxLines /\ MaxLines <= 65533 /\ 0 \in Slots
<1>1. 0 \in Slots
  BY DEF Slots, WindowLines
<1>2. MaxLines \in Int /\ 0 <= MaxLines /\ MaxLines <= 65533
  BY LinesAssumption
<1> QED
  BY <1>1, <1>2

LEMMA Starting == Init => Inv
<1> SUFFICES ASSUME Init PROVE Inv
  OBVIOUS
<1>1. TypeOK
  <2>1. slot \in [Slots -> [Planes -> Int]] /\ partial \in [Planes -> Int]
    BY Blanks DEF Init
  <2>2. job \in {NoJob} \cup {Setup(j) : j \in Jobs}
    BY DEF Init
  <2> QED
    BY <2>1, <2>2, Limits, SMT DEF Init, TypeOK
<1>2. CountInv /\ PlaneInv /\ WindowInv
  BY DEF Init, CountInv, PlaneInv, WindowInv
<1> QED
  BY <1>1, <1>2 DEF Inv

LEMMA InitStep == ASSUME Inv, NEW j \in Jobs, ChangeResoInit(j) PROVE Inv'
<1>1. TypeOK'
  <2>1. slot' \in [Slots -> [Planes -> Int]]
    BY Blanks DEF ChangeResoInit
  <2>2. job' \in {NoJob} \cup {Setup(i) : i \in Jobs}
    BY DEF ChangeResoInit
  <2>3. partial' = partial /\ next' = next /\ planes' = planes /\ count' = count
    BY DEF ChangeResoInit
  <2>4. lines' \in 0..MaxLines /\ armed' \in BOOLEAN /\ ended' \in BOOLEAN
    BY Limits, SMT DEF ChangeResoInit
  <2> QED
    BY <2>1, <2>2, <2>3, <2>4 DEF Inv, TypeOK
<1>2. ended' /\ lines' = 0
  BY DEF ChangeResoInit
<1> QED
  BY <1>1, <1>2 DEF Inv, CountInv, PlaneInv, WindowInv

LEMMA StartStep == ASSUME Inv, ChangeResoWriteStart PROVE Inv'
<1>1. TypeOK'
  <2>1. slot' \in [Slots -> [Planes -> Int]] /\ partial' \in [Planes -> Int]
    BY Blanks DEF ChangeResoWriteStart
  <2>2. job' = job /\ next' \in Slots /\ planes' \in 0..2
    BY Limits, SMT DEF ChangeResoWriteStart
  <2>3. lines' \in 0..MaxLines /\ count' \in 0..(MaxLines + 2)
    BY Limits, SMT DEF ChangeResoWriteStart
  <2>4. armed' \in BOOLEAN /\ ended' \in BOOLEAN
    BY DEF ChangeResoWriteStart, Interpolates, Inv, TypeOK
  <2> QED
    BY <2>1, <2>2, <2>3, <2>4 DEF Inv, TypeOK
<1>2. job' = job /\ Open /\ next' = 0 /\ count' = 0 /\ planes' = 0 /\ lines' = 0
  BY DEF ChangeResoWriteStart
<1>3. CountInv' /\ PlaneInv'
  BY <1>2 DEF CountInv, PlaneInv, Open, Interpolates
<1>4. WindowInv'
  BY <1>2 DEF WindowInv, Due
<1> QED
  BY <1>1, <1>3, <1>4 DEF Inv

\* A plane goes into the slot of the oldest line, which is due no longer.
LEMMA PlaneStep ==
  ASSUME Inv, NEW kind \in Kinds, Open, ~ended, InTurn(kind), FillPlane(kind)
  PROVE  Inv'
<1>1. /\ job' = job /\ next' = next /\ count' = count /\ lines' = lines
      /\ armed' = armed /\ ended' = ended /\ job.colour = "RGB"
  BY DEF FillPlane
<1>2. /\ kind \in Planes /\ planes' = planes + 1 /\ planes' \in {1, 2}
      /\ planes = 0 => kind = "R"
      /\ planes = 1 => kind = "G"
  BY DEF FillPlane, PlaneCount, InTurn, Kinds, Planes, Inv, TypeOK
<1>3. next \in Slots /\ lines + 1 \in Int /\ slot \in [Slots -> [Planes -> Int]]
      /\ partial \in [Planes -> Int]
  BY DEF Inv, TypeOK
<1>4. /\ Fill(slot[next], kind, lines + 1) \in [Planes -> Int]
      /\ Fill(partial, kind, lines + 1) \in [Planes -> Int]
      /\ kind = "R" => Fill(slot[next], kind, lines + 1)["R"] = lines + 1
      /\ kind = "G" => /\ Fill(slot[next], kind, lines + 1)["G"] = lines + 1
                       /\ Fill(slot[next], kind, lines + 1)["R"] = slot[next]["R"]
  BY <1>3, Filling
<1>5. TypeOK'
  <2>1. slot' \in [Slots -> [Planes -> Int]] /\ partial' \in [Planes -> Int]
    BY <1>3, <1>4 DEF FillPlane
  <2> QED
    BY <2>1, <1>1, <1>2 DEF Inv, TypeOK
<1>6. CountInv'
  BY <1>1 DEF Inv, CountInv, Open, Interpolates
<1>7. ASSUME Interpolates
      PROVE  /\ slot'[next] = Fill(slot[next], kind, lines + 1)
             /\ \A s \in Slots : s # next => slot'[s] = slot[s]
  BY <1>3, <1>7 DEF FillPlane
<1>8. PlaneInv'
  <2> SUFFICES ASSUME ~ended, Interpolates
               PROVE  /\ slot'[next]["R"] = lines + 1
                      /\ planes' = 2 => slot'[next]["G"] = lines + 1
    BY <1>1 DEF PlaneInv, Interpolates
  <2>1. planes = 0 \/ planes = 1
    BY <1>2 DEF Inv, TypeOK
  <2>2. CASE planes = 0
    BY <2>2, <1>2, <1>4, <1>7
  <2>3. CASE planes = 1
    <3>1. slot[next]["R"] = lines + 1
      BY <2>3 DEF Inv, PlaneInv
    <3> QED
      BY <2>3, <3>1, <1>2, <1>4, <1>7
  <2> QED
    BY <2>1, <2>2, <2>3
<1>9. WindowInv'
  <2> SUFFICES ASSUME Interpolates, Open
               PROVE  /\ count = 0 => next = 0
                      /\ \A y \in 0..3 : Due(y)' =>
                           Fetch(slot', next, y) = Kept(count - 3 + y)
    BY <1>1 DEF WindowInv, Interpolates, Open, Kept
  <2>1. ASSUME NEW y \in 0..3, Due(y)' PROVE Due(y) /\ y # 0
    BY <1>1, <1>2, <2>1 DEF Due
  <2>2. ASSUME NEW y \in 0..3, y # 0 PROVE Fetch(slot', next, y) = Fetch(slot, next, y)
    <3>1. (y + next) % WindowLines \in Slots /\ (y + next) % WindowLines # next
      BY <1>3, <2>2, SMT DEF Slots, WindowLines
    <3> QED
      BY <3>1, <1>7 DEF Fetch
  <2> QED
    BY <2>1, <2>2, <1>1 DEF Inv, WindowInv
<1> QED
  BY <1>5, <1>6, <1>8, <1>9 DEF Inv

\* What completes a line is put where it belongs, and is the whole line.
LEMMA InterpolateStep ==
  ASSUME Inv, NEW kind \in Kinds, Open, ~ended, lines < MaxLines, InTurn(kind),
         WriteInterpolated(kind)
  PROVE  Inv'
<1>1. /\ job' = job /\ next' = After(next) /\ count' = count + 1 /\ planes' = 0
      /\ lines' = lines + 1 /\ armed' = armed /\ ended' = ended /\ partial' = partial
      /\ Interpolates
  BY DEF WriteInterpolated
<1>2. /\ next \in Slots /\ lines \in 0..MaxLines /\ count = lines
      /\ slot \in [Slots -> [Planes -> Int]] /\ slot[next] \in [Planes -> Int]
      /\ lines + 1 \in Int
  <2>1. next \in Slots /\ lines \in 0..MaxLines /\ slot \in [Slots -> [Planes -> Int]]
    BY DEF Inv, TypeOK
  <2>2. count = lines
    BY <1>1 DEF Inv, CountInv
  <2>3. lines + 1 \in Int
    BY <2>1, Limits
  <2> QED
    BY <2>1, <2>2, <2>3
<1>3. Fill(slot[next], kind, lines + 1) = Line(lines + 1)
  <2>1. CASE kind = "whole"
    BY <2>1, <1>2, Filling
  <2>2. CASE kind # "whole"
    <3>1. kind \in Planes /\ job.colour = "RGB"
      BY <2>2 DEF InTurn, Kinds
    <3>2. planes + 1 > 2 /\ planes \in 0..2
      BY <3>1 DEF WriteInterpolated, Completes, PlaneCount, Inv, TypeOK
    <3>3. planes = 2 /\ kind = "B"
      BY <3>1, <3>2 DEF InTurn, Planes
    <3>4. slot[next]["R"] = lines + 1 /\ slot[next]["G"] = lines + 1
      BY <1>1, <3>3 DEF Inv, PlaneInv
    <3> QED
      BY <1>2, <3>3, <3>4, Filling
  <2> QED
    BY <2>1, <2>2
<1>4. slot' = Push(slot, next, lines, Line(lines + 1))
  <2>1. slot' = Push(slot, next, count, Fill(slot[next], kind, lines + 1))
    BY DEF WriteInterpolated
  <2> QED
    BY <2>1, <1>2, <1>3
<1>5. Line(lines + 1) \in [Planes -> Int]
  BY <1>2, Contents
<1>6. ASSUME lines > 0
      PROVE  slot' \in [Slots -> [Planes -> Int]] /\ WindowInv'
  <2>1. lines \in Int /\ 0 < lines /\ lines < 65536
    BY <1>2, <1>6, Limits
  <2>2. slot' \in [Slots -> [Planes -> Int]]
    BY <2>1, <1>2, <1>4, <1>5, Pushing
  <2>3. /\ Fetch(slot', next', 3) = Line(lines + 1)
        /\ \A y \in 0..2 : Fetch(slot', next', y) = Fetch(slot, next, y + 1)
    BY <2>1, <1>1, <1>2, <1>4, <1>5, Advancing
  <2>4. ASSUME NEW y \in 0..3, Due(y)'
        PROVE  Fetch(slot', next', y) = PageLine(lines - 2 + y, lines + 1, job.colour)
    <3>1. CASE y = 3
      <4>1. PageLine(lines + 1, lines + 1, job.colour) = Line(lines + 1)
        BY <2>1, PageLines
      <4> QED
        BY <4>1, <3>1, <2>1, <2>3
    <3>2. CASE y # 3
      <4>1. y \in 0..2 /\ y + 1 \in 0..3 /\ Due(y + 1)
        BY <3>2, <2>4, <2>1, <1>1, <1>2 DEF Due
      <4>2. Fetch(slot, next, y + 1) = Kept(count - 3 + (y + 1))
        BY <4>1, <1>1 DEF Inv, WindowInv
      <4>3. Kept(count - 3 + (y + 1)) = PageLine(lines - 2 + y, lines, job.colour)
        <5>1. count - 3 + (y + 1) = lines - 2 + y
          BY <4>1, <2>1, <1>2
        <5> QED
          BY <5>1 DEF Kept, PageLine
      <4>4. lines - 2 + y \in Int /\ lines - 2 + y <= lines
        BY <4>1, <2>1
      <4> QED
        BY <4>1, <4>2, <4>3, <4>4, <2>1, <2>3, PageLines
    <3> QED
      BY <3>1, <3>2
  <2>5. ASSUME NEW y \in 0..3, Due(y)'
        PROVE  Fetch(slot', next', y) = Kept(count - 3 + y)'
    <3>1. count' - 3 + y = lines - 2 + y
      BY <2>1, <1>1, <1>2
    <3>2. Kept(count - 3 + y)' = PageLine(count' - 3 + y, lines', job'.colour)
      BY DEF Kept, PageLine
    <3> QED
      BY <3>1, <3>2, <2>4, <2>5, <1>1
  <2>6. WindowInv'
    BY <2>5, <2>1, <1>1, <1>2 DEF WindowInv
  <2> QED
    BY <2>2, <2>6
<1>7. ASSUME lines = 0
      PROVE  slot' \in [Slots -> [Planes -> Int]] /\ WindowInv'
  <2>1. next = 0 /\ next' = 1
    BY <1>7, <1>1, <1>2 DEF Inv, WindowInv, After, WindowLines
  <2>2. /\ slot' \in [Slots -> [Planes -> Int]]
        /\ slot'[0] = Line(1) /\ slot'[3] = AboveFirst(Line(1))
    BY <2>1, <1>7, <1>2, <1>4, <1>5, PushingFirst
  <2>3. count' = 1 /\ lines' = 1
    BY <1>7, <1>1, <1>2
  <2>4. ASSUME NEW y \in 0..3, Due(y)'
        PROVE  Fetch(slot', next', y) = PageLine(y - 2, 1, job.colour)
    <3>1. y \in {2, 3}
      BY <2>3, <2>4 DEF Due
    <3>2. CASE y = 3
      <4>1. Fetch(slot', next', y) = slot'[0]
        BY <3>2, <2>1 DEF Fetch, WindowLines
      <4>2. PageLine(1, 1, job.colour) = Line(1) /\ y - 2 = 1
        BY <3>2, PageLines
      <4> QED
        BY <4>1, <4>2, <2>2
    <3>3. CASE y = 2
      <4>1. Fetch(slot', next', y) = slot'[3]
        BY <3>3, <2>1 DEF Fetch, WindowLines
      <4>2. PageLine(0, 1, job.colour) = AboveFirst(Line(1)) /\ y - 2 = 0
        BY <3>3, PageLines
      <4> QED
        BY <4>1, <4>2, <2>2
    <3> QED
      BY <3>1, <3>2, <3>3
  <2>5. ASSUME NEW y \in 0..3, Due(y)'
        PROVE  Fetch(slot', next', y) = Kept(count - 3 + y)'
    <3>1. count' - 3 + y = y - 2
      BY <2>3
    <3>2. Kept(count - 3 + y)' = PageLine(count' - 3 + y, lines', job'.colour)
      BY DEF Kept, PageLine
    <3> QED
      BY <3>1, <3>2, <2>3, <2>4, <2>5, <1>1
  <2>6. WindowInv'
    BY <2>3, <2>5, <1>1 DEF WindowInv
  <2> QED
    BY <2>2, <2>6
<1>8. slot' \in [Slots -> [Planes -> Int]] /\ WindowInv'
  BY <1>2, <1>6, <1>7
<1>9. TypeOK'
  <2>1. next' \in Slots
    BY <1>1, <1>2, Turning
  <2>2. lines' \in 0..MaxLines /\ count' \in 0..(MaxLines + 2) /\ planes' \in 0..2
    BY <1>1, <1>2, Limits
  <2> QED
    BY <1>1, <1>8, <2>1, <2>2 DEF Inv, TypeOK
<1>10. CountInv' /\ PlaneInv'
  BY <1>1, <1>2 DEF Inv, CountInv, PlaneInv, Open, Interpolates
<1> QED
  BY <1>8, <1>9, <1>10 DEF Inv

\* The other ways do not use the window.
LEMMA OtherSteps ==
  ASSUME Inv, NEW kind \in Kinds, Open, ~ended, lines < MaxLines,
         WriteRepeated(kind) \/ WriteCopy(kind)
  PROVE  Inv'
<1>1. /\ job' = job /\ slot' = slot /\ next' = next /\ armed' = armed /\ ended' = ended
      /\ lines' = lines + 1 /\ ~Interpolates
      /\ count' \in {count, count + 1} /\ planes' \in {planes, 0}
      /\ partial' \in {partial, Blank}
  BY DEF WriteRepeated, WriteCopy, Interpolates, Interpolating
<1>2. lines \in 0..MaxLines /\ count \in 0..(MaxLines + 2) /\ planes \in 0..2
      /\ partial \in [Planes -> Int] /\ count <= lines
  BY DEF Inv, TypeOK, CountInv
<1>3. TypeOK'
  <2>1. lines' \in 0..MaxLines /\ count' \in 0..(MaxLines + 2) /\ planes' \in 0..2
    BY <1>1, <1>2, Limits
  <2>2. partial' \in [Planes -> Int]
    BY <1>1, <1>2, Blanks
  <2> QED
    BY <2>1, <2>2, <1>1 DEF Inv, TypeOK
<1>4. CountInv'
  <2>1. count' <= lines'
    BY <1>1, <1>2, Limits
  <2> QED
    BY <2>1, <1>1 DEF CountInv, Open, Interpolates
<1>5. PlaneInv'
  BY <1>1 DEF Inv, PlaneInv, Interpolates
<1>6. WindowInv'
  BY <1>1 DEF WindowInv, Interpolates
<1> QED
  BY <1>3, <1>4, <1>5, <1>6 DEF Inv

\* At the end the newest line goes in twice more.
LEMMA EndStep == ASSUME Inv, Open, ~ended, ChangeResoWriteEnd PROVE Inv'
<1>1. job' = job /\ ended' = TRUE /\ lines' = lines
  BY DEF ChangeResoWriteEnd, EndWindow, EndNothing
<1>2. CountInv' /\ PlaneInv'
  BY <1>1 DEF CountInv, PlaneInv
<1>3. CASE EndNothing
  <2>1. slot' = slot /\ next' = next /\ count' = count /\ planes' = planes
        /\ armed' = armed /\ partial' = partial
    BY <1>3 DEF EndNothing
  <2>2. TypeOK'
    BY <1>1, <2>1 DEF Inv, TypeOK
  <2>3. WindowInv'
    BY <1>1, <2>1 DEF Inv, WindowInv, Open, Interpolates, Due, Kept
  <2> QED
    BY <1>2, <2>2, <2>3 DEF Inv
<1>4. CASE EndWindow
  <2> DEFINE once  == Push(slot, next, count, Newest(slot, next))
             twice == Push(once, After(next), count + 1, Newest(once, After(next)))
  <2>1. /\ count > 2 /\ slot' = twice /\ next' = After(After(next)) /\ count' = count + 2
        /\ planes' \in {planes, 0} /\ armed' = FALSE /\ partial' = partial
    BY <1>4 DEF EndWindow
  <2>2. /\ count \in Int /\ 0 < count /\ count + 1 < 65536 /\ count <= lines
        /\ lines \in 0..MaxLines /\ next \in Slots /\ After(next) \in Slots
        /\ slot \in [Slots -> [Planes -> Int]]
    <3>1. count \in 0..(MaxLines + 2) /\ count <= lines /\ lines \in 0..MaxLines
      BY DEF Inv, TypeOK, CountInv
    <3>2. next \in Slots /\ slot \in [Slots -> [Planes -> Int]]
      BY DEF Inv, TypeOK
    <3> QED
      BY <2>1, <3>1, <3>2, Limits, Turning
  <2>3. Newest(slot, next) = Fetch(slot, next, 3) /\ Newest(slot, next) \in [Planes -> Int]
    <3>1. Newest(slot, next) = Fetch(slot, next, 3)
      BY <2>2, Turning DEF Newest, Fetch
    <3>2. Fetch(slot, next, 3) \in [Planes -> Int]
      BY <2>2, Turning DEF Fetch
    <3> QED
      BY <3>1, <3>2
  <2>4. /\ once \in [Slots -> [Planes -> Int]]
        /\ Fetch(once, After(next), 3) = Fetch(slot, next, 3)
        /\ \A y \in 0..2 : Fetch(once, After(next), y) = Fetch(slot, next, y + 1)
    BY <2>2, <2>3, Pushing, Advancing
  <2> HIDE DEF once
  <2>5. /\ Newest(once, After(next)) = Fetch(slot, next, 3)
        /\ Newest(once, After(next)) \in [Planes -> Int]
    <3>1. Newest(once, After(next)) = Fetch(once, After(next), 3)
      BY <2>2, Turning DEF Newest, Fetch
    <3> QED
      BY <3>1, <2>3, <2>4
  <2>6. count + 1 \in Int /\ 0 < count + 1
    BY <2>2
  <2>7. /\ slot' \in [Slots -> [Planes -> Int]]
        /\ Fetch(slot', next', 3) = Fetch(slot, next, 3)
        /\ \A y \in 0..2 : Fetch(slot', next', y) = Fetch(once, After(next), y + 1)
    BY <2>1, <2>2, <2>4, <2>5, <2>6, Pushing, Advancing
  <2>8. TypeOK'
    <3>1. next' \in Slots
      BY <2>1, <2>2, Turning
    <3>2. count' \in 0..(MaxLines + 2)
      BY <2>1, <2>2, Limits
    <3>3. planes' \in 0..2
      BY <2>1 DEF Inv, TypeOK
    <3> QED
      BY <1>1, <2>1, <2>7, <3>1, <3>2, <3>3 DEF Inv, TypeOK
  <2>9. ASSUME Interpolates, NEW y \in 0..3
        PROVE  Fetch(slot', next', y) = PageLine(lines - 1 + y, lines, job.colour)
    <3>1. count = lines /\ lines \in Int /\ lines >= 3
      BY <2>9, <2>1, <2>2 DEF Inv, CountInv
    <3>2. ASSUME NEW z \in 1..3
          PROVE  Fetch(slot, next, z) = Line(lines - 3 + z)
      <4>1. z \in 0..3 /\ Due(z)
        BY <3>1 DEF Due
      <4>2. Fetch(slot, next, z) = Kept(count - 3 + z)
        BY <4>1, <2>9 DEF Inv, WindowInv
      <4>3. Kept(count - 3 + z) = PageLine(lines - 3 + z, lines, job.colour)
        BY <3>1 DEF Kept, PageLine
      <4>4. lines - 3 + z \in Int /\ lines - 3 + z >= 1 /\ lines - 3 + z <= lines
        BY <3>1
      <4> QED
        BY <3>1, <4>2, <4>3, <4>4, PageLines
    <3>3. Fetch(slot', next', y) = IF y = 0 THEN Line(lines - 1) ELSE Line(lines)
      <4>1. CASE y = 3
        BY <4>1, <3>1, <3>2, <2>7
      <4>2. CASE y = 2
        BY <4>2, <3>1, <3>2, <2>4, <2>7
      <4>3. CASE y = 1
        BY <4>3, <3>1, <3>2, <2>4, <2>7
      <4>4. CASE y = 0
        <5>1. 3 \in 1..3 /\ 2 \in 1..3 /\ lines - 3 + 2 = lines - 1
          BY <3>1
        <5> QED
          BY <4>4, <5>1, <3>2, <2>4, <2>7
      <4> QED
        BY <4>1, <4>2, <4>3, <4>4
    <3>4. PageLine(lines - 1 + y, lines, job.colour) =
            IF y = 0 THEN Line(lines - 1) ELSE Line(lines)
      <4>1. CASE y = 0
        BY <4>1, <3>1, PageLines
      <4>2. CASE y = 1
        BY <4>2, <3>1, PageLines
      <4>3. CASE y > 1
        BY <4>3, <3>1, PageLines
      <4> QED
        BY <4>1, <4>2, <4>3
    <3> QED
      BY <3>3, <3>4
  <2>10. WindowInv'
    <3> SUFFICES ASSUME Interpolates, Open
                 PROVE  /\ count' # 0
                        /\ \A y \in 0..3 : Fetch(slot', next', y) = Kept(count - 3 + y)'
      BY <1>1 DEF WindowInv, Interpolates, Open
    <3>1. count' # 0
      BY <2>1, <2>2
    <3>2. ASSUME NEW y \in 0..3 PROVE Fetch(slot', next', y) = Kept(count - 3 + y)'
      <4>1. Kept(count - 3 + y)' = PageLine(count' - 3 + y, lines', job'.colour)
        BY DEF Kept, PageLine
      <4>2. count' - 3 + y = lines - 1 + y
        BY <2>1, <2>2 DEF Inv, CountInv
      <4> QED
        BY <4>1, <4>2, <2>9, <1>1
    <3> QED
      BY <3>1, <3>2
  <2> QED
    BY <1>2, <2>8, <2>10 DEF Inv
<1> QED
  BY <1>3, <1>4 DEF ChangeResoWriteEnd

LEMMA CloseStep == ASSUME Inv, ChangeResoClose PROVE Inv'
<1>1. /\ job' = NoJob /\ ended' = TRUE /\ lines' = 0 /\ next' = next /\ count' = count
      /\ planes' = planes /\ armed' = armed /\ partial' = partial
      /\ slot' = [s \in Slots |-> Blank]
  BY DEF ChangeResoClose
<1>2. TypeOK'
  BY <1>1, Blanks, Limits DEF Inv, TypeOK
<1>3. ~Open'
  BY <1>1 DEF Open
<1>4. CountInv' /\ PlaneInv' /\ WindowInv'
  BY <1>1, <1>3 DEF CountInv, PlaneInv, WindowInv
<1> QED
  BY <1>2, <1>4 DEF Inv

-----------------------------------------------------------------------------
(* The theorems.                                                           *)

\* The inductive invariant holds in every reachable state, whatever jobs the
\* callers open and however they end their pages.
THEOREM Invariance == Spec => []Inv
<1>1. Init => Inv
  BY Starting
<1>2. Inv /\ [Next]_vars => Inv'
  <2> SUFFICES ASSUME Inv, [Next]_vars PROVE Inv'
    OBVIOUS
  <2>1. CASE \E j \in Jobs : ChangeResoInit(j)
    BY <2>1, InitStep
  <2>2. CASE ChangeResoWriteStart
    BY <2>2, StartStep
  <2>3. CASE \E kind \in Kinds : ChangeResoWrite(kind)
    <3>1. PICK kind \in Kinds : ChangeResoWrite(kind)
      BY <2>3
    <3>2. /\ Open /\ ~ended /\ lines < MaxLines /\ InTurn(kind)
          /\ FillPlane(kind) \/ WriteInterpolated(kind)
               \/ WriteRepeated(kind) \/ WriteCopy(kind)
      BY <3>1 DEF ChangeResoWrite
    <3> QED
      BY <3>2, PlaneStep, InterpolateStep, OtherSteps
  <2>4. CASE ChangeResoWriteEnd
    BY <2>4, EndStep DEF ChangeResoWriteEnd
  <2>5. CASE ChangeResoClose
    BY <2>5, CloseStep
  <2>6. CASE UNCHANGED vars
    BY <2>6 DEF vars, Inv, TypeOK, CountInv, PlaneInv, WindowInv, Open, Interpolates,
                Due, Kept, Fetch
  <2> QED
    BY <2>1, <2>2, <2>3, <2>4, <2>5, <2>6 DEF Next
<1> QED
  BY <1>1, <1>2, PTL DEF Spec

\* The types of the window, of its indices and counters.
THEOREM Types == Spec => []TypeOK
<1>1. Inv => TypeOK
  BY DEF Inv
<1> QED
  BY <1>1, Invariance, PTL

\* Whenever lines can be made, the window holds the four lines around their
\* place on the page, in order, with the first line above the page and the
\* last one below it.
THEOREM Window == Spec => []WindowHolds
<1>1. Inv => WindowHolds
  <2> SUFFICES ASSUME Inv, Open, Interpolates, lines > 0, planes = 0, count > 2,
                      NEW y \in 0..3
               PROVE  Fetch(slot, next, y) = Kept(count - 3 + y)
    BY DEF WindowHolds
  <2>1. Due(y)
    BY DEF Due, Inv, TypeOK
  <2> QED
    BY <2>1 DEF Inv, WindowInv
<1> QED
  BY <1>1, Invariance, PTL
-----------------------------------------------------------------------------
(* A call writes what it was told to make room for.                        *)

\* The lines that lie on one line of the device are no more than that.
LEMMA Counted ==
  ASSUME NEW in \in Nat \ {0}, NEW out \in Nat \ {0}, NEW m \in Int
  PROVE  LET on == {j \in 0..(out - 1) : (j * in) \div out = m}
         IN  /\ Cardinality(on) \in Nat
             /\ Cardinality(on) <= Ceiling([in |-> in, out |-> out])
<1> DEFINE on == {j \in 0..(out - 1) : (j * in) \div out = m}
           c  == Ceiling([in |-> in, out |-> out])
<1>1. c \in Nat \ {0} /\ out <= in * c
  BY CeilingBounds
<1> HIDE DEF c
<1>2. CASE on = {}
  <2>1. Cardinality(on) = 0
    BY <1>2, FS_EmptySet
  <2> QED
    BY <1>1, <2>1 DEF c
<1>3. CASE on # {}
  <2>1. on \in SUBSET Nat
    OBVIOUS
  <2> DEFINE f == Sets!Min(on)
  <2>2. f \in on /\ \A j \in on : f <= j
    BY <1>3, <2>1, LeastExists
  <2>3. f \in Nat /\ (f * in) \div out = m
    BY <2>2
  <2> HIDE DEF f
  <2>4. ASSUME NEW j \in on PROVE j \in f..(f + c - 1)
    <3>1. j \in Nat /\ (j * in) \div out = m /\ f <= j
      BY <2>2
    <3>2. /\ j * in \in Int /\ f * in \in Int
          /\ j * in = out * m + ((j * in) % out) /\ (j * in) % out \in Int
          /\ (j * in) % out < out
          /\ f * in = out * m + ((f * in) % out) /\ (f * in) % out \in Int
          /\ 0 <= (f * in) % out
      BY <2>3, <3>1, Dividing
    <3>3. j * in - f * in < out
      BY <3>2
    <3>4. (j - f) * in < c * in
      BY <1>1, <2>3, <3>1, <3>3
    <3>5. j - f < c
      BY <1>1, <2>3, <3>1, <3>4, Products
    <3> QED
      BY <1>1, <2>3, <3>1, <3>5
  <2>5. on \in SUBSET (f..(f + c - 1))
    BY <2>4
  <2> HIDE DEF on
  <2>6. IsFiniteSet(f..(f + c - 1)) /\ Cardinality(f..(f + c - 1)) = c
    BY <1>1, <2>3, FS_Interval
  <2>7. IsFiniteSet(on) /\ Cardinality(on) <= c
    BY <2>5, <2>6, FS_Subset
  <2>8. Cardinality(on) \in Nat
    BY <2>7, FS_CardinalityType
  <2> QED
    BY <2>7, <2>8 DEF on, c
<1> QED
  BY <1>2, <1>3

\* What a job is known by: positive ratios, and room in the caller's buffer.
Roomy(p) ==
  /\ p.y.in \in Nat \ {0} /\ p.y.out \in Nat \ {0} /\ p.outBytes \in Nat
  /\ p.y = [in |-> p.y.in, out |-> p.y.out]
  /\ p.writeMax = Ceiling(p.y) * p.outBytes * (IF p.way \in Interpolating THEN 2 ELSE 1)
  /\ p.way = "multiply" => p.y.out <= Ceiling(p.y)

LEMMA BytesOfLine ==
  ASSUME NEW j \in Jobs, NEW x, x.in \in Nat \ {0}, x.out \in Nat \ {0}
  PROVE  OutBytes(j, x) \in Nat
<1>1. PlainBytes(j) \in Nat
  BY JobsAssumption DEF PlainBytes
<1>2. (x.out * PlainBytes(j)) \div x.in \in Nat
  <2>1. x.out * PlainBytes(j) \in Nat
    BY <1>1
  <2> HIDE DEF PlainBytes
  <2> QED
    BY <2>1, Dividing
<1> QED
  BY <1>2, Whole DEF OutBytes

LEMMA JobHasRoom ==
  ASSUME NEW j \in Jobs
  PROVE  Roomy(Setup(j))
<1> DEFINE x == LowestTerms(j.inX, j.outX)
           y == LowestTerms(j.inY, j.outY)
<1>1. /\ j.inX \in Nat \ {0} /\ j.outX \in Nat \ {0}
      /\ j.inY \in Nat \ {0} /\ j.outY \in Nat \ {0}
  BY JobsAssumption
<1>2. /\ x.in \in Nat \ {0} /\ x.out \in Nat \ {0}
      /\ y.in \in Nat \ {0} /\ y.out \in Nat \ {0} /\ y.in * j.outY = y.out * j.inY
      /\ j.outY % j.inY = 0 => y.in = 1
      /\ (2 * j.outY) % j.inY = 0 => y.in <= 2
  BY <1>1, Lowest
<1>3. y = [in |-> y.in, out |-> y.out]
  BY DEF LowestTerms
<1>4. /\ Setup(j).y = y /\ Setup(j).outBytes = OutBytes(j, x)
      /\ Setup(j).way = Way(j, x, y) /\ Setup(j).writeMax = WriteMaxSize(j, x, y)
  BY DEF Setup
<1> HIDE DEF x, y
<1>5. OutBytes(j, x) \in Nat
  BY <1>2, BytesOfLine
<1>6. ASSUME Way(j, x, y) = "multiply"
      PROVE  y.out <= Ceiling(y)
  <2>1. SimpleRatio(y) # 0
    BY <1>6 DEF Way, Select, Interpolation
  <2>2. CASE \E n \in 1..4 : y.out = n * y.in
    <3>1. PICK n \in 1..4 : y.out = n * y.in
      BY <2>2
    <3>2. j.outY * y.in = (n * j.inY) * y.in
      BY <1>1, <1>2, <3>1
    <3>3. j.outY = n * j.inY
      <4>1. n * j.inY \in Int /\ j.outY \in Int /\ y.in \in Int /\ y.in > 0
        BY <1>1, <1>2
      <4> QED
        BY <3>2, <4>1, Products
    <3>4. j.outY % j.inY = 0
      BY <1>1, <3>3
    <3> QED
      BY <1>2, <1>3, <3>4, CeilingBounds
  <2>3. CASE ~\E n \in 1..4 : y.out = n * y.in
    <3>1. 2 * y.out = y.in
      BY <2>1, <2>3 DEF SimpleRatio
    <3>2. y.out * (2 * j.outY) = y.out * j.inY
      BY <1>1, <1>2, <3>1
    <3>3. 2 * j.outY = j.inY
      BY <1>1, <1>2, <3>2
    <3>4. y.in <= 2
      BY <1>1, <1>2, <3>3
    <3>5. y.out = 1
      BY <1>2, <3>1, <3>4
    <3> QED
      BY <1>2, <1>3, <3>5, CeilingBounds
  <2> QED
    BY <2>2, <2>3
<1> QED
  BY <1>2, <1>3, <1>4, <1>5, <1>6 DEF Roomy, WriteMaxSize, Ceiling

LEMMA Sequence ==
  ASSUME NEW n \in Nat, NEW f, f = [k \in 1..n |-> f[k]]
  PROVE  f \in Seq({f[k] : k \in 1..n}) /\ Len(f) = n
<1>1. f \in [1..n -> {f[k] : k \in 1..n}]
  OBVIOUS
<1> QED
  BY <1>1

\* No more lines are made at once than there is room for; the end of a page
\* makes lines twice.
LEMMA MadeAtOnce ==
  ASSUME Open, Roomy(job), NEW n \in Nat, NEW window, NEW at
  PROVE  /\ \E S : Interpolated(window, at, n) \in Seq(S)
         /\ Len(Interpolated(window, at, n)) \in Nat
         /\ Len(Interpolated(window, at, n)) <= Ceiling(job.y)
<1>1. Moved(n) \in Int
  BY Dividing DEF Roomy, Moved
<1>2. Number(n) \in Nat /\ Number(n) <= Ceiling(job.y)
  BY <1>1, Counted DEF Roomy, Number
<1>3. Ceiling(job.y) \in Nat
  BY CeilingBounds DEF Roomy
<1>4. CASE n <= 2
  <2>1. Interpolated(window, at, n) = <<>>
    BY <1>4 DEF Interpolated
  <2>2. <<>> \in Seq({}) /\ Len(<<>>) = 0
    OBVIOUS
  <2> QED
    BY <2>1, <2>2, <1>3
<1>5. CASE ~(n <= 2)
  <2> DEFINE f == Interpolated(window, at, n)
  <2>1. f = [k \in 1..Number(n) |-> f[k]]
    BY <1>5, <1>2 DEF Interpolated
  <2> HIDE DEF f
  <2>2. f \in Seq({f[k] : k \in 1..Number(n)}) /\ Len(f) = Number(n)
    BY <2>1, <1>2, Sequence
  <2> QED
    BY <2>2, <1>2 DEF f
<1> QED
  BY <1>4, <1>5

\* What is left to say of the caller's buffer: only a job that interpolates
\* is armed for the end of a page.
RoomInv ==
  /\ Open => Roomy(job)
  /\ Open /\ armed => Interpolates
  /\ wrote \in Nat
  /\ WriteFits

LEMMA RoomFor ==
  ASSUME Open, Roomy(job), NEW k \in Nat,
         k <= Ceiling(job.y) * (IF Interpolates THEN 2 ELSE 1)
  PROVE  k * job.outBytes <= job.writeMax
<1>1. Ceiling(job.y) \in Nat /\ job.outBytes \in Nat
  BY CeilingBounds DEF Roomy
<1>2. CASE Interpolates
  BY <1>1, <1>2 DEF Roomy, Interpolates
<1>3. CASE ~Interpolates
  BY <1>1, <1>3 DEF Roomy, Interpolates
<1> QED
  BY <1>2, <1>3

\* A call that goes on with the job and writes k lines.
LEMMA WritesLines ==
  ASSUME RoomInv, Open, NEW new, Len(new) \in Nat, Deliver(new), job' = job,
         armed' => armed \/ Interpolates,
         Len(new) <= Ceiling(job.y) * (IF Interpolates THEN 2 ELSE 1)
  PROVE  RoomInv'
<1>1. Len(new) * job.outBytes <= job.writeMax
  BY RoomFor DEF RoomInv
<1> QED
  BY <1>1 DEF RoomInv, Deliver, WriteFits, Open, Interpolates

LEMMA RoomWrite ==
  ASSUME Inv, RoomInv, NEW kind \in Kinds, ChangeResoWrite(kind)
  PROVE  RoomInv'
<1>1. Open /\ Roomy(job) /\ Ceiling(job.y) \in Nat \ {0} /\ count \in Nat
  <2>1. Open /\ Roomy(job)
    BY DEF ChangeResoWrite, RoomInv
  <2>2. count \in Nat
    BY LinesAssumption DEF Inv, TypeOK
  <2> QED
    BY <2>1, <2>2, CeilingBounds DEF Roomy
<1>2. CASE FillPlane(kind)
  BY <1>1, <1>2, WritesLines DEF FillPlane
<1>3. CASE WriteInterpolated(kind)
  <2>1. Len(Interpolated(slot', next', count')) \in Nat
        /\ Len(Interpolated(slot', next', count')) <= Ceiling(job.y)
    BY <1>1, <1>3, MadeAtOnce DEF WriteInterpolated
  <2> QED
    BY <1>1, <1>3, <2>1, WritesLines DEF WriteInterpolated
<1>4. CASE WriteRepeated(kind)
  <2>1. /\ Len(Repeated(Line(lines + 1), count)) \in Nat
        /\ Len(Repeated(Line(lines + 1), count)) <= Ceiling(job.y)
    BY <1>1, <1>4 DEF WriteRepeated, Repeated, Roomy
  <2> QED
    BY <1>1, <1>4, <2>1, WritesLines DEF WriteRepeated
<1>5. CASE WriteCopy(kind)
  <2> DEFINE new == <<[phase |-> 0, rows |-> <<Fill(partial, kind, lines + 1)>>]>>
  <2>1. Len(new) = 1
    OBVIOUS
  <2>2. Deliver(new) /\ job' = job /\ armed' = armed
    BY <1>5 DEF WriteCopy
  <2> HIDE DEF new
  <2>3. Len(new) \in Nat /\ Len(new) <= Ceiling(job.y) * (IF Interpolates THEN 2 ELSE 1)
    BY <1>1, <2>1
  <2> QED
    BY <1>1, <2>2, <2>3, WritesLines
<1> QED
  BY <1>2, <1>3, <1>4, <1>5 DEF ChangeResoWrite

LEMMA RoomEnd ==
  ASSUME Inv, RoomInv, ChangeResoWriteEnd
  PROVE  RoomInv'
<1>1. Open /\ Roomy(job) /\ Ceiling(job.y) \in Nat \ {0} /\ count \in Nat
  <2>1. Open /\ Roomy(job)
    BY DEF ChangeResoWriteEnd, RoomInv
  <2>2. count \in Nat
    BY LinesAssumption DEF Inv, TypeOK
  <2> QED
    BY <2>1, <2>2, CeilingBounds DEF Roomy
<1>2. CASE EndWindow
  <2> DEFINE once   == Push(slot, next, count, Newest(slot, next))
             twice  == Push(once, After(next), count + 1, Newest(once, After(next)))
             first  == Interpolated(once, After(next), count + 1)
             second == Interpolated(twice, After(After(next)), count + 2)
  <2>1. /\ Deliver(first \o second) /\ job' = job /\ ~armed' /\ Interpolates
    BY <1>1, <1>2 DEF EndWindow, RoomInv
  <2>2. /\ Len(first) \in Nat /\ Len(first) <= Ceiling(job.y)
        /\ Len(second) \in Nat /\ Len(second) <= Ceiling(job.y)
    BY <1>1, MadeAtOnce
  <2>3. \E S : first \in Seq(S) /\ second \in Seq(S)
    <3>1. PICK S : first \in Seq(S)
      BY <1>1, MadeAtOnce
    <3>2. PICK T : second \in Seq(T)
      BY <1>1, MadeAtOnce
    <3> HIDE DEF first, second
    <3>3. first \in Seq(S \cup T) /\ second \in Seq(S \cup T)
      BY <3>1, <3>2
    <3> QED
      BY <3>3
  <2> HIDE DEF first, second
  <2>4. Len(first \o second) = Len(first) + Len(second)
    BY <2>3
  <2>5. /\ Len(first \o second) \in Nat
        /\ Len(first \o second) <= Ceiling(job.y) * (IF Interpolates THEN 2 ELSE 1)
    BY <1>1, <2>1, <2>2, <2>4
  <2> QED
    BY <1>1, <2>1, <2>5, WritesLines
<1>3. CASE EndNothing
  BY <1>1, <1>3, WritesLines DEF EndNothing
<1> QED
  BY <1>2, <1>3 DEF ChangeResoWriteEnd

LEMMA RoomInductive ==
  ASSUME Inv, RoomInv, [Next]_vars
  PROVE  RoomInv'
<1>1. CASE \E j \in Jobs : ChangeResoInit(j)
  <2>1. PICK j \in Jobs : ChangeResoInit(j)
    BY <1>1
  <2>2. wrote' = 0 /\ ~armed' /\ job' \in {NoJob, Setup(j)}
    BY <2>1 DEF ChangeResoInit
  <2>3. Open' => Roomy(job')
    BY <2>2, JobHasRoom DEF Open
  <2>4. Open' => 0 * job'.outBytes <= job'.writeMax
    <3>1. ASSUME Roomy(job') PROVE 0 * job'.outBytes <= job'.writeMax
      <4>1. Ceiling(job'.y) \in Nat /\ job'.outBytes \in Nat
        BY <3>1, CeilingBounds DEF Roomy
      <4>2. Ceiling(job'.y) * job'.outBytes \in Nat
        BY <4>1
      <4>3. job'.writeMax \in Nat
        BY <3>1, <4>2 DEF Roomy
      <4> QED
        BY <4>1, <4>3
    <3> QED
      BY <2>3, <3>1
  <2> QED
    BY <2>2, <2>3, <2>4 DEF RoomInv, WriteFits
<1>2. CASE ChangeResoWriteStart
  <2>1. Open /\ job' = job /\ wrote' = 0 /\ (armed' => armed \/ Interpolates)
    BY <1>2 DEF ChangeResoWriteStart
  <2>2. 0 <= job.writeMax
    BY <2>1, CeilingBounds DEF RoomInv, Roomy
  <2> QED
    BY <2>1, <2>2 DEF RoomInv, WriteFits, Open, Interpolates, Roomy
<1>3. CASE \E kind \in Kinds : ChangeResoWrite(kind)
  BY <1>3, RoomWrite
<1>4. CASE ChangeResoWriteEnd
  BY <1>4, RoomEnd
<1>5. CASE ChangeResoClose
  BY <1>5 DEF ChangeResoClose, RoomInv, WriteFits, Open
<1>6. CASE UNCHANGED vars
  BY <1>6 DEF vars, RoomInv, WriteFits, Open, Interpolates
<1> QED
  BY <1>1, <1>2, <1>3, <1>4, <1>5, <1>6 DEF Next

\* No call writes more bytes than the caller was told to make room for,
\* whatever the ratio of the resolutions: the lines made of one line of the
\* device are counted, not measured on examples.
THEOREM WritesFit == Spec => []WriteFits
<1>1. Init => RoomInv
  BY DEF Init, RoomInv, WriteFits, Open
<1>2. Inv /\ RoomInv /\ [Next]_vars => RoomInv'
  BY RoomInductive
<1>3. RoomInv => WriteFits
  BY DEF RoomInv
<1> QED
  BY <1>1, <1>2, <1>3, Invariance, PTL DEF Spec

-----------------------------------------------------------------------------
(* Division, rounded up and down.                                          *)

Up(a, b) == (a + b - 1) \div b

LEMMA RoundedUp ==
  ASSUME NEW a \in Int, NEW b \in Nat \ {0}
  PROVE  /\ Up(a, b) \in Int
         /\ \A k \in Int : k < Up(a, b) <=> k * b < a
<1> DEFINE u == Up(a, b)
<1>1. u \in Int /\ b * u <= a + b - 1 /\ a + b - 1 < b * u + b
  <2>1. a + b - 1 \in Int
    OBVIOUS
  <2> QED
    BY <2>1, Dividing DEF Up
<1> HIDE DEF u
<1>2. u * b = b * u /\ (u - 1) * b = b * u - b /\ u * b \in Int
  BY <1>1
<1>3. ASSUME NEW k \in Int PROVE k < u <=> k * b < a
  <2>1. k <= u - 1 => k * b <= (u - 1) * b
    BY <1>1, Products
  <2>2. u <= k => u * b <= k * b
    BY <1>1, Products
  <2>3. k * b \in Int
    OBVIOUS
  <2> QED
    BY <1>1, <1>2, <2>1, <2>2, <2>3
<1> QED
  BY <1>1, <1>3 DEF u

LEMMA RoundedDown ==
  ASSUME NEW a \in Int, NEW b \in Nat \ {0}
  PROVE  /\ a \div b \in Int
         /\ \A k \in Int : k <= a \div b <=> k * b <= a
<1> DEFINE d == a \div b
<1>1. d \in Int /\ b * d <= a /\ a < b * d + b
  BY Dividing
<1> HIDE DEF d
<1>2. d * b = b * d /\ (d + 1) * b = b * d + b /\ d * b \in Int
  BY <1>1
<1>3. ASSUME NEW k \in Int PROVE k <= d <=> k * b <= a
  <2>1. k <= d => k * b <= d * b
    BY <1>1, Products
  <2>2. d + 1 <= k => (d + 1) * b <= k * b
    BY <1>1, Products
  <2>3. k * b \in Int
    OBVIOUS
  <2> QED
    BY <1>1, <1>2, <2>1, <2>2, <2>3
<1> QED
  BY <1>1, <1>3 DEF d

\* Whole parts come out of both.
LEMMA Shifted ==
  ASSUME NEW a \in Int, NEW b \in Nat \ {0}, NEW c \in Int
  PROVE  /\ Up(c * b + a, b) = c + Up(a, b)
         /\ (c * b + a) \div b = c + (a \div b)
<1> DEFINE s == c * b + a
<1>1. s \in Int
  OBVIOUS
<1>2. \A k \in Int : (k - c) * b = k * b - c * b /\ k * b \in Int /\ c * b \in Int
  OBVIOUS
<1>3. \A k \in Int : /\ (k - c) * b < a <=> k * b < s
                     /\ (k - c) * b <= a <=> k * b <= s
  BY <1>2
<1> HIDE DEF s
<1>4. Up(s, b) = c + Up(a, b)
  <2> DEFINE u == Up(s, b)  v == Up(a, b)
  <2>1. u \in Int /\ v \in Int /\ \A k \in Int : k < u <=> k * b < s
    BY <1>1, RoundedUp
  <2>2. \A k \in Int : k - c < v <=> (k - c) * b < a
    BY RoundedUp
  <2> HIDE DEF u, v
  <2>3. \A k \in Int : k < u <=> k - c < v
    BY <1>3, <2>1, <2>2
  <2>4. ~(u < u) /\ u - 1 < u /\ c + v \in Int
    BY <2>1
  <2>5. ~(u - c < v) /\ u - 1 - c < v
    BY <2>1, <2>3, <2>4
  <2> QED
    BY <2>1, <2>5 DEF u, v
<1>5. s \div b = c + (a \div b)
  <2> DEFINE u == s \div b  v == a \div b
  <2>1. u \in Int /\ v \in Int /\ \A k \in Int : k <= u <=> k * b <= s
    BY <1>1, RoundedDown
  <2>2. \A k \in Int : k - c <= v <=> (k - c) * b <= a
    BY RoundedDown
  <2> HIDE DEF u, v
  <2>3. \A k \in Int : k <= u <=> k - c <= v
    BY <1>3, <2>1, <2>2
  <2>5. u - c <= v /\ ~(u + 1 - c <= v)
    BY <2>1, <2>3
  <2> QED
    BY <2>1, <2>5 DEF u, v
<1> QED
  BY <1>4, <1>5 DEF s

-----------------------------------------------------------------------------
(* Lines made at a place on the page.                                      *)

\* The lines that lie on line r of the first in of the device come one after
\* another.
LEMMA Consecutive ==
  ASSUME NEW in \in Nat \ {0}, NEW out \in Nat \ {0}, NEW r \in Nat, r < in
  PROVE  LET from == Up(r * out, in)
             upTo == Up((r + 1) * out, in)
         IN  /\ from \in Nat /\ upTo \in Nat /\ from <= upTo /\ upTo <= out
             /\ \A j \in from..(upTo - 1) : (j * in) \div out = r /\ r * out <= j * in
                                            /\ j * in < (r + 1) * out
             /\ Cardinality({j \in 0..(out - 1) : (j * in) \div out = r}) = upTo - from
<1> DEFINE from == Up(r * out, in)
           upTo == Up((r + 1) * out, in)
<1>1. /\ r * out \in Nat /\ (r + 1) * out \in Nat /\ (r + 1) * out = r * out + out
      /\ (r + 1) * out <= in * out /\ in * out = out * in
  <2>1. r * out \in Nat /\ (r + 1) * out = r * out + out
    OBVIOUS
  <2>2. (r + 1) * out <= in * out
    BY Products
  <2> QED
    BY <2>1, <2>2
<1>2. from \in Int /\ \A k \in Int : k < from <=> k * in < r * out
  BY <1>1, RoundedUp
<1>3. upTo \in Int /\ \A k \in Int : k < upTo <=> k * in < (r + 1) * out
  BY <1>1, RoundedUp
<1> HIDE DEF from, upTo
<1>4. 0 <= from
  <2>1. ~(from * in < r * out)
    BY <1>2
  <2>2. from * in >= 0 * in /\ from * in \in Int
    BY <1>1, <1>2, <2>1
  <2> QED
    BY <1>2, <2>2, Products
<1>5. from <= upTo
  <2>1. ~(upTo * in < (r + 1) * out) /\ upTo * in \in Int
    BY <1>3
  <2>2. ~(upTo * in < r * out)
    BY <1>1, <2>1
  <2> QED
    BY <1>2, <1>3, <2>2
<1>6. upTo <= out
  <2>1. ~(out * in < (r + 1) * out)
    BY <1>1
  <2> QED
    BY <1>3, <2>1
<1>7. ASSUME NEW j \in Int
      PROVE  /\ (j * in) \div out = r <=> j \in from..(upTo - 1)
             /\ j \in from..(upTo - 1) => r * out <= j * in /\ j * in < (r + 1) * out
  <2> DEFINE d == (j * in) \div out
  <2>1. j * in \in Int
    OBVIOUS
  <2>2. d \in Int /\ \A k \in Int : k <= d <=> k * out <= j * in
    BY <2>1, RoundedDown
  <2> HIDE DEF d
  <2>3. d = r <=> r <= d /\ ~(r + 1 <= d)
    BY <2>2
  <2>4. d = r <=> r * out <= j * in /\ j * in < (r + 1) * out
    BY <1>1, <2>1, <2>2, <2>3
  <2>5. /\ j < from <=> j * in < r * out
        /\ j < upTo <=> j * in < (r + 1) * out
    BY <1>2, <1>3
  <2>6. j \in from..(upTo - 1) <=> ~(j < from) /\ j < upTo
    BY <1>2, <1>3
  <2>7. ~(j * in < r * out) <=> r * out <= j * in
    BY <1>1, <2>1
  <2> QED
    BY <2>4, <2>5, <2>6, <2>7 DEF d
<1>8. {j \in 0..(out - 1) : (j * in) \div out = r} = from..(upTo - 1)
  <2>1. \A j \in from..(upTo - 1) : j \in 0..(out - 1)
    BY <1>2, <1>3, <1>4, <1>6
  <2>2. \A j \in 0..(out - 1) : j \in Int
    OBVIOUS
  <2>3. \A j \in from..(upTo - 1) : j \in Int
    OBVIOUS
  <2> QED
    BY <1>7, <2>1, <2>2, <2>3
<1>9. Cardinality(from..(upTo - 1)) = upTo - from
  <2>1. upTo - 1 \in Int
    BY <1>3
  <2>2. Cardinality(from..(upTo - 1)) = IF from > upTo - 1 THEN 0 ELSE (upTo - 1) - from + 1
    BY <1>2, <2>1, FS_Interval
  <2> QED
    BY <1>2, <1>3, <1>5, <2>2
<1>10. \A j \in from..(upTo - 1) : (j * in) \div out = r /\ r * out <= j * in
                                   /\ j * in < (r + 1) * out
  <2>1. \A j \in from..(upTo - 1) : j \in Int
    OBVIOUS
  <2> QED
    BY <1>7, <2>1
<1>11. from \in Nat /\ upTo \in Nat
  BY <1>2, <1>3, <1>4, <1>5
<1> QED
  BY <1>5, <1>6, <1>8, <1>9, <1>10, <1>11, Zenon DEF from, upTo

\* Line m of the device lies in a group of in, for which out lines are made.
LEMMA Grouping ==
  ASSUME NEW in \in Nat \ {0}, NEW out \in Nat \ {0}, NEW m \in Nat
  PROVE  /\ m % in \in Nat /\ m % in < in /\ m \div in \in Nat
         /\ m = (m \div in) * in + (m % in)
         /\ Up(m * out, in) = (m \div in) * out + Up((m % in) * out, in)
         /\ Up((m + 1) * out, in) = (m \div in) * out + Up(((m % in) + 1) * out, in)
<1> DEFINE r == m % in
           q == m \div in
<1>1. q \in Nat /\ r \in Nat /\ r < in /\ m = q * in + r
  <2>1. q \in Int /\ r \in Int /\ m = in * q + r /\ 0 <= r /\ r < in
    BY Dividing
  <2> HIDE DEF q, r
  <2>2. in * (q + 1) > 0 /\ in * q = q * in
    BY <2>1
  <2>3. q + 1 > 0
    BY <2>1, <2>2
  <2> QED
    BY <2>1, <2>2, <2>3
<1> HIDE DEF q, r
<1>2. /\ m * out = (q * out) * in + r * out
      /\ (m + 1) * out = (q * out) * in + (r + 1) * out
      /\ q * out \in Int /\ r * out \in Int /\ (r + 1) * out \in Int
  <2>1. (q * in + r) * out = (q * out) * in + r * out
    BY <1>1
  <2>2. (q * in + r + 1) * out = (q * out) * in + (r + 1) * out
    BY <1>1
  <2> QED
    BY <1>1, <2>1, <2>2
<1>3. Up((q * out) * in + r * out, in) = q * out + Up(r * out, in)
  BY <1>2, Shifted
<1>4. Up((q * out) * in + (r + 1) * out, in) = q * out + Up((r + 1) * out, in)
  BY <1>2, Shifted
<1>5. /\ Up(m * out, in) = q * out + Up(r * out, in)
      /\ Up((m + 1) * out, in) = q * out + Up((r + 1) * out, in)
  BY <1>2, <1>3, <1>4, Zenon
<1> QED
  BY <1>1, <1>5, Zenon DEF q, r

\* The lines that lie on line m, numbered from the top of the page and in
\* their group.
LEMMA OnLine ==
  ASSUME NEW in \in Nat \ {0}, NEW out \in Nat \ {0}, NEW m \in Nat, NEW i \in Nat \ {0},
         i <= Up(((m % in) + 1) * out, in) - Up((m % in) * out, in)
  PROVE  LET phase == Up((m % in) * out, in) + i - 1
             k     == Up(m * out, in) + i - 1
         IN  /\ phase \in Nat /\ phase < out /\ k \in Nat /\ k % out = phase
             /\ (k * in) \div out = m /\ (phase * in) \div out = m % in
             /\ Up((k + 1) * in, out) = (m \div in) * in + Up((phase + 1) * in, out)
             /\ Up((phase + 1) * in, out) \in Int
             /\ (m % in) + 1 <= Up((phase + 1) * in, out)
             /\ in <= 2 * out => Up((phase + 1) * in, out) <= (m % in) + 3
<1> DEFINE r     == m % in
           q     == m \div in
           from  == Up(r * out, in)
           upTo  == Up((r + 1) * out, in)
           phase == from + i - 1
           k     == Up(m * out, in) + i - 1
<1>1. /\ r \in Nat /\ r < in /\ q \in Nat /\ m = q * in + r
      /\ Up(m * out, in) = q * out + from
  BY Grouping
<1> HIDE DEF r, q
<1>2. /\ from \in Nat /\ upTo \in Nat /\ upTo <= out
      /\ \A j \in from..(upTo - 1) : (j * in) \div out = r /\ r * out <= j * in
                                     /\ j * in < (r + 1) * out
  BY <1>1, Consecutive
<1>3. i <= upTo - from
  BY DEF r
<1> HIDE DEF from, upTo
<1>4. phase \in from..(upTo - 1) /\ phase \in Nat /\ phase < out
  BY <1>2, <1>3
<1>5. /\ (phase * in) \div out = r
      /\ r * out <= phase * in /\ phase * in < (r + 1) * out
  BY <1>2, <1>4
<1>6. k = q * out + phase /\ k \in Nat
  <2>1. q * out \in Nat
    BY <1>1
  <2> QED
    BY <1>1, <1>2, <1>4, <2>1
<1> HIDE DEF phase, k
<1>7. k % out = phase
  <2>1. phase \div out = 0
    <3> DEFINE d == phase \div out
    <3>1. d \in Int /\ phase = out * d + (phase % out)
          /\ 0 <= phase % out /\ phase % out < out /\ phase % out \in Int
      BY <1>4, Dividing
    <3> HIDE DEF d
    <3>2. out * d < out * 1 /\ out * (-1) < out * d
      BY <1>4, <3>1
    <3>3. d = 0
      <4>1. d < 1 /\ -1 < d
        BY <3>1, <3>2
      <4> QED
        BY <3>1, <4>1
    <3> QED
      BY <3>3 DEF d
  <2>2. k \div out = q
    <3>1. (q * out + phase) \div out = q + (phase \div out)
      <4>1. q \in Int /\ phase \in Int
        BY <1>1, <1>4
      <4> QED
        BY <4>1, Shifted, Zenon
    <3> QED
      BY <1>1, <1>6, <2>1, <3>1
  <2>3. k = out * (k \div out) + (k % out) /\ k % out \in Int
    BY <1>6, Dividing
  <2>4. q * out = out * q
    BY <1>1
  <2> QED
    BY <1>1, <1>4, <1>6, <2>2, <2>3, <2>4
<1>8. (k * in) \div out = m
  <2>1. k * in = (q * in) * out + phase * in /\ phase * in \in Int /\ q * in \in Int
    BY <1>1, <1>4, <1>6
  <2>2. ((q * in) * out + phase * in) \div out = q * in + ((phase * in) \div out)
    BY <2>1, Shifted
  <2> QED
    BY <1>1, <1>5, <2>1, <2>2
<1>9. Up((k + 1) * in, out) = q * in + Up((phase + 1) * in, out)
  <2>1. /\ (k + 1) * in = (q * in) * out + (phase + 1) * in
        /\ (phase + 1) * in \in Int /\ q * in \in Int
    BY <1>1, <1>4, <1>6
  <2>2. Up((q * in) * out + (phase + 1) * in, out) = q * in + Up((phase + 1) * in, out)
    BY <2>1, Shifted
  <2> QED
    BY <2>1, <2>2
<1> DEFINE h == Up((phase + 1) * in, out)
<1>10. h \in Int /\ \A j \in Int : j < h <=> j * out < (phase + 1) * in
  <2>1. (phase + 1) * in \in Int
    BY <1>4
  <2> QED
    BY <2>1, RoundedUp
<1> HIDE DEF h
<1>11. /\ (phase + 1) * in = phase * in + in /\ phase * in \in Int
       /\ (r + 3) * out = (r + 1) * out + 2 * out /\ (r + 1) * out \in Int /\ r * out \in Int
  BY <1>1, <1>4
<1>12. r + 1 <= h
  <2>1. r * out < (phase + 1) * in
    BY <1>5, <1>11
  <2> QED
    BY <1>1, <1>10, <2>1
<1>13. in <= 2 * out => h <= r + 3
  <2>1. in <= 2 * out => ~((r + 3) * out < (phase + 1) * in)
    <3> DEFINE pi == phase * in  ro == (r + 1) * out
    <3>1. pi \in Int /\ ro \in Int /\ pi < ro
      BY <1>5, <1>11
    <3> HIDE DEF pi, ro
    <3>2. in <= 2 * out => ~(ro + 2 * out < pi + in)
      BY <3>1
    <3>3. (r + 3) * out = ro + 2 * out /\ (phase + 1) * in = pi + in
      BY <1>11 DEF pi, ro
    <3> QED
      BY <3>2, <3>3, Zenon
  <2>2. r + 3 \in Int
    <3>1. r \in Nat
      BY <1>1
    <3> QED
      BY <3>1
  <2>3. r + 3 < h <=> (r + 3) * out < (phase + 1) * in
    BY <1>10, <2>2, Zenon
  <2> QED
    BY <1>10, <2>1, <2>2, <2>3
<1> QED
  BY <1>4, <1>5, <1>6, <1>7, <1>8, <1>9, <1>10, <1>12, <1>13, Zenon
  DEF r, q, from, phase, k, h

-----------------------------------------------------------------------------
(* What a line is made of, for the setup p of a job: the lines that the    *)
(* resampler names.                                                        *)

RowAt(p, i, n) ==
  IF i < 1 THEN (IF p.colour = "BW" THEN -1 ELSE 1) ELSE IF i > n THEN n ELSE i

SourceOf(p, k) == (k * p.y.in) \div p.y.out
FirstOf(p, k)  == IF p.way = "cubic" THEN SourceOf(p, k) ELSE SourceOf(p, k) + 1
LastOf(p, k) ==
  CASE p.way = "cubic" -> SourceOf(p, k) + 3
    [] p.way = "area"  -> Up((k + 1) * p.y.in, p.y.out)
    [] OTHER           -> SourceOf(p, k) + 1

LineOf(p, k, n) ==
  [phase |-> k % p.y.out,
   rows  |-> [i \in 1..(LastOf(p, k) - FirstOf(p, k) + 1) |-> RowAt(p, FirstOf(p, k) + i - 1, n)]]

WholeOf(p, n) == Up(n * p.y.out, p.y.in)

\* What is known of the ratio down the page of a job that makes lines.
Styled(p) ==
  /\ p.y.in \in Nat \ {0} /\ p.y.out \in Nat \ {0}
  /\ p.way \in {"copy", "multiply", "area", "cubic"}
  /\ p.way \in Interpolating => p.y.in <= 2 * p.y.out
  /\ p.way = "copy" => p.y.in = 1 /\ p.y.out = 1
  /\ p.way = "multiply" =>
       IF p.simpleY = 5 THEN p.y.in = 2 /\ p.y.out = 1 ELSE p.y.in = 1

\* The rows of a page.
LEMMA RowsOfPage ==
  ASSUME NEW i \in Int, NEW n \in Nat, NEW p
  PROVE  RowOf(PageLine(i, n, p.colour)) = RowAt(p, i, n)
<1>1. ASSUME NEW k \in Int PROVE RowOf(Line(k)) = k
  BY DEF RowOf, Line, Planes
<1>2. CASE i >= 1 /\ i > n
  BY <1>1, <1>2 DEF PageLine, RowAt
<1>3. CASE i >= 1 /\ ~(i > n)
  BY <1>1, <1>3 DEF PageLine, RowAt
<1>4. CASE ~(i >= 1)
  <2>1. RowOf(Packed(1)) = -1 /\ RowOf(Line(1)) = 1
    BY <1>1 DEF Packed
  <2> QED
    BY <1>4, <2>1 DEF PageLine, RowAt
<1> QED
  BY <1>2, <1>3, <1>4

\* The window as far as lines are made from it, when it has moved on to n
\* lines of a page of g.
Holding(window, at, n, g) ==
  \A y \in 0..3 : Fetch(window, at, y) = PageLine(n - 3 + y, g, job.colour)

LEMMA LeastOfInterval ==
  ASSUME NEW a \in Int, NEW b \in Int, a <= b
  PROVE  /\ (CHOOSE y \in a..b : \A z \in a..b : y <= z) = a
         /\ Cardinality(a..b) = b - a + 1
<1>1. a \in a..b /\ \A z \in a..b : a <= z
  OBVIOUS
<1>2. \A y \in a..b : (\A z \in a..b : y <= z) => y = a
  OBVIOUS
<1>3. (CHOOSE y \in a..b : \A z \in a..b : y <= z) = a
  <2> DEFINE c == CHOOSE y \in a..b : \A z \in a..b : y <= z
  <2>1. c \in a..b /\ \A z \in a..b : c <= z
    BY <1>1, Zenon
  <2> HIDE DEF c
  <2>2. c = a
    BY <1>2, <2>1
  <2> QED
    BY <2>2 DEF c
<1>4. Cardinality(a..b) = IF a > b THEN 0 ELSE b - a + 1
  BY FS_Interval
<1> QED
  BY <1>3, <1>4

\* A line made of it is mixed from the lines of the page it should be.
LEMMA Mixed ==
  ASSUME Styled(job), Interpolates, NEW n \in Nat, n > 2, NEW g \in Nat,
         NEW window, NEW at, Holding(window, at, n, g),
         NEW i \in 1..Number(n)
  PROVE  LET new == Interpolated(window, at, n)
             k   == WholeOf(job, n - 3) + i - 1
         IN  /\ Seen(new[i]) = LineOf(job, k, g)
             /\ SourceOf(job, k) = n - 3 /\ LastOf(job, k) <= n
<1> DEFINE in  == job.y.in
           out == job.y.out
           m   == n - 3
           phase == FirstPhase(n) + i - 1
           k     == WholeOf(job, n - 3) + i - 1
           ys    == Heights(phase, n)
           low   == CHOOSE y \in ys : \A z \in ys : y <= z
<1>1. in \in Nat \ {0} /\ out \in Nat \ {0} /\ m \in Nat /\ in <= 2 * out
      /\ job.way \in {"area", "cubic"}
  BY DEF Styled, Interpolates, Interpolating
<1>2. /\ Moved(n) = m % in /\ FirstPhase(n) = Up((m % in) * out, in)
      /\ Number(n) = Cardinality({j \in 0..(out - 1) : (j * in) \div out = m % in})
      /\ WholeOf(job, n - 3) = Up(m * out, in)
  BY DEF Moved, FirstPhase, Number, WholeOf, Up
<1> HIDE DEF in, out, m
<1> DEFINE h == Up((phase + 1) * in, out)
<1>3. /\ m % in \in Nat /\ m % in < in /\ m \div in \in Nat
      /\ m = (m \div in) * in + (m % in)
  BY <1>1, Grouping
<1>4. Number(n) = Up(((m % in) + 1) * out, in) - Up((m % in) * out, in)
  BY <1>1, <1>2, <1>3, Consecutive, Zenon
<1>5. i \in Nat \ {0} /\ i <= Up(((m % in) + 1) * out, in) - Up((m % in) * out, in)
  <2>1. i \in Nat \ {0} /\ i <= Number(n)
    <3>1. Number(n) \in Nat
      <4>1. Up(((m % in) + 1) * out, in) \in Nat /\ Up((m % in) * out, in) \in Nat
            /\ Up((m % in) * out, in) <= Up(((m % in) + 1) * out, in)
        BY <1>1, <1>3, Consecutive, Zenon
      <4> QED
        BY <1>4, <4>1
    <3> QED
      BY <3>1
  <2> QED
    BY <1>4, <2>1, Zenon
<1>6. /\ phase \in Nat /\ phase < out /\ k \in Nat /\ k % out = phase
      /\ (k * in) \div out = m /\ (phase * in) \div out = m % in
      /\ Up((k + 1) * in, out) = (m \div in) * in + h
      /\ h \in Int /\ (m % in) + 1 <= h /\ h <= (m % in) + 3
  <2> DEFINE ph == Up((m % in) * out, in) + i - 1
             kk == Up(m * out, in) + i - 1
  <2>1. /\ ph \in Nat /\ ph < out /\ kk \in Nat /\ kk % out = ph
        /\ (kk * in) \div out = m /\ (ph * in) \div out = m % in
        /\ Up((kk + 1) * in, out) = (m \div in) * in + Up((ph + 1) * in, out)
        /\ Up((ph + 1) * in, out) \in Int
        /\ (m % in) + 1 <= Up((ph + 1) * in, out)
        /\ in <= 2 * out => Up((ph + 1) * in, out) <= (m % in) + 3
    BY <1>1, <1>5, OnLine, Zenon
  <2>2. phase = ph /\ k = kk
    BY <1>2, Zenon
  <2> HIDE DEF ph, kk, phase, k
  <2> QED
    BY <1>1, <2>1, <2>2, Zenon
<1>7. SourceOf(job, k) = m
  BY <1>6 DEF SourceOf, in, out
<1>8. /\ ys = low..(low + Cardinality(ys) - 1)
      /\ low \in Nat /\ Cardinality(ys) \in Nat \ {0} /\ low + Cardinality(ys) <= 4
      /\ FirstOf(job, k) = m + low
      /\ LastOf(job, k) = m + low + Cardinality(ys) - 1
  <2>1. CASE job.way = "cubic"
    <3>1. ys = 0..3
      BY <2>1 DEF Heights
    <3>2. low = 0 /\ Cardinality(ys) = 4
      <4>1. (CHOOSE y \in 0..3 : \A z \in 0..3 : y <= z) = 0 /\ Cardinality(0..3) = 3 - 0 + 1
        <5>1. 0 \in Int /\ 3 \in Int /\ 0 <= 3
          OBVIOUS
        <5> QED
          BY <5>1, LeastOfInterval, Zenon
      <4> QED
        BY <3>1, <4>1
    <3>3. FirstOf(job, k) = m /\ LastOf(job, k) = m + 3
      BY <1>7, <2>1 DEF FirstOf, LastOf
    <3> HIDE DEF ys, low, k, phase
    <3> QED
      BY <1>1, <3>1, <3>2, <3>3
  <2>2. CASE job.way = "area"
    <3> DEFINE r   == m % in
               top == out + phase * in - r * out
    <3>1. top = (1 - r) * out + phase * in /\ top + in = (1 - r) * out + (phase + 1) * in
          /\ phase * in \in Int /\ (phase + 1) * in \in Int /\ 1 - r \in Int /\ top \in Int
      <4>1. PICK rr \in Nat : rr = r
        BY <1>3
      <4>2. PICK pp \in Nat : pp = phase
        BY <1>6
      <4>3. /\ out + pp * in - rr * out = (1 - rr) * out + pp * in
            /\ out + pp * in - rr * out + in = (1 - rr) * out + (pp + 1) * in
            /\ pp * in \in Int /\ (pp + 1) * in \in Int /\ 1 - rr \in Int
            /\ out + pp * in - rr * out \in Int
        BY <1>1
      <4> QED
        BY <4>1, <4>2, <4>3, Zenon
    <3>2. top \div out = 1
      <4>1. ((1 - r) * out + phase * in) \div out = (1 - r) + ((phase * in) \div out)
        BY <1>1, <3>1, Shifted, Zenon
      <4>2. PICK rr \in Nat : rr = r
        BY <1>3
      <4>3. (1 - rr) + rr = 1
        OBVIOUS
      <4> QED
        BY <1>6, <3>1, <4>1, <4>2, <4>3, Zenon
    <3>3. Up(top + in, out) = (1 - r) + h
      <4>1. Up((1 - r) * out + (phase + 1) * in, out) = (1 - r) + Up((phase + 1) * in, out)
        BY <1>1, <3>1, Shifted, Zenon
      <4> QED
        BY <3>1, <4>1, Zenon
    <3>4. ys = (top \div out)..(Up(top + in, out) - 1)
      BY <1>2, <2>2 DEF Heights, Up, in, out
    <3> HIDE DEF top, h, r, phase, k
    <3>5. r \in Nat /\ h \in Int /\ r + 1 <= h /\ h <= r + 3
      BY <1>3, <1>6 DEF r
    <3>6. ys = 1..(h - r) /\ h - r \in 1..3
      <4>1. (1 - r) + h - 1 = h - r
        BY <3>5
      <4> QED
        BY <3>2, <3>3, <3>4, <3>5, <4>1
    <3>7. low = 1 /\ Cardinality(ys) = h - r
      <4>1. h - r \in Int /\ 1 \in Int /\ 1 <= h - r /\ h - r - 1 + 1 = h - r
        BY <3>5
      <4>2. /\ (CHOOSE y \in 1..(h - r) : \A z \in 1..(h - r) : y <= z) = 1
            /\ Cardinality(1..(h - r)) = h - r - 1 + 1
        BY <4>1, LeastOfInterval, Zenon
      <4> QED
        BY <3>6, <4>1, <4>2, Zenon
    <3>8. FirstOf(job, k) = m + 1
      BY <1>7, <2>2 DEF FirstOf
    <3>9. LastOf(job, k) = (m \div in) * in + h
      BY <1>6, <2>2 DEF LastOf, in, out
    <3>10. (m \div in) * in + h = m + 1 + (h - r) - 1
      <4> DEFINE qi == (m \div in) * in
      <4>1. m = qi + r /\ qi \in Int
        BY <1>1, <1>3 DEF r
      <4> HIDE DEF qi
      <4>2. qi + h = m + 1 + (h - r) - 1
        BY <1>1, <3>5, <4>1
      <4> QED
        BY <4>2 DEF qi
    <3> HIDE DEF ys, low
    <3>11. /\ low \in Nat /\ Cardinality(ys) \in Nat \ {0} /\ low + Cardinality(ys) <= 4
           /\ h - r = low + Cardinality(ys) - 1
      BY <3>5, <3>6, <3>7
    <3>12. ys = low..(low + Cardinality(ys) - 1)
      BY <3>6, <3>7, <3>11
    <3>13. m + 1 + (h - r) - 1 = m + low + Cardinality(ys) - 1
      BY <1>1, <3>5, <3>7
    <3> QED
      BY <3>7, <3>8, <3>9, <3>10, <3>11, <3>12, <3>13
  <2> QED
    BY <1>1, <2>1, <2>2
<1> DEFINE c == Cardinality(ys)
           new == Interpolated(window, at, n)
<1>9. /\ new[i].phase = phase
      /\ new[i].rows = [r \in 1..c |-> Fetch(window, at, low + r - 1)]
  BY DEF Interpolated
<1> HIDE DEF ys, low, k, phase, c, new, h
<1>10. Seen(new[i]).rows = [r \in 1..c |-> RowAt(job, FirstOf(job, k) + r - 1, g)]
  <2>1. ASSUME NEW r \in 1..c
        PROVE  RowOf(Fetch(window, at, low + r - 1)) = RowAt(job, FirstOf(job, k) + r - 1, g)
    <3>1. /\ low + r - 1 \in 0..3 /\ n - 3 + (low + r - 1) = FirstOf(job, k) + r - 1
          /\ FirstOf(job, k) + r - 1 \in Int
      BY <1>1, <1>8 DEF c, m
    <3>2. Fetch(window, at, low + r - 1) = PageLine(FirstOf(job, k) + r - 1, g, job.colour)
      BY <3>1 DEF Holding
    <3> QED
      BY <3>1, <3>2, RowsOfPage
  <2>2. DOMAIN new[i].rows = 1..c
    BY <1>9
  <2>3. \A r \in 1..c : new[i].rows[r] = Fetch(window, at, low + r - 1)
    BY <1>9
  <2> QED
    BY <2>1, <2>2, <2>3 DEF Seen
<1>11. 1..c = 1..(LastOf(job, k) - FirstOf(job, k) + 1)
  BY <1>1, <1>8 DEF c
<1>12. Seen(new[i]) = LineOf(job, k, g)
  <2>1. Seen(new[i]) = [phase |-> phase, rows |-> Seen(new[i]).rows]
    BY <1>9 DEF Seen
  <2>2. phase = k % job.y.out
    BY <1>6 DEF out
  <2> QED
    BY <1>10, <1>11, <2>1, <2>2 DEF LineOf
<1>13. LastOf(job, k) <= n
  BY <1>1, <1>8 DEF m
<1> QED
  BY <1>7, <1>12, <1>13 DEF k, new, m

-----------------------------------------------------------------------------
(* How far the lines made have come.                                       *)

\* The lines made of a page of n lines before its end: an interpolated line
\* waits for two lines more.
Done(p, n) ==
  IF p.way \in Interpolating THEN IF n <= 2 THEN 0 ELSE WholeOf(p, n - 2) ELSE WholeOf(p, n)

Listed(m) == \E S : m \in Seq(S)

\* m are the first c lines the resampler makes of a page of n.
AsMade(m, p, c, n) ==
  Listed(m) /\ Len(m) = c /\ \A i \in 1..c : Seen(m[i]) = LineOf(p, i - 1, n)

LEMMA Wholes ==
  ASSUME NEW p, Styled(p), NEW n \in Nat
  PROVE  /\ WholeOf(p, n) \in Nat
         /\ \A k \in Int : k < WholeOf(p, n) <=> k * p.y.in < n * p.y.out
         /\ WholeOf(p, 0) = 0
<1> DEFINE in == p.y.in  out == p.y.out
<1>1. in \in Nat \ {0} /\ out \in Nat \ {0}
  BY DEF Styled
<1> HIDE DEF in, out
<1> DEFINE w == Up(n * out, in)
<1>2. w \in Int /\ \A k \in Int : k < w <=> k * in < n * out
  <2>1. n * out \in Int
    BY <1>1
  <2> QED
    BY <1>1, <2>1, RoundedUp
<1> HIDE DEF w
<1>3. w \in Nat
  <2>1. n * out \in Nat /\ w * in \in Int
    BY <1>1, <1>2
  <2>2. ~(w * in < n * out)
    BY <1>2
  <2>3. 0 * in <= w * in
    BY <1>1, <2>1, <2>2
  <2>4. 0 <= w
    BY <1>1, <1>2, <2>3, Products
  <2> QED
    BY <1>2, <2>4
<1>4. Up(0 * out, in) = 0
  <2>1. PICK o \in Int : o = 0
    OBVIOUS
  <2> DEFINE z == Up(o, in)
  <2>2. z \in Int /\ \A k \in Int : k < z <=> k * in < o
    BY <1>1, RoundedUp
  <2> HIDE DEF z
  <2>3. (o - 1) * in < o /\ ~(o * in < o) /\ o - 1 \in Int
    BY <1>1, <2>1
  <2>4. o - 1 < z /\ ~(o < z)
    BY <2>2, <2>3, Zenon
  <2>5. z = o
    BY <2>2, <2>4
  <2>6. 0 * out = 0
    BY <1>1
  <2> QED
    BY <2>1, <2>5, <2>6, Zenon DEF z
<1> QED
  BY <1>2, <1>3, <1>4, Zenon DEF w, WholeOf, in, out

LEMMA DoneBounds ==
  ASSUME NEW p, Styled(p), NEW n \in Nat
  PROVE  Done(p, n) \in Nat /\ WholeOf(p, n) \in Nat /\ Done(p, n) <= WholeOf(p, n)
<1>1. CASE p.way \in Interpolating /\ n > 2
  <2> DEFINE w == WholeOf(p, n)  v == WholeOf(p, n - 2)
  <2>1. w \in Nat /\ v \in Nat /\ n - 2 \in Nat /\ w \in Int
    BY <1>1, Wholes
  <2> HIDE DEF w
  <2>2. /\ w < v <=> w * p.y.in < (n - 2) * p.y.out
        /\ w < w <=> w * p.y.in < n * p.y.out
    BY <2>1, Wholes, Zenon DEF w
  <2>3. PICK o \in Nat : o = p.y.out
    BY DEF Styled
  <2>4. PICK a \in Int : a = w * p.y.in
    BY <2>1 DEF Styled
  <2>5. (n - 2) * o <= n * o /\ (n - 2) * o \in Int /\ n * o \in Int
    BY <1>1
  <2> HIDE DEF v
  <2>6. ~(w < w)
    BY <2>1
  <2>7. ~(a < n * o)
    BY <2>2, <2>3, <2>4, <2>6, Zenon
  <2>8. ~(a < (n - 2) * o)
    BY <2>4, <2>5, <2>7
  <2>9. ~(w < v)
    BY <2>2, <2>3, <2>4, <2>8, Zenon
  <2>10. v <= w
    BY <2>1, <2>9
  <2>11. Done(p, n) = v
    BY <1>1 DEF Done, v
  <2> QED
    BY <2>1, <2>10, <2>11 DEF w
<1>2. CASE p.way \in Interpolating /\ ~(n > 2)
  <2>1. Done(p, n) = 0
    BY <1>2 DEF Done
  <2> QED
    BY <2>1, Wholes
<1>3. CASE p.way \notin Interpolating
  BY <1>3, Wholes DEF Done
<1> QED
  BY <1>1, <1>2, <1>3

\* A line that is made has all the lines it is mixed from, and takes no
\* other of a longer page.
LEMMA NeedsNoMore ==
  ASSUME NEW p, Styled(p), NEW n \in Nat, NEW i \in 1..Done(p, n)
  PROVE  /\ Done(p, n) \in Nat
         /\ SourceOf(p, i - 1) \in Int /\ LastOf(p, i - 1) \in Int
         /\ LastOf(p, i - 1) <= n
<1> DEFINE in == p.y.in  out == p.y.out  k == i - 1  s == SourceOf(p, k)
           l == Up((k + 1) * in, out)
<1>1. in \in Nat \ {0} /\ out \in Nat \ {0} /\ p.way \in {"copy", "multiply", "area", "cubic"}
      /\ (p.way \in Interpolating => in <= 2 * out)
  BY DEF Styled
<1>2. Done(p, n) \in Nat
  <2>1. n > 2 => n - 2 \in Nat
    OBVIOUS
  <2> QED
    BY <2>1, Wholes DEF Done
<1>3. k \in Nat /\ k < Done(p, n)
  BY <1>2
<1> HIDE DEF in, out, k
<1>4. k * in \in Int /\ (k + 1) * in \in Int /\ (k + 1) * in = k * in + in
  BY <1>1, <1>3
<1>5. s \in Int /\ \A j \in Int : j <= s <=> j * out <= k * in
  BY <1>1, <1>4, RoundedDown DEF SourceOf, in, out
<1>6. l \in Int /\ \A j \in Int : j < l <=> j * out < (k + 1) * in
  BY <1>1, <1>4, RoundedUp
<1> HIDE DEF s, l
<1>7. LastOf(p, k) = CASE p.way = "cubic" -> s + 3 [] p.way = "area" -> l [] OTHER -> s + 1
  BY DEF LastOf, s, l, in, out
<1>8. LastOf(p, k) \in Int
  BY <1>5, <1>6, <1>7
<1>9. ASSUME p.way \in Interpolating PROVE LastOf(p, k) <= n
  <2>1. n > 2 /\ k < WholeOf(p, n - 2)
    BY <1>3, <1>9 DEF Done
  <2>2. n - 2 \in Nat /\ k \in Int
    BY <1>3, <2>1
  <2>3. k * in < (n - 2) * out
    BY <2>1, <2>2, Wholes, Zenon DEF in, out
  <2>4. (n - 2) * out = n * out - 2 * out /\ n * out \in Int
    BY <1>1
  <2>5. s < n - 2
    <3>1. ~((n - 2) * out <= k * in)
      BY <1>1, <1>4, <2>3, <2>4
    <3> QED
      BY <1>5, <2>2, <3>1
  <2>6. l <= n
    <3>1. ~(n * out < (k + 1) * in)
      BY <1>1, <1>4, <1>9, <2>3, <2>4
    <3> QED
      BY <1>6, <3>1
  <2> QED
    BY <1>5, <1>6, <1>7, <1>9, <2>5, <2>6 DEF Interpolating
<1>10. ASSUME p.way \notin Interpolating PROVE LastOf(p, k) <= n
  <2>1. k < WholeOf(p, n) /\ k \in Int
    BY <1>3, <1>10 DEF Done
  <2>2. k * in < n * out
    BY <2>1, Wholes, Zenon DEF in, out
  <2>3. ~(n * out <= k * in)
    BY <1>1, <1>4, <2>2
  <2>4. s < n
    BY <1>5, <2>3
  <2> QED
    BY <1>5, <1>7, <1>10, <2>4 DEF Interpolating
<1> QED
  BY <1>2, <1>5, <1>8, <1>9, <1>10 DEF s, k

LEMMA SameLine ==
  ASSUME NEW p, NEW k, NEW n \in Nat, NEW g \in Nat, n <= g,
         SourceOf(p, k) \in Int, LastOf(p, k) \in Int, LastOf(p, k) <= n
  PROVE  LineOf(p, k, n) = LineOf(p, k, g)
<1>1. FirstOf(p, k) \in Int
  BY DEF FirstOf
<1>2. ASSUME NEW i \in 1..(LastOf(p, k) - FirstOf(p, k) + 1)
      PROVE  RowAt(p, FirstOf(p, k) + i - 1, n) = RowAt(p, FirstOf(p, k) + i - 1, g)
  BY <1>1 DEF RowAt
<1> QED
  BY <1>2 DEF LineOf

\* Lines come behind those there are.
LEMMA Appending ==
  ASSUME NEW p, NEW m, NEW new, NEW c \in Nat, NEW d \in Nat, NEW n, NEW g,
         AsMade(m, p, c, n), \A i \in 1..c : LineOf(p, i - 1, n) = LineOf(p, i - 1, g),
         Listed(new), Len(new) = d, \A i \in 1..d : Seen(new[i]) = LineOf(p, c + i - 1, g)
  PROVE  AsMade(m \o new, p, c + d, g)
<1>1. PICK S : m \in Seq(S)
  BY DEF AsMade, Listed
<1>2. PICK T : new \in Seq(T)
  BY DEF Listed
<1>3. m \in Seq(S \cup T) /\ new \in Seq(S \cup T)
  BY <1>1, <1>2
<1>4. Len(m) = c
  BY DEF AsMade
<1>5. /\ m \o new \in Seq(S \cup T) /\ Len(m \o new) = c + d
      /\ \A i \in 1..c : (m \o new)[i] = m[i]
      /\ \A i \in (c + 1)..(c + d) : (m \o new)[i] = new[i - c]
  BY <1>3, <1>4
<1>6. ASSUME NEW i \in 1..(c + d) PROVE Seen((m \o new)[i]) = LineOf(p, i - 1, g)
  <2>1. CASE i <= c
    <3>1. i \in 1..c
      BY <2>1
    <3> QED
      BY <1>5, <3>1 DEF AsMade
  <2>2. CASE ~(i <= c)
    <3>1. i \in (c + 1)..(c + d) /\ i - c \in 1..d /\ c + (i - c) - 1 = i - 1
      BY <2>2
    <3> QED
      BY <1>5, <3>1
  <2> QED
    BY <2>1, <2>2
<1> QED
  BY <1>5, <1>6 DEF AsMade, Listed

\* What the window makes when it has moved on to line n.
LEMMA Making ==
  ASSUME Styled(job), Interpolates, NEW n \in Nat, n > 2, NEW g \in Nat,
         NEW window, NEW at, Holding(window, at, n, g)
  PROVE  LET new == Interpolated(window, at, n)
             c   == WholeOf(job, n - 3)
             d   == WholeOf(job, n - 2) - WholeOf(job, n - 3)
         IN  /\ Listed(new) /\ Len(new) = d /\ c \in Nat /\ d \in Nat
             /\ \A i \in 1..d : Seen(new[i]) = LineOf(job, c + i - 1, g)
<1> DEFINE in  == job.y.in
           out == job.y.out
           m   == n - 3
           r   == m % in
           new == Interpolated(window, at, n)
           c   == WholeOf(job, n - 3)
           d   == WholeOf(job, n - 2) - WholeOf(job, n - 3)
<1>1. in \in Nat \ {0} /\ out \in Nat \ {0} /\ m \in Nat /\ m + 1 = n - 2 /\ m + 1 \in Nat
  BY DEF Styled
<1>2. /\ Number(n) = Cardinality({j \in 0..(out - 1) : (j * in) \div out = r})
      /\ c = Up(m * out, in) /\ WholeOf(job, n - 2) = Up((m + 1) * out, in)
  BY <1>1 DEF Number, Moved, WholeOf
<1> HIDE DEF in, out, m
<1>3. /\ r \in Nat /\ r < in /\ m \div in \in Nat
      /\ Up(m * out, in) = (m \div in) * out + Up(r * out, in)
      /\ Up((m + 1) * out, in) = (m \div in) * out + Up((r + 1) * out, in)
  BY <1>1, Grouping, Zenon
<1> HIDE DEF r
<1>4. /\ Number(n) = Up((r + 1) * out, in) - Up(r * out, in)
      /\ Up(r * out, in) \in Nat /\ Up((r + 1) * out, in) \in Nat
      /\ Up(r * out, in) <= Up((r + 1) * out, in)
  BY <1>1, <1>2, <1>3, Consecutive, Zenon
<1>5. Number(n) = d /\ d \in Nat /\ c \in Nat
  <2>1. PICK q \in Nat : q = (m \div in) * out
    <3>1. PICK qq \in Nat : qq = m \div in
      BY <1>3
    <3>2. qq * out \in Nat
      BY <1>1
    <3> QED
      BY <3>1, <3>2
  <2> QED
    BY <1>2, <1>3, <1>4, <2>1
<1>6. new = [i \in 1..d |-> new[i]]
  <2>1. n \in Int /\ ~(n <= 2)
    OBVIOUS
  <2>2. new = [i \in 1..Number(n) |-> new[i]]
    BY <2>1, <1>5 DEF Interpolated
  <2> QED
    BY <1>5, <2>2, Zenon
<1>7. \A i \in 1..d : Seen(new[i]) = LineOf(job, c + i - 1, g)
  <2>1. ASSUME NEW i \in 1..Number(n) PROVE Seen(new[i]) = LineOf(job, c + i - 1, g)
    BY Mixed
  <2> HIDE DEF new, c, d
  <2> QED
    BY <1>5, <2>1
<1> HIDE DEF new, c, d
<1>8. new \in Seq({new[i] : i \in 1..d}) /\ Len(new) = d
  BY <1>5, <1>6, Sequence, Zenon
<1> QED
  BY <1>5, <1>7, <1>8, Zenon DEF Listed, new, c, d

\* The newest line given once more moves the window on.
LEMMA Doubling ==
  ASSUME NEW window \in [Slots -> [Planes -> Int]], NEW at \in Slots,
         NEW n \in Nat, n > 2, n < 65536, NEW g \in Nat, g > 0, n >= g,
         \A y \in 1..3 : Fetch(window, at, y) = PageLine(n - 3 + y, g, job.colour)
  PROVE  LET new == Push(window, at, n, Newest(window, at))
         IN  new \in [Slots -> [Planes -> Int]] /\ Holding(new, After(at), n + 1, g)
<1> DEFINE new == Push(window, at, n, Newest(window, at))
<1>1. Newest(window, at) = Fetch(window, at, 3) /\ Fetch(window, at, 3) \in [Planes -> Int]
  <2>1. Newest(window, at) = Fetch(window, at, 3)
    BY Turning DEF Newest, Fetch
  <2>2. Fetch(window, at, 3) \in [Planes -> Int]
    BY Turning DEF Fetch
  <2> QED
    BY <2>1, <2>2
<1>2. new \in [Slots -> [Planes -> Int]]
  BY <1>1, Pushing
<1>3. /\ Fetch(new, After(at), 3) = Fetch(window, at, 3)
      /\ \A y \in 0..2 : Fetch(new, After(at), y) = Fetch(window, at, y + 1)
  BY <1>1, Advancing
<1> HIDE DEF new
<1>4. ASSUME NEW y \in 0..3
      PROVE  Fetch(new, After(at), y) = PageLine(n + 1 - 3 + y, g, job.colour)
  <2>1. CASE y = 3
    <3>1. Fetch(window, at, 3) = PageLine(n - 3 + 3, g, job.colour)
      OBVIOUS
    <3>2. PageLine(n - 3 + 3, g, job.colour) = Line(g)
      BY DEF PageLine
    <3>3. PageLine(n + 1 - 3 + 3, g, job.colour) = Line(g)
      BY DEF PageLine
    <3> QED
      BY <1>3, <2>1, <3>1, <3>2, <3>3
  <2>2. CASE y # 3
    <3>1. y \in 0..2 /\ y + 1 \in 1..3 /\ n - 3 + (y + 1) = n + 1 - 3 + y
      BY <2>2
    <3> QED
      BY <1>3, <3>1
  <2> QED
    BY <2>1, <2>2
<1> QED
  BY <1>2, <1>4 DEF Holding, new

-----------------------------------------------------------------------------
(* The steps of the resampler.                                             *)

\* The resampler's words for the setup of the job in force.
LEMMA Words ==
  ASSUME Open, Styled(job)
  PROVE  /\ Style \in Resampler!Styles
         /\ \A k, n : Resampler!Line(k, n) = LineOf(job, k, n)
         /\ \A n : Resampler!Whole(n) = WholeOf(job, n)
         /\ \A k : Resampler!Last(k) = LastOf(job, k)
         /\ Resampler!Interpolates <=> Interpolates
<1>1. /\ Style.way = job.way /\ Style.in = job.y.in /\ Style.out = job.y.out
      /\ Style.above = IF job.colour = "BW" THEN -1 ELSE 1
  BY DEF Style, Open
<1>2. Style \in Resampler!Styles
  BY DEF Style, Open, Styled, Resampler!Styles
<1>3. \A k : Resampler!Source(k) = SourceOf(job, k)
  BY <1>1 DEF Resampler!Source, SourceOf
<1>4. \A k : Resampler!First(k) = FirstOf(job, k)
  BY <1>1, <1>3 DEF Resampler!First, FirstOf
<1>5. \A k : Resampler!Last(k) = LastOf(job, k)
  BY <1>1, <1>3 DEF Resampler!Last, LastOf, Up
<1>6. \A i, n : Resampler!LineAt(i, n) = RowAt(job, i, n)
  BY <1>1 DEF Resampler!LineAt, RowAt
<1>7. \A k, n : Resampler!Line(k, n) = LineOf(job, k, n)
  BY <1>1, <1>4, <1>5, <1>6 DEF Resampler!Line, LineOf
<1>8. \A n : Resampler!Whole(n) = WholeOf(job, n)
  BY <1>1 DEF Resampler!Whole, WholeOf, Up
<1>9. Resampler!Interpolates <=> Interpolates
  BY <1>1 DEF Resampler!Interpolates, Interpolates, Interpolating
<1> QED
  BY <1>2, <1>5, <1>7, <1>8, <1>9

LEMMA Drawn ==
  ASSUME Open, Styled(job), NEW m, NEW c \in Nat, NEW n, AsMade(m, job, c, n)
  PROVE  /\ [i \in DOMAIN m |-> Seen(m[i])] = Resampler!Lines(c, n)
         /\ Len([i \in DOMAIN m |-> Seen(m[i])]) = c
<1>1. DOMAIN m = 1..c
  BY DEF AsMade, Listed
<1>2. [i \in DOMAIN m |-> Seen(m[i])] = [i \in 1..c |-> LineOf(job, i - 1, n)]
  BY <1>1 DEF AsMade
<1>3. Resampler!Lines(c, n) = [i \in 1..c |-> LineOf(job, i - 1, n)]
  BY Words DEF Resampler!Lines
<1> DEFINE f == [i \in 1..c |-> LineOf(job, i - 1, n)]
<1>4. f = [i \in 1..c |-> f[i]]
  OBVIOUS
<1> HIDE DEF f
<1>5. Len(f) = c
  BY <1>4, Sequence, Zenon
<1> QED
  BY <1>2, <1>3, <1>5 DEF f

\* new are the lines to come when line m + 1 has come in.
Adding(new, m) ==
  \E d \in Nat :
    /\ Done(job, m + 1) = Done(job, m) + d /\ Listed(new) /\ Len(new) = d
    /\ \A i \in 1..d : Seen(new[i]) = LineOf(job, Done(job, m) + i - 1, m + 1)

\* A line goes in; more lines come out as they should.
LEMMA Feeding ==
  ASSUME Open, Styled(job), ~ended, lines \in Nat, lines' = lines + 1,
         job' = job, ended' = ended, NEW new, made' = made \o new,
         AsMade(made, job, Done(job, lines), lines), Adding(new, lines)
  PROVE  AsMade(made', job, Done(job, lines'), lines') /\ Resampler!Feed
<1> DEFINE n == lines + 1
           c == Done(job, lines)
           e == Done(job, n)
<1>0. PICK d \in Nat :
        /\ Done(job, lines + 1) = Done(job, lines) + d /\ Listed(new) /\ Len(new) = d
        /\ \A i \in 1..d : Seen(new[i]) = LineOf(job, Done(job, lines) + i - 1, lines + 1)
  BY DEF Adding
<1>1. n \in Nat /\ lines <= n /\ c \in Nat /\ e \in Nat /\ e = c + d
      /\ WholeOf(job, n) \in Nat /\ e <= WholeOf(job, n)
  <2>1. n \in Nat /\ lines <= n
    OBVIOUS
  <2>2. c \in Nat /\ e \in Nat /\ WholeOf(job, n) \in Nat /\ e <= WholeOf(job, n)
    BY <2>1, DoneBounds
  <2> QED
    BY <1>0, <2>1, <2>2
<1>2. \A i \in 1..c : LineOf(job, i - 1, lines) = LineOf(job, i - 1, n)
  <2> SUFFICES ASSUME NEW i \in 1..c PROVE LineOf(job, i - 1, lines) = LineOf(job, i - 1, n)
    OBVIOUS
  <2>1. /\ SourceOf(job, i - 1) \in Int /\ LastOf(job, i - 1) \in Int
        /\ LastOf(job, i - 1) <= lines
    BY NeedsNoMore
  <2> QED
    BY <1>1, <2>1, SameLine
<1>3. AsMade(made \o new, job, c + d, n)
  BY <1>0, <1>1, <1>2, Appending
<1>4. AsMade(made', job, e, n)
  BY <1>1, <1>3
<1>5. /\ [i \in DOMAIN made |-> Seen(made[i])] = Resampler!Lines(c, lines)
      /\ Len([i \in DOMAIN made |-> Seen(made[i])]) = c
  BY <1>1, Drawn
<1>6. [i \in DOMAIN made |-> Seen(made[i])]' = Resampler!Lines(e, n)
  BY <1>1, <1>4, Drawn
<1>7. e > 0 => Resampler!Last(e - 1) <= n
  <2>1. ASSUME e > 0 PROVE LastOf(job, e - 1) <= n
    <3>1. e \in 1..Done(job, n)
      BY <1>1, <2>1
    <3> QED
      BY <1>1, <3>1, NeedsNoMore
  <2> QED
    BY <2>1, Words
<1>8. Resampler!Feed
  <2>1. e \in c..Resampler!Whole(n)
    BY <1>1, Words
  <2>2. Style' = Style
    BY DEF Style
  <2> QED
    BY <1>5, <1>6, <1>7, <2>1, <2>2 DEF Resampler!Feed
<1> QED
  BY <1>4, <1>8

\* The lines on line m are d, the first has phase f and number c.
OnIt(in, out, m, f, d, c) ==
  /\ c = Up(m * out, in) /\ f = Up((m % in) * out, in)
  /\ f + d = Up(((m % in) + 1) * out, in)

LiesOn(in, out, m, k, phase) == k % out = phase /\ (k * in) \div out = m

LEMMA PlaceOnLine ==
  ASSUME NEW in \in Nat \ {0}, NEW out \in Nat \ {0}, NEW m \in Nat,
         NEW f \in Nat, NEW d \in Nat, NEW c \in Nat, OnIt(in, out, m, f, d, c), NEW i \in 1..d
  PROVE  LiesOn(in, out, m, c + i - 1, f + i - 1)
<1>. i \in Nat \ {0} /\ i <= Up(((m % in) + 1) * out, in) - Up((m % in) * out, in)
  <2>1. i \in Nat \ {0} /\ i <= (f + d) - f
    OBVIOUS
  <2> QED
    BY <2>1, Zenon DEF OnIt
<1> DEFINE ph == Up((m % in) * out, in) + i - 1
           kk == Up(m * out, in) + i - 1
<1>1. /\ ph \in Nat /\ ph < out /\ kk \in Nat /\ kk % out = ph
      /\ (kk * in) \div out = m /\ (ph * in) \div out = m % in
      /\ Up((kk + 1) * in, out) = (m \div in) * in + Up((ph + 1) * in, out)
      /\ Up((ph + 1) * in, out) \in Int
      /\ (m % in) + 1 <= Up((ph + 1) * in, out)
      /\ in <= 2 * out => Up((ph + 1) * in, out) <= (m % in) + 3
  BY OnLine, Zenon
<1>2. ph = f + i - 1 /\ kk = c + i - 1
  BY Zenon DEF OnIt
<1> HIDE DEF ph, kk
<1> QED
  BY <1>1, <1>2, Zenon DEF LiesOn

\* All of new are line n, in phases from f.
Shown(new, f, d, n) ==
  /\ Listed(new) /\ Len(new) = d
  /\ \A i \in 1..d : Seen(new[i]) = [phase |-> f + i - 1, rows |-> [r \in 1..1 |-> n]]

\* Lines made by copying or repeating lie on the line that has come in.
LEMMA Repeating ==
  ASSUME Styled(job), ~Interpolates, NEW m \in Nat,
         NEW new, NEW d \in Nat, NEW f \in Nat,
         OnIt(job.y.in, job.y.out, m, f, d, WholeOf(job, m)), Shown(new, f, d, m + 1)
  PROVE  Adding(new, m)
<1> DEFINE in  == job.y.in
           out == job.y.out
           c   == Done(job, m)
           e   == Done(job, m + 1)
<1>1. in \in Nat \ {0} /\ out \in Nat \ {0} /\ m + 1 \in Nat
  BY DEF Styled
<1>2. c = Up(m * out, in) /\ e = Up((m + 1) * out, in) /\ c \in Nat /\ e \in Nat
  <2>1. Done(job, m) = WholeOf(job, m) /\ Done(job, m + 1) = WholeOf(job, m + 1)
    BY DEF Done, Interpolates
  <2> QED
    BY <1>1, <2>1, DoneBounds DEF WholeOf
<1>3. f = Up((m % in) * out, in) /\ f + d = Up(((m % in) + 1) * out, in)
  BY Zenon DEF OnIt
<1> HIDE DEF in, out, c, e
<1>4. /\ Up(m * out, in) = (m \div in) * out + f
      /\ Up((m + 1) * out, in) = (m \div in) * out + (f + d)
      /\ m \div in \in Nat
  <2>1. /\ Up(m * out, in) = (m \div in) * out + Up((m % in) * out, in)
        /\ Up((m + 1) * out, in) = (m \div in) * out + Up(((m % in) + 1) * out, in)
        /\ m \div in \in Nat
    BY <1>1, Grouping, Zenon
  <2> QED
    BY <1>3, <2>1, Zenon
<1>5. e = c + d
  <2> DEFINE q == (m \div in) * out
  <2>1. q \in Nat
    <3>1. PICK qq \in Nat : qq = m \div in
      BY <1>4
    <3> QED
      BY <1>1, <3>1
  <2>2. c = q + f /\ e = q + (f + d)
    BY <1>2, <1>4
  <2> HIDE DEF q
  <2> QED
    BY <2>1, <2>2
<1>6. ASSUME NEW i \in 1..d PROVE Seen(new[i]) = LineOf(job, c + i - 1, m + 1)
  <2> DEFINE k == c + i - 1
  <2>1. OnIt(in, out, m, f, d, c)
    BY <1>2, <1>3, Zenon DEF OnIt
  <2>2. k % out = f + i - 1 /\ (k * in) \div out = m
    <3>1. LiesOn(in, out, m, k, f + i - 1)
      BY <1>1, <1>2, <2>1, PlaceOnLine
    <3> HIDE DEF k
    <3> QED
      BY <3>1, Zenon DEF LiesOn
  <2>3. SourceOf(job, k) = m /\ job.way \notin {"area", "cubic"}
    BY <2>2 DEF SourceOf, in, out, Interpolates, Interpolating
  <2>4. FirstOf(job, k) = m + 1 /\ LastOf(job, k) = m + 1
    BY <2>3 DEF FirstOf, LastOf
  <2>5. \A r \in 1..1 : RowAt(job, m + 1 + r - 1, m + 1) = m + 1
    BY DEF RowAt
  <2>6. m + 1 - (m + 1) + 1 = 1
    OBVIOUS
  <2>7. k % job.y.out = f + i - 1
    BY <2>2 DEF out
  <2> HIDE DEF k
  <2>8. LineOf(job, k, m + 1) = [phase |-> f + i - 1, rows |-> [r \in 1..1 |-> m + 1]]
    BY <2>4, <2>5, <2>6, <2>7 DEF LineOf
  <2>9. Seen(new[i]) = [phase |-> f + i - 1, rows |-> [r \in 1..1 |-> m + 1]]
    BY Zenon DEF Shown
  <2> QED
    BY <2>8, <2>9 DEF k
<1>7. Listed(new) /\ Len(new) = d
  BY DEF Shown
<1> QED
  BY <1>5, <1>6, <1>7 DEF Adding, c, e

\* p and q are a and b in lowest terms, if the one is a multiple of the other
\* or its half.
Reduced(a, b, p, q) == p * b = q * a /\ (b % a = 0 => p = 1) /\ ((2 * b) % a = 0 => p <= 2)

LEMMA Ratios ==
  ASSUME NEW a \in Nat \ {0}, NEW b \in Nat \ {0}, NEW p \in Nat \ {0}, NEW q \in Nat \ {0},
         Reduced(a, b, p, q)
  PROVE  /\ \A n \in Nat \ {0} : q = n * p => p = 1
         /\ a = b => p = 1 /\ q = 1
         /\ 2 * q = p => p = 2 /\ q = 1
<1>0. p * b = q * a /\ (b % a = 0 => p = 1) /\ ((2 * b) % a = 0 => p <= 2)
  BY Zenon DEF Reduced
<1>1. ASSUME NEW n \in Nat \ {0}, q = n * p PROVE p = 1
  <2>1. b * p = (n * a) * p
    <3>1. p * b = b * p /\ (n * p) * a = (n * a) * p
      OBVIOUS
    <3> QED
      BY <1>0, <1>1, <3>1, Zenon
  <2>2. n * a \in Int /\ (n * a) % a = 0
    <3>1. n * a \in Int /\ n * a = n * a + 0
      OBVIOUS
    <3>2. n * a = a * ((n * a) \div a) + ((n * a) % a) /\ (n * a) % a \in Int
          /\ 0 <= (n * a) % a /\ (n * a) % a < a /\ (n * a) \div a \in Int
      BY <3>1, Dividing
    <3> DEFINE d == (n * a) \div a  r == (n * a) % a
    <3>3. n * a = a * d + r /\ 0 <= r /\ r < a /\ r \in Int /\ d \in Int
      BY <3>2
    <3> HIDE DEF d, r
    <3>4. (n - d) * a = r
      BY <3>3
    <3>5. (n - d) * a < 1 * a /\ (-1) * a < (n - d) * a
      BY <3>3, <3>4
    <3>6. n - d < 1 /\ -1 < n - d
      BY <3>3, <3>5
    <3>7. n - d = 0
      BY <3>3, <3>6
    <3>8. r = 0
      BY <3>4, <3>7
    <3> QED
      BY <3>1, <3>8 DEF r
  <2>3. b = n * a
    BY <2>1, <2>2, Products
  <2> QED
    BY <1>0, <2>2, <2>3
<1>2. ASSUME a = b PROVE p = 1 /\ q = 1
  <2>1. p * a = q * a
    BY <1>0, <1>2
  <2>2. p = q
    BY <2>1, Products
  <2>3. q = 1 * p
    BY <2>2
  <2>4. PICK o \in Nat \ {0} : o = 1
    OBVIOUS
  <2> QED
    BY <1>1, <2>2, <2>3, <2>4
<1>3. ASSUME 2 * q = p PROVE p = 2 /\ q = 1
  <2>1. (2 * b) * q = a * q
    <3>1. (2 * q) * b = (2 * b) * q /\ q * a = a * q
      OBVIOUS
    <3> QED
      BY <1>0, <1>3, <3>1
  <2>2. 2 * b \in Int
    OBVIOUS
  <2>3. 2 * b = a
    BY <2>1, <2>2, Products
  <2>4. a % a = 0
    BY SMT
  <2>5. p <= 2
    BY <1>0, <2>3, <2>4
  <2> QED
    BY <1>3, <2>5
<1> QED
  BY <1>1, <1>2, <1>3

LEMMA JobStyled ==
  ASSUME NEW j \in Jobs, Setup(j).way # "none"
  PROVE  Styled(Setup(j))
<1> DEFINE x == LowestTerms(j.inX, j.outX)
           y == LowestTerms(j.inY, j.outY)
<1>1. j.inY \in Nat \ {0} /\ j.outY \in Nat \ {0}
  BY JobsAssumption
<1>2. /\ y.in \in Nat \ {0} /\ y.out \in Nat \ {0} /\ y.in * j.outY = y.out * j.inY
      /\ j.outY % j.inY = 0 => y.in = 1
      /\ (2 * j.outY) % j.inY = 0 => y.in <= 2
  BY <1>1, Lowest
<1>3. /\ Setup(j).y = y /\ Setup(j).way = Way(j, x, y) /\ Setup(j).simpleY = SimpleRatio(y)
  BY DEF Setup
<1> HIDE DEF x, y
<1>4. /\ Way(j, x, y) = Select(j, x, y)
      /\ Select(j, x, y) \in {"copy", "multiply", "area", "cubic"}
      /\ Select(j, x, y) = "copy" => j.inY = j.outY
      /\ Select(j, x, y) = "multiply" => SimpleRatio(y) # 0
      /\ Select(j, x, y) \in {"area", "cubic"} => ~(2 * y.out < y.in)
  BY <1>3 DEF Way, Select, Interpolation
<1>5. /\ \A n \in Nat \ {0} : y.out = n * y.in => y.in = 1
      /\ j.inY = j.outY => y.in = 1 /\ y.out = 1
      /\ 2 * y.out = y.in => y.in = 2 /\ y.out = 1
  <2>1. PICK a \in Nat \ {0}, b \in Nat \ {0}, p \in Nat \ {0}, q \in Nat \ {0} :
          a = j.inY /\ b = j.outY /\ p = y.in /\ q = y.out
    BY <1>1, <1>2, Zenon
  <2>2. Reduced(a, b, p, q)
    BY <1>2, <2>1, Zenon DEF Reduced
  <2>3. /\ \A n \in Nat \ {0} : q = n * p => p = 1
        /\ a = b => p = 1 /\ q = 1
        /\ 2 * q = p => p = 2 /\ q = 1
    BY <2>2, Ratios
  <2> QED
    BY <2>1, <2>3, Zenon
<1>7. ASSUME SimpleRatio(y) # 0
      PROVE  IF SimpleRatio(y) = 5 THEN y.in = 2 /\ y.out = 1 ELSE y.in = 1
  <2>1. CASE \E n \in 1..4 : y.out = n * y.in
    <3>1. PICK n \in 1..4 : y.out = n * y.in
      BY <2>1
    <3>2. n \in Nat \ {0}
      OBVIOUS
    <3>3. y.in = 1 /\ y.out = n
      BY <1>2, <1>5, <3>1, <3>2
    <3>4. SimpleRatio(y) = y.out \div y.in
      BY <2>1 DEF SimpleRatio
    <3>5. n \div 1 = n
      OBVIOUS
    <3> QED
      BY <3>3, <3>4, <3>5
  <2>2. CASE ~\E n \in 1..4 : y.out = n * y.in
    <3>1. 2 * y.out = y.in /\ SimpleRatio(y) = 5
      BY <1>7, <2>2 DEF SimpleRatio
    <3> QED
      BY <1>5, <3>1
  <2> QED
    BY <2>1, <2>2
<1>8. Setup(j).way \in Interpolating => y.in <= 2 * y.out
  BY <1>2, <1>3, <1>4 DEF Interpolating
<1> QED
  BY <1>2, <1>3, <1>4, <1>5, <1>7, <1>8 DEF Styled

-----------------------------------------------------------------------------
(* The refinement.                                                         *)

\* No job stretches or halves the bits of a B/W line by repeating: the code
\* makes such a line blank, which the run scaled_bw shows.
NoneStretched ==
  \A j \in Jobs :
    Setup(j).way = "multiply" /\ Setup(j).colour = "BW" => Setup(j).simpleX = 1

\* While a page is open, its lines made are those that can be made, a line
\* being put together for copying holds the planes given, and an
\* interpolating job is armed for the end of the page.
PictureInv ==
  /\ Listed(made)
  /\ Open => /\ Styled(job)
             /\ job.way = "multiply" /\ job.colour = "BW" => job.simpleX = 1
             /\ armed => Interpolates
  /\ ~ended =>
       /\ AsMade(made, job, Done(job, lines), lines)
       /\ Interpolates => armed
       /\ job.way = "multiply" => count = lines
       /\ job.way = "copy" =>
            /\ planes \in {1, 2} => partial["R"] = lines + 1
            /\ planes = 2 => partial["G"] = lines + 1

Moves == [Resampler!Next]_(Resampler!vars)

LEMMA OpenInit ==
  ASSUME NoneStretched, NEW j \in Jobs, ChangeResoInit(j)
  PROVE  PictureInv' /\ Moves
<1>1. /\ job' = IF Setup(j).way = "none" THEN NoJob ELSE Setup(j)
      /\ made' = <<>> /\ lines' = 0 /\ ended' = TRUE /\ armed' = FALSE
  BY DEF ChangeResoInit
<1>2. Listed(made')
  <2>1. <<>> \in Seq({})
    OBVIOUS
  <2> QED
    BY <1>1, <2>1 DEF Listed
<1>3. Open' => /\ Styled(job')
               /\ job'.way = "multiply" /\ job'.colour = "BW" => job'.simpleX = 1
  BY <1>1, JobStyled DEF Open, NoneStretched
<1>4. Style' \in Resampler!Styles
  <2>1. CASE ~Open'
    BY <2>1 DEF Style, Open, Resampler!Styles
  <2>2. CASE Open'
    BY <2>2, <1>3 DEF Style, Open, Styled, Resampler!Styles
  <2> QED
    BY <2>1, <2>2
<1>5. [i \in DOMAIN made |-> Seen(made[i])]' = <<>>
  BY <1>1
<1>6. Resampler!NewJob
  BY <1>1, <1>4, <1>5 DEF Resampler!NewJob
<1> QED
  BY <1>1, <1>2, <1>3, <1>6 DEF PictureInv, Moves, Resampler!Next

LEMMA OpenStart ==
  ASSUME PictureInv, ChangeResoWriteStart
  PROVE  PictureInv' /\ Moves
<1>1. /\ Open /\ job' = job /\ made' = <<>> /\ lines' = 0 /\ ended' = FALSE /\ planes' = 0
      /\ count' = 0 /\ armed' = (armed \/ Interpolates)
  BY DEF ChangeResoWriteStart
<1>2. Styled(job)
  BY <1>1 DEF PictureInv
<1>3. Done(job, 0) = 0
  BY <1>2, Wholes DEF Done
<1>4. Listed(<<>>) /\ Len(<<>>) = 0
  <2>1. <<>> \in Seq({}) /\ Len(<<>>) = 0
    OBVIOUS
  <2> QED
    BY <2>1 DEF Listed
<1>5. AsMade(made', job', Done(job', lines'), lines')
  BY <1>1, <1>3, <1>4 DEF AsMade
<1>6. [i \in DOMAIN made |-> Seen(made[i])]' = <<>>
  BY <1>1
<1>7. Resampler!NewPage
  BY <1>1, <1>6 DEF Resampler!NewPage, Style
<1>8. Listed(made')
  BY <1>1, <1>4
<1>9. PictureInv'
  <2>1. Open' => /\ Styled(job')
                 /\ job'.way = "multiply" /\ job'.colour = "BW" => job'.simpleX = 1
                 /\ armed' => Interpolates'
    BY <1>1 DEF PictureInv, Open, Interpolates
  <2>2. Interpolates' => armed'
    BY <1>1 DEF Interpolates
  <2> QED
    BY <1>1, <1>5, <1>8, <2>1, <2>2 DEF PictureInv
<1> QED
  BY <1>7, <1>9 DEF Moves, Resampler!Next

LEMMA OpenClose ==
  ASSUME ChangeResoClose
  PROVE  PictureInv' /\ Moves
<1>1. job' = NoJob /\ made' = <<>> /\ lines' = 0 /\ ended' = TRUE
  BY DEF ChangeResoClose
<1>2. Listed(made')
  <2>1. <<>> \in Seq({})
    OBVIOUS
  <2> QED
    BY <1>1, <2>1 DEF Listed
<1>3. Style' \in Resampler!Styles
  BY <1>1 DEF Style, Resampler!Styles
<1>4. [i \in DOMAIN made |-> Seen(made[i])]' = <<>>
  BY <1>1
<1>5. Resampler!NewJob
  BY <1>1, <1>3, <1>4 DEF Resampler!NewJob
<1> QED
  BY <1>1, <1>2, <1>5 DEF PictureInv, Moves, Resampler!Next, Open

\* A call that goes on with a page.
LEMMA GoingOn ==
  ASSUME PictureInv, Open, job' = job, armed' = armed, ended' = ended, ~ended,
         AsMade(made', job, Done(job, lines'), lines'),
         job.way = "multiply" => count' = lines',
         job.way = "copy" => /\ planes' \in {1, 2} => partial'["R"] = lines' + 1
                             /\ planes' = 2 => partial'["G"] = lines' + 1
  PROVE  PictureInv'
  BY DEF PictureInv, Open, Interpolates, AsMade

LEMMA FeedPlane ==
  ASSUME Inv, PictureInv, NEW kind \in Kinds, Open, ~ended, InTurn(kind), FillPlane(kind)
  PROVE  PictureInv' /\ Moves
<1>1. /\ job' = job /\ armed' = armed /\ ended' = ended /\ lines' = lines
      /\ made' = made \o <<>> /\ count' = count /\ planes' = planes + PlaneCount(kind)
      /\ planes + PlaneCount(kind) <= 2 /\ job.colour = "RGB"
  BY DEF FillPlane, Deliver
<1>2. made' = made
  <2>1. PICK S : made \in Seq(S)
    BY DEF PictureInv, Listed
  <2> QED
    BY <1>1, <2>1
<1>3. /\ kind \in Planes /\ planes' = planes + 1 /\ planes' \in {1, 2}
      /\ planes = 0 => kind = "R"
      /\ planes = 1 => kind = "G"
      /\ planes = 0 \/ planes = 1
  BY <1>1 DEF PlaneCount, InTurn, Kinds, Planes, Inv, TypeOK
<1>4. ASSUME job.way = "copy"
      PROVE  /\ partial'["R"] = lines' + 1
             /\ planes' = 2 => partial'["G"] = lines' + 1
  <2>1. partial' = Fill(partial, kind, lines + 1)
    BY <1>4 DEF FillPlane, Interpolates, Interpolating
  <2>2. partial \in [Planes -> Int] /\ lines + 1 \in Int
    BY DEF Inv, TypeOK
  <2>3. /\ kind = "R" => partial'["R"] = lines + 1
        /\ kind = "G" => partial'["G"] = lines + 1 /\ partial'["R"] = partial["R"]
    BY <2>1, <2>2, Filling
  <2>4. planes = 1 => partial["R"] = lines + 1
    BY <1>4 DEF PictureInv
  <2> QED
    BY <1>1, <1>3, <2>3, <2>4
<1>5. PictureInv'
  BY <1>1, <1>2, <1>4, GoingOn DEF PictureInv
<1>6. UNCHANGED Resampler!vars
  BY <1>1, <1>2 DEF Resampler!vars, Style
<1> QED
  BY <1>5, <1>6 DEF Moves

LEMMA FeedWindow ==
  ASSUME Inv, Inv', PictureInv, NEW kind \in Kinds, Open, ~ended, lines < MaxLines,
         WriteInterpolated(kind)
  PROVE  PictureInv' /\ Moves
<1> DEFINE n   == lines + 1
           new == Interpolated(slot', next', count')
<1>1. /\ job' = job /\ armed' = armed /\ ended' = ended /\ lines' = n /\ planes' = 0
      /\ made' = made \o new /\ count' = count + 1 /\ Interpolates
  BY DEF WriteInterpolated, Deliver
<1>2. count = lines /\ lines \in Nat /\ count' = n /\ n \in Nat
  <2>1. lines \in 0..MaxLines /\ MaxLines \in Int
    BY Limits DEF Inv, TypeOK
  <2> QED
    BY <1>1, <2>1 DEF Inv, CountInv
<1>3. Styled(job) /\ AsMade(made, job, Done(job, lines), lines)
  BY DEF PictureInv
<1>4. Adding(new, lines)
  <2>1. CASE n <= 2
    <3>1. new = <<>>
      BY <1>2, <2>1 DEF Interpolated
    <3>2. Done(job, n) = 0 /\ Done(job, lines) = 0
      BY <1>1, <1>2, <2>1 DEF Done, Interpolates
    <3>3. <<>> \in Seq({}) /\ Len(<<>>) = 0
      OBVIOUS
    <3>4. Done(job, n) = Done(job, lines) + 0
      BY <3>2
    <3> HIDE DEF new
    <3> QED
      BY <3>1, <3>3, <3>4 DEF Listed, Adding
  <2>2. CASE ~(n <= 2)
    <3>1. Holding(slot', next', n, n)
      <4>1. ASSUME NEW y \in 0..3 PROVE Fetch(slot', next', y) = PageLine(n - 3 + y, n, job.colour)
        <5>1. Due(y)' /\ Open' /\ Interpolates' /\ ~ended'
          BY <1>1, <1>2, <2>2 DEF Due, Open, Interpolates
        <5>2. Fetch(slot', next', y) = Kept(count - 3 + y)'
          BY <5>1 DEF Inv, WindowInv
        <5>3. Kept(count - 3 + y)' = PageLine(count' - 3 + y, lines', job'.colour)
          BY DEF Kept, PageLine
        <5> QED
          BY <1>1, <1>2, <5>2, <5>3
      <4> QED
        BY <4>1 DEF Holding
    <3> DEFINE d == WholeOf(job, n - 2) - WholeOf(job, n - 3)
               c == WholeOf(job, n - 3)
    <3>2. /\ Listed(new) /\ Len(new) = d /\ c \in Nat /\ d \in Nat
          /\ \A i \in 1..d : Seen(new[i]) = LineOf(job, c + i - 1, n)
      <4>1. n > 2 /\ new = Interpolated(slot', next', n)
        BY <1>2, <2>2
      <4> QED
        BY <1>1, <1>2, <1>3, <3>1, <4>1, Making
    <3>3. Done(job, lines) = c
      <4>1. CASE lines <= 2
        <5>1. n - 3 = 0
          BY <1>2, <2>2, <4>1
        <5> QED
          BY <1>1, <1>3, <4>1, <5>1, Wholes DEF Done, Interpolates
      <4>2. CASE ~(lines <= 2)
        <5>1. n - 3 = lines - 2
          BY <1>2
        <5> QED
          BY <1>1, <4>2, <5>1 DEF Done, Interpolates
      <4> QED
        BY <4>1, <4>2
    <3>4. Done(job, n) = WholeOf(job, n - 2) /\ WholeOf(job, n - 2) \in Nat
      <4>1. Done(job, n) = WholeOf(job, n - 2)
        BY <1>1, <2>2 DEF Done, Interpolates
      <4> QED
        BY <1>2, <1>3, <4>1, DoneBounds
    <3>5. Done(job, n) = Done(job, lines) + d
      <4> DEFINE w == WholeOf(job, n - 2)
      <4>1. w \in Nat /\ c \in Nat /\ d = w - c
        BY <3>2, <3>4
      <4> HIDE DEF w, c, d
      <4>2. c + d = w
        BY <4>1
      <4> QED
        BY <3>3, <3>4, <4>2 DEF w
    <3> HIDE DEF d, c, new
    <3> QED
      BY <3>2, <3>3, <3>5 DEF Adding
  <2> QED
    BY <2>1, <2>2
<1> HIDE DEF new
<1>5. AsMade(made', job, Done(job, lines'), lines') /\ Resampler!Feed
  BY <1>1, <1>2, <1>3, <1>4, Feeding
<1>6. job.way \notin {"multiply", "copy"}
  BY <1>1 DEF Interpolates, Interpolating
<1>7. PictureInv'
  BY <1>1, <1>5, <1>6, GoingOn
<1> QED
  BY <1>5, <1>7 DEF Moves, Resampler!Next

LEMMA FeedRepeated ==
  ASSUME Inv, PictureInv, Open, ~ended, NEW kind \in Kinds, WriteRepeated(kind)
  PROVE  PictureInv' /\ Moves
<1> DEFINE n   == lines + 1
           new == Repeated(Line(n), count)
           in  == job.y.in
           out == job.y.out
           f   == Up((lines % in) * out, in)
           g   == Up(((lines % in) + 1) * out, in)
<1>1. /\ job' = job /\ armed' = armed /\ ended' = ended /\ lines' = n /\ count' = count + 1
      /\ made' = made \o new /\ job.way = "multiply"
  BY DEF WriteRepeated, Deliver
<1>2. /\ count = lines /\ Styled(job) /\ AsMade(made, job, Done(job, lines), lines)
      /\ job.colour = "BW" => job.simpleX = 1
  BY <1>1 DEF PictureInv
<1>3. lines \in Nat /\ n \in Nat
  <2>1. lines \in 0..MaxLines /\ MaxLines \in Int
    BY Limits DEF Inv, TypeOK
  <2> QED
    BY <2>1
<1>4. /\ out \in Nat \ {0}
      /\ job.simpleY = 5 => in = 2 /\ out = 1
      /\ job.simpleY # 5 => in = 1
  BY <1>1, <1>2 DEF Styled
<1>5. \A i : Seen([phase |-> i - 1, rows |-> <<Expanded(Line(n))>>])
               = [phase |-> i - 1, rows |-> [r \in 1..1 |-> n]]
  <2>1. Expanded(Line(n)) = Line(n)
    BY <1>2 DEF Expanded
  <2>2. RowOf(Line(n)) = n
    BY <1>3 DEF RowOf, Line, Planes
  <2>3. <<Line(n)>> = [r \in 1..1 |-> Line(n)]
    BY SMT
  <2>4. [r \in DOMAIN <<Line(n)>> |-> RowOf(<<Line(n)>>[r])] = [r \in 1..1 |-> n]
    BY <2>2, <2>3
  <2> QED
    BY <2>1, <2>4 DEF Seen
<1> HIDE DEF in, out
<1>6. /\ f \in Nat /\ g \in Nat /\ g - f \in Nat
      /\ IF job.simpleY = 5 /\ lines % 2 = 1 THEN g - f = 0 ELSE f = 0 /\ g = out
  <2>1. CASE job.simpleY = 5
    <3>1. in = 2 /\ out = 1
      BY <1>4, <2>1
    <3>2. (lines % 2 = 0 /\ (lines % 2) * 1 = 0) \/ (lines % 2 = 1 /\ (lines % 2) * 1 = 1)
      BY <1>3
    <3>3. Up(0, 2) = 0 /\ Up(1, 2) = 1 /\ Up(2, 2) = 1
      BY DEF Up
    <3>4. CASE lines % 2 = 0
      <4>1. (lines % 2) * 1 = 0 /\ ((lines % 2) + 1) * 1 = 1
        BY <3>4
      <4>2. f = 0 /\ g = 1
        BY <3>1, <3>3, <4>1
      <4> HIDE DEF f, g
      <4> QED
        BY <3>1, <3>4, <4>2
    <3>5. CASE lines % 2 = 1
      <4>1. (lines % 2) * 1 = 1 /\ ((lines % 2) + 1) * 1 = 2
        BY <3>5
      <4>2. f = 1 /\ g = 1
        BY <3>1, <3>3, <4>1
      <4> HIDE DEF f, g
      <4> QED
        BY <2>1, <3>5, <4>2
    <3> QED
      BY <3>2, <3>4, <3>5
  <2>2. CASE job.simpleY # 5
    <3>1. in = 1
      BY <1>4, <2>2
    <3>2. lines % 1 = 0 /\ 0 * out = 0 /\ (0 + 1) * out = out
      BY <1>3, <1>4
    <3>3. Up(0, 1) = 0 /\ Up(out, 1) = out
      BY <1>4 DEF Up
    <3>4. f = 0 /\ g = out
      BY <3>1, <3>2, <3>3
    <3> HIDE DEF f, g
    <3> QED
      BY <1>4, <2>2, <3>4
  <2> QED
    BY <2>1, <2>2
<1> HIDE DEF f, g
<1> DEFINE d == g - f
<1>7. Shown(new, f, d, n)
  <2>1. CASE job.simpleY = 5 /\ lines % 2 = 1
    <3>1. new = <<>>
      BY <1>2, <2>1 DEF Repeated
    <3>2. <<>> \in Seq({}) /\ Len(<<>>) = 0
      OBVIOUS
    <3>3. d = 0
      BY <1>6, <2>1
    <3> HIDE DEF new, d
    <3> QED
      BY <3>1, <3>2, <3>3 DEF Listed, Shown
  <2>2. CASE ~(job.simpleY = 5 /\ lines % 2 = 1)
    <3>1. f = 0 /\ d = out /\ d \in Nat
      BY <1>4, <1>6, <2>2
    <3>2. new = [i \in 1..d |-> [phase |-> i - 1, rows |-> <<Expanded(Line(n))>>]]
      BY <1>2, <2>2, <3>1 DEF Repeated, out
    <3>3. new = [i \in 1..d |-> new[i]]
      BY <3>2
    <3>4. \A i \in 1..d : Seen(new[i]) = [phase |-> f + i - 1, rows |-> [r \in 1..1 |-> n]]
      <4>1. \A i \in 1..d : f + i - 1 = i - 1
        BY <3>1
      <4> HIDE DEF d
      <4> QED
        BY <1>5, <3>2, <4>1
    <3> HIDE DEF new, d
    <3>5. new \in Seq({new[i] : i \in 1..d}) /\ Len(new) = d
      BY <3>1, <3>3, Sequence
    <3> QED
      BY <3>4, <3>5 DEF Listed, Shown
  <2> QED
    BY <2>1, <2>2
<1>8. ~Interpolates
  BY <1>1 DEF Interpolates, Interpolating
<1>9. d \in Nat /\ f + d = g
  BY <1>6
<1> HIDE DEF new, d
<1>10. Adding(new, lines)
  <2>1. OnIt(job.y.in, job.y.out, lines, f, d, WholeOf(job, lines))
    BY <1>9, Zenon DEF OnIt, WholeOf, f, g, in, out
  <2>2. Shown(new, f, d, lines + 1)
    BY <1>7
  <2>3. f \in Nat /\ d \in Nat
    BY <1>6, <1>9
  <2> QED
    BY <1>2, <1>3, <1>8, <2>1, <2>2, <2>3, Repeating
<1>11. AsMade(made', job, Done(job, lines'), lines') /\ Resampler!Feed
  BY <1>1, <1>2, <1>3, <1>10, Feeding
<1>12. PictureInv'
  BY <1>1, <1>2, <1>11, GoingOn
<1> QED
  BY <1>11, <1>12 DEF Moves, Resampler!Next

LEMMA FeedCopy ==
  ASSUME Inv, PictureInv, Open, ~ended, NEW kind \in Kinds, InTurn(kind), WriteCopy(kind)
  PROVE  PictureInv' /\ Moves
<1> DEFINE n   == lines + 1
           put == Fill(partial, kind, n)
           new == <<[phase |-> 0, rows |-> <<put>>]>>
<1>1. /\ job' = job /\ armed' = armed /\ ended' = ended /\ lines' = n /\ planes' = 0
      /\ made' = made \o new /\ job.way = "copy"
  BY DEF WriteCopy, Deliver
<1>2. /\ Styled(job) /\ AsMade(made, job, Done(job, lines), lines)
      /\ job.y.in = 1 /\ job.y.out = 1
  BY <1>1 DEF PictureInv, Styled
<1>3. lines \in Nat /\ n \in Nat
  <2>1. lines \in 0..MaxLines /\ MaxLines \in Int
    BY Limits DEF Inv, TypeOK
  <2> QED
    BY <2>1
<1>4. put = Line(n)
  <2>1. partial \in [Planes -> Int] /\ n \in Int
    BY <1>3 DEF Inv, TypeOK
  <2>2. CASE kind = "whole"
    BY <2>1, <2>2, Filling
  <2>3. CASE kind # "whole"
    <3>1. kind \in Planes /\ job.colour = "RGB"
      BY <2>3 DEF InTurn, Kinds
    <3>2. planes + 1 > 2 /\ planes \in 0..2
      BY <3>1 DEF WriteCopy, Completes, PlaneCount, Inv, TypeOK
    <3>3. planes = 2 /\ kind = "B"
      BY <3>1, <3>2 DEF InTurn, Planes
    <3>4. partial["R"] = n /\ partial["G"] = n
      BY <1>1, <3>3 DEF PictureInv
    <3> QED
      BY <2>1, <3>3, <3>4, Filling
  <2> QED
    BY <2>2, <2>3
<1> HIDE DEF put
<1>5. Shown(new, 0, 1, n)
  <2>1. new \in Seq({[phase |-> 0, rows |-> <<put>>]}) /\ Len(new) = 1
    OBVIOUS
  <2>2. Seen(new[1]) = [phase |-> 0, rows |-> [r \in 1..1 |-> n]]
    <3>1. RowOf(put) = n
      BY <1>3, <1>4 DEF RowOf, Line, Planes
    <3>2. <<put>> = [r \in 1..1 |-> put]
      BY SMT
    <3>3. [r \in DOMAIN <<put>> |-> RowOf(<<put>>[r])] = [r \in 1..1 |-> n]
      BY <3>1, <3>2
    <3> QED
      BY <3>3 DEF Seen
  <2> HIDE DEF new
  <2>3. \A i \in 1..1 : i = 1 /\ 0 + i - 1 = 0
    OBVIOUS
  <2> QED
    BY <2>1, <2>2, <2>3 DEF Shown, Listed
<1> HIDE DEF new
<1>6. Adding(new, lines)
  <2>1. PICK f \in Nat, d \in Nat : f = 0 /\ d = 1
    OBVIOUS
  <2>2. OnIt(1, 1, lines, f, d, Up(lines * 1, 1))
    <3>1. lines % 1 = 0 /\ Up(0 * 1, 1) = 0 /\ Up((0 + 1) * 1, 1) = 1
      BY <1>3 DEF Up
    <3>2. f = Up((lines % 1) * 1, 1) /\ f + d = Up(((lines % 1) + 1) * 1, 1)
      BY <2>1, <3>1
    <3> QED
      BY <3>2, Zenon DEF OnIt
  <2>3. OnIt(job.y.in, job.y.out, lines, f, d, WholeOf(job, lines))
    BY <1>2, <2>2, Zenon DEF WholeOf
  <2>4. Shown(new, f, d, lines + 1)
    BY <1>5, <2>1
  <2>5. ~Interpolates
    BY <1>1 DEF Interpolates, Interpolating
  <2> QED
    BY <1>2, <1>3, <2>3, <2>4, <2>5, Repeating
<1>7. AsMade(made', job, Done(job, lines'), lines') /\ Resampler!Feed
  BY <1>1, <1>2, <1>3, <1>6, Feeding
<1>8. PictureInv'
  BY <1>1, <1>2, <1>7, GoingOn
<1> QED
  BY <1>7, <1>8 DEF Moves, Resampler!Next

\* After the end of the page nothing is left to be kept but the lines made.
LEMMA Ended ==
  ASSUME PictureInv, Open, job' = job, ended', armed' => armed, Listed(made')
  PROVE  PictureInv'
  BY DEF PictureInv, Open, Interpolates

\* The newest line is given twice more.
Behind(m, n) == m = n + 1

LEMMA DoublingTwice ==
  ASSUME NEW window \in [Slots -> [Planes -> Int]], NEW at \in Slots,
         NEW n \in Nat, NEW m \in Nat, Behind(m, n), n > 2, n <= 65533,
         \A y \in 1..3 : Fetch(window, at, y) = PageLine(n - 3 + y, n, job.colour)
  PROVE  LET once  == Push(window, at, n, Newest(window, at))
             twice == Push(once, After(at), m, Newest(once, After(at)))
         IN  Holding(once, After(at), m, n) /\ Holding(twice, After(After(at)), m + 1, n)
<1> DEFINE once  == Push(window, at, n, Newest(window, at))
           twice == Push(once, After(at), m, Newest(once, After(at)))
<1>1. once \in [Slots -> [Planes -> Int]] /\ Holding(once, After(at), n + 1, n)
  <2>1. n < 65536 /\ n > 0 /\ n >= n
    OBVIOUS
  <2> QED
    BY <2>1, Doubling
<1>2. Holding(once, After(at), m, n)
  BY <1>1 DEF Behind
<1> HIDE DEF once
<1>3. \A y \in 1..3 : Fetch(once, After(at), y) = PageLine(m - 3 + y, n, job.colour)
  BY <1>2 DEF Holding
<1>4. After(at) \in Slots /\ m > 2 /\ m < 65536 /\ n > 0 /\ m >= n
  BY Turning DEF Behind
<1>5. twice \in [Slots -> [Planes -> Int]] /\ Holding(twice, After(After(at)), m + 1, n)
  BY <1>1, <1>3, <1>4, Doubling
<1> QED
  BY <1>2, <1>5 DEF once

\* The end of the page makes the lines that lie on its last two.
LEMMA LastLines ==
  ASSUME Inv, PictureInv, Open, ~ended, EndWindow
  PROVE  Interpolates /\ lines \in Nat /\ lines > 2 /\ AsMade(made', job, WholeOf(job, lines), lines)
<1> DEFINE n      == lines
           at     == After(next)
           once   == Push(slot, next, count, Newest(slot, next))
           twice  == Push(once, at, count + 1, Newest(once, at))
           first  == Interpolated(once, at, count + 1)
           second == Interpolated(twice, After(at), count + 2)
           w0     == WholeOf(job, n - 2)
           w1     == WholeOf(job, n - 1)
           w2     == WholeOf(job, n)
<1>1. /\ armed /\ count > 2 /\ made' = made \o (first \o second)
      /\ Styled(job) /\ Interpolates /\ AsMade(made, job, Done(job, n), n)
  BY DEF EndWindow, Deliver, PictureInv
<1>2. /\ count = n /\ n \in Nat /\ n > 2 /\ n <= 65533
      /\ next \in Slots /\ slot \in [Slots -> [Planes -> Int]]
  <2>1. lines \in 0..MaxLines /\ next \in Slots /\ slot \in [Slots -> [Planes -> Int]]
    BY DEF Inv, TypeOK
  <2>2. count = n
    BY <1>1 DEF Inv, CountInv
  <2>3. n \in Nat /\ n <= 65533
    BY <2>1, Limits
  <2> QED
    BY <1>1, <2>1, <2>2, <2>3
<1>3. \A y \in 1..3 : Fetch(slot, next, y) = PageLine(n - 3 + y, n, job.colour)
  <2> SUFFICES ASSUME NEW y \in 1..3
               PROVE  Fetch(slot, next, y) = PageLine(n - 3 + y, n, job.colour)
    OBVIOUS
  <2>1. y \in 0..3 /\ Due(y)
    BY <1>2 DEF Due
  <2>2. Fetch(slot, next, y) = Kept(count - 3 + y)
    BY <1>1, <2>1 DEF Inv, WindowInv
  <2> QED
    BY <1>2, <2>2 DEF Kept, PageLine
<1>4. Holding(once, at, n + 1, n) /\ Holding(twice, After(at), n + 2, n)
  <2>1. PICK m \in Nat : m = n + 1
    BY <1>2
  <2>2. m + 1 = n + 2
    BY <1>2, <2>1
  <2>3. /\ Holding(Push(slot, next, n, Newest(slot, next)), After(next), m, n)
        /\ Holding(Push(Push(slot, next, n, Newest(slot, next)), After(next), m,
                        Newest(Push(slot, next, n, Newest(slot, next)), After(next))),
                   After(After(next)), m + 1, n)
    <3> HIDE DEF n
    <3>1. Behind(m, n)
      BY <2>1 DEF Behind
    <3> QED
      BY <1>2, <1>3, <3>1, DoublingTwice
  <2>4. /\ once = Push(slot, next, n, Newest(slot, next)) /\ m = count + 1
        /\ twice = Push(once, at, m, Newest(once, at))
    BY <1>2, <2>1
  <2> HIDE DEF once, twice, n
  <2>5. Holding(once, at, m, n) /\ Holding(twice, After(at), m + 1, n)
    BY <2>3, <2>4, Zenon
  <2> QED
    BY <2>1, <2>2, <2>5, Zenon
<1> HIDE DEF once, twice, at
<1>7. /\ Listed(first) /\ Len(first) = w1 - w0 /\ w0 \in Nat /\ w1 - w0 \in Nat
      /\ \A i \in 1..(w1 - w0) : Seen(first[i]) = LineOf(job, w0 + i - 1, n)
  <2>1. n + 1 \in Nat /\ n + 1 > 2 /\ n + 1 - 3 = n - 2 /\ n + 1 - 2 = n - 1
    BY <1>2
  <2>2. first = Interpolated(once, at, n + 1)
    BY <1>2
  <2> HIDE DEF n, first
  <2>3. LET new == Interpolated(once, at, n + 1)
            c   == WholeOf(job, n + 1 - 3)
            d   == WholeOf(job, n + 1 - 2) - WholeOf(job, n + 1 - 3)
        IN  /\ Listed(new) /\ Len(new) = d /\ c \in Nat /\ d \in Nat
            /\ \A i \in 1..d : Seen(new[i]) = LineOf(job, c + i - 1, n)
    BY <1>1, <1>2, <1>4, <2>1, Making
  <2> QED
    BY <2>1, <2>2, <2>3, Zenon
<1>8. /\ Listed(second) /\ Len(second) = w2 - w1 /\ w1 \in Nat /\ w2 - w1 \in Nat
      /\ \A i \in 1..(w2 - w1) : Seen(second[i]) = LineOf(job, w1 + i - 1, n)
  <2>1. n + 2 \in Nat /\ n + 2 > 2 /\ n + 2 - 3 = n - 1 /\ n + 2 - 2 = n
    BY <1>2
  <2>2. second = Interpolated(twice, After(at), n + 2)
    BY <1>2
  <2> HIDE DEF n, second
  <2>3. LET new == Interpolated(twice, After(at), n + 2)
            c   == WholeOf(job, n + 2 - 3)
            d   == WholeOf(job, n + 2 - 2) - WholeOf(job, n + 2 - 3)
        IN  /\ Listed(new) /\ Len(new) = d /\ c \in Nat /\ d \in Nat
            /\ \A i \in 1..d : Seen(new[i]) = LineOf(job, c + i - 1, n)
    BY <1>1, <1>2, <1>4, <2>1, Making
  <2> QED
    BY <2>1, <2>2, <2>3, Zenon
<1>9. Done(job, n) = w0
  BY <1>1, <1>2 DEF Done, Interpolates
<1> HIDE DEF first, second, w0, w1, w2
<1>10. AsMade(made \o first, job, w1, n)
  <2>1. w0 + (w1 - w0) = w1
    BY <1>7, <1>8
  <2>2. AsMade(made \o first, job, w0 + (w1 - w0), n)
    BY <1>1, <1>7, <1>9, Appending
  <2> QED
    BY <2>1, <2>2
<1>11. AsMade((made \o first) \o second, job, w2, n)
  <2>1. w1 + (w2 - w1) = w2
    <3>1. \E v \in Int : v = w2
      BY <1>2, <1>1, Wholes DEF w2
    <3> QED
      BY <1>8, <3>1
  <2>2. AsMade((made \o first) \o second, job, w1 + (w2 - w1), n)
    BY <1>8, <1>10, Appending
  <2> QED
    BY <2>1, <2>2
<1>12. (made \o first) \o second = made \o (first \o second)
  <2>1. PICK S : made \in Seq(S)
    BY <1>1 DEF AsMade, Listed
  <2>2. PICK T : first \in Seq(T)
    BY <1>7 DEF Listed
  <2>3. PICK U : second \in Seq(U)
    BY <1>8 DEF Listed
  <2>4. made \in Seq(S \cup T \cup U) /\ first \in Seq(S \cup T \cup U) /\ second \in Seq(S \cup T \cup U)
    BY <2>1, <2>2, <2>3
  <2> QED
    BY <2>4
<1> QED
  BY <1>1, <1>2, <1>11, <1>12 DEF w2

LEMMA Finishing ==
  ASSUME Inv, PictureInv, ChangeResoWriteEnd
  PROVE  PictureInv' /\ Moves
<1>1. Open /\ ~ended /\ ended' = TRUE /\ lines' = lines /\ (EndWindow \/ EndNothing)
  BY DEF ChangeResoWriteEnd
<1>2. job' = job /\ (armed' => armed) /\ Style' = Style
  BY <1>1 DEF EndWindow, EndNothing, Style
<1>3. /\ Styled(job) /\ AsMade(made, job, Done(job, lines), lines)
      /\ Interpolates => armed
      /\ Listed(made)
  BY <1>1 DEF PictureInv
<1>4. lines \in Nat
  <2>1. lines \in 0..MaxLines /\ MaxLines \in Int
    BY Limits DEF Inv, TypeOK
  <2> QED
    BY <2>1
<1>5. WholeOf(job, lines) \in Nat
  BY <1>3, <1>4, Wholes
<1>6. CASE EndWindow
  <2>1. Interpolates /\ lines > 2 /\ AsMade(made', job, WholeOf(job, lines), lines)
    BY <1>1, <1>6, LastLines
  <2>2. [i \in DOMAIN made' |-> Seen(made'[i])] = Resampler!Lines(WholeOf(job, lines), lines)
    BY <1>1, <1>3, <1>5, <2>1, Drawn
  <2>3. Resampler!Whole(lines) = WholeOf(job, lines) /\ ~(lines < 3)
    BY <1>1, <1>3, <1>4, <2>1, Words
  <2>4. Resampler!Finish
    BY <1>1, <1>2, <2>2, <2>3 DEF Resampler!Finish
  <2>5. Listed(made')
    BY <2>1 DEF AsMade
  <2>6. PictureInv'
    BY <1>1, <1>2, <2>5, Ended
  <2> QED
    BY <2>4, <2>6 DEF Moves, Resampler!Next
<1>7. CASE EndNothing
  <2>1. made' = made
    <3>1. made' = made \o <<>>
      BY <1>7 DEF EndNothing, Deliver
    <3>2. PICK S : made \in Seq(S)
      BY <1>3 DEF Listed
    <3> QED
      BY <3>1, <3>2
  <2>2. ASSUME Interpolates PROVE Resampler!Finish
    <3>1. count = lines /\ ~(count > 2)
      BY <1>1, <1>3, <1>7, <2>2 DEF Inv, CountInv, EndNothing
    <3>2. lines < 3
      BY <1>4, <3>1
    <3>3. Resampler!Interpolates
      BY <1>1, <1>3, <2>2, Words
    <3> QED
      BY <1>1, <1>2, <2>1, <3>2, <3>3 DEF Resampler!Finish
  <2>3. ASSUME ~Interpolates PROVE Resampler!Finish
    <3>1. Done(job, lines) = WholeOf(job, lines)
      BY <2>3 DEF Done, Interpolates
    <3>2. [i \in DOMAIN made |-> Seen(made[i])] = Resampler!Lines(WholeOf(job, lines), lines)
      BY <1>1, <1>3, <1>5, <3>1, Drawn
    <3>3. Resampler!Whole(lines) = WholeOf(job, lines) /\ ~Resampler!Interpolates
      BY <1>1, <1>3, <2>3, Words
    <3> QED
      BY <1>1, <1>2, <2>1, <3>2, <3>3 DEF Resampler!Finish
  <2>4. Resampler!Finish
    BY <2>2, <2>3
  <2>5. PictureInv'
    BY <1>1, <1>2, <1>3, <2>1, Ended
  <2> QED
    BY <2>4, <2>5 DEF Moves, Resampler!Next
<1> QED
  BY <1>1, <1>6, <1>7

LEMMA PictureStarts == Init => PictureInv /\ Resampler!Init
<1> SUFFICES ASSUME Init PROVE PictureInv /\ Resampler!Init
  OBVIOUS
<1>1. job = NoJob /\ made = <<>> /\ lines = 0 /\ ended
  BY DEF Init
<1>2. Listed(made)
  <2>1. <<>> \in Seq({})
    OBVIOUS
  <2> QED
    BY <1>1, <2>1 DEF Listed
<1>3. Resampler!Init
  BY <1>1 DEF Resampler!Init, Resampler!Styles, Style
<1> QED
  BY <1>1, <1>2, <1>3 DEF PictureInv, Open

LEMMA PictureStep ==
  ASSUME NoneStretched, Inv, Inv', PictureInv, [Next]_vars
  PROVE  PictureInv' /\ Moves
<1>1. CASE \E j \in Jobs : ChangeResoInit(j)
  BY <1>1, OpenInit
<1>2. CASE ChangeResoWriteStart
  BY <1>2, OpenStart
<1>3. CASE \E kind \in Kinds : ChangeResoWrite(kind)
  <2> PICK kind \in Kinds : ChangeResoWrite(kind)
    BY <1>3
  <2>1. Open /\ ~ended /\ lines < MaxLines /\ InTurn(kind)
    BY DEF ChangeResoWrite
  <2>2. CASE FillPlane(kind)
    BY <2>1, <2>2, FeedPlane
  <2>3. CASE WriteInterpolated(kind)
    BY <2>1, <2>3, FeedWindow
  <2>4. CASE WriteRepeated(kind)
    BY <2>1, <2>4, FeedRepeated
  <2>5. CASE WriteCopy(kind)
    BY <2>1, <2>5, FeedCopy
  <2> QED
    BY <2>2, <2>3, <2>4, <2>5 DEF ChangeResoWrite
<1>4. CASE ChangeResoWriteEnd
  BY <1>4, Finishing
<1>5. CASE ChangeResoClose
  BY <1>5, OpenClose
<1>6. CASE UNCHANGED vars
  <2>1. /\ job' = job /\ armed' = armed /\ ended' = ended /\ lines' = lines
        /\ made' = made /\ count' = count /\ planes' = planes /\ partial' = partial
    BY <1>6 DEF vars
  <2>2. UNCHANGED Resampler!vars
    BY <2>1 DEF Resampler!vars, Style
  <2>3. PictureInv'
    BY <2>1 DEF PictureInv, AsMade, Open, Interpolates
  <2> QED
    BY <2>2, <2>3 DEF Moves
<1> QED
  BY <1>1, <1>2, <1>3, <1>4, <1>5, <1>6 DEF Next

\* The window, the coefficients it is asked for and the two lines repeated at
\* the end of a page make a line resampler: for any ratio down the page, any
\* length of page and any of the four ways, with whole lines or with planes,
\* every line comes out of the lines around its own place, in order, none of
\* them left out or made twice - as long as no B/W line is to be stretched by
\* repeating its bits.
THEOREM Implements == NoneStretched => (Spec => Resamples)
<1>1. Init => PictureInv /\ Resampler!Init
  BY PictureStarts
<1>2. NoneStretched /\ Inv /\ Inv' /\ PictureInv /\ [Next]_vars => PictureInv' /\ Moves
  BY PictureStep
<1>3. Moves => [Resampler!Next]_(Resampler!vars)
  BY DEF Moves
<1> HIDE DEF NoneStretched
<1>4. SUFFICES ASSUME NoneStretched PROVE Spec => Resamples
  OBVIOUS
<1>5. Inv /\ Inv' /\ PictureInv /\ [Next]_vars => PictureInv' /\ Moves
  BY <1>2, <1>4
<1> QED
  BY <1>1, <1>3, <1>5, Invariance, PTL DEF Spec, Resamples, Resampler!Spec

-----------------------------------------------------------------------------
(* The places of the samples of a line made.                               *)

\* The setup p as far as places go.
Laid(p) ==
  /\ p.x.out \in Nat \ {0} /\ p.outBytes \in Nat
  /\ p.outPixels = OutPixels(p, p.outBytes)

ColumnsOf(p) ==
  0..((IF p.way = "cubic" /\ p.colour = "BW" THEN Grouped(p) ELSE p.outPixels) - 1)

SamplesOf(p) == (IF p.colour = "RGB" THEN Planes ELSE {"R"}) \X ColumnsOf(p)

LEMMA JobLaid ==
  ASSUME NEW j \in Jobs
  PROVE  Laid(Setup(j))
<1> DEFINE x == LowestTerms(j.inX, j.outX)
<1>1. x.in \in Nat \ {0} /\ x.out \in Nat \ {0}
  BY JobsAssumption, Lowest
<1>2. /\ Setup(j).x = x /\ Setup(j).outBytes = OutBytes(j, x) /\ Setup(j).colour = j.colour
      /\ Setup(j).outPixels = OutPixels(j, OutBytes(j, x))
  BY DEF Setup
<1> HIDE DEF x
<1>3. OutBytes(j, x) \in Nat
  BY <1>1, BytesOfLine
<1> QED
  BY <1>1, <1>2, <1>3 DEF Laid, OutPixels

\* A column has its place inside the line, and no two share one.
LEMMA PlacesApart ==
  ASSUME NEW p, Laid(p)
  PROVE  /\ ColumnsOf(p) \subseteq Nat /\ IsFiniteSet(ColumnsOf(p))
         /\ \A s \in SamplesOf(p) :
              Place(p, s[1], s[2]) \in 0..((IF p.colour = "BW" THEN 8 ELSE 1) * p.outBytes - 1)
         /\ \A s, t \in SamplesOf(p) :
              Place(p, s[1], s[2]) = Place(p, t[1], t[2]) => s = t
<1> DEFINE b == p.outBytes
           last == IF p.way = "cubic" /\ p.colour = "BW" THEN Grouped(p) ELSE p.outPixels
           end == (IF p.colour = "BW" THEN 8 ELSE 1) * b
<1>1. b \in Nat /\ p.outPixels = CASE p.colour = "BW" -> 8 * b
                                   [] p.colour = "RGB" -> b \div 3 [] OTHER -> b
  BY DEF Laid, OutPixels
<1>2. p.outPixels \in Nat
  <2>1. b \div 3 \in Nat
    BY <1>1
  <2> QED
    BY <1>1, <2>1
<1>3. Grouped(p) \in Int /\ Grouped(p) <= p.outPixels
  <2>1. PICK w \in Nat, o \in Nat \ {0} : w = p.outPixels /\ o = p.x.out
    BY <1>2 DEF Laid
  <2>2. w % o \in Int /\ 0 <= w % o
    BY Dividing
  <2> QED
    BY <2>1, <2>2 DEF Grouped, RoundDown
<1>4. last \in Int /\ last <= p.outPixels
  BY <1>2, <1>3
<1>5. ColumnsOf(p) = 0..(last - 1)
  BY DEF ColumnsOf
<1> HIDE DEF last, b
<1>6. ColumnsOf(p) \subseteq Nat /\ IsFiniteSet(ColumnsOf(p))
  BY <1>4, <1>5, FS_Interval
<1>7. ASSUME NEW c \in ColumnsOf(p) PROVE c \in Nat /\ c < last /\ c < p.outPixels
  BY <1>2, <1>4, <1>5
<1>8. ASSUME NEW a, NEW c \in ColumnsOf(p), p.colour # "RGB"
      PROVE  Place(p, a, c) = c /\ c < end
  <2>1. c < end
    BY <1>1, <1>7, <1>8
  <2>2. p.colour = "BW" => BitOf(p, c) = c
    <3>1. p.colour = "BW" /\ p.way = "cubic" => ~(c >= Grouped(p))
      BY <1>3, <1>7 DEF last
    <3> QED
      BY <3>1 DEF BitOf
  <2>3. Place(p, a, c) = IF p.colour = "BW" THEN BitOf(p, c) ELSE c
    BY <1>8, Zenon DEF Place
  <2> QED
    BY <2>1, <2>2, <2>3
<1> DEFINE w == p.outPixels
<1>9. ASSUME p.colour = "RGB"
      PROVE  w \in Nat /\ PlaneBytes(b) = w /\ 3 * w <= b /\ end = b
  BY <1>1, <1>9 DEF PlaneBytes
<1>10. ASSUME NEW a \in Planes, NEW c \in ColumnsOf(p), p.colour = "RGB"
       PROVE  Place(p, a, c) = IF p.order = "PLANE" THEN c + Offset("RGB", a) * w
                                                    ELSE 3 * c + Offset(p.order, a)
  <2>1. p.colour # "BW" /\ p.colour = "RGB" /\ PlaneBytes(p.outBytes) = w
    BY <1>9, <1>10 DEF b
  <2>2. CASE p.order = "PLANE"
    BY <2>1, <2>2 DEF Place
  <2>3. CASE p.order # "PLANE"
    BY <2>1, <2>3 DEF Place
  <2> QED
    BY <2>2, <2>3
<1>11. ASSUME NEW order
       PROVE  /\ \A a \in Planes : Offset(order, a) \in {0, 1, 2}
              /\ \A a, d \in Planes : Offset(order, a) = Offset(order, d) => a = d
  <2>1. CASE order = "BGR"
    <3>1. Offset(order, "R") = 2 /\ Offset(order, "G") = 1 /\ Offset(order, "B") = 0
      BY <2>1 DEF Offset
    <3> QED
      BY <3>1 DEF Planes
  <2>2. CASE order # "BGR"
    <3>1. Offset(order, "R") = 0 /\ Offset(order, "G") = 1 /\ Offset(order, "B") = 2
      BY <2>2 DEF Offset
    <3> QED
      BY <3>1 DEF Planes
  <2> QED
    BY <2>1, <2>2
<1> HIDE DEF w, end
<1>12. ASSUME NEW s \in SamplesOf(p) PROVE Place(p, s[1], s[2]) \in 0..(end - 1)
  <2>1. s[2] \in ColumnsOf(p) /\ (p.colour = "RGB" => s[1] \in Planes)
    BY DEF SamplesOf
  <2>2. PICK c \in Nat : c = s[2] /\ c < w
    BY <1>7, <2>1 DEF w
  <2>3. CASE p.colour # "RGB"
    BY <1>1, <1>8, <2>1, <2>2, <2>3 DEF end
  <2>4. CASE p.colour = "RGB"
    <3>1. PICK k \in {0, 1, 2} : k = Offset("RGB", s[1])
      BY <1>11, <2>1, <2>4
    <3>2. PICK l \in {0, 1, 2} : l = Offset(p.order, s[1])
      BY <1>11, <2>1, <2>4
    <3>3. Place(p, s[1], s[2]) = IF p.order = "PLANE" THEN c + k * w ELSE 3 * c + l
      BY <1>10, <2>1, <2>2, <2>4, <3>1, <3>2
    <3>4. c + k * w \in 0..(end - 1) /\ 3 * c + l \in 0..(end - 1)
      BY <1>1, <1>9, <2>2, <2>4
    <3> QED
      BY <3>3, <3>4
  <2> QED
    BY <2>3, <2>4
<1>13. ASSUME NEW s \in SamplesOf(p), NEW t \in SamplesOf(p),
              Place(p, s[1], s[2]) = Place(p, t[1], t[2])
       PROVE  s = t
  <2>1. /\ s = <<s[1], s[2]>> /\ t = <<t[1], t[2]>>
        /\ s[2] \in ColumnsOf(p) /\ t[2] \in ColumnsOf(p)
        /\ p.colour = "RGB" => s[1] \in Planes /\ t[1] \in Planes
        /\ p.colour # "RGB" => s[1] = t[1]
    BY DEF SamplesOf
  <2>2. CASE p.colour # "RGB"
    BY <1>8, <1>13, <2>1, <2>2
  <2>3. CASE p.colour = "RGB"
    <3>1. PICK c \in Nat, e \in Nat : c = s[2] /\ c < w /\ e = t[2] /\ e < w
      BY <1>7, <2>1 DEF w
    <3>2. CASE p.order = "PLANE"
      <4>1. PICK k \in {0, 1, 2}, l \in {0, 1, 2} : k = Offset("RGB", s[1]) /\ l = Offset("RGB", t[1])
        BY <1>11, <2>1, <2>3
      <4>2. c + k * w = e + l * w
        BY <1>10, <1>13, <2>1, <2>3, <3>1, <3>2, <4>1
      <4>3. k = l /\ c = e
        <5>1. w \in Nat /\ 0 * w = 0 /\ 1 * w = w /\ 2 * w = w + w
          BY <1>9, <2>3
        <5>2. PICK kw \in Nat, lw \in Nat : kw = k * w /\ lw = l * w
          BY <5>1
        <5>3. /\ (k = 0 /\ kw = 0) \/ (k = 1 /\ kw = w) \/ (k = 2 /\ kw = w + w)
              /\ (l = 0 /\ lw = 0) \/ (l = 1 /\ lw = w) \/ (l = 2 /\ lw = w + w)
          BY <5>1, <5>2
        <5>4. c + kw = e + lw
          BY <4>2, <5>2
        <5> QED
          BY <3>1, <5>1, <5>2, <5>3, <5>4
      <4>4. Offset("RGB", s[1]) = Offset("RGB", t[1]) /\ s[1] \in Planes /\ t[1] \in Planes
        BY <2>1, <2>3, <4>1, <4>3
      <4>5. s[1] = t[1]
        BY <1>11, <4>4
      <4> QED
        BY <2>1, <3>1, <4>3, <4>5
    <3>3. CASE p.order # "PLANE"
      <4>1. PICK k \in {0, 1, 2}, l \in {0, 1, 2} :
              k = Offset(p.order, s[1]) /\ l = Offset(p.order, t[1])
        BY <1>11, <2>1, <2>3
      <4>2. 3 * c + k = 3 * e + l
        BY <1>10, <1>13, <2>1, <2>3, <3>1, <3>3, <4>1
      <4>3. k = l /\ c = e
        BY <3>1, <4>2
      <4>4. Offset(p.order, s[1]) = Offset(p.order, t[1]) /\ s[1] \in Planes /\ t[1] \in Planes
        BY <2>1, <2>3, <4>1, <4>3
      <4>5. s[1] = t[1]
        BY <1>11, <4>4
      <4> QED
        BY <2>1, <3>1, <4>3, <4>5
    <3> QED
      BY <3>2, <3>3
  <2> QED
    BY <2>2, <2>3
<1> QED
  BY <1>6, <1>12, <1>13 DEF end, b

LEMMA PlacesCounted ==
  ASSUME NEW p, Laid(p)
  PROVE  Cardinality({Place(p, s[1], s[2]) : s \in SamplesOf(p)}) = Cardinality(SamplesOf(p))
<1> DEFINE S == SamplesOf(p)
           T == {Place(p, s[1], s[2]) : s \in S}
           f == [s \in S |-> Place(p, s[1], s[2])]
<1>1. IsFiniteSet(S)
  <2>1. IsFiniteSet(Planes) /\ IsFiniteSet({"R"})
    <3>1. IsFiniteSet({"R"}) /\ Planes = {"R"} \cup {"G"} \cup {"B"}
      BY FS_Singleton DEF Planes
    <3>2. IsFiniteSet({"R"} \cup {"G"})
      BY <3>1, FS_AddElement
    <3>3. IsFiniteSet({"R"} \cup {"G"} \cup {"B"})
      BY <3>2, FS_AddElement
    <3> QED
      BY <3>1, <3>3
  <2>2. IsFiniteSet(IF p.colour = "RGB" THEN Planes ELSE {"R"}) /\ IsFiniteSet(ColumnsOf(p))
    BY <2>1, PlacesApart
  <2> QED
    BY <2>2, FS_Product DEF SamplesOf
<1>2. \A s, t \in S : f[s] = f[t] => s = t
  BY PlacesApart
<1>3. f \in Surjection(S, T)
  BY DEF Surjection
<1>4. f \in Injection(S, T)
  BY <1>2 DEF Injection, IsInjective
<1> HIDE DEF S, T, f
<1> QED
  BY <1>1, <1>3, <1>4, FS_Surjection DEF S, T

\* Whatever the number of bytes in a line, each sample made has a place of
\* its own inside the line.
THEOREM Apart == Spec => []SamplesApart
<1>1. TypeOK => SamplesApart
  <2> SUFFICES ASSUME TypeOK, Open PROVE SamplesApart
    BY DEF SamplesApart
  <2>1. PICK j \in Jobs : job = Setup(j)
    BY DEF TypeOK, Open
  <2>2. Laid(job)
    BY <2>1, JobLaid
  <2>3. SamplesOf(job) = (IF job.colour = "RGB" THEN Planes ELSE {"R"}) \X ColumnsOf(job)
    BY DEF SamplesOf
  <2>4. /\ Cardinality({Place(job, s[1], s[2]) : s \in SamplesOf(job)}) = Cardinality(SamplesOf(job))
        /\ \A s \in SamplesOf(job) :
             Place(job, s[1], s[2]) \in 0..((IF job.colour = "BW" THEN 8 ELSE 1) * job.outBytes - 1)
    BY <2>2, PlacesApart, PlacesCounted
  <2> QED
    BY <2>4 DEF SamplesApart, SamplesOf, ColumnsOf
<1> QED
  BY <1>1, Types, PTL

-----------------------------------------------------------------------------
(* The columns a column made is mixed from.                                *)

\* What the driver asks of the decoder: no colours by index, and black and
\* white without filling up lines.
DriversJobs == \A j \in Jobs : j.colour # "INDEXED" /\ (j.colour = "BW" => ~j.long)

\* The setup p as far as columns go.
Columned(p) ==
  /\ p.x.in \in Nat \ {0} /\ p.x.out \in Nat \ {0}
  /\ p.outPixels \in Nat /\ SlotColumns(p) \in Int
  /\ p.way = "cubic" => p.x.in <= p.x.out

LEMMA JobColumned ==
  ASSUME NEW j \in Jobs
  PROVE  Columned(Setup(j))
<1> DEFINE x == LowestTerms(j.inX, j.outX)
           y == LowestTerms(j.inY, j.outY)
           b == OutBytes(j, x)
<1>1. x.in \in Nat \ {0} /\ x.out \in Nat \ {0} /\ j.pixels \in Nat
  BY JobsAssumption, Lowest
<1>2. /\ Setup(j).x = x /\ Setup(j).colour = j.colour
      /\ Setup(j).outPixels = OutPixels(j, b) /\ Setup(j).slotBytes = SlotBytes(j, x)
      /\ Setup(j).way = Way(j, x, y)
  BY DEF Setup
<1>3. Way(j, x, y) = "cubic" => ~(x.out < x.in)
  BY DEF Way, Select, Interpolation
<1> HIDE DEF x, y
<1>4. b \in Nat
  BY <1>1, BytesOfLine
<1> HIDE DEF b
<1>5. OutPixels(j, b) \in Nat
  <2>1. b \div 3 \in Nat /\ 8 * b \in Nat
    BY <1>4
  <2> QED
    BY <1>4, <2>1 DEF OutPixels
<1>6. SlotBytes(j, x) \in Int
  <2>1. PlainBytes(j) \in Int
    BY <1>1 DEF PlainBytes
  <2>2. (x.in * b) \div x.out \in Int
    <3>1. x.in * b \in Int /\ x.out > 0
      BY <1>1, <1>4
    <3> QED
      BY <1>1, <3>1, Dividing
  <2> QED
    BY <1>1, <2>1, <2>2 DEF SlotBytes, InBytes, b
<1>7. SlotColumns(Setup(j)) \in Int
  <2>1. SlotBytes(j, x) \div 3 \in Int
    BY <1>6
  <2> QED
    BY <1>2, <1>6, <2>1 DEF SlotColumns
<1> QED
  BY <1>1, <1>2, <1>3, <1>5, <1>7 DEF Columned

\* Columns are taken from around the place of the one made.
LEMMA Near ==
  ASSUME NEW p, Columned(p), NEW c \in Nat, NEW s \in ColumnsRead(p, c)
  PROVE  \/ (s + 2) * p.x.out > c * p.x.in /\ (s - 2) * p.x.out < (c + 1) * p.x.in
         \/ s = SlotColumns(p) - 1
<1>1. PICK in \in Nat \ {0}, out \in Nat \ {0} : in = p.x.in /\ out = p.x.out
  BY DEF Columned
<1> DEFINE f == (c * in) \div out
           e == Up((c + 1) * in, out)
<1>2. /\ f \in Int /\ \A k \in Int : k <= f <=> k * out <= c * in
      /\ e \in Int /\ \A k \in Int : k < e <=> k * out < (c + 1) * in
      /\ c * in \in Int /\ (c + 1) * in \in Int /\ c * in < (c + 1) * in
  <2>1. c * in \in Int /\ (c + 1) * in \in Int /\ (c + 1) * in = c * in + in
    OBVIOUS
  <2>2. f \in Int /\ \A k \in Int : k <= f <=> k * out <= c * in
    BY <2>1, RoundedDown
  <2>3. e \in Int /\ \A k \in Int : k < e <=> k * out < (c + 1) * in
    BY <2>1, RoundedUp
  <2> HIDE DEF f, e
  <2> QED
    BY <2>1, <2>2, <2>3
<1>3. /\ CubicColumns(p, c) = (f - 1)..(f + 2)
      /\ AreaColumns(p, c) = f..(e - 1)
  BY <1>1 DEF CubicColumns, AreaColumns, FloorColumn, CeilingColumn, Up
<1> HIDE DEF f, e
<1>4. PICK t \in (IF p.way = "cubic" THEN (f - 1)..(f + 2) ELSE f..(e - 1)) : s = InSlot(p, t)
  BY <1>3 DEF ColumnsRead
<1>5. t \in Int /\ f <= t + 1 /\ (t <= f + 2 \/ t < e)
  BY <1>2, <1>4
<1>6. (t + 2) * out > c * in
  <2>1. t + 2 \in Int /\ ~(t + 2 <= f) /\ (t + 2) * out \in Int
    BY <1>2, <1>5
  <2> QED
    BY <1>2, <2>1
<1>7. (t - 2) * out < (c + 1) * in
  <2>1. t - 2 \in Int /\ (t - 2) * out \in Int /\ t * out \in Int /\ (t - 2) * out <= t * out
    BY <1>5
  <2>2. CASE t <= f + 2
    <3>1. t - 2 <= f
      BY <1>2, <1>5, <2>2
    <3>2. (t - 2) * out <= c * in
      BY <1>2, <2>1, <3>1
    <3> QED
      BY <1>2, <2>1, <3>2
  <2>3. CASE t < e
    <3>1. t * out < (c + 1) * in
      BY <1>2, <1>5, <2>3
    <3> QED
      BY <1>2, <2>1, <3>1
  <2> QED
    BY <1>5, <2>2, <2>3
<1> QED
  BY <1>1, <1>4, <1>6, <1>7 DEF InSlot

\* A column of the slot that the columns made reach is read by one of them.
LEMMA Reached ==
  ASSUME NEW p, Columned(p), NEW s \in Nat, s < FloorColumn(p, p.outPixels), s < SlotColumns(p)
  PROVE  \E c \in 0..(p.outPixels - 1) : s \in ColumnsRead(p, c)
<1>1. PICK in \in Nat \ {0}, out \in Nat \ {0}, w \in Nat :
        in = p.x.in /\ out = p.x.out /\ w = p.outPixels
  BY DEF Columned
<1> DEFINE u == Up((s + 1) * out, in)
           c == u - 1
<1>2. (s + 1) * out \in Int /\ (s + 1) * out = s * out + out /\ s * out \in Nat /\ w * in \in Int
  OBVIOUS
<1>3. u \in Int /\ \A k \in Int : k < u <=> k * in < (s + 1) * out
  BY <1>2, RoundedUp
<1>4. (w * in) \div out \in Int /\ \A k \in Int : k <= (w * in) \div out <=> k * out <= w * in
  BY <1>2, RoundedDown
<1> HIDE DEF u
<1>5. c \in Nat
  <2>1. 0 * in = 0 /\ 0 \in Int
    OBVIOUS
  <2>2. 0 * in < (s + 1) * out
    BY <1>2, <2>1
  <2>3. 0 < u
    BY <1>3, <2>1, <2>2
  <2> QED
    BY <1>3, <2>3
<1>6. c * in < (s + 1) * out /\ (s + 1) * out <= (c + 1) * in
      /\ c * in \in Int /\ (c + 1) * in = c * in + in
  <2>1. c < u /\ ~(u < u) /\ c \in Int /\ c + 1 = u
    BY <1>3, <1>5
  <2>2. c * in < (s + 1) * out
    BY <1>3, <2>1
  <2>3. ~(u * in < (s + 1) * out)
    BY <1>3, <2>1
  <2>4. u * in \in Int /\ (c + 1) * in = c * in + in /\ c * in \in Int
    BY <1>3, <1>5
  <2> HIDE DEF c
  <2> QED
    BY <1>2, <2>1, <2>2, <2>3, <2>4
<1>7. c < w
  <2>1. s < (w * in) \div out
    BY <1>1 DEF FloorColumn
  <2>2. s + 1 <= (w * in) \div out /\ s + 1 \in Int
    BY <1>4, <2>1
  <2>3. (s + 1) * out <= w * in
    BY <1>4, <2>2
  <2>4. c * in < w * in
    BY <1>2, <1>6, <2>3
  <2> HIDE DEF c
  <2> QED
    BY <1>5, <2>4, Products
<1> HIDE DEF c
<1> DEFINE f == (c * in) \div out
           e == Up((c + 1) * in, out)
<1>8. f \in Int /\ \A k \in Int : k <= f <=> k * out <= c * in
  BY <1>6, RoundedDown
<1>9. e \in Int /\ \A k \in Int : k < e <=> k * out < (c + 1) * in
  <2>1. (c + 1) * in \in Int
    BY <1>5
  <2> QED
    BY <2>1, RoundedUp
<1>10. /\ CubicColumns(p, c) = (f - 1)..(f + 2)
       /\ AreaColumns(p, c) = f..(e - 1)
  BY <1>1 DEF CubicColumns, AreaColumns, FloorColumn, CeilingColumn, Up
<1> HIDE DEF f, e
<1>11. f <= s
  <2>1. ~((s + 1) * out <= c * in) /\ s + 1 \in Int
    BY <1>2, <1>6
  <2>2. ~(s + 1 <= f)
    BY <1>8, <2>1
  <2> QED
    BY <1>8, <2>2
<1>12. s < e
  <2>1. s * out < (c + 1) * in
    BY <1>2, <1>6
  <2> QED
    BY <1>9, <2>1
<1>13. in <= out => s <= f
  <2>1. in <= out => s * out <= c * in
    BY <1>2, <1>6
  <2> QED
    BY <1>8, <2>1
<1>14. s \in IF p.way = "cubic" THEN CubicColumns(p, c) ELSE AreaColumns(p, c)
  <2>1. p.way = "cubic" => in <= out
    BY <1>1 DEF Columned
  <2> QED
    BY <1>8, <1>9, <1>10, <1>11, <1>12, <1>13, <2>1
<1>15. InSlot(p, s) = s
  BY DEF InSlot, Columned
<1>16. s \in ColumnsRead(p, c)
  BY <1>14, <1>15 DEF ColumnsRead
<1> QED
  BY <1>1, <1>5, <1>7, <1>16

\* A line stretched or halved by repeating reads no more than there is.
LEMMA ReadsInside ==
  ASSUME NEW j \in Jobs, j.colour # "INDEXED", j.colour = "BW" => ~j.long,
         Setup(j).way = "multiply"
  PROVE  BytesRead(Setup(j)) <= Setup(j).inBytes
<1> DEFINE x == LowestTerms(j.inX, j.outX)
           y == LowestTerms(j.inY, j.outY)
           b == PlainBytes(j)
<1>1. x.in \in Nat \ {0} /\ x.out \in Nat \ {0} /\ j.pixels \in Nat
  BY JobsAssumption, Lowest
<1>2. /\ Setup(j).x = x /\ Setup(j).colour = j.colour /\ Setup(j).way = Way(j, x, y)
      /\ Setup(j).simpleX = SimpleRatio(x)
      /\ Setup(j).outBytes = OutBytes(j, x) /\ Setup(j).inBytes = InBytes(j, x)
  BY DEF Setup
<1>3. Way(j, x, y) = "multiply" => SimpleRatio(x) # 0 /\ j.colour = "BW"
  BY DEF Way, Select, Interpolation
<1> HIDE DEF x, y
<1>4. j.colour = "BW" /\ SimpleRatio(x) # 0 /\ ~j.long
  BY <1>2, <1>3
<1>5. b \in Nat
  BY <1>1, <1>4 DEF PlainBytes
<1>6. OutBytes(j, x) = (x.out * b) \div x.in /\ InBytes(j, x) = b
  BY <1>4 DEF OutBytes, InBytes
<1> HIDE DEF b
<1>7. PICK in \in Nat \ {0}, out \in Nat \ {0} : in = x.in /\ out = x.out
  BY <1>1
<1> DEFINE o == (out * b) \div in
<1>8. out * b \in Int /\ o \in Int /\ \A k \in Int : k <= o <=> k * in <= out * b
  <2>1. out * b \in Int
    BY <1>5
  <2> QED
    BY <2>1, RoundedDown
<1> HIDE DEF o
<1>9. Setup(j).outBytes = o
  BY <1>2, <1>6, <1>7 DEF o
<1>10. CASE \E n \in 1..4 : out = n * in
  <2>1. PICK n \in 1..4 : out = n * in
    BY <1>10
  <2>2. SimpleRatio(x) = n
    <3>1. SimpleRatio(x) = out \div in
      BY <1>7, <1>10 DEF SimpleRatio
    <3> DEFINE z == out \div in
    <3>2. z \in Int /\ \A k \in Int : k <= z <=> k * in <= out
      BY RoundedDown
    <3>3. n * in <= out /\ ~((n + 1) * in <= out)
      BY <2>1
    <3> HIDE DEF z
    <3>4. n <= z /\ ~(n + 1 <= z)
      BY <3>2, <3>3
    <3>5. z = n
      BY <3>2, <3>4
    <3> QED
      BY <3>1, <3>5 DEF z
  <2>3. o <= n * b
    <3>1. o * in <= out * b /\ o * in \in Int
      BY <1>8
    <3>2. out * b = (n * b) * in /\ n * b \in Int
      BY <1>5, <2>1
    <3> HIDE DEF o
    <3> QED
      BY <1>8, <3>1, <3>2, Products
  <2>4. (o + n - 1) \div n <= b
    <3> DEFINE u == Up(o, n)
    <3>1. n \in Nat \ {0}
      OBVIOUS
    <3>2. u \in Int /\ \A k \in Int : k < u <=> k * n < o
      BY <1>8, <3>1, RoundedUp
    <3>3. ~(b * n < o)
      BY <1>5, <1>8, <2>3
    <3>4. ~(b < u)
      BY <1>5, <3>2, <3>3
    <3>5. u = (o + n - 1) \div n
      BY DEF Up
    <3> HIDE DEF u
    <3> QED
      BY <1>5, <3>2, <3>4, <3>5
  <2>5. BytesRead(Setup(j)) = (o + n - 1) \div n
    BY <1>2, <1>4, <1>9, <2>2 DEF BytesRead
  <2> QED
    BY <1>2, <1>6, <2>4, <2>5
<1>11. CASE ~\E n \in 1..4 : out = n * in
  <2>1. 2 * out = in /\ SimpleRatio(x) = 5
    BY <1>4, <1>7, <1>11 DEF SimpleRatio
  <2>2. 2 * o <= b
    <3>1. o * in <= out * b /\ o * in = (2 * o) * out /\ out * b = b * out
      BY <1>5, <1>8, <2>1
    <3>2. (2 * o) * out <= b * out /\ 2 * o \in Int
      BY <1>8, <3>1
    <3> QED
      BY <1>5, <3>2, Products
  <2>3. BytesRead(Setup(j)) = 2 * o
    BY <1>2, <1>9, <2>1 DEF BytesRead
  <2> QED
    BY <1>2, <1>6, <2>2, <2>3
<1> QED
  BY <1>10, <1>11

\* For any two resolutions across and any length of line, every column made
\* is mixed from the columns around its own place, every column of the device
\* that lies under the line made goes into it, and no byte behind the line of
\* the device is read.
THEOREM Columns == DriversJobs => (Spec => []ColumnsInPlace)
<1> SUFFICES ASSUME DriversJobs PROVE Spec => []ColumnsInPlace
  OBVIOUS
<1>1. TypeOK => ColumnsInPlace
  <2> SUFFICES ASSUME TypeOK, Open PROVE ColumnsInPlace
    BY DEF ColumnsInPlace
  <2>1. PICK j \in Jobs : job = Setup(j)
    BY DEF TypeOK, Open
  <2>2. Columned(job)
    BY <2>1, JobColumned
  <2>3. job.outPixels \in Nat
    BY <2>2 DEF Columned
  <2>4. ASSUME NEW c \in 0..(job.outPixels - 1), NEW s \in ColumnsRead(job, c)
        PROVE  \/ /\ (s + 2) * job.x.out > c * job.x.in
                  /\ (s - 2) * job.x.out < (c + 1) * job.x.in
               \/ s = SlotColumns(job) - 1
    <3>1. c \in Nat
      BY <2>3
    <3> QED
      BY <2>2, <3>1, Near
  <2>5. ASSUME NEW s \in (0..(FloorColumn(job, job.outPixels) - 1)) \cap (0..(SlotColumns(job) - 1))
        PROVE  s \in UNION {ColumnsRead(job, c) : c \in 0..(job.outPixels - 1)}
    <3>1. SlotColumns(job) \in Int /\ FloorColumn(job, job.outPixels) \in Int
      <4>1. PICK in \in Nat \ {0}, out \in Nat \ {0}, w \in Nat :
              in = job.x.in /\ out = job.x.out /\ w = job.outPixels
        BY <2>2 DEF Columned
      <4>2. w * in \in Int
        OBVIOUS
      <4>3. (w * in) \div out \in Int
        BY <4>2, RoundedDown
      <4> QED
        BY <2>2, <4>1, <4>3 DEF Columned, FloorColumn
    <3>2. s \in Nat /\ s < FloorColumn(job, job.outPixels) /\ s < SlotColumns(job)
      BY <3>1
    <3>3. \E c \in 0..(job.outPixels - 1) : s \in ColumnsRead(job, c)
      BY <2>2, <3>2, Reached
    <3> QED
      BY <3>3
  <2>6. job.way = "multiply" => BytesRead(job) <= job.inBytes
    BY <2>1, ReadsInside DEF DriversJobs
  <2> QED
    BY <2>4, <2>5, <2>6 DEF ColumnsInPlace
<1> QED
  BY <1>1, Types, PTL
=============================================================================
