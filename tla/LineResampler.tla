---------------------------- MODULE LineResampler ----------------------------
(***************************************************************************)
(* What a change of resolution promises, without the window it works       *)
(* with: lines of a page go in one by one and lines at another resolution  *)
(* come out, each made of the lines around its own place on the page.  The *)
(* last lines of the page may come out at its end only.                    *)
(***************************************************************************)
EXTENDS Integers, Sequences

VARIABLES
  style,   \* how lines are made: [way, in, out, above]; above stands for
           \* the line over the first one
  given,   \* lines of the page that have gone in
  made,    \* lines that have come out: each a phase and the lines mixed
  over     \* the end of the page has been told

vars == <<style, given, made, over>>

\* Where on the page line k made (from 0) lies: behind Source lines.
Source(k) == (k * style.in) \div style.out

\* Line number i of a page of n: past its end the last one is repeated.
LineAt(i, n) == IF i < 1 THEN style.above ELSE IF i > n THEN n ELSE i

First(k) == IF style.way = "cubic" THEN Source(k) ELSE Source(k) + 1
Last(k) ==
  CASE style.way = "cubic" -> Source(k) + 3
    [] style.way = "area"  -> ((k + 1) * style.in + style.out - 1) \div style.out
    [] OTHER               -> Source(k) + 1

\* Line k made from a page of n lines.
Line(k, n) ==
  [phase |-> k % style.out,
   rows  |-> [i \in 1..(Last(k) - First(k) + 1) |-> LineAt(First(k) + i - 1, n)]]

\* The lines made of a page of n lines: those that lie on it.
Whole(n) == (n * style.out + style.in - 1) \div style.in
Lines(count, n) == [i \in 1..count |-> Line(i - 1, n)]

Interpolates == style.way \in {"cubic", "area"}

Styles == [way : {"closed", "copy", "multiply", "area", "cubic"},
           in : Nat \ {0}, out : Nat \ {0}, above : Int]

-----------------------------------------------------------------------------
NewPage ==
  /\ given' = 0 /\ made' = <<>> /\ over' = FALSE
  /\ UNCHANGED style

NewJob ==
  /\ style' \in Styles
  /\ given' = 0 /\ made' = <<>> /\ over' = TRUE

\* A line goes in; lines come out, in order, that need no line still to come.
Feed ==
  /\ ~over
  /\ given' = given + 1
  /\ \E count \in Len(made)..Whole(given') :
       /\ count > 0 => Last(count - 1) <= given'
       /\ made' = Lines(count, given')
  /\ UNCHANGED <<style, over>>

\* At the end of the page all its lines have come out.  An interpolated page
\* of one or two lines is lost.
Finish ==
  /\ ~over /\ over' = TRUE
  /\ made' = IF Interpolates /\ given < 3 THEN made ELSE Lines(Whole(given), given)
  /\ UNCHANGED <<style, given>>

-----------------------------------------------------------------------------
Init == /\ style.way = "closed" /\ style \in Styles
        /\ given = 0 /\ made = <<>> /\ over = TRUE

Next == NewPage \/ Feed \/ Finish \/ NewJob

Spec == Init /\ [][Next]_vars
=============================================================================
