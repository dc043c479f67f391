--------------------------- MODULE LegacyScanProofs ---------------------------
(***************************************************************************)
(* Proofs about LegacyScan, for any scans and pages, any way to cut them   *)
(* into reads and any lengths the frontend asks for.                       *)
(***************************************************************************)
EXTENDS LegacyScan, SequenceTheorems, WellFoundedInduction, TLAPS

-----------------------------------------------------------------------------
(* Numbers and loops.                                                      *)

LEMMA HasLeast ==
  ASSUME NEW S \in SUBSET Nat, S # {}
  PROVE  \E m \in S : \A y \in S : m <= y
<1> DEFINE Below == {ss \in Nat \X Nat : ss[1] < ss[2]}
<1>1. IsWellFoundedOn(Below, Nat)
  BY NatLessThanWellFounded DEF OpToRel
<1> HIDE DEF Below
<1>2. PICK m \in S : \A y \in S : <<y, m>> \notin Below
  BY <1>1, WFMin
<1>3. ASSUME NEW y \in S PROVE m <= y
  <2>1. y \in Nat /\ m \in Nat
    OBVIOUS
  <2>2. ~(y < m)
    BY <1>2, <2>1 DEF Below
  <2> QED
    BY <2>1, <2>2
<1> QED
  BY <1>3

\* Induction, for the set of the numbers of which something holds.
LEMMA AllNumbers ==
  ASSUME NEW T \in SUBSET Nat, 0 \in T, \A n \in T : n + 1 \in T
  PROVE  T = Nat
<1> DEFINE S == Nat \ T
<1>1. S = {}
  <2> SUFFICES ASSUME S # {} PROVE FALSE
    OBVIOUS
  <2>1. PICK m \in S : \A y \in S : m <= y
    <3>1. S \in SUBSET Nat
      OBVIOUS
    <3> HIDE DEF S
    <3> QED
      BY <3>1, HasLeast
  <2>2. m - 1 \in Nat /\ m - 1 \notin S
    BY <2>1
  <2> QED
    BY <2>2
<1> QED
  BY <1>1

\* A loop that gets nearer to its end with each turn has a value, whatever
\* state it starts from and whatever it makes of the value of the next turn.
Loop(S, V, N, left, stop, val, next, comb) ==
  /\ N \in Nat /\ left \in [S -> 0..N] /\ stop \in SUBSET S /\ val \in [S -> V]
  /\ next \in [S -> S] /\ comb \in [S \X V -> V]
  /\ \A x \in S \ stop : left[next[x]] < left[x]

HasValue(S, V, stop, val, next, comb) ==
  \E f \in [S -> V] :
    \A x \in S : f[x] = IF x \in stop THEN val[x] ELSE comb[<<x, f[next[x]]>>]

LEMMA LoopExists ==
  ASSUME NEW S, NEW V, NEW N, NEW left, NEW stop, NEW val, NEW next, NEW comb,
         Loop(S, V, N, left, stop, val, next, comb)
  PROVE  HasValue(S, V, stop, val, next, comb)
<1> USE DEF Loop, HasValue
<1> DEFINE Turn(f, x) == IF x \in stop THEN val[x] ELSE comb[<<x, f[next[x]]>>]
           Right(f, n) == \A x \in S : left[x] < n => f[x] = Turn(f, x)
           T == {n \in Nat : \E f \in [S -> V] : Right(f, n)}
<1>1. 0 \in T
  <2>1. \A x \in S : ~(left[x] < 0)
    OBVIOUS
  <2> QED
    BY <2>1
<1>2. ASSUME NEW n \in T PROVE n + 1 \in T
  <2>1. PICK f \in [S -> V] : Right(f, n)
    OBVIOUS
  <2> DEFINE g == [x \in S |-> Turn(f, x)]
  <2>2. g \in [S -> V]
    OBVIOUS
  <2>3. ASSUME NEW x \in S, left[x] < n + 1 PROVE g[x] = Turn(g, x)
    <3>1. CASE x \in stop
      BY <3>1
    <3>2. CASE x \notin stop
      <4>1. next[x] \in S /\ left[next[x]] < n
        BY <2>3, <3>2
      <4>2. f[next[x]] = Turn(f, next[x])
        BY <2>1, <4>1
      <4>3. g[next[x]] = f[next[x]]
        BY <4>1, <4>2
      <4> QED
        BY <3>2, <4>3
    <3> QED
      BY <3>1, <3>2
  <2> HIDE DEF g
  <2> QED
    BY <2>2, <2>3
<1>3. N + 1 \in T
  <2>1. T \in SUBSET Nat
    OBVIOUS
  <2> HIDE DEF T
  <2> QED
    BY <1>1, <1>2, <2>1, AllNumbers
<1>4. PICK f \in [S -> V] : Right(f, N + 1)
  BY <1>3
<1>5. \A x \in S : left[x] < N + 1
  OBVIOUS
<1> QED
  BY <1>4, <1>5

\* Most loops have the value of their next turn.
TailLoop(S, N, left, stop, next) ==
  /\ N \in Nat /\ left \in [S -> 0..N] /\ stop \in SUBSET S /\ next \in [S -> S]
  /\ \A x \in S \ stop : left[next[x]] < left[x]

Follows(F, S, stop, val, next) ==
  \A x \in S : F[x] = IF x \in stop THEN val[x] ELSE F[next[x]]

LEMMA TailLoopExists ==
  ASSUME NEW S, NEW V, NEW N, NEW left, NEW stop, NEW next, NEW val \in [S -> V],
         TailLoop(S, N, left, stop, next)
  PROVE  \E f \in [S -> V] : Follows(f, S, stop, val, next)
<1> DEFINE comb == [x \in S \X V |-> x[2]]
<1>1. comb \in [S \X V -> V]
  OBVIOUS
<1>2. \A x \in S, v \in V : comb[<<x, v>>] = v
  OBVIOUS
<1>3. next \in [S -> S] /\ stop \in SUBSET S
  BY DEF TailLoop
<1> HIDE DEF comb
<1>4. Loop(S, V, N, left, stop, val, next, comb)
  BY <1>1 DEF Loop, TailLoop
<1>5. PICK f \in [S -> V] :
        \A x \in S : f[x] = IF x \in stop THEN val[x] ELSE comb[<<x, f[next[x]]>>]
  BY <1>4, LoopExists DEF HasValue
<1>6. \A x \in S : next[x] \in S /\ f[next[x]] \in V
  BY <1>3, <1>5
<1>7. ASSUME NEW x \in S PROVE f[x] = IF x \in stop THEN val[x] ELSE f[next[x]]
  <2>1. comb[<<x, f[next[x]]>>] = f[next[x]]
    BY <1>2, <1>6
  <2> QED
    BY <1>5, <2>1
<1> QED
  BY <1>7 DEF Follows

\* What such a loop keeps as long as it runs makes its value.
LEMMA LoopKeeps ==
  ASSUME NEW S, NEW N, NEW left, NEW stop, NEW next, NEW val, NEW F,
         TailLoop(S, N, left, stop, next), Follows(F, S, stop, val, next),
         NEW I \in SUBSET S, NEW R,
         \A x \in I : x \notin stop => next[x] \in I,
         \A x \in I : x \in stop => val[x] \in R
  PROVE  \A x \in I : F[x] \in R
<1> DEFINE T == {n \in Nat : \A x \in I : left[x] < n => F[x] \in R}
<1>1. /\ N \in Nat /\ left \in [S -> 0..N] /\ \A x \in S \ stop : left[next[x]] < left[x]
      /\ \A x \in S : F[x] = IF x \in stop THEN val[x] ELSE F[next[x]]
  BY DEF TailLoop, Follows
<1>2. \A x \in I : left[x] \in 0..N /\ left[x] < N + 1
  BY <1>1
<1>3. 0 \in T
  BY <1>2
<1>4. ASSUME NEW n \in T PROVE n + 1 \in T
  <2>1. ASSUME NEW x \in I, left[x] < n + 1 PROVE F[x] \in R
    <3>1. CASE x \in stop
      BY <1>1, <3>1
    <3>2. CASE x \notin stop
      <4>1. next[x] \in I /\ left[next[x]] < left[x] /\ F[x] = F[next[x]]
        BY <1>1, <3>2
      <4>2. left[next[x]] < n
        BY <1>2, <2>1, <4>1
      <4> QED
        BY <4>1, <4>2
    <3> QED
      BY <3>1, <3>2
  <2> QED
    BY <2>1
<1>5. N + 1 \in T
  <2>1. T \in SUBSET Nat /\ N + 1 \in Nat
    BY <1>1
  <2> HIDE DEF T
  <2> QED
    BY <1>3, <1>4, <2>1, AllNumbers
<1> QED
  BY <1>2, <1>5

LEMMA Dividing ==
  ASSUME NEW a \in Int, NEW b \in Int, b > 0
  PROVE  /\ a \div b \in Int /\ a % b \in Int
         /\ a = b * (a \div b) + (a % b) /\ 0 <= a % b /\ a % b < b
  BY SMT

-----------------------------------------------------------------------------
(* Lines and frames.                                                       *)

\* The scan and its page, as TypeOK has them.
PageOK == scan \in Scans /\ page \in 1..Len(scan.pages)

LEMMA PageType ==
  ASSUME PageOK
  PROVE  /\ wire \in Seq(0..(Base - 1)) /\ Len(wire) \in Nat
         /\ \A k \in 1..Len(wire) : wire[k] \in Nat
         /\ {scan.convert, scan.colour, scan.adf} \subseteq BOOLEAN
         /\ scan.width \in Nat \ {0} /\ Base \in Nat
<1>1. scan.pages \in Seq(Seq(0..(Base - 1)))
  BY ScansAssumption DEF PageOK
<1>2. wire \in Seq(0..(Base - 1))
  BY <1>1 DEF PageOK, wire
<1>3. Base \in Nat
  BY SizesAssumption
<1>4. \A k \in 1..Len(wire) : wire[k] \in Nat
  <2> HIDE DEF wire
  <2> QED
    BY <1>2, <1>3
<1> QED
  BY <1>2, <1>3, <1>4, ScansAssumption DEF PageOK

LEMMA Widths ==
  ASSUME PageOK
  PROVE  OutWidth \in Nat \ {0} /\ LineRoom \in Nat \ {0}
BY PageType DEF OutWidth, LineRoom

LEMMA LengthType ==
  ASSUME PageOK, NEW k \in 1..(Len(wire) - 1)
  PROVE  Length(k) \in Nat
<1>1. wire[k] \in Nat /\ wire[k + 1] \in Nat /\ Base \in Nat
  <2>1. k \in 1..Len(wire) /\ k + 1 \in 1..Len(wire)
    BY PageType
  <2> QED
    BY <2>1, PageType
<1> QED
  BY <1>1 DEF Length

\* A record at k is found in what ends at e if all of it is there.
LEMMA FrameFound ==
  ASSUME PageOK, NEW e \in 1..Len(wire), NEW k \in 1..e
  PROVE  /\ FrameLength(k, e) \in Nat
         /\ FrameLength(k, e) # 0 => FrameLength(k, e) >= 5 /\ k + FrameLength(k, e) - 1 <= e
         /\ \A f \in k..Len(wire) :
              FrameLength(k, e) # 0 /\ k + FrameLength(k, e) - 1 <= f
                => FrameLength(k, f) = FrameLength(k, e)
<1>1. PICK N \in Nat : N = Len(wire)
  BY PageType
<1>2. e \in Nat /\ k \in Nat /\ 1 <= k /\ k <= e /\ e <= N
  BY <1>1
<1>3. CASE k + 2 > e
  BY <1>3 DEF FrameLength
<1>4. CASE ~(k + 2 > e)
  <2>1. PICK a \in Nat : a = Length(k + 1)
    <3>1. k + 1 \in 1..(Len(wire) - 1)
      BY <1>1, <1>2, <1>4
    <3> QED
      BY <3>1, LengthType
  <2>2. CASE k + 3 + a + 1 > e
    BY <2>1, <2>2, <1>4 DEF FrameLength
  <2>3. CASE ~(k + 3 + a + 1 > e)
    <3>1. PICK b \in Nat : b = Length(k + 3 + a)
      <4>1. k + 3 + a \in 1..(Len(wire) - 1)
        BY <1>1, <1>2, <2>3
      <4> QED
        BY <4>1, LengthType
    <3>2. \A f \in k..Len(wire) :
            FrameLength(k, f) = IF k + 2 > f \/ k + 3 + a + 1 > f \/ k + 3 + a + 1 + b > f
                                THEN 0 ELSE k + 3 + a + 1 + b - k + 1
      BY <2>1, <3>1 DEF FrameLength
    <3>3. e \in k..Len(wire)
      BY <1>1, <1>2
    <3>4. PICK L \in Nat : L = k + 3 + a + 1 + b - k + 1 /\ L = 5 + a + b
      BY <1>2
    <3>5. \A f \in k..N :
            FrameLength(k, f) = IF k + 2 > f \/ k + 3 + a + 1 > f \/ k + 3 + a + 1 + b > f
                                THEN 0 ELSE L
      BY <3>2, <3>4, <1>1
    <3>6. \A f \in k..N : f \in Nat
      BY <1>2
    <3>7. e \in k..N
      BY <1>1, <3>3
    <3> QED
      BY <1>1, <1>2, <3>4, <3>5, <3>6, <3>7
  <2> QED
    BY <2>2, <2>3
<1> QED
  BY <1>3, <1>4

\* The same of a line. It has one byte if it is white, and three or more.
LEMMA LineFound ==
  ASSUME PageOK, NEW e \in 1..Len(wire), NEW k \in 1..e
  PROVE  /\ LineLength(k, e) \in Nat
         /\ LineLength(k, e) # 0 => k + LineLength(k, e) - 1 <= e
         /\ LineLength(k, e) = 1 <=> ~scan.convert /\ wire[k] = 0
         /\ LineLength(k, e) # 0 /\ LineLength(k, e) # 1 => LineLength(k, e) >= 3
         /\ \A f \in k..Len(wire) :
              LineLength(k, e) # 0 /\ k + LineLength(k, e) - 1 <= f
                => LineLength(k, f) = LineLength(k, e)
<1>1. PICK N \in Nat : N = Len(wire)
  BY PageType
<1>2. e \in Nat /\ k \in Nat /\ 1 <= k /\ k <= e /\ e <= N
  BY <1>1
<1>3. CASE scan.convert
  <2>1. \A f : LineLength(k, f) = FrameLength(k, f)
    BY <1>3 DEF LineLength
  <2> QED
    BY <1>2, <1>3, <2>1, FrameFound
<1>4. CASE ~scan.convert /\ wire[k] = 0
  <2>1. \A f : LineLength(k, f) = 1
    BY <1>4 DEF LineLength
  <2> QED
    BY <1>2, <1>4, <2>1
<1>5. CASE ~scan.convert /\ wire[k] # 0
  <2>1. \A f : LineLength(k, f) = IF k + 2 > f \/ k + 2 + Length(k + 1) > f
                                  THEN 0 ELSE 3 + Length(k + 1)
    BY <1>5 DEF LineLength
  <2>2. CASE k + 2 > e
    BY <1>2, <1>5, <2>1, <2>2
  <2>3. CASE ~(k + 2 > e)
    <3>1. PICK a \in Nat : a = Length(k + 1)
      <4>1. k + 1 \in 1..(Len(wire) - 1)
        BY <1>1, <1>2, <2>3
      <4> QED
        BY <4>1, LengthType
    <3>2. \A f \in k..N : f \in Nat
      BY <1>2
    <3> QED
      BY <1>1, <1>2, <1>5, <2>1, <2>3, <3>1, <3>2
  <2> QED
    BY <2>2, <2>3
<1> QED
  BY <1>3, <1>4, <1>5

-----------------------------------------------------------------------------
(* Lines one behind the other: t has the places where lines end that       *)
(* follow place p.                                                         *)

IsLine(k, l) ==
  /\ k \in 1..Len(wire) /\ l \in k..Len(wire)
  /\ ~IsStatus(wire[k]) /\ LineLength(k, l) = l - k + 1

Place(p, t, i) == IF i = 1 THEN p ELSE t[i - 1]
End(p, t)      == Place(p, t, Len(t) + 1)
Chain(p, t)    == t \in Seq(Nat) /\ \A i \in 1..Len(t) : IsLine(Place(p, t, i) + 1, t[i])

LEMMA LineIs ==
  ASSUME PageOK, NEW e \in 1..Len(wire), NEW k \in 1..e,
         ~IsStatus(wire[k]), LineLength(k, e) # 0
  PROVE  /\ k + LineLength(k, e) - 1 \in k..e
         /\ IsLine(k, k + LineLength(k, e) - 1)
<1>1. PICK N \in Nat : N = Len(wire)
  BY PageType
<1>2. PICK L \in Nat : L = LineLength(k, e) /\ L # 0
  BY LineFound
<1>3. k \in Nat /\ e \in Nat /\ k + L - 1 \in k..e /\ k + L - 1 \in k..N /\ k \in 1..N
  BY <1>1, <1>2, LineFound
<1>4. LineLength(k, k + L - 1) = L
  BY <1>1, <1>2, <1>3, LineFound
<1> QED
  BY <1>1, <1>2, <1>3, <1>4 DEF IsLine

LEMMA LineAt ==
  ASSUME PageOK, NEW k, NEW l, IsLine(k, l), NEW e \in l..Len(wire)
  PROVE  /\ k \in Nat /\ l \in Nat /\ 1 <= k /\ k <= l
         /\ k \in 1..e /\ e \in 1..Len(wire) /\ ~IsStatus(wire[k])
         /\ LineLength(k, e) = l - k + 1 /\ LineLength(k, e) # 0
         /\ k + LineLength(k, e) - 1 = l
<1>1. PICK N \in Nat : N = Len(wire)
  BY PageType
<1>2. /\ k \in Nat /\ l \in Nat /\ e \in Nat /\ 1 <= k /\ k <= l /\ l <= e /\ e <= N
      /\ LineLength(k, l) = l - k + 1 /\ ~IsStatus(wire[k])
  BY <1>1 DEF IsLine
<1>3. LineLength(k, e) = l - k + 1
  <2>1. l \in 1..Len(wire) /\ k \in 1..l /\ e \in k..Len(wire)
    BY <1>1, <1>2
  <2>2. LineLength(k, l) # 0 /\ k + LineLength(k, l) - 1 <= e
    BY <1>2
  <2> QED
    BY <1>2, <2>1, <2>2, LineFound
<1> QED
  BY <1>1, <1>2, <1>3

\* Each line has at least a byte.
LEMMA ChainType ==
  ASSUME PageOK, NEW p \in Nat, p <= Len(wire), NEW t, Chain(p, t)
  PROVE  /\ t \in Seq(Nat) /\ Len(t) \in Nat
         /\ \A i \in 1..(Len(t) + 1) :
              Place(p, t, i) \in Nat /\ p + i - 1 <= Place(p, t, i) /\ Place(p, t, i) <= Len(wire)
         /\ \A i \in 1..Len(t) : Place(p, t, i) < t[i] /\ t[i] = Place(p, t, i + 1)
         /\ \A i \in 1..(Len(t) + 1) : Place(p, t, i) <= End(p, t)
         /\ End(p, t) \in Nat /\ p + Len(t) <= End(p, t) /\ End(p, t) <= Len(wire)
         /\ t \in Seq(p..End(p, t))
<1>1. PICK N \in Nat, n \in Nat : N = Len(wire) /\ n = Len(t)
  BY PageType DEF Chain
<1>2. t \in Seq(Nat) /\ \A i \in 1..n : t[i] \in Nat
  BY <1>1 DEF Chain
<1>3. \A i \in 1..n : t[i] = Place(p, t, i + 1)
  BY <1>1 DEF Place
<1>4. ASSUME NEW i \in 1..n PROVE Place(p, t, i) \in Nat /\ Place(p, t, i) < t[i] /\ t[i] <= N
  <2>1. Place(p, t, i) \in Nat
    BY <1>2 DEF Place
  <2> QED
    BY <1>1, <1>2, <2>1 DEF Chain, IsLine
<1> DEFINE T == {i \in Nat : i <= n => Place(p, t, i + 1) \in Nat /\ p + i <= Place(p, t, i + 1)
                                       /\ Place(p, t, i + 1) <= N}
<1>5. T = Nat
  <2>1. 0 \in T
    BY <1>1 DEF Place
  <2>2. ASSUME NEW i \in T PROVE i + 1 \in T
    <3>1. CASE i + 1 <= n
      <4>1. i + 1 \in 1..n
        BY <3>1
      <4> QED
        BY <3>1, <4>1, <1>2, <1>3, <1>4
    <3> QED
      BY <3>1
  <2>3. T \in SUBSET Nat
    OBVIOUS
  <2> HIDE DEF T
  <2> QED
    BY <2>1, <2>2, <2>3, AllNumbers
<1>6. ASSUME NEW i \in 1..(n + 1)
      PROVE  Place(p, t, i) \in Nat /\ p + i - 1 <= Place(p, t, i) /\ Place(p, t, i) <= N
  <2>1. PICK m \in Nat : i = m + 1 /\ m <= n
    OBVIOUS
  <2>2. m \in T
    <3> HIDE DEF T
    <3> QED
      BY <1>5
  <2> QED
    BY <2>1, <2>2
<1> DEFINE U == {j \in Nat : j <= n => Place(p, t, n + 1 - j) <= Place(p, t, n + 1)}
<1>7. U = Nat
  <2>1. 0 \in U
    BY <1>6
  <2>2. ASSUME NEW j \in U PROVE j + 1 \in U
    <3>1. CASE j + 1 <= n
      <4>1. n - j \in 1..n /\ n + 1 - j \in 1..(n + 1) /\ n - j + 1 = n + 1 - j /\ n + 1 - (j + 1) = n - j
        BY <3>1
      <4>2. Place(p, t, n - j) < Place(p, t, n + 1 - j)
        BY <4>1, <1>3, <1>4
      <4>3. Place(p, t, n + 1 - j) <= Place(p, t, n + 1)
        BY <3>1
      <4>4. Place(p, t, n - j) \in Nat /\ Place(p, t, n + 1 - j) \in Nat /\ Place(p, t, n + 1) \in Nat
        BY <4>1, <1>6
      <4> QED
        BY <4>1, <4>2, <4>3, <4>4
    <3> QED
      BY <3>1
  <2>3. U \in SUBSET Nat
    OBVIOUS
  <2> HIDE DEF U
  <2> QED
    BY <2>1, <2>2, <2>3, AllNumbers
<1>8. ASSUME NEW i \in 1..(n + 1) PROVE Place(p, t, i) <= Place(p, t, n + 1)
  <2>1. PICK j \in Nat : i = n + 1 - j /\ j <= n
    <3>1. n + 1 - i \in Nat /\ i = n + 1 - (n + 1 - i) /\ n + 1 - i <= n
      OBVIOUS
    <3> QED
      BY <3>1
  <2>2. j \in U
    <3> HIDE DEF U
    <3> QED
      BY <1>7
  <2> QED
    BY <2>1, <2>2
<1>9. ASSUME NEW i \in 1..n PROVE t[i] \in p..End(p, t)
  <2>1. i + 1 \in 1..(n + 1) /\ n + 1 \in 1..(n + 1)
    OBVIOUS
  <2>2. PICK a \in Nat, b \in Nat : a = Place(p, t, i + 1) /\ b = Place(p, t, n + 1)
    BY <1>6, <2>1
  <2>3. p <= a /\ a <= b
    BY <1>6, <1>8, <2>1, <2>2
  <2> QED
    BY <1>1, <1>3, <2>2, <2>3 DEF End
<1>10. End(p, t) \in Nat /\ p + n <= End(p, t) /\ End(p, t) <= N
  <2>1. n + 1 \in 1..(n + 1) /\ p + (n + 1) - 1 = p + n
    OBVIOUS
  <2> QED
    BY <1>1, <1>6, <2>1 DEF End
<1>11. t \in Seq(p..End(p, t))
  <2>1. t \in [1..n -> p..End(p, t)]
    <3>1. t = [i \in 1..n |-> t[i]]
      BY <1>1, <1>2
    <3> QED
      BY <3>1, <1>9
  <2> QED
    BY <2>1, SeqDef
<1> QED
  BY <1>1, <1>2, <1>3, <1>4, <1>6, <1>8, <1>10, <1>11 DEF End

LEMMA EmptyChain ==
  ASSUME NEW p \in Nat
  PROVE  Chain(p, <<>>) /\ End(p, <<>>) = p /\ Len(<<>>) = 0
<1>1. Len(<<>>) = 0 /\ <<>> \in Seq(Nat)
  OBVIOUS
<1> QED
  BY <1>1 DEF Chain, End, Place

LEMMA ChainGrows ==
  ASSUME PageOK, NEW p \in Nat, NEW t, Chain(p, t), NEW l \in Nat, IsLine(End(p, t) + 1, l)
  PROVE  /\ Chain(p, Append(t, l)) /\ End(p, Append(t, l)) = l
         /\ Len(Append(t, l)) = Len(t) + 1
<1>1. PICK n \in Nat : n = Len(t)
  BY DEF Chain
<1>2. PICK u \in Seq(Nat) :
        u = Append(t, l) /\ Len(u) = n + 1 /\ u[n + 1] = l /\ \A i \in 1..n : u[i] = t[i]
  <2>1. t \in Seq(Nat)
    BY DEF Chain
  <2>2. /\ Append(t, l) \in Seq(Nat) /\ Len(Append(t, l)) = Len(t) + 1
        /\ \A i \in 1..Len(t) : Append(t, l)[i] = t[i]
        /\ Append(t, l)[Len(t) + 1] = l
    BY <2>1, AppendProperties
  <2> QED
    BY <1>1, <2>2
<1>3. ASSUME NEW i \in 1..(n + 1) PROVE Place(p, u, i) = Place(p, t, i)
  BY <1>2, <1>3 DEF Place
<1>4. ASSUME NEW i \in 1..(n + 1) PROVE IsLine(Place(p, u, i) + 1, u[i])
  <2>1. CASE i = n + 1
    <3>1. Place(p, t, i) = End(p, t)
      BY <1>1, <2>1 DEF End
    <3> QED
      BY <1>2, <1>3, <2>1, <3>1
  <2>2. CASE i # n + 1
    <3>1. i \in 1..n
      BY <2>2
    <3>2. IsLine(Place(p, t, i) + 1, t[i])
      BY <1>1, <3>1 DEF Chain
    <3> QED
      BY <1>2, <1>3, <3>1, <3>2
  <2> QED
    BY <2>1, <2>2
<1>5. End(p, u) = l
  BY <1>2 DEF End, Place
<1> QED
  BY <1>1, <1>2, <1>4, <1>5 DEF Chain

LEMMA ChainCut ==
  ASSUME PageOK, NEW p \in Nat, NEW t, Chain(p, t), NEW m \in 0..Len(t)
  PROVE  /\ Chain(p, SubSeq(t, 1, m)) /\ End(p, SubSeq(t, 1, m)) = Place(p, t, m + 1)
         /\ Len(SubSeq(t, 1, m)) = m /\ \A i \in 1..m : SubSeq(t, 1, m)[i] = t[i]
<1>1. PICK n \in Nat : n = Len(t) /\ t \in Seq(Nat)
  BY DEF Chain
<1>2. m \in Nat /\ m <= n
  BY <1>1
<1>3. PICK u \in Seq(Nat) : u = SubSeq(t, 1, m) /\ Len(u) = m /\ \A i \in 1..m : u[i] = t[i]
  <2>1. \A i \in 1..m : t[i] \in Nat
    BY <1>1, <1>2
  <2>2. /\ SubSeq(t, 1, m) \in Seq(Nat)
        /\ Len(SubSeq(t, 1, m)) = IF 1 <= m THEN m - 1 + 1 ELSE 0
        /\ \A i \in 1..(m - 1 + 1) : SubSeq(t, 1, m)[i] = t[1 + i - 1]
    BY <1>2, <2>1, SubSeqProperties
  <2>3. Len(SubSeq(t, 1, m)) = m
    BY <1>2, <2>2
  <2>4. \A i \in 1..m : SubSeq(t, 1, m)[i] = t[i]
    BY <1>2, <2>2
  <2> QED
    BY <2>2, <2>3, <2>4
<1>4. ASSUME NEW i \in 1..(m + 1) PROVE Place(p, u, i) = Place(p, t, i)
  BY <1>2, <1>3, <1>4 DEF Place
<1>5. ASSUME NEW i \in 1..m PROVE IsLine(Place(p, u, i) + 1, u[i])
  <2>1. i \in 1..n /\ i \in 1..(m + 1)
    BY <1>2
  <2> QED
    BY <1>1, <1>3, <1>4, <2>1 DEF Chain
<1>6. End(p, u) = Place(p, t, m + 1)
  <2>1. m + 1 \in 1..(m + 1)
    BY <1>2
  <2> QED
    BY <1>3, <1>4, <2>1 DEF End
<1> QED
  BY <1>3, <1>5, <1>6 DEF Chain

LEMMA ChainJoined ==
  ASSUME PageOK, NEW p \in Nat, NEW s, NEW t, Chain(p, s), Chain(End(p, s), t)
  PROVE  Chain(p, s \o t) /\ End(p, s \o t) = End(End(p, s), t) /\ Len(s \o t) = Len(s) + Len(t)
<1>1. PICK m \in Nat, n \in Nat : m = Len(s) /\ n = Len(t) /\ s \in Seq(Nat) /\ t \in Seq(Nat)
  BY DEF Chain
<1>2. PICK u \in Seq(Nat) :
        /\ u = s \o t /\ Len(u) = m + n
        /\ \A i \in 1..(m + n) : u[i] = IF i <= m THEN s[i] ELSE t[i - m]
  <2>1. /\ s \o t \in Seq(Nat) /\ Len(s \o t) = Len(s) + Len(t)
        /\ \A i \in 1..(Len(s) + Len(t)) : (s \o t)[i] = IF i <= Len(s) THEN s[i] ELSE t[i - Len(s)]
    BY <1>1, ConcatProperties
  <2> QED
    BY <1>1, <2>1
<1>3. ASSUME NEW i \in 1..(m + 1) PROVE Place(p, u, i) = Place(p, s, i)
  BY <1>1, <1>2, <1>3 DEF Place
<1>4. ASSUME NEW i \in 1..(n + 1) PROVE Place(p, u, m + i) = Place(End(p, s), t, i)
  <2>1. CASE i = 1
    <3>1. m + 1 \in 1..(m + 1)
      OBVIOUS
    <3> QED
      BY <1>1, <1>3, <2>1, <3>1 DEF Place, End
  <2>2. CASE i # 1
    <3>1. PICK j \in 1..(m + n) : j = m + i - 1 /\ ~(j <= m) /\ j - m = i - 1 /\ m + i # 1
      <4>1. m + i - 1 \in 1..(m + n)
        BY <2>2
      <4> QED
        BY <2>2, <4>1
    <3>2. u[j] = t[i - 1]
      BY <1>2, <3>1
    <3> QED
      BY <2>2, <3>1, <3>2 DEF Place
  <2> QED
    BY <2>1, <2>2
<1>5. ASSUME NEW i \in 1..(m + n) PROVE IsLine(Place(p, u, i) + 1, u[i])
  <2>1. CASE i <= m
    <3>1. i \in 1..m /\ i \in 1..(m + 1)
      BY <2>1
    <3> QED
      BY <1>1, <1>2, <1>3, <2>1, <3>1 DEF Chain
  <2>2. CASE ~(i <= m)
    <3>1. PICK j \in 1..n : i = m + j
      <4>1. i - m \in 1..n /\ i = m + (i - m)
        BY <2>2
      <4> QED
        BY <4>1
    <3>2. j \in 1..(n + 1) /\ i - m = j
      BY <3>1
    <3>3. IsLine(Place(End(p, s), t, j) + 1, t[j])
      BY <1>1, <3>1 DEF Chain
    <3>4. Place(p, u, i) = Place(End(p, s), t, j)
      BY <1>4, <3>1, <3>2
    <3>5. u[i] = t[j]
      BY <1>2, <2>2, <3>2
    <3> QED
      BY <3>3, <3>4, <3>5
  <2> QED
    BY <2>1, <2>2
<1>6. End(p, u) = End(End(p, s), t)
  <2>1. n + 1 \in 1..(n + 1) /\ m + n + 1 = m + (n + 1)
    OBVIOUS
  <2>2. Place(p, u, m + (n + 1)) = Place(End(p, s), t, n + 1)
    BY <1>4, <2>1
  <2> QED
    BY <1>1, <1>2, <2>1, <2>2 DEF End
<1> QED
  BY <1>1, <1>2, <1>5, <1>6 DEF Chain

\* Two chains from the same place have the same lines.
LEMMA ChainsAgree ==
  ASSUME PageOK, NEW p \in Nat, p <= Len(wire), NEW t, NEW u, Chain(p, t), Chain(p, u),
         End(p, u) <= End(p, t) \/ IsStatus(wire[End(p, t) + 1])
  PROVE  Len(u) <= Len(t) /\ \A i \in 1..Len(u) : u[i] = t[i]
<1>1. PICK m \in Nat, n \in Nat, N \in Nat : m = Len(t) /\ n = Len(u) /\ N = Len(wire)
  BY PageType DEF Chain
<1> DEFINE T == {i \in Nat : i <= n => i <= m /\ Place(p, u, i + 1) = Place(p, t, i + 1)}
<1>2. 0 \in T
  BY DEF Place
<1>3. ASSUME NEW i \in T PROVE i + 1 \in T
  <2>1. CASE i + 1 <= n
    <3>1. /\ i + 1 \in 1..n /\ i + 1 \in 1..(n + 1) /\ i + 2 \in 1..(n + 1)
          /\ i <= m /\ Place(p, u, i + 1) = Place(p, t, i + 1)
      BY <2>1
    <3>2. PICK k \in Nat : k = Place(p, u, i + 1) /\ k <= N
      BY <1>1, <3>1, ChainType
    <3>3. PICK l \in Nat : l = u[i + 1] /\ IsLine(k + 1, l) /\ k < l /\ l <= N /\ l <= End(p, u)
                           /\ l = Place(p, u, i + 2)
      <4>1. u[i + 1] \in Nat /\ IsLine(Place(p, u, i + 1) + 1, u[i + 1])
        BY <1>1, <3>1 DEF Chain
      <4>2. u[i + 1] = Place(p, u, i + 2)
        BY <3>1 DEF Place
      <4>3. Place(p, u, i + 1) < u[i + 1]
        BY <1>1, <3>1, ChainType
      <4>4. Place(p, u, i + 2) <= End(p, u) /\ Place(p, u, i + 2) <= N
        BY <1>1, <3>1, ChainType
      <4> QED
        BY <3>2, <4>1, <4>2, <4>3, <4>4
    <3>4. i + 1 <= m
      <4> SUFFICES ASSUME i = m PROVE FALSE
        BY <3>1, <1>1
      <4>1. k = End(p, t)
        BY <1>1, <3>1, <3>2 DEF End
      <4>2. ~IsStatus(wire[k + 1])
        BY <3>3 DEF IsLine
      <4>3. End(p, u) \in Nat
        BY ChainType
      <4> QED
        BY <3>2, <3>3, <4>1, <4>2, <4>3
    <3>5. PICK j \in Nat : j = t[i + 1] /\ IsLine(k + 1, j) /\ j <= N /\ j = Place(p, t, i + 2)
      <4>1. i + 1 \in 1..m /\ i + 2 \in 1..(m + 1)
        BY <3>4
      <4>2. t[i + 1] \in Nat /\ IsLine(Place(p, t, i + 1) + 1, t[i + 1])
        BY <1>1, <4>1 DEF Chain
      <4>3. t[i + 1] = Place(p, t, i + 2)
        BY <4>1 DEF Place
      <4>4. Place(p, t, i + 2) <= N
        BY <1>1, <4>1, ChainType
      <4> QED
        BY <3>1, <3>2, <4>2, <4>3, <4>4
    <3>6. l = j
      <4>1. N \in l..Len(wire) /\ N \in j..Len(wire)
        BY <1>1, <3>3, <3>5
      <4>2. k + 1 + LineLength(k + 1, N) - 1 = l /\ k + 1 + LineLength(k + 1, N) - 1 = j
        BY <3>3, <3>5, <4>1, LineAt
      <4> QED
        BY <4>2
    <3>7. i + 1 + 1 = i + 2
      OBVIOUS
    <3> QED
      BY <3>3, <3>4, <3>5, <3>6, <3>7
  <2> QED
    BY <2>1
<1>4. T = Nat
  <2>1. T \in SUBSET Nat
    OBVIOUS
  <2> HIDE DEF T
  <2> QED
    BY <1>2, <1>3, <2>1, AllNumbers
<1>5. ASSUME NEW i \in Nat PROVE i \in T
  <2> HIDE DEF T
  <2> QED
    BY <1>4
<1>6. n <= m
  BY <1>1, <1>5
<1>7. ASSUME NEW i \in 1..n PROVE u[i] = t[i]
  <2>1. i \in T /\ i # 0
    BY <1>5
  <2>2. Place(p, u, i + 1) = u[i] /\ Place(p, t, i + 1) = t[i]
    BY DEF Place
  <2> QED
    BY <2>1, <2>2
<1> QED
  BY <1>1, <1>6, <1>7

-----------------------------------------------------------------------------
(* LineEnds() of a page are the lines that follow each other in it.        *)

NoLine(k, e)       == k > e \/ IsStatus(wire[k]) \/ LineLength(k, e) = 0
Prefixed(k, n, ends) == <<k + n - 1>> \o ends
EndsFrom(e, F, k)  ==
  IF NoLine(k, e) THEN <<>> ELSE Prefixed(k, LineLength(k, e), F[k + LineLength(k, e)])

LEMMA LineEndsWalk ==
  ASSUME PageOK, NEW e \in 0..Len(wire)
  PROVE  \E F : LineEnds(e) = F[1] /\ \A k \in 1..(Len(wire) + 1) : F[k] = EndsFrom(e, F, k)
<1> DEFINE M == Len(wire) + 1
           S == 1..M
           V == Seq(Nat)
           F == CHOOSE From : From = [k \in 1..(Len(wire) + 1) |->
                  IF k > e \/ IsStatus(wire[k]) \/ LineLength(k, e) = 0 THEN <<>>
                  ELSE <<k + LineLength(k, e) - 1>> \o From[k + LineLength(k, e)]]
           G(f) == [k \in 1..(Len(wire) + 1) |-> EndsFrom(e, f, k)]
           left == [k \in S |-> M - k]
           stop == {k \in S : NoLine(k, e)}
           next == [k \in S |-> IF NoLine(k, e) THEN k ELSE k + LineLength(k, e)]
           val  == [k \in S |-> <<>>]
           comb == [x \in S \X V |-> IF NoLine(x[1], e) THEN <<>>
                                   ELSE Prefixed(x[1], LineLength(x[1], e), x[2])]
<1>1. LineEnds(e) = F[1]
  BY DEF LineEnds
<1>2. PICK N \in Nat : N = Len(wire) /\ M = N + 1
  BY PageType
<1>3. ASSUME NEW k \in S, ~NoLine(k, e)
      PROVE  /\ k + LineLength(k, e) \in S /\ k < k + LineLength(k, e)
             /\ k + LineLength(k, e) - 1 \in Nat
  <2>1. e \in 1..Len(wire) /\ k \in 1..e /\ LineLength(k, e) # 0
    BY <1>2, <1>3 DEF NoLine
  <2>2. PICK L \in Nat : L = LineLength(k, e) /\ L # 0 /\ k + L - 1 <= e
    BY <2>1, LineFound
  <2> QED
    BY <1>2, <2>1, <2>2
<1>4. next \in [S -> S] /\ \A k \in S \ stop : next[k] = k + LineLength(k, e) /\ k < next[k]
  BY <1>3
<1>5. \A k \in S : next[k] - 1 \in Nat
  BY <1>4
<1>6. left \in [S -> 0..M] /\ M \in Nat /\ stop \in SUBSET S /\ val \in [S -> V]
  BY <1>2
<1>7. comb \in [S \X V -> V]
  <2>1. ASSUME NEW x \in S \X V, ~NoLine(x[1], e)
        PROVE  Prefixed(x[1], LineLength(x[1], e), x[2]) \in V
    <3>1. x[1] \in S /\ x[2] \in Seq(Nat)
      OBVIOUS
    <3>2. PICK a \in Nat : a = x[1] + LineLength(x[1], e) - 1
      BY <1>3, <2>1, <3>1
    <3>3. <<a>> \in Seq(Nat)
      OBVIOUS
    <3>4. <<a>> \o x[2] \in Seq(Nat)
      BY <3>1, <3>3, ConcatProperties
    <3> QED
      BY <3>2, <3>4 DEF Prefixed
  <2> QED
    BY <2>1
<1>8. \A x \in S \ stop : left[next[x]] < left[x]
  <2> SUFFICES ASSUME NEW x \in S \ stop PROVE left[next[x]] < left[x]
    OBVIOUS
  <2>1. next[x] \in S /\ x < next[x] /\ x \in S
    BY <1>4
  <2> QED
    BY <1>2, <2>1
<1>9. PICK f \in [S -> V] :
        \A x \in S : f[x] = IF x \in stop THEN val[x] ELSE comb[<<x, f[next[x]]>>]
  <2> HIDE DEF S, V, M, left, stop, val, next, comb
  <2>1. Loop(S, V, M, left, stop, val, next, comb)
    BY <1>4, <1>6, <1>7, <1>8 DEF Loop
  <2> QED
    BY <2>1, LoopExists DEF HasValue
<1>10. ASSUME NEW k \in S PROVE f[k] = EndsFrom(e, f, k)
  <2>1. f[k] = IF k \in stop THEN val[k] ELSE comb[<<k, f[next[k]]>>]
    BY <1>9
  <2>2. CASE NoLine(k, e)
    BY <2>1, <2>2 DEF EndsFrom
  <2>3. CASE ~NoLine(k, e)
    <3>1. next[k] \in S /\ next[k] = k + LineLength(k, e)
      BY <1>4, <2>3
    <3>2. comb[<<k, f[next[k]]>>] = Prefixed(k, LineLength(k, e), f[next[k]])
      <4>1. <<k, f[next[k]]>> \in S \X V
        BY <1>9, <3>1
      <4> HIDE DEF S, V, next
      <4> QED
        BY <2>3, <4>1
    <3>3. k \notin stop
      BY <2>3
    <3>4. f[k] = Prefixed(k, LineLength(k, e), f[next[k]])
      <4> HIDE DEF S, V, next, stop, comb
      <4> QED
        BY <2>1, <3>2, <3>3
    <3>5. f[k] = Prefixed(k, LineLength(k, e), f[k + LineLength(k, e)])
      BY <3>1, <3>4
    <3> QED
      BY <2>3, <3>5 DEF EndsFrom
  <2> QED
    BY <2>2, <2>3
<1>11. f = G(f)
  <2> HIDE DEF V
  <2> QED
    BY <1>9, <1>10
<1>12. F = G(F)
  BY <1>11, Zenon DEF EndsFrom, NoLine, Prefixed
<1> HIDE DEF F
<1>13. \A k \in 1..(Len(wire) + 1) : F[k] = EndsFrom(e, F, k)
  <2> SUFFICES ASSUME NEW k \in 1..(Len(wire) + 1) PROVE F[k] = EndsFrom(e, F, k)
    OBVIOUS
  <2>1. G(F)[k] = EndsFrom(e, F, k)
    OBVIOUS
  <2> QED
    BY <1>12, <2>1, Zenon
<1> QED
  BY <1>1, <1>13

LEMMA LineEndsIs ==
  ASSUME PageOK, NEW e \in 0..Len(wire), NEW s, Chain(0, s), End(0, s) <= e,
         NoLine(End(0, s) + 1, e)
  PROVE  LineEnds(e) = s
<1>1. PICK n \in Nat, N \in Nat : n = Len(s) /\ N = Len(wire) /\ e <= N /\ e \in Nat /\ s \in Seq(Nat)
  BY PageType DEF Chain
<1>2. PICK F : LineEnds(e) = F[1] /\ \A k \in 1..(N + 1) : F[k] = EndsFrom(e, F, k)
  BY <1>1, LineEndsWalk
<1> DEFINE T == {j \in Nat : j <= n => F[Place(0, s, n + 1 - j) + 1] = SubSeq(s, n + 1 - j, n)}
<1>3. \A i \in 1..(n + 1) : Place(0, s, i) \in Nat /\ Place(0, s, i) <= N
  BY <1>1, ChainType
<1>4. 0 \in T
  <2>1. n + 1 \in 1..(n + 1) /\ n + 1 - 0 = n + 1
    OBVIOUS
  <2>2. PICK p \in Nat : p = Place(0, s, n + 1) /\ p <= N
    BY <1>3, <2>1
  <2>3. F[p + 1] = EndsFrom(e, F, p + 1)
    BY <1>2, <2>2
  <2>4. NoLine(p + 1, e)
    BY <1>1, <2>2 DEF End
  <2>5. SubSeq(s, n + 1, n) = <<>>
    BY SubSeqEmpty
  <2> QED
    BY <2>1, <2>2, <2>3, <2>4, <2>5 DEF EndsFrom
<1>5. ASSUME NEW j \in T PROVE j + 1 \in T
  <2>1. CASE j + 1 <= n
    <3>1. PICK i \in 1..n : i = n + 1 - (j + 1) /\ n + 1 - j = i + 1 /\ i \in 1..(n + 1)
      <4>1. n + 1 - (j + 1) \in 1..n
        BY <2>1
      <4> QED
        BY <4>1
    <3>2. PICK p \in Nat : p = Place(0, s, i) /\ p <= N
      BY <1>3, <3>1
    <3>3. IsLine(p + 1, s[i]) /\ s[i] = Place(0, s, i + 1) /\ s[i] <= e /\ s[i] \in Nat
      <4>1. i + 1 \in 1..(n + 1)
        BY <3>1
      <4>2. Place(0, s, i + 1) <= End(0, s) /\ End(0, s) \in Nat
        BY <1>1, <4>1, ChainType
      <4>3. s[i] = Place(0, s, i + 1)
        BY <3>1 DEF Place
      <4> QED
        BY <1>1, <3>1, <3>2, <4>2, <4>3 DEF Chain
    <3>4. e \in s[i]..Len(wire)
      BY <1>1, <3>3
    <3>5. /\ p + 1 \in 1..e /\ ~IsStatus(wire[p + 1])
          /\ LineLength(p + 1, e) = s[i] - (p + 1) + 1 /\ LineLength(p + 1, e) # 0
      BY <3>3, <3>4, LineAt
    <3>6. ~NoLine(p + 1, e)
      <4>1. ~(p + 1 > e)
        BY <1>1, <3>2, <3>5
      <4> QED
        BY <3>5, <4>1 DEF NoLine
    <3>7. p + 1 \in 1..(N + 1)
      BY <3>2
    <3>8. F[p + 1] = <<p + 1 + LineLength(p + 1, e) - 1>> \o F[p + 1 + LineLength(p + 1, e)]
      BY <1>2, <3>6, <3>7 DEF EndsFrom, Prefixed
    <3>9. F[p + 1] = <<s[i]>> \o F[s[i] + 1]
      <4>1. PICK l \in Nat, L \in Int : l = s[i] /\ L = LineLength(p + 1, e) /\ L = l - (p + 1) + 1
        BY <3>2, <3>3, <3>5
      <4>2. p + 1 + L - 1 = l /\ p + 1 + L = l + 1
        BY <4>1
      <4> QED
        BY <3>8, <4>1, <4>2
    <3>10. F[s[i] + 1] = SubSeq(s, i + 1, n)
      <4>1. F[Place(0, s, n + 1 - j) + 1] = SubSeq(s, n + 1 - j, n)
        BY <2>1
      <4> QED
        BY <3>1, <3>3, <4>1
    <3>11. SubSeq(s, i, n) = <<s[i]>> \o SubSeq(s, i + 1, n)
      <4>1. i \in 1..Len(s) /\ n \in i..Len(s)
        BY <1>1, <3>1
      <4> QED
        BY <1>1, <4>1, SubSeqRecursiveFirst
    <3>12. F[Place(0, s, n + 1 - (j + 1)) + 1] = SubSeq(s, n + 1 - (j + 1), n)
      <4>1. F[Place(0, s, i) + 1] = SubSeq(s, i, n)
        BY <3>2, <3>9, <3>10, <3>11
      <4> QED
        BY <3>1, <4>1
    <3> QED
      BY <3>12
  <2> QED
    BY <2>1
<1>6. n \in T
  <2>1. T \in SUBSET Nat
    OBVIOUS
  <2> HIDE DEF T
  <2> QED
    BY <1>4, <1>5, <2>1, AllNumbers
<1>7. F[1] = SubSeq(s, 1, n)
  <2>1. n + 1 - n = 1 /\ Place(0, s, 1) = 0
    BY DEF Place
  <2> QED
    BY <1>6, <2>1
<1> QED
  BY <1>1, <1>2, <1>7, SubSeqFull

-----------------------------------------------------------------------------
(* Lines of the image and the image.                                       *)

LEMMA DivIs ==
  ASSUME NEW a \in Int, NEW b \in Int, b > 0, NEW q \in Int, NEW r \in Int,
         a = q * b + r, 0 <= r, r < b
  PROVE  a \div b = q
<1>1. PICK d \in Int, m \in Int : d = a \div b /\ a = b * d + m /\ 0 <= m /\ m < b
  <2>1. /\ a \div b \in Int /\ a % b \in Int
        /\ a = b * (a \div b) + (a % b) /\ 0 <= a % b /\ a % b < b
    BY Dividing
  <2> QED
    BY <2>1
<1>2. (q - d) * b = m - r
  BY <1>1
<1>3. -b < m - r /\ m - r < b
  BY <1>1
<1>4. PICK x \in Int : x = q - d
  OBVIOUS
<1>5. x * b < b /\ -b < x * b
  BY <1>1, <1>2, <1>3, <1>4
<1>6. x = 0
  <2>1. CASE x >= 1
    <3>1. x * b >= b
      BY <2>1
    <3> QED
      BY <1>4, <1>5, <3>1
  <2>2. CASE x <= -1
    <3>1. x * b <= -b
      BY <2>2
    <3> QED
      BY <1>4, <1>5, <3>1
  <2> QED
    BY <1>4, <2>1, <2>2
<1> QED
  BY <1>1, <1>4, <1>6

LEMMA DivShift ==
  ASSUME NEW a \in Nat, NEW b \in Nat \ {0}, NEW k \in Nat
  PROVE  (k * b + a) \div b = k + (a \div b)
<1>1. PICK q \in Int, r \in Int : q = a \div b /\ a = b * q + r /\ 0 <= r /\ r < b
  <2>1. /\ a \div b \in Int /\ a % b \in Int
        /\ a = b * (a \div b) + (a % b) /\ 0 <= a % b /\ a % b < b
    BY Dividing
  <2> QED
    BY <2>1
<1>2. PICK c \in Int : c = k * b + a
  <2>1. k * b + a \in Int
    OBVIOUS
  <2> QED
    BY <2>1
<1>3. c = (k + q) * b + r
  BY <1>1, <1>2
<1>4. k + q \in Int /\ b \in Int /\ b > 0
  BY <1>1
<1>5. c \div b = k + q
  BY <1>1, <1>2, <1>3, <1>4, DivIs
<1> QED
  BY <1>1, <1>2, <1>5

\* The p-th byte is of one of k lines.
LEMMA LineOf ==
  ASSUME NEW b \in Nat \ {0}, NEW k \in Nat, NEW p \in 1..(k * b)
  PROVE  (p - 1) \div b + 1 \in 1..k
<1>1. PICK q \in Int, r \in Int : q = (p - 1) \div b /\ p - 1 = b * q + r /\ 0 <= r /\ r < b
  <2>1. p - 1 \in Int /\ b > 0
    OBVIOUS
  <2>2. /\ (p - 1) \div b \in Int /\ (p - 1) % b \in Int
        /\ p - 1 = b * ((p - 1) \div b) + ((p - 1) % b) /\ 0 <= (p - 1) % b /\ (p - 1) % b < b
    BY <2>1, Dividing
  <2> QED
    BY <2>2
<1>2. k * b \in Nat
  OBVIOUS
<1>3. 0 <= p - 1 /\ p - 1 < k * b
  BY <1>2
<1>4. 0 <= q
  <2>1. q <= -1 => b * q <= -b
    BY <1>1
  <2> QED
    BY <1>1, <1>3, <2>1
<1>5. q < k
  <2>1. q >= k => b * q >= k * b
    BY <1>1
  <2> QED
    BY <1>1, <1>2, <1>3, <2>1
<1> QED
  BY <1>1, <1>4, <1>5

LinesOf(s) == IF scan.colour THEN [i \in 1..(Len(s) \div 3) |-> s[3 * i]] ELSE s
Picture(l) == [p \in 1..(Len(l) * OutWidth) |-> l[(p - 1) \div OutWidth + 1]]

LEMMA ImageIs ==
  ASSUME NEW e
  PROVE  Lines(e) = LinesOf(LineEnds(e)) /\ Image(e) = Picture(Lines(e))
BY DEF Lines, LinesOf, Image, Picture

LEMMA FunctionIsSeq ==
  ASSUME NEW S, NEW n \in Nat, NEW f \in [1..n -> S]
  PROVE  f \in Seq(S) /\ Len(f) = n
<1>1. f \in Seq(S)
  BY SeqDef
<1>2. DOMAIN f = 1..n /\ DOMAIN f = 1..Len(f) /\ Len(f) \in Nat
  BY <1>1, LenProperties
<1> QED
  BY <1>1, <1>2

\* f is s and t, that have m and n elements.
IsJoin(S, f, s, t, m, n) ==
  /\ s \in Seq(S) /\ t \in Seq(S) /\ f \in Seq(S)
  /\ m \in Nat /\ n \in Nat /\ Len(s) = m /\ Len(t) = n /\ Len(f) = m + n
  /\ \A i \in 1..m : f[i] = s[i]
  /\ \A j \in 1..n : f[m + j] = t[j]

LEMMA Joined ==
  ASSUME NEW S, NEW s \in Seq(S), NEW t \in Seq(S), NEW m, NEW n, m = Len(s), n = Len(t)
  PROVE  IsJoin(S, s \o t, s, t, m, n)
<1>1. /\ s \o t \in Seq(S) /\ Len(s \o t) = Len(s) + Len(t)
      /\ \A i \in 1..(Len(s) + Len(t)) : (s \o t)[i] = IF i <= Len(s) THEN s[i] ELSE t[i - Len(s)]
  BY ConcatProperties
<1>2. m \in Nat /\ n \in Nat
  OBVIOUS
<1>3. \A i \in 1..(m + n) : (s \o t)[i] = IF i <= m THEN s[i] ELSE t[i - m]
  BY <1>1
<1>4. ASSUME NEW i \in 1..m PROVE (s \o t)[i] = s[i]
  <2>1. i \in 1..(m + n) /\ i <= m
    BY <1>2
  <2> QED
    BY <1>3, <2>1
<1>5. ASSUME NEW j \in 1..n PROVE (s \o t)[m + j] = t[j]
  <2>1. PICK i \in 1..(m + n) : i = m + j /\ ~(i <= m) /\ i - m = j
    <3>1. m + j \in 1..(m + n)
      BY <1>2
    <3> QED
      BY <1>2, <3>1
  <2> QED
    BY <1>3, <2>1
<1> QED
  BY <1>1, <1>2, <1>4, <1>5 DEF IsJoin

LEMMA IsJoined ==
  ASSUME NEW S, NEW s, NEW t, NEW f, NEW m, NEW n, IsJoin(S, f, s, t, m, n)
  PROVE  f = s \o t
<1>0. /\ s \in Seq(S) /\ t \in Seq(S) /\ f \in Seq(S) /\ m = Len(s) /\ n = Len(t)
      /\ Len(f) = m + n /\ (\A i \in 1..m : f[i] = s[i]) /\ (\A j \in 1..n : f[m + j] = t[j])
  BY DEF IsJoin
<1>1. /\ m \in Nat /\ n \in Nat /\ s \o t \in Seq(S) /\ Len(s \o t) = m + n
      /\ \A i \in 1..m : (s \o t)[i] = s[i]
      /\ \A j \in 1..n : (s \o t)[m + j] = t[j]
  <2>1. IsJoin(S, s \o t, s, t, m, n)
    BY <1>0, Joined
  <2> QED
    BY <2>1 DEF IsJoin
<1>2. ASSUME NEW i \in 1..(m + n) PROVE f[i] = (s \o t)[i]
  <2>1. CASE i <= m
    <3>1. i \in 1..m
      BY <1>1, <2>1
    <3> QED
      BY <1>0, <1>1, <3>1
  <2>2. CASE ~(i <= m)
    <3>1. PICK j \in 1..n : i = m + j
      <4>1. i - m \in 1..n /\ i = m + (i - m)
        BY <1>1, <2>2
      <4> QED
        BY <4>1
    <3> QED
      BY <1>0, <1>1, <3>1
  <2> QED
    BY <2>1, <2>2
<1> QED
  BY <1>0, <1>1, <1>2, SeqEqual

LEMMA ConcatType ==
  ASSUME NEW S, NEW s \in Seq(S), NEW t \in Seq(S)
  PROVE  s \o t \in Seq(S) /\ Len(s \o t) = Len(s) + Len(t) /\ Len(s) \in Nat /\ Len(t) \in Nat
BY ConcatProperties

LEMMA TimesType ==
  ASSUME NEW n \in Nat, NEW x, NEW S, x \in S
  PROVE  /\ Times(n, x) \in Seq(S) /\ Len(Times(n, x)) = n
         /\ \A i \in 1..n : Times(n, x)[i] = x
<1>1. Times(n, x) \in [1..n -> S]
  BY DEF Times
<1>2. \A i \in 1..n : Times(n, x)[i] = x
  BY DEF Times
<1> HIDE DEF Times
<1> QED
  BY <1>1, <1>2, FunctionIsSeq

LEMMA TimesJoined ==
  ASSUME NEW m \in Nat, NEW n \in Nat, NEW x
  PROVE  Times(m, x) \o Times(n, x) = Times(m + n, x)
<1> DEFINE S == {x}
<1>1. /\ Times(m, x) \in Seq(S) /\ Len(Times(m, x)) = m
      /\ Times(n, x) \in Seq(S) /\ Len(Times(n, x)) = n
      /\ Times(m + n, x) \in Seq(S) /\ Len(Times(m + n, x)) = m + n
      /\ \A i \in 1..m : Times(m, x)[i] = x
      /\ \A i \in 1..n : Times(n, x)[i] = x
      /\ \A i \in 1..(m + n) : Times(m + n, x)[i] = x
  BY TimesType
<1>2. ASSUME NEW i \in 1..m PROVE Times(m + n, x)[i] = Times(m, x)[i]
  <2>1. i \in 1..(m + n)
    OBVIOUS
  <2> QED
    BY <1>1, <2>1
<1>3. ASSUME NEW j \in 1..n PROVE Times(m + n, x)[m + j] = Times(n, x)[j]
  <2>1. m + j \in 1..(m + n)
    OBVIOUS
  <2> QED
    BY <1>1, <2>1
<1>4. IsJoin(S, Times(m + n, x), Times(m, x), Times(n, x), m, n)
  BY <1>1, <1>2, <1>3 DEF IsJoin
<1> QED
  BY <1>4, IsJoined

LEMMA LinesOfType ==
  ASSUME PageOK, NEW S, NEW s \in Seq(S)
  PROVE  /\ LinesOf(s) \in Seq(S) /\ Len(LinesOf(s)) \in Nat
         /\ Len(LinesOf(s)) = IF scan.colour THEN Len(s) \div 3 ELSE Len(s)
         /\ scan.colour => \A i \in 1..(Len(s) \div 3) : LinesOf(s)[i] = s[3 * i]
<1>1. CASE scan.colour
  <2>1. PICK n \in Nat, q \in Nat :
          n = Len(s) /\ q = n \div 3 /\ \A i \in 1..q : 3 * i \in 1..n
    OBVIOUS
  <2>2. LinesOf(s) = [i \in 1..q |-> s[3 * i]]
    BY <1>1, <2>1 DEF LinesOf
  <2>3. [i \in 1..q |-> s[3 * i]] \in [1..q -> S]
    BY <2>1
  <2>4. LinesOf(s) \in Seq(S) /\ Len(LinesOf(s)) = q
    BY <2>2, <2>3, FunctionIsSeq
  <2> QED
    BY <1>1, <2>1, <2>2, <2>4
<1>2. CASE ~scan.colour
  BY <1>2 DEF LinesOf
<1> QED
  BY <1>1, <1>2

LEMMA LinesJoined ==
  ASSUME PageOK, NEW S, NEW s \in Seq(S), NEW u \in Seq(S), scan.colour => Len(s) % 3 = 0
  PROVE  LinesOf(s \o u) = LinesOf(s) \o LinesOf(u)
<1>1. CASE ~scan.colour
  BY <1>1 DEF LinesOf
<1>2. CASE scan.colour
  <2>1. PICK k \in Nat, n \in Nat, q \in Nat :
          /\ Len(s) = 3 * k /\ n = Len(u) /\ q = n \div 3 /\ Len(s) \div 3 = k
          /\ (3 * k + n) \div 3 = k + q /\ 3 * q <= n
    <3>1. Len(s) \in Nat /\ Len(u) \in Nat /\ Len(s) % 3 = 0
      BY <1>2
    <3>2. PICK k \in Nat : Len(s) = 3 * k
      BY <3>1
    <3>3. PICK n \in Nat : n = Len(u)
      BY <3>1
    <3>4. n \div 3 \in Nat /\ (3 * k) \div 3 = k /\ (3 * k + n) \div 3 = k + (n \div 3)
      OBVIOUS
    <3>5. 3 * (n \div 3) <= n
      OBVIOUS
    <3> QED
      BY <3>2, <3>3, <3>4, <3>5
  <2>2. /\ s \o u \in Seq(S) /\ Len(s \o u) = 3 * k + n
        /\ \A i \in 1..(3 * k) : (s \o u)[i] = s[i]
        /\ \A j \in 1..n : (s \o u)[3 * k + j] = u[j]
    <3>1. PICK m \in Nat : m = 3 * k
      OBVIOUS
    <3>2. IsJoin(S, s \o u, s, u, m, n)
      BY <2>1, <3>1, Joined
    <3> QED
      BY <3>1, <3>2 DEF IsJoin
  <2>3. LinesOf(s) \in Seq(S) /\ Len(LinesOf(s)) = k /\ \A i \in 1..k : LinesOf(s)[i] = s[3 * i]
    <3>1. /\ LinesOf(s) \in Seq(S) /\ Len(LinesOf(s)) = Len(s) \div 3
          /\ \A i \in 1..(Len(s) \div 3) : LinesOf(s)[i] = s[3 * i]
      BY <1>2, LinesOfType
    <3> QED
      BY <2>1, <3>1
  <2>4. LinesOf(u) \in Seq(S) /\ Len(LinesOf(u)) = q /\ \A i \in 1..q : LinesOf(u)[i] = u[3 * i]
    <3>1. /\ LinesOf(u) \in Seq(S) /\ Len(LinesOf(u)) = Len(u) \div 3
          /\ \A i \in 1..(Len(u) \div 3) : LinesOf(u)[i] = u[3 * i]
      BY <1>2, LinesOfType
    <3> QED
      BY <2>1, <3>1
  <2>5. /\ LinesOf(s \o u) \in Seq(S) /\ Len(LinesOf(s \o u)) = k + q
        /\ \A i \in 1..(k + q) : LinesOf(s \o u)[i] = (s \o u)[3 * i]
    <3>1. /\ LinesOf(s \o u) \in Seq(S) /\ Len(LinesOf(s \o u)) = Len(s \o u) \div 3
          /\ \A i \in 1..(Len(s \o u) \div 3) : LinesOf(s \o u)[i] = (s \o u)[3 * i]
      BY <1>2, <2>2, LinesOfType
    <3>2. Len(s \o u) \div 3 = k + q
      BY <2>1, <2>2
    <3> QED
      BY <3>1, <3>2
  <2>6. ASSUME NEW i \in 1..k PROVE LinesOf(s \o u)[i] = LinesOf(s)[i]
    <3>1. i \in 1..(k + q) /\ 3 * i \in 1..(3 * k)
      BY <2>1
    <3> QED
      BY <2>2, <2>3, <2>5, <3>1
  <2>7. ASSUME NEW j \in 1..q PROVE LinesOf(s \o u)[k + j] = LinesOf(u)[j]
    <3>1. k + j \in 1..(k + q) /\ 3 * (k + j) = 3 * k + 3 * j
      BY <2>1
    <3>2. 3 * j \in 1..n
      BY <2>1
    <3>3. LinesOf(s \o u)[k + j] = (s \o u)[3 * k + 3 * j]
      BY <2>5, <3>1
    <3>4. (s \o u)[3 * k + 3 * j] = u[3 * j]
      BY <2>2, <3>2
    <3> QED
      BY <2>4, <3>3, <3>4
  <2>8. IsJoin(S, LinesOf(s \o u), LinesOf(s), LinesOf(u), k, q)
    BY <2>3, <2>4, <2>5, <2>6, <2>7 DEF IsJoin
  <2> QED
    BY <2>8, IsJoined
<1> QED
  BY <1>1, <1>2

LEMMA PictureType ==
  ASSUME PageOK, NEW S, NEW l \in Seq(S)
  PROVE  /\ Picture(l) \in Seq(S) /\ Len(Picture(l)) = Len(l) * OutWidth
         /\ \A p \in 1..(Len(l) * OutWidth) : Picture(l)[p] = l[(p - 1) \div OutWidth + 1]
<1>1. PICK n \in Nat, w \in Nat \ {0}, m \in Nat : n = Len(l) /\ w = OutWidth /\ m = n * w
  <2>1. \A a, b \in Nat : a * b \in Nat
    OBVIOUS
  <2> QED
    BY Widths, <2>1
<1>2. \A p \in 1..m : (p - 1) \div w + 1 \in 1..n
  BY <1>1, LineOf
<1>3. Picture(l) = [p \in 1..m |-> l[(p - 1) \div w + 1]]
  BY <1>1 DEF Picture
<1>4. [p \in 1..m |-> l[(p - 1) \div w + 1]] \in [1..m -> S]
  BY <1>1, <1>2
<1>5. Picture(l) \in Seq(S) /\ Len(Picture(l)) = m
  BY <1>3, <1>4, FunctionIsSeq
<1> QED
  BY <1>1, <1>3, <1>5

LEMMA PictureJoined ==
  ASSUME PageOK, NEW S, NEW l \in Seq(S), NEW k \in Seq(S)
  PROVE  Picture(l \o k) = Picture(l) \o Picture(k)
<1>1. PICK m \in Nat, n \in Nat, w \in Nat \ {0} : m = Len(l) /\ n = Len(k) /\ w = OutWidth
  BY Widths
<1>2. PICK a \in Nat, b \in Nat : a = m * w /\ b = n * w /\ (m + n) * w = a + b
  <2>1. m * w \in Nat /\ n * w \in Nat /\ (m + n) * w = m * w + n * w
    OBVIOUS
  <2> QED
    BY <2>1
<1>3. /\ l \o k \in Seq(S) /\ Len(l \o k) = m + n
      /\ \A i \in 1..m : (l \o k)[i] = l[i]
      /\ \A j \in 1..n : (l \o k)[m + j] = k[j]
  <2>1. IsJoin(S, l \o k, l, k, m, n)
    BY <1>1, Joined
  <2> QED
    BY <2>1 DEF IsJoin
<1>4. /\ Picture(l) \in Seq(S) /\ Len(Picture(l)) = a
      /\ \A p \in 1..a : Picture(l)[p] = l[(p - 1) \div w + 1]
  <2>1. /\ Picture(l) \in Seq(S) /\ Len(Picture(l)) = Len(l) * OutWidth
        /\ \A p \in 1..(Len(l) * OutWidth) : Picture(l)[p] = l[(p - 1) \div OutWidth + 1]
    BY PictureType
  <2> QED
    BY <1>1, <1>2, <2>1
<1>5. /\ Picture(k) \in Seq(S) /\ Len(Picture(k)) = b
      /\ \A p \in 1..b : Picture(k)[p] = k[(p - 1) \div w + 1]
  <2>1. /\ Picture(k) \in Seq(S) /\ Len(Picture(k)) = Len(k) * OutWidth
        /\ \A p \in 1..(Len(k) * OutWidth) : Picture(k)[p] = k[(p - 1) \div OutWidth + 1]
    BY PictureType
  <2> QED
    BY <1>1, <1>2, <2>1
<1>6. /\ Picture(l \o k) \in Seq(S) /\ Len(Picture(l \o k)) = a + b
      /\ \A p \in 1..(a + b) : Picture(l \o k)[p] = (l \o k)[(p - 1) \div w + 1]
  <2>1. /\ Picture(l \o k) \in Seq(S) /\ Len(Picture(l \o k)) = Len(l \o k) * OutWidth
        /\ \A p \in 1..(Len(l \o k) * OutWidth) :
             Picture(l \o k)[p] = (l \o k)[(p - 1) \div OutWidth + 1]
    BY <1>3, PictureType
  <2>2. Len(l \o k) * OutWidth = a + b
    BY <1>1, <1>2, <1>3
  <2> QED
    BY <1>1, <2>1, <2>2
<1>7. ASSUME NEW p \in 1..a PROVE Picture(l \o k)[p] = Picture(l)[p]
  <2>1. PICK i \in 1..m : i = (p - 1) \div w + 1
    <3>1. p \in 1..(m * w)
      BY <1>2
    <3> QED
      BY <3>1, LineOf
  <2>2. p \in 1..(a + b)
    BY <1>2
  <2>3. Picture(l \o k)[p] = (l \o k)[i] /\ Picture(l)[p] = l[i]
    BY <1>4, <1>6, <2>1, <2>2
  <2> QED
    BY <1>3, <2>3
<1>8. ASSUME NEW r \in 1..b PROVE Picture(l \o k)[a + r] = Picture(k)[r]
  <2>1. PICK j \in 1..n : j = (r - 1) \div w + 1
    <3>1. r \in 1..(n * w)
      BY <1>2
    <3> QED
      BY <3>1, LineOf
  <2>2. a + r \in 1..(a + b)
    BY <1>2
  <2>3. (a + r - 1) \div w + 1 = m + j
    <3>1. PICK t \in Nat : t = r - 1
      BY <1>2
    <3>2. (m * w + t) \div w = m + (t \div w)
      BY <3>1, DivShift
    <3>3. a + r - 1 = m * w + t
      BY <1>2, <3>1
    <3>4. t \div w \in Int
      BY <3>1
    <3> QED
      BY <2>1, <3>1, <3>2, <3>3, <3>4
  <2>4. Picture(l \o k)[a + r] = (l \o k)[m + j]
    <3>1. Picture(l \o k)[a + r] = (l \o k)[(a + r - 1) \div w + 1]
      <4>1. PICK p \in 1..(a + b) : p = a + r /\ p - 1 = a + r - 1
        BY <1>2, <2>2
      <4>2. Picture(l \o k)[p] = (l \o k)[(p - 1) \div w + 1]
        BY <1>6
      <4> QED
        BY <4>1, <4>2
    <3> QED
      BY <2>3, <3>1
  <2>5. Picture(k)[r] = k[j]
    BY <1>5, <2>1
  <2> QED
    BY <1>3, <2>4, <2>5
<1>9. IsJoin(S, Picture(l \o k), Picture(l), Picture(k), a, b)
  BY <1>2, <1>4, <1>5, <1>6, <1>7, <1>8 DEF IsJoin
<1> QED
  BY <1>9, IsJoined

LEMMA PictureOne ==
  ASSUME PageOK, NEW x
  PROVE  Picture(<<x>>) = Times(OutWidth, x)
<1>1. PICK w \in Nat \ {0} : w = OutWidth
  BY Widths
<1>2. Len(<<x>>) * w = w
  OBVIOUS
<1>3. ASSUME NEW p \in 1..w PROVE (p - 1) \div w + 1 = 1
  <2>1. p \in 1..(1 * w)
    OBVIOUS
  <2>2. (p - 1) \div w + 1 \in 1..1
    BY <2>1, LineOf
  <2> QED
    BY <2>2
<1>4. Picture(<<x>>) = [p \in 1..w |-> <<x>>[(p - 1) \div w + 1]]
  BY <1>1, <1>2 DEF Picture
<1> QED
  BY <1>1, <1>3, <1>4 DEF Times

-----------------------------------------------------------------------------
(* What the reads look for in the receive buffer.                          *)

FrameStep(F, k) ==
  /\ k <= sent'
  /\ \/ wire[k] \in Boundary
     \/ FrameLength(k, sent') # 0 /\ F[k + FrameLength(k, sent')]

LEMMA AtFrameBoundary ==
  ASSUME PageOK, sent' \in 0..Len(wire), done \in 0..sent'
  PROVE  StatusAtFrameBoundary \subseteq BOOLEAN
<1> DEFINE M    == Len(wire) + 1
           S    == 1..M
           F    == CHOOSE From : From = [k \in 1..(Len(wire) + 1) |->
                     /\ k <= sent'
                     /\ \/ wire[k] \in Boundary
                        \/ FrameLength(k, sent') # 0 /\ From[k + FrameLength(k, sent')]]
           G(f) == [k \in 1..(Len(wire) + 1) |-> FrameStep(f, k)]
           more(k) == k <= sent' /\ wire[k] \notin Boundary /\ FrameLength(k, sent') # 0
           left == [k \in S |-> M - k]
           stop == {k \in S : ~more(k)}
           next == [k \in S |-> IF more(k) THEN k + FrameLength(k, sent') ELSE k]
           val  == [k \in S |-> k <= sent' /\ wire[k] \in Boundary]
<1>1. StatusAtFrameBoundary = {F[done + 1]}
  BY DEF StatusAtFrameBoundary
<1>2. PICK N \in Nat : N = Len(wire) /\ M = N + 1
  BY PageType
<1>3. ASSUME NEW k \in S, more(k)
      PROVE  k + FrameLength(k, sent') \in S /\ k < k + FrameLength(k, sent')
  <2>1. sent' \in 1..Len(wire) /\ k \in 1..sent'
    BY <1>2, <1>3
  <2>2. PICK L \in Nat : L = FrameLength(k, sent') /\ L # 0 /\ k + L - 1 <= sent'
    BY <1>3, <2>1, FrameFound
  <2> QED
    BY <1>2, <2>1, <2>2
<1>4. next \in [S -> S] /\ \A k \in S \ stop : next[k] = k + FrameLength(k, sent') /\ k < next[k]
  BY <1>3
<1>5. left \in [S -> 0..M] /\ M \in Nat /\ stop \in SUBSET S
  BY <1>2
<1>6. \A x \in S \ stop : left[next[x]] < left[x]
  <2> SUFFICES ASSUME NEW x \in S \ stop PROVE left[next[x]] < left[x]
    OBVIOUS
  <2>1. next[x] \in S /\ x < next[x] /\ x \in S
    BY <1>4
  <2> QED
    BY <1>2, <2>1
<1>7. val \in [S -> BOOLEAN]
  OBVIOUS
<1>8. PICK f \in [S -> BOOLEAN] : Follows(f, S, stop, val, next)
  <2> HIDE DEF S, M, left, stop, next, val
  <2>1. TailLoop(S, M, left, stop, next)
    BY <1>4, <1>5, <1>6 DEF TailLoop
  <2> QED
    BY <1>7, <2>1, TailLoopExists
<1>9. ASSUME NEW k \in S PROVE f[k] = FrameStep(f, k)
  <2>1. f[k] = IF k \in stop THEN val[k] ELSE f[next[k]]
    BY <1>8 DEF Follows
  <2>2. CASE more(k)
    <3>1. k \notin stop
      BY <2>2
    <3>2. f[k] = f[next[k]] /\ f[next[k]] \in BOOLEAN /\ next[k] = k + FrameLength(k, sent')
      <4>1. next[k] \in S /\ next[k] = k + FrameLength(k, sent')
        BY <1>4, <3>1
      <4> HIDE DEF S, next, stop, val
      <4> QED
        BY <1>8, <2>1, <3>1, <4>1
    <3>3. f[k] <=> f[k + FrameLength(k, sent')]
      <4> HIDE DEF next
      <4> QED
        BY <3>2
    <3>4. f[k] \in BOOLEAN
      BY <3>2
    <3> QED
      BY <2>2, <3>3, <3>4 DEF FrameStep
  <2>3. CASE ~more(k)
    <3>1. f[k] = (k <= sent' /\ wire[k] \in Boundary)
      BY <2>1, <2>3
    <3> QED
      BY <2>3, <3>1 DEF FrameStep
  <2> QED
    BY <2>2, <2>3
<1>10. f = G(f)
  BY <1>8, <1>9
<1>11. F = G(F)
  BY <1>10, Zenon DEF FrameStep
<1> HIDE DEF F
<1>12. F[done + 1] \in BOOLEAN
  <2>1. done + 1 \in S
    BY <1>2
  <2>2. G(F)[done + 1] = FrameStep(F, done + 1)
    BY <2>1
  <2>3. FrameStep(F, done + 1) \in BOOLEAN
    BY DEF FrameStep
  <2> QED
    BY <1>11, <2>2, <2>3
<1> QED
  BY <1>1, <1>12

ChkLen(at) == 3 + Base * wire[at.pt + 1] + wire[at.pt + 2]
ChkStep(Chk, at) ==
  IF at.left <= 0 THEN {FALSE}
  ELSE IF at.pt > sent' THEN BOOLEAN
  ELSE IF IsStatus(wire[at.pt]) THEN {TRUE}
  ELSE IF wire[at.pt] = 0 THEN Chk[[at EXCEPT !.pt = @ + 1]]
  ELSE IF at.left < 3 THEN {FALSE}
  ELSE IF at.pt + 2 > sent' THEN BOOLEAN
  ELSE IF at.left < ChkLen(at) THEN {FALSE}
  ELSE IF at.pt + ChkLen(at) > sent' + 1 THEN BOOLEAN
  ELSE Chk[[pt |-> at.pt + ChkLen(at), left |-> at.left - ChkLen(at)]]

\* where the walk goes on, or FALSE
ChkWhite(at) == at.left > 0 /\ at.pt <= sent' /\ ~IsStatus(wire[at.pt]) /\ wire[at.pt] = 0
ChkLine(at)  ==
  /\ at.left > 0 /\ at.pt <= sent' /\ ~IsStatus(wire[at.pt]) /\ wire[at.pt] # 0
  /\ at.left >= 3 /\ at.pt + 2 <= sent' /\ at.left >= ChkLen(at)
  /\ at.pt + ChkLen(at) <= sent' + 1

LEMMA ChkType ==
  ASSUME PageOK, sent' \in 0..Len(wire), done \in 0..sent'
  PROVE  StatusChk \subseteq BOOLEAN
<1> DEFINE M    == Len(wire) + 1
           S    == [pt : 1..(Len(wire) + 1), left : Int]
           V    == SUBSET BOOLEAN
           F    == CHOOSE Chk : Chk = [at \in [pt : 1..(Len(wire) + 1), left : Int] |->
                     LET len == 3 + Base * wire[at.pt + 1] + wire[at.pt + 2]
                     IN  IF at.left <= 0 THEN {FALSE}
                         ELSE IF at.pt > sent' THEN BOOLEAN
                         ELSE IF IsStatus(wire[at.pt]) THEN {TRUE}
                         ELSE IF wire[at.pt] = 0 THEN Chk[[at EXCEPT !.pt = @ + 1]]
                         ELSE IF at.left < 3 THEN {FALSE}
                         ELSE IF at.pt + 2 > sent' THEN BOOLEAN
                         ELSE IF at.left < len THEN {FALSE}
                         ELSE IF at.pt + len > sent' + 1 THEN BOOLEAN
                         ELSE Chk[[pt |-> at.pt + len, left |-> at.left - len]]]
           G(f) == [at \in [pt : 1..(Len(wire) + 1), left : Int] |-> ChkStep(f, at)]
           left == [at \in S |-> M - at.pt]
           stop == {at \in S : ~ChkWhite(at) /\ ~ChkLine(at)}
           next == [at \in S |->
                      IF ChkWhite(at) THEN [at EXCEPT !.pt = @ + 1]
                      ELSE IF ChkLine(at)
                      THEN [pt |-> at.pt + ChkLen(at), left |-> at.left - ChkLen(at)]
                      ELSE at]
           val  == [at \in S |->
                      IF at.left <= 0 THEN {FALSE}
                      ELSE IF at.pt > sent' THEN BOOLEAN
                      ELSE IF IsStatus(wire[at.pt]) THEN {TRUE}
                      ELSE IF at.left < 3 THEN {FALSE}
                      ELSE IF at.pt + 2 > sent' THEN BOOLEAN
                      ELSE IF at.left < ChkLen(at) THEN {FALSE}
                      ELSE BOOLEAN]
<1>1. StatusChk = F[[pt |-> done + 1, left |-> sent' - done]]
  BY DEF StatusChk
<1>2. PICK N \in Nat : N = Len(wire) /\ M = N + 1 /\ sent' \in 0..N
  BY PageType
<1>0. ASSUME NEW at \in S, at.pt + 2 <= sent'
       PROVE  ChkLen(at) \in Nat /\ ChkLen(at) >= 3
  <2>1. PICK p \in Nat : p = at.pt /\ p \in 1..(N + 1) /\ p + 2 <= sent'
    BY <1>2, <1>0
  <2>2. wire[p + 1] \in Nat /\ wire[p + 2] \in Nat /\ Base \in Nat
    <3>1. p + 1 \in 1..Len(wire) /\ p + 2 \in 1..Len(wire)
      BY <1>2, <2>1
    <3> QED
      BY <3>1, PageType
  <2>3. \A a, b, c \in Nat : 3 + a * b + c \in Nat /\ 3 + a * b + c >= 3
    OBVIOUS
  <2> QED
    BY <2>1, <2>2, <2>3 DEF ChkLen
<1>3. ASSUME NEW at \in S, ChkLine(at)
      PROVE  /\ [pt |-> at.pt + ChkLen(at), left |-> at.left - ChkLen(at)] \in S
             /\ at.pt < at.pt + ChkLen(at)
  <2>1. PICK p \in Nat, l \in Int : p = at.pt /\ l = at.left /\ p \in 1..(N + 1) /\ p + 2 <= sent'
    BY <1>2, <1>3 DEF ChkLine
  <2>2. PICK n \in Nat : n = ChkLen(at) /\ n >= 3
    BY <1>0, <2>1
  <2>3. p + n <= sent' + 1
    BY <1>3, <2>1, <2>2 DEF ChkLine
  <2> QED
    BY <1>2, <2>1, <2>2, <2>3
<1>4. ASSUME NEW at \in S, ChkWhite(at)
      PROVE  [at EXCEPT !.pt = @ + 1] \in S /\ at.pt < [at EXCEPT !.pt = @ + 1].pt
  BY <1>2, <1>4 DEF ChkWhite
<1>5. next \in [S -> S]
  BY <1>3, <1>4
<1>6. left \in [S -> 0..M] /\ M \in Nat /\ stop \in SUBSET S
  BY <1>2
<1>7. \A x \in S \ stop : left[next[x]] < left[x]
  <2> SUFFICES ASSUME NEW x \in S \ stop PROVE left[next[x]] < left[x]
    OBVIOUS
  <2>1. next[x] \in S /\ x \in S
    BY <1>5
  <2>2. x.pt < next[x].pt
    BY <1>3, <1>4
  <2>3. next[x].pt \in Int /\ x.pt \in Int
    BY <2>1
  <2>4. left[next[x]] = M - next[x].pt /\ left[x] = M - x.pt
    <3> HIDE DEF next
    <3> QED
      BY <2>1
  <2> HIDE DEF next, left
  <2> QED
    BY <1>2, <2>2, <2>3, <2>4
<1>8. val \in [S -> V]
  OBVIOUS
<1>9. TailLoop(S, M, left, stop, next)
  <2> HIDE DEF S, M, left, stop, next
  <2> QED
    BY <1>5, <1>6, <1>7 DEF TailLoop
<1>10. PICK f \in [S -> V] : Follows(f, S, stop, val, next)
  <2> HIDE DEF S, V, M, left, stop, next, val
  <2> QED
    BY <1>8, <1>9, TailLoopExists
<1>11. ASSUME NEW g, NEW at \in S
       PROVE  ChkStep(g, at) = IF at \in stop THEN val[at] ELSE g[next[at]]
  <2>1. CASE ChkWhite(at)
    <3>1. at \notin stop /\ next[at] = [at EXCEPT !.pt = @ + 1]
      BY <2>1
    <3>2. ChkStep(g, at) = g[[at EXCEPT !.pt = @ + 1]]
      BY <1>2, <2>1 DEF ChkWhite, ChkStep
    <3> HIDE DEF next, stop
    <3> QED
      BY <3>1, <3>2
  <2>2. CASE ~ChkWhite(at) /\ ChkLine(at)
    <3>1. at \notin stop /\ next[at] = [pt |-> at.pt + ChkLen(at), left |-> at.left - ChkLen(at)]
      BY <2>2
    <3>2. ChkStep(g, at) = g[[pt |-> at.pt + ChkLen(at), left |-> at.left - ChkLen(at)]]
      <4>1. PICK n \in Nat : n = ChkLen(at)
        BY <1>0, <2>2 DEF ChkLine
      <4> QED
        BY <1>2, <2>2, <4>1 DEF ChkLine, ChkStep
    <3> HIDE DEF next, stop
    <3> QED
      BY <3>1, <3>2
  <2>3. CASE ~ChkWhite(at) /\ ~ChkLine(at)
    <3>1. at \in stop
      BY <2>3
    <3>2. ChkStep(g, at) = val[at]
      <4>1. PICK p \in Nat, l \in Int : p = at.pt /\ l = at.left /\ sent' \in Nat
        BY <1>2
      <4>2. CASE l <= 0 \/ p > sent' \/ IsStatus(wire[at.pt])
        BY <4>1, <4>2 DEF ChkStep
      <4>3. CASE l > 0 /\ p <= sent' /\ ~IsStatus(wire[at.pt]) /\ (l < 3 \/ p + 2 > sent')
        <5>1. wire[at.pt] # 0
          BY <2>3, <4>1, <4>3 DEF ChkWhite
        <5> QED
          BY <4>1, <4>3, <5>1 DEF ChkStep
      <4>4. CASE l >= 3 /\ p + 2 <= sent' /\ ~IsStatus(wire[at.pt])
        <5>1. PICK n \in Nat : n = ChkLen(at)
          BY <1>0, <4>1, <4>4
        <5>2. wire[at.pt] # 0 /\ (l < n \/ p + n > sent' + 1)
          BY <2>3, <4>1, <4>4, <5>1 DEF ChkWhite, ChkLine
        <5>3. ~(l <= 0) /\ ~(p > sent') /\ ~(l < 3) /\ ~(p + 2 > sent')
          BY <4>1, <4>4
        <5>4. val[at] = IF l < n THEN {FALSE} ELSE BOOLEAN
          BY <4>1, <4>4, <5>1, <5>3
        <5>5. ChkStep(g, at) = IF l < n THEN {FALSE} ELSE BOOLEAN
          BY <4>1, <4>4, <5>1, <5>2, <5>3 DEF ChkStep
        <5> HIDE DEF val
        <5> QED
          BY <5>4, <5>5
      <4>5. \/ l <= 0 \/ p > sent' \/ IsStatus(wire[at.pt])
            \/ l > 0 /\ p <= sent' /\ ~IsStatus(wire[at.pt]) /\ (l < 3 \/ p + 2 > sent')
            \/ l >= 3 /\ p + 2 <= sent' /\ ~IsStatus(wire[at.pt])
        BY <4>1
      <4> HIDE DEF val
      <4> QED
        BY <4>2, <4>3, <4>4, <4>5
    <3> HIDE DEF stop, val
    <3> QED
      BY <3>1, <3>2
  <2> QED
    BY <2>1, <2>2, <2>3
<1>12. f = G(f)
  <2>1. \A at \in S : f[at] = ChkStep(f, at)
    <3> HIDE DEF S, V, stop, val, next
    <3> QED
      BY <1>10, <1>11 DEF Follows
  <2> HIDE DEF V
  <2> QED
    BY <1>10, <2>1
<1>13. F = G(F)
  BY <1>12, Zenon DEF ChkStep, ChkLen
<1> HIDE DEF F
<1>14. Follows(F, S, stop, val, next)
  <2>1. ASSUME NEW at \in S PROVE F[at] = ChkStep(F, at)
    <3>1. G(F)[at] = ChkStep(F, at)
      OBVIOUS
    <3> QED
      BY <1>13, <3>1, Zenon
  <2> HIDE DEF S, stop, val, next
  <2> QED
    BY <1>11, <2>1 DEF Follows
<1>15. \A at \in S : F[at] \in V
  <2> HIDE DEF S, M, V, left, stop, val, next
  <2>1. S \in SUBSET S /\ \A x \in S : x \notin stop => next[x] \in S
    BY <1>5
  <2>2. \A x \in S : x \in stop => val[x] \in V
    BY <1>8
  <2> QED
    BY <1>9, <1>14, <2>1, <2>2, LoopKeeps
<1>16. [pt |-> done + 1, left |-> sent' - done] \in S
  BY <1>2
<1> QED
  BY <1>1, <1>15, <1>16

LEMMA StatusSeenType ==
  ASSUME PageOK, sent' \in 0..Len(wire), done \in 0..sent'
  PROVE  StatusSeen \subseteq BOOLEAN
BY AtFrameBoundary, ChkType DEF StatusSeen

-----------------------------------------------------------------------------
(* The batch that is split off.                                            *)

Rooms == (dwFwTempBuffMaxSize \div 2 - Len(fw)) \div OutWidth
Ready ==
  /\ PageOK /\ sent \in 0..Len(wire) /\ done \in 0..sent
  /\ fw \in Seq(0..Len(wire)) /\ Len(fw) <= dwFwTempBuffMaxSize \div 2

LEMMA RoomType ==
  ASSUME Ready
  PROVE  /\ Rooms \in Nat /\ nFwTempBuffMaxLine \in Nat /\ dwFwTempBuffMaxSize \in Nat
         /\ Len(fw) + Rooms * OutWidth <= dwFwTempBuffMaxSize \div 2
         /\ nFwTempBuffMaxLine = IF scan.colour THEN 3 * Rooms ELSE Rooms
<1>1. PICK w \in Nat \ {0}, n \in Nat : w = OutWidth /\ n = Len(fw)
  BY Widths DEF Ready
<1>2. PICK z \in Nat : z = dwFwTempBuffMaxSize
  BY <1>1, SizesAssumption DEF dwFwTempBuffMaxSize, Most
<1>3. PICK h \in Nat : h = z \div 2
  OBVIOUS
<1>4. PICK d \in Nat : d = h - n
  BY <1>1, <1>2, <1>3 DEF Ready
<1>5. PICK q \in Int, r \in Int : q = d \div w /\ d = w * q + r /\ 0 <= r /\ r < w
  <2>1. /\ d \div w \in Int /\ d % w \in Int
        /\ d = w * (d \div w) + (d % w) /\ 0 <= d % w /\ d % w < w
    BY Dividing
  <2> QED
    BY <2>1
<1>6. q \in Nat
  <2>1. q <= -1 => w * q <= -w
    OBVIOUS
  <2> QED
    BY <1>5, <2>1
<1>7. Rooms = q
  BY <1>1, <1>2, <1>3, <1>4, <1>5 DEF Rooms
<1>8. nFwTempBuffMaxLine = q * (IF scan.colour THEN 3 ELSE 1)
  BY <1>7 DEF nFwTempBuffMaxLine, Rooms
<1>9. n + q * w <= h
  BY <1>4, <1>5
<1> QED
  BY <1>1, <1>2, <1>3, <1>6, <1>7, <1>8, <1>9

StatusAt(k) == k <= sent /\ IsStatus(wire[k])

SplitFull(b)  == b.n >= nFwTempBuffMaxLine \/ b.end = sent
SplitLine(b)  == [end |-> b.end + LineLength(b.end + 1, sent), n |-> b.n + 1]
SplitStep(F, b) ==
  IF SplitFull(b) THEN b
  ELSE IF scan.convert /\ wire[b.end + 1] \in Boundary THEN [end |-> b.end + 1, n |-> b.n + 1]
  ELSE IF ~scan.convert /\ IsStatus(wire[b.end + 1]) THEN F[[end |-> b.end + 1, n |-> b.n + 3]]
  ELSE IF LineLength(b.end + 1, sent) = 0 THEN b
  ELSE F[SplitLine(b)]

SplitSkips(b) == ~SplitFull(b) /\ ~scan.convert /\ IsStatus(wire[b.end + 1])
SplitTakes(b) ==
  /\ ~SplitFull(b) /\ LineLength(b.end + 1, sent) # 0
  /\ ~(scan.convert /\ wire[b.end + 1] \in Boundary) /\ ~(~scan.convert /\ IsStatus(wire[b.end + 1]))

\* The batch has the lines t behind what was decoded, or these end at a status.
HasLines(b, t) ==
  /\ Chain(done, t) /\ End(done, t) <= sent /\ Len(t) <= nFwTempBuffMaxLine
  /\ (b.end = End(done, t) /\ b.n = Len(t)) \/ StatusAt(End(done, t) + 1)

\* What the loop can do with a batch that is not full.
BatchGrows(b) ==
  /\ b.end \in Nat /\ b.n \in Nat /\ b.end + 1 <= sent /\ sent \in 1..Len(wire)
  /\ LineLength(b.end + 1, sent) \in Nat
  /\ LineLength(b.end + 1, sent) # 0 =>
       b.end + LineLength(b.end + 1, sent) > b.end /\ b.end + LineLength(b.end + 1, sent) <= sent
  /\ [end |-> b.end + 1, n |-> b.n + 3] \in Batch
  /\ [end |-> b.end + 1, n |-> b.n + 1] \in Batch

LEMMA BatchNext ==
  ASSUME Ready, NEW b \in Batch, ~SplitFull(b)
  PROVE  BatchGrows(b)
<1>1. PICK N \in Nat : N = Len(wire) /\ sent \in 0..N /\ PageOK
  BY PageType DEF Ready
<1>2. PICK p \in 0..sent, m \in Nat : p = b.end /\ m = b.n /\ p # sent
  BY DEF Batch, SplitFull
<1>3. p + 1 \in 1..sent /\ sent \in 1..Len(wire)
  BY <1>1, <1>2
<1>4. PICK L \in Nat : L = LineLength(p + 1, sent) /\ (L # 0 => p + 1 + L - 1 <= sent)
  BY <1>1, <1>3, LineFound
<1>5. L # 0 => p + L > p /\ p + L <= sent
  BY <1>1, <1>2, <1>4
<1>6. [end |-> p + 1, n |-> m + 3] \in Batch /\ [end |-> p + 1, n |-> m + 1] \in Batch
  BY <1>1, <1>2, <1>3 DEF Batch
<1> QED
  BY <1>1, <1>2, <1>3, <1>4, <1>5, <1>6 DEF BatchGrows

LEMMA SplitIs ==
  ASSUME Ready
  PROVE  Split \in Batch /\ \E t : HasLines(Split, t)
<1> DEFINE F == CHOOSE From : From = [b \in Batch |->
                  LET k    == b.end + 1
                      line == [end |-> b.end + LineLength(k, sent), n |-> b.n + 1]
                  IN  IF b.n >= nFwTempBuffMaxLine \/ b.end = sent THEN b
                      ELSE IF scan.convert /\ wire[k] \in Boundary THEN [end |-> k, n |-> b.n + 1]
                      ELSE IF ~scan.convert /\ IsStatus(wire[k]) THEN From[[end |-> k, n |-> b.n + 3]]
                      ELSE IF LineLength(k, sent) = 0 THEN b
                      ELSE From[line]]
           G(f) == [b \in Batch |-> SplitStep(f, b)]
           more(b) == SplitSkips(b) \/ SplitTakes(b)
           left == [b \in Batch |-> sent - b.end]
           stop == {b \in Batch : ~more(b)}
           next == [b \in Batch |-> IF SplitSkips(b) THEN [end |-> b.end + 1, n |-> b.n + 3]
                                    ELSE IF SplitTakes(b) THEN SplitLine(b) ELSE b]
           val  == [b \in Batch |->
                      IF ~SplitFull(b) /\ scan.convert /\ wire[b.end + 1] \in Boundary
                      THEN [end |-> b.end + 1, n |-> b.n + 1] ELSE b]
           start == [end |-> done, n |-> 0]
           I     == {b \in Batch : \E t : HasLines(b, t)}
<1>1. Split = F[start]
  BY DEF Split
<1>2. PICK N \in Nat : N = Len(wire) /\ sent \in 0..N /\ done \in 0..sent /\ PageOK
  BY PageType DEF Ready
<1>3. ASSUME NEW b \in Batch, ~SplitFull(b) PROVE BatchGrows(b)
  BY <1>3, BatchNext
<1>4. ASSUME NEW b \in Batch, SplitTakes(b)
      PROVE  SplitLine(b) \in Batch /\ b.end < SplitLine(b).end
  <2>1. BatchGrows(b)
    BY <1>3, <1>4 DEF SplitTakes
  <2>2. PICK e \in Nat, n \in Nat : e = b.end + LineLength(b.end + 1, sent) /\ n = b.n + 1 /\ e <= sent
                                    /\ b.end < e
    BY <1>4, <2>1 DEF SplitTakes, BatchGrows
  <2>3. SplitLine(b) = [end |-> e, n |-> n]
    BY <2>2 DEF SplitLine
  <2> QED
    BY <1>2, <2>2, <2>3 DEF Batch
<1>5. ASSUME NEW b \in Batch, SplitSkips(b)
      PROVE  /\ [end |-> b.end + 1, n |-> b.n + 3] \in Batch
             /\ b.end < [end |-> b.end + 1, n |-> b.n + 3].end
  <2>1. BatchGrows(b)
    BY <1>3, <1>5 DEF SplitSkips
  <2> QED
    BY <2>1 DEF BatchGrows
<1>6. next \in [Batch -> Batch]
  BY <1>4, <1>5
<1>7. left \in [Batch -> 0..N] /\ stop \in SUBSET Batch
  BY <1>2 DEF Batch
<1>8. \A x \in Batch \ stop : left[next[x]] < left[x]
  <2> SUFFICES ASSUME NEW x \in Batch \ stop PROVE left[next[x]] < left[x]
    OBVIOUS
  <2>1. next[x] \in Batch /\ x \in Batch
    BY <1>6
  <2>2. x.end < next[x].end
    BY <1>4, <1>5
  <2>3. next[x].end \in 0..sent /\ x.end \in 0..sent
    BY <2>1 DEF Batch
  <2>4. left[next[x]] = sent - next[x].end /\ left[x] = sent - x.end
    <3> HIDE DEF next
    <3> QED
      BY <2>1
  <2> HIDE DEF next, left
  <2> QED
    BY <1>2, <2>2, <2>3, <2>4
<1>9. val \in [Batch -> Batch]
  <2>1. \A b \in Batch : ~SplitFull(b) => [end |-> b.end + 1, n |-> b.n + 1] \in Batch
    BY <1>3 DEF BatchGrows
  <2> QED
    BY <2>1
<1>10. TailLoop(Batch, N, left, stop, next)
  <2> HIDE DEF left, stop, next
  <2> QED
    BY <1>6, <1>7, <1>8 DEF TailLoop
<1>11. PICK f \in [Batch -> Batch] : Follows(f, Batch, stop, val, next)
  <2> HIDE DEF left, stop, next, val
  <2> QED
    BY <1>9, <1>10, TailLoopExists
<1>12. ASSUME NEW g, NEW b \in Batch
       PROVE  SplitStep(g, b) = IF b \in stop THEN val[b] ELSE g[next[b]]
  <2>1. CASE SplitSkips(b)
    <3>1. b \notin stop /\ next[b] = [end |-> b.end + 1, n |-> b.n + 3]
      BY <2>1
    <3>2. SplitStep(g, b) = g[[end |-> b.end + 1, n |-> b.n + 3]]
      BY <2>1 DEF SplitSkips, SplitStep
    <3> HIDE DEF next, stop
    <3> QED
      BY <3>1, <3>2
  <2>2. CASE ~SplitSkips(b) /\ SplitTakes(b)
    <3>1. b \notin stop /\ next[b] = SplitLine(b)
      BY <2>2
    <3>2. SplitStep(g, b) = g[SplitLine(b)]
      BY <2>2 DEF SplitTakes, SplitStep
    <3> HIDE DEF next, stop
    <3> QED
      BY <3>1, <3>2
  <2>3. CASE ~SplitSkips(b) /\ ~SplitTakes(b)
    <3>1. b \in stop
      BY <2>3
    <3>2. SplitStep(g, b) = val[b]
      BY <2>3 DEF SplitSkips, SplitTakes, SplitStep
    <3> HIDE DEF stop, val
    <3> QED
      BY <3>1, <3>2
  <2> QED
    BY <2>1, <2>2, <2>3
<1>13. f = G(f)
  <2>1. \A b \in Batch : f[b] = SplitStep(f, b)
    <3> HIDE DEF stop, val, next
    <3> QED
      BY <1>11, <1>12 DEF Follows
  <2> QED
    BY <1>11, <2>1
<1>14. F = G(F)
  BY <1>13, Zenon DEF SplitStep, SplitFull, SplitLine
<1> HIDE DEF F
<1>15. Follows(F, Batch, stop, val, next)
  <2>1. ASSUME NEW b \in Batch PROVE F[b] = SplitStep(F, b)
    <3>1. G(F)[b] = SplitStep(F, b)
      OBVIOUS
    <3> QED
      BY <1>14, <3>1, Zenon
  <2> HIDE DEF stop, val, next
  <2> QED
    BY <1>12, <2>1 DEF Follows
<1>16. ASSUME NEW b \in I, more(b) PROVE next[b] \in I
  <2>1. PICK t : HasLines(b, t)
    OBVIOUS
  <2>2. b \in Batch /\ next[b] \in Batch /\ ~SplitFull(b)
    BY <1>6, <1>16 DEF SplitSkips, SplitTakes
  <2>3. CASE StatusAt(End(done, t) + 1)
    <3>1. HasLines(next[b], t)
      <4> HIDE DEF next
      <4> QED
        BY <2>1, <2>3 DEF HasLines
    <3> HIDE DEF next
    <3> QED
      BY <2>2, <3>1
  <2>4. CASE b.end = End(done, t) /\ b.n = Len(t) /\ ~StatusAt(End(done, t) + 1)
    <3>0. BatchGrows(b)
      BY <1>3, <2>2
    <3>1. ~IsStatus(wire[b.end + 1])
      BY <2>4, <3>0 DEF StatusAt, BatchGrows
    <3>2. SplitTakes(b) /\ next[b] = SplitLine(b)
      BY <1>16, <3>1 DEF SplitSkips
    <3>3. PICK k \in 1..sent : k = b.end + 1 /\ sent \in 1..Len(wire)
      BY <1>2, <3>0 DEF BatchGrows
    <3>4. PICK l \in k..sent : l = k + LineLength(k, sent) - 1 /\ IsLine(k, l)
      BY <1>2, <3>1, <3>2, <3>3, LineIs DEF SplitTakes
    <3>5. l \in Nat /\ l = b.end + LineLength(k, sent)
      <4>1. PICK L \in Nat, p \in Nat : L = LineLength(k, sent) /\ p = b.end
        BY <3>0, <3>3 DEF BatchGrows
      <4> QED
        BY <1>2, <3>3, <3>4, <4>1
    <3>6. /\ Chain(done, Append(t, l)) /\ End(done, Append(t, l)) = l
          /\ Len(Append(t, l)) = Len(t) + 1
      <4>1. IsLine(End(done, t) + 1, l)
        BY <2>4, <3>3, <3>4
      <4>2. done \in Nat /\ Chain(done, t)
        BY <1>2, <2>1 DEF HasLines
      <4> QED
        BY <1>2, <3>5, <4>1, <4>2, ChainGrows
    <3>7. SplitLine(b) = [end |-> l, n |-> Len(t) + 1]
      BY <2>4, <3>3, <3>5 DEF SplitLine
    <3>8. Len(t) + 1 <= nFwTempBuffMaxLine
      <4>1. ~(Len(t) >= nFwTempBuffMaxLine) /\ Len(t) \in Nat
        BY <2>2, <2>4, <3>0 DEF SplitFull, BatchGrows
      <4> QED
        BY <4>1, RoomType
    <3>9. HasLines(SplitLine(b), Append(t, l))
      BY <1>2, <3>4, <3>6, <3>7, <3>8 DEF HasLines
    <3> HIDE DEF next
    <3> QED
      BY <2>2, <3>2, <3>9
  <2> QED
    BY <2>1, <2>3, <2>4 DEF HasLines
<1>17. ASSUME NEW b \in I, ~more(b) PROVE val[b] \in I
  <2>1. PICK t : HasLines(b, t)
    OBVIOUS
  <2>2. b \in Batch /\ val[b] \in Batch
    BY <1>9
  <2>3. CASE ~SplitFull(b) /\ scan.convert /\ wire[b.end + 1] \in Boundary
    <3>1. IsStatus(wire[b.end + 1]) /\ b.end + 1 <= sent
      <4>1. BatchGrows(b)
        BY <1>3, <2>2, <2>3
      <4>2. Boundary \subseteq DOMAIN Answer
        BY SizesAssumption
      <4> QED
        BY <2>3, <4>1, <4>2 DEF IsStatus, BatchGrows
    <3>2. StatusAt(End(done, t) + 1)
      BY <2>1, <3>1 DEF HasLines, StatusAt
    <3>3. HasLines(val[b], t)
      <4> HIDE DEF val
      <4> QED
        BY <2>1, <3>2 DEF HasLines
    <3> HIDE DEF val
    <3> QED
      BY <2>2, <3>3
  <2>4. CASE ~(~SplitFull(b) /\ scan.convert /\ wire[b.end + 1] \in Boundary)
    <3>1. val[b] = b
      BY <2>4
    <3> HIDE DEF val
    <3> QED
      BY <3>1
  <2> QED
    BY <2>3, <2>4
<1>18. start \in I
  <2>1. start \in Batch
    BY <1>2 DEF Batch
  <2>2. Chain(done, <<>>) /\ End(done, <<>>) = done /\ Len(<<>>) = 0
    BY <1>2, EmptyChain
  <2>3. HasLines(start, <<>>)
    BY <1>2, <2>2, RoomType DEF HasLines
  <2> QED
    BY <2>1, <2>3
<1>19. F[start] \in I
  <2>1. I \in SUBSET Batch
    OBVIOUS
  <2>2. \A x \in I : x \notin stop => next[x] \in I
    BY <1>16
  <2>3. \A x \in I : x \in stop => val[x] \in I
    BY <1>17
  <2> HIDE DEF I, left, stop, next, val, start
  <2> QED
    BY <1>10, <1>15, <1>18, <2>1, <2>2, <2>3, LoopKeeps
<1> QED
  BY <1>1, <1>19

-----------------------------------------------------------------------------
(* What the decoding of a batch writes.                                    *)

LEMMA LinesGrow ==
  ASSUME PageOK, NEW u \in Seq(Nat), NEW l \in Nat
  PROVE  LinesOf(Append(u, l)) = IF scan.colour /\ (Len(u) + 1) % 3 # 0 THEN LinesOf(u)
                                 ELSE Append(LinesOf(u), l)
<1>1. CASE ~scan.colour
  BY <1>1 DEF LinesOf
<1>2. CASE scan.colour
  <2>1. PICK n \in Nat, q \in Nat : n = Len(u) /\ q = n \div 3 /\ 3 * q <= n
    <3>1. PICK n \in Nat : n = Len(u)
      OBVIOUS
    <3>2. n \div 3 \in Nat /\ 3 * (n \div 3) <= n
      OBVIOUS
    <3> QED
      BY <3>1, <3>2
  <2>2. PICK v \in Seq(Nat) :
          v = Append(u, l) /\ Len(v) = n + 1 /\ v[n + 1] = l /\ \A i \in 1..n : v[i] = u[i]
    <3>1. /\ Append(u, l) \in Seq(Nat) /\ Len(Append(u, l)) = Len(u) + 1
          /\ \A i \in 1..Len(u) : Append(u, l)[i] = u[i]
          /\ Append(u, l)[Len(u) + 1] = l
      BY AppendProperties
    <3> QED
      BY <2>1, <3>1
  <2>3. LinesOf(u) \in Seq(Nat) /\ Len(LinesOf(u)) = q /\ \A i \in 1..q : LinesOf(u)[i] = u[3 * i]
    <3>1. /\ LinesOf(u) \in Seq(Nat) /\ Len(LinesOf(u)) = Len(u) \div 3
          /\ \A i \in 1..(Len(u) \div 3) : LinesOf(u)[i] = u[3 * i]
      BY <1>2, LinesOfType
    <3> QED
      BY <2>1, <3>1
  <2>4. PICK r \in Nat : r = (n + 1) \div 3
    BY <2>1
  <2>5. LinesOf(v) \in Seq(Nat) /\ Len(LinesOf(v)) = r /\ \A i \in 1..r : LinesOf(v)[i] = v[3 * i]
    <3>1. /\ LinesOf(v) \in Seq(Nat) /\ Len(LinesOf(v)) = Len(v) \div 3
          /\ \A i \in 1..(Len(v) \div 3) : LinesOf(v)[i] = v[3 * i]
      BY <1>2, <2>2, LinesOfType
    <3> QED
      BY <2>2, <2>4, <3>1
  <2>6. \A i \in 1..q : v[3 * i] = u[3 * i]
    <3>1. \A i \in 1..q : 3 * i \in 1..n
      BY <2>1
    <3> QED
      BY <2>2, <3>1
  <2>7. CASE (n + 1) % 3 # 0
    <3>1. r = q
      BY <2>1, <2>4, <2>7
    <3>2. LinesOf(v) = LinesOf(u)
      BY <2>3, <2>5, <2>6, <3>1, SeqEqual
    <3> QED
      BY <1>2, <2>1, <2>2, <2>7, <3>2
  <2>8. CASE (n + 1) % 3 = 0
    <3>1. r = q + 1 /\ 3 * (q + 1) = n + 1
      <4>1. PICK m \in Int : n = 3 * q + m /\ 0 <= m /\ m < 3
        <5>1. n = 3 * (n \div 3) + (n % 3) /\ n % 3 \in Int /\ 0 <= n % 3 /\ n % 3 < 3
          OBVIOUS
        <5> QED
          BY <2>1, <5>1
      <4>2. n + 1 = 3 * r
        <5>1. n + 1 = 3 * ((n + 1) \div 3) + ((n + 1) % 3)
          OBVIOUS
        <5> QED
          BY <2>4, <2>8, <5>1
      <4> QED
        BY <4>1, <4>2
    <3>2. /\ Append(LinesOf(u), l) \in Seq(Nat) /\ Len(Append(LinesOf(u), l)) = q + 1
          /\ \A i \in 1..q : Append(LinesOf(u), l)[i] = LinesOf(u)[i]
          /\ Append(LinesOf(u), l)[q + 1] = l
      BY <2>3, AppendProperties
    <3>3. ASSUME NEW i \in 1..(q + 1) PROVE LinesOf(v)[i] = Append(LinesOf(u), l)[i]
      <4>1. CASE i = q + 1
        <5>1. LinesOf(v)[q + 1] = v[3 * (q + 1)]
          BY <2>1, <2>5, <3>1
        <5> QED
          BY <2>2, <3>1, <3>2, <4>1, <5>1
      <4>2. CASE i # q + 1
        <5>1. i \in 1..q /\ i \in 1..r
          BY <2>1, <3>1, <4>2
        <5> QED
          BY <2>3, <2>5, <2>6, <3>2, <5>1
      <4> QED
        BY <4>1, <4>2
    <3>4. LinesOf(v) = Append(LinesOf(u), l)
      BY <2>5, <3>1, <3>2, <3>3, SeqEqual
    <3> QED
      BY <1>2, <2>1, <2>2, <2>8, <3>4
  <2> QED
    BY <2>1, <2>7, <2>8
<1> QED
  BY <1>1, <1>2

LEMMA PictureGrows ==
  ASSUME PageOK, NEW l \in Seq(Nat), NEW x \in Nat
  PROVE  /\ Picture(Append(l, x)) = Picture(l) \o Times(OutWidth, x)
         /\ Picture(l) \in Seq(Nat) /\ Len(Picture(l)) \in Nat
         /\ Len(Picture(Append(l, x))) = Len(Picture(l)) + OutWidth
<1>1. Append(l, x) = l \o <<x>> /\ <<x>> \in Seq(Nat)
  BY AppendIsConcat
<1>2. Picture(Append(l, x)) = Picture(l) \o Times(OutWidth, x)
  BY <1>1, PictureJoined, PictureOne
<1>3. PICK w \in Nat : w = OutWidth
  BY Widths
<1>4. Times(OutWidth, x) \in Seq(Nat) /\ Len(Times(OutWidth, x)) = w
  BY <1>3, TimesType
<1>5. Picture(l) \in Seq(Nat) /\ Len(Picture(l)) \in Nat
  BY PictureType
<1>6. Len(Picture(l) \o Times(OutWidth, x)) = Len(Picture(l)) + w
  BY <1>4, <1>5, ConcatType
<1> QED
  BY <1>2, <1>3, <1>5, <1>6

\* No line behind p is white: of one byte.
NoWhite(p, u) == \A i \in 1..Len(u) : u[i] # Place(p, u, i) + 1

\* What was written when the lines u had been decoded. A line of white is
\* written and not counted.
Drawn(d, u) ==
  /\ d \in Decoding /\ d.region \in Seq(0..sent)
  /\ d.count <= Len(d.region) /\ d.count <= Len(Picture(LinesOf(u)))
  /\ NoWhite(done, u) =>
       d.region = Picture(LinesOf(u)) /\ d.count = Len(d.region) /\ d.lines = Len(LinesOf(u))

LEMMA NoWhiteBefore ==
  ASSUME NEW p, NEW u \in Seq(Nat), NEW l \in Nat, NoWhite(p, Append(u, l))
  PROVE  NoWhite(p, u) /\ l # End(p, u) + 1
<1>1. PICK n \in Nat : n = Len(u)
  OBVIOUS
<1>2. PICK v \in Seq(Nat) :
        v = Append(u, l) /\ Len(v) = n + 1 /\ v[n + 1] = l /\ \A i \in 1..n : v[i] = u[i]
  <2>1. /\ Append(u, l) \in Seq(Nat) /\ Len(Append(u, l)) = Len(u) + 1
        /\ \A i \in 1..Len(u) : Append(u, l)[i] = u[i]
        /\ Append(u, l)[Len(u) + 1] = l
    BY AppendProperties
  <2> QED
    BY <1>1, <2>1
<1>3. ASSUME NEW i \in 1..(n + 1) PROVE Place(p, v, i) = Place(p, u, i) /\ v[i] # Place(p, u, i) + 1
  <2>1. Place(p, v, i) = Place(p, u, i)
    BY <1>2, <1>3 DEF Place
  <2> QED
    BY <1>2, <2>1 DEF NoWhite
<1>4. ASSUME NEW i \in 1..n PROVE u[i] # Place(p, u, i) + 1
  <2>1. i \in 1..(n + 1)
    OBVIOUS
  <2> QED
    BY <1>2, <1>3, <2>1
<1>5. l # End(p, u) + 1
  <2>1. n + 1 \in 1..(n + 1)
    OBVIOUS
  <2> QED
    BY <1>1, <1>2, <1>3, <2>1 DEF End
<1> QED
  BY <1>1, <1>4, <1>5 DEF NoWhite

LEMMA SeqOfNat ==
  ASSUME NEW n \in Nat, NEW s \in Seq(0..n)
  PROVE  s \in Seq(Nat) /\ Len(s) \in Nat
BY SeqMonotonic

LEMMA DrawnNothing ==
  ASSUME Ready
  PROVE  Drawn(Start, <<>>)
<1>1. <<>> \in Seq(Nat) /\ Len(<<>>) = 0 /\ <<>> \in Seq(0..sent)
  OBVIOUS
<1>2. LinesOf(<<>>) \in Seq(Nat) /\ Len(LinesOf(<<>>)) = 0
  <2>1. /\ LinesOf(<<>>) \in Seq(Nat)
        /\ Len(LinesOf(<<>>)) = IF scan.colour THEN Len(<<>>) \div 3 ELSE Len(<<>>)
    BY <1>1, LinesOfType DEF Ready
  <2> QED
    BY <1>1, <2>1
<1>3. Picture(LinesOf(<<>>)) \in Seq(Nat) /\ Len(Picture(LinesOf(<<>>))) = 0
  <2>1. /\ Picture(LinesOf(<<>>)) \in Seq(Nat)
        /\ Len(Picture(LinesOf(<<>>))) = Len(LinesOf(<<>>)) * OutWidth
    BY <1>2, PictureType DEF Ready
  <2>2. 0 * OutWidth = 0
    BY Widths DEF Ready
  <2> QED
    BY <1>2, <2>1, <2>2
<1>4. Picture(LinesOf(<<>>)) = <<>>
  BY <1>3, EmptySeq
<1>5. Start \in Decoding
  BY <1>1 DEF Start, Decoding, Ready
<1> QED
  BY <1>1, <1>2, <1>3, <1>4, <1>5 DEF Drawn, Start

\* The line that ends at l, or its third part, is written.
LEMMA DrawnLine ==
  ASSUME Ready, NEW d, NEW u \in Seq(Nat), NEW v, NEW l \in 0..sent, Drawn(d, u),
         LinesOf(v) = Append(LinesOf(u), l), NoWhite(done, v) => NoWhite(done, u)
  PROVE  Drawn(Written(d, OutWidth, l), v)
<1>1. PICK w \in Nat \ {0} : w = OutWidth
  BY Widths DEF Ready
<1>2. sent \in Nat /\ l \in Nat
  BY PageType DEF Ready
<1>3. /\ LinesOf(u) \in Seq(Nat) /\ Len(LinesOf(u)) \in Nat
      /\ LinesOf(v) \in Seq(Nat) /\ Len(LinesOf(v)) = Len(LinesOf(u)) + 1
  <2>1. LinesOf(u) \in Seq(Nat) /\ Len(LinesOf(u)) \in Nat
    BY LinesOfType DEF Ready
  <2> QED
    BY <1>2, <2>1, AppendProperties
<1>4. /\ Picture(LinesOf(v)) = Picture(LinesOf(u)) \o Times(w, l)
      /\ Picture(LinesOf(u)) \in Seq(Nat) /\ Len(Picture(LinesOf(u))) \in Nat
      /\ Len(Picture(LinesOf(v))) = Len(Picture(LinesOf(u))) + w
  BY <1>1, <1>2, <1>3, PictureGrows DEF Ready
<1>5. /\ Times(w, l) \in Seq(0..sent) /\ Len(Times(w, l)) = w
  BY <1>1, TimesType
<1>6. PICK e \in Decoding : e = Written(d, w, l) /\ e.region = d.region \o Times(w, l)
                            /\ e.count = d.count + w /\ e.lines = d.lines + 1
  <2>1. d \in Decoding /\ Times(w, l) \in Seq(Nat)
    BY <1>1, <1>2, TimesType DEF Drawn
  <2>2. d.region \o Times(w, l) \in Seq(Nat)
    BY <2>1, ConcatProperties DEF Decoding
  <2>3. d.count + w \in Nat /\ d.headers + 1 \in Nat /\ d.lines + 1 \in Nat /\ l + 1 \in Nat \ {0}
    BY <1>1, <1>2, <2>1 DEF Decoding
  <2>4. Written(d, w, l) = [d EXCEPT !.headers = @ + 1, !.at = l + 1, !.region = @ \o Times(w, l),
                                     !.count = @ + w, !.lines = @ + 1]
    BY <1>1 DEF Written
  <2> HIDE DEF Written
  <2> QED
    BY <2>1, <2>2, <2>3, <2>4 DEF Decoding
<1>7. /\ d.region \o Times(w, l) \in Seq(0..sent)
      /\ Len(d.region \o Times(w, l)) = Len(d.region) + w /\ Len(d.region) \in Nat
  <2>1. d.region \in Seq(0..sent)
    BY DEF Drawn
  <2> QED
    BY <1>5, <2>1, ConcatType
<1>8. PICK c \in Nat, n \in Nat, a \in Nat :
        c = d.count /\ n = Len(d.region) /\ a = Len(Picture(LinesOf(u))) /\ c <= n /\ c <= a
  <2>1. d.count \in Nat
    BY DEF Drawn, Decoding
  <2>2. d.count <= Len(d.region) /\ d.count <= Len(Picture(LinesOf(u)))
    BY DEF Drawn
  <2> QED
    BY <1>4, <1>7, <2>1, <2>2
<1>9. e.region \in Seq(0..sent) /\ Len(e.region) = n + w
  BY <1>6, <1>7, <1>8
<1>10. e.count = c + w /\ c + w <= n + w /\ c + w <= a + w /\ Len(Picture(LinesOf(v))) = a + w
  <2>1. c + w <= n + w /\ c + w <= a + w
    BY <1>8
  <2> QED
    BY <1>4, <1>6, <1>8, <2>1
<1>11. ASSUME NoWhite(done, v)
       PROVE  e.region = Picture(LinesOf(v)) /\ e.count = Len(e.region) /\ e.lines = Len(LinesOf(v))
  <2>1. d.region = Picture(LinesOf(u)) /\ d.count = Len(d.region) /\ d.lines = Len(LinesOf(u))
    BY <1>11 DEF Drawn
  <2> QED
    BY <1>3, <1>4, <1>6, <1>8, <1>9, <2>1
<1>12. e.count <= Len(e.region) /\ e.count <= Len(Picture(LinesOf(v)))
  BY <1>9, <1>10
<1>13. e = Written(d, OutWidth, l)
  BY <1>1, <1>6
<1>14. Drawn(e, v)
  BY <1>9, <1>11, <1>12 DEF Drawn
<1> QED
  BY <1>13, <1>14

\* The line that ends at l is one of the first two parts: nothing is written.
LEMMA DrawnPart ==
  ASSUME Ready, NEW d, NEW u \in Seq(Nat), NEW v, NEW l \in 0..sent, Drawn(d, u),
         LinesOf(v) = LinesOf(u), NoWhite(done, v) => NoWhite(done, u)
  PROVE  Drawn(Written(d, 0, l), v)
<1>1. d \in Decoding /\ l + 1 \in Nat \ {0} /\ sent \in Nat
  BY PageType DEF Ready, Drawn
<1>2. Times(0, l) = <<>>
  BY DEF Times
<1>3. d.region \o Times(0, l) = d.region
  BY <1>1, <1>2, ConcatEmptySeq DEF Decoding
<1>4. PICK e \in Decoding : e = Written(d, 0, l) /\ e.region = d.region
                            /\ e.count = d.count /\ e.lines = d.lines
  <2>1. d.count + 0 = d.count /\ d.headers + 1 \in Nat /\ d.lines + 0 = d.lines
    BY <1>1 DEF Decoding
  <2>2. Written(d, 0, l) = [d EXCEPT !.headers = @ + 1, !.at = l + 1, !.region = d.region,
                                     !.count = d.count, !.lines = d.lines]
    BY <1>1, <1>3, <2>1 DEF Written, Decoding
  <2> HIDE DEF Written
  <2> QED
    BY <1>1, <2>1, <2>2 DEF Decoding
<1> QED
  BY <1>4 DEF Drawn

\* A line of white is none of those of which something is promised.
LEMMA DrawnWhite ==
  ASSUME Ready, NEW d, NEW u \in Seq(Nat), NEW l \in 0..sent, Drawn(d, u), l = End(done, u) + 1
  PROVE  Drawn(White(d), Append(u, l))
<1>1. PICK w \in Nat \ {0} : w = OutWidth
  BY Widths DEF Ready
<1>2. sent \in Nat /\ l \in Nat /\ d \in Decoding
  BY PageType DEF Ready, Drawn
<1>3. Len(Picture(LinesOf(u))) <= Len(Picture(LinesOf(Append(u, l))))
      /\ Len(Picture(LinesOf(u))) \in Nat /\ Len(Picture(LinesOf(Append(u, l)))) \in Nat
  <2>1. LinesOf(u) \in Seq(Nat)
    BY LinesOfType DEF Ready
  <2>2. /\ Len(Picture(LinesOf(u))) \in Nat
        /\ Len(Picture(Append(LinesOf(u), l))) = Len(Picture(LinesOf(u))) + w
    BY <1>1, <1>2, <2>1, PictureGrows DEF Ready
  <2>3. LinesOf(Append(u, l)) = LinesOf(u) \/ LinesOf(Append(u, l)) = Append(LinesOf(u), l)
    BY <1>2, LinesGrow DEF Ready
  <2>4. PICK a \in Nat : a = Len(Picture(LinesOf(u)))
    BY <2>2
  <2>5. Len(Picture(LinesOf(Append(u, l)))) = a \/ Len(Picture(LinesOf(Append(u, l)))) = a + w
    BY <2>2, <2>3, <2>4
  <2> QED
    BY <2>4, <2>5
<1>4. Times(w, 0) \in Seq(0..sent) /\ Times(w, 0) \in Seq(Nat) /\ Len(Times(w, 0)) = w
  <2>1. 0 \in 0..sent /\ 0 \in Nat
    BY <1>2
  <2> QED
    BY <1>1, <2>1, TimesType
<1>5. /\ d.region \o Times(w, 0) \in Seq(0..sent)
      /\ Len(d.region \o Times(w, 0)) = Len(d.region) + w /\ Len(d.region) \in Nat
  <2>1. d.region \in Seq(0..sent)
    BY DEF Drawn
  <2> QED
    BY <1>4, <2>1, ConcatType
<1>6. PICK e \in Decoding : e = White(d) /\ e.region = d.region \o Times(w, 0) /\ e.count = d.count
  <2>1. d.region \o Times(w, 0) \in Seq(Nat)
    BY <1>2, <1>4, ConcatProperties DEF Decoding
  <2>2. d.headers + 1 \in Nat /\ d.at + 1 \in Nat \ {0} /\ d.lines + 1 \in Nat
    BY <1>2 DEF Decoding
  <2>3. White(d) = [d EXCEPT !.headers = @ + 1, !.at = @ + 1, !.region = @ \o Times(w, 0), !.lines = @ + 1]
    BY <1>1 DEF White
  <2> HIDE DEF White
  <2> QED
    BY <1>2, <2>1, <2>2, <2>3 DEF Decoding
<1>7. ~NoWhite(done, Append(u, l))
  BY <1>2, NoWhiteBefore
<1>8. d.count \in Nat /\ d.count <= Len(d.region) /\ d.count <= Len(Picture(LinesOf(u)))
  BY DEF Drawn, Decoding
<1>9. e.region \in Seq(0..sent) /\ e.count <= Len(e.region)
  BY <1>1, <1>5, <1>6, <1>8
<1>10. e.count <= Len(Picture(LinesOf(Append(u, l))))
  BY <1>3, <1>6, <1>8
<1> QED
  BY <1>6, <1>7, <1>9, <1>10 DEF Drawn

-----------------------------------------------------------------------------
(* The decoding of a batch.                                                *)

\* d has got as far as the lines u, and no status yet.
Reached(d, u) ==
  /\ Chain(done, u) /\ End(done, u) <= sent /\ Drawn(d, u)
  /\ d.at = End(done, u) + 1 /\ d.answer = "good"

\* A batch was decoded: whole lines, or all up to a status and the status.
Result(d, u) ==
  /\ Chain(done, u) /\ End(done, u) <= sent /\ Drawn(d, u) /\ Len(LinesOf(u)) <= Rooms
  /\ \/ d.answer = "good" /\ d.at = End(done, u) + 1 /\ (scan.colour => Len(u) % 3 = 0)
     \/ /\ StatusAt(End(done, u) + 1)
        /\ d.answer = Answer[wire[End(done, u) + 1]] /\ d.at = End(done, u) + 2

LEMMA DecodingStops ==
  ASSUME Ready, NEW d, NEW u, Reached(d, u), d.at <= sent, IsStatus(wire[d.at])
  PROVE  /\ Stop(d) \in Decoding /\ Drawn(Stop(d), u) /\ StatusAt(End(done, u) + 1)
         /\ Stop(d).answer = Answer[wire[End(done, u) + 1]] /\ Stop(d).at = End(done, u) + 2
<1>1. d \in Decoding /\ d.at = End(done, u) + 1
  BY DEF Reached, Drawn
<1>2. PICK k \in Nat : k = End(done, u) /\ d.at = k + 1
  <2>1. done \in Nat /\ done <= Len(wire) /\ PageOK
    BY PageType DEF Ready
  <2> QED
    BY <1>1, <2>1, ChainType DEF Reached
<1>3. PICK x \in Range(Answer) : x = Answer[wire[d.at]]
  BY DEF IsStatus, Range
<1>4. Stop(d) = [d EXCEPT !.answer = x, !.at = k + 2]
  <2>1. k + 1 + 1 = k + 2 /\ d.at + 1 = k + 2
    BY <1>2
  <2> QED
    BY <1>1, <1>3, <2>1 DEF Stop, Decoding
<1>5. PICK e : e = Stop(d)
  OBVIOUS
<1>6. e \in Decoding /\ e.answer = x /\ e.at = k + 2
       /\ e.region = d.region /\ e.count = d.count /\ e.lines = d.lines
  <2> HIDE DEF Stop
  <2>1. k + 2 \in Nat \ {0}
    BY <1>2
  <2>2. e = [d EXCEPT !.answer = x, !.at = k + 2]
    BY <1>4, <1>5
  <2>3. DOMAIN d = {"headers", "at", "region", "count", "lines", "answer"}
    BY <1>1 DEF Decoding
  <2>4. e.answer = x /\ e.at = k + 2
       /\ e.region = d.region /\ e.count = d.count /\ e.lines = d.lines
    BY <2>2, <2>3
  <2>5. e \in Decoding
    BY <1>1, <2>1, <2>2 DEF Decoding
  <2> QED
    BY <2>4, <2>5
<1>7. Drawn(e, u)
  BY <1>6 DEF Drawn, Reached
<1> QED
  BY <1>1, <1>2, <1>3, <1>5, <1>6, <1>7 DEF StatusAt

MainEnds(n, d)  == d.headers >= WholeLines(n) \/ d.at > sent
MainWhite(d)    == ~scan.convert /\ wire[d.at] = 0
MainImage(d) ==
  Written(d, IF scan.colour /\ (d.headers + 1) % 3 # 0 THEN 0 ELSE OutWidth,
             d.at + LineLength(d.at, sent) - 1)
MainTurn(d)     == IF MainWhite(d) THEN White(d) ELSE MainImage(d)
MainStep(F, n, d) ==
  IF MainEnds(n, d) THEN d
  ELSE IF IsStatus(wire[d.at]) THEN Stop(d)
  ELSE IF ~scan.convert /\ wire[d.at] = 0 THEN F[White(d)]
  ELSE F[MainImage(d)]

LEMMA WrittenType ==
  ASSUME NEW d \in Decoding, NEW n \in Nat, NEW l \in Nat
  PROVE  /\ Written(d, n, l) \in Decoding /\ Written(d, n, l).at = l + 1
         /\ Written(d, n, l).headers = d.headers + 1 /\ Written(d, n, l).answer = d.answer
         /\ n # 0 => Written(d, n, l).lines = d.lines + 1
<1>1. Times(n, l) \in Seq(Nat)
  BY TimesType
<1>2. PICK r \in Seq(Nat) : r = d.region \o Times(n, l)
  BY <1>1, ConcatProperties DEF Decoding
<1>3. PICK m \in Nat : m = d.lines + (IF n = 0 THEN 0 ELSE 1) /\ (n # 0 => m = d.lines + 1)
  BY DEF Decoding
<1>4. d.count + n \in Nat /\ d.headers + 1 \in Nat /\ l + 1 \in Nat \ {0}
  BY DEF Decoding
<1>5. Written(d, n, l) = [d EXCEPT !.headers = @ + 1, !.at = l + 1, !.region = r,
                                   !.count = @ + n, !.lines = m]
  BY <1>2, <1>3 DEF Written, Decoding
<1> HIDE DEF Written
<1> QED
  BY <1>2, <1>3, <1>4, <1>5 DEF Decoding

LEMMA WhiteType ==
  ASSUME PageOK, NEW d \in Decoding
  PROVE  /\ White(d) \in Decoding /\ White(d).at = d.at + 1
         /\ White(d).headers = d.headers + 1 /\ White(d).answer = d.answer
<1>1. Times(OutWidth, 0) \in Seq(Nat)
  BY Widths, TimesType
<1>2. PICK r \in Seq(Nat) : r = d.region \o Times(OutWidth, 0)
  BY <1>1, ConcatProperties DEF Decoding
<1>3. d.lines + 1 \in Nat /\ d.headers + 1 \in Nat /\ d.at + 1 \in Nat \ {0}
  BY DEF Decoding
<1>4. White(d) = [d EXCEPT !.headers = @ + 1, !.at = @ + 1, !.region = r, !.lines = @ + 1]
  BY <1>2 DEF White, Decoding
<1> HIDE DEF White
<1> QED
  BY <1>2, <1>3, <1>4 DEF Decoding

LEMMA MainTurnType ==
  ASSUME Ready, NEW d \in Decoding, d.at <= sent
  PROVE  MainTurn(d) \in Decoding /\ MainTurn(d).headers = d.headers + 1
<1>1. PICK a \in Nat : a = d.at /\ a \in 1..sent /\ sent \in 1..Len(wire) /\ PageOK
  BY PageType DEF Ready, Decoding
<1>2. PICK L \in Nat : L = LineLength(a, sent)
  BY <1>1, LineFound
<1>3. PICK n \in Nat : n = IF scan.colour /\ (d.headers + 1) % 3 # 0 THEN 0 ELSE OutWidth
  BY <1>1, Widths
<1>4. PICK l \in Nat : l = d.at + LineLength(d.at, sent) - 1
  BY <1>1, <1>2
<1>5. MainImage(d) = Written(d, n, l)
  BY <1>3, <1>4 DEF MainImage
<1>6. White(d) \in Decoding /\ White(d).headers = d.headers + 1
  BY <1>1, WhiteType
<1>7. Written(d, n, l) \in Decoding /\ Written(d, n, l).headers = d.headers + 1
  BY WrittenType
<1> QED
  BY <1>5, <1>6, <1>7 DEF MainTurn

\* d has got as far as u, the first of the lines t.
Midway(n, t, d, u) ==
  /\ Reached(d, u) /\ d.headers = Len(u) /\ Len(u) <= WholeLines(n)
  /\ Len(u) <= Len(t) /\ \A i \in 1..Len(u) : u[i] = t[i]

LEMMA WholeLinesType ==
  ASSUME PageOK, NEW n \in Nat
  PROVE  /\ WholeLines(n) \in Nat /\ WholeLines(n) <= n
         /\ scan.colour => WholeLines(n) % 3 = 0
<1>1. PICK q \in Int, r \in Int : q = n \div 3 /\ n = 3 * q + r /\ 0 <= r /\ r < 3
  <2>1. /\ n \div 3 \in Int /\ n % 3 \in Int
        /\ n = 3 * (n \div 3) + (n % 3) /\ 0 <= n % 3 /\ n % 3 < 3
    BY Dividing
  <2> QED
    BY <2>1
<1>2. q \in Nat /\ q * 3 <= n /\ q * 3 \in Nat /\ (q * 3) % 3 = 0
  BY <1>1
<1> QED
  BY <1>1, <1>2 DEF WholeLines

\* What comes next of the lines t, where some are left.
LEMMA NextLine ==
  ASSUME Ready, NEW n \in Nat, NEW b, b.n = n, NEW t, HasLines(b, t),
         NEW d, NEW u, Midway(n, t, d, u), d.headers < WholeLines(n),
         ~StatusAt(End(done, u) + 1)
  PROVE  /\ Len(u) < Len(t) /\ IsLine(End(done, u) + 1, t[Len(u) + 1])
         /\ t[Len(u) + 1] \in Nat /\ t[Len(u) + 1] <= sent
<1>1. done \in Nat /\ done <= Len(wire) /\ PageOK /\ Chain(done, t) /\ Chain(done, u)
  BY PageType DEF Ready, HasLines, Midway, Reached
<1>2. PICK m \in Nat, k \in Nat : m = Len(u) /\ k = Len(t) /\ m <= k /\ \A i \in 1..m : u[i] = t[i]
  BY <1>1, ChainType DEF Midway
<1>3. Place(done, t, m + 1) = End(done, u)
  BY <1>2 DEF Place, End
<1>4. m < k
  <2> SUFFICES ASSUME m = k PROVE FALSE
    BY <1>2
  <2>1. End(done, t) = End(done, u)
    BY <1>2, <1>3 DEF End
  <2>2. ~StatusAt(End(done, t) + 1)
    BY <2>1
  <2>3. n = k
    BY <1>2, <2>2 DEF HasLines
  <2>4. m < WholeLines(n) /\ WholeLines(n) \in Nat /\ WholeLines(n) <= n
    BY <1>1, <1>2, WholeLinesType DEF Midway
  <2> QED
    BY <2>3, <2>4
<1>5. m + 1 \in 1..k /\ m + 1 \in 1..Len(t) /\ m + 1 + 1 \in 1..(Len(t) + 1)
  BY <1>2, <1>4
<1>6. IsLine(End(done, u) + 1, t[m + 1])
  BY <1>1, <1>3, <1>5 DEF Chain
<1>7. t[m + 1] = Place(done, t, m + 1 + 1) /\ Place(done, t, m + 1 + 1) <= End(done, t)
      /\ Place(done, t, m + 1 + 1) \in Nat /\ End(done, t) \in Nat /\ End(done, t) <= sent
  BY <1>1, <1>5, ChainType DEF HasLines
<1> QED
  BY <1>2, <1>4, <1>6, <1>7, PageType DEF Ready

LEMMA MainTurnKeeps ==
  ASSUME Ready, NEW n \in Nat, NEW b, b.n = n, NEW t, HasLines(b, t),
         NEW d, NEW u, Midway(n, t, d, u), ~MainEnds(n, d), ~IsStatus(wire[d.at])
  PROVE  \E v : Midway(n, t, MainTurn(d), v)
<1>1. /\ done \in Nat /\ done <= Len(wire) /\ sent \in 0..Len(wire) /\ Len(wire) \in Nat
      /\ PageOK /\ Chain(done, u) /\ d \in Decoding /\ Drawn(d, u)
  BY PageType DEF Ready, Midway, Reached, Drawn
<1>2. PICK k \in Nat, m \in Nat, N \in Nat :
        /\ k = End(done, u) /\ m = Len(u) /\ N = WholeLines(n)
        /\ d.at = k + 1 /\ d.headers = m /\ d.answer = "good" /\ m < N /\ k + 1 <= sent
        /\ u \in Seq(Nat)
  <2>1. End(done, u) \in Nat /\ Len(u) \in Nat /\ u \in Seq(Nat)
    BY <1>1, ChainType
  <2>2. WholeLines(n) \in Nat
    BY <1>1, WholeLinesType
  <2> QED
    BY <1>1, <2>1, <2>2 DEF Midway, Reached, MainEnds
<1>3. ~StatusAt(k + 1) /\ d.headers < WholeLines(n)
  BY <1>2 DEF StatusAt
<1>4. PICK l \in Nat : l = t[m + 1] /\ m < Len(t) /\ IsLine(k + 1, l) /\ l <= sent
  BY <1>2, <1>3, NextLine
<1>5. /\ k + 1 \in 1..sent /\ sent \in 1..Len(wire) /\ k + 1 <= l
      /\ LineLength(k + 1, sent) = l - (k + 1) + 1 /\ LineLength(k + 1, sent) # 0
      /\ k + 1 + LineLength(k + 1, sent) - 1 = l
  <2>1. sent \in l..Len(wire)
    BY <1>1, <1>4
  <2> QED
    BY <1>1, <1>2, <1>4, <2>1, LineAt
<1> DEFINE v == Append(u, l)
<1>6. Chain(done, v) /\ End(done, v) = l /\ Len(v) = m + 1
  BY <1>1, <1>2, <1>4, ChainGrows
<1>7. \A i \in 1..Len(v) : v[i] = t[i]
  <2>1. v[m + 1] = l /\ \A i \in 1..m : v[i] = u[i]
    BY <1>2, AppendProperties
  <2>2. \A i \in 1..m : u[i] = t[i]
    BY <1>2 DEF Midway
  <2> HIDE DEF v
  <2> QED
    BY <1>4, <1>6, <2>1, <2>2
<1>8. Len(v) <= Len(t) /\ Len(v) <= WholeLines(n)
  <2>1. Len(t) \in Nat
    BY <1>1, ChainType DEF HasLines
  <2> HIDE DEF v
  <2> QED
    BY <1>2, <1>4, <1>6, <2>1
<1>9. MainWhite(d) <=> l = k + 1
  <2>1. LineLength(k + 1, sent) = 1 <=> ~scan.convert /\ wire[k + 1] = 0
    BY <1>1, <1>5, LineFound
  <2>2. LineLength(k + 1, sent) = 1 <=> l = k + 1
    BY <1>5
  <2> QED
    BY <1>2, <2>1, <2>2 DEF MainWhite
<1>10. l \in 0..sent
  BY <1>1, <1>4
<1>11. CASE MainWhite(d)
  <2>1. Drawn(White(d), v)
    BY <1>1, <1>2, <1>9, <1>10, <1>11, DrawnWhite
  <2>2. White(d).at = l + 1 /\ White(d).headers = m + 1 /\ White(d).answer = "good"
    BY <1>1, <1>2, <1>9, <1>11, WhiteType
  <2> HIDE DEF v
  <2>3. Midway(n, t, White(d), v)
    BY <1>4, <1>6, <1>7, <1>8, <2>1, <2>2 DEF Midway, Reached
  <2> QED
    BY <1>11, <2>3 DEF MainTurn
<1>12. CASE ~MainWhite(d)
  <2>1. PICK w \in Nat : w = IF scan.colour /\ (m + 1) % 3 # 0 THEN 0 ELSE OutWidth
    BY <1>1, Widths
  <2>2. MainTurn(d) = Written(d, w, l)
    <3>1. d.at + LineLength(d.at, sent) - 1 = l
      BY <1>2, <1>5
    <3> QED
      BY <1>2, <1>12, <2>1, <3>1 DEF MainTurn, MainImage
  <2>3. NoWhite(done, v) => NoWhite(done, u)
    <3>1. ASSUME NoWhite(done, v) PROVE NoWhite(done, u)
      BY <1>2, <3>1, NoWhiteBefore
    <3> HIDE DEF v
    <3> QED
      BY <3>1
  <2>4. LinesOf(v) = IF scan.colour /\ (m + 1) % 3 # 0 THEN LinesOf(u) ELSE Append(LinesOf(u), l)
    BY <1>1, <1>2, LinesGrow
  <2>5. Drawn(Written(d, w, l), v)
    <3> HIDE DEF v
    <3>1. CASE scan.colour /\ (m + 1) % 3 # 0
      <4>1. w = 0 /\ LinesOf(v) = LinesOf(u)
        BY <2>1, <2>4, <3>1
      <4>2. Drawn(Written(d, 0, l), v)
        BY <1>1, <1>2, <1>10, <2>3, <4>1, DrawnPart
      <4> QED
        BY <4>1, <4>2
    <3>2. CASE ~(scan.colour /\ (m + 1) % 3 # 0)
      <4>1. w = OutWidth /\ LinesOf(v) = Append(LinesOf(u), l)
        BY <2>1, <2>4, <3>2
      <4>2. Drawn(Written(d, OutWidth, l), v)
        BY <1>1, <1>2, <1>10, <2>3, <4>1, DrawnLine
      <4> QED
        BY <4>1, <4>2
    <3> QED
      BY <3>1, <3>2
  <2>6. /\ Written(d, w, l).at = l + 1 /\ Written(d, w, l).headers = m + 1
        /\ Written(d, w, l).answer = "good"
    <3>1. d \in Decoding
      BY <1>1
    <3>2. /\ Written(d, w, l).at = l + 1 /\ Written(d, w, l).headers = d.headers + 1
          /\ Written(d, w, l).answer = d.answer
      BY <3>1 DEF Written, Decoding
    <3> QED
      BY <1>2, <3>2
  <2> HIDE DEF v
  <2>7. Midway(n, t, Written(d, w, l), v)
    BY <1>4, <1>6, <1>7, <1>8, <2>5, <2>6 DEF Midway, Reached
  <2> QED
    BY <2>2, <2>7
<1> QED
  BY <1>11, <1>12

\* What has ended the decoding of the lines t.
LEMMA MainResult ==
  ASSUME Ready, NEW n \in Nat, NEW b, b.n = n, b.end \in 0..sent, NEW t, HasLines(b, t),
         NEW d, NEW u, Midway(n, t, d, u)
  PROVE  /\ MainEnds(n, d) => Result(d, u)
         /\ ~MainEnds(n, d) /\ IsStatus(wire[d.at]) => Result(Stop(d), u)
<1>1. /\ done \in Nat /\ done <= Len(wire) /\ sent \in Nat
      /\ PageOK /\ Chain(done, u) /\ Chain(done, t) /\ d \in Decoding /\ Drawn(d, u)
  BY PageType DEF Ready, Midway, Reached, Drawn, HasLines
<1>2. PICK k \in Nat, m \in Nat, N \in Nat :
        /\ k = End(done, u) /\ m = Len(u) /\ N = WholeLines(n)
        /\ d.at = k + 1 /\ d.headers = m /\ d.answer = "good" /\ m <= N /\ k <= sent
        /\ u \in Seq(Nat)
  <2>1. End(done, u) \in Nat /\ Len(u) \in Nat /\ u \in Seq(Nat)
    BY <1>1, ChainType
  <2>2. WholeLines(n) \in Nat
    BY <1>1, WholeLinesType
  <2> QED
    BY <1>1, <2>1, <2>2 DEF Midway, Reached
<1>3. Len(LinesOf(u)) <= Rooms
  <2>1. PICK q \in Nat : q = Rooms /\ nFwTempBuffMaxLine = IF scan.colour THEN 3 * q ELSE q
    BY RoomType
  <2>2. m <= nFwTempBuffMaxLine
    <3>1. Len(t) \in Nat /\ Len(t) <= nFwTempBuffMaxLine /\ m <= Len(t)
      BY <1>1, <1>2, ChainType DEF HasLines, Midway
    <3> QED
      BY <1>2, <2>1, <3>1
  <2>3. Len(LinesOf(u)) = IF scan.colour THEN m \div 3 ELSE m
    BY <1>1, <1>2, LinesOfType
  <2>4. scan.colour => m \div 3 <= q
    BY <1>2, <2>1, <2>2
  <2> QED
    BY <2>1, <2>2, <2>3, <2>4
<1>4. ASSUME MainEnds(n, d) PROVE Result(d, u)
  <2>1. m = N
    <3> SUFFICES ASSUME m # N PROVE FALSE
      OBVIOUS
    <3>1. m < N /\ k = sent
      BY <1>1, <1>2, <1>4 DEF MainEnds
    <3>2. ~StatusAt(k + 1)
      BY <1>1, <3>1 DEF StatusAt
    <3>3. m < Len(t) /\ IsLine(k + 1, t[m + 1]) /\ t[m + 1] <= sent
      BY <1>2, <3>1, <3>2, NextLine
    <3>4. k + 1 <= t[m + 1] /\ t[m + 1] \in Int
      BY <3>3, PageType, <1>1 DEF IsLine
    <3> QED
      BY <1>1, <3>1, <3>3, <3>4
  <2>2. scan.colour => Len(u) % 3 = 0
    BY <1>1, <1>2, <2>1, WholeLinesType
  <2> QED
    BY <1>1, <1>2, <1>3, <2>2 DEF Result
<1>5. ASSUME ~MainEnds(n, d), IsStatus(wire[d.at]) PROVE Result(Stop(d), u)
  <2>1. Reached(d, u) /\ d.at <= sent
    BY <1>1, <1>2, <1>5 DEF Midway, MainEnds
  <2>2. /\ Drawn(Stop(d), u) /\ StatusAt(End(done, u) + 1)
        /\ Stop(d).answer = Answer[wire[End(done, u) + 1]] /\ Stop(d).at = End(done, u) + 2
    BY <1>5, <2>1, DecodingStops
  <2> QED
    BY <1>1, <1>2, <1>3, <2>2 DEF Result
<1> QED
  BY <1>4, <1>5

LEMMA MainIs ==
  ASSUME Ready, NEW n \in Nat, NEW b, b.n = n, b.end \in 0..sent, NEW t, HasLines(b, t)
  PROVE  \E u : Result(ProcessMain(n), u)
<1> DEFINE F == CHOOSE From : From = [d \in Decoding |->
                  IF d.headers >= WholeLines(n) \/ d.at > sent THEN d
                  ELSE IF IsStatus(wire[d.at]) THEN Stop(d)
                  ELSE IF ~scan.convert /\ wire[d.at] = 0 THEN From[White(d)]
                  ELSE From[Written(d, IF scan.colour /\ (d.headers + 1) % 3 # 0 THEN 0 ELSE OutWidth,
                                       d.at + LineLength(d.at, sent) - 1)]]
           G(f)    == [d \in Decoding |-> MainStep(f, n, d)]
           more(d) == ~MainEnds(n, d) /\ ~IsStatus(wire[d.at])
           left == [d \in Decoding |-> IF d.headers >= WholeLines(n) THEN 0 ELSE WholeLines(n) - d.headers]
           stop == {d \in Decoding : ~more(d)}
           next == [d \in Decoding |-> IF more(d) THEN MainTurn(d) ELSE d]
           val  == [d \in Decoding |-> IF MainEnds(n, d) \/ more(d) THEN d ELSE Stop(d)]
           I == {d \in Decoding : \E u : Midway(n, t, d, u)}
           R == {d \in Decoding : \E u : Result(d, u)}
<1>1. ProcessMain(n) = F[Start]
  BY DEF ProcessMain
<1>2. PICK N \in Nat : N = WholeLines(n) /\ PageOK /\ sent \in Nat
  BY WholeLinesType, PageType DEF Ready
<1>3. ASSUME NEW d \in Decoding, more(d)
      PROVE  MainTurn(d) \in Decoding /\ MainTurn(d).headers = d.headers + 1 /\ d.headers < N
  <2>1. d.at <= sent /\ d.headers < N
    BY <1>2, <1>3 DEF MainEnds, Decoding
  <2> QED
    BY <2>1, MainTurnType
<1>4. next \in [Decoding -> Decoding]
  BY <1>3
<1>5. left \in [Decoding -> 0..N] /\ stop \in SUBSET Decoding
  BY <1>2 DEF Decoding
<1>6. \A x \in Decoding \ stop : left[next[x]] < left[x]
  <2> SUFFICES ASSUME NEW x \in Decoding, more(x) PROVE left[next[x]] < left[x]
    OBVIOUS
  <2>1. next[x] = MainTurn(x) /\ MainTurn(x) \in Decoding
    BY <1>3
  <2>2. PICK h \in Nat : h = x.headers /\ h < N /\ MainTurn(x).headers = h + 1
    BY <1>3 DEF Decoding
  <2>3. left[MainTurn(x)] = IF h + 1 >= N THEN 0 ELSE N - (h + 1)
    BY <1>2, <2>1, <2>2
  <2>4. left[x] = N - h
    BY <1>2, <2>2
  <2> HIDE DEF next, left
  <2> QED
    BY <2>1, <2>2, <2>3, <2>4
<1>7. val \in [Decoding -> Decoding \cup {Stop(d) : d \in Decoding}]
  OBVIOUS
<1>8. TailLoop(Decoding, N, left, stop, next)
  <2> HIDE DEF left, stop, next
  <2> QED
    BY <1>4, <1>5, <1>6 DEF TailLoop
<1>9. PICK f \in [Decoding -> Decoding \cup {Stop(d) : d \in Decoding}] :
        Follows(f, Decoding, stop, val, next)
  <2> HIDE DEF left, stop, next, val
  <2> QED
    BY <1>7, <1>8, TailLoopExists
<1>10. ASSUME NEW g, NEW d \in Decoding
       PROVE  MainStep(g, n, d) = IF d \in stop THEN val[d] ELSE g[next[d]]
  <2>1. CASE more(d)
    <3>1. d \notin stop /\ next[d] = MainTurn(d)
      BY <2>1
    <3>2. MainStep(g, n, d) = g[MainTurn(d)]
      BY <2>1 DEF MainStep, MainTurn, MainWhite
    <3> HIDE DEF next, stop
    <3> QED
      BY <3>1, <3>2
  <2>2. CASE ~more(d)
    <3>1. d \in stop
      BY <2>2
    <3>2. MainStep(g, n, d) = val[d]
      BY <2>2 DEF MainStep
    <3> HIDE DEF stop, val
    <3> QED
      BY <3>1, <3>2
  <2> HIDE DEF stop, val, next
  <2> QED
    BY <2>1, <2>2
<1>11. f = G(f)
  <2>1. \A d \in Decoding : f[d] = MainStep(f, n, d)
    <3> HIDE DEF stop, val, next
    <3> QED
      BY <1>9, <1>10 DEF Follows
  <2> QED
    BY <1>9, <2>1
<1>12. F = G(F)
  BY <1>11, Zenon DEF MainStep, MainEnds, MainImage
<1> HIDE DEF F
<1>13. Follows(F, Decoding, stop, val, next)
  <2>1. ASSUME NEW d \in Decoding PROVE F[d] = MainStep(F, n, d)
    <3>1. G(F)[d] = MainStep(F, n, d)
      OBVIOUS
    <3> QED
      BY <1>12, <3>1, Zenon
  <2> HIDE DEF stop, val, next
  <2> QED
    BY <1>10, <2>1 DEF Follows
<1>14. ASSUME NEW d \in I, d \notin stop PROVE next[d] \in I
  <2>1. PICK u : Midway(n, t, d, u)
    OBVIOUS
  <2>2. more(d) /\ next[d] = MainTurn(d) /\ d \in Decoding
    BY <1>14
  <2>3. \E v : Midway(n, t, MainTurn(d), v)
    BY <2>1, <2>2, MainTurnKeeps
  <2>4. MainTurn(d) \in Decoding
    BY <1>3, <2>2
  <2> HIDE DEF next
  <2> QED
    BY <2>2, <2>3, <2>4
<1>15. ASSUME NEW d \in I, d \in stop PROVE val[d] \in R
  <2>1. PICK u : Midway(n, t, d, u)
    OBVIOUS
  <2>2. d \in Decoding /\ val[d] = IF MainEnds(n, d) THEN d ELSE Stop(d)
    BY <1>15
  <2>3. Result(val[d], u)
    <3>1. ~MainEnds(n, d) => IsStatus(wire[d.at])
      BY <1>15
    <3>2. MainEnds(n, d) => Result(d, u)
      BY <2>1, MainResult
    <3>3. ~MainEnds(n, d) /\ IsStatus(wire[d.at]) => Result(Stop(d), u)
      BY <2>1, MainResult
    <3> HIDE DEF val
    <3> QED
      BY <2>2, <3>1, <3>2, <3>3
  <2> HIDE DEF val
  <2>4. val[d] \in Decoding
    BY <2>3 DEF Result, Drawn
  <2> QED
    BY <2>3, <2>4
<1>16. Start \in I
  <2>1. done \in Nat /\ sent \in Nat /\ done <= sent
    BY PageType DEF Ready
  <2>2. Chain(done, <<>>) /\ End(done, <<>>) = done /\ Len(<<>>) = 0
    BY <2>1, EmptyChain
  <2>3. Drawn(Start, <<>>) /\ Start \in Decoding
    BY DrawnNothing DEF Drawn
  <2>4. Start.at = done + 1 /\ Start.answer = "good" /\ Start.headers = 0
    BY DEF Start
  <2>5. Len(t) \in Nat
    BY <1>2, <2>1, ChainType, PageType DEF HasLines, Ready
  <2>6. Midway(n, t, Start, <<>>)
    BY <1>2, <2>1, <2>2, <2>3, <2>4, <2>5 DEF Midway, Reached
  <2> QED
    BY <2>3, <2>6
<1>17. F[Start] \in R
  <2>1. I \in SUBSET Decoding
    OBVIOUS
  <2>2. \A x \in I : x \notin stop => next[x] \in I
    BY <1>14
  <2>3. \A x \in I : x \in stop => val[x] \in R
    BY <1>15
  <2> HIDE DEF I, R, left, stop, next, val
  <2>4. \A x \in I : F[x] \in R
    BY <1>8, <1>13, <2>1, <2>2, <2>3, LoopKeeps
  <2> QED
    BY <1>16, <2>4
<1> QED
  BY <1>1, <1>17

-----------------------------------------------------------------------------
(* The decoding of colour records.                                         *)

ColorLines   == (dwFwTempBuffMaxSize - Len(fw)) \div OutWidth
PixelsOf(k)  == Length(k + 3 + Length(k + 1))
IsPart(e, i, k) ==
  /\ k \in 1..e /\ wire[k] = Components[i] /\ FrameLength(k, e) # 0 /\ PixelsOf(k) >= scan.width
PartEnd(e, i) ==
  [k \in 0..(e + 1) |->
     IF k \in 1..e /\ wire[k] = Components[i] /\ FrameLength(k, e) # 0 /\ PixelsOf(k) >= scan.width
     THEN k + FrameLength(k, e)
     ELSE 0]
BehindParts(e, k) == PartEnd(e, 3)[PartEnd(e, 2)[PartEnd(e, 1)[k]]]

ColorEnds(e, d) == d.at > e \/ d.lines >= ColorLines
ColorTurn(e, d) == Written(d, OutWidth, BehindParts(e, d.at) - 1)
ColorStep(F, e, d) ==
  IF ColorEnds(e, d) THEN d
  ELSE IF wire[d.at] \in Boundary THEN Stop(d)
  ELSE IF BehindParts(e, d.at) = 0 THEN d
  ELSE F[ColorTurn(e, d)]

LEMMA ColorLinesType ==
  ASSUME Ready
  PROVE  ColorLines \in Nat
<1>1. PICK w \in Nat \ {0}, n \in Nat : w = OutWidth /\ n = Len(fw)
  BY Widths DEF Ready
<1>2. PICK z \in Nat : z = dwFwTempBuffMaxSize
  BY RoomType
<1>3. PICK h \in Nat : h = z \div 2 /\ h <= z
  OBVIOUS
<1>4. PICK d \in Nat : d = z - n
  <2>1. n <= h
    BY <1>1, <1>2, <1>3 DEF Ready
  <2> QED
    BY <1>3, <2>1
<1>5. PICK q \in Int, r \in Int : q = d \div w /\ d = w * q + r /\ 0 <= r /\ r < w
  <2>1. /\ d \div w \in Int /\ d % w \in Int
        /\ d = w * (d \div w) + (d % w) /\ 0 <= d % w /\ d % w < w
    BY Dividing
  <2> QED
    BY <2>1
<1>6. q \in Nat
  <2>1. q <= -1 => w * q <= -w
    OBVIOUS
  <2> QED
    BY <1>5, <2>1
<1> QED
  BY <1>1, <1>2, <1>4, <1>5, <1>6 DEF ColorLines

\* A part is a line.
LEMMA PartIs ==
  ASSUME PageOK, scan.convert, NEW e \in 0..Len(wire), NEW i \in 1..3, NEW k \in 0..(e + 1)
  PROVE  /\ PartEnd(e, i)[k] \in 0..(e + 1)
         /\ PartEnd(e, i)[k] # 0 =>
              k \in 1..e /\ PartEnd(e, i)[k] - 1 \in k..e /\ IsLine(k, PartEnd(e, i)[k] - 1)
<1>1. e \in Nat /\ k \in Nat
  BY PageType
<1>2. CASE IsPart(e, i, k)
  <2>1. PICK L \in Nat : L = FrameLength(k, e) /\ L = LineLength(k, e) /\ L # 0
    <3>1. LineLength(k, e) = FrameLength(k, e)
      BY DEF LineLength
    <3>2. e \in 1..Len(wire) /\ k \in 1..e
      BY <1>1, <1>2 DEF IsPart
    <3> QED
      BY <1>2, <3>1, <3>2, FrameFound DEF IsPart
  <2>2. ~IsStatus(wire[k])
    <3>1. Components[i] \in Range(Components)
      BY SizesAssumption DEF Range
    <3> QED
      BY <1>2, <3>1, SizesAssumption DEF IsPart, IsStatus
  <2>3. k + L - 1 \in k..e /\ IsLine(k, k + L - 1)
    <3>1. e \in 1..Len(wire) /\ k \in 1..e
      BY <1>1, <1>2 DEF IsPart
    <3> QED
      BY <2>1, <2>2, <3>1, LineIs
  <2>4. PartEnd(e, i)[k] = k + L
    BY <1>2, <2>1 DEF PartEnd, IsPart
  <2>5. PICK x \in Nat : x = k + L /\ x - 1 = k + L - 1 /\ x - 1 <= e
    BY <1>1, <2>1, <2>3
  <2>6. x \in 0..(e + 1)
    BY <1>1, <2>5
  <2> QED
    BY <1>2, <2>3, <2>4, <2>5, <2>6 DEF IsPart
<1>3. CASE ~IsPart(e, i, k)
  <2>1. PartEnd(e, i)[k] = 0
    BY <1>3 DEF PartEnd, IsPart
  <2> QED
    BY <1>1, <2>1
<1> QED
  BY <1>2, <1>3

\* Three lines, one behind the other.
Triple(k, a, b, c, e) ==
  /\ k \in 1..e /\ a \in k..e /\ b \in Nat /\ c \in Nat
  /\ a < b /\ b < c /\ c <= e /\ a \in Nat
  /\ IsLine(k, a) /\ IsLine(a + 1, b) /\ IsLine(b + 1, c)

LEMMA BehindIs ==
  ASSUME PageOK, scan.convert, NEW e \in 0..Len(wire), NEW k \in 0..(e + 1)
  PROVE  /\ BehindParts(e, k) \in 0..(e + 1)
         /\ BehindParts(e, k) # 0 => \E a, b : Triple(k, a, b, BehindParts(e, k) - 1, e)
<1>1. PICK x \in 0..(e + 1) :
        x = PartEnd(e, 1)[k] /\ (x # 0 => k \in 1..e /\ x - 1 \in k..e /\ IsLine(k, x - 1))
  BY PartIs
<1>2. PICK y \in 0..(e + 1) :
        y = PartEnd(e, 2)[x] /\ (y # 0 => x \in 1..e /\ y - 1 \in x..e /\ IsLine(x, y - 1))
  <2>1. /\ PartEnd(e, 2)[x] \in 0..(e + 1)
        /\ PartEnd(e, 2)[x] # 0 =>
             x \in 1..e /\ PartEnd(e, 2)[x] - 1 \in x..e /\ IsLine(x, PartEnd(e, 2)[x] - 1)
    BY PartIs
  <2> QED
    BY <2>1
<1>3. PICK z \in 0..(e + 1) :
        z = PartEnd(e, 3)[y] /\ (z # 0 => y \in 1..e /\ z - 1 \in y..e /\ IsLine(y, z - 1))
  <2>1. /\ PartEnd(e, 3)[y] \in 0..(e + 1)
        /\ PartEnd(e, 3)[y] # 0 =>
             y \in 1..e /\ PartEnd(e, 3)[y] - 1 \in y..e /\ IsLine(y, PartEnd(e, 3)[y] - 1)
    BY PartIs
  <2> QED
    BY <2>1
<1>4. z = BehindParts(e, k)
  BY <1>1, <1>2, <1>3 DEF BehindParts
<1>5. ASSUME z # 0 PROVE Triple(k, x - 1, y - 1, z - 1, e)
  <2>1. e \in Nat
    BY PageType
  <2>2. x # 0 /\ y # 0
    BY <1>2, <1>3, <1>5, <2>1
  <2>3. x - 1 + 1 = x /\ y - 1 + 1 = y /\ x - 1 < y - 1 /\ y - 1 < z - 1 /\ z - 1 <= e
        /\ {x - 1, y - 1, z - 1} \subseteq Nat
    <3>1. /\ x \in Int /\ y \in Int /\ z \in Int /\ x >= 1 /\ x <= y - 1 /\ y <= z - 1
          /\ z - 1 <= e
      BY <1>1, <1>2, <1>3, <1>5, <2>1, <2>2
    <3> QED
      BY <2>1, <3>1
  <2> QED
    BY <1>1, <1>2, <1>3, <1>5, <2>2, <2>3 DEF Triple
<1> QED
  BY <1>4, <1>5

\* d has got as far as u, that end at e or before.
Coloured(e, d, u) == Reached(d, u) /\ Len(u) = 3 * d.lines /\ (u = <<>> \/ End(done, u) <= e)

LEMMA ThreeLines ==
  ASSUME PageOK, scan.colour, NEW p \in Nat, NEW u, Chain(p, u), u \in Seq(Nat), Len(u) % 3 = 0,
         NEW a, NEW b, NEW c, NEW e, Triple(End(p, u) + 1, a, b, c, e)
  PROVE  \E v : /\ Chain(p, v) /\ End(p, v) = c /\ Len(v) = Len(u) + 3
                /\ LinesOf(v) = Append(LinesOf(u), c) /\ (NoWhite(p, v) => NoWhite(p, u))
<1>1. /\ a \in Nat /\ b \in Nat /\ c \in Nat
      /\ IsLine(End(p, u) + 1, a) /\ IsLine(a + 1, b) /\ IsLine(b + 1, c)
  BY DEF Triple
<1>2. PICK m \in Nat : m = Len(u) /\ m % 3 = 0
  OBVIOUS
<1>3. PICK v1 \in Seq(Nat) : v1 = Append(u, a) /\ Chain(p, v1) /\ End(p, v1) = a /\ Len(v1) = m + 1
  <2>1. Append(u, a) \in Seq(Nat)
    BY <1>1, AppendProperties
  <2> QED
    BY <1>1, <1>2, <2>1, ChainGrows
<1>4. PICK v2 \in Seq(Nat) : v2 = Append(v1, b) /\ Chain(p, v2) /\ End(p, v2) = b /\ Len(v2) = m + 1 + 1
  <2>1. Append(v1, b) \in Seq(Nat)
    BY <1>1, AppendProperties
  <2>2. IsLine(End(p, v1) + 1, b)
    BY <1>1, <1>3
  <2>3. Chain(p, Append(v1, b)) /\ End(p, Append(v1, b)) = b /\ Len(Append(v1, b)) = Len(v1) + 1
    BY <1>1, <1>3, <2>2, ChainGrows
  <2> QED
    BY <1>3, <2>1, <2>3
<1>5. PICK v3 \in Seq(Nat) : v3 = Append(v2, c) /\ Chain(p, v3) /\ End(p, v3) = c /\ Len(v3) = m + 1 + 1 + 1
  <2>1. Append(v2, c) \in Seq(Nat)
    BY <1>1, AppendProperties
  <2>2. IsLine(End(p, v2) + 1, c)
    BY <1>1, <1>4
  <2>3. Chain(p, Append(v2, c)) /\ End(p, Append(v2, c)) = c /\ Len(Append(v2, c)) = Len(v2) + 1
    BY <1>1, <1>4, <2>2, ChainGrows
  <2> QED
    BY <1>4, <2>1, <2>3
<1>6. (m + 1) % 3 # 0 /\ (m + 1 + 1) % 3 # 0 /\ (m + 1 + 1 + 1) % 3 = 0
  <2>1. PICK q \in Int : m = 3 * q
    <3>1. m = 3 * (m \div 3) + (m % 3) /\ m \div 3 \in Int
      BY Dividing
    <3> QED
      BY <1>2, <3>1
  <2> QED
    BY <2>1
<1>7. LinesOf(v1) = LinesOf(u)
  <2>1. LinesOf(Append(u, a)) = IF scan.colour /\ (Len(u) + 1) % 3 # 0 THEN LinesOf(u)
                                ELSE Append(LinesOf(u), a)
    BY <1>1, LinesGrow
  <2> QED
    BY <1>2, <1>3, <1>6, <2>1
<1>8. LinesOf(v2) = LinesOf(u)
  <2>1. LinesOf(Append(v1, b)) = IF scan.colour /\ (Len(v1) + 1) % 3 # 0 THEN LinesOf(v1)
                                 ELSE Append(LinesOf(v1), b)
    BY <1>1, LinesGrow
  <2> QED
    BY <1>3, <1>4, <1>6, <1>7, <2>1
<1>9. LinesOf(v3) = Append(LinesOf(u), c)
  <2>1. LinesOf(Append(v2, c)) = IF scan.colour /\ (Len(v2) + 1) % 3 # 0 THEN LinesOf(v2)
                                 ELSE Append(LinesOf(v2), c)
    BY <1>1, LinesGrow
  <2> QED
    BY <1>4, <1>5, <1>6, <1>8, <2>1
<1>10. ASSUME NoWhite(p, v3) PROVE NoWhite(p, u)
  <2>1. NoWhite(p, v2)
    BY <1>1, <1>5, <1>10, NoWhiteBefore
  <2>2. NoWhite(p, v1)
    BY <1>1, <1>4, <2>1, NoWhiteBefore
  <2> QED
    BY <1>1, <1>3, <2>2, NoWhiteBefore
<1>11. Len(v3) = Len(u) + 3
  BY <1>2, <1>5
<1> QED
  BY <1>5, <1>9, <1>10, <1>11

LEMMA LineWritten ==
  ASSUME PageOK, NEW d \in Decoding, NEW c \in Nat
  PROVE  /\ Written(d, OutWidth, c).at = c + 1
         /\ Written(d, OutWidth, c).answer = d.answer
         /\ Written(d, OutWidth, c).lines = d.lines + 1
<1>1. OutWidth # 0
  BY Widths
<1> QED
  BY <1>1 DEF Written, Decoding

LEMMA ColorTurnKeeps ==
  ASSUME Ready, scan.convert, scan.colour, NEW e \in 0..sent,
         NEW d, NEW u, Coloured(e, d, u), ~ColorEnds(e, d), BehindParts(e, d.at) # 0
  PROVE  \E v : Coloured(e, ColorTurn(e, d), v)
<1>1. /\ done \in Nat /\ done <= Len(wire) /\ sent \in Nat /\ e \in 0..Len(wire) /\ e \in Nat
      /\ PageOK /\ Chain(done, u) /\ d \in Decoding /\ Drawn(d, u)
  BY PageType DEF Ready, Coloured, Reached, Drawn
<1>2. PICK k \in Nat, m \in Nat, q \in Nat :
        /\ k = End(done, u) /\ m = Len(u) /\ q = d.lines /\ m = 3 * q /\ m % 3 = 0
        /\ d.at = k + 1 /\ d.answer = "good" /\ k + 1 <= e /\ u \in Seq(Nat)
  <2>1. End(done, u) \in Nat /\ Len(u) \in Nat /\ u \in Seq(Nat)
    BY <1>1, ChainType
  <2>2. d.lines \in Nat
    BY <1>1 DEF Decoding
  <2>3. (3 * d.lines) % 3 = 0
    BY <2>2
  <2> QED
    BY <1>1, <2>1, <2>2, <2>3 DEF Coloured, Reached, ColorEnds
<1>3. k + 1 \in 0..(e + 1)
  BY <1>1, <1>2
<1>4. PICK z \in 0..(e + 1) : z = BehindParts(e, k + 1) /\ z # 0
  <2>1. BehindParts(e, k + 1) \in 0..(e + 1)
    BY <1>1, <1>3, BehindIs
  <2> QED
    BY <1>2, <2>1
<1>4a. PICK a, b : Triple(k + 1, a, b, z - 1, e)
  <2>1. \E a, b : Triple(k + 1, a, b, BehindParts(e, k + 1) - 1, e)
    BY <1>1, <1>3, <1>4, BehindIs
  <2> QED
    BY <1>4, <2>1
<1>5. PICK c \in Nat : c = z - 1 /\ c + 1 = z /\ c <= e /\ c \in 0..sent
  BY <1>1, <1>4
<1>6. PICK v : /\ Chain(done, v) /\ End(done, v) = c /\ Len(v) = m + 3
               /\ LinesOf(v) = Append(LinesOf(u), c) /\ (NoWhite(done, v) => NoWhite(done, u))
  <2>1. Triple(End(done, u) + 1, a, b, c, e) /\ Len(u) % 3 = 0
    BY <1>2, <1>4, <1>5, <1>4a
  <2>2. \E v : /\ Chain(done, v) /\ End(done, v) = c /\ Len(v) = Len(u) + 3
               /\ LinesOf(v) = Append(LinesOf(u), c) /\ (NoWhite(done, v) => NoWhite(done, u))
    <3>1. PageOK /\ Chain(done, u) /\ u \in Seq(Nat) /\ done \in Nat
      BY <1>1, <1>2
    <3> QED
      BY <2>1, <3>1, ThreeLines
  <2> QED
    BY <1>2, <2>2
<1>7. ColorTurn(e, d) = Written(d, OutWidth, c)
  BY <1>2, <1>4, <1>5 DEF ColorTurn
<1>8. Drawn(Written(d, OutWidth, c), v)
  BY <1>1, <1>2, <1>5, <1>6, DrawnLine
<1>9. /\ Written(d, OutWidth, c).at = c + 1 /\ Written(d, OutWidth, c).lines = q + 1
      /\ Written(d, OutWidth, c).answer = "good"
  <2>1. PageOK /\ d \in Decoding
    BY <1>1
  <2>2. /\ Written(d, OutWidth, c).at = c + 1
        /\ Written(d, OutWidth, c).answer = d.answer
        /\ Written(d, OutWidth, c).lines = d.lines + 1
    BY <2>1, LineWritten
  <2> QED
    BY <1>2, <2>2
<1>10. Coloured(e, Written(d, OutWidth, c), v)
  <2>1. Len(v) = 3 * (q + 1)
    BY <1>2, <1>6
  <2>2. c <= sent
    BY <1>5
  <2> QED
    BY <1>5, <1>6, <1>8, <1>9, <2>1, <2>2 DEF Coloured, Reached
<1> QED
  BY <1>7, <1>10

LEMMA ColorResult ==
  ASSUME Ready, scan.convert, scan.colour, NEW b, NEW e \in 0..sent, b.end = e,
         NEW t, HasLines(b, t), NEW d, NEW u, Coloured(e, d, u)
  PROVE  /\ Result(d, u)
         /\ ~ColorEnds(e, d) /\ wire[d.at] \in Boundary => Result(Stop(d), u)
<1>1. /\ done \in Nat /\ done <= Len(wire) /\ sent \in Nat /\ e <= sent
      /\ PageOK /\ Chain(done, u) /\ Chain(done, t) /\ d \in Decoding /\ Drawn(d, u) /\ Reached(d, u)
  BY PageType DEF Ready, Coloured, Reached, Drawn, HasLines
<1>2. PICK m \in Nat, q \in Nat : m = Len(u) /\ q = d.lines /\ m = 3 * q /\ m % 3 = 0 /\ u \in Seq(Nat)
  <2>1. Len(u) \in Nat /\ u \in Seq(Nat)
    BY <1>1, ChainType
  <2>2. d.lines \in Nat
    BY <1>1 DEF Decoding
  <2>3. (3 * d.lines) % 3 = 0
    BY <2>2
  <2> QED
    BY <2>1, <2>2, <2>3 DEF Coloured
<1>3. Len(LinesOf(u)) <= Rooms
  <2>1. PICK r \in Nat : r = Rooms /\ nFwTempBuffMaxLine = 3 * r
    BY RoomType
  <2>2. u = <<>> \/ End(done, u) <= End(done, t) \/ IsStatus(wire[End(done, t) + 1])
    BY DEF HasLines, Coloured, StatusAt
  <2>3. Len(u) <= Len(t)
    <3>1. CASE u = <<>>
      BY <1>1, <3>1, ChainType
    <3>2. CASE End(done, u) <= End(done, t) \/ IsStatus(wire[End(done, t) + 1])
      BY <1>1, <3>2, ChainsAgree
    <3> QED
      BY <2>2, <3>1, <3>2
  <2>4. m <= 3 * r
    <3>1. Len(t) \in Nat /\ Len(t) <= 3 * r
      BY <1>1, <2>1, ChainType DEF HasLines
    <3> QED
      BY <1>2, <2>1, <2>3, <3>1
  <2>5. Len(LinesOf(u)) = m \div 3
    BY <1>1, <1>2, LinesOfType
  <2> QED
    BY <1>2, <2>1, <2>4, <2>5
<1>4. Result(d, u)
  BY <1>1, <1>2, <1>3 DEF Result, Reached
<1>5. ASSUME ~ColorEnds(e, d), wire[d.at] \in Boundary PROVE Result(Stop(d), u)
  <2>1. d.at \in Nat
    BY <1>1 DEF Decoding
  <2>2. d.at <= sent /\ IsStatus(wire[d.at])
    <3>1. d.at <= sent
      BY <1>1, <1>5, <2>1 DEF ColorEnds
    <3>2. Boundary \subseteq DOMAIN Answer
      BY SizesAssumption
    <3> QED
      BY <1>5, <3>1, <3>2 DEF IsStatus
  <2>3. /\ Drawn(Stop(d), u) /\ StatusAt(End(done, u) + 1)
        /\ Stop(d).answer = Answer[wire[End(done, u) + 1]] /\ Stop(d).at = End(done, u) + 2
    BY <1>1, <2>2, DecodingStops
  <2> QED
    BY <1>1, <1>3, <2>3 DEF Result, Reached
<1> QED
  BY <1>4, <1>5

LEMMA ColorTurnType ==
  ASSUME Ready, scan.convert, NEW e \in 0..sent, NEW d \in Decoding, ~ColorEnds(e, d), BehindParts(e, d.at) # 0
  PROVE  ColorTurn(e, d) \in Decoding /\ ColorTurn(e, d).lines = d.lines + 1
<1>1. PageOK /\ e \in 0..Len(wire) /\ e \in Nat
  BY PageType DEF Ready
<1>2. d.at \in 0..(e + 1)
  BY <1>1 DEF ColorEnds, Decoding
<1>3. PICK l \in Nat : l = BehindParts(e, d.at) - 1
  <2>1. BehindParts(e, d.at) \in 0..(e + 1)
    BY <1>1, <1>2, BehindIs
  <2> QED
    BY <1>1, <2>1
<1>4. PICK w \in Nat \ {0} : w = OutWidth
  BY <1>1, Widths
<1>5. Written(d, w, l) \in Decoding
  BY <1>4, WrittenType
<1>6. w # 0 => Written(d, w, l).lines = d.lines + 1
  BY <1>4, WrittenType
<1> QED
  BY <1>3, <1>4, <1>5, <1>6 DEF ColorTurn

LEMMA ColorIs ==
  ASSUME Ready, scan.convert, scan.colour, NEW e \in 0..sent, NEW b, b.end = e, NEW t, HasLines(b, t)
  PROVE  \E u : Result(ColorDirect(e), u)
<1> DEFINE F == CHOOSE From : From = [d \in Decoding |->
                  IF d.at > e \/ d.lines >= ColorLines THEN d
                  ELSE IF wire[d.at] \in Boundary THEN Stop(d)
                  ELSE IF BehindParts(e, d.at) = 0 THEN d
                  ELSE From[Written(d, OutWidth, BehindParts(e, d.at) - 1)]]
           G(f)    == [d \in Decoding |-> ColorStep(f, e, d)]
           more(d) == ~ColorEnds(e, d) /\ wire[d.at] \notin Boundary /\ BehindParts(e, d.at) # 0
           ends(d) == ~ColorEnds(e, d) /\ wire[d.at] \in Boundary
           left == [d \in Decoding |-> IF d.lines >= ColorLines THEN 0 ELSE ColorLines - d.lines]
           stop == {d \in Decoding : ~more(d)}
           next == [d \in Decoding |-> IF more(d) THEN ColorTurn(e, d) ELSE d]
           val  == [d \in Decoding |-> IF ends(d) THEN Stop(d) ELSE d]
           I == {d \in Decoding : \E u : Coloured(e, d, u)}
           R == {d \in Decoding : \E u : Result(d, u)}
<1>1. ColorDirect(e) = F[Start]
  BY DEF ColorDirect, ColorLines, BehindParts, PartEnd, PixelsOf
<1>2. PICK N \in Nat : N = ColorLines /\ PageOK /\ sent \in Nat
  BY ColorLinesType, PageType DEF Ready
<1>3. ASSUME NEW d \in Decoding, more(d)
      PROVE  ColorTurn(e, d) \in Decoding /\ ColorTurn(e, d).lines = d.lines + 1 /\ d.lines < N
  <2>1. d.lines < N
    BY <1>2, <1>3 DEF ColorEnds, Decoding
  <2>2. ColorTurn(e, d) \in Decoding /\ ColorTurn(e, d).lines = d.lines + 1
    BY <1>3, ColorTurnType
  <2> QED
    BY <2>1, <2>2
<1>4. next \in [Decoding -> Decoding]
  BY <1>3
<1>5. left \in [Decoding -> 0..N] /\ stop \in SUBSET Decoding
  BY <1>2 DEF Decoding
<1>6. \A x \in Decoding \ stop : left[next[x]] < left[x]
  <2> SUFFICES ASSUME NEW x \in Decoding, more(x) PROVE left[next[x]] < left[x]
    OBVIOUS
  <2>1. next[x] = ColorTurn(e, x) /\ ColorTurn(e, x) \in Decoding
    BY <1>3
  <2>2. PICK h \in Nat : h = x.lines /\ h < N /\ ColorTurn(e, x).lines = h + 1
    BY <1>3 DEF Decoding
  <2>3. left[ColorTurn(e, x)] = IF h + 1 >= N THEN 0 ELSE N - (h + 1)
    BY <1>2, <2>1, <2>2
  <2>4. left[x] = N - h
    BY <1>2, <2>2
  <2> HIDE DEF next, left
  <2> QED
    BY <2>1, <2>2, <2>3, <2>4
<1>7. val \in [Decoding -> Decoding \cup {Stop(d) : d \in Decoding}]
  OBVIOUS
<1>8. TailLoop(Decoding, N, left, stop, next)
  <2> HIDE DEF left, stop, next
  <2> QED
    BY <1>4, <1>5, <1>6 DEF TailLoop
<1>9. PICK f \in [Decoding -> Decoding \cup {Stop(d) : d \in Decoding}] :
        Follows(f, Decoding, stop, val, next)
  <2> HIDE DEF left, stop, next, val
  <2> QED
    BY <1>7, <1>8, TailLoopExists
<1>10. ASSUME NEW g, NEW d \in Decoding
       PROVE  ColorStep(g, e, d) = IF d \in stop THEN val[d] ELSE g[next[d]]
  <2>1. CASE more(d)
    <3>1. d \notin stop /\ next[d] = ColorTurn(e, d)
      BY <2>1
    <3>2. ColorStep(g, e, d) = g[ColorTurn(e, d)]
      BY <2>1 DEF ColorStep
    <3> HIDE DEF next, stop
    <3> QED
      BY <3>1, <3>2
  <2>2. CASE ~more(d)
    <3>1. d \in stop
      BY <2>2
    <3>2. ColorStep(g, e, d) = val[d]
      BY <2>2 DEF ColorStep
    <3> HIDE DEF stop, val
    <3> QED
      BY <3>1, <3>2
  <2> HIDE DEF stop, val, next
  <2> QED
    BY <2>1, <2>2
<1>11. f = G(f)
  <2>1. \A d \in Decoding : f[d] = ColorStep(f, e, d)
    <3> HIDE DEF stop, val, next
    <3> QED
      BY <1>9, <1>10 DEF Follows
  <2> QED
    BY <1>9, <2>1
<1>12. F = G(F)
  BY <1>11, Zenon DEF ColorStep, ColorEnds, ColorTurn
<1> HIDE DEF F
<1>13. Follows(F, Decoding, stop, val, next)
  <2>1. ASSUME NEW d \in Decoding PROVE F[d] = ColorStep(F, e, d)
    <3>1. G(F)[d] = ColorStep(F, e, d)
      OBVIOUS
    <3> QED
      BY <1>12, <3>1, Zenon
  <2> HIDE DEF stop, val, next
  <2> QED
    BY <1>10, <2>1 DEF Follows
<1>14. ASSUME NEW d \in I, d \notin stop PROVE next[d] \in I
  <2>1. PICK u : Coloured(e, d, u)
    OBVIOUS
  <2>2. more(d) /\ next[d] = ColorTurn(e, d) /\ d \in Decoding
    BY <1>14
  <2>3. \E v : Coloured(e, ColorTurn(e, d), v)
    BY <2>1, <2>2, ColorTurnKeeps
  <2>4. ColorTurn(e, d) \in Decoding
    BY <1>3, <2>2
  <2> HIDE DEF next
  <2> QED
    BY <2>2, <2>3, <2>4
<1>15. ASSUME NEW d \in I, d \in stop PROVE val[d] \in R
  <2>1. PICK u : Coloured(e, d, u)
    OBVIOUS
  <2>2. d \in Decoding /\ val[d] = IF ends(d) THEN Stop(d) ELSE d
    OBVIOUS
  <2>3. Result(d, u)
    BY <2>1, ColorResult
  <2>4. ends(d) => Result(Stop(d), u)
    BY <2>1, ColorResult
  <2> HIDE DEF val
  <2>5. Result(val[d], u)
    BY <2>2, <2>3, <2>4
  <2>6. val[d] \in Decoding
    BY <2>5 DEF Result, Drawn
  <2> QED
    BY <2>5, <2>6
<1>16. Start \in I
  <2>1. done \in Nat /\ sent \in Nat /\ done <= sent /\ done <= Len(wire)
    BY PageType DEF Ready
  <2>2. Chain(done, <<>>) /\ End(done, <<>>) = done /\ Len(<<>>) = 0
    BY <2>1, EmptyChain
  <2>3. Drawn(Start, <<>>) /\ Start \in Decoding
    BY DrawnNothing DEF Drawn
  <2>4. Start.at = done + 1 /\ Start.answer = "good" /\ Start.lines = 0
    BY DEF Start
  <2>5. Coloured(e, Start, <<>>)
    BY <1>2, <2>1, <2>2, <2>3, <2>4 DEF Coloured, Reached
  <2> QED
    BY <2>3, <2>5
<1>17. F[Start] \in R
  <2>1. I \in SUBSET Decoding
    OBVIOUS
  <2>2. \A x \in I : x \notin stop => next[x] \in I
    BY <1>14
  <2>3. \A x \in I : x \in stop => val[x] \in R
    BY <1>15
  <2> HIDE DEF I, R, left, stop, next, val
  <2>4. \A x \in I : F[x] \in R
    BY <1>8, <1>13, <2>1, <2>2, <2>3, LoopKeeps
  <2> QED
    BY <1>16, <2>4
<1> QED
  BY <1>1, <1>17

\* What Process() decodes.
LEMMA DecodedIs ==
  ASSUME Ready
  PROVE  \E u : Result(Decoded, u)
<1>1. Split \in Batch
  BY SplitIs
<1>2. PICK t : HasLines(Split, t)
  BY SplitIs
<1>3. PICK n \in Nat, e \in 0..sent : n = Split.n /\ e = Split.end
  BY <1>1 DEF Batch
<1>4. CASE scan.convert /\ scan.colour
  <2>1. \E u : Result(ColorDirect(e), u)
    BY <1>2, <1>3, <1>4, ColorIs
  <2> QED
    BY <1>3, <1>4, <2>1 DEF Decoded
<1>5. CASE ~(scan.convert /\ scan.colour)
  <2>1. \E u : Result(ProcessMain(n), u)
    BY <1>2, <1>3, MainIs
  <2> QED
    BY <1>3, <1>5, <2>1 DEF Decoded
<1> QED
  BY <1>4, <1>5

-----------------------------------------------------------------------------
(* The variables have their types.                                         *)

Streams ==
  /\ PageOK /\ sent \in 0..Len(wire) /\ done \in 0..sent /\ kept \in 0..wData
  /\ fw \in Seq(0..Len(wire)) /\ Len(fw) <= dwFwTempBuffMaxSize \div 2
  /\ out \in Seq(0..Len(wire))

Answers == {"good", "eof", "mps", "cancel"} \cup DOMAIN Errors
Results == {"idle", "started", "good", "eof", "cancelled", "failed", "busy"}
           \cup {Errors[e] : e \in DOMAIN Errors}

Flags ==
  /\ lRealY \in Nat /\ nPageCnt \in Nat
  /\ bScanning \in BOOLEAN /\ bReadbufEnd \in BOOLEAN /\ bEOF \in BOOLEAN
  /\ iProcessEnd \in {"none", "eof", "mps"}
  /\ pc \in {"out", "read", "process", "deliver"} /\ maxlen \in Nat
  /\ nAnswer \in Answers /\ rc \in Results
  /\ ended \in {"no", "status", "fallback", "silence"}
  /\ scans \in 0..MaxScans /\ faults \in 0..MaxFaults

\* all of TypeOK but the bound of the receive buffer
Typed == Streams /\ Flags

LEMMA TypeOKIs == TypeOK <=> Typed /\ wData <= dwRxBuffMaxSize
BY DEF TypeOK, Typed, Streams, Flags, Answers, Results, PageOK

LEMMA SamePage ==
  ASSUME scan' = scan, page' = page
  PROVE  /\ PageOK' <=> PageOK
         /\ wire' = wire /\ OutWidth' = OutWidth /\ LineRoom' = LineRoom
         /\ nMinReadSize' = nMinReadSize /\ dwRxBuffMaxSize' = dwRxBuffMaxSize
         /\ dwFwTempBuffMaxSize' = dwFwTempBuffMaxSize
BY DEF PageOK, wire, OutWidth, LineRoom, nMinReadSize, dwRxBuffMaxSize, dwFwTempBuffMaxSize

LEMMA Numbers ==
  ASSUME Typed
  PROVE  /\ Len(wire) \in Nat /\ sent \in Nat /\ done \in Nat /\ kept \in Nat /\ wData \in Nat
         /\ wData = sent - done /\ PageOK /\ MaxFaults \in Nat /\ MaxScans \in Nat /\ Ready
<1>1. Len(wire) \in Nat /\ PageOK
  BY PageType DEF Typed, Streams
<1>2. sent \in Nat /\ done \in Nat /\ done <= sent
  BY <1>1 DEF Typed, Streams
<1>3. wData \in Nat /\ wData = sent - done
  BY <1>2 DEF wData
<1>4. kept \in Nat
  BY <1>3 DEF Typed, Streams
<1>5. Ready
  BY DEF Typed, Streams, Ready
<1> QED
  BY <1>1, <1>2, <1>3, <1>4, <1>5, SizesAssumption

\* What a read brings is still on the wire.
LEMMA BroughtType ==
  ASSUME Typed, NEW n \in Brought
  PROVE  n \in Nat \ {0} /\ sent + n \in 0..Len(wire)
<1>1. /\ Len(wire) \in Nat /\ sent \in Nat /\ sent <= Len(wire) /\ PageOK
  BY Numbers DEF Typed, Streams
<1>2. CASE scan.convert
  <2>1. CASE sent = Len(wire)
    BY <1>2, <2>1 DEF Brought
  <2>2. CASE sent # Len(wire) /\ wire[sent + 1] \in Boundary
    <3>1. n = 1
      BY <1>2, <2>2 DEF Brought
    <3> QED
      BY <1>1, <2>2, <3>1
  <2>3. CASE sent # Len(wire) /\ wire[sent + 1] \notin Boundary
    <3>1. n = FrameLength(sent + 1, Len(wire)) /\ n # 0
      BY <1>2, <2>3 DEF Brought
    <3>2. PICK e \in 1..Len(wire), k \in 1..Len(wire) : e = Len(wire) /\ k = sent + 1 /\ k \in 1..e
      BY <1>1, <2>3
    <3>3. /\ FrameLength(k, e) \in Nat
          /\ FrameLength(k, e) # 0 => FrameLength(k, e) >= 5 /\ k + FrameLength(k, e) - 1 <= e
      BY <1>1, <3>2, FrameFound
    <3>4. n \in Nat /\ k + n - 1 <= e
      BY <3>1, <3>2, <3>3
    <3> QED
      BY <1>1, <3>1, <3>2, <3>4
  <2> QED
    BY <2>1, <2>2, <2>3
<1>3. CASE ~scan.convert
  <2>1. n \in 1..Least(nReadSize % WordSize, Len(wire) - sent)
    BY <1>3 DEF Brought
  <2>2. n \in Nat /\ n >= 1 /\ n <= Len(wire) - sent
    <3>1. nReadSize \in Int
      <4>1. dwRxBuffMaxSize \in Nat
        BY <1>1, Widths, SizesAssumption DEF dwRxBuffMaxSize, Most
      <4> QED
        BY <4>1, Numbers DEF nReadSize
    <3>2. nReadSize % WordSize \in Int
      BY <3>1, SizesAssumption, Dividing
    <3>3. Len(wire) - sent \in Int
      BY <1>1
    <3>4. PICK a \in Int : a = nReadSize % WordSize
      BY <3>2
    <3>5. PICK b \in Int : b = Len(wire) - sent
      BY <3>3
    <3>6. n \in 1..Least(a, b)
      BY <2>1, <3>4, <3>5
    <3> QED
      BY <3>5, <3>6 DEF Least
  <2> QED
    BY <1>1, <2>2
<1> QED
  BY <1>2, <1>3

LEMMA ReadTyped ==
  ASSUME Typed, Read
  PROVE  Typed'
<1>1. PICK n \in Brought : sent' = sent + n
  BY DEF Read
<1>2. n \in Nat \ {0} /\ sent' \in 0..Len(wire)
  BY <1>1, BroughtType
<1>3. /\ scan' = scan /\ page' = page /\ done' = done /\ kept' = kept /\ fw' = fw /\ out' = out
      /\ lRealY' = lRealY /\ nPageCnt' = nPageCnt /\ bScanning' = bScanning /\ bEOF' = bEOF
      /\ iProcessEnd' = iProcessEnd /\ maxlen' = maxlen /\ nAnswer' = nAnswer /\ rc' = rc
      /\ ended' = ended /\ scans' = scans /\ faults' = faults
  BY DEF Read
<1>4. done \in 0..sent' /\ kept \in 0..(sent' - done)
  BY <1>1, <1>2, Numbers DEF Typed, Streams
<1>5. StatusSeen \subseteq BOOLEAN
  BY <1>2, <1>4, StatusSeenType, Numbers
<1>6. bReadbufEnd' \in BOOLEAN /\ pc' \in {"read", "process"}
  BY <1>5 DEF Read
<1>7. Streams'
  BY <1>2, <1>3, <1>4, SamePage DEF Typed, Streams, wData
<1>8. Flags'
  BY <1>3, <1>6 DEF Typed, Flags
<1> QED
  BY <1>7, <1>8 DEF Typed

LEMMA ResultType ==
  ASSUME Ready, NEW d, NEW u, Result(d, u)
  PROVE  /\ d \in Decoding /\ d.at \in Nat /\ d.lines \in Nat
         /\ d.at - 1 \in done..sent /\ d.at - 1 \in Nat
         /\ fw \o SubSeq(d.region, 1, d.count) \in Seq(0..Len(wire))
         /\ Len(fw \o SubSeq(d.region, 1, d.count)) <= dwFwTempBuffMaxSize \div 2
<1>1. /\ done \in Nat /\ done <= Len(wire) /\ done <= sent /\ sent \in Nat /\ sent <= Len(wire)
      /\ Len(wire) \in Nat /\ PageOK /\ Chain(done, u) /\ d \in Decoding /\ Drawn(d, u)
  BY PageType DEF Ready, Result, Drawn
<1>2. PICK k \in Nat : k = End(done, u) /\ done <= k /\ k <= sent /\ u \in Seq(Nat)
  <2>1. End(done, u) \in Nat /\ done + Len(u) <= End(done, u) /\ u \in Seq(Nat) /\ Len(u) \in Nat
    BY <1>1, ChainType
  <2> QED
    BY <1>1, <2>1 DEF Result
<1>3. d.at \in Nat /\ d.lines \in Nat /\ d.count \in Nat
  BY <1>1 DEF Decoding
<1>4. d.at = k + 1 \/ (d.at = k + 2 /\ k + 1 <= sent)
  BY <1>2 DEF Result, StatusAt
<1>5. d.at - 1 \in done..sent /\ d.at - 1 \in Nat
  BY <1>1, <1>2, <1>4
<1>6. PICK w \in Nat \ {0}, r \in Nat, p \in Nat, c \in Nat, h \in Int, m \in Nat :
        /\ w = OutWidth /\ r = Rooms /\ p = Len(LinesOf(u)) /\ p <= r /\ c = d.count
        /\ h = dwFwTempBuffMaxSize \div 2 /\ m = Len(fw) /\ m + r * w <= h
        /\ c <= Len(d.region) /\ c <= p * w
  <2>1. OutWidth \in Nat \ {0}
    BY <1>1, Widths
  <2>2. Rooms \in Nat /\ Len(fw) + Rooms * OutWidth <= dwFwTempBuffMaxSize \div 2
        /\ dwFwTempBuffMaxSize \div 2 \in Int
    <3>1. dwFwTempBuffMaxSize \in Nat
      BY RoomType
    <3> QED
      BY <3>1, RoomType, Dividing
  <2>3. LinesOf(u) \in Seq(Nat) /\ Len(LinesOf(u)) \in Nat
    BY <1>1, <1>2, LinesOfType
  <2>4. Len(Picture(LinesOf(u))) = Len(LinesOf(u)) * OutWidth
    BY <1>1, <2>3, PictureType
  <2>5. Len(LinesOf(u)) <= Rooms
    BY DEF Result
  <2>6. d.count <= Len(d.region) /\ d.count <= Len(LinesOf(u)) * OutWidth
    BY <1>1, <2>4 DEF Drawn
  <2>7. Len(fw) \in Nat
    BY DEF Ready
  <2> QED
    BY <1>3, <2>1, <2>2, <2>3, <2>5, <2>6, <2>7
<1>7. d.region \in Seq(0..Len(wire)) /\ Len(d.region) \in Nat
  <2>1. d.region \in Seq(0..sent)
    BY <1>1 DEF Drawn
  <2>2. 0..sent \subseteq 0..Len(wire)
    BY <1>1
  <2>3. d.region \in Seq(0..Len(wire))
    BY <2>1, <2>2, SeqMonotonic
  <2> QED
    BY <2>3
<1>8. SubSeq(d.region, 1, c) \in Seq(0..Len(wire)) /\ Len(SubSeq(d.region, 1, c)) = c
  <2>1. \A i \in 1..c : i \in 1..Len(d.region)
    BY <1>6, <1>7
  <2>2. SubSeq(d.region, 1, c) \in Seq(0..Len(wire))
    BY <1>7, <2>1, SubSeqProperties
  <2>3. Len(SubSeq(d.region, 1, c)) = IF 1 <= c THEN c - 1 + 1 ELSE 0
    BY <1>7, <2>1, SubSeqProperties
  <2> QED
    BY <2>2, <2>3
<1>9. /\ fw \o SubSeq(d.region, 1, c) \in Seq(0..Len(wire))
      /\ Len(fw \o SubSeq(d.region, 1, c)) = Len(fw) + Len(SubSeq(d.region, 1, c))
  <2>1. fw \in Seq(0..Len(wire))
    BY DEF Ready
  <2> QED
    BY <1>8, <2>1, ConcatType
<1>10. m + c <= h
  <2>1. p * w <= r * w
    BY <1>6
  <2>2. PICK pw \in Int, rw \in Int : pw = p * w /\ rw = r * w
    OBVIOUS
  <2> QED
    BY <1>6, <2>1, <2>2
<1> QED
  BY <1>1, <1>3, <1>5, <1>6, <1>8, <1>9, <1>10

LEMMA FallbackType ==
  ASSUME NEW a \in {"good"} \cup Range(Answer), NEW n
  PROVE  Fallback(a, n) \in Answers
<1>1. a \in Answers
  BY SizesAssumption DEF Answers, Errors
<1> QED
  BY <1>1 DEF Fallback, Answers, Errors

LEMMA ReadNothingTyped ==
  ASSUME Typed, ReadNothing
  PROVE  Typed'
<1>1. faults' \in 0..MaxFaults
  BY Numbers DEF ReadNothing, Typed, Flags
<1>2. Streams'
  BY SamePage DEF ReadNothing, Typed, Streams, device, wData
<1>3. Flags'
  BY <1>1 DEF ReadNothing, Typed, Flags
<1> QED
  BY <1>2, <1>3 DEF Typed

LEMMA ProcessTyped ==
  ASSUME Typed, Process
  PROVE  Typed'
<1>1. PICK d, u : d = Decoded /\ Result(d, u)
  BY DecodedIs, Numbers
<1>2. /\ d \in Decoding /\ d.lines \in Nat /\ d.at - 1 \in done..sent /\ d.at - 1 \in Nat
      /\ fw \o SubSeq(d.region, 1, d.count) \in Seq(0..Len(wire))
      /\ Len(fw \o SubSeq(d.region, 1, d.count)) <= dwFwTempBuffMaxSize \div 2
  BY <1>1, ResultType, Numbers
<1>3. PICK answer \in Answers : answer = Fallback(d.answer, lRealY + d.lines)
  <2>1. d.answer \in {"good"} \cup Range(Answer)
    BY <1>2 DEF Decoding
  <2> QED
    BY <2>1, FallbackType
<1>4. /\ done' = d.at - 1 /\ kept' = sent - done' /\ fw' = fw \o SubSeq(d.region, 1, d.count)
      /\ lRealY' = lRealY + d.lines /\ nAnswer' = answer
      /\ bReadbufEnd' = (bReadbufEnd \/ (answer = "eof" /\ d.answer = "good"))
      /\ iProcessEnd' = IF answer \in {"eof", "mps"} THEN answer ELSE iProcessEnd
      /\ ended' = IF answer \notin {"eof", "mps"} THEN ended
                  ELSE IF d.answer = "good" THEN "fallback" ELSE "status"
  BY <1>1, <1>3 DEF Process
<1>5. /\ scan' = scan /\ page' = page /\ sent' = sent /\ nPageCnt' = nPageCnt /\ bScanning' = bScanning
      /\ bEOF' = bEOF /\ maxlen' = maxlen /\ rc' = rc /\ out' = out /\ scans' = scans /\ faults' = faults
      /\ pc' = "deliver"
  BY DEF Process, device
<1>6. Streams'
  <2>1. PICK a \in Nat, s \in Nat : a = d.at - 1 /\ s = sent /\ a <= s
    <3>1. sent \in Nat /\ done \in Nat
      BY Numbers
    <3> QED
      BY <1>2, <3>1
  <2>2. a \in 0..s /\ s - a \in 0..(s - a)
    BY <2>1
  <2>3. done' \in 0..sent /\ kept' \in 0..(sent - done')
    BY <1>4, <2>1, <2>2
  <2> QED
    BY <1>2, <1>4, <1>5, <2>3, SamePage DEF Typed, Streams, wData
<1>7. Flags'
  BY <1>2, <1>3, <1>4, <1>5 DEF Typed, Flags
<1> QED
  BY <1>6, <1>7 DEF Typed

LEMMA ProcessNothingTyped ==
  ASSUME Typed, ProcessNothing
  PROVE  Typed'
<1>1. Streams'
  BY SamePage DEF ProcessNothing, Typed, Streams, device, wData
<1>2. Flags'
  BY DEF ProcessNothing, Typed, Flags, state, Answers
<1> QED
  BY <1>1, <1>2 DEF Typed

\* What a Deliver() hands out and what it keeps.
Piece == Least(Len(fw), maxlen)
Rest  == SubSeq(fw, Piece + 1, Len(fw))
WhiteBehind == IF lRealY < Height THEN WhiteLines(Piece) ELSE 0

LEMMA CutInTwo ==
  ASSUME NEW S, NEW s \in Seq(S), NEW n \in 0..Len(s)
  PROVE  /\ SubSeq(s, 1, n) \in Seq(S) /\ Len(SubSeq(s, 1, n)) = n
         /\ SubSeq(s, n + 1, Len(s)) \in Seq(S) /\ Len(SubSeq(s, n + 1, Len(s))) = Len(s) - n
         /\ SubSeq(s, 1, n) \o SubSeq(s, n + 1, Len(s)) = s
<1>1. PICK m \in Nat : m = Len(s) /\ n \in Nat /\ n <= m
  OBVIOUS
<1>2. SubSeq(s, 1, n) \in Seq(S) /\ Len(SubSeq(s, 1, n)) = n /\ \A i \in 1..n : SubSeq(s, 1, n)[i] = s[i]
  <2>1. \A i \in 1..n : i \in 1..Len(s)
    BY <1>1
  <2>2. SubSeq(s, 1, n) \in Seq(S)
    BY <1>1, <2>1, SubSeqProperties
  <2>3. Len(SubSeq(s, 1, n)) = IF 1 <= n THEN n - 1 + 1 ELSE 0
    BY <1>1, <2>1, SubSeqProperties
  <2>4. \A i \in 1..(n - 1 + 1) : SubSeq(s, 1, n)[i] = s[1 + i - 1]
    BY <1>1, <2>1, SubSeqProperties
  <2> QED
    BY <1>1, <2>2, <2>3, <2>4
<1>3. /\ SubSeq(s, n + 1, m) \in Seq(S) /\ Len(SubSeq(s, n + 1, m)) = m - n
      /\ \A i \in 1..(m - n) : SubSeq(s, n + 1, m)[i] = s[n + i]
  <2>1. \A i \in (n + 1)..m : i \in 1..Len(s)
    BY <1>1
  <2>2. SubSeq(s, n + 1, m) \in Seq(S)
    BY <1>1, <2>1, SubSeqProperties
  <2>3. Len(SubSeq(s, n + 1, m)) = IF n + 1 <= m THEN m - (n + 1) + 1 ELSE 0
    BY <1>1, <2>1, SubSeqProperties
  <2>4. \A i \in 1..(m - (n + 1) + 1) : SubSeq(s, n + 1, m)[i] = s[n + 1 + i - 1]
    BY <1>1, <2>1, SubSeqProperties
  <2>5. m - (n + 1) + 1 = m - n /\ \A i \in 1..(m - n) : n + 1 + i - 1 = n + i
    BY <1>1
  <2> QED
    BY <1>1, <2>2, <2>3, <2>4, <2>5
<1>4. IsJoin(S, s, SubSeq(s, 1, n), SubSeq(s, n + 1, m), n, m - n)
  <2>1. m = n + (m - n) /\ m - n \in Nat
    BY <1>1
  <2>2. \A j \in 1..(m - n) : s[n + j] = SubSeq(s, n + 1, m)[j]
    BY <1>3
  <2> QED
    BY <1>1, <1>2, <1>3, <2>1, <2>2 DEF IsJoin
<1>5. s = SubSeq(s, 1, n) \o SubSeq(s, n + 1, m)
  BY <1>4, IsJoined
<1> QED
  BY <1>1, <1>2, <1>3, <1>5

LEMMA PieceIs ==
  ASSUME Typed
  PROVE  /\ Piece \in Nat /\ Piece \in 0..Len(fw) /\ Len(fw) \in Nat /\ Piece <= maxlen
         /\ (Piece = Len(fw) \/ Piece = maxlen)
         /\ SubSeq(fw, 1, Piece) \in Seq(0..Len(wire))
         /\ Rest \in Seq(0..Len(wire)) /\ Len(Rest) = Len(fw) - Piece
         /\ SubSeq(fw, 1, Piece) \o Rest = fw
<1>1. PICK n \in Nat, x \in Nat : n = Len(fw) /\ x = maxlen
  BY DEF Typed, Streams, Flags
<1>2. Piece = IF n <= x THEN n ELSE x
  BY <1>1 DEF Piece, Least
<1>3. Piece \in Nat /\ Piece \in 0..Len(fw) /\ Piece <= maxlen /\ (Piece = Len(fw) \/ Piece = maxlen)
  BY <1>1, <1>2
<1>4. fw \in Seq(0..Len(wire))
  BY DEF Typed, Streams
<1> HIDE DEF Piece
<1> QED
  BY <1>1, <1>3, <1>4, CutInTwo DEF Rest

LEMMA WhiteIs ==
  ASSUME Typed
  PROVE  /\ WhiteBehind \in Nat /\ WhiteBehind * OutWidth \in Nat
         /\ lRealY < Height => lRealY + WhiteBehind <= Height
         /\ lRealY >= Height => WhiteBehind = 0
         /\ WhiteBehind = 0 /\ maxlen - Piece >= OutWidth => lRealY >= Height
<1>1. PICK w \in Nat \ {0}, r \in Nat, h \in Nat, g \in Nat :
        w = OutWidth /\ r = maxlen - Piece /\ h = Height /\ g = lRealY
  <2>1. OutWidth \in Nat \ {0} /\ Height \in Nat
    BY Widths, Numbers, SizesAssumption
  <2>2. maxlen - Piece \in Nat
    <3>1. maxlen \in Nat /\ Piece \in Nat /\ Piece <= maxlen
      BY PieceIs DEF Typed, Flags
    <3> QED
      BY <3>1
  <2>3. lRealY \in Nat
    BY DEF Typed, Flags
  <2> QED
    BY <2>1, <2>2, <2>3
<1>2. PICK q \in Int, m \in Int : q = r \div w /\ r = w * q + m /\ 0 <= m /\ m < w
  <2>1. r \div w \in Int /\ r % w \in Int /\ r = w * (r \div w) + (r % w) /\ 0 <= r % w /\ r % w < w
    BY Dividing
  <2> QED
    BY <2>1
<1>3. q \in Nat
  <2>1. q <= -1 => w * q <= -w
    OBVIOUS
  <2> QED
    BY <1>2, <2>1
<1>4. WhiteBehind = IF g < h THEN IF (h - g) * w < r THEN h - g ELSE q ELSE 0
  BY <1>1, <1>2 DEF WhiteBehind, WhiteLines
<1>5. ASSUME g < h, ~((h - g) * w < r) PROVE g + q <= h
  <2>1. PICK z \in Nat : z = h - g
    BY <1>5
  <2>2. w * q <= z * w
    BY <1>2, <1>5, <2>1
  <2>3. q >= z + 1 => w * q >= w * (z + 1)
    BY <1>3
  <2>4. w * (z + 1) = z * w + w
    OBVIOUS
  <2> QED
    BY <1>3, <2>1, <2>2, <2>3, <2>4
<1>6. q = 0 => r < w
  BY <1>2
<1>7. WhiteBehind \in Nat
  BY <1>3, <1>4
<1>8. WhiteBehind * OutWidth \in Nat
  BY <1>1, <1>7
<1>9. g < h => g + WhiteBehind <= h
  BY <1>3, <1>4, <1>5
<1>10. WhiteBehind = 0 /\ r >= w => g >= h
  BY <1>3, <1>4, <1>6
<1> QED
  BY <1>1, <1>4, <1>7, <1>8, <1>9, <1>10

\* The four ways a Deliver() goes.
Fills   == nAnswer \in {"eof", "mps"} /\ Rest # <<>>
Closes  == nAnswer \in {"eof", "mps"} /\ Rest = <<>>
Stays   == nAnswer \notin {"eof", "mps"} \/ Rest # <<>>
Handed ==
  /\ pc = "deliver" /\ pc' = "out" /\ fw' = Rest
  /\ scan' = scan /\ page' = page /\ sent' = sent /\ done' = done /\ kept' = kept
  /\ bReadbufEnd' = bReadbufEnd /\ iProcessEnd' = iProcessEnd /\ maxlen' = maxlen
  /\ nAnswer' = nAnswer /\ ended' = ended /\ scans' = scans /\ faults' = faults

LEMMA DeliverIs ==
  ASSUME Typed, Deliver
  PROVE  /\ Handed
         /\ Stays => out' = out \o SubSeq(fw, 1, Piece) /\ lRealY' = lRealY /\ bEOF' = bEOF
         /\ Closes => /\ out' = out \o fw \o Times(WhiteBehind * OutWidth, 0)
                      /\ lRealY' = lRealY + WhiteBehind /\ PageEnd(Piece + WhiteBehind * OutWidth)
         /\ nPageCnt' \in {nPageCnt, 0} /\ bScanning' \in BOOLEAN /\ bEOF' \in BOOLEAN
         /\ rc' \in Results
         /\ rc' \in {"started", "good", "eof"} => nAnswer \in {"eof", "mps", "good"}
         /\ rc' = "eof" => Closes /\ Piece + WhiteBehind * OutWidth = 0
<1>1. Handed
  BY DEF Deliver, Handed, device, Rest, Piece
<1>2. CASE Fills
  <2>1. /\ out' = out \o SubSeq(fw, 1, Piece) /\ lRealY' = lRealY /\ bEOF' = bEOF
        /\ rc' = "good" /\ nPageCnt' = nPageCnt /\ bScanning' = bScanning
    BY <1>2 DEF Fills, Deliver, Rest, Piece, Errors
  <2> QED
    BY <1>1, <1>2, <2>1 DEF Fills, Closes, Stays, Results, Typed, Flags
<1>3. CASE Closes
  <2>1. /\ out' = out \o fw \o Times(WhiteBehind * OutWidth, 0)
        /\ lRealY' = lRealY + WhiteBehind /\ PageEnd(Piece + WhiteBehind * OutWidth)
        /\ nPageCnt' = nPageCnt
    BY <1>3 DEF Closes, Deliver, Rest, Piece, WhiteBehind, Errors
  <2>2. /\ bScanning \in BOOLEAN /\ bEOF \in BOOLEAN
        /\ {"good", "eof", "io_error"} \subseteq Results
    BY DEF Typed, Flags, Results, Errors
  <2>3. /\ bScanning' \in BOOLEAN /\ bEOF' \in BOOLEAN /\ rc' \in Results
        /\ rc' = "eof" => ~(Piece + WhiteBehind * OutWidth > 0)
    BY <2>1, <2>2 DEF PageEnd
  <2>4. Piece + WhiteBehind * OutWidth \in Nat
    BY PieceIs, WhiteIs
  <2> QED
    BY <1>1, <1>3, <2>1, <2>3, <2>4 DEF Closes, Stays
<1>4. CASE nAnswer = "cancel"
  <2>1. /\ out' = out \o SubSeq(fw, 1, Piece) /\ lRealY' = lRealY /\ bEOF' = bEOF
        /\ rc' = "cancelled" /\ nPageCnt' = 0 /\ bScanning' = FALSE
    BY <1>4 DEF Deliver, Rest, Piece, Errors
  <2> QED
    BY <1>1, <1>4, <2>1 DEF Closes, Stays, Results, Typed, Flags
<1>5. CASE nAnswer \in DOMAIN Errors \cup {"good"}
  <2>1. /\ out' = out \o SubSeq(fw, 1, Piece) /\ lRealY' = lRealY /\ bEOF' = bEOF
        /\ rc' = IF nAnswer = "good" THEN "good" ELSE Errors[nAnswer]
        /\ nPageCnt' = nPageCnt /\ bScanning' = bScanning
    BY <1>5 DEF Deliver, Rest, Piece, Errors
  <2>2. rc' \in Results
    BY <1>5, <2>1 DEF Results
  <2>3. rc' \in {"started", "good", "eof"} => nAnswer = "good"
    BY <1>5, <2>1 DEF Errors
  <2>4. rc' # "eof" /\ nAnswer \notin {"eof", "mps"}
    BY <1>5, <2>1 DEF Errors
  <2> QED
    BY <1>1, <2>1, <2>2, <2>3, <2>4 DEF Closes, Stays, Typed, Flags
<1> QED
  BY <1>2, <1>3, <1>4, <1>5 DEF Fills, Closes, Typed, Flags, Answers

LEMMA DeliverTyped ==
  ASSUME Typed, Deliver
  PROVE  Typed'
<1>1. PageOK /\ Len(wire) \in Nat
  BY Numbers
<1>2. /\ Handed /\ rc' \in Results /\ nPageCnt' \in {nPageCnt, 0}
      /\ bScanning' \in BOOLEAN /\ bEOF' \in BOOLEAN
  BY DeliverIs
<1>3. out' \in Seq(0..Len(wire)) /\ lRealY' \in Nat
  <2>0. out \in Seq(0..Len(wire)) /\ fw \in Seq(0..Len(wire)) /\ lRealY \in Nat
    BY DEF Typed, Streams, Flags
  <2>1. CASE Stays
    <3>1. out' = out \o SubSeq(fw, 1, Piece) /\ lRealY' = lRealY
      BY <2>1, DeliverIs
    <3>2. SubSeq(fw, 1, Piece) \in Seq(0..Len(wire))
      BY PieceIs
    <3> QED
      BY <2>0, <3>1, <3>2, ConcatType
  <2>2. CASE Closes
    <3>1. out' = out \o fw \o Times(WhiteBehind * OutWidth, 0) /\ lRealY' = lRealY + WhiteBehind
      BY <2>2, DeliverIs
    <3>2. WhiteBehind \in Nat /\ WhiteBehind * OutWidth \in Nat /\ 0 \in 0..Len(wire)
      BY <1>1, WhiteIs
    <3>3. Times(WhiteBehind * OutWidth, 0) \in Seq(0..Len(wire))
      BY <3>2, TimesType
    <3>4. out \o fw \in Seq(0..Len(wire))
      BY <2>0, ConcatType
    <3>5. (out \o fw) \o Times(WhiteBehind * OutWidth, 0) \in Seq(0..Len(wire))
      BY <3>3, <3>4, ConcatType
    <3> QED
      BY <2>0, <3>1, <3>2, <3>5
  <2> QED
    BY <2>1, <2>2 DEF Stays, Closes
<1>4. Rest \in Seq(0..Len(wire)) /\ Len(Rest) <= dwFwTempBuffMaxSize \div 2
  <2>1. PICK h \in Int : h = dwFwTempBuffMaxSize \div 2
    <3>1. dwFwTempBuffMaxSize \in Nat
      BY RoomType, Numbers
    <3> QED
      BY <3>1, Dividing
  <2>2. Len(fw) <= h
    BY <2>1 DEF Typed, Streams
  <2>3. Rest \in Seq(0..Len(wire)) /\ Len(Rest) = Len(fw) - Piece /\ Len(fw) \in Nat /\ Piece \in Nat
    BY PieceIs
  <2> QED
    BY <2>1, <2>2, <2>3
<1>5. Streams'
  BY <1>1, <1>2, <1>3, <1>4, SamePage DEF Handed, Typed, Streams, wData
<1>6. Flags'
  BY <1>2, <1>3 DEF Handed, Typed, Flags
<1> QED
  BY <1>5, <1>6 DEF Typed

LEMMA PageScanTyped ==
  ASSUME Typed, PageScan \/ PageScanRefused
  PROVE  Typed'
<1>1. /\ device' = device /\ done' = done /\ kept' = kept /\ fw' = fw /\ lRealY' = lRealY
      /\ state' = state /\ out' = out /\ ended' = ended /\ scans' = scans /\ faults' = faults
  BY DEF PageScan, PageScanRefused
<1>2. Streams'
  BY <1>1, SamePage DEF Typed, Streams, device, wData
<1>3. Flags'
  <2>1. CASE PageScan
    <3>1. maxlen' \in Nat
      BY <2>1, ScansAssumption DEF PageScan
    <3> QED
      BY <1>1, <2>1, <3>1 DEF PageScan, Typed, Flags, state, Answers
  <2>2. CASE PageScanRefused
    <3>1. rc' \in Results
      BY <2>2 DEF PageScanRefused, Results, Errors
    <3> QED
      BY <1>1, <2>2, <3>1 DEF PageScanRefused, Typed, Flags, state, call
  <2> QED
    BY <2>1, <2>2
<1> QED
  BY <1>2, <1>3 DEF Typed

LEMMA NewWidth ==
  ASSUME PageOK'
  PROVE  OutWidth' \in Nat
<1>1. PICK s \in Scans : s = scan'
  BY DEF PageOK
<1>2. s.width \in Nat
  BY ScansAssumption
<1>3. OutWidth' = IF s.colour THEN 3 * s.width ELSE s.width
  BY <1>1 DEF OutWidth
<1> QED
  BY <1>2, <1>3

\* Nothing is left of the page: any other may follow.
LEMMA ForgetTyped ==
  ASSUME Forget, PageOK'
  PROVE  /\ Streams' /\ pc' = "out" /\ maxlen' \in Nat /\ nAnswer' \in Answers
         /\ ended' \in {"no", "status", "fallback", "silence"}
<1>1. Len(wire') \in Nat /\ 0 \in 0..Len(wire')
  <2>1. PICK s, p : s \in Scans /\ s = scan' /\ p = page' /\ p \in 1..Len(s.pages)
    BY DEF PageOK
  <2>2. s.pages \in Seq(Seq(0..(Base - 1)))
    BY <2>1, ScansAssumption
  <2>3. s.pages[p] \in Seq(0..(Base - 1))
    BY <2>1, <2>2
  <2>4. wire' = s.pages[p]
    BY <2>1 DEF wire
  <2> QED
    BY <2>3, <2>4
<1>2. dwFwTempBuffMaxSize' \div 2 \in Nat
  <2>1. PICK w \in Nat : w = OutWidth'
    BY NewWidth
  <2>2. PICK z \in Nat : z = dwFwTempBuffMaxSize'
    <3>1. dwFwTempBuffMaxSize' = Most(12 * w, InBuffSize)
      BY <2>1 DEF dwFwTempBuffMaxSize, Most
    <3>2. 12 * w \in Nat /\ InBuffSize \in Nat
      BY SizesAssumption
    <3> QED
      BY <3>1, <3>2 DEF Most
  <2>3. z \div 2 \in Nat
    OBVIOUS
  <2> QED
    BY <2>2, <2>3
<1>3. /\ sent' = 0 /\ done' = 0 /\ kept' = 0 /\ fw' = <<>> /\ out' = <<>>
  BY DEF Forget
<1>4. wData' = 0
  BY <1>3 DEF wData
<1>5. <<>> \in Seq(0..Len(wire')) /\ Len(<<>>) = 0
  OBVIOUS
<1>6. Streams'
  BY <1>1, <1>2, <1>3, <1>4, <1>5 DEF Streams
<1> QED
  BY <1>6 DEF Forget, Answers

LEMMA ScanStartTyped ==
  ASSUME Typed, ScanStart
  PROVE  Typed'
<1>1. scans' \in 0..MaxScans /\ bReadbufEnd' = FALSE /\ bEOF' = FALSE /\ lRealY' = 0
  BY Numbers DEF ScanStart, Typed, Flags, NewPage
<1>2. CASE scan' \in Scans /\ page' = 1 /\ NewPage /\ nPageCnt' = 1 /\ bScanning' = TRUE
           /\ iProcessEnd' = "none" /\ rc' = "started" /\ UNCHANGED faults
  <2>1. PageOK'
    <3>1. PICK s \in Scans : s = scan'
      BY <1>2
    <3>2. s.pages \in Seq(Seq(0..(Base - 1))) /\ s.pages # <<>>
      BY ScansAssumption
    <3>3. 1 \in 1..Len(s.pages)
      BY <3>2, EmptySeq
    <3> QED
      BY <1>2, <3>1, <3>3 DEF PageOK
  <2>2. /\ Streams' /\ pc' = "out" /\ maxlen' \in Nat /\ nAnswer' \in Answers
        /\ ended' \in {"no", "status", "fallback", "silence"}
    BY <1>2, <2>1, ForgetTyped DEF NewPage
  <2>3. Flags'
    BY <1>1, <1>2, <2>2 DEF Typed, Flags, Results
  <2> QED
    BY <2>2, <2>3 DEF Typed
<1>3. CASE /\ faults < MaxFaults /\ faults' = faults + 1
           /\ nPageCnt' \in {0, 1} /\ rc' = "failed"
           /\ UNCHANGED <<device, done, kept, fw, bScanning, iProcessEnd, call, out, ended>>
  <2>1. Streams'
    BY <1>3, SamePage DEF Typed, Streams, device, wData
  <2>2. faults' \in 0..MaxFaults
    BY <1>3, Numbers DEF Typed, Flags
  <2>3. rc' \in Results /\ nPageCnt' \in Nat
    BY <1>3 DEF Results
  <2>4. Flags'
    BY <1>1, <1>3, <2>2, <2>3 DEF Typed, Flags, call
  <2> QED
    BY <2>1, <2>4 DEF Typed
<1> QED
  BY <1>2, <1>3 DEF ScanStart

LEMMA NextPageTyped ==
  ASSUME Typed, NextPage
  PROVE  Typed'
<1>1. /\ scans' \in 0..MaxScans /\ bReadbufEnd' = FALSE /\ bEOF' = FALSE /\ lRealY' = 0
      /\ nPageCnt' \in Nat /\ scan' = scan /\ bScanning' = bScanning /\ Forget
  BY Numbers DEF NextPage, Typed, Flags, NewPage
<1>2. /\ page' = page \/ (page' = page + 1 /\ page < Len(scan.pages))
      /\ iProcessEnd' \in {"none", iProcessEnd} /\ rc' \in {"started", "failed", "no_docs", "busy"}
      /\ faults' = faults \/ (faults < MaxFaults /\ faults' = faults + 1)
  BY DEF NextPage
<1>3. PageOK'
  <2>1. PICK n \in Nat : n = Len(scan.pages) /\ scan \in Scans /\ page \in 1..n
    <3>1. scan \in Scans /\ page \in 1..Len(scan.pages)
      BY DEF Typed, Streams, PageOK
    <3>2. scan.pages \in Seq(Seq(0..(Base - 1)))
      BY <3>1, ScansAssumption
    <3> QED
      BY <3>1, <3>2
  <2>2. page' \in 1..n
    BY <1>2, <2>1
  <2> QED
    BY <1>1, <2>1, <2>2 DEF PageOK
<1>4. /\ Streams' /\ pc' = "out" /\ maxlen' \in Nat /\ nAnswer' \in Answers
      /\ ended' \in {"no", "status", "fallback", "silence"}
  BY <1>1, <1>3, ForgetTyped
<1>5. faults' \in 0..MaxFaults
  BY <1>2, Numbers DEF Typed, Flags
<1>6. rc' \in Results
  BY <1>2 DEF Results, Errors
<1>7. Flags'
  BY <1>1, <1>2, <1>4, <1>5, <1>6 DEF Typed, Flags
<1> QED
  BY <1>4, <1>7 DEF Typed

LEMMA CancelTyped ==
  ASSUME Typed, Cancel
  PROVE  Typed'
<1>1. scan' = scan /\ page' = page /\ Forget
  BY DEF Cancel
<1>2. PageOK'
  BY <1>1, SamePage, Numbers
<1>3. /\ Streams' /\ pc' = "out" /\ maxlen' \in Nat /\ nAnswer' \in Answers
      /\ ended' \in {"no", "status", "fallback", "silence"}
  BY <1>1, <1>2, ForgetTyped
<1>4. Flags'
  BY <1>3 DEF Cancel, Typed, Flags, Results
<1> QED
  BY <1>3, <1>4 DEF Typed

LEMMA StutterTyped ==
  ASSUME Typed, UNCHANGED vars
  PROVE  Typed'
<1>1. Streams'
  BY SamePage DEF vars, device, Typed, Streams, wData
<1>2. Flags'
  BY DEF vars, state, call, Typed, Flags
<1> QED
  BY <1>1, <1>2 DEF Typed

LEMMA StepTyped ==
  ASSUME Typed, [Next]_vars
  PROVE  Typed'
BY ReadTyped, ReadNothingTyped, ProcessTyped, ProcessNothingTyped, DeliverTyped, PageScanTyped,
   ScanStartTyped, NextPageTyped, CancelTyped, StutterTyped DEF Next, Work

LEMMA InitTyped ==
  ASSUME Init
  PROVE  Typed
<1>1. PageOK
  <2>1. PICK s \in Scans : s = scan
    BY DEF Init
  <2>2. s.pages \in Seq(Seq(0..(Base - 1))) /\ s.pages # <<>>
    BY ScansAssumption
  <2>3. 1 \in 1..Len(s.pages)
    BY <2>2, EmptySeq
  <2> QED
    BY <2>1, <2>3 DEF Init, PageOK
<1>2. Len(wire) \in Nat
  BY <1>1, PageType
<1>3. dwFwTempBuffMaxSize \div 2 \in Nat
  <2>1. PICK w \in Nat : w = OutWidth
    BY <1>1, Widths
  <2>2. PICK z \in Nat : z = dwFwTempBuffMaxSize
    BY <2>1, SizesAssumption DEF dwFwTempBuffMaxSize, Most
  <2> QED
    BY <2>2
<1>4. sent = 0 /\ done = 0 /\ kept = 0 /\ fw = <<>> /\ out = <<>>
  BY DEF Init
<1>5. Streams
  <2>1. wData = 0
    BY <1>4 DEF wData
  <2>2. <<>> \in Seq(0..Len(wire)) /\ Len(<<>>) = 0
    OBVIOUS
  <2> QED
    BY <1>1, <1>2, <1>3, <1>4, <2>1, <2>2 DEF Streams
<1>6. Flags
  <2>1. nAnswer \in Answers /\ rc \in Results
    BY DEF Init, Answers, Results
  <2>2. 0 \in 0..MaxScans /\ 0 \in 0..MaxFaults
    BY SizesAssumption
  <2> QED
    BY <2>1, <2>2 DEF Init, Flags
<1> QED
  BY <1>5, <1>6 DEF Typed

-----------------------------------------------------------------------------
(* The receive buffer.                                                     *)

\* What PageScan() subtracts twice is less than what it reserves.
RoomForKept ==
  \A s \in Scans :
    ~s.convert => InBuffSize >= 6 * (IF s.colour THEN 3 * (s.width + 3) ELSE s.width + 3)

Received == wData <= dwRxBuffMaxSize /\ (pc = "read" => wData < nMinReadSize)

LEMMA BufferType ==
  ASSUME PageOK
  PROVE  /\ dwRxBuffMaxSize \in Nat /\ nMinReadSize \in Nat /\ 0 <= nMinReadSize
         /\ RoomForKept /\ ~scan.convert => 2 * nMinReadSize <= dwRxBuffMaxSize
<1>1. PICK r \in Nat, z \in Nat : r = LineRoom /\ z = InBuffSize
  BY Widths, SizesAssumption
<1>2. dwRxBuffMaxSize = (IF 4 * r >= z THEN 4 * r ELSE z) /\ nMinReadSize = 3 * r
  BY <1>1 DEF dwRxBuffMaxSize, Most, nMinReadSize
<1>3. ASSUME RoomForKept, ~scan.convert PROVE z >= 6 * r
  <2>1. scan \in Scans
    BY DEF PageOK
  <2>2. InBuffSize >= 6 * (IF scan.colour THEN 3 * (scan.width + 3) ELSE scan.width + 3)
    BY <1>3, <2>1 DEF RoomForKept
  <2> QED
    BY <1>1, <2>2 DEF LineRoom
<1> QED
  BY <1>1, <1>2, <1>3

LEMMA ReadReceived ==
  ASSUME RoomForKept, Typed, Received, Read
  PROVE  Received'
<1>1. PICK n \in Brought : sent' = sent + n
  BY DEF Read
<1>2. scan' = scan /\ page' = page /\ done' = done /\ n \in Nat
  BY <1>1, BroughtType DEF Read
<1>3. PICK x \in Nat, w \in Nat, k \in Nat, m \in Nat :
        /\ x = dwRxBuffMaxSize /\ w = wData /\ k = kept /\ k <= w /\ m = nMinReadSize
        /\ w < m /\ w <= x /\ (~scan.convert => 2 * m <= x)
  <2>1. /\ dwRxBuffMaxSize \in Nat /\ nMinReadSize \in Nat
        /\ ~scan.convert => 2 * nMinReadSize <= dwRxBuffMaxSize
    BY BufferType, Numbers
  <2>2. kept \in Nat /\ wData \in Nat /\ kept <= wData
    BY Numbers DEF Typed, Streams
  <2>3. wData < nMinReadSize /\ wData <= dwRxBuffMaxSize
    BY DEF Received, Read
  <2> QED
    BY <2>1, <2>2, <2>3
<1>4. PICK z \in Int : z = nReadSize /\ z = x - (k + w)
  BY <1>3 DEF nReadSize
<1>5. n <= z
  <2>1. CASE scan.convert
    <3>1. ~(n > nReadSize)
      BY <1>1, <2>1 DEF Brought
    <3> QED
      BY <1>2, <1>4, <3>1
  <2>2. CASE ~scan.convert
    <3>1. z >= 0
      BY <1>3, <1>4, <2>2
    <3>2. PICK y \in Nat : y = WordSize /\ y > 0
      BY SizesAssumption
    <3>3. PICK r \in Int : r = z % y /\ r <= z
      <4>1. z \div y \in Int /\ z % y \in Int /\ z = y * (z \div y) + (z % y) /\ z % y < y /\ 0 <= z % y
        BY <3>2, Dividing
      <4>2. PICK q \in Int, r \in Int : q = z \div y /\ r = z % y /\ z = y * q + r /\ r < y
        BY <4>1
      <4>3. q >= 0
        <5>1. q <= -1 => y * q <= -y
          BY <3>2
        <5> QED
          BY <3>1, <3>2, <4>2, <5>1
      <4>4. y * q >= 0
        BY <3>2, <4>3
      <4> QED
        BY <4>2, <4>4
    <3>4. PICK b \in Int : b = Len(wire) - sent
      BY Numbers
    <3>5. n \in 1..Least(r, b)
      <4>1. n \in 1..Least(nReadSize % WordSize, Len(wire) - sent)
        BY <1>1, <2>2 DEF Brought
      <4> QED
        BY <1>4, <3>2, <3>3, <3>4, <4>1
    <3> QED
      BY <1>4, <3>3, <3>5 DEF Least
  <2> QED
    BY <2>1, <2>2
<1>6. wData' = w + n
  BY <1>1, <1>2, <1>3, Numbers DEF wData
<1>7. w + n <= x
  BY <1>2, <1>3, <1>4, <1>5
<1>8. pc' = "read" => ~(w + n >= m)
  BY <1>3, <1>6 DEF Read, wData
<1> QED
  BY <1>2, <1>3, <1>6, <1>7, <1>8, SamePage DEF Received

LEMMA EmptyReceived ==
  ASSUME Forget, Typed'
  PROVE  Received'
<1>1. dwRxBuffMaxSize' \in Nat
  <2>1. PICK w \in Nat : w = LineRoom'
    <3>1. scan' \in Scans
      BY DEF Typed, Streams, PageOK
    <3>2. scan'.width \in Nat
      BY <3>1, ScansAssumption
    <3> QED
      BY <3>2 DEF LineRoom
  <2>2. dwRxBuffMaxSize' = Most(4 * w, InBuffSize)
    BY <2>1 DEF dwRxBuffMaxSize, Most
  <2>3. 4 * w \in Nat /\ InBuffSize \in Nat
    BY SizesAssumption
  <2> QED
    BY <2>2, <2>3 DEF Most
<1>2. wData' = 0 /\ pc' = "out"
  BY DEF Forget, wData
<1> QED
  BY <1>1, <1>2 DEF Received

LEMMA StepReceived ==
  ASSUME RoomForKept, Typed, Received, [Next]_vars
  PROVE  Received'
<1>1. Typed'
  BY StepTyped
<1>2. CASE Read
  BY <1>2, ReadReceived
<1>3. CASE ReadNothing \/ ProcessNothing \/ Deliver \/ PageScanRefused \/ UNCHANGED vars
  <2>1. scan' = scan /\ page' = page /\ sent' = sent /\ done' = done
    BY <1>3 DEF ReadNothing, ProcessNothing, Deliver, PageScanRefused, vars, device
  <2>2. pc' # "read" \/ pc' = pc
    BY <1>3 DEF ReadNothing, ProcessNothing, Deliver, PageScanRefused, vars, call
  <2>3. wData' = wData
    BY <2>1 DEF wData
  <2> QED
    BY <2>1, <2>2, <2>3, SamePage DEF Received
<1>4. CASE Process
  <2>1. PICK d, u : d = Decoded /\ Result(d, u)
    BY DecodedIs, Numbers
  <2>2. d.at - 1 \in done..sent /\ done' = d.at - 1
    BY <1>4, <2>1, ResultType, Numbers DEF Process
  <2>3. scan' = scan /\ page' = page /\ sent' = sent /\ pc' = "deliver"
    BY <1>4 DEF Process, device
  <2>4. PICK x \in Nat : x = dwRxBuffMaxSize
    BY BufferType, Numbers
  <2>5. wData' <= x
    <3>1. done' \in done..sent /\ sent \in Nat /\ done \in Nat /\ sent - done <= x
      BY <2>2, <2>4, Numbers DEF Received
    <3>2. PICK a \in Nat, s \in Nat, b \in Nat : a = done' /\ s = sent /\ b = done /\ b <= a /\ s - b <= x
      BY <3>1
    <3>3. wData' = s - a
      BY <2>3, <3>2 DEF wData
    <3>4. b <= a /\ s - b <= x
      BY <3>2
    <3>5. s - a <= s - b
      BY <3>4
    <3> QED
      BY <3>3, <3>4, <3>5
  <2> QED
    BY <2>3, <2>4, <2>5, SamePage DEF Received
<1>5. CASE PageScan
  <2>1. scan' = scan /\ page' = page /\ sent' = sent /\ done' = done
        /\ (pc' = "read" => ~(wData >= nMinReadSize))
    BY <1>5 DEF PageScan, device
  <2>2. wData' = wData /\ wData \in Nat /\ nMinReadSize \in Nat
    BY <2>1, BufferType, Numbers DEF wData
  <2> QED
    BY <2>1, <2>2, SamePage DEF Received
<1>6. CASE ScanStart
  <2>1. Forget \/ (UNCHANGED device /\ done' = done /\ pc' = "out")
    BY <1>6 DEF ScanStart, NewPage, call
  <2>2. CASE Forget
    BY <1>1, <2>2, EmptyReceived
  <2>3. CASE UNCHANGED device /\ done' = done /\ pc' = "out"
    BY <2>3, SamePage DEF Received, device, wData
  <2> QED
    BY <2>1, <2>2, <2>3
<1>7. CASE NextPage \/ Cancel
  BY <1>1, <1>7, EmptyReceived DEF NextPage, NewPage, Cancel
<1> QED
  BY <1>2, <1>3, <1>4, <1>5, <1>6, <1>7 DEF Next, Work

\* The variables of PageScan() have their types, whatever is scanned: no read
\* is longer than the room behind what the receive buffer has, and what is
\* decoded stays within half of the transmission buffer, if gwInBuffSize has
\* room for two times nMinReadSize in the scans that are not converted.
THEOREM Types ==
  ASSUME RoomForKept
  PROVE  Spec => []TypeOK
<1> DEFINE Inv == Typed /\ Received
<1>1. Init => Inv
  <2> SUFFICES ASSUME Init PROVE Inv
    OBVIOUS
  <2>1. Typed
    BY InitTyped
  <2>2. wData = 0 /\ pc = "out" /\ dwRxBuffMaxSize \in Nat
    BY <2>1, BufferType, Numbers DEF Init, wData
  <2> QED
    BY <2>1, <2>2 DEF Received
<1>2. Inv /\ [Next]_vars => Inv'
  BY StepTyped, StepReceived
<1>3. Inv => TypeOK
  BY TypeOKIs DEF Received
<1> QED
  BY <1>1, <1>2, <1>3, PTL DEF Spec

-----------------------------------------------------------------------------
(* The calls of a page.                                                    *)

Control ==
  /\ pc \in {"read", "process"} => iProcessEnd = "none" /\ nAnswer = "good"
  /\ pc = "read" => ~bReadbufEnd
  /\ pc = "process" /\ wData = 0 => bReadbufEnd
  /\ pc = "deliver" /\ nAnswer \in {"eof", "mps"} =>
       iProcessEnd = nAnswer \/ (nAnswer = "eof" /\ bReadbufEnd /\ wData = 0)
  /\ ended = "status" => iProcessEnd # "none"
  /\ pc = "out" /\ rc = "eof" => fw = <<>> /\ (maxlen >= OutWidth => lRealY >= Height)

\* A Process(), in terms of what it decodes.
Processed(d, answer) ==
  /\ pc = "process" /\ wData > 0
  /\ done' = d.at - 1 /\ fw' = fw \o SubSeq(d.region, 1, d.count) /\ lRealY' = lRealY + d.lines
  /\ nAnswer' = answer
  /\ iProcessEnd' = IF answer \in {"eof", "mps"} THEN answer ELSE iProcessEnd
  /\ ended' = IF answer \notin {"eof", "mps"} THEN ended
              ELSE IF d.answer = "good" THEN "fallback" ELSE "status"
  /\ pc' = "deliver" /\ scan' = scan /\ page' = page /\ sent' = sent /\ out' = out

LEMMA ProcessIs ==
  ASSUME Typed, Process
  PROVE  \E d, u : Result(d, u) /\ Processed(d, Fallback(d.answer, lRealY + d.lines))
<1>1. PICK d, u : d = Decoded /\ Result(d, u)
  BY DecodedIs, Numbers
<1>2. Processed(d, Fallback(d.answer, lRealY + d.lines))
  BY <1>1 DEF Process, Processed, device
<1> QED
  BY <1>1, <1>2

LEMMA DeliverControl ==
  ASSUME Typed, Control, Deliver
  PROVE  Control'
<1>1. Handed /\ (rc' = "eof" => Closes /\ Piece + WhiteBehind * OutWidth = 0)
  BY DeliverIs
<1>2. ASSUME rc' = "eof" PROVE fw' = <<>> /\ (maxlen >= OutWidth => lRealY' >= Height)
  <2>1. Closes /\ Piece = 0 /\ WhiteBehind * OutWidth = 0
    BY <1>1, <1>2, PieceIs, WhiteIs
  <2>2. WhiteBehind = 0
    <3>1. PICK w \in Nat \ {0}, b \in Nat : w = OutWidth /\ b = WhiteBehind
      BY Widths, WhiteIs, Numbers
    <3>2. b # 0 => b * w > 0
      BY <3>1
    <3> QED
      BY <2>1, <3>1, <3>2
  <2>3. lRealY' = lRealY /\ fw' = <<>>
    <3>1. lRealY' = lRealY + WhiteBehind /\ lRealY \in Nat
      BY <2>1, DeliverIs DEF Typed, Flags
    <3> QED
      BY <1>1, <2>1, <2>2, <3>1 DEF Handed, Closes
  <2>4. maxlen >= OutWidth => lRealY >= Height
    <3>1. maxlen \in Nat /\ maxlen - Piece = maxlen
      BY <2>1 DEF Typed, Flags
    <3> QED
      BY <2>2, <3>1, WhiteIs
  <2> QED
    BY <2>3, <2>4
<1>3. OutWidth' = OutWidth /\ maxlen' = maxlen
  BY <1>1, SamePage DEF Handed
<1> QED
  BY <1>1, <1>2, <1>3 DEF Control, Handed

LEMMA StepControl ==
  ASSUME Typed, Control, [Next]_vars
  PROVE  Control'
<1>1. CASE Read
  <2>1. PICK n \in Brought : sent' = sent + n
    BY <1>1 DEF Read
  <2>2. n \in Nat \ {0} /\ sent' \in 0..Len(wire) /\ done' = done
    BY <1>1, <2>1, BroughtType DEF Read
  <2>3. sent' - done > 0 /\ done \in 0..sent'
    BY <2>1, <2>2, Numbers DEF Typed, Streams
  <2>4. StatusSeen \subseteq BOOLEAN
    BY <2>2, <2>3, StatusSeenType, Numbers
  <2>5. PICK seen \in BOOLEAN :
          bReadbufEnd' = seen /\ pc' \in {"read", "process"} /\ (pc' = "read" => ~seen)
    BY <1>1, <2>4 DEF Read
  <2>6. iProcessEnd' = iProcessEnd /\ nAnswer' = nAnswer /\ ended' = ended /\ wData' # 0
    BY <1>1, <2>2, <2>3 DEF Read, wData
  <2> QED
    BY <1>1, <2>5, <2>6 DEF Control, Read
<1>2. CASE ReadNothing
  BY <1>2 DEF Control, ReadNothing
<1>3. CASE Process
  <2>1. PICK d, u : Result(d, u) /\ Processed(d, Fallback(d.answer, lRealY + d.lines))
    BY <1>3, ProcessIs
  <2> QED
    BY <2>1 DEF Control, Processed
<1>4. CASE ProcessNothing
  <2>1. wData' = wData /\ wData = 0 /\ pc = "process" /\ pc' = "deliver" /\ bReadbufEnd' = bReadbufEnd
        /\ iProcessEnd' = iProcessEnd
    BY <1>4 DEF ProcessNothing, device, state, wData
  <2>2. (nAnswer' = "eof" /\ ended' = "silence") \/ (nAnswer' = nAnswer /\ ended' = ended)
    BY <1>4 DEF ProcessNothing
  <2> QED
    BY <2>1, <2>2 DEF Control
<1>5. CASE Deliver
  BY <1>5, DeliverControl
<1>6. CASE PageScan
  <2>1. /\ wData' = wData /\ iProcessEnd' = iProcessEnd /\ bReadbufEnd' = bReadbufEnd /\ ended' = ended
        /\ nAnswer' = IF iProcessEnd = "none" THEN "good" ELSE iProcessEnd
    BY <1>6 DEF PageScan, device, state, wData
  <2>2. /\ pc' \in {"deliver", "process", "read"}
        /\ iProcessEnd # "none" => pc' = "deliver"
        /\ pc' = "process" => bReadbufEnd \/ wData >= nMinReadSize
        /\ pc' = "read" => ~bReadbufEnd
    BY <1>6 DEF PageScan
  <2>3. wData = 0 => ~(wData >= nMinReadSize)
    <3>1. LineRoom \in Nat \ {0}
      BY Widths, Numbers
    <3> QED
      BY <3>1 DEF nMinReadSize
  <2> QED
    BY <2>1, <2>2, <2>3 DEF Control
<1>7. CASE PageScanRefused
  BY <1>7 DEF Control, PageScanRefused, call, state
<1>8. CASE ScanStart
  <2>1. rc' \in {"started", "failed"} /\ pc' = "out" /\ pc = "out"
        /\ (ended' = "no" \/ (ended' = ended /\ iProcessEnd' = iProcessEnd))
    BY <1>8 DEF ScanStart, NewPage, Forget, call
  <2> QED
    BY <2>1 DEF Control
<1>9. CASE NextPage
  <2>1. rc' \in {"started", "failed", "no_docs", "busy"} /\ pc' = "out" /\ ended' = "no"
    BY <1>9 DEF NextPage, NewPage, Forget
  <2> QED
    BY <2>1 DEF Control
<1>10. CASE Cancel
  BY <1>10 DEF Control, Cancel, Forget
<1>11. CASE UNCHANGED vars
  <2>1. wData' = wData /\ OutWidth' = OutWidth
    BY <1>11, SamePage DEF vars, device, wData
  <2> QED
    BY <1>11, <2>1 DEF Control, vars, call, state
<1> QED
  BY <1>1, <1>2, <1>3, <1>4, <1>5, <1>6, <1>7, <1>8, <1>9, <1>10, <1>11 DEF Next, Work

-----------------------------------------------------------------------------
(* The page as far as it was decoded.                                      *)

\* The lines s were decoded and nothing else, or the status behind them also,
\* which ends the page. What the frontend has and will be given next are these
\* lines, and white behind them once the page has ended.
Behind(s) ==
  \/ done = End(0, s) /\ (scan.colour => Len(s) % 3 = 0) /\ ended # "status"
  \/ /\ done = End(0, s) + 1 /\ IsStatus(wire[done])
     /\ iProcessEnd # "none" \/ (pc = "deliver" /\ nAnswer \notin {"good", "eof", "mps"})
Shown(s) ==
  /\ lRealY >= Len(LinesOf(s))
  /\ out \o fw = Picture(LinesOf(s)) \o Times((lRealY - Len(LinesOf(s))) * OutWidth, 0)
  /\ lRealY # Len(LinesOf(s)) =>
       lRealY <= Height /\ (iProcessEnd # "none" \/ (bReadbufEnd /\ wData = 0))
Sofar(s) == Chain(0, s) /\ Behind(s) /\ (NoWhite(0, s) => Shown(s))

Pages == PageOpen => \E s : Sofar(s)

\* What is said of lines is said of the page.
LEMMA SameLines ==
  ASSUME scan' = scan, page' = page, NEW s
  PROVE  /\ Chain(0, s)' <=> Chain(0, s)
         /\ End(0, s)' = End(0, s) /\ (NoWhite(0, s)' <=> NoWhite(0, s))
         /\ LinesOf(s)' = LinesOf(s) /\ Picture(LinesOf(s))' = Picture(LinesOf(s))
<1>1. wire' = wire /\ OutWidth' = OutWidth
  BY SamePage
<1>2. ASSUME NEW k, NEW l PROVE LineLength(k, l)' = LineLength(k, l)
  <2>1. ASSUME NEW i PROVE Length(i)' = Length(i)
    BY <1>1 DEF Length
  <2>2. FrameLength(k, l)' = FrameLength(k, l)
    BY <1>1, <2>1 DEF FrameLength
  <2> QED
    BY <1>1, <2>1, <2>2 DEF LineLength
<1>3. ASSUME NEW k, NEW l PROVE IsLine(k, l)' <=> IsLine(k, l)
  BY <1>1, <1>2 DEF IsLine, IsStatus
<1>4. Chain(0, s)' <=> Chain(0, s)
  BY <1>3 DEF Chain, Place
<1>5. End(0, s)' = End(0, s) /\ (NoWhite(0, s)' <=> NoWhite(0, s))
  BY DEF End, NoWhite, Place
<1>6. LinesOf(s)' = LinesOf(s)
  BY DEF LinesOf
<1>7. Picture(LinesOf(s))' = Picture(LinesOf(s))
  BY <1>1, <1>6 DEF Picture
<1> QED
  BY <1>4, <1>5, <1>6, <1>7

\* A step that decodes nothing and hands nothing out.
LEMMA PageKept ==
  ASSUME Typed, Pages, PageOpen, scan' = scan, page' = page, done' = done, ended' # "status" \/ ended' = ended,
         lRealY' = lRealY, out' \o fw' = out \o fw, iProcessEnd' = iProcessEnd,
         pc = "deliver" => nAnswer \in {"good", "eof", "mps"},
         iProcessEnd = "none" /\ bReadbufEnd /\ wData = 0 => bReadbufEnd' /\ wData' = 0
  PROVE  Pages'
<1>1. PICK s : Sofar(s)
  BY DEF Pages
<1>2. wire' = wire /\ OutWidth' = OutWidth
  BY SamePage
<1>3. Behind(s)'
  BY <1>1, <1>2, SameLines DEF Sofar, Behind, IsStatus
<1>4. Shown(s) => Shown(s)'
  BY <1>2, SameLines DEF Shown, Times
<1>5. Sofar(s)'
  BY <1>1, <1>3, <1>4, SameLines DEF Sofar
<1> QED
  BY <1>5 DEF Pages

LEMMA NoWhiteJoined ==
  ASSUME NEW p \in Nat, NEW s \in Seq(Nat), NEW t \in Seq(Nat), NoWhite(p, s \o t)
  PROVE  NoWhite(p, s) /\ NoWhite(End(p, s), t)
<1>1. PICK m \in Nat, n \in Nat : m = Len(s) /\ n = Len(t)
  OBVIOUS
<1>2. PICK u \in Seq(Nat) :
        /\ u = s \o t /\ Len(u) = m + n
        /\ \A i \in 1..(m + n) : u[i] = IF i <= m THEN s[i] ELSE t[i - m]
  <2>1. /\ s \o t \in Seq(Nat) /\ Len(s \o t) = Len(s) + Len(t)
        /\ \A i \in 1..(Len(s) + Len(t)) : (s \o t)[i] = IF i <= Len(s) THEN s[i] ELSE t[i - Len(s)]
    BY <1>1, ConcatProperties
  <2> QED
    BY <1>1, <2>1
<1>3. ASSUME NEW i \in 1..(m + 1) PROVE Place(p, u, i) = Place(p, s, i)
  BY <1>1, <1>2, <1>3 DEF Place
<1>4. ASSUME NEW i \in 1..(n + 1) PROVE Place(p, u, m + i) = Place(End(p, s), t, i)
  <2>1. CASE i = 1
    <3>1. m + 1 \in 1..(m + 1)
      OBVIOUS
    <3> QED
      BY <1>1, <1>3, <2>1, <3>1 DEF Place, End
  <2>2. CASE i # 1
    <3>1. PICK j \in 1..(m + n) : j = m + i - 1 /\ ~(j <= m) /\ j - m = i - 1 /\ m + i # 1
      <4>1. m + i - 1 \in 1..(m + n)
        BY <2>2
      <4> QED
        BY <2>2, <4>1
    <3>2. u[j] = t[i - 1]
      BY <1>2, <3>1
    <3> QED
      BY <2>2, <3>1, <3>2 DEF Place
  <2> QED
    BY <2>1, <2>2
<1>5. \A i \in 1..(m + n) : u[i] # Place(p, u, i) + 1
  BY <1>2 DEF NoWhite
<1>6. ASSUME NEW i \in 1..m PROVE s[i] # Place(p, s, i) + 1
  <2>1. i \in 1..(m + n) /\ i \in 1..(m + 1) /\ i <= m
    OBVIOUS
  <2> QED
    BY <1>2, <1>3, <1>5, <2>1
<1>7. ASSUME NEW i \in 1..n PROVE t[i] # Place(End(p, s), t, i) + 1
  <2>1. PICK j \in 1..(m + n) : j = m + i /\ ~(j <= m) /\ j - m = i /\ i \in 1..(n + 1)
    <3>1. m + i \in 1..(m + n)
      OBVIOUS
    <3> QED
      BY <3>1
  <2>2. u[j] = t[i] /\ Place(p, u, j) = Place(End(p, s), t, i)
    BY <1>2, <1>4, <2>1
  <2>3. u[j] # Place(p, u, j) + 1
    BY <1>5
  <2> QED
    BY <2>2, <2>3
<1> QED
  BY <1>1, <1>6, <1>7 DEF NoWhite

LEMMA Associated ==
  ASSUME NEW s \in Seq(Nat), NEW t \in Seq(Nat), NEW u \in Seq(Nat)
  PROVE  s \o (t \o u) = (s \o t) \o u
<1>1. (s \o t) \o u = s \o (t \o u)
  BY ConcatAssociative
<1> QED
  BY <1>1

\* The lines s and the lines u behind them.
LEMMA PageGrows ==
  ASSUME Typed, NEW s, Chain(0, s), Shown(s), lRealY = Len(LinesOf(s)),
         scan.colour => Len(s) % 3 = 0,
         NEW u \in Seq(Nat), NEW d, Drawn(d, u), NoWhite(done, u)
  PROVE  /\ lRealY + d.lines = Len(LinesOf(s \o u))
         /\ out \o (fw \o SubSeq(d.region, 1, d.count)) = Picture(LinesOf(s \o u))
<1>1. s \in Seq(Nat) /\ PageOK /\ Len(wire) \in Nat /\ sent \in 0..Len(wire)
  BY Numbers DEF Chain, Typed, Streams
<1>2. /\ LinesOf(s) \in Seq(Nat) /\ LinesOf(u) \in Seq(Nat)
      /\ LinesOf(s \o u) = LinesOf(s) \o LinesOf(u)
  BY <1>1, LinesOfType, LinesJoined
<1>3. Len(LinesOf(s \o u)) = Len(LinesOf(s)) + Len(LinesOf(u))
  BY <1>2, ConcatType
<1>4. d.region = Picture(LinesOf(u)) /\ d.count = Len(d.region) /\ d.lines = Len(LinesOf(u))
  BY DEF Drawn
<1>5. SubSeq(d.region, 1, d.count) = Picture(LinesOf(u))
  <2>1. Picture(LinesOf(u)) \in Seq(Nat)
    BY <1>1, <1>2, PictureType
  <2> QED
    BY <1>4, <2>1, SubSeqFull
<1>6. out \o fw = Picture(LinesOf(s))
  <2>1. lRealY - Len(LinesOf(s)) = 0
    BY DEF Typed, Flags
  <2>2. 0 * OutWidth = 0
    BY <1>1, Widths
  <2>3. Times(0, 0) = <<>>
    <3>1. Times(0, 0) \in Seq(Nat) /\ Len(Times(0, 0)) = 0
      BY TimesType
    <3> QED
      BY <3>1, EmptySeq
  <2>4. Picture(LinesOf(s)) \in Seq(Nat)
    BY <1>1, <1>2, PictureType
  <2>5. Picture(LinesOf(s)) \o <<>> = Picture(LinesOf(s))
    BY <2>4, ConcatEmptySeq
  <2>6. out \o fw = Picture(LinesOf(s)) \o Times((lRealY - Len(LinesOf(s))) * OutWidth, 0)
    BY DEF Shown
  <2> QED
    BY <2>1, <2>2, <2>3, <2>5, <2>6
<1>7. out \o (fw \o Picture(LinesOf(u))) = (out \o fw) \o Picture(LinesOf(u))
  <2>1. out \in Seq(Nat) /\ fw \in Seq(Nat)
    BY <1>1, SeqOfNat DEF Typed, Streams
  <2>2. Picture(LinesOf(u)) \in Seq(Nat)
    BY <1>1, <1>2, PictureType
  <2> QED
    BY <2>1, <2>2, Associated
<1>8. Picture(LinesOf(s \o u)) = Picture(LinesOf(s)) \o Picture(LinesOf(u))
  BY <1>1, <1>2, PictureJoined
<1>9. lRealY + d.lines = Len(LinesOf(s \o u))
  BY <1>3, <1>4
<1> QED
  BY <1>5, <1>6, <1>7, <1>8, <1>9

LEMMA ProcessPages ==
  ASSUME Typed, Control, Pages, Process
  PROVE  Pages'
<1>1. PICK d, u : Result(d, u) /\ Processed(d, Fallback(d.answer, lRealY + d.lines))
  BY ProcessIs
<1> DEFINE answer == Fallback(d.answer, lRealY + d.lines)
<1>2. /\ pc = "process" /\ wData > 0 /\ pc' = "deliver" /\ nAnswer' = answer
      /\ iProcessEnd' = IF answer \in {"eof", "mps"} THEN answer ELSE iProcessEnd
      /\ ended' = IF answer \notin {"eof", "mps"} THEN ended
                  ELSE IF d.answer = "good" THEN "fallback" ELSE "status"
  BY <1>1 DEF Processed
<1>3. /\ done' = d.at - 1 /\ fw' = fw \o SubSeq(d.region, 1, d.count) /\ lRealY' = lRealY + d.lines
      /\ scan' = scan /\ page' = page /\ sent' = sent /\ out' = out
  BY <1>1 DEF Processed
<1>4. iProcessEnd = "none" /\ ended # "status" /\ PageOpen
  BY <1>2 DEF Control, PageOpen
<1>5. PICK s : Sofar(s)
  BY <1>4 DEF Pages
<1>6. /\ Chain(0, s) /\ done = End(0, s) /\ (scan.colour => Len(s) % 3 = 0)
      /\ (NoWhite(0, s) => Shown(s))
  BY <1>2, <1>4, <1>5 DEF Sofar, Behind
<1>7. PageOK /\ Chain(done, u) /\ Drawn(d, u) /\ s \in Seq(Nat) /\ u \in Seq(Nat)
  BY <1>1, <1>6, Numbers DEF Result, Chain
<1>8. PICK v : v = s \o u
  OBVIOUS
<1>9. Chain(0, v) /\ End(0, v) = End(done, u) /\ Len(v) = Len(s) + Len(u)
  BY <1>6, <1>7, <1>8, ChainJoined
<1>10. PICK e \in Nat : e = End(done, u)
  <2>1. done \in Nat /\ done <= Len(wire)
    BY Numbers DEF Typed, Streams
  <2>2. End(done, u) \in Nat
    BY <1>7, <2>1, ChainType
  <2> QED
    BY <2>2
<1>11. ASSUME NoWhite(0, v)
       PROVE  /\ lRealY' = Len(LinesOf(v)) /\ out' \o fw' = Picture(LinesOf(v))
  <2>1. NoWhite(0, s) /\ NoWhite(done, u)
    BY <1>6, <1>7, <1>8, <1>11, NoWhiteJoined
  <2>2. Shown(s) /\ lRealY = Len(LinesOf(s))
    BY <1>2, <1>4, <1>6, <2>1 DEF Shown
  <2>3. /\ lRealY + d.lines = Len(LinesOf(s \o u))
        /\ out \o (fw \o SubSeq(d.region, 1, d.count)) = Picture(LinesOf(s \o u))
    BY <1>6, <1>7, <2>1, <2>2, PageGrows
  <2> QED
    BY <1>3, <1>8, <2>3
<1>12. Behind(v)'
  <2>1. wire' = wire /\ End(0, v)' = e /\ scan' = scan
    BY <1>3, <1>9, <1>10, SamePage, SameLines
  <2>2. CASE d.answer = "good" /\ d.at = End(done, u) + 1 /\ (scan.colour => Len(u) % 3 = 0)
    <3>1. done' = e
      BY <1>3, <1>10, <2>2
    <3>2. scan.colour => Len(v) % 3 = 0
      <4>1. PICK a \in Nat, b \in Nat : a = Len(s) /\ b = Len(u)
        BY <1>7
      <4>2. a % 3 = 0 /\ b % 3 = 0 => (a + b) % 3 = 0
        OBVIOUS
      <4> QED
        BY <1>6, <1>9, <2>2, <4>1, <4>2
    <3>3. ended' # "status"
      BY <1>2, <1>4, <2>2
    <3> QED
      BY <2>1, <3>1, <3>2, <3>3 DEF Behind
  <2>3. CASE /\ StatusAt(End(done, u) + 1)
             /\ d.answer = Answer[wire[End(done, u) + 1]] /\ d.at = End(done, u) + 2
    <3>1. done' = e + 1
      BY <1>3, <1>10, <2>3
    <3>2. IsStatus(wire[e + 1])
      BY <1>10, <2>3 DEF StatusAt
    <3>3. d.answer \in Range(Answer)
      BY <1>10, <2>3, <3>2 DEF IsStatus, Range
    <3>4. d.answer \in {"eof", "mps", "cancel", "nodoc", "docjam", "cover_open", "service_err"}
      BY <3>3, SizesAssumption
    <3>5. answer = d.answer
      BY <3>4 DEF Fallback
    <3>6. iProcessEnd' # "none" \/ (pc' = "deliver" /\ nAnswer' \notin {"good", "eof", "mps"})
      BY <1>2, <3>4, <3>5
    <3>7. IsStatus(wire[done])'
      BY <2>1, <3>1, <3>2 DEF IsStatus
    <3> QED
      BY <2>1, <3>1, <3>6, <3>7 DEF Behind
  <2> QED
    BY <1>1, <2>2, <2>3 DEF Result
<1>13. NoWhite(0, v)' => Shown(v)'
  <2> SUFFICES ASSUME NoWhite(0, v)' PROVE Shown(v)'
    OBVIOUS
  <2>1. NoWhite(0, v) /\ LinesOf(v)' = LinesOf(v) /\ Picture(LinesOf(v))' = Picture(LinesOf(v))
        /\ OutWidth' = OutWidth
    BY <1>3, SameLines, SamePage
  <2>2. lRealY' = Len(LinesOf(v)) /\ out' \o fw' = Picture(LinesOf(v))
    BY <1>11, <2>1
  <2>3. LinesOf(v) \in Seq(Nat) /\ Len(LinesOf(v)) \in Nat
    BY <1>7, <1>9, LinesOfType DEF Chain
  <2>4. (Len(LinesOf(v)) - Len(LinesOf(v))) * OutWidth' = 0
    <3>1. PICK w \in Nat, n \in Nat : w = OutWidth' /\ n = Len(LinesOf(v))
      BY <1>7, <2>1, <2>3, Widths
    <3>2. (n - n) * w = 0
      OBVIOUS
    <3> QED
      BY <3>1, <3>2
  <2>5. Picture(LinesOf(v)) \o Times(0, 0) = Picture(LinesOf(v))
    <3>1. Times(0, 0) \in Seq(Nat) /\ Len(Times(0, 0)) = 0
      BY TimesType
    <3>2. Times(0, 0) = <<>>
      BY <3>1, EmptySeq
    <3>3. Picture(LinesOf(v)) \in Seq(Nat)
      BY <1>7, <2>3, PictureType
    <3> QED
      BY <3>2, <3>3, ConcatEmptySeq
  <2> QED
    BY <2>1, <2>2, <2>3, <2>4, <2>5 DEF Shown, Times
<1>14. Sofar(v)'
  BY <1>3, <1>9, <1>12, <1>13, SameLines DEF Sofar
<1> QED
  BY <1>14 DEF Pages

\* What is behind the lines is white.
LEMMA DeliverPages ==
  ASSUME Typed, Control, Pages, Deliver
  PROVE  Pages'
<1>1. Handed /\ pc = "deliver" /\ pc' = "out" /\ PageOpen
  BY DeliverIs DEF Handed, PageOpen
<1>2. SUFFICES ASSUME PageOpen' PROVE Pages'
  BY DEF Pages
<1>3. nAnswer \in {"eof", "mps", "good"}
  BY <1>1, <1>2, DeliverIs DEF PageOpen
<1>4. /\ scan' = scan /\ page' = page /\ sent' = sent /\ done' = done /\ fw' = Rest
      /\ bReadbufEnd' = bReadbufEnd /\ iProcessEnd' = iProcessEnd /\ ended' = ended
      /\ wData' = wData
  BY <1>1 DEF Handed, wData
<1>5. /\ out \in Seq(Nat) /\ fw \in Seq(Nat) /\ Rest \in Seq(Nat) /\ SubSeq(fw, 1, Piece) \in Seq(Nat)
      /\ SubSeq(fw, 1, Piece) \o Rest = fw
  <2>1. PICK n \in Nat : n = Len(wire)
    BY Numbers
  <2>2. /\ out \in Seq(0..n) /\ fw \in Seq(0..n) /\ Rest \in Seq(0..n)
        /\ SubSeq(fw, 1, Piece) \in Seq(0..n) /\ SubSeq(fw, 1, Piece) \o Rest = fw
    BY <2>1, PieceIs DEF Typed, Streams
  <2> QED
    BY <2>2, SeqOfNat
<1>6. CASE Stays
  <2>1. out' = out \o SubSeq(fw, 1, Piece) /\ lRealY' = lRealY
    BY <1>6, DeliverIs
  <2>2. out \o (SubSeq(fw, 1, Piece) \o Rest) = (out \o SubSeq(fw, 1, Piece)) \o Rest
    BY <1>5, Associated
  <2>3. out' \o fw' = out \o fw
    BY <1>4, <1>5, <2>1, <2>2
  <2> QED
    BY <1>1, <1>3, <1>4, <2>1, <2>3, PageKept
<1>7. CASE Closes
  <2>1. PICK s : Sofar(s)
    BY <1>1 DEF Pages
  <2>2. PageOK /\ Chain(0, s) /\ s \in Seq(Nat)
    BY <2>1, Numbers DEF Sofar, Chain
  <2>3. Rest = <<>> /\ nAnswer \in {"eof", "mps"}
    BY <1>7 DEF Closes
  <2>4. /\ out' = out \o fw \o Times(WhiteBehind * OutWidth, 0) /\ lRealY' = lRealY + WhiteBehind
    BY <1>7, DeliverIs
  <2>5. Behind(s)'
    <3>1. wire' = wire
      BY <1>4, SamePage
    <3>2. Behind(s)
      BY <2>1 DEF Sofar
    <3>3. End(0, s)' = End(0, s)
      BY <1>4, SameLines
    <3> QED
      BY <1>3, <1>4, <3>1, <3>2, <3>3 DEF Behind, IsStatus
  <2>6. ASSUME NoWhite(0, s) PROVE Shown(s)'
    <3>1. Shown(s)
      BY <2>1, <2>6 DEF Sofar
    <3>2. /\ LinesOf(s)' = LinesOf(s) /\ Picture(LinesOf(s))' = Picture(LinesOf(s))
          /\ OutWidth' = OutWidth
      BY <1>4, SameLines, SamePage
    <3>3. LinesOf(s) \in Seq(Nat) /\ Picture(LinesOf(s)) \in Seq(Nat)
      BY <2>2, LinesOfType, PictureType
    <3>4. PICK n \in Nat, g \in Nat, b \in Nat, w \in Nat \ {0} :
            n = Len(LinesOf(s)) /\ g = lRealY /\ b = WhiteBehind /\ w = OutWidth /\ n <= g
      <4>1. lRealY >= Len(LinesOf(s))
        BY <3>1 DEF Shown
      <4>2. lRealY \in Nat
        BY DEF Typed, Flags
      <4>3. Len(LinesOf(s)) \in Nat
        BY <3>3
      <4>4. WhiteBehind \in Nat
        BY WhiteIs
      <4>5. OutWidth \in Nat \ {0}
        BY <2>2, Widths
      <4> QED
        BY <4>1, <4>2, <4>3, <4>4, <4>5
    <3>5. PICK x \in Nat, y \in Nat : x = (g - n) * w /\ y = b * w /\ (g + b - n) * w = x + y
      <4>1. PICK r \in Nat : r = g - n
        BY <3>4
      <4>2. g + b - n = r + b /\ (r + b) * w = r * w + b * w /\ r * w \in Nat /\ b * w \in Nat
        BY <4>1
      <4> QED
        BY <4>1, <4>2
    <3>6. out \o fw = Picture(LinesOf(s)) \o Times(x, 0)
      BY <3>1, <3>4, <3>5 DEF Shown
    <3>7. (out \o fw) \o Times(y, 0) = Picture(LinesOf(s)) \o Times(x + y, 0)
      <4>1. Times(x, 0) \in Seq(Nat) /\ Times(y, 0) \in Seq(Nat)
        BY TimesType
      <4>2. Picture(LinesOf(s)) \o (Times(x, 0) \o Times(y, 0))
              = (Picture(LinesOf(s)) \o Times(x, 0)) \o Times(y, 0)
        BY <3>3, <4>1, Associated
      <4>3. Times(x, 0) \o Times(y, 0) = Times(x + y, 0)
        BY TimesJoined
      <4> QED
        BY <3>6, <4>2, <4>3
    <3>8. out' \o fw' = out'
      <4>1. out \o fw \in Seq(Nat) /\ Times(y, 0) \in Seq(Nat)
        BY <1>5, ConcatType, TimesType
      <4>2. (out \o fw) \o Times(y, 0) \in Seq(Nat)
        BY <4>1, ConcatType
      <4>3. out' = (out \o fw) \o Times(y, 0) /\ fw' = <<>>
        BY <1>4, <2>3, <2>4, <3>4, <3>5
      <4>4. ((out \o fw) \o Times(y, 0)) \o <<>> = (out \o fw) \o Times(y, 0)
        BY <4>2, ConcatEmptySeq
      <4> QED
        BY <4>3, <4>4
    <3>9. out' \o fw' = Picture(LinesOf(s)) \o Times((lRealY' - n) * w, 0)
      <4>1. out' = (out \o fw) \o Times(y, 0) /\ lRealY' = g + b
        BY <2>4, <3>4, <3>5
      <4>2. (lRealY' - n) * w = x + y
        BY <3>5, <4>1
      <4>3. out' = Picture(LinesOf(s)) \o Times(x + y, 0)
        BY <3>7, <4>1
      <4> QED
        BY <3>8, <4>2, <4>3
    <3>10. lRealY' >= n /\ (lRealY' # n => lRealY' <= Height /\ (iProcessEnd # "none" \/ (bReadbufEnd /\ wData = 0)))
      <4>1. b # 0 => g < Height /\ g + b <= Height
        <5>1. Height \in Nat
          BY SizesAssumption
        <5> QED
          BY <3>4, <5>1, WhiteIs
      <4>2. g # n => g <= Height /\ (iProcessEnd # "none" \/ (bReadbufEnd /\ wData = 0))
        BY <3>1, <3>4 DEF Shown
      <4>3. iProcessEnd # "none" \/ (bReadbufEnd /\ wData = 0)
        BY <1>1, <2>3 DEF Control
      <4>4. lRealY' = g + b
        BY <2>4, <3>4
      <4>5. b = 0 => g + b = g
        OBVIOUS
      <4> QED
        BY <3>4, <4>1, <4>2, <4>3, <4>4, <4>5
    <3> QED
      BY <1>4, <3>2, <3>4, <3>9, <3>10 DEF Shown, Times
  <2>7. Sofar(s)'
    BY <1>4, <2>2, <2>5, <2>6, SameLines DEF Sofar
  <2> QED
    BY <2>7 DEF Pages
<1> QED
  BY <1>6, <1>7 DEF Stays, Closes

\* A new page has no lines yet.
LEMMA ForgetPages ==
  ASSUME Forget, PageOK', lRealY' = 0
  PROVE  Pages'
<1>1. <<>> \in Seq(Nat) /\ Len(<<>>) = 0
  OBVIOUS
<1>2. /\ done' = 0 /\ fw' = <<>> /\ out' = <<>> /\ ended' = "no"
  BY DEF Forget
<1>3. Chain(0, <<>>)' /\ End(0, <<>>)' = 0
  BY <1>1 DEF Chain, End, Place
<1>4. Behind(<<>>)'
  BY <1>1, <1>2, <1>3 DEF Behind
<1>5. LinesOf(<<>>)' = <<>>
  <2>1. CASE scan'.colour
    <3>1. LinesOf(<<>>)' = [i \in 1..0 |-> <<>>[3 * i]]
      BY <1>1, <2>1 DEF LinesOf
    <3>2. [i \in 1..0 |-> <<>>[3 * i]] \in [1..0 -> {}]
      OBVIOUS
    <3>3. LinesOf(<<>>)' \in Seq({}) /\ Len(LinesOf(<<>>)') = 0
      BY <3>1, <3>2, FunctionIsSeq
    <3> QED
      BY <3>3, EmptySeq
  <2>2. CASE ~scan'.colour
    BY <2>2 DEF LinesOf
  <2> QED
    BY <2>1, <2>2
<1>6. PICK w \in Nat : w = OutWidth'
  BY NewWidth
<1>7. ASSUME NEW f, NEW n, n = 0 PROVE [i \in 1..n |-> f[i]] = <<>>
  <2>1. [i \in 1..n |-> f[i]] \in [1..0 -> {}]
    BY <1>7
  <2>2. [i \in 1..n |-> f[i]] \in Seq({}) /\ Len([i \in 1..n |-> f[i]]) = 0
    BY <2>1, FunctionIsSeq
  <2> QED
    BY <2>2, EmptySeq
<1>8. Shown(<<>>)'
  <2>1. Picture(LinesOf(<<>>))' = [i \in 1..(0 * w) |-> <<>>[(i - 1) \div w + 1]]
    BY <1>1, <1>5, <1>6 DEF Picture
  <2>2. 0 * w = 0 /\ (0 - 0) * w = 0
    OBVIOUS
  <2>3. [i \in 1..0 |-> <<>>[(i - 1) \div w + 1]] \in [1..0 -> {}]
    OBVIOUS
  <2>4. [i \in 1..0 |-> <<>>[(i - 1) \div w + 1]] \in Seq({})
        /\ Len([i \in 1..0 |-> <<>>[(i - 1) \div w + 1]]) = 0
    BY <2>3, FunctionIsSeq
  <2>5. Picture(LinesOf(<<>>))' = <<>>
    BY <2>1, <2>2, <2>4, EmptySeq
  <2>6. Times(0, 0) = <<>>
    <3>1. Times(0, 0) \in Seq(Nat) /\ Len(Times(0, 0)) = 0
      BY TimesType
    <3> QED
      BY <3>1, EmptySeq
  <2>7. <<>> \o <<>> = <<>>
    BY <1>1, ConcatEmptySeq
  <2>8. Len(LinesOf(<<>>)') = 0 /\ (lRealY' - Len(LinesOf(<<>>)')) * OutWidth' = 0
    BY <1>1, <1>5, <1>6, <2>2
  <2>9. lRealY' >= Len(LinesOf(<<>>)') /\ lRealY' = Len(LinesOf(<<>>)')
    BY <2>8
  <2>10. Times((lRealY' - Len(LinesOf(<<>>)')) * OutWidth', 0) = <<>>
    BY <2>6, <2>8
  <2>11. out' \o fw' = Picture(LinesOf(<<>>))' \o Times((lRealY' - Len(LinesOf(<<>>)')) * OutWidth', 0)
    BY <1>2, <2>5, <2>7, <2>10
  <2> QED
    BY <2>9, <2>11 DEF Shown, Times
<1> QED
  BY <1>3, <1>4, <1>8 DEF Pages, Sofar

LEMMA StepPages ==
  ASSUME Typed, Control, Pages, [Next]_vars
  PROVE  Pages'
<1>1. CASE Read
  <2>1. /\ pc = "read" /\ scan' = scan /\ page' = page /\ done' = done /\ ended' = ended
        /\ lRealY' = lRealY /\ out' = out /\ fw' = fw /\ iProcessEnd' = iProcessEnd
    BY <1>1 DEF Read
  <2>2. ~bReadbufEnd /\ PageOpen
    BY <2>1 DEF Control, PageOpen
  <2> QED
    BY <2>1, <2>2, PageKept
<1>2. CASE ReadNothing
  <2>1. /\ pc = "read" /\ scan' = scan /\ page' = page /\ done' = done /\ ended' = ended
        /\ lRealY' = lRealY /\ out' = out /\ fw' = fw /\ iProcessEnd' = iProcessEnd
    BY <1>2 DEF ReadNothing, device
  <2>2. ~bReadbufEnd /\ PageOpen
    BY <2>1 DEF Control, PageOpen
  <2> QED
    BY <2>1, <2>2, PageKept
<1>3. CASE Process
  BY <1>3, ProcessPages
<1>4. CASE ProcessNothing
  <2>1. /\ pc = "process" /\ scan' = scan /\ page' = page /\ done' = done /\ sent' = sent
        /\ (ended' # "status" \/ ended' = ended) /\ bReadbufEnd' = bReadbufEnd
        /\ lRealY' = lRealY /\ out' = out /\ fw' = fw /\ iProcessEnd' = iProcessEnd
    BY <1>4 DEF ProcessNothing, device, state
  <2>2. wData' = wData /\ PageOpen
    BY <2>1 DEF wData, PageOpen
  <2> QED
    BY <2>1, <2>2, PageKept
<1>5. CASE Deliver
  BY <1>5, DeliverPages
<1>6. CASE PageScan
  <2>1. /\ pc = "out" /\ scan' = scan /\ page' = page /\ done' = done /\ sent' = sent
        /\ ended' = ended /\ bReadbufEnd' = bReadbufEnd /\ rc \in {"started", "good"}
        /\ lRealY' = lRealY /\ out' = out /\ fw' = fw /\ iProcessEnd' = iProcessEnd
    BY <1>6 DEF PageScan, device, state
  <2>2. wData' = wData /\ PageOpen
    BY <2>1 DEF wData, PageOpen
  <2> QED
    BY <2>1, <2>2, PageKept
<1>7. CASE PageScanRefused
  BY <1>7 DEF PageScanRefused, Pages, PageOpen, call
<1>8. CASE ScanStart
  <2>1. (Forget /\ lRealY' = 0) \/ (rc' = "failed" /\ pc' = "out")
    BY <1>8 DEF ScanStart, NewPage, call
  <2>2. Typed'
    BY <1>8, StepTyped
  <2>3. PageOK'
    BY <2>2 DEF Typed, Streams
  <2> QED
    BY <2>1, <2>3, ForgetPages DEF Pages, PageOpen
<1>9. CASE NextPage
  <2>1. NewPage /\ lRealY' = 0
    BY <1>9 DEF NextPage, NewPage
  <2>2. Typed'
    BY <1>9, StepTyped
  <2>3. PageOK'
    BY <2>2 DEF Typed, Streams
  <2> QED
    BY <2>1, <2>3, ForgetPages DEF NewPage
<1>10. CASE Cancel
  BY <1>10 DEF Cancel, Forget, Pages, PageOpen
<1>11. CASE UNCHANGED vars
  <2>1. CASE PageOpen /\ (pc = "deliver" => nAnswer \in {"good", "eof", "mps"})
    <3>1. /\ scan' = scan /\ page' = page /\ done' = done /\ sent' = sent
          /\ ended' = ended /\ bReadbufEnd' = bReadbufEnd
          /\ lRealY' = lRealY /\ out' = out /\ fw' = fw /\ iProcessEnd' = iProcessEnd
      BY <1>11 DEF vars, device, state
    <3>2. wData' = wData
      BY <3>1 DEF wData
    <3> QED
      BY <2>1, <3>1, <3>2, PageKept
  <2>2. CASE ~PageOpen
    BY <1>11, <2>2 DEF Pages, PageOpen, vars, call
  <2>3. CASE PageOpen /\ pc = "deliver" /\ nAnswer \notin {"good", "eof", "mps"}
    <3>1. PICK s : Sofar(s)
      BY <2>3 DEF Pages
    <3>2. /\ scan' = scan /\ page' = page /\ done' = done /\ sent' = sent /\ pc' = pc /\ nAnswer' = nAnswer
          /\ ended' = ended /\ bReadbufEnd' = bReadbufEnd
          /\ lRealY' = lRealY /\ out' = out /\ fw' = fw /\ iProcessEnd' = iProcessEnd
      BY <1>11 DEF vars, device, state, call
    <3>3. wire' = wire /\ OutWidth' = OutWidth /\ wData' = wData
      BY <3>2, SamePage DEF wData
    <3>4. Behind(s)'
      BY <3>1, <3>2, <3>3, SameLines DEF Sofar, Behind, IsStatus
    <3>5. Shown(s) => Shown(s)'
      BY <3>2, <3>3, SameLines DEF Shown, Times
    <3>6. Sofar(s)'
      BY <3>1, <3>2, <3>4, <3>5, SameLines DEF Sofar
    <3> QED
      BY <3>6 DEF Pages
  <2> QED
    BY <2>1, <2>2, <2>3
<1> QED
  BY <1>1, <1>2, <1>3, <1>4, <1>5, <1>6, <1>7, <1>8, <1>9, <1>10, <1>11 DEF Next, Work

-----------------------------------------------------------------------------
(* What the frontend has of the page.                                      *)

\* The lines that were decoded are all lines of the part of the page that was,
\* and, behind a status, of all of the page.
LEMMA SofarIs ==
  ASSUME Typed, NEW s, Sofar(s)
  PROVE  /\ s \in Seq(Nat) /\ LineEnds(done) = s
         /\ ended = "status" => LineEnds(Len(wire)) = s
         /\ NoWhiteLine => Shown(s)
<1>1. /\ PageOK /\ Len(wire) \in Nat /\ done \in Nat /\ done <= Len(wire)
      /\ done \in 0..Len(wire) /\ Len(wire) \in 0..Len(wire)
  <2>1. Len(wire) \in Nat /\ sent \in Nat /\ sent <= Len(wire) /\ done \in Nat /\ done <= sent
    BY Numbers DEF Typed, Streams
  <2>2. done <= Len(wire)
    BY <2>1
  <2> QED
    BY <2>1, <2>2, Numbers
<1>2. Chain(0, s) /\ s \in Seq(Nat) /\ Behind(s)
  BY DEF Sofar, Chain
<1>3. PICK e \in Nat : e = End(0, s)
  <2>1. End(0, s) \in Nat
    BY <1>1, <1>2, ChainType
  <2> QED
    BY <2>1
<1>4. e <= done /\ NoLine(e + 1, done)
  BY <1>1, <1>2, <1>3 DEF Behind, NoLine
<1>5. LineEnds(done) = s
  BY <1>1, <1>2, <1>3, <1>4, LineEndsIs
<1>6. ASSUME ended = "status" PROVE LineEnds(Len(wire)) = s
  <2>1. done = e + 1 /\ IsStatus(wire[e + 1])
    BY <1>2, <1>3, <1>6 DEF Behind
  <2>2. e <= Len(wire) /\ NoLine(e + 1, Len(wire))
    BY <1>1, <2>1 DEF NoLine
  <2> QED
    BY <1>1, <1>2, <1>3, <2>2, LineEndsIs
<1>7. ASSUME NoWhiteLine PROVE Shown(s)
  <2>1. \A i \in DOMAIN s : s[i] # Before(s, i) + 1
    BY <1>5, <1>7 DEF NoWhiteLine
  <2>2. DOMAIN s = 1..Len(s)
    BY <1>2
  <2>3. NoWhite(0, s)
    BY <2>1, <2>2 DEF NoWhite, Before, Place
  <2> QED
    BY <2>3 DEF Sofar
<1> QED
  BY <1>2, <1>5, <1>6, <1>7

LEMMA PagesInOrder ==
  ASSUME Typed, Pages
  PROVE  LinesInOrder
<1> SUFFICES ASSUME PageOpen, NoWhiteLine
             PROVE  /\ lRealY - Len(Lines(done)) >= 0
                    /\ out \o fw = Image(done) \o Times((lRealY - Len(Lines(done))) * OutWidth, 0)
  BY DEF LinesInOrder
<1>1. PICK s : Sofar(s)
  BY DEF Pages
<1>2. s \in Seq(Nat) /\ LineEnds(done) = s /\ Shown(s)
  BY <1>1, SofarIs
<1>3. Lines(done) = LinesOf(s) /\ Image(done) = Picture(LinesOf(s))
  BY <1>2, ImageIs
<1>4. Len(LinesOf(s)) \in Nat /\ lRealY \in Nat
  BY <1>2, LinesOfType, Numbers DEF Typed, Flags
<1> QED
  BY <1>2, <1>3, <1>4 DEF Shown

LEMMA PagesWhole ==
  ASSUME Typed, Control, Pages
  PROVE  WholePage
<1> SUFFICES ASSUME pc = "out", rc = "eof", maxlen >= OutWidth, NoWhiteLine
             PROVE  /\ Len(out) = OutWidth * Most(Height, Len(Lines(done)))
                    /\ ended = "status" => Lines(done) = Lines(Len(wire))
  BY DEF WholePage
<1>1. PICK s : Sofar(s)
  BY DEF Pages, PageOpen
<1>2. /\ s \in Seq(Nat) /\ LineEnds(done) = s /\ Shown(s)
      /\ ended = "status" => LineEnds(Len(wire)) = s
  BY <1>1, SofarIs
<1>3. Lines(done) = LinesOf(s) /\ Lines(Len(wire)) = LinesOf(LineEnds(Len(wire)))
  BY <1>2, ImageIs
<1>4. fw = <<>> /\ lRealY >= Height
  BY DEF Control
<1>5. PICK n \in Nat, g \in Nat, h \in Nat, w \in Nat :
        n = Len(LinesOf(s)) /\ g = lRealY /\ h = Height /\ w = OutWidth
  <2>1. Len(LinesOf(s)) \in Nat /\ LinesOf(s) \in Seq(Nat)
    BY <1>2, LinesOfType, Numbers
  <2>2. OutWidth \in Nat /\ Height \in Nat /\ lRealY \in Nat
    BY Widths, Numbers, SizesAssumption DEF Typed, Flags
  <2> QED
    BY <2>1, <2>2
<1>6. n <= g /\ (g # n => g <= h) /\ h <= g
  BY <1>2, <1>4, <1>5 DEF Shown
<1>7. Most(h, n) = g
  BY <1>6 DEF Most
<1>8. Len(out) = w * g
  <2>1. out = Picture(LinesOf(s)) \o Times((g - n) * w, 0)
    <3>1. out \in Seq(0..Len(wire))
      BY DEF Typed, Streams
    <3>2. out \o <<>> = out
      BY <3>1, ConcatEmptySeq
    <3> QED
      BY <1>2, <1>4, <1>5, <3>2 DEF Shown
  <2>2. PICK x \in Nat : x = (g - n) * w /\ n * w + x = w * g
    <3>1. PICK r \in Nat : r = g - n /\ g = n + r
      BY <1>6
    <3>2. r * w \in Nat /\ n * w + r * w = w * (n + r)
      BY <3>1
    <3> QED
      BY <3>1, <3>2
  <2>3. Picture(LinesOf(s)) \in Seq(Nat) /\ Len(Picture(LinesOf(s))) = n * w
    BY <1>2, <1>5, LinesOfType, PictureType, Numbers
  <2>4. Times(x, 0) \in Seq(Nat) /\ Len(Times(x, 0)) = x
    BY TimesType
  <2>5. Len(Picture(LinesOf(s)) \o Times(x, 0)) = Len(Picture(LinesOf(s))) + Len(Times(x, 0))
    BY <2>3, <2>4, ConcatType
  <2>6. Len(out) = n * w + x
    BY <2>1, <2>2, <2>3, <2>4, <2>5
  <2> QED
    BY <2>2, <2>6
<1> QED
  BY <1>2, <1>3, <1>5, <1>7, <1>8

PageInv == Typed /\ Control /\ Pages

LEMMA PageInvHolds == Spec => []PageInv
<1>1. Init => PageInv
  <2> SUFFICES ASSUME Init PROVE PageInv
    OBVIOUS
  <2>1. Typed
    BY InitTyped
  <2>2. Control /\ Pages
    BY DEF Init, Control, Pages, PageOpen
  <2> QED
    BY <2>1, <2>2 DEF PageInv
<1>2. PageInv /\ [Next]_vars => PageInv'
  BY StepTyped, StepControl, StepPages DEF PageInv
<1> QED
  BY <1>1, <1>2, PTL DEF Spec

\* However a page is cut into reads, batches and the pieces the frontend asks
\* for, sane_read() gives the lines it has decoded in order, each once and at
\* its place, and white behind them, as long as none of them was a white line,
\* for which ProcessMain() moves on without counting.
THEOREM Ordered == Spec => []LinesInOrder
<1>1. PageInv => LinesInOrder
  BY PagesInOrder DEF PageInv
<1> QED
  BY <1>1, PageInvHolds, PTL

\* At EOF the frontend has the height it has asked for, or what the device has
\* sent beyond it, and every line of a page that a status byte has ended, if
\* it asks for a line at least and no line decoded was white.
THEOREM Whole == Spec => []WholePage
<1>1. PageInv => WholePage
  BY PagesWhole DEF PageInv
<1> QED
  BY <1>1, PageInvHolds, PTL

=============================================================================
