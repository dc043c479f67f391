---------------------------- MODULE ScanAreaProofs ----------------------------
(***************************************************************************)
(* For any models, any glass, any answers of the devices and any corners   *)
(* the frontend asks for: the options stay in their ranges, the area sent  *)
(* to the device is on its glass, and the picture has the size that was    *)
(* asked for and that the frontend is told.                                *)
(***************************************************************************)
EXTENDS ScanArea, FiniteSetTheorems, WellFoundedInduction, TLAPS

-----------------------------------------------------------------------------
(* What ChangeResoInit() works out from a job: how many pixels a line made *)
(* has, for any resolutions and any line of the device.                    *)

\* A set of natural numbers has a least one.
LEMMA LeastExists ==
  ASSUME NEW S \in SUBSET Nat, S # {}
  PROVE  Sets!Min(S) \in S /\ \A y \in S : Sets!Min(S) <= y
<1> DEFINE Below == {ss \in Nat \X Nat : ss[1] < ss[2]}
<1>1. IsWellFoundedOn(Below, Nat)
  BY NatLessThanWellFounded DEF OpToRel
<1> HIDE DEF Below
<1>2. PICK m \in S : \A y \in S : <<y, m>> \notin Below
  BY <1>1, WFMin
<1>3. ASSUME NEW y \in S PROVE m <= y
  <2>1. y \in Nat /\ m \in Nat
    OBVIOUS
  <2>2. ~(y < m)
    BY <1>2, <2>1 DEF Below
  <2> QED
    BY <2>1, <2>2
<1> QED
  BY <1>3, Zenon DEF Sets!Min

LEMMA Dividing ==
  ASSUME NEW a \in Int, NEW b \in Int, b > 0
  PROVE  /\ a \div b \in Int /\ a % b \in Int
         /\ a = b * (a \div b) + (a % b) /\ 0 <= a % b /\ a % b < b
  BY SMT

\* Factors and products are compared alike.
LEMMA Products ==
  ASSUME NEW a \in Int, NEW b \in Int, NEW c \in Int, c > 0
  PROVE  /\ a * c \in Int /\ b * c \in Int
         /\ a <= b <=> a * c <= b * c
         /\ a < b <=> a * c < b * c
         /\ a = b <=> a * c = b * c
  BY SMT

\* Two resolutions in lowest terms have the ratio they had.
LEMMA Lowest ==
  ASSUME NEW in \in Nat \ {0}, NEW out \in Nat \ {0}
  PROVE  /\ LowestTerms(in, out).in \in Nat \ {0}
         /\ LowestTerms(in, out).out \in Nat \ {0}
         /\ LowestTerms(in, out).in * out = LowestTerms(in, out).out * in
<1> DEFINE exact == {k \in 1..99 : (k * out) % in = 0}
           least == Sets!Min(exact)
<1>1. CASE exact = {}
  <2>1. LowestTerms(in, out) = [in |-> in, out |-> out]
    BY <1>1 DEF LowestTerms
  <2> QED
    BY <2>1
<1>2. CASE exact # {}
  <2>1. least \in 1..99 /\ (least * out) % in = 0
    <3>1. exact \in SUBSET Nat
      OBVIOUS
    <3>2. least \in exact
      BY <1>2, <3>1, LeastExists
    <3> QED
      BY <3>2
  <2>2. LowestTerms(in, out) = [in |-> least, out |-> (least * out) \div in]
    BY <1>2 DEF LowestTerms
  <2> HIDE DEF least, exact
  <2> DEFINE q == (least * out) \div in
  <2>3. q \in Int /\ least * out = in * q
    <3>1. least * out \in Int
      BY <2>1
    <3> QED
      BY <3>1, <2>1, Dividing
  <2>4. least * out > 0
    BY <2>1
  <2>5. q > 0
    BY <2>3, <2>4
  <2> QED
    BY <2>1, <2>2, <2>3, <2>5
<1> QED
  BY <1>1, <1>2

\* A ratio in lowest terms gives what the resolutions themselves give.
LEMMA RatioKept ==
  ASSUME NEW a \in Nat \ {0}, NEW p \in Nat \ {0}, NEW b \in Nat \ {0}, NEW q \in Nat \ {0},
         a * q = p * b, NEW n \in Nat
  PROVE  (p * n) \div a = (q * n) \div b
<1> DEFINE k == (p * n) \div a
           m == (q * n) \div b
<1>1. k \in Int /\ a * k <= p * n /\ p * n < a * k + a
  <2>1. p * n \in Int
    OBVIOUS
  <2> QED
    BY <2>1, Dividing
<1>2. m \in Int /\ b * m <= q * n /\ q * n < b * m + b
  <2>1. q * n \in Int
    OBVIOUS
  <2> QED
    BY <2>1, Dividing
<1> HIDE DEF k, m
<1>3. /\ b * (a * k) <= b * (p * n) /\ b * (p * n) < b * (a * k + a)
      /\ a * (b * m) <= a * (q * n) /\ a * (q * n) < a * (b * m + b)
  BY <1>1, <1>2
<1>4. b * (p * n) = a * (q * n)
  <2>1. b * (p * n) = (p * b) * n /\ a * (q * n) = (a * q) * n
    OBVIOUS
  <2> QED
    BY <2>1
<1>5. /\ b * (a * k) = k * (a * b) /\ b * (a * k + a) = (k + 1) * (a * b)
      /\ a * (b * m) = m * (a * b) /\ a * (b * m + b) = (m + 1) * (a * b)
      /\ a * b \in Int /\ a * b > 0
  BY <1>1, <1>2
<1>6. k * (a * b) < (m + 1) * (a * b) /\ m * (a * b) < (k + 1) * (a * b)
  <2> DEFINE ka == k * (a * b)  kb == (k + 1) * (a * b)
             ma == m * (a * b)  mb == (m + 1) * (a * b)
             pn == b * (p * n)
  <2>1. ka \in Int /\ kb \in Int /\ ma \in Int /\ mb \in Int /\ pn \in Int
    BY <1>1, <1>2
  <2>2. ka <= pn /\ pn < kb /\ ma <= pn /\ pn < mb
    BY <1>3, <1>4, <1>5
  <2> HIDE DEF ka, kb, ma, mb, pn
  <2>3. ka < mb /\ ma < kb
    BY <2>1, <2>2
  <2> QED
    BY <2>3 DEF ka, kb, ma, mb
<1>7. k < m + 1 /\ m < k + 1
  BY <1>1, <1>2, <1>5, <1>6, Products
<1> QED
  BY <1>1, <1>2, <1>7 DEF k, m

\* A line made has the pixels that the ratio gives, less than a byte of B/W
\* short of it.
LEMMA LineMade ==
  ASSUME NEW job, ~job.long, job.inX \in Nat \ {0}, job.outX \in Nat \ {0},
         job.pixels \in Nat, NEW k \in Nat, job.colour = "BW" => job.pixels = 8 * k
  PROVE  LET b == Setup(job).outBytes
             w == Setup(job).outPixels
         IN  /\ b \in Nat /\ w \in Nat /\ w = OutPixels(job, b)
             /\ job.inX * w <= job.outX * job.pixels
             /\ job.outX * job.pixels < job.inX * (w + 8)
<1> DEFINE x == LowestTerms(job.inX, job.outX)
           b == Setup(job).outBytes
           w == Setup(job).outPixels
<1>1. PICK in \in Nat \ {0}, out \in Nat \ {0}, p \in Nat :
        in = job.inX /\ out = job.outX /\ p = job.pixels
  OBVIOUS
<1>2. x.in \in Nat \ {0} /\ x.out \in Nat \ {0} /\ x.in * out = x.out * in
  BY <1>1, Lowest
<1>3. PICK n \in Nat : n = PlainBytes(job) /\ n = CASE job.colour = "BW" -> k
                                                   [] job.colour = "RGB" -> 3 * p
                                                   [] OTHER -> p
  <2>1. (8 * k + 7) \div 8 = k
    BY SMT
  <2> QED
    BY <1>1, <2>1 DEF PlainBytes
<1>4. b = (x.out * n) \div x.in /\ w = OutPixels(job, b)
  BY <1>3 DEF Setup, OutBytes
<1> HIDE DEF x, w
<1>5. b = (out * n) \div in
  BY <1>2, <1>4, RatioKept
<1> HIDE DEF b
<1>6. b \in Nat /\ in * b <= out * n /\ out * n < in * b + in
  <2>1. out * n \in Nat
    OBVIOUS
  <2>2. b \in Int /\ in * b <= out * n /\ out * n < in * b + in
    BY <1>5, <2>1, Dividing
  <2>3. in * (b + 1) > 0
    BY <2>1, <2>2
  <2>4. b + 1 > 0
    BY <2>2, <2>3
  <2> QED
    BY <2>2, <2>4
<1>7. w \in Nat /\ in * w <= out * p /\ out * p < in * (w + 8)
  <2>1. CASE job.colour = "BW"
    <3>1. n = k /\ p = 8 * k /\ w = 8 * b
      BY <1>1, <1>3, <1>4, <2>1 DEF OutPixels
    <3>2. /\ in * (8 * b) = 8 * (in * b) /\ out * (8 * k) = 8 * (out * k)
          /\ in * (8 * b + 8) = 8 * (in * b + in)
      BY <1>6
    <3>3. in * b \in Nat /\ out * k \in Nat
      BY <1>6
    <3> QED
      BY <1>6, <3>1, <3>2, <3>3
  <2>2. CASE job.colour = "RGB"
    <3>1. n = 3 * p /\ w = b \div 3
      BY <1>1, <1>3, <1>4, <2>2 DEF OutPixels
    <3>2. w \in Nat /\ 3 * w <= b /\ b + 1 <= 3 * w + 3
      BY <1>6, <3>1, SMT
    <3>3. in * (3 * w) <= in * b /\ in * (b + 1) <= in * (3 * w + 3)
      BY <1>6, <3>2, SMT
    <3>4. /\ in * (3 * w) = 3 * (in * w) /\ in * (3 * w + 3) = 3 * (in * w + in)
          /\ out * (3 * p) = 3 * (out * p) /\ in * (b + 1) = in * b + in
          /\ in * (w + 8) = in * w + 8 * in
      BY <1>6, <3>2
    <3>5. in * w \in Nat /\ out * p \in Nat /\ in * b \in Nat
      BY <1>6, <3>2
    <3> QED
      BY <1>6, <3>1, <3>2, <3>3, <3>4, <3>5
  <2>3. CASE job.colour \notin {"BW", "RGB"}
    <3>1. n = p /\ w = b
      BY <1>1, <1>3, <1>4, <2>3 DEF OutPixels
    <3>2. in * (w + 8) = in * w + 8 * in /\ in * w \in Nat
      BY <1>6, <3>1
    <3> QED
      BY <1>6, <3>1, <3>2
  <2> QED
    BY <2>1, <2>2, <2>3
<1> QED
  BY <1>1, <1>4, <1>6, <1>7 DEF b, w

-----------------------------------------------------------------------------
(* Lengths: the options hold them in 65536ths of a millimetre, the area in *)
(* tenths.                                                                 *)

\* The sides a model offers, in tenths.
Sides == {2970, 3556, 2159, 2100, 2120, 2080}

LEMMA ModelSides ==
  ASSUME NEW m
  PROVE  SupportScanAreaWidth(m) \in Sides /\ SupportScanAreaHeight(m) \in Sides
  BY DEF SupportScanAreaWidth, SupportScanAreaHeight, Sides

\* Rounding to the quantum of a range does not leave it.
LEMMA Constrained ==
  ASSUME NEW t \in Sides, NEW w \in Int
  PROVE  Constrain(w, FIX(t)) \in 0..FIX(t) /\ FIX(t) \in Nat
<1>1. t \in Nat /\ t <= 3556
  BY DEF Sides
<1>2. /\ FIX(t) \in Nat /\ 10 * FIX(t) <= 65536 * t /\ 65536 * t < 10 * FIX(t) + 10
      /\ Quant = 6553
  BY <1>1, SMT DEF FIX, Quant
<1> DEFINE within == Lesser(Greater(w, 0), FIX(t))
           k      == (within + 3276) \div 6553
<1>3. within \in Nat /\ within <= FIX(t)
  BY <1>2 DEF Lesser, Greater
<1>4. k \in Nat /\ 6553 * k <= within + 3276
  BY <1>3, SMT
<1>5. Constrain(w, FIX(t)) = k * 6553
  <2>1. Quant \div 2 = 3276
    BY <1>2
  <2> QED
    BY <1>2, <2>1 DEF Constrain
<1> HIDE DEF within, k
<1>6. k <= t
  BY <1>1, <1>2, <1>3, <1>4
<1>7. k * 6553 <= FIX(t)
  BY <1>1, <1>2, <1>4, <1>6
<1> QED
  BY <1>2, <1>4, <1>5, <1>7

\* A corner in its range is a place on the side, and corners keep their order.
LEMMA Measured ==
  ASSUME NEW t \in Sides, NEW v \in 0..FIX(t), NEW w \in 0..FIX(t)
  PROVE  /\ Tenths(Lesser(v, w)) \in Nat /\ Tenths(Greater(v, w)) \in Nat
         /\ Tenths(Lesser(v, w)) <= Tenths(Greater(v, w))
         /\ Tenths(Greater(v, w)) <= t
<1>1. t \in Nat /\ t <= 3556
  BY DEF Sides
<1>2. FIX(t) \in Nat /\ 10 * FIX(t) <= 65536 * t
  BY <1>1, SMT DEF FIX
<1>3. ASSUME NEW i \in Nat, NEW j \in Nat, i <= j, j <= FIX(t)
      PROVE  /\ Tenths(i) \in Nat /\ Tenths(j) \in Nat /\ Tenths(i) <= Tenths(j)
             /\ Tenths(j) <= t
  BY <1>1, <1>2, <1>3, SMT DEF Tenths
<1> QED
  BY <1>2, <1>3 DEF Lesser, Greater

-----------------------------------------------------------------------------
(* The options.                                                            *)

OptionNames == {"mode", "reso"} \cup CornerNames

OptionsInv ==
  /\ model \in Models /\ device \in Devices
  /\ opt = [f \in OptionNames |-> opt[f]]
  /\ opt.mode \in SupportScanMode(model) /\ opt.reso \in SupportReso(model)
  /\ opt.reso \in {200} \cup (Resolutions \cap AllReso)
  /\ \A c \in CornerNames : opt[c] \in 0..RangeMax(c)

AreaInv ==
  /\ mm = [left |-> mm.left, right |-> mm.right, top |-> mm.top, bottom |-> mm.bottom]
  /\ mm.left \in Nat /\ mm.right \in Nat /\ mm.top \in Nat /\ mm.bottom \in Nat
  /\ mm.left <= mm.right /\ mm.right <= SupportScanAreaWidth(model)
  /\ mm.top <= mm.bottom /\ mm.bottom <= SupportScanAreaHeight(model)

LEMMA OptionsInit == Init => OptionsInv /\ AreaInv
<1> SUFFICES ASSUME Init PROVE OptionsInv /\ AreaInv
  OBVIOUS
<1>1. opt = InitOptions(model) /\ model \in Models /\ device \in Devices
  BY DEF Init
<1>2. /\ FIX(Lesser(2159, SupportScanAreaWidth(model))) \in 0..FIX(SupportScanAreaWidth(model))
      /\ FIX(Lesser(3556, SupportScanAreaHeight(model))) \in 0..FIX(SupportScanAreaHeight(model))
  <2>1. \A t \in Sides : /\ FIX(Lesser(2159, t)) \in 0..FIX(t)
                         /\ FIX(Lesser(3556, t)) \in 0..FIX(t)
    BY SMT DEF Sides, FIX, Lesser
  <2> QED
    BY <2>1, ModelSides
<1>3. opt = [f \in OptionNames |-> opt[f]]
  BY <1>1 DEF InitOptions, OptionNames, CornerNames
<1>4. opt.mode \in SupportScanMode(model)
  BY <1>1 DEF InitOptions, SupportScanMode
<1>5. opt.reso = 200 /\ opt.reso \in SupportReso(model)
  BY <1>1 DEF InitOptions, SupportReso, AllReso
<1>6. \A c \in CornerNames : opt[c] \in 0..RangeMax(c)
  <2>1. /\ opt.tlx = 0 /\ opt.tly = 0
        /\ opt.brx = FIX(Lesser(2159, SupportScanAreaWidth(model)))
        /\ opt.bry = FIX(Lesser(3556, SupportScanAreaHeight(model)))
    BY <1>1 DEF InitOptions
  <2>2. 0 \in 0..FIX(SupportScanAreaWidth(model)) /\ 0 \in 0..FIX(SupportScanAreaHeight(model))
    <3>1. \A t \in Sides : 0 \in 0..FIX(t)
      BY SMT DEF Sides, FIX
    <3> QED
      BY <3>1, ModelSides
  <2> QED
    BY <1>2, <2>1, <2>2 DEF RangeMax, CornerNames
<1>7. AreaInv
  <2>1. 0 <= SupportScanAreaWidth(model) /\ 0 <= SupportScanAreaHeight(model)
    BY ModelSides DEF Sides
  <2> QED
    BY <2>1 DEF Init, AreaInv
<1> QED
  BY <1>1, <1>3, <1>4, <1>5, <1>6, <1>7 DEF OptionsInv

LEMMA OptionsStep ==
  ASSUME OptionsInv, SetOption
  PROVE  OptionsInv'
<1>1. model' = model /\ device' = device
  BY DEF SetOption
<1>2. opt = [f \in OptionNames |-> opt[f]]
  BY DEF OptionsInv
<1>3. CASE \E v \in SupportScanMode(model) : opt' = [opt EXCEPT !.mode = v]
  BY <1>1, <1>2, <1>3 DEF OptionsInv, OptionNames, CornerNames, RangeMax
<1>4. CASE \E v \in Resolutions \cap SupportReso(model) : opt' = [opt EXCEPT !.reso = v]
  <2>1. PICK v \in Resolutions \cap SupportReso(model) : opt' = [opt EXCEPT !.reso = v]
    BY <1>4
  <2>2. v \in Resolutions \cap AllReso
    BY <2>1 DEF SupportReso
  <2> QED
    BY <1>1, <1>2, <2>1, <2>2 DEF OptionsInv, OptionNames, CornerNames, RangeMax
<1>5. CASE \E c \in CornerNames, v \in Corners :
              opt' = [opt EXCEPT ![c] = Constrain(FIX(v), RangeMax(c))]
  <2>1. PICK c \in CornerNames, v \in Corners :
               opt' = [opt EXCEPT ![c] = Constrain(FIX(v), RangeMax(c))]
    BY <1>5
  <2>2. FIX(v) \in Int
    <3>1. v \in Int
      BY FrontendAssumption
    <3> QED
      BY <3>1, SMT DEF FIX
  <2>3. Constrain(FIX(v), RangeMax(c)) \in 0..RangeMax(c)
    BY <2>2, ModelSides, Constrained DEF RangeMax
  <2> QED
    BY <1>1, <1>2, <2>1, <2>3 DEF OptionsInv, OptionNames, CornerNames, RangeMax
<1> QED
  BY <1>3, <1>4, <1>5 DEF SetOption

\* Whatever the corners, the area stored is one of the model's.
LEMMA AreaStored ==
  ASSUME OptionsInv, AreaInv, mm' = AreaMm, model' = model
  PROVE  AreaInv'
<1> DEFINE w == SupportScanAreaWidth(model)
           h == SupportScanAreaHeight(model)
<1>1. opt.tlx \in 0..FIX(w) /\ opt.brx \in 0..FIX(w)
      /\ opt.tly \in 0..FIX(h) /\ opt.bry \in 0..FIX(h)
  BY DEF OptionsInv, RangeMax, CornerNames
<1>2. w \in Sides /\ h \in Sides
  BY ModelSides
<1>3. /\ Tenths(Lesser(opt.tlx, opt.brx)) \in Nat /\ Tenths(Greater(opt.tlx, opt.brx)) \in Nat
      /\ Tenths(Lesser(opt.tlx, opt.brx)) <= Tenths(Greater(opt.tlx, opt.brx))
      /\ Tenths(Greater(opt.tlx, opt.brx)) <= w
  BY <1>1, <1>2, Measured
<1>4. /\ Tenths(Lesser(opt.tly, opt.bry)) \in Nat /\ Tenths(Greater(opt.tly, opt.bry)) \in Nat
      /\ Tenths(Lesser(opt.tly, opt.bry)) <= Tenths(Greater(opt.tly, opt.bry))
      /\ Tenths(Greater(opt.tly, opt.bry)) <= h
  BY <1>1, <1>2, Measured
<1> QED
  BY <1>3, <1>4 DEF AreaInv, AreaMm

-----------------------------------------------------------------------------
(* What the device has answered.                                           *)

\* n tenths are k dots at r dpi.
AreDots(k, n, r) == k \in Nat /\ 254 * k <= n * r /\ n * r < 254 * k + 254

LEMMA DotsKnown ==
  ASSUME NEW n \in Nat, NEW r \in Nat
  PROVE  Dots(n, r) \in Nat /\ AreDots(Dots(n, r), n, r)
<1>1. n * r \in Nat
  OBVIOUS
<1> QED
  BY <1>1, SMT DEF Dots, AreDots

LEMMA MoreDots ==
  ASSUME NEW m \in Nat, NEW n \in Nat, NEW q \in Nat, NEW r \in Nat, m <= n, q <= r
  PROVE  Dots(m, q) <= Dots(n, r)
<1>1. m * q \in Nat /\ n * r \in Nat /\ m * q <= n * r
  <2>1. m * q <= n * q /\ n * q <= n * r
    BY SMT
  <2> QED
    BY <2>1
<1> QED
  BY <1>1, SMT DEF Dots

\* Dots divided by no more than the ratio of the resolutions are no fewer
\* than there are at the lower one, and as many when it is the ratio.
Thinned(n, a, x, t) ==
  /\ Dots(n, a) \div t \in Nat
  /\ Dots(n, x) <= Dots(n, a) \div t /\ Dots(n, a) \div t <= Dots(n, a)
  /\ t * x = a => Dots(n, a) \div t = Dots(n, x)

LEMMA DotsDivided ==
  ASSUME NEW n \in Nat, NEW a \in Nat, NEW x \in Nat, NEW t \in Nat \ {0}, t * x <= a
  PROVE  Thinned(n, a, x, t)
<1> DEFINE D == Dots(n, a)
           E == Dots(n, x)
           q == D \div t
<1>1. D \in Nat /\ 254 * D <= n * a /\ n * a < 254 * D + 254
  BY DotsKnown DEF AreDots
<1>2. E \in Nat /\ 254 * E <= n * x /\ n * x < 254 * E + 254
  BY DotsKnown DEF AreDots
<1> HIDE DEF D, E
<1>3. q \in Int /\ t * q <= D /\ D < t * q + t
  BY <1>1, Dividing
<1> HIDE DEF q
<1>4. q \in Nat
  <2>1. t * (q + 1) > 0
    BY <1>1, <1>3
  <2>2. q + 1 > 0
    BY <1>3, <2>1
  <2> QED
    BY <1>3, <2>2
<1>5. q <= D
  <2>1. q <= t * q
    BY <1>4, SMT
  <2> QED
    BY <1>1, <1>3, <1>4, <2>1
<1>6. n * (t * x) <= n * a /\ n * (t * x) = t * (n * x)
  BY SMT
<1>7. ~(q + 1 <= E)
  <2> SUFFICES ASSUME q + 1 <= E PROVE FALSE
    OBVIOUS
  <2>1. t * (q + 1) <= t * E
    BY <1>2, <1>4
  <2>2. D + 1 <= t * E
    BY <1>1, <1>2, <1>3, <2>1
  <2>3. t * (254 * E) <= t * (n * x) /\ t * (254 * E) = 254 * (t * E)
    BY <1>2, SMT
  <2>4. 254 * (D + 1) <= 254 * (t * E) /\ t * E \in Int
    BY <1>1, <1>2, <2>2
  <2> QED
    BY <1>1, <1>2, <1>6, <2>3, <2>4
<1>8. t * x = a => q <= E
  <2> SUFFICES ASSUME t * x = a, E + 1 <= q PROVE FALSE
    BY <1>2, <1>4
  <2>1. t * (E + 1) <= D
    BY <1>1, <1>2, <1>3, <1>4
  <2>2. 254 * (t * (E + 1)) <= t * (n * x) /\ t * (E + 1) \in Int
    BY <1>1, <1>2, <1>6, <2>1
  <2>3. t * (254 * (E + 1)) <= t * (n * x)
    <3>1. t * (254 * (E + 1)) = 254 * (t * (E + 1))
      BY <1>2
    <3> QED
      BY <2>2, <3>1
  <2>4. 254 * (E + 1) <= n * x
    <3>1. 254 * (E + 1) \in Int /\ n * x \in Int
      BY <1>2
    <3> HIDE DEF E
    <3>2. (254 * (E + 1)) * t <= (n * x) * t
      BY <1>2, <2>3
    <3> QED
      BY <3>1, <3>2, Products
  <2> QED
    BY <1>2, <2>4
<1> QED
  BY <1>2, <1>4, <1>5, <1>7, <1>8 DEF D, E, q, Thinned

\* What the scan goes by: the device d, as it is taken to be, has the glass g.
Known(d, g) ==
  /\ d.x \in Nat /\ d.x >= 4 /\ d.y \in Nat /\ d.y >= 4
  /\ d.pixels \in Nat /\ d.pixels >= 16 /\ d.pixels < 65528
  /\ Dots(10 * g.width, d.x) <= d.pixels
  /\ d.raster \in Nat /\ Dots(10 * g.height, d.y) <= d.raster
  /\ d.height = 10 * g.height /\ d.source = g.source

Exact(d, g) ==
  d.pixels = Dots(10 * g.width, d.x) /\ d.raster = Dots(10 * g.height, d.y)

\* GlassDoubled, of a scan in the mode of the options.
Doubled(xy) ==
  /\ model.build = 2
  /\ IF opt.mode = "TG" /\ xy[1] > 400
     THEN xy[1] # 600 \/ xy[2] \notin {300, 600}
     ELSE (xy[1] > 600 /\ xy[1] % 600 # 0) \/ (xy[2] > 600 /\ xy[2] % 600 # 0)

\* A resolution is taken as it is, or as the whole part of it over the most
\* the build scans with.
LEMMA Reduced ==
  ASSUME NEW a \in Nat, a >= 4
  PROVE  LET t == IF a > 600 THEN a \div 600 ELSE 1
             x == Lesser(a, 600)
         IN  /\ t \in Nat \ {0} /\ x \in Nat /\ x >= 4 /\ t * x <= a
             /\ ~(a > 600 /\ a % 600 # 0) => t * x = a
  BY SMT DEF Lesser

LEMMA Halved ==
  ASSUME NEW a \in Nat, a >= 300
  PROVE  LET t == Lesser(a, 600) \div 300
         IN  /\ t \in Nat \ {0} /\ t * 300 <= a
             /\ a \in {300, 600} => t * 300 = a
  BY SMT DEF Lesser

\* What becomes of the answer in the second build, in gray and otherwise.
LEMMA QueriedGray ==
  ASSUME NEW a, DOMAIN a = {"x", "y", "answered", "source", "pixels", "height", "raster"},
         model.build = 2, opt.mode = "TG" /\ Lesser(a.x, 600) > 400
  PROVE  LET d == QueryScanInfo(a)
         IN  /\ d.x = 300 /\ d.y = 300
             /\ d.pixels = a.pixels \div (Lesser(a.x, 600) \div 300)
             /\ d.raster = a.raster \div (Lesser(a.y, 600) \div 300)
             /\ d.height = a.height /\ d.source = a.source /\ d.answered = a.answered
  BY DEF QueryScanInfo

LEMMA Queried ==
  ASSUME NEW a, DOMAIN a = {"x", "y", "answered", "source", "pixels", "height", "raster"},
         model.build = 2, ~(opt.mode = "TG" /\ Lesser(a.x, 600) > 400)
  PROVE  LET d == QueryScanInfo(a)
         IN  /\ d.x = Lesser(a.x, 600) /\ d.y = Lesser(a.y, 600)
             /\ d.pixels = a.pixels \div (IF a.x > 600 THEN a.x \div 600 ELSE 1)
             /\ d.raster = a.raster \div (IF a.y > 600 THEN a.y \div 600 ELSE 1)
             /\ d.height = a.height /\ d.source = a.source /\ d.answered = a.answered
  BY DEF QueryScanInfo
LEMMA DeviceKnown ==
  ASSUME OptionsInv, NEW xy \in Answers[opt.reso]
  PROVE  LET d == QueryScanInfo(Answer(xy))
         IN  /\ Known(d, device) /\ d.answered = xy
             /\ ~Doubled(xy) => Exact(d, device)
<1> DEFINE a  == Answer(xy)
           W  == 10 * device.width
           H  == 10 * device.height
           px == Dots(W, xy[1])
           ra == Dots(H, xy[2])
<1>1. /\ xy \in Nat \X Nat /\ xy[1] >= 4 /\ xy[2] >= 4
      /\ xy[1] > 400 => xy[2] >= 300
      /\ Dots(W, Lesser(xy[1], 300)) >= 16 /\ px < 65528
  BY AnswersAssumption DEF OptionsInv
<1>2. xy[1] \in Nat /\ xy[2] \in Nat /\ W \in Nat /\ H \in Nat
  <2>1. xy[1] \in Nat /\ xy[2] \in Nat
    BY <1>1
  <2>2. device.width \in Nat /\ device.height \in Nat
    BY DevicesAssumption DEF OptionsInv
  <2> QED
    BY <2>1, <2>2
<1>3. px \in Nat /\ ra \in Nat
  BY <1>2, DotsKnown
<1>4. /\ a.x = xy[1] /\ a.y = xy[2] /\ a.answered = xy /\ a.pixels = px /\ a.raster = ra
      /\ a.height = H /\ a.source = device.source
  BY DEF Answer
<1>5. ASSUME NEW x \in Nat, Lesser(xy[1], 300) <= x
      PROVE  Dots(W, x) >= 16
  <2>1. Lesser(xy[1], 300) \in Nat
    BY <1>2 DEF Lesser
  <2>2. Dots(W, Lesser(xy[1], 300)) <= Dots(W, x)
    BY <1>2, <1>5, <2>1, MoreDots
  <2>3. Dots(W, x) \in Nat /\ Dots(W, Lesser(xy[1], 300)) \in Nat
    BY <1>2, <2>1, DotsKnown
  <2> QED
    BY <1>1, <2>2, <2>3
<1> HIDE DEF px, ra, W, H
<1>6. ASSUME NEW x \in Nat, NEW y \in Nat, NEW s \in Nat \ {0}, NEW t \in Nat \ {0},
             x >= 4, y >= 4, Lesser(xy[1], 300) <= x, s * x <= xy[1], t * y <= xy[2],
             ~Doubled(xy) => s * x = xy[1] /\ t * y = xy[2],
             NEW d, d.x = x, d.y = y, d.pixels = px \div s, d.raster = ra \div t,
             d.height = H, d.source = device.source
      PROVE  Known(d, device) /\ (~Doubled(xy) => Exact(d, device))
  <2>1. /\ px \div s \in Nat /\ Dots(W, x) <= px \div s /\ px \div s <= px
        /\ s * x = xy[1] => px \div s = Dots(W, x)
    <3>1. s * x <= xy[1]
      BY <1>6
    <3>2. Thinned(W, xy[1], x, s)
      BY <1>2, <3>1, DotsDivided
    <3> QED
      BY <3>2 DEF px, Thinned
  <2>2. /\ ra \div t \in Nat /\ Dots(H, y) <= ra \div t
        /\ t * y = xy[2] => ra \div t = Dots(H, y)
    <3>1. t * y <= xy[2]
      BY <1>6
    <3>2. Thinned(H, xy[2], y, t)
      BY <1>2, <3>1, DotsDivided
    <3> QED
      BY <3>2 DEF ra, Thinned
  <2>3. Dots(W, x) >= 16 /\ Dots(W, x) \in Nat
    BY <1>2, <1>5, <1>6, DotsKnown
  <2>4. px \div s >= 16 /\ px \div s < 65528
    BY <1>1, <1>3, <2>1, <2>3
  <2> QED
    BY <1>6, <2>1, <2>2, <2>4 DEF Known, Exact, W, H
<1>7. CASE model.build = 1
  <2>1. QueryScanInfo(a) = a
    BY <1>7 DEF QueryScanInfo
  <2>2. px \div 1 = px /\ ra \div 1 = ra /\ 1 * xy[1] = xy[1] /\ 1 * xy[2] = xy[2]
    BY <1>2, <1>3
  <2>3. Lesser(xy[1], 300) <= xy[1]
    BY <1>2 DEF Lesser
  <2>4. 1 * xy[1] <= xy[1] /\ 1 * xy[2] <= xy[2]
    BY <1>2
  <2> HIDE DEF a
  <2>5. Known(a, device) /\ (~Doubled(xy) => Exact(a, device))
    BY <1>1, <1>2, <1>4, <1>6, <2>2, <2>3, <2>4
  <2> QED
    BY <1>4, <2>1, <2>5 DEF a
<1>8. CASE model.build = 2
  <2> DEFINE x == Lesser(a.x, 600)
             y == Lesser(a.y, 600)
  <2>1. CASE opt.mode = "TG" /\ x > 400
    <3> DEFINE d == QueryScanInfo(a)
    <3>1. xy[1] > 400 /\ xy[2] >= 300
      BY <1>1, <1>2, <1>4, <2>1 DEF Lesser
    <3>2. /\ d.x = 300 /\ d.y = 300 /\ d.pixels = px \div (Lesser(xy[1], 600) \div 300)
          /\ d.raster = ra \div (Lesser(xy[2], 600) \div 300)
          /\ d.height = H /\ d.source = device.source /\ d.answered = xy
      <4>1. DOMAIN a = {"x", "y", "answered", "source", "pixels", "height", "raster"}
        BY DEF Answer
      <4> HIDE DEF a
      <4> QED
        BY <4>1, <1>4, <1>8, <2>1, QueriedGray
    <3>3. Lesser(xy[1], 300) <= 300
      BY <1>2 DEF Lesser
    <3>4. ~Doubled(xy) => xy[1] = 600 /\ xy[2] \in {300, 600}
      BY <1>8, <2>1, <3>1 DEF Doubled
    <3> HIDE DEF d, a
    <3> DEFINE s == Lesser(xy[1], 600) \div 300
               t == Lesser(xy[2], 600) \div 300
    <3>5. /\ s \in Nat \ {0} /\ s * 300 <= xy[1] /\ (xy[1] = 600 => s * 300 = xy[1])
          /\ t \in Nat \ {0} /\ t * 300 <= xy[2] /\ (xy[2] \in {300, 600} => t * 300 = xy[2])
      BY <1>2, <3>1, Halved
    <3>6. d.pixels = px \div s /\ d.raster = ra \div t
      BY <3>2
    <3> HIDE DEF s, t
    <3>7. Known(d, device) /\ (~Doubled(xy) => Exact(d, device))
      BY <1>6, <3>2, <3>3, <3>4, <3>5, <3>6
    <3> QED
      BY <3>2, <3>7 DEF d, a
  <2>2. CASE ~(opt.mode = "TG" /\ x > 400)
    <3> DEFINE d == QueryScanInfo(a)
               s == IF xy[1] > 600 THEN xy[1] \div 600 ELSE 1
               t == IF xy[2] > 600 THEN xy[2] \div 600 ELSE 1
    <3>1. /\ d.x = x /\ d.y = y /\ d.pixels = px \div s /\ d.raster = ra \div t
          /\ d.height = H /\ d.source = device.source /\ d.answered = xy
      <4>1. DOMAIN a = {"x", "y", "answered", "source", "pixels", "height", "raster"}
        BY DEF Answer
      <4> HIDE DEF a
      <4> QED
        BY <4>1, <1>4, <1>8, <2>2, Queried
    <3>2. Lesser(xy[1], 300) <= x
      BY <1>2, <1>4 DEF Lesser
    <3>3. opt.mode = "TG" => ~(xy[1] > 400)
      BY <1>2, <1>4, <2>2 DEF Lesser
    <3>4. ~Doubled(xy) => /\ ~(xy[1] > 600 /\ xy[1] % 600 # 0)
                          /\ ~(xy[2] > 600 /\ xy[2] % 600 # 0)
      BY <1>8, <3>3 DEF Doubled
    <3>5. /\ s \in Nat \ {0} /\ x \in Nat /\ x >= 4 /\ s * x <= xy[1]
          /\ ~(xy[1] > 600 /\ xy[1] % 600 # 0) => s * x = xy[1]
      BY <1>1, <1>2, <1>4, Reduced
    <3>6. /\ t \in Nat \ {0} /\ y \in Nat /\ y >= 4 /\ t * y <= xy[2]
          /\ ~(xy[2] > 600 /\ xy[2] % 600 # 0) => t * y = xy[2]
      BY <1>1, <1>2, <1>4, Reduced
    <3> HIDE DEF d, s, t, x, y
    <3> QED
      BY <1>6, <3>1, <3>2, <3>4, <3>5, <3>6 DEF d
  <2> QED
    BY <2>1, <2>2
<1> QED
  BY <1>4, <1>7, <1>8, ModelsAssumption DEF OptionsInv

-----------------------------------------------------------------------------
(* The area in dots.                                                       *)

\* Rounding to 16 dots moves a dot by 8 at most, keeps the order and never
\* overflows its 16 bits.
LEMMA Rounded ==
  ASSUME NEW n \in Nat, n < 65528
  PROVE  /\ Round16(n) \in Nat /\ Round16(n) % 16 = 0
         /\ Round16(n) <= n + 8 /\ n < Round16(n) + 8
<1>1. (16 * ((n + 8) \div 16)) % 65536 = 16 * ((n + 8) \div 16)
  BY SMT
<1>2. (n + 8) \div 16 \in Nat
  BY SMT
<1>3. Round16(n) = 16 * ((n + 8) \div 16)
  BY <1>1 DEF Round16
<1>4. /\ 16 * ((n + 8) \div 16) <= n + 8 /\ n < 16 * ((n + 8) \div 16) + 8
      /\ (16 * ((n + 8) \div 16)) % 16 = 0
  BY SMT
<1> QED
  BY <1>2, <1>3, <1>4

LEMMA RoundedApart ==
  ASSUME NEW m \in Nat, NEW n \in Nat, m + 16 <= n, n < 65528
  PROVE  Round16(n) - Round16(m) >= 16 /\ (n = m + 16 => Round16(n) - Round16(m) = 16)
<1>1. /\ Round16(n) = 16 * ((n + 8) \div 16)
      /\ Round16(m) = 16 * ((m + 8) \div 16)
  BY SMT DEF Round16
<1>2. (m + 8) \div 16 + 1 <= (n + 8) \div 16
      /\ (n = m + 16 => (m + 8) \div 16 + 1 = (n + 8) \div 16)
  BY SMT
<1> QED
  BY <1>1, <1>2, SMT

\* An area of the options, 80 tenths or more in both directions, that begins
\* on the glass g of the device d.
Placed(area, d, g) ==
  /\ area.left \in Nat /\ area.right \in Nat /\ area.top \in Nat /\ area.bottom \in Nat
  /\ area.right - area.left >= 80 /\ area.bottom - area.top >= 80
  /\ area.bottom <= 3556
  /\ d.source = "FB" => area.top < d.height - 80

\* Where the area lies in the dots of the device before they are rounded.
LEMMA AcrossTheGlass ==
  ASSUME NEW area, NEW d, NEW g, g \in Devices, Known(d, g), Placed(area, d, g)
  PROVE  \E l \in Nat, r \in Nat :
           /\ l + 16 <= r /\ r <= d.pixels
           /\ DeviceScanArea(area, d).left = Round16(l)
           /\ DeviceScanArea(area, d).right = Round16(r)
           /\ \/ r = l + 16 /\ Lesser(Dots(area.right, d.x), d.pixels) - Dots(area.left, d.x) < 16
              \/ l = Dots(area.left, d.x) /\ r = Lesser(Dots(area.right, d.x), d.pixels)
<1> DEFINE left   == Dots(area.left, d.x)
           right  == Lesser(Dots(area.right, d.x), d.pixels)
           narrow == right - left < 16
           moved  == narrow /\ left + 16 > d.pixels
           l      == IF moved THEN d.pixels - 16 ELSE left
           r      == IF moved THEN d.pixels ELSE IF narrow THEN left + 16 ELSE right
<1>1. DeviceScanArea(area, d).left = Round16(l) /\ DeviceScanArea(area, d).right = Round16(r)
  BY DEF DeviceScanArea
<1>2. left \in Nat /\ right \in Nat /\ right <= d.pixels /\ d.pixels \in Nat /\ d.pixels >= 16
  <2>1. left \in Nat /\ Dots(area.right, d.x) \in Nat
    <3>1. d.x \in Nat /\ area.left \in Nat /\ area.right \in Nat
      BY DEF Known, Placed
    <3> QED
      BY <3>1, DotsKnown
  <2> HIDE DEF left
  <2> QED
    BY <2>1 DEF Known, Lesser
<1> HIDE DEF left, right
<1>3. l \in Nat /\ r \in Nat /\ l + 16 <= r /\ r <= d.pixels
  BY <1>2
<1>4. \/ r = l + 16 /\ right - left < 16
      \/ l = left /\ r = right
  BY <1>2
<1> HIDE DEF l, r
<1> QED
  BY <1>1, <1>3, <1>4 DEF left, right

LEMMA DownTheGlass ==
  ASSUME NEW area, NEW d, NEW g \in Devices, Known(d, g), Placed(area, d, g)
  PROVE  LET a == DeviceScanArea(area, d)
         IN  /\ a.top = Dots(area.top, d.y)
             /\ a.top \in Nat /\ a.bottom \in Nat /\ a.top < a.bottom
             /\ d.source = "FB" => a.bottom <= d.raster
             /\ area.bottom <= 10 * g.height => a.bottom = Dots(area.bottom, d.y)
<1> DEFINE top    == Dots(area.top, d.y)
           bottom == Dots(area.bottom, d.y)
           raster == IF d.source = "FB" THEN d.raster ELSE 14 * d.y
<1>1. /\ DeviceScanArea(area, d).top = top
      /\ DeviceScanArea(area, d).bottom = Lesser(bottom, raster)
  BY DEF DeviceScanArea
<1>2. /\ d.y \in Nat /\ d.y >= 4 /\ d.raster \in Nat
      /\ area.top \in Nat /\ area.bottom \in Nat /\ area.bottom <= 3556
      /\ area.top + 80 <= area.bottom
  BY DEF Known, Placed
<1>3. /\ top \in Nat /\ 254 * top <= area.top * d.y
      /\ bottom \in Nat /\ 254 * bottom <= area.bottom * d.y
      /\ area.bottom * d.y < 254 * bottom + 254
  <2>1. d.y \in Nat /\ area.top \in Nat /\ area.bottom \in Nat
    BY <1>2
  <2>2. AreDots(top, area.top, d.y) /\ AreDots(bottom, area.bottom, d.y)
    BY <2>1, DotsKnown
  <2> QED
    BY <2>2 DEF AreDots
<1> HIDE DEF top, bottom
<1>4. ASSUME NEW n \in Nat, NEW dots \in Nat, area.top + 80 <= n, n * d.y < 254 * dots + 254
      PROVE  top < dots
  <2>1. (area.top + 80) * d.y <= n * d.y
    BY <1>2, <1>4, SMT
  <2>2. (area.top + 80) * d.y = area.top * d.y + 80 * d.y
    BY <1>2, SMT
  <2>3. area.top * d.y \in Nat /\ n * d.y \in Nat
    BY <1>2, SMT
  <2> QED
    BY <1>2, <1>3, <1>4, <2>1, <2>2, <2>3
<1>5. top < bottom
  BY <1>2, <1>3, <1>4
<1>6. CASE d.source = "FB"
  <2> DEFINE H == 10 * g.height
  <2>1. H \in Nat /\ d.height = H /\ Dots(H, d.y) <= d.raster
    BY DevicesAssumption DEF Known
  <2>2. Dots(H, d.y) \in Nat /\ H * d.y < 254 * Dots(H, d.y) + 254
    <3>1. d.y \in Nat /\ H \in Nat
      BY <1>2, <2>1
    <3>2. AreDots(Dots(H, d.y), H, d.y)
      BY <3>1, DotsKnown
    <3> QED
      BY <3>2 DEF AreDots
  <2>3. area.top + 80 <= H
    BY <1>2, <1>6, <2>1 DEF Placed
  <2> HIDE DEF H
  <2>4. top < d.raster
    <3>1. top < Dots(H, d.y)
      BY <1>4, <2>1, <2>2, <2>3
    <3> QED
      BY <1>2, <1>3, <2>1, <2>2, <3>1
  <2>5. area.bottom <= H => bottom <= Dots(H, d.y)
    BY <1>2, <2>1, MoreDots DEF bottom
  <2> QED
    <3> DEFINE a == DeviceScanArea(area, d)
    <3>1. a.top = top /\ a.bottom = Lesser(bottom, d.raster)
      BY <1>1, <1>6
    <3> HIDE DEF a
    <3>2. a.bottom \in Nat /\ a.bottom <= d.raster /\ top < a.bottom
      BY <1>2, <1>3, <1>5, <2>4, <3>1 DEF Lesser
    <3>3. area.bottom <= H => a.bottom = bottom
      BY <1>2, <1>3, <2>1, <2>2, <2>5, <3>1 DEF Lesser
    <3> QED
      BY <1>3, <3>1, <3>2, <3>3 DEF H, a, top, bottom
<1>7. CASE d.source # "FB"
  <2>1. raster = 14 * d.y
    BY <1>7
  <2>2. area.top * d.y <= 3476 * d.y /\ area.bottom * d.y <= 3556 * d.y
    BY <1>2, SMT
  <2>3. area.top * d.y \in Nat /\ area.bottom * d.y \in Nat
    BY <1>2, SMT
  <2>4. top < 14 * d.y /\ bottom <= 14 * d.y
    BY <1>2, <1>3, <2>2, <2>3
  <2> QED
    <3> DEFINE a == DeviceScanArea(area, d)
    <3>1. a.top = top /\ a.bottom = Lesser(bottom, 14 * d.y)
      BY <1>1, <2>1
    <3> HIDE DEF a
    <3>2. a.bottom = bottom
      BY <1>2, <1>3, <2>4, <3>1 DEF Lesser
    <3> QED
      BY <1>3, <1>5, <1>7, <3>1, <3>2 DEF a, top, bottom
<1> QED
  BY <1>6, <1>7

-----------------------------------------------------------------------------
(* The picture.                                                            *)

\* m tenths are p dots, up to k, at X dpi; these are made w dots at R dpi,
\* less than e too few: then w is what m tenths have at R dpi, up to what k
\* dots become and e + 1.
LEMMA Resampled ==
  ASSUME NEW m \in Nat, NEW p \in Nat, NEW X \in Nat \ {0}, NEW R \in Nat \ {0},
         NEW w \in Nat, NEW k \in Nat, NEW e \in Nat \ {0},
         254 * p < m * X + 254 * k, m * X < 254 * p + 254 * k,
         X * w <= R * p, R * p < X * (w + e)
  PROVE  Near(w, Dots(m, R), (k * R) \div X + e + 1)
<1> DEFINE D == Dots(m, R)
           F == (k * R) \div X
<1>1. D \in Nat /\ 254 * D <= m * R /\ m * R < 254 * D + 254
  BY DotsKnown DEF AreDots
<1>2. F \in Int /\ X * F <= k * R /\ k * R < X * F + X
  <2>1. k * R \in Nat
    OBVIOUS
  <2> QED
    BY <2>1, Dividing
<1> HIDE DEF D, F
<1>3. /\ R * (254 * p) < R * (m * X + 254 * k)
      /\ R * (m * X) < R * (254 * p + 254 * k)
  <2>1. m * X \in Nat
    OBVIOUS
  <2> DEFINE mx == m * X
  <2>2. mx \in Nat /\ 254 * p < mx + 254 * k /\ mx < 254 * p + 254 * k
    BY <2>1
  <2> HIDE DEF mx
  <2>3. R * (254 * p) < R * (mx + 254 * k) /\ R * mx < R * (254 * p + 254 * k)
    BY <2>2, SMT
  <2> QED
    BY <2>3 DEF mx
<1>4. /\ X * (254 * D) <= X * (m * R) /\ X * (m * R) < X * (254 * D + 254)
  <2> DEFINE mr == m * R
  <2>1. mr \in Nat /\ 254 * D <= mr /\ mr < 254 * D + 254
    BY <1>1
  <2> HIDE DEF mr
  <2>2. X * (254 * D) <= X * mr /\ X * mr < X * (254 * D + 254)
    BY <1>1, <2>1, SMT
  <2> QED
    BY <2>2 DEF mr
<1>5. /\ R * (254 * p) = 254 * (R * p) /\ R * (m * X + 254 * k) = R * (m * X) + 254 * (k * R)
      /\ R * (254 * p + 254 * k) = 254 * (R * p) + 254 * (k * R)
      /\ X * (254 * D) = 254 * (X * D) /\ X * (m * R) = R * (m * X)
      /\ X * (254 * D + 254) = 254 * (X * D) + 254 * X
      /\ X * (w + e) = X * w + X * e
  BY <1>1
<1>6. /\ R * p \in Nat /\ k * R \in Nat /\ R * (m * X) \in Nat /\ X * D \in Nat /\ X * w \in Nat
      /\ X * F \in Int /\ X * e \in Nat
  BY <1>1, <1>2
<1>7. /\ X * w < X * D + X + X * F + X
      /\ X * D < X * w + X * e + X * F + X
  BY <1>2, <1>3, <1>4, <1>5, <1>6
<1>8. /\ X * w < X * (D + F + 2)
      /\ X * D < X * (w + e + F + 1)
  BY <1>1, <1>2, <1>7
<1>9. w < D + F + 2 /\ D < w + e + F + 1
  BY <1>1, <1>2, <1>8
<1> QED
  BY <1>1, <1>2, <1>9 DEF Near, D, F

\* Across: the dots of an area on the glass, rounded to 16.
LEMMA DotsAcross ==
  ASSUME NEW area, NEW d, NEW g \in Devices, Known(d, g), Placed(area, d, g),
         area.right <= 10 * g.width
  PROVE  LET p == DeviceScanArea(area, d).right - DeviceScanArea(area, d).left
             m == area.right - area.left
         IN  254 * p < m * d.x + 254 * 17 /\ m * d.x < 254 * p + 254 * 17
<1>1. PICK X \in Nat : X = d.x /\ X >= 4
  BY DEF Known
<1>2. PICK al \in Nat, ar \in Nat : al = area.left /\ ar = area.right /\ al + 80 <= ar
  BY DEF Placed
<1> DEFINE dl == Dots(al, X)
           dr == Dots(ar, X)
           W  == 10 * g.width
<1>3. /\ dl \in Nat /\ 254 * dl <= al * X /\ al * X < 254 * dl + 254
      /\ dr \in Nat /\ 254 * dr <= ar * X /\ ar * X < 254 * dr + 254
  <2>1. AreDots(dl, al, X) /\ AreDots(dr, ar, X)
    BY DotsKnown
  <2> QED
    BY <2>1 DEF AreDots
<1>4. dr <= d.pixels
  <2>1. W \in Nat
    BY DevicesAssumption
  <2>2. dr <= Dots(W, X)
    BY <1>2, <2>1, MoreDots
  <2>3. Dots(W, X) <= d.pixels /\ d.pixels \in Nat /\ Dots(W, X) \in Nat
    <3>1. Dots(W, X) \in Nat
      BY <2>1, DotsKnown
    <3> QED
      BY <1>1, <3>1 DEF Known
  <2> QED
    BY <1>3, <2>2, <2>3
<1>5. Lesser(dr, d.pixels) = dr
  BY <1>4 DEF Lesser
<1> DEFINE L == DeviceScanArea(area, d).left
           Q == DeviceScanArea(area, d).right
<1>6. PICK l \in Nat, r \in Nat :
        /\ l + 16 <= r /\ r < 65528 /\ L = Round16(l) /\ Q = Round16(r)
        /\ \/ r = l + 16 /\ dr - dl < 16
           \/ l = dl /\ r = dr
  <2>1. PICK l \in Nat, r \in Nat :
           /\ l + 16 <= r /\ r <= d.pixels
           /\ DeviceScanArea(area, d).left = Round16(l)
           /\ DeviceScanArea(area, d).right = Round16(r)
           /\ \/ r = l + 16 /\ Lesser(Dots(area.right, d.x), d.pixels) - Dots(area.left, d.x) < 16
              \/ l = Dots(area.left, d.x) /\ r = Lesser(Dots(area.right, d.x), d.pixels)
    BY AcrossTheGlass
  <2>2. r < 65528
    <3>1. d.pixels < 65528 /\ d.pixels \in Nat
      BY DEF Known
    <3> QED
      BY <2>1, <3>1
  <2> QED
    BY <1>1, <1>2, <1>5, <2>1, <2>2
<1> HIDE DEF L, Q, dl, dr
<1>7. /\ L \in Nat /\ L <= l + 8 /\ l < L + 8
      /\ Q \in Nat /\ Q <= r + 8 /\ r < Q + 8
      /\ Q - L >= 16 /\ (r = l + 16 => Q - L = 16)
  <2>1. l < 65528
    BY <1>6
  <2> QED
    BY <1>6, <2>1, Rounded, RoundedApart
<1>8. (ar - al) * X = ar * X - al * X /\ ar * X \in Nat /\ al * X \in Nat /\ al * X <= ar * X
  <2>1. al * X <= ar * X
    BY <1>2, SMT
  <2> QED
    BY <2>1, SMT
<1>9. 254 * (Q - L) < (ar - al) * X + 254 * 17 /\ (ar - al) * X < 254 * (Q - L) + 254 * 17
  <2>1. CASE r = l + 16 /\ dr - dl < 16
    BY <1>3, <1>7, <1>8, <2>1
  <2>2. CASE l = dl /\ r = dr
    BY <1>3, <1>7, <1>8, <2>2
  <2> QED
    BY <1>6, <2>1, <2>2
<1> QED
  BY <1>1, <1>2, <1>9 DEF L, Q

\* Down: the dots of an area on the glass.
LEMMA DotsDown ==
  ASSUME NEW area, NEW d, NEW g \in Devices, Known(d, g), Placed(area, d, g),
         area.bottom <= 10 * g.height
  PROVE  LET p == DeviceScanArea(area, d).bottom - DeviceScanArea(area, d).top
             m == area.bottom - area.top
         IN  254 * p < m * d.y + 254 * 1 /\ m * d.y < 254 * p + 254 * 1
<1>1. PICK Y \in Nat : Y = d.y
  BY DEF Known
<1>2. PICK at \in Nat, ab \in Nat : at = area.top /\ ab = area.bottom /\ at + 80 <= ab
  BY DEF Placed
<1> DEFINE dt == Dots(at, Y)
           db == Dots(ab, Y)
<1>3. /\ dt \in Nat /\ 254 * dt <= at * Y /\ at * Y < 254 * dt + 254
      /\ db \in Nat /\ 254 * db <= ab * Y /\ ab * Y < 254 * db + 254
  <2>1. AreDots(dt, at, Y) /\ AreDots(db, ab, Y)
    BY DotsKnown
  <2> QED
    BY <2>1 DEF AreDots
<1>4. DeviceScanArea(area, d).top = dt /\ DeviceScanArea(area, d).bottom = db
  BY <1>1, <1>2, DownTheGlass
<1> HIDE DEF dt, db
<1>5. (ab - at) * Y = ab * Y - at * Y /\ ab * Y \in Nat /\ at * Y \in Nat
  BY SMT
<1>6. 254 * (db - dt) < (ab - at) * Y + 254 * 1 /\ (ab - at) * Y < 254 * (db - dt) + 254 * 1
  BY <1>3, <1>5
<1> QED
  BY <1>1, <1>2, <1>4, <1>6

-----------------------------------------------------------------------------
(* A scan that is started.                                                 *)

LEMMA ScanStarts ==
  ASSUME OptionsInv, NEW area, NEW d, Known(d, device), Placed(area, d, device)
  PROVE  LET s == ScanParameters(area, d)
         IN  /\ s.reso \in AllReso /\ s.width \in Nat /\ s.bytes \in Nat
             /\ s.width = OutPixels([colour |-> Colour(s.mode)], s.bytes)
             /\ s.mm = area /\ s.d = d /\ s.mode = opt.mode
             /\ s.dots = DeviceScanArea(area, d)
             /\ area.right <= 10 * device.width =>
                  Near(s.width, Dots(area.right - area.left, s.reso), (17 * s.reso) \div d.x + 9)
             /\ area.bottom <= 10 * device.height =>
                  Near(s.lines, Dots(area.bottom - area.top, s.reso), s.reso \div d.y + 2)
<1> DEFINE s   == ScanParameters(area, d)
           a   == DeviceScanArea(area, d)
           job == DecoderJob(a, d)
           b   == Setup(job).outBytes
           w   == Setup(job).outPixels
<1>1. /\ s.mm = area /\ s.d = d /\ s.mode = opt.mode /\ s.dots = a /\ s.reso = opt.reso
      /\ s.bytes = b /\ s.width = w /\ s.lines = ((a.bottom - a.top) * opt.reso) \div d.y
  BY DEF ScanParameters
<1>2. device \in Devices /\ opt.reso \in AllReso /\ opt.reso \in Nat \ {0}
  BY DEF OptionsInv, AllReso
<1>3. d.x \in Nat \ {0} /\ d.y \in Nat \ {0}
  BY DEF Known
<1>4. PICK k \in Nat : a.right - a.left = 8 * k
  <2>1. PICK l \in Nat, r \in Nat :
           l + 16 <= r /\ r <= d.pixels /\ a.left = Round16(l) /\ a.right = Round16(r)
    BY <1>2, AcrossTheGlass
  <2>2. d.pixels \in Nat /\ d.pixels < 65528
    BY DEF Known
  <2>3. l < 65528 /\ r < 65528
    BY <2>1, <2>2
  <2>4. PICK i \in Nat, j \in Nat : Round16(l) = 16 * i /\ Round16(r) = 16 * j
    <3>1. ASSUME NEW n \in Nat, n % 16 = 0
          PROVE  n \div 16 \in Nat /\ n = 16 * (n \div 16)
      BY <3>1, SMT
    <3>2. /\ Round16(l) \in Nat /\ Round16(l) % 16 = 0
          /\ Round16(r) \in Nat /\ Round16(r) % 16 = 0
      BY <2>3, Rounded
    <3> QED
      BY <3>1, <3>2
  <2>5. Round16(r) - Round16(l) >= 16
    BY <2>1, <2>3, RoundedApart
  <2>6. 2 * (j - i) \in Nat /\ a.right - a.left = 8 * (2 * (j - i))
    BY <2>1, <2>4, <2>5
  <2> QED
    BY <2>6
<1> HIDE DEF a
<1>5. /\ ~job.long /\ job.inX = d.x /\ job.outX = opt.reso /\ job.pixels = 8 * k
      /\ job.colour = Colour(opt.mode)
  BY <1>4 DEF DecoderJob
<1> HIDE DEF job
<1>6. /\ b \in Nat /\ w \in Nat /\ w = OutPixels(job, b)
      /\ d.x * w <= opt.reso * (8 * k) /\ opt.reso * (8 * k) < d.x * (w + 8)
  <2>1. job.pixels \in Nat
    BY <1>5
  <2> QED
    BY <1>2, <1>3, <1>5, <2>1, LineMade
<1>7. OutPixels(job, b) = OutPixels([colour |-> Colour(s.mode)], b)
  BY <1>1, <1>5 DEF OutPixels
<1> HIDE DEF s, b, w
<1>8. ASSUME area.right <= 10 * device.width
      PROVE  Near(w, Dots(area.right - area.left, opt.reso), (17 * opt.reso) \div d.x + 9)
  <2>1. PICK m \in Nat, p \in Nat : m = area.right - area.left /\ p = 8 * k
    BY DEF Placed
  <2>2. 254 * p < m * d.x + 254 * 17 /\ m * d.x < 254 * p + 254 * 17
    BY <1>2, <1>4, <1>8, <2>1, DotsAcross DEF a
  <2>3. PICK X \in Nat \ {0}, R \in Nat \ {0} : X = d.x /\ R = opt.reso
    BY <1>2, <1>3
  <2>4. ASSUME NEW j \in Nat, NEW e \in Nat \ {0}, j = 17, e = 8
        PROVE  Near(w, Dots(m, R), (j * R) \div X + e + 1)
    <3>1. /\ 254 * p < m * X + 254 * j /\ m * X < 254 * p + 254 * j
          /\ X * w <= R * p /\ R * p < X * (w + e) /\ w \in Nat
      BY <1>6, <2>1, <2>2, <2>3, <2>4
    <3> QED
      BY <3>1, Resampled
  <2>5. (17 * R) \div X \in Int
    BY Dividing
  <2>6. Near(w, Dots(m, R), (17 * R) \div X + 8 + 1)
    BY <2>4
  <2>7. (17 * R) \div X + 8 + 1 = (17 * R) \div X + 9
    BY <2>5
  <2> QED
    BY <2>1, <2>3, <2>6, <2>7
<1>9. ASSUME area.bottom <= 10 * device.height
      PROVE  Near(s.lines, Dots(area.bottom - area.top, opt.reso), opt.reso \div d.y + 2)
  <2>1. PICK p \in Nat : p = a.bottom - a.top
    BY <1>2, DownTheGlass DEF a
  <2>2. PICK m \in Nat : m = area.bottom - area.top
    BY DEF Placed
  <2>3. 254 * p < m * d.y + 254 * 1 /\ m * d.y < 254 * p + 254 * 1
    BY <1>2, <1>9, <2>1, <2>2, DotsDown DEF a
  <2>4. PICK Y \in Nat \ {0}, R \in Nat \ {0} : Y = d.y /\ R = opt.reso
    BY <1>2, <1>3
  <2> DEFINE n == (p * R) \div Y
  <2>5. n \in Nat /\ Y * n <= p * R /\ p * R < Y * (n + 1)
    <3>1. p * R \in Nat
      OBVIOUS
    <3>2. n \in Int /\ Y * n <= p * R /\ p * R < Y * n + Y
      BY <3>1, Dividing
    <3> HIDE DEF n
    <3>3. Y * (n + 1) = Y * n + Y /\ Y * (n + 1) > 0
      BY <3>1, <3>2
    <3>4. n + 1 > 0
      BY <3>2, <3>3
    <3> QED
      BY <3>2, <3>3, <3>4
  <2>6. s.lines = n
    BY <1>1, <2>1, <2>4
  <2> HIDE DEF n
  <2>7. Y * n <= R * p /\ R * p < Y * (n + 1)
    BY <2>5
  <2>8. ASSUME NEW j \in Nat, NEW e \in Nat \ {0}, j = 1, e = 1
        PROVE  Near(n, Dots(m, R), (j * R) \div Y + e + 1)
    <3>1. /\ 254 * p < m * Y + 254 * j /\ m * Y < 254 * p + 254 * j
          /\ R * p < Y * (n + e)
      BY <2>3, <2>4, <2>7, <2>8
    <3> QED
      BY <2>5, <2>7, <3>1, Resampled
  <2>9. R \div Y \in Int /\ 1 * R = R
    BY Dividing
  <2>10. Near(n, Dots(m, R), (1 * R) \div Y + 1 + 1)
    BY <2>8
  <2>11. (1 * R) \div Y + 1 + 1 = R \div Y + 2
    BY <2>9
  <2> QED
    BY <2>2, <2>4, <2>6, <2>10, <2>11
<1>10. /\ s.width = OutPixels([colour |-> Colour(s.mode)], s.bytes)
       /\ s.bytes \in Nat /\ s.width \in Nat /\ s.reso \in AllReso
  BY <1>1, <1>2, <1>6, <1>7
<1>11. /\ area.right <= 10 * device.width =>
            Near(s.width, Dots(area.right - area.left, s.reso), (17 * s.reso) \div d.x + 9)
       /\ area.bottom <= 10 * device.height =>
            Near(s.lines, Dots(area.bottom - area.top, s.reso), s.reso \div d.y + 2)
  BY <1>1, <1>8, <1>9
<1> QED
  BY <1>1, <1>10, <1>11 DEF s, a

-----------------------------------------------------------------------------
(* The inductive invariant.                                                *)

\* What a scan is said to give is what ScanStart() has worked out.
ToldInv ==
  told # None =>
    /\ scan # None
    /\ told.pixels = scan.width /\ told.lines = scan.lines
    /\ told.bytes = BytesPerLine(scan.width, told.mode)

ScanInv ==
  scan # None =>
    /\ scan.reso \in AllReso /\ scan.width \in Nat /\ scan.bytes \in Nat
    /\ scan.width = OutPixels([colour |-> Colour(scan.mode)], scan.bytes)

Inv == OptionsInv /\ AreaInv /\ ScanInv /\ ToldInv /\ AreaOnGlass /\ PictureAsAsked

\* What Start makes of the options, when it makes a scan.
LEMMA Scanned ==
  ASSUME OptionsInv, AreaInv, Start, scan' # None
  PROVE  \E d : /\ scan' = ScanParameters(mm', d) /\ Known(d, device)
                /\ Placed(mm', d, device) /\ (~Doubled(d.answered) => Exact(d, device))
<1>1. AreaInv' /\ model' = model
  BY AreaStored DEF Start
<1>2. PICK xy \in Answers[opt.reso] :
        LET d == QueryScanInfo(Answer(xy))
        IN  /\ ~AreaRefused(mm') /\ ~(d.source = "FB" /\ mm'.top >= d.height - 80)
            /\ scan' = ScanParameters(mm', d)
  BY DEF Start
<1> DEFINE d == QueryScanInfo(Answer(xy))
<1>3. Known(d, device) /\ (~Doubled(d.answered) => Exact(d, device))
  BY DeviceKnown
<1>4. /\ ~AreaRefused(mm') /\ ~(d.source = "FB" /\ mm'.top >= d.height - 80)
      /\ scan' = ScanParameters(mm', d)
  BY <1>2
<1> HIDE DEF d
<1>5. Placed(mm', d, device)
  <2>1. /\ mm'.left \in Nat /\ mm'.right \in Nat /\ mm'.top \in Nat /\ mm'.bottom \in Nat
        /\ mm'.bottom <= SupportScanAreaHeight(model)
    BY <1>1 DEF AreaInv
  <2>2. SupportScanAreaHeight(model) \in Nat /\ SupportScanAreaHeight(model) <= 3556
    BY ModelSides DEF Sides
  <2>3. mm'.right - mm'.left >= 80 /\ mm'.bottom - mm'.top >= 80
    BY <1>4, <2>1 DEF AreaRefused
  <2>4. d.source = "FB" => mm'.top < d.height - 80
    <3>1. d.height \in Nat
      <4>1. device.height \in Nat /\ d.height = 10 * device.height
        BY <1>3, DevicesAssumption DEF Known, OptionsInv
      <4> QED
        BY <4>1
    <3> QED
      BY <1>4, <2>1, <3>1
  <2> QED
    BY <2>1, <2>2, <2>3, <2>4 DEF Placed
<1> QED
  BY <1>3, <1>4, <1>5

LEMMA StartOnGlass ==
  ASSUME OptionsInv, NEW d, scan' = ScanParameters(mm', d), Known(d, device),
         Placed(mm', d, device), ~Doubled(d.answered) => Exact(d, device),
         model' = model, device' = device
  PROVE  AreaOnGlass'
<1> DEFINE a == DeviceScanArea(mm', d)
<1>1. scan'.dots = a /\ scan'.d = d /\ scan'.mode = opt.mode
  BY DEF ScanParameters
<1>2. PICK l \in Nat, r \in Nat :
         l + 16 <= r /\ r <= d.pixels /\ a.left = Round16(l) /\ a.right = Round16(r)
  BY AcrossTheGlass DEF OptionsInv
<1>3. d.pixels \in Nat /\ d.pixels < 65528
  BY DEF Known
<1>4. l < 65528 /\ r < 65528
  BY <1>2, <1>3
<1>5. /\ a.left \in Nat /\ a.left % 16 = 0 /\ a.right \in Nat /\ a.right % 16 = 0
      /\ a.right - a.left >= 16 /\ a.right <= r + 8
  <2>1. Round16(l) \in Nat /\ Round16(l) % 16 = 0
    BY <1>4, Rounded
  <2>2. Round16(r) \in Nat /\ Round16(r) % 16 = 0 /\ Round16(r) <= r + 8
    BY <1>4, Rounded
  <2>3. Round16(r) - Round16(l) >= 16
    BY <1>2, <1>4, RoundedApart
  <2> QED
    BY <1>2, <2>1, <2>2, <2>3
<1>6. /\ a.top \in Nat /\ a.bottom \in Nat /\ a.top < a.bottom
      /\ d.source = "FB" => a.bottom <= d.raster
  BY DownTheGlass DEF OptionsInv
<1>7. GlassDoubled' <=> Doubled(d.answered)
  BY <1>1 DEF GlassDoubled, Doubled
<1> HIDE DEF a
<1>8. a.right <= d.pixels + 8
  BY <1>2, <1>3, <1>5
<1>9. Exact(d, device) =>
        /\ a.right <= Dots(10 * device.width, d.x) + 8
        /\ d.source = "FB" => a.bottom <= Dots(10 * device.height, d.y)
  BY <1>6, <1>8 DEF Exact
<1> QED
  BY <1>1, <1>5, <1>6, <1>7, <1>9 DEF AreaOnGlass

LEMMA StartStep ==
  ASSUME Inv, Start
  PROVE  Inv'
<1>1. /\ model' = model /\ device' = device /\ opt' = opt /\ told' = told
      /\ scan = None /\ mm' = AreaMm
  BY DEF Start
<1>2. OptionsInv'
  BY <1>1 DEF Inv, OptionsInv, RangeMax
<1>3. AreaInv'
  BY <1>1, AreaStored DEF Inv
<1>4. ToldInv'
  BY <1>1 DEF Inv, ToldInv
<1>5. CASE scan' = None
  BY <1>2, <1>3, <1>4, <1>5 DEF Inv, ScanInv, AreaOnGlass, PictureAsAsked
<1>6. CASE scan' # None
  <2>1. PICK d : /\ scan' = ScanParameters(mm', d) /\ Known(d, device)
                 /\ Placed(mm', d, device) /\ (~Doubled(d.answered) => Exact(d, device))
    BY <1>6, Scanned DEF Inv
  <2>2. AreaOnGlass'
    BY <1>1, <2>1, StartOnGlass DEF Inv
  <2> DEFINE s == ScanParameters(mm', d)
  <2>3. /\ s.reso \in AllReso /\ s.width \in Nat /\ s.bytes \in Nat
        /\ s.width = OutPixels([colour |-> Colour(s.mode)], s.bytes)
        /\ s.mm = mm' /\ s.d = d
        /\ mm'.right <= 10 * device.width =>
             Near(s.width, Dots(mm'.right - mm'.left, s.reso), (17 * s.reso) \div d.x + 9)
        /\ mm'.bottom <= 10 * device.height =>
             Near(s.lines, Dots(mm'.bottom - mm'.top, s.reso), s.reso \div d.y + 2)
    BY <2>1, ScanStarts DEF Inv
  <2> HIDE DEF s
  <2>4. scan' = s
    BY <2>1 DEF s
  <2>5. ScanInv'
    BY <2>3, <2>4 DEF ScanInv
  <2>6. PictureAsAsked'
    <3>1. mm'.bottom <= Lesser(3556, 10 * device.height) => mm'.bottom <= 10 * device.height
      <4>1. PICK h \in Nat, b \in Nat : h = 10 * device.height /\ b = mm'.bottom
        <5>1. device.height \in Nat /\ mm'.bottom \in Nat
          BY <1>3, DevicesAssumption DEF Inv, OptionsInv, AreaInv
        <5>2. 10 * device.height \in Nat
          BY <5>1
        <5> QED
          BY <5>1, <5>2
      <4> QED
        BY <4>1 DEF Lesser
    <3> QED
      BY <1>1, <2>3, <2>4, <3>1 DEF PictureAsAsked
  <2> QED
    BY <1>2, <1>3, <1>4, <2>2, <2>5, <2>6 DEF Inv
<1> QED
  BY <1>5, <1>6

THEOREM Invariance == Spec => []Inv
<1>1. Init => Inv
  <2> SUFFICES ASSUME Init PROVE Inv
    OBVIOUS
  <2>1. scan = None /\ told = None
    BY DEF Init
  <2> QED
    BY <2>1, OptionsInit DEF Inv, ScanInv, ToldInv, AreaOnGlass, PictureAsAsked
<1>2. Inv /\ [Next]_vars => Inv'
  <2> SUFFICES ASSUME Inv, [Next]_vars PROVE Inv'
    OBVIOUS
  <2> USE DEF Inv
  <2>1. CASE SetOption
    <3>1. UNCHANGED <<model, device, mm, scan, told>>
      BY <2>1 DEF SetOption
    <3>2. OptionsInv'
      BY <2>1, OptionsStep
    <3>3. AreaInv' /\ ScanInv' /\ ToldInv'
      BY <3>1 DEF AreaInv, ScanInv, ToldInv
    <3>4. AreaOnGlass' /\ PictureAsAsked'
      BY <3>1 DEF AreaOnGlass, PictureAsAsked, GlassDoubled
    <3> QED
      BY <3>2, <3>3, <3>4
  <2>2. CASE Start
    BY <2>2, StartStep
  <2>3. CASE GetParameters
    <3>1. UNCHANGED <<model, device, opt, scan>> /\ mm' = AreaMm
      BY <2>3 DEF GetParameters
    <3>2. OptionsInv'
      BY <3>1 DEF OptionsInv, RangeMax
    <3>3. AreaInv'
      BY <3>1, AreaStored
    <3>4. ScanInv'
      BY <3>1 DEF ScanInv
    <3>5. ToldInv'
      BY <2>3, <3>1 DEF ToldInv, GetParameters
    <3>6. AreaOnGlass' /\ PictureAsAsked'
      BY <3>1 DEF AreaOnGlass, PictureAsAsked, GlassDoubled
    <3> QED
      BY <3>2, <3>3, <3>4, <3>5, <3>6
  <2>4. CASE Cancel
    <3>1. UNCHANGED <<model, device, opt, mm>> /\ scan' = None /\ told' = None
      BY <2>4 DEF Cancel
    <3>2. OptionsInv' /\ AreaInv'
      BY <3>1 DEF OptionsInv, RangeMax, AreaInv
    <3> QED
      BY <3>1, <3>2 DEF ScanInv, ToldInv, AreaOnGlass, PictureAsAsked
  <2>5. CASE UNCHANGED vars
    <3>1. UNCHANGED <<model, device, opt, mm, scan, told>>
      BY <2>5 DEF vars
    <3>2. OptionsInv' /\ AreaInv'
      BY <3>1 DEF OptionsInv, RangeMax, AreaInv
    <3> QED
      BY <3>1, <3>2 DEF ScanInv, ToldInv, AreaOnGlass, PictureAsAsked, GlassDoubled
  <2> QED
    BY <2>1, <2>2, <2>3, <2>4, <2>5 DEF Next
<1> QED
  BY <1>1, <1>2, PTL DEF Spec

-----------------------------------------------------------------------------
(* The options are what the model offers, whatever the frontend sets them  *)
(* to, and an area has its sides in order.                                 *)
THEOREM Types == Spec => []TypeOK
<1>1. Inv => TypeOK
  BY DEF Inv, OptionsInv, AreaInv, ScanInv, TypeOK
<1> QED
  BY <1>1, Invariance, PTL

(* The area sent to the device is on its glass for any glass, answer and   *)
(* corners, but for the glass the second build believes larger.            *)
THEOREM OnGlass == Spec => []AreaOnGlass
<1>1. Inv => AreaOnGlass
  BY DEF Inv
<1> QED
  BY <1>1, Invariance, PTL

(* The picture of an area on the glass has the size asked for.             *)
THEOREM AsAsked == Spec => []PictureAsAsked
<1>1. Inv => PictureAsAsked
  BY DEF Inv
<1> QED
  BY <1>1, Invariance, PTL

(* The frontend is told of the picture that the scan gives.                *)
THEOREM AsTold == Spec => []ParametersHold
<1>1. Inv => ParametersHold
  <2> SUFFICES ASSUME Inv, scan # None, told # None, told.mode = scan.mode
               PROVE  told.bytes = scan.bytes \/ EndsInPixel
    BY DEF Inv, ToldInv, ParametersHold
  <2>1. PICK b \in Nat : b = scan.bytes
    BY DEF Inv, ScanInv
  <2>2. told.bytes = BytesPerLine(OutPixels([colour |-> Colour(scan.mode)], b), scan.mode)
    BY <2>1 DEF Inv, ScanInv, ToldInv
  <2>3. CASE scan.mode \in {"FUL", "FUL_NOCM"}
    <3>1. told.bytes = 3 * (b \div 3)
      BY <2>2, <2>3 DEF BytesPerLine, OutPixels, Colour
    <3>2. b % 3 = 0 => 3 * (b \div 3) = b
      BY SMT
    <3> QED
      BY <2>1, <2>3, <3>1, <3>2 DEF EndsInPixel
  <2>4. CASE scan.mode = "TG"
    BY <2>1, <2>2, <2>4 DEF BytesPerLine, OutPixels, Colour
  <2>5. CASE scan.mode \notin {"FUL", "FUL_NOCM", "TG"}
    <3>1. told.bytes = (8 * b + 7) \div 8
      BY <2>2, <2>5 DEF BytesPerLine, OutPixels, Colour
    <3>2. (8 * b + 7) \div 8 = b
      BY SMT
    <3> QED
      BY <2>1, <3>1, <3>2
  <2> QED
    BY <2>3, <2>4, <2>5
<1> QED
  BY <1>1, Invariance, PTL
=============================================================================
