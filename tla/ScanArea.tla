------------------------------ MODULE ScanArea ------------------------------
(***************************************************************************)
(* From the options of a handle to the area a legacy device scans and the  *)
(* picture the frontend is told of: what a model offers                    *)
(* (brother_modelinf.c), the options with their constraints and            *)
(* sane_get_parameters() (brother.c), the device's answer to the I command *)
(* (brother_devinfo.c) and the area ScanStart() works out of all that      *)
(* (brother_scanner.c).                                                    *)
(*                                                                         *)
(* Lengths are in tenths of a millimetre, as the code has them; the        *)
(* corners among the options are SANE_Fixed, millimetres times 2^16. A     *)
(* device is known by its glass: it answers with as many dots as that has  *)
(* at the resolution it chooses.                                           *)
(***************************************************************************)
EXTENDS ResoParams

CONSTANTS
  Models,       (* records: the build (BRSANESUFFIX) and the series        *)
  Devices,      (* records: width and height of the glass in mm, source    *)
  Answers,      (* the resolutions a device may scan with, by that asked   *)
  Corners,      (* the places, in tenths, the frontend moves corners to    *)
  Resolutions,  (* the resolutions it tries                                *)
  MaxSets       (* bound on the options it sets                            *)

ASSUME ModelsAssumption == \A m \in Models : m.build \in {1, 2}
ASSUME DevicesAssumption ==
  \A d \in Devices : d.width \in Nat \ {0} /\ d.height \in Nat \ {0}
                     /\ d.source \in {"ADF", "FB"}
ASSUME FrontendAssumption == Corners \subseteq Int /\ MaxSets \in Nat

VARIABLES
  model, device,
  opt,          (* aoptVal: the mode, the resolution, the four corners     *)
  mm,           (* uiSetting.ScanAreaMm                                    *)
  scan,         (* what ScanStart() has made of it, while bScanning        *)
  told,         (* what sane_get_parameters() has said last, in a scan     *)
  sets
vars == <<model, device, opt, mm, scan, told, sets>>

None == [none |-> TRUE]
Lesser(a, b)  == IF a <= b THEN a ELSE b
Greater(a, b) == IF a >= b THEN a ELSE b

-----------------------------------------------------------------------------
(* What a model offers.                                                    *)

AllReso == {100, 150, 200, 300, 400, 600, 1200, 2400, 4800, 9600}

SupportReso(m) ==
  LET most == CASE m.series \in {"ALL_SF_TYPE", "YL4_SF_TYPE"}                 -> 1200
                [] m.series \in {"BH3_SF_TYPE", "BHL_SF_TYPE", "BHL2_SF_TYPE"} -> 2400
                [] OTHER                                                       -> 9600
  IN  {r \in AllReso : r <= most}

SupportScanMode(m) ==
  {"BW", "ED", "TG"} \cup
  CASE m.series \in {"ALL_SF_TYPE", "YL4_SF_TYPE", "ZLE_SF_TYPE", "ZL2_SF_TYPE"} -> {}
    [] m.series \in {"ALL_FB_DCP", "ALL_FB_ONLY", "AL_FB_DCP", "AL_DUPLEX",
                     "YL4_FB_DCP", "ZLE_FB_DCP", "ZL2_FB_DCP"}         -> {"FUL", "FUL_NOCM"}
    [] OTHER                                                           -> {"FUL"}

SupportScanAreaHeight(m) == IF m.build = 1 /\ m.series = "BHMINI_FB_ONLY" THEN 2970 ELSE 3556

SupportScanAreaWidth(m) ==
  IF m.build = 2 THEN 2159
  ELSE CASE m.series \in {"BHL2_SF_TYPE", "BHL2_FB_DCP"} -> 2100
         [] m.series = "ZL2_FB_DCP"                      -> 2120
         [] OTHER                                        -> 2080

-----------------------------------------------------------------------------
(* The options.                                                            *)

FIX(t)    == (t * 65536) \div 10            \* of tenths
Quant     == FIX(1)
Tenths(w) == (w * 10) \div 65536            \* (int)(SANE_UNFIX(w) * 10)

CornerNames == {"tlx", "tly", "brx", "bry"}

\* The upper end of the range of a corner.
RangeMax(c) ==
  FIX(IF c \in {"tlx", "brx"} THEN SupportScanAreaWidth(model) ELSE SupportScanAreaHeight(model))

\* Variant for the mutation check: what is over the range stays.
Unclamped(w, max) == ((w + Quant \div 2) \div Quant) * Quant

\* sanei_constrain_value() for a range that begins at 0.
Constrain(w, max) ==
  LET within == Lesser(Greater(w, 0), max)
  IN  ((within + Quant \div 2) \div Quant) * Quant

\* InitOptions(): the default corners are 215.9 x 355.6 mm, or the range.
InitOptions(m) ==
  [mode |-> IF "FUL" \in SupportScanMode(m) THEN "FUL" ELSE "BW",
   reso |-> 200, tlx |-> 0, tly |-> 0,
   brx |-> FIX(Lesser(2159, SupportScanAreaWidth(m))),
   bry |-> FIX(Lesser(3556, SupportScanAreaHeight(m)))]

\* The corners that SetupInternalParameters() gets as far as storing.
AreaMm ==
  IF opt.tlx = opt.brx THEN mm
  ELSE LET across == [mm EXCEPT !.left  = Tenths(Lesser(opt.tlx, opt.brx)),
                                !.right = Tenths(Greater(opt.tlx, opt.brx))]
       IN  IF opt.tly = opt.bry THEN across
           ELSE [across EXCEPT !.top    = Tenths(Lesser(opt.tly, opt.bry)),
                               !.bottom = Tenths(Greater(opt.tly, opt.bry))]

\* SetupInternalParameters() returns INVAL for the area it has stored.
AreaRefused(area) ==
  \/ opt.tlx = opt.brx \/ opt.tly = opt.bry
  \/ area.right - area.left + 1 <= 80 \/ area.bottom - area.top + 1 <= 80

BytesPerLine(pixels, mode) ==
  CASE mode \in {"FUL", "FUL_NOCM"} -> 3 * pixels
    [] mode = "TG"                  -> pixels
    [] OTHER                        -> (pixels + 7) \div 8

-----------------------------------------------------------------------------
(* What the device says of itself, and what is made of that.               *)

Dots(tenths, reso) == (tenths * reso) \div 254

(* A device answers for each resolution it can be asked for. It has 4 dpi   *)
(* or more, a glass 16 dots wide or more, and fewer dots than 16 bits hold *)
(* when they are rounded. The second build divides by y \div 300 in gray.   *)
ASSUME AnswersAssumption ==
  /\ {200} \cup (Resolutions \cap AllReso) \subseteq DOMAIN Answers
  /\ \A r \in DOMAIN Answers :
       /\ Answers[r] # {} /\ Answers[r] \subseteq Nat \X Nat
       /\ \A xy \in Answers[r] :
            /\ xy[1] >= 4 /\ xy[2] >= 4
            /\ xy[1] > 400 => xy[2] >= 300
            /\ \A d \in Devices :
                 /\ Dots(10 * d.width, Lesser(xy[1], 300)) >= 16
                 /\ Dots(10 * d.width, xy[1]) < 65528

\* The answer to the I command, with the resolutions xy.
Answer(xy) ==
  [x |-> xy[1], y |-> xy[2], answered |-> xy, source |-> device.source,
   pixels |-> Dots(10 * device.width, xy[1]), height |-> 10 * device.height,
   raster |-> Dots(10 * device.height, xy[2])]

(* QueryScanInfoProc(). The second build scans with 600 dpi at most, and   *)
(* with 300 in gray where that is over 400.                                *)
QueryScanInfo(a) ==
  LET x      == Lesser(a.x, 600)
      y      == Lesser(a.y, 600)
      gray   == opt.mode = "TG" /\ x > 400
      timesX == IF gray THEN x \div 300 ELSE IF a.x > 600 THEN a.x \div 600 ELSE 1
      timesY == IF gray THEN y \div 300 ELSE IF a.y > 600 THEN a.y \div 600 ELSE 1
  IN  IF model.build = 1 THEN a
      ELSE [a EXCEPT !.x = IF gray THEN 300 ELSE x, !.y = IF gray THEN 300 ELSE y,
                     !.pixels = @ \div timesX, !.raster = @ \div timesY]

\* Variant for the mutation check: rounded up.
RoundUp16(n) == (16 * ((n + 15) \div 16)) % 65536

Round16(n) == (16 * ((n + 8) \div 16)) % 65536        \* (n + 0x8) & 0xFFF0

\* GetDeviceScanArea(): an area of less than 16 dots is moved onto the glass.
DeviceScanArea(area, d) ==
  LET left   == Dots(area.left, d.x)
      right  == Lesser(Dots(area.right, d.x), d.pixels)
      narrow == right - left < 16
      moved  == narrow /\ left + 16 > d.pixels
      raster == IF d.source = "FB" THEN d.raster ELSE 14 * d.y
  IN  [left   |-> Round16(IF moved THEN d.pixels - 16 ELSE left),
       right  |-> Round16(IF moved THEN d.pixels ELSE IF narrow THEN left + 16 ELSE right),
       top    |-> Dots(area.top, d.y),
       bottom |-> Lesser(Dots(area.bottom, d.y), raster)]

Colour(mode) ==
  CASE mode \in {"FUL", "FUL_NOCM"} -> "RGB" [] mode = "TG" -> "GRAY" [] OTHER -> "BW"

\* Variant for the mutation check: across and down are swapped.
SwappedJob(area, d) ==
  [inX |-> d.y, inY |-> d.x, outX |-> opt.reso, outY |-> opt.reso, colour |-> Colour(opt.mode),
   pixels |-> area.right - area.left, order |-> "RGB", long |-> FALSE]

\* StartDecodeStretchProc(): the job of the decoder.
DecoderJob(area, d) ==
  [inX |-> d.x, inY |-> d.y, outX |-> opt.reso, outY |-> opt.reso, colour |-> Colour(opt.mode),
   pixels |-> area.right - area.left, order |-> "RGB", long |-> FALSE]

\* GetScanAreaParam() and StartDecodeStretchProc(): the scan of area.
ScanParameters(area, d) ==
  LET dots  == DeviceScanArea(area, d)
      setup == Setup(DecoderJob(dots, d))
  IN  [dots |-> dots, d |-> d, mode |-> opt.mode, reso |-> opt.reso, mm |-> area,
       possible |-> setup.way # "none", bytes |-> setup.outBytes, width |-> setup.outPixels,
       lines |-> ((dots.bottom - dots.top) * opt.reso) \div d.y]

-----------------------------------------------------------------------------
(* The calls.                                                              *)

Init ==
  /\ model \in Models /\ device \in Devices
  /\ opt = InitOptions(model)
  /\ mm = [left |-> 0, right |-> 0, top |-> 0, bottom |-> 0]
  /\ scan = None /\ told = None /\ sets = 0

\* sane_control_option() with SET_VALUE, at any time.
SetOption ==
  /\ sets < MaxSets /\ sets' = sets + 1
  /\ \/ \E v \in SupportScanMode(model) : opt' = [opt EXCEPT !.mode = v]
     \/ \E v \in Resolutions \cap SupportReso(model) : opt' = [opt EXCEPT !.reso = v]
     \/ \E c \in CornerNames, v \in Corners :
          opt' = [opt EXCEPT ![c] = Constrain(FIX(v), RangeMax(c))]
  /\ UNCHANGED <<model, device, mm, scan, told>>

(* sane_start() of a first page. It is refused for an area too small, one  *)
(* that begins at the end of the glass, or a change of resolution the      *)
(* decoder has no way for.                                                 *)
Start ==
  /\ scan = None
  /\ mm' = AreaMm
  /\ \E xy \in Answers[opt.reso] :
     \E d \in {QueryScanInfo(Answer(xy))} :
     \E s \in {ScanParameters(mm', d)} :
       scan' = IF AreaRefused(mm') \/ (d.source = "FB" /\ mm'.top >= d.height - 80) \/ ~s.possible
               THEN None ELSE s
  /\ UNCHANGED <<model, device, opt, told, sets>>

\* Variant for the mutation check: the size of the estimate, in a scan, too.
EstimatedParameters ==
  /\ mm' = AreaMm
  /\ LET width == Dots(mm'.right, opt.reso) - Dots(mm'.left, opt.reso)
     IN  told' = IF scan = None THEN None
                 ELSE [mode |-> opt.mode, pixels |-> width, bytes |-> BytesPerLine(width, opt.mode),
                       lines |-> scan.lines]
  /\ UNCHANGED <<model, device, opt, scan, sets>>

(* sane_get_parameters(). It sets up the area again, whatever the result;  *)
(* before a scan it gives an estimate.                                     *)
GetParameters ==
  /\ mm' = AreaMm
  /\ told' = IF scan = None THEN None
             ELSE [mode |-> opt.mode, pixels |-> scan.width,
                   bytes |-> BytesPerLine(scan.width, opt.mode), lines |-> scan.lines]
  /\ UNCHANGED <<model, device, opt, scan, sets>>

\* sane_cancel().
Cancel ==
  /\ scan # None /\ scan' = None /\ told' = None
  /\ UNCHANGED <<model, device, opt, mm, sets>>

Next == SetOption \/ Start \/ GetParameters \/ Cancel
Spec == Init /\ [][Next]_vars

-----------------------------------------------------------------------------
(* Properties.                                                             *)

(* The options are what the model offers, in the ranges it has: no         *)
(* rounding of a corner leaves its range. An area has its sides in order.  *)
TypeOK ==
  /\ opt.mode \in SupportScanMode(model) /\ opt.reso \in SupportReso(model)
  /\ \A c \in CornerNames : opt[c] \in 0..RangeMax(c)
  /\ 0 <= mm.left /\ mm.left <= mm.right /\ 0 <= mm.top /\ mm.top <= mm.bottom
  /\ scan # None => scan.reso \in AllReso /\ scan.width \in Nat /\ scan.bytes \in Nat

(* The known exception: where the second build scans with less than the   *)
(* device has answered, it divides the dots by a whole number that may be  *)
(* smaller than the ratio, in gray from more than 600 dpi by 2 instead of  *)
(* 4 or more, and believes the glass larger than it is.                    *)
GlassDoubled ==
  LET x == scan.d.answered[1]
      y == scan.d.answered[2]
  IN  /\ model.build = 2
      /\ IF scan.mode = "TG" /\ x > 400
         THEN x # 600 \/ y \notin {300, 600}
         ELSE (x > 600 /\ x % 600 # 0) \/ (y > 600 /\ y % 600 # 0)

(* The area sent to the device (GetDeviceScanArea()) is on its glass, up   *)
(* to half of the 16 dots it is rounded to, whatever the corners, and is   *)
(* never empty.                                                            *)
AreaOnGlass ==
  scan # None =>
    /\ 0 <= scan.dots.left /\ scan.dots.right - scan.dots.left >= 16
    /\ scan.dots.left % 16 = 0 /\ scan.dots.right % 16 = 0
    /\ 0 <= scan.dots.top /\ scan.dots.top < scan.dots.bottom
    /\ \/ GlassDoubled
       \/ /\ scan.dots.right <= Dots(10 * device.width, scan.d.x) + 8
          /\ scan.d.source = "FB" => scan.dots.bottom <= Dots(10 * device.height, scan.d.y)

Near(a, b, tolerance) == a - b <= tolerance /\ b - a <= tolerance

(* The picture of an area that is on the glass has its width and height at *)
(* the resolution asked for, up to the 16 dots of the device and a byte of *)
(* B/W: whatever resolutions, different across and down, the device scans  *)
(* with, what is asked, scanned and resampled fits together.               *)
PictureAsAsked ==
  (scan # None /\ scan.mm.right <= 10 * device.width
     /\ scan.mm.bottom <= Lesser(3556, 10 * device.height)) =>
    /\ Near(scan.width, Dots(scan.mm.right - scan.mm.left, scan.reso),
            (17 * scan.reso) \div scan.d.x + 9)
    /\ Near(scan.lines, Dots(scan.mm.bottom - scan.mm.top, scan.reso),
            scan.reso \div scan.d.y + 2)

(* The known exception: a line of colour resampled by a ratio of thirds    *)
(* may end inside a pixel, and is longer than what the frontend is told.   *)
EndsInPixel == scan.mode \in {"FUL", "FUL_NOCM"} /\ scan.bytes % 3 # 0

(* What sane_get_parameters() says during a scan is what the scan gives,   *)
(* line by line, as long as the mode is not set to another.                *)
ParametersHold ==
  (scan # None /\ told # None /\ told.mode = scan.mode) =>
    /\ told.bytes = scan.bytes \/ EndsInPixel
    /\ told.lines = scan.lines /\ told.pixels = scan.width
=============================================================================
