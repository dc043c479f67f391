----------------------------- MODULE MCScanArea -----------------------------
(***************************************************************************)
(* ScanArea on models of both builds, with a small glass and a large one.  *)
(***************************************************************************)
EXTENDS ScanArea, TLC

M(build, series) == [build |-> build, series |-> series]
MCModels == {M(1, "YL4_SF_TYPE"), M(1, "BHMINI_FB_ONLY"), M(1, "ZL2_FB_DCP"),
             M(2, "ALL_SF_TYPE"), M(2, "BH3_FB_DCP")}

MCDevices == {[width |-> 208, height |-> 291, source |-> "FB"],
              [width |-> 216, height |-> 356, source |-> "ADF"],
              [width |-> 104, height |-> 148, source |-> "FB"]}

\* The same, fewer across or down, more than asked, and no whole ratio.
MCAnswers ==
  (100 :> {<<100, 100>>, <<200, 100>>}) @@ (200 :> {<<200, 200>>})
    @@ (400 :> {<<200, 400>>, <<300, 300>>, <<600, 600>>, <<400, 400>>})
    @@ (1200 :> {<<300, 600>>, <<600, 600>>, <<1200, 1200>>})
    @@ (9600 :> {<<600, 600>>, <<2400, 1200>>})
MCResolutions == DOMAIN MCAnswers

MCCorners == {-10, 75, 1040, 2075, 2900, 3550}
=============================================================================
