----------------------------- MODULE ScanStreams -----------------------------
(***************************************************************************)
(* Streams of a DS-640, in the fragments of Brscan5Stream: what the        *)
(* captures of docs/brscan5-protocol.md hold, cut down to one or two runs  *)
(* of data, and what the unit tests feed to the parser.                    *)
(***************************************************************************)
EXTENDS Sequences

Progress == <<"nul", "x02", "body">>
Endstat  == <<"nul", "x11", "body">>
PageEnd  == <<"nul", "x21", "body">>
ScanEnd  == <<"nul", "x20">>
Unknown  == <<"nul", "x33", "body">>
Eoi      == <<"ff", "d9">>
Block    == <<"nul", "x01", "hdr", "pay">>

(* a page as the captures have it: progress in the data, padding behind it *)
JpegScan    == Progress \o <<"dat">> \o Progress \o <<"dat">> \o Eoi
               \o <<"pad", "pad">> \o Endstat \o PageEnd \o ScanEnd
(* a progress record on its way when the EOI marker is half sent           *)
JpegSplit   == Progress \o <<"dat", "ff">> \o Progress \o <<"d9">>
               \o PageEnd \o ScanEnd
(* an id the parser does not know, once before and once behind the data    *)
JpegUnknown == Progress \o <<"dat">> \o Eoi \o Unknown \o Endstat \o ScanEnd
(* two pages in one session                                                *)
JpegTwice   == Progress \o <<"dat">> \o Eoi \o PageEnd
               \o Progress \o <<"dat">> \o Eoi \o PageEnd \o ScanEnd
(* B/W: one block per scanline, no EOI                                     *)
RleScan     == Block \o Block \o Progress \o Block \o PageEnd \o ScanEnd

(* the device goes on after the end of the session                         *)
JpegOverrun == Progress \o <<"dat">> \o Eoi \o ScanEnd \o Endstat \o <<"pad">>

CutStreams == {JpegScan, JpegSplit, JpegUnknown, JpegTwice, JpegOverrun, RleScan}

CapturedScans == {JpegScan, JpegSplit, JpegUnknown, JpegTwice, RleScan}

(* a B/W page that ends in bytes that are no block                         *)
RleBroken   == Block \o <<"dat">> \o Block \o PageEnd \o ScanEnd

(* one page as a device sends it that does its part                        *)
GoodJpeg    == Progress \o <<"dat">> \o Progress \o <<"dat">> \o Eoi
               \o <<"pad">> \o Endstat \o PageEnd \o ScanEnd
GoodRle     == Block \o Block \o PageEnd \o ScanEnd
(* the session ends before the page does                                   *)
NoPage      == Progress \o PageEnd \o ScanEnd

GoodScans   == {GoodJpeg, GoodRle}
SessionScans == GoodScans \cup {NoPage, RleBroken}
=============================================================================
