-------------------------- MODULE SaneHandlesProofs --------------------------
(***************************************************************************)
(* The properties of SaneHandles, for any sets of handles and devices.     *)
(*                                                                         *)
(* None is inductive: what a handle has of its own depends on what the     *)
(* globals had before it was opened and on what may still be changed by    *)
(* handles that are there. The invariant says of every global which        *)
(* handles it can belong to, and which handles must have been crossed if   *)
(* it belongs to another.                                                  *)
(***************************************************************************)
EXTENDS SaneHandles, FiniteSetTheorems, TLAPS

-----------------------------------------------------------------------------
(* The inductive invariant.                                                *)

(* A handle not in the list has nothing; one in the list has a device; an  *)
(* open one has ops, and one without ops is on USB and has claimed nothing. *)
HandleInv ==
  /\ \A h \in Handles : st[h] = "none" => (h \notin ops /\ conn[h] = None)
  /\ \A h \in Handles : st[h] # "none" => dev[h] \in Devices
  /\ \A h \in Handles : st[h] = "open" => h \in ops
  /\ \A h \in Handles : (st[h] = "failed" /\ h \notin ops) => (Usb(h) /\ h \notin claims)
  /\ \A h \in started : st[h] = "open"
  /\ scanning \subseteq started
  /\ \A h \in claims : conn[h] \in UsbDevices

(* g_pdev is the device of the handle opened last, if that is on USB.      *)
DeviceInv ==
  /\ \A h \in Handles : (st[h] # "none" /\ Usb(h)) => g_pdev \in UsbDevices
  /\ \A h \in Handles : (st[h] # "none" /\ ~Usb(h)) => conn[h] \in {None, dev[h]}
  /\ \A h \in Handles : (h = last /\ st[h] # "none" /\ Usb(h))
       => (g_pdev = dev[h] /\ conn[h] \in {None, dev[h]})

(* The receive buffer is that of an active handle, and has crossed all     *)
(* others; who was not crossed has all that it scans with.                 *)
ScanInv ==
  /\ rx # None => /\ rx \in Handles /\ st[rx] = "open"
                  /\ rx \in started \/ conn[rx] # None
                  /\ \A g \in Handles \ {rx} : st[g] # "none" => g \in crossed
  /\ buf # None => buf \in Handles /\ st[buf] = "open"
  /\ job # None => job \in Handles /\ st[job] = "open"
  /\ \A h \in scanning : conn[h] # None /\ (Usb(h) => h \in claims)
  /\ \A h \in scanning \ crossed :
       /\ rx = h /\ buf = h /\ job = h /\ (Usb(h) => taken)
       /\ asked <= room \/ again
       /\ hGray \in {None, h, Private}

(* The semaphore is taken by a handle that will release it when it ends;   *)
(* no claim is lost; but for a scan that was started again.                *)
ClaimInv ==
  /\ taken => (again \/ \E g \in Handles : st[g] # "none" /\ g \in ops /\ conn[g] \in UsbDevices)
  /\ again \/ lost = {}

(* The gray table in use is that of an open handle, one of the scan's own, *)
(* or freed; a handle whose table was freed by another has been crossed.   *)
GrayInv ==
  /\ hGray \in Handles => st[hGray] = "open"
  /\ hGray = Private => \E h \in Handles : st[h] # "none"
  /\ \A h \in spoilt : h \in crossed /\ st[h] = "open"

(* The option lists are those of an open handle, or freed by a close; a    *)
(* handle whose lists another one has freed has been crossed by it.        *)
ListInv ==
  /\ lists \in Handles => st[lists] = "open"
  /\ \A h \in Handles : (st[h] = "open" /\ h = last) 
       => (range = dev[h] /\ ((lists = h /\ h \notin dangling) \/ closed))
  /\ \A h \in dangling : st[h] = "open" /\ h \in crossed /\ lists # h
  /\ lists = Freed => (Ndebug /\ (closed \/ \E h \in Handles : st[h] = "failed"))

(* Between sane_exit() and sane_init() there is no handle, and before the  *)
(* second sane_init() the list of devices is as long as their number.      *)
UpInv ==
  /\ up = "down" => \A h \in Handles : st[h] = "none"
  /\ inits = 0 => num_devices = 0 /\ up = "down"
  /\ inits = 1 => num_devices = Cardinality(Devices)

(* The inductive invariant. EndsAreKnown is part of it: the process can     *)
(* end in a way only while the rest explains it.                           *)
IInv ==
  /\ TypeOK /\ HandleInv /\ DeviceInv /\ ScanInv /\ ClaimInv
  /\ GrayInv /\ ListInv /\ UpInv /\ EndsAreKnown

-----------------------------------------------------------------------------
(* Proofs. Each part of the invariant is preserved by every step. Steps    *)
(* that end the program change nothing else.                               *)

Ending == end' \in Ends /\ Die(end')

(* So do those of a page, but for what they leave of it.                   *)
Paging ==
  /\ more' \subseteq Handles
  /\ UNCHANGED <<st, dev, ops, conn, claims, started, scanning, listVars, g_pdev, optionVars,
                 scanVars, grayVars, taken, lost, end, ghostVars, crossed, again>>

LEMMA Steps ==
  ASSUME IInv, Next
  PROVE  \/ SaneInit \/ SaneExit \/ SaneExitEnds \/ Ending \/ Paging
         \/ \E h \in Handles :
              \/ OpenUnclaimed(h) \/ OpenRefused(h) \/ OpenNoDecoder(h) \/ OpenSucceeds(h)
              \/ SaneCancel(h) \/ SaneClose(h)
              \/ StartUnclaimed(h) \/ StartUnconnected(h) \/ StartRefused(h)
              \/ StartUndecoded(h) \/ StartScans(h) \/ StartEnds(h) \/ SaneReadEnds(h)
<1>1. ASSUME NEW why \in Ends, Die(why) PROVE Ending
  BY <1>1 DEF Ending, Die
<1>2. /\ SaneGetDevices => Ending
      /\ \A h \in Handles : OpenDefault(h) \/ OpenWaits(h) \/ SaneControlOption(h)
                            \/ StartWaits(h) \/ StartSpoilt(h) \/ StartNextPageDies(h)
                            \/ SaneReadDies(h) \/ SaneReadOverflows(h)
                            \/ SaneCancelDies(h) \/ SaneCloseDies(h) => Ending
  BY <1>1 DEF Ends, SaneGetDevices, OpenDefault, OpenWaits, SaneControlOption, StartWaits,
              StartSpoilt, StartNextPageDies, SaneReadDies, SaneReadOverflows,
              SaneCancelDies, SaneCloseDies
<1>3. \A h \in Handles : StartNextPage(h) \/ SaneReadPage(h) => Paging
  BY DEF StartNextPage, SaneReadPage, Paging, IInv, TypeOK, HandleTypes
<1> QED
  BY <1>2, <1>3 DEF Next, SaneOpen, SaneStart, SaneRead


(* The handles: who opens, starts, ends and closes.                        *)
LEMMA HandleNext ==
  ASSUME IInv, Next
  PROVE  HandleInv'
<1> USE ValuesAssumption, DevicesAssumption
    DEF IInv, TypeOK, HandleTypes, ProcessTypes, HandleInv, DeviceInv,
        Usb, Devices, Open, Linked, listVars, optionVars, scanVars, grayVars, ghostVars
<1>1. ASSUME SaneInit PROVE HandleInv'
  BY <1>1 DEF SaneInit
<1>2. ASSUME SaneExit PROVE HandleInv'
  BY <1>2 DEF SaneExit
<1>3. ASSUME SaneExitEnds PROVE HandleInv'
  BY <1>3 DEF SaneExitEnds, Linked
<1>4. ASSUME Ending PROVE HandleInv'
  BY <1>4 DEF Ending, Die
<1>5. ASSUME NEW h \in Handles, OpenUnclaimed(h) PROVE HandleInv'
  BY <1>5 DEF OpenUnclaimed, Free, Link
<1>6. ASSUME NEW h \in Handles, OpenRefused(h) PROVE HandleInv'
  BY <1>6 DEF OpenRefused, Free, Link, Ready, Claimed
<1>7. ASSUME NEW h \in Handles, OpenNoDecoder(h) PROVE HandleInv'
  BY <1>7 DEF OpenNoDecoder, Free, Link, Ready, Claimed
<1>8. ASSUME NEW h \in Handles, OpenSucceeds(h) PROVE HandleInv'
  BY <1>8 DEF OpenSucceeds, Free, Link, Ready, Claimed
<1>9. ASSUME NEW h \in Handles, SaneCancel(h) PROVE HandleInv'
  BY <1>9 DEF SaneCancel, ScanEnd, GrayBad, Open, Linked
<1>10. ASSUME NEW h \in Handles, SaneClose(h) PROVE HandleInv'
  BY <1>10 DEF SaneClose, Closing, ScanEnd, FreeLists, GrayBad, Open, Linked
<1>11. ASSUME NEW h \in Handles, StartUnclaimed(h) PROVE HandleInv'
  BY <1>11 DEF StartUnclaimed, Begin, FirstPage, LostNow, Target, Open
<1>12. ASSUME NEW h \in Handles, StartUnconnected(h) PROVE HandleInv'
  BY <1>12 DEF StartUnconnected, Begin, FirstPage, LostNow, Open
<1>13. ASSUME NEW h \in Handles, StartRefused(h) PROVE HandleInv'
  BY <1>13 DEF StartRefused, Connect, Begin, FirstPage, LostNow, Target, Claimable, Open
<1>14. ASSUME NEW h \in Handles, StartUndecoded(h) PROVE HandleInv'
  BY <1>14 DEF StartUndecoded, Connect, Begin, FirstPage, LostNow, Target, Claimable, Open, Linked
<1>15. ASSUME NEW h \in Handles, StartScans(h) PROVE HandleInv'
  BY <1>15
  DEF StartScans, AllocReceiveBuffer, Connect, Begin, FirstPage, LostNow, Target, Claimable, Open,
      Linked
<1>16. ASSUME NEW h \in Handles, StartEnds(h) PROVE HandleInv'
  BY <1>16 DEF StartEnds, Begin, FirstPage, LostNow, Target, Claimable, Open, Linked
<1>17. ASSUME NEW h \in Handles, SaneReadEnds(h) PROVE HandleInv'
  BY <1>17 DEF SaneReadEnds, Reading, Open
<1>18. ASSUME Paging PROVE HandleInv'
  BY <1>18 DEF Paging
<1> QED
  BY <1>1, <1>2, <1>3, <1>4, <1>5, <1>6, <1>7, <1>8, <1>9,
     <1>10, <1>11, <1>12, <1>13, <1>14, <1>15, <1>16, <1>17, <1>18, Steps

(* g_pdev: only sane_open() sets it.                                       *)
LEMMA DeviceNext ==
  ASSUME IInv, Next
  PROVE  DeviceInv'
<1> USE ValuesAssumption, DevicesAssumption
    DEF IInv, TypeOK, HandleTypes, ProcessTypes, HandleInv, DeviceInv,
        Usb, Devices, Open, Linked, listVars, optionVars, scanVars, grayVars, ghostVars
<1>1. ASSUME SaneInit PROVE DeviceInv'
  BY <1>1 DEF SaneInit
<1>2. ASSUME SaneExit PROVE DeviceInv'
  BY <1>2 DEF SaneExit
<1>3. ASSUME SaneExitEnds PROVE DeviceInv'
  BY <1>3 DEF SaneExitEnds, Linked
<1>4. ASSUME Ending PROVE DeviceInv'
  BY <1>4 DEF Ending, Die
<1>5. ASSUME NEW h \in Handles, OpenUnclaimed(h) PROVE DeviceInv'
  BY <1>5 DEF OpenUnclaimed, Free, Link
<1>6. ASSUME NEW h \in Handles, OpenRefused(h) PROVE DeviceInv'
  BY <1>6 DEF OpenRefused, Free, Link, Ready, Claimed
<1>7. ASSUME NEW h \in Handles, OpenNoDecoder(h) PROVE DeviceInv'
  BY <1>7 DEF OpenNoDecoder, Free, Link, Ready, Claimed
<1>8. ASSUME NEW h \in Handles, OpenSucceeds(h) PROVE DeviceInv'
  BY <1>8 DEF OpenSucceeds, Free, Link, Ready, Claimed
<1>9. ASSUME NEW h \in Handles, SaneCancel(h) PROVE DeviceInv'
  BY <1>9 DEF SaneCancel, ScanEnd, GrayBad, Open, Linked
<1>10. ASSUME NEW h \in Handles, SaneClose(h) PROVE DeviceInv'
  BY <1>10 DEF SaneClose, Closing, ScanEnd, FreeLists, GrayBad, Open, Linked
<1>11. ASSUME NEW h \in Handles, StartUnclaimed(h) PROVE DeviceInv'
  BY <1>11 DEF StartUnclaimed, Begin, FirstPage, LostNow, Target, Open
<1>12. ASSUME NEW h \in Handles, StartUnconnected(h) PROVE DeviceInv'
  BY <1>12 DEF StartUnconnected, Begin, FirstPage, LostNow, Open
<1>13. ASSUME NEW h \in Handles, StartRefused(h) PROVE DeviceInv'
  BY <1>13 DEF StartRefused, Connect, Begin, FirstPage, LostNow, Target, Claimable, Open
<1>14. ASSUME NEW h \in Handles, StartUndecoded(h) PROVE DeviceInv'
  BY <1>14 DEF StartUndecoded, Connect, Begin, FirstPage, LostNow, Target, Claimable, Open, Linked
<1>15. ASSUME NEW h \in Handles, StartScans(h) PROVE DeviceInv'
  BY <1>15
  DEF StartScans, AllocReceiveBuffer, Connect, Begin, FirstPage, LostNow, Target, Claimable, Open,
      Linked
<1>16. ASSUME NEW h \in Handles, StartEnds(h) PROVE DeviceInv'
  BY <1>16 DEF StartEnds, Begin, FirstPage, LostNow, Target, Claimable, Open, Linked
<1>17. ASSUME NEW h \in Handles, SaneReadEnds(h) PROVE DeviceInv'
  BY <1>17 DEF SaneReadEnds, Reading, Open
<1>18. ASSUME Paging PROVE DeviceInv'
  BY <1>18 DEF Paging
<1> QED
  BY <1>1, <1>2, <1>3, <1>4, <1>5, <1>6, <1>7, <1>8, <1>9,
     <1>10, <1>11, <1>12, <1>13, <1>14, <1>15, <1>16, <1>17, <1>18, Steps

(* The scans: whoever takes a buffer from another has crossed it.          *)
LEMMA ScanNext ==
  ASSUME IInv, Next
  PROVE  ScanInv'
<1> USE ValuesAssumption, DevicesAssumption, SizesAssumption
    DEF IInv, TypeOK, HandleTypes, ProcessTypes, HandleInv, DeviceInv, ScanInv,
        Usb, Devices, Open, Linked, listVars, optionVars, scanVars, grayVars, ghostVars
<1>1. ASSUME SaneInit PROVE ScanInv'
  BY <1>1 DEF SaneInit
<1>2. ASSUME SaneExit PROVE ScanInv'
  BY <1>2 DEF SaneExit
<1>3. ASSUME SaneExitEnds PROVE ScanInv'
  BY <1>3 DEF SaneExitEnds, Linked
<1>4. ASSUME Ending PROVE ScanInv'
  BY <1>4 DEF Ending, Die
<1>5. ASSUME NEW h \in Handles, OpenUnclaimed(h) PROVE ScanInv'
  BY <1>5 DEF OpenUnclaimed, Free, Link
<1>6. ASSUME NEW h \in Handles, OpenRefused(h) PROVE ScanInv'
  BY <1>6 DEF OpenRefused, Free, Link, Ready, Claimed
<1>7. ASSUME NEW h \in Handles, OpenNoDecoder(h) PROVE ScanInv'
  BY <1>7 DEF OpenNoDecoder, Free, Link, Ready, Claimed
<1>8. ASSUME NEW h \in Handles, OpenSucceeds(h) PROVE ScanInv'
  BY <1>8 DEF OpenSucceeds, Free, Link, Ready, Claimed
<1>9. ASSUME NEW h \in Handles, SaneCancel(h) PROVE ScanInv'
  BY <1>9 DEF SaneCancel, ScanEnd, GrayBad, Open, Linked
<1>10. ASSUME NEW h \in Handles, SaneClose(h) PROVE ScanInv'
  BY <1>10 DEF SaneClose, Closing, ScanEnd, FreeLists, GrayBad, Open, Linked
<1>11. ASSUME NEW h \in Handles, StartUnclaimed(h) PROVE ScanInv'
  BY <1>11 DEF StartUnclaimed, Begin, FirstPage, LostNow, Target, Open
<1>12. ASSUME NEW h \in Handles, StartUnconnected(h) PROVE ScanInv'
  BY <1>12 DEF StartUnconnected, Begin, FirstPage, LostNow, Open
<1>13. ASSUME NEW h \in Handles, StartRefused(h) PROVE ScanInv'
  BY <1>13 DEF StartRefused, Connect, Begin, FirstPage, LostNow, Target, Claimable, Open
<1>14. ASSUME NEW h \in Handles, StartUndecoded(h) PROVE ScanInv'
  BY <1>14 DEF StartUndecoded, Connect, Begin, FirstPage, LostNow, Target, Claimable, Open, Linked
<1>15. ASSUME NEW h \in Handles, StartScans(h) PROVE ScanInv'
  <2>1. rx \notin {None, h} => h \in crossed
    BY <1>15 DEF StartScans, Connect, Begin, FirstPage, Open
  <2>2. rx = h => again'
    <3>1. ASSUME rx = h PROVE conn[h] # None
      BY <1>15, <3>1 DEF StartScans, Connect, Begin, FirstPage
    <3>2. conn[h] # None => again'
      BY <1>15, Zenon DEF StartScans, Connect, Begin
    <3> QED
      BY <3>1, <3>2
  <2>3. rx = None => asked' <= room'
    <3>1. ASSUME rx = None PROVE room' = asked' /\ asked' \in Nat
      BY <1>15, <3>1 DEF StartScans, AllocReceiveBuffer
    <3> QED
      BY <3>1
  <2> QED
    BY <1>15, <2>1, <2>2, <2>3
    DEF StartScans, AllocReceiveBuffer, Connect, Begin, FirstPage, Target, Open, Linked
<1>16. ASSUME NEW h \in Handles, StartEnds(h) PROVE ScanInv'
  BY <1>16 DEF StartEnds, Begin, FirstPage, LostNow, Target, Claimable, Open, Linked
<1>17. ASSUME NEW h \in Handles, SaneReadEnds(h) PROVE ScanInv'
  BY <1>17 DEF SaneReadEnds, Reading, Open
<1>18. ASSUME Paging PROVE ScanInv'
  BY <1>18 DEF Paging
<1> QED
  BY <1>1, <1>2, <1>3, <1>4, <1>5, <1>6, <1>7, <1>8, <1>9,
     <1>10, <1>11, <1>12, <1>13, <1>14, <1>15, <1>16, <1>17, <1>18, Steps

(* A connection that is forgotten is noted.                                *)
LEMMA BeginForgets ==
  ASSUME IInv, NEW h \in Handles, Begin(h)
  PROVE  /\ again \/ conn[h] # None => again'
         /\ again' \/ lost' = {}
<1>1. again \/ conn[h] # None => again'
  BY Zenon DEF Begin
<1>2. h \in claims => conn[h] # None
  BY ValuesAssumption DEF IInv, HandleInv, Devices
<1>3. h \notin claims => lost' = lost
  BY DEF Begin, LostNow
<1>4. again \/ lost = {}
  BY DEF IInv, ClaimInv
<1> QED
  BY <1>1, <1>2, <1>3, <1>4

(* A start that disconnects, and takes no semaphore.                       *)
LEMMA DisconnectClaims ==
  ASSUME IInv, NEW h \in Handles, Begin(h), taken' = taken, UNCHANGED <<st, ops>>,
         \A g \in Handles \ {h} : conn'[g] = conn[g]
  PROVE  ClaimInv'
BY BeginForgets, ValuesAssumption DEF IInv, ClaimInv, Devices

(* A start that takes the semaphore has a connection to release it by.     *)
LEMMA ConnectClaims ==
  ASSUME IInv, NEW h \in Handles, Connect(h), UNCHANGED <<st, ops>>
  PROVE  ClaimInv'
<1>1. /\ again \/ conn[h] # None => again'
      /\ again' \/ lost' = {}
  BY BeginForgets DEF Connect
<1>2. \A g \in Handles \ {h} : conn'[g] = conn[g]
  BY DEF IInv, TypeOK, HandleTypes, Connect
<1>3. CASE Usb(h)
  <2>1. conn'[h] \in UsbDevices /\ st'[h] # "none" /\ h \in ops'
    BY <1>3 DEF IInv, TypeOK, HandleTypes, ProcessTypes, HandleInv, DeviceInv,
                Connect, Begin, FirstPage, Target, Open
  <2> QED
    BY <1>1, <2>1 DEF ClaimInv
<1>4. CASE ~Usb(h)
  <2>1. taken' = taken
    BY <1>4 DEF Connect
  <2> QED
    BY <1>1, <1>2, <2>1, ValuesAssumption DEF IInv, ClaimInv, Devices
<1> QED
  BY <1>3, <1>4


(* The semaphore and the claims.                                           *)
LEMMA ClaimNext ==
  ASSUME IInv, Next
  PROVE  ClaimInv'
<1> USE ValuesAssumption, DevicesAssumption
    DEF IInv, TypeOK, HandleTypes, ProcessTypes, HandleInv, DeviceInv, ClaimInv,
        Usb, Devices, Open, Linked, listVars, optionVars, scanVars, grayVars, ghostVars
<1>1. ASSUME SaneInit PROVE ClaimInv'
  BY <1>1 DEF SaneInit
<1>2. ASSUME SaneExit PROVE ClaimInv'
  BY <1>2 DEF SaneExit
<1>3. ASSUME SaneExitEnds PROVE ClaimInv'
  BY <1>3 DEF SaneExitEnds, Linked
<1>4. ASSUME Ending PROVE ClaimInv'
  BY <1>4 DEF Ending, Die
<1>5. ASSUME NEW h \in Handles, OpenUnclaimed(h) PROVE ClaimInv'
  BY <1>5 DEF OpenUnclaimed, Free, Link
<1>6. ASSUME NEW h \in Handles, OpenRefused(h) PROVE ClaimInv'
  BY <1>6 DEF OpenRefused, Free, Link, Ready, Claimed
<1>7. ASSUME NEW h \in Handles, OpenNoDecoder(h) PROVE ClaimInv'
  BY <1>7 DEF OpenNoDecoder, Free, Link, Ready, Claimed
<1>8. ASSUME NEW h \in Handles, OpenSucceeds(h) PROVE ClaimInv'
  BY <1>8 DEF OpenSucceeds, Free, Link, Ready, Claimed
<1>9. ASSUME NEW h \in Handles, SaneCancel(h) PROVE ClaimInv'
  BY <1>9 DEF SaneCancel, ScanEnd, GrayBad, Open, Linked
<1>10. ASSUME NEW h \in Handles, SaneClose(h) PROVE ClaimInv'
  BY <1>10 DEF SaneClose, Closing, ScanEnd, FreeLists, GrayBad, Open, Linked
<1>11. ASSUME NEW h \in Handles, StartUnclaimed(h) PROVE ClaimInv'
  BY <1>11, DisconnectClaims DEF StartUnclaimed
<1>12. ASSUME NEW h \in Handles, StartUnconnected(h) PROVE ClaimInv'
  BY <1>12, DisconnectClaims DEF StartUnconnected
<1>13. ASSUME NEW h \in Handles, StartRefused(h) PROVE ClaimInv'
  BY <1>13, ConnectClaims DEF StartRefused
<1>14. ASSUME NEW h \in Handles, StartUndecoded(h) PROVE ClaimInv'
  BY <1>14, ConnectClaims DEF StartUndecoded
<1>15. ASSUME NEW h \in Handles, StartScans(h) PROVE ClaimInv'
  BY <1>15, ConnectClaims DEF StartScans
<1>16. ASSUME NEW h \in Handles, StartEnds(h) PROVE ClaimInv'
  BY <1>16, DisconnectClaims DEF StartEnds
<1>17. ASSUME NEW h \in Handles, SaneReadEnds(h) PROVE ClaimInv'
  BY <1>17 DEF SaneReadEnds, Reading, Open
<1>18. ASSUME Paging PROVE ClaimInv'
  BY <1>18 DEF Paging
<1> QED
  BY <1>1, <1>2, <1>3, <1>4, <1>5, <1>6, <1>7, <1>8, <1>9,
     <1>10, <1>11, <1>12, <1>13, <1>14, <1>15, <1>16, <1>17, <1>18, Steps

(* The gray table.                                                         *)
LEMMA GrayNext ==
  ASSUME IInv, Next
  PROVE  GrayInv'
<1> USE ValuesAssumption, DevicesAssumption
    DEF IInv, TypeOK, HandleTypes, ProcessTypes, HandleInv, GrayInv,
        Usb, Devices, Open, Linked, listVars, optionVars, scanVars, grayVars, ghostVars
<1>1. ASSUME SaneInit PROVE GrayInv'
  BY <1>1 DEF SaneInit
<1>2. ASSUME SaneExit PROVE GrayInv'
  BY <1>2 DEF SaneExit
<1>3. ASSUME SaneExitEnds PROVE GrayInv'
  BY <1>3 DEF SaneExitEnds, Linked
<1>4. ASSUME Ending PROVE GrayInv'
  BY <1>4 DEF Ending, Die
<1>5. ASSUME NEW h \in Handles, OpenUnclaimed(h) PROVE GrayInv'
  BY <1>5 DEF OpenUnclaimed, Free, Link
<1>6. ASSUME NEW h \in Handles, OpenRefused(h) PROVE GrayInv'
  BY <1>6 DEF OpenRefused, Free, Link, Ready, Claimed
<1>7. ASSUME NEW h \in Handles, OpenNoDecoder(h) PROVE GrayInv'
  BY <1>7 DEF OpenNoDecoder, Free, Link, Ready, Claimed
<1>8. ASSUME NEW h \in Handles, OpenSucceeds(h) PROVE GrayInv'
  BY <1>8 DEF OpenSucceeds, Free, Link, Ready, Claimed
<1>9. ASSUME NEW h \in Handles, SaneCancel(h) PROVE GrayInv'
  BY <1>9 DEF SaneCancel, ScanEnd, GrayBad, Open, Linked
<1>10. ASSUME NEW h \in Handles, SaneClose(h) PROVE GrayInv'
  BY <1>10 DEF SaneClose, Closing, ScanEnd, FreeLists, GrayBad, Open, Linked
<1>11. ASSUME NEW h \in Handles, StartUnclaimed(h) PROVE GrayInv'
  BY <1>11 DEF StartUnclaimed, Begin, FirstPage, LostNow, Target, Open
<1>12. ASSUME NEW h \in Handles, StartUnconnected(h) PROVE GrayInv'
  BY <1>12 DEF StartUnconnected, Begin, FirstPage, LostNow, Open
<1>13. ASSUME NEW h \in Handles, StartRefused(h) PROVE GrayInv'
  BY <1>13 DEF StartRefused, Connect, Begin, FirstPage, LostNow, Target, Claimable, Open
<1>14. ASSUME NEW h \in Handles, StartUndecoded(h) PROVE GrayInv'
  BY <1>14 DEF StartUndecoded, Connect, Begin, FirstPage, LostNow, Target, Claimable, Open, Linked
<1>15. ASSUME NEW h \in Handles, StartScans(h) PROVE GrayInv'
  BY <1>15
  DEF StartScans, AllocReceiveBuffer, Connect, Begin, FirstPage, LostNow, Target, Claimable, Open,
      Linked
<1>16. ASSUME NEW h \in Handles, StartEnds(h) PROVE GrayInv'
  BY <1>16 DEF StartEnds, Begin, FirstPage, LostNow, Target, Claimable, Open, Linked
<1>17. ASSUME NEW h \in Handles, SaneReadEnds(h) PROVE GrayInv'
  BY <1>17 DEF SaneReadEnds, Reading, Open
<1>18. ASSUME Paging PROVE GrayInv'
  BY <1>18 DEF Paging
<1> QED
  BY <1>1, <1>2, <1>3, <1>4, <1>5, <1>6, <1>7, <1>8, <1>9,
     <1>10, <1>11, <1>12, <1>13, <1>14, <1>15, <1>16, <1>17, <1>18, Steps

(* The option lists.                                                       *)
LEMMA ListNext ==
  ASSUME IInv, Next
  PROVE  ListInv'
<1> USE ValuesAssumption, DevicesAssumption
    DEF IInv, TypeOK, HandleTypes, ProcessTypes, HandleInv, ListInv,
        Usb, Devices, Open, Linked, listVars, optionVars, scanVars, grayVars, ghostVars
<1>1. ASSUME SaneInit PROVE ListInv'
  BY <1>1 DEF SaneInit
<1>2. ASSUME SaneExit PROVE ListInv'
  BY <1>2 DEF SaneExit
<1>3. ASSUME SaneExitEnds PROVE ListInv'
  BY <1>3 DEF SaneExitEnds, Linked
<1>4. ASSUME Ending PROVE ListInv'
  BY <1>4 DEF Ending, Die
<1>5. ASSUME NEW h \in Handles, OpenUnclaimed(h) PROVE ListInv'
  BY <1>5 DEF OpenUnclaimed, Free, Link
<1>6. ASSUME NEW h \in Handles, OpenRefused(h) PROVE ListInv'
  BY <1>6 DEF OpenRefused, Free, Link, Ready, Claimed
<1>7. ASSUME NEW h \in Handles, OpenNoDecoder(h) PROVE ListInv'
  BY <1>7 DEF OpenNoDecoder, Free, Link, Ready, Claimed
<1>8. ASSUME NEW h \in Handles, OpenSucceeds(h) PROVE ListInv'
  BY <1>8 DEF OpenSucceeds, Free, Link, Ready, Claimed
<1>9. ASSUME NEW h \in Handles, SaneCancel(h) PROVE ListInv'
  BY <1>9 DEF SaneCancel, ScanEnd, GrayBad, Open, Linked
<1>10. ASSUME NEW h \in Handles, SaneClose(h) PROVE ListInv'
  BY <1>10 DEF SaneClose, Closing, ScanEnd, FreeLists, GrayBad, Open, Linked
<1>11. ASSUME NEW h \in Handles, StartUnclaimed(h) PROVE ListInv'
  BY <1>11 DEF StartUnclaimed, Begin, FirstPage, LostNow, Target, Open
<1>12. ASSUME NEW h \in Handles, StartUnconnected(h) PROVE ListInv'
  BY <1>12 DEF StartUnconnected, Begin, FirstPage, LostNow, Open
<1>13. ASSUME NEW h \in Handles, StartRefused(h) PROVE ListInv'
  BY <1>13 DEF StartRefused, Connect, Begin, FirstPage, LostNow, Target, Claimable, Open
<1>14. ASSUME NEW h \in Handles, StartUndecoded(h) PROVE ListInv'
  BY <1>14 DEF StartUndecoded, Connect, Begin, FirstPage, LostNow, Target, Claimable, Open, Linked
<1>15. ASSUME NEW h \in Handles, StartScans(h) PROVE ListInv'
  BY <1>15
  DEF StartScans, AllocReceiveBuffer, Connect, Begin, FirstPage, LostNow, Target, Claimable, Open,
      Linked
<1>16. ASSUME NEW h \in Handles, StartEnds(h) PROVE ListInv'
  BY <1>16 DEF StartEnds, Begin, FirstPage, LostNow, Target, Claimable, Open, Linked
<1>17. ASSUME NEW h \in Handles, SaneReadEnds(h) PROVE ListInv'
  BY <1>17 DEF SaneReadEnds, Reading, Open
<1>18. ASSUME Paging PROVE ListInv'
  BY <1>18 DEF Paging
<1> QED
  BY <1>1, <1>2, <1>3, <1>4, <1>5, <1>6, <1>7, <1>8, <1>9,
     <1>10, <1>11, <1>12, <1>13, <1>14, <1>15, <1>16, <1>17, <1>18, Steps

(* The life of the backend.                                                *)
LEMMA UpNext ==
  ASSUME IInv, Next
  PROVE  UpInv'
<1> USE ValuesAssumption, DevicesAssumption
    DEF IInv, TypeOK, ProcessTypes, UpInv,
        Usb, Devices, Open, Linked, listVars, optionVars, scanVars, grayVars, ghostVars
<1>1. ASSUME SaneInit PROVE UpInv'
  BY <1>1, FS_CardinalityType DEF SaneInit
<1>2. ASSUME SaneExit PROVE UpInv'
  BY <1>2 DEF SaneExit
<1>3. ASSUME SaneExitEnds PROVE UpInv'
  BY <1>3 DEF SaneExitEnds, Linked
<1>4. ASSUME Ending PROVE UpInv'
  BY <1>4 DEF Ending, Die
<1>5. ASSUME NEW h \in Handles, OpenUnclaimed(h) PROVE UpInv'
  BY <1>5 DEF OpenUnclaimed, Free, Link
<1>6. ASSUME NEW h \in Handles, OpenRefused(h) PROVE UpInv'
  BY <1>6 DEF OpenRefused, Free, Link, Ready, Claimed
<1>7. ASSUME NEW h \in Handles, OpenNoDecoder(h) PROVE UpInv'
  BY <1>7 DEF OpenNoDecoder, Free, Link, Ready, Claimed
<1>8. ASSUME NEW h \in Handles, OpenSucceeds(h) PROVE UpInv'
  BY <1>8 DEF OpenSucceeds, Free, Link, Ready, Claimed
<1>9. ASSUME NEW h \in Handles, SaneCancel(h) PROVE UpInv'
  BY <1>9 DEF SaneCancel, ScanEnd, GrayBad, Open, Linked
<1>10. ASSUME NEW h \in Handles, SaneClose(h) PROVE UpInv'
  BY <1>10 DEF SaneClose, Closing, ScanEnd, FreeLists, GrayBad, Open, Linked
<1>11. ASSUME NEW h \in Handles, StartUnclaimed(h) PROVE UpInv'
  BY <1>11 DEF StartUnclaimed, Begin, FirstPage, LostNow, Target, Open
<1>12. ASSUME NEW h \in Handles, StartUnconnected(h) PROVE UpInv'
  BY <1>12 DEF StartUnconnected, Begin, FirstPage, LostNow, Open
<1>13. ASSUME NEW h \in Handles, StartRefused(h) PROVE UpInv'
  BY <1>13 DEF StartRefused, Connect, Begin, FirstPage, LostNow, Target, Claimable, Open
<1>14. ASSUME NEW h \in Handles, StartUndecoded(h) PROVE UpInv'
  BY <1>14 DEF StartUndecoded, Connect, Begin, FirstPage, LostNow, Target, Claimable, Open, Linked
<1>15. ASSUME NEW h \in Handles, StartScans(h) PROVE UpInv'
  BY <1>15
  DEF StartScans, AllocReceiveBuffer, Connect, Begin, FirstPage, LostNow, Target, Claimable, Open,
      Linked
<1>16. ASSUME NEW h \in Handles, StartEnds(h) PROVE UpInv'
  BY <1>16 DEF StartEnds, Begin, FirstPage, LostNow, Target, Claimable, Open, Linked
<1>17. ASSUME NEW h \in Handles, SaneReadEnds(h) PROVE UpInv'
  BY <1>17 DEF SaneReadEnds, Reading, Open
<1>18. ASSUME Paging PROVE UpInv'
  BY <1>18 DEF Paging
<1> QED
  BY <1>1, <1>2, <1>3, <1>4, <1>5, <1>6, <1>7, <1>8, <1>9,
     <1>10, <1>11, <1>12, <1>13, <1>14, <1>15, <1>16, <1>17, <1>18, Steps

(* The types of what handles have.                                        *)
LEMMA HandleTypesNext ==
  ASSUME IInv, Next
  PROVE  HandleTypes'
<1> USE ValuesAssumption, DevicesAssumption
    DEF IInv, TypeOK, HandleTypes, ProcessTypes, HandleInv,
        Usb, Devices, Open, Linked, listVars, optionVars, scanVars, grayVars, ghostVars
<1>1. ASSUME SaneInit PROVE HandleTypes'
  BY <1>1 DEF SaneInit
<1>2. ASSUME SaneExit PROVE HandleTypes'
  BY <1>2 DEF SaneExit
<1>3. ASSUME SaneExitEnds PROVE HandleTypes'
  BY <1>3 DEF SaneExitEnds, Linked
<1>4. ASSUME Ending PROVE HandleTypes'
  BY <1>4 DEF Ending, Die
<1>5. ASSUME NEW h \in Handles, OpenUnclaimed(h) PROVE HandleTypes'
  BY <1>5 DEF OpenUnclaimed, Free, Link
<1>6. ASSUME NEW h \in Handles, OpenRefused(h) PROVE HandleTypes'
  BY <1>6 DEF OpenRefused, Free, Link, Ready, Claimed
<1>7. ASSUME NEW h \in Handles, OpenNoDecoder(h) PROVE HandleTypes'
  BY <1>7 DEF OpenNoDecoder, Free, Link, Ready, Claimed
<1>8. ASSUME NEW h \in Handles, OpenSucceeds(h) PROVE HandleTypes'
  BY <1>8 DEF OpenSucceeds, Free, Link, Ready, Claimed
<1>9. ASSUME NEW h \in Handles, SaneCancel(h) PROVE HandleTypes'
  BY <1>9 DEF SaneCancel, ScanEnd, GrayBad, Open, Linked
<1>10. ASSUME NEW h \in Handles, SaneClose(h) PROVE HandleTypes'
  BY <1>10 DEF SaneClose, Closing, ScanEnd, FreeLists, GrayBad, Open, Linked
<1>11. ASSUME NEW h \in Handles, StartUnclaimed(h) PROVE HandleTypes'
  BY <1>11 DEF StartUnclaimed, Begin, FirstPage, LostNow, Target, Open
<1>12. ASSUME NEW h \in Handles, StartUnconnected(h) PROVE HandleTypes'
  BY <1>12 DEF StartUnconnected, Begin, FirstPage, LostNow, Open
<1>13. ASSUME NEW h \in Handles, StartRefused(h) PROVE HandleTypes'
  BY <1>13 DEF StartRefused, Connect, Begin, FirstPage, LostNow, Target, Claimable, Open
<1>14. ASSUME NEW h \in Handles, StartUndecoded(h) PROVE HandleTypes'
  BY <1>14 DEF StartUndecoded, Connect, Begin, FirstPage, LostNow, Target, Claimable, Open, Linked
<1>15. ASSUME NEW h \in Handles, StartScans(h) PROVE HandleTypes'
  BY <1>15
  DEF StartScans, AllocReceiveBuffer, Connect, Begin, FirstPage, LostNow, Target, Claimable, Open,
      Linked
<1>16. ASSUME NEW h \in Handles, StartEnds(h) PROVE HandleTypes'
  BY <1>16 DEF StartEnds, Begin, FirstPage, LostNow, Target, Claimable, Open, Linked
<1>17. ASSUME NEW h \in Handles, SaneReadEnds(h) PROVE HandleTypes'
  BY <1>17 DEF SaneReadEnds, Reading, Open
<1>18. ASSUME Paging PROVE HandleTypes'
  BY <1>18 DEF Paging
<1> QED
  BY <1>1, <1>2, <1>3, <1>4, <1>5, <1>6, <1>7, <1>8, <1>9,
     <1>10, <1>11, <1>12, <1>13, <1>14, <1>15, <1>16, <1>17, <1>18, Steps

(* What Link() and Connect() set has its type.                             *)
LEMMA LinkTypes ==
  ASSUME ProcessTypes, NEW h \in Handles, NEW d, NEW state, Link(h, d, state)
  PROVE  /\ g_pdev' \in UsbDevices \cup {None} /\ last' \in Handles \cup {None}
         /\ closed' \in BOOLEAN /\ crossed' \subseteq Handles
<1>1. closed' \in BOOLEAN /\ last' \in Handles \cup {None}
  BY DEF Link
<1>2. g_pdev' \in UsbDevices \cup {None}
  BY DEF Link, ProcessTypes
<1>3. crossed' \in {crossed, crossed \cup {h}}
  BY DEF Link
<1> QED
  BY <1>1, <1>2, <1>3 DEF ProcessTypes

LEMMA ConnectTypes ==
  ASSUME IInv, NEW h \in Handles, Connect(h)
  PROVE  taken' \in BOOLEAN /\ again' \in BOOLEAN /\ lost' \subseteq UsbDevices
<1>1. taken' \in BOOLEAN
  BY Zenon DEF Connect, IInv, TypeOK, ProcessTypes
<1>2. again' \in BOOLEAN
  BY Zenon DEF Connect, Begin
<1>3. lost' \subseteq UsbDevices
  BY DEF Connect, Begin, LostNow, IInv, TypeOK, ProcessTypes, HandleInv
<1> QED
  BY <1>1, <1>2, <1>3

(* So have the globals after an open, and after a start that connects.     *)
LEMMA OpenTypes ==
  ASSUME IInv, NEW h \in Handles,
         OpenUnclaimed(h) \/ OpenRefused(h) \/ OpenNoDecoder(h) \/ OpenSucceeds(h)
  PROVE  ProcessTypes'
<1>1. PICK d \in Devices, state \in {"failed", "open"} : Link(h, d, state) 
  BY DEF OpenUnclaimed, OpenRefused, OpenNoDecoder, OpenSucceeds, Devices
<1>2. /\ g_pdev' \in UsbDevices \cup {None} /\ last' \in Handles \cup {None}
         /\ closed' \in BOOLEAN /\ crossed' \subseteq Handles
  BY <1>1, LinkTypes DEF IInv, TypeOK
<1>3. CASE OpenUnclaimed(h) \/ OpenNoDecoder(h)
  BY <1>2, <1>3 DEF IInv, TypeOK, ProcessTypes, OpenUnclaimed, OpenNoDecoder,
                       listVars, optionVars, scanVars, grayVars
<1>4. CASE OpenSucceeds(h)
  BY <1>2, <1>4 DEF IInv, TypeOK, ProcessTypes, OpenSucceeds, listVars, scanVars
<1>5. CASE OpenRefused(h)
  <2>1. taken' \in BOOLEAN
    BY <1>5, Zenon DEF OpenRefused, IInv, TypeOK, ProcessTypes
  <2> QED
    BY <1>2, <1>5, <2>1 DEF IInv, TypeOK, ProcessTypes, OpenRefused,
                              listVars, optionVars, scanVars, grayVars
<1> QED
  BY <1>3, <1>4, <1>5

LEMMA StartTypes ==
  ASSUME IInv, NEW h \in Handles, StartScans(h) \/ StartRefused(h) \/ StartUndecoded(h)
  PROVE  ProcessTypes'
<1>1. taken' \in BOOLEAN /\ again' \in BOOLEAN /\ lost' \subseteq UsbDevices
  BY ConnectTypes DEF StartScans, StartRefused, StartUndecoded
<1>2. CASE StartScans(h)
  BY <1>1, <1>2
  DEF IInv, TypeOK, ProcessTypes, StartScans, AllocReceiveBuffer, Linked,
      listVars, optionVars, ghostVars
<1>3. CASE StartRefused(h)
  BY <1>1, <1>3 DEF IInv, TypeOK, ProcessTypes, StartRefused,
                       listVars, optionVars, scanVars, grayVars, ghostVars
<1>4. CASE StartUndecoded(h)
  BY <1>1, <1>4 DEF IInv, TypeOK, ProcessTypes, StartUndecoded, Linked,
                       listVars, optionVars, grayVars, ghostVars
<1> QED
  BY <1>2, <1>3, <1>4


(* The types of the globals.                                               *)
LEMMA ProcessTypesNext ==
  ASSUME IInv, Next
  PROVE  ProcessTypes'
<1> USE ValuesAssumption, DevicesAssumption
    DEF IInv, TypeOK, HandleTypes, ProcessTypes, HandleInv, DeviceInv, Ends,
        Usb, Devices, Open, Linked, listVars, optionVars, scanVars, grayVars, ghostVars
<1>1. ASSUME SaneInit PROVE ProcessTypes'
  BY <1>1, FS_CardinalityType DEF SaneInit
<1>2. ASSUME SaneExit PROVE ProcessTypes'
  BY <1>2 DEF SaneExit
<1>3. ASSUME SaneExitEnds PROVE ProcessTypes'
  BY <1>3 DEF SaneExitEnds, Linked
<1>4. ASSUME Ending PROVE ProcessTypes'
  BY <1>4 DEF Ending, Die
<1>5. ASSUME NEW h \in Handles, OpenUnclaimed(h) PROVE ProcessTypes'
  BY <1>5, OpenTypes
<1>6. ASSUME NEW h \in Handles, OpenRefused(h) PROVE ProcessTypes'
  BY <1>6, OpenTypes
<1>7. ASSUME NEW h \in Handles, OpenNoDecoder(h) PROVE ProcessTypes'
  BY <1>7, OpenTypes
<1>8. ASSUME NEW h \in Handles, OpenSucceeds(h) PROVE ProcessTypes'
  BY <1>8, OpenTypes
<1>9. ASSUME NEW h \in Handles, SaneCancel(h) PROVE ProcessTypes'
  BY <1>9 DEF SaneCancel, ScanEnd, GrayBad, Open, Linked
<1>10. ASSUME NEW h \in Handles, SaneClose(h) PROVE ProcessTypes'
  BY <1>10 DEF SaneClose, Closing, ScanEnd, FreeLists, GrayBad, Open, Linked
<1>11. ASSUME NEW h \in Handles, StartUnclaimed(h) PROVE ProcessTypes'
  BY <1>11 DEF StartUnclaimed, Begin, FirstPage, LostNow, Target, Open
<1>12. ASSUME NEW h \in Handles, StartUnconnected(h) PROVE ProcessTypes'
  BY <1>12 DEF StartUnconnected, Begin, FirstPage, LostNow, Open
<1>13. ASSUME NEW h \in Handles, StartRefused(h) PROVE ProcessTypes'
  BY <1>13, StartTypes
<1>14. ASSUME NEW h \in Handles, StartUndecoded(h) PROVE ProcessTypes'
  BY <1>14, StartTypes
<1>15. ASSUME NEW h \in Handles, StartScans(h) PROVE ProcessTypes'
  BY <1>15, StartTypes
<1>16. ASSUME NEW h \in Handles, StartEnds(h) PROVE ProcessTypes'
  BY <1>16 DEF StartEnds, Begin, FirstPage, LostNow, Target, Claimable, Open, Linked
<1>17. ASSUME NEW h \in Handles, SaneReadEnds(h) PROVE ProcessTypes'
  BY <1>17 DEF SaneReadEnds, Reading, Open
<1>18. ASSUME Paging PROVE ProcessTypes'
  BY <1>18 DEF Paging
<1> QED
  BY <1>1, <1>2, <1>3, <1>4, <1>5, <1>6, <1>7, <1>8, <1>9,
     <1>10, <1>11, <1>12, <1>13, <1>14, <1>15, <1>16, <1>17, <1>18, Steps

(* The program ends only where one of the known causes is there.           *)
LEMMA EndNext ==
  ASSUME IInv, Next
  PROVE  EndsAreKnown'
<1> USE DEF IInv
<1>1. CASE end' = "no"
  BY <1>1 DEF EndsAreKnown
<1>2. ASSUME SaneGetDevices PROVE EndsAreKnown'
  BY <1>2, DevicesAssumption, FS_CardinalityType
     DEF SaneGetDevices, Die, EndsAreKnown, UpInv, TypeOK, ProcessTypes, listVars
<1>3. ASSUME NEW h \in Handles, OpenDefault(h) PROVE EndsAreKnown'
  BY <1>3 DEF OpenDefault, Die, EndsAreKnown
<1>4. ASSUME NEW h \in Handles, OpenWaits(h) \/ StartWaits(h) PROVE EndsAreKnown'
  BY <1>4 DEF OpenWaits, StartWaits, Die, EndsAreKnown, ClaimInv, Linked
<1>5. ASSUME NEW h \in Handles, SaneReadDies(h) PROVE EndsAreKnown'
  BY <1>5, ValuesAssumption
     DEF SaneReadDies, Reading, Die, EndsAreKnown, TypeOK, HandleTypes, ScanInv, GrayInv,
         Buffers, scanVars, grayVars, Open
<1>6. ASSUME NEW h \in Handles, SaneCancelDies(h) PROVE EndsAreKnown'
  BY <1>6 DEF SaneCancelDies, GrayBad, Die, EndsAreKnown, grayVars
<1>7. ASSUME NEW h \in Handles, SaneCloseDies(h) PROVE EndsAreKnown'
  <2>1. CASE h \notin ops /\ Die("ops")
    BY <1>7, <2>1 DEF SaneCloseDies, Closing, Die, EndsAreKnown, HandleInv, TypeOK, HandleTypes,
                      Linked, Open, Usb, listVars
  <2>2. CASE (GrayBad(h) \/ h \in spoilt) /\ Die("gray")
    BY <2>2 DEF GrayBad, GrayInv, Die, EndsAreKnown, grayVars
  <2>3. CASE lists = Freed /\ Die("lists")
    BY <2>3 DEF Die, EndsAreKnown, ListInv, Linked, optionVars, ghostVars
  <2> QED
    BY <1>7, <2>1, <2>2, <2>3 DEF SaneCloseDies
<1>8. ASSUME NEW h \in Handles, SaneControlOption(h) PROVE EndsAreKnown'
  BY <1>8 DEF SaneControlOption, Die, EndsAreKnown, ListInv, Open, optionVars
<1>9. ASSUME NEW h \in Handles, StartSpoilt(h) PROVE EndsAreKnown'
  BY <1>9 DEF StartSpoilt, Die, EndsAreKnown, GrayInv, grayVars
<1>10. ASSUME NEW h \in Handles, StartNextPageDies(h) PROVE EndsAreKnown'
  BY <1>10 DEF StartNextPageDies, Die, EndsAreKnown, ScanInv
<1>11. ASSUME NEW h \in Handles, SaneReadOverflows(h) PROVE EndsAreKnown'
  <2>1. again \/ h \in scanning \cap crossed
    <3>1. h \in scanning /\ room \in Nat /\ asked \in Nat /\ asked > room
      BY <1>11, SizesAssumption DEF SaneReadOverflows, Reading, TypeOK, ProcessTypes
    <3> QED
      BY <3>1 DEF ScanInv
  <2> QED
    BY <1>11, <2>1 DEF SaneReadOverflows, Die, EndsAreKnown
<1>12. end' = "no" \/ SaneGetDevices
       \/ \E h \in Handles :
            \/ OpenDefault(h) \/ OpenWaits(h) \/ SaneControlOption(h) \/ StartWaits(h)
            \/ StartSpoilt(h) \/ StartNextPageDies(h) \/ SaneReadDies(h)
            \/ SaneReadOverflows(h) \/ SaneCancelDies(h) \/ SaneCloseDies(h)
  <2>1. ASSUME NEW h \in Handles
        PROVE  OpenUnclaimed(h) \/ OpenRefused(h) \/ OpenNoDecoder(h) \/ OpenSucceeds(h)
               \/ SaneCancel(h) \/ SaneClose(h) \/ StartUnclaimed(h) \/ StartUnconnected(h)
               \/ StartRefused(h) \/ StartUndecoded(h) \/ StartScans(h) \/ StartEnds(h)
               \/ StartNextPage(h) \/ SaneReadEnds(h) \/ SaneReadPage(h) => end' = end
    BY DEF OpenUnclaimed, OpenRefused, OpenNoDecoder, OpenSucceeds, SaneCancel, SaneClose,
           StartUnclaimed, StartUnconnected, StartRefused, StartUndecoded, StartScans,
           StartEnds, StartNextPage, SaneReadEnds, SaneReadPage
  <2>2. SaneInit \/ SaneExit \/ SaneExitEnds => end' = end
    BY DEF SaneInit, SaneExit, SaneExitEnds
  <2> QED
    BY <2>1, <2>2 DEF Next, SaneOpen, SaneStart, SaneRead
<1> QED
  BY <1>1, <1>2, <1>3, <1>4, <1>5, <1>6, <1>7, <1>8, <1>9, <1>10, <1>11, <1>12

-----------------------------------------------------------------------------
(* The theorems.                                                           *)

(* The invariant holds in every state, whatever the frontend calls.        *)
THEOREM Invariance == Spec => []IInv
<1>1. Init => IInv
  <2>1. Init => HandleTypes
    BY DEF Init, HandleTypes
  <2>2. Init => ProcessTypes
    <3>1. ASSUME Init PROVE num_devices \in Nat /\ inits \in Nat
      BY <3>1 DEF Init
    <3>2. ASSUME Init PROVE taken \in BOOLEAN /\ closed \in BOOLEAN /\ again \in BOOLEAN
      BY <3>2, Zenon DEF Init
    <3>3. ASSUME Init
          PROVE  /\ up \in {"down", "up", "exit"} /\ g_pdev \in UsbDevices \cup {None}
                 /\ range \in Devices \cup {None} /\ lists \in Handles \cup {None, Freed}
                 /\ dangling \subseteq Handles /\ lost \subseteq UsbDevices /\ end \in Ends
      BY <3>3, Zenon DEF Init, Ends
    <3>4. ASSUME Init
          PROVE  /\ rx \in Handles \cup {None} /\ buf \in Handles \cup {None}
                 /\ job \in Handles \cup {None} /\ last \in Handles \cup {None}
                 /\ hGray \in Handles \cup {None, Freed, Private} /\ crossed \subseteq Handles
      BY <3>4, Zenon DEF Init
    <3>5. ASSUME Init PROVE room \in Sizes \cup {0} /\ asked \in Sizes \cup {0}
      BY <3>5 DEF Init
    <3> QED
      BY <3>1, <3>2, <3>3, <3>4, <3>5 DEF ProcessTypes
  <2>3. Init => HandleInv /\ DeviceInv /\ ScanInv /\ ClaimInv
    BY ValuesAssumption DEF Init, HandleInv, DeviceInv, ScanInv, ClaimInv, Devices, Usb
  <2>4. Init => GrayInv /\ ListInv /\ UpInv
    BY ValuesAssumption DEF Init, GrayInv, ListInv, UpInv
  <2>5. Init => EndsAreKnown
    BY DEF Init, EndsAreKnown
  <2> QED
    BY <2>1, <2>2, <2>3, <2>4, <2>5 DEF IInv, TypeOK
<1>2. IInv /\ [Next]_vars => IInv'
  <2> SUFFICES ASSUME IInv, [Next]_vars PROVE IInv'
    OBVIOUS
  <2>1. CASE Next
    BY <2>1, HandleNext, DeviceNext, ScanNext, ClaimNext, GrayNext, ListNext, UpNext,
       HandleTypesNext, ProcessTypesNext, EndNext DEF IInv, TypeOK
  <2>2. CASE UNCHANGED vars
    <3> USE <2>2 DEF vars, listVars, optionVars, scanVars, grayVars, ghostVars, IInv
    <3>1. TypeOK'
      BY DEF TypeOK, HandleTypes, ProcessTypes
    <3>2. HandleInv' /\ DeviceInv' /\ ScanInv' /\ ClaimInv'
      BY DEF HandleInv, DeviceInv, ScanInv, ClaimInv, Usb
    <3>3. GrayInv' /\ ListInv' /\ UpInv'
      BY DEF GrayInv, ListInv, UpInv
    <3>4. Linked' = Linked /\ Open' = Open /\ \A h \in Handles : Usb(h)' = Usb(h)
      BY DEF Linked, Open, Usb
    <3>5. EndsAreKnown'
      BY <3>4, Zenon DEF EndsAreKnown, Linked, Usb
    <3> QED
      BY <3>1, <3>2, <3>3, <3>5
  <2> QED
    BY <2>1, <2>2
<1> QED
  BY <1>1, <1>2, PTL DEF Spec

(* What the globals of sane_open() and ScanStart() have to do with each    *)
(* other never leaves its types.                                           *)
THEOREM Types == Spec => []TypeOK
BY Invariance, PTL DEF IInv

(* However many handles there are, the one opened last talks to its own    *)
(* device, and so do those on the network.                                 *)
THEOREM Connections == Spec => []OwnDevice
<1>1. IInv => OwnDevice
  BY DEF IInv, TypeOK, HandleTypes, ProcessTypes, DeviceInv, OwnDevice, Linked, Usb
<1> QED
  BY <1>1, Invariance, PTL

(* A scan that no other handle has crossed keeps its buffers, its decoder, *)
(* its claim and the semaphore, and is read within its receive buffer but  *)
(* for one that was started again as it was.                               *)
THEOREM Scans == Spec => []OwnScan
<1>1. IInv => OwnScan
  BY DEF IInv, ScanInv, OwnScan
<1> QED
  BY <1>1, Invariance, PTL

(* The options of the handle opened last are its own, and its descriptors  *)
(* point to lists that are there, until one is closed.                     *)
THEOREM Options == Spec => []OwnOptions
<1>1. IInv => OwnOptions
  BY DEF IInv, ListInv, OwnOptions, Open
<1> QED
  BY <1>1, Invariance, PTL

(* sane_exit() gives back all that any number of handles held.             *)
THEOREM Release == Spec => []ExitReleases
<1>1. IInv => ExitReleases
  BY DEF IInv, TypeOK, HandleTypes, ProcessTypes, UpInv, ScanInv, GrayInv, ListInv, ClaimInv, ExitReleases
<1> QED
  BY <1>1, Invariance, PTL

(* Whatever the devices, the number of handles and the sizes of scans, the *)
(* calls modelled misuse memory or wait for themselves only in the ways of *)
(* EndsAreKnown, which the invariant explains one by one.                  *)
THEOREM EndsKnown == Spec => []EndsAreKnown
BY Invariance, PTL DEF IInv

=============================================================================
