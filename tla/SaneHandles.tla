----------------------------- MODULE SaneHandles -----------------------------
(***************************************************************************)
(* The handles of a frontend and what they share in its process: the list  *)
(* of devices, the list of handles and the option lists (brother.c), the   *)
(* device a scan opens, the buffers, the gray table and the decoder        *)
(* (brother_scanner.c) and the semaphore (brother_devaccs.c), all of them  *)
(* globals. Calls come one at a time, as SANE has it, with any number of   *)
(* handles open. Devices are legacy ones, over USB or the network, and     *)
(* have a gray table installed; other processes may have a USB device      *)
(* claimed, but not the semaphore.                                         *)
(*                                                                         *)
(* A program that would wait for itself, or use or free what is freed,     *)
(* stops there, and "end" says why.                                        *)
(***************************************************************************)
EXTENDS Naturals, FiniteSets

CONSTANTS
  Handles, UsbDevices, NetDevices,
  Ndebug,        (* a release build, where FREE() does not clear a pointer *)
  MaxInits,      (* bound on the calls of sane_init()                      *)
  Sizes,         (* of receive buffers: what a scan needs                  *)
  None, Freed, Private

Devices == UsbDevices \cup NetDevices

ASSUME DevicesAssumption ==
  IsFiniteSet(Devices) /\ UsbDevices \cap NetDevices = {}
ASSUME ValuesAssumption ==
  /\ None \notin Handles \cup Devices \cup {Freed, Private}
  /\ Freed \notin Handles \cup {Private} /\ Private \notin Handles
ASSUME BoundAssumption == MaxInits \in Nat /\ Ndebug \in BOOLEAN
ASSUME SizesAssumption == Sizes \subseteq Nat \ {0}

VARIABLES
  (* Of each handle:                                                       *)
  st,           (* "none", "failed": in the list of handles although       *)
                (* sane_open() returned an error, or "open"                *)
  dev,          (* its device                                              *)
  ops,          (* the handles with an ops table                           *)
  conn,         (* hScanner->usb or ->net: the device it is connected to   *)
  claims,       (* the handles whose connection has claimed the interface  *)
  started,      (* those with nPageCnt > 0                                 *)
  scanning,     (* those with bScanning                                    *)
  more,         (* those with a page to follow: iProcessEnd is SCAN_MPS,   *)
                (* and the device scans from its feeder                    *)
  spoilt,       (* those whose gray table another handle has freed         *)
  (* Of the process:                                                       *)
  up,           (* "down", "up", or "exit" within sane_exit()              *)
  num_devices,
  g_pdev,       (* the device last opened over USB                         *)
  lists,        (* whose option lists scanModeList and the others are, or  *)
                (* that they are freed                                     *)
  dangling,     (* the open handles whose option descriptors point to      *)
                (* lists that are freed                                    *)
  range,        (* the device whose glass the ranges of the corners have   *)
  rx, room,     (* who allocated hReceiveBuffer, and its size              *)
  asked,        (* dwRxBuffMaxSize: the size that reads take it to have    *)
  buf,          (* who allocated the other buffers                         *)
  job,          (* who opened the decoder                                  *)
  hGray,        (* the gray table in use: that of a handle, which may have *)
                (* been freed with it, or one of its own                   *)
  taken,        (* the process has taken the semaphore                     *)
  lost,         (* devices claimed by a connection no handle has any more  *)
  end,          (* how the program ended                                   *)
  (* For the properties:                                                   *)
  inits,        (* the calls of sane_init()                                *)
  last,         (* the handle sane_open() was called for last              *)
  closed,       (* a handle was closed since then                          *)
  crossed,      (* the handles that saw the scan of another start or end   *)
  again         (* a scan the device cancelled was started again as it was *)

listVars   == <<up, num_devices, inits>>
optionVars == <<lists, dangling, range>>
scanVars   == <<rx, room, asked, buf, job>>
grayVars   == <<hGray, spoilt>>
ghostVars  == <<last, closed>>
vars == <<st, dev, ops, conn, claims, started, scanning, more, listVars, g_pdev,
          optionVars, scanVars, grayVars, taken, lost, end, ghostVars, crossed, again>>

Linked == {h \in Handles : st[h] # "none"}      \* the list at pinstFirst
Open   == {h \in Handles : st[h] = "open"}

Die(why) ==
  /\ end' = why
  /\ UNCHANGED <<st, dev, ops, conn, claims, started, scanning, more, listVars, g_pdev,
                 optionVars, scanVars, grayVars, taken, lost, ghostVars, crossed, again>>

-----------------------------------------------------------------------------
(* The list of devices: the same ones are there at each sane_init().       *)

\* sane_init(): the list starts anew, the number does not.
SaneInit ==
  /\ up = "down" /\ inits < MaxInits
  /\ up' = "up" /\ inits' = inits + 1
  /\ num_devices' = num_devices + Cardinality(Devices)
  /\ UNCHANGED <<st, dev, ops, conn, claims, started, scanning, more, g_pdev, optionVars,
                 scanVars, grayVars, taken, lost, end, ghostVars, crossed, again>>

\* sane_get_devices() goes by the number.
SaneGetDevices ==
  /\ up = "up" /\ num_devices > Cardinality(Devices)
  /\ Die("devices")

-----------------------------------------------------------------------------
(* sane_open().                                                            *)

\* Another handle or a connection that is lost has claimed it.
Claimed(d) == d \in lost \/ \E g \in claims : conn[g] = d

\* OpenDevice() can be called, and does not wait for the semaphore.
Ready(d) == d \in NetDevices \/ (~Claimed(d) /\ ~taken)

\* Variant for the mutation check: g_pdev stays what the first open made it.
KeptLink(h, d, state) ==
  /\ st' = [st EXCEPT ![h] = state] /\ dev' = [dev EXCEPT ![h] = d]
  /\ g_pdev' = IF d \in UsbDevices /\ g_pdev = None THEN d ELSE g_pdev
  /\ last' = h /\ closed' = FALSE
  /\ crossed' = IF \E i \in Handles : i \in started \/ conn[i] # None
                THEN crossed \cup {h} ELSE crossed

(* A handle for d gets into the list, and over USB its device into g_pdev. *)
(* It may find another handle that scans.                                  *)
Link(h, d, state) ==
  /\ st' = [st EXCEPT ![h] = state] /\ dev' = [dev EXCEPT ![h] = d]
  /\ g_pdev' = IF d \in UsbDevices THEN d ELSE g_pdev
  /\ last' = h /\ closed' = FALSE
  /\ crossed' = IF \E i \in Handles : i \in started \/ conn[i] # None
                THEN crossed \cup {h} ELSE crossed

Free(h) == up = "up" /\ st[h] = "none"

\* usb_open() or usb_claim_interface() fails; the handle has no ops yet.
OpenUnclaimed(h) ==
  /\ Free(h)
  /\ \E d \in UsbDevices :
       Link(h, d, "failed") /\ \E c \in {None, d} : conn' = [conn EXCEPT ![h] = c]
  /\ UNCHANGED <<ops, claims, started, scanning, more, listVars, optionVars, scanVars,
                 grayVars, taken, lost, end, again>>

\* sane_open("") takes the first device for one on USB, whatever it is.
OpenDefault(h) ==
  /\ Free(h) /\ NetDevices # {}
  /\ Die("usb_open")

\* The interface is claimed, but OpenDevice() waits for the semaphore.
OpenWaits(h) ==
  /\ Free(h) /\ taken /\ \E d \in UsbDevices : ~Claimed(d)
  /\ Die("waits")

\* Variant for the mutation check: the ops are set after OpenDevice().
LateOps(h) ==
  /\ Free(h)
  /\ \E d \in Devices :
       /\ Ready(d) /\ Link(h, d, "failed")
       /\ \E c \in {d} \cup (IF d \in NetDevices THEN {None} ELSE {}) :
            conn' = [conn EXCEPT ![h] = c]
       /\ claims' = IF d \in UsbDevices THEN claims \cup {h} ELSE claims
       /\ taken'  = IF d \in UsbDevices THEN TRUE ELSE taken
  /\ UNCHANGED <<ops, started, scanning, more, listVars, optionVars, scanVars, grayVars, lost,
                 end, again>>

(* OpenDevice() or QueryDeviceInfo() fails: the connection stays, but for  *)
(* one over the network that was not made.                                 *)
OpenRefused(h) ==
  /\ Free(h)
  /\ \E d \in Devices :
       /\ Ready(d) /\ Link(h, d, "failed")
       /\ \E c \in {d} \cup (IF d \in NetDevices THEN {None} ELSE {}) :
            conn' = [conn EXCEPT ![h] = c]
       /\ claims' = IF d \in UsbDevices THEN claims \cup {h} ELSE claims
       /\ taken'  = IF d \in UsbDevices THEN TRUE ELSE taken
  /\ ops' = ops \cup {h}
  /\ UNCHANGED <<started, scanning, more, listVars, optionVars, scanVars, grayVars, lost,
                 end, again>>

\* Variant for the mutation check: cleaned up as by ScanEnd().
CleaningNoDecoder(h) ==
  /\ Free(h)
  /\ \E d \in Devices : Ready(d) /\ Link(h, d, "failed")
  /\ rx' = None /\ room' = 0 /\ buf' = None /\ job' = None
  /\ ops' = ops \cup {h}
  /\ UNCHANGED <<conn, claims, started, scanning, more, listVars, optionVars, asked,
                 grayVars, taken, lost, end, again>>

\* The device is closed again, but the scan library cannot be loaded.
OpenNoDecoder(h) ==
  /\ Free(h)
  /\ \E d \in Devices : Ready(d) /\ Link(h, d, "failed")
  /\ ops' = ops \cup {h}
  /\ UNCHANGED <<conn, claims, started, scanning, more, listVars, optionVars, scanVars,
                 grayVars, taken, lost, end, again>>

\* Variant for the mutation check: lists that are there are kept.
KeptLists(h) ==
  /\ Free(h)
  /\ \E d \in Devices : Ready(d) /\ Link(h, d, "open") /\ range' = d
  /\ ops' = ops \cup {h} /\ lists' = (IF lists = None THEN h ELSE lists)
  /\ hGray' \in {hGray} \cup (IF hGray = Freed THEN {h} ELSE {})
  /\ UNCHANGED <<conn, claims, started, scanning, more, listVars, dangling, scanVars, spoilt,
                 taken, lost, end, again>>

(* The device is closed again, the gray table loaded, perhaps to where the *)
(* freed one was that hGray has, and InitOptions() makes new lists and     *)
(* sets the ranges.                                                        *)
OpenSucceeds(h) ==
  /\ Free(h)
  /\ \E d \in Devices : Ready(d) /\ Link(h, d, "open") /\ range' = d
  /\ ops' = ops \cup {h} /\ lists' = h
  /\ hGray' \in {hGray} \cup (IF hGray = Freed THEN {h} ELSE {})
  /\ UNCHANGED <<conn, claims, started, scanning, more, listVars, dangling, scanVars, spoilt,
                 taken, lost, end, again>>

-----------------------------------------------------------------------------
(* ScanEnd(): what is scanned ends, whoever scans it. A gray table that is *)
(* not that of the handle is freed, which may be once too often. A handle  *)
(* of which the open has failed has no scan library to close the job with. *)

GrayBad(h) == hGray = Freed

ScanEnd(h) ==
  /\ started' = started \ {h}
  /\ conn' = [conn EXCEPT ![h] = None] /\ claims' = claims \ {h}
  /\ taken' = IF conn[h] \in UsbDevices THEN FALSE ELSE taken
  /\ rx' = None /\ room' = 0 /\ buf' = None /\ asked' = asked
  /\ job' = IF h \in Open THEN None ELSE job

\* sane_cancel().
SaneCancel(h) ==
  /\ up = "up" /\ h \in Open /\ ~GrayBad(h)
  /\ ScanEnd(h)
  /\ hGray' = IF hGray = h THEN h ELSE None
  /\ spoilt' = spoilt \cup ({hGray} \cap (Handles \ {h}))
  /\ scanning' = scanning \ {h}
  /\ crossed' = crossed \cup (Linked \ {h})
  /\ UNCHANGED <<st, dev, ops, more, listVars, g_pdev, optionVars, lost, end, ghostVars,
                 again>>

SaneCancelDies(h) == up = "up" /\ h \in Open /\ GrayBad(h) /\ Die("gray")

-----------------------------------------------------------------------------
(* sane_close(), for the frontend or for sane_exit(), which closes all     *)
(* handles in the list: the last opened first, here in any order.          *)

Closing(h) == (up = "up" /\ h \in Open) \/ (up = "exit" /\ h \in Linked)

(* The lists there are go, whoever has descriptors that point to them; a   *)
(* debug build clears the globals as well.                                 *)
FreeLists(h) ==
  /\ lists' = IF Ndebug /\ lists # None THEN Freed ELSE None
  /\ dangling' = (dangling \cup ({lists} \cap Handles)) \ {h}

\* Variant for the mutation check: ScanEnd() only while bScanning.
ScanningClose(h) ==
  /\ Closing(h) /\ h \in ops /\ ~GrayBad(h) /\ h \notin spoilt /\ lists # Freed
  /\ IF h \in scanning THEN ScanEnd(h)
     ELSE UNCHANGED <<started, conn, claims, taken, scanVars>>
  /\ hGray' = IF hGray = h THEN Freed ELSE None
  /\ spoilt' = spoilt \cup ({hGray} \cap (Handles \ {h}))
  /\ FreeLists(h)
  /\ st' = [st EXCEPT ![h] = "none"] /\ dev' = [dev EXCEPT ![h] = None]
  /\ ops' = ops \ {h} /\ scanning' = scanning \ {h} /\ more' = more \ {h}
  /\ closed' = TRUE /\ crossed' = (crossed \cup Linked) \ {h}
  /\ UNCHANGED <<listVars, g_pdev, range, lost, end, last, again>>

\* FreeGrayTable() leaves hGray as it is.
SaneClose(h) ==
  /\ Closing(h) /\ h \in ops /\ ~GrayBad(h) /\ h \notin spoilt /\ lists # Freed
  /\ ScanEnd(h)
  /\ hGray' = IF hGray = h THEN Freed ELSE None
  /\ spoilt' = spoilt \cup ({hGray} \cap (Handles \ {h}))
  /\ FreeLists(h)
  /\ st' = [st EXCEPT ![h] = "none"] /\ dev' = [dev EXCEPT ![h] = None]
  /\ ops' = ops \ {h} /\ scanning' = scanning \ {h} /\ more' = more \ {h}
  /\ closed' = TRUE /\ crossed' = (crossed \cup Linked) \ {h}
  /\ UNCHANGED <<listVars, g_pdev, range, lost, end, last, again>>

SaneCloseDies(h) ==
  /\ Closing(h)
  /\ \/ h \notin ops /\ Die("ops")
     \/ h \in ops /\ (GrayBad(h) \/ h \in spoilt) /\ Die("gray")
     \/ h \in ops /\ lists = Freed /\ Die("lists")

SaneExit ==
  /\ up = "up" /\ up' = "exit"
  /\ UNCHANGED <<st, dev, ops, conn, claims, started, scanning, more, num_devices, inits,
                 g_pdev, optionVars, scanVars, grayVars, taken, lost, end, ghostVars,
                 crossed, again>>

SaneExitEnds ==
  /\ up = "exit" /\ Linked = {} /\ up' = "down"
  /\ UNCHANGED <<st, dev, ops, conn, claims, started, scanning, more, num_devices, inits,
                 g_pdev, optionVars, scanVars, grayVars, taken, lost, end, ghostVars,
                 crossed, again>>

-----------------------------------------------------------------------------
(* sane_start(): ScanStart() for a first page.                             *)

FirstPage(h) == up = "up" /\ h \in Open /\ h \notin started

Usb(h) == dev[h] \in UsbDevices

\* The device that is opened.
Target(h) == IF Usb(h) THEN g_pdev ELSE dev[h]

\* A connection that was never closed is lost.
LostNow(h) == IF h \in claims THEN lost \cup {conn[h]} ELSE lost

Claimable(h) ==
  Target(h) \notin LostNow(h) /\ \A g \in claims \ {h} : conn[g] # Target(h)

Begin(h) ==
  /\ FirstPage(h)
  /\ lost' = LostNow(h) /\ again' = (again \/ conn[h] # None)

\* usb_open() or usb_claim_interface() fails.
StartUnclaimed(h) ==
  /\ Begin(h) /\ Usb(h)
  /\ \E c \in {None, Target(h)} : conn' = [conn EXCEPT ![h] = c]
  /\ claims' = claims \ {h} /\ started' = started \cup {h}
  /\ UNCHANGED <<st, dev, ops, scanning, more, listVars, g_pdev, optionVars, scanVars,
                 grayVars, taken, end, ghostVars, crossed>>

StartWaits(h) ==
  /\ FirstPage(h) /\ Usb(h) /\ Claimable(h) /\ taken
  /\ Die("waits")

\* OpenDevice() makes no connection over the network.
StartUnconnected(h) ==
  /\ Begin(h) /\ ~Usb(h)
  /\ conn' = [conn EXCEPT ![h] = None] /\ started' = started \cup {h}
  /\ UNCHANGED <<st, dev, ops, claims, scanning, more, listVars, g_pdev, optionVars, scanVars,
                 grayVars, taken, end, ghostVars, crossed>>

\* What the steps after OpenDevice() have in common.
Connect(h) ==
  /\ Begin(h) /\ (Usb(h) => (Claimable(h) /\ ~taken))
  /\ conn' = [conn EXCEPT ![h] = Target(h)] /\ started' = started \cup {h}
  /\ claims' = IF Usb(h) THEN claims \cup {h} ELSE claims
  /\ taken'  = IF Usb(h) THEN TRUE ELSE taken

\* OpenDevice(), the query or the area fails.
StartRefused(h) ==
  /\ Connect(h)
  /\ UNCHANGED <<st, dev, ops, scanning, more, listVars, g_pdev, optionVars, scanVars,
                 grayVars, end, ghostVars, crossed>>

\* StartDecodeStretchProc() fails.
StartUndecoded(h) ==
  /\ Connect(h)
  /\ job' = h /\ crossed' = crossed \cup (Linked \ {h})
  /\ UNCHANGED <<st, dev, ops, scanning, more, listVars, g_pdev, optionVars, rx, room,
                 asked, buf, grayVars, end, ghostVars>>

(* AllocReceiveBuffer() makes a buffer of the size the options and the     *)
(* answer of the device ask for, or keeps one that is there, of any size.  *)
AllocReceiveBuffer(h) ==
  /\ asked' \in Sizes
  /\ rx'   = IF rx = None THEN h ELSE rx
  /\ room' = IF rx = None THEN asked' ELSE room

(* In gray the table is that of the handle, or one of the scan's own if    *)
(* brightness or contrast are set; in other modes there is none.           *)
StartScans(h) ==
  /\ Connect(h)
  /\ scanning' = scanning \cup {h} /\ more' = more \ {h}
  /\ AllocReceiveBuffer(h) /\ buf' = h /\ job' = h
  /\ hGray' \in {None, h} \cup (IF h \in spoilt THEN {} ELSE {Private})
  /\ crossed' = crossed \cup (Linked \ {h})
  /\ UNCHANGED <<st, dev, ops, listVars, g_pdev, optionVars, spoilt, end, ghostVars>>

\* SetupGrayAdjust() makes that table from one of the handle that is freed.
StartSpoilt(h) ==
  /\ FirstPage(h) /\ (Usb(h) => (Claimable(h) /\ ~taken))
  /\ h \in spoilt /\ Die("gray")

\* PageScanStart() fails: ScanEnd() undoes all that.
StartEnds(h) ==
  /\ Begin(h) /\ (Usb(h) => (Claimable(h) /\ ~taken))
  /\ conn' = [conn EXCEPT ![h] = None] /\ claims' = claims \ {h}
  /\ rx' = None /\ room' = 0 /\ asked' \in Sizes /\ buf' = None /\ job' = None
  /\ hGray' \in {None, h}
  /\ crossed' = crossed \cup (Linked \ {h})
  /\ UNCHANGED <<st, dev, ops, started, scanning, more, listVars, g_pdev, optionVars, spoilt,
                 taken, end, ghostVars>>

-----------------------------------------------------------------------------
(* sane_start() for a later page. What iProcessEnd says of the page before *)
(* is not cleared by a cancel, nor by a first page that does not start.    *)

\* The command for the next page is sent, whether there is a scan or not.
StartNextPage(h) ==
  /\ up = "up" /\ h \in Open \cap started \cap more /\ conn[h] # None
  /\ more' = more \ {h}
  /\ UNCHANGED <<st, dev, ops, conn, claims, started, scanning, listVars, g_pdev,
                 optionVars, scanVars, grayVars, taken, lost, end, ghostVars, crossed,
                 again>>

\* There is no connection to send it over.
StartNextPageDies(h) ==
  /\ up = "up" /\ h \in Open \cap started \cap more /\ conn[h] = None
  /\ Die("next_page")

-----------------------------------------------------------------------------
(* sane_read(): PageScan() while bScanning, up to the end of a page.       *)

Reading(h) == up = "up" /\ h \in (Open \cap scanning) \ more

Buffers == rx # None /\ buf # None /\ job # None /\ hGray # Freed /\ hGray \notin spoilt

(* The last page ends the scan, and so does a device that cancels it,      *)
(* which leaves its connection and its buffers.                            *)
SaneReadEnds(h) ==
  /\ Reading(h) /\ Buffers
  /\ scanning' = scanning \ {h}
  /\ started' \in {started, started \ {h}}
  /\ UNCHANGED <<st, dev, ops, conn, claims, more, listVars, g_pdev, optionVars, scanVars,
                 grayVars, taken, lost, end, ghostVars, crossed, again>>

\* Another page follows.
SaneReadPage(h) ==
  /\ Reading(h) /\ Buffers
  /\ more' = more \cup {h}
  /\ UNCHANGED <<st, dev, ops, conn, claims, started, scanning, listVars, g_pdev,
                 optionVars, scanVars, grayVars, taken, lost, end, ghostVars, crossed,
                 again>>

SaneReadDies(h) ==
  /\ Reading(h) /\ ~Buffers
  /\ Die("buffers")

\* The device sends all that is asked for, which is more than there is room.
SaneReadOverflows(h) ==
  /\ Reading(h) /\ Buffers /\ asked > room
  /\ Die("overflow")

-----------------------------------------------------------------------------
(* sane_control_option(): sanei_constrain_value() looks a new mode, source *)
(* or resolution up in the lists of its descriptor. What options a call    *)
(* sets otherwise is read by the next start (AllocReceiveBuffer), or not   *)
(* shared by handles.                                                      *)

SaneControlOption(h) ==
  /\ up = "up" /\ h \in Open \cap dangling
  /\ Die("options")

-----------------------------------------------------------------------------
Init ==
  /\ st = [h \in Handles |-> "none"] /\ dev = [h \in Handles |-> None]
  /\ conn = [h \in Handles |-> None]
  /\ ops = {} /\ claims = {} /\ started = {} /\ scanning = {} /\ more = {}
  /\ spoilt = {} /\ dangling = {}
  /\ up = "down" /\ num_devices = 0 /\ inits = 0
  /\ g_pdev = None /\ lists = None /\ range = None
  /\ rx = None /\ room = 0 /\ asked = 0 /\ buf = None /\ job = None /\ hGray = None
  /\ taken = FALSE /\ lost = {} /\ end = "no"
  /\ last = None /\ closed = FALSE /\ crossed = {} /\ again = FALSE

SaneOpen(h) ==
  \/ OpenUnclaimed(h) \/ OpenDefault(h) \/ OpenWaits(h)
  \/ OpenRefused(h) \/ OpenNoDecoder(h) \/ OpenSucceeds(h)

SaneStart(h) ==
  \/ StartUnclaimed(h) \/ StartWaits(h) \/ StartUnconnected(h) \/ StartRefused(h)
  \/ StartUndecoded(h) \/ StartScans(h) \/ StartSpoilt(h) \/ StartEnds(h)
  \/ StartNextPage(h) \/ StartNextPageDies(h)

SaneRead(h) ==
  SaneReadEnds(h) \/ SaneReadPage(h) \/ SaneReadDies(h) \/ SaneReadOverflows(h)

Next ==
  /\ end = "no"
  /\ \/ SaneInit \/ SaneGetDevices \/ SaneExit \/ SaneExitEnds
     \/ \E h \in Handles :
          \/ SaneOpen(h) \/ SaneControlOption(h) \/ SaneStart(h) \/ SaneRead(h)
          \/ SaneCancel(h) \/ SaneCancelDies(h)
          \/ SaneClose(h) \/ SaneCloseDies(h)

Spec == Init /\ [][Next]_vars

-----------------------------------------------------------------------------
(* Properties.                                                             *)

Ends == {"no", "devices", "usb_open", "waits", "ops", "gray", "lists", "options",
         "next_page", "buffers", "overflow"}

HandleTypes ==
  /\ st \in [Handles -> {"none", "failed", "open"}]
  /\ dev \in [Handles -> Devices \cup {None}] /\ conn \in [Handles -> Devices \cup {None}]
  /\ ops \subseteq Handles /\ claims \subseteq Handles /\ spoilt \subseteq Handles
  /\ started \subseteq Handles /\ scanning \subseteq Handles /\ more \subseteq Handles

ProcessTypes ==
  /\ up \in {"down", "up", "exit"} /\ num_devices \in Nat /\ inits \in Nat
  /\ g_pdev \in UsbDevices \cup {None} /\ range \in Devices \cup {None}
  /\ lists \in Handles \cup {None, Freed} /\ dangling \subseteq Handles
  /\ room \in Sizes \cup {0} /\ asked \in Sizes \cup {0}
  /\ rx \in Handles \cup {None} /\ buf \in Handles \cup {None} /\ job \in Handles \cup {None}
  /\ hGray \in Handles \cup {None, Freed, Private}
  /\ taken \in BOOLEAN /\ lost \subseteq UsbDevices /\ end \in Ends
  /\ last \in Handles \cup {None} /\ closed \in BOOLEAN
  /\ crossed \subseteq Handles /\ again \in BOOLEAN

(* The type of the state: what a connection that is lost had claimed was a *)
(* device.                                                                 *)
TypeOK == HandleTypes /\ ProcessTypes

(* The handle opened last is connected to no device but its own, and so is *)
(* every handle on the network. A USB handle opened before it gets the     *)
(* device of the last one, which g_pdev has.                               *)
OwnDevice ==
  \A h \in Linked :
    conn[h] \in {None, dev[h]} \/ (h # last /\ Usb(h))

(* Who scans has buffers and decoder of its own, and over USB the device   *)
(* claimed and the semaphore, unless another handle has started or ended a *)
(* scan, if only by sane_cancel() or sane_close() with nothing to end. Its *)
(* receive buffer has room for what reads ask for, but where a scan the    *)
(* device has cancelled was started again as it was.                       *)
OwnScan ==
  \A h \in scanning \ crossed :
    /\ rx = h /\ buf = h /\ job = h /\ conn[h] # None
    /\ asked <= room \/ again
    /\ Usb(h) => (h \in claims /\ taken)

(* The corners of the handle opened last have the ranges of its device,    *)
(* and until some handle is closed, the option lists are its own and its   *)
(* descriptors point to them.                                              *)
OwnOptions ==
  \A h \in Open : h = last =>
    range = dev[h] /\ ((lists = h /\ h \notin dangling) \/ closed)

(* What handles hold is given back by sane_exit(), a scan in course or an  *)
(* open that has failed included. A claim and the semaphore may remain if  *)
(* a scan the device has cancelled was started again as it was.            *)
ExitReleases ==
  up = "down" =>
    /\ rx = None /\ buf = None /\ job = None /\ hGray \in {None, Freed}
    /\ (~taken /\ lost = {}) \/ again
    /\ lists \in {None, Freed} /\ (lists = Freed => Ndebug)

(* Calls of a frontend, one at a time and on handles it has open, make the *)
(* program use what is freed or missing, write behind its receive buffer,  *)
(* or wait for itself only in these ways, as far as the lists, handles,    *)
(* connections, buffers and tables of this module go:                      *)
(* - sane_get_devices() after a second sane_init(), with a list of devices *)
(*   shorter than their number;                                            *)
(* - sane_open("") with a network device;                                  *)
(* - a USB device opened while this process has one open, or has left one  *)
(*   in a failed open or a scan that was started again as it was;          *)
(* - sane_exit() after an open that failed before its ops were set;        *)
(* - a gray table that hGray still has closed with its handle, or freed by *)
(*   another handle;                                                       *)
(* - the option lists freed twice in a release build, by closing two       *)
(*   handles that were open together or one whose open has failed;         *)
(* - an option set whose list was freed by closing another handle;         *)
(* - sane_start() again after one that made no connection, behind a page   *)
(*   of an earlier scan that had another one following;                    *)
(* - a scan ended by another handle;                                       *)
(* - a receive buffer kept from a smaller scan, which the device cancelled *)
(*   or another handle crossed.                                            *)
EndsAreKnown ==
  /\ end = "devices"   => inits > 1
  /\ end = "usb_open"  => NetDevices # {}
  /\ end = "waits"     => again \/ \E g \in Linked : g \in ops /\ conn[g] \in UsbDevices
  /\ end = "ops"       => up = "exit" /\ \E h \in Linked : st[h] = "failed" /\ Usb(h)
  /\ end = "gray"      => hGray = Freed \/ crossed # {}
  /\ end = "lists"     => Ndebug /\ (closed \/ \E h \in Linked : st[h] = "failed")
  /\ end = "options"   => \E h \in Open \cap crossed : lists # h
  /\ end = "next_page" => \E h \in started : h \notin scanning /\ conn[h] = None
  /\ end = "buffers"   => scanning \cap crossed # {}
  /\ end = "overflow"  => again \/ scanning \cap crossed # {}
=============================================================================
