# Formal models of the Brother SANE backend

TLA+ models of `brscan`, the C backend that drives Brother scanners for SANE, the
configurations that check them with TLC, and proofs checked by TLAPS. Paths below are
relative to `src/`; files without a directory are in `libsane-brother/`.

## 1. The system

The backend is a shared library that a SANE frontend loads. It runs in the frontend's
thread: there are no threads or callbacks of its own. What makes it hard is around it: the
device sends when it wants and cuts its data as USB scheduling has it, calls come in any
legal order, any exchange may fail, and several processes share one scanner.

`sane_open()` chooses one of two implementations by the model: the **legacy** engine
(command sets 3 and 4) or the **brscan5** backend (DS-640), behind one table of operations.

    frontend -> brother.c -> brscan5_ops -> brother_brscan5.c -> brscan5_stream.c (parser)
                    |                              |  \-> brscan5_proto.c (encoders)
                    |                              \-> libusb | brother_brscan5_replay.c
                    \-> legacy ops -> brother_scanner.c -> brother_brscan4.c
                                            |   \-> libbrscandec, libbrcolm, brother_color.c
                                            \-> brother_mfccmd.c, brother_devinfo.c
                                            \-> brother_devaccs.c -> libusb | brother_netdev.c

The legacy side keeps much of a scan in globals of the process: the device last opened over
USB, the receive and output buffers, the gray table in use, the decoder's job, the option
lists, the semaphore. Handles opened side by side meet there.

### Inventory

| component | state | operations | hard behaviour | what makes it correct |
|---|---|---|---|---|
| brscan5 stream parser, `brscan5_stream.c` | phase, half of a record or of an EOI carried from read to read, block mode | arm, reset, feed; events by callback | records ride behind, between and inside reads; a read ends anywhere | the events do not depend on the cuts; nothing of a record gets into the page, nothing of the page is dropped; every feed returns |
| brscan5 session, `brother_brscan5.c` | handle, parser, page buffer, decoder, latches for cancel, EOF and errors | open, start (handshake), pump, decode, read, drain, cancel, close | each exchange may fail; latches outlive calls; data of an abandoned scan stays in the device | the SANE life cycle; a start behind anything legal works; no call hangs |
| brscan5 encoders and geometry, `brscan5_proto.c` | none | encode commands, parse answers, mm to pixels | rounding, limits | areas stay within the bed |
| brscan5 replay, `brother_brscan5_replay.c` | a cursor over a recording | write, read, control, drain | entries in an unexpected direction | the same promises as libusb |
| SANE API and device list, `brother.c` | list of devices, list of handles, option lists shared by handles | init, exit, get_devices, open, close, options, start, read, cancel | handles share globals; init twice; a failed open leaves a handle linked | handles do not disturb each other |
| legacy engine, `brother_scanner.c` | page counters, receive buffer, status, cancel flag | ScanStart, PageScan, AbortPageScan, ScanEnd | lines cut by reads, status bytes between lines, a cancel in the page loop | every line once and in order; page status reported once; buffer within bounds |
| brscan4 framing, `brother_brscan4.c` | cache of unread bytes | read a record | short reads, records larger than the buffer | records as sent |
| device access, `brother_devaccs.c` | USB handle, System V semaphore, capture and replay files | OpenDevice, CloseDevice, reads, writes | processes that share a scanner and may be killed; retries | one process at a time; nobody is locked out |
| machine commands, device information, `brother_mfccmd.c`, `brother_devinfo.c` | last command, capabilities | queries before a scan | answers of odd lengths | capabilities within the tables |
| network devices, `brother_netdev.c` | sockets, table of devices | open, read, write, close | time-outs | every call returns |
| colour collector, `brother_color.c` | a temporary file | collect, decode | a page cut short | the lines of the page |
| colour matching, `brother_cmatch.c`, `libbrcolm` | tables | map pixels | none: numeric | |
| scan decoder, `libbrscandec` | line buffers | packbits, resolution change | line counts at the edges | lines out as computed |
| model and configuration files, `brother_modelinf.c`, `brother_advini.c`, `brother_misc.c` | model list | parse Brsane.ini | odd lines | |
| `brsaneconfig` | a text file | add, remove, list network scanners | none | |
| logging, SANE helpers, `sanei_*` | log file | | none | |

`PROJECT.json` has the hazards of this code line by line, each with the properties that cover
it or the reason why none does.

## 2. What is modelled

### The brscan5 stream parser

`Brscan5Stream` models `br5_parser_feed()` and everything it calls. A stream is a sequence
of *fragments*: the shortest runs of bytes the parser tells apart (`nul` and `x20` are a 0x00
and an id byte, `body` the rest of a record, `hdr` and `pay` a block's header and payload,
`dat` JPEG data without a marker, `ff` and `d9` the bytes of the EOI marker, `pad` padding).
A read is an interval of the stream, `[lo..hi]`, so that every way to cut the stream into
reads is an interval and a record cut by a read is still the same record.

| model | code |
|---|---|
| `state`, `rle_mode`, `rle_pend`, `pending_ff`, `accum` | `struct br5_parser` |
| `pc` | which loop of `br5_parser_feed()` runs: `boundary()`, its burst loop, `data_bytes()`, `rle_bytes()`, `non_data_bytes()` |
| `Feed`, `Arm`, `Reset` | the entry points |
| `Boundary...`, `Burst...`, `Data...`, `Rle...`, `Accum...` | the branches of these loops, one iteration a step |
| `HandleRecord` | `handle_record()`: the change of phase and the event |
| `ev`, `page`, `trailing`, `log` | the events to the callback: of this step, and what they have passed on so far |

How the device cuts its data is not in this repository. The constants `ShortPackets`,
`BlocksAligned` and `PaddedTails` say which cuts are allowed: with the first two TRUE those
that `docs/brscan5-protocol.md` (4a) reports of a DS-640, with FALSE any cut.

`ScanStream` is the abstract specification: the stream is taken apart token by token,
without reads. `ScanStreams` has the streams: the captured shapes of a colour page, a page
whose EOI is cut, a B/W page, a refused page, and shapes made to be cut.

What the captures have in common is stated of any stream, for the proofs: `OnePage`,
`EndsOnce` and `WholeRecords`, and `Ordered`, the order in which a scan sends its data and
records. `Moves` lists it (progress opens a page, blocks keep to themselves, behind the EOI
come padding and records, a page end may be followed by a further page), and `Follows` adds
that records are whole and that data stand between two records in the middle of a page. The
parser relies on none of it; `MCBrscan5Stream` has TLC check that the captured streams are `Ordered`,
and `MCBrscan5Session` that the streams of a good scan hold a page (`HoldsPage`: an EOI, or a block and its
page end).

### The brscan5 session

`Brscan5Session` composes the parser (`P == INSTANCE Brscan5Stream`) with the calls that
feed it. Calls run one at a time, each to its return; `at` is where the running call is.

| model | code |
|---|---|
| `armed`, `canceled`, `eof`, `n_errors`, `page_ready`, `s_rle`, `page_buf`, `dec`, `lines`, `lines_out` | `struct brscan5_session` |
| `usb`, `bScanning` | `hScanner->usb`, `scanState.bScanning` |
| `Start`, `Exchange`, `ExchangeFails`, `Refused`, `ScanStarted` | `brscan5_start()` and its handshake |
| `Receive`, `Parse`, `Fed...`, `ReadNothing` | `brscan5_usb_read()`, `brscan5_on_event()`, the loops of `brscan5_pump()` and `brscan5_drain()` |
| `Decode`, `DecodeFails`, `Read`, `Serve...` | the decoders and `brscan5_read()` |
| `Cancel` | `sane_cancel()`: `brscan5_cancel()` and `ScanEnd()` |
| `stale` | data of a given-up scan is still in the device |
| `fair` | the device did its part in the last start: no exchange failed, nothing was refused, and its stream is one of `GoodStreams` |

`StreamsAssumption` and `DeviceAssumption` say what streams the model is about: sessions of
one page that end once, in whole records, as `docs/brscan5-protocol.md` has them. What
`brscan5_on_event()` does with a second page of a session is not modelled.

`ScanLifecycle` is the abstract specification: what a SANE frontend may rely on.

### The USB semaphore

`UsbSemaphore` models the semaphore in `OpenDevice()` and `CloseDevice()`, one system call a
step, for processes that fail and are killed anywhere. `users` are the processes whose
`sem_id` names the semaphore that has the key; a process whose semaphore was removed is in
none and its `semop()` fails, which `OpenDevice()` does not notice. Each process has one
scanner open.

### The brscan4 framing

`Brscan4Framing` models the cache and the records of `brother_brscan4.c`, called as the read
loop of `PageScan()` calls them. `cache`, `dst` and `lpRxBuff` hold positions of the device's
stream, so that a lost, doubled or reordered byte shows; `wire` has the bytes, numbers below
`Base` (256 in the code), so that lengths of two bytes occur in a small instance. `Ends` says
of a stream where its records end (`IsRecord`: a header, two lengths, two bodies); a stream
may stop within one, as a device does that fails.

| model | code |
|---|---|
| `Fill`, `ReadFails` | one turn of the loop of `brscan4_cache_read()`: a read of any length, or one that fails or times out |
| `Served`, `Taken` | its second half: what is wanted leaves the cache |
| `pc`, `Want`, `TakeHeader`, `TakeLengths`, `TakeWrapper`, `TakeData` | `brscan4_read_next_record()`, which asks for a record in four parts |
| `ReturnRecord`, `ReturnNothing` | what `PageScan()` does with a result above 0 and with 0 |
| `RecordLength`, `StatusAtFrameBoundary` | `brscan4_record_length()`, `brscan4_status_at_frame_boundary()` |
| `ProcessRecord`, `NextPage` | the splitter of `PageScan()`, the start of a page in `ScanStart()` |
| `Rooms` | the room in the receive buffer, which the legacy page loop computes; any number here |

### The legacy engine

`LegacyScan` models `ScanStart()`, `PageScan()` and `sane_cancel()` of the models before brscan5,
for devices that send lines (`convert` is FALSE) and those that send the frames of `Brscan4Framing`
(`seriesNo >= MUST_CONVERT_MODEL`). The stream is in bytes, since the code finds lines,
statuses and the ends of reads by computing with them; a read of a frame device brings a whole
record or nothing, which is what the framing runs show. The image is the sequence of the lines its
bytes belong to.

| model | code |
|---|---|
| `sent`, `done`, `kept` | what of the page is in `lpRxBuff`: received, decoded, in it when the call began (`dwRxTempBuffLength`) |
| `fw`, `lRealY` | `lpFwTempBuff`, the lines decoded or filled in |
| `PageScan`, `Read`, `ReadNothing` | the entry of `PageScan()` and its read loop |
| `Process`, with `Split`, `ProcessMain`, `ColorDirect`, `Fallback` | the splitter, the two decoders, the fallback for a page without a status |
| `Batch`, `Decoding`, `White`, `Written`, `Stop` | the locals of these loops; what a white line, a line with data and a status do to them |
| `ProcessNothing`, `Deliver`, `WhiteLines`, `PageEnd` | nothing received; the copy to the frontend, the white behind a short page, the result |
| `ScanStart`, `NextPage`, `Cancel`, `PageScanRefused` | `ScanStart()` of a first and a following page, `sane_cancel()`, a read with no scan |
| `out`, `ended` | history: what the frontend was given, what ended the page |

### The scan decoder

`ResoParams` is the arithmetic of `ChangeResoInit()` in `libbrscandec/brother_chreso.c`: which of
the ways (copy, repeat, area average, cubic) a change of resolution takes, how long lines become, which columns of
the device a column is made of and where its samples go. `ResolutionChanger` is the rest of that file:
a window of lines through which a page passes. The content of a line is its number on the page, for each
plane of colour its own, so that a line that is lost, doubled, stale or mixed from two pages
shows. `ScanDecoder` adds `brother_scandec.c`: buffers, packbits and the gray table.

| model | code |
|---|---|
| `job`, `slot`, `next`, `count`, `planes`, `armed` | the `DAT_` variables named at their declarations |
| `ChangeResoInit`, `ChangeResoWriteStart`, `ChangeResoWrite`, `ChangeResoWriteEnd`, `ChangeResoClose` | the functions of these names, with the functions they choose by pointers |
| `made` | the lines written, each as the phase of its coefficients and the contents it mixes |
| `ScanDecOpen` ... `ScanDecClose` | the exported functions, called in the order of `ScanStart()`, `PageScan()` and `ScanEnd()` |
| `Unpack`, `Decode` | `FUN_001063f3()`: packbits as far as the data go, white lines, plain ones |

`LineResampler` is the abstract specification: line `k` of the result is made of the lines
around `k * in / out`, with the first line repeated above the page and the last one below it.

### The scan area

`ScanArea` follows the size of the picture through four files: what a model offers
(`brother_modelinf.c`), the options and `sane_get_parameters()` (`brother.c`), the device's
answer (`brother_devinfo.c`, of both builds) and the area (`brother_scanner.c`).

| model | code |
|---|---|
| `opt`, `SetOption`, `Constrain` | `aoptVal`, `sane_control_option()`, `sanei_constrain_value()` |
| `mm`, `AreaMm`, `AreaRefused` | `uiSetting.ScanAreaMm`, `SetupInternalParameters()` |
| `device`, `Answer`, `QueryScanInfo` | the glass of the device, its answer to the I command, `QueryScanInfoProc()` |
| `DeviceScanArea`, `ScanParameters` | `GetDeviceScanArea()`, `GetScanAreaParam()` and `StartDecodeStretchProc()`, which asks `ResoParams` |
| `Start`, `GetParameters`, `Cancel` | `sane_start()` of a first page, `sane_get_parameters()`, `sane_cancel()` |

`Answers` are the resolutions a device may answer with, whatever was asked for. `AnswersAssumption`
bounds them: at least 4 dpi, a glass that is 16 dots wide or more, dots that 16 bits hold.

### Handles and their shared globals

`SaneHandles` models the calls of the SANE interface, one at a time, for any number of
handles of legacy devices, by what they do to the state that handles share: `sane_init()`,
`sane_exit()`, `sane_get_devices()`, `sane_open()`, `sane_close()`, `sane_start()` of first and later
pages, `sane_read()`, `sane_cancel()`, and of `sane_control_option()` the lookup of a new value in
the list that the option's descriptor points to. `sane_get_parameters()`, `sane_get_option_descriptor()`,
reading an option, `sane_set_io_mode()` and `sane_get_select_fd()` read or change nothing that is
shared and are left out.

| model | code |
|---|---|
| `st`, `dev`, `ops`, `conn`, `claims`, `started`, `scanning`, `more` | of each handle: its place in the list, `hScanner->usb` or `->net`, `nPageCnt`, `bScanning`, `iProcessEnd` |
| `dangling`, `spoilt` | the handles whose option descriptors point to freed lists, whose gray table is freed |
| `g_pdev`, `lists`, `range`, `rx`, `buf`, `job`, `hGray`, `taken`, `num_devices` | the globals, by who made what they hold |
| `room`, `asked` | the size `hReceiveBuffer` was allocated with; `dwRxBuffMaxSize`, the size reads fill it to |
| `OpenUnclaimed`, `OpenRefused`, `OpenNoDecoder`, `OpenSucceeds` | the four places where `sane_open()` may leave |
| `StartUnclaimed` ... `StartEnds` | the places where `ScanStart()` may leave for a first page; `AllocReceiveBuffer` keeps a buffer that is there, `StartSpoilt` sets brightness over a freed gray table |
| `StartNextPage`, `StartNextPageDies` | `ScanStart()` of a later page: the command for it, with and without a connection |
| `SaneReadPage`, `SaneReadEnds`, `SaneReadDies`, `SaneReadOverflows` | `PageScan()` up to the end of a page or scan, with buffers that are gone or too small |
| `SaneControlOption` | `sanei_constrain_value()` on a list that is freed |
| `ScanEnd`, `SaneCancel`, `SaneClose`, `SaneExit`, `SaneExitEnds` | the ends of a scan and of a handle |
| `end` | a program that would wait for itself, or use what is freed, stops, and `end` is the reason |
| `last`, `closed`, `crossed`, `again` | history: the last `sane_open()`, who saw another handle's scan start or end, whether a scan the device cancelled was started again |

## 3. The runs

| run | instance | shows |
|---|---|---|
| `stream_reads` | the captured streams, two scans, cuts of the short-packet rule | `Deframes`: the parser implements `ScanStream`. `SessionEnds`: each armed scan ends |
| `stream_cuts` | streams with records at every seam, any cut, padding before records | `TypeOK`, `EoiExact`, `EventsBacked`, `FeedReturns` |
| `session` | three scans, two faults, USB and replay | `Delivers`: the session implements `ScanLifecycle`. `DecoderLives`, `QuietAtStart`, `StartWorks`, `CallsReturn` |
| `usb_semaphore` | three processes | `TypeOK`, `OverlapNeedsRemoval`, `TakenIfHeld`, `WaitEnds` |
| `brscan4_framing` | pages of short records, with and without a status, one that stops in a record, every cut | `TypeOK`, `InOrder`, `InStep`, `StopsAtStatus`, `CallsReturn` |
| `legacy_pages` | eight scans of line and frame devices, gray and colour, feeder and glass, three starts, one fault | `TypeOK`, `LinesInOrder`, `WholePage`, `PageEnds` |
| `decoder` | jobs of every way, whole lines and planes, pages of up to seven lines cancelled and reopened anywhere | `Resamples`: the decoder implements `LineResampler`. `TypeOK`, `WindowHolds`, `WriteFits`, `SamplesApart`, `ColumnsInPlace`, `LinesUnpacked` |
| `scan_area` | five models of both builds, three sizes of glass, devices that scan with other resolutions than asked, three options set | `TypeOK`, `AreaOnGlass`, `PictureAsAsked`, `ParametersHold` |
| `sane_handles` | two handles, two devices on USB and one on the network, two rounds of init and exit | `OwnDevice`, `OwnScan`, `OwnOptions`, `ExitReleases`, `EndsAreKnown` |
| `page_lost` | a page whose end and session end come in one read | finding: EOF instead of the page |
| `restart_cancel` | two scans over USB | finding: a start behind a cancel has no USB handle |
| `scaled_bw` | a B/W page of which the resolution is doubled | finding: the page comes out blank |

The last three runs are expected to end in a counterexample; each checks what a comment
or the repository's README says. Deadlock is checked
in every run but `sane_handles`, where the program may end.

Four more disagreements of the code with its comments came up in modelling and are not
among the runs: a B/W block whose header is cut by a read ends the scan
(`brscan5_stream.c:66`), `n_errors` outlives the scan it counts for
(`brother_brscan5.c:993`), a scan that gets no data at all is a white page
(`brother_scanner.c:1250`), and the fallback for a page without a status ends a page whose status is on
its way, so that the next page is NO_DOCS (`brother_scanner.c:1254`).

### Bounds, and why they are enough

- `Streams`: a few fixed sequences of up to about a dozen fragments. The parser's memory is
  a phase, two bytes of a record, one ff and one owed block; each shape brings every one of these to a
  seam, and the cuts are enumerated, not chosen.
- `MaxScans` (1 to 3): the parser and the session keep nothing but flags from scan to scan;
  with three scans a flag set in the first and changed in the second is seen in the third.
- `MaxFaults = 2`: a fault in a scan and another in the cleanup behind it.
- `Procs`, three processes: a maker that removes, a waiter on what was removed, and one
  that makes the next semaphore. The safety properties are proved for any number.
- Framing: bytes 0 to 2, so that a record of 8 bytes has a length of both bytes; 2 is the
  status and also stands in wrappers and data. The sizes 11, 10 and 4 keep the order of 0x20400, 0x20200
  and 0x7FFF: a wrapper of 8 needs several reads, and the cache meets its end. `SomeRooms` has
  one below 1, one that a header fits in, one that only some records fit in, and two that
  hold any record. All safety properties of the run are proved for any sizes in this relation.
- Legacy engine: lines of 1 and 8 bytes and a buffer of 72 keep the order of the sizes in the code:
  three lines are read before decoding, a batch of short lines (nine) does not fit in one go, the
  long colour page does not fit in the buffer, and `MaxLens` has less than a line of
  gray, two lines and most of a page. `Height = 7` has pages below and above it. `InBuffSize` is
  twice `nMinReadSize`, as 32000 is for gray and for colour up to 200 dpi; below that the room that
  `PageScan()` computes, which subtracts kept bytes twice, can be negative: `RoomForKept` is the
  hypothesis under which `TypeOK` is proved. `LinesInOrder` and `WholePage` are proved without it, and
  all three for any sizes, pages, reads and lengths asked for.
- `lines` of a page: at most what the page's fragments give.
- Decoder: the window has four lines and its state is periodic in the lines of the device per group
  of lines made, at most 4 here; seven lines go round it and meet the end of the page in
  every phase. `MCJobs` has each branch of `ChangeResoInit()`, among them a factor beyond the tables
  and ratios that cannot be had. All but
  `LinesUnpacked` is proved for any jobs and page lengths, `Resamples` and `ColumnsInPlace` but for the jobs named in
  section 4.
  Data of lines: two packets, of each kind, cut in each of their parts.
- Scan area: `MaxSets = 3` options make any two corners and a mode or resolution differ from
  the default; `MCCorners` has places next to the edges, inside each glass, and beyond. What the
  run shows is proved for any corners, glass and answers.
- Handles: two handles have each global in dispute, two USB devices make `g_pdev` differ
  from a handle's own. `MaxInits = 2`: the number of devices is wrong from the second on. Two
  `Sizes` make a kept receive buffer smaller than, as large as and larger than what is asked for.
  What the run shows is proved for any number of handles and devices, with and without `Ndebug`.

### Fairness

- Parser: weak fairness of the loop iterations (a C loop runs on), and of the reads of an armed
  scan, whose stream ends: the device sends what it has to send.
- Session: weak fairness of the running call. Each wait in it has a time-out
  (`brscan5_usb_read()`, control transfers), so that it goes on with data or without. No
  fairness of the frontend: nobody has to make a call.
- Framing: weak fairness of a running call: each read of the device ends, with bytes or with
  its time-out. None of `PageScan()`, which need not be called.
- Legacy engine: weak fairness of a running `PageScan()`, whose reads have a time-out of 20 s, and
  of the calls of a frontend that got GOOD and reads on.
- Semaphore: weak fairness of the calls' steps (each system call returns), strong fairness
  of taking the semaphore: the kernel serves waiters in the order in which they came. A frontend
  ends its scan (`CloseDevice` is weakly fair); it need not start one. A process may be killed
  and may fail, but need not.
- Decoder, scan area and handles: no fairness and no liveness. Their calls are single steps and
  nobody has to make one.

### What is deliberately not claimed

- `OverlapNeedsRemoval` does not say that two processes never overlap. They can: the maker
  removes the semaphore at its close whoever waits for it, and the waiter goes on without it
  while a third makes a new one.
- `WaitEnds` excludes two waits that do not end: for a semaphore that nobody will set (the
  maker was killed between `semget()` and `SETVAL`, or it was removed between the two `semget()`
  calls of another process), and for a process whose `OpenDevice()` failed and kept it.
- `QuietAtStart` and `StartWorks` are claimed without a fault or an error of an earlier scan, which leaves
  data in the device or `n_errors` set. An error that the start's own parser meets is no excuse.
- `LinesInOrder` and `WholePage` leave out pages with white lines (header 0): the code advances its
  write position for one but not the byte count, so that lines behind it move. `WholePage` is for
  frontends that ask for at least a line: with less, the code cannot put a white line into
  the answer and returns EOF early.
- `PageEnds` is for the scans of the run: their lines are no longer than the code reckons
  with and the parts of a colour line come in order. For a frame device that left one out,
  `PageScan()` would return GOOD with nothing for ever.
- `SamplesApart` excludes the last columns of a cubic B/W line, which share a bit in the code.
  `Resamples` allows that an interpolated page of one or two lines is lost, and that the line
  above a B/W page is its first line before the bits were made bytes: the code does both.
- `AreaOnGlass` excludes `GlassDoubled`: the second build divides the dots of a device that
  answers with more than the scan uses by a whole number, which is less than the ratio where that is
  not whole, and in gray from more than 600 dpi where it is 4 or more.
- `ParametersHold` excludes `EndsInPixel`: a colour line resampled by a ratio of thirds may be
  longer than `sane_get_parameters()` says by part of a pixel.
- `OwnDevice` is for the handle opened last and for network devices. A USB handle
  opened before gets the device of the last one, over `g_pdev`.
- `ExitReleases` leaves a claim and the semaphore where a scan that the device cancelled was
  started again as it was: `ScanStart()` opens the device again over the open one.
- `OwnScan` allows a receive buffer that is too small where a scan that the device cancelled was
  started again as it was: `AllocReceiveBuffer()` keeps the one that is there.
- `EndsAreKnown` does not say that the backend survives every legal sequence of calls. It
  names the ten ways in which it does not, each with what must have gone before. They are the ways
  that the state of `SaneHandles` can show: what calls do within a buffer, a line or a text is not
  in it, nor what a frontend does with a handle it has closed or with the lists of a descriptor.

## 4. What is proved

With TLAPS, for every value of the constants:

`Brscan5StreamProofs`, from `StreamsAssumption`, `MaxScansAssumption` and `RulesAssumption`:

- `TypeCorrect`: `Spec => []TypeOK`. `TypeOK` is not inductive: that the next fragment of a
  loop exists depends on where the cursor may be in each loop. The inductive invariant is
  `TypeInv`, `TypeOK` with `CursorOK`. One lemma per loop of the code (`BoundaryType`,
  `BurstType`, `DataType`, `RleType`, `NonDataType`) and one for the calls (`CallerType`), on lemmas about
  `HandleRecord` and the cursor.
- `EoiIsExact`: `Spec => []EoiExact`, the event that ends a JPEG page comes exactly when
  its marker was passed on, whatever reads and records lie between its two bytes. The strengthening
  `EoiInv` ties `pending_ff` to the last payload byte.

- `EventsAreBacked`: `Spec => []EventsBacked`, no more milestones than records. A record may be cut by
  a read, its id buffered and the event given a read later, so a count of the records
  taken is compared with the events and with what the buffer owes (`BackedInv`). `FrameInv` adds to `TypeInv`
  which states a loop may be in and what the buffer holds; `Contract` is what one step
  says of the stream, and is also what the session's proofs use.
- `ParserDeframes`: `Spec => Deframes`, every step of the parser is a step of `ScanStream` or none, under
  `ShortPackets`, `BlocksAligned`, not `PaddedTails` and `Ordered` streams. With any cut it is false:
  a record behind padding in the same read is dropped, and a cut block ends the scan. `DeframeInv` says
  that the parser's state is the phase of the device at the next fragment. `RecordSent`, `DataSent` and
  `Inside` say what a stream and a read hold at a place where a record or data begins, `PadsOnly` and `RecordsOnly`
  what a read holds to its end (by its least counterexample), and one lemma per loop
  what the loop takes.

`Brscan5SessionProofs`, from `SessionAssumption`, `StreamsAssumption` and `DeviceAssumption`, on the
lemmas of `Brscan5StreamProofs` (`PP == INSTANCE Brscan5StreamProofs`):

- `DecodersLive` and `QuietStarts`: `Spec => []DecoderLives` and `Spec => []QuietAtStart`, for every
  cut, fault, cancel and transport. `SessionInv` adds to the parser's invariants where a call
  may be (`CallInv`), that the decoder fits what is buffered (`DecoderInv`, `LinesInv`: the drain
  behind page one finds no other page), and what of the stream is unread when latches
  are set (`QuietInv`).
- `SessionDelivers`: `Spec => Delivers`, the session implements `ScanLifecycle`, under `LargePages` and
  `ShortPackets`. Without `LargePages` it is false: that is the finding of `page_lost`. `PageInv` says that a page
  which is ready was ended by the read being parsed, `ReturnInv` what the last return
  says of the page.
- `StartsWork`: `Spec => []StartWorks`, from `GoodDevice` (the good streams are `Ordered` and hold a page) and
  `Rules` (those of `SessionDelivers` and `ParserDeframes`, as in `session.cfg`). The pump gives up when
  the stream is read to its end, or when the session ends, and no page is ready; so the invariant
  has to say that this cannot be. `TakenInv` says of the EOI, the block and the page end that once the parser has
  taken them the session knows; `StartInv` adds that the parser of a fair start is in step
  (`DeframeInv`) and has met no error. `TokenTaken`, `BlockTaken` and `NeverFails` of `Brscan5StreamProofs`
  give what one step takes and that it is no error. Without `LargePages` it is false: behind a page
  that ends in the read with the XSC response the pump finds nothing to read.

`UsbSemaphoreProofs`, with no assumption on `Procs`:

- `SemaphoreTypes`, `ExclusionUnderKey` and `NoExitLocks`: the three safety properties of the run.
  None is inductive. The invariant `Inv` adds `FreshInv` (a semaphore not yet set was not
  taken and has at most one process about to set it), `OwnerInv` (only who has set a semaphore
  removes it) and `HeldInv` (at most one holder; each user that deals with the device is it).
  One lemma per phase of a call, one step per action.

`Brscan4FramingProofs`, from `SizesAssumption` and `StreamsAssumption`:

- `BoundsKept`: `Spec => []TypeOK`. The inductive invariant `TypeInv` adds `PartOK`: how much of
  the record the running call has at each part. It bounds `Want`, and with it the cache.
- `ReadsHaveRoom`: a call that waits asks for at most `BRSCAN4_MAX_REQUEST_SIZE` and leaves room for
  a read; the code's test for a longer request never holds and a read never asks for nothing.
- `BytesInOrder`: `Spec => []InOrder`, inductive on top of `TypeInv`; `ServedOrder` and
  `ConcatOrder` say what taking from the cache and appending to a buffer keep.
- `StaysInStep` and `StopsAtItsStatus`: `Spec => []InStep` and `Spec => []StopsAtStatus`, from
  `FramesAssumption`: each call begins where a record of the device does and returns all of
  it, and `PageScan()` reads to the status of its page and no further. `FrameInv` places
  the running call and the unprocessed records in the stream. `StatusSeen` is about
  `brscan4_status_at_frame_boundary()`, which walks over a buffer: its walk meets the
  ends of the device's records, each of them, and so a byte that looks like a status in the middle of a record is
  not taken for one. The walk is a recursive function; that it stays on the ends is shown for its least step that does not.

`ResolutionChangerProofs`, from `JobsAssumption` and `LinesAssumption`:

- `Types` and `Window`: `Spec => []TypeOK` and `Spec => []WindowHolds`, the window has the four newest lines of the
  page, each where the lines made from it look for it, for any jobs, page
  lengths and order of calls. `WindowHolds` is about whole lines only and not inductive. `Inv` adds `CountInv`
  (the lines counted are those given, and the slot follows from the count),
  `PlaneInv` (what of a line being put together is there) and `WindowInv` (each slot
  by the distance from the newest line). `Turning`, `Pushing` and `PushingFirst` say what putting a line into the
  window does; one lemma per function. The argument needs that a page is shorter than 65534 lines,
  since the code compares the count as 16 bits.
- `WritesFit`: `Spec => []WriteFits`, no call writes more than `ChangeResoInit()` told its caller to make room
  for. The lines made of one line of the device are those whose place `k * in / out` lies on it; `RoomFor`
  counts them for any ratio (`RoomInv`).
- `Implements`: `NoneStretched => (Spec => Resamples)`, every step of the resolution changer is one of
  `LineResampler` or none. `NoneStretched` leaves out the B/W jobs that `scaled_bw` is about, whose
  lines are blank. The code never computes where on the page a line lies: it has a window of four lines, a
  count taken modulo the ratio, a first phase and a number of lines to make. `OnLine` and `Grouping` show for any ratio
  that these give the lines on one line of the page, with no gap to those on the next; `Mixed` that the
  window's lines are then the ones around that place; `NeedsNoMore` that none was made too early.
  `PictureInv` says of an open page that what was made is what can be made of the lines so far
  (`AsMade`, `Done`); one lemma per kind of write, `LastLines` for the two lines repeated at the end of a page.
- `Apart`: `Spec => []SamplesApart`, for any jobs. `PlacesApart` computes with the rounded sizes of planes.
- `Columns`: `DriversJobs => (Spec => []ColumnsInPlace)`. `DriversJobs` is what `brother_scanner.c:1784` and the
  scan modes of the models leave: no colours by index, B/W lines that are not filled up. Without it the last
  part is false: a widened line of colours by index is read beyond its end. `Reached` finds the column made
  that reads a given column of the device.

`ScanAreaProofs`, from the assumptions of `ScanArea` on models, devices, answers and corners:

- `LineMade`, about `ResoParams` alone: how many pixels a line has that a change of resolution makes.
- `Types`, `OnGlass`, `AsAsked` and `AsTold`: the four invariants of the run. `Inv` adds that the
  options are what the model offers after rounding (`OptionsInv`), that an area has its sides in order
  (`AreaInv`) and what a scan was made of (`ScanInv`, `ToldInv`). The chain from tenths of
  a millimetre to dots, to 16 dots, through two changes of resolution and to
  bytes is a chain of lemmas about divisions, each with its rounding.

`LegacyScanProofs`, from `SizesAssumption` and `ScansAssumption`:

- `Types`: `RoomForKept => (Spec => []TypeOK)`. `RoomForKept` says that `gwInBuffSize` has room for
  twice `nMinReadSize` where a scan is not converted; without it a batch that leaves bytes behind makes the next room
  for a read negative. The bound of the receive buffer is not inductive: `Received` adds that a call
  which still reads has less than `nMinReadSize`.
- `Ordered`: `Spec => []LinesInOrder` and `Whole`: `Spec => []WholePage`, without `RoomForKept`. `Control` has what the
  flags of a running call mean: which answers end a page, when `bReadbufEnd` is set, and that EOF comes with
  nothing left to give and the height reached. `Pages` says of an open page that there are
  lines `s`, one behind the other from the start of the stream (`Chain`), that were
  decoded and nothing else, or the status behind them also (`Behind`), and that what the frontend has and
  what is left in the transmission buffer is their image with white behind (`Shown`). `PageInv` is the
  conjunction. That the frontend's lines are all lines of the page, or of what was decoded of it,
  is `LineEndsIs`: two such chains agree.

  What one `Process` decodes is the value of functions that go on at a later line (`Split`,
  `ProcessMain`, `ColorDirect`). `LoopExists` and
  `TailLoopExists` show once that such a function exists whenever something, here the bytes
  left, gets less at each turn; `LoopKeeps`, that what each turn keeps holds of the result. Then `SplitIs` says
  that a batch is whole lines, `MainIs` and `ColorIs` that what is decoded of it is a chain whose image was
  written (`Drawn`), and `DecodedIs` sums up: whole lines, in colour three at a time, or all up
  to a status. A line of white (`NoWhiteLine`) breaks `Drawn`, since `ProcessMain()` moves on for it and does not
  count it; this is the exception that both properties name.

`SaneHandlesProofs`, from `ValuesAssumption`, `DevicesAssumption` and `SizesAssumption`:

- `Types`, `Connections`, `Scans`, `Options`, `Release` and `EndsKnown`: the invariants of the
  run. `OwnScan` and `ExitReleases` need most: that a handle which is not linked holds nothing
  (`HandleInv`), that a connection over USB is claimed by one handle or lost
  (`DeviceInv`, `ClaimInv`), whose buffers and job there are and which receive buffer may be too small
  (`ScanInv`), who may have freed a gray table or the lists and what still points to them
  (`GrayInv`, `ListInv`), and when nothing is left (`UpInv`). `IInv` is their
  conjunction with `TypeOK` and `EndsAreKnown`. `Steps` reduces `Next` to the actions once; one lemma per part
  of `IInv`, one step per action.

Only model-checked:

- `LinesUnpacked` of the decoder, which compares with a packing of the same data over a
  few packets: for any data it would need an induction over them;
- all liveness (`SessionEnds`, `FeedReturns`, `CallsReturn`, `WaitEnds`, `PageEnds`): TLAPS has no rules here
  for fairness.

## 5. What is not modelled

**Parser.** The growth of the JPEG buffer and its cap, out-of-memory, the bytes within an
RLENGTH header, a burst that ends with the first byte of a record (the code then reads a byte behind
the chunk). The loop of `br5_parser_feed()` also gives up on a chunk when a turn changes nothing; the
model has no such way out, and `FeedReturns` shows that none is needed. **Session.** Out-of-memory, reported geometry, packbits, a cancel from a signal
handler. **Legacy engine.** The duplex bytes 0x84 and 0x85, a cancel during a call.
**Device access.** The read and write retries, capture and replay.

**Decoder.** The values of the weights of area and cubic lines, 256-colour lines (the code reads
over the end of their buffer), `FUN_00106751()`, which needs a table nobody sets, plain lines shorter
than the job says, packed lines without any data (the count of bytes left wraps below zero,
`brother_scandec.c:220`), header 0x18 (which keeps the kind of the line before). A white line
(header 0) does not come to the decoder: `brother_scanner.c` fills it in. The orders BGR and
PLANE and long lines are modelled, though this driver always asks for RGB and short ones.

**Scan area.** `SetDefaultScannerInfo()` is never called. An answer of 0 dpi,
the ranges of the source (`SupportScanSrc()`), brightness and contrast, and answers that are not numbers are left
out. A corner that is read back is a tenth less than it was set, since 0.1 is no SANE_Fixed;
the model computes with the numbers of the code.

**Handles.** brscan5 handles (`Brscan5Session` has one), out of memory, a gray table that is
missing, other processes' use of the semaphore (`UsbSemaphore` has it), a scan library without the
symbols, calls on a handle that is closed, a second `sane_init()` without `sane_exit()`, a second
`sane_start()` within a page, the arithmetic of the buffers (`LegacyScan` has it for one scan), the
values of options (`ScanArea`), lists of descriptors that a frontend reads by itself. `sane_exit()`
closes the last opened handle first, the model in any order.

**Whole components.** The encoders and machine commands are texts without state; the replay transport is a
test's cursor, and the session models what it promises; network sockets, `Brsane.ini` and the
configuration tool are input and output; colour matching is arithmetic on tables; the colour collector is
reached only from `PageScanColor()`, which nothing calls. `PROJECT.json` has the reasons by
component.

## 6. Plan

In this order, the most important behaviour first:

1. `Brscan5Stream`, `ScanStream`, `Brscan5StreamProofs` (done).
2. `Brscan5Session`, `ScanLifecycle` (done).
3. `UsbSemaphore`, `UsbSemaphoreProofs` (done).
4. `Brscan4Framing`, `Brscan4FramingProofs` (done).
5. `LegacyScan`, `LegacyScanProofs` (done for calls that do not overlap).
6. `ResoParams`, `ResolutionChanger`, `ScanDecoder`, `LineResampler`, `ResolutionChangerProofs` (done).
7. `ScanArea` (done).
8. `SaneHandles`, `SaneHandlesProofs` (done).
9. `Brscan5SessionProofs`, `ScanAreaProofs`, `LegacyScanProofs` (done).
10. `UsbTransport`: the retries of `ReadDeviceData()` and `WriteDeviceData()`, and the replay cursor,
    against one abstract transport.
11. A cancel from a signal handler in the read loop, the duplex bytes, mm to pixels of brscan5.

## 7. Running

    tlc -config session.cfg MCBrscan5Session.tla
    tlapm SaneHandlesProofs.tla

`PROJECT.json` lists the runs with their configurations, the mutations that each property must
detect (variants of the code's operators with a plausible mistake, kept in the modules with a
comment), and the source lines that each definition stands for.
