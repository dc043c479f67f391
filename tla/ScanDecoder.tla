----------------------------- MODULE ScanDecoder -----------------------------
(***************************************************************************)
(* The scan decoder of libbrscandec, brother_scandec.c: the data of a line *)
(* are unpacked, brought through the grey table and handed to the          *)
(* resolution changer.  The functions are called as brother_scanner.c      *)
(* calls them: ScanStart() opens the job and starts each page, PageScan()  *)
(* gives the lines and ends the page, ScanEnd() closes.                    *)
(***************************************************************************)
EXTENDS ResolutionChanger
LOCAL INSTANCE FiniteSetsExt        \* Min

CONSTANTS
  Data,       \* what may be in the data of a line: sequences of bytes
  Tables,     \* handles of grey tables
  Grey(_, _)  \* the byte a grey table, or NoTable, gives for a byte

ASSUME DataAssumption == Data \subseteq Seq(0..255)

VARIABLES
  hGray,       \* the grey table of the scan
  buffer,      \* bytes of the buffer of a line, 0 when there is none (bugchk)
  pageBuffer,  \* the buffer of the page, 0 when there is none (DAT_00208ef0)
  table,       \* the grey table that was set (DAT_00208f00)
  pageTable,   \* the grey table of the page (DAT_00208f08)
  sent,        \* compression and data of the last line
  decoded      \* the bytes made of it and the byte that fills their rest

decVars == <<hGray, buffer, pageBuffer, table, pageTable, sent, decoded>>
allVars == <<vars, decVars>>

NoTable == "none"
Nothing == [comp |-> "none", data |-> <<>>]
NoBytes == [bytes |-> <<>>, fill |-> 0]

-----------------------------------------------------------------------------
(* FUN_001063f3: a line's data.                                            *)

Least(a, b) == Min({a, b})

\* The packbits of the last left bytes of data, which is not empty, in a
\* buffer with room for so many more: a control byte below 128 announces
\* literal bytes, one above it a byte to repeat, 128 nothing.  A last byte on
\* its own is not looked at.
Unpack(data, size, t) ==
  LET at(left) == data[Len(data) - left + 1]
      unpacked[left \in 0..Len(data), room \in 0..size] ==
        IF room = 0 \/ left <= 1 THEN <<>>
        ELSE LET control == at(left) IN
          IF control = 128 THEN unpacked[left - 1, room]
          ELSE IF control > 128
          THEN LET n == Least(257 - control, room)
               IN  [i \in 1..n |-> Grey(t, at(left - 1))] \o unpacked[left - 2, room - n]
          ELSE LET n == Least(control + 1, Least(room, left - 1))
               IN  [i \in 1..n |-> Grey(t, at(left - i))]
                     \o unpacked[left - 1 - n, room - n]
  IN  unpacked[Len(data), size]

DecodeUncleared(comp, data, size, t) ==
  [bytes |-> IF comp = "packed" THEN Unpack(data, size, t) ELSE data, fill |-> 0]

\* A white line leaves zeroes, a packed one is written over ones; the data of
\* any other are used where they are, or brought through the table.
Decode(comp, data, size, t) ==
  CASE comp = "white"  -> [bytes |-> <<>>, fill |-> 0]
    [] comp = "packed" -> [bytes |-> Unpack(data, size, t), fill |-> 255]
    [] OTHER           ->
         [bytes |-> IF t = NoTable THEN data
                    ELSE [i \in 1..Least(size, Len(data)) |-> Grey(t, data[i])],
          fill  |-> 0]

-----------------------------------------------------------------------------
BufferSize(j) == IF j.colour = "RGB" THEN 3 * j.pixels ELSE j.pixels

\* The first part of ScanStart(): the job is opened, then the grey table
\* chosen.  The buffer of a job that was not closed is lost.
ScanDecOpen(j, t) ==
  /\ t # NoTable => j.colour = "GRAY"
  /\ ChangeResoInit(j)
  /\ IF job' = NoJob
     THEN buffer' = 0 /\ UNCHANGED <<hGray, table, pageTable>>
     ELSE /\ buffer' = BufferSize(j) /\ hGray' = t
          /\ table' = NoTable /\ pageTable' = NoTable
  /\ sent' = Nothing /\ decoded' = NoBytes
  /\ UNCHANGED pageBuffer

\* The last part of ScanStart() sets the table and starts a page.  Without a
\* table the one of the page stays what it was.
ScanDecPageStart ==
  /\ buffer # 0
  /\ ChangeResoWriteStart
  /\ table' = hGray
  /\ pageTable' = IF hGray = NoTable THEN pageTable ELSE hGray
  /\ pageBuffer' = buffer
  /\ sent' = Nothing /\ decoded' = NoBytes
  /\ UNCHANGED <<hGray, buffer>>

\* SetupImgLineProc() tells packed data by the line's header from any other.
Compressions == {"packed", "plain"}

ScanDecWrite(kind, comp, data) ==
  /\ sent' = [comp |-> comp, data |-> data]
  /\ decoded' = Decode(comp, data, pageBuffer, pageTable)
  /\ ChangeResoWrite(kind)
  /\ UNCHANGED <<hGray, buffer, pageBuffer, table, pageTable>>

ScanDecPageEnd ==
  /\ ChangeResoWriteEnd
  /\ pageBuffer' = 0 /\ pageTable' = NoTable
  /\ UNCHANGED <<hGray, buffer, table, sent, decoded>>

\* ScanEnd(), also in the middle of a page: the page keeps its buffer's
\* address and its table.
ScanDecClose ==
  /\ ChangeResoClose
  /\ buffer' = 0 /\ hGray' = NoTable
  /\ sent' = Nothing /\ decoded' = NoBytes
  /\ UNCHANGED <<pageBuffer, table, pageTable>>

-----------------------------------------------------------------------------
DecInit ==
  /\ Init
  /\ hGray = NoTable /\ buffer = 0 /\ pageBuffer = 0 /\ table = NoTable /\ pageTable = NoTable
  /\ sent = Nothing /\ decoded = NoBytes

DecNext ==
  \/ \E j \in Jobs, t \in Tables \cup {NoTable} : ScanDecOpen(j, t)
  \/ ScanDecPageStart
  \/ \E kind \in Kinds, comp \in Compressions, data \in Data : ScanDecWrite(kind, comp, data)
  \/ ScanDecPageEnd
  \/ ScanDecClose

DecSpec == DecInit /\ [][DecNext]_allVars
=============================================================================
