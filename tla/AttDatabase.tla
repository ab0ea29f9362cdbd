---------------------------- MODULE AttDatabase ----------------------------
(***************************************************************************)
(* The attendance file /save_io.bin (att_database.c): a header holding the *)
(* number of records, then the records.  Three threads use it:             *)
(*   user_check  (priority 19) appends a record after every admission;     *)
(*   wifi        (priority  5) answers the server's ATT_GET and ATT_DEL;   *)
(*   tshell      (priority 20) runs wipe_att_db.                           *)
(* RT-Thread schedules by strict priority and nothing in these operations  *)
(* sleeps, so a wifi command is one step, a step of user_check falls       *)
(* between two wifi commands, and a step of tshell needs user_check to be  *)
(* outside the file.  The steps of the two lower threads end where a       *)
(* preemption can be told apart: at a file operation that reaches the card *)
(* and at the end of a calculation by the one CRC unit, which every packet *)
(* wifi gets and every one esp8266_info_get (16) sends sets going again.   *)
(***************************************************************************)
EXTENDS Integers, Sequences, FiniteSets

CONSTANTS
  Info,         \* attendance records, without their crc (att_info_t)
  Blank,        \* what an unwritten slot of the file holds
  NoHeader,     \* the file is absent or shorter than its header
  MaxTotal,     \* bound: slots of the file
  MaxCuts,      \* bound: power losses
  AskNums,      \* bound: record counts the server asks for or deletes
  LenthValues   \* number of values of the uint8_t lenth (256)

ASSUME SlotAssumption == /\ MaxTotal \in Nat
                         /\ MaxCuts \in Nat
                         /\ Blank \notin [info : Info, crc : BOOLEAN]
ASSUME HeaderAssumption == NoHeader \notin [total : 0..MaxTotal, crc : BOOLEAN]
ASSUME AskAssumption == /\ AskNums \subseteq Nat
                        /\ LenthValues \in Nat \ {0}

VARIABLES
  hdr,      \* header on the card; crc says whether its CRC is right
  slots,    \* record slots on the card
  size,     \* slots inside the file length of the directory entry
  crcUnit,  \* thread that last reset the CRC unit; "link" stands for wifi and
            \* esp8266_info_get, which check and send packets
  addPc,    \* where user_check is in att_record_add
  add,      \* its locals: the record, the CRC of a record still in the buffer,
            \* att_header with its CRC, the file length its descriptor carries
  wipePc,   \* where tshell is in att_database_wipe
  wipe,     \* g_att_header, and the file length its descriptor carries
  got,      \* the last answer to ATT_GET: lenth asked, total, records
  cuts      \* power losses so far

vars == <<hdr, slots, size, crcUnit, addPc, add, wipePc, wipe, got, cuts>>

Header == [total : 0..MaxTotal, crc : BOOLEAN]
Slot   == [info : Info, crc : BOOLEAN]

Larger(a, b)  == IF a > b THEN a ELSE b
Smaller(a, b) == IF a < b THEN a ELSE b

\* block_crc_calc read by thread t gives the CRC of t's data exactly when no
\* other thread has reset the unit since t did.
CrcRight(t) == crcUnit = t

\* fd_record_header_get_set(GET_RECORD) succeeds in the wifi thread, which no
\* other user of the CRC unit preempts.
HeaderReadable == hdr # NoHeader /\ hdr.crc

-----------------------------------------------------------------------------
Init ==
  /\ hdr = [total |-> 0, crc |-> TRUE]
  /\ slots = [i \in 0..(MaxTotal - 1) |-> Blank]
  /\ size = 0
  /\ crcUnit = "user_init"
  /\ addPc = "idle"
  /\ \E r \in Info : add = [info |-> r, infoCrc |-> FALSE, total |-> 0, hdrCrc |-> FALSE, size |-> 0]
  /\ wipePc = "idle"
  /\ wipe = [total |-> 0, crc |-> TRUE, size |-> 0]
  /\ got = [lenth |-> 0, total |-> 0, records |-> <<>>]
  /\ cuts = 0

-----------------------------------------------------------------------------
(* user_check: att_record_add *)

\* Open, read the header, start its CRC.  An absent header is a failed read:
\* the call returns -1 and the caller drops the record, which changes nothing.
AddOpen(r) ==
  /\ addPc = "idle"
  /\ hdr # NoHeader
  /\ hdr.total < MaxTotal
  /\ add' = [info |-> r, infoCrc |-> FALSE, total |-> hdr.total, hdrCrc |-> hdr.crc,
             size |-> size]
  /\ addPc' = "check"
  /\ crcUnit' = "user_check"
  /\ UNCHANGED <<hdr, slots, size, wipePc, wipe, got>>

\* The header's CRC decides; then the record's CRC is started.
AddCheck ==
  /\ addPc = "check"
  /\ IF add.hdrCrc /\ CrcRight("user_check")
       THEN addPc' = "record" /\ crcUnit' = "user_check"
       ELSE addPc' = "idle" /\ UNCHANGED crcUnit
  /\ UNCHANGED <<hdr, slots, size, add, wipePc, wipe, got>>

\* The sector buffer of the descriptor begins with the header as AddOpen read it
\* as long as it holds the file's first sector.  Writing that sector out for the
\* record's sake undoes an ATT_DEL that came since.
HeaderAsRead == [total |-> add.total, crc |-> TRUE]
HeaderMayReturn == hdr' \in {hdr, HeaderAsRead}

\* The record goes to the descriptor's sector buffer, at slot att_header.total; a
\* record that runs into the second sector sends the first one to the card.  The
\* new header's CRC is started.
AddWriteRecord ==
  /\ addPc = "record"
  /\ HeaderMayReturn
  /\ add' = [add EXCEPT !.infoCrc = CrcRight("user_check")]
  /\ addPc' = "header"
  /\ crcUnit' = "user_check"
  /\ UNCHANGED <<slots, size, wipePc, wipe, got>>

\* The header's f_write starts at a sector boundary, so it first writes out the
\* buffer, and with it the record: in the file's first sector behind the header
\* as read.  Then the new header goes to the buffer.
AddWriteHeader ==
  /\ addPc = "header"
  /\ HeaderMayReturn
  /\ slots' = [slots EXCEPT ![add.total] = [info |-> add.info, crc |-> add.infoCrc]]
  /\ add' = [add EXCEPT !.infoCrc = FALSE, !.hdrCrc = CrcRight("user_check")]
  /\ addPc' = "close"
  /\ UNCHANGED <<size, crcUnit, wipePc, wipe, got>>

\* Fault: the record is stored without being counted.
AddCloseUncounted ==
  /\ addPc = "close"
  /\ hdr' = [total |-> add.total, crc |-> add.hdrCrc]
  /\ size' = Larger(add.size, add.total + 1)
  /\ addPc' = "idle"
  /\ UNCHANGED <<slots, crcUnit, add, wipePc, wipe, got>>

\* close() writes the buffered header, then the file length of the descriptor.
AddClose ==
  /\ addPc = "close"
  /\ hdr' = [total |-> add.total + 1, crc |-> add.hdrCrc]
  /\ size' = Larger(add.size, add.total + 1)
  /\ addPc' = "idle"
  /\ UNCHANGED <<slots, crcUnit, add, wipePc, wipe, got>>

-----------------------------------------------------------------------------
(* wifi: the server's commands *)

\* Fault: the count is not clamped at zero.
DelUnclamped(n) ==
  /\ crcUnit' = "link"
  /\ hdr' = IF HeaderReadable
              THEN [total |-> hdr.total - n, crc |-> TRUE]
              ELSE hdr
  /\ UNCHANGED <<slots, size, addPc, add, wipePc, wipe, got>>

\* att_record_del: the newest records go; a bad header is a NACK.
Del(n) ==
  /\ crcUnit' = "link"
  /\ hdr' = IF HeaderReadable
              THEN [total |-> IF hdr.total > n THEN hdr.total - n ELSE 0,
                    crc |-> TRUE]
              ELSE hdr
  /\ UNCHANGED <<slots, size, addPc, add, wipePc, wipe, got>>

\* Fault: the index is not decremented before the slot is read.
RecordsGotOffByOne(lenth) ==
  IF lenth > size THEN <<>>
                  ELSE [i \in 1..lenth |-> slots[lenth - i + 1]]

\* The records att_record_get returns for lenth: slots lenth-1 down to 0, and
\* none at all when the first of them lies beyond the end of the file.
RecordsGot(lenth) ==
  IF lenth > size THEN <<>>
                  ELSE [i \in 1..lenth |-> slots[lenth - i]]

\* The seek to the first of these slots extends a file that ends before it.
SizeGot(lenth) == IF lenth > size + 1 THEN lenth - 1 ELSE size

\* ATT_GET: att_num_get is cut to a uint8_t and then to total.
Get(n) ==
  /\ crcUnit' = "link"
  /\ IF HeaderReadable
       THEN LET lenth == n % LenthValues
                first == Smaller(lenth, hdr.total)
            IN  /\ got' = [lenth |-> lenth, total |-> hdr.total,
                           records |-> RecordsGot(first)]
                /\ size' = SizeGot(first)
       ELSE UNCHANGED <<got, size>>
  /\ UNCHANGED <<hdr, slots, addPc, add, wipePc, wipe>>

\* Every other packet, whose CRC wifi checks, and every command of the boot, whose
\* CRC esp8266_info_get (priority 16) computes.
OtherPacket ==
  /\ crcUnit' = "link"
  /\ UNCHANGED <<hdr, slots, size, addPc, add, wipePc, wipe, got>>

-----------------------------------------------------------------------------
(* tshell: att_database_wipe, which ends with att_database_init *)

ShellMayRun == addPc = "idle"

\* unlink; record_header_get_set opens a new file and starts the CRC.
WipeUnlink ==
  /\ ShellMayRun
  /\ wipePc = "idle"
  /\ hdr' = NoHeader
  /\ slots' = [i \in 0..(MaxTotal - 1) |-> Blank]
  /\ size' = 0
  /\ crcUnit' = "tshell"
  /\ wipePc' = "set"
  /\ UNCHANGED <<addPc, add, wipe, got>>

\* Fault: g_att_header is not cleared before it is written to the new file.
WipeSetNotCleared ==
  /\ ShellMayRun
  /\ wipePc = "set"
  /\ hdr' = [total |-> wipe.total, crc |-> CrcRight("tshell")]
  /\ wipePc' = "init"
  /\ UNCHANGED <<slots, size, crcUnit, addPc, add, wipe, got>>

\* record_header_get_set writes the cleared header to the new file.
WipeSet ==
  /\ ShellMayRun
  /\ wipePc = "set"
  /\ hdr' = [total |-> 0, crc |-> CrcRight("tshell")]
  /\ wipePc' = "init"
  /\ UNCHANGED <<slots, size, crcUnit, addPc, add, wipe, got>>

\* att_database_init opens the file, reads the header and starts its CRC.
InitRead ==
  /\ ShellMayRun
  /\ wipePc = "init"
  /\ wipe' = [total |-> hdr.total, crc |-> hdr.crc, size |-> size]
  /\ crcUnit' = "tshell"
  /\ wipePc' = "verify"
  /\ UNCHANGED <<hdr, slots, size, addPc, add, got>>

\* A CRC that does not match starts the file afresh.
InitVerify ==
  /\ ShellMayRun
  /\ wipePc = "verify"
  /\ IF wipe.crc /\ CrcRight("tshell")
       THEN wipePc' = "idle" /\ UNCHANGED <<wipe, crcUnit>>
       ELSE /\ wipe' = [wipe EXCEPT !.total = 0]
            /\ crcUnit' = "tshell"
            /\ wipePc' = "rewrite"
  /\ UNCHANGED <<hdr, slots, size, addPc, add, got>>

\* The new header is written to the descriptor's sector buffer.
InitRewrite ==
  /\ ShellMayRun
  /\ wipePc = "rewrite"
  /\ wipe' = [wipe EXCEPT !.crc = CrcRight("tshell")]
  /\ wipePc' = "close"
  /\ UNCHANGED <<hdr, slots, size, crcUnit, addPc, add, got>>

\* close() also writes back the file length known when the file was opened.
InitClose ==
  /\ ShellMayRun
  /\ wipePc = "close"
  /\ hdr' = [total |-> wipe.total, crc |-> wipe.crc]
  /\ size' = wipe.size
  /\ wipePc' = "idle"
  /\ UNCHANGED <<slots, crcUnit, addPc, add, wipe, got>>

-----------------------------------------------------------------------------
(* Power loss and the boot that follows *)

\* att_database_init at boot, before any other thread uses the file.
BootHeader(h) == IF h = NoHeader \/ ~h.crc THEN [total |-> 0, crc |-> TRUE] ELSE h

\* The power fails: buffers are gone, and so is what was written beyond the
\* length of the file.  Inside close() the header's sector may
\* already be on the card while the file length is not (f_sync writes them in
\* this order).
PowerCut ==
  /\ cuts < MaxCuts
  /\ cuts' = cuts + 1
  /\ \/ hdr' = BootHeader(hdr)
     \/ /\ addPc = "close"
        /\ hdr' = BootHeader([total |-> add.total + 1, crc |-> add.hdrCrc])
  /\ slots' = [i \in DOMAIN slots |-> IF i < size THEN slots[i] ELSE Blank]
  /\ addPc' = "idle"
  /\ wipePc' = "idle"
  /\ wipe' = [total |-> hdr'.total, crc |-> TRUE, size |-> size]
  /\ crcUnit' = "user_init"
  /\ UNCHANGED <<size, add, got>>

-----------------------------------------------------------------------------
Step ==
  \/ \E r \in Info : AddOpen(r)
  \/ AddCheck \/ AddWriteRecord \/ AddWriteHeader \/ AddClose
  \/ \E n \in AskNums : Del(n) \/ Get(n)
  \/ OtherPacket
  \/ WipeUnlink \/ WipeSet \/ InitRead \/ InitVerify \/ InitRewrite \/ InitClose

Next == Step /\ UNCHANGED cuts

Spec == Init /\ [][Next \/ PowerCut]_vars

-----------------------------------------------------------------------------
TypeOK ==
  /\ hdr \in Header \cup {NoHeader}
  /\ slots \in [0..(MaxTotal - 1) -> Slot \cup {Blank}]
  /\ size \in 0..MaxTotal
  /\ crcUnit \in {"user_init", "user_check", "link", "tshell"}
  /\ addPc \in {"idle", "check", "record", "header", "close"}
  /\ add \in [info : Info, infoCrc : BOOLEAN, total : 0..MaxTotal, hdrCrc : BOOLEAN,
             size : 0..MaxTotal]
  /\ wipePc \in {"idle", "set", "init", "verify", "rewrite", "close"}
  /\ wipe \in [total : 0..MaxTotal, crc : BOOLEAN, size : 0..MaxTotal]
  /\ cuts \in 0..MaxCuts
  /\ got \in [lenth : Nat, total : 0..MaxTotal, records : Seq(Slot \cup {Blank})]

\* Counted slots without content, or beyond the end of the file.
Holes(n) == {i \in 0..(n - 1) : i >= size \/ slots[i] = Blank}

\* Whatever the preemptions between att_record_add, att_record_del, the answers
\* to ATT_GET and the wipe, every record the header counts lies inside the file
\* and has been written; a power loss leaves at most one that is not, the one
\* whose close() it interrupted.
HolesBoundedByCuts == hdr # NoHeader => Cardinality(Holes(hdr.total)) <= cuts

\* Without a power loss, ATT_GET answers with as many records as the file
\* holds, up to lenth, and none of them is an unwritten slot.
GetAnswersAll ==
  cuts = 0 =>
    /\ Len(got.records) = Smaller(got.lenth, got.total)
    /\ \A i \in 1..Len(got.records) : got.records[i] # Blank

\* The records in the file's log are those below the count.
Counted == IF hdr = NoHeader THEN 0 ELSE hdr.total

CountedKept == \A i \in 0..(Smaller(Counted, Counted') - 1) : slots'[i] = slots[i]
RecordComes == Counted' > Counted /\ slots'[Counted' - 1].info = add.info
\* More are counted only by the record of an admission, or because the sector of
\* its record brings the count back that was there when the admission began.
OnlyAddAdds ==
  Counted' > Counted =>
    \/ AddClose
    \/ Counted' = add.total /\ (AddWriteRecord \/ AddWriteHeader)
\* A header that is rejected counts nothing more or less until the file is wiped.
RejectedStays == hdr # NoHeader /\ ~hdr.crc => ~AddClose /\ Counted' \in {Counted, 0}

\* Without a power loss the file is a log, although att_record_add writes back a
\* count it read before the server's deletions: no record that stays counted is
\* changed, each admission is counted with its own record as the newest, and
\* nothing else is, except that an ATT_DEL that came while the record was made
\* may be undone.  After a preemption spoilt the header's CRC nothing is recorded
\* or deleted any more.
LogKept ==
  [][cuts' = cuts => /\ CountedKept
                     /\ AddClose => RecordComes
                     /\ OnlyAddAdds
                     /\ RejectedStays]_vars
=============================================================================
