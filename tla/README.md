# WiFi access control: specification, model checking and proofs

The program is the firmware of a door controller: an STM32F103 under RT-Thread 2.1.0 with two
RC522 card readers, a lock, an SD card with a FAT file system, a DS1307 clock and an ESP8266
that connects it over a WiFi mesh to a server. All of its own code is in
`src/bsp/stm32f10x/applications/` and `src/bsp/stm32f10x/HardWare/` (paths below leave out the
directory where the file name is unique); the rest of the repository is RT-Thread, FatFs, STemWin and the vendor's
peripheral library.

This directory models the parts whose correctness depends on how threads, interrupts, power
losses and an unreliable link interleave. TLC checks the models on small instances, and TLAPS
proves their invariants for every value of the constants.

    tlc -workers 2 -config UserFile.cfg MCUserFile           # a run, see "Runs"
    tlapm AttDatabase_proofs.tla                             # a proof module

`PROJECT.json` lists the components, runs, fault variants, source lines of every definition,
findings, hazards and theorems. In the modules, a definition under a comment that begins with
`Fault:` is not part of the specification: it is the form the definition that follows would
have after a plausible mistake, and the property it is paired with in `PROJECT.json` fails when
it is put in place.

## 1. The system

### Threads and interrupts

| who | priority | code | does |
|---|---|---|---|
| EXTI9_5, EXTI1 | interrupt | `esp8266.c` 426-450 | ESP8266 ready for data (`wr_rdy`), ESP8266 has data (`HSPI_RX` event) |
| wifi | 5 | `wifi_thread.c` 99-187 | reads fragments, assembles packets, runs the server's commands |
| user_init | 8 | `main.c` 228-437 | boot; ends when the others run |
| esp8266_info_get | 16 | `wifi_thread.c` 43-90 | commands of the boot: versions, addresses, router, mesh |
| touch, emwin | 17, 18 | `touch_screen.c`, vendored GUI | drawing demo |
| user_check | 19 | `user_check_thread.c` | admission |
| tshell | 20 | vendored shell | typed commands: `open_door`, `wipe_att_db`, ESP8266 commands, `send_card`, `set_time` |
| rc522 | 25 | `rfid_thread.c` | polls the two readers |
| rtc | 26 | `rtc_thread.c` | copies the clock's time once a second |

The scheduler is strictly by priority and preemptive. A lower thread runs when every higher one
waits or sleeps; a higher one cuts in between any two instructions of a lower one. There are
almost no locks in the application (the SPI bus has the driver framework's), so this order is
what protects shared state, and what fails to. All modules model it by an enabling condition
(`ShellMayRun`, `LowMayRun`, `MayRun`) and by cutting the lower threads' operations into steps.

### Components, state and interactions

| component | state | operations | meets |
|---|---|---|---|
| Attendance database, `att_database.c` | `/save_io.bin`: header with total and CRC, records; a static header for the wipe | `att_record_add`, `att_record_del`, `att_record_get`, `att_database_wipe`, `att_database_init` | called by user_check, wifi, tshell and the boot, through separate descriptors of one file; one CRC unit for all |
| User database, `p_database.c` | the user file: one record with CRC per user id; `g_card_id_user_id_list` | `add_del_get_one_user`, `get_set_state`, `card_array_init`, `user_num_get`, `user_crc_get` | wifi writes, user_check reads and writes one state byte |
| Admission, `user_check_thread.c` | locals of its loop | waits for an event, looks up, verifies, decides, stores the state, opens, records | event set, card list, user file, clock, lock, attendance file |
| Card readers, `rfid_thread.c`, `rc522.c` | last cards, timers, `g_read_card_id` | poll, debounce, send an event | user_check by event and global; the shell writes the same global |
| Fingerprint events, `finger_thread.c` | `g_finger_user_id` | `finger_print_event_send` | only the shell calls it |
| Lock, `beep_door.c` | the lock's pin | `open_door`: unlock, sleep, lock | user_check and tshell |
| Server commands, `server_process.c` | none of its own | `data_process`: USER_ADD, USER_DEL, LIST_RELOAD, ATT_GET, ATT_DEL, CONNECT, TIMESYNC, USER_CRC_GET | runs in wifi, on both databases and the clock |
| ESP8266 link, `esp8266.c`, `wifi_thread.c` | `wr_rdy`, the event, one static transmit buffer, the packet under assembly | `esp8266_spi_write`, `esp8266_spi_read`, `esp8266_spi_transmit` | wifi, info_get and tshell send; the interrupts signal |
| ESP8266 commands, `esp8266_cmd.c` | `is_recv_wifi_pack`, `wifi_pack_recv`, `recv_pack` | one function per command, `wait_ack` | info_get and tshell ask, wifi receives the answers |
| Clock, `ds1307.c`, `soft_iic.c`, `rtc_thread.c` | `TimeValue`, the bit-banged bus | read, set, copy | rtc, wifi (TIMESYNC), user_check, tshell |
| Device configuration, `device_config.c` | a file | read, write | the boot |
| Boot, `main.c`, `startup.c` | - | creates everything in order | all |

### What makes them correct, and what is hard

- **Attendance**: nothing the header counts may be missing from the file; the server must get
  complete answers; an admission must add exactly one record. Hard: `att_record_add` reads the
  header, writes a record, writes the header; the server's deletion and the shell's wipe come in
  between, and the power may fail inside `close()`.
- **User file**: what the server stored and was acknowledged must stay, and what is lost the server
  must be able to see from the CRCs it asks for. Hard: the length of the file is kept per
  descriptor and written back late, a seek extends the file over slots nobody wrote, two records
  share a sector, a record is written over three.
- **Clock**: the chip shows the time that was set last; the time that admission and attendance read is
  one that was. Hard: three threads of different priorities drive one bit-banged bus and share one buffer and one `TimeValue`, field
  by field, without a lock; a reset leaves the chip in the middle of a transfer.
- **Admission**: the door opens only for someone with a valid record for the presented card, whom
  the server has not deleted, in a direction that fits where he is; it closes again. Hard: the
  server rewrites the file and re-sorts the list while user_check holds an index into the list,
  a copied record and a loaded sector; wifi and the commands of the boot use the CRC unit in the middle of its
  calculations; the card number is a global that lower threads overwrite
  while the door is open.
- **Readers**: a card left at a reader is reported once per period, and no reader goes silent.
- **Link and commands**: a packet is sent and received whole or not at all; a command reports
  success only when it was carried out; nobody waits for ever although everything can be lost.
  Hard: three senders of three priorities, one flag, one header, one buffer, no request numbers,
  events that merge.

The `hazards` of `PROJECT.json` name the line where each of these bites and the properties that
cover it.

## 2. The modules

| module | models | states its promise as |
|---|---|---|
| `AttDatabase` | the attendance file under add, delete, get, wipe, boot and power loss | `HolesBoundedByCuts`, `GetAnswersAll`, `LogKept` |
| `Admission` | abstract: the door opens for the holder of the card whom the server lets in, once in each direction | (specification) |
| `UserCheck` | admission with user file, card list, events, lock, server commands, shell and readers; implements `Admission` | `IsAdmission`, `AdmittedHoldsCard`, `DeletedStaysOut`, `NoPassback`, `DoorUnlockedOnlyInPulse` and four liveness properties |
| `UserFile` | the user file with its length: store, delete, reload, CRC requests, state saves, boot and power loss | `WrittenAloneStays`, `SyncSeesLoss`, `ReloadWorks`, `AnswerIsComplete` |
| `Clock` | the DS1307, `TimeValue` and the threads that set and read them over the bus; resets | `ChipKeepsTime`, `ShownLags`, `TimeRecovers` |
| `RfidReader` | the polling loop and its timers | `LoneCardWaits`, `HeldBackByTimer`, `NeverLockedOut` |
| `WifiCmd` | the commands to the ESP8266 and their answers | `AcceptedWasExecuted`, `TakesFreshPacket`, `BootEnds` |
| `PacketChannel` | abstract: packets arrive whole and in order, some are lost | (specification) |
| `EspReceive` | assembling packets from fragments; implements `PacketChannel` | `IsChannel`, `IntactIsDelivered`, `RunsOnOverLostOnly` |
| `EspTransmit` | sending fragments from three threads of three priorities through one buffer and one bus | `WifiSendsWhole`, `LowSendsWhole`, `ReadyKept`, `SendEnds` |
| `MC...` | instances for TLC | |
| `..._proofs` | theorems | |

How the models stand to the code:

**AttDatabase.** `hdr`, `slots` and `size` are what is on the card; `add` and `wipe` are the
locals of the two interruptible callers; `addPc` and `wipePc` their places. wifi's commands are
single steps, since nothing in them sleeps and nothing else preempts wifi. user_check's call is
cut where it can be told apart: reading the header (`AddOpen`), checking its CRC
(`AddCheck`), the record, which goes to the descriptor's sector buffer (`AddWriteRecord`), the header's
`f_write` (`AddWriteHeader`), `close()` (`AddClose`). FatFs keeps a sector
buffer and the file length per descriptor. The seek back to the header flushes nothing; the
header's `f_write` begins at a sector boundary and so writes out the buffer, and with it the record.
As long as the record lies in the file's first sector, or runs out of it, that sector has the
header as `AddOpen` read it, which comes back to the card with it (`HeaderMayReturn`) before
`AddClose` brings the new one. `AddClose` and `InitClose` write back the length
their descriptor opened with; a seek of `att_record_get` beyond the end extends the file (`SizeGot`). The CRC unit is one device without a lock: `crcUnit` says who reset it last, and a
CRC read by a thread is right only when that was the thread itself (`CrcRight`). `"link"` stands for
the two threads that check and send packets above user_check, wifi and esp8266_info_get;
`OtherPacket` is a packet without effect on the file and a command of the boot alike. `PowerCut` may
leave `close()` between the header's sector and the directory entry, in the order of FatFs's
`f_sync` (ff.c 2604); `BootHeader` is what `att_database_init` makes of what is left.

**UserFile.** `slots` and `length` are the card: `length` counts half slots, since a seek may end
the file between the head of a record and its CRC field. wifi's commands are single steps;
user_check is cut between fetching a record (`Get`), opening it again for the state (`SaveOpen`)
and closing it (`SaveClose`). The descriptor of the second open holds a sector, which
has the state and CRC of one record and the head of the next (the layout in which most is
shared), and the length the file had then; `SaveClose` writes both back. `Unwritten` is what
lies in slots that only a seek has reached: zeroes or bytes of another file. `Counted`, `MaxId`, `ReloadOk`, `CrcGetOk` and `CrcsGot` are the loops of
`user_num_get`, `card_array_init` and `user_crc_get` as they end, `ReloadLength` and `CrcGet` what
their seeks do to the length. An empty file makes `st_size - HEADER_SIZE` wrap around; the
first read then fails (`NumGetOk`), after the seek has given the file the size of its header.
`PowerCut` stops between two commands, inside `close()` in the order of `f_sync`, or inside the write of a
record, whose three sectors go out one by one. `granted` is the server's view; `how` says of each
slot whether its last write met a state save: of another slot or the same (`during`), of the record
before (`beside`), a power loss (`cut`), or none (`alone`).

**Clock.** A time has four parts: the hour with its minutes and seconds, the date, the month and the
year, in binary in `TimeValue`, in BCD in the chip, in
`Time_Buffer` and in `Time_Register`. Which parts an hour has is the constant `Calendar`, of which only
the order is assumed; the weekday, which nothing uses, is left out. rtc and tshell are cut at each load and
store of a field: the assignments to `TimeValue` go from the year to the hour (`Assign`), the conversion
loads a field and stores it into `Time_Buffer`, from the hour to the year (`Load`, `Store`), the
chip gets the bytes one by one (`SendPart`), a reading is copied from the hour to the year
(`Copy`). wifi's `TimeSync` is one step. A
transaction begins with a start condition. `Followed` are the threads whose transaction
the chip was following: when another begins they are cut off (`missed`), their bytes are ignored
and they read the idle line, which no error code reports. A reading has a second start condition, after
the address it reads from (`BeginRead`, `Restart`): one that was cut off before it is followed again
from there, at whatever address the pointer has by then (`pointed`), and a setting that
comes then may be lost to it. The new start condition may itself get lost
when the chip was driving the line (`MayBeLost`), in which case bytes may land anywhere in a
write that was cut off (`MayScramble`). `Reset` restarts the microcontroller and leaves the chip
in its transaction (`held`). Before `IIC_GPIO_Init` the pins are not driven, so a TIMESYNC
in that time is acknowledged and lost. `DS1307_Check` returns the comparison of a byte that was
perhaps never read (`EndCheck`). `due` is the time the chip owes to the last complete setting, `goal`
what the settings under way will make it, and `Disturbed` what a setting that comes in between makes of
the goal of another: it leaves a mix when it comes between two assignments or between a load and its
store. `valid` and `copied` tell which reading is shown.

**UserCheck.** One action per stretch of `user_check_thread_entry` between points where wifi or
esp8266_info_get, which both outrank it, can be told to have come in between. Each packet from the
server and each command of the boot uses the CRC unit (`LinkCrc`): a calculation of user_check that it
comes into is wrong, the record's (`VerifyCrc`) as well as those of the attendance file. `Recv` takes all pending events at once, as
`RT_EVENT_FLAG_OR | RT_EVENT_FLAG_CLEAR` does. The list keeps stale entries behind the valid
ones (`Overwritten`), is sorted by descending card number by a sort that is not stable, and
bsearch may find any equal entry. `get_set_state` loads a sector and writes it back, so
`StateWritten` and `HeadReverted` say what that does to the record and to the next one when the
server stored records in the meantime; it may also fail, which nobody looks at, and the door opens
although the state is not stored (`SaveFails`). The layout is the one for which a state byte shares its
sector with the CRC of the same record and the head of the next: the other layouts lose less.
Of the attendance file `attRight` keeps whether its header is right, on which it depends whether
`att_record_add` adds anything: `AttOpen`, `AttCheck` and `AttWrite` are its places at which the CRC unit
is at work, and `WipeAtt` the shell's wipe, which may leave either.
The authority bits are reduced to the four outcomes they lead to (`rank`), times to a small
range, CRCs to right or wrong. `granted`, `gone`, `last`, `reloaded`, `readAt` and `keyAt` are
history: what the server ordered, who was deleted when the event came, each user's last pass that was stored,
and where and when the card looked up came from.

**Admission** knows no list, sector, CRC or time: only the server's last order about each user (his
card and whether he is a super administrator, a member, a guest or nobody), his last pass under it, and the
handling of one event, with the ways it asks for and the card presented. A member is let in for one way
only, and not the way of his last pass; that he passed is stored or is not. `IsAdmission` maps the
fetching of a record with a right CRC to `Find`, the
moment at which the order was in force; the storing of the state, or its failure, to `Open`; the relocking to `Close`;
every way back to waiting to `Dismiss`; a LIST_RELOAD while an event is handled to
`Relist`, after which the card is any card (finding 1). A record that `get_set_state` reverts
or leaves with a wrong CRC changes nothing there: the server's order stands, and the user is dismissed.

**RfidReader.** One action for each part of the loop; both readers share `Read` and `Compare`. The locals that
hold the last cards have no initial value (`Garbage`). The shell's `send_card` may overwrite
`g_read_card_id` between reading and comparison.

**WifiCmd.** A command lowers the flag, sends, polls `is_recv_wifi_pack` once a millisecond,
compares the header's command, then looks at `recv_pack`. All three are overwritten by the wifi
thread at any step (`ReadFirst`, `ReadLast`, `ReadLossy`). Requests carry a number in the model
only, to tell in `AcceptedWasExecuted` what an answer answers. The ESP8266 is external: it
executes a request or answers with an error, or its answer is lost.

**EspReceive.** The ESP8266 loads a fragment and raises an edge; the edge sets an event that may
already be set. `recv_pack` holds fragments with their identity, so "length and CRC are right"
means that the fragments are those of the header's packet. `PacketChannel` maps `sent` to the
packets begun, `lost` to those a fragment of which was overwritten unread, and `delivered` to
itself.

**EspTransmit.** Three threads send: wifi (priority 5) answers the server and alone reads,
esp8266_info_get (16) sends the commands of the boot, tshell (20) those typed. `writeBuf` is the one
static buffer of `esp8266_spi_transmit`; filling it and
transferring it are each cut in two, so a preemption can find them half done. The wait for
`wr_rdy` is busy and so does not let a lower thread run; the wait for the bus does. The bus is the driver
framework's mutex: who finds it held joins `queue`, lends the holder its priority (`MayRun`: tshell goes on
although info is ready when wifi waits for the bus that tshell holds), and gets it from the holder in the order of the queue.
`disturbed` tells of each thread whether one above it used the link during its packet, `clashed`
whether that ever was between its look at `wr_rdy` and its transfer.
`wr_rdy` is an ordinary variable: the model is of a build that reads it from memory each time, as the
debug build that `rtconfig.py` selects (`-O0`) does.

The modules meet where one keeps a moment of another: `UserCheck.AttOpen`,
`AttCheck` and `AttWrite` are the starts of `AttDatabase.AddOpen`, `AddCheck` and `AddWriteHeader`, with `attRight` for
`hdr.crc`; `UserCheck.SaveOpen` and `SaveClose` are those of `UserFile`, which leaves the card list
out where `UserCheck` leaves out the length of the file and the power losses; the time `UserCheck.Decide` compares is a value of `Clock.TimeValue`; `RcRead`, `RcSend` and `RcSkip` are the outcomes of `RfidReader.Compare`;
the server's packets in `UserCheck` and `AttDatabase` are packets that `EspReceive` delivered,
and `WifiCmd.ServerPacket`. They are not composed into one specification: the
shared state is exactly these moments plus the CRC unit, which both database modules contain, and
the product is beyond TLC.

## 3. Runs

| run | configuration | shows |
|---|---|---|
| `att` | 3 slots, 1 record, up to 2 power losses, request counts 2 and 5 with a 2-bit length | all interleavings of an admission, the server's commands and the wipe: what the header counts is stored but for one record per power loss, answers to ATT_GET are complete, between power losses the file is a log (5.06 M states) |
| `user_check` | 2 users, 2 cards, list of 2, 2 packets or commands of the boot, 2 times, card events, `open_door` typed; records of a member, a super administrator with his card and a suspended user | admission is right although the server, the shell and the readers act at every step; refinement of `Admission` (1.35 M states) |
| `user_live` | 1 user, 1 card, 2 packets or commands of the boot, card and finger events, `open_door` and the wipe typed, fairness | the door locks again, no event stays pending, and unless a packet or a command of the boot comes meanwhile each opening is recorded and counted where the attendance header is right, and who may pass does pass (204 k states) |
| `user_card_right`, `user_card_reader` | as `user_check` | violations, see Findings |
| `user_file` | 3 slots, 2 versions of a record, 1 power loss, requests for CRCs below, across and beyond the largest id | a record written while no state is saved stays; the server sees other losses from the CRCs; the list loads from any file whose slots were all written (492 k states) |
| `clock` | the epoch and two hours about the end of a year, 2 TIMESYNCs, 1 set_time, 1 reset, fairness | the chip keeps the time set last, but for the cases named; the time shown is never ahead, and behind the last reading only below the highest part that has changed since; it comes back whatever was cut off (1.58 M states) |
| `clock_once` | 1 TIMESYNC, 1 set_time, 1 reset | violation, see Findings |
| `rfid` | 3 cards, threshold 3, fairness | debouncing and its end (19 k states) |
| `wifi_cmd` | boot of 2 commands, 1 typed command, 1 server packet, 2 looks at the flag, fairness | success means executed; a command takes no packet from before it began; the boot ends (715 k states) |
| `esp_receive` | packets of 5, 2, 6, 1, 3 bytes with 2 bytes in a fragment | what is delivered was sent; a packet read without mishap is delivered; `pack_counter` passes a packet's end only over packets that are lost; refinement of `PacketChannel` (5 k states) |
| `esp_transmit` | 3 senders, packets of 1 or 2 fragments, 2 packets or reads of wifi, 1 packet each of info and tshell, 2 turns of the wait, fairness | packets reported sent were whole, those of info and tshell unless one above came in; the right to write is neither lost nor doubled but in the cases named; every send ends (765 k states) |

**Why the bounds are enough.** With 3 slots the attendance file is empty, partly full and full, with
requests below, at and above the total and above the width of the length byte; a second power
loss finds the hole of the first. `UserFile` needs a slot, the one whose head shares its sector, and
one behind both to be cut off with the length; two versions let a record be replaced; one power loss can
tear any write (two were checked as well, in a run too long to keep: 1.3 M states). The
hours of `Clock` are the epoch and those on both sides of the end of a year, where hour, date, month and
year change at once, so that every pair of fields that can be copied or converted apart is; at the end of a
day or a month fewer change, in the same order. The theorems hold for any calendar. Two TIMESYNCs let one cut into
another's aftermath, and the reset may come inside any transaction. In `UserCheck`
two users with neighbouring ids are what the sector overlap needs, two cards what
mistaking one for another needs, and two packets allow a deletion or a changed record followed by a reload
within one admission. Finger events take no part in the lookup; they are in `user_live`, where they can be
received along with a card, as is the wipe of the attendance file, on which only the record depends. Liveness is checked with one user because the
decision is the same for each; the events, the shell's pulse and the packets that could starve
it are all there. A threshold of 3 lets a second card arrive before, at and after the expiry. Two
looks at the flag allow an answer before the first, between them and after the last. `EspReceive`
has packets with 1, 2 and 3 fragments and both full and partial last ones, and
overwritten or repeated fragments in each place; `Slots` is above all fragments together, see
section 6. Two turns of the wait are as many as the fragments of a packet, so a packet
can use them up in either fragment, or across both, or not at all; one packet each of the lower
threads and two uses of wifi let info come into tshell's packet, wifi into either or both, and two threads
wait for the bus in either order.

**Deadlock** is checked except in `wifi_cmd`, `esp_receive` and `esp_transmit`, where
the packets, commands or uses of the bound run out and nothing is left to do. The other systems never stop.

**Fairness.**
- `UserCheck`: `WF(Check)`: user_check runs when wifi and esp8266_info_get are idle, its sleep ends, its file calls
  return; packets and the commands of the boot are finite. `SF(ShellRelock)`: the shell's sleep ends while user_check may be at
  work, so the step is enabled again and again rather than continuously; tshell outranks rc522, the only
  source of further events, so it gets its turn when user_check waits.
- `RfidReader`: `WF(Loop)`: the loop goes on since whatever preempts it sleeps again. Nothing is
  assumed of the cards.
- `WifiCmd`: `WF(Command("info"))`: only wifi outranks it, and only while packets come. Nothing is
  assumed of the ESP8266, which may never answer.
- `Clock`: `WF(Rtc)` and `WF(Setting("tshell"))`: rtc's second ends, and whatever outranks rtc or
  tshell ends: packets, typed commands and resets are finite in the model, and so in any stretch of
  time of the device.
- `EspTransmit`: `WF(Send(th))` for each of the three threads: one that may run goes on. Nothing is assumed of the ESP8266, which may
  never be ready.

## 4. Proofs

Every theorem is about `Spec`, for all values of the constants that meet the module's named
assumptions: sizes are naturals (positive where the code divides or counts down), marker values such as `Blank`
lie outside the data, ids fit the list (`MaxUserId <= ListLen`), a packet fits `recv_pack`, the
initial file has each record in its own slot. All of these are evaluated by TLC in the runs too.

| module | theorems | inductive invariant |
|---|---|---|
| `AttDatabase_proofs` | `TypeCorrect`, `CountedRecordsAreStored`, `AnswersAreComplete`, `FileIsLog` | `HolesBoundedByCuts` alone is not inductive: `AddClose` restores a count read earlier. The invariant adds that the records below `add.total` have no more holes than power losses (a deletion lowers the count but keeps the slots, and a wipe needs user_check to be outside the file), that the new record is written before the header counts it and is still the one of this admission when it is counted, that the count on the card is never above `add.total`, that a header read with a right CRC has one until it is written, and that the wipe writes no count but 0 after a rejection. The header that comes back with the record's sector (`HeaderMayReturn`) counts what `add.total` does, so the same bound covers it |
| `UserFile_proofs` | `TypeCorrect`, `LoneWritesStay`, `SyncIsSound`, `ReloadsWork`, `AnswersCover` | `HeadInv`: the head of a slot is its own, zero or never written, and a version in a slot that was written comes whole or shows in the CRC; `BufInv`: the sector and the length that will be written back are what the card has or had before a write that `how` remembers; `CurInv` ties the save to a slot inside the file |
| `Clock_proofs` | `TypeCorrect`, `ClockKept`, `TimeShownLags`, `TimeComesBack` | `Kept`: what a thread in a setting has done of `TimeValue`, then of the buffer, then of the chip belongs to its `goal` (`SettingOwned`, `Aimed`, `BufferOwned`, `HalfSent`), unless a setting that came in between cut it off or left a mix, which makes the goal unknown (`CutOff`). `Shown`: a setting hides what is shown until the next reading (`SettingHides`), a reading that was not outdated is a time of the chip not before the one copied last (`ReadingOfChip`), and `TimeValue` has its parts up to the one being copied and those of the last reading above (`ShownCopied`). The property then follows from a lemma about any calendar: the low parts of a later time under the high parts of an earlier one are never after the later one (`MixedTime`). For `TimeComesBack`, `PlaceInv` says where rtc and tshell can be, and that the chip is in no transaction from before a reset once rtc has begun one; `Fresh` says what rtc has got of a reading at each of its places |
| `UserCheck_proofs` | `TypeCorrect`, `DoorSafe`, `HolderAdmitted`, `DeletedRefused`, `PassbackRefused`, `AdmissionKept`, `HolderReachesDoor`, `HandlingEnds` | `FileInv`: a right CRC means own slot and not deleted, and the state byte is the last pass; `RecInv` carries both to the fetched copy, `PtrInv` ties the list entry to the card until a reload, `CheckInv` keeps what each check established, `BufInv` says that the slot on the card still holds what was loaded or what the server has stored since, which is why a late write-back leaves a wrong CRC rather than a revived user. The refinement adds `GrantInv`, that a record in the file with a right CRC is what the server ordered last (what a late write-back puts over a newer order has a wrong one), and `MemberInv`, that whoever's state is being saved was let in as a member |
| `RfidReader_proofs` | `TypeCorrect`, `LoneCardReportedOnce`, `HeldBackWhileTimed`, `SilenceEnds` | `TimerInv`: a reader holds back exactly while its timer runs, and unless two reports came in quick succession the timer is as old as the last report |
| `WifiCmd_proofs` | `TypeCorrect`, `SuccessIsExecuted`, `FlagIsFresh`, `CommandEnds` | every packet on the link, in the header and taken by a command either comes from the server or answers an executed request (`LinkInv`, `HeaderInv`, `TookInv`); the flag is up only when a packet came since (`FlagInv`) |
| `EspReceive_proofs` | `TypeCorrect`, `IntactDelivered`, `RunsOn`, `LinkIsChannel`, `PacketsReliable` | everything is placed by the fragment in the ESP8266's buffer: what lies in `recv_pack` has been there (`PackInv`), of a missed packet some fragment lies nowhere, so no CRC passes for it (`MissedInv`), and the buffer is read twice only after a loss, which is what allows a packet to arrive twice (`AgainInv`, `OnceMoreInv`); packets begun behind the header of an unfinished one are missed (`RunInv`), and one without mishap is held as far as it has been read (`PartInv`, `WholeInv`) |
| `EspTransmit_proofs` | `TypeCorrect`, `WifiPacketsWhole`, `LowPacketsWhole`, `OneRightToWrite`, `NoDeadlock`, `SendBounded`, `SendShortens` | `LinkInv`: the bus is held by exactly the thread in its transfer, and a thread waits for it only behind one below it, which leaves four queues (`QueueInv`). `PacketInv`, for each of the three threads: while nobody above it has used the link during its packet (`disturbed`), what was heard is its packet up to the fragment at hand and the buffer holds its part; a lower thread cannot come in. `TokenInv`: exactly one owner of the right to write, and whoever has looked at `wr_rdy` has seen it or has no turns left (`Lookers`) |

Each proof follows the same lines: `Init => IInv`; `IInv /\ [Next]_vars => IInv'` with one step
per action, with shared lemmas for actions that leave the same parts alone; the property from `IInv`; and a
last temporal step.

The refinements (`LinkIsChannel`, `AdmissionKept`) show that an initial state maps to an initial state
and every step to a step of the abstract specification or to a stutter, again action by action.
`PacketsReliable` then proves in terms of `PacketChannel` what a reader wants of it (order, nothing missed among what
arrives, twice only after a loss), and carries it down to the receiver.

**The safety part of liveness.** What a step must do so that something happens in the end is an action
property, and is proved: there is a measure that is bounded, that each step of the thread at
work lowers, and that no step of another raises.

| liveness (TLC) | theorem | measure |
|---|---|---|
| `HolderLetIn` | `HolderReachesDoor` | the places between the found card and the open door; only a packet of the server or a command of the boot leads off the way |
| `EventsConsumed`, `OpeningRecorded`, `DoorRelocks` | `HandlingEnds` | the places from the reception to the end of the loop, at most fourteen steps; no event is taken away but by the reception; the pulse ends with the door locked, and from there, with the attendance header right, every step but a packet or a command of the boot leads to a record that is written and counted under a header that is right again (`Noting`) |
| `SendEnds` | `SendBounded`, `SendShortens`, `NoDeadlock` | turns of the wait left, fragments left, places in a fragment; `NoDeadlock` adds that while a thread sends one of the senders can step. The bound is `Spins` + 9 (`MaxNum` + 1) |
| `NeverLockedOut` | `SilenceEnds` | passes of the loop to the threshold, five places each |
| `BootEnds` | `CommandEnds` | looks at the flag left and places in a command, at most `Tries` + 6; then commands left |
| `TimeRecovers` | `TimeComesBack` | steps of rtc to the copy of a fresh reading, at most 33, and before them those of set_time, at most 19 |

**Only model-checked** is what remains of them: that under the fairness stated the measured steps are
taken, so that the measure runs out (and for `DoorRelocks` that the shell's own pulse ends). Fairness and `ENABLED` are out of the proof
system's reach, so the properties of the first column themselves stay with TLC. Every other property of a passing run is proved.

## 5. Findings

Each is a run that ends in a violation; `PROJECT.json` quotes the comment it contradicts.

1. `user_card_right`: between the lookup and the comparison of the card, LIST_RELOAD can put
   another user's entry where the pointer points. The comparison is with this entry and not with
   the card presented, so it agrees.
2. `user_card_reader`: `g_read_card_id` is read after the event. While user_check sleeps in
   `open_door`, a card at the other reader takes the place of the announced one, and is judged by
   the wrong direction.
3. `clock_once`: `DS1307_Check` compares a byte that it may not have received: a TIMESYNC takes the
   bus in its middle, or a reset has left the chip inside a transaction that eats the start
   condition. The mark is then missing from the answer though not from the chip, and rtc sets a
   running clock back to 2000-01-01.

The exceptions in some properties that hold say as much; each is needed, the property fails without it:

- `HolderLetIn` excepts events received together, and packets and commands of the boot that come in between: a CRC calculated over
  their data refuses a valid user. In the seconds after a start `esp8266_info_get` alone, without any packet of the server, can do so.
- `OpeningRecorded` says of an opening that its record is written and counted only where the header of
  the attendance file is right and no packet or command of the boot comes in between: `att_record_add` otherwise refuses the record,
  or spoils the header for all that follow. Errors of the card are left out of it.
- `NoPassback` excepts a pass after one whose state could not be stored: `get_set_state` failed, and the door opened
  all the same.
- `LogKept` allows a count that was deleted to come back, before the record is complete and with it: a deletion by the server between reading and writing the header in
  `att_record_add` is undone, the total comes back to the old one, and then to the old one plus 1. It excepts power losses, after which a
  counted slot may be a hole.
- `LowSendsWhole` excepts a packet of info that wifi came into, and one of tshell that wifi or info came into
  (`disturbed`): both are reported sent, though the ESP8266 may have heard a mix.
- `ReadyKept` excepts a thread that comes between the look at `wr_rdy` and the transfer of one below it
  (`clashed`): wifi between those of info or tshell, or info between those of tshell, without any word from the
  server. It also excepts a sender that gives up (`gaveUp`): one that runs out of turns in the moment
  `wr_rdy` is set clears it without sending. The ESP8266 has nothing to process and never raises
  its pin again: all later sends time out until the next reset.
- `SyncSeesLoss` and `WrittenAloneStays` except records stored while a state is being saved: the late write-back of the file's
  length cuts off a user who was appended meanwhile, that of the sector puts back the head of the next
  record. The server's CRC comparison shows the first and not always the second.
- `SyncSeesLoss` also excepts a record whose writing a power loss interrupted: the old CRC field may
  stand behind a new body.
- `ReloadWorks` excepts slots nobody wrote: a server that does not begin at slot 1 makes FatFs extend the
  file over whatever the card held, and the count of users disagrees with the list.
- `ChipKeepsTime` excepts a setting whose start condition was lost, and one made before rtc, the thread of lowest priority, has set up
  the pins; both are acknowledged to the server. It also excepts a setting that comes between two assignments of
  another to `TimeValue`, or between its load of a field and its store: the chip is then set, without an error, to a
  mix of two times.
- `ShownLags` lets what is shown lag behind the last reading below the highest part that has changed since: at
  midnight user_check may see the new hour with the old date, at the end of a month or a year the new date in the old
  month or year, a time up to a year before the one it saw last.

Also seen while modelling, and part of the models as the code has it, without a run of their own:

- ATT_GET returns the oldest records (`att_database.c` 403, against the header's comment at
  `att_database.h` 102) while ATT_DEL drops the newest, so getting and deleting do not concern the same
  records.
- When events of both readers, or a card and a finger, are pending together, the switch at
  `user_check_thread.c` 226 matches no case: the user is recorded and the door stays shut. A
  finger event alone looks nobody up: the record stays zeroed, is not effective, and is refused.
- A state byte written back by `get_set_state` may carry a sector older than a record the server
  has just stored: that record is reverted and, its CRC no longer matching, refused until it is
  sent again. Safety is unaffected (`DeletedStaysOut`), but an added user may be left out.
- The CRC that `att_record_add` puts into the header is wrong when wifi or esp8266_info_get uses the CRC unit in the middle of it.
  Every later add, deletion and request then finds a bad header and does nothing (`RejectedStays` in `LogKept`), until the
  shell wipes the file or the next boot starts it afresh; openings in between leave no record.
- A CRC calculation of user_check that wifi or esp8266_info_get interrupts is wrong, so a valid user is now and then
  refused, or a record stored with a CRC nobody will accept.
- A second card reported while a timer runs does not restart it (`rfid_thread.c` 56), so the
  promise to hold the same card back for the whole period is kept for a lone card only
  (`LoneCardWaits`).
- When wifi comes between a lower sender's look at `wr_rdy` and its transfer (`clashed`), the buffer's command byte may
  become a read: the fragment is not sent and the right to write is lost with it. When it comes after a lower sender
  has cleared `wr_rdy` and before its transfer, it waits busily for a flag that nobody will set and uses up all its turns: the server's answer
  is dropped (`SendEnds` holds, with a failure).
- The lower parts of a time are copied before the higher ones, so a limit compared between two of the
  assignments at the end of a month or a year is compared with an earlier time, and one that has just expired still
  lets its user pass, until the next assignment.
- The answer's data is copied after the flag was lowered, when the first fragment of the next packet may
  already be in `recv_pack` (`copied` in `WifiCmd`).
- `data_process` gives `att_record_get` and `user_crc_get` arrays of 10 and 100 entries, while
  `server_process.h` 30 and 35 allow the server 18 and 200 at a time; the models' answers are sequences without that limit.

## 6. Not modelled, and why

- **CONNECT** only answers; it is `OtherPacket`, which uses the CRC unit.
- **Device configuration**: `main.c` overwrites what it reads with constants, and nobody reads the file later.
- **The order of the boot**: the state after the boot is `Init`, with `Reload` and `BootHeader` for what
  it does to the files. `rt_enter_critical` is only declared in `main.c` 234, so threads run before
  the boot ends; none of them touches what it initialises after them.
- **DOOR_OPEN, CONFIG_SET, file transfer** have command numbers and no code.
- **RC522 registers, SPI set-up, SD card, display, touch**: device I/O without decisions that the
  properties depend on; `ReadID` is "a card or none".
- **The fingerprint module's driver** is called by nobody; its events are modelled as the shell sends them.
- **RT-Thread, FatFs, libraries** are not this program; what it relies on is built into
  the models: strict priorities, merged events, sector buffers per descriptor, the write order of
  `f_sync`.
- **Bits on the clock's bus that spell the chip's address by accident**: the rest of a cut transaction, of which
  some bits fall while the clock line is high, is taken to be ignored by the chip.
- **The time an SPI transfer takes**: `EspReceive.Read` is one step, although it lasts milliseconds in which the ESP8266
  could load the next fragment; it is taken to keep what it has until it has been read.
- **File and memory errors** that end in an early return before any change are left out where the
  effect equals "the call did not happen"; `NoMemory`, lost requests, bad headers and a failing `get_set_state` are modelled; errors of the card inside `att_record_add` are not.
- **The 165 slots of `recv_pack`**: `RunsOnOverLostOnly` says what makes `pack_counter` pass a packet; the model's
  `Slots` is large enough for all fragments of a run; a fragment past the last slot is not stored, and what the code would
  overwrite there is left out.
- **Everything that is not this program**: the repository has the board support of some hundred other boards,
  peripheral libraries, STemWin and RT-Thread; they are most of its lines. The models cover the
  program's own code, except drawing and register I/O.

## 7. Plan

1. Attendance: a server that gets and deletes in turn, and which records it has seen.
2. Boot: the order of `main.c` 228-437 with threads that start while it goes on.
3. The link as a whole: `EspReceive` under `WifiCmd`, with `PacketChannel` in between.
