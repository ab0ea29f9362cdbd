----------------------------- MODULE UserCheck -----------------------------
(***************************************************************************)
(* Admission (user_check_thread.c) with the threads around it:             *)
(*   user_check (priority 19) waits for an event, looks the card up in the *)
(*              card list, fetches the user's record from the user file,   *)
(*              decides, stores the in/out state and drives the door;      *)
(*   wifi       (priority  5) changes the file and the list on the         *)
(*              server's commands, each of which is one step: nothing in   *)
(*              them sleeps;                                               *)
(*   info       (esp8266_info_get, 16) sends the commands of the boot,     *)
(*              whose CRCs the one CRC unit calculates;                    *)
(*   tshell     (priority 20) may call open_door and send events;          *)
(*   rc522      (priority 25) reads the cards at the two readers.          *)
(* wifi and info may step between any two steps of user_check, which end   *)
(* at the file operations that reach the card and at the end of a          *)
(* calculation by the CRC unit.  The lower threads step only while         *)
(* user_check waits for an event or sleeps in open_door.                   *)
(*                                                                         *)
(* The debouncing of the readers is in RfidReader, the attendance file in  *)
(* AttDatabase.  This module keeps the moment a card is reported, and of   *)
(* the file whether its header is right: it depends on that whether a      *)
(* record is added.                                                        *)
(***************************************************************************)
EXTENDS Integers, FiniteSets, Functions, TLC

CONSTANTS
  MaxUserId,    \* user ids are 1..MaxUserId
  Cards,        \* card numbers, not 0
  ListLen,      \* entries of g_card_id_user_id_list (MAX_USER_NUM)
  Added,        \* bound: user records the server may add
  InitFile,     \* contents of the user file at boot
  MaxTime,      \* bound: values of the clock
  Sent,         \* bound: the events that are sent
  Typed,        \* bound: the other commands typed at the shell
  MaxPackets    \* bound: packets from the server and commands of the boot

NoLimit == -1
UserId  == 1..MaxUserId
Time    == 0..MaxTime
Passes  == {"CARD_IN", "CARD_OUT"}
Events  == Passes \cup {"FINGER_IN", "FINGER_OUT"}

\* user_info_t: rank is what the authority bits grant at this door, inside is
\* this door's bit of state, crc says whether the stored CRC is right.  It
\* covers every field but inside.
User == [user_id : 0..MaxUserId, card_id : Cards \cup {0},
         rank : {"super", "admin", "door", "none"}, effective : BOOLEAN,
         limit : Time \cup {NoLimit}, crc : BOOLEAN, inside : BOOLEAN]

Head(r) == <<r.user_id, r.card_id, r.rank, r.effective, r.limit>>

\* A zeroed record; its CRC is 0, which is not the CRC of zeroes.
ZeroUser == [user_id |-> 0, card_id |-> 0, rank |-> "none", effective |-> FALSE,
             limit |-> NoLimit, crc |-> FALSE, inside |-> FALSE]

Entry    == [user_id : 0..MaxUserId, card_id : Cards \cup {0}]
FileType == [UserId -> User]

ASSUME SizeAssumption == /\ MaxUserId \in Nat /\ MaxTime \in Nat /\ MaxPackets \in Nat
                         /\ ListLen \in Nat /\ MaxUserId <= ListLen
ASSUME CardAssumption == Cards \subseteq Nat \ {0}
ASSUME AddedAssumption == Added \subseteq {r \in User : r.user_id # 0}
ASSUME FileAssumption ==
  /\ InitFile \in FileType
  /\ \A u \in UserId : InitFile[u] = ZeroUser \/ InitFile[u].user_id = u
ASSUME SentAssumption == Sent \subseteq Events /\ Typed \subseteq {"open_door", "wipe_att_db"}

VARIABLES
  file,         \* the user file: the record in each user's slot
  list,         \* g_card_id_user_id_list
  events,       \* g_user_check_event
  g_read_card_id,
  reading,      \* the reader whose card rc522 has read and not yet reported
  pc,           \* where user_check is
  recved,       \* its locals: recved_event,
  key,          \*   card_id_user_id_key.card_id,
  ptr,          \*   p_card_id_user_id_recv, an index of list,
  rec,          \*   user_info_struct_get,
  buf,          \*   the descriptor's sector buffer in get_set_state
  shell,        \* tshell is in open_door
  door,         \* the lock
  crcUnit,      \* whose calculation the CRC unit holds: one that user_check
                \*   still needs, or another
  attRight,     \* the header of the attendance file is there, with a right CRC
  packets,      \* packets from the server and commands of the boot so far
  granted,      \* history: each user's record in the server's eyes
  gone,         \* history: users the server had deleted when recved came
  reloaded,     \* history: the list was reloaded since key was searched
  readAt,       \* history: the reader g_read_card_id was read at, and
  keyAt,        \*   key was
  last          \* history: each user's last pass by card that was stored

fileVars  == <<file, granted, gone, last>>
readVars  == <<g_read_card_id, reading, readAt>>
checkVars == <<recved, key, keyAt, ptr, rec, buf>>
vars == <<fileVars, readVars, checkVars, list, events, pc, shell, door, crcUnit,
          attRight, packets, reloaded>>

NoCard   == 0
NoReader == "none"
NoBuf    == [self |-> ZeroUser, next |-> ZeroUser]

-----------------------------------------------------------------------------
(* The card list *)

\* card_compar orders the list by descending card number.
Descending(l) == \A i, j \in 1..ListLen : i < j => l[i].card_id >= l[j].card_id

\* card_array_init: the valid entries of the file overwrite the head of the
\* list, what lies behind them stays, and qsort, which is not stable, sorts it
\* all.
Overwritten(f, l) ==
  LET valid == {u \in UserId : f[u].user_id # 0}
      n     == Cardinality(valid)
  IN  {[i \in 1..ListLen |->
          IF i <= n THEN [user_id |-> f[u[i]].user_id, card_id |-> f[u[i]].card_id]
                    ELSE l[i]] : u \in Bijection(1..n, valid)}

Reloaded(f, l) ==
  {new \in {[i \in 1..ListLen |-> o[p[i]]] :
              o \in Overwritten(f, l), p \in Bijection(1..ListLen, 1..ListLen)} :
     Descending(new)}

Lists == [1..ListLen -> Entry]

-----------------------------------------------------------------------------
\* The list is a zeroed global until the first card_array_init.  The boot starts
\* the attendance file afresh when its header is wrong.
Init ==
  /\ file = InitFile
  /\ list \in Reloaded(InitFile, [i \in 1..ListLen |-> [user_id |-> 0, card_id |-> 0]])
  /\ events = {}
  /\ g_read_card_id = NoCard
  /\ reading = NoReader
  /\ pc = "recv"
  /\ recved = {} /\ key = NoCard /\ ptr = 0 /\ rec = ZeroUser /\ buf = NoBuf
  /\ shell = FALSE
  /\ door = "locked"
  /\ crcUnit = "other"
  /\ attRight = TRUE
  /\ packets = 0
  /\ granted = InitFile
  /\ gone = {}
  /\ reloaded = FALSE
  /\ readAt = NoReader /\ keyAt = NoReader
  /\ last = [u \in UserId |-> NoReader]

-----------------------------------------------------------------------------
(* user_check_thread_entry *)

\* What the locals hold matters no more.
LocalsDead ==
  /\ recved' = {} /\ key' = NoCard /\ keyAt' = NoReader
  /\ ptr' = 0 /\ rec' = ZeroUser /\ buf' = NoBuf

\* The head of the loop clears the record; the other locals are dead there.
Restart == pc' = "recv" /\ LocalsDead

\* Fault: RT_EVENT_FLAG_CLEAR is not given.
NotCleared(ev) == ev

\* The pending bits after an rt_event_recv that took ev.
Cleared(ev) == {}

\* Fault: one entry too many is searched.
FoundPastEnd(c) == {i \in 1..ListLen : list[i].card_id = c} \cup {ListLen + 1}

\* The entries bsearch may return for card c.
Found(c) == {i \in 1..ListLen : list[i].card_id = c}

\* rt_event_recv takes all the pending bits at once.  A card event searches the
\* list for g_read_card_id; any matching entry may be found.  A finger event
\* alone goes on with the zeroed record.
Recv ==
  /\ pc = "recv"
  /\ events # {}
  /\ events' = Cleared(events)
  /\ reloaded' = FALSE
  /\ gone' = {u \in UserId : granted[u].user_id = 0}
  /\ \/ /\ events \cap Passes # {}
        /\ recved' = events
        /\ key' = g_read_card_id
        /\ keyAt' = readAt
        /\ ptr' \in Found(g_read_card_id)
        /\ pc' = "deref"
        /\ UNCHANGED <<rec, buf>>
     \/ /\ events \cap Passes # {}
        /\ Found(g_read_card_id) = {}
        /\ Restart
     \/ /\ events \cap Passes = {}
        /\ recved' = events
        /\ pc' = "decide"
        /\ UNCHANGED <<key, keyAt, ptr, rec, buf>>
  /\ UNCHANGED <<readVars, file, granted, last, list, shell, door, crcUnit, attRight,
                 packets>>

\* The user id is taken from the entry found.
Deref ==
  /\ pc = "deref"
  /\ rec' = [rec EXCEPT !.user_id = list[ptr].user_id]
  /\ pc' = "get"
  /\ UNCHANGED <<fileVars, readVars, recved, key, keyAt, ptr, buf, list, events, shell, door,
                 crcUnit, attRight, packets, reloaded>>

\* Fault: the CRC unit is not reset before the record's CRC is calculated.
GetUnitNotReset ==
  /\ pc = "get"
  /\ rec' = IF rec.user_id \in UserId THEN file[rec.user_id] ELSE rec
  /\ pc' = "verifyCrc"
  /\ UNCHANGED <<fileVars, readVars, recved, key, keyAt, ptr, buf, list, events, shell, door,
                 crcUnit, attRight, packets, reloaded>>

\* add_del_get_one_user(GET) reads the slot; a failure (user id 0) is only
\* printed.  The CRC of what is now in the record is started.
Get ==
  /\ pc = "get"
  /\ rec' = IF rec.user_id \in UserId THEN file[rec.user_id] ELSE rec
  /\ crcUnit' = "user_check"
  /\ pc' = "verifyCrc"
  /\ UNCHANGED <<fileVars, readVars, recved, key, keyAt, ptr, buf, list, events, shell,
                 door, attRight, packets, reloaded>>

\* Fault: the CRC of the record is not checked.
VerifyCrcNot ==
  /\ pc = "verifyCrc"
  /\ pc' = "verifyCard"
  /\ UNCHANGED checkVars
  /\ UNCHANGED <<fileVars, readVars, list, events, shell, door, crcUnit, attRight, packets,
                 reloaded>>

\* A CRC that does not match, be it only that another thread used the unit
\* meanwhile, ends the handling of the event.
VerifyCrc ==
  /\ pc = "verifyCrc"
  /\ IF rec.crc /\ crcUnit = "user_check"
       THEN pc' = "verifyCard" /\ UNCHANGED checkVars
       ELSE Restart
  /\ crcUnit' = "other"
  /\ UNCHANGED <<fileVars, readVars, list, events, shell, door, attRight, packets, reloaded>>

\* Fault: the card of the record is not compared.
VerifyCardNot ==
  /\ pc = "verifyCard"
  /\ pc' = "decide"
  /\ UNCHANGED checkVars
  /\ UNCHANGED <<fileVars, readVars, list, events, shell, door, crcUnit, attRight, packets,
                 reloaded>>

\* The record's card is compared with the entry as it is now.
VerifyCard ==
  /\ pc = "verifyCard"
  /\ IF rec.card_id = list[ptr].card_id
       THEN pc' = "decide" /\ UNCHANGED checkVars
       ELSE Restart
  /\ UNCHANGED <<fileVars, readVars, list, events, shell, door, crcUnit, attRight, packets,
                 reloaded>>

\* Fault: a suspended user passes.
AuthorisedSuspended(r, t) ==
  /\ r.limit # NoLimit => t < r.limit
  /\ r.rank \in {"super", "admin", "door"}

\* May a user with record r pass at time t?
Authorised(r, t) ==
  /\ r.effective
  /\ r.limit # NoLimit => t < r.limit
  /\ r.rank \in {"super", "admin", "door"}

\* Fault: someone who is already inside may enter.
DirectionAlwaysRight(r, ev) == ev = {"CARD_IN"} => r.inside

\* Leaving needs the user inside, entering outside.
DirectionRight(r, ev) ==
  /\ ev = {"CARD_IN"} => r.inside
  /\ ev = {"CARD_OUT"} => ~r.inside

\* A super administrator passes at once.  For the others the switch has cases
\* for single events only: a finger event, and several events received
\* together, reach the attendance record without opening the door.
Decide(t) ==
  /\ pc = "decide"
  /\ \/ /\ rec.rank = "super"
        /\ pc' = "door"
        /\ UNCHANGED checkVars
     \/ /\ rec.rank # "super"
        /\ Authorised(rec, t) /\ DirectionRight(rec, recved)
        /\ pc' = IF \E e \in Passes : recved = {e} THEN "saveOpen" ELSE "record"
        /\ UNCHANGED checkVars
     \/ /\ rec.rank # "super"
        /\ ~(Authorised(rec, t) /\ DirectionRight(rec, recved))
        /\ Restart
  /\ UNCHANGED <<fileVars, readVars, list, events, shell, door, crcUnit, attRight, packets,
                 reloaded>>

\* get_set_state opens the file and seeks to the state, which loads the sector
\* that holds it: with it the CRC of the same record and the head of the next.
SaveOpen ==
  /\ pc = "saveOpen"
  /\ buf' = [self |-> file[rec.user_id],
             next |-> IF rec.user_id + 1 \in UserId THEN file[rec.user_id + 1]
                                                    ELSE ZeroUser]
  /\ pc' = "saveClose"
  /\ UNCHANGED <<fileVars, readVars, recved, key, keyAt, ptr, rec, list, events, shell, door,
                 crcUnit, attRight, packets, reloaded>>

\* Record r when the sector saved before is written over its end, with the
\* state that events ev lead to: its CRC is the saved one.
StateWritten(r, saved, ev) ==
  [r EXCEPT !.inside = (ev = {"CARD_OUT"}), !.crc = saved.crc /\ Head(saved) = Head(r)]

\* Record r when the sector saved before is written over its head: its CRC and
\* its state, which lie in another sector, stay.
HeadReverted(r, saved) ==
  [saved EXCEPT !.inside = r.inside, !.crc = r.crc /\ Head(saved) = Head(r)]

\* The state is written into the buffer and close() writes the sector out, over
\* whatever wifi has put there since it was loaded.
SaveClose ==
  /\ pc = "saveClose"
  /\ LET u == rec.user_id
     IN  file' = [v \in UserId |->
           CASE v = u     -> StateWritten(file[v], buf.self, recved)
             [] v = u + 1 -> HeadReverted(file[v], buf.next)
             [] OTHER     -> file[v]]
  /\ last' = [last EXCEPT ![rec.user_id] = CHOOSE e \in Passes : recved = {e}]
  /\ buf' = NoBuf
  /\ pc' = "door"
  /\ UNCHANGED <<granted, gone, readVars, recved, key, keyAt, ptr, rec, list, events, shell,
                 door, crcUnit, attRight, packets, reloaded>>

\* get_set_state fails, before or at the close: nothing is stored, and its result
\* is not looked at.
SaveFails ==
  /\ pc = "saveOpen"
  /\ pc' = "door"
  /\ UNCHANGED <<fileVars, readVars, checkVars, list, events, shell, door, crcUnit,
                 attRight, packets, reloaded>>

\* open_door drives the lock and sleeps.
OpenDoor ==
  /\ pc = "door"
  /\ door' = "unlocked"
  /\ pc' = "sleep"
  /\ UNCHANGED <<fileVars, readVars, checkVars, list, events, shell, crcUnit, attRight,
                 packets, reloaded>>

\* Fault: the lock is not driven back.
RelockForgotten ==
  /\ pc = "sleep"
  /\ pc' = "record"
  /\ UNCHANGED <<fileVars, readVars, checkVars, list, events, shell, door, crcUnit,
                 attRight, packets, reloaded>>

\* The sleep is over: the door is locked.
Relock ==
  /\ pc = "sleep"
  /\ door' = "locked"
  /\ pc' = "record"
  /\ UNCHANGED <<fileVars, readVars, checkVars, list, events, shell, crcUnit, attRight,
                 packets, reloaded>>

\* Fault: the CRC unit is not reset before the header's CRC is calculated.
AttOpenUnitNotReset ==
  /\ pc = "record"
  /\ pc' = "attCheck"
  /\ LocalsDead
  /\ UNCHANGED <<fileVars, readVars, list, events, shell, door, crcUnit, attRight, packets,
                 reloaded>>

\* add_one_att_record fills in the record.  att_record_add reads the header of the
\* attendance file and starts its CRC.
AttOpen ==
  /\ pc = "record"
  /\ crcUnit' = "user_check"
  /\ pc' = "attCheck"
  /\ LocalsDead
  /\ UNCHANGED <<fileVars, readVars, list, events, shell, door, attRight, packets, reloaded>>

\* A header with a wrong CRC, or one that is only thought wrong because the unit
\* was used meanwhile, refuses the record, which is only printed.  Otherwise the
\* record is written and the CRC of the new header started.
AttCheck ==
  /\ pc = "attCheck"
  /\ IF attRight /\ crcUnit = "user_check"
       THEN pc' = "attWrite" /\ crcUnit' = "user_check" /\ UNCHANGED checkVars
       ELSE Restart /\ crcUnit' = "other"
  /\ UNCHANGED <<fileVars, readVars, list, events, shell, door, attRight, packets, reloaded>>

\* The header that counts the record is written, with the CRC the unit has by now.
AttWrite ==
  /\ pc = "attWrite"
  /\ attRight' = (crcUnit = "user_check")
  /\ crcUnit' = "other"
  /\ pc' = "noted"
  /\ UNCHANGED <<fileVars, readVars, checkVars, list, events, shell, door, packets, reloaded>>

\* The record is made and the handling of the event over.
Noted ==
  /\ pc = "noted"
  /\ Restart
  /\ UNCHANGED <<fileVars, readVars, list, events, shell, door, crcUnit, attRight, packets,
                 reloaded>>

\* add_one_att_record
Attend == AttOpen \/ AttCheck \/ AttWrite \/ Noted

-----------------------------------------------------------------------------
(* wifi: one packet from the server; info: one command of the boot *)

\* wifi calculates the CRC of a packet, info that of a command it sends.
LinkCrc ==
  /\ packets < MaxPackets
  /\ packets' = packets + 1
  /\ crcUnit' = "other"
  /\ UNCHANGED <<readVars, checkVars, events, pc, shell, door, attRight>>

StoreRecord(u, r) ==
  /\ file'    = [file EXCEPT ![u] = r]
  /\ granted' = [granted EXCEPT ![u] = r]
  /\ last'    = [last EXCEPT ![u] = NoReader]

\* CMD_SERVER_USER_ADD stores the record as it comes.
UserAdd(r) ==
  /\ LinkCrc
  /\ StoreRecord(r.user_id, r)
  /\ gone' = gone \ {r.user_id}
  /\ UNCHANGED <<list, reloaded>>

\* CMD_SERVER_USER_DEL zeroes the slot.
UserDel(u) ==
  /\ LinkCrc
  /\ StoreRecord(u, ZeroUser)
  /\ UNCHANGED <<gone, list, reloaded>>

\* CMD_SERVER_LIST_RELOAD.
ListReload ==
  /\ LinkCrc
  /\ list' \in Reloaded(file, list)
  /\ reloaded' = TRUE
  /\ UNCHANGED fileVars

\* Any other packet.
OtherPacket ==
  /\ LinkCrc
  /\ UNCHANGED <<fileVars, list, reloaded>>

\* esp8266_info_get sends one of its commands with wifi_send.
InfoSend ==
  /\ LinkCrc
  /\ UNCHANGED <<fileVars, list, reloaded>>

-----------------------------------------------------------------------------
(* rc522 and tshell *)

LowMayRun == pc = "sleep" \/ (pc = "recv" /\ events = {})

\* rt_event_send
SendEvent(e) == events' = events \cup {e}

\* ReadID at reader e stores the card it sees.
RcRead(e, c) ==
  /\ LowMayRun
  /\ reading = NoReader
  /\ g_read_card_id' = c
  /\ reading' = e
  /\ readAt' = e
  /\ UNCHANGED <<fileVars, checkVars, list, events, pc, shell, door, crcUnit, attRight,
                 packets, reloaded>>

\* A card that is not the last one, or comes after the threshold, is reported.
RcSend ==
  /\ LowMayRun
  /\ reading # NoReader
  /\ SendEvent(reading)
  /\ reading' = NoReader
  /\ UNCHANGED <<fileVars, checkVars, g_read_card_id, readAt, list, pc, shell, door,
                 crcUnit, attRight, packets, reloaded>>

\* The same card within the threshold is not.
RcSkip ==
  /\ LowMayRun
  /\ reading # NoReader
  /\ reading' = NoReader
  /\ UNCHANGED <<fileVars, checkVars, g_read_card_id, readAt, list, events, pc, shell, door,
                 crcUnit, attRight, packets, reloaded>>

\* finger_print_event_send, which only the shell calls.
FingerEvent(e) ==
  /\ LowMayRun
  /\ SendEvent(e)
  /\ UNCHANGED <<fileVars, readVars, checkVars, list, pc, shell, door, crcUnit, attRight,
                 packets, reloaded>>

\* send_get_card_event typed at the shell.
SendCard(e, c) ==
  /\ LowMayRun
  /\ g_read_card_id' = c
  /\ readAt' = e
  /\ SendEvent(e)
  /\ UNCHANGED <<fileVars, reading, checkVars, list, pc, shell, door, crcUnit, attRight,
                 packets, reloaded>>

\* open_door typed at the shell.
ShellOpen ==
  /\ "open_door" \in Typed
  /\ LowMayRun
  /\ ~shell
  /\ shell' = TRUE
  /\ door' = "unlocked"
  /\ UNCHANGED <<fileVars, readVars, checkVars, list, events, pc, crcUnit, attRight,
                 packets, reloaded>>

ShellRelock ==
  /\ LowMayRun
  /\ shell
  /\ shell' = FALSE
  /\ door' = "locked"
  /\ UNCHANGED <<fileVars, readVars, checkVars, list, events, pc, crcUnit, attRight,
                 packets, reloaded>>

\* The wipe of the attendance file typed at the shell; a crossing append or a
\* disturbed CRC may leave the new header wrong.
WipeAtt ==
  /\ "wipe_att_db" \in Typed
  /\ LowMayRun
  /\ attRight' \in BOOLEAN
  /\ UNCHANGED <<fileVars, readVars, checkVars, list, events, pc, shell, door, crcUnit,
                 packets, reloaded>>

-----------------------------------------------------------------------------
Check == \/ Recv \/ Deref \/ Get \/ VerifyCrc \/ VerifyCard
         \/ \E t \in Time : Decide(t)
         \/ SaveOpen \/ SaveClose \/ SaveFails \/ OpenDoor \/ Relock \/ Attend

Wifi == \/ \E r \in Added : UserAdd(r)
        \/ \E u \in UserId : UserDel(u)
        \/ ListReload \/ OtherPacket

Readers == \/ \E e \in Passes \cap Sent, c \in Cards : RcRead(e, c)
           \/ RcSend \/ RcSkip

Shell == \/ \E e \in Sent \cap Passes, c \in Cards : SendCard(e, c)
         \/ \E e \in Sent \ Passes : FingerEvent(e)
         \/ ShellOpen \/ ShellRelock \/ WipeAtt

Next == Check \/ Wifi \/ InfoSend \/ Readers \/ Shell

Spec == Init /\ [][Next]_vars

\* The scheduler runs user_check whenever nothing of wifi and info is pending, and its
\* sleep ends.  tshell comes before rc522, the only source of further events,
\* so it cannot be kept from ending its own sleep.
FairSpec == Spec /\ WF_vars(Check) /\ SF_vars(ShellRelock)

-----------------------------------------------------------------------------
TypeOK ==
  /\ file \in FileType /\ granted \in FileType
  /\ list \in Lists
  /\ events \subseteq Events
  /\ g_read_card_id \in Cards \cup {NoCard}
  /\ reading \in Passes \cup {NoReader}
  /\ pc \in {"recv", "deref", "get", "verifyCrc", "verifyCard", "decide", "saveOpen",
             "saveClose", "door", "sleep", "record", "attCheck", "attWrite", "noted"}
  /\ recved \subseteq Events
  /\ key \in Cards \cup {NoCard}
  /\ ptr \in 0..ListLen
  /\ rec \in User
  /\ buf.self \in User /\ buf.next \in User
  /\ shell \in BOOLEAN /\ reloaded \in BOOLEAN
  /\ door \in {"locked", "unlocked"}
  /\ crcUnit \in {"user_check", "other"} /\ attRight \in BOOLEAN
  /\ packets \in 0..MaxPackets
  /\ gone \subseteq UserId
  /\ readAt \in Passes \cup {NoReader} /\ keyAt \in Passes \cup {NoReader}
  /\ last \in [UserId -> Passes \cup {NoReader}]

Admitted == pc \in {"saveOpen", "saveClose", "door", "sleep"}

\* The door is unlocked only inside one of the two pulses of open_door.
DoorUnlockedOnlyInPulse == door = "unlocked" => pc = "sleep" \/ shell

\* Whom the door opens for holds a record with a right CRC and, unless the list
\* was reloaded since the card was looked up, with the card that was presented.
AdmittedHoldsCard == Admitted => rec.crc /\ (reloaded \/ rec.card_id = key)

\* A user the server had deleted before the event came is not let in, though
\* the list may still name him and a sector written back late may have put the
\* head of his record into the file again.
DeletedStaysOut == Admitted => rec.user_id \notin gone

\* Nobody passes twice in the same direction, unless the server has written his
\* record in between or the first pass could not be stored.
NoPassback == pc \in {"saveOpen", "saveClose"} => recved # {last[rec.user_id]}

\* The server's order about a user, by his record r.
Order(r) ==
  [card  |-> r.card_id,
   class |-> CASE r.user_id = 0 -> "nobody"
               [] r.user_id # 0 /\ r.rank = "super" -> "super"
               [] r.user_id # 0 /\ r.rank \in {"admin", "door"} /\ r.effective
                    /\ r.limit # 0 -> "member"
               [] OTHER -> "guest"]

Phase == CASE pc \in {"recv", "record", "attCheck", "attWrite", "noted"} -> "idle"
           [] pc \in {"door", "sleep"} -> "open"
           [] OTHER -> IF rec.crc THEN "found" ELSE "asked"

\* The door is opened as an Admission would open it: by an order of the server that
\* was in force at one moment while the event was handled, for the holder of
\* the card, once in each direction.  The fetching of a record with a right CRC
\* is that moment, the storing of the state is the pass, which is forgotten when
\* it cannot be stored.
Promise == INSTANCE Admission WITH
             Users <- UserId, Ways <- Events, Directions <- Passes, NoDirection <- NoReader,
             ordered <- [u \in UserId |-> Order(granted[u])],
             phase <- Phase,
             ways  <- IF Phase = "idle" THEN {} ELSE recved,
             cards <- CASE Phase = "idle" -> {}
                        [] Phase # "idle" /\ reloaded  -> Cards \cup {NoCard}
                        [] Phase # "idle" /\ ~reloaded -> {key},
             holder <- IF Phase \in {"found", "open"}
                         THEN [user |-> rec.user_id, order |-> Order(rec)]
                         ELSE [user |-> 0, order |-> Order(ZeroUser)]

IsAdmission == Promise!Spec

\* Comment at user_check_thread.c:159, "判断card id是否正确": is the card right?
\* Who is admitted holds the card that was presented, reload or not.
AdmittedCardIsRight == Admitted => rec.card_id = key

\* Comments at user_check_thread.c:228 and 245, "门内刷卡" and "门外刷卡": the card
\* admitted was presented at the reader the event names.
CardWasAtReader ==
  pc = "saveOpen" => recved = {keyAt}

\* The door is locked again whoever opened it.
DoorRelocks == door = "unlocked" ~> door = "locked"

\* An opening by user_check ends, and where the header of the attendance file is
\* right by then its record is written and counted under a header that is right
\* again, unless a packet or a command of the boot comes meanwhile and disturbs a
\* CRC.  Errors of the card are left out.
OpeningRecorded ==
  /\ pc = "door" ~> pc = "record"
  /\ \A n \in 0..MaxPackets :
       pc = "record" /\ attRight /\ packets = n ~>
         packets # n \/ (pc = "noted" /\ attRight)

\* May the user of entry e pass, by his record in the file, with event ev alone
\* and at any time?
LetsIn(e, ev) ==
  e.user_id \in UserId /\
    LET r == file[e.user_id]
    IN  /\ r.crc /\ r.card_id = e.card_id
        /\ \E p \in Passes : ev = {p}
        /\ r.rank = "super" \/ (Authorised(r, MaxTime) /\ DirectionRight(r, ev))

\* Nothing but a packet from the server or a command of the boot keeps the door
\* shut for a user whose card was found and whose record lets him in: no lower
\* thread does, and no earlier admission, when it is not for an event received
\* along with his.
HolderLetIn ==
  \A n \in 0..MaxPackets :
    pc = "deref" /\ LetsIn(list[ptr], recved) /\ packets = n ~>
      pc = "door" \/ packets # n

\* No event stays pending.
EventsConsumed == events # {} ~> events = {}
=============================================================================
