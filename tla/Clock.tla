------------------------------- MODULE Clock -------------------------------
(***************************************************************************)
(* The time of day: the DS1307 chip with its battery, the global TimeValue *)
(* that every other part reads, and the threads that move the time between *)
(* them over a bit-banged bus without a lock (ds1307.c, soft_iic.c):       *)
(*   wifi   (priority  5) sets the time the server sends (TIMESYNC);       *)
(*   tshell (priority 20) sets a typed time (set_time);                    *)
(*   rtc    (priority 26) initialises a chip that does not know its mark,  *)
(*                        then copies the chip to TimeValue every second.  *)
(* wifi's command is one step, nothing runs in between.  tshell and rtc    *)
(* are cut at each load and store of a field of TimeValue or Time_Buffer,  *)
(* at each byte they write to the chip and at each start condition.        *)
(* A time is cut to the hour: minutes and seconds are converted, sent and  *)
(* copied with the hour, the weekday, which nothing uses, is left out.     *)
(***************************************************************************)
EXTENDS Integers

CONSTANTS
  Times,      \* bound: hours since 2000-01-01 00:00 that the model visits
  Calendar,   \* the chip's calendar: what their date and hour are
  SetTimes,   \* bound: the times that are sent or typed
  MaxSyncs,   \* bound: TIMESYNC packets
  MaxSets,    \* bound: calls of set_time
  MaxResets,  \* bound: resets of the microcontroller
  Noise,      \* a byte, or a field made of it, that no source determines
  Unknown     \* no time in particular

Part == 1..4     \* of a time, in the order of the chip's registers: hour, date, month, year
Epoch == 0       \* 2000-01-01 00:00

\* Two times agree above a part; one is before the other.
Agree(f, g, p)  == \A q \in Part : q > p => f[q] = g[q]
Before(f, g)    == \E p \in Part : f[p] < g[p] /\ Agree(f, g, p)
NotAfter(f, g)  == f = g \/ Before(f, g)

ASSUME TimesAssumption == Times \subseteq Nat /\ SetTimes \subseteq Times /\ Epoch \in Times
ASSUME CalendarAssumption ==
  /\ \A t \in Times : Calendar[t] \in [Part -> Nat]
  /\ \A t \in Times : /\ Calendar[t][1] \in 0..23 /\ Calendar[t][2] \in 1..31
                      /\ Calendar[t][3] \in 1..12 /\ Calendar[t][4] \in 0..99
  /\ \A t, u \in Times : t < u => Before(Calendar[t], Calendar[u])
ASSUME BoundAssumption == MaxSyncs \in Nat /\ MaxSets \in Nat /\ MaxResets \in Nat
ASSUME MarkerAssumption == Noise \notin Nat /\ Unknown \notin Nat

VARIABLES
  chip,          \* the parts of the chip's time, in BCD
  mark,          \* RAM address 55 of the chip holds test_data
  held,          \* the kind of transaction that a reset has left the chip in
  TimeValue,     \* the global, in binary
  Time_Buffer,   \* the global that Time_Init fills and sends, in BCD
  Time_Register, \* rtc's local that a reading fills, in BCD
  at,            \* where tshell and rtc are
  part,          \* and at which part of the time
  loaded,        \* the part of TimeValue that Time_Init has loaded
  arg,           \* the argument of set_time
  missed,        \* whether the chip does not follow their transaction
  pointed,       \* whether a reading set the chip's address pointer
  left,          \* packets, calls and resets still to come
  due,           \* what the chip must show (history)
  goal,          \* what the setting a thread is in must lead to (history)
  valid,         \* whether Time_Register and TimeValue come from readings
                 \* since which no time was set (history)
  copied         \* the last reading copied as a whole (history)

vars == <<chip, mark, held, TimeValue, Time_Buffer, Time_Register, at, part, loaded,
          arg, missed, pointed, left, due, goal, valid, copied>>

Low == {"tshell", "rtc"}

-----------------------------------------------------------------------------
(* Conversions *)

\* How many tens the masks of a part leave.
Tens == <<4, 4, 2, 16>>

\* Fault: the tens are not separated from the units.
EncodeUnmasked(p, v) == IF v = Noise THEN Noise ELSE (v % 10) + 16 * v

\* A part to BCD and back.
Encode(p, v) == IF v = Noise THEN Noise ELSE (v % 10) + 16 * ((v \div 10) % Tens[p])
Decode(p, b) == IF b = Noise THEN Noise ELSE (b % 16) + 10 * ((b \div 16) % Tens[p])

Registers(t) == [p \in Part |-> Encode(p, Calendar[t][p])]
Decoded(r)   == [p \in Part |-> Decode(p, r[p])]

NoTime == [p \in Part |-> Noise]

-----------------------------------------------------------------------------
(* The bus *)

\* A reading first writes the address it reads from.
Pointing == {"pointCheck", "pointRecheck", "pointRead"}
Reading  == {"checking", "rechecking", "reading"}
Writing  == {"sending", "marking"} \cup Pointing
OnBus(th) == at[th] \in Reading \cup Writing

\* The pins are set up by rtc's first step; before it the chip hears nothing.
BusReady == at["rtc"] # "start"

\* Whose transaction the chip follows when another one begins.  It ignores what
\* is left of theirs, up to the repeated start of a reading, and they read the
\* idle line.  (Left out: bits of the rest that fall while the clock is high
\* and happen to spell the chip's address.)
Followed(th) == {u \in Low \ {th} : OnBus(u) /\ ~missed[u]}

\* A start condition may get lost while the chip drives the line, in a
\* transaction that is cut off or was by a reset.
MayBeLost(th) == held # "no" \/ Followed(th) # {}

\* Its bytes may then be taken for data of a write that was cut off, wherever
\* that had set the address pointer.
MayScramble(th) == held = "writing" \/ \E u \in Followed(th) : at[u] \in Writing

-----------------------------------------------------------------------------
\* The chip of a new device has no mark and no time; a restarted device finds
\* the time the chip has kept.
Init ==
  /\ \/ mark = FALSE /\ chip = NoTime /\ due = Unknown
     \/ mark = TRUE /\ \E t \in Times : chip = Registers(t) /\ due = t
  /\ held = "no"
  /\ TimeValue = [p \in Part |-> 0]
  /\ Time_Buffer = [p \in Part |-> 0]
  /\ Time_Register = NoTime
  /\ at = [tshell |-> "idle", rtc |-> "start"]
  /\ part = [th \in Low |-> 1]
  /\ loaded = [th \in Low |-> Noise]
  /\ arg = Epoch
  /\ missed = [th \in Low |-> FALSE]
  /\ pointed = TRUE
  /\ left = [syncs |-> MaxSyncs, sets |-> MaxSets, resets |-> MaxResets]
  /\ goal = [th \in Low |-> Unknown]
  /\ valid = [register |-> FALSE, shown |-> FALSE]
  /\ copied = Epoch

\* tshell runs when wifi is idle, which it is between steps; rtc when tshell
\* is idle too.
MayRun(th) == th = "tshell" \/ at["tshell"] = "idle"

Goto(th, place, p) == at' = [at EXCEPT ![th] = place] /\ part' = [part EXCEPT ![th] = p]

\* The end of a transaction.
Release(th) == missed' = [missed EXCEPT ![th] = FALSE]

-----------------------------------------------------------------------------
(* The chip (external) counts on.  Writing its seconds restarts its second, *)
(* so no hour passes inside a write that it follows.                        *)
Tick ==
  /\ \A th \in Low : at[th] = "sending" /\ part[th] > 1 => missed[th]
  /\ \E t \in Times : /\ t + 1 \in Times
                      /\ chip = Registers(t)
                      /\ chip' = Registers(t + 1)
  /\ due' = IF due = Unknown THEN Unknown ELSE due + 1
  /\ UNCHANGED <<mark, held, TimeValue, Time_Buffer, Time_Register, at, part, loaded,
                 arg, missed, pointed, left, goal, valid, copied>>

-----------------------------------------------------------------------------
(* Transactions of tshell and rtc *)

\* The start condition and the chip's address; lost says whether the chip
\* missed them.
Begin(th, from, to, lost) ==
  /\ MayRun(th)
  /\ at[th] = from
  /\ Goto(th, to, 1)
  /\ lost \in IF ~BusReady THEN {TRUE} ELSE IF MayBeLost(th) THEN BOOLEAN ELSE {FALSE}
  /\ missed' = [u \in Low |-> IF u = th THEN lost ELSE missed[u] \/ u \in Followed(th)]
  /\ \/ UNCHANGED <<chip, mark>>
     \/ lost /\ MayScramble(th) /\ chip' = NoTime /\ mark' \in {mark, FALSE}
  /\ held' = IF BusReady THEN "no" ELSE held
  /\ UNCHANGED <<TimeValue, Time_Buffer, Time_Register, loaded, arg, pointed, left,
                 goal, valid, copied>>

\* DS1307_Read_Byte and DS1307_Operate_Register, reading, write the address.
BeginRead(from, to) ==
  /\ \E lost \in BOOLEAN : Begin("rtc", from, to, lost)
  /\ due' = IF chip' = chip THEN due ELSE Unknown

\* Then they start again, at which the chip latches its time.  One whose first
\* byte got no answer has given up; one that was cut off after it is followed
\* again, from wherever the address pointer is.
Restart(from, to) ==
  /\ MayRun("rtc")
  /\ at["rtc"] = from
  /\ Goto("rtc", to, 1)
  /\ pointed' = ~missed["rtc"]
  /\ \E still \in IF missed["rtc"] THEN BOOLEAN ELSE {FALSE} :
       /\ missed' = [missed EXCEPT !["rtc"] = still]
       /\ IF to = "reading"
            THEN /\ Time_Register' \in IF still THEN {NoTime}
                                       ELSE IF missed["rtc"] THEN {chip, NoTime} ELSE {chip}
                 /\ valid' = [valid EXCEPT !.register = ~missed["rtc"]]
            ELSE UNCHANGED <<Time_Register, valid>>
  /\ UNCHANGED <<chip, mark, held, TimeValue, Time_Buffer, loaded, arg, left, due,
                 goal, copied>>

\* DS1307_Check: a byte that is not the mark's is in no way determined.
EndCheck ==
  /\ MayRun("rtc")
  /\ \/ at["rtc"] = "checking"
        /\ \E right \in IF missed["rtc"] \/ ~pointed THEN BOOLEAN ELSE {mark} :
             IF right THEN Goto("rtc", "recheck", 1) /\ UNCHANGED goal
                      ELSE Goto("rtc", "assign", 4) /\ goal' = [goal EXCEPT !["rtc"] = Epoch]
     \/ at["rtc"] = "rechecking" /\ Goto("rtc", "read", 1) /\ UNCHANGED goal
  /\ Release("rtc")
  /\ pointed' = TRUE
  /\ UNCHANGED <<chip, mark, held, TimeValue, Time_Buffer, Time_Register, loaded, arg,
                 left, due, valid, copied>>

\* A write whose start was lost leaves the chip without the time it was to get.
BeginSend(th) ==
  \E lost \in BOOLEAN : /\ Begin(th, "send", "sending", lost)
                        /\ due' = IF lost THEN Unknown ELSE due

\* DS1307_Operate_Register, writing.  Only when all has been written does the
\* chip show a time of the setting.
SendPart(th) ==
  /\ MayRun(th)
  /\ at[th] = "sending"
  /\ LET p == part[th] IN
       /\ IF p = 4 THEN /\ Goto(th, "mark", 1)
                        /\ Release(th)
                        /\ goal' = [goal EXCEPT ![th] = Unknown]
                   ELSE Goto(th, "sending", p + 1) /\ UNCHANGED <<missed, goal>>
       /\ IF missed[th] THEN UNCHANGED <<chip, due>>
                        ELSE /\ chip' = [chip EXCEPT ![p] = Time_Buffer[p]]
                             /\ due' = IF p = 4 THEN goal[th] ELSE Unknown
  /\ UNCHANGED <<mark, held, TimeValue, Time_Buffer, Time_Register, loaded, arg,
                 pointed, left, valid, copied>>

\* The mark is written last.
BeginMark(th) ==
  /\ \E lost \in BOOLEAN : Begin(th, "mark", "marking", lost)
  /\ due' = IF chip' = chip THEN due ELSE Unknown

EndMark(th) ==
  /\ MayRun(th)
  /\ at[th] = "marking"
  /\ mark' = (mark \/ ~missed[th])
  /\ Goto(th, IF th = "rtc" THEN "recheck" ELSE "idle", 1)
  /\ Release(th)
  /\ arg' = IF th = "tshell" THEN Epoch ELSE arg
  /\ UNCHANGED <<chip, held, TimeValue, Time_Buffer, Time_Register, loaded, pointed,
                 left, due, goal, valid, copied>>

-----------------------------------------------------------------------------
(* set_time, and rtc's initialisation: the fields of TimeValue, year first,   *)
(* then DS1307_Time_Init, which converts them, hour first, and sends them     *)
(* from one buffer.                                                           *)

\* set_time is typed.
SetTime(t) ==
  /\ at["tshell"] = "idle"
  /\ left.sets > 0
  /\ left' = [left EXCEPT !.sets = @ - 1]
  /\ arg' = t
  /\ goal' = [goal EXCEPT !["tshell"] = t]
  /\ Goto("tshell", "assign", 4)
  /\ UNCHANGED <<chip, mark, held, TimeValue, Time_Buffer, Time_Register, loaded,
                 missed, pointed, due, valid, copied>>

Target(th) == IF th = "rtc" THEN Epoch ELSE arg

Assign(th) ==
  /\ MayRun(th)
  /\ at[th] = "assign"
  /\ LET p == part[th] IN
       /\ TimeValue' = [TimeValue EXCEPT ![p] = Calendar[Target(th)][p]]
       /\ IF p = 1 THEN Goto(th, "load", 1) ELSE Goto(th, "assign", p - 1)
  /\ valid' = [register |-> FALSE, shown |-> FALSE]
  /\ UNCHANGED <<chip, mark, held, Time_Buffer, Time_Register, loaded, arg, missed,
                 pointed, left, due, goal, copied>>

Load(th) ==
  /\ MayRun(th)
  /\ at[th] = "load"
  /\ Goto(th, "store", part[th])
  /\ loaded' = [loaded EXCEPT ![th] = TimeValue[part[th]]]
  /\ UNCHANGED <<chip, mark, held, TimeValue, Time_Buffer, Time_Register, arg, missed,
                 pointed, left, due, goal, valid, copied>>

\* What becomes of a setting when another has put t into TimeValue and the
\* buffer: in the middle of its assignments, or with the old value of a field
\* loaded, it leads to two parts of different times.
Disturbed(u, t) ==
  IF at[u] = "store" \/ (at[u] = "assign" /\ part[u] < 4) THEN Unknown
  ELSE IF at[u] \in {"load", "send"} THEN t ELSE goal[u]

\* The end of a field's conversion, which leaves buffer.
Stored(th, buffer) ==
  /\ MayRun(th)
  /\ at[th] = "store"
  /\ Time_Buffer' = buffer
  /\ IF part[th] = 4 THEN Goto(th, "send", 1) ELSE Goto(th, "load", part[th] + 1)
  /\ goal' = IF part[th] = 4 /\ th = "tshell"
               THEN [goal EXCEPT !["rtc"] = Disturbed("rtc", goal["tshell"])] ELSE goal
  /\ loaded' = [loaded EXCEPT ![th] = Noise]
  /\ UNCHANGED <<chip, mark, held, TimeValue, Time_Register, arg, missed, pointed,
                 left, due, valid, copied>>

\* Fault: the hour is not converted afresh.
StoreButHour(th) ==
  Stored(th, IF part[th] = 1 THEN Time_Buffer
             ELSE [Time_Buffer EXCEPT ![part[th]] = Encode(part[th], loaded[th])])

Store(th) == Stored(th, [Time_Buffer EXCEPT ![part[th]] = Encode(part[th], loaded[th])])

\* CMD_SERVER_TIMESYNC: all of it in one step of wifi, acknowledged whatever
\* the bus did.  The mark follows a stop condition, so the chip hears it.
TimeSync(t) ==
  /\ left.syncs > 0
  /\ left' = [left EXCEPT !.syncs = @ - 1]
  /\ TimeValue' = Calendar[t]
  /\ Time_Buffer' = Registers(t)
  /\ missed' = [u \in Low |-> missed[u] \/ u \in Followed("wifi")]
  /\ \/ BusReady /\ chip' = Registers(t) /\ due' = t
     \/ /\ ~BusReady \/ MayBeLost("wifi")
        /\ chip' \in {chip} \cup IF BusReady /\ MayScramble("wifi") THEN {NoTime} ELSE {}
        /\ due' = Unknown
  /\ mark' = (mark \/ BusReady)
  /\ held' = IF BusReady THEN "no" ELSE held
  /\ goal' = [u \in Low |-> Disturbed(u, t)]
  /\ valid' = [register |-> FALSE, shown |-> FALSE]
  /\ UNCHANGED <<Time_Register, at, part, loaded, arg, pointed, copied>>

-----------------------------------------------------------------------------
(* rtc: DS1307_ReadWrite_Time(1) every second *)

\* IIC_GPIO_Init.
Start ==
  /\ MayRun("rtc")
  /\ at["rtc"] = "start"
  /\ Goto("rtc", "check", 1)
  /\ UNCHANGED <<chip, mark, held, TimeValue, Time_Buffer, Time_Register, loaded, arg,
                 missed, pointed, left, due, goal, valid, copied>>

\* Fault: a reading that went wrong is tried again without a new start.
EndReadOrRetry ==
  /\ MayRun("rtc")
  /\ at["rtc"] = "reading"
  /\ IF missed["rtc"] THEN UNCHANGED <<at, part, missed, pointed>>
                      ELSE Goto("rtc", "copy", 1) /\ Release("rtc") /\ pointed' = TRUE
  /\ UNCHANGED <<chip, mark, held, TimeValue, Time_Buffer, Time_Register, loaded, arg,
                 left, due, goal, valid, copied>>

\* A reading that was cut off has got the bytes before, in the order of their
\* addresses; Time_Register has no initial value.  No error is reported.
EndRead ==
  /\ MayRun("rtc")
  /\ at["rtc"] = "reading"
  /\ Goto("rtc", "copy", 1)
  /\ Release("rtc")
  /\ pointed' = TRUE
  /\ IF missed["rtc"]
       THEN /\ \E k \in 1..5 :
                 Time_Register' = [p \in Part |-> IF p < k THEN Time_Register[p] ELSE Noise]
            /\ valid' = [valid EXCEPT !.register = FALSE]
       ELSE UNCHANGED <<Time_Register, valid>>
  /\ UNCHANGED <<chip, mark, held, TimeValue, Time_Buffer, loaded, arg, left, due,
                 goal, copied>>

\* One of rtc's assignments to a field of TimeValue; after the last, it sleeps
\* for a second.
CopyPart(p) ==
  /\ MayRun("rtc")
  /\ at["rtc"] = "copy"
  /\ TimeValue' = [TimeValue EXCEPT ![p] = Decode(p, Time_Register[p])]
  /\ IF part["rtc"] = 4
       THEN /\ Goto("rtc", "read", 1)
            /\ Time_Register' = NoTime
            /\ valid' = [register |-> FALSE, shown |-> valid.register]
            /\ copied' = IF \E t \in Times : Time_Register = Registers(t)
                           THEN CHOOSE t \in Times : Time_Register = Registers(t)
                           ELSE copied
       ELSE /\ Goto("rtc", "copy", part["rtc"] + 1)
            /\ valid' = [valid EXCEPT !.shown = @ /\ valid.register]
            /\ UNCHANGED <<Time_Register, copied>>
  /\ UNCHANGED <<chip, mark, held, Time_Buffer, loaded, arg, missed, pointed, left, due,
                 goal>>

\* Fault: the year is copied first.
CopyYearFirst == CopyPart(5 - part["rtc"])

\* The hour is copied first.
Copy == CopyPart(part["rtc"])

-----------------------------------------------------------------------------
\* A reset of the microcontroller; the chip goes on, in the middle of a
\* transaction if it followed one.
Reset ==
  /\ left.resets > 0
  /\ left' = [left EXCEPT !.resets = @ - 1]
  /\ held' \in {"no"}
       \cup (IF \E u \in Low : at[u] \in Reading /\ ~missed[u] THEN {"reading"} ELSE {})
       \cup (IF \E u \in Low : at[u] \in Writing /\ ~missed[u] THEN {"writing"} ELSE {})
  /\ TimeValue' = [p \in Part |-> 0]
  /\ Time_Buffer' = [p \in Part |-> 0]
  /\ Time_Register' = NoTime
  /\ at' = [tshell |-> "idle", rtc |-> "start"]
  /\ part' = [th \in Low |-> 1]
  /\ loaded' = [th \in Low |-> Noise]
  /\ arg' = Epoch
  /\ missed' = [th \in Low |-> FALSE]
  /\ pointed' = TRUE
  /\ goal' = [th \in Low |-> Unknown]
  /\ valid' = [register |-> FALSE, shown |-> FALSE]
  /\ UNCHANGED <<chip, mark, due, copied>>

-----------------------------------------------------------------------------
Setting(th) ==
  \/ Assign(th) \/ Load(th) \/ Store(th)
  \/ BeginSend(th) \/ SendPart(th)
  \/ BeginMark(th) \/ EndMark(th)

Rtc ==
  \/ Start
  \/ BeginRead("check", "pointCheck") \/ Restart("pointCheck", "checking")
  \/ BeginRead("recheck", "pointRecheck") \/ Restart("pointRecheck", "rechecking")
  \/ EndCheck
  \/ Setting("rtc")
  \/ BeginRead("read", "pointRead") \/ Restart("pointRead", "reading")
  \/ EndRead \/ Copy

Next ==
  \/ Tick
  \/ Rtc
  \/ Setting("tshell")
  \/ \E t \in SetTimes : SetTime(t) \/ TimeSync(t)
  \/ Reset

Spec == Init /\ [][Next]_vars

\* rtc's second ends, and whatever preempts it or tshell ends.
FairSpec == Spec /\ WF_vars(Rtc) /\ WF_vars(Setting("tshell"))

-----------------------------------------------------------------------------
Byte == 0..255 \cup {Noise}
Field == 0..165 \cup {Noise}

TypeOK ==
  /\ chip \in [Part -> Byte]
  /\ mark \in BOOLEAN
  /\ held \in {"no", "reading", "writing"}
  /\ TimeValue \in [Part -> Field]
  /\ Time_Buffer \in [Part -> Byte]
  /\ Time_Register \in [Part -> Byte]
  /\ at \in [Low -> {"idle", "start", "check", "recheck", "assign", "load", "store",
                     "send", "mark", "read", "copy"} \cup Reading \cup Writing]
  /\ part \in [Low -> Part]
  /\ loaded \in [Low -> Field]
  /\ arg \in Times
  /\ missed \in [Low -> BOOLEAN]
  /\ pointed \in BOOLEAN
  /\ left \in [syncs : 0..MaxSyncs, sets : 0..MaxSets, resets : 0..MaxResets]
  /\ due \in Times \cup {Unknown}
  /\ goal \in [Low -> Times \cup {Unknown}]
  /\ valid \in [register : BOOLEAN, shown : BOOLEAN]
  /\ copied \in Times

\* The chip shows the time of the last setting, of whichever thread and
\* counted on since, although settings preempt each other and share TimeValue
\* and the buffer, readings go on and the microcontroller is reset: except
\* from a start condition that was lost in another transaction, or before the
\* pins were set up, or from a setting that came between two of another's
\* assignments to TimeValue, or between its load of a field and its store to
\* the buffer, to the next setting.
ChipKeepsTime == due # Unknown => chip = Registers(due)

\* While no time is set, what admission and attendance read from TimeValue,
\* between any two of rtc's assignments, is not ahead of the chip.  It may be
\* behind the last reading copied as a whole, but only below the highest part
\* that has changed since: that part and those above it are not.
ShownLags ==
  valid.shown /\ due # Unknown =>
    /\ NotAfter(TimeValue, Calendar[due])
    /\ \A p \in Part : Agree(Calendar[copied], Calendar[due], p) =>
         Agree(TimeValue, Calendar[copied], p) /\ TimeValue[p] >= Calendar[copied][p]

\* Whatever reading was cut off or outdated by a setting, rtc's later readings
\* put the chip's time into TimeValue, as far as the chip has one.
TimeRecovers == <>[](TimeValue = Decoded(chip))

\* ds1307.c has it that the time is initialised at the first power-on, when
\* the mark is missing.
InitialisedOnce ==
  [][at["rtc"] = "checking" /\ at'["rtc"] = "assign" => ~mark]_vars
=============================================================================
