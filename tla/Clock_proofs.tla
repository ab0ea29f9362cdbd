---------------------------- MODULE Clock_proofs ----------------------------
(* Theorems about Clock. *)
EXTENDS Clock, TLAPS

-----------------------------------------------------------------------------
(* Conversions *)

\* The masks of ds1307.c.
LEMMA TensAre ==
  /\ Tens[1] = 4 /\ Tens[2] = 4 /\ Tens[3] = 2 /\ Tens[4] = 16
  /\ \A p \in Part : Tens[p] \in {2, 4, 16}
BY DEF Tens, Part

\* A masked field of any size is a byte in BCD.
LEMMA EncodeByte == \A p \in Part, v \in Field : Encode(p, v) \in Byte
<1> SUFFICES ASSUME NEW p \in Part, NEW v \in Nat PROVE v # Noise => Encode(p, v) \in 0..255
  BY MarkerAssumption DEF Field, Byte, Encode
<1>1. Tens[p] \in {2, 4, 16} /\ v \div 10 \in Nat /\ v % 10 \in 0..9
  BY TensAre
<1>2. (v \div 10) % Tens[p] \in 0..15
  BY <1>1
<1> QED
  BY <1>1, <1>2 DEF Encode

\* DS1307_ReadWrite_Time undoes DS1307_Time_Init for every value the masks leave room for.
LEMMA RoundTrip == \A p \in Part : \A v \in 0..(10 * Tens[p] - 1) : Decode(p, Encode(p, v)) = v
<1> SUFFICES ASSUME NEW p \in Part, NEW v \in 0..(10 * Tens[p] - 1)
             PROVE  Decode(p, Encode(p, v)) = v
  OBVIOUS
<1>0. Tens[p] \in {2, 4, 16}
  BY TensAre
<1>1. v = (v % 10) + 10 * (v \div 10) /\ v % 10 \in 0..9 /\ v \div 10 \in 0..(Tens[p] - 1)
  BY <1>0
<1> DEFINE u == v % 10   d == v \div 10
<1>2. d % Tens[p] = d
  BY <1>0, <1>1
<1>3. Encode(p, v) = u + 16 * d
  BY <1>0, <1>2, MarkerAssumption DEF Encode
<1> HIDE DEF u, d
<1>4. u \in 0..9 /\ d \in 0..15 /\ v = u + 10 * d
  BY <1>0, <1>1 DEF u, d
<1>5. (u + 16 * d) % 16 = u /\ (u + 16 * d) \div 16 = d
  BY <1>4
<1>6. Encode(p, v) # Noise
  BY <1>3, <1>4, MarkerAssumption
<1> QED
  BY <1>2, <1>3, <1>4, <1>5, <1>6 DEF Decode

\* Every byte is decoded to a value of a field.
LEMMA DecodeField == \A p \in Part, b \in Byte : Decode(p, b) \in Field
<1> SUFFICES ASSUME NEW p \in Part, NEW b \in 0..255 PROVE b # Noise => Decode(p, b) \in 0..165
  BY MarkerAssumption DEF Decode, Field, Byte
<1>1. Tens[p] \in {2, 4, 16} /\ b \div 16 \in 0..15 /\ b % 16 \in 0..15
  BY TensAre
<1>2. (b \div 16) % Tens[p] \in 0..15
  BY <1>1
<1> QED
  BY <1>1, <1>2 DEF Decode

\* Every part of a visited time has room in its register.
LEMMA PartsFit ==
  ASSUME NEW t \in Times
  PROVE  /\ Calendar[t] \in [Part -> Field]
         /\ \A p \in Part : /\ Calendar[t][p] \in 0..(10 * Tens[p] - 1)
                            /\ Calendar[t][p] \in Nat /\ Calendar[t][p] # Noise
<1>1. /\ Calendar[t] \in [Part -> Nat]
      /\ Calendar[t][1] \in 0..23 /\ Calendar[t][2] \in 1..31
      /\ Calendar[t][3] \in 1..12 /\ Calendar[t][4] \in 0..99
  BY CalendarAssumption
<1>2. \A p \in Part : Calendar[t][p] \in 0..(10 * Tens[p] - 1)
  BY <1>1, TensAre DEF Part
<1>3. \A p \in Part : Calendar[t][p] \in 0..99
  BY <1>1 DEF Part
<1> QED
  BY <1>1, <1>2, <1>3, MarkerAssumption DEF Field

\* Its registers are bytes and determine it.
LEMMA RegistersType ==
  ASSUME NEW t \in Times
  PROVE  /\ Registers(t) \in [Part -> Byte]
         /\ \A p \in Part : Registers(t)[p] = Encode(p, Calendar[t][p])
         /\ \A p \in Part : Decode(p, Registers(t)[p]) = Calendar[t][p]
<1>1. \A p \in Part : Calendar[t][p] \in Field /\ Calendar[t][p] \in 0..(10 * Tens[p] - 1)
  BY PartsFit
<1>2. \A p \in Part : Encode(p, Calendar[t][p]) \in Byte
  BY <1>1, EncodeByte
<1>3. \A p \in Part : Registers(t)[p] = Encode(p, Calendar[t][p])
  BY DEF Registers
<1> QED
  BY <1>1, <1>2, <1>3, RoundTrip DEF Registers

\* The chip's registers tell the visited times apart.
LEMMA RegistersInjective ==
  ASSUME NEW t \in Times, NEW u \in Times, Registers(t) = Registers(u)
  PROVE  t = u
<1>1. \A p \in Part : Calendar[t][p] = Calendar[u][p]
  BY RegistersType
<1>2. \A p \in Part : Calendar[t][p] \in Nat /\ Calendar[u][p] \in Nat
  BY PartsFit
<1>3. ~Before(Calendar[t], Calendar[u]) /\ ~Before(Calendar[u], Calendar[t])
  BY <1>1, <1>2 DEF Before
<1>4. t \in Nat /\ u \in Nat
  BY TimesAssumption
<1> QED
  BY <1>3, <1>4, CalendarAssumption

\* The time after a visited one is none of the markers.
LEMMA TimesAreNumbers == Times \subseteq Nat /\ Unknown \notin Times /\ Epoch \in Times
BY TimesAssumption, MarkerAssumption

-----------------------------------------------------------------------------
(* The inductive invariant *)

Known(th) == goal[th] # Unknown

\* tshell is between its first assignment and its last store.
ShellSets == at["tshell"] \in {"assign", "load", "store"}

\* The goal of a thread that assigns TimeValue is what it assigns.
Aimed(th) == at[th] = "assign" /\ Known(th) => goal[th] = Target(th)

\* What a thread in a setting has written so far belongs to its goal.
SettingOwned(th) ==
  Known(th) =>
    /\ at[th] = "assign" =>
         \A p \in Part : p > part[th] => TimeValue[p] = Calendar[goal[th]][p]
    /\ at[th] \in {"load", "store"} =>
         /\ \A p \in Part : TimeValue[p] = Calendar[goal[th]][p]
         /\ \A p \in Part : p < part[th] => Time_Buffer[p] = Registers(goal[th])[p]
    /\ at[th] = "store" => loaded[th] = Calendar[goal[th]][part[th]]
    /\ at[th] = "send" => \A p \in Part : Time_Buffer[p] = Registers(goal[th])[p]

\* So does the buffer that is sent, unless tshell is about to cut rtc off.
BufferOwned(th) ==
  Known(th) /\ at[th] = "sending" /\ ~missed[th]
    /\ (th = "rtc" => at["tshell"] \in {"idle", "assign"})
  => \A p \in Part : Time_Buffer[p] = Registers(goal[th])[p]

\* Between the first byte of a setting and the last, the chip shows no time.
HalfSent(th) ==
  at[th] = "sending" /\ part[th] > 1 /\ ~missed[th] =>
    /\ due = Unknown
    /\ Known(th) => \A p \in Part : p < part[th] => chip[p] = Registers(goal[th])[p]

\* tshell's transactions have cut off rtc's.
CutOff ==
  at["tshell"] \in Writing \cup {"mark"} /\ OnBus("rtc") => missed["rtc"]

\* Thread th has begun to assign a setting that it has not sent.
Hiding(th) ==
  \/ at[th] \in {"load", "store", "send", "sending"}
  \/ at[th] = "assign" /\ part[th] < 4

\* A time that is being set is not shown before the next reading.
SettingHides == \A th \in Low : Hiding(th) => ~valid.register /\ ~valid.shown

\* A reading that was not outdated has got a time of the chip, and the last
\* one that was copied is none after it.
ReadingOfChip ==
  valid.register /\ due # Unknown
    /\ at["rtc"] \in {"reading", "copy"}
    /\ (at["rtc"] = "reading" => ~missed["rtc"])
  => \E r \in Times : /\ Time_Register = Registers(r)
                      /\ r <= due
                      /\ valid.shown => copied <= r

\* TimeValue holds what was copied of the reading, and above it the last one.
ShownCopied ==
  /\ valid.shown /\ due # Unknown =>
       /\ copied <= due
       /\ \A p \in Part : (at["rtc"] = "copy" => p >= part["rtc"]) =>
            TimeValue[p] = Calendar[copied][p]
  /\ at["rtc"] = "copy" =>
       /\ part["rtc"] > 1 /\ valid.shown => valid.register
       /\ valid.register => \A p \in Part : p < part["rtc"] =>
            TimeValue[p] = Decode(p, Time_Register[p])

Kept ==
  /\ ChipKeepsTime
  /\ SettingOwned("tshell") /\ (ShellSets \/ SettingOwned("rtc"))
  /\ \A th \in Low : Aimed(th) /\ BufferOwned(th) /\ HalfSent(th)
  /\ CutOff

Shown == SettingHides /\ ReadingOfChip /\ ShownCopied

Inv == TypeOK /\ Kept /\ Shown

-----------------------------------------------------------------------------
(* Types *)

Places == {"idle", "start", "check", "recheck", "assign", "load", "store",
           "send", "mark", "read", "copy"} \cup Reading \cup Writing

\* Thread th has gone to a place and a part, the other one has stayed.
Went(th, place, p) ==
  /\ at' \in [Low -> Places] /\ part' \in [Low -> Part]
  /\ at'[th] = place /\ part'[th] = p
  /\ \A u \in Low \ {th} : at'[u] = at[u] /\ part'[u] = part[u]

\* A step of a thread from one place to another leaves the other one alone.
LEMMA GotoGoes ==
  ASSUME TypeOK, NEW th \in Low, NEW place \in Places, NEW p \in Part, Goto(th, place, p)
  PROVE  Went(th, place, p)
BY DEF Goto, Went, TypeOK, Places

\* Where a thread goes is one of the places.
LEMMA PlacesIn ==
  /\ \A q \in {"idle", "start", "check", "recheck", "assign", "load", "store", "send",
               "mark", "read", "copy", "checking", "rechecking", "reading", "sending",
               "marking", "pointCheck", "pointRecheck", "pointRead"} : q \in Places
  /\ "rtc" \in Low /\ "tshell" \in Low
  /\ 1 \in Part /\ 4 \in Part
BY DEF Places, Reading, Writing, Pointing, Low, Part

\* The next place of each step of a setting.
LEMMA AssignGoes ==
  ASSUME TypeOK, NEW th \in Low, Assign(th)
  PROVE  /\ MayRun(th) /\ at[th] = "assign" /\ part[th] \in Part
         /\ IF part[th] = 1 THEN Went(th, "load", 1) ELSE Went(th, "assign", part[th] - 1)
<1>1. part[th] \in Part /\ (part[th] # 1 => part[th] - 1 \in Part)
  BY DEF TypeOK, Part
<1> QED
  BY <1>1, PlacesIn, GotoGoes DEF Assign

\* It loads a field.
LEMMA LoadGoes ==
  ASSUME TypeOK, NEW th \in Low, Load(th)
  PROVE  /\ MayRun(th) /\ at[th] = "load" /\ part[th] \in Part
         /\ Went(th, "store", part[th])
<1>1. part[th] \in Part
  BY DEF TypeOK, Part
<1> QED
  BY <1>1, PlacesIn, GotoGoes DEF Load

\* It stores it.
LEMMA StoreGoes ==
  ASSUME TypeOK, NEW th \in Low, Store(th)
  PROVE  /\ MayRun(th) /\ at[th] = "store" /\ part[th] \in Part
         /\ IF part[th] = 4 THEN Went(th, "send", 1) ELSE Went(th, "load", part[th] + 1)
<1>1. part[th] \in Part /\ (part[th] # 4 => part[th] + 1 \in Part)
  BY DEF TypeOK, Part
<1> QED
  BY <1>1, PlacesIn, GotoGoes DEF Store, Stored

\* It writes a byte.
LEMMA SendGoes ==
  ASSUME TypeOK, NEW th \in Low, SendPart(th)
  PROVE  /\ MayRun(th) /\ at[th] = "sending" /\ part[th] \in Part
         /\ IF part[th] = 4 THEN Went(th, "mark", 1) ELSE Went(th, "sending", part[th] + 1)
<1>1. part[th] \in Part /\ (part[th] # 4 => part[th] + 1 \in Part)
  BY DEF TypeOK, Part
<1> QED
  BY <1>1, PlacesIn, GotoGoes DEF SendPart

\* It ends with the mark.
LEMMA EndMarkGoes ==
  ASSUME TypeOK, NEW th \in Low, EndMark(th)
  PROVE  /\ MayRun(th) /\ at[th] = "marking"
         /\ Went(th, IF th = "rtc" THEN "recheck" ELSE "idle", 1)
BY PlacesIn, GotoGoes DEF EndMark

\* A transaction has begun.
Began(th, from, to, lost) ==
  /\ MayRun(th) /\ at[th] = from /\ Went(th, to, 1)
  /\ missed' \in [Low -> BOOLEAN] /\ missed'[th] = lost
  /\ \A u \in Low \ {th} : (missed[u] => missed'[u]) /\ (OnBus(u) => missed'[u])
  /\ UNCHANGED <<TimeValue, Time_Buffer, Time_Register, loaded, arg, pointed, left,
                 goal, valid, copied>>
  /\ chip' = chip \/ (lost /\ chip' = NoTime)
  /\ mark' \in BOOLEAN /\ held' \in {held, "no"}
  /\ at["rtc"] # "start" => held' = "no"

\* A transaction that begins cuts off the others and frees the chip from the one
\* that a reset left it in.
LEMMA BeginGoes ==
  ASSUME TypeOK, NEW th \in Low, NEW from, NEW to \in Places, NEW lost \in BOOLEAN,
         Begin(th, from, to, lost)
  PROVE  Began(th, from, to, lost)
<1>1. MayRun(th) /\ at[th] = from /\ Went(th, to, 1)
  BY PlacesIn, GotoGoes DEF Begin
<1>2. missed' = [u \in Low |-> IF u = th THEN lost ELSE missed[u] \/ u \in Followed(th)]
  BY DEF Begin
<1>3. \A u \in Low : (IF u = th THEN lost ELSE missed[u] \/ u \in Followed(th)) \in BOOLEAN
  BY Zenon DEF TypeOK
<1>4. missed' \in [Low -> BOOLEAN]
  BY <1>2, <1>3, Zenon
<1>5. missed'[th] = lost
  BY <1>2
<1>6. \A u \in Low \ {th} : missed'[u] = (missed[u] \/ u \in Followed(th))
  BY <1>2, Zenon
<1>7. \A u \in Low \ {th} : (missed[u] => missed'[u]) /\ (OnBus(u) => missed'[u])
  <2> TAKE u \in Low \ {th}
  <2>1. missed'[u] = (missed[u] \/ u \in Followed(th))
    BY <1>6
  <2>2. OnBus(u) /\ ~missed[u] => u \in Followed(th)
    BY Zenon DEF Followed
  <2> QED
    BY <2>1, <2>2, Zenon
<1>8. chip' = chip \/ (lost /\ chip' = NoTime)
  BY Zenon DEF Begin
<1>9. mark' \in BOOLEAN
  <2>1. mark' = mark \/ mark' \in {mark, FALSE}
    BY Zenon DEF Begin
  <2> QED
    BY <2>1 DEF TypeOK
<1>10. held' = IF BusReady THEN "no" ELSE held
  BY DEF Begin
<1>11. UNCHANGED <<TimeValue, Time_Buffer, Time_Register, loaded, arg, pointed, left,
                   goal, valid, copied>>
  BY DEF Begin
<1> QED
  BY <1>1, <1>4, <1>5, <1>7, <1>8, <1>9, <1>10, <1>11 DEF BusReady, Began

\* Which one it is, and what it does to the time the chip must show.
LEMMA BeginIs ==
  /\ \A th \in Low :
       BeginSend(th) => \E lost \in BOOLEAN : /\ Begin(th, "send", "sending", lost)
                                              /\ due' = IF lost THEN Unknown ELSE due
  /\ \A th \in Low :
       BeginMark(th) => \E lost \in BOOLEAN : /\ Begin(th, "mark", "marking", lost)
                                              /\ due' = IF chip' = chip THEN due ELSE Unknown
  /\ \A from, to :
       BeginRead(from, to) => \E lost \in BOOLEAN : /\ Begin("rtc", from, to, lost)
                                                    /\ due' = IF chip' = chip THEN due ELSE Unknown
BY Zenon DEF BeginSend, BeginMark, BeginRead

\* The end of a transaction.
LEMMA ReleaseType ==
  ASSUME missed \in [Low -> BOOLEAN], NEW th \in Low, Release(th)
  PROVE  /\ missed' \in [Low -> BOOLEAN]
         /\ \A u \in Low \ {th} : missed'[u] = missed[u]
BY DEF Release

\* The repeated start of a reading.
LEMMA RestartGoes ==
  ASSUME TypeOK, NEW from, NEW to \in Places, Restart(from, to)
  PROVE  /\ MayRun("rtc") /\ at["rtc"] = from /\ Went("rtc", to, 1)
         /\ missed' \in [Low -> BOOLEAN] /\ missed'["tshell"] = missed["tshell"]
         /\ missed'["rtc"] => missed["rtc"]
         /\ pointed' \in BOOLEAN
         /\ UNCHANGED <<chip, mark, held, TimeValue, Time_Buffer, loaded, arg, left, due,
                        goal, copied>>
         /\ to # "reading" => UNCHANGED <<Time_Register, valid>>
         /\ to = "reading" =>
              /\ Time_Register' \in {chip, NoTime}
              /\ ~missed["rtc"] => Time_Register' = chip
              /\ valid'.shown = valid.shown /\ valid' \in [register : BOOLEAN, shown : BOOLEAN]
              /\ valid'.register => ~missed["rtc"]
<1>a. /\ missed \in [Low -> BOOLEAN] /\ "rtc" \in Low /\ "tshell" \in Low
      /\ valid \in [register : BOOLEAN, shown : BOOLEAN]
  BY DEF TypeOK, Low
<1>b. missed["rtc"] \in BOOLEAN
  BY <1>a, Zenon
<1>1. MayRun("rtc") /\ at["rtc"] = from /\ Went("rtc", to, 1)
  BY PlacesIn, GotoGoes DEF Restart
<1>2. PICK still \in IF missed["rtc"] THEN BOOLEAN ELSE {FALSE} :
        /\ missed' = [missed EXCEPT !["rtc"] = still]
        /\ IF to = "reading"
             THEN /\ Time_Register' \in IF still THEN {NoTime}
                                        ELSE IF missed["rtc"] THEN {chip, NoTime} ELSE {chip}
                  /\ valid' = [valid EXCEPT !.register = ~missed["rtc"]]
             ELSE UNCHANGED <<Time_Register, valid>>
  BY Zenon DEF Restart
<1>3. still \in BOOLEAN /\ (still => missed["rtc"])
  BY <1>2
<1>4. missed' \in [Low -> BOOLEAN] /\ missed'["rtc"] = still /\ missed'["tshell"] = missed["tshell"]
  BY <1>a, <1>2, <1>3
<1>5. pointed' \in BOOLEAN
  <2>1. pointed' = ~missed["rtc"]
    BY DEF Restart
  <2> QED
    BY <2>1, Zenon
<1>6. to = "reading" =>
        /\ Time_Register' \in {chip, NoTime}
        /\ ~missed["rtc"] => Time_Register' = chip
  BY <1>2, <1>3
<1>7. to = "reading" =>
        /\ valid'.shown = valid.shown /\ valid' \in [register : BOOLEAN, shown : BOOLEAN]
        /\ valid'.register => ~missed["rtc"]
  <2> DEFINE b == ~missed["rtc"]
  <2>1. b \in BOOLEAN /\ (b => ~missed["rtc"])
    BY Zenon
  <2>2. to = "reading" => valid' = [valid EXCEPT !.register = b]
    BY <1>2
  <2> HIDE DEF b
  <2>3. to = "reading" => /\ valid'.shown = valid.shown /\ valid'.register = b
                          /\ valid' \in [register : BOOLEAN, shown : BOOLEAN]
    BY <1>a, <2>1, <2>2
  <2> QED
    BY <2>1, <2>3
<1>8. /\ UNCHANGED <<chip, mark, held, TimeValue, Time_Buffer, loaded, arg, left, due,
                     goal, copied>>
      /\ to # "reading" => UNCHANGED <<Time_Register, valid>>
  BY <1>2 DEF Restart
<1> QED
  BY <1>1, <1>3, <1>4, <1>5, <1>6, <1>7, <1>8

\* The check of the mark ends.
LEMMA EndCheckGoes ==
  ASSUME TypeOK, EndCheck
  PROVE  /\ MayRun("rtc")
         /\ \/ at["rtc"] = "checking" /\ Went("rtc", "recheck", 1) /\ goal' = goal
            \/ /\ at["rtc"] = "checking" /\ Went("rtc", "assign", 4)
               /\ goal' = [goal EXCEPT !["rtc"] = Epoch]
            \/ at["rtc"] = "rechecking" /\ Went("rtc", "read", 1) /\ goal' = goal
         /\ missed' \in [Low -> BOOLEAN] /\ missed'["tshell"] = missed["tshell"]
<1>1. missed' \in [Low -> BOOLEAN] /\ missed'["tshell"] = missed["tshell"]
  BY ReleaseType DEF EndCheck, TypeOK, Low
<1>2. \/ at["rtc"] = "checking" /\ Goto("rtc", "recheck", 1) /\ goal' = goal
      \/ /\ at["rtc"] = "checking" /\ Goto("rtc", "assign", 4)
         /\ goal' = [goal EXCEPT !["rtc"] = Epoch]
      \/ at["rtc"] = "rechecking" /\ Goto("rtc", "read", 1) /\ goal' = goal
  BY Zenon DEF EndCheck
<1> QED
  BY <1>1, <1>2, PlacesIn, GotoGoes DEF EndCheck

\* A reading ends.
LEMMA EndReadGoes ==
  ASSUME TypeOK, EndRead
  PROVE  /\ MayRun("rtc") /\ at["rtc"] = "reading" /\ Went("rtc", "copy", 1)
         /\ missed' \in [Low -> BOOLEAN] /\ missed'["tshell"] = missed["tshell"]
         /\ Time_Register' \in [Part -> Byte]
         /\ ~missed["rtc"] => UNCHANGED <<Time_Register, valid>>
         /\ missed["rtc"] => /\ valid'.register = FALSE /\ valid'.shown = valid.shown
                             /\ valid' \in [register : BOOLEAN, shown : BOOLEAN]
<1>1. missed' \in [Low -> BOOLEAN] /\ missed'["tshell"] = missed["tshell"]
  BY ReleaseType DEF EndRead, TypeOK, Low
<1>2. Time_Register' \in [Part -> Byte]
  BY DEF EndRead, TypeOK, Byte
<1>3. /\ ~missed["rtc"] => UNCHANGED <<Time_Register, valid>>
      /\ missed["rtc"] => /\ valid'.register = FALSE /\ valid'.shown = valid.shown
                          /\ valid' \in [register : BOOLEAN, shown : BOOLEAN]
  BY DEF EndRead, TypeOK
<1> QED
  BY <1>1, <1>2, <1>3, PlacesIn, GotoGoes DEF EndRead

\* A part is copied.
LEMMA CopyGoes ==
  ASSUME TypeOK, Copy
  PROVE  /\ MayRun("rtc") /\ at["rtc"] = "copy" /\ part["rtc"] \in Part
         /\ TimeValue' = [TimeValue EXCEPT ![part["rtc"]] = Decode(part["rtc"], Time_Register[part["rtc"]])]
         /\ part["rtc"] = 4 =>
              /\ Went("rtc", "read", 1) /\ Time_Register' = NoTime
              /\ valid' = [register |-> FALSE, shown |-> valid.register]
              /\ copied' \in Times
              /\ \A r \in Times : Time_Register = Registers(r) => copied' = r
         /\ part["rtc"] # 4 =>
              /\ Went("rtc", "copy", part["rtc"] + 1)
              /\ UNCHANGED <<Time_Register, copied>>
              /\ valid' \in [register : BOOLEAN, shown : BOOLEAN]
              /\ valid'.register = valid.register
              /\ valid'.shown => valid.shown /\ valid.register
<1>a. /\ part["rtc"] \in Part /\ (part["rtc"] # 4 => part["rtc"] + 1 \in Part)
      /\ valid \in [register : BOOLEAN, shown : BOOLEAN] /\ copied \in Times
  BY DEF TypeOK, Part, Low
<1>1. CASE part["rtc"] = 4
  <2>1. Went("rtc", "read", 1)
    BY <1>1, PlacesIn, GotoGoes DEF Copy, CopyPart
  <2>2. copied' \in Times /\ \A r \in Times : Time_Register = Registers(r) => copied' = r
    <3>1. copied' = IF \E t \in Times : Time_Register = Registers(t)
                      THEN CHOOSE t \in Times : Time_Register = Registers(t) ELSE copied
      BY <1>1 DEF Copy, CopyPart
    <3>2. \A r \in Times : Time_Register = Registers(r) => copied' = r
      BY <3>1, RegistersInjective
    <3> QED
      BY <1>a, <3>1, <3>2
  <2> QED
    BY <1>1, <1>a, <2>1, <2>2 DEF Copy, CopyPart
<1>2. CASE part["rtc"] # 4
  <2>1. Went("rtc", "copy", part["rtc"] + 1)
    BY <1>2, <1>a, PlacesIn, GotoGoes DEF Copy, CopyPart
  <2>2. /\ valid' \in [register : BOOLEAN, shown : BOOLEAN]
        /\ valid'.register = valid.register
        /\ valid'.shown => valid.shown /\ valid.register
    <3> DEFINE b == valid.shown /\ valid.register
    <3>1. valid' = [valid EXCEPT !.shown = b]
      BY <1>2 DEF Copy, CopyPart
    <3>2. b \in BOOLEAN /\ (b => valid.shown /\ valid.register)
      BY Zenon
    <3> HIDE DEF b
    <3> QED
      BY <3>1, <3>2, <1>a
  <2> QED
    BY <1>2, <1>a, <2>1, <2>2 DEF Copy, CopyPart
<1> QED
  BY <1>1, <1>2

\* The initial state.
LEMMA InitInv == Init => Inv
<1> SUFFICES ASSUME Init PROVE Inv
  OBVIOUS
<1>0. Epoch \in Times /\ NoTime \in [Part -> Byte]
  BY TimesAssumption DEF NoTime, Byte
<1>1. chip \in [Part -> Byte] /\ due \in Times \cup {Unknown} /\ mark \in BOOLEAN
  BY <1>0, RegistersType DEF Init
<1>2. TypeOK
  <2>1. at \in [Low -> Places] /\ part \in [Low -> Part] /\ missed \in [Low -> BOOLEAN]
        /\ goal \in [Low -> Times \cup {Unknown}] /\ loaded \in [Low -> Field]
    BY PlacesIn DEF Init, Low, Field
  <2>2. left \in [syncs : 0..MaxSyncs, sets : 0..MaxSets, resets : 0..MaxResets]
    BY BoundAssumption DEF Init
  <2>3. Time_Register \in [Part -> Byte] /\ arg \in Times /\ copied \in Times
    BY <1>0 DEF Init
  <2>4. TimeValue \in [Part -> Field] /\ Time_Buffer \in [Part -> Byte] /\ pointed \in BOOLEAN
    BY DEF Init, Field, Byte
  <2>5. held \in {"no", "reading", "writing"} /\ valid \in [register : BOOLEAN, shown : BOOLEAN]
    BY DEF Init
  <2> QED
    BY <1>1, <2>1, <2>2, <2>3, <2>4, <2>5 DEF TypeOK, Places
<1>3. ChipKeepsTime
  BY DEF Init, ChipKeepsTime
<1>4. /\ at["tshell"] = "idle" /\ at["rtc"] = "start" /\ \A th \in Low : at[th] \in {"idle", "start"}
      /\ ~valid.shown /\ ~valid.register /\ "tshell" \in Low /\ "rtc" \in Low
  BY DEF Init, Low
<1>5. \A th \in Low : Aimed(th) /\ SettingOwned(th) /\ BufferOwned(th) /\ HalfSent(th)
  BY <1>4 DEF Aimed, SettingOwned, BufferOwned, HalfSent
<1>6. CutOff /\ SettingHides /\ ReadingOfChip /\ ShownCopied
  BY <1>4 DEF CutOff, SettingHides, Hiding, ReadingOfChip, ShownCopied, Writing, Pointing
<1> QED
  BY <1>2, <1>3, <1>4, <1>5, <1>6 DEF Inv, Kept, Shown

\* The clock of the chip stays within the visited times: a known time is its.
LEMMA TickDue ==
  ASSUME TypeOK, ChipKeepsTime, Tick
  PROVE  /\ due' \in Times \cup {Unknown}
         /\ due = Unknown => due' = Unknown
         /\ due # Unknown => due' = due + 1 /\ due' # Unknown /\ chip' = Registers(due')
         /\ chip' \in [Part -> Byte]
<1>1. PICK t \in Times : t + 1 \in Times /\ chip = Registers(t) /\ chip' = Registers(t + 1)
  BY DEF Tick
<1>2. due # Unknown => due = t
  BY <1>1, RegistersInjective DEF TypeOK, ChipKeepsTime
<1>3. due' = IF due = Unknown THEN Unknown ELSE due + 1
  BY DEF Tick
<1>4. due # Unknown => due + 1 # Unknown
  BY <1>1, <1>2, TimesAreNumbers
<1> QED
  BY <1>1, <1>2, <1>3, <1>4, RegistersType

\* The types are preserved by the steps of a setting.
LEMMA SettingType ==
  ASSUME TypeOK, NEW th \in Low, Setting(th)
  PROVE  TypeOK'
<1>a. /\ part[th] \in Part /\ Target(th) \in Times /\ loaded[th] \in Field
      /\ TimeValue[part[th]] \in Field
  BY TimesAreNumbers DEF TypeOK, Target
<1> DEFINE Rest == /\ held \in {"no", "reading", "writing"}
                   /\ TimeValue \in [Part -> Field]
                   /\ Time_Buffer \in [Part -> Byte]
                   /\ Time_Register \in [Part -> Byte]
                   /\ loaded \in [Low -> Field]
                   /\ arg \in Times
                   /\ pointed \in BOOLEAN
                   /\ left \in [syncs : 0..MaxSyncs, sets : 0..MaxSets, resets : 0..MaxResets]
                   /\ goal \in [Low -> Times \cup {Unknown}]
                   /\ valid \in [register : BOOLEAN, shown : BOOLEAN]
                   /\ copied \in Times
           Bus  == /\ chip \in [Part -> Byte] /\ mark \in BOOLEAN
                   /\ due \in Times \cup {Unknown} /\ missed \in [Low -> BOOLEAN]
           Gone == at' \in [Low -> Places] /\ part' \in [Low -> Part]
<1>c. Rest /\ Bus
  BY DEF TypeOK
<1>d. Rest' /\ Bus' /\ Gone => TypeOK'
  BY DEF TypeOK, Places
<1> HIDE DEF Rest, Bus, Gone
<1>1. CASE Assign(th)
  <2>1. Gone
    BY <1>1, AssignGoes DEF Gone, Went
  <2>2. TimeValue' \in [Part -> Field]
    <3>1. Calendar[Target(th)][part[th]] \in Field
      BY <1>a, PartsFit
    <3> QED
      BY <1>1, <3>1 DEF Assign, TypeOK
  <2>3. valid' \in [register : BOOLEAN, shown : BOOLEAN]
    BY <1>1 DEF Assign
  <2>4. Rest'
    BY <1>1, <1>c, <2>2, <2>3 DEF Assign, Rest
  <2>5. Bus'
    BY <1>1, <1>c DEF Assign, Bus
  <2> QED
    BY <2>1, <2>4, <2>5, <1>d
<1>2. CASE Load(th)
  <2>1. Gone
    BY <1>2, LoadGoes DEF Gone, Went
  <2>2. loaded' \in [Low -> Field]
    BY <1>2, <1>a DEF Load, TypeOK
  <2>4. Rest'
    BY <1>2, <1>c, <2>2 DEF Load, Rest
  <2>5. Bus'
    BY <1>2, <1>c DEF Load, Bus
  <2> QED
    BY <2>1, <2>4, <2>5, <1>d
<1>3. CASE Store(th)
  <2>1. Gone
    BY <1>3, StoreGoes DEF Gone, Went
  <2>2. Time_Buffer' \in [Part -> Byte] /\ loaded' \in [Low -> Field]
    <3>1. Encode(part[th], loaded[th]) \in Byte
      BY <1>a, EncodeByte
    <3> QED
      BY <1>3, <3>1 DEF Store, Stored, TypeOK, Field
  <2>3. goal' \in [Low -> Times \cup {Unknown}]
    <3>1. goal["tshell"] \in Times \cup {Unknown} /\ goal["rtc"] \in Times \cup {Unknown}
      BY DEF TypeOK, Low
    <3>2. Disturbed("rtc", goal["tshell"]) \in Times \cup {Unknown}
      BY <3>1 DEF Disturbed
    <3>3. goal' = goal \/ goal' = [goal EXCEPT !["rtc"] = Disturbed("rtc", goal["tshell"])]
      BY <1>3 DEF Store, Stored
    <3> QED
      BY <3>2, <3>3 DEF TypeOK
  <2>4. Rest'
    BY <1>3, <1>c, <2>2, <2>3 DEF Store, Stored, Rest
  <2>5. Bus'
    BY <1>3, <1>c DEF Store, Stored, Bus
  <2> QED
    BY <2>1, <2>4, <2>5, <1>d
<1>4. CASE BeginSend(th) \/ BeginMark(th)
  <2>0. PICK lost \in BOOLEAN, from, to \in Places :
          Begin(th, from, to, lost) /\ due' \in {due, Unknown}
    BY <1>4, BeginIs, PlacesIn
  <2>b. Began(th, from, to, lost)
    BY <2>0, BeginGoes
  <2>1. /\ Went(th, to, 1)
        /\ UNCHANGED <<TimeValue, Time_Buffer, Time_Register, loaded, arg, pointed, left,
                       goal, valid, copied>>
        /\ chip' \in {chip, NoTime} /\ held' \in {held, "no"}
    BY <2>b DEF Began
  <2>3. missed' \in [Low -> BOOLEAN] /\ mark' \in BOOLEAN
    BY <2>b, Zenon DEF Began
  <2>2. Gone
    BY <2>1 DEF Gone, Went
  <2>4. Rest'
    BY <1>c, <2>1 DEF Rest
  <2>5. Bus'
    BY <1>c, <2>0, <2>1, <2>3 DEF Bus, NoTime, Byte
  <2> QED
    BY <2>2, <2>4, <2>5, <1>d
<1>5. CASE SendPart(th)
  <2>1. Gone
    BY <1>5, SendGoes DEF Gone, Went
  <2>2. goal' \in [Low -> Times \cup {Unknown}]
    BY <1>5 DEF SendPart, TypeOK
  <2>3. missed' \in [Low -> BOOLEAN]
    BY <1>5, ReleaseType DEF SendPart, TypeOK
  <2>4. Rest'
    BY <1>5, <1>c, <2>2 DEF SendPart, Rest
  <2>5. chip' \in [Part -> Byte] /\ due' \in Times \cup {Unknown} /\ mark' = mark
    <3>1. Time_Buffer[part[th]] \in Byte /\ goal[th] \in Times \cup {Unknown}
      BY <1>a DEF TypeOK
    <3>2. \/ chip' = chip /\ due' = due
          \/ /\ chip' = [chip EXCEPT ![part[th]] = Time_Buffer[part[th]]]
             /\ due' \in {goal[th], Unknown}
      BY <1>5 DEF SendPart
    <3>3. mark' = mark
      BY <1>5 DEF SendPart
    <3> QED
      BY <3>1, <3>2, <3>3 DEF TypeOK
  <2>6. Bus'
    BY <1>c, <2>3, <2>5 DEF Bus
  <2> QED
    BY <2>1, <2>4, <2>6, <1>d
<1>6. CASE EndMark(th)
  <2>1. Gone
    BY <1>6, EndMarkGoes DEF Gone, Went
  <2>2. arg' \in Times
    BY <1>6, TimesAreNumbers DEF EndMark, TypeOK
  <2>3. missed' \in [Low -> BOOLEAN]
    BY <1>6, ReleaseType DEF EndMark, TypeOK
  <2>4. Rest'
    BY <1>6, <1>c, <2>2 DEF EndMark, Rest
  <2>5. mark' \in BOOLEAN
    BY <1>6, Zenon DEF EndMark
  <2>6. chip' = chip /\ due' = due
    BY <1>6 DEF EndMark
  <2>7. Bus'
    BY <1>c, <2>3, <2>5, <2>6 DEF Bus
  <2> QED
    BY <2>1, <2>4, <2>7, <1>d
<1> QED
  BY <1>1, <1>2, <1>3, <1>4, <1>5, <1>6 DEF Setting

\* Types under the steps of rtc.
LEMMA RtcType ==
  ASSUME TypeOK, Rtc
  PROVE  TypeOK'
<1>a. Epoch \in Times /\ "rtc" \in Low /\ missed["rtc"] \in BOOLEAN
  BY TimesAreNumbers, Zenon DEF TypeOK, Low
<1>b. NoTime \in [Part -> Byte]
  BY DEF NoTime, Byte
<1>1. CASE Start
  <2>1. Went("rtc", "check", 1)
    BY <1>1, <1>a, PlacesIn, GotoGoes DEF Start
  <2> QED
    BY <1>1, <2>1 DEF Start, TypeOK, Places, Went
<1>2. CASE \E from, to \in Places : BeginRead(from, to)
  <2>0. PICK lost \in BOOLEAN, from, to \in Places :
          Begin("rtc", from, to, lost) /\ due' \in {due, Unknown}
    BY <1>2, BeginIs
  <2>b. Began("rtc", from, to, lost)
    BY <1>a, <2>0, BeginGoes
  <2>1. /\ Went("rtc", to, 1)
        /\ UNCHANGED <<TimeValue, Time_Buffer, Time_Register, loaded, arg, pointed, left,
                       goal, valid, copied>>
        /\ chip' \in {chip, NoTime} /\ held' \in {held, "no"}
    BY <2>b DEF Began
  <2>3. missed' \in [Low -> BOOLEAN] /\ mark' \in BOOLEAN
    BY <2>b, Zenon DEF Began
  <2> QED
    BY <2>0, <2>1, <2>3, <1>b DEF TypeOK, Places, Went
<1>3. CASE \E from, to \in Places : Restart(from, to)
  <2>0. PICK from, to \in Places : Restart(from, to)
    BY <1>3
  <2>1. /\ Went("rtc", to, 1)
        /\ missed' \in [Low -> BOOLEAN] /\ pointed' \in BOOLEAN
        /\ UNCHANGED <<chip, mark, held, TimeValue, Time_Buffer, loaded, arg, left, due,
                       goal, copied>>
        /\ to # "reading" => UNCHANGED <<Time_Register, valid>>
        /\ to = "reading" => /\ Time_Register' \in {chip, NoTime}
                             /\ valid' \in [register : BOOLEAN, shown : BOOLEAN]
    BY <2>0, RestartGoes
  <2>2. Time_Register' \in [Part -> Byte] /\ valid' \in [register : BOOLEAN, shown : BOOLEAN]
    BY <2>1, <1>b DEF TypeOK
  <2> QED
    BY <2>1, <2>2 DEF TypeOK, Places, Went
<1>4. CASE EndCheck
  <2>1. /\ at' \in [Low -> Places] /\ part' \in [Low -> Part]
        /\ missed' \in [Low -> BOOLEAN] /\ goal' \in [Low -> Times \cup {Unknown}]
    BY <1>4, <1>a, EndCheckGoes DEF TypeOK, Went
  <2> QED
    BY <1>4, <2>1 DEF EndCheck, TypeOK, Places
<1>5. CASE Setting("rtc")
  BY <1>5, <1>a, SettingType
<1>6. CASE EndRead
  <2>1. /\ at' \in [Low -> Places] /\ part' \in [Low -> Part]
        /\ missed' \in [Low -> BOOLEAN] /\ Time_Register' \in [Part -> Byte]
        /\ valid' \in [register : BOOLEAN, shown : BOOLEAN]
    BY <1>6, EndReadGoes DEF TypeOK, Went
  <2> QED
    BY <1>6, <2>1 DEF EndRead, TypeOK, Places
<1>7. CASE Copy
  <2>1. /\ at' \in [Low -> Places] /\ part' \in [Low -> Part]
        /\ copied' \in Times /\ Time_Register' \in [Part -> Byte]
    BY <1>7, <1>b, CopyGoes DEF TypeOK, Went
  <2>2. valid' \in [register : BOOLEAN, shown : BOOLEAN]
    <3>1. CASE part["rtc"] = 4
      <4>1. valid' = [register |-> FALSE, shown |-> valid.register]
        BY <1>7, <3>1, CopyGoes
      <4> QED
        BY <4>1 DEF TypeOK
    <3>2. CASE part["rtc"] # 4
      BY <1>7, <3>2, CopyGoes
    <3> QED
      BY <3>1, <3>2
  <2>3. TimeValue' \in [Part -> Field]
    <3>1. Decode(part["rtc"], Time_Register[part["rtc"]]) \in Field
      BY <1>7, CopyGoes, DecodeField DEF TypeOK
    <3> QED
      BY <1>7, <3>1, CopyGoes DEF TypeOK
  <2> QED
    BY <1>7, <2>1, <2>2, <2>3 DEF Copy, CopyPart, TypeOK, Places
<1> QED
  BY <1>1, <1>2, <1>3, <1>4, <1>5, <1>6, <1>7, PlacesIn DEF Rtc

\* What TIMESYNC does.
Synced(t) ==
  /\ UNCHANGED <<Time_Register, at, part, loaded, arg, pointed, copied>>
  /\ TimeValue' = Calendar[t] /\ Time_Buffer' = Registers(t)
  /\ missed' \in [Low -> BOOLEAN] /\ \A u \in Low : OnBus(u) => missed'[u]
  /\ (chip' = Registers(t) /\ due' = t) \/ (chip' \in {chip, NoTime} /\ due' = Unknown)
  /\ mark' \in BOOLEAN /\ held' \in {held, "no"}
  /\ \A u \in Low : goal'[u] = Disturbed(u, t)
  /\ goal' \in [Low -> Times \cup {Unknown}]
  /\ valid' = [register |-> FALSE, shown |-> FALSE]

\* It does so.
LEMMA TimeSyncIs ==
  ASSUME TypeOK, NEW t \in Times, TimeSync(t)
  PROVE  Synced(t)
<1>1. missed' = [u \in Low |-> missed[u] \/ u \in Followed("wifi")]
  BY DEF TimeSync
<1>2. \A u \in Low : (missed[u] \/ u \in Followed("wifi")) \in BOOLEAN
  BY Zenon
<1>3. missed' \in [Low -> BOOLEAN]
  BY <1>1, <1>2, Zenon
<1>4. \A u \in Low : OnBus(u) => missed'[u]
  <2>1. "wifi" \notin Low
    BY DEF Low
  <2> TAKE u \in Low
  <2>2. missed'[u] = (missed[u] \/ u \in Followed("wifi"))
    BY <1>1, Zenon
  <2>3. OnBus(u) /\ ~missed[u] => u \in Followed("wifi")
    BY <2>1, Zenon DEF Followed
  <2> QED
    BY <2>2, <2>3, Zenon
<1>5. (chip' = Registers(t) /\ due' = t) \/ (chip' \in {chip, NoTime} /\ due' = Unknown)
  <2>1. \/ chip' = Registers(t) /\ due' = t
        \/ /\ chip' \in {chip} \cup IF BusReady /\ MayScramble("wifi") THEN {NoTime} ELSE {}
           /\ due' = Unknown
    BY Zenon DEF TimeSync
  <2> QED
    BY <2>1
<1>6. mark' \in BOOLEAN
  BY Zenon DEF TimeSync
<1>7. goal' = [u \in Low |-> Disturbed(u, t)]
  BY DEF TimeSync
<1>8. \A u \in Low : Disturbed(u, t) \in Times \cup {Unknown}
  BY DEF Disturbed, TypeOK
<1>9. /\ UNCHANGED <<Time_Register, at, part, loaded, arg, pointed, copied>>
      /\ TimeValue' = Calendar[t] /\ Time_Buffer' = Registers(t)
      /\ held' \in {held, "no"} /\ valid' = [register |-> FALSE, shown |-> FALSE]
  BY DEF TimeSync
<1> QED
  BY <1>3, <1>4, <1>5, <1>6, <1>7, <1>8, <1>9 DEF Synced

\* set_time is called.
LEMMA SetTimeGoes ==
  ASSUME TypeOK, NEW t \in Times, SetTime(t)
  PROVE  at["tshell"] = "idle" /\ Went("tshell", "assign", 4)
BY PlacesIn, GotoGoes DEF SetTime

\* No step of the clock leaves the types.
LEMMA TypeStep ==
  ASSUME TypeOK, ChipKeepsTime, [Next]_vars
  PROVE  TypeOK'
<1>a. SetTimes \subseteq Times /\ NoTime \in [Part -> Byte]
  BY TimesAssumption DEF NoTime, Byte
<1>1. CASE Tick
  BY <1>1, TickDue DEF Tick, TypeOK
<1>2. CASE Rtc
  BY <1>2, RtcType
<1>3. CASE Setting("tshell")
  BY <1>3, SettingType DEF Low
<1>4. ASSUME NEW t \in SetTimes, SetTime(t) PROVE TypeOK'
  <2>1. at' \in [Low -> Places] /\ part' \in [Low -> Part]
    BY <1>4, <1>a, SetTimeGoes DEF Went
  <2>2. goal' \in [Low -> Times \cup {Unknown}] /\ arg' \in Times
    BY <1>4, <1>a DEF SetTime, TypeOK
  <2>3. left' \in [syncs : 0..MaxSyncs, sets : 0..MaxSets, resets : 0..MaxResets]
    BY <1>4, BoundAssumption DEF SetTime, TypeOK
  <2> QED
    BY <1>4, <2>1, <2>2, <2>3 DEF SetTime, TypeOK, Places
<1>5. ASSUME NEW t \in SetTimes, TimeSync(t) PROVE TypeOK'
  <2>0. Synced(t)
    BY <1>5, <1>a, TimeSyncIs
  <2>1. left' \in [syncs : 0..MaxSyncs, sets : 0..MaxSets, resets : 0..MaxResets]
    BY <1>5, BoundAssumption DEF TimeSync, TypeOK
  <2>2. Registers(t) \in [Part -> Byte] /\ Calendar[t] \in [Part -> Field]
    BY <1>a, RegistersType, PartsFit
  <2>3. /\ UNCHANGED <<Time_Register, at, part, loaded, arg, pointed, copied>>
        /\ TimeValue' \in [Part -> Field] /\ Time_Buffer' \in [Part -> Byte]
        /\ held' \in {held, "no"}
        /\ goal' \in [Low -> Times \cup {Unknown}]
        /\ valid' \in [register : BOOLEAN, shown : BOOLEAN]
    BY <2>0, <2>2 DEF Synced
  <2>4. chip' \in [Part -> Byte] /\ due' \in Times \cup {Unknown}
    BY <2>0, <1>a, <2>2 DEF Synced, TypeOK
  <2>5. missed' \in [Low -> BOOLEAN] /\ mark' \in BOOLEAN
    BY <2>0, Zenon DEF Synced
  <2> QED
    BY <2>1, <2>3, <2>4, <2>5 DEF TypeOK
<1>6. CASE Reset
  <2>1. at' \in [Low -> Places] /\ missed' \in [Low -> BOOLEAN] /\ part' \in [Low -> Part]
    BY <1>6, PlacesIn DEF Reset, Low
  <2>2. left' \in [syncs : 0..MaxSyncs, sets : 0..MaxSets, resets : 0..MaxResets]
    BY <1>6, BoundAssumption DEF Reset, TypeOK
  <2>3. TimeValue' \in [Part -> Field] /\ Time_Buffer' \in [Part -> Byte]
        /\ loaded' \in [Low -> Field] /\ pointed' \in BOOLEAN
        /\ Time_Register' \in [Part -> Byte] /\ arg' \in Times
        /\ goal' \in [Low -> Times \cup {Unknown}]
    BY <1>6, <1>a, TimesAreNumbers DEF Reset, Field, Byte
  <2>4. held' \in {"no", "reading", "writing"} /\ valid' \in [register : BOOLEAN, shown : BOOLEAN]
    BY <1>6 DEF Reset
  <2>5. UNCHANGED <<chip, mark, due, copied>>
    BY <1>6 DEF Reset
  <2> QED
    BY <2>1, <2>2, <2>3, <2>4, <2>5 DEF TypeOK, Places
<1>7. CASE UNCHANGED vars
  BY <1>7 DEF vars, TypeOK
<1> QED
  BY <1>1, <1>2, <1>3, <1>4, <1>5, <1>6, <1>7 DEF Next

-----------------------------------------------------------------------------
(* The chip keeps the time *)

\* No transaction that begins undoes it.
LEMMA BeginKeeps ==
  ASSUME TypeOK, Kept, NEW th \in Low, NEW from, NEW to \in Places, NEW lost \in BOOLEAN,
         Began(th, from, to, lost),
         due' \in {due, Unknown}, chip' # chip => due' = Unknown,
         \/ from = "send" /\ to = "sending"
         \/ from = "mark" /\ to = "marking"
         \/ th = "rtc" /\ to \in Pointing
  PROVE  Kept'
<1>1. /\ th = "rtc" => at["tshell"] = "idle"
      /\ at[th] = from /\ at'[th] = to /\ part'[th] = 1
      /\ \A u \in Low \ {th} : /\ at'[u] = at[u] /\ part'[u] = part[u]
                               /\ missed[u] => missed'[u]
                               /\ OnBus(u) => missed'[u]
      /\ UNCHANGED <<TimeValue, Time_Buffer, loaded, arg, goal>>
  BY DEF Began, Went, MayRun
<1>2. Low = {"tshell", "rtc"} /\ (th = "tshell" \/ th = "rtc")
  BY DEF Low
<1>3. ChipKeepsTime'
  BY DEF Kept, ChipKeepsTime
<1>4. \A u \in Low : SettingOwned(u) => SettingOwned(u)'
  <2> SUFFICES ASSUME NEW u \in Low, SettingOwned(u) PROVE SettingOwned(u)'
    OBVIOUS
  <2>1. CASE u = th
    BY <1>1, <2>1 DEF SettingOwned, Pointing
  <2>2. CASE u # th
    BY <1>1, <2>2 DEF SettingOwned, Known, Target
  <2> QED
    BY <2>1, <2>2
<1>5. SettingOwned("tshell")' /\ (ShellSets' \/ SettingOwned("rtc")')
  <2>1. ShellSets => ShellSets'
    BY <1>1, <1>2 DEF ShellSets, Pointing
  <2> QED
    BY <1>2, <1>4, <2>1 DEF Kept
<1>6. \A u \in Low : BufferOwned(u)'
  <2> SUFFICES ASSUME NEW u \in Low, at'[u] = "sending", ~missed'[u] PROVE BufferOwned(u)'
    BY DEF BufferOwned
  <2>1. u = th
    BY <1>1 DEF OnBus, Writing
  <2>2. at[th] = "send"
    BY <1>1, <2>1 DEF Pointing
  <2>3. SettingOwned(th)
    BY <1>1, <1>2, <2>2 DEF Kept, ShellSets
  <2> QED
    BY <1>1, <2>1, <2>2, <2>3 DEF BufferOwned, SettingOwned, Known
<1>7. \A u \in Low : HalfSent(u)'
  <2> SUFFICES ASSUME NEW u \in Low, at'[u] = "sending", part'[u] > 1, ~missed'[u] PROVE FALSE
    BY DEF HalfSent
  <2>1. u # th
    BY <1>1
  <2> QED
    BY <1>1, <2>1 DEF OnBus, Writing
<1>9. \A u \in Low : Aimed(u)'
  BY <1>1 DEF Kept, Aimed, Known, Target, Pointing
<1>8. CutOff'
  <2>1. CASE th = "rtc"
    BY <1>1, <1>2, <2>1 DEF CutOff, Writing, Pointing
  <2>2. CASE th = "tshell"
    BY <1>1, <1>2, <2>2 DEF CutOff, OnBus
  <2> QED
    BY <1>2, <2>1, <2>2
<1> QED
  BY <1>3, <1>5, <1>6, <1>7, <1>8, <1>9 DEF Kept

\* Steps of a setting that leave the bus alone.
LEMMA OffBusKeeps ==
  ASSUME TypeOK, Kept, NEW th \in Low, MayRun(th), UNCHANGED <<chip, due, missed>>,
         \A u \in Low \ {th} : at'[u] = at[u] /\ part'[u] = part[u],
         at[th] \in {"assign", "load", "store"}, at'[th] \in {"assign", "load", "store", "send"},
         \A u \in Low \ {th} : at[u] \notin {"assign", "load", "store", "send"} => goal'[u] = goal[u],
         Time_Buffer' = Time_Buffer \/ at[th] # "assign",
         arg' = arg,
         \A u \in Low : at'[u] = "assign" => at[u] = "assign" /\ goal'[u] \in {goal[u], Unknown},
         SettingOwned("tshell")', ShellSets' \/ SettingOwned("rtc")'
  PROVE  Kept'
<1>1. Low = {"tshell", "rtc"} /\ (th = "tshell" \/ th = "rtc")
  BY DEF Low
<1>2. th = "rtc" => at["tshell"] = "idle"
  BY DEF MayRun
<1>3. ChipKeepsTime'
  BY DEF Kept, ChipKeepsTime
<1>4. \A u \in Low : BufferOwned(u)'
  <2> SUFFICES ASSUME NEW u \in Low, at'[u] = "sending", ~missed'[u],
                      u = "rtc" => at'["tshell"] \in {"idle", "assign"}
               PROVE  BufferOwned(u)'
    BY DEF BufferOwned
  <2>1. th = "tshell" /\ u = "rtc"
    BY <1>1, <1>2
  <2>2. at["tshell"] = "assign" /\ at["rtc"] = "sending" /\ goal'["rtc"] = goal["rtc"]
    BY <1>1, <2>1
  <2>3. Time_Buffer' = Time_Buffer
    BY <2>1, <2>2
  <2>4. BufferOwned("rtc")
    BY <1>1 DEF Kept
  <2> QED
    BY <2>1, <2>2, <2>3, <2>4 DEF BufferOwned, Known
<1>5. \A u \in Low : HalfSent(u)'
  <2> SUFFICES ASSUME NEW u \in Low, at'[u] = "sending" PROVE HalfSent(u)'
    BY DEF HalfSent
  <2>1. u # th
    OBVIOUS
  <2>2. at[u] = "sending" /\ part'[u] = part[u] /\ goal'[u] = goal[u]
    BY <2>1
  <2>3. HalfSent(u)
    BY DEF Kept
  <2> QED
    BY <2>2, <2>3 DEF HalfSent, Known
<1>6. CutOff'
  BY <1>1, <1>2 DEF Kept, CutOff, OnBus, Writing, Pointing
<1>7. \A u \in Low : Aimed(u)'
  BY DEF Kept, Aimed, Known, Target
<1> QED
  BY <1>3, <1>4, <1>5, <1>6, <1>7 DEF Kept

\* An assignment to TimeValue.
LEMMA AssignKeeps ==
  ASSUME TypeOK, Kept, NEW th \in Low, Assign(th)
  PROVE  Kept'
<1> DEFINE k == part[th]
<1>1. /\ MayRun(th) /\ at[th] = "assign" /\ k \in Part
      /\ IF k = 1 THEN Went(th, "load", 1) ELSE Went(th, "assign", k - 1)
  BY AssignGoes
<1>2. /\ UNCHANGED <<chip, due, missed, Time_Buffer, loaded, arg, goal>>
      /\ TimeValue' = [TimeValue EXCEPT ![k] = Calendar[Target(th)][k]]
  BY DEF Assign
<1>3. Low = {"tshell", "rtc"} /\ (th = "tshell" \/ th = "rtc") /\ Target(th)' = Target(th)
  BY <1>2 DEF Low, Target
<1>4. /\ at'[th] \in {"assign", "load"}
      /\ \A u \in Low \ {th} : at'[u] = at[u] /\ part'[u] = part[u]
  BY <1>1 DEF Went
<1>5. SettingOwned(th) /\ Aimed(th)
  BY <1>1, <1>3 DEF Kept, ShellSets, MayRun
<1>6. /\ \A p \in Part : p # k => TimeValue'[p] = TimeValue[p]
      /\ TimeValue'[k] = Calendar[Target(th)][k]
  BY <1>1, <1>2 DEF TypeOK
<1> HIDE DEF k
<1>7. SettingOwned(th)'
  <2> SUFFICES ASSUME Known(th) PROVE SettingOwned(th)'
    BY <1>2 DEF SettingOwned, Known
  <2>1. goal[th] = Target(th) /\ \A p \in Part : p > k => TimeValue[p] = Calendar[goal[th]][p]
    BY <1>1, <1>5 DEF SettingOwned, Aimed, k
  <2>2. \A p \in Part : p >= k => TimeValue'[p] = Calendar[goal[th]][p]
    BY <1>1, <1>6, <2>1 DEF Part
  <2>3. CASE k = 1
    <3>1. at'[th] = "load" /\ part'[th] = 1
      BY <1>1, <2>3 DEF Went
    <3>2. \A p \in Part : TimeValue'[p] = Calendar[goal[th]][p]
      BY <2>2, <2>3 DEF Part
    <3>3. \A p \in Part : ~(p < part'[th])
      BY <3>1 DEF Part
    <3> QED
      BY <1>2, <3>1, <3>2, <3>3 DEF SettingOwned
  <2>4. CASE k # 1
    <3>1. at'[th] = "assign" /\ part'[th] = k - 1
      BY <1>1, <2>4 DEF Went
    <3>2. \A p \in Part : p > part'[th] => p >= k
      BY <1>1, <3>1 DEF Part
    <3> QED
      BY <1>2, <1>3, <2>1, <2>2, <3>1, <3>2 DEF SettingOwned
  <2> QED
    BY <2>3, <2>4
<1>8. ShellSets' \/ SettingOwned("rtc")'
  BY <1>3, <1>4, <1>7 DEF ShellSets
<1>9. SettingOwned("tshell")'
  <2>1. CASE th = "tshell"
    BY <1>7, <2>1
  <2>2. CASE th = "rtc"
    <3>1. at'["tshell"] = "idle"
      BY <1>1, <1>3, <1>4, <2>2 DEF MayRun
    <3> QED
      BY <3>1 DEF SettingOwned
  <2> QED
    BY <1>3, <2>1, <2>2
<1> QED
  BY <1>1, <1>2, <1>4, <1>8, <1>9, OffBusKeeps

\* A field is loaded.
LEMMA LoadKeeps ==
  ASSUME TypeOK, Kept, NEW th \in Low, Load(th)
  PROVE  Kept'
<1>1. MayRun(th) /\ at[th] = "load" /\ part[th] \in Part /\ Went(th, "store", part[th])
  BY LoadGoes
<1>2. /\ UNCHANGED <<chip, due, missed, TimeValue, Time_Buffer, arg, goal>>
      /\ loaded' = [loaded EXCEPT ![th] = TimeValue[part[th]]]
  BY DEF Load
<1>3. Low = {"tshell", "rtc"} /\ (th = "tshell" \/ th = "rtc")
  BY DEF Low
<1>4. /\ at'[th] = "store" /\ part'[th] = part[th]
      /\ \A u \in Low \ {th} : at'[u] = at[u] /\ part'[u] = part[u]
  BY <1>1 DEF Went
<1>5. SettingOwned(th)
  BY <1>1, <1>3 DEF Kept, ShellSets, MayRun
<1>6. loaded'[th] = TimeValue[part[th]]
  BY <1>2 DEF TypeOK
<1>7. SettingOwned(th)'
  BY <1>1, <1>2, <1>4, <1>5, <1>6 DEF SettingOwned, Known
<1>8. ShellSets' \/ SettingOwned("rtc")'
  BY <1>3, <1>4, <1>7 DEF ShellSets
<1>9. SettingOwned("tshell")'
  <2>1. CASE th = "rtc"
    <3>1. at'["tshell"] = "idle"
      BY <1>1, <1>3, <1>4, <2>1 DEF MayRun
    <3> QED
      BY <3>1 DEF SettingOwned
  <2> QED
    BY <1>3, <1>7, <2>1
<1> QED
  BY <1>1, <1>2, <1>4, <1>8, <1>9, OffBusKeeps

\* A field is stored; tshell's last one tells what rtc's setting has become.
LEMMA StoreKeeps ==
  ASSUME TypeOK, Kept, NEW th \in Low, Store(th)
  PROVE  Kept'
<1> DEFINE k == part[th]
<1>1. /\ MayRun(th) /\ at[th] = "store" /\ k \in Part
      /\ IF k = 4 THEN Went(th, "send", 1) ELSE Went(th, "load", k + 1)
  BY StoreGoes
<1>2. /\ UNCHANGED <<chip, due, missed, TimeValue, arg>>
      /\ Time_Buffer' = [Time_Buffer EXCEPT ![k] = Encode(k, loaded[th])]
      /\ goal' = IF k = 4 /\ th = "tshell"
                   THEN [goal EXCEPT !["rtc"] = Disturbed("rtc", goal["tshell"])] ELSE goal
  BY DEF Store, Stored
<1>3. Low = {"tshell", "rtc"} /\ (th = "tshell" \/ th = "rtc")
  BY DEF Low
<1>4. /\ at'[th] \in {"load", "send"}
      /\ \A u \in Low \ {th} : at'[u] = at[u] /\ part'[u] = part[u]
  BY <1>1 DEF Went
<1>5. SettingOwned(th)
  BY <1>1, <1>3 DEF Kept, ShellSets, MayRun
<1>6. /\ \A p \in Part : p # k => Time_Buffer'[p] = Time_Buffer[p]
      /\ Time_Buffer'[k] = Encode(k, loaded[th])
  BY <1>1, <1>2 DEF TypeOK
<1>7. goal'[th] = goal[th] /\ goal[th] \in Times \cup {Unknown}
  BY <1>2, <1>3 DEF TypeOK
<1> HIDE DEF k
<1>8. Known(th) => \A p \in Part : /\ p <= k => Time_Buffer'[p] = Registers(goal[th])[p]
                                   /\ TimeValue'[p] = Calendar[goal[th]][p]
  <2> SUFFICES ASSUME Known(th)
               PROVE  \A p \in Part : /\ p <= k => Time_Buffer'[p] = Registers(goal[th])[p]
                                      /\ TimeValue'[p] = Calendar[goal[th]][p]
    OBVIOUS
  <2>1. /\ \A p \in Part : TimeValue[p] = Calendar[goal[th]][p]
        /\ \A p \in Part : p < k => Time_Buffer[p] = Registers(goal[th])[p]
        /\ loaded[th] = Calendar[goal[th]][k]
    BY <1>1, <1>5 DEF SettingOwned, k
  <2>2. Registers(goal[th])[k] = Encode(k, loaded[th])
    BY <1>1, <1>7, <2>1, RegistersType DEF Known
  <2> QED
    BY <1>1, <1>2, <1>6, <2>1, <2>2 DEF Part
<1>9. SettingOwned(th)'
  <2> SUFFICES ASSUME Known(th) PROVE SettingOwned(th)'
    BY <1>7 DEF SettingOwned, Known
  <2>1. CASE k = 4
    <3>1. at'[th] = "send"
      BY <1>1, <2>1 DEF Went
    <3> QED
      BY <1>7, <1>8, <2>1, <3>1 DEF SettingOwned, Part
  <2>2. CASE k # 4
    <3>1. at'[th] = "load" /\ part'[th] = k + 1
      BY <1>1, <2>2 DEF Went
    <3>2. \A p \in Part : p < part'[th] => p <= k
      BY <1>1, <3>1 DEF Part
    <3> QED
      BY <1>7, <1>8, <3>1, <3>2 DEF SettingOwned
  <2> QED
    BY <2>1, <2>2
<1>10. SettingOwned("tshell")'
  <2>1. CASE th = "rtc"
    <3>1. at'["tshell"] = "idle"
      BY <1>1, <1>3, <1>4, <2>1 DEF MayRun
    <3> QED
      BY <3>1 DEF SettingOwned
  <2> QED
    BY <1>3, <1>9, <2>1
<1>11. ShellSets' \/ SettingOwned("rtc")'
  <2>1. CASE th = "rtc"
    BY <1>9, <2>1
  <2>2. CASE th = "tshell" /\ k # 4
    <3>1. at'["tshell"] = "load"
      BY <1>1, <2>2 DEF Went
    <3> QED
      BY <3>1 DEF ShellSets
  <2>3. CASE th = "tshell" /\ k = 4
    <3>1. goal'["rtc"] = Disturbed("rtc", goal["tshell"]) /\ at'["rtc"] = at["rtc"]
          /\ part'["rtc"] = part["rtc"] /\ part["rtc"] \in Part
      BY <1>2, <1>3, <1>4, <2>3 DEF TypeOK
    <3>2. Known("tshell") => \A p \in Part : /\ Time_Buffer'[p] = Registers(goal["tshell"])[p]
                                             /\ TimeValue'[p] = Calendar[goal["tshell"]][p]
      BY <1>8, <2>3 DEF Part
    <3> SUFFICES ASSUME goal'["rtc"] # Unknown PROVE SettingOwned("rtc")'
      BY DEF SettingOwned, Known
    <3>3. CASE at["rtc"] \in {"load", "send"}
      <4>1. goal'["rtc"] = goal["tshell"]
        BY <3>1, <3>3 DEF Disturbed
      <4> QED
        BY <3>1, <3>2, <3>3, <4>1 DEF SettingOwned, Known
    <3>4. CASE at["rtc"] = "assign"
      <4>1. part["rtc"] = 4 /\ goal'["rtc"] = goal["rtc"]
        BY <3>1, <3>4 DEF Disturbed, Part
      <4> QED
        BY <3>1, <3>4, <4>1 DEF SettingOwned, Part
    <3>5. CASE at["rtc"] \notin {"load", "send", "assign", "store"}
      BY <3>1, <3>5 DEF SettingOwned
    <3>6. at["rtc"] # "store"
      BY <3>1 DEF Disturbed
    <3> QED
      BY <3>3, <3>4, <3>5, <3>6
  <2> QED
    BY <1>3, <2>1, <2>2, <2>3
<1>13. \A u \in Low : at'[u] = "assign" => at[u] = "assign" /\ goal'[u] \in {goal[u], Unknown}
  BY <1>2, <1>3, <1>4 DEF Disturbed, TypeOK
<1>12. \A u \in Low \ {th} : at[u] \notin {"assign", "load", "store", "send"} => goal'[u] = goal[u]
  BY <1>2, <1>3 DEF Disturbed, TypeOK
<1> QED
  BY <1>1, <1>2, <1>4, <1>10, <1>11, <1>12, <1>13, OffBusKeeps

\* A byte is written; after the last one the chip shows the goal.
LEMMA SendKeeps ==
  ASSUME TypeOK, Kept, NEW th \in Low, SendPart(th)
  PROVE  Kept'
<1> DEFINE k == part[th]
<1>1. /\ MayRun(th) /\ at[th] = "sending" /\ k \in Part
      /\ IF k = 4 THEN Went(th, "mark", 1) ELSE Went(th, "sending", k + 1)
  BY SendGoes
<1>2. UNCHANGED <<TimeValue, Time_Buffer, loaded, arg>>
  BY DEF SendPart
<1>3. /\ Low = {"tshell", "rtc"} /\ (th = "tshell" \/ th = "rtc")
      /\ th = "rtc" => at["tshell"] = "idle"
  BY <1>1 DEF Low, MayRun
<1>4. /\ at'[th] \in {"sending", "mark"}
      /\ \A u \in Low \ {th} : at'[u] = at[u] /\ part'[u] = part[u]
  BY <1>1 DEF Went
<1>5. /\ \A u \in Low \ {th} : missed'[u] = missed[u] /\ goal'[u] = goal[u]
      /\ k # 4 => missed'[th] = missed[th] /\ goal'[th] = goal[th]
  <2>1. \A u \in Low \ {th} : goal'[u] = goal[u]
    BY DEF SendPart, TypeOK
  <2>2. \A u \in Low \ {th} : missed'[u] = missed[u]
    <3>1. missed' = missed \/ Release(th)
      BY DEF SendPart
    <3> QED
      BY <3>1, ReleaseType DEF TypeOK
  <2>3. k # 4 => missed' = missed /\ goal' = goal
    BY DEF SendPart
  <2> QED
    BY <2>1, <2>2, <2>3
<1>6. /\ missed[th] => UNCHANGED <<chip, due>>
      /\ ~missed[th] => /\ chip' = [chip EXCEPT ![k] = Time_Buffer[k]]
                        /\ due' = IF k = 4 THEN goal[th] ELSE Unknown
  BY DEF SendPart
<1>7. BufferOwned(th) /\ HalfSent(th) /\ chip \in [Part -> Byte] /\ goal[th] \in Times \cup {Unknown}
  BY DEF Kept, TypeOK
<1> HIDE DEF k
<1>8. ~missed[th] /\ Known(th) => \A p \in Part : p <= k => chip'[p] = Registers(goal[th])[p]
  <2> SUFFICES ASSUME ~missed[th], Known(th)
               PROVE  \A p \in Part : p <= k => chip'[p] = Registers(goal[th])[p]
    OBVIOUS
  <2>1. \A p \in Part : Time_Buffer[p] = Registers(goal[th])[p]
    BY <1>1, <1>3, <1>7 DEF BufferOwned
  <2>2. \A p \in Part : p < k => chip[p] = Registers(goal[th])[p]
    BY <1>1, <1>7 DEF HalfSent, Part, k
  <2>3. \A p \in Part : chip'[p] = IF p = k THEN Time_Buffer[p] ELSE chip[p]
    BY <1>1, <1>6, <1>7
  <2> QED
    BY <1>1, <2>1, <2>2, <2>3 DEF Part
<1>9. ChipKeepsTime'
  <2>1. CASE missed[th]
    BY <1>6, <2>1 DEF Kept, ChipKeepsTime
  <2>2. CASE ~missed[th]
    <3> SUFFICES ASSUME due' # Unknown PROVE chip' = Registers(due')
      BY DEF ChipKeepsTime
    <3>1. k = 4 /\ due' = goal[th] /\ Known(th)
      BY <1>6, <2>2 DEF Known
    <3>2. \A p \in Part : chip'[p] = Registers(goal[th])[p]
      BY <1>8, <2>2, <3>1 DEF Part
    <3>3. Registers(goal[th]) \in [Part -> Byte]
      BY <1>7, <3>1, RegistersType DEF Known
    <3>4. chip' \in [Part -> Byte]
      BY <1>6, <1>1, <1>7, <2>2 DEF TypeOK
    <3> QED
      BY <3>1, <3>2, <3>3, <3>4
  <2> QED
    BY <2>1, <2>2
<1>10. SettingOwned("tshell")' /\ (ShellSets' \/ SettingOwned("rtc")')
  <2>1. \A u \in Low : SettingOwned(u) => SettingOwned(u)'
    <3> SUFFICES ASSUME NEW u \in Low, SettingOwned(u) PROVE SettingOwned(u)'
      OBVIOUS
    <3>1. CASE u = th
      BY <1>4, <3>1 DEF SettingOwned
    <3>2. CASE u # th
      BY <1>2, <1>4, <1>5, <3>2 DEF SettingOwned, Known
    <3> QED
      BY <3>1, <3>2
  <2>2. ShellSets => ShellSets'
    BY <1>1, <1>3, <1>4 DEF ShellSets
  <2> QED
    BY <1>3, <2>1, <2>2 DEF Kept
<1>11. \A u \in Low : BufferOwned(u)'
  <2> SUFFICES ASSUME NEW u \in Low, at'[u] = "sending", ~missed'[u],
                      u = "rtc" => at'["tshell"] \in {"idle", "assign"}
               PROVE  BufferOwned(u)'
    BY DEF BufferOwned
  <2>1. CASE u = th
    <3>1. k # 4
      BY <1>1, <2>1 DEF Went
    <3> QED
      BY <1>1, <1>2, <1>3, <1>5, <1>7, <2>1, <3>1 DEF BufferOwned, Known
  <2>2. CASE u # th
    <3>1. u = "tshell"
      BY <1>3, <1>4, <2>2
    <3> QED
      BY <1>3, <1>4, <2>2, <3>1
  <2> QED
    BY <2>1, <2>2
<1>12. \A u \in Low : HalfSent(u)'
  <2> SUFFICES ASSUME NEW u \in Low, at'[u] = "sending", part'[u] > 1, ~missed'[u]
               PROVE  HalfSent(u)'
    BY DEF HalfSent
  <2>1. CASE u = th
    <3>1. k # 4 /\ part'[th] = k + 1 /\ ~missed[th] /\ goal'[th] = goal[th]
      BY <1>1, <1>5, <2>1 DEF Went
    <3>2. \A p \in Part : p < part'[th] => p <= k
      BY <1>1, <3>1 DEF Part
    <3> QED
      BY <1>6, <1>8, <2>1, <3>1, <3>2 DEF HalfSent, Known
  <2>2. CASE u # th
    <3>1. u = "rtc" /\ th = "tshell"
      BY <1>3, <1>4, <2>2
    <3>2. missed["rtc"]
      BY <1>1, <1>4, <2>2, <3>1 DEF Kept, CutOff, OnBus, Writing
    <3> QED
      BY <1>5, <2>2, <3>1, <3>2
  <2> QED
    BY <2>1, <2>2
<1>13. CutOff'
  <2>1. CASE th = "rtc"
    BY <1>3, <1>4, <2>1 DEF CutOff, Writing, Pointing
  <2>2. CASE th = "tshell"
    <3>1. at'["rtc"] = at["rtc"] /\ missed'["rtc"] = missed["rtc"]
      BY <1>3, <1>4, <1>5, <2>2
    <3> QED
      BY <1>1, <2>2, <3>1 DEF Kept, CutOff, OnBus, Writing
  <2> QED
    BY <1>3, <2>1, <2>2
<1>14. \A u \in Low : Aimed(u)'
  BY <1>2, <1>4, <1>5 DEF Kept, Aimed, Known, Target
<1> QED
  BY <1>9, <1>10, <1>11, <1>12, <1>13, <1>14 DEF Kept

\* A step of rtc that neither sets the time nor writes to the chip.
LEMMA RtcAloneKeeps ==
  ASSUME Kept, at'["tshell"] = "idle", UNCHANGED <<chip, due>>,
         \/ at'["rtc"] \notin {"assign", "load", "store", "send", "sending"}
         \/ at'["rtc"] = "assign" /\ part'["rtc"] = 4 /\ goal'["rtc"] = Epoch
  PROVE  Kept'
<1>1. ChipKeepsTime'
  BY DEF Kept, ChipKeepsTime
<1>2. \A th \in Low : SettingOwned(th)' /\ Aimed(th)' /\ BufferOwned(th)' /\ HalfSent(th)'
  BY DEF SettingOwned, Aimed, BufferOwned, HalfSent, Target, Part, Low
<1>3. CutOff'
  BY DEF CutOff, Writing, Pointing
<1> QED
  BY <1>1, <1>2, <1>3 DEF Kept, Low

\* No step of a setting undoes it.
LEMMA SettingKeeps ==
  ASSUME TypeOK, Kept, NEW th \in Low, Setting(th)
  PROVE  Kept'
<1>1. CASE Assign(th)
  BY <1>1, AssignKeeps
<1>2. CASE Load(th)
  BY <1>2, LoadKeeps
<1>3. CASE Store(th)
  BY <1>3, StoreKeeps
<1>4. CASE BeginSend(th)
  <2>1. PICK lost \in BOOLEAN : /\ Begin(th, "send", "sending", lost)
                                /\ due' = IF lost THEN Unknown ELSE due
    BY <1>4, BeginIs
  <2>2. Began(th, "send", "sending", lost)
    BY <2>1, PlacesIn, BeginGoes
  <2>3. due' \in {due, Unknown} /\ (chip' # chip => due' = Unknown)
    BY <2>1, <2>2 DEF Began
  <2> QED
    BY <2>2, <2>3, PlacesIn, BeginKeeps
<1>5. CASE SendPart(th)
  BY <1>5, SendKeeps
<1>6. CASE BeginMark(th)
  <2>1. PICK lost \in BOOLEAN : /\ Begin(th, "mark", "marking", lost)
                                /\ due' = IF chip' = chip THEN due ELSE Unknown
    BY <1>6, BeginIs
  <2>2. Began(th, "mark", "marking", lost)
    BY <2>1, PlacesIn, BeginGoes
  <2>3. due' \in {due, Unknown} /\ (chip' # chip => due' = Unknown)
    BY <2>1
  <2> QED
    BY <2>2, <2>3, PlacesIn, BeginKeeps
<1>7. CASE EndMark(th)
  <2>1. /\ MayRun(th) /\ at[th] = "marking"
        /\ Went(th, IF th = "rtc" THEN "recheck" ELSE "idle", 1)
        /\ UNCHANGED <<chip, due, TimeValue, Time_Buffer, loaded, goal>>
    BY <1>7, EndMarkGoes DEF EndMark
  <2>2. /\ \A u \in Low \ {th} : at'[u] = at[u] /\ part'[u] = part[u]
        /\ Low = {"tshell", "rtc"} /\ (th = "tshell" \/ th = "rtc")
    BY <2>1 DEF Went, Low
  <2>3. CASE th = "rtc"
    BY <2>1, <2>2, <2>3, RtcAloneKeeps DEF MayRun, Went
  <2>4. CASE th = "tshell"
    <3>1. /\ at'["tshell"] = "idle" /\ at'["rtc"] = at["rtc"] /\ part'["rtc"] = part["rtc"]
          /\ Target("rtc")' = Target("rtc")
      BY <2>1, <2>2, <2>4 DEF Went, Target
    <3>2. missed'["rtc"] = missed["rtc"]
      BY <1>7, <2>2, <2>4, ReleaseType DEF EndMark, TypeOK
    <3>3. OnBus("rtc") => missed["rtc"]
      BY <2>1, <2>4 DEF Kept, CutOff, Writing
    <3>4. SettingOwned("rtc")
      BY <2>1, <2>4 DEF Kept, ShellSets
    <3>5. SettingOwned("rtc")' /\ Aimed("rtc")'
      BY <2>1, <2>2, <3>1, <3>4 DEF Kept, SettingOwned, Aimed, Known
    <3>6. BufferOwned("rtc")' /\ HalfSent("rtc")'
      BY <3>1, <3>2, <3>3 DEF BufferOwned, HalfSent, OnBus, Writing
    <3>7. SettingOwned("tshell")' /\ Aimed("tshell")' /\ BufferOwned("tshell")' /\ HalfSent("tshell")'
      BY <3>1 DEF SettingOwned, Aimed, BufferOwned, HalfSent
    <3>8. CutOff' /\ ChipKeepsTime'
      BY <2>1, <3>1 DEF Kept, CutOff, ChipKeepsTime, Writing, Pointing
    <3> QED
      BY <2>2, <3>5, <3>6, <3>7, <3>8 DEF Kept
  <2> QED
    BY <2>2, <2>3, <2>4
<1> QED
  BY <1>1, <1>2, <1>3, <1>4, <1>5, <1>6, <1>7 DEF Setting

\* Nor does any step of rtc.
LEMMA RtcKeeps ==
  ASSUME TypeOK, Kept, Rtc
  PROVE  Kept'
<1>a. "rtc" \in Low /\ "tshell" \in Low \ {"rtc"}
  BY DEF Low
<1>1. CASE \E from \in Places, to \in Pointing : BeginRead(from, to)
  <2>0. Pointing \subseteq Places
    BY DEF Pointing, Places, Writing
  <2>1. PICK lost \in BOOLEAN, from \in Places, to \in Pointing :
          /\ Begin("rtc", from, to, lost)
          /\ due' = IF chip' = chip THEN due ELSE Unknown
    BY <1>1, BeginIs
  <2>2. Began("rtc", from, to, lost)
    BY <1>a, <2>0, <2>1, BeginGoes
  <2>3. due' \in {due, Unknown} /\ (chip' # chip => due' = Unknown)
    BY <2>1
  <2> QED
    BY <1>a, <2>0, <2>2, <2>3, BeginKeeps
<1>2. CASE \E from \in Places, to \in Reading : Restart(from, to)
  <2>0. Reading \subseteq Places
    BY DEF Places
  <2>1. PICK from \in Places, to \in Reading : Restart(from, to)
    BY <1>2
  <2>2. MayRun("rtc") /\ Went("rtc", to, 1) /\ UNCHANGED <<chip, due>>
    BY <2>0, <2>1, RestartGoes
  <2>3. at'["tshell"] = "idle" /\ at'["rtc"] \in Reading
    BY <1>a, <2>2 DEF MayRun, Went
  <2> QED
    BY <2>2, <2>3, RtcAloneKeeps DEF Reading
<1>3. CASE Start
  <2>1. MayRun("rtc") /\ Went("rtc", "check", 1) /\ UNCHANGED <<chip, due>>
    BY <1>3, PlacesIn, GotoGoes DEF Start
  <2> QED
    BY <1>a, <2>1, RtcAloneKeeps DEF MayRun, Went
<1>4. CASE EndCheck
  <2>1. /\ MayRun("rtc") /\ UNCHANGED <<chip, due>>
        /\ \/ Went("rtc", "recheck", 1) \/ Went("rtc", "read", 1)
           \/ Went("rtc", "assign", 4) /\ goal'["rtc"] = Epoch
    BY <1>4, <1>a, EndCheckGoes DEF EndCheck, TypeOK
  <2> QED
    BY <1>a, <2>1, RtcAloneKeeps DEF MayRun, Went
<1>5. CASE Setting("rtc")
  BY <1>5, <1>a, SettingKeeps
<1>6. CASE EndRead
  <2>1. MayRun("rtc") /\ Went("rtc", "copy", 1) /\ UNCHANGED <<chip, due>>
    BY <1>6, EndReadGoes DEF EndRead
  <2> QED
    BY <1>a, <2>1, RtcAloneKeeps DEF MayRun, Went
<1>7. CASE Copy
  <2>1. /\ MayRun("rtc") /\ UNCHANGED <<chip, due>>
        /\ Went("rtc", "read", 1) \/ Went("rtc", "copy", part["rtc"] + 1)
    BY <1>7, CopyGoes DEF Copy, CopyPart
  <2> QED
    BY <1>a, <2>1, RtcAloneKeeps DEF MayRun, Went
<1> QED
  BY <1>1, <1>2, <1>3, <1>4, <1>5, <1>6, <1>7, PlacesIn DEF Rtc, Pointing, Reading

\* TIMESYNC sets the time in one step, cuts off what is on the bus and lends its
\* time to a setting that is before a load or before it sends.
LEMMA TimeSyncKeeps ==
  ASSUME TypeOK, Kept, NEW t \in Times, TimeSync(t)
  PROVE  Kept'
<1>0. Synced(t)
  BY TimeSyncIs
<1>1. /\ UNCHANGED <<at, part, loaded, arg>>
      /\ TimeValue' = Calendar[t] /\ Time_Buffer' = Registers(t)
      /\ \A u \in Low : OnBus(u) => missed'[u]
      /\ \A u \in Low : goal'[u] = Disturbed(u, t)
      /\ (chip' = Registers(t) /\ due' = t) \/ due' = Unknown
  BY <1>0 DEF Synced
<1>2. ChipKeepsTime'
  BY <1>1 DEF ChipKeepsTime
<1>3. \A u \in Low : part[u] \in Part
  BY DEF TypeOK
<1>4. \A u \in Low : SettingOwned(u)' /\ Aimed(u)'
  <2> TAKE u \in Low
  <2>1. Aimed(u)
    BY DEF Kept
  <2>2. CASE at[u] \in {"load", "send"}
    BY <1>1, <2>2 DEF SettingOwned, Aimed, Disturbed
  <2>3. CASE at[u] = "store"
    BY <1>1, <2>3 DEF SettingOwned, Aimed, Disturbed, Known
  <2>4. CASE at[u] = "assign"
    <3>1. part[u] = 4 \/ goal'[u] = Unknown
      BY <1>1, <1>3, <2>4 DEF Disturbed, Part
    <3>2. goal'[u] \in {goal[u], Unknown}
      BY <1>1, <2>4 DEF Disturbed
    <3>3. Target(u)' = Target(u)
      BY <1>1 DEF Target
    <3> QED
      BY <1>1, <2>1, <2>4, <3>1, <3>2, <3>3 DEF SettingOwned, Aimed, Known, Part
  <2>5. CASE at[u] \notin {"load", "send", "store", "assign"}
    BY <1>1, <2>5 DEF SettingOwned, Aimed
  <2> QED
    BY <2>2, <2>3, <2>4, <2>5
<1>5. \A u \in Low : BufferOwned(u)' /\ HalfSent(u)'
  <2> TAKE u \in Low
  <2>1. at'[u] = "sending" => missed'[u]
    BY <1>1 DEF OnBus, Writing
  <2> QED
    BY <2>1 DEF BufferOwned, HalfSent
<1>6. CutOff'
  BY <1>1 DEF CutOff, OnBus, Low
<1> QED
  BY <1>2, <1>4, <1>5, <1>6 DEF Kept, Low

\* Every step leaves the chip with the last time set.
LEMMA KeptStep ==
  ASSUME TypeOK, Kept, [Next]_vars
  PROVE  Kept'
<1>a. SetTimes \subseteq Times /\ Low = {"tshell", "rtc"} /\ "tshell" \in Low /\ "rtc" \in Low \ {"tshell"}
  BY TimesAssumption DEF Low
<1>1. CASE Tick
  <2>1. /\ due' # Unknown => chip' = Registers(due')
        /\ due = Unknown => due' = Unknown
    BY <1>1, TickDue DEF Kept
  <2>2. /\ UNCHANGED <<TimeValue, Time_Buffer, loaded, at, part, arg, missed, goal>>
        /\ \A th \in Low : at[th] = "sending" /\ part[th] > 1 => missed[th]
    BY <1>1 DEF Tick
  <2>3. ChipKeepsTime'
    BY <2>1 DEF ChipKeepsTime
  <2>4. \A u \in Low : (SettingOwned(u) => SettingOwned(u)') /\ Aimed(u)' /\ BufferOwned(u)'
    BY <2>2 DEF Kept, SettingOwned, Aimed, BufferOwned, Known, Target
  <2>5. \A u \in Low : HalfSent(u)'
    BY <2>2 DEF HalfSent
  <2>6. CutOff' /\ (ShellSets => ShellSets')
    BY <2>2 DEF Kept, CutOff, OnBus, ShellSets
  <2> QED
    BY <1>a, <2>3, <2>4, <2>5, <2>6 DEF Kept
<1>2. CASE Rtc
  BY <1>2, RtcKeeps
<1>3. CASE Setting("tshell")
  BY <1>3, <1>a, SettingKeeps
<1>4. ASSUME NEW t \in SetTimes, SetTime(t) PROVE Kept'
  <2>1. at["tshell"] = "idle" /\ Went("tshell", "assign", 4)
    BY <1>4, <1>a, SetTimeGoes
  <2>2. /\ at'["tshell"] = "assign" /\ part'["tshell"] = 4
        /\ at'["rtc"] = at["rtc"] /\ part'["rtc"] = part["rtc"]
    BY <1>a, <2>1 DEF Went
  <2>3. /\ UNCHANGED <<chip, due, missed, TimeValue, Time_Buffer, loaded>>
        /\ goal'["tshell"] = t /\ goal'["rtc"] = goal["rtc"] /\ arg' = t
    BY <1>4, <1>a DEF SetTime, TypeOK
  <2>4. ChipKeepsTime' /\ CutOff' /\ ShellSets'
    BY <2>2, <2>3 DEF Kept, ChipKeepsTime, CutOff, Writing, Pointing, ShellSets
  <2>5. SettingOwned("tshell")' /\ Aimed("tshell")' /\ BufferOwned("tshell")' /\ HalfSent("tshell")'
    BY <2>2, <2>3 DEF SettingOwned, Aimed, BufferOwned, HalfSent, Target, Part
  <2>6. Aimed("rtc")' /\ BufferOwned("rtc")' /\ HalfSent("rtc")'
    BY <1>a, <2>1, <2>2, <2>3 DEF Kept, Aimed, BufferOwned, HalfSent, Target, Known
  <2> QED
    BY <1>a, <2>4, <2>5, <2>6 DEF Kept
<1>5. ASSUME NEW t \in SetTimes, TimeSync(t) PROVE Kept'
  BY <1>5, <1>a, TimeSyncKeeps
<1>6. CASE Reset
  <2>1. UNCHANGED <<chip, due>> /\ at' = [tshell |-> "idle", rtc |-> "start"]
    BY <1>6 DEF Reset
  <2> QED
    BY <2>1, RtcAloneKeeps
<1>7. CASE UNCHANGED vars
  <2>1. \A u \in Low : /\ SettingOwned(u) => SettingOwned(u)'
                       /\ Aimed(u)' /\ BufferOwned(u)' /\ HalfSent(u)'
    BY <1>7 DEF vars, Kept, SettingOwned, Aimed, BufferOwned, HalfSent, Known, Target
  <2>2. ChipKeepsTime' /\ CutOff' /\ (ShellSets => ShellSets')
    BY <1>7 DEF vars, Kept, ChipKeepsTime, CutOff, OnBus, ShellSets
  <2> QED
    BY <1>a, <2>1, <2>2 DEF Kept
<1> QED
  BY <1>1, <1>2, <1>3, <1>4, <1>5, <1>6, <1>7 DEF Next

\* Every variable keeps its type, and every part of a time its range.
THEOREM TypeCorrect == Spec => []TypeOK
<1>1. Init => TypeOK /\ Kept
  BY InitInv DEF Inv
<1>2. TypeOK /\ Kept /\ [Next]_vars => (TypeOK /\ Kept)'
  BY TypeStep, KeptStep DEF Kept
<1>3. TypeOK /\ Kept => TypeOK
  OBVIOUS
<1> QED
  BY <1>1, <1>2, PTL DEF Spec

\* The chip keeps the last time that was set, whatever preempted the setting
\* (DS1307_Time_Init, ds1307.c).
THEOREM ClockKept == Spec => []ChipKeepsTime
<1>1. Init => TypeOK /\ Kept
  BY InitInv DEF Inv
<1>2. TypeOK /\ Kept /\ [Next]_vars => (TypeOK /\ Kept)'
  BY TypeStep, KeptStep DEF Kept
<1>3. Kept => ChipKeepsTime
  BY DEF Kept
<1> QED
  BY <1>1, <1>2, <1>3, PTL DEF Spec


-----------------------------------------------------------------------------
(* What is shown is not ahead of the chip *)

\* Steps that write neither TimeValue nor Time_Register, unless the time shown
\* does not count any more, and know no more of the time than before.
LEMMA OtherShows ==
  ASSUME Shown,
         UNCHANGED <<TimeValue, Time_Register, copied, valid>>,
         \/ due' \in {due, Unknown}
         \/ ~valid.register /\ ~valid.shown,
         at'["rtc"] \in {"reading", "copy"}
           => /\ at'["rtc"] = at["rtc"] /\ part'["rtc"] = part["rtc"]
              /\ missed["rtc"] => missed'["rtc"],
         at["rtc"] = "copy" => at'["rtc"] = "copy",
         \A th \in Low : Hiding(th)' => Hiding(th)
  PROVE  Shown'
<1>1. SettingHides'
  BY DEF Shown, SettingHides
<1>2. ReadingOfChip'
  BY DEF Shown, ReadingOfChip
<1>3. ShownCopied'
  BY DEF Shown, ShownCopied
<1> QED
  BY <1>1, <1>2, <1>3 DEF Shown

\* A step after which the time shown does not count.
LEMMA NoneShows ==
  ASSUME ~valid'.register, ~valid'.shown
  PROVE  Shown'
BY DEF Shown, SettingHides, ReadingOfChip, ShownCopied

\* No step of a setting shows a time that is not the past.
LEMMA SettingShows ==
  ASSUME TypeOK, Shown, NEW th \in Low, Setting(th)
  PROVE  Shown'
<1>a. Low = {"tshell", "rtc"} /\ (th = "tshell" \/ th = "rtc")
  BY DEF Low
<1>1. CASE Assign(th)
  <2>1. ~valid'.register /\ ~valid'.shown
    BY <1>1 DEF Assign
  <2> QED
    BY <2>1, NoneShows
<1>2. CASE Load(th) \/ Store(th) \/ SendPart(th)
  <2>1. valid' = valid /\ Hiding(th)
    BY <1>2 DEF Load, Store, Stored, SendPart, Hiding
  <2>2. ~valid'.register /\ ~valid'.shown
    BY <2>1 DEF Shown, SettingHides
  <2> QED
    BY <2>2, NoneShows
<1>3. CASE BeginSend(th)
  <2>1. PICK lost \in BOOLEAN : Begin(th, "send", "sending", lost)
    BY <1>3, BeginIs
  <2>2. at[th] = "send" /\ valid' = valid
    BY <2>1 DEF Begin
  <2>3. ~valid'.register /\ ~valid'.shown
    BY <2>2 DEF Shown, SettingHides, Hiding
  <2> QED
    BY <2>3, NoneShows
<1>4. CASE BeginMark(th)
  <2>1. PICK lost \in BOOLEAN : /\ Begin(th, "mark", "marking", lost)
                                /\ due' = IF chip' = chip THEN due ELSE Unknown
    BY <1>4, BeginIs
  <2>2. Began(th, "mark", "marking", lost)
    BY <2>1, PlacesIn, BeginGoes
  <2>3. /\ at[th] = "mark" /\ at'[th] = "marking"
        /\ \A u \in Low \ {th} : at'[u] = at[u] /\ part'[u] = part[u]
        /\ \A u \in Low \ {th} : missed[u] => missed'[u]
        /\ UNCHANGED <<TimeValue, Time_Register, copied, valid>>
    BY <2>2 DEF Began, Went
  <2>4. \A u \in Low : Hiding(u)' => Hiding(u)
    BY <2>3 DEF Hiding
  <2> QED
    BY <2>1, <2>3, <2>4, <1>a, OtherShows
<1>5. CASE EndMark(th)
  <2>1. /\ at[th] = "marking"
        /\ Went(th, IF th = "rtc" THEN "recheck" ELSE "idle", 1)
        /\ UNCHANGED <<TimeValue, Time_Register, copied, valid, due>>
    BY <1>5, EndMarkGoes DEF EndMark
  <2>2. /\ at'[th] \in {"recheck", "idle"}
        /\ \A u \in Low \ {th} : at'[u] = at[u] /\ part'[u] = part[u]
    BY <2>1 DEF Went
  <2>3. \A u \in Low \ {th} : missed'[u] = missed[u]
    BY <1>5, ReleaseType DEF EndMark, TypeOK
  <2>4. \A u \in Low : Hiding(u)' => Hiding(u)
    BY <2>2 DEF Hiding
  <2> QED
    BY <2>1, <2>2, <2>3, <2>4, <1>a, OtherShows
<1> QED
  BY <1>1, <1>2, <1>3, <1>4, <1>5 DEF Setting

\* A copy puts the parts of the reading into TimeValue one after the other.
LEMMA CopyShows ==
  ASSUME TypeOK, Shown, Copy
  PROVE  Shown'
<1> DEFINE k == part["rtc"]
<1>1. /\ MayRun("rtc") /\ at["rtc"] = "copy" /\ k \in Part
      /\ TimeValue' = [TimeValue EXCEPT ![k] = Decode(k, Time_Register[k])]
      /\ due' = due
  BY CopyGoes DEF Copy, CopyPart
<1>2. /\ TimeValue'[k] = Decode(k, Time_Register[k])
      /\ \A p \in Part : p # k => TimeValue'[p] = TimeValue[p]
  BY <1>1 DEF TypeOK
<1>3. CASE k = 4
  <2>1. /\ Went("rtc", "read", 1)
        /\ valid' = [register |-> FALSE, shown |-> valid.register]
        /\ copied' \in Times
        /\ \A r \in Times : Time_Register = Registers(r) => copied' = r
    BY <1>3, CopyGoes
  <2>2. /\ at'["rtc"] = "read" /\ at["tshell"] = "idle" /\ at'["tshell"] = "idle"
        /\ ~valid'.register /\ valid'.shown = valid.register
    BY <1>1, <2>1 DEF Went, MayRun, Low
  <2>3. SettingHides' /\ ReadingOfChip'
    BY <2>2 DEF SettingHides, Hiding, ReadingOfChip, Low
  <2>4. ShownCopied'
    <3> SUFFICES ASSUME valid.register, due # Unknown
                 PROVE  copied' <= due /\ \A p \in Part : TimeValue'[p] = Calendar[copied'][p]
      BY <1>1, <2>2 DEF ShownCopied
    <3>1. PICK r \in Times : Time_Register = Registers(r) /\ r <= due
      BY <1>1 DEF Shown, ReadingOfChip
    <3>2. copied' = r
      BY <2>1, <3>1
    <3>3. \A p \in Part : Decode(p, Time_Register[p]) = Calendar[r][p]
      BY <3>1, RegistersType
    <3>4. \A p \in Part : p < 4 => TimeValue[p] = Decode(p, Time_Register[p])
      BY <1>1, <1>3 DEF Shown, ShownCopied
    <3>5. \A p \in Part : p # 4 => p < 4
      BY DEF Part
    <3> QED
      BY <1>2, <1>3, <3>1, <3>2, <3>3, <3>4, <3>5
  <2> QED
    BY <2>3, <2>4 DEF Shown
<1>4. CASE k # 4
  <2>1. /\ Went("rtc", "copy", k + 1) /\ UNCHANGED <<Time_Register, copied>>
        /\ valid'.register = valid.register
        /\ valid'.shown => valid.shown /\ valid.register
    BY <1>4, CopyGoes
  <2>2. /\ at'["rtc"] = "copy" /\ part'["rtc"] = k + 1
        /\ at["tshell"] = "idle" /\ at'["tshell"] = "idle"
    BY <1>1, <2>1 DEF Went, MayRun, Low
  <2>3. SettingHides' /\ ReadingOfChip'
    BY <1>1, <2>1, <2>2 DEF Shown, SettingHides, Hiding, ReadingOfChip, Low
  <2>4. \A p \in Part : (p >= k + 1 => p >= k /\ p # k) /\ (p < k + 1 => p < k \/ p = k)
    BY <1>1 DEF Part
  <2>5. valid'.shown /\ due' # Unknown =>
          /\ copied' <= due'
          /\ \A p \in Part : p >= k + 1 => TimeValue'[p] = Calendar[copied'][p]
    BY <1>1, <1>2, <2>1, <2>4 DEF Shown, ShownCopied
  <2>6. valid'.register => \A p \in Part : p < k + 1 => TimeValue'[p] = Decode(p, Time_Register[p])
    BY <1>1, <1>2, <2>1, <2>4 DEF Shown, ShownCopied
  <2>7. ShownCopied'
    BY <2>1, <2>2, <2>5, <2>6 DEF ShownCopied
  <2> QED
    BY <2>3, <2>7 DEF Shown
<1> QED
  BY <1>3, <1>4

\* No step of rtc shows a time that is not the past.
LEMMA RtcShows ==
  ASSUME TypeOK, Kept, Shown, Rtc
  PROVE  Shown'
<1>a. /\ "rtc" \in Low /\ "tshell" \in Low \ {"rtc"} /\ Low = {"tshell", "rtc"}
      /\ due \in Times \cup {Unknown} /\ Times \subseteq Nat
  BY TimesAssumption DEF TypeOK, Low
<1>1. CASE \E from \in {"check", "recheck", "read"}, to \in Pointing : BeginRead(from, to)
  <2>0. Pointing \subseteq Places
    BY DEF Pointing, Places, Writing
  <2>1. PICK lost \in BOOLEAN, from \in {"check", "recheck", "read"}, to \in Pointing :
          /\ Begin("rtc", from, to, lost)
          /\ due' = IF chip' = chip THEN due ELSE Unknown
    BY <1>1, BeginIs
  <2>2. Began("rtc", from, to, lost)
    BY <1>a, <2>0, <2>1, BeginGoes
  <2>3. /\ at["rtc"] = from /\ at'["rtc"] = to /\ at'["tshell"] = at["tshell"]
        /\ part'["tshell"] = part["tshell"]
        /\ UNCHANGED <<TimeValue, Time_Register, copied, valid>>
    BY <1>a, <2>2 DEF Began, Went
  <2>4. \A u \in Low : Hiding(u)' => Hiding(u)
    BY <1>a, <2>3 DEF Hiding, Pointing
  <2> QED
    BY <2>1, <2>3, <2>4, OtherShows DEF Pointing
<1>2. CASE \/ Restart("pointCheck", "checking") \/ Restart("pointRecheck", "rechecking")
           \/ Start \/ EndCheck
  <2>1. /\ at["rtc"] \in {"start", "pointCheck", "pointRecheck", "checking", "rechecking"}
        /\ \/ at'["rtc"] \in {"check", "checking", "rechecking", "recheck", "read"}
           \/ at'["rtc"] = "assign" /\ part'["rtc"] = 4
        /\ at'["tshell"] = at["tshell"] /\ part'["tshell"] = part["tshell"]
        /\ UNCHANGED <<TimeValue, Time_Register, copied, valid, due>>
    <3>1. CASE Restart("pointCheck", "checking") \/ Restart("pointRecheck", "rechecking")
      BY <1>a, <3>1, PlacesIn, RestartGoes DEF Went
    <3>2. CASE Start
      <4>1. at["rtc"] = "start" /\ Went("rtc", "check", 1)
        BY <3>2, PlacesIn, GotoGoes DEF Start
      <4> QED
        BY <1>a, <3>2, <4>1 DEF Start, Went
    <3>3. CASE EndCheck
      BY <1>a, <3>3, EndCheckGoes DEF EndCheck, Went
    <3> QED
      BY <1>2, <3>1, <3>2, <3>3
  <2>2. \A u \in Low : Hiding(u)' => Hiding(u)
    BY <1>a, <2>1 DEF Hiding
  <2> QED
    BY <2>1, <2>2, OtherShows
<1>3. CASE Setting("rtc")
  BY <1>3, <1>a, SettingShows
<1>4. CASE Restart("pointRead", "reading")
  <2>1. /\ MayRun("rtc") /\ at["rtc"] = "pointRead" /\ Went("rtc", "reading", 1)
        /\ missed'["rtc"] => missed["rtc"]
        /\ UNCHANGED <<chip, TimeValue, due, copied>>
        /\ ~missed["rtc"] => Time_Register' = chip
        /\ valid'.shown = valid.shown /\ (valid'.register => ~missed["rtc"])
    BY <1>4, PlacesIn, RestartGoes
  <2>2. at["tshell"] = "idle" /\ at'["tshell"] = "idle" /\ at'["rtc"] = "reading"
    BY <2>1, <1>a DEF Went, MayRun
  <2>3. SettingHides'
    BY <2>2, <1>a DEF SettingHides, Hiding
  <2>4. ShownCopied'
    BY <2>1, <2>2 DEF Shown, ShownCopied
  <2>5. ReadingOfChip'
    <3> SUFFICES ASSUME due # Unknown, valid'.register
                 PROVE  \E r \in Times : /\ Time_Register' = Registers(r)
                                         /\ r <= due
                                         /\ valid.shown => copied <= r
      BY <2>1 DEF ReadingOfChip
    <3>1. Time_Register' = Registers(due) /\ due \in Times
      BY <2>1, <1>a DEF Kept, ChipKeepsTime
    <3>2. valid.shown => copied <= due
      BY DEF Shown, ShownCopied
    <3>3. due <= due
      BY <3>1, <1>a
    <3> QED
      BY <3>1, <3>2, <3>3
  <2> QED
    BY <2>3, <2>4, <2>5 DEF Shown
<1>5. CASE EndRead
  <2>1. /\ MayRun("rtc") /\ at["rtc"] = "reading" /\ Went("rtc", "copy", 1)
        /\ ~missed["rtc"] => UNCHANGED <<Time_Register, valid>>
        /\ missed["rtc"] => valid'.register = FALSE /\ valid'.shown = valid.shown
        /\ UNCHANGED <<TimeValue, copied, due>>
    BY <1>5, EndReadGoes DEF EndRead
  <2>2. /\ at["tshell"] = "idle" /\ at'["tshell"] = "idle"
        /\ at'["rtc"] = "copy" /\ part'["rtc"] = 1
    BY <2>1, <1>a DEF Went, MayRun
  <2>3. SettingHides'
    BY <2>2, <1>a DEF SettingHides, Hiding
  <2>4. ReadingOfChip'
    BY <2>1, <2>2 DEF Shown, ReadingOfChip
  <2>5. ShownCopied'
    BY <2>1, <2>2 DEF Shown, ShownCopied, Part
  <2> QED
    BY <2>3, <2>4, <2>5 DEF Shown
<1>6. CASE Copy
  BY <1>6, CopyShows
<1> QED
  BY <1>1, <1>2, <1>3, <1>4, <1>5, <1>6 DEF Rtc, Pointing

\* Nor does any step.
LEMMA ShownStep ==
  ASSUME TypeOK, Kept, Shown, [Next]_vars
  PROVE  Shown'
<1>a. /\ Low = {"tshell", "rtc"} /\ SetTimes \subseteq Times
      /\ due \in Times \cup {Unknown} /\ copied \in Times /\ Times \subseteq Int
  BY TimesAssumption DEF TypeOK, Low
<1>1. CASE Tick
  <2>1. UNCHANGED <<TimeValue, Time_Register, at, part, missed, valid, copied>>
    BY <1>1 DEF Tick
  <2>2. due' # Unknown => due # Unknown /\ due' = due + 1
    BY <1>1, TickDue DEF Kept
  <2>3. \A r \in Times : due' # Unknown /\ r <= due => r <= due'
    BY <2>2, <1>a
  <2>4. SettingHides'
    BY <2>1 DEF Shown, SettingHides, Hiding
  <2>5. ReadingOfChip'
    BY <2>1, <2>2, <2>3 DEF Shown, ReadingOfChip
  <2>6. ShownCopied'
    BY <2>1, <2>2, <2>3, <1>a DEF Shown, ShownCopied
  <2> QED
    BY <2>4, <2>5, <2>6 DEF Shown
<1>2. CASE Rtc
  BY <1>2, RtcShows
<1>3. CASE Setting("tshell")
  BY <1>3, <1>a, SettingShows
<1>4. ASSUME NEW t \in SetTimes, SetTime(t) PROVE Shown'
  <2>1. /\ at'["tshell"] = "assign" /\ part'["tshell"] = 4
        /\ at'["rtc"] = at["rtc"] /\ part'["rtc"] = part["rtc"]
        /\ UNCHANGED <<TimeValue, Time_Register, copied, valid, due, missed>>
    BY <1>4, <1>a, SetTimeGoes DEF SetTime, Went
  <2>2. \A u \in Low : Hiding(u)' => Hiding(u)
    BY <1>a, <2>1 DEF Hiding
  <2> QED
    BY <2>1, <2>2, OtherShows
<1>5. ASSUME NEW t \in SetTimes, TimeSync(t) PROVE Shown'
  <2>1. ~valid'.register /\ ~valid'.shown
    BY <1>5 DEF TimeSync
  <2> QED
    BY <2>1, NoneShows
<1>6. CASE Reset
  <2>1. ~valid'.register /\ ~valid'.shown
    BY <1>6 DEF Reset
  <2> QED
    BY <2>1, NoneShows
<1>7. CASE UNCHANGED vars
  BY <1>7 DEF vars, Shown, SettingHides, Hiding, ReadingOfChip, ShownCopied
<1> QED
  BY <1>1, <1>2, <1>3, <1>4, <1>5, <1>6, <1>7 DEF Next

\* The order of two times, part by part from the year down.
LEMMA PartByPart ==
  ASSUME NEW f \in [Part -> Nat], NEW g \in [Part -> Nat]
  PROVE  NotAfter(f, g) <=>
           \/ f[4] < g[4]
           \/ f[4] = g[4] /\ f[3] < g[3]
           \/ f[4] = g[4] /\ f[3] = g[3] /\ f[2] < g[2]
           \/ f[4] = g[4] /\ f[3] = g[3] /\ f[2] = g[2] /\ f[1] <= g[1]
<1>1. /\ Agree(f, g, 4)
      /\ Agree(f, g, 3) <=> f[4] = g[4]
      /\ Agree(f, g, 2) <=> f[4] = g[4] /\ f[3] = g[3]
      /\ Agree(f, g, 1) <=> f[4] = g[4] /\ f[3] = g[3] /\ f[2] = g[2]
  BY DEF Agree, Part
<1>2. Before(f, g) <=>
        \/ f[4] < g[4]
        \/ f[4] = g[4] /\ f[3] < g[3]
        \/ f[4] = g[4] /\ f[3] = g[3] /\ f[2] < g[2]
        \/ f[4] = g[4] /\ f[3] = g[3] /\ f[2] = g[2] /\ f[1] < g[1]
  BY <1>1 DEF Before, Part
<1>3. f = g <=> f[4] = g[4] /\ f[3] = g[3] /\ f[2] = g[2] /\ f[1] = g[1]
  <2>1. (\A p \in Part : f[p] = g[p]) => f = g
    OBVIOUS
  <2> QED
    BY <2>1 DEF Part
<1>4. f[1] \in Nat /\ g[1] \in Nat
  BY DEF Part
<1> QED
  BY <1>2, <1>3, <1>4 DEF NotAfter

\* The low parts of a later reading with the high ones of an earlier one are no time
\* after the later one, nor below the highest part that has changed.
LEMMA MixedTime ==
  ASSUME NEW c \in [Part -> Nat], NEW r \in [Part -> Nat], NEW d \in [Part -> Nat],
         NEW m \in [Part -> Nat], NEW k \in 1..5,
         NotAfter(c, r), NotAfter(r, d),
         \A p \in Part : m[p] = IF p < k THEN r[p] ELSE c[p]
  PROVE  /\ NotAfter(m, d)
         /\ \A p \in Part : Agree(c, d, p) => Agree(m, c, p) /\ m[p] >= c[p]
<1> DEFINE c1 == c[1]  c2 == c[2]  c3 == c[3]  c4 == c[4]
           r1 == r[1]  r2 == r[2]  r3 == r[3]  r4 == r[4]
           d1 == d[1]  d2 == d[2]  d3 == d[3]  d4 == d[4]
           m1 == m[1]  m2 == m[2]  m3 == m[3]  m4 == m[4]
<1>1. /\ c1 \in Nat /\ c2 \in Nat /\ c3 \in Nat /\ c4 \in Nat
      /\ r1 \in Nat /\ r2 \in Nat /\ r3 \in Nat /\ r4 \in Nat
      /\ d1 \in Nat /\ d2 \in Nat /\ d3 \in Nat /\ d4 \in Nat
  BY DEF Part
<1>2. /\ m1 = IF 1 < k THEN r1 ELSE c1
      /\ m2 = IF 2 < k THEN r2 ELSE c2
      /\ m3 = IF 3 < k THEN r3 ELSE c3
      /\ m4 = IF 4 < k THEN r4 ELSE c4
  BY DEF Part
<1>3. /\ \/ c4 < r4
         \/ c4 = r4 /\ c3 < r3
         \/ c4 = r4 /\ c3 = r3 /\ c2 < r2
         \/ c4 = r4 /\ c3 = r3 /\ c2 = r2 /\ c1 <= r1
      /\ \/ r4 < d4
         \/ r4 = d4 /\ r3 < d3
         \/ r4 = d4 /\ r3 = d3 /\ r2 < d2
         \/ r4 = d4 /\ r3 = d3 /\ r2 = d2 /\ r1 <= d1
  BY PartByPart
<1>4. NotAfter(m, d) <=>
         \/ m4 < d4
         \/ m4 = d4 /\ m3 < d3
         \/ m4 = d4 /\ m3 = d3 /\ m2 < d2
         \/ m4 = d4 /\ m3 = d3 /\ m2 = d2 /\ m1 <= d1
  BY PartByPart
<1>5. /\ Agree(c, d, 3) => c4 = d4
      /\ Agree(c, d, 2) => c4 = d4 /\ c3 = d3
      /\ Agree(c, d, 1) => c4 = d4 /\ c3 = d3 /\ c2 = d2
  BY DEF Agree, Part
<1>6. /\ Agree(m, c, 4)
      /\ m4 = c4 => Agree(m, c, 3)
      /\ m4 = c4 /\ m3 = c3 => Agree(m, c, 2)
      /\ m4 = c4 /\ m3 = c3 /\ m2 = c2 => Agree(m, c, 1)
  BY DEF Agree, Part
<1>7. (\A p \in Part : Agree(c, d, p) => Agree(m, c, p) /\ m[p] >= c[p]) <=>
        /\ Agree(c, d, 1) => Agree(m, c, 1) /\ m1 >= c1
        /\ Agree(c, d, 2) => Agree(m, c, 2) /\ m2 >= c2
        /\ Agree(c, d, 3) => Agree(m, c, 3) /\ m3 >= c3
        /\ Agree(c, d, 4) => Agree(m, c, 4) /\ m4 >= c4
  BY DEF Part
<1> HIDE DEF c1, c2, c3, c4, r1, r2, r3, r4, d1, d2, d3, d4, m1, m2, m3, m4
<1>8. NotAfter(m, d)
  BY <1>1, <1>2, <1>3, <1>4
<1>9. /\ c4 = d4 => m4 = c4 /\ m3 >= c3
      /\ c4 = d4 /\ c3 = d3 => m3 = c3 /\ m2 >= c2
      /\ c4 = d4 /\ c3 = d3 /\ c2 = d2 => m2 = c2 /\ m1 >= c1
      /\ m4 >= c4
  BY <1>1, <1>2, <1>3
<1> QED
  BY <1>5, <1>6, <1>7, <1>8, <1>9

\* The calendar does not go back.
LEMMA CalendarGoesOn ==
  ASSUME NEW t \in Times, NEW u \in Times, t <= u
  PROVE  NotAfter(Calendar[t], Calendar[u])
<1>1. t \in Nat /\ u \in Nat /\ (t < u \/ t = u)
  BY TimesAssumption
<1>2. t < u => Before(Calendar[t], Calendar[u])
  BY CalendarAssumption
<1> QED
  BY <1>1, <1>2 DEF NotAfter

\* What the invariant says of TimeValue is ShownLags.
LEMMA ShownIsPast == TypeOK /\ Shown => ShownLags
<1> SUFFICES ASSUME TypeOK, Shown, valid.shown, due # Unknown
             PROVE  /\ NotAfter(TimeValue, Calendar[due])
                    /\ \A p \in Part : Agree(Calendar[copied], Calendar[due], p) =>
                         Agree(TimeValue, Calendar[copied], p) /\ TimeValue[p] >= Calendar[copied][p]
  BY DEF ShownLags
<1>1. /\ copied <= due /\ copied \in Times /\ due \in Times /\ Times \subseteq Nat
      /\ part["rtc"] \in Part /\ TimeValue \in [Part -> Field]
  BY TimesAssumption DEF Shown, ShownCopied, TypeOK, Low
<1>2. \E r \in Times, k \in 1..5 :
        /\ copied <= r /\ r <= due
        /\ \A p \in Part : TimeValue[p] = IF p < k THEN Calendar[r][p] ELSE Calendar[copied][p]
  <2>1. CASE at["rtc"] = "copy" /\ part["rtc"] > 1
    <3>1. valid.register
      BY <2>1 DEF Shown, ShownCopied
    <3>2. PICK r \in Times : Time_Register = Registers(r) /\ r <= due /\ copied <= r
      BY <2>1, <3>1 DEF Shown, ReadingOfChip
    <3>3. \A p \in Part : p < part["rtc"] => TimeValue[p] = Calendar[r][p]
      BY <2>1, <3>1, <3>2, RegistersType DEF Shown, ShownCopied
    <3>4. \A p \in Part : p >= part["rtc"] => TimeValue[p] = Calendar[copied][p]
      BY <2>1 DEF Shown, ShownCopied
    <3>5. part["rtc"] \in 1..5 /\ \A p \in Part : p < part["rtc"] \/ p >= part["rtc"]
      BY <1>1 DEF Part
    <3> QED
      BY <3>2, <3>3, <3>4, <3>5
  <2>2. CASE ~(at["rtc"] = "copy" /\ part["rtc"] > 1)
    <3>1. \A p \in Part : at["rtc"] = "copy" => p >= part["rtc"]
      BY <1>1, <2>2 DEF Part
    <3>2. \A p \in Part : TimeValue[p] = Calendar[copied][p]
      BY <3>1 DEF Shown, ShownCopied
    <3>3. copied <= copied
      BY <1>1
    <3> QED
      BY <1>1, <3>2, <3>3
  <2> QED
    BY <2>1, <2>2
<1>3. PICK r \in Times, k \in 1..5 :
        /\ copied <= r /\ r <= due
        /\ \A p \in Part : TimeValue[p] = IF p < k THEN Calendar[r][p] ELSE Calendar[copied][p]
  BY <1>2
<1>4. /\ Calendar[copied] \in [Part -> Nat] /\ Calendar[r] \in [Part -> Nat]
      /\ Calendar[due] \in [Part -> Nat]
  BY <1>1, CalendarAssumption
<1>5. TimeValue \in [Part -> Nat]
  BY <1>1, <1>3, <1>4
<1>6. NotAfter(Calendar[copied], Calendar[r]) /\ NotAfter(Calendar[r], Calendar[due])
  BY <1>1, <1>3, CalendarGoesOn
<1> QED
  BY <1>3, <1>4, <1>5, <1>6, MixedTime

\* Between any two assignments of rtc, what is shown is not ahead of the chip, and
\* not behind the last reading in a part that no higher one's change excuses.
THEOREM TimeShownLags == Spec => []ShownLags
<1>1. Init => Inv
  BY InitInv
<1>2. Inv /\ [Next]_vars => Inv'
  BY TypeStep, KeptStep, ShownStep DEF Inv, Kept
<1>3. Inv => ShownLags
  BY ShownIsPast DEF Inv
<1> QED
  BY <1>1, <1>2, <1>3, PTL DEF Spec

-----------------------------------------------------------------------------
(* The time shown comes back *)

\* The steps rtc takes at most from a place, at a part of the time, until it has
\* copied a reading.
StepsFrom(place, p) ==
  IF place = "copy" THEN 5 - p
  ELSE IF place = "sending" THEN 17 - p
  ELSE IF place = "store" THEN 26 - 2 * p
  ELSE IF place = "load" THEN 27 - 2 * p
  ELSE IF place = "assign" THEN 25 + p
  ELSE [start |-> 33, check |-> 32, pointCheck |-> 31, checking |-> 30, send |-> 17,
        mark |-> 12, marking |-> 11, recheck |-> 10, pointRecheck |-> 9, rechecking |-> 8,
        read |-> 7, pointRead |-> 6, reading |-> 5][place]

\* Those of tshell until set_time ends.
ShellLeft == IF at["tshell"] = "idle" THEN 0
             ELSE StepsFrom(at["tshell"], part["tshell"]) - 10

SetPlaces == {"assign", "load", "store", "send", "sending", "mark", "marking"}
Rounds    == {"read", "pointRead", "reading", "copy"}
RtcPlaces == {"start", "check", "pointCheck", "checking"} \cup SetPlaces
             \cup {"recheck", "pointRecheck", "rechecking"} \cup Rounds

\* Where they can be; when rtc has begun a transaction the chip is in none that a
\* reset left it in.
PlaceInv ==
  /\ at["rtc"] \in RtcPlaces
  /\ at["tshell"] \in SetPlaces \cup {"idle"}
  /\ at["rtc"] \notin {"start", "check"} => held = "no"

\* What rtc has got of this reading is the chip's time.
Fresh ==
  \/ at["rtc"] = "read"
  \/ at["rtc"] = "pointRead" /\ ~missed["rtc"]
  \/ at["rtc"] = "reading" /\ ~missed["rtc"] /\ Time_Register = chip
  \/ /\ at["rtc"] = "copy" /\ Time_Register = chip
     /\ \A p \in Part : p < part["rtc"] => TimeValue[p] = Decode(p, chip[p])

Shows == Fresh /\ TimeValue = Decoded(chip)

\* rtc's steps until TimeValue shows the chip's time: a reading that went wrong
\* costs another round.
Again == IF at["rtc"] \in {"pointRead", "reading", "copy"} /\ ~Fresh THEN 7 ELSE 0
Ahead == IF Shows THEN 0 ELSE StepsFrom(at["rtc"], part["rtc"]) + Again

\* Each step of rtc brings the chip's time nearer to TimeValue or leaves it there,
\* and each step of set_time its end, after which rtc goes on.
ClockGoesOn ==
  /\ Ahead \in 0..33 /\ ShellLeft \in 0..19
  /\ Rtc => /\ at["tshell"] = "idle" /\ at'["tshell"] = "idle"
            /\ \/ Ahead' < Ahead
               \/ Shows /\ Shows'
  /\ Setting("tshell") => ShellLeft' < ShellLeft

\* The numbers.
LEMMA StepsAre ==
  \A p \in Part :
    /\ StepsFrom("start", p) = 33 /\ StepsFrom("check", p) = 32
    /\ StepsFrom("pointCheck", p) = 31 /\ StepsFrom("checking", p) = 30
    /\ StepsFrom("assign", p) = 25 + p
    /\ StepsFrom("load", p) = 27 - 2 * p /\ StepsFrom("store", p) = 26 - 2 * p
    /\ StepsFrom("send", p) = 17 /\ StepsFrom("sending", p) = 17 - p
    /\ StepsFrom("mark", p) = 12 /\ StepsFrom("marking", p) = 11
    /\ StepsFrom("recheck", p) = 10 /\ StepsFrom("pointRecheck", p) = 9
    /\ StepsFrom("rechecking", p) = 8 /\ StepsFrom("read", p) = 7
    /\ StepsFrom("pointRead", p) = 6 /\ StepsFrom("reading", p) = 5
    /\ StepsFrom("copy", p) = 5 - p
BY DEF StepsFrom

\* The steps left of a thread, by where it is.
Steps(th) == StepsFrom(at[th], part[th])

\* A setting takes one place after the other.
LEMMA SettingLeads ==
  ASSUME TypeOK, NEW th \in Low, Setting(th)
  PROVE  /\ MayRun(th) /\ at[th] \in SetPlaces
         /\ at'[th] \in SetPlaces \cup {IF th = "rtc" THEN "recheck" ELSE "idle"}
         /\ \A u \in Low \ {th} : at'[u] = at[u] /\ part'[u] = part[u]
         /\ held' \in {held, "no"}
         /\ Steps(th) \in 11..29
         /\ at'[th] # "idle" => Steps(th)' \in 10..28 /\ Steps(th)' < Steps(th)
<1> DEFINE Leads(from, to, q) ==
      MayRun(th) /\ at[th] = from /\ Went(th, to, q) /\ held' \in {held, "no"}
<1>a. part[th] \in Part /\ part[th] \in 1..4 /\ 1 \in Part /\ 4 \in Part
  BY DEF TypeOK, Part
<1>b. \A p \in Part : p # 1 => p - 1 \in Part
  BY DEF Part
<1>c. \A p \in Part : p # 4 => p + 1 \in Part
  BY DEF Part
<1>1. CASE Assign(th)
  <2>1. IF part[th] = 1 THEN Leads("assign", "load", 1) ELSE Leads("assign", "assign", part[th] - 1)
    BY <1>1, AssignGoes DEF Assign
  <2> QED
    BY <2>1, <1>a, <1>b, StepsAre DEF Went, Steps, SetPlaces
<1>2. CASE Load(th)
  <2>1. Leads("load", "store", part[th])
    BY <1>2, LoadGoes DEF Load
  <2> QED
    BY <2>1, <1>a, StepsAre DEF Went, Steps, SetPlaces
<1>3. CASE Store(th)
  <2>1. IF part[th] = 4 THEN Leads("store", "send", 1) ELSE Leads("store", "load", part[th] + 1)
    BY <1>3, StoreGoes DEF Store, Stored
  <2> QED
    BY <2>1, <1>a, <1>c, StepsAre DEF Went, Steps, SetPlaces
<1>4. CASE BeginSend(th)
  <2>0. PICK lost \in BOOLEAN : Begin(th, "send", "sending", lost)
    BY <1>4, BeginIs
  <2>b. Began(th, "send", "sending", lost)
    BY <2>0, PlacesIn, BeginGoes
  <2>1. Leads("send", "sending", 1)
    BY <2>b DEF Began
  <2> QED
    BY <2>1, <1>a, StepsAre DEF Went, Steps, SetPlaces
<1>5. CASE SendPart(th)
  <2>1. IF part[th] = 4 THEN Leads("sending", "mark", 1)
                        ELSE Leads("sending", "sending", part[th] + 1)
    BY <1>5, SendGoes DEF SendPart
  <2> QED
    BY <2>1, <1>a, <1>c, StepsAre DEF Went, Steps, SetPlaces
<1>6. CASE BeginMark(th)
  <2>0. PICK lost \in BOOLEAN : Begin(th, "mark", "marking", lost)
    BY <1>6, BeginIs
  <2>b. Began(th, "mark", "marking", lost)
    BY <2>0, PlacesIn, BeginGoes
  <2>1. Leads("mark", "marking", 1)
    BY <2>b DEF Began
  <2> QED
    BY <2>1, <1>a, StepsAre DEF Went, Steps, SetPlaces
<1>7. CASE EndMark(th)
  <2>1. Leads("marking", IF th = "rtc" THEN "recheck" ELSE "idle", 1)
    BY <1>7, EndMarkGoes DEF EndMark
  <2> QED
    BY <2>1, <1>a, StepsAre DEF Went, Steps, SetPlaces
<1> QED
  BY <1>1, <1>2, <1>3, <1>4, <1>5, <1>6, <1>7 DEF Setting

\* rtc takes a step only while tshell is idle: one nearer to its first reading, or one
\* of its round.
LEMMA RtcGoes ==
  ASSUME TypeOK, Rtc
  PROVE  /\ at["tshell"] = "idle" /\ at'["tshell"] = "idle"
         /\ held' \in {held, "no"} /\ (at["rtc"] = "check" => held' = "no")
         /\ IF at["rtc"] = "start" THEN at'["rtc"] = "check" ELSE at'["rtc"] \in RtcPlaces \ {"start", "check"}
         /\ \/ /\ at["rtc"] \notin Rounds /\ at'["rtc"] \notin Rounds \ {"read"}
               /\ Steps("rtc") \in 8..33 /\ Steps("rtc")' < Steps("rtc") /\ Steps("rtc")' \in Nat
            \/ BeginRead("read", "pointRead") /\ at["rtc"] = "read" /\ at'["rtc"] = "pointRead"
            \/ Restart("pointRead", "reading") /\ at["rtc"] = "pointRead" /\ at'["rtc"] = "reading"
            \/ EndRead /\ at["rtc"] = "reading" /\ at'["rtc"] = "copy" /\ part'["rtc"] = 1
            \/ /\ Copy /\ at["rtc"] = "copy"
               /\ IF part["rtc"] = 4 THEN at'["rtc"] = "read"
                                     ELSE at'["rtc"] = "copy" /\ part'["rtc"] = part["rtc"] + 1
<1>a. /\ "rtc" \in Low /\ "tshell" \in Low \ {"rtc"}
      /\ part["rtc"] \in Part /\ 1 \in Part /\ 4 \in Part
  BY DEF TypeOK, Part, Low
<1>1. CASE Start
  <2>1. MayRun("rtc") /\ at["rtc"] = "start" /\ Went("rtc", "check", 1) /\ held' = held
    BY <1>1, PlacesIn, GotoGoes DEF Start
  <2>2. at["tshell"] = "idle" /\ at'["tshell"] = "idle" /\ at'["rtc"] = "check" /\ part'["rtc"] = 1
    BY <2>1, <1>a DEF Went, MayRun
  <2> QED
    BY <2>1, <2>2, <1>a, StepsAre DEF Steps, Rounds, RtcPlaces
<1>2. ASSUME NEW from \in {"check", "recheck", "read"}, NEW to \in Pointing, BeginRead(from, to)
      PROVE  /\ at["tshell"] = "idle" /\ at'["tshell"] = "idle" /\ held' = "no"
             /\ at["rtc"] = from /\ at'["rtc"] = to /\ part'["rtc"] = 1
  <2>0. Pointing \subseteq Places
    BY DEF Pointing, Places, Writing
  <2>1. PICK lost \in BOOLEAN : Begin("rtc", from, to, lost)
    BY <1>2, BeginIs
  <2>2. Began("rtc", from, to, lost)
    BY <1>a, <2>0, <2>1, BeginGoes
  <2> QED
    BY <1>a, <2>2 DEF Began, Went, MayRun
<1>3. ASSUME NEW from, NEW to \in Reading, Restart(from, to)
      PROVE  /\ at["tshell"] = "idle" /\ at'["tshell"] = "idle" /\ held' = held
             /\ at["rtc"] = from /\ at'["rtc"] = to /\ part'["rtc"] = 1
  <2>1. to \in Places
    BY DEF Places
  <2> QED
    BY <1>3, <1>a, <2>1, RestartGoes DEF Went, MayRun
<1>4. CASE BeginRead("check", "pointCheck") \/ BeginRead("recheck", "pointRecheck")
           \/ BeginRead("read", "pointRead")
  BY <1>4, <1>2, <1>a, StepsAre DEF Pointing, Steps, Rounds, RtcPlaces
<1>5. CASE Restart("pointCheck", "checking") \/ Restart("pointRecheck", "rechecking")
           \/ Restart("pointRead", "reading")
  BY <1>5, <1>3, <1>a, StepsAre DEF Reading, Steps, Rounds, RtcPlaces
<1>6. CASE EndCheck
  <2>1. /\ at["tshell"] = "idle" /\ at'["tshell"] = "idle" /\ held' = held
        /\ \/ at["rtc"] = "checking" /\ at'["rtc"] = "recheck" /\ part'["rtc"] = 1
           \/ at["rtc"] = "checking" /\ at'["rtc"] = "assign" /\ part'["rtc"] = 4
           \/ at["rtc"] = "rechecking" /\ at'["rtc"] = "read" /\ part'["rtc"] = 1
    BY <1>6, <1>a, EndCheckGoes DEF EndCheck, Went, MayRun
  <2> QED
    BY <2>1, <1>a, StepsAre DEF Steps, Rounds, RtcPlaces, SetPlaces
<1>7. CASE Setting("rtc")
  BY <1>7, <1>a, SettingLeads DEF MayRun, Rounds, RtcPlaces, SetPlaces
<1>8. CASE EndRead
  <2>1. /\ at["tshell"] = "idle" /\ at'["tshell"] = "idle" /\ held' = held
        /\ at["rtc"] = "reading" /\ at'["rtc"] = "copy" /\ part'["rtc"] = 1
    BY <1>8, <1>a, EndReadGoes DEF EndRead, Went, MayRun
  <2> QED
    BY <1>8, <2>1 DEF Rounds, RtcPlaces
<1>9. CASE Copy
  <2>1. /\ MayRun("rtc") /\ at["rtc"] = "copy" /\ held' = held
        /\ IF part["rtc"] = 4 THEN Went("rtc", "read", 1) ELSE Went("rtc", "copy", part["rtc"] + 1)
    BY <1>9, CopyGoes DEF Copy, CopyPart
  <2>2. /\ at["tshell"] = "idle" /\ at'["tshell"] = "idle"
        /\ IF part["rtc"] = 4 THEN at'["rtc"] = "read"
                              ELSE at'["rtc"] = "copy" /\ part'["rtc"] = part["rtc"] + 1
    BY <2>1, <1>a DEF Went, MayRun
  <2> QED
    BY <1>9, <2>1, <2>2 DEF Rounds, RtcPlaces
<1> QED
  BY <1>1, <1>4, <1>5, <1>6, <1>7, <1>8, <1>9 DEF Rtc

\* Every step keeps the threads in their places.
LEMMA PlaceStep == TypeOK /\ PlaceInv /\ [Next]_vars => PlaceInv'
<1> SUFFICES ASSUME TypeOK, PlaceInv, [Next]_vars PROVE PlaceInv'
  OBVIOUS
<1>a. "rtc" \in Low \ {"tshell"} /\ "tshell" \in Low \ {"rtc"} /\ SetTimes \subseteq Times
  BY TimesAssumption DEF Low
<1>1. CASE Tick \/ UNCHANGED vars
  BY <1>1 DEF Tick, vars, PlaceInv
<1>2. CASE Rtc
  BY <1>2, RtcGoes DEF PlaceInv, RtcPlaces
<1>3. CASE Setting("tshell")
  BY <1>3, <1>a, SettingLeads DEF PlaceInv
<1>4. CASE \E t \in SetTimes : SetTime(t)
  <2>1. at'["tshell"] = "assign" /\ at'["rtc"] = at["rtc"] /\ held' = held
    BY <1>4, <1>a, SetTimeGoes DEF SetTime, Went
  <2> QED
    BY <2>1 DEF PlaceInv, SetPlaces
<1>5. CASE \E t \in SetTimes : TimeSync(t)
  <2>1. at' = at /\ held' \in {held, "no"}
    BY <1>5 DEF TimeSync
  <2> QED
    BY <2>1 DEF PlaceInv
<1>6. CASE Reset
  <2>1. at'["tshell"] = "idle" /\ at'["rtc"] = "start"
    BY <1>6 DEF Reset
  <2> QED
    BY <2>1 DEF PlaceInv, RtcPlaces
<1> QED
  BY <1>1, <1>2, <1>3, <1>4, <1>5, <1>6 DEF Next

\* A reading that begins while tshell is idle is heard by the chip.
LEMMA ReadIsHeard ==
  ASSUME TypeOK, PlaceInv, at["tshell"] = "idle", at["rtc"] = "read", BeginRead("read", "pointRead")
  PROVE  ~missed'["rtc"] /\ chip' = chip /\ TimeValue' = TimeValue
<1>1. Followed("rtc") = {}
  BY DEF Followed, OnBus, Reading, Writing, Pointing, Low
<1>2. ~MayBeLost("rtc") /\ BusReady
  BY <1>1 DEF MayBeLost, BusReady, PlaceInv
<1>3. Begin("rtc", "read", "pointRead", FALSE)
  <2>1. PICK lost \in BOOLEAN : Begin("rtc", "read", "pointRead", lost)
    BY DEF BeginRead
  <2>2. lost \in IF ~BusReady THEN {TRUE} ELSE IF MayBeLost("rtc") THEN BOOLEAN ELSE {FALSE}
    BY <2>1 DEF Begin
  <2>3. lost = FALSE
    BY <1>2, <2>2
  <2> QED
    BY <2>1, <2>3
<1>4. Began("rtc", "read", "pointRead", FALSE)
  BY <1>3, PlacesIn, BeginGoes
<1> QED
  BY <1>4 DEF Began

\* What rtc's step makes of the reading: inside a round it copies what is fresh,
\* and a new round is fresh.
LEMMA RtcReads ==
  ASSUME TypeOK, PlaceInv, Rtc, at["rtc"] \in Rounds
  PROVE  /\ Fresh => Fresh' /\ (Shows => Shows')
         /\ at["rtc"] = "copy" /\ part["rtc"] = 4 => Fresh' /\ (Fresh => Shows')
<1>a. TimeValue \in [Part -> Field] /\ part["rtc"] \in Part /\ at["tshell"] = "idle"
  BY RtcGoes DEF TypeOK, Low
<1>1. CASE BeginRead("read", "pointRead") /\ at["rtc"] = "read" /\ at'["rtc"] = "pointRead"
  BY <1>1, <1>a, ReadIsHeard DEF Fresh, Shows
<1>2. CASE Restart("pointRead", "reading") /\ at["rtc"] = "pointRead" /\ at'["rtc"] = "reading"
  <2>1. /\ UNCHANGED <<chip, TimeValue>> /\ (missed'["rtc"] => missed["rtc"])
        /\ ~missed["rtc"] => Time_Register' = chip
    BY <1>2, PlacesIn, RestartGoes
  <2> QED
    BY <1>2, <2>1 DEF Fresh, Shows
<1>3. CASE EndRead /\ at["rtc"] = "reading" /\ at'["rtc"] = "copy" /\ part'["rtc"] = 1
  <2>1. UNCHANGED <<chip, TimeValue>> /\ (~missed["rtc"] => Time_Register' = Time_Register)
    BY <1>3 DEF EndRead
  <2>2. \A p \in Part : ~(p < 1)
    BY DEF Part
  <2> QED
    BY <1>3, <2>1, <2>2 DEF Fresh, Shows
<1>4. CASE Copy /\ at["rtc"] = "copy"
  <2> DEFINE k == part["rtc"]
  <2>1. /\ TimeValue' = [TimeValue EXCEPT ![k] = Decode(k, Time_Register[k])]
        /\ chip' = chip
    BY <1>4, CopyGoes DEF Copy, CopyPart
  <2>2. /\ TimeValue'[k] = Decode(k, Time_Register[k])
        /\ \A p \in Part : p # k => TimeValue'[p] = TimeValue[p]
    BY <2>1, <1>a
  <2>3. Fresh => /\ Time_Register = chip
                 /\ \A p \in Part : p <= k => TimeValue'[p] = Decode(p, chip[p])
    <3>1. \A p \in Part : p <= k => p < k \/ p = k
      BY <1>a DEF Part
    <3>2. \A p \in Part : p < k => p # k
      BY <1>a DEF Part
    <3> QED
      BY <1>4, <2>2, <3>1, <3>2 DEF Fresh
  <2>4. Shows => TimeValue' = TimeValue
    <3> SUFFICES ASSUME Shows PROVE TimeValue' = TimeValue
      OBVIOUS
    <3>1. Time_Register = chip /\ TimeValue = Decoded(chip)
      BY <1>4 DEF Shows, Fresh
    <3>2. Decode(k, Time_Register[k]) = TimeValue[k]
      BY <3>1, <1>a DEF Decoded
    <3> QED
      BY <2>1, <3>2, <1>a
  <2>5. CASE k = 4
    <3>1. at'["rtc"] = "read" /\ Fresh'
      BY <1>4, <2>5, RtcGoes, CopyGoes DEF Fresh, Went
    <3>2. Fresh => Shows'
      <4> SUFFICES ASSUME Fresh PROVE TimeValue' = Decoded(chip)
        BY <3>1, <2>1 DEF Shows
      <4>1. \A p \in Part : TimeValue'[p] = Decode(p, chip[p])
        BY <2>3, <2>5 DEF Part
      <4>2. TimeValue' = [p \in Part |-> TimeValue'[p]]
        BY <2>1, <1>a
      <4> QED
        BY <4>1, <4>2 DEF Decoded
    <3> QED
      BY <3>1, <3>2 DEF Shows
  <2>6. CASE k # 4
    <3>1. /\ at'["rtc"] = "copy" /\ part'["rtc"] = k + 1 /\ Time_Register' = Time_Register
      BY <1>4, <2>6, CopyGoes DEF Went
    <3>2. \A p \in Part : p < k + 1 => p <= k
      BY <1>a DEF Part
    <3>3. Fresh => Fresh'
      BY <2>1, <2>3, <3>1, <3>2 DEF Fresh
    <3> QED
      BY <2>1, <2>4, <2>6, <3>3 DEF Shows
  <2> QED
    BY <2>5, <2>6
<1> QED
  BY <1>1, <1>2, <1>3, <1>4, RtcGoes DEF Rounds

\* The measures are numbers.
LEMMA AheadIn ==
  ASSUME TypeOK, PlaceInv
  PROVE  /\ Ahead \in 0..33 /\ ShellLeft \in 0..19
         /\ ~Shows => Ahead = Steps("rtc") + Again
         /\ Shows => Ahead = 0
         /\ at["rtc"] \in RtcPlaces => Steps("rtc") \in 1..33
         /\ at["tshell"] # "idle" => ShellLeft = Steps("tshell") - 10
<1>a. part["rtc"] \in Part /\ part["tshell"] \in Part
  BY DEF TypeOK, Low
<1>b. \A p \in Part : p \in 1..4
  BY DEF Part
<1>1. at["rtc"] \in RtcPlaces => Steps("rtc") \in 1..33
  BY <1>a, <1>b, StepsAre DEF Steps, RtcPlaces, SetPlaces, Rounds
<1>2. at["rtc"] \in Rounds => Steps("rtc") \in 1..7
  BY <1>a, <1>b, StepsAre DEF Steps, Rounds
<1>3. Again = 0 \/ (Again = 7 /\ at["rtc"] \in Rounds)
  BY DEF Again, Rounds
<1>4. at["tshell"] \in SetPlaces => Steps("tshell") \in 11..29
  BY <1>a, <1>b, StepsAre DEF Steps, SetPlaces
<1>5. ShellLeft = IF at["tshell"] = "idle" THEN 0 ELSE Steps("tshell") - 10
  BY DEF ShellLeft, Steps
<1>6. ShellLeft \in 0..19
  BY <1>4, <1>5 DEF PlaceInv
<1>7. /\ ~Shows => Ahead = Steps("rtc") + Again
      /\ Shows => Ahead = 0
  BY DEF Ahead, Steps
<1>8. Steps("rtc") + Again \in 0..33
  BY <1>1, <1>2, <1>3 DEF PlaceInv
<1> QED
  BY <1>1, <1>5, <1>6, <1>7, <1>8

\* Every step does as said.
LEMMA GoesOnStep == TypeOK /\ TypeOK' /\ PlaceInv /\ [Next]_vars => [ClockGoesOn]_vars
<1> SUFFICES ASSUME TypeOK, TypeOK', PlaceInv, Next PROVE ClockGoesOn
  OBVIOUS
<1>1. PlaceInv'
  BY PlaceStep
<1>2. /\ Ahead \in 0..33 /\ ShellLeft \in 0..19 /\ (Shows => Ahead = 0)
      /\ ~Shows => Ahead = Steps("rtc") + Again
      /\ Steps("rtc") \in 1..33
  BY AheadIn DEF PlaceInv
<1>3. /\ Shows' => Ahead' = 0
      /\ ~Shows' => Ahead' = Steps("rtc")' + Again'
  BY DEF Ahead, Steps
<1>4. ASSUME Rtc
      PROVE  at["tshell"] = "idle" /\ at'["tshell"] = "idle" /\ (Ahead' < Ahead \/ (Shows /\ Shows'))
  <2>1. at["tshell"] = "idle" /\ at'["tshell"] = "idle"
    BY <1>4, RtcGoes
  <2>2. CASE at["rtc"] \in Rounds
    <3>a. part["rtc"] \in Part /\ part'["rtc"] \in Part /\ part["rtc"] \in 1..4
      BY DEF TypeOK, Low, Part
    <3>1. /\ Fresh => Fresh' /\ (Shows => Shows')
          /\ at["rtc"] = "copy" /\ part["rtc"] = 4 => Fresh' /\ (Fresh => Shows')
      BY <1>4, <2>2, RtcReads
    <3>2. (Fresh => Again = 0) /\ (~Fresh => Again = 7)
      BY <2>2 DEF Again, Fresh, Rounds
    <3>3. at'["rtc"] \in Rounds
      BY <1>4, <2>2, RtcGoes DEF Rounds
    <3>4. (Fresh' => Again' = 0) /\ (~Fresh' => Again' = 7)
      BY <3>3 DEF Again, Fresh, Rounds
    <3>5. /\ Steps("rtc") \in 1..7 /\ Steps("rtc")' \in 1..7
          /\ \/ Steps("rtc")' = Steps("rtc") - 1
             \/ /\ at["rtc"] = "copy" /\ part["rtc"] = 4
                /\ Steps("rtc") = 1 /\ Steps("rtc")' = 7
      <4>1. \/ at["rtc"] = "read" /\ at'["rtc"] = "pointRead"
            \/ at["rtc"] = "pointRead" /\ at'["rtc"] = "reading"
            \/ at["rtc"] = "reading" /\ at'["rtc"] = "copy" /\ part'["rtc"] = 1
            \/ /\ at["rtc"] = "copy"
               /\ IF part["rtc"] = 4 THEN at'["rtc"] = "read"
                                     ELSE at'["rtc"] = "copy" /\ part'["rtc"] = part["rtc"] + 1
        BY <1>4, <2>2, RtcGoes
      <4> QED
        BY <4>1, <3>a, StepsAre DEF Steps
    <3>6. CASE Shows
      BY <2>1, <3>1, <3>6 DEF Shows
    <3>7. CASE ~Shows
      BY <1>2, <1>3, <2>1, <3>1, <3>2, <3>4, <3>5, <3>7
    <3> QED
      BY <3>6, <3>7
  <2>3. CASE at["rtc"] \notin Rounds
    <3>1. /\ at'["rtc"] \notin Rounds \ {"read"}
          /\ Steps("rtc") \in 8..33 /\ Steps("rtc")' < Steps("rtc") /\ Steps("rtc")' \in Nat
      BY <1>4, <2>3, RtcGoes DEF Rounds
    <3>2. ~Shows /\ Again = 0
      BY <2>3 DEF Shows, Fresh, Again, Rounds
    <3>3. Again' = 0
      BY <3>1 DEF Again, Rounds
    <3> QED
      BY <1>2, <1>3, <2>1, <3>1, <3>2, <3>3
  <2> QED
    BY <2>2, <2>3
<1>5. ASSUME Setting("tshell") PROVE ShellLeft' < ShellLeft
  <2>1. /\ at["tshell"] \in SetPlaces /\ at'["tshell"] \in SetPlaces \cup {"idle"}
        /\ Steps("tshell") \in 11..29
        /\ at'["tshell"] # "idle" => /\ Steps("tshell")' \in 10..28
                                     /\ Steps("tshell")' < Steps("tshell")
    BY <1>5, SettingLeads DEF Low
  <2>2. ShellLeft = Steps("tshell") - 10
    BY <2>1 DEF ShellLeft, Steps, SetPlaces
  <2>3. ShellLeft' = IF at'["tshell"] = "idle" THEN 0 ELSE Steps("tshell")' - 10
    BY DEF ShellLeft, Steps
  <2> QED
    BY <2>1, <2>2, <2>3
<1> QED
  BY <1>2, <1>4, <1>5 DEF ClockGoesOn

\* Once nothing sets the time and tshell is done, at most 33 steps of rtc put the
\* chip's time into TimeValue, and its further steps keep it there, whatever was
\* cut off before (rtc_thread.c, DS1307_ReadWrite_Time): the safety part of
\* TimeRecovers.
THEOREM TimeComesBack == Spec => [][ClockGoesOn]_vars
<1>1. Init => PlaceInv
  BY DEF Init, PlaceInv, RtcPlaces
<1> QED
  BY <1>1, TypeCorrect, PlaceStep, GoesOnStep, PTL DEF Spec
=============================================================================
