-------------------------- MODULE UserCheck_proofs --------------------------
(***************************************************************************)
(* Proofs of the safety invariants of UserCheck, for every number of       *)
(* users, cards, records the server may add and packets.                   *)
(***************************************************************************)
EXTENDS UserCheck, FiniteSetTheorems, TLAPS

\* Until the card is verified, ptr is an entry that had the card presented.
PtrInv ==
  pc \in {"deref", "get", "verifyCrc", "verifyCard"} =>
    ptr \in 1..ListLen /\ (reloaded \/ list[ptr].card_id = key)

\* A record with a right CRC is in its own slot and not deleted; the in/out
\* state is that of the user's last pass.
FileInv ==
  \A u \in UserId :
    /\ file[u].crc => file[u].user_id = u /\ granted[u].user_id # 0
    /\ last[u] # NoReader => file[u].inside = (last[u] = "CARD_OUT")

\* Who was deleted when the event came still is.
GoneInv == \A u \in gone : granted[u].user_id = 0

\* The same of the record user_check has fetched, until it stores the new state.
RecInv ==
  rec.crc =>
    /\ rec.user_id \in UserId
    /\ rec.user_id \notin gone
    /\ pc \in {"verifyCrc", "verifyCard", "decide", "saveOpen", "saveClose"} =>
         (last[rec.user_id] # NoReader =>
            rec.inside = (last[rec.user_id] = "CARD_OUT"))

\* What has been checked stays so until the event is done with.
CheckInv ==
  /\ pc = "recv" => rec = ZeroUser
  /\ pc \in {"deref", "get"} => ~rec.crc
  /\ pc = "verifyCard" => rec.crc
  /\ pc = "decide" => \/ rec = ZeroUser
                      \/ rec.crc /\ (reloaded \/ rec.card_id = key)
  /\ Admitted => rec.crc /\ (reloaded \/ rec.card_id = key)
  /\ pc \in {"saveOpen", "saveClose"} =>
       DirectionRight(rec, recved) /\ \E e \in Passes : recved = {e}

\* What is in the buffered slot is what was loaded, or the server's since.
BufInv ==
  pc = "saveClose" =>
    /\ file[rec.user_id] \in {buf.self, granted[rec.user_id]}
    /\ buf.self.crc => buf.self.user_id = rec.user_id

IInv == /\ TypeOK /\ DoorUnlockedOnlyInPulse
        /\ PtrInv /\ FileInv /\ GoneInv /\ RecInv /\ CheckInv /\ BufInv

-----------------------------------------------------------------------------
(* The operators *)

\* A zeroed record is a record with a wrong CRC.
LEMMA ZeroUserType ==
  /\ ZeroUser \in User
  /\ ~ZeroUser.crc /\ ZeroUser.user_id = 0 /\ ZeroUser.rank = "none"
  /\ ~ZeroUser.effective
BY SizeAssumption DEF ZeroUser, User, NoLimit

\* Writing the state keeps the record, sets its state and compares its CRC.
LEMMA StateWrittenIs ==
  ASSUME NEW r \in User, NEW saved \in User, NEW ev
  PROVE  /\ StateWritten(r, saved, ev) \in User
         /\ StateWritten(r, saved, ev).user_id = r.user_id
         /\ StateWritten(r, saved, ev).inside = (ev = {"CARD_OUT"})
         /\ StateWritten(r, saved, ev).crc => saved.crc /\ saved.user_id = r.user_id
         /\ saved = r => StateWritten(r, saved, ev).crc = r.crc
<1> DEFINE c == saved.crc /\ Head(saved) = Head(r)
           in == ev = {"CARD_OUT"}
<1>1. c \in BOOLEAN /\ in \in BOOLEAN
  BY Zenon DEF c, in
<1>2. c => saved.crc /\ saved.user_id = r.user_id
  BY DEF c, Head
<1>3. saved = r => c = r.crc
  BY DEF c, User
<1>4. StateWritten(r, saved, ev) = [r EXCEPT !.inside = in, !.crc = c]
  BY Zenon DEF StateWritten, c, in
<1>5. in = (ev = {"CARD_OUT"})
  BY Zenon DEF in
<1> HIDE DEF c, in
<1>6. QED
  BY <1>1, <1>2, <1>3, <1>4, <1>5 DEF User

\* Reverting a head keeps the state, and a right CRC only for the same user.
LEMMA HeadRevertedIs ==
  ASSUME NEW r \in User, NEW saved \in User
  PROVE  /\ HeadReverted(r, saved) \in User
         /\ HeadReverted(r, saved).inside = r.inside
         /\ HeadReverted(r, saved).crc =>
              r.crc /\ HeadReverted(r, saved).user_id = r.user_id
<1> DEFINE c == r.crc /\ Head(saved) = Head(r)
<1>1. c \in BOOLEAN
  BY Zenon DEF c
<1>2. c => r.crc /\ saved.user_id = r.user_id
  BY DEF c, Head
<1>3. HeadReverted(r, saved) = [saved EXCEPT !.inside = r.inside, !.crc = c]
  BY Zenon DEF HeadReverted, c
<1> HIDE DEF c
<1>4. QED
  BY <1>1, <1>2, <1>3 DEF User

\* Neither writes a right CRC over a head that is not the one read.
LEMMA StateWrittenHead ==
  ASSUME NEW r \in User, NEW saved \in User, NEW ev, StateWritten(r, saved, ev).crc
  PROVE  /\ Head(StateWritten(r, saved, ev)) = Head(r)
         /\ saved.crc /\ Head(saved) = Head(r)
<1> DEFINE c == saved.crc /\ Head(saved) = Head(r)
           in == ev = {"CARD_OUT"}
<1>1. c \in BOOLEAN
  BY Zenon DEF c
<1>2. StateWritten(r, saved, ev) = [r EXCEPT !.inside = in, !.crc = c]
  BY Zenon DEF StateWritten, c, in
<1>3. c => saved.crc /\ Head(saved) = Head(r)
  BY Zenon DEF c
<1> HIDE DEF c, in
<1>4. StateWritten(r, saved, ev).crc = c
  BY <1>2 DEF User
<1>5. Head(StateWritten(r, saved, ev)) = Head(r)
  BY <1>2 DEF User, Head
<1>6. QED
  BY <1>3, <1>4, <1>5

\* The same of the record behind.
LEMMA HeadRevertedHead ==
  ASSUME NEW r \in User, NEW saved \in User, HeadReverted(r, saved).crc
  PROVE  Head(HeadReverted(r, saved)) = Head(r) /\ r.crc
<1> DEFINE c == r.crc /\ Head(saved) = Head(r)
<1>1. HeadReverted(r, saved) = [saved EXCEPT !.inside = r.inside, !.crc = c]
  BY Zenon DEF HeadReverted, c
<1>2. c => r.crc /\ Head(saved) = Head(r)
  BY Zenon DEF c
<1> HIDE DEF c
<1>3. HeadReverted(r, saved).crc = c
  BY <1>1 DEF User
<1>4. Head(HeadReverted(r, saved)) = Head(saved)
  BY <1>1 DEF User, Head
<1>5. QED
  BY <1>2, <1>3, <1>4

\* card_array_init leaves a list of entries.
LEMMA ReloadedIsList ==
  ASSUME NEW f \in FileType, NEW l \in Lists
  PROVE  Reloaded(f, l) \subseteq Lists
<1> DEFINE valid == {u \in UserId : f[u].user_id # 0}
           n == Cardinality(valid)
<1>1. n \in Nat
  <2>1. IsFiniteSet(UserId)
    BY FS_Interval, SizeAssumption DEF UserId
  <2>2. IsFiniteSet(valid)
    BY <2>1, FS_Subset, Zenon
  <2>3. QED
    BY <2>2, FS_CardinalityType
<1>2. \A o \in Overwritten(f, l) : o \in Lists
  <2> SUFFICES ASSUME NEW u \in Bijection(1..n, valid)
               PROVE  [i \in 1..ListLen |->
                         IF i <= n THEN [user_id |-> f[u[i]].user_id,
                                         card_id |-> f[u[i]].card_id]
                                   ELSE l[i]] \in Lists
    BY DEF Overwritten
  <2>1. u \in [1..n -> valid]
    BY DEF Bijection, Injection, Surjection, IsInjective
  <2>2. \A i \in 1..n : f[u[i]] \in User
    BY <2>1 DEF FileType
  <2>3. \A i \in 1..n : [user_id |-> f[u[i]].user_id, card_id |-> f[u[i]].card_id] \in Entry
    BY <2>2 DEF User, Entry
  <2> HIDE DEF n
  <2>4. \A i \in 1..ListLen : i <= n => i \in 1..n
    BY <1>1, SizeAssumption
  <2>5. QED
    BY <2>3, <2>4 DEF Lists
<1>3. \A p \in Bijection(1..ListLen, 1..ListLen) : p \in [1..ListLen -> 1..ListLen]
  BY DEF Bijection, Injection, Surjection
<1>4. QED
  <2> SUFFICES ASSUME NEW o \in Overwritten(f, l),
                      NEW p \in Bijection(1..ListLen, 1..ListLen)
               PROVE  [i \in 1..ListLen |-> o[p[i]]] \in Lists
    BY DEF Reloaded
  <2>1. o \in [1..ListLen -> Entry] /\ p \in [1..ListLen -> 1..ListLen]
    BY <1>2, <1>3 DEF Lists
  <2>2. QED
    BY <2>1 DEF Lists

-----------------------------------------------------------------------------
(* Type correctness *)

\* Locals that are cleared keep their types.
LEMMA DeadTypes ==
  ASSUME LocalsDead
  PROVE  /\ recved' = {} /\ key' = NoCard /\ keyAt' = NoReader
         /\ ptr' = 0 /\ rec' = ZeroUser /\ rec' \in User
         /\ buf'.self \in User /\ buf'.next \in User
BY ZeroUserType DEF LocalsDead, NoBuf

\* What the attendance record does and does not change.
LEMMA AttendIs ==
  ASSUME Attend
  PROVE  /\ pc \in {"record", "attCheck", "attWrite", "noted"}
         /\ pc' \in {"recv", "attCheck", "attWrite", "noted"}
         /\ \/ Restart
            \/ pc' # "recv" /\ UNCHANGED checkVars
            \/ pc' # "recv" /\ LocalsDead
         /\ UNCHANGED <<fileVars, readVars, list, events, shell, door, packets, reloaded>>
         /\ crcUnit' \in {"user_check", "other", crcUnit}
         /\ (attRight' = attRight \/ attRight' \in BOOLEAN)
<1>1. CASE AttOpen
  BY <1>1 DEF AttOpen
<1>2. CASE AttCheck
  BY <1>2 DEF AttCheck, Restart
<1>3. CASE AttWrite
  <2>1. attRight' \in BOOLEAN
    BY <1>3, Zenon DEF AttWrite
  <2>2. /\ pc = "attWrite" /\ pc' = "noted" /\ crcUnit' = "other"
        /\ UNCHANGED <<fileVars, readVars, checkVars, list, events, shell, door, packets,
                       reloaded>>
    BY <1>3, Zenon DEF AttWrite
  <2>3. /\ pc \in {"record", "attCheck", "attWrite", "noted"}
        /\ pc' \in {"recv", "attCheck", "attWrite", "noted"} /\ pc' # "recv"
        /\ crcUnit' \in {"user_check", "other"}
    BY <2>2
  <2>4. QED
    BY <2>1, <2>2, <2>3, Zenon
<1>4. CASE Noted
  BY <1>4 DEF Noted, Restart
<1>5. QED
  BY <1>1, <1>2, <1>3, <1>4 DEF Attend

\* Every step of user_check keeps the types.
LEMMA CheckTypes == TypeOK /\ PtrInv /\ CheckInv /\ RecInv /\ Check => TypeOK'
<1> SUFFICES ASSUME TypeOK, PtrInv, CheckInv, RecInv, Check PROVE TypeOK'
  OBVIOUS
<1> USE SizeAssumption
<1>1. CASE Recv
  <2>1. events' = {} /\ gone' \subseteq UserId
    BY <1>1 DEF Recv, Cleared
  <2>2. /\ file' \in FileType /\ granted' \in FileType /\ list' \in Lists
        /\ last' \in [UserId -> Passes \cup {NoReader}]
    BY <1>1 DEF Recv, TypeOK
  <2>3. /\ g_read_card_id' \in Cards \cup {NoCard}
        /\ reading' \in Passes \cup {NoReader} /\ readAt' \in Passes \cup {NoReader}
        /\ shell' \in BOOLEAN /\ reloaded' \in BOOLEAN
        /\ door' \in {"locked", "unlocked"}
        /\ crcUnit' \in {"user_check", "other"} /\ attRight' \in BOOLEAN
        /\ packets' \in 0..MaxPackets
    BY <1>1 DEF Recv, TypeOK, readVars
  <2>4. /\ pc' \in {"recv", "deref", "decide"}
        /\ recved' \subseteq Events
        /\ key' \in Cards \cup {NoCard} /\ keyAt' \in Passes \cup {NoReader}
        /\ ptr' \in 0..ListLen
        /\ rec' \in User /\ buf'.self \in User /\ buf'.next \in User
    <3>1. CASE Restart
      BY <3>1, DeadTypes DEF Restart, NoCard
    <3>2. CASE ptr' \in Found(g_read_card_id) /\ recved' = events /\ key' = g_read_card_id
               /\ keyAt' = readAt /\ pc' = "deref" /\ UNCHANGED <<rec, buf>>
      BY <3>2 DEF TypeOK, Found
    <3>3. CASE recved' = events /\ pc' = "decide" /\ UNCHANGED <<key, keyAt, ptr, rec, buf>>
      BY <3>3 DEF TypeOK
    <3>4. QED
      BY <1>1, <3>1, <3>2, <3>3 DEF Recv
  <2>5. QED
    BY <2>1, <2>2, <2>3, <2>4 DEF TypeOK
<1>2. CASE Deref
  <2>1. list[ptr].user_id \in 0..MaxUserId
    BY <1>2 DEF Deref, TypeOK, PtrInv, Lists, Entry
  <2>2. rec' \in User
    BY <1>2, <2>1 DEF Deref, TypeOK, User
  <2>3. QED
    BY <1>2, <2>2 DEF Deref, TypeOK, fileVars, readVars
<1>3. CASE Get
  <2>1. rec' \in User
    BY <1>3 DEF Get, TypeOK, FileType
  <2>2. QED
    BY <1>3, <2>1 DEF Get, TypeOK, fileVars, readVars
<1>4. CASE VerifyCrc
  <2>1. CASE Restart
    BY <1>4, <2>1, DeadTypes DEF VerifyCrc, Restart, TypeOK, fileVars, readVars, NoCard
  <2>2. CASE ~Restart
    BY <1>4, <2>2 DEF VerifyCrc, TypeOK, fileVars, readVars, checkVars
  <2>3. QED
    BY <2>1, <2>2
<1>5. CASE VerifyCard
  <2>1. CASE Restart
    BY <1>5, <2>1, DeadTypes DEF VerifyCard, Restart, TypeOK, fileVars, readVars, NoCard
  <2>2. CASE ~Restart
    BY <1>5, <2>2 DEF VerifyCard, TypeOK, fileVars, readVars, checkVars
  <2>3. QED
    BY <2>1, <2>2
<1>6. ASSUME NEW t \in Time, Decide(t) PROVE TypeOK'
  <2>1. CASE Restart
    BY <1>6, <2>1, DeadTypes DEF Decide, Restart, TypeOK, fileVars, readVars, NoCard
  <2>2. CASE ~Restart
    BY <1>6, <2>2 DEF Decide, TypeOK, fileVars, readVars, checkVars
  <2>3. QED
    BY <2>1, <2>2
<1>7. CASE SaveOpen
  <2>1. rec.user_id \in UserId
    BY <1>7 DEF SaveOpen, CheckInv, RecInv, Admitted
  <2>2. buf'.self \in User /\ buf'.next \in User
    BY <1>7, <2>1, ZeroUserType DEF SaveOpen, TypeOK, FileType
  <2>3. QED
    BY <1>7, <2>2 DEF SaveOpen, TypeOK, fileVars, readVars
<1>8. CASE SaveClose
  <2>1. \A v \in UserId : file'[v] \in User
    BY <1>8, StateWrittenIs, HeadRevertedIs DEF SaveClose, TypeOK, FileType
  <2>2. file' \in FileType
    BY <1>8, <2>1 DEF SaveClose, FileType
  <2>3. (CHOOSE e \in Passes : recved = {e}) \in Passes
    BY <1>8 DEF SaveClose, CheckInv
  <2>4. last' \in [UserId -> Passes \cup {NoReader}]
    BY <1>8, <2>3 DEF SaveClose, TypeOK
  <2>5. QED
    BY <1>8, <2>2, <2>4, ZeroUserType DEF SaveClose, TypeOK, readVars, NoBuf
<1>9. CASE OpenDoor \/ SaveFails
  BY <1>9 DEF OpenDoor, SaveFails, TypeOK, fileVars, readVars, checkVars
<1>10. CASE Relock
  BY <1>10 DEF Relock, TypeOK, fileVars, readVars, checkVars
<1>11. CASE Attend
  <2>1. /\ UNCHANGED <<fileVars, readVars, list, events, shell, door, packets, reloaded>>
        /\ crcUnit' \in {"user_check", "other"} /\ attRight' \in BOOLEAN
        /\ pc' \in {"recv", "attCheck", "attWrite", "noted"}
    BY <1>11, AttendIs DEF TypeOK
  <2>2. /\ recved' \subseteq Events
        /\ key' \in Cards \cup {NoCard} /\ keyAt' \in Passes \cup {NoReader}
        /\ ptr' \in 0..ListLen
        /\ rec' \in User /\ buf'.self \in User /\ buf'.next \in User
    <3>1. CASE LocalsDead
      BY <3>1, DeadTypes DEF NoCard
    <3>2. CASE UNCHANGED checkVars
      BY <3>2 DEF TypeOK, checkVars
    <3>3. QED
      BY <1>11, <3>1, <3>2, AttendIs DEF Restart
  <2>3. QED
    BY <2>1, <2>2 DEF TypeOK, fileVars, readVars
<1>12. QED
  BY <1>1, <1>2, <1>3, <1>4, <1>5, <1>6, <1>7, <1>8, <1>9, <1>10, <1>11 DEF Check

\* So does every step of the other threads.
LEMMA OtherTypes == TypeOK /\ (Wifi \/ InfoSend \/ Readers \/ Shell) => TypeOK'
<1> SUFFICES ASSUME TypeOK, Wifi \/ InfoSend \/ Readers \/ Shell PROVE TypeOK'
  OBVIOUS
<1> USE SizeAssumption, SentAssumption
<1>1. ASSUME NEW u \in UserId, NEW r \in User, StoreRecord(u, r), LinkCrc,
             gone' \subseteq gone, UNCHANGED <<list, reloaded>>
      PROVE  TypeOK'
  <2>1. file' \in FileType /\ granted' \in FileType
    BY <1>1 DEF StoreRecord, TypeOK, FileType
  <2>2. last' \in [UserId -> Passes \cup {NoReader}]
    BY <1>1 DEF StoreRecord, TypeOK
  <2>3. QED
    BY <1>1, <2>1, <2>2 DEF LinkCrc, TypeOK, readVars, checkVars
<1>2. ASSUME NEW r \in Added, UserAdd(r) PROVE TypeOK'
  <2>1. r \in User /\ r.user_id \in UserId
    BY AddedAssumption DEF User, UserId
  <2>2. QED
    BY <1>1, <1>2, <2>1 DEF UserAdd
<1>3. ASSUME NEW u \in UserId, UserDel(u) PROVE TypeOK'
  BY <1>1, <1>3, ZeroUserType DEF UserDel
<1>4. CASE ListReload
  <2>1. list' \in Lists
    BY <1>4, ReloadedIsList DEF ListReload, TypeOK
  <2>2. QED
    BY <1>4, <2>1 DEF ListReload, LinkCrc, TypeOK, fileVars, readVars, checkVars
<1>5. CASE OtherPacket \/ InfoSend
  BY <1>5 DEF OtherPacket, InfoSend, LinkCrc, TypeOK, fileVars, readVars, checkVars
<1>6. CASE Readers
  <2>1. ASSUME NEW e \in Passes, NEW c \in Cards, RcRead(e, c) PROVE TypeOK'
    BY <2>1 DEF RcRead, TypeOK, fileVars, checkVars
  <2>2. CASE RcSend
    <3>1. reading \in Events
      BY <2>2 DEF RcSend, TypeOK, Events
    <3>2. QED
      BY <2>2, <3>1 DEF RcSend, SendEvent, TypeOK, fileVars, checkVars
  <2>3. CASE RcSkip
    BY <2>3 DEF RcSkip, TypeOK, fileVars, checkVars
  <2>4. QED
    BY <1>6, <2>1, <2>2, <2>3 DEF Readers
<1>7. CASE Shell
  <2>1. ASSUME NEW e \in Passes, NEW c \in Cards, SendCard(e, c) PROVE TypeOK'
    <3>1. e \in Events
      BY DEF Events
    <3>2. events' \subseteq Events /\ readAt' \in Passes \cup {NoReader}
      BY <2>1, <3>1 DEF SendCard, SendEvent, TypeOK
    <3>3. QED
      BY <2>1, <3>2 DEF SendCard, TypeOK, fileVars, checkVars
  <2>2. ASSUME NEW e \in Events, FingerEvent(e) PROVE TypeOK'
    <3>1. events' \subseteq Events
      BY <2>2 DEF FingerEvent, SendEvent, TypeOK
    <3>2. QED
      BY <2>2, <3>1 DEF FingerEvent, TypeOK, fileVars, readVars, checkVars
  <2>3. CASE ShellOpen
    BY <2>3 DEF ShellOpen, TypeOK, fileVars, readVars, checkVars
  <2>4. CASE ShellRelock
    <3>1. shell' \in BOOLEAN /\ door' \in {"locked", "unlocked"}
      BY <2>4 DEF ShellRelock
    <3>2. UNCHANGED <<fileVars, readVars, checkVars, list, events, pc, crcUnit, attRight,
                      packets, reloaded>>
      BY <2>4 DEF ShellRelock
    <3>3. QED
      BY <3>1, <3>2 DEF TypeOK, fileVars, readVars, checkVars
  <2>5. CASE WipeAtt
    BY <2>5 DEF WipeAtt, TypeOK, fileVars, readVars, checkVars
  <2>6. QED
    BY <1>7, <2>1, <2>2, <2>3, <2>4, <2>5 DEF Shell
<1>8. QED
  BY <1>2, <1>3, <1>4, <1>5, <1>6, <1>7 DEF Wifi

-----------------------------------------------------------------------------
(* The inductive invariant *)

LEMMA InitIInv == Init => IInv
<1> SUFFICES ASSUME Init PROVE IInv
  OBVIOUS
<1> USE SizeAssumption, FileAssumption, ZeroUserType DEF Init
<1>1. [i \in 1..ListLen |-> [user_id |-> 0, card_id |-> 0]] \in Lists
  BY DEF Lists, Entry
<1>2. list \in Lists
  BY <1>1, ReloadedIsList
<1>3. last \in [UserId -> Passes \cup {NoReader}]
  OBVIOUS
<1>4. TypeOK
  <2>1. /\ rec \in User /\ buf.self \in User /\ buf.next \in User
        /\ ptr \in 0..ListLen /\ packets \in 0..MaxPackets
    BY DEF NoBuf
  <2>2. /\ file \in FileType /\ granted \in FileType
        /\ events \subseteq Events /\ recved \subseteq Events /\ gone \subseteq UserId
    OBVIOUS
  <2>3. QED
    BY <1>2, <1>3, <2>1, <2>2 DEF TypeOK
<1>5. FileInv
  <2>1. \A u \in UserId : u # 0
    BY DEF UserId
  <2>2. QED
    BY <2>1 DEF FileInv, NoReader
<1>6. QED
  BY <1>4, <1>5 DEF IInv, DoorUnlockedOnlyInPulse, PtrInv, GoneInv, RecInv, CheckInv,
                    BufInv, Admitted

\* A step that changes neither the file nor what user_check knows keeps all that
\* is said of them.
LEMMA Framed ==
  ASSUME IInv, UNCHANGED <<fileVars, checkVars, list, pc, reloaded>>
  PROVE  PtrInv' /\ FileInv' /\ GoneInv' /\ RecInv' /\ CheckInv' /\ BufInv'
BY DEF IInv, fileVars, checkVars, PtrInv, FileInv, GoneInv, RecInv, CheckInv, BufInv,
       Admitted, DirectionRight

\* Back at rt_event_recv, only the file and the history matter.
LEMMA Restarted ==
  ASSUME IInv, Restart, UNCHANGED <<file, granted, last>>, GoneInv'
  PROVE  PtrInv' /\ FileInv' /\ RecInv' /\ CheckInv' /\ BufInv'
<1>1. pc' = "recv" /\ rec' = ZeroUser
  BY DEF Restart, LocalsDead
<1>2. ~rec'.crc
  BY <1>1, ZeroUserType
<1>3. QED
  BY <1>1, <1>2 DEF IInv, PtrInv, FileInv, RecInv, CheckInv, BufInv, Admitted

\* Taking the events.
LEMMA RecvKeeps ==
  ASSUME IInv, Recv
  PROVE  PtrInv' /\ FileInv' /\ GoneInv' /\ RecInv' /\ CheckInv' /\ BufInv'
<1>1. GoneInv'
  BY DEF Recv, GoneInv
<1>2. CASE Restart
  BY <1>1, <1>2, Restarted DEF Recv
<1>3. CASE /\ ptr' \in Found(g_read_card_id) /\ key' = g_read_card_id
           /\ pc' = "deref" /\ UNCHANGED <<rec, buf>>
  <2>1. ~rec'.crc
    BY <1>3, ZeroUserType DEF Recv, IInv, CheckInv
  <2>2. PtrInv'
    BY <1>3 DEF Recv, PtrInv, Found
  <2>3. QED
    BY <1>1, <1>3, <2>1, <2>2 DEF Recv, IInv, FileInv, RecInv, CheckInv, BufInv, Admitted
<1>4. CASE pc' = "decide" /\ UNCHANGED <<rec, buf>>
  <2>1. rec' = ZeroUser /\ ~rec'.crc
    BY <1>4, ZeroUserType DEF Recv, IInv, CheckInv
  <2>2. QED
    BY <1>1, <1>4, <2>1 DEF Recv, IInv, PtrInv, FileInv, RecInv, CheckInv, BufInv, Admitted
<1>5. QED
  BY <1>2, <1>3, <1>4 DEF Recv

\* Fetching the record.
LEMMA FetchKeeps ==
  ASSUME IInv, Deref \/ Get
  PROVE  PtrInv' /\ FileInv' /\ GoneInv' /\ RecInv' /\ CheckInv' /\ BufInv'
<1>1. CASE Deref
  <2>1. ~rec'.crc
    BY <1>1 DEF Deref, IInv, CheckInv, TypeOK, User
  <2>2. QED
    BY <1>1, <2>1 DEF Deref, fileVars, IInv, PtrInv, FileInv, GoneInv, RecInv, CheckInv,
                      BufInv, Admitted
<1>2. CASE Get
  <2>1. CASE rec.user_id \in UserId
    <3>1. rec' = file[rec.user_id]
      BY <1>2, <2>1 DEF Get
    <3>2. RecInv'
      BY <1>2, <2>1, <3>1 DEF Get, fileVars, IInv, FileInv, GoneInv, RecInv
    <3>3. QED
      BY <1>2, <3>2 DEF Get, fileVars, IInv, PtrInv, FileInv, GoneInv, CheckInv, BufInv,
                        Admitted
  <2>2. CASE rec.user_id \notin UserId
    <3>1. ~rec'.crc
      BY <1>2, <2>2 DEF Get, IInv, CheckInv
    <3>2. QED
      BY <1>2, <3>1 DEF Get, fileVars, IInv, PtrInv, FileInv, GoneInv, RecInv, CheckInv,
                        BufInv, Admitted
  <2>3. QED
    BY <2>1, <2>2
<1>3. QED
  BY <1>1, <1>2

\* Checking it.
LEMMA VerifyKeeps ==
  ASSUME IInv, VerifyCrc \/ VerifyCard \/ \E t \in Time : Decide(t)
  PROVE  PtrInv' /\ FileInv' /\ GoneInv' /\ RecInv' /\ CheckInv' /\ BufInv'
<1> USE DEF fileVars, checkVars
<1>1. UNCHANGED <<file, granted, gone, last, list, reloaded>> /\ GoneInv'
  BY DEF VerifyCrc, VerifyCard, Decide, IInv, GoneInv
<1>2. CASE Restart
  BY <1>1, <1>2, Restarted
<1>3. CASE ~Restart /\ VerifyCrc
  BY <1>1, <1>3 DEF VerifyCrc, IInv, PtrInv, FileInv, RecInv, CheckInv, BufInv, Admitted
<1>4. CASE ~Restart /\ VerifyCard
  BY <1>1, <1>4 DEF VerifyCard, IInv, PtrInv, FileInv, RecInv, CheckInv, BufInv, Admitted
<1>5. ASSUME NEW t \in Time, Decide(t), ~Restart
      PROVE  PtrInv' /\ FileInv' /\ RecInv' /\ CheckInv' /\ BufInv'
  <2>1. rec # ZeroUser
    BY <1>5, ZeroUserType DEF Decide, Authorised
  <2>2. rec.crc /\ (reloaded \/ rec.card_id = key) /\ UNCHANGED <<rec, key, recved>>
    BY <1>5, <2>1 DEF Decide, IInv, CheckInv
  <2>3. pc' \in {"door", "record"} \/ (pc' = "saveOpen" /\ DirectionRight(rec, recved)
                                       /\ \E e \in Passes : recved = {e})
    BY <1>5 DEF Decide
  <2>4. CheckInv'
    BY <1>1, <2>2, <2>3 DEF CheckInv, Admitted, DirectionRight
  <2>5. RecInv'
    BY <1>1, <1>5, <2>2, <2>3 DEF Decide, IInv, RecInv
  <2>6. QED
    BY <1>1, <2>3, <2>4, <2>5 DEF IInv, PtrInv, FileInv, BufInv
<1>6. QED
  BY <1>1, <1>2, <1>3, <1>4, <1>5

\* Loading the sector or failing to, opening the door, and the record that ends it.
LEMMA DoorKeeps ==
  ASSUME IInv, SaveOpen \/ SaveFails \/ OpenDoor \/ Relock \/ Attend
  PROVE  PtrInv' /\ FileInv' /\ GoneInv' /\ RecInv' /\ CheckInv' /\ BufInv'
<1> USE DEF fileVars, checkVars
<1>1. UNCHANGED <<file, granted, gone, last, list, reloaded>> /\ GoneInv'
  BY AttendIs DEF SaveOpen, SaveFails, OpenDoor, Relock, IInv, GoneInv
<1>2. CASE SaveOpen
  <2>1. rec.user_id \in UserId
    BY <1>2 DEF SaveOpen, IInv, CheckInv, RecInv, Admitted
  <2>2. BufInv'
    BY <1>1, <1>2, <2>1 DEF SaveOpen, IInv, FileInv, BufInv
  <2>3. QED
    BY <1>1, <1>2, <2>2 DEF SaveOpen, IInv, PtrInv, FileInv, RecInv, CheckInv, Admitted,
                            DirectionRight
<1>3. CASE SaveFails \/ OpenDoor \/ Relock
  BY <1>1, <1>3 DEF SaveFails, OpenDoor, Relock, IInv, PtrInv, FileInv, RecInv, CheckInv,
                    BufInv, Admitted
<1>4. CASE Attend
  <2>1. CASE Restart
    BY <1>1, <2>1, Restarted
  <2>2. CASE pc' \in {"attCheck", "attWrite", "noted"} /\ UNCHANGED checkVars
    BY <1>1, <2>2 DEF IInv, PtrInv, FileInv, RecInv, CheckInv, BufInv, Admitted
  <2>3. CASE pc' \in {"attCheck", "attWrite", "noted"} /\ LocalsDead
    <3>1. ~rec'.crc
      BY <2>3, DeadTypes, ZeroUserType
    <3>2. QED
      BY <1>1, <2>3, <3>1 DEF IInv, PtrInv, FileInv, RecInv, CheckInv, BufInv, Admitted
  <2>4. QED
    BY <1>4, <2>1, <2>2, <2>3, AttendIs
<1>5. QED
  BY <1>2, <1>3, <1>4

\* Writing the sector out.
LEMMA SaveKeeps ==
  ASSUME IInv, SaveClose
  PROVE  PtrInv' /\ FileInv' /\ GoneInv' /\ RecInv' /\ CheckInv' /\ BufInv'
<1> DEFINE u == rec.user_id
<1>1. u \in UserId /\ rec.crc
  BY DEF SaveClose, IInv, CheckInv, RecInv, Admitted
<1>2. PICK e \in Passes : recved = {e}
  BY DEF SaveClose, IInv, CheckInv
<1>3. \A v \in UserId : last'[v] = IF v = u THEN e ELSE last[v]
  BY <1>2 DEF SaveClose, IInv, TypeOK
<1>4. \A v \in UserId : file[v] \in User
  BY DEF IInv, TypeOK, FileType
<1>5. (recved = {"CARD_OUT"}) = (e = "CARD_OUT")
  BY <1>2
<1>6. /\ file'[u].crc => file'[u].user_id = u /\ granted[u].user_id # 0
      /\ file'[u].inside = (e = "CARD_OUT")
  <2> DEFINE new == StateWritten(file[u], buf.self, recved)
  <2>1. file'[u] = new
    <3>1. \A v \in UserId :
            file'[v] = CASE v = u     -> StateWritten(file[v], buf.self, recved)
                         [] v = u + 1 -> HeadReverted(file[v], buf.next)
                         [] OTHER     -> file[v]
      BY DEF SaveClose
    <3>2. u # u + 1
      BY <1>1, SizeAssumption DEF UserId
    <3> HIDE DEF u
    <3>3. QED
      BY <1>1, <3>1, <3>2
  <2>2. /\ new.user_id = file[u].user_id
        /\ new.inside = (recved = {"CARD_OUT"})
        /\ new.crc => buf.self.crc /\ buf.self.user_id = file[u].user_id
        /\ buf.self = file[u] => new.crc = file[u].crc
    <3>1. file[u] \in User /\ buf.self \in User
      BY <1>1, <1>4 DEF IInv, TypeOK
    <3>2. QED
      BY <3>1, StateWrittenIs
  <2>3. /\ file[u] = buf.self \/ file[u] = granted[u]
        /\ buf.self.crc => buf.self.user_id = u
    BY DEF SaveClose, IInv, BufInv
  <2>4. u # 0
    BY <1>1, SizeAssumption DEF UserId
  <2>5. file[u].crc => file[u].user_id = u /\ granted[u].user_id # 0
    BY <1>1 DEF IInv, FileInv
  <2> HIDE DEF new, u
  <2>6. QED
    BY <1>5, <2>1, <2>2, <2>3, <2>4, <2>5
<1>7. ASSUME NEW v \in UserId, v # u
      PROVE  /\ file'[v].crc => file'[v].user_id = v /\ granted[v].user_id # 0
             /\ file'[v].inside = file[v].inside
  <2>1. file[v].crc => file[v].user_id = v /\ granted[v].user_id # 0
    BY DEF IInv, FileInv
  <2>2. CASE v = u + 1
    <3>1. file'[v] = HeadReverted(file[v], buf.next)
      BY <1>7, <2>2 DEF SaveClose
    <3>2. buf.next \in User
      BY DEF IInv, TypeOK
    <3>3. QED
      BY <1>4, <2>1, <3>1, <3>2, HeadRevertedIs
  <2>3. CASE v # u + 1
    BY <1>7, <2>1, <2>3 DEF SaveClose
  <2>4. QED
    BY <2>2, <2>3
<1>8. granted' = granted /\ gone' = gone /\ rec' = rec /\ pc' = "door"
      /\ UNCHANGED <<reloaded, key>>
  BY DEF SaveClose
<1> HIDE DEF u
<1>9. FileInv'
  <2> SUFFICES ASSUME NEW v \in UserId
               PROVE  /\ file'[v].crc => file'[v].user_id = v /\ granted[v].user_id # 0
                      /\ last'[v] # NoReader => file'[v].inside = (last'[v] = "CARD_OUT")
    BY <1>8 DEF FileInv
  <2>1. CASE v = u
    BY <1>3, <1>6, <2>1
  <2>2. CASE v # u
    BY <1>3, <1>7, <2>2 DEF IInv, FileInv
  <2>3. QED
    BY <2>1, <2>2
<1>10. QED
  BY <1>1, <1>8, <1>9 DEF SaveClose, IInv, PtrInv, GoneInv, RecInv, CheckInv, BufInv, Admitted

\* The server's commands on the file.
LEMMA StoreKeeps ==
  ASSUME IInv, NEW u \in UserId, NEW r \in User, StoreRecord(u, r), LinkCrc,
         r.crc => r.user_id = u,
         r.crc => r.user_id # 0,
         gone' \subseteq gone,
         r.user_id # 0 => u \notin gone',
         UNCHANGED <<list, reloaded>>
  PROVE  PtrInv' /\ FileInv' /\ GoneInv' /\ RecInv' /\ CheckInv' /\ BufInv'
<1>1. UNCHANGED <<checkVars, pc, list, reloaded>>
  BY DEF LinkCrc
<1>2. \A v \in UserId : /\ file'[v] = IF v = u THEN r ELSE file[v]
                        /\ granted'[v] = IF v = u THEN r ELSE granted[v]
                        /\ last'[v] = IF v = u THEN NoReader ELSE last[v]
  BY DEF StoreRecord, IInv, TypeOK, FileType
<1>3. FileInv'
  BY <1>2 DEF IInv, FileInv
<1>4. GoneInv'
  BY <1>2 DEF IInv, TypeOK, GoneInv
<1>5. RecInv'
  BY <1>1, <1>2 DEF IInv, RecInv, checkVars
<1>6. BufInv'
  <2> SUFFICES ASSUME pc = "saveClose" PROVE BufInv'
    BY <1>1 DEF BufInv
  <2>1. rec.user_id \in UserId
    BY DEF IInv, CheckInv, RecInv, Admitted
  <2>2. QED
    BY <1>1, <1>2, <2>1 DEF IInv, BufInv, checkVars
<1>7. QED
  BY <1>1, <1>3, <1>4, <1>5, <1>6 DEF IInv, PtrInv, CheckInv, checkVars, Admitted,
                                      DirectionRight

LEMMA WifiKeeps ==
  ASSUME IInv, Wifi \/ InfoSend
  PROVE  PtrInv' /\ FileInv' /\ GoneInv' /\ RecInv' /\ CheckInv' /\ BufInv'
<1>1. ASSUME NEW r \in Added, UserAdd(r)
      PROVE  PtrInv' /\ FileInv' /\ GoneInv' /\ RecInv' /\ CheckInv' /\ BufInv'
  <2>1. r \in User /\ r.user_id # 0 /\ r.user_id \in UserId
    BY AddedAssumption, SizeAssumption DEF User, UserId
  <2>2. StoreRecord(r.user_id, r) /\ LinkCrc /\ gone' = gone \ {r.user_id}
        /\ UNCHANGED <<list, reloaded>>
    BY <1>1 DEF UserAdd
  <2>3. gone' \subseteq gone /\ r.user_id \notin gone'
    BY <2>2
  <2>4. QED
    BY <2>1, <2>2, <2>3, StoreKeeps
<1>2. ASSUME NEW u \in UserId, UserDel(u)
      PROVE  PtrInv' /\ FileInv' /\ GoneInv' /\ RecInv' /\ CheckInv' /\ BufInv'
  BY <1>2, ZeroUserType, StoreKeeps DEF UserDel
<1>3. CASE ListReload
  BY <1>3 DEF ListReload, LinkCrc, fileVars, checkVars, IInv, PtrInv, FileInv, GoneInv,
              RecInv, CheckInv, BufInv, Admitted, DirectionRight
<1>4. CASE OtherPacket \/ InfoSend
  BY <1>4, Framed DEF OtherPacket, InfoSend, LinkCrc
<1>5. QED
  BY <1>1, <1>2, <1>3, <1>4 DEF Wifi

\* Only the two pulses of open_door unlock the door.
LEMMA DoorStep == IInv /\ Next => DoorUnlockedOnlyInPulse'
<1> SUFFICES ASSUME IInv, Next PROVE DoorUnlockedOnlyInPulse'
  OBVIOUS
<1> USE DEF IInv, DoorUnlockedOnlyInPulse
<1>1. CASE Recv \/ Deref \/ Get \/ SaveOpen \/ SaveClose \/ SaveFails \/ OpenDoor \/ Relock
  BY <1>1 DEF Recv, Deref, Get, SaveOpen, SaveClose, SaveFails, OpenDoor, Relock
<1>2. CASE VerifyCrc \/ VerifyCard \/ Attend \/ \E t \in Time : Decide(t)
  BY <1>2, AttendIs DEF VerifyCrc, VerifyCard, Decide, Restart
<1>3. CASE Wifi \/ InfoSend
  BY <1>3 DEF InfoSend, Wifi, UserAdd, UserDel, ListReload, OtherPacket, LinkCrc
<1>4. CASE Readers \/ Shell
  BY <1>4 DEF Readers, RcRead, RcSend, RcSkip, Shell, SendCard, FingerEvent, ShellOpen,
              ShellRelock, WipeAtt
<1>5. QED
  BY <1>1, <1>2, <1>3, <1>4 DEF Next, Check

LEMMA NextIInv == IInv /\ [Next]_vars => IInv'
<1> SUFFICES ASSUME IInv, [Next]_vars PROVE IInv'
  OBVIOUS
<1>1. CASE Check
  <2>1. TypeOK' /\ DoorUnlockedOnlyInPulse'
    BY <1>1, CheckTypes, DoorStep DEF IInv, Next
  <2>2. QED
    BY <1>1, <2>1, RecvKeeps, FetchKeeps, VerifyKeeps, DoorKeeps, SaveKeeps DEF Check, IInv
<1>2. CASE Wifi \/ InfoSend
  <2>1. TypeOK' /\ DoorUnlockedOnlyInPulse'
    BY <1>2, OtherTypes, DoorStep DEF IInv, Next
  <2>2. QED
    BY <1>2, <2>1, WifiKeeps DEF IInv
<1>3. CASE Readers \/ Shell
  <2>1. TypeOK' /\ DoorUnlockedOnlyInPulse'
    BY <1>3, OtherTypes, DoorStep DEF IInv, Next
  <2>2. UNCHANGED <<fileVars, checkVars, list, pc, reloaded>>
    BY <1>3 DEF Readers, RcRead, RcSend, RcSkip, Shell, SendCard, FingerEvent, ShellOpen,
                ShellRelock, WipeAtt
  <2>3. QED
    BY <2>1, <2>2, Framed DEF IInv
<1>4. CASE UNCHANGED vars
  <2>1. TypeOK' /\ DoorUnlockedOnlyInPulse'
    BY <1>4 DEF IInv, TypeOK, DoorUnlockedOnlyInPulse, vars, fileVars, readVars, checkVars
  <2>2. QED
    BY <1>4, <2>1, Framed DEF IInv, vars
<1>5. QED
  BY <1>1, <1>2, <1>3, <1>4 DEF Next

LEMMA Inductive == Spec => []IInv
BY InitIInv, NextIInv, PTL DEF Spec

-----------------------------------------------------------------------------
(* The theorems *)

\* Every variable of the admission code keeps its type, whatever the server, the
\* readers and the shell do.
THEOREM TypeCorrect == Spec => []TypeOK
BY Inductive, PTL DEF IInv

\* The door is unlocked only inside a pulse of open_door.
THEOREM DoorSafe == Spec => []DoorUnlockedOnlyInPulse
BY Inductive, PTL DEF IInv

\* Unless the list was reloaded meanwhile, the door opens for the holder of the
\* card that was presented.
THEOREM HolderAdmitted == Spec => []AdmittedHoldsCard
<1>1. IInv => AdmittedHoldsCard
  BY DEF IInv, CheckInv, AdmittedHoldsCard
<1>2. QED
  BY <1>1, Inductive, PTL

\* A user deleted before the event came is not admitted, be the list stale or his
\* record half restored.
THEOREM DeletedRefused == Spec => []DeletedStaysOut
<1>1. IInv => DeletedStaysOut
  BY DEF IInv, CheckInv, RecInv, DeletedStaysOut
<1>2. QED
  BY <1>1, Inductive, PTL

\* Nobody's state lets him pass twice in the same direction.
LEMMA InvNoPassback == IInv => NoPassback
<1> SUFFICES ASSUME IInv, pc \in {"saveOpen", "saveClose"}, recved = {last[rec.user_id]}
             PROVE  FALSE
  BY DEF NoPassback
<1>1. PICK e \in Passes : recved = {e}
  BY DEF IInv, CheckInv
<1>2. last[rec.user_id] = e
  BY <1>1
<1>3. rec.crc /\ DirectionRight(rec, recved)
  BY DEF IInv, CheckInv, Admitted
<1>4. rec.inside = (e = "CARD_OUT")
  BY <1>2, <1>3 DEF IInv, RecInv, NoReader, Passes
<1>5. QED
  BY <1>1, <1>3, <1>4 DEF DirectionRight, Passes

\* Nobody passes twice in the same direction unless the server wrote his record
\* in between.
THEOREM PassbackRefused == Spec => []NoPassback
BY InvNoPassback, Inductive, PTL

-----------------------------------------------------------------------------
(* The door is opened as an Admission would open it *)

\* A record with a right CRC says what the server ordered last: what a sector
\* written back late puts over a newer order has a wrong one.
GrantInv == \A u \in UserId : file[u].crc => Head(file[u]) = Head(granted[u])

\* Whose state is being saved was let in as a member.
MemberInv == pc \in {"saveOpen", "saveClose"} => Order(rec).class = "member"

AInv == IInv /\ GrantInv /\ MemberInv

\* What the variables of Admission stand for.
Ordered == [u \in UserId |-> Order(granted[u])]

Wanted == CASE Phase = "idle" -> {}
            [] Phase # "idle" /\ reloaded  -> Cards \cup {NoCard}
            [] Phase # "idle" /\ ~reloaded -> {key}

Asked == IF Phase = "idle" THEN {} ELSE recved

Holder == IF Phase \in {"found", "open"}
            THEN [user |-> rec.user_id, order |-> Order(rec)]
            ELSE [user |-> 0, order |-> Order(ZeroUser)]

promised == <<Ordered, last, Phase, Asked, Wanted, Holder>>

\* The CRC covers all that an order consists of.
LEMMA HeadIsOrder ==
  ASSUME NEW r, NEW s, Head(r) = Head(s)
  PROVE  Order(r) = Order(s)
<1>1. /\ r.user_id = s.user_id /\ r.card_id = s.card_id /\ r.rank = s.rank
      /\ r.effective = s.effective /\ r.limit = s.limit
  BY DEF Head
<1>2. QED
  BY <1>1, Zenon DEF Order

\* What the orders are.
LEMMA OrderIs ==
  ASSUME NEW r \in User
  PROVE  /\ Order(r) \in Promise!Orders
         /\ Order(r).card = r.card_id
         /\ r.user_id = 0 => Order(r).class = "nobody"
         /\ r.user_id # 0 => Order(r).class # "nobody"
         /\ r.user_id # 0 /\ r.rank = "super" => Order(r).class = "super"
         /\ \A t \in Time : r.user_id # 0 /\ r.rank # "super" /\ Authorised(r, t)
              => Order(r).class = "member"
<1> DEFINE c == CASE r.user_id = 0 -> "nobody"
                  [] r.user_id # 0 /\ r.rank = "super" -> "super"
                  [] r.user_id # 0 /\ r.rank \in {"admin", "door"} /\ r.effective
                       /\ r.limit # 0 -> "member"
                  [] OTHER -> "guest"
<1>1. Order(r) = [card |-> r.card_id, class |-> c]
  BY Zenon DEF Order
<1>2. /\ c \in {"super", "member", "guest", "nobody"}
      /\ r.user_id = 0 => c = "nobody"
      /\ r.user_id # 0 => c # "nobody"
      /\ r.user_id # 0 /\ r.rank = "super" => c = "super"
  OBVIOUS
<1>3. ASSUME NEW t \in Time, r.user_id # 0, r.rank # "super", Authorised(r, t)
      PROVE  c = "member"
  <2>1. r.effective /\ r.rank \in {"admin", "door"}
    BY <1>3 DEF Authorised
  <2>2. r.limit # 0
    BY <1>3, SizeAssumption DEF Authorised, Time, NoLimit
  <2>3. QED
    BY <1>3, <2>1, <2>2
<1>4. r.card_id \in Cards \cup {NoCard}
  BY DEF User, NoCard
<1> HIDE DEF c
<1>5. Order(r).card = r.card_id /\ Order(r).class = c
  BY <1>1
<1>6. Order(r) \in Promise!Orders
  BY <1>1, <1>2, <1>4 DEF Promise!Orders
<1>7. QED
  BY <1>2, <1>3, <1>5, <1>6

\* The wifi thread's orders are stored in the file as they are, and what
\* user_check writes back has a right CRC only if it is the order in force.
LEMMA GrantStep == AInv /\ [Next]_vars => GrantInv'
<1> SUFFICES ASSUME AInv, [Next]_vars PROVE GrantInv'
  OBVIOUS
<1>1. ASSUME UNCHANGED <<file, granted>> PROVE GrantInv'
  BY <1>1 DEF AInv, GrantInv
<1>2. ASSUME NEW u \in UserId, NEW r, StoreRecord(u, r) PROVE GrantInv'
  <2>1. \A v \in UserId : /\ file'[v] = IF v = u THEN r ELSE file[v]
                          /\ granted'[v] = IF v = u THEN r ELSE granted[v]
    BY <1>2 DEF StoreRecord, AInv, IInv, TypeOK, FileType
  <2>2. QED
    BY <2>1 DEF AInv, GrantInv
<1>3. CASE SaveClose
  <2> DEFINE u == rec.user_id
  <2>1. u \in UserId /\ granted' = granted
    BY <1>3 DEF SaveClose, AInv, IInv, CheckInv, RecInv, Admitted
  <2>2. \A v \in UserId : file[v] \in User
    BY DEF AInv, IInv, TypeOK, FileType
  <2>3. buf.self \in User /\ buf.next \in User /\ file[u] \in {buf.self, granted[u]}
    BY <1>3 DEF SaveClose, AInv, IInv, TypeOK, BufInv
  <2>4. \A v \in UserId :
          file'[v] = CASE v = u     -> StateWritten(file[v], buf.self, recved)
                       [] v = u + 1 -> HeadReverted(file[v], buf.next)
                       [] OTHER     -> file[v]
    BY <1>3 DEF SaveClose
  <2>7. u # u + 1
    BY <2>1, SizeAssumption DEF UserId
  <2> HIDE DEF u
  <2>5. ASSUME NEW v \in UserId, file'[v].crc PROVE Head(file'[v]) = Head(granted[v])
    <3>1. file[v].crc => Head(file[v]) = Head(granted[v])
      BY DEF AInv, GrantInv
    <3>2. CASE v = u
      <4>1. file'[v] = StateWritten(file[v], buf.self, recved)
        BY <2>7, <2>4, <3>2
      <4>2. Head(file'[v]) = Head(file[v]) /\ buf.self.crc /\ Head(buf.self) = Head(file[v])
        BY <2>2, <2>3, <2>5, <4>1, StateWrittenHead
      <4>3. QED
        BY <2>3, <3>1, <3>2, <4>2
    <3>3. CASE v # u /\ v = u + 1
      <4>1. file'[v] = HeadReverted(file[v], buf.next)
        BY <2>4, <3>3
      <4>2. Head(file'[v]) = Head(file[v]) /\ file[v].crc
        BY <2>2, <2>3, <2>5, <4>1, HeadRevertedHead
      <4>3. QED
        BY <3>1, <4>2
    <3>4. CASE v # u /\ v # u + 1
      BY <2>4, <2>5, <3>1, <3>4
    <3>5. QED
      BY <3>2, <3>3, <3>4
  <2>6. QED
    BY <2>1, <2>5 DEF GrantInv
<1>4. CASE Check /\ ~SaveClose
  BY <1>1, <1>4, AttendIs DEF Check, Recv, Deref, Get, VerifyCrc, VerifyCard, Decide, SaveOpen,
                              SaveFails, OpenDoor, Relock, fileVars
<1>5. CASE Wifi \/ InfoSend
  <2>1. ASSUME NEW r \in Added, UserAdd(r) PROVE GrantInv'
    <3>1. r.user_id \in UserId
      BY AddedAssumption, SizeAssumption DEF User, UserId
    <3>2. QED
      BY <1>2, <2>1, <3>1 DEF UserAdd
  <2>2. ASSUME NEW u \in UserId, UserDel(u) PROVE GrantInv'
    BY <1>2, <2>2 DEF UserDel
  <2>3. CASE ListReload \/ OtherPacket \/ InfoSend
    BY <1>1, <2>3 DEF ListReload, OtherPacket, InfoSend, fileVars
  <2>4. QED
    BY <1>5, <2>1, <2>2, <2>3 DEF Wifi
<1>6. CASE Readers \/ Shell \/ UNCHANGED vars
  BY <1>1, <1>6 DEF Readers, RcRead, RcSend, RcSkip, Shell, SendCard, FingerEvent,
                    ShellOpen, ShellRelock, WipeAtt, fileVars, vars
<1>7. QED
  BY <1>3, <1>4, <1>5, <1>6 DEF Next

\* Only a member's state is saved.
LEMMA MemberStep == AInv /\ [Next]_vars => MemberInv'
<1> SUFFICES ASSUME AInv, [Next]_vars, pc' \in {"saveOpen", "saveClose"}
             PROVE  Order(rec').class = "member"
  BY DEF MemberInv
<1>1. CASE UNCHANGED <<pc, rec>>
  BY <1>1 DEF AInv, MemberInv
<1>2. CASE SaveOpen
  BY <1>2 DEF SaveOpen, AInv, MemberInv
<1>3. ASSUME NEW t \in Time, Decide(t) PROVE Order(rec').class = "member"
  <2>1. rec.rank # "super" /\ Authorised(rec, t) /\ rec' = rec
    BY <1>3 DEF Decide, Restart, checkVars
  <2>2. rec \in User /\ rec.user_id # 0
    <3>1. rec # ZeroUser
      BY <2>1, ZeroUserType DEF Authorised
    <3>2. QED
      BY <1>3, <3>1, SizeAssumption DEF Decide, AInv, IInv, TypeOK, CheckInv, RecInv, UserId
  <2>3. QED
    BY <2>1, <2>2, OrderIs
<1>4. CASE Recv \/ Deref \/ Get \/ VerifyCrc \/ VerifyCard \/ SaveClose \/ SaveFails
           \/ OpenDoor \/ Relock \/ Attend
  BY <1>4, AttendIs DEF Recv, Deref, Get, VerifyCrc, VerifyCard, SaveClose, SaveFails,
                        OpenDoor, Relock, Restart
<1>5. CASE Wifi \/ InfoSend
  BY <1>1, <1>5 DEF InfoSend, Wifi, UserAdd, UserDel, ListReload, OtherPacket, LinkCrc, checkVars
<1>6. CASE Readers \/ Shell \/ UNCHANGED vars
  BY <1>1, <1>6 DEF Readers, RcRead, RcSend, RcSkip, Shell, SendCard, FingerEvent,
                    ShellOpen, ShellRelock, WipeAtt, checkVars, vars
<1>7. QED
  BY <1>2, <1>3, <1>4, <1>5, <1>6 DEF Next, Check

LEMMA InductiveA == Spec => []AInv
<1>1. Init => GrantInv /\ MemberInv
  BY DEF Init, GrantInv, MemberInv
<1>2. QED
  BY <1>1, InitIInv, NextIInv, GrantStep, MemberStep, PTL DEF Spec, AInv

\* The handling of an event that goes on without a new look at the file.
LEMMA Stutters ==
  ASSUME Phase' = Phase, UNCHANGED <<granted, last>>,
         Phase # "idle" => UNCHANGED <<reloaded, key, recved>>,
         Phase \in {"found", "open"} => rec' = rec
  PROVE  UNCHANGED promised
<1>1. Ordered' = Ordered
  BY DEF Ordered
<1>2. Wanted' = Wanted
  BY DEF Wanted
<1>3. Holder' = Holder
  BY DEF Holder
<1>4. Asked' = Asked
  BY DEF Asked
<1>5. QED
  BY <1>1, <1>2, <1>3, <1>4 DEF promised

\* The end of it.
LEMMA Ends ==
  ASSUME Phase' = "idle", UNCHANGED <<granted, last>>
  PROVE  Promise!Done
<1>1. Wanted' = {} /\ Asked' = {} /\ Holder' = [user |-> 0, order |-> Order(ZeroUser)]
  BY DEF Wanted, Asked, Holder
<1>2. Ordered' = Ordered
  BY DEF Ordered
<1>3. Order(ZeroUser) = [card |-> NoCard, class |-> "nobody"]
  BY Zenon DEF Order, ZeroUser, NoCard
<1>4. QED
  BY <1>1, <1>2, <1>3 DEF Promise!Done, Promise!NoHolder, Ordered, Wanted, Asked, Holder

\* Recv asks for the card it found in g_read_card_id, unless it is in no list.
LEMMA RecvAsks ==
  ASSUME AInv, Recv
  PROVE  Promise!Next \/ UNCHANGED promised
<1>1. Phase = "idle" /\ UNCHANGED <<granted, last>> /\ ~rec.crc
  BY ZeroUserType DEF Recv, Phase, AInv, IInv, CheckInv
<1>2. CASE Restart
  BY <1>1, <1>2, Stutters DEF Restart, Phase
<1>3. CASE ~Restart
  <2>1. /\ pc' \in {"deref", "decide"} /\ rec' = rec /\ key' \in Cards \cup {NoCard}
        /\ ~reloaded' /\ recved' \subseteq Events
    BY <1>3 DEF Recv, AInv, IInv, TypeOK
  <2>2. Phase' = "asked"
    BY <1>1, <2>1 DEF Phase
  <2>3. Wanted' = {key'} /\ Asked' = recved' /\ Holder' = Holder /\ Ordered' = Ordered
    BY <1>1, <2>1, <2>2 DEF Wanted, Asked, Holder, Ordered
  <2>4. Promise!Ask
    BY <1>1, <2>1, <2>2, <2>3 DEF Promise!Ask, Promise!AnyCard, Wanted, Asked, Holder, Ordered
  <2>5. QED
    BY <2>4 DEF Promise!Next
<1>4. QED
  BY <1>2, <1>3

\* Get finds the user, when the record in the file has a right CRC.
LEMMA GetFinds ==
  ASSUME AInv, Get
  PROVE  Promise!Next \/ UNCHANGED promised
<1>1. Phase = "asked" /\ UNCHANGED <<granted, last, reloaded, key, recved>> /\ ~rec.crc
  BY DEF Get, Phase, AInv, IInv, CheckInv, fileVars
<1>2. CASE ~rec'.crc
  <2>1. Phase' = "asked"
    BY <1>2 DEF Get, Phase
  <2>2. QED
    BY <1>1, <2>1, Stutters
<1>3. CASE rec'.crc
  <2> DEFINE u == rec.user_id
  <2>1. u \in UserId /\ rec' = file[u] /\ file[u].crc
    BY <1>1, <1>3 DEF Get
  <2>2. file[u].user_id = u /\ granted[u].user_id # 0 /\ Head(file[u]) = Head(granted[u])
    BY <2>1 DEF AInv, IInv, FileInv, GrantInv
  <2>3. Order(rec') = Order(granted[u]) /\ rec'.user_id = u
    BY <2>1, <2>2, HeadIsOrder
  <2>4. Ordered[u] = Order(granted[u]) /\ Ordered[u].class # "nobody"
    <3>1. granted[u] \in User
      BY <2>1 DEF AInv, IInv, TypeOK, FileType
    <3>2. Order(granted[u]).class # "nobody"
      BY <2>2, <3>1, OrderIs
    <3>3. QED
      BY <2>1, <3>2 DEF Ordered
  <2>5. Phase' = "found"
    BY <1>3 DEF Get, Phase
  <2> HIDE DEF u
  <2>6. Holder' = [user |-> u, order |-> Ordered[u]]
    BY <2>3, <2>4, <2>5 DEF Holder
  <2>7. Wanted' = Wanted /\ Asked' = Asked /\ Ordered' = Ordered
    BY <1>1, <2>5 DEF Wanted, Asked, Ordered
  <2>8. Promise!Find(u)
    BY <1>1, <2>4, <2>5, <2>6, <2>7 DEF Promise!Find, Wanted, Asked, Holder, Ordered
  <2>9. QED
    BY <2>1, <2>8 DEF Promise!Next
<1>4. QED
  BY <1>2, <1>3

\* Who is found, is found in the file, and with the card wanted once that has
\* been compared.
LEMMA FoundIs ==
  ASSUME AInv, Phase = "found"
  PROVE  /\ rec \in User /\ rec.user_id \in UserId /\ rec.user_id # 0
         /\ Holder = [user |-> rec.user_id, order |-> Order(rec)]
         /\ pc \in {"decide", "saveOpen", "saveClose"} => rec.card_id \in Wanted
<1>1. rec.crc /\ rec \in User
  BY DEF Phase, AInv, IInv, TypeOK
<1>2. rec.user_id \in UserId /\ rec.user_id # 0
  BY <1>1, SizeAssumption DEF AInv, IInv, RecInv, UserId
<1>3. Holder = [user |-> rec.user_id, order |-> Order(rec)]
  BY DEF Holder
<1>4. ASSUME pc \in {"decide", "saveOpen", "saveClose"} PROVE rec.card_id \in Wanted
  <2>1. reloaded \/ rec.card_id = key
    BY <1>1, <1>4, ZeroUserType DEF AInv, IInv, CheckInv, Admitted
  <2>2. Wanted = IF reloaded THEN Cards \cup {NoCard} ELSE {key}
    BY DEF Wanted
  <2>3. rec.card_id \in Cards \cup {NoCard}
    BY <1>1 DEF User, NoCard
  <2>4. QED
    BY <2>1, <2>2, <2>3
<1>5. QED
  BY <1>1, <1>2, <1>3, <1>4

\* What an Open takes, for a holder who is let in.
LEMMA Opens ==
  ASSUME AInv, Phase = "found", Phase' = "open",
         pc \in {"decide", "saveOpen", "saveClose"},
         UNCHANGED <<granted, rec, recved, reloaded, key>>,
         \/ Order(rec).class = "super" /\ UNCHANGED last
         \/ /\ Order(rec).class = "member"
            /\ \E d \in Passes :
                 /\ recved = {d} /\ d # last[rec.user_id]
                 /\ last' \in {last, [last EXCEPT ![rec.user_id] = d]}
  PROVE  Promise!Next
<1>1. /\ rec \in User /\ rec.user_id \in UserId
      /\ Holder = [user |-> rec.user_id, order |-> Order(rec)]
      /\ rec.card_id \in Wanted
  BY FoundIs
<1>2. Order(rec).card \in Wanted
  BY <1>1, OrderIs
<1>3. Holder.user = rec.user_id /\ Holder.order = Order(rec)
  BY <1>1
<1>4. /\ Holder' = Holder /\ Wanted' = Wanted /\ Ordered' = Ordered
      /\ Asked = recved /\ Asked' = Asked
  BY DEF Holder, Wanted, Asked, Ordered
<1>5. \/ Holder.order.class = "super" /\ UNCHANGED last
      \/ /\ Holder.order.class = "member"
         /\ \E d \in Passes : /\ Asked = {d} /\ d # last[Holder.user]
                              /\ last' \in {last, [last EXCEPT ![Holder.user] = d]}
  BY <1>3, <1>4
<1>6. Promise!Open
  BY <1>2, <1>3, <1>4, <1>5 DEF Promise!Open, Holder, Wanted, Ordered
<1>7. QED
  BY <1>6 DEF Promise!Next

\* Checking and deciding: the event is dismissed, goes on, or opens the door for a
\* super administrator.
LEMMA DecidePromised ==
  ASSUME AInv, VerifyCrc \/ VerifyCard \/ \E t \in Time : Decide(t)
  PROVE  Promise!Next \/ UNCHANGED promised
<1>1. /\ pc \in {"verifyCrc", "verifyCard", "decide"}
      /\ UNCHANGED <<granted, last, reloaded>>
      /\ Phase \in {"asked", "found"}
  BY DEF VerifyCrc, VerifyCard, Decide, Phase, fileVars
<1>2. CASE Phase' = "idle"
  <2>1. Promise!Dismiss
    BY <1>1, <1>2, Ends DEF Promise!Dismiss
  <2>2. QED
    BY <2>1 DEF Promise!Next
<1>3. CASE Restart
  BY <1>2, <1>3 DEF Restart, Phase
<1>4. CASE UNCHANGED checkVars /\ pc' \in {"verifyCard", "decide", "saveOpen"}
  <2>1. Phase' = Phase
    BY <1>1, <1>4 DEF Phase, checkVars
  <2>2. QED
    BY <1>1, <1>4, <2>1, Stutters DEF checkVars
<1>5. CASE UNCHANGED checkVars /\ pc' = "record"
  BY <1>2, <1>5 DEF Phase
<1>6. ASSUME NEW t \in Time, Decide(t), UNCHANGED checkVars, pc' = "door"
      PROVE  Promise!Next
  <2>1. pc = "decide" /\ rec.rank = "super"
    BY <1>6 DEF Decide, Restart
  <2>2. rec.crc
    BY <2>1, ZeroUserType DEF AInv, IInv, CheckInv
  <2>3. Phase = "found" /\ Phase' = "open"
    BY <1>6, <2>1, <2>2 DEF Phase
  <2>4. Order(rec).class = "super"
    BY <2>1, <2>3, FoundIs, OrderIs
  <2>5. QED
    BY <1>1, <1>6, <2>1, <2>3, <2>4, Opens DEF checkVars
<1>7. QED
  BY <1>3, <1>4, <1>5, <1>6 DEF VerifyCrc, VerifyCard, Decide

\* Saving the state, or failing to, is the pass of a member.
LEMMA SavePromised ==
  ASSUME AInv, SaveOpen \/ SaveClose \/ SaveFails
  PROVE  Promise!Next \/ UNCHANGED promised
<1>1. rec.crc /\ Phase = "found"
  BY DEF SaveOpen, SaveClose, SaveFails, Phase, AInv, IInv, CheckInv, Admitted
<1>2. CASE SaveOpen
  <2>1. Phase' = "found" /\ UNCHANGED <<granted, last, reloaded, key, recved, rec>>
    BY <1>1, <1>2 DEF SaveOpen, Phase, fileVars
  <2>2. QED
    BY <1>1, <2>1, Stutters
<1>3. CASE SaveClose \/ SaveFails
  <2>1. /\ pc \in {"saveOpen", "saveClose"} /\ Phase' = "open"
        /\ UNCHANGED <<granted, rec, recved, reloaded, key>>
    BY <1>3 DEF SaveClose, SaveFails, Phase, fileVars, checkVars
  <2>2. PICK e \in Passes : recved = {e}
    BY <2>1 DEF AInv, IInv, CheckInv
  <2>3. (CHOOSE d \in Passes : recved = {d}) = e
    BY <2>2
  <2>4. last' \in {last, [last EXCEPT ![rec.user_id] = e]}
    BY <1>3, <2>3 DEF SaveClose, SaveFails, fileVars
  <2>5. e # last[rec.user_id]
    <3>1. NoPassback
      BY InvNoPassback DEF AInv
    <3>2. QED
      BY <2>1, <2>2, <3>1 DEF NoPassback
  <2>6. Order(rec).class = "member"
    BY <2>1 DEF AInv, MemberInv
  <2>7. QED
    BY <1>1, <2>1, <2>2, <2>4, <2>5, <2>6, Opens
<1>4. QED
  BY <1>2, <1>3

\* The pulse of open_door, and the attendance record behind it.
LEMMA DoorPromised ==
  ASSUME AInv, Deref \/ OpenDoor \/ Relock \/ Attend
  PROVE  Promise!Next \/ UNCHANGED promised
<1>1. UNCHANGED <<granted, last, reloaded>>
  BY AttendIs DEF Deref, OpenDoor, Relock, fileVars
<1>2. CASE Deref
  <2>1. ~rec.crc /\ ~rec'.crc /\ UNCHANGED <<key, recved>>
    BY <1>2 DEF Deref, AInv, IInv, CheckInv, TypeOK, User
  <2>2. Phase = "asked" /\ Phase' = "asked"
    BY <1>2, <2>1 DEF Deref, Phase
  <2>3. QED
    BY <1>1, <2>1, <2>2, Stutters
<1>3. CASE OpenDoor
  <2>1. Phase = "open" /\ Phase' = "open" /\ UNCHANGED <<rec, key, recved>>
    BY <1>3 DEF OpenDoor, Phase, checkVars
  <2>2. QED
    BY <1>1, <2>1, Stutters
<1>4. CASE Relock
  <2>1. Phase = "open" /\ Phase' = "idle"
    BY <1>4 DEF Relock, Phase
  <2>2. Promise!Close
    BY <1>1, <2>1, Ends DEF Promise!Close
  <2>3. QED
    BY <2>2 DEF Promise!Next
<1>5. CASE Attend
  <2>1. Phase = "idle" /\ Phase' = "idle"
    BY <1>5, AttendIs DEF Phase
  <2>2. QED
    BY <1>1, <2>1, Stutters
<1>6. QED
  BY <1>2, <1>3, <1>4, <1>5

\* The server's packets: an order, a new list, or nothing; a command of the boot.
LEMMA WifiPromised ==
  ASSUME AInv, Wifi \/ InfoSend
  PROVE  Promise!Next \/ UNCHANGED promised
<1>1. UNCHANGED <<pc, rec, key, recved>> /\ Phase' = Phase
  BY DEF InfoSend, Wifi, UserAdd, UserDel, ListReload, OtherPacket, LinkCrc, checkVars, Phase
<1>2. ASSUME NEW u \in UserId, NEW r \in User, StoreRecord(u, r), UNCHANGED reloaded
      PROVE  Promise!Next
  <2>1. granted' = [granted EXCEPT ![u] = r] /\ last' = [last EXCEPT ![u] = NoReader]
    BY <1>2 DEF StoreRecord
  <2>2. Wanted' = Wanted /\ Asked' = Asked /\ Holder' = Holder
    BY <1>1, <1>2 DEF Wanted, Asked, Holder
  <2>3. Ordered' = [Ordered EXCEPT ![u] = Order(r)]
    <3>1. granted \in [UserId -> User]
      BY DEF AInv, IInv, TypeOK, FileType
    <3>2. \A v \in UserId : granted'[v] = IF v = u THEN r ELSE granted[v]
      BY <2>1, <3>1
    <3>3. \A v \in UserId : Order(granted'[v]) = IF v = u THEN Order(r) ELSE Order(granted[v])
      BY <3>2
    <3>4. Ordered' = [v \in UserId |-> Order(granted'[v])]
      BY DEF Ordered
    <3>5. QED
      BY <3>3, <3>4 DEF Ordered
  <2>4. Ordered'[u] = Order(r) /\ Ordered'[u] \in Promise!Orders
    <3>1. Ordered'[u] = Order(r)
      BY <2>3 DEF Ordered
    <3>2. QED
      BY <3>1, OrderIs
  <2>5. Ordered' = [Ordered EXCEPT ![u] = Ordered'[u]]
    BY <2>3, <2>4
  <2>6. Promise!Order(u)
    BY <1>1, <2>1, <2>2, <2>4, <2>5 DEF Promise!Order, Wanted, Asked, Holder, Ordered
  <2>7. QED
    BY <2>6 DEF Promise!Next
<1>3. ASSUME NEW r \in Added, UserAdd(r) PROVE Promise!Next
  <2>1. r \in User /\ r.user_id \in UserId
    BY AddedAssumption, SizeAssumption DEF User, UserId
  <2>2. QED
    BY <1>2, <1>3, <2>1 DEF UserAdd
<1>4. ASSUME NEW u \in UserId, UserDel(u) PROVE Promise!Next
  BY <1>2, <1>4, ZeroUserType DEF UserDel
<1>5. CASE OtherPacket \/ InfoSend
  BY <1>1, <1>5, Stutters DEF OtherPacket, InfoSend, fileVars
<1>6. CASE ListReload
  <2>1. UNCHANGED <<granted, last>> /\ reloaded'
    BY <1>6 DEF ListReload, fileVars
  <2>2. CASE Phase = "idle"
    BY <1>1, <2>1, <2>2, Stutters
  <2>3. CASE Phase # "idle"
    <3>1. /\ Wanted' = Cards \cup {NoCard} /\ Asked' = Asked
          /\ Holder' = Holder /\ Ordered' = Ordered
      BY <1>1, <2>1, <2>3 DEF Wanted, Asked, Holder, Ordered
    <3>2. Promise!Relist
      BY <1>1, <2>1, <2>3, <3>1
         DEF Promise!Relist, Promise!AnyCard, Wanted, Asked, Holder, Ordered
    <3>3. QED
      BY <3>2 DEF Promise!Next
  <2>4. QED
    BY <2>2, <2>3
<1>7. QED
  BY <1>3, <1>4, <1>5, <1>6 DEF Wifi

\* user_check, preempted between any two of its steps, opens the door as an
\* Admission does: for the holder of the card, by an order of the server in force
\* since the event was taken, and not twice in the same direction.
THEOREM AdmissionKept == Spec => IsAdmission
<1>1. Init => Promise!Init
  <2> SUFFICES ASSUME Init PROVE Promise!Init
    OBVIOUS
  <2>1. Phase = "idle"
    BY DEF Init, Phase
  <2>2. Ordered \in [UserId -> Promise!Orders]
    BY FileAssumption, OrderIs DEF Init, Ordered, FileType
  <2>3. Wanted = {} /\ Asked = {} /\ Holder = [user |-> 0, order |-> Order(ZeroUser)]
    BY <2>1 DEF Wanted, Asked, Holder
  <2>4. Order(ZeroUser) = [card |-> NoCard, class |-> "nobody"]
    BY Zenon DEF Order, ZeroUser, NoCard
  <2>5. QED
    BY <2>1, <2>2, <2>3, <2>4
       DEF Init, Promise!Init, Promise!NoHolder, Ordered, Wanted, Asked, Holder
<1>2. AInv /\ [Next]_vars => [Promise!Next]_Promise!vars
  <2> SUFFICES ASSUME AInv, [Next]_vars PROVE Promise!Next \/ UNCHANGED promised
    BY DEF Promise!vars, promised, Ordered, Wanted, Asked, Holder
  <2>1. CASE Check
    BY <2>1, RecvAsks, GetFinds, DecidePromised, SavePromised, DoorPromised DEF Check
  <2>2. CASE Wifi \/ InfoSend
    BY <2>2, WifiPromised
  <2>3. CASE Readers \/ Shell \/ UNCHANGED vars
    <3>1. UNCHANGED <<pc, granted, last, reloaded, key, recved, rec>>
      BY <2>3 DEF Readers, RcRead, RcSend, RcSkip, Shell, SendCard, FingerEvent,
                  ShellOpen, ShellRelock, WipeAtt, checkVars, fileVars, vars
    <3>2. Phase' = Phase
      BY <3>1 DEF Phase
    <3>3. QED
      BY <3>1, <3>2, Stutters
  <2>4. QED
    BY <2>1, <2>2, <2>3 DEF Next
<1>3. QED
  BY <1>1, <1>2, InductiveA, PTL DEF Spec, IsAdmission, Promise!Spec

-----------------------------------------------------------------------------
(* The safety part of HolderLetIn *)

\* Record r lets its user pass with event ev, at any time.
Lets(r, ev) ==
  /\ r.crc
  /\ \E p \in Passes : ev = {p}
  /\ r.rank = "super" \/ (Authorised(r, MaxTime) /\ DirectionRight(r, ev))

\* The event at hand is for a user who will be let in: what the steps before have
\* established is what those to come look at.
OnWay ==
  \/ pc = "deref" /\ LetsIn(list[ptr], recved)
  \/ pc = "get" /\ LetsIn(list[ptr], recved) /\ rec.user_id = list[ptr].user_id
  \/ /\ pc \in {"verifyCrc", "verifyCard"}
     /\ Lets(rec, recved) /\ rec.card_id = list[ptr].card_id
     /\ pc = "verifyCrc" => crcUnit = "user_check"
  \/ pc = "decide" /\ Lets(rec, recved)
  \/ pc \in {"saveOpen", "saveClose"}

\* How far it has come.
Way == [deref |-> 1, get |-> 2, verifyCrc |-> 3, verifyCard |-> 4, decide |-> 5,
        saveOpen |-> 6, saveClose |-> 7, door |-> 8]

\* Without a packet from the server or a command of the boot it comes nearer to the
\* door with every step.
HolderGoesOn ==
  OnWay /\ packets' = packets =>
    \/ pc' = "door"
    \/ OnWay' /\ Way[pc'] > Way[pc]

\* Who may pass at the last moment may pass at any.
LEMMA AuthorisedEarlier ==
  ASSUME NEW r \in User, Authorised(r, MaxTime), NEW t \in Time
  PROVE  Authorised(r, t)
BY SizeAssumption DEF Authorised, Time, User, NoLimit

\* Looking the user up and checking him finds what LetsIn says of the file.
LEMMA WayToDecide ==
  ASSUME IInv, OnWay, Deref \/ Get \/ VerifyCrc \/ VerifyCard
  PROVE  OnWay' /\ Way[pc'] > Way[pc]
<1>1. CASE Deref
  <2>1. pc = "deref" /\ pc' = "get" /\ LetsIn(list[ptr], recved)
    BY <1>1 DEF Deref, OnWay
  <2>2. LetsIn(list[ptr], recved)' /\ rec'.user_id = list'[ptr'].user_id
    BY <1>1, <2>1 DEF Deref, LetsIn, IInv, TypeOK, User, fileVars
  <2>3. QED
    BY <2>1, <2>2 DEF OnWay, Way
<1>2. CASE Get
  <2>1. /\ pc = "get" /\ pc' = "verifyCrc" /\ crcUnit' = "user_check"
        /\ LetsIn(list[ptr], recved) /\ rec.user_id = list[ptr].user_id
    BY <1>2 DEF Get, OnWay
  <2>2. rec' = file[list[ptr].user_id] /\ list[ptr].user_id \in UserId
    BY <1>2, <2>1 DEF Get, LetsIn
  <2>3. Lets(rec', recved) /\ rec'.card_id = list[ptr].card_id
    BY <2>1, <2>2 DEF LetsIn, Lets
  <2>4. UNCHANGED <<recved, list, ptr>>
    BY <1>2 DEF Get
  <2>5. Lets(rec, recved)'
    BY <2>3, <2>4 DEF Lets
  <2>6. QED
    BY <2>1, <2>3, <2>4, <2>5 DEF OnWay, Way
<1>3. CASE VerifyCrc
  <2>1. /\ pc = "verifyCrc" /\ Lets(rec, recved) /\ rec.card_id = list[ptr].card_id
        /\ crcUnit = "user_check"
    BY <1>3 DEF VerifyCrc, OnWay
  <2>2. pc' = "verifyCard" /\ UNCHANGED <<rec, recved, list, ptr>>
    BY <1>3, <2>1 DEF VerifyCrc, Lets, checkVars
  <2>3. Lets(rec, recved)' /\ rec'.card_id = list'[ptr'].card_id
    BY <2>1, <2>2 DEF Lets
  <2>4. QED
    BY <2>1, <2>2, <2>3 DEF OnWay, Way
<1>4. CASE VerifyCard
  <2>1. pc = "verifyCard" /\ Lets(rec, recved) /\ rec.card_id = list[ptr].card_id
    BY <1>4 DEF VerifyCard, OnWay
  <2>2. pc' = "decide" /\ UNCHANGED <<rec, recved>>
    BY <1>4, <2>1 DEF VerifyCard, checkVars
  <2>3. Lets(rec, recved)'
    BY <2>1, <2>2 DEF Lets
  <2>4. QED
    BY <2>1, <2>2, <2>3 DEF OnWay, Way
<1>5. QED
  BY <1>1, <1>2, <1>3, <1>4

\* The decision and the storing of the state lead to the door.
LEMMA WayToDoor ==
  ASSUME IInv, OnWay, (\E t \in Time : Decide(t)) \/ SaveOpen \/ SaveClose \/ SaveFails
  PROVE  pc' = "door" \/ (OnWay' /\ Way[pc'] > Way[pc])
<1>1. ASSUME NEW t \in Time, Decide(t) PROVE pc' \in {"door", "saveOpen"} /\ pc = "decide"
  <2>1. pc = "decide" /\ Lets(rec, recved) /\ rec \in User
    BY <1>1 DEF Decide, OnWay, IInv, TypeOK
  <2>2. CASE rec.rank = "super"
    BY <1>1, <2>1, <2>2 DEF Decide
  <2>3. CASE rec.rank # "super"
    <3>1. Authorised(rec, t) /\ DirectionRight(rec, recved)
      BY <2>1, <2>3, AuthorisedEarlier DEF Lets
    <3>2. QED
      BY <1>1, <2>1, <2>3, <3>1 DEF Decide, Lets
  <2>4. QED
    BY <2>2, <2>3
<1>2. CASE SaveOpen
  BY <1>2 DEF SaveOpen, OnWay, Way
<1>3. CASE SaveClose \/ SaveFails
  BY <1>3 DEF SaveClose, SaveFails
<1>4. QED
  BY <1>1, <1>2, <1>3 DEF OnWay, Way

\* Once a user's card is found and his record in the file lets him in, every step
\* that is not a packet of the server or a command of the boot brings him nearer to
\* the open door: no lower thread, no check of user_check and no state that cannot
\* be stored turns him away.
THEOREM HolderReachesDoor == Spec => [][HolderGoesOn]_vars
<1>1. IInv /\ [Next]_vars => [HolderGoesOn]_vars
  <2> SUFFICES ASSUME IInv, Next, OnWay, packets' = packets
               PROVE  pc' = "door" \/ (OnWay' /\ Way[pc'] > Way[pc])
    BY DEF HolderGoesOn
  <2>1. pc \in {"deref", "get", "verifyCrc", "verifyCard", "decide", "saveOpen", "saveClose"}
    BY DEF OnWay
  <2>2. ~Wifi /\ ~InfoSend
    <3>1. packets + 1 # packets
      BY SizeAssumption DEF IInv, TypeOK
    <3>2. QED
      BY <3>1 DEF InfoSend, Wifi, UserAdd, UserDel, ListReload, OtherPacket, LinkCrc
  <2>3. ~Readers /\ ~Shell
    BY <2>1 DEF Readers, RcRead, RcSend, RcSkip, Shell, SendCard, FingerEvent, ShellOpen,
                ShellRelock, WipeAtt, LowMayRun
  <2>4. \/ Deref \/ Get \/ VerifyCrc \/ VerifyCard
        \/ (\E t \in Time : Decide(t)) \/ SaveOpen \/ SaveClose \/ SaveFails
    BY <2>1, <2>2, <2>3, AttendIs DEF Next, Check, Recv, OpenDoor, Relock
  <2>5. QED
    BY <2>4, WayToDecide, WayToDoor
<1>2. QED
  BY <1>1, Inductive, PTL DEF Spec

-----------------------------------------------------------------------------
(* The safety part of EventsConsumed, OpeningRecorded and DoorRelocks *)

\* The steps of user_check until it waits again.
StepsLeft == [recv |-> 0, noted |-> 1, attWrite |-> 2, attCheck |-> 3, record |-> 4,
              sleep |-> 5, door |-> 6, saveClose |-> 7, saveOpen |-> 8, decide |-> 9,
              verifyCard |-> 10, verifyCrc |-> 11, get |-> 12, deref |-> 13]

\* The attendance record is being added, with the CRC unit as user_check left it.
Noting == \/ pc = "record"
          \/ pc \in {"attCheck", "attWrite"} /\ crcUnit = "user_check"

\* A pending event is taken away only by the reception, with all the others, and
\* each step of user_check then brings it nearer to waiting, which no other thread
\* can change.  The pulse does not end but with the door locked.  From there, with
\* the header of the attendance file right, every step that is not a packet of the
\* server or a command of the boot leads on to a record that is written and counted
\* under a header that is right again.
HandlingGoesOn ==
  /\ events \subseteq events' \/ (pc = "recv" /\ Check /\ events' = {})
  /\ Check => pc = "recv" \/ StepsLeft[pc'] < StepsLeft[pc]
  /\ ~Check => pc' = pc
  /\ pc = "door" => pc' \in {"door", "sleep"}
  /\ pc = "sleep" => pc' = "sleep" \/ (pc' = "record" /\ door' = "locked")
  /\ Noting /\ attRight /\ packets' = packets => attRight' /\ (Noting' \/ pc' = "noted")

\* The threads beside user_check leave its place to it, and take no event.
LEMMA OthersLeave ==
  ASSUME Wifi \/ InfoSend \/ Readers \/ Shell
  PROVE  pc' = pc /\ events \subseteq events'
BY DEF InfoSend, Wifi, UserAdd, UserDel, ListReload, OtherPacket, LinkCrc, Readers, RcRead,
       RcSend, RcSkip, Shell, SendCard, FingerEvent, ShellOpen, ShellRelock, WipeAtt, SendEvent

\* Until it waits again user_check comes nearer to that with each step.
LEMMA CheckShortens ==
  ASSUME Check, pc # "recv"
  PROVE  events' = events /\ StepsLeft[pc'] < StepsLeft[pc]
<1>1. CASE Deref \/ Get
  BY <1>1 DEF Deref, Get, StepsLeft
<1>2. CASE VerifyCrc \/ VerifyCard
  BY <1>2 DEF VerifyCrc, VerifyCard, Restart, StepsLeft
<1>3. ASSUME NEW t \in Time, Decide(t)
      PROVE  events' = events /\ StepsLeft[pc'] < StepsLeft[pc]
  BY <1>3 DEF Decide, Restart, StepsLeft
<1>4. CASE SaveOpen \/ SaveClose \/ SaveFails
  BY <1>4 DEF SaveOpen, SaveClose, SaveFails, StepsLeft
<1>5. CASE OpenDoor \/ Relock \/ Attend
  BY <1>5 DEF OpenDoor, Relock, Attend, AttOpen, AttCheck, AttWrite, Noted, Restart, StepsLeft
<1>6. ~Recv
  BY DEF Recv
<1>7. QED
  BY <1>1, <1>2, <1>3, <1>4, <1>5, <1>6 DEF Check

\* Nothing but a packet or a command of the boot disturbs the record once it is
\* begun.
LEMMA NotingGoesOn ==
  ASSUME IInv, Next, Noting, attRight, packets' = packets
  PROVE  attRight' /\ (Noting' \/ pc' = "noted")
<1>1. pc \in {"record", "attCheck", "attWrite"}
  BY DEF Noting
<1>2. ~Wifi /\ ~InfoSend
  <2>1. packets + 1 # packets
    BY SizeAssumption DEF IInv, TypeOK
  <2>2. QED
    BY <2>1 DEF InfoSend, Wifi, UserAdd, UserDel, ListReload, OtherPacket, LinkCrc
<1>3. ~Readers /\ ~Shell
  BY <1>1 DEF Readers, RcRead, RcSend, RcSkip, Shell, SendCard, FingerEvent, ShellOpen,
              ShellRelock, WipeAtt, LowMayRun
<1>4. AttOpen \/ AttCheck \/ AttWrite
  BY <1>1, <1>2, <1>3 DEF Next, Check, Recv, Deref, Get, VerifyCrc, VerifyCard, Decide, SaveOpen,
                          SaveClose, SaveFails, OpenDoor, Relock, Attend, Noted
<1>5. CASE AttOpen
  BY <1>5 DEF AttOpen, Noting
<1>6. CASE AttCheck
  BY <1>6 DEF AttCheck, Noting
<1>7. CASE AttWrite
  BY <1>7 DEF AttWrite, Noting
<1>8. QED
  BY <1>4, <1>5, <1>6, <1>7

\* An event that user_check receives is handled in at most fourteen of its steps,
\* whatever the server, the readers and the shell do in between.  The door is locked
\* before the last four of them, which write and count the attendance record when
\* the header of the file is right and no CRC is disturbed.
THEOREM HandlingEnds == Spec => [][HandlingGoesOn]_vars
<1>1. IInv /\ [Next]_vars => [HandlingGoesOn]_vars
  <2> SUFFICES ASSUME IInv, Next PROVE HandlingGoesOn
    OBVIOUS
  <2>1. Noting /\ attRight /\ packets' = packets => attRight' /\ (Noting' \/ pc' = "noted")
    BY NotingGoesOn
  <2>2. CASE Check /\ pc = "recv"
    <3>1. Recv
      BY <2>2, AttendIs DEF Check, Deref, Get, VerifyCrc, VerifyCard, Decide, SaveOpen,
                            SaveClose, SaveFails, OpenDoor, Relock
    <3>2. events' = {}
      BY <3>1 DEF Recv, Cleared
    <3>3. QED
      BY <2>1, <2>2, <3>2 DEF HandlingGoesOn
  <2>3. CASE Check /\ pc # "recv"
    <3>1. pc = "door" => OpenDoor
      BY <2>3, AttendIs DEF Check, Recv, Deref, Get, VerifyCrc, VerifyCard, Decide, SaveOpen,
                            SaveClose, SaveFails, Relock
    <3>2. pc = "sleep" => Relock
      BY <2>3, AttendIs DEF Check, Recv, Deref, Get, VerifyCrc, VerifyCard, Decide, SaveOpen,
                            SaveClose, SaveFails, OpenDoor
    <3>3. pc = "door" => pc' = "sleep"
      BY <3>1 DEF OpenDoor
    <3>4. pc = "sleep" => pc' = "record" /\ door' = "locked"
      BY <3>2 DEF Relock
    <3>5. events' = events /\ StepsLeft[pc'] < StepsLeft[pc]
      BY <2>3, CheckShortens
    <3>6. QED
      BY <2>1, <2>3, <3>3, <3>4, <3>5 DEF HandlingGoesOn
  <2>4. CASE ~Check
    BY <2>1, <2>4, OthersLeave DEF Next, HandlingGoesOn
  <2>5. QED
    BY <2>2, <2>3, <2>4
<1>2. QED
  BY <1>1, Inductive, PTL DEF Spec
=============================================================================
