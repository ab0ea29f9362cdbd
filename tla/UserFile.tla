------------------------------ MODULE UserFile ------------------------------
(***************************************************************************)
(* The user file /member.bin (p_database.c): a slot for each user id.  The *)
(* wifi thread stores and clears slots (USER_ADD, USER_DEL), loads the     *)
(* card list from them (LIST_RELOAD) and tells the server the CRC field of *)
(* each (USER_CRC_GET), from which the server learns which of its users    *)
(* the device holds.  user_check reads a slot and later writes the user's  *)
(* state into it.  Power may fail at any moment.                           *)
(*                                                                         *)
(* The file has no lock.  A command of wifi is one step, as nothing in it  *)
(* sleeps and nothing of a higher priority uses the file, and it may come  *)
(* between any two steps of user_check.  What UserCheck leaves out is the  *)
(* subject here: the length of the file, which every open descriptor has a *)
(* copy of and every seek may extend, and what lies in slots nobody wrote. *)
(***************************************************************************)
EXTENDS Integers, Sequences, FiniteSets

CONSTANTS
  MaxSlot,    \* bound: slots there is room for on the card
  Versions,   \* what a user's record may say
  None,       \* no user
  Mixed,      \* the bytes of two records
  Junk,       \* the bytes of another file
  Unwritten,  \* what each slot holds before it is first written
  Ask,        \* the pairs <<start, num>> the server asks CRCs for
  MaxUint16,  \* the largest user id (65535)
  MaxCuts     \* bound: power losses

Slots == 1..MaxSlot
Ids   == 0..MaxUint16

\* A slot: the id at its head, the rest of the record, and the version its CRC
\* field is the CRC of.  A deleted record is zeroes.
Content == [id : Ids, body : Versions \cup {None, Mixed, Junk},
            crc : Versions \cup {None, Junk}]

Stored(u, v) == [id |-> IF v = None THEN 0 ELSE u, body |-> v, crc |-> v]
Deleted      == [id |-> 0, body |-> None, crc |-> None]

ASSUME BoundAssumption == MaxUint16 \in Nat /\ MaxSlot \in 1..MaxUint16 /\ MaxCuts \in Nat
ASSUME NoneAssumption  == /\ None \notin Versions /\ Mixed \notin Versions \cup {None}
                          /\ Junk \notin Versions \cup {None, Mixed}
ASSUME UnwrittenAssumption ==
  /\ Unwritten \in [Slots -> Content]
  /\ \A u \in Slots : Unwritten[u] = Deleted \/ (Unwritten[u].body = Junk /\ Unwritten[u].crc = Junk)
ASSUME AskAssumption == Ask \subseteq Nat \X Nat

VARIABLES
  slots,    \* what the card holds in each slot's place, inside the file or not
  length,   \* of the file: absent, empty, or in halves of a slot after the header
  pc,       \* where user_check is
  cur,      \* the user whose state it saves
  buf,      \* its descriptor: the CRC of cur and the head of the next slot, both
            \* in the sector of cur's state, and the length of the file
  granted,  \* history: each user's record in the server's eyes
  how,      \* history: how each slot was last written
  cuts      \* power losses so far

vars == <<slots, length, pc, cur, buf, granted, how, cuts>>

\* The first half of a slot ends before its CRC field.
Absent == -2
Empty  == -1
Lengths == Absent..(2 * MaxSlot)

NoBuf == [crc |-> None, id |-> 0, body |-> None, length |-> Absent]

Larger(a, b)  == IF a > b THEN a ELSE b
Smaller(a, b) == IF a < b THEN a ELSE b
LargestOf(S)  == IF S = {} THEN 0 ELSE CHOOSE m \in S : \A n \in S : n <= m

\* Fault: the end of the card is not noticed.
ExtendedPastCard(len) == Larger(length, len)

\* f_lseek extends the file, as far as the card has room.
Extended(len) == Larger(length, Smaller(len, 2 * MaxSlot))

InFile(u) == 2 * u <= length

-----------------------------------------------------------------------------
(* What the loops over the file find *)

\* user_num_get: the slots that lie wholly in the file and whose id is not 0,
Counted == {u \in Slots : InFile(u) /\ slots[u].id # 0}

\* Fault: the number of users is taken for the largest id.
MaxIdIsNum == Cardinality(Counted)

\* and the largest of these ids.
MaxId == LargestOf({slots[u].id : u \in Counted})

\* A file without a header fails: st_size - HEADER_SIZE is negative, the count
\* of slots enormous, and the first read meets the end of the file.
NumGetOk == length >= 0

\* card_array_init reads the heads of the slots up to the largest id, and wants
\* as many users as were counted.
HeadReadable(u) == u \in Slots /\ 2 * u - 1 <= length

ReloadOk ==
  /\ NumGetOk
  /\ \A u \in 1..MaxId : HeadReadable(u)
  /\ Cardinality({u \in 1..MaxId : slots[u].id # 0}) = Cardinality(Counted)

\* Fault: the user with the largest id is left out.
NumCutOneLess(start, num) == IF start + num > MaxId THEN MaxId - start ELSE num

\* How many CRCs user_crc_get reads: none beyond the largest id.
NumCut(start, num) == IF start + num > MaxId THEN MaxId - start + 1 ELSE num

\* A start of 0 is refused, a field beyond the end cannot be read.
CrcGetOk(start, num) ==
  /\ NumGetOk
  /\ \/ start > MaxId
     \/ start > 0 /\ \A u \in start..(start + NumCut(start, num) - 1) : u \in Slots /\ InFile(u)

\* Fault: slots are counted from 0.
CrcsGotNext(start, num) ==
  IF start > MaxId THEN <<>>
  ELSE [i \in 1..NumCut(start, num) |-> slots[Smaller(start + i, MaxSlot)].crc]

\* The answer: no CRC at all when the server starts beyond the largest id.
CrcsGot(start, num) ==
  IF start > MaxId THEN <<>>
                   ELSE [i \in 1..NumCut(start, num) |-> slots[start + i - 1].crc]

-----------------------------------------------------------------------------
\* The file is absent, or holds what the server has stored from slot 1 on.
Init ==
  /\ granted \in [Slots -> Versions \cup {None}]
  /\ \E n \in 0..MaxSlot :
       /\ length = IF n = 0 THEN Absent ELSE 2 * n
       /\ slots = [u \in Slots |-> IF u <= n THEN Stored(u, granted[u]) ELSE Unwritten[u]]
       /\ how = [u \in Slots |-> IF u <= n THEN "alone" ELSE "never"]
       /\ \A u \in Slots : u > n => granted[u] = None
  /\ pc = "boot"
  /\ cur = 0
  /\ buf = NoBuf
  /\ cuts = 0

-----------------------------------------------------------------------------
(* wifi: the server's commands *)

\* The list is loaded before the threads are created.
Booted == pc # "boot"

\* How a write of slot u by wifi meets user_check: alone, during a state save,
\* or during the state save of the slot before.
Meets(u) == CASE pc # "save"   -> "alone"
              [] u = cur + 1   -> "beside"
              [] OTHER         -> "during"

\* Fault: USER_DEL clears the id only.
WriteIdOnly(u, v) ==
  /\ Booted
  /\ slots' = [slots EXCEPT ![u] = IF v = None THEN [@ EXCEPT !.id = 0] ELSE Stored(u, v)]
  /\ length' = Larger(length, 2 * u)
  /\ granted' = [granted EXCEPT ![u] = v]
  /\ how' = [how EXCEPT ![u] = Meets(u)]
  /\ UNCHANGED <<pc, cur, buf>>

\* add_del_get_one_user stores the record of user u, or zeroes; the file is
\* created, and extended up to the slot, where it ends before.
Write(u, v) ==
  /\ Booted
  /\ slots' = [slots EXCEPT ![u] = Stored(u, v)]
  /\ length' = Larger(length, 2 * u)
  /\ granted' = [granted EXCEPT ![u] = v]
  /\ how' = [how EXCEPT ![u] = Meets(u)]
  /\ UNCHANGED <<pc, cur, buf>>

\* card_array_init, for LIST_RELOAD or at boot: the seek behind the last readable
\* head extends the file.
ReloadLength ==
  IF length < 0 THEN Larger(length, IF length = Empty THEN 0 ELSE Absent)
  ELSE IF MaxId > (length + 1) \div 2 THEN Extended(2 * ((length + 1) \div 2))
  ELSE length

Reload ==
  /\ length' = ReloadLength
  /\ pc' = IF Booted THEN pc ELSE "idle"
  /\ UNCHANGED <<slots, cur, buf, granted, how>>

\* USER_CRC_GET: the seek to the first field that cannot be read extends the
\* file; an empty file gets the size of its header from user_num_get.
CrcGet(start, num) ==
  /\ Booted
  /\ length' = IF length = Empty THEN 0
               ELSE IF CrcGetOk(start, num) \/ start = 0 \/ length < 0 THEN length
               ELSE Extended(2 * Larger(start, length \div 2 + 1) - 1)
  /\ UNCHANGED <<slots, pc, cur, buf, granted, how>>

-----------------------------------------------------------------------------
(* user_check *)

\* Would the record at slot u pass the checks of user_check?
Admissible(u) == InFile(u) /\ slots[u].id = u /\ slots[u].body \in Versions
                           /\ slots[u].crc = slots[u].body

\* GET_ONE_USER of a user of the card list, which may be older than the file:
\* the seek may extend the file.
Get(u) ==
  /\ pc = "idle"
  /\ length' = Extended(2 * (u - 1))
  /\ IF Admissible(u) THEN pc' = "get" /\ cur' = u ELSE UNCHANGED <<pc, cur>>
  /\ UNCHANGED <<slots, buf, granted, how>>

\* get_set_state opens the file and loads the sector of the state, or the user
\* is refused for another reason.
SaveOpen ==
  /\ pc = "get"
  /\ \/ /\ pc' = "save"
        /\ buf' = [crc |-> slots[cur].crc, length |-> length,
                   id   |-> IF cur < MaxSlot THEN slots[cur + 1].id ELSE 0,
                   body |-> IF cur < MaxSlot THEN slots[cur + 1].body ELSE None]
        /\ UNCHANGED cur
     \/ /\ pc' = "idle" /\ cur' = 0
        /\ UNCHANGED buf
  /\ UNCHANGED <<slots, length, granted, how>>

\* A record of which some sectors are from a and some from b.  (Two versions
\* differ in every sector.)
Mix(a, b) == IF a = b THEN a ELSE Mixed

\* The slots after the sector of the state was written back.
WrittenBack ==
  [u \in Slots |->
     CASE u = cur     -> [slots[u] EXCEPT !.crc = buf.crc]
       [] u = cur + 1 -> [slots[u] EXCEPT !.id = buf.id, !.body = Mix(slots[u].body, buf.body)]
       [] OTHER       -> slots[u]]

\* close() writes the sector, then the length the file had when it was opened.
SaveClose ==
  /\ pc = "save"
  /\ slots' = WrittenBack
  /\ length' = buf.length
  /\ pc' = "idle" /\ cur' = 0 /\ buf' = NoBuf
  /\ UNCHANGED <<granted, how>>

-----------------------------------------------------------------------------
(* Power loss *)

\* What is left of slots held and of the history hist: beyond the length the
\* data may be there or not.
Left(held, hist) ==
  /\ \E kept \in BOOLEAN :
       /\ slots' = [u \in Slots |-> IF kept \/ InFile(u) THEN held[u] ELSE Unwritten[u]]
       /\ how' = [u \in Slots |-> IF kept \/ InFile(u) THEN hist[u] ELSE "never"]
  /\ pc' = "boot" /\ cur' = 0 /\ buf' = NoBuf
  /\ cuts < MaxCuts
  /\ cuts' = cuts + 1

\* Between two commands, or in close() after the state's sector was written.
Cut ==
  /\ Left(slots, how) \/ (pc = "save" /\ Left(WrittenBack, how))
  /\ UNCHANGED <<length, granted>>

\* While slot u is written: its first sectors are, its CRC and the length of the
\* file are not.
CutInWrite(u, v) ==
  /\ Booted
  /\ \E body \in {v, Mix(slots[u].body, v)} :
       Left([slots EXCEPT ![u] = [Stored(u, v) EXCEPT !.body = body, !.crc = slots[u].crc]],
            [how EXCEPT ![u] = "cut"])
  /\ length' = Larger(length, Empty)
  /\ granted' = [granted EXCEPT ![u] = v]

-----------------------------------------------------------------------------
Step ==
  \/ \E u \in Slots, v \in Versions \cup {None} : Write(u, v)
  \/ Reload
  \/ \E a \in Ask : CrcGet(a[1], a[2])
  \/ \E u \in Slots : Get(u)
  \/ SaveOpen \/ SaveClose

PowerCut == Cut \/ \E u \in Slots, v \in Versions \cup {None} : CutInWrite(u, v)

Next == (Step /\ UNCHANGED cuts) \/ PowerCut

Spec == Init /\ [][Next]_vars

-----------------------------------------------------------------------------
TypeOK ==
  /\ slots \in [Slots -> Content]
  /\ length \in Lengths
  /\ pc \in {"boot", "idle", "get", "save"}
  /\ cur \in 0..MaxSlot
  /\ buf \in [crc : Versions \cup {None, Junk}, id : Ids,
              body : Versions \cup {None, Mixed, Junk}, length : Lengths]
  /\ granted \in [Slots -> Versions \cup {None}]
  /\ how \in [Slots -> {"never", "alone", "during", "beside", "cut"}]
  /\ cuts \in 0..MaxCuts

\* What the server wrote while no state was being saved stays, whole and inside
\* the file: neither the sector nor the file length that get_set_state writes
\* back later, nor a power loss, nor a seek touches it.
WrittenAloneStays ==
  \A u \in Slots : how[u] = "alone" => InFile(u) /\ slots[u] = Stored(u, granted[u])

\* What USER_CRC_GET for u alone tells the server is what it expects of u.
InSync(u) ==
  /\ CrcGetOk(u, 1)
  /\ \/ CrcsGot(u, 1) = <<granted[u]>>
     \/ granted[u] = None /\ CrcsGot(u, 1) = <<>>

\* A write that met a state save may be lost, but then the server sees it: when
\* the CRC it is told is the one it expects, the device admits the user with that
\* record, and nobody when there is none.  (Not so beside the slot of the save,
\* whose sector holds the head of the record but not its CRC, or after a power
\* loss in the write.)
SyncSeesLoss ==
  \A u \in Slots :
    how[u] \in {"alone", "during"} /\ InSync(u) =>
      IF granted[u] = None THEN ~Admissible(u)
                           ELSE Admissible(u) /\ slots[u].body = granted[u]

\* LIST_RELOAD works on any file with a header unless a slot in it was never
\* written (the server did not begin at slot 1, or a power loss took it) or its
\* head was put back by a state save.
ReloadWorks ==
  length >= 0 /\ ~ReloadOk =>
    \E u \in Slots : HeadReadable(u) /\ how[u] \in {"never", "beside"}

\* USER_CRC_GET answers with the CRC of every user asked for up to the largest id.
AnswerIsComplete ==
  \A a \in Ask :
    CrcGetOk(a[1], a[2]) =>
      CrcsGot(a[1], a[2]) = [i \in 1..Cardinality((a[1]..(a[1] + a[2] - 1)) \cap (1..MaxId))
                              |-> slots[a[1] + i - 1].crc]
=============================================================================
