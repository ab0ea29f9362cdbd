--------------------------- MODULE UserFile_proofs ---------------------------
(***************************************************************************)
(* For any number of slots, versions, power losses and any bytes in the    *)
(* slots nobody wrote: what the server wrote while no state was being      *)
(* saved stays, and the CRCs the server is told do not hide what a state   *)
(* save or a power loss took.  The invariant follows a record while        *)
(* user_check holds the sector of the slot before it and the length of the *)
(* file: what close() will write back is still what the card holds.        *)
(***************************************************************************)
EXTENDS UserFile, FiniteSetTheorems, TLAPS

USE BoundAssumption, NoneAssumption, UnwrittenAssumption, AskAssumption

\* The user whose state is saved has a slot in the file.
CurInv ==
  /\ pc \in {"get", "save"} => cur \in Slots /\ InFile(cur)
  /\ pc = "save" => 2 * cur <= buf.length

\* The last word of the server on the slots that no state save has cut into, and
\* their ids even after an interrupted write.
HeadInv ==
  \A u \in Slots :
    /\ how[u] \in {"alone", "during"} =>
         slots[u].id = Stored(u, granted[u]).id /\ slots[u].body = granted[u]
    /\ how[u] = "cut" => slots[u].id \in {0, u}

\* What close() will write back is what is there.
BufInv ==
  pc = "save" =>
    \A u \in Slots :
      /\ how[u] = "alone" => 2 * u <= buf.length
      /\ how[u] = "alone" /\ u = cur => buf.crc = slots[u].crc
      /\ how[u] \in {"alone", "during", "cut"} /\ u = cur + 1 => buf.id = slots[u].id
      /\ how[u] \in {"alone", "during"} /\ u = cur + 1 => buf.body = slots[u].body

IInv == TypeOK /\ CurInv /\ HeadInv /\ WrittenAloneStays /\ BufInv

-----------------------------------------------------------------------------
(* The largest id *)

\* A nonempty set of ids has a largest, for the sets of larger ids have a least.
LEMMA LargestExists ==
  ASSUME NEW S \in SUBSET Ids, S # {}
  PROVE  \E m \in S : \A n \in S : n <= m
<1> DEFINE Above(m) == {n \in S : n > m}
           Family   == {Above(m) : m \in S}
<1>1. IsFiniteSet(S)
  <2>1. IsFiniteSet(Ids)
    BY FS_Interval DEF Ids
  <2> QED BY <2>1, FS_Subset
<1>2. IsWellFoundedOn(StrictSubsetOrdering(S), SUBSET S)
  <2>1. IsWellFoundedOn(StrictSubsetOrdering(S), FiniteSubsetsOf(S))
    BY FS_StrictSubsetOrderingWellFounded
  <2>2. FiniteSubsetsOf(S) = SUBSET S
    BY <1>1, FS_FiniteSubsetsOfFinite
  <2> QED BY <2>1, <2>2
<1>3. Family \subseteq SUBSET S /\ Family # {}
  <2>1. \A m \in S : Above(m) \in SUBSET S
    OBVIOUS
  <2>2. Family \subseteq SUBSET S
    <3> HIDE DEF Above
    <3> QED BY <2>1
  <2>3. PICK m \in S : TRUE
    OBVIOUS
  <2>4. Above(m) \in Family
    <3> HIDE DEF Above
    <3> QED BY <2>3
  <2> QED BY <2>2, <2>4
<1>4. \E A \in Family : \A B \in Family : ~ (<<B, A>> \in StrictSubsetOrdering(S))
  <2> HIDE DEF Family
  <2> QED BY <1>2, <1>3, WFMin
<1>5. PICK m \in S : \A B \in Family : ~ (<<B, Above(m)>> \in StrictSubsetOrdering(S))
  BY <1>4
<1>6. ASSUME NEW n \in S, n > m PROVE FALSE
  <2>1. Above(n) \in Family
    OBVIOUS
  <2>2. Above(n) \subseteq Above(m) /\ n \in Above(m) /\ n \notin Above(n)
    <3>1. \A k \in S : k > n => k > m
      BY <1>6 DEF Ids
    <3>2. ~ (n > n)
      BY <1>6 DEF Ids
    <3> QED BY <3>1, <3>2, <1>6
  <2>3. <<Above(n), Above(m)>> \in StrictSubsetOrdering(S)
    BY <2>2 DEF StrictSubsetOrdering
  <2> QED BY <2>1, <2>3, <1>5
<1> QED BY <1>6 DEF Ids

\* LargestOf finds it.
LEMMA LargestIsMax ==
  ASSUME NEW S \in SUBSET Ids
  PROVE  /\ LargestOf(S) \in Ids
         /\ \A n \in S : n <= LargestOf(S)
         /\ S # {} => LargestOf(S) \in S
<1>1. CASE S = {}
  BY <1>1 DEF LargestOf, Ids
<1>2. CASE S # {}
  <2>1. \E m \in S : \A n \in S : n <= m
    BY <1>2, LargestExists
  <2> QED BY <2>1, <1>2 DEF LargestOf
<1> QED BY <1>1, <1>2

\* user_num_get returns an id, which no counted slot's exceeds.
LEMMA MaxIdIsMax ==
  ASSUME TypeOK
  PROVE  /\ MaxId \in Ids
         /\ \A u \in Counted : slots[u].id <= MaxId
         /\ Counted # {} => \E u \in Counted : slots[u].id = MaxId
<1> DEFINE S == {slots[u].id : u \in Counted}
<1>1. S \in SUBSET Ids
  BY DEF TypeOK, Content, Counted
<1>2. MaxId = LargestOf(S)
  BY DEF MaxId
<1> HIDE DEF S
<1>3. /\ MaxId \in Ids /\ (\A n \in S : n <= MaxId) /\ (S # {} => MaxId \in S)
  BY <1>1, <1>2, LargestIsMax
<1> QED BY <1>3 DEF S

-----------------------------------------------------------------------------
(* Types *)

\* A record the server may write is a slot's content.
LEMMA StoredType ==
  ASSUME NEW u \in Slots, NEW v \in Versions \cup {None}
  PROVE  Stored(u, v) \in Content
<1>1. (IF v = None THEN 0 ELSE u) \in Ids
  BY DEF Slots, Ids
<1> QED BY <1>1 DEF Stored, Content

\* A seek leaves a length, and at least the one the file had.
LEMMA ExtendedType ==
  ASSUME length \in Lengths, NEW len \in Int
  PROVE  Extended(len) \in Lengths /\ Extended(len) >= length
BY DEF Extended, Larger, Smaller, Lengths, Absent

\* Writing the sector back leaves the slots slots.
LEMMA WrittenBackType ==
  ASSUME TypeOK
  PROVE  WrittenBack \in [Slots -> Content]
<1>1. ASSUME NEW u \in Slots PROVE WrittenBack[u] \in Content
  <2>1. slots[u] \in Content /\ buf.crc \in Versions \cup {None, Junk}
    BY DEF TypeOK
  <2>2. buf.id \in Ids /\ buf.body \in Versions \cup {None, Mixed, Junk}
    BY DEF TypeOK
  <2>3. Mix(slots[u].body, buf.body) \in Versions \cup {None, Mixed, Junk}
    BY <2>1, <2>2 DEF Mix, Content
  <2>4. CASE u = cur
    <3>0. cur # cur + 1
      BY DEF TypeOK
    <3>1. WrittenBack[u] = [slots[u] EXCEPT !.crc = buf.crc]
      BY <2>4, <3>0 DEF WrittenBack
    <3> QED BY <3>1, <2>1 DEF Content
  <2>5. CASE u # cur /\ u = cur + 1
    <3> DEFINE b == Mix(slots[u].body, buf.body)
    <3>1. WrittenBack[u] = [slots[u] EXCEPT !.id = buf.id, !.body = b]
      BY <2>5 DEF WrittenBack
    <3> HIDE DEF b
    <3> QED BY <3>1, <2>1, <2>2, <2>3 DEF Content, b
  <2>6. CASE u # cur /\ u # cur + 1
    BY <2>6, <2>1 DEF WrittenBack
  <2> QED BY <2>4, <2>5, <2>6
<1>2. WrittenBack = [u \in Slots |-> WrittenBack[u]]
  BY DEF WrittenBack
<1> QED BY <1>1, <1>2

\* What a power loss leaves of slots is slots.
LEMMA LeftType ==
  ASSUME TypeOK, NEW held \in [Slots -> Content],
         NEW hist \in [Slots -> {"never", "alone", "during", "beside", "cut"}],
         Left(held, hist)
  PROVE  /\ slots' \in [Slots -> Content]
         /\ how' \in [Slots -> {"never", "alone", "during", "beside", "cut"}]
         /\ pc' = "boot" /\ cur' = 0 /\ buf' = NoBuf /\ cuts' \in 0..MaxCuts
<1>1. slots' \in [Slots -> Content] /\ how' \in [Slots -> {"never", "alone", "during", "beside", "cut"}]
  BY DEF Left
<1> QED BY <1>1 DEF Left, TypeOK

\* Every step preserves the types, given that the user of a save has a slot.
LEMMA TypeStep == TypeOK /\ CurInv /\ [Next]_vars => TypeOK'
<1> SUFFICES ASSUME TypeOK, CurInv, [Next]_vars PROVE TypeOK'
  OBVIOUS
<1> USE DEF TypeOK
<1>0. NoBuf \in [crc : Versions \cup {None, Junk}, id : Ids,
                 body : Versions \cup {None, Mixed, Junk}, length : Lengths]
  BY DEF NoBuf, Lengths, Absent, Ids
<1>1. ASSUME NEW u \in Slots, NEW v \in Versions \cup {None}, Write(u, v), UNCHANGED cuts
      PROVE  TypeOK'
  <2>1. Stored(u, v) \in Content
    BY StoredType
  <2>2. slots' \in [Slots -> Content] /\ granted' \in [Slots -> Versions \cup {None}]
    BY <1>1, <2>1 DEF Write
  <2>3. length' \in Lengths
    BY <1>1 DEF Write, Larger, Lengths, Absent, Slots
  <2>4. how' \in [Slots -> {"never", "alone", "during", "beside", "cut"}]
    BY <1>1 DEF Write, Meets
  <2> QED BY <2>2, <2>3, <2>4, <1>1 DEF Write
<1>2. ASSUME Reload, UNCHANGED cuts PROVE TypeOK'
  <2>1. ReloadLength \in Lengths
    <3>1. (length + 1) \div 2 \in Int
      BY DEF Lengths, Absent
    <3>2. Extended(2 * ((length + 1) \div 2)) \in Lengths
      BY <3>1, ExtendedType
    <3> QED BY <3>2 DEF ReloadLength, Larger, Lengths, Absent, Empty
  <2> QED BY <2>1, <1>2 DEF Reload
<1>3. ASSUME NEW a \in Ask, CrcGet(a[1], a[2]), UNCHANGED cuts PROVE TypeOK'
  <2>1. a[1] \in Nat
    OBVIOUS
  <2>2. length' \in Lengths
    <3> DEFINE len == 2 * Larger(a[1], length \div 2 + 1) - 1
    <3>1. len \in Int
      BY <2>1 DEF Larger, Lengths, Absent
    <3>2. Extended(len) \in Lengths
      <4> HIDE DEF len
      <4> QED BY <3>1, ExtendedType
    <3>3. length' \in {0, length, Extended(len)}
      BY <1>3 DEF CrcGet
    <3> HIDE DEF len
    <3> QED BY <3>2, <3>3 DEF Lengths, Absent
  <2> QED BY <2>2, <1>3 DEF CrcGet
<1>4. ASSUME NEW u \in Slots, Get(u), UNCHANGED cuts PROVE TypeOK'
  <2>1. length' \in Lengths
    BY <1>4, ExtendedType DEF Get, Slots
  <2>2. pc' \in {"boot", "idle", "get", "save"} /\ cur' \in 0..MaxSlot
    BY <1>4 DEF Get, Slots
  <2> QED BY <2>1, <2>2, <1>4 DEF Get
<1>5. ASSUME SaveOpen, UNCHANGED cuts PROVE TypeOK'
  <2>1. cur' \in 0..MaxSlot /\ pc' \in {"boot", "idle", "get", "save"}
    BY <1>5 DEF SaveOpen
  <2>2. CASE UNCHANGED buf
    BY <2>1, <2>2, <1>5 DEF SaveOpen
  <2>3. CASE /\ pc' = "save"
             /\ buf' = [crc |-> slots[cur].crc, length |-> length,
                        id   |-> IF cur < MaxSlot THEN slots[cur + 1].id ELSE 0,
                        body |-> IF cur < MaxSlot THEN slots[cur + 1].body ELSE None]
    <3>1. slots[cur].crc \in Versions \cup {None, Junk}
      BY <1>5 DEF SaveOpen, CurInv, Content
    <3>2. cur < MaxSlot => slots[cur + 1] \in Content
      BY <1>5 DEF SaveOpen, CurInv, Slots
    <3>3. (IF cur < MaxSlot THEN slots[cur + 1].id ELSE 0) \in Ids
      BY <3>2 DEF Content, Ids
    <3>4. (IF cur < MaxSlot THEN slots[cur + 1].body ELSE None) \in Versions \cup {None, Mixed, Junk}
      BY <3>2 DEF Content
    <3> QED BY <2>1, <2>3, <3>1, <3>3, <3>4, <1>5 DEF SaveOpen
  <2> QED BY <2>2, <2>3, <1>5 DEF SaveOpen
<1>6. ASSUME SaveClose, UNCHANGED cuts PROVE TypeOK'
  BY <1>0, <1>6, WrittenBackType DEF SaveClose
<1>7. ASSUME Cut PROVE TypeOK'
  <2>1. Left(slots, how) \/ Left(WrittenBack, how)
    BY <1>7 DEF Cut
  <2>2. /\ slots' \in [Slots -> Content]
        /\ how' \in [Slots -> {"never", "alone", "during", "beside", "cut"}]
        /\ pc' = "boot" /\ cur' = 0 /\ buf' = NoBuf /\ cuts' \in 0..MaxCuts
    BY <2>1, LeftType, WrittenBackType
  <2> QED BY <2>2, <1>0, <1>7 DEF Cut
<1>8. ASSUME NEW u \in Slots, NEW v \in Versions \cup {None}, CutInWrite(u, v)
      PROVE  TypeOK'
  <2>1. PICK body \in {v, Mix(slots[u].body, v)} :
          Left([slots EXCEPT ![u] = [Stored(u, v) EXCEPT !.body = body, !.crc = slots[u].crc]],
               [how EXCEPT ![u] = "cut"])
    BY <1>8 DEF CutInWrite
  <2> DEFINE torn == [Stored(u, v) EXCEPT !.body = body, !.crc = slots[u].crc]
  <2>2. torn \in Content
    <3>1. Stored(u, v) \in Content /\ slots[u] \in Content
      BY StoredType
    <3>2. body \in Versions \cup {None, Mixed, Junk}
      BY <3>1 DEF Mix, Content
    <3> QED BY <3>1, <3>2 DEF Content
  <2>3. /\ slots' \in [Slots -> Content]
        /\ how' \in [Slots -> {"never", "alone", "during", "beside", "cut"}]
        /\ pc' = "boot" /\ cur' = 0 /\ buf' = NoBuf /\ cuts' \in 0..MaxCuts
    <3>1. Left([slots EXCEPT ![u] = torn], [how EXCEPT ![u] = "cut"])
      BY <2>1
    <3>2. [slots EXCEPT ![u] = torn] \in [Slots -> Content]
      BY <2>2
    <3>3. [how EXCEPT ![u] = "cut"] \in [Slots -> {"never", "alone", "during", "beside", "cut"}]
      OBVIOUS
    <3> HIDE DEF torn
    <3> QED BY <3>1, <3>2, <3>3, LeftType
  <2>4. length' \in Lengths
    BY <1>8 DEF CutInWrite, Larger, Lengths, Absent, Empty
  <2> QED BY <2>3, <2>4, <1>0, <1>8 DEF CutInWrite
<1>9. CASE UNCHANGED vars
  BY <1>9 DEF vars
<1> QED
  BY <1>1, <1>2, <1>3, <1>4, <1>5, <1>6, <1>7, <1>8, <1>9 DEF Next, Step, PowerCut

-----------------------------------------------------------------------------
(* The invariant *)

\* The sector put back changes nothing but the CRC of the slot of the save and
\* the head of the next.
LEMMA WrittenBackIs ==
  ASSUME TypeOK, NEW u \in Slots
  PROVE  /\ u # cur /\ u # cur + 1 => WrittenBack[u] = slots[u]
         /\ u = cur => WrittenBack[u] = [slots[u] EXCEPT !.crc = buf.crc]
         /\ u = cur + 1 => WrittenBack[u] = [slots[u] EXCEPT !.id = buf.id, !.body = Mix(slots[u].body, buf.body)]
<1>1. cur # cur + 1
  BY DEF TypeOK
<1> DEFINE b == Mix(slots[u].body, buf.body)
<1>2. WrittenBack[u] = CASE u = cur     -> [slots[u] EXCEPT !.crc = buf.crc]
                         [] u = cur + 1 -> [slots[u] EXCEPT !.id = buf.id, !.body = b]
                         [] OTHER       -> slots[u]
  BY DEF WrittenBack
<1> HIDE DEF b
<1>3. /\ u # cur /\ u # cur + 1 => WrittenBack[u] = slots[u]
      /\ u = cur => WrittenBack[u] = [slots[u] EXCEPT !.crc = buf.crc]
      /\ u = cur + 1 => WrittenBack[u] = [slots[u] EXCEPT !.id = buf.id, !.body = b]
  BY <1>1, <1>2
<1> QED BY <1>3 DEF b

\* The parts of a slot that BufInv says the buffer agrees with stay.
LEMMA WrittenBackKeeps ==
  ASSUME TypeOK, BufInv, pc = "save", NEW u \in Slots
  PROVE  /\ how[u] \in {"alone", "during", "cut"} => WrittenBack[u].id = slots[u].id
         /\ how[u] \in {"alone", "during"} => WrittenBack[u].body = slots[u].body
         /\ how[u] = "alone" => WrittenBack[u] = slots[u]
<1> DEFINE w == WrittenBack[u]
           b == Mix(slots[u].body, buf.body)
<1>0. slots[u] \in Content
  BY DEF TypeOK
<1>1. CASE u # cur /\ u # cur + 1
  BY <1>1, WrittenBackIs
<1>2. CASE u = cur
  <2>1. w = [slots[u] EXCEPT !.crc = buf.crc]
    BY <1>2, WrittenBackIs
  <2>2. how[u] = "alone" => buf.crc = slots[u].crc
    BY <1>2 DEF BufInv
  <2> HIDE DEF w
  <2>3. w.id = slots[u].id /\ w.body = slots[u].body /\ (how[u] = "alone" => w = slots[u])
    BY <2>1, <2>2, <1>0 DEF Content
  <2> QED BY <2>3 DEF w
<1>3. CASE u = cur + 1
  <2>1. w = [slots[u] EXCEPT !.id = buf.id, !.body = b]
    BY <1>3, WrittenBackIs
  <2>2. /\ how[u] \in {"alone", "during", "cut"} => buf.id = slots[u].id
        /\ how[u] \in {"alone", "during"} => buf.body = slots[u].body
    BY <1>3 DEF BufInv
  <2>3. how[u] \in {"alone", "during"} => b = slots[u].body
    BY <2>2 DEF Mix
  <2> HIDE DEF w, b
  <2>4. /\ how[u] \in {"alone", "during", "cut"} => w.id = slots[u].id
        /\ how[u] \in {"alone", "during"} => w.body = slots[u].body
        /\ how[u] = "alone" => w = slots[u]
    BY <2>1, <2>2, <2>3, <1>0 DEF Content
  <2> QED BY <2>4 DEF w
<1> QED BY <1>1, <1>2, <1>3

\* The seeks of the reading operations never shorten the file.
LEMMA SeekGrows ==
  ASSUME IInv,
         \/ Reload
         \/ \E a \in Ask : CrcGet(a[1], a[2])
         \/ \E u \in Slots : Get(u)
  PROVE  length' >= length
<1> USE DEF IInv, TypeOK
<1>0. length \in Int
  BY DEF Lengths, Absent
<1>1. CASE Reload
  <2>1. (length + 1) \div 2 \in Int
    BY <1>0
  <2>2. Extended(2 * ((length + 1) \div 2)) >= length
    BY <2>1, ExtendedType
  <2> QED BY <2>2, <1>0, <1>1 DEF Reload, ReloadLength, Larger, Empty, Absent
<1>2. ASSUME NEW a \in Ask, CrcGet(a[1], a[2]) PROVE length' >= length
  <2> DEFINE len == 2 * Larger(a[1], length \div 2 + 1) - 1
  <2>1. len \in Int
    BY <1>0 DEF Larger
  <2>2. Extended(len) >= length
    <3> HIDE DEF len
    <3> QED BY <2>1, ExtendedType
  <2>3. (length = Empty /\ length' = 0) \/ length' = length \/ length' = Extended(len)
    BY <1>2 DEF CrcGet
  <2> HIDE DEF len
  <2> QED BY <2>2, <2>3, <1>0 DEF Empty
<1>3. ASSUME NEW u \in Slots, Get(u) PROVE length' >= length
  BY <1>3, ExtendedType DEF Get, Slots
<1> QED BY <1>1, <1>2, <1>3

\* A step that leaves the slots, their history and the buffer alone, or stops a
\* save, and does not shorten the file.
LEMMA FrameStep ==
  ASSUME IInv, UNCHANGED <<slots, granted, how>>, length \in Int, length' \in Int, length' >= length,
         \/ UNCHANGED <<pc, cur, buf>>
         \/ pc' \in {"boot", "idle"}
         \/ pc' = "get" /\ cur' \in Slots /\ 2 * cur' <= length'
  PROVE  CurInv' /\ HeadInv' /\ WrittenAloneStays' /\ BufInv'
<1>1. \A u \in Slots : InFile(u) => InFile(u)'
  BY DEF InFile, Slots
<1>2. HeadInv'
  BY DEF IInv, HeadInv
<1>3. WrittenAloneStays'
  BY <1>1 DEF IInv, WrittenAloneStays
<1>4. CurInv' /\ BufInv'
  <2>1. CASE UNCHANGED <<pc, cur, buf>>
    BY <2>1, <1>1 DEF IInv, CurInv, BufInv
  <2>2. CASE pc' \in {"boot", "idle"}
    BY <2>2 DEF CurInv, BufInv
  <2>3. CASE pc' = "get" /\ cur' \in Slots /\ 2 * cur' <= length'
    BY <2>3 DEF CurInv, BufInv, InFile
  <2> QED BY <2>1, <2>2, <2>3
<1> QED BY <1>2, <1>3, <1>4

\* A write of the server is alone, or is remembered not to be.
LEMMA WriteStep ==
  ASSUME IInv, TypeOK', NEW u \in Slots, NEW v \in Versions \cup {None}, Write(u, v),
         length' >= length
  PROVE  CurInv' /\ HeadInv' /\ WrittenAloneStays' /\ BufInv'
<1>0. length \in Int /\ length' \in Int
  BY DEF IInv, TypeOK, Lengths, Absent
<1>1. /\ slots' = [slots EXCEPT ![u] = Stored(u, v)]
      /\ granted' = [granted EXCEPT ![u] = v]
      /\ how' = [how EXCEPT ![u] = Meets(u)]
      /\ UNCHANGED <<pc, cur, buf>>
      /\ 2 * u <= length'
  BY <1>0 DEF Write, Larger, Slots
<1>2. \A w \in Slots : InFile(w) => InFile(w)'
  BY <1>0 DEF InFile, Slots
<1>3. ASSUME NEW w \in Slots, w # u
      PROVE  slots'[w] = slots[w] /\ granted'[w] = granted[w] /\ how'[w] = how[w]
  BY <1>1, <1>3 DEF IInv, TypeOK
<1>4. slots'[u] = Stored(u, v) /\ granted'[u] = v /\ how'[u] = Meets(u)
  BY <1>1 DEF IInv, TypeOK
<1>5. /\ Meets(u) = "alone" => pc # "save"
      /\ Meets(u) \in {"alone", "beside", "during"}
      /\ u = cur + 1 /\ pc = "save" => Meets(u) = "beside"
  BY DEF Meets
<1>6. CurInv'
  BY <1>1, <1>2 DEF IInv, CurInv
<1>7. HeadInv'
  <2>1. SUFFICES ASSUME NEW w \in Slots
                 PROVE  /\ how'[w] \in {"alone", "during"} =>
                             slots'[w].id = Stored(w, granted'[w]).id /\ slots'[w].body = granted'[w]
                        /\ how'[w] = "cut" => slots'[w].id \in {0, w}
    BY DEF HeadInv
  <2>2. CASE w = u
    BY <2>2, <1>4, <1>5 DEF Stored
  <2>3. CASE w # u
    BY <2>3, <1>3 DEF IInv, HeadInv
  <2> QED BY <2>2, <2>3
<1>8. WrittenAloneStays'
  <2>1. SUFFICES ASSUME NEW w \in Slots, how'[w] = "alone"
                 PROVE  InFile(w)' /\ slots'[w] = Stored(w, granted'[w])
    BY DEF WrittenAloneStays
  <2>2. CASE w = u
    BY <2>2, <1>4, <1>1 DEF InFile
  <2>3. CASE w # u
    BY <2>3, <2>1, <1>2, <1>3 DEF IInv, WrittenAloneStays
  <2> QED BY <2>2, <2>3
<1>9. BufInv'
  <2>1. SUFFICES ASSUME pc = "save", NEW w \in Slots
                 PROVE  /\ how'[w] = "alone" => 2 * w <= buf.length
                        /\ how'[w] = "alone" /\ w = cur => buf.crc = slots'[w].crc
                        /\ how'[w] \in {"alone", "during", "cut"} /\ w = cur + 1 => buf.id = slots'[w].id
                        /\ how'[w] \in {"alone", "during"} /\ w = cur + 1 => buf.body = slots'[w].body
    BY <1>1 DEF BufInv
  <2>2. CASE w = u
    BY <2>1, <2>2, <1>4, <1>5
  <2>3. CASE w # u
    BY <2>1, <2>3, <1>3 DEF IInv, BufInv
  <2> QED BY <2>2, <2>3
<1> QED BY <1>6, <1>7, <1>8, <1>9

\* get_set_state loads what the card holds.
LEMMA OpenStep ==
  ASSUME IInv, SaveOpen
  PROVE  CurInv' /\ HeadInv' /\ WrittenAloneStays' /\ BufInv'
<1>0. length \in Int /\ length' = length /\ UNCHANGED <<slots, granted, how>>
  BY DEF IInv, TypeOK, Lengths, Absent, SaveOpen
<1>1. CASE pc' = "idle"
  BY <1>0, <1>1, FrameStep
<1>2. CASE /\ pc' = "save" /\ cur' = cur
           /\ buf' = [crc |-> slots[cur].crc, length |-> length,
                      id   |-> IF cur < MaxSlot THEN slots[cur + 1].id ELSE 0,
                      body |-> IF cur < MaxSlot THEN slots[cur + 1].body ELSE None]
  <2>1. buf'.crc = slots[cur].crc /\ buf'.length = length
    BY <1>2
  <2>2. cur + 1 \in Slots => buf'.id = slots[cur + 1].id /\ buf'.body = slots[cur + 1].body
    BY <1>2 DEF Slots, IInv, TypeOK
  <2>3. CurInv'
    BY <1>0, <1>2, <2>1 DEF IInv, CurInv, InFile, SaveOpen
  <2>4. BufInv'
    <3>1. \A u \in Slots : how[u] = "alone" => 2 * u <= length
      BY DEF IInv, WrittenAloneStays, InFile
    <3> QED BY <1>0, <1>2, <2>1, <2>2, <3>1 DEF BufInv
  <2>5. HeadInv' /\ WrittenAloneStays'
    BY <1>0 DEF IInv, HeadInv, WrittenAloneStays, InFile
  <2> QED BY <2>3, <2>4, <2>5
<1> QED BY <1>1, <1>2 DEF SaveOpen

\* close() writes back nothing that a lone write changed.
LEMMA CloseStep ==
  ASSUME IInv, SaveClose
  PROVE  CurInv' /\ HeadInv' /\ WrittenAloneStays' /\ BufInv'
<1>1. /\ pc = "save" /\ pc' = "idle" /\ slots' = WrittenBack /\ length' = buf.length
      /\ UNCHANGED <<granted, how>>
  BY DEF SaveClose
<1>2. TypeOK /\ BufInv
  BY DEF IInv
<1>3. \A u \in Slots : /\ how[u] \in {"alone", "during", "cut"} => slots'[u].id = slots[u].id
                       /\ how[u] \in {"alone", "during"} => slots'[u].body = slots[u].body
                       /\ how[u] = "alone" => slots'[u] = slots[u]
  BY <1>1, <1>2, WrittenBackKeeps
<1>4. HeadInv'
  BY <1>1, <1>3 DEF IInv, HeadInv
<1>5. WrittenAloneStays'
  <2>1. \A u \in Slots : how[u] = "alone" => 2 * u <= length'
    BY <1>1, <1>2 DEF BufInv
  <2> QED BY <2>1, <1>1, <1>3 DEF IInv, WrittenAloneStays, InFile
<1> QED BY <1>1, <1>4, <1>5 DEF CurInv, BufInv

\* After a power loss: what held and hist say of lone writes, and of ids, is what
\* is left to say.
LEMMA LeftStep ==
  ASSUME IInv, length' \in Int, length' >= length,
         NEW held, NEW hist, Left(held, hist),
         \A u \in Slots :
           /\ hist[u] \in {"alone", "during"} =>
                held[u].id = Stored(u, granted'[u]).id /\ held[u].body = granted'[u]
           /\ hist[u] = "cut" => held[u].id \in {0, u}
           /\ hist[u] = "alone" => InFile(u) /\ held[u] = Stored(u, granted'[u])
  PROVE  CurInv' /\ HeadInv' /\ WrittenAloneStays' /\ BufInv'
<1>0. length \in Int
  BY DEF IInv, TypeOK, Lengths, Absent
<1>1. PICK kept \in BOOLEAN :
        /\ slots' = [u \in Slots |-> IF kept \/ InFile(u) THEN held[u] ELSE Unwritten[u]]
        /\ how' = [u \in Slots |-> IF kept \/ InFile(u) THEN hist[u] ELSE "never"]
  BY DEF Left
<1>2. pc' = "boot"
  BY DEF Left
<1>3. ASSUME NEW u \in Slots, how'[u] # "never"
      PROVE  slots'[u] = held[u] /\ how'[u] = hist[u]
  BY <1>1, <1>3
<1>4. HeadInv'
  BY <1>3 DEF HeadInv
<1>5. \A u \in Slots : InFile(u) => InFile(u)'
  BY <1>0 DEF InFile, Slots
<1>6. WrittenAloneStays'
  <2>1. SUFFICES ASSUME NEW u \in Slots, how'[u] = "alone"
                 PROVE  InFile(u)' /\ slots'[u] = Stored(u, granted'[u])
    BY DEF WrittenAloneStays
  <2>2. slots'[u] = held[u] /\ hist[u] = "alone"
    BY <2>1, <1>3
  <2>3. InFile(u) /\ held[u] = Stored(u, granted'[u])
    BY <2>2
  <2> QED BY <2>2, <2>3, <1>5
<1> QED BY <1>2, <1>4, <1>6 DEF CurInv, BufInv

\* A power loss between two commands or in close().
LEMMA CutStep ==
  ASSUME IInv, Cut
  PROVE  CurInv' /\ HeadInv' /\ WrittenAloneStays' /\ BufInv'
<1>0. length \in Int /\ length' = length /\ UNCHANGED granted
  BY DEF IInv, TypeOK, Lengths, Absent, Cut
<1>1. \A u \in Slots :
        /\ how[u] \in {"alone", "during"} =>
             slots[u].id = Stored(u, granted[u]).id /\ slots[u].body = granted[u]
        /\ how[u] = "cut" => slots[u].id \in {0, u}
        /\ how[u] = "alone" => InFile(u) /\ slots[u] = Stored(u, granted[u])
  BY DEF IInv, HeadInv, WrittenAloneStays
<1>2. CASE Left(slots, how)
  BY <1>0, <1>1, <1>2, LeftStep
<1>3. CASE pc = "save" /\ Left(WrittenBack, how)
  <2>1. TypeOK /\ BufInv
    BY DEF IInv
  <2>2. \A u \in Slots : /\ how[u] \in {"alone", "during", "cut"} => WrittenBack[u].id = slots[u].id
                         /\ how[u] \in {"alone", "during"} => WrittenBack[u].body = slots[u].body
                         /\ how[u] = "alone" => WrittenBack[u] = slots[u]
    BY <2>1, <1>3, WrittenBackKeeps
  <2> DEFINE held == WrittenBack
  <2>3. \A u \in Slots :
          /\ how[u] \in {"alone", "during"} =>
               held[u].id = Stored(u, granted'[u]).id /\ held[u].body = granted'[u]
          /\ how[u] = "cut" => held[u].id \in {0, u}
          /\ how[u] = "alone" => InFile(u) /\ held[u] = Stored(u, granted'[u])
    BY <2>2, <1>1, <1>0
  <2>4. Left(held, how)
    BY <1>3
  <2> HIDE DEF held
  <2> QED BY <2>3, <2>4, <1>0, LeftStep
<1> QED BY <1>2, <1>3 DEF Cut

\* A power loss in a write leaves an id of the slot's user or none.
LEMMA CutInWriteStep ==
  ASSUME IInv, NEW u \in Slots, NEW v \in Versions \cup {None}, CutInWrite(u, v)
  PROVE  CurInv' /\ HeadInv' /\ WrittenAloneStays' /\ BufInv'
<1>0. length \in Int /\ length' \in Int /\ length' >= length
  BY DEF IInv, TypeOK, Lengths, Absent, CutInWrite, Larger, Empty
<1>1. PICK body \in {v, Mix(slots[u].body, v)} :
        Left([slots EXCEPT ![u] = [Stored(u, v) EXCEPT !.body = body, !.crc = slots[u].crc]],
             [how EXCEPT ![u] = "cut"])
  BY DEF CutInWrite
<1> DEFINE torn == [Stored(u, v) EXCEPT !.body = body, !.crc = slots[u].crc]
           held == [slots EXCEPT ![u] = torn]
           hist == [how EXCEPT ![u] = "cut"]
<1>2. torn.id \in {0, u}
  BY DEF Stored
<1>3. granted' = [granted EXCEPT ![u] = v]
  BY DEF CutInWrite
<1>4. Left(held, hist)
  BY <1>1
<1>5. held[u] = torn /\ hist[u] = "cut"
  BY DEF IInv, TypeOK
<1>6. ASSUME NEW w \in Slots, w # u
      PROVE  held[w] = slots[w] /\ hist[w] = how[w] /\ granted'[w] = granted[w]
  BY <1>3, <1>6 DEF IInv, TypeOK
<1> HIDE DEF torn, held, hist
<1>7. \A w \in Slots :
        /\ hist[w] \in {"alone", "during"} =>
             held[w].id = Stored(w, granted'[w]).id /\ held[w].body = granted'[w]
        /\ hist[w] = "cut" => held[w].id \in {0, w}
        /\ hist[w] = "alone" => InFile(w) /\ held[w] = Stored(w, granted'[w])
  <2>1. TAKE w \in Slots
  <2>2. CASE w = u
    BY <2>2, <1>2, <1>5
  <2>3. CASE w # u
    BY <2>3, <1>6 DEF IInv, HeadInv, WrittenAloneStays
  <2> QED BY <2>2, <2>3
<1> QED BY <1>0, <1>4, <1>7, LeftStep

\* The invariant is preserved.
LEMMA InvStep == IInv /\ [Next]_vars => IInv'
<1> SUFFICES ASSUME IInv, [Next]_vars PROVE IInv'
  OBVIOUS
<1>0. TypeOK'
  BY TypeStep DEF IInv
<1>1. length \in Int /\ length' \in Int
  BY <1>0 DEF IInv, TypeOK, Lengths, Absent
<1>2. ASSUME NEW u \in Slots, NEW v \in Versions \cup {None}, Write(u, v)
      PROVE  IInv'
  <2>1. length' >= length
    BY <1>1, <1>2 DEF Write, Larger, Slots
  <2> QED BY <2>1, <1>0, <1>2, WriteStep DEF IInv
<1>3. CASE Reload
  <2>1. length' >= length
    BY <1>3, SeekGrows
  <2>2. UNCHANGED <<slots, granted, how>> /\ (UNCHANGED <<pc, cur, buf>> \/ pc' \in {"boot", "idle"})
    BY <1>3 DEF Reload
  <2>3. CurInv' /\ HeadInv' /\ WrittenAloneStays' /\ BufInv'
    BY <2>1, <2>2, <1>1, FrameStep
  <2> QED BY <2>3, <1>0 DEF IInv
<1>4. ASSUME NEW a \in Ask, CrcGet(a[1], a[2]) PROVE IInv'
  <2>1. length' >= length
    BY <1>4, SeekGrows
  <2>2. UNCHANGED <<slots, granted, how>> /\ UNCHANGED <<pc, cur, buf>>
    BY <1>4 DEF CrcGet
  <2>3. CurInv' /\ HeadInv' /\ WrittenAloneStays' /\ BufInv'
    BY <2>1, <2>2, <1>1, FrameStep
  <2> QED BY <2>3, <1>0 DEF IInv
<1>5. ASSUME NEW u \in Slots, Get(u) PROVE IInv'
  <2>1. length' >= length
    BY <1>5, SeekGrows
  <2>2. /\ UNCHANGED <<slots, granted, how>>
        /\ UNCHANGED <<pc, cur, buf>> \/ (pc' = "get" /\ cur' = u /\ 2 * u <= length)
    BY <1>5 DEF Get, Admissible, InFile
  <2>3. pc' = "get" /\ cur' = u /\ 2 * u <= length => 2 * cur' <= length'
    BY <2>1, <1>1 DEF Slots
  <2>4. CurInv' /\ HeadInv' /\ WrittenAloneStays' /\ BufInv'
    BY <2>1, <2>2, <2>3, <1>1, FrameStep
  <2> QED BY <2>4, <1>0 DEF IInv
<1>6. CASE SaveOpen
  BY <1>6, <1>0, OpenStep DEF IInv
<1>7. CASE SaveClose
  BY <1>7, <1>0, CloseStep DEF IInv
<1>8. CASE Cut
  BY <1>8, <1>0, CutStep DEF IInv
<1>9. ASSUME NEW u \in Slots, NEW v \in Versions \cup {None}, CutInWrite(u, v)
      PROVE  IInv'
  BY <1>9, <1>0, CutInWriteStep DEF IInv
<1>10. CASE UNCHANGED vars
  <2>1. CurInv' /\ HeadInv' /\ WrittenAloneStays' /\ BufInv'
    BY <1>10, <1>1, FrameStep DEF vars
  <2> QED BY <2>1, <1>0 DEF IInv
<1> QED
  BY <1>2, <1>3, <1>4, <1>5, <1>6, <1>7, <1>8, <1>9, <1>10 DEF Next, Step, PowerCut

\* At the start the file holds what the server has stored, from slot 1 on.
LEMMA InvInit == Init => IInv
<1> SUFFICES ASSUME Init PROVE IInv
  OBVIOUS
<1>1. PICK n \in 0..MaxSlot :
       /\ length = IF n = 0 THEN Absent ELSE 2 * n
       /\ slots = [u \in Slots |-> IF u <= n THEN Stored(u, granted[u]) ELSE Unwritten[u]]
       /\ how = [u \in Slots |-> IF u <= n THEN "alone" ELSE "never"]
  BY DEF Init
<1>2. granted \in [Slots -> Versions \cup {None}] /\ pc = "boot" /\ cur = 0 /\ buf = NoBuf /\ cuts = 0
  BY DEF Init
<1>3. \A u \in Slots : how[u] \in {"alone", "never"} /\ (how[u] = "alone" => u <= n /\ slots[u] = Stored(u, granted[u]))
  BY <1>1
<1>4. TypeOK
  <2>1. \A u \in Slots : Stored(u, granted[u]) \in Content
    BY <1>2, StoredType
  <2>2. slots \in [Slots -> Content] /\ how \in [Slots -> {"never", "alone", "during", "beside", "cut"}]
    BY <2>1, <1>1
  <2>3. length \in Lengths
    BY <1>1 DEF Lengths, Absent
  <2>4. NoBuf \in [crc : Versions \cup {None, Junk}, id : Ids,
                   body : Versions \cup {None, Mixed, Junk}, length : Lengths]
    BY DEF NoBuf, Lengths, Absent, Ids
  <2> QED BY <2>2, <2>3, <2>4, <1>2 DEF TypeOK
<1>5. HeadInv
  <2>1. ASSUME NEW u \in Slots, how[u] \in {"alone", "during"}
        PROVE  slots[u].id = Stored(u, granted[u]).id /\ slots[u].body = granted[u]
    <3>1. slots[u] = Stored(u, granted[u])
      BY <2>1, <1>3
    <3> QED BY <3>1 DEF Stored
  <2>2. \A u \in Slots : how[u] # "cut"
    BY <1>3
  <2> QED BY <2>1, <2>2 DEF HeadInv
<1>6. WrittenAloneStays
  BY <1>1, <1>3 DEF WrittenAloneStays, InFile, Slots
<1> QED BY <1>2, <1>4, <1>5, <1>6 DEF IInv, CurInv, BufInv

-----------------------------------------------------------------------------
(* The properties *)

\* The invariant holds.
LEMMA InvHolds == Spec => []IInv
BY InvInit, InvStep, PTL DEF Spec

\* Every variable keeps its type, for any bytes in the slots nobody wrote.
THEOREM TypeCorrect == Spec => []TypeOK
<1>1. IInv => TypeOK
  BY DEF IInv
<1> QED BY <1>1, InvHolds, PTL

\* What the server wrote while no state was being saved stays.
THEOREM LoneWritesStay == Spec => []WrittenAloneStays
<1>1. IInv => WrittenAloneStays
  BY DEF IInv
<1> QED BY <1>1, InvHolds, PTL

\* A CRC that is what the server expects comes from the whole record it expects.
THEOREM SyncIsSound == Spec => []SyncSeesLoss
<1>1. IInv => SyncSeesLoss
  <2>1. SUFFICES ASSUME IInv, NEW u \in Slots, how[u] \in {"alone", "during"}, InSync(u)
                 PROVE  IF granted[u] = None THEN ~Admissible(u)
                                             ELSE Admissible(u) /\ slots[u].body = granted[u]
    BY DEF SyncSeesLoss
  <2>2. slots[u].id = Stored(u, granted[u]).id /\ slots[u].body = granted[u]
    BY <2>1 DEF IInv, HeadInv
  <2>3. CASE granted[u] = None
    BY <2>2, <2>3 DEF Admissible
  <2>4. CASE granted[u] # None
    <3>1. CrcGetOk(u, 1) /\ CrcsGot(u, 1) = <<granted[u]>>
      BY <2>1, <2>4 DEF InSync
    <3>2. MaxId \in Ids
      BY <2>1, MaxIdIsMax DEF IInv
    <3>3. ~ (u > MaxId)
      BY <3>1 DEF CrcsGot
    <3>4. NumCut(u, 1) = 1
      BY <3>2, <3>3 DEF NumCut, Ids, Slots
    <3>5. CrcsGot(u, 1) = [i \in 1..1 |-> slots[u + i - 1].crc]
      BY <3>3, <3>4 DEF CrcsGot
    <3>6. slots[u + 1 - 1].crc = granted[u]
      <4>1. [i \in 1..1 |-> slots[u + i - 1].crc][1] = <<granted[u]>>[1]
        BY <3>1, <3>5
      <4> QED BY <4>1
    <3>7. slots[u].crc = granted[u]
      BY <3>6 DEF Slots
    <3>8. InFile(u)
      <4>1. u \in u..(u + NumCut(u, 1) - 1)
        BY <3>4 DEF Slots
      <4> QED BY <4>1, <3>1, <3>3 DEF CrcGetOk
    <3>9. slots[u].id = u /\ granted[u] \in Versions
      BY <2>1, <2>2, <2>4 DEF Stored, IInv, TypeOK
    <3> QED BY <2>2, <2>4, <3>7, <3>8, <3>9 DEF Admissible
  <2> QED BY <2>3, <2>4
<1> QED BY <1>1, InvHolds, PTL

\* LIST_RELOAD fails only for a slot that was never written or put back.
THEOREM ReloadsWork == Spec => []ReloadWorks
<1>1. IInv => ReloadWorks
  <2>1. SUFFICES ASSUME IInv, length >= 0,
                        \A u \in Slots : HeadReadable(u) => how[u] \notin {"never", "beside"}
                 PROVE  ReloadOk
    BY DEF ReloadWorks
  <2>0. length \in Int
    BY <2>1 DEF IInv, TypeOK, Lengths, Absent
  <2>2. ASSUME NEW u \in Slots, HeadReadable(u) PROVE slots[u].id \in {0, u}
    <3>1. how[u] \in {"alone", "during", "cut"}
      BY <2>1, <2>2 DEF IInv, TypeOK
    <3> QED BY <3>1, <2>1 DEF IInv, HeadInv, Stored
  <2>3. /\ MaxId \in Ids
        /\ \A u \in Counted : slots[u].id <= MaxId
        /\ Counted # {} => \E u \in Counted : slots[u].id = MaxId
    BY <2>1, MaxIdIsMax DEF IInv
  <2>4. \A u \in Counted : u \in Slots /\ InFile(u) /\ HeadReadable(u) /\ slots[u].id = u
    BY <2>0, <2>2 DEF Counted, InFile, HeadReadable, Slots
  <2>5. \A u \in 1..MaxId : u \in Slots /\ InFile(u)
    <3>1. CASE Counted = {}
      <4>1. MaxId = 0
        <5>1. {slots[u].id : u \in Counted} = {}
          BY <3>1
        <5> QED BY <5>1 DEF MaxId, LargestOf
      <4> QED BY <4>1
    <3>2. CASE Counted # {}
      <4>1. MaxId \in Slots /\ InFile(MaxId)
        BY <3>2, <2>3, <2>4
      <4> QED BY <4>1, <2>0 DEF Slots, InFile
    <3> QED BY <3>1, <3>2
  <2>6. \A u \in 1..MaxId : HeadReadable(u)
    BY <2>0, <2>5 DEF HeadReadable, InFile, Slots
  <2>7. {u \in 1..MaxId : slots[u].id # 0} = Counted
    <3>1. \A u \in 1..MaxId : slots[u].id # 0 => u \in Counted
      BY <2>5 DEF Counted
    <3>2. \A u \in Counted : u \in 1..MaxId /\ slots[u].id # 0
      BY <2>3, <2>4 DEF Slots, Ids, Counted
    <3> QED BY <3>1, <3>2
  <2> QED BY <2>1, <2>6, <2>7 DEF ReloadOk, NumGetOk
<1> QED BY <1>1, InvHolds, PTL

\* The answer to USER_CRC_GET has as many CRCs as there are users asked for up to
\* the largest id.
THEOREM AnswersCover == Spec => []AnswerIsComplete
<1>1. TypeOK => AnswerIsComplete
  <2>1. SUFFICES ASSUME TypeOK, NEW a \in Ask, CrcGetOk(a[1], a[2])
                 PROVE  CrcsGot(a[1], a[2])
                          = [i \in 1..Cardinality((a[1]..(a[1] + a[2] - 1)) \cap (1..MaxId))
                               |-> slots[a[1] + i - 1].crc]
    BY DEF AnswerIsComplete
  <2>2. a[1] \in Nat /\ a[2] \in Nat
    OBVIOUS
  <2> DEFINE s == a[1]
             n == a[2]
             Both == (s..(s + n - 1)) \cap (1..MaxId)
  <2>3. MaxId \in Nat
    BY <2>1, MaxIdIsMax DEF Ids
  <2>4. CASE s > MaxId
    <3>1. Both = {}
      BY <2>2, <2>3, <2>4
    <3>2. Cardinality(Both) = 0
      BY <3>1, FS_EmptySet
    <3>3. CrcsGot(s, n) = <<>>
      BY <2>4 DEF CrcsGot
    <3>4. <<>> = [i \in 1..0 |-> slots[s + i - 1].crc]
      OBVIOUS
    <3> HIDE DEF s, n, Both
    <3>5. CrcsGot(s, n) = [i \in 1..Cardinality(Both) |-> slots[s + i - 1].crc]
      BY <3>2, <3>3, <3>4
    <3> QED BY <3>5 DEF s, n, Both
  <2>5. CASE ~ (s > MaxId)
    <3>1. s >= 1
      BY <2>1, <2>2, <2>5 DEF CrcGetOk
    <3>2. NumCut(s, n) \in Nat /\ Both = s..(s + NumCut(s, n) - 1)
      BY <2>2, <2>3, <2>5, <3>1 DEF NumCut
    <3>3. Cardinality(Both) = NumCut(s, n)
      <4> DEFINE e == s + NumCut(s, n) - 1
      <4>1. s \in Int /\ e \in Int
        BY <2>2, <3>2
      <4>2. Cardinality(s..e) = IF s > e THEN 0 ELSE e - s + 1
        <5> HIDE DEF s, e
        <5> QED BY <4>1, FS_Interval
      <4>3. Both = s..e
        BY <3>2
      <4>4. (IF s > e THEN 0 ELSE e - s + 1) = NumCut(s, n)
        BY <3>2, <2>2
      <4> HIDE DEF s, n, e, Both
      <4> QED BY <4>2, <4>3, <4>4
    <3>4. CrcsGot(s, n) = [i \in 1..NumCut(s, n) |-> slots[s + i - 1].crc]
      BY <2>5 DEF CrcsGot
    <3> HIDE DEF s, n, Both
    <3>5. CrcsGot(s, n) = [i \in 1..Cardinality(Both) |-> slots[s + i - 1].crc]
      BY <3>3, <3>4
    <3> QED BY <3>5 DEF s, n, Both
  <2> QED BY <2>4, <2>5
<1>2. IInv => TypeOK
  BY DEF IInv
<1> QED BY <1>1, <1>2, InvHolds, PTL
=============================================================================
