------------------------- MODULE AttDatabase_proofs -------------------------
(***************************************************************************)
(* For any set of records, file size, set of requests and number of power  *)
(* losses: the attendance file counts at most one record per power loss    *)
(* that it does not hold, ATT_GET's answer is complete without one, and no *)
(* admission's record is lost.  The invariant says what user_check may     *)
(* rely on between reading the header and writing it back: the slots below *)
(* the count it read are as good as the power losses left them, and the    *)
(* count on the card has not grown.                                        *)
(***************************************************************************)
EXTENDS AttDatabase, FiniteSetTheorems, TLAPS

USE SlotAssumption, HeaderAssumption, AskAssumption

\* What att_record_add holds in its locals at each of its steps.
AddInv ==
  /\ addPc # "idle" =>
       /\ hdr # NoHeader /\ hdr.total <= add.total /\ add.total < MaxTotal
       /\ Cardinality(Holes(add.total)) <= cuts
  /\ addPc = "close" =>
       slots[add.total] # Blank /\ slots[add.total].info = add.info
  /\ addPc = "check" => (add.hdrCrc = TRUE => hdr.crc = TRUE)
  /\ addPc \in {"record", "header", "close"} => hdr.crc = TRUE

\* From record_header_get_set on the new file has a header, and after the
\* header's rejection the wipe writes no other count than 0.
WipeInv ==
  /\ wipePc \in {"init", "verify", "rewrite", "close"} => hdr # NoHeader
  /\ wipePc \in {"rewrite", "close"} => wipe.total = 0

IInv == TypeOK /\ HolesBoundedByCuts /\ AddInv /\ WipeInv /\ GetAnswersAll

-----------------------------------------------------------------------------
(* Holes *)

\* The holes among the first n slots s of a file of z slots.
HolesIn(n, z, s) == {i \in 0..(n - 1) : i >= z \/ s[i] = Blank}

\* There are finitely many.
LEMMA HolesFinite ==
  ASSUME NEW n \in Nat, NEW z, NEW s
  PROVE  IsFiniteSet(HolesIn(n, z, s)) /\ Cardinality(HolesIn(n, z, s)) \in Nat
<1>1. IsFiniteSet(0..(n - 1))
  BY FS_Interval
<1>2. HolesIn(n, z, s) \in SUBSET (0..(n - 1))
  BY DEF HolesIn
<1>3. IsFiniteSet(HolesIn(n, z, s))
  BY <1>1, <1>2, FS_Subset
<1> QED
  BY <1>3, FS_CardinalityType

\* Fewer holes are not more.
LEMMA FewerHoles ==
  ASSUME NEW n \in Nat, NEW z, NEW s, NEW m \in Nat, NEW y, NEW t,
         HolesIn(n, z, s) \subseteq HolesIn(m, y, t)
  PROVE  /\ Cardinality(HolesIn(n, z, s)) \in Nat
         /\ Cardinality(HolesIn(m, y, t)) \in Nat
         /\ Cardinality(HolesIn(n, z, s)) <= Cardinality(HolesIn(m, y, t))
BY HolesFinite, FS_Subset

\* An empty file has no holes.
LEMMA NoHoles == \A z, s : Cardinality(HolesIn(0, z, s)) = 0
<1> TAKE z, s
<1>1. HolesIn(0, z, s) = {}
  BY DEF HolesIn
<1> QED
  BY <1>1, FS_EmptySet

\* One slot more is one hole more at most.
LEMMA OneHoleMore ==
  ASSUME NEW n \in Nat, NEW z, NEW s
  PROVE  Cardinality(HolesIn(n + 1, z, s)) <= Cardinality(HolesIn(n, z, s)) + 1
<1> DEFINE H == HolesIn(n, z, s)
<1>1. IsFiniteSet(H) /\ Cardinality(H) \in Nat
  BY HolesFinite
<1>3. HolesIn(n + 1, z, s) \subseteq H \cup {n}
  BY DEF HolesIn
<1> HIDE DEF H
<1>2. IsFiniteSet(H \cup {n}) /\ Cardinality(H \cup {n}) <= Cardinality(H) + 1
  <2>1. /\ IsFiniteSet(H \cup {n})
        /\ Cardinality(H \cup {n}) = IF n \in H THEN Cardinality(H) ELSE Cardinality(H) + 1
    BY <1>1, FS_AddElement
  <2> QED
    BY <1>1, <2>1
<1>4. Cardinality(HolesIn(n + 1, z, s)) <= Cardinality(H \cup {n})
  BY <1>2, <1>3, FS_Subset
<1>5. Cardinality(HolesIn(n + 1, z, s)) \in Nat /\ Cardinality(H \cup {n}) \in Nat
  BY <1>2, <1>3, FS_Subset, FS_CardinalityType
<1> QED
  BY <1>1, <1>2, <1>4, <1>5 DEF H

\* A file without holes is stored up to its count.
LEMMA NoHoleStored ==
  ASSUME NEW n \in Nat, NEW z, NEW s, Cardinality(HolesIn(n, z, s)) <= 0
  PROVE  \A i \in 0..(n - 1) : ~(i >= z) /\ s[i] # Blank
<1>1. IsFiniteSet(HolesIn(n, z, s)) /\ Cardinality(HolesIn(n, z, s)) \in Nat
  BY HolesFinite
<1>2. HolesIn(n, z, s) = {}
  BY <1>1, FS_EmptySet
<1> QED
  BY <1>2 DEF HolesIn

\* The unwritten slot is no slot.
LEMMA BlankIsNoSlot == \A s \in Slot : s # Blank
  BY DEF Slot

\* No header is not a header.
LEMMA NoHeaderIsNoHeader == \A h \in Header : h # NoHeader
  BY DEF Header

\* RecordsGot returns the whole of a stored prefix of the file.
LEMMA RecordsGotComplete ==
  ASSUME TypeOK, NEW n \in 0..MaxTotal,
         \A i \in 0..(n - 1) : i < size /\ slots[i] # Blank
  PROVE  /\ Len(RecordsGot(n)) = n
         /\ \A i \in 1..n : RecordsGot(n)[i] # Blank
<1>1. n <= size
  <2>1. CASE n = 0 BY <2>1 DEF TypeOK
  <2>2. CASE n # 0
    <3>1. n - 1 \in 0..(n - 1) BY <2>2
    <3>2. n - 1 < size BY <3>1
    <3>3. size \in Nat BY DEF TypeOK
    <3> QED BY <3>2, <3>3
  <2> QED BY <2>1, <2>2
<1>2. RecordsGot(n) = [i \in 1..n |-> slots[n - i]]
  BY <1>1 DEF RecordsGot, TypeOK
<1>3. \A i \in 1..n : slots[n - i] # Blank
  <2> TAKE i \in 1..n
  <2>1. n - i \in 0..(n - 1) OBVIOUS
  <2> QED BY <2>1
<1>4. Len([i \in 1..n |-> slots[n - i]]) = n
  OBVIOUS
<1> QED BY <1>2, <1>3, <1>4

\* Whatever RecordsGot returns, stored or not, is a sequence of slots.
LEMMA RecordsGotType ==
  ASSUME TypeOK, NEW n \in 0..MaxTotal
  PROVE  RecordsGot(n) \in Seq(Slot \cup {Blank})
<1>1. \A i \in 1..n : slots[n - i] \in Slot \cup {Blank}
  <2> TAKE i \in 1..n
  <2>1. n - i \in 0..(MaxTotal - 1) OBVIOUS
  <2> QED BY <2>1 DEF TypeOK
<1>2. [i \in 1..n |-> slots[n - i]] \in [1..n -> Slot \cup {Blank}]
  BY <1>1
<1>3. [i \in 1..n |-> slots[n - i]] \in Seq(Slot \cup {Blank})
  BY <1>2
<1> QED BY <1>3 DEF RecordsGot

\* What block_crc_calc computes is right or wrong.
LEMMA CrcRightIsBoolean == \A t : CrcRight(t) \in BOOLEAN
  BY DEF CrcRight

\* The header after the sector of the record was written out: at most the count
\* of the admission's beginning, and its CRC right.
HeaderReturns ==
  /\ hdr' \in Header /\ hdr' # NoHeader
  /\ hdr'.total <= add.total /\ hdr'.crc = TRUE
  /\ Cardinality(HolesIn(hdr'.total, size, slots)) <= cuts

\* The record's sector holds the header as AddOpen read it, or is another one.
LEMMA HeaderReturnsFrom ==
  ASSUME IInv, addPc \in {"record", "header"}, HeaderMayReturn
  PROVE  HeaderReturns
<1>1. /\ hdr \in Header /\ hdr # NoHeader /\ hdr.total <= add.total /\ hdr.crc = TRUE
      /\ Cardinality(HolesIn(hdr.total, size, slots)) <= cuts
      /\ Cardinality(HolesIn(add.total, size, slots)) <= cuts
      /\ add.total \in 0..MaxTotal
  BY DEF IInv, AddInv, HolesBoundedByCuts, Holes, HolesIn, TypeOK
<1>2. CASE hdr' = hdr
  BY <1>1, <1>2 DEF HeaderReturns
<1>3. CASE hdr' = HeaderAsRead
  <2>1. hdr'.total = add.total /\ hdr'.crc = TRUE
    BY <1>3 DEF HeaderAsRead
  <2>2. hdr' \in Header
    BY <1>1, <1>3 DEF HeaderAsRead, Header
  <2> QED
    BY <1>1, <2>1, <2>2, NoHeaderIsNoHeader DEF HeaderReturns
<1> QED
  BY <1>2, <1>3 DEF HeaderMayReturn

-----------------------------------------------------------------------------
(* The invariant *)

\* The initial file is empty.
LEMMA InitIInv == Init => IInv
<1> SUFFICES ASSUME Init PROVE IInv
  OBVIOUS
<1>1. add \in [info : Info, infoCrc : BOOLEAN, total : 0..MaxTotal, hdrCrc : BOOLEAN,
             size : 0..MaxTotal]
  BY DEF Init
<1>2. hdr \in Header /\ hdr.total = 0
  BY DEF Init, Header
<1>3. got \in [lenth : Nat, total : 0..MaxTotal, records : Seq(Slot \cup {Blank})]
  BY DEF Init
<1>4. TypeOK
  BY <1>1, <1>2, <1>3 DEF Init, TypeOK
<1>5. HolesBoundedByCuts
  <2>1. Holes(hdr.total) = HolesIn(0, size, slots)
    BY <1>2 DEF Holes, HolesIn
  <2>2. cuts = 0
    BY DEF Init
  <2> QED
    BY <2>1, <2>2, NoHoles DEF HolesBoundedByCuts
<1>6. AddInv /\ WipeInv
  BY <1>2 DEF Init, AddInv, WipeInv
<1>7. GetAnswersAll
  BY DEF Init, GetAnswersAll, Smaller
<1> QED BY <1>4, <1>5, <1>6, <1>7 DEF IInv

\* A step that moves no hole into the counted slots keeps the bound.
LEMMA HolesStep ==
  ASSUME NEW n \in Nat, NEW z, NEW s, NEW m \in Nat, NEW y, NEW t, NEW k \in Nat,
         Cardinality(HolesIn(m, y, t)) <= k,
         HolesIn(n, z, s) \subseteq HolesIn(m, y, t)
  PROVE  Cardinality(HolesIn(n, z, s)) <= k
BY FewerHoles

\* Every step of the threads preserves the invariant.
LEMMA StepIInv == IInv /\ Next => IInv'
<1> SUFFICES ASSUME IInv, Next PROVE IInv'
  OBVIOUS
<1>c. cuts' = cuts /\ cuts \in Nat
  BY DEF Next, IInv, TypeOK
<1> DEFINE AddIs(pc, h, a, z, s, k) ==
             /\ pc # "idle" => /\ h # NoHeader /\ h.total <= a.total /\ a.total < MaxTotal
                               /\ Cardinality(HolesIn(a.total, z, s)) <= k
             /\ pc = "close" => s[a.total] # Blank /\ s[a.total].info = a.info
             /\ pc = "check" => (a.hdrCrc = TRUE => h.crc = TRUE)
             /\ pc \in {"record", "header", "close"} => h.crc = TRUE
           HolesAre(h, z, s, k) == h # NoHeader => Cardinality(HolesIn(h.total, z, s)) <= k
<1>i. /\ TypeOK /\ WipeInv /\ GetAnswersAll
      /\ AddIs(addPc, hdr, add, size, slots, cuts) /\ HolesAre(hdr, size, slots, cuts)
  BY DEF IInv, AddInv, HolesBoundedByCuts, Holes, HolesIn
<1>n. /\ TypeOK' /\ WipeInv' /\ GetAnswersAll'
      /\ AddIs(addPc', hdr', add', size', slots', cuts') /\ HolesAre(hdr', size', slots', cuts')
      => IInv'
  BY DEF IInv, AddInv, HolesBoundedByCuts, Holes, HolesIn
<1>1. ASSUME NEW r \in Info, AddOpen(r) PROVE IInv'
  <2>1. hdr \in Header BY <1>1, <1>i DEF AddOpen, TypeOK
  <2>2. TypeOK' BY <1>c, <1>1, <1>i, <2>1 DEF AddOpen, TypeOK, Header
  <2>3. AddIs(addPc', hdr', add', size', slots', cuts')
    BY <1>c, <1>1, <1>i, <2>1 DEF AddOpen, Header
  <2>4. HolesAre(hdr', size', slots', cuts') BY <1>c, <1>1, <1>i DEF AddOpen
  <2> QED BY <1>c, <1>1, <1>i, <1>n, <2>2, <2>3, <2>4 DEF AddOpen, WipeInv, GetAnswersAll
<1>2. CASE AddCheck
  <2>1. TypeOK' BY <1>c, <1>2, <1>i DEF AddCheck, TypeOK
  <2>3. AddIs(addPc', hdr', add', size', slots', cuts') BY <1>c, <1>2, <1>i DEF AddCheck
  <2>4. HolesAre(hdr', size', slots', cuts') BY <1>c, <1>2, <1>i DEF AddCheck
  <2> QED BY <1>c, <1>2, <1>i, <1>n, <2>1, <2>3, <2>4 DEF AddCheck, WipeInv, GetAnswersAll
<1>3. CASE AddWriteRecord
  <2>1. add.total \in 0..(MaxTotal - 1) /\ add.total \in Nat
    BY <1>3, <1>i DEF AddWriteRecord, TypeOK
  <2>2. HeaderReturns
    BY <1>3, <1>i, HeaderReturnsFrom DEF AddWriteRecord
  <2>3. /\ add' = [info |-> add.info, infoCrc |-> CrcRight("user_check"), total |-> add.total,
                   hdrCrc |-> add.hdrCrc, size |-> add.size]
        /\ add'.total = add.total
    BY <1>3, <1>i DEF AddWriteRecord, TypeOK
  <2>4. TypeOK' BY <1>c, <1>3, <1>i, <2>2, <2>3, CrcRightIsBoolean
                 DEF AddWriteRecord, HeaderReturns, TypeOK
  <2>5. AddIs(addPc', hdr', add', size', slots', cuts')
    BY <1>c, <1>3, <1>i, <2>1, <2>2, <2>3, NoHeaderIsNoHeader DEF AddWriteRecord, HeaderReturns
  <2>6. HolesAre(hdr', size', slots', cuts')
    BY <1>c, <1>3, <1>i, <2>2 DEF AddWriteRecord, HeaderReturns
  <2> QED BY <1>c, <1>3, <1>i, <1>n, <2>2, <2>4, <2>5, <2>6, NoHeaderIsNoHeader
             DEF AddWriteRecord, HeaderReturns, WipeInv, GetAnswersAll
<1>4. CASE AddWriteHeader
  <2> DEFINE rec == [info |-> add.info, crc |-> add.infoCrc]
  <2>1. rec \in Slot /\ rec # Blank /\ rec.info = add.info
    BY <1>i, BlankIsNoSlot DEF TypeOK, Slot
  <2>2. add.total \in 0..(MaxTotal - 1) /\ add.total \in Nat
    BY <1>4, <1>i DEF AddWriteHeader, TypeOK
  <2>3. slots' = [slots EXCEPT ![add.total] = rec]
    BY <1>4 DEF AddWriteHeader
  <2>h. HeaderReturns
    BY <1>4, <1>i, HeaderReturnsFrom DEF AddWriteHeader
  <2>a. /\ add' = [info |-> add.info, infoCrc |-> FALSE, total |-> add.total,
                   hdrCrc |-> CrcRight("user_check"), size |-> add.size]
        /\ add'.total = add.total /\ add'.info = add.info
    BY <1>4, <1>i DEF AddWriteHeader, TypeOK
  <2> HIDE DEF rec
  <2>4. TypeOK'
    <3>1. slots' \in [0..(MaxTotal - 1) -> Slot \cup {Blank}]
      BY <1>i, <2>1, <2>2, <2>3 DEF TypeOK
    <3>2. add' \in [info : Info, infoCrc : BOOLEAN, total : 0..MaxTotal, hdrCrc : BOOLEAN,
                    size : 0..MaxTotal]
      BY <1>i, <2>a, CrcRightIsBoolean DEF TypeOK
    <3>3. hdr' \in Header \cup {NoHeader}
      BY <2>h DEF HeaderReturns
    <3> QED BY <1>c, <1>4, <1>i, <3>1, <3>2, <3>3 DEF AddWriteHeader, TypeOK
  <2>5. slots'[add.total] # Blank /\ slots'[add.total].info = add.info
    BY <1>i, <2>1, <2>2, <2>3 DEF TypeOK
  <2>6. \A n \in 0..MaxTotal : HolesIn(n, size', slots') \subseteq HolesIn(n, size, slots)
    BY <1>4, <1>i, <2>2, <2>3, <2>5 DEF AddWriteHeader, TypeOK, HolesIn
  <2>7. \A n \in 0..MaxTotal : Cardinality(HolesIn(n, size, slots)) <= cuts
                                => Cardinality(HolesIn(n, size', slots')) <= cuts
    BY <1>c, <2>6, HolesStep
  <2>8. Cardinality(HolesIn(add.total, size', slots')) <= cuts
    <3>1. Cardinality(HolesIn(add.total, size, slots)) <= cuts
      BY <1>4, <1>i DEF AddWriteHeader
    <3> QED BY <2>2, <2>7, <3>1
  <2>9. AddIs(addPc', hdr', add', size', slots', cuts')
    BY <1>c, <1>4, <1>i, <2>2, <2>5, <2>8, <2>a, <2>h, NoHeaderIsNoHeader
       DEF AddWriteHeader, HeaderReturns
  <2>10. HolesAre(hdr', size', slots', cuts')
    <3>1. hdr' \in Header /\ hdr'.total \in 0..MaxTotal BY <2>h DEF HeaderReturns, Header
    <3>2. Cardinality(HolesIn(hdr'.total, size, slots)) <= cuts
      BY <1>i, <2>h DEF HeaderReturns
    <3> QED BY <1>c, <2>7, <3>1, <3>2
  <2> QED BY <1>c, <1>4, <1>i, <1>n, <2>4, <2>9, <2>10, <2>h, NoHeaderIsNoHeader
             DEF AddWriteHeader, HeaderReturns, WipeInv, GetAnswersAll
<1>5. CASE AddClose
  <2>1. add.total \in 0..(MaxTotal - 1) /\ add.total \in Nat
    BY <1>5, <1>i DEF AddClose, TypeOK
  <2>2. size' \in 0..MaxTotal /\ add.total < size'
    BY <1>5, <1>i, <2>1 DEF AddClose, Larger, TypeOK
  <2>3. hdr' \in Header /\ hdr'.total = add.total + 1
    BY <1>5, <1>i, <2>1 DEF AddClose, Header, TypeOK
  <2>4. TypeOK' BY <1>c, <1>5, <1>i, <2>2, <2>3 DEF AddClose, TypeOK
  <2>5. slots' = slots /\ addPc' = "idle" BY <1>5 DEF AddClose
  <2>6. HolesIn(add.total + 1, size', slots') \subseteq HolesIn(add.total, size, slots)
    <3> SUFFICES ASSUME NEW i \in HolesIn(add.total + 1, size', slots)
                 PROVE  i \in HolesIn(add.total, size, slots)
      BY <2>5
    <3>1. i \in 0..add.total /\ (i >= size' \/ slots[i] = Blank)
      BY <2>1 DEF HolesIn
    <3>2. ~(i >= size') BY <2>1, <2>2, <3>1
    <3>3. i # add.total BY <1>5, <1>i, <3>1, <3>2 DEF AddClose
    <3> QED BY <2>1, <3>1, <3>2, <3>3 DEF HolesIn
  <2>7. Cardinality(HolesIn(add.total + 1, size', slots')) <= cuts
    BY <1>c, <1>5, <1>i, <2>1, <2>6, HolesStep DEF AddClose
  <2>8. HolesAre(hdr', size', slots', cuts') BY <1>c, <2>3, <2>7
  <2>9. AddIs(addPc', hdr', add', size', slots', cuts') BY <2>5
  <2>10. hdr' # NoHeader BY <2>3, NoHeaderIsNoHeader
  <2> QED BY <1>c, <1>5, <1>i, <1>n, <2>4, <2>8, <2>9, <2>10 DEF AddClose, WipeInv, GetAnswersAll
<1>6. ASSUME NEW n \in AskNums, Del(n) PROVE IInv'
  <2>0. UNCHANGED <<slots, size, addPc, add, wipePc, wipe, got>> BY <1>6 DEF Del
  <2>1. CASE HeaderReadable
    <3>1. hdr \in Header BY <2>1, <1>i DEF HeaderReadable, TypeOK
    <3>2. hdr'.total \in 0..hdr.total /\ hdr' \in Header
      BY <1>6, <2>1, <3>1 DEF Del, Header
    <3>3. TypeOK' BY <1>c, <1>6, <1>i, <3>2 DEF Del, TypeOK
    <3>5. hdr # NoHeader /\ hdr' # NoHeader BY <3>1, <3>2, NoHeaderIsNoHeader
    <3>6. HolesIn(hdr'.total, size, slots) \subseteq HolesIn(hdr.total, size, slots)
      BY <3>1, <3>2 DEF Header, HolesIn
    <3>7. HolesAre(hdr', size', slots', cuts')
      BY <1>c, <1>i, <2>0, <3>1, <3>2, <3>5, <3>6, HolesStep DEF Header
    <3>8. addPc # "idle" => hdr'.total <= add.total
      BY <1>i, <3>1, <3>2 DEF TypeOK, Header
    <3>4. hdr'.crc = TRUE BY <1>6, <2>1 DEF Del
    <3>9. AddIs(addPc', hdr', add', size', slots', cuts')
      BY <1>c, <1>i, <2>0, <3>4, <3>5, <3>8
    <3> QED BY <1>c, <1>i, <1>n, <2>0, <3>3, <3>5, <3>7, <3>9 DEF WipeInv, GetAnswersAll
  <2>2. CASE ~HeaderReadable
    <3>1. hdr' = hdr BY <1>6, <2>2 DEF Del
    <3>2. TypeOK' BY <1>c, <1>6, <1>i, <3>1 DEF Del, TypeOK
    <3>3. /\ AddIs(addPc', hdr', add', size', slots', cuts')
          /\ HolesAre(hdr', size', slots', cuts')
      BY <1>c, <1>i, <2>0, <3>1
    <3> QED BY <1>c, <1>i, <1>n, <2>0, <3>1, <3>2, <3>3 DEF WipeInv, GetAnswersAll
  <2> QED BY <2>1, <2>2
<1>7. ASSUME NEW n \in AskNums, Get(n) PROVE IInv'
  <2>0. UNCHANGED <<hdr, slots, addPc, add, wipePc, wipe>> /\ crcUnit' = "link" BY <1>7 DEF Get
  <2>1. CASE HeaderReadable
    <3> DEFINE lenth == n % LenthValues
               m == Smaller(lenth, hdr.total)
    <3>1. hdr \in Header BY <2>1, <1>i DEF HeaderReadable, TypeOK
    <3>2. lenth \in Nat OBVIOUS
    <3>3. m \in 0..MaxTotal /\ m <= hdr.total
      BY <3>1, <3>2 DEF Smaller, Header
    <3>4. got' = [lenth |-> lenth, total |-> hdr.total, records |-> RecordsGot(m)]
          /\ size' = SizeGot(m)
      BY <1>7, <2>1 DEF Get
    <3>5. m = Smaller(lenth, hdr.total) OBVIOUS
    <3> HIDE DEF lenth, m
    <3>6. size' \in 0..MaxTotal /\ size <= size'
      BY <1>i, <3>3, <3>4 DEF SizeGot, TypeOK
    <3>7. TypeOK'
      <4>1. got' \in [lenth : Nat, total : 0..MaxTotal, records : Seq(Slot \cup {Blank})]
        BY <1>i, <3>1, <3>2, <3>3, <3>4, RecordsGotType DEF Header
      <4> QED BY <1>c, <1>i, <2>0, <3>6, <4>1 DEF TypeOK
    <3>8. \A k \in Nat : HolesIn(k, size', slots') \subseteq HolesIn(k, size, slots)
      BY <1>i, <2>0, <3>6 DEF TypeOK, HolesIn
    <3>9. HolesAre(hdr', size', slots', cuts')
      BY <1>c, <1>i, <2>0, <3>1, <3>8, HolesStep DEF Header
    <3>10. AddIs(addPc', hdr', add', size', slots', cuts')
      <4>1. add.total \in Nat BY <1>i DEF TypeOK
      <4>2. addPc # "idle" => Cardinality(HolesIn(add.total, size', slots')) <= cuts
        BY <1>c, <1>i, <3>8, <4>1, HolesStep
      <4> QED BY <1>c, <1>i, <2>0, <4>2
    <3>11. GetAnswersAll'
      <4> SUFFICES ASSUME cuts = 0
                   PROVE  /\ Len(got'.records) = Smaller(got'.lenth, got'.total)
                          /\ \A i \in 1..Len(got'.records) : got'.records[i] # Blank
        BY <1>c DEF GetAnswersAll, Smaller
      <4>1. \A i \in 0..(hdr.total - 1) : ~(i >= size) /\ slots[i] # Blank
        BY <1>i, <2>1, <3>1, NoHoleStored DEF HeaderReadable, Header
      <4>2. \A i \in 0..(m - 1) : i < size /\ slots[i] # Blank
        BY <1>i, <3>1, <3>3, <4>1 DEF Header, TypeOK
      <4>3. /\ Len(RecordsGot(m)) = m
            /\ \A i \in 1..m : RecordsGot(m)[i] # Blank
        BY <1>i, <3>3, <4>2, RecordsGotComplete
      <4> QED BY <3>4, <3>5, <4>3
    <3> QED BY <1>i, <1>n, <2>0, <3>7, <3>9, <3>10, <3>11 DEF WipeInv
  <2>2. CASE ~HeaderReadable
    <3>1. UNCHANGED <<got, size>> BY <1>7, <2>2 DEF Get
    <3>2. TypeOK' BY <1>c, <1>i, <2>0, <3>1 DEF TypeOK
    <3>3. /\ AddIs(addPc', hdr', add', size', slots', cuts')
          /\ HolesAre(hdr', size', slots', cuts')
      BY <1>c, <1>i, <2>0, <3>1
    <3> QED BY <1>c, <1>i, <1>n, <2>0, <3>1, <3>2, <3>3 DEF WipeInv, GetAnswersAll
  <2> QED BY <2>1, <2>2
<1>8. CASE OtherPacket
  <2>1. TypeOK' BY <1>c, <1>8, <1>i DEF OtherPacket, TypeOK
  <2>2. AddIs(addPc', hdr', add', size', slots', cuts') /\ HolesAre(hdr', size', slots', cuts')
    BY <1>c, <1>8, <1>i DEF OtherPacket
  <2> QED BY <1>c, <1>8, <1>i, <1>n, <2>1, <2>2 DEF OtherPacket, WipeInv, GetAnswersAll
<1>9. CASE WipeUnlink
  <2>1. TypeOK' BY <1>c, <1>9, <1>i DEF WipeUnlink, ShellMayRun, TypeOK
  <2>2. AddIs(addPc', hdr', add', size', slots', cuts') /\ HolesAre(hdr', size', slots', cuts')
    BY <1>9 DEF WipeUnlink, ShellMayRun
  <2> QED BY <1>c, <1>9, <1>i, <1>n, <2>1, <2>2
             DEF WipeUnlink, ShellMayRun, WipeInv, GetAnswersAll
<1>10. CASE WipeSet
  <2>1. hdr' \in Header /\ hdr'.total = 0
    BY <1>10, CrcRightIsBoolean DEF WipeSet, Header
  <2>2. TypeOK' BY <1>c, <1>10, <1>i, <2>1 DEF WipeSet, TypeOK
  <2>3. HolesAre(hdr', size', slots', cuts') BY <1>c, <2>1, NoHoles
  <2>4. AddIs(addPc', hdr', add', size', slots', cuts') BY <1>10 DEF WipeSet, ShellMayRun
  <2>5. hdr' # NoHeader BY <2>1, NoHeaderIsNoHeader
  <2> QED BY <1>c, <1>10, <1>i, <1>n, <2>2, <2>3, <2>4, <2>5 DEF WipeSet, WipeInv, GetAnswersAll
<1>11. CASE InitRead
  <2>1. hdr \in Header BY <1>11, <1>i DEF InitRead, WipeInv, TypeOK
  <2>2. wipe' = [total |-> hdr.total, crc |-> hdr.crc, size |-> size]
    BY <1>11 DEF InitRead
  <2>3. wipe' \in [total : 0..MaxTotal, crc : BOOLEAN, size : 0..MaxTotal]
    BY <1>i, <2>1, <2>2 DEF Header, TypeOK
  <2>4. TypeOK' BY <1>c, <1>11, <1>i, <2>3 DEF InitRead, TypeOK
  <2>5. AddIs(addPc', hdr', add', size', slots', cuts') /\ HolesAre(hdr', size', slots', cuts')
    BY <1>c, <1>11, <1>i DEF InitRead, ShellMayRun
  <2> QED BY <1>c, <1>11, <1>i, <1>n, <2>4, <2>5 DEF InitRead, WipeInv, GetAnswersAll
<1>12. CASE InitVerify
  <2>0. UNCHANGED <<hdr, slots, size, addPc, add, got>> /\ addPc = "idle"
    BY <1>12 DEF InitVerify, ShellMayRun
  <2>1. AddIs(addPc', hdr', add', size', slots', cuts') /\ HolesAre(hdr', size', slots', cuts')
    BY <1>c, <1>i, <2>0
  <2>2. CASE wipe.crc /\ CrcRight("tshell")
    BY <1>c, <1>12, <1>i, <1>n, <2>1, <2>2 DEF InitVerify, TypeOK, WipeInv, GetAnswersAll
  <2>3. CASE ~(wipe.crc /\ CrcRight("tshell"))
    <3>1. wipe' = [wipe EXCEPT !.total = 0] BY <1>12, <2>3 DEF InitVerify
    <3>2. wipe' = [total |-> 0, crc |-> wipe.crc, size |-> wipe.size]
      BY <1>i, <3>1 DEF TypeOK
    <3>3. /\ wipe' \in [total : 0..MaxTotal, crc : BOOLEAN, size : 0..MaxTotal]
          /\ wipe'.total = 0
      BY <1>i, <3>2 DEF TypeOK
    <3> QED BY <1>c, <1>12, <1>i, <1>n, <2>1, <2>3, <3>3
               DEF InitVerify, TypeOK, WipeInv, GetAnswersAll
  <2> QED BY <2>2, <2>3
<1>13. CASE InitRewrite
  <2>1. wipe' = [total |-> wipe.total, crc |-> CrcRight("tshell"), size |-> wipe.size]
    BY <1>13, <1>i DEF InitRewrite, TypeOK
  <2>2. TypeOK' BY <1>c, <1>13, <1>i, <2>1, CrcRightIsBoolean DEF InitRewrite, TypeOK
  <2>3. AddIs(addPc', hdr', add', size', slots', cuts') /\ HolesAre(hdr', size', slots', cuts')
    BY <1>c, <1>13, <1>i DEF InitRewrite, ShellMayRun
  <2> QED BY <1>c, <1>13, <1>i, <1>n, <2>1, <2>2, <2>3 DEF InitRewrite, WipeInv, GetAnswersAll
<1>14. CASE InitClose
  <2>1. hdr' \in Header /\ hdr'.total = 0 /\ size' = wipe.size
    BY <1>14, <1>i DEF InitClose, WipeInv, TypeOK, Header
  <2>2. TypeOK' BY <1>c, <1>14, <1>i, <2>1 DEF InitClose, TypeOK
  <2>3. HolesAre(hdr', size', slots', cuts') BY <1>c, <2>1, NoHoles
  <2>4. AddIs(addPc', hdr', add', size', slots', cuts') BY <1>14 DEF InitClose, ShellMayRun
  <2> QED BY <1>c, <1>14, <1>i, <1>n, <2>1, <2>2, <2>3, <2>4 DEF InitClose, WipeInv, GetAnswersAll
<1> QED
  BY <1>1, <1>2, <1>3, <1>4, <1>5, <1>6, <1>7, <1>8, <1>9, <1>10, <1>11, <1>12,
     <1>13, <1>14 DEF Next, Step

\* So does a power loss, which pays for one hole more.
LEMMA PowerCutIInv == IInv /\ PowerCut => IInv'
<1> SUFFICES ASSUME IInv, PowerCut PROVE IInv'
  OBVIOUS
<1>1. cuts' = cuts + 1 /\ cuts \in Nat /\ cuts' \in 1..MaxCuts /\ addPc' = "idle"
      /\ wipePc' = "idle" /\ crcUnit' = "user_init" /\ UNCHANGED <<size, add, got>>
  BY DEF PowerCut, IInv, TypeOK
<1>2. slots' = [i \in DOMAIN slots |-> IF i < size THEN slots[i] ELSE Blank]
  BY DEF PowerCut
<1>3. slots' \in [0..(MaxTotal - 1) -> Slot \cup {Blank}] /\ size \in 0..MaxTotal
  BY <1>2 DEF IInv, TypeOK
<1>4. PICK h \in Header \cup {NoHeader} :
        /\ hdr' = BootHeader(h)
        /\ \/ h = hdr
           \/ addPc = "close" /\ h = [total |-> add.total + 1, crc |-> add.hdrCrc]
  <2>1. addPc = "close" => [total |-> add.total + 1, crc |-> add.hdrCrc] \in Header
    BY DEF IInv, AddInv, TypeOK, Header
  <2> QED BY <2>1 DEF PowerCut, IInv, TypeOK
<1>5. hdr' \in Header /\ (hdr'.total = 0 \/ (h # NoHeader /\ hdr'.total = h.total))
  <2>1. CASE h = NoHeader \/ ~h.crc
    <3>1. hdr' = [total |-> 0, crc |-> TRUE] BY <1>4, <2>1 DEF BootHeader
    <3>2. [total |-> 0, crc |-> TRUE] \in Header BY DEF Header
    <3>3. hdr' \in Header BY <3>1, <3>2, Zenon
    <3>4. hdr'.total = 0 BY <3>1
    <3> QED BY <3>3, <3>4
  <2>2. CASE ~(h = NoHeader \/ ~h.crc)
    BY <1>4, <2>2 DEF BootHeader
  <2> QED BY <2>1, <2>2
<1>6. \A n \in 0..MaxTotal : HolesIn(n, size', slots') \subseteq HolesIn(n, size, slots)
  BY <1>1, <1>2, <1>3 DEF HolesIn, IInv, TypeOK
<1>7. h # NoHeader => h.total \in 0..MaxTotal /\ Cardinality(HolesIn(h.total, size, slots)) <= cuts + 1
  <2> SUFFICES ASSUME h # NoHeader
               PROVE  h.total \in 0..MaxTotal /\ Cardinality(HolesIn(h.total, size, slots)) <= cuts + 1
    OBVIOUS
  <2>1. CASE h = hdr
    <3>1. h.total \in 0..MaxTotal /\ Cardinality(HolesIn(h.total, size, slots)) <= cuts
      BY <2>1 DEF IInv, HolesBoundedByCuts, Holes, HolesIn, TypeOK, Header
    <3> QED BY <1>1, <3>1, HolesFinite
  <2>2. CASE addPc = "close" /\ h = [total |-> add.total + 1, crc |-> add.hdrCrc]
    <3>1. add.total \in Nat /\ add.total + 1 \in 0..MaxTotal
          /\ Cardinality(HolesIn(add.total, size, slots)) <= cuts
      BY <2>2 DEF IInv, AddInv, Holes, HolesIn, TypeOK
    <3>2. Cardinality(HolesIn(add.total, size, slots)) \in Nat
          /\ Cardinality(HolesIn(add.total + 1, size, slots)) \in Nat
      BY <3>1, HolesFinite
    <3>3. Cardinality(HolesIn(add.total + 1, size, slots))
            <= Cardinality(HolesIn(add.total, size, slots)) + 1
      BY <3>1, OneHoleMore
    <3> QED BY <1>1, <2>2, <3>1, <3>2, <3>3
  <2> QED BY <1>4, <2>1, <2>2
<1>8. Cardinality(HolesIn(hdr'.total, size', slots')) <= cuts'
  <2>1. CASE hdr'.total = 0 BY <1>1, <2>1, NoHoles
  <2>2. CASE h # NoHeader /\ hdr'.total = h.total
    BY <1>1, <1>6, <1>7, <2>2, HolesStep
  <2> QED BY <1>5, <2>1, <2>2
<1>9. HolesBoundedByCuts'
  BY <1>8 DEF HolesBoundedByCuts, Holes, HolesIn
<1>10. wipe' \in [total : 0..MaxTotal, crc : BOOLEAN, size : 0..MaxTotal]
  BY <1>1, <1>3, <1>5 DEF PowerCut, Header
<1>11. TypeOK'
  BY <1>1, <1>3, <1>5, <1>10 DEF IInv, TypeOK
<1> QED
  BY <1>1, <1>9, <1>11 DEF IInv, AddInv, WipeInv, GetAnswersAll

\* Every step preserves the invariant.
LEMMA NextIInv == IInv /\ [Next \/ PowerCut]_vars => IInv'
<1>1. IInv /\ UNCHANGED vars => IInv'
  BY DEF vars, IInv, TypeOK, HolesBoundedByCuts, Holes, AddInv, WipeInv, GetAnswersAll
<1> QED
  BY <1>1, StepIInv, PowerCutIInv

-----------------------------------------------------------------------------
\* Every variable keeps its type: the count never leaves 0..MaxTotal, although
\* att_record_add writes back a count read before the server's deletions.
THEOREM TypeCorrect == Spec => []TypeOK
<1>1. Init => IInv BY InitIInv
<1>2. IInv /\ [Next \/ PowerCut]_vars => IInv' BY NextIInv
<1>3. IInv => TypeOK BY DEF IInv
<1> QED BY <1>1, <1>2, <1>3, PTL DEF Spec

\* The header of the attendance file counts no more records that are not there
\* than the power was lost; without a power loss, none.
THEOREM CountedRecordsAreStored == Spec => []HolesBoundedByCuts
<1>1. Init => IInv BY InitIInv
<1>2. IInv /\ [Next \/ PowerCut]_vars => IInv' BY NextIInv
<1>3. IInv => HolesBoundedByCuts BY DEF IInv
<1> QED BY <1>1, <1>2, <1>3, PTL DEF Spec

\* ATT_GET returns min(lenth, total) records, all of them written.
THEOREM AnswersAreComplete == Spec => []GetAnswersAll
<1>1. Init => IInv BY InitIInv
<1>2. IInv /\ [Next \/ PowerCut]_vars => IInv' BY NextIInv
<1>3. IInv => GetAnswersAll BY DEF IInv
<1> QED BY <1>1, <1>2, <1>3, PTL DEF Spec

\* A step without a power loss changes no counted record; only att_record_add
\* counts more, with the record of its admission as the newest or by undoing a
\* deletion, and not once the header is rejected.
LEMMA LogStep == IInv /\ Next => CountedKept /\ (AddClose => RecordComes) /\ OnlyAddAdds /\ RejectedStays
<1> SUFFICES ASSUME IInv, Next
             PROVE  CountedKept /\ (AddClose => RecordComes) /\ OnlyAddAdds /\ RejectedStays
  OBVIOUS
<1>t. TypeOK /\ TypeOK' /\ Counted \in Nat /\ Counted' \in Nat
  <2>1. TypeOK /\ TypeOK'
    BY StepIInv DEF IInv
  <2>2. Counted \in Nat
    BY <2>1 DEF Counted, TypeOK, Header
  <2>3. Counted' \in Nat
    BY <2>1 DEF Counted, TypeOK, Header
  <2> QED
    BY <2>1, <2>2, <2>3
<1>1. CASE AddWriteRecord \/ AddWriteHeader
  <2>1. addPc \in {"record", "header"} /\ HeaderMayReturn /\ ~AddClose
    BY <1>1 DEF AddWriteRecord, AddWriteHeader, AddClose
  <2>2. /\ hdr \in Header /\ hdr # NoHeader /\ hdr.total <= add.total /\ hdr.crc = TRUE
        /\ add.total \in 0..(MaxTotal - 1)
    BY <2>1 DEF IInv, AddInv, TypeOK
  <2>h. HeaderReturns
    BY <2>1, HeaderReturnsFrom
  <2>3. /\ hdr' # NoHeader /\ hdr'.total <= add.total
        /\ hdr' = hdr \/ hdr'.total = add.total
    <3>1. hdr' = hdr \/ hdr' = HeaderAsRead
      BY <2>1 DEF HeaderMayReturn
    <3> QED
      BY <2>h, <3>1 DEF HeaderReturns, HeaderAsRead
  <2>4. /\ Counted <= add.total /\ Counted' <= add.total
        /\ Counted' = Counted \/ Counted' = add.total
    BY <2>2, <2>3 DEF Counted
  <2>5. \A i \in 0..(add.total - 1) : slots'[i] = slots[i]
    <3> DEFINE rec == [info |-> add.info, crc |-> add.infoCrc]
    <3>1. slots' = slots \/ slots' = [slots EXCEPT ![add.total] = rec]
      BY <1>1 DEF AddWriteRecord, AddWriteHeader
    <3> HIDE DEF rec
    <3>2. slots \in [0..(MaxTotal - 1) -> Slot \cup {Blank}]
      BY <1>t DEF TypeOK
    <3>3. ASSUME NEW i \in 0..(add.total - 1) PROVE slots'[i] = slots[i]
      <4>1. i \in 0..(MaxTotal - 1) /\ i # add.total
        BY <2>2
      <4> QED
        BY <3>1, <3>2, <4>1
    <3> QED
      BY <3>3
  <2>6. CountedKept
    <3>1. Smaller(Counted, Counted') \in Nat /\ Smaller(Counted, Counted') <= add.total
      BY <1>t, <2>4 DEF Smaller
    <3>2. ASSUME NEW i \in 0..(Smaller(Counted, Counted') - 1)
          PROVE  i \in 0..(add.total - 1)
      <4>1. add.total \in Int
        BY <2>2, SlotAssumption
      <4> QED
        BY <3>1, <4>1
    <3> QED
      BY <3>2, <2>5, Zenon DEF CountedKept
  <2>7. OnlyAddAdds
    BY <1>1, <1>t, <2>4 DEF OnlyAddAdds
  <2>8. RejectedStays
    BY <2>2 DEF RejectedStays
  <2> QED
    BY <2>1, <2>6, <2>7, <2>8
<1>2. CASE AddClose
  <2>1. hdr \in Header /\ hdr.total <= add.total /\ add.total \in Nat /\ slots' = slots
        /\ hdr' = [total |-> add.total + 1, crc |-> add.hdrCrc] /\ hdr' # NoHeader
        /\ slots[add.total].info = add.info
    BY <1>2, <1>t, NoHeaderIsNoHeader DEF AddClose, IInv, AddInv, TypeOK, Header
  <2>2. Counted = hdr.total /\ Counted' = add.total + 1
    BY <2>1, NoHeaderIsNoHeader DEF Counted
  <2>3. hdr.total \in Nat
    BY <2>1 DEF Header
  <2>4. hdr.crc = TRUE
    BY <1>2 DEF AddClose, IInv, AddInv
  <2> QED
    BY <1>2, <2>1, <2>2, <2>3, <2>4 DEF CountedKept, RecordComes, OnlyAddAdds, RejectedStays
<1>3. CASE UNCHANGED <<hdr, slots>> /\ ~AddClose
  BY <1>3, <1>t DEF Counted, CountedKept, OnlyAddAdds, RejectedStays, Smaller
<1>4. CASE Counted' <= Counted /\ UNCHANGED slots /\ ~AddClose /\ RejectedStays
  BY <1>4, <1>t DEF CountedKept, OnlyAddAdds, Smaller
<1>5. CASE Counted' = 0 /\ ~AddClose
  BY <1>5, <1>t DEF CountedKept, OnlyAddAdds, RejectedStays, Smaller
<1>6. ASSUME NEW n \in AskNums, Del(n), ~AddClose
      PROVE  Counted' <= Counted /\ UNCHANGED slots /\ RejectedStays
  <2>1. CASE HeaderReadable
    <3>1. hdr \in Header /\ hdr # NoHeader
      BY <1>t, <2>1 DEF HeaderReadable, TypeOK
    <3>2. hdr'.total <= hdr.total /\ hdr' \in Header
      BY <1>6, <2>1, <3>1 DEF Del, Header
    <3>3. hdr.crc
      BY <2>1 DEF HeaderReadable
    <3> QED
      BY <1>6, <3>1, <3>2, <3>3, NoHeaderIsNoHeader DEF Counted, RejectedStays, Del
  <2>2. CASE ~HeaderReadable
    BY <1>6, <1>t, <2>2 DEF Counted, RejectedStays, Del
  <2> QED
    BY <2>1, <2>2
<1>7. CASE ~AddClose
  <2>1. WipeUnlink => Counted' = 0
    BY DEF WipeUnlink, Counted
  <2>2. WipeSet => Counted' = 0
    BY DEF WipeSet, Counted
  <2>3. InitClose => Counted' = 0
    BY DEF InitClose, Counted, IInv, WipeInv
  <2>4. \/ \E r \in Info : AddOpen(r)
        \/ AddCheck \/ OtherPacket
        \/ \E n \in AskNums : Get(n)
        \/ InitRead \/ InitVerify \/ InitRewrite
        => UNCHANGED <<hdr, slots>>
    BY DEF AddOpen, AddCheck, OtherPacket, Get, InitRead, InitVerify, InitRewrite
  <2> QED
    BY <1>1, <1>3, <1>4, <1>5, <1>6, <1>7, <2>1, <2>2, <2>3, <2>4 DEF Next, Step
<1> QED
  BY <1>2, <1>7

\* Between power losses the attendance file is a log to which each admission adds
\* its record, for any records, numbers of slots and requests of the server.
THEOREM FileIsLog == Spec => LogKept
<1>1. Init => IInv BY InitIInv
<1>2. IInv /\ [Next \/ PowerCut]_vars => IInv' BY NextIInv
<1>3. IInv /\ [Next \/ PowerCut]_vars
      => [cuts' = cuts => /\ CountedKept
                          /\ AddClose => RecordComes
                          /\ OnlyAddAdds
                          /\ RejectedStays]_vars
  <2>1. IInv /\ PowerCut => cuts' # cuts
    BY DEF PowerCut, IInv, TypeOK
  <2> QED
    BY <2>1, LogStep
<1> QED BY <1>1, <1>2, <1>3, PTL DEF Spec, LogKept
=============================================================================
