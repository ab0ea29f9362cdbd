------------------------- MODULE EspReceive_proofs -------------------------
(***************************************************************************)
(* For packets of any lengths: the receiver is a PacketChannel, delivers   *)
(* every packet it read without mishap, and runs on in recv_pack only over *)
(* lost packets.  The invariant orders everything by the place of the      *)
(* fragment in the ESP8266's buffer: what lies in recv_pack was there      *)
(* before or is there now, what was overwritten unread lies nowhere, and   *)
(* only a loss lets a fragment be read twice.                              *)
(***************************************************************************)
EXTENDS EspReceive, TLAPS

-----------------------------------------------------------------------------
(* Fragments *)

N(p) == Num(Lenths[p])

\* Division with a rest.
LEMMA DivMod ==
  \A l, b \in Nat : b # 0 =>
    /\ l \div b \in Nat
    /\ l % b \in 0..(b - 1)
    /\ l = b * (l \div b) + (l % b)
<1>1. \A l, b \in Nat : b # 0 => l \div b \in Nat
  OBVIOUS
<1>2. \A l, b \in Nat : b # 0 => l % b \in 0..(b - 1)
  OBVIOUS
<1>3. \A l, b \in Nat : b # 0 => l = b * (l \div b) + (l % b)
  OBVIOUS
<1> QED
  BY <1>1, <1>2, <1>3, Zenon

\* One fragment more is as many bytes more.
LEMMA OneMore == \A a, b \in Nat : (a - 1) * b + b = b * a + 0
OBVIOUS

\* A packet is cut into full fragments and a last one of 1 to Payload bytes.
LEMMA Cut ==
  ASSUME NEW l \in Nat \ {0}
  PROVE  /\ Num(l) \in Nat \ {0}
         /\ LastByte(l) \in 1..Payload
         /\ (Num(l) - 1) * Payload + LastByte(l) = l
<1>1. Payload \in Nat \ {0}
  BY LenthAssumption
<1>2. /\ l \div Payload \in Nat /\ l % Payload \in 0..(Payload - 1)
      /\ l = Payload * (l \div Payload) + (l % Payload)
  BY <1>1, DivMod
<1>3. CASE l % Payload = 0
  <2>1. l \div Payload # 0
    BY <1>1, <1>2, <1>3
  <2>2. Num(l) = l \div Payload /\ LastByte(l) = Payload
    BY <1>3 DEF Num, LastByte
  <2>3. Payload * (l \div Payload) + 0 = l
    BY <1>2, <1>3
  <2>4. (Num(l) - 1) * Payload + Payload = Payload * Num(l) + 0
    BY <1>1, <1>2, <2>2, OneMore
  <2>5. Payload * Num(l) + 0 = l
    BY <2>2, <2>3
  <2>6. (Num(l) - 1) * Payload + LastByte(l) = l
    BY <2>2, <2>4, <2>5
  <2> QED
    BY <1>1, <1>2, <2>1, <2>2, <2>6
<1>4. CASE l % Payload # 0
  <2>1. Num(l) = l \div Payload + 1 /\ LastByte(l) = l % Payload
    BY <1>4 DEF Num, LastByte
  <2> QED
    BY <1>1, <1>2, <1>4, <2>1
<1> QED
  BY <1>3, <1>4
-----------------------------------------------------------------------------
(* The inductive invariant *)

\* The buffer holds the fragment before the one the ESP8266 sends next.
LinkInv ==
  /\ buffer = NoFragment =>
       nextP = 1 /\ nextI = 1 /\ ~event /\ ~unread /\ pc = "recv" /\ ~isReceive
  /\ buffer # NoFragment =>
       /\ buffer = Fragment(buffer.packet, buffer.i)
       /\ buffer.i <= N(buffer.packet)
       /\ buffer.i = N(buffer.packet) => nextP = buffer.packet + 1 /\ nextI = 1
       /\ buffer.i # N(buffer.packet) => nextP = buffer.packet /\ nextI = buffer.i + 1
  /\ unread => event \/ pc = "read"
  /\ pc = "read" /\ event => unread
  /\ pc = "check" => ~isReceive

\* Fragment i of packet p was in the buffer before the one that is.
Before(p, i) ==
  /\ buffer # NoFragment
  /\ p < buffer.packet \/ (p = buffer.packet /\ i < buffer.i)

\* It has been read from it, or may have.
Past(f) ==
  /\ f = Fragment(f.packet, f.i)
  /\ f.i <= N(f.packet)
  /\ Before(f.packet, f.i) \/ (f = buffer /\ ~unread)

\* recv_pack holds fragments of the past.
PackInv ==
  /\ isReceive \/ pc = "check" => recv_pack[0] # NoFragment
  /\ isReceive => pack_counter # 0
  /\ \A k \in 0..(Slots - 1) : recv_pack[k] # NoFragment => Past(recv_pack[k])

\* Of a packet that was missed some fragment is nowhere.
MissedInv ==
  \A p \in missed : \E j \in 1..N(p) :
    Before(p, j) /\ \A k \in 0..(Slots - 1) : recv_pack[k] # Fragment(p, j)

\* The buffer is read again only after a packet that began before it was missed.
AgainInv ==
  (pc = "read" /\ event) \/ (~unread /\ (pc = "read" \/ event)) =>
    \E q \in missed : q < buffer.packet \/ (q = buffer.packet /\ buffer.i > 1)

\* Packet p may arrive: Channel!Deliver.
MayArrive(p) ==
  \A i \in 1..Len(delivered) :
    delivered[i] < p \/ (delivered[i] = p /\ i = Len(delivered) /\ \E q \in missed : q < p)

\* What was delivered has been in the buffer to its end,
ArrivedInv ==
  \A i \in 1..Len(delivered) :
    /\ buffer # NoFragment
    /\ \/ delivered[i] < buffer.packet
       \/ delivered[i] = buffer.packet /\ buffer.i = N(buffer.packet) /\ ~unread

\* and the packet in it can be delivered once more only;
OnceMoreInv ==
  /\ pc = "check" /\ event =>
       \A i \in 1..Len(delivered) : delivered[i] # buffer.packet
  /\ ~unread /\ (event \/ pc = "read") =>
       \A i \in 1..Len(delivered) : delivered[i] = buffer.packet => i = Len(delivered)

\* the packet being received is the next to be, or the last one again.
HeaderInv == isReceive \/ pc = "check" => MayArrive(Header)

\* While a packet is being received, those begun since are missed.
RunInv ==
  isReceive =>
    /\ \A r \in Packets : Header <= r /\ r < buffer.packet => r \in missed
    /\ Header < buffer.packet /\ buffer.i # 1 => buffer.packet \in missed
    /\ Header < buffer.packet /\ buffer.i = 1 => unread
    /\ Header = buffer.packet /\ buffer.i = N(buffer.packet) => unread

\* recv_pack holds the first n fragments of packet p.
Holds(p, n) ==
  /\ recv_lenth = IF n = N(p) THEN Lenths[p] ELSE n * Payload
  /\ \A k \in 0..(n - 1) : recv_pack[k] = Fragment(p, k + 1)

\* How many fragments of the packet in the buffer have been read.
ReadSoFar == IF unread THEN buffer.i - 1 ELSE buffer.i

\* A packet without mishap is received as far as it has been read,
PartInv ==
  buffer # NoFragment /\ buffer.packet \notin missed \cup repeated
    /\ ReadSoFar # 0 /\ ReadSoFar # N(buffer.packet) =>
      isReceive /\ pack_counter = ReadSoFar /\ Holds(buffer.packet, ReadSoFar)

\* and when all of it has been, it is delivered or about to be.
WholeInv ==
  \A p \in Packets \ (missed \cup repeated) :
    p < nextP /\ ~(p = buffer.packet /\ unread) =>
      \/ \E i \in 1..Len(delivered) : delivered[i] = p
      \/ pc = "check" /\ Holds(p, N(p))

IInv == /\ TypeOK /\ LinkInv /\ PackInv /\ MissedInv /\ AgainInv
        /\ ArrivedInv /\ OnceMoreInv /\ HeaderInv
        /\ RunInv /\ RunsOnOverLostOnly /\ PartInv /\ WholeInv

-----------------------------------------------------------------------------
(* Fragments and the buffer *)

\* The fields of a fragment.
LEMMA FragmentFields ==
  ASSUME NEW p \in Packets, NEW i \in 1..N(p)
  PROVE  /\ Fragment(p, i) \in FragmentType
         /\ Fragment(p, i) # NoFragment
         /\ Fragment(p, i).packet = p /\ Fragment(p, i).i = i
         /\ Fragment(p, i).start <=> i = 1
         /\ Fragment(p, i).end <=> i = N(p)
         /\ Fragment(p, i).bytes = IF i = N(p) THEN LastByte(Lenths[p]) ELSE Payload
         /\ Fragment(p, i).bytes \in 1..Payload
<1> DEFINE b == IF i = N(p) THEN LastByte(Lenths[p]) ELSE Payload
<1>1. Lenths[p] \in Nat \ {0} /\ Payload \in Nat \ {0}
  BY LenthAssumption DEF Packets
<1>2. N(p) \in Nat \ {0} /\ LastByte(Lenths[p]) \in 1..Payload
  BY <1>1, Cut DEF N
<1>3. b \in 1..Payload
  BY <1>1, <1>2
<1>4. i \in Nat \ {0}
  BY <1>2
<1> DEFINE s == i = 1
           e == i = N(p)
<1>5. Fragment(p, i) = [packet |-> p, i |-> i, start |-> s, end |-> e, bytes |-> b]
  BY Zenon DEF Fragment, N
<1>6. s \in BOOLEAN /\ e \in BOOLEAN
  BY Zenon
<1> HIDE DEF b, s, e
<1>7. /\ Fragment(p, i).packet = p /\ Fragment(p, i).i = i
      /\ Fragment(p, i).start = s /\ Fragment(p, i).end = e
      /\ Fragment(p, i).bytes = b /\ Fragment(p, i) \in FragmentType
  BY <1>3, <1>4, <1>5, <1>6 DEF FragmentType
<1>8. Fragment(p, i) # NoFragment
  BY <1>7, NoFragmentAssumption, Zenon
<1>9. b = IF i = N(p) THEN LastByte(Lenths[p]) ELSE Payload
  BY Zenon DEF b
<1>10. Fragment(p, i).start <=> i = 1
  BY <1>7, Zenon DEF s
<1>11. Fragment(p, i).end <=> i = N(p)
  BY <1>7, Zenon DEF e
<1>12. /\ Fragment(p, i).bytes = IF i = N(p) THEN LastByte(Lenths[p]) ELSE Payload
       /\ Fragment(p, i).bytes \in 1..Payload
  BY <1>3, <1>7, <1>9
<1> QED
  BY <1>7, <1>8, <1>10, <1>11, <1>12, Zenon

\* A packet has at least one fragment, and no more than recv_pack holds.
LEMMA Fragments == \A p \in Packets : N(p) \in Nat \ {0} /\ N(p) <= Slots
<1>1. SUFFICES ASSUME NEW p \in Packets PROVE N(p) \in Nat \ {0} /\ N(p) <= Slots
  OBVIOUS
<1>2. Lenths[p] \in Nat \ {0}
  BY LenthAssumption DEF Packets
<1> QED
  BY <1>2, Cut, SlotsAssumption DEF N

\* The fragment in the buffer.
LEMMA InBuffer ==
  ASSUME TypeOK, LinkInv, buffer # NoFragment
  PROVE  /\ buffer.packet \in Packets
         /\ buffer.i \in 1..N(buffer.packet)
         /\ buffer = Fragment(buffer.packet, buffer.i)
         /\ buffer.start <=> buffer.i = 1
         /\ buffer.end <=> buffer.i = N(buffer.packet)
         /\ buffer.bytes = IF buffer.i = N(buffer.packet)
                             THEN LastByte(Lenths[buffer.packet]) ELSE Payload
         /\ buffer.bytes \in 1..Payload
<1>1. buffer.packet \in Packets /\ buffer.i \in Nat \ {0}
  BY DEF TypeOK, FragmentType
<1>2. buffer.i \in 1..N(buffer.packet)
  BY <1>1, Fragments DEF LinkInv
<1>3. buffer = Fragment(buffer.packet, buffer.i)
  BY DEF LinkInv
<1>4. ASSUME NEW p \in Packets, NEW i \in 1..N(p), buffer = Fragment(p, i)
      PROVE  (buffer.start <=> i = 1) /\ (buffer.end <=> i = N(p))
  <2>1. buffer.start = Fragment(p, i).start /\ buffer.end = Fragment(p, i).end
    BY <1>4
  <2>2. Fragment(p, i).start <=> i = 1
    BY FragmentFields, Zenon
  <2>3. Fragment(p, i).end <=> i = N(p)
    BY FragmentFields, Zenon
  <2> QED
    BY <2>1, <2>2, <2>3, Zenon
<1> DEFINE p == buffer.packet
           i == buffer.i
<1>5. p \in Packets /\ i \in 1..N(p) /\ buffer = Fragment(p, i)
  BY <1>1, <1>2, <1>3
<1> HIDE DEF p, i
<1>6. (buffer.start <=> i = 1) /\ (buffer.end <=> i = N(p))
  BY <1>4, <1>5, Zenon
<1>7. (buffer.start <=> buffer.i = 1) /\ (buffer.end <=> buffer.i = N(buffer.packet))
  BY <1>6, Zenon DEF p, i
<1>8. /\ buffer.bytes = IF buffer.i = N(buffer.packet)
                          THEN LastByte(Lenths[buffer.packet]) ELSE Payload
      /\ buffer.bytes \in 1..Payload
  BY <1>1, <1>2, <1>3, FragmentFields
<1> QED
  BY <1>1, <1>2, <1>3, <1>7, <1>8

\* What Load does, and that the fragment it puts into the buffer comes after
\* the one that was there.
LEMMA LoadStep ==
  ASSUME TypeOK, LinkInv, Load
  PROVE  /\ nextP \in Packets /\ nextI \in 1..N(nextP)
         /\ buffer' = Fragment(nextP, nextI) /\ buffer' \in FragmentType
         /\ buffer' # NoFragment /\ buffer'.packet = nextP /\ buffer'.i = nextI
         /\ unread' = TRUE /\ event' = TRUE
         /\ missed' = IF unread THEN missed \cup {buffer.packet} ELSE missed
         /\ nextI = N(nextP) => nextP' = nextP + 1 /\ nextI' = 1
         /\ nextI # N(nextP) => nextP' = nextP /\ nextI' = nextI + 1
         /\ UNCHANGED <<pc, isReceive, pack_counter, recv_lenth, recv_pack,
                        delivered, repeated>>
         /\ buffer # NoFragment =>
              \/ nextP = buffer.packet + 1 /\ nextI = 1 /\ buffer.i = N(buffer.packet)
              \/ nextP = buffer.packet /\ nextI = buffer.i + 1
<1>1. nextP \in Packets /\ nextI \in Nat \ {0}
  BY DEF Load, TypeOK
<1>2. buffer # NoFragment =>
        \/ nextP = buffer.packet + 1 /\ nextI = 1 /\ buffer.i = N(buffer.packet)
        \/ nextP = buffer.packet /\ nextI = buffer.i + 1 /\ buffer.i # N(buffer.packet)
  BY DEF LinkInv
<1>3. nextI \in 1..N(nextP)
  <2>1. N(nextP) \in Nat \ {0}
    BY <1>1, Fragments
  <2>2. CASE buffer = NoFragment
    BY <2>1, <2>2 DEF LinkInv
  <2>3. CASE buffer # NoFragment
    BY <1>2, <2>1, <2>3, InBuffer
  <2> QED
    BY <2>2, <2>3
<1>4. buffer' = Fragment(nextP, nextI)
  BY DEF Load
<1>5. /\ buffer' \in FragmentType /\ buffer' # NoFragment
      /\ buffer'.packet = nextP /\ buffer'.i = nextI
  BY <1>1, <1>3, <1>4, FragmentFields
<1>6. buffer'.end <=> nextI = N(nextP)
  <2>1. Fragment(nextP, nextI).end <=> nextI = N(nextP)
    BY <1>1, <1>3, FragmentFields, Zenon
  <2> QED
    BY <1>4, <2>1, Zenon
<1>7. /\ nextI = N(nextP) => nextP' = nextP + 1 /\ nextI' = 1
      /\ nextI # N(nextP) => nextP' = nextP /\ nextI' = nextI + 1
  BY <1>6, Zenon DEF Load
<1> QED
  BY <1>1, <1>2, <1>3, <1>4, <1>5, <1>7 DEF Load, packVars

\* Where the fragment in the buffer goes.
At == IF buffer.i = 1 THEN 0 ELSE pack_counter

\* What Read does.
LEMMA ReadStep ==
  ASSUME TypeOK, LinkInv, Read
  PROVE  /\ pc = "read" /\ unread' = FALSE /\ buffer # NoFragment
         /\ repeated' = IF unread \/ buffer.i = 1 \/ buffer.i = N(buffer.packet)
                          THEN repeated ELSE repeated \cup {buffer.packet}
         /\ UNCHANGED <<nextP, nextI, buffer, event, delivered, missed>>
         /\ buffer.i # 1 /\ ~isReceive =>
              /\ pc' = "recv"
              /\ UNCHANGED <<isReceive, pack_counter, recv_lenth, recv_pack>>
         /\ buffer.i = 1 \/ isReceive =>
              /\ recv_lenth' = (IF buffer.i = 1 THEN 0 ELSE recv_lenth) + buffer.bytes
              /\ recv_pack' = [recv_pack EXCEPT ![At] = buffer]
              /\ isReceive' <=> (buffer.i # N(buffer.packet))
              /\ buffer.i = N(buffer.packet) => pack_counter' = At /\ pc' = "check"
              /\ buffer.i # N(buffer.packet) => pack_counter' = At + 1 /\ pc' = "recv"
<1>1. pc = "read" /\ buffer # NoFragment
  BY DEF LinkInv, Read
<1>2. (buffer.start <=> buffer.i = 1) /\ (buffer.end <=> buffer.i = N(buffer.packet))
  BY <1>1, InBuffer, Zenon
<1>3. unread' = FALSE /\ UNCHANGED <<nextP, nextI, buffer, event, delivered, missed>>
  BY DEF Read, espVars
<1>4. repeated' = IF unread \/ buffer.i = 1 \/ buffer.i = N(buffer.packet)
                    THEN repeated ELSE repeated \cup {buffer.packet}
  BY <1>2, Zenon DEF Read
<1>5. ASSUME buffer.i # 1, ~isReceive
      PROVE  pc' = "recv" /\ UNCHANGED packVars
  BY <1>2, <1>5, Zenon DEF Read
<1>6. ASSUME buffer.i = 1 \/ isReceive
      PROVE  /\ recv_lenth' = (IF buffer.i = 1 THEN 0 ELSE recv_lenth) + buffer.bytes
             /\ recv_pack' = [recv_pack EXCEPT ![At] = buffer]
             /\ isReceive' <=> (buffer.i # N(buffer.packet))
             /\ buffer.i = N(buffer.packet) => pack_counter' = At /\ pc' = "check"
             /\ buffer.i # N(buffer.packet) => pack_counter' = At + 1 /\ pc' = "recv"
  <2> DEFINE at == IF buffer.start THEN 0 ELSE pack_counter
  <2>1. at = At
    BY <1>2, Zenon DEF At
  <2>2. /\ recv_lenth' = (IF buffer.start THEN 0 ELSE recv_lenth) + buffer.bytes
        /\ recv_pack' = [recv_pack EXCEPT ![at] = buffer]
        /\ isReceive' = ~buffer.end
        /\ pack_counter' = IF buffer.end THEN at ELSE at + 1
        /\ pc' = IF buffer.end THEN "check" ELSE "recv"
    BY <1>2, <1>6, Zenon DEF Read
  <2> HIDE DEF at
  <2>3. recv_lenth' = (IF buffer.i = 1 THEN 0 ELSE recv_lenth) + buffer.bytes
    BY <1>2, <2>2, Zenon
  <2>4. recv_pack' = [recv_pack EXCEPT ![At] = buffer]
    BY <2>1, <2>2, Zenon
  <2>5. isReceive' <=> buffer.i # N(buffer.packet)
    BY <1>2, <2>2, Zenon
  <2>6. /\ buffer.i = N(buffer.packet) => pack_counter' = At /\ pc' = "check"
        /\ buffer.i # N(buffer.packet) => pack_counter' = At + 1 /\ pc' = "recv"
    BY <1>2, <2>1, <2>2, Zenon
  <2> QED
    BY <2>3, <2>4, <2>5, <2>6, Zenon
<1> QED
  BY <1>1, <1>3, <1>4, <1>5, <1>6, Zenon DEF packVars

-----------------------------------------------------------------------------
(* The inductive invariant is preserved: types and link *)

\* The header of a packet in recv_pack.
LEMMA HeaderType ==
  ASSUME TypeOK, PackInv, isReceive \/ pc = "check"
  PROVE  recv_pack[0] \in FragmentType /\ Header \in Packets
<1>1. 0 \in 0..(Slots - 1)
  BY LenthAssumption
<1>2. recv_pack[0] \in FragmentType \cup {NoFragment}
  BY <1>1 DEF TypeOK
<1> QED
  BY <1>2 DEF PackInv, Header, FragmentType

\* Every step keeps the types.
LEMMA TypeStep ==
  ASSUME TypeOK, LinkInv, PackInv, [Next]_vars
  PROVE  TypeOK'
<1>1. CASE Load
  <2>1. nextP' \in 1..(Len(Lenths) + 1) /\ nextI' \in Nat \ {0}
    <3>1. nextP \in 1..Len(Lenths) /\ nextI \in Nat \ {0} /\ Len(Lenths) \in Nat
      BY <1>1, LenthAssumption DEF Load, Packets, TypeOK
    <3>2. (nextP' = nextP + 1 /\ nextI' = 1) \/ (nextP' = nextP /\ nextI' = nextI + 1)
      BY <1>1, LoadStep, Zenon
    <3> QED
      BY <3>1, <3>2
  <2>2. buffer' \in FragmentType /\ unread' \in BOOLEAN /\ event' \in BOOLEAN
    BY <1>1, LoadStep
  <2>3. missed' \subseteq Packets
    <3>1. unread => buffer.packet \in Packets
      BY InBuffer DEF LinkInv
    <3> QED
      BY <1>1, <3>1, LoadStep DEF TypeOK
  <2> QED
    BY <1>1, <2>1, <2>2, <2>3, LoadStep DEF TypeOK
<1>2. CASE Recv
  BY <1>2 DEF Recv, TypeOK, espVars, packVars
<1>3. CASE Read
  <2>1. buffer \in FragmentType /\ buffer.packet \in Packets /\ buffer.bytes \in Nat
    <3>1. buffer \in FragmentType /\ buffer.packet \in Packets /\ buffer.bytes \in 1..Payload
      BY <1>3, ReadStep, InBuffer DEF TypeOK
    <3> QED
      BY <3>1, LenthAssumption
  <2>2. repeated' \subseteq Packets
    BY <1>3, <2>1, ReadStep DEF TypeOK
  <2>3. At \in Nat
    BY DEF At, TypeOK
  <2>4. /\ isReceive' \in BOOLEAN /\ pc' \in {"recv", "read", "check"}
        /\ pack_counter' \in Nat /\ recv_lenth' \in Nat
        /\ recv_pack' \in [0..(Slots - 1) -> FragmentType \cup {NoFragment}]
    <3>1. CASE buffer.i # 1 /\ ~isReceive
      BY <1>3, <3>1, ReadStep DEF TypeOK
    <3>2. CASE buffer.i = 1 \/ isReceive
      <4>1. pack_counter' \in Nat /\ recv_lenth' \in Nat /\ pc' \in {"recv", "read", "check"}
        <5>1. recv_lenth' \in Nat
          <6>1. recv_lenth' = (IF buffer.i = 1 THEN 0 ELSE recv_lenth) + buffer.bytes
            BY <1>3, <3>2, ReadStep, Zenon
          <6>2. recv_lenth \in Nat /\ buffer.bytes \in Nat
            BY <2>1 DEF TypeOK
          <6> QED
            BY <6>1, <6>2
        <5>2. \/ pack_counter' = At /\ pc' = "check"
              \/ pack_counter' = At + 1 /\ pc' = "recv"
          BY <1>3, <3>2, ReadStep, Zenon
        <5> QED
          BY <2>3, <5>1, <5>2
      <4>2. recv_pack' \in [0..(Slots - 1) -> FragmentType \cup {NoFragment}]
        BY <1>3, <2>1, <3>2, ReadStep DEF TypeOK
      <4>3. isReceive' \in BOOLEAN
        <5>1. buffer # NoFragment
          BY <1>3, ReadStep
        <5>2. buffer.start \/ isReceive
          BY <3>2, <5>1, InBuffer, Zenon
        <5>3. isReceive' = ~buffer.end
          BY <1>3, <5>2, Zenon DEF Read
        <5> QED
          BY <5>3, Zenon
      <4> QED
        BY <4>1, <4>2, <4>3
    <3> QED
      BY <3>1, <3>2
  <2> QED
    BY <1>3, <2>2, <2>4, ReadStep DEF TypeOK
<1>4. CASE Check
  <2>1. delivered' \in Seq(Packets)
    <3>1. Header \in Packets /\ delivered \in Seq(Packets)
      BY <1>4, HeaderType DEF Check, TypeOK
    <3> QED
      BY <1>4, <3>1 DEF Check
  <2> QED
    BY <1>4, <2>1 DEF Check, TypeOK, espVars, packVars
<1>5. CASE UNCHANGED vars
  BY <1>5 DEF TypeOK, vars, espVars, packVars
<1> QED
  BY <1>1, <1>2, <1>3, <1>4, <1>5 DEF Next

\* Every step keeps the buffer and what is sent next together.
LEMMA LinkStep ==
  ASSUME TypeOK, LinkInv, [Next]_vars
  PROVE  LinkInv'
<1>1. CASE Load
  <2>1. /\ buffer' = Fragment(buffer'.packet, buffer'.i) /\ buffer' # NoFragment
        /\ buffer'.i <= N(buffer'.packet)
    <3>1. nextP \in Packets /\ nextI <= N(nextP)
      BY <1>1, LoadStep, Fragments
    <3> QED
      BY <1>1, <3>1, LoadStep
  <2>2. /\ buffer'.i = N(buffer'.packet) => nextP' = buffer'.packet + 1 /\ nextI' = 1
        /\ buffer'.i # N(buffer'.packet) => nextP' = buffer'.packet /\ nextI' = buffer'.i + 1
    BY <1>1, LoadStep, Zenon
  <2>3. event' = TRUE /\ unread' = TRUE /\ pc' = pc /\ isReceive' = isReceive
    BY <1>1, LoadStep, Zenon
  <2>4. pc = "check" => ~isReceive
    BY DEF LinkInv
  <2>5. N(buffer'.packet) = N(buffer.packet)'
    BY DEF N, Num
  <2> QED
    BY <2>1, <2>2, <2>3, <2>4, <2>5 DEF LinkInv
<1>2. CASE Recv
  <2>1. /\ pc = "recv" /\ event /\ event' = FALSE /\ pc' = "read"
        /\ UNCHANGED <<nextP, nextI, buffer, unread, isReceive>>
    BY <1>2 DEF Recv, espVars, packVars
  <2>2. buffer # NoFragment
    BY <2>1 DEF LinkInv
  <2> QED
    BY <2>1, <2>2 DEF LinkInv
<1>3. CASE Read
  <2>1. pc' = "recv" \/ (pc' = "check" /\ ~isReceive')
    BY <1>3, ReadStep
  <2> QED
    BY <1>3, <2>1, ReadStep DEF LinkInv
<1>4. CASE Check
  BY <1>4 DEF Check, LinkInv, espVars, packVars
<1>5. CASE UNCHANGED vars
  BY <1>5 DEF LinkInv, vars, espVars, packVars
<1> QED
  BY <1>1, <1>2, <1>3, <1>4, <1>5 DEF Next

-----------------------------------------------------------------------------
(* What is past stays past *)

\* Packets are numbers.
LEMMA PacketsInt == Packets \subseteq Nat \ {0}
BY LenthAssumption DEF Packets

\* The numbers of the fragment in the buffer.
LEMMA BufferNat ==
  ASSUME TypeOK, LinkInv, buffer # NoFragment
  PROVE  /\ buffer.packet \in Nat \ {0} /\ buffer.i \in Nat \ {0}
         /\ N(buffer.packet) \in Nat \ {0} /\ buffer.i <= N(buffer.packet)
<1>1. buffer.packet \in Packets /\ buffer.i \in 1..N(buffer.packet)
  BY InBuffer, Zenon
<1>2. N(buffer.packet) \in Nat \ {0}
  BY <1>1, Fragments
<1>3. buffer.packet \in Nat \ {0}
  BY <1>1, PacketsInt
<1>4. buffer.i \in Nat \ {0} /\ buffer.i <= N(buffer.packet)
  BY <1>1, <1>2
<1> QED
  BY <1>2, <1>3, <1>4

\* The buffer does not change but with Load.
LEMMA NotLoad ==
  ASSUME [Next]_vars, ~Load
  PROVE  UNCHANGED <<nextP, nextI, buffer, missed>>
BY DEF Next, Recv, Read, Check, vars, espVars

\* A fragment that was in the buffer before is so for ever.
LEMMA BeforeStays ==
  ASSUME TypeOK, LinkInv, [Next]_vars,
         NEW p \in Packets, NEW i \in Nat, Before(p, i)
  PROVE  Before(p, i)'
<1>1. CASE Load
  <2>1. buffer # NoFragment /\ (p < buffer.packet \/ (p = buffer.packet /\ i < buffer.i))
    BY DEF Before
  <2>2. buffer.packet \in Nat /\ buffer.i \in Nat /\ p \in Nat
    BY <2>1, BufferNat, PacketsInt
  <2>3. \/ nextP = buffer.packet + 1
        \/ nextP = buffer.packet /\ nextI = buffer.i + 1
    BY <1>1, <2>1, LoadStep, Zenon
  <2>4. p < nextP \/ (p = nextP /\ i < nextI)
    BY <2>1, <2>2, <2>3
  <2>5. buffer'.packet = nextP /\ buffer'.i = nextI /\ buffer' # NoFragment
    BY <1>1, LoadStep, Zenon
  <2> QED
    BY <2>4, <2>5 DEF Before
<1>2. CASE ~Load
  BY <1>2, NotLoad DEF Before
<1> QED
  BY <1>1, <1>2

\* With Load, what was in the buffer or before it is from before.
LEMMA LoadPast ==
  ASSUME TypeOK, LinkInv, Load, NEW f \in FragmentType,
         Before(f.packet, f.i) \/ f = buffer
  PROVE  Before(f.packet, f.i)'
<1>1. f.packet \in Packets /\ f.i \in Nat
  BY DEF FragmentType
<1>2. CASE Before(f.packet, f.i)
  BY <1>1, <1>2, BeforeStays, Zenon DEF Next
<1>3. CASE f = buffer
  <2>1. buffer # NoFragment
    BY <1>3, NoFragmentAssumption
  <2>2. buffer.packet \in Nat /\ buffer.i \in Nat
    BY <2>1, BufferNat
  <2>3. \/ nextP = buffer.packet + 1
        \/ nextP = buffer.packet /\ nextI = buffer.i + 1
    BY <2>1, LoadStep, Zenon
  <2>4. f.packet < nextP \/ (f.packet = nextP /\ f.i < nextI)
    BY <1>3, <2>2, <2>3
  <2>5. buffer'.packet = nextP /\ buffer'.i = nextI /\ buffer' # NoFragment
    BY LoadStep, Zenon
  <2> QED
    BY <2>4, <2>5 DEF Before
<1> QED
  BY <1>2, <1>3

\* A fragment that is past stays past.
LEMMA PastStays ==
  ASSUME TypeOK, LinkInv, [Next]_vars, NEW f \in FragmentType, Past(f)
  PROVE  Past(f)'
<1>1. f = Fragment(f.packet, f.i) /\ f.i <= N(f.packet)
  BY DEF Past
<1>2. f.packet \in Packets /\ f.i \in Nat
  BY DEF FragmentType
<1>3. CASE Load
  <2>1. Before(f.packet, f.i)'
    BY <1>3, LoadPast DEF Past
  <2> QED
    BY <1>1, <2>1 DEF Past
<1>4. CASE ~Load /\ Before(f.packet, f.i)
  <2>1. Before(f.packet, f.i)'
    BY <1>2, <1>4, BeforeStays
  <2> QED
    BY <1>1, <2>1 DEF Past
<1>5. CASE ~Load /\ f = buffer /\ ~unread
  <2>1. buffer' = buffer /\ ~unread'
    BY <1>5, NotLoad DEF Next, Recv, Read, Check, vars
  <2> QED
    BY <1>1, <1>5, <2>1 DEF Past
<1> QED
  BY <1>3, <1>4, <1>5 DEF Past

\* Every step keeps recv_pack in the past.
LEMMA PackStep ==
  ASSUME TypeOK, LinkInv, PackInv, [Next]_vars
  PROVE  PackInv'
<1>1. ASSUME Load \/ Recv \/ Check \/ UNCHANGED vars
      PROVE  PackInv'
  <2>1. UNCHANGED <<isReceive, pack_counter, recv_pack>> /\ (pc' = "check" => pc = "check")
    <3>1. CASE Load
      BY <3>1, LoadStep, Zenon
    <3>2. CASE Recv \/ Check \/ UNCHANGED vars
      BY <3>2 DEF Recv, Check, vars, packVars
    <3> QED
      BY <1>1, <3>1, <3>2
  <2>2. ASSUME NEW k \in 0..(Slots - 1), recv_pack[k] # NoFragment
        PROVE  Past(recv_pack[k])'
    <3>1. recv_pack[k] \in FragmentType /\ Past(recv_pack[k])
      BY <2>2 DEF PackInv, TypeOK
    <3>2. \A f \in FragmentType : Past(f) => Past(f)'
      BY PastStays
    <3> QED
      BY <2>1, <3>1, <3>2 DEF Past, Before
  <2> QED
    BY <2>1, <2>2 DEF PackInv
<1>2. ASSUME Read
      PROVE  PackInv'
  <2>1. buffer \in FragmentType /\ buffer # NoFragment /\ buffer' = buffer /\ ~unread'
    BY <1>2, ReadStep DEF TypeOK
  <2>2. CASE buffer.i # 1 /\ ~isReceive
    <3>1. pc' = "recv" /\ UNCHANGED <<isReceive, recv_pack>>
      BY <1>2, <2>2, ReadStep, Zenon
    <3>2. ASSUME NEW k \in 0..(Slots - 1), recv_pack[k] # NoFragment
          PROVE  Past(recv_pack[k])'
      <4>1. recv_pack[k] \in FragmentType /\ Past(recv_pack[k])
        BY <3>2 DEF PackInv, TypeOK
      <4>2. \A f \in FragmentType : Past(f) => Past(f)'
        BY PastStays
      <4> QED
        BY <3>1, <4>1, <4>2 DEF Past, Before
    <3> QED
      BY <2>2, <3>1, <3>2 DEF PackInv
  <2>3. CASE buffer.i = 1 \/ isReceive
    <3>1. /\ recv_pack' = [recv_pack EXCEPT ![At] = buffer]
          /\ isReceive' => pack_counter' = At + 1
      BY <1>2, <2>3, ReadStep, Zenon
    <3>2. At \in Nat
      BY DEF At, TypeOK
    <3>3. recv_pack'[0] # NoFragment
      <4>1. At = 0 \/ recv_pack[0] # NoFragment
        BY <2>3 DEF At, PackInv
      <4>2. 0 \in 0..(Slots - 1)
        BY LenthAssumption
      <4> QED
        BY <2>1, <3>1, <3>2, <4>1, <4>2 DEF TypeOK
    <3>4. ASSUME NEW k \in 0..(Slots - 1), recv_pack'[k] # NoFragment
          PROVE  Past(recv_pack[k])'
      <4>1. CASE recv_pack'[k] = buffer
        <5>1. buffer = Fragment(buffer.packet, buffer.i) /\ buffer.i <= N(buffer.packet)
          BY <2>1 DEF LinkInv
        <5> QED
          BY <2>1, <4>1, <5>1 DEF Past
      <4>2. CASE recv_pack'[k] # buffer
        <5>1. recv_pack'[k] = recv_pack[k]
          BY <3>1, <4>2 DEF TypeOK
        <5>2. recv_pack[k] \in FragmentType /\ Past(recv_pack[k])
          BY <3>4, <5>1 DEF PackInv, TypeOK
        <5>3. \A f \in FragmentType : Past(f) => Past(f)'
          BY PastStays
        <5> QED
          BY <5>1, <5>2, <5>3 DEF Past, Before
      <4> QED
        BY <4>1, <4>2
    <3>5. isReceive' => pack_counter' # 0
      BY <3>1, <3>2
    <3> QED
      BY <3>3, <3>4, <3>5 DEF PackInv
  <2> QED
    BY <2>2, <2>3
<1> QED
  BY <1>1, <1>2 DEF Next

-----------------------------------------------------------------------------
(* What a loss leaves behind *)

\* A missed packet lacks a fragment that cannot come any more.
LEMMA MissedStep ==
  ASSUME TypeOK, LinkInv, PackInv, MissedInv, [Next]_vars
  PROVE  MissedInv'
<1>1. ASSUME NEW p \in missed
      PROVE  \E j \in 1..N(p) :
               Before(p, j)' /\ \A k \in 0..(Slots - 1) : recv_pack'[k] # Fragment(p, j)
  <2>1. PICK j \in 1..N(p) :
          Before(p, j) /\ \A k \in 0..(Slots - 1) : recv_pack[k] # Fragment(p, j)
    BY <1>1, Zenon DEF MissedInv
  <2>2. p \in Packets /\ N(p) \in Nat /\ j \in Nat
    <3>1. p \in Packets
      BY DEF TypeOK
    <3> QED
      BY <3>1, Fragments
  <2>3. Before(p, j)'
    BY <2>1, <2>2, BeforeStays
  <2>4. ASSUME NEW k \in 0..(Slots - 1) PROVE recv_pack'[k] # Fragment(p, j)
    <3>1. CASE recv_pack'[k] = recv_pack[k]
      BY <2>1, <3>1
    <3>2. CASE recv_pack'[k] # recv_pack[k]
      <4>1. CASE Read
        <5>1. buffer # NoFragment /\ recv_pack'[k] = buffer
          <6>1. buffer # NoFragment /\ (recv_pack' = [recv_pack EXCEPT ![At] = buffer]
                                          \/ recv_pack' = recv_pack)
            BY <4>1, ReadStep, Zenon
          <6> QED
            BY <3>2, <6>1 DEF TypeOK
        <5>2. Fragment(p, j).packet = p /\ Fragment(p, j).i = j
          BY <2>2, FragmentFields
        <5>3. buffer.packet \in Nat /\ buffer.i \in Nat /\ p \in Nat
          BY <2>2, <5>1, BufferNat, PacketsInt
        <5>4. p < buffer.packet \/ (p = buffer.packet /\ j < buffer.i)
          BY <2>1 DEF Before
        <5> QED
          BY <2>2, <5>1, <5>2, <5>3, <5>4
      <4>2. CASE Load
        BY <3>2, <4>2, LoadStep
      <4>3. CASE Recv \/ Check \/ UNCHANGED vars
        BY <3>2, <4>3 DEF Recv, Check, vars, packVars
      <4> QED
        BY <4>1, <4>2, <4>3 DEF Next
    <3> QED
      BY <3>1, <3>2
  <2> QED
    BY <2>1, <2>3, <2>4
<1>2. ASSUME NEW p \in missed', p \notin missed
      PROVE  \E j \in 1..N(p) :
               Before(p, j)' /\ \A k \in 0..(Slots - 1) : recv_pack'[k] # Fragment(p, j)
  <2>1. Load /\ unread /\ p = buffer.packet /\ recv_pack' = recv_pack
    <3>1. Load
      BY <1>2, NotLoad
    <3> QED
      BY <1>2, <3>1, LoadStep
  <2>2. buffer # NoFragment /\ buffer \in FragmentType
    BY <2>1 DEF LinkInv, TypeOK
  <2>3. PICK j \in 1..N(p) : j = buffer.i
    BY <2>1, <2>2, InBuffer
  <2>4. buffer = Fragment(p, j)
    BY <2>1, <2>2, <2>3, InBuffer
  <2>5. Before(p, j)'
    <3>1. \A f \in FragmentType : f = buffer => Before(f.packet, f.i)'
      BY <2>1, LoadPast
    <3> QED
      BY <2>1, <2>2, <2>3, <3>1 DEF Before
  <2>6. ASSUME NEW k \in 0..(Slots - 1) PROVE recv_pack'[k] # Fragment(p, j)
    <3>1. buffer.packet \in Nat /\ buffer.i \in Nat
      BY <2>2, BufferNat
    <3>2. ~Past(buffer)
      BY <2>1, <3>1 DEF Past, Before
    <3> QED
      BY <2>1, <2>2, <2>4, <3>2 DEF PackInv
  <2> QED
    BY <2>5, <2>6
<1> QED
  BY <1>1, <1>2 DEF MissedInv

\* The buffer is read again only after a loss.
LEMMA AgainStep ==
  ASSUME TypeOK, LinkInv, AgainInv, [Next]_vars
  PROVE  AgainInv'
<1>1. CASE Load
  <2>0. pc' = pc /\ unread' = TRUE
    BY <1>1, LoadStep, Zenon
  <2>1. SUFFICES ASSUME pc = "read"
                 PROVE  AgainInv'
    BY <2>0 DEF AgainInv
  <2>2. buffer # NoFragment
    BY <2>1 DEF LinkInv
  <2>3. buffer.packet \in Nat /\ buffer.i \in Nat \ {0}
    BY <2>2, BufferNat
  <2>4. \E q \in missed' : q <= buffer.packet
    <3>1. CASE unread /\ ~event
      <4>1. missed' = missed \cup {buffer.packet}
        BY <1>1, <3>1, LoadStep, Zenon
      <4> QED
        BY <2>3, <4>1
    <3>2. CASE ~unread \/ event
      <4>1. PICK q \in missed : q < buffer.packet \/ (q = buffer.packet /\ buffer.i > 1)
        BY <2>1, <3>2 DEF AgainInv, TypeOK
      <4>2. q \in Nat
        BY PacketsInt DEF TypeOK
      <4>3. q \in missed'
        BY <1>1, LoadStep
      <4> QED
        BY <2>3, <4>1, <4>2, <4>3
    <3> QED
      BY <3>1, <3>2
  <2>5. PICK q \in missed' : q <= buffer.packet
    BY <2>4
  <2>6. missed' \subseteq Nat
    <3>1. missed' \subseteq missed \cup {buffer.packet}
      BY <1>1, LoadStep
    <3> QED
      BY <2>3, <3>1, PacketsInt DEF TypeOK
  <2>7. \/ nextP = buffer.packet + 1
        \/ nextP = buffer.packet /\ nextI = buffer.i + 1
    BY <1>1, <2>2, LoadStep, Zenon
  <2>8. q < nextP \/ (q = nextP /\ nextI > 1)
    BY <2>3, <2>5, <2>6, <2>7
  <2>9. buffer'.packet = nextP /\ buffer'.i = nextI
    BY <1>1, LoadStep, Zenon
  <2> QED
    BY <2>5, <2>8, <2>9 DEF AgainInv
<1>2. CASE Recv
  BY <1>2 DEF AgainInv, Recv, TypeOK
<1>3. CASE Read
  <2>1. pc' # "read"
    BY <1>3, ReadStep
  <2>2. pc = "read" /\ UNCHANGED <<buffer, event, missed>>
    BY <1>3, ReadStep
  <2> QED
    BY <2>1, <2>2 DEF AgainInv
<1>4. CASE Check
  BY <1>4 DEF AgainInv, Check
<1>5. CASE UNCHANGED vars
  BY <1>5 DEF AgainInv, vars
<1> QED
  BY <1>1, <1>2, <1>3, <1>4, <1>5 DEF Next

-----------------------------------------------------------------------------
(* What has been delivered *)

\* Where a fragment goes that is read, and the header it leaves.
LEMMA ReadHeader ==
  ASSUME TypeOK, LinkInv, PackInv, Read, buffer.i = 1 \/ isReceive
  PROVE  Header' = IF buffer.i = 1 THEN buffer.packet ELSE Header
<1>1. recv_pack' = [recv_pack EXCEPT ![At] = buffer]
  BY ReadStep, Zenon
<1>2. 0 \in DOMAIN recv_pack
  BY LenthAssumption DEF TypeOK
<1>3. CASE buffer.i = 1
  <2>1. recv_pack'[0] = buffer
    BY <1>1, <1>2, <1>3 DEF At
  <2> QED
    BY <1>3, <2>1 DEF Header
<1>4. CASE buffer.i # 1
  <2>1. recv_pack'[0] = recv_pack[0]
    BY <1>1, <1>2, <1>4 DEF At, PackInv
  <2> QED
    BY <1>4, <2>1 DEF Header
<1> QED
  BY <1>3, <1>4

\* A packet that passes the checks has been in the buffer to its end.
LEMMA CheckedArrived ==
  ASSUME TypeOK, LinkInv, PackInv, pc = "check", CrcRight
  PROVE  /\ buffer # NoFragment
         /\ \/ Header < buffer.packet
            \/ Header = buffer.packet /\ buffer.i = N(buffer.packet) /\ ~unread
<1>1. buffer # NoFragment
  BY DEF LinkInv
<1>2. Header \in Packets /\ N(Header) \in Nat \ {0} /\ N(Header) <= Slots
  BY HeaderType, Fragments
<1>3. recv_pack[N(Header) - 1] = Fragment(Header, N(Header))
  BY <1>2 DEF CrcRight, N
<1> DEFINE f == recv_pack[N(Header) - 1]
<1>4. f # NoFragment /\ f.packet = Header /\ f.i = N(Header)
  BY <1>2, <1>3, FragmentFields
<1>5. N(Header) - 1 \in 0..(Slots - 1)
  BY <1>2, LenthAssumption
<1>6. Past(f)
  BY <1>4, <1>5 DEF PackInv
<1>7. buffer.packet \in Nat /\ buffer.i \in Nat /\ buffer.i <= N(buffer.packet)
  BY <1>1, BufferNat
<1>8. CASE Before(f.packet, f.i)
  BY <1>1, <1>2, <1>4, <1>7, <1>8, PacketsInt DEF Before
<1>9. CASE f = buffer /\ ~unread
  BY <1>1, <1>4, <1>9
<1> QED
  BY <1>6, <1>8, <1>9 DEF Past

\* What Check does.
LEMMA CheckStep ==
  ASSUME TypeOK, PackInv, Check
  PROVE  /\ pc = "check" /\ pc' = "recv"
         /\ UNCHANGED <<nextP, nextI, buffer, unread, event, isReceive, pack_counter,
                        recv_lenth, recv_pack, missed, repeated>>
         /\ Header \in Packets
         /\ \/ UNCHANGED delivered /\ ~(Lenths[Header] = recv_lenth /\ CrcRight)
            \/ /\ Lenths[Header] = recv_lenth /\ CrcRight
               /\ delivered' = Append(delivered, Header)
               /\ Len(delivered') = Len(delivered) + 1
               /\ delivered'[Len(delivered) + 1] = Header
               /\ \A i \in 1..Len(delivered) : delivered'[i] = delivered[i]
<1>1. pc = "check" /\ pc' = "recv"
  BY DEF Check
<1>2. Header \in Packets
  BY <1>1, HeaderType
<1>3. delivered \in Seq(Packets)
  BY DEF TypeOK
<1>4. /\ Len(Append(delivered, Header)) = Len(delivered) + 1
      /\ Append(delivered, Header)[Len(delivered) + 1] = Header
      /\ \A i \in 1..Len(delivered) : Append(delivered, Header)[i] = delivered[i]
  BY <1>2, <1>3
<1> QED
  BY <1>1, <1>2, <1>4 DEF Check, espVars, packVars

\* What is delivered are packets.
LEMMA DeliveredNat ==
  ASSUME TypeOK, NEW i \in 1..Len(delivered)
  PROVE  delivered[i] \in Packets /\ delivered[i] \in Nat
<1>1. delivered \in Seq(Packets)
  BY DEF TypeOK
<1>2. delivered[i] \in Packets
  BY <1>1
<1> QED
  BY <1>2, PacketsInt

\* With Load what was delivered is behind the packet in the buffer.
LEMMA LoadArrived ==
  ASSUME TypeOK, LinkInv, ArrivedInv, Load, NEW i \in 1..Len(delivered)
  PROVE  delivered[i] < nextP /\ delivered[i] \in Nat
<1>1. /\ buffer # NoFragment
      /\ \/ delivered[i] < buffer.packet
         \/ delivered[i] = buffer.packet /\ buffer.i = N(buffer.packet)
  BY DEF ArrivedInv
<1>2. buffer.packet \in Nat /\ buffer.i <= N(buffer.packet) /\ buffer.i \in Nat
  BY <1>1, BufferNat
<1>3. delivered[i] \in Nat
  BY DeliveredNat
<1>4. /\ buffer.i = N(buffer.packet) => nextP = buffer.packet + 1
      /\ nextP = buffer.packet + 1 \/ nextP = buffer.packet
  BY <1>1 DEF LinkInv
<1> QED
  BY <1>1, <1>2, <1>3, <1>4

\* What was delivered stays behind the buffer.
LEMMA ArrivedStep ==
  ASSUME TypeOK, LinkInv, PackInv, ArrivedInv, [Next]_vars
  PROVE  ArrivedInv'
<1>1. CASE Load
  <2>1. buffer' # NoFragment /\ buffer'.packet = nextP /\ delivered' = delivered
    BY <1>1, LoadStep, Zenon
  <2>2. \A i \in 1..Len(delivered) : delivered[i] < nextP
    BY <1>1, LoadArrived
  <2> QED
    BY <2>1, <2>2 DEF ArrivedInv
<1>2. CASE Recv
  BY <1>2 DEF Recv, ArrivedInv
<1>3. CASE Read
  <2>1. UNCHANGED <<buffer, delivered>> /\ ~unread'
    BY <1>3, ReadStep, Zenon
  <2> QED
    BY <2>1 DEF ArrivedInv
<1>4. CASE Check
  <2>1. /\ pc = "check" /\ UNCHANGED <<buffer, unread>>
    BY <1>4, CheckStep, Zenon
  <2>2. CASE UNCHANGED delivered
    BY <2>1, <2>2 DEF ArrivedInv
  <2>3. CASE delivered' # delivered
    <3>1. /\ CrcRight /\ Len(delivered') = Len(delivered) + 1
          /\ delivered'[Len(delivered) + 1] = Header
          /\ \A i \in 1..Len(delivered) : delivered'[i] = delivered[i]
      BY <1>4, <2>3, CheckStep, Zenon
    <3>2. Len(delivered) \in Nat
      BY DEF TypeOK
    <3>3. /\ buffer # NoFragment
          /\ \/ Header < buffer.packet
             \/ Header = buffer.packet /\ buffer.i = N(buffer.packet) /\ ~unread
      BY <2>1, <3>1, CheckedArrived
    <3> QED
      BY <2>1, <3>1, <3>2, <3>3 DEF ArrivedInv
  <2> QED
    BY <2>2, <2>3
<1>5. CASE UNCHANGED vars
  BY <1>5 DEF ArrivedInv, vars
<1> QED
  BY <1>1, <1>2, <1>3, <1>4, <1>5 DEF Next

\* The packet in the buffer is delivered once more at most.
LEMMA OnceMoreStep ==
  ASSUME TypeOK, LinkInv, PackInv, ArrivedInv, OnceMoreInv, [Next]_vars
  PROVE  OnceMoreInv'
<1>1. CASE Load
  <2>1. buffer'.packet = nextP /\ delivered' = delivered /\ unread'
    BY <1>1, LoadStep, Zenon
  <2>2. \A i \in 1..Len(delivered) : delivered[i] # nextP
    <3>1. nextP \in Nat
      BY DEF TypeOK
    <3> QED
      BY <1>1, <3>1, LoadArrived
  <2> QED
    BY <2>1, <2>2 DEF OnceMoreInv
<1>2. CASE Recv
  BY <1>2 DEF Recv, OnceMoreInv
<1>3. CASE Read
  <2>1. pc = "read" /\ UNCHANGED <<buffer, delivered, event>>
    BY <1>3, ReadStep, Zenon
  <2>2. pc' # "read"
    BY <1>3, ReadStep
  <2>3. ASSUME event, NEW i \in 1..Len(delivered)
        PROVE  delivered[i] # buffer.packet
    <3>1. unread
      BY <2>1, <2>3 DEF LinkInv
    <3>2. buffer # NoFragment /\ delivered[i] < buffer.packet
      BY <3>1 DEF ArrivedInv
    <3>3. buffer.packet \in Nat /\ delivered[i] \in Nat
      BY <3>2, BufferNat, DeliveredNat
    <3> QED
      BY <3>2, <3>3
  <2> QED
    BY <2>1, <2>2, <2>3 DEF OnceMoreInv
<1>4. CASE Check
  <2>1. pc = "check" /\ pc' = "recv" /\ UNCHANGED <<buffer, unread, event>>
    BY <1>4, CheckStep, Zenon
  <2>2. Len(delivered) \in Nat
    BY DEF TypeOK
  <2>3. \/ UNCHANGED delivered
        \/ /\ Len(delivered') = Len(delivered) + 1
           /\ \A i \in 1..Len(delivered) : delivered'[i] = delivered[i]
    BY <1>4, CheckStep, Zenon
  <2> QED
    BY <2>1, <2>2, <2>3 DEF OnceMoreInv
<1>5. CASE UNCHANGED vars
  BY <1>5 DEF OnceMoreInv, vars
<1> QED
  BY <1>1, <1>2, <1>3, <1>4, <1>5 DEF Next

\* A packet that begins may arrive.
LEMMA FirstMayArrive ==
  ASSUME TypeOK, LinkInv, AgainInv, ArrivedInv, OnceMoreInv, pc = "read", buffer.i = 1
  PROVE  MayArrive(buffer.packet)
<1>1. SUFFICES ASSUME NEW i \in 1..Len(delivered)
               PROVE  \/ delivered[i] < buffer.packet
                      \/ /\ delivered[i] = buffer.packet /\ i = Len(delivered)
                         /\ \E q \in missed : q < buffer.packet
  BY DEF MayArrive
<1>2. CASE unread
  BY <1>2 DEF ArrivedInv
<1>3. CASE ~unread
  <2>1. \E q \in missed : q < buffer.packet
    BY <1>3 DEF AgainInv
  <2>2. delivered[i] = buffer.packet => i = Len(delivered)
    BY <1>3 DEF OnceMoreInv
  <2> QED
    BY <2>1, <2>2 DEF ArrivedInv
<1> QED
  BY <1>2, <1>3 DEF TypeOK

\* The packet being received may arrive.
LEMMA HeaderStep ==
  ASSUME TypeOK, LinkInv, PackInv, AgainInv, ArrivedInv, OnceMoreInv, HeaderInv, [Next]_vars
  PROVE  HeaderInv'
<1>1. CASE Load \/ Recv \/ UNCHANGED vars
  <2>1. UNCHANGED <<isReceive, recv_pack, delivered>> /\ (pc' = "check" => pc = "check")
    <3>1. CASE Load
      BY <3>1, LoadStep, Zenon
    <3>2. CASE Recv \/ UNCHANGED vars
      BY <3>2 DEF Recv, vars, packVars
    <3> QED
      BY <1>1, <3>1, <3>2
  <2>2. missed \subseteq missed'
    BY <1>1, NotLoad DEF Load, Next
  <2> QED
    BY <2>1, <2>2 DEF HeaderInv, MayArrive, Header
<1>2. CASE Read
  <2>1. UNCHANGED <<delivered, missed, buffer>> /\ pc = "read"
    BY <1>2, ReadStep, Zenon
  <2>2. CASE buffer.i # 1 /\ ~isReceive
    <3>1. pc' = "recv" /\ isReceive' = isReceive
      BY <1>2, <2>2, ReadStep, Zenon
    <3> QED
      BY <2>2, <3>1 DEF HeaderInv
  <2>3. CASE buffer.i = 1
    <3>1. Header' = buffer.packet
      BY <1>2, <2>3, ReadHeader
    <3>2. MayArrive(buffer.packet)
      BY <2>1, <2>3, FirstMayArrive
    <3> QED
      BY <2>1, <3>1, <3>2 DEF HeaderInv, MayArrive
  <2>4. CASE buffer.i # 1 /\ isReceive
    <3>1. Header' = Header
      BY <1>2, <2>4, ReadHeader
    <3>2. MayArrive(Header)
      BY <2>4 DEF HeaderInv
    <3> QED
      BY <2>1, <3>1, <3>2 DEF HeaderInv, MayArrive
  <2> QED
    BY <2>2, <2>3, <2>4
<1>3. CASE Check
  <2>1. pc = "check" /\ pc' = "recv" /\ isReceive' = isReceive
    BY <1>3, CheckStep, Zenon
  <2> QED
    BY <2>1 DEF HeaderInv, LinkInv
<1> QED
  BY <1>1, <1>2, <1>3 DEF Next

-----------------------------------------------------------------------------
(* What happens while a packet is being received *)

\* The packet being received began before the fragment in the buffer.
LEMMA HeaderBehind ==
  ASSUME TypeOK, LinkInv, PackInv, isReceive
  PROVE  /\ buffer # NoFragment
         /\ Header \in Packets /\ Header \in Nat /\ Header <= buffer.packet
<1>1. buffer # NoFragment
  BY DEF LinkInv
<1>2. Header \in Packets /\ Header \in Nat /\ recv_pack[0] \in FragmentType
  BY HeaderType, PacketsInt
<1>3. Past(recv_pack[0])
  BY LenthAssumption DEF PackInv
<1>4. buffer.packet \in Nat
  BY <1>1, BufferNat
<1> QED
  BY <1>1, <1>2, <1>3, <1>4 DEF Past, Before, Header

\* The packets begun since the one being received are missed.
LEMMA RunStep ==
  ASSUME TypeOK, LinkInv, PackInv, RunInv, [Next]_vars
  PROVE  RunInv'
<1>1. CASE Load
  <2>1. SUFFICES ASSUME isReceive
                 PROVE  RunInv'
    <3>1. isReceive' = isReceive
      BY <1>1, LoadStep, Zenon
    <3> QED
      BY <3>1 DEF RunInv
  <2>2. /\ buffer # NoFragment /\ Header \in Packets /\ Header \in Nat
        /\ Header <= buffer.packet
        /\ buffer.packet \in Packets /\ buffer.packet \in Nat
    BY <2>1, HeaderBehind, BufferNat, InBuffer
  <2>3. /\ \A r \in Packets : Header <= r /\ r < buffer.packet => r \in missed
        /\ Header < buffer.packet /\ buffer.i # 1 => buffer.packet \in missed
        /\ Header < buffer.packet /\ buffer.i = 1 => unread
        /\ Header = buffer.packet /\ buffer.i = N(buffer.packet) => unread
    BY <2>1 DEF RunInv
  <2>4. missed' = IF unread THEN missed \cup {buffer.packet} ELSE missed
    BY <1>1, LoadStep, Zenon
  <2>5. /\ buffer'.packet = nextP /\ buffer'.i = nextI /\ unread'
        /\ UNCHANGED <<isReceive, recv_pack>>
    BY <1>1, LoadStep, Zenon
  <2>6. Header' = Header
    BY <2>5 DEF Header
  <2>7. Header < buffer.packet => buffer.packet \in missed'
    BY <2>3, <2>4
  <2>8. \/ nextP = buffer.packet + 1 /\ nextI = 1 /\ buffer.i = N(buffer.packet)
        \/ nextP = buffer.packet
    BY <1>1, <2>2, LoadStep, Zenon
  <2>9. ASSUME NEW r \in Packets, Header <= r, r < nextP
        PROVE  r \in missed'
    <3>1. r \in Nat
      BY PacketsInt
    <3>2. CASE r < buffer.packet
      BY <2>3, <2>4, <2>9, <3>2
    <3>3. CASE ~(r < buffer.packet)
      <4>1. r = buffer.packet /\ buffer.i = N(buffer.packet)
        BY <2>2, <2>8, <2>9, <3>1, <3>3
      <4> QED
        BY <2>2, <2>3, <2>4, <2>7, <2>9, <4>1
    <3> QED
      BY <3>2, <3>3
  <2>10. Header < nextP /\ nextI # 1 => nextP \in missed'
    BY <2>7, <2>8
  <2> QED
    BY <2>5, <2>6, <2>9, <2>10 DEF RunInv
<1>2. CASE Recv \/ UNCHANGED vars
  <2>1. UNCHANGED <<isReceive, recv_pack, buffer, unread, missed>>
    BY <1>2 DEF Recv, vars, packVars
  <2> QED
    BY <2>1 DEF RunInv, Header
<1>3. CASE Read
  <2>1. SUFFICES ASSUME isReceive'
                 PROVE  RunInv'
    BY DEF RunInv
  <2>2. buffer.i = 1 \/ isReceive
    BY <1>3, <2>1, ReadStep, Zenon
  <2>3. buffer.i # N(buffer.packet) /\ UNCHANGED <<buffer, missed>> /\ buffer # NoFragment
    BY <1>3, <2>1, <2>2, ReadStep, Zenon
  <2>4. buffer.packet \in Nat
    BY <2>3, BufferNat
  <2>5. CASE buffer.i = 1
    <3>1. Header' = buffer.packet
      BY <1>3, <2>5, ReadHeader
    <3>2. \A r \in Packets : ~(buffer.packet <= r /\ r < buffer.packet)
      BY <2>4, PacketsInt
    <3> QED
      BY <2>3, <2>4, <3>1, <3>2 DEF RunInv
  <2>6. CASE buffer.i # 1
    <3>1. Header' = Header
      BY <1>3, <2>2, <2>6, ReadHeader
    <3> QED
      BY <2>2, <2>3, <2>6, <3>1 DEF RunInv
  <2> QED
    BY <2>5, <2>6
<1>4. CASE Check
  <2>1. pc = "check" /\ isReceive' = isReceive
    BY <1>4, CheckStep, Zenon
  <2> QED
    BY <2>1 DEF RunInv, LinkInv
<1> QED
  BY <1>1, <1>2, <1>3, <1>4 DEF Next

\* recv_pack as far as the packet in the buffer has been read without mishap,
\* when its next fragment is.
LEMMA ReadHolds ==
  ASSUME TypeOK, LinkInv, PackInv, PartInv, Read,
         buffer.packet \notin missed \cup repeated, unread \/ buffer.i = 1
  PROVE  /\ buffer.i = 1 \/ isReceive
         /\ At = buffer.i - 1
         /\ recv_lenth' = IF buffer.i = N(buffer.packet)
                            THEN Lenths[buffer.packet] ELSE buffer.i * Payload
         /\ \A k \in 0..(buffer.i - 1) : recv_pack'[k] = Fragment(buffer.packet, k + 1)
<1> DEFINE p == buffer.packet
           i == buffer.i
<1>1. buffer # NoFragment
  BY DEF LinkInv, Read
<1>2. /\ p \in Packets /\ i \in Nat \ {0} /\ N(p) \in Nat \ {0} /\ i <= N(p)
      /\ N(p) <= Slots
  BY <1>1, InBuffer, BufferNat, Fragments
<1>3. buffer = Fragment(p, i)
  BY <1>1, InBuffer
<1>4. buffer.bytes = IF i = N(p) THEN LastByte(Lenths[p]) ELSE Payload
  BY <1>1, InBuffer, Zenon
<1>5. /\ i = 1 \/ isReceive
      /\ At = i - 1
      /\ (IF i = 1 THEN 0 ELSE recv_lenth) = (i - 1) * Payload
      /\ \A k \in 0..(i - 2) : recv_pack[k] = Fragment(p, k + 1)
  <2>1. Payload \in Nat
    BY LenthAssumption
  <2>2. CASE i = 1
    BY <2>1, <2>2 DEF At
  <2>3. CASE i # 1
    <3>1. ReadSoFar = i - 1
      BY <2>3 DEF ReadSoFar
    <3>2. i - 1 # 0 /\ i - 1 # N(p) /\ i - 1 \in Nat
      BY <1>2, <2>3
    <3>3. isReceive /\ pack_counter = i - 1 /\ Holds(p, i - 1)
      BY <1>1, <3>1, <3>2 DEF PartInv
    <3>4. recv_lenth = (i - 1) * Payload /\ \A k \in 0..(i - 2) : recv_pack[k] = Fragment(p, k + 1)
      <4>1. (i - 1) - 1 = i - 2
        BY <1>2
      <4> QED
        BY <3>2, <3>3, <4>1 DEF Holds
    <3> QED
      BY <2>3, <3>3, <3>4 DEF At
  <2> QED
    BY <2>2, <2>3
<1> HIDE DEF p, i
<1>6. recv_lenth' = (i - 1) * Payload + buffer.bytes
  BY <1>5, ReadStep, Zenon DEF i
<1>7. recv_lenth' = IF i = N(p) THEN Lenths[p] ELSE i * Payload
  <2>1. CASE i = N(p)
    <3>1. Lenths[p] \in Nat \ {0}
      BY <1>2, LenthAssumption DEF Packets
    <3>2. (N(p) - 1) * Payload + LastByte(Lenths[p]) = Lenths[p]
      BY <3>1, Cut DEF N
    <3> QED
      BY <1>4, <1>6, <2>1, <3>2
  <2>2. CASE i # N(p)
    <3>1. Payload \in Nat /\ i \in Nat
      BY <1>2, LenthAssumption
    <3>2. (i - 1) * Payload + Payload = i * Payload
      BY <3>1
    <3> QED
      BY <1>4, <1>6, <2>2, <3>2
  <2> QED
    BY <2>1, <2>2
<1>8. recv_pack' = [recv_pack EXCEPT ![i - 1] = buffer]
  <2>1. recv_pack' = [recv_pack EXCEPT ![At] = buffer]
    BY <1>5, ReadStep, Zenon DEF i
  <2> QED
    BY <1>5, <2>1
<1>9. \A k \in 0..(i - 1) : recv_pack'[k] = Fragment(p, k + 1)
  <2>1. SUFFICES ASSUME NEW k \in 0..(i - 1) PROVE recv_pack'[k] = Fragment(p, k + 1)
    OBVIOUS
  <2>2. k \in DOMAIN recv_pack
    BY <1>2, LenthAssumption DEF TypeOK
  <2>3. CASE k = i - 1
    <3>1. recv_pack'[k] = buffer /\ k + 1 = i
      BY <1>2, <1>8, <2>2, <2>3
    <3> QED
      BY <1>3, <3>1
  <2>4. CASE k # i - 1
    BY <1>2, <1>5, <1>8, <2>2, <2>4
  <2> QED
    BY <2>3, <2>4
<1> QED
  BY <1>5, <1>7, <1>9 DEF p, i

\* A packet without mishap is received as far as it has been read.
LEMMA PartStep ==
  ASSUME TypeOK, LinkInv, PackInv, PartInv, [Next]_vars
  PROVE  PartInv'
<1>1. CASE Load
  <2>1. /\ buffer'.packet = nextP /\ buffer'.i = nextI /\ unread'
        /\ UNCHANGED <<isReceive, pack_counter, recv_lenth, recv_pack, repeated>>
        /\ missed' = IF unread THEN missed \cup {buffer.packet} ELSE missed
    BY <1>1, LoadStep, Zenon
  <2>2. ReadSoFar' = nextI - 1
    BY <2>1 DEF ReadSoFar
  <2>3. SUFFICES ASSUME nextP \notin missed' \cup repeated', nextI - 1 # 0
                 PROVE  isReceive /\ pack_counter = nextI - 1 /\ Holds(nextP, nextI - 1)
    BY <2>1, <2>2 DEF PartInv, Holds
  <2>4. buffer # NoFragment
    BY <2>3 DEF LinkInv
  <2>5. buffer.i \in Nat \ {0} /\ nextI \in Nat
    BY <2>4, BufferNat DEF TypeOK
  <2>6. nextP = buffer.packet /\ nextI = buffer.i + 1 /\ buffer.i # N(buffer.packet)
    BY <2>3, <2>4 DEF LinkInv
  <2>7. ~unread
    BY <2>1, <2>3, <2>6
  <2>8. ReadSoFar = buffer.i /\ nextI - 1 = buffer.i
    BY <2>5, <2>6, <2>7 DEF ReadSoFar
  <2>9. buffer.packet \notin missed \cup repeated
    BY <2>1, <2>3, <2>6
  <2> QED
    BY <2>4, <2>5, <2>6, <2>8, <2>9 DEF PartInv
<1>2. CASE Recv \/ UNCHANGED vars
  <2>1. UNCHANGED <<buffer, unread, isReceive, pack_counter, recv_lenth, recv_pack,
                    missed, repeated>>
    BY <1>2 DEF Recv, vars, packVars
  <2> QED
    BY <2>1 DEF PartInv, ReadSoFar, Holds
<1>3. CASE Read
  <2> DEFINE p == buffer.packet
             i == buffer.i
  <2>1. /\ UNCHANGED <<buffer, missed>> /\ ~unread' /\ buffer # NoFragment
        /\ repeated' = IF unread \/ i = 1 \/ i = N(p) THEN repeated ELSE repeated \cup {p}
    BY <1>3, ReadStep, Zenon
  <2>2. ReadSoFar' = i
    BY <2>1 DEF ReadSoFar
  <2>3. SUFFICES ASSUME p \notin missed \cup repeated', i # N(p)
                 PROVE  /\ isReceive' /\ pack_counter' = i /\ recv_lenth' = i * Payload
                        /\ \A k \in 0..(i - 1) : recv_pack'[k] = Fragment(p, k + 1)
    BY <2>1, <2>2 DEF PartInv, Holds
  <2>4. p \notin missed \cup repeated /\ (unread \/ i = 1)
    BY <2>1, <2>3
  <2>5. /\ i = 1 \/ isReceive
        /\ At = i - 1 /\ recv_lenth' = i * Payload
        /\ \A k \in 0..(i - 1) : recv_pack'[k] = Fragment(p, k + 1)
    BY <1>3, <2>3, <2>4, ReadHolds
  <2>6. isReceive' /\ pack_counter' = At + 1
    BY <1>3, <2>3, <2>5, ReadStep, Zenon
  <2>7. i \in Nat
    BY <2>1, BufferNat
  <2> QED
    BY <2>5, <2>6, <2>7
<1>4. CASE Check
  <2>1. /\ pc = "check"
        /\ UNCHANGED <<buffer, unread, isReceive, pack_counter, recv_lenth, recv_pack,
                       missed, repeated>>
    BY <1>4, CheckStep, Zenon
  <2> QED
    BY <2>1 DEF PartInv, ReadSoFar, Holds
<1> QED
  BY <1>1, <1>2, <1>3, <1>4 DEF Next

\* A packet without mishap that has been read is delivered or about to be.
LEMMA WholeStep ==
  ASSUME TypeOK, LinkInv, PackInv, PartInv, WholeInv, [Next]_vars
  PROVE  WholeInv'
<1>1. CASE Load
  <2>1. /\ buffer'.packet = nextP /\ unread' /\ nextP \in Packets
        /\ UNCHANGED <<pc, recv_lenth, recv_pack, delivered, repeated>>
        /\ missed' = IF unread THEN missed \cup {buffer.packet} ELSE missed
        /\ nextP' = nextP + 1 \/ nextP' = nextP
    BY <1>1, LoadStep, Zenon
  <2>2. ASSUME NEW p \in Packets \ (missed' \cup repeated'), p < nextP', p # nextP
        PROVE  \/ \E i \in 1..Len(delivered) : delivered[i] = p
               \/ pc = "check" /\ Holds(p, N(p))
    <3>1. p \in Nat /\ nextP \in Nat
      BY <2>1, PacketsInt
    <3>2. p < nextP
      BY <2>1, <2>2, <3>1
    <3>3. p \notin missed \cup repeated /\ ~(p = buffer.packet /\ unread)
      BY <2>1, <2>2
    <3> QED
      BY <3>2, <3>3 DEF WholeInv
  <2> QED
    BY <2>1, <2>2 DEF WholeInv, Holds
<1>2. CASE Recv
  <2>1. /\ pc = "recv"
        /\ UNCHANGED <<nextP, buffer, unread, delivered, missed, repeated>>
    BY <1>2 DEF Recv, espVars
  <2> QED
    BY <2>1 DEF WholeInv
<1>3. CASE Read
  <2>1. /\ pc = "read" /\ UNCHANGED <<nextP, nextI, buffer, missed, delivered>> /\ ~unread'
        /\ buffer # NoFragment /\ repeated \subseteq repeated'
    BY <1>3, ReadStep
  <2>2. ASSUME NEW p \in Packets \ (missed \cup repeated'), p < nextP
        PROVE  \/ \E i \in 1..Len(delivered) : delivered[i] = p
               \/ /\ pc' = "check" /\ recv_lenth' = Lenths[p]
                  /\ \A k \in 0..(N(p) - 1) : recv_pack'[k] = Fragment(p, k + 1)
    <3>1. CASE ~(p = buffer.packet /\ unread)
      BY <2>1, <2>2, <3>1 DEF WholeInv
    <3>2. CASE p = buffer.packet /\ unread
      <4>1. buffer.i = N(p)
        BY <2>1, <2>2, <3>2, BufferNat DEF LinkInv
      <4>2. /\ buffer.i = 1 \/ isReceive
            /\ recv_lenth' = Lenths[p]
            /\ \A k \in 0..(N(p) - 1) : recv_pack'[k] = Fragment(p, k + 1)
        BY <1>3, <2>1, <2>2, <3>2, <4>1, ReadHolds
      <4>3. pc' = "check"
        BY <1>3, <3>2, <4>1, <4>2, ReadStep, Zenon
      <4> QED
        BY <4>2, <4>3
    <3> QED
      BY <3>1, <3>2
  <2> QED
    BY <2>1, <2>2 DEF WholeInv, Holds
<1>4. CASE Check
  <2>1. /\ pc = "check" /\ UNCHANGED <<nextP, buffer, unread, missed, repeated>>
        /\ \/ UNCHANGED delivered /\ ~(Lenths[Header] = recv_lenth /\ CrcRight)
           \/ /\ Len(delivered') = Len(delivered) + 1
              /\ delivered'[Len(delivered) + 1] = Header
              /\ \A i \in 1..Len(delivered) : delivered'[i] = delivered[i]
    BY <1>4, CheckStep, Zenon
  <2>2. Len(delivered) \in Nat
    BY DEF TypeOK
  <2>3. ASSUME NEW p \in Packets, Holds(p, N(p))
        PROVE  p = Header /\ Lenths[Header] = recv_lenth /\ CrcRight
    <3>1. N(p) \in Nat \ {0}
      BY Fragments
    <3>2. \A k \in 0..(N(p) - 1) : recv_pack[k] = Fragment(p, k + 1)
      BY <2>3 DEF Holds
    <3>3. recv_pack[0] = Fragment(p, 1)
      BY <3>1, <3>2
    <3>4. Fragment(p, 1).packet = p
      BY <3>1, FragmentFields
    <3>5. p = Header
      BY <3>3, <3>4 DEF Header
    <3>6. \A i \in 1..N(p) : recv_pack[i - 1] = Fragment(p, i)
      <4>1. SUFFICES ASSUME NEW i \in 1..N(p) PROVE recv_pack[i - 1] = Fragment(p, i)
        OBVIOUS
      <4>2. i - 1 \in 0..(N(p) - 1) /\ (i - 1) + 1 = i
        BY <3>1
      <4> QED
        BY <3>2, <4>2
    <3> QED
      BY <2>3, <3>5, <3>6 DEF Holds, CrcRight, N
  <2>4. ASSUME NEW p \in Packets \ (missed \cup repeated), p < nextP,
               ~(p = buffer.packet /\ unread)
        PROVE  \E i \in 1..Len(delivered') : delivered'[i] = p
    <3>1. CASE \E i \in 1..Len(delivered) : delivered[i] = p
      BY <2>1, <2>2, <3>1
    <3>2. CASE Holds(p, N(p))
      BY <2>1, <2>2, <2>3, <3>2
    <3> QED
      BY <2>4, <3>1, <3>2 DEF WholeInv
  <2> QED
    BY <2>1, <2>4 DEF WholeInv
<1>5. CASE UNCHANGED vars
  <2>1. UNCHANGED <<pc, nextP, buffer, unread, recv_lenth, recv_pack, delivered,
                    missed, repeated>>
    BY <1>5 DEF vars, espVars, packVars
  <2> QED
    BY <2>1 DEF WholeInv, Holds
<1> QED
  BY <1>1, <1>2, <1>3, <1>4, <1>5 DEF Next

\* recv_pack runs on only over packets that are lost.
LEMMA RunsOnStep ==
  ASSUME TypeOK, LinkInv, PackInv, RunInv, PartInv, RunsOnOverLostOnly, [Next]_vars
  PROVE  RunsOnOverLostOnly'
<1>1. CASE Load \/ Recv \/ UNCHANGED vars
  <2>1. UNCHANGED <<isReceive, pack_counter, recv_pack, repeated>>
    <3>1. CASE Load
      BY <3>1, LoadStep, Zenon
    <3>2. CASE Recv \/ UNCHANGED vars
      BY <3>2 DEF Recv, vars, packVars
    <3> QED
      BY <1>1, <3>1, <3>2
  <2>2. missed \subseteq missed'
    BY <1>1, NotLoad DEF Load, Next
  <2>3. Header' = Header
    BY <2>1 DEF Header
  <2>4. isReceive =>
          /\ pack_counter >= Num(Lenths[Header]) => Header \in missed' \cup repeated
          /\ \A k \in (0..(pack_counter - 1)) \cap DOMAIN recv_pack :
               recv_pack[k].packet # Header => Header..recv_pack[k].packet \subseteq missed'
    BY <2>2 DEF RunsOnOverLostOnly
  <2> QED
    BY <2>1, <2>3, <2>4 DEF RunsOnOverLostOnly
<1>2. CASE Read
  <2>1. SUFFICES ASSUME isReceive'
                 PROVE  RunsOnOverLostOnly'
    BY DEF RunsOnOverLostOnly
  <2>2. buffer.i = 1 \/ isReceive
    BY <1>2, <2>1, ReadStep, Zenon
  <2>3. /\ buffer.i # N(buffer.packet) /\ UNCHANGED <<buffer, missed>> /\ buffer # NoFragment
        /\ pack_counter' = At + 1 /\ recv_pack' = [recv_pack EXCEPT ![At] = buffer]
        /\ repeated' = IF unread \/ buffer.i = 1 THEN repeated
                                                 ELSE repeated \cup {buffer.packet}
    BY <1>2, <2>1, <2>2, ReadStep, Zenon
  <2>4. /\ buffer.packet \in Nat /\ buffer.i \in Nat \ {0} /\ N(buffer.packet) \in Nat
        /\ buffer.i <= N(buffer.packet)
    BY <2>3, BufferNat
  <2>5. CASE buffer.i = 1
    <3>1. Header' = buffer.packet /\ At = 0
      BY <1>2, <2>5, ReadHeader DEF At
    <3>2. ~(pack_counter' >= N(buffer.packet))
      BY <2>3, <2>4, <2>5, <3>1
    <3>3. recv_pack'[0] = buffer
      BY <2>3, <3>1, LenthAssumption DEF TypeOK
    <3>4. 0..(pack_counter' - 1) = {0}
      BY <2>3, <3>1
    <3> QED
      BY <3>1, <3>2, <3>3, <3>4 DEF RunsOnOverLostOnly, N
  <2>6. CASE buffer.i # 1
    <3>1. Header' = Header /\ At = pack_counter /\ isReceive /\ pack_counter \in Nat
      BY <1>2, <2>2, <2>6, ReadHeader DEF At, TypeOK
    <3>2. Header \in Packets /\ Header \in Nat /\ Header <= buffer.packet
      BY <3>1, HeaderBehind
    <3>3. Header # buffer.packet => Header..buffer.packet \subseteq missed
      <4>1. \A r \in Header..buffer.packet : r \in Packets
        <5>1. buffer.packet \in 1..Len(Lenths)
          BY <2>3, InBuffer DEF Packets
        <5> QED
          BY <3>2, <5>1, LenthAssumption DEF Packets
      <4> QED
        BY <2>4, <2>6, <3>1, <3>2, <4>1 DEF RunInv
    <3>4. ASSUME pack_counter' >= N(Header)
          PROVE  Header \in missed \cup repeated'
      <4>1. CASE Header # buffer.packet
        BY <2>4, <3>2, <3>3, <4>1
      <4>2. CASE Header = buffer.packet /\ ~unread
        BY <2>3, <2>6, <4>2
      <4>3. CASE Header = buffer.packet /\ unread
        <5>1. ReadSoFar = buffer.i - 1 /\ ReadSoFar # 0 /\ ReadSoFar # N(buffer.packet)
          BY <2>4, <2>6, <4>3 DEF ReadSoFar
        <5>2. Header \in missed \cup repeated \/ pack_counter = buffer.i - 1
          BY <2>3, <4>3, <5>1 DEF PartInv
        <5>3. pack_counter # buffer.i - 1
          BY <2>3, <2>4, <3>1, <3>4, <4>3
        <5> QED
          BY <2>3, <4>3, <5>2, <5>3
      <4> QED
        BY <4>1, <4>2, <4>3
    <3>5. ASSUME NEW k \in (0..(pack_counter' - 1)) \cap DOMAIN recv_pack',
                 recv_pack'[k].packet # Header
          PROVE  Header..recv_pack'[k].packet \subseteq missed
      <4>1. k \in DOMAIN recv_pack
        BY <2>3
      <4>2. CASE k = pack_counter
        BY <2>3, <3>1, <3>3, <3>5, <4>1, <4>2
      <4>3. CASE k # pack_counter
        <5>1. k \in 0..(pack_counter - 1) /\ recv_pack'[k] = recv_pack[k]
          BY <2>3, <3>1, <4>1, <4>3
        <5> QED
          BY <3>1, <3>5, <4>1, <5>1 DEF RunsOnOverLostOnly
      <4> QED
        BY <4>2, <4>3
    <3> QED
      BY <2>3, <3>1, <3>4, <3>5 DEF RunsOnOverLostOnly, N
  <2> QED
    BY <2>5, <2>6
<1>3. CASE Check
  <2>1. pc = "check" /\ isReceive' = isReceive
    BY <1>3, CheckStep, Zenon
  <2> QED
    BY <2>1 DEF RunsOnOverLostOnly, LinkInv
<1> QED
  BY <1>1, <1>2, <1>3 DEF Next
-----------------------------------------------------------------------------
(* The theorems *)

\* The receiver begins as the invariant says.
LEMMA InitInv == Init => IInv
<1> SUFFICES ASSUME Init PROVE IInv
  OBVIOUS
<1>1. TypeOK
  <2>1. nextP \in 1..(Len(Lenths) + 1) /\ nextI \in Nat \ {0}
    <3>1. Len(Lenths) \in Nat
      BY LenthAssumption
    <3> QED
      BY <3>1 DEF Init
  <2>2. recv_pack \in [0..(Slots - 1) -> FragmentType \cup {NoFragment}]
    BY DEF Init
  <2>3. delivered \in Seq(Packets)
    BY DEF Init
  <2>4. pack_counter \in Nat /\ recv_lenth \in Nat /\ pc \in {"recv", "read", "check"}
    BY DEF Init
  <2> QED
    BY <2>1, <2>2, <2>3, <2>4, Zenon DEF Init, TypeOK
<1>2. LinkInv
  BY DEF Init, LinkInv
<1>3. PackInv
  BY DEF Init, PackInv
<1>4. MissedInv /\ AgainInv
  BY DEF Init, MissedInv, AgainInv
<1>5. ArrivedInv /\ OnceMoreInv /\ HeaderInv
  BY DEF Init, ArrivedInv, OnceMoreInv, HeaderInv
<1>6. RunInv /\ RunsOnOverLostOnly /\ PartInv
  BY DEF Init, RunInv, RunsOnOverLostOnly, PartInv
<1>7. WholeInv
  BY PacketsInt DEF Init, WholeInv
<1> QED
  BY <1>1, <1>2, <1>3, <1>4, <1>5, <1>6, <1>7 DEF IInv

\* Every step keeps the invariant.
LEMMA NextInv == IInv /\ [Next]_vars => IInv'
<1> SUFFICES ASSUME IInv, [Next]_vars PROVE IInv'
  OBVIOUS
<1>1. TypeOK' /\ LinkInv' /\ PackInv'
  BY TypeStep, LinkStep, PackStep DEF IInv
<1>2. MissedInv' /\ AgainInv'
  BY MissedStep, AgainStep DEF IInv
<1>3. ArrivedInv' /\ OnceMoreInv' /\ HeaderInv'
  BY ArrivedStep, OnceMoreStep, HeaderStep DEF IInv
<1>4. RunInv' /\ RunsOnOverLostOnly' /\ PartInv' /\ WholeInv'
  BY RunStep, RunsOnStep, PartStep, WholeStep DEF IInv
<1> QED
  BY <1>1, <1>2, <1>3, <1>4 DEF IInv

\* The invariant always holds.
LEMMA Invariant == Spec => []IInv
BY InitInv, NextInv, PTL DEF Spec

\* The variables of esp8266.c and of the ESP8266 keep their types.
THEOREM TypeCorrect == Spec => []TypeOK
<1>1. IInv => TypeOK
  BY DEF IInv
<1> QED
  BY <1>1, Invariant, PTL

\* A packet that wifi_thread_entry reads fragment by fragment passes its checks,
\* whatever became of the packets before it.
THEOREM IntactDelivered == Spec => []IntactIsDelivered
<1>1. IInv => IntactIsDelivered
  <2> SUFFICES ASSUME IInv, pc = "recv", ~event, NEW p \in Packets \ (missed \cup repeated),
                      p < nextP
               PROVE  \E i \in 1..Len(delivered) : delivered[i] = p
    BY DEF IntactIsDelivered
  <2>1. ~unread
    BY DEF IInv, LinkInv
  <2> QED
    BY <2>1 DEF IInv, WholeInv
<1> QED
  BY <1>1, Invariant, PTL

\* esp8266_spi_read runs on in recv_pack only over packets that are lost.
THEOREM RunsOn == Spec => []RunsOnOverLostOnly
<1>1. IInv => RunsOnOverLostOnly
  BY DEF IInv
<1> QED
  BY <1>1, Invariant, PTL

\* How many packets the ESP8266 has begun to send: sent, for the channel.
Sent == IF nextI = 1 THEN nextP - 1 ELSE nextP

\* When a fragment is in the buffer, its packet is the last one begun.
LEMMA SentIsBuffer ==
  ASSUME TypeOK, LinkInv, buffer # NoFragment
  PROVE  Sent = buffer.packet
<1>1. buffer.packet \in Nat /\ buffer.i \in Nat \ {0}
  BY BufferNat
<1>2. \/ nextP = buffer.packet + 1 /\ nextI = 1
      \/ nextP = buffer.packet /\ nextI = buffer.i + 1
  BY DEF LinkInv
<1> QED
  BY <1>1, <1>2 DEF Sent

\* Load is a Send.
LEMMA LoadSends ==
  ASSUME IInv, Load
  PROVE  Channel!Send
<1> USE DEF IInv
<1>1. /\ nextP \in Nat /\ nextI \in Nat \ {0}
      /\ \/ nextI' = 1 /\ nextP' = nextP + 1
         \/ nextI' = nextI + 1 /\ nextP' = nextP
  <2>1. \/ nextI' = 1 /\ nextP' = nextP + 1
        \/ nextI' = nextI + 1 /\ nextP' = nextP
    BY LoadStep, Zenon
  <2> QED
    BY <2>1 DEF TypeOK
<1>2. Sent' \in {Sent, Sent + 1}
  BY <1>1 DEF Sent
<1>3. /\ UNCHANGED delivered
      /\ missed' = IF unread THEN missed \cup {buffer.packet} ELSE missed
  BY LoadStep, Zenon
<1>4. \/ UNCHANGED missed
      \/ \E p \in 1..Sent :
           /\ \A i \in 1..Len(delivered) : delivered[i] # p
           /\ missed' = missed \cup {p}
  <2>1. CASE unread
    <3>1. buffer # NoFragment
      BY <2>1 DEF LinkInv
    <3>2. buffer.packet \in Nat \ {0} /\ Sent = buffer.packet
      BY <3>1, BufferNat, SentIsBuffer
    <3>3. \A i \in 1..Len(delivered) : delivered[i] # buffer.packet
      <4>1. SUFFICES ASSUME NEW i \in 1..Len(delivered)
                     PROVE  delivered[i] # buffer.packet
        OBVIOUS
      <4>2. delivered[i] < buffer.packet /\ delivered[i] \in Nat
        BY <2>1, DeliveredNat DEF ArrivedInv
      <4> QED
        BY <3>2, <4>2
    <3> QED
      BY <1>3, <2>1, <3>2, <3>3
  <2>2. CASE ~unread
    BY <1>3, <2>2
  <2> QED
    BY <2>1, <2>2
<1> QED
  BY <1>2, <1>3, <1>4 DEF Channel!Send, Sent

\* A Check that hands a packet on is a Deliver.
LEMMA CheckDelivers ==
  ASSUME IInv, Check
  PROVE  Channel!Next \/ UNCHANGED <<nextP, nextI, missed, delivered>>
<1> USE DEF IInv
<1>1. CASE UNCHANGED delivered
  BY <1>1, CheckStep
<1>2. CASE delivered' # delivered
  <2>1. /\ pc = "check" /\ CrcRight /\ delivered' = Append(delivered, Header)
        /\ UNCHANGED <<nextP, nextI, missed>> /\ Header \in Packets
    BY <1>2, CheckStep, Zenon
  <2>2. Header \in 1..Sent
    <3>1. buffer # NoFragment /\ (Header < buffer.packet \/ Header = buffer.packet)
      BY <2>1, CheckedArrived
    <3>2. Sent = buffer.packet /\ buffer.packet \in Nat
      BY <3>1, SentIsBuffer, BufferNat
    <3> QED
      BY <2>1, <3>1, <3>2, PacketsInt
  <2>3. Header \notin missed
    <3>1. SUFFICES ASSUME Header \in missed PROVE FALSE
      OBVIOUS
    <3>2. N(Header) \in Nat /\ N(Header) <= Slots
      BY <2>1, Fragments
    <3>3. PICK j \in 1..N(Header) :
            \A k \in 0..(Slots - 1) : recv_pack[k] # Fragment(Header, j)
      BY <3>1 DEF MissedInv
    <3>4. j - 1 \in 0..(Slots - 1)
      BY <3>2, LenthAssumption
    <3>5. recv_pack[j - 1] = Fragment(Header, j)
      BY <2>1 DEF CrcRight, N
    <3> QED
      BY <3>3, <3>4, <3>5
  <2>4. MayArrive(Header)
    BY <2>1 DEF HeaderInv
  <2>5. Channel!Deliver(Header)
    BY <2>1, <2>3, <2>4 DEF Channel!Deliver, MayArrive
  <2> QED
    BY <2>2, <2>5 DEF Channel!Next, Sent
<1> QED
  BY <1>1, <1>2

\* The ESP8266 and the reading of its buffer by the wifi thread make a PacketChannel.
THEOREM LinkIsChannel == Spec => IsChannel
<1>1. Init => Channel!Init
  BY DEF Init, Channel!Init
<1>2. IInv /\ [Next]_vars => [Channel!Next]_Channel!vars
  <2> SUFFICES ASSUME IInv, [Next]_vars
               PROVE  Channel!Next \/ UNCHANGED <<nextP, nextI, missed, delivered>>
    BY DEF Channel!vars
  <2>1. CASE Load
    BY <2>1, LoadSends DEF Channel!Next
  <2>2. CASE Recv \/ Read \/ UNCHANGED vars
    BY <2>2 DEF Recv, Read, vars, espVars
  <2>3. CASE Check
    BY <2>3, CheckDelivers
  <2> QED
    BY <2>1, <2>2, <2>3 DEF Next
<1> QED
  BY <1>1, <1>2, Invariant, PTL DEF Spec, IsChannel, Channel!Spec

-----------------------------------------------------------------------------
(* What the channel promises, and so the link keeps *)

ChannelTypeOK ==
  /\ Sent \in Nat
  /\ delivered \in Seq(Nat)
  /\ missed \subseteq Nat

\* The promises of a PacketChannel at its beginning.
LEMMA ChannelInit == Channel!Init => ChannelTypeOK /\ Channel!Reliable
BY DEF Channel!Init, Channel!Reliable, Channel!InOrder, Channel!OnlySent,
       Channel!TwiceOnlyAfterLoss, ChannelTypeOK, Sent

\* Sending, with or without a loss, keeps them: what is lost has not arrived.
LEMMA ChannelSend ==
  ASSUME ChannelTypeOK, Channel!Reliable, Channel!Send
  PROVE  ChannelTypeOK' /\ Channel!Reliable'
<1>1. /\ Sent \in Nat /\ Sent' \in {Sent, Sent + 1} /\ delivered' = delivered
      /\ missed \subseteq missed'
      /\ \A p \in missed' \ missed :
           p \in 1..Sent /\ \A i \in 1..Len(delivered) : delivered[i] # p
  BY DEF ChannelTypeOK, Channel!Send, Sent
<1>2. ChannelTypeOK'
  BY <1>1 DEF ChannelTypeOK
<1>3. Channel!InOrder'
  BY <1>1 DEF Channel!Reliable, Channel!InOrder
<1>4. Channel!OnlySent'
  <2>1. \A i \in 1..Len(delivered) : delivered[i] \in (1..Sent) \ missed
    BY DEF Channel!Reliable, Channel!OnlySent, Sent
  <2>2. \A i \in 1..Len(delivered) : delivered[i] \in (1..Sent') \ missed'
    BY <1>1, <2>1
  <2> QED
    BY <1>1, <2>2 DEF Channel!OnlySent, Sent
<1>5. Channel!TwiceOnlyAfterLoss'
  BY <1>1 DEF Channel!Reliable, Channel!TwiceOnlyAfterLoss
<1> QED
  BY <1>2, <1>3, <1>4, <1>5 DEF Channel!Reliable

\* So does an arrival, which is behind the others or repeats the last one.
LEMMA ChannelDeliver ==
  ASSUME ChannelTypeOK, Channel!Reliable, NEW p \in 1..Sent, Channel!Deliver(p)
  PROVE  ChannelTypeOK' /\ Channel!Reliable'
<1> DEFINE n == Len(delivered)
<1>1. /\ n \in Nat /\ Len(delivered') = n + 1 /\ delivered'[n + 1] = p
      /\ \A i \in 1..n : delivered'[i] = delivered[i] /\ delivered[i] \in Nat
      /\ delivered' \in Seq(Nat) /\ p \in Nat
  BY DEF ChannelTypeOK, Channel!Deliver
<1>2. /\ p \notin missed /\ UNCHANGED <<Sent, missed>>
      /\ \A i \in 1..n :
           delivered[i] < p \/ (delivered[i] = p /\ \E q \in missed : q < p)
  BY DEF Channel!Deliver, Sent
<1> HIDE DEF n
<1>3. ChannelTypeOK'
  BY <1>1, <1>2 DEF ChannelTypeOK
<1>4. \A i \in 1..Len(delivered') : i \in 1..n \/ i = n + 1
  BY <1>1
<1>5. Channel!InOrder'
  <2>1. \A i, j \in 1..n : i < j => delivered[i] <= delivered[j]
    BY DEF Channel!Reliable, Channel!InOrder, n
  <2>2. ASSUME NEW i \in 1..Len(delivered'), NEW j \in 1..Len(delivered'), i < j
        PROVE  delivered'[i] <= delivered'[j]
    <3>1. i \in 1..n
      BY <1>1, <2>2
    <3> QED
      BY <1>1, <1>2, <1>4, <2>1, <2>2, <3>1
  <2> QED
    BY <2>2 DEF Channel!InOrder
<1>6. Channel!OnlySent'
  <2>1. \A i \in 1..n : delivered[i] \in (1..Sent) \ missed
    BY DEF Channel!Reliable, Channel!OnlySent, Sent, n
  <2>2. \A i \in 1..Len(delivered') : delivered'[i] \in (1..Sent') \ missed'
    BY <1>1, <1>2, <1>4, <2>1
  <2> QED
    BY <2>2 DEF Channel!OnlySent, Sent
<1>7. Channel!TwiceOnlyAfterLoss'
  <2>1. \A i, j \in 1..n :
          i < j /\ delivered[i] = delivered[j] => \E q \in missed : q < delivered[i]
    BY DEF Channel!Reliable, Channel!TwiceOnlyAfterLoss, n
  <2>2. ASSUME NEW i \in 1..Len(delivered'), NEW j \in 1..Len(delivered'), i < j,
               delivered'[i] = delivered'[j]
        PROVE  \E q \in missed' : q < delivered'[i]
    <3>1. i \in 1..n
      BY <1>1, <2>2
    <3> QED
      BY <1>1, <1>2, <1>4, <2>1, <2>2, <3>1
  <2> QED
    BY <2>2 DEF Channel!TwiceOnlyAfterLoss
<1> QED
  BY <1>3, <1>5, <1>6, <1>7 DEF Channel!Reliable

\* The packets that wifi_thread_entry hands on come in the order they were sent,
\* none that was missed is among them, and one comes twice only behind one that
\* was: the link keeps what a PacketChannel promises.
THEOREM PacketsReliable == Spec => []Channel!Reliable
<1>1. ChannelTypeOK /\ Channel!Reliable /\ [Channel!Next]_Channel!vars
        => ChannelTypeOK' /\ Channel!Reliable'
  <2> SUFFICES ASSUME ChannelTypeOK, Channel!Reliable, [Channel!Next]_Channel!vars
               PROVE  ChannelTypeOK' /\ Channel!Reliable'
    OBVIOUS
  <2>1. CASE Channel!Send
    BY <2>1, ChannelSend
  <2>2. CASE \E p \in 1..Sent : Channel!Deliver(p)
    BY <2>2, ChannelDeliver
  <2>3. CASE UNCHANGED Channel!vars
    BY <2>3 DEF Channel!vars, Channel!Reliable, Channel!InOrder, Channel!OnlySent,
                Channel!TwiceOnlyAfterLoss, ChannelTypeOK, Sent
  <2> QED
    BY <2>1, <2>2, <2>3 DEF Channel!Next, Sent
<1> QED
  BY <1>1, ChannelInit, LinkIsChannel, PTL DEF IsChannel, Channel!Spec

=============================================================================
