----------------------------- MODULE EspReceive -----------------------------
(***************************************************************************)
(* The receiving half of the ESP8266 link (esp8266.c): the ESP8266 cuts a  *)
(* packet into fragments, puts one after the other into its SPI buffer and *)
(* raises GPIO5; the interrupt sends HSPI_RX to the wifi thread, which     *)
(* reads the buffer and puts the packet together again.  Events merge, and *)
(* nothing holds the next fragment back until the last one is read, so a   *)
(* fragment may be missed and another read twice.                          *)
(***************************************************************************)
EXTENDS Integers, Sequences

CONSTANTS
  Lenths,     \* bound: the lengths of the packets sent, in order
  Payload,    \* bytes of data in a full fragment (31)
  Slots,      \* fragments that recv_pack holds (165)
  NoFragment

ASSUME LenthAssumption == /\ Payload \in Nat \ {0} /\ Slots \in Nat \ {0}
                          /\ Lenths \in Seq(Nat \ {0})

Packets == 1..Len(Lenths)

\* Fault: a packet that fills its last fragment is not told from an empty rest.
LastByteRest(lenth) == lenth % Payload

\* The ESP8266 cuts as esp8266_spi_write does: bytes in the last fragment of a
\* packet, and fragments in all.
LastByte(lenth) == IF lenth % Payload = 0 THEN Payload ELSE lenth % Payload
Num(lenth)      == IF lenth % Payload = 0 THEN lenth \div Payload ELSE lenth \div Payload + 1

\* Fragment i of packet p with its command byte: start and end bit, bytes.
Fragment(p, i) ==
  [packet |-> p, i |-> i, start |-> i = 1, end |-> i = Num(Lenths[p]),
   bytes |-> IF i = Num(Lenths[p]) THEN LastByte(Lenths[p]) ELSE Payload]

\* recv_pack has room for every packet.
ASSUME SlotsAssumption == \A p \in Packets : Num(Lenths[p]) <= Slots

FragmentType == [packet : Packets, i : Nat \ {0}, start : BOOLEAN, end : BOOLEAN,
                 bytes : 1..Payload]

ASSUME NoFragmentAssumption == NoFragment \notin FragmentType

VARIABLES
  nextP, nextI, \* the fragment the ESP8266 sends next
  buffer,       \* its SPI buffer
  unread,       \* no one has read the buffer yet
  event,        \* HSPI_RX
  pc,           \* where wifi is
  isReceive, pack_counter, recv_lenth, recv_pack,
  delivered,    \* history: packets that passed the checks, in order
  missed,       \* history: packets a fragment of which was overwritten unread
  repeated      \* history: packets a fragment of which was read again in their midst

espVars  == <<nextP, nextI>>
packVars == <<isReceive, pack_counter, recv_lenth, recv_pack>>
vars     == <<espVars, buffer, unread, event, pc, packVars, delivered, missed, repeated>>

Init ==
  /\ nextP = 1 /\ nextI = 1
  /\ buffer = NoFragment
  /\ unread = FALSE
  /\ event = FALSE
  /\ pc = "recv"
  /\ isReceive = FALSE /\ pack_counter = 0 /\ recv_lenth = 0
  /\ recv_pack = [k \in 0..(Slots - 1) |-> NoFragment]
  /\ delivered = <<>>
  /\ missed = {}
  /\ repeated = {}

-----------------------------------------------------------------------------
\* The ESP8266 puts its next fragment into the buffer; the interrupt follows.
Load ==
  /\ nextP \in Packets
  /\ buffer' = Fragment(nextP, nextI)
  /\ unread' = TRUE
  /\ event' = TRUE
  /\ missed' = IF unread THEN missed \cup {buffer.packet} ELSE missed
  /\ IF buffer'.end THEN nextP' = nextP + 1 /\ nextI' = 1
                    ELSE nextI' = nextI + 1 /\ UNCHANGED nextP
  /\ UNCHANGED <<pc, packVars, delivered, repeated>>

\* rt_event_recv
Recv ==
  /\ pc = "recv"
  /\ event
  /\ event' = FALSE
  /\ pc' = "read"
  /\ UNCHANGED <<espVars, buffer, unread, packVars, delivered, missed, repeated>>

\* Fault: a start bit does not clear the length of a packet begun before.
ReadLenthKept ==
  /\ pc = "read"
  /\ unread' = FALSE
  /\ repeated' = IF unread \/ buffer.start \/ buffer.end
                    THEN repeated ELSE repeated \cup {buffer.packet}
  /\ IF buffer.start \/ isReceive
       THEN LET at == IF buffer.start THEN 0 ELSE pack_counter
            IN  /\ recv_lenth' = recv_lenth + buffer.bytes
                /\ recv_pack' = [recv_pack EXCEPT ![at] = buffer]
                /\ isReceive' = ~buffer.end
                /\ pack_counter' = IF buffer.end THEN at ELSE at + 1
                /\ pc' = IF buffer.end THEN "check" ELSE "recv"
       ELSE pc' = "recv" /\ UNCHANGED packVars
  /\ UNCHANGED <<espVars, buffer, event, delivered, missed>>

\* Fault: a start bit does not begin again at the head of recv_pack.
ReadCounterKept ==
  /\ pc = "read"
  /\ unread' = FALSE
  /\ repeated' = IF unread \/ buffer.start \/ buffer.end
                    THEN repeated ELSE repeated \cup {buffer.packet}
  /\ IF buffer.start \/ isReceive
       THEN LET at == IF isReceive THEN pack_counter ELSE 0
            IN  /\ recv_lenth' = (IF buffer.start THEN 0 ELSE recv_lenth) + buffer.bytes
                /\ recv_pack' = [recv_pack EXCEPT ![at] = buffer]
                /\ isReceive' = ~buffer.end
                /\ pack_counter' = IF buffer.end THEN at ELSE at + 1
                /\ pc' = IF buffer.end THEN "check" ELSE "recv"
       ELSE pc' = "recv" /\ UNCHANGED packVars
  /\ UNCHANGED <<espVars, buffer, event, delivered, missed>>

\* esp8266_spi_read: a start bit begins a packet anew, an end bit completes it;
\* without a packet begun a fragment is ignored.
Read ==
  /\ pc = "read"
  /\ unread' = FALSE
  /\ repeated' = IF unread \/ buffer.start \/ buffer.end
                    THEN repeated ELSE repeated \cup {buffer.packet}
  /\ IF buffer.start \/ isReceive
       THEN LET at == IF buffer.start THEN 0 ELSE pack_counter
            IN  /\ recv_lenth' = (IF buffer.start THEN 0 ELSE recv_lenth) + buffer.bytes
                /\ recv_pack' = [recv_pack EXCEPT ![at] = buffer]
                /\ isReceive' = ~buffer.end
                /\ pack_counter' = IF buffer.end THEN at ELSE at + 1
                /\ pc' = IF buffer.end THEN "check" ELSE "recv"
       ELSE pc' = "recv" /\ UNCHANGED packVars
  /\ UNCHANGED <<espVars, buffer, event, delivered, missed>>

\* The packet whose header lies in recv_pack.
Header == recv_pack[0].packet

\* The bytes the CRC covers are those that were sent with the header.
CrcRight == \A i \in 1..Num(Lenths[Header]) : recv_pack[i - 1] = Fragment(Header, i)

\* Fault: the CRC is not checked.
CheckLenthOnly ==
  /\ pc = "check"
  /\ delivered' = IF Lenths[Header] = recv_lenth THEN Append(delivered, Header) ELSE delivered
  /\ pc' = "recv"
  /\ UNCHANGED <<espVars, buffer, unread, event, packVars, missed, repeated>>

\* wifi_thread_entry checks length and CRC, hands the packet on, and is ready
\* for the next one.
Check ==
  /\ pc = "check"
  /\ delivered' = IF Lenths[Header] = recv_lenth /\ CrcRight
                    THEN Append(delivered, Header) ELSE delivered
  /\ pc' = "recv"
  /\ UNCHANGED <<espVars, buffer, unread, event, packVars, missed, repeated>>

Next == Load \/ Recv \/ Read \/ Check

Spec == Init /\ [][Next]_vars

-----------------------------------------------------------------------------
TypeOK ==
  /\ nextP \in 1..(Len(Lenths) + 1) /\ nextI \in Nat \ {0}
  /\ buffer \in FragmentType \cup {NoFragment}
  /\ unread \in BOOLEAN /\ event \in BOOLEAN /\ isReceive \in BOOLEAN
  /\ pc \in {"recv", "read", "check"}
  /\ pack_counter \in Nat /\ recv_lenth \in Nat
  /\ recv_pack \in [0..(Slots - 1) -> FragmentType \cup {NoFragment}]
  /\ delivered \in Seq(Packets)
  /\ missed \subseteq Packets /\ repeated \subseteq Packets

\* Whatever became of the packets before, one that was read fragment by fragment
\* passes the checks: the receiver finds back at the next start bit.
IntactIsDelivered ==
  pc = "recv" /\ ~event =>
    \A p \in Packets \ (missed \cup repeated) :
      p < nextP => \E i \in 1..Len(delivered) : delivered[i] = p

\* recv_pack runs on behind a packet only over packets that are lost anyway, and
\* past its number of fragments only when one of them was overwritten unread or
\* read again: what bounds pack_counter is a row of such mishaps, nothing else.
RunsOnOverLostOnly ==
  isReceive =>
    /\ pack_counter >= Num(Lenths[Header]) => Header \in missed \cup repeated
    /\ \A k \in (0..(pack_counter - 1)) \cap DOMAIN recv_pack :
         recv_pack[k].packet # Header => Header..recv_pack[k].packet \subseteq missed

\* The link is a PacketChannel.
Channel == INSTANCE PacketChannel WITH
             sent <- IF nextI = 1 THEN nextP - 1 ELSE nextP, lost <- missed,
             delivered <- delivered

IsChannel == Channel!Spec
=============================================================================
