--------------------------- MODULE PacketChannel ---------------------------
(***************************************************************************)
(* What the receiving half of the ESP8266 link promises to the wifi thread: *)
(* packets arrive whole and in the order they were sent.  Some may be lost, *)
(* and once one is lost, others may arrive twice.                          *)
(***************************************************************************)
EXTENDS Integers, Sequences

VARIABLES
  sent,       \* packets sent so far: 1..sent
  lost,       \* those that cannot arrive any more
  delivered   \* those that arrived, in order

vars == <<sent, lost, delivered>>

Init == sent = 0 /\ lost = {} /\ delivered = <<>>

\* A packet is sent; one sent before, or this one, may be lost by that.
Send ==
  /\ sent' \in {sent, sent + 1}
  /\ \/ UNCHANGED lost
     \/ \E p \in 1..sent :
          /\ \A i \in 1..Len(delivered) : delivered[i] # p
          /\ lost' = lost \cup {p}
  /\ UNCHANGED delivered

\* Packet p arrives after those before it, or once more when one before is lost.
Deliver(p) ==
  /\ p \notin lost
  /\ \A i \in 1..Len(delivered) :
       delivered[i] < p \/ (delivered[i] = p /\ i = Len(delivered) /\ \E q \in lost : q < p)
  /\ delivered' = Append(delivered, p)
  /\ UNCHANGED <<sent, lost>>

Next == Send \/ \E p \in 1..sent : Deliver(p)

Spec == Init /\ [][Next]_vars

-----------------------------------------------------------------------------
(* What the users of the channel may rely on *)

\* A packet never arrives before one that was sent after it.
InOrder ==
  \A i, j \in 1..Len(delivered) : i < j => delivered[i] <= delivered[j]

\* What arrives was sent, and is not what was lost.
OnlySent ==
  \A i \in 1..Len(delivered) : delivered[i] \in (1..sent) \ lost

\* A packet arrives twice only behind a lost one, so never on a link that
\* loses nothing.
TwiceOnlyAfterLoss ==
  \A i, j \in 1..Len(delivered) :
    i < j /\ delivered[i] = delivered[j] => \E q \in lost : q < delivered[i]

Reliable == InOrder /\ OnlySent /\ TwiceOnlyAfterLoss
=============================================================================
