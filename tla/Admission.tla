----------------------------- MODULE Admission -----------------------------
(***************************************************************************)
(* What admission promises: the door is opened for a user whom the server  *)
(* lets in by an order that was in force at one moment after the event was *)
(* taken, who holds the card that was presented, and who does not pass     *)
(* twice in the same direction under one order, as far as his passes could *)
(* be stored.  The list, the file, the sector buffers and the CRC unit are *)
(* not seen.                                                               *)
(***************************************************************************)
EXTENDS Naturals

CONSTANTS Users, Cards, NoCard, Ways, Directions, NoDirection

\* An order of the server about a user: his card, and what he may do.
Orders == [card : Cards \cup {NoCard}, class : {"super", "member", "guest", "nobody"}]

AnyCard  == Cards \cup {NoCard}
NoHolder == [user |-> 0, order |-> [card |-> NoCard, class |-> "nobody"]]

VARIABLES
  ordered,   \* the server's last order about each user
  last,      \* each user's last pass under it that was stored
  phase,     \* of the handling of an event
  ways,      \* the ways the event asks for
  cards,     \* the card presented, and any once the list has been changed
  holder     \* the user found and the order then in force

vars == <<ordered, last, phase, ways, cards, holder>>

Init ==
  /\ ordered \in [Users -> Orders]
  /\ last = [u \in Users |-> NoDirection]
  /\ phase = "idle" /\ ways = {} /\ cards = {} /\ holder = NoHolder

\* The server's order about user u replaces the one before.
Order(u) ==
  /\ UNCHANGED <<phase, ways, cards, holder>>
  /\ last' = [last EXCEPT ![u] = NoDirection]
  /\ ordered' = [ordered EXCEPT ![u] = ordered'[u]]
  /\ ordered'[u] \in Orders

\* The server has the list changed under a card that is looked up.
Relist ==
  /\ phase # "idle"
  /\ cards' = AnyCard
  /\ UNCHANGED <<ordered, last, phase, ways, holder>>

\* An event comes, that asks for some ways with one card.
Ask ==
  /\ phase = "idle"
  /\ phase' = "asked"
  /\ ways' \subseteq Ways
  /\ \E c \in AnyCard : cards' = {c}
  /\ UNCHANGED <<ordered, last, holder>>

\* User u is found, with the order about him.
Find(u) ==
  /\ phase = "asked"
  /\ ordered[u].class # "nobody"
  /\ phase' = "found"
  /\ holder' = [user |-> u, order |-> ordered[u]]
  /\ UNCHANGED <<ordered, last, ways, cards>>

Done ==
  /\ phase' = "idle" /\ ways' = {} /\ cards' = {} /\ holder' = NoHolder
  /\ UNCHANGED <<ordered, last>>

\* The event is dismissed: this is allowed at any time.
Dismiss == phase \in {"asked", "found"} /\ Done

\* The door is opened for the holder: a super administrator passes as he likes,
\* a member in one direction, which is not that of his last pass.  His pass is
\* stored or is not.
Open ==
  /\ phase = "found"
  /\ holder.order.card \in cards
  /\ \/ holder.order.class = "super" /\ UNCHANGED last
     \/ /\ holder.order.class = "member"
        /\ \E d \in Directions :
             /\ ways = {d} /\ d # last[holder.user]
             /\ last' \in {last, [last EXCEPT ![holder.user] = d]}
  /\ phase' = "open"
  /\ UNCHANGED <<ordered, ways, cards, holder>>

\* The door is locked again.
Close == phase = "open" /\ Done

Next ==
  \/ \E u \in Users : Find(u) \/ Order(u)
  \/ Relist \/ Ask \/ Dismiss \/ Open \/ Close

Spec == Init /\ [][Next]_vars
=============================================================================
