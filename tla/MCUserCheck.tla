---------------------------- MODULE MCUserCheck ----------------------------
(* Instances of UserCheck for TLC. *)
EXTENDS UserCheck

Rights(id, c, rank, limit, inside) ==
  [user_id |-> id, card_id |-> c, rank |-> rank, effective |-> TRUE,
   limit |-> limit, crc |-> TRUE, inside |-> inside]

\* A user of this door, who is outside, and an administrator whose admission
\* ends at time 1, who is inside.
Alice == Rights(1, 1, "door", NoLimit, FALSE)
Bob   == Rights(2, 2, "admin", 1, TRUE)

\* The first user made super administrator, with the other card.
AliceSuper == Rights(1, 2, "super", NoLimit, FALSE)

\* The second user suspended.
BobSuspended == [Bob EXCEPT !.effective = FALSE]

MCAdded == {Alice, AliceSuper, BobSuspended}
MCFile  == <<Alice, Bob>>

OneAdded == {Alice, [AliceSuper EXCEPT !.card_id = 1]}
OneFile  == <<Alice>>

CardEvents    == {"CARD_IN", "CARD_OUT"}
CardAndFinger == {"CARD_IN", "CARD_OUT", "FINGER_IN"}
=============================================================================
