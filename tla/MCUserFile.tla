---------------------------- MODULE MCUserFile ----------------------------
EXTENDS UserFile

\* The clusters of the file have held another file: the first slot would show an
\* id larger than any slot, the last one the id of another slot.
MCUnwritten ==
  [u \in Slots |-> CASE u = 1       -> [id |-> MaxSlot + 2, body |-> Junk, crc |-> Junk]
                     [] u = MaxSlot -> [id |-> 1, body |-> Junk, crc |-> Junk]
                     [] OTHER       -> Deleted]

\* One user, users from each slot on, more than there are, none, and from 0.
MCAsk == (Slots \X {1, 2, MaxSlot + 1}) \cup {<<1, 0>>, <<0, 1>>, <<MaxSlot + 1, 1>>}
=============================================================================
