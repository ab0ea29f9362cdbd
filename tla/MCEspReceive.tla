---------------------------- MODULE MCEspReceive ----------------------------
(* An instance of EspReceive for TLC. *)
EXTENDS EspReceive

\* Packets of several fragments, of one, and with a full last fragment.
MCLenths == <<5, 2, 6, 1, 3>>
=============================================================================
