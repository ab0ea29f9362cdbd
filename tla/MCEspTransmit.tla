---------------------------- MODULE MCEspTransmit ----------------------------
(* The sending half for TLC. *)
EXTENDS EspTransmit

MCMaxUses == [wifi |-> 2, info |-> 1, tshell |-> 1]
=============================================================================
