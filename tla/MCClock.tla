------------------------------ MODULE MCClock ------------------------------
(* Instances of Clock for TLC. *)
EXTENDS Clock, TLC

\* The time an initialised clock begins with, and the hours around the end of a
\* year (2000 is a leap year), at which every part of the time changes.
MCTimes == {0, 8783, 8784}
MCCalendar == 0 :> <<0, 1, 1, 0>> @@ 8783 :> <<23, 31, 12, 0>> @@ 8784 :> <<0, 1, 1, 1>>

\* One time before midnight, one after.
MCSetTimes == {8783, 8784}
=============================================================================
