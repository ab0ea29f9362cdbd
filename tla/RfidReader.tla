----------------------------- MODULE RfidReader -----------------------------
(***************************************************************************)
(* The rc522 thread (rfid_thread.c): it polls the reader inside the door   *)
(* and the one outside, and reports a card to user_check when it differs   *)
(* from the last one seen there or when the timer started by a report has  *)
(* run out.  The timer of a reader ticks once in each pass of the loop.    *)
(* tshell, whose priority is higher, may overwrite g_read_card_id between  *)
(* the reading of a card and its comparison.                               *)
(***************************************************************************)
EXTENDS Integers

CONSTANTS
  Cards,      \* card numbers
  Garbage,    \* what an uninitialized local may hold instead
  Threshold   \* passes of the loop a timer runs for (50)

Readers == {"in", "out"}

ASSUME ThresholdAssumption == Threshold \in Nat \ {0}
ASSUME GarbageAssumption == Garbage \notin Cards

VARIABLES
  g_read_card_id,
  at,         \* where the thread is in its loop
  old,        \* old_in_card_id, old_out_card_id
  over,       \* is_in_over_time, is_out_over_time: TRUE while reports wait
  timer_en,   \* in_timer_en, out_timer_en
  timer,      \* in_timer, out_timer
  reported,   \* history: the card last reported at each reader,
  age,        \*   the passes since then, up to Threshold,
  crowded     \*   and were they fewer between that report and the one before

timers  == <<timer_en, timer>>
history == <<reported, age, crowded>>
vars == <<g_read_card_id, at, old, over, timers, history>>

\* The two cards read last are locals without an initial value.
Init ==
  /\ g_read_card_id \in Cards \cup {Garbage}
  /\ at = "readIn"
  /\ old \in [Readers -> Cards \cup {Garbage}]
  /\ over = [e \in Readers |-> FALSE]
  /\ timer_en = [e \in Readers |-> FALSE]
  /\ timer = [e \in Readers |-> 0]
  /\ reported = [e \in Readers |-> Garbage]
  /\ age = [e \in Readers |-> Threshold]
  /\ crowded = [e \in Readers |-> FALSE]

-----------------------------------------------------------------------------
\* ReadID finds card c.
Read(from, to, c) ==
  /\ at = from
  /\ at' = to
  /\ g_read_card_id' = c
  /\ UNCHANGED <<old, over, timers, history>>

\* ReadID finds no card, or fails.
ReadFails(from, to) ==
  /\ at = from
  /\ at' = to
  /\ UNCHANGED <<g_read_card_id, old, over, timers, history>>

\* Is card c at reader e reported?  At once if it is another one.
Reports(e, c) == old[e] # c \/ ~over[e]

\* Fault: a report that finds is_in_over_time clear does not set it.
CompareNotSet(e, from, to) ==
  /\ at = from
  /\ at' = to
  /\ LET c == g_read_card_id
     IN  /\ old' = [old EXCEPT ![e] = c]
         /\ IF Reports(e, c)
              THEN /\ over'     = [over EXCEPT ![e] = FALSE]
                   /\ timer_en' = [timer_en EXCEPT ![e] = TRUE]
                   /\ reported' = [reported EXCEPT ![e] = c]
                   /\ age'      = [age EXCEPT ![e] = 0]
                   /\ crowded'  = [crowded EXCEPT ![e] = age[e] < Threshold]
              ELSE UNCHANGED <<over, timer_en, history>>
  /\ UNCHANGED <<g_read_card_id, timer>>

\* The card is compared with the last one; a report starts the timer, and does
\* not restart one that runs.
Compare(e, from, to) ==
  /\ at = from
  /\ at' = to
  /\ LET c == g_read_card_id
     IN  /\ old' = [old EXCEPT ![e] = c]
         /\ IF Reports(e, c)
              THEN /\ over'     = [over EXCEPT ![e] = TRUE]
                   /\ timer_en' = [timer_en EXCEPT ![e] = TRUE]
                   /\ reported' = [reported EXCEPT ![e] = c]
                   /\ age'      = [age EXCEPT ![e] = 0]
                   /\ crowded'  = [crowded EXCEPT ![e] = age[e] < Threshold]
              ELSE UNCHANGED <<over, timer_en, history>>
  /\ UNCHANGED <<g_read_card_id, timer>>

\* The timers that run tick; one that reaches the threshold stops and lets the
\* reader report again.
Expires(e) == timer_en[e] /\ timer[e] + 1 >= Threshold

\* Fault: the timer that expired is stopped, its reader is not released.
TickNotReleased ==
  /\ at = "timers"
  /\ at' = "readIn"
  /\ timer' = [e \in Readers |-> IF Expires(e) THEN 0
                                ELSE IF timer_en[e] THEN timer[e] + 1 ELSE timer[e]]
  /\ timer_en' = [e \in Readers |-> timer_en[e] /\ ~Expires(e)]
  /\ age' = [e \in Readers |-> IF age[e] < Threshold THEN age[e] + 1 ELSE age[e]]
  /\ UNCHANGED <<g_read_card_id, old, over, reported, crowded>>

\* Fault: the timer that expired is not reset.
TickNotReset ==
  /\ at = "timers"
  /\ at' = "readIn"
  /\ timer' = [e \in Readers |-> IF timer_en[e] THEN timer[e] + 1 ELSE timer[e]]
  /\ timer_en' = [e \in Readers |-> timer_en[e] /\ ~Expires(e)]
  /\ over' = [e \in Readers |-> over[e] /\ ~Expires(e)]
  /\ age' = [e \in Readers |-> IF age[e] < Threshold THEN age[e] + 1 ELSE age[e]]
  /\ UNCHANGED <<g_read_card_id, old, reported, crowded>>

Tick ==
  /\ at = "timers"
  /\ at' = "readIn"
  /\ timer' = [e \in Readers |-> IF Expires(e) THEN 0
                                ELSE IF timer_en[e] THEN timer[e] + 1 ELSE timer[e]]
  /\ timer_en' = [e \in Readers |-> timer_en[e] /\ ~Expires(e)]
  /\ over' = [e \in Readers |-> over[e] /\ ~Expires(e)]
  /\ age' = [e \in Readers |-> IF age[e] < Threshold THEN age[e] + 1 ELSE age[e]]
  /\ UNCHANGED <<g_read_card_id, old, reported, crowded>>

\* send_get_card_event at the shell stores a card of its own; the event it sends
\* is not a report of a reader.
SendCard(c) ==
  /\ g_read_card_id' = c
  /\ UNCHANGED <<at, old, over, timers, history>>

-----------------------------------------------------------------------------
Loop ==
  \/ \E c \in Cards : \/ Read("readIn", "compareIn", c)
                      \/ Read("readOut", "compareOut", c)
  \/ ReadFails("readIn", "readOut") \/ ReadFails("readOut", "timers")
  \/ Compare("in", "compareIn", "readOut") \/ Compare("out", "compareOut", "timers")
  \/ Tick

Next == Loop \/ \E c \in Cards : SendCard(c)

Spec == Init /\ [][Next]_vars

\* The loop goes on: user_check and the shell, which preempt it, sleep again.
FairSpec == Spec /\ WF_vars(Loop)

-----------------------------------------------------------------------------
TypeOK ==
  /\ g_read_card_id \in Cards \cup {Garbage}
  /\ at \in {"readIn", "compareIn", "readOut", "compareOut", "timers"}
  /\ old \in [Readers -> Cards \cup {Garbage}]
  /\ over \in [Readers -> BOOLEAN]
  /\ timer_en \in [Readers -> BOOLEAN]
  /\ timer \in [Readers -> 0..(Threshold - 1)]
  /\ reported \in [Readers -> Cards \cup {Garbage}]
  /\ age \in [Readers -> 0..Threshold]
  /\ crowded \in [Readers -> BOOLEAN]

\* The promise of the comment at rfid_thread.c:56, for a reader that has not seen
\* two cards in quick succession: the card reported last is not reported again
\* before the threshold.
LoneCardWaits ==
  \A e \in Readers :
    age[e] < Threshold /\ ~crowded[e] => ~Reports(e, reported[e])

\* A reader that holds a report back has a timer running that will release it.
HeldBackByTimer == \A e \in Readers : over[e] => timer_en[e]

\* No reader is silent for ever.
NeverLockedOut == \A e \in Readers : over[e] ~> ~over[e]
=============================================================================
