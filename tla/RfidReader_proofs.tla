------------------------- MODULE RfidReader_proofs -------------------------
(***************************************************************************)
(* Proofs about the debouncing of the readers, for every threshold and     *)
(* every set of cards.                                                     *)
(***************************************************************************)
EXTENDS RfidReader, TLAPS

\* A timer runs exactly while reports are held back and is never behind the age
\* of the last report; without crowding the two are the same.
TimerInv ==
  \A e \in Readers :
    /\ over[e] = timer_en[e]
    /\ ~timer_en[e] => timer[e] = 0
    /\ timer_en[e] => age[e] <= timer[e]
    /\ age[e] < Threshold /\ ~crowded[e] => timer_en[e] /\ timer[e] = age[e]
    /\ age[e] < Threshold => old[e] = reported[e]

IInv == TypeOK /\ TimerInv

LEMMA InitIInv == Init => IInv
BY ThresholdAssumption DEF Init, IInv, TypeOK, TimerInv

\* Reading a card, or not, and the shell's card leave the timers alone.
LEMMA ReadKeeps ==
  ASSUME IInv, UNCHANGED <<old, over, timers, history>>,
         g_read_card_id' \in Cards \cup {Garbage},
         at' \in {"readIn", "compareIn", "readOut", "compareOut", "timers"}
  PROVE  IInv'
BY DEF IInv, TypeOK, TimerInv, timers, history

\* A comparison with the last card.
LEMMA CompareKeeps ==
  ASSUME IInv, NEW d \in Readers, NEW from,
         NEW to \in {"readIn", "compareIn", "readOut", "compareOut", "timers"},
         Compare(d, from, to)
  PROVE  IInv'
<1> DEFINE c == g_read_card_id
<1>1. c \in Cards \cup {Garbage} /\ g_read_card_id' = c /\ at' = to /\ timer' = timer
      /\ old' = [old EXCEPT ![d] = c]
  BY DEF Compare, IInv, TypeOK
<1>2. CASE Reports(d, c)
  <2> DEFINE near == age[d] < Threshold
  <2>1. near \in BOOLEAN
    BY DEF near, IInv, TypeOK
  <2>2. /\ over' = [over EXCEPT ![d] = TRUE] /\ timer_en' = [timer_en EXCEPT ![d] = TRUE]
        /\ reported' = [reported EXCEPT ![d] = c] /\ age' = [age EXCEPT ![d] = 0]
        /\ crowded' = [crowded EXCEPT ![d] = near]
    BY <1>2, Zenon DEF Compare, near
  <2>3. ~near => timer[d] = 0
    BY ThresholdAssumption DEF near, IInv, TypeOK, TimerInv
  <2> HIDE DEF c, near
  <2>4. TypeOK'
    BY <1>1, <2>1, <2>2, ThresholdAssumption DEF IInv, TypeOK
  <2>5. ASSUME NEW e \in Readers, e # d
        PROVE  UNCHANGED <<over[e], timer_en[e], timer[e], age[e], crowded[e], old[e],
                           reported[e]>>
    BY <1>1, <2>2, <2>5 DEF IInv, TypeOK
  <2>6. /\ over'[d] = TRUE /\ timer_en'[d] = TRUE /\ age'[d] = 0
        /\ timer'[d] = timer[d] /\ (~crowded'[d] => ~near)
        /\ old'[d] = c /\ reported'[d] = c
    BY <1>1, <2>2 DEF IInv, TypeOK
  <2>7. timer[d] \in Nat
    BY ThresholdAssumption DEF IInv, TypeOK
  <2>8. TimerInv'
    <3> SUFFICES ASSUME NEW e \in Readers
                 PROVE  (/\ over[e] = timer_en[e]
                         /\ ~timer_en[e] => timer[e] = 0
                         /\ timer_en[e] => age[e] <= timer[e]
                         /\ age[e] < Threshold /\ ~crowded[e] =>
                              timer_en[e] /\ timer[e] = age[e]
                         /\ age[e] < Threshold => old[e] = reported[e])'
      BY DEF TimerInv
    <3>1. CASE e = d
      <4>1. over'[d] = timer_en'[d] /\ old'[d] = reported'[d] /\ timer_en'[d]
        BY <2>6
      <4>2. age'[d] <= timer'[d] /\ (~crowded'[d] => timer'[d] = age'[d])
        BY <2>3, <2>6, <2>7
      <4>3. QED
        BY <3>1, <4>1, <4>2
    <3>2. CASE e # d
      BY <2>5, <3>2 DEF IInv, TimerInv
    <3>3. QED
      BY <3>1, <3>2
  <2>9. QED
    BY <2>4, <2>8 DEF IInv
<1>3. CASE ~Reports(d, c)
  <2>1. UNCHANGED <<over, timer_en, history>> /\ old' = old
    BY <1>1, <1>3 DEF Compare, Reports, IInv, TypeOK
  <2>2. QED
    BY <1>1, <2>1, ReadKeeps DEF timers
<1>4. QED
  BY <1>2, <1>3

\* One tick.
LEMMA TickKeeps == IInv /\ Tick => IInv'
<1> SUFFICES ASSUME IInv, Tick PROVE IInv'
  OBVIOUS
<1> USE ThresholdAssumption
<1>1. UNCHANGED <<g_read_card_id, old, reported, crowded>> /\ at' = "readIn"
  BY DEF Tick
<1>2. ASSUME NEW e \in Readers
      PROVE  /\ Expires(e) => timer'[e] = 0 /\ ~timer_en'[e] /\ ~over'[e]
             /\ ~Expires(e) => /\ timer'[e] = IF timer_en[e] THEN timer[e] + 1 ELSE timer[e]
                               /\ timer_en'[e] = timer_en[e] /\ over'[e] = over[e]
             /\ age'[e] = IF age[e] < Threshold THEN age[e] + 1 ELSE age[e]
  BY DEF Tick, IInv, TypeOK
<1>3. ASSUME NEW e \in Readers
      PROVE  /\ timer[e] \in 0..(Threshold - 1) /\ age[e] \in 0..Threshold
             /\ timer_en[e] \in BOOLEAN /\ over[e] \in BOOLEAN
  BY DEF IInv, TypeOK
<1>4. TypeOK'
  <2>1. timer' \in [Readers -> 0..(Threshold - 1)]
    BY <1>2, <1>3 DEF Tick, Expires
  <2>2. over' \in [Readers -> BOOLEAN] /\ timer_en' \in [Readers -> BOOLEAN]
    BY Zenon DEF Tick
  <2>3. age' \in [Readers -> 0..Threshold]
    BY <1>2, <1>3 DEF Tick
  <2>4. QED
    BY <1>1, <2>1, <2>2, <2>3 DEF IInv, TypeOK
<1>5. TimerInv'
  <2> SUFFICES ASSUME NEW e \in Readers
               PROVE  (/\ over[e] = timer_en[e]
                       /\ ~timer_en[e] => timer[e] = 0
                       /\ timer_en[e] => age[e] <= timer[e]
                       /\ age[e] < Threshold /\ ~crowded[e] =>
                            timer_en[e] /\ timer[e] = age[e]
                       /\ age[e] < Threshold => old[e] = reported[e])'
    BY DEF TimerInv
  <2>1. /\ over[e] = timer_en[e]
        /\ ~timer_en[e] => timer[e] = 0
        /\ timer_en[e] => age[e] <= timer[e]
        /\ age[e] < Threshold /\ ~crowded[e] => timer_en[e] /\ timer[e] = age[e]
        /\ age[e] < Threshold => old[e] = reported[e]
    BY DEF IInv, TimerInv
  <2>2. over'[e] = timer_en'[e]
    <3>1. over'[e] \in BOOLEAN /\ timer_en'[e] \in BOOLEAN
      BY <1>4 DEF TypeOK
    <3>2. QED
      BY <1>2, <2>1, <3>1
  <2>3. CASE Expires(e)
    BY <1>1, <1>2, <1>3, <2>1, <2>2, <2>3 DEF Expires
  <2>4. CASE ~Expires(e)
    BY <1>1, <1>2, <1>3, <2>1, <2>2, <2>4 DEF Expires
  <2>5. QED
    BY <2>3, <2>4
<1>6. QED
  BY <1>4, <1>5 DEF IInv

LEMMA NextIInv == IInv /\ [Next]_vars => IInv'
<1> SUFFICES ASSUME IInv, [Next]_vars PROVE IInv'
  OBVIOUS
<1>1. CASE \E c \in Cards : \/ Read("readIn", "compareIn", c)
                            \/ Read("readOut", "compareOut", c) \/ SendCard(c)
  BY <1>1, ReadKeeps DEF Read, SendCard, IInv, TypeOK
<1>2. CASE ReadFails("readIn", "readOut") \/ ReadFails("readOut", "timers")
  BY <1>2, ReadKeeps DEF ReadFails, IInv, TypeOK
<1>3. CASE Compare("in", "compareIn", "readOut") \/ Compare("out", "compareOut", "timers")
  BY <1>3, CompareKeeps DEF Readers
<1>4. CASE Tick
  BY <1>4, TickKeeps
<1>5. CASE UNCHANGED vars
  BY <1>5, ReadKeeps DEF vars, IInv, TypeOK
<1>6. QED
  BY <1>1, <1>2, <1>3, <1>4, <1>5 DEF Next, Loop

LEMMA Inductive == Spec => []IInv
BY InitIInv, NextIInv, PTL DEF Spec

\* The locals of the rc522 thread keep their types: a timer never reaches the
\* threshold it is compared with.
THEOREM TypeCorrect == Spec => []TypeOK
BY Inductive, PTL DEF IInv

\* A card that is alone at a reader is reported once in Threshold passes.
THEOREM LoneCardReportedOnce == Spec => []LoneCardWaits
<1>1. IInv => LoneCardWaits
  BY DEF IInv, TimerInv, LoneCardWaits, Reports
<1>2. QED
  BY <1>1, Inductive, PTL

\* Reports are held back only while a timer runs that will end it.
THEOREM HeldBackWhileTimed == Spec => []HeldBackByTimer
<1>1. IInv => HeldBackByTimer
  BY DEF IInv, TimerInv, HeldBackByTimer
<1>2. QED
  BY <1>1, Inductive, PTL

-----------------------------------------------------------------------------
(* The silence of a reader *)

\* Steps of the loop until a timer that runs has run out: five to a pass, from
\* where the thread is in this one.
ToTick == [readIn |-> 4, compareIn |-> 3, readOut |-> 2, compareOut |-> 1, timers |-> 0]
Left(e) == 5 * (Threshold - timer[e] - 1) + ToTick[at] + 1

\* While reader e holds reports back, each step of the loop brings the end nearer,
\* whatever cards are seen, and the shell's card does not put it off.
SilenceShortens ==
  \A e \in Readers :
    over[e] => /\ Left(e) \in 1..(5 * Threshold)
               /\ Loop => ~over'[e] \/ Left(e)' < Left(e)
               /\ ~Loop => over'[e] /\ Left(e)' = Left(e)

\* The places of the loop, counted down.
LEMMA Places ==
  /\ ToTick["readIn"] = 4 /\ ToTick["compareIn"] = 3 /\ ToTick["readOut"] = 2
  /\ ToTick["compareOut"] = 1 /\ ToTick["timers"] = 0
BY DEF ToTick

\* A step that leaves the timers alone and moves on in the pass.
LEMMA MovesOn ==
  ASSUME IInv, NEW e \in Readers, over[e], over'[e], timer' = timer,
         \/ at = "readIn" /\ at' \in {"compareIn", "readOut"}
         \/ at = "compareIn" /\ at' = "readOut"
         \/ at = "readOut" /\ at' \in {"compareOut", "timers"}
         \/ at = "compareOut" /\ at' = "timers"
  PROVE  Left(e)' < Left(e)
<1>1. timer[e] \in Int /\ timer'[e] = timer[e]
  BY ThresholdAssumption DEF IInv, TypeOK
<1>2. ToTick[at'] \in Int /\ ToTick[at] \in Int /\ ToTick[at'] < ToTick[at]
  BY Places
<1>3. QED
  BY <1>1, <1>2, ThresholdAssumption DEF Left

\* The tick counts a pass, or releases the reader.
LEMMA TickMovesOn ==
  ASSUME IInv, Tick, NEW e \in Readers, over[e]
  PROVE  ~over'[e] \/ Left(e)' < Left(e)
<1>1. timer_en[e] /\ timer[e] \in Int /\ at = "timers" /\ at' = "readIn"
  BY ThresholdAssumption DEF IInv, TypeOK, TimerInv, Tick
<1>2. CASE Expires(e)
  BY <1>2 DEF Tick
<1>3. CASE ~Expires(e)
  <2>1. timer'[e] = timer[e] + 1
    BY <1>1, <1>3 DEF Tick
  <2>2. QED
    BY <1>1, <2>1, Places, ThresholdAssumption DEF Left
<1>4. QED
  BY <1>2, <1>3

\* A comparison releases no reader.
LEMMA CompareHolds ==
  ASSUME IInv, NEW d \in Readers, NEW from, NEW to, Compare(d, from, to),
         NEW e \in Readers, over[e]
  PROVE  over'[e]
BY DEF Compare, IInv, TypeOK

\* Every step does as said.
LEMMA StepShortens == IInv /\ [Next]_vars /\ ~UNCHANGED vars => SilenceShortens
<1> SUFFICES ASSUME IInv, Next, NEW e \in Readers, over[e]
             PROVE  /\ Left(e) \in 1..(5 * Threshold)
                    /\ Loop => ~over'[e] \/ Left(e)' < Left(e)
                    /\ ~Loop => over'[e] /\ Left(e)' = Left(e)
  BY DEF SilenceShortens
<1>1. Left(e) \in 1..(5 * Threshold)
  <2>1. timer[e] \in 0..(Threshold - 1)
    BY DEF IInv, TypeOK
  <2>2. ToTick[at] \in 0..4
    BY Places DEF IInv, TypeOK
  <2>3. QED
    BY <2>1, <2>2, ThresholdAssumption DEF Left
<1>2. ASSUME Loop
      PROVE  ~over'[e] \/ Left(e)' < Left(e)
  <2>1. CASE \E c \in Cards : \/ Read("readIn", "compareIn", c)
                              \/ Read("readOut", "compareOut", c)
    BY <2>1, MovesOn DEF Read, timers
  <2>2. CASE ReadFails("readIn", "readOut") \/ ReadFails("readOut", "timers")
    BY <2>2, MovesOn DEF ReadFails, timers
  <2>3. CASE Compare("in", "compareIn", "readOut") \/ Compare("out", "compareOut", "timers")
    <3>1. over'[e]
      BY <2>3, CompareHolds DEF Readers
    <3>2. timer' = timer /\ \/ at = "compareIn" /\ at' = "readOut"
                            \/ at = "compareOut" /\ at' = "timers"
      BY <2>3 DEF Compare
    <3>3. QED
      BY <3>1, <3>2, MovesOn
  <2>4. CASE Tick
    BY <2>4, TickMovesOn
  <2>5. QED
    BY <1>2, <2>1, <2>2, <2>3, <2>4 DEF Loop
<1>3. ASSUME ~Loop
      PROVE  over'[e] /\ Left(e)' = Left(e)
  BY <1>3 DEF Next, SendCard, Left, timers
<1>4. QED
  BY <1>1, <1>2, <1>3

\* A reader that holds reports back has at most five steps for each pass of the
\* threshold to go, and every step of the loop takes it further: the safety part
\* of NeverLockedOut.
THEOREM SilenceEnds == Spec => [][SilenceShortens]_vars
<1>1. IInv /\ [Next]_vars => [SilenceShortens]_vars
  BY StepShortens
<1>2. QED
  BY <1>1, Inductive, PTL DEF Spec
=============================================================================
