------------------------- MODULE EspTransmit_proofs -------------------------
(***************************************************************************)
(* What the sending half of the link keeps for any number of fragments,    *)
(* turns and uses.  The inductive invariant says who waits for the bus,    *)
(* and, of each thread that none above has come into, where its fragment   *)
(* is by now: in the buffer, on the wire, or heard.                        *)
(***************************************************************************)
EXTENDS EspTransmit, TLAPS

Transferring == {"xfer", "rest"}
Sending      == {"head", "tail", "take", "blocked", "xfer", "rest"}

\* The locals fit the place: a read has no packet and no wait, and only wifi reads.
Locals(th) ==
  /\ frag[th] <= num[th]
  /\ pc[th] \in {"wait", "clear", "ok", "failed"} => frag[th] # 0
  /\ pc[th] = "ok" => frag[th] = num[th]
  /\ pc[th] # "idle" /\ frag[th] = 0 => th = "wifi"
  /\ pc[th] = "idle" => frag[th] = 0

\* Transfers exclude each other.
BusHeld == \A th \in Threads : bus = th <=> pc[th] \in Transferring

\* A thread waits for the bus only behind one below it.
Suspended(S) == \A th \in Threads : pc[th] = "blocked" <=> th \in S

QueueInv ==
  \/ queue = <<>> /\ Suspended({})
  \/ queue = <<"info">> /\ bus = "tshell" /\ Suspended({"info"})
  \/ queue = <<"wifi">> /\ bus \in {"info", "tshell"} /\ Suspended({"wifi"})
  \/ queue = <<"info", "wifi">> /\ bus = "tshell" /\ Suspended({"info", "wifi"})

\* No thread above th has come into the packet th is at.
Alone(th) == pc[th] # "idle" /\ disturbed[th] = FALSE

Quiet(th) == Alone(th) => \A u \in Higher[th] : pc[u] = "idle"

LinkInv ==
  /\ \A th \in Threads : Locals(th)
  /\ BusHeld
  /\ QueueInv
  /\ \A th \in Threads : Quiet(th)
  /\ disturbed["wifi"] = FALSE

\* Once its first fragment has gone, no other thread has the bus.
Ahead(th) == frag[th] > 1 => bus \in {"free", th}

\* Nobody has put anything into the buffer since th did.
Buffer(th) ==
  /\ pc[th] \in {"tail", "take", "blocked", "xfer", "rest"} => writeBuf.head = Mine(th)
  /\ pc[th] \in {"take", "blocked", "xfer", "rest"} => writeBuf.tail = Mine(th)
  /\ pc[th] = "rest" => wire = Mine(th)

\* Fragment n of th with its own bytes in both parts.
Own(th, n) == [head |-> [by |-> th, i |-> n], tail |-> [by |-> th, i |-> n]]

\* The first n fragments of th are the last that was heard.
Heard(th, n) == heard = [i \in 1..n |-> Own(th, i)]

\* What th has sent of its packet was heard.
SentHeard(th) ==
  /\ frag[th] > 1 /\ pc[th] \notin {"ok", "failed"} => Heard(th, frag[th] - 1)
  /\ pc[th] = "ok" => Heard(th, num[th])

Packet(th) == Alone(th) => Ahead(th) /\ Buffer(th) /\ SentHeard(th)

PacketInv == LinkInv /\ \A th \in Threads : Packet(th)

\* Whoever has looked at wr_rdy has seen it or has no turns left, no thread above
\* has come since, and what it sends is its own fragment.
Looks(th) ==
  /\ pc[th] = "clear" => wr_rdy = TRUE \/ t[th] = 0
  /\ pc[th] \in Holding => \A u \in Higher[th] : pc[u] = "idle"
  /\ pc[th] \in {"tail", "take", "blocked", "xfer"} => writeBuf.head = Mine(th)
  /\ pc[th] = "rest" => wire = Mine(th)

Lookers == \A th \in Threads : Looks(th)

OneOwner == \E o \in Owners : Owners = {o}

TokenInv == ~clashed /\ ~gaveUp => OneOwner /\ Lookers

IInv == TypeOK /\ PacketInv /\ TokenInv

-----------------------------------------------------------------------------
(* Types *)

\* The bounds that are numbers.
LEMMA Bounds == Spins \in Nat \ {0} /\ MaxNum \in Nat \ {0}
  BY BoundAssumption

\* The initial values have their types.
LEMMA TypeInit == Init => TypeOK
<1> SUFFICES ASSUME Init PROVE TypeOK
  OBVIOUS
<1>1. writeBuf \in [head : Parts, tail : Parts] /\ wire \in Parts
  BY DEF Init, Parts
<1>2. heard \in Seq([head : Parts, tail : Parts]) /\ queue \in Seq(Threads)
  BY DEF Init
<1>3. /\ pc \in [Threads -> Holding \cup {"idle", "wait", "rest", "ok", "failed"}]
      /\ num \in [Threads -> 0..MaxNum] /\ frag \in [Threads -> 0..MaxNum]
      /\ t \in [Threads -> 0..Spins]
  BY BoundAssumption DEF Init
<1>4. /\ wr_rdy \in BOOLEAN /\ busy \in BOOLEAN
      /\ disturbed \in [Threads -> BOOLEAN] /\ clashed \in BOOLEAN /\ gaveUp \in BOOLEAN
  BY Zenon DEF Init
<1>5. /\ bus \in Threads \cup {"free"}
      /\ uses \in [Threads -> Nat] /\ \A th \in Threads : uses[th] <= MaxUses[th]
  BY BoundAssumption DEF Init
<1>6. QED
  BY <1>1, <1>2, <1>3, <1>4, <1>5, Zenon DEF TypeOK

\* The type invariant in three parts: the flags, the count of uses, the rest.
FlagsOK ==
  /\ wr_rdy \in BOOLEAN /\ busy \in BOOLEAN
  /\ disturbed \in [Threads -> BOOLEAN] /\ clashed \in BOOLEAN /\ gaveUp \in BOOLEAN

UsesOK == uses \in [Threads -> Nat] /\ \A th \in Threads : uses[th] <= MaxUses[th]

DataOK ==
  /\ writeBuf \in [head : Parts, tail : Parts] /\ wire \in Parts
  /\ bus \in Threads \cup {"free"} /\ queue \in Seq(Threads)
  /\ pc \in [Threads -> Holding \cup {"idle", "wait", "rest", "ok", "failed"}]
  /\ num \in [Threads -> 0..MaxNum] /\ frag \in [Threads -> 0..MaxNum]
  /\ t \in [Threads -> 0..Spins]
  /\ heard \in Seq([head : Parts, tail : Parts])

\* These are the conjuncts of TypeOK.
LEMMA TypeParts == TypeOK <=> FlagsOK /\ UsesOK /\ DataOK
  BY Zenon DEF TypeOK, FlagsOK, UsesOK, DataOK

\* Every step leaves the flags Boolean.
LEMMA FlagsStep == FlagsOK /\ [Next]_vars => FlagsOK'
<1> SUFFICES ASSUME FlagsOK, [Next]_vars PROVE FlagsOK'
  OBVIOUS
<1> USE DEF FlagsOK
<1>1. ASSUME NEW th \in Threads, NEW n \in 1..MaxNum, Write(th, n) PROVE FlagsOK'
  BY <1>1, Zenon DEF Write, Use
<1>2. CASE ReadFragment
  BY <1>2, Zenon DEF ReadFragment, Use
<1>3. ASSUME NEW th \in Threads, Send(th) PROVE FlagsOK'
  <2>1. CASE Spin(th) \/ Waited(th) \/ FillHead(th) \/ FillTail(th)
    BY <2>1, Zenon DEF Spin, Waited, FillHead, FillTail, history
  <2>2. CASE TakeBus(th) \/ WaitForBus(th) \/ XferHead(th)
    BY <2>2, Zenon DEF TakeBus, WaitForBus, XferHead, history
  <2>3. CASE Clear(th)
    BY <2>3, Zenon DEF Clear
  <2>4. CASE XferRest(th)
    BY <2>4, Zenon DEF XferRest
  <2>5. CASE Return(th)
    <3>1. disturbed' = [disturbed EXCEPT ![th] = FALSE]
      BY <2>5 DEF Return
    <3>2. disturbed' \in [Threads -> BOOLEAN]
      BY <3>1, Zenon
    <3>3. QED
      BY <2>5, <3>2, Zenon DEF Return
  <2>6. QED
    BY <1>3, <2>1, <2>2, <2>3, <2>4, <2>5, Zenon DEF Send
<1>4. CASE Ready
  BY <1>4, Zenon DEF Ready, threadVars, history
<1>5. CASE UNCHANGED vars
  BY <1>5, Zenon DEF vars, threadVars, history
<1>6. QED
  BY <1>1, <1>2, <1>3, <1>4, <1>5, Zenon DEF Next

\* No thread uses the link more often than it may.
LEMMA UsesStep == UsesOK /\ [Next]_vars => UsesOK'
<1> SUFFICES ASSUME UsesOK, [Next]_vars PROVE UsesOK'
  OBVIOUS
<1>1. CASE UNCHANGED uses
  BY <1>1 DEF UsesOK
<1>2. ASSUME NEW th \in Threads, Use(th) PROVE UsesOK'
  <2>1. uses[th] < MaxUses[th] /\ uses' = [uses EXCEPT ![th] = uses[th] + 1]
    BY <1>2 DEF Use
  <2>2. uses[th] + 1 \in Nat /\ uses[th] + 1 <= MaxUses[th]
    <3>1. uses[th] \in Nat /\ MaxUses[th] \in Nat
      BY BoundAssumption DEF UsesOK
    <3>2. QED
      BY <2>1, <3>1
  <2>3. QED
    BY <2>1, <2>2 DEF UsesOK
<1>3. UNCHANGED uses \/ \E th \in Threads : Use(th)
  BY Zenon DEF Next, Write, ReadFragment, Send, Spin, Waited, Clear, FillHead, FillTail, TakeBus,
     WaitForBus, XferHead, XferRest, Return, Ready, vars, history, Threads
<1>4. QED
  BY <1>1, <1>2, <1>3

\* Every step keeps the types of buffers, places and locals.
LEMMA DataStep == DataOK /\ [Next]_vars => DataOK'
<1> SUFFICES ASSUME DataOK, [Next]_vars PROVE DataOK'
  OBVIOUS
<1> USE Bounds DEF DataOK, Threads, Part, Parts, Holding
<1>1. ASSUME NEW th \in Threads, NEW n \in 1..MaxNum, Write(th, n) PROVE DataOK'
  <2>1. heard' = heard
    BY <1>1 DEF Write, Use
  <2>2. /\ pc' = [pc EXCEPT ![th] = "wait"] /\ num' = [num EXCEPT ![th] = n]
        /\ frag' = [frag EXCEPT ![th] = 1] /\ t' = [t EXCEPT ![th] = Spins]
        /\ writeBuf' = writeBuf /\ wire' = wire /\ bus' = bus /\ queue' = queue
    BY <1>1 DEF Write, Goto
  <2>3. n \in 0..MaxNum /\ 1 \in 0..MaxNum /\ Spins \in 0..Spins
    OBVIOUS
  <2>4. QED
    BY <2>1, <2>2, <2>3
<1>2. CASE ReadFragment
  <2>1. heard' = heard
    BY <1>2 DEF ReadFragment, Use
  <2>2. /\ pc' = [pc EXCEPT !["wifi"] = "head"] /\ num' = [num EXCEPT !["wifi"] = 0]
        /\ frag' = [frag EXCEPT !["wifi"] = 0] /\ t' = t
        /\ writeBuf' = writeBuf /\ wire' = wire /\ bus' = bus /\ queue' = queue
    BY <1>2 DEF ReadFragment, Goto
  <2>3. 0 \in 0..MaxNum
    OBVIOUS
  <2>4. QED
    BY <2>1, <2>2, <2>3
<1>3. ASSUME NEW th \in Threads, Send(th) PROVE DataOK'
  <2>1. CASE Spin(th)
    <3>1. t' = [t EXCEPT ![th] = t[th] - 1] /\ t[th] - 1 \in 0..Spins
      BY <2>1 DEF Spin
    <3>2. QED
      BY <2>1, <3>1 DEF Spin, history
  <2>2. CASE Waited(th)
    BY <2>2 DEF Waited, Goto, history
  <2>3. CASE Clear(th)
    BY <2>3 DEF Clear, Goto
  <2>4. CASE FillHead(th)
    BY <2>4 DEF FillHead, Goto, history, Mine
  <2>5. CASE FillTail(th)
    BY <2>5 DEF FillTail, Goto, history, Mine
  <2>6. CASE TakeBus(th)
    BY <2>6 DEF TakeBus, Goto, history
  <2>7. CASE WaitForBus(th)
    BY <2>7 DEF WaitForBus, Goto, history
  <2>8. CASE XferHead(th)
    BY <2>8 DEF XferHead, Goto, history
  <2>9. CASE XferRest(th)
    <3>1. heard' \in Seq([head : Parts, tail : Parts])
      <4> DEFINE transfer == [head |-> wire, tail |-> writeBuf.tail]
      <4>1. transfer \in [head : Parts, tail : Parts]
        OBVIOUS
      <4>2. heard' = heard \/ heard' = <<transfer>> \/ heard' = Append(heard, transfer)
        BY <2>9 DEF XferRest
      <4> HIDE DEF transfer
      <4> DEFINE Transfers == [head : Parts, tail : Parts]
      <4>3. heard \in Seq(Transfers) /\ transfer \in Transfers
        BY <4>1
      <4> HIDE DEF Transfers
      <4>5. <<transfer>> \in Seq(Transfers)
        BY <4>3
      <4>6. Append(heard, transfer) \in Seq(Transfers)
        BY <4>3
      <4>4. heard' \in Seq(Transfers)
        BY <4>2, <4>3, <4>5, <4>6, Zenon
      <4>7. QED
        BY <4>4 DEF Transfers
    <3>2. pc' \in [Threads -> Holding \cup {"idle", "wait", "rest", "ok", "failed"}]
      <4>1. After(th) \in {"idle", "wait", "ok"}
        BY DEF After
      <4> HIDE DEF After
      <4>2. QED
        BY <2>9, <4>1 DEF XferRest, AfterFragment
    <3>3. frag' \in [Threads -> 0..MaxNum]
      <4>1. frag[th] \in 0..MaxNum /\ num[th] \in 0..MaxNum
        OBVIOUS
      <4>2. After(th) = "wait" => frag[th] + 1 \in 0..MaxNum
        <5>1. CASE frag[th] # 0 /\ frag[th] < num[th]
          BY <4>1, <5>1
        <5>2. CASE ~(frag[th] # 0 /\ frag[th] < num[th])
          BY <4>1, <5>2 DEF After
        <5>3. QED
          BY <5>1, <5>2
      <4> HIDE DEF After
      <4>3. QED
        BY <2>9, <4>2 DEF XferRest, AfterFragment
    <3>4. bus' \in Threads \cup {"free"} /\ queue' \in Seq(Threads)
      <4>1. CASE queue = <<>>
        BY <2>9, <4>1 DEF XferRest
      <4>2. CASE queue # <<>>
        <5>1. Head(queue) \in Threads /\ Tail(queue) \in Seq(Threads)
          BY <4>2
        <5>2. QED
          BY <2>9, <4>2, <5>1 DEF XferRest
      <4>3. QED
        BY <4>1, <4>2
    <3>5. QED
      BY <2>9, <3>1, <3>2, <3>3, <3>4 DEF XferRest
  <2>10. CASE Return(th)
    BY <2>10 DEF Return, Goto
  <2>11. QED
    BY <1>3, <2>1, <2>2, <2>3, <2>4, <2>5, <2>6, <2>7, <2>8, <2>9, <2>10 DEF Send
<1>4. CASE Ready
  BY <1>4 DEF Ready, threadVars, history
<1>5. CASE UNCHANGED vars
  BY <1>5 DEF vars, threadVars, history
<1>6. QED
  BY <1>1, <1>2, <1>3, <1>4, <1>5 DEF Next

\* Every step keeps the types.
LEMMA TypeStep == TypeOK /\ [Next]_vars => TypeOK'
  BY TypeParts, FlagsStep, UsesStep, DataStep, PTL

\* Every variable keeps its type.
THEOREM TypeCorrect == Spec => []TypeOK
  BY TypeInit, TypeStep, PTL DEF Spec

-----------------------------------------------------------------------------
(* Who runs *)

\* The initial state has nobody on the link.
LEMMA LinkInit == Init => PacketInv
<1> SUFFICES ASSUME Init PROVE PacketInv
  OBVIOUS
<1>1. \A th \in Threads : disturbed[th] = FALSE
  BY Zenon DEF Init
<1>2. \A th \in Threads : pc[th] = "idle" /\ frag[th] = 0 /\ num[th] = 0
  BY DEF Init
<1>3. bus = "free" /\ queue = <<>>
  BY DEF Init
<1>4. QED
  BY <1>1, <1>2, <1>3
     DEF PacketInv, LinkInv, Locals, BusHeld, QueueInv, Suspended, Quiet, Alone, Packet,
         Transferring, Threads

\* A thread that runs outside of a transfer has nobody above it at work.
LEMMA RunsOnTop ==
  ASSUME LinkInv, NEW th \in Threads, MayRun(th), pc[th] \notin Transferring
  PROVE  \A u \in Higher[th] : pc[u] = "idle"
<1>1. bus # th
  BY DEF LinkInv, BusHeld
<1>2. QED
  BY <1>1 DEF MayRun, BlockedBy

\* Under a thread whose packet none above has come into, one runs only because it
\* has the bus that thread is waiting for.
LEMMA RunsBelow ==
  ASSUME LinkInv, NEW th \in Threads, NEW o \in Threads, th \in Higher[o], Alone(th), MayRun(o)
  PROVE  pc[th] = "blocked" /\ bus = o /\ pc[o] \in Transferring
<1>1. pc[th] # "idle" /\ \A u \in Higher[th] : pc[u] = "idle"
  BY DEF LinkInv, Quiet, Alone
<1>2. PICK v \in {th} \cup Higher[th] : pc[v] = "blocked" /\ bus = o
  BY <1>1 DEF MayRun, BlockedBy
<1>3. v = th
  BY <1>1, <1>2
<1>4. QED
  BY <1>2, <1>3 DEF LinkInv, BusHeld

\* Of two threads one is above the other.
LEMMA Ordered ==
  ASSUME NEW x \in Threads, NEW y \in Threads, x # y
  PROVE  x \in Higher[y] \/ y \in Higher[x]
  BY DEF Threads, Higher

\* No thread is above itself, none above wifi, and all that are, are threads.
LEMMA HigherFacts ==
  /\ \A x \in Threads : x \notin Higher[x] /\ Higher[x] \subseteq Threads
  /\ Higher["wifi"] = {} /\ Higher["info"] = {"wifi"} /\ Higher["tshell"] = {"wifi", "info"}
  BY DEF Threads, Higher

\* A use of the link comes into the packets below it and into no other.
LEMMA UseComesInto ==
  ASSUME TypeOK, NEW th \in Threads, Use(th)
  PROVE  /\ heard' = heard
         /\ \A l \in Threads : disturbed'[l] = FALSE
                               => disturbed[l] = FALSE /\ ~(th \in Higher[l] /\ pc[l] # "idle")
         /\ \A l \in Threads : th \notin Higher[l] /\ disturbed[l] = FALSE
                               => disturbed'[l] = FALSE
<1>1. heard' = heard
  BY DEF Use
<1>2. ASSUME NEW l \in Threads
      PROVE  disturbed'[l] = (disturbed[l] \/ (th \in Higher[l] /\ pc[l] # "idle"))
  BY <1>2, Zenon DEF Use, Below
<1>3. \A l \in Threads : disturbed[l] \in BOOLEAN
  BY Zenon DEF TypeOK
<1>4. ASSUME NEW l \in Threads, disturbed'[l] = FALSE
      PROVE  disturbed[l] = FALSE /\ ~(th \in Higher[l] /\ pc[l] # "idle")
  BY <1>2, <1>3, <1>4, Zenon
<1>5. ASSUME NEW l \in Threads, th \notin Higher[l], disturbed[l] = FALSE
      PROVE  disturbed'[l] = FALSE
  BY <1>2, <1>5, Zenon
<1>6. QED
  BY <1>1, <1>4, <1>5, Zenon

\* The beginning of a use, at esp8266_spi_write or esp8266_spi_read.
Begins(th) ==
  /\ MayRun(th) /\ pc[th] = "idle"
  /\ Use(th)
  /\ \/ th = "wifi" /\ ReadFragment
     \/ \E n \in 1..MaxNum : Write(th, n)

\* The steps of the system, by the thread that takes them.
LEMMA StepsOf ==
  ASSUME Next
  PROVE  Ready \/ \E th \in Threads : Send(th) \/ Begins(th)
<1>1. CASE ReadFragment
  <2>1. MayRun("wifi")
    BY HigherFacts DEF MayRun
  <2>2. QED
    BY <1>1, <2>1 DEF Begins, ReadFragment, Threads
<1>2. ASSUME NEW th \in Threads, NEW n \in 1..MaxNum, Write(th, n)
      PROVE  Begins(th)
  BY <1>2 DEF Begins, Write
<1>3. QED
  BY <1>1, <1>2 DEF Next

\* What a beginning changes of places and locals.
LEMMA BeginMoves ==
  ASSUME TypeOK, NEW th \in Threads, Begins(th)
  PROVE  /\ pc'[th] \in {"wait", "head"} /\ frag'[th] \in {0, 1} /\ frag'[th] <= num'[th]
         /\ pc'[th] = "wait" => frag'[th] = 1
         /\ pc'[th] = "head" => th = "wifi" /\ frag'[th] = 0
         /\ \A x \in Threads \ {th} : pc'[x] = pc[x] /\ frag'[x] = frag[x] /\ num'[x] = num[x]
                                      /\ t'[x] = t[x]
         /\ UNCHANGED <<wr_rdy, writeBuf, bus, queue, wire, busy>>
<1>t. DataOK
  BY TypeParts
<1>1. CASE th = "wifi" /\ ReadFragment
  <2>1. /\ pc' = [pc EXCEPT !["wifi"] = "head"] /\ num' = [num EXCEPT !["wifi"] = 0]
        /\ frag' = [frag EXCEPT !["wifi"] = 0] /\ t' = t
        /\ UNCHANGED <<wr_rdy, writeBuf, bus, queue, wire, busy>>
    BY <1>1 DEF ReadFragment, Goto
  <2>2. QED
    BY <1>1, <1>t, <2>1 DEF DataOK
<1>2. ASSUME NEW n \in 1..MaxNum, Write(th, n)
      PROVE  /\ pc'[th] = "wait" /\ frag'[th] = 1 /\ frag'[th] <= num'[th]
             /\ \A x \in Threads \ {th} : pc'[x] = pc[x] /\ frag'[x] = frag[x] /\ num'[x] = num[x]
                                          /\ t'[x] = t[x]
             /\ UNCHANGED <<wr_rdy, writeBuf, bus, queue, wire, busy>>
  <2>1. /\ pc' = [pc EXCEPT ![th] = "wait"] /\ num' = [num EXCEPT ![th] = n]
        /\ frag' = [frag EXCEPT ![th] = 1] /\ t' = [t EXCEPT ![th] = Spins]
        /\ UNCHANGED <<wr_rdy, writeBuf, bus, queue, wire, busy>>
    BY <1>2 DEF Write, Goto
  <2>2. QED
    BY <1>t, <2>1 DEF DataOK
<1>3. QED
  BY <1>1, <1>2 DEF Begins

\* The steps of a sender before the end of its transfer and after it move it alone
\* from one place to the next.
LEMMA SendMoves ==
  ASSUME TypeOK, NEW th \in Threads, Send(th), ~XferRest(th)
  PROVE  /\ MayRun(th)
         /\ \A x \in Threads \ {th} : pc'[x] = pc[x] /\ frag'[x] = frag[x] /\ num'[x] = num[x]
                                      /\ t'[x] = t[x] /\ disturbed'[x] = disturbed[x]
         /\ heard' = heard /\ busy' = busy
         /\ \/ Spin(th) /\ pc[th] = "wait" /\ pc'[th] = "wait"
            \/ Waited(th) /\ pc[th] = "wait" /\ pc'[th] = "clear"
            \/ Clear(th) /\ pc[th] = "clear" /\ pc'[th] \in {"failed", "head"}
            \/ FillHead(th) /\ pc[th] = "head" /\ pc'[th] = "tail"
            \/ FillTail(th) /\ pc[th] = "tail" /\ pc'[th] = "take"
            \/ TakeBus(th) /\ pc[th] = "take" /\ pc'[th] = "xfer"
            \/ WaitForBus(th) /\ pc[th] = "take" /\ pc'[th] = "blocked"
            \/ XferHead(th) /\ pc[th] = "xfer" /\ pc'[th] = "rest"
            \/ Return(th) /\ pc[th] \in {"ok", "failed"} /\ pc'[th] = "idle" /\ frag'[th] = 0
               /\ num'[th] = 0
         /\ Return(th) \/ (frag' = frag /\ num' = num)
         /\ Return(th) \/ disturbed' = disturbed
<1>t. DataOK
  BY TypeParts
<1>d. disturbed \in [Threads -> BOOLEAN]
  BY TypeParts DEF FlagsOK
<1> USE <1>t DEF DataOK, Goto, history
<1>1. CASE Spin(th)
  BY <1>1 DEF Spin
<1>2. CASE Waited(th)
  BY <1>2 DEF Waited
<1>3. CASE Clear(th)
  <2>1. /\ MayRun(th) /\ pc[th] = "clear"
        /\ pc' = [pc EXCEPT ![th] = "failed"] \/ pc' = [pc EXCEPT ![th] = "head"]
        /\ UNCHANGED <<num, frag, t, heard, busy, disturbed>>
    BY <1>3 DEF Clear
  <2>2. QED
    BY <1>3, <2>1
<1>4. CASE FillHead(th)
  BY <1>4 DEF FillHead
<1>5. CASE FillTail(th)
  BY <1>5 DEF FillTail
<1>6. CASE TakeBus(th)
  BY <1>6 DEF TakeBus
<1>7. CASE WaitForBus(th)
  BY <1>7 DEF WaitForBus
<1>8. CASE XferHead(th)
  BY <1>8 DEF XferHead
<1>9. CASE Return(th)
  <2>1. /\ MayRun(th) /\ pc[th] \in {"ok", "failed"}
        /\ pc' = [pc EXCEPT ![th] = "idle"] /\ num' = [num EXCEPT ![th] = 0]
        /\ frag' = [frag EXCEPT ![th] = 0] /\ t' = [t EXCEPT ![th] = 0]
        /\ heard' = heard /\ busy' = busy
    BY <1>9 DEF Return
  <2>2. \A x \in Threads \ {th} : disturbed'[x] = disturbed[x]
    BY <1>9, <1>d, Zenon DEF Return
  <2>3. QED
    BY <1>9, <2>1, <2>2
<1>10. QED
  BY <1>1, <1>2, <1>3, <1>4, <1>5, <1>6, <1>7, <1>8, <1>9 DEF Send

\* The end of a transfer moves the thread and the one the bus passes to.
LEMMA RestMoves ==
  ASSUME TypeOK, NEW th \in Threads, XferRest(th)
  PROVE  /\ MayRun(th) /\ pc[th] = "rest"
         /\ pc'[th] = After(th) /\ frag'[th] = IF After(th) = "wait" THEN frag[th] + 1 ELSE frag[th]
         /\ \A x \in Threads \ {th} : /\ pc'[x] = IF PassedTo(x) THEN "xfer" ELSE pc[x]
                                      /\ frag'[x] = frag[x]
         /\ num' = num /\ t' = t /\ disturbed' = disturbed /\ UNCHANGED <<wr_rdy, writeBuf>>
         /\ queue = <<>> => bus' = "free" /\ queue' = <<>>
         /\ queue # <<>> => bus' = Head(queue) /\ queue' = Tail(queue)
<1>t. DataOK
  BY TypeParts
<1>1. /\ pc' = [u \in Threads |-> IF u = th THEN After(th)
                                 ELSE IF PassedTo(u) THEN "xfer" ELSE pc[u]]
      /\ frag' = [frag EXCEPT ![th] = IF After(th) = "wait" THEN frag[th] + 1 ELSE frag[th]]
  BY DEF XferRest, AfterFragment
<1>2. /\ MayRun(th) /\ pc[th] = "rest" /\ num' = num /\ t' = t /\ disturbed' = disturbed
      /\ UNCHANGED <<wr_rdy, writeBuf>>
      /\ queue = <<>> => bus' = "free" /\ queue' = queue
      /\ queue # <<>> => bus' = Head(queue) /\ queue' = Tail(queue)
  BY DEF XferRest
<1>3. QED
  BY <1>1, <1>2, <1>t, Zenon DEF DataOK


\* The thread the bus passes to was waiting for it.
LEMMA PassedBlocked ==
  ASSUME LinkInv, NEW x \in Threads, PassedTo(x)
  PROVE  pc[x] = "blocked"
<1>1. queue # <<>> /\ x = Head(queue)
  BY DEF PassedTo
<1>2. Head(<<"info">>) = "info" /\ Head(<<"wifi">>) = "wifi" /\ Head(<<"info", "wifi">>) = "info"
  OBVIOUS
<1>3. QED
  BY <1>1, <1>2 DEF LinkInv, QueueInv, Suspended, Threads

\* The locals fit the place after every step.
LEMMA LocalsStep ==
  ASSUME TypeOK, LinkInv, Next, NEW x \in Threads
  PROVE  Locals(x)'
<1>t. DataOK /\ Locals(x)
  BY TypeParts DEF LinkInv
<1>1. CASE Ready
  BY <1>1, <1>t DEF Ready, threadVars, Locals
<1>2. ASSUME NEW th \in Threads, Begins(th) PROVE Locals(x)'
  <2>1. CASE x = th
    <3>1. /\ pc'[th] \in {"wait", "head"} /\ frag'[th] \in {0, 1} /\ frag'[th] <= num'[th]
          /\ pc'[th] = "wait" => frag'[th] = 1
          /\ pc'[th] = "head" => th = "wifi"
      BY <1>2, BeginMoves
    <3>2. QED
      BY <2>1, <3>1 DEF Locals
  <2>2. CASE x # th
    <3>1. pc'[x] = pc[x] /\ frag'[x] = frag[x] /\ num'[x] = num[x]
      BY <1>2, <2>2, BeginMoves
    <3>2. QED
      BY <1>t, <3>1 DEF Locals
  <2>3. QED
    BY <2>1, <2>2
<1>3. ASSUME NEW th \in Threads, Send(th), ~XferRest(th) PROVE Locals(x)'
  <2>1. CASE x = th
    <3>1. \/ pc[th] = "wait" /\ pc'[th] = "wait"
          \/ pc[th] = "wait" /\ pc'[th] = "clear"
          \/ pc[th] = "clear" /\ pc'[th] \in {"failed", "head"}
          \/ pc[th] = "head" /\ pc'[th] = "tail"
          \/ pc[th] = "tail" /\ pc'[th] = "take"
          \/ pc[th] = "take" /\ pc'[th] = "xfer"
          \/ pc[th] = "take" /\ pc'[th] = "blocked"
          \/ pc[th] = "xfer" /\ pc'[th] = "rest"
          \/ pc'[th] = "idle" /\ frag'[th] = 0 /\ num'[th] = 0
      BY <1>3, SendMoves
    <3>2. (pc'[th] = "idle" /\ frag'[th] = 0 /\ num'[th] = 0) \/ (frag' = frag /\ num' = num)
      BY <1>3, SendMoves DEF Return
    <3>3. QED
      BY <1>t, <2>1, <3>1, <3>2 DEF Locals
  <2>2. CASE x # th
    <3>1. pc'[x] = pc[x] /\ frag'[x] = frag[x] /\ num'[x] = num[x]
      BY <1>3, <2>2, SendMoves
    <3>2. QED
      BY <1>t, <3>1 DEF Locals
  <2>3. QED
    BY <2>1, <2>2
<1>4. ASSUME NEW th \in Threads, XferRest(th) PROVE Locals(x)'
  <2>1. CASE x = th
    <3>1. /\ pc[th] = "rest" /\ pc'[th] = After(th) /\ num'[th] = num[th]
          /\ frag'[th] = IF After(th) = "wait" THEN frag[th] + 1 ELSE frag[th]
      BY <1>4, RestMoves
    <3>2. frag[th] \in Nat /\ num[th] \in Nat
      BY <1>t, Bounds DEF DataOK
    <3>3. CASE frag[th] = 0
      BY <1>t, <2>1, <3>1, <3>2, <3>3 DEF Locals, After
    <3>4. CASE frag[th] # 0 /\ frag[th] < num[th]
      BY <1>t, <2>1, <3>1, <3>2, <3>4 DEF Locals, After
    <3>5. CASE frag[th] # 0 /\ ~(frag[th] < num[th])
      BY <1>t, <2>1, <3>1, <3>2, <3>5 DEF Locals, After
    <3>6. QED
      BY <3>3, <3>4, <3>5
  <2>2. CASE x # th
    <3>1. pc'[x] = (IF PassedTo(x) THEN "xfer" ELSE pc[x]) /\ frag'[x] = frag[x] /\ num'[x] = num[x]
      BY <1>4, <2>2, RestMoves
    <3>2. QED
      BY <1>t, <3>1, PassedBlocked DEF Locals
  <2>3. QED
    BY <2>1, <2>2
<1>5. QED
  BY <1>1, <1>2, <1>3, <1>4, StepsOf

\* A step that neither takes the bus nor waits for it nor gives it back.
LEMMA BusSame ==
  ASSUME LinkInv, bus' = bus, queue' = queue,
         \A x \in Threads : /\ pc'[x] \in Transferring <=> pc[x] \in Transferring
                            /\ pc'[x] = "blocked" <=> pc[x] = "blocked"
  PROVE  BusHeld' /\ QueueInv'
<1>1. BusHeld'
  BY DEF LinkInv, BusHeld
<1>2. ASSUME NEW S, Suspended(S) PROVE Suspended(S)'
  BY <1>2 DEF Suspended
<1>3. QueueInv'
  BY <1>2 DEF LinkInv, QueueInv
<1>4. QED
  BY <1>1, <1>3

\* What a sequence is with one more element.
LEMMA AppendIs ==
  ASSUME NEW S, NEW s \in Seq(S), NEW e \in S, NEW k \in Nat, Len(s) = k,
         NEW r \in Seq(S), Len(r) = k + 1, \A i \in 1..k : r[i] = s[i], r[k + 1] = e
  PROVE  Append(s, e) = r
<1>1. Append(s, e) \in Seq(S) /\ Len(Append(s, e)) = k + 1
  OBVIOUS
<1>2. \A i \in 1..k : Append(s, e)[i] = s[i]
  OBVIOUS
<1>3. Append(s, e)[k + 1] = e
  OBVIOUS
<1>4. \A i \in 1..(k + 1) : Append(s, e)[i] = r[i]
  BY <1>2, <1>3
<1>5. ASSUME NEW q \in Seq(S), Len(q) = k + 1
      PROVE  q = [i \in 1..(k + 1) |-> q[i]]
  BY <1>5
<1>6. QED
  BY <1>1, <1>4, <1>5, Zenon

\* The only queue of two.
LEMMA WifiBehindInfo == Append(<<"info">>, "wifi") = <<"info", "wifi">>
<1> DEFINE S == {"info", "wifi"}
           s == <<"info">>
           r == <<"info", "wifi">>
<1>1. s \in Seq(S) /\ "wifi" \in S /\ Len(s) = 1 /\ s[1] = "info" /\ 1 \in Nat
  OBVIOUS
<1>2. r \in Seq(S) /\ Len(r) = 1 + 1 /\ r[1] = "info" /\ r[1 + 1] = "wifi"
  OBVIOUS
<1>3. \A i \in 1..1 : r[i] = s[i]
  BY <1>1, <1>2
<1> HIDE DEF S, s, r
<1>4. Append(s, "wifi") = r
  BY <1>1, <1>2, <1>3, AppendIs
<1>5. QED
  BY <1>4 DEF s, r

\* The bus has one holder, and those who wait for it are in the queue, after every step.
LEMMA BusStep ==
  ASSUME TypeOK, LinkInv, Next
  PROVE  BusHeld' /\ QueueInv'
<1>t. DataOK
  BY TypeParts
<1>1. CASE Ready
  BY <1>1, BusSame DEF Ready, threadVars
<1>2. ASSUME NEW th \in Threads, Begins(th) PROVE BusHeld' /\ QueueInv'
  <2>1. pc'[th] \in {"wait", "head"} /\ pc[th] = "idle" /\ bus' = bus /\ queue' = queue
        /\ \A x \in Threads \ {th} : pc'[x] = pc[x]
    BY <1>2, BeginMoves DEF Begins
  <2>2. QED
    BY <2>1, BusSame DEF Transferring
<1>3. ASSUME NEW th \in Threads, Send(th), ~XferRest(th), ~TakeBus(th), ~WaitForBus(th)
      PROVE  BusHeld' /\ QueueInv'
  <2>1. \A x \in Threads \ {th} : pc'[x] = pc[x]
    BY <1>3, SendMoves
  <2>2. \/ pc[th] = "xfer" /\ pc'[th] = "rest"
        \/ pc[th] \in {"wait", "clear", "head", "tail", "ok", "failed"}
           /\ pc'[th] \in {"wait", "clear", "head", "tail", "take", "failed", "idle"}
    BY <1>3, SendMoves
  <2>3. bus' = bus /\ queue' = queue
    BY <1>3, Zenon DEF Send, Spin, Waited, Clear, FillHead, FillTail, XferHead, Return
  <2>4. QED
    BY <2>1, <2>2, <2>3, BusSame DEF Transferring
<1>4. ASSUME NEW th \in Threads, TakeBus(th) PROVE BusHeld' /\ QueueInv'
  <2>1. pc[th] = "take" /\ bus = "free" /\ bus' = th /\ queue' = queue /\ pc' = [pc EXCEPT ![th] = "xfer"]
    BY <1>4 DEF TakeBus, Goto
  <2>2. queue = <<>> /\ Suspended({})
    BY <2>1 DEF LinkInv, QueueInv
  <2>3. BusHeld'
    BY <1>t, <2>1 DEF LinkInv, BusHeld, DataOK, Transferring, Threads
  <2>4. Suspended({})'
    BY <1>t, <2>1, <2>2 DEF Suspended, DataOK
  <2>5. QED
    BY <2>1, <2>2, <2>3, <2>4 DEF QueueInv
<1>5. ASSUME NEW th \in Threads, WaitForBus(th) PROVE BusHeld' /\ QueueInv'
  <2>1. /\ MayRun(th) /\ pc[th] = "take" /\ bus # "free" /\ bus' = bus
        /\ queue' = Append(queue, th) /\ pc' = [pc EXCEPT ![th] = "blocked"]
    BY <1>5 DEF WaitForBus, Goto
  <2>2. BusHeld'
    BY <1>t, <2>1 DEF LinkInv, BusHeld, DataOK, Transferring, Threads
  <2>3. \A u \in Higher[th] : pc[u] = "idle"
    BY <2>1, RunsOnTop DEF Transferring
  <2>4. bus \in Threads /\ pc[bus] \in Transferring /\ bus # th
    BY <1>t, <2>1 DEF LinkInv, BusHeld, DataOK, Transferring
  <2>5. th \in Higher[bus]
    BY <2>3, <2>4, Ordered DEF Transferring
  <2>6. \A x \in Threads : pc'[x] = "blocked" <=> (x = th \/ pc[x] = "blocked")
    BY <1>t, <2>1 DEF DataOK
  <2>7. CASE queue = <<>> /\ Suspended({})
    <3>1. queue' = <<th>>
      BY <2>1, <2>7
    <3>2. Suspended({th})'
      BY <2>6, <2>7 DEF Suspended
    <3>3. \/ th = "info" /\ bus = "tshell"
          \/ th = "wifi" /\ bus \in {"info", "tshell"}
      BY <2>4, <2>5, HigherFacts DEF Threads
    <3>4. QED
      BY <2>1, <2>2, <3>1, <3>2, <3>3 DEF QueueInv
  <2>8. CASE queue = <<"info">> /\ bus = "tshell" /\ Suspended({"info"})
    <3>1. th = "wifi"
      BY <2>1, <2>4, <2>8 DEF Suspended, Threads
    <3>2. queue' = <<"info", "wifi">>
      BY <2>1, <2>8, <3>1, WifiBehindInfo
    <3>3. Suspended({"info", "wifi"})'
      BY <2>6, <2>8, <3>1 DEF Suspended
    <3>4. QED
      BY <2>1, <2>2, <2>8, <3>2, <3>3 DEF QueueInv
  <2>9. CASE Suspended({"wifi"}) \/ Suspended({"info", "wifi"})
    <3>1. pc["wifi"] = "blocked"
      BY <2>9 DEF Suspended, Threads
    <3>2. th # "wifi"
      BY <2>1, <3>1
    <3>3. "wifi" \in Higher[th]
      BY <3>2, HigherFacts DEF Threads
    <3>4. QED
      BY <2>3, <3>1, <3>3
  <2>10. QED
    BY <2>7, <2>8, <2>9 DEF LinkInv, QueueInv
<1>6. ASSUME NEW th \in Threads, XferRest(th) PROVE BusHeld' /\ QueueInv'
  <2>1. pc[th] = "rest" /\ pc'[th] = After(th) /\ After(th) \in {"idle", "wait", "ok"}
    BY <1>6, RestMoves DEF After
  <2>2. \A x \in Threads \ {th} : pc'[x] = IF PassedTo(x) THEN "xfer" ELSE pc[x]
    BY <1>6, RestMoves
  <2>3. /\ queue = <<>> => bus' = "free" /\ queue' = <<>>
        /\ queue # <<>> => bus' = Head(queue) /\ queue' = Tail(queue)
    BY <1>6, RestMoves
  <2>4. bus = th /\ \A x \in Threads \ {th} : pc[x] \notin Transferring
    BY <2>1 DEF LinkInv, BusHeld, Transferring
  <2>5. CASE queue = <<>> /\ Suspended({})
    <3>1. \A x \in Threads \ {th} : pc'[x] = pc[x]
      BY <2>2, <2>5 DEF PassedTo
    <3>2. BusHeld'
      BY <2>1, <2>3, <2>4, <2>5, <3>1 DEF BusHeld, Transferring, Threads
    <3>3. Suspended({})'
      BY <2>1, <2>5, <3>1 DEF Suspended
    <3>4. QED
      BY <2>3, <2>5, <3>2, <3>3 DEF QueueInv
  <2>6. ASSUME NEW v \in Threads, NEW S, Suspended(S), queue # <<>>, Head(queue) = v, v # th
        PROVE  BusHeld' /\ Suspended(S \ {v})' /\ bus' = v
    <3>1. \A x \in Threads \ {th} : pc'[x] = IF x = v THEN "xfer" ELSE pc[x]
      BY <2>2, <2>6 DEF PassedTo
    <3>2. bus' = v
      BY <2>3, <2>6
    <3>3. BusHeld'
      BY <2>1, <2>4, <2>6, <3>1, <3>2 DEF BusHeld, Transferring, Threads
    <3>4. Suspended(S \ {v})'
      BY <2>1, <2>6, <3>1 DEF Suspended
    <3>5. QED
      BY <3>2, <3>3, <3>4
  <2>7. CASE queue = <<"info">> /\ bus = "tshell" /\ Suspended({"info"})
    <3>1. queue # <<>> /\ Head(queue) = "info" /\ Tail(queue) = <<>> /\ "info" \in Threads /\ "info" # th
      BY <2>4, <2>7 DEF Threads
    <3>2. BusHeld' /\ Suspended({"info"} \ {"info"})'
      BY <2>6, <2>7, <3>1
    <3>3. Suspended({})'
      BY <3>2 DEF Suspended
    <3>4. QED
      BY <2>3, <3>1, <3>2, <3>3 DEF QueueInv
  <2>8. CASE queue = <<"wifi">> /\ bus \in {"info", "tshell"} /\ Suspended({"wifi"})
    <3>1. queue # <<>> /\ Head(queue) = "wifi" /\ Tail(queue) = <<>> /\ "wifi" \in Threads /\ "wifi" # th
      BY <2>4, <2>8 DEF Threads
    <3>2. BusHeld' /\ Suspended({"wifi"} \ {"wifi"})'
      BY <2>6, <2>8, <3>1
    <3>3. Suspended({})'
      BY <3>2 DEF Suspended
    <3>4. QED
      BY <2>3, <3>1, <3>2, <3>3 DEF QueueInv
  <2>9. CASE queue = <<"info", "wifi">> /\ bus = "tshell" /\ Suspended({"info", "wifi"})
    <3>1. /\ queue # <<>> /\ Head(queue) = "info" /\ Tail(queue) = <<"wifi">>
          /\ "info" \in Threads /\ "info" # th
      BY <2>4, <2>9 DEF Threads
    <3>2. BusHeld' /\ Suspended({"info", "wifi"} \ {"info"})' /\ bus' = "info"
      BY <2>6, <2>9, <3>1
    <3>3. Suspended({"wifi"})'
      BY <3>2 DEF Suspended
    <3>4. QED
      BY <2>3, <3>1, <3>2, <3>3 DEF QueueInv
  <2>10. QED
    BY <2>5, <2>7, <2>8, <2>9 DEF LinkInv, QueueInv
<1>7. QED
  BY <1>1, <1>2, <1>3, <1>4, <1>5, <1>6, StepsOf DEF Send

\* What was undisturbed before a step of another thread, or after a step of its own.
LEMMA AloneBefore ==
  ASSUME TypeOK, LinkInv, NEW x \in Threads, NEW th \in Threads, Alone(x)'
  PROVE  /\ Begins(th) /\ x # th => Alone(x) /\ th \notin Higher[x] /\ pc'[x] = pc[x]
         /\ Send(th) => Alone(x) /\ th \notin Higher[x]
<1>d. pc'[x] # "idle" /\ disturbed'[x] = FALSE
  BY Zenon DEF Alone
<1>1. ASSUME Begins(th), x # th PROVE Alone(x) /\ th \notin Higher[x] /\ pc'[x] = pc[x]
  <2>1. pc'[x] = pc[x]
    BY <1>1, BeginMoves
  <2>2. Use(th)
    BY <1>1, Zenon DEF Begins
  <2>3. disturbed[x] = FALSE /\ ~(th \in Higher[x] /\ pc[x] # "idle")
    BY <1>d, <2>2, UseComesInto, Zenon
  <2>4. QED
    BY <1>d, <2>1, <2>3, Zenon DEF Alone
<1>2. ASSUME Send(th) PROVE Alone(x) /\ th \notin Higher[x]
  <2>1. Alone(x)
    <3>1. CASE XferRest(th)
      <4>1. disturbed' = disturbed /\ pc[th] = "rest"
        BY <3>1, RestMoves
      <4>2. x # th => pc'[x] = (IF PassedTo(x) THEN "xfer" ELSE pc[x])
        BY <3>1, RestMoves
      <4>3. pc[x] # "idle"
        BY <1>d, <4>1, <4>2, PassedBlocked
      <4>4. QED
        BY <1>d, <4>1, <4>3, Zenon DEF Alone
    <3>2. CASE ~XferRest(th)
      <4>1. pc[th] # "idle" /\ (Return(th) => pc'[th] = "idle") /\ (Return(th) \/ disturbed' = disturbed)
        BY <1>2, <3>2, SendMoves DEF Return
      <4>2. CASE x = th
        <5>1. disturbed' = disturbed
          BY <1>d, <4>1, <4>2
        <5>2. QED
          BY <1>d, <4>1, <4>2, <5>1, Zenon DEF Alone
      <4>3. CASE x # th
        <5>1. pc'[x] = pc[x] /\ disturbed'[x] = disturbed[x]
          BY <1>2, <3>2, <4>3, SendMoves
        <5>2. QED
          BY <1>d, <5>1, Zenon DEF Alone
      <4>4. QED
        BY <4>2, <4>3
    <3>3. QED
      BY <3>1, <3>2
  <2>2. pc[th] # "idle"
    BY <1>2 DEF Send, Spin, Waited, Clear, FillHead, FillTail, TakeBus, WaitForBus, XferHead,
                XferRest, Return
  <2>3. QED
    BY <2>1, <2>2 DEF LinkInv, Quiet
<1>3. QED
  BY <1>1, <1>2, Zenon

\* Above an undisturbed packet nobody is at work, after every step.
LEMMA QuietStep ==
  ASSUME TypeOK, LinkInv, Next, NEW x \in Threads
  PROVE  Quiet(x)'
<1> SUFFICES ASSUME Alone(x)', NEW u \in Higher[x] PROVE pc'[u] = "idle"
  BY Zenon DEF Quiet
<1>u. u \in Threads /\ u # x
  BY HigherFacts
<1>q. Alone(x) => pc[u] = "idle"
  BY Zenon DEF LinkInv, Quiet
<1>1. CASE Ready
  <2>1. Alone(x)
    BY <1>1, Zenon DEF Ready, threadVars, history, Alone
  <2>2. QED
    BY <1>1, <1>q, <2>1 DEF Ready, threadVars
<1>2. ASSUME NEW th \in Threads, Begins(th) PROVE pc'[u] = "idle"
  <2>1. CASE x = th
    <3>1. MayRun(th) /\ pc[th] = "idle"
      BY <1>2 DEF Begins
    <3>2. pc[u] = "idle"
      BY <2>1, <3>1, RunsOnTop DEF Transferring
    <3>3. QED
      BY <1>2, <1>u, <2>1, <3>2, BeginMoves
  <2>2. CASE x # th
    <3>1. Alone(x) /\ th \notin Higher[x]
      BY <1>2, <2>2, AloneBefore
    <3>2. u # th
      BY <3>1
    <3>3. QED
      BY <1>2, <1>q, <1>u, <3>1, <3>2, BeginMoves
  <2>3. QED
    BY <2>1, <2>2
<1>3. ASSUME NEW th \in Threads, Send(th) PROVE pc'[u] = "idle"
  <2>1. Alone(x) /\ th \notin Higher[x]
    BY <1>3, AloneBefore
  <2>2. u # th /\ pc[u] = "idle"
    BY <1>q, <2>1
  <2>3. CASE XferRest(th)
    <3>1. ~PassedTo(u)
      BY <1>u, <2>2, PassedBlocked
    <3>2. QED
      BY <1>u, <2>2, <2>3, <3>1, RestMoves
  <2>4. CASE ~XferRest(th)
    BY <1>3, <1>u, <2>2, <2>4, SendMoves
  <2>5. QED
    BY <2>3, <2>4
<1>4. QED
  BY <1>1, <1>2, <1>3, StepsOf

\* Nobody comes into a packet of wifi.
LEMMA WifiStep ==
  ASSUME TypeOK, LinkInv, Next
  PROVE  disturbed'["wifi"] = FALSE
<1>d. disturbed["wifi"] = FALSE /\ disturbed \in [Threads -> BOOLEAN] /\ "wifi" \in Threads
  BY Zenon DEF LinkInv, TypeOK, Threads
<1>1. CASE Ready
  BY <1>1, <1>d, Zenon DEF Ready, history
<1>2. ASSUME NEW th \in Threads, Begins(th) PROVE disturbed'["wifi"] = FALSE
  <2>1. Use(th) /\ th \notin Higher["wifi"]
    BY <1>2, HigherFacts DEF Begins
  <2>2. QED
    BY <1>d, <2>1, UseComesInto, Zenon
<1>3. ASSUME NEW th \in Threads, Send(th) PROVE disturbed'["wifi"] = FALSE
  <2>1. CASE Return(th)
    <3>1. disturbed' = [disturbed EXCEPT ![th] = FALSE]
      BY <2>1, Zenon DEF Return
    <3>2. QED
      BY <1>d, <3>1, Zenon
  <2>2. CASE ~Return(th)
    <3>1. disturbed' = disturbed
      BY <1>3, <2>2, SendMoves, RestMoves
    <3>2. QED
      BY <1>d, <3>1, Zenon
  <2>3. QED
    BY <2>1, <2>2
<1>4. QED
  BY <1>1, <1>2, <1>3, StepsOf

\* Every step keeps who runs, who holds the bus and who waits for it.
LEMMA LinkStep == TypeOK /\ LinkInv /\ Next => LinkInv'
  BY LocalsStep, BusStep, QuietStep, WifiStep DEF LinkInv

-----------------------------------------------------------------------------
(* The packets *)

\* A sequence of fragments with the next one at its end.
LEMMA OwnNext ==
  ASSUME NEW th, NEW k \in Nat
  PROVE  Append([i \in 1..k |-> Own(th, i)], Own(th, k + 1)) = [i \in 1..(k + 1) |-> Own(th, i)]
<1> DEFINE S == {Own(th, i) : i \in Nat}
           s == [i \in 1..k |-> Own(th, i)]
           r == [i \in 1..(k + 1) |-> Own(th, i)]
<1>1. s \in Seq(S) /\ Len(s) = k /\ Own(th, k + 1) \in S
  OBVIOUS
<1>2. r \in Seq(S) /\ Len(r) = k + 1 /\ r[k + 1] = Own(th, k + 1)
  OBVIOUS
<1>3. \A i \in 1..k : r[i] = s[i]
  OBVIOUS
<1> HIDE DEF S, s, r
<1>4. Append(s, Own(th, k + 1)) = r
  BY <1>1, <1>2, <1>3, AppendIs
<1>5. QED
  BY <1>4 DEF s, r

\* The first fragment alone.
LEMMA OwnFirst == ASSUME NEW th PROVE <<Own(th, 1)>> = [i \in 1..1 |-> Own(th, i)]
  OBVIOUS

\* A beginning disturbs no other packet than those below it.
LEMMA PacketBegins ==
  ASSUME TypeOK, PacketInv, NEW x \in Threads, NEW th \in Threads, Begins(th)
  PROVE  Packet(x)'
<1> SUFFICES ASSUME Alone(x)' PROVE Ahead(x)' /\ Buffer(x)' /\ SentHeard(x)'
  BY Zenon DEF Packet
<1>1. heard' = heard /\ UNCHANGED <<writeBuf, wire, bus>>
  BY BeginMoves, UseComesInto DEF Begins
<1>2. CASE x = th
  <2>1. pc'[x] \in {"wait", "head"} /\ frag'[x] \in {0, 1}
    BY <1>2, BeginMoves
  <2>2. QED
    BY <2>1 DEF Ahead, Buffer, SentHeard
<1>3. CASE x # th
  <2>1. Alone(x)
    BY <1>3, AloneBefore DEF PacketInv
  <2>2. Ahead(x) /\ Buffer(x) /\ SentHeard(x)
    BY <2>1 DEF PacketInv, Packet
  <2>3. pc'[x] = pc[x] /\ frag'[x] = frag[x] /\ num'[x] = num[x]
    BY <1>3, BeginMoves
  <2>4. QED
    BY <1>1, <2>2, <2>3 DEF Ahead, Buffer, SentHeard, Heard, Mine
<1>4. QED
  BY <1>2, <1>3

\* A step of another sender disturbs an undisturbed packet in nothing: it is the
\* transfer that packet waits for.
LEMMA PacketOthers ==
  ASSUME TypeOK, PacketInv, NEW x \in Threads, NEW th \in Threads, x # th, Send(th)
  PROVE  Packet(x)'
<1> SUFFICES ASSUME Alone(x)' PROVE Ahead(x)' /\ Buffer(x)' /\ SentHeard(x)'
  BY Zenon DEF Packet
<1>t. DataOK /\ LinkInv
  BY TypeParts DEF PacketInv
<1>1. Alone(x) /\ th \notin Higher[x]
  BY <1>t, AloneBefore
<1>2. Ahead(x) /\ Buffer(x) /\ SentHeard(x)
  BY <1>1 DEF PacketInv, Packet
<1>3. MayRun(th)
  BY SendMoves, RestMoves
<1>4. x \in Higher[th]
  BY <1>1, Ordered
<1>5. pc[x] = "blocked" /\ bus = th /\ pc[th] \in Transferring
  BY <1>t, <1>1, <1>3, <1>4, RunsBelow
<1>6. frag[x] \in 0..MaxNum /\ frag[x] <= 1 /\ th # "free"
  BY <1>2, <1>5, <1>t DEF Ahead, DataOK, Threads
<1>7. pc'[x] \in {"blocked", "xfer"} /\ frag'[x] = frag[x] /\ UNCHANGED writeBuf
  <2>1. CASE XferRest(th)
    BY <1>5, <2>1, RestMoves
  <2>2. CASE ~XferRest(th)
    <3>1. XferHead(th)
      BY <1>5, <2>2, SendMoves DEF Transferring
    <3>2. QED
      BY <1>5, <2>2, <3>1, SendMoves DEF XferHead
  <2>3. QED
    BY <2>1, <2>2
<1>8. QED
  BY <1>2, <1>5, <1>6, <1>7, Bounds DEF Ahead, Buffer, SentHeard, Mine

\* Its own steps before the end of a transfer and after it put its fragment into
\* the buffer and on the wire.
LEMMA PacketOwn ==
  ASSUME TypeOK, PacketInv, NEW x \in Threads, Send(x), ~XferRest(x)
  PROVE  Packet(x)'
<1> SUFFICES ASSUME Alone(x)' PROVE Ahead(x)' /\ Buffer(x)' /\ SentHeard(x)'
  BY Zenon DEF Packet
<1>t. DataOK /\ LinkInv
  BY TypeParts DEF PacketInv
<1>1. Alone(x)
  BY <1>t, AloneBefore
<1>2. Ahead(x) /\ Buffer(x) /\ SentHeard(x)
  BY <1>1 DEF PacketInv, Packet
<1>3. ~Return(x)
  BY SendMoves, Zenon DEF Alone, Return
<1>4. frag' = frag /\ num' = num /\ heard' = heard
  BY <1>3, SendMoves
<1>5. bus' \in {bus, x}
  BY Zenon DEF Send, Spin, Waited, Clear, FillHead, FillTail, TakeBus, WaitForBus, XferHead,
              Return
<1>6. Ahead(x)'
  BY <1>2, <1>4, <1>5 DEF Ahead
<1>7. pc'[x] # "ok" /\ pc[x] \notin {"ok", "failed"}
  BY <1>3, SendMoves
<1>8. SentHeard(x)'
  BY <1>2, <1>4, <1>7 DEF SentHeard, Heard
<1>9. Buffer(x)'
  <2>1. CASE Spin(x) \/ Waited(x) \/ Clear(x)
    <3>1. pc'[x] \in {"wait", "clear", "failed", "head"}
      BY <2>1, SendMoves DEF Spin, Waited, Clear
    <3>2. QED
      BY <3>1 DEF Buffer
  <2>2. CASE FillHead(x)
    BY <2>2, <1>t DEF FillHead, Goto, Buffer, Mine, DataOK
  <2>3. CASE FillTail(x)
    BY <2>3, <1>2, <1>t DEF FillTail, Goto, Buffer, Mine, DataOK
  <2>4. CASE TakeBus(x) \/ WaitForBus(x)
    BY <2>4, <1>2, <1>t DEF TakeBus, WaitForBus, Goto, Buffer, Mine, DataOK
  <2>5. CASE XferHead(x)
    BY <2>5, <1>2, <1>t DEF XferHead, Goto, Buffer, Mine, DataOK
  <2>6. QED
    BY <1>3, <2>1, <2>2, <2>3, <2>4, <2>5 DEF Send
<1>10. QED
  BY <1>6, <1>8, <1>9

\* What is heard when a fragment that is its own is over.
LEMMA PacketHears ==
  ASSUME TypeOK, PacketInv, NEW x \in Threads, XferRest(x), Alone(x)
  PROVE  Ahead(x)' /\ Buffer(x)' /\ SentHeard(x)'
<1>t. DataOK /\ LinkInv /\ Locals(x)
  BY TypeParts DEF PacketInv, LinkInv
<1>1. Ahead(x) /\ Buffer(x) /\ SentHeard(x)
  BY DEF PacketInv, Packet
<1>2. /\ pc[x] = "rest" /\ pc'[x] = After(x) /\ num'[x] = num[x]
      /\ frag'[x] = (IF After(x) = "wait" THEN frag[x] + 1 ELSE frag[x])
  BY RestMoves
<1>3. frag[x] \in Nat /\ num[x] \in Nat
  BY <1>t, Bounds DEF DataOK
<1>4. Ahead(x)'
  <2>1. \A u \in Higher[x] : pc[u] = "idle"
    BY <1>t DEF LinkInv, Quiet
  <2>2. bus = x
    BY <1>t, <1>2 DEF LinkInv, BusHeld, Transferring
  <2>3. queue = <<>>
    <3>1. "wifi" \in Higher[x] => pc["wifi"] # "blocked"
      BY <2>1
    <3>2. "info" \in Higher[x] => pc["info"] # "blocked"
      BY <2>1
    <3>3. QED
      BY <1>t, <2>2, <3>1, <3>2, HigherFacts DEF LinkInv, QueueInv, Suspended, Threads
  <2>4. bus' = "free"
    BY <2>3, RestMoves
  <2>5. QED
    BY <2>4 DEF Ahead
<1>5. Buffer(x)'
  BY <1>2 DEF Buffer, After
<1>6. CASE frag[x] = 0
  BY <1>2, <1>4, <1>5, <1>6 DEF SentHeard, After
<1>7. CASE frag[x] # 0
  <2> DEFINE transfer == [head |-> wire, tail |-> writeBuf.tail]
  <2>1. transfer = Own(x, frag[x]) /\ ~IsRead(wire) /\ wire.i = frag[x]
    BY <1>1, <1>2, <1>7 DEF Buffer, Mine, Own, IsRead
  <2> HIDE DEF transfer
  <2>2. heard' = IF frag[x] = 1 THEN <<transfer>> ELSE Append(heard, transfer)
    BY <2>1 DEF XferRest, transfer
  <2>3. heard' = [i \in 1..frag[x] |-> Own(x, i)]
    <3>1. CASE frag[x] = 1
      <4>1. heard' = <<Own(x, 1)>>
        BY <2>1, <2>2, <3>1
      <4>2. <<Own(x, 1)>> = [i \in 1..1 |-> Own(x, i)]
        BY OwnFirst, Zenon
      <4>3. QED
        BY <3>1, <4>1, <4>2
    <3>2. CASE frag[x] > 1
      <4>1. heard = [i \in 1..(frag[x] - 1) |-> Own(x, i)]
        BY <1>1, <1>2, <3>2 DEF SentHeard, Heard
      <4>2. heard' = Append(heard, Own(x, frag[x]))
        BY <2>1, <2>2, <3>2
      <4>3. frag[x] - 1 \in Nat /\ (frag[x] - 1) + 1 = frag[x]
        BY <1>3, <3>2
      <4>4. QED
        BY <4>1, <4>2, <4>3, OwnNext
    <3>3. QED
      BY <1>3, <1>7, <3>1, <3>2
  <2>4. frag'[x] > 1 /\ pc'[x] \notin {"ok", "failed"} => frag'[x] - 1 = frag[x]
    BY <1>2, <1>3, <1>7 DEF After
  <2>5. pc'[x] = "ok" => num'[x] = frag[x]
    BY <1>2, <1>3, <1>7, <1>t DEF After, Locals
  <2>6. SentHeard(x)'
    BY <2>3, <2>4, <2>5, Zenon DEF SentHeard, Heard
  <2>7. QED
    BY <1>4, <1>5, <2>6
<1>8. QED
  BY <1>4, <1>5, <1>6, <1>7

\* Every step keeps where the fragments are.
LEMMA PacketStep == TypeOK /\ PacketInv /\ [Next]_vars => PacketInv'
<1> SUFFICES ASSUME TypeOK, PacketInv, [Next]_vars PROVE PacketInv'
  OBVIOUS
<1>1. CASE Next
  <2>1. LinkInv'
    BY <1>1, LinkStep DEF PacketInv
  <2>2. ASSUME NEW x \in Threads PROVE Packet(x)'
    <3>1. CASE Ready
      BY <3>1, Zenon DEF PacketInv, Packet, Alone, Ahead, Buffer, SentHeard, Heard, Mine, Ready,
                         threadVars, history
    <3>2. ASSUME NEW th \in Threads, Begins(th) PROVE Packet(x)'
      BY <3>2, PacketBegins
    <3>3. ASSUME NEW th \in Threads, Send(th) PROVE Packet(x)'
      <4>1. CASE x # th
        BY <3>3, <4>1, PacketOthers
      <4>2. CASE x = th /\ ~XferRest(th)
        BY <3>3, <4>2, PacketOwn
      <4>3. CASE x = th /\ XferRest(th)
        <5>1. Alone(x)' => Alone(x)
          BY <3>3, AloneBefore DEF PacketInv
        <5>2. QED
          BY <4>3, <5>1, PacketHears DEF Packet
      <4>4. QED
        BY <4>1, <4>2, <4>3
    <3>4. QED
      BY <1>1, <3>1, <3>2, <3>3, StepsOf
  <2>3. QED
    BY <2>1, <2>2 DEF PacketInv
<1>2. CASE UNCHANGED vars
  <2>1. LinkInv'
    BY <1>2, Zenon DEF PacketInv, LinkInv, Locals, BusHeld, QueueInv, Suspended, Quiet, Alone,
                       vars, threadVars, history
  <2>2. ASSUME NEW x \in Threads PROVE Packet(x)'
    BY <1>2, Zenon DEF PacketInv, Packet, Alone, Ahead, Buffer, SentHeard, Heard, Mine, vars,
                       threadVars, history
  <2>3. QED
    BY <2>1, <2>2 DEF PacketInv
<1>3. QED
  BY <1>1, <1>2

\* The invariant holds what the two properties say.
LEMMA PacketsSent == TypeOK /\ PacketInv => WifiSendsWhole /\ LowSendsWhole
<1> SUFFICES ASSUME TypeOK, PacketInv PROVE WifiSendsWhole /\ LowSendsWhole
  OBVIOUS
<1>1. ASSUME NEW x \in Threads, pc[x] = "ok", disturbed[x] = FALSE PROVE Whole(x)
  <2>1. Heard(x, num[x])
    BY <1>1 DEF PacketInv, Packet, Alone, SentHeard
  <2>2. QED
    BY <2>1, Zenon DEF Whole, Heard, Own
<1>2. disturbed["wifi"] = FALSE /\ {"wifi", "info", "tshell"} = Threads
  BY DEF PacketInv, LinkInv, Threads
<1>3. \A x \in Threads : disturbed[x] \in BOOLEAN
  BY Zenon DEF TypeOK
<1>4. WifiSendsWhole
  BY <1>1, <1>2 DEF WifiSendsWhole
<1>5. \A x \in Threads : ~disturbed[x] => disturbed[x] = FALSE
  BY <1>3, Zenon
<1>6. LowSendsWhole
  BY <1>1, <1>2, <1>5, Zenon DEF LowSendsWhole, Threads
<1>7. QED
  BY <1>4, <1>6

\* Types and packets, always.
LEMMA PacketAlways == Spec => [](TypeOK /\ PacketInv)
  BY TypeInit, TypeStep, LinkInit, PacketStep, PTL DEF Spec

\* Every packet wifi reports sent was transferred whole.
THEOREM WifiPacketsWhole == Spec => []WifiSendsWhole
  BY PacketAlways, PacketsSent, PTL

\* So was every packet of info during which wifi left the link alone, and every one
\* of tshell during which both did.
THEOREM LowPacketsWhole == Spec => []LowSendsWhole
  BY PacketAlways, PacketsSent, PTL

-----------------------------------------------------------------------------
(* The right to write *)

\* At first wr_rdy has the right to write and nobody looks at it.
LEMMA TokenInit == Init => TokenInv
<1> SUFFICES ASSUME Init PROVE TokenInv
  OBVIOUS
<1>1. Owners = {"wr_rdy"}
  BY DEF Init, Owners, Threads
<1>2. \A th \in Threads : pc[th] = "idle"
  BY DEF Init
<1>3. OneOwner
  BY <1>1 DEF OneOwner, Owners
<1>4. QED
  BY <1>2, <1>3 DEF TokenInv, Lookers, Looks, Threads, Holding

\* A use that clashes with nobody finds nobody below it behind his look at wr_rdy.
LEMMA UseClashes ==
  ASSUME NEW th \in Threads, NEW x \in Threads, Use(th), ~clashed', th \in Higher[x]
  PROVE  pc[x] \notin Holding
  BY Zenon DEF Use, Below

\* Whoever looks is left alone by the steps of another sender.
LEMMA LooksOthers ==
  ASSUME TypeOK, LinkInv, Lookers, NEW x \in Threads, NEW th \in Threads, x # th, Send(th)
  PROVE  Looks(x)'
<1>t. DataOK /\ Looks(x)
  BY TypeParts DEF Lookers
<1>1. pc[th] # "idle" /\ MayRun(th)
  BY SendMoves, RestMoves
<1>2. /\ pc'[x] = pc[x] \/ (pc[x] = "blocked" /\ pc'[x] = "xfer")
      /\ frag'[x] = frag[x] /\ t'[x] = t[x]
  BY SendMoves, RestMoves, PassedBlocked
<1>3. CASE pc[x] \in Holding
  <2>1. \A u \in Higher[x] : pc[u] = "idle"
    BY <1>t, <1>3 DEF Looks
  <2>2. x \in Higher[th]
    BY <1>1, <2>1, Ordered
  <2>3. pc[th] \in Transferring
    BY <1>1, <1>3, <2>2, RunsOnTop DEF Holding
  <2>4. ASSUME NEW u \in Higher[x] PROVE pc'[u] = "idle"
    <3>1. u \in Threads /\ u # th /\ pc[u] = "idle"
      BY <1>1, <2>1, HigherFacts
    <3>2. ~PassedTo(u)
      BY <3>1, PassedBlocked
    <3>3. QED
      BY <3>1, <3>2, SendMoves, RestMoves
  <2>5. UNCHANGED <<wr_rdy, writeBuf>>
    <3>1. CASE XferRest(th)
      BY <3>1, RestMoves
    <3>2. CASE ~XferRest(th)
      <4>1. XferHead(th)
        BY <2>3, <3>2, SendMoves DEF Transferring
      <4>2. QED
        BY <4>1 DEF XferHead
    <3>3. QED
      BY <3>1, <3>2
  <2>6. QED
    BY <1>t, <1>2, <1>3, <2>4, <2>5 DEF Looks, Holding, Mine
<1>4. CASE pc[x] = "rest"
  <2>1. pc[th] \notin Transferring
    BY <1>4 DEF LinkInv, BusHeld, Transferring
  <2>2. wire' = wire
    BY <2>1, Zenon DEF Send, Spin, Waited, Clear, FillHead, FillTail, TakeBus, WaitForBus,
                       XferHead, XferRest, Return, Transferring
  <2>3. QED
    BY <1>t, <1>2, <1>4, <2>2 DEF Looks, Holding, Mine
<1>5. CASE pc[x] \notin Holding \cup {"rest"}
  <2>1. pc'[x] \notin Holding \cup {"rest"}
    BY <1>2, <1>5 DEF Holding
  <2>2. QED
    BY <2>1 DEF Looks, Holding
<1>6. QED
  BY <1>3, <1>4, <1>5

\* Its own steps lead from its look to the transfer of its own fragment.
LEMMA LooksOwn ==
  ASSUME TypeOK, LinkInv, Lookers, NEW x \in Threads, Send(x)
  PROVE  Looks(x)'
<1>t. DataOK /\ Looks(x)
  BY TypeParts DEF Lookers
<1>1. MayRun(x)
  BY SendMoves, RestMoves
<1>2. ASSUME pc[x] \notin Transferring, ~XferRest(x), NEW u \in Higher[x] PROVE pc'[u] = "idle"
  <2>1. pc[u] = "idle" /\ u \in Threads /\ u # x
    BY <1>1, <1>2, RunsOnTop, HigherFacts
  <2>2. QED
    BY <1>2, <2>1, SendMoves
<1>3. CASE XferRest(x)
  <2>1. pc'[x] \in {"idle", "wait", "ok"}
    BY <1>3, RestMoves DEF After
  <2>2. QED
    BY <2>1 DEF Looks, Holding
<1>4. CASE Spin(x) \/ Return(x)
  <2>1. pc'[x] \in {"idle", "wait"}
    BY <1>4, <1>t DEF Spin, Return, Goto, DataOK
  <2>2. QED
    BY <2>1 DEF Looks, Holding
<1>5. CASE Waited(x)
  <2>1. ~XferRest(x) /\ pc[x] = "wait" /\ pc'[x] = "clear" /\ t' = t
    BY <1>5, <1>t DEF Waited, Goto, DataOK, XferRest
  <2>2. wr_rdy' = TRUE \/ t[x] = 0
    <3>1. (wr_rdy \/ t[x] = 0) /\ wr_rdy' = wr_rdy
      BY <1>5, Zenon DEF Waited
    <3>2. wr_rdy \in BOOLEAN
      BY Zenon DEF TypeOK
    <3>3. QED
      BY <3>1, <3>2, Zenon
  <2>3. QED
    BY <1>2, <2>1, <2>2 DEF Looks, Transferring
<1>6. CASE Clear(x)
  <2>1. ~XferRest(x) /\ pc[x] = "clear" /\ pc'[x] \in {"failed", "head"}
    BY <1>6, <1>t DEF Clear, Goto, DataOK, XferRest
  <2>2. QED
    BY <1>2, <2>1 DEF Looks, Transferring, Holding
<1>7. CASE FillHead(x)
  <2>1. /\ ~XferRest(x) /\ pc[x] = "head" /\ pc'[x] = "tail" /\ frag' = frag
        /\ writeBuf'.head = Mine(x)
    BY <1>7, <1>t DEF FillHead, Goto, DataOK, XferRest
  <2>2. QED
    BY <1>2, <2>1 DEF Looks, Transferring, Mine
<1>8. CASE FillTail(x)
  <2>1. /\ ~XferRest(x) /\ pc[x] = "tail" /\ pc'[x] = "take" /\ frag' = frag
        /\ writeBuf'.head = writeBuf.head
    BY <1>8, <1>t DEF FillTail, Goto, DataOK, XferRest
  <2>2. QED
    BY <1>2, <1>t, <2>1 DEF Looks, Transferring, Mine
<1>9. CASE TakeBus(x) \/ WaitForBus(x)
  <2>1. /\ ~XferRest(x) /\ pc[x] = "take" /\ pc'[x] \in {"xfer", "blocked"} /\ frag' = frag
        /\ writeBuf' = writeBuf
    BY <1>9, <1>t DEF TakeBus, WaitForBus, Goto, DataOK, XferRest
  <2>2. QED
    BY <1>2, <1>t, <2>1 DEF Looks, Transferring, Mine
<1>10. CASE XferHead(x)
  <2>1. pc[x] = "xfer" /\ pc'[x] = "rest" /\ frag' = frag /\ wire' = writeBuf.head
    BY <1>10, <1>t DEF XferHead, Goto, DataOK
  <2>2. QED
    BY <1>t, <2>1 DEF Looks, Holding, Mine
<1>11. QED
  BY <1>3, <1>4, <1>5, <1>6, <1>7, <1>8, <1>9, <1>10 DEF Send

\* Whoever looks goes on doing so undisturbed as long as no use clashes with it.
LEMMA LookersStep ==
  ASSUME TypeOK, LinkInv, Lookers, Next, ~clashed'
  PROVE  Lookers'
<1> SUFFICES ASSUME NEW x \in Threads PROVE Looks(x)'
  BY DEF Lookers
<1>t. Looks(x)
  BY DEF Lookers
<1>1. CASE Ready
  <2>1. wr_rdy' = TRUE /\ UNCHANGED <<pc, frag, writeBuf, wire>>
    BY <1>1 DEF Ready, threadVars
  <2>2. QED
    BY <1>t, <2>1 DEF Looks, Mine
<1>2. ASSUME NEW th \in Threads, Begins(th) PROVE Looks(x)'
  <2>1. MayRun(th) /\ pc[th] = "idle" /\ Use(th)
    BY <1>2 DEF Begins
  <2>2. UNCHANGED <<wr_rdy, writeBuf, wire>>
    BY <1>2, BeginMoves
  <2>3. \A u \in Threads \ {th} : pc'[u] = pc[u] /\ frag'[u] = frag[u] /\ t'[u] = t[u]
    BY <1>2, BeginMoves
  <2>4. CASE x = th
    <3>1. \A u \in Higher[x] : pc'[u] = "idle"
      BY <2>1, <2>3, <2>4, RunsOnTop, HigherFacts DEF Transferring
    <3>2. pc'[x] \in {"wait", "head"}
      BY <1>2, <2>4, BeginMoves
    <3>3. QED
      BY <3>1, <3>2 DEF Looks
  <2>5. CASE x # th
    <3>1. pc[x] \in Holding => th \notin Higher[x]
      BY <2>1, UseClashes
    <3>2. pc[x] \in Holding => \A u \in Higher[x] : pc'[u] = "idle"
      BY <1>t, <2>3, <3>1, HigherFacts DEF Looks
    <3>3. QED
      BY <1>t, <2>2, <2>3, <2>5, <3>2 DEF Looks, Mine
  <2>6. QED
    BY <2>4, <2>5
<1>3. ASSUME NEW th \in Threads, Send(th) PROVE Looks(x)'
  BY <1>3, LooksOthers, LooksOwn
<1>4. QED
  BY <1>1, <1>2, <1>3, StepsOf

\* Whether a thread has the right to write.
Has(th) == pc[th] \in Sending /\ frag[th] # 0

\* Who owns the right to write is a matter of five flags.
LEMMA OwnersSame ==
  ASSUME wr_rdy' = wr_rdy, busy' = busy, \A th \in Threads : Has(th)' <=> Has(th)
  PROVE  Owners' = Owners
  BY DEF Owners, Sending, Holding, Has

\* The right to write passes from one owner to the next.
LEMMA OwnerStep ==
  ASSUME TypeOK, LinkInv, Lookers, OneOwner, Next, ~gaveUp'
  PROVE  OneOwner'
<1>t. DataOK
  BY TypeParts
<1>s. Owners' = Owners => OneOwner'
  BY Zenon DEF OneOwner
<1>1. CASE Ready
  <2>1. Owners = {"ESP8266"}
    BY <1>1 DEF OneOwner, Owners, Ready
  <2>2. \A x \in Threads : ~Has(x)
    BY <2>1 DEF Owners, Has, Sending, Holding, Threads
  <2>3. wr_rdy' = TRUE /\ busy' = FALSE /\ UNCHANGED <<pc, frag>>
    BY <1>1 DEF Ready, threadVars
  <2>4. \A x \in Threads : ~Has(x)'
    BY <2>2, <2>3 DEF Has
  <2>5. Owners' = {"wr_rdy"}
    BY <2>3, <2>4 DEF Owners, Has, Sending, Holding
  <2>6. QED
    BY <2>5 DEF OneOwner, Owners
<1>2. ASSUME NEW th \in Threads, Begins(th) PROVE OneOwner'
  <2>1. UNCHANGED <<wr_rdy, busy>>
    BY <1>2, BeginMoves
  <2>2. ~Has(th) /\ ~Has(th)'
    <3>1. pc[th] = "idle" /\ pc'[th] \in {"wait", "head"} /\ (pc'[th] = "head" => frag'[th] = 0)
      BY <1>2, BeginMoves DEF Begins
    <3>2. QED
      BY <3>1 DEF Has, Sending
  <2>3. \A x \in Threads : Has(x)' <=> Has(x)
    BY <1>2, <2>2, BeginMoves DEF Has
  <2>4. QED
    BY <1>s, <2>1, <2>3, OwnersSame
<1>3. ASSUME NEW th \in Threads, Clear(th) PROVE OneOwner'
  <2>1. /\ pc[th] = "clear" /\ wr_rdy' = FALSE /\ busy' = busy /\ frag' = frag
        /\ pc' = [pc EXCEPT ![th] = IF t[th] = 0 THEN "failed" ELSE "head"]
    BY <1>3 DEF Clear, Goto
  <2>2. CASE t[th] = 0
    <3>1. wr_rdy = FALSE
      <4>1. ~wr_rdy /\ wr_rdy \in BOOLEAN
        BY <1>3, <2>2, Zenon DEF Clear, TypeOK
      <4>2. QED
        BY <4>1, Zenon
    <3>2. \A x \in Threads : Has(x)' <=> Has(x)
      BY <1>t, <2>1, <2>2 DEF Has, Sending, DataOK
    <3>3. QED
      BY <1>s, <2>1, <3>1, <3>2, OwnersSame
  <2>3. CASE t[th] # 0
    <3>1. wr_rdy = TRUE /\ frag[th] # 0
      BY <2>1, <2>3 DEF Lookers, Looks, LinkInv, Locals
    <3>2. Owners = {"wr_rdy"}
      BY <3>1 DEF OneOwner, Owners
    <3>6. ~busy /\ \A x \in Threads : ~Has(x)
      BY <3>2 DEF Owners, Has, Sending, Holding, Threads
    <3>7. Has(th)' /\ \A x \in Threads \ {th} : ~Has(x)'
      BY <1>t, <2>1, <2>3, <3>1, <3>6 DEF Has, Sending, DataOK
    <3>8. ~wr_rdy' /\ ~busy'
      BY <2>1, <3>6, Zenon
    <3>3. Owners' = {th}
      BY <3>7, <3>8 DEF Owners, Has, Sending, Holding
    <3>4. th \in Owners'
      BY <3>3
    <3>5. QED
      BY <3>3, <3>4 DEF OneOwner
  <2>4. QED
    BY <2>2, <2>3
<1>4. ASSUME NEW th \in Threads, Send(th), ~Clear(th), ~XferRest(th) PROVE OneOwner'
  <2>1. wr_rdy' = wr_rdy /\ busy' = busy
    BY <1>4, Zenon DEF Send, Spin, Waited, FillHead, FillTail, TakeBus, WaitForBus, XferHead, Return
  <2>2. \A x \in Threads \ {th} : Has(x)' <=> Has(x)
    BY <1>4, SendMoves DEF Has
  <2>3. Has(th)' <=> Has(th)
    <3>1. \/ pc[th] \in Sending /\ pc'[th] \in Sending /\ frag' = frag
          \/ pc[th] \notin Sending /\ pc'[th] \notin Sending
      BY <1>4, SendMoves DEF Sending, Return
    <3>2. QED
      BY <3>1 DEF Has
  <2>4. QED
    BY <1>s, <2>1, <2>2, <2>3, OwnersSame
<1>5. ASSUME NEW th \in Threads, XferRest(th) PROVE OneOwner'
  <2>1. /\ pc[th] = "rest" /\ pc'[th] = After(th) /\ wr_rdy' = wr_rdy
        /\ After(th) \in {"idle", "wait", "ok"}
    BY <1>5, RestMoves DEF After
  <2>2. wire = Mine(th)
    BY <2>1 DEF Lookers, Looks
  <2>3. \A x \in Threads \ {th} : Has(x)' <=> Has(x)
    <3>1. ASSUME NEW x \in Threads \ {th} PROVE Has(x)' <=> Has(x)
      <4>1. frag'[x] = frag[x] /\ pc'[x] = (IF PassedTo(x) THEN "xfer" ELSE pc[x])
        BY <1>5, RestMoves
      <4>2. QED
        BY <4>1, PassedBlocked DEF Has, Sending
    <3>2. QED
      BY <3>1
  <2>4. CASE frag[th] = 0
    <3>1. busy' = busy
      BY <1>5, <2>2, <2>4 DEF XferRest, IsRead, Mine
    <3>2. ~Has(th) /\ ~Has(th)'
      BY <2>1, <2>4 DEF Has, Sending
    <3>3. QED
      BY <1>s, <2>1, <2>3, <3>1, <3>2, OwnersSame
  <2>5. CASE frag[th] # 0
    <3>1. Owners = {th}
      BY <2>1, <2>5 DEF OneOwner, Owners
    <3>2. ~wr_rdy /\ \A x \in Threads \ {th} : ~Has(x)
      BY <3>1 DEF Owners, Has, Sending, Holding, Threads
    <3>3. ~wr_rdy'
      BY <2>1, <3>2, Zenon
    <3>4. busy' = TRUE
      BY <1>5, <2>2, <2>5 DEF XferRest, IsRead, Mine
    <3>5. \A x \in Threads : ~Has(x)'
      <4>1. pc'[th] \notin Sending
        BY <2>1 DEF Sending
      <4>2. QED
        BY <2>3, <3>2, <4>1 DEF Has
    <3>6. Owners' = {"ESP8266"}
      BY <3>3, <3>4, <3>5 DEF Owners, Has, Sending, Holding
    <3>7. QED
      BY <3>6 DEF OneOwner
  <2>6. QED
    BY <2>4, <2>5
<1>6. QED
  BY <1>1, <1>2, <1>3, <1>4, <1>5, StepsOf

\* Histories are never forgotten.
LEMMA HistoryStays == TypeOK /\ Next => (~clashed' => ~clashed) /\ (~gaveUp' => ~gaveUp)
<1> SUFFICES ASSUME TypeOK, Next PROVE (~clashed' => ~clashed) /\ (~gaveUp' => ~gaveUp)
  OBVIOUS
<1>1. CASE Ready
  BY <1>1, Zenon DEF Ready, history
<1>2. ASSUME NEW th \in Threads, Begins(th)
      PROVE  (~clashed' => ~clashed) /\ (~gaveUp' => ~gaveUp)
  BY <1>2, Zenon DEF Begins, Use
<1>3. ASSUME NEW th \in Threads, Send(th)
      PROVE  (~clashed' => ~clashed) /\ (~gaveUp' => ~gaveUp)
  <2>1. ~Clear(th) => clashed' = clashed /\ gaveUp' = gaveUp
    BY <1>3 DEF Send, Spin, Waited, FillHead, FillTail, TakeBus, WaitForBus, XferHead, XferRest,
                Return, history
  <2>2. Clear(th) => clashed' = clashed /\ gaveUp' = (gaveUp \/ (t[th] = 0 /\ wr_rdy))
    BY Zenon DEF Clear
  <2>3. ASSUME clashed' = clashed, gaveUp' = gaveUp
        PROVE  (~clashed' => ~clashed) /\ (~gaveUp' => ~gaveUp)
    BY <2>3, Zenon
  <2>4. ASSUME clashed' = clashed, gaveUp' = (gaveUp \/ (t[th] = 0 /\ wr_rdy))
        PROVE  (~clashed' => ~clashed) /\ (~gaveUp' => ~gaveUp)
    BY <2>4, Zenon
  <2>5. QED
    BY <2>1, <2>2, <2>3, <2>4, Zenon
<1>4. QED
  BY <1>1, <1>2, <1>3, StepsOf

\* Every step keeps the one right.
LEMMA TokenStep == IInv /\ [Next]_vars => TokenInv'
<1> SUFFICES ASSUME IInv, [Next]_vars, ~clashed', ~gaveUp' PROVE OneOwner' /\ Lookers'
  BY Zenon DEF TokenInv
<1>0. TypeOK /\ LinkInv
  BY DEF IInv, PacketInv
<1>1. CASE Next
  <2>1. ~clashed /\ ~gaveUp
    BY <1>0, <1>1, HistoryStays, Zenon
  <2>2. OneOwner /\ Lookers
    BY <2>1, Zenon DEF IInv, TokenInv
  <2>3. Lookers'
    BY <1>0, <1>1, <2>2, LookersStep
  <2>4. OneOwner'
    BY <1>0, <1>1, <2>2, OwnerStep
  <2>5. QED
    BY <2>3, <2>4
<1>2. CASE UNCHANGED vars
  BY <1>2, Zenon DEF IInv, TokenInv, OneOwner, Owners, Lookers, Looks, Mine, vars, threadVars,
                     history
<1>3. QED
  BY <1>1, <1>2

\* The right to write has one owner, unless a sender gave up just when wr_rdy came
\* or a thread came between the look at wr_rdy and the transfer of one below it.
THEOREM OneRightToWrite == Spec => []ReadyKept
<1>1. Init => IInv
  BY TypeInit, LinkInit, TokenInit DEF IInv
<1>2. IInv /\ [Next]_vars => IInv'
  BY TypeStep, PacketStep, TokenStep DEF IInv
<1>3. IInv => ReadyKept
  BY Zenon DEF IInv, TokenInv, OneOwner, ReadyKept
<1>4. QED
  BY <1>1, <1>2, <1>3, PTL DEF Spec

-----------------------------------------------------------------------------
(* The safety part of SendEnds *)

\* A sender that may run goes on unless it waits for the bus: in the wait for
\* wr_rdy there is a turn to take or the wait is over, and at the bus it finds it
\* free or joins the queue.
MayStep(th) == MayRun(th) /\ pc[th] \notin {"idle", "blocked"}

\* Senders wait for the bus or the processor only while one of them goes on.
NeverAllStuck ==
  (\E th \in Threads : pc[th] # "idle") => \E th \in Threads : MayStep(th)

StepsLeft ==
  [idle |-> 0, ok |-> 1, failed |-> 1, rest |-> 2, xfer |-> 3, blocked |-> 4, take |-> 5,
   tail |-> 6, head |-> 7, clear |-> 8, wait |-> 9]

\* A bound on the steps a sender has yet to take.
Work(th) == t[th] + 9 * (num[th] - frag[th]) + StepsLeft[pc[th]]

\* Each step of a sender leaves it less to do, and nothing the other threads or the
\* ESP8266 do leaves it more.
SenderGoesOn ==
  \A th \in Threads :
    pc[th] # "idle" =>
      /\ Work(th)' <= Work(th)
      /\ Send(th) => Work(th)' < Work(th)

\* There is only so much for it to do.
WorkBounded == \A th \in Threads : Work(th) \in 0..(Spins + 9 * (MaxNum + 1))

\* The bus is held by a thread in its transfer, which waits for nothing and has the
\* priority of those who wait for it; without one, the highest thread runs.
THEOREM NoDeadlock == Spec => []NeverAllStuck
<1>1. TypeOK /\ PacketInv => NeverAllStuck
  <2> SUFFICES ASSUME TypeOK, PacketInv, NEW o \in Threads, pc[o] # "idle"
               PROVE  \E th \in Threads : MayStep(th)
    BY DEF NeverAllStuck
  <2>1. \A th \in Threads : bus = th <=> pc[th] \in Transferring
    BY DEF PacketInv, LinkInv, BusHeld
  <2>2. \A th \in Threads : pc[th] # "idle" /\ (\A u \in Higher[th] : pc[u] = "idle")
                            /\ pc[th] # "blocked" => MayStep(th)
    BY DEF MayStep, MayRun
  <2>3. CASE \A th \in Threads : pc[th] # "blocked"
    BY <2>2, <2>3, HigherFacts DEF Threads
  <2>4. CASE \E th \in Threads : pc[th] = "blocked"
    <3>1. bus \in {"info", "tshell"} /\ pc[bus] \in Transferring
      BY <2>1, <2>4 DEF PacketInv, LinkInv, QueueInv, Suspended, Threads
    <3>2. CASE pc["wifi"] = "blocked"
      <4>1. MayRun(bus)
        BY <3>1, <3>2, HigherFacts DEF MayRun, BlockedBy, Threads
      <4>2. QED
        BY <3>1, <4>1 DEF MayStep, Transferring, Threads
    <3>3. CASE pc["wifi"] = "idle" /\ bus = "tshell" /\ pc["info"] = "blocked"
      <4>1. MayRun("tshell")
        BY <3>3, HigherFacts DEF MayRun, BlockedBy, Threads
      <4>2. QED
        BY <3>1, <3>3, <4>1 DEF MayStep, Transferring, Threads
    <3>4. CASE pc["wifi"] \notin {"idle", "blocked"}
      BY <2>2, <3>4, HigherFacts DEF Threads
    <3>5. QED
      BY <2>4, <3>1, <3>2, <3>3, <3>4 DEF PacketInv, LinkInv, QueueInv, Suspended, Threads
  <2>5. QED
    BY <2>3, <2>4
<1>2. QED
  BY <1>1, PacketAlways, PTL

\* The numbers that Work is made of.
LEMMA WorkTypes ==
  ASSUME TypeOK, PacketInv, NEW th \in Threads
  PROVE  /\ t[th] \in 0..Spins /\ num[th] \in 0..MaxNum /\ frag[th] \in 0..num[th]
         /\ StepsLeft[pc[th]] \in 0..9
<1>1. t[th] \in 0..Spins /\ num[th] \in 0..MaxNum /\ frag[th] \in 0..MaxNum
  BY TypeParts DEF DataOK
<1>2. frag[th] <= num[th]
  BY DEF PacketInv, LinkInv, Locals
<1>3. StepsLeft[pc[th]] \in 0..9
  BY TypeParts DEF DataOK, StepsLeft, Holding
<1>4. QED
  BY <1>1, <1>2, <1>3, Bounds

\* The work is bounded by the turns and the fragments of a packet.
THEOREM SendBounded == Spec => []WorkBounded
<1>1. TypeOK /\ PacketInv => WorkBounded
  <2> SUFFICES ASSUME TypeOK, PacketInv, NEW th \in Threads
               PROVE  Work(th) \in 0..(Spins + 9 * (MaxNum + 1))
    BY DEF WorkBounded
  <2>1. QED
    BY WorkTypes, Bounds DEF Work
<1>2. QED
  BY <1>1, PacketAlways, PTL

\* A step of another thread leaves its locals alone; at most it passes it the bus.
LEMMA OthersWork ==
  ASSUME TypeOK, PacketInv, NEW th \in Threads, NEW o \in Threads, o # th, Send(o) \/ Begins(o)
  PROVE  Work(th)' <= Work(th)
<1>1. /\ t'[th] = t[th] /\ num'[th] = num[th] /\ frag'[th] = frag[th]
      /\ pc'[th] = pc[th] \/ (pc[th] = "blocked" /\ pc'[th] = "xfer")
  BY BeginMoves, SendMoves, RestMoves, PassedBlocked DEF PacketInv
<1>2. /\ t[th] \in Nat /\ num[th] \in Nat /\ frag[th] \in Nat /\ StepsLeft[pc[th]] \in Nat
  BY WorkTypes, Bounds
<1>3. StepsLeft[pc'[th]] \in Nat /\ StepsLeft[pc'[th]] <= StepsLeft[pc[th]]
  <2>1. StepsLeft["xfer"] = 3 /\ StepsLeft["blocked"] = 4
    BY DEF StepsLeft
  <2>2. QED
    BY <1>1, <1>2, <2>1
<1>4. Work(th)' = t[th] + 9 * (num[th] - frag[th]) + StepsLeft[pc'[th]]
  BY <1>1 DEF Work
<1>5. QED
  BY <1>2, <1>3, <1>4 DEF Work

\* Its own steps leave it less to do.
LEMMA OwnWork ==
  ASSUME TypeOK, PacketInv, NEW th \in Threads, Send(th)
  PROVE  Work(th)' < Work(th)
<1>t. DataOK
  BY TypeParts
<1>1. /\ t[th] \in Nat /\ num[th] \in Nat /\ frag[th] \in Nat /\ frag[th] <= num[th]
      /\ StepsLeft[pc[th]] \in Nat
  BY WorkTypes, Bounds
<1>2. Work(th)' = t'[th] + 9 * (num'[th] - frag'[th]) + StepsLeft[pc'[th]]
  BY DEF Work
<1>3. ASSUME NEW p, pc'[th] = p, t'[th] = t[th], num'[th] = num[th], frag'[th] = frag[th],
             StepsLeft[p] \in Nat, StepsLeft[p] < StepsLeft[pc[th]]
      PROVE  Work(th)' < Work(th)
  BY <1>1, <1>2, <1>3 DEF Work
<1>4. CASE Spin(th)
  <2>1. /\ t'[th] = t[th] - 1 /\ UNCHANGED <<pc, num, frag>>
    BY <1>4, <1>t DEF Spin, DataOK
  <2>2. QED
    BY <1>1, <1>2, <2>1 DEF Work
<1>5. CASE Return(th)
  <2>1. /\ pc[th] \in {"ok", "failed"} /\ pc'[th] = "idle"
        /\ t'[th] = 0 /\ num'[th] = 0 /\ frag'[th] = 0
    BY <1>5, <1>t DEF Return, Goto, DataOK
  <2>2. StepsLeft[pc'[th]] = 0 /\ StepsLeft[pc[th]] = 1
    BY <2>1 DEF StepsLeft
  <2>3. QED
    BY <1>1, <1>2, <2>1, <2>2 DEF Work
<1>6. CASE XferRest(th)
  <2>1. /\ pc[th] = "rest" /\ pc'[th] = After(th) /\ t'[th] = t[th] /\ num'[th] = num[th]
        /\ frag'[th] = IF After(th) = "wait" THEN frag[th] + 1 ELSE frag[th]
    BY <1>6, RestMoves
  <2>2. CASE After(th) = "wait"
    <3>1. frag[th] < num[th]
      BY <2>2 DEF After
    <3>2. StepsLeft[pc'[th]] = 9 /\ StepsLeft[pc[th]] = 2 /\ frag'[th] = frag[th] + 1
      BY <2>1, <2>2 DEF StepsLeft
    <3>3. QED
      BY <1>1, <1>2, <2>1, <3>1, <3>2 DEF Work
  <2>3. CASE After(th) # "wait"
    <3>1. pc'[th] \in {"idle", "ok"} /\ frag'[th] = frag[th]
      BY <2>1, <2>3 DEF After
    <3>2. StepsLeft[pc'[th]] \in {0, 1} /\ StepsLeft[pc[th]] = 2
      BY <2>1, <3>1 DEF StepsLeft
    <3>3. QED
      BY <1>3, <2>1, <3>1, <3>2
  <2>4. QED
    BY <2>2, <2>3
<1>7. CASE ~Spin(th) /\ ~Return(th) /\ ~XferRest(th)
  <2>1. /\ t'[th] = t[th]
        /\ num'[th] = num[th] /\ frag'[th] = frag[th]
    BY <1>7 DEF Send, Waited, Clear, FillHead, FillTail, TakeBus, WaitForBus, XferHead
  <2>2. \/ pc[th] = "wait" /\ pc'[th] = "clear"
        \/ pc[th] = "clear" /\ pc'[th] \in {"failed", "head"}
        \/ pc[th] = "head" /\ pc'[th] = "tail"
        \/ pc[th] = "tail" /\ pc'[th] = "take"
        \/ pc[th] = "take" /\ pc'[th] \in {"xfer", "blocked"}
        \/ pc[th] = "xfer" /\ pc'[th] = "rest"
    BY <1>7, SendMoves
  <2>3. StepsLeft[pc'[th]] \in Nat /\ StepsLeft[pc'[th]] < StepsLeft[pc[th]]
    BY <2>2 DEF StepsLeft
  <2>4. QED
    BY <1>3, <2>1, <2>3
<1>8. QED
  BY <1>4, <1>5, <1>6, <1>7

\* With every step a sender takes, less is left of its packet, and nothing else
\* gives it more to do: it cannot be kept for ever from coming to its end, be it
\* that the packet was sent or that its turns were used up.
THEOREM SendShortens == Spec => [][SenderGoesOn]_vars
<1>1. TypeOK /\ PacketInv /\ [Next]_vars => [SenderGoesOn]_vars
  <2> SUFFICES ASSUME TypeOK, PacketInv, Next, NEW th \in Threads, pc[th] # "idle"
               PROVE  /\ Work(th)' <= Work(th)
                      /\ Send(th) => Work(th)' < Work(th)
    BY DEF SenderGoesOn
  <2>1. Work(th) \in Int
    BY WorkTypes, Bounds DEF Work
  <2>2. CASE Send(th)
    <3>1. Work(th)' < Work(th)
      BY <2>2, OwnWork
    <3>2. Work(th)' \in Int
      <4>1. DataOK'
        BY TypeStep, TypeParts, PTL
      <4>2. t'[th] \in 0..Spins /\ num'[th] \in 0..MaxNum /\ frag'[th] \in 0..MaxNum
            /\ pc'[th] \in Holding \cup {"idle", "wait", "rest", "ok", "failed"}
        BY <4>1 DEF DataOK
      <4>3. StepsLeft[pc'[th]] \in 0..9
        BY <4>2 DEF StepsLeft, Holding
      <4>4. QED
        BY <4>2, <4>3, Bounds DEF Work
    <3>3. QED
      BY <2>1, <3>1, <3>2
  <2>3. CASE ~Send(th)
    <3>1. CASE Ready
      <4>1. Work(th)' = Work(th)
        BY <3>1 DEF Ready, threadVars, Work
      <4>2. QED
        BY <2>1, <2>3, <4>1
    <3>2. ASSUME NEW o \in Threads, Send(o) \/ Begins(o)
          PROVE  Work(th)' <= Work(th)
      <4>1. o # th
        BY <2>3, <3>2 DEF Begins
      <4>2. QED
        BY <3>2, <4>1, OthersWork
    <3>3. QED
      BY <2>3, <3>1, <3>2, StepsOf
  <2>4. QED
    BY <2>2, <2>3
<1>2. QED
  BY <1>1, PacketAlways, PTL DEF Spec
=============================================================================
