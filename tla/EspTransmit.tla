---------------------------- MODULE EspTransmit ----------------------------
(***************************************************************************)
(* The sending half of the ESP8266 link (esp8266.c): esp8266_spi_write     *)
(* waits for wr_rdy before each fragment of a packet, clears it, and has   *)
(* esp8266_spi_transmit put the fragment into its one static buffer and    *)
(* transfer it under the lock of the SPI bus.  Three threads use the link:  *)
(*   wifi   (priority  5) reads what the ESP8266 has for it and sends the  *)
(*          answers to the server;                                         *)
(*   info   (esp8266_info_get, 16) sends the commands of the boot;         *)
(*   tshell (20) sends the commands typed.                                 *)
(* A thread is preempted by those above it.  It runs while they wait for   *)
(* an event or for the bus it holds, whose lock lends it their priority;   *)
(* the wait for wr_rdy is a busy one.  A step ends where a preemption can  *)
(* be told apart; the buffer and the transfer are cut in two, so that a    *)
(* preemption may find them half done.                                     *)
(***************************************************************************)
EXTENDS Integers, Sequences

CONSTANTS
  Spins,     \* turns of the wait a packet may take in all (50000)
  MaxNum,    \* bound: fragments of a packet
  MaxUses    \* bound: packets a thread sends and fragments it reads, for each

Threads == {"wifi", "info", "tshell"}

ASSUME BoundAssumption == /\ Spins \in Nat \ {0}
                          /\ MaxNum \in Nat \ {0}
                          /\ MaxUses \in [Threads -> Nat]

\* The threads of higher priority.
Higher == [wifi |-> {}, info |-> {"wifi"}, tshell |-> {"wifi", "info"}]

\* What a thread puts into a part of the buffer: fragment i of its packet with
\* the command to write, or the command to read, which has no data.
Part    == [by : Threads, i : 0..MaxNum]
NoPart  == [by |-> "none", i |-> 0]
IsRead(part) == part.i = 0

VARIABLES
  wr_rdy,
  writeBuf,   \* esp8266_writeBuf: its head, with the command, and its tail
  bus,        \* who holds the lock of the SPI bus
  queue,      \* who waits for it, first come first
  wire,       \* the head of the transfer under way
  busy,       \* the ESP8266 is at work on a fragment
  pc,         \* where each thread is,
  num,        \*   the fragments of its packet,
  frag,       \*   the one it is at, 0 for a read,
  t,          \*   and the turns of the wait left to it
  uses,       \* packets and reads of each thread so far
  heard,      \* history: the transfers since the last start bit
  disturbed,  \* history: a thread above it used the link during the packet it is at
  clashed,    \* history: one once did when the thread below it held wr_rdy
  gaveUp      \* history: a sender once gave up just when wr_rdy came

threadVars == <<pc, num, frag, t>>
history    == <<uses, heard, disturbed, clashed, gaveUp>>
vars       == <<wr_rdy, writeBuf, bus, queue, wire, busy, threadVars, history>>

Init ==
  /\ wr_rdy = TRUE
  /\ writeBuf = [head |-> NoPart, tail |-> NoPart]
  /\ bus = "free"
  /\ queue = <<>>
  /\ wire = NoPart
  /\ busy = FALSE
  /\ pc = [th \in Threads |-> "idle"]
  /\ num = [th \in Threads |-> 0]
  /\ frag = [th \in Threads |-> 0]
  /\ t = [th \in Threads |-> 0]
  /\ uses = [th \in Threads |-> 0]
  /\ heard = <<>>
  /\ disturbed = [th \in Threads |-> FALSE]
  /\ clashed = FALSE /\ gaveUp = FALSE

-----------------------------------------------------------------------------
\* Thread u is suspended until th releases the bus.
BlockedBy(u, th) == pc[u] = "blocked" /\ bus = th

\* Fault: the wait for wr_rdy sleeps instead of being busy.
MayRunInWait(th) ==
  \A u \in Higher[th] :
    \/ pc[u] \in {"idle", "wait"}
    \/ \E v \in {u} \cup Higher[u] : BlockedBy(v, th)

\* A thread runs when each one above it is idle or has to let it pass: because it
\* waits for the lock th holds, or because one above both does, which lends th
\* its priority.
MayRun(th) ==
  \A u \in Higher[th] :
    pc[u] = "idle" \/ \E v \in {u} \cup Higher[u] : BlockedBy(v, th)

Goto(th, p) == pc' = [pc EXCEPT ![th] = p]

Mine(th) == [by |-> th, i |-> frag[th]]

\* Between its look at wr_rdy and the first byte of its transfer, a thread acts
\* for the fragment that wr_rdy lets through.
Holding == {"clear", "head", "tail", "take", "blocked", "xfer"}

Below(th) == {l \in Threads : th \in Higher[l]}

\* The link is used once more; the packets of lower threads that this comes into
\* are kept in mind.
Use(th) ==
  /\ uses[th] < MaxUses[th]
  /\ uses' = [uses EXCEPT ![th] = @ + 1]
  /\ disturbed' = [l \in Threads |-> disturbed[l] \/ (l \in Below(th) /\ pc[l] # "idle")]
  /\ clashed' = (clashed \/ \E l \in Below(th) : pc[l] \in Holding)
  /\ UNCHANGED <<heard, gaveUp>>

\* esp8266_spi_write begins a packet of n fragments.
Write(th, n) ==
  /\ MayRun(th) /\ pc[th] = "idle"
  /\ Use(th)
  /\ Goto(th, "wait")
  /\ num' = [num EXCEPT ![th] = n]
  /\ frag' = [frag EXCEPT ![th] = 1]
  /\ t' = [t EXCEPT ![th] = Spins]
  /\ UNCHANGED <<wr_rdy, writeBuf, bus, queue, wire, busy>>

\* esp8266_spi_read, which wifi alone calls, waits for nothing.
ReadFragment ==
  /\ pc["wifi"] = "idle"
  /\ Use("wifi")
  /\ Goto("wifi", "head")
  /\ num' = [num EXCEPT !["wifi"] = 0]
  /\ frag' = [frag EXCEPT !["wifi"] = 0]
  /\ UNCHANGED <<t, wr_rdy, writeBuf, bus, queue, wire, busy>>

\* Fault: the turns are not counted.
SpinUncounted(th) ==
  /\ MayRun(th) /\ pc[th] = "wait"
  /\ ~wr_rdy /\ t[th] > 0
  /\ UNCHANGED vars

\* A turn of the wait; its count goes on from fragment to fragment.
Spin(th) ==
  /\ MayRun(th) /\ pc[th] = "wait"
  /\ ~wr_rdy /\ t[th] > 0
  /\ t' = [t EXCEPT ![th] = t[th] - 1]
  /\ UNCHANGED <<wr_rdy, writeBuf, bus, queue, wire, busy, pc, num, frag, history>>

\* The wait is over: wr_rdy was seen or the turns are used up.
Waited(th) ==
  /\ MayRun(th) /\ pc[th] = "wait"
  /\ wr_rdy \/ t[th] = 0
  /\ Goto(th, "clear")
  /\ UNCHANGED <<wr_rdy, writeBuf, bus, queue, wire, busy, num, frag, t, history>>

\* Fault: wr_rdy stays set.
ClearForgotten(th) ==
  /\ MayRun(th) /\ pc[th] = "clear"
  /\ Goto(th, IF t[th] = 0 THEN "failed" ELSE "head")
  /\ UNCHANGED <<wr_rdy, writeBuf, bus, queue, wire, busy, num, frag, t, history>>

\* Fault: a packet that was given up is reported sent.
ClearReportsSent(th) ==
  /\ MayRun(th) /\ pc[th] = "clear"
  /\ wr_rdy' = FALSE
  /\ gaveUp' = (gaveUp \/ (t[th] = 0 /\ wr_rdy))
  /\ Goto(th, IF t[th] = 0 THEN "ok" ELSE "head")
  /\ UNCHANGED <<writeBuf, bus, queue, wire, busy, num, frag, t, uses, heard, disturbed, clashed>>

\* wr_rdy is cleared whichever it was; without turns left the packet is given up.
Clear(th) ==
  /\ MayRun(th) /\ pc[th] = "clear"
  /\ wr_rdy' = FALSE
  /\ gaveUp' = (gaveUp \/ (t[th] = 0 /\ wr_rdy))
  /\ Goto(th, IF t[th] = 0 THEN "failed" ELSE "head")
  /\ UNCHANGED <<writeBuf, bus, queue, wire, busy, num, frag, t, uses, heard, disturbed, clashed>>

\* esp8266_spi_transmit fills its buffer before it asks for the bus.
FillHead(th) ==
  /\ MayRun(th) /\ pc[th] = "head"
  /\ writeBuf' = [writeBuf EXCEPT !.head = Mine(th)]
  /\ Goto(th, "tail")
  /\ UNCHANGED <<wr_rdy, bus, queue, wire, busy, num, frag, t, history>>

FillTail(th) ==
  /\ MayRun(th) /\ pc[th] = "tail"
  /\ writeBuf' = [writeBuf EXCEPT !.tail = Mine(th)]
  /\ Goto(th, "take")
  /\ UNCHANGED <<wr_rdy, bus, queue, wire, busy, num, frag, t, history>>

\* rt_spi_transfer_message takes the lock of the bus.
TakeBus(th) ==
  /\ MayRun(th) /\ pc[th] = "take"
  /\ bus = "free"
  /\ bus' = th
  /\ Goto(th, "xfer")
  /\ UNCHANGED <<wr_rdy, writeBuf, queue, wire, busy, num, frag, t, history>>

\* A bus that is held suspends it, behind those that wait already.
WaitForBus(th) ==
  /\ MayRun(th) /\ pc[th] = "take"
  /\ bus # "free"
  /\ queue' = Append(queue, th)
  /\ Goto(th, "blocked")
  /\ UNCHANGED <<wr_rdy, writeBuf, bus, wire, busy, num, frag, t, history>>

\* The transfer begins with what is in the buffer by now.
XferHead(th) ==
  /\ MayRun(th) /\ pc[th] = "xfer"
  /\ wire' = writeBuf.head
  /\ Goto(th, "rest")
  /\ UNCHANGED <<wr_rdy, writeBuf, bus, queue, busy, num, frag, t, history>>

\* Fault: one fragment too many.
AfterOneMore(th) ==
  IF frag[th] = 0 THEN "idle" ELSE IF frag[th] <= num[th] THEN "wait" ELSE "ok"

\* Where a thread goes on after a fragment.
After(th) ==
  IF frag[th] = 0 THEN "idle" ELSE IF frag[th] < num[th] THEN "wait" ELSE "ok"

\* The bus passes to the first one in the queue.
PassedTo(u) == queue # <<>> /\ u = Head(queue)

\* The next fragment, if there is one.
AfterFragment(th) ==
  /\ pc' = [u \in Threads |-> IF u = th THEN After(th)
                              ELSE IF PassedTo(u) THEN "xfer" ELSE pc[u]]
  /\ frag' = [frag EXCEPT ![th] = IF After(th) = "wait" THEN @ + 1 ELSE @]

\* The transfer is over; the bus is free or passes to the one that waited longest.
\* The head says whether the ESP8266 was written to, which then has work, or read.
XferRest(th) ==
  /\ MayRun(th) /\ pc[th] = "rest"
  /\ IF queue = <<>> THEN bus' = "free" /\ UNCHANGED queue
                     ELSE bus' = Head(queue) /\ queue' = Tail(queue)
  /\ IF IsRead(wire)
       THEN UNCHANGED <<busy, heard>>
       ELSE LET transfer == [head |-> wire, tail |-> writeBuf.tail]
            IN  /\ busy' = TRUE
                /\ heard' = IF wire.i = 1 THEN <<transfer>> ELSE Append(heard, transfer)
  /\ wire' = NoPart
  /\ AfterFragment(th)
  /\ UNCHANGED <<wr_rdy, writeBuf, num, t, uses, disturbed, clashed, gaveUp>>

\* esp8266_spi_write returns; its locals are gone.
Return(th) ==
  /\ MayRun(th) /\ pc[th] \in {"ok", "failed"}
  /\ Goto(th, "idle")
  /\ num' = [num EXCEPT ![th] = 0]
  /\ frag' = [frag EXCEPT ![th] = 0]
  /\ t' = [t EXCEPT ![th] = 0]
  /\ disturbed' = [disturbed EXCEPT ![th] = FALSE]
  /\ UNCHANGED <<wr_rdy, writeBuf, bus, queue, wire, busy, uses, heard, clashed, gaveUp>>

\* The ESP8266 is done with the fragment and raises GPIO4: EXTI9_5_IRQHandler.
Ready ==
  /\ busy
  /\ busy' = FALSE
  /\ wr_rdy' = TRUE
  /\ UNCHANGED <<writeBuf, bus, queue, wire, threadVars, history>>

-----------------------------------------------------------------------------
Send(th) ==
  \/ Spin(th) \/ Waited(th) \/ Clear(th)
  \/ FillHead(th) \/ FillTail(th) \/ TakeBus(th) \/ WaitForBus(th)
  \/ XferHead(th) \/ XferRest(th) \/ Return(th)

Next ==
  \/ \E th \in Threads : Send(th) \/ \E n \in 1..MaxNum : Write(th, n)
  \/ ReadFragment
  \/ Ready

Spec == Init /\ [][Next]_vars

\* A thread that may run goes on; nothing is assumed of the ESP8266.
FairSpec == Spec /\ \A th \in Threads : WF_vars(Send(th))

-----------------------------------------------------------------------------
Parts == Part \cup {NoPart}

TypeOK ==
  /\ wr_rdy \in BOOLEAN /\ busy \in BOOLEAN
  /\ writeBuf \in [head : Parts, tail : Parts] /\ wire \in Parts
  /\ bus \in Threads \cup {"free"} /\ queue \in Seq(Threads)
  /\ pc \in [Threads -> Holding \cup {"idle", "wait", "rest", "ok", "failed"}]
  /\ num \in [Threads -> 0..MaxNum] /\ frag \in [Threads -> 0..MaxNum]
  /\ t \in [Threads -> 0..Spins]
  /\ uses \in [Threads -> Nat] /\ \A th \in Threads : uses[th] <= MaxUses[th]
  /\ heard \in Seq([head : Parts, tail : Parts])
  /\ disturbed \in [Threads -> BOOLEAN] /\ clashed \in BOOLEAN /\ gaveUp \in BOOLEAN

\* The packet of a thread as its receiver hears it when nothing goes wrong.
Whole(th) ==
  heard = [i \in 1..num[th] |->
             [head |-> [by |-> th, i |-> i], tail |-> [by |-> th, i |-> i]]]

\* A packet wifi reports sent was transferred fragment by fragment, each with its
\* own bytes and no other thread's in between, though info and tshell may have
\* been preempted anywhere, with the one buffer half filled or half transferred.
WifiSendsWhole == pc["wifi"] = "ok" => Whole("wifi")

\* The same holds for a packet of info while wifi leaves the link alone, whatever
\* info preempted tshell at, and for one of tshell while both leave it alone.
LowSendsWhole ==
  \A th \in {"info", "tshell"} : pc[th] = "ok" /\ ~disturbed[th] => Whole(th)

\* Who has the one right to write to the ESP8266.
Owners ==
  {o \in {"wr_rdy", "ESP8266"} : IF o = "wr_rdy" THEN wr_rdy ELSE busy}
    \cup {th \in Threads : pc[th] \in (Holding \ {"clear"}) \cup {"rest"} /\ frag[th] # 0}

\* The right to write is neither lost nor doubled, so that the ESP8266 is not
\* written to at work and can be written to after it, as long as no sender gives
\* up just when wr_rdy comes and no thread comes between the look at wr_rdy and
\* the transfer of one below it: wifi between those of info or tshell, info
\* between those of tshell.
ReadyKept == ~clashed /\ ~gaveUp => \E o \in Owners : Owners = {o}

\* Whatever happens, no sender waits for ever: each is idle again and again.
SendEnds == \A th \in Threads : []<>(pc[th] = "idle")
=============================================================================
