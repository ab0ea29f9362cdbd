--------------------------- MODULE WifiCmd_proofs ---------------------------
(***************************************************************************)
(* Proofs about the commands to the ESP8266, for every set of commands,    *)
(* every boot sequence and any number of typed commands and server packets.*)
(***************************************************************************)
EXTENDS WifiCmd, TLAPS

Places   == {"idle", "send", "wait", "compare", "verify", "lenth", "copy"}
Compared == {"verify", "lenth", "copy"}
Results  == {"timeout", "mismatch", "error"}

\* The request packet p answers.
RequestOf(p) == [cmd |-> p.cmd, num |-> p.num]

\* Packet p is the server's or answers a request that was carried out.
Answers(p) == p.cmd = Server \/ RequestOf(p) \in executed

LinkInv == \A i \in 1..Len(in) : Answers(in[i])

HeaderInv == Answers(header)

\* Between its comparison and its return a command has a packet of its own kind.
TookInv == \A t \in Threads :
  pc[t] \in Compared => took[t].cmd = asked[t].cmd /\ Answers(took[t])

\* A command that runs has returned nothing yet, and info runs one of the boot's.
RunInv == /\ \A t \in Threads : pc[t] # "idle" => ret[t] = "none"
          /\ pc["info"] # "idle" => step <= Len(Boot)

\* While the flag is up, every command that runs has seen a packet come.
FlagInv == is_recv_wifi_pack => \A t \in Threads : pc[t] # "idle" => fresh[t]

IInv == TypeOK /\ LinkInv /\ HeaderInv /\ TookInv /\ RunInv /\ FlagInv
        /\ AcceptedWasExecuted /\ TakesFreshPacket

LEMMA InitIInv == Init => IInv
<1> SUFFICES ASSUME Init PROVE IInv
  OBVIOUS
<1>1. TypeOK
  <2>1. NoPacket \in Packet
    BY DEF NoPacket, Packet
  <2>2. Len(Boot) \in Nat /\ 0 \in 0..(Tries - 1) /\ 0 \in 0..MaxServer
    BY CmdAssumption, BoundAssumption
  <2>3. asked \in [Threads -> Request]
    <3>1. \A c \in Cmds : [cmd |-> c, num |-> 0] \in Request
      BY DEF Request
    <3> QED BY <3>1 DEF Init
  <2>4. /\ is_recv_wifi_pack \in BOOLEAN /\ begun \in BOOLEAN
        /\ header \in Packet /\ data \in Packet
        /\ out \in Seq(Request) /\ in \in Seq(Packet)
        /\ executed \subseteq Request
    <3>1. <<>> \in Seq(Request) /\ <<>> \in Seq(Packet)
      OBVIOUS
    <3> QED BY <2>1, <3>1, Zenon DEF Init
  <2>5. /\ pc \in [Threads -> Places] /\ fresh \in [Threads -> BOOLEAN]
        /\ ret \in [Threads -> {"none", "ok", "timeout", "mismatch", "error"}]
    <3>1. "idle" \in Places /\ FALSE \in BOOLEAN
      BY DEF Places
    <3>2. "none" \in {"none", "ok", "timeout", "mismatch", "error"}
      OBVIOUS
    <3> QED BY <3>1, <3>2, Zenon DEF Init
  <2>6. tries \in [Threads -> 0..(Tries - 1)]
    BY <2>2, Zenon DEF Init
  <2>7. copied \in [Threads -> Packet] /\ took \in [Threads -> Packet]
    BY <2>1, Zenon DEF Init
  <2>8. step \in 1..(Len(Boot) + 1) /\ requests \in Nat /\ servers \in 0..MaxServer
    BY <2>2 DEF Init
  <2> QED BY <2>3, <2>4, <2>5, <2>6, <2>7, <2>8 DEF TypeOK, Places
<1>2. LinkInv /\ HeaderInv /\ TookInv /\ RunInv /\ FlagInv
  <2>1. LinkInv
    BY DEF Init, LinkInv
  <2>2. HeaderInv
    BY DEF Init, HeaderInv, Answers, NoPacket
  <2>3. \A t \in Threads : pc[t] = "idle"
    BY DEF Init
  <2>4. TookInv
    BY <2>3, Zenon DEF TookInv, Compared
  <2>5. RunInv /\ FlagInv
    BY <2>3 DEF RunInv, FlagInv, Threads
  <2> QED BY <2>1, <2>2, <2>4, <2>5
<1>3. AcceptedWasExecuted /\ TakesFreshPacket
  BY DEF Init, AcceptedWasExecuted, TakesFreshPacket
<1> QED BY <1>1, <1>2, <1>3 DEF IInv

-----------------------------------------------------------------------------
(* The commands *)

LEMMA AsksKeeps ==
  ASSUME IInv, NEW t \in Threads, NEW c \in Cmds, Begin(t, c) \/ NoMemory(t, c)
  PROVE  IInv'
<1>1. requests' \in Nat /\ asked' \in [Threads -> Request]
  <2> DEFINE q == [cmd |-> c, num |-> requests + 1]
  <2>1. requests' \in Nat /\ q \in Request
    BY DEF Begin, NoMemory, Asks, IInv, TypeOK, Request
  <2>2. asked' = [asked EXCEPT ![t] = q]
    BY DEF Begin, NoMemory, Asks
  <2> HIDE DEF q
  <2> QED BY <2>1, <2>2 DEF IInv, TypeOK
<1>2. t = "info" => step <= Len(Boot)
  BY DEF Begin, NoMemory, Asks, NextCmds, IInv, TypeOK
<1>3. CASE Begin(t, c)
  <2>1. TypeOK'
    BY <1>1, <1>3 DEF IInv, TypeOK, Begin, Asks, Goto, linkVars
  <2>2. LinkInv' /\ HeaderInv' /\ FlagInv'
    BY <1>3 DEF IInv, LinkInv, HeaderInv, FlagInv, Answers, RequestOf, Begin, Asks, linkVars
  <2>3. TookInv' /\ RunInv'
    BY <1>2, <1>3 DEF IInv, TypeOK, TookInv, RunInv, Compared, Answers, RequestOf, Begin, Asks,
                      Goto, linkVars, Threads
  <2>4. AcceptedWasExecuted' /\ TakesFreshPacket'
    BY <1>3 DEF IInv, TypeOK, AcceptedWasExecuted, TakesFreshPacket, Begin, Asks, Goto
  <2> QED BY <2>1, <2>2, <2>3, <2>4 DEF IInv
<1>4. CASE NoMemory(t, c)
  <2>1. TypeOK'
    BY <1>1, <1>2, <1>4, CmdAssumption DEF IInv, TypeOK, NoMemory, Asks, Return, Advanced, Goto, linkVars
  <2>2. LinkInv' /\ HeaderInv' /\ FlagInv'
    BY <1>4 DEF IInv, TypeOK, LinkInv, HeaderInv, FlagInv, Answers, RequestOf, NoMemory, Asks,
                Return, Goto, linkVars
  <2>3. TookInv' /\ RunInv'
    BY <1>4 DEF IInv, TypeOK, TookInv, RunInv, Compared, Answers, RequestOf, NoMemory, Asks,
                At, Return, Advanced, Goto, linkVars, Threads
  <2>4. AcceptedWasExecuted' /\ TakesFreshPacket'
    BY <1>4 DEF IInv, TypeOK, AcceptedWasExecuted, TakesFreshPacket, NoMemory, Asks, Return,
                Goto
  <2> QED BY <2>1, <2>2, <2>3, <2>4 DEF IInv
<1> QED BY <1>3, <1>4

LEMMA SendKeeps ==
  ASSUME IInv, NEW t \in Threads, Send(t)
  PROVE  IInv'
<1>1. out' \in Seq(Request)
  <2>1. out \in Seq(Request) /\ asked[t] \in Request
    BY DEF IInv, TypeOK
  <2> QED BY <2>1 DEF Send
<1>2. TypeOK'
  BY <1>1 DEF IInv, TypeOK, Send, Goto, recvVars
<1>3. LinkInv' /\ HeaderInv' /\ FlagInv' /\ TookInv' /\ RunInv'
  BY DEF IInv, TypeOK, LinkInv, HeaderInv, FlagInv, TookInv, RunInv, Compared, Answers,
         RequestOf, Send, At, Goto, recvVars
<1>4. AcceptedWasExecuted' /\ TakesFreshPacket'
  BY DEF IInv, TypeOK, AcceptedWasExecuted, TakesFreshPacket, Send, Goto
<1> QED BY <1>2, <1>3, <1>4 DEF IInv

LEMMA AcceptKeeps ==
  ASSUME IInv, NEW t \in Threads, Accept(t)
  PROVE  IInv'
<1>1. TypeOK'
  <2>1. tries' \in [Threads -> 0..(Tries - 1)]
    <3>1. 0 \in 0..(Tries - 1)
      BY BoundAssumption
    <3> QED BY <3>1, Zenon DEF Accept, IInv, TypeOK
  <2> QED BY <2>1 DEF IInv, TypeOK, Accept, Goto, linkVars
<1>2. LinkInv' /\ HeaderInv' /\ FlagInv' /\ TookInv' /\ RunInv'
  BY DEF IInv, TypeOK, LinkInv, HeaderInv, FlagInv, TookInv, RunInv, Compared, Answers,
         RequestOf, Accept, At, Goto, linkVars
<1>3. AcceptedWasExecuted' /\ TakesFreshPacket'
  BY DEF IInv, TypeOK, FlagInv, AcceptedWasExecuted, TakesFreshPacket, Accept, At, Goto
<1> QED BY <1>1, <1>2, <1>3 DEF IInv

\* A return of thread t that is not a success, and what it leaves alone.
LEMMA FailKeeps ==
  ASSUME IInv, NEW t \in Threads, pc[t] # "idle", NEW r \in Results, Return(t, r),
         tries' \in [Threads -> 0..(Tries - 1)],
         UNCHANGED <<recvVars, linkVars, asked, copied, requests, took, fresh, executed>>
  PROVE  IInv'
<1>1. step' \in 1..(Len(Boot) + 1)
  BY CmdAssumption DEF IInv, TypeOK, RunInv, Return, Advanced
<1>2. TypeOK'
  BY <1>1 DEF IInv, TypeOK, Results, Return, Goto, recvVars, linkVars
<1>3. LinkInv' /\ HeaderInv' /\ FlagInv'
  BY DEF IInv, TypeOK, LinkInv, HeaderInv, FlagInv, Answers, RequestOf, Return, Goto, recvVars,
         linkVars
<1>4. TookInv' /\ RunInv'
  BY DEF IInv, TypeOK, TookInv, RunInv, Compared, Answers, RequestOf, Return, Advanced, Goto,
         Threads
<1>5. AcceptedWasExecuted' /\ TakesFreshPacket'
  BY DEF IInv, TypeOK, AcceptedWasExecuted, TakesFreshPacket, Results, Return, Goto
<1> QED BY <1>2, <1>3, <1>4, <1>5 DEF IInv

\* A success of thread t: the packet it has compared answers its command.
LEMMA SucceedKeeps ==
  ASSUME IInv, NEW t \in Threads, pc[t] \in Compared, Return(t, "ok"),
         copied' \in [Threads -> Packet],
         UNCHANGED <<recvVars, linkVars, asked, tries, requests, took, fresh, executed>>
  PROVE  IInv'
<1>1. step' \in 1..(Len(Boot) + 1)
  BY CmdAssumption DEF IInv, TypeOK, RunInv, Return, Advanced, Compared
<1>2. TypeOK'
  BY <1>1 DEF IInv, TypeOK, Return, Goto, recvVars, linkVars
<1>3. LinkInv' /\ HeaderInv' /\ FlagInv'
  BY DEF IInv, TypeOK, LinkInv, HeaderInv, FlagInv, Answers, RequestOf, Return, Goto, recvVars,
         linkVars
<1>4. TookInv' /\ RunInv' /\ TakesFreshPacket'
  BY DEF IInv, TypeOK, TookInv, RunInv, TakesFreshPacket, Compared, Answers, RequestOf, Return,
         Advanced, Goto, Threads
<1>5. [cmd |-> asked[t].cmd, num |-> took[t].num] \in executed
  <2>1. asked[t].cmd \in Cmds
    BY DEF IInv, TypeOK, Request
  <2> QED BY <2>1, CmdAssumption DEF IInv, TookInv, Answers, RequestOf
<1>6. AcceptedWasExecuted'
  BY <1>5 DEF IInv, TypeOK, AcceptedWasExecuted, Return, Goto
<1> QED BY <1>2, <1>3, <1>4, <1>6 DEF IInv

\* Thread t goes on to another place after its comparison.
LEMMA GotoKeeps ==
  ASSUME IInv, NEW t \in Threads, pc[t] \in {"compare"} \cup Compared,
         NEW place \in Compared, Goto(t, place),
         took' = took \/ (pc[t] = "compare" /\ took' = [took EXCEPT ![t] = header]),
         took'[t].cmd = asked[t].cmd, Answers(took'[t]),
         UNCHANGED <<recvVars, linkVars, asked, tries, copied, ret, step, requests, fresh,
                     executed>>
  PROVE  IInv'
<1>1. TypeOK'
  BY DEF IInv, TypeOK, Compared, Goto, recvVars, linkVars
<1>2. LinkInv' /\ HeaderInv' /\ FlagInv' /\ RunInv'
  BY DEF IInv, TypeOK, LinkInv, HeaderInv, FlagInv, RunInv, Answers, RequestOf, Compared, Goto,
         recvVars, linkVars
<1>3. TookInv' /\ TakesFreshPacket'
  BY DEF IInv, TypeOK, TookInv, TakesFreshPacket, Answers, RequestOf, Compared, Goto
<1>4. AcceptedWasExecuted'
  BY DEF IInv, TypeOK, RunInv, Compared, AcceptedWasExecuted, Goto
<1> QED BY <1>1, <1>2, <1>3, <1>4 DEF IInv

LEMMA WaitKeeps ==
  ASSUME IInv, NEW t \in Threads, Wait(t)
  PROVE  IInv'
<1>1. tries' \in [Threads -> 0..(Tries - 1)]
  <2>1. tries \in [Threads -> 0..(Tries - 1)] /\ tries[t] \in 0..(Tries - 1)
    BY DEF IInv, TypeOK
  <2>2. 0 \in 0..(Tries - 1) /\ (tries[t] + 1 # Tries => tries[t] + 1 \in 0..(Tries - 1))
    BY <2>1, BoundAssumption
  <2>3. \/ tries' = [tries EXCEPT ![t] = 0]
        \/ tries[t] + 1 # Tries /\ tries' = [tries EXCEPT ![t] = tries[t] + 1]
    BY Zenon DEF Wait
  <2> QED BY <2>1, <2>2, <2>3, Zenon
<1>2. CASE tries[t] + 1 = Tries
  BY <1>1, <1>2, FailKeeps DEF Wait, At, Results
<1>3. CASE tries[t] + 1 # Tries
  <2>1. UNCHANGED <<recvVars, linkVars, asked, copied, requests, took, fresh, executed, pc, ret, step>>
    BY <1>3 DEF Wait
  <2> QED BY <1>1, <2>1 DEF IInv, TypeOK, LinkInv, HeaderInv, TookInv, RunInv, FlagInv, Answers,
                            RequestOf, AcceptedWasExecuted, TakesFreshPacket, recvVars, linkVars
<1> QED BY <1>2, <1>3

LEMMA CompareKeeps ==
  ASSUME IInv, NEW t \in Threads, Compare(t)
  PROVE  IInv'
<1>1. CASE header.cmd = asked[t].cmd
  <2>1. took' = [took EXCEPT ![t] = header] /\ took'[t] = header
    BY <1>1 DEF Compare, IInv, TypeOK
  <2>2. Goto(t, "verify") /\ pc[t] = "compare"
        /\ UNCHANGED <<recvVars, linkVars, asked, tries, copied, ret, step, requests, fresh,
                       executed>>
    BY <1>1 DEF Compare, At
  <2>3. took'[t].cmd = asked[t].cmd /\ Answers(took'[t])
    BY <1>1, <2>1 DEF IInv, HeaderInv
  <2> QED BY <2>1, <2>2, <2>3, GotoKeeps DEF Compared
<1>2. CASE header.cmd # asked[t].cmd
  <2>1. tries' \in [Threads -> 0..(Tries - 1)]
    BY DEF Compare, IInv, TypeOK
  <2> QED BY <1>2, <2>1, FailKeeps DEF Compare, At, Results
<1> QED BY <1>1, <1>2

LEMMA VerifyKeeps ==
  ASSUME IInv, NEW t \in Threads, Verify(t) \/ Lenth(t) \/ Copy(t)
  PROVE  IInv'
<1>1. pc[t] \in Compared
      /\ UNCHANGED <<recvVars, linkVars, asked, tries, requests, took, fresh, executed>>
  BY DEF Verify, Lenth, Copy, At, Compared
<1>2. tries' \in [Threads -> 0..(Tries - 1)] /\ copied' \in [Threads -> Packet]
  BY DEF Verify, Lenth, Copy, IInv, TypeOK
<1>3. took'[t].cmd = asked[t].cmd /\ Answers(took'[t])
  BY <1>1 DEF IInv, TookInv
<1>4. CASE Return(t, "error") /\ UNCHANGED copied
  BY <1>1, <1>2, <1>4, FailKeeps DEF Compared, Results
<1>5. CASE Return(t, "ok")
  BY <1>1, <1>2, <1>5, SucceedKeeps
<1>6. CASE Goto(t, "lenth") /\ UNCHANGED <<ret, step, copied>>
  BY <1>1, <1>3, <1>6, GotoKeeps DEF Compared
<1>7. CASE Goto(t, "copy") /\ UNCHANGED <<ret, step, copied>>
  BY <1>1, <1>3, <1>7, GotoKeeps DEF Compared
<1> QED BY <1>4, <1>5, <1>6, <1>7 DEF Verify, Lenth, Copy

-----------------------------------------------------------------------------
(* wifi and the ESP8266 *)

LEMMA TailIn ==
  ASSUME IInv, in # <<>>
  PROVE  /\ Head(in) \in Packet /\ Answers(Head(in))
         /\ Tail(in) \in Seq(Packet)
         /\ \A i \in 1..Len(Tail(in)) : Answers(Tail(in)[i])
<1>1. in \in Seq(Packet) /\ Len(in) > 0 /\ LinkInv
  BY DEF IInv, TypeOK
<1>2. Head(in) = in[1] /\ Len(Tail(in)) = Len(in) - 1
      /\ \A i \in 1..Len(Tail(in)) : Tail(in)[i] = in[i + 1]
  BY <1>1
<1>3. Answers(in[1]) /\ \A i \in 1..Len(Tail(in)) : Answers(in[i + 1])
  BY <1>1, <1>2 DEF LinkInv
<1>4. Head(in) \in Packet /\ Tail(in) \in Seq(Packet)
  BY <1>1
<1> QED BY <1>2, <1>3, <1>4

LEMMA ReadKeeps ==
  ASSUME IInv, ReadFirst \/ ReadLast \/ ReadLossy
  PROVE  IInv'
<1>1. in # <<>> /\ UNCHANGED <<out, servers, cmdVars, executed>>
  BY DEF ReadFirst, ReadLast, ReadLossy, linkVars
<1>2. in' \in {in, Tail(in)} /\ header' \in {header, Head(in)} /\ data' \in {data, Head(in)}
      /\ begun' \in BOOLEAN
  BY DEF ReadFirst, ReadLast, ReadLossy, Received, linkVars
<1>3. \/ UNCHANGED <<is_recv_wifi_pack, fresh>>
      \/ is_recv_wifi_pack' = TRUE /\ fresh' = [t \in Threads |-> TRUE]
  BY DEF ReadFirst, ReadLast, ReadLossy
<1>4. in' \in Seq(Packet) /\ LinkInv'
  BY <1>1, <1>2, TailIn DEF IInv, TypeOK, LinkInv, Answers, RequestOf
<1>5. TypeOK'
  BY <1>1, <1>2, <1>3, <1>4, TailIn DEF IInv, TypeOK, cmdVars
<1>6. HeaderInv' /\ TookInv' /\ RunInv' /\ AcceptedWasExecuted'
  BY <1>1, <1>2, TailIn DEF IInv, HeaderInv, TookInv, RunInv, AcceptedWasExecuted, Answers,
                            RequestOf, cmdVars
<1>7. FlagInv' /\ TakesFreshPacket'
  BY <1>1, <1>3 DEF IInv, FlagInv, TakesFreshPacket, cmdVars
<1> QED BY <1>4, <1>5, <1>6, <1>7 DEF IInv

\* A packet is added at the end of in, and requests may be carried out.
LEMMA AppendKeeps ==
  ASSUME IInv, NEW p \in Packet, in' = Append(in, p) \/ UNCHANGED in,
         out' \in Seq(Request), servers' \in 0..MaxServer, executed \subseteq executed',
         executed' \subseteq Request, p.cmd = Server \/ RequestOf(p) \in executed',
         UNCHANGED <<recvVars, cmdVars, fresh>>
  PROVE  IInv'
<1>1. TypeOK'
  <2>1. in' \in Seq(Packet)
    <3>1. in \in Seq(Packet)
      BY DEF IInv, TypeOK
    <3> QED BY <3>1
  <2> QED BY <2>1 DEF IInv, TypeOK, recvVars, cmdVars
<1>2. LinkInv'
  <2>1. in \in Seq(Packet) /\ \A i \in 1..Len(in) : Answers(in[i])
    BY DEF IInv, TypeOK, LinkInv
  <2> SUFFICES ASSUME NEW i \in 1..Len(in')
               PROVE  in'[i].cmd = Server \/ RequestOf(in'[i]) \in executed'
    BY Zenon DEF LinkInv, Answers, RequestOf
  <2>2. in'[i] = p \/ (i \in 1..Len(in) /\ in'[i] = in[i])
    BY <2>1
  <2>3. CASE in'[i] = p
    BY <2>3, Zenon
  <2>4. CASE i \in 1..Len(in) /\ in'[i] = in[i]
    BY <2>1, <2>4, Zenon DEF Answers
  <2> QED BY <2>2, <2>3, <2>4
<1>3. HeaderInv' /\ TookInv' /\ RunInv' /\ AcceptedWasExecuted' /\ FlagInv' /\ TakesFreshPacket'
  BY DEF IInv, HeaderInv, TookInv, RunInv, AcceptedWasExecuted, FlagInv, TakesFreshPacket,
         Answers, RequestOf, recvVars, cmdVars
<1> QED BY <1>1, <1>2, <1>3 DEF IInv

LEMMA EspKeeps ==
  ASSUME IInv, Execute \/ ServerPacket
  PROVE  IInv'
<1>1. NoPacket \in Packet
  BY DEF NoPacket, Packet
<1>2. CASE ServerPacket
  <2>1. in' = Append(in, NoPacket) /\ out' \in Seq(Request) /\ servers' \in 0..MaxServer
        /\ UNCHANGED <<recvVars, cmdVars, fresh, executed>> /\ executed' \subseteq Request
    BY <1>2, BoundAssumption DEF ServerPacket, IInv, TypeOK
  <2> QED BY <1>1, <2>1, AppendKeeps DEF NoPacket
<1>3. CASE Execute
  <2>1. /\ Head(out) \in Request /\ out' \in Seq(Request)
        /\ executed' = executed \cup {Head(out)} /\ executed' \subseteq Request
        /\ UNCHANGED <<recvVars, servers, cmdVars, fresh>> /\ servers' \in 0..MaxServer
    BY <1>3 DEF Execute, IInv, TypeOK
  <2>2. CASE UNCHANGED in
    BY <1>1, <2>1, <2>2, AppendKeeps DEF NoPacket
  <2>3. ASSUME NEW e \in BOOLEAN,
               in' = Append(in, [cmd |-> Head(out).cmd, num |-> Head(out).num, err |-> e])
        PROVE  IInv'
    <3> DEFINE p == [cmd |-> Head(out).cmd, num |-> Head(out).num, err |-> e]
    <3>1. p \in Packet /\ RequestOf(p) = Head(out)
      BY <2>1 DEF Request, Packet, RequestOf
    <3> QED BY <2>1, <2>3, <3>1, AppendKeeps
  <2> QED BY <1>3, <2>2, <2>3 DEF Execute
<1> QED BY <1>2, <1>3

-----------------------------------------------------------------------------
LEMMA NextIInv == IInv /\ [Next]_vars => IInv'
<1> SUFFICES ASSUME IInv, [Next]_vars PROVE IInv'
  OBVIOUS
<1>1. ASSUME NEW t \in Threads, Command(t) PROVE IInv'
  BY <1>1, AsksKeeps, SendKeeps, AcceptKeeps, WaitKeeps, CompareKeeps, VerifyKeeps DEF Command
<1>2. CASE ReadFirst \/ ReadLast \/ ReadLossy
  BY <1>2, ReadKeeps
<1>3. CASE Execute \/ ServerPacket
  BY <1>3, EspKeeps
<1>4. CASE UNCHANGED vars
  BY <1>4 DEF IInv, TypeOK, LinkInv, HeaderInv, TookInv, RunInv, FlagInv, AcceptedWasExecuted,
              TakesFreshPacket, Answers, RequestOf, vars, recvVars, linkVars, cmdVars
<1> QED BY <1>1, <1>2, <1>3, <1>4 DEF Next, Threads

LEMMA Inductive == Spec => []IInv
BY InitIInv, NextIInv, PTL DEF Spec

\* Every step keeps flags, packets, places and results in their types.
THEOREM TypeCorrect == Spec => []TypeOK
<1>1. IInv => TypeOK
  BY DEF IInv
<1> QED BY <1>1, Inductive, PTL

\* A command returns success only for an answer to a request of its own kind
\* that the ESP8266 has carried out (wait_ack).
THEOREM SuccessIsExecuted == Spec => []AcceptedWasExecuted
<1>1. IInv => AcceptedWasExecuted
  BY DEF IInv
<1> QED BY <1>1, Inductive, PTL

\* The flag a command takes was raised after the command began.
THEOREM FlagIsFresh == Spec => []TakesFreshPacket
<1>1. IInv => TakesFreshPacket
  BY DEF IInv
<1> QED BY <1>1, Inductive, PTL

-----------------------------------------------------------------------------
(* The end of a command *)

\* The steps a command still takes at most, from where it is: the looks at the
\* flag it has left, and the steps before and after them.
Stages == [idle |-> Tries + 6, send |-> Tries + 5, wait |-> 4, compare |-> 4,
           verify |-> 3, lenth |-> 2, copy |-> 1]
Looks(t) == IF pc[t] = "wait" THEN Tries - tries[t] ELSE 0
Left(t)  == Stages[pc[t]] + Looks(t)

\* Each step of a command brings its return nearer, or is its return, with which
\* the boot goes on to the next command; whatever wifi reads, the ESP8266 answers
\* and the other thread asks leaves it where it is.
CommandGoesOn ==
  \A t \in Threads :
    /\ Left(t) \in 1..(Tries + 6)
    /\ Command(t) => \/ pc'[t] = "idle" /\ step' = Advanced(t)
                     \/ Left(t)' < Left(t) /\ UNCHANGED step
    /\ ~Command(t) => UNCHANGED <<pc[t], Left(t)>>

\* The stages, and that there are looks left while a command waits.
LEMMA StagesAre ==
  ASSUME TypeOK, NEW t \in Threads
  PROVE  /\ Tries \in Nat \ {0} /\ tries[t] \in 0..(Tries - 1) /\ pc[t] \in Places
         /\ pc[t] = "idle" => Left(t) = Tries + 6
         /\ pc[t] = "send" => Left(t) = Tries + 5
         /\ pc[t] = "wait" => Left(t) = 4 + (Tries - tries[t])
         /\ pc[t] = "compare" => Left(t) = 4
         /\ pc[t] = "verify" => Left(t) = 3
         /\ pc[t] = "lenth" => Left(t) = 2
         /\ pc[t] = "copy" => Left(t) = 1
<1>1. Tries \in Nat \ {0} /\ tries[t] \in 0..(Tries - 1) /\ pc[t] \in Places
  BY BoundAssumption DEF TypeOK, Places
<1>2. /\ Stages["idle"] = Tries + 6 /\ Stages["send"] = Tries + 5 /\ Stages["wait"] = 4
      /\ Stages["compare"] = 4 /\ Stages["verify"] = 3 /\ Stages["lenth"] = 2
      /\ Stages["copy"] = 1
  BY DEF Stages
<1> QED BY <1>1, <1>2 DEF Left, Looks

\* Where a command's step may lead.
LEMMA CommandLeads ==
  ASSUME TypeOK, NEW t \in Threads, Command(t)
  PROVE  \/ pc'[t] = "idle" /\ step' = Advanced(t)
         \/ /\ UNCHANGED step
            /\ \/ pc[t] = "idle" /\ pc'[t] = "send"
               \/ pc[t] = "send" /\ pc'[t] = "wait"
               \/ pc[t] = "wait" /\ pc'[t] = "compare"
               \/ pc[t] = "wait" /\ pc'[t] = "wait" /\ tries'[t] = tries[t] + 1
               \/ pc[t] = "compare" /\ pc'[t] = "verify"
               \/ pc[t] = "verify" /\ pc'[t] = "lenth"
               \/ pc[t] = "lenth" /\ pc'[t] = "copy"
<1> DEFINE Leads(from, to) == pc[t] = from /\ pc'[t] = to /\ UNCHANGED step
           Returns == pc'[t] = "idle" /\ step' = Advanced(t)
<1>g. \A place : Goto(t, place) => pc'[t] = place
  BY DEF Goto, TypeOK
<1>r. \A r : Return(t, r) => Returns
  BY <1>g DEF Return
<1>1. ASSUME NEW c \in Cmds, Begin(t, c) PROVE Leads("idle", "send")
  BY <1>1, <1>g DEF Begin, Asks, At
<1>2. ASSUME NEW c \in Cmds, NoMemory(t, c) PROVE Returns
  BY <1>2, <1>r DEF NoMemory
<1>3. Send(t) => Leads("send", "wait")
  BY <1>g DEF Send, At
<1>4. Accept(t) => Leads("wait", "compare")
  BY <1>g DEF Accept, At
<1>5. Wait(t) => Returns \/ (Leads("wait", "wait") /\ tries'[t] = tries[t] + 1)
  <2>1. CASE tries[t] + 1 = Tries
    <3>1. Wait(t) => Return(t, "timeout")
      BY <2>1 DEF Wait
    <3> QED BY <1>r, <3>1
  <2>2. CASE tries[t] + 1 # Tries
    <3>1. Wait(t) => /\ pc[t] = "wait" /\ UNCHANGED <<pc, step>>
                     /\ tries' = [tries EXCEPT ![t] = @ + 1]
      BY <2>2 DEF Wait, At
    <3>2. tries \in [Threads -> 0..(Tries - 1)]
      BY DEF TypeOK
    <3> QED BY <3>1, <3>2
  <2> QED BY <2>1, <2>2
<1>6. Compare(t) => Returns \/ Leads("compare", "verify")
  BY <1>g, <1>r DEF Compare, At
<1>7. Verify(t) => Returns \/ Leads("verify", "lenth")
  BY <1>g, <1>r DEF Verify, At
<1>8. Lenth(t) => Returns \/ Leads("lenth", "copy")
  BY <1>g, <1>r DEF Lenth, At
<1>9. Copy(t) => Returns
  BY <1>r DEF Copy
<1> QED BY <1>1, <1>2, <1>3, <1>4, <1>5, <1>6, <1>7, <1>8, <1>9 DEF Command

\* Nobody else moves a command.
LEMMA OthersLeave ==
  ASSUME TypeOK, Next, NEW t \in Threads, ~Command(t)
  PROVE  UNCHANGED <<pc[t], tries[t]>>
<1>1. ASSUME NEW u \in Threads, u # t, Command(u) PROVE UNCHANGED <<pc[t], tries[t]>>
  <2>1. \A place : Goto(u, place) => pc'[t] = pc[t]
    BY <1>1 DEF Goto, TypeOK
  <2>2. \A r : Return(u, r) => pc'[t] = pc[t]
    BY <2>1 DEF Return
  <2>3. ASSUME NEW c \in Cmds, Begin(u, c) \/ NoMemory(u, c)
        PROVE  UNCHANGED <<pc[t], tries[t]>>
    BY <2>1, <2>2, <2>3 DEF Begin, NoMemory, Asks
  <2>4. Send(u) \/ Compare(u) \/ Verify(u) \/ Lenth(u) \/ Copy(u)
        => UNCHANGED <<pc[t], tries[t]>>
    BY <2>1, <2>2 DEF Send, Compare, Verify, Lenth, Copy
  <2>5. Accept(u) => UNCHANGED <<pc[t], tries[t]>>
    BY <1>1, <2>1 DEF Accept, TypeOK
  <2>6. Wait(u) => UNCHANGED <<pc[t], tries[t]>>
    <3>1. Wait(u) => pc'[t] = pc[t]
      BY <2>2 DEF Wait
    <3>2. Wait(u) => tries'[t] = tries[t]
      BY <1>1 DEF Wait, TypeOK
    <3> QED BY <3>1, <3>2
  <2> QED BY <1>1, <2>3, <2>4, <2>5, <2>6 DEF Command
<1>2. CASE ReadFirst \/ ReadLast \/ ReadLossy \/ Execute \/ ServerPacket
  BY <1>2 DEF ReadFirst, ReadLast, ReadLossy, Execute, ServerPacket, cmdVars
<1> QED BY <1>1, <1>2 DEF Next, Threads

\* Every step does as said.
LEMMA StepGoesOn == IInv /\ Next => CommandGoesOn
<1> SUFFICES ASSUME IInv, Next, NEW t \in Threads
             PROVE  /\ Left(t) \in 1..(Tries + 6)
                    /\ Command(t) => \/ pc'[t] = "idle" /\ step' = Advanced(t)
                                     \/ Left(t)' < Left(t) /\ UNCHANGED step
                    /\ ~Command(t) => UNCHANGED <<pc[t], Left(t)>>
  BY DEF CommandGoesOn
<1>1. TypeOK /\ TypeOK'
  BY NextIInv DEF IInv
<1>2. Left(t) \in 1..(Tries + 6)
  BY <1>1, StagesAre DEF Places
<1>3. /\ tries'[t] \in 0..(Tries - 1)
      /\ pc'[t] = "send" => Left(t)' = Tries + 5
      /\ pc'[t] = "wait" => Left(t)' = 4 + (Tries - tries'[t])
      /\ pc'[t] = "compare" => Left(t)' = 4
      /\ pc'[t] = "verify" => Left(t)' = 3
      /\ pc'[t] = "lenth" => Left(t)' = 2
      /\ pc'[t] = "copy" => Left(t)' = 1
  <2>1. tries'[t] \in 0..(Tries - 1) /\ Tries \in Nat
    BY <1>1, BoundAssumption DEF TypeOK
  <2>2. /\ Stages["send"] = Tries + 5 /\ Stages["wait"] = 4
        /\ Stages["compare"] = 4 /\ Stages["verify"] = 3 /\ Stages["lenth"] = 2
        /\ Stages["copy"] = 1
    BY DEF Stages
  <2> QED BY <2>1, <2>2 DEF Left, Looks
<1>4. ASSUME Command(t)
      PROVE  \/ pc'[t] = "idle" /\ step' = Advanced(t)
             \/ Left(t)' < Left(t) /\ UNCHANGED step
  BY <1>1, <1>3, <1>4, CommandLeads, StagesAre
<1>5. ASSUME ~Command(t)
      PROVE  UNCHANGED <<pc[t], Left(t)>>
  BY <1>1, <1>5, OthersLeave DEF Left, Looks
<1> QED BY <1>2, <1>4, <1>5

\* A command returns within Tries + 6 steps of its own, whatever is lost on the
\* way, and with each return of info's the boot has one command less to go
\* (wait_ack): the safety part of BootEnds.
THEOREM CommandEnds == Spec => [][CommandGoesOn]_vars
<1>1. IInv /\ [Next]_vars => [CommandGoesOn]_vars
  BY StepGoesOn
<1> QED BY <1>1, Inductive, PTL DEF Spec
=============================================================================
