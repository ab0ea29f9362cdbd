------------------------------ MODULE WifiCmd ------------------------------
(***************************************************************************)
(* The commands to the ESP8266 (esp8266_cmd.c) and the wifi thread that    *)
(* receives the answers (wifi_thread.c):                                   *)
(*   wifi    (priority  5) reads a packet fragment by fragment into        *)
(*           recv_pack, keeps its header in wifi_pack_recv and raises      *)
(*           is_recv_wifi_pack;                                            *)
(*   info    (priority 16) runs the commands of the boot, one by one;      *)
(*   tshell  (priority 20) runs commands typed at the shell.               *)
(* A command lowers the flag, sends its request and looks at the flag once *)
(* a millisecond: header, flag and packet are shared, and nothing in a     *)
(* packet tells which request it answers.  wifi may step between any two   *)
(* steps of the others, tshell only while info sleeps.                     *)
(***************************************************************************)
EXTENDS Integers, Sequences

CONSTANTS
  Cmds,         \* commands that are answered
  Server,       \* CMD_SEND_DATA_TO_MCU: packets from the server
  Boot,         \* the commands of the boot, in order
  ShellCmds,    \* commands that may be typed
  ReadCmds,     \* commands that copy the answer's data (wifi_mac_addr_get...)
  BufferCmds,   \* commands that need memory of their own (router_set...)
  Tries,        \* looks at the flag before a command gives up (1000)
  MaxTyped,     \* bound: commands typed
  MaxServer     \* bound: packets from the server

ASSUME CmdAssumption == /\ Server \notin Cmds
                        /\ Boot \in Seq(Cmds)
                        /\ ShellCmds \subseteq Cmds
ASSUME BoundAssumption == /\ Tries \in Nat \ {0}
                          /\ MaxTyped \in Nat /\ MaxServer \in Nat

Threads == {"info", "tshell"}

\* The number tells requests apart; it is not sent.
Request == [cmd : Cmds, num : Nat]
Packet  == [cmd : Cmds \cup {Server}, num : Nat, err : BOOLEAN]

VARIABLES
  is_recv_wifi_pack,
  header,     \* wifi_pack_recv
  data,       \* the packet whose first fragment came last into recv_pack
  begun,      \* wifi has read the first fragment of the next packet
  out,        \* requests on their way to the ESP8266
  in,         \* packets on their way to the MCU
  pc,         \* where each thread is in its command,
  asked,      \*   the request it made,
  tries,      \*   the looks at the flag so far,
  copied,     \*   the packet it copied its output from,
  ret,        \*   and what it returned
  step,       \* position of info in Boot
  requests,   \* requests made so far
  servers,    \* packets from the server so far
  took,       \* history: the packet whose cmd each thread compared
  fresh,      \* history: a packet has come since each thread's command began
  executed    \* history: requests the ESP8266 has carried out

recvVars == <<is_recv_wifi_pack, header, data, begun>>
linkVars == <<out, in, servers>>
cmdVars  == <<pc, asked, tries, copied, ret, step, requests, took>>
vars     == <<recvVars, linkVars, cmdVars, fresh, executed>>

NoPacket == [cmd |-> Server, num |-> 0, err |-> FALSE]

Init ==
  /\ is_recv_wifi_pack = FALSE
  /\ header = NoPacket /\ data = NoPacket /\ begun = FALSE
  /\ out = <<>> /\ in = <<>>
  /\ pc = [t \in Threads |-> "idle"]
  /\ asked \in [Threads -> {[cmd |-> c, num |-> 0] : c \in Cmds}]
  /\ \A t, u \in Threads : asked[t] = asked[u]
  /\ tries = [t \in Threads |-> 0]
  /\ copied = [t \in Threads |-> NoPacket]
  /\ ret = [t \in Threads |-> "none"]
  /\ step = 1
  /\ requests = 0 /\ servers = 0
  /\ took = [t \in Threads |-> NoPacket]
  /\ fresh = [t \in Threads |-> FALSE]
  /\ executed = {}

-----------------------------------------------------------------------------
(* The commands *)

\* info sleeps before its first command, in wait_ack, and when the boot is done.
InfoSleeps == \/ pc["info"] = "wait"
              \/ pc["info"] = "idle" /\ step \in {1, Len(Boot) + 1}

MayRun(t) == t = "tshell" => InfoSleeps

\* The commands thread t may run next.
NextCmds(t) == IF t = "tshell" THEN ShellCmds
               ELSE IF step <= Len(Boot) THEN {Boot[step]} ELSE {}

\* Commands typed so far: those of the boot are the others.
Typed == requests - (IF pc["info"] = "idle" THEN step - 1 ELSE step)

Advanced(t) == IF t = "info" THEN step + 1 ELSE step

At(t, place) == pc[t] = place /\ MayRun(t)
Goto(t, place) == pc' = [pc EXCEPT ![t] = place]

\* The command returns r to its caller.
Return(t, r) ==
  /\ Goto(t, "idle")
  /\ ret' = [ret EXCEPT ![t] = r]
  /\ step' = Advanced(t)

Asks(t, c) ==
  /\ At(t, "idle")
  /\ c \in NextCmds(t)
  /\ t = "tshell" => Typed < MaxTyped
  /\ requests' = requests + 1
  /\ asked' = [asked EXCEPT ![t] = [cmd |-> c, num |-> requests + 1]]
  /\ UNCHANGED <<header, data, begun, linkVars, tries, copied, took, executed>>

\* Fault: the flag of an earlier packet stays up.
BeginFlagKept(t, c) ==
  /\ Asks(t, c)
  /\ fresh' = [fresh EXCEPT ![t] = FALSE]
  /\ ret' = [ret EXCEPT ![t] = "none"]
  /\ Goto(t, "send")
  /\ UNCHANGED <<is_recv_wifi_pack, step>>

\* A command lowers the flag first.
Begin(t, c) ==
  /\ Asks(t, c)
  /\ is_recv_wifi_pack' = FALSE
  /\ fresh' = [fresh EXCEPT ![t] = FALSE]
  /\ ret' = [ret EXCEPT ![t] = "none"]
  /\ Goto(t, "send")
  /\ UNCHANGED step

\* Without memory for its parameters it returns before that.
NoMemory(t, c) ==
  /\ c \in BufferCmds
  /\ Asks(t, c)
  /\ Return(t, "timeout")
  /\ UNCHANGED <<is_recv_wifi_pack, fresh>>

\* wifi_send, whose result nobody looks at: out of memory, the ESP8266 not
\* ready, or a CRC the wifi thread got in the way of, and no request arrives.
Send(t) ==
  /\ At(t, "send")
  /\ out' \in {out, Append(out, asked[t])}
  /\ Goto(t, "wait")
  /\ UNCHANGED <<recvVars, in, servers, asked, tries, copied, ret, step, requests, took, fresh,
                 executed>>

\* wait_ack finds the flag up.
Accept(t) ==
  /\ At(t, "wait")
  /\ is_recv_wifi_pack
  /\ is_recv_wifi_pack' = FALSE
  /\ tries' = [tries EXCEPT ![t] = 0]
  /\ Goto(t, "compare")
  /\ UNCHANGED <<header, data, begun, linkVars, asked, copied, ret, step, requests,
                 took, fresh, executed>>

\* Fault: the looks at the flag are not counted.
WaitUncounted(t) ==
  /\ At(t, "wait")
  /\ ~is_recv_wifi_pack
  /\ UNCHANGED vars

\* Fault: it looks at the flag once too often.
WaitOnceMore(t) ==
  /\ At(t, "wait")
  /\ ~is_recv_wifi_pack
  /\ IF tries[t] = Tries
       THEN tries' = [tries EXCEPT ![t] = 0] /\ Return(t, "timeout")
       ELSE tries' = [tries EXCEPT ![t] = @ + 1] /\ UNCHANGED <<pc, ret, step>>
  /\ UNCHANGED <<recvVars, linkVars, asked, copied, requests, took, fresh, executed>>

\* wait_ack finds it down: it sleeps, and gives up in the end.
Wait(t) ==
  /\ At(t, "wait")
  /\ ~is_recv_wifi_pack
  /\ IF tries[t] + 1 = Tries
       THEN tries' = [tries EXCEPT ![t] = 0] /\ Return(t, "timeout")
       ELSE tries' = [tries EXCEPT ![t] = @ + 1] /\ UNCHANGED <<pc, ret, step>>
  /\ UNCHANGED <<recvVars, linkVars, asked, copied, requests, took, fresh, executed>>

\* Fault: any packet is an answer.
CompareNot(t) ==
  /\ At(t, "compare")
  /\ took' = [took EXCEPT ![t] = header]
  /\ Goto(t, "verify")
  /\ UNCHANGED <<recvVars, linkVars, asked, tries, copied, ret, step, requests, fresh, executed>>

\* The command of the header as it is by now is compared.
Compare(t) ==
  /\ At(t, "compare")
  /\ IF header.cmd = asked[t].cmd
       THEN took' = [took EXCEPT ![t] = header] /\ Goto(t, "verify") /\ UNCHANGED <<ret, step>>
       ELSE Return(t, "mismatch") /\ UNCHANGED took
  /\ UNCHANGED <<recvVars, linkVars, asked, tries, copied, requests, fresh, executed>>

\* Data that begins with "err" is an error.
Verify(t) ==
  /\ At(t, "verify")
  /\ \/ data.err /\ Return(t, "error")
     \/ /\ ~data.err
        /\ asked[t].cmd \notin ReadCmds
        /\ Return(t, "ok")
     \/ /\ ~data.err
        /\ asked[t].cmd \in ReadCmds
        /\ Goto(t, "lenth")
        /\ UNCHANGED <<ret, step>>
  /\ UNCHANGED <<recvVars, linkVars, asked, tries, copied, requests, took, fresh, executed>>

\* The length in the header must be that of the answer; that of another packet
\* may be the same.
Lenth(t) ==
  /\ At(t, "lenth")
  /\ \/ Goto(t, "copy") /\ UNCHANGED <<ret, step>>
     \/ /\ header.cmd # asked[t].cmd \/ header.err
        /\ Return(t, "error")
  /\ UNCHANGED <<recvVars, linkVars, asked, tries, copied, requests, took, fresh, executed>>

\* The output is copied from recv_pack.
Copy(t) ==
  /\ At(t, "copy")
  /\ copied' = [copied EXCEPT ![t] = data]
  /\ Return(t, "ok")
  /\ UNCHANGED <<recvVars, linkVars, asked, tries, requests, took, fresh, executed>>

-----------------------------------------------------------------------------
(* wifi *)

Received == in' = Tail(in) /\ begun' = FALSE

\* esp8266_spi_read puts the first of several fragments into recv_pack.
ReadFirst ==
  /\ in # <<>>
  /\ ~begun
  /\ begun' = TRUE
  /\ data' = Head(in)
  /\ UNCHANGED <<is_recv_wifi_pack, header, linkVars, cmdVars, fresh, executed>>

\* The last fragment: length and CRC are right.  What data_process does with a
\* packet of the server is in UserCheck and AttDatabase.
ReadLast ==
  /\ in # <<>>
  /\ Received
  /\ data' = Head(in)
  /\ header' = Head(in)
  /\ is_recv_wifi_pack' = TRUE
  /\ fresh' = [t \in Threads |-> TRUE]
  /\ UNCHANGED <<out, servers, cmdVars, executed>>

\* A fragment is missed, two edges having raised one event.  Without the first
\* one nothing is stored; without the last one there is no header; else the
\* header is stored before the length is found wrong.
ReadLossy ==
  /\ in # <<>>
  /\ Received
  /\ \/ ~begun /\ UNCHANGED <<data, header>>
     \/ data' = Head(in) /\ header' \in {header, Head(in)}
  /\ UNCHANGED <<is_recv_wifi_pack, out, servers, cmdVars, fresh, executed>>

-----------------------------------------------------------------------------
(* The ESP8266 *)

\* It carries a request out and answers with its command, or fails to.
Execute ==
  /\ out # <<>>
  /\ out' = Tail(out)
  /\ executed' = executed \cup {Head(out)}
  /\ \/ UNCHANGED in
     \/ \E e \in BOOLEAN :
          in' = Append(in, [cmd |-> Head(out).cmd, num |-> Head(out).num, err |-> e])
  /\ UNCHANGED <<recvVars, servers, cmdVars, fresh>>

\* It passes a packet of the server on.
ServerPacket ==
  /\ servers < MaxServer
  /\ servers' = servers + 1
  /\ in' = Append(in, NoPacket)
  /\ UNCHANGED <<recvVars, out, cmdVars, fresh, executed>>

-----------------------------------------------------------------------------
Command(t) ==
  \/ \E c \in Cmds : Begin(t, c) \/ NoMemory(t, c)
  \/ Send(t) \/ Accept(t) \/ Wait(t) \/ Compare(t) \/ Verify(t) \/ Lenth(t) \/ Copy(t)

Next ==
  \/ Command("info") \/ Command("tshell")
  \/ ReadFirst \/ ReadLast \/ ReadLossy
  \/ Execute \/ ServerPacket

Spec == Init /\ [][Next]_vars

\* Only wifi runs before info, and only when a packet has come.
FairSpec == Spec /\ WF_vars(Command("info"))

-----------------------------------------------------------------------------
TypeOK ==
  /\ is_recv_wifi_pack \in BOOLEAN /\ begun \in BOOLEAN
  /\ header \in Packet /\ data \in Packet
  /\ out \in Seq(Request) /\ in \in Seq(Packet)
  /\ pc \in [Threads -> {"idle", "send", "wait", "compare", "verify", "lenth", "copy"}]
  /\ asked \in [Threads -> Request]
  /\ tries \in [Threads -> 0..(Tries - 1)]
  /\ copied \in [Threads -> Packet] /\ took \in [Threads -> Packet]
  /\ ret \in [Threads -> {"none", "ok", "timeout", "mismatch", "error"}]
  /\ step \in 1..(Len(Boot) + 1)
  /\ requests \in Nat /\ servers \in 0..MaxServer
  /\ fresh \in [Threads -> BOOLEAN]
  /\ executed \subseteq Request

\* A command that succeeds has taken an answer to a request for this command
\* that the ESP8266 has carried out, though the header may have changed between
\* the flag and the comparison.
AcceptedWasExecuted ==
  \A t \in Threads :
    ret[t] = "ok" => [cmd |-> asked[t].cmd, num |-> took[t].num] \in executed

\* No command takes a packet that came before it began, whichever thread's
\* flag it raised.
TakesFreshPacket ==
  \A t \in Threads : pc[t] \in {"compare", "verify", "lenth", "copy"} => fresh[t]

\* Whatever is lost, the boot's commands come to an end.
BootEnds == <>(step = Len(Boot) + 1)
=============================================================================
