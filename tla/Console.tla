------------------------------ MODULE Console ------------------------------
(***************************************************************************)
(* The TCP console (applications/src/my_TCP.c).  The shell thread runs     *)
(* my_tcp_control: it connects to a server, receives commands and answers  *)
(* them until the connection ends.  Its socket is a number in the          *)
(* descriptor table of the file system, which the MQTT worker uses too;    *)
(* its receive buffer is a block of the shared heap.  Both are globals     *)
(* that every send function releases when it fails.                        *)
(*                                                                         *)
(* The receive side of the AT socket (at_socket.c) is modelled as well: a  *)
(* packet list, a semaphore that counts notices, and the state of the      *)
(* connection, which the parser of the module's lines and the console both *)
(* write.  A receive takes every packet there is, as one text.             *)
(*                                                                         *)
(* The sample logs (my_file.c) are files of a flash that dfs_mount_init    *)
(* formats at each boot, and nothing calls the functions that write them:  *)
(* loading one finds no file, and the read positions stay 0.               *)
(***************************************************************************)
EXTENDS Integers, Sequences, FiniteSets, FiniteSetsExt

CONSTANTS
    DFS_FD_MAX,   \* entries of the descriptor table
    Commands,     \* what the server sends
    MaxSessions,  \* bound: calls of my_tcp_control
    MaxPackets,   \* bound: packets of the server over all sessions
    MaxFaults     \* bound: calls that fail

Fds == 1 .. DFS_FD_MAX

\* A command of the server: quit, a lamp switched, a log loaded, the read
\* position of a log reset; "other" is every other text, the two that set
\* limits nobody reads any more included.
AllCommands == {"quit", "lamp", "load", "reset", "other"}

\* The length of a text that is a command, of which temp_recv_comm holds less
\* than CopyRoom.
TextLength(c) ==
    CASE c = "lamp" -> 8
      [] c = "load" -> 14
      [] c = "reset" -> 25
      [] OTHER -> 1

CopyRoom == 50

ASSUME ConsoleAssumption ==
    /\ DFS_FD_MAX \in Nat
    /\ Commands \subseteq AllCommands
    /\ {MaxSessions, MaxPackets, MaxFaults} \subseteq Nat

VARIABLES
    pc,        \* where the shell thread is in my_tcp_control
    resolved,  \* gethostbyname found the server
    sock,      \* the global descriptor of the console, 0 before the first
    recv_data, \* the receive buffer's block
    table,     \* who a descriptor belongs to
    wsock,     \* the descriptor the MQTT worker holds, 0 for none
    spinning,  \* the worker goes round in select and starves this thread
    line,      \* the module's connection to the server exists
    peer,      \* state of the console's AT socket
    pkts,      \* its packets that are not yet received
    text,      \* what the last recv put into the buffer
    notice,    \* its semaphore recv_notice
    \* What only the properties look at.
    ignored,   \* a send failed and its caller went on
    damage,    \* what was released that belonged to somebody else
    sessions, packets, faults

owned  == <<sock, recv_data, table, wsock>>
conn   == <<line, peer, pkts, notice>>
bounds == <<sessions, packets, faults>>
vars   == <<pc, resolved, text, owned, spinning, conn, ignored, damage, bounds>>

IsSocket(f) == f \in Fds /\ table[f] \in {"console", "worker"}
Own == sock \in Fds /\ table[sock] = "console"
FreeFds == {f \in Fds : table[f] = "free"}

TypeOK ==
    /\ pc \in {"shell", "socket", "connect", "store", "recv", "look", "wait",
               "answer", "opening", "asserted", "undefined"}
    /\ resolved \in BOOLEAN /\ spinning \in BOOLEAN /\ line \in BOOLEAN
    /\ sock \in Fds \cup {0} /\ wsock \in Fds \cup {0}
    /\ recv_data \in {"none", "held", "freed", "taken"}
    /\ table \in [Fds -> {"free", "console", "worker", "file"}]
    /\ peer \in {"none", "connected", "closed"}
    /\ pkts \in Seq(Commands) /\ notice \in Nat
    /\ text \in Seq(Commands)
    /\ ignored \in BOOLEAN
    /\ damage \subseteq {"worker closed", "console closed", "block freed", "bytes stolen"}
    /\ sessions \in 0 .. MaxSessions
    /\ packets \in 0 .. MaxPackets
    /\ faults \in 0 .. MaxFaults

Init ==
    /\ pc = "shell" /\ resolved = FALSE
    /\ sock = 0 /\ wsock = 0 /\ recv_data = "none"
    /\ table = [f \in Fds |-> "free"]
    /\ spinning = FALSE /\ line = FALSE
    /\ peer = "none" /\ pkts = <<>> /\ notice = 0 /\ text = <<>>
    /\ ignored = FALSE /\ damage = {}
    /\ sessions = 0 /\ packets = 0 /\ faults = 0

-----------------------------------------------------------------------------
(* What several operations share.                                          *)

\* A call fails: each one that may is counted.
Fault == faults < MaxFaults /\ faults' = faults + 1
NoFault == UNCHANGED faults

\* socket() and open() take the lowest free entry of the table.
OnePastTheFree == Max(FreeFds) + 1
fd_new == Min(FreeFds)

\* The AT socket, and with it the module's connection, goes with the
\* descriptor.
Forget(f) ==
    IF f \in Fds /\ table[f] = "console"
    THEN line' = FALSE /\ peer' = "none" /\ pkts' = <<>> /\ notice' = 0
    ELSE UNCHANGED conn

\* closesocket: nothing happens to a number that is no socket.
closesocket(f) ==
    /\ table' = IF IsSocket(f) THEN [table EXCEPT ![f] = "free"] ELSE table
    /\ Forget(f)

\* closesocket(sock); rt_free(recv_data);  A block that is free already stops
\* the thread in rt_free's assertion, with the heap locked; one that was
\* handed out again is taken from its new owner.
Release(next) ==
    /\ closesocket(sock)
    /\ recv_data' = "freed"
    /\ pc' = IF recv_data = "freed" THEN "asserted" ELSE next
    /\ damage' = damage
         \cup (IF sock \in Fds /\ table[sock] = "worker" THEN {"worker closed"} ELSE {})
         \cup (IF recv_data = "taken" THEN {"block freed"} ELSE {})
    /\ UNCHANGED <<sock, wsock>>

\* A connection that has ended unknown to the console (see connected).
DeadLine == Own /\ peer = "connected" /\ ~line

\* send: it must fail on a number that is no socket and may fail on one that
\* is; a connection the server closed takes nothing and returns 0.
SendOk    == IsSocket(sock) /\ NoFault
SendFails == IF IsSocket(sock) /\ ~DeadLine THEN Fault ELSE NoFault

-----------------------------------------------------------------------------
(* my_tcp_control until it is connected.                                   *)

my_tcp_control ==
    /\ pc = "shell" /\ sessions < MaxSessions
    /\ sessions' = sessions + 1
    /\ resolved' \in BOOLEAN
    /\ \/ NoFault /\ recv_data' = "held" /\ pc' = "socket"
       \/ Fault /\ recv_data' = "none" /\ UNCHANGED pc      \* no memory
    /\ UNCHANGED <<text, sock, table, wsock, conn, ignored, damage, packets>>

\* No descriptor or no AT socket is left: sock is -1 and the buffer freed.
socket_fails ==
    /\ pc = "socket"
    /\ IF FreeFds = {} THEN NoFault ELSE Fault
    /\ sock' = 0 /\ recv_data' = "freed" /\ pc' = "shell"
    /\ UNCHANGED <<resolved, text, table, wsock, conn, ignored, damage,
                   sessions, packets>>

socket_made ==
    /\ pc = "socket" /\ FreeFds # {}
    /\ sock' = fd_new
    /\ table' = [table EXCEPT ![fd_new] = "console"]
    /\ pc' = "connect"
    /\ UNCHANGED <<resolved, text, recv_data, wsock, conn, ignored, damage, bounds>>

\* What a refused connection leads to.
FreesOnly ==
    /\ recv_data' = "freed" /\ pc' = "shell"
    /\ UNCHANGED <<sock, table, wsock, conn, damage>>

GivesUp == Release("shell")

\* A refused connection, or the address that was read through a null host.
connect_fails ==
    /\ pc = "connect"
    /\ IF resolved /\ Own THEN Fault ELSE NoFault
    /\ GivesUp
    /\ UNCHANGED <<resolved, text, ignored, sessions, packets>>

\* host->h_addr is read although gethostbyname may have returned NULL: what
\* is found at address 0 is taken for the address (connect_fails), or the
\* processor faults.
null_host ==
    /\ pc = "connect" /\ ~resolved
    /\ pc' = "undefined"
    /\ UNCHANGED <<resolved, text, owned, conn, ignored, damage, bounds>>

\* The module has connected.  From here on its lines reach the AT socket,
\* and at_connect has not yet stored the state.
linked ==
    /\ pc = "connect" /\ resolved /\ Own
    /\ line' = TRUE
    /\ pc' = "store"
    /\ UNCHANGED <<resolved, text, owned, peer, pkts, notice, ignored, damage, bounds>>

\* sock->state = AT_SOCKET_CONNECT, over an AT_SOCKET_CLOSED too.
connected ==
    /\ pc = "store"
    /\ peer' = IF Own THEN "connected" ELSE peer
    /\ pc' = "recv"
    /\ UNCHANGED <<resolved, text, owned, line, pkts, notice, ignored, damage, bounds>>

-----------------------------------------------------------------------------
(* The AT socket: packets, the end of the connection, and recv.            *)

at_recv_notice_cb(c) ==
    /\ line /\ packets < MaxPackets
    /\ pkts' = Append(pkts, c)
    /\ notice' = notice + 1
    /\ packets' = packets + 1
    /\ UNCHANGED <<pc, resolved, text, owned, line, peer, ignored, damage,
                   sessions, faults>>

at_closed_notice_cb ==
    /\ line
    /\ line' = FALSE
    /\ peer' = "closed"
    /\ notice' = notice + 1
    /\ UNCHANGED <<pc, resolved, text, owned, pkts, ignored, damage, bounds>>

\* at_recvpkt_get takes all packets.
Take ==
    /\ pkts # <<>>
    /\ text' = pkts /\ pkts' = <<>> /\ pc' = "answer"
    /\ UNCHANGED <<line, peer, owned, ignored, damage, resolved, bounds>>

\* Packets are there: they are taken and the semaphore is left as it is.
recv_ready == pc = "recv" /\ Own /\ Take /\ UNCHANGED notice

\* No packet: the state of the connection is looked at next.
recv_empty ==
    /\ pc = "recv" /\ Own /\ pkts = <<>>
    /\ pc' = "look"
    /\ UNCHANGED <<resolved, text, owned, conn, ignored, damage, bounds>>

\* The server has closed the connection; a packet that came after the list
\* was looked at is not seen.
ClosedUnnoticed == FALSE
PassivelyClosed == Own /\ peer = "closed"

\* recv returns 0 or an error: the connection is closed, the loop left.
recv_ends ==
    /\ \/ pc = "recv" /\ IF IsSocket(sock) THEN Fault ELSE NoFault
       \/ pc = "look" /\ PassivelyClosed /\ NoFault
    /\ Release("shell")
    /\ UNCHANGED <<resolved, text, ignored, sessions, packets>>

recv_blocks ==
    /\ pc = "look" /\ Own /\ ~PassivelyClosed
    /\ pc' = "wait"
    /\ UNCHANGED <<resolved, text, owned, conn, ignored, damage, bounds>>

\* The waiting loop of at_recvfrom: a notice without a packet is waited over,
\* the one of at_closed_notice_cb too.
recv_noticed ==
    /\ pc = "wait" /\ Own /\ notice > 0
    /\ notice' = notice - 1
    /\ \/ Take
       \/ /\ pkts = <<>>
          /\ UNCHANGED <<pc, resolved, text, owned, line, peer, pkts, ignored, damage, bounds>>

\* The socket was closed under the receiving thread.
recv_deleted ==
    /\ pc \in {"look", "wait"} /\ ~Own
    /\ Release("shell")
    /\ UNCHANGED <<resolved, text, ignored, bounds>>

\* The number is the worker's by now: its bytes are received, and no command.
recv_foreign ==
    /\ pc \in {"recv", "look"} /\ sock \in Fds /\ table[sock] = "worker"
    /\ damage' = damage \cup {"bytes stolen"}
    /\ pc' = "recv"
    /\ UNCHANGED <<resolved, text, owned, conn, ignored, bounds>>

-----------------------------------------------------------------------------
(* The answers to a received text.                                         *)

\* A text that came in one packet is that packet's command.  Packets received
\* together match no command, unless the first one begins with q.
Meaning ==
    IF Head(text) = "quit" \/ Len(text) = 1 THEN Head(text) ELSE "other"

\* A text that is no command may have any length and any number of colons.
Overlong ==
    \/ \E i \in 1 .. Len(text) : text[i] = "other"
    \/ MapThenSumSet(LAMBDA i : TextLength(text[i]), 1 .. Len(text)) >= CopyRoom

Answer(what) == pc = "answer" /\ Meaning = what /\ text' = <<>> /\ UNCHANGED resolved

quit ==
    /\ Answer("quit")
    /\ Release("shell")
    /\ UNCHANGED <<ignored, bounds>>

\* Where a failed my_send_msg takes the lamp commands: out of the loop.
AfterIgnored == "recv"
AfterFailed == "shell"

\* The lamp itself is in AutoControl.
lamp ==
    /\ Answer("lamp")
    /\ \/ SendOk /\ pc' = "recv" /\ UNCHANGED <<owned, conn, damage>>
       \/ SendFails /\ Release(AfterFailed)
    /\ UNCHANGED <<ignored, sessions, packets>>

\* reset_dht11_read_position, reset_light_read_position: nobody looks at what
\* my_send_fp_reset_feedback returned.
reset_read_position ==
    /\ Answer("reset")
    /\ \/ SendOk /\ pc' = "recv" /\ UNCHANGED <<owned, conn, ignored, damage>>
       \/ SendFails /\ Release("recv") /\ ignored' = TRUE
    /\ UNCHANGED <<sessions, packets>>

\* read_and_send_dht11_data, read_and_send_light_data: fopen takes a
\* descriptor, if there is one, for a file that does not exist ...
load ==
    /\ Answer("load")
    /\ IF FreeFds = {}
       THEN pc' = "recv" /\ UNCHANGED table
       ELSE pc' = "opening" /\ table' = [table EXCEPT ![fd_new] = "file"]
    /\ UNCHANGED <<sock, recv_data, wsock, conn, ignored, damage, bounds>>

\* ... and puts it back.
PutBack == [f \in Fds |-> IF table[f] = "file" THEN "free" ELSE table[f]]

load_fails ==
    /\ pc = "opening"
    /\ table' = PutBack
    /\ pc' = "recv"
    /\ UNCHANGED <<resolved, text, sock, recv_data, wsock, conn, ignored, damage, bounds>>

\* Any other text is copied to the stack and split at its colons, whatever its
\* length.
other ==
    /\ Answer("other")
    /\ pc' \in IF Overlong THEN {"recv", "undefined"} ELSE {"recv"}
    /\ UNCHANGED <<owned, conn, ignored, damage, bounds>>

-----------------------------------------------------------------------------
(* Others: the MQTT worker's socket and the users of the heap.             *)

worker_connects ==
    /\ wsock = 0 /\ FreeFds # {}
    /\ wsock' = fd_new
    /\ table' = [table EXCEPT ![fd_new] = "worker"]
    /\ UNCHANGED <<pc, resolved, text, sock, recv_data, spinning, conn,
                   ignored, damage, bounds>>

\* net_disconnect closes the number it holds, whosever it is by now.
worker_closes ==
    /\ wsock # 0 /\ ~spinning
    /\ closesocket(wsock)
    /\ wsock' = 0
    /\ damage' = damage \cup (IF table[wsock] = "console" THEN {"console closed"} ELSE {})
    /\ UNCHANGED <<pc, resolved, text, sock, recv_data, spinning, ignored, bounds>>

\* The worker's select stops sleeping, or sleeps again (module MqttClient).
worker_spins ==
    /\ wsock # 0
    /\ spinning' = ~spinning
    /\ UNCHANGED <<pc, resolved, text, owned, conn, ignored, damage, bounds>>

heap_reuses ==
    /\ recv_data = "freed" /\ pc # "asserted"
    /\ recv_data' = "taken"
    /\ UNCHANGED <<pc, resolved, text, sock, table, wsock, spinning, conn,
                   ignored, damage, bounds>>

-----------------------------------------------------------------------------

\* The shell thread has the lowest priority of the application.
Runs == ~spinning /\ UNCHANGED spinning

ConsoleStep ==
    /\ Runs
    /\ \/ socket_fails \/ socket_made \/ connect_fails \/ null_host
       \/ linked \/ connected
       \/ recv_ready \/ recv_empty \/ recv_ends \/ recv_blocks
       \/ recv_noticed \/ recv_deleted \/ recv_foreign
       \/ quit \/ lamp \/ reset_read_position \/ load \/ load_fails \/ other

AtParser ==
    /\ (\E c \in Commands : at_recv_notice_cb(c)) \/ at_closed_notice_cb
    /\ UNCHANGED spinning

Environment ==
    \/ Runs /\ my_tcp_control
    \/ AtParser
    \/ worker_connects \/ worker_closes \/ worker_spins \/ heap_reuses

Next == ConsoleStep \/ Environment

Spec == Init /\ [][Next]_vars

\* All threads above the shell block between their turns, but for a worker
\* that spins: whenever it does not, the shell runs on.
FairSpec == Spec /\ WF_vars(ConsoleStep)

-----------------------------------------------------------------------------
(* Properties.                                                             *)

\* Every way out of my_tcp_control gives back what it took: at the prompt no
\* descriptor is left of the connection or of a log, and no buffer.
NothingLeaks ==
    pc = "shell" =>
        /\ \A f \in Fds : table[f] \notin {"console", "file"}
        /\ recv_data # "held"

\* ... and gives it back once: rt_free's assertion holds, nobody else's
\* socket, memory or bytes are touched, unless a failed send of a reset's
\* feedback was ignored before.
ReleasedOnce == ~ignored => pc # "asserted" /\ damage = {}

\* A server that closes the connection ends the session, whatever it had sent
\* before, as long as the worker does not spin.  There are two moments it must
\* not choose: while at_connect returns (connected stores over it) and while
\* recv waits (recv_noticed passes over it).  Then it is never noticed.
ClosedIsNoticed ==
    (peer = "closed" /\ pc \notin {"store", "wait"}) ~>
        (pc \in {"shell", "asserted", "undefined"} \/ ignored \/ spinning)
=============================================================================
