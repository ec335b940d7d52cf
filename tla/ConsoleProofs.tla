--------------------------- MODULE ConsoleProofs ---------------------------
(***************************************************************************)
(* Proofs about the TCP console, for any number of descriptors and any     *)
(* commands: what a session takes and releases.                            *)
(***************************************************************************)
EXTENDS Console, WellFoundedInduction, TLAPS

----------------------------------------------------------------------------
(* The descriptors of the console and of a log it opens, and its buffer.   *)
HoldInv ==
    /\ \A f \in Fds : table[f] = "console" => f = sock /\ pc \notin {"shell", "socket"}
    /\ \A f \in Fds : table[f] = "file" => pc = "opening"
    /\ pc = "shell" => recv_data # "held"

(* As long as no failed send was ignored the console has what it believes  *)
(* to have, and the worker too.                                            *)
InSession ==
    pc \in {"connect", "store", "recv", "look", "wait", "answer", "opening"}

OwnInv ==
    ~ignored =>
        /\ InSession => Own
        /\ InSession \/ pc = "socket" => recv_data = "held"
        /\ wsock # 0 => table[wsock] = "worker"
        /\ pc # "asserted" /\ damage = {}

----------------------------------------------------------------------------
(* socket() and open() get a descriptor that was free.                    *)
LEMMA NewFdIsFree == FreeFds # {} => fd_new \in FreeFds
  <1> SUFFICES ASSUME FreeFds # {}  PROVE fd_new \in FreeFds
    OBVIOUS
  <1> DEFINE R == OpToRel(<, Nat)
  <1>1. FreeFds \subseteq Nat  BY ConsoleAssumption DEF FreeFds, Fds
  <1>2. PICK x \in FreeFds : \A y \in FreeFds : ~(<<y, x>> \in R)
    <2> HIDE DEF R
    <2>1. IsWellFoundedOn(R, Nat)  BY NatLessThanWellFounded DEF R
    <2> QED  BY <1>1, <2>1, WFMin
  <1>3. \A y \in FreeFds : x <= y
    <2> SUFFICES ASSUME NEW y \in FreeFds  PROVE x <= y
      OBVIOUS
    <2>1. ~(y < x)
      BY <1>1, <1>2 DEF OpToRel
    <2> QED  BY <1>1, <2>1
  <1> QED  BY <1>3 DEF fd_new, Min

----------------------------------------------------------------------------
LEMMA BoundsAreNat ==
    MaxSessions \in Nat /\ MaxPackets \in Nat /\ MaxFaults \in Nat
  BY ConsoleAssumption

(* What a failed or completed call leaves of the bounds.                   *)
LEMMA FaultType ==
    ASSUME TypeOK, Fault \/ NoFault
    PROVE  faults' \in 0 .. MaxFaults
  <1>1. faults \in 0 .. MaxFaults  BY DEF TypeOK
  <1> QED  BY <1>1, BoundsAreNat DEF Fault, NoFault

LEMMA SendType ==
    ASSUME TypeOK, SendOk \/ SendFails
    PROVE  faults' \in 0 .. MaxFaults
  BY FaultType DEF SendOk, SendFails

(* A release gives every descriptor, block and AT socket a proper state.   *)
LEMMA CloseType ==
    ASSUME TypeOK, NEW f, closesocket(f)
    PROVE  /\ table' \in [Fds -> {"free", "console", "worker", "file"}]
           /\ line' \in BOOLEAN /\ peer' \in {"none", "connected", "closed"}
           /\ pkts' \in Seq(Commands) /\ notice' \in Nat
  <1>1. /\ table \in [Fds -> {"free", "console", "worker", "file"}]
        /\ peer \in {"none", "connected", "closed"}
        /\ pkts \in Seq(Commands) /\ notice \in Nat
    BY DEF TypeOK
  <1>2. table' \in {table, [table EXCEPT ![f] = "free"]}
    BY DEF closesocket
  <1>3. pkts' \in {pkts, <<>>} /\ notice' \in {notice, 0} /\ peer' \in {peer, "none"}
    BY DEF closesocket, Forget, conn
  <1> <<>> \in Seq(Commands)
    OBVIOUS
  <1>4. pkts' \in Seq(Commands)  BY <1>1, <1>3
  <1>5. notice' \in Nat /\ peer' \in {"none", "connected", "closed"}  BY <1>1, <1>3
  <1>7. line' \in BOOLEAN  BY DEF closesocket, Forget, conn, TypeOK
  <1>6. table' \in [Fds -> {"free", "console", "worker", "file"}]  BY <1>1, <1>2
  <1> QED  BY <1>4, <1>5, <1>6, <1>7

LEMMA ReleaseType ==
    ASSUME TypeOK, NEW next \in {"shell", "recv"}, Release(next)
    PROVE  /\ table' \in [Fds -> {"free", "console", "worker", "file"}]
           /\ line' \in BOOLEAN /\ peer' \in {"none", "connected", "closed"}
           /\ pkts' \in Seq(Commands) /\ notice' \in Nat
           /\ pc' \in {"shell", "recv", "asserted"}
           /\ recv_data' = "freed" /\ sock' = sock /\ wsock' = wsock
           /\ damage' \subseteq {"worker closed", "console closed",
                                 "block freed", "bytes stolen"}
  <1>1. closesocket(sock)  BY DEF Release
  <1>2. damage' \subseteq damage \cup {"worker closed", "block freed"}
    BY DEF Release
  <1> QED  BY <1>1, <1>2, CloseType DEF Release, TypeOK

LEMMA TypeInit == Init => TypeOK
  <1> SUFFICES ASSUME Init  PROVE TypeOK
    OBVIOUS
  <1>1. /\ sessions \in 0 .. MaxSessions /\ packets \in 0 .. MaxPackets
        /\ faults \in 0 .. MaxFaults
    BY BoundsAreNat DEF Init
  <1>2. /\ pkts \in Seq(Commands) /\ notice \in Nat /\ text \in Seq(Commands)
        /\ table \in [Fds -> {"free", "console", "worker", "file"}]
    BY DEF Init
  <1> QED  BY <1>1, <1>2 DEF Init, TypeOK

(* One lemma per part of the session.                                      *)
LEMMA TypeConnect ==
    ASSUME TypeOK,
           my_tcp_control \/ socket_fails \/ socket_made \/ connect_fails
             \/ null_host \/ linked \/ connected,
           UNCHANGED spinning
    PROVE  TypeOK'
  <1> USE DEF owned, conn, bounds
  <1>1. CASE my_tcp_control
    <2>1. faults' \in 0 .. MaxFaults  BY <1>1, FaultType DEF my_tcp_control
    <2>2. sessions \in 0 .. MaxSessions  BY DEF TypeOK
    <2>3. sessions' \in 0 .. MaxSessions
      BY <1>1, <2>2, BoundsAreNat DEF my_tcp_control
    <2> QED  BY <1>1, <2>1, <2>3 DEF my_tcp_control, TypeOK
  <1>2. CASE socket_fails
    BY <1>2, FaultType DEF socket_fails, TypeOK
  <1>3. CASE socket_made
    BY <1>3, NewFdIsFree DEF socket_made, TypeOK, FreeFds
  <1>4. CASE connect_fails
    <2>1. faults' \in 0 .. MaxFaults  BY <1>4, FaultType DEF connect_fails
    <2>2. Release("shell")  BY <1>4 DEF connect_fails, GivesUp
    <2> QED  BY <1>4, <2>1, <2>2, ReleaseType DEF connect_fails, TypeOK
  <1>5. CASE null_host  BY <1>5 DEF null_host, TypeOK
  <1>6. CASE linked  BY <1>6 DEF linked, TypeOK
  <1>7. CASE connected  BY <1>7 DEF connected, TypeOK
  <1> QED  BY <1>1, <1>2, <1>3, <1>4, <1>5, <1>6, <1>7

LEMMA TypeReceive ==
    ASSUME TypeOK,
           recv_ready \/ recv_empty \/ recv_ends \/ recv_blocks
             \/ recv_noticed \/ recv_deleted \/ recv_foreign,
           UNCHANGED spinning
    PROVE  TypeOK'
  <1> USE DEF owned, conn, bounds
  <1>1. CASE recv_ready  
    <2>1. /\ text' = pkts /\ pkts' = <<>> /\ pc' = "answer"
          /\ UNCHANGED <<notice, line, peer, owned, ignored, damage, resolved, bounds>>
      BY <1>1 DEF recv_ready, Take
    <2>2. pkts' \in Seq(Commands)  BY <2>1
    <2> QED  BY <2>1, <2>2 DEF TypeOK
  <1>2. CASE recv_ends
    <2>1. faults' \in 0 .. MaxFaults  BY <1>2, FaultType DEF recv_ends
    <2>2. Release("shell")  BY <1>2 DEF recv_ends
    <2> QED  BY <1>2, <2>1, <2>2, ReleaseType DEF recv_ends, TypeOK
  <1>3. CASE recv_blocks  BY <1>3 DEF recv_blocks, TypeOK
  <1>4. CASE recv_noticed
    <2>1. notice \in Nat  BY DEF TypeOK
    <2>2. notice' \in Nat /\ UNCHANGED <<line, peer, owned, ignored, damage, resolved, bounds>>
      BY <1>4, <2>1 DEF recv_noticed, Take
    <2>3. \/ text' = pkts /\ pkts' = <<>> /\ pc' = "answer"
          \/ UNCHANGED <<pc, text, pkts>>
      BY <1>4 DEF recv_noticed, Take
    <2>4. pkts \in Seq(Commands) /\ text \in Seq(Commands)  BY DEF TypeOK
    <2>5. pkts' \in Seq(Commands) /\ text' \in Seq(Commands)
      <3>1. CASE text' = pkts /\ pkts' = <<>>  BY <2>4, <3>1
      <3>2. CASE UNCHANGED <<text, pkts>>  BY <2>4, <3>2
      <3> QED  BY <2>3, <3>1, <3>2
    <2>6. pc' \in {"shell", "socket", "connect", "store", "recv", "look", "wait",
                   "answer", "opening", "asserted", "undefined"}
      BY <2>3 DEF TypeOK
    <2> QED  BY <2>2, <2>5, <2>6, ZenonT(30) DEF TypeOK
  <1>5. CASE recv_deleted
    <2>1. Release("shell")  BY <1>5 DEF recv_deleted
    <2> QED  BY <1>5, <2>1, ReleaseType DEF recv_deleted, TypeOK
  <1>6. CASE recv_foreign
    <2>1. damage' = damage \cup {"bytes stolen"}  BY <1>6 DEF recv_foreign
    <2> QED  BY <1>6, <2>1 DEF recv_foreign, TypeOK
  <1>7. CASE recv_empty  BY <1>7 DEF recv_empty, TypeOK
  <1> QED  BY <1>1, <1>2, <1>3, <1>4, <1>5, <1>6, <1>7

LEMMA TypeOthers ==
    ASSUME TypeOK,
           AtParser \/ worker_connects \/ worker_closes \/ worker_spins
             \/ heap_reuses
    PROVE  TypeOK'
  <1> USE DEF owned, conn, bounds
  <1>1. CASE (\E c \in Commands : at_recv_notice_cb(c)) /\ UNCHANGED spinning
    <2>1. PICK c \in Commands : at_recv_notice_cb(c)  BY <1>1
    <2>2. pkts \in Seq(Commands) /\ notice \in Nat /\ packets \in 0 .. MaxPackets
      BY DEF TypeOK
    <2>3. pkts' \in Seq(Commands) /\ notice' \in Nat /\ packets' \in 0 .. MaxPackets
      BY <2>1, <2>2, BoundsAreNat DEF at_recv_notice_cb
    <2>4. UNCHANGED <<pc, resolved, text, owned, line, peer, ignored, damage,
                      sessions, faults, spinning>>
      BY <1>1, <2>1 DEF at_recv_notice_cb
    <2> QED  BY <2>3, <2>4, ZenonT(30) DEF TypeOK
  <1>2. CASE at_closed_notice_cb /\ UNCHANGED spinning
    <2>1. notice \in Nat  BY DEF TypeOK
    <2>2. notice' \in Nat  BY <1>2, <2>1 DEF at_closed_notice_cb
    <2>3. /\ line' = FALSE /\ peer' = "closed"
          /\ UNCHANGED <<pc, resolved, text, owned, pkts, ignored, damage, bounds, spinning>>
      BY <1>2 DEF at_closed_notice_cb
    <2>4. line' \in BOOLEAN /\ peer' \in {"none", "connected", "closed"}  BY <2>3
    <2> QED  BY <2>2, <2>3, <2>4, ZenonT(30) DEF TypeOK
  <1>3. CASE worker_connects
    <2>1. fd_new \in Fds  BY <1>3, NewFdIsFree DEF worker_connects, FreeFds
    <2> HIDE DEF fd_new
    <2>2. /\ wsock' \in Fds \cup {0}
          /\ table' \in [Fds -> {"free", "console", "worker", "file"}]
      BY <1>3, <2>1 DEF worker_connects, TypeOK
    <2>3. UNCHANGED <<pc, resolved, text, sock, recv_data, spinning, conn,
                      ignored, damage, bounds>>
      BY <1>3 DEF worker_connects
    <2> QED  BY <2>2, <2>3, ZenonT(30) DEF TypeOK
  <1>4. CASE worker_closes
    <2>1. closesocket(wsock) /\ damage' \subseteq damage \cup {"console closed"}
      BY <1>4 DEF worker_closes
    <2> QED  BY <1>4, <2>1, CloseType DEF worker_closes, TypeOK
  <1>5. CASE heap_reuses  BY <1>5 DEF heap_reuses, TypeOK
  <1>6. CASE worker_spins  BY <1>6 DEF worker_spins, TypeOK
  <1> QED  BY <1>1, <1>2, <1>3, <1>4, <1>5, <1>6 DEF AtParser

(* The answers to a received text.                                         *)
LEMMA TypeAnswer ==
    ASSUME TypeOK,
           quit \/ lamp \/ reset_read_position \/ load \/ load_fails \/ other,
           UNCHANGED spinning
    PROVE  TypeOK'
  <1> USE DEF owned, conn, bounds
  <1> <<>> \in Seq(Commands)
    OBVIOUS
  <1>1. CASE quit
    <2>1. Release("shell")  BY <1>1 DEF quit
    <2> QED  BY <1>1, <2>1, ReleaseType DEF quit, Answer, TypeOK
  <1>2. CASE lamp
    <2>1. faults' \in 0 .. MaxFaults  BY <1>2, SendType DEF lamp
    <2>2. CASE Release("shell")
      BY <1>2, <2>1, <2>2, ReleaseType DEF lamp, Answer, TypeOK
    <2>3. CASE pc' = "recv" /\ UNCHANGED <<owned, conn, damage>>
      BY <1>2, <2>1, <2>3 DEF lamp, Answer, TypeOK
    <2> QED  BY <1>2, <2>2, <2>3 DEF lamp, AfterFailed
  <1>3. CASE other
    <2>1. pc' \in {"recv", "undefined"}  BY <1>3 DEF other
    <2> QED  BY <1>3, <2>1 DEF other, Answer, TypeOK
  <1>4. CASE reset_read_position
    <2>1. faults' \in 0 .. MaxFaults  BY <1>4, SendType DEF reset_read_position
    <2>2. text' = <<>> /\ UNCHANGED <<resolved, sessions, packets>>
      BY <1>4 DEF reset_read_position, Answer
    <2>3. CASE Release("recv") /\ ignored' = TRUE
      BY <2>1, <2>2, <2>3, ReleaseType DEF TypeOK
    <2>4. CASE pc' = "recv" /\ UNCHANGED <<owned, conn, ignored, damage>>
      BY <2>1, <2>2, <2>4 DEF TypeOK
    <2> QED  BY <1>4, <2>3, <2>4 DEF reset_read_position
  <1>5. CASE load
    <2>1. FreeFds # {} => fd_new \in Fds  BY NewFdIsFree DEF FreeFds
    <2>2. table' \in [Fds -> {"free", "console", "worker", "file"}]
      BY <1>5, <2>1 DEF load, TypeOK
    <2>3. pc' \in {"recv", "opening"}  BY <1>5 DEF load
    <2> QED  BY <1>5, <2>2, <2>3 DEF load, Answer, TypeOK
  <1>6. CASE load_fails
    <2>1. \A f \in Fds : table[f] \in {"free", "console", "worker", "file"}
      BY DEF TypeOK
    <2>2. table' \in [Fds -> {"free", "console", "worker", "file"}]
      BY <1>6, <2>1 DEF load_fails, PutBack
    <2> QED  BY <1>6, <2>2 DEF load_fails, TypeOK
  <1> QED  BY <1>1, <1>2, <1>3, <1>4, <1>5, <1>6

LEMMA TypeStep == TypeOK /\ [Next]_vars => TypeOK'
  <1> SUFFICES ASSUME TypeOK, [Next]_vars  PROVE TypeOK'
    OBVIOUS
  <1>1. CASE UNCHANGED vars
    BY <1>1, ZenonT(30) DEF vars, owned, conn, bounds, TypeOK
  <1>2. CASE Next
    BY <1>2, TypeConnect, TypeReceive, TypeOthers, TypeAnswer
    DEF Next, ConsoleStep, Environment, Runs
  <1> QED  BY <1>1, <1>2

LEMMA TypeInvariant == Spec => []TypeOK
  BY TypeInit, TypeStep, PTL DEF Spec

(***************************************************************************)
(* Every variable of the console keeps its type: no descriptor outside the *)
(* table is ever handed out, and no step of the session, of the AT socket  *)
(* or of the worker leaves the states TypeOK lists.                        *)
(***************************************************************************)
THEOREM ConsoleTypeCorrect == Spec => []TypeOK
  BY TypeInvariant

----------------------------------------------------------------------------
(* What the two invariants about releases look at.                         *)
holds == <<pc, sock, recv_data, table, wsock, ignored, damage>>

HeldInv == HoldInv /\ OwnInv

LEMMA HeldInit == Init => HeldInv
  BY DEF Init, HeldInv, HoldInv, OwnInv, InSession

LEMMA HeldKept ==
    ASSUME HeldInv, UNCHANGED holds
    PROVE  HeldInv'
  BY DEF HeldInv, HoldInv, OwnInv, InSession, Own, holds

(* A move inside the session that takes and releases nothing.              *)
LEMMA HeldMove ==
    ASSUME HeldInv, InSession, pc # "opening",
           pc' \in {"store", "recv", "look", "wait", "answer", "undefined"},
           UNCHANGED <<sock, recv_data, table, wsock, ignored, damage>>
    PROVE  HeldInv'
  BY DEF HeldInv, HoldInv, OwnInv, InSession, Own

(* What closesocket(sock); rt_free(recv_data) does to the table.           *)
LEMMA ReleaseTable ==
    ASSUME TypeOK, HoldInv, NEW next, Release(next)
    PROVE  /\ recv_data' = "freed" /\ sock' = sock /\ wsock' = wsock
           /\ pc' \in {next, "asserted"}
           /\ \A f \in Fds : table'[f] # "console"
           /\ \A f \in Fds : table'[f] = "file" => table[f] = "file"
  <1>1. table \in [Fds -> {"free", "console", "worker", "file"}]
    BY DEF TypeOK
  <1>2. table' = IF IsSocket(sock) THEN [table EXCEPT ![sock] = "free"] ELSE table
    BY DEF Release, closesocket
  <1>3. \A f \in Fds : table[f] = "console" => f = sock /\ IsSocket(sock)
    BY DEF HoldInv, IsSocket
  <1> QED  BY <1>1, <1>2, <1>3 DEF Release

LEMMA HoldRelease ==
    ASSUME TypeOK, HoldInv, InSession, pc # "opening",
           NEW next \in {"shell", "recv"}, Release(next)
    PROVE  HoldInv'
  BY ReleaseTable DEF HoldInv, InSession

(* Without an ignored failure before, a release in a session frees what    *)
(* the console holds and nothing else.                                     *)
LEMMA OwnRelease ==
    ASSUME TypeOK, OwnInv, ~ignored, InSession,
           NEW next, Release(next)
    PROVE  /\ pc' = next /\ damage' = {}
           /\ wsock' # 0 => table'[wsock'] = "worker"
  <1>1. table \in [Fds -> {"free", "console", "worker", "file"}]
        /\ wsock \in Fds \cup {0}
    BY DEF TypeOK
  <1>2. /\ sock \in Fds /\ table[sock] = "console" /\ recv_data = "held"
        /\ wsock # 0 => table[wsock] = "worker"
        /\ damage = {}
    BY DEF OwnInv, Own
  <1>3. pc' = next  BY <1>2 DEF Release
  <1>4. damage' = {}  BY <1>2 DEF Release
  <1>5. table' = [table EXCEPT ![sock] = "free"] /\ wsock' = wsock
    BY <1>2 DEF Release, closesocket, IsSocket
  <1> QED  BY <1>1, <1>2, <1>3, <1>4, <1>5

(* A release that ends the session.                                        *)
LEMMA HeldEnds ==
    ASSUME TypeOK, HeldInv, InSession, pc # "opening", Release("shell"),
           UNCHANGED ignored
    PROVE  HeldInv'
  <1>1. HoldInv'  BY HoldRelease DEF HeldInv
  <1>2. OwnInv'
    BY OwnRelease DEF HeldInv, OwnInv, InSession
  <1> QED  BY <1>1, <1>2 DEF HeldInv

(* A release whose caller goes on.                                         *)
LEMMA HeldIgnored ==
    ASSUME TypeOK, HeldInv, InSession, pc # "opening",
           Release("recv"), ignored'
    PROVE  HeldInv'
  BY HoldRelease DEF HeldInv, OwnInv

(* A descriptor that was free goes to somebody.                            *)
LEMMA HeldTaken ==
    ASSUME TypeOK, HeldInv, FreeFds # {},
           NEW who \in {"worker", "file"},
           table' = [table EXCEPT ![fd_new] = who],
           who = "worker" => wsock = 0 /\ wsock' = fd_new /\ pc' = pc,
           who = "file" => pc = "answer" /\ pc' = "opening" /\ wsock' = wsock,
           UNCHANGED <<sock, recv_data, ignored, damage>>
    PROVE  HeldInv'
  <1>1. fd_new \in Fds /\ table[fd_new] = "free"
    BY NewFdIsFree DEF FreeFds
  <1>2. table \in [Fds -> {"free", "console", "worker", "file"}]
        /\ wsock \in Fds \cup {0}
    BY DEF TypeOK
  <1> HIDE DEF fd_new
  <1>3. \A f \in Fds : table'[f] = IF f = fd_new THEN who ELSE table[f]
    BY <1>1, <1>2
  <1>4. HoldInv'  BY <1>1, <1>3 DEF HeldInv, HoldInv
  <1>5. ~ignored' /\ wsock' # 0 => table'[wsock'] = "worker"
    BY <1>1, <1>2, <1>3 DEF HeldInv, OwnInv
  <1>6. Own => Own'  BY <1>1, <1>3 DEF Own
  <1>7. OwnInv'  BY <1>5, <1>6 DEF HeldInv, OwnInv, InSession
  <1> QED  BY <1>4, <1>7 DEF HeldInv

LEMMA HeldConsole ==
    ASSUME TypeOK, HeldInv, ConsoleStep
    PROVE  HeldInv'
  <1> USE DEF owned, conn
  <1>1. CASE socket_fails
    BY <1>1 DEF socket_fails, HeldInv, HoldInv, OwnInv, InSession
  <1>2. CASE socket_made
    <2>1. fd_new \in Fds /\ table[fd_new] = "free"
      BY <1>2, NewFdIsFree DEF socket_made, FreeFds
    <2>2. table \in [Fds -> {"free", "console", "worker", "file"}]
          /\ wsock \in Fds \cup {0}
      BY DEF TypeOK
    <2> HIDE DEF fd_new
    <2>3. /\ pc = "socket" /\ pc' = "connect" /\ sock' = fd_new
          /\ table' = [table EXCEPT ![fd_new] = "console"]
          /\ UNCHANGED <<recv_data, wsock, ignored, damage>>
      BY <1>2 DEF socket_made
    <2>4. \A f \in Fds : table'[f] = IF f = fd_new THEN "console" ELSE table[f]
      BY <2>1, <2>2, <2>3
    <2>5. HoldInv'  BY <2>3, <2>4 DEF HeldInv, HoldInv
    <2>6. OwnInv'
      BY <2>1, <2>2, <2>3, <2>4 DEF HeldInv, OwnInv, InSession, Own
    <2> QED  BY <2>5, <2>6 DEF HeldInv
  <1>3. CASE connect_fails
    BY <1>3, HeldEnds DEF connect_fails, GivesUp, InSession
  <1>4. CASE null_host  BY <1>4, HeldMove DEF null_host, InSession
  <1>5. CASE connected  BY <1>5, HeldMove DEF connected, InSession
  <1>6. CASE recv_ready  BY <1>6, HeldMove DEF recv_ready, Take, InSession
  <1>7. CASE recv_ends  BY <1>7, HeldEnds DEF recv_ends, InSession
  <1>8. CASE recv_blocks  BY <1>8, HeldMove DEF recv_blocks, InSession
  <1>9. CASE recv_noticed
    <2>1. /\ pc = "wait" /\ pc' \in {pc, "answer"}
          /\ UNCHANGED <<sock, recv_data, table, wsock, ignored, damage>>
      BY <1>9 DEF recv_noticed, Take
    <2> QED  BY <2>1, HeldMove DEF InSession
  <1>10. CASE recv_deleted  BY <1>10, HeldEnds DEF recv_deleted, InSession
  <1>11. CASE recv_foreign
    BY <1>11 DEF recv_foreign, HeldInv, HoldInv, OwnInv, InSession, Own
  <1>12. CASE quit  BY <1>12, HeldEnds DEF quit, Answer, InSession
  <1>13. CASE lamp
    <2>1. CASE Release("shell")
      BY <1>13, <2>1, HeldEnds DEF lamp, Answer, InSession
    <2>2. CASE pc' = "recv" /\ UNCHANGED <<owned, conn, damage>>
      BY <1>13, <2>2, HeldMove DEF lamp, Answer, InSession
    <2> QED  BY <1>13, <2>1, <2>2 DEF lamp, AfterFailed
  <1>14. CASE other
    <2>1. pc' \in {"recv", "undefined"}  BY <1>14 DEF other
    <2> QED  BY <1>14, <2>1, HeldMove DEF other, Answer, InSession
  <1>15. CASE reset_read_position
    <2>1. pc = "answer"  BY <1>15 DEF reset_read_position, Answer
    <2>2. CASE Release("recv") /\ ignored' = TRUE
      BY <2>1, <2>2, HeldIgnored DEF InSession
    <2>3. CASE pc' = "recv" /\ UNCHANGED <<owned, conn, ignored, damage>>
      BY <2>1, <2>3, HeldMove DEF InSession
    <2> QED  BY <1>15, <2>2, <2>3 DEF reset_read_position
  <1>16. CASE load
    <2>1. CASE FreeFds # {}
      BY <1>16, <2>1, HeldTaken DEF load, Answer
    <2>2. CASE FreeFds = {}
      BY <1>16, <2>2, HeldMove DEF load, Answer, InSession
    <2> QED  BY <2>1, <2>2
  <1>17. CASE load_fails
    <2>1. /\ pc = "opening" /\ pc' = "recv"
          /\ table' = [f \in Fds |-> IF table[f] = "file" THEN "free" ELSE table[f]]
          /\ UNCHANGED <<sock, recv_data, wsock, ignored, damage>>
      BY <1>17 DEF load_fails, PutBack
    <2>2. wsock \in Fds \cup {0}  BY DEF TypeOK
    <2>3. HoldInv'  BY <2>1 DEF HeldInv, HoldInv
    <2>4. OwnInv'  BY <2>1, <2>2 DEF HeldInv, OwnInv, InSession, Own
    <2> QED  BY <2>3, <2>4 DEF HeldInv
  <1>18. CASE linked  BY <1>18, HeldMove DEF linked, InSession
  <1>19. CASE recv_empty  BY <1>19, HeldMove DEF recv_empty, InSession
  <1> QED
    BY <1>1, <1>2, <1>3, <1>4, <1>5, <1>6, <1>7, <1>8, <1>9, <1>10, <1>11,
       <1>12, <1>13, <1>14, <1>15, <1>16, <1>17, <1>18, <1>19
    DEF ConsoleStep

LEMMA HeldEnvironment ==
    ASSUME TypeOK, HeldInv, Environment
    PROVE  HeldInv'
  <1> USE DEF owned, conn
  <1>1. CASE my_tcp_control
    BY <1>1 DEF my_tcp_control, HeldInv, HoldInv, OwnInv, InSession
  <1>2. CASE \E c \in Commands : at_recv_notice_cb(c)
    BY <1>2, HeldKept DEF at_recv_notice_cb, holds
  <1>3. CASE at_closed_notice_cb
    BY <1>3, HeldKept DEF at_closed_notice_cb, holds
  <1>4. CASE worker_connects
    BY <1>4, HeldTaken DEF worker_connects
  <1>5. CASE worker_closes
    <2>1. table \in [Fds -> {"free", "console", "worker", "file"}]
          /\ wsock \in Fds
      BY <1>5 DEF worker_closes, TypeOK, TypeOK
    <2>2. /\ wsock' = 0 /\ UNCHANGED <<pc, sock, recv_data, ignored>>
          /\ table' = IF IsSocket(wsock) THEN [table EXCEPT ![wsock] = "free"] ELSE table
      BY <1>5 DEF worker_closes, closesocket
    <2>3. HoldInv'  BY <2>1, <2>2 DEF HeldInv, HoldInv
    <2>4. ~ignored => /\ table[wsock] = "worker" /\ damage' = damage
                      /\ (Own => Own')
      BY <1>5, <2>1, <2>2 DEF HeldInv, OwnInv, worker_closes, Own
    <2>5. OwnInv'  BY <2>2, <2>4 DEF HeldInv, OwnInv, InSession
    <2> QED  BY <2>3, <2>5 DEF HeldInv
  <1>6. CASE heap_reuses
    BY <1>6 DEF heap_reuses, HeldInv, HoldInv, OwnInv, InSession, Own
  <1>7. CASE worker_spins
    BY <1>7, HeldKept DEF worker_spins, holds
  <1> QED  BY <1>1, <1>2, <1>3, <1>4, <1>5, <1>6, <1>7 DEF Environment, AtParser

LEMMA HeldInvariant == Spec => []HeldInv
  <1>1. TypeOK /\ HeldInv /\ [Next]_vars => HeldInv'
    <2>1. TypeOK /\ HeldInv /\ UNCHANGED vars => HeldInv'
      BY HeldKept DEF vars, owned, holds
    <2> QED  BY <2>1, HeldConsole, HeldEnvironment DEF Next
  <1> QED  BY <1>1, HeldInit, TypeInvariant, PTL DEF Spec

(***************************************************************************)
(* Every way out of my_tcp_control leaves no descriptor of the connection  *)
(* or of a log, and no buffer.                                             *)
(***************************************************************************)
THEOREM NothingLeaksCorrect == Spec => []NothingLeaks
  <1>1. HeldInv => NothingLeaks  BY DEF HeldInv, HoldInv, NothingLeaks
  <1> QED  BY <1>1, HeldInvariant, PTL

(***************************************************************************)
(* Until a failed send of a reset's feedback is ignored, nothing is        *)
(* released twice and nothing of the worker's is touched.                  *)
(***************************************************************************)
THEOREM ReleasedOnceCorrect == Spec => []ReleasedOnce
  <1>1. HeldInv => ReleasedOnce  BY DEF HeldInv, OwnInv, ReleasedOnce
  <1> QED  BY <1>1, HeldInvariant, PTL
=============================================================================
