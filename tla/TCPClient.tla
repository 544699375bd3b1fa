----------------------------- MODULE TCPClient -----------------------------
(***************************************************************************)
(* Communication::TCP (src/src/tcp_client.cpp) on top of                   *)
(* Communication::Client (src/src/com_client.cpp): one application thread  *)
(* opens and closes connections, others call readS and writeS on the same  *)
(* object under its m_mutex.                                               *)
(*                                                                         *)
(* A step is one system call or one access to m_fd, m_is_connected or the  *)
(* mutex.  A byte is <<k, i>>: the i-th byte sent to socket k.  A          *)
(* definition marked "Slip" is the next one with a mistake in it.          *)
(***************************************************************************)
EXTENDS TaggedBytes

CONSTANTS
  Readers, Writers,  \* application threads calling readS, writeS
  Socks,             \* the sockets that calls of open_connection create
  MaxBytes,          \* bound: bytes the peer of each socket sends
  MaxSize,           \* bound: the largest size asked of readS
  MaxErrors          \* bound: how far below zero readS counts

ASSUME ThreadsAssumption == Readers \cap Writers = {} /\ "free" \notin Readers \cup Writers
ASSUME SocksAssumption == "none" \notin Socks
ASSUME ClientBounds == MaxBytes \in [Socks -> Nat] /\ MaxSize \in Nat /\ MaxErrors \in Nat \ {0}

VARIABLES
  proc,             \* "up", or "undefined" or "sigpipe"
  sstate,           \* of a socket: "unused", "fresh", "connecting", "open",
                    \* "fin" (peer closed), "error" (refused or reset, not yet
                    \* reported), "dead" (reported: reads as an end of stream)
  closed,           \* sockets whose descriptor has been closed, or never made
  blocking,         \* sockets without O_NONBLOCK
  rbuf, sent,       \* bytes received and not yet read; how many were sent
  m_fd, m_is_connected, m_mutex,
  opc,              \* the thread in open_connection or close_connection
  rpc, want, n, until, \* readS: its size, n and read_until
  rs,               \* the socket that a recv() or send() was called on
  buffer,           \* history: what a readS has received so far
  returned,         \* history: what the finished readS calls received, per socket
  wpc               \* writeS

sockVars == <<sstate, closed, blocking, rbuf, sent>>
readVars == <<rpc, want, n, until, buffer, returned>>
vars == <<proc, sockVars, m_fd, m_is_connected, m_mutex, opc, readVars, rs, wpc>>

Byte == UNION {{k} \X (1 .. MaxBytes[k]) : k \in Socks}
Stream(k) == [i \in 1 .. sent[k] |-> <<k, i>>]
Update(f, x, v) == [f EXCEPT ![x] = v]

Init ==
  /\ proc = "up"
  /\ sstate = [k \in Socks |-> "unused"]
  /\ closed = {} /\ blocking = Socks
  /\ rbuf = [k \in Socks |-> <<>>] /\ sent = [k \in Socks |-> 0]
  /\ m_fd = "none" /\ m_is_connected = FALSE /\ m_mutex = "free"
  /\ opc = "idle"
  /\ rpc = [t \in Readers |-> "idle"]
  /\ rs = [t \in Readers \cup Writers |-> "none"]
  /\ want = [t \in Readers |-> 0] /\ n = [t \in Readers |-> 0]
  /\ until = [t \in Readers |-> FALSE]
  /\ buffer = [t \in Readers |-> <<>>]
  /\ returned = [k \in Socks |-> <<>>]
  /\ wpc = [t \in Writers |-> "idle"]

-----------------------------------------------------------------------------
(* The kernel and the peers.                                                *)

peerFrame == <<proc, closed, blocking, m_fd, m_is_connected, m_mutex, opc, readVars, rs, wpc>>

Handshake(k) ==
  /\ sstate[k] = "connecting"
  /\ sstate' \in {Update(sstate, k, s) : s \in {"open", "error"}}
  /\ UNCHANGED <<peerFrame, rbuf, sent>>

PeerSends(k) ==
  /\ sstate[k] = "open" /\ sent[k] < MaxBytes[k]
  /\ sent' = [sent EXCEPT ![k] = @ + 1]
  /\ rbuf' = [rbuf EXCEPT ![k] = Append(@, <<k, sent[k] + 1>>)]
  /\ UNCHANGED <<peerFrame, sstate>>

PeerLeaves(k) ==
  /\ sstate[k] = "open"
  /\ sstate' \in {Update(sstate, k, s) : s \in {"fin", "error"}}
  /\ UNCHANGED <<peerFrame, rbuf, sent>>

Peer(k) == Handshake(k) \/ PeerSends(k) \/ PeerLeaves(k)

-----------------------------------------------------------------------------
(* open_connection: it neither closes the previous connection nor resets    *)
(* m_is_connected, and takes the mutex only to set O_NONBLOCK.              *)

openFrame == <<proc, rbuf, sent, m_mutex, readVars, rs, wpc>>

(* socket() may fail: INVALID_SOCKET does what a closed descriptor does.    *)
Open(k) ==
  /\ opc = "idle" /\ sstate[k] = "unused"
  /\ sstate' = Update(sstate, k, "fresh")
  /\ m_fd' = k
  /\ \/ opc' \in {"nonblock", "connect",   \* with and without a timeout
                  "idle"}                  \* unknown host: throws
        /\ UNCHANGED closed
     \/ closed' = closed \cup {k} /\ UNCHANGED opc
  /\ UNCHANGED <<openFrame, blocking, m_is_connected>>

SetNonBlocking ==
  /\ opc = "nonblock" /\ m_mutex = "free"
  /\ blocking' = blocking \ {m_fd}
  /\ opc' = "connectNB"
  /\ UNCHANGED <<openFrame, closed, sstate, m_fd, m_is_connected>>

(* connect() waits for the outcome if the socket is blocking.               *)
Connect ==
  \/ /\ opc \in {"connect", "connectNB"}
     /\ sstate' = Update(sstate, m_fd, "open")
     /\ opc' = IF opc = "connect" THEN "result" ELSE "madeNB"
     /\ UNCHANGED <<openFrame, closed, blocking, m_fd, m_is_connected>>
  \/ /\ opc \in {"connect", "connectNB"}
     /\ opc' = IF opc = "connect" THEN "idle" ELSE "refusedNB"
     /\ UNCHANGED <<openFrame, closed, sstate, blocking, m_fd, m_is_connected>>
  \/ /\ opc = "connectNB"
     /\ sstate' = Update(sstate, m_fd, "connecting")
     /\ opc' = "progressNB"
     /\ UNCHANGED <<openFrame, closed, blocking, m_fd, m_is_connected>>

(* Slip: what was refused at once throws with O_NONBLOCK still set.         *)
SetBlockingUnlessRefused ==
  /\ opc \in {"madeNB", "refusedNB", "progressNB"} /\ m_mutex = "free"
  /\ blocking' = IF opc = "refusedNB" THEN blocking ELSE blocking \cup {m_fd}
  /\ opc' = CASE opc = "madeNB" -> "result" [] opc = "progressNB" -> "select" [] OTHER -> "idle"
  /\ UNCHANGED <<openFrame, closed, sstate, m_fd, m_is_connected>>

SetBlocking ==
  /\ opc \in {"madeNB", "refusedNB", "progressNB"} /\ m_mutex = "free"
  /\ blocking' = blocking \cup {m_fd}
  /\ opc' = CASE opc = "madeNB" -> "result" [] opc = "progressNB" -> "select" [] OTHER -> "idle"
  /\ UNCHANGED <<openFrame, closed, sstate, m_fd, m_is_connected>>

(* Slip: select() is given no timeout.                                      *)
SelectForEver ==
  /\ opc = "select"
  /\ sstate[m_fd] # "connecting"
  /\ opc' = "result"
  /\ UNCHANGED <<openFrame, closed, sstate, blocking, m_fd, m_is_connected>>

(* The timeout may come first: the socket is left as it is.                 *)
Select ==
  /\ opc = "select"
  /\ opc' \in IF sstate[m_fd] # "connecting" THEN {"result"} ELSE {"idle"}
  /\ UNCHANGED <<openFrame, closed, sstate, blocking, m_fd, m_is_connected>>

(* SO_ERROR, which reports an error once.                                   *)
OpenResult ==
  /\ opc = "result"
  /\ opc' = "idle"
  /\ IF sstate[m_fd] = "error"
     THEN sstate' = Update(sstate, m_fd, "dead") /\ UNCHANGED m_is_connected
     ELSE m_is_connected' = TRUE /\ UNCHANGED sstate
  /\ UNCHANGED <<openFrame, closed, blocking, m_fd>>

(* close_connection: the descriptor first, then the flag, without the mutex.*)
closeFrame == <<proc, sstate, blocking, rbuf, sent, m_fd, m_mutex, readVars, rs, wpc>>

Close ==
  /\ opc = "idle" /\ m_fd # "none"
  /\ closed' = closed \cup {m_fd}
  /\ opc' = "closed"
  /\ UNCHANGED <<closeFrame, m_is_connected>>

Closed ==
  /\ opc = "closed"
  /\ m_is_connected' = FALSE
  /\ opc' = "idle"
  /\ UNCHANGED <<closeFrame, closed>>

-----------------------------------------------------------------------------
(* readS(buffer, size, false, read_until) of thread t.                      *)

readFrame == <<closed, blocking, sent, m_fd, m_is_connected, opc, wpc>>

(* Slip: the lock_guard is left out.                                        *)
ReadUnlocked(t) ==
  /\ rpc[t] = "idle" /\ m_is_connected
  /\ rpc' = Update(rpc, t, "enter")
  /\ \E size \in 1 .. MaxSize, u \in BOOLEAN :
       want' = Update(want, t, size) /\ until' = Update(until, t, u)
  /\ UNCHANGED <<readFrame, proc, sstate, rbuf, m_mutex, rs, n, buffer, returned>>

(* A call made while m_is_connected is false returns -1 and changes nothing.*)
ReadS(t) ==
  /\ rpc[t] = "idle" /\ m_mutex = "free" /\ m_is_connected
  /\ rpc' = Update(rpc, t, "enter")
  /\ m_mutex' = t
  /\ \E size \in 1 .. MaxSize, u \in BOOLEAN :
       want' = Update(want, t, size) /\ until' = Update(until, t, u)
  /\ UNCHANGED <<readFrame, proc, sstate, rbuf, rs, n, buffer, returned>>

(* The call of recv(m_fd, ...), which a later close() or open() does not    *)
(* take back.                                                               *)
RecvEnter(t) ==
  /\ rpc[t] = "enter"
  /\ rs' = Update(rs, t, m_fd)
  /\ rpc' = Update(rpc, t, IF m_fd \in closed THEN "failed" ELSE "recv")
  /\ UNCHANGED <<readFrame, proc, sstate, rbuf, m_mutex, want, n, until, buffer, returned>>

(* The third argument of recv().                                            *)
Room(t) == want[t] - n[t]

(* Slip: the loop is left when n exceeds size.                              *)
DoneLate(t, m) == m > want[t] \/ ~until[t]

Done(t, m) == m = want[t] \/ ~until[t]

(* recv() has returned r; n becomes m.                                      *)
RecvReturns(t, m, bytes) ==
  /\ IF Done(t, m)
     THEN /\ rpc' = Update(rpc, t, "idle")
          /\ m_mutex' = "free"
          /\ returned' = [k \in Socks |-> returned[k] \o From(k, bytes)]
          /\ buffer' = Update(buffer, t, <<>>)
          /\ n' = Update(n, t, 0) /\ want' = Update(want, t, 0) /\ until' = Update(until, t, FALSE)
     ELSE /\ rpc' = Update(rpc, t, "enter")
          /\ buffer' = Update(buffer, t, bytes)
          /\ n' = Update(n, t, m)
          /\ UNCHANGED <<m_mutex, returned, want, until>>
  /\ rs' = Update(rs, t, "none")
  /\ UNCHANGED readFrame

(* Bytes go to buffer + n: in front of the buffer if n is negative.         *)
RecvData(t) ==
  LET k == rs[t]
      r == IF Len(rbuf[k]) < Room(t) THEN Len(rbuf[k]) ELSE Room(t) IN
  /\ rpc[t] = "recv" /\ rbuf[k] # <<>>
  /\ rbuf' = Update(rbuf, k, SubSeq(rbuf[k], r + 1, Len(rbuf[k])))
  /\ proc' = IF n[t] < 0 THEN "undefined" ELSE proc
  /\ RecvReturns(t, n[t] + r, buffer[t] \o SubSeq(rbuf[k], 1, r))
  /\ UNCHANGED sstate

(* 0: the end of the stream.  The loop adds it and goes on.                 *)
RecvEof(t) ==
  /\ rpc[t] = "recv" /\ rbuf[rs[t]] = <<>> /\ sstate[rs[t]] \in {"fin", "dead"}
  /\ RecvReturns(t, n[t], buffer[t])
  /\ UNCHANGED <<proc, sstate, rbuf>>

(* -1: a closed descriptor, a pending error, EAGAIN or ENOTCONN.  The loop  *)
(* adds it to n.                                                            *)
RecvFails(t) ==
  LET k == rs[t] IN
  /\ \/ rpc[t] = "failed"
     \/ rpc[t] = "recv" /\ rbuf[k] = <<>> /\ sstate[k] \in {"error", "fresh"}
     \/ rpc[t] = "recv" /\ rbuf[k] = <<>> /\ sstate[k] \in {"open", "connecting"} /\ k \notin blocking
  /\ sstate' = IF rpc[t] = "recv" /\ sstate[k] = "error" THEN Update(sstate, k, "dead") ELSE sstate
  /\ RecvReturns(t, IF n[t] > -MaxErrors THEN n[t] - 1 ELSE n[t], buffer[t])
  /\ UNCHANGED <<proc, rbuf>>

-----------------------------------------------------------------------------
(* writeS of thread t: the mutex is held across send().                     *)

writeFrame == <<closed, blocking, rbuf, sent, m_fd, m_is_connected, opc, readVars>>

WriteS(t) ==
  /\ wpc[t] = "idle" /\ m_mutex = "free" /\ m_is_connected
  /\ wpc' = Update(wpc, t, "send")
  /\ m_mutex' = t
  /\ rs' = Update(rs, t, m_fd)
  /\ UNCHANGED <<writeFrame, proc, sstate>>

SendReturns(t) ==
  /\ wpc[t] = "send"
  /\ wpc' = Update(wpc, t, "idle")
  /\ m_mutex' = "free"
  /\ rs' = Update(rs, t, "none")
  /\ UNCHANGED writeFrame

(* Sent, or refused with EBADF or EAGAIN; a blocking send() waits for the   *)
(* connection to be made.                                                   *)
Send(t) ==
  /\ SendReturns(t)
  /\ \/ rs[t] \in closed \/ sstate[rs[t]] = "open"
     \/ sstate[rs[t]] = "connecting" /\ rs[t] \notin blocking
  /\ UNCHANGED <<proc, sstate>>

(* The peer answers what reaches it after its close() with a reset.         *)
SendToFin(t) ==
  /\ SendReturns(t)
  /\ rs[t] \notin closed /\ sstate[rs[t]] = "fin"
  /\ sstate' = Update(sstate, rs[t], "error")
  /\ UNCHANGED proc

(* SIGPIPE, unless there was an error to report instead.                    *)
SendFails(t) ==
  /\ SendReturns(t)
  /\ rs[t] \notin closed /\ sstate[rs[t]] \in {"error", "dead", "fresh"}
  /\ proc' \in {"sigpipe"} \cup (IF sstate[rs[t]] = "error" THEN {proc} ELSE {})
  /\ sstate' = IF sstate[rs[t]] = "error" THEN Update(sstate, rs[t], "dead") ELSE sstate

-----------------------------------------------------------------------------
OpenStep == SetNonBlocking \/ Connect \/ SetBlocking \/ Select \/ OpenResult \/ Closed
Recv(t) == RecvEnter(t) \/ RecvData(t) \/ RecvEof(t) \/ RecvFails(t)
Reader(t) == ReadS(t) \/ Recv(t)
SendStep(t) == Send(t) \/ SendToFin(t) \/ SendFails(t)
Writer(t) == WriteS(t) \/ SendStep(t)

Next ==
  /\ proc = "up"
  /\ \/ \E k \in Socks : Open(k) \/ Peer(k)
     \/ OpenStep
     \/ Close
     \/ \E t \in Readers : Reader(t)
     \/ \E t \in Writers : Writer(t)

Spec == Init /\ [][Next]_vars

(* A call that can go on does.  std::mutex is not assumed to be fair: no    *)
(* thread waiting for it is promised its turn.                              *)
Fairness ==
  /\ WF_vars(proc = "up" /\ OpenStep)
  /\ \A t \in Readers : WF_vars(proc = "up" /\ Recv(t))
  /\ \A t \in Writers : WF_vars(proc = "up" /\ SendStep(t))

FairSpec == Spec /\ Fairness

-----------------------------------------------------------------------------
(* Properties.                                                              *)

(* Every variable keeps its type (com_client.hpp:156-160, the locals of     *)
(* open_connection and readS in tcp_client.cpp).                            *)
TypeOK ==
  /\ proc \in {"up", "undefined", "sigpipe"}
  /\ sstate \in [Socks -> {"unused", "fresh", "connecting", "open", "fin", "error", "dead"}]
  /\ closed \subseteq Socks /\ blocking \subseteq Socks
  /\ rbuf \in [Socks -> Seq(Byte)] /\ \A k \in Socks : sent[k] \in 0 .. MaxBytes[k]
  /\ m_fd \in Socks \cup {"none"} /\ m_is_connected \in BOOLEAN
  /\ m_mutex \in Readers \cup Writers \cup {"free"}
  /\ opc \in {"idle", "nonblock", "connect", "connectNB", "madeNB", "refusedNB",
              "progressNB", "select", "result", "closed"}
  /\ rpc \in [Readers -> {"idle", "enter", "recv", "failed"}]
  /\ want \in [Readers -> 0 .. MaxSize] /\ n \in [Readers -> Int]
  /\ \A t \in Readers : n[t] \in -MaxErrors .. want[t]
  /\ until \in [Readers -> BOOLEAN]
  /\ rs \in [Readers \cup Writers -> Socks \cup {"none"}]
  /\ buffer \in [Readers -> Seq(Byte)] /\ DOMAIN returned = Socks
  /\ wpc \in [Writers -> {"idle", "send"}]

(* What the readS that holds the mutex has received.                        *)
InHand == IF m_mutex \in Readers THEN buffer[m_mutex] ELSE <<>>

(* The readS calls of all threads, in the order in which they return, cut   *)
(* the stream of a connection into consecutive pieces: none is shared or    *)
(* mixed, also when a connection is closed or replaced in the middle of a   *)
(* call (tcp_client.cpp:112-134).                                           *)
PiecesOfStream ==
  proc = "up" => \A k \in Socks :
    returned[k] \o From(k, InHand) \o rbuf[k] = Stream(k)

(* A socket has O_NONBLOCK only while open_connection is between its two    *)
(* calls of SetSocketBlockingEnabled, whatever connect() says               *)
(* (tcp_client.cpp:38-42).                                                  *)
NonBlockingOnlyInConnect ==
  \A k \in Socks : k \notin blocking => m_fd = k /\ opc \in {"connectNB", "madeNB", "refusedNB", "progressNB"}

(* Whoever holds the mutex is inside recv() or send(), and nobody is        *)
(* without it (tcp_client.cpp:112, 142).                                    *)
MutexGuardsSocket ==
  \A t \in Readers \cup Writers : rs[t] # "none" => m_mutex = t

(* open_connection returns or throws, by its timeout if need be, once the   *)
(* other threads have let go of the mutex for good                          *)
(* (tcp_client.cpp:38-59).                                                  *)
OpenReturns ==
  <>[](m_mutex = "free") => (opc # "idle" ~> opc = "idle" \/ proc # "up")

(* A readS that waits for bytes which have arrived returns, unless an error *)
(* has made it lose count, or the connection is replaced or closed under it *)
(* (tcp_client.cpp:116-134).                                                *)
ReadReturns ==
  \A t \in Readers, k \in Socks :
    rpc[t] = "recv" /\ rs[t] = k /\ n[t] >= 0 /\ n[t] + Len(rbuf[k]) >= want[t]
      ~> rpc[t] = "idle" \/ m_fd # k \/ k \in closed \/ proc # "up"

-----------------------------------------------------------------------------
(* What the repository says and the code does not do.                       *)

(* "Data store in buffer." (com_client.hpp:82): readS writes nothing in     *)
(* front of its buffer.  A failed recv() makes n negative, and the next one *)
(* is given buffer + n (tcp_client.cpp:116-118).                            *)
StoresInBuffer == proc # "undefined"
=============================================================================
