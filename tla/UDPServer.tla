----------------------------- MODULE UDPServer -----------------------------
(***************************************************************************)
(* Communication::UDPServer (src/include/udp_client.hpp) on top of         *)
(* Communication::Server, with clients that write to it over a network     *)
(* that loses, doubles and reorders datagrams.                             *)
(*                                                                         *)
(* A byte is <<a, k, i>>: the i-th byte of the k-th datagram of address a. *)
(* A definition marked "Slip" is the next one with a mistake in it.        *)
(***************************************************************************)
EXTENDS Integers, Sequences, Bags, BagsExt

CONSTANTS
  Clients,      \* the sockets of the clients
  HostOf,       \* the IP address of each address
  RecvSize,     \* what recvfrom takes of a datagram (1023 in the code)
  MaxLen,       \* bound: length of a datagram
  MaxWrites,    \* bound: datagrams sent by a client, by send_data, by broadcast
  MaxDoubles    \* bound: datagrams that the network doubles

\* The server's m_fd and the temporary socket of broadcast().
Addresses == Clients \cup {"server", "broadcast"}

ASSUME HostsAssumption == DOMAIN HostOf = Addresses
ASSUME SizesAssumption ==
  RecvSize \in Nat \ {0} /\ MaxLen \in Nat /\ MaxWrites \in Nat /\ MaxDoubles \in Nat
ASSUME ClientsAssumption == Clients \cap {"server", "broadcast"} = {}

Hosts == {HostOf[a] : a \in Addresses}
Body(a, k, n) == [i \in 1 .. n |-> <<a, k, i>>]
Cut(body, n) == SubSeq(body, 1, IF Len(body) < n THEN Len(body) ELSE n)
Datagram(a, b, body) == [from |-> a, to |-> b, body |-> body]

VARIABLES
  net, doubles,  \* bag of the datagrams in the network; how many it doubled
  m_is_running,
  m_fd,          \* "none", "bound", or "stale": the number of a closed socket
  bound,         \* a socket of the process is bound to m_port
  m_fifos,       \* per IP address
  m_callback,    \* a callback is set
  upc,           \* the thread in start()/stop()
  rpc, dgram,    \* the receive thread; its buffer and client_addr
  called,        \* history: what m_callback was given, per IP address
  written        \* how many datagrams each address has written

netVars == <<net, doubles>>
serverVars == <<m_is_running, m_fd, bound, m_fifos, m_callback, upc, rpc, dgram, called>>
vars == <<netVars, serverVars, written>>

NoDatagram == Datagram("server", "server", <<>>)

Init ==
  /\ net = EmptyBag /\ doubles = 0
  /\ m_is_running = FALSE /\ m_fd = "none" /\ bound = FALSE
  /\ m_fifos = [h \in Hosts |-> <<>>]
  /\ m_callback \in BOOLEAN
  /\ upc = "idle" /\ rpc = "none" /\ dgram = NoDatagram
  /\ called = [h \in Hosts |-> <<>>]
  /\ written = [a \in Addresses |-> 0]

-----------------------------------------------------------------------------
(* The network: every datagram may be lost, a few are doubled.  One for a   *)
(* client may just stay where it is.                                        *)

Lose(d) == /\ d.to = "server"
           /\ net' = BagRemove(net, d)
           /\ UNCHANGED <<doubles, serverVars, written>>

Double(d) == /\ doubles < MaxDoubles
             /\ doubles' = doubles + 1
             /\ net' = BagAdd(net, d)
             /\ UNCHANGED <<serverVars, written>>

-----------------------------------------------------------------------------
(* start() and stop().                                                      *)

userFrame == <<netVars, m_fifos, m_callback, dgram, called, written>>

(* bind() fails while a socket still holds the port.                        *)
StartListening ==
  /\ upc = "idle" /\ ~m_is_running /\ ~bound
  /\ m_is_running' = TRUE /\ m_fd' = "bound" /\ bound' = TRUE
  /\ rpc' = "loop"
  /\ UNCHANGED <<userFrame, upc>>

(* socket() or bind() fails, when m_is_running is already set.              *)
StartThrows ==
  /\ upc = "idle" /\ ~m_is_running
  /\ m_is_running' = TRUE
  /\ m_fd' \in {"none", "stale"}
  /\ UNCHANGED <<userFrame, bound, rpc, upc>>

(* Slip: m_is_running is left to Server::stop.                              *)
StopResetsLate ==
  /\ upc = "idle" /\ m_is_running
  /\ upc' = "joining"
  /\ UNCHANGED <<userFrame, m_is_running, m_fd, bound, rpc>>

Stop ==
  /\ upc = "idle" /\ m_is_running
  /\ m_is_running' = FALSE
  /\ upc' = "joining"
  /\ UNCHANGED <<userFrame, m_fd, bound, rpc>>

(* Server::stop closes nothing once m_is_running is false.                  *)
ServerStop ==
  IF m_is_running
  THEN m_is_running' = FALSE /\ m_fd' = "none" /\ bound' = (bound /\ m_fd # "bound")
  ELSE UNCHANGED <<m_is_running, m_fd, bound>>

(* Slip: the receive thread is detached.                                    *)
LeaveReceive ==
  /\ upc = "joining"
  /\ upc' = "idle"
  /\ ServerStop
  /\ UNCHANGED <<userFrame, rpc>>

JoinReceive ==
  /\ upc = "joining" /\ rpc \in {"none", "exited"}
  /\ rpc' = "none"
  /\ upc' = "idle"
  /\ ServerStop
  /\ UNCHANGED userFrame

-----------------------------------------------------------------------------
(* receive_data.                                                            *)

receiveFrame == <<doubles, m_is_running, m_fd, bound, m_callback, upc, written>>

ReceiveLoop ==
  /\ rpc = "loop"
  /\ rpc' = IF m_is_running THEN "recv" ELSE "exited"
  /\ UNCHANGED <<receiveFrame, net, m_fifos, dgram, called>>

(* EAGAIN, and 5 ms of sleep.                                               *)
ReceiveNothing ==
  /\ rpc = "recv"
  /\ \A d \in BagToSet(net) : d.to # "server"
  /\ rpc' = "loop"
  /\ UNCHANGED <<receiveFrame, net, m_fifos, dgram, called>>

(* Slip: client_addr stays that of the first datagram.                      *)
ReceiveFirstAddr(d) ==
  /\ rpc = "recv" /\ d.to = "server"
  /\ net' = BagRemove(net, d)
  /\ dgram' = CASE d.body = <<>> -> dgram
               [] dgram = NoDatagram -> [d EXCEPT !.body = Cut(@, RecvSize)]
               [] OTHER -> [dgram EXCEPT !.body = Cut(d.body, RecvSize)]
  /\ rpc' = IF d.body = <<>> THEN "loop" ELSE "insert"
  /\ UNCHANGED <<receiveFrame, m_fifos, called>>

(* Slip: the loop is left when recvfrom returns 0, as for TCP.              *)
ReceiveUntilEmpty(d) ==
  /\ rpc = "recv" /\ d.to = "server"
  /\ net' = BagRemove(net, d)
  /\ dgram' = IF d.body = <<>> THEN dgram ELSE [d EXCEPT !.body = Cut(@, RecvSize)]
  /\ rpc' = IF d.body = <<>> THEN "exited" ELSE "insert"
  /\ UNCHANGED <<receiveFrame, m_fifos, called>>

(* What does not fit is lost; an empty datagram is passed over.             *)
Receive(d) ==
  /\ rpc = "recv" /\ d.to = "server"
  /\ net' = BagRemove(net, d)
  /\ dgram' = IF d.body = <<>> THEN dgram ELSE [d EXCEPT !.body = Cut(@, RecvSize)]
  /\ rpc' = IF d.body = <<>> THEN "loop" ELSE "insert"
  /\ UNCHANGED <<receiveFrame, m_fifos, called>>

(* Slip: the FIFO is created afresh for every datagram.                     *)
InsertFresh ==
  /\ rpc = "insert"
  /\ m_fifos' = [m_fifos EXCEPT ![HostOf[dgram.from]] = dgram.body]
  /\ rpc' = "handle"
  /\ UNCHANGED <<receiveFrame, net, dgram, called>>

Insert ==
  /\ rpc = "insert"
  /\ m_fifos' = [m_fifos EXCEPT ![HostOf[dgram.from]] = @ \o dgram.body]
  /\ rpc' = "handle"
  /\ UNCHANGED <<receiveFrame, net, dgram, called>>

(* The callback, or the echo without one.                                   *)
Handle ==
  /\ rpc = "handle"
  /\ IF m_callback
     THEN /\ called' = [called EXCEPT ![HostOf[dgram.from]] = @ \o dgram.body]
          /\ UNCHANGED net
     ELSE /\ net' = BagAdd(net, Datagram("server", dgram.from, dgram.body))
          /\ UNCHANGED called
  /\ rpc' = "loop"
  /\ UNCHANGED <<receiveFrame, m_fifos, dgram>>

-----------------------------------------------------------------------------
(* Calls of the application's threads.                                      *)

(* Datagram number written[a] + 1 of address a.                             *)
Sent(a, b, n) ==
  /\ written[a] < MaxWrites
  /\ written' = [written EXCEPT ![a] = @ + 1]
  /\ net' = BagAdd(net, Datagram(a, b, Body(a, written[a] + 1, n)))
  /\ UNCHANGED doubles

(* send_data on m_fd.  It works after stop() too: m_fd is still open.       *)
SendData(c) ==
  /\ m_fd = "bound"
  /\ \E n \in 0 .. MaxLen : Sent("server", c, n)
  /\ UNCHANGED serverVars

(* broadcast(): to m_port of every host, which is where this server itself  *)
(* receives; the clients' sockets have other ports.                         *)
Broadcast ==
  /\ bound
  /\ \E n \in 0 .. MaxLen : Sent("broadcast", "server", n)
  /\ UNCHANGED serverVars

(* sendto() of a client.                                                    *)
ClientWrites(c) ==
  /\ \E n \in 0 .. MaxLen : Sent(c, "server", n)
  /\ UNCHANGED serverVars

-----------------------------------------------------------------------------
User == StartListening \/ StartThrows \/ Stop
ReceiveThread == \/ ReceiveLoop \/ ReceiveNothing \/ Insert \/ Handle
                 \/ \E d \in BagToSet(net) : Receive(d)
Next ==
  \/ User
  \/ JoinReceive
  \/ ReceiveThread
  \/ Broadcast
  \/ \E c \in Clients : ClientWrites(c) \/ SendData(c)
  \/ \E d \in BagToSet(net) : Lose(d) \/ Double(d)

(* The threads of the server run on; nothing makes the network deliver.     *)
Fairness == WF_vars(JoinReceive) /\ WF_vars(ReceiveThread)

Spec == Init /\ [][Next]_vars /\ Fairness

-----------------------------------------------------------------------------
(* Properties.                                                              *)

Byte == Addresses \X (1 .. MaxWrites) \X (1 .. MaxLen)
ForServer == {d \in BagToSet(net) : d.to = "server"}

(* Every variable keeps its type (com_client.hpp:156-158, 279-294,          *)
(* udp_client.hpp:147, 182-183).                                            *)
TypeOK ==
  /\ IsABag(net)
  /\ \A d \in BagToSet(net) :
       d.from \in Addresses /\ d.to \in Addresses /\ d.body \in Seq(Byte)
  /\ m_is_running \in BOOLEAN /\ bound \in BOOLEAN /\ m_callback \in BOOLEAN
  /\ m_fd \in {"none", "bound", "stale"}
  /\ upc \in {"idle", "joining"}
  /\ rpc \in {"none", "loop", "recv", "insert", "handle", "exited"}
  /\ \A h \in Hosts : m_fifos[h] \in Seq(Byte) /\ called[h] \in Seq(Byte)

(* The FIFO of an IP address holds, in order, what the callback was given   *)
(* from there, whichever of the address's sockets sent it, although a       *)
(* datagram is first cut to the buffer (udp_client.hpp:211-238).            *)
CallbackSeesFifo ==
  m_callback => \A h \in Hosts :
    m_fifos[h] = called[h] \o
      (IF rpc = "handle" /\ HostOf[dgram.from] = h THEN dgram.body ELSE <<>>)

(* An echo goes to the socket that wrote it, no further than the buffer     *)
(* reaches, also when several sockets write from one address, and however   *)
(* datagrams are lost, doubled and reordered (udp_client.hpp:211-246).      *)
EchoIsOwn ==
  \A d \in BagToSet(net) : d.from = "server" =>
    \A i \in DOMAIN d.body :
      \/ d.body[i][1] = "server"
      \/ d.body[i][1] = d.to /\ d.body[i][3] = i /\ i <= RecvSize

(* Once stop() has returned nothing is received, given to the callback or   *)
(* echoed any more, although the socket stays open                          *)
(* (udp_client.hpp:90-97, 209).                                             *)
StoppedIsQuiet ==
  [][upc = "idle" /\ ~m_is_running /\ ~m_is_running'
       => UNCHANGED <<rpc, dgram, m_fifos, called>>]_vars

Lifecycle == INSTANCE ServerLifecycle WITH
  MayGiveUp <- FALSE,
  running <- m_is_running,
  stopping <- upc # "idle",
  serving <- rpc \notin {"none", "exited"}

(* start() and stop() are those of a server, and a stop() that has begun    *)
(* returns: the receive thread ends only because it may not run any more,   *)
(* and then soon (com_client.hpp:177-202, udp_client.hpp:87-98, 209-270).   *)
ServesAsPromised == Lifecycle!LiveSpec

(* What reaches a server that goes on running is received, an empty         *)
(* datagram too (udp_client.hpp:209-266).                                   *)
ReachedIsReceived ==
  rpc # "none" /\ ForServer # {} ~> ForServer = {} \/ upc # "idle"
=============================================================================
