------------------------------ MODULE Sockets ------------------------------
(***************************************************************************)
(* The TCP sockets of the operating system, as src/include/tcp_client.hpp  *)
(* uses them: a descriptor table that always hands out the lowest free     *)
(* number, one listening socket with its queue of connections not yet      *)
(* accepted, and for each connection the bytes received and not yet read   *)
(* and the room left for sending.  Nothing of this is code of the          *)
(* repository: it is the environment the server runs in.                   *)
(*                                                                         *)
(* A byte is <<c, k>>: the k-th byte that the peer of connection c sent.   *)
(***************************************************************************)
EXTENDS Integers, Sequences

CONSTANTS
  Conns,           \* connections that peers may open, once each
  Fds,             \* the descriptors the process may have open
  MaxConnections,  \* Server::m_max_connections: the backlog of listen()
  MaxBytes,        \* bound: bytes a peer sends
  SockBuf          \* bound: messages that fit between send() and the peer

NotConns == {"free", "listen", "socket", "none", "joined"}

ASSUME FdsAssumption == Fds \subseteq Nat
ASSUME ConnsAssumption == Conns \cap NotConns = {}
ASSUME SocketBounds ==
  MaxConnections \in Nat /\ MaxBytes \in Nat /\ SockBuf \in Nat

VARIABLES
  desc,     \* the descriptor table: "free", "listen", "socket" (neither bound
            \* nor listening) or the connection the descriptor stands for
  backlog,  \* connections established and not yet accepted
  cstate,   \* of a connection: "idle" (not yet made), "open", "fin" (peer
            \* closed), "rst" (reset) or "closed" (closed by this process)
  kbuf,     \* bytes received by the kernel and not yet read
  sent,     \* how many bytes the peer has sent
  out       \* messages sent to the peer that it has not read

sockVars == <<desc, backlog, cstate, kbuf, sent, out>>

Byte == Conns \X (1 .. MaxBytes)
Stream(c) == [k \in 1 .. sent[c] |-> <<c, k>>]

SockTypeOK ==
  /\ desc \in [Fds -> Conns \cup {"free", "listen", "socket"}]
  /\ backlog \in Seq(Conns)
  /\ cstate \in [Conns -> {"idle", "open", "fin", "rst", "closed"}]
  /\ kbuf \in [Conns -> Seq(Byte)]
  /\ sent \in [Conns -> 0 .. MaxBytes]
  /\ out \in [Conns -> 0 .. SockBuf]

SockInit ==
  /\ desc = [f \in Fds |-> "free"]
  /\ backlog = <<>>
  /\ cstate = [c \in Conns |-> "idle"]
  /\ kbuf = [c \in Conns |-> <<>>]
  /\ sent = [c \in Conns |-> 0]
  /\ out = [c \in Conns |-> 0]

FreeFds == {f \in Fds : desc[f] = "free"}
LowestFree(f) == f \in FreeFds /\ \A g \in FreeFds : f <= g
Listening == \E f \in Fds : desc[f] = "listen"

-----------------------------------------------------------------------------
(* The peers.  The kernel completes a connection by itself as long as some  *)
(* socket listens and its queue has room, whatever the server is doing.     *)

Connect(c) ==
  /\ cstate[c] = "idle"
  /\ Listening
  /\ Len(backlog) <= MaxConnections
  /\ cstate' = [cstate EXCEPT ![c] = "open"]
  /\ backlog' = Append(backlog, c)
  /\ UNCHANGED <<desc, kbuf, sent, out>>

PeerSend(c) ==
  /\ cstate[c] = "open"
  /\ sent[c] < MaxBytes
  /\ sent' = [sent EXCEPT ![c] = @ + 1]
  /\ kbuf' = [kbuf EXCEPT ![c] = Append(@, <<c, sent[c] + 1>>)]
  /\ UNCHANGED <<desc, backlog, cstate, out>>

PeerRead(c) ==
  /\ cstate[c] = "open"
  /\ out[c] > 0
  /\ out' = [out EXCEPT ![c] = @ - 1]
  /\ UNCHANGED <<desc, backlog, cstate, kbuf, sent>>

PeerClose(c) ==
  /\ cstate[c] = "open"
  /\ cstate' = [cstate EXCEPT ![c] = "fin"]
  /\ UNCHANGED <<desc, backlog, kbuf, sent, out>>

PeerReset(c) ==
  /\ cstate[c] \in {"open", "fin"}
  /\ cstate' = [cstate EXCEPT ![c] = "rst"]
  /\ UNCHANGED <<desc, backlog, kbuf, sent, out>>

Peer(c) ==
  Connect(c) \/ PeerSend(c) \/ PeerRead(c) \/ PeerClose(c) \/ PeerReset(c)

-----------------------------------------------------------------------------
(* close(f).  What a connection had not read is discarded; closing the      *)
(* listening socket also drops the connections still in its queue.          *)

Dropped(f) == CASE desc[f] \in Conns -> {desc[f]}
                [] desc[f] = "listen" -> {backlog[i] : i \in DOMAIN backlog}
                [] OTHER -> {}

CloseDesc(f) ==
  /\ desc' = [desc EXCEPT ![f] = "free"]
  /\ backlog' = IF desc[f] = "listen" THEN <<>> ELSE backlog
  /\ cstate' = [c \in Conns |-> IF c \in Dropped(f) THEN "closed" ELSE cstate[c]]
  /\ kbuf' = [c \in Conns |-> IF c \in Dropped(f) THEN <<>> ELSE kbuf[c]]
  /\ UNCHANGED <<sent, out>>
=============================================================================
