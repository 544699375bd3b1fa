-------------------------- MODULE TCPServerProofs --------------------------
(***************************************************************************)
(* Proofs about TCPServer, for any number of connections, descriptors and  *)
(* application threads and any bounds.                                     *)
(*                                                                         *)
(* The argument is one of ownership.  A connection is, in this order, not  *)
(* made, waiting in the backlog, held by the accept thread, and held by    *)
(* its handler; in each stage it has at most one descriptor, and no other  *)
(* connection shares it.  A handler closes its descriptor before it erases *)
(* its entries, so the number may be in use again by then: what keeps the  *)
(* handler from erasing the entries of the next client is that until the   *)
(* handler has ended and stop() has joined it, m_threads holds its         *)
(* joinable thread under that number, and the accept thread cannot get     *)
(* past the assignment at tcp_client.hpp:429.                              *)
(***************************************************************************)
EXTENDS TCPServer, SequenceTheorems, TLAPS

(* The accept thread holds a connection that has no handler yet.            *)
AccOwned ==
  apc \in {"register", "spawn"} =>
    /\ acc \in Fds
    /\ desc[acc] \in Conns
    /\ hpc[desc[acc]] = "none"

(* A handler has a descriptor.                                              *)
HandlerHasFd == \A c \in Conns : hpc[c] # "none" => cfd[c] \in Fds

(* No two descriptors stand for the same connection.                        *)
DescUnique ==
  \A f, g \in Fds : desc[f] \in Conns /\ desc[f] = desc[g] => f = g

(* A connection that is not made, or waits, has no handler and no           *)
(* descriptor, and waits only once.                                         *)
Fresh(c) == hpc[c] = "none" /\ \A f \in Fds : desc[f] # c

WaitingFresh ==
  /\ \A i \in 1 .. Len(backlog) : Fresh(backlog[i]) /\ cstate[backlog[i]] # "idle"
  /\ \A i, j \in 1 .. Len(backlog) : backlog[i] = backlog[j] => i = j

IdleFresh == \A c \in Conns : cstate[c] = "idle" => Fresh(c)

(* stop() has reset m_is_running before it joins anything.                  *)
StoppingNotRunning == upc # "idle" => ~m_is_running

(* Before the first stop() nobody has joined a thread.                      *)
NothingJoined ==
  ~stopped => upc = "idle" /\ \A f \in Fds : m_threads[f] # "joined"

(* The number about to be given a handler is in m_clients, unless the       *)
(* thread it had before is still joinable: then Spawn is the end.           *)
SpawnRegistered ==
  ~stopped /\ apc = "spawn" => acc \in m_clients \/ Joinable(acc)

AddressableOrStopped ==
  ~stopped => \A c \in Conns : hpc[c] \in Serving => cfd[c] \in m_clients

Ownership ==
  /\ AccOwned
  /\ HandlerHasFd
  /\ HandlerOwnsSocket
  /\ DescUnique
  /\ WaitingFresh
  /\ IdleFresh
  /\ LiveHandlerInMap

Registration ==
  /\ StoppingNotRunning
  /\ NothingJoined
  /\ SpawnRegistered
  /\ AddressableOrStopped

IInv == TypeOK /\ Ownership /\ Registration

-----------------------------------------------------------------------------
(* Sequences of bytes stay sequences of bytes.                              *)

LEMMA CutType ==
  ASSUME NEW S, NEW s \in Seq(S), NEW n \in 0 .. Len(s)
  PROVE  /\ SubSeq(s, 1, n) \in Seq(S)
         /\ SubSeq(s, n + 1, Len(s)) \in Seq(S)
BY SubSeqProperties

LEMMA NoBytes == <<>> \in Seq(Byte)
OBVIOUS

LEMMA CloseType ==
  ASSUME SockTypeOK, NEW f \in Fds, CloseDesc(f)
  PROVE  SockTypeOK'
<1>1. desc' \in [Fds -> Conns \cup {"free", "listen", "socket"}]
  BY DEF SockTypeOK, CloseDesc
<1>2. backlog' \in Seq(Conns)
  BY DEF SockTypeOK, CloseDesc
<1>3. cstate' \in [Conns -> {"idle", "open", "fin", "rst", "closed"}]
  BY DEF SockTypeOK, CloseDesc
<1>4. kbuf' \in [Conns -> Seq(Byte)]
  BY DEF SockTypeOK, CloseDesc
<1>. QED  BY <1>1, <1>2, <1>3, <1>4 DEF SockTypeOK, CloseDesc

(* What an actor leaves alone keeps its type.                               *)
LEMMA FrameTypes ==
  /\ SockTypeOK /\ UNCHANGED sockVars => SockTypeOK'
  /\ UserTypeOK /\ UNCHANGED userVars => UserTypeOK'
  /\ AcceptTypeOK /\ UNCHANGED acceptVars => AcceptTypeOK'
  /\ HandlerTypeOK /\ UNCHANGED handlerVars => HandlerTypeOK'
  /\ ReadTypeOK /\ UNCHANGED readVars => ReadTypeOK'
  /\ SendTypeOK /\ UNCHANGED sendVars => SendTypeOK'
<1>1. SockTypeOK /\ UNCHANGED sockVars => SockTypeOK'
  BY DEF sockVars, SockTypeOK
<1>2. UserTypeOK /\ UNCHANGED userVars => UserTypeOK'
  BY DEF userVars, UserTypeOK
<1>3. AcceptTypeOK /\ UNCHANGED acceptVars => AcceptTypeOK'
  BY DEF acceptVars, AcceptTypeOK
<1>4. HandlerTypeOK /\ UNCHANGED handlerVars => HandlerTypeOK'
  BY DEF handlerVars, HandlerTypeOK
<1>5. ReadTypeOK /\ UNCHANGED readVars => ReadTypeOK'
  BY DEF readVars, ReadTypeOK
<1>6. SendTypeOK /\ UNCHANGED sendVars => SendTypeOK'
  BY DEF sendVars, SendTypeOK
<1>. QED  BY <1>1, <1>2, <1>3, <1>4, <1>5, <1>6

-----------------------------------------------------------------------------
(* The type invariant.                                                      *)

LEMMA InitInv == Init => IInv
<1>. SUFFICES ASSUME Init PROVE IInv
  OBVIOUS
<1>1. SockTypeOK
  BY SocketBounds DEF Init, SockInit, SockTypeOK
<1>2. ServerTypeOK /\ UserTypeOK /\ AcceptTypeOK /\ HandlerTypeOK
  <2>1. ServerTypeOK
    BY NoBytes DEF Init, ServerTypeOK
  <2>2. UserTypeOK /\ AcceptTypeOK
    BY DEF Init, UserTypeOK, AcceptTypeOK
  <2>3. HandlerTypeOK
    BY DEF Init, HandlerTypeOK
  <2>. QED  BY <2>1, <2>2, <2>3
<1>3. ReadTypeOK /\ SendTypeOK
  BY ServerBounds DEF Init, ReadTypeOK, SendTypeOK, ReadCalls, NoCall
<1>4. Ownership
  BY ConnsAssumption
     DEF Init, SockInit, NotConns, Ownership, AccOwned, HandlerHasFd,
         HandlerOwnsSocket, DescUnique, WaitingFresh, Fresh, IdleFresh,
         LiveHandlerInMap, Live, Serving
<1>5. Registration
  BY DEF Init, Registration, StoppingNotRunning, NothingJoined, SpawnRegistered,
         AddressableOrStopped, Serving
<1>. QED  BY <1>1, <1>2, <1>3, <1>4, <1>5 DEF IInv, TypeOK

LEMMA UserType ==
  ASSUME TypeOK, User
  PROVE  TypeOK'
<1>1. CASE StartListening
  <2>1. SockTypeOK'
    BY <1>1 DEF StartListening, TypeOK, SockTypeOK
  <2>2. ServerTypeOK' /\ AcceptTypeOK'
    BY <1>1 DEF StartListening, TypeOK, ServerTypeOK, AcceptTypeOK, userFrame
  <2>. QED  BY <1>1, <2>1, <2>2, FrameTypes DEF StartListening, TypeOK, userFrame
<1>2. CASE StartThrows
  <2>1. SockTypeOK'
    BY <1>2 DEF StartThrows, TypeOK, SockTypeOK
  <2>2. ServerTypeOK' /\ AcceptTypeOK'
    BY <1>2 DEF StartThrows, TypeOK, ServerTypeOK, AcceptTypeOK, userFrame
  <2>. QED  BY <1>2, <2>1, <2>2, FrameTypes DEF StartThrows, TypeOK, userFrame
<1>3. CASE Stop
  <2>1. ServerTypeOK' /\ AcceptTypeOK' /\ UserTypeOK'
    BY <1>3 DEF Stop, TypeOK, ServerTypeOK, AcceptTypeOK, UserTypeOK, userFrame
  <2>. QED  BY <1>3, <2>1, FrameTypes DEF Stop, TypeOK, userFrame
<1>4. CASE Destroy
  <2>1. ServerTypeOK' /\ AcceptTypeOK'
    BY <1>4 DEF Destroy, TypeOK, ServerTypeOK, AcceptTypeOK, userFrame
  <2>. QED  BY <1>4, <2>1, FrameTypes DEF Destroy, TypeOK, userFrame
<1>. QED  BY <1>1, <1>2, <1>3, <1>4 DEF User

LEMMA JoinsType ==
  ASSUME TypeOK, StoppingNotRunning, Joins
  PROVE  TypeOK'
<1>1. ASSUME NEW f \in Fds, JoinHandler(f) PROVE TypeOK'
  <2>1. ServerTypeOK' /\ AcceptTypeOK' /\ UserTypeOK'
    BY <1>1 DEF JoinHandler, TypeOK, ServerTypeOK, AcceptTypeOK, UserTypeOK, userFrame
  <2>. QED  BY <1>1, <2>1, FrameTypes DEF JoinHandler, TypeOK, userFrame
<1>2. CASE JoinedHandlers
  <2>1. ServerTypeOK' /\ AcceptTypeOK' /\ UserTypeOK'
    BY <1>2 DEF JoinedHandlers, TypeOK, ServerTypeOK, AcceptTypeOK, UserTypeOK, userFrame
  <2>. QED  BY <1>2, <2>1, FrameTypes DEF JoinedHandlers, TypeOK, userFrame
<1>3. CASE JoinAccept
  <2>1. UNCHANGED <<sockVars, m_is_running, m_fd>>
    BY <1>3 DEF JoinAccept, ServerStop, StoppingNotRunning
  <2>2. ServerTypeOK' /\ AcceptTypeOK' /\ UserTypeOK'
    BY <1>3, <2>1 DEF JoinAccept, TypeOK, ServerTypeOK, AcceptTypeOK, UserTypeOK, userFrame
  <2>. QED  BY <1>3, <2>1, <2>2, FrameTypes DEF JoinAccept, TypeOK, userFrame
<1>. QED  BY <1>1, <1>2, <1>3 DEF Joins

LEMMA AcceptType ==
  ASSUME TypeOK, AccOwned, Accept
  PROVE  TypeOK'
<1>. USE DEF acceptFrame
<1>1. ReadTypeOK' /\ SendTypeOK'
  BY FrameTypes DEF Accept, AcceptLoop, AcceptConn, AcceptAgain, AcceptFails,
                    Register, Spawn, NewClientCallback, TypeOK
<1>2. SockTypeOK'
  <2>1. CASE AcceptConn
    BY <2>1 DEF AcceptConn, TypeOK, SockTypeOK
  <2>2. CASE AcceptFails
    <3>1. backlog' \in Seq(Conns)
      <4>1. backlog # <<>> => Tail(backlog) \in Seq(Conns)
        BY HeadTailProperties DEF TypeOK, SockTypeOK
      <4>. QED  BY <2>2, <4>1 DEF AcceptFails, TypeOK, SockTypeOK
    <3>2. cstate' \in [Conns -> {"idle", "open", "fin", "rst", "closed"}]
      BY <2>2 DEF AcceptFails, TypeOK, SockTypeOK
    <3>. QED  BY <2>2, <3>1, <3>2 DEF AcceptFails, TypeOK, SockTypeOK
  <2>3. CASE AcceptLoop \/ AcceptAgain \/ Register \/ Spawn \/ NewClientCallback
    BY <2>3, FrameTypes DEF AcceptLoop, AcceptAgain, Register, Spawn,
                            NewClientCallback, TypeOK, sockVars
  <2>. QED  BY <2>1, <2>2, <2>3 DEF Accept
<1>3. UserTypeOK' /\ AcceptTypeOK'
  <2>1. CASE Spawn
    BY <2>1 DEF Spawn, NewClient, TypeOK, UserTypeOK, AcceptTypeOK, AccOwned
  <2>2. CASE ~Spawn
    BY <2>2 DEF Accept, AcceptLoop, AcceptConn, AcceptAgain, AcceptFails, Register,
                NewClientCallback, TypeOK, UserTypeOK, AcceptTypeOK
  <2>. QED  BY <2>1, <2>2
<1>4. HandlerTypeOK'
  <2>1. CASE Spawn
    BY <2>1 DEF Spawn, NewClient, TypeOK, HandlerTypeOK, AcceptTypeOK, AccOwned, Live, Serving
  <2>2. CASE ~Spawn
    BY <2>2, FrameTypes DEF Accept, AcceptLoop, AcceptConn, AcceptAgain, AcceptFails,
                            Register, NewClientCallback, TypeOK, handlerVars
  <2>. QED  BY <2>1, <2>2
<1>5. ServerTypeOK'
  <2>1. CASE Spawn
    BY <2>1 DEF Spawn, NewClient, TypeOK, ServerTypeOK, AccOwned
  <2>2. CASE Register
    BY <2>2 DEF Register, TypeOK, ServerTypeOK, AccOwned
  <2>3. CASE AcceptLoop \/ AcceptConn \/ AcceptAgain \/ AcceptFails \/ NewClientCallback
    BY <2>3 DEF AcceptLoop, AcceptConn, AcceptAgain, AcceptFails, NewClientCallback,
                TypeOK, ServerTypeOK
  <2>. QED  BY <2>1, <2>2, <2>3 DEF Accept
<1>. QED  BY <1>1, <1>2, <1>3, <1>4, <1>5 DEF TypeOK

LEMMA HandlerType ==
  ASSUME TypeOK, HandlerHasFd, NEW c \in Conns, Handler(c)
  PROVE  TypeOK'
<1>. USE DEF handlerFrame
<1>1. UserTypeOK' /\ AcceptTypeOK' /\ ReadTypeOK' /\ SendTypeOK'
  BY FrameTypes DEF Handler, HandlerLoop, RecvData, RecvEnd, Insert, Callback, Close,
                    Erase, TypeOK
<1>2. ASSUME NEW k \in Conns, NEW n \in 0 .. Len(kbuf[k])
      PROVE  /\ SubSeq(kbuf[k], 1, n) \in Seq(Byte)
             /\ SubSeq(kbuf[k], n + 1, Len(kbuf[k])) \in Seq(Byte)
  <2>1. kbuf[k] \in Seq(Byte)
    BY DEF TypeOK, SockTypeOK
  <2>. QED  BY <2>1, CutType
<1>3. CASE RecvData(c)
  <2>. DEFINE k == desc[cfd[c]]
              n == IF Len(kbuf[k]) < RecvSize THEN Len(kbuf[k]) ELSE RecvSize
  <2>1. k \in Conns /\ n \in 0 .. Len(kbuf[k])
    BY <1>3, ServerBounds DEF RecvData, TypeOK, SockTypeOK
  <2>2. SockTypeOK'
    BY <1>2, <1>3, <2>1 DEF RecvData, TypeOK, SockTypeOK
  <2>3. HandlerTypeOK'
    BY <1>2, <1>3, <2>1 DEF RecvData, TypeOK, HandlerTypeOK, Live, Serving
  <2>4. ServerTypeOK'
    BY <1>3 DEF RecvData, TypeOK, ServerTypeOK
  <2>. QED  BY <1>1, <2>2, <2>3, <2>4 DEF TypeOK
<1>4. CASE Close(c)
  <2>1. cfd[c] \in Fds
    BY <1>4 DEF Close, HandlerHasFd
  <2>2. SockTypeOK'
    BY <1>4, <2>1, CloseType DEF Close, TypeOK
  <2>3. HandlerTypeOK' /\ ServerTypeOK'
    BY <1>4 DEF Close, TypeOK, HandlerTypeOK, ServerTypeOK, Live, Serving
  <2>. QED  BY <1>1, <2>2, <2>3 DEF TypeOK
<1>5. CASE HandlerLoop(c) \/ RecvEnd(c) \/ Insert(c) \/ Callback(c) \/ Erase(c)
  <2>1. SockTypeOK'
    BY <1>5, FrameTypes DEF HandlerLoop, RecvEnd, Insert, Callback, Erase, TypeOK, sockVars
  <2>2. HandlerTypeOK'
    <3>1. hpc' \in [Conns -> Live \cup {"none", "done"}]
      BY <1>5 DEF HandlerLoop, RecvEnd, Insert, Callback, Erase, TypeOK, HandlerTypeOK,
                  Live, Serving
    <3>2. chunk' \in [Conns -> Seq(Byte)]
      BY <1>5, NoBytes DEF HandlerLoop, RecvEnd, Insert, Callback, Erase, TypeOK, HandlerTypeOK
    <3>3. called[c] \o chunk[c] \in Seq(Byte)
      BY DEF TypeOK, HandlerTypeOK
    <3>4. called' \in [Conns -> Seq(Byte)]
      BY <1>5, <3>3 DEF HandlerLoop, RecvEnd, Insert, Callback, Erase, TypeOK, HandlerTypeOK
    <3>. QED  BY <1>5, <3>1, <3>2, <3>4 DEF HandlerLoop, RecvEnd, Insert, Callback, Erase,
                                      TypeOK, HandlerTypeOK
  <2>3. ServerTypeOK'
    <3>1. CASE Insert(c)
      <4>1. cfd[c] \in Fds
        BY <3>1 DEF Insert, HandlerHasFd
      <4>2. m_fifos[cfd[c]] \o chunk[c] \in Seq(Byte)
        BY <4>1 DEF TypeOK, ServerTypeOK, HandlerTypeOK
      <4>. QED  BY <3>1, <4>2 DEF Insert, TypeOK, ServerTypeOK
    <3>2. CASE Erase(c)
      <4>1. m_fifos' \in [Fds -> Seq(Byte)]
        BY <3>2, NoBytes DEF Erase, TypeOK, ServerTypeOK
      <4>2. proc' \in {"up", "destroyed", "terminated", "sigpipe", "undefined"}
        BY <3>2 DEF Erase, TypeOK, ServerTypeOK
      <4>. QED  BY <3>2, <4>1, <4>2 DEF Erase, TypeOK, ServerTypeOK
    <3>3. CASE HandlerLoop(c) \/ RecvEnd(c) \/ Callback(c)
      BY <3>3 DEF HandlerLoop, RecvEnd, Callback, TypeOK, ServerTypeOK
    <3>. QED  BY <1>5, <3>1, <3>2, <3>3
  <2>. QED  BY <1>1, <2>1, <2>2, <2>3 DEF TypeOK
<1>. QED  BY <1>3, <1>4, <1>5 DEF Handler

LEMMA ReaderType ==
  ASSUME TypeOK, NEW r \in Readers, Reader(r)
  PROVE  TypeOK'
<1>. USE DEF readFrame
<1>1. SockTypeOK' /\ UserTypeOK' /\ AcceptTypeOK' /\ HandlerTypeOK' /\ SendTypeOK'
  BY FrameTypes DEF Reader, ReadStep, ReadCall, ReadAvail, ReadPoll, ReadMin,
                    ReadCopy, ClearFifo, TypeOK
<1>2. CASE ReadCall(r)
  BY <1>1, <1>2, ServerBounds DEF ReadCall, TypeOK, ReadTypeOK, ServerTypeOK, ReadCalls
<1>3. CASE ReadAvail(r) \/ ReadPoll(r)
  BY <1>1, <1>3 DEF ReadAvail, ReadPoll, TypeOK, ReadTypeOK, ServerTypeOK
<1>4. CASE ReadMin(r)
  <2>1. Len(m_fifos[rcall[r].fd]) \in Nat
    BY <1>4 DEF ReadMin, TypeOK, ReadTypeOK, ServerTypeOK
  <2>. QED  BY <1>1, <1>4, <2>1, ServerBounds DEF ReadMin, TypeOK, ReadTypeOK, ServerTypeOK, ReadCalls
<1>5. CASE ReadCopy(r)
  <2>. DEFINE f == rcall[r].fd
              n == rsize[r]
  <2>1. /\ f \in Fds /\ m_fifos[f] \in Seq(Byte) /\ n \in Nat
    BY <1>5 DEF ReadCopy, TypeOK, ReadTypeOK, ServerTypeOK
  <2>2. ~(Len(m_fifos[f]) < n) => /\ SubSeq(m_fifos[f], 1, n) \in Seq(Byte)
                               /\ SubSeq(m_fifos[f], n + 1, Len(m_fifos[f])) \in Seq(Byte)
    BY <2>1, CutType
  <2>3. ServerTypeOK'
    <3>1. m_fifos' \in [Fds -> Seq(Byte)]
      <4>1. m_fifos \in [Fds -> Seq(Byte)]
        BY DEF TypeOK, ServerTypeOK
      <4>2. \/ m_fifos' = m_fifos
            \/ /\ ~(Len(m_fifos[f]) < n)
               /\ m_fifos' = [m_fifos EXCEPT ![f] = SubSeq(m_fifos[f], n + 1, Len(m_fifos[f]))]
        BY <1>5 DEF ReadCopy
      <4>. HIDE DEF f, n
      <4>. QED  BY <2>2, <4>1, <4>2
    <3>. QED  BY <1>5, <3>1 DEF ReadCopy, TypeOK, ServerTypeOK
  <2>4. ReadTypeOK'
    <3>1. taken' \in Seq(Byte)
      <4>1. taken \in Seq(Byte)
        BY DEF TypeOK, ReadTypeOK
      <4>2. taken' = taken \/ (~(Len(m_fifos[f]) < n) /\ taken' = taken \o SubSeq(m_fifos[f], 1, n))
        BY <1>5 DEF ReadCopy
      <4>. HIDE DEF f, n
      <4>3. CASE ~(Len(m_fifos[f]) < n)
        <5>1. SubSeq(m_fifos[f], 1, n) \in Seq(Byte)
          BY <2>2, <4>3
        <5>2. taken \o SubSeq(m_fifos[f], 1, n) \in Seq(Byte)
          BY <4>1, <5>1, ConcatProperties, Zenon
        <5>. QED  BY <4>1, <4>2, <5>2, Zenon
      <4>. QED  BY <4>1, <4>2, <4>3, Zenon
    <3>. QED  BY <1>5, <3>1, ServerBounds, SMTT(30) DEF ReadCopy, TypeOK, ReadTypeOK, ReadCalls, NoCall
  <2>. QED  BY <1>1, <2>3, <2>4 DEF TypeOK
<1>6. ASSUME NEW f \in Fds, ClearFifo(r, f) PROVE TypeOK'
  BY <1>1, <1>6 DEF ClearFifo, TypeOK, ReadTypeOK, ServerTypeOK
<1>. QED  BY <1>2, <1>3, <1>4, <1>5, <1>6 DEF Reader, ReadStep

LEMMA SenderType ==
  ASSUME TypeOK, HandlerHasFd, NEW s \in Senders, Sender(s)
  PROVE  TypeOK'
<1>. USE DEF sendFrame
<1>1. UserTypeOK' /\ AcceptTypeOK' /\ HandlerTypeOK' /\ ReadTypeOK'
  BY FrameTypes DEF Sender, SendStep, SendCall, SendLock, SendData, SendToClosed,
                    SendToReset, SendToNone, SendReturns, TypeOK
<1>2. ServerTypeOK'
  BY DEF Sender, SendStep, SendCall, SendLock, SendData, SendToClosed, SendToReset,
         SendToNone, SendReturns, TypeOK, ServerTypeOK
<1>3. SendTypeOK'
  <2>1. ASSUME NEW c \in Conns, SendCall(s, c) PROVE SendTypeOK'
    <3>1. cfd[c] \in Fds
      BY <2>1 DEF SendCall, HandlerHasFd
    <3>. QED  BY <2>1, <3>1 DEF SendCall, TypeOK, SendTypeOK
  <2>2. CASE SendLock(s)
    BY <2>2 DEF SendLock, TypeOK, SendTypeOK
  <2>3. CASE SendData(s)
    <3>1. sto[s] \in Conns
      BY <2>3 DEF SendData, SendReturns, TypeOK, SendTypeOK
    <3>. QED  BY <2>3, <3>1 DEF SendData, SendReturns, TypeOK, SendTypeOK
  <2>4. CASE SendToClosed(s) \/ SendToReset(s) \/ SendToNone(s)
    BY <2>4 DEF SendToClosed, SendToReset, SendToNone, SendReturns, TypeOK, SendTypeOK
  <2>. QED  BY <2>1, <2>2, <2>3, <2>4 DEF Sender, SendStep
<1>4. SockTypeOK'
  <2>1. CASE SendData(s)
    <3>1. out' \in [Conns -> 0 .. SockBuf]
      BY <2>1, SocketBounds DEF SendData, TypeOK, SockTypeOK
    <3>. QED  BY <2>1, <3>1 DEF SendData, SendReturns, TypeOK, SockTypeOK
  <2>2. CASE SendToClosed(s)
    BY <2>2 DEF SendToClosed, SendReturns, TypeOK, SockTypeOK
  <2>3. CASE ~SendData(s) /\ ~SendToClosed(s)
    BY <2>3, FrameTypes DEF Sender, SendStep, SendCall, SendLock, SendToReset,
                            SendToNone, SendReturns, TypeOK, sockVars
  <2>. QED  BY <2>1, <2>2, <2>3
<1>. QED  BY <1>1, <1>2, <1>3, <1>4 DEF TypeOK

LEMMA PeerType ==
  ASSUME TypeOK, NEW c \in Conns, Peer(c), UNCHANGED serverVars
  PROVE  TypeOK'
<1>1. UserTypeOK' /\ AcceptTypeOK' /\ HandlerTypeOK' /\ ReadTypeOK' /\ SendTypeOK'
  BY FrameTypes DEF serverVars, TypeOK
<1>2. ServerTypeOK'
  BY DEF serverVars, TypeOK, ServerTypeOK
<1>3. SockTypeOK'
  <2>1. CASE Connect(c)
    BY <2>1 DEF Connect, TypeOK, SockTypeOK
  <2>2. CASE PeerSend(c)
    <3>1. <<c, sent[c] + 1>> \in Byte
      BY <2>2, SocketBounds DEF PeerSend, TypeOK, SockTypeOK, Byte
    <3>. QED  BY <2>2, <3>1, SocketBounds DEF PeerSend, TypeOK, SockTypeOK
  <2>3. CASE PeerRead(c)
    BY <2>3, SocketBounds DEF PeerRead, TypeOK, SockTypeOK
  <2>4. CASE PeerClose(c) \/ PeerReset(c)
    BY <2>4 DEF PeerClose, PeerReset, TypeOK, SockTypeOK
  <2>. QED  BY <2>1, <2>2, <2>3, <2>4 DEF Peer
<1>. QED  BY <1>1, <1>2, <1>3 DEF TypeOK

LEMMA TypeStep == IInv /\ [Next]_vars => TypeOK'
<1>. SUFFICES ASSUME IInv, [Next]_vars PROVE TypeOK'
  OBVIOUS
<1>1. CASE UNCHANGED vars
  BY <1>1, FrameTypes DEF vars, IInv, TypeOK, ServerTypeOK
<1>2. CASE Next
  BY <1>2, UserType, JoinsType, AcceptType, HandlerType, ReaderType, SenderType,
     PeerType DEF Next, IInv, Ownership, Registration
<1>. QED  BY <1>1, <1>2

-----------------------------------------------------------------------------
(* Ownership: the steps that hand no connection on.                         *)

QuietStep ==
  /\ \A f \in Fds : desc[f] \in Conns \/ desc'[f] \in Conns => desc'[f] = desc[f]
  /\ \A c \in Conns : cstate'[c] = "idle" <=> cstate[c] = "idle"
  /\ UNCHANGED <<backlog, hpc, cfd>>
  /\ apc' \in {"register", "spawn"} => apc \in {"register", "spawn"} /\ acc' = acc
  /\ \A c \in Conns : hpc[c] \in Live => m_threads'[cfd[c]] = m_threads[cfd[c]]

LEMMA QuietOwnership ==
  ASSUME TypeOK, Ownership, QuietStep
  PROVE  Ownership'
<1>. USE DEF Ownership, QuietStep
<1>1. AccOwned'
  BY DEF AccOwned
<1>2. HandlerHasFd'
  BY DEF HandlerHasFd
<1>3. HandlerOwnsSocket'
  BY DEF HandlerOwnsSocket, HandlerHasFd, Live, Serving
<1>4. DescUnique'
  BY DEF DescUnique
<1>5. ASSUME NEW c \in Conns, Fresh(c) PROVE Fresh(c)'
  BY <1>5 DEF Fresh
<1>6. WaitingFresh'
  <2>1. \A i \in 1 .. Len(backlog) : backlog[i] \in Conns
    BY DEF TypeOK, SockTypeOK
  <2>. QED  BY <1>5, <2>1 DEF WaitingFresh
<1>7. IdleFresh'
  BY <1>5 DEF IdleFresh
<1>8. LiveHandlerInMap'
  BY DEF LiveHandlerInMap
<1>. QED  BY <1>1, <1>2, <1>3, <1>4, <1>6, <1>7, <1>8

LEMMA UserQuiet ==
  ASSUME TypeOK, User, \A c \in Conns : c \notin NotConns
  PROVE  QuietStep
<1>. USE DEF QuietStep, userFrame, acceptVars, handlerVars, sockVars
<1>1. CASE StartListening
  BY <1>1 DEF StartListening, LowestFree, FreeFds, TypeOK, SockTypeOK, NotConns
<1>2. CASE StartThrows
  BY <1>2 DEF StartThrows, LowestFree, FreeFds, TypeOK, SockTypeOK, NotConns
<1>3. CASE Stop
  BY <1>3 DEF Stop
<1>4. CASE Destroy
  BY <1>4 DEF Destroy
<1>. QED  BY <1>1, <1>2, <1>3, <1>4 DEF User

LEMMA JoinsQuiet ==
  ASSUME TypeOK, Ownership, StoppingNotRunning, Joins, \A c \in Conns : c \notin NotConns
  PROVE  QuietStep
<1>. USE DEF QuietStep, userFrame, acceptVars, handlerVars, sockVars
<1>1. ASSUME NEW f \in Fds, JoinHandler(f) PROVE QuietStep
  <2>1. ASSUME NEW c \in Conns, hpc[c] \in Live PROVE cfd[c] # f
    BY <1>1, <2>1 DEF JoinHandler, Joinable, Ownership, LiveHandlerInMap, Live, Serving
  <2>. QED  BY <1>1, <2>1 DEF JoinHandler, TypeOK, ServerTypeOK
<1>2. CASE JoinedHandlers
  BY <1>2 DEF JoinedHandlers
<1>3. CASE JoinAccept
  BY <1>3 DEF JoinAccept, ServerStop, StoppingNotRunning
<1>. QED  BY <1>1, <1>2, <1>3 DEF Joins

LEMMA OthersQuiet ==
  ASSUME TypeOK,
         \/ \E r \in Readers : Reader(r)
         \/ \E s \in Senders : Sender(s)
         \/ \E c \in Conns : ~Connect(c) /\ Peer(c) /\ UNCHANGED serverVars
         \/ AcceptLoop \/ AcceptAgain \/ Register \/ NewClientCallback
  PROVE  QuietStep
<1>. USE DEF QuietStep
<1>1. ASSUME NEW r \in Readers, Reader(r) PROVE QuietStep
  BY <1>1 DEF Reader, ReadStep, ReadCall, ReadAvail, ReadPoll, ReadMin, ReadCopy,
              ClearFifo, readFrame, sockVars, acceptVars, handlerVars
<1>2. ASSUME NEW s \in Senders, Sender(s) PROVE QuietStep
  <2>1. \A c \in Conns : cstate'[c] = "idle" <=> cstate[c] = "idle"
    BY <1>2 DEF Sender, SendStep, SendCall, SendLock, SendData, SendToClosed,
                SendToReset, SendToNone, TypeOK, SockTypeOK
  <2>. QED
    BY <1>2, <2>1 DEF Sender, SendStep, SendCall, SendLock, SendData, SendToClosed,
                SendToReset, SendToNone, SendReturns, sendFrame, acceptVars, handlerVars
<1>3. ASSUME NEW c \in Conns, ~Connect(c) /\ Peer(c) /\ UNCHANGED serverVars
      PROVE QuietStep
  BY <1>3 DEF Peer, PeerSend, PeerRead, PeerClose, PeerReset, serverVars, acceptVars,
              handlerVars, TypeOK, SockTypeOK
<1>4. CASE AcceptLoop \/ AcceptAgain \/ Register \/ NewClientCallback
  BY <1>4 DEF AcceptLoop, AcceptAgain, Register, NewClientCallback, acceptFrame, sockVars
<1>. QED  BY <1>1, <1>2, <1>3, <1>4

-----------------------------------------------------------------------------
(* Ownership: the steps that do.                                            *)

LEMMA ConnectOwnership ==
  ASSUME TypeOK, Ownership, NEW c \in Conns, Connect(c), UNCHANGED serverVars
  PROVE  Ownership'
<1>. USE DEF Ownership, Connect
<1>0. /\ UNCHANGED <<desc, hpc, cfd, m_threads, apc, acc>>
      /\ backlog \in Seq(Conns)
  BY DEF serverVars, acceptVars, handlerVars, TypeOK, SockTypeOK
<1>1. AccOwned' /\ HandlerHasFd' /\ HandlerOwnsSocket' /\ DescUnique' /\ LiveHandlerInMap'
  BY <1>0 DEF AccOwned, HandlerHasFd, HandlerOwnsSocket, DescUnique, LiveHandlerInMap
<1>2. \A d \in Conns : Fresh(d)' <=> Fresh(d)
  BY <1>0 DEF Fresh
<1>3. Fresh(c) /\ \A i \in 1 .. Len(backlog) : backlog[i] # c
  BY DEF IdleFresh, WaitingFresh
<1>4. /\ Len(backlog') = Len(backlog) + 1
      /\ backlog'[Len(backlog) + 1] = c
      /\ \A i \in 1 .. Len(backlog) : backlog'[i] = backlog[i]
  BY <1>0, AppendProperties
<1>5. /\ \A i \in 1 .. Len(backlog) : backlog[i] \in Conns
      /\ cstate'[c] = "open"
      /\ \A d \in Conns : d # c => cstate'[d] = cstate[d]
  BY <1>0 DEF TypeOK, SockTypeOK
<1>6. WaitingFresh'
  <2>1. ASSUME NEW i \in 1 .. Len(backlog')
        PROVE  /\ backlog'[i] \in Conns /\ cstate'[backlog'[i]] # "idle"
               /\ hpc'[backlog'[i]] = "none"
               /\ \A f \in Fds : desc'[f] # backlog'[i]
    <3>1. CASE i = Len(backlog) + 1
      BY <1>0, <1>3, <1>4, <1>5, <3>1 DEF Fresh
    <3>2. CASE i \in 1 .. Len(backlog)
      BY <1>0, <1>3, <1>4, <1>5, <3>2 DEF Fresh, WaitingFresh
    <3>. QED  BY <1>0, <1>4, <3>1, <3>2
  <2>2. \A i, j \in 1 .. Len(backlog') : backlog'[i] = backlog'[j] => i = j
    BY <1>0, <1>3, <1>4 DEF WaitingFresh
  <2>. QED  BY <2>1, <2>2 DEF WaitingFresh, Fresh
<1>7. IdleFresh'
  BY <1>2, <1>5 DEF IdleFresh
<1>. QED  BY <1>1, <1>6, <1>7

(* Taking the head of the backlog.                                          *)
LEMMA TailFacts ==
  ASSUME TypeOK, WaitingFresh, backlog # <<>>
  PROVE  /\ Head(backlog) \in Conns /\ Fresh(Head(backlog))
         /\ cstate[Head(backlog)] # "idle"
         /\ Len(Tail(backlog)) = Len(backlog) - 1
         /\ \A i \in 1 .. Len(Tail(backlog)) :
              /\ i + 1 \in 1 .. Len(backlog)
              /\ Tail(backlog)[i] = backlog[i + 1]
              /\ Tail(backlog)[i] # Head(backlog)
              /\ Tail(backlog)[i] \in Conns
<1>1. backlog \in Seq(Conns)
  BY DEF TypeOK, SockTypeOK
<1>2. /\ Len(Tail(backlog)) = Len(backlog) - 1
      /\ \A i \in 1 .. Len(Tail(backlog)) : Tail(backlog)[i] = backlog[i + 1]
  BY <1>1, HeadTailProperties
<1>3. Head(backlog) = backlog[1] /\ 1 \in 1 .. Len(backlog)
  BY <1>1
<1>4. \A i \in 1 .. Len(Tail(backlog)) : i + 1 \in 1 .. Len(backlog) /\ i + 1 # 1
  BY <1>1, <1>2
<1>5. \A i \in 1 .. Len(backlog) : backlog[i] \in Conns
  BY <1>1
<1>. QED  BY <1>2, <1>3, <1>4, <1>5 DEF WaitingFresh

LEMMA AcceptConnOwnership ==
  ASSUME TypeOK, Ownership, AcceptConn, \A c \in Conns : c \notin NotConns
  PROVE  Ownership'
<1>. USE DEF Ownership, AcceptConn, acceptFrame
<1>. DEFINE h == Head(backlog)
<1>0. PICK f \in Fds : LowestFree(f) /\ desc' = [desc EXCEPT ![f] = h] /\ acc' = f
  OBVIOUS
<1>1. /\ desc[f] = "free"
      /\ desc'[f] = h
      /\ \A g \in Fds : g # f => desc'[g] = desc[g]
      /\ h \in Conns /\ Fresh(h) /\ cstate[h] # "idle"
  BY <1>0, TailFacts DEF LowestFree, FreeFds, TypeOK, SockTypeOK
<1>. HIDE DEF h
<1>2. AccOwned'
  BY <1>0, <1>1 DEF AccOwned, Fresh
<1>3. HandlerHasFd' /\ LiveHandlerInMap'
  BY DEF HandlerHasFd, LiveHandlerInMap
<1>4. HandlerOwnsSocket'
  BY <1>1 DEF HandlerOwnsSocket, HandlerHasFd, NotConns, Live, Serving
<1>5. DescUnique'
  BY <1>1 DEF DescUnique, Fresh
<1>6. ASSUME NEW c \in Conns, c # h, Fresh(c) PROVE Fresh(c)'
  BY <1>1, <1>6 DEF Fresh
<1>7. WaitingFresh'
  BY <1>6, TailFacts DEF WaitingFresh, h
<1>8. IdleFresh'
  BY <1>1, <1>6 DEF IdleFresh
<1>. QED  BY <1>2, <1>3, <1>4, <1>5, <1>7, <1>8

LEMMA AcceptFailsOwnership ==
  ASSUME TypeOK, Ownership, AcceptFails
  PROVE  Ownership'
<1>1. CASE UNCHANGED <<backlog, cstate>>
  BY <1>1, QuietOwnership DEF QuietStep, AcceptFails, acceptFrame
<1>2. CASE /\ backlog # <<>> /\ backlog' = Tail(backlog)
           /\ cstate' = [cstate EXCEPT ![Head(backlog)] = "closed"]
  <2>. USE DEF Ownership, AcceptFails, acceptFrame
  <2>1. AccOwned' /\ HandlerHasFd' /\ LiveHandlerInMap' /\ HandlerOwnsSocket' /\ DescUnique'
    BY DEF AccOwned, HandlerHasFd, LiveHandlerInMap, HandlerOwnsSocket, DescUnique
  <2>2. \A c \in Conns : Fresh(c)' <=> Fresh(c)
    BY DEF Fresh
  <2>3. \A c \in Conns : cstate'[c] = "idle" => cstate[c] = "idle"
    BY <1>2 DEF TypeOK, SockTypeOK
  <2>4. WaitingFresh'
    BY <1>2, <2>2, <2>3, TailFacts DEF WaitingFresh
  <2>5. IdleFresh'
    BY <2>2, <2>3 DEF IdleFresh
  <2>. QED  BY <2>1, <2>4, <2>5
<1>. QED  BY <1>1, <1>2 DEF AcceptFails

LEMMA SpawnOwnership ==
  ASSUME TypeOK, Ownership, Spawn
  PROVE  Ownership'
<1>1. CASE Joinable(acc)
  BY <1>1, QuietOwnership DEF Spawn, NewClient, QuietStep, acceptFrame
<1>2. CASE ~Joinable(acc)
  <2>. USE DEF Ownership, acceptFrame
  <2>. DEFINE d == desc[acc]
  <2>1. /\ acc \in Fds /\ d \in Conns /\ hpc[d] = "none"
        /\ m_threads'[acc] = d
        /\ \A f \in Fds : f # acc => m_threads'[f] = m_threads[f]
        /\ hpc'[d] = "loop" /\ cfd'[d] = acc
        /\ \A c \in Conns : c # d => hpc'[c] = hpc[c] /\ cfd'[c] = cfd[c]
        /\ apc' = "callback"
        /\ UNCHANGED <<desc, backlog, cstate>>
    BY <1>2 DEF Spawn, NewClient, AccOwned, TypeOK, ServerTypeOK, HandlerTypeOK
  <2>. HIDE DEF d
  <2>2. AccOwned' /\ HandlerHasFd' /\ DescUnique'
    BY <2>1 DEF AccOwned, HandlerHasFd, DescUnique
  <2>3. HandlerOwnsSocket'
    <3>1. desc'[cfd'[d]] = d
      BY <2>1 DEF d
    <3>. QED  BY <2>1, <3>1 DEF HandlerOwnsSocket, Live, Serving
  <2>4. LiveHandlerInMap'
    <3>1. ASSUME NEW c \in Conns, c # d, hpc[c] \in Live PROVE cfd[c] # acc
      BY <1>2, <3>1 DEF LiveHandlerInMap, Joinable
    <3>2. ASSUME NEW c \in Conns, hpc[c] \in Live PROVE cfd[c] \in Fds
      BY <3>2 DEF HandlerHasFd, Live, Serving
    <3>. QED  BY <2>1, <3>1, <3>2 DEF LiveHandlerInMap
  <2>5. ASSUME NEW c \in Conns, Fresh(c) PROVE c # d /\ Fresh(c)'
    <3>1. c # d
      BY <2>1, <2>5 DEF Fresh, d
    <3>. QED  BY <2>1, <2>5, <3>1 DEF Fresh
  <2>6. \A i \in 1 .. Len(backlog) : backlog[i] \in Conns
    BY DEF TypeOK, SockTypeOK
  <2>7. WaitingFresh' /\ IdleFresh'
    BY <2>1, <2>5, <2>6 DEF WaitingFresh, IdleFresh
  <2>. QED  BY <2>2, <2>3, <2>4, <2>7
<1>. QED  BY <1>1, <1>2

LEMMA HandlerOwnership ==
  ASSUME TypeOK, Ownership, NEW c \in Conns, Handler(c), \A d \in Conns : d \notin NotConns
  PROVE  Ownership'
<1>. USE DEF Ownership, handlerFrame, acceptVars
<1>1. CASE HandlerLoop(c) \/ RecvData(c) \/ RecvEnd(c) \/ Insert(c) \/ Callback(c)
  <2>1. /\ hpc[c] \in Serving
        /\ hpc'[c] \in Serving \cup {"close"}
        /\ \A d \in Conns : d # c => hpc'[d] = hpc[d]
        /\ UNCHANGED <<desc, backlog, cstate, cfd, m_threads, apc, acc>>
    BY <1>1 DEF HandlerLoop, RecvData, RecvEnd, Insert, Callback, Serving, TypeOK,
                HandlerTypeOK, sockVars
  <2>2. AccOwned' /\ HandlerHasFd' /\ HandlerOwnsSocket' /\ DescUnique' /\ LiveHandlerInMap'
    BY <2>1 DEF AccOwned, HandlerHasFd, HandlerOwnsSocket, DescUnique,
                LiveHandlerInMap, Live, Serving
  <2>3. ASSUME NEW d \in Conns, Fresh(d) PROVE Fresh(d)'
    BY <2>1, <2>3 DEF Fresh, Serving
  <2>4. \A i \in 1 .. Len(backlog) : backlog[i] \in Conns
    BY DEF TypeOK, SockTypeOK
  <2>5. WaitingFresh' /\ IdleFresh'
    BY <2>1, <2>3, <2>4 DEF WaitingFresh, IdleFresh
  <2>. QED  BY <2>2, <2>5
<1>2. CASE Close(c)
  <2>1. /\ hpc[c] = "close" /\ hpc'[c] = "erase"
        /\ \A d \in Conns : d # c => hpc'[d] = hpc[d]
        /\ cfd[c] \in Fds /\ desc[cfd[c]] = c
        /\ UNCHANGED <<cfd, m_threads, apc, acc>>
    BY <1>2 DEF Close, HandlerHasFd, HandlerOwnsSocket, TypeOK, HandlerTypeOK, Live
  <2>2. /\ desc'[cfd[c]] = "free"
        /\ \A f \in Fds : f # cfd[c] => desc'[f] = desc[f]
        /\ backlog' = backlog
        /\ cstate'[c] = "closed"
        /\ \A d \in Conns : d # c => cstate'[d] = cstate[d]
    BY <1>2, <2>1 DEF Close, CloseDesc, Dropped, NotConns, TypeOK, SockTypeOK
  <2>3. AccOwned' /\ HandlerHasFd' /\ DescUnique' /\ LiveHandlerInMap'
    BY <2>1, <2>2 DEF AccOwned, HandlerHasFd, DescUnique, LiveHandlerInMap, NotConns, Live, Serving
  <2>4. HandlerOwnsSocket'
    <3>1. ASSUME NEW d \in Conns, d # c, hpc[d] \in Live \ {"erase"}
          PROVE  cfd[d] \in Fds /\ cfd[d] # cfd[c]
      BY <2>1, <3>1 DEF HandlerOwnsSocket, HandlerHasFd, Live, Serving
    <3>. QED  BY <2>1, <2>2, <3>1 DEF HandlerOwnsSocket
  <2>5. ASSUME NEW d \in Conns, Fresh(d) PROVE d # c /\ Fresh(d)'
    BY <2>1, <2>2, <2>5 DEF Fresh, NotConns
  <2>6. \A i \in 1 .. Len(backlog) : backlog[i] \in Conns
    BY DEF TypeOK, SockTypeOK
  <2>7. WaitingFresh' /\ IdleFresh'
    BY <2>2, <2>5, <2>6 DEF WaitingFresh, IdleFresh
  <2>. QED  BY <2>3, <2>4, <2>7
<1>3. CASE Erase(c)
  <2>1. /\ hpc[c] = "erase" /\ hpc'[c] = "done"
        /\ \A d \in Conns : d # c => hpc'[d] = hpc[d]
        /\ UNCHANGED <<desc, backlog, cstate, cfd, m_threads, apc, acc>>
    BY <1>3 DEF Erase, TypeOK, HandlerTypeOK
  <2>2. AccOwned' /\ HandlerHasFd' /\ HandlerOwnsSocket' /\ DescUnique' /\ LiveHandlerInMap'
    BY <2>1 DEF AccOwned, HandlerHasFd, HandlerOwnsSocket, DescUnique,
                LiveHandlerInMap, Live, Serving
  <2>3. ASSUME NEW d \in Conns, Fresh(d) PROVE Fresh(d)'
    BY <2>1, <2>3 DEF Fresh
  <2>4. \A i \in 1 .. Len(backlog) : backlog[i] \in Conns
    BY DEF TypeOK, SockTypeOK
  <2>5. WaitingFresh' /\ IdleFresh'
    BY <2>1, <2>3, <2>4 DEF WaitingFresh, IdleFresh
  <2>. QED  BY <2>2, <2>5
<1>. QED  BY <1>1, <1>2, <1>3 DEF Handler

LEMMA OwnershipStep == IInv /\ [Next]_vars => Ownership'
<1>. SUFFICES ASSUME IInv, [Next]_vars PROVE Ownership'
  OBVIOUS
<1>0. \A c \in Conns : c \notin NotConns
  BY ConnsAssumption
<1>1. CASE UNCHANGED vars
  BY <1>1, QuietOwnership DEF vars, sockVars, acceptVars, handlerVars, QuietStep, IInv
<1>2. CASE User \/ Joins
  BY <1>0, <1>2, UserQuiet, JoinsQuiet, QuietOwnership DEF IInv, Registration
<1>3. CASE Accept
  BY <1>0, <1>3, OthersQuiet, QuietOwnership, AcceptConnOwnership,
     AcceptFailsOwnership, SpawnOwnership DEF Accept, IInv
<1>4. ASSUME NEW c \in Conns, Handler(c) PROVE Ownership'
  BY <1>0, <1>4, HandlerOwnership DEF IInv
<1>5. ASSUME NEW c \in Conns, Peer(c), UNCHANGED serverVars PROVE Ownership'
  BY <1>5, OthersQuiet, QuietOwnership, ConnectOwnership DEF IInv
<1>6. CASE (\E r \in Readers : Reader(r)) \/ (\E s \in Senders : Sender(s))
  BY <1>6, OthersQuiet, QuietOwnership DEF IInv
<1>. QED  BY <1>1, <1>2, <1>3, <1>4, <1>5, <1>6 DEF Next

-----------------------------------------------------------------------------
(* Registration.                                                            *)

(* Steps that register, spawn, erase and join nothing.                      *)
PlainStep ==
  /\ UNCHANGED <<m_is_running, upc, stopped, m_threads, m_clients, acc, cfd>>
  /\ apc' = "spawn" => apc = "spawn"
  /\ \A c \in Conns : hpc'[c] \in Serving => hpc[c] \in Serving

LEMMA PlainRegistration ==
  ASSUME TypeOK, Registration, PlainStep
  PROVE  Registration'
BY DEF Registration, PlainStep, StoppingNotRunning, NothingJoined, SpawnRegistered,
       AddressableOrStopped, Joinable

LEMMA OthersPlain ==
  ASSUME TypeOK,
         \/ \E r \in Readers : Reader(r)
         \/ \E s \in Senders : Sender(s)
         \/ \E c \in Conns : Peer(c) /\ UNCHANGED serverVars
         \/ \E c \in Conns : ~Erase(c) /\ Handler(c)
         \/ ~Register /\ ~Spawn /\ ~AcceptConn /\ Accept
  PROVE  PlainStep
<1>. USE DEF PlainStep, userVars, acceptVars, handlerVars
<1>1. ASSUME NEW r \in Readers, Reader(r) PROVE PlainStep
  BY <1>1 DEF Reader, ReadStep, ReadCall, ReadAvail, ReadPoll, ReadMin, ReadCopy,
              ClearFifo, readFrame
<1>2. ASSUME NEW s \in Senders, Sender(s) PROVE PlainStep
  BY <1>2 DEF Sender, SendStep, SendCall, SendLock, SendData, SendToClosed,
              SendToReset, SendToNone, SendReturns, sendFrame
<1>3. ASSUME NEW c \in Conns, UNCHANGED serverVars PROVE PlainStep
  BY <1>3 DEF serverVars
<1>4. ASSUME NEW c \in Conns, ~Erase(c) /\ Handler(c) PROVE PlainStep
  BY <1>4 DEF Handler, HandlerLoop, RecvData, RecvEnd, Insert, Callback, Close,
              handlerFrame, Serving, TypeOK, HandlerTypeOK
<1>5. CASE ~Register /\ ~Spawn /\ ~AcceptConn /\ Accept
  BY <1>5 DEF Accept, AcceptLoop, AcceptAgain, AcceptFails, NewClientCallback,
              acceptFrame
<1>. QED  BY <1>1, <1>2, <1>3, <1>4, <1>5

LEMMA UserRegistration ==
  ASSUME TypeOK, Registration, User \/ Joins
  PROVE  Registration'
<1>. USE DEF Registration, StoppingNotRunning, NothingJoined, SpawnRegistered,
             AddressableOrStopped, Joinable, userFrame, userVars, acceptVars, handlerVars
<1>1. CASE StartListening \/ StartThrows \/ Destroy
  BY <1>1 DEF StartListening, StartThrows, Destroy
<1>2. CASE Stop
  BY <1>2 DEF Stop
<1>3. ASSUME NEW f \in Fds, JoinHandler(f) PROVE Registration'
  BY <1>3 DEF JoinHandler
<1>4. CASE JoinedHandlers
  BY <1>4 DEF JoinedHandlers
<1>5. CASE JoinAccept
  BY <1>5 DEF JoinAccept, ServerStop
<1>. QED  BY <1>1, <1>2, <1>3, <1>4, <1>5 DEF User, Joins

LEMMA AcceptRegistration ==
  ASSUME TypeOK, Ownership, Registration, Register \/ Spawn \/ AcceptConn
  PROVE  Registration'
<1>. USE DEF acceptFrame
<1>1. CASE Register
  BY <1>1 DEF Register, Registration, StoppingNotRunning, NothingJoined,
              SpawnRegistered, AddressableOrStopped, userVars, handlerVars
<1>2. CASE AcceptConn
  BY <1>2 DEF AcceptConn, Registration, StoppingNotRunning, NothingJoined,
              SpawnRegistered, AddressableOrStopped
<1>3. CASE Spawn /\ Joinable(acc)
  BY <1>3, PlainRegistration DEF Spawn, NewClient, PlainStep
<1>4. CASE Spawn /\ ~Joinable(acc)
  <2>. DEFINE d == desc[acc]
  <2>1. /\ acc \in Fds /\ d \in Conns /\ apc = "spawn"
        /\ m_threads' = [m_threads EXCEPT ![acc] = d]
        /\ \A c \in Conns : c # d => hpc'[c] = hpc[c] /\ cfd'[c] = cfd[c]
        /\ cfd'[d] = acc
        /\ apc' = "callback"
        /\ UNCHANGED <<m_is_running, upc, stopped, m_clients, acc>>
    BY <1>4 DEF Spawn, NewClient, Ownership, AccOwned, TypeOK, HandlerTypeOK
  <2>. HIDE DEF d
  <2>2. d # "joined"
    BY <2>1, ConnsAssumption DEF NotConns
  <2>3. StoppingNotRunning' /\ NothingJoined' /\ SpawnRegistered'
    BY <2>1, <2>2 DEF Registration, StoppingNotRunning, NothingJoined, SpawnRegistered,
                      TypeOK, ServerTypeOK
  <2>4. AddressableOrStopped'
    BY <1>4, <2>1 DEF Registration, SpawnRegistered, AddressableOrStopped
  <2>. QED  BY <2>3, <2>4 DEF Registration
<1>. QED  BY <1>1, <1>2, <1>3, <1>4

(* The hazard: the descriptor is closed, so it may be registered again, but *)
(* m_threads still holds this handler under it.                             *)
LEMMA EraseRegistration ==
  ASSUME TypeOK, Ownership, Registration, NEW c \in Conns, Erase(c)
  PROVE  Registration'
<1>1. /\ hpc[c] = "erase" /\ m_threads[cfd[c]] = c /\ Joinable(cfd[c])
      /\ m_clients' = m_clients \ {cfd[c]}
      /\ hpc'[c] = "done"
      /\ \A d \in Conns : d # c => hpc'[d] = hpc[d]
      /\ UNCHANGED <<m_is_running, upc, stopped, m_threads, apc, acc, cfd>>
  BY DEF Erase, Ownership, LiveHandlerInMap, Live, Joinable, TypeOK, HandlerTypeOK,
         handlerFrame, userVars, acceptVars
<1>2. StoppingNotRunning' /\ NothingJoined'
  BY <1>1 DEF Registration, StoppingNotRunning, NothingJoined
<1>3. SpawnRegistered'
  BY <1>1 DEF Registration, SpawnRegistered, Joinable
<1>4. AddressableOrStopped'
  <2>1. ASSUME NEW d \in Conns, d # c, hpc[d] \in Serving PROVE cfd[d] # cfd[c]
    BY <1>1, <2>1 DEF Ownership, LiveHandlerInMap, Live
  <2>. QED  BY <1>1, <2>1 DEF Registration, AddressableOrStopped, Serving
<1>. QED  BY <1>2, <1>3, <1>4 DEF Registration

LEMMA RegistrationStep == IInv /\ [Next]_vars => Registration'
<1>. SUFFICES ASSUME IInv, [Next]_vars PROVE Registration'
  OBVIOUS
<1>1. CASE UNCHANGED vars
  BY <1>1, PlainRegistration DEF vars, userVars, acceptVars, handlerVars, PlainStep, IInv
<1>2. CASE User \/ Joins
  BY <1>2, UserRegistration DEF IInv
<1>3. CASE Accept
  BY <1>3, OthersPlain, PlainRegistration, AcceptRegistration DEF IInv
<1>4. ASSUME NEW c \in Conns, Handler(c) PROVE Registration'
  BY <1>4, OthersPlain, PlainRegistration, EraseRegistration DEF IInv
<1>5. CASE \/ \E c \in Conns : Peer(c) /\ UNCHANGED serverVars
           \/ \E r \in Readers : Reader(r)
           \/ \E s \in Senders : Sender(s)
  BY <1>5, OthersPlain, PlainRegistration DEF IInv
<1>. QED  BY <1>1, <1>2, <1>3, <1>4, <1>5 DEF Next

-----------------------------------------------------------------------------
(* The theorems.                                                            *)

(* The inductive invariant holds in every reachable state of the server     *)
(* (tcp_client.hpp:58-438 and the parts of com_client.hpp it inherits).     *)
THEOREM Invariance == Spec => []IInv
<1>1. IInv /\ [Next]_vars => IInv'
  BY TypeStep, OwnershipStep, RegistrationStep DEF IInv
<1>. QED  BY InitInv, <1>1, PTL DEF Spec

(* Type correctness: what the members of TCPServer and Server and the       *)
(* locals of its threads hold (tcp_client.hpp:370-375).                     *)
THEOREM TypeCorrect == Spec => []TypeOK
<1>1. IInv => TypeOK
  BY DEF IInv
<1>. QED  BY <1>1, Invariance, PTL

(* No handler ever receives from, or closes, a connection of another: the   *)
(* descriptor it was given stands for its client until it closes it itself  *)
(* (tcp_client.hpp:305, 363).                                               *)
THEOREM SocketOwnership == Spec => []HandlerOwnsSocket
<1>1. IInv => HandlerOwnsSocket
  BY DEF IInv, Ownership
<1>. QED  BY <1>1, Invariance, PTL

(* No handler is lost: m_threads holds every handler that has not returned, *)
(* so that a join or a destructor meets it (tcp_client.hpp:92-94, 429).     *)
THEOREM NoHandlerLost == Spec => []LiveHandlerInMap
<1>1. IInv => LiveHandlerInMap
  BY DEF IInv, Ownership
<1>. QED  BY <1>1, Invariance, PTL

(* Until stop() is called, a handler that erases its entries late never     *)
(* takes those of a client that has its number now (tcp_client.hpp:363-367, *)
(* 425-429).                                                                *)
THEOREM Addressable == Spec => []ServedIsAddressable
<1>1. IInv => ServedIsAddressable
  BY DEF IInv, Registration, AddressableOrStopped, ServedIsAddressable
<1>. QED  BY <1>1, Invariance, PTL

-----------------------------------------------------------------------------
(* start() and stop().  Nobody is inside stop() while the server is to run, *)
(* and a server that is not to run and is not being stopped has no accept   *)
(* thread.                                                                  *)

AcceptOver == upc = "idle" /\ ~m_is_running => apc = "none"
StopHasBegun == upc # "idle" => ~m_is_running

PhaseInv ==
  /\ m_is_running \in BOOLEAN
  /\ upc \in {"idle", "joining", "joinAccept"}
  /\ AcceptOver
  /\ StopHasBegun

(* What every step but those of start(), stop() and the accept loop leaves. *)
phase == <<m_is_running, upc, apc>>

LEMMA OthersPhase ==
  ASSUME \/ \E c \in Conns : Handler(c)
         \/ \E r \in Readers : Reader(r)
         \/ \E s \in Senders : Sender(s)
         \/ \E c \in Conns : Peer(c) /\ UNCHANGED serverVars
         \/ UNCHANGED vars
  PROVE  UNCHANGED phase
<1>. USE DEF phase
<1>1. ASSUME NEW c \in Conns, Handler(c) PROVE UNCHANGED phase
  BY <1>1 DEF Handler, HandlerLoop, RecvData, RecvEnd, Insert, Callback, Close, Erase,
              handlerFrame, userVars, acceptVars
<1>2. ASSUME NEW r \in Readers, Reader(r) PROVE UNCHANGED phase
  BY <1>2 DEF Reader, ReadStep, ReadCall, ReadAvail, ReadPoll, ReadMin, ReadCopy,
              ClearFifo, readFrame, userVars, acceptVars
<1>3. ASSUME NEW s \in Senders, Sender(s) PROVE UNCHANGED phase
  BY <1>3 DEF Sender, SendStep, SendCall, SendLock, SendData, SendToClosed,
              SendToReset, SendToNone, SendReturns, sendFrame, userVars, acceptVars
<1>4. ASSUME UNCHANGED serverVars \/ UNCHANGED vars PROVE UNCHANGED phase
  BY <1>4 DEF serverVars, vars, userVars, acceptVars
<1>. QED  BY <1>1, <1>2, <1>3, <1>4

-----------------------------------------------------------------------------
(* One step of the server is one step of ServerLifecycle, or none.          *)

PhaseStep == PhaseInv' /\ [Lifecycle!Next]_(Lifecycle!vars)

LEMMA OthersRefine ==
  ASSUME PhaseInv, UNCHANGED phase
  PROVE  PhaseStep
BY DEF PhaseStep, PhaseInv, phase, AcceptOver, StopHasBegun, Lifecycle!vars

LEMMA UserRefines ==
  ASSUME PhaseInv, User
  PROVE  PhaseStep
<1>. USE DEF PhaseStep, PhaseInv, AcceptOver, StopHasBegun, userFrame, userVars,
             Lifecycle!vars, Lifecycle!Next
<1>1. CASE StartListening
  BY <1>1 DEF StartListening, Lifecycle!Start
<1>2. CASE StartThrows
  BY <1>2 DEF StartThrows, Lifecycle!Start
<1>3. CASE Stop
  BY <1>3 DEF Stop, Lifecycle!BeginStop
<1>4. CASE Destroy
  BY <1>4 DEF Destroy
<1>. QED  BY <1>1, <1>2, <1>3, <1>4 DEF User

LEMMA JoinsRefine ==
  ASSUME PhaseInv, Joins
  PROVE  PhaseStep
<1>. USE DEF PhaseStep, PhaseInv, AcceptOver, StopHasBegun, userFrame, userVars,
             Lifecycle!vars, Lifecycle!Next
<1>1. ASSUME NEW f \in Fds, JoinHandler(f) PROVE PhaseStep
  BY <1>1 DEF JoinHandler
<1>2. CASE JoinedHandlers
  BY <1>2 DEF JoinedHandlers
<1>3. CASE JoinAccept
  BY <1>3 DEF JoinAccept, ServerStop, Lifecycle!Return
<1>. QED  BY <1>1, <1>2, <1>3 DEF Joins

LEMMA AcceptRefines ==
  ASSUME PhaseInv, Accept
  PROVE  PhaseStep
<1>1. /\ UNCHANGED <<m_is_running, upc>>
      /\ apc \notin {"none", "exited"} /\ apc' # "none"
  BY DEF Accept, AcceptLoop, AcceptConn, AcceptAgain, AcceptFails, Register, Spawn,
         NewClientCallback, acceptFrame
<1>2. PhaseInv'
  BY <1>1 DEF PhaseInv, AcceptOver, StopHasBegun
<1>3. [Lifecycle!Next]_(Lifecycle!vars)
  BY <1>1 DEF Lifecycle!Next, Lifecycle!End, Lifecycle!vars
<1>. QED  BY <1>2, <1>3 DEF PhaseStep

LEMMA StepRefines == PhaseInv /\ [Next]_vars => PhaseStep
<1>. SUFFICES ASSUME PhaseInv, [Next]_vars PROVE PhaseStep
  OBVIOUS
<1>1. CASE User  BY <1>1, UserRefines
<1>2. CASE Joins  BY <1>2, JoinsRefine
<1>3. CASE Accept  BY <1>3, AcceptRefines
<1>4. CASE \/ \E c \in Conns : Handler(c)
           \/ \E r \in Readers : Reader(r)
           \/ \E s \in Senders : Sender(s)
           \/ \E c \in Conns : Peer(c) /\ UNCHANGED serverVars
           \/ UNCHANGED vars
  BY <1>4, OthersPhase, OthersRefine
<1>. QED  BY <1>1, <1>2, <1>3, <1>4 DEF Next

LEMMA InitPhase == Init => PhaseInv /\ Lifecycle!Init
BY DEF Init, PhaseInv, AcceptOver, StopHasBegun, Lifecycle!Init

LEMMA PhaseInvariance == Spec => []PhaseInv
<1>1. PhaseInv /\ [Next]_vars => PhaseInv'
  BY StepRefines DEF PhaseStep
<1>. QED  BY InitPhase, <1>1, PTL DEF Spec

(* start() and stop() of TCPServer are those of ServerLifecycle: every step *)
(* of every thread is one of its steps or leaves it alone                   *)
(* (com_client.hpp:177-202, tcp_client.hpp:85-104, 388-420).                *)
THEOREM Refinement == Spec => ServesAsPromised
<1>1. PhaseInv /\ [Next]_vars => [Lifecycle!Next]_(Lifecycle!vars)
  BY StepRefines DEF PhaseStep
<1>. QED  BY InitPhase, PhaseInvariance, <1>1, PTL DEF Spec, ServesAsPromised, Lifecycle!Spec

(* When stop() has returned nothing accepts any more, and m_accept_thread   *)
(* can be assigned (tcp_client.hpp:96-97, 289).                             *)
THEOREM AcceptStopped == Spec => []StoppedAcceptsNobody
<1>1. PhaseInv => StoppedAcceptsNobody
  BY DEF PhaseInv, AcceptOver, StoppedAcceptsNobody
<1>. QED  BY <1>1, PhaseInvariance, PTL

=============================================================================
