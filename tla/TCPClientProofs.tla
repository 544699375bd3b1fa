-------------------------- MODULE TCPClientProofs --------------------------
(***************************************************************************)
(* Proofs about TCPClient, for any number of threads, sockets and bytes:   *)
(* who holds the mutex, which socket blocks, which sizes are kept to, and  *)
(* that the calls of readS get consecutive pieces of each stream.          *)
(***************************************************************************)
EXTENDS TCPClient, DataLemmas

Threads == Readers \cup Writers

(* What the proofs need of TypeOK.                                          *)
Control ==
  /\ m_fd \in Socks \cup {"none"}
  /\ rpc \in [Readers -> {"idle", "enter", "recv", "failed"}]
  /\ wpc \in [Writers -> {"idle", "send"}]
  /\ rs \in [Threads -> Socks \cup {"none"}]

(* The mutex is held by the thread that is inside readS or writeS.          *)
Holding ==
  /\ \A t \in Readers : rpc[t] # "idle" <=> m_mutex = t
  /\ \A t \in Writers : wpc[t] # "idle" <=> m_mutex = t

(* A system call is only under way inside readS and writeS.                 *)
Calling ==
  /\ \A t \in Readers : rs[t] # "none" => rpc[t] # "idle"
  /\ \A t \in Writers : rs[t] # "none" => wpc[t] # "idle"

MInv == Control /\ Holding /\ Calling

-----------------------------------------------------------------------------
LEMMA InitMInv == Init => MInv
BY ThreadsAssumption DEF Init, MInv, Control, Holding, Calling, Threads

(* Everything but readS and writeS leaves alone what MInv speaks of, but    *)
(* for m_fd.                                                                *)
LEMMA OthersMInv ==
  ASSUME MInv, UNCHANGED <<rpc, wpc, rs, m_mutex>>, m_fd' \in Socks \cup {"none"}
  PROVE  MInv'
BY DEF MInv, Control, Holding, Calling

LEMMA OpenMInv ==
  ASSUME MInv, (\E k \in Socks : Open(k) \/ Peer(k)) \/ OpenStep \/ Close
  PROVE  MInv'
<1>1. UNCHANGED <<rpc, wpc, rs, m_mutex>> /\ m_fd' \in Socks \cup {"none"}
  <2>1. ASSUME NEW k \in Socks, Open(k)
        PROVE  UNCHANGED <<rpc, wpc, rs, m_mutex>> /\ m_fd' \in Socks \cup {"none"}
    BY <2>1 DEF Open, openFrame, readVars
  <2>2. ASSUME NEW k \in Socks, Peer(k)
        PROVE  UNCHANGED <<rpc, wpc, rs, m_mutex, m_fd>>
    BY <2>2 DEF Peer, Handshake, PeerSends, PeerLeaves, peerFrame, readVars
  <2>3. ASSUME OpenStep
        PROVE  UNCHANGED <<rpc, wpc, rs, m_mutex, m_fd>>
    BY <2>3 DEF OpenStep, SetNonBlocking, Connect, SetBlocking, Select, OpenResult,
                Closed, openFrame, closeFrame, readVars
  <2>4. ASSUME Close
        PROVE  UNCHANGED <<rpc, wpc, rs, m_mutex, m_fd>>
    BY <2>4 DEF Close, closeFrame, readVars
  <2> QED BY <2>1, <2>2, <2>3, <2>4 DEF MInv, Control
<1> QED BY <1>1, OthersMInv

LEMMA ReaderMInv ==
  ASSUME MInv, NEW t \in Readers, Reader(t)
  PROVE  MInv'
<1> USE ThreadsAssumption DEF MInv, Control, Holding, Calling, Threads, Update
<1>1. CASE ReadS(t)
  BY <1>1 DEF ReadS, readFrame
<1>2. CASE RecvEnter(t)
  BY <1>2 DEF RecvEnter, readFrame
<1>3. ASSUME NEW m, NEW bytes, RecvReturns(t, m, bytes), rpc[t] # "idle"
      PROVE  MInv'
  <2>1. \/ rpc' = [rpc EXCEPT ![t] = "idle"] /\ m_mutex' = "free"
        \/ rpc' = [rpc EXCEPT ![t] = "enter"] /\ m_mutex' = m_mutex
    BY <1>3 DEF RecvReturns
  <2>2. rs' = [rs EXCEPT ![t] = "none"] /\ UNCHANGED <<m_fd, wpc>>
    BY <1>3 DEF RecvReturns, readFrame
  <2> QED BY <1>3, <2>1, <2>2
<1>4. CASE RecvData(t)
  BY <1>3, <1>4 DEF RecvData
<1>5. CASE RecvEof(t)
  BY <1>3, <1>5 DEF RecvEof
<1>6. CASE RecvFails(t)
  BY <1>3, <1>6 DEF RecvFails
<1> QED BY <1>1, <1>2, <1>4, <1>5, <1>6 DEF Reader, Recv

LEMMA WriterMInv ==
  ASSUME MInv, NEW t \in Writers, Writer(t)
  PROVE  MInv'
<1> USE ThreadsAssumption DEF MInv, Control, Holding, Calling, Threads, Update
<1>1. CASE WriteS(t)
  BY <1>1 DEF WriteS, writeFrame, readVars
<1>2. ASSUME SendReturns(t)
      PROVE  MInv'
  BY <1>2 DEF SendReturns, writeFrame, readVars
<1> QED BY <1>1, <1>2 DEF Writer, SendStep, Send, SendToFin, SendFails

LEMMA StepMInv == MInv /\ [Next]_vars => MInv'
<1> SUFFICES ASSUME MInv, [Next]_vars PROVE MInv'
  OBVIOUS
<1>1. CASE UNCHANGED vars
  BY <1>1 DEF vars, readVars, MInv, Control, Holding, Calling
<1>2. CASE Next
  BY <1>2, OpenMInv, ReaderMInv, WriterMInv DEF Next
<1> QED BY <1>1, <1>2

(* A thread inside recv() or send() holds m_mutex (tcp_client.cpp:112, 142),*)
(* whatever the thread that opens and closes connections does, which takes  *)
(* the mutex only for SetSocketBlockingEnabled.                             *)
THEOREM MutexHeld == Spec => []MutexGuardsSocket
<1>1. MInv => MutexGuardsSocket
  BY DEF MInv, Holding, Calling, MutexGuardsSocket
<1> QED BY <1>1, InitMInv, StepMInv, PTL DEF Spec

-----------------------------------------------------------------------------
(* O_NONBLOCK.  open_connection sets and resets it on the same m_fd because *)
(* nothing else assigns m_fd in between.                                    *)

LEMMA StepBlocking ==
  NonBlockingOnlyInConnect /\ [Next]_vars => NonBlockingOnlyInConnect'
<1> SUFFICES ASSUME NonBlockingOnlyInConnect, [Next]_vars
             PROVE  NonBlockingOnlyInConnect'
  OBVIOUS
<1> USE DEF NonBlockingOnlyInConnect
<1>1. ASSUME UNCHANGED <<blocking, m_fd, opc>>
      PROVE  NonBlockingOnlyInConnect'
  BY <1>1
<1>2. ASSUME NEW k \in Socks, Open(k)
      PROVE  NonBlockingOnlyInConnect'
  BY <1>2 DEF Open
<1>3. CASE OpenStep
  <2>1. CASE SetNonBlocking
    BY <2>1 DEF SetNonBlocking
  <2>2. CASE Connect
    BY <2>2 DEF Connect
  <2>3. CASE SetBlocking
    BY <2>3 DEF SetBlocking
  <2>4. CASE Select \/ OpenResult \/ Closed
    BY <2>4 DEF Select, OpenResult, Closed, closeFrame
  <2> QED BY <1>3, <2>1, <2>2, <2>3, <2>4 DEF OpenStep
<1>4. CASE Close
  BY <1>4 DEF Close, closeFrame
<1>5. ASSUME NEW k \in Socks, Peer(k)
      PROVE  UNCHANGED <<blocking, m_fd, opc>>
  BY <1>5 DEF Peer, Handshake, PeerSends, PeerLeaves, peerFrame
<1>6. ASSUME NEW t \in Readers, Reader(t)
      PROVE  UNCHANGED <<blocking, m_fd, opc>>
  BY <1>6 DEF Reader, Recv, ReadS, RecvEnter, RecvData, RecvEof, RecvFails,
              RecvReturns, readFrame
<1>7. ASSUME NEW t \in Writers, Writer(t)
      PROVE  UNCHANGED <<blocking, m_fd, opc>>
  BY <1>7 DEF Writer, SendStep, WriteS, Send, SendToFin, SendFails, SendReturns,
              writeFrame
<1>8. CASE UNCHANGED vars
  BY <1>1, <1>8 DEF vars, sockVars
<1> QED BY <1>1, <1>2, <1>3, <1>4, <1>5, <1>6, <1>7, <1>8 DEF Next

(* A socket has O_NONBLOCK only between the two calls of                    *)
(* SetSocketBlockingEnabled in open_connection (tcp_client.cpp:38-42).      *)
THEOREM BlockingRestored == Spec => []NonBlockingOnlyInConnect
<1>1. Init => NonBlockingOnlyInConnect
  BY DEF Init, NonBlockingOnlyInConnect
<1> QED BY <1>1, StepBlocking, PTL DEF Spec

-----------------------------------------------------------------------------
(* Types.  A call is only under way on a socket that was made, and a readS  *)
(* that has not begun has read nothing: so n never exceeds its size.        *)

SockTypes ==
  /\ sstate \in [Socks -> {"unused", "fresh", "connecting", "open", "fin", "error", "dead"}]
  /\ closed \subseteq Socks /\ blocking \subseteq Socks
  /\ rbuf \in [Socks -> Seq(Byte)]
  /\ sent \in [Socks -> Nat] /\ \A k \in Socks : sent[k] <= MaxBytes[k]

OpenTypes ==
  /\ m_fd \in Socks \cup {"none"} /\ m_is_connected \in BOOLEAN
  /\ opc \in {"idle", "nonblock", "connect", "connectNB", "madeNB", "refusedNB",
              "progressNB", "select", "result", "closed"}
  /\ m_is_connected \/ opc # "idle" => m_fd # "none"

ReadTypes ==
  /\ rpc \in [Readers -> {"idle", "enter", "recv", "failed"}]
  /\ want \in [Readers -> 0 .. MaxSize] /\ n \in [Readers -> Int]
  /\ until \in [Readers -> BOOLEAN]
  /\ buffer \in [Readers -> Seq(Byte)] /\ DOMAIN returned = Socks
  /\ \A t \in Readers :
       /\ n[t] \in -MaxErrors .. want[t]
       /\ rpc[t] = "idle" => n[t] = 0 /\ want[t] = 0
       /\ rpc[t] # "idle" => m_fd # "none"

CallTypes ==
  /\ m_mutex \in Threads \cup {"free"}
  /\ wpc \in [Writers -> {"idle", "send"}]
  /\ rs \in [Threads -> Socks \cup {"none"}]
  /\ \A t \in Readers : rpc[t] = "recv" => rs[t] # "none"
  /\ \A t \in Writers : wpc[t] = "send" => rs[t] # "none"
  /\ proc \in {"up", "undefined", "sigpipe"}

TInv == SockTypes /\ OpenTypes /\ ReadTypes /\ CallTypes

LEMMA InitTypes == Init => TInv
<1>. SUFFICES ASSUME Init PROVE TInv
  OBVIOUS
<1>1. <<>> \in Seq(Byte) /\ 0 \in 0 .. MaxSize /\ 0 \in -MaxErrors .. 0
  BY EmptySeq, ClientBounds
<1>2. SockTypes
  BY <1>1, ClientBounds DEF Init, SockTypes
<1>3. OpenTypes /\ CallTypes
  BY DEF Init, OpenTypes, CallTypes, Threads
<1>4. ReadTypes
  BY <1>1 DEF Init, ReadTypes
<1>. QED  BY <1>2, <1>3, <1>4 DEF TInv

LEMMA PeerTypes ==
  ASSUME TInv, NEW k \in Socks, Peer(k)
  PROVE  TInv'
<1>1. OpenTypes' /\ ReadTypes' /\ CallTypes'
  BY DEF Peer, Handshake, PeerSends, PeerLeaves, peerFrame, readVars, TInv, OpenTypes, ReadTypes,
         CallTypes
<1>2. CASE Handshake(k) \/ PeerLeaves(k)
  BY <1>1, <1>2 DEF Handshake, PeerLeaves, peerFrame, Update, TInv, SockTypes
<1>3. CASE PeerSends(k)
  <2>0. sent[k] \in Nat /\ MaxBytes[k] \in Nat /\ sent[k] < MaxBytes[k]
    BY <1>3, ClientBounds DEF PeerSends, TInv, SockTypes
  <2>1. <<k, sent[k] + 1>> \in Byte
    <3>1. sent[k] + 1 \in 1 .. MaxBytes[k]
      BY <2>0
    <3>2. <<k, sent[k] + 1>> \in {k} \X (1 .. MaxBytes[k])
      BY <3>1
    <3>. QED  BY <3>2 DEF Byte
  <2>2. rbuf' \in [Socks -> Seq(Byte)]
    BY <1>3, <2>1, AppendProperties DEF PeerSends, TInv, SockTypes
  <2>3. sent' \in [Socks -> Nat] /\ \A x \in Socks : sent'[x] <= MaxBytes[x]
    <3>1. /\ sent \in [Socks -> Nat] /\ sent' = [sent EXCEPT ![k] = sent[k] + 1]
          /\ sent[k] < MaxBytes[k]
      BY <1>3 DEF PeerSends, TInv, SockTypes
    <3>2. sent[k] + 1 <= MaxBytes[k]
      BY <2>0
    <3>3. \A x \in Socks : sent[x] <= MaxBytes[x]
      BY DEF TInv, SockTypes
    <3>. QED  BY <3>1, <3>2, <3>3
  <2>. QED  BY <1>1, <1>3, <2>2, <2>3 DEF PeerSends, peerFrame, TInv, SockTypes
<1>. QED  BY <1>2, <1>3 DEF Peer

LEMMA OpenTypesStep ==
  ASSUME TInv, (\E k \in Socks : Open(k)) \/ OpenStep \/ Close
  PROVE  TInv'
<1>1. SockTypes'
  <2>1. UNCHANGED <<rbuf, sent>>
    BY DEF Open, OpenStep, SetNonBlocking, Connect, SetBlocking, Select, OpenResult, Closed, Close,
           openFrame, closeFrame
  <2>2. closed' \subseteq Socks /\ blocking' \subseteq Socks
    BY DEF Open, OpenStep, SetNonBlocking, Connect, SetBlocking, Select, OpenResult, Closed, Close,
           openFrame, closeFrame, TInv, SockTypes, OpenTypes
  <2>3. sstate' = sstate \/ \E k, s : /\ sstate' = Update(sstate, k, s)
                                     /\ s \in {"fresh", "open", "connecting", "dead"}
    BY DEF Open, OpenStep, SetNonBlocking, Connect, SetBlocking, Select, OpenResult, Closed, Close,
           openFrame, closeFrame
  <2>. QED  BY <2>1, <2>2, <2>3 DEF Update, TInv, SockTypes
<1>2. OpenTypes' /\ (m_fd # "none" => m_fd' # "none")
  BY SocksAssumption
     DEF Open, OpenStep, SetNonBlocking, Connect, SetBlocking, Select, OpenResult, Closed, Close,
         closeFrame, TInv, OpenTypes
<1>3. UNCHANGED <<proc, m_mutex, readVars, rs, wpc>>
  BY DEF Open, OpenStep, SetNonBlocking, Connect, SetBlocking, Select, OpenResult, Closed, Close,
         openFrame, closeFrame
<1>. QED  BY <1>1, <1>2, <1>3 DEF TInv, ReadTypes, CallTypes, readVars

LEMMA RecvReturnsTypes ==
  ASSUME TInv, NEW t \in Readers, NEW m \in Int, NEW bytes \in Seq(Byte), RecvReturns(t, m, bytes),
         rpc[t] # "idle", -MaxErrors <= m, m <= want[t], proc' \in {"up", "undefined", "sigpipe"},
         sstate' \in [Socks -> {"unused", "fresh", "connecting", "open", "fin", "error", "dead"}],
         rbuf' \in [Socks -> Seq(Byte)]
  PROVE  TInv'
<1>1. UNCHANGED <<closed, blocking, sent, m_fd, m_is_connected, opc, wpc>> /\ rs' = Update(rs, t, "none")
  BY DEF RecvReturns, readFrame
<1>2. SockTypes' /\ OpenTypes'
  BY <1>1 DEF TInv, SockTypes, OpenTypes
<1>3. CASE Done(t, m)
  <2>1. ReadTypes'
    <3>1. /\ rpc' = [rpc EXCEPT ![t] = "idle"] /\ buffer' = [buffer EXCEPT ![t] = <<>>]
          /\ n' = [n EXCEPT ![t] = 0] /\ want' = [want EXCEPT ![t] = 0]
          /\ until' = [until EXCEPT ![t] = FALSE] /\ DOMAIN returned' = Socks
      BY <1>3 DEF RecvReturns, Update
    <3>2. <<>> \in Seq(Byte) /\ 0 \in 0 .. MaxSize /\ 0 \in -MaxErrors .. 0
      BY ClientBounds, EmptySeq
    <3>3. /\ rpc' \in [Readers -> {"idle", "enter", "recv", "failed"}]
          /\ want' \in [Readers -> 0 .. MaxSize] /\ n' \in [Readers -> Int]
          /\ until' \in [Readers -> BOOLEAN] /\ buffer' \in [Readers -> Seq(Byte)]
      BY <3>1, <3>2 DEF TInv, ReadTypes
    <3>4. ASSUME NEW u \in Readers
          PROVE  /\ n'[u] \in -MaxErrors .. want'[u]
                 /\ rpc'[u] = "idle" => n'[u] = 0 /\ want'[u] = 0
                 /\ rpc'[u] # "idle" => m_fd' # "none"
      <4>1. /\ n[u] \in -MaxErrors .. want[u]
            /\ rpc[u] = "idle" => n[u] = 0 /\ want[u] = 0
            /\ rpc[u] # "idle" => m_fd # "none"
        BY DEF TInv, ReadTypes
      <4>2. CASE u = t
        BY <3>1, <3>2, <4>2 DEF TInv, ReadTypes
      <4>3. CASE u # t
        BY <1>1, <3>1, <4>1, <4>3 DEF TInv, ReadTypes
      <4>. QED  BY <4>2, <4>3
    <3>. QED  BY <3>1, <3>3, <3>4 DEF ReadTypes
  <2>2. CallTypes'
    BY <1>1, <1>3, ThreadsAssumption DEF RecvReturns, Update, TInv, ReadTypes, CallTypes, Threads
  <2>. QED  BY <1>2, <2>1, <2>2 DEF TInv
<1>4. CASE ~Done(t, m)
  <2>1. ReadTypes'
    <3>1. /\ rpc' = [rpc EXCEPT ![t] = "enter"] /\ buffer' = [buffer EXCEPT ![t] = bytes]
          /\ n' = [n EXCEPT ![t] = m] /\ UNCHANGED <<want, until, returned>>
      BY <1>4 DEF RecvReturns, Update
    <3>2. m \in -MaxErrors .. want[t] /\ m_fd # "none"
      BY ClientBounds DEF TInv, ReadTypes
    <3>3. /\ rpc' \in [Readers -> {"idle", "enter", "recv", "failed"}]
          /\ n' \in [Readers -> Int] /\ buffer' \in [Readers -> Seq(Byte)]
      BY <3>1 DEF TInv, ReadTypes
    <3>4. ASSUME NEW u \in Readers
          PROVE  /\ n'[u] \in -MaxErrors .. want'[u]
                 /\ rpc'[u] = "idle" => n'[u] = 0 /\ want'[u] = 0
                 /\ rpc'[u] # "idle" => m_fd' # "none"
      <4>1. /\ n[u] \in -MaxErrors .. want[u]
            /\ rpc[u] = "idle" => n[u] = 0 /\ want[u] = 0
            /\ rpc[u] # "idle" => m_fd # "none"
        BY DEF TInv, ReadTypes
      <4>2. CASE u = t
        BY <1>1, <3>1, <3>2, <4>2 DEF TInv, ReadTypes
      <4>3. CASE u # t
        BY <1>1, <3>1, <4>1, <4>3 DEF TInv, ReadTypes
      <4>. QED  BY <4>2, <4>3
    <3>. QED  BY <3>1, <3>3, <3>4 DEF TInv, ReadTypes
  <2>2. CallTypes'
    BY <1>1, <1>4, ThreadsAssumption DEF RecvReturns, Update, TInv, ReadTypes, CallTypes, Threads
  <2>. QED  BY <1>2, <2>1, <2>2 DEF TInv
<1>. QED  BY <1>3, <1>4

LEMMA ReaderTypes ==
  ASSUME TInv, NEW t \in Readers, Reader(t)
  PROVE  TInv'
<1>0. /\ n[t] \in Int /\ -MaxErrors <= n[t] /\ n[t] <= want[t] /\ want[t] \in 0 .. MaxSize
      /\ buffer[t] \in Seq(Byte)
  BY ClientBounds DEF TInv, ReadTypes
<1>1. CASE ReadS(t)
  <2>1. m_fd # "none"
    BY <1>1 DEF ReadS, TInv, OpenTypes
  <2>2. ReadTypes'
    BY <1>1, <2>1, ClientBounds DEF ReadS, readFrame, Update, TInv, ReadTypes
  <2>3. SockTypes' /\ OpenTypes' /\ CallTypes'
    BY <1>1 DEF ReadS, readFrame, Update, TInv, SockTypes, OpenTypes, ReadTypes, CallTypes, Threads
  <2>. QED  BY <2>2, <2>3 DEF TInv
<1>2. CASE RecvEnter(t)
  <2>1. m_fd \in Socks
    BY <1>2 DEF RecvEnter, TInv, OpenTypes, ReadTypes
  <2>2. SockTypes' /\ OpenTypes' /\ ReadTypes'
    BY <1>2 DEF RecvEnter, readFrame, Update, TInv, SockTypes, OpenTypes, ReadTypes
  <2>3. CallTypes'
    BY <1>2, <2>1, SocksAssumption, ThreadsAssumption
       DEF RecvEnter, readFrame, Update, TInv, ReadTypes, CallTypes, Threads
  <2>. QED  BY <2>2, <2>3 DEF TInv
<1>3. CASE RecvData(t)
  <2>. DEFINE k == rs[t]
              r == IF Len(rbuf[k]) < Room(t) THEN Len(rbuf[k]) ELSE Room(t)
  <2>1. k \in Socks /\ rbuf[k] \in Seq(Byte) /\ Len(rbuf[k]) \in Nat
    BY <1>3 DEF RecvData, TInv, CallTypes, SockTypes, Threads
  <2>2. r \in 0 .. Len(rbuf[k]) /\ n[t] + r \in Int /\ -MaxErrors <= n[t] + r /\ n[t] + r <= want[t]
    <3>1. ASSUME NEW a \in Nat, NEW b \in Int, NEW w \in Nat, NEW e \in Nat, -e <= b, b <= w
          PROVE  LET q == IF a < w - b THEN a ELSE w - b
                 IN q \in 0 .. a /\ b + q \in Int /\ -e <= b + q /\ b + q <= w
      BY <3>1
    <3>2. want[t] \in Nat /\ MaxErrors \in Nat
      BY <1>0, ClientBounds
    <3>. QED  BY <1>0, <2>1, <3>1, <3>2 DEF Room
  <2>3. SubSeq(rbuf[k], 1, r) \in Seq(Byte) /\ SubSeq(rbuf[k], r + 1, Len(rbuf[k])) \in Seq(Byte)
    BY <2>1, <2>2, SubSeqProperties
  <2>4. buffer[t] \o SubSeq(rbuf[k], 1, r) \in Seq(Byte)
    BY <1>0, <2>3, ConcatProperties
  <2>5. /\ RecvReturns(t, n[t] + r, buffer[t] \o SubSeq(rbuf[k], 1, r)) /\ rpc[t] = "recv"
        /\ rbuf' = [rbuf EXCEPT ![k] = SubSeq(rbuf[k], r + 1, Len(rbuf[k]))]
        /\ sstate' = sstate /\ proc' \in {"undefined", proc}
    BY <1>3 DEF RecvData, Update
  <2>. HIDE DEF r
  <2>6. rbuf' \in [Socks -> Seq(Byte)]
    BY <2>1, <2>3, <2>5 DEF TInv, SockTypes
  <2>. QED  BY <2>2, <2>4, <2>5, <2>6, RecvReturnsTypes DEF TInv, SockTypes, CallTypes
<1>4. CASE RecvEof(t)
  BY <1>0, <1>4, RecvReturnsTypes DEF RecvEof, TInv, SockTypes, CallTypes
<1>5. CASE RecvFails(t)
  <2>. DEFINE m == IF n[t] > -MaxErrors THEN n[t] - 1 ELSE n[t]
  <2>1. m \in Int /\ -MaxErrors <= m /\ m <= want[t]
    BY <1>0, ClientBounds
  <2>2. RecvReturns(t, m, buffer[t]) /\ UNCHANGED <<proc, rbuf>> /\ rpc[t] # "idle"
    BY <1>5 DEF RecvFails
  <2>3. sstate' = sstate \/ sstate' = Update(sstate, rs[t], "dead")
    BY <1>5 DEF RecvFails
  <2>. HIDE DEF m
  <2>. QED  BY <1>0, <2>1, <2>2, <2>3, RecvReturnsTypes DEF Update, TInv, SockTypes, CallTypes
<1>. QED  BY <1>1, <1>2, <1>3, <1>4, <1>5 DEF Reader, Recv

LEMMA WriterTypes ==
  ASSUME TInv, NEW t \in Writers, Writer(t)
  PROVE  TInv'
<1>1. CASE WriteS(t)
  <2>1. m_fd \in Socks
    BY <1>1 DEF WriteS, TInv, OpenTypes
  <2>2. SockTypes' /\ OpenTypes' /\ ReadTypes'
    BY <1>1 DEF WriteS, writeFrame, readVars, TInv, SockTypes, OpenTypes, ReadTypes
  <2>3. CallTypes'
    BY <1>1, <2>1, SocksAssumption, ThreadsAssumption
       DEF WriteS, writeFrame, readVars, Update, TInv, CallTypes, Threads
  <2>. QED  BY <2>2, <2>3 DEF TInv
<1>2. CASE SendStep(t)
  <2>1. /\ UNCHANGED <<closed, blocking, rbuf, sent, m_fd, m_is_connected, opc, readVars>>
        /\ wpc' = Update(wpc, t, "idle") /\ m_mutex' = "free" /\ rs' = Update(rs, t, "none")
    BY <1>2 DEF SendStep, Send, SendToFin, SendFails, SendReturns, writeFrame
  <2>2. /\ proc' \in {proc, "sigpipe"}
        /\ sstate' = sstate \/ \E s \in {"error", "dead"} : sstate' = Update(sstate, rs[t], s)
    BY <1>2 DEF SendStep, Send, SendToFin, SendFails
  <2>3. SockTypes' /\ OpenTypes' /\ ReadTypes'
    BY <2>1, <2>2, ZenonT(30) DEF readVars, Update, TInv, SockTypes, OpenTypes, ReadTypes
  <2>4. CallTypes'
    BY <2>1, <2>2, ThreadsAssumption DEF readVars, Update, TInv, CallTypes, Threads
  <2>. QED  BY <2>3, <2>4 DEF TInv
<1>. QED  BY <1>1, <1>2 DEF Writer

LEMMA StepTypes == TInv /\ [Next]_vars => TInv'
<1>. SUFFICES ASSUME TInv, [Next]_vars PROVE TInv'
  OBVIOUS
<1>1. CASE UNCHANGED vars
  BY <1>1 DEF vars, sockVars, readVars, TInv, SockTypes, OpenTypes, ReadTypes, CallTypes
<1>2. CASE Next
  BY <1>2, PeerTypes, OpenTypesStep, ReaderTypes, WriterTypes DEF Next
<1>. QED  BY <1>1, <1>2

(* Every variable keeps its type; in particular readS never counts more     *)
(* than its size (tcp_client.cpp:116-124).                                  *)
THEOREM TypeCorrect == Spec => []TypeOK
<1>1. TInv => TypeOK
  BY DEF TInv, SockTypes, OpenTypes, ReadTypes, CallTypes, TypeOK, Threads
<1>. QED  BY <1>1, InitTypes, StepTypes, PTL DEF Spec

-----------------------------------------------------------------------------
(* The bytes.  What the finished calls returned, what the one that holds    *)
(* the mutex has in hand and what the kernel holds make up each stream.     *)

Pieces == \A k \in Socks : returned[k] \o From(k, InHand) \o rbuf[k] = Stream(k)

PInv ==
  /\ returned \in [Socks -> Seq(Byte)]
  /\ \A t \in Readers : rpc[t] = "idle" => buffer[t] = <<>>
  /\ Pieces

LEMMA NoBytes == <<>> \in Seq(Byte) /\ <<>> \o <<>> = <<>>
BY ConcatEmptySeq

LEMMA Regroup ==
  \A s, t, u \in Seq(Byte) : (s \o t) \o u = s \o (t \o u)
BY ConcatAssociative

LEMMA InitPieces == Init => PInv
<1>. SUFFICES ASSUME Init PROVE PInv
  OBVIOUS
<1>1. /\ returned \in [Socks -> Seq(Byte)]
      /\ \A t \in Readers : rpc[t] = "idle" => buffer[t] = <<>>
  BY NoBytes DEF Init
<1>2. ASSUME NEW k \in Socks
      PROVE  returned[k] \o From(k, InHand) \o rbuf[k] = Stream(k)
  <2>1. InHand = <<>> /\ returned[k] = <<>> /\ rbuf[k] = <<>> /\ sent[k] = 0
    BY ThreadsAssumption DEF Init, InHand
  <2>2. From(k, InHand) = <<>>
    BY <2>1, FromEmpty
  <2>3. Stream(k) = <<>>
    BY <2>1 DEF Stream
  <2>. QED  BY <2>1, <2>2, <2>3, NoBytes
<1>. QED  BY <1>1, <1>2 DEF PInv, Pieces

LEMMA PieceTypes ==
  ASSUME TInv, PInv, NEW k \in Socks
  PROVE  /\ returned[k] \in Seq(Byte) /\ InHand \in Seq(Byte) /\ From(k, InHand) \in Seq(Byte)
         /\ rbuf[k] \in Seq(Byte) /\ returned[k] \o From(k, InHand) \in Seq(Byte)
<1>1. InHand \in Seq(Byte)
  BY NoBytes DEF InHand, TInv, ReadTypes
<1>2. From(k, InHand) \in Seq(Byte)
  BY <1>1, FromType
<1>3. returned[k] \in Seq(Byte) /\ rbuf[k] \in Seq(Byte)
  BY DEF PInv, TInv, SockTypes
<1>. QED  BY <1>1, <1>2, <1>3, ConcatProperties

(* The steps that move no byte.                                             *)
LEMMA StillPieces ==
  ASSUME PInv, UNCHANGED <<rbuf, sent, buffer, returned>>, InHand' = InHand,
         \A t \in Readers : rpc'[t] = "idle" => rpc[t] = "idle"
  PROVE  PInv'
<1>1. \A k \in Socks : Stream(k)' = Stream(k) /\ From(k, InHand)' = From(k, InHand)
  BY DEF Stream
<1>. QED  BY <1>1 DEF PInv, Pieces

LEMMA OthersStillPieces ==
  ASSUME TInv, MInv, PInv,
         \/ \E k \in Socks : Open(k) \/ Handshake(k) \/ PeerLeaves(k)
         \/ OpenStep \/ Close
         \/ \E t \in Writers : Writer(t)
         \/ UNCHANGED vars
  PROVE  PInv'
<1>. USE DEF readVars, InHand
<1>1. ASSUME UNCHANGED <<rbuf, sent, m_mutex, readVars>> PROVE PInv'
  BY <1>1, StillPieces
<1>2. CASE \E k \in Socks : Open(k) \/ Handshake(k) \/ PeerLeaves(k)
  BY <1>1, <1>2 DEF Open, openFrame, Handshake, PeerLeaves, peerFrame
<1>3. CASE OpenStep \/ Close
  BY <1>1, <1>3 DEF OpenStep, SetNonBlocking, Connect, SetBlocking, Select, OpenResult, Closed,
                    Close, openFrame, closeFrame
<1>4. ASSUME NEW t \in Writers, Writer(t) PROVE PInv'
  <2>1. UNCHANGED <<rbuf, sent, readVars>> /\ m_mutex \notin Readers /\ m_mutex' \notin Readers
    BY <1>4, ThreadsAssumption
       DEF Writer, WriteS, SendStep, Send, SendToFin, SendFails, SendReturns, writeFrame,
           MInv, Control, Holding
  <2>. QED  BY <2>1, StillPieces
<1>5. CASE UNCHANGED vars
  BY <1>1, <1>5 DEF vars, sockVars
<1>. QED  BY <1>2, <1>3, <1>4, <1>5

LEMMA StreamGrows ==
  ASSUME TInv, NEW k \in Socks, PeerSends(k)
  PROVE  Stream(k)' = Append(Stream(k), <<k, sent[k] + 1>>) /\ <<k, sent[k] + 1>> \in Byte
<1>. DEFINE b == <<k, sent[k] + 1>>
<1>1. /\ sent[k] \in Nat /\ MaxBytes[k] \in Nat /\ sent[k] < MaxBytes[k]
      /\ sent'[k] = sent[k] + 1
  BY ClientBounds DEF PeerSends, TInv, SockTypes
<1>2. \A i \in 1 .. sent[k] + 1 : <<k, i>> \in Byte
  <2>. SUFFICES ASSUME NEW i \in 1 .. sent[k] + 1 PROVE <<k, i>> \in Byte
    OBVIOUS
  <2>1. i \in 1 .. MaxBytes[k]
    BY <1>1
  <2>2. <<k, i>> \in {k} \X (1 .. MaxBytes[k])
    BY <2>1
  <2>. QED  BY <2>2 DEF Byte
<1>3. /\ Stream(k) \in Seq(Byte) /\ Len(Stream(k)) = sent[k]
      /\ \A i \in 1 .. sent[k] : Stream(k)[i] = <<k, i>>
  BY <1>1, <1>2, IsASeq DEF Stream
<1>4. /\ Stream(k)' \in Seq(Byte) /\ Len(Stream(k)') = sent[k] + 1
      /\ \A i \in 1 .. sent[k] + 1 : Stream(k)'[i] = <<k, i>>
  BY <1>1, <1>2, IsASeq DEF Stream
<1>5. b \in Byte
  BY <1>1, <1>2
<1>6. Stream(k)' = Append(Stream(k), b)
  <2>. DEFINE s == Stream(k)
              t == Stream(k)'
              a == Append(s, b)
  <2>1. s \in Seq(Byte) /\ Len(s) = sent[k] /\ \A i \in 1 .. sent[k] : s[i] = <<k, i>>
    BY <1>3
  <2>2. t \in Seq(Byte) /\ Len(t) = sent[k] + 1 /\ \A i \in 1 .. sent[k] + 1 : t[i] = <<k, i>>
    BY <1>4
  <2>. HIDE DEF s, t
  <2>3. a \in Seq(Byte) /\ Len(a) = sent[k] + 1
    BY <1>5, <2>1, AppendProperties
  <2>4. \A i \in 1 .. sent[k] + 1 : a[i] = <<k, i>>
    BY <1>1, <1>5, <2>1, AppendProperties
  <2>. HIDE DEF a
  <2>5. t = a
    BY <2>2, <2>3, <2>4, SeqEqual
  <2>. QED  BY <2>5 DEF s, t, a
<1>. QED  BY <1>5, <1>6

LEMMA PeerSendsPieces ==
  ASSUME TInv, PInv, NEW k \in Socks, PeerSends(k)
  PROVE  PInv'
<1>. DEFINE b == <<k, sent[k] + 1>>
<1>1. /\ UNCHANGED <<rpc, buffer, returned, m_mutex>>
      /\ rbuf'[k] = Append(rbuf[k], b)
      /\ \A x \in Socks : x # k => rbuf'[x] = rbuf[x] /\ sent'[x] = sent[x]
  BY DEF PeerSends, peerFrame, readVars, TInv, SockTypes
<1>2. Stream(k)' = Append(Stream(k), b) /\ b \in Byte
  BY StreamGrows
<1>. HIDE DEF b
<1>3. \A x \in Socks : From(x, InHand)' = From(x, InHand)
  BY <1>1 DEF InHand
<1>4. \A x \in Socks : x # k => Stream(x)' = Stream(x)
  BY <1>1 DEF Stream
<1>5. returned[k] \o From(k, InHand) \o Append(rbuf[k], b) = Append(Stream(k), b)
  <2>. DEFINE p == returned[k] \o From(k, InHand)
  <2>1. p \in Seq(Byte) /\ rbuf[k] \in Seq(Byte) /\ p \o rbuf[k] = Stream(k)
    BY PieceTypes DEF PInv, Pieces
  <2>2. \A s, t \in Seq(Byte) : s \o Append(t, b) = Append(s \o t, b)
    BY <1>2, AppendToConcat
  <2>. HIDE DEF p
  <2>3. p \o Append(rbuf[k], b) = Append(p \o rbuf[k], b)
    BY <2>1, <2>2
  <2>. QED  BY <2>1, <2>3 DEF p
<1>. QED  BY <1>1, <1>2, <1>3, <1>4, <1>5 DEF PInv, Pieces

(* recv() has returned: what the call has in hand grows to bytes, or is     *)
(* returned.                                                                *)
LEMMA RecvReturnsPieces ==
  ASSUME TInv, MInv, PInv, NEW t \in Readers, NEW m, NEW bytes \in Seq(Byte),
         RecvReturns(t, m, bytes), rpc[t] # "idle",
         \A k \in Socks :
           returned[k] \o From(k, bytes) \o rbuf'[k] = Stream(k)
  PROVE  PInv'
<1>1. m_mutex = t /\ UNCHANGED sent
  BY DEF MInv, Holding, RecvReturns, readFrame
<1>2. \A k \in Socks : Stream(k)' = Stream(k)
  BY <1>1 DEF Stream
<1>3. \A k \in Socks : From(k, bytes) \in Seq(Byte) /\ returned[k] \o From(k, bytes) \in Seq(Byte)
  <2>1. \A k \in Socks : From(k, bytes) \in Seq(Byte)
    BY FromType
  <2>. QED  BY <2>1, ConcatProperties DEF PInv
<1>4. CASE Done(t, m)
  <2>1. /\ rpc' = [rpc EXCEPT ![t] = "idle"] /\ m_mutex' = "free"
        /\ returned' = [k \in Socks |-> returned[k] \o From(k, bytes)]
        /\ buffer' = [buffer EXCEPT ![t] = <<>>]
    BY <1>4 DEF RecvReturns, Update
  <2>2. \A k \in Socks : From(k, InHand)' = <<>>
    BY <2>1, ThreadsAssumption, FromEmpty DEF InHand
  <2>3. ASSUME NEW k \in Socks
        PROVE  returned'[k] \o From(k, InHand)' \o rbuf'[k] = Stream(k)
    BY <1>3, <2>1, <2>2, ConcatEmptySeq
  <2>4. returned' \in [Socks -> Seq(Byte)] /\ \A u \in Readers : rpc'[u] = "idle" => buffer'[u] = <<>>
    BY <1>3, <2>1 DEF PInv, TInv, ReadTypes
  <2>. QED  BY <1>2, <2>3, <2>4 DEF PInv, Pieces
<1>5. CASE ~Done(t, m)
  <2>1. /\ rpc' = [rpc EXCEPT ![t] = "enter"] /\ buffer' = [buffer EXCEPT ![t] = bytes]
        /\ UNCHANGED <<m_mutex, returned>>
    BY <1>5 DEF RecvReturns, Update
  <2>2. InHand' = bytes
    BY <1>1, <2>1 DEF InHand, TInv, ReadTypes
  <2>3. \A k \in Socks : From(k, InHand)' = From(k, bytes)
    BY <2>2
  <2>4. \A u \in Readers : rpc'[u] = "idle" => buffer'[u] = <<>>
    BY <2>1 DEF PInv, TInv, ReadTypes
  <2>. QED  BY <1>2, <2>1, <2>3, <2>4 DEF PInv, Pieces
<1>. QED  BY <1>4, <1>5

LEMMA RecvDataPieces ==
  ASSUME TInv, MInv, PInv, NEW t \in Readers, RecvData(t)
  PROVE  PInv'
<1>. DEFINE k == rs[t]
            r == IF Len(rbuf[k]) < Room(t) THEN Len(rbuf[k]) ELSE Room(t)
            a == SubSeq(rbuf[k], 1, r)
            rest == SubSeq(rbuf[k], r + 1, Len(rbuf[k]))
<1>1. k \in Socks /\ rbuf[k] \in Seq(Byte) /\ buffer[t] \in Seq(Byte)
  BY DEF RecvData, TInv, CallTypes, SockTypes, ReadTypes, Threads
<1>2. InHand = buffer[t]
  BY DEF RecvData, MInv, Holding, InHand
<1>3. r \in 0 .. Len(rbuf[k])
  <2>1. want[t] \in Int /\ n[t] \in Int /\ n[t] <= want[t]
    BY ClientBounds DEF TInv, ReadTypes
  <2>2. Len(rbuf[k]) \in Nat
    BY <1>1
  <2>. QED  BY <2>1, <2>2 DEF Room
<1>4. /\ RecvReturns(t, n[t] + r, buffer[t] \o a) /\ rpc[t] = "recv"
      /\ rbuf' = [rbuf EXCEPT ![k] = rest]
  BY DEF RecvData, Update
<1>. HIDE DEF r
<1>5. a \in Seq(Byte) /\ rest \in Seq(Byte) /\ a \o rest = rbuf[k]
  <2>1. 1 \in 1 .. Len(rbuf[k]) + 1 /\ r \in 1 - 1 .. Len(rbuf[k]) /\ Len(rbuf[k]) \in r .. Len(rbuf[k])
    BY <1>1, <1>3
  <2>2. a \o rest = SubSeq(rbuf[k], 1, Len(rbuf[k]))
    BY <1>1, <2>1, ConcatAdjacentSubSeq
  <2>3. a \o rest = rbuf[k]
    BY <1>1, <2>2, SubSeqFull
  <2>4. a \in Seq(Byte) /\ rest \in Seq(Byte)
    <3>. DEFINE q == rbuf[k]
    <3>1. q \in Seq(Byte)
      BY <1>1
    <3>. HIDE DEF q
    <3>2. SubSeq(q, 1, r) \in Seq(Byte) /\ SubSeq(q, r + 1, Len(q)) \in Seq(Byte)
      BY <1>3, <3>1, SubSeqProperties DEF q
    <3>. QED  BY <3>2 DEF q
  <2>. QED  BY <2>3, <2>4
<1>. HIDE DEF a, rest
<1>6. rbuf'[k] = rest /\ \A x \in Socks : x # k => rbuf'[x] = rbuf[x]
  BY <1>1, <1>4 DEF TInv, SockTypes
<1>7. \A i \in 1 .. Len(a) : a[i][1] = k
  <2>. SUFFICES ASSUME NEW i \in 1 .. Len(a) PROVE a[i][1] = k
    OBVIOUS
  <2>. DEFINE p == returned[k] \o From(k, InHand)
              j == Len(p) + i
  <2>1. p \in Seq(Byte) /\ p \o (a \o rest) = Stream(k)
    BY <1>1, <1>5, PieceTypes DEF PInv, Pieces
  <2>. HIDE DEF p
  <2>2. j \in 1 .. Len(p \o (a \o rest)) /\ (p \o (a \o rest))[j] = a[i]
    BY <1>5, <2>1, SMTT(30)
  <2>3. j \in 1 .. sent[k] /\ Stream(k)[j] = a[i]
    <3>1. sent[k] \in Nat /\ Len(Stream(k)) = sent[k]
      BY <1>1 DEF TInv, SockTypes, Stream
    <3>. HIDE DEF j
    <3>. QED  BY <2>1, <2>2, <3>1
  <2>4. a[i] = <<k, j>>
    BY <2>3 DEF Stream
  <2>. HIDE DEF j
  <2>. QED  BY <2>4
<1>8. ASSUME NEW x \in Socks
      PROVE  returned[x] \o From(x, buffer[t] \o a) \o rbuf'[x] = Stream(x)
  <2>1. From(x, buffer[t] \o a) = From(x, buffer[t]) \o From(x, a)
    BY <1>1, <1>5, FromConcat
  <2>2. /\ returned[x] \in Seq(Byte) /\ From(x, buffer[t]) \in Seq(Byte) /\ rbuf[x] \in Seq(Byte)
        /\ returned[x] \o From(x, buffer[t]) \in Seq(Byte)
        /\ (returned[x] \o From(x, buffer[t])) \o rbuf[x] = Stream(x)
    BY <1>2, PieceTypes DEF PInv, Pieces
  <2>3. CASE x # k
    <3>1. From(x, a) = <<>>
      BY <1>5, <1>7, <2>3, FromOthers
    <3>. QED  BY <1>6, <2>1, <2>2, <2>3, <3>1, ConcatEmptySeq
  <2>4. CASE x = k
    <3>1. From(x, a) = a
      BY <1>5, <1>7, <2>4, FromOwn
    <3>. DEFINE s == returned[x]
                f == From(x, buffer[t])
    <3>2. s \in Seq(Byte) /\ f \in Seq(Byte) /\ s \o f \in Seq(Byte)
          /\ (s \o f) \o (a \o rest) = Stream(x)
      BY <1>5, <2>2, <2>4
    <3>. HIDE DEF s, f
    <3>3. s \o (f \o a) = (s \o f) \o a
      BY <1>5, <3>2, Regroup, ZenonT(30)
    <3>4. ((s \o f) \o a) \o rest = (s \o f) \o (a \o rest)
      BY <1>5, <3>2, Regroup, ZenonT(30)
    <3>5. s \o (f \o a) \o rest = Stream(x)
      BY <3>2, <3>3, <3>4
    <3>. QED  BY <1>6, <2>1, <2>4, <3>1, <3>5 DEF s, f
  <2>. QED  BY <2>3, <2>4
<1>9. buffer[t] \o a \in Seq(Byte)
  BY <1>1, <1>5, ConcatProperties
<1>. QED  BY <1>4, <1>8, <1>9, RecvReturnsPieces

LEMMA ReaderPieces ==
  ASSUME TInv, MInv, PInv, NEW t \in Readers, Reader(t)
  PROVE  PInv'
<1>1. CASE ReadS(t)
  <2>1. /\ UNCHANGED <<rbuf, sent, buffer, returned>> /\ m_mutex = "free" /\ m_mutex' = t
        /\ rpc' = [rpc EXCEPT ![t] = "enter"] /\ rpc[t] = "idle"
    BY <1>1 DEF ReadS, readFrame, Update
  <2>2. InHand' = InHand
    BY <2>1, ThreadsAssumption DEF InHand, PInv
  <2>. QED  BY <2>1, <2>2, StillPieces DEF TInv, ReadTypes
<1>2. CASE RecvEnter(t)
  <2>1. /\ UNCHANGED <<rbuf, sent, buffer, returned, m_mutex>>
        /\ \E pc \in {"failed", "recv"} : rpc' = [rpc EXCEPT ![t] = pc]
    BY <1>2 DEF RecvEnter, readFrame, Update
  <2>. QED  BY <2>1, StillPieces DEF TInv, ReadTypes, InHand
<1>3. CASE RecvEof(t) \/ RecvFails(t)
  <2>1. /\ rpc[t] # "idle" /\ UNCHANGED rbuf
        /\ \E m : RecvReturns(t, m, buffer[t])
    BY <1>3 DEF RecvEof, RecvFails
  <2>2. InHand = buffer[t] /\ buffer[t] \in Seq(Byte)
    BY <2>1 DEF MInv, Holding, InHand, TInv, ReadTypes
  <2>3. \A k \in Socks : returned[k] \o From(k, buffer[t]) \o rbuf'[k] = Stream(k)
    BY <2>1, <2>2 DEF PInv, Pieces
  <2>. QED  BY <2>1, <2>2, <2>3, RecvReturnsPieces
<1>. QED  BY <1>1, <1>2, <1>3, RecvDataPieces DEF Reader, Recv

LEMMA StepPieces == TInv /\ MInv /\ PInv /\ [Next]_vars => PInv'
<1>. SUFFICES ASSUME TInv, MInv, PInv, [Next]_vars PROVE PInv'
  OBVIOUS
<1>1. CASE UNCHANGED vars
  BY <1>1, OthersStillPieces
<1>2. CASE Next
  BY <1>2, OthersStillPieces, PeerSendsPieces, ReaderPieces DEF Next, Peer
<1>. QED  BY <1>1, <1>2

(* The readS calls of all threads cut the stream of each connection into    *)
(* consecutive pieces, whatever is opened, closed and replaced meanwhile    *)
(* (tcp_client.cpp:112-134).                                                *)
THEOREM ConsecutivePieces == Spec => []PiecesOfStream
<1>1. PInv => PiecesOfStream
  BY DEF PInv, Pieces, PiecesOfStream
<1>. QED
  BY <1>1, InitTypes, StepTypes, InitMInv, StepMInv, InitPieces, StepPieces, PTL DEF Spec
=============================================================================
