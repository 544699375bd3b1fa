-------------------------- MODULE TCPServerStreams --------------------------
(***************************************************************************)
(* Proofs that no byte is lost, doubled or moved between a client and what *)
(* the data callback and the callers of read_byte get, for any number of   *)
(* connections, descriptors and application threads, any size of the       *)
(* buffer and any number of bytes.                                         *)
(*                                                                         *)
(* The kernel's buffer, the handler's and what the callback was given make *)
(* up the stream, and so do the kernel's buffer, the handler's, the FIFO   *)
(* and what was taken out of it.  That the handler empties the buffer of   *)
(* its own client and of no other, and that a FIFO is one handler's, is    *)
(* what TCPServerProofs shows.  From that each client's stream is one of   *)
(* ByteStreams, which the readers get in order.                            *)
(***************************************************************************)
EXTENDS TCPServerProofs, DataLemmas

InHand == {"insert", "callback"}

Passed(c) == called[c] \o Pending(c, InHand) \o kbuf[c]

ServedStreams == \A c \in Conns : hpc[c] \in Serving => Passed(c) = Stream(c)

(* Nobody reads from a connection that has no handler yet.                  *)
UnservedStreams ==
  \A c \in Conns : hpc[c] = "none" => called[c] = <<>> /\ kbuf[c] = Stream(c)

StreamInv == ServedStreams /\ UnservedStreams

LEMMA InitStream == Init => StreamInv
<1>1. \A c \in Conns : Init => Stream(c) = <<>>
  BY DEF Init, SockInit, Stream
<1>. QED
  BY <1>1 DEF Init, SockInit, StreamInv, ServedStreams, UnservedStreams, Serving

-----------------------------------------------------------------------------
(* Sequences.                                                               *)

LEMMA SplitSeq ==
  ASSUME NEW s \in Seq(Byte), NEW n \in 0 .. Len(s)
  PROVE  SubSeq(s, 1, n) \o SubSeq(s, n + 1, Len(s)) = s
<1>1. 1 \in 1 .. Len(s) + 1 /\ n \in 1 - 1 .. Len(s) /\ Len(s) \in n .. Len(s)
  OBVIOUS
<1>2. SubSeq(s, 1, n) \o SubSeq(s, n + 1, Len(s)) = SubSeq(s, 1, Len(s))
  BY <1>1, ConcatAdjacentSubSeq
<1>. QED  BY <1>2, SubSeqFull

LEMMA Regroup ==
  \A s, t, u \in Seq(Byte) : (s \o t) \o u = s \o (t \o u)
BY ConcatAssociative

LEMMA Types ==
  ASSUME TypeOK, NEW c \in Conns
  PROVE  /\ called[c] \in Seq(Byte) /\ chunk[c] \in Seq(Byte) /\ kbuf[c] \in Seq(Byte)
         /\ <<>> \in Seq(Byte)
         /\ Pending(c, InHand) \in Seq(Byte)
         /\ called[c] \o <<>> = called[c]
BY NoBytes, ConcatEmptySeq DEF TypeOK, SockTypeOK, HandlerTypeOK, Pending

-----------------------------------------------------------------------------
(* The steps that pass no byte on.                                          *)

StillStep ==
  /\ UNCHANGED <<sent, called, chunk>>
  /\ \A c \in Conns : hpc'[c] \in Serving \cup {"none"} => kbuf'[c] = kbuf[c]
  /\ \A c \in Conns :
       /\ hpc'[c] \in Serving => hpc[c] \in Serving
       /\ hpc'[c] \in Serving => (hpc'[c] \in InHand <=> hpc[c] \in InHand)
       /\ hpc'[c] = "none" => hpc[c] = "none"

LEMMA StillStream ==
  ASSUME StreamInv, StillStep
  PROVE  StreamInv'
<1>. USE DEF StreamInv, StillStep, Stream
<1>1. ServedStreams'
  BY DEF ServedStreams, Passed, Pending
<1>2. UnservedStreams'
  BY DEF UnservedStreams
<1>. QED  BY <1>1, <1>2

LEMMA OthersStill ==
  ASSUME IInv,
         \/ User \/ Joins
         \/ Accept /\ ~Spawn
         \/ Spawn /\ Joinable(acc)
         \/ \E r \in Readers : Reader(r)
         \/ \E s \in Senders : Sender(s)
         \/ \E c \in Conns : Peer(c) /\ ~PeerSend(c) /\ UNCHANGED serverVars
         \/ UNCHANGED vars
  PROVE  StillStep
<1>. USE DEF StillStep, handlerVars, sockVars
<1>1. CASE User
  BY <1>1 DEF User, StartListening, StartThrows, Stop, Destroy, userFrame
<1>2. CASE Joins
  BY <1>2 DEF Joins, JoinHandler, JoinedHandlers, JoinAccept, ServerStop, userFrame,
              IInv, Registration, StoppingNotRunning
<1>3. CASE Accept /\ ~Spawn
  BY <1>3 DEF Accept, AcceptLoop, AcceptConn, AcceptAgain, AcceptFails, Register,
              NewClientCallback, acceptFrame
<1>4. CASE Spawn /\ Joinable(acc)
  BY <1>4 DEF Spawn, NewClient, acceptFrame
<1>5. ASSUME NEW r \in Readers, Reader(r) PROVE StillStep
  BY <1>5 DEF Reader, ReadStep, ReadCall, ReadAvail, ReadPoll, ReadMin, ReadCopy,
              ClearFifo, readFrame
<1>6. ASSUME NEW s \in Senders, Sender(s) PROVE StillStep
  BY <1>6 DEF Sender, SendStep, SendCall, SendLock, SendData, SendToClosed,
              SendToReset, SendToNone, SendReturns, sendFrame
<1>7. ASSUME NEW c \in Conns, Peer(c), ~PeerSend(c), UNCHANGED serverVars PROVE StillStep
  BY <1>7 DEF Peer, Connect, PeerRead, PeerClose, PeerReset, serverVars
<1>8. CASE UNCHANGED vars
  BY <1>8 DEF vars
<1>. QED  BY <1>1, <1>2, <1>3, <1>4, <1>5, <1>6, <1>7, <1>8

LEMMA HandlerStill ==
  ASSUME IInv, NEW c \in Conns, Handler(c), ~RecvData(c), ~Callback(c)
  PROVE  StillStep
<1>. USE DEF StillStep, handlerFrame
<1>0. \A d \in Conns : d \notin NotConns
  BY ConnsAssumption
<1>1. CASE Close(c)
  <2>1. /\ hpc[c] = "close" /\ desc[cfd[c]] = c
        /\ hpc' = [hpc EXCEPT ![c] = "erase"]
    BY <1>1 DEF Close, IInv, Ownership, HandlerOwnsSocket, Live
  <2>2. \A d \in Conns : d # c => kbuf'[d] = kbuf[d]
    <3>1. Dropped(cfd[c]) = {c}
      BY <1>0, <2>1 DEF Dropped, NotConns
    <3>. QED  BY <1>1, <3>1 DEF Close, CloseDesc
  <2>3. \A d \in Conns : hpc'[d] = IF d = c THEN "erase" ELSE hpc[d]
    BY <2>1 DEF IInv, TypeOK, HandlerTypeOK
  <2>. QED  BY <1>1, <2>1, <2>2, <2>3 DEF Close, CloseDesc, Serving
<1>2. CASE ~Close(c)
  <2>1. /\ UNCHANGED <<sent, called, chunk, kbuf>>
        /\ \E pc \in Live \cup {"done"} :
             /\ hpc' = [hpc EXCEPT ![c] = pc]
             /\ pc \in Serving => hpc[c] \in Serving /\ (pc \in InHand <=> hpc[c] \in InHand)
    BY <1>2, ZenonT(30) DEF Handler, HandlerLoop, RecvEnd, Insert, Erase, Live, Serving, InHand
  <2>. QED  BY <2>1 DEF IInv, TypeOK, HandlerTypeOK, Live, Serving
<1>. QED  BY <1>1, <1>2

-----------------------------------------------------------------------------
(* The steps that do.                                                       *)

LEMMA StreamGrows ==
  ASSUME TypeOK, NEW c \in Conns, PeerSend(c)
  PROVE  /\ Stream(c)' = Append(Stream(c), <<c, sent[c] + 1>>)
         /\ Stream(c) \in Seq(Byte)
<1>. DEFINE b == <<c, sent[c] + 1>>
<1>1. /\ sent'[c] = sent[c] + 1 /\ sent[c] \in 0 .. MaxBytes /\ sent[c] < MaxBytes
  BY DEF PeerSend, TypeOK, SockTypeOK
<1>2. b \in Byte
  BY <1>1, SocketBounds DEF Byte
<1>3. Stream(c) \in Seq(Byte) /\ Len(Stream(c)) = sent[c]
  BY <1>1, SocketBounds, IsASeq DEF Stream, Byte
<1>4. Stream(c)' \in Seq(Byte) /\ Len(Stream(c)') = sent[c] + 1
  BY <1>1, SocketBounds, IsASeq DEF Stream, Byte
<1>5. \A i \in 1 .. sent[c] + 1 :
        Stream(c)'[i] = IF i = sent[c] + 1 THEN b ELSE Stream(c)[i]
  <2>1. Stream(c)' = [k \in 1 .. sent[c] + 1 |-> <<c, k>>]
    BY <1>1 DEF Stream
  <2>2. Stream(c) = [k \in 1 .. sent[c] |-> <<c, k>>]
    BY DEF Stream
  <2>. SUFFICES ASSUME NEW i \in 1 .. sent[c] + 1
                PROVE  Stream(c)'[i] = IF i = sent[c] + 1 THEN b ELSE Stream(c)[i]
    OBVIOUS
  <2>3. Stream(c)'[i] = <<c, i>>
    BY <2>1
  <2>4. i # sent[c] + 1 => Stream(c)[i] = <<c, i>>
    BY <1>1, <2>2
  <2>. QED  BY <2>3, <2>4
<1>6. /\ Append(Stream(c), b) \in Seq(Byte) /\ Len(Append(Stream(c), b)) = sent[c] + 1
      /\ \A i \in 1 .. sent[c] + 1 :
           Append(Stream(c), b)[i] = IF i = sent[c] + 1 THEN b ELSE Stream(c)[i]
  <2>. HIDE DEF b
  <2>. DEFINE s == Stream(c)
  <2>1. s \in Seq(Byte) /\ Len(s) = sent[c]
    BY <1>3
  <2>. HIDE DEF s
  <2>2. /\ Append(s, b) \in Seq(Byte) /\ Len(Append(s, b)) = Len(s) + 1
        /\ \A i \in 1 .. Len(s) : Append(s, b)[i] = s[i]
        /\ Append(s, b)[Len(s) + 1] = b
    BY <1>2, <2>1, AppendProperties
  <2>. QED  BY <1>1, <2>1, <2>2 DEF s
<1>7. Stream(c)' = Append(Stream(c), b)
  <2>. HIDE DEF b
  <2>. QED  BY <1>4, <1>5, <1>6, SeqEqual
<1>. QED  BY <1>3, <1>7

LEMMA PeerSendStream ==
  ASSUME TypeOK, StreamInv, NEW c \in Conns, PeerSend(c), UNCHANGED serverVars
  PROVE  StreamInv'
<1>. DEFINE b == <<c, sent[c] + 1>>
<1>1. /\ UNCHANGED <<hpc, called, chunk>>
      /\ kbuf'[c] = Append(kbuf[c], b)
      /\ \A d \in Conns : d # c => kbuf'[d] = kbuf[d] /\ sent'[d] = sent[d]
      /\ sent'[c] = sent[c] + 1 /\ sent[c] \in 0 .. MaxBytes /\ sent[c] < MaxBytes
  BY DEF PeerSend, serverVars, handlerVars, TypeOK, SockTypeOK
<1>2. b \in Byte
  BY <1>1, SocketBounds DEF Byte
<1>3. Stream(c)' = Append(Stream(c), b)
  BY StreamGrows
<1>4. \A d \in Conns : d # c => Stream(d)' = Stream(d)
  BY <1>1 DEF Stream
<1>5. \A d \in Conns : Pending(d, InHand)' = Pending(d, InHand)
  BY <1>1 DEF Pending
<1>6. ServedStreams'
  <2>1. Passed(c)' = Append(Passed(c), b)
    <3>. DEFINE p == called[c] \o Pending(c, InHand)
    <3>1. p \in Seq(Byte) /\ kbuf[c] \in Seq(Byte)
      BY Types, ConcatProperties
    <3>2. Passed(c) = p \o kbuf[c] /\ Passed(c)' = p \o Append(kbuf[c], b)
      BY <1>1, <1>5 DEF Passed
    <3>. HIDE DEF p, b
    <3>. QED  BY <1>2, <3>1, <3>2, AppendToConcat
  <2>2. \A d \in Conns : d # c => Passed(d)' = Passed(d)
    BY <1>1, <1>5 DEF Passed
  <2>. QED  BY <1>1, <1>3, <1>4, <2>1, <2>2 DEF StreamInv, ServedStreams
<1>7. UnservedStreams'
  BY <1>1, <1>3, <1>4 DEF StreamInv, UnservedStreams
<1>. QED  BY <1>6, <1>7 DEF StreamInv

LEMMA SpawnStream ==
  ASSUME TypeOK, Ownership, StreamInv, Spawn, ~Joinable(acc)
  PROVE  StreamInv'
<1>. PICK d \in Conns : d = desc[acc] /\ hpc[d] = "none"
  BY DEF Spawn, Ownership, AccOwned
<1>1. /\ hpc'[d] = "loop"
      /\ \A c \in Conns : c # d => hpc'[c] = hpc[c]
      /\ UNCHANGED <<kbuf, sent, called, chunk>>
  BY DEF Spawn, NewClient, TypeOK, HandlerTypeOK, acceptFrame
<1>2. \A c \in Conns : Stream(c)' = Stream(c)
  BY <1>1 DEF Stream
<1>3. Passed(d)' = Stream(d)
  <2>1. Passed(d)' = called[d] \o <<>> \o kbuf[d]
    BY <1>1 DEF Passed, Pending, InHand
  <2>2. called[d] \o <<>> = <<>> /\ kbuf[d] \in Seq(Byte)
    BY Types DEF StreamInv, UnservedStreams
  <2>3. <<>> \o kbuf[d] = kbuf[d]
    BY <2>2, ConcatEmptySeq
  <2>. QED  BY <2>1, <2>2, <2>3 DEF StreamInv, UnservedStreams
<1>4. \A c \in Conns : c # d => Passed(c)' = Passed(c)
  BY <1>1 DEF Passed, Pending
<1>5. ServedStreams'
  BY <1>1, <1>2, <1>3, <1>4 DEF StreamInv, ServedStreams
<1>6. UnservedStreams'
  BY <1>1, <1>2 DEF StreamInv, UnservedStreams
<1>. QED  BY <1>5, <1>6 DEF StreamInv

(* A step of the handler of c that passes bytes of c on.                    *)
LEMMA PassOn ==
  ASSUME TypeOK, StreamInv, NEW c \in Conns,
         hpc[c] \in Serving, Passed(c)' = Passed(c), UNCHANGED sent,
         hpc'[c] # "none",
         \A d \in Conns : d # c =>
           hpc'[d] = hpc[d] /\ called'[d] = called[d] /\ chunk'[d] = chunk[d] /\ kbuf'[d] = kbuf[d]
  PROVE  StreamInv'
<1>1. \A d \in Conns : d # c => Passed(d)' = Passed(d)
  BY DEF Passed, Pending
<1>2. \A d \in Conns : Stream(d)' = Stream(d)
  BY DEF Stream
<1>3. ServedStreams'
  BY <1>1, <1>2 DEF StreamInv, ServedStreams
<1>4. UnservedStreams'
  BY <1>2 DEF StreamInv, UnservedStreams
<1>. QED  BY <1>3, <1>4 DEF StreamInv

LEMMA RecvStream ==
  ASSUME IInv, StreamInv, NEW c \in Conns, RecvData(c)
  PROVE  StreamInv'
<1>. DEFINE n == IF Len(kbuf[c]) < RecvSize THEN Len(kbuf[c]) ELSE RecvSize
<1>1. hpc[c] = "recv" /\ desc[cfd[c]] = c
  BY DEF RecvData, IInv, Ownership, HandlerOwnsSocket, Live, Serving
<1>2. /\ chunk' = [chunk EXCEPT ![c] = SubSeq(kbuf[c], 1, n)]
      /\ kbuf' = [kbuf EXCEPT ![c] = SubSeq(@, n + 1, Len(@))]
      /\ hpc' = [hpc EXCEPT ![c] = "insert"]
      /\ UNCHANGED <<called, sent>>
  BY <1>1 DEF RecvData, handlerFrame
<1>3. n \in 0 .. Len(kbuf[c]) /\ kbuf[c] \in Seq(Byte)
  BY Types, ServerBounds DEF IInv
<1>. HIDE DEF n
<1>4. /\ chunk'[c] = SubSeq(kbuf[c], 1, n)
      /\ kbuf'[c] = SubSeq(kbuf[c], n + 1, Len(kbuf[c]))
      /\ hpc'[c] = "insert"
      /\ \A d \in Conns : d # c =>
           hpc'[d] = hpc[d] /\ chunk'[d] = chunk[d] /\ kbuf'[d] = kbuf[d]
  BY <1>2 DEF IInv, TypeOK, SockTypeOK, HandlerTypeOK
<1>5. Passed(c)' = Passed(c)
  <2>1. Passed(c)' = called[c] \o chunk'[c] \o kbuf'[c]
    BY <1>2, <1>4 DEF Passed, Pending, InHand
  <2>2. Passed(c) = called[c] \o kbuf[c]
    BY <1>1, Types DEF Passed, Pending, InHand, IInv
  <2>3. chunk'[c] \in Seq(Byte) /\ kbuf'[c] \in Seq(Byte) /\ chunk'[c] \o kbuf'[c] = kbuf[c]
    BY <1>3, <1>4, CutType, SplitSeq
  <2>4. (called[c] \o chunk'[c]) \o kbuf'[c] = called[c] \o (chunk'[c] \o kbuf'[c])
    <3>1. called[c] \in Seq(Byte)
      BY Types DEF IInv
    <3>2. \A s, t, u \in Seq(Byte) : (s \o t) \o u = s \o (t \o u)
      BY ConcatAssociative
    <3>. QED  BY <2>3, <3>1, <3>2
  <2>. QED  BY <2>1, <2>2, <2>3, <2>4
<1>. QED  BY <1>1, <1>2, <1>4, <1>5, PassOn DEF IInv, Serving

LEMMA CallbackStream ==
  ASSUME IInv, StreamInv, NEW c \in Conns, Callback(c)
  PROVE  StreamInv'
<1>1. /\ hpc[c] = "callback" /\ hpc'[c] = "loop"
      /\ called'[c] = called[c] \o chunk[c]
      /\ UNCHANGED <<kbuf, sent>>
      /\ \A d \in Conns : d # c =>
           hpc'[d] = hpc[d] /\ chunk'[d] = chunk[d] /\ called'[d] = called[d]
  BY DEF Callback, handlerFrame, IInv, TypeOK, HandlerTypeOK
<1>2. Passed(c)' = Passed(c)
  <2>1. Passed(c)' = called[c] \o chunk[c] \o <<>> \o kbuf[c]
    BY <1>1 DEF Passed, Pending, InHand
  <2>2. Passed(c) = called[c] \o chunk[c] \o kbuf[c]
    BY <1>1 DEF Passed, Pending, InHand
  <2>3. called[c] \o chunk[c] \in Seq(Byte)
    BY Types, ConcatProperties DEF IInv
  <2>. QED  BY <2>1, <2>2, <2>3, ConcatEmptySeq
<1>. QED  BY <1>1, <1>2, PassOn DEF IInv, Serving

-----------------------------------------------------------------------------
LEMMA StreamStep == IInv /\ StreamInv /\ [Next]_vars => StreamInv'
<1>. SUFFICES ASSUME IInv, StreamInv, [Next]_vars PROVE StreamInv'
  OBVIOUS
<1>1. CASE User \/ Joins \/ UNCHANGED vars
  BY <1>1, OthersStill, StillStream
<1>2. CASE Accept
  BY <1>2, OthersStill, StillStream, SpawnStream DEF IInv
<1>3. ASSUME NEW c \in Conns, Handler(c) PROVE StreamInv'
  BY <1>3, HandlerStill, StillStream, RecvStream, CallbackStream
<1>4. ASSUME NEW c \in Conns, Peer(c), UNCHANGED serverVars PROVE StreamInv'
  BY <1>4, OthersStill, StillStream, PeerSendStream DEF IInv
<1>5. CASE (\E r \in Readers : Reader(r)) \/ (\E s \in Senders : Sender(s))
  BY <1>5, OthersStill, StillStream
<1>. QED  BY <1>1, <1>2, <1>3, <1>4, <1>5 DEF Next

(* The data callback is given the bytes of a client once each and in order, *)
(* in whatever pieces they come, and whatever other threads do with its     *)
(* FIFO or with other clients (tcp_client.hpp:305-332).                     *)
THEOREM CallbackStreams == Spec => []CallbackSeesStream
<1>1. StreamInv => CallbackSeesStream
  BY DEF StreamInv, ServedStreams, Passed, InHand, CallbackSeesStream
<1>. QED  BY <1>1, InitStream, StreamStep, Invariance, PTL DEF Spec

-----------------------------------------------------------------------------
(* The FIFOs.  Each belongs to one handler that has not returned, or is     *)
(* empty; it holds what was received from the client of that handler and    *)
(* not taken out, also when the client has gone.                            *)

Begins(p, s) == Len(p) <= Len(s) /\ \A i \in 1 .. Len(p) : p[i] = s[i]

Held(c) == IF hpc[c] \in Live THEN m_fifos[cfd[c]] ELSE <<>>
Drawn(c) == From(c, taken) \o Held(c)
ToInsert(c) == Pending(c, {"insert"})

DrawnServed ==
  \A c \in Conns : hpc[c] \in Serving => Drawn(c) \o ToInsert(c) \o kbuf[c] = Stream(c)
DrawnInOrder == \A c \in Conns : Begins(Drawn(c), Stream(c))
NothingDrawnYet == \A c \in Conns : hpc[c] = "none" => From(c, taken) = <<>>
FifoOfHandler ==
  \A f \in Fds : (\A c \in Conns : hpc[c] \in Live => cfd[c] # f) => m_fifos[f] = <<>>

FifoInv == DrawnServed /\ DrawnInOrder /\ NothingDrawnYet /\ FifoOfHandler

LEMMA InitFifo == Init => FifoInv
<1>. SUFFICES ASSUME Init PROVE FifoInv
  OBVIOUS
<1>1. taken = <<>> /\ \A c \in Conns : hpc[c] = "none"
  BY DEF Init
<1>2. \A c \in Conns : From(c, taken) = <<>> /\ Drawn(c) = <<>>
  <2>1. \A c \in Conns : From(c, taken) = <<>>
    BY <1>1, FromEmpty
  <2>2. <<>> \o <<>> = <<>>
    BY ConcatEmptySeq
  <2>. QED  BY <1>1, <2>1, <2>2 DEF Drawn, Held, Live, Serving
<1>3. DrawnInOrder
  <2>. SUFFICES ASSUME NEW c \in Conns PROVE Begins(Drawn(c), Stream(c))
    BY DEF DrawnInOrder
  <2>1. sent[c] = 0
    BY DEF Init, SockInit
  <2>2. Stream(c) = <<>>
    BY <2>1 DEF Stream
  <2>3. Begins(<<>>, <<>>)
    BY DEF Begins
  <2>. QED  BY <1>2, <2>2, <2>3
<1>4. FifoOfHandler
  BY DEF Init, FifoOfHandler
<1>5. DrawnServed /\ NothingDrawnYet
  BY <1>1, <1>2 DEF DrawnServed, NothingDrawnYet, Serving
<1>. QED  BY <1>3, <1>4, <1>5 DEF FifoInv

-----------------------------------------------------------------------------
LEMMA FifoTypes ==
  ASSUME TypeOK, NEW c \in Conns, hpc[c] \in Live => cfd[c] \in Fds
  PROVE  /\ From(c, taken) \in Seq(Byte)
         /\ Held(c) \in Seq(Byte)
         /\ Drawn(c) \in Seq(Byte)
         /\ ToInsert(c) \in Seq(Byte)
         /\ Drawn(c) \o ToInsert(c) \in Seq(Byte)
         /\ Stream(c) \in Seq(Byte) /\ Len(Stream(c)) = sent[c]
         /\ \A i \in 1 .. Len(Stream(c)) : Stream(c)[i] = <<c, i>>
<1>1. From(c, taken) \in Seq(Byte)
  <2>1. taken \in Seq(Byte)
    BY DEF TypeOK, ReadTypeOK
  <2>. QED  BY <2>1, FromType
<1>2. Held(c) \in Seq(Byte)
  BY NoBytes DEF Held, TypeOK, ServerTypeOK
<1>3. ToInsert(c) \in Seq(Byte)
  BY NoBytes DEF ToInsert, Pending, TypeOK, HandlerTypeOK
<1>4. Drawn(c) \in Seq(Byte)
  BY <1>1, <1>2, ConcatProperties DEF Drawn
<1>5. Drawn(c) \o ToInsert(c) \in Seq(Byte)
  BY <1>3, <1>4, ConcatProperties
<1>6. sent[c] \in Nat /\ sent[c] <= MaxBytes
  BY SocketBounds DEF TypeOK, SockTypeOK
<1>7. Stream(c) \in Seq(Byte) /\ Len(Stream(c)) = sent[c]
  BY <1>6, SocketBounds, IsASeq DEF Stream, Byte
<1>8. \A i \in 1 .. Len(Stream(c)) : Stream(c)[i] = <<c, i>>
  BY <1>7 DEF Stream
<1>. QED  BY <1>1, <1>2, <1>3, <1>4, <1>5, <1>7, <1>8

LEMMA BeginsWith ==
  ASSUME NEW B, NEW p \in Seq(B), NEW q \in Seq(B)
  PROVE  /\ Begins(p, p \o q)
         /\ \A s \in Seq(B) : Begins(p \o q, s) => Begins(p, s)
         /\ \A r \in Seq(B) : Begins(p, (p \o q) \o r)
BY DEF Begins

(* No two handlers that have not returned have the same descriptor.         *)
LEMMA OwnFifo ==
  ASSUME IInv, NEW c \in Conns, NEW d \in Conns, c # d,
         hpc[c] \in Live, hpc[d] \in Live
  PROVE  cfd[c] # cfd[d]
BY DEF IInv, Ownership, LiveHandlerInMap

LEMMA LiveFd ==
  ASSUME IInv, NEW c \in Conns, hpc[c] \in Live
  PROVE  cfd[c] \in Fds
BY DEF IInv, Ownership, HandlerHasFd, Live, Serving

-----------------------------------------------------------------------------
(* The steps that leave the FIFOs alone.                                    *)

IdleFifos ==
  /\ UNCHANGED <<taken, m_fifos, cfd, sent>>
  /\ \A c \in Conns :
       /\ hpc'[c] \in Live <=> hpc[c] \in Live
       /\ hpc'[c] = "none" => hpc[c] = "none"
       /\ hpc'[c] \in Serving =>
            hpc[c] \in Serving /\ kbuf'[c] = kbuf[c] /\ ToInsert(c)' = ToInsert(c)

LEMMA IdleFifo ==
  ASSUME FifoInv, IdleFifos
  PROVE  FifoInv'
<1>1. \A c \in Conns : Stream(c)' = Stream(c) /\ Drawn(c)' = Drawn(c)
  BY DEF IdleFifos, Stream, Drawn, Held
<1>. QED  BY <1>1 DEF FifoInv, IdleFifos, DrawnServed, DrawnInOrder, NothingDrawnYet, FifoOfHandler

LEMMA OthersIdle ==
  ASSUME IInv,
         \/ User \/ Joins
         \/ Accept /\ ~Spawn /\ ~Register
         \/ Spawn /\ Joinable(acc)
         \/ \E r \in Readers : Reader(r) /\ ~ReadCopy(r) /\ ~\E f \in Fds : ClearFifo(r, f)
         \/ \E s \in Senders : Sender(s)
         \/ \E c \in Conns : Peer(c) /\ ~PeerSend(c) /\ UNCHANGED serverVars
         \/ UNCHANGED vars
  PROVE  IdleFifos
<1>1. StillStep
  BY OthersStill
<1>2. UNCHANGED <<taken, m_fifos, cfd, hpc, chunk>>
  <2>. USE DEF handlerVars, readVars
  <2>1. CASE User
    BY <2>1 DEF User, StartListening, StartThrows, Stop, Destroy, userFrame
  <2>2. CASE Joins
    BY <2>2 DEF Joins, JoinHandler, JoinedHandlers, JoinAccept, userFrame
  <2>3. CASE Accept /\ ~Spawn /\ ~Register
    BY <2>3 DEF Accept, AcceptLoop, AcceptConn, AcceptAgain, AcceptFails,
                NewClientCallback, acceptFrame
  <2>4. CASE Spawn /\ Joinable(acc)
    BY <2>4 DEF Spawn, NewClient, acceptFrame
  <2>5. ASSUME NEW r \in Readers, Reader(r), ~ReadCopy(r), ~\E f \in Fds : ClearFifo(r, f)
        PROVE  UNCHANGED <<taken, m_fifos, cfd, hpc, chunk>>
    BY <2>5 DEF Reader, ReadStep, ReadCall, ReadAvail, ReadPoll, ReadMin, readFrame
  <2>6. ASSUME NEW s \in Senders, Sender(s) PROVE UNCHANGED <<taken, m_fifos, cfd, hpc, chunk>>
    BY <2>6 DEF Sender, SendStep, SendCall, SendLock, SendData, SendToClosed,
                SendToReset, SendToNone, SendReturns, sendFrame
  <2>7. CASE UNCHANGED serverVars \/ UNCHANGED vars
    BY <2>7 DEF serverVars, vars
  <2>. QED  BY <2>1, <2>2, <2>3, <2>4, <2>5, <2>6, <2>7
<1>. QED  BY <1>1, <1>2 DEF StillStep, IdleFifos, ToInsert, Pending

LEMMA HandlerIdle ==
  ASSUME IInv, NEW c \in Conns, Handler(c), ~RecvData(c), ~Insert(c), ~Erase(c)
  PROVE  IdleFifos
<1>1. UNCHANGED <<taken, m_fifos, cfd, sent>>
  BY DEF Handler, HandlerLoop, RecvEnd, Callback, Close, CloseDesc, handlerFrame, readVars
<1>2. /\ hpc[c] \in Live /\ hpc'[c] \in Live
      /\ hpc'[c] \in Serving => hpc[c] \in Serving
      /\ hpc[c] # "insert" /\ hpc'[c] # "insert"
      /\ \A d \in Conns : d # c => hpc'[d] = hpc[d] /\ chunk'[d] = chunk[d]
  BY DEF Handler, HandlerLoop, RecvEnd, Callback, Close, CloseDesc, IInv, TypeOK,
         HandlerTypeOK, Live, Serving
<1>3. \A d \in Conns : hpc'[d] \in Serving => kbuf'[d] = kbuf[d]
  <2>1. CASE Callback(c)
    BY <2>1 DEF Callback
  <2>2. CASE ~Callback(c)
    BY <2>2, HandlerStill DEF StillStep
  <2>. QED  BY <2>1, <2>2
<1>. QED  BY <1>1, <1>2, <1>3 DEF IdleFifos, ToInsert, Pending, Live, Serving

-----------------------------------------------------------------------------
(* The steps of the accept thread and of the handlers.                      *)

LEMMA RegisterFifo ==
  ASSUME IInv, FifoInv, Register
  PROVE  FifoInv'
<1>1. /\ UNCHANGED <<taken, hpc, cfd, sent, kbuf, chunk>>
      /\ acc \in Fds /\ m_fifos'[acc] = <<>>
      /\ \A f \in Fds : f # acc => m_fifos'[f] = m_fifos[f]
  BY DEF Register, acceptFrame, readVars, handlerVars, IInv, Ownership, AccOwned, TypeOK,
         ServerTypeOK
<1>2. \A c \in Conns : Stream(c)' = Stream(c) /\ ToInsert(c)' = ToInsert(c)
  BY <1>1 DEF Stream, ToInsert, Pending
<1>3. ASSUME NEW c \in Conns, hpc[c] \in Live => cfd[c] # acc
      PROVE  Drawn(c)' = Drawn(c)
  BY <1>1, <1>3, LiveFd DEF Drawn, Held
<1>4. ASSUME NEW c \in Conns, hpc[c] \in Serving
      PROVE  cfd[c] # acc
  BY <1>4 DEF Register, IInv, Ownership, AccOwned, HandlerOwnsSocket, Live, Serving
<1>5. ASSUME NEW c \in Conns, hpc[c] \in Live, cfd[c] = acc
      PROVE  Begins(Drawn(c)', Stream(c))
  <2>1. From(c, taken) \in Seq(Byte) /\ Held(c) \in Seq(Byte) /\ Stream(c) \in Seq(Byte)
    BY <1>5, LiveFd, FifoTypes DEF IInv
  <2>2. Drawn(c)' = From(c, taken)
    <3>1. Held(c)' = <<>>
      BY <1>1, <1>5 DEF Held
    <3>. QED  BY <1>1, <2>1, <3>1, ConcatEmptySeq DEF Drawn
  <2>3. Begins(From(c, taken) \o Held(c), Stream(c))
    BY DEF FifoInv, DrawnInOrder, Drawn
  <2>. QED  BY <2>1, <2>2, <2>3, BeginsWith
<1>6. DrawnServed' /\ NothingDrawnYet'
  BY <1>1, <1>2, <1>3, <1>4 DEF FifoInv, DrawnServed, NothingDrawnYet, Serving
<1>7. DrawnInOrder'
  BY <1>2, <1>3, <1>5 DEF FifoInv, DrawnInOrder
<1>8. FifoOfHandler'
  BY <1>1 DEF FifoInv, FifoOfHandler
<1>. QED  BY <1>6, <1>7, <1>8 DEF FifoInv

LEMMA SpawnFifo ==
  ASSUME IInv, StreamInv, FifoInv, Spawn, ~Joinable(acc)
  PROVE  FifoInv'
<1>. PICK d \in Conns : d = desc[acc] /\ hpc[d] = "none"
  BY DEF Spawn, IInv, Ownership, AccOwned
<1>1. /\ UNCHANGED <<taken, m_fifos, sent, kbuf, chunk>>
      /\ acc \in Fds /\ hpc'[d] = "loop" /\ cfd'[d] = acc
      /\ \A c \in Conns : c # d => hpc'[c] = hpc[c] /\ cfd'[c] = cfd[c]
  BY DEF Spawn, NewClient, acceptFrame, readVars, IInv, Ownership, AccOwned, TypeOK, HandlerTypeOK
<1>2. \A c \in Conns : Stream(c)' = Stream(c)
  BY <1>1 DEF Stream
<1>3. ASSUME NEW c \in Conns, c # d
      PROVE  Drawn(c)' = Drawn(c) /\ ToInsert(c)' = ToInsert(c)
  BY <1>1, <1>3 DEF Drawn, Held, ToInsert, Pending
<1>4. m_fifos[acc] = <<>>
  <2>1. \A c \in Conns : hpc[c] \in Live => cfd[c] # acc
    BY DEF IInv, Ownership, LiveHandlerInMap, Joinable
  <2>. QED  BY <1>1, <2>1 DEF FifoInv, FifoOfHandler
<1>5. Drawn(d)' = <<>> /\ ToInsert(d)' = <<>>
  <2>1. From(d, taken) = <<>>
    BY DEF FifoInv, NothingDrawnYet
  <2>. QED  BY <1>1, <1>4, <2>1, ConcatEmptySeq, NoBytes DEF Drawn, Held, ToInsert, Pending, Live, Serving
<1>6. kbuf[d] = Stream(d) /\ Stream(d) \in Seq(Byte)
  BY FifoTypes DEF StreamInv, UnservedStreams, IInv, Live, Serving
<1>7. DrawnServed'
  <2>1. Drawn(d)' \o ToInsert(d)' \o kbuf'[d] = Stream(d)'
    BY <1>1, <1>2, <1>5, <1>6, ConcatEmptySeq, NoBytes
  <2>. QED  BY <1>1, <1>2, <1>3, <2>1 DEF FifoInv, DrawnServed
<1>8. DrawnInOrder'
  <2>1. Begins(<<>>, Stream(d))
    BY <1>6 DEF Begins
  <2>. QED  BY <1>2, <1>3, <1>5, <2>1 DEF FifoInv, DrawnInOrder
<1>9. NothingDrawnYet'
  BY <1>1 DEF FifoInv, NothingDrawnYet
<1>10. FifoOfHandler'
  BY <1>1 DEF FifoInv, FifoOfHandler, Live, Serving
<1>. QED  BY <1>7, <1>8, <1>9, <1>10 DEF FifoInv

LEMMA RecvFifo ==
  ASSUME IInv, FifoInv, NEW c \in Conns, RecvData(c)
  PROVE  FifoInv'
<1>. DEFINE n == IF Len(kbuf[c]) < RecvSize THEN Len(kbuf[c]) ELSE RecvSize
<1>1. hpc[c] = "recv" /\ desc[cfd[c]] = c
  BY DEF RecvData, IInv, Ownership, HandlerOwnsSocket, Live, Serving
<1>2. /\ chunk' = [chunk EXCEPT ![c] = SubSeq(kbuf[c], 1, n)]
      /\ kbuf' = [kbuf EXCEPT ![c] = SubSeq(@, n + 1, Len(@))]
      /\ hpc' = [hpc EXCEPT ![c] = "insert"]
      /\ UNCHANGED <<taken, m_fifos, cfd, sent>>
  BY <1>1 DEF RecvData, handlerFrame, readVars
<1>3. n \in 0 .. Len(kbuf[c]) /\ kbuf[c] \in Seq(Byte)
  BY Types, ServerBounds DEF IInv
<1>. HIDE DEF n
<1>4. /\ chunk'[c] = SubSeq(kbuf[c], 1, n)
      /\ kbuf'[c] = SubSeq(kbuf[c], n + 1, Len(kbuf[c]))
      /\ hpc'[c] = "insert"
      /\ \A d \in Conns : d # c =>
           hpc'[d] = hpc[d] /\ chunk'[d] = chunk[d] /\ kbuf'[d] = kbuf[d]
  BY <1>2 DEF IInv, TypeOK, SockTypeOK, HandlerTypeOK
<1>5. \A d \in Conns : Stream(d)' = Stream(d) /\ Drawn(d)' = Drawn(d)
  BY <1>1, <1>2, <1>4 DEF Stream, Drawn, Held, Live, Serving
<1>6. \A d \in Conns : d # c => ToInsert(d)' = ToInsert(d)
  BY <1>4 DEF ToInsert, Pending
<1>7. Drawn(c) \o ToInsert(c)' \o kbuf'[c] = Stream(c)
  <2>1. ToInsert(c)' = chunk'[c]
    BY <1>4 DEF ToInsert, Pending
  <2>2. ToInsert(c) = <<>>
    BY <1>1 DEF ToInsert, Pending
  <2>3. Drawn(c) \in Seq(Byte)
    BY <1>1, LiveFd, FifoTypes DEF IInv, Live, Serving
  <2>4. Drawn(c) \o kbuf[c] = Stream(c)
    BY <1>1, <2>2, <2>3, ConcatEmptySeq DEF FifoInv, DrawnServed, Serving
  <2>5. chunk'[c] \in Seq(Byte) /\ kbuf'[c] \in Seq(Byte) /\ chunk'[c] \o kbuf'[c] = kbuf[c]
    BY <1>3, <1>4, CutType, SplitSeq
  <2>6. (Drawn(c) \o chunk'[c]) \o kbuf'[c] = Drawn(c) \o (chunk'[c] \o kbuf'[c])
    BY <2>3, <2>5, Regroup
  <2>. QED  BY <2>1, <2>4, <2>5, <2>6
<1>8. DrawnServed'
  BY <1>4, <1>5, <1>6, <1>7 DEF FifoInv, DrawnServed
<1>9. DrawnInOrder' /\ NothingDrawnYet' /\ FifoOfHandler'
  BY <1>1, <1>2, <1>4, <1>5 DEF FifoInv, DrawnInOrder, NothingDrawnYet, FifoOfHandler, Live, Serving
<1>. QED  BY <1>8, <1>9 DEF FifoInv

LEMMA InsertFifo ==
  ASSUME IInv, FifoInv, NEW c \in Conns, Insert(c)
  PROVE  FifoInv'
<1>1. hpc[c] = "insert" /\ hpc[c] \in Live /\ cfd[c] \in Fds
  BY LiveFd DEF Insert, Live, Serving
<1>2. /\ UNCHANGED <<taken, cfd, sent, kbuf, chunk>>
      /\ hpc'[c] = "callback" /\ m_fifos'[cfd[c]] = m_fifos[cfd[c]] \o chunk[c]
      /\ \A d \in Conns : d # c => hpc'[d] = hpc[d]
      /\ \A f \in Fds : f # cfd[c] => m_fifos'[f] = m_fifos[f]
  BY <1>1 DEF Insert, handlerFrame, readVars, IInv, TypeOK, HandlerTypeOK, ServerTypeOK
<1>3. \A d \in Conns : Stream(d)' = Stream(d)
  BY <1>2 DEF Stream
<1>4. ASSUME NEW d \in Conns, d # c
      PROVE  Drawn(d)' = Drawn(d) /\ ToInsert(d)' = ToInsert(d)
  <2>1. hpc[d] \in Live => cfd[d] \in Fds /\ cfd[d] # cfd[c]
    BY <1>1, <1>4, OwnFifo, LiveFd
  <2>. QED  BY <1>2, <1>4, <2>1 DEF Drawn, Held, ToInsert, Pending
<1>5. /\ From(c, taken) \in Seq(Byte) /\ m_fifos[cfd[c]] \in Seq(Byte) /\ chunk[c] \in Seq(Byte)
      /\ Drawn(c) \in Seq(Byte) /\ Drawn(c) \o chunk[c] \in Seq(Byte) /\ kbuf[c] \in Seq(Byte)
  <2>1. From(c, taken) \in Seq(Byte) /\ Drawn(c) \in Seq(Byte) /\ chunk[c] \in Seq(Byte)
    BY <1>1, FifoTypes, Types DEF IInv
  <2>. QED  BY <1>1, <2>1, ConcatProperties, Types DEF IInv, TypeOK, ServerTypeOK
<1>6. Drawn(c)' = Drawn(c) \o chunk[c]
  <2>1. Drawn(c)' = From(c, taken) \o (m_fifos[cfd[c]] \o chunk[c])
    BY <1>1, <1>2 DEF Drawn, Held, Live, Serving
  <2>2. Drawn(c) = From(c, taken) \o m_fifos[cfd[c]]
    BY <1>1 DEF Drawn, Held
  <2>3. (From(c, taken) \o m_fifos[cfd[c]]) \o chunk[c] = From(c, taken) \o (m_fifos[cfd[c]] \o chunk[c])
    <3>. DEFINE t == From(c, taken)
                m == m_fifos[cfd[c]]
                u == chunk[c]
    <3>1. t \in Seq(Byte) /\ m \in Seq(Byte) /\ u \in Seq(Byte)
      BY <1>5
    <3>. HIDE DEF t, m, u
    <3>2. (t \o m) \o u = t \o (m \o u)
      BY <3>1, Regroup
    <3>. QED  BY <3>2 DEF t, m, u
  <2>. QED  BY <2>1, <2>2, <2>3
<1>7. Drawn(c) \o chunk[c] \o kbuf[c] = Stream(c)
  BY <1>1 DEF FifoInv, DrawnServed, ToInsert, Pending, Serving
<1>8. DrawnServed'
  <2>1. ToInsert(c)' = <<>>
    BY <1>2 DEF ToInsert, Pending
  <2>2. Drawn(c)' \o ToInsert(c)' = Drawn(c) \o chunk[c]
    BY <1>5, <1>6, <2>1, ConcatEmptySeq
  <2>. QED  BY <1>2, <1>3, <1>4, <1>7, <2>2 DEF FifoInv, DrawnServed
<1>9. DrawnInOrder'
  <2>1. Begins(Drawn(c) \o chunk[c], Stream(c))
    BY <1>5, <1>7, BeginsWith
  <2>. QED  BY <1>3, <1>4, <1>6, <2>1 DEF FifoInv, DrawnInOrder
<1>10. NothingDrawnYet' /\ FifoOfHandler'
  BY <1>1, <1>2 DEF FifoInv, NothingDrawnYet, FifoOfHandler, Live, Serving
<1>. QED  BY <1>8, <1>9, <1>10 DEF FifoInv

LEMMA EraseFifo ==
  ASSUME IInv, FifoInv, NEW c \in Conns, Erase(c)
  PROVE  FifoInv'
<1>1. hpc[c] = "erase" /\ hpc[c] \in Live /\ cfd[c] \in Fds
  BY LiveFd DEF Erase, Live
<1>2. /\ UNCHANGED <<taken, cfd, sent, kbuf, chunk>>
      /\ hpc'[c] = "done" /\ m_fifos'[cfd[c]] = <<>>
      /\ \A d \in Conns : d # c => hpc'[d] = hpc[d]
      /\ \A f \in Fds : f # cfd[c] => m_fifos'[f] = m_fifos[f]
  BY <1>1 DEF Erase, handlerFrame, readVars, IInv, TypeOK, HandlerTypeOK, ServerTypeOK
<1>3. \A d \in Conns : Stream(d)' = Stream(d)
  BY <1>2 DEF Stream
<1>4. ASSUME NEW d \in Conns, d # c
      PROVE  Drawn(d)' = Drawn(d) /\ ToInsert(d)' = ToInsert(d)
  <2>1. hpc[d] \in Live => cfd[d] \in Fds /\ cfd[d] # cfd[c]
    BY <1>1, <1>4, OwnFifo, LiveFd
  <2>. QED  BY <1>2, <1>4, <2>1 DEF Drawn, Held, ToInsert, Pending
<1>5. Begins(Drawn(c)', Stream(c))
  <2>1. From(c, taken) \in Seq(Byte) /\ Held(c) \in Seq(Byte) /\ Stream(c) \in Seq(Byte)
    BY <1>1, FifoTypes DEF IInv
  <2>2. Drawn(c)' = From(c, taken)
    BY <1>2, <2>1, ConcatEmptySeq DEF Drawn, Held, Live, Serving
  <2>3. Begins(From(c, taken) \o Held(c), Stream(c))
    BY DEF FifoInv, DrawnInOrder, Drawn
  <2>. QED  BY <2>1, <2>2, <2>3, BeginsWith
<1>6. DrawnServed' /\ NothingDrawnYet'
  BY <1>2, <1>3, <1>4 DEF FifoInv, DrawnServed, NothingDrawnYet, Serving
<1>7. DrawnInOrder'
  BY <1>3, <1>4, <1>5 DEF FifoInv, DrawnInOrder
<1>8. FifoOfHandler'
  BY <1>1, <1>2 DEF FifoInv, FifoOfHandler
<1>. QED  BY <1>6, <1>7, <1>8 DEF FifoInv

LEMMA PeerSendFifo ==
  ASSUME IInv, FifoInv, NEW c \in Conns, PeerSend(c), UNCHANGED serverVars
  PROVE  FifoInv'
<1>. DEFINE b == <<c, sent[c] + 1>>
<1>1. /\ UNCHANGED <<taken, cfd, hpc, chunk, m_fifos>>
      /\ kbuf'[c] = Append(kbuf[c], b)
      /\ \A d \in Conns : d # c => kbuf'[d] = kbuf[d] /\ sent'[d] = sent[d]
      /\ sent'[c] = sent[c] + 1 /\ sent[c] \in 0 .. MaxBytes /\ sent[c] < MaxBytes
  BY DEF PeerSend, serverVars, handlerVars, readVars, IInv, TypeOK, SockTypeOK
<1>2. b \in Byte
  BY <1>1, SocketBounds DEF Byte
<1>3. Stream(c)' = Append(Stream(c), b) /\ Stream(c) \in Seq(Byte)
  BY StreamGrows DEF IInv
<1>. HIDE DEF b
<1>4. \A d \in Conns : Drawn(d)' = Drawn(d) /\ ToInsert(d)' = ToInsert(d)
  BY <1>1 DEF Drawn, Held, ToInsert, Pending
<1>5. \A d \in Conns : d # c => Stream(d)' = Stream(d)
  BY <1>1 DEF Stream
<1>6. DrawnServed'
  <2>1. ASSUME hpc[c] \in Serving
        PROVE  (Drawn(c) \o ToInsert(c)) \o Append(kbuf[c], b) = Append(Stream(c), b)
    <3>. DEFINE p == Drawn(c) \o ToInsert(c)
    <3>1. p \in Seq(Byte) /\ kbuf[c] \in Seq(Byte) /\ p \o kbuf[c] = Stream(c)
      BY <2>1, LiveFd, FifoTypes, Types DEF IInv, FifoInv, DrawnServed, Live
    <3>. HIDE DEF p
    <3>2. \A s, t \in Seq(Byte) : s \o Append(t, b) = Append(s \o t, b)
      BY <1>2, AppendToConcat
    <3>3. p \o Append(kbuf[c], b) = Append(p \o kbuf[c], b)
      BY <3>1, <3>2
    <3>. QED  BY <3>1, <3>3 DEF p
  <2>. QED  BY <1>1, <1>3, <1>4, <1>5, <2>1 DEF FifoInv, DrawnServed
<1>7. DrawnInOrder'
  <2>1. Begins(Drawn(c), Stream(c)) => Begins(Drawn(c), Append(Stream(c), b))
    <3>1. Len(Drawn(c)) \in Nat
      BY LiveFd, FifoTypes DEF IInv
    <3>. QED  BY <1>2, <1>3, <3>1, AppendProperties DEF Begins
  <2>. QED  BY <1>3, <1>4, <1>5, <2>1 DEF FifoInv, DrawnInOrder
<1>8. NothingDrawnYet' /\ FifoOfHandler'
  BY <1>1 DEF FifoInv, NothingDrawnYet, FifoOfHandler
<1>. QED  BY <1>6, <1>7, <1>8 DEF FifoInv

-----------------------------------------------------------------------------
(* The steps of the readers.  A call takes a out of the FIFO and leaves     *)
(* rest in it.                                                              *)

Takes(f, a, rest) ==
  /\ m_fifos[f] = a \o rest
  /\ m_fifos' = [m_fifos EXCEPT ![f] = rest]
  /\ taken' = taken \o a
  /\ UNCHANGED <<hpc, cfd, chunk, sent, kbuf>>

LEMMA ReaderTakes ==
  ASSUME TypeOK, NEW r \in Readers,
         ReadCopy(r) \/ \E f \in Fds : ClearFifo(r, f)
  PROVE  \/ IdleFifos
         \/ \E f \in Fds : \E a, rest \in Seq(Byte) : Takes(f, a, rest)
<1>1. CASE ReadCopy(r)
  <2>. DEFINE f == rcall[r].fd
              n == rsize[r]
              s == m_fifos[f]
  <2>1. /\ f \in Fds /\ s \in Seq(Byte) /\ n \in Nat
    BY <1>1 DEF ReadCopy, TypeOK, ReadTypeOK, ServerTypeOK
  <2>2. UNCHANGED <<hpc, cfd, chunk, sent, kbuf>>
    BY <1>1 DEF ReadCopy, readFrame, handlerVars, sockVars
  <2>3. \/ UNCHANGED <<taken, m_fifos>>
        \/ /\ ~(Len(s) < n)
           /\ m_fifos' = [m_fifos EXCEPT ![f] = SubSeq(s, n + 1, Len(s))]
           /\ taken' = taken \o SubSeq(s, 1, n)
    BY <1>1 DEF ReadCopy
  <2>4. CASE UNCHANGED <<taken, m_fifos>>
    BY <2>2, <2>4 DEF IdleFifos, ToInsert, Pending
  <2>5. CASE /\ ~(Len(s) < n)
             /\ m_fifos' = [m_fifos EXCEPT ![f] = SubSeq(s, n + 1, Len(s))]
             /\ taken' = taken \o SubSeq(s, 1, n)
    <3>1. n \in 0 .. Len(s)
      BY <2>1, <2>5
    <3>. HIDE DEF n
    <3>2. /\ SubSeq(s, 1, n) \in Seq(Byte) /\ SubSeq(s, n + 1, Len(s)) \in Seq(Byte)
          /\ SubSeq(s, 1, n) \o SubSeq(s, n + 1, Len(s)) = s
      BY <2>1, <3>1, CutType, SplitSeq
    <3>3. Takes(f, SubSeq(s, 1, n), SubSeq(s, n + 1, Len(s)))
      BY <2>2, <2>5, <3>2 DEF Takes
    <3>. HIDE DEF f, s
    <3>. QED  BY <2>1, <3>2, <3>3
  <2>. QED  BY <2>3, <2>4, <2>5
<1>2. ASSUME NEW f \in Fds, ClearFifo(r, f)
      PROVE  Takes(f, m_fifos[f], <<>>) /\ m_fifos[f] \in Seq(Byte)
  <2>1. m_fifos[f] \in Seq(Byte)
    BY DEF TypeOK, ServerTypeOK
  <2>. QED  BY <1>2, <2>1, ConcatEmptySeq DEF ClearFifo, readFrame, handlerVars, sockVars, Takes
<1>. QED  BY <1>1, <1>2, NoBytes

LEMMA TakesFrom ==
  ASSUME TypeOK, NEW f \in Fds, NEW a \in Seq(Byte), NEW rest \in Seq(Byte),
         Takes(f, a, rest), NEW c \in Conns
  PROVE  From(c, taken)' = From(c, taken) \o From(c, a)
<1>1. taken \in Seq(Byte)
  BY DEF TypeOK, ReadTypeOK
<1>2. \A s, t \in Seq(Byte) : From(c, s \o t) = From(c, s) \o From(c, t)
  BY FromConcat
<1>. QED  BY <1>1, <1>2 DEF Takes

LEMMA TakeFifo ==
  ASSUME IInv, FifoInv, NEW f \in Fds, NEW a \in Seq(Byte), NEW rest \in Seq(Byte),
         Takes(f, a, rest)
  PROVE  FifoInv'
<1>1. /\ UNCHANGED <<hpc, cfd, chunk, sent, kbuf>>
      /\ m_fifos'[f] = rest /\ m_fifos[f] = a \o rest
      /\ \A g \in Fds : g # f => m_fifos'[g] = m_fifos[g]
  BY DEF Takes, IInv, TypeOK, ServerTypeOK
<1>2. CASE \A c \in Conns : hpc[c] \in Live => cfd[c] # f
  <2>1. a \o rest = <<>>
    BY <1>1, <1>2 DEF FifoInv, FifoOfHandler
  <2>2. a = <<>> /\ rest = <<>>
    BY <2>1
  <2>3. UNCHANGED <<taken, m_fifos>>
    <3>1. taken \in Seq(Byte)
      BY DEF IInv, TypeOK, ReadTypeOK
    <3>. QED  BY <1>1, <2>1, <2>2, <3>1, ConcatEmptySeq DEF Takes, IInv, TypeOK, ServerTypeOK
  <2>. QED  BY <1>1, <2>3, IdleFifo DEF IdleFifos, ToInsert, Pending
<1>3. ASSUME NEW c \in Conns, hpc[c] \in Live, cfd[c] = f
      PROVE  FifoInv'
  <2>1. From(c, taken) \in Seq(Byte) /\ Drawn(c) = From(c, taken) \o (a \o rest)
    BY <1>1, <1>3, FifoTypes DEF IInv, Drawn, Held
  <2>2. \A i \in 1 .. Len(a) : a[i] \in Byte /\ a[i][1] = c
    <3>. SUFFICES ASSUME NEW i \in 1 .. Len(a) PROVE a[i] \in Byte /\ a[i][1] = c
      OBVIOUS
    <3>. DEFINE t == From(c, taken)
                j == Len(t) + i
    <3>1. t \in Seq(Byte) /\ Begins(t \o (a \o rest), Stream(c))
      BY <2>1 DEF FifoInv, DrawnInOrder
    <3>. HIDE DEF t
    <3>2. j \in 1 .. Len(t \o (a \o rest)) /\ (t \o (a \o rest))[j] = a[i]
      BY <3>1
    <3>3. j \in 1 .. Len(Stream(c)) /\ Stream(c)[j] = a[i]
      <4>1. Len(Stream(c)) \in Nat
        BY <1>3, FifoTypes DEF IInv
      <4>. HIDE DEF j
      <4>. QED  BY <3>1, <3>2, <4>1 DEF Begins
    <3>4. a[i] = <<c, j>>
      BY <1>3, <3>3, FifoTypes DEF IInv
    <3>. HIDE DEF j
    <3>. QED  BY <3>4
  <2>3. From(c, a) = a
    BY <2>2, FromOwn
  <2>4. ASSUME NEW d \in Conns, d # c PROVE From(d, a) = <<>>
    BY <2>2, <2>4, FromOthers
  <2>5. Drawn(c)' = Drawn(c)
    <3>1. Drawn(c)' = (From(c, taken) \o a) \o rest
      BY <1>1, <1>3, <2>3, TakesFrom DEF IInv, Drawn, Held
    <3>2. (From(c, taken) \o a) \o rest = From(c, taken) \o (a \o rest)
      BY <2>1, Regroup
    <3>. QED  BY <2>1, <3>1, <3>2
  <2>6. ASSUME NEW d \in Conns, d # c
        PROVE  From(d, taken)' = From(d, taken) /\ Drawn(d)' = Drawn(d)
    <3>1. From(d, taken) \in Seq(Byte)
      <4>1. taken \in Seq(Byte)
        BY DEF IInv, TypeOK, ReadTypeOK
      <4>. QED  BY <4>1, FromType
    <3>2. From(d, taken)' = From(d, taken)
      BY <2>4, <2>6, <3>1, TakesFrom, ConcatEmptySeq DEF IInv
    <3>3. hpc[d] \in Live => cfd[d] \in Fds /\ cfd[d] # f
      BY <1>3, <2>6, OwnFifo, LiveFd
    <3>. QED  BY <1>1, <3>2, <3>3 DEF Drawn, Held
  <2>7. \A d \in Conns : /\ Stream(d)' = Stream(d) /\ Drawn(d)' = Drawn(d)
                         /\ ToInsert(d)' = ToInsert(d)
    BY <1>1, <2>5, <2>6 DEF Stream, ToInsert, Pending
  <2>8. DrawnServed' /\ DrawnInOrder'
    BY <1>1, <2>7 DEF FifoInv, DrawnServed, DrawnInOrder
  <2>9. NothingDrawnYet'
    BY <1>1, <1>3, <2>6 DEF FifoInv, NothingDrawnYet, Live, Serving
  <2>10. FifoOfHandler'
    BY <1>1, <1>3 DEF FifoInv, FifoOfHandler
  <2>. QED  BY <2>8, <2>9, <2>10 DEF FifoInv
<1>. QED  BY <1>2, <1>3

-----------------------------------------------------------------------------
LEMMA FifoStep == IInv /\ StreamInv /\ FifoInv /\ [Next]_vars => FifoInv'
<1>. SUFFICES ASSUME IInv, StreamInv, FifoInv, [Next]_vars PROVE FifoInv'
  OBVIOUS
<1>1. CASE User \/ Joins \/ UNCHANGED vars
  BY <1>1, OthersIdle, IdleFifo
<1>2. CASE Accept
  BY <1>2, OthersIdle, IdleFifo, RegisterFifo, SpawnFifo
<1>3. ASSUME NEW c \in Conns, Handler(c) PROVE FifoInv'
  BY <1>3, HandlerIdle, IdleFifo, RecvFifo, InsertFifo, EraseFifo
<1>4. ASSUME NEW c \in Conns, Peer(c), UNCHANGED serverVars PROVE FifoInv'
  BY <1>4, OthersIdle, IdleFifo, PeerSendFifo
<1>5. ASSUME NEW r \in Readers, Reader(r) PROVE FifoInv'
  BY <1>5, OthersIdle, IdleFifo, ReaderTakes, TakeFifo DEF IInv
<1>6. CASE \E s \in Senders : Sender(s)
  BY <1>6, OthersIdle, IdleFifo
<1>. QED  BY <1>1, <1>2, <1>3, <1>4, <1>5, <1>6 DEF Next

LEMMA FifoInvariance == Spec => [](IInv /\ StreamInv /\ FifoInv)
<1>1. Spec => []StreamInv
  BY InitStream, StreamStep, Invariance, PTL DEF Spec
<1>. QED  BY <1>1, InitFifo, FifoStep, Invariance, PTL DEF Spec

(* While a client is served no byte of its is lost, doubled or moved        *)
(* between the kernel, its handler, its FIFO and the application, whatever  *)
(* the other clients and the readers of any FIFO do meanwhile               *)
(* (tcp_client.hpp:305-332 against 118-161).                                *)
THEOREM Conservation == Spec => []StreamConserved
<1>1. IInv /\ FifoInv => StreamConserved
  <2>. SUFFICES ASSUME IInv, FifoInv, NEW c \in Conns, hpc[c] \in Serving
                PROVE  From(c, taken) \o m_fifos[cfd[c]] \o Pending(c, {"insert"}) \o kbuf[c]
                         = Stream(c)
    BY DEF StreamConserved
  <2>. QED  BY DEF FifoInv, DrawnServed, Drawn, Held, ToInsert, Live
<1>. QED  BY <1>1, FifoInvariance, PTL

-----------------------------------------------------------------------------
(* One step of the server is, for each client, a write to its stream, a     *)
(* read from it, or neither.                                                *)

Got(c) == From(c, taken)

GotOrdered ==
  \A c \in Conns :
    Got(c) \in Seq(Byte) /\ Stream(c) \in Seq(Byte) /\ Begins(Got(c), Stream(c))

LEMMA GotInOrder == IInv /\ FifoInv => GotOrdered
<1>. SUFFICES ASSUME IInv, FifoInv, NEW c \in Conns
              PROVE  /\ Got(c) \in Seq(Byte) /\ Stream(c) \in Seq(Byte)
                     /\ Begins(Got(c), Stream(c))
  BY DEF GotOrdered
<1>1. Got(c) \in Seq(Byte) /\ Held(c) \in Seq(Byte) /\ Stream(c) \in Seq(Byte)
  BY LiveFd, FifoTypes DEF IInv, Got
<1>2. Begins(Got(c) \o Held(c), Stream(c))
  BY DEF FifoInv, DrawnInOrder, Drawn, Got
<1>. QED  BY <1>1, <1>2, BeginsWith

LEMMA BeginsExtends ==
  ASSUME NEW p \in Seq(Byte), NEW s \in Seq(Byte), Begins(p, s)
  PROVE  p = s \/ ToReaders!Extends(s, p)
<1>1. CASE Len(p) = Len(s)
  BY <1>1, SeqEqual DEF Begins
<1>2. CASE Len(p) # Len(s)
  <2>1. Len(p) \in 1 - 1 .. Len(s) /\ Len(s) > Len(p)
    BY <1>2 DEF Begins
  <2>2. /\ SubSeq(s, 1, Len(p)) \in Seq(Byte) /\ Len(SubSeq(s, 1, Len(p))) = Len(p)
        /\ \A i \in 1 .. Len(p) : SubSeq(s, 1, Len(p))[i] = p[i]
    BY <2>1 DEF Begins
  <2>3. SubSeq(s, 1, Len(p)) = p
    <3>. DEFINE q == SubSeq(s, 1, Len(p))
    <3>. HIDE DEF q
    <3>1. q \in Seq(Byte) /\ Len(q) = Len(p) /\ \A i \in 1 .. Len(p) : q[i] = p[i]
      BY <2>2 DEF q
    <3>2. q = p
      BY <3>1, SeqEqual
    <3>. QED  BY <3>2 DEF q
  <2>. QED  BY <2>1, <2>3 DEF ToReaders!Extends
<1>. QED  BY <1>1, <1>2

ReadsOrWrites(c) ==
  \/ /\ Got(c)' = Got(c)
     /\ Stream(c)' = Stream(c) \/ \E b \in Byte : Stream(c)' = Append(Stream(c), b)
  \/ /\ Stream(c)' = Stream(c)
     /\ \E u \in Seq(Byte) : Got(c)' = Got(c) \o u

LEMMA StepReadsOrWrites ==
  ASSUME IInv, [Next]_vars, NEW c \in Conns
  PROVE  ReadsOrWrites(c)
<1>1. CASE UNCHANGED <<sent, taken>>
  BY <1>1 DEF ReadsOrWrites, Got, Stream
<1>2. ASSUME NEW d \in Conns, PeerSend(d), UNCHANGED serverVars PROVE ReadsOrWrites(c)
  <2>1. Got(c)' = Got(c)
    BY <1>2 DEF serverVars, readVars, Got
  <2>2. CASE c = d
    <3>1. <<c, sent[c] + 1>> \in Byte
      BY <1>2, <2>2, SocketBounds DEF PeerSend, IInv, TypeOK, SockTypeOK, Byte
    <3>. QED  BY <1>2, <2>1, <2>2, <3>1, StreamGrows DEF ReadsOrWrites, IInv
  <2>3. CASE c # d
    <3>1. Stream(c)' = Stream(c)
      BY <1>2, <2>3 DEF PeerSend, IInv, TypeOK, SockTypeOK, Stream
    <3>. QED  BY <2>1, <3>1 DEF ReadsOrWrites
  <2>. QED  BY <2>2, <2>3
<1>3. ASSUME NEW f \in Fds, NEW a \in Seq(Byte), NEW rest \in Seq(Byte), Takes(f, a, rest)
      PROVE  ReadsOrWrites(c)
  <2>1. Got(c)' = Got(c) \o From(c, a) /\ From(c, a) \in Seq(Byte)
    BY <1>3, TakesFrom, FromType DEF Got, IInv
  <2>2. Stream(c)' = Stream(c)
    BY <1>3 DEF Takes, Stream
  <2>. QED  BY <2>1, <2>2 DEF ReadsOrWrites
<1>4. CASE IdleFifos
  BY <1>1, <1>4 DEF IdleFifos
<1>5. ASSUME NEW r \in Readers, Reader(r) PROVE ReadsOrWrites(c)
  BY <1>3, <1>4, <1>5, OthersIdle, ReaderTakes DEF IInv
<1>6. CASE User \/ Joins \/ UNCHANGED vars \/ \E s \in Senders : Sender(s)
  BY <1>4, <1>6, OthersIdle
<1>7. CASE Accept
  <2>1. CASE Register \/ Spawn
    BY <1>1, <2>1 DEF Register, Spawn, acceptFrame, readVars
  <2>. QED  BY <1>4, <1>7, <2>1, OthersIdle
<1>8. ASSUME NEW d \in Conns, Handler(d) PROVE ReadsOrWrites(c)
  <2>1. CASE RecvData(d) \/ Insert(d) \/ Erase(d)
    BY <1>1, <2>1 DEF RecvData, Insert, Erase, handlerFrame, readVars
  <2>. QED  BY <1>4, <1>8, <2>1, HandlerIdle
<1>9. ASSUME NEW d \in Conns, Peer(d), UNCHANGED serverVars PROVE ReadsOrWrites(c)
  BY <1>2, <1>4, <1>9, OthersIdle
<1>. QED  BY <1>5, <1>6, <1>7, <1>8, <1>9 DEF Next

LEMMA ReaderRefines ==
  ASSUME IInv, GotOrdered, GotOrdered', [Next]_vars
  PROVE  ToReaders!Next
<1>. SUFFICES ASSUME NEW c \in Conns
              PROVE  ToReaders!Write(c) \/ ToReaders!Read(c) \/ ToReaders!Idle(c)
  BY DEF ToReaders!Next
<1>. DEFINE g == Got(c)
            s == Stream(c)
            h == Got(c)'
            t == Stream(c)'
<1>1. ToReaders!Extends(t, s) /\ h = g => ToReaders!Write(c)
  BY DEF ToReaders!Write, Got
<1>2. t = s /\ ToReaders!Extends(h, g) /\ (ToReaders!Extends(s, h) \/ s = h) => ToReaders!Read(c)
  BY DEF ToReaders!Read, Got
<1>3. t = s /\ h = g => ToReaders!Idle(c)
  BY DEF ToReaders!Idle, Got
<1>4. g \in Seq(Byte) /\ s \in Seq(Byte) /\ h \in Seq(Byte) /\ t \in Seq(Byte) /\ Begins(h, t)
  BY DEF GotOrdered, Begins
<1>5. \/ h = g /\ (t = s \/ \E b \in Byte : t = Append(s, b))
      \/ t = s /\ \E u \in Seq(Byte) : h = g \o u
  BY StepReadsOrWrites DEF ReadsOrWrites
<1>. HIDE DEF g, s, h, t
<1>6. ASSUME NEW b \in Byte, t = Append(s, b) PROVE ToReaders!Extends(t, s)
  <2>1. Begins(s, t) /\ s # t
    BY <1>4, <1>6, AppendProperties DEF Begins
  <2>. QED  BY <1>4, <2>1, BeginsExtends
<1>7. ASSUME NEW u \in Seq(Byte), h = g \o u PROVE h = g \/ ToReaders!Extends(h, g)
  <2>1. Begins(g, h)
    BY <1>4, <1>7, BeginsWith
  <2>. QED  BY <1>4, <2>1, BeginsExtends
<1>8. t = s => ToReaders!Extends(s, h) \/ s = h
  BY <1>4, BeginsExtends
<1>. QED  BY <1>1, <1>2, <1>3, <1>5, <1>6, <1>7, <1>8

(* What read_byte and clear_fifo take out is the stream of each client, in  *)
(* order and without a gap, whichever threads ask and whatever becomes of   *)
(* the client and of its descriptor: the server implements ByteStreams      *)
(* (tcp_client.hpp:118-161, 305-317, 366, 426).                             *)
THEOREM ReadersRefine == Spec => ReadersGetStream
<1>1. Init => ToReaders!Init
  <2>. SUFFICES ASSUME Init PROVE ToReaders!Init
    OBVIOUS
  <2>1. ASSUME NEW c \in Conns PROVE Stream(c) = <<>>
    <3>1. sent[c] = 0
      BY DEF Init, SockInit
    <3>. QED  BY <3>1 DEF Stream
  <2>2. ASSUME NEW c \in Conns PROVE From(c, taken) = <<>>
    BY FromEmpty DEF Init
  <2>. QED  BY <2>1, <2>2 DEF ToReaders!Init
<1>2. IInv /\ GotOrdered /\ GotOrdered' /\ [Next]_vars => [ToReaders!Next]_(ToReaders!vars)
  BY ReaderRefines
<1>. QED  BY <1>1, <1>2, GotInOrder, FifoInvariance, PTL DEF Spec, ReadersGetStream, ToReaders!Spec

=============================================================================
