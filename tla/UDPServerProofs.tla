--------------------------- MODULE UDPServerProofs ---------------------------
(***************************************************************************)
(* Proofs about UDPServer, for any number of clients and any bounds.       *)
(*                                                                         *)
(* There is one receive thread and one thread that starts and stops it: a  *)
(* server that is not to run and is not being stopped has none.  What is   *)
(* received goes to a FIFO and to the callback in the same two steps,      *)
(* between which nothing else touches either.                              *)
(***************************************************************************)
EXTENDS UDPServer, SequenceTheorems, TLAPS

ReceiveOver == upc = "idle" /\ ~m_is_running => rpc = "none"
StopHasBegun == upc # "idle" => ~m_is_running

PhaseInv ==
  /\ m_is_running \in BOOLEAN
  /\ upc \in {"idle", "joining"}
  /\ ReceiveOver
  /\ StopHasBegun

phase == <<m_is_running, upc, rpc>>

-----------------------------------------------------------------------------
(* One step of the server is one step of ServerLifecycle, or none, and does *)
(* nothing that a stopped server must not do.                               *)

Quiet == upc = "idle" /\ ~m_is_running /\ ~m_is_running'
           => UNCHANGED <<rpc, dgram, m_fifos, called>>

PhaseStep == PhaseInv' /\ Quiet /\ [Lifecycle!Next]_(Lifecycle!vars)

LEMMA OthersPhase ==
  ASSUME PhaseInv,
         \/ Broadcast
         \/ \E c \in Clients : ClientWrites(c) \/ SendData(c)
         \/ \E d \in BagToSet(net) : Lose(d) \/ Double(d)
         \/ UNCHANGED vars
  PROVE  PhaseStep
<1>1. UNCHANGED <<m_is_running, upc, rpc, dgram, m_fifos, called>>
  BY DEF Broadcast, ClientWrites, SendData, Lose, Double, serverVars, vars
<1>. QED
  BY <1>1 DEF PhaseStep, Quiet, PhaseInv, ReceiveOver, StopHasBegun, Lifecycle!vars

LEMMA UserPhase ==
  ASSUME PhaseInv, User \/ JoinReceive
  PROVE  PhaseStep
<1>. USE DEF PhaseStep, Quiet, PhaseInv, ReceiveOver, StopHasBegun, userFrame,
             Lifecycle!vars, Lifecycle!Next
<1>1. CASE StartListening
  BY <1>1 DEF StartListening, Lifecycle!Start
<1>2. CASE StartThrows
  BY <1>2 DEF StartThrows, Lifecycle!Start
<1>3. CASE Stop
  BY <1>3 DEF Stop, Lifecycle!BeginStop
<1>4. CASE JoinReceive
  BY <1>4 DEF JoinReceive, ServerStop, Lifecycle!Return
<1>. QED  BY <1>1, <1>2, <1>3, <1>4 DEF User

LEMMA ReceivePhase ==
  ASSUME PhaseInv, ReceiveThread
  PROVE  PhaseStep
<1>1. /\ UNCHANGED <<m_is_running, upc>>
      /\ rpc \notin {"none", "exited"} /\ rpc' # "none"
      /\ m_is_running => rpc' # "exited"
  BY DEF ReceiveThread, ReceiveLoop, ReceiveNothing, Receive, Insert, Handle,
         receiveFrame
<1>2. PhaseInv' /\ Quiet
  BY <1>1 DEF PhaseInv, ReceiveOver, StopHasBegun, Quiet
<1>3. [Lifecycle!Next]_(Lifecycle!vars)
  BY <1>1 DEF Lifecycle!Next, Lifecycle!End, Lifecycle!vars
<1>. QED  BY <1>2, <1>3 DEF PhaseStep

LEMMA StepPhase == PhaseInv /\ [Next]_vars => PhaseStep
BY OthersPhase, UserPhase, ReceivePhase DEF Next

LEMMA InitPhase == Init => PhaseInv /\ Lifecycle!Init
BY DEF Init, PhaseInv, ReceiveOver, StopHasBegun, Lifecycle!Init

LEMMA PhaseInvariance == Spec => []PhaseInv
<1>1. PhaseInv /\ [Next]_vars => PhaseInv'
  BY StepPhase DEF PhaseStep
<1>. QED  BY InitPhase, <1>1, PTL DEF Spec

(* start() and stop() of UDPServer are those of ServerLifecycle: every step *)
(* of every thread is one of its steps or leaves it alone                   *)
(* (com_client.hpp:177-202, udp_client.hpp:87-98, 209-270).  That stop()    *)
(* returns is left to the runs.                                             *)
THEOREM Refinement == Spec => Lifecycle!Spec
<1>1. PhaseInv /\ [Next]_vars => [Lifecycle!Next]_(Lifecycle!vars)
  BY StepPhase DEF PhaseStep
<1>. QED  BY InitPhase, PhaseInvariance, <1>1, PTL DEF Spec, Lifecycle!Spec

(* Once stop() has returned nothing is received, given to the callback or   *)
(* echoed (udp_client.hpp:90-97, 209).                                      *)
THEOREM Silence == Spec => StoppedIsQuiet
<1>1. PhaseInv /\ [Next]_vars
        => [upc = "idle" /\ ~m_is_running /\ ~m_is_running'
             => UNCHANGED <<rpc, dgram, m_fifos, called>>]_vars
  BY StepPhase DEF PhaseStep, Quiet
<1>. QED  BY PhaseInvariance, <1>1, PTL DEF Spec, StoppedIsQuiet

-----------------------------------------------------------------------------
(* The FIFOs and the callback.                                              *)

BodiesOK ==
  /\ \A d \in DOMAIN net : d.body \in Seq(Byte)
  /\ dgram.body \in Seq(Byte)
  /\ m_fifos \in [Hosts -> Seq(Byte)]
  /\ called \in [Hosts -> Seq(Byte)]

FifoInv == BodiesOK /\ CallbackSeesFifo

LEMMA CutBytes ==
  ASSUME NEW s \in Seq(Byte)
  PROVE  Cut(s, RecvSize) \in Seq(Byte)
<1>. DEFINE n == IF Len(s) < RecvSize THEN Len(s) ELSE RecvSize
<1>1. n \in Int /\ \A i \in 1 .. n : s[i] \in Byte
  BY SizesAssumption
<1>. HIDE DEF n
<1>2. SubSeq(s, 1, n) \in Seq(Byte)
  BY <1>1, SubSeqProperties
<1>. QED  BY <1>2 DEF Cut, n

LEMMA BodyBytes ==
  ASSUME NEW a \in Addresses, NEW k \in 1 .. MaxWrites, NEW n \in 0 .. MaxLen
  PROVE  Body(a, k, n) \in Seq(Byte)
BY SizesAssumption, IsASeq DEF Body, Byte

LEMMA BagAddDomain ==
  ASSUME NEW B, NEW x
  PROVE  DOMAIN BagAdd(B, x) = DOMAIN B \cup {x}
BY DEF BagAdd

LEMMA InitFifo == Init => FifoInv
<1>1. <<>> \in Seq(Byte) /\ <<>> \o <<>> = <<>>
  BY EmptySeq, ConcatEmptySeq
<1>. QED
  BY <1>1 DEF Init, FifoInv, BodiesOK, CallbackSeesFifo, NoDatagram, Datagram, EmptyBag, SetToBag

(* Steps that neither insert nor handle.                                    *)
LEMMA OthersFifo ==
  ASSUME FifoInv, BodiesOK', UNCHANGED <<m_callback, m_fifos, called>>,
         (rpc # "handle" /\ rpc' # "handle") \/ UNCHANGED <<rpc, dgram>>
  PROVE  FifoInv'
BY DEF FifoInv, CallbackSeesFifo

LEMMA InsertFifo ==
  ASSUME FifoInv, Insert
  PROVE  FifoInv'
<1>. DEFINE h == HostOf[dgram.from]
<1>1. /\ rpc = "insert" /\ rpc' = "handle"
      /\ UNCHANGED <<net, dgram, called, m_callback>>
      /\ m_fifos' = [m_fifos EXCEPT ![h] = @ \o dgram.body]
  BY DEF Insert, receiveFrame
<1>2. \A g \in Hosts : m_fifos[g] \o dgram.body \in Seq(Byte)
  BY ConcatProperties DEF FifoInv, BodiesOK
<1>3. BodiesOK'
  BY <1>1, <1>2 DEF FifoInv, BodiesOK
<1>4. CallbackSeesFifo'
  <2>1. \A g \in Hosts : called[g] \o <<>> = called[g]
    BY ConcatEmptySeq DEF FifoInv, BodiesOK
  <2>2. m_callback => \A g \in Hosts : m_fifos[g] = called[g]
    BY <1>1, <2>1 DEF FifoInv, CallbackSeesFifo
  <2>. QED  BY <1>1, <2>1, <2>2 DEF CallbackSeesFifo, FifoInv, BodiesOK
<1>. QED  BY <1>3, <1>4 DEF FifoInv

LEMMA HandleFifo ==
  ASSUME FifoInv, Handle
  PROVE  FifoInv'
<1>. DEFINE h == HostOf[dgram.from]
<1>1. /\ rpc = "handle" /\ rpc' = "loop"
      /\ UNCHANGED <<dgram, m_fifos, m_callback>>
      /\ IF m_callback
         THEN /\ called' = [called EXCEPT ![h] = @ \o dgram.body]
              /\ UNCHANGED net
         ELSE /\ net' = BagAdd(net, Datagram("server", dgram.from, dgram.body))
              /\ UNCHANGED called
  BY DEF Handle, receiveFrame
<1>2. \A g \in Hosts : called[g] \o dgram.body \in Seq(Byte)
  BY ConcatProperties DEF FifoInv, BodiesOK
<1>3. BodiesOK'
  <2>1. \A d \in DOMAIN net' : d.body \in Seq(Byte)
    <3>. DEFINE echo == Datagram("server", dgram.from, dgram.body)
    <3>1. DOMAIN net' \subseteq DOMAIN net \cup {echo}
      BY <1>1, BagAddDomain
    <3>2. echo.body \in Seq(Byte)
      BY DEF FifoInv, BodiesOK, Datagram
    <3>. QED  BY <3>1, <3>2 DEF FifoInv, BodiesOK
  <2>2. called' \in [Hosts -> Seq(Byte)]
    BY <1>1, <1>2 DEF FifoInv, BodiesOK
  <2>. QED  BY <1>1, <2>1, <2>2 DEF FifoInv, BodiesOK
<1>4. CallbackSeesFifo'
  <2>1. \A g \in Hosts : called[g] \o <<>> = called[g] /\ m_fifos[g] \o <<>> = m_fifos[g]
    BY ConcatEmptySeq DEF FifoInv, BodiesOK
  <2>2. m_callback => \A g \in Hosts :
          m_fifos[g] = IF h = g THEN called[g] \o dgram.body ELSE called[g]
    BY <1>1, <2>1 DEF FifoInv, CallbackSeesFifo
  <2>3. m_callback => called' = m_fifos
    <3>1. m_callback => \A g \in Hosts : called'[g] = m_fifos[g]
      BY <1>1, <2>2 DEF FifoInv, BodiesOK
    <3>2. called' \in [Hosts -> Seq(Byte)]
      BY <1>3 DEF BodiesOK
    <3>. QED  BY <3>1, <3>2 DEF FifoInv, BodiesOK
  <2>. QED  BY <1>1, <2>1, <2>3 DEF CallbackSeesFifo
<1>. QED  BY <1>3, <1>4 DEF FifoInv

LEMMA StepFifo ==
  ASSUME FifoInv, PhaseInv, written \in [Addresses -> 0 .. MaxWrites], [Next]_vars
  PROVE  FifoInv'
<1>. USE DEF FifoInv, BodiesOK, serverVars, netVars
<1>1. CASE User \/ JoinReceive \/ UNCHANGED vars
  <2>1. UNCHANGED <<net, m_fifos, m_callback, dgram, called>>
    BY <1>1 DEF User, StartListening, StartThrows, Stop, JoinReceive, userFrame, vars
  <2>2. (rpc # "handle" /\ rpc' # "handle") \/ UNCHANGED rpc
    BY <1>1 DEF User, StartListening, StartThrows, Stop, JoinReceive, userFrame, vars,
                PhaseInv, ReceiveOver
  <2>. QED  BY <2>1, <2>2, OthersFifo
<1>2. CASE ReceiveLoop \/ ReceiveNothing
  BY <1>2, OthersFifo DEF ReceiveLoop, ReceiveNothing, receiveFrame
<1>3. CASE Insert
  BY <1>3, InsertFifo
<1>4. CASE Handle
  BY <1>4, HandleFifo
<1>5. ASSUME NEW d \in BagToSet(net), Receive(d) PROVE FifoInv'
  <2>1. Cut(d.body, RecvSize) \in Seq(Byte)
    BY CutBytes DEF BagToSet
  <2>2. BodiesOK'
    BY <1>5, <2>1 DEF Receive, receiveFrame, BagRemove
  <2>. QED  BY <1>5, <2>2, OthersFifo DEF Receive, receiveFrame
<1>6. ASSUME NEW a \in Addresses, NEW b \in Addresses, NEW n \in 0 .. MaxLen,
             Sent(a, b, n), UNCHANGED serverVars
      PROVE FifoInv'
  <2>1. Body(a, written[a] + 1, n) \in Seq(Byte)
    BY <1>6, SizesAssumption, BodyBytes DEF Sent
  <2>2. BodiesOK'
    BY <1>6, <2>1 DEF Sent, BagAdd, Datagram
  <2>. QED  BY <1>6, <2>2, OthersFifo
<1>7. ASSUME NEW d \in BagToSet(net), Lose(d) \/ Double(d) PROVE FifoInv'
  <2>1. BodiesOK'
    BY <1>7 DEF Lose, Double, BagAdd, BagRemove, BagToSet
  <2>. QED  BY <1>7, <2>1, OthersFifo DEF Lose, Double
<1>. QED
  BY <1>1, <1>2, <1>3, <1>4, <1>5, <1>6, <1>7
     DEF Next, ReceiveThread, Broadcast, ClientWrites, SendData, Addresses

LEMMA WrittenOK == Spec => [](written \in [Addresses -> 0 .. MaxWrites])
<1>. DEFINE W == written \in [Addresses -> 0 .. MaxWrites]
<1>1. Init => W
  BY SizesAssumption DEF Init
<1>2. ASSUME W, [Next]_vars PROVE W'
  <2>1. ASSUME NEW a \in Addresses, NEW b, NEW n, Sent(a, b, n) PROVE W'
    BY <1>2, <2>1, SizesAssumption DEF Sent
  <2>2. CASE UNCHANGED written
    BY <1>2, <2>2
  <2>3. \/ UNCHANGED written
        \/ \E a \in Addresses, b \in Addresses, n \in 0 .. MaxLen : Sent(a, b, n)
    BY <1>2 DEF Next, User, StartListening, StartThrows, Stop, JoinReceive, userFrame,
       ReceiveThread, ReceiveLoop, ReceiveNothing, Insert, Handle, Receive, receiveFrame,
       Broadcast, ClientWrites, SendData, Addresses, Lose, Double, vars
  <2>. QED  BY <2>1, <2>2, <2>3
<1>. QED  BY <1>1, <1>2, PTL DEF Spec

(* What the FIFO of an IP address has in order is what the callback was     *)
(* given from there, whichever of its sockets sent it and however the       *)
(* network treats datagrams (udp_client.hpp:211-238).                       *)
THEOREM FifoAgrees == Spec => []CallbackSeesFifo
<1>1. FifoInv => CallbackSeesFifo
  BY DEF FifoInv
<1>2. /\ FifoInv /\ PhaseInv /\ written \in [Addresses -> 0 .. MaxWrites]
      /\ [Next]_vars
      => FifoInv'
  BY StepFifo
<1>. QED  BY <1>1, <1>2, InitFifo, PhaseInvariance, WrittenOK, PTL DEF Spec

-----------------------------------------------------------------------------
(* Echoes.  A datagram of a client carries the client's own bytes, each at  *)
(* its place; what the receive thread has in hand is such a datagram, no    *)
(* longer than the buffer; so is what it echoes, to the one who wrote it.   *)

Genuine(d) == \A i \in DOMAIN d.body : d.body[i][1] = d.from /\ d.body[i][3] = i

Echoed(d) ==
  \A i \in DOMAIN d.body :
    \/ d.body[i][1] = "server"
    \/ d.body[i][1] = d.to /\ d.body[i][3] = i /\ i <= RecvSize

Honest(d) ==
  /\ d \in [from : Addresses, to : Addresses, body : Seq(Byte)]
  /\ IF d.from = "server" THEN d.to # "server" /\ Echoed(d) ELSE Genuine(d)

InHand ==
  rpc \in {"insert", "handle"} =>
    /\ dgram.from \in Addresses \ {"server"}
    /\ Genuine(dgram)
    /\ \A i \in DOMAIN dgram.body : i <= RecvSize

EchoInv == (\A d \in DOMAIN net : Honest(d)) /\ InHand

LEMMA InitEcho == Init => EchoInv
BY DEF Init, EchoInv, InHand, EmptyBag, SetToBag

LEMMA CutElements ==
  ASSUME NEW s \in Seq(Byte), NEW i \in DOMAIN Cut(s, RecvSize)
  PROVE  i \in DOMAIN s /\ Cut(s, RecvSize)[i] = s[i] /\ i <= RecvSize
<1>. DEFINE n == IF Len(s) < RecvSize THEN Len(s) ELSE RecvSize
<1>1. n \in Nat /\ n <= Len(s) /\ n <= RecvSize
  BY SizesAssumption, LenProperties
<1>2. Cut(s, RecvSize) = SubSeq(s, 1, n)
  BY DEF Cut
<1>. HIDE DEF n
<1>3. \A j \in 1 .. n : j \in 1 .. Len(s) /\ s[j] \in Byte
  BY <1>1
<1>4. /\ SubSeq(s, 1, n) \in Seq(Byte) /\ Len(SubSeq(s, 1, n)) = n
      /\ \A j \in 1 .. n : SubSeq(s, 1, n)[j] = s[j]
  BY <1>1, <1>3, SubSeqProperties
<1>5. i \in 1 .. n
  BY <1>2, <1>4, LenProperties
<1>6. DOMAIN s = 1 .. Len(s)
  BY LenProperties
<1>7. i \in DOMAIN s
  BY <1>3, <1>5, <1>6
<1>8. Cut(s, RecvSize)[i] = s[i]
  BY <1>2, <1>4, <1>5
<1>9. i <= RecvSize
  BY <1>1, <1>5, SizesAssumption
<1>. QED  BY <1>7, <1>8, <1>9

LEMMA StepEcho ==
  ASSUME EchoInv, BodiesOK, written \in [Addresses -> 0 .. MaxWrites], [Next]_vars
  PROVE  EchoInv'
<1>1. CASE User \/ JoinReceive \/ UNCHANGED vars
  <2>1. UNCHANGED <<net, dgram>> /\ (rpc' = rpc \/ rpc' \notin {"insert", "handle"})
    BY <1>1 DEF User, StartListening, StartThrows, Stop, JoinReceive, userFrame, netVars, vars,
                serverVars
  <2>. QED  BY <2>1 DEF EchoInv, InHand
<1>2. CASE ReceiveLoop \/ ReceiveNothing
  BY <1>2 DEF ReceiveLoop, ReceiveNothing, receiveFrame, EchoInv, InHand
<1>3. CASE Insert
  BY <1>3 DEF Insert, receiveFrame, EchoInv, InHand
<1>4. CASE Handle
  <2>. DEFINE echo == Datagram("server", dgram.from, dgram.body)
  <2>1. /\ rpc = "handle" /\ rpc' = "loop" /\ UNCHANGED dgram
        /\ net' = net \/ net' = BagAdd(net, echo)
    BY <1>4 DEF Handle, receiveFrame
  <2>2. Honest(echo)
    BY <2>1 DEF EchoInv, BodiesOK, InHand, Genuine, Honest, Echoed, Datagram, Addresses
  <2>3. DOMAIN net' \subseteq DOMAIN net \cup {echo}
    BY <2>1, BagAddDomain
  <2>. QED  BY <2>1, <2>2, <2>3 DEF EchoInv, InHand
<1>5. ASSUME NEW d \in BagToSet(net), Receive(d) PROVE EchoInv'
  <2>1. DOMAIN net' \subseteq DOMAIN net
    BY <1>5 DEF Receive, BagRemove
  <2>2. d \in DOMAIN net /\ d.to = "server" /\ Honest(d)
    BY <1>5 DEF Receive, BagToSet, EchoInv
  <2>3. /\ d \in [from : Addresses, to : Addresses, body : Seq(Byte)]
        /\ d.from # "server" /\ Genuine(d)
    BY <2>2 DEF Honest
  <2>4. CASE d.body = <<>>
    BY <1>5, <2>1, <2>4 DEF Receive, EchoInv, InHand
  <2>5. CASE d.body # <<>>
    <3>1. dgram' = [d EXCEPT !.body = Cut(d.body, RecvSize)]
      BY <1>5, <2>5 DEF Receive
    <3>2. dgram'.from = d.from /\ dgram'.body = Cut(d.body, RecvSize)
      BY <2>3, <3>1
    <3>. QED  BY <2>1, <2>2, <2>3, <3>2, CutElements DEF EchoInv, InHand, Genuine
  <2>. QED  BY <2>4, <2>5
<1>6. ASSUME NEW a \in Addresses, NEW b \in Addresses, NEW n \in 0 .. MaxLen,
             a = "server" => b # "server", Sent(a, b, n), UNCHANGED serverVars
      PROVE EchoInv'
  <2>. DEFINE d == Datagram(a, b, Body(a, written[a] + 1, n))
  <2>1. Honest(d)
    <3>1. Body(a, written[a] + 1, n) \in Seq(Byte)
      BY <1>6, SizesAssumption, BodyBytes DEF Sent
    <3>. QED  BY <1>6, <3>1, SizesAssumption DEF Honest, Genuine, Echoed, Datagram, Body
  <2>2. DOMAIN net' = DOMAIN net \cup {d}
    BY <1>6, BagAddDomain DEF Sent
  <2>. QED  BY <1>6, <2>1, <2>2 DEF EchoInv, InHand, serverVars
<1>7. ASSUME NEW d \in BagToSet(net), Lose(d) \/ Double(d) PROVE EchoInv'
  <2>1. DOMAIN net' \subseteq DOMAIN net
    BY <1>7 DEF Lose, Double, BagAdd, BagRemove, BagToSet
  <2>. QED  BY <1>7, <2>1 DEF Lose, Double, EchoInv, InHand, serverVars
<1>. QED
  BY <1>1, <1>2, <1>3, <1>4, <1>5, <1>6, <1>7, ClientsAssumption
     DEF Next, ReceiveThread, Broadcast, ClientWrites, SendData, Addresses

(* An echo goes to the socket that wrote it, no further than the buffer     *)
(* reaches, for any number of sockets at an address and whatever the        *)
(* network does (udp_client.hpp:211-246).                                   *)
THEOREM Echo == Spec => []EchoIsOwn
<1>1. FifoInv => BodiesOK
  BY DEF FifoInv
<1>2. EchoInv => EchoIsOwn
  BY DEF EchoInv, Honest, Echoed, EchoIsOwn, BagToSet
<1>3. /\ FifoInv /\ PhaseInv /\ written \in [Addresses -> 0 .. MaxWrites]
      /\ [Next]_vars
      => FifoInv'
  BY StepFifo
<1>4. EchoInv /\ BodiesOK /\ written \in [Addresses -> 0 .. MaxWrites] /\ [Next]_vars => EchoInv'
  BY StepEcho
<1>. QED  BY <1>1, <1>2, <1>3, <1>4, InitFifo, InitEcho, PhaseInvariance, WrittenOK, PTL DEF Spec

-----------------------------------------------------------------------------
(* Types.                                                                   *)

LEMMA BagAddBag ==
  ASSUME NEW B, IsABag(B), NEW x
  PROVE  IsABag(BagAdd(B, x)) /\ IsABag(BagRemove(B, x))
BY DEF IsABag, BagAdd, BagRemove

PlainTypes ==
  /\ IsABag(net)
  /\ bound \in BOOLEAN /\ m_callback \in BOOLEAN
  /\ m_fd \in {"none", "bound", "stale"}
  /\ rpc \in {"none", "loop", "recv", "insert", "handle", "exited"}

LEMMA InitTypes == Init => PlainTypes
BY DEF Init, PlainTypes, EmptyBag, SetToBag, IsABag

LEMMA StepTypes ==
  ASSUME PlainTypes, [Next]_vars
  PROVE  PlainTypes'
<1>1. CASE User \/ JoinReceive \/ UNCHANGED vars
  BY <1>1 DEF User, StartListening, StartThrows, Stop, JoinReceive, ServerStop, userFrame,
              netVars, serverVars, vars, PlainTypes
<1>2. CASE ReceiveLoop \/ ReceiveNothing \/ Insert
  BY <1>2 DEF ReceiveLoop, ReceiveNothing, Insert, receiveFrame, PlainTypes
<1>3. CASE Handle
  BY <1>3, BagAddBag DEF Handle, receiveFrame, PlainTypes
<1>4. ASSUME NEW d, Receive(d) PROVE PlainTypes'
  BY <1>4, BagAddBag DEF Receive, receiveFrame, PlainTypes
<1>5. ASSUME NEW a, NEW b, NEW n, Sent(a, b, n), UNCHANGED serverVars PROVE PlainTypes'
  BY <1>5, BagAddBag DEF Sent, serverVars, PlainTypes
<1>6. ASSUME NEW d, Lose(d) \/ Double(d) PROVE PlainTypes'
  BY <1>6, BagAddBag DEF Lose, Double, serverVars, PlainTypes
<1>. QED
  BY <1>1, <1>2, <1>3, <1>4, <1>5, <1>6
     DEF Next, ReceiveThread, Broadcast, ClientWrites, SendData

(* Every variable keeps its type, for any number of clients and hosts.      *)
THEOREM TypeCorrect == Spec => []TypeOK
<1>1. PlainTypes /\ PhaseInv /\ FifoInv /\ EchoInv => TypeOK
  BY DEF PlainTypes, PhaseInv, FifoInv, BodiesOK, EchoInv, Honest, TypeOK, BagToSet
<1>2. /\ FifoInv /\ PhaseInv /\ written \in [Addresses -> 0 .. MaxWrites]
      /\ [Next]_vars
      => FifoInv'
  BY StepFifo
<1>3. /\ EchoInv /\ FifoInv /\ written \in [Addresses -> 0 .. MaxWrites]
      /\ [Next]_vars
      => EchoInv'
  BY StepEcho DEF FifoInv
<1>4. PlainTypes /\ [Next]_vars => PlainTypes'
  BY StepTypes
<1>. QED  BY <1>1, <1>2, <1>3, <1>4, InitFifo, InitEcho, InitTypes, PhaseInvariance, WrittenOK, PTL
             DEF Spec
=============================================================================
