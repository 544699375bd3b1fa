-------------------------- MODULE TCPServerMessages --------------------------
(***************************************************************************)
(* Proofs about send_data of TCPServer, for any number of connections,     *)
(* descriptors and application threads: a message goes to the client that  *)
(* the caller meant, and the mutex it is sent under is held by nobody else.*)
(*                                                                         *)
(* send_data holds a descriptor, not a client.  Its client may go, and the *)
(* number be given to the next one, before it is used.  But before stop()  *)
(* no thread is joined, so m_threads[fd] is the first client for ever, and *)
(* the accept thread ends the process where it would start the handler of  *)
(* a second one (tcp_client.hpp:429).  The only other client that a        *)
(* message can reach is one that has been accepted and not yet been given  *)
(* its handler, and it never will be.                                      *)
(***************************************************************************)
EXTENDS TCPServerProofs

Holding == {"register", "spawn"}

(* m_threads never forgets a client that had a handler.                     *)
FirstForEver == ~stopped => \A c \in Conns : hpc[c] # "none" => m_threads[cfd[c]] = c

(* A descriptor stands for the client of its handler or for the one that    *)
(* the accept thread holds.                                                 *)
DescOwner ==
  \A f \in Fds : desc[f] \in Conns =>
    IF hpc[desc[f]] = "none" THEN apc \in Holding /\ acc = f ELSE cfd[desc[f]] = f

(* What send_data was called with.                                          *)
CallMeans == \A s \in Senders : spc[s] # "idle" => hpc[sto[s]] # "none" /\ cfd[sto[s]] = sfd[s]

(* A client that got a message before it had its handler never gets one.    *)
ReachedEarly ==
  ~stopped => \A c \in Conns : hpc[c] = "none" /\ delivered[c] # {} =>
    apc \in Holding /\ desc[acc] = c /\ Joinable(acc)

ReachedRightly == ~stopped => \A c \in Conns : hpc[c] # "none" => delivered[c] \subseteq {c}

HeldBySender == \A f \in Fds, s \in Senders : lock[f] = s <=> spc[s] = "send" /\ sfd[s] = f

MsgInv ==
  FirstForEver /\ DescOwner /\ CallMeans /\ ReachedEarly /\ ReachedRightly /\ HeldBySender

LEMMA InitMsg == Init => MsgInv
BY ThreadsAssumption, ConnsAssumption
   DEF Init, SockInit, MsgInv, FirstForEver, DescOwner, CallMeans, ReachedEarly,
       ReachedRightly, HeldBySender, NotConns

-----------------------------------------------------------------------------
(* The steps that send nothing and hand no connection on.                   *)

SilentStep ==
  /\ \A f \in Fds : desc'[f] \in Conns => desc'[f] = desc[f]
  /\ \A c \in Conns : hpc'[c] = "none" <=> hpc[c] = "none"
  /\ apc \in Holding => apc' \in Holding
  /\ ~stopped' => ~stopped /\ UNCHANGED m_threads
  /\ UNCHANGED <<cfd, acc, lock, spc, sfd, sto, delivered>>

LEMMA SilentMsg ==
  ASSUME TypeOK, Ownership', MsgInv, SilentStep
  PROVE  MsgInv'
<1>. USE DEF MsgInv, SilentStep
<1>1. FirstForEver'
  BY DEF FirstForEver
<1>2. DescOwner'
  BY DEF DescOwner
<1>3. CallMeans'
  BY DEF CallMeans, TypeOK, SendTypeOK
<1>4. ReachedEarly'
  <2>1. apc' \in Holding => acc' \in Fds /\ desc'[acc'] \in Conns
    BY DEF Ownership, AccOwned, Holding
  <2>. QED  BY <2>1 DEF ReachedEarly, Joinable
<1>5. ReachedRightly'
  BY DEF ReachedRightly
<1>6. HeldBySender'
  BY DEF HeldBySender
<1>. QED  BY <1>1, <1>2, <1>3, <1>4, <1>5, <1>6

LEMMA UserSilent ==
  ASSUME IInv, PhaseInv, User \/ Joins
  PROVE  SilentStep
<1>. USE DEF SilentStep, userFrame, userVars, acceptVars, handlerVars, sendVars, sockVars
<1>0. \A c \in Conns : c \notin NotConns
  BY ConnsAssumption
<1>1. CASE StartListening
  BY <1>0, <1>1 DEF StartListening, LowestFree, FreeFds, IInv, TypeOK, SockTypeOK, NotConns,
                    PhaseInv, AcceptOver, Holding
<1>2. CASE StartThrows
  BY <1>0, <1>2 DEF StartThrows, LowestFree, FreeFds, IInv, TypeOK, SockTypeOK, NotConns
<1>3. CASE Stop
  BY <1>3 DEF Stop
<1>4. CASE Destroy
  BY <1>4 DEF Destroy
<1>5. ASSUME NEW f \in Fds, JoinHandler(f) PROVE SilentStep
  BY <1>5 DEF JoinHandler, IInv, Registration, NothingJoined
<1>6. CASE JoinedHandlers
  BY <1>6 DEF JoinedHandlers
<1>7. CASE JoinAccept
  BY <1>7 DEF JoinAccept, ServerStop, PhaseInv, StopHasBegun, Holding
<1>. QED  BY <1>1, <1>2, <1>3, <1>4, <1>5, <1>6, <1>7 DEF User, Joins

LEMMA OthersSilent ==
  ASSUME TypeOK,
         \/ \E r \in Readers : Reader(r)
         \/ \E c \in Conns : Peer(c) /\ UNCHANGED serverVars
         \/ \E c \in Conns : Handler(c)
         \/ ~Spawn /\ ~AcceptConn /\ Accept
         \/ Spawn /\ Joinable(acc)
         \/ UNCHANGED vars
  PROVE  SilentStep
<1>. USE DEF SilentStep, userVars, acceptVars, handlerVars, sendVars
<1>0. \A c \in Conns : c \notin NotConns
  BY ConnsAssumption
<1>1. ASSUME NEW r \in Readers, Reader(r) PROVE SilentStep
  <2>1. CASE ReadCall(r)
    BY <2>1 DEF ReadCall, readFrame, sockVars
  <2>2. CASE ReadAvail(r) \/ ReadPoll(r) \/ ReadMin(r)
    BY <2>2 DEF ReadAvail, ReadPoll, ReadMin, readFrame, sockVars
  <2>3. CASE ReadCopy(r)
    BY <2>3 DEF ReadCopy, readFrame, sockVars
  <2>4. ASSUME NEW f \in Fds, ClearFifo(r, f) PROVE SilentStep
    BY <2>4 DEF ClearFifo, readFrame, sockVars
  <2>. HIDE DEF SilentStep
  <2>. QED  BY <1>1, <2>1, <2>2, <2>3, <2>4 DEF Reader, ReadStep
<1>2. ASSUME NEW c \in Conns, Peer(c), UNCHANGED serverVars PROVE SilentStep
  BY <1>2 DEF serverVars, Peer, Connect, PeerSend, PeerRead, PeerClose, PeerReset
<1>3. ASSUME NEW c \in Conns, Handler(c) PROVE SilentStep
  <2>1. CASE Close(c)
    <3>1. hpc[c] = "close" /\ hpc' = [hpc EXCEPT ![c] = "erase"] /\ desc' = [desc EXCEPT ![cfd[c]] = "free"]
      BY <2>1 DEF Close, CloseDesc
    <3>2. \A f \in Fds : desc'[f] \in Conns => desc'[f] = desc[f]
      BY <1>0, <3>1 DEF TypeOK, SockTypeOK, NotConns
    <3>3. \A d \in Conns : hpc'[d] = "none" <=> hpc[d] = "none"
      BY <3>1 DEF TypeOK, HandlerTypeOK
    <3>. QED  BY <2>1, <3>2, <3>3 DEF Close, handlerFrame
  <2>2. CASE ~Close(c)
    <3>1. /\ hpc[c] # "none"
          /\ \E pc \in Live \cup {"done"} : hpc' = [hpc EXCEPT ![c] = pc]
      BY <1>3, <2>2 DEF Handler, HandlerLoop, RecvData, RecvEnd, Insert, Callback, Erase,
                        Live, Serving
    <3>2. UNCHANGED <<desc, apc, acc, cfd, m_threads, stopped, lock, spc, sfd, sto, delivered>>
      BY <1>3, <2>2 DEF Handler, HandlerLoop, RecvData, RecvEnd, Insert, Callback, Erase,
                        handlerFrame
    <3>3. \A d \in Conns : hpc'[d] = "none" <=> hpc[d] = "none"
      BY <3>1 DEF TypeOK, HandlerTypeOK, Live, Serving
    <3>. QED  BY <3>2, <3>3
  <2>. QED  BY <2>1, <2>2
<1>4. CASE ~Spawn /\ ~AcceptConn /\ Accept
  BY <1>4 DEF Accept, AcceptLoop, AcceptAgain, AcceptFails, Register, NewClientCallback,
              acceptFrame, Holding
<1>5. CASE Spawn /\ Joinable(acc)
  BY <1>5 DEF Spawn, NewClient, acceptFrame
<1>6. CASE UNCHANGED vars
  BY <1>6 DEF vars, sockVars
<1>. QED  BY <1>1, <1>2, <1>3, <1>4, <1>5, <1>6

-----------------------------------------------------------------------------
(* The accept thread takes a connection, and gives it its handler.          *)

LEMMA AcceptConnMsg ==
  ASSUME TypeOK, Ownership, MsgInv, AcceptConn
  PROVE  MsgInv'
<1>. USE DEF MsgInv, acceptFrame, sendVars
<1>. DEFINE h == Head(backlog)
<1>0. PICK f \in Fds : LowestFree(f) /\ desc' = [desc EXCEPT ![f] = h] /\ acc' = f
  BY DEF AcceptConn
<1>1. /\ desc'[f] = h
      /\ \A g \in Fds : g # f => desc'[g] = desc[g]
      /\ h \in Conns /\ hpc[h] = "none"
      /\ apc = "accept" /\ apc' = "register"
      /\ UNCHANGED <<hpc, cfd, m_threads, stopped, lock, spc, sfd, sto, delivered>>
  BY <1>0, TailFacts DEF AcceptConn, Ownership, Fresh, TypeOK, SockTypeOK
<1>. HIDE DEF h
<1>2. FirstForEver' /\ CallMeans' /\ ReachedRightly' /\ HeldBySender'
  BY <1>1 DEF FirstForEver, CallMeans, ReachedRightly, HeldBySender
<1>3. DescOwner'
  BY <1>0, <1>1 DEF DescOwner, Holding
<1>4. ReachedEarly'
  BY <1>1 DEF ReachedEarly, Holding
<1>. QED  BY <1>2, <1>3, <1>4

LEMMA SpawnMsg ==
  ASSUME TypeOK, Ownership, MsgInv, Spawn, ~Joinable(acc)
  PROVE  MsgInv'
<1>. USE DEF MsgInv
<1>. DEFINE d == desc[acc]
<1>1. /\ acc \in Fds /\ d \in Conns /\ hpc[d] = "none"
      /\ m_threads'[acc] = d
      /\ \A f \in Fds : f # acc => m_threads'[f] = m_threads[f]
      /\ hpc'[d] = "loop" /\ cfd'[d] = acc
      /\ \A c \in Conns : c # d => hpc'[c] = hpc[c] /\ cfd'[c] = cfd[c]
      /\ UNCHANGED <<desc, stopped, lock, spc, sfd, sto, delivered>>
  BY DEF Spawn, NewClient, Ownership, AccOwned, TypeOK, ServerTypeOK, HandlerTypeOK,
         acceptFrame, sendVars
<1>1a. desc[acc] = d /\ \A f \in Fds : desc[f] = d => f = acc
  BY <1>1 DEF Ownership, DescUnique
<1>. HIDE DEF d
<1>2. FirstForEver'
  <2>1. ASSUME ~stopped, NEW c \in Conns, c # d, hpc[c] # "none"
        PROVE  cfd[c] \in Fds /\ cfd[c] # acc
    BY <2>1 DEF FirstForEver, Joinable, Ownership, HandlerHasFd
  <2>. QED  BY <1>1, <2>1 DEF FirstForEver
<1>3. DescOwner'
  BY <1>1, <1>1a DEF DescOwner
<1>4. CallMeans'
  <2>1. ASSUME NEW s \in Senders, spc[s] # "idle" PROVE sto[s] \in Conns /\ sto[s] # d
    BY <1>1, <2>1 DEF CallMeans, TypeOK, SendTypeOK
  <2>. QED  BY <1>1, <2>1 DEF CallMeans
<1>5. ~stopped => \A c \in Conns : hpc[c] = "none" => delivered[c] = {}
  BY DEF ReachedEarly
<1>6. ReachedEarly' /\ ReachedRightly'
  BY <1>1, <1>5 DEF ReachedEarly, ReachedRightly
<1>7. HeldBySender'
  BY <1>1 DEF HeldBySender
<1>. QED  BY <1>2, <1>3, <1>4, <1>6, <1>7

-----------------------------------------------------------------------------
(* The senders.                                                             *)

(* A descriptor that send_data still holds is that of the client it means,  *)
(* or of one that will have no handler.                                     *)
LEMMA SendTarget ==
  ASSUME TypeOK, MsgInv, NEW s \in Senders, spc[s] = "send", ~stopped,
         desc[sfd[s]] \in Conns
  PROVE  LET k == desc[sfd[s]] IN
           IF hpc[k] = "none" THEN apc \in Holding /\ acc = sfd[s] /\ Joinable(acc)
           ELSE k = sto[s]
<1>. DEFINE k == desc[sfd[s]]
<1>1. /\ sfd[s] \in Fds /\ sto[s] \in Conns /\ k \in Conns
      /\ cfd[sto[s]] = sfd[s] /\ m_threads[sfd[s]] = sto[s]
  BY DEF TypeOK, SendTypeOK, MsgInv, CallMeans, FirstForEver
<1>2. CASE hpc[k] = "none"
  BY <1>1, <1>2 DEF MsgInv, DescOwner, Joinable
<1>3. CASE hpc[k] # "none"
  BY <1>1, <1>3 DEF MsgInv, DescOwner, FirstForEver
<1>. QED  BY <1>2, <1>3

LEMMA SenderMsg ==
  ASSUME TypeOK, MsgInv, NEW s \in Senders, Sender(s)
  PROVE  MsgInv'
<1>. USE DEF MsgInv
<1>0. "free" \notin Senders
  BY ThreadsAssumption
<1>1. /\ UNCHANGED <<desc, apc, acc, hpc, cfd, m_threads, stopped>>
      /\ UNCHANGED delivered \/ SendData(s)
  BY DEF Sender, SendStep, SendCall, SendLock, SendData, SendToClosed, SendToReset,
         SendToNone, SendReturns, sendFrame, userVars, acceptVars, handlerVars
<1>2. FirstForEver' /\ DescOwner'
  BY <1>1 DEF FirstForEver, DescOwner
<1>3. \/ /\ spc[s] = "idle" /\ spc' = [spc EXCEPT ![s] = "lock"] /\ UNCHANGED lock
         /\ \E c \in Conns : /\ hpc[c] # "none"
                             /\ sfd' = [sfd EXCEPT ![s] = cfd[c]]
                             /\ sto' = [sto EXCEPT ![s] = c]
      \/ /\ spc[s] = "lock" /\ spc' = [spc EXCEPT ![s] = "send"]
         /\ lock[sfd[s]] = "free" /\ lock' = [lock EXCEPT ![sfd[s]] = s]
         /\ UNCHANGED <<sfd, sto>>
      \/ /\ spc[s] = "send" /\ spc' = [spc EXCEPT ![s] = "idle"]
         /\ lock' = [lock EXCEPT ![sfd[s]] = "free"]
         /\ sfd' = [sfd EXCEPT ![s] = INVALID_SOCKET]
         /\ sto' = [sto EXCEPT ![s] = "none"]
  BY DEF Sender, SendStep, SendCall, SendLock, SendData, SendToClosed, SendToReset,
         SendToNone, SendReturns
<1>4. CallMeans'
  BY <1>1, <1>3 DEF CallMeans, TypeOK, SendTypeOK
<1>5. HeldBySender'
  <2>1. /\ spc[s] # "idle" => sfd[s] \in Fds
        /\ \A r \in Senders : r # s => spc'[r] = spc[r] /\ sfd'[r] = sfd[r]
    BY <1>3 DEF TypeOK, SendTypeOK
  <2>2. CASE spc[s] = "idle"
    BY <1>3, <2>1, <2>2 DEF HeldBySender, TypeOK, SendTypeOK
  <2>3. CASE spc[s] = "lock"
    <3>1. /\ spc'[s] = "send" /\ sfd'[s] = sfd[s]
          /\ lock[sfd[s]] = "free" /\ lock'[sfd[s]] = s
          /\ \A f \in Fds : f # sfd[s] => lock'[f] = lock[f]
      BY <1>3, <2>1, <2>3 DEF TypeOK, SendTypeOK, ServerTypeOK
    <3>. QED  BY <1>0, <2>1, <2>3, <3>1 DEF HeldBySender
  <2>4. CASE spc[s] = "send"
    <3>1. /\ spc'[s] = "idle"
          /\ lock[sfd[s]] = s /\ lock'[sfd[s]] = "free"
          /\ \A f \in Fds : f # sfd[s] => lock'[f] = lock[f]
      BY <1>3, <2>1, <2>4 DEF HeldBySender, TypeOK, SendTypeOK, ServerTypeOK
    <3>. QED  BY <1>0, <2>1, <2>4, <3>1 DEF HeldBySender
  <2>. QED  BY <1>3, <2>2, <2>3, <2>4
<1>6. ReachedEarly' /\ ReachedRightly'
  <2>1. CASE UNCHANGED delivered
    BY <1>1, <2>1 DEF ReachedEarly, ReachedRightly, Joinable
  <2>2. CASE SendData(s) /\ ~stopped
    <3>. DEFINE k == desc[sfd[s]]
    <3>1. /\ spc[s] = "send" /\ k \in Conns
          /\ delivered'[k] = delivered[k] \cup {sto[s]}
          /\ \A c \in Conns : c # k => delivered'[c] = delivered[c]
      BY <2>2 DEF SendData, SendReturns, TypeOK, SendTypeOK
    <3>2. IF hpc[k] = "none" THEN apc \in Holding /\ acc = sfd[s] /\ Joinable(acc)
          ELSE k = sto[s]
      BY <2>2, <3>1, SendTarget
    <3>3. ReachedEarly'
      BY <1>1, <3>1, <3>2 DEF ReachedEarly, Joinable
    <3>4. ReachedRightly'
      BY <1>1, <3>1, <3>2 DEF ReachedRightly
    <3>. QED  BY <3>3, <3>4
  <2>3. CASE stopped
    BY <1>1, <2>3 DEF ReachedEarly, ReachedRightly
  <2>. QED  BY <1>1, <2>1, <2>2, <2>3
<1>. QED  BY <1>2, <1>4, <1>5, <1>6

-----------------------------------------------------------------------------
(* The theorems.                                                            *)

LEMMA MsgStep ==
  ASSUME IInv, IInv', PhaseInv, MsgInv, [Next]_vars
  PROVE  MsgInv'
<1>. USE DEF IInv
<1>1. CASE User \/ Joins
  BY <1>1, UserSilent, SilentMsg
<1>2. CASE Accept
  BY <1>2, OthersSilent, SilentMsg, AcceptConnMsg, SpawnMsg
<1>3. CASE \/ \E c \in Conns : Handler(c)
           \/ \E r \in Readers : Reader(r)
           \/ \E c \in Conns : Peer(c) /\ UNCHANGED serverVars
           \/ UNCHANGED vars
  BY <1>3, OthersSilent, SilentMsg
<1>4. CASE \E s \in Senders : Sender(s)
  BY <1>4, SenderMsg
<1>. QED  BY <1>1, <1>2, <1>3, <1>4 DEF Next

LEMMA MsgInvariance == Spec => []MsgInv
<1>1. IInv /\ IInv' /\ PhaseInv /\ MsgInv /\ [Next]_vars => MsgInv'
  BY MsgStep
<1>. QED  BY InitMsg, Invariance, PhaseInvariance, <1>1, PTL DEF Spec

(* Until stop() is called, a client that has its handler got no message     *)
(* that was meant for another (tcp_client.hpp:109-114, 429).                *)
THEOREM Delivery == Spec => []NoMisdelivery
<1>1. MsgInv => NoMisdelivery
  BY DEF MsgInv, ReachedRightly, NoMisdelivery
<1>. QED  BY <1>1, MsgInvariance, PTL

(* The mutex of a descriptor is held by the one send_data that is inside    *)
(* send() on it, also when the descriptor changes hands meanwhile           *)
(* (tcp_client.hpp:112-113).                                                *)
THEOREM MutexOfSender == Spec => []LockHeldBySender
<1>1. MsgInv => LockHeldBySender
  BY DEF MsgInv, HeldBySender, LockHeldBySender
<1>. QED  BY <1>1, MsgInvariance, PTL

=============================================================================
