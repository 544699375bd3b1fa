----------------------------- MODULE TCPServer -----------------------------
(***************************************************************************)
(* Communication::TCPServer (src/include/tcp_client.hpp) on top of         *)
(* Communication::Server (src/include/com_client.hpp): a thread that       *)
(* accepts connections, one thread per client that moves what it receives  *)
(* into the client's FIFO, and the application's threads that start and    *)
(* stop the server, read the FIFOs and send.                               *)
(*                                                                         *)
(* Each thread has a program counter.  A step is one system call, one      *)
(* critical section of m_mutexes[fd], or one access to state that other    *)
(* threads use without a lock.  What the C++ language leaves undefined,    *)
(* std::terminate and SIGPIPE end the process: proc says how.              *)
(*                                                                         *)
(* A definition marked "Slip" is no part of the model: it is the next one  *)
(* with a mistake in it, by which some property must fail (PROJECT.json    *)
(* says which).                                                            *)
(***************************************************************************)
EXTENDS Sockets, TaggedBytes

CONSTANTS
  Readers,    \* application threads that call read_byte and clear_fifo
  Senders,    \* application threads that call send_data
  RecvSize,   \* size of the receive buffer of handle_client (1024 in the code)
  MaxWant     \* bound: the largest size asked of read_byte

ASSUME ThreadsAssumption == "free" \notin Senders
ASSUME ServerBounds == RecvSize \in Nat \ {0} /\ MaxWant \in Nat

VARIABLES
  proc,         \* "up", or how the process ended
  m_is_running, m_fd, m_clients, m_fifos,
  m_threads,    \* per key: "none", the connection whose thread it holds, or
                \* "joined"; a std::thread is joinable iff it holds one
  lock,         \* m_mutexes: the sender holding it across send(), or "free"
  upc, todo,    \* the thread in start()/stop(); map entries stop() has to visit
  stopped,      \* history: stop() has been called
  apc, acc,     \* the accept thread and its local client_socket
  hpc, cfd, chunk,  \* the handler of each connection: its client_socket, buffer
  called,       \* history: bytes given to m_callback, per connection
  rpc, rcall, rsize, \* read_byte calls: their arguments and the local size
  taken,        \* history: bytes taken out of the FIFOs, in order
  spc, sfd, sto,    \* send_data calls: the descriptor, the client it means
  delivered     \* history: for whom the messages sent to a connection were

userVars == <<upc, todo, stopped>>
acceptVars == <<apc, acc>>
handlerVars == <<hpc, cfd, chunk, called>>
readVars == <<rpc, rcall, rsize, taken>>
sendVars == <<spc, sfd, sto, delivered>>
vars == <<sockVars, proc, m_is_running, m_fd, m_clients, m_fifos, m_threads,
          lock, userVars, acceptVars, handlerVars, readVars, sendVars>>

INVALID_SOCKET == -1
ReadCalls == [fd : Fds \cup {INVALID_SOCKET}, want : 0 .. MaxWant,
              blocking : BOOLEAN, erase : BOOLEAN]
NoCall == [fd |-> INVALID_SOCKET, want |-> 0, blocking |-> FALSE, erase |-> TRUE]

Init ==
  /\ SockInit
  /\ proc = "up"
  /\ m_is_running = FALSE
  /\ m_fd = INVALID_SOCKET
  /\ m_clients = {}
  /\ m_fifos = [f \in Fds |-> <<>>]
  /\ m_threads = [f \in Fds |-> "none"]
  /\ lock = [f \in Fds |-> "free"]
  /\ upc = "idle" /\ todo = {} /\ stopped = FALSE
  /\ apc = "none" /\ acc = INVALID_SOCKET
  /\ hpc = [c \in Conns |-> "none"]
  /\ cfd = [c \in Conns |-> INVALID_SOCKET]
  /\ chunk = [c \in Conns |-> <<>>]
  /\ called = [c \in Conns |-> <<>>]
  /\ rpc = [r \in Readers |-> "idle"]
  /\ rcall = [r \in Readers |-> NoCall]
  /\ rsize = [r \in Readers |-> 0]
  /\ taken = <<>>
  /\ spc = [s \in Senders |-> "idle"]
  /\ sfd = [s \in Senders |-> INVALID_SOCKET]
  /\ sto = [s \in Senders |-> "none"]
  /\ delivered = [c \in Conns |-> {}]

(* Slip: the threads are detached.                                          *)
NeverJoinable(f) == FALSE

Joinable(f) == m_threads[f] \in Conns

-----------------------------------------------------------------------------
(* start() and stop(), called by one application thread.                    *)

userFrame == <<handlerVars, readVars, sendVars, m_clients, m_fifos, lock,
               acc>>

(* Server::start and a listen_for_connections that succeeds.  bind() fails  *)
(* while a socket of the process still listens on the port.                 *)
StartListening ==
  /\ upc = "idle" /\ ~m_is_running /\ ~Listening
  /\ \E f \in Fds :
       /\ LowestFree(f)
       /\ desc' = [desc EXCEPT ![f] = "listen"]
       /\ m_fd' = f
  /\ m_is_running' = TRUE
  /\ apc' = "loop"
  /\ proc' = IF apc = "none" THEN proc ELSE "terminated"
  /\ UNCHANGED <<userFrame, userVars, backlog, cstate, kbuf, sent, out, m_threads>>

(* Server::start and a listen_for_connections that throws: m_is_running is  *)
(* already set.  A failed TCP_NODELAY or TCP_QUICKACK leaves m_fd open.     *)
StartThrows ==
  /\ upc = "idle" /\ ~m_is_running
  /\ m_is_running' = TRUE
  /\ \/ FreeFds = {} /\ m_fd' = INVALID_SOCKET /\ UNCHANGED desc
     \/ \E f \in Fds :
          /\ LowestFree(f)
          /\ m_fd' = f
          /\ desc' \in {desc, [desc EXCEPT ![f] = "socket"]}
  /\ UNCHANGED <<userFrame, userVars, backlog, cstate, kbuf, sent, out, proc, m_threads, apc>>

(* Slip: m_is_running is only reset when the threads have ended.            *)
StopResetsLate ==
  /\ upc = "idle" /\ m_is_running
  /\ stopped' = TRUE
  /\ upc' = "joining"
  /\ todo' = {f \in Fds : m_threads[f] # "none"}
  /\ UNCHANGED <<userFrame, sockVars, proc, m_is_running, m_fd, m_threads, apc>>

(* TCPServer::stop up to its first join.                                    *)
Stop ==
  /\ upc = "idle" /\ m_is_running
  /\ m_is_running' = FALSE
  /\ stopped' = TRUE
  /\ upc' = "joining"
  /\ todo' = {f \in Fds : m_threads[f] # "none"}
  /\ UNCHANGED <<userFrame, sockVars, proc, m_fd, m_threads, apc>>

(* Slip: detach() for join().                                               *)
DetachHandler(f) ==
  /\ upc = "joining" /\ f \in todo
  /\ m_threads' = [m_threads EXCEPT ![f] = "joined"]
  /\ todo' = todo \ {f}
  /\ UNCHANGED <<userFrame, sockVars, proc, m_is_running, m_fd, upc, stopped, apc>>

(* One turn of the loop over m_threads: join() waits for the handler.       *)
JoinHandler(f) ==
  /\ upc = "joining" /\ f \in todo
  /\ Joinable(f) => hpc[m_threads[f]] = "done"
  /\ m_threads' = [m_threads EXCEPT ![f] = "joined"]
  /\ todo' = todo \ {f}
  /\ UNCHANGED <<userFrame, sockVars, proc, m_is_running, m_fd, upc, stopped, apc>>

JoinedHandlers ==
  /\ upc = "joining" /\ todo = {}
  /\ upc' = "joinAccept"
  /\ UNCHANGED <<userFrame, sockVars, proc, m_is_running, m_fd, m_threads, todo, stopped, apc>>

(* Server::stop, called last by TCPServer::stop: it returns at once when    *)
(* m_is_running is already false.                                           *)
ServerStop ==
  IF m_is_running
  THEN /\ m_is_running' = FALSE
       /\ m_fd' = INVALID_SOCKET
       /\ IF m_fd \in Fds THEN CloseDesc(m_fd) ELSE UNCHANGED sockVars
  ELSE UNCHANGED <<sockVars, m_is_running, m_fd>>

(* Slip: the accept thread is not joined.                                   *)
LeaveAccept ==
  /\ upc = "joinAccept"
  /\ upc' = "idle"
  /\ ServerStop
  /\ UNCHANGED <<userFrame, proc, m_threads, todo, stopped, apc>>

JoinAccept ==
  /\ upc = "joinAccept" /\ apc \in {"none", "exited"}
  /\ apc' = "none"
  /\ upc' = "idle"
  /\ ServerStop
  /\ UNCHANGED <<userFrame, proc, m_threads, todo, stopped>>

(* ~TCPServer once its stop() has returned, nobody using the server.  The   *)
(* destructor of a joinable std::thread calls std::terminate.               *)
Destroy ==
  /\ upc = "idle" /\ ~m_is_running
  /\ \A r \in Readers : rpc[r] = "idle"
  /\ \A s \in Senders : spc[s] = "idle"
  /\ proc' = IF apc # "none" \/ \E f \in Fds : Joinable(f)
             THEN "terminated" ELSE "destroyed"
  /\ UNCHANGED <<userFrame, userVars, sockVars, m_is_running, m_fd, m_threads, apc>>

-----------------------------------------------------------------------------
(* accept_connections.                                                      *)

acceptFrame == <<readVars, sendVars, m_is_running, m_fd, lock, upc, stopped,
                 chunk, called, kbuf, sent, out>>

AcceptLoop ==
  /\ apc = "loop"
  /\ apc' = IF m_is_running THEN "accept" ELSE "exited"
  /\ UNCHANGED <<acceptFrame, desc, backlog, cstate, proc, m_clients, m_fifos, m_threads, todo, acc, hpc, cfd>>

AcceptConn ==
  /\ apc = "accept" /\ m_fd \in Fds /\ desc[m_fd] = "listen" /\ backlog # <<>>
  /\ \E f \in Fds :
       /\ LowestFree(f)
       /\ desc' = [desc EXCEPT ![f] = Head(backlog)]
       /\ acc' = f
  /\ backlog' = Tail(backlog)
  /\ apc' = "register"
  /\ UNCHANGED <<acceptFrame, cstate, proc, m_clients, m_fifos, m_threads, todo, hpc, cfd>>

(* EAGAIN: nobody is waiting.                                               *)
AcceptAgain ==
  /\ apc = "accept" /\ m_fd \in Fds /\ desc[m_fd] = "listen" /\ backlog = <<>>
  /\ FreeFds # {}
  /\ apc' = "loop"
  /\ UNCHANGED <<acceptFrame, desc, backlog, cstate, proc, m_clients, m_fifos, m_threads, todo, acc, hpc, cfd>>

(* Any other error leaves the loop for good: EMFILE when the table is full  *)
(* (asked for before the queue is looked at), ECONNABORTED for a connection *)
(* reset while it waited.                                                   *)
AcceptFails ==
  /\ apc = "accept"
  /\ \/ /\ FreeFds = {} \/ m_fd \notin Fds \/ desc[m_fd] # "listen"
        /\ UNCHANGED <<backlog, cstate>>
     \/ /\ backlog # <<>> /\ cstate[Head(backlog)] = "rst"
        /\ backlog' = Tail(backlog)
        /\ cstate' = [cstate EXCEPT ![Head(backlog)] = "closed"]
  /\ apc' = "exited"
  /\ UNCHANGED <<acceptFrame, desc, proc, m_clients, m_fifos, m_threads, todo, acc, hpc, cfd>>

(* Slip: a descriptor already in m_clients is not served again.             *)
RegisterNew ==
  /\ apc = "register"
  /\ m_clients' = m_clients \cup {acc}
  /\ m_fifos' = [m_fifos EXCEPT ![acc] = <<>>]
  /\ apc' = IF acc \in m_clients THEN "loop" ELSE "spawn"
  /\ UNCHANGED <<acceptFrame, desc, backlog, cstate, proc, m_threads, todo, acc, hpc, cfd>>

Register ==
  /\ apc = "register"
  /\ m_clients' = m_clients \cup {acc}
  /\ m_fifos' = [m_fifos EXCEPT ![acc] = <<>>]
  /\ apc' = "spawn"
  /\ UNCHANGED <<acceptFrame, desc, backlog, cstate, proc, m_threads, todo, acc, hpc, cfd>>

NewClient == desc[acc]

(* m_threads[client_socket] = std::thread(...).  Assigning to a joinable    *)
(* std::thread calls std::terminate.  A key that is new while stop() walks  *)
(* over m_threads may land before or behind its iterator.                   *)
Spawn ==
  /\ apc = "spawn"
  /\ IF Joinable(acc)
     THEN /\ proc' = "terminated"
          /\ UNCHANGED <<m_threads, todo, apc, hpc, cfd>>
     ELSE /\ m_threads' = [m_threads EXCEPT ![acc] = NewClient]
          /\ hpc' = [hpc EXCEPT ![NewClient] = "loop"]
          /\ cfd' = [cfd EXCEPT ![NewClient] = acc]
          /\ todo' \in IF upc = "joining" /\ m_threads[acc] = "none"
                       THEN {todo, todo \cup {acc}} ELSE {todo}
          /\ apc' = "callback"
          /\ UNCHANGED proc
  /\ UNCHANGED <<acceptFrame, desc, backlog, cstate, m_clients, m_fifos, acc>>

(* m_callback_newClient: the handler already runs.                          *)
NewClientCallback ==
  /\ apc = "callback"
  /\ apc' = "loop"
  /\ UNCHANGED <<acceptFrame, desc, backlog, cstate, proc, m_clients, m_fifos, m_threads, todo, acc, hpc, cfd>>

-----------------------------------------------------------------------------
(* handle_client, for connection c.                                         *)

handlerFrame == <<userVars, acceptVars, readVars, sendVars, m_is_running,
                  m_fd, m_threads, lock, cfd, sent, out>>

HandlerLoop(c) ==
  /\ hpc[c] = "loop"
  /\ hpc' = [hpc EXCEPT ![c] = IF m_is_running THEN "recv" ELSE "close"]
  /\ UNCHANGED <<handlerFrame, desc, backlog, cstate, kbuf, proc, m_clients, m_fifos, chunk, called>>

(* recv() blocks until there is something to return: bytes first, and then  *)
(* 0 or an error.                                                           *)
RecvData(c) ==
  LET k == desc[cfd[c]]
      n == IF Len(kbuf[k]) < RecvSize THEN Len(kbuf[k]) ELSE RecvSize
  IN /\ hpc[c] = "recv"
     /\ k \in Conns /\ kbuf[k] # <<>>
     /\ chunk' = [chunk EXCEPT ![c] = SubSeq(kbuf[k], 1, n)]
     /\ kbuf' = [kbuf EXCEPT ![k] = SubSeq(@, n + 1, Len(@))]
     /\ hpc' = [hpc EXCEPT ![c] = "insert"]
     /\ UNCHANGED <<handlerFrame, desc, backlog, cstate, proc, m_clients, m_fifos, called>>

(* Slip: an error closes the socket before the common exit closes it.       *)
RecvEndCloses(c) ==
  LET k == desc[cfd[c]]
  IN /\ hpc[c] = "recv"
     /\ k \in Conns => kbuf[k] = <<>> /\ cstate[k] # "open"
     /\ CloseDesc(cfd[c])
     /\ hpc' = [hpc EXCEPT ![c] = "close"]
     /\ UNCHANGED <<handlerFrame, proc, m_clients, m_fifos, chunk, called>>

(* Slip: an error is retried, only the end of the stream leaves the loop.   *)
RecvEndOnlyEof(c) ==
  LET k == desc[cfd[c]]
  IN /\ hpc[c] = "recv"
     /\ k \in Conns => kbuf[k] = <<>> /\ cstate[k] = "fin"
     /\ hpc' = [hpc EXCEPT ![c] = "close"]
     /\ UNCHANGED <<handlerFrame, desc, backlog, cstate, kbuf, proc, m_clients, m_fifos, chunk, called>>

RecvEnd(c) ==
  LET k == desc[cfd[c]]
  IN /\ hpc[c] = "recv"
     /\ k \in Conns => kbuf[k] = <<>> /\ cstate[k] # "open"
     /\ hpc' = [hpc EXCEPT ![c] = "close"]
     /\ UNCHANGED <<handlerFrame, desc, backlog, cstate, kbuf, proc, m_clients, m_fifos, chunk, called>>

(* Slip: m_fifos[fd].insert(begin(), ...).                                  *)
InsertFront(c) ==
  /\ hpc[c] = "insert"
  /\ lock[cfd[c]] = "free"
  /\ m_fifos' = [m_fifos EXCEPT ![cfd[c]] = chunk[c] \o @]
  /\ hpc' = [hpc EXCEPT ![c] = "callback"]
  /\ UNCHANGED <<handlerFrame, desc, backlog, cstate, kbuf, proc, m_clients, chunk, called>>

Insert(c) ==
  /\ hpc[c] = "insert"
  /\ lock[cfd[c]] = "free"
  /\ m_fifos' = [m_fifos EXCEPT ![cfd[c]] = @ \o chunk[c]]
  /\ hpc' = [hpc EXCEPT ![c] = "callback"]
  /\ UNCHANGED <<handlerFrame, desc, backlog, cstate, kbuf, proc, m_clients, chunk, called>>

(* Slip: the callback is given what the FIFO holds.                         *)
CallbackFromFifo(c) ==
  /\ hpc[c] = "callback"
  /\ called' = [called EXCEPT ![c] = @ \o m_fifos[cfd[c]]]
  /\ chunk' = [chunk EXCEPT ![c] = <<>>]
  /\ hpc' = [hpc EXCEPT ![c] = "loop"]
  /\ UNCHANGED <<handlerFrame, desc, backlog, cstate, kbuf, proc, m_clients, m_fifos>>

Callback(c) ==
  /\ hpc[c] = "callback"
  /\ called' = [called EXCEPT ![c] = @ \o chunk[c]]
  /\ chunk' = [chunk EXCEPT ![c] = <<>>]
  /\ hpc' = [hpc EXCEPT ![c] = "loop"]
  /\ UNCHANGED <<handlerFrame, desc, backlog, cstate, kbuf, proc, m_clients, m_fifos>>

Close(c) ==
  /\ hpc[c] = "close"
  /\ CloseDesc(cfd[c])
  /\ hpc' = [hpc EXCEPT ![c] = "erase"]
  /\ UNCHANGED <<handlerFrame, proc, m_clients, m_fifos, chunk, called>>

(* The three erase calls.  Destroying a mutex that a sender holds is        *)
(* undefined.                                                               *)
Erase(c) ==
  /\ hpc[c] = "erase"
  /\ m_clients' = m_clients \ {cfd[c]}
  /\ m_fifos' = [m_fifos EXCEPT ![cfd[c]] = <<>>]
  /\ proc' = IF lock[cfd[c]] = "free" THEN proc ELSE "undefined"
  /\ hpc' = [hpc EXCEPT ![c] = "done"]
  /\ UNCHANGED <<handlerFrame, desc, backlog, cstate, kbuf, chunk, called>>

-----------------------------------------------------------------------------
(* read_byte(f, buffer, want, blocking, erase) and clear_fifo(f).  A call   *)
(* for a descriptor that is no client returns at once and changes nothing.  *)

readFrame == <<sockVars, m_is_running, m_fd, m_clients, m_threads, lock,
               userVars, acceptVars, handlerVars, sendVars>>

ReadCall(r) ==
  /\ rpc[r] = "idle"
  /\ \E f \in m_clients, want \in 1 .. MaxWant, b, e \in BOOLEAN :
       rcall' = [rcall EXCEPT ![r] =
                   [fd |-> f, want |-> want, blocking |-> b, erase |-> e]]
  /\ rpc' = [rpc EXCEPT ![r] = "avail"]
  /\ UNCHANGED <<readFrame, proc, m_fifos, rsize, taken>>

ReadAvail(r) ==
  LET q == rcall[r] IN
  /\ rpc[r] = "avail" /\ lock[q.fd] = "free"
  /\ rpc' = [rpc EXCEPT ![r] =
       IF q.blocking /\ Len(m_fifos[q.fd]) < q.want THEN "poll" ELSE "min"]
  /\ UNCHANGED <<readFrame, proc, m_fifos, rcall, rsize, taken>>

(* Slip: the loop is left only by its break, n_available > size.            *)
ReadPollMore(r) ==
  LET q == rcall[r] IN
  /\ rpc[r] = "poll" /\ lock[q.fd] = "free"
  /\ Len(m_fifos[q.fd]) > q.want
  /\ rpc' = [rpc EXCEPT ![r] = "min"]
  /\ UNCHANGED <<readFrame, proc, m_fifos, rcall, rsize, taken>>

(* The polling loop goes round until enough bytes have arrived.             *)
ReadPoll(r) ==
  LET q == rcall[r] IN
  /\ rpc[r] = "poll" /\ lock[q.fd] = "free"
  /\ Len(m_fifos[q.fd]) >= q.want
  /\ rpc' = [rpc EXCEPT ![r] = "min"]
  /\ UNCHANGED <<readFrame, proc, m_fifos, rcall, rsize, taken>>

(* size = std::min(size, m_fifos[i].size()), outside the lock.              *)
ReadMin(r) ==
  LET q == rcall[r]
      have == Len(m_fifos[q.fd]) IN
  /\ rpc[r] = "min"
  /\ rsize' = [rsize EXCEPT ![r] = IF have < q.want THEN have ELSE q.want]
  /\ rpc' = [rpc EXCEPT ![r] = "copy"]
  /\ UNCHANGED <<readFrame, proc, m_fifos, rcall, taken>>

(* Copies size bytes; undefined if the FIFO has become shorter than that.   *)
ReadCopy(r) ==
  LET q == rcall[r]
      n == rsize[r]
      fifo == m_fifos[q.fd] IN
  /\ rpc[r] = "copy" /\ lock[q.fd] = "free"
  /\ rpc' = [rpc EXCEPT ![r] = "idle"]
  /\ rcall' = [rcall EXCEPT ![r] = NoCall]
  /\ rsize' = [rsize EXCEPT ![r] = 0]
  /\ IF Len(fifo) < n
     THEN proc' = "undefined" /\ UNCHANGED <<m_fifos, taken>>
     ELSE /\ m_fifos' = IF q.erase
                        THEN [m_fifos EXCEPT ![q.fd] = SubSeq(@, n + 1, Len(@))]
                        ELSE m_fifos
          /\ taken' = IF q.erase THEN taken \o SubSeq(fifo, 1, n) ELSE taken
          /\ UNCHANGED proc
  /\ UNCHANGED readFrame

ClearFifo(r, f) ==
  /\ rpc[r] = "idle" /\ lock[f] = "free" /\ m_fifos[f] # <<>>
  /\ m_fifos' = [m_fifos EXCEPT ![f] = <<>>]
  /\ taken' = taken \o m_fifos[f]
  /\ UNCHANGED <<readFrame, proc, rpc, rcall, rsize>>

-----------------------------------------------------------------------------
(* send_data(cfd[c]) by a caller that means connection c.  A descriptor     *)
(* that is no client is skipped.                                            *)

sendFrame == <<desc, backlog, kbuf, sent, m_is_running, m_fd, m_clients,
               m_fifos, m_threads, userVars, acceptVars, handlerVars, readVars>>

SendCall(s, c) ==
  /\ spc[s] = "idle"
  /\ hpc[c] # "none" /\ cfd[c] \in m_clients
  /\ spc' = [spc EXCEPT ![s] = "lock"]
  /\ sfd' = [sfd EXCEPT ![s] = cfd[c]]
  /\ sto' = [sto EXCEPT ![s] = c]
  /\ UNCHANGED <<sendFrame, cstate, out, proc, lock, delivered>>

SendLock(s) ==
  /\ spc[s] = "lock" /\ lock[sfd[s]] = "free"
  /\ lock' = [lock EXCEPT ![sfd[s]] = s]
  /\ spc' = [spc EXCEPT ![s] = "send"]
  /\ UNCHANGED <<sendFrame, cstate, out, proc, sfd, sto, delivered>>

(* The lock is held until send() returns, which waits for room while the    *)
(* peer is there but does not read.                                         *)
SendReturns(s) ==
  /\ spc[s] = "send"
  /\ lock' = [lock EXCEPT ![sfd[s]] = "free"]
  /\ spc' = [spc EXCEPT ![s] = "idle"]
  /\ sfd' = [sfd EXCEPT ![s] = INVALID_SOCKET]
  /\ sto' = [sto EXCEPT ![s] = "none"]
  /\ UNCHANGED sendFrame

SendData(s) ==
  LET k == desc[sfd[s]] IN
  /\ SendReturns(s)
  /\ k \in Conns /\ cstate[k] = "open" /\ out[k] < SockBuf
  /\ out' = [out EXCEPT ![k] = @ + 1]
  /\ delivered' = [delivered EXCEPT ![k] = @ \cup {sto[s]}]
  /\ UNCHANGED <<cstate, proc>>

(* The peer has closed and answers what it is sent with a reset.            *)
SendToClosed(s) ==
  LET k == desc[sfd[s]] IN
  /\ SendReturns(s)
  /\ k \in Conns /\ cstate[k] = "fin"
  /\ cstate' = [cstate EXCEPT ![k] = "rst"]
  /\ UNCHANGED <<out, proc, delivered>>

(* After a reset send() fails, with SIGPIPE unless an error was pending:    *)
(* the flags are 0 and nothing ignores the signal.                          *)
SendToReset(s) ==
  LET k == desc[sfd[s]] IN
  /\ SendReturns(s)
  /\ k \in Conns /\ cstate[k] = "rst"
  /\ proc' \in {proc, "sigpipe"}
  /\ UNCHANGED <<cstate, out, delivered>>

(* EBADF: the handler has closed the descriptor.                            *)
SendToNone(s) ==
  /\ SendReturns(s)
  /\ desc[sfd[s]] \notin Conns
  /\ UNCHANGED <<cstate, out, proc, delivered>>

-----------------------------------------------------------------------------
User == StartListening \/ StartThrows \/ Stop \/ Destroy
Joins == (\E f \in Fds : JoinHandler(f)) \/ JoinedHandlers \/ JoinAccept
Accept == \/ AcceptLoop \/ AcceptConn \/ AcceptAgain \/ AcceptFails
          \/ Register \/ Spawn \/ NewClientCallback
Handler(c) == \/ HandlerLoop(c) \/ RecvData(c) \/ RecvEnd(c) \/ Insert(c)
              \/ Callback(c) \/ Close(c) \/ Erase(c)
ReadStep(r) == ReadAvail(r) \/ ReadPoll(r) \/ ReadMin(r) \/ ReadCopy(r)
Reader(r) == ReadCall(r) \/ ReadStep(r) \/ \E f \in Fds : ClearFifo(r, f)
SendStep(s) == \/ SendLock(s) \/ SendData(s) \/ SendToClosed(s)
               \/ SendToReset(s) \/ SendToNone(s)
Sender(s) == SendStep(s) \/ \E c \in Conns : SendCall(s, c)

serverVars == <<proc, m_is_running, m_fd, m_clients, m_fifos, m_threads, lock,
                userVars, acceptVars, handlerVars, readVars, sendVars>>

Next ==
  /\ proc = "up"
  /\ \/ User
     \/ Joins
     \/ Accept
     \/ \E c \in Conns : Handler(c)
     \/ \E r \in Readers : Reader(r)
     \/ \E s \in Senders : Sender(s)
     \/ \E c \in Conns : Peer(c) /\ UNCHANGED serverVars

Spec == Init /\ [][Next]_vars

(* What the scheduler, the locks and the kernel guarantee: a thread that    *)
(* can go on does.  Nothing makes the application call, or the peers act.   *)
Fairness ==
  /\ WF_vars(proc = "up" /\ Joins)
  /\ WF_vars(proc = "up" /\ Accept)
  /\ \A c \in Conns : WF_vars(proc = "up" /\ Handler(c))
  /\ \A r \in Readers : WF_vars(proc = "up" /\ ReadStep(r))
  /\ \A s \in Senders : WF_vars(proc = "up" /\ SendStep(s))

FairSpec == Spec /\ Fairness

-----------------------------------------------------------------------------
(* Properties.                                                              *)

Serving == {"loop", "recv", "insert", "callback"}
Live == Serving \cup {"close", "erase"}

ServerTypeOK ==
  /\ proc \in {"up", "destroyed", "terminated", "sigpipe", "undefined"}
  /\ m_is_running \in BOOLEAN
  /\ m_fd \in Fds \cup {INVALID_SOCKET}
  /\ m_clients \subseteq Fds
  /\ m_fifos \in [Fds -> Seq(Byte)]
  /\ m_threads \in [Fds -> Conns \cup {"none", "joined"}]
  /\ lock \in [Fds -> Senders \cup {"free"}]

UserTypeOK ==
  /\ upc \in {"idle", "joining", "joinAccept"}
  /\ todo \subseteq Fds
  /\ stopped \in BOOLEAN

AcceptTypeOK ==
  /\ apc \in {"none", "loop", "accept", "register", "spawn", "callback", "exited"}
  /\ acc \in Fds \cup {INVALID_SOCKET}

HandlerTypeOK ==
  /\ hpc \in [Conns -> Live \cup {"none", "done"}]
  /\ cfd \in [Conns -> Fds \cup {INVALID_SOCKET}]
  /\ chunk \in [Conns -> Seq(Byte)]
  /\ called \in [Conns -> Seq(Byte)]

ReadTypeOK ==
  /\ rpc \in [Readers -> {"idle", "avail", "poll", "min", "copy"}]
  /\ rcall \in [Readers -> ReadCalls]
  /\ rsize \in [Readers -> 0 .. MaxWant]
  /\ taken \in Seq(Byte)
  /\ \A r \in Readers : rpc[r] # "idle" => rcall[r].fd \in Fds

SendTypeOK ==
  /\ spc \in [Senders -> {"idle", "lock", "send"}]
  /\ sfd \in [Senders -> Fds \cup {INVALID_SOCKET}]
  /\ sto \in [Senders -> Conns \cup {"none"}]
  /\ \A s \in Senders : spc[s] # "idle" => sfd[s] \in Fds /\ sto[s] \in Conns
  /\ delivered \in [Conns -> SUBSET Conns]

(* Every variable keeps its type (the members of tcp_client.hpp:370-375 and *)
(* com_client.hpp:279-294, and the locals of the threads).                  *)
TypeOK == /\ SockTypeOK /\ ServerTypeOK /\ UserTypeOK /\ AcceptTypeOK
          /\ HandlerTypeOK /\ ReadTypeOK /\ SendTypeOK

Pending(c, pcs) == IF hpc[c] \in pcs THEN chunk[c] ELSE <<>>

(* While a client is served no byte of its is lost, doubled or moved: what  *)
(* read_byte and clear_fifo took out, what its FIFO holds, what its handler *)
(* is about to insert and what the kernel still holds make up its stream    *)
(* (tcp_client.hpp:316 against 143-152).                                    *)
StreamConserved ==
  proc = "up" => \A c \in Conns : hpc[c] \in Serving =>
    From(c, taken) \o m_fifos[cfd[c]] \o Pending(c, {"insert"}) \o kbuf[c]
      = Stream(c)

(* The data callback is given the same stream, without gap or repetition,   *)
(* whatever the readers of the FIFO do meanwhile (tcp_client.hpp:326-332).  *)
CallbackSeesStream ==
  proc = "up" => \A c \in Conns : hpc[c] \in Serving =>
    called[c] \o Pending(c, {"insert", "callback"}) \o kbuf[c] = Stream(c)

(* A handler's descriptor stands for its own client until it closes it      *)
(* itself, although descriptors are reused at once: no handler receives     *)
(* from, or closes, another's connection (tcp_client.hpp:305, 363).         *)
HandlerOwnsSocket ==
  \A c \in Conns : hpc[c] \in Live \ {"erase"} => desc[cfd[c]] = c

(* Every handler that has not returned can be found through m_threads, so   *)
(* that stop() or ~TCPServer meets it (tcp_client.hpp:92-94, 429).          *)
LiveHandlerInMap ==
  \A c \in Conns : hpc[c] \in Live => m_threads[cfd[c]] = c

(* Until stop() is called, a client that is served is in m_clients, where   *)
(* read_byte and send_data look for it.  A handler erases its descriptor    *)
(* only after closing it (tcp_client.hpp:363-365), when the accept thread   *)
(* may have registered a new client under that number.                      *)
ServedIsAddressable ==
  proc = "up" /\ ~stopped =>
    \A c \in Conns : hpc[c] \in Serving => cfd[c] \in m_clients

(* Until stop() is called, a message is never delivered to a client other   *)
(* than the one the caller meant, once that other client has its handler:   *)
(* send_data looks a descriptor up, waits for its lock, and sends to        *)
(* whatever the number stands for by then (tcp_client.hpp:109-114).         *)
NoMisdelivery ==
  proc = "up" /\ ~stopped =>
    \A c \in Conns : hpc[c] # "none" => delivered[c] \subseteq {c}

(* After stop() has returned nothing accepts connections any more, and      *)
(* m_accept_thread can be assigned again without std::terminate             *)
(* (tcp_client.hpp:96-97, 289).                                             *)
StoppedAcceptsNobody ==
  proc = "up" /\ upc = "idle" /\ ~m_is_running => apc = "none"

(* A mutex is held by exactly the send_data call inside send() on that      *)
(* descriptor (tcp_client.hpp:112-113).                                     *)
LockHeldBySender ==
  proc = "up" => \A f \in Fds, s \in Senders :
    lock[f] = s <=> spc[s] = "send" /\ sfd[s] = f

(* The application stops sending in the end, and no send() waits for ever:  *)
(* std::mutex is not fair, and is held while send() waits.                  *)
SendsEnd == <>[](\A s \in Senders : spc[s] = "idle")

(* A client that has left is forgotten: its descriptor is closed and its    *)
(* entries erased, also when it leaves while stop() waits, with bytes       *)
(* unread, or while a send() to it holds its mutex                          *)
(* (tcp_client.hpp:112, 315, 336-340, 363-367).                             *)
LeaverForgotten ==
  SendsEnd => \A c \in Conns :
    hpc[c] \in Serving /\ cstate[c] \in {"fin", "rst"} ~> hpc[c] = "done" \/ proc # "up"

(* A connection waiting in the backlog of a server that keeps running gets  *)
(* its handler, unless the accept loop has been left on an error            *)
(* (tcp_client.hpp:388-429).                                                *)
WaitingIsServed ==
  \A c \in Conns :
    cstate[c] = "open" /\ hpc[c] = "none"
      ~> hpc[c] # "none" \/ cstate[c] # "open" \/ stopped \/ apc = "exited" \/ proc # "up"

(* stop() returns, provided no client keeps a handler blocked in recv() for *)
(* ever and the sends end: the joins wait for handlers that leave their     *)
(* loop, and for an accept thread that does not block                       *)
(* (tcp_client.hpp:85-104, 305-361, 388).                                   *)
Silent(c) == hpc[c] = "recv" /\ cstate[c] = "open" /\ kbuf[c] = <<>>
StopReturnsUnlessSilent ==
  SendsEnd /\ []<>(\A c \in Conns : ~Silent(c))
    => (upc # "idle" ~> upc = "idle" \/ proc # "up")

(* A blocking read_byte returns once the bytes it waits for have reached    *)
(* the kernel, unless the client is forgotten first: the 1 ms polls and the *)
(* handler do not shut each other out, nor do sends that end                *)
(* (tcp_client.hpp:112, 133-143, 305-317).                                  *)
BlockingReadReturns ==
  SendsEnd => \A r \in Readers, c \in Conns :
    /\ rpc[r] = "poll" /\ hpc[c] \in Serving /\ rcall[r].fd = cfd[c]
    /\ Len(m_fifos[cfd[c]]) + Len(Pending(c, {"insert"})) + Len(kbuf[c])
         >= rcall[r].want
    ~> rpc[r] # "poll" \/ hpc[c] = "done" \/ proc # "up"

-----------------------------------------------------------------------------
(* The abstract specifications that the server implements.                  *)

Lifecycle == INSTANCE ServerLifecycle WITH
  MayGiveUp <- TRUE,
  running <- m_is_running,
  stopping <- upc # "idle",
  serving <- apc \notin {"none", "exited"}

(* start() and stop() are those of a server: stop() lets go of nothing      *)
(* before the accept thread has ended, and start() finds it ended, also     *)
(* after a start() that threw or an accept loop left on an error            *)
(* (com_client.hpp:177-202, tcp_client.hpp:85-104, 388-420).                *)
ServesAsPromised == Lifecycle!Spec

ToReaders == INSTANCE ByteStreams WITH
  Channels <- Conns,
  stream <- [c \in Conns |-> Stream(c)],
  got <- [c \in Conns |-> From(c, taken)]

(* What the application takes out by read_byte and clear_fifo is the stream *)
(* of each client, in order and without a gap, whichever threads ask, and   *)
(* also across the end of the client and the reuse of its descriptor        *)
(* (tcp_client.hpp:118-161, 305-317, 366, 426).                             *)
ReadersGetStream == ToReaders!Spec

-----------------------------------------------------------------------------
(* What the repository says of the server and the code does not do: each of *)
(* these is violated, and PROJECT.json lists it as a finding.               *)

(* "server runs until stop() is called" (tests/test_tcp.cpp:23): no client  *)
(* can end the process.  m_threads[fd] is assigned again when a descriptor  *)
(* is reused (tcp_client.hpp:429); send() may raise SIGPIPE (113).          *)
RunsUntilStop == ~stopped => proc \notin {"terminated", "sigpipe"}

Stopped == proc = "up" /\ stopped /\ upc = "idle" /\ ~m_is_running

(* "Stop the server and close all connections." (com_client.hpp:189): once  *)
(* stop() has returned nothing listens any more and every handler has ended *)
(* (tcp_client.hpp:89-103, com_client.hpp:194-201).                         *)
StopClosesAll ==
  Stopped => ~Listening /\ \A c \in Conns : hpc[c] \in {"none", "done"}

(* "Thread-safe - Mutex-protected operations for concurrent access"         *)
(* (README.md:11): two read_byte calls never take more than the FIFO has    *)
(* (tcp_client.hpp:145-151), and the accept thread and a handler do not     *)
(* modify m_clients and m_fifos at the same time (365-366, 425-426).        *)
ThreadSafe ==
  /\ proc # "undefined"
  /\ proc = "up" => ~(apc = "register" /\ \E c \in Conns : hpc[c] = "erase")
=============================================================================
