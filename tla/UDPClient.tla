------------------------------ MODULE UDPClient ------------------------------
(***************************************************************************)
(* Communication::UDP (src/src/udp_client.cpp): application threads share  *)
(* one object, whose m_addr_to is both where writeS sends to and where     *)
(* recvfrom() leaves the address of the last sender.                       *)
(*                                                                         *)
(* A socket is the open_connection that made it; it is bound to a port by  *)
(* its first sendto().  A datagram is <<h, k>>, the k-th of host h, and    *)
(* its length.  A definition marked "Slip" is the next with a mistake.     *)
(***************************************************************************)
EXTENDS Integers, Sequences

CONSTANTS
  UThreads,   \* the application's threads
  UHosts,     \* the hosts it may open, or hear from
  UMaxOpens,  \* bound: calls of open_connection
  UMaxSent,   \* bound: datagrams each host sends
  UMaxLen,    \* bound: length of a datagram
  UMaxSize,   \* bound: the size asked of readS
  UMaxWrites  \* bound: datagrams written

ASSUME UDPClientAssumption ==
  /\ "free" \notin UThreads /\ "unset" \notin UHosts
  /\ UMaxOpens \in Nat /\ UMaxSent \in Nat /\ UMaxLen \in Nat
  /\ UMaxSize \in Nat /\ UMaxWrites \in Nat

VARIABLES
  ufd, uaddr, umutex,  \* m_fd (0: no socket), m_addr_to, m_mutex
  ubound, uinbox,      \* sockets bound to a port; what each has received
  usent,               \* datagrams each host has sent
  upc, ucall, usock,   \* the threads: their call and the socket it uses
  upieces,             \* what each readS has received: datagrams, cut
  ulog,                \* history: datagrams received and written, in order
  uwrites

uvars == <<ufd, uaddr, umutex, ubound, uinbox, usent, upc, ucall, usock, upieces, ulog, uwrites>>

USocks == 1 .. UMaxOpens
UNoCall == [host |-> "unset", size |-> 0, until |-> FALSE]
UMin(a, b) == IF a < b THEN a ELSE b

UInit ==
  /\ ufd = 0 /\ uaddr = "unset" /\ umutex = "free"
  /\ ubound = {} /\ uinbox = [k \in USocks |-> <<>>] /\ usent = [h \in UHosts |-> 0]
  /\ upc = [t \in UThreads |-> "idle"] /\ ucall = [t \in UThreads |-> UNoCall]
  /\ usock = [t \in UThreads |-> 0] /\ upieces = [t \in UThreads |-> <<>>]
  /\ ulog = <<>> /\ uwrites = 0

-----------------------------------------------------------------------------
(* A datagram that arrives; the others are lost, and order is arbitrary.    *)
UArrive(h, k) ==
  /\ k \in ubound /\ usent[h] < UMaxSent
  /\ usent' = [usent EXCEPT ![h] = @ + 1]
  /\ \E len \in 0 .. UMaxLen :
       uinbox' = [uinbox EXCEPT ![k] = Append(@, [id |-> <<h, usent[h] + 1>>, len |-> len])]
  /\ UNCHANGED <<ufd, uaddr, umutex, ubound, upc, ucall, usock, upieces, ulog, uwrites>>

-----------------------------------------------------------------------------
(* open_connection: the socket first, the address when it has been looked   *)
(* up, both without the mutex.  An unknown host throws.                     *)
UOpen(t) ==
  /\ upc[t] = "idle" /\ ufd < UMaxOpens
  /\ ufd' = ufd + 1
  /\ \E h \in UHosts : ucall' = [ucall EXCEPT ![t].host = h]
  /\ upc' = [upc EXCEPT ![t] = "lookup"]
  /\ UNCHANGED <<uaddr, umutex, ubound, uinbox, usent, usock, upieces, ulog, uwrites>>

UResolved(t) ==
  /\ upc[t] = "lookup"
  /\ uaddr' \in {uaddr, ucall[t].host}
  /\ upc' = [upc EXCEPT ![t] = "idle"]
  /\ ucall' = [ucall EXCEPT ![t] = UNoCall]
  /\ UNCHANGED <<ufd, umutex, ubound, uinbox, usent, usock, upieces, ulog, uwrites>>

(* Slip: the lock_guard is left out.                                        *)
UReadUnlocked(t) ==
  /\ upc[t] = "idle" /\ ufd > 0
  /\ upc' = [upc EXCEPT ![t] = "read"]
  /\ \E size \in 1 .. UMaxSize, u \in BOOLEAN :
       ucall' = [ucall EXCEPT ![t].size = size, ![t].until = u]
  /\ UNCHANGED <<ufd, uaddr, umutex, ubound, uinbox, usent, usock, upieces, ulog, uwrites>>

(* readS(buffer, size, false, until).                                       *)
UReadS(t) ==
  /\ upc[t] = "idle" /\ umutex = "free" /\ ufd > 0
  /\ umutex' = t
  /\ upc' = [upc EXCEPT ![t] = "read"]
  /\ \E size \in 1 .. UMaxSize, u \in BOOLEAN :
       ucall' = [ucall EXCEPT ![t].size = size, ![t].until = u]
  /\ UNCHANGED <<ufd, uaddr, ubound, uinbox, usent, usock, upieces, ulog, uwrites>>

(* recvfrom() is called on the m_fd of this moment.                         *)
URecvEnter(t) ==
  /\ upc[t] = "read"
  /\ usock' = [usock EXCEPT ![t] = ufd]
  /\ upc' = [upc EXCEPT ![t] = "recvfrom"]
  /\ UNCHANGED <<ufd, uaddr, umutex, ubound, uinbox, usent, ucall, upieces, ulog, uwrites>>

UGot(pieces) ==
  LET sum[i \in 0 .. Len(pieces)] == IF i = 0 THEN 0 ELSE sum[i - 1] + pieces[i].len
  IN sum[Len(pieces)]

URoom(t) == ucall[t].size - UGot(upieces[t])

(* Slip: the loop is left when n exceeds size.                              *)
UDoneLate(t, n) == n > ucall[t].size \/ ~ucall[t].until

UDone(t, n) == n = ucall[t].size \/ ~ucall[t].until

(* What does not fit is lost.  An empty datagram counts for nothing, but    *)
(* its sender is who is written to next.                                    *)
URecvFrom(t) ==
  LET k == usock[t]
      d == Head(uinbox[k])
      all == Append(upieces[t], [d EXCEPT !.len = UMin(d.len, URoom(t))]) IN
  /\ upc[t] = "recvfrom" /\ uinbox[k] # <<>>
  /\ uinbox' = [uinbox EXCEPT ![k] = Tail(@)]
  /\ uaddr' = d.id[1]
  /\ ulog' = Append(ulog, d.id)
  /\ upieces' = [upieces EXCEPT ![t] = all]
  /\ upc' = [upc EXCEPT ![t] = IF UDone(t, UGot(all)) THEN "return" ELSE "read"]
  /\ usock' = [usock EXCEPT ![t] = 0]
  /\ UNCHANGED <<ufd, umutex, ubound, usent, ucall, uwrites>>

(* The lock_guard is released.                                              *)
UReadReturns(t) ==
  /\ upc[t] = "return"
  /\ umutex' = IF umutex = t THEN "free" ELSE umutex
  /\ upc' = [upc EXCEPT ![t] = "idle"]
  /\ ucall' = [ucall EXCEPT ![t] = UNoCall]
  /\ upieces' = [upieces EXCEPT ![t] = <<>>]
  /\ UNCHANGED <<ufd, uaddr, ubound, uinbox, usent, usock, ulog, uwrites>>

(* writeS: sendto() does not block.  Without an address it fails.           *)
UWriteS(t) ==
  /\ upc[t] = "idle" /\ umutex = "free" /\ ufd > 0 /\ uaddr # "unset" /\ uwrites < UMaxWrites
  /\ uwrites' = uwrites + 1
  /\ ubound' = ubound \cup {ufd}
  /\ ulog' = Append(ulog, <<uaddr, 0>>)
  /\ UNCHANGED <<ufd, uaddr, umutex, uinbox, usent, upc, ucall, usock, upieces>>

-----------------------------------------------------------------------------
URead(t) == URecvEnter(t) \/ URecvFrom(t) \/ UReadReturns(t)
UNext ==
  \/ \E h \in UHosts, k \in USocks : UArrive(h, k)
  \/ \E t \in UThreads : UOpen(t) \/ UResolved(t) \/ UReadS(t) \/ URead(t) \/ UWriteS(t)

(* A thread that can go on does.                                            *)
UFairness == \A t \in UThreads : WF_uvars(URead(t))

-----------------------------------------------------------------------------
(* Properties.                                                              *)

(* What a readS puts together are datagrams received one right after the    *)
(* other: no other thread's readS takes one from between them, and no       *)
(* writeS goes out in the middle, to the sender of a piece                  *)
(* (udp_client.cpp:41-48, 60-63).                                           *)
UReadIsConsecutive ==
  \A t \in UThreads :
    LET ids == [i \in DOMAIN upieces[t] |-> upieces[t][i].id] IN
    /\ Len(ids) <= Len(ulog)
    /\ ids = SubSeq(ulog, Len(ulog) - Len(ids) + 1, Len(ulog))

(* A readS for which enough has arrived on the socket it waits on returns,  *)
(* however the bytes are spread over datagrams (udp_client.cpp:43-48).      *)
UWaiting(k) == UGot(uinbox[k])
UReadEnds ==
  \A t \in UThreads, k \in USocks :
    /\ upc[t] = "recvfrom" /\ usock[t] = k /\ ufd = k
    /\ uinbox[k] # <<>> /\ UWaiting(k) >= URoom(t)
    ~> upc[t] = "idle" \/ ufd # k

-----------------------------------------------------------------------------
(* What the usage example says and the code does not do.                    *)

(* "int n = client.readS(buf, 256);" after a writeS of 9 bytes to an echo   *)
(* server (src/tests/test_udp.cpp:9-14): a readS with read_until returns    *)
(* when a datagram has come.                                                *)
UDatagramEndsRead ==
  \A t \in UThreads, k \in USocks :
    upc[t] = "recvfrom" /\ usock[t] = k /\ uinbox[k] # <<>> ~> upc[t] = "idle"
=============================================================================
