----------------------------- MODULE HTTPClient -----------------------------
(***************************************************************************)
(* Communication::HTTP (src/src/http_client.cpp): one thread asks a server *)
(* that keeps the connection open, answers in order, and whose answers     *)
(* arrive in pieces.                                                       *)
(*                                                                         *)
(* A byte of an answer is <<q, i>>: the i-th byte of the answer to request *)
(* q.  Byte 1 completes "HTTP/1.1 ", byte HHead the "\r\n\r\n" that ends   *)
(* the header.  A definition marked "Slip" is the next one with a mistake. *)
(***************************************************************************)
EXTENDS Integers, Sequences

CONSTANTS
  HMaxRead,   \* what is read when no n is given (2048 in the code)
  HSizes,     \* bound: the values of n, beside -1
  HHead,      \* bound: length of an answer's header
  HMaxBody,   \* bound: length of an answer's body
  HRequests   \* bound: requests sent

ASSUME HTTPAssumption ==
  /\ HMaxRead \in Nat \ {0} /\ HSizes \subseteq Nat
  /\ HHead \in Nat \ {0} /\ HMaxBody \in Nat /\ HRequests \in Nat

VARIABLES
  hconn,      \* "open", "fin" (closed by the server) or "closed"
  hreq,       \* requests the server has been sent
  hsizes,     \* length and status of each answer begun
  hwritten,   \* bytes of the last answer begun that have been written
  hwire,      \* bytes that have arrived and are not yet read
  hpc, hcall, \* "idle", "recv" or "parse"; the call: method, n, read_until
  hbuffer,    \* what readS has put into the buffer
  hdrained,   \* history: nothing of an earlier answer was left at the call
  hresult     \* the outcome of the last call

hvars == <<hconn, hreq, hsizes, hwritten, hwire, hpc, hcall, hbuffer, hdrained, hresult>>

HNoCall == [method |-> "none", n |-> 0, until |-> FALSE]
HNoResult == [kind |-> "none", body |-> <<>>]

HInit ==
  /\ hconn = "open" /\ hreq = 0 /\ hsizes = <<>> /\ hwritten = 0 /\ hwire = <<>>
  /\ hpc = "idle" /\ hcall = HNoCall /\ hbuffer = <<>>
  /\ hdrained = TRUE /\ hresult = HNoResult

-----------------------------------------------------------------------------
(* The server.                                                              *)

serverFrame == <<hreq, hpc, hcall, hbuffer, hdrained, hresult>>
HAnswered == Len(hsizes) = hreq /\ (hreq > 0 => hwritten = hsizes[hreq].len)

HBegin ==
  /\ hconn = "open" /\ Len(hsizes) < hreq
  /\ hsizes # <<>> => hwritten = hsizes[Len(hsizes)].len
  /\ \E body \in 0 .. HMaxBody, ok \in BOOLEAN :
       hsizes' = Append(hsizes, [len |-> HHead + body, ok |-> ok])
  /\ hwritten' = 0
  /\ UNCHANGED <<serverFrame, hconn, hwire>>

(* One or more bytes of the answer arrive together.                         *)
HArrive ==
  LET q == Len(hsizes) IN
  /\ hconn = "open" /\ q > 0
  /\ \E to \in hwritten + 1 .. hsizes[q].len :
       /\ hwire' = hwire \o [i \in 1 .. to - hwritten |-> <<q, hwritten + i>>]
       /\ hwritten' = to
  /\ UNCHANGED <<serverFrame, hconn, hsizes>>

HServerCloses ==
  /\ hconn = "open" /\ hreq > 0 /\ HAnswered
  /\ hconn' = "fin"
  /\ UNCHANGED <<serverFrame, hsizes, hwritten, hwire>>

-----------------------------------------------------------------------------
(* get and post.                                                            *)

callFrame == <<hconn, hsizes, hwritten>>

(* Nothing was received: strstr() runs over a buffer nobody has written.    *)
HUndefined == [kind |-> "undefined", body |-> <<>>]

(* Slip: the buffer is a member, and is filled on from call to call.        *)
HCallKeepsBuffer(method, n) ==
  /\ hpc = "idle" /\ hconn = "open" /\ hreq < HRequests
  /\ hcall' = [method |-> method, n |-> IF n = -1 THEN HMaxRead ELSE n, until |-> n # -1]
  /\ hreq' = hreq + 1
  /\ hdrained' = (HAnswered /\ hwire = <<>>)
  /\ hbuffer' = SubSeq(hbuffer, 1, IF Len(hbuffer) < hcall'.n THEN Len(hbuffer) ELSE hcall'.n)
  /\ hpc' = "recv"
  /\ UNCHANGED <<callFrame, hwire, hresult>>

(* A request goes out, and readS is called.                                 *)
HCall(method, n) ==
  /\ hpc = "idle" /\ hconn = "open" /\ hreq < HRequests
  /\ hcall' = [method |-> method, n |-> IF n = -1 THEN HMaxRead ELSE n, until |-> n # -1]
  /\ hreq' = hreq + 1
  /\ hdrained' = (HAnswered /\ hwire = <<>>)
  /\ hbuffer' = <<>>
  /\ hpc' = "recv"
  /\ UNCHANGED <<callFrame, hwire, hresult>>

(* Without n, get() allocates its buffer before it looks at n: new char[-1] *)
(* throws, and no request is sent.  A buffer of no bytes is written at -1.  *)
HGet(n) ==
  CASE n = -1 -> /\ hpc = "idle" /\ hconn = "open"
                 /\ hresult' = [kind |-> "bad_array_new_length", body |-> <<>>]
                 /\ UNCHANGED <<callFrame, hreq, hwire, hpc, hcall, hbuffer, hdrained>>
    [] OTHER -> HCall("get", n)

HPost(n) == HCall("post", n)

(* On a connection that close_connection has closed, readS returns -1.      *)
HCallClosed ==
  /\ hpc = "idle" /\ hconn = "closed"
  /\ hresult' = HUndefined
  /\ UNCHANGED <<callFrame, hreq, hwire, hpc, hcall, hbuffer, hdrained>>

HRoom == hcall.n - Len(hbuffer)

HDone(got) == got = hcall.n \/ ~hcall.until

HRecv ==
  LET r == IF Len(hwire) < HRoom THEN Len(hwire) ELSE HRoom
      all == hbuffer \o SubSeq(hwire, 1, r) IN
  /\ hpc = "recv" /\ hwire # <<>>
  /\ hwire' = SubSeq(hwire, r + 1, Len(hwire))
  /\ hbuffer' = all
  /\ hpc' = IF HDone(Len(all)) THEN "parse" ELSE "recv"
  /\ UNCHANGED <<callFrame, hreq, hcall, hdrained, hresult>>

(* recv() of no bytes, or at the end of the stream, returns 0.  The loop of *)
(* read_until goes on for ever.                                             *)
HRecvNothing ==
  /\ hpc = "recv" /\ hwire = <<>> /\ (hconn = "fin" \/ HRoom = 0)
  /\ HDone(Len(hbuffer))
  /\ hpc' = "parse"
  /\ UNCHANGED <<callFrame, hreq, hwire, hcall, hbuffer, hdrained, hresult>>

(* Slip: a NUL always takes the place of the last byte received.            *)
HTextShort == SubSeq(hbuffer, 1, Len(hbuffer) - 1)

(* The buffer as a C string: the NUL goes behind what was received, or in   *)
(* the place of the last byte if the buffer is full.                        *)
HText == SubSeq(hbuffer, 1, IF Len(hbuffer) < hcall.n THEN Len(hbuffer) ELSE hcall.n - 1)

(* strstr(): the first place where byte b of an answer stands, or 0.        *)
HFind(text, b) ==
  LET at == {i \in DOMAIN text : text[i][2] = b}
  IN IF at = {} THEN 0 ELSE CHOOSE i \in at : \A j \in at : i <= j

HOutcome ==
  LET text == HText
      status == HFind(text, 1)
      head == HFind(text, HHead)
      thrown(why) == [kind |-> why, body |-> <<>>] IN
  CASE hbuffer = <<>> -> HUndefined
    [] hbuffer # <<>> /\ hcall.method = "post" /\ status = 0 -> thrown("not found")
    [] hbuffer # <<>> /\ hcall.method = "post" /\ status # 0 /\ ~hsizes[text[status][1]].ok -> thrown("code")
    [] OTHER -> IF head = 0 THEN thrown("malformed")
                ELSE [kind |-> "returned", body |-> SubSeq(text, head + 1, Len(text))]

HParse ==
  /\ hpc = "parse"
  /\ hresult' = HOutcome
  /\ hpc' = "idle"
  /\ UNCHANGED <<callFrame, hreq, hwire, hcall, hbuffer, hdrained>>

HClose ==
  /\ hpc = "idle" /\ hconn \in {"open", "fin"}
  /\ hconn' = "closed" /\ hwire' = <<>>
  /\ UNCHANGED <<hreq, hsizes, hwritten, hpc, hcall, hbuffer, hdrained, hresult>>

-----------------------------------------------------------------------------
HServer == HBegin \/ HArrive \/ HServerCloses
HStep == HRecv \/ HRecvNothing \/ HParse
HNext ==
  \/ HServer \/ HStep \/ HClose \/ HCallClosed
  \/ \E n \in HSizes \cup {-1} : HGet(n) \/ HPost(n)

-----------------------------------------------------------------------------
(* Properties.                                                              *)

HBody(q) == [i \in 1 .. hsizes[q].len - HHead |-> <<q, HHead + i>>]
HReturned == hpc = "idle" /\ hresult.kind = "returned" /\ hcall # HNoCall

(* A call that finds nothing left of earlier answers returns the beginning  *)
(* of the body of its own answer, however the answer is cut into pieces and *)
(* whatever n (http_client.cpp:37-54, 78-118).                              *)
HOwnAnswer ==
  HReturned /\ hdrained =>
    /\ Len(hsizes) = hreq /\ Len(hresult.body) <= Len(HBody(hreq))
    /\ hresult.body = SubSeq(HBody(hreq), 1, Len(hresult.body))

(* If the answer had arrived whole and the buffer has a byte more than it,  *)
(* then all of the body is returned (http_client.cpp:38-41, 79-82).         *)
HWholeAnswer ==
  HReturned /\ hdrained /\ Len(hbuffer) = hsizes[hreq].len /\ hcall.n > Len(hbuffer) =>
    hresult.body = HBody(hreq)

-----------------------------------------------------------------------------
(* What the repository says and the code does not do.                       *)

(* "If n is -1, read 2048 bytes max and don't read until 2048 bytes are     *)
(* read" (http_client.hpp:24), and -1 is the default: get() reads.          *)
HGetReads == hresult.kind # "bad_array_new_length"
=============================================================================
