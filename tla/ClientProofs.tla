------------------------------ MODULE ClientProofs ------------------------------
(***************************************************************************)
(* Proofs about the three clients next to TCP: what an HTTP call returns,  *)
(* what a UDP readS puts together, and the frames a serial readS takes off *)
(* the line, for every host, thread, size, message and generator           *)
(* polynomial.  What is read piece by piece is concatenated in the code's  *)
(* order, so each proof rests on the sequences of DataLemmas.              *)
(*                                                                         *)
(* In between, Crc16: eight turns of a register at bit 15 are what eight   *)
(* steps of a long division leave, a byte at a time, because the remainder *)
(* of a sum is the sum of the remainders.                                  *)
(***************************************************************************)
EXTENDS HTTPClient, UDPClient, SerialClient, DataLemmas

HSpec == HInit /\ [][HNext]_hvars
USpec == UInit /\ [][UNext]_uvars
SSpec == SInit /\ [][SNext]_svars

-----------------------------------------------------------------------------
(* HTTPClient.  Of a call that found nothing left of earlier answers, what  *)
(* has been read and what waits in the wire are together the beginning of   *)
(* the answer to its request, as far as the server has written it.          *)

HBytes == Nat \X Nat
HAnswers == [len : {HHead + body : body \in 0 .. HMaxBody}, ok : BOOLEAN]
HAnswer(q, k) == [i \in 1 .. k |-> <<q, i>>]
HBegun == IF Len(hsizes) = hreq THEN hwritten ELSE 0

HTypes ==
  /\ hconn \in {"open", "fin", "closed"} /\ hreq \in Nat
  /\ hsizes \in Seq(HAnswers) /\ Len(hsizes) <= hreq
  /\ hwritten \in Nat
  /\ hsizes # <<>> => hwritten <= hsizes[Len(hsizes)].len
  /\ hsizes = <<>> => hwritten = 0
  /\ hwire \in Seq(HBytes) /\ hbuffer \in Seq(HBytes)
  /\ hpc \in {"idle", "recv", "parse"}
  /\ hcall \in [method : {"none", "get", "post"}, n : Nat, until : BOOLEAN]
  /\ Len(hbuffer) <= hcall.n
  /\ hcall = HNoCall => hpc = "idle"
  /\ hcall # HNoCall => hreq > 0

(* What has been read begins the answer.                                    *)
HPrefix ==
  hcall # HNoCall /\ hdrained =>
    /\ Len(hbuffer) <= HBegun
    /\ hbuffer = HAnswer(hreq, Len(hbuffer))

HWhole ==
  hpc # "idle" /\ hdrained =>
    /\ hbuffer \o hwire = HAnswer(hreq, HBegun)
    /\ \/ Len(hsizes) = hreq
       \/ Len(hsizes) = hreq - 1 /\ (hsizes # <<>> => hwritten = hsizes[Len(hsizes)].len)

HParsed ==
  hpc = "idle" /\ hresult.kind = "returned" /\ hcall # HNoCall =>
    /\ hbuffer # <<>> /\ HFind(HText, HHead) # 0
    /\ hresult.body = SubSeq(HText, HFind(HText, HHead) + 1, Len(HText))

HInv == HTypes /\ HPrefix /\ HWhole /\ HParsed

LEMMA HRegroup ==
  \A s, t, u \in Seq(HBytes) : s \o (t \o u) = (s \o t) \o u
BY ConcatAssociative, SMTT(30)

LEMMA HConcat ==
  \A s, t \in Seq(HBytes) :
    /\ Len(s \o t) = Len(s) + Len(t)
    /\ \A i \in 1 .. Len(s) + Len(t) :
         (s \o t)[i] = IF i <= Len(s) THEN s[i] ELSE t[i - Len(s)]
BY ConcatProperties

LEMMA HInitInv == HInit => HInv
<1>. SUFFICES ASSUME HInit PROVE HInv
  OBVIOUS
<1>1. HTypes
  BY DEF HInit, HTypes, HNoCall
<1>. QED  BY <1>1 DEF HInit, HInv, HPrefix, HWhole, HParsed

(* The server leaves alone the call and what it has read.                   *)
LEMMA HServerKeeps ==
  ASSUME HInv, UNCHANGED serverFrame
  PROVE  HParsed'
BY DEF HInv, HParsed, serverFrame, HText

LEMMA HBeginInv == HInv /\ HBegin => HInv'
<1>. SUFFICES ASSUME HInv, HBegin PROVE HInv'
  OBVIOUS
<1>1. /\ UNCHANGED <<serverFrame, hconn, hwire>> /\ Len(hsizes) < hreq /\ hwritten' = 0
      /\ \E a \in HAnswers : hsizes' = Append(hsizes, a)
  BY DEF HBegin, HAnswers
<1>2. /\ hsizes' \in Seq(HAnswers) /\ Len(hsizes') <= hreq /\ hsizes' # <<>>
      /\ hsizes'[Len(hsizes')] \in HAnswers /\ Len(hsizes') = Len(hsizes) + 1
  <2>1. hsizes \in Seq(HAnswers) /\ hreq \in Nat
    BY DEF HInv, HTypes
  <2>2. PICK a \in HAnswers : hsizes' = Append(hsizes, a)
    BY <1>1
  <2>3. /\ Append(hsizes, a) \in Seq(HAnswers) /\ Len(Append(hsizes, a)) = Len(hsizes) + 1
        /\ Append(hsizes, a)[Len(hsizes) + 1] = a
    BY <2>1, AppendProperties
  <2>. QED  BY <1>1, <2>1, <2>2, <2>3
<1>3. hsizes'[Len(hsizes')].len \in Nat
  BY <1>2, HTTPAssumption DEF HAnswers
<1>4. HTypes'
  BY <1>1, <1>2, <1>3 DEF HInv, HTypes, serverFrame
<1>5. HBegun = 0 /\ HBegun' = 0
  BY <1>1 DEF HBegun, HInv, HTypes
<1>6. HPrefix' /\ HWhole'
  BY <1>1, <1>2, <1>5 DEF HInv, HTypes, HPrefix, HWhole, HAnswer, serverFrame
<1>. QED  BY <1>1, <1>4, <1>6, HServerKeeps DEF HInv

LEMMA HArriveInv == HInv /\ HArrive => HInv'
<1>. SUFFICES ASSUME HInv, HArrive PROVE HInv'
  OBVIOUS
<1>. DEFINE q == Len(hsizes)
<1>1. PICK to \in hwritten + 1 .. hsizes[q].len :
        /\ hwire' = hwire \o [i \in 1 .. to - hwritten |-> <<q, hwritten + i>>]
        /\ hwritten' = to
  BY DEF HArrive
<1>2. UNCHANGED <<serverFrame, hconn, hsizes>> /\ q > 0
  BY DEF HArrive
<1>3. /\ q \in Nat /\ hsizes # <<>> /\ hsizes[q] \in HAnswers /\ hwritten \in Nat
      /\ hwire \in Seq(HBytes) /\ hbuffer \in Seq(HBytes) /\ q <= hreq /\ hreq \in Nat
  <2>1. /\ hsizes \in Seq(HAnswers) /\ hwritten \in Nat
        /\ hwire \in Seq(HBytes) /\ hbuffer \in Seq(HBytes) /\ q <= hreq /\ hreq \in Nat
    <3>1. HTypes
      BY DEF HInv
    <3>. QED  BY <3>1 DEF HTypes
  <2>2. q \in Nat /\ hsizes # <<>> /\ hsizes[q] \in HAnswers
    BY <1>2, <2>1
  <2>. QED  BY <2>1, <2>2
<1>4. hsizes[q].len \in Nat
  BY <1>3, HTTPAssumption DEF HAnswers
<1>5. to \in Nat /\ to > hwritten /\ to <= hsizes[q].len
  BY <1>3, <1>4
<1>. DEFINE more == [i \in 1 .. to - hwritten |-> <<q, hwritten + i>>]
<1>6. more \in Seq(HBytes) /\ Len(more) = to - hwritten
  BY <1>3, <1>5 DEF HBytes
<1>7. HTypes'
  <2>1. hwire' \in Seq(HBytes)
    <3>. HIDE DEF more
    <3>1. hwire \o more \in Seq(HBytes)
      BY <1>3, <1>6, ConcatProperties
    <3>. QED  BY <1>1, <3>1 DEF more
  <2>. QED  BY <1>1, <1>2, <1>3, <1>5, <2>1 DEF HInv, HTypes, serverFrame
<1>8. HBegun <= HBegun'
  BY <1>1, <1>2, <1>3, <1>5 DEF HBegun, serverFrame
<1>9. HPrefix'
  <2>1. UNCHANGED <<hcall, hdrained, hbuffer, hreq>> /\ HBegun \in Nat /\ HBegun' \in Nat
    BY <1>1, <1>2, <1>3, <1>5 DEF serverFrame, HBegun
  <2>. QED  BY <1>3, <1>8, <2>1 DEF HInv, HPrefix
<1>10. HWhole'
  <2>. SUFFICES ASSUME hpc # "idle", hdrained
                PROVE  hbuffer \o hwire' = HAnswer(hreq, HBegun') /\ q = hreq
    BY <1>2 DEF HWhole, serverFrame
  <2>0. hbuffer \o hwire = HAnswer(hreq, HBegun)
    BY DEF HInv, HWhole
  <2>. DEFINE have == hbuffer \o hwire
  <2>1. have \in Seq(HBytes) /\ have = HAnswer(hreq, HBegun) /\ hbuffer \o hwire' = have \o more
    <3>. HIDE DEF more
    <3>1. have \in Seq(HBytes)
      BY <1>3, ConcatProperties
    <3>2. hbuffer \o (hwire \o more) = have \o more
      BY <1>3, <1>6, HRegroup
    <3>. QED  BY <1>1, <2>0, <3>1, <3>2 DEF more
  <2>2. CASE q = hreq
    <3>1. HBegun = hwritten /\ HBegun' = to
      BY <1>1, <1>2, <2>2 DEF HBegun, serverFrame
    <3>. HIDE DEF have, more
    <3>2. Len(have) = hwritten /\ \A i \in 1 .. hwritten : have[i] = <<hreq, i>>
      BY <1>3, <2>1, <3>1 DEF HAnswer
    <3>3. have \o more \in Seq(HBytes) /\ Len(have \o more) = to
      BY <1>3, <1>5, <1>6, <2>1, <3>2
    <3>4. ASSUME NEW i \in 1 .. to PROVE (have \o more)[i] = <<hreq, i>>
      <4>1. CASE i <= hwritten
        <5>1. i \in 1 .. Len(have)
          BY <1>3, <3>2, <4>1
        <5>2. (have \o more)[i] = have[i]
          <6>1. have \in Seq(HBytes) /\ more \in Seq(HBytes)
            BY <1>6, <2>1
          <6>2. Len(have) \in Nat /\ Len(more) \in Nat /\ i <= Len(have)
                /\ i \in 1 .. Len(have) + Len(more)
            BY <5>1, <6>1
          <6>. QED  BY <6>1, <6>2, ConcatProperties
        <5>. QED  BY <3>2, <5>1, <5>2
      <4>2. CASE i > hwritten
        <5>1. (have \o more)[i] = more[i - hwritten] /\ i - hwritten \in 1 .. to - hwritten
          BY <1>3, <1>5, <1>6, <2>1, <3>2, <4>2, SMTT(30)
        <5>2. more[i - hwritten] = <<q, hwritten + (i - hwritten)>>
          BY <5>1 DEF more
        <5>. QED  BY <1>3, <1>5, <2>2, <5>1, <5>2
      <4>3. i <= hwritten \/ i > hwritten
        BY <1>3, <1>5
      <4>. QED  BY <4>1, <4>2, <4>3
    <3>5. have \o more = HAnswer(hreq, to)
      <4>1. HAnswer(hreq, to) \in Seq(HBytes) /\ Len(HAnswer(hreq, to)) = to
        BY <1>3, <1>5 DEF HAnswer, HBytes
      <4>2. \A i \in 1 .. to : HAnswer(hreq, to)[i] = <<hreq, i>>
        BY DEF HAnswer
      <4>. QED  BY <3>3, <3>4, <4>1, <4>2, SeqEqual
    <3>. QED  BY <2>1, <2>2, <3>1, <3>5
  <2>3. CASE q # hreq
    <3>1. hwritten = hsizes[q].len
      BY <1>3, <2>3 DEF HInv, HWhole
    <3>. QED  BY <1>3, <1>4, <1>5, <3>1
  <2>. QED  BY <2>2, <2>3
<1>. QED  BY <1>2, <1>7, <1>9, <1>10, HServerKeeps DEF HInv

LEMMA HServerClosesInv == HInv /\ HServerCloses => HInv'
<1>. SUFFICES ASSUME HInv, HServerCloses PROVE HInv'
  OBVIOUS
<1>1. UNCHANGED <<serverFrame, hsizes, hwritten, hwire>> /\ hconn' = "fin"
  BY DEF HServerCloses
<1>2. HTypes' /\ HPrefix' /\ HWhole'
  BY <1>1 DEF HInv, HTypes, HPrefix, HWhole, HBegun, serverFrame
<1>. QED  BY <1>1, <1>2, HServerKeeps DEF HInv

LEMMA HCallInv ==
  ASSUME HInv, NEW method \in {"get", "post"}, NEW n \in HSizes \cup {-1}, HCall(method, n)
  PROVE  HInv'
<1>. DEFINE size == IF n = -1 THEN HMaxRead ELSE n
<1>1. /\ hpc = "idle" /\ hpc' = "recv" /\ hreq' = hreq + 1 /\ hbuffer' = <<>>
      /\ hcall' = [method |-> method, n |-> size, until |-> n # -1]
      /\ hdrained' = (HAnswered /\ hwire = <<>>)
      /\ UNCHANGED <<callFrame, hwire, hresult>>
  BY DEF HCall
<1>2. size \in Nat
  BY HTTPAssumption
<1>3. hcall' # HNoCall /\ hcall' \in [method : {"none", "get", "post"}, n : Nat, until : BOOLEAN]
  <2>1. hcall'.method = method
    BY <1>1
  <2>2. HNoCall.method = "none"
    BY DEF HNoCall
  <2>. QED  BY <1>1, <1>2, <2>1, <2>2
<1>4. HTypes'
  BY <1>1, <1>3 DEF HInv, HTypes, callFrame
<1>5. HBegun' = 0
  BY <1>1 DEF HBegun, HInv, HTypes, callFrame
<1>6. HPrefix' /\ HWhole'
  <2>1. HAnswer(hreq', 0) = <<>>
    BY DEF HAnswer
  <2>2. Len(<<>>) = 0 /\ <<>> \o <<>> = <<>>
    OBVIOUS
  <2>3. HPrefix'
    BY <1>1, <1>5, <2>1, <2>2 DEF HPrefix
  <2>4. hdrained' => hwire' = <<>> /\ Len(hsizes') = hreq' - 1
                     /\ (hsizes' # <<>> => hwritten' = hsizes'[Len(hsizes')].len)
    <3>1. hsizes \in Seq(HAnswers) /\ hreq \in Nat
      BY DEF HInv, HTypes
    <3>2. hsizes # <<>> => Len(hsizes) > 0
      BY <3>1
    <3>3. hdrained' => HAnswered /\ hwire = <<>>
      BY <1>1
    <3>4. hsizes' = hsizes /\ hwritten' = hwritten /\ hwire' = hwire /\ hreq' = hreq + 1
      BY <1>1 DEF callFrame
    <3>. QED  BY <3>1, <3>2, <3>3, <3>4 DEF HAnswered
  <2>. QED  BY <1>1, <1>5, <2>1, <2>2, <2>3, <2>4 DEF HWhole
<1>. QED  BY <1>1, <1>4, <1>6 DEF HInv, HParsed

LEMMA HRefusedInv ==
  ASSUME HInv, hresult'.kind # "returned",
         UNCHANGED <<callFrame, hconn, hreq, hwire, hpc, hcall, hbuffer, hdrained>>
  PROVE  HInv'
BY DEF HInv, HTypes, HPrefix, HWhole, HParsed, HBegun, callFrame

(* Splitting what is in the wire does not change the two together.          *)
LEMMA HCut ==
  ASSUME NEW b \in Seq(HBytes), NEW w \in Seq(HBytes), NEW r \in 0 .. Len(w)
  PROVE  /\ SubSeq(w, 1, r) \in Seq(HBytes) /\ SubSeq(w, r + 1, Len(w)) \in Seq(HBytes)
         /\ b \o SubSeq(w, 1, r) \in Seq(HBytes)
         /\ (b \o SubSeq(w, 1, r)) \o SubSeq(w, r + 1, Len(w)) = b \o w
         /\ Len(b \o SubSeq(w, 1, r)) = Len(b) + r /\ Len(b) + r <= Len(b \o w)
         /\ \A i \in 1 .. Len(b \o SubSeq(w, 1, r)) : (b \o SubSeq(w, 1, r))[i] = (b \o w)[i]
<1>. DEFINE a == SubSeq(w, 1, r)
            z == SubSeq(w, r + 1, Len(w))
<1>1. a \in Seq(HBytes) /\ z \in Seq(HBytes) /\ Len(a) = r
  BY SubSeqProperties
<1>2. a \o z = w
  <2>1. 1 \in 1 .. Len(w) + 1 /\ r \in 1 - 1 .. Len(w) /\ Len(w) \in r .. Len(w)
    OBVIOUS
  <2>2. a \o z = SubSeq(w, 1, Len(w))
    BY <2>1, ConcatAdjacentSubSeq
  <2>. QED  BY <2>2, SubSeqFull
<1>. HIDE DEF a, z
<1>3. b \o a \in Seq(HBytes) /\ (b \o a) \o z = b \o w
  BY <1>1, <1>2, HRegroup, ConcatProperties, ZenonT(30)
<1>. DEFINE ba == b \o a
<1>4. /\ Len(ba) = Len(b) + r /\ Len(ba) <= Len(ba \o z)
      /\ \A i \in 1 .. Len(ba) : ba[i] = (ba \o z)[i]
  <2>1. ba \in Seq(HBytes) /\ Len(ba) = Len(b) + r
    BY <1>1, ConcatProperties
  <2>. HIDE DEF ba
  <2>2. Len(ba) \in Nat /\ Len(z) \in Nat
    BY <1>1, <2>1
  <2>3. /\ Len(ba \o z) = Len(ba) + Len(z)
        /\ \A i \in 1 .. Len(ba) + Len(z) :
             (ba \o z)[i] = IF i <= Len(ba) THEN ba[i] ELSE z[i - Len(ba)]
    BY <1>1, <2>1, HConcat
  <2>. QED  BY <2>1, <2>2, <2>3
<1>. QED  BY <1>1, <1>3, <1>4 DEF a, z

(* The beginning of an answer is one.                                       *)
LEMMA HAnswerBegins ==
  ASSUME NEW s \in Seq(HBytes), NEW q \in Nat, NEW k \in Nat, NEW all,
         all = HAnswer(q, k), Len(s) <= k,
         \A i \in 1 .. Len(s) : s[i] = all[i]
  PROVE  s = HAnswer(q, Len(s))
<1>1. HAnswer(q, Len(s)) \in Seq(HBytes) /\ Len(HAnswer(q, Len(s))) = Len(s)
  BY DEF HAnswer, HBytes
<1>2. ASSUME NEW i \in 1 .. Len(s) PROVE HAnswer(q, Len(s))[i] = s[i]
  <2>1. i \in 1 .. k
    OBVIOUS
  <2>2. s[i] = HAnswer(q, k)[i]
    OBVIOUS
  <2>. QED  BY <2>1, <2>2 DEF HAnswer
<1>. QED  BY <1>1, <1>2, SeqEqual

LEMMA HBegunType ==
  ASSUME HTypes
  PROVE  HBegun \in Nat /\ \A q \in Nat : Len(HAnswer(q, HBegun)) = HBegun
BY DEF HTypes, HBegun, HAnswer

LEMMA HRecvInv == HInv /\ HRecv => HInv'
<1>. SUFFICES ASSUME HInv, HRecv PROVE HInv'
  OBVIOUS
<1>. DEFINE r == IF Len(hwire) < HRoom THEN Len(hwire) ELSE HRoom
            got == SubSeq(hwire, 1, r)
            rest == SubSeq(hwire, r + 1, Len(hwire))
<1>1. /\ hpc = "recv" /\ hwire' = rest /\ hbuffer' = hbuffer \o got
      /\ hpc' \in {"parse", "recv"}
      /\ UNCHANGED <<callFrame, hreq, hcall, hdrained, hresult>>
  BY DEF HRecv
<1>2. /\ hwire \in Seq(HBytes) /\ hbuffer \in Seq(HBytes) /\ hcall.n \in Nat
      /\ Len(hbuffer) <= hcall.n /\ hreq \in Nat /\ HTypes
  BY <1>1 DEF HInv, HTypes
<1>3. r \in 0 .. Len(hwire)
  BY <1>2 DEF HRoom
<1>. HIDE DEF r
<1>4. /\ rest \in Seq(HBytes) /\ hbuffer \o got \in Seq(HBytes)
      /\ (hbuffer \o got) \o rest = hbuffer \o hwire
      /\ Len(hbuffer \o got) = Len(hbuffer) + r /\ Len(hbuffer) + r <= Len(hbuffer \o hwire)
      /\ \A i \in 1 .. Len(hbuffer \o got) : (hbuffer \o got)[i] = (hbuffer \o hwire)[i]
  BY <1>2, <1>3, HCut
<1>5. Len(hbuffer \o got) <= hcall.n
  BY <1>2, <1>4 DEF r, HRoom
<1>. HIDE DEF got, rest
<1>6. HTypes'
  BY <1>1, <1>2, <1>4, <1>5 DEF HTypes, callFrame
<1>7. HBegun' = HBegun /\ HBegun \in Nat /\ Len(HAnswer(hreq, HBegun)) = HBegun
  BY <1>1, <1>2, HBegunType DEF HBegun, callFrame
<1>8. HWhole'
  BY <1>1, <1>4, <1>7 DEF HInv, HWhole, callFrame
<1>9. HPrefix'
  <2>. SUFFICES ASSUME hdrained
                PROVE  Len(hbuffer') <= HBegun /\ hbuffer' = HAnswer(hreq, Len(hbuffer'))
    BY <1>1, <1>7 DEF HPrefix
  <2>1. hbuffer \o hwire = HAnswer(hreq, HBegun)
    BY <1>1 DEF HInv, HWhole
  <2>2. hbuffer \o got = HAnswer(hreq, Len(hbuffer \o got))
    <3>. DEFINE s == hbuffer \o got
                all == hbuffer \o hwire
    <3>1. /\ s \in Seq(HBytes) /\ all = HAnswer(hreq, HBegun) /\ Len(s) <= Len(all)
          /\ \A i \in 1 .. Len(s) : s[i] = all[i]
      BY <1>4, <2>1
    <3>. HIDE DEF s, all
    <3>2. Len(s) <= HBegun
      BY <1>7, <3>1
    <3>3. s = HAnswer(hreq, Len(s))
      BY <1>2, <1>7, <3>1, <3>2, HAnswerBegins
    <3>. QED  BY <3>3 DEF s
  <2>. QED  BY <1>1, <1>4, <1>7, <2>1, <2>2
<1>10. HParsed'
  BY <1>1 DEF HParsed
<1>. QED  BY <1>6, <1>8, <1>9, <1>10 DEF HInv

LEMMA HStillInv ==
  ASSUME HInv, hpc # "idle", hpc' # "idle", hpc' \in {"recv", "parse"},
         UNCHANGED <<callFrame, hreq, hwire, hcall, hbuffer, hdrained, hresult>>
  PROVE  HInv'
BY DEF HInv, HTypes, HPrefix, HWhole, HParsed, HBegun, callFrame

LEMMA HParseInv == HInv /\ HParse => HInv'
<1>. SUFFICES ASSUME HInv, HParse PROVE HInv'
  OBVIOUS
<1>1. /\ hpc' = "idle" /\ hresult' = HOutcome
      /\ UNCHANGED <<callFrame, hreq, hwire, hcall, hbuffer, hdrained>>
  BY DEF HParse
<1>2. HTypes' /\ HPrefix' /\ HWhole'
  BY <1>1 DEF HInv, HTypes, HPrefix, HWhole, HBegun, callFrame
<1>3. HOutcome.kind = "returned" =>
        /\ hbuffer # <<>> /\ HFind(HText, HHead) # 0
        /\ HOutcome.body = SubSeq(HText, HFind(HText, HHead) + 1, Len(HText))
  BY DEF HOutcome, HUndefined
<1>4. HParsed'
  BY <1>1, <1>3 DEF HParsed, HText
<1>. QED  BY <1>2, <1>4 DEF HInv

LEMMA HCloseInv == HInv /\ HClose => HInv'
<1>. SUFFICES ASSUME HInv, HClose PROVE HInv'
  OBVIOUS
<1>1. /\ hpc = "idle" /\ hconn' = "closed" /\ hwire' = <<>>
      /\ UNCHANGED <<hreq, hsizes, hwritten, hpc, hcall, hbuffer, hdrained, hresult>>
  BY DEF HClose
<1>2. <<>> \in Seq(HBytes)
  OBVIOUS
<1>3. HTypes'
  BY <1>1, <1>2 DEF HInv, HTypes
<1>4. HPrefix' /\ HWhole' /\ HParsed'
  BY <1>1 DEF HInv, HPrefix, HWhole, HParsed, HBegun, HText
<1>. QED  BY <1>3, <1>4 DEF HInv

LEMMA HStepInv == HInv /\ [HNext]_hvars => HInv'
<1>. SUFFICES ASSUME HInv, [HNext]_hvars PROVE HInv'
  OBVIOUS
<1>1. CASE UNCHANGED hvars
  BY <1>1 DEF hvars, HInv, HTypes, HPrefix, HWhole, HParsed, HBegun, HText
<1>2. CASE HServer
  BY <1>2, HBeginInv, HArriveInv, HServerClosesInv DEF HServer
<1>3. CASE HStep
  <2>1. CASE HRecvNothing
    BY <2>1, HStillInv DEF HRecvNothing
  <2>. QED  BY <1>3, <2>1, HRecvInv, HParseInv DEF HStep
<1>4. CASE HCallClosed
  <2>1. hresult'.kind # "returned"
    BY <1>4 DEF HCallClosed, HUndefined
  <2>2. UNCHANGED <<callFrame, hreq, hwire, hpc, hcall, hbuffer, hdrained>>
    BY <1>4 DEF HCallClosed
  <2>. QED  BY <2>1, <2>2, HRefusedInv DEF callFrame
<1>5. ASSUME NEW n \in HSizes \cup {-1}, HGet(n) PROVE HInv'
  <2>1. CASE n = -1
    <3>1. hresult'.kind # "returned"
      BY <1>5, <2>1 DEF HGet
    <3>2. UNCHANGED <<callFrame, hreq, hwire, hpc, hcall, hbuffer, hdrained>>
      BY <1>5, <2>1 DEF HGet
    <3>. QED  BY <3>1, <3>2, HRefusedInv DEF callFrame
  <2>2. CASE n # -1
    <3>1. HCall("get", n)
      BY <1>5, <2>2 DEF HGet
    <3>. QED  BY <3>1, HCallInv
  <2>. QED  BY <2>1, <2>2
<1>6. ASSUME NEW n \in HSizes \cup {-1}, HPost(n) PROVE HInv'
  BY <1>6, HCallInv DEF HPost
<1>. QED  BY <1>1, <1>2, <1>3, <1>4, <1>5, <1>6, HCloseInv DEF HNext

LEMMA HInvariance == HSpec => []HInv
BY HInitInv, HStepInv, PTL DEF HSpec

(* The end of the header is where it was written, or not there.             *)
LEMMA HFindHead ==
  ASSUME NEW q \in Nat, NEW m \in Nat, NEW text, text = HAnswer(q, m), HFind(text, HHead) # 0
  PROVE  HHead \in 1 .. m /\ HFind(text, HHead) = HHead
<1>. DEFINE at == {i \in DOMAIN text : text[i][2] = HHead}
<1>1. DOMAIN text = 1 .. m /\ \A i \in 1 .. m : text[i][2] = i
  BY DEF HAnswer
<1>2. at # {}
  BY DEF HFind
<1>3. at = {HHead} /\ HHead \in 1 .. m
  BY <1>1, <1>2
<1>4. HFind(text, HHead) = CHOOSE i \in at : \A j \in at : i <= j
  BY <1>2 DEF HFind
<1>5. \E i \in at : \A j \in at : i <= j
  BY <1>3
<1>6. HFind(text, HHead) \in at
  BY <1>4, <1>5
<1>. QED  BY <1>3, <1>6

(* What is behind the header in the beginning of an answer.                 *)
LEMMA HBodyBegins ==
  ASSUME NEW q \in Nat, NEW m \in Nat, HHead \in 1 .. m
  PROVE  SubSeq(HAnswer(q, m), HHead + 1, m) = [i \in 1 .. m - HHead |-> <<q, HHead + i>>]
<1>. DEFINE a == HAnswer(q, m)
            s == SubSeq(a, HHead + 1, m)
<1>1. a \in Seq(HBytes) /\ Len(a) = m /\ \A i \in 1 .. m : a[i] = <<q, i>>
  BY DEF HAnswer, HBytes
<1>. HIDE DEF a
<1>2. /\ s \in Seq(HBytes) /\ Len(s) = m - HHead
      /\ \A i \in 1 .. m - HHead : s[i] = a[HHead + i]
  BY <1>1, SubSeqProperties
<1>. HIDE DEF s
<1>3. s = [i \in 1 .. m - HHead |-> s[i]]
  BY <1>2
<1>4. \A i \in 1 .. m - HHead : s[i] = <<q, HHead + i>>
  BY <1>1, <1>2
<1>. QED  BY <1>3, <1>4 DEF s, a

(* What a call that has returned is about.                                  *)
LEMMA HReturnedBody ==
  ASSUME HInv, HReturned, hdrained
  PROVE  /\ Len(hsizes) = hreq /\ hreq \in 1 .. Len(hsizes) /\ hsizes[hreq].len \in Nat
         /\ Len(hbuffer) <= hsizes[hreq].len
         /\ Len(HText) \in Nat /\ Len(HText) <= Len(hbuffer)
         /\ HHead \in 1 .. Len(HText)
         /\ hresult.body = [i \in 1 .. Len(HText) - HHead |-> <<hreq, HHead + i>>]
<1>. DEFINE m == IF Len(hbuffer) < hcall.n THEN Len(hbuffer) ELSE hcall.n - 1
<1>1. /\ HTypes /\ hbuffer # <<>> /\ Len(hbuffer) <= HBegun
      /\ hbuffer = HAnswer(hreq, Len(hbuffer)) /\ HFind(HText, HHead) # 0
      /\ hresult.body = SubSeq(HText, HFind(HText, HHead) + 1, Len(HText))
  BY DEF HInv, HReturned, HPrefix, HParsed
<1>2. /\ hbuffer \in Seq(HBytes) /\ hcall.n \in Nat /\ Len(hbuffer) <= hcall.n
      /\ hreq \in Nat /\ hsizes \in Seq(HAnswers) /\ hwritten \in Nat
  BY <1>1 DEF HTypes
<1>3. Len(hbuffer) > 0
  BY <1>1, <1>2
<1>4. Len(hsizes) = hreq /\ HBegun = hwritten
  BY <1>1, <1>2, <1>3 DEF HBegun
<1>5. hsizes # <<>> /\ hwritten <= hsizes[Len(hsizes)].len
  BY <1>1, <1>2, <1>3, <1>4 DEF HTypes
<1>6. hreq \in 1 .. Len(hsizes) /\ hsizes[hreq] \in HAnswers
  BY <1>2, <1>4, <1>5
<1>7. hsizes[hreq].len \in Nat
  BY <1>6, HTTPAssumption DEF HAnswers
<1>8. m \in 0 .. Len(hbuffer)
  BY <1>2, <1>3
<1>9. HText = HAnswer(hreq, m) /\ Len(HText) = m
  <2>1. HText = SubSeq(hbuffer, 1, m)
    BY DEF HText
  <2>. HIDE DEF m
  <2>2. /\ HText \in Seq(HBytes) /\ Len(HText) = m
        /\ \A i \in 1 .. m : HText[i] = hbuffer[i]
    BY <1>2, <1>8, <2>1, SubSeqProperties
  <2>3. HText = HAnswer(hreq, Len(HText))
    <3>1. Len(hbuffer) \in Nat /\ Len(HText) <= Len(hbuffer)
          /\ \A i \in 1 .. Len(HText) : HText[i] = hbuffer[i]
      BY <1>2, <1>8, <2>2
    <3>. QED  BY <1>1, <1>2, <2>2, <3>1, HAnswerBegins
  <2>. QED  BY <2>2, <2>3
<1>. HIDE DEF m
<1>10. HHead \in 1 .. m /\ HFind(HText, HHead) = HHead
  BY <1>1, <1>2, <1>8, <1>9, HFindHead
<1>11. hresult.body = [i \in 1 .. m - HHead |-> <<hreq, HHead + i>>]
  <2>1. hresult.body = SubSeq(HAnswer(hreq, m), HHead + 1, m)
    BY <1>1, <1>9, <1>10
  <2>2. m \in Nat
    BY <1>8
  <2>. QED  BY <1>2, <1>10, <2>1, <2>2, HBodyBegins
<1>12. Len(hbuffer) <= hsizes[hreq].len
  BY <1>1, <1>2, <1>4, <1>5, <1>7
<1>13. Len(HText) \in Nat /\ Len(HText) <= Len(hbuffer)
  BY <1>2, <1>8, <1>9
<1>. QED  BY <1>4, <1>6, <1>7, <1>9, <1>10, <1>11, <1>12, <1>13

(* A call that finds nothing left of earlier answers returns the beginning  *)
(* of the body of its own answer (http_client.cpp:37-54, 78-118).           *)
THEOREM OwnAnswer == HSpec => []HOwnAnswer
<1>1. HInv => HOwnAnswer
  <2>. SUFFICES ASSUME HInv, HReturned, hdrained
                PROVE  /\ Len(hsizes) = hreq /\ Len(hresult.body) <= Len(HBody(hreq))
                       /\ hresult.body = SubSeq(HBody(hreq), 1, Len(hresult.body))
    BY DEF HOwnAnswer
  <2>. DEFINE k == Len(HText) - HHead
              n == hsizes[hreq].len - HHead
              body == HBody(hreq)
  <2>1. /\ Len(hsizes) = hreq /\ hreq \in Nat /\ k \in Nat /\ n \in Nat /\ k <= n
        /\ hresult.body = [i \in 1 .. k |-> <<hreq, HHead + i>>]
    BY HReturnedBody DEF HInv, HTypes
  <2>2. /\ body \in Seq(HBytes) /\ Len(body) = n
        /\ \A i \in 1 .. n : body[i] = <<hreq, HHead + i>>
    <3>1. body = [i \in 1 .. n |-> <<hreq, HHead + i>>]
      BY DEF HBody
    <3>. HIDE DEF n, body
    <3>2. \A i \in 1 .. n : <<hreq, HHead + i>> \in HBytes
      BY <2>1, HTTPAssumption DEF HBytes
    <3>. QED  BY <2>1, <3>1, <3>2
  <2>3. hresult.body \in Seq(HBytes) /\ Len(hresult.body) = k
        /\ \A i \in 1 .. k : hresult.body[i] = <<hreq, HHead + i>>
    BY <2>1, HTTPAssumption DEF HBytes
  <2>. HIDE DEF k, n, body
  <2>4. /\ SubSeq(body, 1, k) \in Seq(HBytes) /\ Len(SubSeq(body, 1, k)) = k
        /\ \A i \in 1 .. k : SubSeq(body, 1, k)[i] = body[i]
    BY <2>1, <2>2, SubSeqProperties
  <2>5. hresult.body = SubSeq(body, 1, k)
    <3>1. \A i \in 1 .. k : hresult.body[i] = SubSeq(body, 1, k)[i]
      BY <2>1, <2>2, <2>3, <2>4
    <3>. QED  BY <2>3, <2>4, <3>1, SeqEqual
  <2>. QED  BY <2>1, <2>2, <2>3, <2>5 DEF body
<1>. QED  BY <1>1, HInvariance, PTL

(* If the answer had arrived whole and the buffer has a byte more than it,  *)
(* then all of the body is returned (http_client.cpp:38-41, 79-82).         *)
THEOREM WholeAnswer == HSpec => []HWholeAnswer
<1>1. HInv => HWholeAnswer
  <2>. SUFFICES ASSUME HInv, HReturned, hdrained,
                       Len(hbuffer) = hsizes[hreq].len, hcall.n > Len(hbuffer)
                PROVE  hresult.body = HBody(hreq)
    BY DEF HWholeAnswer
  <2>1. hbuffer \in Seq(HBytes)
    BY DEF HInv, HTypes
  <2>2. HText = SubSeq(hbuffer, 1, Len(hbuffer))
    BY DEF HText, HInv, HTypes
  <2>3. HText = hbuffer
    BY <2>1, <2>2, SubSeqFull
  <2>. QED  BY <2>3, HReturnedBody DEF HBody
<1>. QED  BY <1>1, HInvariance, PTL

-----------------------------------------------------------------------------
(* UDPClient.  The thread inside readS holds the mutex, so nothing is       *)
(* logged between its pieces; what it asked for is never exceeded.          *)

UIds == (UHosts \cup {"unset"}) \X Nat
UDatagrams == [id : UIds, len : Nat]
UReading == {"read", "recvfrom", "return"}

UTypes ==
  /\ ufd \in 0 .. UMaxOpens /\ uaddr \in UHosts \cup {"unset"}
  /\ uinbox \in [USocks -> Seq(UDatagrams)] /\ usent \in [UHosts -> Nat]
  /\ upc \in [UThreads -> {"idle", "lookup"} \cup UReading]
  /\ ucall \in [UThreads -> [host : UHosts \cup {"unset"}, size : Nat, until : BOOLEAN]]
  /\ usock \in [UThreads -> 0 .. UMaxOpens]
  /\ upieces \in [UThreads -> Seq(UDatagrams)]
  /\ ulog \in Seq(UIds)

UHolding ==
  \A t \in UThreads :
    /\ upc[t] \in UReading <=> umutex = t
    /\ upc[t] \in UReading => ufd > 0
    /\ upc[t] = "recvfrom" => usock[t] \in USocks
    /\ upc[t] \notin UReading => upieces[t] = <<>>

(* The last of what is logged are the pieces.                               *)
UEndsLog(pieces, log) ==
  /\ Len(pieces) <= Len(log)
  /\ \A i \in 1 .. Len(pieces) : pieces[i].id = log[Len(log) - Len(pieces) + i]

UInv ==
  /\ UTypes /\ UHolding
  /\ \A t \in UThreads :
       /\ UEndsLog(upieces[t], ulog)
       /\ upc[t] \in UReading => UGot(upieces[t]) <= ucall[t].size

(* What UGot is at each place.                                              *)
UGotUpTo(pieces, f) ==
  f[0] = 0 /\ \A i \in 1 .. Len(pieces) : f[i] = f[i - 1] + pieces[i].len

LEMMA UGotUnfolds ==
  ASSUME NEW p \in Seq(UDatagrams)
  PROVE  \E f \in [0 .. Len(p) -> Nat] : UGotUpTo(p, f) /\ UGot(p) = f[Len(p)]
<1>. DEFINE n == Len(p)
            f[i \in 0 .. n] == IF i = 0 THEN 0 ELSE f[i - 1] + p[i].len
            step == [q \in Nat \X Nat |-> IF q[2] \in 1 .. n THEN q[1] + p[q[2]].len ELSE q[1]]
<1>1. n \in Nat /\ \A i \in 1 .. n : p[i].len \in Nat
  <2>1. \A i \in 1 .. n : p[i] \in UDatagrams
    OBVIOUS
  <2>2. \A d \in UDatagrams : d.len \in Nat
    BY DEF UDatagrams
  <2>. QED  BY <2>1, <2>2
<1>2. /\ step \in [Nat \X Nat -> Nat]
      /\ \A q \in Nat, j \in 1 .. n : step[<<q, j>>] = q + p[j].len
  BY <1>1
<1>3. PICK h \in [0 .. n -> Nat] : h[0] = 0 /\ \A i \in 1 .. n : h[i] = step[<<h[i - 1], i>>]
  <2>. HIDE DEF step, n
  <2>1. Recursion(Nat, 0, step, n) # {}
    BY <1>1, <1>2, RecursionExists
  <2>. QED  BY <2>1 DEF Recursion
<1>4. \A i \in 1 .. n : i \in 0 .. n /\ i - 1 \in 0 .. n /\ i # 0
  BY <1>1
<1>5. \A i \in 1 .. n : h[i] = h[i - 1] + p[i].len
  <2>. HIDE DEF step, n
  <2>. QED  BY <1>2, <1>3, <1>4
<1>. HIDE DEF step
<1>6. h = [i \in 0 .. n |-> IF i = 0 THEN 0 ELSE h[i - 1] + p[i].len]
  <2>1. \A i \in 0 .. n : i # 0 => i \in 1 .. n
    BY <1>1
  <2>2. \A i \in 0 .. n : h[i] = IF i = 0 THEN 0 ELSE h[i - 1] + p[i].len
    BY <1>3, <1>5, <2>1
  <2>3. h = [i \in 0 .. n |-> h[i]]
    OBVIOUS
  <2>. QED  BY <2>2, <2>3
<1>7. f = CHOOSE g : g = [i \in 0 .. n |-> IF i = 0 THEN 0 ELSE g[i - 1] + p[i].len]
  BY DEF f
<1>8. UGot(p) = f[n]
  BY DEF UGot
<1>. HIDE DEF f
<1>9. f = [i \in 0 .. n |-> IF i = 0 THEN 0 ELSE f[i - 1] + p[i].len]
  BY <1>6, <1>7, Zenon
<1>10. f[0] = 0 /\ \A i \in 1 .. n : f[i] = f[i - 1] + p[i].len
  <2>1. 0 \in 0 .. n
    BY <1>1
  <2>. HIDE DEF n
  <2>. QED  BY <1>4, <1>9, <2>1
<1>11. \A i \in 0 .. n : f[i] = h[i]
  <2>. DEFINE S == {k \in Nat : k <= n => f[k] = h[k]}
  <2>1. 0 \in S
    BY <1>3, <1>10
  <2>2. ASSUME NEW k \in S, k + 1 <= n PROVE f[k + 1] = h[k + 1]
    <3>1. k + 1 \in 1 .. n /\ (k + 1) - 1 = k /\ f[k] = h[k]
      BY <1>1, <2>2
    <3>. QED  BY <1>5, <1>10, <3>1
  <2>3. S = Nat
    <3>1. S \in SUBSET Nat /\ \A k \in S : k + 1 \in S
      BY <2>2
    <3>. HIDE DEF S
    <3>. QED  BY <2>1, <3>1, SetInduction
  <2>. QED  BY <1>1, <2>3
<1>12. f = h
  BY <1>9, <1>11
<1>. QED  BY <1>5, <1>3, <1>8, <1>12 DEF UGotUpTo

LEMMA UGotEmpty == UGot(<<>>) = 0
<1>1. <<>> \in Seq(UDatagrams) /\ Len(<<>>) = 0
  OBVIOUS
<1>2. PICK f \in [0 .. Len(<<>>) -> Nat] : UGotUpTo(<<>>, f) /\ UGot(<<>>) = f[Len(<<>>)]
  BY <1>1, UGotUnfolds
<1>. QED  BY <1>1, <1>2 DEF UGotUpTo

LEMMA UGotAppend ==
  ASSUME NEW p \in Seq(UDatagrams), NEW d \in UDatagrams
  PROVE  UGot(p) \in Nat /\ UGot(Append(p, d)) = UGot(p) + d.len
<1>. DEFINE n == Len(p)
            q == Append(p, d)
<1>1. /\ n \in Nat /\ q \in Seq(UDatagrams) /\ Len(q) = n + 1
      /\ q[n + 1] = d /\ \A i \in 1 .. n : q[i] = p[i]
  OBVIOUS
<1>2. PICK f \in [0 .. n -> Nat] : UGotUpTo(p, f) /\ UGot(p) = f[n]
  BY UGotUnfolds
<1>3. PICK g \in [0 .. n + 1 -> Nat] : UGotUpTo(q, g) /\ UGot(q) = g[n + 1]
  <2>. HIDE DEF q
  <2>1. \E g \in [0 .. Len(q) -> Nat] : UGotUpTo(q, g) /\ UGot(q) = g[Len(q)]
    BY <1>1, UGotUnfolds
  <2>. QED  BY <1>1, <2>1
<1>. HIDE DEF q
<1>4. f[n] = g[n]
  <2>. DEFINE S == {k \in Nat : k <= n => f[k] = g[k]}
  <2>1. 0 \in S
    BY <1>2, <1>3 DEF UGotUpTo
  <2>2. ASSUME NEW k \in S, k + 1 <= n PROVE f[k + 1] = g[k + 1]
    <3>1. k + 1 \in 1 .. Len(p) /\ k + 1 \in 1 .. Len(q) /\ (k + 1) - 1 = k /\ f[k] = g[k]
      BY <1>1, <2>2
    <3>2. f[k + 1] = f[k] + p[k + 1].len
      BY <1>2, <3>1 DEF UGotUpTo
    <3>3. g[k + 1] = g[k] + q[k + 1].len
      BY <1>3, <3>1 DEF UGotUpTo
    <3>. QED  BY <1>1, <3>1, <3>2, <3>3
  <2>3. S = Nat
    <3>1. S \in SUBSET Nat /\ \A k \in S : k + 1 \in S
      BY <2>2
    <3>. HIDE DEF S
    <3>. QED  BY <2>1, <3>1, SetInduction
  <2>. QED  BY <1>1, <2>3
<1>5. g[n + 1] = g[n] + q[n + 1].len
  <2>1. n + 1 \in 1 .. Len(q) /\ (n + 1) - 1 = n
    BY <1>1
  <2>. QED  BY <1>3, <2>1 DEF UGotUpTo
<1>6. f[n] \in Nat
  BY <1>1
<1>. QED  BY <1>1, <1>2, <1>3, <1>4, <1>5, <1>6 DEF q

(* Nothing in hand; one more received, one more logged.                     *)
LEMMA UEndsLogEmpty ==
  ASSUME NEW log \in Seq(UIds)
  PROVE  UEndsLog(<<>>, log)
BY DEF UEndsLog

LEMMA UEndsLogAppend ==
  ASSUME NEW p \in Seq(UDatagrams), NEW log \in Seq(UIds), UEndsLog(p, log),
         NEW d \in UDatagrams, NEW id \in UIds, d.id = id
  PROVE  UEndsLog(Append(p, d), Append(log, id))
BY SMTT(30) DEF UEndsLog

LEMMA UInitInv == UInit => UInv
<1>. SUFFICES ASSUME UInit PROVE UInv
  OBVIOUS
<1>1. UTypes
  BY UDPClientAssumption DEF UInit, UTypes, UReading, UNoCall
<1>2. UHolding
  BY UDPClientAssumption DEF UInit, UHolding, UReading
<1>3. \A t \in UThreads : UEndsLog(upieces[t], ulog) /\ upc[t] \notin UReading
  <2>1. <<>> \in Seq(UIds)
    OBVIOUS
  <2>. QED  BY <2>1, UEndsLogEmpty DEF UInit, UReading
<1>. QED  BY <1>1, <1>2, <1>3 DEF UInv

(* While another thread, or none, is inside readS, nothing is in hand.      *)
LEMMA UNothing ==
  ASSUME UInv, NEW t \in UThreads, umutex # t
  PROVE  /\ upieces[t] = <<>> /\ upc[t] \notin UReading
         /\ \A log \in Seq(UIds) : UEndsLog(upieces[t], log)
BY UEndsLogEmpty DEF UInv, UHolding

LEMMA UStepInv == UInv /\ [UNext]_uvars => UInv'
<1>. SUFFICES ASSUME UInv, [UNext]_uvars PROVE UInv'
  OBVIOUS
<1>0. UTypes /\ UHolding /\ \A t \in UThreads : UEndsLog(upieces[t], ulog)
  BY DEF UInv
<1>1. CASE UNCHANGED uvars
  BY <1>0, <1>1 DEF UInv, uvars, UTypes, UHolding, UReading
<1>2. ASSUME NEW h \in UHosts, NEW k \in USocks, UArrive(h, k) PROVE UInv'
  <2>1. usent[h] \in Nat /\ uinbox[k] \in Seq(UDatagrams)
    BY <1>0 DEF UTypes
  <2>2. \A len \in 0 .. UMaxLen : [id |-> <<h, usent[h] + 1>>, len |-> len] \in UDatagrams
    BY <2>1, UDPClientAssumption DEF UDatagrams, UIds
  <2>3. uinbox' \in [USocks -> Seq(UDatagrams)] /\ usent' \in [UHosts -> Nat]
    BY <1>0, <1>2, <2>1, <2>2 DEF UArrive, UTypes
  <2>4. UNCHANGED <<ufd, uaddr, umutex, upc, ucall, usock, upieces, ulog>>
    BY <1>2 DEF UArrive
  <2>. QED  BY <2>3, <2>4 DEF UInv, UTypes, UHolding, UReading
<1>3. ASSUME NEW t \in UThreads, UOpen(t) PROVE UInv'
  <2>1. /\ upc' = [upc EXCEPT ![t] = "lookup"] /\ upc[t] = "idle"
        /\ ufd' = ufd + 1 /\ ufd < UMaxOpens
        /\ \E h \in UHosts : ucall' = [ucall EXCEPT ![t].host = h]
        /\ UNCHANGED <<uaddr, umutex, uinbox, usent, usock, upieces, ulog>>
    BY <1>3 DEF UOpen
  <2>0. ufd' \in 0 .. UMaxOpens /\ ufd' > 0
    BY <1>0, <2>1, UDPClientAssumption DEF UTypes
  <2>2. UTypes'
    BY <1>0, <2>0, <2>1, ZenonT(30) DEF UTypes
  <2>3. UHolding'
    BY <1>0, <2>0, <2>1 DEF UTypes, UHolding, UReading
  <2>4. \A u \in UThreads : ucall'[u].size = ucall[u].size
    BY <1>0, <2>1 DEF UTypes
  <2>. QED  BY <1>0, <2>1, <2>2, <2>3, <2>4 DEF UInv, UTypes, UReading
<1>4. ASSUME NEW t \in UThreads, UResolved(t) PROVE UInv'
  <2>1. /\ upc' = [upc EXCEPT ![t] = "idle"] /\ upc[t] = "lookup"
        /\ uaddr' \in {uaddr, ucall[t].host}
        /\ ucall' = [ucall EXCEPT ![t] = UNoCall]
        /\ UNCHANGED <<ufd, umutex, uinbox, usent, usock, upieces, ulog>>
    BY <1>4 DEF UResolved
  <2>2. UTypes'
    BY <1>0, <2>1 DEF UTypes, UNoCall
  <2>3. UHolding'
    BY <1>0, <2>1 DEF UTypes, UHolding, UReading
  <2>. QED  BY <1>0, <2>1, <2>2, <2>3 DEF UInv, UTypes, UReading
<1>5. ASSUME NEW t \in UThreads, UReadS(t) PROVE UInv'
  <2>1. /\ upc' = [upc EXCEPT ![t] = "read"] /\ upc[t] = "idle"
        /\ umutex = "free" /\ umutex' = t /\ ufd > 0
        /\ \E size \in 1 .. UMaxSize, until \in BOOLEAN :
             ucall' = [ucall EXCEPT ![t].size = size, ![t].until = until]
        /\ UNCHANGED <<ufd, uaddr, uinbox, usent, usock, upieces, ulog>>
    BY <1>5 DEF UReadS
  <2>2. UTypes'
    <3>1. ucall' \in [UThreads -> [host : UHosts \cup {"unset"}, size : Nat, until : BOOLEAN]]
      <4>1. ucall \in [UThreads -> [host : UHosts \cup {"unset"}, size : Nat, until : BOOLEAN]]
        BY <1>0 DEF UTypes
      <4>2. PICK size \in 1 .. UMaxSize, until \in BOOLEAN :
              ucall' = [[ucall EXCEPT ![t].size = size] EXCEPT ![t].until = until]
        BY <2>1, <4>1
      <4>3. size \in Nat
        BY UDPClientAssumption
      <4>4. [ucall EXCEPT ![t].size = size]
              \in [UThreads -> [host : UHosts \cup {"unset"}, size : Nat, until : BOOLEAN]]
        BY <4>1, <4>3
      <4>. QED  BY <4>2, <4>4
    <3>2. upc' \in [UThreads -> {"idle", "lookup"} \cup UReading]
      BY <1>0, <2>1 DEF UTypes, UReading
    <3>. QED  BY <1>0, <2>1, <3>1, <3>2 DEF UTypes
  <2>3. UHolding'
    BY <1>0, <2>1, UDPClientAssumption DEF UTypes, UHolding, UReading
  <2>4. upieces[t] = <<>> /\ ucall'[t].size \in Nat
    BY <1>0, <2>1, <2>2 DEF UHolding, UReading, UTypes
  <2>5. UGot(upieces'[t]) <= ucall'[t].size
    BY <2>1, <2>4, UGotEmpty
  <2>6. \A u \in UThreads : upc'[u] \in UReading => u = t
    BY <2>1, <2>3 DEF UHolding
  <2>. QED  BY <1>0, <2>1, <2>2, <2>3, <2>5, <2>6 DEF UInv
<1>6. ASSUME NEW t \in UThreads, URecvEnter(t) PROVE UInv'
  <2>1. /\ upc' = [upc EXCEPT ![t] = "recvfrom"] /\ upc[t] = "read"
        /\ usock' = [usock EXCEPT ![t] = ufd]
        /\ UNCHANGED <<ufd, uaddr, umutex, uinbox, usent, ucall, upieces, ulog>>
    BY <1>6 DEF URecvEnter
  <2>2. UTypes'
    BY <1>0, <2>1 DEF UTypes, UReading
  <2>3. UHolding'
    BY <1>0, <2>1, UDPClientAssumption DEF UTypes, UHolding, UReading, USocks
  <2>. QED  BY <1>0, <2>1, <2>2, <2>3 DEF UInv, UTypes, UReading
<1>7. ASSUME NEW t \in UThreads, URecvFrom(t) PROVE UInv'
  <2>. DEFINE k == usock[t]
              d == Head(uinbox[k])
              cut == [d EXCEPT !.len = UMin(d.len, URoom(t))]
  <2>1. /\ k \in USocks /\ uinbox[k] # <<>> /\ upc[t] = "recvfrom" /\ umutex = t
        /\ uinbox' = [uinbox EXCEPT ![k] = Tail(@)]
        /\ uaddr' = d.id[1] /\ ulog' = Append(ulog, d.id)
        /\ upieces' = [upieces EXCEPT ![t] = Append(upieces[t], cut)]
        /\ \E pc \in {"return", "read"} : upc' = [upc EXCEPT ![t] = pc]
        /\ usock' = [usock EXCEPT ![t] = 0]
        /\ UNCHANGED <<ufd, umutex, usent, ucall>>
    BY <1>0, <1>7 DEF URecvFrom, UHolding, UReading
  <2>2. d \in UDatagrams /\ Tail(uinbox[k]) \in Seq(UDatagrams)
    <3>1. uinbox[k] \in Seq(UDatagrams) /\ uinbox[k] # <<>>
      BY <1>0, <2>1 DEF UTypes
    <3>. QED  BY <3>1, HeadTailProperties
  <2>. HIDE DEF d, k
  <2>3. /\ upieces[t] \in Seq(UDatagrams) /\ ucall[t].size \in Nat
        /\ UGot(upieces[t]) \in Nat /\ UGot(upieces[t]) <= ucall[t].size
    <3>1. upieces[t] \in Seq(UDatagrams) /\ ucall[t].size \in Nat
          /\ UGot(upieces[t]) <= ucall[t].size
      BY <1>0, <2>1 DEF UInv, UTypes, UReading
    <3>. QED  BY <2>2, <3>1, UGotAppend
  <2>4. d.len \in Nat /\ d.id \in UIds /\ d.id[1] \in UHosts \cup {"unset"}
    BY <2>2 DEF UDatagrams, UIds
  <2>5. UMin(d.len, URoom(t)) \in Nat /\ UMin(d.len, URoom(t)) <= ucall[t].size - UGot(upieces[t])
    BY <2>3, <2>4 DEF UMin, URoom
  <2>6. cut \in UDatagrams /\ cut.id = d.id /\ cut.len = UMin(d.len, URoom(t))
    BY <2>2, <2>5 DEF UDatagrams
  <2>. HIDE DEF cut
  <2>7. UGot(Append(upieces[t], cut)) <= ucall[t].size
    <3>1. UGot(Append(upieces[t], cut)) = UGot(upieces[t]) + cut.len
      BY <2>3, <2>6, UGotAppend
    <3>. QED  BY <2>3, <2>5, <2>6, <3>1
  <2>8. /\ Append(upieces[t], cut) \in Seq(UDatagrams) /\ ulog' \in Seq(UIds)
        /\ UEndsLog(Append(upieces[t], cut), ulog')
    <3>1. ulog \in Seq(UIds) /\ UEndsLog(upieces[t], ulog)
      BY <1>0 DEF UTypes
    <3>2. UEndsLog(Append(upieces[t], cut), Append(ulog, d.id))
      BY <2>3, <2>4, <2>6, <3>1, UEndsLogAppend
    <3>. QED  BY <2>1, <2>3, <2>4, <2>6, <3>1, <3>2
  <2>9. upieces'[t] = Append(upieces[t], cut)
    BY <1>0, <2>1 DEF UTypes
  <2>10. UTypes'
    <3>1. ufd' \in 0 .. UMaxOpens /\ uaddr' \in UHosts \cup {"unset"} /\ ulog' \in Seq(UIds)
      BY <1>0, <2>1, <2>4, <2>8 DEF UTypes
    <3>2. uinbox' \in [USocks -> Seq(UDatagrams)]
      BY <1>0, <2>1, <2>2 DEF UTypes
    <3>3. /\ upc' \in [UThreads -> {"idle", "lookup"} \cup UReading]
          /\ usock' \in [UThreads -> 0 .. UMaxOpens]
      BY <1>0, <2>1, UDPClientAssumption DEF UTypes, UReading
    <3>4. upieces' \in [UThreads -> Seq(UDatagrams)]
      BY <1>0, <2>1, <2>8 DEF UTypes
    <3>5. /\ usent' \in [UHosts -> Nat]
          /\ ucall' \in [UThreads -> [host : UHosts \cup {"unset"}, size : Nat, until : BOOLEAN]]
      BY <1>0, <2>1 DEF UTypes
    <3>. QED  BY <3>1, <3>2, <3>3, <3>4, <3>5 DEF UTypes
  <2>11. UHolding'
    BY <1>0, <2>1, UDPClientAssumption DEF UTypes, UHolding, UReading
  <2>12. ASSUME NEW u \in UThreads, u # t
         PROVE  UEndsLog(upieces'[u], ulog') /\ upc'[u] \notin UReading
    <3>1. upieces'[u] = upieces[u] /\ upc'[u] = upc[u] /\ umutex # u
      BY <1>0, <2>1, <2>12 DEF UTypes
    <3>. QED  BY <2>8, <3>1, UNothing
  <2>. QED  BY <2>1, <2>7, <2>8, <2>9, <2>10, <2>11, <2>12 DEF UInv
<1>8. ASSUME NEW t \in UThreads, UReadReturns(t) PROVE UInv'
  <2>1. /\ upc[t] = "return" /\ umutex = t /\ umutex' = "free"
        /\ upc' = [upc EXCEPT ![t] = "idle"]
        /\ ucall' = [ucall EXCEPT ![t] = UNoCall]
        /\ upieces' = [upieces EXCEPT ![t] = <<>>]
        /\ UNCHANGED <<ufd, uaddr, uinbox, usent, usock, ulog>>
    BY <1>0, <1>8 DEF UReadReturns, UHolding, UReading
  <2>2. UTypes'
    BY <1>0, <2>1 DEF UTypes, UNoCall
  <2>3. UHolding'
    BY <1>0, <2>1, UDPClientAssumption DEF UTypes, UHolding, UReading
  <2>4. \A u \in UThreads : upc'[u] \notin UReading
    BY <2>1, <2>3, UDPClientAssumption DEF UHolding
  <2>5. \A u \in UThreads : UEndsLog(upieces'[u], ulog')
    BY <1>0, <2>1, UEndsLogEmpty DEF UTypes
  <2>. QED  BY <2>2, <2>3, <2>4, <2>5 DEF UInv
<1>9. ASSUME NEW t \in UThreads, UWriteS(t) PROVE UInv'
  <2>1. /\ umutex = "free" /\ ulog' = Append(ulog, <<uaddr, 0>>)
        /\ UNCHANGED <<ufd, uaddr, umutex, uinbox, usent, upc, ucall, usock, upieces>>
    BY <1>9 DEF UWriteS
  <2>2. ulog' \in Seq(UIds)
    BY <1>0, <2>1 DEF UTypes, UIds
  <2>3. UTypes' /\ UHolding'
    BY <1>0, <2>1, <2>2 DEF UTypes, UHolding, UReading
  <2>4. ASSUME NEW u \in UThreads
        PROVE  UEndsLog(upieces'[u], ulog') /\ upc'[u] \notin UReading
    BY <2>1, <2>2, UNothing, UDPClientAssumption
  <2>. QED  BY <2>3, <2>4 DEF UInv
<1>. QED  BY <1>1, <1>2, <1>3, <1>4, <1>5, <1>6, <1>7, <1>8, <1>9 DEF UNext, URead

LEMMA UInvariance == USpec => []UInv
BY UInitInv, UStepInv, PTL DEF USpec

(* However the datagrams are cut, a readS never puts more bytes into the    *)
(* caller's buffer than the size it was given (udp_client.cpp:41-48).       *)
THEOREM ReadsWithinSize ==
  USpec => [](\A t \in UThreads : upc[t] \in UReading => UGot(upieces[t]) <= ucall[t].size)
<1>1. UInv => \A t \in UThreads : upc[t] \in UReading => UGot(upieces[t]) <= ucall[t].size
  BY DEF UInv
<1>. QED  BY <1>1, UInvariance, PTL

(* What a readS puts together are datagrams received one right after the    *)
(* other (udp_client.cpp:41-48, 60-63).                                     *)
THEOREM ReadIsConsecutive == USpec => []UReadIsConsecutive
<1>1. UInv => UReadIsConsecutive
  <2>. SUFFICES ASSUME UInv, NEW t \in UThreads
                PROVE  LET ids == [i \in DOMAIN upieces[t] |-> upieces[t][i].id] IN
                       /\ Len(ids) <= Len(ulog)
                       /\ ids = SubSeq(ulog, Len(ulog) - Len(ids) + 1, Len(ulog))
    BY DEF UReadIsConsecutive
  <2>. DEFINE p == upieces[t]
              ids == [i \in DOMAIN p |-> p[i].id]
              n == Len(p)
  <2>1. p \in Seq(UDatagrams) /\ ulog \in Seq(UIds) /\ UEndsLog(p, ulog)
    BY DEF UInv, UTypes
  <2>2. DOMAIN p = 1 .. n /\ n \in Nat /\ n <= Len(ulog) /\ Len(ulog) \in Nat
        /\ \A i \in 1 .. n : p[i].id = ulog[Len(ulog) - n + i]
    BY <2>1 DEF UEndsLog
  <2>. HIDE DEF p, n
  <2>3. ids = [i \in 1 .. n |-> ulog[Len(ulog) - n + i]]
    BY <2>2
  <2>4. Len(ids) = n
    BY <2>2, <2>3
  <2>5. SubSeq(ulog, Len(ulog) - n + 1, Len(ulog)) = [i \in 1 .. n |-> ulog[Len(ulog) - n + i]]
    <3>. DEFINE s == SubSeq(ulog, Len(ulog) - n + 1, Len(ulog))
    <3>1. /\ s \in Seq(UIds) /\ Len(s) = n
          /\ \A i \in 1 .. n : s[i] = ulog[Len(ulog) - n + i]
      BY <2>1, <2>2, SubSeqProperties
    <3>. HIDE DEF s
    <3>2. s = [i \in 1 .. n |-> s[i]]
      BY <3>1
    <3>. QED  BY <3>1, <3>2 DEF s
  <2>. HIDE DEF ids
  <2>6. Len(ids) <= Len(ulog) /\ ids = SubSeq(ulog, Len(ulog) - Len(ids) + 1, Len(ulog))
    BY <2>2, <2>3, <2>4, <2>5
  <2>. QED  BY <2>6 DEF ids, p
<1>. QED  BY <1>1, UInvariance, PTL

-----------------------------------------------------------------------------
(* Crc16.  A frame that nobody has changed passes the check.                *)

SByte == SUBSET Bits8

LEMMA CRCType ==
  ASSUME NEW m
  PROVE  CRC(m) \in SUBSET Bits16
BY DEF CRC, Swapped, Shr, Shl

(* A uint16_t is loaded as it was stored.                                   *)
LEMMA LoadedIsStored ==
  ASSUME NEW w \in SUBSET Bits16
  PROVE  /\ Stored(w) \in Seq(SByte) /\ Len(Stored(w)) = 2
         /\ Loaded(Stored(w)) = w
<1>1. Stored(w) = <<w \cap Bits8, Shr(w, 8)>> /\ w \cap Bits8 \in SByte
  BY DEF Stored, SByte
<1>2. \A i \in w : i \in 0 .. 15
  BY DEF Bits16
<1>3. Shr(w, 8) \in SByte
  BY <1>2 DEF Shr, SByte, Bits8, Bits16
<1>4. Shl(Shr(w, 8), 8) = {i \in w : i >= 8}
  <2>1. ASSUME NEW j \in Shl(Shr(w, 8), 8) PROVE j \in w /\ j >= 8
    <3>1. PICK i \in Shr(w, 8) : j = i + 8
      BY DEF Shl
    <3>2. PICK k \in w : i = k - 8 /\ i \in Bits16
      BY <3>1 DEF Shr
    <3>. QED  BY <1>2, <3>1, <3>2 DEF Bits16
  <2>2. ASSUME NEW j \in w, j >= 8 PROVE j \in Shl(Shr(w, 8), 8)
    <3>1. j - 8 \in Shr(w, 8)
      BY <1>2, <2>2 DEF Shr, Bits16
    <3>2. j = (j - 8) + 8 /\ j \in Bits16
      BY <1>2 DEF Bits16
    <3>. QED  BY <3>1, <3>2 DEF Shl
  <2>. QED  BY <2>1, <2>2
<1>5. (w \cap Bits8) \cup {i \in w : i >= 8} = w
  BY <1>2 DEF Bits8
<1>. QED  BY <1>1, <1>3, <1>4, <1>5 DEF Loaded

LEMMA SConcat ==
  \A s, t \in Seq(SByte) :
    /\ s \o t \in Seq(SByte) /\ Len(s \o t) = Len(s) + Len(t)
    /\ \A i \in 1 .. Len(s) + Len(t) :
         (s \o t)[i] = IF i <= Len(s) THEN s[i] ELSE t[i - Len(s)]
BY ConcatProperties

LEMMA FrameFacts ==
  ASSUME NEW m \in Seq(SByte)
  PROVE  /\ Framed(m) \in Seq(SByte) /\ Len(Framed(m)) = Len(m) + 2
         /\ check_CRC(Framed(m))
<1>. DEFINE c == Stored(CRC(m))
            f == m \o c
            n == Len(m)
<1>1. c \in Seq(SByte) /\ Len(c) = 2 /\ Loaded(c) = CRC(m)
  BY CRCType, LoadedIsStored
<1>2. Framed(m) = f
  BY DEF Framed
<1>. HIDE DEF c
<1>3. f \in Seq(SByte) /\ Len(f) = n + 2 /\ n \in Nat
  <2>1. n \in Nat
    OBVIOUS
  <2>2. m \o c \in Seq(SByte) /\ Len(m \o c) = Len(m) + Len(c)
    BY <1>1, SConcat
  <2>. QED  BY <1>1, <2>1, <2>2
<1>4. \A i \in 1 .. n + 2 : f[i] = IF i <= n THEN m[i] ELSE c[i - n]
  BY <1>1, SConcat
<1>. HIDE DEF f
<1>5. SubSeq(f, 1, n) = m
  <2>1. /\ SubSeq(f, 1, n) \in Seq(SByte) /\ Len(SubSeq(f, 1, n)) = n
        /\ \A i \in 1 .. n : SubSeq(f, 1, n)[i] = f[i]
    BY <1>3, SubSeqProperties
  <2>. QED  BY <1>3, <1>4, <2>1, SeqEqual
<1>6. SubSeq(f, n + 1, n + 2) = c
  <2>. DEFINE s == SubSeq(f, n + 1, n + 2)
  <2>1. /\ s \in Seq(SByte) /\ Len(s) = 2
        /\ \A i \in 1 .. 2 : s[i] = f[n + i]
    BY <1>3, SubSeqProperties
  <2>. HIDE DEF s
  <2>2. \A i \in 1 .. 2 : f[n + i] = c[i]
    BY <1>3, <1>4
  <2>3. s = c
    BY <1>1, <2>1, <2>2, SeqEqual
  <2>. QED  BY <2>3 DEF s
<1>7. (n + 2) - 2 = n /\ (n + 2) - 1 = n + 1
  BY <1>3
<1>. QED  BY <1>1, <1>2, <1>3, <1>5, <1>6, <1>7 DEF check_CRC

(* A frame that arrives as it was made is never refused: check_CRC accepts  *)
(* every message with its CRC behind it, whatever the polynomial            *)
(* (com_client.cpp:64-73, 94-102).                                          *)
THEOREM FramesPass == \A m \in Messages : check_CRC(Framed(m))
<1>1. Messages \subseteq Seq(SByte)
  BY MessagesAssumption DEF SByte
<1>. QED  BY <1>1, FrameFacts

-----------------------------------------------------------------------------
(* Crc16 against long division.  The loop of CRC is eight turns of a shift  *)
(* register for each byte; the division of a polynomial with one more power *)
(* of x is one turn more of what it leaves; and both are linear.            *)

Word == SUBSET Bits16

(* One more power of x; one step of the division at the exponent e; one     *)
(* turn of a shift register.                                                *)
Up(p, k) == {i + k : i \in p}
Reduce(r, e) == IF e \in r THEN Xor(r, {e} \cup {g + (e - 16) : g \in genpoly}) ELSE r
Turn(a) == IF 15 \in a THEN Xor(Shl(a, 1), genpoly) ELSE Shl(a, 1)
Turns4(a) == Turn(Turn(Turn(Turn(a))))
Turns8(a) == Turns4(Turns4(a))

Reduces(p, degree, rem) ==
  /\ rem[degree] = p
  /\ \A d \in 15 .. degree - 1 : rem[d] = Reduce(rem[d + 1], d + 1)

LEMMA XorMember ==
  ASSUME NEW a, NEW b, NEW e
  PROVE  e \in Xor(a, b) <=> ~(e \in a <=> e \in b)
BY Zenon DEF Xor

LEMMA XorSelf ==
  ASSUME NEW a
  PROVE  Xor(a, a) = {} /\ Xor(a, {}) = a /\ Xor({}, a) = a
BY Zenon DEF Xor

LEMMA XorFours ==
  ASSUME NEW a, NEW b, NEW c, NEW d
  PROVE  /\ Xor(Xor(a, b), Xor(c, d)) = Xor(Xor(a, c), Xor(b, d))
         /\ Xor(Xor(a, b), c) = Xor(a, Xor(b, c))
         /\ Xor(Xor(a, b), c) = Xor(Xor(a, c), b)
         /\ Xor(a, b) = Xor(b, a)
<1>1. \A x, y, e : e \in Xor(x, y) <=> ~(e \in x <=> e \in y)
  BY XorMember
<1>2. \A x, y : (\A e : e \in x <=> e \in y) => x = y
  OBVIOUS
<1>3. Xor(Xor(a, b), Xor(c, d)) = Xor(Xor(a, c), Xor(b, d))
  <2>1. \A e : e \in Xor(Xor(a, b), Xor(c, d)) <=> e \in Xor(Xor(a, c), Xor(b, d))
    BY <1>1
  <2>. QED  BY <1>2, <2>1, Zenon
<1>4. Xor(Xor(a, b), c) = Xor(a, Xor(b, c))
  <2>1. \A e : e \in Xor(Xor(a, b), c) <=> e \in Xor(a, Xor(b, c))
    BY <1>1
  <2>. QED  BY <1>2, <2>1, Zenon
<1>5. Xor(Xor(a, b), c) = Xor(Xor(a, c), b)
  <2>1. \A e : e \in Xor(Xor(a, b), c) <=> e \in Xor(Xor(a, c), b)
    BY <1>1
  <2>. QED  BY <1>2, <2>1, Zenon
<1>6. Xor(a, b) = Xor(b, a)
  <2>1. \A e : e \in Xor(a, b) <=> e \in Xor(b, a)
    BY <1>1
  <2>. QED  BY <1>2, <2>1, Zenon
<1>. QED  BY <1>3, <1>4, <1>5, <1>6

(* What is added to both is added to neither.                               *)
LEMMA XorTwice ==
  ASSUME NEW a, NEW b, NEW m
  PROVE  Xor(Xor(a, m), Xor(b, m)) = Xor(a, b)
<1>1. Xor(Xor(a, m), Xor(b, m)) = Xor(Xor(a, b), Xor(m, m))
  BY XorFours
<1>. QED  BY <1>1, XorSelf, Zenon

LEMMA UpMember ==
  ASSUME NEW p \in SUBSET Int, NEW k \in Int, NEW e \in Int
  PROVE  /\ e \in Up(p, k) <=> e - k \in p
         /\ Up(p, k) \in SUBSET Int
<1>1. ASSUME e \in Up(p, k) PROVE e - k \in p
  <2>1. PICK i \in p : e = i + k
    BY <1>1 DEF Up
  <2>. QED  BY <2>1
<1>2. ASSUME e - k \in p PROVE e \in Up(p, k)
  <2>1. e = (e - k) + k
    OBVIOUS
  <2>. QED  BY <1>2, <2>1 DEF Up
<1>3. Up(p, k) \in SUBSET Int
  BY DEF Up
<1>. QED  BY <1>1, <1>2, <1>3

LEMMA ShlMember ==
  ASSUME NEW p \in SUBSET Int, NEW k \in Int, NEW e
  PROVE  /\ e \in Shl(p, k) <=> e \in Bits16 /\ e - k \in p
         /\ Shl(p, k) \in Word
<1>1. Shl(p, k) = Up(p, k) \cap Bits16
  BY DEF Shl, Up
<1>. QED  BY <1>1, UpMember DEF Bits16, Word

LEMMA ShrMember ==
  ASSUME NEW p \in SUBSET Int, NEW k \in Int, NEW e
  PROVE  /\ e \in Shr(p, k) <=> e \in Bits16 /\ e + k \in p
         /\ Shr(p, k) \in Word
<1>1. Shr(p, k) = Up(p, -k) \cap Bits16
  <2>1. \A i \in Int : i - k = i + (-k)
    OBVIOUS
  <2>. QED  BY <2>1 DEF Shr, Up
<1>2. -k \in Int /\ \A i \in Int : i - (-k) = i + k
  OBVIOUS
<1>. QED  BY <1>1, <1>2, UpMember DEF Bits16, Word

LEMMA UpXor ==
  ASSUME NEW p \in SUBSET Int, NEW q \in SUBSET Int, NEW k \in Int
  PROVE  Up(Xor(p, q), k) = Xor(Up(p, k), Up(q, k))
<1>1. Xor(p, q) \in SUBSET Int
  BY DEF Xor
<1>2. Up(p, k) \in SUBSET Int /\ Up(q, k) \in SUBSET Int /\ Up(Xor(p, q), k) \in SUBSET Int
  BY <1>1 DEF Up
<1>3. Xor(Up(p, k), Up(q, k)) \in SUBSET Int
  BY <1>2 DEF Xor
<1>4. ASSUME NEW e \in Int
      PROVE  e \in Up(Xor(p, q), k) <=> e \in Xor(Up(p, k), Up(q, k))
  <2>1. /\ e \in Up(Xor(p, q), k) <=> e - k \in Xor(p, q)
        /\ e \in Up(p, k) <=> e - k \in p
        /\ e \in Up(q, k) <=> e - k \in q
    BY <1>1, UpMember
  <2>. QED  BY <2>1, XorMember
<1>. QED  BY <1>2, <1>3, <1>4

LEMMA XorType ==
  ASSUME NEW S, NEW a \in SUBSET S, NEW b \in SUBSET S
  PROVE  Xor(a, b) \in SUBSET S
BY DEF Xor

LEMMA WordsAreInts == genpoly \in Word /\ \A a \in Word : a \in SUBSET Int
BY GeneratorAssumption DEF Word, Bits16

LEMMA ReduceLinear ==
  ASSUME NEW a, NEW b, NEW e
  PROVE  Reduce(Xor(a, b), e) = Xor(Reduce(a, e), Reduce(b, e))
<1>. DEFINE m == {e} \cup {g + (e - 16) : g \in genpoly}
<1>1. \A r : Reduce(r, e) = IF e \in r THEN Xor(r, m) ELSE r
  BY Zenon DEF Reduce
<1>. HIDE DEF m
<1>2. e \in Xor(a, b) <=> ~(e \in a <=> e \in b)
  BY XorMember
<1>3. Xor(Xor(a, m), Xor(b, m)) = Xor(a, b)
  BY XorTwice, Zenon
<1>4. Xor(Xor(a, m), b) = Xor(Xor(a, b), m) /\ Xor(a, Xor(b, m)) = Xor(Xor(a, b), m)
  BY XorFours
<1>. QED  BY <1>1, <1>2, <1>3, <1>4

LEMMA ShlXor ==
  ASSUME NEW a \in Word, NEW b \in Word
  PROVE  Shl(Xor(a, b), 1) = Xor(Shl(a, 1), Shl(b, 1))
<1>1. Xor(a, b) \in SUBSET Int /\ a \in SUBSET Int /\ b \in SUBSET Int
  BY WordsAreInts, XorType
<1>2. ASSUME NEW e
      PROVE  e \in Shl(Xor(a, b), 1) <=> e \in Xor(Shl(a, 1), Shl(b, 1))
  <2>1. /\ e \in Shl(Xor(a, b), 1) <=> e \in Bits16 /\ e - 1 \in Xor(a, b)
        /\ e \in Shl(a, 1) <=> e \in Bits16 /\ e - 1 \in a
        /\ e \in Shl(b, 1) <=> e \in Bits16 /\ e - 1 \in b
    BY <1>1, ShlMember
  <2>2. /\ e - 1 \in Xor(a, b) <=> ~(e - 1 \in a <=> e - 1 \in b)
        /\ e \in Xor(Shl(a, 1), Shl(b, 1)) <=> ~(e \in Shl(a, 1) <=> e \in Shl(b, 1))
    BY XorMember
  <2>. QED  BY <2>1, <2>2
<1>. QED  BY <1>2

LEMMA TurnLinear ==
  ASSUME NEW a \in Word, NEW b \in Word
  PROVE  Turn(Xor(a, b)) = Xor(Turn(a), Turn(b))
<1>1. Shl(Xor(a, b), 1) = Xor(Shl(a, 1), Shl(b, 1))
  BY ShlXor
<1>. DEFINE sa == Shl(a, 1)  sb == Shl(b, 1)
<1>2. 15 \in Xor(a, b) <=> ~(15 \in a <=> 15 \in b)
  BY XorMember
<1>3. Xor(Xor(sa, genpoly), Xor(sb, genpoly)) = Xor(sa, sb)
  BY XorTwice, ZenonT(30)
<1>4. Xor(Xor(sa, genpoly), sb) = Xor(Xor(sa, sb), genpoly)
      /\ Xor(sa, Xor(sb, genpoly)) = Xor(Xor(sa, sb), genpoly)
  BY XorFours
<1>. QED  BY <1>1, <1>2, <1>3, <1>4 DEF Turn

LEMMA TurnType ==
  ASSUME NEW a \in Word
  PROVE  Turn(a) \in Word
<1>1. Shl(a, 1) \in Word
  <2>1. a \in SUBSET Int
    BY WordsAreInts
  <2>. QED  BY <2>1, ShlMember
<1>2. Xor(Shl(a, 1), genpoly) \in Word
  BY <1>1, WordsAreInts, XorType DEF Word
<1>. QED  BY <1>1, <1>2 DEF Turn

LEMMA TurnsLinear ==
  ASSUME NEW a \in Word, NEW b \in Word
  PROVE  /\ Turns8(Xor(a, b)) = Xor(Turns8(a), Turns8(b))
         /\ Turns8(a) \in Word
<1>1. \A x, y \in Word : Turns4(Xor(x, y)) = Xor(Turns4(x), Turns4(y)) /\ Turns4(x) \in Word
  BY TurnLinear, TurnType DEF Turns4
<1>2. Xor(a, b) \in Word
  BY XorType DEF Word
<1>. QED  BY <1>1, <1>2 DEF Turns8

(* Without a bit that leaves, the register is only shifted.                 *)
LEMMA TurnsLow ==
  ASSUME NEW a \in Word
  PROVE  Turns8(a \cap Bits8) = Shl(a, 8)
<1>. DEFINE l == a \cap Bits8
<1>0. l \in Word /\ l \in SUBSET Int /\ a \in SUBSET Int /\ \A e \in l : e \in 0 .. 7
  BY WordsAreInts DEF Word, Bits8, Bits16
<1>1. \A k \in 0 .. 7 : Turn(Shl(l, k)) = Shl(l, k + 1)
  <2>. SUFFICES ASSUME NEW k \in 0 .. 7 PROVE Turn(Shl(l, k)) = Shl(l, k + 1)
    OBVIOUS
  <2>1. 15 \notin Shl(l, k)
    BY <1>0, ShlMember
  <2>2. Shl(Shl(l, k), 1) = Shl(l, k + 1)
    <3>1. Shl(l, k) \in SUBSET Int
      <4>1. Shl(l, k) \in Word
        BY <1>0, ShlMember
      <4>. QED  BY <4>1, WordsAreInts
    <3>2. ASSUME NEW e PROVE e \in Shl(Shl(l, k), 1) <=> e \in Shl(l, k + 1)
      <4>1. e \in Shl(Shl(l, k), 1) <=> e \in Bits16 /\ e - 1 \in Bits16 /\ (e - 1) - k \in l
        BY <1>0, <3>1, ShlMember
      <4>2. e \in Shl(l, k + 1) <=> e \in Bits16 /\ e - (k + 1) \in l
        BY <1>0, ShlMember
      <4>3. ASSUME e \in Bits16
            PROVE  (e - 1) - k = e - (k + 1) /\ (e - (k + 1) \in l => e - 1 \in Bits16)
        BY <1>0, <4>3 DEF Bits16
      <4>. QED  BY <4>1, <4>2, <4>3
    <3>. QED  BY <3>2
  <2>. QED  BY <2>1, <2>2 DEF Turn
<1>2. Shl(l, 0) = l
  BY <1>0, ShlMember DEF Bits16
<1>3. Shl(l, 8) = Shl(a, 8)
  <2>1. ASSUME NEW e \in Bits16 PROVE e - 8 \in l <=> e - 8 \in a
    BY <1>0 DEF Bits8, Bits16, Word
  <2>2. ASSUME NEW e PROVE e \in Shl(l, 8) <=> e \in Shl(a, 8)
    <3>1. /\ e \in Shl(l, 8) <=> e \in Bits16 /\ e - 8 \in l
          /\ e \in Shl(a, 8) <=> e \in Bits16 /\ e - 8 \in a
      BY <1>0, ShlMember
    <3>. QED  BY <2>1, <3>1
  <2>. QED  BY <2>2
<1>4. Turns8(l) = Shl(l, 8)
  <2>. HIDE DEF l
  <2>1. /\ Turn(Shl(l, 0)) = Shl(l, 1) /\ Turn(Shl(l, 1)) = Shl(l, 2)
        /\ Turn(Shl(l, 2)) = Shl(l, 3) /\ Turn(Shl(l, 3)) = Shl(l, 4)
        /\ Turn(Shl(l, 4)) = Shl(l, 5) /\ Turn(Shl(l, 5)) = Shl(l, 6)
        /\ Turn(Shl(l, 6)) = Shl(l, 7) /\ Turn(Shl(l, 7)) = Shl(l, 8)
    <3>1. \A j \in 0 .. 7 : j + 1 = j + 1
      OBVIOUS
    <3>. QED  BY <1>1
  <2>. QED  BY <1>2, <2>1, Zenon DEF Turns8, Turns4
<1>. QED  BY <1>3, <1>4

-----------------------------------------------------------------------------
(* The division goes down from the degree, one exponent at a time.          *)

LEMMA ReduceType ==
  ASSUME NEW n \in Nat, n >= 15, NEW r \in SUBSET (0 .. n + 1)
  PROVE  Reduce(r, n + 1) \in SUBSET (0 .. n)
<1>1. ASSUME NEW e \in Reduce(r, n + 1) PROVE e \in 0 .. n
  <2>1. CASE n + 1 \notin r
    <3>1. e \in r
      BY <1>1, <2>1 DEF Reduce
    <3>2. e \in 0 .. n + 1 /\ e # n + 1
      BY <2>1, <3>1
    <3>. QED  BY <3>2
  <2>2. CASE n + 1 \in r
    <3>. DEFINE m == {n + 1} \cup {g + ((n + 1) - 16) : g \in genpoly}
    <3>1. e \in Xor(r, m)
      BY <1>1, <2>2 DEF Reduce
    <3>2. \A g \in genpoly : g \in 0 .. 15
      BY GeneratorAssumption DEF Bits16
    <3>3. \A i \in m : i \in 0 .. n + 1
      BY <3>2
    <3>4. n + 1 \in m
      OBVIOUS
    <3>. HIDE DEF m
    <3>5. ~(e \in r <=> e \in m)
      BY <3>1, XorMember
    <3>6. e # n + 1 /\ e \in 0 .. n + 1
      BY <2>2, <3>3, <3>4, <3>5
    <3>. QED  BY <3>6
  <2>. QED  BY <2>1, <2>2
<1>. QED  BY <1>1

(* A turn of the register is the last step of the division.                *)
LEMMA TurnIsReduce ==
  ASSUME NEW a \in Word
  PROVE  Turn(a) = Reduce(Up(a, 1), 16)
<1>. DEFINE m == {16} \cup {g + (16 - 16) : g \in genpoly}
            u == Up(a, 1)
<1>1. a \in SUBSET Int /\ \A e \in a : e \in 0 .. 15
  BY DEF Word, Bits16
<1>2. m = {16} \cup genpoly
  <2>1. \A g \in genpoly : g + (16 - 16) = g
    BY GeneratorAssumption DEF Bits16
  <2>. QED  BY <2>1
<1>3. Reduce(u, 16) = IF 16 \in u THEN Xor(u, m) ELSE u
  BY Zenon DEF Reduce
<1>4. u \in SUBSET Int /\ \A e \in Int : e \in u <=> e - 1 \in a
  BY <1>1, UpMember
<1>5. Shl(a, 1) = u \cap Bits16
  BY DEF Shl, Up
<1>. HIDE DEF u, m
<1>6. 16 \in u <=> 15 \in a
  BY <1>4
<1>7. CASE 15 \notin a
  <2>1. \A e \in u : e \in Bits16
    <3>. SUFFICES ASSUME NEW e \in u PROVE e \in Bits16
      OBVIOUS
    <3>1. e \in Int /\ e - 1 \in a /\ e # 16
      BY <1>4, <1>6, <1>7
    <3>. QED  BY <1>1, <3>1 DEF Bits16
  <2>2. u \cap Bits16 = u
    BY <2>1
  <2>3. Turn(a) = Shl(a, 1)
    BY <1>7, Zenon DEF Turn
  <2>4. Reduce(u, 16) = u
    BY <1>3, <1>6, <1>7, Zenon
  <2>. QED  BY <1>5, <2>2, <2>3, <2>4, Zenon DEF u
<1>8. CASE 15 \in a
  <2>1. ASSUME NEW e PROVE e \in Xor(u, m) <=> e \in Xor(u \cap Bits16, genpoly)
    <3>1. /\ e \in Xor(u, m) <=> ~(e \in u <=> e \in m)
          /\ e \in Xor(u \cap Bits16, genpoly) <=> ~(e \in u \cap Bits16 <=> e \in genpoly)
      BY XorMember
    <3>2. CASE e = 16
      <4>1. e \notin Bits16 /\ e \notin genpoly
        BY <3>2, GeneratorAssumption DEF Bits16
      <4>. QED  BY <1>2, <1>6, <1>8, <3>1, <3>2, <4>1
    <3>3. CASE e # 16
      <4>1. e \in u => e \in Bits16
        <5>1. ASSUME e \in u PROVE e \in Int /\ e - 1 \in 0 .. 15
          BY <1>1, <1>4, <5>1
        <5>. QED  BY <3>3, <5>1 DEF Bits16
      <4>. QED  BY <1>2, <3>1, <3>3, <4>1
    <3>. QED  BY <3>2, <3>3
  <2>2. Xor(u, m) = Xor(u \cap Bits16, genpoly)
    BY <2>1
  <2>3. Turn(a) = Xor(Shl(a, 1), genpoly)
    BY <1>8, Zenon DEF Turn
  <2>4. Reduce(u, 16) = Xor(u, m)
    BY <1>3, <1>6, <1>8, Zenon
  <2>. QED  BY <1>5, <2>2, <2>3, <2>4, Zenon DEF u
<1>. QED  BY <1>7, <1>8

(* There is one remainder.                                                  *)
LEMMA RemainderIs ==
  ASSUME NEW degree \in Nat, degree >= 15, NEW p,
         NEW rem, rem = [d \in 15 .. degree |-> rem[d]], Reduces(p, degree, rem)
  PROVE  Remainder(p, degree) = rem[15]
<1>. DEFINE f[d \in 15 .. degree] ==
              IF d = degree THEN p
              ELSE LET r == f[d + 1]
                   IN IF d + 1 \in r THEN Xor(r, {d + 1} \cup {g + d - 15 : g \in genpoly}) ELSE r
<1>1. Remainder(p, degree) = f[15]
  BY DEF Remainder
<1>2. \A d \in 15 .. degree : \A r :
        Reduce(r, d + 1) =
          IF d + 1 \in r THEN Xor(r, {d + 1} \cup {g + d - 15 : g \in genpoly}) ELSE r
  <2>. SUFFICES ASSUME NEW d \in 15 .. degree
                PROVE  {g + ((d + 1) - 16) : g \in genpoly} = {g + d - 15 : g \in genpoly}
    BY DEF Reduce
  <2>1. \A g \in genpoly : g + ((d + 1) - 16) = g + d - 15
    BY GeneratorAssumption DEF Bits16
  <2>. QED  BY <2>1
<1>3. rem = [d \in 15 .. degree |->
               IF d = degree THEN p
               ELSE LET r == rem[d + 1]
                    IN IF d + 1 \in r THEN Xor(r, {d + 1} \cup {g + d - 15 : g \in genpoly}) ELSE r]
  <2>1. ASSUME NEW d \in 15 .. degree
        PROVE  rem[d] = IF d = degree THEN p
                        ELSE LET r == rem[d + 1]
                             IN IF d + 1 \in r THEN Xor(r, {d + 1} \cup {g + d - 15 : g \in genpoly}) ELSE r
    <3>1. CASE d = degree
      BY <3>1 DEF Reduces
    <3>2. CASE d # degree
      <4>1. d \in 15 .. degree - 1
        BY <3>2
      <4>2. rem[d] = Reduce(rem[d + 1], d + 1)
        BY <4>1 DEF Reduces
      <4>. QED  BY <1>2, <3>2, <4>2
    <3>. QED  BY <3>1, <3>2
  <2>. QED  BY <2>1, Zenon
<1>4. f = CHOOSE h : h = [d \in 15 .. degree |->
               IF d = degree THEN p
               ELSE LET r == h[d + 1]
                    IN IF d + 1 \in r THEN Xor(r, {d + 1} \cup {g + d - 15 : g \in genpoly}) ELSE r]
  BY DEF f
<1>. HIDE DEF f
<1>5. f = [d \in 15 .. degree |->
               IF d = degree THEN p
               ELSE LET r == f[d + 1]
                    IN IF d + 1 \in r THEN Xor(r, {d + 1} \cup {g + d - 15 : g \in genpoly}) ELSE r]
  BY <1>3, <1>4, Zenon
<1>6. f[degree] = p /\ \A d \in 15 .. degree - 1 : f[d] = Reduce(f[d + 1], d + 1)
  <2>1. degree \in 15 .. degree
    OBVIOUS
  <2>2. ASSUME NEW d \in 15 .. degree - 1 PROVE f[d] = Reduce(f[d + 1], d + 1)
    <3>1. d \in 15 .. degree /\ d # degree
      OBVIOUS
    <3>. QED  BY <1>2, <1>5, <3>1
  <2>. QED  BY <1>5, <2>1, <2>2
<1>7. \A k \in Nat : k <= degree - 15 => f[degree - k] = rem[degree - k]
  <2>. DEFINE S == {k \in Nat : k <= degree - 15 => f[degree - k] = rem[degree - k]}
  <2>1. 0 \in S
    BY <1>6 DEF Reduces
  <2>2. ASSUME NEW k \in S, k + 1 <= degree - 15 PROVE f[degree - (k + 1)] = rem[degree - (k + 1)]
    <3>1. degree - (k + 1) \in 15 .. degree - 1 /\ (degree - (k + 1)) + 1 = degree - k
      BY <2>2
    <3>2. f[degree - k] = rem[degree - k]
      BY <2>2
    <3>3. f[degree - (k + 1)] = Reduce(f[degree - k], degree - k)
      BY <1>6, <3>1
    <3>4. rem[degree - (k + 1)] = Reduce(rem[degree - k], degree - k)
      BY <3>1 DEF Reduces
    <3>. QED  BY <3>2, <3>3, <3>4
  <2>3. S = Nat
    <3>1. S \in SUBSET Nat
      OBVIOUS
    <3>2. ASSUME NEW k \in S PROVE k + 1 \in S
      <4>1. k + 1 \in Nat
        OBVIOUS
      <4>. QED  BY <2>2, <4>1
    <3>. HIDE DEF S
    <3>. QED  BY <2>1, <3>1, <3>2, SetInduction
  <2>. QED  BY <2>3
<1>8. f[15] = rem[15]
  <2>1. degree - 15 \in Nat /\ degree - (degree - 15) = 15
    OBVIOUS
  <2>. QED  BY <1>7, <2>1
<1>. QED  BY <1>1, <1>8

LEMMA RemainderUnfolds ==
  ASSUME NEW degree \in Nat, degree >= 15, NEW p \in SUBSET (0 .. degree)
  PROVE  \E rem : /\ rem = [d \in 15 .. degree |-> rem[d]]
                  /\ Reduces(p, degree, rem)
                  /\ \A d \in 15 .. degree : rem[d] \in SUBSET (0 .. d)
                  /\ Remainder(p, degree) = rem[15]
<1>. DEFINE T == SUBSET Int
            n == degree - 15
            step == [q \in T \X Nat |-> IF q[2] \in 1 .. n THEN Reduce(q[1], degree - q[2] + 1) ELSE q[1]]
<1>1. n \in Nat /\ p \in T
  OBVIOUS
<1>2. step \in [T \X Nat -> T]
  <2>1. ASSUME NEW a \in T, NEW e \in Int PROVE Reduce(a, e) \in T
    <3>. DEFINE m == {e} \cup {g + (e - 16) : g \in genpoly}
    <3>1. m \in SUBSET Int
      BY GeneratorAssumption DEF Bits16
    <3>2. Reduce(a, e) = IF e \in a THEN Xor(a, m) ELSE a
      BY Zenon DEF Reduce
    <3>. HIDE DEF m
    <3>3. Xor(a, m) \in SUBSET Int
      BY <3>1, XorType
    <3>. QED  BY <3>2, <3>3
  <2>2. ASSUME NEW q \in T \X Nat
        PROVE  (IF q[2] \in 1 .. n THEN Reduce(q[1], degree - q[2] + 1) ELSE q[1]) \in T
    <3>1. q[1] \in T /\ degree - q[2] + 1 \in Int
      OBVIOUS
    <3>. HIDE DEF T
    <3>. QED  BY <2>1, <3>1
  <2>. QED  BY <2>2
<1>3. \A a \in T, i \in 1 .. n : step[<<a, i>>] = Reduce(a, degree - i + 1)
  <2>. SUFFICES ASSUME NEW a \in T, NEW i \in 1 .. n
                PROVE  step[<<a, i>>] = Reduce(a, degree - i + 1)
    OBVIOUS
  <2>1. i \in Nat
    BY <1>1
  <2>. HIDE DEF T, n
  <2>. QED  BY <2>1
<1>4. PICK h \in [0 .. n -> T] : h[0] = p /\ \A i \in 1 .. n : h[i] = step[<<h[i - 1], i>>]
  <2>. HIDE DEF step, n, T
  <2>1. Recursion(T, p, step, n) # {}
    BY <1>1, <1>2, RecursionExists
  <2>. QED  BY <2>1 DEF Recursion
<1>5. \A i \in 1 .. n : h[i] = Reduce(h[i - 1], degree - i + 1)
  <2>1. \A i \in 1 .. n : h[i - 1] \in T
    <3>1. \A i \in 1 .. n : i - 1 \in 0 .. n
      OBVIOUS
    <3>. QED  BY <3>1
  <2>. HIDE DEF step, n, T
  <2>. QED  BY <1>3, <1>4, <2>1
<1>. HIDE DEF step
<1>. DEFINE rem == [d \in 15 .. degree |-> h[degree - d]]
<1>6. rem = [d \in 15 .. degree |-> rem[d]]
  OBVIOUS
<1>7. Reduces(p, degree, rem)
  <2>1. rem[degree] = p
    BY <1>4
  <2>2. ASSUME NEW d \in 15 .. degree - 1 PROVE rem[d] = Reduce(rem[d + 1], d + 1)
    <3>1. /\ degree - d \in 1 .. n /\ (degree - d) - 1 = degree - (d + 1)
          /\ degree - (degree - d) + 1 = d + 1
      OBVIOUS
    <3>2. rem[d] = h[degree - d] /\ rem[d + 1] = h[degree - (d + 1)]
      OBVIOUS
    <3>3. h[degree - d] = Reduce(h[(degree - d) - 1], degree - (degree - d) + 1)
      BY <1>5, <3>1
    <3>. QED  BY <3>1, <3>2, <3>3, Zenon
  <2>. QED  BY <2>1, <2>2 DEF Reduces
<1>. HIDE DEF rem
<1>8. Remainder(p, degree) = rem[15]
  BY <1>6, <1>7, RemainderIs
<1>9. \A k \in Nat : k <= n => rem[degree - k] \in SUBSET (0 .. degree - k)
  <2>. DEFINE S == {k \in Nat : k <= n => rem[degree - k] \in SUBSET (0 .. degree - k)}
  <2>1. 0 \in S
    <3>1. degree - 0 = degree /\ p \in SUBSET (0 .. degree)
      OBVIOUS
    <3>. QED  BY <1>7, <3>1 DEF Reduces
  <2>2. ASSUME NEW k \in S, k + 1 <= n PROVE rem[degree - (k + 1)] \in SUBSET (0 .. degree - (k + 1))
    <3>. DEFINE d == degree - (k + 1)
    <3>1. d \in 15 .. degree - 1 /\ d + 1 = degree - k /\ d \in Nat /\ d >= 15
      BY <2>2
    <3>2. rem[d + 1] \in SUBSET (0 .. d + 1)
      BY <2>2, <3>1
    <3>. HIDE DEF d
    <3>3. rem[d] = Reduce(rem[d + 1], d + 1)
      BY <1>7, <3>1 DEF Reduces
    <3>4. rem[d] \in SUBSET (0 .. d)
      BY <3>1, <3>2, <3>3, ReduceType
    <3>. QED  BY <3>4 DEF d
  <2>3. S = Nat
    <3>1. S \in SUBSET Nat
      OBVIOUS
    <3>2. ASSUME NEW k \in S PROVE k + 1 \in S
      <4>1. k + 1 \in Nat
        OBVIOUS
      <4>. QED  BY <2>2, <4>1
    <3>. HIDE DEF S
    <3>. QED  BY <2>1, <3>1, <3>2, SetInduction
  <2>. QED  BY <2>3
<1>10. \A d \in 15 .. degree : rem[d] \in SUBSET (0 .. d)
  <2>1. \A d \in 15 .. degree : degree - d \in Nat /\ degree - d <= n /\ degree - (degree - d) = d
    OBVIOUS
  <2>. QED  BY <1>9, <2>1
<1>. QED  BY <1>6, <1>7, <1>8, <1>10

LEMMA RemainderType ==
  ASSUME NEW degree \in Nat, degree >= 15, NEW p \in SUBSET (0 .. degree)
  PROVE  Remainder(p, degree) \in Word
<1>1. PICK rem : /\ \A d \in 15 .. degree : rem[d] \in SUBSET (0 .. d)
                 /\ Remainder(p, degree) = rem[15]
  BY RemainderUnfolds
<1>2. 15 \in 15 .. degree
  OBVIOUS
<1>. QED  BY <1>1, <1>2 DEF Word, Bits16

(* The remainder of a sum is the sum of the remainders.                     *)
LEMMA RemainderLinear ==
  ASSUME NEW degree \in Nat, degree >= 15,
         NEW p \in SUBSET (0 .. degree), NEW q \in SUBSET (0 .. degree)
  PROVE  Remainder(Xor(p, q), degree) = Xor(Remainder(p, degree), Remainder(q, degree))
<1>1. PICK f : /\ f = [d \in 15 .. degree |-> f[d]] /\ Reduces(p, degree, f)
               /\ Remainder(p, degree) = f[15]
  BY RemainderUnfolds
<1>2. PICK g : /\ g = [d \in 15 .. degree |-> g[d]] /\ Reduces(q, degree, g)
               /\ Remainder(q, degree) = g[15]
  BY RemainderUnfolds
<1>. DEFINE h == [d \in 15 .. degree |-> Xor(f[d], g[d])]
<1>3. h = [d \in 15 .. degree |-> h[d]]
  OBVIOUS
<1>4. \A d \in 15 .. degree : h[d] = Xor(f[d], g[d])
  OBVIOUS
<1>. HIDE DEF h
<1>5. Reduces(Xor(p, q), degree, h)
  <2>1. degree \in 15 .. degree
    OBVIOUS
  <2>2. h[degree] = Xor(p, q)
    BY <1>1, <1>2, <1>4, <2>1 DEF Reduces
  <2>3. ASSUME NEW d \in 15 .. degree - 1 PROVE h[d] = Reduce(h[d + 1], d + 1)
    <3>1. d \in 15 .. degree /\ d + 1 \in 15 .. degree
      OBVIOUS
    <3>2. f[d] = Reduce(f[d + 1], d + 1) /\ g[d] = Reduce(g[d + 1], d + 1)
      BY <1>1, <1>2 DEF Reduces
    <3>3. h[d] = Xor(f[d], g[d]) /\ h[d + 1] = Xor(f[d + 1], g[d + 1])
      BY <1>4, <3>1
    <3>. QED  BY <3>2, <3>3, ReduceLinear
  <2>. QED  BY <2>2, <2>3 DEF Reduces
<1>6. Remainder(Xor(p, q), degree) = h[15]
  BY <1>3, <1>5, RemainderIs
<1>7. 15 \in 15 .. degree
  OBVIOUS
<1>. QED  BY <1>1, <1>2, <1>4, <1>6, <1>7

LEMMA ReduceBelow ==
  ASSUME NEW e, NEW r, e \notin r
  PROVE  Reduce(r, e) = r
BY DEF Reduce

(* Zeros in front change nothing.                                           *)
LEMMA RemainderFrom ==
  ASSUME NEW degree \in Nat, degree >= 15, NEW p \in SUBSET (0 .. degree),
         NEW higher \in Nat, higher >= degree
  PROVE  Remainder(p, higher) = Remainder(p, degree)
<1>1. PICK f : /\ f = [d \in 15 .. degree |-> f[d]] /\ Reduces(p, degree, f)
               /\ Remainder(p, degree) = f[15]
  BY RemainderUnfolds
<1>. DEFINE h == [d \in 15 .. higher |-> IF d <= degree THEN f[d] ELSE p]
<1>2. h = [d \in 15 .. higher |-> h[d]]
  OBVIOUS
<1>3. /\ \A d \in 15 .. degree : h[d] = f[d]
      /\ \A d \in degree .. higher : h[d] = p
  <2>1. f[degree] = p
    BY <1>1 DEF Reduces
  <2>. QED  BY <2>1
<1>. HIDE DEF h
<1>4. Reduces(p, higher, h)
  <2>1. h[higher] = p
    BY <1>3
  <2>2. ASSUME NEW d \in 15 .. higher - 1 PROVE h[d] = Reduce(h[d + 1], d + 1)
    <3>1. CASE d < degree
      <4>1. d \in 15 .. degree - 1 /\ d \in 15 .. degree /\ d + 1 \in 15 .. degree
        BY <3>1
      <4>2. f[d] = Reduce(f[d + 1], d + 1)
        BY <1>1, <4>1 DEF Reduces
      <4>3. h[d] = f[d] /\ h[d + 1] = f[d + 1]
        BY <1>3, <4>1
      <4>. QED  BY <4>2, <4>3
    <3>2. CASE d >= degree
      <4>1. d \in degree .. higher /\ d + 1 \in degree .. higher /\ d + 1 \notin p
        BY <3>2
      <4>2. h[d] = p /\ h[d + 1] = p
        BY <1>3, <4>1
      <4>. QED  BY <4>1, <4>2, ReduceBelow
    <3>. QED  BY <3>1, <3>2
  <2>. QED  BY <2>1, <2>2 DEF Reduces
<1>5. Remainder(p, higher) = h[15]
  BY <1>2, <1>4, RemainderIs
<1>6. 15 \in 15 .. degree
  OBVIOUS
<1>. QED  BY <1>1, <1>3, <1>5, <1>6

(* What is of a lower degree than the generator is its own remainder.       *)
LEMMA RemainderLow ==
  ASSUME NEW p \in Word, NEW degree \in Nat, degree >= 15
  PROVE  Remainder(p, degree) = p
<1>1. p \in SUBSET (0 .. 15) /\ 15 \in Nat
  BY DEF Word, Bits16
<1>. DEFINE h == [d \in 15 .. 15 |-> p]
<1>2. h = [d \in 15 .. 15 |-> h[d]] /\ h[15] = p
  OBVIOUS
<1>. HIDE DEF h
<1>3. Reduces(p, 15, h)
  <2>1. \A d \in 15 .. 15 - 1 : FALSE
    OBVIOUS
  <2>. QED  BY <1>2, <2>1 DEF Reduces
<1>4. Remainder(p, 15) = p
  <2>1. 15 >= 15
    OBVIOUS
  <2>2. Remainder(p, 15) = h[15]
    BY <1>1, <1>2, <1>3, <2>1, RemainderIs
  <2>. QED  BY <1>2, <2>2
<1>5. Remainder(p, degree) = Remainder(p, 15)
  BY <1>1, RemainderFrom
<1>. QED  BY <1>4, <1>5

(* One more power of x is one turn of the register.                         *)
LEMMA RemainderUp ==
  ASSUME NEW degree \in Nat, degree >= 15, NEW p \in SUBSET (0 .. degree)
  PROVE  Remainder(Up(p, 1), degree + 1) = Turn(Remainder(p, degree))
<1>1. PICK f : /\ f = [d \in 15 .. degree |-> f[d]] /\ Reduces(p, degree, f)
               /\ \A d \in 15 .. degree : f[d] \in SUBSET (0 .. d)
               /\ Remainder(p, degree) = f[15]
  BY RemainderUnfolds
<1>. DEFINE h == [d \in 15 .. degree + 1 |-> IF d = 15 THEN Turn(f[15]) ELSE Up(f[d - 1], 1)]
<1>2. h = [d \in 15 .. degree + 1 |-> h[d]]
  OBVIOUS
<1>3. /\ h[15] = Turn(f[15])
      /\ \A d \in 16 .. degree + 1 : h[d] = Up(f[d - 1], 1)
  OBVIOUS
<1>. HIDE DEF h
<1>4. Reduces(Up(p, 1), degree + 1, h)
  <2>1. h[degree + 1] = Up(p, 1)
    <3>1. degree + 1 \in 16 .. degree + 1 /\ (degree + 1) - 1 = degree
      OBVIOUS
    <3>. QED  BY <1>1, <1>3, <3>1 DEF Reduces
  <2>2. ASSUME NEW d \in 16 .. degree PROVE h[d] = Reduce(h[d + 1], d + 1)
    <3>. DEFINE a == f[d]
                m == {d} \cup {g + (d - 16) : g \in genpoly}
                n == {d + 1} \cup {g + ((d + 1) - 16) : g \in genpoly}
    <3>1. d - 1 \in 15 .. degree - 1 /\ (d - 1) + 1 = d /\ d \in 15 .. degree
          /\ d + 1 \in 16 .. degree + 1 /\ (d + 1) - 1 = d /\ d \in 16 .. degree + 1
      OBVIOUS
    <3>2. f[d - 1] = Reduce(a, d)
      BY <1>1, <3>1 DEF Reduces
    <3>3. h[d] = Up(f[d - 1], 1) /\ h[d + 1] = Up(a, 1)
      BY <1>3, <3>1
    <3>4. a \in SUBSET Int
      <4>1. a \in SUBSET (0 .. d)
        BY <1>1, <3>1
      <4>. QED  BY <4>1
    <3>5. Up(m, 1) = n /\ m \in SUBSET Int
      <4>1. \A g \in genpoly : g \in Int
        BY GeneratorAssumption DEF Bits16
      <4>2. \A g \in genpoly : (g + (d - 16)) + 1 = g + ((d + 1) - 16)
        BY <4>1
      <4>3. Up(m, 1) = {d + 1} \cup {(g + (d - 16)) + 1 : g \in genpoly}
        BY DEF Up
      <4>4. {(g + (d - 16)) + 1 : g \in genpoly} = {g + ((d + 1) - 16) : g \in genpoly}
        BY <4>2
      <4>. QED  BY <4>1, <4>3, <4>4
    <3>6. /\ Reduce(a, d) = IF d \in a THEN Xor(a, m) ELSE a
          /\ Reduce(Up(a, 1), d + 1) = IF d + 1 \in Up(a, 1) THEN Xor(Up(a, 1), n) ELSE Up(a, 1)
      BY Zenon DEF Reduce
    <3>. HIDE DEF a, m, n
    <3>7. d + 1 \in Up(a, 1) <=> d \in a
      BY <3>1, <3>4, UpMember
    <3>8. Up(Xor(a, m), 1) = Xor(Up(a, 1), Up(m, 1))
      BY <3>4, <3>5, UpXor
    <3>. QED  BY <3>2, <3>3, <3>5, <3>6, <3>7, <3>8
  <2>3. h[15] = Reduce(h[16], 16)
    <3>. DEFINE a == f[15]
    <3>1. 15 \in 15 .. degree /\ 16 \in 16 .. degree + 1 /\ 16 - 1 = 15
      OBVIOUS
    <3>2. a \in Word /\ a \in SUBSET Int
      <4>1. a \in SUBSET (0 .. 15)
        BY <1>1, <3>1
      <4>. QED  BY <4>1 DEF Word, Bits16
    <3>3. h[16] = Up(a, 1) /\ h[15] = Turn(a)
      BY <1>3, <3>1
    <3>. HIDE DEF a
    <3>. QED  BY <3>2, <3>3, TurnIsReduce
  <2>4. ASSUME NEW d \in 15 .. (degree + 1) - 1 PROVE h[d] = Reduce(h[d + 1], d + 1)
    <3>1. (d = 15 /\ d + 1 = 16) \/ d \in 16 .. degree
      OBVIOUS
    <3>. QED  BY <2>2, <2>3, <3>1
  <2>. QED  BY <2>1, <2>4 DEF Reduces
<1>5. Remainder(Up(p, 1), degree + 1) = h[15]
  <2>1. degree + 1 \in Nat /\ degree + 1 >= 15
    OBVIOUS
  <2>. QED  BY <1>2, <1>4, <2>1, RemainderIs
<1>. QED  BY <1>1, <1>3, <1>5

LEMMA UpType ==
  ASSUME NEW d \in Nat, NEW p \in SUBSET (0 .. d), NEW k \in Nat
  PROVE  Up(p, k) \in SUBSET (0 .. d + k)
BY DEF Up

LEMMA UpUp ==
  ASSUME NEW p \in SUBSET Int, NEW j \in Int, NEW k \in Int
  PROVE  Up(Up(p, j), k) = Up(p, j + k)
<1>1. /\ Up(p, j) \in SUBSET Int /\ Up(Up(p, j), k) \in SUBSET Int
      /\ Up(p, j + k) \in SUBSET Int
  <2>1. Up(p, j) \in SUBSET Int /\ Up(p, j + k) \in SUBSET Int
    BY DEF Up
  <2>2. \A q \in SUBSET Int : Up(q, k) \in SUBSET Int
    BY DEF Up
  <2>. QED  BY <2>1, <2>2
<1>2. ASSUME NEW e \in Int PROVE e \in Up(Up(p, j), k) <=> e \in Up(p, j + k)
  <2>1. e \in Up(Up(p, j), k) <=> e - k \in Up(p, j)
    BY <1>1, UpMember
  <2>2. e - k \in Up(p, j) <=> (e - k) - j \in p
    <3>1. e - k \in Int
      OBVIOUS
    <3>. QED  BY <3>1, UpMember
  <2>3. e \in Up(p, j + k) <=> e - (j + k) \in p
    <3>1. j + k \in Int
      OBVIOUS
    <3>. QED  BY <3>1, UpMember
  <2>4. (e - k) - j = e - (j + k)
    OBVIOUS
  <2>. QED  BY <2>1, <2>2, <2>3, <2>4
<1>. QED  BY <1>1, <1>2

LEMMA RemainderUp4 ==
  ASSUME NEW degree \in Nat, degree >= 15, NEW p \in SUBSET (0 .. degree)
  PROVE  Remainder(Up(p, 4), degree + 4) = Turns4(Remainder(p, degree))
<1>1. p \in SUBSET Int /\ \A k \in Nat : Up(p, k) \in SUBSET (0 .. degree + k)
  <2>1. p \in SUBSET Int
    OBVIOUS
  <2>2. ASSUME NEW k \in Nat PROVE Up(p, k) \in SUBSET (0 .. degree + k)
    BY UpType
  <2>. QED  BY <2>1, <2>2
<1>2. /\ Up(Up(p, 1), 1) = Up(p, 2) /\ Up(Up(p, 2), 1) = Up(p, 3)
      /\ Up(Up(p, 3), 1) = Up(p, 4)
  <2>1. ASSUME NEW k \in Nat PROVE Up(Up(p, k), 1) = Up(p, k + 1)
    BY <1>1, UpUp
  <2>2. 1 + 1 = 2 /\ 2 + 1 = 3 /\ 3 + 1 = 4
    OBVIOUS
  <2>3. Up(Up(p, 1), 1) = Up(p, 1 + 1)
    BY <2>1
  <2>4. Up(Up(p, 2), 1) = Up(p, 2 + 1)
    BY <2>1
  <2>5. Up(Up(p, 3), 1) = Up(p, 3 + 1)
    BY <2>1
  <2>. QED  BY <2>2, <2>3, <2>4, <2>5, Zenon
<1>3. ASSUME NEW k \in Nat
      PROVE  Remainder(Up(Up(p, k), 1), (degree + k) + 1) = Turn(Remainder(Up(p, k), degree + k))
  <2>1. degree + k \in Nat /\ degree + k >= 15
    OBVIOUS
  <2>. QED  BY <1>1, <2>1, RemainderUp
<1>4. /\ (degree + 1) + 1 = degree + 2 /\ (degree + 2) + 1 = degree + 3
      /\ (degree + 3) + 1 = degree + 4
  OBVIOUS
<1>5. Remainder(Up(p, 2), degree + 2) = Turn(Remainder(Up(p, 1), degree + 1))
  BY <1>2, <1>3, <1>4
<1>6. Remainder(Up(p, 3), degree + 3) = Turn(Remainder(Up(p, 2), degree + 2))
  BY <1>2, <1>3, <1>4
<1>7. Remainder(Up(p, 4), degree + 4) = Turn(Remainder(Up(p, 3), degree + 3))
  BY <1>2, <1>3, <1>4
<1>8. Remainder(Up(p, 1), degree + 1) = Turn(Remainder(p, degree))
  BY RemainderUp
<1>. QED  BY <1>5, <1>6, <1>7, <1>8, Zenon DEF Turns4

(* A byte's worth of powers of x.                                           *)
LEMMA RemainderUp8 ==
  ASSUME NEW degree \in Nat, degree >= 15, NEW p \in SUBSET (0 .. degree)
  PROVE  Remainder(Up(p, 8), degree + 8) = Turns8(Remainder(p, degree))
<1>1. Up(p, 4) \in SUBSET (0 .. degree + 4)
  BY UpType
<1>2. Up(Up(p, 4), 4) = Up(p, 8)
  <2>1. p \in SUBSET Int /\ 4 + 4 = 8
    OBVIOUS
  <2>. QED  BY <2>1, UpUp
<1>3. degree + 4 \in Nat /\ degree + 4 >= 15 /\ (degree + 4) + 4 = degree + 8
  OBVIOUS
<1>4. Remainder(Up(Up(p, 4), 4), (degree + 4) + 4) = Turns4(Remainder(Up(p, 4), degree + 4))
  BY <1>1, <1>3, RemainderUp4
<1>5. Remainder(Up(p, 4), degree + 4) = Turns4(Remainder(p, degree))
  BY RemainderUp4
<1>. QED  BY <1>2, <1>3, <1>4, <1>5, Zenon DEF Turns8

-----------------------------------------------------------------------------
(* The table holds eight turns of each byte, and the loop of CRC is eight   *)
(* turns for each byte of the message.                                      *)

LEMMA TableUnfolds ==
  ASSUME NEW data \in SByte
  PROVE  \E a \in [0 .. 8 -> Word] :
           /\ a[0] = {} /\ TableEntry(data) = a[8]
           /\ \A i \in 1 .. 8 :
                a[i] = IF 15 \in Xor(Shl(data, 7 + i), a[i - 1])
                       THEN Xor(Shl(a[i - 1], 1), genpoly) ELSE Shl(a[i - 1], 1)
<1>. DEFINE f[i \in 0 .. 8] ==
              IF i = 0 THEN {}
              ELSE LET a == f[i - 1]
                       d == Shl(data, 7 + i) IN
                   IF 15 \in Xor(d, a) THEN Xor(Shl(a, 1), genpoly) ELSE Shl(a, 1)
            next(a, i) == IF 15 \in Xor(Shl(data, 7 + i), a) THEN Xor(Shl(a, 1), genpoly) ELSE Shl(a, 1)
            step == [q \in Word \X Nat |-> next(q[1], q[2])]
<1>1. \A a \in Word, i \in Nat : next(a, i) \in Word
  <2>. SUFFICES ASSUME NEW a \in Word, NEW i \in Nat
                PROVE  Shl(a, 1) \in Word /\ Xor(Shl(a, 1), genpoly) \in Word
    OBVIOUS
  <2>1. a \in SUBSET Int
    BY WordsAreInts
  <2>2. Shl(a, 1) \in Word
    BY <2>1, ShlMember
  <2>. QED  BY <2>2, WordsAreInts, XorType DEF Word
<1>2. TableEntry(data) = f[8]
  BY DEF TableEntry
<1>3. f = CHOOSE g : g = [i \in 0 .. 8 |-> IF i = 0 THEN {} ELSE next(g[i - 1], i)]
  BY DEF f
<1>. HIDE DEF f, next
<1>4. step \in [Word \X Nat -> Word] /\ \A a \in Word, i \in Nat : step[<<a, i>>] = next(a, i)
  BY <1>1
<1>5. PICK h \in [0 .. 8 -> Word] : h[0] = {} /\ \A i \in 1 .. 8 : h[i] = step[<<h[i - 1], i>>]
  <2>. HIDE DEF step
  <2>1. {} \in Word
    BY DEF Word
  <2>2. Recursion(Word, {}, step, 8) # {}
    BY <1>4, <2>1, RecursionExists
  <2>. QED  BY <2>2 DEF Recursion
<1>6. \A i \in 1 .. 8 : h[i] = next(h[i - 1], i)
  <2>. HIDE DEF step
  <2>1. \A i \in 1 .. 8 : i - 1 \in 0 .. 8 /\ i \in Nat
    OBVIOUS
  <2>. QED  BY <1>4, <1>5, <2>1
<1>7. h = [i \in 0 .. 8 |-> IF i = 0 THEN {} ELSE next(h[i - 1], i)]
  <2>1. \A i \in 0 .. 8 : i # 0 => i \in 1 .. 8
    OBVIOUS
  <2>2. \A i \in 0 .. 8 : h[i] = IF i = 0 THEN {} ELSE next(h[i - 1], i)
    BY <1>5, <1>6, <2>1
  <2>3. h = [i \in 0 .. 8 |-> h[i]]
    OBVIOUS
  <2>. QED  BY <2>2, <2>3
<1>8. f = [i \in 0 .. 8 |-> IF i = 0 THEN {} ELSE next(f[i - 1], i)]
  BY <1>3, <1>7, Zenon
<1>9. f[0] = {} /\ \A i \in 1 .. 8 : f[i] = next(f[i - 1], i)
  <2>1. 0 \in 0 .. 8 /\ \A i \in 1 .. 8 : i # 0 /\ i \in 0 .. 8
    OBVIOUS
  <2>. QED  BY <1>8, <2>1
<1>10. f \in [0 .. 8 -> Word]
  <2>1. f[0] \in Word
    BY <1>9 DEF Word
  <2>2. ASSUME NEW i \in 1 .. 8, f[i - 1] \in Word PROVE f[i] \in Word
    <3>1. i \in Nat
      OBVIOUS
    <3>. QED  BY <1>1, <1>9, <2>2, <3>1
  <2>3. f[1] \in Word /\ f[2] \in Word /\ f[3] \in Word /\ f[4] \in Word
        /\ f[5] \in Word /\ f[6] \in Word /\ f[7] \in Word /\ f[8] \in Word
    <3>1. ASSUME NEW i \in 0 .. 7, f[i] \in Word PROVE f[i + 1] \in Word
      <4>1. i + 1 \in 1 .. 8 /\ (i + 1) - 1 = i
        OBVIOUS
      <4>. QED  BY <2>2, <3>1, <4>1
    <3>. QED  BY <2>1, <3>1
  <2>4. \A i \in 0 .. 8 : f[i] \in Word
    BY <2>1, <2>3
  <2>5. f = [i \in 0 .. 8 |-> f[i]]
    BY <1>8, Zenon
  <2>. QED  BY <2>4, <2>5
<1>. QED  BY <1>2, <1>9, <1>10 DEF next

LEMMA TableIsTurns ==
  ASSUME NEW data \in SByte
  PROVE  TableEntry(data) = Turns8(Shl(data, 8))
<1>1. PICK a \in [0 .. 8 -> Word] :
           /\ a[0] = {} /\ TableEntry(data) = a[8]
           /\ \A i \in 1 .. 8 :
                a[i] = IF 15 \in Xor(Shl(data, 7 + i), a[i - 1])
                       THEN Xor(Shl(a[i - 1], 1), genpoly) ELSE Shl(a[i - 1], 1)
  BY TableUnfolds
<1>. DEFINE e(i) == Xor(a[i], Shl(data, 8 + i))
<1>2. data \in SUBSET Int /\ \A i \in data : i \in 0 .. 7
  BY DEF SByte, Bits8
<1>3. ASSUME NEW i \in 0 .. 7 PROVE e(i + 1) = Turn(e(i))
  <2>. DEFINE b == a[i]
              d == Shl(data, 8 + i)
  <2>1. i + 1 \in 1 .. 8 /\ (i + 1) - 1 = i /\ 7 + (i + 1) = 8 + i /\ 8 + (i + 1) = 9 + i
    OBVIOUS
  <2>2. a[i + 1] = IF 15 \in Xor(d, b) THEN Xor(Shl(b, 1), genpoly) ELSE Shl(b, 1)
    BY <1>1, <2>1
  <2>3. b \in Word /\ d \in Word
    <3>1. i \in 0 .. 8 /\ 8 + i \in Int
      OBVIOUS
    <3>2. d \in Word
      BY <1>2, <3>1, ShlMember
    <3>. QED  BY <3>1, <3>2
  <2>4. e(i) = Xor(b, d) /\ e(i + 1) = Xor(a[i + 1], Shl(data, 9 + i))
    BY <2>1
  <2>5. Shl(d, 1) = Shl(data, 9 + i)
    <3>0. d \in SUBSET Int
      BY <2>3, WordsAreInts
    <3>1. ASSUME NEW k PROVE k \in Shl(d, 1) <=> k \in Shl(data, 9 + i)
      <4>1. k \in Shl(d, 1) <=> k \in Bits16 /\ k - 1 \in d
        BY <3>0, ShlMember
      <4>2. k - 1 \in d <=> k - 1 \in Bits16 /\ (k - 1) - (8 + i) \in data
        BY <1>2, ShlMember
      <4>3. k \in Shl(data, 9 + i) <=> k \in Bits16 /\ k - (9 + i) \in data
        BY <1>2, ShlMember
      <4>4. ASSUME k \in Bits16
            PROVE  (k - 1) - (8 + i) = k - (9 + i) /\ (k - (9 + i) \in data => k - 1 \in Bits16)
        BY <1>2, <4>4 DEF Bits16
      <4>. QED  BY <4>1, <4>2, <4>3, <4>4
    <3>. QED  BY <3>1
  <2>. HIDE DEF b, d, e
  <2>6. Shl(Xor(b, d), 1) = Xor(Shl(b, 1), Shl(d, 1))
    BY <2>3, ShlXor
  <2>7. Turn(Xor(b, d)) = IF 15 \in Xor(b, d) THEN Xor(Xor(Shl(b, 1), Shl(d, 1)), genpoly)
                          ELSE Xor(Shl(b, 1), Shl(d, 1))
    BY <2>6 DEF Turn
  <2>8. Xor(Xor(Shl(b, 1), Shl(d, 1)), genpoly) = Xor(Xor(Shl(b, 1), genpoly), Shl(d, 1))
        /\ Xor(b, d) = Xor(d, b)
    BY XorFours
  <2>. QED  BY <2>2, <2>4, <2>5, <2>7, <2>8
<1>4. e(0) = Shl(data, 8) /\ e(8) = a[8]
  <2>1. Shl(data, 16) = {}
    <3>1. ASSUME NEW k \in Shl(data, 16) PROVE FALSE
      <4>1. k \in Bits16 /\ k - 16 \in data
        BY <1>2, ShlMember
      <4>. QED  BY <1>2, <4>1 DEF Bits16
    <3>. QED  BY <3>1
  <2>2. 8 + 0 = 8 /\ 8 + 8 = 16
    OBVIOUS
  <2>. QED  BY <1>1, <2>1, <2>2, XorSelf
<1>. HIDE DEF e
<1>5. /\ e(1) = Turn(e(0)) /\ e(2) = Turn(e(1)) /\ e(3) = Turn(e(2)) /\ e(4) = Turn(e(3))
      /\ e(5) = Turn(e(4)) /\ e(6) = Turn(e(5)) /\ e(7) = Turn(e(6)) /\ e(8) = Turn(e(7))
  <2>1. /\ e(0 + 1) = Turn(e(0)) /\ e(1 + 1) = Turn(e(1)) /\ e(2 + 1) = Turn(e(2))
        /\ e(3 + 1) = Turn(e(3)) /\ e(4 + 1) = Turn(e(4)) /\ e(5 + 1) = Turn(e(5))
        /\ e(6 + 1) = Turn(e(6)) /\ e(7 + 1) = Turn(e(7))
    BY <1>3
  <2>2. 0 + 1 = 1 /\ 1 + 1 = 2 /\ 2 + 1 = 3 /\ 3 + 1 = 4 /\ 4 + 1 = 5 /\ 5 + 1 = 6
        /\ 6 + 1 = 7 /\ 7 + 1 = 8
    OBVIOUS
  <2>. QED  BY <2>1, <2>2, Zenon
<1>6. Turns4(e(0)) = e(4)
  BY <1>5, Zenon DEF Turns4
<1>7. Turns4(e(4)) = e(8)
  BY <1>5, Zenon DEF Turns4
<1>8. Turns8(e(0)) = e(8)
  BY <1>6, <1>7, Zenon DEF Turns8
<1>. QED  BY <1>1, <1>4, <1>8, Zenon

(* One byte of the message.                                                 *)
LEMMA NextIsTurns ==
  ASSUME NEW acc \in Word, NEW byte \in SByte
  PROVE  NextAccum(acc, byte) = Turns8(Xor(acc, Shl(byte, 8)))
<1>. DEFINE hi == Shr(acc, 8)
            lo == acc \cap Bits8
            x == Xor(hi, byte)
<1>1. /\ acc \in SUBSET Int /\ byte \in SUBSET Int
      /\ (\A i \in acc : i \in 0 .. 15) /\ \A i \in byte : i \in 0 .. 7
  BY DEF Word, SByte, Bits8, Bits16
<1>2. hi \in SByte /\ \A i : i \in hi <=> i \in Bits16 /\ i + 8 \in acc
  <2>1. \A i : i \in hi <=> i \in Bits16 /\ i + 8 \in acc
    BY <1>1, ShrMember
  <2>2. ASSUME NEW i \in hi PROVE i \in Bits8
    BY <1>1, <2>1 DEF Bits16, Bits8
  <2>. QED  BY <2>1, <2>2 DEF SByte
<1>3. x \in SByte
  BY <1>2, XorType DEF SByte
<1>4. hi \in SUBSET Int /\ lo \in Word /\ x \in SUBSET Int
  BY <1>2, <1>3 DEF SByte, Bits8, Word
<1>5. acc = Xor(lo, Shl(hi, 8))
  <2>1. ASSUME NEW i PROVE i \in acc <=> i \in Xor(lo, Shl(hi, 8))
    <3>1. i \in Xor(lo, Shl(hi, 8)) <=> ~(i \in lo <=> i \in Shl(hi, 8))
      BY XorMember
    <3>2. i \in Shl(hi, 8) <=> i \in Bits16 /\ i - 8 \in hi
      BY <1>4, ShlMember
    <3>3. i \in Bits16 => (i - 8 \in hi <=> i >= 8 /\ i \in acc)
      <4>. SUFFICES ASSUME i \in Bits16 PROVE i - 8 \in hi <=> i >= 8 /\ i \in acc
        OBVIOUS
      <4>1. i \in 0 .. 15 /\ (i - 8) + 8 = i /\ (i - 8 \in Bits16 <=> i >= 8)
        BY DEF Bits16
      <4>. QED  BY <1>2, <4>1
    <3>4. i \in lo <=> i \in acc /\ i \in 0 .. 7
      BY DEF Bits8
    <3>5. i \in acc => i \in 0 .. 15 /\ i \in Bits16
      BY <1>1 DEF Bits16
    <3>. HIDE DEF lo, hi
    <3>. QED  BY <3>1, <3>2, <3>3, <3>4, <3>5
  <2>. QED  BY <2>1
<1>6. Shl(x, 8) = Xor(Shl(hi, 8), Shl(byte, 8))
  <2>. HIDE DEF hi
  <2>1. ASSUME NEW i PROVE i \in Shl(x, 8) <=> i \in Xor(Shl(hi, 8), Shl(byte, 8))
    <3>1. /\ i \in Shl(x, 8) <=> i \in Bits16 /\ i - 8 \in x
          /\ i \in Shl(hi, 8) <=> i \in Bits16 /\ i - 8 \in hi
          /\ i \in Shl(byte, 8) <=> i \in Bits16 /\ i - 8 \in byte
      BY <1>1, <1>4, ShlMember
    <3>2. /\ i - 8 \in x <=> ~(i - 8 \in hi <=> i - 8 \in byte)
          /\ i \in Xor(Shl(hi, 8), Shl(byte, 8)) <=> ~(i \in Shl(hi, 8) <=> i \in Shl(byte, 8))
      BY XorMember
    <3>. QED  BY <3>1, <3>2
  <2>. QED  BY <2>1
<1>7. NextAccum(acc, byte) = Xor(Shl(acc, 8), TableEntry(x))
  <2>1. x \in SUBSET Bits8
    BY <1>3 DEF SByte
  <2>2. s_crctable[x] = TableEntry(x)
    BY <2>1 DEF s_crctable
  <2>. QED  BY <2>2 DEF NextAccum
<1>8. Turns8(lo) = Shl(acc, 8)
  BY TurnsLow
<1>9. TableEntry(x) = Turns8(Shl(x, 8)) /\ Shl(x, 8) \in Word
  BY <1>3, <1>4, TableIsTurns, ShlMember
<1>. HIDE DEF hi, lo, x
<1>10. Turns8(Xor(lo, Shl(x, 8))) = Xor(Turns8(lo), Turns8(Shl(x, 8)))
  BY <1>4, <1>9, TurnsLinear
<1>11. Xor(acc, Shl(byte, 8)) = Xor(lo, Shl(x, 8))
  <2>1. Xor(Xor(lo, Shl(hi, 8)), Shl(byte, 8)) = Xor(lo, Xor(Shl(hi, 8), Shl(byte, 8)))
    BY XorFours
  <2>. QED  BY <1>5, <1>6, <2>1
<1>. QED  BY <1>7, <1>8, <1>9, <1>10, <1>11

-----------------------------------------------------------------------------
(* The polynomial of the first k bytes.                                     *)
Part(m, k) == UNION {{8 * (k - i) + b : b \in m[i]} : i \in 1 .. k}

LEMMA PartMember ==
  ASSUME NEW m \in Seq(SByte), NEW k \in 0 .. Len(m)
  PROVE  /\ \A e : e \in Part(m, k) <=> \E i \in 1 .. k : \E b \in m[i] : e = 8 * (k - i) + b
         /\ \A e \in Part(m, k) : e \in 0 .. 8 * k - 1
         /\ \A i \in 1 .. k : m[i] \in SByte
<1>1. \A e : e \in Part(m, k) <=> \E i \in 1 .. k : \E b \in m[i] : e = 8 * (k - i) + b
  <2>1. \A e : e \in Part(m, k) <=> \E i \in 1 .. k : e \in {8 * (k - i) + b : b \in m[i]}
    BY DEF Part
  <2>. QED  BY <2>1
<1>2. k \in Nat /\ \A i \in 1 .. k : i \in 1 .. Len(m)
  OBVIOUS
<1>3. \A i \in 1 .. k : m[i] \in SByte
  BY <1>2
<1>4. ASSUME NEW e \in Part(m, k) PROVE e \in 0 .. 8 * k - 1
  <2>1. PICK i \in 1 .. k : \E b \in m[i] : e = 8 * (k - i) + b
    BY <1>1
  <2>2. PICK b \in m[i] : e = 8 * (k - i) + b
    BY <2>1
  <2>3. b \in 0 .. 7
    BY <1>3 DEF SByte, Bits8
  <2>. QED  BY <1>2, <2>2, <2>3
<1>. QED  BY <1>1, <1>3, <1>4

LEMMA PartNext ==
  ASSUME NEW m \in Seq(SByte), NEW k \in Nat, k + 1 <= Len(m)
  PROVE  Part(m, k + 1) = Xor(Up(Part(m, k), 8), m[k + 1])
<1>1. k \in 0 .. Len(m) /\ k + 1 \in 0 .. Len(m) /\ k + 1 \in 1 .. k + 1
  OBVIOUS
<1>2. \A b \in m[k + 1] : b \in 0 .. 7
  BY <1>1, PartMember DEF SByte, Bits8
<1>3. Part(m, k) \in SUBSET Int /\ \A e \in Part(m, k) : e >= 0
  <2>1. \A e \in Part(m, k) : e \in 0 .. 8 * k - 1
    BY <1>1, PartMember
  <2>. QED  BY <2>1
<1>4. ASSUME NEW e \in Up(Part(m, k), 8) PROVE e \in Int /\ e >= 8 /\ e - 8 \in Part(m, k)
  <2>1. e \in Int
    BY <1>3, UpMember
  <2>2. e - 8 \in Part(m, k)
    BY <1>3, <2>1, UpMember
  <2>. QED  BY <1>3, <2>1, <2>2
<1>5. \A i \in 1 .. k : \A b \in m[i] : 8 * ((k + 1) - i) + b = (8 * (k - i) + b) + 8
  <2>1. \A i \in 1 .. k : m[i] \in SByte
    BY <1>1, PartMember
  <2>2. ASSUME NEW i \in 1 .. k, NEW b \in m[i] PROVE b \in Int
    <3>1. m[i] \in SByte
      BY <2>1
    <3>. QED  BY <3>1 DEF SByte, Bits8
  <2>. QED  BY <2>2
<1>6. ASSUME NEW e
      PROVE  e \in Part(m, k + 1) <=> e \in Up(Part(m, k), 8) \/ e \in m[k + 1]
  <2>1. ASSUME e \in Part(m, k + 1) PROVE e \in Up(Part(m, k), 8) \/ e \in m[k + 1]
    <3>1. PICK i \in 1 .. k + 1 : \E b \in m[i] : e = 8 * ((k + 1) - i) + b
      BY <1>1, <2>1, PartMember
    <3>4. PICK b \in m[i] : e = 8 * ((k + 1) - i) + b
      BY <3>1
    <3>2. CASE i = k + 1
      <4>1. b \in m[k + 1] /\ b \in 0 .. 7
        BY <1>2, <3>4, <3>2
      <4>2. (k + 1) - i = 0
        BY <3>2
      <4>3. e = b
        BY <3>4, <4>1, <4>2
      <4>. QED  BY <4>1, <4>3
    <3>3. CASE i # k + 1
      <4>1. i \in 1 .. k
        BY <3>3
      <4>2. 8 * (k - i) + b \in Part(m, k)
        BY <1>1, <4>1, PartMember
      <4>3. e = (8 * (k - i) + b) + 8
        BY <1>5, <3>4, <4>1
      <4>. QED  BY <4>2, <4>3 DEF Up
    <3>. QED  BY <3>2, <3>3
  <2>2. ASSUME e \in m[k + 1] PROVE e \in Part(m, k + 1)
    <3>1. e = 8 * ((k + 1) - (k + 1)) + e
      BY <1>2, <2>2
    <3>. QED  BY <1>1, <2>2, <3>1, PartMember
  <2>3. ASSUME e \in Up(Part(m, k), 8) PROVE e \in Part(m, k + 1)
    <3>1. e - 8 \in Part(m, k) /\ e \in Int
      BY <1>4, <2>3
    <3>6. \A x : x \in Part(m, k) => \E i \in 1 .. k : \E b \in m[i] : x = 8 * (k - i) + b
      BY <1>1, PartMember
    <3>2. PICK i \in 1 .. k : \E b \in m[i] : e - 8 = 8 * (k - i) + b
      BY <3>1, <3>6
    <3>5. PICK b \in m[i] : e - 8 = 8 * (k - i) + b
      BY <3>2
    <3>3. i \in 1 .. k + 1 /\ e = (e - 8) + 8
      BY <3>1
    <3>4. e = 8 * ((k + 1) - i) + b
      BY <1>5, <3>5, <3>3
    <3>. QED  BY <1>1, <3>5, <3>3, <3>4, PartMember
  <2>. QED  BY <2>1, <2>2, <2>3
<1>7. ASSUME NEW e PROVE ~(e \in Up(Part(m, k), 8) /\ e \in m[k + 1])
  BY <1>2, <1>4
<1>8. ASSUME NEW e PROVE e \in Part(m, k + 1) <=> e \in Xor(Up(Part(m, k), 8), m[k + 1])
  BY <1>6, <1>7, XorMember
<1>. QED  BY <1>8

LEMMA PolynomialIsPart ==
  ASSUME NEW m \in Seq(SByte)
  PROVE  Polynomial(m) = Part(m, Len(m)) /\ Part(m, 0) = {} /\ Len(m) \in Nat
<1>1. DOMAIN m = 1 .. Len(m) /\ Len(m) \in Nat
  OBVIOUS
<1>2. Part(m, 0) = {}
  <2>1. 1 .. 0 = {}
    OBVIOUS
  <2>. QED  BY <2>1 DEF Part
<1>. QED  BY <1>1, <1>2, Zenon DEF Polynomial, Part

LEMMA ByteShl ==
  ASSUME NEW b \in SByte
  PROVE  Shl(b, 8) \in Word
<1>1. b \in SUBSET Int /\ 8 \in Int
  BY DEF SByte, Bits8
<1>. QED  BY <1>1, ShlMember

LEMMA AccumulatedUnfolds ==
  ASSUME NEW m \in Seq(SByte)
  PROVE  \E a \in [0 .. Len(m) -> Word] :
           /\ a[0] = {} /\ Accumulated(m) = a[Len(m)]
           /\ \A i \in 1 .. Len(m) : a[i] = NextAccum(a[i - 1], m[i])
<1>. DEFINE n == Len(m)
            f[i \in 0 .. n] == IF i = 0 THEN {} ELSE NextAccum(f[i - 1], m[i])
            next(a, i) == IF i \in 1 .. n THEN NextAccum(a, m[i]) ELSE a
            step == [q \in Word \X Nat |-> next(q[1], q[2])]
<1>1. \A a \in Word, i \in Nat : next(a, i) \in Word
  <2>1. ASSUME NEW a \in Word, NEW b \in SByte PROVE NextAccum(a, b) \in Word
    <3>2. Shl(b, 8) \in Word
      BY ByteShl
    <3>3. Xor(a, Shl(b, 8)) \in Word
      BY <3>2, XorType DEF Word
    <3>. QED  BY <3>3, NextIsTurns, TurnsLinear
  <2>2. \A i \in 1 .. n : m[i] \in SByte
    OBVIOUS
  <2>. QED  BY <2>1, <2>2
<1>2. Accumulated(m) = f[n]
  BY DEF Accumulated
<1>3. f = CHOOSE g : g = [i \in 0 .. n |-> IF i = 0 THEN {} ELSE NextAccum(g[i - 1], m[i])]
  BY DEF f
<1>0. n \in Nat
  OBVIOUS
<1>10. \A i \in 1 .. n : i - 1 \in 0 .. n /\ i \in Nat /\ i # 0 /\ i \in 0 .. n
  OBVIOUS
<1>11. 0 \in 0 .. n /\ \A i \in 0 .. n : i # 0 => i \in 1 .. n
  OBVIOUS
<1>12. \A i \in 1 .. n : \A a : next(a, i) = NextAccum(a, m[i])
  OBVIOUS
<1>. HIDE DEF f, n, next
<1>4. step \in [Word \X Nat -> Word] /\ \A a \in Word, i \in Nat : step[<<a, i>>] = next(a, i)
  BY <1>1
<1>5. PICK h \in [0 .. n -> Word] : h[0] = {} /\ \A i \in 1 .. n : h[i] = step[<<h[i - 1], i>>]
  <2>. HIDE DEF step
  <2>1. {} \in Word
    BY DEF Word
  <2>2. Recursion(Word, {}, step, n) # {}
    BY <1>0, <1>4, <2>1, RecursionExists
  <2>. QED  BY <2>2 DEF Recursion
<1>6. \A i \in 1 .. n : h[i] = NextAccum(h[i - 1], m[i])
  <2>. HIDE DEF step
  <2>1. \A i \in 1 .. n : h[i - 1] \in Word
    BY <1>10
  <2>. QED  BY <1>4, <1>5, <1>10, <1>12, <2>1
<1>7. h = [i \in 0 .. n |-> IF i = 0 THEN {} ELSE NextAccum(h[i - 1], m[i])]
  <2>1. \A i \in 0 .. n : h[i] = IF i = 0 THEN {} ELSE NextAccum(h[i - 1], m[i])
    BY <1>5, <1>6, <1>11
  <2>2. h = [i \in 0 .. n |-> h[i]]
    OBVIOUS
  <2>. QED  BY <2>1, <2>2
<1>8. f = [i \in 0 .. n |-> IF i = 0 THEN {} ELSE NextAccum(f[i - 1], m[i])]
  BY <1>3, <1>7, Zenon
<1>9. f[0] = {} /\ \A i \in 1 .. n : f[i] = NextAccum(f[i - 1], m[i])
  BY <1>8, <1>10, <1>11
<1>13. ASSUME NEW i \in 0 .. n PROVE f[i] \in Word
  <2>. DEFINE S == {k \in Nat : k <= n => f[k] \in Word}
  <2>1. 0 \in S
    BY <1>9 DEF Word
  <2>2. ASSUME NEW k \in S, k + 1 <= n PROVE f[k + 1] \in Word
    <3>1. k + 1 \in 1 .. n /\ (k + 1) - 1 = k /\ f[k] \in Word /\ k + 1 \in Nat
      BY <1>0, <2>2
    <3>2. f[k + 1] = next(f[k], k + 1)
      BY <1>9, <1>12, <3>1
    <3>. QED  BY <1>1, <3>1, <3>2
  <2>3. S = Nat
    <3>1. S \in SUBSET Nat
      OBVIOUS
    <3>2. ASSUME NEW k \in S PROVE k + 1 \in S
      <4>1. k + 1 \in Nat
        OBVIOUS
      <4>. QED  BY <2>2, <4>1
    <3>. HIDE DEF S
    <3>. QED  BY <2>1, <3>1, <3>2, SetInduction
  <2>. QED  BY <1>0, <2>3
<1>14. f \in [0 .. n -> Word]
  <2>1. f = [i \in 0 .. n |-> f[i]]
    BY <1>8, Zenon
  <2>. QED  BY <1>13, <2>1
<1>. QED  BY <1>2, <1>9, <1>14 DEF n

(* The accumulator holds the remainder of what has been read, with sixteen  *)
(* zeros behind it.                                                         *)
LEMMA AccumulatedIsRemainder ==
  ASSUME NEW m \in Seq(SByte)
  PROVE  /\ Accumulated(m) = Remainder(Up(Polynomial(m), 16), 8 * Len(m) + 15)
         /\ Accumulated(m) \in Word
<1>1. PICK a \in [0 .. Len(m) -> Word] :
           /\ a[0] = {} /\ Accumulated(m) = a[Len(m)]
           /\ \A i \in 1 .. Len(m) : a[i] = NextAccum(a[i - 1], m[i])
  BY AccumulatedUnfolds
<1>. DEFINE n == Len(m)
            R(k) == Remainder(Up(Part(m, k), 16), 8 * k + 15)
            S == {k \in Nat : k <= n => a[k] = R(k)}
<1>2. n \in Nat
  OBVIOUS
<1>3. a[0] = R(0)
  <2>1. Up(Part(m, 0), 16) = {}
    BY PolynomialIsPart DEF Up
  <2>2. {} \in Word /\ 8 * 0 + 15 = 15
    BY DEF Word
  <2>3. Remainder({}, 15) = {}
    BY <2>2, RemainderLow
  <2>. QED  BY <1>1, <2>1, <2>2, <2>3
<1>4. ASSUME NEW k \in Nat, k + 1 <= n, a[k] = R(k) PROVE a[k + 1] = R(k + 1)
  <2>. DEFINE p == Part(m, k)
              b == m[k + 1]
              q == Up(p, 16)
              c == Up(b, 8)
              D == 8 * k + 15
  <2>1. k \in 0 .. n /\ k + 1 \in 1 .. n /\ (k + 1) - 1 = k /\ D \in Nat /\ D >= 15
        /\ 8 * (k + 1) + 15 = D + 8
    BY <1>2, <1>4
  <2>2. p \in SUBSET Int /\ q \in SUBSET (0 .. D)
    <3>1. \A e \in p : e \in 0 .. 8 * k - 1
      BY <2>1, PartMember
    <3>2. \A e \in p : e + 16 \in 0 .. D
      BY <3>1
    <3>. QED  BY <3>1, <3>2 DEF Up
  <2>3. b \in SByte /\ b \in SUBSET Int
    <3>1. b \in SByte
      BY <2>1
    <3>. QED  BY <3>1 DEF SByte, Bits8
  <2>4. c \in Word /\ c = Shl(b, 8) /\ c \in SUBSET (0 .. D) /\ c \in SUBSET Int
    <3>0. \A e \in b : e \in 0 .. 7
      BY <2>3 DEF SByte, Bits8
    <3>1. \A e \in b : e + 8 \in 8 .. 15
      BY <3>0, SMTT(30)
    <3>2. \A e \in c : e \in 8 .. 15
      BY <3>1 DEF Up
    <3>3. c = c \cap Bits16
      BY <3>2 DEF Bits16
    <3>4. Shl(b, 8) = c \cap Bits16
      BY DEF Shl, Up
    <3>5. \A e \in c : e \in 0 .. D /\ e \in Int /\ e \in Bits16
      BY <2>1, <3>2 DEF Bits16
    <3>. HIDE DEF c, D
    <3>. QED  BY <3>3, <3>4, <3>5 DEF Word
  <2>5. Up(Part(m, k + 1), 16) = Xor(Up(q, 8), Up(c, 8))
    <3>1. Part(m, k + 1) = Xor(Up(p, 8), b)
      BY <1>4, PartNext
    <3>2. Up(p, 8) \in SUBSET Int
      BY <2>2, UpMember
    <3>3. Up(Xor(Up(p, 8), b), 16) = Xor(Up(Up(p, 8), 16), Up(b, 16))
      BY <2>3, <3>2, UpXor
    <3>4. Up(Up(p, 8), 16) = Up(p, 8 + 16) /\ Up(Up(p, 16), 8) = Up(p, 16 + 8)
      <4>1. Up(Up(p, 8), 16) = Up(p, 8 + 16)
        BY <2>2, UpUp
      <4>2. Up(Up(p, 16), 8) = Up(p, 16 + 8)
        BY <2>2, UpUp
      <4>. QED  BY <4>1, <4>2
    <3>5. Up(Up(b, 8), 8) = Up(b, 8 + 8)
      BY <2>3, UpUp
    <3>6. 8 + 16 = 24 /\ 16 + 8 = 24 /\ 8 + 8 = 16
      OBVIOUS
    <3>. HIDE DEF p, b
    <3>. QED  BY <3>1, <3>3, <3>4, <3>5, <3>6
  <2>6. a[k + 1] = Turns8(Xor(a[k], c))
    <3>1. a[k + 1] = NextAccum(a[k], b) /\ a[k] \in Word
      BY <1>1, <2>1
    <3>. HIDE DEF b, c
    <3>. QED  BY <2>3, <2>4, <3>1, NextIsTurns
  <2>7. R(k) = Remainder(q, D) /\ R(k + 1) = Remainder(Xor(Up(q, 8), Up(c, 8)), D + 8)
    BY <2>1, <2>5
  <2>8. a[k] \in Word
    BY <2>1
  <2>. HIDE DEF q, c, D, R, p, b
  <2>9. Up(q, 8) \in SUBSET (0 .. D + 8) /\ Up(c, 8) \in SUBSET (0 .. D + 8)
        /\ D + 8 \in Nat /\ D + 8 >= 15
    <3>1. Up(q, 8) \in SUBSET (0 .. D + 8)
      BY <2>1, <2>2, UpType
    <3>2. Up(c, 8) \in SUBSET (0 .. D + 8)
      BY <2>1, <2>4, UpType
    <3>. QED  BY <2>1, <3>1, <3>2
  <2>10. R(k + 1) = Xor(Remainder(Up(q, 8), D + 8), Remainder(Up(c, 8), D + 8))
    BY <2>7, <2>9, RemainderLinear
  <2>11. Remainder(Up(q, 8), D + 8) = Turns8(Remainder(q, D))
    BY <2>1, <2>2, RemainderUp8
  <2>12. Remainder(Up(c, 8), D + 8) = Turns8(Remainder(c, D))
    BY <2>1, <2>4, RemainderUp8
  <2>13. Remainder(c, D) = c
    BY <2>1, <2>4, RemainderLow
  <2>14. Turns8(Xor(a[k], c)) = Xor(Turns8(a[k]), Turns8(c))
    BY <2>4, <2>8, TurnsLinear
  <2>. QED  BY <1>4, <2>6, <2>7, <2>10, <2>11, <2>12, <2>13, <2>14
<1>. HIDE DEF R
<1>5. S = Nat
  <2>1. S \in SUBSET Nat /\ 0 \in S
    BY <1>3
  <2>2. ASSUME NEW k \in S PROVE k + 1 \in S
    <3>1. k + 1 \in Nat /\ (k + 1 <= n => k <= n)
      BY <1>2
    <3>2. k + 1 <= n => a[k + 1] = R(k + 1)
      BY <1>4, <3>1
    <3>. QED  BY <3>1, <3>2
  <2>. HIDE DEF S
  <2>. QED  BY <2>1, <2>2, SetInduction
<1>6. a[n] = R(n)
  BY <1>2, <1>5
<1>. QED  BY <1>1, <1>2, <1>6, PolynomialIsPart DEF R

(* What CRC returns, loaded byte by byte, is the accumulator with its high  *)
(* byte first.                                                              *)
LEMMA SwappedIsLoaded ==
  ASSUME NEW a \in Word, NEW c1 \in SByte, NEW c2 \in SByte
  PROVE  Swapped(a) = c1 \cup Shl(c2, 8) <=> a = Xor(Up(c1, 8), c2)
<1>. DEFINE High == \A e \in 0 .. 7 : e \in c1 <=> e + 8 \in a
            Low == \A e \in 0 .. 7 : e \in c2 <=> e \in a
<1>1. /\ a \in SUBSET Int /\ \A e \in a : e \in 0 .. 15
      /\ c1 \in SUBSET Int /\ c2 \in SUBSET Int
      /\ (\A e \in c1 : e \in 0 .. 7) /\ \A e \in c2 : e \in 0 .. 7
  BY DEF Word, Bits16, SByte, Bits8
<1>2. \A e : e \in Swapped(a) <=> e \in 0 .. 15 /\ (e + 8 \in a \/ e - 8 \in a)
  <2>1. \A e : e \in Shr(a, 8) <=> e \in Bits16 /\ e + 8 \in a
    BY <1>1, ShrMember
  <2>2. \A e : e \in Shl(a, 8) <=> e \in Bits16 /\ e - 8 \in a
    BY <1>1, ShlMember
  <2>. QED  BY <2>1, <2>2 DEF Swapped, Bits16
<1>3. \A e : e \in c1 \cup Shl(c2, 8) <=> e \in c1 \/ (e \in 0 .. 15 /\ e - 8 \in c2)
  <2>1. \A e : e \in Shl(c2, 8) <=> e \in Bits16 /\ e - 8 \in c2
    BY <1>1, ShlMember
  <2>. QED  BY <2>1 DEF Bits16
<1>4. \A e \in Int : e \in Xor(Up(c1, 8), c2) <=> ~(e - 8 \in c1 <=> e \in c2)
  BY <1>1, UpMember, XorMember
<1>5. Up(c1, 8) \in SUBSET Int /\ Xor(Up(c1, 8), c2) \in SUBSET Int
  <2>1. Up(c1, 8) \in SUBSET Int
    BY <1>1 DEF Up
  <2>. QED  BY <1>1, <2>1, XorType
<1>6. ASSUME NEW e \in 0 .. 7
      PROVE  /\ e \in 0 .. 15 /\ e + 8 \in 0 .. 15 /\ e - 8 \notin a /\ (e + 8) + 8 \notin a
             /\ (e + 8) - 8 = e /\ e - 8 \notin c1 /\ e - 8 \notin c2 /\ e + 8 \notin c1 /\ e + 8 \notin c2
             /\ e \in Int /\ e + 8 \in Int
  BY <1>1
<1>7. \A e \in Int : e \in 0 .. 15 => e \in 0 .. 7 \/ \E k \in 0 .. 7 : e = k + 8
  <2>. SUFFICES ASSUME NEW e \in 8 .. 15 PROVE \E k \in 0 .. 7 : e = k + 8
    OBVIOUS
  <2>1. e - 8 \in 0 .. 7 /\ e = (e - 8) + 8
    OBVIOUS
  <2>. QED  BY <2>1
<1>8. Swapped(a) = c1 \cup Shl(c2, 8) <=> High /\ Low
  <2>1. ASSUME NEW e \in 0 .. 7
        PROVE  /\ e \in Swapped(a) <=> e + 8 \in a
               /\ e + 8 \in Swapped(a) <=> e \in a
               /\ e \in c1 \cup Shl(c2, 8) <=> e \in c1
               /\ e + 8 \in c1 \cup Shl(c2, 8) <=> e \in c2
    BY <1>2, <1>3, <1>6
  <2>2. ASSUME NEW e, e \in Swapped(a) \/ e \in c1 \cup Shl(c2, 8)
        PROVE  e \in 0 .. 7 \/ \E k \in 0 .. 7 : e = k + 8
    <3>1. e \in 0 .. 15
      <4>1. e \in 0 .. 15 \/ e \in c1
        BY <1>2, <1>3, <2>2
      <4>. QED  BY <1>1, <1>6, <4>1
    <3>. QED  BY <1>7, <3>1
  <2>3. Swapped(a) = c1 \cup Shl(c2, 8) => High /\ Low
    BY <2>1
  <2>4. ASSUME High, Low PROVE Swapped(a) = c1 \cup Shl(c2, 8)
    <3>1. \A e : e \in Swapped(a) <=> e \in c1 \cup Shl(c2, 8)
      BY <2>1, <2>2, <2>4
    <3>. QED  BY <3>1
  <2>. QED  BY <2>3, <2>4
<1>9. a = Xor(Up(c1, 8), c2) <=> High /\ Low
  <2>1. ASSUME NEW e \in 0 .. 7
        PROVE  /\ e \in Xor(Up(c1, 8), c2) <=> e \in c2
               /\ e + 8 \in Xor(Up(c1, 8), c2) <=> e \in c1
    BY <1>4, <1>6
  <2>2. ASSUME NEW e, e \in a \/ e \in Xor(Up(c1, 8), c2)
        PROVE  e \in 0 .. 7 \/ \E k \in 0 .. 7 : e = k + 8
    <3>1. e \in Int
      BY <1>1, <1>5, <2>2
    <3>2. e \in 0 .. 15
      <4>1. e \in a \/ e - 8 \in c1 \/ e \in c2
        BY <1>4, <2>2, <3>1
      <4>. QED  BY <1>1, <3>1, <4>1
    <3>. QED  BY <1>7, <3>1, <3>2
  <2>3. a = Xor(Up(c1, 8), c2) => High /\ Low
    BY <2>1
  <2>4. ASSUME High, Low PROVE a = Xor(Up(c1, 8), c2)
    <3>1. \A e : e \in a <=> e \in Xor(Up(c1, 8), c2)
      BY <2>1, <2>2, <2>4
    <3>. QED  BY <3>1
  <2>. QED  BY <2>3, <2>4
<1>. QED  BY <1>8, <1>9

(* What the division leaves of a message with two bytes behind it.          *)
LEMMA FrameRemainder ==
  ASSUME NEW m \in Seq(SByte), NEW f \in Seq(SByte), Len(f) = Len(m) + 2,
         \A i \in 1 .. Len(m) : f[i] = m[i],
         NEW c1 \in SByte, NEW c2 \in SByte, c1 = f[Len(m) + 1], c2 = f[Len(m) + 2]
  PROVE  Remainder(Polynomial(f), 8 * Len(f)) = Xor(Accumulated(m), Xor(Up(c1, 8), c2))
<1>. DEFINE n == Len(m)
            a == Accumulated(m)
            P == Part(m, n)
            T == Xor(Up(c1, 8), c2)
            D == 8 * n + 15
<1>1. n \in Nat /\ n + 1 <= Len(f) /\ (n + 1) + 1 <= Len(f) /\ n + 1 \in Nat
      /\ (n + 1) + 1 = n + 2 /\ n \in 0 .. Len(m) /\ n \in 0 .. Len(f)
      /\ D \in Nat /\ D >= 15 /\ 8 * Len(f) \in Nat /\ 8 * Len(f) >= D
  OBVIOUS
<1>2. a = Remainder(Up(P, 16), D) /\ a \in Word
  BY AccumulatedIsRemainder, PolynomialIsPart
<1>4. Part(f, n) = P
  <2>1. \A e : e \in Part(f, n) <=> \E i \in 1 .. n : \E b \in f[i] : e = 8 * (n - i) + b
    BY <1>1, PartMember
  <2>2. \A e : e \in P <=> \E i \in 1 .. n : \E b \in m[i] : e = 8 * (n - i) + b
    BY <1>1, PartMember
  <2>. HIDE DEF n, P
  <2>3. \A i \in 1 .. n : f[i] = m[i]
    BY DEF n
  <2>4. \A e : e \in Part(f, n) <=> e \in P
    BY <2>1, <2>2, <2>3
  <2>. QED  BY <2>4
<1>5. Part(f, n + 1) = Xor(Up(P, 8), c1)
  BY <1>1, <1>4, PartNext
<1>6. Part(f, n + 2) = Xor(Up(Part(f, n + 1), 8), c2)
  <2>1. Part(f, (n + 1) + 1) = Xor(Up(Part(f, n + 1), 8), f[(n + 1) + 1])
    BY <1>1, PartNext
  <2>. QED  BY <1>1, <2>1
<1>7. P \in SUBSET Int /\ Up(P, 16) \in SUBSET (0 .. D)
  <2>1. \A e \in P : e \in 0 .. 8 * n - 1
    BY <1>1, PartMember
  <2>2. \A e \in P : e \in Int /\ e + 16 \in 0 .. D
    BY <2>1
  <2>. HIDE DEF P, D
  <2>. QED  BY <2>2 DEF Up
<1>8. c1 \in SUBSET Int /\ T \in Word
  <2>1. c1 \in SUBSET Int /\ \A e \in c1 : e \in 0 .. 7
    BY DEF SByte, Bits8
  <2>2. \A e \in Up(c1, 8) : e \in 0 .. 15
    <3>1. \A i \in c1 : i + 8 \in 0 .. 15
      BY <2>1
    <3>. QED  BY <3>1 DEF Up
  <2>3. Up(c1, 8) \in Word /\ c2 \in Word
    <3>1. c2 \in SUBSET (0 .. 7) /\ \A i \in 0 .. 7 : i \in 0 .. 15
      BY DEF SByte, Bits8
    <3>2. \A i \in c2 : i \in 0 .. 15
      BY <3>1
    <3>. HIDE DEF P, a, T, D, n
    <3>. QED  BY <2>2, <3>2 DEF Word, Bits16
  <2>. QED  BY <2>1, <2>3, XorType DEF Word
<1>. HIDE DEF P, a, D, n
<1>9. Up(Xor(Up(P, 8), c1), 8) = Xor(Up(P, 16), Up(c1, 8))
  <2>1. Up(P, 8) \in SUBSET Int
    BY <1>7 DEF Up
  <2>2. Up(Xor(Up(P, 8), c1), 8) = Xor(Up(Up(P, 8), 8), Up(c1, 8))
    BY <1>8, <2>1, UpXor
  <2>3. Up(Up(P, 8), 8) = Up(P, 8 + 8) /\ 8 + 8 = 16
    BY <1>7, UpUp
  <2>. QED  BY <2>2, <2>3
<1>10. Part(f, n + 2) = Xor(Up(P, 16), T)
  <2>1. Xor(Xor(Up(P, 16), Up(c1, 8)), c2) = Xor(Up(P, 16), Xor(Up(c1, 8), c2))
    BY XorFours
  <2>. QED  BY <1>5, <1>6, <1>9, <2>1
<1>. HIDE DEF T
<1>11. T \in SUBSET (0 .. D)
  <2>1. \A e \in T : e \in 0 .. 15
    BY <1>8 DEF Word, Bits16
  <2>2. \A e \in 0 .. 15 : e \in 0 .. D
    BY <1>1
  <2>. QED  BY <2>1, <2>2
<1>12. Remainder(Part(f, n + 2), D) = Xor(Remainder(Up(P, 16), D), Remainder(T, D))
  BY <1>1, <1>7, <1>10, <1>11, RemainderLinear
<1>13. Remainder(T, D) = T
  BY <1>1, <1>8, RemainderLow
<1>14. Remainder(Part(f, n + 2), D) = Xor(a, T)
  BY <1>2, <1>12, <1>13
<1>15. Polynomial(f) = Part(f, n + 2)
  BY PolynomialIsPart DEF n
<1>16. Part(f, n + 2) \in SUBSET (0 .. D)
  <2>1. Xor(Up(P, 16), T) \in SUBSET (0 .. D)
    BY <1>7, <1>11, XorType
  <2>. QED  BY <1>10, <2>1
<1>17. Remainder(Part(f, n + 2), 8 * Len(f)) = Remainder(Part(f, n + 2), D)
  BY <1>1, <1>16, RemainderFrom
<1>. QED  BY <1>14, <1>15, <1>17 DEF a, T

(* check_CRC accepts exactly the multiples of the generator, by long        *)
(* division: the table, the loop, the swap of the bytes and the order in    *)
(* memory make up a CRC16, for every buffer of two bytes or more and every  *)
(* generator (com_client.cpp:64-73, 94-102, 105-124).                       *)
THEOREM CheckIsDivision ==
  \A f \in Seq(SUBSET Bits8) : Len(f) >= 2 =>
    (check_CRC(f) <=> Remainder(Polynomial(f), 8 * Len(f)) = {})
<1>. SUFFICES ASSUME NEW f \in Seq(SByte), Len(f) >= 2
              PROVE  check_CRC(f) <=> Remainder(Polynomial(f), 8 * Len(f)) = {}
  BY DEF SByte
<1>. DEFINE l == Len(f)
            n == l - 2
            m == SubSeq(f, 1, n)
            c == SubSeq(f, l - 1, l)
            c1 == f[n + 1]
            c2 == f[n + 2]
<1>1. l \in Nat /\ n \in Nat /\ l = n + 2 /\ l - 1 = n + 1 /\ n + 1 \in 1 .. l /\ n + 2 \in 1 .. l
  OBVIOUS
<1>2. c1 \in SByte /\ c2 \in SByte
  BY <1>1
<1>3. m \in Seq(SByte) /\ Len(m) = n /\ \A i \in 1 .. n : m[i] = f[i]
  BY <1>1, SubSeqProperties
<1>4. c[1] = c1 /\ c[2] = c2
  <2>1. Len(c) = 2 /\ \A i \in 1 .. 2 : c[i] = f[n + i]
    BY <1>1, SubSeqProperties
  <2>. QED  BY <2>1
<1>5. check_CRC(f) <=> CRC(m) = Loaded(c)
  BY DEF check_CRC
<1>. HIDE DEF m, c, c1, c2, n
<1>6. CRC(m) = Swapped(Accumulated(m)) /\ Loaded(c) = c1 \cup Shl(c2, 8)
  BY <1>4 DEF CRC, Loaded
<1>7. Accumulated(m) \in Word
  BY <1>3, AccumulatedIsRemainder
<1>8. check_CRC(f) <=> Accumulated(m) = Xor(Up(c1, 8), c2)
  BY <1>2, <1>5, <1>6, <1>7, SwappedIsLoaded
<1>9. Remainder(Polynomial(f), 8 * Len(f)) = Xor(Accumulated(m), Xor(Up(c1, 8), c2))
  BY <1>1, <1>2, <1>3, FrameRemainder DEF c1, c2
<1>10. \A v, w : Xor(v, w) = {} <=> v = w
  BY DEF Xor
<1>. QED  BY <1>8, <1>9, <1>10

(* A message with what CRC returns behind it is a multiple of the           *)
(* generator, for every message and every generator (com_client.cpp:94-102).*)
THEOREM FramesDivide ==
  \A m \in Messages : Remainder(Polynomial(Framed(m)), 8 * Len(Framed(m))) = {}
<1>. SUFFICES ASSUME NEW m \in Messages
              PROVE  Remainder(Polynomial(Framed(m)), 8 * Len(Framed(m))) = {}
  OBVIOUS
<1>1. m \in Seq(SByte) /\ Len(m) \in Nat
  BY MessagesAssumption DEF SByte
<1>2. Framed(m) \in Seq(SByte) /\ Len(Framed(m)) >= 2 /\ check_CRC(Framed(m))
  BY <1>1, FrameFacts
<1>. QED  BY <1>2, CheckIsDivision DEF SByte

-----------------------------------------------------------------------------
(* No single bit is a multiple of the generator, as that ends in 1.         *)

LEMMA TurnNotEmpty ==
  ASSUME 0 \in genpoly, NEW a \in Word, a # {}
  PROVE  Turn(a) # {}
<1>1. PICK e \in a : TRUE
  OBVIOUS
<1>2. a \in SUBSET Int /\ \A i \in a : i \in 0 .. 15
  BY DEF Word, Bits16
<1>3. \A i : i \in Shl(a, 1) <=> i \in Bits16 /\ i - 1 \in a
  BY <1>2, ShlMember
<1>4. CASE 15 \notin a
  <2>1. e + 1 \in Bits16 /\ (e + 1) - 1 = e
    BY <1>1, <1>2, <1>4 DEF Bits16
  <2>2. e + 1 \in Shl(a, 1)
    BY <1>1, <1>3, <2>1
  <2>. QED  BY <1>4, <2>2 DEF Turn
<1>5. CASE 15 \in a
  <2>1. 0 \notin Shl(a, 1)
    BY <1>2, <1>3
  <2>2. 0 \in Xor(Shl(a, 1), genpoly)
    BY <2>1, XorMember
  <2>. QED  BY <1>5, <2>2 DEF Turn
<1>. QED  BY <1>4, <1>5

LEMMA OneBit ==
  ASSUME 0 \in genpoly, NEW e \in Nat, NEW degree \in Nat, degree >= 15, e <= degree
  PROVE  Remainder({e}, degree) # {}
<1>. DEFINE S == {k \in Nat : k + 15 >= 15 => Remainder({k + 15}, k + 15) # {}}
<1>1. CASE e <= 15
  <2>1. {e} \in Word
    BY <1>1 DEF Word, Bits16
  <2>. QED  BY <2>1, RemainderLow
<1>2. Remainder({0 + 15}, 0 + 15) # {}
  <2>1. {15} \in Word /\ 0 + 15 = 15
    BY DEF Word, Bits16
  <2>. QED  BY <2>1, RemainderLow
<1>3. ASSUME NEW k \in Nat, Remainder({k + 15}, k + 15) # {}
      PROVE  Remainder({(k + 1) + 15}, (k + 1) + 15) # {}
  <2>1. k + 15 \in Nat /\ k + 15 >= 15 /\ (k + 15) + 1 = (k + 1) + 15
        /\ {k + 15} \in SUBSET (0 .. k + 15)
    OBVIOUS
  <2>2. Up({k + 15}, 1) = {(k + 1) + 15}
    BY <2>1 DEF Up
  <2>3. Remainder(Up({k + 15}, 1), (k + 15) + 1) = Turn(Remainder({k + 15}, k + 15))
    BY <2>1, RemainderUp
  <2>4. Remainder({k + 15}, k + 15) \in Word
    BY <2>1, RemainderType
  <2>. QED  BY <1>3, <2>1, <2>2, <2>3, <2>4, TurnNotEmpty
<1>4. S = Nat
  <2>1. S \in SUBSET Nat /\ 0 \in S
    BY <1>2
  <2>2. ASSUME NEW k \in S PROVE k + 1 \in S
    <3>1. k + 1 \in Nat /\ k + 15 >= 15
      OBVIOUS
    <3>. QED  BY <1>3, <3>1
  <2>. HIDE DEF S
  <2>. QED  BY <2>1, <2>2, SetInduction
<1>5. CASE e > 15
  <2>. DEFINE k == e - 15
  <2>1. k \in Nat /\ k + 15 = e /\ {e} \in SUBSET (0 .. e) /\ e >= 15 /\ k + 15 >= 15
    BY <1>5
  <2>. HIDE DEF k
  <2>2. Remainder({k + 15}, k + 15) # {}
    BY <1>4, <2>1
  <2>3. Remainder({e}, degree) = Remainder({e}, e)
    BY <2>1, RemainderFrom
  <2>. QED  BY <2>1, <2>2, <2>3
<1>. QED  BY <1>1, <1>5

(* A frame with one bit changed.                                            *)
LEMMA BitFlipped ==
  ASSUME NEW f \in Seq(SByte), NEW i \in 1 .. Len(f), NEW b \in Bits8
  PROVE  LET g == [f EXCEPT ![i] = Xor(@, {b})] IN
         /\ g \in Seq(SByte) /\ Len(g) = Len(f)
         /\ Polynomial(g) = Xor(Polynomial(f), {8 * (Len(f) - i) + b})
<1>. DEFINE g == [f EXCEPT ![i] = Xor(@, {b})]
            n == Len(f)
            x == 8 * (n - i) + b
<1>1. n \in Nat /\ DOMAIN f = 1 .. n /\ b \in 0 .. 7
  BY DEF Bits8
<1>2. Xor(f[i], {b}) \in SByte
  <2>1. f[i] \in SByte
    OBVIOUS
  <2>. QED  BY <2>1, XorType DEF SByte
<1>3. g \in Seq(SByte) /\ Len(g) = n
  BY <1>1, <1>2
<1>4. g[i] = Xor(f[i], {b}) /\ \A j \in 1 .. n : j # i => g[j] = f[j]
  BY <1>1
<1>. HIDE DEF g
<1>5. n \in 0 .. Len(f) /\ n \in 0 .. Len(g) /\ Polynomial(f) = Part(f, n) /\ Polynomial(g) = Part(g, n)
  BY <1>1, <1>3, PolynomialIsPart
<1>. HIDE DEF n
<1>6. /\ \A e : e \in Part(f, n) <=> \E j \in 1 .. n : \E k \in f[j] : e = 8 * (n - j) + k
      /\ \A e : e \in Part(g, n) <=> \E j \in 1 .. n : \E k \in g[j] : e = 8 * (n - j) + k
      /\ \A j \in 1 .. n : (\A k \in f[j] : k \in 0 .. 7) /\ \A k \in g[j] : k \in 0 .. 7
  <2>1. /\ \A j \in 1 .. n : f[j] \in SByte
        /\ \A e : e \in Part(f, n) <=> \E j \in 1 .. n : \E k \in f[j] : e = 8 * (n - j) + k
    BY <1>5, PartMember
  <2>2. /\ \A j \in 1 .. n : g[j] \in SByte
        /\ \A e : e \in Part(g, n) <=> \E j \in 1 .. n : \E k \in g[j] : e = 8 * (n - j) + k
    BY <1>3, <1>5, PartMember
  <2>3. \A z \in SByte : \A k \in z : k \in 0 .. 7
    BY DEF SByte, Bits8
  <2>. QED  BY <2>1, <2>2, <2>3
<1>7. i \in 1 .. n
  BY DEF n
<1>8. \A j \in 1 .. n : \A k \in 0 .. 7 : 8 * (n - j) + k = x => j = i /\ k = b
  BY <1>1, <1>7
<1>9. \A e : e \in Xor(f[i], {b}) <=> ~(e \in f[i] <=> e = b)
  BY XorMember
<1>10. ASSUME NEW e PROVE e \in Part(g, n) <=> e \in Xor(Part(f, n), {x})
  <2>1. e \in Xor(Part(f, n), {x}) <=> ~(e \in Part(f, n) <=> e = x)
    BY XorMember
  <2>2. CASE e = x
    <3>1. e \in Part(f, n) <=> b \in f[i]
      BY <1>6, <1>7, <1>8, <2>2
    <3>2. e \in Part(g, n) <=> b \in g[i]
      BY <1>6, <1>7, <1>8, <2>2, ZenonT(30)
    <3>. QED  BY <1>4, <1>9, <2>1, <2>2, <3>1, <3>2
  <2>3. CASE e # x
    <3>1. ASSUME NEW j \in 1 .. n, NEW k, e = 8 * (n - j) + k PROVE k \in f[j] <=> k \in g[j]
      <4>1. CASE j # i
        BY <1>4, <3>1, <4>1
      <4>2. CASE j = i
        <5>1. k # b
          BY <2>3, <3>1, <4>2
        <5>. QED  BY <1>4, <1>9, <4>2, <5>1
      <4>. QED  BY <4>1, <4>2
    <3>2. e \in Part(f, n) <=> e \in Part(g, n)
      BY <1>6, <3>1
    <3>. QED  BY <2>1, <2>3, <3>2
  <2>. QED  BY <2>2, <2>3
<1>11. Part(g, n) = Xor(Part(f, n), {x})
  BY <1>10
<1>. QED  BY <1>3, <1>5, <1>11 DEF g, n

(* One changed bit is found.                                                *)
Flipped(f, i, b) == [f EXCEPT ![i] = Xor(@, {b})]

LEMMA FlippedIsRefused ==
  ASSUME NEW f \in Seq(SByte), Len(f) >= 2, check_CRC(f), NEW i \in 1 .. Len(f), NEW b \in Bits8
  PROVE  ~check_CRC(Flipped(f, i, b))
<1>. DEFINE g == Flipped(f, i, b)
            n == Len(f)
            D == 8 * n
            e == 8 * (n - i) + b
<1>1. g \in Seq(SByte) /\ Len(g) = n /\ Polynomial(g) = Xor(Polynomial(f), {e})
  BY BitFlipped DEF Flipped
<1>. HIDE DEF g
<1>2. n \in Nat /\ n >= 2 /\ i \in 1 .. n /\ b \in 0 .. 7
  BY DEF Bits8
<1>3. e \in Nat /\ e <= D /\ D \in Nat /\ D >= 15
  <2>. HIDE DEF n
  <2>. QED  BY <1>2
<1>4. Polynomial(f) \in SUBSET (0 .. D)
  <2>1. Polynomial(f) = Part(f, n) /\ \A x \in Part(f, n) : x \in 0 .. 8 * n - 1
    BY <1>2, PartMember, PolynomialIsPart
  <2>2. \A x \in 0 .. 8 * n - 1 : x \in 0 .. D
    BY <1>2
  <2>. QED  BY <2>1, <2>2
<1>5. Remainder(Polynomial(f), D) = {}
  BY <1>2, CheckIsDivision DEF SByte
<1>. HIDE DEF D, e
<1>6. {e} \in SUBSET (0 .. D)
  BY <1>3
<1>7. Remainder(Polynomial(g), D) = Xor(Remainder(Polynomial(f), D), Remainder({e}, D))
  BY <1>1, <1>3, <1>4, <1>6, RemainderLinear
<1>8. Remainder({e}, D) # {}
  BY <1>3, OneBit, GeneratorEnds
<1>9. Remainder(Polynomial(g), D) # {}
  BY <1>5, <1>7, <1>8, XorSelf
<1>10. ~check_CRC(g)
  BY <1>1, <1>2, <1>9, CheckIsDivision DEF D, SByte
<1>. QED  BY <1>10 DEF g

-----------------------------------------------------------------------------
(* SerialClient.  As long as no byte is missing, what readS calls have      *)
(* taken, what the driver has and what is still to come are frames one      *)
(* behind the other, of which at most one bit is changed.                   *)

STypes ==
  /\ smsg \in Seq(SByte)
  /\ sdev \in Seq(SByte) /\ stty \in Seq(SByte)
  /\ sline \in {"good", "damaged", "lossy"} /\ scut \in BOOLEAN
  /\ spc \in [SThreads -> {"idle", "read", "check"}]
  /\ sn \in [SThreads -> Nat] /\ \A t \in SThreads : sn[t] <= SSize
  /\ sbuffer \in [SThreads -> [1 .. SSize -> SByte]]
  /\ sresult \in [SThreads -> Int] /\ suntil \in [SThreads -> BOOLEAN]

SHolding == \A t \in SThreads : spc[t] # "idle" <=> smutex = t

(* What the readS that holds the mutex has got of its frame.                *)
SHave == IF smutex \in SThreads THEN sn[smutex] ELSE 0

(* c is the byte at j, counted from 0, of frames one behind the other, of   *)
(* which bit b of the byte at x is changed, if there is an x.               *)
IsByte(frame, x, b, j, c) ==
  \A q \in Int, r \in 0 .. Len(frame) - 1 :
    j = q * Len(frame) + r => c = IF j = x THEN Xor(frame[r + 1], {b}) ELSE frame[r + 1]

(* The first n of bytes are those that begin at from.                       *)
AreBytes(frame, x, b, from, n, bytes) ==
  \A i \in 1 .. n : IsByte(frame, x, b, from + i - 1, bytes[i])

(* s bytes have been taken by readS calls that have returned.               *)
SOrder(s, x, b) ==
  /\ \E q \in Int : s + SHave + Len(stty) + Len(sdev) = q * SSize
  /\ x < s + SHave + Len(stty) + Len(sdev)
  /\ sline = "good" => x < 0
  /\ ~scut => \E q \in Int : s = q * SSize
  /\ \A t \in SThreads : spc[t] # "idle" => AreBytes(SFrame, x, b, s, sn[t], sbuffer[t])
  /\ AreBytes(SFrame, x, b, s + SHave, Len(stty), stty)
  /\ AreBytes(SFrame, x, b, s + SHave + Len(stty), Len(sdev), sdev)

(* What a readS has returned, and where its bytes began.                    *)
STaken(t) ==
  \E s \in Nat, x \in Int, b \in Bits8 :
    /\ sline = "good" => x < 0
    /\ ~scut => \E q \in Int : s = q * SSize
    /\ AreBytes(SFrame, x, b, s, SSize, sbuffer[t])
SGiven(t) ==
  spc[t] = "idle" =>
    /\ sresult[t] \in {-1, sn[t]}
    /\ sn[t] = SSize => STaken(t) /\ (sresult[t] = SSize <=> check_CRC(sbuffer[t]))

SWhole ==
  /\ \E s \in Nat, x \in Int, b \in Bits8 : SOrder(s, x, b)
  /\ \A t \in SThreads : SGiven(t)

SInv == STypes /\ SHolding /\ (sline # "lossy" => SWhole)

LEMMA SFrameFacts ==
  ASSUME STypes
  PROVE  /\ SFrame \in Seq(SByte) /\ SSize \in Nat /\ SSize >= 2 /\ SSize = Len(SFrame)
         /\ SSize = Len(smsg) + 2 /\ check_CRC(SFrame)
BY FrameFacts DEF STypes, SFrame, SSize

(* Arithmetic of frames.                                                    *)
LEMMA NoMultiple ==
  ASSUME NEW n \in Nat, n > 0, NEW k \in Int, -n < k * n, k * n < n
  PROVE  k = 0
<1>1. CASE k >= 1
  <2>1. (k - 1) * n >= 0
    BY <1>1
  <2>2. (k - 1) * n = k * n - n
    OBVIOUS
  <2>. QED  BY <2>1, <2>2
<1>2. CASE k <= -1
  <2>1. (-k - 1) * n >= 0
    BY <1>2
  <2>2. (-k - 1) * n = -(k * n) - n
    OBVIOUS
  <2>. QED  BY <2>1, <2>2
<1>. QED  BY <1>1, <1>2

LEMMA SamePlace ==
  ASSUME NEW n \in Nat, n > 0, NEW p \in Int, NEW q \in Int,
         NEW r \in 0 .. n - 1, NEW s \in 0 .. n - 1, p * n + r = q * n + s
  PROVE  p = q /\ r = s
<1>. DEFINE e == p - q
<1>1. e * n = p * n - q * n
  OBVIOUS
<1>2. e \in Int /\ p = q + e
  OBVIOUS
<1>. HIDE DEF e
<1>3. e * n = s - r
  <2>. DEFINE a == p * n
              b == q * n
  <2>1. a \in Int /\ b \in Int /\ a + r = b + s /\ e * n = a - b
    BY <1>1
  <2>. HIDE DEF a, b
  <2>. QED  BY <2>1
<1>4. -n < e * n /\ e * n < n
  BY <1>3
<1>5. e = 0
  BY <1>2, <1>4, NoMultiple
<1>6. e * n = 0
  BY <1>5
<1>. QED  BY <1>2, <1>3, <1>5, <1>6

LEMMA NoRest ==
  ASSUME NEW n \in Nat, n > 0, NEW p \in Int, NEW q \in Int, NEW k \in 0 .. n - 1, p * n = q * n + k
  PROVE  k = 0
<1>. DEFINE z == 0
<1>1. p * n + z = q * n + k /\ z \in 0 .. n - 1
  <2>. DEFINE a == p * n
  <2>1. a \in Int /\ a = q * n + k
    OBVIOUS
  <2>. HIDE DEF a
  <2>2. a + z = q * n + k
    BY <2>1
  <2>. QED  BY <2>2 DEF a
<1>. HIDE DEF z
<1>2. z = k
  BY <1>1, SamePlace
<1>. QED  BY <1>2 DEF z

LEMMA PlaceExists ==
  ASSUME NEW n \in Nat, n > 0, NEW s \in Nat
  PROVE  \E q \in Int, k \in 0 .. n - 1 : s = q * n + k
<1>. DEFINE S == {i \in Nat : \E q \in Int, k \in 0 .. n - 1 : i = q * n + k}
<1>1. 0 \in S
  <2>1. 0 = 0 * n + 0 /\ 0 \in 0 .. n - 1 /\ 0 \in Int
    OBVIOUS
  <2>. QED  BY <2>1
<1>2. ASSUME NEW i \in S PROVE i + 1 \in S
  <2>1. PICK q \in Int, k \in 0 .. n - 1 : i = q * n + k
    OBVIOUS
  <2>2. (q + 1) * n = q * n + n
    OBVIOUS
  <2>3. i + 1 = q * n + (k + 1) /\ i + 1 \in Nat
    BY <2>1
  <2>4. CASE k + 1 <= n - 1
    <3>1. k + 1 \in 0 .. n - 1
      BY <2>4
    <3>. QED  BY <2>3, <3>1
  <2>5. CASE k + 1 = n
    <3>1. i + 1 = (q + 1) * n + 0 /\ 0 \in 0 .. n - 1 /\ q + 1 \in Int
      BY <2>2, <2>3, <2>5
    <3>. QED  BY <2>3, <3>1
  <2>. QED  BY <2>4, <2>5
<1>. HIDE DEF S
<1>3. S = Nat
  <2>1. S \in SUBSET Nat
    BY DEF S
  <2>. QED  BY <1>1, <1>2, <2>1, SetInduction
<1>4. s \in S
  BY <1>3
<1>. QED  BY <1>4 DEF S

(* The byte of a frame.                                                     *)
LEMMA ByteAt ==
  ASSUME NEW frame \in Seq(SByte), Len(frame) > 0, NEW x \in Int, NEW b,
         NEW q \in Int, NEW r \in 0 .. Len(frame) - 1, NEW c,
         c = IF q * Len(frame) + r = x THEN Xor(frame[r + 1], {b}) ELSE frame[r + 1]
  PROVE  IsByte(frame, x, b, q * Len(frame) + r, c)
<1>. SUFFICES ASSUME NEW p \in Int, NEW s \in 0 .. Len(frame) - 1,
                     q * Len(frame) + r = p * Len(frame) + s
              PROVE  c = IF q * Len(frame) + r = x THEN Xor(frame[s + 1], {b}) ELSE frame[s + 1]
  BY DEF IsByte
<1>1. r = s
  <2>. DEFINE n == Len(frame)
  <2>1. n \in Nat /\ n > 0 /\ r \in 0 .. n - 1 /\ s \in 0 .. n - 1 /\ q * n + r = p * n + s
    OBVIOUS
  <2>. HIDE DEF n
  <2>. QED  BY <2>1, SamePlace
<1>. QED  BY <1>1

(* The line changes another byte, or this one.                              *)
LEMMA ByteKept ==
  ASSUME NEW frame, NEW x, NEW b, NEW j, NEW c, IsByte(frame, x, b, j, c), j # x,
         NEW y, j # y, NEW e
  PROVE  IsByte(frame, y, e, j, c)
BY DEF IsByte

LEMMA ByteChanged ==
  ASSUME NEW frame, NEW x, NEW b, NEW j, NEW c, IsByte(frame, x, b, j, c), j # x, NEW e
  PROVE  IsByte(frame, j, e, j, Xor(c, {e}))
BY DEF IsByte

LEMMA BytesJoin ==
  ASSUME NEW frame, NEW x, NEW b, NEW from \in Nat, NEW u \in Seq(SByte), NEW v \in Seq(SByte),
         AreBytes(frame, x, b, from, Len(u), u), AreBytes(frame, x, b, from + Len(u), Len(v), v)
  PROVE  AreBytes(frame, x, b, from, Len(u \o v), u \o v)
<1>1. /\ Len(u) \in Nat /\ Len(v) \in Nat /\ Len(u \o v) = Len(u) + Len(v)
      /\ \A i \in 1 .. Len(u) + Len(v) : (u \o v)[i] = IF i <= Len(u) THEN u[i] ELSE v[i - Len(u)]
  BY SConcat
<1>2. ASSUME NEW i \in 1 .. Len(u) + Len(v) PROVE IsByte(frame, x, b, from + i - 1, (u \o v)[i])
  <2>1. CASE i <= Len(u)
    <3>1. i \in 1 .. Len(u) /\ (u \o v)[i] = u[i]
      BY <1>1, <2>1
    <3>. QED  BY <3>1 DEF AreBytes
  <2>2. CASE i > Len(u)
    <3>. DEFINE k == i - Len(u)
    <3>1. k \in 1 .. Len(v) /\ (u \o v)[i] = v[k] /\ (from + Len(u)) + k - 1 = from + i - 1
      BY <1>1, <2>2
    <3>. HIDE DEF k
    <3>2. IsByte(frame, x, b, (from + Len(u)) + k - 1, v[k])
      BY <3>1 DEF AreBytes
    <3>. QED  BY <3>1, <3>2
  <2>. QED  BY <1>1, <2>1, <2>2
<1>. QED  BY <1>1, <1>2 DEF AreBytes

LEMMA BytesPart ==
  ASSUME NEW frame, NEW x, NEW b, NEW from \in Nat, NEW u \in Seq(SByte),
         AreBytes(frame, x, b, from, Len(u), u), NEW k \in 0 .. Len(u)
  PROVE  /\ AreBytes(frame, x, b, from, Len(SubSeq(u, 1, k)), SubSeq(u, 1, k))
         /\ AreBytes(frame, x, b, from + k, Len(SubSeq(u, k + 1, Len(u))), SubSeq(u, k + 1, Len(u)))
<1>. DEFINE v == SubSeq(u, 1, k)
            w == SubSeq(u, k + 1, Len(u))
<1>1. /\ Len(u) \in Nat
      /\ Len(v) = k /\ \A i \in 1 .. k : v[i] = u[i]
      /\ Len(w) = Len(u) - k /\ \A i \in 1 .. Len(u) - k : w[i] = u[k + i]
  BY SubSeqProperties
<1>. HIDE DEF v, w
<1>2. ASSUME NEW i \in 1 .. k PROVE IsByte(frame, x, b, from + i - 1, v[i])
  <2>1. i \in 1 .. Len(u)
    BY <1>1
  <2>. QED  BY <1>1, <2>1 DEF AreBytes
<1>3. ASSUME NEW i \in 1 .. Len(u) - k PROVE IsByte(frame, x, b, (from + k) + i - 1, w[i])
  <2>1. k + i \in 1 .. Len(u) /\ from + (k + i) - 1 = (from + k) + i - 1
    BY <1>1
  <2>2. IsByte(frame, x, b, from + (k + i) - 1, u[k + i])
    BY <2>1 DEF AreBytes
  <2>. QED  BY <1>1, <2>1, <2>2
<1>. QED  BY <1>1, <1>2, <1>3 DEF AreBytes, v, w

(* A frame is put behind frames.                                            *)
LEMMA BytesWritten ==
  ASSUME NEW frame \in Seq(SByte), Len(frame) > 0, NEW x \in Int, NEW b,
         NEW q \in Int, x < q * Len(frame)
  PROVE  AreBytes(frame, x, b, q * Len(frame), Len(frame), frame)
<1>. DEFINE n == Len(frame)
<1>. SUFFICES ASSUME NEW i \in 1 .. n PROVE IsByte(frame, x, b, q * n + i - 1, frame[i])
  BY DEF AreBytes
<1>. DEFINE r == i - 1
<1>1. n \in Nat /\ r \in 0 .. n - 1 /\ r + 1 = i
  OBVIOUS
<1>2. q * n + r = q * n + i - 1 /\ q * n + r # x
  <2>. DEFINE a == q * n
  <2>1. a \in Int /\ x < a
    BY <1>1
  <2>. HIDE DEF a
  <2>2. a + r = a + i - 1 /\ a + r # x
    BY <1>1, <2>1
  <2>. QED  BY <2>2 DEF a
<1>. HIDE DEF r, n
<1>3. IsByte(frame, x, b, q * n + r, frame[r + 1])
  BY <1>1, <1>2, ByteAt DEF n
<1>. QED  BY <1>1, <1>2, <1>3

-----------------------------------------------------------------------------
(* A buffer full of such bytes.                                             *)

TurnedAround(frame, k) == SubSeq(frame, k + 1, Len(frame)) \o SubSeq(frame, 1, k)

LEMMA TurnedFacts ==
  ASSUME NEW frame \in Seq(SByte), NEW k \in 0 .. Len(frame)
  PROVE  /\ TurnedAround(frame, k) \in Seq(SByte) /\ Len(TurnedAround(frame, k)) = Len(frame)
         /\ \A i \in 1 .. Len(frame) :
              TurnedAround(frame, k)[i] = IF k + i <= Len(frame) THEN frame[k + i] ELSE frame[k + i - Len(frame)]
<1>. DEFINE n == Len(frame)
            v == SubSeq(frame, k + 1, n)
            w == SubSeq(frame, 1, k)
<1>1. /\ n \in Nat
      /\ v \in Seq(SByte) /\ Len(v) = n - k /\ \A i \in 1 .. n - k : v[i] = frame[k + i]
      /\ w \in Seq(SByte) /\ Len(w) = k /\ \A i \in 1 .. k : w[i] = frame[i]
  BY SubSeqProperties
<1>2. TurnedAround(frame, k) = v \o w
  BY DEF TurnedAround
<1>. HIDE DEF n, v, w
<1>3. /\ v \o w \in Seq(SByte) /\ Len(v \o w) = n
      /\ \A i \in 1 .. n : (v \o w)[i] = IF i <= n - k THEN v[i] ELSE w[i - (n - k)]
  <2>1. Len(v) = n - k /\ Len(w) = k /\ (n - k) + k = n
    BY <1>1 DEF n
  <2>2. /\ v \o w \in Seq(SByte) /\ Len(v \o w) = Len(v) + Len(w)
        /\ \A i \in 1 .. Len(v) + Len(w) : (v \o w)[i] = IF i <= Len(v) THEN v[i] ELSE w[i - Len(v)]
    BY <1>1, SConcat
  <2>. DEFINE c == v \o w
  <2>. HIDE DEF c
  <2>3. /\ c \in Seq(SByte) /\ Len(c) = n
        /\ \A i \in 1 .. n : c[i] = IF i <= n - k THEN v[i] ELSE w[i - (n - k)]
    BY <2>1, <2>2 DEF c
  <2>. QED  BY <2>3 DEF c
<1>4. k \in 0 .. n
  BY DEF n
<1>5. ASSUME NEW i \in 1 .. n
      PROVE  (v \o w)[i] = IF k + i <= n THEN frame[k + i] ELSE frame[k + i - n]
  <2>1. CASE k + i <= n
    <3>1. i \in 1 .. n - k /\ i <= n - k
      BY <1>1, <1>4, <2>1
    <3>. QED  BY <1>1, <1>3, <2>1, <3>1
  <2>2. CASE k + i > n
    <3>. DEFINE j == i - (n - k)
    <3>1. j \in 1 .. k /\ ~(i <= n - k) /\ j = k + i - n /\ ~(k + i <= n)
      BY <1>1, <1>4, <2>2
    <3>2. (v \o w)[i] = w[j]
      BY <1>3, <3>1
    <3>. HIDE DEF j
    <3>. QED  BY <1>1, <3>1, <3>2
  <2>. QED  BY <1>1, <1>4, <2>1, <2>2
<1>. QED  BY <1>2, <1>3, <1>5 DEF n

LEMMA TurnedByNothing ==
  ASSUME NEW frame \in Seq(SByte)
  PROVE  TurnedAround(frame, 0) = frame
<1>. DEFINE n == Len(frame)
            v == TurnedAround(frame, 0)
<1>1. n \in Nat /\ 0 \in 0 .. n
  OBVIOUS
<1>2. /\ v \in Seq(SByte) /\ Len(v) = n
      /\ \A i \in 1 .. n : v[i] = IF 0 + i <= n THEN frame[0 + i] ELSE frame[0 + i - n]
  BY <1>1, TurnedFacts
<1>. HIDE DEF v
<1>3. \A i \in 1 .. n : v[i] = frame[i]
  BY <1>1, <1>2
<1>4. v = frame
  BY <1>2, <1>3, SeqEqual
<1>. QED  BY <1>4 DEF v

PlaceIs(frame, s, q, k) == s = q * Len(frame) + k

LEMMA BufferIsTurned ==
  ASSUME NEW frame \in Seq(SByte), Len(frame) > 0, NEW x \in Int, NEW b \in Bits8,
         NEW q \in Int, NEW k \in 0 .. Len(frame) - 1, NEW s \in Nat, PlaceIs(frame, s, q, k),
         NEW buf \in [1 .. Len(frame) -> SByte], AreBytes(frame, x, b, s, Len(frame), buf)
  PROVE  \/ buf = TurnedAround(frame, k)
         \/ x >= 0 /\ \E i \in 1 .. Len(frame) : buf = Flipped(TurnedAround(frame, k), i, b)
<1>. DEFINE n == Len(frame)
            T == TurnedAround(frame, k)
<1>1. n \in Nat /\ k \in 0 .. n
  OBVIOUS
<1>a. s = q * n + k
  BY DEF PlaceIs
<1>2. /\ T \in Seq(SByte) /\ Len(T) = n
      /\ \A i \in 1 .. n : T[i] = IF k + i <= n THEN frame[k + i] ELSE frame[k + i - n]
  BY <1>1, TurnedFacts
<1>3. buf \in Seq(SByte) /\ Len(buf) = n
  <2>1. buf \in Seq(SByte)
    BY <1>1
  <2>. QED  BY <1>1, <2>1
<1>. HIDE DEF T
<1>4. ASSUME NEW i \in 1 .. n
      PROVE  buf[i] = IF s + i - 1 = x THEN Xor(T[i], {b}) ELSE T[i]
  <2>0. IsByte(frame, x, b, s + i - 1, buf[i])
    BY DEF AreBytes
  <2>a. (q + 1) * n = q * n + n
    BY <1>1
  <2>b. \A p \in Int, r \in 0 .. n - 1 : s + i - 1 = p * n + r =>
          buf[i] = IF s + i - 1 = x THEN Xor(frame[r + 1], {b}) ELSE frame[r + 1]
    BY <2>0 DEF IsByte
  <2>c. \A p \in Int, r \in 0 .. n - 1 : s + i - 1 = p * n + r /\ frame[r + 1] = T[i] =>
          buf[i] = IF s + i - 1 = x THEN Xor(T[i], {b}) ELSE T[i]
    BY <2>b
  <2>1. CASE k + i <= n
    <3>. DEFINE r == k + i - 1
    <3>1. r \in 0 .. n - 1 /\ r + 1 = k + i /\ q \in Int
      BY <1>1, <2>1
    <3>2. s + i - 1 = q * n + r
      BY <1>1, <1>a
    <3>3. T[i] = frame[k + i]
      BY <1>2, <2>1
    <3>. HIDE DEF r
    <3>. QED  BY <2>c, <3>1, <3>2, <3>3
  <2>2. CASE k + i > n
    <3>. DEFINE r == k + i - n - 1
    <3>1. r \in 0 .. n - 1 /\ r + 1 = k + i - n /\ q + 1 \in Int
      BY <1>1, <2>2
    <3>2. s + i - 1 = (q + 1) * n + r
      BY <1>1, <1>a, <2>a
    <3>3. T[i] = frame[k + i - n]
      BY <1>1, <1>2, <2>2
    <3>. HIDE DEF r
    <3>. QED  BY <2>c, <3>1, <3>2, <3>3
  <2>. QED  BY <1>1, <2>1, <2>2
<1>5. CASE \A i \in 1 .. n : s + i - 1 # x
  <2>1. \A i \in 1 .. n : buf[i] = T[i]
    BY <1>4, <1>5
  <2>. QED  BY <1>2, <1>3, <2>1, SeqEqual DEF T
<1>6. ASSUME NEW i \in 1 .. n, s + i - 1 = x
      PROVE  x >= 0 /\ buf = Flipped(T, i, b)
  <2>. DEFINE g == Flipped(T, i, b)
  <2>2. DOMAIN T = 1 .. n /\ i \in 1 .. Len(T) /\ i \in 1 .. n
    BY <1>2
  <2>1. g \in Seq(SByte) /\ Len(g) = n
    <3>1. g \in Seq(SByte) /\ Len(g) = Len(T)
      BY <1>2, <2>2, BitFlipped DEF Flipped
    <3>. QED  BY <1>2, <3>1
  <2>3. \A j \in 1 .. n : g[j] = IF j = i THEN Xor(T[i], {b}) ELSE T[j]
    BY <2>2 DEF Flipped
  <2>. HIDE DEF g
  <2>4. \A j \in 1 .. n : s + j - 1 = x <=> j = i
    BY <1>1, <1>6
  <2>5. \A j \in 1 .. n : buf[j] = g[j]
    BY <1>4, <2>3, <2>4
  <2>6. buf = g
    BY <1>3, <2>1, <2>5, SeqEqual
  <2>7. x >= 0
    BY <1>1, <1>6
  <2>. QED  BY <2>6, <2>7 DEF g
<1>7. \/ buf = T
      \/ x >= 0 /\ \E i \in 1 .. n : buf = Flipped(T, i, b)
  BY <1>5, <1>6 DEF T
<1>. QED  BY <1>7 DEF T

-----------------------------------------------------------------------------
(* Each step keeps the order of the bytes.                                  *)

LEMMA SInitInv == SInit => SInv
<1>. SUFFICES ASSUME SInit PROVE SInv
  OBVIOUS
<1>1. smsg \in Seq(SByte)
  BY MessagesAssumption DEF SInit, SByte
<1>2. SSize = Len(smsg) + 2 /\ SSize \in Nat /\ SSize >= 2
  BY <1>1, FrameFacts DEF SFrame, SSize
<1>3. STypes
  <2>1. [i \in 1 .. Len(smsg) + 2 |-> {}] \in [1 .. SSize -> SByte]
    BY <1>2 DEF SByte
  <2>2. <<>> \in Seq(SByte)
    OBVIOUS
  <2>3. spc \in [SThreads -> {"idle", "read", "check"}] /\ sn \in [SThreads -> Nat]
    BY DEF SInit
  <2>4. \A t \in SThreads : sn[t] <= SSize
    BY <1>2 DEF SInit
  <2>5. sbuffer \in [SThreads -> [1 .. SSize -> SByte]]
    BY <2>1 DEF SInit
  <2>6. sresult \in [SThreads -> Int] /\ suntil \in [SThreads -> BOOLEAN]
    BY DEF SInit
  <2>. QED  BY <1>1, <2>2, <2>3, <2>4, <2>5, <2>6 DEF SInit, STypes
<1>4. SHolding /\ SHave = 0
  BY SerialAssumption DEF SInit, SHolding, SHave
<1>5. /\ \A t \in SThreads : spc[t] = "idle" /\ sn[t] = 0 /\ sresult[t] = 0
      /\ stty = <<>> /\ sdev = <<>> /\ Len(<<>>) = 0
  BY DEF SInit
<1>6. SOrder(0, -1, 0)
  <2>1. 0 + SHave + Len(stty) + Len(sdev) = 0 * SSize /\ 0 = 0 * SSize /\ -1 < 0
    BY <1>2, <1>4, <1>5
  <2>2. -1 < 0 + SHave + Len(stty) + Len(sdev)
    BY <1>4, <1>5
  <2>3. \A frame, x, b, from, seq : AreBytes(frame, x, b, from, 0, seq)
    BY DEF AreBytes
  <2>. QED  BY <1>5, <2>1, <2>2, <2>3 DEF SOrder
<1>7. \A t \in SThreads : SGiven(t)
  BY <1>2, <1>5 DEF SGiven
<1>8. SWhole
  <2>1. 0 \in Nat /\ -1 \in Int /\ 0 \in Bits8
    BY DEF Bits8
  <2>. QED  BY <1>6, <1>7, <2>1 DEF SWhole
<1>. QED  BY <1>3, <1>4, <1>8 DEF SInv

(* What the line does leaves the readers alone.                             *)
LEMMA SLineInv ==
  ASSUME SInv, SWriteS \/ SArrive \/ SDamage \/ SLose, STypes',
         sline' # "lossy" => \E s \in Nat, x \in Int, b \in Bits8 : SOrder(s, x, b)'
  PROVE  SInv'
<1>1. UNCHANGED <<sreadVars, smsg>> /\ (sline' = "good" => sline = "good")
      /\ (sline' # "lossy" => sline # "lossy")
  BY DEF SWriteS, SArrive, SDamage, SLose
<1>2. SFrame' = SFrame /\ SSize' = SSize
  BY <1>1 DEF SFrame, SSize
<1>3. SHolding'
  BY <1>1 DEF SInv, SHolding, sreadVars
<1>4. ASSUME NEW t \in SThreads, SGiven(t) PROVE SGiven(t)'
  <2>1. STaken(t) => STaken(t)'
    BY <1>1, <1>2 DEF STaken, sreadVars
  <2>. QED  BY <1>1, <1>2, <1>4, <2>1 DEF SGiven, sreadVars
<1>. QED  BY <1>1, <1>3, <1>4 DEF SInv, SWhole

LEMMA SWriteInv == SInv /\ SWriteS => SInv'
<1>. SUFFICES ASSUME SInv, SWriteS PROVE SInv'
  OBVIOUS
<1>1. sdev = <<>> /\ sdev' = SFrame /\ UNCHANGED <<smsg, stty, sline, sreadVars>>
  BY DEF SWriteS
<1>2. STypes /\ SFrame \in Seq(SByte) /\ SSize \in Nat /\ Len(SFrame) = SSize /\ SSize >= 2
      /\ SHave \in Nat /\ Len(stty) \in Nat
  BY SFrameFacts DEF SInv, STypes, SHave
<1>3. SFrame' = SFrame /\ SSize' = SSize /\ SHave' = SHave
  BY <1>1 DEF SFrame, SSize, SHave, sreadVars
<1>4. STypes'
  BY <1>1, <1>2, <1>3 DEF STypes, sreadVars
<1>5. ASSUME NEW s \in Nat, NEW x \in Int, NEW b \in Bits8, SOrder(s, x, b)
      PROVE  SOrder(s, x, b)'
  <2>. DEFINE from == s + SHave + Len(stty)
  <2>1. from \in Nat
    BY <1>2
  <2>2. PICK q \in Int : from + Len(sdev) = q * SSize
    BY <1>5 DEF SOrder
  <2>3. from = q * SSize /\ x < from
    <3>1. from + Len(sdev) = from
      BY <1>1, <2>1
    <3>. QED  BY <1>5, <2>2, <3>1 DEF SOrder
  <2>4. AreBytes(SFrame, x, b, from, Len(SFrame), SFrame)
    <3>1. x < q * Len(SFrame) /\ Len(SFrame) > 0
      BY <1>2, <2>3
    <3>2. AreBytes(SFrame, x, b, q * Len(SFrame), Len(SFrame), SFrame)
      BY <1>2, <3>1, BytesWritten
    <3>3. q * Len(SFrame) = from
      BY <1>2, <2>3
    <3>. QED  BY <3>2, <3>3
  <2>5. from + SSize = (q + 1) * SSize /\ q + 1 \in Int /\ x < from + SSize
    <3>1. (q + 1) * SSize = q * SSize + SSize
      BY <1>2
    <3>. HIDE DEF from
    <3>. QED  BY <1>2, <2>1, <2>3, <3>1
  <2>. QED  BY <1>1, <1>2, <1>3, <1>5, <2>4, <2>5 DEF SOrder, sreadVars
<1>. QED  BY <1>1, <1>4, <1>5, SLineInv DEF SInv, SWhole

LEMMA SArriveInv == SInv /\ SArrive => SInv'
<1>. SUFFICES ASSUME SInv, SArrive PROVE SInv'
  OBVIOUS
<1>1. PICK k \in 1 .. Len(sdev) :
        /\ stty' = stty \o SubSeq(sdev, 1, k)
        /\ sdev' = SubSeq(sdev, k + 1, Len(sdev))
  BY DEF SArrive
<1>2. UNCHANGED <<smsg, swritten, sline, sreadVars>>
  BY DEF SArrive
<1>3. STypes /\ sdev \in Seq(SByte) /\ stty \in Seq(SByte) /\ SHave \in Nat
  BY DEF SInv, STypes, SHave
<1>4. SFrame' = SFrame /\ SSize' = SSize /\ SHave' = SHave
  BY <1>2 DEF SFrame, SSize, SHave, sreadVars
<1>. DEFINE u == SubSeq(sdev, 1, k)
<1>5. u \in Seq(SByte) /\ Len(u) = k /\ sdev' \in Seq(SByte) /\ Len(sdev') = Len(sdev) - k
      /\ k \in 0 .. Len(sdev) /\ Len(sdev) \in Nat /\ Len(stty) \in Nat
  BY <1>1, <1>3, SubSeqProperties
<1>6. stty' = stty \o u
  BY <1>1
<1>. HIDE DEF u
<1>7. stty' \in Seq(SByte) /\ Len(stty') = Len(stty) + k
  BY <1>3, <1>5, <1>6, SConcat
<1>8. STypes'
  BY <1>2, <1>3, <1>4, <1>5, <1>7 DEF STypes, sreadVars
<1>9. ASSUME NEW s \in Nat, NEW x \in Int, NEW b \in Bits8, SOrder(s, x, b)
      PROVE  SOrder(s, x, b)'
  <2>. DEFINE from == s + SHave
  <2>1. from \in Nat /\ from + Len(stty) \in Nat
    BY <1>3, <1>5
  <2>2. AreBytes(SFrame, x, b, from, Len(stty), stty)
        /\ AreBytes(SFrame, x, b, from + Len(stty), Len(sdev), sdev)
    BY <1>9 DEF SOrder
  <2>. HIDE DEF from
  <2>3. AreBytes(SFrame, x, b, from + Len(stty), Len(u), u)
        /\ AreBytes(SFrame, x, b, from + Len(stty) + k, Len(sdev'), sdev')
    BY <1>1, <1>3, <1>5, <2>1, <2>2, BytesPart DEF u
  <2>4. AreBytes(SFrame, x, b, from, Len(stty'), stty')
    BY <1>3, <1>5, <1>6, <2>1, <2>2, <2>3, BytesJoin
  <2>5. from + Len(stty') = from + Len(stty) + k
        /\ from + Len(stty') + Len(sdev') = from + Len(stty) + Len(sdev)
    BY <1>5, <1>7, <2>1
  <2>6. AreBytes(SFrame, x, b, from + Len(stty'), Len(sdev'), sdev')
    BY <2>3, <2>5
  <2>. QED  BY <1>2, <1>4, <1>9, <2>4, <2>5, <2>6 DEF SOrder, sreadVars, from
<1>. QED  BY <1>2, <1>8, <1>9, SLineInv DEF SInv, SWhole

(* The one bit that is changed.                                             *)
LEMMA SDamageInv == SInv /\ SDamage => SInv'
<1>. SUFFICES ASSUME SInv, SDamage PROVE SInv'
  OBVIOUS
<1>1. PICK i \in DOMAIN sdev, e \in Bits8 : sdev' = [sdev EXCEPT ![i] = Xor(@, {e})]
  BY DEF SDamage
<1>2. UNCHANGED <<smsg, swritten, stty, sreadVars>> /\ sline = "good" /\ sline' = "damaged"
  BY DEF SDamage
<1>3. STypes /\ SHolding /\ sdev \in Seq(SByte) /\ stty \in Seq(SByte) /\ SHave \in Nat
      /\ Len(stty) \in Nat /\ Len(sdev) \in Nat /\ \A t \in SThreads : sn[t] \in Nat
  BY DEF SInv, STypes, SHave
<1>4. i \in 1 .. Len(sdev) /\ DOMAIN sdev = 1 .. Len(sdev)
  BY <1>1, <1>3
<1>5. sdev' \in Seq(SByte) /\ Len(sdev') = Len(sdev)
  BY <1>1, <1>3, <1>4, BitFlipped
<1>6. SFrame' = SFrame /\ SSize' = SSize /\ SHave' = SHave
  BY <1>2 DEF SFrame, SSize, SHave, sreadVars
<1>7. STypes'
  BY <1>2, <1>3, <1>5, <1>6 DEF STypes, sreadVars
<1>8. ASSUME NEW s \in Nat, NEW x \in Int, NEW b \in Bits8, SOrder(s, x, b)
      PROVE  \E y \in Int, c \in Bits8 : SOrder(s, y, c)'
  <2>. DEFINE from == s + SHave
              y == from + Len(stty) + i - 1
  <2>1. from \in Nat /\ y \in Int /\ y \in Nat /\ x < 0 /\ s <= from
        /\ y < from + Len(stty) + Len(sdev)
    <3>1. x < 0
      BY <1>2, <1>8 DEF SOrder
    <3>2. from \in Nat /\ s <= from
      BY <1>3, <1>8
    <3>. DEFINE k == Len(stty)
                n == Len(sdev)
    <3>3. k \in Nat /\ n \in Nat /\ i \in 1 .. n /\ y = from + k + i - 1
      BY <1>3, <1>4
    <3>. HIDE DEF from, y, k, n
    <3>4. y \in Nat /\ y \in Int /\ y < from + k + n
      BY <3>2, <3>3
    <3>. QED  BY <3>1, <3>2, <3>4 DEF k, n
  <2>2. /\ AreBytes(SFrame, x, b, from, Len(stty), stty)
        /\ AreBytes(SFrame, x, b, from + Len(stty), Len(sdev), sdev)
        /\ \A t \in SThreads : spc[t] # "idle" => AreBytes(SFrame, x, b, s, sn[t], sbuffer[t])
    BY <1>8 DEF SOrder
  <2>3. \A t \in SThreads : spc[t] # "idle" => sn[t] = SHave
    BY <1>3 DEF SHolding, SHave
  <2>4. y = from + Len(stty) + i - 1
    OBVIOUS
  <2>. HIDE DEF from, y
  <2>5. ASSUME NEW j \in 1 .. Len(stty) PROVE IsByte(SFrame, y, e, from + j - 1, stty[j])
    <3>. DEFINE p == from + j - 1
    <3>1. p # x /\ p # y
      BY <1>3, <1>4, <2>1, <2>4
    <3>2. IsByte(SFrame, x, b, p, stty[j])
      BY <2>2 DEF AreBytes
    <3>. HIDE DEF p
    <3>3. IsByte(SFrame, y, e, p, stty[j])
      BY <3>1, <3>2, ByteKept
    <3>. QED  BY <3>3 DEF p
  <2>6. ASSUME NEW t \in SThreads, spc[t] # "idle", NEW j \in 1 .. sn[t]
        PROVE  IsByte(SFrame, y, e, s + j - 1, sbuffer[t][j])
    <3>. DEFINE p == s + j - 1
    <3>1. p # x /\ p # y
      <4>. DEFINE n == sn[t]
      <4>1. from = s + n /\ n \in Nat /\ j \in 1 .. n
        BY <1>3, <2>3, <2>6 DEF from
      <4>. HIDE DEF n
      <4>. QED  BY <1>3, <1>4, <2>1, <2>4, <4>1
    <3>2. IsByte(SFrame, x, b, p, sbuffer[t][j])
      BY <2>2, <2>6 DEF AreBytes
    <3>. HIDE DEF p
    <3>3. IsByte(SFrame, y, e, p, sbuffer[t][j])
      BY <3>1, <3>2, ByteKept
    <3>. QED  BY <3>3 DEF p
  <2>7. ASSUME NEW j \in 1 .. Len(sdev) PROVE IsByte(SFrame, y, e, from + Len(stty) + j - 1, sdev'[j])
    <3>. DEFINE p == from + Len(stty) + j - 1
    <3>1. p # x /\ (p = y <=> j = i)
      BY <1>3, <1>4, <2>1, <2>4
    <3>2. IsByte(SFrame, x, b, p, sdev[j])
      BY <2>2 DEF AreBytes
    <3>3. sdev'[j] = IF j = i THEN Xor(sdev[j], {e}) ELSE sdev[j]
      BY <1>1, <1>4
    <3>. HIDE DEF p
    <3>4. CASE j = i
      <4>1. IsByte(SFrame, p, e, p, Xor(sdev[j], {e}))
        BY <3>1, <3>2, ByteChanged
      <4>. QED  BY <3>1, <3>3, <3>4, <4>1 DEF p
    <3>5. CASE j # i
      <4>1. IsByte(SFrame, y, e, p, sdev[j])
        BY <3>1, <3>2, <3>5, ByteKept
      <4>. QED  BY <3>3, <3>5, <4>1 DEF p
    <3>. QED  BY <3>4, <3>5
  <2>8. /\ \E q \in Int : from + Len(stty) + Len(sdev) = q * SSize
        /\ ~scut => \E q \in Int : s = q * SSize
    BY <1>8 DEF SOrder, from
  <2>9. /\ AreBytes(SFrame, y, e, from, Len(stty), stty)
        /\ AreBytes(SFrame, y, e, from + Len(stty), Len(sdev'), sdev')
        /\ \A t \in SThreads : spc[t] # "idle" => AreBytes(SFrame, y, e, s, sn[t], sbuffer[t])
    BY <1>5, <2>5, <2>6, <2>7 DEF AreBytes
  <2>10. ASSUME NEW z \in Int, z = y PROVE SOrder(s, z, e)'
    <3>1. /\ UNCHANGED <<stty, scut, spc, sn, sbuffer>> /\ sline' # "good" /\ from = s + SHave
          /\ Len(sdev') = Len(sdev)
      BY <1>2, <1>5 DEF sreadVars, from
    <3>. HIDE DEF from
    <3>. QED  BY <1>6, <2>1, <2>8, <2>9, <2>10, <3>1 DEF SOrder
  <2>. QED  BY <1>1, <2>1, <2>10
<1>. QED  BY <1>2, <1>7, <1>8, SLineInv DEF SInv, SWhole

LEMMA SLoseInv == SInv /\ SLose => SInv'
<1>. SUFFICES ASSUME SInv, SLose PROVE SInv'
  OBVIOUS
<1>1. UNCHANGED <<smsg, swritten, stty, sreadVars>> /\ sline' = "lossy" /\ sdev # <<>> /\ sdev' = Tail(sdev)
  BY DEF SLose
<1>2. STypes /\ sdev \in Seq(SByte)
  BY DEF SInv, STypes
<1>3. sdev' \in Seq(SByte)
  BY <1>1, <1>2, HeadTailProperties
<1>4. SSize' = SSize
  BY <1>1 DEF SFrame, SSize
<1>5. STypes'
  BY <1>1, <1>2, <1>3, <1>4 DEF STypes, sreadVars
<1>. QED  BY <1>1, <1>5, SLineInv

LEMMA SReadSInv ==
  ASSUME SInv, NEW t \in SThreads, SReadS(t)
  PROVE  SInv'
<1>1. /\ spc[t] = "idle" /\ smutex = "free" /\ smutex' = t
      /\ spc' = [spc EXCEPT ![t] = "read"] /\ sn' = [sn EXCEPT ![t] = 0]
      /\ \E u \in BOOLEAN : suntil' = [suntil EXCEPT ![t] = u]
      /\ UNCHANGED <<lineVars, sbuffer, sresult, scut>>
  BY DEF SReadS
<1>2. STypes /\ SHolding /\ SSize \in Nat
  BY SFrameFacts DEF SInv
<1>3. /\ SFrame' = SFrame /\ SSize' = SSize /\ UNCHANGED <<smsg, stty, sdev, sline>>
  BY <1>1 DEF SFrame, SSize, lineVars
<1>4. STypes'
  BY <1>1, <1>2, <1>3 DEF STypes
<1>5. SHolding'
  BY <1>1, <1>2, SerialAssumption DEF STypes, SHolding
<1>6. SHave = 0 /\ SHave' = 0
  BY <1>1, <1>2, SerialAssumption DEF SHave, STypes
<1>7. sn'[t] = 0 /\ \A u \in SThreads : spc'[u] # "idle" => u = t
  BY <1>1, <1>2, <1>5 DEF SHolding, STypes
<1>8. ASSUME NEW s \in Nat, NEW x \in Int, NEW b \in Bits8, SOrder(s, x, b)
      PROVE  SOrder(s, x, b)'
  <2>1. \A u \in SThreads : spc'[u] # "idle" => AreBytes(SFrame, x, b, s, sn'[u], sbuffer[u])
    BY <1>7 DEF AreBytes
  <2>. QED  BY <1>1, <1>3, <1>6, <1>8, <2>1 DEF SOrder
<1>9. ASSUME NEW u \in SThreads, SGiven(u) PROVE SGiven(u)'
  <2>1. spc'[u] = "idle" => u # t /\ spc[u] = "idle" /\ sn'[u] = sn[u]
    BY <1>1, <1>2 DEF STypes
  <2>2. STaken(u) => STaken(u)'
    BY <1>1, <1>3 DEF STaken
  <2>. QED  BY <1>1, <1>3, <1>9, <2>1, <2>2 DEF SGiven
<1>. QED  BY <1>3, <1>4, <1>5, <1>8, <1>9 DEF SInv, SWhole

(* read() returns r bytes.                                                  *)
LEMMA SGotInv ==
  ASSUME SInv, NEW t \in SThreads, NEW r \in 0 .. Len(stty), r <= SSize - sn[t],
         spc[t] = "read", SGot(t, r),
         UNCHANGED <<smsg, swritten, sdev, sline, smutex, suntil, sresult, scut>>
  PROVE  SInv'
<1>. DEFINE m == sn[t] + r
            old == sbuffer[t]
            new == [i \in 1 .. SSize |-> IF i \in sn[t] + 1 .. m THEN stty[i - sn[t]] ELSE old[i]]
<1>1. /\ sbuffer' = [sbuffer EXCEPT ![t] = new]
      /\ stty' = SubSeq(stty, r + 1, Len(stty))
      /\ sn' = [sn EXCEPT ![t] = m]
      /\ \E pc \in {"read", "check"} : spc' = [spc EXCEPT ![t] = pc]
  BY DEF SGot
<1>2. /\ STypes /\ SHolding /\ SSize \in Nat
      /\ stty \in Seq(SByte) /\ sdev \in Seq(SByte) /\ sn[t] \in Nat /\ m \in Nat /\ m <= SSize
      /\ old \in [1 .. SSize -> SByte] /\ Len(stty) \in Nat /\ Len(sdev) \in Nat
  <2>1. STypes /\ SHolding /\ SSize \in Nat
    BY SFrameFacts DEF SInv
  <2>2. stty \in Seq(SByte) /\ sdev \in Seq(SByte) /\ sn[t] \in Nat /\ old \in [1 .. SSize -> SByte]
    BY <2>1 DEF STypes
  <2>. QED  BY <2>1, <2>2
<1>3. SFrame' = SFrame /\ SSize' = SSize
  BY DEF SFrame, SSize
<1>4. new \in [1 .. SSize -> SByte]
  <2>1. ASSUME NEW i \in 1 .. SSize, i \in sn[t] + 1 .. m PROVE stty[i - sn[t]] \in SByte
    <3>1. i - sn[t] \in 1 .. Len(stty)
      BY <1>2, <2>1
    <3>. QED  BY <1>2, <3>1
  <2>. QED  BY <1>2, <2>1
<1>a. stty' \in Seq(SByte) /\ Len(stty') = Len(stty) - r
  BY <1>1, <1>2, SubSeqProperties
<1>. HIDE DEF new, m, old
<1>5. STypes'
  <2>2. sbuffer' \in [SThreads -> [1 .. SSize -> SByte]]
    BY <1>1, <1>2, <1>4 DEF STypes
  <2>3. sn' \in [SThreads -> Nat] /\ \A u \in SThreads : sn'[u] <= SSize
    BY <1>1, <1>2 DEF STypes
  <2>. QED  BY <1>1, <1>2, <1>3, <1>a, <2>2, <2>3 DEF STypes
<1>6. SHolding'
  BY <1>1, <1>2 DEF STypes, SHolding
<1>7. SHave = sn[t] /\ SHave' = m /\ smutex = t /\ m = sn[t] + r
  BY <1>1, <1>2 DEF SHave, SHolding, STypes, m
<1>8. ASSUME NEW s \in Nat, NEW x \in Int, NEW b \in Bits8, SOrder(s, x, b)
      PROVE  SOrder(s, x, b)'
  <2>1. /\ AreBytes(SFrame, x, b, s + sn[t], Len(stty), stty)
        /\ AreBytes(SFrame, x, b, s, sn[t], old)
    BY <1>2, <1>7, <1>8 DEF SOrder, SHolding, old
  <2>2. AreBytes(SFrame, x, b, s + m, Len(stty'), stty')
    <3>1. s + sn[t] \in Nat /\ (s + sn[t]) + r = s + m
      <4>. DEFINE n == sn[t]
      <4>1. n \in Nat
        BY <1>2
      <4>2. r \in Int
        BY <1>2
      <4>3. m = n + r
        BY <1>7
      <4>. HIDE DEF n
      <4>4. s + n \in Nat /\ (s + n) + r = s + m
        BY <4>1, <4>2, <4>3
      <4>. QED  BY <4>4 DEF n
    <3>2. AreBytes(SFrame, x, b, (s + sn[t]) + r, Len(stty'), stty')
      BY <1>1, <1>2, <2>1, <3>1, BytesPart
    <3>. QED  BY <3>1, <3>2
  <2>3. ASSUME NEW i \in 1 .. m PROVE IsByte(SFrame, x, b, s + i - 1, new[i])
    <3>1. i \in 1 .. SSize
      BY <1>2
    <3>2. CASE i <= sn[t]
      <4>1. i \in 1 .. sn[t] /\ new[i] = old[i]
        BY <1>2, <3>1, <3>2 DEF new
      <4>. QED  BY <2>1, <4>1 DEF AreBytes
    <3>3. CASE i > sn[t]
      <4>. DEFINE j == i - sn[t]
      <4>1. j \in 1 .. Len(stty) /\ (s + sn[t]) + j - 1 = s + i - 1
        <5>. DEFINE n == sn[t]
        <5>1. n \in Nat /\ i \in Int /\ i > n /\ i <= n + r /\ r \in Int /\ r <= Len(stty)
          BY <1>2, <1>7, <3>3
        <5>. HIDE DEF n
        <5>2. i - n \in Int /\ 1 <= i - n /\ i - n <= Len(stty)
          BY <1>2, <5>1
        <5>3. (s + n) + (i - n) - 1 = s + i - 1
          BY <5>1
        <5>. QED  BY <1>2, <5>2, <5>3 DEF n
      <4>2. new[i] = stty[j]
        BY <1>2, <3>1, <3>3 DEF new
      <4>. HIDE DEF j
      <4>3. IsByte(SFrame, x, b, (s + sn[t]) + j - 1, stty[j])
        BY <2>1, <4>1 DEF AreBytes
      <4>. QED  BY <4>1, <4>2, <4>3
    <3>. QED  BY <1>2, <3>2, <3>3
  <2>4. \A u \in SThreads : spc'[u] # "idle" => u = t
    BY <1>6, <1>7 DEF SHolding
  <2>5. sbuffer'[t] = new /\ sn'[t] = m
    BY <1>1, <1>2 DEF STypes
  <2>6. \A u \in SThreads : spc'[u] # "idle" => AreBytes(SFrame, x, b, s, sn'[u], sbuffer'[u])
    <3>1. AreBytes(SFrame, x, b, s, m, new)
      BY <2>3 DEF AreBytes
    <3>. QED  BY <2>4, <2>5, <3>1
  <2>7. (s + m) + Len(stty') = (s + SHave) + Len(stty)
    <3>. DEFINE n == sn[t]
                l == Len(stty)
    <3>1. n \in Nat /\ l \in Nat /\ r \in Int /\ m = n + r /\ SHave = n /\ Len(stty') = l - r
      BY <1>2, <1>7, <1>a
    <3>. HIDE DEF n, l
    <3>2. (s + (n + r)) + (l - r) = (s + n) + l
      BY <3>1
    <3>. QED  BY <3>1, <3>2 DEF l
  <2>. QED  BY <1>3, <1>7, <1>8, <2>2, <2>6, <2>7 DEF SOrder
<1>9. ASSUME NEW u \in SThreads, SGiven(u) PROVE SGiven(u)'
  <2>1. spc'[u] = "idle" => spc[u] = "idle" /\ sn'[u] = sn[u] /\ sbuffer'[u] = sbuffer[u]
    BY <1>1, <1>2 DEF STypes
  <2>2. spc'[u] = "idle" /\ STaken(u) => STaken(u)'
    BY <1>3, <2>1 DEF STaken
  <2>. QED  BY <1>3, <1>9, <2>1, <2>2 DEF SGiven
<1>. QED  BY <1>5, <1>6, <1>8, <1>9 DEF SInv, SWhole

LEMMA SCheckInv ==
  ASSUME SInv, NEW t \in SThreads, SCheck(t)
  PROVE  SInv'
<1>1. /\ spc[t] = "check" /\ spc' = [spc EXCEPT ![t] = "idle"]
      /\ sresult' = [sresult EXCEPT ![t] = IF check_CRC(sbuffer[t]) THEN sn[t] ELSE -1]
      /\ scut' = (scut \/ sn[t] \notin {0, SSize})
      /\ UNCHANGED <<lineVars, suntil, sn, sbuffer>>
  BY DEF SCheck
<1>2. STypes /\ SHolding /\ SSize \in Nat /\ sn[t] \in Nat
      /\ Len(stty) \in Nat /\ Len(sdev) \in Nat
  BY SFrameFacts DEF SInv, STypes
<1>3. smutex = t /\ smutex' = "free"
  BY <1>1, <1>2 DEF SCheck, SHolding
<1>4. /\ SFrame' = SFrame /\ SSize' = SSize /\ UNCHANGED <<smsg, stty, sdev, sline>>
  BY <1>1 DEF SFrame, SSize, lineVars
<1>5. STypes'
  BY <1>1, <1>2, <1>4 DEF STypes
<1>6. SHolding'
  BY <1>1, <1>2, <1>3, SerialAssumption DEF STypes, SHolding
<1>7. SHave = sn[t] /\ SHave' = 0 /\ \A u \in SThreads : spc'[u] = "idle"
  BY <1>3, <1>6, SerialAssumption DEF SHave, SHolding
<1>8. ASSUME NEW s \in Nat, NEW x \in Int, NEW b \in Bits8, SOrder(s, x, b)
      PROVE  \E v \in Nat : SOrder(v, x, b)'
  <2>1. ASSUME ~scut' PROVE \E q \in Int : s + sn[t] = q * SSize
    <3>1. PICK q \in Int : s = q * SSize
      BY <1>1, <1>8, <2>1 DEF SOrder
    <3>2. CASE sn[t] = 0
      BY <1>2, <3>1, <3>2
    <3>3. CASE sn[t] = SSize
      <4>1. (q + 1) * SSize = q * SSize + SSize /\ q + 1 \in Int
        BY <1>2
      <4>. QED  BY <3>1, <3>3, <4>1
    <3>. QED  BY <1>1, <2>1, <3>2, <3>3
  <2>. DEFINE v == s + sn[t]
  <2>2. v + 0 = v /\ v \in Nat /\ v = s + SHave
    BY <1>2, <1>7
  <2>3. ~scut' => \E q \in Int : v = q * SSize
    BY <2>1
  <2>. HIDE DEF v
  <2>4. ASSUME NEW u \in Nat, u = v PROVE SOrder(u, x, b)'
    BY <1>1, <1>4, <1>7, <1>8, <2>2, <2>3, <2>4 DEF SOrder
  <2>. QED  BY <2>2, <2>4
<1>9. ASSUME SWhole, NEW u \in SThreads PROVE SGiven(u)'
  <2>0. SGiven(u) /\ (~scut' => ~scut)
    BY <1>1, <1>9 DEF SWhole
  <2>1. CASE u # t
    <3>1. spc'[u] = spc[u] /\ sresult'[u] = sresult[u]
      BY <1>1, <1>2, <2>1 DEF STypes
    <3>2. STaken(u) => STaken(u)'
      BY <1>1, <1>4, <2>0 DEF STaken
    <3>. QED  BY <1>1, <1>4, <2>0, <3>1, <3>2 DEF SGiven
  <2>2. CASE u = t
    <3>1. sresult'[t] = IF check_CRC(sbuffer[t]) THEN sn[t] ELSE -1
      BY <1>1, <1>2 DEF STypes
    <3>2. sn[t] = SSize => STaken(t)'
      <4>. SUFFICES ASSUME sn[t] = SSize PROVE STaken(t)'
        OBVIOUS
      <4>1. PICK s \in Nat, x \in Int, b \in Bits8 : SOrder(s, x, b)
        BY <1>9 DEF SWhole
      <4>2. /\ sline = "good" => x < 0
            /\ ~scut' => \E q \in Int : s = q * SSize
            /\ AreBytes(SFrame, x, b, s, SSize, sbuffer[t])
        BY <1>1, <2>0, <4>1 DEF SOrder
      <4>. QED  BY <1>1, <1>4, <4>2 DEF STaken
    <3>3. SSize # -1
      BY <1>2
    <3>4. sresult'[t] \in {-1, sn[t]} /\ (sn[t] = SSize => (sresult'[t] = SSize <=> check_CRC(sbuffer[t])))
      BY <3>1, <3>3
    <3>. QED  BY <1>1, <1>4, <2>2, <3>2, <3>4 DEF SGiven
  <2>. QED  BY <2>1, <2>2
<1>10. SWhole => SWhole'
  <2>. SUFFICES ASSUME SWhole PROVE SWhole'
    OBVIOUS
  <2>1. PICK s \in Nat, x \in Int, b \in Bits8 : SOrder(s, x, b)
    BY DEF SWhole
  <2>2. \E v \in Nat : SOrder(v, x, b)'
    BY <1>8, <2>1
  <2>. QED  BY <1>9, <2>2 DEF SWhole
<1>. QED  BY <1>4, <1>5, <1>6, <1>10 DEF SInv

LEMMA SStepInv == SInv /\ [SNext]_svars => SInv'
<1>. SUFFICES ASSUME SInv, [SNext]_svars PROVE SInv'
  OBVIOUS
<1>1. CASE UNCHANGED svars
  BY <1>1 DEF SInv, svars, lineVars, sreadVars, STypes, SHolding, SWhole, SOrder, SHave, SGiven,
              STaken, SFrame, SSize
<1>2. CASE SLine
  BY <1>2, SWriteInv, SArriveInv, SDamageInv, SLoseInv DEF SLine
<1>3. ASSUME NEW t \in SThreads, SRead(t) PROVE SInv'
  <2>. DEFINE r == IF Len(stty) < SSize - sn[t] THEN Len(stty) ELSE SSize - sn[t]
  <2>1. SSize \in Nat /\ sn[t] \in Nat /\ sn[t] <= SSize /\ Len(stty) \in Nat
    BY SFrameFacts DEF SInv, STypes
  <2>2. r \in 0 .. Len(stty) /\ r <= SSize - sn[t]
    BY <2>1
  <2>. HIDE DEF r
  <2>3. /\ spc[t] = "read" /\ SGot(t, r)
        /\ UNCHANGED <<smsg, swritten, sdev, sline, smutex, suntil, sresult, scut>>
    BY <1>3 DEF SRead, r
  <2>. QED  BY <2>2, <2>3, SGotInv
<1>4. ASSUME NEW t \in SThreads, STimeout(t) PROVE SInv'
  <2>1. 0 \in 0 .. Len(stty) /\ 0 <= SSize - sn[t]
    BY SFrameFacts DEF SInv, STypes
  <2>2. /\ spc[t] = "read" /\ SGot(t, 0)
        /\ UNCHANGED <<smsg, swritten, sdev, sline, smutex, suntil, sresult, scut>>
    BY <1>4 DEF STimeout
  <2>. QED  BY <2>1, <2>2, SGotInv
<1>. QED  BY <1>1, <1>2, <1>3, <1>4, SReadSInv, SCheckInv DEF SNext, SReadStep

(* What a readS has taken is a frame, turned around by as many bytes as the *)
(* reads before have moved its boundary, and at most one bit is changed.    *)
LEMMA TakenIsTurned ==
  ASSUME STypes, NEW t \in SThreads, STaken(t)
  PROVE  \E k \in 0 .. SSize - 1 :
           /\ ~scut => k = 0
           /\ \/ sbuffer[t] = TurnedAround(SFrame, k)
              \/ /\ sline # "good"
                 /\ \E i \in 1 .. SSize, b \in Bits8 :
                      sbuffer[t] = Flipped(TurnedAround(SFrame, k), i, b)
<1>1. SFrame \in Seq(SByte) /\ SSize \in Nat /\ SSize > 0 /\ SSize = Len(SFrame)
      /\ sbuffer[t] \in [1 .. SSize -> SByte]
  BY SFrameFacts DEF STypes
<1>2. PICK s \in Nat, x \in Int, b \in Bits8 :
        /\ sline = "good" => x < 0
        /\ ~scut => \E q \in Int : s = q * SSize
        /\ AreBytes(SFrame, x, b, s, SSize, sbuffer[t])
  BY DEF STaken
<1>. DEFINE buf == sbuffer[t]
            Found(k) == \/ buf = TurnedAround(SFrame, k)
                        \/ x >= 0 /\ \E i \in 1 .. SSize : buf = Flipped(TurnedAround(SFrame, k), i, b)
<1>3. PICK q \in Int, k \in 0 .. SSize - 1 : s = q * SSize + k
  BY <1>1, PlaceExists
<1>4. ~scut => k = 0
  <2>. SUFFICES ASSUME ~scut PROVE k = 0
    OBVIOUS
  <2>1. PICK p \in Int : s = p * SSize
    BY <1>2
  <2>. DEFINE n == SSize
  <2>2. n \in Nat /\ n > 0 /\ p * n = q * n + k /\ k \in 0 .. n - 1
    BY <1>1, <1>3, <2>1
  <2>. HIDE DEF n
  <2>. QED  BY <1>3, <2>1, <2>2, NoRest
<1>5. Found(k)
  <2>. DEFINE f == SFrame
              T == TurnedAround(f, k)
  <2>1. /\ f \in Seq(SByte) /\ Len(f) > 0 /\ PlaceIs(f, s, q, k) /\ k \in 0 .. Len(f) - 1
        /\ buf \in [1 .. Len(f) -> SByte] /\ AreBytes(f, x, b, s, Len(f), buf)
    BY <1>1, <1>2, <1>3 DEF PlaceIs
  <2>. HIDE DEF buf, f
  <2>2. \/ buf = T
        \/ x >= 0 /\ \E i \in 1 .. Len(f) : buf = Flipped(T, i, b)
    BY <1>2, <1>3, <2>1, BufferIsTurned
  <2>. QED  BY <1>1, <2>2 DEF f
<1>6. x >= 0 => sline # "good"
  BY <1>2
<1>. QED  BY <1>4, <1>5, <1>6

(* On a good line, and as long as every readS before has returned a whole   *)
(* frame or nothing, a readS that has got its n bytes has got a frame, and  *)
(* says so, whatever the messages and the generator polynomial              *)
(* (serial_client.cpp:253-276).                                             *)
THEOREM FramesAreKept == SSpec => []SFramesKept
<1>1. SInv => SFramesKept
  <2>. SUFFICES ASSUME SInv, sline = "good", ~scut, NEW t \in SThreads, SIdle(t)
                PROVE  sbuffer[t] = SFrame /\ sresult[t] = SSize
    BY DEF SFramesKept
  <2>1. STypes /\ SFrame \in Seq(SByte) /\ check_CRC(SFrame)
    BY SFrameFacts DEF SInv
  <2>2. STaken(t) /\ (sresult[t] = SSize <=> check_CRC(sbuffer[t]))
    BY DEF SInv, SWhole, SGiven, SIdle
  <2>3. sbuffer[t] = TurnedAround(SFrame, 0)
    BY <2>1, <2>2, TakenIsTurned
  <2>. QED  BY <2>1, <2>2, <2>3, TurnedByNothing
<1>. QED  BY <1>1, SInitInv, SStepInv, PTL DEF SSpec

(* A readS that returns its n bytes as good has got a frame the device has  *)
(* written, whatever one bit was changed on the line; or else a readS that  *)
(* was cut short has moved the frames' boundaries, and they are the end of  *)
(* one and the beginning of the next (com_client.cpp:64-73,                 *)
(* serial_client.cpp:257-275).                                              *)
THEOREM AcceptedIsFrame == SSpec => []SAcceptedIsFrame
<1>1. SInv => SAcceptedIsFrame
  <2>. SUFFICES ASSUME SInv, sline # "lossy", NEW t \in SThreads, spc[t] = "idle", sresult[t] = SSize
                PROVE  sbuffer[t] = SFrame \/ (scut /\ \E k \in 1 .. SSize - 1 : STurned(k, sbuffer[t]))
    BY DEF SAcceptedIsFrame
  <2>1. STypes /\ SFrame \in Seq(SByte) /\ check_CRC(SFrame) /\ SSize = Len(SFrame) /\ SSize \in Nat /\ SSize >= 2
    BY SFrameFacts DEF SInv
  <2>2. STaken(t) /\ check_CRC(sbuffer[t])
    <3>1. sn[t] = SSize
      BY <2>1 DEF SInv, SWhole, SGiven
    <3>. QED  BY <3>1 DEF SInv, SWhole, SGiven
  <2>3. PICK k \in 0 .. SSize - 1 :
          /\ ~scut => k = 0
          /\ \/ sbuffer[t] = TurnedAround(SFrame, k)
             \/ /\ sline # "good"
                /\ \E i \in 1 .. SSize, b \in Bits8 :
                     sbuffer[t] = Flipped(TurnedAround(SFrame, k), i, b)
    BY <2>1, <2>2, TakenIsTurned
  <2>4. CASE k = 0
    <3>1. TurnedAround(SFrame, k) = SFrame
      BY <2>1, <2>4, TurnedByNothing
    <3>2. \A i \in 1 .. SSize, b \in Bits8 : ~check_CRC(Flipped(SFrame, i, b))
      BY <2>1, FlippedIsRefused
    <3>3. \/ sbuffer[t] = SFrame
          \/ \E i \in 1 .. SSize, b \in Bits8 : sbuffer[t] = Flipped(SFrame, i, b)
      BY <2>3, <3>1, ZenonT(30)
    <3>. QED  BY <2>2, <3>2, <3>3, ZenonT(30)
  <2>5. CASE k # 0
    <3>1. scut /\ k \in 1 .. SSize - 1
      BY <2>1, <2>3, <2>5
    <3>2. sline # "good" => sline = "damaged"
      BY <2>1 DEF STypes
    <3>3. TurnedAround(SFrame, k) = SubSeq(SFrame, k + 1, SSize) \o SubSeq(SFrame, 1, k)
      BY <2>1 DEF TurnedAround
    <3>4. STurned(k, sbuffer[t])
      BY <2>3, <3>2, <3>3 DEF STurned, Flipped
    <3>. QED  BY <3>1, <3>4
  <2>. QED  BY <2>4, <2>5
<1>. QED  BY <1>1, SInitInv, SStepInv, PTL DEF SSpec

-----------------------------------------------------------------------------
(* The line changes one bit of a frame, once, or loses a byte of it.        *)

SLineOrder ==
  /\ Len(sdev) <= SSize
  /\ Len(sdev) = SSize =>
       \/ sdev = SFrame
       \/ /\ sline # "good"
          /\ \E i \in 1 .. SSize, b \in Bits8 : sdev = [SFrame EXCEPT ![i] = Xor(@, {b})]

LEMMA SInitOrder == SInit => SLineOrder
<1>. SUFFICES ASSUME SInit PROVE SLineOrder
  OBVIOUS
<1>1. STypes /\ sdev = <<>>
  BY SInitInv DEF SInit, SInv
<1>2. SSize \in Nat /\ SSize >= 2 /\ Len(<<>>) = 0
  BY <1>1, SFrameFacts
<1>3. Len(sdev) <= SSize /\ Len(sdev) # SSize
  BY <1>1, <1>2
<1>. QED  BY <1>3 DEF SLineOrder

LEMMA SStepOrder == STypes /\ SLineOrder /\ [SNext]_svars => SLineOrder'
<1>. SUFFICES ASSUME STypes, SLineOrder, [SNext]_svars PROVE SLineOrder'
  OBVIOUS
<1>0. /\ SFrame \in Seq(SByte) /\ SSize \in Nat /\ SSize = Len(SFrame)
      /\ sdev \in Seq(SByte) /\ Len(sdev) \in Nat /\ Len(sdev) <= SSize
  BY SFrameFacts DEF STypes, SSize, SLineOrder
<1>. DEFINE Changed(d) == \E i \in 1 .. SSize, b \in Bits8 : d = [SFrame EXCEPT ![i] = Xor(@, {b})]
<1>1. Len(sdev) = SSize => sdev = SFrame \/ (sline # "good" /\ Changed(sdev))
  BY DEF SLineOrder
<1>2. smsg' = smsg => /\ SFrame' = SFrame /\ SSize' = SSize
  BY DEF SFrame, SSize
<1>3. ASSUME smsg' = smsg, Len(sdev') <= SSize,
             Len(sdev') = SSize => sdev' = SFrame \/ (sline' # "good" /\ Changed(sdev'))
      PROVE  SLineOrder'
  BY <1>2, <1>3 DEF SLineOrder
<1>. HIDE DEF Changed
<1>4. CASE UNCHANGED <<smsg, sdev, sline>>
  BY <1>0, <1>1, <1>3, <1>4
<1>5. CASE SWriteS
  <2>1. smsg' = smsg /\ sdev' = SFrame
    BY <1>5 DEF SWriteS
  <2>. QED  BY <1>0, <1>3, <2>1
<1>6. CASE SArrive
  <2>1. PICK k \in 1 .. Len(sdev) : sdev' = SubSeq(sdev, k + 1, Len(sdev))
    BY <1>6 DEF SArrive
  <2>2. smsg' = smsg
    BY <1>6 DEF SArrive
  <2>3. Len(sdev') = Len(sdev) - k
    BY <1>0, <2>1, SubSeqProperties
  <2>4. Len(sdev') < SSize /\ Len(sdev') \in Nat
    BY <1>0, <2>3
  <2>. QED  BY <1>0, <1>3, <2>2, <2>4
<1>7. CASE SDamage
  <2>1. PICK i \in DOMAIN sdev, b \in Bits8 : sdev' = [sdev EXCEPT ![i] = Xor(@, {b})]
    BY <1>7 DEF SDamage
  <2>2. smsg' = smsg /\ sline = "good" /\ sline' = "damaged"
    BY <1>7 DEF SDamage
  <2>3. i \in 1 .. Len(sdev)
    BY <1>0, <2>1
  <2>4. Len(sdev') = Len(sdev)
    BY <1>0, <2>1, <2>3, BitFlipped
  <2>5. Len(sdev) = SSize => Changed(sdev')
    <3>. SUFFICES ASSUME Len(sdev) = SSize PROVE Changed(sdev')
      OBVIOUS
    <3>1. sdev = SFrame
      BY <1>1, <2>2
    <3>. QED  BY <2>1, <2>3, <3>1 DEF Changed
  <2>. QED  BY <1>0, <1>3, <2>2, <2>4, <2>5
<1>8. CASE SLose
  <2>1. smsg' = smsg /\ sdev # <<>> /\ sdev' = Tail(sdev)
    BY <1>8 DEF SLose
  <2>2. Len(sdev') = Len(sdev) - 1
    BY <1>0, <2>1
  <2>3. Len(sdev') <= SSize /\ Len(sdev') # SSize
    BY <1>0, <2>2
  <2>4. smsg' = smsg
    BY <2>1
  <2>. QED  BY <1>3, <2>3, <2>4
<1>9. (\E t \in SThreads : SReadS(t) \/ SReadStep(t)) \/ UNCHANGED svars => UNCHANGED <<smsg, sdev, sline>>
  BY DEF SReadS, SReadStep, SRead, STimeout, SCheck, lineVars, svars
<1>. QED  BY <1>4, <1>5, <1>6, <1>7, <1>8, <1>9 DEF SNext, SLine

(* What goes out is a multiple of the generator polynomial just when no bit *)
(* of it was changed: one changed bit is found in every frame, of any       *)
(* length (com_client.cpp:94-102, 105-124, serial_client.cpp:289).          *)
THEOREM ChangeIsFound == SSpec => []FrameIsMultiple
<1>1. SInv /\ SLineOrder => FrameIsMultiple
  <2>. SUFFICES ASSUME SInv, SLineOrder, Len(sdev) = SSize
                PROVE  Remainder(Polynomial(sdev), 8 * SSize) = {} <=> sline = "good" \/ sdev = SFrame
    BY DEF FrameIsMultiple
  <2>1. /\ SFrame \in Seq(SByte) /\ check_CRC(SFrame) /\ SSize = Len(SFrame) /\ SSize >= 2
        /\ sdev \in Seq(SByte)
    BY SFrameFacts DEF SInv, STypes
  <2>2. check_CRC(sdev) <=> Remainder(Polynomial(sdev), 8 * SSize) = {}
    BY <2>1, CheckIsDivision DEF SByte
  <2>3. \A i \in 1 .. SSize, b \in Bits8 : ~check_CRC(Flipped(SFrame, i, b))
    BY <2>1, FlippedIsRefused
  <2>4. sdev = SFrame \/ (sline # "good" /\ ~check_CRC(sdev))
    BY <2>3 DEF SLineOrder, Flipped
  <2>. QED  BY <2>1, <2>2, <2>4
<1>2. SInv => STypes
  BY DEF SInv
<1>. QED  BY <1>1, <1>2, SInitInv, SStepInv, SInitOrder, SStepOrder, PTL DEF SSpec
=============================================================================
