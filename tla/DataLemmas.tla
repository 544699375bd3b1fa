----------------------------- MODULE DataLemmas -----------------------------
(***************************************************************************)
(* Sequences of any length: what the proofs of the components need to know *)
(* of bytes that come one behind the other.                                *)
(*                                                                         *)
(* The induction rests on the pigeonhole principle: if a set of naturals   *)
(* has 0, and n + 1 with each n, but not N, then n -> n - 1 maps the       *)
(* numbers up to N that it lacks into one fewer without making any two     *)
(* equal.  A function that is defined by recursion is one of a set of      *)
(* functions that each next length leaves nonempty.                        *)
(***************************************************************************)
EXTENDS TaggedBytes, FiniteSetTheorems, SequenceTheorems, TLAPS

(* A set that has 0, and n + 1 with each n, has every natural number.       *)
LEMMA SetInduction ==
  ASSUME NEW S \in SUBSET Nat, 0 \in S, \A n \in S : n + 1 \in S
  PROVE  S = Nat
<1>. SUFFICES ASSUME NEW N \in Nat, N \notin S PROVE FALSE
  OBVIOUS
<1>. DEFINE B == {n \in 0 .. N : n \notin S}
            f == [n \in B |-> n - 1]
<1>1. IsFiniteSet(B) /\ N \in B
  <2>1. IsFiniteSet(0 .. N)
    BY FS_Interval
  <2>. QED  BY <2>1, FS_Subset
<1>2. IsFiniteSet(B \ {N}) /\ Cardinality(B \ {N}) = Cardinality(B) - 1
  BY <1>1, FS_RemoveElement
<1>3. Cardinality(B) \in Nat
  BY <1>1, FS_CardinalityType
<1>4. f \in [B -> B \ {N}]
  <2>. SUFFICES ASSUME NEW n \in B PROVE n - 1 \in B \ {N}
    OBVIOUS
  <2>1. n # 0
    OBVIOUS
  <2>2. n - 1 \in Nat
    BY <2>1
  <2>3. n - 1 \notin S
    BY <2>2
  <2>. QED  BY <2>1, <2>3
<1>5. PICK x \in B, y \in B : x # y /\ f[x] = f[y]
  <2>. HIDE DEF B, f
  <2>1. Cardinality(B \ {N}) < Cardinality(B)
    BY <1>2, <1>3
  <2>2. \E x, y \in B : x # y /\ f[x] = f[y]
    BY <1>1, <1>2, <1>4, <2>1, FS_PigeonHole
  <2>. QED  BY <2>2
<1>. QED  BY <1>5

(* A function on 0 .. n can be defined by what it is at 0 and by each next  *)
(* step.                                                                    *)
Recursion(T, base, step, n) ==
  {h \in [0 .. n -> T] :
     h[0] = base /\ \A i \in 1 .. n : h[i] = step[<<h[i - 1], i>>]}

LEMMA RecursionExists ==
  ASSUME NEW T, NEW base \in T, NEW step \in [T \X Nat -> T], NEW n \in Nat
  PROVE  Recursion(T, base, step, n) # {}
<1>. DEFINE Fits(h, k) ==
              h[0] = base /\ \A i \in 1 .. k : h[i] = step[<<h[i - 1], i>>]
            S == {k \in Nat : \E h \in [0 .. k -> T] : Fits(h, k)}
<1>1. 0 \in S
  <2>. DEFINE h == [i \in 0 .. 0 |-> base]
  <2>1. h \in [0 .. 0 -> T] /\ Fits(h, 0)
    OBVIOUS
  <2>. QED BY <2>1
<1>2. ASSUME NEW k \in S PROVE k + 1 \in S
  <2>1. PICK h \in [0 .. k -> T] : Fits(h, k)
    OBVIOUS
  <2>. DEFINE g == [i \in 0 .. k + 1 |-> IF i = k + 1 THEN step[<<h[k], i>>] ELSE h[i]]
  <2>2. g \in [0 .. k + 1 -> T]
    OBVIOUS
  <2>3. \A i \in 0 .. k : g[i] = h[i]
    OBVIOUS
  <2>4. g[k + 1] = step[<<g[k], k + 1>>]
    OBVIOUS
  <2>. HIDE DEF g
  <2>5. g[0] = base
    <3>1. 0 \in 0 .. k
      OBVIOUS
    <3>. QED  BY <2>1, <2>3, <3>1
  <2>6. ASSUME NEW i \in 1 .. k + 1 PROVE g[i] = step[<<g[i - 1], i>>]
    <3>1. CASE i = k + 1
      BY <2>4, <3>1
    <3>2. CASE i \in 1 .. k
      <4>1. i \in 0 .. k /\ i - 1 \in 0 .. k
        BY <3>2
      <4>. QED  BY <2>1, <2>3, <3>2, <4>1
    <3>. QED  BY <3>1, <3>2
  <2>7. k + 1 \in Nat
    OBVIOUS
  <2>. QED  BY <2>2, <2>5, <2>6, <2>7
<1>3. S = Nat
  <2>. HIDE DEF S
  <2>1. S \in SUBSET Nat
    BY DEF S
  <2>. QED  BY <1>1, <1>2, <2>1, SetInduction
<1>. QED  BY <1>3 DEF Recursion

-----------------------------------------------------------------------------
(* What From is at each place of a sequence.                                *)

Picks(c, s, f) ==
  /\ f[0] = <<>>
  /\ \A i \in 1 .. Len(s) :
       f[i] = IF s[i][1] = c THEN Append(f[i - 1], s[i]) ELSE f[i - 1]

(* From passes over a sequence from its first place to its last.            *)
LEMMA FromUnfolds ==
  ASSUME NEW B, NEW s \in Seq(B), NEW c
  PROVE  \E f \in [0 .. Len(s) -> Seq(B)] : Picks(c, s, f) /\ From(c, s) = f[Len(s)]
<1>. DEFINE T == Seq(B)
            f[i \in 0 .. Len(s)] ==
              IF i = 0 THEN <<>>
              ELSE IF s[i][1] = c THEN Append(f[i - 1], s[i]) ELSE f[i - 1]
            step == [p \in T \X Nat |->
                       IF p[2] \in 1 .. Len(s) /\ s[p[2]][1] = c THEN Append(p[1], s[p[2]]) ELSE p[1]]
<1>1. /\ step \in [T \X Nat -> T]
      /\ \A q \in T, j \in 1 .. Len(s) :
           step[<<q, j>>] = IF s[j][1] = c THEN Append(q, s[j]) ELSE q
  OBVIOUS
<1>2. <<>> \in T /\ Len(s) \in Nat
  OBVIOUS
<1>3. PICK h \in [0 .. Len(s) -> T] :
        h[0] = <<>> /\ \A i \in 1 .. Len(s) : h[i] = step[<<h[i - 1], i>>]
  <2>. HIDE DEF T, step
  <2>1. Recursion(T, <<>>, step, Len(s)) # {}
    BY <1>1, <1>2, RecursionExists
  <2>. QED  BY <2>1 DEF Recursion
<1>4. Picks(c, s, h)
  <2>. HIDE DEF T, step
  <2>. SUFFICES ASSUME NEW i \in 1 .. Len(s)
                PROVE  h[i] = IF s[i][1] = c THEN Append(h[i - 1], s[i]) ELSE h[i - 1]
    BY <1>3 DEF Picks
  <2>1. i - 1 \in 0 .. Len(s)
    BY <1>2
  <2>. QED  BY <1>1, <1>3, <2>1
<1>5. h = [i \in 0 .. Len(s) |->
             IF i = 0 THEN <<>>
             ELSE IF s[i][1] = c THEN Append(h[i - 1], s[i]) ELSE h[i - 1]]
  <2>1. \A i \in 0 .. Len(s) :
          h[i] = IF i = 0 THEN <<>>
                 ELSE IF s[i][1] = c THEN Append(h[i - 1], s[i]) ELSE h[i - 1]
    <3>. SUFFICES ASSUME NEW i \in 0 .. Len(s), i # 0
                  PROVE  h[i] = IF s[i][1] = c THEN Append(h[i - 1], s[i]) ELSE h[i - 1]
      BY <1>4 DEF Picks
    <3>1. i \in 1 .. Len(s)
      BY <1>2
    <3>. QED  BY <1>4, <3>1 DEF Picks
  <2>2. h = [i \in 0 .. Len(s) |-> h[i]]
    OBVIOUS
  <2>. QED  BY <2>1, <2>2
<1>6. f = CHOOSE g : g = [i \in 0 .. Len(s) |->
             IF i = 0 THEN <<>>
             ELSE IF s[i][1] = c THEN Append(g[i - 1], s[i]) ELSE g[i - 1]]
  BY DEF f
<1>7. From(c, s) = f[Len(s)]
  BY DEF From
<1>. HIDE DEF f, T, step
<1>8. f = [i \in 0 .. Len(s) |->
             IF i = 0 THEN <<>>
             ELSE IF s[i][1] = c THEN Append(f[i - 1], s[i]) ELSE f[i - 1]]
  BY <1>5, <1>6, Zenon
<1>9. Picks(c, s, f)
  <2>1. 0 \in 0 .. Len(s) /\ \A i \in 1 .. Len(s) : i # 0 /\ i \in 0 .. Len(s)
    BY <1>2
  <2>2. f[0] = <<>>
    BY <1>8, <2>1
  <2>3. ASSUME NEW i \in 1 .. Len(s)
        PROVE  f[i] = IF s[i][1] = c THEN Append(f[i - 1], s[i]) ELSE f[i - 1]
    BY <1>8, <2>1
  <2>. QED  BY <2>2, <2>3 DEF Picks
<1>10. ASSUME NEW i \in 0 .. Len(s) PROVE f[i] \in T
  <2>. DEFINE S == {k \in Nat : k <= Len(s) => f[k] \in T}
  <2>1. 0 \in S
    BY <1>2, <1>9 DEF Picks
  <2>2. ASSUME NEW k \in S, k + 1 <= Len(s) PROVE f[k + 1] \in T
    <3>1. k + 1 \in 1 .. Len(s) /\ f[k] \in T /\ (k + 1) - 1 = k
      BY <1>2, <2>2
    <3>2. \A q \in T : Append(q, s[k + 1]) \in T
      BY <3>1 DEF T
    <3>. QED  BY <1>9, <3>1, <3>2 DEF Picks
  <2>3. S = Nat
    <3>1. S \in SUBSET Nat /\ \A k \in S : k + 1 \in S
      BY <2>2
    <3>. HIDE DEF S
    <3>. QED  BY <2>1, <3>1, SetInduction
  <2>. QED  BY <1>2, <2>3
<1>11. f \in [0 .. Len(s) -> T]
  <2>1. f = [i \in 0 .. Len(s) |-> f[i]]
    BY <1>8, Zenon
  <2>. QED  BY <1>10, <2>1
<1>. QED  BY <1>7, <1>9, <1>11 DEF T

(* Of nothing, nothing comes from c.                                        *)
LEMMA FromEmpty ==
  ASSUME NEW c
  PROVE  From(c, <<>>) = <<>>
<1>1. <<>> \in Seq({}) /\ Len(<<>>) = 0
  OBVIOUS
<1>2. PICK f \in [0 .. Len(<<>>) -> Seq({})] : Picks(c, <<>>, f) /\ From(c, <<>>) = f[Len(<<>>)]
  BY <1>1, FromUnfolds
<1>. QED  BY <1>1, <1>2 DEF Picks

(* What comes from c is some of what there is.                              *)
LEMMA FromType ==
  ASSUME NEW B, NEW s \in Seq(B), NEW c
  PROVE  From(c, s) \in Seq(B)
<1>1. PICK f \in [0 .. Len(s) -> Seq(B)] : From(c, s) = f[Len(s)]
  BY FromUnfolds
<1>2. Len(s) \in 0 .. Len(s)
  OBVIOUS
<1>. QED  BY <1>1, <1>2

(* One more byte behind the others comes from c or does not.                *)
LEMMA FromAppend ==
  ASSUME NEW B, NEW s \in Seq(B), NEW b \in B, NEW c
  PROVE  From(c, Append(s, b)) = IF b[1] = c THEN Append(From(c, s), b) ELSE From(c, s)
<1>. DEFINE n == Len(s)
            t == Append(s, b)
<1>1. /\ n \in Nat /\ t \in Seq(B) /\ Len(t) = n + 1
      /\ t[n + 1] = b /\ \A i \in 1 .. n : t[i] = s[i]
  OBVIOUS
<1>2. PICK f \in [0 .. n -> Seq(B)] : Picks(c, s, f) /\ From(c, s) = f[n]
  BY FromUnfolds
<1>3. PICK g \in [0 .. n + 1 -> Seq(B)] : Picks(c, t, g) /\ From(c, t) = g[n + 1]
  <2>. HIDE DEF t
  <2>1. \E g \in [0 .. Len(t) -> Seq(B)] : Picks(c, t, g) /\ From(c, t) = g[Len(t)]
    BY <1>1, FromUnfolds
  <2>. QED  BY <1>1, <2>1
<1>. HIDE DEF t
<1>4. f[n] = g[n]
  <2>. DEFINE S == {k \in Nat : k <= n => f[k] = g[k]}
  <2>1. 0 \in S
    BY <1>2, <1>3 DEF Picks
  <2>2. ASSUME NEW k \in S, k + 1 <= n PROVE f[k + 1] = g[k + 1]
    <3>1. k + 1 \in 1 .. Len(s) /\ k + 1 \in 1 .. Len(t) /\ (k + 1) - 1 = k /\ f[k] = g[k]
      BY <1>1, <2>2
    <3>2. f[k + 1] = IF s[k + 1][1] = c THEN Append(f[k], s[k + 1]) ELSE f[k]
      BY <1>2, <3>1 DEF Picks
    <3>3. g[k + 1] = IF t[k + 1][1] = c THEN Append(g[k], t[k + 1]) ELSE g[k]
      BY <1>3, <3>1 DEF Picks
    <3>. QED  BY <1>1, <3>1, <3>2, <3>3
  <2>3. S = Nat
    <3>1. S \in SUBSET Nat /\ \A k \in S : k + 1 \in S
      BY <2>2
    <3>. HIDE DEF S
    <3>. QED  BY <2>1, <3>1, SetInduction
  <2>. QED  BY <1>1, <2>3
<1>5. g[n + 1] = IF t[n + 1][1] = c THEN Append(g[n], t[n + 1]) ELSE g[n]
  <2>1. n + 1 \in 1 .. Len(t) /\ (n + 1) - 1 = n
    BY <1>1
  <2>. QED  BY <1>3, <2>1 DEF Picks
<1>. QED  BY <1>1, <1>2, <1>3, <1>4, <1>5 DEF t

(* A sequence with something in it is a shorter one with one more behind.   *)
LEMMA LastOff ==
  ASSUME NEW B, NEW s \in Seq(B), NEW n \in Nat, Len(s) = n + 1
  PROVE  \E t \in Seq(B), b \in B : Len(t) = n /\ s = Append(t, b)
<1>. DEFINE t == [i \in 1 .. n |-> s[i]]
<1>1. t \in Seq(B) /\ Len(t) = n /\ s[n + 1] \in B
  BY IsASeq
<1>2. s = Append(t, s[n + 1])
  <2>1. Append(t, s[n + 1]) \in Seq(B) /\ Len(Append(t, s[n + 1])) = n + 1
    BY <1>1
  <2>2. ASSUME NEW i \in 1 .. n + 1 PROVE Append(t, s[n + 1])[i] = s[i]
    OBVIOUS
  <2>. QED  BY <2>1, <2>2, SeqEqual
<1>. QED  BY <1>1, <1>2

(* What is put behind the second of two sequences is behind both.           *)
LEMMA AppendToConcat ==
  ASSUME NEW B, NEW s \in Seq(B), NEW t \in Seq(B), NEW b \in B
  PROVE  s \o Append(t, b) = Append(s \o t, b)
<1>1. <<b>> \in Seq(B) /\ s \o t \in Seq(B)
  BY ConcatProperties
<1>. QED  BY <1>1, AppendIsConcat, ConcatAssociative

(* The bytes from c of two sequences are those of the one before those of   *)
(* the other.                                                               *)
LEMMA FromConcat ==
  ASSUME NEW B, NEW s \in Seq(B), NEW t \in Seq(B), NEW c
  PROVE  From(c, s \o t) = From(c, s) \o From(c, t)
<1>. DEFINE S == {n \in Nat : \A u \in Seq(B) :
                    Len(u) = n => From(c, s \o u) = From(c, s) \o From(c, u)}
<1>0. From(c, s) \in Seq(B) /\ \A u \in Seq(B) : From(c, u) \in Seq(B)
  BY FromType
<1>1. 0 \in S
  <2>. SUFFICES ASSUME NEW u \in Seq(B), Len(u) = 0
                PROVE  From(c, s \o u) = From(c, s) \o From(c, u)
    OBVIOUS
  <2>1. u = <<>>
    OBVIOUS
  <2>. QED  BY <1>0, <2>1, FromEmpty, ConcatEmptySeq
<1>2. ASSUME NEW n \in S PROVE n + 1 \in S
  <2>. SUFFICES ASSUME NEW u \in Seq(B), Len(u) = n + 1
                PROVE  From(c, s \o u) = From(c, s) \o From(c, u)
    OBVIOUS
  <2>1. PICK v \in Seq(B), b \in B : Len(v) = n /\ u = Append(v, b)
    <3>1. n \in Nat
      OBVIOUS
    <3>. HIDE DEF S
    <3>. QED  BY <3>1, LastOff, SMTT(30)
  <2>2. s \o u = Append(s \o v, b) /\ s \o v \in Seq(B)
    BY <2>1, AppendToConcat, ConcatProperties
  <2>3. From(c, s \o v) = From(c, s) \o From(c, v)
    BY <2>1
  <2>4. /\ From(c, s \o u) = IF b[1] = c THEN Append(From(c, s \o v), b) ELSE From(c, s \o v)
        /\ From(c, u) = IF b[1] = c THEN Append(From(c, v), b) ELSE From(c, v)
    <3>. HIDE DEF S
    <3>1. \A w \in Seq(B) : From(c, Append(w, b)) = IF b[1] = c THEN Append(From(c, w), b) ELSE From(c, w)
      BY FromAppend
    <3>. QED  BY <2>1, <2>2, <3>1
  <2>5. From(c, s) \o Append(From(c, v), b) = Append(From(c, s) \o From(c, v), b)
    BY <1>0, AppendToConcat
  <2>. QED  BY <2>3, <2>4, <2>5
<1>3. S = Nat
  <2>1. S \in SUBSET Nat
    OBVIOUS
  <2>. HIDE DEF S
  <2>. QED  BY <1>1, <1>2, <2>1, SetInduction
<1>. QED  BY <1>3

(* If all bytes come from c they are all there is.                          *)
LEMMA FromOwn ==
  ASSUME NEW B, NEW s \in Seq(B), NEW c, \A i \in 1 .. Len(s) : s[i][1] = c
  PROVE  From(c, s) = s
<1>1. PICK f \in [0 .. Len(s) -> Seq(B)] : Picks(c, s, f) /\ From(c, s) = f[Len(s)]
  BY FromUnfolds
<1>. DEFINE S == {n \in Nat : n <= Len(s) => Len(f[n]) = n /\ \A i \in 1 .. n : f[n][i] = s[i]}
<1>2. 0 \in S
  BY <1>1 DEF Picks
<1>3. ASSUME NEW n \in S, n + 1 <= Len(s)
      PROVE  Len(f[n + 1]) = n + 1 /\ \A i \in 1 .. n + 1 : f[n + 1][i] = s[i]
  <2>1. n + 1 \in 1 .. Len(s) /\ (n + 1) - 1 = n /\ f[n] \in Seq(B) /\ s[n + 1] \in B
    BY <1>3
  <2>2. f[n + 1] = Append(f[n], s[n + 1])
    BY <1>1, <2>1 DEF Picks
  <2>3. Len(f[n]) = n /\ \A i \in 1 .. n : f[n][i] = s[i]
    BY <1>3
  <2>. QED  BY <2>1, <2>2, <2>3, AppendProperties
<1>4. S = Nat
  <2>1. ASSUME NEW n \in S PROVE n + 1 \in S
    <3>1. n + 1 \in Nat
      OBVIOUS
    <3>. QED  BY <1>3, <3>1
  <2>2. S \in SUBSET Nat
    OBVIOUS
  <2>. HIDE DEF S
  <2>. QED  BY <1>2, <2>1, <2>2, SetInduction
<1>5. Len(f[Len(s)]) = Len(s) /\ \A i \in 1 .. Len(s) : f[Len(s)][i] = s[i]
  BY <1>4
<1>6. f[Len(s)] \in Seq(B)
  OBVIOUS
<1>. QED  BY <1>1, <1>5, <1>6, SeqEqual

(* If none does there is nothing.                                           *)
LEMMA FromOthers ==
  ASSUME NEW B, NEW s \in Seq(B), NEW c, \A i \in 1 .. Len(s) : s[i][1] # c
  PROVE  From(c, s) = <<>>
<1>1. PICK f \in [0 .. Len(s) -> Seq(B)] : Picks(c, s, f) /\ From(c, s) = f[Len(s)]
  BY FromUnfolds
<1>. DEFINE S == {n \in Nat : n <= Len(s) => f[n] = <<>>}
<1>2. 0 \in S
  BY <1>1 DEF Picks
<1>3. ASSUME NEW n \in S, n + 1 <= Len(s) PROVE f[n + 1] = <<>>
  <2>1. n + 1 \in 1 .. Len(s) /\ (n + 1) - 1 = n
    BY <1>3
  <2>2. f[n + 1] = f[n]
    BY <1>1, <2>1 DEF Picks
  <2>. QED  BY <1>3, <2>2
<1>4. S = Nat
  <2>1. S \in SUBSET Nat /\ \A n \in S : n + 1 \in S
    BY <1>3
  <2>. HIDE DEF S
  <2>. QED  BY <1>2, <2>1, SetInduction
<1>. QED  BY <1>1, <1>4
=============================================================================
