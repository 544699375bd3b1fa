----------------------------- MODULE ByteStreams -----------------------------
(***************************************************************************)
(* What a stream socket promises, and what the classes built on one ought  *)
(* to keep up to the application: what goes in at one end of a channel     *)
(* comes out of the other in order, each byte once, with no gap.           *)
(***************************************************************************)
EXTENDS Integers, Sequences

CONSTANT Channels

VARIABLES
  stream,  \* what has gone into each channel
  got      \* what has come out of it

vars == <<stream, got>>

Init == stream = [c \in Channels |-> <<>>] /\ got = [c \in Channels |-> <<>>]

(* new is old with something behind it.                                     *)
Extends(new, old) == Len(new) > Len(old) /\ SubSeq(new, 1, Len(old)) = old

Write(c) == Extends(stream'[c], stream[c]) /\ got'[c] = got[c]

Read(c) ==
  /\ stream'[c] = stream[c]
  /\ Extends(got'[c], got[c])
  /\ Extends(stream[c], got'[c]) \/ stream[c] = got'[c]

Idle(c) == stream'[c] = stream[c] /\ got'[c] = got[c]

Next == \A c \in Channels : Write(c) \/ Read(c) \/ Idle(c)

Spec == Init /\ [][Next]_vars
=============================================================================
