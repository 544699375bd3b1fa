---------------------------- MODULE TaggedBytes ----------------------------
(***************************************************************************)
(* Bytes that say where they come from: a pair of a source (a connection,  *)
(* a socket) and the place of the byte in what that source has sent.       *)
(***************************************************************************)
EXTENDS Integers, Sequences

(* Those of the bytes that come from c, in order.                           *)
From(c, bytes) ==
  LET from[i \in 0 .. Len(bytes)] ==
        IF i = 0 THEN <<>>
        ELSE IF bytes[i][1] = c THEN Append(from[i - 1], bytes[i])
        ELSE from[i - 1]
  IN  from[Len(bytes)]
=============================================================================
