--------------------------- MODULE ServerLifecycle ---------------------------
(***************************************************************************)
(* What Communication::Server promises of start() and stop()               *)
(* (src/include/com_client.hpp:177-202), whatever protocol is behind it: a *)
(* server that runs may have a thread that serves; stop() first takes the  *)
(* permission to run away, and returns when that thread has ended.         *)
(***************************************************************************)

CONSTANT MayGiveUp   \* TRUE: the thread may end by itself, on an error

VARIABLES
  running,   \* is_running()
  stopping,  \* somebody is inside stop()
  serving    \* the thread that accepts or receives has not ended

vars == <<running, stopping, serving>>

Init == ~running /\ ~stopping /\ ~serving

(* start() runs the server even when it then fails to serve.                *)
Start ==
  /\ ~running /\ ~stopping /\ ~serving
  /\ running' = TRUE
  /\ serving' \in BOOLEAN
  /\ UNCHANGED stopping

BeginStop ==
  /\ running /\ ~stopping
  /\ running' = FALSE /\ stopping' = TRUE
  /\ UNCHANGED serving

End ==
  /\ serving
  /\ MayGiveUp \/ ~running
  /\ serving' = FALSE
  /\ UNCHANGED <<running, stopping>>

Return ==
  /\ stopping /\ ~serving
  /\ stopping' = FALSE
  /\ UNCHANGED <<running, serving>>

Next == Start \/ BeginStop \/ End \/ Return

Spec == Init /\ [][Next]_vars

(* A stop() that has begun returns.                                         *)
LiveSpec == Spec /\ WF_vars(stopping /\ (End \/ Return))
=============================================================================
