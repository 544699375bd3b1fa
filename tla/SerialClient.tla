----------------------------- MODULE SerialClient -----------------------------
(***************************************************************************)
(* Communication::Serial (src/src/serial_client.cpp): a device writes      *)
(* frames with a CRC16 to a line that damages or loses bytes of them, and  *)
(* application threads that share the open connection read them.           *)
(*                                                                         *)
(* A definition marked "Slip" is the next one with a mistake in it.        *)
(***************************************************************************)
EXTENDS Crc16

CONSTANTS
  SThreads,   \* the application's threads
  SFrames     \* bound: frames the device writes

ASSUME SerialAssumption ==
  "free" \notin SThreads /\ SFrames \in Nat

VARIABLES
  smsg,             \* the one of Messages that the device repeats
  swritten, sdev,   \* frames written; bytes of the present one still to come
  stty,             \* bytes received by the driver and not yet read
  sline,            \* history: "good", "damaged" (a bit was changed) or "lossy"
                    \* (a byte is missing)
  smutex, spc, suntil, sn, \* readS: the lock, its steps, read_until and n
  sbuffer,          \* the buffer each thread passes, with what it held before
  sresult,          \* what its last readS returned
  scut              \* history: some readS has returned in the middle of a frame

lineVars == <<smsg, swritten, sdev, stty, sline>>
sreadVars == <<smutex, spc, suntil, sn, sbuffer, sresult, scut>>
svars == <<lineVars, sreadVars>>

SFrame == Framed(smsg)
SSize == Len(SFrame)

SInit ==
  /\ smsg \in Messages /\ swritten = 0 /\ sdev = <<>> /\ stty = <<>> /\ sline = "good"
  /\ smutex = "free" /\ spc = [t \in SThreads |-> "idle"]
  /\ suntil = [t \in SThreads |-> FALSE] /\ sn = [t \in SThreads |-> 0]
  /\ sbuffer = [t \in SThreads |-> [i \in 1 .. Len(smsg) + 2 |-> {}]]
  /\ sresult = [t \in SThreads |-> 0] /\ scut = FALSE

-----------------------------------------------------------------------------
(* The device: writeS(message, size, true) at the other end.                *)

SWriteS ==
  /\ sdev = <<>> /\ swritten < SFrames
  /\ swritten' = swritten + 1
  /\ sdev' = SFrame
  /\ UNCHANGED <<smsg, stty, sline, sreadVars>>

(* The line.  Bytes arrive one or more at a time.                           *)
SArrive ==
  /\ \E k \in 1 .. Len(sdev) :
       /\ stty' = stty \o SubSeq(sdev, 1, k)
       /\ sdev' = SubSeq(sdev, k + 1, Len(sdev))
  /\ UNCHANGED <<smsg, swritten, sline, sreadVars>>

(* Bound: once, and one bit; Crc16 looks at the other damages.              *)
SDamage ==
  /\ sline = "good"
  /\ \E i \in DOMAIN sdev, b \in Bits8 : sdev' = [sdev EXCEPT ![i] = Xor(@, {b})]
  /\ sline' = "damaged"
  /\ UNCHANGED <<smsg, swritten, stty, sreadVars>>

SLose ==
  /\ sline = "good" /\ sdev # <<>>
  /\ sdev' = Tail(sdev)
  /\ sline' = "lossy"
  /\ UNCHANGED <<smsg, swritten, stty, sreadVars>>

-----------------------------------------------------------------------------
(* readS(buffer, SSize, true, until).                                       *)

(* Slip: the lock_guard is left out.                                        *)
SReadUnlocked(t) ==
  /\ spc[t] = "idle"
  /\ spc' = [spc EXCEPT ![t] = "read"]
  /\ suntil' \in {[suntil EXCEPT ![t] = u] : u \in BOOLEAN}
  /\ sn' = [sn EXCEPT ![t] = 0]
  /\ UNCHANGED <<lineVars, smutex, sbuffer, sresult, scut>>

SReadS(t) ==
  /\ spc[t] = "idle" /\ smutex = "free"
  /\ smutex' = t
  /\ spc' = [spc EXCEPT ![t] = "read"]
  /\ suntil' \in {[suntil EXCEPT ![t] = u] : u \in BOOLEAN}
  /\ sn' = [sn EXCEPT ![t] = 0]
  /\ UNCHANGED <<lineVars, sbuffer, sresult, scut>>

(* read() has returned the first r bytes of stty.                           *)
SGot(t, r) ==
  LET m == sn[t] + r IN
  /\ sbuffer' = [sbuffer EXCEPT ![t] = [i \in 1 .. SSize |->
                   IF i \in sn[t] + 1 .. m THEN stty[i - sn[t]] ELSE @[i]]]
  /\ stty' = SubSeq(stty, r + 1, Len(stty))
  /\ sn' = [sn EXCEPT ![t] = m]
  /\ spc' = [spc EXCEPT ![t] = IF m = SSize \/ ~suntil[t] THEN "check" ELSE "read"]

SRead(t) ==
  /\ spc[t] = "read" /\ stty # <<>>
  /\ SGot(t, IF Len(stty) < SSize - sn[t] THEN Len(stty) ELSE SSize - sn[t])
  /\ UNCHANGED <<smsg, swritten, sdev, sline, smutex, suntil, sresult, scut>>

(* VTIME is over: read() returns 0.  With read_until the loop goes on.      *)
STimeout(t) ==
  /\ spc[t] = "read" /\ stty = <<>> /\ ~suntil[t]
  /\ SGot(t, 0)
  /\ UNCHANGED <<smsg, swritten, sdev, sline, smutex, suntil, sresult, scut>>

(* check_CRC looks at all SSize bytes, whatever n is.                       *)
SCheck(t) ==
  /\ spc[t] = "check"
  /\ sresult' = [sresult EXCEPT ![t] = IF check_CRC(sbuffer[t]) THEN sn[t] ELSE -1]
  /\ scut' = (scut \/ sn[t] \notin {0, SSize})
  /\ smutex' = IF smutex = t THEN "free" ELSE smutex
  /\ spc' = [spc EXCEPT ![t] = "idle"]
  /\ UNCHANGED <<lineVars, suntil, sn, sbuffer>>

-----------------------------------------------------------------------------
SLine == SWriteS \/ SArrive \/ SDamage \/ SLose
SReadStep(t) == SRead(t) \/ STimeout(t) \/ SCheck(t)
SNext == SLine \/ \E t \in SThreads : SReadS(t) \/ SReadStep(t)

-----------------------------------------------------------------------------
(* Properties.                                                              *)

(* What goes out is a multiple of the generator polynomial, by long         *)
(* division, just when no bit of the frame was changed: table, promoted     *)
(* shifts, swap of bytes and store make up a CRC16 (com_client.cpp:94-102,  *)
(* 105-124, serial_client.cpp:289).                                         *)
FrameIsMultiple ==
  Len(sdev) = SSize =>
    (Remainder(Polynomial(sdev), 8 * SSize) = {} <=> sline = "good" \/ sdev = SFrame)

SIdle(t) == spc[t] = "idle" /\ sn[t] = SSize

(* The bytes of a frame and of the next, from the byte after the k-th, as a *)
(* line that damages has them.                                              *)
STurned(k, buffer) ==
  LET turned == SubSeq(SFrame, k + 1, SSize) \o SubSeq(SFrame, 1, k) IN
  \/ buffer = turned
  \/ /\ sline = "damaged"
     /\ \E i \in 1 .. SSize, b \in Bits8 : buffer = [turned EXCEPT ![i] = Xor(@, {b})]

(* A readS that has got its n bytes returns them as good only if they are a *)
(* frame the device has written, whatever one bit was changed on the line;  *)
(* or if a readS that was cut short has moved the frames' boundaries, and   *)
(* they are the end of one frame and the beginning of the next, which may   *)
(* be a codeword too: that of a message that begins with a byte 0 is        *)
(* (com_client.cpp:64-73, serial_client.cpp:257-275).                       *)
SAcceptedIsFrame ==
  sline # "lossy" => \A t \in SThreads :
    spc[t] = "idle" /\ sresult[t] = SSize =>
      sbuffer[t] = SFrame \/ (scut /\ \E k \in 1 .. SSize - 1 : STurned(k, sbuffer[t]))

(* On a good line, and as long as every readS before has returned a whole   *)
(* frame or nothing, a readS that has got its n bytes has got a frame, and  *)
(* says so, whichever threads read and in whatever pieces the bytes come    *)
(* (serial_client.cpp:253-276).                                             *)
SFramesKept ==
  sline = "good" /\ ~scut => \A t \in SThreads :
    SIdle(t) => sbuffer[t] = SFrame /\ sresult[t] = SSize

-----------------------------------------------------------------------------
(* What the repository says and the code does not do.                       *)

(* "If true, validates the last two bytes as CRC16" (serial_client.hpp:40): *)
(* a readS that returns a number of bytes has checked bytes that arrived.   *)
SCheckedArrived == \A t \in SThreads : spc[t] = "idle" => sresult[t] \in {-1, 0, SSize}
=============================================================================
