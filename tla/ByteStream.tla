----------------------------- MODULE ByteStream -----------------------------
(***************************************************************************)
(* What a serial port promises the one task that reads it: the bytes that  *)
(* were accepted, each once and in order.  Bytes may be refused only when  *)
(* they arrive, and are thrown away only when the port is closed.          *)
(***************************************************************************)
EXTENDS Naturals, Sequences, SequencesExt

CONSTANTS Bytes, CAP

VARIABLES
  stream,       \* accepted and not yet read
  taken         \* what the read returned, until the next one

streamVars == <<stream, taken>>

Init == stream = <<>> /\ taken = <<>>

Arrive(b) ==
  /\ Len(stream) + Len(b) <= CAP
  /\ stream' = stream \o b
  /\ UNCHANGED taken

Call == taken' = <<>> /\ UNCHANGED stream

Take(k) ==
  /\ taken' = SubSeq(stream, 1, k)
  /\ stream' = SubSeq(stream, k + 1, Len(stream))

Close == stream' = <<>> /\ UNCHANGED taken

Next ==
  \/ \E b \in BoundedSeq(Bytes, CAP) : Arrive(b)
  \/ Call
  \/ \E k \in 0 .. Len(stream) : Take(k)
  \/ Close

Spec == Init /\ [][Next]_streamVars
=============================================================================
