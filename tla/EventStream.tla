---------------------------- MODULE EventStream ----------------------------
(***************************************************************************)
(* What an input driver promises the input subsystem: the events of the    *)
(* device, each reported once, unaltered and in order, except those        *)
(* dropped for want of memory.                                             *)
(***************************************************************************)
EXTENDS Naturals, Sequences, SequencesExt

CONSTANTS Values, CAP, None

VARIABLES
  pending,      \* received and not yet reported
  reported      \* the last event reported

streamVars == <<pending, reported>>

StreamInit == pending = <<>> /\ reported = None

Receive(v) ==
  /\ Len(pending) < CAP
  /\ pending' = Append(pending, v)
  /\ UNCHANGED reported

Report ==
  /\ pending # <<>>
  /\ reported' = Head(pending)
  /\ pending' = Tail(pending)

Drop(k) ==
  /\ pending' = RemoveAt(pending, k)
  /\ UNCHANGED reported

StreamNext ==
  \/ \E v \in Values : Receive(v)
  \/ Report
  \/ \E k \in DOMAIN pending : Drop(k)

StreamSpec == StreamInit /\ [][StreamNext]_streamVars
=============================================================================
