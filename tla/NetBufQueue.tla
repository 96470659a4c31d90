---------------------------- MODULE NetBufQueue ----------------------------
(***************************************************************************)
(* What the transmit half of the virtio-net driver promises its caller:    *)
(* frames reach the device in the order of xmit, at most CAP are under way *)
(* and a NetBuf is released once, after the device is done with it.        *)
(***************************************************************************)
EXTENDS Integers, Sequences, FiniteSets

CONSTANTS NetBufs, CAP

VARIABLES
  queue,        \* accepted, in order
  device,       \* being sent
  sent          \* sent and not released

Under == {queue[i] : i \in DOMAIN queue} \cup device \cup sent

Init == queue = <<>> /\ device = {} /\ sent = {}

Accept(p) ==
  /\ p \notin Under
  /\ Cardinality(Under) < CAP
  /\ queue' = Append(queue, p)
  /\ UNCHANGED <<device, sent>>

Transmit ==
  /\ queue # <<>>
  /\ device' = device \cup {Head(queue)}
  /\ queue' = Tail(queue)
  /\ UNCHANGED sent

Complete(p) ==
  /\ p \in device
  /\ device' = device \ {p}
  /\ sent' = sent \cup {p}
  /\ UNCHANGED queue

Release(p) ==
  /\ p \in sent
  /\ sent' = sent \ {p}
  /\ UNCHANGED <<queue, device>>

Next == \/ Transmit
        \/ \E p \in NetBufs : Accept(p) \/ Complete(p) \/ Release(p)

Spec == Init /\ [][Next]_<<queue, device, sent>>
=============================================================================
