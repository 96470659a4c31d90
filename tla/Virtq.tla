------------------------------- MODULE Virtq -------------------------------
(***************************************************************************)
(* The indices of a split virtqueue (struct Virtq, drivers/virtio/         *)
(* virtmmio.h).  avail->index, used->index and q->last are free-running    *)
(* uint16_t counters; every access to a ring takes them modulo the queue   *)
(* size.                                                                   *)
(***************************************************************************)
EXTENDS Integers

CONSTANT IDX    \* number of values of an index: 2^16 in the code

ASSUME IdxAssumption == IDX \in Nat \ {0}

Indices == 0 .. IDX - 1

(* index++ on a uint16_t *)
Inc(i) == (i + 1) % IDX

(* index - other, as the uint16_t it is stored in *)
Dist(from, to) == (to - from) % IDX

(* ring[i % qsz] *)
Slot(i, qsz) == i % qsz

(* the indices from (included) .. to (excluded), wrapping around *)
Window(from, to) == {i \in Indices : Dist(from, i) < Dist(from, to)}

(* the ring entries a reader that is at `from` finds before it is at `to` *)
Entries(ring, from, to, qsz) == {ring[Slot(i, qsz)] : i \in Window(from, to)}

(* none of these entries is there twice *)
NoRepeat(ring, from, to, qsz) ==
  \A i, j \in Window(from, to) :
    ring[Slot(i, qsz)] = ring[Slot(j, qsz)] => i = j
=============================================================================
