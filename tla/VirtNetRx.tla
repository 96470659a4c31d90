----------------------------- MODULE VirtNetRx -----------------------------
(***************************************************************************)
(* The receive half of the virtio-net driver (drivers/virtio/virtnet.c):   *)
(* a fixed buffer per descriptor.  The device fills the buffers it finds   *)
(* in the avail ring and returns them in the used ring; VirtnetRxHandle,   *)
(* in the interrupt, copies each into a NetBuf for the upper layer and     *)
(* puts the buffer back into the avail ring.                               *)
(*                                                                         *)
(* Actors: the task that brings the device up, the interrupt handler and   *)
(* the device.                                                             *)
(***************************************************************************)
EXTENDS Virtq, VirtNetIrq

CONSTANTS
  RXQ,          \* VIRTQ_RX_QSZ
  Frames        \* what may arrive from the wire

ASSUME RxAssumption ==
  /\ RXQ \in Nat \ {0}
  /\ IDX % RXQ = 0
  /\ IDX > RXQ
  /\ NoBuf \notin Frames

Bufs == 0 .. RXQ - 1

VARIABLES
  rbuf,         \* contents of nic->rbuf[]
  rAvail,       \* vq[0].avail: ring of ids, index, flag (VIRTQ_AVAIL_F_NO_INTERRUPT)
  rUsed,        \* vq[0].used: ring of ids, index, flag (VIRTQ_USED_F_NO_NOTIFY)
  rLast,        \* vq[0].last: the next used element to handle
  add,          \* buffers put back and not yet published
  passed,       \* the last NetBuf given to NetIfRx, NoBuf when it was dropped
  started,      \* VirtNetDeviceInit has published the buffers
  rDev          \* the device: pc, kick (QueueNotify written), next avail index,
                \* the buffer being filled, what became of the interrupt for
                \* the last buffer used

rxDrvVars == <<rLast, add, passed, started>>
rxVars == <<rbuf, rAvail, rUsed, rLast, add, passed, started, rDev>>

RxTypeOK ==
  /\ rbuf \in [Bufs -> Frames \cup {NoBuf}]
  /\ rAvail \in [ring : [Bufs -> Bufs], index : Indices, flag : BOOLEAN]
  /\ rUsed \in [ring : [Bufs -> Bufs], index : Indices, flag : BOOLEAN]
  /\ rLast \in Indices
  /\ add \in 0 .. RXQ
  /\ passed \in Frames \cup {NoBuf}
  /\ started \in BOOLEAN
  /\ rDev \in [pc : {"sleep", "run", "recheck"}, kick : BOOLEAN, last : Indices,
               cur : SUBSET Bufs, intr : {"none", "due", "raised", "suppressed"}]

(* PopulateRxBuffer: ring[i] = i, nothing published yet *)
RxInit ==
  /\ IrqInit
  /\ rbuf = [i \in Bufs |-> NoBuf]
  /\ rAvail = [ring |-> [i \in Bufs |-> i], index |-> 0, flag |-> FALSE]
  /\ rUsed = [ring |-> [i \in Bufs |-> 0], index |-> 0, flag |-> FALSE]
  /\ rLast = 0
  /\ add = 0
  /\ passed = NoBuf
  /\ started = FALSE
  /\ rDev = [pc |-> "sleep", kick |-> FALSE, last |-> 0, cur |-> {}, intr |-> "none"]

(* the index the next buffer is put back at: avail->index + add *)
PutAt == (rAvail.index + add) % IDX

KickRx == rDev' = [rDev EXCEPT !.kick = @ \/ ~ rUsed.flag]

-----------------------------------------------------------------------------
(* "everything is ready, now notify device the receive buffers"            *)
RxStart ==
  /\ irqPc = "idle"
  /\ ~ started
  /\ started' = TRUE
  /\ rAvail' = [rAvail EXCEPT !.index = RXQ]
  /\ rDev' = [rDev EXCEPT !.kick = TRUE]
  /\ UNCHANGED <<rbuf, rUsed, rLast, add, passed, irqVars>>

-----------------------------------------------------------------------------
(* VirtnetRxHandle, in the interrupt                                       *)

BugRxHandleBegin ==
  /\ irqPc = "rx"
  /\ irqPc' = "rxPost"
  /\ add' = 0
  /\ UNCHANGED <<rbuf, rAvail, rUsed, rLast, passed, started, rDev, isr>>
RxHandleBegin ==
  /\ irqPc = "rx"
  /\ irqPc' = "rxLoop"
  /\ add' = 0
  /\ rAvail' = [rAvail EXCEPT !.flag = TRUE]
  /\ UNCHANGED <<rbuf, rUsed, rLast, passed, started, rDev, isr>>

(* on to the next used element *)
BugTakeSkips == rLast' = Inc(Inc(rLast)) /\ UNCHANGED irqPc
TakeNext == rLast' = Inc(rLast) /\ UNCHANGED irqPc

(* what is put back: the buffer, behind those already there, unpublished *)
PutBack(id) ==
  /\ rAvail' = [rAvail EXCEPT !.ring[Slot(PutAt, RXQ)] = id]
  /\ add' = add + 1

(* the loop goes on while there are used elements *)
RxPending == rLast # rUsed.index

(* One turn of the loop: LowLevelInput copies the frame into a NetBuf, which *)
(* NetIfRx takes; either may fail and the frame is dropped.  The buffer goes *)
(* back into the ring behind those already there.                            *)
RxTake ==
  LET id == rUsed.ring[Slot(rLast, RXQ)] IN
  /\ irqPc = "rxLoop"
  /\ RxPending
  /\ passed' \in {rbuf[id], NoBuf}
  /\ PutBack(id)
  /\ TakeNext
  /\ UNCHANGED <<rbuf, rUsed, started, rDev, isr>>

RxEmpty ==
  /\ irqPc = "rxLoop"
  /\ rLast = rUsed.index
  /\ irqPc' = "rxEnable"
  /\ UNCHANGED <<rxVars, isr>>

RxEnable ==
  /\ irqPc = "rxEnable"
  /\ irqPc' = "rxRecheck"
  /\ rAvail' = [rAvail EXCEPT !.flag = FALSE]
  /\ UNCHANGED <<rbuf, rUsed, rxDrvVars, rDev, isr>>

(* "recheck if new one come in between empty ring and enable interrupt" *)
RxRecheck ==
  /\ irqPc = "rxRecheck"
  /\ IF rLast = rUsed.index
     THEN irqPc' = "rxPost" /\ UNCHANGED rAvail
     ELSE irqPc' = "rxLoop" /\ rAvail' = [rAvail EXCEPT !.flag = TRUE]
  /\ UNCHANGED <<rbuf, rUsed, rxDrvVars, rDev, isr>>

BugRxPost ==
  /\ irqPc = "rxPost"
  /\ irqPc' = "rxNotify"
  /\ rAvail' = [rAvail EXCEPT !.index = IF add > 0 THEN Inc(@) ELSE @]
  /\ add' = 0
  /\ UNCHANGED <<rbuf, rUsed, rLast, passed, started, rDev, isr>>
RxPost ==
  /\ irqPc = "rxPost"
  /\ irqPc' = "rxNotify"
  /\ rAvail' = [rAvail EXCEPT !.index = PutAt]
  /\ add' = 0
  /\ UNCHANGED <<rbuf, rUsed, rLast, passed, started, rDev, isr>>

RxNotify ==
  /\ irqPc = "rxNotify"
  /\ irqPc' = "tx"
  /\ KickRx
  /\ UNCHANGED <<rbuf, rAvail, rUsed, rxDrvVars, isr>>

RxHandle == RxHandleBegin \/ RxTake \/ RxEmpty \/ RxEnable \/ RxRecheck \/ RxPost \/ RxNotify

-----------------------------------------------------------------------------
(* external: the device's receive queue.  It fills buffers one at a time,   *)
(* in the order of the avail ring.  When it finds none it asks to be        *)
(* notified, looks again, and sleeps until QueueNotify is written.          *)

DevRxWake ==
  /\ rDev.pc = "sleep"
  /\ rDev.kick
  /\ rDev' = [rDev EXCEPT !.pc = "run", !.kick = FALSE]
  /\ rUsed' = [rUsed EXCEPT !.flag = TRUE]
  /\ UNCHANGED <<rbuf, rAvail, rxDrvVars, irqVars>>

DevRxFill(f) ==
  /\ rDev.pc = "run"
  /\ rDev.cur = {}
  /\ rDev.last # rAvail.index
  /\ LET id == rAvail.ring[Slot(rDev.last, RXQ)] IN
     /\ rbuf' = [rbuf EXCEPT ![id] = f]
     /\ rDev' = [rDev EXCEPT !.cur = {id}, !.last = Inc(@)]
  /\ UNCHANGED <<rAvail, rUsed, rxDrvVars, irqVars>>

DevRxUse ==
  \E id \in rDev.cur :
    /\ rUsed' = [rUsed EXCEPT !.ring[Slot(rUsed.index, RXQ)] = id, !.index = Inc(@)]
    /\ rDev' = [rDev EXCEPT !.cur = {}, !.intr = "due"]
    /\ UNCHANGED <<rbuf, rAvail, rxDrvVars, irqVars>>

DevRxIntr ==
  /\ rDev.intr = "due"
  /\ rDev' = [rDev EXCEPT !.intr = IF rAvail.flag THEN "suppressed" ELSE "raised"]
  /\ IF rAvail.flag THEN UNCHANGED isr ELSE RaiseIsr
  /\ UNCHANGED <<rbuf, rAvail, rUsed, rxDrvVars, irqPc>>

DevRxEmpty ==
  /\ rDev.pc = "run"
  /\ rDev.last = rAvail.index
  /\ rDev' = [rDev EXCEPT !.pc = "recheck"]
  /\ rUsed' = [rUsed EXCEPT !.flag = FALSE]
  /\ UNCHANGED <<rbuf, rAvail, rxDrvVars, irqVars>>

DevRxRecheck ==
  /\ rDev.pc = "recheck"
  /\ rDev' = [rDev EXCEPT !.pc = IF rDev.last = rAvail.index THEN "sleep" ELSE "run"]
  /\ rUsed' = [rUsed EXCEPT !.flag = rDev.last # rAvail.index]
  /\ UNCHANGED <<rbuf, rAvail, rxDrvVars, irqVars>>

DevRx == \/ DevRxWake \/ DevRxUse \/ DevRxIntr \/ DevRxEmpty \/ DevRxRecheck
         \/ \E f \in Frames : DevRxFill(f)

-----------------------------------------------------------------------------
(* Here the transmit half shows only as interrupts at any time and as the  *)
(* step of the handler after "tx"; VirtNet composes the real one.          *)
TxElsewhere ==
  /\ \/ irqPc = "tx" /\ irqPc' = "ack" /\ UNCHANGED isr
     \/ RaiseIsr /\ UNCHANGED irqPc
  /\ UNCHANGED rxVars

RxNext ==
  \/ RxStart
  \/ RxHandle
  \/ DevRx
  \/ (IrqEnter \/ IrqAck) /\ UNCHANGED rxVars
  \/ TxElsewhere

RxSpec == RxInit /\ [][RxNext]_<<rxVars, irqVars>>

-----------------------------------------------------------------------------
(* Where the buffers are                                                   *)

(* Every receive buffer is in exactly one place: in the avail ring, with   *)
(* the device or in the used ring, and no ring holds one twice; so a       *)
(* buffer is never filled while VirtnetRxHandle copies it.                 *)
RxBuffersPartitioned ==
  LET avail == Entries(rAvail.ring, rDev.last, PutAt, RXQ)
      used == Entries(rUsed.ring, rLast, rUsed.index, RXQ)
  IN started =>
     /\ Bufs = avail \cup rDev.cur \cup used
     /\ avail \cap rDev.cur = {} /\ avail \cap used = {} /\ rDev.cur \cap used = {}
     /\ NoRepeat(rAvail.ring, rDev.last, PutAt, RXQ)
     /\ NoRepeat(rUsed.ring, rLast, rUsed.index, RXQ)

(* A device that sleeps on an empty ring is woken: buffers are published   *)
(* before the flag is read, so a notification is pending or about to be.   *)
RxNoLostKick ==
  (rDev.pc = "sleep" /\ rDev.last # rAvail.index) => rDev.kick \/ irqPc = "rxNotify"

(* The recheck closes the window between the empty ring and the enabled    *)
(* interrupt: once VirtnetRxHandle has left its loop, the device does not  *)
(* stay silent about a buffer the loop has not seen.                       *)
RxRecheckCatches ==
  (irqPc \in {"rxPost", "rxNotify", "tx", "idle"} /\ rLast # rUsed.index)
     => rDev.intr \in {"due", "raised"}

(* Where every receive buffer is, and why the device wakes up for it.      *)
RxInvariant == RxTypeOK /\ RxBuffersPartitioned /\ RxNoLostKick /\ RxRecheckCatches

(* What makes these inductive.  Before the start nothing moves; afterwards   *)
(* the places add up to all buffers, which keeps both rings from            *)
(* overflowing; the handler publishes all it puts back before it leaves;    *)
(* the device fills one buffer at a time.                                   *)
RxUnstarted ==
  ~ started =>
    /\ rAvail.index = 0 /\ add = 0 /\ rDev.last = 0 /\ rDev.cur = {}
    /\ rLast = 0 /\ rUsed.index = 0
    /\ \A i \in Bufs : rAvail.ring[i] = i

RxCounted ==
  LET filling == IF rDev.cur = {} THEN 0 ELSE 1
      avail == Dist(rDev.last, rAvail.index) + add
  IN started => RXQ = avail + filling + Dist(rLast, rUsed.index)

RxOneByOne == \A b, c \in rDev.cur : b = c

RxFilled ==
  LET used == Entries(rUsed.ring, rLast, rUsed.index, RXQ)
  IN \A b \in rDev.cur \cup used : rbuf[b] \in Frames

(* the handler's own state: where it has something to publish, and where it *)
(* does not want to be interrupted                                          *)
RxHandlerState ==
  /\ irqPc \notin {"rxLoop", "rxEnable", "rxRecheck", "rxPost"} => add = 0
  /\ rAvail.flag <=> irqPc \in {"rxLoop", "rxEnable"}

(* only a device that runs asks not to be notified *)
RxAsksWhenIdle == rDev.pc # "run" => ~ rUsed.flag

(* RxRecheckCatches, also in the part of the handler that is not about it  *)
RxCaught ==
  (irqPc \notin {"rx", "rxLoop", "rxEnable", "rxRecheck"} /\ rLast # rUsed.index)
     => rDev.intr \in {"due", "raised"}

RxInductive ==
  /\ RxTypeOK
  /\ IrqTypeOK
  /\ RxBuffersPartitioned
  /\ RxUnstarted
  /\ RxCounted
  /\ RxOneByOne
  /\ RxFilled
  /\ RxHandlerState
  /\ RxAsksWhenIdle
  /\ RxNoLostKick
  /\ RxCaught

(* "recheck if new one come in between empty ring and enable interrupt": no *)
(* received frame is left behind.  Whenever a task runs, a used buffer not  *)
(* handled yet has its interrupt pending or about to be raised.             *)
RxNoLostInterrupt ==
  (irqPc = "idle" /\ rLast # rUsed.index) => isr \/ rDev.intr = "due"

(* A frame left behind by a lost interrupt is handled at the next one.      *)
RxNextInterruptRecovers == []<>(irqPc = "rx") => []<>(rLast = rUsed.index)

-----------------------------------------------------------------------------
(* The promise to the upper layer: the used ring, with the contents of the  *)
(* buffers it names, is the queue of FrameFifo.                             *)
Arrived == [k \in 1 .. Dist(rLast, rUsed.index) |->
              rbuf[rUsed.ring[Slot((rLast + k - 1) % IDX, RXQ)]]]

Fifo == INSTANCE FrameFifo WITH CAP <- RXQ, None <- NoBuf, arrived <- Arrived

ImplementsFrameFifo == Fifo!Spec
=============================================================================
