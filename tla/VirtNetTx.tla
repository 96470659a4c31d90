----------------------------- MODULE VirtNetTx -----------------------------
(***************************************************************************)
(* The transmit half of the virtio-net driver (drivers/virtio/virtnet.c):  *)
(* LowLevelOutput takes two descriptors from the free list and publishes   *)
(* them in the avail ring; the device takes them from there, sends the     *)
(* frame and hands them back in the used ring; VirtnetTxHandle, in the     *)
(* interrupt, returns them to the free list and frees the NetBuf.          *)
(*                                                                         *)
(* Actors: one sending task (the network stack serialises xmit), the       *)
(* interrupt handler and the device.                                       *)
(***************************************************************************)
EXTENDS Virtq, VirtNetIrq, FiniteSets

CONSTANTS
  TXQ,          \* VIRTQ_TX_QSZ
  NetBufs       \* the upper layer's NetBufs

PER_TX_ENTRIES == 2

ASSUME TxAssumption ==
  /\ TXQ \in Nat \ {0}
  /\ TXQ % PER_TX_ENTRIES = 0
  /\ IDX % TXQ = 0
  /\ NoBuf \notin NetBufs

Descs == 0 .. TXQ - 1

VARIABLES
  desc,         \* vq[1].desc: next index, VIRTQ_DESC_F_NEXT, the NetBuf in pAddr
  tFreeHdr, tFreeNum, tbufRec,
  tAvail,       \* vq[1].avail: ring, index, flag (VIRTQ_AVAIL_F_NO_INTERRUPT)
  tUsed,        \* vq[1].used: ring of ids, index, flag (VIRTQ_USED_F_NO_NOTIFY)
  tLast,        \* vq[1].last: the next used element to handle
  send,         \* the sending task in LowLevelOutput: pc, NetBuf p, head
  held,         \* NetBufs given to xmit and not yet given to NetBufFree
  tDev          \* the device: pc, kick (QueueNotify written), next avail index,
                \* chains taken and not yet used, used but interrupt not decided

txDrvVars == <<desc, tFreeHdr, tFreeNum, tbufRec, tLast, held>>
txVars == <<desc, tFreeHdr, tFreeNum, tbufRec, tAvail, tUsed, tLast, send, held, tDev>>

SendPcs == {"idle", "get", "clear", "fill", "ring", "index", "notify"}

TxTypeOK ==
  /\ desc \in [Descs -> [next : Descs, more : BOOLEAN, buf : NetBufs \cup {NoBuf}]]
  /\ tFreeHdr \in Descs
  /\ tFreeNum \in 0 .. TXQ
  /\ tbufRec \in [Descs -> NetBufs \cup {NoBuf}]
  /\ tAvail \in [ring : [Descs -> Descs], index : Indices, flag : BOOLEAN]
  /\ tUsed \in [ring : [Descs -> Descs], index : Indices, flag : BOOLEAN]
  /\ tLast \in Indices
  /\ send \in [pc : SendPcs, buf : NetBufs \cup {NoBuf}, head : Descs]
  /\ held \subseteq NetBufs
  /\ tDev \in [pc : {"sleep", "run", "recheck"}, kick : BOOLEAN, last : Indices,
               own : SUBSET Descs, intr : BOOLEAN]

(* The DMA area is zeroed, then InitTxFreelist links it.                   *)
TxInit ==
  /\ IrqInit
  /\ desc = [i \in Descs |-> [next |-> IF i < TXQ - 1 THEN i + 1 ELSE 0,
                              more |-> i < TXQ - 1, buf |-> NoBuf]]
  /\ tFreeHdr = 0
  /\ tFreeNum = TXQ
  /\ tbufRec = [i \in Descs |-> NoBuf]
  /\ tAvail = [ring |-> [i \in Descs |-> 0], index |-> 0, flag |-> FALSE]
  /\ tUsed = [ring |-> [i \in Descs |-> 0], index |-> 0, flag |-> FALSE]
  /\ tLast = 0
  /\ send = [pc |-> "idle", buf |-> NoBuf, head |-> 0]
  /\ held = {}
  /\ tDev = [pc |-> "sleep", kick |-> FALSE, last |-> 0, own |-> {}, intr |-> FALSE]

-----------------------------------------------------------------------------
(* The sending task, one action per step another actor can tell apart.     *)

SendStep(from, to) ==
  /\ irqPc = "idle"
  /\ send.pc = from
  /\ send' = [send EXCEPT !.pc = to]

(* the upper layer calls xmit with a NetBuf of its own *)
Xmit(p) ==
  /\ irqPc = "idle"
  /\ send.pc = "idle"
  /\ p \notin held
  /\ send' = [send EXCEPT !.pc = "get", !.buf = p]
  /\ held' = held \cup {p}
  /\ UNCHANGED <<desc, tFreeHdr, tFreeNum, tbufRec, tAvail, tUsed, tLast, tDev, irqVars>>

(* the first free chain after the one at tFreeHdr; stale if there is none *)
NextFree == desc[desc[tFreeHdr].next].next

(* The section under transLock.  With too few entries the task yields and  *)
(* tries again, which changes nothing.                                     *)
HasRoom == tFreeNum >= PER_TX_ENTRIES

GetTxFreeEntry ==
  /\ irqPc = "idle"
  /\ send.pc = "get"
  /\ HasRoom
  /\ tFreeNum' = tFreeNum - PER_TX_ENTRIES
  /\ send' = [send EXCEPT !.pc = "clear", !.head = tFreeHdr]
  /\ tFreeHdr' = NextFree
  /\ UNCHANGED <<desc, tbufRec, tAvail, tUsed, tLast, held, tDev, irqVars>>

(* desc[idx].flag &= ~VIRTQ_DESC_F_NEXT, after the unlock *)
BugClearNext ==
  /\ SendStep("clear", "fill")
  /\ UNCHANGED <<txDrvVars, tAvail, tUsed, tDev, irqVars>>
ClearNext ==
  /\ SendStep("clear", "fill")
  /\ desc' = [desc EXCEPT ![desc[send.head].next].more = FALSE]
  /\ UNCHANGED <<tFreeHdr, tFreeNum, tbufRec, tAvail, tUsed, tLast, held, tDev, irqVars>>

(* tbufRec[] remembers the NetBuf to free when the chain comes back *)
BugRecord(head, idx) == [tbufRec EXCEPT ![head] = send.buf]
Record(head, idx) == [tbufRec EXCEPT ![idx] = send.buf]

(* the header descriptor is the same for every frame: only idx carries data *)
FillDesc ==
  LET idx == desc[send.head].next IN
  /\ SendStep("fill", "ring")
  /\ desc' = [desc EXCEPT ![idx].buf = send.buf]
  /\ tbufRec' = Record(send.head, idx)
  /\ UNCHANGED <<tFreeHdr, tFreeNum, tAvail, tUsed, tLast, held, tDev, irqVars>>

(* ring[index % qsz] = head; the index moves in the next step *)
BugPutAvail ==
  /\ SendStep("ring", "index")
  /\ tAvail' = [tAvail EXCEPT !.ring[Slot(Inc(tAvail.index), TXQ)] = send.head]
  /\ UNCHANGED <<txDrvVars, tUsed, tDev, irqVars>>
PutAvail ==
  /\ SendStep("ring", "index")
  /\ tAvail' = [tAvail EXCEPT !.ring[Slot(tAvail.index, TXQ)] = send.head]
  /\ UNCHANGED <<txDrvVars, tUsed, tDev, irqVars>>

BumpAvail ==
  /\ SendStep("index", "notify")
  /\ tAvail' = [tAvail EXCEPT !.index = Inc(@)]
  /\ UNCHANGED <<txDrvVars, tUsed, tDev, irqVars>>

(* QueueNotify, unless the device asked not to be notified; xmit returns *)
BugMustNotify == tUsed.flag
MustNotify == ~ tUsed.flag

NotifyTx ==
  /\ irqPc = "idle"
  /\ send.pc = "notify"
  /\ send' = [send EXCEPT !.pc = "idle", !.buf = NoBuf]
  /\ tDev' = [tDev EXCEPT !.kick = @ \/ MustNotify]
  /\ UNCHANGED <<txDrvVars, tAvail, tUsed, irqVars>>

Send == GetTxFreeEntry \/ ClearNext \/ FillDesc \/ PutAvail \/ BumpAvail \/ NotifyTx

-----------------------------------------------------------------------------
(* VirtnetTxHandle, in the interrupt                                       *)

BugTxHandleBegin ==
  /\ irqPc = "tx"
  /\ irqPc' = "txDone"
  /\ tAvail' = [tAvail EXCEPT !.flag = TRUE]
  /\ UNCHANGED <<txDrvVars, tUsed, send, tDev, isr>>
TxHandleBegin ==
  /\ irqPc = "tx"
  /\ irqPc' = "txLoop"
  /\ tAvail' = [tAvail EXCEPT !.flag = TRUE]
  /\ UNCHANGED <<txDrvVars, tUsed, send, tDev, isr>>

(* the chain goes back in front of the free list, if there is one *)
BugLinkFreed(idx) == [desc EXCEPT ![idx].next = desc[tFreeHdr].next]
LinkFreed(idx) ==
  IF tFreeNum > 0
  THEN [desc EXCEPT ![idx].next = tFreeHdr, ![idx].more = TRUE]
  ELSE desc

(* one turn of the loop: FreeTxEntry(e->id), NetBufFree, last++ *)
FreeTxEntry ==
  LET head == tUsed.ring[Slot(tLast, TXQ)]
      idx == desc[head].next
  IN
  /\ irqPc = "txLoop"
  /\ tLast # tUsed.index
  /\ desc' = LinkFreed(idx)
  /\ tFreeNum' = tFreeNum + PER_TX_ENTRIES
  /\ tFreeHdr' = head
  /\ held' = held \ {tbufRec[idx]}
  /\ tLast' = Inc(tLast)
  /\ UNCHANGED <<tbufRec, tAvail, tUsed, send, tDev, irqVars>>

TxHandleEmpty ==
  /\ irqPc = "txLoop"
  /\ tLast = tUsed.index
  /\ irqPc' = "txDone"
  /\ UNCHANGED <<txVars, isr>>

(* interrupts on again, without the recheck of VirtnetRxHandle *)
TxHandleEnd ==
  /\ irqPc = "txDone"
  /\ irqPc' = "ack"
  /\ tAvail' = [tAvail EXCEPT !.flag = FALSE]
  /\ UNCHANGED <<txDrvVars, tUsed, send, tDev, isr>>

TxHandle == TxHandleBegin \/ FreeTxEntry \/ TxHandleEmpty \/ TxHandleEnd

-----------------------------------------------------------------------------
(* external: the device's transmit queue, as the driver relies on it.  It   *)
(* asks not to be notified while it drains the avail ring, looks again      *)
(* after it asks to be notified, and may complete frames in any order.      *)

DevTxVars == <<txDrvVars, tAvail, send, irqPc>>

DevTxWake ==
  /\ tDev.pc = "sleep"
  /\ tDev.kick
  /\ tDev' = [tDev EXCEPT !.pc = "run", !.kick = FALSE]
  /\ tUsed' = [tUsed EXCEPT !.flag = TRUE]
  /\ UNCHANGED <<DevTxVars, isr>>

DevTxFetch ==
  /\ tDev.pc = "run"
  /\ tDev.last # tAvail.index
  /\ tDev' = [tDev EXCEPT !.last = Inc(@),
                          !.own = @ \cup {tAvail.ring[Slot(tDev.last, TXQ)]}]
  /\ UNCHANGED <<DevTxVars, tUsed, isr>>

DevTxEmpty ==
  /\ tDev.pc = "run"
  /\ tDev.last = tAvail.index
  /\ tDev' = [tDev EXCEPT !.pc = "recheck"]
  /\ tUsed' = [tUsed EXCEPT !.flag = FALSE]
  /\ UNCHANGED <<DevTxVars, isr>>

DevTxRecheck ==
  /\ tDev.pc = "recheck"
  /\ tDev' = [tDev EXCEPT !.pc = IF tDev.last = tAvail.index THEN "sleep" ELSE "run"]
  /\ tUsed' = [tUsed EXCEPT !.flag = tDev.last # tAvail.index]
  /\ UNCHANGED <<DevTxVars, isr>>

DevTxUse(head) ==
  /\ head \in tDev.own
  /\ tDev' = [tDev EXCEPT !.own = @ \ {head}, !.intr = TRUE]
  /\ tUsed' = [tUsed EXCEPT !.ring[Slot(tUsed.index, TXQ)] = head, !.index = Inc(@)]
  /\ UNCHANGED <<DevTxVars, isr>>

(* after used->index the device reads the driver's no-interrupt flag *)
DevTxIntr ==
  /\ tDev.intr
  /\ tDev' = [tDev EXCEPT !.intr = FALSE]
  /\ IF tAvail.flag THEN UNCHANGED isr ELSE RaiseIsr
  /\ UNCHANGED <<DevTxVars, tUsed>>

DevTx == \/ DevTxWake \/ DevTxFetch \/ DevTxEmpty \/ DevTxRecheck \/ DevTxIntr
         \/ \E head \in tDev.own : DevTxUse(head)

-----------------------------------------------------------------------------
(* Here the receive half shows only as interrupts at any time and as the   *)
(* step of the handler before "tx"; VirtNet composes the real one.         *)

RxElsewhere ==
  /\ \/ irqPc = "rx" /\ irqPc' = "tx" /\ UNCHANGED isr
     \/ RaiseIsr /\ UNCHANGED irqPc
  /\ UNCHANGED txVars

TxNext ==
  \/ \E p \in NetBufs : Xmit(p)
  \/ Send
  \/ TxHandle
  \/ DevTx
  \/ (IrqEnter \/ IrqAck) /\ UNCHANGED txVars
  \/ RxElsewhere

TxSpec == TxInit /\ [][TxNext]_<<txVars, irqVars>>

-----------------------------------------------------------------------------
(* Where the descriptors are                                               *)

(* a packet always occupies an even descriptor and the one after it *)
Heads == {h \in Descs : h % PER_TX_ENTRIES = 0}

(* chains published and not yet taken by the device *)
Posted == Entries(tAvail.ring, tDev.last, tAvail.index, TXQ)

(* chains used by the device and not yet returned to the free list *)
Done == Entries(tUsed.ring, tLast, tUsed.index, TXQ)

InFlight == Posted \cup tDev.own \cup Done

(* the chain the sending task is filling *)
Filling == IF send.pc \in {"clear", "fill", "ring", "index"} THEN {send.head} ELSE {}

(* s is the free list, first chain first *)
IsFreeList(s, n) ==
  /\ tFreeNum = PER_TX_ENTRIES * n
  /\ n > 0 => s[1] = tFreeHdr
  /\ \A i \in 1 .. n - 1 : desc[s[i] + 1].next = s[i + 1]
  /\ \A i, j \in 1 .. n : i # j => s[i] # s[j]

(* s and the chains elsewhere make up all chains, without overlap *)
Partition(s, n) ==
  LET free == {s[i] : i \in 1 .. n} IN
  /\ Heads = free \cup Filling \cup InFlight
  /\ free \cap (Filling \cup InFlight) = {}
  /\ Filling \cap InFlight = {}

(* Every chain is in exactly one place: on the free list, which is acyclic  *)
(* and tFreeNum long, with the sending task, or in flight.                  *)
TxChainsPartitioned ==
  \E n \in 0 .. TXQ : \E s \in [1 .. n -> Heads] : IsFreeList(s, n) /\ Partition(s, n)

(* Of the chains in flight, none is in two rings or twice in one.           *)
TxInFlightOnce ==
  /\ Posted \cap tDev.own = {}
  /\ Posted \cap Done = {}
  /\ tDev.own \cap Done = {}
  /\ NoRepeat(tAvail.ring, tDev.last, tAvail.index, TXQ)
  /\ NoRepeat(tUsed.ring, tLast, tUsed.index, TXQ)

(* What the device may read: two descriptors, the second the last one, with *)
(* a NetBuf nobody has freed.  (VirtnetIRQhandle may free others meanwhile.) *)
TxDeviceReadsWhole ==
  \A h \in Posted \cup tDev.own :
    /\ desc[h].more /\ desc[h].next = h + 1
    /\ ~ desc[h + 1].more
    /\ desc[h + 1].buf \in held

(* "we record outgoing NetBuf and free it when QEMU done": the NetBufs the   *)
(* driver holds are those on chains in flight, each on one, and the one in  *)
(* xmit: none is forgotten, none is freed twice.                            *)
TxNetBufsAccounted ==
  LET rec == {tbufRec[h + 1] : h \in InFlight}
      cur == IF send.pc \in {"idle", "notify"} THEN {} ELSE {send.buf}
  IN /\ held = rec \cup cur
     /\ rec \cap cur = {}
     /\ \A g, h \in InFlight : tbufRec[g + 1] = tbufRec[h + 1] => g = h

(* What makes these inductive: no step ever changes a chain's own link; how  *)
(* far the chain being filled has got; what a chain in flight looks like;    *)
(* and the count, which keeps the rings from overflowing.                    *)
TxPairsIntact == \A h \in Heads : desc[h].next = h + 1 /\ desc[h].more

TxSendProgress ==
  LET idx == send.head + 1 IN
  /\ send.pc \notin {"idle", "notify"} => send.buf # NoBuf
  /\ send.pc \in {"fill", "ring", "index"} => ~ desc[idx].more
  /\ send.pc \in {"ring", "index"} => desc[idx].buf = send.buf /\ tbufRec[idx] = send.buf
  /\ send.pc = "index" => tAvail.ring[Slot(tAvail.index, TXQ)] = send.head

TxInFlightRecorded ==
  \A h \in InFlight : ~ desc[h + 1].more /\ desc[h + 1].buf = tbufRec[h + 1]

TxCounted ==
  LET filling == IF Filling = {} THEN 0 ELSE 1
      rings == Dist(tDev.last, tAvail.index) + Dist(tLast, tUsed.index)
  IN TXQ = tFreeNum + PER_TX_ENTRIES * (filling + rings + Cardinality(tDev.own))

TxInductive ==
  /\ TxTypeOK
  /\ IrqTypeOK
  /\ TxChainsPartitioned
  /\ TxInFlightOnce
  /\ TxNetBufsAccounted
  /\ TxPairsIntact
  /\ TxSendProgress
  /\ TxInFlightRecorded
  /\ TxCounted

(* A device that sleeps is woken: xmit publishes before it reads the        *)
(* device's flag, so what it published has a notification pending or ahead. *)
TxNoLostKick ==
  (tDev.pc = "sleep" /\ tDev.last # tAvail.index) => tDev.kick \/ send.pc = "notify"

(* VirtnetTxHandle does not recheck and the handler acknowledges last: it   *)
(* leaves chains behind, with their NetBufs.  The next interrupt makes that *)
(* good: as long as interrupts come, all the device is done with is freed.  *)
TxNextInterruptRecovers == []<>(irqPc = "tx") => []<>(tLast = tUsed.index)

-----------------------------------------------------------------------------
(* The promise to the caller: the avail ring, seen through the descriptors  *)
(* as the device sees it, is the queue of NetBufQueue.                      *)
Payload(head) == desc[desc[head].next].buf

Accepted == [k \in 1 .. Dist(tDev.last, tAvail.index) |->
               Payload(tAvail.ring[Slot((tDev.last + k - 1) % IDX, TXQ)])]
Sending == {Payload(h) : h \in tDev.own}
Sent == {tbufRec[desc[h].next] : h \in Done}

Queue == INSTANCE NetBufQueue WITH
  CAP <- TXQ \div PER_TX_ENTRIES, queue <- Accepted, device <- Sending, sent <- Sent

ImplementsNetBufQueue == Queue!Spec

(* for TLC: the packets are interchangeable *)
LOCAL INSTANCE TLC
Symm == Permutations(NetBufs)
=============================================================================
