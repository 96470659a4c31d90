------------------------------ MODULE RvVirtNet ------------------------------
(***************************************************************************)
(* The virtio-net driver of the riscv32_virt board (LiteOS-M, lwIP;        *)
(* board/driver/virtnet.c).  Unlike drivers/virtio/virtnet.c it copies     *)
(* nothing: a packet takes a chain of as many descriptors as it has parts, *)
(* and one for the header, from a linked free list; a received buffer is   *)
(* lent to the stack as it is and comes back when the application frees it. *)
(*                                                                         *)
(* Actors: the one task that sends (lwIP's), the tasks that free received  *)
(* buffers, the interrupt handler, which no task preempts, and the device. *)
(* VirtNetTx and VirtNetRx count ring indices modulo their width; here a   *)
(* ring is the sequence of what was put in and not yet taken out.          *)
(***************************************************************************)
EXTENDS Integers, Sequences, SequencesExt

CONSTANTS
  TXQ, RXQ,     \* VIRTMMIO_NETIF_DFT_TXQSZ and RXQSZ
  Packets, NoPbuf,
  MaxFreers     \* bound: tasks in ReleaseRxEntry at a time

VARIABLES
  txFree,       \* tFreeHdr and tFreeNum
  txDesc,       \* vq[1].desc[]: next, the NEXT flag, and what it points at
  tbufRec,      \* tbufRec[]
  sender,       \* how far LowLevelOutput is, and its locals
  txRing,       \* vq[1]: heads available and used, and NO_INTERRUPT
  txDev,        \* the chain the device works on, and its interrupt
  txHeld,       \* the pbufs the driver has a reference to
  rxRing,       \* vq[0]: ids available and used, NO_INTERRUPT, and NO_NOTIFY
  rxDev,        \* the device: pc, notified, the buffer it fills, interrupt
  lent,         \* the buffers the stack or an application holds
  freers,       \* tasks of ReleaseRxEntry that have still to notify
  nic,          \* the interrupt status bit, and where VirtnetIRQhandle is
  late          \* the queues with an interrupt swallowed since the handler began

rvTxVars == <<txFree, txDesc, tbufRec, sender, txRing, txDev, txHeld>>
rvRxVars == <<rxRing, rxDev, lent, freers>>
rvNetVars == <<rvTxVars, rvRxVars, nic, late>>

TxIds == 0 .. TXQ - 1
RxIds == 0 .. RXQ - 1
Idle == [at |-> "idle", pbuf |-> NoPbuf, count |-> 0, head |-> 0, tail |-> 0]

(* InitTxFreelist, ConfigRxBuffer, and the end of LowLevelInit *)
RvNetInit ==
  /\ txFree = [hdr |-> 0, num |-> TXQ]
  /\ txDesc = [i \in TxIds |-> IF i < TXQ - 1 THEN [next |-> i + 1, more |-> TRUE, of |-> NoPbuf]
                               ELSE [next |-> 0, more |-> FALSE, of |-> NoPbuf]]
  /\ tbufRec = [i \in TxIds |-> [head |-> NoPbuf, count |-> 0, tail |-> 0]]
  /\ sender = Idle
  /\ txRing = [avail |-> <<>>, used |-> <<>>, quiet |-> FALSE]
  /\ txDev = [cur |-> <<>>, intr |-> "none"]
  /\ txHeld = {}
  /\ rxRing = [avail |-> [k \in 1 .. RXQ |-> k - 1], used |-> <<>>, quiet |-> FALSE, busy |-> FALSE]
  /\ rxDev = [pc |-> "sleep", kick |-> TRUE, cur |-> <<>>, intr |-> "none"]
  /\ lent = {}
  /\ freers = 0
  /\ nic = [isr |-> FALSE, at |-> "idle"]
  /\ late = {}

TaskRuns == nic.at = "idle"

(* the descriptor k links after head *)
Nth(head, k) ==
  LET after[j \in 0 .. TXQ] == IF j = 0 THEN head ELSE txDesc[after[j - 1]].next
  IN after[k]

Span(head, n) == {Nth(head, k) : k \in 0 .. n - 1}

----------------------------------------------------------------------------
(* LowLevelOutput: a packet of n parts takes n + 1 descriptors.  The stack  *)
(* does not send a pbuf again that the driver still refers to.              *)
LowLevelOutput(p, n) ==
  /\ TaskRuns
  /\ sender = Idle
  /\ p \notin txHeld
  /\ n + 1 <= TXQ
  /\ sender' = [Idle EXCEPT !.at = "get", !.pbuf = p, !.count = n + 1]
  /\ UNCHANGED <<txFree, txDesc, tbufRec, txRing, txDev, txHeld, rvRxVars, nic, late>>

(* under transLock; with too few free it yields and tries again *)
GetTxFreeEntry ==
  /\ TaskRuns
  /\ sender.at = "get"
  /\ sender.count <= txFree.num
  /\ txFree' = [hdr |-> Nth(txFree.hdr, sender.count), num |-> txFree.num - sender.count]
  /\ sender' = [sender EXCEPT !.at = "clear", !.head = txFree.hdr,
                              !.tail = Nth(txFree.hdr, sender.count - 1)]
  /\ UNCHANGED <<txDesc, tbufRec, txRing, txDev, txHeld, rvRxVars, nic, late>>

ClearNext ==
  /\ TaskRuns
  /\ sender.at = "clear"
  /\ sender' = [sender EXCEPT !.at = "fill"]
  /\ txDesc' = [txDesc EXCEPT ![sender.tail].more = FALSE]
  /\ UNCHANGED <<txFree, tbufRec, txRing, txDev, txHeld, rvRxVars, nic, late>>

(* the record goes with the second descriptor, the pbuf gets a reference *)
Fill ==
  /\ TaskRuns
  /\ sender.at = "fill"
  /\ sender' = [sender EXCEPT !.at = "post"]
  /\ txDesc' = [i \in TxIds |->
       IF i = sender.head THEN [txDesc[i] EXCEPT !.of = "vnHdr"]
       ELSE IF i \in Span(sender.head, sender.count) THEN [txDesc[i] EXCEPT !.of = sender.pbuf]
       ELSE txDesc[i]]
  /\ tbufRec' = [tbufRec EXCEPT ![Nth(sender.head, 1)] =
       [head |-> sender.pbuf, count |-> sender.count, tail |-> Nth(sender.head, sender.count - 1)]]
  /\ txHeld' = txHeld \cup {sender.pbuf}
  /\ UNCHANGED <<txFree, txRing, txDev, rvRxVars, nic, late>>

(* the notification is unconditional: the device may look from now on *)
Post ==
  /\ TaskRuns
  /\ sender.at = "post"
  /\ sender' = Idle
  /\ txRing' = [txRing EXCEPT !.avail = Append(@, sender.head)]
  /\ UNCHANGED <<txFree, txDesc, tbufRec, txDev, txHeld, rvRxVars, nic, late>>

----------------------------------------------------------------------------
(* a received buffer back into the ring, by whoever frees its pbuf *)
PutRx(id) == rxRing' = [rxRing EXCEPT !.avail = Append(@, id)]
KickRx == rxDev' = [rxDev EXCEPT !.kick = @ \/ ~rxRing.busy]

(* ReleaseRxEntry in a task: the ring under recvLock, the flag after it *)
ReleaseRxEntry(id) ==
  /\ TaskRuns
  /\ id \in lent
  /\ freers < MaxFreers
  /\ PutRx(id)
  /\ lent' = lent \ {id}
  /\ freers' = freers + 1
  /\ UNCHANGED <<rvTxVars, rxDev, nic, late>>

ReleaseNotify ==
  /\ TaskRuns
  /\ freers > 0
  /\ freers' = freers - 1
  /\ KickRx
  /\ UNCHANGED <<rvTxVars, rxRing, lent, nic, late>>

----------------------------------------------------------------------------
(* VirtnetIRQhandle: reception, then transmission, then the acknowledgement *)
Goto(l) == nic' = [nic EXCEPT !.at = l]

IrqEnter ==
  /\ nic.at = "idle" /\ nic.isr
  /\ Goto("rx")
  /\ late' = {}
  /\ UNCHANGED <<rvTxVars, rvRxVars>>

RxOff ==
  /\ nic.at = "rx" /\ Goto("rxLoop")
  /\ rxRing' = [rxRing EXCEPT !.quiet = TRUE]
  /\ UNCHANGED <<rvTxVars, rxDev, lent, freers, late>>

(* LowLevelInput makes a pbuf of the buffer and the stack takes it *)
RxInput ==
  /\ nic.at = "rxLoop" /\ rxRing.used # <<>>
  /\ lent' = lent \cup {Head(rxRing.used)}
  /\ rxRing' = [rxRing EXCEPT !.used = Tail(@)]
  /\ UNCHANGED <<rvTxVars, rxDev, freers, nic, late>>

(* or does not: the handler itself releases the buffer, and only then goes *)
(* on to the next element of the used ring                                 *)
RxRefused ==
  /\ nic.at = "rxLoop" /\ rxRing.used # <<>>
  /\ Goto("rxKick")
  /\ PutRx(Head(rxRing.used))
  /\ UNCHANGED <<rvTxVars, rxDev, lent, freers, late>>

RxRefusedNotify ==
  /\ nic.at = "rxKick" /\ Goto("rxLoop")
  /\ KickRx
  /\ rxRing' = [rxRing EXCEPT !.used = Tail(@)]
  /\ UNCHANGED <<rvTxVars, lent, freers, late>>

RxOn ==
  /\ nic.at = "rxLoop" /\ rxRing.used = <<>>
  /\ Goto("rxEnable")
  /\ UNCHANGED <<rvTxVars, rvRxVars, late>>

RxEnable ==
  /\ nic.at = "rxEnable" /\ Goto("rxRecheck")
  /\ rxRing' = [rxRing EXCEPT !.quiet = FALSE]
  /\ UNCHANGED <<rvTxVars, rxDev, lent, freers, late>>

(* "recheck if new one come in between empty ring and enable interrupt" *)
BugRxRecheck ==
  /\ nic.at = "rxRecheck"
  /\ Goto("tx") /\ UNCHANGED <<rvTxVars, rvRxVars, late>>
RxRecheck ==
  /\ nic.at = "rxRecheck"
  /\ IF rxRing.used = <<>> THEN Goto("tx") /\ UNCHANGED <<rxRing, late>>
     ELSE /\ Goto("rxLoop")
          /\ rxRing' = [rxRing EXCEPT !.quiet = TRUE]
          /\ late' = late \ {"rx"}
  /\ UNCHANGED <<rvTxVars, rxDev, lent, freers>>

TxOff ==
  /\ nic.at = "tx" /\ Goto("txLoop")
  /\ txRing' = [txRing EXCEPT !.quiet = TRUE]
  /\ UNCHANGED <<txFree, txDesc, tbufRec, sender, txDev, txHeld, rvRxVars, late>>

(* FreeTxEntry: the chain before those that are free, if there are any, and *)
(* its pbuf back to the stack                                               *)
FreeTxEntry ==
  LET head == Head(txRing.used)
      rec == tbufRec[txDesc[head].next]
  IN /\ nic.at = "txLoop" /\ txRing.used # <<>>
     /\ txDesc' = IF txFree.num = 0 THEN txDesc
                  ELSE [txDesc EXCEPT ![rec.tail].next = txFree.hdr, ![rec.tail].more = TRUE]
     /\ txFree' = [hdr |-> head, num |-> txFree.num + rec.count]
     /\ txHeld' = txHeld \ {rec.head}
     /\ txRing' = [txRing EXCEPT !.used = Tail(@)]
     /\ UNCHANGED <<tbufRec, sender, txDev, rvRxVars, nic, late>>

TxEmpty ==
  /\ nic.at = "txLoop" /\ txRing.used = <<>>
  /\ Goto("txEnable")
  /\ UNCHANGED <<rvTxVars, rvRxVars, late>>

TxEnable ==
  /\ nic.at = "txEnable" /\ Goto("ack")
  /\ txRing' = [txRing EXCEPT !.quiet = FALSE]
  /\ UNCHANGED <<txFree, txDesc, tbufRec, sender, txDev, txHeld, rvRxVars, late>>

Ack ==
  /\ nic.at = "ack"
  /\ nic' = [isr |-> FALSE, at |-> "idle"]
  /\ UNCHANGED <<rvTxVars, rvRxVars, late>>

VirtnetIRQhandle ==
  \/ IrqEnter \/ RxOff \/ RxInput \/ RxRefused \/ RxRefusedNotify \/ RxOn \/ RxEnable \/ RxRecheck
  \/ TxOff \/ FreeTxEntry \/ TxEmpty \/ TxEnable \/ Ack

----------------------------------------------------------------------------
(* external: the device.  The flag is read after the used index is written. *)
DevTxTake ==
  /\ txRing.avail # <<>> /\ txDev.cur = <<>>
  /\ txDev' = [txDev EXCEPT !.cur = <<Head(txRing.avail)>>]
  /\ txRing' = [txRing EXCEPT !.avail = Tail(@)]
  /\ UNCHANGED <<txFree, txDesc, tbufRec, sender, txHeld, rvRxVars, nic, late>>

DevTxUse ==
  /\ txDev.cur # <<>>
  /\ txDev' = [cur |-> <<>>, intr |-> "due"]
  /\ txRing' = [txRing EXCEPT !.used = @ \o txDev.cur]
  /\ UNCHANGED <<txFree, txDesc, tbufRec, sender, txHeld, rvRxVars, nic, late>>

(* Swallowed are an interrupt raised when only the acknowledgement is left  *)
(* of the queue's handling, and, for transmission, one not raised between   *)
(* the last look at the ring and the enabling: "Bypass recheck"             *)
DevTxIntr ==
  /\ txDev.intr = "due"
  /\ txDev' = [txDev EXCEPT !.intr = "none"]
  /\ nic' = [nic EXCEPT !.isr = @ \/ ~txRing.quiet]
  /\ late' = IF nic.at \in {"txEnable", "ack"} THEN late \cup {"tx"} ELSE late
  /\ UNCHANGED <<txFree, txDesc, tbufRec, sender, txRing, txHeld, rvRxVars>>

DevRxWake ==
  /\ rxDev.pc = "sleep" /\ rxDev.kick
  /\ rxDev' = [rxDev EXCEPT !.pc = "run", !.kick = FALSE]
  /\ rxRing' = [rxRing EXCEPT !.busy = TRUE]
  /\ UNCHANGED <<rvTxVars, lent, freers, nic, late>>

DevRxFill ==
  /\ rxDev.pc = "run" /\ rxDev.cur = <<>> /\ rxRing.avail # <<>>
  /\ rxDev' = [rxDev EXCEPT !.cur = <<Head(rxRing.avail)>>]
  /\ rxRing' = [rxRing EXCEPT !.avail = Tail(@)]
  /\ UNCHANGED <<rvTxVars, lent, freers, nic, late>>

DevRxUse ==
  /\ rxDev.cur # <<>>
  /\ rxDev' = [rxDev EXCEPT !.cur = <<>>, !.intr = "due"]
  /\ rxRing' = [rxRing EXCEPT !.used = @ \o rxDev.cur]
  /\ UNCHANGED <<rvTxVars, lent, freers, nic, late>>

DevRxIntr ==
  /\ rxDev.intr = "due"
  /\ rxDev' = [rxDev EXCEPT !.intr = "none"]
  /\ nic' = [nic EXCEPT !.isr = @ \/ ~rxRing.quiet]
  /\ late' = IF ~rxRing.quiet /\ nic.at \notin {"idle", "rx"} THEN late \cup {"rx"} ELSE late
  /\ UNCHANGED <<rvTxVars, rxRing, lent, freers>>

(* out of buffers: ask for a notification, look again, sleep *)
DevRxEmpty ==
  /\ rxDev.pc = "run" /\ rxDev.cur = <<>> /\ rxRing.avail = <<>>
  /\ rxDev' = [rxDev EXCEPT !.pc = "recheck"]
  /\ rxRing' = [rxRing EXCEPT !.busy = FALSE]
  /\ UNCHANGED <<rvTxVars, lent, freers, nic, late>>

DevRxRecheck ==
  /\ rxDev.pc = "recheck"
  /\ rxDev' = [rxDev EXCEPT !.pc = IF rxRing.avail = <<>> THEN "sleep" ELSE "run"]
  /\ rxRing' = [rxRing EXCEPT !.busy = rxRing.avail # <<>>]
  /\ UNCHANGED <<rvTxVars, lent, freers, nic, late>>

Device ==
  \/ DevTxTake \/ DevTxUse \/ DevTxIntr
  \/ DevRxWake \/ DevRxFill \/ DevRxUse \/ DevRxIntr \/ DevRxEmpty \/ DevRxRecheck

RvNetNext ==
  \/ \E p \in Packets, n \in 1 .. TXQ - 1 : LowLevelOutput(p, n)
  \/ GetTxFreeEntry \/ ClearNext \/ Fill \/ Post
  \/ (\E id \in RxIds : ReleaseRxEntry(id)) \/ ReleaseNotify
  \/ VirtnetIRQhandle
  \/ Device

----------------------------------------------------------------------------
Posted == ToSet(txRing.avail) \cup ToSet(txDev.cur) \cup ToSet(txRing.used)
Record(head) == tbufRec[txDesc[head].next]

(* Every descriptor is free, being filled, or in the chain of one packet     *)
(* under way, and none in two of them; the free list is whole although       *)
(* tFreeHdr is stale whenever it has run empty.  (GetTxFreeEntry,            *)
(* virtnet.c:318)                                                            *)
DescriptorsPartitioned ==
  LET free == IF txFree.num = 0 THEN {} ELSE Span(txFree.hdr, txFree.num)
      own == IF sender.at \in {"clear", "fill", "post"} THEN Span(sender.head, sender.count) ELSE {}
      Chain == [h \in Posted |-> Span(h, Record(h).count)]
  IN /\ free \cup own \cup UNION {Chain[h] : h \in Posted} = TxIds
     /\ txFree.num + (IF own = {} THEN 0 ELSE sender.count)
          + MapThenSumSet(LAMBDA h : Record(h).count, Posted) = TXQ

(* What the device reads is one packet: the header, then the parts of one    *)
(* pbuf that the driver has a reference to, to the end of its record and no  *)
(* further.  (LowLevelOutput, virtnet.c:345)                                 *)
DeviceReadsOnePacket ==
  \A h \in ToSet(txRing.avail) \cup ToSet(txDev.cur) :
    LET n == Record(h).count
    IN /\ txDesc[h].of = "vnHdr"
       /\ Record(h).head \in txHeld
       /\ \A k \in 1 .. n - 1 : txDesc[Nth(h, k)].of = Record(h).head
       /\ \A k \in 0 .. n - 1 : txDesc[Nth(h, k)].more <=> k < n - 1

(* Each pbuf is given back once: those the driver refers to are those of the *)
(* packets under way.  (FreeTxEntry, virtnet.c:203)                          *)
PbufsAccounted ==
  txHeld = {Record(h).head : h \in Posted} \cup (IF sender.at = "post" THEN {sender.pbuf} ELSE {})

(* A receive buffer is with the device, on its way, or with the stack, never *)
(* in two places: nobody's packet is written over.  (ReleaseRxEntry,         *)
(* virtnet.c:226)                                                            *)
BuffersLentOnce ==
  LET waiting == IF nic.at = "rxKick" THEN Tail(rxRing.used) ELSE rxRing.used
      ring == rxRing.avail \o rxDev.cur \o waiting
  IN /\ ToSet(ring) \cup lent = RxIds
     /\ Len(ring) + Cardinality(lent) = RXQ

(* The device is told of every buffer that comes back, by whomever.          *)
(* (ReleaseRxEntry, virtnet.c:238)                                           *)
BuffersAnnounced ==
  rxDev.pc = "sleep" /\ rxRing.avail # <<>> => rxDev.kick \/ freers > 0 \/ nic.at = "rxKick"

(* While tasks run nothing used waits without an interrupt on its way, save  *)
(* for what was swallowed when the handler was almost done; a sender that    *)
(* waits for descriptors then spins until something is received.             *)
(* (VirtnetTxHandle, virtnet.c:450)                                          *)
NothingLeftBehind ==
  nic.at = "idle" /\ ~nic.isr =>
    /\ rxRing.used # <<>> => rxDev.intr = "due" \/ "rx" \in late
    /\ txRing.used # <<>> => txDev.intr = "due" \/ "tx" \in late

RvNetInvariant ==
  /\ DescriptorsPartitioned /\ DeviceReadsOnePacket /\ PbufsAccounted
  /\ BuffersLentOnce /\ BuffersAnnounced /\ NothingLeftBehind
=============================================================================
