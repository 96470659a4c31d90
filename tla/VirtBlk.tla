------------------------------ MODULE VirtBlk ------------------------------
(***************************************************************************)
(* The I/O path of the virtio-block driver (drivers/virtio/virtblock.c):   *)
(* an MMC read or write command becomes a request on a virtqueue with      *)
(* three descriptors in use -- the request header, the I/O buffer and the  *)
(* response -- all of them static, so that one request is all there can    *)
(* be: "the driver and the device are always in synchonous mode!"          *)
(*                                                                         *)
(* Actors: the task that makes the request (the kernel's block cache lets  *)
(* only one), the interrupt handler that preempts it, and the device.      *)
(***************************************************************************)
EXTENDS Virtq

CONSTANTS
  SEC_SIZE,     \* MMC_SEC_SIZE
  Sectors,      \* of the disk
  Data          \* what a sector may hold

ASSUME BlkAssumption ==
  /\ SEC_SIZE \in Nat \ {0}
  /\ Sectors \subseteq Nat
  /\ IDX > 1

VARIABLES
  bpc,          \* where the task is
  mmcCmd,       \* the command the MMC core gave to VirtMmcDoRequest
  blockAddr,    \* curDev->state.bits.blockAddr: arguments count sectors
  buf,          \* data of the I/O buffer
  breq,         \* blk->req, and the direction in desc[1].flag
  bresp,         \* blk->resp
  result,       \* cmd->data->returnError is HDF_SUCCESS
  bEvent,       \* blk->event
  bAvail,       \* avail->index; every entry of the ring is 0
  bUsed,        \* used->index
  bLast,        \* vq[0].last
  bIsr,         \* InterruptStatus & VIRTMMIO_IRQ_NOTIFY_USED
  bIrq,         \* where VirtblkIRQhandle is
  disk,         \* the device's backend
  bDev          \* the device: kick, next avail index, request it works on

taskVars == <<mmcCmd, blockAddr, buf, breq, result, bAvail>>
bIrqVars == <<bLast, bIrq>>
devVars == <<bresp, bUsed, disk, bDev>>
blkVars == <<bpc, taskVars, bEvent, bIsr, bIrqVars, devVars>>

Idle == [type |-> "none"]

BlkTypeOK ==
  /\ bpc \in {"idle", "mmc", "publish", "notify", "wait", "return"}
  /\ mmcCmd.code \in {"read", "write"} /\ mmcCmd.argument \in Nat
  /\ blockAddr \in BOOLEAN
  /\ buf \in Data
  /\ breq.type \in {"in", "out"} /\ breq.sector \in Sectors
  /\ bresp \in {"ok", "ioerr"}
  /\ result \in BOOLEAN
  /\ bEvent \in BOOLEAN
  /\ {bAvail, bUsed, bLast} \subseteq Indices
  /\ bIsr \in BOOLEAN
  /\ bIrq \in {"idle", "signal", "ack"}
  /\ disk \in [Sectors -> Data]
  /\ bDev.kick \in BOOLEAN /\ bDev.last \in Indices
  /\ bDev.doing = Idle \/ (bDev.doing.type \in {"in", "out"} /\ bDev.doing.sector \in Sectors)

BlkInit ==
  /\ bpc = "idle"
  /\ blockAddr \in BOOLEAN
  /\ \E s \in Sectors : /\ mmcCmd = [code |-> "read", argument |-> s]
                        /\ breq = [type |-> "in", sector |-> s]
  /\ buf \in Data
  /\ bresp = "ok"
  /\ result = FALSE
  /\ bEvent = FALSE
  /\ bAvail = 0 /\ bUsed = 0 /\ bLast = 0
  /\ bIsr = FALSE
  /\ bIrq = "idle"
  /\ disk \in [Sectors -> Data]
  /\ bDev = [kick |-> FALSE, last |-> 0, doing |-> Idle]

-----------------------------------------------------------------------------
(* The task                                                                *)

TaskStep(from, to) == bIrq = "idle" /\ bpc = from /\ bpc' = to

(* external: the MMC core sends READ_SINGLE_BLOCK or WRITE_BLOCK.  It counts *)
(* in sectors or in bytes, as SEND_OP_COND told it to.                       *)
Argument(s) == IF blockAddr THEN s ELSE s * SEC_SIZE

MmcCommand(code, s, d) ==
  /\ TaskStep("idle", "mmc")
  /\ mmcCmd' = [code |-> code, argument |-> Argument(s)]
  /\ buf' = d
  /\ result' = FALSE
  /\ UNCHANGED <<blockAddr, breq, bAvail, bEvent, bIsr, bIrqVars, devVars>>

StartSector == IF blockAddr THEN mmcCmd.argument ELSE mmcCmd.argument \div SEC_SIZE

(* VirtMmcIO, and VirtblkIO up to DSB *)
FillRequest ==
  /\ TaskStep("mmc", "publish")
  /\ breq' = [type |-> IF mmcCmd.code = "read" THEN "in" ELSE "out", sector |-> StartSector]
  /\ UNCHANGED <<mmcCmd, blockAddr, buf, result, bAvail, bEvent, bIsr, bIrqVars, devVars>>

(* one more request *)
NextAvail == Inc(bAvail)

Publish ==
  /\ TaskStep("publish", "notify")
  /\ bAvail' = NextAvail
  /\ UNCHANGED <<mmcCmd, blockAddr, buf, breq, result, bEvent, bIsr, bIrqVars, devVars>>

NotifyDevice ==
  /\ TaskStep("notify", "wait")
  /\ bDev' = [bDev EXCEPT !.kick = TRUE]
  /\ UNCHANGED <<taskVars, bEvent, bIsr, bIrqVars, bresp, bUsed, disk>>

(* DmaEventWait takes the bit; external: it waits for as long as it takes *)
BugNoAwait == bEvent' = FALSE
Await == bEvent /\ bEvent' = FALSE

WaitIO ==
  /\ TaskStep("wait", "return")
  /\ Await
  /\ UNCHANGED <<taskVars, bIsr, bIrqVars, devVars>>

(* blk->resp becomes cmd->data->returnError *)
BugSucceeded == TRUE
Succeeded == bresp = "ok"

ReturnError ==
  /\ TaskStep("return", "idle")
  /\ result' = Succeeded
  /\ UNCHANGED <<mmcCmd, blockAddr, buf, breq, bAvail, bEvent, bIsr, bIrqVars, devVars>>

Task == FillRequest \/ Publish \/ NotifyDevice \/ WaitIO \/ ReturnError

-----------------------------------------------------------------------------
(* VirtblkIRQhandle; only the used-buffer interrupt gets past its test     *)

BlkIrqEnter ==
  /\ bIrq = "idle"
  /\ bIsr
  /\ bIrq' = "signal"
  /\ UNCHANGED <<bpc, taskVars, bEvent, bIsr, bLast, devVars>>

BlkIrqSignal ==
  /\ bIrq = "signal"
  /\ bIrq' = "ack"
  /\ bEvent' = TRUE
  /\ bLast' = Inc(bLast)
  /\ UNCHANGED <<bpc, taskVars, bIsr, devVars>>

BugBlkIrqAck ==
  /\ bIrq = "ack"
  /\ bIrq' = "signal"
  /\ bIsr' = FALSE
  /\ UNCHANGED <<bpc, taskVars, bEvent, bLast, devVars>>
BlkIrqAck ==
  /\ bIrq = "ack"
  /\ bIrq' = "idle"
  /\ bIsr' = FALSE
  /\ UNCHANGED <<bpc, taskVars, bEvent, bLast, devVars>>

BlkIrq == BlkIrqEnter \/ BlkIrqSignal \/ BlkIrqAck

-----------------------------------------------------------------------------
(* external: the device                                                    *)

blkDrvVars == <<bpc, mmcCmd, blockAddr, breq, result, bAvail, bEvent, bIrqVars>>

BlkDevFetch ==
  /\ bDev.kick \/ bDev.last # bAvail
  /\ bDev.doing = Idle
  /\ bDev' = IF bDev.last = bAvail THEN [bDev EXCEPT !.kick = FALSE]
             ELSE [bDev EXCEPT !.doing = breq, !.last = Inc(@)]
  /\ UNCHANGED <<blkDrvVars, buf, bresp, bUsed, disk, bIsr>>

BlkDevDone(status) ==
  /\ bresp' = status
  /\ bUsed' = Inc(bUsed)
  /\ bDev' = [bDev EXCEPT !.doing = Idle]
  /\ bIsr' = TRUE
  /\ UNCHANGED blkDrvVars

BlkDevRead ==
  /\ bDev.doing.type = "in"
  /\ \/ buf' = disk[bDev.doing.sector] /\ BlkDevDone("ok")
     \/ buf' \in Data /\ BlkDevDone("ioerr")
  /\ UNCHANGED disk

BlkDevWrite ==
  LET written == [disk EXCEPT ![bDev.doing.sector] = buf] IN
  /\ bDev.doing.type = "out"
  /\ \/ disk' = written /\ BlkDevDone("ok")
     \/ disk' \in {disk, written} /\ BlkDevDone("ioerr")
  /\ UNCHANGED buf

BlkDevice == BlkDevFetch \/ BlkDevRead \/ BlkDevWrite

-----------------------------------------------------------------------------
BlkNext ==
  \/ \E s \in Sectors, d \in Data : MmcCommand("read", s, d) \/ MmcCommand("write", s, d)
  \/ Task
  \/ BlkIrq
  \/ BlkDevice

BlkSpec == BlkInit /\ [][BlkNext]_blkVars

(* The scheduler runs the task, an interrupt is handled, the device answers *)
BlkFairSpec ==
  BlkSpec /\ SF_blkVars(Task) /\ WF_blkVars(BlkIrq) /\ WF_blkVars(BlkDevice)

-----------------------------------------------------------------------------
(* "Always in synchonous mode": while the header, the buffer and the        *)
(* response are the device's, the task waits for it, and the device works   *)
(* on what the task asked for.                                              *)
DeviceOwns == bDev.last # bAvail \/ bDev.doing # Idle
BlkSynchronous ==
  /\ DeviceOwns => bpc \in {"notify", "wait"}
  /\ bDev.doing # Idle => bDev.doing = breq
  /\ Dist(bUsed, bAvail) = IF DeviceOwns THEN 1 ELSE 0

(* A completion is signalled only to the task whose request is complete; a  *)
(* leftover signal would return before the I/O is done.                     *)
BlkSignalIsForRequest == bEvent => bpc \in {"notify", "wait"} /\ ~ DeviceOwns

(* The safety of VirtblkIO and VirtblkIRQhandle in one. *)
BlkInvariant == BlkTypeOK /\ BlkSynchronous /\ BlkSignalIsForRequest

(* What makes it inductive: the command the task works on names a sector,   *)
(* the request carries it, and it goes from the ring to the device, to the  *)
(* used ring and through the interrupt to the signal.                       *)
BlkCommandRead ==
  bpc # "idle" => \E s \in Sectors : mmcCmd.argument = Argument(s)
BlkRequest(s) == [type |-> IF mmcCmd.code = "read" THEN "in" ELSE "out", sector |-> s]
BlkRequestFilled ==
  bpc \notin {"idle", "mmc"} => \E s \in Sectors : /\ mmcCmd.argument = Argument(s)
                                                   /\ breq = BlkRequest(s)

BlkNoSignal == ~ bEvent /\ ~ bIsr /\ bIrq = "idle" /\ bLast = bUsed
BlkAtRest == bDev.last = bAvail /\ bDev.doing = Idle

BlkPublished ==
  bDev.doing = Idle /\ bAvail = Inc(bDev.last) /\ bAvail = Inc(bUsed) /\ BlkNoSignal
BlkAtWork ==
  bDev.doing = breq /\ bDev.last = bAvail /\ bAvail = Inc(bUsed) /\ BlkNoSignal
BlkDone ==
  /\ BlkAtRest /\ bUsed = bAvail /\ bUsed = Inc(bLast)
  /\ ~ bEvent /\ bIsr /\ bIrq \in {"idle", "signal"}
BlkSignalled ==
  /\ BlkAtRest /\ bUsed = bAvail /\ bUsed = bLast
  /\ bEvent /\ bIrq = (IF bIsr THEN "ack" ELSE "idle")

BlkOneAtATime ==
  IF bpc \in {"notify", "wait"} THEN BlkPublished \/ BlkAtWork \/ BlkDone \/ BlkSignalled
  ELSE BlkAtRest /\ bUsed = bAvail /\ BlkNoSignal

BlkShapes ==
  /\ mmcCmd \in [code : {"read", "write"}, argument : Nat]
  /\ breq \in [type : {"in", "out"}, sector : Sectors]
  /\ bDev \in [kick : BOOLEAN, last : Indices,
               doing : {Idle} \cup [type : {"in", "out"}, sector : Sectors]]

BlkInductive ==
  BlkTypeOK /\ BlkShapes /\ BlkCommandRead /\ BlkRequestFilled /\ BlkOneAtATime

(* Every command is answered. *)
BlkReturns == bpc = "mmc" ~> bpc = "idle"

(* The promise to the file system: Disk.  A request is the command until    *)
(* the device has done it; its answer is in bresp and buf until VirtMmcIO    *)
(* has made a returnError of it.                                             *)
Sector == CHOOSE s \in Sectors : Argument(s) = mmcCmd.argument
AsRequest == IF mmcCmd.code = "read" THEN [op |-> "in", sector |-> Sector]
             ELSE [op |-> "out", sector |-> Sector, data |-> buf]
AsOutcome(ok) == IF ok THEN [ok |-> TRUE, data |-> buf] ELSE [ok |-> FALSE]
NotDone == bpc \in {"mmc", "publish"} \/ DeviceOwns

Host == INSTANCE Disk WITH
  store <- disk,
  request <- IF NotDone THEN {AsRequest} ELSE {},
  answer <- IF NotDone \/ bpc = "idle" THEN {} ELSE {AsOutcome(bresp = "ok")},
  outcome <- AsOutcome(bpc = "idle" /\ result)

ImplementsDisk == Host!DiskSpec
=============================================================================
