------------------------------ MODULE VirtGpu ------------------------------
(***************************************************************************)
(* The control queue of the virtio-gpu driver (drivers/virtio/virtgpu.c).  *)
(* While the display is set up, one command at a time goes out and the     *)
(* driver spins for its response.  From then on a timer puts two requests  *)
(* into the queue at every tick, a transfer of the framebuffer and a       *)
(* flush of the screen, and nobody waits for the responses.                *)
(*                                                                         *)
(* The driver uses no interrupt.  Actors: the task that initialises the    *)
(* device and then the timer's task, one after the other, and the device.  *)
(***************************************************************************)
EXTENDS Virtq, Sequences

VIRTQ_CONTROL_QSZ == 4
NORMAL_CMD_ENTRIES == 2

ASSUME GpuAssumption ==
  /\ IDX % VIRTQ_CONTROL_QSZ = 0
  /\ IDX >= 2 * VIRTQ_CONTROL_QSZ

GDescs == 0 .. VIRTQ_CONTROL_QSZ - 1

(* What a descriptor points to: the request of one of these commands, the   *)
(* data of RESOURCE_ATTACH_BACKING, a response, or nothing yet.             *)
Commands == {"info", "edid", "create", "attach", "scanout", "transfer", "flush"}
Pointees == Commands \cup {"data", "resp", "none"}

VARIABLES
  gpc,        \* where the driver is
  cmd,        \* the number of the initialisation command
  edid,       \* gpu->edid: the device offers VIRTIO_GPU_F_EDID
  gDesc,      \* vq[0].desc: pAddr and VIRTQ_DESC_F_NEXT
  gAvail,     \* vq[0].avail: ring and index
  gUsed,      \* vq[0].used->index; the used ring is not read
  gLast,      \* vq[0].last: responses seen; later the next writable descriptor
  resp,       \* the response of the command waited for
  gDev        \* the device: kick (QueueNotify written), running or asleep,
              \* next avail index, the request it is executing

gVars == <<gpc, cmd, edid, gDesc, gAvail, gUsed, gLast, resp, gDev>>

Pcs == {"command", "wait", "start", "idle", "trans", "transIndex",
        "flush", "flushIndex", "notify", "failed"}

GpuTypeOK ==
  /\ gpc \in Pcs
  /\ cmd \in 1 .. 8
  /\ edid \in BOOLEAN
  /\ gDesc \in [GDescs -> [to : Pointees, more : BOOLEAN]]
  /\ gAvail \in [ring : [GDescs -> GDescs], index : Indices]
  /\ gUsed \in Indices
  /\ gLast \in Indices
  /\ resp \in {"none", "ok", "error"}
  /\ gDev \in [run : BOOLEAN, kick : BOOLEAN, last : Indices, cur : SUBSET Pointees]

(* From VritmmioInitEnd on; the DMA area is as zero as the boot left it.   *)
GpuInit ==
  /\ gpc = "command"
  /\ cmd = 1
  /\ edid \in BOOLEAN
  /\ gDesc = [i \in GDescs |-> [to |-> "none", more |-> FALSE]]
  /\ gAvail = [ring |-> [i \in GDescs |-> 0], index |-> 0]
  /\ gUsed = 0
  /\ gLast = 0
  /\ resp = "none"
  /\ gDev = [run |-> FALSE, kick |-> FALSE, last |-> 0, cur |-> {}]

-----------------------------------------------------------------------------
(* Setting up: up_fbinitialize, then VirtgpuBeginNormDisplay               *)

InitCommands ==
  IF edid THEN <<"info", "edid", "create", "attach", "scanout", "transfer", "flush">>
          ELSE <<"info", "create", "attach", "scanout", "transfer", "flush">>

(* a command whose failure is no obstacle: there is a default resolution *)
MayFail == {"info", "edid"}

(* RequestResponse, RequestDataResponse: always desc[0], [1] (and [2]) *)
CommandChain(c) ==
  IF c = "attach"
  THEN [gDesc EXCEPT ![0] = [to |-> c, more |-> TRUE],
                     ![1] = [to |-> "data", more |-> TRUE],
                     ![2] = [to |-> "resp", more |-> FALSE]]
  ELSE [gDesc EXCEPT ![0] = [to |-> c, more |-> TRUE],
                     ![1] = [to |-> "resp", more |-> FALSE]]

Command ==
  /\ gpc = "command"
  /\ gDesc' = CommandChain(InitCommands[cmd])
  /\ gAvail' = [ring |-> [gAvail.ring EXCEPT ![Slot(gAvail.index, VIRTQ_CONTROL_QSZ)] = 0],
                index |-> Inc(gAvail.index)]
  /\ gDev' = [gDev EXCEPT !.kick = TRUE]
  /\ resp' = "none"
  /\ gpc' = "wait"
  /\ UNCHANGED <<cmd, edid, gUsed, gLast>>

(* "spin for response", then take it into account *)
BugSeen == gLast
Seen == Inc(gLast)

WaitResponse ==
  /\ gpc = "wait"
  /\ gLast # gUsed
  /\ gLast' = Seen
  /\ cmd' = cmd + 1
  /\ gpc' = IF resp # "ok" /\ InitCommands[cmd] \notin MayFail THEN "failed"
            ELSE IF cmd = Len(InitCommands) THEN "start"
            ELSE "command"
  /\ UNCHANGED <<edid, gDesc, gAvail, gUsed, resp, gDev>>

(* every even descriptor is followed by the shared response *)
BugPopulated == gDesc
Populated ==
  [i \in GDescs |-> IF i % NORMAL_CMD_ENTRIES = 0
                    THEN [gDesc[i] EXCEPT !.more = TRUE]
                    ELSE [to |-> "resp", more |-> FALSE]]

(* PopulateVirtQ "change usage to record our next writable index", and the *)
(* timer is started, which may fail                                        *)
PopulateVirtQ ==
  /\ gpc = "start"
  /\ gDesc' = Populated
  /\ gLast' = 0
  /\ gpc' \in {"idle", "failed"}
  /\ UNCHANGED <<cmd, edid, gAvail, gUsed, resp, gDev>>

-----------------------------------------------------------------------------
(* Normal display: NormOpsRefresh at every tick of the timer               *)

Tick ==
  /\ gpc = "idle"
  /\ gpc' = "trans"
  /\ UNCHANGED <<cmd, edid, gDesc, gAvail, gUsed, gLast, resp, gDev>>

Abs(n) == IF n < 0 THEN -n ELSE n

(* abs(avail->index - used->index) of two uint16_t, promoted to int *)
BugBusy == Abs(gAvail.index - gUsed) > VIRTQ_CONTROL_QSZ
Busy == Abs(gAvail.index - gUsed) >= VIRTQ_CONTROL_QSZ

(* q->last += NORMAL_CMD_ENTRIES, a uint16_t *)
BugNextEntry == Inc(gLast)
NextWritable == (gLast + NORMAL_CMD_ENTRIES) % IDX

(* RequestNoResponse up to the barrier.  "QEMU is busy for the full queue, *)
(* give up this request": the callback goes on behind it.                  *)
Request(from, req, next, giveUp) ==
  LET head == Slot(gLast, VIRTQ_CONTROL_QSZ) IN
  /\ gpc = from
  /\ IF Busy
     THEN /\ gpc' = giveUp
          /\ UNCHANGED <<gDesc, gAvail, gLast>>
     ELSE /\ gpc' = next
          /\ gDesc' = [gDesc EXCEPT ![head].to = req]
          /\ gLast' = NextWritable
          /\ gAvail' = [gAvail EXCEPT !.ring[Slot(gAvail.index, VIRTQ_CONTROL_QSZ)] = head]
  /\ UNCHANGED <<cmd, edid, gUsed, resp, gDev>>

BumpIndex(from, next) ==
  /\ gpc = from
  /\ gpc' = next
  /\ gAvail' = [gAvail EXCEPT !.index = Inc(@)]
  /\ UNCHANGED <<cmd, edid, gDesc, gUsed, gLast, resp, gDev>>

TransferRequest == Request("trans", "transfer", "transIndex", "flush")
TransferIndex == BumpIndex("transIndex", "flush")
FlushRequest == Request("flush", "flush", "flushIndex", "idle")
FlushIndex == BumpIndex("flushIndex", "notify")

(* only the flush notifies the device, for both *)
BugFlushNotify ==
  /\ gpc = "notify"
  /\ gpc' = "idle"
  /\ UNCHANGED <<cmd, edid, gDesc, gAvail, gUsed, gLast, resp, gDev>>
FlushNotify ==
  /\ gpc = "notify"
  /\ gpc' = "idle"
  /\ gDev' = [gDev EXCEPT !.kick = TRUE]
  /\ UNCHANGED <<cmd, edid, gDesc, gAvail, gUsed, gLast, resp>>

NormOpsRefresh ==
  TransferRequest \/ TransferIndex \/ FlushRequest \/ FlushIndex \/ FlushNotify

-----------------------------------------------------------------------------
(* external: the device.  A notification makes it execute, in order, all   *)
(* it finds in the avail ring; then it waits for the next one.              *)

DevVars == <<gpc, cmd, edid, gDesc, gAvail, gLast>>

DevWake ==
  /\ gDev.kick
  /\ ~ gDev.run
  /\ gDev' = [gDev EXCEPT !.run = TRUE, !.kick = FALSE]
  /\ UNCHANGED <<DevVars, gUsed, resp>>

DevFetch ==
  /\ gDev.run
  /\ gDev.cur = {}
  /\ gDev.last # gAvail.index
  /\ gDev' = [gDev EXCEPT
                !.cur = {gDesc[gAvail.ring[Slot(gDev.last, VIRTQ_CONTROL_QSZ)]].to},
                !.last = Inc(@)]
  /\ UNCHANGED <<DevVars, gUsed, resp>>

DevUse ==
  /\ gDev.cur # {}
  /\ gUsed' = Inc(gUsed)
  /\ gDev' = [gDev EXCEPT !.cur = {}]
  /\ resp' \in IF gpc = "wait" THEN {"ok", "error"} ELSE {resp}
  /\ UNCHANGED DevVars

DevSleep ==
  /\ gDev.run
  /\ gDev.cur = {}
  /\ gDev.last = gAvail.index
  /\ gDev' = [gDev EXCEPT !.run = FALSE]
  /\ UNCHANGED <<DevVars, gUsed, resp>>

Dev == DevWake \/ DevFetch \/ DevUse \/ DevSleep

-----------------------------------------------------------------------------
Driver == Command \/ WaitResponse \/ PopulateVirtQ \/ NormOpsRefresh

GpuNext == Driver \/ Tick \/ Dev

GpuSpec == GpuInit /\ [][GpuNext]_gVars

(* a tick finds the device with nothing to do that it was notified of *)
DeviceIdle == ~ gDev.run /\ ~ gDev.kick

-----------------------------------------------------------------------------
Outstanding == Dist(gDev.last, gAvail.index)

(* heads in the avail ring the device has not fetched *)
Waiting == Entries(gAvail.ring, gDev.last, gAvail.index, VIRTQ_CONTROL_QSZ)

(* a request in the ring that avail->index does not cover yet *)
Placing == IF gpc \in {"transIndex", "flushIndex"} THEN 1 ELSE 0

(* However slow the device: no entry of the avail ring is overwritten       *)
(* before the device has fetched it.  A consequence of GpuInductive below.  *)
GpuRingNotOverrun == Outstanding + Placing <= VIRTQ_CONTROL_QSZ

(* Whatever the device fetches is a whole request: a command, then          *)
(* possibly its data, then room for the response, which ends the chain.     *)
Whole(h) ==
  /\ gDesc[h].to \in Commands /\ gDesc[h].more
  /\ LET end == IF gDesc[h].to = "attach" THEN h + 2 ELSE h + 1
     IN gDesc[end] = [to |-> "resp", more |-> FALSE]

GpuChainsWhole == \A h \in Waiting : Whole(h)

(* The response the driver acts upon is the one to its command: the device  *)
(* has written it since the command was issued, and is done with it.        *)
GpuResponseIsOwn ==
  [][gpc = "wait" /\ gpc' # "wait" => resp # "none" /\ Outstanding = 0]_gVars

(* What makes both inductive.  Requests not answered are those not fetched  *)
(* and the one being executed; there are never more than the ring holds;    *)
(* and while the display is set up, command and response go in lockstep.    *)
GpuCounted ==
  Dist(gUsed, gAvail.index) = Outstanding + (IF gDev.cur = {} THEN 0 ELSE 1)

GpuNeverTooMany == Dist(gUsed, gAvail.index) + Placing <= VIRTQ_CONTROL_QSZ

GpuLockstep ==
  /\ gpc \in {"command", "wait"} => cmd <= Len(InitCommands)
  /\ gpc = "command" => gLast = gUsed /\ gAvail.index = gUsed
  /\ gpc = "wait" => /\ gAvail.index = Inc(gLast)
                     /\ \/ gUsed = gLast
                        \/ gUsed = Inc(gLast) /\ resp # "none"

GpuInductive == GpuTypeOK /\ GpuCounted /\ GpuNeverTooMany /\ GpuLockstep

(* What makes GpuChainsWhole inductive: before the first tick one chain, at *)
(* the first descriptor, waits while its command does and none otherwise;   *)
(* from then on the chains are those of PopulateVirtQ, and a request waits  *)
(* at an even descriptor, to which the next request is written as well.     *)
Refresh(h) ==
  /\ h % NORMAL_CMD_ENTRIES = 0
  /\ gDesc[h].to \in {"transfer", "flush"}

GpuChains ==
  /\ gpc \in {"command", "start", "failed"} => Waiting = {}
  /\ gpc = "wait" => Waiting \subseteq {0} /\ Whole(0)
  /\ gpc \in {"idle", "trans", "transIndex", "flush", "flushIndex", "notify"} =>
       /\ gLast % NORMAL_CMD_ENTRIES = 0
       /\ \A h \in GDescs :
            h % NORMAL_CMD_ENTRIES = 0 =>
              gDesc[h].more /\ gDesc[h + 1] = [to |-> "resp", more |-> FALSE]
       /\ \A h \in Waiting : Refresh(h)
  /\ gpc \in {"transIndex", "flushIndex"} =>
       Refresh(gAvail.ring[Slot(gAvail.index, VIRTQ_CONTROL_QSZ)])

-----------------------------------------------------------------------------
(* The driver with a record, late, of whether a tick of the timer has ever  *)
(* found the device still at work on the tick before.  The code assumes     *)
(* that none does: "When an operation happened, the last one must already   *)
(* done", "30Hz is enough to avoid override" (virtgpu.c:127, 131).          *)
VARIABLE late

timedVars == <<gVars, late>>

TimedInit == GpuInit /\ late = FALSE

TimedNext == GpuNext /\ late' = (late \/ (Tick /\ ~ DeviceIdle))

(* The timer keeps ticking, its callback comes to an end, and the device    *)
(* executes what it was notified of.                                        *)
TimedSpec ==
  /\ TimedInit
  /\ [][TimedNext]_timedVars
  /\ WF_gVars(Driver)
  /\ WF_gVars(DeviceIdle /\ Tick)
  /\ WF_gVars(Dev)

(* What a tick can rely on while none was too early: the device sleeps      *)
(* until the flush notifies it, and nothing waits for it -- but the one     *)
(* transfer whose flush was refused, and then Busy refuses all others.      *)
GpuPunctual ==
  ~ late =>
    /\ gDev.cur # {} => gDev.run
    /\ gpc \in {"trans", "transIndex", "flush", "flushIndex", "notify"} => DeviceIdle
    /\ gpc = "idle" /\ DeviceIdle => Outstanding = 0 \/ Busy
    /\ gpc = "trans" => Outstanding = 0 \/ Busy
    /\ gpc = "transIndex" => /\ Outstanding = 0
                             /\ gAvail.ring[Slot(gAvail.index, VIRTQ_CONTROL_QSZ)]
                                  # Slot(gLast, VIRTQ_CONTROL_QSZ)
    /\ gpc = "flush" => Busy \/ \A h \in Waiting : h # Slot(gLast, VIRTQ_CONTROL_QSZ)

(* As long as the device is as fast as virtgpu.c:127-131 assumes, no        *)
(* descriptor changes under a request that waits in the ring.               *)
GpuNotOverwritten ==
  [][late' \/ \A h \in Waiting : gDesc'[h] = gDesc[h] /\ gDesc'[h + 1] = gDesc[h + 1]]_gVars

(* As long as the device is that fast, every tick of the timer leads to a   *)
(* flush of the screen (NormOpsRefresh, virtgpu.c:421).                     *)
GpuRefreshGoesOn == (gpc = "idle") ~> (gDev.cur = {"flush"} \/ late)

(* It does for a device without EDID, whose six commands leave an even      *)
(* avail->index for the first transfer.                                     *)
GpuRefreshGoesOnWithoutEdid ==
  (gpc = "idle" /\ ~ edid) ~> (gDev.cur = {"flush"} \/ late)
=============================================================================
