------------------------- MODULE VirtRequest_proofs -------------------------
(***************************************************************************)
(* The drivers that put requests before the device and wait, or do not     *)
(* wait, for its answer.                                                   *)
(*                                                                         *)
(* virtio-gpu: the control queue is never overrun, whatever the speed of   *)
(* the device and the width of the indices -- in spite of abs() of a       *)
(* difference that has wrapped around -- and what waits in it is whole and *)
(* does not change.  virtio-rng and virtio-block: the one request, the one *)
(* signal and the one descriptor (or static block) are passed round among  *)
(* task, device and interrupt so that no two have them, and each call is   *)
(* answered by what the device did for it.                                 *)
(*                                                                         *)
(* Last, how these and the other virtio drivers bring their device up: the *)
(* handshake and the resources, whichever step fails.                      *)
(***************************************************************************)
EXTENDS VirtGpu, VirtRng, VirtBlk, VirtioInit, Virtq_proofs

(* The width of an index is at least twice the queue's size.               *)
LEMMA GpuSizes ==
  /\ IDX \in Nat \ {0} /\ IDX >= 8
  /\ VIRTQ_CONTROL_QSZ = 4 /\ NORMAL_CMD_ENTRIES = 2
  /\ GDescs = 0 .. 3
BY IdxAssumption, GpuAssumption DEF VIRTQ_CONTROL_QSZ, NORMAL_CMD_ENTRIES, GDescs

(* Every command of the initialisation is a command.                       *)
LEMMA InitCommandsAreCommands ==
  ASSUME cmd \in 1 .. 8, cmd <= Len(InitCommands)
  PROVE  InitCommands[cmd] \in Commands /\ cmd + 1 \in 1 .. 8
<1>1. CASE edid
  <2>1. Len(InitCommands) = 7  BY <1>1 DEF InitCommands
  <2>2. cmd \in {1, 2, 3, 4, 5, 6, 7}  BY <2>1
  <2> QED  BY <1>1, <2>2 DEF InitCommands, Commands
<1>2. CASE ~ edid
  <2>1. Len(InitCommands) = 6  BY <1>2 DEF InitCommands
  <2>2. cmd \in {1, 2, 3, 4, 5, 6}  BY <2>1
  <2> QED  BY <1>2, <2>2 DEF InitCommands, Commands
<1> QED  BY <1>1, <1>2

(* The types of the indices, and of the distances between them.            *)
LEMMA GpuIndexTypes ==
  ASSUME GpuTypeOK
  PROVE  /\ gAvail.index \in Indices /\ gUsed \in Indices
         /\ gLast \in Indices /\ gDev.last \in Indices
         /\ Dist(gUsed, gAvail.index) \in Nat
         /\ Dist(gDev.last, gAvail.index) \in Nat
<1>1. /\ gAvail.index \in Indices /\ gUsed \in Indices
      /\ gLast \in Indices /\ gDev.last \in Indices
  BY DEF GpuTypeOK
<1> QED  BY <1>1, DistPositive, GpuSizes

(* A queue that the guard of RequestNoResponse does not call busy has room. *)
LEMMA NotBusyHasRoom ==
  ASSUME GpuTypeOK, GpuNeverTooMany, ~ Busy
  PROVE  Dist(gUsed, gAvail.index) <= 3
<1>1. gAvail.index \in Indices /\ gUsed \in Indices  BY GpuIndexTypes
<1>2. gAvail.index - gUsed < 4 /\ gUsed - gAvail.index < 4
  BY <1>1, GpuSizes DEF Busy, Abs, Indices
<1>3. Dist(gUsed, gAvail.index) <= 4
  BY GpuIndexTypes, GpuSizes DEF GpuNeverTooMany, Placing
<1>4. CASE gAvail.index >= gUsed
  <2>1. Dist(gUsed, gAvail.index) = gAvail.index - gUsed
    BY <1>1, <1>4, DistLinear
  <2> QED  BY <1>1, <1>2, <2>1, GpuSizes DEF Indices
<1>5. CASE ~ (gAvail.index >= gUsed)
  <2>1. Dist(gUsed, gAvail.index) = gAvail.index - gUsed + IDX
    BY <1>1, <1>5, DistLinear
  <2> QED  BY <1>1, <1>2, <1>3, <2>1, GpuSizes DEF Indices
<1> QED  BY <1>4, <1>5

LEMMA GpuInitInductive == GpuInit => GpuInductive
<1> SUFFICES ASSUME GpuInit PROVE GpuInductive  OBVIOUS
<1>1. 0 \in Indices /\ Dist(0, 0) = 0
  BY GpuSizes, WindowEmpty DEF Indices
<1>2. GpuTypeOK
  BY <1>1, GpuSizes DEF GpuInit, GpuTypeOK, Pcs, Pointees
<1>3. GpuCounted /\ GpuNeverTooMany
  BY <1>1, GpuSizes DEF GpuInit, GpuCounted, GpuNeverTooMany, Outstanding, Placing
<1>4. 1 <= Len(InitCommands)
  BY DEF InitCommands, GpuInit
<1> QED  BY <1>2, <1>3, <1>4 DEF GpuInductive, GpuLockstep, GpuInit

LEMMA GpuNextInductive == GpuInductive /\ [GpuNext]_gVars => GpuInductive'
<1> SUFFICES ASSUME GpuInductive, [GpuNext]_gVars PROVE GpuInductive'  OBVIOUS
<1> USE GpuSizes
<1>t. GpuTypeOK /\ GpuCounted /\ GpuNeverTooMany /\ GpuLockstep
  BY DEF GpuInductive
<1>i. /\ gAvail.index \in Indices /\ gUsed \in Indices
      /\ gLast \in Indices /\ gDev.last \in Indices
      /\ Dist(gUsed, gAvail.index) \in Nat
      /\ Dist(gDev.last, gAvail.index) \in Nat
  BY <1>t, GpuIndexTypes
<1>1. CASE Command
  <2>1. gUsed = gAvail.index /\ gLast = gUsed /\ cmd <= Len(InitCommands)
    BY <1>1, <1>t DEF Command, GpuLockstep
  <2>2. Dist(gUsed, gAvail.index) = 0
    BY <2>1, <1>i, WindowEmpty
  <2>3. Dist(gDev.last, gAvail.index) = 0 /\ gDev.cur = {}
    BY <2>2, <1>t, <1>i DEF GpuCounted, Outstanding
  <2>3a. gDev.last = gAvail.index
    BY <2>3, <1>i, DistPositive
  <2>4. Inc(gAvail.index) \in Indices /\ Dist(gAvail.index, Inc(gAvail.index)) = 1
    BY <1>i, DistPositive, WindowPush, WindowEmpty
  <2>5. InitCommands[cmd] \in Commands
    BY <1>t, <2>1, InitCommandsAreCommands DEF GpuTypeOK
  <2>6. /\ gAvail'.index = Inc(gAvail.index)
        /\ gAvail' \in [ring : [GDescs -> GDescs], index : Indices]
    <3> DEFINE ring2 == [gAvail.ring EXCEPT ![Slot(gAvail.index, VIRTQ_CONTROL_QSZ)] = 0]
    <3>0. gAvail.ring \in [GDescs -> GDescs] /\ 0 \in GDescs  BY <1>t DEF GpuTypeOK
    <3>1. ring2 \in [GDescs -> GDescs]  BY <3>0, Zenon
    <3>2. gAvail' = [ring |-> ring2, index |-> Inc(gAvail.index)]  BY <1>1 DEF Command
    <3> HIDE DEF ring2
    <3> QED  BY <2>4, <3>1, <3>2
  <2>7. gDesc' \in [GDescs -> [to : Pointees, more : BOOLEAN]]
    BY <1>1, <1>t, <2>5 DEF Command, CommandChain, GpuTypeOK, Pointees
  <2>8. gDev' = [gDev EXCEPT !.kick = TRUE]  BY <1>1 DEF Command
  <2>9. /\ gDev' \in [run : BOOLEAN, kick : BOOLEAN, last : Indices, cur : SUBSET Pointees]
        /\ gDev'.last = gDev.last /\ gDev'.cur = gDev.cur
    BY <1>t, <2>8 DEF GpuTypeOK
  <2>10. gUsed' = gUsed /\ gLast' = gLast /\ edid' = edid /\ cmd' = cmd /\ gpc' = "wait" /\ resp' = "none"
    BY <1>1 DEF Command
  <2>11. GpuTypeOK'
    BY <1>t, <2>6, <2>7, <2>9, <2>10 DEF GpuTypeOK, Pcs
  <2>12. GpuCounted' /\ GpuNeverTooMany'
    BY <2>1, <2>3, <2>3a, <2>4, <2>6, <2>9, <2>10 DEF GpuCounted, GpuNeverTooMany, Outstanding, Placing
  <2>13. GpuLockstep'
    BY <2>1, <2>6, <2>10 DEF GpuLockstep, InitCommands
  <2> QED  BY <2>11, <2>12, <2>13 DEF GpuInductive
<1>2. CASE WaitResponse
  <2>1. /\ cmd <= Len(InitCommands) /\ gUsed = Inc(gLast) /\ gAvail.index = Inc(gLast)
    BY <1>2, <1>t DEF WaitResponse, GpuLockstep
  <2>2. gLast' = gUsed /\ cmd' = cmd + 1  BY <1>2, <2>1 DEF WaitResponse, Seen
  <2>3. UNCHANGED <<edid, gDesc, gAvail, gUsed, resp, gDev>>  BY <1>2 DEF WaitResponse
  <2>4. /\ gpc' \in {"failed", "start", "command"}
        /\ gpc' = "command" => cmd # Len(InitCommands)
    BY <1>2 DEF WaitResponse
  <2>5. cmd' \in 1 .. 8
    BY <1>t, <2>1, <2>2, InitCommandsAreCommands DEF GpuTypeOK
  <2>6. GpuTypeOK'
    BY <1>t, <1>i, <2>2, <2>3, <2>4, <2>5 DEF GpuTypeOK, Pcs
  <2>7. GpuCounted'
    BY <1>t, <2>3 DEF GpuCounted, Outstanding
  <2>8. GpuNeverTooMany'
    BY <1>t, <1>i, <2>3, <2>4 DEF GpuNeverTooMany, Placing
  <2>9. Len(InitCommands) \in Nat /\ Len(InitCommands)' = Len(InitCommands)
    BY <2>3 DEF InitCommands
  <2>10. GpuLockstep'
    BY <1>t, <2>1, <2>2, <2>3, <2>4, <2>9 DEF GpuLockstep, GpuTypeOK
  <2> QED  BY <2>6, <2>7, <2>8, <2>10 DEF GpuInductive
<1>3. CASE PopulateVirtQ
  <2>1. UNCHANGED <<cmd, edid, gAvail, gUsed, resp, gDev>> /\ gLast' = 0 /\ gpc' \in {"idle", "failed"}
    BY <1>3 DEF PopulateVirtQ
  <2>2. gDesc' \in [GDescs -> [to : Pointees, more : BOOLEAN]]
    <3>1. \A i \in GDescs : [gDesc[i] EXCEPT !.more = TRUE] \in [to : Pointees, more : BOOLEAN]
      BY <1>t DEF GpuTypeOK
    <3>2. [to |-> "resp", more |-> FALSE] \in [to : Pointees, more : BOOLEAN]
      BY DEF Pointees
    <3>3. gDesc' = Populated  BY <1>3 DEF PopulateVirtQ
    <3> QED  BY <3>1, <3>2, <3>3 DEF Populated
  <2>3. GpuTypeOK'  BY <1>t, <2>1, <2>2 DEF GpuTypeOK, Pcs, Indices
  <2>4. GpuCounted' /\ GpuLockstep'
    BY <1>t, <2>1 DEF GpuCounted, Outstanding, GpuLockstep
  <2>5. GpuNeverTooMany'
    BY <1>t, <1>i, <2>1 DEF GpuNeverTooMany, Placing
  <2> QED  BY <2>3, <2>4, <2>5 DEF GpuInductive
<1>4. CASE Tick \/ FlushNotify
  <2>1. /\ UNCHANGED <<cmd, edid, gDesc, gAvail, gUsed, gLast, resp>>
        /\ gDev' \in {gDev, [gDev EXCEPT !.kick = TRUE]}
        /\ gpc' \in {"trans", "idle"} /\ gpc \in {"idle", "notify"}
    BY <1>4 DEF Tick, FlushNotify
  <2>2. /\ gDev' \in [run : BOOLEAN, kick : BOOLEAN, last : Indices, cur : SUBSET Pointees]
        /\ gDev'.last = gDev.last /\ gDev'.cur = gDev.cur
    BY <1>t, <2>1 DEF GpuTypeOK
  <2>3. GpuTypeOK'  BY <1>t, <2>1, <2>2 DEF GpuTypeOK, Pcs
  <2>4. GpuCounted' /\ GpuLockstep' /\ GpuNeverTooMany'
    BY <1>t, <2>1, <2>2 DEF GpuCounted, Outstanding, GpuLockstep, GpuNeverTooMany, Placing
  <2> QED  BY <2>3, <2>4 DEF GpuInductive
<1>5. CASE TransferRequest \/ FlushRequest
  <2>1. /\ UNCHANGED <<cmd, edid, gUsed, resp, gDev>>
        /\ gpc \in {"trans", "flush"} /\ gpc' \in {"transIndex", "flush", "flushIndex", "idle"}
        /\ gAvail'.index = gAvail.index
        /\ Busy => gpc' \in {"flush", "idle"}
    BY <1>5, <1>t DEF TransferRequest, FlushRequest, Request, GpuTypeOK
  <2>2. Slot(gLast, VIRTQ_CONTROL_QSZ) \in GDescs /\ Slot(gAvail.index, VIRTQ_CONTROL_QSZ) \in GDescs
    BY <1>i, SlotInRing
  <2>3. NextWritable \in Indices
    BY <1>i DEF NextWritable, Indices
  <2>4. /\ gDesc' \in [GDescs -> [to : Pointees, more : BOOLEAN]]
        /\ gLast' \in Indices
        /\ gAvail' \in [ring : [GDescs -> GDescs], index : Indices]
    BY <1>5, <1>t, <2>2, <2>3 DEF TransferRequest, FlushRequest, Request, GpuTypeOK, Pointees, Commands
  <2>5. GpuTypeOK'  BY <1>t, <2>1, <2>4 DEF GpuTypeOK, Pcs
  <2>6. GpuCounted' /\ GpuLockstep'
    BY <1>t, <2>1 DEF GpuCounted, Outstanding, GpuLockstep
  <2>7. GpuNeverTooMany'
    <3>1. CASE Busy
      BY <1>t, <1>i, <2>1, <3>1 DEF GpuNeverTooMany, Placing
    <3>2. CASE ~ Busy
      BY <1>t, <1>i, <2>1, <3>2, NotBusyHasRoom DEF GpuNeverTooMany, Placing
    <3> QED  BY <3>1, <3>2
  <2> QED  BY <2>5, <2>6, <2>7 DEF GpuInductive
<1>6. CASE TransferIndex \/ FlushIndex
  <2>1. /\ UNCHANGED <<cmd, edid, gDesc, gUsed, gLast, resp, gDev>>
        /\ gpc \in {"transIndex", "flushIndex"} /\ gpc' \in {"flush", "notify"}
        /\ gAvail' = [gAvail EXCEPT !.index = Inc(@)]
    BY <1>6 DEF TransferIndex, FlushIndex, BumpIndex
  <2>2. /\ gAvail'.index = Inc(gAvail.index) /\ Inc(gAvail.index) \in Indices
        /\ gAvail' \in [ring : [GDescs -> GDescs], index : Indices]
    BY <1>t, <1>i, <2>1, DistPositive DEF GpuTypeOK
  <2>3. Dist(gUsed, gAvail.index) <= 3
    BY <1>t, <1>i, <2>1 DEF GpuNeverTooMany, Placing
  <2>4. Dist(gDev.last, gAvail.index) <= 3
    BY <1>t, <1>i, <2>3 DEF GpuCounted, Outstanding
  <2>5. /\ Dist(gUsed, Inc(gAvail.index)) = Dist(gUsed, gAvail.index) + 1
        /\ Dist(gDev.last, Inc(gAvail.index)) = Dist(gDev.last, gAvail.index) + 1
    BY <1>i, <2>3, <2>4, WindowPush
  <2>6. GpuTypeOK'  BY <1>t, <2>1, <2>2 DEF GpuTypeOK, Pcs
  <2>7. GpuCounted'
    BY <1>t, <1>i, <2>1, <2>2, <2>5 DEF GpuCounted, Outstanding
  <2>8. GpuNeverTooMany' /\ GpuLockstep'
    BY <1>t, <1>i, <2>1, <2>2, <2>3, <2>5 DEF GpuNeverTooMany, Placing, GpuLockstep
  <2> QED  BY <2>6, <2>7, <2>8 DEF GpuInductive
<1>7. CASE DevWake \/ DevSleep
  <2>1. /\ UNCHANGED <<gpc, cmd, edid, gDesc, gAvail, gLast, gUsed, resp>>
        /\ gDev' \in [run : BOOLEAN, kick : BOOLEAN, last : Indices, cur : SUBSET Pointees]
        /\ gDev'.last = gDev.last /\ gDev'.cur = gDev.cur
    BY <1>7, <1>t DEF DevWake, DevSleep, DevVars, GpuTypeOK
  <2>2. GpuTypeOK'  BY <1>t, <2>1 DEF GpuTypeOK
  <2>3. GpuCounted' /\ GpuLockstep' /\ GpuNeverTooMany'
    BY <1>t, <2>1 DEF GpuCounted, Outstanding, GpuLockstep, GpuNeverTooMany, Placing, InitCommands
  <2> QED  BY <2>2, <2>3 DEF GpuInductive
<1>8. CASE DevFetch
  <2> DEFINE head == gAvail.ring[Slot(gDev.last, VIRTQ_CONTROL_QSZ)]
  <2>1. /\ UNCHANGED <<gpc, cmd, edid, gDesc, gAvail, gLast, gUsed, resp>>
        /\ gDev.cur = {} /\ gDev.last # gAvail.index
        /\ gDev' = [gDev EXCEPT !.cur = {gDesc[head].to}, !.last = Inc(@)]
    BY <1>8 DEF DevFetch, DevVars
  <2>2. gDesc[head] \in [to : Pointees, more : BOOLEAN] /\ Inc(gDev.last) \in Indices
    BY <1>t, <1>i, SlotInRing, DistPositive DEF GpuTypeOK
  <2>3. /\ gDev'.last = Inc(gDev.last) /\ gDev'.cur # {}
        /\ gDev' \in [run : BOOLEAN, kick : BOOLEAN, last : Indices, cur : SUBSET Pointees]
    BY <1>t, <2>1, <2>2 DEF GpuTypeOK
  <2>4. Dist(Inc(gDev.last), gAvail.index) = Dist(gDev.last, gAvail.index) - 1
    BY <1>i, <2>1, WindowPop
  <2>5. GpuTypeOK'  BY <1>t, <2>1, <2>3 DEF GpuTypeOK
  <2>6. GpuCounted'
    <3>1. Dist(gUsed, gAvail.index) = Dist(gDev.last, gAvail.index)
      BY <1>t, <1>i, <2>1 DEF GpuCounted, Outstanding
    <3>2. Dist(gUsed', gAvail'.index) = Dist(gDev'.last, gAvail'.index) + 1
      BY <1>i, <2>1, <2>3, <2>4, <3>1
    <3> QED  BY <2>3, <3>2 DEF GpuCounted, Outstanding
  <2>7. GpuNeverTooMany' /\ GpuLockstep'
    BY <1>t, <2>1 DEF GpuNeverTooMany, Placing, GpuLockstep, InitCommands
  <2> QED  BY <2>5, <2>6, <2>7 DEF GpuInductive
<1>9. CASE DevUse
  <2>1. /\ UNCHANGED <<gpc, cmd, edid, gDesc, gAvail, gLast>>
        /\ gDev.cur # {} /\ gUsed' = Inc(gUsed)
        /\ gDev' = [gDev EXCEPT !.cur = {}]
        /\ gpc = "wait" => resp' \in {"ok", "error"}
        /\ resp' \in {"ok", "error", resp}
    BY <1>9 DEF DevUse, DevVars
  <2>2. /\ gDev'.last = gDev.last /\ gDev'.cur = {}
        /\ gDev' \in [run : BOOLEAN, kick : BOOLEAN, last : Indices, cur : SUBSET Pointees]
    BY <1>t, <2>1 DEF GpuTypeOK
  <2>3. Dist(gUsed, gAvail.index) = Dist(gDev.last, gAvail.index) + 1
    BY <1>t, <2>1 DEF GpuCounted, Outstanding
  <2>4. gUsed # gAvail.index
    <3>1. gUsed = gAvail.index => Dist(gUsed, gAvail.index) = 0
      BY <1>i, WindowEmpty
    <3> QED  BY <1>i, <2>3, <3>1
  <2>5. Dist(Inc(gUsed), gAvail.index) = Dist(gUsed, gAvail.index) - 1 /\ Inc(gUsed) \in Indices
    BY <1>i, <2>4, WindowPop, DistPositive
  <2>6. GpuTypeOK'  BY <1>t, <2>1, <2>2, <2>5 DEF GpuTypeOK
  <2>7. GpuCounted'
    BY <1>i, <2>1, <2>2, <2>3, <2>5 DEF GpuCounted, Outstanding
  <2>8. GpuNeverTooMany'
    BY <1>t, <1>i, <2>1, <2>5 DEF GpuNeverTooMany, Placing
  <2>9. GpuLockstep'
    BY <1>t, <2>1, <2>4 DEF GpuLockstep, InitCommands
  <2> QED  BY <2>6, <2>7, <2>8, <2>9 DEF GpuInductive
<1>10. CASE UNCHANGED gVars
  <2>1. GpuTypeOK' /\ GpuCounted' /\ GpuNeverTooMany' /\ GpuLockstep'
    BY <1>t, <1>10 DEF gVars, GpuTypeOK, GpuCounted, GpuNeverTooMany, GpuLockstep,
                       Outstanding, Placing, InitCommands
  <2> QED  BY <2>1 DEF GpuInductive
<1> QED
  BY <1>1, <1>2, <1>3, <1>4, <1>5, <1>6, <1>7, <1>8, <1>9, <1>10
  DEF GpuNext, Driver, NormOpsRefresh, Dev

(* The invariant holds in every state, for every width of the indices.     *)
THEOREM GpuAlwaysInductive == GpuSpec => []GpuInductive
BY GpuInitInductive, GpuNextInductive, PTL DEF GpuSpec

(* However slow the device, RequestNoResponse never overwrites an entry of *)
(* the avail ring that has not been fetched, although its guard takes the  *)
(* absolute value of a difference that wraps around.                       *)
THEOREM RingIsNotOverrun == GpuSpec => []GpuRingNotOverrun
<1>1. GpuInductive => GpuRingNotOverrun
  <2> SUFFICES ASSUME GpuInductive PROVE GpuRingNotOverrun  OBVIOUS
  <2>1. GpuTypeOK /\ GpuCounted /\ GpuNeverTooMany  BY DEF GpuInductive
  <2> QED
    BY <2>1, GpuIndexTypes, GpuSizes
    DEF GpuRingNotOverrun, GpuCounted, GpuNeverTooMany, Outstanding, Placing
<1> QED  BY <1>1, GpuAlwaysInductive, PTL

(* The initialisation acts on the response to its own command: when the    *)
(* spin ends, the device has answered and has nothing left to do.          *)
THEOREM ResponseIsOwn == GpuSpec => GpuResponseIsOwn
<1>1. GpuInductive /\ [GpuNext]_gVars =>
        [gpc = "wait" /\ gpc' # "wait" => resp # "none" /\ Outstanding = 0]_gVars
  <2> SUFFICES ASSUME GpuInductive, GpuNext, gpc = "wait", gpc' # "wait"
               PROVE  resp # "none" /\ Outstanding = 0
    OBVIOUS
  <2>1. WaitResponse
    BY DEF GpuNext, Driver, Command, PopulateVirtQ, NormOpsRefresh, TransferRequest,
           TransferIndex, FlushRequest, FlushIndex, FlushNotify, Request, BumpIndex,
           Tick, Dev, DevWake, DevFetch, DevUse, DevSleep, DevVars
  <2>2. gUsed = gAvail.index /\ resp # "none"
    BY <2>1 DEF WaitResponse, GpuInductive, GpuLockstep
  <2>3. /\ Dist(gUsed, gAvail.index) = 0
        /\ Dist(gDev.last, gAvail.index) \in Nat
    BY <2>2, GpuIndexTypes, WindowEmpty DEF GpuInductive
  <2> QED
    BY <2>2, <2>3 DEF GpuInductive, GpuCounted, Outstanding
<1> QED  BY <1>1, GpuAlwaysInductive, PTL DEF GpuSpec, GpuResponseIsOwn

-----------------------------------------------------------------------------
(* The chains the device finds are whole                                   *)

(* Requests stand at the even descriptors, each followed by the response.  *)
LEMMA EvenDescs ==
  /\ \A h \in GDescs : h % NORMAL_CMD_ENTRIES = 0 => h \in {0, 2}
  /\ \A h \in {0, 2} : /\ h \in GDescs /\ h % NORMAL_CMD_ENTRIES = 0
                       /\ h + 1 \in GDescs /\ (h + 1) % NORMAL_CMD_ENTRIES = 1
BY GpuSizes

(* The next writable index stays even, wherever it wraps.                  *)
LEMMA NextWritableIsEven ==
  ASSUME gLast \in Indices, gLast % NORMAL_CMD_ENTRIES = 0
  PROVE  /\ Slot(gLast, VIRTQ_CONTROL_QSZ) \in {0, 2}
         /\ NextWritable % NORMAL_CMD_ENTRIES = 0
<1>1. gLast \in Nat /\ gLast < IDX /\ gLast % 2 = 0
  BY GpuSizes DEF Indices
<1>2. gLast % 4 \in {0, 2}
  BY <1>1
<1>3. PICK m \in Nat : IDX = 4 * m
  <2>1. IDX % 4 = 0  BY GpuAssumption, GpuSizes
  <2>2. IDX = 4 * (IDX \div 4) /\ IDX \div 4 \in Nat  BY <2>1, GpuSizes
  <2> QED  BY <2>2
<1>4. (gLast + 2) % IDX = IF gLast + 2 < IDX THEN gLast + 2 ELSE gLast + 2 - IDX
  BY <1>1, GpuSizes
<1>5. ((gLast + 2) % IDX) % 2 = 0
  BY <1>1, <1>3, <1>4, GpuSizes
<1> QED  BY <1>2, <1>5, GpuSizes DEF Slot, NextWritable

(* What waits is a descriptor.                                             *)
LEMMA WaitingAreDescs ==
  ASSUME GpuTypeOK
  PROVE  Waiting \subseteq GDescs
<1>1. gAvail.ring \in [GDescs -> GDescs]  BY DEF GpuTypeOK
<1>2. \A i \in Window(gDev.last, gAvail.index) : Slot(i, VIRTQ_CONTROL_QSZ) \in GDescs
  BY SlotInRing, GpuSizes DEF Window
<1> QED  BY <1>1, <1>2 DEF Waiting, Entries

(* Between two commands of the initialisation nothing waits in the ring.   *)
LEMMA NothingWaits ==
  ASSUME GpuTypeOK, GpuCounted, gUsed = gAvail.index
  PROVE  gDev.last = gAvail.index /\ Waiting = {}
<1>1. gAvail.index \in Indices /\ gDev.last \in Indices
      /\ Dist(gDev.last, gAvail.index) \in Nat
  BY GpuIndexTypes
<1>2. Dist(gUsed, gAvail.index) = 0
  BY <1>1, WindowEmpty
<1>3. Dist(gDev.last, gAvail.index) = 0
  BY <1>1, <1>2 DEF GpuCounted, Outstanding
<1>4. gDev.last = gAvail.index
  BY <1>1, <1>3, DistPositive
<1> QED  BY <1>1, <1>4, WindowEmpty DEF Waiting, Entries

LEMMA GpuInitChains == GpuInit => GpuChains
<1> SUFFICES ASSUME GpuInit PROVE GpuChains  OBVIOUS
<1>1. 0 \in Indices  BY GpuSizes DEF Indices
<1>2. Waiting = {}
  BY <1>1, WindowEmpty DEF GpuInit, Waiting, Entries
<1> QED  BY <1>2 DEF GpuInit, GpuChains

(* A step that touches neither the queue nor the phase.                    *)
LEMMA SameChains ==
  ASSUME GpuChains, UNCHANGED <<gDesc, gAvail, gLast>>, gDev'.last = gDev.last,
         \/ gpc' = gpc
         \/ /\ gpc \in {"idle", "trans", "flush", "notify"}
            /\ gpc' \in {"idle", "trans", "flush", "notify"}
  PROVE  GpuChains'
<1>1. Waiting' = Waiting  BY DEF Waiting
<1> QED  BY <1>1 DEF GpuChains, Whole, Refresh

(* A command of the initialisation finds the ring empty.                   *)
LEMMA CommandChains ==
  ASSUME GpuInductive, Command
  PROVE  GpuChains'
<1> DEFINE ring2 == [gAvail.ring EXCEPT ![Slot(gAvail.index, VIRTQ_CONTROL_QSZ)] = 0]
<1>1. /\ GpuTypeOK /\ GpuCounted /\ gpc = "command" /\ gpc' = "wait"
      /\ gUsed = gAvail.index /\ cmd <= Len(InitCommands)
  BY DEF Command, GpuInductive, GpuLockstep
<1>2. /\ gDev.last = gAvail.index /\ gAvail.index \in Indices
      /\ gAvail.ring \in [GDescs -> GDescs] /\ gDesc \in [GDescs -> [to : Pointees, more : BOOLEAN]]
  BY <1>1, NothingWaits DEF GpuTypeOK
<1>3. gDev'.last = gDev.last /\ gAvail'.ring = ring2 /\ gAvail'.index = Inc(gAvail.index)
  BY <1>1 DEF Command, GpuTypeOK
<1>4. ring2[Slot(gAvail.index, VIRTQ_CONTROL_QSZ)] = 0
  BY <1>2, SlotInRing, GpuSizes
<1> HIDE DEF ring2
<1>5. Waiting' = {0}
  <2>1. /\ Dist(gAvail.index, gAvail.index) < IDX - 1
        /\ Window(gAvail.index, gAvail.index) = {}
    BY <1>2, WindowEmpty, GpuSizes
  <2>2. Entries(ring2, gAvail.index, Inc(gAvail.index), VIRTQ_CONTROL_QSZ)
          = Entries(ring2, gAvail.index, gAvail.index, VIRTQ_CONTROL_QSZ)
              \cup {ring2[Slot(gAvail.index, VIRTQ_CONTROL_QSZ)]}
    <3> DEFINE b == gAvail.index
    <3>1. b \in Indices /\ Dist(b, b) < IDX - 1  BY <1>2, <2>1
    <3>2. 4 \in Nat \ {0}  OBVIOUS
    <3> HIDE DEF b
    <3>3. Entries(ring2, b, Inc(b), 4) = Entries(ring2, b, b, 4) \cup {ring2[Slot(b, 4)]}
      BY <3>1, <3>2, EntriesPush
    <3> QED  BY <3>3, GpuSizes DEF b
  <2>3. Entries(ring2, gAvail.index, gAvail.index, VIRTQ_CONTROL_QSZ) = {}
    BY <2>1 DEF Entries
  <2> QED  BY <1>2, <1>3, <1>4, <2>2, <2>3 DEF Waiting
<1>6. Whole(0)'
  <2> DEFINE c == InitCommands[cmd]
             x == [to |-> c, more |-> TRUE]
             data == [to |-> "data", more |-> TRUE]
             y == [to |-> "resp", more |-> FALSE]
  <2>1. c \in Commands
    BY <1>1, InitCommandsAreCommands DEF GpuTypeOK
  <2>2. gDesc' = CommandChain(c)
    BY DEF Command
  <2> HIDE DEF c, x, y, data
  <2>0. gDesc \in [GDescs -> [to : Pointees, more : BOOLEAN]]
    BY <1>2
  <2>3. CASE c = "attach"
    <3>1. gDesc' = [gDesc EXCEPT ![0] = x, ![1] = data, ![2] = y]
      BY <2>2, <2>3 DEF CommandChain, x, y, data
    <3>2. gDesc'[0] = x /\ gDesc'[2] = y
      BY <2>0, <3>1, GpuSizes
    <3> QED  BY <2>1, <2>3, <3>2 DEF Whole, x, y
  <2>4. CASE c # "attach"
    <3>1. gDesc' = [gDesc EXCEPT ![0] = x, ![1] = y]
      BY <2>2, <2>4 DEF CommandChain, x, y
    <3>2. gDesc'[0] = x /\ gDesc'[1] = y
      BY <2>0, <3>1, GpuSizes
    <3> QED  BY <2>1, <2>4, <3>2 DEF Whole, x, y
  <2> QED  BY <2>3, <2>4
<1> QED  BY <1>1, <1>5, <1>6 DEF GpuChains

(* RequestNoResponse, when it does not find the queue busy, writes a       *)
(* request and a ring entry where none waits to be fetched.                *)
LEMMA RequestWrites ==
  ASSUME GpuInductive, GpuChains, TransferRequest \/ FlushRequest, ~ Busy
  PROVE  LET head == Slot(gLast, VIRTQ_CONTROL_QSZ) IN
         /\ head \in {0, 2} /\ gLast' = NextWritable /\ NextWritable % NORMAL_CMD_ENTRIES = 0
         /\ gDesc'[head].to \in {"transfer", "flush"}
         /\ \A h \in GDescs : gDesc'[h].more = gDesc[h].more
         /\ \A h \in GDescs : h # head => gDesc'[h] = gDesc[h]
         /\ gAvail'.index = gAvail.index /\ gDev' = gDev
         /\ Waiting' = Waiting
         /\ gAvail'.ring[Slot(gAvail'.index, VIRTQ_CONTROL_QSZ)] = head
<1> DEFINE head == Slot(gLast, VIRTQ_CONTROL_QSZ)
           slot == Slot(gAvail.index, VIRTQ_CONTROL_QSZ)
           ring2 == [gAvail.ring EXCEPT ![slot] = head]
<1>1. /\ gpc \in {"trans", "flush"} /\ UNCHANGED gDev
      /\ GpuTypeOK /\ GpuCounted /\ GpuNeverTooMany
  BY DEF TransferRequest, FlushRequest, Request, GpuInductive
<1>2. PICK req \in {"transfer", "flush"} :
        /\ gDesc' = [gDesc EXCEPT ![head].to = req]
        /\ gLast' = NextWritable
        /\ gAvail' = [gAvail EXCEPT !.ring[slot] = head]
  BY DEF TransferRequest, FlushRequest, Request
<1>3. /\ gLast \in Indices /\ gLast % NORMAL_CMD_ENTRIES = 0
      /\ gAvail.index \in Indices /\ gDev.last \in Indices
      /\ gAvail.ring \in [GDescs -> GDescs]
      /\ gDesc \in [GDescs -> [to : Pointees, more : BOOLEAN]]
  BY <1>1 DEF GpuTypeOK, GpuChains
<1>4. head \in {0, 2} /\ NextWritable % NORMAL_CMD_ENTRIES = 0
  BY <1>3, NextWritableIsEven
<1>5. head \in GDescs /\ slot \in GDescs
  BY <1>3, <1>4, SlotInRing, GpuSizes
<1>6. Dist(gDev.last, gAvail.index) < 4 /\ Dist(gDev.last, gAvail.index) < IDX - 1
  <2>1. Dist(gUsed, gAvail.index) <= 3  BY <1>1, NotBusyHasRoom
  <2>2. Dist(gDev.last, gAvail.index) \in Nat  BY <1>1, GpuIndexTypes
  <2> QED  BY <1>1, <2>1, <2>2, GpuSizes DEF GpuCounted, Outstanding
<1>7. /\ gAvail'.ring = ring2 /\ gAvail'.index = gAvail.index
  BY <1>1, <1>2 DEF GpuTypeOK
<1>8. /\ gDesc'[head].to = req
      /\ \A h \in GDescs : gDesc'[h].more = gDesc[h].more
      /\ \A h \in GDescs : h # head => gDesc'[h] = gDesc[h]
  BY <1>2, <1>3, <1>5
<1> HIDE DEF head
<1>9. ring2[slot] = head
      /\ Entries(ring2, gDev.last, gAvail.index, VIRTQ_CONTROL_QSZ) = Waiting
  <2>1. gAvail.ring \in [0 .. 4 - 1 -> GDescs]  BY <1>3, GpuSizes
  <2> DEFINE r == gAvail.ring
             a == gDev.last
             b == gAvail.index
  <2>2. r \in [0 .. 4 - 1 -> GDescs] /\ a \in Indices /\ b \in Indices
        /\ Dist(a, b) < 4 /\ Dist(a, b) < IDX - 1
    BY <1>3, <1>6, <2>1
  <2>3. 4 \in Nat \ {0} /\ IDX % 4 = 0
    BY GpuAssumption, GpuSizes
  <2> HIDE DEF r, a, b
  <2>4. LET r2 == [r EXCEPT ![Slot(b, 4)] = head] IN
        /\ r2[Slot(b, 4)] = head
        /\ Entries(r2, a, b, 4) = Entries(r, a, b, 4)
        /\ NoRepeat(r, a, b, 4) => NoRepeat(r2, a, b, 4)
    BY <1>5, <2>2, <2>3, EntriesWrite
  <2> QED  BY <2>4, GpuSizes DEF Waiting, r, a, b
<1>10. Waiting' = Waiting /\ gAvail'.ring[Slot(gAvail'.index, VIRTQ_CONTROL_QSZ)] = head
  BY <1>1, <1>7, <1>9 DEF Waiting
<1> QED  BY <1>1, <1>2, <1>4, <1>7, <1>8, <1>10 DEF head

LEMMA RequestChains ==
  ASSUME GpuInductive, GpuChains, TransferRequest \/ FlushRequest
  PROVE  GpuChains'
<1> DEFINE head == Slot(gLast, VIRTQ_CONTROL_QSZ)
<1>1. GpuTypeOK /\ gpc \in {"trans", "flush"}
  BY DEF GpuInductive, TransferRequest, FlushRequest, Request
<1>2. CASE Busy
  BY <1>2, SameChains DEF TransferRequest, FlushRequest, Request
<1>3. CASE ~ Busy
  <2>1. /\ head \in {0, 2} /\ gLast' = NextWritable /\ NextWritable % NORMAL_CMD_ENTRIES = 0
        /\ gDesc'[head].to \in {"transfer", "flush"}
        /\ \A h \in GDescs : gDesc'[h].more = gDesc[h].more
        /\ \A h \in GDescs : h # head => gDesc'[h] = gDesc[h]
        /\ Waiting' = Waiting
        /\ gAvail'.ring[Slot(gAvail'.index, VIRTQ_CONTROL_QSZ)] = head
    BY <1>3, RequestWrites
  <2>2. gpc' \in {"transIndex", "flushIndex"}
    BY <1>3 DEF TransferRequest, FlushRequest, Request
  <2> HIDE DEF head
  <2>3. head % NORMAL_CMD_ENTRIES = 0
    BY <2>1, EvenDescs
  <2>4. \A h \in Waiting : Refresh(h)'
    <3>1. \A h \in Waiting : h \in GDescs /\ Refresh(h)
      BY <1>1, WaitingAreDescs DEF GpuChains
    <3> QED  BY <2>1, <2>3, <3>1 DEF Refresh
  <2>5. ASSUME NEW h \in GDescs, h % NORMAL_CMD_ENTRIES = 0
        PROVE  gDesc'[h].more /\ gDesc'[h + 1] = [to |-> "resp", more |-> FALSE]
    <3>1. gDesc[h].more /\ gDesc[h + 1] = [to |-> "resp", more |-> FALSE]
      BY <1>1, <2>5 DEF GpuChains
    <3>2. h \in {0, 2} /\ h + 1 \in GDescs /\ h + 1 # head
      BY <2>1, <2>5, EvenDescs, GpuSizes
    <3> QED  BY <2>1, <3>1, <3>2
  <2> QED
    BY <2>1, <2>2, <2>3, <2>4, <2>5 DEF GpuChains, Refresh
<1> QED  BY <1>2, <1>3

(* avail->index++ lets the device see the entry written last.              *)
LEMMA IndexCovers ==
  ASSUME GpuInductive, TransferIndex \/ FlushIndex
  PROVE  /\ gpc \in {"transIndex", "flushIndex"} /\ gpc' \in {"flush", "notify"}
         /\ UNCHANGED <<gDesc, gLast, gDev>>
         /\ Waiting' = Waiting \cup {gAvail.ring[Slot(gAvail.index, VIRTQ_CONTROL_QSZ)]}
<1>t. GpuTypeOK /\ GpuCounted /\ GpuNeverTooMany
  BY DEF GpuInductive
<1>1. /\ gpc \in {"transIndex", "flushIndex"} /\ gpc' \in {"flush", "notify"}
      /\ UNCHANGED <<gDesc, gLast, gDev>>
      /\ gAvail'.ring = gAvail.ring /\ gAvail'.index = Inc(gAvail.index)
  BY <1>t DEF TransferIndex, FlushIndex, BumpIndex, GpuTypeOK
<1>2. /\ gAvail.index \in Indices /\ gDev.last \in Indices
      /\ Dist(gDev.last, gAvail.index) < IDX - 1
  <2>1. /\ Dist(gUsed, gAvail.index) \in Nat /\ Dist(gDev.last, gAvail.index) \in Nat
        /\ gAvail.index \in Indices /\ gDev.last \in Indices
    BY <1>t, GpuIndexTypes
  <2>2. Dist(gUsed, gAvail.index) <= 3
    BY <1>1, <1>t, <2>1, GpuSizes DEF GpuNeverTooMany, Placing
  <2> QED  BY <1>t, <2>1, <2>2, GpuSizes DEF GpuCounted, Outstanding
<1> DEFINE b == gAvail.index
<1>3. b \in Indices /\ Dist(gDev.last, b) < IDX - 1 /\ VIRTQ_CONTROL_QSZ \in Nat \ {0}
  BY <1>2, GpuSizes
<1> HIDE DEF b
<1>4. Entries(gAvail.ring, gDev.last, Inc(b), VIRTQ_CONTROL_QSZ)
        = Entries(gAvail.ring, gDev.last, b, VIRTQ_CONTROL_QSZ)
            \cup {gAvail.ring[Slot(b, VIRTQ_CONTROL_QSZ)]}
  BY <1>2, <1>3, EntriesPush
<1> QED  BY <1>1, <1>4 DEF Waiting, b

LEMMA GpuNextChains == GpuInductive /\ GpuChains /\ [GpuNext]_gVars => GpuChains'
<1> SUFFICES ASSUME GpuInductive, GpuChains, [GpuNext]_gVars PROVE GpuChains'  OBVIOUS
<1>t. GpuTypeOK /\ GpuCounted /\ GpuLockstep
  BY DEF GpuInductive
<1>1. CASE Command
  BY <1>1, CommandChains
<1>2. CASE WaitResponse
  <2>1. gUsed = gAvail.index /\ gpc' \in {"command", "start", "failed"}
    BY <1>2, <1>t DEF WaitResponse, GpuLockstep
  <2>2. Waiting' = {}
    BY <1>2, <1>t, <2>1, NothingWaits DEF WaitResponse, Waiting
  <2> QED  BY <2>1, <2>2 DEF GpuChains
<1>3. CASE PopulateVirtQ
  <2>1. Waiting' = {} /\ gLast' = 0 /\ gpc' \in {"idle", "failed"}
    BY <1>3 DEF PopulateVirtQ, GpuChains, Waiting
  <2>2. \A h \in GDescs :
          gDesc'[h] = IF h % NORMAL_CMD_ENTRIES = 0 THEN [gDesc[h] EXCEPT !.more = TRUE]
                      ELSE [to |-> "resp", more |-> FALSE]
    BY <1>3 DEF PopulateVirtQ, Populated
  <2>3. ASSUME NEW h \in GDescs, h % NORMAL_CMD_ENTRIES = 0
        PROVE  gDesc'[h].more /\ gDesc'[h + 1] = [to |-> "resp", more |-> FALSE]
    <3>1. h + 1 \in GDescs /\ (h + 1) % NORMAL_CMD_ENTRIES # 0
      BY <2>3, EvenDescs
    <3>2. gDesc[h] \in [to : Pointees, more : BOOLEAN]
      BY <1>t DEF GpuTypeOK
    <3>3. gDesc'[h].more
      BY <2>2, <2>3, <3>2
    <3> QED  BY <2>2, <3>1, <3>3
  <2>4. 0 % NORMAL_CMD_ENTRIES = 0  BY GpuSizes
  <2> QED  BY <2>1, <2>3, <2>4 DEF GpuChains
<1>4. CASE Tick \/ FlushNotify
  <2>1. gDev'.last = gDev.last
    BY <1>4, <1>t DEF Tick, FlushNotify, GpuTypeOK
  <2> QED  BY <1>4, <2>1, SameChains DEF Tick, FlushNotify
<1>5. CASE TransferRequest \/ FlushRequest
  BY <1>5, RequestChains
<1>6. CASE TransferIndex \/ FlushIndex
  BY <1>6, IndexCovers DEF GpuChains, Refresh
<1>7. CASE DevFetch
  <2>1. /\ UNCHANGED <<gpc, gDesc, gAvail, gLast>>
        /\ gDev.last # gAvail.index /\ gDev'.last = Inc(gDev.last)
    BY <1>7, <1>t DEF DevFetch, DevVars, GpuTypeOK
  <2>2. Window(Inc(gDev.last), gAvail.index) \subseteq Window(gDev.last, gAvail.index)
    BY <1>t, <2>1, GpuIndexTypes, WindowPop
  <2>3. Waiting' \subseteq Waiting
    BY <2>1, <2>2 DEF Waiting, Entries
  <2> QED  BY <2>1, <2>3 DEF GpuChains, Whole, Refresh
<1>8. CASE DevWake \/ DevSleep \/ DevUse
  <2>1. gDev'.last = gDev.last
    BY <1>8, <1>t DEF DevWake, DevSleep, DevUse, GpuTypeOK
  <2> QED  BY <1>8, <2>1, SameChains DEF DevWake, DevSleep, DevUse, DevVars
<1>9. CASE UNCHANGED gVars
  BY <1>9, SameChains DEF gVars
<1> QED
  BY <1>1, <1>2, <1>3, <1>4, <1>5, <1>6, <1>7, <1>8, <1>9
  DEF GpuNext, Driver, NormOpsRefresh, Dev

(* Whatever the device fetches from the ring, at whatever speed, is a      *)
(* command with room for its response: the initialisation, which reuses    *)
(* descriptor 0, and NormOpsRefresh, which lets the index run round, never *)
(* leave it half a chain.                                                  *)
THEOREM ChainsAreWhole == GpuSpec => []GpuChainsWhole
<1>1. GpuInductive /\ GpuChains => GpuChainsWhole
  <2> SUFFICES ASSUME GpuInductive, GpuChains, NEW h \in Waiting PROVE Whole(h)
    BY DEF GpuChainsWhole
  <2>1. h \in GDescs
    BY WaitingAreDescs DEF GpuInductive
  <2>2. CASE gpc = "wait"
    BY <2>2 DEF GpuChains, Whole
  <2>3. CASE gpc \in {"idle", "trans", "transIndex", "flush", "flushIndex", "notify"}
    BY <2>1, <2>3 DEF GpuChains, Whole, Refresh, Commands
  <2>4. CASE gpc \in {"command", "start", "failed"}
    BY <2>4 DEF GpuChains
  <2> QED  BY <2>2, <2>3, <2>4 DEF GpuInductive, GpuTypeOK, Pcs
<1> QED
  BY <1>1, GpuInitInductive, GpuNextInductive, GpuInitChains, GpuNextChains, PTL DEF GpuSpec

-----------------------------------------------------------------------------
(* No request changes under the device                                     *)

(* The ring is empty just if nothing waits in it.                          *)
LEMMA WaitingIsOutstanding ==
  ASSUME GpuTypeOK
  PROVE  Waiting = {} <=> Outstanding = 0
<1>1. gAvail.index \in Indices /\ gDev.last \in Indices
  BY GpuIndexTypes
<1>2. Outstanding = 0 <=> gDev.last = gAvail.index
  BY <1>1, DistPositive DEF Outstanding
<1>3. gDev.last = gAvail.index => Waiting = {}
  BY <1>1, WindowEmpty DEF Waiting, Entries
<1>4. gDev.last # gAvail.index => Waiting # {}
  BY <1>1, WindowPop DEF Waiting, Entries
<1> QED  BY <1>2, <1>3, <1>4

(* Two requests in a row stand at different descriptors.                   *)
LEMMA NextWritableMoves ==
  ASSUME gLast \in Indices, gLast % NORMAL_CMD_ENTRIES = 0
  PROVE  Slot(NextWritable, VIRTQ_CONTROL_QSZ) # Slot(gLast, VIRTQ_CONTROL_QSZ)
<1>1. gLast \in Nat /\ gLast < IDX
  BY GpuSizes DEF Indices
<1>2. PICK m \in Nat : IDX = 4 * m
  <2>1. IDX % 4 = 0  BY GpuAssumption, GpuSizes
  <2>2. IDX = 4 * (IDX \div 4) /\ IDX \div 4 \in Nat  BY <2>1, GpuSizes
  <2> QED  BY <2>2
<1>3. (gLast + 2) % IDX = IF gLast + 2 < IDX THEN gLast + 2 ELSE gLast + 2 - IDX
  BY <1>1, GpuSizes
<1>4. ((gLast + 2) % IDX) % 4 # gLast % 4
  BY <1>1, <1>2, <1>3, GpuSizes
<1> QED  BY <1>4, GpuSizes DEF Slot, NextWritable

LEMMA PunctualNext ==
  GpuInductive /\ GpuChains /\ GpuPunctual /\ [TimedNext]_timedVars => GpuPunctual'
<1> SUFFICES ASSUME GpuInductive, GpuChains, GpuPunctual, [TimedNext]_timedVars, ~ late'
             PROVE  GpuPunctual'
  BY DEF GpuPunctual
<1>t. GpuTypeOK
  BY DEF GpuInductive
<1>l. ~ late
  BY DEF TimedNext, timedVars
<1>p. /\ gDev.cur # {} => gDev.run
      /\ gpc \in {"trans", "transIndex", "flush", "flushIndex", "notify"} => DeviceIdle
      /\ gpc = "idle" /\ DeviceIdle => Outstanding = 0 \/ Busy
      /\ gpc = "trans" => Outstanding = 0 \/ Busy
      /\ gpc = "transIndex" => /\ Outstanding = 0
                               /\ gAvail.ring[Slot(gAvail.index, VIRTQ_CONTROL_QSZ)]
                                    # Slot(gLast, VIRTQ_CONTROL_QSZ)
      /\ gpc = "flush" => Busy \/ \A h \in Waiting : h # Slot(gLast, VIRTQ_CONTROL_QSZ)
  BY <1>l DEF GpuPunctual
<1>1. CASE Command \/ WaitResponse
  <2>1. gDev'.cur = gDev.cur /\ gDev'.run = gDev.run
    BY <1>1, <1>t DEF Command, WaitResponse, GpuTypeOK
  <2>2. gpc' \in {"wait", "failed", "start", "command"}
    BY <1>1 DEF Command, WaitResponse
  <2> QED  BY <1>p, <2>1, <2>2 DEF GpuPunctual
<1>2. CASE PopulateVirtQ
  <2>1. Outstanding' = 0 /\ gDev' = gDev /\ gpc' \in {"idle", "failed"}
    BY <1>2, <1>t, WaitingIsOutstanding DEF PopulateVirtQ, GpuChains, Outstanding
  <2> QED  BY <1>p, <2>1 DEF GpuPunctual
<1>3. CASE Tick /\ TimedNext
  <2>1. DeviceIdle /\ gpc = "idle" /\ gpc' = "trans" /\ UNCHANGED <<gDev, gAvail, gUsed>>
    BY <1>3 DEF Tick, TimedNext
  <2> QED  BY <1>p, <2>1 DEF GpuPunctual, DeviceIdle, Outstanding, Busy
<1>4. CASE TransferRequest
  <2>1. DeviceIdle /\ gpc = "trans" /\ UNCHANGED <<gDev, gUsed>>
    BY <1>4, <1>p DEF TransferRequest, Request
  <2>2. CASE Busy
    <3>1. gpc' = "flush" /\ UNCHANGED gAvail
      BY <1>4, <2>2 DEF TransferRequest, Request
    <3> QED  BY <1>p, <2>1, <2>2, <3>1 DEF GpuPunctual, DeviceIdle, Busy
  <2>3. CASE ~ Busy
    <3>1. /\ gAvail'.index = gAvail.index /\ gLast' = NextWritable
          /\ gAvail'.ring[Slot(gAvail'.index, VIRTQ_CONTROL_QSZ)] = Slot(gLast, VIRTQ_CONTROL_QSZ)
      BY <1>4, <2>3, RequestWrites
    <3>2. gLast \in Indices /\ gLast % NORMAL_CMD_ENTRIES = 0
      BY <1>t, <2>1 DEF GpuTypeOK, GpuChains
    <3>3. Slot(gLast', VIRTQ_CONTROL_QSZ) # Slot(gLast, VIRTQ_CONTROL_QSZ)
      BY <3>1, <3>2, NextWritableMoves
    <3>4. gpc' = "transIndex" /\ Outstanding = 0
      BY <1>4, <1>p, <2>1, <2>3 DEF TransferRequest, Request
    <3> QED  BY <1>p, <2>1, <3>1, <3>3, <3>4 DEF GpuPunctual, DeviceIdle, Outstanding
  <2> QED  BY <2>2, <2>3
<1>5. CASE TransferIndex
  <2>1. DeviceIdle /\ gpc = "transIndex" /\ gpc' = "flush" /\ UNCHANGED <<gDev, gLast>>
    BY <1>5, <1>p DEF TransferIndex, BumpIndex
  <2>2. Waiting' = {gAvail.ring[Slot(gAvail.index, VIRTQ_CONTROL_QSZ)]}
    BY <1>5, <1>p, <1>t, <2>1, IndexCovers, WaitingIsOutstanding
  <2> QED  BY <1>p, <2>1, <2>2 DEF GpuPunctual, DeviceIdle
<1>6. CASE FlushRequest
  <2>1. /\ DeviceIdle /\ UNCHANGED <<gDev, gUsed>>
        /\ IF Busy THEN gpc' = "idle" /\ UNCHANGED gAvail ELSE gpc' = "flushIndex"
    BY <1>6, <1>p DEF FlushRequest, Request
  <2> QED  BY <1>p, <2>1 DEF GpuPunctual, DeviceIdle, Busy
<1>7. CASE FlushIndex
  <2>1. DeviceIdle /\ gpc' = "notify" /\ UNCHANGED gDev
    BY <1>7, <1>p DEF FlushIndex, BumpIndex
  <2> QED  BY <1>p, <2>1 DEF GpuPunctual, DeviceIdle
<1>8. CASE FlushNotify
  <2>1. gpc' = "idle" /\ gDev'.kick /\ gDev'.cur = gDev.cur /\ gDev'.run = gDev.run
    BY <1>8, <1>t DEF FlushNotify, GpuTypeOK
  <2> QED  BY <1>p, <2>1 DEF GpuPunctual, DeviceIdle
<1>9. CASE DevWake \/ DevFetch \/ DevUse
  <2>1. /\ gpc' = gpc /\ ~ DeviceIdle
        /\ gDev'.run
    BY <1>9, <1>t, <1>p DEF DevWake, DevFetch, DevUse, DevVars, DeviceIdle, GpuTypeOK
  <2> QED  BY <1>p, <2>1 DEF GpuPunctual, DeviceIdle
<1>10. CASE DevSleep
  <2>1. /\ gpc' = gpc /\ ~ DeviceIdle /\ gDev'.cur = {} /\ gDev'.last = gAvail'.index
    BY <1>10, <1>t DEF DevSleep, DevVars, DeviceIdle, GpuTypeOK
  <2>2. gAvail'.index \in Indices
    BY <1>10, <1>t DEF DevSleep, DevVars, GpuTypeOK
  <2>3. Outstanding' = 0
    BY <2>1, <2>2, WindowEmpty DEF Outstanding
  <2> QED  BY <1>p, <2>1, <2>3 DEF GpuPunctual
<1>11. CASE UNCHANGED timedVars
  BY <1>11 DEF timedVars, gVars, GpuPunctual, DeviceIdle, Outstanding, Busy, Waiting
<1> QED
  BY <1>1, <1>2, <1>3, <1>4, <1>5, <1>6, <1>7, <1>8, <1>9, <1>10, <1>11
  DEF TimedNext, GpuNext, Driver, NormOpsRefresh, Dev

(* While no tick of the timer finds the device still at work, which is what *)
(* "30Hz is enough to avoid override" (virtgpu.c:131) supposes, no         *)
(* descriptor changes under a request that waits in the ring -- whichever  *)
(* requests abs() of the wrapped difference refuses.                       *)
THEOREM NoRequestIsOverwritten == TimedSpec => GpuNotOverwritten
<1> DEFINE Keeps == late' \/ \A h \in Waiting : gDesc'[h] = gDesc[h] /\ gDesc'[h + 1] = gDesc[h + 1]
           GInv == GpuInductive /\ GpuChains /\ GpuPunctual
<1>1. TimedInit => GInv
  <2>1. TimedInit => GpuPunctual
    BY DEF TimedInit, GpuInit, GpuPunctual
  <2> QED  BY <2>1, GpuInitInductive, GpuInitChains DEF TimedInit
<1>2. GInv /\ [TimedNext]_timedVars => GInv'
  <2>1. [TimedNext]_timedVars => [GpuNext]_gVars
    BY DEF TimedNext, timedVars
  <2> QED  BY <2>1, GpuNextInductive, GpuNextChains, PunctualNext
<1>3. GInv /\ [TimedNext]_timedVars => [Keeps]_gVars
  <2> SUFFICES ASSUME GInv, GpuNext, ~ late, ~ late', NEW h \in Waiting
               PROVE  gDesc'[h] = gDesc[h] /\ gDesc'[h + 1] = gDesc[h + 1]
    BY DEF TimedNext, timedVars
  <2>t. GpuTypeOK /\ h \in GDescs
    BY WaitingAreDescs DEF GpuInductive
  <2>1. CASE Command \/ PopulateVirtQ
    <3>1. Waiting = {}
      BY <2>1 DEF Command, PopulateVirtQ, GpuChains
    <3> QED  BY <3>1
  <2>2. CASE TransferRequest
    <3>1. gpc = "trans"  BY <2>2 DEF TransferRequest, Request
    <3>2. Outstanding # 0  BY <2>t, WaitingIsOutstanding
    <3>3. Busy  BY <3>1, <3>2 DEF GpuPunctual
    <3> QED  BY <2>2, <3>3 DEF TransferRequest, Request
  <2>3. CASE FlushRequest
    <3> DEFINE head == Slot(gLast, VIRTQ_CONTROL_QSZ)
    <3>1. gpc = "flush"  BY <2>3 DEF FlushRequest, Request
    <3>2. CASE Busy
      BY <2>3, <3>2 DEF FlushRequest, Request
    <3>3. CASE ~ Busy
      <4>1. h # head /\ h % NORMAL_CMD_ENTRIES = 0
        BY <3>1, <3>3 DEF GpuPunctual, GpuChains, Refresh
      <4>2. head \in {0, 2} /\ \A d \in GDescs : d # head => gDesc'[d] = gDesc[d]
        BY <2>3, <3>3, RequestWrites
      <4>3. h \in {0, 2} /\ h + 1 \in GDescs /\ h + 1 # head
        BY <2>t, <4>1, <4>2, EvenDescs, GpuSizes
      <4> QED  BY <2>t, <4>1, <4>2, <4>3
    <3> QED  BY <3>2, <3>3
  <2>4. CASE ~ (Command \/ PopulateVirtQ \/ TransferRequest \/ FlushRequest)
    BY <2>4 DEF GpuNext, Driver, NormOpsRefresh, WaitResponse, Tick, TransferIndex, FlushIndex,
       BumpIndex, FlushNotify, Dev, DevWake, DevFetch, DevUse, DevSleep, DevVars
  <2> QED  BY <2>1, <2>2, <2>3, <2>4
<1> QED  BY <1>1, <1>2, <1>3, PTL DEF TimedSpec, GpuNotOverwritten

-----------------------------------------------------------------------------
(* virtio-rng: many readers, one descriptor, one signal                    *)

LEMMA RngInitInductive == RngInit => RngInductive
<1> SUFFICES ASSUME RngInit PROVE RngInductive  OBVIOUS
<1> USE RngAssumption, IdxAssumption
<1>1. 0 \in Indices  BY DEF Indices
<1>2. RngTypeOK
  <2>1. rngUsed \in [index : Indices, len : 0 .. LEN]
    BY <1>1 DEF RngInit
  <2>2. rngDev \in [kick : BOOLEAN, last : Indices, cur : Readers \cup {Nobody},
                   wrote : [Readers -> 0 .. LEN]]
    BY <1>1 DEF RngInit
  <2>3. Fail \in Fail .. LEN
    BY DEF Fail
  <2> QED  BY <1>1, <2>1, <2>2, <2>3 DEF RngInit, RngTypeOK
<1>3. RngMutexHeld /\ RngAnswered  BY DEF RngInit, RngMutexHeld, RngAnswered
<1>4. RngOneAtATime
  BY DEF RngInit, RngOneAtATime, RngWaits, RngFetched, NoSignal
<1> QED  BY <1>2, <1>3, <1>4 DEF RngInductive

(* One step per action.  The mutex makes the reader that submits or waits  *)
(* unique; where its request is decides which of the others can move.      *)
LEMMA RngNextInductive == RngInductive /\ [RngNext]_rngVars => RngInductive'
<1> SUFFICES ASSUME RngInductive, [RngNext]_rngVars PROVE RngInductive'  OBVIOUS
<1> USE RngAssumption, IdxAssumption
<1>t. RngTypeOK /\ RngMutexHeld /\ RngOneAtATime /\ RngAnswered
  BY DEF RngInductive
<1>i. /\ rngAvail \in Indices /\ rngLast \in Indices /\ rngDev.last \in Indices
      /\ rngUsed.index \in Indices
      /\ \A i \in Indices : Inc(i) \in Indices /\ Inc(i) # i
  <2>1. ASSUME NEW i \in Indices PROVE Inc(i) \in Indices /\ Inc(i) # i
    BY IncLinear DEF Indices
  <2> QED  BY <1>t, <2>1 DEF RngTypeOK
<1>1. ASSUME NEW r \in Readers, ReadFails(r) PROVE RngInductive'
  <2>1. RngTypeOK'
    BY <1>1, <1>t DEF ReadFails, ReaderStep, RngTypeOK, syncVars, queueVars, rngIrqVars, Fail
  <2>2. rpc' = rpc  BY <1>1, <1>t DEF ReadFails, ReaderStep, RngTypeOK
  <2>3. RngMutexHeld' /\ RngOneAtATime' /\ RngAnswered'
    BY <1>1, <1>t, <2>2 DEF ReadFails, syncVars, queueVars, rngIrqVars, RngMutexHeld,
       RngOneAtATime, RngAnswered, RngWaits, RngFetched, NoSignal, RngAsked, RngFilling,
       RngFilled, RngSignalled
  <2> QED  BY <2>1, <2>3 DEF RngInductive
<1>2. ASSUME NEW r \in Readers, Read(r) PROVE RngInductive'
  <2>1. /\ rpc' = [rpc EXCEPT ![r] = "lock"] /\ rpc[r] = "idle"
        /\ rngDev' = [rngDev EXCEPT !.wrote = [rngDev.wrote EXCEPT ![r] = 0]]
        /\ UNCHANGED <<rlen, rret, mutex, event, rngDesc, rngAvail, rngUsed, rngLast, rngIsr, rngIrq>>
    BY <1>2 DEF Read, ReaderStep, callVars, syncVars, rngIrqVars
  <2>2. /\ rngDev'.wrote = [rngDev.wrote EXCEPT ![r] = 0] /\ rngDev'.last = rngDev.last
        /\ rngDev'.cur = rngDev.cur /\ rngDev'.kick = rngDev.kick
        /\ rngDev' \in [kick : BOOLEAN, last : Indices, cur : Readers \cup {Nobody},
                        wrote : [Readers -> 0 .. LEN]]
    BY <1>t, <2>1 DEF RngTypeOK
  <2>3. RngTypeOK'  BY <1>t, <2>1, <2>2 DEF RngTypeOK
  <2>4. RngMutexHeld' /\ RngAnswered'
    BY <1>t, <2>1, <2>2 DEF RngMutexHeld, RngAnswered, RngTypeOK
  <2>5. mutex # r
    BY <1>t, <2>1 DEF RngMutexHeld
  <2>6. RngWaits' <=> RngWaits
    BY <1>t, <2>1, <2>5 DEF RngWaits, RngTypeOK
  <2>7. RngOneAtATime'
    BY <1>t, <2>1, <2>2, <2>5, <2>6 DEF RngOneAtATime, RngTypeOK, RngFetched, NoSignal,
       RngAsked, RngFilling, RngFilled, RngSignalled, RngWaits
  <2> QED  BY <2>3, <2>4, <2>7 DEF RngInductive
<1>3. ASSUME NEW r \in Readers, Lock(r) PROVE RngInductive'
  <2>1. /\ rpc' = [rpc EXCEPT ![r] = "submit"] /\ rpc[r] = "lock" /\ mutex = Nobody /\ mutex' = r
        /\ UNCHANGED <<rlen, rret, event, rngDesc, rngAvail, rngUsed, rngDev, rngLast, rngIsr, rngIrq>>
    BY <1>3 DEF Lock, ReaderStep, callVars, queueVars, rngIrqVars
  <2>2. RngTypeOK'  BY <1>t, <2>1 DEF RngTypeOK
  <2>3. RngMutexHeld' /\ RngAnswered'
    BY <1>t, <2>1 DEF RngMutexHeld, RngAnswered, RngTypeOK
  <2>4. ~ RngWaits /\ ~ RngWaits'
    BY <1>t, <2>1 DEF RngWaits, RngTypeOK
  <2>5. RngOneAtATime'
    BY <1>t, <2>1, <2>4 DEF RngOneAtATime, RngFetched, NoSignal
  <2> QED  BY <2>2, <2>3, <2>5 DEF RngInductive
<1>4. ASSUME NEW r \in Readers, Submit(r) PROVE RngInductive'
  <2>1. /\ rpc' = [rpc EXCEPT ![r] = "wait"] /\ rpc[r] = "submit"
        /\ rngDesc' = r /\ rngAvail' = Inc(rngAvail)
        /\ rngDev' = [rngDev EXCEPT !.kick = TRUE]
        /\ UNCHANGED <<rlen, rret, mutex, event, rngUsed, rngLast, rngIsr, rngIrq>>
    BY <1>4 DEF Submit, ReaderStep, callVars, syncVars, rngIrqVars
  <2>2. /\ rngDev'.wrote = rngDev.wrote /\ rngDev'.last = rngDev.last
        /\ rngDev'.cur = rngDev.cur
        /\ rngDev' \in [kick : BOOLEAN, last : Indices, cur : Readers \cup {Nobody},
                        wrote : [Readers -> 0 .. LEN]]
    BY <1>t, <2>1 DEF RngTypeOK
  <2>3. RngTypeOK'  BY <1>t, <1>i, <2>1, <2>2 DEF RngTypeOK
  <2>4. RngMutexHeld' /\ RngAnswered'
    BY <1>t, <2>1, <2>2 DEF RngMutexHeld, RngAnswered, RngTypeOK
  <2>5. mutex = r /\ ~ RngWaits /\ RngWaits' /\ rngDev.wrote[r] = 0
    BY <1>t, <2>1 DEF RngWaits, RngMutexHeld, RngTypeOK, RngAnswered
  <2>6. RngOneAtATime'
    BY <1>t, <2>1, <2>2, <2>5 DEF RngOneAtATime, RngFetched, NoSignal, RngAsked
  <2> QED  BY <2>3, <2>4, <2>6 DEF RngInductive
<1>5. ASSUME NEW r \in Readers, Wait(r) PROVE RngInductive'
  <2>1. /\ rpc' = [rpc EXCEPT ![r] = "unlock"] /\ rpc[r] = "wait" /\ rngIrq = "idle"
        /\ event /\ event' = FALSE /\ rlen' = [rlen EXCEPT ![r] = rngUsed.len]
        /\ UNCHANGED <<rret, mutex, rngDesc, rngAvail, rngUsed, rngDev, rngLast, rngIsr, rngIrq>>
    BY <1>5 DEF Wait, ReaderStep, queueVars, rngIrqVars
  <2>2. mutex = r /\ RngWaits /\ ~ RngWaits'
    BY <1>t, <2>1 DEF RngWaits, RngMutexHeld, RngTypeOK
  <2>3. RngSignalled
    BY <1>t, <2>1, <2>2 DEF RngOneAtATime, RngAsked, RngFilling, RngFilled, NoSignal
  <2>4. RngTypeOK'
    <3>1. rngUsed.len \in Fail .. LEN  BY <1>t DEF RngTypeOK, Fail
    <3>2. rlen' \in [Readers -> Fail .. LEN]  BY <1>t, <2>1, <3>1 DEF RngTypeOK
    <3> QED  BY <1>t, <2>1, <3>2 DEF RngTypeOK
  <2>5. RngMutexHeld' /\ RngAnswered'
    BY <1>t, <2>1, <2>2, <2>3 DEF RngMutexHeld, RngAnswered, RngTypeOK, RngSignalled
  <2>6. RngOneAtATime'
    BY <2>1, <2>2, <2>3 DEF RngOneAtATime, RngSignalled, RngFetched, NoSignal
  <2> QED  BY <2>4, <2>5, <2>6 DEF RngInductive
<1>6. ASSUME NEW r \in Readers, Unlock(r) PROVE RngInductive'
  <2>1. /\ rpc' = [rpc EXCEPT ![r] = "copy"] /\ rpc[r] = "unlock" /\ mutex' = Nobody
        /\ UNCHANGED <<rlen, rret, event, rngDesc, rngAvail, rngUsed, rngDev, rngLast, rngIsr, rngIrq>>
    BY <1>6 DEF Unlock, ReaderStep, callVars, queueVars, rngIrqVars
  <2>2. mutex = r /\ ~ RngWaits /\ ~ RngWaits'
    BY <1>t, <2>1 DEF RngWaits, RngMutexHeld, RngTypeOK
  <2>3. RngTypeOK'  BY <1>t, <2>1 DEF RngTypeOK
  <2>4. RngMutexHeld' /\ RngAnswered'
    BY <1>t, <2>1, <2>2 DEF RngMutexHeld, RngAnswered, RngTypeOK
  <2>5. RngOneAtATime'
    BY <1>t, <2>1, <2>2 DEF RngOneAtATime, RngFetched, NoSignal
  <2> QED  BY <2>3, <2>4, <2>5 DEF RngInductive
<1>7. ASSUME NEW r \in Readers, CopyOut(r) PROVE RngInductive'
  <2>1. /\ rpc' = [rpc EXCEPT ![r] = "idle"] /\ rpc[r] = "copy"
        /\ \E n \in {rlen[r], Fail} : rret' = [rret EXCEPT ![r] = n]
        /\ UNCHANGED <<rlen, mutex, event, rngDesc, rngAvail, rngUsed, rngDev, rngLast, rngIsr, rngIrq>>
    BY <1>7 DEF CopyOut, ReaderStep, syncVars, queueVars, rngIrqVars
  <2>2. rret' \in [Readers -> Fail .. LEN]
    BY <1>t, <2>1 DEF RngTypeOK, Fail
  <2>3. RngTypeOK'  BY <1>t, <2>1, <2>2 DEF RngTypeOK
  <2>4. RngMutexHeld' /\ RngAnswered'
    BY <1>t, <2>1 DEF RngMutexHeld, RngAnswered, RngTypeOK
  <2>5. mutex # r
    BY <1>t, <2>1 DEF RngMutexHeld
  <2>6. RngWaits' <=> RngWaits
    BY <1>t, <2>1, <2>5 DEF RngWaits, RngTypeOK
  <2>7. RngOneAtATime'
    BY <1>t, <2>1, <2>6 DEF RngOneAtATime, RngFetched, NoSignal,
       RngAsked, RngFilling, RngFilled, RngSignalled
  <2> QED  BY <2>3, <2>4, <2>7 DEF RngInductive
<1>8. CASE RngIrqEnter
  <2>1. /\ rngIrq = "idle" /\ rngIsr /\ rngIrq' = "signal"
        /\ UNCHANGED <<rpc, rlen, rret, mutex, event, rngDesc, rngAvail, rngUsed, rngDev, rngLast, rngIsr>>
    BY <1>8 DEF RngIrqEnter, callVars, syncVars, queueVars
  <2>2. RngTypeOK' /\ RngMutexHeld' /\ RngAnswered'
    BY <1>t, <2>1 DEF RngTypeOK, RngMutexHeld, RngAnswered
  <2>3. RngOneAtATime'
    BY <1>t, <2>1 DEF RngOneAtATime, RngWaits, RngFetched, NoSignal,
       RngAsked, RngFilling, RngFilled, RngSignalled
  <2> QED  BY <2>2, <2>3 DEF RngInductive
<1>9. CASE RngIrqSignal
  <2>1. /\ rngIrq = "signal" /\ rngIrq' = "ack" /\ event' = TRUE /\ rngLast' = Inc(rngLast)
        /\ UNCHANGED <<rpc, rlen, rret, mutex, rngDesc, rngAvail, rngUsed, rngDev, rngIsr>>
    BY <1>9 DEF RngIrqSignal, callVars, queueVars
  <2>2. RngTypeOK' /\ RngMutexHeld' /\ RngAnswered'
    BY <1>t, <1>i, <2>1 DEF RngTypeOK, RngMutexHeld, RngAnswered
  <2>3. RngOneAtATime'
    BY <1>t, <2>1 DEF RngOneAtATime, RngWaits, RngFetched, NoSignal,
       RngAsked, RngFilling, RngFilled, RngSignalled
  <2> QED  BY <2>2, <2>3 DEF RngInductive
<1>10. CASE RngIrqAck
  <2>1. /\ rngIrq = "ack" /\ rngIrq' = "idle" /\ rngIsr' = FALSE
        /\ UNCHANGED <<rpc, rlen, rret, mutex, event, rngDesc, rngAvail, rngUsed, rngDev, rngLast>>
    BY <1>10 DEF RngIrqAck, callVars, syncVars, queueVars
  <2>2. RngTypeOK' /\ RngMutexHeld' /\ RngAnswered'
    BY <1>t, <2>1 DEF RngTypeOK, RngMutexHeld, RngAnswered
  <2>3. RngOneAtATime'
    BY <1>t, <2>1 DEF RngOneAtATime, RngWaits, RngFetched, NoSignal,
       RngAsked, RngFilling, RngFilled, RngSignalled
  <2> QED  BY <2>2, <2>3 DEF RngInductive
<1>11. CASE RngDevFetch
  <2>1. /\ rngDev.kick /\ rngDev.cur = Nobody
        /\ rngDev' = IF rngDev.last = rngAvail
               THEN [rngDev EXCEPT !.kick = FALSE]
               ELSE [rngDev EXCEPT !.cur = rngDesc, !.last = Inc(rngDev.last)]
        /\ UNCHANGED <<rpc, rlen, rret, mutex, event, rngDesc, rngAvail, rngUsed, rngLast, rngIsr, rngIrq>>
    BY <1>11 DEF RngDevFetch, RngDrvVars, callVars, syncVars
  <2>2. /\ rngDev'.wrote = rngDev.wrote
        /\ rngDev' \in [kick : BOOLEAN, last : Indices, cur : Readers \cup {Nobody},
                        wrote : [Readers -> 0 .. LEN]]
        /\ rngDev.last = rngAvail => rngDev'.cur = rngDev.cur /\ rngDev'.last = rngDev.last
        /\ rngDev.last # rngAvail => rngDev'.cur = rngDesc /\ rngDev'.last = Inc(rngDev.last)
    BY <1>t, <1>i, <2>1 DEF RngTypeOK
  <2>3. RngTypeOK' /\ RngMutexHeld' /\ RngAnswered'
    BY <1>t, <2>1, <2>2 DEF RngTypeOK, RngMutexHeld, RngAnswered
  <2>4. RngOneAtATime'
    BY <1>t, <1>i, <2>1, <2>2 DEF RngOneAtATime, RngWaits, RngFetched, NoSignal,
       RngAsked, RngFilling, RngFilled, RngSignalled
  <2> QED  BY <2>3, <2>4 DEF RngInductive
<1>12. CASE RngDevUse
  <2>1. PICK n \in 1 .. LEN :
          /\ rngUsed' = [index |-> Inc(rngUsed.index), len |-> n]
          /\ rngDev' = [rngDev EXCEPT !.cur = Nobody, !.wrote[rngDev.cur] = n]
    BY <1>12 DEF RngDevUse
  <2>2. /\ rngDev.cur # Nobody /\ rngIsr' = TRUE
        /\ UNCHANGED <<rpc, rlen, rret, mutex, event, rngDesc, rngAvail, rngLast, rngIrq>>
    BY <1>12 DEF RngDevUse, RngDrvVars, callVars, syncVars
  <2>3. RngWaits /\ RngFilling /\ rngDev.cur = mutex /\ mutex \in Readers /\ rpc[mutex] = "wait"
    BY <1>t, <2>2 DEF RngOneAtATime, RngAsked, RngFilled, RngSignalled, RngFetched,
       RngWaits, RngFilling, RngTypeOK
  <2>4. /\ rngDev'.wrote = [rngDev.wrote EXCEPT ![mutex] = n] /\ rngDev'.cur = Nobody
        /\ rngDev'.last = rngDev.last
        /\ rngDev' \in [kick : BOOLEAN, last : Indices, cur : Readers \cup {Nobody},
                        wrote : [Readers -> 0 .. LEN]]
    <3> DEFINE w == [rngDev.wrote EXCEPT ![mutex] = n]
    <3>1. w \in [Readers -> 0 .. LEN]  BY <1>t, <2>3 DEF RngTypeOK
    <3>2. rngDev' = [rngDev EXCEPT !.cur = Nobody, !.wrote = w]
      BY <1>t, <2>1, <2>3 DEF RngTypeOK
    <3> HIDE DEF w
    <3>3. /\ rngDev'.wrote = w /\ rngDev'.cur = Nobody /\ rngDev'.last = rngDev.last
          /\ rngDev' \in [kick : BOOLEAN, last : Indices, cur : Readers \cup {Nobody},
                          wrote : [Readers -> 0 .. LEN]]
      BY <1>t, <3>1, <3>2 DEF RngTypeOK
    <3> QED  BY <3>3 DEF w
  <2>5. rngUsed' \in [index : Indices, len : 0 .. LEN] /\ rngUsed'.index = Inc(rngUsed.index)
        /\ rngUsed'.len = n /\ n # 0
    BY <1>i, <2>1
  <2>6. RngTypeOK'  BY <1>t, <2>2, <2>4, <2>5 DEF RngTypeOK
  <2>7. RngMutexHeld' /\ RngAnswered'
    BY <1>t, <2>2, <2>3, <2>4 DEF RngTypeOK, RngMutexHeld, RngAnswered
  <2>8. rngDev'.wrote[mutex] = n
    BY <1>t, <2>3, <2>4 DEF RngTypeOK
  <2>9. RngWaits' /\ RngFilled'
    BY <2>2, <2>3, <2>4, <2>5, <2>8 DEF RngWaits, RngFilling, RngFilled, RngFetched, NoSignal
  <2> QED  BY <2>6, <2>7, <2>9 DEF RngInductive, RngOneAtATime
<1>13. CASE UNCHANGED rngVars
  BY <1>13, <1>t DEF rngVars, callVars, syncVars, queueVars, rngIrqVars, RngInductive, RngTypeOK,
     RngMutexHeld, RngOneAtATime, RngWaits, RngFetched, NoSignal, RngAsked, RngFilling,
     RngFilled, RngSignalled, RngAnswered
<1> QED
  BY <1>1, <1>2, <1>3, <1>4, <1>5, <1>6, <1>7, <1>8, <1>9, <1>10, <1>11, <1>12, <1>13
  DEF RngNext, ReaderNext, RngIrq, RngDevice

(* What the run checks follows from where the request is.                  *)
LEMMA RngInductiveImplies == RngInductive => RngInvariant
<1> SUFFICES ASSUME RngInductive PROVE RngInvariant  OBVIOUS
<1>1. RngTypeOK /\ RngMutexHeld /\ RngOneAtATime  BY DEF RngInductive
<1>2. RngWritesOnlyIfWaited
  BY <1>1, RngAssumption DEF RngWritesOnlyIfWaited, RngTypeOK, RngMutexHeld, RngOneAtATime,
     RngWaits, RngFetched, RngAsked, RngFilling, RngFilled, RngSignalled
<1>3. RngSignalIsForWaiter
  BY <1>1 DEF RngSignalIsForWaiter, RngOneAtATime, RngWaits, NoSignal, RngAsked, RngFilling,
     RngFilled, RngSignalled
<1> QED  BY <1>1, <1>2, <1>3 DEF RngInvariant

(* The invariant of VirtrngIO, VirtrngIRQhandle and the device, for any    *)
(* number of readers.                                                      *)
THEOREM RngAlwaysInductive == RngSpec => []RngInductive
BY RngInitInductive, RngNextInductive, PTL DEF RngSpec

(* The device writes only into the buffer of a reader that still waits, and *)
(* a signal of VirtrngIRQhandle is for the reader that waits now.          *)
THEOREM ReadsAreSafe == RngSpec => []RngInvariant
BY RngAlwaysInductive, RngInductiveImplies, PTL

LEMMA CallsInit == RngInit => Calls!RqInit
<1> SUFFICES ASSUME RngInit PROVE Calls!RqInit  OBVIOUS
<1>1. {r \in Readers : BetweenAskAndAnswer(r)} = {}
  BY DEF RngInit, BetweenAskAndAnswer
<1>2. [r \in Readers |-> IF rpc[r] # "idle" /\ rngDev.wrote[r] # 0 THEN rngDev.wrote[r] ELSE Fail]
       = [r \in Readers |-> Fail]
  BY DEF RngInit
<1>3. rret \in [Readers -> 1 .. LEN \cup {Fail}]
  BY DEF RngInit
<1> QED  BY <1>1, <1>2, <1>3 DEF Calls!RqInit

(* The parts of the promise, as the variables of Requests have them.       *)
CallAsked == {r \in Readers : BetweenAskAndAnswer(r)}
CallAnswer == [r \in Readers |->
               IF rpc[r] # "idle" /\ rngDev.wrote[r] # 0 THEN rngDev.wrote[r] ELSE Fail]

(* Every step is a step of Requests: the device answers where it fills the *)
(* buffer, not where the reader hears of it.                               *)
LEMMA CallsNext ==
  RngInductive /\ [RngNext]_rngVars => [Calls!RqNext]_(Calls!rqVars)
<1> SUFFICES ASSUME RngInductive, [RngNext]_rngVars
             PROVE  Calls!RqNext \/ (CallAsked' = CallAsked /\ CallAnswer' = CallAnswer /\ rret' = rret)
  BY DEF Calls!rqVars, CallAsked, CallAnswer
<1> USE RngAssumption
<1>t. RngTypeOK /\ RngMutexHeld /\ RngOneAtATime /\ RngAnswered
  BY DEF RngInductive
<1>1. ASSUME NEW r \in Readers, ReadFails(r) PROVE Calls!Refuse(r)
  <2>1. rpc' = rpc /\ rpc[r] = "idle" /\ rngDev' = rngDev /\ rret' = [rret EXCEPT ![r] = Fail]
    BY <1>1, <1>t DEF ReadFails, ReaderStep, RngTypeOK, queueVars
  <2>2. r \notin CallAsked /\ CallAnswer[r] = Fail /\ CallAsked' = CallAsked /\ CallAnswer' = CallAnswer
    BY <2>1 DEF CallAsked, CallAnswer, BetweenAskAndAnswer
  <2> QED  BY <2>1, <2>2 DEF Calls!Refuse, CallAsked, CallAnswer
<1>2. ASSUME NEW r \in Readers, Read(r) PROVE Calls!Ask(r)
  <2>1. /\ rpc' = [rpc EXCEPT ![r] = "lock"] /\ rpc[r] = "idle" /\ rret' = rret
        /\ rngDev' = [rngDev EXCEPT !.wrote = [rngDev.wrote EXCEPT ![r] = 0]]
    BY <1>2 DEF Read, ReaderStep, callVars
  <2>2. /\ \A q \in Readers : rpc'[q] = IF q = r THEN "lock" ELSE rpc[q]
        /\ \A q \in Readers : rngDev'.wrote[q] = IF q = r THEN 0 ELSE rngDev.wrote[q]
    BY <1>t, <2>1 DEF RngTypeOK
  <2>3. r \notin CallAsked /\ CallAsked' = CallAsked \cup {r}
    BY <2>1, <2>2 DEF CallAsked, BetweenAskAndAnswer
  <2>4. CallAnswer' = CallAnswer
    BY <2>1, <2>2 DEF CallAnswer
  <2> QED  BY <2>1, <2>3, <2>4 DEF Calls!Ask, CallAsked, CallAnswer
<1>3. ASSUME NEW r \in Readers, Lock(r) \/ Submit(r) \/ Wait(r) \/ Unlock(r)
      PROVE  CallAsked' = CallAsked /\ CallAnswer' = CallAnswer /\ rret' = rret
  <2>1. /\ rret' = rret /\ rngDev'.wrote = rngDev.wrote
        /\ rpc[r] \in {"lock", "submit", "wait", "unlock"}
        /\ \E to \in {"submit", "wait", "unlock", "copy"} :
             rpc' = [rpc EXCEPT ![r] = to] /\ (to = "unlock" <=> Wait(r))
             /\ (to = "copy" <=> rpc[r] = "unlock")
    BY <1>3, <1>t DEF Lock, Submit, Wait, Unlock, ReaderStep, callVars, queueVars, RngTypeOK
  <2>2. PICK to \in {"submit", "wait", "unlock", "copy"} :
             rpc' = [rpc EXCEPT ![r] = to] /\ (to = "unlock" <=> Wait(r))
             /\ (to = "copy" <=> rpc[r] = "unlock")
    BY <2>1
  <2>3. Wait(r) => rngDev.wrote[r] # 0
    BY <1>t DEF Wait, ReaderStep, RngMutexHeld, RngOneAtATime, RngWaits, RngAsked, RngFilling,
       RngFilled, RngSignalled, NoSignal, RngTypeOK
  <2>4. rpc[r] = "unlock" => rngDev.wrote[r] # 0
    BY <1>t DEF RngAnswered
  <2>5. \A q \in Readers : rpc'[q] = IF q = r THEN to ELSE rpc[q]
    BY <1>t, <2>2 DEF RngTypeOK
  <2>6. CallAsked' = CallAsked
    BY <2>1, <2>2, <2>3, <2>4, <2>5 DEF CallAsked, BetweenAskAndAnswer
  <2>7. CallAnswer' = CallAnswer
    BY <2>1, <2>2, <2>5 DEF CallAnswer
  <2> QED  BY <2>1, <2>6, <2>7
<1>4. ASSUME NEW r \in Readers, CopyOut(r) PROVE Calls!Return(r)
  <2>1. /\ rpc' = [rpc EXCEPT ![r] = "idle"] /\ rpc[r] = "copy" /\ rngDev' = rngDev
        /\ \E n \in {rlen[r], Fail} : rret' = [rret EXCEPT ![r] = n]
    BY <1>4 DEF CopyOut, ReaderStep, queueVars
  <2>2. rngDev.wrote[r] # 0 /\ rlen[r] = rngDev.wrote[r] /\ rngDev.wrote[r] \in 0 .. LEN
    BY <1>t, <2>1 DEF RngAnswered, RngTypeOK
  <2>3. \A q \in Readers : rpc'[q] = IF q = r THEN "idle" ELSE rpc[q]
    BY <1>t, <2>1 DEF RngTypeOK
  <2>4. r \notin CallAsked /\ CallAsked' = CallAsked
    BY <2>1, <2>2, <2>3 DEF CallAsked, BetweenAskAndAnswer
  <2>5. CallAnswer[r] = rlen[r] /\ CallAnswer[r] # Fail
    BY <2>1, <2>2 DEF CallAnswer, Fail
  <2>6. CallAnswer' = [CallAnswer EXCEPT ![r] = Fail]
    BY <2>1, <2>2, <2>3 DEF CallAnswer
  <2>7. rret' \in {[rret EXCEPT ![r] = a] : a \in {CallAnswer[r], Fail}}
    BY <2>1, <2>5
  <2> QED  BY <2>4, <2>5, <2>6, <2>7 DEF Calls!Return, CallAsked, CallAnswer
<1>5. CASE RngIrq \/ RngDevFetch
  <2>1. rret' = rret /\ rpc' = rpc /\ (RngIrq => rngDev' = rngDev)
    BY <1>5 DEF RngIrq, RngIrqEnter, RngIrqSignal, RngIrqAck, RngDevFetch, callVars, queueVars,
       RngDrvVars
  <2>2. RngDevFetch => rngDev'.wrote = rngDev.wrote
    BY <1>t DEF RngDevFetch, RngTypeOK
  <2>3. rngDev'.wrote = rngDev.wrote
    BY <1>5, <2>1, <2>2
  <2> QED  BY <2>1, <2>3 DEF CallAsked, CallAnswer, BetweenAskAndAnswer
<1>6. CASE RngDevUse
  <2>1. PICK n \in 1 .. LEN :
          rngDev' = [rngDev EXCEPT !.cur = Nobody, !.wrote[rngDev.cur] = n]
    BY <1>6 DEF RngDevUse
  <2>2. rngDev.cur # Nobody /\ rpc' = rpc /\ rret' = rret
    BY <1>6 DEF RngDevUse, RngDrvVars, callVars
  <2>3. rngDev.cur \in Readers /\ rpc[rngDev.cur] = "wait" /\ rngDev.wrote[rngDev.cur] = 0
    <3>1. RngWaits /\ RngFilling
      BY <1>t, <2>2 DEF RngOneAtATime, RngAsked, RngFilled, RngSignalled, RngFetched
    <3>2. rngDev.cur = mutex /\ rpc[mutex] = "wait" /\ rngDev.wrote[mutex] = 0
      BY <3>1 DEF RngWaits, RngFilling
    <3> QED  BY <1>t, <2>2, <3>2 DEF RngTypeOK
  <2>4. \A q \in Readers : rngDev'.wrote[q] = IF q = rngDev.cur THEN n ELSE rngDev.wrote[q]
    BY <1>t, <2>1, <2>3 DEF RngTypeOK
  <2>5. rngDev.cur \in CallAsked /\ CallAsked' = CallAsked \ {rngDev.cur}
    BY <2>2, <2>3, <2>4 DEF CallAsked, BetweenAskAndAnswer
  <2>6. CallAnswer' = [CallAnswer EXCEPT ![rngDev.cur] = n]
    <3>1. \A q \in Readers : CallAnswer'[q] = IF q = rngDev.cur THEN n ELSE CallAnswer[q]
      BY <2>2, <2>3, <2>4 DEF CallAnswer
    <3>2. DOMAIN CallAnswer = Readers /\ DOMAIN CallAnswer' = Readers
          /\ CallAnswer = [q \in Readers |-> CallAnswer[q]]
          /\ CallAnswer' = [q \in Readers |-> CallAnswer'[q]]
      BY DEF CallAnswer
    <3> QED  BY <3>1, <3>2
  <2>7. Calls!Answer(rngDev.cur, n)
    BY <2>2, <2>5, <2>6 DEF Calls!Answer, CallAsked, CallAnswer
  <2> QED  BY <2>3, <2>7 DEF Calls!RqNext
<1>7. CASE UNCHANGED rngVars
  BY <1>7 DEF rngVars, callVars, queueVars, CallAsked, CallAnswer, BetweenAskAndAnswer
<1>8. ASSUME NEW r \in Readers, Read(r) \/ ReadFails(r) \/ CopyOut(r) PROVE Calls!RqNext
  BY <1>1, <1>2, <1>4, <1>8 DEF Calls!RqNext
<1> QED
  BY <1>3, <1>5, <1>6, <1>7, <1>8 DEF RngNext, ReaderNext, RngIrq, RngDevice

(* VirtrngRead returns the length of what the device wrote for this very   *)
(* call, or fails, however many readers share the descriptor.              *)
THEOREM ReadsAreAnswered == RngSpec => ImplementsRequests
BY CallsInit, CallsNext, RngAlwaysInductive, PTL
DEF RngSpec, ImplementsRequests, Calls!RqSpec

-----------------------------------------------------------------------------
(* virtio-block: one static request                                        *)

(* The argument of a command names one sector, in sectors or in bytes, and *)
(* the driver finds it.                                                    *)
LEMMA ArgumentNames ==
  ASSUME NEW s \in Sectors, NEW q \in Sectors
  PROVE  /\ Argument(s) \in Nat
         /\ Argument(s) = Argument(q) => s = q
         /\ ~ blockAddr => Argument(s) \div SEC_SIZE = s
<1> USE BlkAssumption
<1>1. s \in Nat /\ q \in Nat /\ SEC_SIZE \in Nat /\ SEC_SIZE > 0
  OBVIOUS
<1>2. s * SEC_SIZE \in Nat /\ q * SEC_SIZE \in Nat
  BY <1>1
<1>3. ASSUME NEW a \in Nat, NEW b \in Nat, a < b PROVE a * SEC_SIZE < b * SEC_SIZE
  <2>1. b - a \in Nat /\ b - a >= 1
    BY <1>3
  <2>2. (b - a) * SEC_SIZE >= SEC_SIZE
    BY <1>1, <2>1
  <2>3. (b - a) * SEC_SIZE = b * SEC_SIZE - a * SEC_SIZE
    BY <1>1
  <2> QED  BY <1>1, <2>2, <2>3
<1>4. s * SEC_SIZE = q * SEC_SIZE => s = q
  BY <1>1, <1>3
<1>5. (s * SEC_SIZE) \div SEC_SIZE = s
  BY <1>1
<1> QED  BY <1>1, <1>2, <1>4, <1>5 DEF Argument

LEMMA BlkInitInductive == BlkInit => BlkInductive
<1> SUFFICES ASSUME BlkInit PROVE BlkInductive  OBVIOUS
<1> USE IdxAssumption
<1>1. 0 \in Indices  BY DEF Indices
<1>2. PICK s \in Sectors : /\ mmcCmd = [code |-> "read", argument |-> s]
                           /\ breq = [type |-> "in", sector |-> s]
  BY DEF BlkInit
<1>3. BlkShapes
  BY <1>1, <1>2, BlkAssumption DEF BlkInit, BlkShapes
<1>4. BlkTypeOK
  BY <1>1, <1>2, <1>3 DEF BlkInit, BlkTypeOK, BlkShapes
<1>5. BlkCommandRead /\ BlkRequestFilled /\ BlkOneAtATime
  BY DEF BlkInit, BlkCommandRead, BlkRequestFilled, BlkOneAtATime, BlkAtRest, BlkNoSignal
<1> QED  BY <1>3, <1>4, <1>5 DEF BlkInductive

(* One step per action, by where the request is.                           *)
LEMMA BlkNextInductive == BlkInductive /\ [BlkNext]_blkVars => BlkInductive'
<1> SUFFICES ASSUME BlkInductive, [BlkNext]_blkVars PROVE BlkInductive'  OBVIOUS
<1> USE BlkAssumption, IdxAssumption
<1>t. BlkTypeOK /\ BlkShapes /\ BlkCommandRead /\ BlkRequestFilled /\ BlkOneAtATime
  BY DEF BlkInductive
<1>i. /\ bAvail \in Indices /\ bUsed \in Indices /\ bLast \in Indices /\ bDev.last \in Indices
      /\ \A i \in Indices : Inc(i) \in Indices /\ Inc(i) # i
  <2>1. ASSUME NEW i \in Indices PROVE Inc(i) \in Indices /\ Inc(i) # i
    BY IncLinear DEF Indices
  <2> QED  BY <1>t, <2>1 DEF BlkTypeOK
<1>1. ASSUME NEW code \in {"read", "write"}, NEW s \in Sectors, NEW d \in Data,
             MmcCommand(code, s, d)
      PROVE  BlkInductive'
  <2>1. /\ bpc = "idle" /\ bpc' = "mmc" /\ bIrq = "idle"
        /\ mmcCmd' = [code |-> code, argument |-> Argument(s)] /\ buf' = d /\ result' = FALSE
        /\ UNCHANGED <<blockAddr, breq, bAvail, bEvent, bIsr, bLast, bIrq, bresp, bUsed, disk, bDev>>
    BY <1>1 DEF MmcCommand, TaskStep, bIrqVars, devVars
  <2>2. Argument(s) \in Nat /\ Argument(s)' = Argument(s)
    BY <2>1, ArgumentNames DEF Argument
  <2>3. BlkTypeOK' /\ BlkShapes'
    BY <1>t, <2>1, <2>2 DEF BlkTypeOK, BlkShapes
  <2>4. BlkCommandRead' /\ BlkRequestFilled'
    BY <2>1, <2>2 DEF BlkCommandRead, BlkRequestFilled, Argument
  <2>5. BlkOneAtATime'
    BY <1>t, <2>1 DEF BlkOneAtATime, BlkAtRest, BlkNoSignal
  <2> QED  BY <2>3, <2>4, <2>5 DEF BlkInductive
<1>2. CASE FillRequest
  <2>1. /\ bpc = "mmc" /\ bpc' = "publish" /\ bIrq = "idle" /\ breq' = BlkRequest(StartSector)
        /\ UNCHANGED <<mmcCmd, blockAddr, buf, result, bAvail, bEvent, bIsr, bLast, bIrq,
                       bresp, bUsed, disk, bDev>>
    BY <1>2 DEF FillRequest, TaskStep, bIrqVars, devVars, BlkRequest
  <2>2. PICK s \in Sectors : mmcCmd.argument = Argument(s)
    BY <1>t, <2>1 DEF BlkCommandRead
  <2>3. StartSector = s
    BY <2>2, ArgumentNames DEF StartSector, Argument
  <2>4. breq' \in [type : {"in", "out"}, sector : Sectors]
    BY <2>1, <2>3 DEF BlkRequest
  <2>5. BlkTypeOK' /\ BlkShapes'
    BY <1>t, <2>1, <2>4 DEF BlkTypeOK, BlkShapes
  <2>6. BlkCommandRead' /\ BlkRequestFilled'
    BY <2>1, <2>2, <2>3 DEF BlkCommandRead, BlkRequestFilled, Argument, BlkRequest
  <2>7. BlkOneAtATime'
    BY <1>t, <2>1 DEF BlkOneAtATime, BlkAtRest, BlkNoSignal
  <2> QED  BY <2>5, <2>6, <2>7 DEF BlkInductive
<1>3. CASE Publish
  <2>1. /\ bpc = "publish" /\ bpc' = "notify" /\ bIrq = "idle" /\ bAvail' = Inc(bAvail)
        /\ UNCHANGED <<mmcCmd, blockAddr, buf, breq, result, bEvent, bIsr, bLast, bIrq,
                       bresp, bUsed, disk, bDev>>
    BY <1>3 DEF Publish, TaskStep, NextAvail, bIrqVars, devVars
  <2>2. BlkTypeOK' /\ BlkShapes'
    BY <1>t, <1>i, <2>1 DEF BlkTypeOK, BlkShapes
  <2>3. BlkCommandRead' /\ BlkRequestFilled'
    BY <1>t, <2>1 DEF BlkCommandRead, BlkRequestFilled, Argument, BlkRequest
  <2>4. BlkPublished'
    BY <1>t, <2>1 DEF BlkOneAtATime, BlkAtRest, BlkNoSignal, BlkPublished
  <2> QED  BY <2>1, <2>2, <2>3, <2>4 DEF BlkInductive, BlkOneAtATime
<1>4. CASE NotifyDevice
  <2>1. /\ bpc = "notify" /\ bpc' = "wait" /\ bDev' = [bDev EXCEPT !.kick = TRUE]
        /\ UNCHANGED <<mmcCmd, blockAddr, buf, breq, result, bAvail, bEvent, bIsr, bLast, bIrq,
                       bresp, bUsed, disk>>
    BY <1>4 DEF NotifyDevice, TaskStep, bIrqVars, taskVars
  <2>2. /\ bDev' \in [kick : BOOLEAN, last : Indices,
                      doing : {Idle} \cup [type : {"in", "out"}, sector : Sectors]]
        /\ bDev'.last = bDev.last /\ bDev'.doing = bDev.doing /\ bDev'.kick = TRUE
    BY <1>t, <2>1 DEF BlkShapes
  <2>3. BlkTypeOK' /\ BlkShapes'
    BY <1>t, <2>1, <2>2 DEF BlkTypeOK, BlkShapes
  <2>4. BlkCommandRead' /\ BlkRequestFilled'
    BY <1>t, <2>1 DEF BlkCommandRead, BlkRequestFilled, Argument, BlkRequest
  <2>5. BlkOneAtATime'
    BY <1>t, <2>1, <2>2 DEF BlkOneAtATime, BlkAtRest, BlkNoSignal, BlkPublished, BlkAtWork,
       BlkDone, BlkSignalled
  <2> QED  BY <2>3, <2>4, <2>5 DEF BlkInductive
<1>5. CASE WaitIO
  <2>1. /\ bpc = "wait" /\ bpc' = "return" /\ bIrq = "idle" /\ bEvent /\ bEvent' = FALSE
        /\ UNCHANGED <<mmcCmd, blockAddr, buf, breq, result, bAvail, bIsr, bLast, bIrq,
                       bresp, bUsed, disk, bDev>>
    BY <1>5 DEF WaitIO, Await, TaskStep, bIrqVars, taskVars, devVars
  <2>2. BlkTypeOK' /\ BlkShapes'
    BY <1>t, <2>1 DEF BlkTypeOK, BlkShapes
  <2>3. BlkCommandRead' /\ BlkRequestFilled'
    BY <1>t, <2>1 DEF BlkCommandRead, BlkRequestFilled, Argument, BlkRequest
  <2>4. BlkOneAtATime'
    BY <1>t, <2>1 DEF BlkOneAtATime, BlkAtRest, BlkNoSignal, BlkPublished, BlkAtWork,
       BlkDone, BlkSignalled
  <2> QED  BY <2>2, <2>3, <2>4 DEF BlkInductive
<1>6. CASE ReturnError
  <2>1. /\ bpc = "return" /\ bpc' = "idle" /\ result' = Succeeded
        /\ UNCHANGED <<mmcCmd, blockAddr, buf, breq, bAvail, bEvent, bIsr, bLast, bIrq,
                       bresp, bUsed, disk, bDev>>
    BY <1>6 DEF ReturnError, TaskStep, bIrqVars, devVars
  <2>2. BlkTypeOK' /\ BlkShapes'
    BY <1>t, <2>1 DEF BlkTypeOK, BlkShapes, Succeeded
  <2>3. BlkCommandRead' /\ BlkRequestFilled'
    BY <2>1 DEF BlkCommandRead, BlkRequestFilled
  <2>4. BlkOneAtATime'
    BY <1>t, <2>1 DEF BlkOneAtATime, BlkAtRest, BlkNoSignal
  <2> QED  BY <2>2, <2>3, <2>4 DEF BlkInductive
<1>7. CASE BlkIrq
  <2>1. UNCHANGED <<bpc, mmcCmd, blockAddr, buf, breq, result, bAvail, bresp, bUsed, disk, bDev>>
    BY <1>7 DEF BlkIrq, BlkIrqEnter, BlkIrqSignal, BlkIrqAck, taskVars, devVars
  <2>2. BlkTypeOK' /\ BlkShapes'
    <3>1. /\ bEvent' \in BOOLEAN /\ bIsr' \in BOOLEAN /\ bLast' \in Indices
          /\ bIrq' \in {"idle", "signal", "ack"}
      BY <1>7, <1>t, <1>i DEF BlkIrq, BlkIrqEnter, BlkIrqSignal, BlkIrqAck, BlkTypeOK
    <3> QED  BY <1>t, <2>1, <3>1 DEF BlkTypeOK, BlkShapes
  <2>3. BlkCommandRead' /\ BlkRequestFilled'
    BY <1>t, <2>1 DEF BlkCommandRead, BlkRequestFilled, Argument, BlkRequest
  <2>4. BlkOneAtATime'
    BY <1>7, <1>t, <1>i, <2>1 DEF BlkIrq, BlkIrqEnter, BlkIrqSignal, BlkIrqAck,
       BlkOneAtATime, BlkAtRest, BlkNoSignal, BlkPublished, BlkAtWork, BlkDone, BlkSignalled
  <2> QED  BY <2>2, <2>3, <2>4 DEF BlkInductive
<1>8. CASE BlkDevFetch
  <2>1. /\ bDev.doing = Idle
        /\ bDev' = IF bDev.last = bAvail THEN [bDev EXCEPT !.kick = FALSE]
                   ELSE [bDev EXCEPT !.doing = breq, !.last = Inc(bDev.last)]
        /\ UNCHANGED <<bpc, mmcCmd, blockAddr, buf, breq, result, bAvail, bEvent, bIsr, bLast, bIrq,
                       bresp, bUsed, disk>>
    BY <1>8 DEF BlkDevFetch, blkDrvVars, bIrqVars
  <2>2. /\ bDev' \in [kick : BOOLEAN, last : Indices,
                      doing : {Idle} \cup [type : {"in", "out"}, sector : Sectors]]
        /\ bDev.last = bAvail => bDev'.last = bDev.last /\ bDev'.doing = bDev.doing
        /\ bDev.last # bAvail => bDev'.last = Inc(bDev.last) /\ bDev'.doing = breq
    BY <1>t, <1>i, <2>1 DEF BlkShapes
  <2>3. BlkTypeOK' /\ BlkShapes'
    <3>1. /\ bDev'.kick \in BOOLEAN /\ bDev'.last \in Indices
          /\ bDev'.doing \in {Idle} \cup [type : {"in", "out"}, sector : Sectors]
      BY <2>2
    <3>2. bDev'.doing = Idle \/ (/\ bDev'.doing.type \in {"in", "out"}
                                 /\ bDev'.doing.sector \in Sectors)
      BY <3>1
    <3> QED  BY ZenonT(60), <1>t, <2>1, <2>2, <3>1, <3>2 DEF BlkTypeOK, BlkShapes
  <2>4. BlkCommandRead' /\ BlkRequestFilled'
    BY <1>t, <2>1 DEF BlkCommandRead, BlkRequestFilled, Argument, BlkRequest
  <2>5. BlkOneAtATime'
    BY <1>t, <2>1, <2>2 DEF BlkOneAtATime, BlkAtRest, BlkNoSignal, BlkPublished, BlkAtWork,
       BlkDone, BlkSignalled
  <2> QED  BY <2>3, <2>4, <2>5 DEF BlkInductive
<1>9. CASE BlkDevRead \/ BlkDevWrite
  <2>1. /\ bDev.doing.type \in {"in", "out"} /\ bDev' = [bDev EXCEPT !.doing = Idle]
        /\ bUsed' = Inc(bUsed) /\ bIsr' = TRUE /\ bresp' \in {"ok", "ioerr"}
        /\ UNCHANGED <<bpc, mmcCmd, blockAddr, breq, result, bAvail, bEvent, bLast, bIrq>>
    BY <1>9 DEF BlkDevRead, BlkDevWrite, BlkDevDone, blkDrvVars, bIrqVars
  <2>2. /\ bDev.doing # Idle /\ bDev.doing.sector \in Sectors
        /\ bDev' \in [kick : BOOLEAN, last : Indices,
                      doing : {Idle} \cup [type : {"in", "out"}, sector : Sectors]]
        /\ bDev'.last = bDev.last /\ bDev'.doing = Idle
    BY <1>t, <2>1 DEF BlkShapes, Idle
  <2>3. buf' \in Data /\ disk' \in [Sectors -> Data]
    <3> DEFINE written == [disk EXCEPT ![bDev.doing.sector] = buf]
    <3>1. buf \in Data /\ disk \in [Sectors -> Data]  BY <1>t DEF BlkTypeOK
    <3>2. written \in [Sectors -> Data]  BY <2>2, <3>1
    <3>3. disk[bDev.doing.sector] \in Data  BY <2>2, <3>1
    <3>4. /\ buf' \in Data \/ buf' = buf \/ buf' = disk[bDev.doing.sector]
          /\ disk' = disk \/ disk' = written
      BY <1>9 DEF BlkDevRead, BlkDevWrite
    <3> HIDE DEF written
    <3> QED  BY <3>1, <3>2, <3>3, <3>4
  <2>4. BlkTypeOK' /\ BlkShapes'
    BY <1>t, <1>i, <2>1, <2>2, <2>3 DEF BlkTypeOK, BlkShapes
  <2>5. BlkCommandRead' /\ BlkRequestFilled'
    BY <1>t, <2>1 DEF BlkCommandRead, BlkRequestFilled, Argument, BlkRequest
  <2>6. bpc \in {"notify", "wait"} /\ BlkAtWork
    BY <1>t, <2>2 DEF BlkOneAtATime, BlkAtRest, BlkPublished, BlkDone, BlkSignalled
  <2>7. BlkDone'
    BY <2>1, <2>2, <2>6 DEF BlkAtWork, BlkDone, BlkAtRest, BlkNoSignal
  <2> QED  BY <2>1, <2>4, <2>5, <2>6, <2>7 DEF BlkInductive, BlkOneAtATime
<1>10. CASE UNCHANGED blkVars
  BY <1>10, <1>t DEF blkVars, taskVars, bIrqVars, devVars, BlkInductive, BlkTypeOK, BlkShapes,
     BlkCommandRead, BlkRequestFilled, Argument, BlkRequest, BlkOneAtATime, BlkAtRest,
     BlkNoSignal, BlkPublished, BlkAtWork, BlkDone, BlkSignalled
<1> QED
  BY <1>1, <1>2, <1>3, <1>4, <1>5, <1>6, <1>7, <1>8, <1>9, <1>10
  DEF BlkNext, Task, BlkDevice

(* What the run checks follows from where the request is.                  *)
LEMMA BlkInductiveImplies == BlkInductive => BlkInvariant
<1> SUFFICES ASSUME BlkInductive PROVE BlkInvariant  OBVIOUS
<1> USE BlkAssumption, IdxAssumption
<1>1. BlkTypeOK /\ BlkShapes /\ BlkOneAtATime  BY DEF BlkInductive
<1>2. /\ bAvail \in Indices /\ bUsed \in Indices /\ bDev.last \in Indices
      /\ Dist(bAvail, bAvail) = 0 /\ Inc(bDev.last) # bDev.last
  BY <1>1, IncLinear, WindowEmpty DEF BlkTypeOK, Indices
<1>3. Dist(bUsed, Inc(bUsed)) = 1
  BY <1>2, WindowPush, WindowEmpty
<1>4. bDev.doing # Idle => bDev.doing = breq
  BY <1>1 DEF BlkOneAtATime, BlkPublished, BlkAtWork, BlkDone, BlkSignalled, BlkAtRest
<1>5. DeviceOwns => BlkPublished \/ BlkAtWork
  BY <1>1 DEF BlkOneAtATime, BlkDone, BlkSignalled, BlkAtRest, DeviceOwns
<1>6. breq # Idle
  BY <1>1 DEF BlkShapes, Idle
<1>7. BlkPublished \/ BlkAtWork => DeviceOwns /\ bAvail = Inc(bUsed) /\ ~ bEvent
  BY <1>2, <1>6 DEF BlkPublished, BlkAtWork, DeviceOwns, BlkNoSignal
<1>8. ~ (BlkPublished \/ BlkAtWork) => bUsed = bAvail
  BY <1>1 DEF BlkOneAtATime, BlkDone, BlkSignalled
<1>9. DeviceOwns => bpc \in {"notify", "wait"}
  BY <1>1 DEF BlkOneAtATime, BlkAtRest, DeviceOwns
<1>10. BlkSynchronous
  BY <1>2, <1>3, <1>4, <1>5, <1>7, <1>8, <1>9 DEF BlkSynchronous
<1>11. bEvent => bpc \in {"notify", "wait"}
  BY <1>1 DEF BlkOneAtATime, BlkNoSignal
<1>12. BlkSignalIsForRequest
  BY <1>5, <1>7, <1>11 DEF BlkSignalIsForRequest
<1> QED  BY <1>1, <1>10, <1>12 DEF BlkInvariant

(* The invariant of VirtblkIO, VirtblkIRQhandle and the device.            *)
THEOREM BlkAlwaysInductive == BlkSpec => []BlkInductive
BY BlkInitInductive, BlkNextInductive, PTL DEF BlkSpec

(* "The driver and the device are always in synchonous mode": the static   *)
(* request is not touched while the device has it, and no signal is left   *)
(* over for the next one.                                                  *)
THEOREM RequestsAreSynchronous == BlkSpec => []BlkInvariant
BY BlkAlwaysInductive, BlkInductiveImplies, PTL

(* The request is the one the command names, on the sector it names.       *)
LEMMA SectorIsNamed ==
  ASSUME BlkInductive
  PROVE  /\ bpc # "idle" => Sector \in Sectors /\ Argument(Sector) = mmcCmd.argument
         /\ bpc \notin {"idle", "mmc"} => breq = BlkRequest(Sector)
<1>1. bpc # "idle" => \E s \in Sectors : mmcCmd.argument = Argument(s)
  BY DEF BlkInductive, BlkCommandRead
<1>2. bpc # "idle" => Sector \in Sectors /\ Argument(Sector) = mmcCmd.argument
  BY <1>1 DEF Sector
<1>3. ASSUME bpc \notin {"idle", "mmc"} PROVE breq = BlkRequest(Sector)
  <2>1. PICK s \in Sectors : mmcCmd.argument = Argument(s) /\ breq = BlkRequest(s)
    BY <1>3 DEF BlkInductive, BlkRequestFilled
  <2>2. s = Sector
    BY <1>2, <1>3, <2>1, ArgumentNames
  <2> QED  BY <2>1, <2>2
<1> QED  BY <1>2, <1>3

(* The mapping of request, answer and outcome to Disk.                     *)
HostRequest == IF NotDone THEN {AsRequest} ELSE {}
HostAnswer == IF NotDone \/ bpc = "idle" THEN {} ELSE {AsOutcome(bresp = "ok")}
HostOutcome == AsOutcome(bpc = "idle" /\ result)

LEMMA DiskInitHolds == BlkInit => Host!DiskInit
<1> SUFFICES ASSUME BlkInit PROVE Host!DiskInit  OBVIOUS
<1>1. ~ NotDone /\ bpc = "idle" /\ ~ result /\ disk \in [Sectors -> Data]
  BY DEF BlkInit, NotDone, DeviceOwns
<1> QED  BY <1>1 DEF Host!DiskInit, AsOutcome, Host!Failed

(* Every step is a step of Disk: a request is carried out where the device *)
(* says so, on the sector the MMC core's command names.                    *)
LEMMA DiskNextHolds ==
  BlkInductive /\ [BlkNext]_blkVars
    => [Host!DiskNext]_<<disk, HostRequest, HostAnswer, HostOutcome>>
<1> SUFFICES ASSUME BlkInductive, [BlkNext]_blkVars
             PROVE  \/ Host!DiskNext
                    \/ /\ disk' = disk /\ HostRequest' = HostRequest
                       /\ HostAnswer' = HostAnswer /\ HostOutcome' = HostOutcome
  OBVIOUS
<1> USE BlkAssumption, IdxAssumption
<1>t. BlkTypeOK /\ BlkShapes /\ BlkCommandRead /\ BlkRequestFilled /\ BlkOneAtATime
  BY DEF BlkInductive
<1>1. ASSUME NEW code \in {"read", "write"}, NEW s \in Sectors, NEW d \in Data,
             MmcCommand(code, s, d)
      PROVE  Host!DiskNext
  <2>1. /\ bpc = "idle" /\ bpc' = "mmc"
        /\ mmcCmd' = [code |-> code, argument |-> Argument(s)] /\ buf' = d /\ result' = FALSE
        /\ UNCHANGED <<blockAddr, bAvail, bresp, disk, bDev>>
    BY <1>1 DEF MmcCommand, TaskStep, devVars
  <2>2. ~ NotDone /\ NotDone'
    BY <1>t, <2>1 DEF NotDone, DeviceOwns, BlkOneAtATime, BlkAtRest
  <2>3. Sector' \in Sectors
    <3>1. Argument(s)' = mmcCmd'.argument  BY <2>1 DEF Argument
    <3> QED  BY <3>1 DEF Sector
  <2>4. AsRequest' \in Host!DiskRequests
    BY <2>1, <2>3 DEF AsRequest, Host!DiskRequests
  <2>5. /\ HostRequest = {} /\ HostAnswer = {} /\ HostRequest' = {AsRequest'} /\ HostAnswer' = {}
        /\ HostOutcome' = Host!Failed /\ disk' = disk
    BY <2>1, <2>2 DEF HostRequest, HostAnswer, HostOutcome, AsOutcome, Host!Failed
  <2>6. Host!Ask(AsRequest')
    BY <2>5 DEF Host!Ask, HostRequest, HostAnswer, HostOutcome
  <2> QED  BY <2>4, <2>6 DEF Host!DiskNext
<1>2. CASE FillRequest \/ Publish \/ NotifyDevice \/ WaitIO \/ BlkIrq \/ BlkDevFetch
           \/ UNCHANGED blkVars
  <2>1. UNCHANGED <<mmcCmd, blockAddr, buf, result, bresp, disk>>
    BY <1>2 DEF FillRequest, Publish, NotifyDevice, WaitIO, BlkIrq, BlkIrqEnter, BlkIrqSignal,
       BlkIrqAck, BlkDevFetch, blkDrvVars, bIrqVars, taskVars, devVars, blkVars
  <2>2. AsRequest' = AsRequest /\ AsOutcome(bresp = "ok")' = AsOutcome(bresp = "ok")
    BY <2>1 DEF AsRequest, AsOutcome, Sector, Argument
  <2>3. (bpc' = "idle") <=> (bpc = "idle")
    BY <1>2 DEF FillRequest, Publish, NotifyDevice, WaitIO, BlkIrq, BlkIrqEnter, BlkIrqSignal,
       BlkIrqAck, BlkDevFetch, blkDrvVars, bIrqVars, taskVars, devVars, blkVars, TaskStep
  <2>4. HostOutcome' = HostOutcome
    BY <2>1, <2>3 DEF HostOutcome, AsOutcome
  <2>5. NotDone' <=> NotDone
    <3>1. CASE FillRequest
      BY <3>1 DEF FillRequest, TaskStep, NotDone
    <3>2. CASE Publish
      <4>1. bAvail \in Indices /\ Inc(bAvail) # bAvail
        BY <1>t, IncLinear DEF BlkTypeOK, Indices
      <4> QED  BY <3>2, <4>1, <1>t DEF Publish, NextAvail, TaskStep, NotDone, DeviceOwns, devVars,
           BlkOneAtATime, BlkAtRest
    <3>3. CASE NotifyDevice
      <4>1. bDev'.last = bDev.last /\ bDev'.doing = bDev.doing
        BY <3>3, <1>t DEF NotifyDevice, BlkShapes
      <4> QED  BY <3>3, <4>1 DEF NotifyDevice, TaskStep, NotDone, DeviceOwns, taskVars
    <3>4. CASE WaitIO
      BY <3>4 DEF WaitIO, TaskStep, NotDone, DeviceOwns, taskVars, devVars
    <3>5. CASE BlkIrq \/ UNCHANGED blkVars
      BY <3>5 DEF BlkIrq, BlkIrqEnter, BlkIrqSignal, BlkIrqAck, NotDone, DeviceOwns, taskVars,
         devVars, blkVars
    <3>6. CASE BlkDevFetch
      <4>1. breq # Idle
        BY <1>t DEF BlkShapes, Idle
      <4>2. /\ bDev.last = bAvail => bDev'.last = bDev.last /\ bDev'.doing = bDev.doing
            /\ bDev.last # bAvail => bDev'.doing = breq
        BY <3>6, <1>t DEF BlkDevFetch, BlkShapes
      <4> QED  BY <3>6, <4>1, <4>2 DEF BlkDevFetch, blkDrvVars, NotDone, DeviceOwns
    <3> QED  BY <1>2, <3>1, <3>2, <3>3, <3>4, <3>5, <3>6
  <2> QED  BY <2>1, <2>2, <2>3, <2>4, <2>5 DEF HostRequest, HostAnswer
<1>3. CASE ReturnError
  <2>1. /\ bpc = "return" /\ bpc' = "idle" /\ result' = Succeeded
        /\ UNCHANGED <<buf, bAvail, bresp, disk, bDev>>
    BY <1>3 DEF ReturnError, TaskStep, devVars
  <2>2. ~ NotDone /\ ~ NotDone'
    BY <1>t, <2>1 DEF NotDone, DeviceOwns, BlkOneAtATime, BlkAtRest
  <2>3. HostOutcome' = AsOutcome(bresp = "ok")
    BY <2>1 DEF HostOutcome, AsOutcome, Succeeded
  <2>4. /\ HostAnswer = {AsOutcome(bresp = "ok")} /\ HostAnswer' = {}
        /\ HostRequest = {} /\ HostRequest' = {} /\ disk' = disk
    BY <2>1, <2>2 DEF HostAnswer, HostRequest
  <2> QED  BY <2>3, <2>4 DEF Host!DiskNext, Host!Hear, HostAnswer, HostRequest, HostOutcome
<1>4. CASE BlkDevRead \/ BlkDevWrite
  <2>1. /\ bDev.doing.type \in {"in", "out"} /\ bDev' = [bDev EXCEPT !.doing = Idle]
        /\ UNCHANGED <<bpc, mmcCmd, blockAddr, breq, result, bAvail>>
    BY <1>4 DEF BlkDevRead, BlkDevWrite, BlkDevDone, blkDrvVars
  <2>2. /\ bDev.doing # Idle /\ bDev'.last = bDev.last /\ bDev'.doing = Idle
    BY <1>t, <2>1 DEF BlkShapes, Idle
  <2>3. bpc \in {"notify", "wait"} /\ BlkAtWork
    BY <1>t, <2>2 DEF BlkOneAtATime, BlkAtRest, BlkPublished, BlkDone, BlkSignalled
  <2>4. NotDone /\ ~ NotDone'
    BY <2>1, <2>2, <2>3 DEF NotDone, DeviceOwns, BlkAtWork
  <2>5. bDev.doing = BlkRequest(Sector) /\ Sector \in Sectors
    BY <2>3, SectorIsNamed DEF BlkAtWork
  <2>6. /\ HostRequest = {AsRequest} /\ HostRequest' = {} /\ HostAnswer' = {AsOutcome(bresp = "ok")'}
        /\ HostOutcome = Host!Failed /\ HostOutcome' = HostOutcome
    BY <2>1, <2>3, <2>4 DEF HostRequest, HostAnswer, HostOutcome, AsOutcome, Host!Failed
  <2>7. CASE BlkDevRead
    <3>1. AsRequest.op = "in" /\ AsRequest.sector = bDev.doing.sector
      BY <2>5, <2>7 DEF AsRequest, BlkRequest, BlkDevRead
    <3>2. disk' = disk
      BY <2>7 DEF BlkDevRead
    <3>3. \/ bresp' = "ok" /\ buf' = disk[AsRequest.sector]
          \/ bresp' = "ioerr"
      BY <2>7, <3>1 DEF BlkDevRead, BlkDevDone
    <3>4. Host!ReadSector(AsRequest) \/ Host!FailRequest(AsRequest)
      BY <2>6, <3>1, <3>2, <3>3 DEF Host!ReadSector, Host!FailRequest, AsOutcome, Host!Done,
         Host!Failed, HostAnswer
    <3> QED  BY <2>6, <3>4 DEF Host!DiskNext, Host!CarryOut, HostRequest, HostOutcome
  <2>8. CASE BlkDevWrite
    <3>1. AsRequest.op = "out" /\ AsRequest.sector = bDev.doing.sector /\ AsRequest.data = buf
      BY <1>t, <2>5, <2>8 DEF AsRequest, BlkRequest, BlkDevWrite
    <3>2. buf' = buf
      BY <2>8 DEF BlkDevWrite
    <3>3. \/ bresp' = "ok" /\ disk' = [disk EXCEPT ![AsRequest.sector] = AsRequest.data]
          \/ bresp' = "ioerr" /\ disk' \in {disk, [disk EXCEPT ![AsRequest.sector] = AsRequest.data]}
      BY <2>8, <3>1 DEF BlkDevWrite, BlkDevDone
    <3>4. Host!WriteSector(AsRequest) \/ Host!FailRequest(AsRequest)
      BY <2>6, <3>1, <3>2, <3>3 DEF Host!WriteSector, Host!FailRequest, AsOutcome, Host!Done,
         Host!Failed, HostAnswer
    <3> QED  BY <2>6, <3>4 DEF Host!DiskNext, Host!CarryOut, HostRequest, HostOutcome
  <2> QED  BY <1>4, <2>7, <2>8
<1> QED
  BY <1>1, <1>2, <1>3, <1>4 DEF BlkNext, Task, BlkDevice

(* Each command of the MMC core is carried out once, on the sector it names *)
(* and with the data of its buffer, and VirtMmcIO reports what the device  *)
(* said of it -- for every disk and every size of a sector.                *)
THEOREM DiskIsKept == BlkSpec => ImplementsDisk
<1>1. Host!DiskInit /\ [][Host!DiskNext]_<<disk, HostRequest, HostAnswer, HostOutcome>>
       <=> ImplementsDisk
  BY DEF ImplementsDisk, Host!DiskSpec, HostRequest, HostAnswer, HostOutcome
<1> QED
  BY <1>1, DiskInitHolds, DiskNextHolds, BlkAlwaysInductive, PTL DEF BlkSpec

-----------------------------------------------------------------------------
(* Bringing a device up: the handshake, the configuration, the resources.  *)

(* Step b is taken only after step a; no step occurs twice; the step that  *)
(* configures queue q.                                                     *)
Precedes(a, b) ==
  \A j \in 1 .. Len(Steps) : Steps[j] = b => \E i \in 1 .. j - 1 : Steps[i] = a
Once == \A i, j \in 1 .. Len(Steps) : Steps[i] = Steps[j] => i = j
QueueStep(q) == IF q = 0 THEN "queue0" ELSE "queue1"

(* What every list of steps respects, whichever driver it is: the reset    *)
(* before the features, the features and all of the driver's queues before *)
(* DRIVER_OK and the first notification, the memory before any callback.   *)
StepOrder ==
  /\ Len(Steps) \in Nat \ {0}
  /\ Once
  /\ Precedes("begin", "featuresOk")
  /\ \A s \in {"end", "publish"} :
       Precedes("featuresOk", s) /\ \A q \in Queues(drv) : Precedes(QueueStep(q), s)
  /\ \A s \in Callbacks : Precedes("mem", s)
  /\ Precedes("end", "fbdev")

(* The configuration is read between two reads of its generation.          *)
ConfigOrder ==
  \A j \in 1 .. Len(Steps) :
    Steps[j] = "after" =>
      /\ j > 3 /\ Steps[j - 3] = "before" /\ Steps[j - 2] = "field1" /\ Steps[j - 1] = "field2"

(* A field is read right after the generation, or after the other field.   *)
FieldOrder ==
  \A j \in 1 .. Len(Steps) :
    /\ Steps[j] = "field1" => j > 1 /\ Steps[j - 1] = "before"
    /\ Steps[j] = "field2" => j > 2 /\ Steps[j - 1] = "field1" /\ Steps[j - 2] = "before"

(* What each driver acquires.                                              *)
Own(d) ==
  CASE d = "blk" -> {"cntlr", "mem", "event", "irq", "mmc"}
    [] d = "rng" -> {"mem", "mutex", "event", "irq", "ops", "urandom"}
    [] d = "net" -> {"mem", "lock", "irq", "netdev", "eapol"}
    [] d = "input" -> {"mem", "irq", "hid", "wq"}
    [] d = "gpu" -> {"mem", "timer", "fbmem", "fbdev"}

(* A driver notifies the device before DRIVER_OK only when nothing between *)
(* the two can fail; after its work queue virtio-input does nothing else   *)
(* than these two; and the last step of virtio-rng is the one whose        *)
(* resource nothing gives back on failure.                                 *)
EndOrder ==
  /\ \A j \in 1 .. Len(Steps) :
       Steps[j] = "publish" =>
         \/ \E i \in 1 .. j - 1 : Steps[i] = "end"
         \/ j < Len(Steps) /\ Steps[j + 1] = "end"
  /\ \A j \in 1 .. Len(Steps) :
       Steps[j] = "wq" => /\ j = Len(Steps) - 2
                          /\ Steps[j + 1] = "publish" /\ Steps[j + 2] = "end"
  /\ \A j \in 1 .. Len(Steps) : Steps[j] = "urandom" => j = Len(Steps)
  /\ \A j \in 1 .. Len(Steps) : Steps[j] \in Resources => Steps[j] \in Own(drv)

(* The five lists of steps, one after the other.                           *)
LEMMA BlkOrder == ASSUME drv = "blk" PROVE StepOrder /\ ConfigOrder /\ FieldOrder /\ EndOrder
<1>1. StepOrder
  BY DEF StepOrder, Once, Precedes, Steps, BlkSteps, QueueStep, Queues, Callbacks
<1>2. ConfigOrder /\ FieldOrder
  BY DEF ConfigOrder, FieldOrder, Steps, BlkSteps
<1>3. EndOrder
  BY DEF EndOrder, Resources, Own, Steps, BlkSteps
<1> QED BY <1>1, <1>2, <1>3

(* ... of the random number generator.                                     *)
LEMMA RngOrder == ASSUME drv = "rng" PROVE StepOrder /\ ConfigOrder /\ FieldOrder /\ EndOrder
<1>1. StepOrder
  BY DEF StepOrder, Once, Precedes, Steps, RngSteps, QueueStep, Queues, Callbacks
<1>2. ConfigOrder /\ FieldOrder
  BY DEF ConfigOrder, FieldOrder, Steps, RngSteps
<1>3. EndOrder
  BY DEF EndOrder, Resources, Own, Steps, RngSteps
<1> QED BY <1>1, <1>2, <1>3

(* ... of the network device.                                              *)
LEMMA NetOrder == ASSUME drv = "net" PROVE StepOrder /\ ConfigOrder /\ FieldOrder /\ EndOrder
<1>1. StepOrder
  BY DEF StepOrder, Once, Precedes, Steps, NetSteps, QueueStep, Queues, Callbacks
<1>2. ConfigOrder /\ FieldOrder
  BY DEF ConfigOrder, FieldOrder, Steps, NetSteps
<1>3. EndOrder
  BY DEF EndOrder, Resources, Own, Steps, NetSteps
<1> QED BY <1>1, <1>2, <1>3

(* ... of the input device.                                                *)
LEMMA InputOrder == ASSUME drv = "input" PROVE StepOrder /\ ConfigOrder /\ FieldOrder /\ EndOrder
<1>1. StepOrder
  BY DEF StepOrder, Once, Precedes, Steps, InputSteps, QueueStep, Queues, Callbacks
<1>2. ConfigOrder /\ FieldOrder
  BY DEF ConfigOrder, FieldOrder, Steps, InputSteps
<1>3. EndOrder
  BY DEF EndOrder, Resources, Own, Steps, InputSteps
<1> QED BY <1>1, <1>2, <1>3

(* ... of the display.                                                     *)
LEMMA GpuOrder == ASSUME drv = "gpu" PROVE StepOrder /\ ConfigOrder /\ FieldOrder /\ EndOrder
<1>1. StepOrder
  BY DEF StepOrder, Once, Precedes, Steps, GpuSteps, QueueStep, Queues, Callbacks
<1>2. ConfigOrder /\ FieldOrder
  BY DEF ConfigOrder, FieldOrder, Steps, GpuSteps
<1>3. EndOrder
  BY DEF EndOrder, Resources, Own, Steps, GpuSteps
<1> QED BY <1>1, <1>2, <1>3

(* Whatever the driver.                                                    *)
LEMMA Order == ASSUME drv \in Drivers PROVE StepOrder /\ ConfigOrder /\ FieldOrder /\ EndOrder
BY BlkOrder, RngOrder, NetOrder, InputOrder, GpuOrder DEF Drivers

(* An initialisation that is running has a next step.                      *)
Running == outcome = "running" => step < Len(Steps)

(* One more step has been taken, and had not been before.                  *)
LEMMA TakenAfter ==
  ASSUME InitTypeOK, Running, drv' = drv, NEW s, At(s), step' = step + 1
  PROVE  /\ \A t : Taken(t)' <=> Taken(t) \/ t = s
         /\ ~ Taken(s)
<1>1. Steps' = Steps  BY DEF Steps
<1>2. step \in Nat /\ step < Len(Steps) /\ Len(Steps) \in Nat /\ Once
  BY Order DEF InitTypeOK, StepOrder, At, Running
<1>3. Steps[step + 1] = s  BY DEF At, Now
<1>4. \A t : Taken(t)' <=> Taken(t) \/ t = s  BY <1>1, <1>2, <1>3 DEF Taken
<1>5. ~ Taken(s)  BY <1>2, <1>3 DEF Taken, Once
<1> QED  BY <1>4, <1>5

(* A step that leaves the program where it is takes nothing back.          *)
LEMMA TakenSame ==
  ASSUME drv' = drv, step' = step
  PROVE  /\ \A t : Taken(t)' <=> Taken(t)
         /\ Now' = Now /\ Steps' = Steps
BY DEF Taken, Steps, Now

(* What has been taken was preceded by what precedes it.                   *)
LEMMA TakenInOrder ==
  ASSUME InitTypeOK, NEW a, NEW b, Precedes(a, b)
  PROVE  /\ Taken(b) => Taken(a)
         /\ Running /\ At(b) => Taken(a)
<1>1. step \in Nat /\ step <= Len(Steps) /\ Len(Steps) \in Nat
  BY Order DEF InitTypeOK, StepOrder
<1> QED  BY <1>1 DEF Taken, Precedes, At, Now, Running

(* The configuration is read from the start again.                         *)
LEMMA TakenBack ==
  ASSUME InitTypeOK, Running, drv' = drv, At("after"), step' = step - 3
  PROVE  \A t : Taken(t)' <=> Taken(t) /\ t \notin {"before", "field1", "field2"}
<1>1. Steps' = Steps  BY DEF Steps
<1>2. step \in Nat /\ step < Len(Steps) /\ Len(Steps) \in Nat /\ Once
  BY Order DEF InitTypeOK, StepOrder, At, Running
<1>3. /\ step >= 3 /\ Steps[step - 2] = "before"
      /\ Steps[step - 1] = "field1" /\ Steps[step] = "field2"
  BY <1>2, Order DEF InitTypeOK, ConfigOrder, At, Now
<1>4. ASSUME NEW t PROVE Taken(t)' <=> \E i \in 1 .. step - 3 : Steps[i] = t
  BY <1>1 DEF Taken
<1>5. ASSUME NEW i \in 1 .. step
      PROVE  i <= step - 3 <=> Steps[i] \notin {"before", "field1", "field2"}
  <2>1. CASE i <= step - 3
    BY <1>2, <1>3, <2>1 DEF Once
  <2>2. CASE i > step - 3
    <3>1. i = step - 2 \/ i = step - 1 \/ i = step  BY <2>2, <1>2
    <3> QED  BY <1>2, <1>3, <3>1
  <2> QED  BY <2>1, <2>2, <1>2
<1>6. ASSUME NEW t
      PROVE  (\E i \in 1 .. step - 3 : Steps[i] = t)
               <=> Taken(t) /\ t \notin {"before", "field1", "field2"}
  <2>1. 1 .. step - 3 \subseteq 1 .. step  BY <1>2
  <2>2. \A i \in 1 .. step : i <= step - 3 => i \in 1 .. step - 3  BY <1>2
  <2>3. 1 .. step - 3 \subseteq {i \in 1 .. step : i <= step - 3}  BY <1>2
  <2> QED  BY <1>5, <2>1, <2>2, <2>3 DEF Taken
<1> QED  BY <1>4, <1>6

(* The Status register, by what has been done: DRIVER_OK means the end of  *)
(* the handshake was reached -- after the reset, for before it the register *)
(* is whatever an earlier owner left -- and FAILED that it never will be.  *)
InitStatus ==
  /\ Taken("begin") /\ "DRIVER_OK" \in status => Taken("end")
  /\ Taken("featuresOk") => "FEATURES_OK" \in status
  /\ "FAILED" \in status =>
       Taken("begin") /\ ~ Taken("end") /\ ~ Taken("publish") /\ outcome # "running"

(* What the device was told of the queues.                                 *)
InitReady ==
  /\ \A q \in Queues(drv) : Taken(QueueStep(q)) => q \in ready
  /\ notified => Taken("publish")

(* The fields read so far lie between the generation read first and the    *)
(* present one, so an unchanged generation makes them equal.               *)
InitConfig ==
  /\ Taken("before") => before <= gen
  /\ Taken("field1") /\ ~ Taken("after") => before <= conf[1] /\ conf[1] <= gen
  /\ Taken("field2") /\ ~ Taken("after") => before <= conf[2] /\ conf[2] <= gen
  /\ Taken("after") => conf[1] = conf[2]

(* What is held follows from the steps taken and from who cleaned up.      *)
Acquired == {r \in Resources : Taken(r)}
InitHeld ==
  /\ outcome \in {"running", "up"} => res = Acquired
  /\ outcome = "failed" =>
       /\ CanFail /\ step < Len(Steps)
       /\ res = IF ~ CleansUp THEN Acquired
                ELSE IF drv = "blk" THEN Released(Acquired) ELSE DeInit(Acquired)
  /\ outcome = "gone" => res = Released(Acquired) /\ drv # "rng"

(* A field holds garbage, and garbage is given back, only where nothing    *)
(* has been written yet.                                                   *)
InitWild ==
  /\ garbage \subseteq Unwritten(drv) /\ wild \subseteq Unwritten(drv)
  /\ \A r \in garbage \cup wild : ~ Taken(FirstWrite(r))
  /\ wild # {} => outcome \in {"failed", "gone"}

(* The inductive invariant.                                                *)
InitInductive ==
  /\ InitTypeOK /\ Running /\ InitStatus /\ InitReady /\ InitConfig
  /\ InitHeld /\ InitWild

(* What has been taken is among the driver's own; and of an input device   *)
(* that can fail the work queue has not been.                              *)
LEMMA AcquiredOwn ==
  ASSUME InitTypeOK
  PROVE  /\ Acquired \subseteq Own(drv)
         /\ step < Len(Steps) => "urandom" \notin Acquired
         /\ drv = "input" /\ CanFail /\ step < Len(Steps) => "wq" \notin Acquired
<1>1. step \in Nat /\ step <= Len(Steps) /\ Len(Steps) \in Nat /\ EndOrder
  BY Order DEF InitTypeOK, StepOrder
<1>2. Acquired \subseteq Own(drv)  BY <1>1 DEF Acquired, Taken, EndOrder
<1>3. step < Len(Steps) => "urandom" \notin Acquired
  BY <1>1 DEF Acquired, Taken, EndOrder
<1>4. ASSUME drv = "input", CanFail, step < Len(Steps), NEW j \in 1 .. step, Steps[j] = "wq"
      PROVE  FALSE
  <2>1. j = Len(Steps) - 2 /\ Steps[j + 1] = "publish" /\ Steps[j + 2] = "end"
    BY <1>1, <1>4 DEF EndOrder
  <2>2. step = j \/ step = j + 1  BY <1>1, <1>4, <2>1
  <2>3. Now \in {"publish", "end"}  BY <1>1, <2>1, <2>2 DEF Now
  <2> QED  BY <1>4, <2>3 DEF CanFail, Resources
<1> QED  BY <1>2, <1>3, <1>4 DEF Acquired, Taken

(* Of what may call into the driver only the three orphans are without     *)
(* memory.                                                                 *)
LEMMA HeldCallbacks == ASSUME InitInductive PROVE InitCallbacksHaveMemory
<1> USE DEF InitInductive
<1>1. StepOrder  BY Order DEF InitTypeOK
<1>2. \A r \in Callbacks : Taken(r) => Taken("mem")
  BY <1>1, TakenInOrder DEF StepOrder
<1>3. /\ Acquired \subseteq Own(drv)
      /\ step < Len(Steps) => "urandom" \notin Acquired
      /\ drv = "input" /\ CanFail /\ step < Len(Steps) => "wq" \notin Acquired
  BY AcquiredOwn
<1>4. \A r \in Callbacks : r \in Acquired <=> Taken(r)
  BY DEF Acquired, Callbacks, Resources
<1>5. drv \in Drivers /\ outcome \in {"running", "up", "failed", "gone"}  BY DEF InitTypeOK
<1>6. CASE res = Acquired
  <2>1. "mem" \notin res => \A r \in Callbacks : ~ Taken(r)
    BY <1>2, <1>6 DEF Acquired, Resources
  <2> QED  BY <1>4, <1>6, <2>1 DEF InitCallbacksHaveMemory, Orphans
<1>7. CASE outcome = "failed" /\ CleansUp
  <2>1. CASE drv = "blk"
    <3>1. res = Released(Acquired)  BY <1>7, <2>1 DEF InitHeld
    <3>2. res \cap Callbacks = {}
      BY <1>3, <2>1, <3>1 DEF Own, Released, DeInit, Callbacks
    <3>3. Orphans = {}  BY <2>1 DEF Orphans
    <3> QED  BY <3>2, <3>3 DEF InitCallbacksHaveMemory
  <2>2. CASE drv # "blk"
    <3>1. res = DeInit(Acquired)  BY <1>7, <2>2 DEF InitHeld
    <3>2. res \cap Callbacks = Acquired \cap {"wq", "ops", "fbdev", "netdev", "mmc"}
      BY <3>1 DEF DeInit, Callbacks
    <3>3. CASE drv = "rng"
      <4>1. Acquired \cap {"wq", "ops", "fbdev", "netdev", "mmc"} = Acquired \cap {"ops"}
        BY <1>3, <3>3 DEF Own
      <4>2. Orphans = Acquired \cap {"ops"}
        BY <1>4, <1>7, <3>3 DEF Orphans, Callbacks
      <4> QED  BY <3>2, <4>1, <4>2 DEF InitCallbacksHaveMemory
    <3>4. CASE drv = "net"
      <4>1. Acquired \cap {"wq", "ops", "fbdev", "netdev", "mmc"} = Acquired \cap {"netdev"}
        BY <1>3, <3>4 DEF Own
      <4>2. Orphans = Acquired \cap {"netdev"}
        BY <1>4, <1>7, <3>4 DEF Orphans, Callbacks
      <4> QED  BY <3>2, <4>1, <4>2 DEF InitCallbacksHaveMemory
    <3>5. CASE drv = "input"
      <4>1. Acquired \cap {"wq", "ops", "fbdev", "netdev", "mmc"} = {}
        BY <1>3, <1>7, <3>5 DEF Own, InitHeld
      <4>2. Orphans = {}  BY <3>5 DEF Orphans
      <4> QED  BY <3>2, <4>1, <4>2 DEF InitCallbacksHaveMemory
    <3>6. CASE drv = "gpu"
      <4>1. ~ Taken("fbdev")
        BY <1>1, <1>7, <3>6, TakenInOrder DEF CleansUp, StepOrder
      <4>2. "fbdev" \notin Acquired  BY <4>1 DEF Acquired
      <4>3. Acquired \cap {"wq", "ops", "fbdev", "netdev", "mmc"} = {}
        BY <1>3, <3>6, <4>2 DEF Own
      <4>4. Orphans = {}  BY <1>7, <3>6 DEF Orphans
      <4> QED  BY <3>2, <4>3, <4>4 DEF InitCallbacksHaveMemory
    <3> QED  BY <1>5, <2>2, <3>3, <3>4, <3>5, <3>6 DEF Drivers
  <2> QED  BY <2>1, <2>2
<1>8. CASE outcome = "gone"
  <2>1. res = Released(Acquired) /\ drv # "rng"  BY <1>8 DEF InitHeld
  <2>2. res \cap Callbacks = Acquired \cap {"ops", "fbdev"}
    BY <2>1 DEF Released, DeInit, Callbacks
  <2>3. Acquired \cap {"ops", "fbdev"} = IF drv = "gpu" THEN Acquired \cap {"fbdev"} ELSE {}
    BY <1>3, <1>5, <2>1 DEF Own, Drivers
  <2>4. Orphans = IF drv = "gpu" THEN Acquired \cap {"fbdev"} ELSE {}
    BY <1>4, <1>8 DEF Orphans, Callbacks
  <2> QED  BY <2>2, <2>3, <2>4 DEF InitCallbacksHaveMemory
<1> QED  BY <1>5, <1>6, <1>7, <1>8 DEF InitHeld

(* What stays behind is what nothing ever gives back.                      *)
LEMMA HeldStays == ASSUME InitInductive PROVE InitNothingLeaks
<1> USE DEF InitInductive
<1>1. /\ Acquired \subseteq Own(drv)
      /\ step < Len(Steps) => "urandom" \notin Acquired
  BY AcquiredOwn
<1>2. {r \in {"lock", "event", "ops", "fbdev"} : Taken(r)}
        = Acquired \cap {"lock", "event", "ops", "fbdev"}
  BY DEF Acquired, Resources
<1>3. drv \in Drivers  BY DEF InitTypeOK
<1>4. Acquired \subseteq Resources  BY DEF Acquired
<1>5. CASE outcome = "gone"
  <2>1. res = Released(Acquired) /\ drv # "rng"  BY <1>5 DEF InitHeld
  <2>2. "urandom" \notin Acquired  BY <1>1, <1>3, <2>1 DEF Own, Drivers
  <2>3. res = Acquired \cap {"lock", "event", "ops", "fbdev"}
    BY <1>4, <2>1, <2>2 DEF Released, DeInit, Resources
  <2> QED  BY <1>2, <2>3 DEF InitNothingLeaks
<1>6. CASE outcome = "failed" /\ drv = "blk"
  <2>1. res = Released(Acquired)  BY <1>6 DEF InitHeld, CleansUp
  <2>2. "urandom" \notin Acquired  BY <1>1, <1>6 DEF Own
  <2>3. res = Acquired \cap {"lock", "event", "ops", "fbdev"}
    BY <1>4, <2>1, <2>2 DEF Released, DeInit, Resources
  <2> QED  BY <1>2, <2>3 DEF InitNothingLeaks
<1>7. CASE outcome = "failed" /\ drv = "rng"
  <2>1. res = DeInit(Acquired) /\ step < Len(Steps)  BY <1>7 DEF InitHeld, CleansUp
  <2>2. Acquired \subseteq {"mem", "mutex", "event", "irq", "ops"}  BY <1>1, <1>7, <2>1 DEF Own
  <2>3. res = Acquired \cap {"lock", "event", "ops", "fbdev"}
    BY <2>1, <2>2 DEF DeInit
  <2> QED  BY <1>2, <2>3 DEF InitNothingLeaks
<1> QED  BY <1>5, <1>6, <1>7 DEF InitNothingLeaks

(* It implies the invariant the run checks.                                *)
LEMMA InitInductiveSafe == InitInductive => InitInvariant
<1> SUFFICES ASSUME InitInductive PROVE InitInvariant  OBVIOUS
<1> USE DEF InitInductive
<1>1. StepOrder  BY Order DEF InitTypeOK
<1>2. InitHandshakeInOrder
  <2> SUFFICES ASSUME Taken("begin"), "DRIVER_OK" \in status \/ notified
               PROVE  "FEATURES_OK" \in status /\ ready = Queues(drv) /\ "FAILED" \notin status
    BY DEF InitHandshakeInOrder
  <2>1. Taken("end") \/ Taken("publish")  BY DEF InitStatus, InitReady
  <2>2. Taken("featuresOk") /\ \A q \in Queues(drv) : Taken(QueueStep(q))
    BY <2>1, <1>1, TakenInOrder DEF StepOrder
  <2> QED  BY <2>1, <2>2 DEF InitStatus, InitReady, InitTypeOK
<1>3. InitConfigConsistent  BY DEF InitConfig, InitConfigConsistent
<1>4. InitCallbacksHaveMemory /\ InitNothingLeaks  BY HeldCallbacks, HeldStays
<1>5. InitGivesBackItsOwn
  BY DEF InitGivesBackItsOwn, InitWild, InitTypeOK, Unwritten
<1> QED  BY <1>2, <1>3, <1>4, <1>5 DEF InitInvariant

(* A step that succeeds takes exactly that step.                           *)
LEMMA Advances ==
  ASSUME InitInductive, drv' = drv, NEW s, At(s), Advance
  PROVE  /\ step' \in 0 .. Len(Steps)' /\ Running' /\ InitWild'
         /\ outcome = "running" /\ outcome' \in {"running", "up"}
         /\ \A t : Taken(t)' <=> Taken(t) \/ t = s
         /\ ~ Taken(s)
         /\ Len(Steps)' = Len(Steps)
<1>1. Steps' = Steps  BY DEF Steps
<1>2. step \in Nat /\ step < Len(Steps) /\ Len(Steps) \in Nat
  BY Order DEF InitInductive, InitTypeOK, StepOrder, At, Running
<1>3. step' \in 0 .. Len(Steps)' /\ Running'  BY <1>1, <1>2 DEF Advance, Running
<1>4. (\A t : Taken(t)' <=> Taken(t) \/ t = s) /\ ~ Taken(s)
  BY TakenAfter DEF InitInductive, Advance
<1>5. outcome = "running" /\ outcome' \in {"running", "up"} /\ Now = s  BY DEF Advance, At
<1>6. wild' = {} /\ garbage' = {r \in garbage : FirstWrite(r) # s}
  BY <1>5 DEF InitInductive, InitWild, Advance
<1>7. InitWild'
  BY <1>4, <1>6 DEF InitInductive, InitWild, FirstWrite
<1> QED  BY <1>1, <1>3, <1>4, <1>5, <1>7

(* It holds at the start, even with a used Status register.                *)
LEMMA InitInitial == InitInit => InitInductive
<1> SUFFICES ASSUME InitInit PROVE InitInductive  OBVIOUS
<1> USE DEF InitInit
<1>1. Len(Steps) \in Nat \ {0}  BY Order DEF StepOrder
<1>2. \A t : ~ Taken(t)  BY DEF Taken
<1>3. InitTypeOK
  <2>1. 0 \in 0 .. GENS  BY InitAssumption
  <2>2. conf \in [1 .. 2 -> 0 .. GENS]  BY <2>1
  <2>3. status \subseteq StatusBits  BY DEF StatusBits
  <2>4. step \in 0 .. Len(Steps)  BY <1>1
  <2> QED  BY <2>1, <2>2, <2>3, <2>4 DEF InitTypeOK
<1>4. Running  BY <1>1 DEF Running
<1>5. InitWild  BY <1>2 DEF InitWild
<1> QED
  BY <1>2, <1>3, <1>4, <1>5
  DEF InitInductive, InitStatus, InitReady, InitConfig, InitHeld, Acquired

(* Memory, interrupt handlers, timers and the rest.                        *)
LEMMA AcquireKeeps == ASSUME InitInductive, NEW r \in Resources, Acquire(r) PROVE InitInductive'
<1> USE DEF InitInductive, Acquire
<1>1. \A t : Taken(t)' <=> Taken(t) \/ t = r  BY Advances
<1>2. outcome = "running" /\ outcome' \in {"running", "up"}  BY Advances
<1>3. step' \in 0 .. Len(Steps)' /\ Running' /\ InitWild'  BY Advances
<1>4. InitTypeOK'  BY <1>2, <1>3 DEF InitTypeOK, Queues, InitWild
<1>5. InitStatus'  BY <1>1, <1>2 DEF InitStatus, Resources
<1>6. InitReady'  BY <1>1 DEF InitReady, Queues, QueueStep, Resources
<1>7. InitConfig'  BY <1>1 DEF InitConfig, Resources
<1>8. InitHeld'  BY <1>1, <1>2 DEF InitHeld, Acquired
<1> QED  BY <1>3, <1>4, <1>5, <1>6, <1>7, <1>8

(* Steps that only look.                                                   *)
LEMMA PassKeeps ==
  ASSUME InitInductive, NEW s \in {"discover", "version1", "parse", "up", "display"}, Pass(s)
  PROVE  InitInductive'
<1> USE DEF InitInductive, Pass
<1>1. \A t : Taken(t)' <=> Taken(t) \/ t = s  BY Advances
<1>2. outcome = "running" /\ outcome' \in {"running", "up"}  BY Advances
<1>3. step' \in 0 .. Len(Steps)' /\ Running' /\ InitWild'  BY Advances
<1>4. InitTypeOK'  BY <1>2, <1>3 DEF InitTypeOK, Queues, InitWild
<1>5. InitStatus'  BY <1>1, <1>2 DEF InitStatus
<1>6. InitReady'  BY <1>1 DEF InitReady, Queues, QueueStep, Resources, QueueStep
<1>7. InitConfig'  BY <1>1 DEF InitConfig
<1>8. InitHeld'  BY <1>1, <1>2 DEF InitHeld, Acquired, Resources
<1> QED  BY <1>3, <1>4, <1>5, <1>6, <1>7, <1>8

(* VirtmmioInitBegin, FEATURES_OK, VirtmmioInitEnd, the first QueueNotify. *)
LEMMA HandshakeKeeps ==
  ASSUME InitInductive, InitBegin \/ FeaturesOk \/ InitEnd \/ PublishBuffers
  PROVE  InitInductive'
<1> USE DEF InitInductive
<1>0. StepOrder  BY Order DEF InitTypeOK
<1>1. CASE InitBegin
  <2> USE <1>1 DEF InitBegin
  <2>1. \A t : Taken(t)' <=> Taken(t) \/ t = "begin"  BY Advances
  <2>2. outcome = "running" /\ outcome' \in {"running", "up"}  BY Advances
  <2>3. step' \in 0 .. Len(Steps)' /\ Running' /\ InitWild'  BY Advances
  <2>4. ~ Taken("featuresOk")  BY Advances, TakenInOrder, <1>0 DEF StepOrder
  <2>5. InitTypeOK'  BY <2>2, <2>3 DEF InitTypeOK, Queues, InitWild, StatusBits
  <2>6. InitStatus'  BY <2>1, <2>2, <2>4 DEF InitStatus
  <2>7. InitReady'  BY <2>1 DEF InitReady, Queues, QueueStep
  <2>8. InitConfig'  BY <2>1 DEF InitConfig
  <2>9. InitHeld'  BY <2>1, <2>2 DEF InitHeld, Acquired, Resources
  <2> QED  BY <2>3, <2>5, <2>6, <2>7, <2>8, <2>9
<1>2. CASE FeaturesOk
  <2> USE <1>2 DEF FeaturesOk
  <2>1. \A t : Taken(t)' <=> Taken(t) \/ t = "featuresOk"  BY Advances
  <2>2. outcome = "running" /\ outcome' \in {"running", "up"}  BY Advances
  <2>3. step' \in 0 .. Len(Steps)' /\ Running' /\ InitWild'  BY Advances
  <2>5. InitTypeOK'  BY <2>2, <2>3 DEF InitTypeOK, Queues, InitWild, StatusBits
  <2>6. InitStatus'  BY <2>1, <2>2 DEF InitStatus
  <2>7. InitReady'  BY <2>1 DEF InitReady, Queues, QueueStep
  <2>8. InitConfig'  BY <2>1 DEF InitConfig
  <2>9. InitHeld'  BY <2>1, <2>2 DEF InitHeld, Acquired, Resources
  <2> QED  BY <2>3, <2>5, <2>6, <2>7, <2>8, <2>9
<1>3. CASE InitEnd
  <2> USE <1>3 DEF InitEnd
  <2>1. \A t : Taken(t)' <=> Taken(t) \/ t = "end"  BY Advances
  <2>2. outcome = "running" /\ outcome' \in {"running", "up"}  BY Advances
  <2>3. step' \in 0 .. Len(Steps)' /\ Running' /\ InitWild'  BY Advances
  <2>5. InitTypeOK'  BY <2>2, <2>3 DEF InitTypeOK, Queues, InitWild, StatusBits
  <2>6. InitStatus'  BY <2>1, <2>2 DEF InitStatus
  <2>7. InitReady'  BY <2>1 DEF InitReady, Queues, QueueStep
  <2>8. InitConfig'  BY <2>1 DEF InitConfig
  <2>9. InitHeld'  BY <2>1, <2>2 DEF InitHeld, Acquired, Resources
  <2> QED  BY <2>3, <2>5, <2>6, <2>7, <2>8, <2>9
<1>4. CASE PublishBuffers
  <2> USE <1>4 DEF PublishBuffers
  <2>1. \A t : Taken(t)' <=> Taken(t) \/ t = "publish"  BY Advances
  <2>2. outcome = "running" /\ outcome' \in {"running", "up"}  BY Advances
  <2>3. step' \in 0 .. Len(Steps)' /\ Running' /\ InitWild'  BY Advances
  <2>5. InitTypeOK'  BY <2>2, <2>3 DEF InitTypeOK, Queues, InitWild, StatusBits
  <2>6. InitStatus'  BY <2>1, <2>2 DEF InitStatus
  <2>7. InitReady'  BY <2>1 DEF InitReady, Queues, QueueStep
  <2>8. InitConfig'  BY <2>1 DEF InitConfig
  <2>9. InitHeld'  BY <2>1, <2>2 DEF InitHeld, Acquired, Resources
  <2> QED  BY <2>3, <2>5, <2>6, <2>7, <2>8, <2>9
<1> QED  BY <1>1, <1>2, <1>3, <1>4

(* VirtmmioConfigQueue.                                                    *)
LEMMA ConfigQueueKeeps ==
  ASSUME InitInductive, NEW q \in Queues(drv), ConfigQueue(q) PROVE InitInductive'
<1> USE DEF InitInductive, ConfigQueue
<1> DEFINE s == IF q = 0 THEN "queue0" ELSE "queue1"
<1>0. At(s)  OBVIOUS
<1>1. \A t : Taken(t)' <=> Taken(t) \/ t = s
  <2> HIDE DEF s
  <2> QED  BY <1>0, Advances
<1>2. outcome = "running" /\ outcome' \in {"running", "up"}  BY <1>0, Advances
<1>3. step' \in 0 .. Len(Steps)' /\ Running' /\ InitWild'  BY <1>0, Advances
<1>4. InitTypeOK'  BY <1>2, <1>3 DEF InitTypeOK, Queues, InitWild
<1>5. InitStatus'  BY <1>1, <1>2 DEF InitStatus
<1>6. InitReady'  BY <1>1 DEF InitReady, Queues, QueueStep
<1>7. InitConfig'  BY <1>1 DEF InitConfig
<1>8. InitHeld'  BY <1>1, <1>2 DEF InitHeld, Acquired, Resources
<1> QED  BY <1>3, <1>4, <1>5, <1>6, <1>7, <1>8

(* When the generation is read again, both fields have been read.          *)
LEMMA FieldsRead ==
  ASSUME InitInductive, At("after")
  PROVE  step >= 3 /\ Taken("before") /\ Taken("field1") /\ Taken("field2")
<1>1. step \in Nat /\ step < Len(Steps) /\ Len(Steps) \in Nat
  BY Order DEF InitInductive, InitTypeOK, StepOrder, Running, At
<1>2. step + 1 \in 1 .. Len(Steps) /\ Steps[step + 1] = "after"  BY <1>1 DEF At, Now
<1>3. /\ step + 1 > 3 /\ Steps[step + 1 - 3] = "before"
      /\ Steps[step + 1 - 2] = "field1" /\ Steps[step + 1 - 1] = "field2"
  BY <1>2, Order DEF InitInductive, InitTypeOK, ConfigOrder
<1> QED  BY <1>1, <1>3 DEF Taken

(* When the generation is read first, no field has been read: the steps    *)
(* after it have been taken back.                                          *)
LEMMA FieldsNotYet ==
  ASSUME InitInductive, At("before")
  PROVE  ~ Taken("before") /\ ~ Taken("field1") /\ ~ Taken("field2") /\ ~ Taken("after")
<1>1. step \in Nat /\ step < Len(Steps) /\ Len(Steps) \in Nat /\ Once
  BY Order DEF InitInductive, InitTypeOK, StepOrder, Running, At
<1>2. step + 1 \in 1 .. Len(Steps) /\ Steps[step + 1] = "before"  BY <1>1 DEF At, Now
<1>3. ConfigOrder /\ FieldOrder  BY Order DEF InitInductive, InitTypeOK
<1>4. ASSUME NEW j \in 1 .. step
      PROVE  Steps[j] # "before" /\ Steps[j] # "field1" /\ Steps[j] # "field2" /\ Steps[j] # "after"
  <2>1. j \in 1 .. Len(Steps) /\ j # step + 1  BY <1>1
  <2>2. Steps[j] # "before"  BY <2>1, <1>1, <1>2 DEF Once
  <2>3. \A k \in 1 .. step : Steps[k] # "before"  BY <1>1, <1>2 DEF Once
  <2> QED  BY <2>1, <2>2, <2>3, <1>3, <1>1 DEF ConfigOrder, FieldOrder
<1> QED  BY <1>4 DEF Taken

(* When a field is read, the generation has been and not yet again.        *)
LEMMA FieldAfterBefore ==
  ASSUME InitInductive, NEW s \in {"field1", "field2"}, At(s)
  PROVE  Taken("before") /\ ~ Taken("after")
<1>1. step \in Nat /\ step < Len(Steps) /\ Len(Steps) \in Nat /\ Once
  BY Order DEF InitInductive, InitTypeOK, StepOrder, Running, At
<1>2. step + 1 \in 1 .. Len(Steps) /\ Steps[step + 1] = s  BY <1>1 DEF At, Now
<1>3. ConfigOrder /\ FieldOrder  BY Order DEF InitInductive, InitTypeOK
<1>4. Taken("before")
  <2>1. CASE s = "field1"
    <3>1. step + 1 > 1 /\ Steps[step + 1 - 1] = "before"
      BY <1>1, <1>2, <1>3, <2>1 DEF FieldOrder
    <3> QED  BY <3>1, <1>1 DEF Taken
  <2>2. CASE s = "field2"
    <3>1. step + 1 > 2 /\ Steps[step + 1 - 2] = "before"
      BY <1>1, <1>2, <1>3, <2>2 DEF FieldOrder
    <3> QED  BY <3>1, <1>1 DEF Taken
  <2> QED  BY <2>1, <2>2
<1>5. ~ Taken("after")
  <2> SUFFICES ASSUME NEW j \in 1 .. step, Steps[j] = "after" PROVE FALSE  BY DEF Taken
  <2>1. j \in 1 .. Len(Steps) /\ j - 1 \in 1 .. Len(Steps) /\ j - 2 \in 1 .. Len(Steps)
        /\ Steps[j - 2] = "field1" /\ Steps[j - 1] = "field2"
    BY <1>1, <1>3 DEF ConfigOrder
  <2> QED  BY <2>1, <1>1, <1>2 DEF Once
<1> QED  BY <1>4, <1>5

(* The generation, and the fields.                                         *)
LEMMA ReadKeeps ==
  ASSUME InitInductive, ReadBefore \/ (\E i \in 1 .. 2 : ReadConfField(i)) PROVE InitInductive'
<1> USE DEF InitInductive
<1>1. CASE ReadBefore
  <2> USE <1>1 DEF ReadBefore
  <2>1. \A t : Taken(t)' <=> Taken(t) \/ t = "before"  BY Advances
  <2>2. outcome = "running" /\ outcome' \in {"running", "up"}  BY Advances
  <2>3. step' \in 0 .. Len(Steps)' /\ Running' /\ InitWild'  BY Advances
  <2>4. ~ Taken("before") /\ ~ Taken("field1") /\ ~ Taken("field2")
    BY FieldsNotYet
  <2>5. InitTypeOK'  BY <2>2, <2>3 DEF InitTypeOK, Queues, InitWild, StatusBits
  <2>6. InitStatus'  BY <2>1, <2>2 DEF InitStatus
  <2>7. InitReady'  BY <2>1 DEF InitReady, Queues, QueueStep
  <2>8. InitConfig'  BY <2>1, <2>4 DEF InitConfig, InitTypeOK
  <2>9. InitHeld'  BY <2>1, <2>2 DEF InitHeld, Acquired, Resources
  <2> QED  BY <2>3, <2>5, <2>6, <2>7, <2>8, <2>9
<1>2. ASSUME NEW i \in 1 .. 2, ReadConfField(i) PROVE InitInductive'
  <2> USE <1>2 DEF ReadConfField
  <2> DEFINE s == IF i = 1 THEN "field1" ELSE "field2"
  <2>0. At(s)  OBVIOUS
  <2>1. \A t : Taken(t)' <=> Taken(t) \/ t = s
    <3> HIDE DEF s
    <3> QED  BY <2>0, Advances
  <2>2. outcome = "running" /\ outcome' \in {"running", "up"}  BY <2>0, Advances
  <2>3. step' \in 0 .. Len(Steps)' /\ Running' /\ InitWild'  BY <2>0, Advances
  <2>4. Taken("before") /\ ~ Taken("after")  BY <2>0, FieldAfterBefore
  <2>5. InitTypeOK'  BY <2>2, <2>3 DEF InitTypeOK, Queues, InitWild, StatusBits
  <2>6. InitStatus'  BY <2>1, <2>2 DEF InitStatus
  <2>7. InitReady'  BY <2>1 DEF InitReady, Queues, QueueStep
  <2>8. InitConfig'
    <3>1. before <= gen /\ before \in Nat /\ gen \in Nat  BY <2>4, InitAssumption DEF InitConfig, InitTypeOK
    <3>2. conf'[i] = gen /\ \A j \in 1 .. 2 : j # i => conf'[j] = conf[j]  BY DEF InitTypeOK
    <3> QED  BY <2>1, <2>4, <3>1, <3>2 DEF InitConfig
  <2>9. InitHeld'  BY <2>1, <2>2 DEF InitHeld, Acquired, Resources
  <2> QED  BY <2>3, <2>5, <2>6, <2>7, <2>8, <2>9
<1> QED  BY <1>1, <1>2

(* The generation again: on to the next step, or back to the first read.   *)
LEMMA ReadAfterKeeps == ASSUME InitInductive, ReadAfter PROVE InitInductive'
<1> USE DEF InitInductive, ReadAfter
<1>1. CASE before = gen
  <2> USE <1>1
  <2>1. \A t : Taken(t)' <=> Taken(t) \/ t = "after"  BY Advances
  <2>2. outcome = "running" /\ outcome' \in {"running", "up"}  BY Advances
  <2>3. step' \in 0 .. Len(Steps)' /\ Running' /\ InitWild'  BY Advances
  <2>4. Taken("field1") /\ Taken("field2") /\ ~ Taken("after")  BY FieldsRead, Advances
  <2>5. InitTypeOK'  BY <2>2, <2>3 DEF InitTypeOK, Queues, InitWild, StatusBits
  <2>6. InitStatus'  BY <2>1, <2>2 DEF InitStatus
  <2>7. InitReady'  BY <2>1 DEF InitReady, Queues, QueueStep
  <2>8. InitConfig'  BY <2>1, <2>4 DEF InitConfig, InitTypeOK
  <2>9. InitHeld'  BY <2>1, <2>2 DEF InitHeld, Acquired, Resources
  <2> QED  BY <2>3, <2>5, <2>6, <2>7, <2>8, <2>9
<1>2. CASE before # gen
  <2> USE <1>2
  <2>1. \A t : Taken(t)' <=> Taken(t) /\ t \notin {"before", "field1", "field2"}
    BY TakenBack
  <2>2. outcome = "running" /\ outcome' = "running"  BY DEF At
  <2>3. step' \in 0 .. Len(Steps)' /\ Running' /\ InitWild'
    <3>1. Steps' = Steps  BY DEF Steps
    <3>2. step \in Nat /\ step >= 3 /\ step < Len(Steps) /\ Len(Steps) \in Nat
      BY FieldsRead, <2>2, Order DEF InitTypeOK, StepOrder, Running
    <3>3. InitWild'  BY <2>1, <2>2 DEF InitWild, FirstWrite
    <3> QED  BY <3>1, <3>2, <3>3 DEF Running
  <2>5. InitTypeOK'  BY <2>2, <2>3 DEF InitTypeOK, Queues, InitWild, StatusBits
  <2>6. InitStatus'  BY <2>1, <2>2 DEF InitStatus
  <2>7. InitReady'  BY <2>1 DEF InitReady, Queues, QueueStep
  <2>8. InitConfig'  BY <2>1 DEF InitConfig
  <2>9. InitHeld'  BY <2>1, <2>2 DEF InitHeld, InitTypeOK, Acquired, Resources
  <2> QED  BY <2>3, <2>5, <2>6, <2>7, <2>8, <2>9
<1> QED  BY <1>1, <1>2

(* A step fails, and whoever cleans up does.                               *)
LEMMA FailKeeps == ASSUME InitInductive, InitFail PROVE InitInductive'
<1> USE DEF InitInductive, InitFail
<1>0. StepOrder /\ EndOrder  BY Order DEF InitTypeOK
<1>1. \A t : Taken(t)' <=> Taken(t)  BY TakenSame
<1>2. Steps' = Steps  BY TakenSame
<1>3. step \in Nat /\ step < Len(Steps) /\ Len(Steps) \in Nat
  BY <1>0 DEF InitTypeOK, StepOrder, Running
<1>4. InitTypeOK'
  <2>1. res' \subseteq res  BY DEF Released, DeInit
  <2>2. status' \subseteq StatusBits  BY DEF InitTypeOK, StatusBits
  <2>3. garbage' \subseteq garbage /\ wild' \subseteq garbage  OBVIOUS
  <2> QED  BY <1>2, <2>1, <2>2, <2>3 DEF InitTypeOK, Queues
<1>5. Running'  BY DEF Running
<1>6. InitStatus'
  <2>1. CASE ~ HandshakeFails  BY <1>1, <2>1 DEF InitStatus
  <2>2. CASE HandshakeFails
    <3>1. ~ Taken("publish")
      <4> SUFFICES ASSUME NEW j \in 1 .. step, Steps[j] = "publish" PROVE FALSE  BY DEF Taken
      <4>1. j \in 1 .. Len(Steps)  BY <1>3
      <4>2. ~ \E i \in 1 .. j - 1 : Steps[i] = "end"  BY <2>2, <1>3 DEF HandshakeFails, Taken
      <4>3. Steps[j + 1] = "end"  BY <4>1, <4>2, <1>0 DEF EndOrder
      <4>4. j + 1 \in 1 .. step \/ j = step  BY <1>3
      <4>5. j = step  BY <4>3, <4>4, <2>2 DEF HandshakeFails, Taken
      <4>6. Now = "end"  BY <4>3, <4>5 DEF Now
      <4> QED  BY <4>6 DEF CanFail, Resources
    <3> QED  BY <1>1, <2>2, <3>1 DEF InitStatus, HandshakeFails
  <2> QED  BY <2>1, <2>2
<1>7. InitReady'  BY <1>1 DEF InitReady
<1>8. InitConfig'  BY <1>1 DEF InitConfig
<1>9. InitHeld'
  <2>1. res = Acquired  BY DEF InitHeld
  <2>2. Acquired' = Acquired /\ Now' = Now /\ drv' = drv  BY <1>1, TakenSame DEF Acquired
  <2>3. (CanFail' <=> CanFail) /\ (CleansUp' <=> CleansUp)
    BY <1>1, <2>2 DEF CanFail, CleansUp
  <2> HIDE DEF InitInductive
  <2>4. outcome' = "failed" /\ CanFail' /\ step' < Len(Steps')  BY <1>2, <1>3, <2>3
  <2>5. res' = IF ~ CleansUp' THEN Acquired'
               ELSE IF drv' = "blk" THEN Released(Acquired') ELSE DeInit(Acquired')
    BY <2>1, <2>2, <2>3
  <2> QED  BY <2>4, <2>5 DEF InitHeld
<1>10. InitWild'  BY <1>1 DEF InitWild
<1> QED  BY <1>4, <1>5, <1>6, <1>7, <1>8, <1>9, <1>10

(* HDF releases the driver.                                                *)
LEMMA ReleaseKeeps == ASSUME InitInductive, Release PROVE InitInductive'
<1> USE DEF InitInductive, Release
<1>0. StepOrder /\ EndOrder  BY Order DEF InitTypeOK
<1>1. \A t : Taken(t)' <=> Taken(t)  BY TakenSame
<1>2. Steps' = Steps  BY TakenSame
<1>3. step \in Nat /\ step <= Len(Steps) /\ Len(Steps) \in Nat
  BY <1>0 DEF InitTypeOK, StepOrder
<1>4. res' \subseteq res  BY DEF Released, DeInit
<1>5. res' = Released(Acquired)
  <2>1. \/ res = Acquired
        \/ res = Released(Acquired)
        \/ res = DeInit(Acquired)
    BY DEF InitHeld
  <2> QED  BY <2>1 DEF Released, DeInit
<1>6. InitHeld'
  <2>1. Acquired' = Acquired  BY <1>1 DEF Acquired
  <2>2. outcome' = "gone" /\ drv' # "rng"  OBVIOUS
  <2> QED  BY <1>5, <2>1, <2>2 DEF InitHeld
<1>7. wild' \subseteq wild \cup garbage  OBVIOUS
<1>8. InitTypeOK'  BY <1>2, <1>4, <1>7 DEF InitTypeOK, Queues
<1>9. Running'  BY DEF Running
<1>10. InitStatus'  BY <1>1 DEF InitStatus
<1>11. InitReady' /\ InitConfig'  BY <1>1 DEF InitReady, InitConfig
<1>12. InitWild'  BY <1>1, <1>7 DEF InitWild
<1> QED  BY <1>6, <1>8, <1>9, <1>10, <1>11, <1>12

(* The device changes its configuration.                                   *)
LEMMA ChangeKeeps == ASSUME InitInductive, ChangeConfig PROVE InitInductive'
<1> USE DEF InitInductive, ChangeConfig
<1>1. \A t : Taken(t)' <=> Taken(t)  BY TakenSame
<1>2. Steps' = Steps  BY TakenSame
<1>3. InitTypeOK'  BY <1>2, InitAssumption DEF InitTypeOK, Queues
<1>4. Running'  BY <1>2 DEF Running
<1>5. InitStatus' /\ InitReady' /\ InitWild'  BY <1>1 DEF InitStatus, InitReady, InitWild
<1>7. InitHeld'
  BY <1>1, TakenSame DEF InitHeld, Acquired, CanFail, CleansUp
<1>6. InitConfig'  BY <1>1, InitAssumption DEF InitConfig, InitTypeOK
<1> QED  BY <1>3, <1>4, <1>5, <1>6, <1>7

(* The bring-up of each of the five drivers, with its failures and releases,*)
(* never leaves the inductive invariant: what is held follows from the     *)
(* steps taken, the outcome and who cleaned up, and what is given back of  *)
(* memory nobody wrote is known by the write that is missing.              *)
THEOREM InitAlwaysInductive == InitSpec => []InitInductive
<1>1. InitInductive /\ [InitNext]_initVars => InitInductive'
  <2> SUFFICES ASSUME InitInductive, [InitNext]_initVars PROVE InitInductive'  OBVIOUS
  <2>1. CASE Succeed
    BY <2>1, AcquireKeeps, PassKeeps, HandshakeKeeps, ReadKeeps, ReadAfterKeeps, ConfigQueueKeeps
    DEF Succeed
  <2>2. CASE InitFail  BY <2>2, FailKeeps
  <2>3. CASE Release  BY <2>3, ReleaseKeeps
  <2>4. CASE ChangeConfig  BY <2>4, ChangeKeeps
  <2>5. CASE UNCHANGED initVars
    <3>1. /\ \A t : Taken(t)' <=> Taken(t)
          /\ Now' = Now /\ Steps' = Steps
      BY <2>5, TakenSame DEF initVars
    <3>2. InitHeld'
      BY <2>5, <3>1
      DEF initVars, InitInductive, InitHeld, Acquired, CanFail, CleansUp
    <3> QED
      BY <2>5, <3>1, <3>2
      DEF initVars, InitInductive, InitTypeOK, Running, InitStatus, InitReady, InitConfig, InitWild
  <2> QED  BY <2>1, <2>2, <2>3, <2>4, <2>5 DEF InitNext
<1> QED  BY <1>1, InitInitial, PTL DEF InitSpec

(* virtmmio.c and the five XxxInitDev: the device is started, or notified, *)
(* only after the whole handshake; its configuration is of one generation; *)
(* of what may call into the driver only /dev/random, /dev/fb0 and a       *)
(* NetDevice ever outlive its memory, on the three paths named there; what *)
(* stays behind is exactly the spin lock, the events, the random operations *)
(* and /dev/fb0; and what was not acquired is given back only from memory  *)
(* that was not cleared -- whichever step fails.                           *)
THEOREM BringUpIsSafe == InitSpec => []InitInvariant
BY InitAlwaysInductive, InitInductiveSafe, PTL
=============================================================================
