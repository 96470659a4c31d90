-------------------------- MODULE VirtInput_proofs --------------------------
(***************************************************************************)
(* The event queue of the virtio-input driver is safe for every queue size *)
(* and every width of the indices: InInductive is an inductive invariant.  *)
(***************************************************************************)
EXTENDS VirtInput, Virtq_proofs, FiniteSetTheorems

(* The sizes: the indices are wider than the queue.                        *)
LEMMA InSizes ==
  /\ QSZ \in Nat \ {0} /\ IDX \in Nat \ {0}
  /\ IDX % QSZ = 0 /\ IDX > QSZ
  /\ Bufs = 0 .. QSZ - 1
  /\ 0 \in Indices /\ QSZ \in Indices
BY InputAssumption, IdxAssumption DEF Bufs, Indices

(* The two windows of buffers: those for the device, published or not, and *)
(* those with an event the handler has not seen.                           *)
InAvail == Entries(eAvail.ring, eDev.last, PutAt, QSZ)
InUsed == Entries(eUsed.ring, eLast, eUsed.index, QSZ)

(* What the types say of the indices, in the form the ring lemmas need it.  *)
LEMMA InIndexTypes ==
  ASSUME InTypeOK
  PROVE  /\ eDev.last \in Indices /\ eAvail.index \in Indices
         /\ eLast \in Indices /\ eUsed.index \in Indices
         /\ eAvail.ring \in [0 .. QSZ - 1 -> Bufs] /\ eUsed.ring \in [0 .. QSZ - 1 -> Bufs]
         /\ Dist(eDev.last, eAvail.index) \in Nat /\ Dist(eLast, eUsed.index) \in Nat
         /\ eAdd \in Nat
<1>1. /\ eDev.last \in Indices /\ eAvail.index \in Indices
      /\ eLast \in Indices /\ eUsed.index \in Indices
  BY DEF InTypeOK
<1>2. /\ Dist(eDev.last, eAvail.index) \in 0 .. IDX - 1
      /\ Dist(eLast, eUsed.index) \in 0 .. IDX - 1
  BY <1>1, DistPositive
<1>3. /\ eAvail.ring \in [0 .. QSZ - 1 -> Bufs] /\ eUsed.ring \in [0 .. QSZ - 1 -> Bufs]
  BY DEF InTypeOK, Bufs
<1>4. eAdd \in Nat
  BY InSizes DEF InTypeOK
<1> QED  BY <1>1, <1>2, <1>3, <1>4, IdxAssumption

(* The buffers put back but not yet published follow those published.      *)
LEMMA PutBackFollows ==
  ASSUME InTypeOK, InCounted
  PROVE  /\ PutAt \in Indices
         /\ Dist(eDev.last, PutAt) = Dist(eDev.last, eAvail.index) + eAdd
         /\ Dist(eDev.last, eAvail.index) + eAdd <= QSZ
         /\ Dist(eLast, eUsed.index) <= QSZ
<1> DEFINE da == Dist(eDev.last, eAvail.index)
           du == Dist(eLast, eUsed.index)
           filling == IF eDev.fills = {} THEN 0 ELSE 1
<1>1. da \in Nat /\ du \in Nat /\ eAdd \in Nat /\ filling \in Nat
  BY InIndexTypes
<1>2. QSZ = (da + eAdd) + filling + du
  BY DEF InCounted
<1>3. da + eAdd <= QSZ /\ du <= QSZ
  <2> HIDE DEF da, du, filling
  <2> QED  BY <1>1, <1>2, InSizes
<1>4. da + eAdd < IDX
  BY <1>1, <1>3, InSizes
<1> QED  BY <1>3, <1>4, InIndexTypes, WalkFrom DEF PutAt

(* A step that moves no buffer: what the rest of the invariant asks of it.  *)
LEMMA NoBufferMoves ==
  ASSUME InInductive,
         eLast' = eLast, eAvail'.ring = eAvail.ring, PutAt' = PutAt,
         Dist(eDev.last, eAvail.index)' + eAdd' = Dist(eDev.last, eAvail.index) + eAdd,
         eUsed'.ring = eUsed.ring, eUsed'.index = eUsed.index,
         eDev'.last = eDev.last, eDev'.fills = eDev.fills
  PROVE  InBuffersPartitioned' /\ InCounted' /\ InOneByOne'
<1> USE DEF InInductive, InInvariant
<1>1. InBuffersPartitioned'  BY DEF InBuffersPartitioned
<1>2. InCounted'  BY DEF InCounted
<1>3. InOneByOne'  BY DEF InOneByOne
<1> QED  BY <1>1, <1>2, <1>3

-----------------------------------------------------------------------------
(* One lemma per step                                                      *)

(* The handler's steps that move no buffer: it begins, leaves the loop,    *)
(* lets interrupts come again and acknowledges this one.                   *)
LEMMA HandlerStaysSteps ==
  ASSUME InInductive, HandleBegin \/ HandleEmpty \/ HandleEnable \/ HandleAck
  PROVE  InInductive'
<1> USE DEF InInductive, InInvariant
<1>1. /\ eAdd' = eAdd /\ eAvail'.index = eAvail.index /\ eAvail'.ring = eAvail.ring
      /\ UNCHANGED <<ev, eUsed, eLast, works, cur, converted, reported, eDev>>
  BY DEF HandleBegin, HandleEmpty, HandleEnable, HandleAck, handlerVars, workVars,
         InTypeOK, InHandlerState
<1>2. InTypeOK'
  <2>1. /\ eAvail' \in [ring : [Bufs -> Bufs], index : Indices, flag : BOOLEAN]
        /\ eIsr' \in BOOLEAN
        /\ eIrq' \in {"idle", "loop", "post", "enable", "notify", "ack"}
    BY DEF HandleBegin, HandleEmpty, HandleEnable, HandleAck, InTypeOK
  <2> QED  BY <1>1, <2>1 DEF InTypeOK
<1>3. InBuffersPartitioned' /\ InCounted' /\ InOneByOne'
  BY <1>1, NoBufferMoves DEF PutAt
<1>4. InHandlerState' /\ InAsksWhenIdle'
  BY <1>1 DEF InHandlerState, InAsksWhenIdle,
              HandleBegin, HandleEmpty, HandleEnable, HandleAck
<1>5. InNoLostKick'
  BY <1>1 DEF InNoLostKick, HandleBegin, HandleEmpty, HandleEnable, HandleAck
<1> QED  BY <1>2, <1>3, <1>4, <1>5

(* A used buffer goes back behind those already put back; the avail ring   *)
(* has room for it, because this buffer is not in it.                      *)
LEMMA HandleOneStep ==
  ASSUME InInductive, HandleOne
  PROVE  InInductive'
<1> USE DEF InInductive, InInvariant
<1> DEFINE id == eUsed.ring[Slot(eLast, QSZ)]
           r2 == [eAvail.ring EXCEPT ![Slot(PutAt, QSZ)] = id]
           da == Dist(eDev.last, eAvail.index)
           du == Dist(eLast, eUsed.index)
           filling == IF eDev.fills = {} THEN 0 ELSE 1
<1>1. /\ eIrq = "loop" /\ eIrq' = eIrq /\ eLast # eUsed.index
      /\ eLast' = Inc(eLast) /\ eAdd' = eAdd + 1
      /\ eAvail'.ring = r2 /\ eAvail'.index = eAvail.index /\ eAvail'.flag = eAvail.flag
      /\ works' \in {Append(works, id), works}
      /\ UNCHANGED <<ev, eUsed, eIsr, cur, converted, reported, eDev>>
  BY DEF HandleOne, UsedPending, QueueWork, PutBackAt, TakeNext, InTypeOK
<1>2. /\ eLast \in Indices /\ eUsed.index \in Indices /\ eDev.last \in Indices
      /\ eAvail.ring \in [0 .. QSZ - 1 -> Bufs] /\ eUsed.ring \in [0 .. QSZ - 1 -> Bufs]
      /\ da \in Nat /\ du \in Nat /\ eAdd \in Nat /\ filling \in Nat
  BY InIndexTypes
<1>3. QSZ = (da + eAdd) + filling + du /\ du > 0
  <2>1. du # 0  BY <1>1, <1>2, DistPositive
  <2>2. QSZ = (da + eAdd) + filling + du
    BY DEF InCounted
  <2> HIDE DEF du
  <2> QED  BY <1>2, <2>1, <2>2
<1>4. da + eAdd < QSZ
  <2> HIDE DEF da, du, filling
  <2> QED  BY <1>2, <1>3, InSizes
<1>5. /\ PutAt \in Indices /\ Dist(eDev.last, PutAt) = da + eAdd
      /\ Dist(eDev.last, PutAt) < QSZ /\ Dist(eDev.last, PutAt) < IDX - 1
  BY <1>2, <1>4, PutBackFollows, InSizes
<1>6. PutAt' = Inc(PutAt)
  <2>1. eAdd < IDX
    <3> HIDE DEF da
    <3> QED  BY <1>2, <1>4, InSizes
  <2>2. Inc((eAvail.index + eAdd) % IDX) = (eAvail.index + (eAdd + 1)) % IDX
    BY <1>2, <2>1, IncOfSum DEF InTypeOK
  <2> QED  BY <1>1, <2>2 DEF PutAt
<1>7. id \in Bufs
  BY <1>2, SlotInRing, InSizes
<1>8. /\ id \in InUsed
      /\ Entries(eUsed.ring, Inc(eLast), eUsed.index, QSZ) = InUsed \ {id}
      /\ NoRepeat(eUsed.ring, Inc(eLast), eUsed.index, QSZ)
  BY <1>1, <1>2, EntriesPop, InSizes DEF InUsed, InBuffersPartitioned
<1>9. /\ r2[Slot(PutAt, QSZ)] = id
      /\ Entries(r2, eDev.last, PutAt, QSZ) = InAvail
      /\ NoRepeat(r2, eDev.last, PutAt, QSZ)
  <2> DEFINE a == eDev.last
             b == PutAt
             ring == eAvail.ring
  <2>1. NoRepeat(ring, a, b, QSZ)
    BY DEF InBuffersPartitioned
  <2>2. /\ a \in Indices /\ b \in Indices /\ ring \in [0 .. QSZ - 1 -> Bufs]
        /\ Dist(a, b) < QSZ /\ Dist(a, b) < IDX - 1
    BY <1>2, <1>5
  <2> HIDE DEF a, b, ring, id
  <2>3. LET r == [ring EXCEPT ![Slot(b, QSZ)] = id] IN
        /\ r[Slot(b, QSZ)] = id
        /\ Entries(r, a, b, QSZ) = Entries(ring, a, b, QSZ)
        /\ NoRepeat(ring, a, b, QSZ) => NoRepeat(r, a, b, QSZ)
    BY <1>7, <2>2, EntriesWrite, InSizes
  <2> QED  BY <2>1, <2>3 DEF a, b, ring, InAvail
<1>10. works' \in Seq(Bufs)
  <2>1. works \in Seq(Bufs)  BY DEF InTypeOK
  <2>2. \A i \in Bufs : Append(works, i) \in Seq(Bufs)
    BY <2>1
  <2> HIDE DEF id
  <2> QED  BY <1>1, <1>7, <2>1, <2>2
<1> HIDE DEF r2, id
<1>11. id \notin InAvail /\ id \notin eDev.fills
  BY <1>8 DEF InAvail, InUsed, InBuffersPartitioned
<1>12. /\ Entries(r2, eDev.last, Inc(PutAt), QSZ) = InAvail \cup {id}
       /\ NoRepeat(r2, eDev.last, Inc(PutAt), QSZ)
  BY <1>2, <1>5, <1>9, <1>11, EntriesPush, InSizes
<1>13. InTypeOK'
  <2>1. eAdd' \in 0 .. QSZ
    <3>1. eAdd + 1 \in 0 .. QSZ
      <4> HIDE DEF da
      <4> QED  BY <1>2, <1>4, InSizes
    <3> QED  BY <1>1, <3>1
  <2>2. eLast' \in Indices  BY <1>1, <1>2, DistPositive
  <2>3. eAvail' \in [ring : [Bufs -> Bufs], index : Indices, flag : BOOLEAN]
    BY <1>7 DEF HandleOne, PutBackAt, InTypeOK, id
  <2> QED  BY <1>1, <1>10, <2>1, <2>2, <2>3 DEF InTypeOK
<1>14. InAvail' = InAvail \cup {id} /\ InUsed' = InUsed \ {id}
  BY <1>1, <1>6, <1>8, <1>12 DEF InAvail, InUsed
<1>15. InBuffersPartitioned'
  <2>1. /\ Bufs = InAvail \cup eDev.fills \cup InUsed
        /\ InAvail \cap eDev.fills = {} /\ InAvail \cap InUsed = {}
        /\ eDev.fills \cap InUsed = {}
    BY DEF InBuffersPartitioned, InAvail, InUsed
  <2>2. /\ NoRepeat(eAvail.ring, eDev.last, PutAt, QSZ)'
        /\ NoRepeat(eUsed.ring, eLast, eUsed.index, QSZ)'
    BY <1>1, <1>6, <1>8, <1>12
  <2>3. /\ Bufs = InAvail' \cup eDev'.fills \cup InUsed'
        /\ InAvail' \cap eDev'.fills = {} /\ InAvail' \cap InUsed' = {}
        /\ eDev'.fills \cap InUsed' = {}
    BY <1>1, <1>8, <1>11, <1>14, <2>1
  <2> QED  BY <2>2, <2>3 DEF InBuffersPartitioned, InAvail, InUsed, Bufs
<1>16. InCounted'
  <2>1. du' = du - 1 /\ da' = da /\ filling' = filling
    BY <1>1, <1>2, WindowPop
  <2>2. QSZ = (da + (eAdd + 1)) + filling + (du - 1)
    <3> HIDE DEF da, du, filling
    <3> QED  BY <1>2, <1>3, InSizes
  <2> QED  BY <1>1, <2>1, <2>2 DEF InCounted
<1>17. InOneByOne' /\ InHandlerState' /\ InAsksWhenIdle' /\ InNoLostKick'
  BY <1>1 DEF InOneByOne, InHandlerState, InAsksWhenIdle, InNoLostKick
<1> QED  BY <1>13, <1>15, <1>16, <1>17

(* Publishing what was put back moves no buffer.                           *)
LEMMA HandlePostStep ==
  ASSUME InInductive, HandlePost
  PROVE  InInductive'
<1> USE DEF InInductive, InInvariant
<1>1. /\ eIrq = "post" /\ eIrq' = "enable" /\ eAdd' = 0
      /\ eAvail'.index = PutAt /\ eAvail'.ring = eAvail.ring /\ eAvail'.flag = eAvail.flag
      /\ UNCHANGED <<ev, eUsed, eLast, eIsr, works, cur, converted, reported, eDev>>
  BY DEF HandlePost, workVars, InTypeOK
<1>2. /\ PutAt \in Indices
      /\ Dist(eDev.last, PutAt) = Dist(eDev.last, eAvail.index) + eAdd
  BY PutBackFollows
<1>3. PutAt' = PutAt
  BY <1>1, <1>2, ModOfIndex DEF PutAt
<1>4. InTypeOK'
  <2>1. eAvail' \in [ring : [Bufs -> Bufs], index : Indices, flag : BOOLEAN]
    BY <1>2 DEF HandlePost, InTypeOK
  <2>2. eAdd' \in 0 .. QSZ  BY <1>1, InSizes
  <2> QED  BY <1>1, <2>1, <2>2 DEF InTypeOK
<1>5. Dist(eDev.last, eAvail.index)' + eAdd' = Dist(eDev.last, eAvail.index) + eAdd
  BY <1>1, <1>2, InIndexTypes
<1>6. InBuffersPartitioned' /\ InCounted' /\ InOneByOne'
  BY <1>1, <1>3, <1>5, NoBufferMoves
<1>7. InHandlerState' /\ InAsksWhenIdle' /\ InNoLostKick'
  BY <1>1 DEF InHandlerState, InAsksWhenIdle, InNoLostKick
<1> QED  BY <1>4, <1>6, <1>7

(* A device that may sleep is notified: it has not said it need not be.    *)
LEMMA HandleNotifyStep ==
  ASSUME InInductive, HandleNotify
  PROVE  InInductive'
<1> USE DEF InInductive, InInvariant
<1>1. /\ eIrq = "notify" /\ eIrq' = "ack"
      /\ eDev'.kick = (eDev.kick \/ ~ eUsed.flag)
      /\ eDev'.pc = eDev.pc /\ eDev'.last = eDev.last /\ eDev'.fills = eDev.fills
      /\ eDev'.intr = eDev.intr
      /\ UNCHANGED <<ev, eAvail, eUsed, eLast, eAdd, eIsr, works, cur, converted, reported>>
  BY DEF HandleNotify, MustKick, handlerVars, workVars, InTypeOK
<1>2. InTypeOK'
  <2>1. eDev' \in [pc : {"sleep", "run", "recheck"}, kick : BOOLEAN, last : Indices,
                   fills : SUBSET Bufs, intr : {"none", "due", "raised", "suppressed"}]
    BY DEF HandleNotify, MustKick, InTypeOK
  <2> QED  BY <1>1, <2>1 DEF InTypeOK
<1>3. InBuffersPartitioned' /\ InCounted' /\ InOneByOne'
  BY <1>1, NoBufferMoves DEF PutAt
<1>4. InHandlerState' /\ InAsksWhenIdle' /\ InNoLostKick'
  BY <1>1 DEF InHandlerState, InAsksWhenIdle, InNoLostKick
<1> QED  BY <1>2, <1>3, <1>4

(* The work thread touches no place of the queue, only what the buffers    *)
(* say.                                                                    *)
LEMMA WorkerSteps ==
  ASSUME InInductive, Worker
  PROVE  InInductive'
<1> USE DEF InInductive, InInvariant
<1>1. UNCHANGED <<eAvail, eUsed, eLast, eAdd, eIsr, eIrq, eDev>>
  BY DEF Worker, WorkTake, WorkConvert, WorkReport, handlerVars
<1>2. InTypeOK'
  <2>1. CASE WorkTake
    <3>1. /\ works # << >> /\ cur' = {Head(works)} /\ works' = Tail(works)
          /\ converted' = FALSE /\ UNCHANGED <<ev, reported>>
      BY <2>1 DEF WorkTake
    <3>2. Head(works) \in Bufs /\ Tail(works) \in Seq(Bufs)
      BY <3>1 DEF InTypeOK
    <3> QED  BY ZenonT(60), <1>1, <3>1, <3>2 DEF InTypeOK
  <2>2. CASE WorkConvert
    <3>1. PICK id \in cur : ev' = [ev EXCEPT ![id].onScreen = TRUE]
      BY <2>2 DEF WorkConvert
    <3>2. converted' = TRUE /\ UNCHANGED <<works, cur, reported>>
      BY <2>2 DEF WorkConvert
    <3>3. ev' \in [Bufs -> Events]
      BY <3>1 DEF InTypeOK, Events
    <3> QED  BY <1>1, <3>2, <3>3 DEF InTypeOK
  <2>3. CASE WorkReport
    <3>1. PICK id \in cur : reported' = ev[id]
      BY <2>3 DEF WorkReport
    <3>2. reported' \in Events
      BY <3>1 DEF InTypeOK
    <3>3. cur' = {} /\ converted' = FALSE /\ UNCHANGED <<ev, works>>
      BY <2>3 DEF WorkReport
    <3> QED  BY <1>1, <3>2, <3>3 DEF InTypeOK
  <2> QED  BY <2>1, <2>2, <2>3 DEF Worker
<1>3. InBuffersPartitioned' /\ InCounted' /\ InOneByOne'
  BY <1>1, NoBufferMoves DEF PutAt
<1>4. InHandlerState' /\ InAsksWhenIdle' /\ InNoLostKick'
  BY <1>1 DEF InHandlerState, InAsksWhenIdle, InNoLostKick
<1> QED  BY <1>2, <1>3, <1>4

(* The device takes the next published buffer and writes an event there.   *)
LEMMA DevFillStep ==
  ASSUME InInductive, NEW v \in Values, DevFill(v)
  PROVE  InInductive'
<1> USE DEF InInductive, InInvariant
<1> DEFINE id == eAvail.ring[Slot(eDev.last, QSZ)]
           da == Dist(eDev.last, eAvail.index)
           du == Dist(eLast, eUsed.index)
<1>1. /\ eDev.pc = "run" /\ eDev.fills = {} /\ eDev.last # eAvail.index
      /\ ev' = [ev EXCEPT ![id] = Raw(v)]
      /\ eDev'.fills = {id} /\ eDev'.last = Inc(eDev.last)
      /\ eDev'.pc = eDev.pc /\ eDev'.kick = eDev.kick /\ eDev'.intr = eDev.intr
      /\ UNCHANGED <<eAvail, eUsed, eLast, eAdd, eIsr, eIrq, works, cur, converted, reported>>
  BY DEF DevFill, InTypeOK, inDrvVars, handlerVars, workVars
<1>2. /\ eLast \in Indices /\ eUsed.index \in Indices /\ eDev.last \in Indices
      /\ eAvail.index \in Indices
      /\ eAvail.ring \in [0 .. QSZ - 1 -> Bufs] /\ eUsed.ring \in [0 .. QSZ - 1 -> Bufs]
      /\ da \in Nat /\ du \in Nat /\ eAdd \in Nat
  BY InIndexTypes
<1>3. da # 0
  BY <1>1, <1>2, DistPositive
<1>4. QSZ = (da + eAdd) + 0 + du
  BY <1>1 DEF InCounted
<1>5. /\ PutAt \in Indices /\ Dist(eDev.last, PutAt) = da + eAdd /\ eDev.last # PutAt
  <2>1. /\ PutAt \in Indices /\ Dist(eDev.last, PutAt) = da + eAdd
    BY PutBackFollows
  <2>2. da + eAdd # 0
    <3> HIDE DEF da
    <3> QED  BY <1>2, <1>3
  <2> QED  BY <1>2, <2>1, <2>2, DistPositive
<1>6. /\ id \in InAvail
      /\ Entries(eAvail.ring, Inc(eDev.last), PutAt, QSZ) = InAvail \ {id}
      /\ NoRepeat(eAvail.ring, Inc(eDev.last), PutAt, QSZ)
  BY <1>2, <1>5, EntriesPop, InSizes DEF InAvail, InBuffersPartitioned
<1>7. id \in Bufs
  BY <1>2, SlotInRing, InSizes
<1> HIDE DEF id
<1>8. id \notin InUsed
  BY <1>6 DEF InAvail, InUsed, InBuffersPartitioned
<1>9. InAvail' = InAvail \ {id} /\ InUsed' = InUsed
  BY <1>1, <1>6 DEF InAvail, InUsed, PutAt
<1>10. InTypeOK'
  <2>1. eDev' \in [pc : {"sleep", "run", "recheck"}, kick : BOOLEAN, last : Indices,
                   fills : SUBSET Bufs, intr : {"none", "due", "raised", "suppressed"}]
    BY <1>2, <1>7, DistPositive DEF DevFill, InTypeOK, id
  <2>2. ev' \in [Bufs -> Events]
    BY <1>1, <1>7 DEF InTypeOK, Events, Raw
  <2> QED  BY <1>1, <2>1, <2>2 DEF InTypeOK
<1>11. InBuffersPartitioned'
  <2>1. Bufs = InAvail \cup InUsed /\ InAvail \cap InUsed = {}
    BY <1>1 DEF InBuffersPartitioned, InAvail, InUsed
  <2>2. /\ NoRepeat(eAvail.ring, eDev.last, PutAt, QSZ)'
        /\ NoRepeat(eUsed.ring, eLast, eUsed.index, QSZ)'
    BY <1>1, <1>6 DEF InBuffersPartitioned, PutAt
  <2>3. /\ Bufs = InAvail' \cup eDev'.fills \cup InUsed'
        /\ InAvail' \cap eDev'.fills = {} /\ InAvail' \cap InUsed' = {}
        /\ eDev'.fills \cap InUsed' = {}
    BY <1>1, <1>6, <1>8, <1>9, <2>1
  <2> QED  BY <2>2, <2>3 DEF InBuffersPartitioned, InAvail, InUsed, Bufs
<1>12. InCounted'
  <2>1. du' = du /\ da' = da - 1 /\ eDev'.fills # {}
    BY <1>1, <1>2, WindowPop
  <2>2. QSZ = ((da - 1) + eAdd) + 1 + du
    <3> HIDE DEF da, du
    <3> QED  BY <1>2, <1>4, InSizes
  <2> QED  BY <1>1, <2>1, <2>2 DEF InCounted
<1>13. InOneByOne' /\ InHandlerState' /\ InAsksWhenIdle' /\ InNoLostKick'
  BY <1>1 DEF InOneByOne, InHandlerState, InAsksWhenIdle, InNoLostKick
<1> QED  BY <1>10, <1>11, <1>12, <1>13

(* The device hands the buffer back; the used ring has room for it, and an *)
(* interrupt is due.                                                       *)
LEMMA DevUseStep ==
  ASSUME InInductive, DevUse
  PROVE  InInductive'
<1> USE DEF InInductive, InInvariant
<1>1. PICK id \in eDev.fills :
        /\ eUsed' = [eUsed EXCEPT !.ring[Slot(eUsed.index, QSZ)] = id, !.index = Inc(@)]
        /\ eDev' = [eDev EXCEPT !.fills = {}, !.intr = "due"]
        /\ UNCHANGED <<ev, inDrvVars, eIsr>>
  BY DEF DevUse
<1> DEFINE r2 == [eUsed.ring EXCEPT ![Slot(eUsed.index, QSZ)] = id]
           da == Dist(eDev.last, eAvail.index)
           du == Dist(eLast, eUsed.index)
<1>2. /\ eUsed'.ring = r2 /\ eUsed'.index = Inc(eUsed.index) /\ eUsed'.flag = eUsed.flag
      /\ eDev'.fills = {} /\ eDev'.intr = "due" /\ eDev'.last = eDev.last
      /\ eDev'.pc = eDev.pc /\ eDev'.kick = eDev.kick
      /\ UNCHANGED <<ev, eAvail, eLast, eAdd, eIsr, eIrq, works, cur, converted, reported>>
  BY <1>1 DEF InTypeOK, inDrvVars, handlerVars, workVars
<1>3. /\ eLast \in Indices /\ eUsed.index \in Indices /\ eDev.last \in Indices
      /\ eUsed.ring \in [0 .. QSZ - 1 -> Bufs]
      /\ da \in Nat /\ du \in Nat /\ eAdd \in Nat
  BY InIndexTypes
<1>4. eDev.fills = {id} /\ id \in Bufs
  BY <1>1 DEF InOneByOne, InTypeOK
<1>5. QSZ = (da + eAdd) + 1 + du
  BY <1>4 DEF InCounted
<1>6. du < QSZ /\ du < IDX - 1
  <2> HIDE DEF da, du
  <2> QED  BY <1>3, <1>5, InSizes
<1>7. /\ r2[Slot(eUsed.index, QSZ)] = id
      /\ Entries(r2, eLast, eUsed.index, QSZ) = InUsed
      /\ NoRepeat(r2, eLast, eUsed.index, QSZ)
  <2> DEFINE a == eLast
             b == eUsed.index
             ring == eUsed.ring
  <2>1. NoRepeat(ring, a, b, QSZ)
    BY DEF InBuffersPartitioned
  <2>2. /\ a \in Indices /\ b \in Indices /\ ring \in [0 .. QSZ - 1 -> Bufs]
        /\ Dist(a, b) < QSZ /\ Dist(a, b) < IDX - 1
    BY <1>3, <1>6
  <2> HIDE DEF a, b, ring
  <2>3. LET r == [ring EXCEPT ![Slot(b, QSZ)] = id] IN
        /\ r[Slot(b, QSZ)] = id
        /\ Entries(r, a, b, QSZ) = Entries(ring, a, b, QSZ)
        /\ NoRepeat(ring, a, b, QSZ) => NoRepeat(r, a, b, QSZ)
    BY <1>4, <2>2, EntriesWrite, InSizes
  <2> QED  BY <2>1, <2>3 DEF a, b, ring, InUsed
<1> HIDE DEF r2
<1>8. id \notin InUsed
  BY <1>4 DEF InUsed, InBuffersPartitioned
<1>9. /\ Entries(r2, eLast, Inc(eUsed.index), QSZ) = InUsed \cup {id}
      /\ NoRepeat(r2, eLast, Inc(eUsed.index), QSZ)
  BY <1>3, <1>6, <1>7, <1>8, EntriesPush, InSizes
<1>10. InAvail' = InAvail /\ InUsed' = InUsed \cup {id}
  BY <1>2, <1>9 DEF InAvail, InUsed, PutAt
<1>11. InTypeOK'
  <2>1. eDev' \in [pc : {"sleep", "run", "recheck"}, kick : BOOLEAN, last : Indices,
                   fills : SUBSET Bufs, intr : {"none", "due", "raised", "suppressed"}]
    BY <1>1 DEF InTypeOK
  <2>2. eUsed' \in [ring : [Bufs -> Bufs], index : Indices, flag : BOOLEAN]
    BY <1>1, <1>3, <1>4, DistPositive DEF InTypeOK
  <2> QED  BY <1>2, <2>1, <2>2 DEF InTypeOK
<1>12. InBuffersPartitioned'
  <2>1. /\ Bufs = InAvail \cup {id} \cup InUsed
        /\ InAvail \cap {id} = {} /\ InAvail \cap InUsed = {}
    BY <1>4 DEF InBuffersPartitioned, InAvail, InUsed
  <2>2. /\ NoRepeat(eAvail.ring, eDev.last, PutAt, QSZ)'
        /\ NoRepeat(eUsed.ring, eLast, eUsed.index, QSZ)'
    BY <1>2, <1>9 DEF InBuffersPartitioned, PutAt
  <2>3. /\ Bufs = InAvail' \cup eDev'.fills \cup InUsed'
        /\ InAvail' \cap eDev'.fills = {} /\ InAvail' \cap InUsed' = {}
        /\ eDev'.fills \cap InUsed' = {}
    BY <1>2, <1>8, <1>10, <2>1
  <2> QED  BY <2>2, <2>3 DEF InBuffersPartitioned, InAvail, InUsed, Bufs
<1>13. InCounted'
  <2>1. du' = du + 1 /\ da' = da /\ eDev'.fills = {}
    BY <1>2, <1>3, <1>6, WindowPush
  <2>2. QSZ = (da + eAdd) + 0 + (du + 1)
    <3> HIDE DEF da, du
    <3> QED  BY <1>3, <1>5, InSizes
  <2> QED  BY <1>2, <2>1, <2>2 DEF InCounted
<1>14. InOneByOne' /\ InHandlerState' /\ InAsksWhenIdle' /\ InNoLostKick'
  BY <1>2 DEF InOneByOne, InHandlerState, InAsksWhenIdle, InNoLostKick
<1> QED  BY <1>11, <1>12, <1>13, <1>14

(* Waking up, falling asleep and raising the interrupt move no buffer.     *)
LEMMA DevOtherSteps ==
  ASSUME InInductive, DevWake \/ DevIntr \/ DevEmpty \/ DevRecheck
  PROVE  InInductive'
<1> USE DEF InInductive, InInvariant
<1>1. /\ eUsed'.ring = eUsed.ring /\ eUsed'.index = eUsed.index
      /\ eDev'.last = eDev.last /\ eDev'.fills = eDev.fills
      /\ UNCHANGED <<ev, eAvail, eLast, eAdd, eIrq, works, cur, converted, reported>>
  BY DEF DevWake, DevIntr, DevEmpty, DevRecheck, InTypeOK, inDrvVars, handlerVars, workVars
<1>2. InTypeOK'
  <2>1. /\ eDev' \in [pc : {"sleep", "run", "recheck"}, kick : BOOLEAN, last : Indices,
                      fills : SUBSET Bufs, intr : {"none", "due", "raised", "suppressed"}]
        /\ eUsed' \in [ring : [Bufs -> Bufs], index : Indices, flag : BOOLEAN]
        /\ eIsr' \in BOOLEAN
    BY ZenonT(60) DEF DevWake, DevIntr, DevEmpty, DevRecheck, InTypeOK
  <2> QED  BY <1>1, <2>1 DEF InTypeOK
<1>3. InBuffersPartitioned' /\ InCounted' /\ InOneByOne'
  BY <1>1, NoBufferMoves DEF PutAt
<1>4. InHandlerState'
  BY <1>1 DEF InHandlerState
<1>5. InAsksWhenIdle' /\ InNoLostKick'
  <2>1. CASE DevWake
    BY <2>1 DEF DevWake, InAsksWhenIdle, InNoLostKick, InTypeOK, inDrvVars
  <2>2. CASE DevIntr
    BY <2>2 DEF DevIntr, InAsksWhenIdle, InNoLostKick, InTypeOK, inDrvVars
  <2>3. CASE DevEmpty
    BY <2>3 DEF DevEmpty, InAsksWhenIdle, InNoLostKick, InTypeOK, inDrvVars
  <2>4. CASE DevRecheck
    BY <2>4 DEF DevRecheck, InAsksWhenIdle, InNoLostKick, InTypeOK, inDrvVars
  <2> QED  BY <2>1, <2>2, <2>3, <2>4
<1> QED  BY <1>2, <1>3, <1>4, <1>5

-----------------------------------------------------------------------------
(* The invariant                                                           *)

(* PopulateEventQ gives the device every buffer at once.                   *)
LEMMA InInitInductive ==
  InInit => InInductive
<1> SUFFICES ASSUME InInit PROVE InInductive  OBVIOUS
<1> USE InSizes
<1>1. /\ eAvail.index = QSZ /\ eAvail.flag = FALSE /\ \A i \in Bufs : eAvail.ring[i] = i
      /\ eUsed.index = 0 /\ eUsed.flag = FALSE /\ eLast = 0 /\ eAdd = 0
      /\ eDev.last = 0 /\ eDev.fills = {} /\ eDev.kick = TRUE
      /\ eIrq = "idle"
  BY DEF InInit
<1>2. InTypeOK
  <2>1. PICK v \in Values : ev = [i \in Bufs |-> Raw(v)]
    BY DEF InInit
  <2>2. ev \in [Bufs -> Events]
    BY <2>1 DEF Events, Raw
  <2>3. /\ eAvail \in [ring : [Bufs -> Bufs], index : Indices, flag : BOOLEAN]
        /\ eUsed \in [ring : [Bufs -> Bufs], index : Indices, flag : BOOLEAN]
    BY DEF InInit
  <2>4. eDev \in [pc : {"sleep", "run", "recheck"}, kick : BOOLEAN, last : Indices,
                  fills : SUBSET Bufs, intr : {"none", "due", "raised", "suppressed"}]
    BY DEF InInit
  <2>5. eLast \in Indices /\ eAdd \in 0 .. QSZ
    BY <1>1
  <2>6. /\ eIsr = FALSE /\ works = << >> /\ cur = {} /\ converted = FALSE
        /\ reported = NoEvent
    BY DEF InInit
  <2>7. << >> \in Seq(Bufs)  OBVIOUS
  <2> QED  BY <1>1, <2>2, <2>3, <2>4, <2>5, <2>6, <2>7 DEF InTypeOK
<1>3. /\ PutAt = QSZ /\ Dist(0, QSZ) = QSZ /\ Dist(0, 0) = 0
      /\ \A i \in Indices : Dist(0, i) = i
  <2>1. PutAt = (QSZ + 0) % IDX
    BY <1>1 DEF PutAt
  <2>2. \A i \in Indices : Dist(0, i) = i
    BY DistLinear DEF Indices
  <2> QED  BY <2>1, <2>2, ModOfIndex
<1>4. Window(0, QSZ) = Bufs /\ Window(0, 0) = {}
  <2>1. \A i \in Indices : Dist(0, i) < Dist(0, QSZ) <=> i < QSZ
    BY <1>3
  <2>2. \A i \in Indices : i < QSZ <=> i \in Bufs
    BY DEF Indices
  <2>3. Bufs \subseteq Indices
    BY DEF Indices
  <2> QED  BY <2>1, <2>2, <2>3, WindowEmpty DEF Window
<1>5. \A i \in Bufs : Slot(i, QSZ) = i
  <2> SUFFICES ASSUME NEW i \in Bufs PROVE i % QSZ = i  BY DEF Slot
  <2>1. (QSZ * 0 + i) % QSZ = i  BY ModUnique
  <2> QED  BY <2>1
<1>6. /\ Entries(eAvail.ring, 0, QSZ, QSZ) = Bufs /\ NoRepeat(eAvail.ring, 0, QSZ, QSZ)
      /\ Entries(eUsed.ring, 0, 0, QSZ) = {} /\ NoRepeat(eUsed.ring, 0, 0, QSZ)
  BY <1>1, <1>4, <1>5, EntriesEmpty DEF Entries, NoRepeat
<1>7. InBuffersPartitioned
  BY <1>1, <1>3, <1>6 DEF InBuffersPartitioned
<1>8. InCounted /\ InOneByOne
  BY <1>1, <1>3 DEF InCounted, InOneByOne
<1>9. InHandlerState /\ InAsksWhenIdle /\ InNoLostKick
  BY <1>1 DEF InHandlerState, InAsksWhenIdle, InNoLostKick
<1> QED  BY <1>2, <1>7, <1>8, <1>9 DEF InInductive, InInvariant

(* Every step of the handler, the work thread and the device preserves it. *)
LEMMA InNextInductive ==
  InInductive /\ [InNext]_inVars => InInductive'
<1> SUFFICES ASSUME InInductive, [InNext]_inVars PROVE InInductive'
  OBVIOUS
<1>1. CASE HandleEv
  BY <1>1, HandlerStaysSteps, HandleOneStep, HandlePostStep, HandleNotifyStep DEF HandleEv
<1>2. CASE Worker  BY <1>2, WorkerSteps
<1>3. CASE DevStep  BY <1>3, DevUseStep, DevOtherSteps DEF DevStep
<1>4. CASE \E v \in Values : DevFill(v)  BY <1>4, DevFillStep
<1>5. CASE UNCHANGED inVars
  <2>1. UNCHANGED <<ev, eAvail, eUsed, eLast, eAdd, eIsr, eIrq, works, cur,
                    converted, reported, eDev>>
    BY <1>5 DEF inVars, handlerVars, workVars
  <2>2. InTypeOK'
    BY <2>1 DEF InInductive, InInvariant, InTypeOK
  <2>3. InBuffersPartitioned' /\ InCounted' /\ InOneByOne'
    BY <2>1, NoBufferMoves DEF PutAt
  <2>4. InHandlerState' /\ InAsksWhenIdle' /\ InNoLostKick'
    BY <2>1 DEF InInductive, InInvariant, InHandlerState, InAsksWhenIdle, InNoLostKick
  <2> QED  BY <2>2, <2>3, <2>4 DEF InInductive, InInvariant
<1> QED
  BY <1>1, <1>2, <1>3, <1>4, <1>5 DEF InNext

(* The invariant holds in every state, for every queue size and index width. *)
THEOREM InAlwaysInductive == InSpec => []InInductive
BY InInitInductive, InNextInductive, PTL DEF InSpec

(* Every event buffer is in one place of the queue, whatever work items    *)
(* point at it, so VirtinHandleEv never gives the device one it has; and a *)
(* device asleep on buffers put back is about to be notified.  The record  *)
(* of whether the work thread keeps up changes nothing of this.            *)
THEOREM EventQueueIsSafe == InSpec \/ WatchedSpec => []InInvariant
<1>1. InInductive => InInvariant
  BY DEF InInductive
<1>2. WatchedInit => InInit
  BY DEF WatchedInit
<1>3. [WatchedNext]_watchedVars => [InNext]_inVars
  BY DEF WatchedNext, watchedVars
<1>4. WatchedSpec => InSpec
  BY <1>2, <1>3, PTL DEF WatchedSpec, InSpec
<1> QED  BY <1>1, <1>4, InAlwaysInductive, PTL

-----------------------------------------------------------------------------
(* Every event has a buffer to itself, until the work thread falls behind  *)

Queued == {works[k] : k \in DOMAIN works}

LEMMA OwnersInit ==
  ASSUME InInit
  PROVE  OwnBuffers
<1>1. /\ cur = {} /\ works = << >> /\ converted = FALSE /\ DOMAIN works = {}
  BY DEF InInit
<1> QED  BY <1>1 DEF OwnBuffers, Referenced

(* The handler queues a buffer that was used, and uses it no more.         *)
LEMMA HandleOneOwners ==
  ASSUME InInductive, OwnBuffers, HandleOne
  PROVE  OwnBuffers'
<1> DEFINE id == eUsed.ring[Slot(eLast, QSZ)]
<1>1. /\ eLast # eUsed.index /\ eLast' = Inc(eLast)
      /\ works' = Append(works, id) \/ works' = works
      /\ UNCHANGED <<ev, eUsed, cur, converted, eDev>>
  BY DEF HandleOne, UsedPending, QueueWork, TakeNext
<1>2. eLast \in Indices /\ eUsed.index \in Indices /\ works \in Seq(Bufs)
  BY DEF InInductive, InInvariant, InTypeOK
<1>3. /\ id \in InUsed
      /\ InUsed' = InUsed \ {id}
  BY <1>1, <1>2, EntriesPop, InSizes
     DEF InUsed, InBuffersPartitioned, InInductive, InInvariant
<1>4. id \notin eDev.fills /\ id \in Bufs
  BY <1>3 DEF InUsed, InBuffersPartitioned, InInductive, InInvariant
<1>5. /\ \A b, c \in cur : b = c
      /\ \A j, k \in DOMAIN works : works[j] = works[k] => j = k
      /\ cur \cap Queued = {}
      /\ Referenced \cap (eDev.fills \cup InUsed) = {}
      /\ converted => \A b \in cur : ev[b].onScreen
      /\ Referenced = cur \cup Queued
  BY DEF OwnBuffers, InUsed, Queued, Referenced
<1> HIDE DEF id
<1>6. CASE works' = Append(works, id)
  <2>1. /\ DOMAIN works' = 1 .. Len(works) + 1 /\ DOMAIN works = 1 .. Len(works)
        /\ Len(works) \in Nat
        /\ \A k \in 1 .. Len(works) : works'[k] = works[k]
        /\ works'[Len(works) + 1] = id
    BY <1>2, <1>4, <1>6, AppendProperties, LenProperties
  <2>2. id \notin Queued /\ id \notin cur
    BY <1>3, <1>5
  <2>3. Queued' = Queued \cup {id}
    BY <2>1 DEF Queued
  <2>4. \A j, k \in DOMAIN works' : works'[j] = works'[k] => j = k
    BY <1>5, <2>1, <2>2 DEF Queued
  <2>5. Referenced' \cap (eDev'.fills \cup InUsed') = {}
    BY <1>1, <1>3, <1>4, <1>5, <2>3 DEF Referenced, Queued
  <2> QED  BY <1>1, <1>5, <2>2, <2>3, <2>4, <2>5 DEF OwnBuffers, InUsed, Queued
<1>7. CASE works' = works
  BY <1>1, <1>3, <1>5, <1>7 DEF OwnBuffers, InUsed, Queued, Referenced
<1> QED  BY <1>1, <1>6, <1>7

(* The work thread takes, converts and is done with its own buffer.        *)
LEMMA WorkerOwners ==
  ASSUME InInductive, OwnBuffers, Worker
  PROVE  OwnBuffers'
<1>1. /\ \A b, c \in cur : b = c
      /\ \A j, k \in DOMAIN works : works[j] = works[k] => j = k
      /\ cur \cap Queued = {}
      /\ Referenced \cap (eDev.fills \cup InUsed) = {}
      /\ Referenced = cur \cup Queued
  BY DEF OwnBuffers, InUsed, Queued, Referenced
<1>2. eDev' = eDev /\ InUsed' = InUsed
  BY DEF Worker, WorkTake, WorkConvert, WorkReport, handlerVars, InUsed
<1>3. works \in Seq(Bufs) /\ ev \in [Bufs -> Events] /\ cur \subseteq Bufs
  BY DEF InInductive, InInvariant, InTypeOK
<1>4. CASE WorkTake
  <2>1. /\ works # << >> /\ cur = {} /\ cur' = {Head(works)} /\ works' = Tail(works)
        /\ converted' = FALSE
    BY <1>4 DEF WorkTake
  <2>2. /\ Len(works) \in Nat \ {0} /\ DOMAIN works = 1 .. Len(works)
        /\ DOMAIN works' = 1 .. Len(works) - 1
        /\ \A k \in 1 .. Len(works) - 1 : works'[k] = works[k + 1]
        /\ Head(works) = works[1]
    BY <1>3, <2>1, HeadTailProperties, LenProperties, EmptySeq
  <2>3. \A k \in DOMAIN works' : k + 1 \in DOMAIN works /\ k + 1 # 1
    BY <2>2
  <2>4. 1 \in DOMAIN works
    BY <2>2
  <2>5. \A j, k \in DOMAIN works' : works'[j] = works'[k] => j = k
    <3> SUFFICES ASSUME NEW j \in DOMAIN works', NEW k \in DOMAIN works',
                        works'[j] = works'[k]
                 PROVE  j = k
      OBVIOUS
    <3>1. works[j + 1] = works[k + 1]  BY <2>2
    <3>2. j + 1 = k + 1  BY <1>1, <2>3, <3>1
    <3> QED  BY <2>2, <3>2
  <2>6. /\ \A k \in DOMAIN works' : works'[k] \in Queued /\ works'[k] # works[1]
        /\ works[1] \in Queued
    BY <1>1, <2>2, <2>3, <2>4 DEF Queued
  <2>7. Queued' \subseteq Queued /\ works[1] \notin Queued'
    BY <2>6 DEF Queued
  <2>8. cur' = {works[1]} /\ cur' \cap Queued' = {} /\ Referenced' \subseteq Referenced
    BY <1>1, <2>1, <2>2, <2>6, <2>7 DEF Referenced, Queued
  <2>9. Referenced' \cap (eDev'.fills \cup InUsed') = {}
    BY <1>1, <1>2, <2>8
  <2> QED  BY <2>1, <2>5, <2>8, <2>9 DEF OwnBuffers, InUsed, Queued
<1>5. CASE WorkConvert
  <2>1. PICK id \in cur : ev' = [ev EXCEPT ![id].onScreen = TRUE]
    BY <1>5 DEF WorkConvert
  <2>2. works' = works /\ cur' = cur
    BY <1>5 DEF WorkConvert
  <2>3. \A b \in cur : ev'[b].onScreen
    BY <1>1, <1>3, <2>1 DEF Events
  <2>4. Referenced' = Referenced
    BY <2>2 DEF Referenced
  <2> QED  BY <1>1, <1>2, <2>2, <2>3, <2>4 DEF OwnBuffers, InUsed, Queued
<1>6. CASE WorkReport
  <2>1. works' = works /\ cur' = {} /\ converted' = FALSE
    BY <1>6 DEF WorkReport
  <2>2. Referenced' \subseteq Referenced
    BY <2>1 DEF Referenced
  <2> QED  BY <1>1, <1>2, <2>1, <2>2 DEF OwnBuffers, InUsed, Queued
<1> QED  BY <1>4, <1>5, <1>6 DEF Worker

(* The device fills a buffer no work item names, if the work thread keeps  *)
(* up, and what it has filled it hands back.                               *)
LEMMA DeviceOwners ==
  ASSUME InInductive, InInductive', OwnBuffers, KeepsUp,
         DevUse \/ \E v \in Values : DevFill(v)
  PROVE  OwnBuffers'
<1>1. /\ \A b, c \in cur : b = c
      /\ \A j, k \in DOMAIN works : works[j] = works[k] => j = k
      /\ cur \cap Queued = {}
      /\ Referenced \cap (eDev.fills \cup InUsed) = {}
      /\ converted => \A b \in cur : ev[b].onScreen
  BY DEF OwnBuffers, InUsed, Queued
<1>2. /\ works' = works /\ cur' = cur /\ converted' = converted
      /\ eAvail' = eAvail /\ eLast' = eLast /\ eAdd' = eAdd
  BY DEF DevUse, DevFill, inDrvVars, workVars, handlerVars
<1>3. Referenced' = Referenced /\ cur \subseteq Referenced
  BY <1>2 DEF Referenced
<1>4. /\ ev \in [Bufs -> Events]
      /\ Bufs = InAvail \cup eDev.fills \cup InUsed
      /\ InAvail \cap eDev.fills = {} /\ InAvail \cap InUsed = {}
      /\ Bufs = InAvail' \cup eDev'.fills \cup InUsed'
      /\ InAvail' \cap InUsed' = {}
  BY DEF InInductive, InInvariant, InTypeOK, InBuffersPartitioned, InAvail, InUsed, Bufs
<1>5. CASE DevUse
  <2>1. eDev'.fills = {} /\ eDev'.last = eDev.last /\ ev' = ev
    BY <1>5 DEF DevUse, InInductive, InInvariant, InTypeOK
  <2>2. InAvail' = InAvail
    BY <1>2, <2>1 DEF InAvail, PutAt
  <2>3. eDev'.fills \cup InUsed' = eDev.fills \cup InUsed
    BY <1>4, <2>1, <2>2
  <2> QED  BY <1>1, <1>2, <1>3, <2>1, <2>3 DEF OwnBuffers, InUsed, Queued
<1>6. ASSUME NEW v \in Values, DevFill(v)
      PROVE  OwnBuffers'
  <2> DEFINE id == eAvail.ring[Slot(eDev.last, QSZ)]
  <2>1. eDev.fills = {} /\ eDev'.fills = {id} /\ eUsed' = eUsed /\ ev' = [ev EXCEPT ![id] = Raw(v)]
    BY <1>6 DEF DevFill, InInductive, InInvariant, InTypeOK
  <2> HIDE DEF id
  <2>2. id \notin Referenced
    BY <2>1 DEF KeepsUp
  <2>3. InUsed' = InUsed
    BY <1>2, <2>1 DEF InUsed
  <2>4. Referenced' \cap (eDev'.fills \cup InUsed') = {}
    BY <1>1, <1>3, <2>1, <2>2, <2>3
  <2>5. \A b \in cur : ev'[b] = ev[b]
    <3>1. \A b \in cur : b # id /\ b \in Bufs
      BY <1>3, <2>2 DEF InInductive, InInvariant, InTypeOK
    <3> QED  BY <1>4, <2>1, <3>1
  <2> QED  BY <1>1, <1>2, <2>4, <2>5 DEF OwnBuffers, InUsed, Queued
<1> QED  BY <1>5, <1>6

(* Every other step leaves the buffers and the work items as they are.     *)
LEMMA OwnersKept ==
  ASSUME InInductive, InInductive', OwnBuffers, KeepsUp, [InNext]_inVars
  PROVE  OwnBuffers'
<1>1. CASE HandleOne  BY <1>1, HandleOneOwners
<1>2. CASE Worker  BY <1>2, WorkerOwners
<1>3. CASE DevUse \/ \E v \in Values : DevFill(v)  BY <1>3, DeviceOwners
<1>4. CASE \/ HandleBegin \/ HandleEmpty \/ HandlePost \/ HandleEnable \/ HandleNotify
           \/ HandleAck \/ DevWake \/ DevIntr \/ DevEmpty \/ DevRecheck \/ UNCHANGED inVars
  <2>1. /\ UNCHANGED <<ev, works, cur, converted, eLast>>
        /\ eUsed'.ring = eUsed.ring /\ eUsed'.index = eUsed.index
        /\ eDev'.fills = eDev.fills
    BY ZenonT(60), <1>4 DEF HandleBegin, HandleEmpty, HandlePost, HandleEnable, HandleNotify, HandleAck,
                DevWake, DevIntr, DevEmpty, DevRecheck, inVars, workVars, handlerVars,
                inDrvVars, InInductive, InInvariant, InTypeOK
  <2>2. Referenced' = Referenced
    BY <2>1 DEF Referenced
  <2> QED  BY <2>1, <2>2 DEF OwnBuffers
<1> QED  BY <1>1, <1>2, <1>3, <1>4 DEF InNext, HandleEv, DevStep

-----------------------------------------------------------------------------
(* The used elements not yet handled, as a sequence                        *)

LEMMA RingIsSeq ==
  ASSUME NEW ring \in [0 .. QSZ - 1 -> Bufs], NEW a \in Indices, NEW b \in Indices
  PROVE  LET s == [k \in 1 .. Dist(a, b) |-> ring[Slot((a + k - 1) % IDX, QSZ)]]
         IN /\ s \in [1 .. Dist(a, b) -> Bufs]
            /\ s \in Seq(Bufs) /\ Len(s) = Dist(a, b)
<1> DEFINE n == Dist(a, b)
           s == [k \in 1 .. n |-> ring[Slot((a + k - 1) % IDX, QSZ)]]
<1>1. n \in Nat
  BY DistPositive, IdxAssumption
<1>2. ASSUME NEW k \in 1 .. n
      PROVE  ring[Slot((a + k - 1) % IDX, QSZ)] \in Bufs
  <2>1. (a + k - 1) % IDX \in Indices
    BY WindowWalk DEF Window
  <2> QED  BY <2>1, SlotInRing, InSizes
<1>3. s \in [1 .. n -> Bufs]
  BY <1>2
<1> HIDE DEF n, s
<1>4. s \in Seq(Bufs) /\ Len(s) = n
  BY <1>1, <1>3, WindowSeq
<1> QED  BY <1>3, <1>4 DEF n, s

LEMMA WaitingIsSeq ==
  /\ InTypeOK => /\ Waiting \in [1 .. Dist(eLast, eUsed.index) -> Bufs]
                 /\ Waiting \in Seq(Bufs) /\ Len(Waiting) = Dist(eLast, eUsed.index)
  /\ InTypeOK' => /\ Waiting' \in [1 .. Dist(eLast', eUsed'.index) -> Bufs]
                  /\ Waiting' \in Seq(Bufs) /\ Len(Waiting') = Dist(eLast', eUsed'.index)
<1>1. ASSUME InTypeOK
      PROVE  /\ Waiting \in [1 .. Dist(eLast, eUsed.index) -> Bufs]
             /\ Waiting \in Seq(Bufs) /\ Len(Waiting) = Dist(eLast, eUsed.index)
  <2>1. /\ eUsed.ring \in [0 .. QSZ - 1 -> Bufs]
        /\ eLast \in Indices /\ eUsed.index \in Indices
    BY <1>1 DEF InTypeOK, Bufs
  <2> QED  BY <2>1, RingIsSeq DEF Waiting
<1>2. ASSUME InTypeOK'
      PROVE  /\ Waiting' \in [1 .. Dist(eLast', eUsed'.index) -> Bufs]
             /\ Waiting' \in Seq(Bufs) /\ Len(Waiting') = Dist(eLast', eUsed'.index)
  <2>1. /\ eUsed'.ring \in [0 .. QSZ - 1 -> Bufs]
        /\ eLast' \in Indices /\ eUsed'.index \in Indices
    BY <1>2 DEF InTypeOK, Bufs
  <2> QED  BY <2>1, RingIsSeq DEF Waiting
<1> QED  BY <1>1, <1>2

(* The entries of the window are those of the sequence, each once.         *)
LEMMA WaitingOnce ==
  ASSUME InInductive
  PROVE  /\ \A k \in DOMAIN Waiting : Waiting[k] \in InUsed
         /\ \A j, k \in DOMAIN Waiting : Waiting[j] = Waiting[k] => j = k
<1> DEFINE n == Dist(eLast, eUsed.index)
           i(k) == (eLast + k - 1) % IDX
<1>1. /\ eLast \in Indices /\ eUsed.index \in Indices /\ n \in 0 .. IDX - 1
      /\ DOMAIN Waiting = 1 .. n
      /\ \A k \in 1 .. n : Waiting[k] = eUsed.ring[Slot(i(k), QSZ)]
      /\ NoRepeat(eUsed.ring, eLast, eUsed.index, QSZ)
  BY DistPositive DEF InInductive, InInvariant, InTypeOK, InBuffersPartitioned, Waiting
<1>2. \A k \in 1 .. n : i(k) \in Window(eLast, eUsed.index)
  BY <1>1, WindowWalk
<1>3. \A k \in DOMAIN Waiting : Waiting[k] \in InUsed
  BY <1>1, <1>2 DEF InUsed, Entries
<1>4. ASSUME NEW j \in 1 .. n, NEW k \in 1 .. n, i(j) = i(k)
      PROVE  j = k
  <2> HIDE DEF n
  <2>1. /\ n \in Nat /\ n < IDX /\ eLast \in Int /\ IDX \in Nat \ {0}
        /\ j \in Int /\ 1 <= j /\ j <= n /\ k \in Int /\ 1 <= k /\ k <= n
    BY <1>1, IdxAssumption DEF Indices
  <2>2. CASE j <= k
    <3>1. /\ eLast + j - 1 \in Int /\ eLast + k - 1 \in Int
          /\ eLast + j - 1 <= eLast + k - 1
          /\ (eLast + k - 1) - (eLast + j - 1) < IDX
      BY <2>1, <2>2
    <3>2. eLast + j - 1 = eLast + k - 1
      BY <1>4, <2>1, <3>1, ModInjective
    <3> QED  BY <2>1, <3>2
  <2>3. CASE k <= j
    <3>1. /\ eLast + j - 1 \in Int /\ eLast + k - 1 \in Int
          /\ eLast + k - 1 <= eLast + j - 1
          /\ (eLast + j - 1) - (eLast + k - 1) < IDX
      BY <2>1, <2>3
    <3>2. eLast + k - 1 = eLast + j - 1
      BY <1>4, <2>1, <3>1, ModInjective
    <3> QED  BY <2>1, <3>2
  <2> QED  BY <2>1, <2>2, <2>3
<1>5. \A j, k \in 1 .. n : Waiting[j] = Waiting[k] => i(j) = i(k)
  BY <1>1, <1>2 DEF NoRepeat
<1> HIDE DEF i, n
<1>6. \A j, k \in 1 .. n : i(j) = i(k) => j = k
  BY <1>4
<1> QED  BY <1>1, <1>3, <1>5, <1>6

(* Handling one takes the first off.                                       *)
LEMMA HandleOneWaiting ==
  ASSUME InInductive, InTypeOK', HandleOne
  PROVE  LET id == eUsed.ring[Slot(eLast, QSZ)] IN
         id \in Bufs /\ Waiting = <<id>> \o Waiting'
<1> DEFINE n == Dist(eLast, eUsed.index)
           id == eUsed.ring[Slot(eLast, QSZ)]
<1>1. eLast # eUsed.index /\ eLast' = Inc(eLast) /\ eUsed' = eUsed
  BY DEF HandleOne, UsedPending, TakeNext
<1>2. InTypeOK
  BY DEF InInductive, InInvariant
<1>3. /\ eLast \in Indices /\ eUsed.index \in Indices /\ n \in Nat /\ n # 0
      /\ Dist(Inc(eLast), eUsed.index) = n - 1
      /\ id \in Bufs
  BY <1>1, <1>2, InIndexTypes, WindowPop, DistPositive, SlotInRing, InSizes
<1>4. /\ Waiting \in Seq(Bufs) /\ Len(Waiting) = n
      /\ Waiting' \in Seq(Bufs) /\ Len(Waiting') = n - 1
  BY <1>1, <1>2, <1>3, WaitingIsSeq
<1>5. Waiting[1] = id
  <2>1. 1 \in 1 .. n
    <3> HIDE DEF n
    <3> QED  BY <1>3
  <2>2. eLast + 1 - 1 = eLast /\ eLast % IDX = eLast
    BY <1>3, ModOfIndex DEF Indices
  <2> QED  BY <2>1, <2>2 DEF Waiting
<1>6. ASSUME NEW k \in 1 .. n - 1 PROVE Waiting'[k] = Waiting[k + 1]
  <2>1. k \in 1 .. n /\ k + 1 \in 1 .. n
    <3> HIDE DEF n
    <3> QED  BY <1>3
  <2>2. (Inc(eLast) + k - 1) % IDX = (eLast + (k + 1) - 1) % IDX
    BY <1>3, <2>1, WindowWalk
  <2>3. Waiting[k + 1] = eUsed.ring[Slot((eLast + (k + 1) - 1) % IDX, QSZ)]
    BY <2>1 DEF Waiting
  <2> HIDE DEF n
  <2>4. Waiting'[k] = eUsed.ring[Slot((Inc(eLast) + k - 1) % IDX, QSZ)]
    BY <1>1, <1>3 DEF Waiting
  <2> QED  BY <2>2, <2>3, <2>4
<1> HIDE DEF n, id
<1>7. <<id>> \in Seq(Bufs) /\ Len(<<id>>) = 1 /\ <<id>>[1] = id
  BY <1>3
<1>8. /\ <<id>> \o Waiting' \in Seq(Bufs) /\ Len(<<id>> \o Waiting') = n
      /\ \A k \in 1 .. 1 + (n - 1) :
           (<<id>> \o Waiting')[k] = IF k <= 1 THEN <<id>>[k] ELSE Waiting'[k - 1]
  <2>1. 1 + (n - 1) = n  BY <1>3
  <2> QED  BY <1>4, <1>7, <2>1, ConcatProperties
<1>9. ASSUME NEW k \in 1 .. n PROVE (<<id>> \o Waiting')[k] = Waiting[k]
  <2>1. CASE k = 1
    <3>1. 1 \in 1 .. 1 + (n - 1) /\ 1 <= 1  BY <1>3, <2>1
    <3> QED  BY <1>5, <1>7, <1>8, <2>1, <3>1
  <2>2. CASE k # 1
    <3>1. k \in 1 .. 1 + (n - 1) /\ ~ (k <= 1) /\ k - 1 \in 1 .. n - 1 /\ (k - 1) + 1 = k
      BY <1>3, <2>2
    <3>2. (<<id>> \o Waiting')[k] = Waiting'[k - 1]  BY <1>8, <3>1
    <3>3. Waiting'[k - 1] = Waiting[k]  BY <1>6, <3>1
    <3> QED  BY <3>2, <3>3
  <2> QED  BY <2>1, <2>2
<1>10. Waiting = <<id>> \o Waiting'
  BY <1>4, <1>8, <1>9, SeqEqual
<1> QED  BY <1>3, <1>10 DEF id

(* The device's buffer comes last.                                         *)
LEMMA DevUseWaiting ==
  ASSUME InInductive, InTypeOK', DevUse
  PROVE  \E id \in eDev.fills :
           id \in Bufs /\ id \notin InUsed /\ Waiting' = Append(Waiting, id)
<1> DEFINE n == Dist(eLast, eUsed.index)
<1>1. PICK id \in eDev.fills :
        /\ eUsed' = [eUsed EXCEPT !.ring[Slot(eUsed.index, QSZ)] = id, !.index = Inc(@)]
        /\ UNCHANGED <<ev, inDrvVars, eIsr>>
  BY DEF DevUse
<1>2. InTypeOK /\ eDev.fills = {id} /\ id \in Bufs /\ id \notin InUsed
  BY <1>1 DEF InInductive, InInvariant, InOneByOne, InTypeOK, InBuffersPartitioned, InUsed
<1>3. /\ eLast \in Indices /\ eUsed.index \in Indices /\ n \in Nat
      /\ eUsed.ring \in [0 .. QSZ - 1 -> Bufs]
  BY <1>2, InIndexTypes
<1>4. n < QSZ /\ n < IDX - 1
  <2> DEFINE da == Dist(eDev.last, eAvail.index)
  <2>1. da \in Nat /\ eAdd \in Nat  BY <1>2, InIndexTypes
  <2>2. QSZ = (da + eAdd) + 1 + n  BY <1>2 DEF InInductive, InCounted
  <2> HIDE DEF da, n
  <2> QED  BY <1>3, <2>1, <2>2, InSizes
<1>5. /\ eUsed'.index = Inc(eUsed.index) /\ eLast' = eLast
      /\ eUsed'.ring = [eUsed.ring EXCEPT ![Slot(eUsed.index, QSZ)] = id]
  BY <1>1, <1>2 DEF inDrvVars, handlerVars, InTypeOK
<1>6. Dist(eLast', eUsed'.index) = n + 1
  BY <1>3, <1>4, <1>5, WindowPush
<1>7. Waiting \in [1 .. n -> Bufs] /\ Waiting' \in [1 .. n + 1 -> Bufs]
  BY <1>2, <1>6, WaitingIsSeq
<1>8. ASSUME NEW k \in 1 .. n PROVE Waiting'[k] = Waiting[k]
  <2> DEFINE i == (eLast + k - 1) % IDX
  <2>1. k \in 1 .. n + 1  BY <1>3
  <2>2. i \in Window(eLast, eUsed.index)
    BY <1>3, WindowWalk
  <2>3. Slot(i, QSZ) # Slot(eUsed.index, QSZ) /\ Slot(i, QSZ) \in 0 .. QSZ - 1
    BY <1>3, <1>4, <2>2, WindowSlots, InSizes
  <2> HIDE DEF i
  <2>4. eUsed'.ring[Slot(i, QSZ)] = eUsed.ring[Slot(i, QSZ)]
    BY <1>3, <1>5, <2>3
  <2> QED  BY <1>5, <1>6, <2>1, <2>4 DEF Waiting, i
<1>9. Waiting'[n + 1] = id
  <2>1. n + 1 \in 1 .. n + 1  BY <1>3
  <2>2. (eLast + (n + 1) - 1) % IDX = eUsed.index
    BY <1>3, WindowWalk
  <2>3. eUsed'.ring[Slot(eUsed.index, QSZ)] = id
    BY <1>3, <1>5, SlotInRing, InSizes
  <2>4. Waiting'[n + 1] = eUsed'.ring[Slot((eLast + (n + 1) - 1) % IDX, QSZ)]
    <3> HIDE DEF n
    <3> QED  BY <1>5, <1>6, <2>1 DEF Waiting
  <2> QED  BY <2>2, <2>3, <2>4
<1> HIDE DEF n
<1>10. Waiting' = Append(Waiting, id)
  BY <1>3, <1>7, <1>8, <1>9, WindowAppend
<1> QED  BY <1>2, <1>10

-----------------------------------------------------------------------------
(* What is owed to the input subsystem, as a sequence                      *)

(* Two sequences without repetition and without a common element.          *)
LEMMA ConcatOnce ==
  ASSUME NEW S, NEW s \in Seq(S), NEW t \in Seq(S), NEW A, NEW B, A \cap B = {},
         \A k \in 1 .. Len(s) : s[k] \in A, \A k \in 1 .. Len(t) : t[k] \in B,
         \A j, k \in 1 .. Len(s) : s[j] = s[k] => j = k,
         \A j, k \in 1 .. Len(t) : t[j] = t[k] => j = k
  PROVE  /\ \A k \in 1 .. Len(s \o t) : (s \o t)[k] \in A \cup B
         /\ \A j, k \in 1 .. Len(s \o t) : (s \o t)[j] = (s \o t)[k] => j = k
<1> DEFINE m == Len(s)
           n == Len(t)
           c == s \o t
<1>1. m \in Nat /\ n \in Nat
  BY LenProperties
<1>2. /\ Len(c) = m + n
      /\ \A i \in 1 .. m + n : c[i] = IF i <= m THEN s[i] ELSE t[i - m]
  BY ConcatProperties
<1> HIDE DEF m, n, c
<1>3. ASSUME NEW k \in 1 .. m + n
      PROVE  \/ k \in 1 .. m /\ c[k] = s[k]
             \/ k \notin 1 .. m /\ k - m \in 1 .. n /\ c[k] = t[k - m]
  BY SMTT(60), <1>1, <1>2
<1>4. \A k \in 1 .. m + n : \/ k \in 1 .. m /\ c[k] \in A
                            \/ k - m \in 1 .. n /\ c[k] \in B
  BY <1>3 DEF m, n
<1>5. ASSUME NEW j \in 1 .. m + n, NEW k \in 1 .. m + n, c[j] = c[k]
      PROVE  j = k
  <2>1. CASE j \in 1 .. m /\ k \in 1 .. m
    <3>1. c[j] = s[j] /\ c[k] = s[k]  BY <1>3, <2>1
    <3> QED  BY <1>5, <2>1, <3>1 DEF m
  <2>2. CASE j \notin 1 .. m /\ k \notin 1 .. m
    <3>1. j - m \in 1 .. n /\ k - m \in 1 .. n /\ t[j - m] = t[k - m]
      BY <1>3, <1>5, <2>2
    <3>2. j - m = k - m  BY <3>1 DEF n
    <3> QED  BY <1>1, <3>2
  <2>3. CASE j \in 1 .. m /\ k \notin 1 .. m
    <3>1. c[j] \in A /\ c[k] \in B
      BY <1>3, <2>3 DEF m, n
    <3> QED  BY <1>5, <3>1
  <2>4. CASE j \notin 1 .. m /\ k \in 1 .. m
    <3>1. c[j] \in B /\ c[k] \in A
      BY <1>3, <2>4 DEF m, n
    <3> QED  BY <1>5, <3>1
  <2> QED  BY <2>1, <2>2, <2>3, <2>4
<1>6. \A k \in 1 .. Len(c) : c[k] \in A \cup B
  BY <1>2, <1>4
<1>7. \A j, k \in 1 .. Len(c) : c[j] = c[k] => j = k
  BY <1>2, <1>5
<1> QED  BY <1>6, <1>7 DEF c

(* A sequence of different buffers, one of which it lacks, is not as long  *)
(* as the queue.                                                           *)
LEMMA RoomForOneMore ==
  ASSUME NEW s \in Seq(Bufs), NEW id \in Bufs,
         \A k \in 1 .. Len(s) : s[k] # id,
         \A j, k \in 1 .. Len(s) : s[j] = s[k] => j = k
  PROVE  Len(s) < QSZ
<1> DEFINE n == Len(s)
           T == Bufs \ {id}
<1>1. n \in Nat /\ s \in [1 .. n -> T] /\ QSZ \in Nat \ {0}
  BY LenProperties, InSizes
<1>2. IsFiniteSet(Bufs) /\ Cardinality(Bufs) = QSZ
  <2>1. 0 \in Int /\ QSZ - 1 \in Int /\ ~ (0 > QSZ - 1) /\ (QSZ - 1) - 0 + 1 = QSZ
    BY <1>1
  <2> QED  BY <2>1, FS_Interval DEF Bufs
<1>3. IsFiniteSet(T) /\ Cardinality(T) = QSZ - 1
  BY <1>2, FS_RemoveElement
<1>4. IsFiniteSet(1 .. n) /\ Cardinality(1 .. n) = n
  <2>1. 1 \in Int /\ n \in Int /\ (IF 1 > n THEN 0 ELSE n - 1 + 1) = n
    BY <1>1
  <2> QED  BY <2>1, FS_Interval
<1> HIDE DEF n, T
<1>5. ~ (QSZ - 1 < n)
  <2> SUFFICES ASSUME QSZ - 1 < n PROVE FALSE  OBVIOUS
  <2>1. \E x, y \in 1 .. n : x # y /\ s[x] = s[y]
    BY <1>1, <1>3, <1>4, FS_PigeonHole
  <2> QED  BY <2>1 DEF n
<1>6. n < QSZ
  BY <1>1, <1>5
<1> QED  BY <1>6 DEF n

LEMMA CurrentIsSeq ==
  ASSUME NEW C \in SUBSET Bufs, \A b, c \in C : b = c
  PROVE  LET s == IF C = {} THEN << >> ELSE <<CHOOSE i \in C : TRUE>>
         IN /\ s \in Seq(Bufs)
            /\ \A k \in 1 .. Len(s) : s[k] \in C
            /\ \A j, k \in 1 .. Len(s) : s[j] = s[k] => j = k
            /\ \A b \in C : s = <<b>>
<1> DEFINE s == IF C = {} THEN << >> ELSE <<CHOOSE i \in C : TRUE>>
<1>1. CASE C = {}
  <2>1. s = << >> /\ Len(s) = 0  BY <1>1
  <2>2. 1 .. Len(s) = {}  BY <2>1
  <2> HIDE DEF s
  <2>3. s \in Seq(Bufs)  BY <2>1
  <2> QED  BY <1>1, <2>2, <2>3 DEF s
<1>2. ASSUME NEW b \in C
      PROVE  /\ s \in Seq(Bufs)
             /\ \A k \in 1 .. Len(s) : s[k] \in C
             /\ \A j, k \in 1 .. Len(s) : s[j] = s[k] => j = k
             /\ s = <<b>>
  <2>1. (CHOOSE i \in C : TRUE) = b  BY <1>2
  <2>2. s = <<b>>  BY <1>2, <2>1
  <2> HIDE DEF s
  <2>3. s \in Seq(Bufs) /\ Len(s) = 1 /\ s[1] = b  BY <1>2, <2>2
  <2>4. \A k \in 1 .. Len(s) : k = 1  BY <2>3
  <2> QED  BY <1>2, <2>2, <2>3, <2>4
<1> HIDE DEF s
<1>3. /\ s \in Seq(Bufs)
      /\ \A k \in 1 .. Len(s) : s[k] \in C
      /\ \A j, k \in 1 .. Len(s) : s[j] = s[k] => j = k
      /\ \A b \in C : s = <<b>>
  BY <1>1, <1>2 DEF s
<1> QED  BY <1>3 DEF s

LEMMA OwedIsSeq ==
  /\ InTypeOK /\ OwnBuffers =>
       /\ Current \in Seq(Bufs) /\ works \in Seq(Bufs) /\ Waiting \in Seq(Bufs)
       /\ Current \o works \in Seq(Bufs) /\ Owed \in Seq(Bufs)
       /\ Owed = (Current \o works) \o Waiting /\ Owed = Current \o (works \o Waiting)
  /\ InTypeOK' /\ OwnBuffers' =>
       /\ Current' \in Seq(Bufs) /\ works' \in Seq(Bufs) /\ Waiting' \in Seq(Bufs)
       /\ Current' \o works' \in Seq(Bufs) /\ Owed' \in Seq(Bufs)
       /\ Owed' = (Current' \o works') \o Waiting' /\ Owed' = Current' \o (works' \o Waiting')
<1>1. ASSUME NEW s \in Seq(Bufs), NEW t \in Seq(Bufs), NEW u \in Seq(Bufs)
      PROVE  /\ s \o t \in Seq(Bufs) /\ s \o t \o u \in Seq(Bufs)
             /\ s \o t \o u = s \o (t \o u)
  <2>1. s \o t \in Seq(Bufs)  BY ConcatProperties
  <2>2. (s \o t) \o u \in Seq(Bufs)  BY <2>1, ConcatProperties
  <2> QED  BY <2>1, <2>2, ConcatAssociative
<1>2. ASSUME InTypeOK, OwnBuffers
      PROVE  Current \in Seq(Bufs) /\ works \in Seq(Bufs) /\ Waiting \in Seq(Bufs)
  <2>1. cur \in SUBSET Bufs /\ works \in Seq(Bufs) /\ \A b, c \in cur : b = c
    BY <1>2 DEF InTypeOK, OwnBuffers
  <2> QED  BY <1>2, <2>1, CurrentIsSeq, WaitingIsSeq DEF Current
<1>3. ASSUME InTypeOK', OwnBuffers'
      PROVE  Current' \in Seq(Bufs) /\ works' \in Seq(Bufs) /\ Waiting' \in Seq(Bufs)
  <2>1. cur' \in SUBSET Bufs /\ works' \in Seq(Bufs) /\ \A b, c \in cur' : b = c
    BY <1>3 DEF InTypeOK, OwnBuffers
  <2> QED  BY <1>3, <2>1, CurrentIsSeq, WaitingIsSeq DEF Current
<1>4. ASSUME InTypeOK, OwnBuffers
      PROVE  /\ Current \o works \in Seq(Bufs) /\ Owed \in Seq(Bufs)
             /\ Owed = (Current \o works) \o Waiting
             /\ Owed = Current \o (works \o Waiting)
  <2> DEFINE s == Current
             t == works
             u == Waiting
  <2>1. s \in Seq(Bufs) /\ t \in Seq(Bufs) /\ u \in Seq(Bufs)  BY <1>2, <1>4
  <2>2. Owed = s \o t \o u  BY DEF Owed
  <2> HIDE DEF s, t, u
  <2>3. /\ s \o t \in Seq(Bufs) /\ s \o t \o u \in Seq(Bufs)
        /\ s \o t \o u = s \o (t \o u)
    BY <1>1, <2>1
  <2>4. /\ s \o t \in Seq(Bufs) /\ Owed \in Seq(Bufs)
        /\ Owed = (s \o t) \o u /\ Owed = s \o (t \o u)
    BY <2>2, <2>3
  <2> QED  BY <2>4 DEF s, t, u
<1>5. ASSUME InTypeOK', OwnBuffers'
      PROVE  /\ Current' \o works' \in Seq(Bufs) /\ Owed' \in Seq(Bufs)
             /\ Owed' = (Current' \o works') \o Waiting'
             /\ Owed' = Current' \o (works' \o Waiting')
  <2> DEFINE s == Current'
             t == works'
             u == Waiting'
  <2>1. s \in Seq(Bufs) /\ t \in Seq(Bufs) /\ u \in Seq(Bufs)  BY <1>3, <1>5
  <2>2. Owed' = s \o t \o u  BY DEF Owed
  <2> HIDE DEF s, t, u
  <2>3. /\ s \o t \in Seq(Bufs) /\ s \o t \o u \in Seq(Bufs)
        /\ s \o t \o u = s \o (t \o u)
    BY <1>1, <2>1
  <2>4. /\ s \o t \in Seq(Bufs) /\ Owed' \in Seq(Bufs)
        /\ Owed' = (s \o t) \o u /\ Owed' = s \o (t \o u)
    BY <2>2, <2>3
  <2> QED  BY <2>4 DEF s, t, u
<1> QED  BY <1>2, <1>3, <1>4, <1>5

LEMMA ValuesOf ==
  ASSUME NEW s \in Seq(Bufs), NEW e \in [Bufs -> Events]
  PROVE  LET p == [k \in DOMAIN s |-> e[s[k]].v]
         IN p \in [1 .. Len(s) -> Values] /\ p \in Seq(Values) /\ Len(p) = Len(s)
<1> DEFINE n == Len(s)
           p == [k \in DOMAIN s |-> e[s[k]].v]
<1>1. n \in Nat /\ DOMAIN s = 1 .. n /\ \A k \in 1 .. n : s[k] \in Bufs
  BY LenProperties
<1>2. p \in [1 .. n -> Values]
  BY <1>1 DEF Events
<1> HIDE DEF n, p
<1>3. p \in Seq(Values) /\ Len(p) = n
  BY <1>1, <1>2, WindowSeq
<1> QED  BY <1>2, <1>3 DEF n, p

LEMMA PendingIsSeq ==
  /\ Owed \in Seq(Bufs) /\ ev \in [Bufs -> Events] =>
       /\ Pending \in [1 .. Len(Owed) -> Values]
       /\ Pending \in Seq(Values) /\ Len(Pending) = Len(Owed)
  /\ Owed' \in Seq(Bufs) /\ ev' \in [Bufs -> Events] =>
       /\ Pending' \in [1 .. Len(Owed') -> Values]
       /\ Pending' \in Seq(Values) /\ Len(Pending') = Len(Owed')
<1>1. ASSUME Owed \in Seq(Bufs), ev \in [Bufs -> Events]
      PROVE  /\ Pending \in [1 .. Len(Owed) -> Values]
             /\ Pending \in Seq(Values) /\ Len(Pending) = Len(Owed)
  <2> DEFINE s == Owed
             e == ev
  <2>1. s \in Seq(Bufs) /\ e \in [Bufs -> Events]  BY <1>1
  <2>2. Pending = [k \in DOMAIN s |-> e[s[k]].v]  BY DEF Pending
  <2> HIDE DEF s, e
  <2>3. /\ Pending \in [1 .. Len(s) -> Values]
        /\ Pending \in Seq(Values) /\ Len(Pending) = Len(s)
    BY <2>1, <2>2, ValuesOf
  <2> QED  BY <2>3 DEF s
<1>2. ASSUME Owed' \in Seq(Bufs), ev' \in [Bufs -> Events]
      PROVE  /\ Pending' \in [1 .. Len(Owed') -> Values]
             /\ Pending' \in Seq(Values) /\ Len(Pending') = Len(Owed')
  <2> DEFINE s == Owed'
             e == ev'
  <2>1. s \in Seq(Bufs) /\ e \in [Bufs -> Events]  BY <1>2
  <2>2. Pending' = [k \in DOMAIN s |-> e[s[k]].v]  BY DEF Pending
  <2> HIDE DEF s, e
  <2>3. /\ Pending' \in [1 .. Len(s) -> Values]
        /\ Pending' \in Seq(Values) /\ Len(Pending') = Len(s)
    BY <2>1, <2>2, ValuesOf
  <2> QED  BY <2>3 DEF s
<1> QED  BY <1>1, <1>2

(* A step that leaves them and what the buffers say alone is a stutter.     *)
LEMMA SameStream ==
  ASSUME Owed' = Owed, reported' = reported,
         \A k \in DOMAIN Owed : ev'[Owed[k]].v = ev[Owed[k]].v
  PROVE  UNCHANGED Reports!streamVars
<1>1. Pending' = Pending
  BY DEF Pending
<1>2. LastReport' = LastReport
  BY DEF LastReport
<1> QED  BY <1>1, <1>2 DEF Reports!streamVars

(* They are in buffers of the work thread and of the used ring, each in    *)
(* one of its own.                                                         *)
LEMMA OwedOnce ==
  ASSUME InInductive, OwnBuffers
  PROVE  /\ Owed \in Seq(Bufs)
         /\ \A k \in 1 .. Len(Owed) : Owed[k] \in Referenced \cup InUsed
         /\ \A j, k \in 1 .. Len(Owed) : Owed[j] = Owed[k] => j = k
<1> USE DEF InInductive, InInvariant
<1>1. /\ Current \in Seq(Bufs) /\ works \in Seq(Bufs) /\ Waiting \in Seq(Bufs)
      /\ Current \o works \in Seq(Bufs) /\ Owed \in Seq(Bufs)
      /\ Owed = (Current \o works) \o Waiting
  BY OwedIsSeq
<1>2. /\ cur \in SUBSET Bufs
      /\ \A b, c \in cur : b = c
      /\ \A j, k \in DOMAIN works : works[j] = works[k] => j = k
      /\ cur \cap Queued = {}
      /\ Referenced \cap InUsed = {}
      /\ Referenced = cur \cup Queued
  BY DEF OwnBuffers, InUsed, Queued, Referenced, InTypeOK
<1>3. /\ \A k \in 1 .. Len(Current) : Current[k] \in cur
      /\ \A j, k \in 1 .. Len(Current) : Current[j] = Current[k] => j = k
  BY <1>2, CurrentIsSeq DEF Current
<1>4. DOMAIN works = 1 .. Len(works) /\ DOMAIN Waiting = 1 .. Len(Waiting)
  BY <1>1, LenProperties
<1>5. /\ \A k \in 1 .. Len(works) : works[k] \in Queued
      /\ \A j, k \in 1 .. Len(works) : works[j] = works[k] => j = k
  BY <1>2, <1>4 DEF Queued
<1>6. /\ \A k \in 1 .. Len(Current \o works) : (Current \o works)[k] \in Referenced
      /\ \A j, k \in 1 .. Len(Current \o works) :
           (Current \o works)[j] = (Current \o works)[k] => j = k
  BY ZenonT(60), <1>1, <1>2, <1>3, <1>5, ConcatOnce
<1>7. /\ \A k \in 1 .. Len(Waiting) : Waiting[k] \in InUsed
      /\ \A j, k \in 1 .. Len(Waiting) : Waiting[j] = Waiting[k] => j = k
  BY <1>4, WaitingOnce
<1> DEFINE s == Current \o works
           t == Waiting
<1>8. /\ s \in Seq(Bufs) /\ t \in Seq(Bufs)
      /\ \A k \in 1 .. Len(s) : s[k] \in Referenced
      /\ \A j, k \in 1 .. Len(s) : s[j] = s[k] => j = k
      /\ \A k \in 1 .. Len(t) : t[k] \in InUsed
      /\ \A j, k \in 1 .. Len(t) : t[j] = t[k] => j = k
      /\ Owed = s \o t
  BY <1>1, <1>6, <1>7
<1> HIDE DEF s, t
<1>9. /\ \A k \in 1 .. Len(s \o t) : (s \o t)[k] \in Referenced \cup InUsed
      /\ \A j, k \in 1 .. Len(s \o t) : (s \o t)[j] = (s \o t)[k] => j = k
  BY SMTT(60), <1>2, <1>8, ConcatOnce
<1> QED  BY <1>1, <1>8, <1>9

-----------------------------------------------------------------------------
(* One lemma per step that is one of the stream                            *)

(* The device's interrupt finds an event more.                             *)
LEMMA UseIsReceive ==
  ASSUME InInductive, InTypeOK', OwnBuffers, OwnBuffers', DevUse
  PROVE  \E v \in Values : Reports!Receive(v)
<1> USE DEF InInductive, InInvariant
<1>1. PICK id \in eDev.fills : id \in Bufs /\ id \notin InUsed /\ Waiting' = Append(Waiting, id)
  BY DevUseWaiting
<1>2. ev' = ev /\ cur' = cur /\ works' = works /\ reported' = reported /\ ev \in [Bufs -> Events]
  BY DEF DevUse, inDrvVars, workVars, InTypeOK
<1>3. Current' = Current
  BY <1>2 DEF Current
<1>4. /\ Waiting \in Seq(Bufs) /\ Current \o works \in Seq(Bufs) /\ Owed \in Seq(Bufs)
      /\ Owed = (Current \o works) \o Waiting
      /\ Owed' \in Seq(Bufs) /\ Owed' = (Current \o works) \o Waiting'
  BY <1>2, <1>3, OwedIsSeq
<1>5. Owed' = Append(Owed, id)
  <2>1. <<id>> \in Seq(Bufs) /\ Waiting' = Waiting \o <<id>>
    BY <1>1, <1>4, AppendIsConcat
  <2>2. Owed' = ((Current \o works) \o Waiting) \o <<id>>
    <3> DEFINE s == Current \o works
               t == Waiting
               u == <<id>>
    <3>1. /\ s \in Seq(Bufs) /\ t \in Seq(Bufs) /\ u \in Seq(Bufs)
          /\ Owed' = s \o (t \o u)
      BY <1>4, <2>1
    <3> HIDE DEF s, t, u
    <3>2. Owed' = (s \o t) \o u
      BY SMTT(60), <3>1, ConcatAssociative
    <3> QED  BY <3>2 DEF s, t, u
  <2> QED  BY <1>1, <1>4, <2>2, AppendIsConcat
<1> DEFINE n == Len(Owed)
<1>6. /\ n \in Nat /\ DOMAIN Owed = 1 .. n /\ DOMAIN Owed' = 1 .. n + 1
      /\ \A k \in 1 .. n : Owed'[k] = Owed[k]
      /\ Owed'[n + 1] = id /\ Len(Owed') = n + 1
  BY <1>1, <1>4, <1>5, AppendProperties, LenProperties
<1>7. /\ Pending \in [1 .. n -> Values] /\ Pending \in Seq(Values) /\ Len(Pending) = n
      /\ Pending' \in [1 .. n + 1 -> Values]
  BY <1>2, <1>4, <1>6, PendingIsSeq
<1>8. n < QSZ
  <2>1. id \notin Referenced
    BY <1>1 DEF OwnBuffers
  <2>2. \A k \in 1 .. n : Owed[k] # id
    BY <1>1, <2>1, OwedOnce
  <2> QED  BY <1>1, <2>2, OwedOnce, RoomForOneMore
<1> HIDE DEF n
<1>9. /\ \A k \in 1 .. n : Pending'[k] = Pending[k]
      /\ Pending'[n + 1] = ev[id].v
  <2>1. \A k \in 1 .. n : k \in 1 .. n + 1
    BY <1>6
  <2>2. n + 1 \in 1 .. n + 1
    BY <1>6
  <2> QED  BY <1>2, <1>6, <2>1, <2>2 DEF Pending
<1>10. Pending' = Append(Pending, ev[id].v)
  BY <1>6, <1>7, <1>9, WindowAppend
<1>11. ev[id].v \in Values /\ LastReport' = LastReport
  BY <1>1, <1>2 DEF Events, LastReport
<1> QED  BY <1>7, <1>8, <1>10, <1>11 DEF Reports!Receive

LEMMA PrependTail ==
  ASSUME NEW S, NEW id \in S, NEW t \in Seq(S)
  PROVE  /\ <<id>> \o t \in Seq(S) /\ Len(<<id>> \o t) = Len(t) + 1
         /\ (<<id>> \o t)[1] = id
         /\ \A k \in 1 .. Len(t) : (<<id>> \o t)[k + 1] = t[k]
<1> DEFINE n == Len(t)
           s == <<id>>
<1>1. n \in Nat /\ s \in Seq(S) /\ Len(s) = 1 /\ s[1] = id
  BY LenProperties
<1> HIDE DEF n, s
<1>2. /\ s \o t \in Seq(S) /\ Len(s \o t) = 1 + n
      /\ \A k \in 1 .. 1 + n : (s \o t)[k] = IF k <= 1 THEN s[k] ELSE t[k - 1]
  <2>1. /\ s \o t \in Seq(S) /\ Len(s \o t) = Len(s) + Len(t)
        /\ \A k \in 1 .. Len(s) + Len(t) :
             (s \o t)[k] = IF k <= Len(s) THEN s[k] ELSE t[k - Len(s)]
    BY <1>1, ConcatProperties
  <2> QED  BY <1>1, <2>1 DEF n
<1>3. (s \o t)[1] = id
  <2>1. 1 \in 1 .. 1 + n /\ 1 <= 1  BY <1>1
  <2> QED  BY <1>1, <1>2, <2>1
<1>4. ASSUME NEW k \in 1 .. n PROVE (s \o t)[k + 1] = t[k]
  <2>1. k + 1 \in 1 .. 1 + n /\ ~ (k + 1 <= 1) /\ (k + 1) - 1 = k  BY <1>1
  <2> QED  BY <1>2, <2>1
<1>5. 1 + n = n + 1  BY <1>1
<1> QED  BY <1>2, <1>3, <1>4, <1>5 DEF n, s

(* HidReportEvent is given the first event owed, in screen coordinates.    *)
LEMMA ReportIsReport ==
  ASSUME InInductive, InTypeOK', OwnBuffers, OwnBuffers', WorkReport
  PROVE  Reports!Report
<1> USE DEF InInductive, InInvariant
<1>1. PICK id \in cur : reported' = ev[id]
  BY DEF WorkReport
<1>2. /\ cur' = {} /\ works' = works /\ converted /\ ev' = ev /\ eUsed' = eUsed
      /\ eLast' = eLast /\ ev \in [Bufs -> Events] /\ id \in Bufs
  BY <1>1 DEF WorkReport, handlerVars, InTypeOK
<1>3. Current = <<id>> /\ Current' = << >> /\ Waiting' = Waiting
  <2>1. cur \in SUBSET Bufs /\ \A b, c \in cur : b = c
    BY DEF InTypeOK, OwnBuffers
  <2>2. Current = <<id>>  BY <1>1, <2>1, CurrentIsSeq DEF Current
  <2> QED  BY <1>2, <2>2 DEF Current, Waiting
<1>4. Owed' \in Seq(Bufs) /\ Owed = <<id>> \o Owed' /\ Owed \in Seq(Bufs)
  <2>1. /\ works \in Seq(Bufs) /\ Owed \in Seq(Bufs) /\ Owed' \in Seq(Bufs)
        /\ Owed = <<id>> \o (works \o Waiting)
        /\ Owed' = (<< >> \o works) \o Waiting
    BY <1>2, <1>3, OwedIsSeq
  <2>2. << >> \o works = works
    BY <2>1, ConcatEmptySeq
  <2> QED  BY <2>1, <2>2
<1> DEFINE n == Len(Owed)
           t == Owed'
<1>5. /\ n \in Nat /\ n > 0 /\ DOMAIN Owed = 1 .. n /\ DOMAIN t = 1 .. n - 1
      /\ Len(t) = n - 1 /\ Owed[1] = id
      /\ \A k \in 1 .. n - 1 : Owed[k + 1] = t[k]
  <2>1. t \in Seq(Bufs) /\ Owed = <<id>> \o t  BY <1>4
  <2> HIDE DEF t
  <2>2. Len(t) \in Nat /\ DOMAIN t = 1 .. Len(t) /\ n = Len(t) + 1
    BY <1>2, <2>1, PrependTail, LenProperties
  <2>3. DOMAIN Owed = 1 .. n  BY <1>4, LenProperties
  <2>4. Owed[1] = id /\ \A k \in 1 .. Len(t) : Owed[k + 1] = t[k]
    BY <1>2, <2>1, PrependTail
  <2>5. Len(t) = n - 1 /\ n > 0 /\ n \in Nat
    <3> HIDE DEF n
    <3> QED  BY <2>2
  <2> QED  BY <2>2, <2>3, <2>4, <2>5
<1>6. Pending \in [1 .. n -> Values] /\ Pending' \in [1 .. n - 1 -> Values]
  BY <1>2, <1>4, <1>5, PendingIsSeq
<1> HIDE DEF n
<1>7. Pending[1] = ev[id].v /\ \A k \in 1 .. n - 1 : Pending'[k] = Pending[k + 1]
  <2>1. 1 \in 1 .. n /\ \A k \in 1 .. n - 1 : k + 1 \in 1 .. n
    BY <1>5
  <2>2. Pending[1] = ev[id].v
    BY <1>5, <2>1 DEF Pending
  <2>3. ASSUME NEW k \in 1 .. n - 1 PROVE Pending'[k] = Pending[k + 1]
    <3>1. Pending'[k] = ev[Owed'[k]].v
      BY <1>2, <1>5 DEF Pending
    <3>2. Pending[k + 1] = ev[Owed[k + 1]].v
      BY <1>5, <2>1 DEF Pending
    <3> QED  BY <1>5, <3>1, <3>2
  <2> QED  BY <2>2, <2>3
<1>8. Pending # << >> /\ Head(Pending) = ev[id].v /\ Pending' = Tail(Pending)
  BY <1>5, <1>6, <1>7, WindowTail
<1>9. LastReport' = ev[id].v
  <2>1. ev[id].onScreen /\ ev[id] \in Events
    BY <1>1, <1>2 DEF OwnBuffers
  <2>2. ev[id] # NoEvent
    BY <2>1, InputAssumption DEF Events
  <2> QED  BY <1>1, <2>1, <2>2 DEF LastReport
<1> QED  BY <1>8, <1>9 DEF Reports!Report

(* The event's buffer comes out of the list of work items.                 *)
LEMMA TakeIsStutter ==
  ASSUME InInductive, InTypeOK', OwnBuffers, OwnBuffers', WorkTake
  PROVE  UNCHANGED Reports!streamVars
<1>1. /\ works # << >> /\ cur = {} /\ cur' = {Head(works)} /\ works' = Tail(works)
      /\ UNCHANGED <<ev, eUsed, eLast, reported>>
  BY DEF WorkTake, handlerVars
<1>2. works \in Seq(Bufs) /\ InTypeOK
  BY DEF InInductive, InInvariant, InTypeOK
<1> DEFINE h == Head(works)
           t == Tail(works)
<1>3. h \in Bufs /\ t \in Seq(Bufs) /\ h = works[1]
      /\ Len(t) = Len(works) - 1 /\ Len(works) \in Nat \ {0}
      /\ \A k \in 1 .. Len(t) : t[k] = works[k + 1]
  BY <1>1, <1>2, HeadTailProperties, EmptySeq
<1>4. Current = << >> /\ Current' = <<h>> /\ Waiting' = Waiting
  <2>1. (CHOOSE i \in {h} : TRUE) = h  OBVIOUS
  <2> QED  BY <1>1, <2>1 DEF Current, Waiting
<1> HIDE DEF h, t
<1>5. <<h>> \o t = works
  <2>1. /\ <<h>> \o t \in Seq(Bufs) /\ Len(<<h>> \o t) = Len(t) + 1
        /\ (<<h>> \o t)[1] = h
        /\ \A k \in 1 .. Len(t) : (<<h>> \o t)[k + 1] = t[k]
    BY <1>3, PrependTail
  <2>2. Len(t) + 1 = Len(works)  BY <1>3
  <2>3. ASSUME NEW k \in 1 .. Len(works) PROVE (<<h>> \o t)[k] = works[k]
    <3>1. CASE k = 1  BY <1>3, <2>1, <3>1
    <3>2. CASE k # 1
      <4>1. k - 1 \in 1 .. Len(t) /\ (k - 1) + 1 = k  BY <1>3, <3>2
      <4> QED  BY <1>3, <2>1, <4>1
    <3> QED  BY <3>1, <3>2
  <2> QED  BY <1>2, <2>1, <2>2, <2>3, SeqEqual
<1>6. Owed' = Owed
  <2>1. Owed = (<< >> \o works) \o Waiting  BY <1>4 DEF Owed
  <2>2. Owed' = (<<h>> \o t) \o Waiting  BY <1>1, <1>4 DEF Owed, t
  <2>3. << >> \o works = works  BY <1>2, ConcatEmptySeq
  <2> QED  BY <1>5, <2>1, <2>2, <2>3
<1> QED  BY <1>1, <1>6, SameStream

(* One out of the middle.                                                  *)
LEMMA RemoveMiddle ==
  ASSUME NEW S, NEW n \in Nat, NEW m \in Nat, m < n,
         NEW p \in [1 .. n -> S], NEW q \in [1 .. n - 1 -> S],
         \A k \in 1 .. n - 1 : q[k] = IF k <= m THEN p[k] ELSE p[k + 1]
  PROVE  q = SubSeq(p, 1, m) \o SubSeq(p, m + 2, n)
<1> DEFINE a == SubSeq(p, 1, m)
           b == SubSeq(p, m + 2, n)
<1>1. p \in Seq(S) /\ Len(p) = n /\ q \in Seq(S) /\ Len(q) = n - 1
  <2>1. n - 1 \in Nat  OBVIOUS
  <2> QED  BY <2>1, WindowSeq
<1>2. a \in Seq(S) /\ Len(a) = m /\ \A k \in 1 .. m : a[k] = p[k]
  <2>1. /\ 1 \in Int /\ m \in Int /\ \A k \in 1 .. m : p[k] \in S
        /\ (IF 1 <= m THEN m - 1 + 1 ELSE 0) = m /\ m - 1 + 1 = m
    OBVIOUS
  <2>2. /\ a \in Seq(S) /\ Len(a) = (IF 1 <= m THEN m - 1 + 1 ELSE 0)
        /\ \A k \in 1 .. m - 1 + 1 : a[k] = p[1 + k - 1]
    BY <2>1, SubSeqProperties
  <2>3. \A k \in 1 .. m : 1 + k - 1 = k  OBVIOUS
  <2> HIDE DEF a
  <2> QED  BY <2>1, <2>2, <2>3
<1>3. b \in Seq(S) /\ Len(b) = n - 1 - m /\ \A k \in 1 .. n - 1 - m : b[k] = p[m + 1 + k]
  <2>1. /\ m + 2 \in Int /\ n \in Int /\ \A k \in m + 2 .. n : p[k] \in S
        /\ (IF m + 2 <= n THEN n - (m + 2) + 1 ELSE 0) = n - 1 - m
        /\ n - (m + 2) + 1 = n - 1 - m
    OBVIOUS
  <2>2. /\ b \in Seq(S) /\ Len(b) = (IF m + 2 <= n THEN n - (m + 2) + 1 ELSE 0)
        /\ \A k \in 1 .. n - (m + 2) + 1 : b[k] = p[m + 2 + k - 1]
    BY <2>1, SubSeqProperties
  <2>3. \A k \in 1 .. n - 1 - m : m + 2 + k - 1 = m + 1 + k  OBVIOUS
  <2> HIDE DEF b
  <2> QED  BY <2>1, <2>2, <2>3
<1> HIDE DEF a, b
<1>5. /\ a \o b \in Seq(S) /\ Len(a \o b) = n - 1
      /\ \A k \in 1 .. n - 1 : (a \o b)[k] = IF k <= m THEN a[k] ELSE b[k - m]
  <2>1. m + (n - 1 - m) = n - 1  OBVIOUS
  <2>2. /\ a \o b \in Seq(S) /\ Len(a \o b) = Len(a) + Len(b)
        /\ \A k \in 1 .. Len(a) + Len(b) :
             (a \o b)[k] = IF k <= Len(a) THEN a[k] ELSE b[k - Len(a)]
    BY ZenonT(60), <1>2, <1>3, ConcatProperties
  <2> QED  BY <1>2, <1>3, <2>1, <2>2
<1>6. ASSUME NEW k \in 1 .. n - 1 PROVE (a \o b)[k] = q[k]
  <2>1. CASE k <= m
    <3>1. k \in 1 .. m  BY <2>1
    <3> QED  BY <1>2, <1>5, <2>1, <3>1
  <2>2. CASE ~ (k <= m)
    <3>1. k - m \in 1 .. n - 1 - m /\ m + 1 + (k - m) = k + 1  BY <2>2
    <3> QED  BY <1>3, <1>5, <2>2, <3>1
  <2> QED  BY <2>1, <2>2
<1>7. q = a \o b
  BY <1>1, <1>5, <1>6, SeqEqual
<1> QED  BY <1>7 DEF a, b

(* Handling a used element makes a work item of it, or loses its event.    *)
LEMMA HandleOneStream ==
  ASSUME InInductive, InTypeOK', OwnBuffers, OwnBuffers', HandleOne
  PROVE  UNCHANGED Reports!streamVars \/ \E k \in DOMAIN Pending : Reports!Drop(k)
<1> USE DEF InInductive, InInvariant
<1> DEFINE id == eUsed.ring[Slot(eLast, QSZ)]
           s == Current \o works
           t == Waiting'
<1>1. /\ works' = Append(works, id) \/ works' = works
      /\ UNCHANGED <<ev, cur, reported>> /\ ev \in [Bufs -> Events]
  BY DEF HandleOne, QueueWork, InTypeOK
<1>2. id \in Bufs /\ Waiting = <<id>> \o t
  BY HandleOneWaiting
<1>3. Current' = Current
  BY <1>1 DEF Current
<1>4. /\ Current \in Seq(Bufs) /\ works \in Seq(Bufs) /\ s \in Seq(Bufs) /\ t \in Seq(Bufs)
      /\ Owed \in Seq(Bufs) /\ Owed' \in Seq(Bufs)
      /\ Owed = s \o Waiting
      /\ Owed' = (Current \o works') \o t
  BY <1>3, OwedIsSeq
<1> HIDE DEF id, t
<1>5. CASE works' = Append(works, id)
  <2>1. <<id>> \in Seq(Bufs) /\ works' = works \o <<id>>
    BY <1>2, <1>4, <1>5, AppendIsConcat
  <2>2. Current \o works' = s \o <<id>>
    <3> DEFINE c == Current
               u == <<id>>
               w == works
    <3>1. c \in Seq(Bufs) /\ w \in Seq(Bufs) /\ u \in Seq(Bufs)  BY <1>4, <2>1
    <3> HIDE DEF c, u, w
    <3>2. (c \o w) \o u = c \o (w \o u)
      BY <3>1, ConcatAssociative
    <3> QED  BY <2>1, <3>2 DEF c, u, w
  <2>3. Owed' = (s \o <<id>>) \o t
    BY <1>4, <2>2
  <2> HIDE DEF s
  <2> DEFINE u == <<id>>
  <2>4. s \in Seq(Bufs) /\ u \in Seq(Bufs) /\ t \in Seq(Bufs)  BY <1>4, <2>1
  <2> HIDE DEF u
  <2>5. (s \o u) \o t = s \o (u \o t)
    BY <2>4, ConcatAssociative
  <2>6. Owed' = Owed
    BY <1>2, <1>4, <2>3, <2>5 DEF u
  <2> QED  BY <1>1, <2>6, SameStream
<1>6. CASE works' = works
  <2>1. Owed = s \o (<<id>> \o t) /\ Owed' = s \o t
    BY <1>2, <1>4, <1>6
  <2> HIDE DEF s
  <2> DEFINE m == Len(s)
             l == Len(t)
             n == m + l + 1
             w == <<id>> \o t
  <2>2. m \in Nat /\ l \in Nat /\ n \in Nat
    BY <1>4, LenProperties
  <2>3. /\ w \in Seq(Bufs) /\ Len(w) = l + 1 /\ w[1] = id
        /\ \A k \in 1 .. l : w[k + 1] = t[k]
    BY <1>2, <1>4, PrependTail
  <2> HIDE DEF m, l, w
  <2>4. /\ Len(Owed) = m + (l + 1)
        /\ \A i \in 1 .. m + (l + 1) : Owed[i] = IF i <= m THEN s[i] ELSE w[i - m]
    BY <1>4, <2>1, <2>3, ConcatProperties DEF m, w
  <2>5. /\ Len(Owed') = m + l
        /\ \A i \in 1 .. m + l : Owed'[i] = IF i <= m THEN s[i] ELSE t[i - m]
    BY <1>4, <2>1, ConcatProperties DEF m, l
  <2>6. ASSUME NEW k \in 1 .. n - 1
        PROVE  Owed'[k] = IF k <= m THEN Owed[k] ELSE Owed[k + 1]
    <3>1. k \in 1 .. m + l /\ k \in 1 .. m + (l + 1)  BY <2>2
    <3>2. CASE k <= m  BY <2>4, <2>5, <3>1, <3>2
    <3>3. CASE ~ (k <= m)
      <4>1. /\ k - m \in 1 .. l /\ k + 1 \in 1 .. m + (l + 1) /\ ~ (k + 1 <= m)
            /\ (k + 1) - m = (k - m) + 1
        BY <2>2, <3>1, <3>3
      <4>2. Owed'[k] = t[k - m]  BY <2>5, <3>1, <3>3
      <4>3. Owed[k + 1] = w[(k - m) + 1]  BY <2>4, <4>1
      <4> QED  BY <2>3, <3>3, <4>1, <4>2, <4>3
    <3> QED  BY <3>2, <3>3
  <2>7. /\ Len(Owed) = n /\ Len(Owed') = n - 1 /\ m < n
        /\ DOMAIN Owed = 1 .. n /\ DOMAIN Owed' = 1 .. n - 1
    <3>1. DOMAIN Owed = 1 .. Len(Owed) /\ DOMAIN Owed' = 1 .. Len(Owed')
      BY <1>4, LenProperties
    <3> QED  BY <2>2, <2>4, <2>5, <3>1
  <2>8. Pending \in [1 .. n -> Values] /\ Pending' \in [1 .. n - 1 -> Values]
    BY <1>1, <1>4, <2>7, PendingIsSeq
  <2>9. /\ m + 1 \in 1 .. n
        /\ \A k \in 1 .. n - 1 : k \in 1 .. n /\ k + 1 \in 1 .. n
    BY <2>2
  <2> HIDE DEF n
  <2>10. \A k \in 1 .. n - 1 : Pending'[k] = IF k <= m THEN Pending[k] ELSE Pending[k + 1]
    BY <1>1, <2>6, <2>7, <2>9 DEF Pending
  <2>11. Pending' = Reports!RemoveAt(Pending, m + 1)
    <3> DEFINE p == Pending
               q == Pending'
    <3>1. /\ p \in [1 .. n -> Values] /\ q \in [1 .. n - 1 -> Values]
          /\ \A k \in 1 .. n - 1 : q[k] = IF k <= m THEN p[k] ELSE p[k + 1]
          /\ m \in Nat /\ n \in Nat /\ m < n
      BY <2>2, <2>7, <2>8, <2>10
    <3> HIDE DEF p, q
    <3>2. q = SubSeq(p, 1, m) \o SubSeq(p, m + 2, n)
      BY <3>1, RemoveMiddle
    <3>3. Len(p) = n
      BY <3>1, WindowSeq
    <3>4. (m + 1) - 1 = m /\ (m + 1) + 1 = m + 2
      BY <3>1
    <3> QED  BY <3>2, <3>3, <3>4 DEF p, q, Reports!RemoveAt
  <2>12. LastReport' = LastReport
    BY <1>1 DEF LastReport
  <2>13. m + 1 \in DOMAIN Pending
    BY <2>8, <2>9
  <2> QED  BY <2>11, <2>12, <2>13 DEF Reports!Drop
<1> QED  BY <1>1, <1>5, <1>6

(* A step that moves no event may change what buffers say only where none  *)
(* is owed, and may convert the one that is worked on.                     *)
LEMMA EventsStay ==
  ASSUME InInductive, OwnBuffers, KeepsUp,
         WorkConvert \/ \E v \in Values : DevFill(v)
  PROVE  UNCHANGED Reports!streamVars
<1> USE DEF InInductive, InInvariant
<1>1. /\ cur' = cur /\ works' = works /\ eLast' = eLast /\ eUsed' = eUsed
      /\ reported' = reported /\ ev \in [Bufs -> Events]
  BY DEF WorkConvert, DevFill, inDrvVars, handlerVars, workVars, InTypeOK
<1>2. Owed' = Owed
  BY <1>1 DEF Owed, Current, Waiting
<1>3. /\ \A k \in DOMAIN Owed : Owed[k] \in Bufs
      /\ \A k \in DOMAIN Owed : Owed[k] \in Referenced \cup InUsed
  BY OwedOnce, LenProperties
<1>4. CASE WorkConvert
  <2>1. PICK id \in cur : ev' = [ev EXCEPT ![id].onScreen = TRUE]
    BY <1>4 DEF WorkConvert
  <2>2. \A b \in Bufs : ev'[b].v = ev[b].v
    BY <1>1, <2>1 DEF Events
  <2> QED  BY <1>1, <1>2, <1>3, <2>2, SameStream
<1>5. ASSUME NEW v \in Values, DevFill(v)
      PROVE  UNCHANGED Reports!streamVars
  <2> DEFINE id == eAvail.ring[Slot(eDev.last, QSZ)]
  <2>1. /\ ev' = [ev EXCEPT ![id] = Raw(v)]
        /\ eDev.fills = {} /\ eDev'.fills = {id}
        /\ eDev.last # eAvail.index
    BY <1>5 DEF DevFill, InTypeOK
  <2>2. id \notin Referenced
    <3> HIDE DEF id
    <3> QED  BY <2>1 DEF KeepsUp
  <2>3. id \notin InUsed
    <3> DEFINE da == Dist(eDev.last, eAvail.index)
    <3>1. /\ eDev.last \in Indices /\ eAvail.index \in Indices
          /\ da \in Nat /\ eAdd \in Nat
      BY InIndexTypes
    <3>2. da # 0  BY <2>1, <3>1, DistPositive
    <3>3. /\ PutAt \in Indices /\ Dist(eDev.last, PutAt) = da + eAdd
      BY PutBackFollows
    <3>4. eDev.last # PutAt
      <4>1. da + eAdd # 0
        <5> HIDE DEF da
        <5> QED  BY <3>1, <3>2
      <4> QED  BY <3>1, <3>3, <4>1, DistPositive
    <3>5. id \in InAvail
      BY <3>1, <3>3, <3>4, WindowPop DEF InAvail, Entries
    <3> HIDE DEF id
    <3> QED  BY <3>5 DEF InBuffersPartitioned, InAvail, InUsed
  <2> HIDE DEF id
  <2>4. \A k \in DOMAIN Owed : Owed[k] # id
    BY <1>3, <2>2, <2>3
  <2>5. \A k \in DOMAIN Owed : ev'[Owed[k]] = ev[Owed[k]]
    BY <1>1, <1>3, <2>1, <2>4
  <2> QED  BY <1>1, <1>2, <2>5, SameStream
<1> QED  BY <1>4, <1>5

(* Every step of the driver with which the work thread keeps up is one of  *)
(* EventStream, or none.                                                   *)
LEMMA StepIsStreamStep ==
  ASSUME InInductive, InInductive', OwnBuffers, OwnBuffers', KeepsUp, [InNext]_inVars
  PROVE  [Reports!StreamNext]_(Reports!streamVars)
<1>1. InTypeOK'
  BY DEF InInductive, InInvariant
<1>2. CASE HandleOne
  BY <1>1, <1>2, HandleOneStream DEF Reports!StreamNext
<1>3. CASE WorkTake
  BY <1>1, <1>3, TakeIsStutter
<1>4. CASE WorkReport
  BY <1>1, <1>4, ReportIsReport DEF Reports!StreamNext
<1>5. CASE DevUse
  BY <1>1, <1>5, UseIsReceive DEF Reports!StreamNext
<1>6. CASE WorkConvert \/ \E v \in Values : DevFill(v)
  BY <1>6, EventsStay
<1>7. CASE \/ HandleBegin \/ HandleEmpty \/ HandlePost \/ HandleEnable \/ HandleNotify
           \/ HandleAck \/ DevWake \/ DevIntr \/ DevEmpty \/ DevRecheck \/ UNCHANGED inVars
  <2>1. /\ UNCHANGED <<ev, works, cur, eLast, reported>>
        /\ eUsed'.ring = eUsed.ring /\ eUsed'.index = eUsed.index
    BY <1>7 DEF HandleBegin, HandleEmpty, HandlePost, HandleEnable, HandleNotify, HandleAck,
                DevWake, DevIntr, DevEmpty, DevRecheck, inVars, workVars, handlerVars,
                inDrvVars, InInductive, InInvariant, InTypeOK
  <2>2. Owed' = Owed
    BY <2>1 DEF Owed, Current, Waiting
  <2> QED  BY <2>1, <2>2, SameStream
<1> QED
  BY <1>2, <1>3, <1>4, <1>5, <1>6, <1>7 DEF InNext, HandleEv, Worker, DevStep

LEMMA InitIsStreamInit ==
  ASSUME InInit
  PROVE  Reports!StreamInit
<1>1. cur = {} /\ works = << >> /\ reported = NoEvent /\ Dist(eLast, eUsed.index) = 0
  BY InSizes, WindowEmpty DEF InInit
<1>2. 1 .. 0 = {}  OBVIOUS
<1>3. Waiting = << >> /\ Current = << >>
  BY <1>1, <1>2 DEF Waiting, Current
<1>4. << >> \in Seq(Bufs)  OBVIOUS
<1>5. << >> \o << >> = << >>
  BY <1>4, ConcatEmptySeq
<1>6. Owed = << >>
  BY <1>1, <1>3, <1>5 DEF Owed
<1>7. Pending = << >>
  BY <1>6 DEF Pending
<1> QED  BY <1>1, <1>7 DEF Reports!StreamInit, LastReport

(* The record of whether the work thread has kept up only adds up.         *)
LEMMA WatchedNextInductive ==
  ASSUME WatchedInductive, [WatchedNext]_watchedVars
  PROVE  /\ WatchedInductive'
         /\ [overrun' \/ Reports!StreamNext]_(Reports!streamVars)
<1>1. InInductive /\ overrun \in BOOLEAN /\ (~ overrun => OwnBuffers)
  BY DEF WatchedInductive
<1>2. [InNext]_inVars
  BY DEF WatchedNext, watchedVars
<1>3. InInductive'
  BY <1>1, <1>2, InNextInductive
<1>4. overrun' \in BOOLEAN /\ (~ overrun' => ~ overrun /\ KeepsUp)
  <2>1. CASE WatchedNext
    BY <1>1, <2>1 DEF WatchedNext
  <2>2. CASE UNCHANGED watchedVars
    <3>1. eDev' = eDev /\ overrun' = overrun
      BY <2>2 DEF watchedVars, inVars
    <3> QED  BY <1>1, <3>1 DEF KeepsUp
  <2> QED  BY <2>1, <2>2
<1>5. ~ overrun' => OwnBuffers'
  BY <1>1, <1>2, <1>3, <1>4, OwnersKept
<1>6. ~ overrun' => [Reports!StreamNext]_(Reports!streamVars)
  BY <1>1, <1>2, <1>3, <1>4, <1>5, StepIsStreamStep
<1>7. [overrun' \/ Reports!StreamNext]_(Reports!streamVars)
  BY <1>6
<1>8. WatchedInductive'
  BY <1>3, <1>4, <1>5 DEF WatchedInductive
<1> QED  BY <1>7, <1>8

(* As long as the work thread gets to a buffer before the device comes     *)
(* round the ring to it, every event is reported once, whole and in order, *)
(* but for those there was no memory for.                                  *)
THEOREM EventsAreTheStream == WatchedSpec => ImplementsEventStream
<1>1. WatchedInit => Reports!StreamInit /\ WatchedInductive
  <2> SUFFICES ASSUME WatchedInit PROVE Reports!StreamInit /\ WatchedInductive
    OBVIOUS
  <2>1. InInit /\ overrun = FALSE  BY DEF WatchedInit
  <2> QED  BY <2>1, InitIsStreamInit, InInitInductive, OwnersInit DEF WatchedInductive
<1>2. WatchedInductive /\ [WatchedNext]_watchedVars =>
        /\ WatchedInductive'
        /\ [overrun' \/ Reports!StreamNext]_(Reports!streamVars)
  BY WatchedNextInductive
<1> QED
  BY <1>1, <1>2, PTL DEF WatchedSpec, ImplementsEventStream
=============================================================================
