----------------------------- MODULE VirtInput -----------------------------
(***************************************************************************)
(* The event queue of the virtio-input driver (drivers/virtio/             *)
(* virtinput.c).  The device writes each event into a buffer; the          *)
(* interrupt handler queues a work item that points at the buffer and      *)
(* gives the buffer back to the device at once; the work thread, later,    *)
(* converts the event where it lies and reports it.  Nothing but the       *)
(* length of the ring protects a buffer its work item still points at.     *)
(*                                                                         *)
(* Actors: the interrupt handler, the work thread it preempts, the device. *)
(***************************************************************************)
EXTENDS Virtq, Sequences

CONSTANTS
  QSZ,          \* VIRTQ_EVENT_QSZ
  BACKLOG,      \* bound: events on their way before the device has no more
  Values,       \* what an event says
  NoEvent

ASSUME InputAssumption ==
  /\ QSZ \in Nat \ {0}
  /\ IDX % QSZ = 0
  /\ IDX > QSZ
  /\ BACKLOG \in Nat \ {0}
  /\ NoEvent \notin Values \cup [v : Values, onScreen : BOOLEAN]

Bufs == 0 .. QSZ - 1

(* struct VirtinEvent; onScreen: coordinates are those of the screen        *)
Events == [v : Values, onScreen : BOOLEAN]
Raw(v) == [v |-> v, onScreen |-> FALSE]

VARIABLES
  ev,           \* in->ev[]
  eAvail,       \* vq[0].avail: ring, index, flag (VIRTQ_AVAIL_F_NO_INTERRUPT)
  eUsed,        \* vq[0].used: ring, index, flag (VIRTQ_USED_F_NO_NOTIFY)
  eLast,        \* vq[0].last
  eAdd,         \* add of VirtinHandleEv
  eIsr,         \* InterruptStatus & VIRTMMIO_IRQ_NOTIFY_USED
  eIrq,         \* where VirtinIRQhandle is
  works,        \* in->wq: the buffers of the queued work items
  cur,          \* the buffer VirtinWorkCallback works on, {} when it does not
  converted,    \* it is past the conversion
  reported,     \* the last event given to HidReportEvent
  eDev          \* the device, as in VirtNetRx: pc, kick, next avail index,
                \* the buffer being filled, what became of the interrupt

workVars == <<works, cur, converted, reported>>
handlerVars == <<eLast, eAdd>>
inVars == <<ev, eAvail, eUsed, handlerVars, eIsr, eIrq, workVars, eDev>>

InTypeOK ==
  /\ ev \in [Bufs -> Events]
  /\ eAvail \in [ring : [Bufs -> Bufs], index : Indices, flag : BOOLEAN]
  /\ eUsed \in [ring : [Bufs -> Bufs], index : Indices, flag : BOOLEAN]
  /\ eLast \in Indices
  /\ eAdd \in 0 .. QSZ
  /\ eIsr \in BOOLEAN
  /\ eIrq \in {"idle", "loop", "post", "enable", "notify", "ack"}
  /\ works \in Seq(Bufs)
  /\ cur \in SUBSET Bufs
  /\ converted \in BOOLEAN
  /\ reported \in Events \cup {NoEvent}
  /\ eDev \in [pc : {"sleep", "run", "recheck"}, kick : BOOLEAN, last : Indices,
               fills : SUBSET Bufs, intr : {"none", "due", "raised", "suppressed"}]

(* after PopulateEventQ; what ev[] holds before an event is of no account   *)
InInit ==
  /\ \E v \in Values : ev = [i \in Bufs |-> Raw(v)]
  /\ eAvail = [ring |-> [i \in Bufs |-> i], index |-> QSZ, flag |-> FALSE]
  /\ eUsed = [ring |-> [i \in Bufs |-> 0], index |-> 0, flag |-> FALSE]
  /\ eLast = 0
  /\ eAdd = 0
  /\ eIsr = FALSE
  /\ eIrq = "idle"
  /\ works = <<>>
  /\ cur = {}
  /\ converted = FALSE
  /\ reported = NoEvent
  /\ eDev = [pc |-> "sleep", kick |-> TRUE, last |-> 0, fills |-> {}, intr |-> "none"]

PutAt == (eAvail.index + eAdd) % IDX

-----------------------------------------------------------------------------
(* VirtinIRQhandle and VirtinHandleEv                                      *)

HandleBegin ==
  /\ eIrq = "idle"
  /\ eIsr
  /\ eIrq' = "loop"
  /\ eAdd' = 0
  /\ eAvail' = [eAvail EXCEPT !.flag = TRUE]
  /\ UNCHANGED <<ev, eUsed, eLast, eIsr, workVars, eDev>>

(* the loop goes on while there are used elements *)
UsedPending == eLast # eUsed.index

(* where the buffer is put back *)
BugPutBackAt == eAvail.index
PutBackAt == PutAt

(* HdfAddWork, unless there is no memory for it *)
BugQueueWork(id) == works' \in {<<id>> \o works, works}
QueueWork(id) == works' \in {Append(works, id), works}

(* q->last++, and round again *)
BugTakeNext == eLast' = Inc(eLast) /\ eIrq' = "post"
TakeNext == eLast' = Inc(eLast) /\ UNCHANGED eIrq

HandleOne ==
  LET id == eUsed.ring[Slot(eLast, QSZ)] IN
  /\ eIrq = "loop"
  /\ UsedPending
  /\ QueueWork(id)
  /\ eAvail' = [eAvail EXCEPT !.ring[Slot(PutBackAt, QSZ)] = id]
  /\ eAdd' = eAdd + 1
  /\ TakeNext
  /\ UNCHANGED <<ev, eUsed, eIsr, cur, converted, reported, eDev>>

HandleEmpty ==
  /\ eIrq = "loop"
  /\ eLast = eUsed.index
  /\ eIrq' = "post"
  /\ UNCHANGED <<ev, eAvail, eUsed, handlerVars, eIsr, workVars, eDev>>

HandlePost ==
  /\ eIrq = "post"
  /\ eIrq' = "enable"
  /\ eAvail' = [eAvail EXCEPT !.index = PutAt]
  /\ eAdd' = 0
  /\ UNCHANGED <<ev, eUsed, eLast, eIsr, workVars, eDev>>

(* no look at the used ring after this, unlike VirtnetRxHandle *)
HandleEnable ==
  /\ eIrq = "enable"
  /\ eIrq' = "notify"
  /\ eAvail' = [eAvail EXCEPT !.flag = FALSE]
  /\ UNCHANGED <<ev, eUsed, handlerVars, eIsr, workVars, eDev>>

(* QueueNotify is written unless used->flag says it need not be *)
MustKick == ~ eUsed.flag

HandleNotify ==
  /\ eIrq = "notify"
  /\ eIrq' = "ack"
  /\ eDev' = [eDev EXCEPT !.kick = @ \/ MustKick]
  /\ UNCHANGED <<ev, eAvail, eUsed, handlerVars, eIsr, workVars>>

HandleAck ==
  /\ eIrq = "ack"
  /\ eIrq' = "idle"
  /\ eIsr' = FALSE
  /\ UNCHANGED <<ev, eAvail, eUsed, handlerVars, workVars, eDev>>

HandleEv == \/ HandleBegin \/ HandleOne \/ HandleEmpty \/ HandlePost
            \/ HandleEnable \/ HandleNotify \/ HandleAck

-----------------------------------------------------------------------------
(* VirtinWorkCallback, in the work thread                                  *)

WorkTake ==
  /\ eIrq = "idle"
  /\ cur = {}
  /\ works # <<>>
  /\ cur' = {Head(works)}
  /\ works' = Tail(works)
  /\ converted' = FALSE
  /\ UNCHANGED <<ev, eAvail, eUsed, handlerVars, eIsr, eIrq, reported, eDev>>

(* ev->value and ev->code are changed in the buffer itself *)
WorkConvert ==
  /\ eIrq = "idle"
  /\ ~ converted
  /\ \E id \in cur : ev' = [ev EXCEPT ![id].onScreen = TRUE]
  /\ converted' = TRUE
  /\ UNCHANGED <<eAvail, eUsed, handlerVars, eIsr, eIrq, works, cur, reported, eDev>>

WorkReport ==
  /\ eIrq = "idle"
  /\ converted
  /\ \E id \in cur : reported' = ev[id]
  /\ cur' = {}
  /\ converted' = FALSE
  /\ UNCHANGED <<ev, eAvail, eUsed, handlerVars, eIsr, eIrq, works, eDev>>

Worker == WorkTake \/ WorkConvert \/ WorkReport

-----------------------------------------------------------------------------
(* external: the device.  An event without a buffer is lost in the device.  *)

inDrvVars == <<eAvail, handlerVars, eIrq, workVars>>

(* events the device has begun to write and HidReportEvent has not been given *)
Unreported ==
  Dist(eLast, eUsed.index) + Len(works)
    + (IF cur = {} THEN 0 ELSE 1) + (IF eDev.fills = {} THEN 0 ELSE 1)

DevWake ==
  /\ eDev.pc = "sleep"
  /\ eDev.kick
  /\ eDev' = [eDev EXCEPT !.pc = "run", !.kick = FALSE]
  /\ eUsed' = [eUsed EXCEPT !.flag = TRUE]
  /\ UNCHANGED <<ev, inDrvVars, eIsr>>

DevFill(v) ==
  LET id == eAvail.ring[Slot(eDev.last, QSZ)] IN
  /\ eDev.pc = "run"
  /\ eDev.fills = {}
  /\ eDev.last # eAvail.index
  /\ Unreported < BACKLOG
  /\ ev' = [ev EXCEPT ![id] = Raw(v)]
  /\ eDev' = [eDev EXCEPT !.fills = {id}, !.last = Inc(@)]
  /\ UNCHANGED <<inDrvVars, eUsed, eIsr>>

DevUse ==
  \E id \in eDev.fills :
    /\ eUsed' = [eUsed EXCEPT !.ring[Slot(eUsed.index, QSZ)] = id, !.index = Inc(@)]
    /\ eDev' = [eDev EXCEPT !.fills = {}, !.intr = "due"]
    /\ UNCHANGED <<ev, inDrvVars, eIsr>>

DevIntr ==
  /\ eDev.intr = "due"
  /\ eDev' = [eDev EXCEPT !.intr = IF eAvail.flag THEN "suppressed" ELSE "raised"]
  /\ eIsr' = (eIsr \/ ~ eAvail.flag)
  /\ UNCHANGED <<ev, inDrvVars, eUsed>>

DevEmpty ==
  /\ eDev.pc = "run"
  /\ eDev.last = eAvail.index
  /\ eDev' = [eDev EXCEPT !.pc = "recheck"]
  /\ eUsed' = [eUsed EXCEPT !.flag = FALSE]
  /\ UNCHANGED <<ev, inDrvVars, eIsr>>

DevRecheck ==
  /\ eDev.pc = "recheck"
  /\ eDev' = [eDev EXCEPT !.pc = IF eDev.last = eAvail.index THEN "sleep" ELSE "run"]
  /\ eUsed' = [eUsed EXCEPT !.flag = eDev.last # eAvail.index]
  /\ UNCHANGED <<ev, inDrvVars, eIsr>>

DevStep == DevWake \/ DevUse \/ DevIntr \/ DevEmpty \/ DevRecheck

-----------------------------------------------------------------------------
InNext ==
  \/ HandleEv
  \/ Worker
  \/ DevStep \/ \E v \in Values : DevFill(v)

InSpec == InInit /\ [][InNext]_inVars

(* What the driver leaves to timing: the work thread is through with a      *)
(* buffer before the device comes round the ring and fills it again.        *)
Referenced == cur \cup {works[k] : k \in DOMAIN works}
KeepsUp == (eDev'.fills \ eDev.fills) \cap Referenced = {}

(* An interrupt is handled to its end, the work thread gets its turn, the   *)
(* device finishes what it has begun.  No event is ever owed.               *)
InFairSpec ==
  /\ InSpec
  /\ WF_inVars(HandleEv)
  /\ WF_inVars(Worker)
  /\ WF_inVars(DevWake \/ DevUse \/ DevEmpty \/ DevRecheck)
  /\ WF_inVars(DevIntr)

-----------------------------------------------------------------------------
(* Every buffer is in one place of the queue, although a work item may      *)
(* point at it as well.                                                     *)
InBuffersPartitioned ==
  LET avail == Entries(eAvail.ring, eDev.last, PutAt, QSZ)
      used == Entries(eUsed.ring, eLast, eUsed.index, QSZ)
  IN /\ Bufs = avail \cup eDev.fills \cup used
     /\ avail \cap eDev.fills = {} /\ avail \cap used = {} /\ eDev.fills \cap used = {}
     /\ NoRepeat(eAvail.ring, eDev.last, PutAt, QSZ)
     /\ NoRepeat(eUsed.ring, eLast, eUsed.index, QSZ)

(* A device that sleeps on an empty ring is woken by VirtinHandleEv.        *)
InNoLostKick ==
  (eDev.pc = "sleep" /\ eDev.last # eAvail.index) =>
     eDev.kick \/ eIrq \in {"enable", "notify"}

InInvariant == InTypeOK /\ InBuffersPartitioned /\ InNoLostKick

(* What makes these inductive: the places add up to all buffers, which      *)
(* keeps both rings from overflowing; the handler publishes all it puts     *)
(* back before it leaves; the device fills one buffer at a time, and asks   *)
(* not to be notified only while it runs.                                   *)
InCounted ==
  LET filling == IF eDev.fills = {} THEN 0 ELSE 1
      avail == Dist(eDev.last, eAvail.index) + eAdd
  IN QSZ = avail + filling + Dist(eLast, eUsed.index)

InOneByOne == \A b, c \in eDev.fills : b = c

InHandlerState == eIrq \notin {"loop", "post"} => eAdd = 0

InAsksWhenIdle == eDev.pc # "run" => ~ eUsed.flag

InInductive ==
  /\ InInvariant
  /\ InCounted
  /\ InOneByOne
  /\ InHandlerState
  /\ InAsksWhenIdle

(* An event left behind because its interrupt was suppressed, or            *)
(* acknowledged with an earlier one, is queued at the next interrupt.       *)
InNextInterruptRecovers == []<>(eIrq = "loop") => []<>(eLast = eUsed.index)

-----------------------------------------------------------------------------
(* The promise to the input subsystem is the stream of EventStream; what    *)
(* is reported in the coordinates of the tablet is no event of it.          *)
Waiting ==
  [k \in 1 .. Dist(eLast, eUsed.index) |-> eUsed.ring[Slot((eLast + k - 1) % IDX, QSZ)]]

Current == IF cur = {} THEN <<>> ELSE <<CHOOSE i \in cur : TRUE>>

Owed == Current \o works \o Waiting

Pending == [k \in DOMAIN Owed |-> ev[Owed[k]].v]

LastReport == IF reported # NoEvent /\ reported.onScreen THEN reported.v ELSE reported

Reports == INSTANCE EventStream WITH
  CAP <- QSZ, None <- NoEvent, pending <- Pending, reported <- LastReport

-----------------------------------------------------------------------------
(* The driver with a record of whether the work thread has ever failed to   *)
(* keep up: from then on two work items may point at one event.             *)
VARIABLE overrun

watchedVars == <<inVars, overrun>>

WatchedInit == InInit /\ overrun = FALSE

WatchedNext == InNext /\ overrun' = (overrun \/ ~ KeepsUp)

(* the fairness of InFairSpec *)
WatchedSpec ==
  /\ WatchedInit
  /\ [][WatchedNext]_watchedVars
  /\ WF_inVars(HandleEv)
  /\ WF_inVars(Worker)
  /\ WF_inVars(DevWake \/ DevUse \/ DevEmpty \/ DevRecheck)
  /\ WF_inVars(DevIntr)

(* Until then every event still to be reported has a buffer to itself, and  *)
(* what has been converted stays so.                                        *)
OwnBuffers ==
  LET queued == {works[k] : k \in DOMAIN works}
      used == Entries(eUsed.ring, eLast, eUsed.index, QSZ)
  IN /\ \A b, c \in cur : b = c
     /\ \A j, k \in DOMAIN works : works[j] = works[k] => j = k
     /\ cur \cap queued = {}
     /\ Referenced \cap (eDev.fills \cup used) = {}
     /\ converted => \A b \in cur : ev[b].onScreen

WatchedInductive == InInductive /\ overrun \in BOOLEAN /\ (~ overrun => OwnBuffers)

(* The events are the stream of EventStream for as long as the work thread  *)
(* keeps up with VirtinHandleEv, which queues it a work item per event and  *)
(* gives the buffer back at once.                                           *)
ImplementsEventStream ==
  Reports!StreamInit /\ [][overrun' \/ Reports!StreamNext]_(Reports!streamVars)
=============================================================================
