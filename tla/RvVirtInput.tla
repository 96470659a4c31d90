----------------------------- MODULE RvVirtInput -----------------------------
(***************************************************************************)
(* The virtio-input driver of the riscv32_virt board (LiteOS-M;            *)
(* board/driver/virtinput.c), from the device up to its release.  The      *)
(* interrupt handler only releases a semaphore; InputWorkTask reports the  *)
(* events, puts the buffers back and acknowledges the interrupt.           *)
(*                                                                         *)
(* Actors: the device and the interrupt controller, the handler, which runs *)
(* to its end between two steps of a task, InputWorkTask, and the task of  *)
(* the framework that releases the driver.                                 *)
(***************************************************************************)
EXTENDS Integers, Sequences, SequencesExt

CONSTANTS
  EQ,               \* VIRTQ_EVENT_QSZ
  NoEvent,
  MaxEvents         \* bound: events of the mouse

Events == {"down", "up", "syn", "move"}

VARIABLES
  evBuf,            \* in->ev[]
  evRing,           \* vq[0]: ids available and used, the id put back but not
                    \* published, NO_INTERRUPT, NO_NOTIFY
  evDev,            \* the device: pc, notified, the buffer it fills, interrupt
  mouse,            \* its events that were not taken from a buffer yet, and
                    \* how many it has made
  line,             \* InterruptStatus, and pending in the controller
  sem,              \* in->sem: its count, or gone
  worker,           \* where InputWorkTask is
  precedeDown,      \* of VirtinGrabbed
  button,           \* the button as reported
  inLate,           \* an interrupt was swallowed since the ring was last looked at
  owner             \* how far the release is, and what is still there

rvInputVars ==
  <<evBuf, evRing, evDev, mouse, line, sem, worker, precedeDown, button, inLate, owner>>

Ids == 0 .. EQ - 1

(* HdfVirtinInit has made the semaphore and the task, and PopulateEventQ has *)
(* published the buffers                                                     *)
RvInputInit ==
  /\ evBuf = [i \in Ids |-> NoEvent]
  /\ evRing = [avail |-> [k \in 1 .. EQ |-> k - 1], used |-> <<>>, back |-> <<>>,
               quiet |-> FALSE, busy |-> FALSE]
  /\ evDev = [pc |-> "sleep", kick |-> TRUE, cur |-> <<>>, intr |-> FALSE]
  /\ mouse = [waiting |-> <<>>, made |-> 0]
  /\ line = [isr |-> FALSE, pending |-> FALSE]
  /\ sem = 0
  /\ worker = "wait"
  /\ precedeDown = "no"
  /\ button = "up"
  /\ inLate = FALSE
  /\ owner = [at |-> "up", irq |-> TRUE, mem |-> TRUE]

----------------------------------------------------------------------------
(* VirtinIRQhandle.  The status stays set until the task acknowledges it;   *)
(* the semaphore counts to one, and the release drops in->sem early.        *)
VirtinIRQhandle ==
  /\ owner.irq
  /\ line.pending
  /\ line' = [line EXCEPT !.pending = FALSE]
  /\ sem' = IF line.isr /\ sem = 0 /\ owner.at \in {"up", "hid"} THEN 1 ELSE sem
  /\ UNCHANGED <<evBuf, evRing, evDev, mouse, worker, precedeDown, button, inLate, owner>>

----------------------------------------------------------------------------
(* InputWorkTask: VirtinHandleEv *)
Acquire ==
  /\ worker = "wait" /\ sem = 1
  /\ sem' = 0
  /\ worker' = "loop"
  /\ evRing' = [evRing EXCEPT !.quiet = TRUE]
  /\ inLate' = FALSE
  /\ UNCHANGED <<evBuf, evDev, mouse, line, precedeDown, button, owner>>

(* VirtinGrabbed: what becomes of precedeDown, and whether the event passes *)
Precede(e) ==
  CASE e = "down" -> "yes"
    [] e = "up" /\ precedeDown = "yes" -> "no"
    [] e = "up" -> "syn"
    [] precedeDown = "syn" -> "no"
    [] OTHER -> precedeDown
Passes(e) ==
  CASE e = "up" -> precedeDown = "yes"
    [] e = "down" -> TRUE
    [] OTHER -> precedeDown # "syn"

(* an event is reported or not, its buffer put back, unpublished *)
HandleOne ==
  LET id == Head(evRing.used)
      e == evBuf[id]
  IN /\ worker = "loop" /\ evRing.used # <<>>
     /\ precedeDown' = Precede(e)
     /\ button' = IF Passes(e) /\ e \in {"down", "up"} THEN e ELSE button
     /\ mouse' = [mouse EXCEPT !.waiting = Tail(@)]
     /\ evRing' = [evRing EXCEPT !.used = Tail(@), !.back = Append(@, id)]
     /\ UNCHANGED <<evBuf, evDev, line, sem, worker, inLate, owner>>

HandledAll ==
  /\ worker = "loop" /\ evRing.used = <<>>
  /\ worker' = "publish"
  /\ UNCHANGED <<evBuf, evRing, evDev, mouse, line, sem, precedeDown, button, inLate, owner>>

Publish ==
  /\ worker = "publish"
  /\ worker' = "enable"
  /\ evRing' = [evRing EXCEPT !.avail = @ \o evRing.back, !.back = <<>>]
  /\ UNCHANGED <<evBuf, evDev, mouse, line, sem, precedeDown, button, inLate, owner>>

Enable ==
  /\ worker = "enable"
  /\ worker' = "notify"
  /\ evRing' = [evRing EXCEPT !.quiet = FALSE]
  /\ UNCHANGED <<evBuf, evDev, mouse, line, sem, precedeDown, button, inLate, owner>>

Notify ==
  /\ worker = "notify"
  /\ worker' = "ack"
  /\ evDev' = [evDev EXCEPT !.kick = @ \/ ~evRing.busy]
  /\ UNCHANGED <<evBuf, evRing, mouse, line, sem, precedeDown, button, inLate, owner>>

(* external: the line drops, and what was pending with it *)
AckInTask ==
  /\ worker = "ack"
  /\ worker' = "wait"
  /\ line' = [isr |-> FALSE, pending |-> FALSE]
  /\ inLate' = (inLate \/ line.pending)
  /\ UNCHANGED <<evBuf, evRing, evDev, mouse, sem, precedeDown, button, owner>>

InputWorkTask ==
  Acquire \/ HandleOne \/ HandledAll \/ Publish \/ Enable \/ Notify \/ AckInTask

----------------------------------------------------------------------------
(* HdfVirtinRelease, step by step.  LiteOS does not delete a semaphore that  *)
(* a task waits on (external); in->sem is dropped all the same.              *)
Release(from, to) == owner.at = from /\ owner' = [owner EXCEPT !.at = to]

HidUnregister ==
  /\ Release("up", "hid")
  /\ UNCHANGED <<evBuf, evRing, evDev, mouse, line, sem, worker, precedeDown, button, inLate>>

DeleteSem ==
  /\ Release("hid", "sem")
  /\ sem' = IF worker = "wait" /\ sem = 0 THEN sem ELSE -1
  /\ UNCHANGED <<evBuf, evRing, evDev, mouse, line, worker, precedeDown, button, inLate>>

Terminate ==
  /\ Release("sem", "task")
  /\ worker' = "gone"
  /\ UNCHANGED <<evBuf, evRing, evDev, mouse, line, sem, precedeDown, button, inLate>>

DeleteIrq ==
  /\ owner.at = "task"
  /\ owner' = [at |-> "irq", irq |-> FALSE, mem |-> TRUE]
  /\ UNCHANGED <<evBuf, evRing, evDev, mouse, line, sem, worker, precedeDown, button, inLate>>

FreeIn ==
  /\ owner.at = "irq"
  /\ owner' = [owner EXCEPT !.at = "gone", !.mem = FALSE]
  /\ UNCHANGED <<evBuf, evRing, evDev, mouse, line, sem, worker, precedeDown, button, inLate>>

HdfVirtinRelease == HidUnregister \/ DeleteSem \/ Terminate \/ DeleteIrq \/ FreeIn

----------------------------------------------------------------------------
(* external: the device.  It works on after the release too: nobody resets it *)
DevWake ==
  /\ evDev.pc = "sleep" /\ evDev.kick
  /\ evDev' = [evDev EXCEPT !.pc = "run", !.kick = FALSE]
  /\ evRing' = [evRing EXCEPT !.busy = TRUE]
  /\ UNCHANGED <<evBuf, mouse, line, sem, worker, precedeDown, button, inLate, owner>>

DevFill(e) ==
  /\ evDev.pc = "run" /\ evDev.cur = <<>> /\ evRing.avail # <<>>
  /\ mouse.made < MaxEvents
  /\ evBuf' = [evBuf EXCEPT ![Head(evRing.avail)] = e]
  /\ evDev' = [evDev EXCEPT !.cur = <<Head(evRing.avail)>>]
  /\ evRing' = [evRing EXCEPT !.avail = Tail(@)]
  /\ mouse' = [waiting |-> Append(mouse.waiting, e), made |-> mouse.made + 1]
  /\ UNCHANGED <<line, sem, worker, precedeDown, button, inLate, owner>>

DevUse ==
  /\ evDev.cur # <<>>
  /\ evDev' = [evDev EXCEPT !.cur = <<>>, !.intr = TRUE]
  /\ evRing' = [evRing EXCEPT !.used = @ \o evDev.cur]
  /\ UNCHANGED <<evBuf, mouse, line, sem, worker, precedeDown, button, inLate, owner>>

(* a notification makes the interrupt pending anew; between the last look at *)
(* the ring and the enabling it is not given, and nobody looks again         *)
DevIntr ==
  /\ evDev.intr
  /\ evDev' = [evDev EXCEPT !.intr = FALSE]
  /\ line' = IF evRing.quiet THEN line ELSE [isr |-> TRUE, pending |-> TRUE]
  /\ inLate' = (inLate \/ (evRing.quiet /\ worker \in {"publish", "enable"}))
  /\ UNCHANGED <<evBuf, evRing, mouse, sem, worker, precedeDown, button, owner>>

DevEmpty ==
  /\ evDev.pc = "run" /\ evDev.cur = <<>> /\ evRing.avail = <<>>
  /\ evDev' = [evDev EXCEPT !.pc = "recheck"]
  /\ evRing' = [evRing EXCEPT !.busy = FALSE]
  /\ UNCHANGED <<evBuf, mouse, line, sem, worker, precedeDown, button, inLate, owner>>

DevRecheck ==
  /\ evDev.pc = "recheck"
  /\ evDev' = [evDev EXCEPT !.pc = IF evRing.avail = <<>> THEN "sleep" ELSE "run"]
  /\ evRing' = [evRing EXCEPT !.busy = evRing.avail # <<>>]
  /\ UNCHANGED <<evBuf, mouse, line, sem, worker, precedeDown, button, inLate, owner>>

RvInputNext ==
  \/ VirtinIRQhandle \/ InputWorkTask \/ HdfVirtinRelease
  \/ DevWake \/ DevUse \/ DevIntr \/ DevEmpty \/ DevRecheck
  \/ \E e \in Events : DevFill(e)

----------------------------------------------------------------------------
(* What the task reports are the events of the mouse, each in its order: no  *)
(* buffer is filled again before its event was taken.  (VirtinHandleEv,      *)
(* virtinput.c:155)                                                          *)
EventsInOrder ==
  mouse.waiting = [k \in 1 .. Len(evRing.used \o evDev.cur) |-> evBuf[(evRing.used \o evDev.cur)[k]]]

(* The button as it was reported agrees with the filter: no up is reported   *)
(* for a button that is up.  (VirtinGrabbed, virtinput.c:134)                *)
NoUpWithoutDown == (precedeDown = "yes") = (button = "down")

(* While the driver is up, a used event has a semaphore released for it, an  *)
(* interrupt on its way, or lost the interrupt to the end of the handling    *)
(* before.  (InputWorkTask, virtinput.c:365)                                 *)
EventsAreSeen ==
  worker = "wait" /\ evRing.used # <<>> /\ owner.at = "up" =>
    sem = 1 \/ evDev.intr \/ (line.isr /\ line.pending) \/ inLate

(* No buffer waits for a device that sleeps.  (VirtinHandleEv,               *)
(* virtinput.c:178)                                                          *)
BuffersAnnounced ==
  evDev.pc = "sleep" /\ evRing.avail # <<>> => evDev.kick \/ worker \in {"enable", "notify", "gone"}

(* The release takes away whatever runs in the driver's memory before the    *)
(* memory, and leaves the semaphore only when the task waited on it.         *)
(* (VirtinDeInit, virtinput.c:299)                                           *)
ReleasedInOrder == owner.irq \/ worker # "gone" => owner.mem

RvInputInvariant ==
  EventsInOrder /\ NoUpWithoutDown /\ EventsAreSeen /\ BuffersAnnounced /\ ReleasedInOrder
=============================================================================
