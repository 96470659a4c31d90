------------------------------ MODULE VirtRng ------------------------------
(***************************************************************************)
(* The virtio-rng driver (drivers/virtio/virtrng.c).  VirtrngRead gives    *)
(* the device a buffer to fill, waits for the interrupt and reports how    *)
(* much came; a mutex lets one reader at a time use the one descriptor.    *)
(*                                                                         *)
(* Actors: the readers, the interrupt handler, which preempts all of them  *)
(* on the one core, and the device.                                        *)
(***************************************************************************)
EXTENDS Virtq

CONSTANTS
  Readers,      \* tasks that read /dev/urandom or call HiRandomHwGetNumber
  LEN,          \* the size of every buffer
  Nobody

ASSUME RngAssumption ==
  /\ LEN \in Nat \ {0}
  /\ Nobody \notin Readers
  /\ IDX > 1

Fail == -1

VARIABLES
  rpc,        \* where each reader is
  rlen,       \* what VirtrngIO returned to each reader
  rret,       \* what each reader's last call returned
  mutex,      \* the reader that holds it
  event,      \* the bit VirtrngIRQhandle signals
  rngDesc,    \* desc[0].pAddr: whose buffer
  rngAvail,   \* avail->index; the ring of one entry always holds 0
  rngUsed,    \* used->index and used->ring[0].len
  rngLast,    \* vq[0].last
  rngIsr,     \* InterruptStatus & VIRTMMIO_IRQ_NOTIFY_USED
  rngIrq,     \* where VirtrngIRQhandle is
  rngDev      \* the device: kick, next avail index, buffer it is filling,
              \* bytes written into each buffer since the call

callVars == <<rlen, rret>>
syncVars == <<mutex, event>>
queueVars == <<rngDesc, rngAvail, rngUsed, rngDev>>
rngIrqVars == <<rngLast, rngIsr, rngIrq>>
rngVars == <<rpc, callVars, syncVars, queueVars, rngIrqVars>>

RngTypeOK ==
  /\ rpc \in [Readers -> {"idle", "lock", "submit", "wait", "unlock", "copy"}]
  /\ rlen \in [Readers -> Fail .. LEN]
  /\ rret \in [Readers -> Fail .. LEN]
  /\ mutex \in Readers \cup {Nobody}
  /\ event \in BOOLEAN
  /\ rngDesc \in Readers \cup {Nobody}
  /\ rngAvail \in Indices
  /\ rngUsed \in [index : Indices, len : 0 .. LEN]
  /\ rngLast \in Indices
  /\ rngIsr \in BOOLEAN
  /\ rngIrq \in {"idle", "signal", "ack"}
  /\ rngDev \in [kick : BOOLEAN, last : Indices, cur : Readers \cup {Nobody},
                 wrote : [Readers -> 0 .. LEN]]

RngInit ==
  /\ rpc = [r \in Readers |-> "idle"]
  /\ rlen = [r \in Readers |-> Fail]
  /\ rret = [r \in Readers |-> Fail]
  /\ mutex = Nobody
  /\ event = FALSE
  /\ rngDesc = Nobody
  /\ rngAvail = 0
  /\ rngUsed = [index |-> 0, len |-> 0]
  /\ rngLast = 0
  /\ rngIsr = FALSE
  /\ rngIrq = "idle"
  /\ rngDev = [kick |-> FALSE, last |-> 0, cur |-> Nobody, wrote |-> [r \in Readers |-> 0]]

-----------------------------------------------------------------------------
(* A reader                                                                *)

ReaderStep(r, from, to) ==
  /\ rngIrq = "idle"
  /\ rpc[r] = from
  /\ rpc' = [rpc EXCEPT ![r] = to]

(* VirtrngRead: no memory for a kernel buffer, or a range that wraps *)
ReadFails(r) ==
  /\ ReaderStep(r, "idle", "idle")
  /\ rret' = [rret EXCEPT ![r] = Fail]
  /\ UNCHANGED <<rlen, syncVars, queueVars, rngIrqVars>>

Read(r) ==
  /\ ReaderStep(r, "idle", "lock")
  /\ rngDev' = [rngDev EXCEPT !.wrote[r] = 0]
  /\ UNCHANGED <<callVars, syncVars, rngDesc, rngAvail, rngUsed, rngIrqVars>>

Lock(r) ==
  /\ ReaderStep(r, "lock", "submit")
  /\ mutex = Nobody
  /\ mutex' = r
  /\ UNCHANGED <<callVars, event, queueVars, rngIrqVars>>

(* the descriptor, avail->index++ and QueueNotify; the queue is empty *)
Submit(r) ==
  /\ ReaderStep(r, "submit", "wait")
  /\ rngDesc' = r
  /\ rngAvail' = Inc(rngAvail)
  /\ rngDev' = [rngDev EXCEPT !.kick = TRUE]
  /\ UNCHANGED <<callVars, syncVars, rngUsed, rngIrqVars>>

(* DmaEventWait returns and clears the bit; used->ring[0].len *)
BugWaitKeeps(r) ==
  /\ ReaderStep(r, "wait", "unlock")
  /\ event
  /\ rlen' = [rlen EXCEPT ![r] = rngUsed.len]
  /\ UNCHANGED <<rret, syncVars, queueVars, rngIrqVars>>
Wait(r) ==
  /\ ReaderStep(r, "wait", "unlock")
  /\ event
  /\ event' = FALSE
  /\ rlen' = [rlen EXCEPT ![r] = rngUsed.len]
  /\ UNCHANGED <<rret, mutex, queueVars, rngIrqVars>>

Unlock(r) ==
  /\ ReaderStep(r, "unlock", "copy")
  /\ mutex' = Nobody
  /\ UNCHANGED <<callVars, event, queueVars, rngIrqVars>>

(* the length, unless LOS_ArchCopyToUser fails; the kernel buffer is freed *)
BugCopyOut(r) ==
  /\ ReaderStep(r, "copy", "idle")
  /\ rret' = [rret EXCEPT ![r] = LEN]
  /\ UNCHANGED <<rlen, syncVars, queueVars, rngIrqVars>>
CopyOut(r) ==
  /\ ReaderStep(r, "copy", "idle")
  /\ \E n \in {rlen[r], Fail} : rret' = [rret EXCEPT ![r] = n]
  /\ UNCHANGED <<rlen, syncVars, queueVars, rngIrqVars>>

-----------------------------------------------------------------------------
(* VirtrngIRQhandle.  It goes on only for VIRTMMIO_IRQ_NOTIFY_USED, and     *)
(* acknowledges last.                                                      *)

RngIrqEnter ==
  /\ rngIrq = "idle"
  /\ rngIsr
  /\ rngIrq' = "signal"
  /\ UNCHANGED <<rpc, callVars, syncVars, queueVars, rngLast, rngIsr>>

RngIrqSignal ==
  /\ rngIrq = "signal"
  /\ rngIrq' = "ack"
  /\ event' = TRUE
  /\ rngLast' = Inc(rngLast)
  /\ UNCHANGED <<rpc, callVars, mutex, queueVars, rngIsr>>

BugRngIrqAck ==
  /\ rngIrq = "ack"
  /\ rngIrq' = "signal"
  /\ UNCHANGED <<rpc, callVars, syncVars, queueVars, rngLast, rngIsr>>
RngIrqAck ==
  /\ rngIrq = "ack"
  /\ rngIrq' = "idle"
  /\ rngIsr' = FALSE
  /\ UNCHANGED <<rpc, callVars, syncVars, queueVars, rngLast>>

-----------------------------------------------------------------------------
(* external: the device fills at least a byte of the buffer it is given,   *)
(* then uses it, then raises the interrupt                                 *)

RngDrvVars == <<rpc, callVars, syncVars, rngDesc, rngAvail, rngLast, rngIrq>>

RngDevFetch ==
  /\ rngDev.kick
  /\ rngDev' = IF rngDev.last = rngAvail
               THEN [rngDev EXCEPT !.kick = FALSE]
               ELSE [rngDev EXCEPT !.cur = rngDesc, !.last = Inc(@)]
  /\ rngDev.cur = Nobody
  /\ UNCHANGED <<RngDrvVars, rngUsed, rngIsr>>

RngDevUse ==
  /\ rngDev.cur # Nobody
  /\ \E n \in 1 .. LEN :
       /\ rngUsed' = [index |-> Inc(rngUsed.index), len |-> n]
       /\ rngDev' = [rngDev EXCEPT !.cur = Nobody, !.wrote[rngDev.cur] = n]
  /\ rngIsr' = TRUE
  /\ UNCHANGED RngDrvVars

-----------------------------------------------------------------------------
ReaderNext(r) == Lock(r) \/ Submit(r) \/ Wait(r) \/ Unlock(r) \/ CopyOut(r)
RngIrq == RngIrqEnter \/ RngIrqSignal \/ RngIrqAck
RngDevice == RngDevFetch \/ RngDevUse

RngNext ==
  \/ \E r \in Readers : Read(r) \/ ReadFails(r) \/ ReaderNext(r)
  \/ RngIrq
  \/ RngDevice

RngSpec == RngInit /\ [][RngNext]_rngVars

(* A pending interrupt is handled, the device answers, and the scheduler    *)
(* and the mutex leave no reader out for ever.                              *)
RngFairSpec ==
  /\ RngSpec
  /\ WF_rngVars(RngIrq)
  /\ WF_rngVars(RngDevice)
  /\ \A r \in Readers : SF_rngVars(ReaderNext(r))

-----------------------------------------------------------------------------
(* The device writes only into the buffer of a reader that still waits for  *)
(* it: VirtrngRead frees or returns the buffer as soon as the wait is over. *)
RngWritesOnlyIfWaited ==
  \A r \in Readers :
    r = rngDev.cur \/ (r = rngDesc /\ rngDev.last # rngAvail) => rpc[r] = "wait"

(* A signal is for the request now in progress: it is set only while its    *)
(* reader waits and the device has finished.  A signal left over would let  *)
(* the next reader go before its bytes are there.                           *)
RngSignalIsForWaiter ==
  event => /\ mutex # Nobody
           /\ rpc[mutex] = "wait"
           /\ rngDev.wrote[mutex] = rngUsed.len
           /\ rngLast = rngUsed.index

(* The safety of VirtrngRead and VirtrngIRQhandle in one. *)
RngInvariant == RngTypeOK /\ RngWritesOnlyIfWaited /\ RngSignalIsForWaiter

(* What makes it inductive.  The mutex belongs to the reader between the    *)
(* two calls that take and release it; its request goes from the ring to    *)
(* the device, to the used ring and through the interrupt to the signal,    *)
(* one at a time, and while nobody waits all of that is at rest.            *)
RngMutexHeld ==
  \A r \in Readers : rpc[r] \in {"submit", "wait", "unlock"} <=> mutex = r

NoSignal == ~ event /\ ~ rngIsr /\ rngIrq = "idle" /\ rngLast = rngUsed.index
RngFetched == rngDev.last = rngAvail /\ rngDev.cur = Nobody

RngAsked ==
  /\ rngDev.cur = Nobody /\ rngAvail = Inc(rngDev.last) /\ NoSignal
  /\ rngDesc = mutex /\ rngDev.wrote[mutex] = 0
RngFilling ==
  /\ rngDev.last = rngAvail /\ rngDev.cur = mutex /\ NoSignal
  /\ rngDesc = mutex /\ rngDev.wrote[mutex] = 0
RngFilled ==
  /\ RngFetched /\ ~ event /\ rngIsr /\ rngIrq \in {"idle", "signal"}
  /\ rngUsed.index = Inc(rngLast)
  /\ rngUsed.len # 0 /\ rngDev.wrote[mutex] = rngUsed.len
RngSignalled ==
  /\ RngFetched /\ event /\ rngIrq = (IF rngIsr THEN "ack" ELSE "idle")
  /\ rngLast = rngUsed.index
  /\ rngUsed.len # 0 /\ rngDev.wrote[mutex] = rngUsed.len

RngWaits == mutex # Nobody /\ rpc[mutex] = "wait"
RngOneAtATime ==
  IF RngWaits THEN RngAsked \/ RngFilling \/ RngFilled \/ RngSignalled
  ELSE RngFetched /\ NoSignal

RngAnswered ==
  \A r \in Readers :
    /\ rpc[r] \in {"lock", "submit"} => rngDev.wrote[r] = 0
    /\ rpc[r] \in {"unlock", "copy"} => rngDev.wrote[r] # 0 /\ rlen[r] = rngDev.wrote[r]

RngInductive == RngTypeOK /\ RngMutexHeld /\ RngOneAtATime /\ RngAnswered

(* Every read comes back, for every reader, although all share one signal.  *)
RngReadsReturn == \A r \in Readers : rpc[r] = "lock" ~> rpc[r] = "idle"

(* The promise to the callers: each gets the length of what the device      *)
(* wrote for it.                                                            *)
BetweenAskAndAnswer(r) == rpc[r] \in {"lock", "submit", "wait"} /\ rngDev.wrote[r] = 0

Calls == INSTANCE Requests WITH
  Clients <- Readers, Answers <- 1 .. LEN, Failure <- Fail,
  asked <- {r \in Readers : BetweenAskAndAnswer(r)},
  answer <- [r \in Readers |->
               IF rpc[r] # "idle" /\ rngDev.wrote[r] # 0 THEN rngDev.wrote[r] ELSE Fail],
  result <- rret

ImplementsRequests == Calls!RqSpec
=============================================================================
