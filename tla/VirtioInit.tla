----------------------------- MODULE VirtioInit -----------------------------
(***************************************************************************)
(* How the five virtio drivers (drivers/virtio) bring their device up and  *)
(* take it down again: the handshake of virtmmio.c, the resources each     *)
(* driver acquires on the way, and what it gives back when a step fails.   *)
(*                                                                         *)
(* Actors: the task that initialises the driver and, later, releases it,   *)
(* and the device, whose configuration may change while it is being read.  *)
(***************************************************************************)
EXTENDS Integers, Sequences

CONSTANT GENS       \* bound on the changes of the device's configuration

ASSUME InitAssumption == GENS \in Nat

Drivers == {"blk", "rng", "net", "input", "gpu"}

Queues(d) == IF d \in {"blk", "rng"} THEN {0} ELSE {0, 1}

VARIABLES
  drv,        \* the driver
  step,       \* how many of its steps have been taken
  outcome,    \* of the initialisation
  status,     \* the device's Status register
  ready,      \* queues whose QueueReady is 1
  res,        \* resources held
  gen,        \* the device's configuration generation
  before,     \* the generation read before the configuration
  conf,       \* generations of the two fields read
  notified,   \* QueueNotify has been written
  garbage,    \* fields of the driver's memory not written yet that are not 0
  wild        \* what was given back because such a field was taken for it

initVars ==
  <<drv, step, outcome, status, ready, res, gen, before, conf, notified, garbage, wild>>

StatusBits == {"ACK", "DRIVER", "FEATURES_OK", "DRIVER_OK", "FAILED"}
Resources == {"mem", "irq", "event", "mutex", "lock", "timer", "fbmem", "fbdev", "hid", "wq",
              "netdev", "eapol", "cntlr", "mmc", "ops", "urandom"}

-----------------------------------------------------------------------------
(* The steps of each driver, in their order.                               *)

(* HdfVirtblkBind, with VirtblkInitDev from "mem" to "end" *)
BlkSteps == <<"cntlr", "mem", "discover", "begin", "before", "field1", "field2", "after",
              "version1", "featuresOk", "queue0", "event", "irq", "end", "parse", "mmc">>

(* VirtrngInitDev, then VirtrngInit *)
RngSteps == <<"mem", "discover", "begin", "version1", "featuresOk", "queue0",
              "mutex", "event", "irq", "end", "ops", "urandom">>

(* VirtnetInit, then VirtNetDeviceInit *)
NetSteps == <<"mem", "discover", "begin", "before", "field1", "field2", "after",
              "version1", "featuresOk", "queue0", "queue1", "lock", "irq", "end",
              "netdev", "eapol", "publish", "up">>

(* VirtinInitDev, then HdfVirtinInit; the configuration fills the HidInfo *)
InputSteps == <<"mem", "discover", "begin", "version1", "featuresOk", "queue0", "queue1", "irq",
                "before", "field1", "field2", "after", "hid", "wq", "publish", "end">>

(* VirtgpuInitDev, then HdfVirtgpuInit: fb_register (external) calls         *)
(* up_fbinitialize, which sends commands and allocates the frame buffer,     *)
(* and registers /dev/fb0                                                    *)
GpuSteps == <<"mem", "discover", "begin", "version1", "featuresOk", "queue0", "queue1",
              "timer", "end", "publish", "fbmem", "fbdev", "display">>

Steps == [blk |-> BlkSteps, rng |-> RngSteps, net |-> NetSteps,
          input |-> InputSteps, gpu |-> GpuSteps][drv]

Now == Steps[step + 1]

At(s) == outcome = "running" /\ Now = s

Taken(s) == \E i \in 1 .. step : Steps[i] = s

(* Blk, rng and net clear their memory when they get it.  The fields of the  *)
(* other two that tell DeInit what to give back hold whatever was there      *)
(* until they are written: dev.irq and wq.realWorkQueue of input,            *)
(* timer.realTimer and fb of gpu.  VirtmmioDiscover writes dev.irq.          *)
Unwritten(d) == CASE d = "input" -> {"irq", "wq"}
                  [] d = "gpu" -> {"timer", "fbmem"}
                  [] OTHER -> {}
FirstWrite(r) == IF r = "irq" THEN "discover" ELSE r

InitTypeOK ==
  /\ drv \in Drivers
  /\ step \in 0 .. Len(Steps)
  /\ outcome \in {"running", "up", "failed", "gone"}
  /\ status \subseteq StatusBits
  /\ ready \subseteq Queues(drv)
  /\ res \subseteq Resources
  /\ gen \in 0 .. GENS
  /\ before \in 0 .. GENS
  /\ conf \in [1 .. 2 -> 0 .. GENS]
  /\ notified \in BOOLEAN
  /\ garbage \subseteq Unwritten(drv)
  /\ wild \subseteq Unwritten(drv)

(* what an earlier owner left in the Status register is unknown *)
InitInit ==
  /\ drv \in Drivers
  /\ step = 0
  /\ outcome = "running"
  /\ status \in {{}, {"ACK", "DRIVER", "FEATURES_OK", "DRIVER_OK"}}
  /\ ready = {}
  /\ res = {}
  /\ gen = 0
  /\ before = 0
  /\ conf = [i \in 1 .. 2 |-> 0]
  /\ notified = FALSE
  /\ garbage \in SUBSET Unwritten(drv)
  /\ wild = {}

-----------------------------------------------------------------------------
(* Steps that succeed                                                      *)

Advance ==
  /\ step' = step + 1
  /\ outcome' = IF step + 1 = Len(Steps) THEN "up" ELSE "running"
  /\ garbage' = {r \in garbage : FirstWrite(r) # Now}
  /\ UNCHANGED wild

(* memory, interrupt, mutex and whatever else is allocated or registered *)
Acquire(r) ==
  /\ At(r)
  /\ Advance
  /\ res' = res \cup {r}
  /\ UNCHANGED <<drv, status, ready, gen, before, conf, notified>>

(* steps that only look, or whose effect is elsewhere *)
Pass(s) ==
  /\ At(s)
  /\ Advance
  /\ UNCHANGED <<drv, status, ready, res, gen, before, conf, notified>>

(* VirtmmioInitBegin: the reset drops what was left of an earlier use *)
InitBegin ==
  /\ At("begin")
  /\ Advance
  /\ status' = {"ACK", "DRIVER"}
  /\ UNCHANGED <<drv, ready, res, gen, before, conf, notified>>

ReadBefore ==
  /\ At("before")
  /\ Advance
  /\ before' = gen
  /\ UNCHANGED <<drv, status, ready, res, gen, conf, notified>>

ReadConfField(i) ==
  /\ At(IF i = 1 THEN "field1" ELSE "field2")
  /\ Advance
  /\ conf' = [conf EXCEPT ![i] = gen]
  /\ UNCHANGED <<drv, status, ready, res, gen, before, notified>>

(* while (before != after) *)
BugReadAgain ==
  /\ At("after")
  /\ IF before # gen
     THEN Advance
     ELSE step' = step - 3 /\ UNCHANGED <<outcome, garbage, wild>>
  /\ UNCHANGED <<drv, status, ready, res, gen, before, conf, notified>>
ReadAfter ==
  /\ At("after")
  /\ IF before = gen
     THEN Advance
     ELSE step' = step - 3 /\ UNCHANGED <<outcome, garbage, wild>>
  /\ UNCHANGED <<drv, status, ready, res, gen, before, conf, notified>>

FeaturesOk ==
  /\ At("featuresOk")
  /\ Advance
  /\ status' = status \cup {"FEATURES_OK"}
  /\ UNCHANGED <<drv, ready, res, gen, before, conf, notified>>

(* VirtmmioConfigQueue, one queue after the other *)
ConfigQueue(q) ==
  /\ At(IF q = 0 THEN "queue0" ELSE "queue1")
  /\ Advance
  /\ ready' = ready \cup {q}
  /\ UNCHANGED <<drv, status, res, gen, before, conf, notified>>

InitEnd ==
  /\ At("end")
  /\ Advance
  /\ status' = status \cup {"DRIVER_OK"}
  /\ UNCHANGED <<drv, ready, res, gen, before, conf, notified>>

(* the first buffers or requests, with QueueNotify *)
PublishBuffers ==
  /\ At("publish")
  /\ Advance
  /\ notified' = TRUE
  /\ UNCHANGED <<drv, status, ready, res, gen, before, conf>>

Succeed ==
  \/ \E r \in Resources : Acquire(r)
  \/ \E s \in {"discover", "version1", "parse", "up", "display"} : Pass(s)
  \/ InitBegin \/ ReadBefore \/ (\E i \in 1 .. 2 : ReadConfField(i)) \/ ReadAfter
  \/ FeaturesOk \/ (\E q \in Queues(drv) : ConfigQueue(q)) \/ InitEnd \/ PublishBuffers

-----------------------------------------------------------------------------
(* Steps that fail                                                         *)

(* Feature0 checks the configuration of a block or network device *)
CanFail ==
  \/ Now \in (Resources \ {"ops"}) \cup {"discover", "version1", "featuresOk", "queue0", "queue1",
                             "parse", "up", "display"}
  \/ Now = "field1" /\ drv \in {"blk", "net"}
  \/ Now = "publish" /\ drv = "gpu"      \* fb_register, before it comes to the commands

(* after VirtmmioInitBegin and before DRIVER_OK, in XxxInitDev: status FAILED *)
HandshakeFails == Taken("begin") /\ ~ Taken("end") /\ Now \notin {"hid", "wq"}

(* VirtblkDeInit, VirtrngDeInit, VirtinDeInit, VirtgpuDeInit, VirtnetDeInit: *)
(* the interrupt handler where the flag in dev.irq says that there is one,   *)
(* the mutex, the timer and the frame buffer where their pointer is not 0,   *)
(* and the memory.  The spin lock of net and the events of blk and rng are   *)
(* never destroyed.                                                          *)
DeInit(held) == held \ {"mem", "irq", "mutex", "timer", "fbmem"}

(* HdfVirtblkRelease, HdfVirtinRelease, HdfVirtgpuRelease and              *)
(* VirtNetDeviceDeInit.  Nothing takes RandomOperationsInit back, nor what *)
(* fb_register registered: up_fbuninitialize waits for a call of           *)
(* fb_unregister that this driver does not make.                           *)
BugReleased(held) == DeInit(held) \ {"hid", "wq", "netdev", "cntlr", "mmc"}
Released(held) == DeInit(held) \ {"hid", "wq", "netdev", "eapol", "cntlr", "mmc"}

(* Who cleans up: XxxInitDev itself, HdfVirtblkBind and VirtrngInit through *)
(* their own release, VirtNetDeviceInit for all but NetIfSetStatus; but     *)
(* VirtnetInit, HdfVirtinInit and HdfVirtgpuInit leave it to a release.     *)
CleansUp ==
  CASE drv \in {"blk", "rng"} -> TRUE
    [] drv = "net" -> Now \in {"netdev", "eapol"}
    [] drv = "input" -> Now \notin {"hid", "wq"}
    [] drv = "gpu" -> ~ Taken("end")

(* DeInit takes a field nobody wrote for a resource unless it is 0.  The    *)
(* pointer to the frame buffer is written even when there is no memory for *)
(* it; whether a call that fails writes its field otherwise is not known,  *)
(* and the field may have been 0.                                          *)
InitFail ==
  /\ outcome = "running"
  /\ CanFail
  /\ outcome' = "failed"
  /\ status' = IF HandshakeFails THEN status \cup {"FAILED"} ELSE status
  /\ res' = IF ~ CleansUp THEN res
            ELSE IF drv = "blk" THEN Released(res)
            ELSE DeInit(res)
  /\ garbage' = garbage \ (IF Now = "fbmem" THEN {"fbmem"} ELSE {})
  /\ wild' = IF CleansUp /\ Taken("mem") THEN garbage \ {"wq"} ELSE {}
  /\ UNCHANGED <<drv, step, ready, gen, before, conf, notified>>

-----------------------------------------------------------------------------
(* external: HDF releases a driver that is up and one whose Init failed,    *)
(* but not one whose Bind failed ("so we must call release manually"); the  *)
(* random number generator is never released.  Input and gpu look for their *)
(* memory in device->priv, which is set once XxxInitDev is through.         *)
Release ==
  /\ \/ outcome = "up" /\ drv # "rng"
     \/ outcome = "failed" /\ drv \in {"net", "input", "gpu"}
  /\ outcome' = "gone"
  /\ res' = Released(res)
  /\ wild' = wild \cup (IF "mem" \in res THEN garbage ELSE {})
  /\ UNCHANGED <<drv, step, status, ready, gen, before, conf, notified, garbage>>

(* external: the device changes its configuration and its generation *)
ChangeConfig ==
  /\ gen < GENS
  /\ gen' = gen + 1
  /\ UNCHANGED <<drv, step, outcome, status, ready, res, before, conf, notified,
                 garbage, wild>>

InitNext == Succeed \/ InitFail \/ Release \/ ChangeConfig

InitSpec == InitInit /\ [][InitNext]_initVars

(* The initialisation goes on as long as no device resets its configuration *)
(* for ever, which GENS bounds.                                             *)
InitFairSpec == InitSpec /\ WF_initVars(Succeed)

-----------------------------------------------------------------------------
(* The device is told to start, or that there are buffers for it, only with *)
(* its features agreed upon, all of the driver's queues ready, and never    *)
(* after a failed handshake.  Nothing of that survives from an earlier user *)
(* of the transport.  (virtinput.c notifies the device before DRIVER_OK.)   *)
InitHandshakeInOrder ==
  Taken("begin") /\ ("DRIVER_OK" \in status \/ notified)
    => "FEATURES_OK" \in status /\ ready = Queues(drv) /\ "FAILED" \notin status

(* The two parts of the configuration come from one generation, although    *)
(* the device may change it between any two reads.                          *)
InitConfigConsistent == Taken("after") => conf[1] = conf[2]

(* Whatever may call into the driver finds the memory it works on, on every *)
(* path but three: the random operations, when /dev/urandom cannot be       *)
(* registered, find g_virtRng gone; /dev/fb0 outlives the release of the    *)
(* GPU; and a NetDevice whose EAPOL data cannot be had stays without its    *)
(* private data until it is released.  (VirtrngInit, virtrng.c:250)         *)
Callbacks == {"irq", "timer", "wq", "ops", "fbdev", "netdev", "mmc"}
Orphans ==
  {r \in Callbacks :
     /\ Taken(r)
     /\ \/ drv = "rng" /\ outcome = "failed" /\ r = "ops"
        \/ drv = "gpu" /\ outcome = "gone" /\ r = "fbdev"
        \/ drv = "net" /\ outcome = "failed" /\ r = "netdev"}
InitCallbacksHaveMemory == "mem" \notin res => res \cap Callbacks = Orphans

(* Whatever step fails, once the driver is through with it -- at once for a *)
(* block device or random number generator, after the release for the       *)
(* others -- these stay behind, and nothing else: the spin lock, the        *)
(* events, the random operations and /dev/fb0.  (VirtnetDeInit,             *)
(* virtnet.c:412)                                                           *)
InitNothingLeaks ==
  (outcome = "gone" \/ (outcome = "failed" /\ drv \in {"blk", "rng"}))
    => res = {r \in {"lock", "event", "ops", "fbdev"} : Taken(r)}

(* What is given back was acquired, but for the drivers that do not clear   *)
(* their memory and fail before the field is written: an input device that  *)
(* is not found, or released after it failed before its work queue; a GPU   *)
(* that fails before its timer or its frame buffer.  (VirtinDeInit,         *)
(* virtinput.c:301; VirtgpuDeInit, virtgpu.c:492)                           *)
InitGivesBackItsOwn ==
  /\ wild # {} => drv \in {"input", "gpu"} /\ outcome \in {"failed", "gone"}
  /\ \A r \in wild : ~ Taken(FirstWrite(r))

(* The handshake, the configuration, and what is acquired and given back in *)
(* every order of failures.  (VirtnetInit, virtnet.c:381, and its likes)    *)
InitInvariant ==
  /\ InitTypeOK
  /\ InitHandshakeInOrder
  /\ InitConfigConsistent
  /\ InitCallbacksHaveMemory
  /\ InitNothingLeaks
  /\ InitGivesBackItsOwn

(* The initialisation comes to an end: the retries of a changed             *)
(* configuration do not go on for ever.                                     *)
InitComesToAnEnd == (step > 0) ~> (outcome # "running")
=============================================================================
