------------------------------ MODULE RvDevices ------------------------------
(***************************************************************************)
(* How the virtio drivers of the riscv32_virt board (LiteOS-M) bring their *)
(* device up and take it down: board/driver/virtmmio.c, and what           *)
(* virtnet.c, virtgpu.c and virtinput.c acquire on the way and give back   *)
(* when a step fails or the driver is released.  (FbDisplay goes on where  *)
(* the GPU's steps end here.)                                              *)
(*                                                                         *)
(* Actors: the task that initialises the driver, the device, whose         *)
(* configuration may change while it is read, and the framework.           *)
(***************************************************************************)
EXTENDS Integers, Sequences

CONSTANT MaxGen     \* bound: changes of the configuration

VARIABLES
  dv,           \* the driver
  step,         \* how many of its steps have been taken
  stage,        \* of the initialisation
  dvStatus,     \* the device's Status
  dvReady,      \* the queues that are ready
  held,         \* what is allocated or registered
  aligned,      \* the memory for net's queues is where VirtqDesc may begin
  seen,         \* generations: of the device, before, and of two fields read
  told,         \* QueueNotify was written
  badFree       \* memory was freed that was not allocated so, or not any more

dvVars == <<dv, step, stage, dvStatus, dvReady, held, aligned, seen, told, badFree>>

(* The steps of each driver, in their order, the configuration being read    *)
(* between two reads of its generation: EthernetIfInit and LowLevelInit,     *)
NetSteps ==
  <<"netif", "mem", "discover", "begin", "before", "field1", "field2", "after", "version1",
    "featuresOk", "queues", "queue0", "queue1", "rbufRec", "tbufRec", "param", "irq", "end",
    "tell">>

(* VirtinInitDev and HdfVirtinInit,                                          *)
InputSteps ==
  <<"mem", "discover", "begin", "version1", "featuresOk", "queue0", "queue1", "param", "irq",
    "before", "field1", "field2", "after", "hid", "sem", "task", "tell", "end">>

(* and VirtgpuInitDev.                                                       *)
GpuSteps ==
  <<"mem", "discover", "begin", "version1", "featuresOk", "queue0", "queue1", "timer", "end">>

Steps == [net |-> NetSteps, input |-> InputSteps, gpu |-> GpuSteps][dv]

Kinds == {"netif", "mem", "queues", "rbufRec", "tbufRec", "param", "irq", "hid", "sem", "task", "timer"}

DvInit ==
  /\ dv \in {"net", "input", "gpu"}
  /\ step = 0
  /\ stage = "running"
  /\ dvStatus \in {{}, {"ACK", "DRIVER", "FEATURES_OK", "DRIVER_OK"}}
  /\ dvReady = {}
  /\ held = {}
  /\ aligned \in BOOLEAN
  /\ seen = [gen |-> 0, before |-> 0, field1 |-> 0, field2 |-> 0]
  /\ told = FALSE
  /\ badFree = FALSE

Now == Steps[step + 1]
Ahead(s) == \E i \in step + 1 .. Len(Steps) : Steps[i] = s

Advance ==
  /\ step' = step + 1
  /\ stage' = IF step + 1 = Len(Steps) THEN "up" ELSE "running"
  /\ UNCHANGED <<dv, aligned, badFree>>

----------------------------------------------------------------------------
Acquire ==
  /\ Now \in Kinds
  /\ Advance
  /\ held' = held \cup {Now}
  /\ UNCHANGED <<dvStatus, dvReady, seen, told>>

(* VirtmmioInitBegin, Negotiate, VritmmioInitEnd *)
WriteStatus ==
  /\ Now \in {"begin", "featuresOk", "end"}
  /\ Advance
  /\ dvStatus' = CASE Now = "begin" -> {"ACK", "DRIVER"}
                   [] Now = "featuresOk" -> dvStatus \cup {"FEATURES_OK"}
                   [] Now = "end" -> dvStatus \cup {"DRIVER_OK"}
  /\ UNCHANGED <<dvReady, held, seen, told>>

(* CompleteConfigQueue *)
ConfigQueue ==
  /\ Now \in {"queue0", "queue1"}
  /\ Advance
  /\ dvReady' = dvReady \cup {Now}
  /\ UNCHANGED <<dvStatus, held, seen, told>>

Look ==
  /\ Now \in {"discover", "version1"}
  /\ Advance
  /\ UNCHANGED <<dvStatus, dvReady, held, seen, told>>

(* Feature0 of the network device, VirtinFillHidInfo of the input device *)
ReadField ==
  /\ Now \in {"before", "field1", "field2"}
  /\ Advance
  /\ seen' = [seen EXCEPT ![Now] = seen.gen]
  /\ UNCHANGED <<dvStatus, dvReady, held, told>>

(* while (before != after) *)
ReadAgain ==
  /\ Now = "after"
  /\ IF seen.before = seen.gen THEN Advance
     ELSE step' = step - 3 /\ UNCHANGED <<dv, stage, aligned, badFree>>
  /\ UNCHANGED <<dvStatus, dvReady, held, seen, told>>

Tell ==
  /\ Now = "tell"
  /\ Advance
  /\ told' = TRUE
  /\ UNCHANGED <<dvStatus, dvReady, held, seen>>

Succeeds == Acquire \/ WriteStatus \/ ConfigQueue \/ Look \/ ReadField \/ ReadAgain \/ Tell

----------------------------------------------------------------------------
(* VirtnetDeInit looks at a flag of dev.irq that VirtmmioRegisterIRQ of this *)
(* board does not set.  It frees vq[0].desc, which CalculateQueueAddr sets   *)
(* before the device may refuse the queue: that is the queues' memory only   *)
(* when its start needed no alignment (BadDesc), and else an address that    *)
(* was never allocated.  Nobody frees the parameter of the interrupt.        *)
BugDeInit ==
  CASE dv = "net" -> held \ {"netif", "mem", "rbufRec", "tbufRec", IF aligned THEN "queues" ELSE ""}
    [] dv = "input" -> held \ {"mem", "sem", "task"}
    [] dv = "gpu" -> held \ {"mem", "timer"}
DeInit ==
  CASE dv = "net" -> held \ {"netif", "mem", "rbufRec", "tbufRec", IF aligned THEN "queues" ELSE ""}
    [] dv = "input" -> held \ {"mem", "sem", "task", "irq"}
    [] dv = "gpu" -> held \ {"mem", "timer"}

BadDesc == dv = "net" /\ "queues" \in held /\ ~aligned

(* a queue may be refused for its size, the features by the device *)
CanFail ==
  \/ Now \in Kinds \ {"param"}
  \/ Now \in {"discover", "version1", "featuresOk", "queue0", "queue1", "field1"}

(* A failure before DRIVER_OK is told to the device, but for those of what   *)
(* HdfVirtinInit does itself; a failure of the IRQ leaves its parameter.     *)
Fail ==
  /\ CanFail
  /\ stage' = "failed"
  /\ dvStatus' = IF Ahead("begin") \/ Now = "begin" \/ (dv = "input" /\ ~Ahead("irq") /\ Now # "irq")
                 THEN dvStatus ELSE dvStatus \cup {"FAILED"}
  /\ held' = DeInit
  /\ badFree' = BadDesc
  /\ UNCHANGED <<dv, step, dvReady, aligned, seen, told>>

(* VirtmmioRegisterIRQ writes its parameter without a look at what           *)
(* mem_calloc returned: without memory the board stops here, with the device *)
(* half started and nothing given back.                                      *)
Crash ==
  /\ Now = "param"
  /\ stage' = "crashed"
  /\ UNCHANGED <<dv, step, dvStatus, dvReady, held, aligned, seen, told, badFree>>

(* external: the framework releases the input driver, up or not; its priv is *)
(* set as soon as VirtinInitDev is through, and stays when the rest fails.   *)
(* Nothing releases the network driver; for the GPU see FbDisplay.           *)
HdfVirtinRelease ==
  /\ dv = "input"
  /\ stage = "up" \/ (stage = "failed" /\ ~Ahead("irq"))
  /\ stage' = "gone"
  /\ badFree' = ("mem" \notin held)
  /\ held' = DeInit \ {"hid"}
  /\ UNCHANGED <<dv, step, dvStatus, dvReady, aligned, seen, told>>

ChangeConfig ==
  /\ seen.gen < MaxGen
  /\ seen' = [seen EXCEPT !.gen = @ + 1]
  /\ UNCHANGED <<dv, step, stage, dvStatus, dvReady, held, aligned, told, badFree>>

DvNext ==
  \/ stage = "running" /\ (Succeeds \/ Fail \/ Crash)
  \/ HdfVirtinRelease
  \/ ChangeConfig

----------------------------------------------------------------------------
(* A device works, or is notified, only with its features agreed upon and    *)
(* its queues ready, whatever its last owner left.  (VirtmmioConfigQueue,    *)
(* virtmmio.c:184)                                                           *)
HandshakeInOrder ==
  ~Ahead("begin") /\ ("DRIVER_OK" \in dvStatus \/ told) =>
    "FEATURES_OK" \in dvStatus /\ dvReady = {"queue0", "queue1"} /\ "FAILED" \notin dvStatus

(* What was read of the configuration is of one generation.  (Negotiate,     *)
(* virtmmio.c:88)                                                            *)
ConfigIsConsistent ==
  ~Ahead("after") /\ stage = "up" => seen.field1 = seen.field2

(* Whatever can still call into the driver finds its memory: the interrupt   *)
(* although net never takes it back, since nothing fails after it.           *)
(* (VirtnetDeInit, virtnet.c:547)                                            *)
CallbacksHaveMemory == held \cap {"irq", "task", "timer"} # {} => "mem" \in held

(* After a failure or the release nothing is left but the parameter of the   *)
(* interrupt, the queues of net when they were moved to be aligned, and the  *)
(* input device of an Init that failed late.  (VirtnetDeInit, virtnet.c:547) *)
LeftOver ==
  stage \in {"failed", "gone"} =>
    held \subseteq {"param"} \cup (IF aligned THEN {} ELSE {"queues"})
                   \cup (IF stage = "failed" /\ ~Ahead("hid") THEN {"hid"} ELSE {})

(* Memory is freed as it was allocated, once: but for an Init of the input   *)
(* device that failed late and is released, and for net's queues when they   *)
(* were moved and a later step failed.  (HdfVirtinInit, virtinput.c:379)     *)
FreesAreGood ==
  badFree => \/ dv = "input" /\ stage = "gone" /\ Ahead("end")
             \/ dv = "net" /\ stage = "failed" /\ "queues" \in held /\ ~aligned

(* The board stops only in the registration of an interrupt, and then the    *)
(* device has not been told.  (VirtmmioRegisterIRQ, virtmmio.c:201)          *)
CrashesInRegistration ==
  stage = "crashed" =>
    ~Ahead("featuresOk") /\ Ahead("irq") /\ {"FAILED", "DRIVER_OK"} \cap dvStatus = {}

DvInvariant == /\ HandshakeInOrder /\ ConfigIsConsistent /\ CallbacksHaveMemory
               /\ LeftOver /\ FreesAreGood /\ CrashesInRegistration
=============================================================================
