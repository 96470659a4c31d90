------------------------------ MODULE FbDisplay ------------------------------
(***************************************************************************)
(* The frame buffer of the riscv32_virt board (LiteOS-M), from the GPU      *)
(* driver that owns its memory to the layer an application draws on:       *)
(* board/driver/virtgpu.c, video/fb.c, fb_mem.c and key_cache.c, and       *)
(* board/hardware/display/display_layer.c.  Sizes are left out.            *)
(*                                                                         *)
(* Actors: the task of the framework that initialises and releases the     *)
(* driver, the one that calls the layer, the refresh timer.                *)
(***************************************************************************)
VARIABLES
  gpu,          \* how far HdfVirtgpuInit or Release is; the timer; whether
                \* g_virtGpu->fb and g_fb_dev[0] are set
  registry,     \* "/dev/fb0" is in the key cache
  layer,        \* LayerPrivate: fd is valid; what fb_open and the ioctl left
                \* there; layerAddr
  opening,      \* CreateLayer has found the name and goes on
  heap,         \* what is allocated
  bad,          \* what was used or freed when it was not
  fbHistory     \* a layer was closed; the driver was released under one

fbVars == <<gpu, registry, layer, opening, heap, bad, fbHistory>>

Closed == [fd |-> FALSE, mem |-> FALSE, addr |-> FALSE, buffer |-> FALSE]

FbInit ==
  /\ gpu = [at |-> "off", timer |-> "none", fb |-> FALSE, dev |-> FALSE]
  /\ registry = FALSE
  /\ layer = Closed
  /\ opening = FALSE
  /\ heap = {}
  /\ bad = {}
  /\ fbHistory = {}

(* memory is used, or freed, rightly or not *)
Uses(S) == bad' = bad \cup (S \ heap)
Frees(S) == heap' = heap \ S /\ Uses(S)

----------------------------------------------------------------------------
(* HdfVirtgpuInit.  Once VirtgpuInitDev is through, a failure leaves all    *)
(* there is to the release.                                                 *)
VirtgpuInitDev ==
  /\ gpu.at = "off"
  /\ \/ gpu' = [gpu EXCEPT !.at = "gone"] /\ UNCHANGED heap
     \/ gpu' = [gpu EXCEPT !.at = "register", !.timer = "made"] /\ heap' = heap \cup {"gpu"}
  /\ UNCHANGED <<registry, layer, opening, bad, fbHistory>>

(* fb_register with up_fbinitialize: memory for the frame buffer, then the  *)
(* commands that make it the screen; only the chardev goes when they fail   *)
fb_register ==
  /\ gpu.at = "register"
  /\ \/ gpu' = [gpu EXCEPT !.at = "failed"] /\ UNCHANGED heap
     \/ gpu' = [gpu EXCEPT !.at = "failed", !.fb = TRUE] /\ heap' = heap \cup {"fb"}
     \/ gpu' = [gpu EXCEPT !.at = "driver", !.fb = TRUE] /\ heap' = heap \cup {"fb", "chardev"}
  /\ UNCHANGED <<registry, layer, opening, bad, fbHistory>>

(* No memory for the fb_mem gives LOS_NOK, which is not negative, and none   *)
(* for the key is not looked at: both count as success.                      *)
register_driver ==
  /\ gpu.at = "driver"
  /\ gpu' = [gpu EXCEPT !.at = "begin", !.dev = TRUE]
  /\ \/ UNCHANGED <<registry, heap>>
     \/ heap' = heap \cup {"fbmem"} /\ UNCHANGED registry
     \/ heap' = heap \cup {"fbmem", "key"} /\ registry' = TRUE
  /\ UNCHANGED <<layer, opening, bad, fbHistory>>

VirtgpuBeginNormDisplay ==
  /\ gpu.at = "begin"
  /\ \/ gpu' = [gpu EXCEPT !.at = "failed"]
     \/ gpu' = [gpu EXCEPT !.at = "up", !.timer = "runs"]
  /\ UNCHANGED <<registry, layer, opening, heap, bad, fbHistory>>

(* the requests are in the driver's memory; the device copies the frame buffer *)
NormOpsRefresh ==
  /\ gpu.timer = "runs"
  /\ Uses({"gpu", "fb"})
  /\ UNCHANGED <<gpu, registry, layer, opening, heap, fbHistory>>

(* HdfVirtgpuRelease is fb_unregister: the name, then the driver, then the  *)
(* chardev.  (external: the framework releases a driver whose Init failed   *)
(* too, unless Init has left it no device->priv)                            *)
unregister_driver ==
  /\ gpu.at \in {"failed", "up"}
  /\ gpu' = [gpu EXCEPT !.at = "uninit"]
  /\ IF registry THEN Frees({"fbmem", "key"}) ELSE UNCHANGED <<heap, bad>>
  /\ registry' = FALSE
  /\ fbHistory' = IF layer.mem \/ opening THEN fbHistory \cup {"under"} ELSE fbHistory
  /\ UNCHANGED <<layer, opening>>

(* VirtgpuDeInit: the timer first *)
DeInit == IF gpu.fb THEN {"gpu", "fb"} ELSE {"gpu"}

up_fbuninitialize ==
  /\ gpu.at = "uninit"
  /\ gpu' = [gpu EXCEPT !.at = "free", !.timer = "none", !.fb = FALSE]
  /\ Frees(DeInit)
  /\ UNCHANGED <<registry, layer, opening, fbHistory>>

FreeDev ==
  /\ gpu.at = "free"
  /\ gpu' = [gpu EXCEPT !.at = "gone", !.dev = FALSE]
  /\ Frees(IF gpu.dev THEN {"chardev"} ELSE {})
  /\ UNCHANGED <<registry, layer, opening, fbHistory>>

----------------------------------------------------------------------------
(* The layer.  fb_open looks the name up under the mutex and uses what it   *)
(* found after it; without the name only the descriptor becomes invalid.    *)
fb_open ==
  /\ ~opening
  /\ opening' = registry
  /\ layer' = [layer EXCEPT !.fd = registry]
  /\ UNCHANGED <<gpu, registry, heap, bad, fbHistory>>

(* the rest of CreateLayer: the address by FIOC_MMAP, and the background *)
CreateLayer ==
  /\ opening
  /\ opening' = FALSE
  /\ Uses({"fbmem", "chardev", "fb"})
  /\ layer' = [layer EXCEPT !.mem = TRUE, !.addr = TRUE]
  /\ UNCHANGED <<gpu, registry, heap, fbHistory>>

(* it frees the frame buffer of the driver, whose address it was given *)
CloseLayer ==
  /\ ~opening
  /\ Frees((IF layer.buffer THEN {"buffer"} ELSE {}) \cup (IF layer.addr THEN {"fb"} ELSE {}))
  /\ layer' = Closed
  /\ fbHistory' = IF layer.addr THEN fbHistory \cup {"closed"} ELSE fbHistory
  /\ UNCHANGED <<gpu, registry, opening>>

Flush ==
  /\ ~opening
  /\ layer.addr
  /\ Uses({"fb"})
  /\ UNCHANGED <<gpu, registry, layer, opening, heap, fbHistory>>

(* the buffer that layerAddr was the address of is lost *)
GetLayerBuffer ==
  /\ ~opening
  /\ layer.fd /\ layer.mem
  /\ layer' = [layer EXCEPT !.buffer = TRUE]
  /\ heap' = heap \cup {"buffer"}
  /\ UNCHANGED <<gpu, registry, opening, bad, fbHistory>>

FbNext ==
  \/ VirtgpuInitDev \/ fb_register \/ register_driver \/ VirtgpuBeginNormDisplay
  \/ NormOpsRefresh
  \/ unregister_driver \/ up_fbuninitialize \/ FreeDev
  \/ fb_open \/ CreateLayer \/ CloseLayer \/ Flush \/ GetLayerBuffer

----------------------------------------------------------------------------
(* Nothing is used or freed that is not allocated, whatever failed on the   *)
(* way and however the calls of the layer, the timer and the release fall   *)
(* together, as long as no layer is closed and none is open or just being   *)
(* opened when the driver goes.  (CloseLayer, display_layer.c:126; fb_open, *)
(* fb.c:73)                                                                 *)
MemoryIsAllocated == fbHistory = {} => bad = {}

(* What the name leads to is there while the name is, and the timer goes    *)
(* before what it works on.  (fb_unregister, fb.c:447)                      *)
NameLeadsToDevice ==
  /\ registry => {"key", "fbmem", "chardev"} \subseteq heap
  /\ gpu.timer = "runs" => "gpu" \in heap

(* Nothing but an fb_mem that never got its name outlasts the release.      *)
(* (HdfVirtgpuRelease, virtgpu.c:595)                                       *)
ReleaseFreesAll == gpu.at = "gone" => heap \subseteq {"fbmem", "buffer"}

FbInvariant == MemoryIsAllocated /\ NameLeadsToDevice /\ ReleaseFreesAll
=============================================================================
