-------------------------------- MODULE Gbm --------------------------------
(***************************************************************************)
(* The gralloc of common/virt_full (display_gralloc_gbm.cpp, hi_gbm.cpp):  *)
(* buffers of the DRM device, each a handle that holds a file descriptor   *)
(* and an address.  The device is opened and closed under a lock and a     *)
(* count by the vdi objects; the calls on a handle take no lock.           *)
(***************************************************************************)
EXTENDS Integers, FiniteSets

CONSTANTS
  Users,        \* vdi objects of one process, each with a thread of its own
  MaxHandles,   \* how many buffers are asked for
  Addrs         \* where the kernel maps

Handles == 1..MaxHandles
Unmapped == 0

VARIABLES
  user,      \* per user: not made yet, initialised, its Init failed, or gone
  manager,   \* g_grallocManager: whether it is there, gbmDevice, referCount
  drmFds,    \* how often the DRM device is open
  handle,    \* per handle: whether it lives, whether its fd is open, virAddr
  bo,        \* per handle, what asking for it left of a gbm_bo: "struct", "gem" (dumb buffer)
  mapped,    \* per address, the handle whose buffer is mapped there, or Unmapped
  call,      \* per user, the call it is in
  crashed,   \* AllocMem has followed the null gbmDevice
  overlap,   \* handles on which two calls were under way together
  struck     \* handles whose mapping an munmap of another handle has removed

gbmVars == <<user, manager, drmFds, handle, bo, mapped, call, crashed, overlap, struck>>

Null == "null"
MAP_FAILED == "failed"
NoManager == [made |-> FALSE, device |-> FALSE, referCount |-> 0]
NoCall == [at |-> "idle", on |-> Unmapped, addr |-> Null, free |-> FALSE]

GbmTypeOK ==
  /\ user \in [Users -> {"none", "up", "failed", "gone", "failedGone"}]
  /\ manager \in [made: BOOLEAN, device: BOOLEAN,
                  referCount: -Cardinality(Users)..Cardinality(Users)]
  /\ drmFds \in Nat
  /\ handle \in [Handles -> [at: {"unused", "failed", "live", "freed"}, fd: BOOLEAN,
                             virAddr: Addrs \union {Null, MAP_FAILED}]]
  /\ bo \in [Handles -> SUBSET {"struct", "gem"}]
  /\ mapped \in [Addrs -> Handles \union {Unmapped}]
  /\ call \in [Users -> [at: {"idle", "mmap", "stored", "munmap", "cleared", "close"},
                         on: Handles \union {Unmapped},
                         addr: Addrs \union {Null, MAP_FAILED}, free: BOOLEAN]]
  /\ crashed \in {"no", "failed", "up"}
  /\ overlap \subseteq Handles /\ struck \subseteq Handles

NoHandles ==
  /\ handle = [h \in Handles |-> [at |-> "unused", fd |-> FALSE, virAddr |-> Null]]
  /\ bo = [h \in Handles |-> {}]
  /\ mapped = [a \in Addrs |-> Unmapped]
  /\ call = [u \in Users |-> NoCall]
  /\ crashed = "no" /\ overlap = {} /\ struck = {}

GbmInit ==
  /\ user = [u \in Users |-> "none"]
  /\ manager = NoManager /\ drmFds = 0
  /\ NoHandles

handleVars == <<handle, bo, mapped, call, overlap, struck>>

----------------------------------------------------------------------------
(* what a buffer is made of *)

(* pixel formats of the interface, and what the DRM device is asked for *)
ConvertFormatToDrm(f) ==
  CASE f \in {"RGBX_8888", "RGBA_8888", "BGRX_8888", "BGRA_8888"} -> "XRGB8888"
    [] f = "RGB_888" -> "RGB888" [] f = "BGR_565" -> "RGB565"
    [] f \in {"BGRX_4444", "BGRA_4444", "RGBA_4444", "RGBX_4444", "BGRX_5551", "BGRA_5551"}
         -> "packed16"
    [] f = "YCBCR_420_SP" -> "NV12" [] f = "YCRCB_420_SP" -> "NV21"
    [] f = "YCBCR_420_P" -> "YUV420" [] f = "YCRCB_420_P" -> "YVU420"
    [] f = "YCBCR_422_SP" -> "NV16" [] f = "YCRCB_422_SP" -> "NV61"
    [] f = "YCBCR_422_P" -> "YUV422" [] f = "YCRCB_422_P" -> "YVU422"
    [] OTHER -> "INVALID_PIXEL_FMT"

(* bits of a pixel of the first plane, and the planes in quarters of it *)
GetFormatInfo(drm) ==
  CASE drm = "XRGB8888" -> [bits |-> 32, quarters |-> 4]
    [] drm = "RGB888" -> [bits |-> 24, quarters |-> 4]
    [] drm \in {"RGB565", "packed16"} -> [bits |-> 16, quarters |-> 4]
    [] drm \in {"NV12", "NV21", "YUV420", "YVU420"} -> [bits |-> 8, quarters |-> 6]
    [] drm \in {"NV16", "NV61", "YUV422", "YVU422"} -> [bits |-> 8, quarters |-> 8]
    [] OTHER -> [bits |-> 0, quarters |-> 0]

AlignUp(x, a) == ((x + a - 1) \div a) * a
AdjustStrideFromFormat(drm, height) == AlignUp(height * GetFormatInfo(drm).quarters, 4) \div 4

(* DRM_IOCTL_MODE_CREATE_DUMB with these gives at least as many bytes *)
DumbBytes(f, width, height) ==
  LET drm == ConvertFormatToDrm(f)
  IN (AlignUp(width, 8) * GetFormatInfo(drm).bits * AlignUp(AdjustStrideFromFormat(drm, height), 2))
       \div 8

----------------------------------------------------------------------------
(* the count *)

GetGrallocManager == IF manager.made THEN manager ELSE [NoManager EXCEPT !.made = TRUE]

(* without a device it is opened, which may fail and leaves the manager *)
GbmGrallocInitialize(u) ==
  /\ crashed = "no" /\ user[u] = "none"
  /\ LET m == GetGrallocManager
     IN \/ /\ user' = [user EXCEPT ![u] = "up"]
           /\ manager' = [m EXCEPT !.device = TRUE, !.referCount = @ + 1]
           /\ drmFds' = IF m.device THEN drmFds ELSE drmFds + 1
        \/ /\ ~ m.device
           /\ user' = [user EXCEPT ![u] = "failed"]
           /\ manager' = m
           /\ UNCHANGED drmFds
  /\ UNCHANGED <<handleVars, crashed>>

(* the destructor calls it whether or not the constructor's Init failed *)
GbmGrallocUninitialize(u) ==
  /\ crashed = "no" /\ user[u] \in {"up", "failed"} /\ call[u].at = "idle"
  /\ user' = [user EXCEPT ![u] = IF @ = "up" THEN "gone" ELSE "failedGone"]
  /\ LET m == [GetGrallocManager EXCEPT !.referCount = @ - 1]
     IN IF m.referCount < 0
        THEN manager' = NoManager /\ drmFds' = IF m.device THEN drmFds - 1 ELSE drmFds
        ELSE manager' = m /\ UNCHANGED drmFds
  /\ UNCHANGED <<handleVars, crashed>>

----------------------------------------------------------------------------
(* GbmAllocMem, under the lock *)

NextHandle(h) ==
  handle[h].at = "unused" /\ \A g \in 1..(h - 1) : handle[g].at # "unused"

(* DRM_IOCTL_MODE_DESTROY_DUMB may fail: then nothing is freed *)
Destroyed == {{}, {"struct", "gem"}}

GbmAllocMem(u) ==
  /\ crashed = "no" /\ user[u] \in {"up", "failed"} /\ call[u].at = "idle"
  /\ \E h \in Handles :
       /\ NextHandle(h)
       /\ IF ~ GetGrallocManager.device
          THEN crashed' = user[u] /\ UNCHANGED <<handle, bo>>
          ELSE /\ UNCHANGED crashed
               /\ \/ \E left \in Destroyed :      \* the bo goes, the fd keeps its buffer
                       /\ handle' = [handle EXCEPT ![h].at = "live", ![h].fd = TRUE]
                       /\ bo' = [bo EXCEPT ![h] = left]
                  \/ \E left \in Destroyed \union {{"struct"}} :   \* no buffer, or no fd
                       /\ handle' = [handle EXCEPT ![h].at = "failed"]
                       /\ bo' = [bo EXCEPT ![h] = left]
  /\ manager' = GetGrallocManager
  /\ UNCHANGED <<user, drmFds, mapped, call, overlap, struck>>

----------------------------------------------------------------------------
(* the calls on a handle, which any thread may make *)

Calls(h) == {u \in Users : call[u].on = h}
Freeing(h) == \E u \in Calls(h) : call[u].free

Starts(u, h, c) ==
  /\ crashed = "no" /\ user[u] \in {"up", "failed"} /\ call[u].at = "idle"
  /\ handle[h].at = "live" /\ ~ Freeing(h)
  /\ call' = [call EXCEPT ![u] = c]
  /\ overlap' = IF Calls(h) # {} THEN overlap \union {h} ELSE overlap

Goes(u, at) == crashed = "no" /\ call[u].at = at
Return(u) == call' = [call EXCEPT ![u] = NoCall]

(* nothing to do for a handle that has an address, MAP_FAILED being one *)
GbmMmap(u) ==
  /\ \E h \in Handles :
       /\ handle[h].virAddr = Null
       /\ Starts(u, h, [NoCall EXCEPT !.at = "mmap", !.on = h])
  /\ UNCHANGED <<user, manager, drmFds, handle, bo, mapped, crashed, struck>>

Map(u) ==
  /\ Goes(u, "mmap")
  /\ \/ \E a \in Addrs :
          /\ mapped[a] = Unmapped
          /\ mapped' = [mapped EXCEPT ![a] = call[u].on]
          /\ call' = [call EXCEPT ![u].at = "stored", ![u].addr = a]
     \/ call' = [call EXCEPT ![u].at = "stored", ![u].addr = MAP_FAILED] /\ UNCHANGED mapped
  /\ UNCHANGED <<user, manager, drmFds, handle, bo, crashed, overlap, struck>>

StoreAddr(u) ==
  /\ Goes(u, "stored")
  /\ handle' = [handle EXCEPT ![call[u].on].virAddr = call[u].addr]
  /\ Return(u)
  /\ UNCHANGED <<user, manager, drmFds, bo, mapped, crashed, overlap, struck>>

GbmUnmap(u) ==
  /\ \E h \in Handles :
       /\ handle[h].virAddr # Null
       /\ Starts(u, h, [NoCall EXCEPT !.at = "munmap", !.on = h])
  /\ UNCHANGED <<user, manager, drmFds, handle, bo, mapped, crashed, struck>>

(* the address is read again; MAP_FAILED is refused, a null one is not *)
Munmap(u) ==
  LET h == call[u].on
      a == handle[h].virAddr
      after == IF call[u].free THEN [call[u] EXCEPT !.at = "close"] ELSE NoCall
  IN /\ Goes(u, "munmap")
     /\ IF a = MAP_FAILED
        THEN call' = [call EXCEPT ![u] = after] /\ UNCHANGED <<mapped, struck>>
        ELSE /\ call' = [call EXCEPT ![u].at = "cleared"]
             /\ mapped' = IF a = Null THEN mapped ELSE [mapped EXCEPT ![a] = Unmapped]
             /\ struck' = IF a = Null THEN struck
                          ELSE struck \union ({mapped[a]} \ {Unmapped, h})
     /\ UNCHANGED <<user, manager, drmFds, handle, bo, crashed, overlap>>

ClearAddr(u) ==
  /\ Goes(u, "cleared")
  /\ handle' = [handle EXCEPT ![call[u].on].virAddr = Null]
  /\ call' = [call EXCEPT ![u] = IF @.free THEN [@ EXCEPT !.at = "close"] ELSE NoCall]
  /\ UNCHANGED <<user, manager, drmFds, bo, mapped, crashed, overlap, struck>>

(* the caller's last use of the handle *)
GbmFreeMem(u) ==
  /\ \E h \in Handles :
       /\ Calls(h) = {}
       /\ Starts(u, h, [NoCall EXCEPT !.at = IF handle[h].virAddr = Null THEN "close" ELSE "munmap",
                                      !.on = h, !.free = TRUE])
  /\ UNCHANGED <<user, manager, drmFds, handle, bo, mapped, crashed, struck>>

CloseBufferHandle(u) ==
  /\ Goes(u, "close")
  /\ handle' = [handle EXCEPT ![call[u].on].at = "freed", ![call[u].on].fd = FALSE]
  /\ Return(u)
  /\ UNCHANGED <<user, manager, drmFds, bo, mapped, crashed, overlap, struck>>

GbmNext ==
  \E u \in Users :
    \/ GbmGrallocInitialize(u) \/ GbmGrallocUninitialize(u) \/ GbmAllocMem(u)
    \/ GbmMmap(u) \/ Map(u) \/ StoreAddr(u)
    \/ GbmUnmap(u) \/ Munmap(u) \/ ClearAddr(u)
    \/ GbmFreeMem(u) \/ CloseBufferHandle(u)

GbmSpec == GbmInit /\ [][GbmNext]_gbmVars

----------------------------------------------------------------------------
(* the device is open once, while the manager has it *)
OneDevice == drmFds = IF manager.device THEN 1 ELSE 0

(* It is there for everybody whose Init succeeded, even when one whose Init  *)
(* failed has taken its count back: a count of zero closes nothing.  Two of  *)
(* them close it, and only then, or for one whose own Init failed, does      *)
(* GbmAllocMem follow a null pointer.                                       *)
DeviceForUsers ==
  LET spoiled == Cardinality({u \in Users : user[u] = "failedGone"}) >= 2
  IN /\ (\E u \in Users : user[u] = "up") /\ ~ manager.device => spoiled
     /\ crashed = "up" => spoiled

(* A handle on which no two calls were under way together has the address of  *)
(* its own mapping and no other, for as long as no munmap of a handle that    *)
(* was not so lucky took it away.                                            *)
AddressesAreOwn ==
  \A h \in Handles \ overlap :
    LET Where == {a \in Addrs : mapped[a] = h}
        a == handle[h].virAddr
        clearing == \E u \in Calls(h) : call[u].at = "cleared"
    IN /\ a \in Addrs /\ ~ clearing /\ h \notin struck => Where = {a}
       /\ (a \notin Addrs \/ clearing)
            => Where = {} \/ \E u \in Calls(h) : call[u].at = "stored" /\ Where = {call[u].addr}

StrikesComeOfOverlaps == struck # {} => overlap # {}

(* a buffer that is gone holds nothing but what a failing call has left *)
NoBufferLeaks ==
  \A h \in Handles :
    /\ handle[h].fd => handle[h].at = "live"
    /\ handle[h].at = "freed" /\ h \notin overlap => \A a \in Addrs : mapped[a] # h
    /\ bo[h] = {"struct"} => handle[h].at = "failed"

(* Every format that is accepted has room for the pixels of all its planes.  *)
(* (It depends on no variable: GbmInvariant asks it before the manager is    *)
(* made, which saves TLC the rest.)                                          *)
FormatsHaveRoom ==
  \A f \in {"RGBX_8888", "RGB_888", "BGR_565", "BGRX_5551", "YCBCR_420_SP", "YCRCB_420_P",
            "YCRCB_422_SP", "YCBCR_422_P"}, w, h \in {1, 2, 7, 8, 9} :
    LET plane == w * h
        chroma == ((w + 1) \div 2) * ((h + 1) \div 2)
        pixels == CASE f = "RGBX_8888" -> 4 * plane
                    [] f = "RGB_888" -> 3 * plane
                    [] f \in {"BGR_565", "BGRX_5551"} -> 2 * plane
                    [] f \in {"YCBCR_420_SP", "YCRCB_420_P"} -> plane + 2 * chroma
                    [] OTHER -> plane + 2 * ((w + 1) \div 2) * h
    IN DumbBytes(f, w, h) >= pixels

(* The device of GbmGrallocInitialize, the buffers of GbmAllocMem, and the   *)
(* addresses of GbmMmap and GbmUnmap.  (GbmMmap,                             *)
(* src/common/virt_full/hardware/display/src/display_gralloc/                *)
(* display_gralloc_gbm.cpp:360)                                              *)
GbmInvariant ==
  /\ GbmTypeOK
  /\ OneDevice /\ DeviceForUsers /\ AddressesAreOwn /\ StrikesComeOfOverlaps /\ NoBufferLeaks
  /\ manager = NoManager => FormatsHaveRoom
=============================================================================
