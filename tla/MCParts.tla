------------------------------- MODULE MCParts -------------------------------
(***************************************************************************)
(* Components of which only safety is asked, each in a part of its own: a  *)
(* behaviour looks at one of them and leaves the others where they start.  *)
(* The receive half of the virtio-net driver; of the display, the buffers  *)
(* that two processes share, in segments and in the pages of /dev/mmz, and *)
(* those of the DRM device; of the display composer, the post composition  *)
(* of one display with every fault, that of two displays that share their  *)
(* planes, the layers of one display, and the layer ids of two; of the      *)
(* camera, two video streams with one encoder, pictures under two Configs,  *)
(* and one stream with every fault.                                         *)
(***************************************************************************)
EXTENDS VirtNetRx

CONSTANTS
  t1, t2, t3,
  d1, d2, p1, o1, b0, b1, b2, None, Invalid, Freed,
  InvalidId, MaxLive, DefaultZ, Zorders

(* no display, plane or buffer is a null pointer *)
ASSUME DrmAssumption ==
  /\ None \notin {b0, b1, b2, Invalid, d1, d2, p1, o1}
  /\ None \notin {"cur", "last"}

VARIABLES
  part,
  found, mode, clientBuf, gem, planes, planeCrtc, pipe, release, kernel,
  refused, crashed, idleId, idSet, layers, order, layer, change, comp, drawn,
  touched, tie,
  seg, attached, nextKey, hdl, view, op, exposed, stolen,
  free, of, refCounts, maps, mmz, seen, call, stuck, lost, astray, strayed,
  user, manager, drmFds, handle, bo, mapped, gbmCall, gbmCrashed, overlap, struck,
  running, frame, hal_mpp, halCtx, mppStatus, settings, gpsInfo, config, configs, died,
  late, mixed, overlapped

postVars ==
  <<found, mode, clientBuf, gem, planes, planeCrtc, pipe, release, kernel, refused, crashed>>
layerVars ==
  <<idleId, idSet, layers, order, layer, change, comp, drawn, touched, tie>>
composerVars == <<postVars, layerVars>>
recvVars == <<rxVars, irqVars>>

shmVars == <<seg, attached, nextKey, hdl, view, op, exposed, stolen>>
mmzVars == <<free, of, refCounts, maps, mmz, seen, call, stuck, lost, astray, strayed>>
gbmVars ==
  <<user, manager, drmFds, handle, bo, mapped, gbmCall, gbmCrashed, overlap, struck>>
grallocVars == <<shmVars, mmzVars, gbmVars>>
camVars == <<running, frame, hal_mpp, halCtx, mppStatus, settings, gpsInfo, config, configs,
             died, late, mixed, overlapped>>
partVars == <<part, recvVars, grallocVars, composerVars, camVars>>

(* two threads of one process and one of another *)
Shm == INSTANCE GrallocShm WITH
  Tasks <- {t1, t2, t3}, Home <- [t \in {t1, t2, t3} |-> IF t = t3 THEN "b" ELSE "a"],
  SHM_MAX_KEY <- 3, Ids <- {1, 2}, MaxBuffers <- 2

(* buffers of one page and of two, one that is too large and one of nothing *)
Mz == INSTANCE Mmz WITH
  Threads <- {t1, t2}, MEMORY <- 4, PAGE_SIZE <- 64, MAX_MALLOC_SIZE <- 200, MaxAllocs <- 2,
  Infos <- {[format |-> "rgb565", width |-> 3, height |-> 4],
            [format |-> "yuv420sp", width |-> 7, height |-> 7],
            [format |-> "rgb888", width |-> 8, height |-> 11],
            [format |-> "yuv420p", width |-> 0, height |-> 1]}

(* three users and a buffer, for the device; two users that stay, and two    *)
(* buffers, for the addresses                                               *)
Dev == INSTANCE Gbm WITH
  Users <- {t1, t2, t3}, MaxHandles <- 1, Addrs <- {p1}, call <- gbmCall, crashed <- gbmCrashed
Hdls == INSTANCE Gbm WITH
  Users <- {t1, t2}, MaxHandles <- 2, Addrs <- {p1, o1}, call <- gbmCall,
  crashed <- gbmCrashed
BothInitialised ==
  /\ user = [u \in {t1, t2} |-> "up"]
  /\ manager = [made |-> TRUE, device |-> TRUE, referCount |-> 2]
  /\ drmFds = 1

(* both planes serve every crtc; the kernel may have left the primary plane
   on the crtc of the first display *)
Primaries == <<p1>>
Overlays == <<o1>>
PossibleCrtcs == [p \in {p1, o1} |-> {d1, d2}]
BootCrtcs == {[p \in {p1, o1} |-> None], [p \in {p1, o1} |-> IF p = p1 THEN d1 ELSE None]}

Drm(Displays, Buffers, Faults) == INSTANCE HdiDrmComposition WITH FirstBuf <- b0
FaultsOfOne == {"init", "mode", "early", "gem", "commit", "hotplug"}
FaultsOfTwo == {"init", "mode", "early", "gem", "commit"}
OneNext == Drm({d1}, {b1, b2}, FaultsOfOne)!DrmNext
TwoNext == Drm({d1, d2}, {b1}, FaultsOfTwo)!DrmNext
Layers == INSTANCE HdiDisplay WITH
  Displays <- {d1}, Buffers <- {b0}, FirstBuf <- b0, Faults <- {"gfx"}, InvalidId <- 2
Ids == INSTANCE HdiDisplay WITH
  Displays <- {d1, d2}, Buffers <- {b0}, FirstBuf <- b0, Faults <- {}

(* two video streams of different sizes; one that takes pictures and two that
   are configured; every type, format and fault of one stream *)
AsWanted == [size |-> "small", valid |-> FALSE, status |-> "OK"]
Video == INSTANCE Camera WITH
  Streams <- {t1, t2}, Types <- [s \in {t1, t2} |-> {"h264"}],
  Formats <- [s \in {t1, t2} |-> {"yuv420sp"}],
  Size <- [s \in {t1, t2} |-> IF s = t1 THEN "small" ELSE "large"], Arrivals <- {AsWanted},
  Payloads <- {<<0, 0, 0, 1, 101>>}, Faults <- {"create"}, MinIFrameBegin <- 2, MaxConfigs <- 0
Still == INSTANCE Camera WITH
  Streams <- {t1, t2}, Types <- [s \in {t1, t2} |-> IF s = t1 THEN {"jpeg"} ELSE {}],
  Formats <- [s \in {t1, t2} |-> {"yuv420sp"}], Size <- [s \in {t1, t2} |-> "small"],
  Arrivals <- {AsWanted}, Payloads <- {}, Faults <- {}, MinIFrameBegin <- 2, MaxConfigs <- 2
Single == INSTANCE Camera WITH
  Streams <- {t1}, Types <- [s \in {t1} |-> {"jpeg", "h264", "null", "unknown"}],
  Formats <- [s \in {t1} |-> {"yuv420sp", "yuv420p", "rgb888", "yuyv"}],
  Size <- [s \in {t1} |-> "small"],
  Arrivals <- [size: {"small", "large"}, valid: BOOLEAN, status: {"OK", "INVALID"}],
  Payloads <- {<<>>, <<0, 0, 0, 1>>, <<0, 0, 0, 1, 101>>, <<0, 0, 0, 1, 65, 0, 0, 1, 101>>,
               <<0, 0, 0, 1, 65, 0, 0, 0, 0, 1, 101, 7>>},
  Faults <- {"copy", "malloc", "blit", "create", "encode"}, MinIFrameBegin <- 2, MaxConfigs <- 0

(* one start for the parts not looked at *)
Unused == part \notin {"one", "two"} => planeCrtc = [p \in {p1, o1} |-> None]

PartInit ==
  /\ part \in {"rx", "shm", "mmz", "dev", "hdls", "one", "two", "layers", "ids",
              "video", "still", "single"}
  /\ RxInit /\ Shm!ShmInit /\ Mz!MmzInit
  /\ IF part = "hdls" THEN BothInitialised /\ Hdls!NoHandles ELSE Dev!GbmInit
  /\ IF part \in {"two", "ids"} THEN Ids!DispInit ELSE Layers!DispInit
  /\ IF part = "single" THEN Single!CamInit ELSE Video!CamInit
  /\ Unused

OnRx(A) == part = "rx" /\ A /\ UNCHANGED <<part, grallocVars, composerVars, camVars>>
OnShm(A) == part = "shm" /\ A /\ UNCHANGED <<part, recvVars, mmzVars, gbmVars, composerVars, camVars>>
OnMmz(A) == part = "mmz" /\ A /\ UNCHANGED <<part, recvVars, shmVars, gbmVars, composerVars, camVars>>
OnGbm(p, A) == part = p /\ A /\ UNCHANGED <<part, recvVars, shmVars, mmzVars, composerVars, camVars>>
OnDrm(p, A) ==
  part = p /\ A /\ UNCHANGED <<part, recvVars, grallocVars, layerVars, camVars>>
OnLayers(p, A) == part = p /\ A /\ UNCHANGED <<part, recvVars, grallocVars, camVars>>
OnCamera(p, A) == part = p /\ A /\ UNCHANGED <<part, recvVars, grallocVars, composerVars>>

(* the calls that matter for the ids *)
IdsNext ==
  \E d \in {d1, d2} :
    \/ Ids!DiscoveryDisplay(d) /\ UNCHANGED layerVars
    \/ Ids!Discovered /\ Ids!CreateLayer(d)
    \/ \E l \in Ids!LayersFound(d) : Ids!DestroyLayer(d, l)

PartNext ==
  \/ OnRx(RxNext)
  \/ OnShm(Shm!ShmNext) \/ OnMmz(Mz!MmzNext)
  \/ OnGbm("dev", Dev!GbmNext) \/ OnGbm("hdls", Hdls!GbmNext /\ UNCHANGED user)
  \/ OnDrm("one", OneNext) \/ OnDrm("two", TwoNext)
  \/ OnLayers("layers", Layers!DispNext) \/ OnLayers("ids", IdsNext)
  \/ OnCamera("video", Video!CamNext) \/ OnCamera("still", Still!CamNext)
  \/ OnCamera("single", Single!CamNext)

PartSpec == PartInit /\ [][PartNext]_partVars

----------------------------------------------------------------------------
(* ShmInvariant of GrallocShm, MmzInvariant of Mmz, and GbmInvariant of Gbm *)
(* for its device and for its handles.  (AllocMem,                          *)
(* src/hardware/display/display_gralloc.c:270)                              *)
GrallocInvariant ==
  /\ part = "shm" => Shm!ShmInvariant
  /\ part = "mmz" => Mz!MmzInvariant
  /\ part = "dev" => Dev!GbmInvariant
  /\ part = "hdls" => Hdls!GbmInvariant

(* DrmInvariant of HdiDrmComposition, of one and of two displays.           *)
(* (HdiDrmComposition::Apply, hdi_drm_composition.cpp:248)                  *)
DrmInvariant ==
  /\ part = "one" => Drm({d1}, {b1, b2}, FaultsOfOne)!DrmInvariant
  /\ part = "two" => Drm({d1, d2}, {b1}, FaultsOfTwo)!DrmInvariant

(* DispInvariant of HdiDisplay, of the layers of one display and of the ids *)
(* of two; CamInvariant of Camera, of its three parts.  (HdiDisplay,        *)
(* hdi_display.cpp:46; RKCodecNode::DeliverBuffer, rk_codec_node.cpp:381)   *)
LayersAndCamera ==
  /\ part = "layers" => Layers!DispInvariant
  /\ part = "ids" => Ids!DispInvariant
  /\ part = "video" => Video!CamInvariant
  /\ part = "still" => Still!CamInvariant
  /\ part = "single" => Single!CamInvariant
=============================================================================
