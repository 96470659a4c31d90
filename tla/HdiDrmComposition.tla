-------------------------- MODULE HdiDrmComposition --------------------------
(***************************************************************************)
(* The post composition of the display composer                            *)
(* (display_device/hdi_drm_composition.cpp, hdi_drm_layer.cpp,             *)
(* drm_display.cpp): how the client's buffer of each display becomes a     *)
(* framebuffer, finds a plane and is committed to the kernel, and the      *)
(* discovery that pushes a first frame.                                    *)
(*                                                                         *)
(* The kernel is external: it keeps a commit pending until the next        *)
(* vertical blank, refuses a non-blocking commit meanwhile, and takes a    *)
(* framebuffer that is removed off the screen.                             *)
(***************************************************************************)
EXTENDS Naturals, Sequences, FiniteSets

CONSTANTS
  Displays,     \* a display stands for its connector and its crtc as well
  Primaries,    \* the primary planes, in the kernel's order
  Overlays,     \* the overlay planes, in the kernel's order
  PossibleCrtcs,\* [plane -> displays whose crtc it can serve]
  BootCrtcs,    \* what DrmPlane::mCrtcId may say: [plane -> a display or None]
  Buffers,      \* the buffers a client draws into
  FirstBuf,     \* the buffer PushFirstFrame allocates
  Faults,       \* what may go wrong: "init", "mode", "early", "gem", "commit",
                \* "hotplug", "gfx"
  Invalid,      \* a DrmGemBuffer without a framebuffer
  None

VARIABLES
  found,      \* what Init came to for each display: "no", "ok", or the step
              \* that failed; the result is ignored by DiscoveryDisplay
  mode,       \* DrmCrtc: no mode chosen, one chosen (mNeedModeSet), one set
  clientBuf,  \* mClientLayer's mHdiBuffer
  gem,        \* HdiDrmLayer::mCurrentBuffer and mLastBuffer
  planes,     \* mPlanes of each HdiDrmComposition, by their places in the order
              \* of GetDrmPlane
  planeCrtc,  \* DrmPlane::mCrtcId, as the kernel had it at discovery
  pipe,       \* DrmPlane::mPipe: the display a plane is bound to
  release,    \* the client layer's mReleaseFence: for which buffer, signalled?
  kernel,     \* the kernel's view of each crtc: active, the plane and the
              \* framebuffer ("cur" or "last" of gem) it scans out, and those
              \* of the commit that waits for the blank
  refused,    \* frames since the last one shown that did not get through
  crashed     \* a null pointer was followed

cardVars == <<gem, pipe, release, kernel, refused>>
drmVars == <<found, mode, clientBuf, planes, planeCrtc, cardVars, crashed>>

AllBuffers == Buffers \cup {FirstBuf}

(* a DrmGemBuffer: the buffer it was made of, or Invalid when the import or
   AddFB2 failed *)
GemBuffers == AllBuffers \cup {Invalid, None}

DrmTypeOK ==
  /\ found \in [Displays -> {"no", "ok", "noComposer", "noFrame"}]
  /\ mode \in [Displays -> {"none", "chosen", "set"}]
  /\ clientBuf \in [Displays -> AllBuffers \cup {None}]
  /\ gem \in [Displays -> [cur : GemBuffers, last : GemBuffers]]
  /\ release \in [Displays -> [for : AllBuffers \cup {None}, done : BOOLEAN]]
  /\ refused \in [Displays -> 0 .. 2]
  /\ crashed \in BOOLEAN

NoPlane == [plane |-> None, fb |-> None]

DrmInit ==
  /\ found = [d \in Displays |-> "no"]
  /\ mode = [d \in Displays |-> "none"]
  /\ clientBuf = [d \in Displays |-> None]
  /\ gem = [d \in Displays |-> [cur |-> None, last |-> None]]
  /\ planes = [d \in Displays |-> {}]
  /\ planeCrtc \in BootCrtcs
  /\ pipe = [p \in DOMAIN PossibleCrtcs |-> None]
  /\ release = [d \in Displays |-> [for |-> None, done |-> FALSE]]
  /\ kernel = [d \in Displays |-> [active |-> FALSE, scan |-> NoPlane, wait |-> NoPlane]]
  /\ refused = [d \in Displays |-> 0]
  /\ crashed = FALSE

----------------------------------------------------------------------------
(* the kernel *)

(* what waits is shown *)
Flip(k) == IF k.wait = NoPlane THEN k ELSE [k EXCEPT !.scan = k.wait, !.wait = NoPlane]

(* drmModeRmFB of the last framebuffer: if it waits it is shown first, and
   what is shown leaves the screen *)
RmFB(k) ==
  LET k1 == IF k.wait.fb = "last" THEN Flip(k) ELSE k
  IN IF k1.scan.fb = "last" THEN [k1 EXCEPT !.scan = NoPlane] ELSE k1

----------------------------------------------------------------------------
(* the steps of Apply *)

(* GetGemBuffer: the last framebuffer is destroyed, the current one is the
   last from now on, and the client's buffer is imported *)
GetGemBuffer(g, buf, ok) == [cur |-> IF ok THEN buf ELSE Invalid, last |-> g.cur]
DropLast(k) ==
  LET older(s) == IF s = NoPlane THEN s ELSE [s EXCEPT !.fb = "last"]
      k1 == RmFB(k)
  IN [k1 EXCEPT !.scan = older(@), !.wait = older(@)]

(* GetDrmPlane, twice: the idle planes for the crtc, primaries first.  A     *)
(* list of planes is the set of their places in that order                  *)
Ordered == Primaries \o Overlays
GetDrmPlane(d) ==
  {j \in DOMAIN Ordered : pipe[Ordered[j]] = None /\ d \in PossibleCrtcs[Ordered[j]]}

(* the planes FindPlaneAndApply does not pass over; it takes the first *)
BugUsable(d, ps) == {j \in ps : planeCrtc[Ordered[j]] \in {None, d}}
Usable(d, ps) ==
  {j \in ps : pipe[Ordered[j]] \in {None, d} /\ planeCrtc[Ordered[j]] \in {None, d}}
FirstUsable(d, ps) ==
  Ordered[CHOOSE j \in Usable(d, ps) : \A i \in Usable(d, ps) : j <= i]

(* UpdateMode, when a mode is chosen and not set: its commit may be refused *)
UpdateMode(d, m, set) ==
  /\ set => m = "chosen"
  /\ "mode" \notin Faults => set = (m = "chosen")
  /\ mode' = [mode EXCEPT ![d] = IF set THEN "set" ELSE m]

(* Apply returns before it looks for a plane: the mode set was refused,
   there are fewer planes than layers, a property cannot be added *)
ApplyEarly(d, m) ==
  /\ "early" \in Faults
  /\ \E set \in BOOLEAN :
       /\ UpdateMode(d, m, set)
       /\ kernel' = [kernel EXCEPT ![d].active = @ \/ set]
  /\ UNCHANGED <<gem, pipe, release, refused>>

(* Apply from FindPlaneAndApply on.  When a plane is usable the framebuffer
   is made, and if it is good the plane is bound and given it.  The commit is
   refused at any time, and always when one waits for the blank or the crtc
   is not active; the fence is the client layer's only if it is not *)
ApplyCommit(d, m, ps, buf) ==
  \E set, gemOk, accept \in BOOLEAN :
    LET apply == Usable(d, ps) # {}
        p == FirstUsable(d, ps)
        put == apply /\ gemOk
        g == IF apply THEN GetGemBuffer(gem[d], buf, gemOk) ELSE gem[d]
        k == [IF apply THEN DropLast(kernel[d]) ELSE kernel[d]
                EXCEPT !.active = @ \/ set]
        flushed == k.wait = NoPlane /\ kernel[d].wait # NoPlane
    IN
    /\ ps # {}
    /\ UpdateMode(d, m, set)
    /\ gemOk => apply
    /\ "gem" \notin Faults => gemOk = apply
    /\ accept => k.active /\ k.wait = NoPlane
    /\ "commit" \notin Faults => accept
    /\ gem' = [gem EXCEPT ![d] = g]
    /\ pipe' = IF put THEN [pipe EXCEPT ![p] = d] ELSE pipe
    /\ kernel' = [kernel EXCEPT ![d] =
         IF accept /\ put THEN [k EXCEPT !.wait = [plane |-> p, fb |-> "cur"]] ELSE k]
    /\ release' = [release EXCEPT ![d] =
         IF accept THEN [for |-> buf, done |-> ~put]
                   ELSE [release[d] EXCEPT !.done = @ \/ flushed]]
    /\ refused' = [refused EXCEPT ![d] = IF (accept /\ put) \/ @ = 2 THEN @ ELSE @ + 1]

(* HdiDrmComposition::Apply: a client layer without a buffer is a null
   pointer once ApplyPlane is reached *)
DrmApply(d) ==
  \/ ApplyEarly(d, mode[d]) /\ UNCHANGED crashed
  \/ /\ clientBuf[d] # None \/ Usable(d, planes[d]) = {}
     /\ ApplyCommit(d, mode[d], planes[d], clientBuf[d])
     /\ UNCHANGED crashed
  \/ /\ clientBuf[d] = None
     /\ Usable(d, planes[d]) # {}
     /\ crashed' = TRUE
     /\ UNCHANGED <<mode, cardVars>>

----------------------------------------------------------------------------
(* DrmDisplay::Init, for one display after the other.  It may end without a
   composer, or without the mode or the buffer of a first frame *)
InitFails(d) ==
  /\ "init" \in Faults
  /\ \/ found' = [found EXCEPT ![d] = "noComposer"] /\ UNCHANGED <<mode, planes>>
     \/ /\ found' = [found EXCEPT ![d] = "noFrame"]
        /\ planes' = [planes EXCEPT ![d] = GetDrmPlane(d)]
        /\ \E m \in {"none", "chosen"} : mode' = [mode EXCEPT ![d] = m]
  /\ UNCHANGED <<clientBuf, cardVars>>

(* or push one; what Apply returns is not looked at *)
PushFirstFrame(d) ==
  /\ found' = [found EXCEPT ![d] = "ok"]
  /\ planes' = [planes EXCEPT ![d] = GetDrmPlane(d)]
  /\ clientBuf' = [clientBuf EXCEPT ![d] = FirstBuf]
  /\ ApplyEarly(d, "chosen") \/ ApplyCommit(d, "chosen", GetDrmPlane(d), FirstBuf)

(* DiscoveryDisplay does not look at what Init returns either *)
DiscoveryDisplay(d) ==
  /\ found[d] = "no"
  /\ InitFails(d) \/ PushFirstFrame(d)
  /\ UNCHANGED <<planeCrtc, crashed>>

Discovered == \A d \in Displays : found[d] # "no"

----------------------------------------------------------------------------
(* the client's calls, and what the kernel does meanwhile *)

SetDisplayClientBuffer(d, b) ==
  /\ clientBuf' = [clientBuf EXCEPT ![d] = b]
  /\ UNCHANGED <<found, mode, planes, planeCrtc, cardVars, crashed>>

(* SetActivieMode takes only the first mode; it is new if none was chosen *)
SetDisplayMode(d) ==
  /\ mode[d] = "none"
  /\ mode' = [mode EXCEPT ![d] = "chosen"]
  /\ UNCHANGED <<found, clientBuf, planes, planeCrtc, cardVars, crashed>>

(* Commit: a display without a composer is a null pointer *)
DrmCommit(d) ==
  /\ UNCHANGED <<found, clientBuf, planes, planeCrtc>>
  /\ IF found[d] = "noComposer"
       THEN crashed' = TRUE /\ UNCHANGED <<mode, cardVars>>
       ELSE DrmApply(d)

(* what is shown is the current framebuffer: nothing is owed any more *)
Showing(d, k) == [refused EXCEPT ![d] = IF k.scan.fb = "cur" THEN 0 ELSE @]

(* the vertical blank: what waited is on the screen and its fence signals *)
VBlank(d) ==
  /\ kernel[d].wait # NoPlane
  /\ kernel' = [kernel EXCEPT ![d] = Flip(@)]
  /\ release' = [release EXCEPT ![d].done = TRUE]
  /\ refused' = Showing(d, Flip(kernel[d]))
  /\ UNCHANGED <<found, mode, clientBuf, planes, planeCrtc, gem, pipe, crashed>>

(* the mode set of DrmConnector::HandleHotplug, which waits for the blank *)
HotplugModeSet(d, plugIn) ==
  /\ "hotplug" \in Faults
  /\ kernel' = [kernel EXCEPT ![d] = [Flip(@) EXCEPT !.active = plugIn]]
  /\ release' = [release EXCEPT ![d].done = @ \/ kernel[d].wait # NoPlane]
  /\ refused' = IF kernel[d].wait # NoPlane THEN Showing(d, Flip(kernel[d])) ELSE refused
  /\ UNCHANGED <<found, mode, clientBuf, planes, planeCrtc, gem, pipe, crashed>>

DrmNext ==
  /\ ~crashed
  /\ \E d \in Displays :
       \/ DiscoveryDisplay(d)
       \/ /\ Discovered
          /\ \/ \E b \in Buffers : SetDisplayClientBuffer(d, b)
             \/ SetDisplayMode(d)
             \/ DrmCommit(d)
             \/ VBlank(d)
             \/ \E plugIn \in BOOLEAN : HotplugModeSet(d, plugIn)

----------------------------------------------------------------------------
(* The picture stays: as long as no frame was refused, the frame that waits
   or is shown is the current framebuffer and the one on the screen meanwhile
   is the last one, so making the next framebuffer never takes away what the
   screen shows; one refused frame, with none waiting, is survived as well.
   (GetGemBuffer, hdi_drm_layer.cpp:79) *)
Started(d) == gem[d].last # None
PictureStays ==
  \A d \in Displays :
    LET k == kernel[d] IN
    /\ refused[d] = 0 /\ k.wait # NoPlane => k.wait.fb = "cur" /\ (Started(d) => k.scan.fb = "last")
    /\ refused[d] = 0 /\ k.wait = NoPlane /\ gem[d].cur # None => k.scan.fb = "cur"
    /\ refused[d] = 1 /\ k.wait = NoPlane /\ Started(d) => k.scan.fb = "last"

(* The release fence tells the truth unless a frame was refused: once it has
   signalled, the screen shows the buffer it was made for, and every other
   buffer is the client's again.  (Apply, hdi_drm_composition.cpp:300) *)
FenceTells ==
  \A d \in Displays :
    refused[d] = 0 /\ release[d].done => gem[d][kernel[d].scan.fb] = release[d].for

(* Two displays never scan out, or are about to scan out, one plane.
   (FindPlaneAndApply, hdi_drm_composition.cpp:219) *)
PlanesApart ==
  LET on(d) == {kernel[d].scan.plane, kernel[d].wait.plane} \ {None}
  IN \A d, e \in Displays : d # e => on(d) \cap on(e) = {}

(* A commit meets a null pointer only on a display whose Init had failed and
   that was announced all the same.  (DiscoveryDisplay, drm_device.cpp:328) *)
CrashNeedsFailedInit ==
  crashed => \E d \in Displays : found[d] \in {"noComposer", "noFrame"}

DrmInvariant ==
  /\ DrmTypeOK
  /\ PictureStays
  /\ FenceTells
  /\ PlanesApart
  /\ CrashNeedsFailedInit

=============================================================================
