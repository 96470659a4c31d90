--------------------------- MODULE Parts_proofs ---------------------------
(***************************************************************************)
(* Proofs about the components that MCParts checks each in a part of its   *)
(* own: the post composition of the display composer, for any number of    *)
(* displays that share a primary and an overlay plane, and then of the     *)
(* behaviours of MCParts.                                                  *)
(***************************************************************************)
EXTENDS MCParts, SequenceTheorems, TLAPS

(* What a crtc scans out: nothing, or a plane with one of the two            *)
(* framebuffers of its display.                                              *)
PlaneAt == <<p1, o1>>
Nothing == [plane |-> None, fb |-> None]
Picture == {Nothing} \cup [plane : {p1, o1}, fb : {"cur", "last"}]
CrtcStates == [active : BOOLEAN, scan : Picture, wait : Picture]

(* DrmCrtc: no mode chosen, one chosen, one set                              *)
Modes == {"none", "chosen", "set"}

(* a plane the kernel has from a display is bound to it, and is one that    *)
(* FindPlaneAndApply does not pass over                                     *)
BoundTo(d, ps, s) ==
  s # Nothing =>
    /\ pipe[s.plane] = d
    /\ \E j \in ps : PlaneAt[j] = s.plane /\ planeCrtc[s.plane] \in {None, d}
AreBound(d, ps) == BoundTo(d, ps, kernel[d].scan) /\ BoundTo(d, ps, kernel[d].wait)

(* how the kernel's framebuffers follow the two of the client layer         *)
FramesFollow(d) ==
  LET k == kernel[d]
      g == gem[d]
      r == release[d]
  IN /\ refused[d] = 0 /\ k.wait # Nothing => k.wait.fb = "cur" /\ (g.last # None => k.scan.fb = "last")
     /\ refused[d] = 0 /\ k.wait = Nothing /\ g.cur # None => k.scan.fb = "cur"
     /\ refused[d] = 1 /\ k.wait = Nothing /\ g.last # None => k.scan.fb = "last"
     /\ k.wait.fb = "cur" => g.cur = r.for
     /\ refused[d] = 0 /\ r.done => k.wait = Nothing /\ k.scan.fb = "cur" /\ g.cur = r.for
     /\ g.last # None => g.cur # None

(* nothing was done for a display that is not discovered                    *)
Untouched(d) ==
  /\ gem[d] = [cur |-> None, last |-> None]
  /\ kernel[d].scan = Nothing /\ kernel[d].wait = Nothing
  /\ refused[d] = 0 /\ ~ release[d].done /\ planes[d] = {}

DrmIndOf(d) ==
  /\ FramesFollow(d)
  /\ AreBound(d, planes[d])
  /\ found[d] = "no" => Untouched(d)
  /\ found[d] = "ok" => clientBuf[d] # None

DrmIndTypes(Ds, Bs, Fs) ==
  /\ Drm(Ds, Bs, Fs)!DrmTypeOK
  /\ kernel \in [Ds -> CrtcStates]
  /\ planes \in [Ds -> SUBSET (1 .. 2)]
  /\ pipe \in [{p1, o1} -> Ds \cup {None}]

DrmInductive(Ds, Bs, Fs) ==
  /\ DrmIndTypes(Ds, Bs, Fs)
  /\ \A d \in Ds : DrmIndOf(d)
  /\ crashed => \E d \in Ds : found[d] \in {"noComposer", "noFrame"}

(* The primary plane comes first, then the overlay.                          *)
LEMMA PlanesInOrder ==
  ASSUME NEW Ds, NEW Bs, NEW Fs
  PROVE  Drm(Ds, Bs, Fs)!Ordered = PlaneAt
<1>1. <<p1>> \o <<o1>> = <<p1, o1>>
  <2>1. <<p1>> \in Seq({p1, o1}) /\ <<o1>> \in Seq({p1, o1})  OBVIOUS
  <2>2. Len(<<p1>> \o <<o1>>) = 2  BY <2>1
  <2>3. \A i \in 1 .. 2 : (<<p1>> \o <<o1>>)[i] = <<p1, o1>>[i]
    <3>1. (<<p1>> \o <<o1>>)[1] = p1  BY <2>1, ConcatProperties
    <3>2. (<<p1>> \o <<o1>>)[2] = o1  BY <2>1, ConcatProperties
    <3> QED  BY <3>1, <3>2
  <2>4. <<p1>> \o <<o1>> \in Seq({p1, o1}) /\ <<p1, o1>> \in Seq({p1, o1}) /\ Len(<<p1, o1>>) = 2
    BY <2>1
  <2> QED  BY <2>2, <2>3, <2>4, SeqEqual
<1> QED  BY <1>1 DEF Drm!Ordered, Primaries, Overlays, PlaneAt

(* A usable plane is found if there is one.                                  *)
LEMMA FirstIsUsable ==
  ASSUME NEW Ds, NEW Bs, NEW Fs, NEW d, NEW ps \in SUBSET (1 .. 2), Drm(Ds, Bs, Fs)!Usable(d, ps) # {}
  PROVE  \E j \in ps : /\ Drm(Ds, Bs, Fs)!FirstUsable(d, ps) = PlaneAt[j]
                       /\ PlaneAt[j] \in {p1, o1}
                       /\ pipe[PlaneAt[j]] \in {None, d} /\ planeCrtc[PlaneAt[j]] \in {None, d}
<1> DEFINE U == Drm(Ds, Bs, Fs)!Usable(d, ps)
<1>1. U \subseteq 1 .. 2 /\ U # {}  BY DEF Drm!Usable
<1>2. \E j \in U : \A i \in U : j <= i
  <2> HIDE DEF U
  <2>1. CASE 1 \in U  BY <1>1, <2>1
  <2>2. CASE 1 \notin U
    <3>1. \A i \in U : i = 2  BY <1>1, <2>2
    <3>2. 2 \in U  BY <1>1, <3>1
    <3> QED  BY <3>1, <3>2
  <2> QED  BY <2>1, <2>2
<1>3. PICK j \in U : j = CHOOSE x \in U : \A i \in U : x <= i
  <2> HIDE DEF U
  <2> QED  BY <1>2
<1>4. Drm(Ds, Bs, Fs)!FirstUsable(d, ps) = PlaneAt[j]  BY <1>3, PlanesInOrder DEF Drm!FirstUsable
<1>5. j \in ps /\ pipe[PlaneAt[j]] \in {None, d} /\ planeCrtc[PlaneAt[j]] \in {None, d}
  <2>1. \A i \in U : /\ i \in ps
                    /\ pipe[PlaneAt[i]] \in {None, d} /\ planeCrtc[PlaneAt[i]] \in {None, d}
    BY PlanesInOrder DEF Drm!Usable
  <2> HIDE DEF U
  <2> QED  BY <1>3, <2>1
<1>6. PlaneAt[j] \in {p1, o1}  BY <1>5 DEF PlaneAt
<1> QED  BY <1>4, <1>5, <1>6

(* The kernel's steps on the crtcs there are: what Flip shows, and what the  *)
(* framebuffers become when the last one is removed and renamed.             *)
LEMMA KernelSteps ==
  ASSUME NEW Ds, NEW Bs, NEW Fs, NEW k \in CrtcStates
  PROVE  /\ Drm(Ds, Bs, Fs)!NoPlane = Nothing
         /\ Drm(Ds, Bs, Fs)!Flip(k) =
              [active |-> k.active, scan |-> IF k.wait = Nothing THEN k.scan ELSE k.wait, wait |-> Nothing]
         /\ Drm(Ds, Bs, Fs)!DropLast(k) =
              [active |-> k.active,
               scan |-> IF k.wait.fb = "last" \/ k.scan.fb # "cur" THEN Nothing
                        ELSE [plane |-> k.scan.plane, fb |-> "last"],
               wait |-> IF k.wait.fb = "cur" THEN [plane |-> k.wait.plane, fb |-> "last"]
                        ELSE Nothing]
<1>1. Drm(Ds, Bs, Fs)!NoPlane = Nothing  BY DEF Drm!NoPlane, Nothing
<1>2. Drm(Ds, Bs, Fs)!Flip(k) =
        [active |-> k.active, scan |-> IF k.wait = Nothing THEN k.scan ELSE k.wait, wait |-> Nothing]
  BY <1>1 DEF Drm!Flip, CrtcStates
<1>3. ASSUME NEW s \in Picture
      PROVE  /\ s = Nothing <=> s.fb = None
             /\ s # Nothing => s.plane \in {p1, o1} /\ s.fb \in {"cur", "last"}
                               /\ s = [plane |-> s.plane, fb |-> s.fb]
             /\ "cur" # "last" /\ None # "cur" /\ None # "last" /\ Nothing.fb = None
  BY DrmAssumption DEF Picture, Nothing
<1>4. k = [active |-> k.active, scan |-> k.scan, wait |-> k.wait] /\ k.scan \in Picture /\ k.wait \in Picture
  BY DEF CrtcStates
<1> DEFINE k1 == IF k.wait.fb = "last" THEN Drm(Ds, Bs, Fs)!Flip(k) ELSE k
           k2 == [active |-> k.active,
                  scan |-> IF k.wait.fb = "last" \/ k.scan.fb # "cur" THEN Nothing ELSE k.scan,
                  wait |-> IF k.wait.fb = "cur" THEN k.wait ELSE Nothing]
<1>5. Drm(Ds, Bs, Fs)!RmFB(k) = k2
  <2>1. Drm(Ds, Bs, Fs)!RmFB(k) = IF k1.scan.fb = "last" THEN [k1 EXCEPT !.scan = Nothing] ELSE k1
    BY <1>1 DEF Drm!RmFB
  <2>2. CASE k.wait.fb = "last"
    <3>1. k1 = [active |-> k.active, scan |-> k.wait, wait |-> Nothing]  BY <1>2, <1>3, <1>4, <2>2
    <3>2. k2 = [active |-> k.active, scan |-> Nothing, wait |-> Nothing]  BY <1>3, <1>4, <2>2
    <3> QED  BY <2>1, <2>2, <3>1, <3>2
  <2>3. CASE k.wait.fb # "last"
    <3>1. k1 = [active |-> k.active, scan |-> k.scan, wait |-> k.wait]  BY <1>4, <2>3
    <3>2. k.wait = IF k.wait.fb = "cur" THEN k.wait ELSE Nothing  BY <1>3, <1>4, <2>3
    <3>3. CASE k.scan.fb = "last"
      <4>1. k2 = [active |-> k.active, scan |-> Nothing, wait |-> k.wait]  BY <3>2, <3>3, <1>3, <1>4
      <4> QED  BY <2>1, <3>1, <3>3, <4>1
    <3>4. CASE k.scan.fb # "last"
      <4>1. k.scan = IF k.wait.fb = "last" \/ k.scan.fb # "cur" THEN Nothing ELSE k.scan
        BY <1>3, <1>4, <2>3, <3>4
      <4>2. k2 = [active |-> k.active, scan |-> k.scan, wait |-> k.wait]  BY <3>2, <4>1
      <4>3. ~ (k1.scan.fb = "last")  BY <3>1, <3>4
      <4> QED  BY <2>1, <3>1, <4>2, <4>3
    <3> QED  BY <3>3, <3>4
  <2> QED  BY <2>2, <2>3
<1> DEFINE Older(s) == IF s = Nothing THEN s ELSE [s EXCEPT !.fb = "last"]
<1>6. Drm(Ds, Bs, Fs)!DropLast(k) = [k2 EXCEPT !.scan = Older(@), !.wait = Older(@)]
  <2>1. Drm(Ds, Bs, Fs)!DropLast(k) = [Drm(Ds, Bs, Fs)!RmFB(k) EXCEPT !.scan = Older(@), !.wait = Older(@)]
    BY <1>1 DEF Drm!DropLast
  <2> QED  BY <1>5, <2>1
<1>7. k.scan.fb = "cur" => Older(k.scan) = [plane |-> k.scan.plane, fb |-> "last"]  BY <1>3, <1>4
<1>8. k.wait.fb = "cur" => Older(k.wait) = [plane |-> k.wait.plane, fb |-> "last"]  BY <1>3, <1>4
<1>9. Drm(Ds, Bs, Fs)!DropLast(k) = [active |-> k.active, scan |-> Older(k2.scan), wait |-> Older(k2.wait)]
  BY <1>6
<1> QED  BY <1>1, <1>2, <1>7, <1>8, <1>9

(* Applying keeps how the framebuffers follow, and binds what the kernel gets. *)
LEMMA CommitKeeps ==
  ASSUME NEW Ds, NEW Bs, NEW Fs, NEW d \in Ds, NEW m \in Modes, NEW ps \in SUBSET (1 .. 2), NEW buf,
         DrmIndTypes(Ds, Bs, Fs), FramesFollow(d), AreBound(d, ps), d # None,
         Drm(Ds, Bs, Fs)!Usable(d, ps) = {} \/ buf # None,
         buf \in Bs \cup {b0, None},
         Drm(Ds, Bs, Fs)!ApplyCommit(d, m, ps, buf), planeCrtc' = planeCrtc
  PROVE  /\ FramesFollow(d)' /\ AreBound(d, ps)'
         /\ kernel' \in [Ds -> CrtcStates] /\ \A e \in Ds \ {d} : kernel'[e] = kernel[e]
         /\ pipe' \in [{p1, o1} -> Ds \cup {None}]
         /\ \A p \in {p1, o1} : pipe'[p] = pipe[p] \/ (pipe[p] \in {None, d} /\ pipe'[p] = d)
         /\ gem' \in [Ds -> [cur : Drm(Ds, Bs, Fs)!GemBuffers, last : Drm(Ds, Bs, Fs)!GemBuffers]]
         /\ \A e \in Ds \ {d} : gem'[e] = gem[e]
         /\ release' \in [Ds -> [for : Drm(Ds, Bs, Fs)!AllBuffers \cup {None}, done : BOOLEAN]]
         /\ \A e \in Ds \ {d} : release'[e] = release[e]
         /\ refused' \in [Ds -> 0 .. 2] /\ \A e \in Ds \ {d} : refused'[e] = refused[e]
         /\ Drm(Ds, Bs, Fs)!UpdateMode(d, m, TRUE) \/ Drm(Ds, Bs, Fs)!UpdateMode(d, m, FALSE)
<1> DEFINE apply == Drm(Ds, Bs, Fs)!Usable(d, ps) # {}
           p == Drm(Ds, Bs, Fs)!FirstUsable(d, ps)
           Put(gemOk) == apply /\ gemOk
           G(gemOk) == IF apply THEN Drm(Ds, Bs, Fs)!GetGemBuffer(gem[d], buf, gemOk) ELSE gem[d]
           K(set) == [IF apply THEN Drm(Ds, Bs, Fs)!DropLast(kernel[d]) ELSE kernel[d]
                        EXCEPT !.active = @ \/ set]
           Flushed(set) == /\ K(set).wait = Drm(Ds, Bs, Fs)!NoPlane
                           /\ kernel[d].wait # Drm(Ds, Bs, Fs)!NoPlane
<1>1. PICK set, gemOk, accept \in BOOLEAN :
        /\ Drm(Ds, Bs, Fs)!UpdateMode(d, m, set)
        /\ gemOk => apply
        /\ accept => K(set).active /\ K(set).wait = Drm(Ds, Bs, Fs)!NoPlane
        /\ gem' = [gem EXCEPT ![d] = G(gemOk)]
        /\ pipe' = IF Put(gemOk) THEN [pipe EXCEPT ![p] = d] ELSE pipe
        /\ kernel' = [kernel EXCEPT ![d] =
             IF accept /\ Put(gemOk) THEN [K(set) EXCEPT !.wait = [plane |-> p, fb |-> "cur"]] ELSE K(set)]
        /\ release' = [release EXCEPT ![d] =
             IF accept THEN [for |-> buf, done |-> ~Put(gemOk)]
                       ELSE [release[d] EXCEPT !.done = @ \/ Flushed(set)]]
        /\ refused' = [refused EXCEPT ![d] = IF (accept /\ Put(gemOk)) \/ @ = 2 THEN @ ELSE @ + 1]
  BY ZenonT(60) DEF Drm!ApplyCommit
<1> DEFINE put == apply /\ gemOk
           done == accept /\ put
           k0 == kernel[d]
           sc == IF ~ apply THEN k0.scan
                 ELSE IF k0.wait.fb = "last" \/ k0.scan.fb # "cur" THEN Nothing
                 ELSE [plane |-> k0.scan.plane, fb |-> "last"]
           w == IF ~ apply THEN k0.wait
                ELSE IF k0.wait.fb = "cur" THEN [plane |-> k0.wait.plane, fb |-> "last"] ELSE Nothing
           w1 == IF done THEN [plane |-> p, fb |-> "cur"] ELSE w
           g0 == gem[d]
           g1 == IF apply THEN [cur |-> IF gemOk THEN buf ELSE Invalid, last |-> g0.cur] ELSE g0
           r0 == release[d]
           r1 == IF accept THEN [for |-> buf, done |-> ~put]
                 ELSE [for |-> r0.for, done |-> r0.done \/ (w = Nothing /\ k0.wait # Nothing)]
           n0 == refused[d]
           n1 == IF done \/ n0 = 2 THEN n0 ELSE n0 + 1
<1> DEFINE GB == Drm(Ds, Bs, Fs)!GemBuffers
           AB == Drm(Ds, Bs, Fs)!AllBuffers
<1>2. /\ kernel \in [Ds -> CrtcStates] /\ gem \in [Ds -> [cur : GB, last : GB]]
      /\ release \in [Ds -> [for : AB \cup {None}, done : BOOLEAN]]
      /\ refused \in [Ds -> 0 .. 2] /\ pipe \in [{p1, o1} -> Ds \cup {None}]
  BY DEF DrmIndTypes, Drm!DrmTypeOK
<1>3. k0 \in CrtcStates /\ k0.scan \in Picture /\ k0.wait \in Picture /\ k0.active \in BOOLEAN
      /\ k0 = [active |-> k0.active, scan |-> k0.scan, wait |-> k0.wait]
  BY <1>2 DEF CrtcStates
<1>4. ASSUME NEW x \in Picture
      PROVE  /\ x = Nothing <=> x.fb = None
             /\ x # Nothing => x.plane \in {p1, o1} /\ x.fb \in {"cur", "last"}
             /\ "cur" # "last" /\ None # "cur" /\ None # "last" /\ Nothing.fb = None
  BY DrmAssumption DEF Picture, Nothing
<1>5. /\ Drm(Ds, Bs, Fs)!NoPlane = Nothing
      /\ Drm(Ds, Bs, Fs)!DropLast(k0) =
              [active |-> k0.active,
               scan |-> IF k0.wait.fb = "last" \/ k0.scan.fb # "cur" THEN Nothing
                        ELSE [plane |-> k0.scan.plane, fb |-> "last"],
               wait |-> IF k0.wait.fb = "cur" THEN [plane |-> k0.wait.plane, fb |-> "last"]
                        ELSE Nothing]
  BY <1>3, KernelSteps
<1>6. K(set) = [active |-> k0.active \/ set, scan |-> sc, wait |-> w]
  <2>1. CASE apply  BY <1>5, <2>1
  <2>2. CASE ~ apply  BY <1>3, <2>2
  <2> QED  BY <2>1, <2>2
<1>7. apply => \E j \in ps : /\ p = PlaneAt[j] /\ p \in {p1, o1} /\ pipe[p] \in {None, d}
                             /\ planeCrtc[p] \in {None, d}
  BY FirstIsUsable
<1>8. accept => w = Nothing  BY <1>1, <1>5, <1>6
<1>9. /\ kernel' = [kernel EXCEPT ![d] = [active |-> k0.active \/ set, scan |-> sc, wait |-> w1]]
      /\ gem' = [gem EXCEPT ![d] = g1]
      /\ release' = [release EXCEPT ![d] = r1]
      /\ refused' = [refused EXCEPT ![d] = n1]
  <2>1. IF done THEN [K(set) EXCEPT !.wait = [plane |-> p, fb |-> "cur"]] = [active |-> k0.active \/ set, scan |-> sc, wait |-> w1]
        ELSE K(set) = [active |-> k0.active \/ set, scan |-> sc, wait |-> w1]
    <3>1. CASE done
      <4>1. w1 = [plane |-> p, fb |-> "cur"]  BY <3>1
      <4> HIDE DEF w, w1, sc, done, K
      <4> QED  BY <1>6, <3>1, <4>1
    <3>2. CASE ~ done
      <4>1. w1 = w  BY <3>2
      <4> HIDE DEF w, w1, sc, done, K
      <4> QED  BY <1>6, <3>2, <4>1
    <3> QED  BY <3>1, <3>2
  <2>2. G(gemOk) = g1  BY DEF Drm!GetGemBuffer
  <2>3. r0 = [for |-> r0.for, done |-> r0.done]  BY <1>2
  <2>4. Flushed(set) <=> w = Nothing /\ k0.wait # Nothing  BY <1>5, <1>6
  <2>5. [release EXCEPT ![d] = IF accept THEN [for |-> buf, done |-> ~Put(gemOk)]
                       ELSE [release[d] EXCEPT !.done = @ \/ Flushed(set)]] = [release EXCEPT ![d] = r1]
    <3>1. CASE accept  BY <3>1
    <3>2. CASE ~ accept
      <4>1. [release[d] EXCEPT !.done = @ \/ Flushed(set)] = r1
        <5> HIDE DEF Flushed, w
        <5> QED  BY <2>3, <2>4, <3>2
      <4>2. [release EXCEPT ![d] = IF accept THEN [for |-> buf, done |-> ~Put(gemOk)]
                       ELSE [release[d] EXCEPT !.done = @ \/ Flushed(set)]]
             = [release EXCEPT ![d] = [release[d] EXCEPT !.done = @ \/ Flushed(set)]]
        <5> HIDE DEF Flushed, Put
        <5> QED  BY <3>2
      <4> HIDE DEF Flushed, r1
      <4> QED  BY <4>1, <4>2
    <3> QED  BY <3>1, <3>2
  <2>6. kernel' = [kernel EXCEPT ![d] = [active |-> k0.active \/ set, scan |-> sc, wait |-> w1]]
    BY <1>1, <2>1
  <2>7. gem' = [gem EXCEPT ![d] = g1]  BY <1>1, <2>2
  <2> QED  BY <1>1, <2>5, <2>6, <2>7
<1>10. sc \in Picture /\ w \in Picture /\ w1 \in Picture
  <2>1. Nothing \in Picture  BY DEF Picture
  <2>2. k0.scan.fb = "cur" => [plane |-> k0.scan.plane, fb |-> "last"] \in Picture
    BY <1>3, <1>4 DEF Picture
  <2>3. k0.wait.fb = "cur" => [plane |-> k0.wait.plane, fb |-> "last"] \in Picture
    BY <1>3, <1>4 DEF Picture
  <2>4. apply => [plane |-> p, fb |-> "cur"] \in Picture  BY <1>7 DEF Picture
  <2> QED  BY <2>1, <2>2, <2>3, <2>4, <1>3
<1> HIDE DEF K, G, Put, Flushed
(* the types *)
<1>11. /\ kernel' \in [Ds -> CrtcStates] /\ kernel'[d] = [active |-> k0.active \/ set, scan |-> sc, wait |-> w1]
       /\ \A e \in Ds \ {d} : kernel'[e] = kernel[e]
  <2>1. [active |-> k0.active \/ set, scan |-> sc, wait |-> w1] \in CrtcStates
    <3> HIDE DEF sc, w1
    <3> QED  BY <1>3, <1>10 DEF CrtcStates
  <2> HIDE DEF sc, w1
  <2> QED  BY <1>2, <1>9, <2>1
<1>12. /\ gem' \in [Ds -> [cur : GB, last : GB]] /\ gem'[d] = g1
       /\ \A e \in Ds \ {d} : gem'[e] = gem[e]
  <2>1. g1 \in [cur : GB, last : GB]  BY <1>1, <1>2 DEF Drm!GemBuffers, Drm!AllBuffers
  <2> HIDE DEF g1, GB
  <2> QED  BY <1>2, <1>9, <2>1
<1>13. /\ release' \in [Ds -> [for : AB \cup {None}, done : BOOLEAN]] /\ release'[d] = r1
       /\ \A e \in Ds \ {d} : release'[e] = release[e]
  <2>1. r1 \in [for : AB \cup {None}, done : BOOLEAN]
    <3>1. buf \in AB \cup {None}  BY DEF Drm!AllBuffers
    <3>2. r0.for \in AB \cup {None} /\ r0.done \in BOOLEAN  BY <1>2
    <3> HIDE DEF AB, w
    <3> QED  BY <3>1, <3>2
  <2> HIDE DEF r1, AB
  <2> QED  BY <1>2, <1>9, <2>1
<1>14. /\ refused' \in [Ds -> 0 .. 2] /\ refused'[d] = n1
       /\ \A e \in Ds \ {d} : refused'[e] = refused[e]
  <2>1. n1 \in 0 .. 2  BY <1>2
  <2> HIDE DEF n1
  <2> QED  BY <1>2, <1>9, <2>1
<1>15. /\ pipe' \in [{p1, o1} -> Ds \cup {None}]
       /\ \A x \in {p1, o1} : pipe'[x] = pipe[x] \/ (pipe[x] \in {None, d} /\ pipe'[x] = d)
       /\ put => pipe'[p] = d
  <2>0. pipe' = IF put THEN [pipe EXCEPT ![p] = d] ELSE pipe  BY <1>1 DEF Put
  <2>a. put => p \in {p1, o1} /\ pipe[p] \in {None, d}  BY <1>7
  <2>b. pipe \in [{p1, o1} -> Ds \cup {None}]  BY <1>2
  <2> HIDE DEF put, p
  <2>1. CASE put
    <3>1. pipe' = [pipe EXCEPT ![p] = d]  BY <2>0, <2>1
    <3> QED  BY <3>1, <2>a, <2>b, <2>1
  <2>2. CASE ~ put
    <3>1. pipe' = pipe  BY <2>0, <2>2
    <3> QED  BY <3>1, <2>b, <2>2
  <2> QED  BY <2>1, <2>2
(* the planes *)
<1> DEFINE Bound(x) == x # Nothing =>
             /\ pipe'[x.plane] = d
             /\ \E j \in ps : PlaneAt[j] = x.plane /\ planeCrtc[x.plane] \in {None, d}
<1>16. AreBound(d, ps)'
  <2>1. ASSUME NEW x \in Picture, BoundTo(d, ps, x) PROVE Bound(x)
    BY <1>4, <1>15, <2>1 DEF BoundTo
  <2>2. Bound(k0.scan) /\ Bound(k0.wait) /\ Bound(Nothing)
    <3>1. BoundTo(d, ps, k0.scan) /\ BoundTo(d, ps, k0.wait)  BY DEF AreBound
    <3> HIDE DEF Bound
    <3>2. Bound(k0.scan) /\ Bound(k0.wait)  BY <1>3, <2>1, <3>1
    <3>3. Bound(Nothing)  BY DEF Bound
    <3> QED  BY <3>2, <3>3
  <2>3. Bound(sc) /\ Bound(w)
    <3>1. k0.scan.fb = "cur" => Bound([plane |-> k0.scan.plane, fb |-> "last"])
      BY <1>3, <1>4, <2>2
    <3>2. k0.wait.fb = "cur" => Bound([plane |-> k0.wait.plane, fb |-> "last"])
      BY <1>3, <1>4, <2>2
    <3> HIDE DEF Bound
    <3> QED  BY <2>2, <3>1, <3>2
  <2>4. Bound(w1)
    <3>1. put => Bound([plane |-> p, fb |-> "cur"])  BY <1>7, <1>15
    <3> HIDE DEF Bound
    <3> QED  BY <2>3, <3>1
  <2>5. kernel'[d].scan = sc /\ kernel'[d].wait = w1
    <3> HIDE DEF sc, w1
    <3> QED  BY <1>11
  <2> HIDE DEF sc, w1, w
  <2> QED  BY <2>3, <2>4, <2>5 DEF AreBound, BoundTo
(* and what follows what *)
<1>17. ~ apply => sc = k0.scan /\ w = k0.wait /\ g1 = g0 /\ k0.scan = Nothing /\ k0.wait = Nothing
  <2> SUFFICES ASSUME ~ apply PROVE k0.scan = Nothing /\ k0.wait = Nothing  OBVIOUS
  <2>1. ASSUME NEW x \in Picture, BoundTo(d, ps, x), x # Nothing PROVE FALSE
    <3>1. PICK j \in ps : PlaneAt[j] = x.plane /\ planeCrtc[x.plane] \in {None, d} /\ pipe[x.plane] = d
      BY <2>1 DEF BoundTo
    <3>2. j \in Drm(Ds, Bs, Fs)!Usable(d, ps)  BY <3>1, PlanesInOrder DEF Drm!Usable
    <3> QED  BY <3>2
  <2>2. BoundTo(d, ps, k0.scan) /\ BoundTo(d, ps, k0.wait)  BY DEF AreBound
  <2> QED  BY <1>3, <2>1, <2>2
<1>18. /\ k0.scan.fb \in {None, "cur", "last"} /\ k0.wait.fb \in {None, "cur", "last"}
       /\ k0.scan = Nothing <=> k0.scan.fb = None
       /\ k0.wait = Nothing <=> k0.wait.fb = None
       /\ w1 = Nothing <=> w1.fb = None
       /\ "cur" # "last" /\ None # "cur" /\ None # "last" /\ Nothing.fb = None
  <2>1. Nothing.fb = None  BY DEF Nothing
  <2> HIDE DEF w1
  <2> QED  BY <1>3, <1>4, <1>10, <2>1
<1>19. /\ sc.fb = IF ~ apply THEN k0.scan.fb
                  ELSE IF k0.wait.fb = "last" \/ k0.scan.fb # "cur" THEN None ELSE "last"
       /\ w1.fb = IF done THEN "cur"
                  ELSE IF ~ apply THEN k0.wait.fb
                  ELSE IF k0.wait.fb = "cur" THEN "last" ELSE None
       /\ w = Nothing <=> IF apply THEN k0.wait.fb # "cur" ELSE k0.wait = Nothing
  BY <1>18
<1>20. /\ g1.cur = IF apply THEN IF gemOk THEN buf ELSE Invalid ELSE g0.cur
       /\ g1.last = IF apply THEN g0.cur ELSE g0.last
       /\ r1.for = IF accept THEN buf ELSE r0.for
       /\ r1.done = IF accept THEN ~ put ELSE r0.done \/ (w = Nothing /\ k0.wait # Nothing)
       /\ apply => buf # None
       /\ Invalid # None
  BY DrmAssumption
<1>21. FramesFollow(d)'
  <2>1. /\ kernel'[d].scan = sc /\ kernel'[d].wait = w1 /\ gem'[d] = g1 /\ release'[d] = r1
        /\ refused'[d] = n1
    <3> HIDE DEF sc, w1, g1, r1, n1
    <3> QED  BY <1>11, <1>12, <1>13, <1>14
  <2>2. n0 \in 0 .. 2  BY <1>2
  <2>3. /\ n0 = 0 /\ k0.wait # Nothing => k0.wait.fb = "cur" /\ (g0.last # None => k0.scan.fb = "last")
        /\ n0 = 0 /\ k0.wait = Nothing /\ g0.cur # None => k0.scan.fb = "cur"
        /\ n0 = 1 /\ k0.wait = Nothing /\ g0.last # None => k0.scan.fb = "last"
        /\ k0.wait.fb = "cur" => g0.cur = r0.for
        /\ n0 = 0 /\ r0.done => k0.wait = Nothing /\ k0.scan.fb = "cur" /\ g0.cur = r0.for
        /\ g0.last # None => g0.cur # None
    BY DEF FramesFollow
  <2>4. n1 = 0 => n0 = 0 /\ done  BY <2>2
  <2>5. n1 = 1 => IF done THEN n0 = 1 ELSE n0 = 0  BY <2>2
  <2>6. done => w = Nothing /\ apply /\ gemOk /\ accept  BY <1>8
  <2> HIDE DEF sc, w, w1, g0, r0, g1, r1, n0, n1, k0, p
  <2>7. n1 = 0 /\ w1 # Nothing => w1.fb = "cur" /\ (g1.last # None => sc.fb = "last")
    BY <1>18, <1>19, <1>20, <2>3, <2>4, <2>6
  <2>8. ~ (n1 = 0 /\ w1 = Nothing)
    BY <1>18, <1>19, <2>4
  <2>9. n1 = 1 /\ w1 = Nothing /\ g1.last # None => sc.fb = "last"
    BY <1>17, <1>18, <1>19, <1>20, <2>3, <2>5
  <2>10. w1.fb = "cur" => g1.cur = r1.for
    BY <1>17, <1>18, <1>19, <1>20, <2>3, <2>6
  <2>11. ~ (n1 = 0 /\ r1.done)
    BY <1>20, <2>4, <2>6
  <2>12. g1.last # None => g1.cur # None
    BY <1>20, <2>3
  <2> QED  BY <2>1, <2>7, <2>8, <2>9, <2>10, <2>11, <2>12 DEF FramesFollow
<1>22. Drm(Ds, Bs, Fs)!UpdateMode(d, m, TRUE) \/ Drm(Ds, Bs, Fs)!UpdateMode(d, m, FALSE)
  BY <1>1, set = TRUE \/ set = FALSE
<1> HIDE DEF sc, w, w1, g0, r0, g1, r1, n0, n1, k0, p, apply
<1> QED  BY <1>11, <1>12, <1>13, <1>14, <1>15, <1>16, <1>21, <1>22

(* What happens at one display leaves the others' as they are.               *)
LEMMA OtherDisplays ==
  ASSUME NEW d, NEW e, e # d, e # None, DrmIndOf(e),
         kernel[e] \in CrtcStates,
         kernel'[e] = kernel[e], gem'[e] = gem[e], release'[e] = release[e],
         refused'[e] = refused[e], found'[e] = found[e], planes'[e] = planes[e],
         clientBuf'[e] # None \/ clientBuf'[e] = clientBuf[e], planeCrtc' = planeCrtc,
         \A p \in {p1, o1} : pipe'[p] = pipe[p] \/ (pipe[p] \in {None, d} /\ pipe'[p] = d)
  PROVE  DrmIndOf(e)'
<1>1. FramesFollow(e)'  BY DEF FramesFollow, DrmIndOf
<1>2. ASSUME NEW x \in Picture, x # Nothing PROVE x.plane \in {p1, o1}  BY <1>2 DEF Picture
<1>3. kernel[e].scan \in Picture /\ kernel[e].wait \in Picture  BY DEF CrtcStates
<1>4. kernel[e].scan # Nothing => pipe'[kernel[e].scan.plane] = pipe[kernel[e].scan.plane]
  BY <1>2, <1>3 DEF DrmIndOf, AreBound, BoundTo
<1>5. kernel[e].wait # Nothing => pipe'[kernel[e].wait.plane] = pipe[kernel[e].wait.plane]
  BY <1>2, <1>3 DEF DrmIndOf, AreBound, BoundTo
<1>6. AreBound(e, planes[e])'
  BY <1>4, <1>5 DEF DrmIndOf, AreBound, BoundTo
<1>7. Untouched(e) => Untouched(e)'  BY DEF Untouched
<1> QED  BY <1>1, <1>6, <1>7 DEF DrmIndOf

(* An Apply that returns early may have set the mode of the crtc, no more.   *)
LEMMA EarlyKeeps ==
  ASSUME NEW Ds, NEW Bs, NEW Fs, NEW d \in Ds, NEW m \in Modes, kernel \in [Ds -> CrtcStates],
         Drm(Ds, Bs, Fs)!ApplyEarly(d, m)
  PROVE  /\ gem' = gem /\ pipe' = pipe /\ release' = release /\ refused' = refused
         /\ kernel' \in [Ds -> CrtcStates] /\ \A e \in Ds \ {d} : kernel'[e] = kernel[e]
         /\ kernel'[d].scan = kernel[d].scan /\ kernel'[d].wait = kernel[d].wait
         /\ Drm(Ds, Bs, Fs)!UpdateMode(d, m, TRUE) \/ Drm(Ds, Bs, Fs)!UpdateMode(d, m, FALSE)
<1>1. PICK set \in BOOLEAN : /\ Drm(Ds, Bs, Fs)!UpdateMode(d, m, set)
                             /\ kernel' = [kernel EXCEPT ![d].active = @ \/ set]
  BY DEF Drm!ApplyEarly
<1>2. kernel[d] = [active |-> kernel[d].active, scan |-> kernel[d].scan, wait |-> kernel[d].wait]
      /\ kernel[d].active \in BOOLEAN /\ kernel[d].scan \in Picture /\ kernel[d].wait \in Picture
  BY DEF CrtcStates
<1> DEFINE k == [active |-> kernel[d].active \/ set, scan |-> kernel[d].scan, wait |-> kernel[d].wait]
<1>3. kernel' = [kernel EXCEPT ![d] = k]
  <2>1. [kernel[d] EXCEPT !.active = @ \/ set] = k  BY <1>2
  <2>2. kernel' = [kernel EXCEPT ![d] = [kernel[d] EXCEPT !.active = @ \/ set]]  BY <1>1
  <2> QED  BY <2>1, <2>2
<1>4. k \in CrtcStates  BY <1>2 DEF CrtcStates
<1>5. Drm(Ds, Bs, Fs)!UpdateMode(d, m, TRUE) \/ Drm(Ds, Bs, Fs)!UpdateMode(d, m, FALSE)
  BY <1>1, set = TRUE \/ set = FALSE
<1>6. gem' = gem /\ pipe' = pipe /\ release' = release /\ refused' = refused  BY DEF Drm!ApplyEarly
<1> QED  BY <1>3, <1>4, <1>5, <1>6

(* The mode of a display is one of its three after an Apply.                 *)
LEMMA ModeIsOne ==
  ASSUME NEW Ds, NEW Bs, NEW Fs, NEW d \in Ds, NEW m \in Modes,
         mode \in [Ds -> Modes],
         Drm(Ds, Bs, Fs)!UpdateMode(d, m, TRUE) \/ Drm(Ds, Bs, Fs)!UpdateMode(d, m, FALSE)
  PROVE  mode' \in [Ds -> Modes]
BY DEF Drm!UpdateMode, Modes

(* Nothing is bound to a display that is not discovered; what it is given is *)
(* kept.                                                                     *)
LEMMA DiscoveryKeeps ==
  ASSUME NEW Ds, NEW Bs, NEW Fs, NEW d \in Ds, DrmInductive(Ds, Bs, Fs), None \notin Ds, None \notin Bs,
         ~ crashed, Drm(Ds, Bs, Fs)!DiscoveryDisplay(d)
  PROVE  DrmInductive(Ds, Bs, Fs)'
<1> USE DrmAssumption
<1> DEFINE ps == Drm(Ds, Bs, Fs)!GetDrmPlane(d)
<1>1. /\ DrmIndTypes(Ds, Bs, Fs) /\ Drm(Ds, Bs, Fs)!DrmTypeOK /\ kernel \in [Ds -> CrtcStates]
      /\ planes \in [Ds -> SUBSET (1 .. 2)] /\ pipe \in [{p1, o1} -> Ds \cup {None}]
      /\ \A e \in Ds : DrmIndOf(e)
  BY DEF DrmInductive, DrmIndTypes
<1>2. ps \in SUBSET (1 .. 2)  BY PlanesInOrder DEF Drm!GetDrmPlane, PlaneAt
<1>3. found[d] = "no" /\ Untouched(d) /\ FramesFollow(d) /\ crashed' = crashed /\ planeCrtc' = planeCrtc
  BY <1>1 DEF DrmIndOf, Drm!DiscoveryDisplay
<1>4. AreBound(d, {}) /\ AreBound(d, ps)  BY <1>3 DEF AreBound, BoundTo, Untouched
<1>5. CASE Drm(Ds, Bs, Fs)!InitFails(d)
  <2>1. /\ UNCHANGED <<clientBuf, gem, pipe, release, kernel, refused>>
        /\ found' \in [Ds -> {"no", "ok", "noComposer", "noFrame"}] /\ found'[d] \in {"noComposer", "noFrame"}
        /\ \A e \in Ds \ {d} : found'[e] = found[e]
        /\ planes' \in [Ds -> SUBSET (1 .. 2)] /\ \A e \in Ds \ {d} : planes'[e] = planes[e]
        /\ mode' \in [Ds -> Modes]
    <3>1. CASE found' = [found EXCEPT ![d] = "noComposer"] /\ UNCHANGED <<mode, planes>>
      BY <1>1, <1>5, <3>1 DEF Modes, Drm!InitFails, Drm!cardVars, Drm!DrmTypeOK
    <3>2. CASE /\ found' = [found EXCEPT ![d] = "noFrame"]
               /\ planes' = [planes EXCEPT ![d] = ps]
               /\ \E m \in {"none", "chosen"} : mode' = [mode EXCEPT ![d] = m]
      <4> HIDE DEF ps
      <4> QED  BY <1>1, <1>2, <1>5, <3>2 DEF Modes, Drm!InitFails, Drm!cardVars, Drm!DrmTypeOK
    <3> QED  BY <1>5, <3>1, <3>2 DEF Drm!InitFails
  <2>2. DrmIndTypes(Ds, Bs, Fs)'
    BY <1>1, <1>3, <2>1 DEF DrmIndTypes, Modes, Drm!DrmTypeOK, Drm!GemBuffers, Drm!AllBuffers
  <2>3. DrmIndOf(d)'
    <3>1. FramesFollow(d)'  BY <1>3, <2>1 DEF FramesFollow
    <3>2. AreBound(d, planes[d])'  BY <1>3, <2>1 DEF AreBound, BoundTo, Untouched
    <3> QED  BY <2>1, <3>1, <3>2 DEF DrmIndOf
  <2>4. ASSUME NEW e \in Ds, e # d PROVE DrmIndOf(e)'
    BY <1>1, <1>3, <2>1, <2>4, OtherDisplays
  <2> QED  BY <1>3, <2>2, <2>3, <2>4 DEF DrmInductive
<1>6. CASE Drm(Ds, Bs, Fs)!PushFirstFrame(d)
  <2>1. /\ found' \in [Ds -> {"no", "ok", "noComposer", "noFrame"}] /\ found'[d] = "ok"
        /\ \A e \in Ds \ {d} : found'[e] = found[e]
        /\ planes' \in [Ds -> SUBSET (1 .. 2)] /\ planes'[d] = ps
        /\ \A e \in Ds \ {d} : planes'[e] = planes[e]
        /\ clientBuf' \in [Ds -> Drm(Ds, Bs, Fs)!AllBuffers \cup {None}] /\ clientBuf'[d] = b0
        /\ \A e \in Ds \ {d} : clientBuf'[e] = clientBuf[e]
    <3>1. b0 \in Drm(Ds, Bs, Fs)!AllBuffers  BY DEF Drm!AllBuffers
    <3>2. /\ found' = [found EXCEPT ![d] = "ok"]
          /\ planes' = [planes EXCEPT ![d] = ps]
          /\ clientBuf' = [clientBuf EXCEPT ![d] = b0]
      BY <1>6 DEF Drm!PushFirstFrame
    <3> HIDE DEF ps
    <3> QED  BY <1>1, <1>2, <3>1, <3>2 DEF Drm!DrmTypeOK
  <2>2. CASE Drm(Ds, Bs, Fs)!ApplyEarly(d, "chosen")
    <3>1. /\ gem' = gem /\ pipe' = pipe /\ release' = release /\ refused' = refused
          /\ kernel' \in [Ds -> CrtcStates] /\ \A e \in Ds \ {d} : kernel'[e] = kernel[e]
          /\ kernel'[d].scan = kernel[d].scan /\ kernel'[d].wait = kernel[d].wait
          /\ Drm(Ds, Bs, Fs)!UpdateMode(d, "chosen", TRUE) \/ Drm(Ds, Bs, Fs)!UpdateMode(d, "chosen", FALSE)
      <4>1. "chosen" \in Modes  BY DEF Modes
      <4> QED  BY <1>1, <2>2, <4>1, EarlyKeeps
    <3>2. mode' \in [Ds -> Modes]
      BY <1>1, <3>1, ModeIsOne DEF Drm!DrmTypeOK, Modes
    <3>3. DrmIndTypes(Ds, Bs, Fs)'
      BY <1>1, <1>3, <2>1, <3>1, <3>2 DEF DrmIndTypes, Modes, Drm!DrmTypeOK, Drm!GemBuffers, Drm!AllBuffers
    <3>4. DrmIndOf(d)'
      <4>1. FramesFollow(d)'  BY <1>3, <3>1 DEF FramesFollow
      <4>2. AreBound(d, planes[d])'  BY <1>3, <3>1 DEF AreBound, BoundTo, Untouched
      <4> QED  BY <2>1, <4>1, <4>2 DEF DrmIndOf
    <3>5. ASSUME NEW e \in Ds, e # d PROVE DrmIndOf(e)'
      <4>1. /\ DrmIndOf(e) /\ kernel[e] \in CrtcStates /\ e # None
            /\ kernel'[e] = kernel[e] /\ found'[e] = found[e] /\ planes'[e] = planes[e]
            /\ clientBuf'[e] = clientBuf[e]
        BY <1>1, <2>1, <3>1, <3>5
      <4> QED  BY <1>3, <3>1, <3>5, <4>1, OtherDisplays
    <3> QED  BY <1>3, <3>3, <3>4, <3>5 DEF DrmInductive
  <2>3. CASE Drm(Ds, Bs, Fs)!ApplyCommit(d, "chosen", ps, b0)
    <3> SUFFICES ASSUME NEW q \in SUBSET (1 .. 2), q = ps PROVE DrmInductive(Ds, Bs, Fs)'  BY <1>2
    <3>0. AreBound(d, q) /\ Drm(Ds, Bs, Fs)!ApplyCommit(d, "chosen", q, b0) /\ planes'[d] = q
      <4> HIDE DEF ps
      <4> QED  BY <1>4, <2>1, <2>3
    <3> HIDE DEF ps
    <3>1. /\ FramesFollow(d)' /\ AreBound(d, q)'
          /\ kernel' \in [Ds -> CrtcStates] /\ \A e \in Ds \ {d} : kernel'[e] = kernel[e]
          /\ pipe' \in [{p1, o1} -> Ds \cup {None}]
          /\ \A p \in {p1, o1} : pipe'[p] = pipe[p] \/ (pipe[p] \in {None, d} /\ pipe'[p] = d)
          /\ gem' \in [Ds -> [cur : Drm(Ds, Bs, Fs)!GemBuffers, last : Drm(Ds, Bs, Fs)!GemBuffers]]
          /\ \A e \in Ds \ {d} : gem'[e] = gem[e]
          /\ release' \in [Ds -> [for : Drm(Ds, Bs, Fs)!AllBuffers \cup {None}, done : BOOLEAN]]
          /\ \A e \in Ds \ {d} : release'[e] = release[e]
          /\ refused' \in [Ds -> 0 .. 2] /\ \A e \in Ds \ {d} : refused'[e] = refused[e]
          /\ Drm(Ds, Bs, Fs)!UpdateMode(d, "chosen", TRUE) \/ Drm(Ds, Bs, Fs)!UpdateMode(d, "chosen", FALSE)
      <4>1. "chosen" \in Modes  BY DEF Modes
      <4>2. DrmIndTypes(Ds, Bs, Fs) /\ FramesFollow(d) /\ d # None /\ b0 # None /\ b0 \in Bs \cup {b0, None}
            /\ planeCrtc' = planeCrtc
        BY <1>1, <1>3
      <4> QED  BY <3>0, <4>1, <4>2, CommitKeeps
    <3>2. mode' \in [Ds -> Modes]
      BY <1>1, <3>1, ModeIsOne DEF Drm!DrmTypeOK, Modes
    <3>3. DrmIndTypes(Ds, Bs, Fs)'
      <4>1. Drm(Ds, Bs, Fs)!DrmTypeOK'
        BY <1>1, <1>3, <2>1, <3>1, <3>2 DEF Modes, Drm!DrmTypeOK, Drm!GemBuffers, Drm!AllBuffers
      <4> QED  BY <2>1, <3>1, <4>1 DEF DrmIndTypes
    <3>4. DrmIndOf(d)'
      <4>1. AreBound(d, planes[d])'  BY <3>0, <3>1 DEF AreBound, BoundTo
      <4> QED  BY <2>1, <3>1, <4>1 DEF DrmIndOf
    <3>5. ASSUME NEW e \in Ds, e # d PROVE DrmIndOf(e)'
      <4>1. /\ DrmIndOf(e) /\ kernel[e] \in CrtcStates /\ e # None
            /\ kernel'[e] = kernel[e] /\ gem'[e] = gem[e] /\ release'[e] = release[e] /\ refused'[e] = refused[e]
            /\ found'[e] = found[e] /\ planes'[e] = planes[e] /\ clientBuf'[e] = clientBuf[e]
        BY <1>1, <2>1, <3>1, <3>5
      <4> QED  BY <1>3, <3>1, <3>5, <4>1, OtherDisplays
    <3> QED  BY <1>3, <3>3, <3>4, <3>5 DEF DrmInductive
  <2> QED  BY <1>6, <2>2, <2>3 DEF Drm!PushFirstFrame
<1> QED  BY <1>5, <1>6 DEF Drm!DiscoveryDisplay

(* What Apply leaves for a display that was discovered, and for the others.  *)
LEMMA ApplyKeeps ==
  ASSUME NEW Ds, NEW Bs, NEW Fs, NEW d \in Ds, DrmInductive(Ds, Bs, Fs), None \notin Ds,
         ~ crashed, Drm(Ds, Bs, Fs)!Discovered, Drm(Ds, Bs, Fs)!DrmCommit(d)
  PROVE  DrmInductive(Ds, Bs, Fs)'
<1> USE DrmAssumption
<1>1. /\ DrmIndTypes(Ds, Bs, Fs) /\ Drm(Ds, Bs, Fs)!DrmTypeOK /\ kernel \in [Ds -> CrtcStates]
      /\ planes \in [Ds -> SUBSET (1 .. 2)] /\ pipe \in [{p1, o1} -> Ds \cup {None}]
      /\ \A e \in Ds : DrmIndOf(e)
      /\ mode \in [Ds -> Modes]
      /\ clientBuf \in [Ds -> Drm(Ds, Bs, Fs)!AllBuffers \cup {None}]
  BY DEF DrmInductive, DrmIndTypes, Drm!DrmTypeOK, Modes
<1>2. /\ found' = found /\ clientBuf' = clientBuf /\ planes' = planes /\ planeCrtc' = planeCrtc
      /\ found[d] # "no" /\ FramesFollow(d) /\ AreBound(d, planes[d])
      /\ found[d] = "ok" => clientBuf[d] # None
      /\ found[d] \in {"no", "ok", "noComposer", "noFrame"}
  BY <1>1 DEF DrmIndOf, Drm!DrmCommit, Drm!Discovered, Drm!DrmTypeOK
<1> DEFINE Crashing == /\ found[d] \in {"noComposer", "noFrame"} /\ crashed' = TRUE
                       /\ mode' = mode /\ UNCHANGED <<gem, pipe, release, kernel, refused>>
<1>3. CASE Crashing
  <2>1. DrmIndTypes(Ds, Bs, Fs)'
    BY <1>1, <1>2, <1>3 DEF DrmIndTypes, Modes, Drm!DrmTypeOK, Drm!GemBuffers, Drm!AllBuffers
  <2>2. ASSUME NEW e \in Ds PROVE DrmIndOf(e)'
    BY <1>1, <1>2, <1>3 DEF DrmIndOf, FramesFollow, AreBound, BoundTo, Untouched
  <2> QED  BY <1>2, <1>3, <2>1, <2>2 DEF DrmInductive
<1>4. ASSUME NEW m \in Modes, Drm(Ds, Bs, Fs)!ApplyEarly(d, m), crashed' = crashed
      PROVE  DrmInductive(Ds, Bs, Fs)'
  <2>1. /\ gem' = gem /\ pipe' = pipe /\ release' = release /\ refused' = refused
        /\ kernel' \in [Ds -> CrtcStates] /\ \A e \in Ds \ {d} : kernel'[e] = kernel[e]
        /\ kernel'[d].scan = kernel[d].scan /\ kernel'[d].wait = kernel[d].wait
        /\ mode' \in [Ds -> Modes]
    <3>0. kernel \in [Ds -> CrtcStates] /\ Drm(Ds, Bs, Fs)!ApplyEarly(d, m) /\ d \in Ds /\ m \in Modes
      BY <1>1, <1>4
    <3>1. /\ gem' = gem /\ pipe' = pipe /\ release' = release /\ refused' = refused
          /\ kernel' \in [Ds -> CrtcStates] /\ \A e \in Ds \ {d} : kernel'[e] = kernel[e]
          /\ kernel'[d].scan = kernel[d].scan /\ kernel'[d].wait = kernel[d].wait
          /\ Drm(Ds, Bs, Fs)!UpdateMode(d, m, TRUE) \/ Drm(Ds, Bs, Fs)!UpdateMode(d, m, FALSE)
      BY <3>0, EarlyKeeps
    <3>3. mode' \in [Ds -> Modes]
      BY <1>1, <3>0, <3>1, ModeIsOne
    <3> QED  BY <3>1, <3>3
  <2>2. DrmIndTypes(Ds, Bs, Fs)'
    BY <1>1, <1>2, <2>1, <1>4 DEF DrmIndTypes, Modes, Drm!DrmTypeOK, Drm!GemBuffers, Drm!AllBuffers
  <2>3. DrmIndOf(d)'
    <3>1. FramesFollow(d)'  BY <1>2, <2>1 DEF FramesFollow
    <3>2. AreBound(d, planes[d])'  BY <1>2, <2>1 DEF AreBound, BoundTo
    <3> QED  BY <1>2, <3>1, <3>2 DEF DrmIndOf
  <2>4. ASSUME NEW e \in Ds, e # d PROVE DrmIndOf(e)'
    <3>1. /\ DrmIndOf(e) /\ kernel[e] \in CrtcStates /\ e # None /\ kernel'[e] = kernel[e]
      BY <1>1, <2>1, <2>4
    <3> QED  BY <1>2, <2>1, <2>4, <3>1, OtherDisplays
  <2> QED  BY <1>4, <1>2, <2>2, <2>3, <2>4 DEF DrmInductive
<1>5. ASSUME NEW m \in Modes, NEW q \in SUBSET (1 .. 2), q = planes[d],
             NEW buf \in Bs \cup {b0, None}, buf = clientBuf[d],
             buf # None \/ Drm(Ds, Bs, Fs)!Usable(d, q) = {},
             Drm(Ds, Bs, Fs)!ApplyCommit(d, m, q, buf), crashed' = crashed
      PROVE  DrmInductive(Ds, Bs, Fs)'
  <2>1. /\ FramesFollow(d)' /\ AreBound(d, q)'
        /\ kernel' \in [Ds -> CrtcStates] /\ \A e \in Ds \ {d} : kernel'[e] = kernel[e]
        /\ pipe' \in [{p1, o1} -> Ds \cup {None}]
        /\ \A p \in {p1, o1} : pipe'[p] = pipe[p] \/ (pipe[p] \in {None, d} /\ pipe'[p] = d)
        /\ gem' \in [Ds -> [cur : Drm(Ds, Bs, Fs)!GemBuffers, last : Drm(Ds, Bs, Fs)!GemBuffers]]
        /\ \A e \in Ds \ {d} : gem'[e] = gem[e]
        /\ release' \in [Ds -> [for : Drm(Ds, Bs, Fs)!AllBuffers \cup {None}, done : BOOLEAN]]
        /\ \A e \in Ds \ {d} : release'[e] = release[e]
        /\ refused' \in [Ds -> 0 .. 2] /\ \A e \in Ds \ {d} : refused'[e] = refused[e]
        /\ Drm(Ds, Bs, Fs)!UpdateMode(d, m, TRUE) \/ Drm(Ds, Bs, Fs)!UpdateMode(d, m, FALSE)
    <3>1. /\ AreBound(d, q) /\ d # None /\ DrmIndTypes(Ds, Bs, Fs) /\ FramesFollow(d) /\ planeCrtc' = planeCrtc
      BY <1>1, <1>2, <1>5
    <3>2. Drm(Ds, Bs, Fs)!Usable(d, q) = {} \/ buf # None  BY <1>5
    <3>3. buf \in Bs \cup {b0, None} /\ Drm(Ds, Bs, Fs)!ApplyCommit(d, m, q, buf)  BY <1>5
    <3> QED  BY <3>1, <3>2, <3>3, CommitKeeps
  <2>2. mode' \in [Ds -> Modes]  BY <1>1, <2>1, ModeIsOne
  <2>3. DrmIndTypes(Ds, Bs, Fs)'
    <3>1. Drm(Ds, Bs, Fs)!DrmTypeOK'
      BY <1>1, <1>2, <1>5, <2>1, <2>2 DEF Modes, Drm!DrmTypeOK, Drm!GemBuffers, Drm!AllBuffers
    <3> QED  BY <1>1, <1>2, <2>1, <3>1 DEF DrmIndTypes
  <2>4. DrmIndOf(d)'
    <3>1. AreBound(d, planes[d])'  BY <1>2, <1>5, <2>1 DEF AreBound, BoundTo
    <3> QED  BY <1>2, <2>1, <3>1 DEF DrmIndOf
  <2>5. ASSUME NEW e \in Ds, e # d PROVE DrmIndOf(e)'
    <3>1. /\ DrmIndOf(e) /\ kernel[e] \in CrtcStates /\ e # None
          /\ kernel'[e] = kernel[e] /\ gem'[e] = gem[e] /\ release'[e] = release[e] /\ refused'[e] = refused[e]
      BY <1>1, <2>1, <2>5
    <3> QED  BY <1>2, <2>1, <2>5, <3>1, OtherDisplays
  <2> QED  BY <1>2, <1>5, <2>3, <2>4, <2>5 DEF DrmInductive
<1>6. planes[d] \in SUBSET (1 .. 2) /\ clientBuf[d] \in Bs \cup {b0, None} /\ mode[d] \in Modes
  BY <1>1 DEF Drm!AllBuffers
<1>7. CASE Drm(Ds, Bs, Fs)!DrmApply(d)
  <2>1. CASE Drm(Ds, Bs, Fs)!ApplyEarly(d, mode[d]) /\ crashed' = crashed
    <3>1. PICK m \in Modes : m = mode[d]  BY <1>6
    <3>2. Drm(Ds, Bs, Fs)!ApplyEarly(d, m)  BY <2>1, <3>1 DEF Drm!ApplyEarly, Drm!UpdateMode
    <3> QED  BY <1>4, <2>1, <3>2
  <2>2. CASE /\ clientBuf[d] # None \/ Drm(Ds, Bs, Fs)!Usable(d, planes[d]) = {}
             /\ Drm(Ds, Bs, Fs)!ApplyCommit(d, mode[d], planes[d], clientBuf[d])
             /\ crashed' = crashed
    <3>1. PICK m \in Modes, q \in SUBSET (1 .. 2), buf \in Bs \cup {b0, None} :
             m = mode[d] /\ q = planes[d] /\ buf = clientBuf[d]
      BY <1>6
    <3>2. Drm(Ds, Bs, Fs)!ApplyCommit(d, m, q, buf)  BY <2>2, <3>1
    <3> QED  BY <1>5, <2>2, <3>1, <3>2
  <2>3. CASE /\ clientBuf[d] = None /\ Drm(Ds, Bs, Fs)!Usable(d, planes[d]) # {}
             /\ crashed' = TRUE /\ UNCHANGED <<mode, gem, pipe, release, kernel, refused>>
    BY <1>2, <1>3, <2>3
  <2> QED  BY <1>7, <2>1, <2>2, <2>3 DEF Drm!DrmApply, Drm!cardVars
<1>8. CASE found[d] = "noComposer" /\ crashed' = TRUE /\ UNCHANGED <<mode, gem, pipe, release, kernel, refused>>
  BY <1>3, <1>8
<1> QED  BY <1>7, <1>8 DEF Drm!DrmCommit, Drm!cardVars

(* A blank shows what waits: nothing is owed any more, and the fence of the  *)
(* frame tells the truth.  Without a frame that waits only the crtc may be   *)
(* switched on or off.                                                       *)
LEMMA ShownKeeps ==
  ASSUME NEW Ds, NEW Bs, NEW Fs, NEW d \in Ds, DrmInductive(Ds, Bs, Fs), None \notin Ds,
         NEW act \in BOOLEAN, found[d] # "no",
         kernel' = [kernel EXCEPT ![d] =
           [active |-> act, wait |-> Nothing,
            scan |-> IF kernel[d].wait = Nothing THEN kernel[d].scan ELSE kernel[d].wait]],
         release' = [release EXCEPT ![d] =
           [for |-> release[d].for, done |-> release[d].done \/ kernel[d].wait # Nothing]],
         refused' = [refused EXCEPT ![d] =
           IF kernel[d].wait # Nothing /\ kernel[d].wait.fb = "cur" THEN 0 ELSE refused[d]],
         UNCHANGED <<found, mode, clientBuf, planes, planeCrtc, gem, pipe, crashed>>
  PROVE  DrmInductive(Ds, Bs, Fs)'
<1> USE DrmAssumption
<1>1. /\ DrmIndTypes(Ds, Bs, Fs) /\ Drm(Ds, Bs, Fs)!DrmTypeOK /\ kernel \in [Ds -> CrtcStates]
      /\ release \in [Ds -> [for : Drm(Ds, Bs, Fs)!AllBuffers \cup {None}, done : BOOLEAN]]
      /\ refused \in [Ds -> 0 .. 2]
      /\ \A e \in Ds : DrmIndOf(e)
  BY DEF DrmInductive, DrmIndTypes, Drm!DrmTypeOK
<1> DEFINE k0 == kernel[d]
           sc == IF k0.wait = Nothing THEN k0.scan ELSE k0.wait
           n1 == IF k0.wait # Nothing /\ k0.wait.fb = "cur" THEN 0 ELSE refused[d]
           r1 == [for |-> release[d].for, done |-> release[d].done \/ k0.wait # Nothing]
<1>2. k0.scan \in Picture /\ k0.wait \in Picture /\ sc \in Picture /\ Nothing \in Picture
  BY <1>1 DEF CrtcStates, Picture
<1>3. kernel' \in [Ds -> CrtcStates] /\ kernel'[d].scan = sc /\ kernel'[d].wait = Nothing
      /\ \A e \in Ds \ {d} : kernel'[e] = kernel[e]
  <2>1. [active |-> act, wait |-> Nothing, scan |-> sc] \in CrtcStates
    <3> HIDE DEF sc
    <3> QED  BY <1>2 DEF CrtcStates
  <2>2. kernel' = [kernel EXCEPT ![d] = [active |-> act, wait |-> Nothing, scan |-> sc]]  OBVIOUS
  <2> HIDE DEF sc
  <2> QED  BY <1>1, <2>1, <2>2
<1>4. /\ release' \in [Ds -> [for : Drm(Ds, Bs, Fs)!AllBuffers \cup {None}, done : BOOLEAN]]
      /\ release'[d] = r1 /\ \A e \in Ds \ {d} : release'[e] = release[e]
  BY <1>1
<1>5. /\ refused' \in [Ds -> 0 .. 2] /\ refused'[d] = n1
      /\ \A e \in Ds \ {d} : refused'[e] = refused[e]
  BY <1>1
<1>6. DrmIndTypes(Ds, Bs, Fs)'
  <2>1. Drm(Ds, Bs, Fs)!DrmTypeOK'
    BY <1>1, <1>4, <1>5 DEF Drm!DrmTypeOK, Drm!GemBuffers, Drm!AllBuffers
  <2> QED  BY <1>1, <1>3, <2>1 DEF DrmIndTypes
<1>7. FramesFollow(d)'
  <2>1. /\ k0.scan.fb \in {None, "cur", "last"} /\ k0.wait.fb \in {None, "cur", "last"}
        /\ k0.wait = Nothing <=> k0.wait.fb = None
        /\ "cur" # "last" /\ None # "cur" /\ None # "last"
    BY <1>2 DEF Picture, Nothing
  <2>2. sc.fb = IF k0.wait = Nothing THEN k0.scan.fb ELSE k0.wait.fb  OBVIOUS
  <2>3. FramesFollow(d)  BY <1>1 DEF DrmIndOf
  <2>4. gem' = gem /\ Nothing.fb = None  BY DEF Nothing
  <2>5. r1.for = release[d].for /\ (r1.done <=> release[d].done \/ k0.wait # Nothing)  OBVIOUS
  <2>6. n1 = IF k0.wait # Nothing /\ k0.wait.fb = "cur" THEN 0 ELSE refused[d]  OBVIOUS
  <2> HIDE DEF sc, n1, r1
  <2> QED  BY <1>3, <1>4, <1>5, <2>1, <2>2, <2>3, <2>4, <2>5, <2>6 DEF FramesFollow
<1>8. DrmIndOf(d)'
  <2>1. BoundTo(d, planes[d], k0.scan) /\ BoundTo(d, planes[d], k0.wait)
    BY <1>1 DEF DrmIndOf, AreBound
  <2>2. BoundTo(d, planes[d], sc)  BY <2>1
  <2>3. AreBound(d, planes[d])'
    <3> HIDE DEF sc
    <3> QED  BY <1>3, <2>2 DEF AreBound, BoundTo
  <2>4. found[d] = "ok" => clientBuf[d] # None  BY <1>1 DEF DrmIndOf
  <2> QED  BY <1>7, <2>3, <2>4 DEF DrmIndOf
<1>9. ASSUME NEW e \in Ds, e # d PROVE DrmIndOf(e)'
  <2>1. /\ DrmIndOf(e) /\ kernel[e] \in CrtcStates /\ e # None
        /\ kernel'[e] = kernel[e] /\ release'[e] = release[e] /\ refused'[e] = refused[e]
    BY <1>1, <1>3, <1>4, <1>5, <1>9
  <2> QED  BY <1>9, <2>1, OtherDisplays
<1>10. crashed => \E e \in Ds : found[e] \in {"noComposer", "noFrame"}  BY DEF DrmInductive
<1> QED  BY <1>6, <1>8, <1>9, <1>10 DEF DrmInductive

(* The kernel's blank, and the mode set of a hotplug, which waits for it.    *)
LEMMA BlankKeeps ==
  ASSUME NEW Ds, NEW Bs, NEW Fs, NEW d \in Ds, DrmInductive(Ds, Bs, Fs), None \notin Ds,
         Drm(Ds, Bs, Fs)!Discovered,
         \/ Drm(Ds, Bs, Fs)!VBlank(d)
         \/ \E plugIn \in BOOLEAN : Drm(Ds, Bs, Fs)!HotplugModeSet(d, plugIn)
  PROVE  DrmInductive(Ds, Bs, Fs)'
<1>1. /\ kernel \in [Ds -> CrtcStates] /\ refused \in [Ds -> 0 .. 2]
      /\ release \in [Ds -> [for : Drm(Ds, Bs, Fs)!AllBuffers \cup {None}, done : BOOLEAN]]
      /\ found[d] # "no"
  BY DEF DrmInductive, DrmIndTypes, Drm!DrmTypeOK, Drm!Discovered
<1> DEFINE k0 == kernel[d]
           sc == IF k0.wait = Nothing THEN k0.scan ELSE k0.wait
<1>2. k0 \in CrtcStates /\ k0.active \in BOOLEAN
  BY <1>1 DEF CrtcStates
<1>3. Drm(Ds, Bs, Fs)!NoPlane = Nothing
      /\ Drm(Ds, Bs, Fs)!Flip(kernel[d]) = [active |-> k0.active, scan |-> sc, wait |-> Nothing]
  BY <1>2, KernelSteps
<1>4. release[d] = [for |-> release[d].for, done |-> release[d].done] /\ release[d].done \in BOOLEAN
  BY <1>1
<1>5. k0.wait # Nothing =>
        Drm(Ds, Bs, Fs)!Showing(d, Drm(Ds, Bs, Fs)!Flip(kernel[d])) = 
          [refused EXCEPT ![d] = IF k0.wait # Nothing /\ k0.wait.fb = "cur" THEN 0 ELSE refused[d]]
  <2> SUFFICES ASSUME k0.wait # Nothing
               PROVE  Drm(Ds, Bs, Fs)!Showing(d, Drm(Ds, Bs, Fs)!Flip(kernel[d])) = 
                        [refused EXCEPT ![d] = IF k0.wait # Nothing /\ k0.wait.fb = "cur" THEN 0 ELSE refused[d]]
    OBVIOUS
  <2>1. Drm(Ds, Bs, Fs)!Flip(kernel[d]).scan = k0.wait  BY <1>3
  <2> QED  BY <2>1 DEF Drm!Showing
<1>6. k0.wait = Nothing =>
        refused = [refused EXCEPT ![d] = IF k0.wait # Nothing /\ k0.wait.fb = "cur" THEN 0 ELSE refused[d]]
  BY <1>1
<1>7. CASE Drm(Ds, Bs, Fs)!VBlank(d)
  <2>1. /\ k0.wait # Nothing
        /\ UNCHANGED <<found, mode, clientBuf, planes, planeCrtc, gem, pipe, crashed>>
        /\ refused' = Drm(Ds, Bs, Fs)!Showing(d, Drm(Ds, Bs, Fs)!Flip(kernel[d]))
        /\ kernel' = [kernel EXCEPT ![d] = Drm(Ds, Bs, Fs)!Flip(kernel[d])]
    BY <1>3, <1>7 DEF Drm!VBlank
  <2>2. kernel' = [kernel EXCEPT ![d] = [active |-> k0.active, wait |-> Nothing, scan |-> sc]]
    BY <1>3, <2>1
  <2>3. release' = [release EXCEPT ![d] = [for |-> release[d].for, done |-> release[d].done \/ k0.wait # Nothing]]
    <3>1. release' = [release EXCEPT ![d] = [release[d] EXCEPT !.done = TRUE]]
      BY <1>7 DEF Drm!VBlank
    <3>2. [release[d] EXCEPT !.done = TRUE] = [for |-> release[d].for, done |-> TRUE]
      <4>1. ASSUME NEW v \in BOOLEAN
            PROVE  [release[d] EXCEPT !.done = v] = [for |-> release[d].for, done |-> v]
        BY <1>4
      <4> QED  BY <4>1, Zenon
    <3> QED  BY <2>1, <3>1, <3>2
  <2> QED  BY <1>1, <1>2, <1>5, <2>1, <2>2, <2>3, ShownKeeps
<1>8. ASSUME NEW plugIn \in BOOLEAN, Drm(Ds, Bs, Fs)!HotplugModeSet(d, plugIn)
      PROVE  DrmInductive(Ds, Bs, Fs)'
  <2>1. /\ UNCHANGED <<found, mode, clientBuf, planes, planeCrtc, gem, pipe, crashed>>
        /\ refused' = IF k0.wait # Nothing THEN Drm(Ds, Bs, Fs)!Showing(d, Drm(Ds, Bs, Fs)!Flip(kernel[d])) ELSE refused
        /\ kernel' = [kernel EXCEPT ![d] = [Drm(Ds, Bs, Fs)!Flip(kernel[d]) EXCEPT !.active = plugIn]]
    BY <1>3, <1>8 DEF Drm!HotplugModeSet
  <2>2. kernel' = [kernel EXCEPT ![d] = [active |-> plugIn, wait |-> Nothing, scan |-> sc]]
    <3>1. [Drm(Ds, Bs, Fs)!Flip(kernel[d]) EXCEPT !.active = plugIn]
          = [active |-> plugIn, wait |-> Nothing, scan |-> sc]
      BY <1>3
    <3> QED  BY <2>1, <3>1
  <2>3. release' = [release EXCEPT ![d] = [for |-> release[d].for, done |-> release[d].done \/ k0.wait # Nothing]]
    <3>1. release' = [release EXCEPT ![d] = [release[d] EXCEPT !.done = release[d].done \/ k0.wait # Nothing]]
      BY <1>3, <1>8, Zenon DEF Drm!HotplugModeSet
    <3>2. [release[d] EXCEPT !.done = release[d].done \/ k0.wait # Nothing]
          = [for |-> release[d].for, done |-> release[d].done \/ k0.wait # Nothing]
      BY <1>4
    <3> QED  BY <3>1, <3>2
  <2>4. refused' = [refused EXCEPT ![d] = IF k0.wait # Nothing /\ k0.wait.fb = "cur" THEN 0 ELSE refused[d]]
    BY <1>5, <1>6, <2>1
  <2> QED  BY <1>1, <2>1, <2>2, <2>3, <2>4, ShownKeeps
<1> QED  BY <1>7, <1>8

(* Every step of the displays keeps the invariant.                           *)
LEMMA DrmStepKeeps ==
  ASSUME NEW Ds, NEW Bs, NEW Fs, DrmInductive(Ds, Bs, Fs), None \notin Ds, None \notin Bs,
         Drm(Ds, Bs, Fs)!DrmNext
  PROVE  DrmInductive(Ds, Bs, Fs)'
<1>1. PICK d \in Ds :
        \/ Drm(Ds, Bs, Fs)!DiscoveryDisplay(d)
        \/ /\ Drm(Ds, Bs, Fs)!Discovered
           /\ \/ \E b \in Bs : Drm(Ds, Bs, Fs)!SetDisplayClientBuffer(d, b)
              \/ Drm(Ds, Bs, Fs)!SetDisplayMode(d)
              \/ Drm(Ds, Bs, Fs)!DrmCommit(d)
              \/ Drm(Ds, Bs, Fs)!VBlank(d)
              \/ \E plugIn \in BOOLEAN : Drm(Ds, Bs, Fs)!HotplugModeSet(d, plugIn)
  BY DEF Drm!DrmNext
<1>2. ~ crashed  BY DEF Drm!DrmNext
<1>3. /\ DrmIndTypes(Ds, Bs, Fs) /\ \A e \in Ds : DrmIndOf(e)
  BY DEF DrmInductive
<1>4. ASSUME NEW b \in Bs, Drm(Ds, Bs, Fs)!SetDisplayClientBuffer(d, b)
      PROVE  DrmInductive(Ds, Bs, Fs)'
  <2>1. /\ clientBuf' = [clientBuf EXCEPT ![d] = b] /\ b # None
        /\ UNCHANGED <<found, mode, planes, planeCrtc, gem, pipe, release, kernel, refused, crashed>>
    BY <1>4 DEF Drm!SetDisplayClientBuffer, Drm!cardVars
  <2>2. /\ clientBuf' \in [Ds -> Drm(Ds, Bs, Fs)!AllBuffers \cup {None}]
        /\ \A e \in Ds : clientBuf'[e] \in {b, clientBuf[e]}
    <3>1. b \in Drm(Ds, Bs, Fs)!AllBuffers  BY DEF Drm!AllBuffers
    <3> QED  BY <1>3, <2>1, <3>1 DEF DrmIndTypes, Drm!DrmTypeOK
  <2>3. DrmIndTypes(Ds, Bs, Fs)'
    BY <1>3, <2>1, <2>2 DEF DrmIndTypes, Drm!DrmTypeOK, Drm!GemBuffers, Drm!AllBuffers
  <2>4. ASSUME NEW e \in Ds PROVE DrmIndOf(e)'
    <3>1. DrmIndOf(e)  BY <1>3
    <3>2. FramesFollow(e)' /\ AreBound(e, planes[e])' /\ (found[e] = "no" => Untouched(e))'
      BY <2>1, <3>1 DEF DrmIndOf, FramesFollow, AreBound, BoundTo, Untouched
    <3>3. (found[e] = "ok" => clientBuf[e] # None)'  BY <2>1, <2>2, <3>1 DEF DrmIndOf
    <3> QED  BY <3>2, <3>3 DEF DrmIndOf
  <2> QED  BY <1>2, <2>1, <2>3, <2>4 DEF DrmInductive
<1>5. CASE Drm(Ds, Bs, Fs)!SetDisplayMode(d)
  <2>1. /\ mode' = [mode EXCEPT ![d] = "chosen"]
        /\ UNCHANGED <<found, clientBuf, planes, planeCrtc, gem, pipe, release, kernel, refused, crashed>>
    BY <1>5 DEF Drm!SetDisplayMode, Drm!cardVars
  <2>2. mode' \in [Ds -> {"none", "chosen", "set"}]  BY <1>3, <2>1 DEF DrmIndTypes, Drm!DrmTypeOK
  <2>3. DrmIndTypes(Ds, Bs, Fs)'
    BY <1>3, <2>1, <2>2 DEF DrmIndTypes, Drm!DrmTypeOK, Drm!GemBuffers, Drm!AllBuffers
  <2>4. ASSUME NEW e \in Ds PROVE DrmIndOf(e)'
    BY <1>3, <2>1 DEF DrmIndOf, FramesFollow, AreBound, BoundTo, Untouched
  <2> QED  BY <1>2, <2>1, <2>3, <2>4 DEF DrmInductive
<1> QED  BY <1>1, <1>2, <1>4, <1>5, DiscoveryKeeps, ApplyKeeps, BlankKeeps

(* The invariant is kept by a step that leaves the displays alone.           *)
LEMMA DrmStutters ==
  ASSUME NEW Ds, NEW Bs, NEW Fs, DrmInductive(Ds, Bs, Fs), UNCHANGED postVars
  PROVE  DrmInductive(Ds, Bs, Fs)'
<1>1. UNCHANGED <<found, mode, clientBuf, gem, planes, planeCrtc, pipe, release, kernel, refused, crashed>>
  BY DEF postVars
<1>2. DrmIndTypes(Ds, Bs, Fs)'
  BY <1>1 DEF DrmInductive, DrmIndTypes, Drm!DrmTypeOK, Drm!GemBuffers, Drm!AllBuffers
<1>3. ASSUME NEW e \in Ds PROVE DrmIndOf(e)'
  BY <1>1 DEF DrmInductive, DrmIndOf, FramesFollow, AreBound, BoundTo, Untouched
<1> QED  BY <1>1, <1>2, <1>3 DEF DrmInductive

(* Before the discovery nothing is bound, imported or shown.                 *)
LEMMA DrmStarts ==
  ASSUME NEW Ds, NEW Bs, NEW Fs, Drm(Ds, Bs, Fs)!DrmInit
  PROVE  DrmInductive(Ds, Bs, Fs)
<1> USE DrmAssumption
<1>1. /\ kernel = [d \in Ds |-> [active |-> FALSE, scan |-> Nothing, wait |-> Nothing]]
      /\ pipe = [p \in {p1, o1} |-> None] /\ crashed = FALSE
      /\ planes = [d \in Ds |-> {}] /\ found = [d \in Ds |-> "no"]
      /\ gem = [d \in Ds |-> [cur |-> None, last |-> None]]
      /\ release = [d \in Ds |-> [for |-> None, done |-> FALSE]]
      /\ refused = [d \in Ds |-> 0]
      /\ clientBuf = [d \in Ds |-> None] /\ mode = [d \in Ds |-> "none"]
  BY DEF Drm!DrmInit, Drm!NoPlane, Nothing, PossibleCrtcs
<1>2. kernel \in [Ds -> CrtcStates]  BY <1>1 DEF CrtcStates, Picture
<1>3. Drm(Ds, Bs, Fs)!DrmTypeOK
  <2>1. None \in Drm(Ds, Bs, Fs)!GemBuffers  BY DEF Drm!GemBuffers
  <2>2. gem \in [Ds -> [cur : Drm(Ds, Bs, Fs)!GemBuffers, last : Drm(Ds, Bs, Fs)!GemBuffers]]  BY <1>1, <2>1
  <2>3. release \in [Ds -> [for : Drm(Ds, Bs, Fs)!AllBuffers \cup {None}, done : BOOLEAN]]  BY <1>1
  <2>4. refused \in [Ds -> 0 .. 2] /\ crashed \in BOOLEAN
        /\ clientBuf \in [Ds -> Drm(Ds, Bs, Fs)!AllBuffers \cup {None}]
    <3>1. refused \in [Ds -> 0 .. 2]
      <4>1. 0 \in 0 .. 2  OBVIOUS
      <4> QED  BY <1>1, <4>1
    <3>2. clientBuf \in [Ds -> Drm(Ds, Bs, Fs)!AllBuffers \cup {None}]  BY <1>1
    <3>3. crashed \in BOOLEAN  BY <1>1
    <3> QED  BY <3>1, <3>2, <3>3
  <2>5. /\ found \in [Ds -> {"no", "ok", "noComposer", "noFrame"}]
        /\ mode \in [Ds -> {"none", "chosen", "set"}]
    BY <1>1
  <2> QED  BY <2>2, <2>3, <2>4, <2>5 DEF Drm!DrmTypeOK
<1>4. ASSUME NEW d \in Ds PROVE DrmIndOf(d)
  <2>1. /\ kernel[d].scan = Nothing /\ kernel[d].wait = Nothing /\ ~ release[d].done
        /\ gem[d] = [cur |-> None, last |-> None] /\ refused[d] = 0 /\ planes[d] = {} /\ found[d] = "no"
    BY <1>1
  <2>2. FramesFollow(d)  BY <2>1 DEF FramesFollow, Nothing
  <2> QED  BY <2>1, <2>2 DEF DrmIndOf, AreBound, BoundTo, Untouched
<1> QED  BY <1>1, <1>2, <1>3, <1>4 DEF DrmInductive, DrmIndTypes

(* What the displays promise follows from the invariant: the picture stays   *)
(* and the fence tells the truth because of how the framebuffers follow, and *)
(* the planes are apart because each is bound to the display that has it.    *)
LEMMA DrmPromises ==
  ASSUME NEW Ds, NEW Bs, NEW Fs, DrmInductive(Ds, Bs, Fs), None \notin Ds
  PROVE  Drm(Ds, Bs, Fs)!DrmInvariant
<1> USE DrmAssumption
<1>1. /\ DrmIndTypes(Ds, Bs, Fs) /\ Drm(Ds, Bs, Fs)!DrmTypeOK /\ kernel \in [Ds -> CrtcStates]
      /\ \A d \in Ds : FramesFollow(d) /\ AreBound(d, planes[d])
  BY DEF DrmInductive, DrmIndTypes, DrmIndOf
<1>2. Drm(Ds, Bs, Fs)!NoPlane = Nothing  BY DEF Drm!NoPlane, Nothing
<1>3. Drm(Ds, Bs, Fs)!PictureStays
  BY <1>1, <1>2 DEF Drm!PictureStays, Drm!Started, FramesFollow
<1>4. Drm(Ds, Bs, Fs)!FenceTells
  <2> SUFFICES ASSUME NEW d \in Ds, refused[d] = 0, release[d].done
               PROVE  gem[d][kernel[d].scan.fb] = release[d].for
    BY DEF Drm!FenceTells
  <2>1. kernel[d].scan.fb = "cur" /\ gem[d].cur = release[d].for  BY <1>1 DEF FramesFollow
  <2> QED  BY <2>1
<1>5. Drm(Ds, Bs, Fs)!PlanesApart
  <2> SUFFICES ASSUME NEW d \in Ds, NEW e \in Ds, d # e, NEW x, x # None,
                      x \in {kernel[d].scan.plane, kernel[d].wait.plane},
                      x \in {kernel[e].scan.plane, kernel[e].wait.plane}
               PROVE  FALSE
    BY DEF Drm!PlanesApart
  <2>1. Nothing.plane = None  BY DEF Nothing
  <2>2. pipe[x] = d  BY <1>1, <2>1 DEF AreBound, BoundTo
  <2>3. pipe[x] = e  BY <1>1, <2>1 DEF AreBound, BoundTo
  <2> QED  BY <2>2, <2>3
<1>6. Drm(Ds, Bs, Fs)!CrashNeedsFailedInit  BY DEF DrmInductive, Drm!CrashNeedsFailedInit
<1> QED  BY <1>1, <1>3, <1>4, <1>5, <1>6 DEF Drm!DrmInvariant

(* Any number of displays that share the two planes, clients that draw into  *)
(* any buffers, and any of the faults: the picture stays, fences tell the    *)
(* truth, planes are apart, and only a display whose Init failed can meet a  *)
(* null pointer.  (HdiDrmComposition::Apply, hdi_drm_composition.cpp:248)    *)
THEOREM AnyDisplaysAreSafe ==
  ASSUME NEW Ds, NEW Bs, NEW Fs, None \notin Ds, None \notin Bs
  PROVE  Drm(Ds, Bs, Fs)!DrmInit /\ [][Drm(Ds, Bs, Fs)!DrmNext]_postVars
           => []Drm(Ds, Bs, Fs)!DrmInvariant
<1>1. Drm(Ds, Bs, Fs)!DrmInit => DrmInductive(Ds, Bs, Fs)  BY DrmStarts
<1>2. DrmInductive(Ds, Bs, Fs) /\ [Drm(Ds, Bs, Fs)!DrmNext]_postVars => DrmInductive(Ds, Bs, Fs)'
  BY DrmStepKeeps, DrmStutters
<1>3. DrmInductive(Ds, Bs, Fs) => Drm(Ds, Bs, Fs)!DrmInvariant  BY DrmPromises
<1> QED  BY <1>1, <1>2, <1>3, PTL

(* The part that is looked at satisfies its inductive invariant.             *)
DrmPartInductive ==
  /\ part = "one" => DrmInductive({d1}, {b1, b2}, FaultsOfOne)
  /\ part = "two" => DrmInductive({d1, d2}, {b1}, FaultsOfTwo)

(* The parts that are not displays leave them alone.                         *)
LEMMA PartStepKeeps ==
  ASSUME DrmPartInductive, [PartNext]_partVars
  PROVE  DrmPartInductive'
<1>1. CASE part' = part /\ UNCHANGED postVars
  BY <1>1, DrmStutters DEF DrmPartInductive
<1>2. CASE part' = part /\ part \notin {"one", "two"}
  BY <1>2 DEF DrmPartInductive
<1>3. CASE OnDrm("one", OneNext)
  <2>1. part = "one" /\ part' = "one" /\ Drm({d1}, {b1, b2}, FaultsOfOne)!DrmNext
    BY <1>3 DEF OnDrm, OneNext
  <2>2. DrmInductive({d1}, {b1, b2}, FaultsOfOne)  BY <2>1 DEF DrmPartInductive
  <2>3. None \notin {d1} /\ None \notin {b1, b2}  BY DrmAssumption
  <2>4. DrmInductive({d1}, {b1, b2}, FaultsOfOne)'  BY <2>1, <2>2, <2>3, DrmStepKeeps
  <2> QED  BY <2>1, <2>4 DEF DrmPartInductive
<1>4. CASE OnDrm("two", TwoNext)
  <2>1. part = "two" /\ part' = "two" /\ Drm({d1, d2}, {b1}, FaultsOfTwo)!DrmNext
    BY <1>4 DEF OnDrm, TwoNext
  <2>2. DrmInductive({d1, d2}, {b1}, FaultsOfTwo)  BY <2>1 DEF DrmPartInductive
  <2>3. None \notin {d1, d2} /\ None \notin {b1}  BY DrmAssumption
  <2>4. DrmInductive({d1, d2}, {b1}, FaultsOfTwo)'  BY <2>1, <2>2, <2>3, DrmStepKeeps
  <2> QED  BY <2>1, <2>4 DEF DrmPartInductive
<1>5. CASE UNCHANGED partVars  BY <1>1, <1>5 DEF partVars, composerVars
<1>6. CASE OnRx(RxNext)  BY <1>2, <1>6 DEF OnRx
<1>7. CASE OnShm(Shm!ShmNext)  BY <1>2, <1>7 DEF OnShm
<1>8. CASE OnMmz(Mz!MmzNext)  BY <1>2, <1>8 DEF OnMmz
<1>9. CASE OnGbm("dev", Dev!GbmNext)  BY <1>2, <1>9 DEF OnGbm
<1>10. CASE OnGbm("hdls", Hdls!GbmNext /\ UNCHANGED user)  BY <1>2, <1>10 DEF OnGbm
<1>11. CASE OnLayers("layers", Layers!DispNext)  BY <1>2, <1>11 DEF OnLayers
<1>12. CASE OnLayers("ids", IdsNext)  BY <1>2, <1>12 DEF OnLayers
<1>13. CASE OnCamera("video", Video!CamNext)  BY <1>2, <1>13 DEF OnCamera
<1>14. CASE OnCamera("still", Still!CamNext)  BY <1>2, <1>14 DEF OnCamera
<1>15. CASE OnCamera("single", Single!CamNext)  BY <1>2, <1>15 DEF OnCamera
<1> QED
  BY <1>3, <1>4, <1>5, <1>6, <1>7, <1>8, <1>9, <1>10, <1>11, <1>12, <1>13, <1>14, <1>15
  DEF PartNext

(* A part starts as its displays do.                                         *)
LEMMA PartStarts == PartInit => DrmPartInductive
<1> SUFFICES ASSUME PartInit PROVE DrmPartInductive  OBVIOUS
<1>1. ASSUME part = "one" PROVE DrmInductive({d1}, {b1, b2}, FaultsOfOne)
  <2>1. Layers!DispInit  BY <1>1 DEF PartInit
  <2>2. Drm({d1}, {b1, b2}, FaultsOfOne)!DrmInit
    BY <2>1 DEF Layers!DispInit, Layers!DrmInit, Layers!NoPlane, Drm!DrmInit, Drm!NoPlane
  <2> QED  BY <2>2, DrmStarts
<1>2. ASSUME part = "two" PROVE DrmInductive({d1, d2}, {b1}, FaultsOfTwo)
  <2>1. Ids!DispInit  BY <1>2 DEF PartInit
  <2>2. Drm({d1, d2}, {b1}, FaultsOfTwo)!DrmInit
    BY <2>1 DEF Ids!DispInit, Ids!DrmInit, Ids!NoPlane, Drm!DrmInit, Drm!NoPlane
  <2> QED  BY <2>2, DrmStarts
<1> QED  BY <1>1, <1>2 DEF DrmPartInductive

(* Always, whatever step the composer, the kernel or another part takes, the *)
(* framebuffers of a display follow the frames given to it, and a plane on a *)
(* screen is bound to the display that shows it.                             *)
THEOREM DrmAlwaysInductive == PartSpec => []DrmPartInductive
<1>1. PartInit => DrmPartInductive  BY PartStarts
<1>2. DrmPartInductive /\ [PartNext]_partVars => DrmPartInductive'  BY PartStepKeeps
<1> QED  BY <1>1, <1>2, PTL DEF PartSpec

(* DrmInvariant, for one display with every fault and for two that share     *)
(* their planes: no step takes away what the screen shows, a fence that has  *)
(* signalled tells the truth, two displays never have one plane, and a null  *)
(* pointer is met only after an Init that failed.                            *)
(* (HdiDrmComposition::Apply, hdi_drm_composition.cpp:248)                   *)
THEOREM DrmIsSafe == PartSpec => []DrmInvariant
<1>1. DrmPartInductive => DrmInvariant
  <2> USE DrmAssumption
  <2>1. None \notin {d1} /\ None \notin {d1, d2}  OBVIOUS
  <2> QED  BY <2>1, DrmPromises DEF DrmPartInductive, DrmInvariant
<1> QED  BY <1>1, DrmAlwaysInductive, PTL
=============================================================================
