----------------------------- MODULE HdiDisplay -----------------------------
(***************************************************************************)
(* The layers of a display (display_device/hdi_display.cpp, hdi_layer.cpp) *)
(* and their composition (hdi_composer.cpp, hdi_gfx_composition.cpp),      *)
(* in front of the post composition of HdiDrmComposition.                  *)
(*                                                                         *)
(* Every call holds the session's mutex, so a call is one step; a client   *)
(* may make its calls in any order.                                        *)
(***************************************************************************)
EXTENDS HdiDrmComposition, SequencesExt

CONSTANTS
  InvalidId,    \* INVALIDE_LAYER_ID; ids are 0 .. InvalidId - 1
  MaxLive,      \* bound: layers alive at once, no more than there are ids
  Zorders,      \* the z orders a client sets
  DefaultZ,     \* mZorder of a new layer, (uint32_t)-1
  Freed         \* what a pointer to a destroyed layer points to

Ids == 0 .. InvalidId - 1
Types == {"client", "device", "video"}   \* COMPOSITION_CURSOR is drawn like client

VARIABLES
  idleId,     \* HdiLayer::mIdleId
  idSet,      \* HdiLayer::mIdSets
  layers,     \* mLayersMap of each display: the ids of its layers
  order,      \* mLayers of each display: by z order, equals as they came
  layer,      \* the layers: mZorder, mCompositionType, is there an mHdiBuffer
  change,     \* mChangeLayers of each display
  comp,       \* mCompLayers of each HdiGfxComposition
  drawn,      \* what Commit drew on the client's buffer, until the next call
  touched,    \* the kinds of calls since the last PrepareDisplayLayers
  tie         \* a layer was destroyed while another had its z order

layerVars == <<idleId, idSet, layers, order, layer, change, comp, drawn, touched, tie>>
dispVars == <<drmVars, layerVars>>

NewLayer == [z |-> DefaultZ, type |-> "client", buf |-> FALSE]

DispTypeOK ==
  /\ DrmTypeOK
  /\ idleId \in 0 .. InvalidId
  /\ idSet \subseteq Ids
  /\ layers \in [Displays -> SUBSET Ids]
  /\ layer \in [Ids -> [z : Zorders \cup {DefaultZ}, type : Types, buf : BOOLEAN]]
  /\ \A d \in Displays : /\ Range(order[d]) \subseteq Ids
                         /\ Range(change[d]) \cup Range(comp[d]) \subseteq Ids \cup {Freed}
  /\ touched \in [Displays -> SUBSET {"type", "z", "destroy"}]

DispInit ==
  /\ DrmInit
  /\ idleId = 0
  /\ idSet = {}
  /\ layers = [d \in Displays |-> {}]
  /\ order = [d \in Displays |-> <<>>]
  /\ layer = [l \in Ids |-> NewLayer]
  /\ change = [d \in Displays |-> <<>>]
  /\ comp = [d \in Displays |-> <<>>]
  /\ drawn = [d \in Displays |-> <<>>]
  /\ touched = [d \in Displays |-> {}]
  /\ tie = FALSE

----------------------------------------------------------------------------
(* GetIdleId: the first id from mIdleId on, around the end, that is not taken *)
GetIdleId ==
  LET from == idleId % InvalidId
      at(i) == (from + i) % InvalidId
  IN at(CHOOSE i \in Ids : at(i) \notin idSet /\ \A j \in 0 .. i - 1 : at(j) \in idSet)

(* emplace in the multiset: after every layer that is not above *)
Emplace(s, l, z, lay) ==
  SelectSeq(s, LAMBDA m : lay[m].z <= z) \o <<l>> \o SelectSeq(s, LAMBDA m : lay[m].z > z)

NothingDrawn == drawn' = [d \in Displays |-> <<>>]
Touch(d, kind) == touched' = [touched EXCEPT ![d] = @ \cup {kind}]

CreateLayer(d) ==
  /\ Cardinality(idSet) < MaxLive
  /\ LET id == GetIdleId IN
     /\ idleId' = id + 1
     /\ idSet' = idSet \cup {id}
     /\ layers' = [layers EXCEPT ![d] = @ \cup {id}]
     /\ layer' = [layer EXCEPT ![id] = NewLayer]
     /\ order' = [order EXCEPT ![d] = Emplace(@, id, DefaultZ, layer')]
  /\ NothingDrawn
  /\ UNCHANGED <<drmVars, change, comp, touched, tie>>

(* the pointers to a layer dangle once it is gone *)
Dangle(s, l) == [i \in DOMAIN s |-> IF s[i] = l THEN Freed ELSE s[i]]

(* mLayers.erase(key) takes every layer of the same z order out *)
EraseKey(s, l) == SelectSeq(s, LAMBDA m : layer[m].z # layer[l].z)

DestroyLayer(d, l) ==
  /\ order' = [order EXCEPT ![d] = EraseKey(@, l)]
  /\ layers' = [layers EXCEPT ![d] = @ \ {l}]
  /\ idSet' = idSet \ {l}
  /\ change' = [change EXCEPT ![d] = Dangle(@, l)]
  /\ comp' = [comp EXCEPT ![d] = Dangle(@, l)]
  /\ layer' = [layer EXCEPT ![l] = NewLayer]
  /\ tie' = (tie \/ \E m \in layers[d] \ {l} : layer[m].z = layer[l].z)
  /\ Touch(d, "destroy")
  /\ NothingDrawn
  /\ UNCHANGED <<drmVars, idleId>>

(* SetLayerZorder: out of its old place, then in again *)
SetLayerZorder(d, l, z) ==
  /\ layer[l].z # z
  /\ layer' = [layer EXCEPT ![l].z = z]
  /\ order' = [order EXCEPT ![d] = Emplace(SelectSeq(@, LAMBDA m : m # l), l, z, layer)]
  /\ Touch(d, "z")
  /\ NothingDrawn
  /\ UNCHANGED <<drmVars, idleId, idSet, layers, change, comp, tie>>

SetLayerBuffer(d, l) ==
  /\ layer' = [layer EXCEPT ![l].buf = TRUE]
  /\ NothingDrawn
  /\ UNCHANGED <<drmVars, idleId, idSet, layers, order, change, comp, touched, tie>>

SetLayerCompositionType(d, l, type) ==
  /\ layer' = [layer EXCEPT ![l].type = type]
  /\ Touch(d, "type")
  /\ NothingDrawn
  /\ UNCHANGED <<drmVars, idleId, idSet, layers, order, change, comp, tie>>

----------------------------------------------------------------------------
(* UseCompositionClient: hasCompositionClient starts true *)
BugUseCompositionClient(ls) == \E l \in Range(ls) : layer[l].type = "client"
UseCompositionClient(ls) ==
  LET hasCompositionClient == TRUE
      counted == SelectSeq(ls, LAMBDA l : layer[l].type # "video")
  IN \/ hasCompositionClient
     \/ \E l \in Range(ls) : layer[l].type = "client"
     \/ Len(counted) > 4

(* HdiGfxComposition::SetLayers: one device select for every layer, also
   for those whose own type it had just chosen *)
DeviceSelect(ls) == IF UseCompositionClient(ls) THEN "client" ELSE "device"

(* PrepareDisplayLayers: every layer of mLayers changes *)
PrepareDisplayLayers(d) ==
  /\ IF found[d] = "noComposer"
       THEN crashed' = TRUE /\ UNCHANGED <<comp, layer>>
       ELSE /\ comp' = [comp EXCEPT ![d] = order[d]]
            /\ layer' = [l \in Ids |-> IF l \in Range(order[d])
                           THEN [layer[l] EXCEPT !.type = DeviceSelect(order[d])]
                           ELSE layer[l]]
            /\ UNCHANGED crashed
  /\ change' = [change EXCEPT ![d] = order[d]]
  /\ NothingDrawn
  /\ touched' = [touched EXCEPT ![d] = {}]
  /\ UNCHANGED <<found, mode, clientBuf, planes, planeCrtc, cardVars,
                 idleId, idSet, layers, order, tie>>

(* HdiGfxComposition::Apply, when what a dangling pointer reads as type is
   stale: clear once if a layer is for the device, then video layers clear
   their rectangle and device layers are blitted, up to the first that fails *)
GfxOps(d, stale) ==
  LET type(l) == IF l = Freed THEN stale ELSE layer[l].type
      ops == SelectSeq(comp[d], LAMBDA l : type(l) # "client")
      clear == IF \E l \in Range(ops) : type(l) = "device" THEN <<[op |-> "clear", of |-> None]>> ELSE <<>>
  IN clear \o [i \in DOMAIN ops |-> [op |-> type(ops[i]), of |-> ops[i]]]

(* BlitLayer and ClearRect fail without a buffer on either side *)
GfxFails(d, o) ==
  \/ clientBuf[d] = None
  \/ o.op = "device" /\ (o.of = Freed \/ ~layer[o.of].buf)

GfxApply(d, stale, done) ==
  LET ops == GfxOps(d, stale)
      fails == {i \in DOMAIN ops : ops[i].op # "clear" /\ ("gfx" \in Faults \/ GfxFails(d, ops[i]))}
  IN /\ \/ done = ops /\ \A i \in fails : ~GfxFails(d, ops[i])
        \/ \E i \in fails : /\ done = SubSeq(ops, 1, i - 1)
                            /\ \A j \in 1 .. i - 1 : ops[j].op = "clear" \/ ~GfxFails(d, ops[j])
     /\ drawn' = [drawn EXCEPT ![d] = done]

(* HdiComposer::Commit: the post composition runs if the pre composition did
   not fail; a destroyed layer may also be a crash.  HdiDisplay::Commit does
   not look at what it returns *)
Commit(d) ==
  /\ UNCHANGED <<idleId, idSet, layers, order, layer, change, comp, touched, tie>>
  /\ \/ \E stale \in (IF Freed \in Range(comp[d]) THEN Types ELSE {"client"}) :
          \/ GfxApply(d, stale, GfxOps(d, stale)) /\ DrmCommit(d)
          \/ /\ found[d] # "noComposer"
             /\ \E n \in 0 .. Len(GfxOps(d, stale)) - 1 :
                  GfxApply(d, stale, SubSeq(GfxOps(d, stale), 1, n))
             /\ UNCHANGED drmVars
     \/ /\ Freed \in Range(comp[d])
        /\ crashed' = TRUE
        /\ UNCHANGED <<found, mode, clientBuf, planes, planeCrtc, cardVars, drawn>>

----------------------------------------------------------------------------
(* HdiSession::CallLayerFunction: a call for a layer that is not found does
   nothing *)
LayersFound(d) == {l \in layers[d] : Discovered}

(* the calls of DisplayComposerVdiImpl that reach a display *)
DisplayCalls(d) ==
  /\ Discovered
  /\ \/ CreateLayer(d)
     \/ \E l \in LayersFound(d) : DestroyLayer(d, l)
     \/ PrepareDisplayLayers(d)
     \/ Commit(d)

(* and those that reach a layer *)
LayerCalls(d) ==
  \E l \in LayersFound(d) :
    \/ \E z \in Zorders : SetLayerZorder(d, l, z)
    \/ SetLayerBuffer(d, l)
    \/ \E t \in Types : SetLayerCompositionType(d, l, t)

(* what happens at the post composition between the calls *)
BelowLayers(d) ==
  /\ \/ DiscoveryDisplay(d)
     \/ VBlank(d)
     \/ Discovered /\ \E b \in Buffers : SetDisplayClientBuffer(d, b)
  /\ UNCHANGED layerVars

DispNext ==
  /\ ~crashed
  /\ \E d \in Displays : DisplayCalls(d) \/ LayerCalls(d) \/ BelowLayers(d)

----------------------------------------------------------------------------
(* A layer id names one layer of one display, and is taken as long as the
   layer lives.  (GetIdleId, hdi_layer.cpp:72, with mIdSets shared by all
   displays) *)
IdsApart ==
  /\ idSet = UNION {layers[d] : d \in Displays}
  /\ \A d, e \in Displays : d # e => layers[d] \cap layers[e] = {}

(* mLayers, which holds raw pointers, holds each living layer of the display
   at most once, in z order, through every change of a z order; and it holds
   all of them as long as no layer was destroyed that shared its z order.
   (SetLayerZorder, hdi_display.cpp:65, and DestroyLayer, :114) *)
OrderFollows ==
  \A d \in Displays :
    LET s == order[d] IN
    /\ Range(s) \subseteq layers[d]
    /\ Cardinality(Range(s)) = Len(s)
    /\ \A i, j \in DOMAIN s : i < j => layer[s[i]].z <= layer[s[j]].z
    /\ ~tie => Range(s) = layers[d]

(* Commit draws only what the client asked for after PrepareDisplayLayers,
   whose answer is always client composition; what it draws is in z order
   unless that changed in between.  (UseCompositionClient,
   hdi_gfx_composition.cpp:90, and Apply, :201) *)
DrawsAsPrepared ==
  \A d \in Displays :
    LET blits == SelectSeq(drawn[d], LAMBDA o : o.of \notin {None, Freed}) IN
    /\ drawn[d] # <<>> => touched[d] \cap {"type", "destroy"} # {}
    /\ touched[d] \cap {"z", "destroy"} = {} =>
         \A i, j \in DOMAIN blits : i < j => layer[blits[i].of].z <= layer[blits[j].of].z

(* A pointer to a destroyed layer is left behind only by a DestroyLayer
   between Prepare and Commit, and that or a failed Init is what a crash
   needs.  (mCompLayers, hdi_gfx_composition.cpp:108) *)
DanglingNeedsDestroy ==
  /\ \A d \in Displays :
       Freed \in Range(comp[d]) \cup Range(change[d]) => "destroy" \in touched[d]
  /\ crashed => \E d \in Displays : found[d] # "ok" \/ "destroy" \in touched[d]

DispInvariant ==
  /\ DispTypeOK
  /\ IdsApart
  /\ OrderFollows
  /\ DrawsAsPrepared
  /\ DanglingNeedsDestroy

=============================================================================
