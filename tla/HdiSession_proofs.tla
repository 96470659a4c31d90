------------------------- MODULE HdiSession_proofs -------------------------
(***************************************************************************)
(* The display composer's vsync worker and its hot plugging, for any        *)
(* number of displays, callbacks and plugs: SessInductive is an inductive  *)
(* invariant of SessSpec.                                                  *)
(***************************************************************************)
EXTENDS HdiSession, TLAPS

(* The two halves of the invariant share inst, which the monitor may make. *)
SessVsync == VsyncTypeOK /\ WorkerLives /\ WorkerStops
PlugTypeOK ==
  /\ plugged \in [Displays -> BOOLEAN]
  /\ connect \in [Displays -> BOOLEAN]
  /\ lit \in [Displays -> BOOLEAN]
  /\ told \in [Displays -> BOOLEAN \cup {Nothing}]
SessPlugs ==
  PlugTypeOK /\ SessShapes /\ (~overtaken => MonitorAgrees /\ RegistrationAgrees)

LEMMA SessHalves == SessInductive <=> SessVsync /\ SessPlugs
<1>1. SessShapes => /\ monitor.at \in {"none", "start", "read", "next", "vsync", "commit", "tell", "ended"}
                    /\ reg.at \in {"no", "next", "tell", "done"}
  BY DEF SessShapes, MonitorStates
<1> QED
  BY <1>1 DEF SessInductive, SessVsync, SessPlugs, SessTypeOK, PlugTypeOK

-----------------------------------------------------------------------------
(* The worker                                                              *)

(* A worker that is stopped while vsync is off has called back once at     *)
(* most, because EnableVsync counts from anew and the worker looks at the  *)
(* flag before it waits for the next blank.                                *)
LEMMA VsyncStepInductive ==
  ASSUME SessVsync, [VsyncNext]_vsyncVars
  PROVE  SessVsync'
<1> USE DEF SessVsync, VsyncTypeOK, WorkerLives, WorkerStops
<1>1. CASE CreateThread  BY <1>1 DEF CreateThread
<1>2. CASE SetRunning  BY <1>2 DEF SetRunning
<1>3. CASE Check  BY <1>3 DEF Check
<1>4. CASE Blank  BY <1>4 DEF Blank
<1>5. CASE CallBack  BY <1>5 DEF CallBack
<1>6. ASSUME NEW on \in BOOLEAN, EnableVsync(on) PROVE SessVsync'
  BY <1>6 DEF EnableVsync, Notify
<1>7. ASSUME NEW cb \in Callbacks, ReqesterVBlankCb(cb) PROVE SessVsync'
  BY <1>7 DEF ReqesterVBlankCb
<1>8. CASE Destroy  BY <1>8 DEF Destroy, Notify
<1>9. CASE UNCHANGED vsyncVars  BY <1>9 DEF vsyncVars
<1> QED
  BY <1>1, <1>2, <1>3, <1>4, <1>5, <1>6, <1>7, <1>8, <1>9 DEF VsyncNext, WorkThread

-----------------------------------------------------------------------------
(* Hot plugging                                                            *)

LEMMA MonitorRecord ==
  ASSUME NEW at \in {"none", "start", "read", "next", "vsync", "commit", "tell", "ended"},
         NEW event \in BOOLEAN, NEW left \in SUBSET Displays,
         NEW d \in Displays \cup {Nothing}, NEW seen \in BOOLEAN
  PROVE  [at |-> at, event |-> event, left |-> left, d |-> d, seen |-> seen] \in MonitorStates
BY DEF MonitorStates

LEMMA ToggleStep ==
  ASSUME SessPlugs, NEW d \in Displays, Toggle(d)
  PROVE  SessPlugs'
<1> USE DEF SessPlugs, Toggle
<1>1. PlugTypeOK'  BY DEF PlugTypeOK
<1>2. Append(uevents, ~plugged[d]) \in Seq(BOOLEAN)
  BY DEF SessShapes, MonitorStates, PlugTypeOK
<1>3. SessShapes'  BY <1>2 DEF SessShapes, AtRest
<1>4. ASSUME ~overtaken' PROVE MonitorAgrees' /\ RegistrationAgrees'
  <2>1. /\ AtRest /\ MonitorAgrees /\ ~overtaken
    BY <1>4 DEF SessShapes
  <2>2. /\ uevents = <<>> /\ monitor.at \in {"none", "start", "read", "ended"}
        /\ reg.at \in {"no", "done"} /\ \A e \in Displays : Settled(e)
    BY <2>1 DEF AtRest, MonitorAgrees
  <2>3. uevents' # <<>> /\ Len(uevents') = 1 /\ Head(uevents') = ~plugged[d]
    BY <2>2 DEF PlugTypeOK
  <2>4. ASSUME NEW e \in Displays PROVE SettledBut(e, Head(uevents))'
    <3>1. CASE e = d
      <4>1. plugged'[d] = ~plugged[d] /\ connect'[d] = plugged[d] /\ plugged[d] \in BOOLEAN
        BY <2>2 DEF Settled, PlugTypeOK
      <4> QED  BY <3>1, <4>1, <2>3 DEF SettledBut
    <3>2. CASE e # d
      <4>1. plugged'[e] = plugged[e]  BY <3>2 DEF PlugTypeOK
      <4> QED  BY <4>1, <2>2 DEF SettledBut, Settled, Heard
    <3> QED  BY <3>1, <3>2
  <2> QED  BY <2>2, <2>3, <2>4 DEF MonitorAgrees, RegistrationAgrees
<1> QED  BY <1>1, <1>3, <1>4

(* Steps that change where the monitor is and nothing it knows.            *)
LEMMA MonitorMovesStep ==
  ASSUME SessPlugs,
         UNCHANGED <<plugged, uevents, connect, lit, reg, told, overtaken>>,
         \/ UNCHANGED monitor
         \/ /\ monitor.at \in {"none", "start"}
            /\ monitor' \in {Idle, [Idle EXCEPT !.at = "start"], [Idle EXCEPT !.at = "ended"]}
  PROVE  SessPlugs'
<1> USE DEF SessPlugs
<1>1. PlugTypeOK'  BY DEF PlugTypeOK
<1>2. SessShapes'
  <2>1. CASE UNCHANGED monitor  BY <2>1 DEF SessShapes, MonitorStates
  <2>2. CASE monitor' \in {Idle, [Idle EXCEPT !.at = "start"], [Idle EXCEPT !.at = "ended"]}
    <3>1. /\ monitor' \in MonitorStates
          /\ monitor'.at \in {"read", "start", "ended"}
      <4>1. {} \in SUBSET Displays /\ Nothing \in Displays \cup {Nothing} /\ FALSE \in BOOLEAN
        OBVIOUS
      <4>2. PICK at \in {"read", "start", "ended"} :
              monitor' = [at |-> at, event |-> FALSE, left |-> {}, d |-> Nothing, seen |-> FALSE]
        BY <2>2 DEF Idle
      <4>3. [at |-> at, event |-> FALSE, left |-> {}, d |-> Nothing, seen |-> FALSE]
              \in MonitorStates
        BY ONLY <4>1, MonitorRecord
      <4> QED  BY <4>2, <4>3
    <3> QED  BY <3>1 DEF SessShapes
  <2> QED  BY <2>1, <2>2
<1>3. ASSUME ~overtaken PROVE MonitorAgrees' /\ RegistrationAgrees'
  <2>1. MonitorAgrees /\ RegistrationAgrees  BY <1>3
  <2>2. RegistrationAgrees'
    BY <2>1 DEF RegistrationAgrees, Heard
  <2>3. CASE UNCHANGED monitor
    BY <2>1, <2>2, <2>3 DEF MonitorAgrees, SettledBut, Settled, Heard
  <2>4. CASE ~ UNCHANGED monitor
    <3>1. /\ monitor.at \in {"none", "start"}
          /\ monitor'.at \in {"read", "start", "ended"}
      BY <2>4 DEF Idle
    <3> QED  BY <2>1, <2>2, <3>1 DEF MonitorAgrees, SettledBut, Settled, Heard
  <2> QED  BY <2>2, <2>3, <2>4
<1> QED  BY <1>1, <1>2, <1>3

LEMMA ReadEventStep ==
  ASSUME SessPlugs, ReadEvent
  PROVE  SessPlugs'
<1> USE DEF SessPlugs, ReadEvent
<1>1. PlugTypeOK'  BY DEF PlugTypeOK
<1>2. Head(uevents) \in BOOLEAN /\ Tail(uevents) \in Seq(BOOLEAN)
  BY DEF SessShapes
<1>3. monitor' = [at |-> "next", event |-> Head(uevents), left |-> Displays, d |-> Nothing,
                  seen |-> FALSE]
  BY DEF Idle
<1>4. SessShapes'
  <2>1. Displays \in SUBSET Displays /\ Nothing \in Displays \cup {Nothing} /\ FALSE \in BOOLEAN
    OBVIOUS
  <2>2. [at |-> "next", event |-> Head(uevents), left |-> Displays, d |-> Nothing, seen |-> FALSE]
          \in MonitorStates
    BY ONLY <1>2, <2>1, MonitorRecord
  <2>3. monitor' \in MonitorStates /\ monitor'.at = "next"
    BY <1>3, <2>2
  <2> QED  BY <1>2, <2>3 DEF SessShapes
<1>5. ASSUME ~overtaken PROVE MonitorAgrees' /\ RegistrationAgrees'
  <2>1. /\ reg.at \in {"no", "done"} /\ Len(uevents) = 1
        /\ \A d \in Displays : SettledBut(d, Head(uevents))
    BY <1>5 DEF MonitorAgrees
  <2>2. uevents' = <<>>  BY <2>1 DEF SessShapes, MonitorStates
  <2>3. \A d \in Displays : SettledBut(d, monitor.event)'
    BY <2>1, <1>3 DEF SettledBut, Settled, Heard
  <2> QED  BY <2>1, <2>2, <2>3, <1>3 DEF MonitorAgrees, RegistrationAgrees
<1> QED  BY <1>1, <1>4, <1>5

LEMMA NextDisplayStep ==
  ASSUME SessPlugs, NextDisplay
  PROVE  SessPlugs'
<1> USE DEF SessPlugs, NextDisplay
<1>1. PlugTypeOK'  BY DEF PlugTypeOK
<1>2. CASE monitor.left = {}
  <2>1. monitor' = [at |-> "read", event |-> FALSE, left |-> {}, d |-> Nothing, seen |-> FALSE]
    BY <1>2 DEF Idle
  <2>2. SessShapes'  BY <2>1 DEF SessShapes, MonitorStates
  <2>3. ASSUME ~overtaken PROVE MonitorAgrees' /\ RegistrationAgrees'
    <3>1. /\ uevents = <<>> /\ reg.at \in {"no", "done"}
          /\ \A d \in Displays : Settled(d)
      BY <1>2, <2>3 DEF MonitorAgrees
    <3>2. \A d \in Displays : Settled(d)'
      BY <3>1 DEF Settled, Heard
    <3> QED  BY <3>1, <3>2, <2>1 DEF MonitorAgrees, RegistrationAgrees
  <2> QED  BY <1>1, <2>2, <2>3
<1>3. ASSUME NEW d \in monitor.left,
             monitor' = [monitor EXCEPT !.left = @ \ {d}, !.d = d, !.seen = plugged[d],
                           !.at = IF connect[d] = plugged[d] THEN "next" ELSE "vsync"]
      PROVE  SessPlugs'
  <2>1. /\ d \in Displays /\ plugged[d] \in BOOLEAN /\ connect[d] \in BOOLEAN
        /\ monitor.left \subseteq Displays
    BY DEF SessShapes, MonitorStates, PlugTypeOK
  <2>2. /\ monitor'.left = monitor.left \ {d} /\ monitor'.d = d /\ monitor'.seen = plugged[d]
        /\ monitor'.event = monitor.event
        /\ monitor'.at = IF connect[d] = plugged[d] THEN "next" ELSE "vsync"
    BY <1>3 DEF SessShapes, MonitorStates
  <2>3. SessShapes'  BY <1>3, <2>1, <2>2 DEF SessShapes, MonitorStates
  <2>4. ASSUME ~overtaken PROVE MonitorAgrees' /\ RegistrationAgrees'
    <3>1. /\ uevents = <<>> /\ reg.at \in {"no", "done"}
          /\ \A e \in monitor.left : SettledBut(e, monitor.event)
          /\ \A e \in Displays \ monitor.left : Settled(e)
      BY <2>4 DEF MonitorAgrees
    <3>2. /\ \A e \in Displays : Settled(e) => Settled(e)'
          /\ \A e \in Displays : SettledBut(e, monitor.event) => SettledBut(e, monitor.event)'
      BY <2>2 DEF SettledBut, Settled, Heard
    <3>3. CASE connect[d] = plugged[d]
      <4>1. Settled(d)  BY <3>1, <3>3 DEF SettledBut
      <4>2. monitor'.at = "next"  BY <2>2, <3>3
      <4> QED  BY <2>1, <2>2, <3>1, <3>2, <4>1, <4>2 DEF MonitorAgrees, RegistrationAgrees
    <3>4. CASE connect[d] # plugged[d]
      <4>1. plugged[d] = monitor.event  BY <3>1, <3>4 DEF SettledBut, Settled
      <4>2. monitor'.at = "vsync"  BY <2>2, <3>4
      <4> QED  BY <2>1, <2>2, <3>1, <3>2, <4>1, <4>2 DEF MonitorAgrees, RegistrationAgrees
    <3> QED  BY <3>3, <3>4
  <2> QED  BY <1>1, <2>3, <2>4
<1> QED  BY <1>2, <1>3

(* The monitor goes on with the display it is at.                          *)
LEMMA MonitorAt ==
  ASSUME monitor \in MonitorStates,
         NEW at \in {"next", "vsync", "commit", "tell"},
         monitor' = [monitor EXCEPT !.at = at]
  PROVE  /\ monitor' \in MonitorStates /\ monitor'.at = at
         /\ monitor'.event = monitor.event /\ monitor'.left = monitor.left
         /\ monitor'.d = monitor.d /\ monitor'.seen = monitor.seen
BY DEF MonitorStates

LEMMA HotplugVsyncStep ==
  ASSUME SessPlugs, HotplugVsync
  PROVE  SessPlugs'
<1>1. CASE UNCHANGED monitor
  BY <1>1, MonitorMovesStep DEF HotplugVsync
<1>2. CASE monitor' = [monitor EXCEPT !.at = "commit"]
  <2> USE DEF SessPlugs
  <2>1. /\ monitor.at = "vsync"
        /\ UNCHANGED <<plugged, uevents, connect, lit, reg, told, overtaken>>
    BY DEF HotplugVsync
  <2>2. /\ monitor' \in MonitorStates /\ monitor'.at = "commit"
        /\ monitor'.event = monitor.event /\ monitor'.left = monitor.left
        /\ monitor'.d = monitor.d /\ monitor'.seen = monitor.seen
        /\ monitor.left \subseteq Displays
    BY <1>2, MonitorAt DEF SessShapes, MonitorStates
  <2>3. PlugTypeOK' /\ SessShapes'
    BY <2>1, <2>2 DEF PlugTypeOK, SessShapes
  <2>4. ASSUME ~overtaken PROVE MonitorAgrees' /\ RegistrationAgrees'
    <3>1. MonitorAgrees /\ uevents = <<>> /\ reg.at \in {"no", "done"}
      BY <2>1, <2>4 DEF MonitorAgrees
    <3>2. /\ \A e \in Displays : Settled(e) => Settled(e)'
          /\ \A e \in Displays : SettledBut(e, monitor.event) => SettledBut(e, monitor.event)'
      BY <2>1, <2>2 DEF SettledBut, Settled, Heard
    <3>3. MonitorAgrees'
      BY <2>1, <2>2, <3>1, <3>2 DEF MonitorAgrees
    <3> QED  BY <2>1, <3>1, <3>3 DEF RegistrationAgrees
  <2> QED  BY <2>1, <2>3, <2>4
<1> QED  BY <1>1, <1>2 DEF HotplugVsync

(* The state takes what the connector said, the crtc what the event said;  *)
(* while nothing overtook the event they are the same.                     *)
LEMMA HotplugCommitStep ==
  ASSUME SessPlugs, HotplugCommit
  PROVE  SessPlugs'
<1> USE DEF SessPlugs
<1> DEFINE d == monitor.d
<1>1. /\ monitor.at = "commit" /\ monitor.d \in Displays
      /\ monitor.event \in BOOLEAN /\ monitor.seen \in BOOLEAN
      /\ UNCHANGED <<plugged, uevents, reg, told, overtaken>>
      /\ lit' = [lit EXCEPT ![monitor.d] = monitor.event]
      /\ connect' = [connect EXCEPT ![monitor.d] = monitor.seen]
  BY DEF HotplugCommit, SessShapes, MonitorStates
<1>2. /\ monitor' \in MonitorStates /\ monitor'.at = "tell"
      /\ monitor'.event = monitor.event /\ monitor'.left = monitor.left
      /\ monitor'.d = monitor.d /\ monitor'.seen = monitor.seen
      /\ monitor.left \subseteq Displays
  BY MonitorAt DEF HotplugCommit, SessShapes, MonitorStates
<1>3. PlugTypeOK' /\ SessShapes'
  BY <1>1, <1>2 DEF PlugTypeOK, SessShapes
<1>4. ASSUME ~overtaken PROVE MonitorAgrees' /\ RegistrationAgrees'
  <2>1. MonitorAgrees /\ uevents = <<>> /\ reg.at \in {"no", "done"}
    BY <1>1, <1>4 DEF MonitorAgrees
  <2>2. /\ monitor.d \notin monitor.left /\ monitor.seen = monitor.event
        /\ plugged[monitor.d] = monitor.event
    BY <1>1, <2>1 DEF MonitorAgrees
  <2>3. /\ connect'[monitor.d] = monitor.event /\ lit'[monitor.d] = monitor.event
        /\ \A e \in Displays \ {monitor.d} : connect'[e] = connect[e] /\ lit'[e] = lit[e]
    BY <1>1, <2>2 DEF PlugTypeOK
  <2>4. /\ \A e \in Displays \ {monitor.d} : Settled(e) => Settled(e)'
        /\ \A e \in Displays \ {monitor.d} :
             SettledBut(e, monitor.event) => SettledBut(e, monitor.event)'
    BY <1>1, <1>2, <2>3 DEF SettledBut, Settled, Heard
  <2>5. MonitorAgrees'
    BY <1>1, <1>2, <2>1, <2>2, <2>3, <2>4 DEF MonitorAgrees
  <2> QED  BY <1>1, <2>1, <2>5 DEF RegistrationAgrees
<1> QED  BY <1>1, <1>3, <1>4

LEMMA HotplugFailsStep ==
  ASSUME SessPlugs, HotplugFails
  PROVE  SessPlugs'
<1> USE DEF SessPlugs, HotplugFails
<1>1. monitor' \in MonitorStates /\ monitor'.at = "tell" /\ monitor'.d \in Displays
  BY MonitorAt DEF SessShapes
<1>2. PlugTypeOK' /\ SessShapes'
  BY <1>1 DEF PlugTypeOK, SessShapes
<1> QED  BY <1>2

LEMMA HotplugTellStep ==
  ASSUME SessPlugs, HotplugTell
  PROVE  SessPlugs'
<1> USE DEF SessPlugs
<1>1. /\ monitor.at = "tell" /\ monitor.d \in Displays /\ monitor.event \in BOOLEAN
      /\ UNCHANGED <<plugged, uevents, connect, lit, reg, overtaken>>
      /\ told' = IF reg.at = "no" THEN told ELSE [told EXCEPT ![monitor.d] = monitor.event]
  BY DEF HotplugTell, Tell, SessShapes, MonitorStates
<1>2. /\ monitor' \in MonitorStates /\ monitor'.at = "next"
      /\ monitor'.event = monitor.event /\ monitor'.left = monitor.left
      /\ monitor'.d = monitor.d /\ monitor.left \subseteq Displays
  BY MonitorAt DEF HotplugTell, SessShapes, MonitorStates
<1>3. PlugTypeOK'
  BY <1>1 DEF PlugTypeOK
<1>4. SessShapes'
  BY <1>1, <1>2 DEF SessShapes
<1>5. ASSUME ~overtaken PROVE MonitorAgrees' /\ RegistrationAgrees'
  <2>1. MonitorAgrees /\ uevents = <<>> /\ reg.at \in {"no", "done"}
    BY <1>1, <1>5 DEF MonitorAgrees
  <2>2. /\ monitor.d \notin monitor.left /\ connect[monitor.d] = monitor.event
        /\ lit[monitor.d] = monitor.event /\ plugged[monitor.d] = monitor.event
    BY <1>1, <2>1 DEF MonitorAgrees
  <2>3. \A e \in Displays \ {monitor.d} : told'[e] = told[e]
    BY <1>1 DEF PlugTypeOK
  <2>4. reg.at = "done" => told'[monitor.d] = monitor.event
    BY <1>1 DEF PlugTypeOK
  <2>5. Settled(monitor.d)'
    <3>1. CASE reg.at = "no"
      BY <1>1, <2>2, <3>1, <1>2 DEF Settled, HotplugTell
    <3>2. CASE reg.at = "done"
      <4>1. told'[monitor.d] = plugged[monitor.d]  BY <2>2, <2>4, <3>2
      <4> QED  BY <1>1, <2>2, <3>2, <4>1 DEF Settled, Heard, HotplugTell
    <3> QED  BY <2>1, <3>1, <3>2
  <2>6. /\ \A e \in Displays \ {monitor.d} : Settled(e) => Settled(e)'
        /\ \A e \in Displays \ {monitor.d} :
             SettledBut(e, monitor.event) => SettledBut(e, monitor.event)'
    BY <1>1, <1>2, <2>3 DEF SettledBut, Settled, Heard
  <2>7. MonitorAgrees'
    <3>1. \A e \in monitor.left : SettledBut(e, monitor.event)'
      BY <1>1, <1>2, <2>1, <2>2, <2>6 DEF MonitorAgrees
    <3>2. \A e \in Displays \ monitor.left : Settled(e)'
      BY <1>1, <1>2, <2>1, <2>5, <2>6 DEF MonitorAgrees
    <3> QED  BY <1>1, <1>2, <2>1, <3>1, <3>2 DEF MonitorAgrees
  <2> QED  BY <1>1, <2>1, <2>7 DEF RegistrationAgrees
<1> QED  BY <1>1, <1>3, <1>4, <1>5

-----------------------------------------------------------------------------
(* Registering a callback                                                  *)

LEMMA RegisterStep ==
  ASSUME SessPlugs, Register
  PROVE  SessPlugs'
<1> USE DEF SessPlugs
<1>1. /\ reg.at = "no" /\ reg.left = Displays /\ \A d \in Displays : told[d] = Nothing
      /\ UNCHANGED <<plugged, uevents, connect, lit, monitor, told>>
      /\ overtaken' = (overtaken \/ ~AtRest)
      /\ reg' = [reg EXCEPT !.at = "next"]
  BY DEF Register, SessShapes
<1>2. /\ reg' \in [at : {"no", "next", "tell", "done"}, left : SUBSET Displays,
                   d : Displays \cup {Nothing}]
      /\ reg'.at = "next" /\ reg'.left = Displays
  BY <1>1 DEF SessShapes
<1>3. PlugTypeOK' /\ SessShapes'
  BY <1>1, <1>2 DEF PlugTypeOK, SessShapes, AtRest
<1>4. ASSUME ~overtaken' PROVE MonitorAgrees' /\ RegistrationAgrees'
  <2>1. AtRest /\ MonitorAgrees
    BY <1>1, <1>4 DEF SessShapes
  <2>2. /\ uevents = <<>> /\ monitor.at \in {"none", "start", "read", "ended"}
        /\ \A d \in Displays : Settled(d)
    BY <2>1 DEF AtRest, MonitorAgrees
  <2>3. \A d \in Displays : Settled(d)'
    BY <1>1, <1>2, <2>2 DEF Settled
  <2> QED  BY <1>1, <1>2, <2>2, <2>3 DEF MonitorAgrees, RegistrationAgrees
<1> QED  BY <1>3, <1>4

(* A display that is not connected is not told of, and need not be: the    *)
(* callback has heard nothing of it.                                       *)
LEMMA RegNextStep ==
  ASSUME SessPlugs, RegNext
  PROVE  SessPlugs'
<1> USE DEF SessPlugs
<1>1. /\ reg.at = "next" /\ reg.left \subseteq Displays
      /\ UNCHANGED <<plugged, uevents, connect, lit, monitor, told, overtaken>>
  BY DEF RegNext, SessShapes
<1>2. PlugTypeOK'  BY <1>1 DEF PlugTypeOK
<1>3. ASSUME ~overtaken
      PROVE  /\ uevents = <<>> /\ monitor.at \in {"none", "start", "read", "ended"}
             /\ \A d \in Displays : Settled(d)
             /\ \A d \in reg.left : told[d] = Nothing
             /\ \A d \in Displays \ reg.left : Heard(d)
  BY <1>1, <1>3 DEF MonitorAgrees, RegistrationAgrees, SessShapes, MonitorStates
<1>4. CASE reg.left = {}
  <2>1. /\ reg' \in [at : {"no", "next", "tell", "done"}, left : SUBSET Displays,
                     d : Displays \cup {Nothing}]
        /\ reg'.at = "done"
    BY <1>4 DEF RegNext, SessShapes
  <2>2. SessShapes'  BY <1>1, <2>1 DEF SessShapes
  <2>3. ASSUME ~overtaken PROVE MonitorAgrees' /\ RegistrationAgrees'
    <3>1. \A d \in Displays : Settled(d)'
      BY <1>1, <1>3, <1>4, <2>1, <2>3 DEF Settled, Heard
    <3> QED  BY <1>1, <1>3, <2>1, <2>3, <3>1 DEF MonitorAgrees, RegistrationAgrees
  <2> QED  BY <1>1, <1>2, <2>2, <2>3
<1>5. CASE reg.left # {}
  <2>1. PICK d \in reg.left :
          reg' = [at |-> IF connect[d] THEN "tell" ELSE "next", left |-> reg.left \ {d}, d |-> d]
    BY <1>5 DEF RegNext
  <2>2. /\ reg' \in [at : {"no", "next", "tell", "done"}, left : SUBSET Displays,
                     d : Displays \cup {Nothing}]
        /\ reg'.at = IF connect[d] THEN "tell" ELSE "next"
        /\ reg'.left = reg.left \ {d} /\ reg'.d = d /\ d \in Displays
    BY <1>1, <2>1
  <2>3. reg'.at \in {"tell", "next"}  BY <2>2
  <2>4. SessShapes'  BY <1>1, <2>2, <2>3 DEF SessShapes
  <2>5. ASSUME ~overtaken PROVE MonitorAgrees' /\ RegistrationAgrees'
    <3>1. \A e \in Displays : Settled(e)'
      BY <1>1, <1>3, <2>3, <2>5 DEF Settled
    <3>2. MonitorAgrees'
      BY <1>1, <1>3, <2>3, <2>5, <3>1 DEF MonitorAgrees
    <3>3. \A e \in Displays \ reg.left : Heard(e)'
      BY <1>1, <1>3, <2>5 DEF Heard
    <3>4. CASE connect[d]
      <4>1. plugged[d] /\ reg'.at = "tell"
        BY <1>3, <2>2, <2>5, <3>4 DEF Settled
      <4> QED  BY <1>1, <1>3, <2>2, <2>5, <3>2, <3>3, <4>1 DEF RegistrationAgrees
    <3>5. CASE ~connect[d]
      <4>1. Heard(d)' /\ reg'.at = "next"
        BY <1>1, <1>3, <2>2, <2>5, <3>5 DEF Settled, Heard
      <4> QED  BY <1>1, <1>3, <2>2, <2>5, <3>2, <3>3, <4>1 DEF RegistrationAgrees
    <3> QED  BY <3>4, <3>5
  <2> QED  BY <1>1, <1>2, <2>4, <2>5
<1> QED  BY <1>4, <1>5

LEMMA RegTellStep ==
  ASSUME SessPlugs, RegTell
  PROVE  SessPlugs'
<1> USE DEF SessPlugs
<1>1. /\ reg.at = "tell" /\ reg.left \subseteq Displays /\ reg.d \in Displays
      /\ UNCHANGED <<plugged, uevents, connect, lit, monitor, overtaken>>
      /\ told' = [told EXCEPT ![reg.d] = TRUE]
      /\ reg' = [reg EXCEPT !.at = "next"]
  BY DEF RegTell, Tell, SessShapes
<1>2. /\ reg' \in [at : {"no", "next", "tell", "done"}, left : SUBSET Displays,
                   d : Displays \cup {Nothing}]
      /\ reg'.at = "next" /\ reg'.left = reg.left
  BY <1>1 DEF SessShapes
<1>3. PlugTypeOK'
  BY <1>1 DEF PlugTypeOK
<1>4. SessShapes'
  BY <1>1, <1>2 DEF SessShapes
<1>5. ASSUME ~overtaken PROVE MonitorAgrees' /\ RegistrationAgrees'
  <2>1. /\ uevents = <<>> /\ monitor.at \in {"none", "start", "read", "ended"}
        /\ \A d \in Displays : Settled(d)
        /\ \A d \in reg.left : told[d] = Nothing
        /\ \A d \in Displays \ reg.left : Heard(d) \/ d = reg.d
        /\ reg.d \notin reg.left /\ plugged[reg.d]
    BY <1>1, <1>5 DEF MonitorAgrees, RegistrationAgrees, SessShapes, MonitorStates
  <2>2. \A d \in Displays : Settled(d)'
    BY <1>1, <1>2, <2>1 DEF Settled
  <2>3. MonitorAgrees'
    BY <1>1, <1>2, <2>1, <2>2 DEF MonitorAgrees
  <2>4. \A d \in Displays \ {reg.d} : told'[d] = told[d]
    BY <1>1 DEF PlugTypeOK
  <2>5. told'[reg.d] = TRUE
    BY <1>1 DEF PlugTypeOK
  <2>6. plugged[reg.d] = TRUE
    BY <1>1, <2>1 DEF PlugTypeOK
  <2>7. \A d \in Displays \ reg.left : Heard(d)'
    BY <1>1, <2>1, <2>4, <2>5, <2>6 DEF Heard
  <2> QED  BY <1>1, <1>2, <2>1, <2>3, <2>4, <2>7 DEF RegistrationAgrees
<1> QED  BY <1>1, <1>3, <1>4, <1>5

-----------------------------------------------------------------------------
LEMMA SessInitInductive == SessInit => SessInductive
<1> SUFFICES ASSUME SessInit PROVE SessInductive  OBVIOUS
<1> USE DEF SessInit
<1>1. SessVsync
  <2>1. /\ inst = "none" /\ ~running /\ running \in BOOLEAN /\ ~enable /\ enable \in BOOLEAN
        /\ callback = NoCallback /\ worker = "none" /\ late = 0
    BY DEF VsyncInit
  <2>2. VsyncTypeOK  BY <2>1 DEF VsyncTypeOK
  <2> QED  BY <2>1, <2>2 DEF SessVsync, WorkerLives, WorkerStops
<1>2. PlugTypeOK  BY DEF PlugTypeOK
<1>3. [at |-> "none", event |-> FALSE, left |-> {}, d |-> Nothing, seen |-> FALSE]
        \in MonitorStates
  BY MonitorRecord
<1>4. monitor = [at |-> "none", event |-> FALSE, left |-> {}, d |-> Nothing, seen |-> FALSE]
  BY DEF Idle
<1>5. SessShapes
  <2>1. /\ reg.at = "no" /\ reg.left = Displays /\ uevents = <<>> /\ overtaken = FALSE
        /\ reg \in [at : {"no", "next", "tell", "done"}, left : SUBSET Displays,
                   d : Displays \cup {Nothing}]
    OBVIOUS
  <2>2. monitor \in MonitorStates /\ monitor.at = "none"
    BY <1>3, <1>4
  <2>3. uevents \in Seq(BOOLEAN)  BY <2>1
  <2> QED  BY <2>1, <2>2, <2>3 DEF SessShapes
<1>6. \A d \in Displays : Settled(d)  BY DEF Settled
<1>7. MonitorAgrees /\ RegistrationAgrees
  BY <1>4, <1>6 DEF MonitorAgrees, RegistrationAgrees
<1> QED  BY <1>1, <1>2, <1>5, <1>7, SessHalves DEF SessPlugs

LEMMA SessNextInductive == SessInductive /\ [SessNext]_sessVars => SessInductive'
<1> SUFFICES ASSUME SessInductive, [SessNext]_sessVars PROVE SessInductive'  OBVIOUS
<1>h. SessVsync /\ SessPlugs  BY SessHalves
<1>1. SessVsync'
  <2>1. [VsyncNext]_vsyncVars
    <3>1. CASE HotplugVsync
      <4>1. monitor.at = "vsync" /\ monitor.event \in BOOLEAN
        BY <1>h, <3>1 DEF HotplugVsync, SessPlugs, SessShapes, MonitorStates
      <4> QED  BY <3>1, <4>1 DEF HotplugVsync, VsyncNext
    <3>2. CASE VsyncStep \/ UNCHANGED sessVars
      BY <3>2 DEF VsyncStep, sessVars
    <3>3. CASE MonitorThread /\ ~HotplugVsync
      BY <3>3 DEF MonitorThread, MonitorStart, ReadEvent, HandleHotplug, NextDisplay,
                  HotplugCommit, HotplugFails, HotplugTell
    <3>4. CASE \/ \E d \in Displays : Toggle(d)
               \/ MakeMonitor \/ MonitorRunning \/ RegHotPlugCallback
      BY <3>4 DEF Toggle, MakeMonitor, MonitorRunning, RegHotPlugCallback, Register, RegNext,
                  RegTell
    <3> QED  BY <3>1, <3>2, <3>3, <3>4 DEF SessNext
  <2> QED  BY <1>h, <2>1, VsyncStepInductive
<1>2. SessPlugs'
  <2>1. ASSUME NEW d \in Displays, Toggle(d) PROVE SessPlugs'
    BY <1>h, <2>1, ToggleStep
  <2>2. CASE MakeMonitor \/ MonitorRunning \/ MonitorStart
    BY <1>h, <2>2, MonitorMovesStep DEF MakeMonitor, MonitorRunning, MonitorStart
  <2>3. CASE ReadEvent \/ HandleHotplug
    BY <1>h, <2>3, ReadEventStep, NextDisplayStep, HotplugVsyncStep, HotplugCommitStep,
       HotplugFailsStep, HotplugTellStep DEF HandleHotplug
  <2>4. CASE RegHotPlugCallback
    BY <1>h, <2>4, RegisterStep, RegNextStep, RegTellStep DEF RegHotPlugCallback
  <2>5. CASE VsyncStep \/ UNCHANGED sessVars
    BY <1>h, <2>5, MonitorMovesStep DEF VsyncStep, sessVars, plugVars
  <2> QED  BY <2>1, <2>2, <2>3, <2>4, <2>5 DEF SessNext, MonitorThread
<1>3. (SessVsync /\ SessPlugs)' => SessInductive'
  <2>1. SessShapes' => /\ monitor'.at \in {"none", "start", "read", "next", "vsync", "commit", "tell", "ended"}
                       /\ reg'.at \in {"no", "next", "tell", "done"}
    BY DEF SessShapes, MonitorStates
  <2> QED  BY <2>1 DEF SessInductive, SessVsync, SessPlugs, SessTypeOK, PlugTypeOK
<1> QED  BY <1>1, <1>2, <1>3

(* The inductive invariant of the two threads and those who call them.     *)
THEOREM SessAlwaysInductive == SessSpec => []SessInductive
BY SessInitInductive, SessNextInductive, PTL DEF SessSpec

(* The worker of the vsync callback stops only with its instance and calls  *)
(* back once at most after a disable; and when a plug was handled before   *)
(* the next, connector, crtc and callback agree with what is plugged in,   *)
(* although no lock is taken: for any number of displays.                  *)
THEOREM PlugsAreFollowed == SessSpec => []SessInvariant
<1>1. SessInductive => SessInvariant
  <2> SUFFICES ASSUME SessInductive, AtRest, ~overtaken, monitor.at = "read",
                      NEW d \in Displays
               PROVE  /\ connect[d] = plugged[d]
                      /\ lit[d] = plugged[d]
                      /\ reg.at = "done" => told[d] = plugged[d] \/ (told[d] = Nothing /\ ~plugged[d])
    BY DEF SessInductive, SessInvariant, PlugsAgree
  <2>1. Settled(d)  BY DEF SessInductive, MonitorAgrees, AtRest
  <2> QED  BY <2>1 DEF Settled, Heard
<1> QED  BY <1>1, SessAlwaysInductive, PTL
=============================================================================
