----------------------------- MODULE HdiSession -----------------------------
(***************************************************************************)
(* Two threads of the display composer that take no lock.                  *)
(*                                                                         *)
(* The vsync worker (display_device/drm_vsync_worker.cpp), one for all     *)
(* displays, calls the vsync callback.  Around it act the thread that first *)
(* asks for the instance, the threads that enable vsync or register a      *)
(* callback, and the exit of the process, which destroys the instance.     *)
(*                                                                         *)
(* Hot plugging (display_device/hdi_session.cpp, hdi_netlink_monitor.cpp,  *)
(* DrmDevice::HandleHotplug and DrmConnector::HandleHotplug): the monitor  *)
(* thread reads the kernel's events, asks each connector for its state and *)
(* tells the registered callback; a client registers it meanwhile.         *)
(***************************************************************************)
EXTENDS Naturals, Sequences, FiniteSets

CONSTANTS
  Callbacks,    \* the VsyncCallBacks that may be registered
  NoCallback,
  Displays,
  MaxToggles,   \* bound: plugs and unplugs of a behaviour
  Nothing

VARIABLES
  inst,       \* GetInstance: "none", "thread" made, mRunning set, "exit"
  running,    \* mRunning
  enable,     \* mEnable
  callback,   \* mCallBack
  worker,     \* where WorkThread is
  late,       \* callbacks made since vsync was last disabled
  plugged,    \* the kernel: what is connected
  uevents,    \* the events STATE=HDMI=0/1 the monitor has not read
  toggles,    \* how often something was plugged or unplugged
  connect,    \* DrmConnector::mConnectState
  lit,        \* the kernel's crtc of each display is active
  monitor,    \* where MonitorThread is, with the event, the displays left,
              \* the display it is at and the connection it has read
  mrunning,   \* HdiNetLinkMonitor::mRunning
  reg,        \* where RegHotPlugCallback is, with the displays left
  told,       \* what the callback last heard of each display
  overtaken   \* something happened before what came earlier was over

vsyncVars == <<inst, running, enable, callback, worker, late>>

VsyncTypeOK ==
  /\ inst \in {"none", "thread", "running", "exit"}
  /\ running \in BOOLEAN
  /\ enable \in BOOLEAN
  /\ callback \in Callbacks \cup {NoCallback}
  /\ worker \in {"none", "check", "wait", "blank", "call", "ended"}
  /\ late \in 0 .. 2

VsyncInit ==
  /\ inst = "none"
  /\ running = FALSE
  /\ enable = FALSE
  /\ callback = NoCallback
  /\ worker = "none"
  /\ late = 0

(* Init makes the thread before it sets mRunning *)
CreateThread ==
  /\ inst = "none"
  /\ inst' = "thread"
  /\ worker' = "check"
  /\ UNCHANGED <<running, enable, callback, late>>

SetRunning ==
  /\ inst = "thread"
  /\ inst' = "running"
  /\ running' = TRUE
  /\ UNCHANGED <<enable, callback, worker, late>>

----------------------------------------------------------------------------
(* WaitSignalAndCheckRuning: the predicate is looked at when the worker
   comes to the wait and whenever it is woken *)
Check ==
  /\ worker = "check"
  /\ worker' = IF enable \/ ~running THEN (IF running THEN "blank" ELSE "ended") ELSE "wait"
  /\ UNCHANGED <<inst, running, enable, callback, late>>

(* WaitNextVBlank *)
BugBlank ==
  /\ worker = "blank"
  /\ worker' = "check"
  /\ UNCHANGED <<inst, running, enable, callback, late>>
Blank ==
  /\ worker = "blank"
  /\ worker' = IF callback = NoCallback THEN "check" ELSE "call"
  /\ UNCHANGED <<inst, running, enable, callback, late>>

CallBack ==
  /\ worker = "call"
  /\ worker' = "check"
  /\ late' = IF enable \/ late = 2 THEN late ELSE late + 1
  /\ UNCHANGED <<inst, running, enable, callback>>

WorkThread == Check \/ Blank \/ CallBack

(* notify_one: the worker is the only one that waits *)
BugNotify == UNCHANGED worker
Notify == worker' = IF worker = "wait" THEN "check" ELSE worker

(* EnableVsync, on an instance whose Init has returned *)
EnableVsync(on) ==
  /\ inst = "running"
  /\ enable' = on
  /\ late' = IF enable /\ ~on THEN 0 ELSE late
  /\ Notify
  /\ UNCHANGED <<inst, running, callback>>

ReqesterVBlankCb(cb) ==
  /\ inst = "running"
  /\ callback' = cb
  /\ UNCHANGED <<inst, running, enable, worker, late>>

(* ~DrmVsyncWorker, up to the join *)
Destroy ==
  /\ inst = "running"
  /\ inst' = "exit"
  /\ running' = FALSE
  /\ Notify
  /\ UNCHANGED <<enable, callback, late>>

VsyncNext ==
  \/ CreateThread
  \/ SetRunning
  \/ WorkThread
  \/ \E on \in BOOLEAN : EnableVsync(on)
  \/ \E cb \in Callbacks : ReqesterVBlankCb(cb)
  \/ Destroy

----------------------------------------------------------------------------
(* The worker stops for good only when the process ends or when it came to
   its first check before mRunning was set, which no later call repairs; and
   after vsync is disabled, which does not wait for it, it calls back once
   at most.  (drm_vsync_worker.cpp:31-33, :84, :94) *)
WorkerLives ==
  /\ late <= 1
  /\ worker = "wait" => ~enable /\ running
  /\ inst = "running" /\ worker # "ended" => running

(* Every enable is noticed: as long as the worker lives and vsync stays on,
   with a callback to call, it is called again and again; and when the
   process ends the thread it waits for ends.  (EnableVsync,
   drm_vsync_worker.cpp:84, and ~DrmVsyncWorker, :50) *)
VsyncDelivers ==
  /\ <>[](enable /\ callback # NoCallback /\ worker # "ended") => []<>(worker = "call")
  /\ (inst = "exit") ~> (worker = "ended")

----------------------------------------------------------------------------
(* The monitor *)
plugVars == <<plugged, uevents, toggles, connect, lit, monitor, mrunning, reg, told, overtaken>>
sessVars == <<vsyncVars, plugVars>>

Idle == [at |-> "read", event |-> FALSE, left |-> {}, d |-> Nothing, seen |-> FALSE]

SessTypeOK ==
  /\ VsyncTypeOK
  /\ plugged \in [Displays -> BOOLEAN]
  /\ connect \in [Displays -> BOOLEAN]
  /\ lit \in [Displays -> BOOLEAN]
  /\ monitor.at \in {"none", "start", "read", "next", "vsync", "commit", "tell", "ended"}
  /\ told \in [Displays -> BOOLEAN \cup {Nothing}]
  /\ reg.at \in {"no", "next", "tell", "done"}

(* after Init has discovered the displays; the monitor is not made yet *)
SessInit ==
  /\ VsyncInit
  /\ plugged \in [Displays -> BOOLEAN]
  /\ uevents = <<>>
  /\ toggles = 0
  /\ connect = plugged
  /\ lit = plugged
  /\ monitor = [Idle EXCEPT !.at = "none"]
  /\ mrunning = FALSE
  /\ reg = [at |-> "no", left |-> Displays, d |-> Nothing]
  /\ told = [d \in Displays |-> Nothing]
  /\ overtaken = FALSE

AtRest ==
  /\ uevents = <<>>
  /\ monitor.at \in {"none", "start", "read", "ended"}
  /\ reg.at \in {"no", "done"}

----------------------------------------------------------------------------
(* the kernel sends an event for a plug, without the connector's name *)
Toggle(d) ==
  /\ toggles < MaxToggles
  /\ toggles' = toggles + 1
  /\ plugged' = [plugged EXCEPT ![d] = ~@]
  /\ uevents' = Append(uevents, ~plugged[d])
  /\ overtaken' = (overtaken \/ ~AtRest)
  /\ UNCHANGED <<vsyncVars, connect, lit, monitor, mrunning, reg, told>>

(* HdiNetLinkMonitor::Init makes the thread before it sets mRunning *)
MakeMonitor ==
  /\ monitor.at = "none"
  /\ monitor' = [Idle EXCEPT !.at = "start"]
  /\ UNCHANGED <<vsyncVars, plugged, uevents, toggles, connect, lit, mrunning, reg, told, overtaken>>

MonitorRunning ==
  /\ monitor.at # "none"
  /\ ~mrunning
  /\ mrunning' = TRUE
  /\ UNCHANGED <<vsyncVars, plugged, uevents, toggles, connect, lit, monitor, reg, told, overtaken>>

(* the thread opens its socket and looks at mRunning *)
MonitorStart ==
  /\ monitor.at = "start"
  /\ monitor' = IF mrunning THEN Idle ELSE [Idle EXCEPT !.at = "ended"]
  /\ UNCHANGED <<vsyncVars, plugged, uevents, toggles, connect, lit, mrunning, reg, told, overtaken>>

(* read and ParseUeventMessage: HandleHotplug for every display, in any order *)
ReadEvent ==
  /\ monitor.at = "read"
  /\ uevents # <<>>
  /\ monitor' = [Idle EXCEPT !.at = "next", !.event = Head(uevents), !.left = Displays]
  /\ uevents' = Tail(uevents)
  /\ UNCHANGED <<vsyncVars, plugged, toggles, connect, lit, mrunning, reg, told, overtaken>>

(* drmModeGetConnector: a connector that has not changed is left alone *)
NextDisplay ==
  /\ monitor.at = "next"
  /\ IF monitor.left = {} THEN monitor' = Idle
     ELSE \E d \in monitor.left :
            monitor' = [monitor EXCEPT !.left = @ \ {d}, !.d = d, !.seen = plugged[d],
                                       !.at = IF connect[d] = plugged[d] THEN "next" ELSE "vsync"]
  /\ UNCHANGED <<vsyncVars, plugged, uevents, toggles, connect, lit, mrunning, reg, told, overtaken>>

(* vsync follows the event, whatever the display; the instance may have to
   be made first *)
HotplugVsync ==
  /\ monitor.at = "vsync"
  /\ IF inst = "none" THEN CreateThread /\ UNCHANGED monitor
     ELSE EnableVsync(monitor.event) /\ monitor' = [monitor EXCEPT !.at = "commit"]
  /\ UNCHANGED <<plugged, uevents, toggles, connect, lit, mrunning, reg, told, overtaken>>

(* the mode set follows the event, the state the connector *)
HotplugCommit ==
  /\ monitor.at = "commit"
  /\ lit' = [lit EXCEPT ![monitor.d] = monitor.event]
  /\ connect' = [connect EXCEPT ![monitor.d] = monitor.seen]
  /\ monitor' = [monitor EXCEPT !.at = "tell"]
  /\ UNCHANGED <<vsyncVars, plugged, uevents, toggles, mrunning, reg, told, overtaken>>

(* without a crtc, or when the mode set is refused, the negative code that is
   returned is taken for success: the callback is told, the state stays *)
HotplugFails ==
  /\ monitor.at \in {"vsync", "commit"}
  /\ monitor' = [monitor EXCEPT !.at = "tell"]
  /\ overtaken' = TRUE
  /\ UNCHANGED <<vsyncVars, plugged, uevents, toggles, connect, lit, mrunning, reg, told>>

(* DoHotPlugCallback *)
Tell(d, c) == told' = IF reg.at = "no" THEN told ELSE [told EXCEPT ![d] = c]

HotplugTell ==
  /\ monitor.at = "tell"
  /\ Tell(monitor.d, monitor.event)
  /\ monitor' = [monitor EXCEPT !.at = "next"]
  /\ UNCHANGED <<vsyncVars, plugged, uevents, toggles, connect, lit, mrunning, reg, overtaken>>

HandleHotplug == NextDisplay \/ HotplugVsync \/ HotplugCommit \/ HotplugFails \/ HotplugTell
MonitorThread == MonitorStart \/ ReadEvent \/ HandleHotplug

----------------------------------------------------------------------------
(* RegHotPlugCallback: put the callback in, then tell it what is connected *)
Register ==
  /\ reg.at = "no"
  /\ reg' = [reg EXCEPT !.at = "next"]
  /\ overtaken' = (overtaken \/ ~AtRest)
  /\ UNCHANGED <<vsyncVars, plugged, uevents, toggles, connect, lit, monitor, mrunning, told>>

RegNext ==
  /\ reg.at = "next"
  /\ reg' = IF reg.left = {} THEN [reg EXCEPT !.at = "done"]
            ELSE LET d == CHOOSE x \in reg.left : TRUE
                 IN [at |-> IF connect[d] THEN "tell" ELSE "next", left |-> reg.left \ {d}, d |-> d]
  /\ UNCHANGED <<vsyncVars, plugged, uevents, toggles, connect, lit, monitor, mrunning, told, overtaken>>

RegTell ==
  /\ reg.at = "tell"
  /\ Tell(reg.d, TRUE)
  /\ reg' = [reg EXCEPT !.at = "next"]
  /\ UNCHANGED <<vsyncVars, plugged, uevents, toggles, connect, lit, monitor, mrunning, overtaken>>

RegHotPlugCallback == Register \/ RegNext \/ RegTell

(* the client's calls and the worker, beside the monitor *)
VsyncStep == VsyncNext /\ UNCHANGED plugVars

SessNext ==
  \/ \E d \in Displays : Toggle(d)
  \/ MakeMonitor
  \/ MonitorRunning
  \/ MonitorThread
  \/ RegHotPlugCallback
  \/ VsyncStep

(* a thread that can run runs; what a client does and what the user plugs is
   owed by nobody *)
Fairness ==
  /\ WF_sessVars(MonitorThread)
  /\ WF_sessVars(RegHotPlugCallback)
  /\ WF_sessVars(SetRunning /\ UNCHANGED plugVars)
  /\ WF_sessVars(MonitorRunning)
  /\ WF_sessVars(WorkThread /\ UNCHANGED plugVars)

SessSpec == SessInit /\ [][SessNext]_sessVars /\ Fairness

----------------------------------------------------------------------------
(* When nothing is under way, the callback, the connector's state and the
   crtc agree with what is plugged in, as long as each plug was handled
   before the next one and no mode set failed: one event names no display
   and is matched against the state read when it is handled.  (HandleHotplug,
   drm_connector.cpp:297, hdi_session.cpp:60) *)
PlugsAgree ==
  AtRest /\ ~overtaken /\ monitor.at = "read" =>
    \A d \in Displays :
      /\ connect[d] = plugged[d]
      /\ lit[d] = plugged[d]
      /\ reg.at = "done" => told[d] = plugged[d] \/ (told[d] = Nothing /\ ~plugged[d])

SessInvariant ==
  /\ SessTypeOK
  /\ WorkerLives
  /\ PlugsAgree

(* What makes SessInvariant inductive.  The worker: mRunning is set exactly
   while the instance runs, and once it has called back after a disable it is
   on its way to the wait. *)
WorkerStops ==
  /\ running <=> inst = "running"
  /\ ~enable /\ late = 1 => worker \notin {"blank", "call"}

MonitorStates ==
  [at : {"none", "start", "read", "next", "vsync", "commit", "tell", "ended"},
   event : BOOLEAN, left : SUBSET Displays, d : Displays \cup {Nothing}, seen : BOOLEAN]

SessShapes ==
  /\ monitor \in MonitorStates
  /\ monitor.at \in {"vsync", "commit", "tell"} => monitor.d \in Displays
  /\ uevents \in Seq(BOOLEAN)
  /\ overtaken \in BOOLEAN
  /\ reg \in [at : {"no", "next", "tell", "done"}, left : SUBSET Displays,
               d : Displays \cup {Nothing}]
  /\ reg.at = "tell" => reg.d \in Displays
  /\ reg.at = "no" => reg.left = Displays /\ \A d \in Displays : told[d] = Nothing

Heard(d) == told[d] = plugged[d] \/ (told[d] = Nothing /\ ~plugged[d])
Settled(d) == connect[d] = plugged[d] /\ lit[d] = plugged[d] /\ (reg.at = "done" => Heard(d))

(* d is settled or what the event is about *)
SettledBut(d, event) == Settled(d) \/ (plugged[d] = event /\ connect[d] # event)

(* The event that is under way is what each display not yet handled waits
   for, and all others agree. *)
MonitorAgrees ==
  LET busy == monitor.at \in {"next", "vsync", "commit", "tell"} IN
  /\ uevents # <<>> =>
       /\ ~busy /\ reg.at \in {"no", "done"} /\ Len(uevents) = 1
       /\ \A d \in Displays : SettledBut(d, Head(uevents))
  /\ busy =>
       /\ reg.at \in {"no", "done"}
       /\ \A d \in monitor.left : SettledBut(d, monitor.event)
       /\ \A d \in Displays \ monitor.left :
            Settled(d) \/ (monitor.at # "next" /\ d = monitor.d)
  /\ monitor.at \in {"vsync", "commit"} =>
       monitor.d \notin monitor.left /\ monitor.seen = monitor.event
         /\ plugged[monitor.d] = monitor.event
  /\ monitor.at = "tell" =>
       LET d == monitor.d IN
       /\ d \notin monitor.left
       /\ connect[d] = monitor.event /\ lit[d] = monitor.event /\ plugged[d] = monitor.event
  /\ ~busy /\ uevents = <<>> => \A d \in Displays : Settled(d)

(* While a callback is registered nothing else is under way; it has heard of
   those it has been told of and of nothing else. *)
RegistrationAgrees ==
  reg.at \in {"next", "tell"} =>
    /\ \A d \in reg.left : told[d] = Nothing
    /\ \A d \in Displays \ reg.left : Heard(d) \/ (reg.at = "tell" /\ d = reg.d)
    /\ reg.at = "tell" => reg.d \notin reg.left /\ plugged[reg.d]

SessInductive ==
  /\ SessTypeOK /\ SessShapes
  /\ WorkerLives /\ WorkerStops
  /\ ~overtaken => MonitorAgrees /\ RegistrationAgrees

(* Every event is handled, unless the monitor ended before it began.
   (MonitorThread, hdi_netlink_monitor.cpp:93) *)
HotplugHandled ==
  (monitor.at \notin {"none", "start", "ended"}) ~> (AtRest \/ inst = "exit")

(* Every event reaches its callback: a vertical blank that the worker takes
   after a callback was given, and a hotplug event that was read; unless the
   thread ended before its flag was set, which both threads may do.
   (WorkThread, drm_vsync_worker.cpp:94; MonitorThread,
   hdi_netlink_monitor.cpp:93) *)
EventsReachTheirCallback == VsyncDelivers /\ HotplugHandled
=============================================================================
