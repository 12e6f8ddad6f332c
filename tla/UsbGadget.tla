----------------------------- MODULE UsbGadget -----------------------------
(***************************************************************************)
(* The USB gadget HAL: UsbGadget.cpp, MonitorFfs.cpp and UsbGadgetUtils.   *)
(*                                                                         *)
(* setCurrentUsbFunctions takes the gadget off the bus, unlinks its        *)
(* functions, links the new ones and pulls it up. Functions that a daemon  *)
(* serves through functionfs may only be pulled up when the daemon has     *)
(* written its descriptors, that is when its endpoint files are there. A   *)
(* monitor thread watches the files with inotify, writes the controller's  *)
(* name to UDC when all are there and tells the caller, who waits for it   *)
(* with a timeout. The service has one HIDL thread, so that calls do not   *)
(* overlap; the monitor runs on between them.                              *)
(***************************************************************************)
EXTENDS Naturals, FiniteSets, Sequences

CONSTANTS
  Requests,   \* the sets of functions that are asked for
  Faulty      \* what may fail: "attr", "link", "unlink", "udc"

(* The order in which functions are linked. *)
Order == <<"MTP", "PTP", "MIDI", "ACCESSORY", "AUDIO_SOURCE", "RNDIS", "ADB">>
Function == {Order[k] : k \in DOMAIN Order}
Ffs == {"MTP", "PTP", "ADB"}       \* served by a daemon through functionfs

ASSUME UsbAssumption == Requests \subseteq SUBSET Function

VARIABLES
  pc,            \* where setCurrentUsbFunctions is
  cb,            \* the caller gave a callback and so waits
  reply,         \* what the callback was told last, "none" since the call began
  functions,     \* mCurrentUsbFunctions
  applied,       \* mCurrentUsbFunctionsApplied
  running,       \* mMonitorRunning
  watches,       \* mWatchFd: the functions whose directory is watched
  endpoints,     \* mEndpointList: the functions whose endpoints are waited for
  gadgetPullup,
  monitor,       \* where the monitor thread is
  writeUdc,      \* its local flag: the gadget is still to be pulled up
  stopFlag,      \* 100 was written to mEventFd
  linked,        \* the functions in the configuration
  bound,         \* a controller is attached: the gadget is on the bus
  alive,         \* the functions whose daemon has written its descriptors
  events,        \* there are inotify events that nobody has read
  pulled,        \* the functions pulled up since the call began
  excused        \* off the bus for a reason the monitor is not to undo: the kernel
                 \* refused although the endpoints were there, or it was taken off

callVars    == <<pc, cb, reply, functions>>
monitorVars == <<monitor, writeUdc, stopFlag>>
sharedVars  == <<applied, running, watches, endpoints, gadgetPullup>>
kernelVars  == <<linked, bound, alive, events>>
ghostVars   == <<pulled, excused>>
vars == <<callVars, monitorVars, sharedVars, kernelVars, ghostVars>>

CallTypes ==
  /\ pc \in {"idle", "pulldown", "unlink", "signal", "join", "validate", "setup", "wait"}
  /\ cb \in BOOLEAN
  /\ reply \in {"none", "SUCCESS", "ERROR", "CONFIGURATION_NOT_SUPPORTED"}
  /\ functions \subseteq Function

MonitorTypes ==
  /\ monitor \in {"none", "start", "delay", "publish", "poll", "ended"}
  /\ writeUdc \in BOOLEAN
  /\ stopFlag \in BOOLEAN

SharedTypes ==
  /\ applied \in BOOLEAN
  /\ running \in BOOLEAN
  /\ watches \subseteq Ffs
  /\ endpoints \subseteq Ffs
  /\ gadgetPullup \in BOOLEAN

KernelTypes ==
  /\ linked \subseteq Function
  /\ bound \in BOOLEAN
  /\ alive \subseteq Ffs
  /\ events \in BOOLEAN

GhostTypes == pulled \subseteq Function /\ excused \in BOOLEAN

(* The variables of the service, the monitor and the kernel; what is waited *)
(* for is served by a daemon.                                               *)
TypeOK == CallTypes /\ MonitorTypes /\ SharedTypes /\ KernelTypes /\ GhostTypes

Init ==
  /\ pc = "idle" /\ cb = FALSE /\ reply = "none" /\ functions = {}
  /\ applied = FALSE /\ running = FALSE
  /\ watches = {} /\ endpoints = {} /\ gadgetPullup = FALSE
  /\ monitor = "none" /\ writeUdc = FALSE /\ stopFlag = FALSE
  /\ linked = {} /\ bound = FALSE /\ events = FALSE
  /\ alive = {}
  /\ pulled = {} /\ excused = FALSE

-----------------------------------------------------------------------------
(* The kernel and the daemons, as the code relies on them: a gadget can be  *)
(* attached only with functions whose daemons are ready; a daemon that dies *)
(* takes its endpoints with it and the gadget off the bus; every change in  *)
(* a watched directory is followed by an event.                             *)

Bindable == ~bound /\ linked # {} /\ linked \intersect Ffs \subseteq alive

DaemonReady(f) ==
  /\ f \notin alive
  /\ alive' = alive \union {f}
  /\ events' = (events \/ f \in watches)
  /\ UNCHANGED <<callVars, monitorVars, sharedVars, linked, bound, ghostVars>>

DaemonDies(f) ==
  /\ f \in alive
  /\ alive' = alive \ {f}
  /\ bound' = (bound /\ f \notin linked)
  /\ events' = (events \/ f \in watches)
  /\ UNCHANGED <<callVars, monitorVars, sharedVars, linked, ghostVars>>

(* Faulty variants of definitions, such as KeptPullup, show that the         *)
(* properties notice a slip in the code; the model does not use them.        *)

-----------------------------------------------------------------------------
(* setCurrentUsbFunctions *)

Goto(p) == pc' = p /\ UNCHANGED <<cb, reply, functions>>

Reply(status) == /\ pc' = "idle"
                 /\ reply' = IF cb THEN status ELSE reply
                 /\ UNCHANGED <<cb, functions>>

Begin(F, c) ==
  /\ pc = "idle"
  /\ pc' = "pulldown"
  /\ cb' = c
  /\ reply' = "none"
  /\ functions' = F
  /\ applied' = FALSE
  /\ pulled' = {}
  /\ UNCHANGED <<monitorVars, running, watches, endpoints, gadgetPullup, kernelVars, excused>>

(* resetGadget begins with "none" for UDC. It goes on when that fails, with *)
(* the gadget still on the bus.                                             *)
PullDown ==
  /\ pc = "pulldown"
  /\ \/ bound' = FALSE /\ excused' = TRUE
     \/ "udc" \in Faulty /\ UNCHANGED <<bound, excused>>
  /\ Goto("unlink")
  /\ UNCHANGED <<monitorVars, sharedVars, linked, alive, events, pulled>>

(* Removing a function from the configuration takes the gadget off the bus, *)
(* should it be on it still, or again by the monitor.                       *)
UnlinkTo(S) == /\ linked' = S
               /\ bound' = (bound /\ S = linked)
               /\ excused' = (excused \/ S # linked)

UnlinkNothing ==
  /\ pc = "unlink"
  /\ UNCHANGED <<linked, bound>>
  /\ Goto(IF running THEN "signal" ELSE "validate")
  /\ UNCHANGED <<monitorVars, sharedVars, alive, events, ghostVars>>

Unlink ==
  /\ pc = "unlink"
  /\ UnlinkTo({})
  /\ Goto(IF running THEN "signal" ELSE "validate")
  /\ UNCHANGED <<monitorVars, sharedVars, alive, events, pulled>>

(* An attribute cannot be written or a link not removed: the call is over,  *)
(* the monitor of the functions before is still there.                      *)
UnlinkFailed ==
  /\ pc = "unlink"
  /\ \/ "attr" \in Faulty /\ UnlinkTo(linked)
     \/ "unlink" \in Faulty /\ \E S \in (SUBSET linked) \ {{}} : UnlinkTo(S)
  /\ Reply("ERROR")
  /\ UNCHANGED <<monitorVars, sharedVars, alive, events, pulled>>

SignalLost ==
  /\ pc = "signal"
  /\ UNCHANGED stopFlag
  /\ Goto("join")
  /\ UNCHANGED <<monitor, writeUdc, sharedVars, kernelVars, ghostVars>>

(* MonitorFfs::reset, in its two parts. *)
SignalMonitor ==
  /\ pc = "signal"
  /\ stopFlag' = TRUE
  /\ Goto("join")
  /\ UNCHANGED <<monitor, writeUdc, sharedVars, kernelVars, ghostVars>>

JoinAbandoned ==
  /\ pc = "join"
  /\ UNCHANGED <<monitor, running>>
  /\ watches' = {}
  /\ endpoints' = {}
  /\ gadgetPullup' = FALSE
  /\ events' = (events \/ watches # {})
  /\ Goto("validate")
  /\ UNCHANGED <<applied, writeUdc, stopFlag, linked, bound, alive, ghostVars>>

KeptPullup(old) == old

Cleared(old) == FALSE

(* The watches that are removed leave an event each. *)
JoinMonitor ==
  /\ pc = "join"
  /\ monitor = "ended"
  /\ monitor' = "none"
  /\ running' = FALSE
  /\ watches' = {}
  /\ endpoints' = {}
  /\ gadgetPullup' = Cleared(gadgetPullup)
  /\ events' = (events \/ watches # {})
  /\ Goto("validate")
  /\ UNCHANGED <<applied, writeUdc, stopFlag, linked, bound, alive, ghostVars>>

(* The sets of functions that have a product id. *)
Supported(F) == \/ F = {"ADB"}
                \/ F \ {"ADB"} \in {{"MTP"}, {"RNDIS"}, {"PTP"}, {"MIDI"}, {"ACCESSORY"},
                                    {"AUDIO_SOURCE"}, {"ACCESSORY", "AUDIO_SOURCE"}}

Validate ==
  /\ pc = "validate"
  /\ \/ functions = {} /\ Reply("SUCCESS")
     \/ functions # {} /\ ~Supported(functions) /\ Reply("CONFIGURATION_NOT_SUPPORTED")
     \/ Supported(functions) /\ "attr" \in Faulty /\ Reply("ERROR")
     \/ Supported(functions) /\ Goto("setup")
  /\ UNCHANGED <<monitorVars, sharedVars, kernelVars, ghostVars>>

(* The function that is linked next: the first of Order that is missing. *)
LinkedNext(f) == \E k \in DOMAIN Order :
  /\ Order[k] = f /\ f \in functions \ linked
  /\ \A j \in 1 .. k - 1 : Order[j] \notin functions \ linked

(* addGenericAndroidFunctions and addAdb, one function at a time. *)
AddFunction(f) ==
  /\ pc = "setup"
  /\ LinkedNext(f)
  /\ linked' = linked \union {f}
  /\ watches' = watches \union ({f} \intersect Ffs)
  /\ endpoints' = endpoints \union ({f} \intersect Ffs)
  /\ UNCHANGED <<callVars, monitorVars, applied, running, gadgetPullup, bound, alive,
                 events, ghostVars>>

(* The directory may be watched already when the link fails. *)
AddFailed(f) ==
  /\ pc = "setup"
  /\ "link" \in Faulty
  /\ LinkedNext(f)
  /\ \/ UNCHANGED watches
     \/ watches' = watches \union ({f} \intersect Ffs)
  /\ Reply("ERROR")
  /\ UNCHANGED <<monitorVars, applied, running, endpoints, gadgetPullup, kernelVars, ghostVars>>

AllLinked == pc = "setup" /\ functions \subseteq linked

PullUpDirectly ==
  /\ AllLinked
  /\ functions \intersect Ffs = {}
  /\ \/ /\ Bindable
        /\ bound' = TRUE
        /\ applied' = TRUE
        /\ pulled' = linked
        /\ Reply("SUCCESS")
     \/ /\ "udc" \in Faulty
        /\ Reply("ERROR")
        /\ UNCHANGED <<bound, applied, pulled>>
  /\ UNCHANGED <<monitorVars, running, watches, endpoints, gadgetPullup, linked, alive,
                 events, excused>>

StartMonitor ==
  /\ AllLinked
  /\ functions \intersect Ffs # {}
  /\ monitor' = "start"
  /\ writeUdc' = TRUE
  /\ running' = TRUE
  /\ excused' = FALSE
  /\ Goto(IF cb THEN "wait" ELSE "idle")
  /\ UNCHANGED <<applied, watches, endpoints, gadgetPullup, stopFlag, kernelVars, pulled>>

(* waitForPullUp: at once, when notified, or at the latest when the time is *)
(* over; the flag decides what the caller is told.                          *)
PulledUpInTime ==
  /\ pc = "wait"
  /\ gadgetPullup
  /\ Reply("SUCCESS")
  /\ UNCHANGED <<monitorVars, sharedVars, kernelVars, ghostVars>>

TimedOut ==
  /\ pc = "wait"
  /\ ~gadgetPullup
  /\ Reply("ERROR")
  /\ UNCHANGED <<monitorVars, sharedVars, kernelVars, ghostVars>>

Call == \/ PullDown \/ Unlink \/ UnlinkFailed \/ SignalMonitor \/ JoinMonitor \/ Validate
        \/ \E f \in Function : AddFunction(f) \/ AddFailed(f)
        \/ PullUpDirectly \/ StartMonitor \/ PulledUpInTime \/ TimedOut

(* UsbGadget::reset takes the gadget off the bus without telling anybody.   *)
Reset ==
  /\ pc = "idle"
  /\ bound
  /\ bound' = FALSE
  /\ excused' = TRUE
  /\ UNCHANGED <<callVars, monitorVars, sharedVars, linked, alive, events, pulled>>

-----------------------------------------------------------------------------
(* The monitor thread, startMonitorFd. *)

DescriptorsPresent == endpoints \subseteq alive

InitialLookSkipped ==
  /\ monitor = "start"
  /\ monitor' = "poll"
  /\ UNCHANGED <<callVars, writeUdc, stopFlag, sharedVars, kernelVars, ghostVars>>

(* The endpoints may be there already. *)
InitialLook ==
  /\ monitor = "start"
  /\ monitor' = IF DescriptorsPresent THEN "delay" ELSE "poll"
  /\ UNCHANGED <<callVars, writeUdc, stopFlag, sharedVars, kernelVars, ghostVars>>

(* After half a second the controller's name is written to UDC ... *)
PullUp ==
  /\ monitor = "delay"
  /\ Bindable
  /\ bound' = TRUE
  /\ pulled' = linked
  /\ excused' = FALSE
  /\ monitor' = "publish"
  /\ UNCHANGED <<callVars, writeUdc, stopFlag, sharedVars, linked, alive, events>>

(* ... or cannot be; it is tried again after the next event. *)
PullUpFailed ==
  /\ monitor = "delay"
  /\ ~Bindable \/ "udc" \in Faulty
  /\ excused' = DescriptorsPresent
  /\ monitor' = "poll"
  /\ UNCHANGED <<callVars, writeUdc, stopFlag, sharedVars, kernelVars, pulled>>

(* With mLock: the flags, the callback and the notification. *)
Publish ==
  /\ monitor = "publish"
  /\ applied' = TRUE
  /\ gadgetPullup' = TRUE
  /\ writeUdc' = FALSE
  /\ monitor' = "poll"
  /\ UNCHANGED <<callVars, stopFlag, running, watches, endpoints, kernelVars, ghostVars>>

(* An event is read; there may be more in the queue. *)
ReadEvent == events /\ events' \in BOOLEAN

(* What an event says is not looked at, only the endpoints as they are now. *)
Look ==
  /\ monitor = "poll"
  /\ ReadEvent
  /\ \/ ~DescriptorsPresent /\ ~writeUdc /\ writeUdc' = TRUE /\ UNCHANGED monitor
     \/ DescriptorsPresent /\ writeUdc /\ monitor' = "delay" /\ UNCHANGED writeUdc
     \/ DescriptorsPresent # writeUdc /\ UNCHANGED <<monitor, writeUdc>>
  /\ UNCHANGED <<callVars, stopFlag, sharedVars, linked, bound, alive, ghostVars>>

MonitorStops ==
  /\ monitor = "poll"
  /\ stopFlag
  /\ stopFlag' = FALSE
  /\ monitor' = "ended"
  /\ UNCHANGED <<callVars, writeUdc, sharedVars, kernelVars, ghostVars>>

Monitor == InitialLook \/ PullUp \/ PullUpFailed \/ Publish \/ Look \/ MonitorStops

Next == \/ \E F \in Requests, c \in BOOLEAN : Begin(F, c)
        \/ Call \/ Reset \/ Monitor
        \/ \E f \in Ffs : DaemonReady(f) \/ DaemonDies(f)

(* Calls that have begun and the monitor go on; epoll reports the eventfd   *)
(* even when inotify events keep coming. Nobody has to call, and a daemon   *)
(* need neither come nor go.                                                *)
Fairness == /\ WF_vars(Call)
            /\ WF_vars(Monitor)
            /\ SF_vars(MonitorStops)

Spec == Init /\ [][Next]_vars /\ Fairness
-----------------------------------------------------------------------------
(* Properties. *)

(* Who is told SUCCESS has the functions asked for, and no others, pulled   *)
(* up since the call began, although the monitor of the functions before   *)
(* may pull the gadget up and publish that at any moment of the tear-down.  *)
SuccessIsTrue ==
  [][reply = "none" /\ reply' = "SUCCESS" /\ functions # {} => pulled' = functions]_vars

(* When nothing is asked for, the monitor of what was before can no longer  *)
(* put the gadget back on the bus.                                          *)
NoneStaysDown == pc = "idle" /\ reply = "SUCCESS" /\ functions = {} => ~bound

(* startMonitorFd is started only when the thread before it was joined (a  *)
(* joinable thread object may not be replaced), its stop request consumed   *)
(* and its news forgotten.                                                  *)
OneMonitor ==
  /\ pc \in {"validate", "setup"} => monitor = "none" /\ ~running /\ ~stopFlag /\ ~gadgetPullup
  /\ running <=> monitor # "none"

(* setCurrentUsbFunctions returns: the monitor is reached by the stop       *)
(* request wherever it is, and the wait for the pull-up ends.               *)
SetReturns == (pc # "idle") ~> (pc = "idle")

Quiet == pc = "idle" /\ running /\ DescriptorsPresent /\ ~excused

(* UsbGadgetCommon.h:134-135: the monitor pulls up the gadget when the      *)
(* descriptors are written: once they stay, and the kernel does not refuse, *)
(* the monitor is done with it, whenever they were written.                 *)
PulledUpOnceWritten == <>[]Quiet => <>[]~writeUdc

(* What the monitor takes the endpoints for, and what they are, differ only *)
(* while an event waits to be read: a gadget that is still to be pulled up  *)
(* does not stay off the bus with all endpoints there, unless the kernel    *)
(* refused, nor does an endpoint's end go unnoticed. (MonitorFfs.cpp:134-162.) *)
NoEventMissed ==
  monitor = "poll" =>
    /\ writeUdc /\ DescriptorsPresent /\ ~excused => events
    /\ ~writeUdc /\ ~DescriptorsPresent => events

(* UsbGadgetCommon.h:94-96: the gadget is restarted when the owner of the   *)
(* endpoints restarts: once all are there for good it is on the bus again.  *)
RestartedWithOwner ==
  <>[]Quiet => <>[]bound
=============================================================================
