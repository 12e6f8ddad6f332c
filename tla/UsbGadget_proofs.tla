-------------------------- MODULE UsbGadget_proofs --------------------------
(***************************************************************************)
(* What setCurrentUsbFunctions tells its caller is true, whatever the old  *)
(* monitor, the daemons and the kernel do meanwhile, for any set of        *)
(* functions and any failures.                                             *)
(***************************************************************************)
EXTENDS UsbGadget, TLAPS

(* The life of the monitor: it is there from StartMonitor to JoinMonitor,   *)
(* told to stop only by the call that then joins it.                        *)
Lives ==
  /\ running <=> monitor # "none"
  /\ gadgetPullup => running
  /\ stopFlag => pc = "join"
  /\ monitor = "ended" => pc = "join" /\ ~stopFlag
  /\ pc \in {"signal", "join", "wait"} => running
  /\ pc \in {"validate", "setup"} => ~running

(* What is linked while a call goes on. *)
Links ==
  /\ bound => linked # {}
  /\ pc \in {"signal", "join", "validate"} => linked = {}
  /\ pc = "setup" => linked \subseteq functions
  /\ pc \in {"setup", "wait"} => functions # {}
  /\ pc = "wait" => linked = functions

(* What was said, and what will be. *)
News ==
  /\ pc = "wait" /\ (gadgetPullup \/ monitor = "publish") => pulled = functions
  /\ pc # "idle" => reply = "none"
  /\ pc = "idle" /\ reply = "SUCCESS" /\ functions = {} => linked = {}

IInv == TypeOK /\ Lives /\ Links /\ News

(* No state the service starts in breaks the invariant. *)
LEMMA InitIInv == Init => IInv
<1> SUFFICES ASSUME Init PROVE IInv
  OBVIOUS
<1>1. TypeOK
  BY DEF Init, TypeOK, CallTypes, MonitorTypes, SharedTypes, KernelTypes, GhostTypes
<1>2. Lives /\ Links /\ News
  BY DEF Init, Lives, Links, News
<1> QED BY <1>1, <1>2 DEF IInv

(* A call may ask for any of the sets of functions.                         *)
LEMMA BeginIInv ==
  ASSUME IInv, NEW F \in Requests, NEW c \in BOOLEAN, Begin(F, c)
  PROVE  IInv'
<1> USE UsbAssumption DEF IInv, Begin
<1>1. TypeOK'
  <2> USE DEF TypeOK, CallTypes, MonitorTypes, SharedTypes, KernelTypes, GhostTypes,
              monitorVars, kernelVars
  <2>1. CallTypes' /\ GhostTypes'
    OBVIOUS
  <2>2. MonitorTypes' /\ SharedTypes' /\ KernelTypes'
    OBVIOUS
  <2> QED BY <2>1, <2>2
<1>2. Lives'
  BY DEF Lives, monitorVars
<1>3. Links' /\ News'
  BY DEF Links, News, monitorVars, kernelVars
<1> QED BY <1>1, <1>2, <1>3

(* Taking the gadget off the bus, unlinking its functions, and what makes   *)
(* that fail.                                                               *)
LEMMA TearDownIInv ==
  IInv /\ (PullDown \/ Unlink \/ UnlinkFailed \/ Reset) => IInv'
<1> SUFFICES ASSUME IInv, PullDown \/ Unlink \/ UnlinkFailed \/ Reset PROVE IInv'
  OBVIOUS
<1> USE DEF IInv
<1>1. TypeOK'
  <2> USE DEF TypeOK, CallTypes, MonitorTypes, SharedTypes, KernelTypes, GhostTypes,
              Goto, Reply, UnlinkTo, callVars, monitorVars, sharedVars, ghostVars
  <2>1. CASE PullDown \/ Reset
    <3>1. bound' \in BOOLEAN /\ excused' \in BOOLEAN
      BY <2>1, Zenon DEF PullDown, Reset
    <3>2. UNCHANGED <<linked, alive, events, pulled>>
      BY <2>1 DEF PullDown, Reset
    <3>3. CallTypes' /\ MonitorTypes' /\ SharedTypes'
      BY <2>1 DEF PullDown, Reset
    <3> QED BY <3>1, <3>2, <3>3
  <2>2. CASE Unlink
    <3>1. linked' = {} /\ UNCHANGED <<alive, events, pulled>>
      BY <2>2 DEF Unlink
    <3>2. bound' \in BOOLEAN /\ excused' \in BOOLEAN
      BY <2>2, Zenon DEF Unlink
    <3>3. CallTypes' /\ MonitorTypes' /\ SharedTypes'
      BY <2>2 DEF Unlink
    <3> QED BY <3>1, <3>2, <3>3
  <2>3. CASE UnlinkFailed
    <3>1. linked' \in SUBSET Function
      BY <2>3 DEF UnlinkFailed
    <3>2. bound' \in BOOLEAN /\ excused' \in BOOLEAN
      BY <2>3, Zenon DEF UnlinkFailed
    <3>3. CallTypes' /\ MonitorTypes' /\ SharedTypes'
      BY <2>3 DEF UnlinkFailed
    <3>4. UNCHANGED <<alive, events, pulled>>
      BY <2>3 DEF UnlinkFailed
    <3> QED BY <3>1, <3>2, <3>3, <3>4
  <2> QED BY <2>1, <2>2, <2>3
<1>2. Lives' /\ Links' /\ News'
  <2> USE DEF Lives, Links, News, Goto, Reply, UnlinkTo, callVars, monitorVars, sharedVars,
              ghostVars
  <2>1. CASE PullDown \/ Reset
    BY <2>1 DEF PullDown, Reset
  <2>2. CASE Unlink
    BY <2>2 DEF Unlink
  <2>3. CASE UnlinkFailed
    BY <2>3 DEF UnlinkFailed
  <2> QED BY <2>1, <2>2, <2>3
<1> QED BY <1>1, <1>2

(* Stopping the monitor, which takes its news along, and the validation.    *)
LEMMA StopMonitorIInv ==
  IInv /\ (SignalMonitor \/ JoinMonitor \/ Validate) => IInv'
<1> SUFFICES ASSUME IInv, SignalMonitor \/ JoinMonitor \/ Validate PROVE IInv'
  OBVIOUS
<1> USE DEF IInv
<1>1. TypeOK'
  <2> USE DEF TypeOK, CallTypes, MonitorTypes, SharedTypes, KernelTypes, GhostTypes,
              Goto, Reply, Cleared, monitorVars, sharedVars, kernelVars, ghostVars
  <2>1. CASE SignalMonitor
    BY <2>1 DEF SignalMonitor
  <2>2. CASE JoinMonitor
    BY <2>2 DEF JoinMonitor
  <2>3. CASE Validate
    BY <2>3 DEF Validate
  <2> QED BY <2>1, <2>2, <2>3
<1>2. Lives' /\ Links' /\ News'
  <2> USE DEF Lives, Links, News, Goto, Reply, Cleared, monitorVars, sharedVars, kernelVars,
              ghostVars
  <2>1. CASE SignalMonitor
    BY <2>1 DEF SignalMonitor
  <2>2. CASE JoinMonitor
    BY <2>2 DEF JoinMonitor
  <2>3. CASE Validate
    <3>1. \/ functions = {}
          \/ functions # {} /\ Supported(functions)
          \/ functions # {} /\ ~Supported(functions)
      OBVIOUS
    <3> QED BY <2>3, <3>1 DEF Validate, Supported
  <2> QED BY <2>1, <2>2, <2>3
<1> QED BY <1>1, <1>2

(* Linking the functions one by one, for any order.                         *)
LEMMA SetupIInv ==
  ASSUME IInv, NEW f \in Function, AddFunction(f) \/ AddFailed(f)
  PROVE  IInv'
<1> USE DEF IInv
<1>1. TypeOK'
  <2> USE DEF TypeOK, CallTypes, MonitorTypes, SharedTypes, KernelTypes, GhostTypes,
              Reply, callVars, monitorVars, kernelVars, ghostVars
  <2>1. CASE AddFunction(f)
    BY <2>1 DEF AddFunction
  <2>2. CASE AddFailed(f)
    BY <2>2 DEF AddFailed
  <2> QED BY <2>1, <2>2
<1>2. Lives' /\ Links' /\ News'
  <2> USE DEF Lives, Links, News, Reply, callVars, monitorVars, kernelVars, ghostVars
  <2>1. CASE AddFunction(f)
    BY <2>1 DEF AddFunction, LinkedNext
  <2>2. CASE AddFailed(f)
    BY <2>2 DEF AddFailed
  <2> QED BY <2>1, <2>2
<1> QED BY <1>1, <1>2

(* Pulling up, by the call or by a new monitor that the call may wait for.  *)
LEMMA FinishIInv ==
  IInv /\ (PullUpDirectly \/ StartMonitor \/ PulledUpInTime \/ TimedOut) => IInv'
<1> SUFFICES ASSUME IInv, PullUpDirectly \/ StartMonitor \/ PulledUpInTime \/ TimedOut
             PROVE  IInv'
  OBVIOUS
<1> USE DEF IInv
<1>1. TypeOK'
  <2> USE DEF TypeOK, CallTypes, MonitorTypes, SharedTypes, KernelTypes, GhostTypes,
              Goto, Reply, monitorVars, sharedVars, kernelVars, ghostVars
  <2>1. CASE PullUpDirectly
    <3>1. bound' \in BOOLEAN /\ applied' \in BOOLEAN
      BY <2>1 DEF PullUpDirectly
    <3>2. pulled' \in SUBSET Function
      BY <2>1 DEF PullUpDirectly
    <3> QED BY <2>1, <3>1, <3>2 DEF PullUpDirectly
  <2>2. CASE StartMonitor
    BY <2>2 DEF StartMonitor
  <2>3. CASE PulledUpInTime \/ TimedOut
    BY <2>3 DEF PulledUpInTime, TimedOut
  <2> QED BY <2>1, <2>2, <2>3
<1>2. Lives' /\ Links' /\ News'
  <2> USE DEF Lives, Links, News, Goto, Reply, monitorVars, sharedVars, kernelVars, ghostVars
  <2>1. CASE PullUpDirectly
    BY <2>1 DEF PullUpDirectly, AllLinked, Bindable
  <2>2. CASE StartMonitor
    BY <2>2 DEF StartMonitor, AllLinked
  <2>3. CASE PulledUpInTime \/ TimedOut
    BY <2>3 DEF PulledUpInTime, TimedOut
  <2> QED BY <2>1, <2>2, <2>3
<1> QED BY <1>1, <1>2

(* The monitor pulls up what is linked when it does, and publishes later.    *)
LEMMA MonitorIInv == IInv /\ Monitor => IInv'
<1> SUFFICES ASSUME IInv, Monitor PROVE IInv'
  OBVIOUS
<1> USE DEF IInv
<1>1. TypeOK'
  <2> USE DEF TypeOK, CallTypes, MonitorTypes, SharedTypes, KernelTypes, GhostTypes,
              callVars, sharedVars, kernelVars, ghostVars
  <2>1. CASE InitialLook
    BY <2>1 DEF InitialLook
  <2>2. CASE PullUp
    <3>1. CallTypes' /\ SharedTypes'
      BY <2>2 DEF PullUp
    <3>2. MonitorTypes' /\ KernelTypes'
      BY <2>2 DEF PullUp
    <3>3. GhostTypes'
      BY <2>2 DEF PullUp
    <3> QED BY <3>1, <3>2, <3>3
  <2>3. CASE PullUpFailed
    BY <2>3 DEF PullUpFailed, DescriptorsPresent
  <2>4. CASE Publish \/ MonitorStops
    <3>1. CallTypes' /\ KernelTypes' /\ GhostTypes'
      BY <2>4 DEF Publish, MonitorStops
    <3>2. MonitorTypes' /\ SharedTypes'
      BY <2>4 DEF Publish, MonitorStops
    <3> QED BY <3>1, <3>2
  <2>5. CASE Look
    <3>1. events' \in BOOLEAN /\ writeUdc' \in BOOLEAN
      BY <2>5 DEF Look, ReadEvent
    <3>2. monitor' \in {monitor, "delay"}
      BY <2>5 DEF Look
    <3> QED BY <2>5, <3>1, <3>2 DEF Look
  <2> QED BY <2>1, <2>2, <2>3, <2>4, <2>5 DEF Monitor
<1>2. Lives' /\ Links' /\ News'
  <2> USE DEF Lives, Links, News, callVars, sharedVars, kernelVars, ghostVars
  <2>1. CASE InitialLook
    BY <2>1 DEF InitialLook
  <2>2. CASE PullUp
    BY <2>2 DEF PullUp, Bindable
  <2>3. CASE PullUpFailed
    BY <2>3 DEF PullUpFailed
  <2>4. CASE Publish \/ MonitorStops
    BY <2>4 DEF Publish, MonitorStops
  <2>5. CASE Look
    BY <2>5 DEF Look
  <2> QED BY <2>1, <2>2, <2>3, <2>4, <2>5 DEF Monitor
<1> QED BY <1>1, <1>2

(* Daemons come and go at any time. *)
LEMMA DaemonIInv ==
  ASSUME IInv, NEW f \in Ffs, DaemonReady(f) \/ DaemonDies(f)
  PROVE  IInv'
<1> USE DEF IInv
<1>1. /\ UNCHANGED callVars /\ UNCHANGED monitorVars /\ UNCHANGED sharedVars
      /\ UNCHANGED ghostVars /\ linked' = linked
  BY DEF DaemonReady, DaemonDies
<1>2. alive' \in SUBSET Ffs
  BY DEF DaemonReady, DaemonDies, TypeOK, KernelTypes
<1>3. bound' \in BOOLEAN /\ (bound' => bound)
  <2>1. CASE DaemonReady(f)
    <3>1. bound' = bound
      BY <2>1 DEF DaemonReady
    <3> QED BY <3>1 DEF TypeOK, KernelTypes
  <2>2. CASE DaemonDies(f)
    <3>1. bound' = (bound /\ f \notin linked)
      BY <2>2 DEF DaemonDies
    <3>2. bound' \in BOOLEAN
      BY <3>1, Zenon
    <3> QED BY <3>1, <3>2
  <2> QED BY <2>1, <2>2
<1>4. events' \in BOOLEAN
  BY DEF DaemonReady, DaemonDies
<1>5. TypeOK'
  BY <1>1, <1>2, <1>3, <1>4
     DEF TypeOK, CallTypes, MonitorTypes, SharedTypes, KernelTypes, GhostTypes,
         callVars, monitorVars, sharedVars, ghostVars
<1>6. Lives' /\ Links' /\ News'
  BY <1>1, <1>3 DEF Lives, Links, News, callVars, monitorVars, sharedVars, ghostVars
<1> QED BY <1>5, <1>6

(* Every step keeps the invariant. *)
LEMMA NextIInv == IInv /\ [Next]_vars => IInv'
<1> SUFFICES ASSUME IInv, [Next]_vars PROVE IInv'
  OBVIOUS
<1>1. CASE UNCHANGED vars
  BY <1>1 DEF IInv, TypeOK, CallTypes, MonitorTypes, SharedTypes, KernelTypes, GhostTypes,
              Lives, Links, News, vars, callVars, monitorVars, sharedVars, kernelVars,
              ghostVars
<1>2. CASE Call
  BY <1>2, TearDownIInv, StopMonitorIInv, SetupIInv, FinishIInv DEF Call
<1> QED BY <1>1, <1>2, BeginIInv, TearDownIInv, MonitorIInv, DaemonIInv DEF Next

(* The service's, the monitor's and the kernel's state keep their types.    *)
THEOREM TypeCorrect == Spec => []TypeOK
<1>1. IInv => TypeOK
  BY DEF IInv
<1> QED BY InitIInv, NextIInv, <1>1, PTL DEF Spec

(* A monitor is started only when the one before is joined and forgotten.   *)
THEOREM MonitorsDoNotOverlap == Spec => []OneMonitor
<1>1. IInv => OneMonitor
  BY DEF IInv, Lives, OneMonitor
<1> QED BY InitIInv, NextIInv, <1>1, PTL DEF Spec

(* A gadget that was told to have no functions stays off the bus.           *)
THEOREM NoFunctionsStayDown == Spec => []NoneStaysDown
<1>1. IInv => NoneStaysDown
  BY DEF IInv, Links, News, NoneStaysDown
<1> QED BY InitIInv, NextIInv, <1>1, PTL DEF Spec

(* SUCCESS means that the functions asked for were pulled up, not those of  *)
(* a monitor that was still running when the call began.                    *)
THEOREM SuccessMeansPulledUp == Spec => SuccessIsTrue
<1>1. ASSUME IInv, [Next]_vars, reply = "none", reply' = "SUCCESS", functions # {}
      PROVE  pulled' = functions
  <2>1. CASE PullUpDirectly
    BY <1>1, <2>1 DEF PullUpDirectly, AllLinked, IInv, Links, Reply
  <2>2. CASE PulledUpInTime
    BY <1>1, <2>2 DEF PulledUpInTime, IInv, News, ghostVars
  <2>3. CASE Unlink \/ UnlinkFailed \/ PullDown \/ Reset
    BY <1>1, <2>3 DEF Unlink, UnlinkFailed, PullDown, Reset, Goto, Reply, callVars
  <2>4. CASE SignalMonitor \/ JoinMonitor \/ Validate \/ StartMonitor \/ TimedOut
    BY <1>1, <2>4 DEF SignalMonitor, JoinMonitor, Validate, StartMonitor, TimedOut, Goto, Reply
  <2>5. ASSUME NEW f \in Function, AddFunction(f) \/ AddFailed(f) PROVE FALSE
    BY <1>1, <2>5 DEF AddFunction, AddFailed, Reply, callVars
  <2>6. CASE Monitor
    BY <1>1, <2>6 DEF Monitor, InitialLook, PullUp, PullUpFailed, Publish, Look, MonitorStops,
                      callVars
  <2>7. ASSUME NEW f \in Ffs, DaemonReady(f) \/ DaemonDies(f) PROVE FALSE
    BY <1>1, <2>7 DEF DaemonReady, DaemonDies, callVars
  <2>8. ASSUME NEW F \in Requests, NEW c \in BOOLEAN, Begin(F, c) PROVE FALSE
    BY <1>1, <2>8 DEF Begin
  <2>9. CASE UNCHANGED vars
    BY <1>1, <2>9 DEF vars, callVars
  <2> QED BY <1>1, <2>1, <2>2, <2>3, <2>4, <2>5, <2>6, <2>7, <2>8, <2>9 DEF Next, Call
<1>2. IInv /\ [Next]_vars =>
        [reply = "none" /\ reply' = "SUCCESS" /\ functions # {} => pulled' = functions]_vars
  BY <1>1
<1> QED BY <1>2, InitIInv, NextIInv, PTL DEF Spec, SuccessIsTrue
-----------------------------------------------------------------------------
(* What the two liveness properties rest on: nothing that the monitor is to *)
(* act upon is lost.                                                         *)

(* A call that joins the monitor waits for one that was told to stop and    *)
(* has yet to take that in, or has ended. (MonitorFfs.cpp:189-204.)          *)
JoinedIsTold == pc = "join" => stopFlag \/ monitor = "ended"

(* What is waited for is watched, and until the gadget was pulled up the    *)
(* monitor knows that it is not.                                             *)
Hears ==
  /\ endpoints \subseteq watches
  /\ monitor \in {"start", "delay", "publish"} => writeUdc
  /\ monitor \in {"delay", "publish"} => DescriptorsPresent \/ events
  /\ NoEventMissed
  /\ JoinedIsTold

LEMMA InitHears == Init => Hears
BY DEF Init, Hears, NoEventMissed, JoinedIsTold

(* A call changes what is waited for only while there is no monitor.        *)
LEMMA CallHears ==
  ASSUME IInv, Hears,
         \/ Call \/ Reset
         \/ \E F \in Requests, c \in BOOLEAN : Begin(F, c)
  PROVE  Hears'
<1> USE DEF Hears, NoEventMissed, JoinedIsTold, DescriptorsPresent
<1>1. ASSUME NEW F \in Requests, NEW c \in BOOLEAN, Begin(F, c) PROVE Hears'
  BY <1>1 DEF Begin, monitorVars, kernelVars
<1>2. CASE PullDown \/ Unlink \/ UnlinkFailed \/ Reset
  <2>1. /\ UNCHANGED <<monitor, writeUdc, stopFlag, endpoints, watches, alive, events>>
        /\ pc' # "join"
    BY <1>2 DEF PullDown, Unlink, UnlinkFailed, Reset, Goto, Reply, callVars, monitorVars,
                sharedVars, IInv, Lives
  <2>2. excused => excused'
    <3>1. CASE PullDown \/ Reset
      BY <3>1, Zenon DEF PullDown, Reset
    <3>2. CASE Unlink
      BY <3>2, Zenon DEF Unlink, UnlinkTo
    <3>3. CASE UnlinkFailed
      BY <3>3, Zenon DEF UnlinkFailed, UnlinkTo
    <3> QED BY <1>2, <3>1, <3>2, <3>3
  <2> QED BY <2>1, <2>2
<1>3. CASE SignalMonitor \/ Validate
  BY <1>3 DEF SignalMonitor, Validate, Goto, Reply, monitorVars, sharedVars, kernelVars,
              ghostVars
<1>4. CASE JoinMonitor
  BY <1>4 DEF JoinMonitor, Goto, ghostVars
<1>5. ASSUME NEW f \in Function, AddFunction(f) \/ AddFailed(f) PROVE Hears'
  <2>1. monitor = "none" /\ monitor' = monitor /\ pc' # "join"
    BY <1>5 DEF AddFunction, AddFailed, IInv, Lives, Reply, callVars, monitorVars
  <2>2. endpoints' \subseteq watches'
    BY <1>5 DEF AddFunction, AddFailed
  <2> QED BY <2>1, <2>2
<1>6. CASE PullUpDirectly \/ StartMonitor
  BY <1>6 DEF PullUpDirectly, StartMonitor, AllLinked, IInv, Lives, Goto, Reply, monitorVars,
              kernelVars
<1>7. CASE PulledUpInTime \/ TimedOut
  BY <1>7 DEF PulledUpInTime, TimedOut, Reply, monitorVars, sharedVars, kernelVars, ghostVars
<1> QED BY <1>1, <1>2, <1>3, <1>4, <1>5, <1>6, <1>7 DEF Call

(* The monitor takes an event for the endpoints as they are when it looks.  *)
LEMMA MonitorHears == IInv /\ Hears /\ Monitor => Hears'
<1> SUFFICES ASSUME IInv, Hears, Monitor PROVE Hears'
  OBVIOUS
<1> USE DEF Hears, NoEventMissed, JoinedIsTold, DescriptorsPresent, callVars, sharedVars,
            kernelVars, ghostVars
<1>1. CASE InitialLook
  BY <1>1 DEF InitialLook
<1>2. CASE PullUp
  BY <1>2 DEF PullUp
<1>3. CASE PullUpFailed
  <2>1. /\ monitor = "delay" /\ writeUdc
        /\ UNCHANGED <<pc, writeUdc, stopFlag, endpoints, watches, alive, events>>
    BY <1>3 DEF PullUpFailed
  <2>2. excused' \/ ~(endpoints \subseteq alive)
    BY <1>3 DEF PullUpFailed
  <2>3. writeUdc' /\ (JoinedIsTold => JoinedIsTold')
    BY <1>3, <2>1 DEF PullUpFailed, IInv, Lives
  <2> QED BY <2>1, <2>2, <2>3
<1>4. CASE Publish
  BY <1>4 DEF Publish
<1>5. CASE Look
  <2>1. UNCHANGED <<pc, stopFlag, endpoints, watches, alive, excused>>
    BY <1>5 DEF Look
  <2>2. monitor = "poll" /\ events
    BY <1>5 DEF Look, ReadEvent
  <2>3. CASE ~DescriptorsPresent /\ ~writeUdc /\ writeUdc' = TRUE /\ UNCHANGED monitor
    BY <2>1, <2>2, <2>3
  <2>4. CASE DescriptorsPresent /\ writeUdc /\ monitor' = "delay" /\ UNCHANGED writeUdc
    BY <2>1, <2>2, <2>4
  <2>5. CASE DescriptorsPresent # writeUdc /\ UNCHANGED <<monitor, writeUdc>>
    <3>1. writeUdc \in BOOLEAN
      BY DEF IInv, TypeOK, MonitorTypes
    <3>2. writeUdc <=> ~DescriptorsPresent
      BY <2>5, <3>1
    <3> QED BY <2>1, <2>2, <2>5, <3>2
  <2> QED BY <1>5, <2>3, <2>4, <2>5 DEF Look
<1>6. CASE MonitorStops
  BY <1>6 DEF MonitorStops
<1> QED BY <1>1, <1>2, <1>3, <1>4, <1>5, <1>6 DEF Monitor

(* A daemon that comes or goes leaves an event where its endpoints matter.  *)
LEMMA DaemonHears ==
  ASSUME Hears, NEW f \in Ffs, DaemonReady(f) \/ DaemonDies(f)
  PROVE  Hears'
<1> USE DEF Hears, NoEventMissed, JoinedIsTold, DescriptorsPresent
<1>1. UNCHANGED <<callVars, monitorVars, sharedVars, ghostVars>>
  BY DEF DaemonReady, DaemonDies
<1>2. events => events'
  BY DEF DaemonReady, DaemonDies
<1>3. (endpoints \subseteq alive) # (endpoints \subseteq alive)' => events'
  <2>1. CASE f \in endpoints
    BY <2>1 DEF DaemonReady, DaemonDies
  <2>2. CASE f \notin endpoints
    BY <1>1, <2>2 DEF DaemonReady, DaemonDies, sharedVars
  <2> QED BY <2>1, <2>2
<1> QED BY <1>1, <1>2, <1>3 DEF callVars, monitorVars, sharedVars, ghostVars

LEMMA NextHears == IInv /\ Hears /\ [Next]_vars => Hears'
<1> SUFFICES ASSUME IInv, Hears, [Next]_vars PROVE Hears'
  OBVIOUS
<1>1. CASE UNCHANGED vars
  BY <1>1 DEF Hears, NoEventMissed, JoinedIsTold, DescriptorsPresent, vars, callVars,
              monitorVars, sharedVars, kernelVars, ghostVars
<1> QED BY <1>1, CallHears, MonitorHears, DaemonHears DEF Next

(* No event that the monitor needs is lost, whenever daemons come and go    *)
(* and whatever was watched when: the safety that PulledUpOnceWritten needs. *)
THEOREM EventsReachMonitor == Spec => []NoEventMissed
<1>1. Hears => NoEventMissed
  BY DEF Hears
<1> QED BY InitIInv, InitHears, NextIInv, NextHears, <1>1, PTL DEF Spec

(* The join of the monitor waits for nothing that was not asked for: the    *)
(* safety that SetReturns needs.                                             *)
THEOREM JoinsAreAnswered == Spec => []JoinedIsTold
<1>1. Hears => JoinedIsTold
  BY DEF Hears
<1> QED BY InitIInv, InitHears, NextIInv, NextHears, <1>1, PTL DEF Spec
=============================================================================
