-------------------------------- MODULE Wifi --------------------------------
(***************************************************************************)
(* The wifi HAL: Wifi (wifi.cpp) is started and stopped, its chip          *)
(* (wifi_chip.cpp) configured in a mode, which starts and stops the        *)
(* vendor's legacy HAL (wifi_legacy_hal.cpp), and given interfaces.        *)
(*                                                                         *)
(* Two threads (THREADING.README): one serves all calls, the other runs    *)
(* the vendor's event loop. Both hold the global lock while they touch the *)
(* HAL's state, so that what is done under it is one action; stop gives    *)
(* the lock up while it waits, for 100 ms at most, for the event loop to   *)
(* end. A stop that is late is not undone: its completion arrives later,   *)
(* on a HAL that has moved on. A CHECK that fails ends the process, which  *)
(* init starts again.                                                      *)
(***************************************************************************)
EXTENDS Naturals, FiniteSets, Sequences

CONSTANTS
  Handle,     \* the vendor's global handles, each with its event loop
  NoHandle,
  MaxRtt,     \* a bound on the RTT controllers
  Faulty      \* what may fail: "mode", "driver", "ifaces", "no_ifaces"

ASSUME WifiAssumption == NoHandle \notin Handle /\ MaxRtt \in Nat

VARIABLES
  run_state,
  chip,        \* there is a valid chip object
  mode,        \* its current_mode_id_
  ifaces,      \* how many interfaces of each type it has
  rtt,         \* how many RTT controllers
  global_handle,
  awaiting,    \* awaiting_event_loop_termination_
  is_started,
  on_stop,     \* what the installed stop callback is to tell: nobody, Wifi or the chip
  loop,        \* how far the event loop of each handle is
  pc,          \* what the HIDL thread does, or why the process ended
  target,      \* the mode a reconfiguration is for
  told         \* the outcome of the last start, stop or configuration

chipVars   == <<chip, mode, ifaces, rtt>>
legacyVars == <<global_handle, awaiting, is_started, on_stop, loop>>
callVars   == <<pc, target, told>>
vars == <<run_state, chipVars, legacyVars, callVars>>

IfaceType == {"STA", "AP", "P2P", "NAN"}

(* wifi_feature_flags.cpp, the build that sets no flag but the one for      *)
(* Aware: the chip loads another firmware to change from STA to AP. A       *)
(* combination is a sequence of limits.                                     *)
Limit(types, max) == [types |-> types, maxIfaces |-> max]

kChipModes ==
  [kV1Sta |-> {<<Limit({"STA"}, 1), Limit({"P2P", "NAN"}, 1)>>},
   kV1Ap  |-> {<<Limit({"AP"}, 1)>>}]

Mode == DOMAIN kChipModes

Ended == {"bad_start", "handle_mismatch", "not_stopping", "segv"}

ChipTypes == /\ chip \in BOOLEAN
             /\ mode \in Mode \union {"kInvalid"}
             /\ ifaces \in [IfaceType -> Nat]
             /\ rtt \in 0..MaxRtt

LegacyTypes ==
  /\ global_handle \in Handle \union {NoHandle}
  /\ awaiting \in BOOLEAN
  /\ is_started \in BOOLEAN
  /\ on_stop \in {"none", "wifi", "chip"}
  /\ loop \in [Handle -> {"none", "running", "stopping", "called"}]

CallTypes ==
  /\ pc \in {"idle", "stop", "reconfigure"} \union Ended
  /\ target \in Mode
  /\ told \in {"none", "started", "stopped", "configured", "failed"}

(* The variables of Wifi, the chip, the legacy HAL and the HIDL thread.     *)
TypeOK == /\ run_state \in {"STOPPED", "STARTED", "STOPPING"}
          /\ ChipTypes /\ LegacyTypes /\ CallTypes

NoIfaces == [t \in IfaceType |-> 0]

Init ==
  /\ run_state = "STOPPED"
  /\ chip = FALSE /\ mode = "kInvalid" /\ ifaces = NoIfaces /\ rtt = 0
  /\ global_handle = NoHandle /\ awaiting = FALSE /\ is_started = FALSE
  /\ on_stop = "none" /\ loop = [h \in Handle |-> "none"]
  /\ pc = "idle" /\ target = "kV1Sta" /\ told = "none"

(* Faulty variants of definitions, such as GoodStateHandleOnly, show that   *)
(* the properties notice a slip in the code; the model does not use them.   *)

Done(outcome) == pc' = "idle" /\ told' = outcome /\ UNCHANGED target

LeaveAllIfaces == UNCHANGED <<ifaces, rtt>>

InvalidateAndRemoveAllIfaces == ifaces' = NoIfaces /\ rtt' = 0

-----------------------------------------------------------------------------
(* WifiLegacyHal::start and stop, parts of the calls below. *)

GoodStateHandleOnly == global_handle = NoHandle

(* What start CHECKs. The names of the interfaces are known only while there *)
(* is a handle.                                                             *)
GoodState == global_handle = NoHandle /\ ~awaiting

StartVendorHal(h, started) ==
  /\ loop[h] = "none"
  /\ global_handle' = h
  /\ loop' = [loop EXCEPT ![h] = "running"]
  /\ is_started' = started
  /\ UNCHANGED <<awaiting, on_stop>>

(* The rest of handleChipConfiguration: the firmware's mode is changed, the  *)
(* legacy HAL started. When the vendor has no interfaces its success is      *)
(* passed on although the HAL is not marked as started.                      *)
StartLegacyHal(m) ==
  \/ /\ "mode" \in Faulty
     /\ Done("failed")
     /\ UNCHANGED <<mode, legacyVars>>
  \/ /\ ~GoodState
     /\ pc' = "bad_start"
     /\ UNCHANGED <<target, told, mode, legacyVars>>
  \/ /\ GoodState
     /\ "driver" \in Faulty
     /\ Done("failed")
     /\ UNCHANGED <<mode, legacyVars>>
  \/ /\ GoodState
     /\ \E h \in Handle : StartVendorHal(h, TRUE)
     /\ mode' = m
     /\ Done("configured")
  \/ /\ GoodState
     /\ "ifaces" \in Faulty
     /\ \E h \in Handle : StartVendorHal(h, FALSE)
     /\ Done("failed")
     /\ UNCHANGED mode
  \/ /\ GoodState
     /\ "no_ifaces" \in Faulty
     /\ \E h \in Handle : StartVendorHal(h, FALSE)
     /\ mode' = m
     /\ Done("configured")

StopLegacyHalOfFirst(who) ==
  /\ is_started
  /\ on_stop' = IF on_stop = "none" THEN who ELSE on_stop
  /\ awaiting' = TRUE
  /\ loop' = [loop EXCEPT ![global_handle] = "stopping"]
  /\ UNCHANGED <<global_handle, is_started>>

(* The callback is installed and the vendor asked to clean up.              *)
StopLegacyHal(who) ==
  /\ is_started
  /\ on_stop' = who
  /\ awaiting' = TRUE
  /\ loop' = [loop EXCEPT ![global_handle] = "stopping"]
  /\ UNCHANGED <<global_handle, is_started>>

-----------------------------------------------------------------------------
(* IWifi *)

(* The mode controller may not come up. Starting again is no failure.        *)
Start ==
  /\ pc = "idle"
  /\ \/ /\ run_state = "STOPPED"
        /\ run_state' = "STARTED"
        /\ chip' = TRUE
        /\ mode' = "kInvalid"
        /\ Done("started")
     \/ /\ run_state = "STOPPED"
        /\ "mode" \in Faulty
        /\ Done("failed")
        /\ UNCHANGED <<run_state, chip, mode>>
     \/ /\ run_state = "STARTED"
        /\ Done("started")
        /\ UNCHANGED <<run_state, chip, mode>>
     \/ /\ run_state = "STOPPING"
        /\ Done("failed")
        /\ UNCHANGED <<run_state, chip, mode>>
  /\ UNCHANGED <<ifaces, rtt, legacyVars>>

(* Success is told only when the mode controller is shut down as well.       *)
Stopped == \/ Done("stopped")
           \/ "mode" \in Faulty /\ Done("failed")

StopWhenStarted ==
  /\ pc = "idle"
  /\ run_state = "STARTED"
  /\ chip' = FALSE
  /\ InvalidateAndRemoveAllIfaces
  /\ \/ /\ StopLegacyHal("wifi")
        /\ run_state' = "STOPPING"
        /\ pc' = "stop"
        /\ UNCHANGED <<target, told>>
     \/ /\ ~is_started
        /\ run_state' = "STOPPED"
        /\ Stopped
        /\ UNCHANGED legacyVars
  /\ UNCHANGED mode

StopWhenNot ==
  /\ pc = "idle"
  /\ run_state # "STARTED"
  /\ Done(IF run_state = "STOPPED" THEN "stopped" ELSE "failed")
  /\ UNCHANGED <<run_state, chipVars, legacyVars>>

(* The wait is over: the event loop has ended ... *)
StopInTime ==
  /\ pc = "stop"
  /\ ~awaiting
  /\ Stopped
  /\ UNCHANGED <<run_state, chipVars, legacyVars>>

StopLateForgotten ==
  /\ pc \in {"stop", "reconfigure"}
  /\ awaiting
  /\ on_stop' = "none"
  /\ Done("failed")
  /\ UNCHANGED <<run_state, chipVars, global_handle, awaiting, is_started, loop>>

(* ... or the time is. The chip's mode stays what it was. *)
StopLate ==
  /\ pc \in {"stop", "reconfigure"}
  /\ awaiting
  /\ Done("failed")
  /\ UNCHANGED <<run_state, chipVars, legacyVars>>

-----------------------------------------------------------------------------
(* IWifiChip *)

ConfigureChip(m) ==
  /\ pc = "idle"
  /\ chip
  /\ \/ /\ mode = m
        /\ Done("configured")
        /\ UNCHANGED <<mode, ifaces, rtt, legacyVars>>
     \/ /\ mode = "kInvalid"
        /\ StartLegacyHal(m)
        /\ UNCHANGED <<ifaces, rtt>>
     \/ /\ mode \in Mode \ {m}
        /\ InvalidateAndRemoveAllIfaces
        /\ \/ /\ StopLegacyHal("chip")
              /\ pc' = "reconfigure"
              /\ target' = m
              /\ UNCHANGED <<mode, told>>
           \/ ~is_started /\ StartLegacyHal(m)
  /\ UNCHANGED <<run_state, chip>>

Reconfigure ==
  /\ pc = "reconfigure"
  /\ ~awaiting
  /\ StartLegacyHal(target)
  /\ UNCHANGED <<run_state, chip, ifaces, rtt>>

(* The combinations of a mode, each limit spelled out: what its k-th         *)
(* interface is, for every choice of one of its types.                       *)
Slot(limits) == UNION {{i} \X (1..limits[i].maxIfaces) : i \in DOMAIN limits}

Choice(limits) == {f \in [Slot(limits) -> IfaceType] :
                     \A s \in Slot(limits) : f[s] \in limits[s[1]].types}

Counts(f) == [t \in IfaceType |-> Cardinality({s \in DOMAIN f : f[s] = t})]

ExpandedCombos(m) ==
  UNION {{Counts(f) : f \in Choice(limits)} : limits \in kChipModes[m]}

CanSupportRequested(t) ==
  mode \in Mode /\ \E combo \in ExpandedCombos(mode) : ifaces[t] < combo[t]

CanSupport(t) ==
  /\ mode \in Mode
  /\ LET wanted == [ifaces EXCEPT ![t] = @ + 1] IN
     \E combo \in ExpandedCombos(mode) : \A u \in IfaceType : wanted[u] <= combo[u]

(* STA and AP interfaces are the vendor's to create, who needs its handle.   *)
CreateIface(t) ==
  /\ pc = "idle"
  /\ chip
  /\ CanSupport(t)
  /\ t \in {"STA", "AP"} => global_handle # NoHandle
  /\ ifaces' = [ifaces EXCEPT ![t] = @ + 1]
  /\ UNCHANGED <<run_state, chip, mode, rtt, legacyVars, callVars>>

(* RTT controllers are bound to wlan0, there or not. *)
CreateRttController ==
  /\ pc = "idle"
  /\ chip
  /\ mode = "kV1Sta"
  /\ rtt < MaxRtt
  /\ rtt' = rtt + 1
  /\ UNCHANGED <<run_state, chip, mode, ifaces, legacyVars, callVars>>

RemoveIface(t) ==
  /\ pc = "idle"
  /\ chip
  /\ t \in {"AP", "P2P", "NAN"}
  /\ ifaces[t] > 0
  /\ ifaces' = [ifaces EXCEPT ![t] = @ - 1]
  /\ UNCHANGED <<run_state, chip, mode, rtt, legacyVars, callVars>>

(* wlan0 takes the objects that depend on it along: the NAN interface and    *)
(* the RTT controllers. The loop over the controllers goes on with the       *)
(* vector it has erased from: with two of them it reads a destroyed pointer, *)
(* which the move has left null.                                             *)
RemoveSta ==
  /\ pc = "idle"
  /\ chip
  /\ ifaces["STA"] > 0
  /\ \/ /\ rtt <= 1
        /\ rtt' = 0
        /\ ifaces' = [ifaces EXCEPT !["STA"] = @ - 1, !["NAN"] = 0]
        /\ UNCHANGED pc
     \/ /\ rtt > 1
        /\ pc' = "segv"
        /\ UNCHANGED <<ifaces, rtt>>
  /\ UNCHANGED <<run_state, chip, mode, legacyVars, target, told>>

Hidl == \/ Start \/ StopWhenStarted \/ StopWhenNot
        \/ \E m \in Mode : ConfigureChip(m)
        \/ \E t \in IfaceType : CreateIface(t) \/ RemoveIface(t)
        \/ CreateRttController \/ RemoveSta

Wait == StopInTime \/ StopLate \/ Reconfigure

-----------------------------------------------------------------------------
(* The event loop: the vendor calls onAsyncStopComplete when it has cleaned  *)
(* up, then wifi_event_loop returns.                                         *)

Alive == pc \notin Ended

Abort(why) == pc' = why /\ UNCHANGED <<run_state, legacyVars>>

OnAsyncStopCompleteOnly(h) ==
  /\ Alive
  /\ loop[h] = "stopping"
  /\ \/ on_stop # "none" /\ global_handle # h /\ Abort("handle_mismatch")
     \/ /\ on_stop = "none" \/ global_handle = h
        /\ loop' = [loop EXCEPT ![h] = "called"]
        /\ on_stop' = "none"
        /\ global_handle' = IF on_stop = "none" THEN global_handle ELSE NoHandle
        /\ UNCHANGED is_started
        /\ run_state' = IF on_stop = "wifi" THEN "STOPPED" ELSE run_state
        /\ UNCHANGED <<awaiting, pc>>
  /\ UNCHANGED <<chipVars, target, told>>

OnAsyncStopComplete(h) ==
  /\ Alive
  /\ loop[h] = "stopping"
  /\ \/ on_stop # "none" /\ global_handle # h /\ Abort("handle_mismatch")
     \/ /\ on_stop = "none" \/ global_handle = h
        /\ loop' = [loop EXCEPT ![h] = "called"]
        /\ on_stop' = "none"
        /\ global_handle' = IF on_stop = "none" THEN global_handle ELSE NoHandle
        /\ is_started' = (is_started /\ on_stop = "none")
        /\ run_state' = IF on_stop = "wifi" THEN "STOPPED" ELSE run_state
        /\ UNCHANGED <<awaiting, pc>>
  /\ UNCHANGED <<chipVars, target, told>>

EventLoopEnds(h) ==
  /\ Alive
  /\ loop[h] = "called"
  /\ \/ ~awaiting /\ Abort("not_stopping")
     \/ /\ awaiting
        /\ awaiting' = FALSE
        /\ loop' = [loop EXCEPT ![h] = "none"]
        /\ UNCHANGED <<run_state, global_handle, is_started, on_stop, pc>>
  /\ UNCHANGED <<chipVars, target, told>>

EventLoop == \E h \in Handle : OnAsyncStopComplete(h) \/ EventLoopEnds(h)

(* init starts the service again. *)
Restart ==
  /\ ~Alive
  /\ run_state' = "STOPPED"
  /\ chip' = FALSE /\ mode' = "kInvalid" /\ ifaces' = NoIfaces /\ rtt' = 0
  /\ global_handle' = NoHandle /\ awaiting' = FALSE /\ is_started' = FALSE
  /\ on_stop' = "none" /\ loop' = [h \in Handle |-> "none"]
  /\ pc' = "idle" /\ target' = "kV1Sta" /\ told' = "none"

Next == Hidl \/ Wait \/ EventLoop \/ Restart

(* The wait ends, the vendor's loop does what it was asked for, and a process *)
(* that died is started again; nobody need call.                              *)
Fairness == WF_vars(Wait) /\ WF_vars(EventLoop) /\ WF_vars(Restart)

Spec == Init /\ [][Next]_vars /\ Fairness
-----------------------------------------------------------------------------
(* Properties. *)

(* wifi_legacy_hal.cpp runs one event loop at a time: a new one is started   *)
(* only when the one before has ended, however late its stop completes.      *)
OneEventLoop ==
  \A g, h \in Handle : loop[g] # "none" /\ loop[h] # "none" => g = h

(* An answer of the vendor, late or not, finds the HAL it was meant for: no  *)
(* "Handle mismatch" (line 409) and no event loop that ends although nobody  *)
(* was stopping (line 1395).                                                 *)
LateAnswersFit == pc \notin {"handle_mismatch", "not_stopping"}

(* A stop that succeeded has left nothing: no chip, no interface, no legacy  *)
(* HAL that counts as started and no clean-up under way, after a             *)
(* reconfiguration that timed out as well.                                   *)
StoppedIsOff ==
  told = "stopped" =>
    /\ run_state = "STOPPED" /\ ~chip /\ ifaces = NoIfaces /\ rtt = 0
    /\ ~is_started /\ on_stop = "none"
    /\ \A h \in Handle : loop[h] # "stopping"

(* wifi_feature_flags.cpp:54-62: one STA with one of P2P and NAN in the mode *)
(* for STA, one AP in the mode for AP, none before a mode is chosen: mode    *)
(* changes that fail half-way leave nothing that the mode does not allow.    *)
CombosRespected ==
  CASE mode = "kV1Sta" -> ifaces["STA"] <= 1 /\ ifaces["P2P"] + ifaces["NAN"] <= 1
                          /\ ifaces["AP"] = 0
    [] mode = "kV1Ap"  -> [ifaces EXCEPT !["AP"] = 0] = NoIfaces /\ ifaces["AP"] <= 1
    [] OTHER           -> ifaces = NoIfaces

(* A stop that was begun comes to its end, in time or late: run_state does   *)
(* not stay STOPPING, where the HAL refuses to be started or stopped.        *)
StoppingEnds == run_state = "STOPPING" ~> run_state = "STOPPED"

=============================================================================
