---------------------------- MODULE Wifi_proofs ----------------------------
(***************************************************************************)
(* The safety of the wifi HAL's start and stop, for any number of handles: *)
(* what a late completion finds is what it was meant for.                  *)
(***************************************************************************)
EXTENDS Wifi, FiniteSetTheorems, TLAPS

(* An event loop that runs is that of the global handle; one whose stop is *)
(* complete is the only one, the handle is given back and its end awaited. *)
Loops ==
  /\ \A h \in Handle : loop[h] \in {"running", "stopping"} => global_handle = h
  /\ global_handle # NoHandle => loop[global_handle] \in {"running", "stopping"}
  /\ \A h \in Handle : loop[h] = "called" =>
       /\ global_handle = NoHandle /\ awaiting
       /\ \A g \in Handle : loop[g] # "none" => g = h

(* A stop callback is installed exactly while a stop is under way. *)
Stops ==
  /\ is_started => global_handle \in Handle
  /\ on_stop # "none" =>
       is_started /\ awaiting /\ loop[global_handle] = "stopping"
  /\ \A h \in Handle : loop[h] = "stopping" => on_stop # "none"

(* How the state of Wifi goes with the chip, the callback and the calls. *)
Chips ==
  /\ chip <=> run_state = "STARTED"
  /\ ~chip => ifaces = NoIfaces /\ rtt = 0
  /\ run_state = "STOPPED" => ~is_started
  /\ run_state = "STOPPING" => on_stop = "wifi"
  /\ on_stop = "wifi" => run_state = "STOPPING"
  /\ pc = "reconfigure" => chip
  /\ pc = "stop" => ~chip

(* What holds of the legacy HAL alone. *)
Legacy == LegacyTypes /\ Loops /\ Stops

IInv == TypeOK /\ Loops /\ Stops /\ Chips /\ LateAnswersFit /\ StoppedIsOff

(* There is a mode for STA, which every service starts with.                 *)
LEMMA StaIsMode == "kV1Sta" \in Mode
BY DEF Mode, kChipModes

(* No state the service starts in breaks the invariant. *)
LEMMA InitIInv == Init => IInv
<1> SUFFICES ASSUME Init PROVE IInv
  OBVIOUS
<1> USE WifiAssumption, StaIsMode DEF Init
<1>1. TypeOK
  <2>1. NoIfaces \in [IfaceType -> Nat]
    BY DEF NoIfaces
  <2>2. chip \in BOOLEAN
    OBVIOUS
  <2>3. mode \in Mode \union {"kInvalid"} /\ rtt \in 0..MaxRtt
    OBVIOUS
  <2>4. ChipTypes
    BY <2>1, <2>2, <2>3 DEF ChipTypes
  <2>5. LegacyTypes
    BY DEF LegacyTypes
  <2> QED BY <2>4, <2>5 DEF TypeOK, CallTypes
<1>2. Loops /\ Stops
  BY DEF Loops, Stops
<1>3. Chips /\ LateAnswersFit /\ StoppedIsOff
  BY DEF Chips, LateAnswersFit, StoppedIsOff
<1> QED BY <1>1, <1>2, <1>3 DEF IInv

(* A step that leaves the legacy HAL alone keeps what holds of it. *)
LEMMA LegacyUntouched == Legacy /\ UNCHANGED legacyVars => Legacy'
BY DEF Legacy, LegacyTypes, Loops, Stops, legacyVars

(* start finds no event loop, even a late one, and leaves one.               *)
LEMMA StartVendorHalLegacy ==
  ASSUME Legacy, GoodState, NEW h \in Handle, NEW b \in BOOLEAN, StartVendorHal(h, b)
  PROVE  Legacy' /\ on_stop = "none" /\ on_stop' = "none"
<1> USE WifiAssumption DEF Legacy, GoodState, StartVendorHal, LegacyTypes
<1>1. \A g \in Handle : loop[g] = "none"
  BY DEF Loops
<1>2. on_stop = "none" /\ on_stop' = "none"
  BY DEF Stops
<1>3. /\ loop'[h] = "running"
      /\ \A g \in Handle : g # h => loop'[g] = "none"
  BY <1>1
<1>4. Loops'
  BY <1>3 DEF Loops
<1>5. Stops'
  BY <1>2, <1>3 DEF Stops
<1> QED BY <1>2, <1>4, <1>5

(* stop turns the loop of the global handle into one that is to end.         *)
LEMMA StopLegacyHalLegacy ==
  ASSUME Legacy, NEW who \in {"wifi", "chip"}, StopLegacyHal(who)
  PROVE  Legacy'
<1> USE WifiAssumption DEF Legacy, StopLegacyHal, LegacyTypes
<1>1. global_handle \in Handle /\ global_handle' = global_handle
  BY DEF Stops
<1>2. /\ loop'[global_handle] = "stopping"
      /\ \A g \in Handle : g # global_handle => loop'[g] = loop[g]
  BY <1>1
<1>3. \A g \in Handle : g # global_handle => loop[g] = "none"
  BY <1>1 DEF Loops
<1>4. Loops'
  BY <1>1, <1>2, <1>3 DEF Loops
<1>5. Stops'
  BY <1>1, <1>2, <1>3 DEF Stops
<1>6. LegacyTypes'
  BY <1>1
<1> QED BY <1>4, <1>5, <1>6

(* The vendor's answer is for the HAL that is being stopped, and the only   *)
(* loop there is ends with it.                                               *)
LEMMA EventLoopLegacy ==
  ASSUME Legacy, NEW h \in Handle, OnAsyncStopComplete(h) \/ EventLoopEnds(h)
  PROVE  Legacy' /\ on_stop' = "none" /\ ~is_started' /\ pc' = pc
<1> USE WifiAssumption DEF Legacy, LegacyTypes
<1>1. CASE OnAsyncStopComplete(h)
  <2>1. on_stop # "none" /\ global_handle = h /\ awaiting
    BY <1>1 DEF OnAsyncStopComplete, Loops, Stops
  <2>2. \A g \in Handle : g # h => loop[g] = "none"
    BY <2>1 DEF Loops
  <2>3. /\ loop' = [loop EXCEPT ![h] = "called"]
        /\ on_stop' = "none" /\ global_handle' = NoHandle
        /\ awaiting' = awaiting /\ pc' = pc
    BY <1>1, <2>1 DEF OnAsyncStopComplete
  <2>4. is_started' = FALSE
    BY <1>1, <2>1 DEF OnAsyncStopComplete
  <2>5. Loops'
    BY <2>1, <2>2, <2>3 DEF Loops
  <2>6. Stops'
    BY <2>2, <2>3, <2>4 DEF Stops
  <2>7. LegacyTypes'
    BY <2>3, <2>4
  <2> QED BY <2>3, <2>4, <2>5, <2>6, <2>7
<1>2. CASE EventLoopEnds(h)
  <2>1. loop[h] = "called" /\ awaiting /\ global_handle = NoHandle
    BY <1>2 DEF EventLoopEnds, Loops
  <2>2. \A g \in Handle : g # h => loop[g] = "none"
    BY <2>1 DEF Loops
  <2>3. ~is_started /\ on_stop = "none"
    BY <2>1 DEF Stops
  <2>4. /\ loop' = [loop EXCEPT ![h] = "none"] /\ awaiting' = FALSE
        /\ UNCHANGED <<global_handle, is_started, on_stop, pc>>
    BY <1>2, <2>1 DEF EventLoopEnds
  <2>5. Loops' /\ Stops'
    BY <2>1, <2>2, <2>3, <2>4 DEF Loops, Stops
  <2>6. LegacyTypes'
    BY <2>4
  <2> QED BY <2>3, <2>4, <2>5, <2>6
<1> QED BY <1>1, <1>2

(* Starting the legacy HAL in mode m: what its six outcomes have in common. *)
LEMMA StartLegacyHalEffect ==
  ASSUME TypeOK, Legacy, NEW m \in Mode, StartLegacyHal(m)
  PROVE  /\ Legacy' /\ CallTypes'
         /\ mode' \in {mode, m}
         /\ pc' \in {"idle", "bad_start"}
         /\ told' = told \/ told' \in {"failed", "configured"}
         /\ on_stop' = on_stop
<1> USE DEF TypeOK, CallTypes
<1>1. CASE UNCHANGED legacyVars
  <2>1. Legacy' /\ on_stop' = on_stop
    BY <1>1, LegacyUntouched DEF legacyVars
  <2> QED BY <2>1 DEF StartLegacyHal, Done, Ended
<1>2. ASSUME NEW h \in Handle, NEW b \in BOOLEAN, GoodState, StartVendorHal(h, b)
      PROVE  Legacy' /\ on_stop' = on_stop
  BY <1>2, StartVendorHalLegacy
<1>3. CASE \E h \in Handle : StartVendorHal(h, TRUE) \/ StartVendorHal(h, FALSE)
  <2>1. CASE GoodState
    BY <1>2, <1>3, <2>1 DEF StartLegacyHal, Done, Ended
  <2>2. CASE ~GoodState
    BY <1>1, <2>2 DEF StartLegacyHal
  <2> QED BY <2>1, <2>2
<1> QED BY <1>1, <1>3 DEF StartLegacyHal

(* Start makes a chip of a HAL that has stopped. *)
LEMMA StartIInv == IInv /\ Start => IInv'
<1> SUFFICES ASSUME IInv, Start PROVE IInv'
  OBVIOUS
<1> USE DEF Start, IInv, TypeOK
<1>1. Legacy' /\ UNCHANGED legacyVars /\ UNCHANGED <<ifaces, rtt>>
  BY LegacyUntouched DEF Legacy
<1>2. CallTypes'
  BY DEF CallTypes, Done
<1>3. chip' \in BOOLEAN
  BY DEF ChipTypes
<1>4. mode' \in Mode \union {"kInvalid"}
  BY DEF ChipTypes
<1>5. ChipTypes'
  BY <1>1, <1>3, <1>4 DEF ChipTypes
<1>6. Chips'
  BY <1>1 DEF Chips, Done, legacyVars
<1>7. LateAnswersFit' /\ StoppedIsOff'
  BY DEF LateAnswersFit, StoppedIsOff, Done
<1> QED BY <1>1, <1>2, <1>5, <1>6, <1>7 DEF Legacy

(* Stop takes chip and interfaces away, and waits if the legacy HAL runs.   *)
LEMMA StopWhenStartedIInv == IInv /\ StopWhenStarted => IInv'
<1> SUFFICES ASSUME IInv, StopWhenStarted PROVE IInv'
  OBVIOUS
<1> USE DEF IInv, TypeOK
<1>1. /\ run_state = "STARTED" /\ chip' = FALSE /\ ifaces' = NoIfaces /\ rtt' = 0
      /\ mode' = mode
  BY DEF StopWhenStarted, InvalidateAndRemoveAllIfaces
<1>2. told # "stopped"
  BY <1>1 DEF StoppedIsOff
<1>3. ChipTypes'
  <2>1. NoIfaces \in [IfaceType -> Nat] /\ 0 \in 0..MaxRtt
    BY WifiAssumption DEF NoIfaces
  <2>2. chip' \in BOOLEAN
    BY <1>1
  <2> QED BY <1>1, <2>1, <2>2 DEF ChipTypes
<1>4. CASE StopLegacyHal("wifi") /\ run_state' = "STOPPING" /\ pc' = "stop" /\ UNCHANGED <<target, told>>
  <2>1. Legacy'
    BY <1>4, StopLegacyHalLegacy DEF Legacy
  <2>2. CallTypes'
    BY <1>4 DEF CallTypes
  <2>3. Chips'
    BY <1>1, <1>4 DEF Chips, StopLegacyHal
  <2>4. LateAnswersFit' /\ StoppedIsOff'
    BY <1>2, <1>4 DEF LateAnswersFit, StoppedIsOff
  <2> QED BY <1>3, <1>4, <2>1, <2>2, <2>3, <2>4 DEF Legacy
<1>5. CASE ~is_started /\ run_state' = "STOPPED" /\ Stopped /\ UNCHANGED legacyVars
  <2>1. Legacy'
    BY <1>5, LegacyUntouched DEF Legacy
  <2>2. CallTypes'
    BY <1>5 DEF CallTypes, Stopped, Done
  <2>3. on_stop = "none"
    BY <1>5 DEF Stops
  <2>4. Chips'
    BY <1>1, <1>5, <2>3 DEF Chips, Stopped, Done, legacyVars
  <2>5. LateAnswersFit'
    BY <1>5 DEF LateAnswersFit, Stopped, Done
  <2>6. StoppedIsOff'
    BY <1>1, <1>5, <2>3 DEF StoppedIsOff, Stops, legacyVars
  <2> QED BY <1>3, <1>5, <2>1, <2>2, <2>4, <2>5, <2>6 DEF Legacy
<1> QED BY <1>4, <1>5 DEF StopWhenStarted

(* The other ways a stop is answered say the truth about what is left.       *)
LEMMA StopReturnsIInv ==
  IInv /\ (StopWhenNot \/ StopInTime \/ StopLate) => IInv'
<1> SUFFICES ASSUME IInv, StopWhenNot \/ StopInTime \/ StopLate PROVE IInv'
  OBVIOUS
<1> USE DEF IInv, TypeOK
<1>1. /\ UNCHANGED legacyVars /\ UNCHANGED chipVars /\ run_state' = run_state
      /\ pc' = "idle" /\ target' = target
      /\ told' \in {"stopped", "failed"}
  BY DEF StopWhenNot, StopInTime, StopLate, Stopped, Done
<1>2. Legacy'
  BY <1>1, LegacyUntouched DEF Legacy
<1>3. ChipTypes' /\ CallTypes'
  BY <1>1 DEF ChipTypes, CallTypes, chipVars
<1>4. Chips' /\ LateAnswersFit'
  BY <1>1 DEF Chips, LateAnswersFit, chipVars, legacyVars
<1>5. ASSUME told' = "stopped" PROVE run_state = "STOPPED"
  <2>1. CASE StopWhenNot
    BY <1>5, <2>1 DEF StopWhenNot, Done
  <2>2. CASE StopInTime
    BY <2>2 DEF StopInTime, Chips, Stops
  <2>3. CASE StopLate
    BY <1>5, <2>3 DEF StopLate, Done
  <2> QED BY <2>1, <2>2, <2>3
<1>6. StoppedIsOff'
  BY <1>1, <1>5 DEF StoppedIsOff, Chips, Stops, chipVars, legacyVars
<1> QED BY <1>1, <1>2, <1>3, <1>4, <1>6 DEF Legacy

(* What a chip that is configured keeps: it stays, and so does its HAL.      *)
LEMMA ConfigureIInv ==
  ASSUME IInv, NEW m \in Mode, chip, run_state' = run_state, chip' = chip,
         ifaces' \in {ifaces, NoIfaces}, rtt' \in {rtt, 0},
         Legacy', CallTypes', mode' \in Mode \union {"kInvalid"},
         pc' \in {"idle", "reconfigure", "bad_start"},
         told' = told \/ told' \in {"failed", "configured"},
         on_stop' \in {on_stop, "chip"}
  PROVE  IInv'
<1> USE DEF IInv, TypeOK
<1>1. run_state = "STARTED" /\ told # "stopped"
  BY DEF Chips, StoppedIsOff
<1>2. ChipTypes'
  <2>1. NoIfaces \in [IfaceType -> Nat] /\ 0 \in 0..MaxRtt
    BY WifiAssumption DEF NoIfaces
  <2>2. ifaces' \in [IfaceType -> Nat] /\ rtt' \in 0..MaxRtt
    BY <2>1 DEF ChipTypes
  <2>3. chip' \in BOOLEAN
    BY DEF ChipTypes
  <2> QED BY <2>2, <2>3 DEF ChipTypes
<1>3. Chips'
  BY <1>1 DEF Chips
<1>4. LateAnswersFit'
  BY DEF LateAnswersFit
<1>5. StoppedIsOff'
  BY <1>1 DEF StoppedIsOff
<1> QED BY <1>2, <1>3, <1>4, <1>5 DEF Legacy

(* configureChip in its three cases: the mode it is in, the first mode, and *)
(* another mode.                                                             *)
LEMMA ConfigureChipIInv ==
  ASSUME IInv, NEW m \in Mode, ConfigureChip(m)
  PROVE  IInv'
<1> USE DEF IInv
<1>1. /\ chip /\ chip' = chip /\ run_state' = run_state
      /\ ifaces' \in {ifaces, NoIfaces} /\ rtt' \in {rtt, 0}
  BY DEF ConfigureChip, InvalidateAndRemoveAllIfaces
<1>2. Legacy /\ mode \in Mode \union {"kInvalid"}
  BY DEF Legacy, TypeOK, ChipTypes
<1>3. CASE StartLegacyHal(m)
  BY <1>1, <1>2, <1>3, StartLegacyHalEffect, ConfigureIInv
<1>4. CASE Done("configured") /\ UNCHANGED legacyVars /\ UNCHANGED mode
  <2>1. Legacy' /\ on_stop' = on_stop
    BY <1>2, <1>4, LegacyUntouched DEF legacyVars
  <2>2. CallTypes' /\ pc' = "idle" /\ told' = "configured"
    BY <1>4 DEF Done, CallTypes, TypeOK
  <2> QED BY <1>1, <1>2, <1>4, <2>1, <2>2, ConfigureIInv
<1>5. CASE StopLegacyHal("chip") /\ pc' = "reconfigure" /\ target' = m /\ UNCHANGED <<mode, told>>
  <2>1. Legacy' /\ on_stop' = "chip"
    BY <1>2, <1>5, StopLegacyHalLegacy DEF StopLegacyHal
  <2>2. CallTypes'
    BY <1>5 DEF CallTypes, TypeOK
  <2> QED BY <1>1, <1>2, <1>5, <2>1, <2>2, ConfigureIInv
<1> QED BY <1>3, <1>4, <1>5 DEF ConfigureChip

(* The second half of a reconfiguration, the old HAL stopped.               *)
LEMMA ReconfigureIInv == IInv /\ Reconfigure => IInv'
<1> SUFFICES ASSUME IInv, Reconfigure PROVE IInv'
  OBVIOUS
<1>1. /\ chip /\ chip' = chip /\ run_state' = run_state
      /\ ifaces' = ifaces /\ rtt' = rtt
      /\ Legacy /\ TypeOK /\ target \in Mode /\ mode \in Mode \union {"kInvalid"}
      /\ StartLegacyHal(target)
  BY DEF Reconfigure, IInv, Chips, Legacy, TypeOK, CallTypes, ChipTypes
<1> QED BY <1>1, StartLegacyHalEffect, ConfigureIInv

(* Interfaces come and go only with a chip that is there.                    *)
LEMMA IfaceIInv ==
  ASSUME IInv,
         \/ \E t \in IfaceType : CreateIface(t) \/ RemoveIface(t)
         \/ CreateRttController \/ RemoveSta
  PROVE  IInv'
<1> USE DEF IInv, TypeOK
<1>1. /\ chip /\ chip' = chip /\ mode' = mode /\ run_state' = run_state
      /\ UNCHANGED legacyVars /\ target' = target /\ told' = told
      /\ pc' \in {"idle", "segv"}
  BY DEF CreateIface, RemoveIface, CreateRttController, RemoveSta, callVars
<1>2. rtt' \in 0..MaxRtt
  BY WifiAssumption
     DEF ChipTypes, CreateIface, RemoveIface, CreateRttController, RemoveSta
<1>3. ifaces' \in [IfaceType -> Nat]
  BY DEF ChipTypes, CreateIface, RemoveIface, CreateRttController, RemoveSta
<1>4. chip' \in BOOLEAN
  BY <1>1 DEF ChipTypes
<1>5. ChipTypes'
  BY <1>1, <1>2, <1>3, <1>4 DEF ChipTypes
<1>6. CallTypes'
  BY <1>1 DEF CallTypes, Ended
<1>7. Legacy'
  BY <1>1, LegacyUntouched DEF Legacy
<1>8. Chips'
  BY <1>1 DEF Chips, legacyVars
<1>9. told # "stopped"
  BY <1>1 DEF StoppedIsOff
<1>10. LateAnswersFit' /\ StoppedIsOff'
  BY <1>1, <1>9 DEF LateAnswersFit, StoppedIsOff
<1> QED BY <1>1, <1>5, <1>6, <1>7, <1>8, <1>10 DEF Legacy

(* The vendor's thread completes a stop, whoever asked for it.               *)
LEMMA EventLoopIInv == IInv /\ EventLoop => IInv'
<1> SUFFICES ASSUME IInv, NEW h \in Handle, OnAsyncStopComplete(h) \/ EventLoopEnds(h)
             PROVE  IInv'
  BY DEF EventLoop
<1> USE DEF IInv, TypeOK
<1>1. Legacy' /\ on_stop' = "none" /\ ~is_started' /\ pc' = pc
  BY EventLoopLegacy DEF Legacy
<1>2. UNCHANGED <<chipVars, target, told>>
  BY DEF OnAsyncStopComplete, EventLoopEnds
<1>3. ChipTypes' /\ CallTypes'
  BY <1>1, <1>2 DEF ChipTypes, CallTypes, chipVars
<1>4. CASE OnAsyncStopComplete(h)
  <2>1. on_stop # "none" /\ loop[h] = "stopping" /\ global_handle = h
    BY <1>4 DEF OnAsyncStopComplete, Stops, Loops
  <2>2. run_state' = IF on_stop = "wifi" THEN "STOPPED" ELSE run_state
    BY <1>4, <2>1 DEF OnAsyncStopComplete
  <2>3. Chips'
    BY <1>1, <1>2, <2>1, <2>2 DEF Chips, chipVars
  <2>4. told # "stopped"
    BY <2>1 DEF StoppedIsOff
  <2> QED BY <1>1, <1>2, <1>3, <2>2, <2>3, <2>4 DEF Legacy, LateAnswersFit, StoppedIsOff
<1>5. CASE EventLoopEnds(h)
  <2>1. run_state' = run_state
    BY <1>5 DEF EventLoopEnds, Abort
  <2>2. loop[h] = "called" /\ global_handle = NoHandle /\ loop' = [loop EXCEPT ![h] = "none"]
    BY <1>1, <1>5 DEF EventLoopEnds, Loops, Abort, Legacy, LateAnswersFit
  <2>3. on_stop = "none" /\ ~is_started
    BY <2>2, WifiAssumption DEF Stops
  <2>4. Chips'
    BY <1>1, <1>2, <2>1, <2>3 DEF Chips, chipVars
  <2>5. StoppedIsOff'
    BY <1>1, <1>2, <2>1, <2>2, <2>3 DEF StoppedIsOff, chipVars, LegacyTypes
  <2> QED BY <1>1, <1>2, <1>3, <2>1, <2>4, <2>5 DEF Legacy, LateAnswersFit
<1> QED BY <1>4, <1>5

(* A service that is started again is as new.                                *)
LEMMA RestartIInv == Restart => IInv'
<1> SUFFICES ASSUME Restart PROVE IInv'
  OBVIOUS
<1>1. (Init => IInv)'
  BY InitIInv, PTL
<1>2. Init'
  BY DEF Restart, Init
<1> QED BY <1>1, <1>2

(* Every step keeps the invariant. *)
LEMMA NextIInv == IInv /\ [Next]_vars => IInv'
<1> SUFFICES ASSUME IInv, [Next]_vars PROVE IInv'
  OBVIOUS
<1>1. CASE UNCHANGED vars
  BY <1>1 DEF vars, chipVars, legacyVars, callVars, IInv, TypeOK, ChipTypes, LegacyTypes,
              CallTypes, Loops, Stops, Chips, LateAnswersFit, StoppedIsOff
<1>2. CASE Hidl
  BY <1>2, StartIInv, StopWhenStartedIInv, StopReturnsIInv, ConfigureChipIInv, IfaceIInv
     DEF Hidl
<1>3. CASE Wait
  BY <1>3, StopReturnsIInv, ReconfigureIInv DEF Wait
<1> QED BY <1>1, <1>2, <1>3, EventLoopIInv, RestartIInv DEF Next

(* The state of Wifi, the chip, the legacy HAL and the call fit their types. *)
THEOREM TypeCorrect == Spec => []TypeOK
<1>1. IInv => TypeOK
  BY DEF IInv
<1> QED BY InitIInv, NextIInv, <1>1, PTL DEF Spec

(* However late a stop completes, there is one event loop at a time.         *)
THEOREM EventLoopIsAlone == Spec => []OneEventLoop
<1>1. IInv => OneEventLoop
  BY DEF IInv, TypeOK, LegacyTypes, Loops, OneEventLoop
<1> QED BY InitIInv, NextIInv, <1>1, PTL DEF Spec

(* No answer of the vendor ends the process for coming late.                 *)
THEOREM LateAnswersAreExpected == Spec => []LateAnswersFit
<1>1. IInv => LateAnswersFit
  BY DEF IInv
<1> QED BY InitIInv, NextIInv, <1>1, PTL DEF Spec

(* A stop that succeeded leaves nothing that runs.                           *)
THEOREM SuccessfulStopIsOff == Spec => []StoppedIsOff
<1>1. IInv => StoppedIsOff
  BY DEF IInv
<1> QED BY InitIInv, NextIInv, <1>1, PTL DEF Spec

-----------------------------------------------------------------------------
(* The combinations of interfaces.                                          *)

(* What CombosRespected says of numbers n of interfaces in mode m.          *)
Respects(n, m) ==
  CASE m = "kV1Sta" -> n["STA"] <= 1 /\ n["P2P"] + n["NAN"] <= 1 /\ n["AP"] = 0
    [] m = "kV1Ap"  -> [n EXCEPT !["AP"] = 0] = NoIfaces /\ n["AP"] <= 1
    [] OTHER        -> n = NoIfaces

(* A mode is chosen while there are no interfaces.                          *)
Combos == /\ Respects(ifaces, mode)
          /\ pc = "reconfigure" => ifaces = NoIfaces

(* There are two modes, and each has one combination.                       *)
LEMMA Modes ==
  /\ Mode = {"kV1Sta", "kV1Ap"}
  /\ kChipModes["kV1Sta"] = {<<Limit({"STA"}, 1), Limit({"P2P", "NAN"}, 1)>>}
  /\ kChipModes["kV1Ap"] = {<<Limit({"AP"}, 1)>>}
BY DEF Mode, kChipModes

(* How many slots hold a type when at most one does.                        *)
LEMMA CountOne ==
  ASSUME NEW S, NEW a, S \subseteq {a}
  PROVE  Cardinality(S) = IF a \in S THEN 1 ELSE 0
<1>1. CASE a \in S
  <2>1. S = {a}
    BY <1>1
  <2> QED BY <1>1, <2>1, FS_Singleton
<1>2. CASE a \notin S
  <2>1. S = {}
    BY <1>2
  <2> QED BY <1>2, <2>1, FS_EmptySet
<1> QED BY <1>1, <1>2

(* The combination for STA has one STA and one of P2P and NAN.              *)
LEMMA StaCombo ==
  ASSUME NEW combo \in ExpandedCombos("kV1Sta")
  PROVE  /\ combo["STA"] = 1 /\ combo["AP"] = 0
         /\ \/ combo["P2P"] = 1 /\ combo["NAN"] = 0
            \/ combo["P2P"] = 0 /\ combo["NAN"] = 1
<1> DEFINE limits == <<Limit({"STA"}, 1), Limit({"P2P", "NAN"}, 1)>>
<1>1. PICK f \in Choice(limits) : combo = Counts(f)
  BY Modes DEF ExpandedCombos
<1>2. /\ DOMAIN limits = {1, 2}
      /\ limits[1] = [types |-> {"STA"}, maxIfaces |-> 1]
      /\ limits[2] = [types |-> {"P2P", "NAN"}, maxIfaces |-> 1]
  BY DEF Limit
<1> HIDE DEF limits
<1>3. Slot(limits) = {<<1, 1>>, <<2, 1>>}
  <2>1. 1..limits[1].maxIfaces = {1} /\ 1..limits[2].maxIfaces = {1}
    BY <1>2
  <2>2. Slot(limits) = ({1} \X {1}) \union ({2} \X {1})
    BY <1>2, <2>1 DEF Slot
  <2> QED BY <2>2
<1>4. /\ f \in [{<<1, 1>>, <<2, 1>>} -> IfaceType]
      /\ f[<<1, 1>>] = "STA" /\ f[<<2, 1>>] \in {"P2P", "NAN"}
  <2>1. f \in [Slot(limits) -> IfaceType] /\ \A s \in Slot(limits) : f[s] \in limits[s[1]].types
    BY DEF Choice
  <2>2. f[<<1, 1>>] \in limits[1].types /\ f[<<2, 1>>] \in limits[2].types
    <3>1. <<1, 1>>[1] = 1 /\ <<2, 1>>[1] = 2
      OBVIOUS
    <3> QED BY <1>3, <2>1, <3>1
  <2> QED BY <1>2, <1>3, <2>1, <2>2
<1> DEFINE Of(t) == {s \in DOMAIN f : f[s] = t}
<1>5. \A t \in IfaceType : combo[t] = Cardinality(Of(t))
  BY <1>1 DEF Counts
<1>6. /\ Of("STA") \subseteq {<<1, 1>>} /\ <<1, 1>> \in Of("STA")
      /\ Of("P2P") \subseteq {<<2, 1>>} /\ Of("NAN") \subseteq {<<2, 1>>}
      /\ Of("AP") \subseteq {<<2, 1>>} /\ <<2, 1>> \notin Of("AP")
      /\ <<2, 1>> \in Of("P2P") <=> <<2, 1>> \notin Of("NAN")
  BY <1>4
<1> HIDE DEF Of
<1>7. {"STA", "AP", "P2P", "NAN"} \subseteq IfaceType
  BY DEF IfaceType
<1>8. combo["STA"] = 1 /\ combo["AP"] = 0
  BY <1>5, <1>6, <1>7, CountOne
<1>9. /\ combo["P2P"] = IF <<2, 1>> \in Of("P2P") THEN 1 ELSE 0
      /\ combo["NAN"] = IF <<2, 1>> \in Of("NAN") THEN 1 ELSE 0
  <2>1. combo["P2P"] = Cardinality(Of("P2P")) /\ combo["NAN"] = Cardinality(Of("NAN"))
    BY <1>5, <1>7
  <2>2. Cardinality(Of("P2P")) = IF <<2, 1>> \in Of("P2P") THEN 1 ELSE 0
    BY <1>6, CountOne
  <2>3. Cardinality(Of("NAN")) = IF <<2, 1>> \in Of("NAN") THEN 1 ELSE 0
    BY <1>6, CountOne
  <2> QED BY <2>1, <2>2, <2>3
<1> QED BY <1>6, <1>8, <1>9

(* The combination for AP has one AP.                                       *)
LEMMA ApCombo ==
  ASSUME NEW combo \in ExpandedCombos("kV1Ap")
  PROVE  combo["AP"] = 1 /\ combo["STA"] = 0 /\ combo["P2P"] = 0 /\ combo["NAN"] = 0
<1> DEFINE limits == <<Limit({"AP"}, 1)>>
<1>1. PICK f \in Choice(limits) : combo = Counts(f)
  BY Modes DEF ExpandedCombos
<1>2. DOMAIN limits = {1} /\ limits[1] = [types |-> {"AP"}, maxIfaces |-> 1]
  BY DEF Limit
<1> HIDE DEF limits
<1>3. Slot(limits) = {<<1, 1>>}
  <2>1. 1..limits[1].maxIfaces = {1}
    BY <1>2
  <2>2. Slot(limits) = {1} \X {1}
    BY <1>2, <2>1 DEF Slot
  <2> QED BY <2>2
<1>4. f \in [{<<1, 1>>} -> IfaceType] /\ f[<<1, 1>>] = "AP"
  <2>1. f \in [Slot(limits) -> IfaceType] /\ \A s \in Slot(limits) : f[s] \in limits[s[1]].types
    BY DEF Choice
  <2>2. <<1, 1>>[1] = 1
    OBVIOUS
  <2> QED BY <1>2, <1>3, <2>1, <2>2
<1> DEFINE Of(t) == {s \in DOMAIN f : f[s] = t}
<1>5. \A t \in IfaceType : combo[t] = Cardinality(Of(t))
  BY <1>1 DEF Counts
<1>6. /\ Of("AP") \subseteq {<<1, 1>>} /\ <<1, 1>> \in Of("AP")
      /\ \A t \in {"STA", "P2P", "NAN"} : Of(t) \subseteq {<<1, 1>>} /\ <<1, 1>> \notin Of(t)
  BY <1>4
<1> HIDE DEF Of
<1>7. {"STA", "AP", "P2P", "NAN"} \subseteq IfaceType
  BY DEF IfaceType
<1> QED BY <1>5, <1>6, <1>7, CountOne

(* No interfaces are allowed in every mode.                                 *)
LEMMA NoneRespects == \A m \in Mode \union {"kInvalid"} : Respects(NoIfaces, m)
<1>1. NoIfaces \in [IfaceType -> {0}]
  BY DEF NoIfaces
<1>2. [NoIfaces EXCEPT !["AP"] = 0] = NoIfaces
  BY <1>1
<1> QED BY <1>1, <1>2 DEF Respects, IfaceType

(* What a combination has room for may be there.                            *)
LEMMA WithinRespects ==
  ASSUME NEW n \in [IfaceType -> Nat], NEW m \in Mode, NEW combo \in ExpandedCombos(m),
         \A t \in IfaceType : n[t] <= combo[t]
  PROVE  Respects(n, m)
<1>1. IfaceType = {"STA", "AP", "P2P", "NAN"}
  BY DEF IfaceType
<1>2. n["STA"] \in Nat /\ n["AP"] \in Nat /\ n["P2P"] \in Nat /\ n["NAN"] \in Nat
  BY <1>1
<1>3. CASE m = "kV1Sta"
  <2>1. n["STA"] <= 1 /\ n["P2P"] + n["NAN"] <= 1 /\ n["AP"] = 0
    BY <1>1, <1>2, <1>3, StaCombo
  <2> QED BY <1>3, <2>1 DEF Respects
<1>4. CASE m = "kV1Ap"
  <2>1. n["AP"] <= 1 /\ n["STA"] = 0 /\ n["P2P"] = 0 /\ n["NAN"] = 0
    BY <1>1, <1>2, <1>4, ApCombo
  <2>2. [n EXCEPT !["AP"] = 0] = NoIfaces
    BY <1>1, <2>1 DEF NoIfaces
  <2> QED BY <1>4, <2>1, <2>2 DEF Respects
<1> QED BY <1>3, <1>4, Modes

(* Fewer of a type are allowed as well.                                     *)
LEMMA FewerRespects ==
  ASSUME NEW n \in [IfaceType -> Nat], NEW k \in [IfaceType -> Nat],
         NEW m \in Mode \union {"kInvalid"}, Respects(n, m),
         \A t \in IfaceType : k[t] <= n[t]
  PROVE  Respects(k, m)
<1>1. IfaceType = {"STA", "AP", "P2P", "NAN"}
  BY DEF IfaceType
<1>2. /\ n["STA"] \in Nat /\ n["AP"] \in Nat /\ n["P2P"] \in Nat /\ n["NAN"] \in Nat
      /\ k["STA"] \in Nat /\ k["AP"] \in Nat /\ k["P2P"] \in Nat /\ k["NAN"] \in Nat
  BY <1>1
<1>3. CASE m = "kV1Sta"
  <2>1. n["STA"] <= 1 /\ n["P2P"] + n["NAN"] <= 1 /\ n["AP"] = 0
    BY <1>3 DEF Respects
  <2>2. k["STA"] <= 1 /\ k["P2P"] + k["NAN"] <= 1 /\ k["AP"] = 0
    BY <1>1, <1>2, <2>1
  <2> QED BY <1>3, <2>2 DEF Respects
<1>4. CASE m = "kV1Ap"
  <2>1. [n EXCEPT !["AP"] = 0] = NoIfaces /\ n["AP"] <= 1
    BY <1>4 DEF Respects
  <2>2. n["STA"] = 0 /\ n["P2P"] = 0 /\ n["NAN"] = 0
    <3>1. \A t \in {"STA", "P2P", "NAN"} : [n EXCEPT !["AP"] = 0][t] = n[t] /\ NoIfaces[t] = 0
      BY <1>1 DEF NoIfaces
    <3> QED BY <2>1, <3>1
  <2>3. k["STA"] = 0 /\ k["P2P"] = 0 /\ k["NAN"] = 0 /\ k["AP"] <= 1
    BY <1>1, <1>2, <2>1, <2>2
  <2>4. [k EXCEPT !["AP"] = 0] = NoIfaces
    BY <1>1, <2>3 DEF NoIfaces
  <2> QED BY <1>4, <2>3, <2>4 DEF Respects
<1>5. CASE m \notin {"kV1Sta", "kV1Ap"}
  <2>1. n = NoIfaces
    BY <1>5 DEF Respects
  <2>2. \A t \in IfaceType : k[t] = 0
    BY <1>2, <2>1, <1>1 DEF NoIfaces
  <2>3. k = NoIfaces
    BY <2>2 DEF NoIfaces
  <2> QED BY <1>5, <2>3 DEF Respects
<1> QED BY <1>3, <1>4, <1>5

(* Choosing a mode: it is the one before, or there are no interfaces.       *)
LEMMA ConfigureCombos ==
  ASSUME IInv, Combos, (\E m \in Mode : ConfigureChip(m)) \/ Reconfigure
  PROVE  Combos'
<1> USE DEF IInv, TypeOK, ChipTypes
<1>1. ASSUME NEW m \in Mode, StartLegacyHal(m), ifaces' = NoIfaces
      PROVE  Combos'
  <2>1. mode' \in {mode, m}
    BY <1>1, StartLegacyHalEffect DEF Legacy
  <2> QED BY <1>1, <2>1, NoneRespects DEF Combos
<1>2. ASSUME Reconfigure PROVE Combos'
  BY <1>1, <1>2 DEF Reconfigure, Combos, CallTypes
<1>3. ASSUME NEW m \in Mode, ConfigureChip(m) PROVE Combos'
  <2>1. CASE mode = m /\ Done("configured") /\ UNCHANGED <<mode, ifaces, rtt, legacyVars>>
    BY <2>1 DEF Combos, Done
  <2>2. CASE mode = "kInvalid" /\ StartLegacyHal(m) /\ UNCHANGED <<ifaces, rtt>>
    <3>1. ifaces = NoIfaces
      BY <2>2 DEF Combos, Respects
    <3> QED BY <1>1, <2>2, <3>1
  <2>3. CASE ifaces' = NoIfaces /\ StartLegacyHal(m)
    BY <1>1, <2>3
  <2>4. CASE ifaces' = NoIfaces /\ UNCHANGED mode
    BY <2>4, NoneRespects DEF Combos
  <2> QED BY <1>3, <2>1, <2>2, <2>3, <2>4 DEF ConfigureChip, InvalidateAndRemoveAllIfaces
<1> QED BY <1>2, <1>3

(* Interfaces come only where a combination has room, and others go.        *)
LEMMA IfaceCombos ==
  ASSUME IInv, Combos,
         \/ \E t \in IfaceType : CreateIface(t) \/ RemoveIface(t)
         \/ CreateRttController \/ RemoveSta
  PROVE  Combos'
<1> USE DEF IInv, TypeOK, ChipTypes
<1>1. ifaces' \in [IfaceType -> Nat] /\ mode' = mode /\ pc' # "reconfigure"
  <2>1. IInv'
    BY IfaceIInv
  <2>2. mode' = mode /\ pc' # "reconfigure"
    BY DEF CreateIface, RemoveIface, CreateRttController, RemoveSta, callVars
  <2> QED BY <2>1, <2>2
<1>2. ASSUME NEW t \in IfaceType, CreateIface(t) PROVE Combos'
  <2>1. PICK combo \in ExpandedCombos(mode) :
           \A u \in IfaceType : [ifaces EXCEPT ![t] = @ + 1][u] <= combo[u]
    BY <1>2 DEF CreateIface, CanSupport
  <2>2. mode \in Mode /\ ifaces' = [ifaces EXCEPT ![t] = @ + 1]
    BY <1>2 DEF CreateIface, CanSupport
  <2> QED BY <1>1, <2>1, <2>2, WithinRespects DEF Combos
<1>3. ASSUME \A t \in IfaceType : ifaces'[t] <= ifaces[t] PROVE Combos'
  BY <1>1, <1>3, FewerRespects DEF Combos
<1>4. ASSUME NEW t \in IfaceType, RemoveIface(t) PROVE Combos'
  BY <1>3, <1>4 DEF RemoveIface
<1>5. ASSUME CreateRttController \/ RemoveSta PROVE Combos'
  <2>1. \A t \in IfaceType : ifaces'[t] <= ifaces[t]
    BY <1>5 DEF CreateRttController, RemoveSta
  <2> QED BY <1>3, <2>1
<1> QED BY <1>2, <1>4, <1>5

(* Mode changes that fail half-way, stops and deaths of the process leave   *)
(* no interfaces that the mode does not allow, for any number of handles:   *)
(* CombosRespected.                                                         *)
THEOREM CombosAreRespected == Spec => []CombosRespected
<1>1. Init => Combos
  BY NoneRespects DEF Init, Combos
<1>2. IInv /\ Combos /\ [Next]_vars => Combos'
  <2> SUFFICES ASSUME IInv, Combos, [Next]_vars PROVE Combos'
    OBVIOUS
  <2>1. mode \in Mode \union {"kInvalid"}
    BY DEF IInv, TypeOK, ChipTypes
  <2>2. CASE UNCHANGED <<mode, ifaces, pc>>
    BY <2>2 DEF Combos
  <2>3. CASE Start
    <3>1. run_state = "STOPPED" => ifaces = NoIfaces
      BY DEF IInv, Chips
    <3>2. ifaces' = ifaces /\ pc' = "idle"
      BY <2>3 DEF Start, Done
    <3>3. mode' = mode \/ (ifaces = NoIfaces /\ mode' = "kInvalid")
      BY <2>3, <3>1 DEF Start
    <3>4. CASE mode' = mode
      BY <3>2, <3>4 DEF Combos
    <3>5. CASE ifaces = NoIfaces /\ mode' = "kInvalid"
      BY <3>2, <3>5, NoneRespects DEF Combos
    <3> QED BY <3>3, <3>4, <3>5
  <2>4. CASE StopWhenStarted \/ Restart
    <3>1. ifaces' = NoIfaces /\ mode' \in Mode \union {"kInvalid"}
      BY <2>1, <2>4 DEF StopWhenStarted, InvalidateAndRemoveAllIfaces, Restart
    <3> QED BY <3>1, NoneRespects DEF Combos
  <2>5. CASE StopWhenNot \/ StopInTime \/ StopLate
    <3>1. UNCHANGED <<mode, ifaces>> /\ pc' = "idle"
      BY <2>5 DEF StopWhenNot, StopInTime, StopLate, Stopped, Done, chipVars
    <3> QED BY <3>1 DEF Combos
  <2>6. CASE EventLoop
    <3>1. PICK h \in Handle : OnAsyncStopComplete(h) \/ EventLoopEnds(h)
      BY <2>6 DEF EventLoop
    <3>2. pc' = pc
      BY <3>1, EventLoopLegacy DEF IInv, TypeOK, Legacy
    <3>3. UNCHANGED <<mode, ifaces>>
      BY <3>1 DEF OnAsyncStopComplete, EventLoopEnds, chipVars
    <3> QED BY <2>2, <3>2, <3>3
  <2> QED BY <2>2, <2>3, <2>4, <2>5, <2>6, ConfigureCombos, IfaceCombos DEF Next, Hidl, Wait, vars, chipVars, callVars
<1>3. Combos => CombosRespected
  BY DEF Combos, Respects, CombosRespected
<1> QED BY <1>1, <1>2, <1>3, InitIInv, NextIInv, PTL DEF Spec
-----------------------------------------------------------------------------
(* What StoppingEnds rests on.                                              *)

(* Whoever waits for a stop, and a state that stays STOPPING until one       *)
(* completes, has an event loop that is to end: while run_state is STOPPING  *)
(* the loop of the handle has been asked to, and its completion is for Wifi; *)
(* while an end is awaited some loop is on its way to it, so that neither a  *)
(* call waits for nothing nor a later start is refused for good. (wifi.cpp   *)
(* 201-213, wifi_legacy_hal.cpp 397-427 and 1390-1401.)                      *)
StopIsUnderWay ==
  /\ run_state = "STOPPING" =>
       global_handle \in Handle /\ loop[global_handle] = "stopping" /\ on_stop = "wifi"
  /\ awaiting => \E h \in Handle : loop[h] \in {"stopping", "called"}

(* Only the end of the loop that is under way to it ends the wait for it.   *)
LEMMA NextUnderWay ==
  ASSUME IInv, StopIsUnderWay, [Next]_vars
  PROVE  awaiting' => \E h \in Handle : loop'[h] \in {"stopping", "called"}
<1> USE DEF IInv, TypeOK, LegacyTypes
<1>1. CASE UNCHANGED legacyVars
  BY <1>1 DEF StopIsUnderWay, legacyVars
<1>2. ASSUME NEW who \in {"wifi", "chip"}, StopLegacyHal(who)
      PROVE  \E h \in Handle : loop'[h] \in {"stopping", "called"}
  <2>1. global_handle \in Handle /\ loop' = [loop EXCEPT ![global_handle] = "stopping"]
    BY <1>2 DEF StopLegacyHal, Stops
  <2> QED BY <2>1
<1>3. ASSUME NEW m \in Mode, StartLegacyHal(m), awaiting'
      PROVE  UNCHANGED legacyVars
  BY <1>3 DEF StartLegacyHal, StartVendorHal, GoodState
<1>4. ASSUME NEW h \in Handle, OnAsyncStopComplete(h)
      PROVE  \E g \in Handle : loop'[g] \in {"stopping", "called"}
  <2>1. on_stop # "none" /\ global_handle = h
    BY <1>4 DEF OnAsyncStopComplete, Stops, Loops
  <2>2. loop' = [loop EXCEPT ![h] = "called"]
    BY <1>4, <2>1 DEF OnAsyncStopComplete
  <2> QED BY <2>2
<1>5. ASSUME NEW h \in Handle, EventLoopEnds(h), awaiting'
      PROVE  FALSE
  BY <1>5 DEF EventLoopEnds, Loops
<1>6. CASE Start \/ StopWhenNot \/ StopInTime \/ StopLate
  BY <1>1, <1>6 DEF Start, StopWhenNot, StopInTime, StopLate
<1>7. CASE StopWhenStarted
  BY <1>1, <1>2, <1>7 DEF StopWhenStarted
<1>8. ASSUME NEW m \in Mode, ConfigureChip(m)
      PROVE  awaiting' => \E h \in Handle : loop'[h] \in {"stopping", "called"}
  BY <1>1, <1>2, <1>3, <1>8 DEF ConfigureChip
<1>9. CASE Reconfigure
  BY <1>1, <1>3, <1>9 DEF Reconfigure, CallTypes
<1>10. ASSUME \/ \E t \in IfaceType : CreateIface(t) \/ RemoveIface(t)
              \/ CreateRttController \/ RemoveSta
       PROVE  UNCHANGED legacyVars
  BY <1>10 DEF CreateIface, RemoveIface, CreateRttController, RemoveSta
<1>11. CASE Restart
  BY <1>11 DEF Restart
<1>12. CASE UNCHANGED vars
  BY <1>1, <1>12 DEF vars
<1> QED BY <1>1, <1>4, <1>5, <1>6, <1>7, <1>8, <1>9, <1>10, <1>11, <1>12
           DEF Next, Hidl, Wait, EventLoop

(* A stop that was begun, in time or late, has its event loop to end it.     *)
THEOREM StopsAreUnderWay == Spec => []StopIsUnderWay
<1>1. IInv => (run_state = "STOPPING" =>
        global_handle \in Handle /\ loop[global_handle] = "stopping" /\ on_stop = "wifi")
  BY DEF IInv, Chips, Stops
<1>2. Init => StopIsUnderWay
  BY DEF Init, StopIsUnderWay
<1>3. IInv /\ StopIsUnderWay /\ [Next]_vars => StopIsUnderWay'
  <2>1. IInv' => (run_state = "STOPPING" =>
          global_handle \in Handle /\ loop[global_handle] = "stopping" /\ on_stop = "wifi")'
    BY <1>1, PTL
  <2> QED BY <2>1, NextIInv, NextUnderWay DEF StopIsUnderWay
<1> QED BY InitIInv, NextIInv, <1>2, <1>3, PTL DEF Spec
=============================================================================
