-------------------------- MODULE DtvPatch_proofs ---------------------------
(***************************************************************************)
(* The threads of a patch end before it does, and the channels do not mix, *)
(* for any number of paths, any list and any queue.                        *)
(***************************************************************************)
EXTENDS DtvPatch, TLAPS

(* Which threads there are, by where the command thread is. *)
Threads ==
  /\ patch <=> cmdpc # "none"
  /\ cmdpc \in {"none", "ended"} => input = "none" /\ output = "none"
  /\ cmdpc = "exitOut" => input = "none"
  /\ cmdpc = "unset" => output = "none"

(* A START that was sent behind a STOP that is still there, or is being      *)
(* carried out, has overtaken it. Without one, a path that is not the        *)
(* working one any more has no START to come.                                *)
Order ==
  /\ \A i, j \in DOMAIN queue :
       i < j /\ queue[i] = "STOP" /\ queue[j] = "START" => overtaken
  /\ cmdpc \in {"stop", "unset"} /\ Queued("START") => overtaken
  /\ working = NoPath /\ ~overtaken =>
       decoder_state \in {"INIT", "START"} /\ ~Queued("START")

(* Who holds dtv_lock, and that whoever is joined has been told to end. *)
Told ==
  /\ dtv_lock = "caller" <=> pc = "cmd"
  /\ dtv_lock = "input" <=> input = "add"
  /\ pc = "cmd" => patch
  /\ pc = "join" => patch /\ cmd_exit
  /\ cmdpc \in {"exitIn", "exitOut"} => pc = "join"
  /\ cmd_exit => pc = "join"
  /\ cmdpc \in {"stop", "exitOut"} => output = "none" \/ output_exit
  /\ cmdpc = "exitIn" => input = "none" \/ input_exit

(* A patch is there as long as somebody uses it or waits for its end.        *)
Shared ==
  /\ count > 0 => patch
  /\ pc = "join" => count = 0

IInv == TypeOK /\ Threads /\ NextChannelNewOutput /\ Order /\ Told /\ Shared

(* What the queue's Append does to its members. *)
LEMMA Appended ==
  ASSUME NEW q \in Seq(Cmd), NEW c \in Cmd
  PROVE  /\ Append(q, c) \in Seq(Cmd)
         /\ DOMAIN Append(q, c) = 1 .. Len(q) + 1
         /\ DOMAIN q = 1 .. Len(q) /\ Len(q) \in Nat
         /\ \A k \in 1 .. Len(q) : Append(q, c)[k] = q[k]
         /\ Append(q, c)[Len(q) + 1] = c
OBVIOUS

(* What taking the head does to the members of the queue. *)
LEMMA Taken ==
  ASSUME NEW q \in Seq(Cmd), q # <<>>
  PROVE  /\ Tail(q) \in Seq(Cmd)
         /\ DOMAIN Tail(q) = 1 .. Len(q) - 1
         /\ DOMAIN q = 1 .. Len(q) /\ Len(q) \in Nat /\ Len(q) > 0
         /\ Head(q) = q[1]
         /\ \A k \in 1 .. Len(q) - 1 : Tail(q)[k] = q[k + 1]
OBVIOUS

(* No state the device opens in breaks the invariant. *)
LEMMA InitIInv == Init => IInv
<1> SUFFICES ASSUME Init PROVE IInv
  OBVIOUS
<1>1. Places
  BY DEF Init, Places
<1>2. Flags
  BY DEF Init, Flags
<1>3. Data
  BY DtvAssumption DEF Init, Data, Path
<1>4. Threads /\ NextChannelNewOutput
  BY DEF Init, Threads, NextChannelNewOutput
<1>5. Order
  BY DEF Init, Order, Queued, NoPath
<1>6. Told
  BY DEF Init, Told
<1>7. Shared
  BY DEF Init, Shared
<1> QED BY <1>1, <1>2, <1>3, <1>4, <1>5, <1>6, <1>7 DEF IInv, TypeOK

(* The caller's steps keep every thread at a place it knows. *)
LEMMA NextPlaces == Places /\ [Next]_vars => Places'
<1> SUFFICES ASSUME Places, [Next]_vars PROVE Places'
  OBVIOUS
<1> USE DEF Places, callerVars, demuxVars, cmdVars, inputVars, outputVars
<1>1. CASE Create \/ Joined
  BY <1>1 DEF Create, Joined, FreshPatch
<1>2. CASE HandleEvent \/ TakeLock
  BY <1>2 DEF HandleEvent, TakeLock, OpenDemux, CloseDemux, DropCmd, KeepLock
<1>3. CASE Send \/ Release
  BY <1>3 DEF Send, SendCmd, Release, Signal
<1>4. CASE Top \/ NoCmd \/ TimedOut
  BY <1>4 DEF Top, NoCmd, TimedOut, Exit
<1>5. CASE StartDecoding \/ Drop
  BY <1>5 DEF StartDecoding, Drop, CreateInput, CreateOutput, Take
<1>6. CASE PauseOrResume \/ StopDecoding \/ OutputJoined \/ Unset
  BY <1>6 DEF PauseOrResume, StopDecoding, OutputJoined, Unset, Take, JoinOutput
<1>7. CASE ExitInput \/ ExitOutput
  BY <1>7 DEF ExitInput, ExitOutput, JoinInput, JoinOutput
<1>8. CASE InputThread
  BY <1>8 DEF InputThread, Visit, AddPackage, AddAgain, InputEnds
<1>9. CASE OutputThread
  BY <1>9 DEF OutputThread, Play, OutputOpens, OutputEnds
<1>10. CASE UNCHANGED vars
  BY <1>10 DEF vars
<1> QED BY <1>1, <1>2, <1>3, <1>4, <1>5, <1>6, <1>7, <1>8, <1>9, <1>10
        DEF Next, Caller, CmdThread

(* The flags stay flags. *)
LEMMA NextFlags == Flags /\ [Next]_vars => Flags'
<1> SUFFICES ASSUME Flags, [Next]_vars PROVE Flags'
  OBVIOUS
<1> USE DEF Flags, callerVars, demuxVars, cmdVars, inputVars, outputVars
<1>1. CASE Create \/ Joined
  BY <1>1 DEF Create, Joined, FreshPatch
<1>2. CASE HandleEvent \/ TakeLock
  BY <1>2 DEF HandleEvent, TakeLock
<1>3. CASE Send
  BY <1>3 DEF Send, SendCmd, Queued
<1>4. CASE Release
  BY <1>4 DEF Release
<1>5. CASE Top
  BY <1>5 DEF Top, Exit, EndInput
<1>6. CASE StartDecoding
  BY <1>6 DEF StartDecoding, CreateInput, CreateOutput
<1>7. CASE NoCmd \/ TimedOut \/ Drop \/ PauseOrResume \/ OutputJoined \/ ExitOutput
  BY <1>7 DEF NoCmd, TimedOut, Drop, PauseOrResume, OutputJoined, ExitOutput
<1>8. CASE StopDecoding \/ ExitInput
  BY <1>8 DEF StopDecoding, ExitInput, EndOutput
<1>9. CASE Unset
  BY <1>9 DEF Unset, Queued
<1>10. CASE InputThread
  BY <1>10 DEF InputThread, Visit, AddPackage, AddAgain, InputEnds
<1>11. CASE OutputThread
  BY <1>11 DEF OutputThread, Play, OutputOpens, OutputEnds
<1>12. CASE UNCHANGED vars
  BY <1>12 DEF vars
<1> QED BY <1>1, <1>2, <1>3, <1>4, <1>5, <1>6, <1>7, <1>8, <1>9, <1>10, <1>11, <1>12
        DEF Next, Caller, CmdThread

(* The next path is a path. *)
LEMMA NextPathIsPath == at \in Path => NextPath \in Path
<1> SUFFICES ASSUME at \in 0 .. NumPaths - 1 PROVE (at + 1) % NumPaths \in 0 .. NumPaths - 1
  BY DEF Path, NextPath
<1>1. /\ at + 1 \in Int /\ NumPaths \in Int /\ NumPaths > 0
  BY DtvAssumption
<1>2. \A a, n \in Int : n > 0 => a % n \in 0 .. n - 1
  OBVIOUS
<1> QED BY <1>1, <1>2

(* Counts stay in their bounds, the list in its size. *)
LEMMA NextData == Data /\ [Next]_vars => Data'
<1> SUFFICES ASSUME Data, [Next]_vars PROVE Data'
  OBVIOUS
<1> USE DtvAssumption DEF Data, callerVars, demuxVars, cmdVars, inputVars, outputVars
<1>1. 0 \in Path /\ NextPath \in Path
  <2>1. 0 \in Path
    BY DEF Path
  <2>2. NextPath \in Path
    BY NextPathIsPath
  <2> QED BY <2>1, <2>2
<1>2. CASE Create \/ Joined
  <2>1. \/ queue' = queue /\ list' = list
        \/ queue' = <<>> /\ list' = 0
    BY <1>2 DEF Create, Joined, FreshPatch
  <2>2. queue' \in Seq(Cmd) /\ list' \in 0 .. ListSize
    <3>1. <<>> \in Seq(Cmd)
      OBVIOUS
    <3>2. 0 \in 0 .. ListSize
      OBVIOUS
    <3> QED BY <2>1, <3>1, <3>2
  <2>3. count' \in 0 .. MaxCount
    BY <1>2 DEF Create, Joined
  <2>4. opened' = opened /\ working' = working /\ at' = at
    BY <1>2 DEF Create, Joined
  <2> QED BY <2>2, <2>3, <2>4
<1>3. CASE HandleEvent \/ TakeLock
  BY <1>3 DEF HandleEvent, TakeLock, OpenDemux, CloseDemux, DropCmd, KeepLock
<1>4. CASE Send
  <2> PICK c \in Cmd, p \in Path : SendCmd(c, p)
    BY <1>4 DEF Send
  <2>1. queue' = queue \/ queue' = Append(queue, c)
    BY DEF SendCmd
  <2>2. queue' \in Seq(Cmd)
    BY <2>1, Appended
  <2> QED BY <2>2 DEF SendCmd
<1>5. CASE Release
  BY <1>5 DEF Release
<1>6. CASE StartDecoding
  <2>1. queue' \in Seq(Cmd)
    BY <1>6, Taken DEF StartDecoding, Take
  <2> QED BY <1>1, <1>6, <2>1 DEF StartDecoding, CreateInput
<1>7. CASE Drop \/ PauseOrResume \/ StopDecoding
  <2>1. queue' \in Seq(Cmd)
    BY <1>7, Taken DEF Drop, PauseOrResume, StopDecoding, Take
  <2> QED BY <1>7, <2>1 DEF Drop, PauseOrResume, StopDecoding
<1>8. CASE Top \/ NoCmd \/ TimedOut \/ ExitInput \/ ExitOutput
  BY <1>8 DEF Top, NoCmd, TimedOut, ExitInput, ExitOutput
<1>9. CASE OutputJoined \/ Unset
  BY <1>9 DEF OutputJoined, Unset
<1>10. CASE InputThread
  BY <1>1, <1>10 DEF InputThread, Visit, AddPackage, AddAgain, InputEnds, Added, Full
<1>11. CASE OutputThread
  BY <1>11 DEF OutputThread, Play, OutputOpens, OutputEnds
<1>12. CASE UNCHANGED vars
  BY <1>12 DEF vars
<1> QED BY <1>2, <1>3, <1>4, <1>5, <1>6, <1>7, <1>8, <1>9, <1>10, <1>11, <1>12
        DEF Next, Caller, CmdThread

(* Threads are made while the command thread takes commands, and joined by  *)
(* it: the output thread for a STOP, both at its end.                        *)
LEMMA NextThreads ==
  Places /\ Threads /\ NextChannelNewOutput /\ [Next]_vars
    => Threads' /\ NextChannelNewOutput'
<1> SUFFICES ASSUME Places, Threads, NextChannelNewOutput, [Next]_vars
             PROVE  Threads' /\ NextChannelNewOutput'
  OBVIOUS
<1> USE DEF Places, Threads, NextChannelNewOutput, callerVars, demuxVars, cmdVars, inputVars,
            outputVars
<1>1. CASE Create \/ Joined
  BY <1>1 DEF Create, Joined, FreshPatch
<1>2. CASE HandleEvent \/ TakeLock
  BY <1>2 DEF HandleEvent, TakeLock
<1>3. CASE Send
  BY <1>3 DEF Send, SendCmd, Signal
<1>4. CASE Release
  BY <1>4 DEF Release, Signal
<1>5. CASE Top
  BY <1>5 DEF Top, Exit
<1>6. CASE NoCmd \/ TimedOut
  BY <1>6 DEF NoCmd, TimedOut
<1>7. CASE StartDecoding \/ Drop
  BY <1>7 DEF StartDecoding, Drop, Take
<1>8. CASE PauseOrResume \/ StopDecoding
  BY <1>8 DEF PauseOrResume, StopDecoding, Take
<1>9. CASE OutputJoined \/ Unset
  BY <1>9 DEF OutputJoined, Unset, JoinOutput
<1>10. CASE ExitInput \/ ExitOutput
  BY <1>10 DEF ExitInput, ExitOutput, JoinInput, JoinOutput
<1>11. CASE InputThread
  BY <1>11 DEF InputThread, Visit, AddPackage, AddAgain, InputEnds
<1>12. CASE OutputThread
  BY <1>12 DEF OutputThread, Play, OutputOpens, OutputEnds
<1>13. CASE UNCHANGED vars
  BY <1>13 DEF vars
<1> QED BY <1>1, <1>2, <1>3, <1>4, <1>5, <1>6, <1>7, <1>8, <1>9, <1>10, <1>11, <1>12, <1>13
        DEF Next, Caller, CmdThread

(* A patch is freed by its last user, when the command thread has ended.     *)
LEMMA NextShared == Data /\ Shared /\ [Next]_vars => Shared'
<1> SUFFICES ASSUME Data, Shared, [Next]_vars PROVE Shared'
  OBVIOUS
<1> USE DEF callerVars, demuxVars, cmdVars, inputVars, outputVars
<1>1. count \in Int
  BY DEF Data
<1>2. CASE Create
  <2>1. patch' /\ pc' = "idle"
    BY <1>2 DEF Create
  <2> QED BY <2>1 DEF Shared
<1>3. CASE HandleEvent \/ TakeLock
  <2>1. /\ count' = count /\ (patch' <=> patch)
        /\ pc' \in {"lock", "idle", "cmd"}
    BY <1>3 DEF HandleEvent, TakeLock, OpenDemux, CloseDemux, DropCmd, KeepLock
  <2> QED BY <2>1 DEF Shared
<1>4. CASE Send
  <2>1. count' = count /\ (patch' <=> patch) /\ pc' = "idle"
    BY <1>4 DEF Send, SendCmd
  <2> QED BY <2>1 DEF Shared
<1>5. CASE Release
  <2>1. patch' <=> patch
    BY <1>5 DEF Release
  <2>2. patch
    BY <1>5 DEF Release, Shared
  <2>3. pc' = "join" => count' = 0
    BY <1>1, <1>5 DEF Release
  <2> QED BY <2>1, <2>2, <2>3 DEF Shared
<1>6. CASE Joined
  <2>1. count' = 0 /\ pc' = "idle"
    BY <1>6 DEF Joined, Shared
  <2> QED BY <2>1 DEF Shared
<1>7. CASE CmdThread \/ InputThread \/ OutputThread \/ UNCHANGED vars
  <2>1. count' = count /\ (patch' <=> patch) /\ pc' = pc
    BY <1>7 DEF CmdThread, InputThread, OutputThread, vars, Top, NoCmd, TimedOut, StartDecoding,
                Drop, PauseOrResume, StopDecoding, OutputJoined, Unset, ExitInput, ExitOutput,
                Visit, AddPackage, AddAgain, InputEnds, Play, OutputOpens, OutputEnds
  <2> QED BY <2>1 DEF Shared
<1> QED BY <1>2, <1>3, <1>4, <1>5, <1>6, <1>7 DEF Next, Caller

(* dtv_lock is held only where it is given up again, and the threads that    *)
(* the command thread joins have been told to end.                           *)
LEMMA NextTold ==
  Places /\ Threads /\ Shared /\ Told /\ [Next]_vars => Told'
<1> SUFFICES ASSUME Places, Threads, Shared, Told, [Next]_vars
             PROVE  Told'
  OBVIOUS
<1> USE DEF Places, Threads, Told, callerVars, demuxVars, cmdVars, inputVars, outputVars
<1>1. CASE Create \/ Joined
  BY <1>1 DEF Create, Joined, FreshPatch
<1>2. CASE HandleEvent
  BY <1>2 DEF HandleEvent
<1>3. CASE TakeLock
  BY <1>3 DEF TakeLock, OpenDemux, CloseDemux, DropCmd, KeepLock
<1>4. CASE Send
  BY <1>4 DEF Send, SendCmd, Signal, MutexHeld
<1>5. CASE Release
  <2>1. patch
    BY <1>5 DEF Release, Shared
  <2>2. pc' # "cmd" /\ (pc' = "join" => cmd_exit') /\ (cmd_exit' => pc' = "join")
    BY <1>5 DEF Release
  <2> QED BY <1>5, <2>1, <2>2 DEF Release, Signal
<1>6. CASE Top
  BY <1>6 DEF Top, Exit, EndInput
<1>7. CASE NoCmd \/ TimedOut
  BY <1>7 DEF NoCmd, TimedOut
<1>8. CASE StartDecoding
  BY <1>8 DEF StartDecoding, Take, CreateInput, CreateOutput
<1>9. CASE Drop \/ PauseOrResume
  BY <1>9 DEF Drop, PauseOrResume, Take
<1>10. CASE StopDecoding
  BY <1>10 DEF StopDecoding, Take, EndOutput
<1>11. CASE OutputJoined \/ Unset
  BY <1>11 DEF OutputJoined, Unset, JoinOutput
<1>12. CASE ExitInput \/ ExitOutput
  BY <1>12 DEF ExitInput, ExitOutput, JoinInput, JoinOutput, EndOutput
<1>13. CASE InputThread
  BY <1>13 DEF InputThread, Visit, AddPackage, AddAgain, InputEnds
<1>14. CASE OutputThread
  BY <1>14 DEF OutputThread, Play, OutputOpens, OutputEnds
<1>15. CASE UNCHANGED vars
  BY <1>15 DEF vars
<1> QED BY <1>1, <1>2, <1>3, <1>4, <1>5, <1>6, <1>7, <1>8, <1>9, <1>10, <1>11, <1>12, <1>13,
           <1>14, <1>15 DEF Next, Caller, CmdThread

(* A step that leaves queue, path and history alone and neither begins a    *)
(* STOP nor lets the decoder run keeps Order.                                *)
LEMMA OrderUntouched ==
  ASSUME Order, queue' = queue, working' = working, overtaken' = overtaken,
         cmdpc' \in {"stop", "unset"} => cmdpc \in {"stop", "unset"},
         decoder_state \in {"INIT", "START"} => decoder_state' \in {"INIT", "START"}
  PROVE  Order'
BY DEF Order, Queued

(* A patch that is made or freed has no command in its queue. *)
LEMMA FreshOrder ==
  ASSUME NEW thread \in {"none", "top"}, FreshPatch(thread)
  PROVE  Order'
<1>1. DOMAIN queue' = {}
  BY DEF FreshPatch
<1> QED BY <1>1 DEF FreshPatch, Order, Queued

(* A command is added when no STOP is being carried out; START sees whether *)
(* one waits.                                                                *)
LEMMA SendOrder ==
  ASSUME TypeOK, Order, NEW c \in Cmd, NEW p \in Path, SendCmd(c, p)
  PROVE  Order'
<1> USE DEF TypeOK, Data
<1>1. /\ cmdpc \notin {"stop", "unset"} /\ cmdpc' \notin {"stop", "unset"}
      /\ decoder_state' = decoder_state
  BY DEF SendCmd, MutexHeld, Signal
<1>2. NoPath \notin Path
  BY DtvAssumption DEF NoPath, Path
<1>3. CASE queue' = queue
  <2>1. c # "START"
    BY <1>3, Appended DEF SendCmd
  <2> QED BY <1>1, <1>3, <2>1, OrderUntouched DEF SendCmd
<1>4. CASE queue' = Append(queue, c)
  <2> PICK q \in Seq(Cmd) : q = queue
    OBVIOUS
  <2>1. /\ DOMAIN queue' = 1 .. Len(q) + 1 /\ DOMAIN queue = 1 .. Len(q) /\ Len(q) \in Nat
        /\ \A k \in 1 .. Len(q) : queue'[k] = queue[k]
        /\ queue'[Len(q) + 1] = c
    BY <1>4, Appended
  <2>2. working' # NoPath
    <3>1. CASE c = "START"
      BY <1>2, <3>1 DEF SendCmd
    <3>2. CASE c # "START"
      <4>1. p = working' \/ queue' = queue
        BY DEF SendCmd
      <4>2. queue' # queue
        BY <2>1
      <4> QED BY <1>2, <4>1, <4>2
    <3> QED BY <3>1, <3>2
  <2>3. CASE c = "START"
    <3>1. overtaken' = Queued("STOP")
      BY <2>3 DEF SendCmd
    <3>2. ASSUME NEW i \in DOMAIN queue', NEW j \in DOMAIN queue',
                 i < j, queue'[i] = "STOP", queue'[j] = "START"
          PROVE  overtaken'
      <4>1. i \in DOMAIN queue /\ queue[i] = "STOP"
        BY <2>1, <3>2
      <4> QED BY <3>1, <4>1 DEF Queued
    <3> QED BY <1>1, <2>2, <3>2 DEF Order
  <2>4. CASE c # "START"
    <3>1. overtaken' = overtaken
      BY <2>4 DEF SendCmd
    <3>2. ASSUME NEW i \in DOMAIN queue', NEW j \in DOMAIN queue',
                 i < j, queue'[i] = "STOP", queue'[j] = "START"
          PROVE  overtaken'
      <4>1. /\ i \in DOMAIN queue /\ queue[i] = "STOP"
            /\ j \in DOMAIN queue /\ queue[j] = "START"
        BY <2>1, <2>4, <3>2
      <4> QED BY <3>1, <3>2, <4>1 DEF Order
    <3> QED BY <1>1, <2>2, <3>2 DEF Order
  <2> QED BY <2>3, <2>4
<1> QED BY <1>3, <1>4 DEF SendCmd

(* Taking a command never brings a START forward past a STOP.                *)
LEMMA TakeOrder ==
  ASSUME TypeOK, Order, NEW state, NEW cmd \in Cmd, Take(state, cmd),
         working' = working, overtaken' = overtaken,
         decoder_state' = decoder_state \/ cmd # "STOP",
         cmdpc' = "top" \/ (cmdpc' = "stop" /\ cmd = "STOP"),
         decoder_state \in {"INIT", "START"} =>
           decoder_state' \in {"INIT", "START"} \/ cmd = "START"
  PROVE  Order'
<1> USE DEF TypeOK, Data
<1> PICK q \in Seq(Cmd) : q = queue
  OBVIOUS
<1>1. /\ DOMAIN queue' = 1 .. Len(q) - 1 /\ DOMAIN queue = 1 .. Len(q)
      /\ Len(q) \in Nat /\ Len(q) > 0 /\ queue[1] = cmd
      /\ \A k \in 1 .. Len(q) - 1 : queue'[k] = queue[k + 1]
  BY Taken DEF Take
<1>2. \A k \in DOMAIN queue' : k + 1 \in DOMAIN queue /\ 1 < k + 1 /\ queue'[k] = queue[k + 1]
  BY <1>1
<1>3. ASSUME NEW i \in DOMAIN queue', NEW j \in DOMAIN queue',
             i < j, queue'[i] = "STOP", queue'[j] = "START"
      PROVE  overtaken'
  <2>1. i + 1 < j + 1
    BY <1>1, <1>3
  <2> QED BY <1>2, <1>3, <2>1 DEF Order
<1>4. Queued("START")' => Queued("START")
  BY <1>2 DEF Queued
<1>5. cmdpc' \in {"stop", "unset"} /\ Queued("START")' => overtaken'
  <2> SUFFICES ASSUME cmd = "STOP", NEW k \in DOMAIN queue', queue'[k] = "START"
               PROVE  overtaken
    BY DEF Queued
  <2> QED BY <1>1, <1>2 DEF Order
<1>6. cmd = "START" => Queued("START")
  BY <1>1 DEF Queued
<1>7. working' = NoPath /\ ~overtaken' =>
        decoder_state' \in {"INIT", "START"} /\ ~Queued("START")'
  BY <1>4, <1>6 DEF Order
<1> QED BY <1>3, <1>5, <1>7 DEF Order

(* STOP unsets the path; the decoder starts over, and a START in the queue  *)
(* has overtaken the STOP.                                                   *)
LEMMA UnsetOrder == Order /\ Unset => Order'
<1> SUFFICES ASSUME Order, Unset PROVE Order'
  OBVIOUS
<1>1. /\ queue' = queue /\ decoder_state' = "INIT" /\ cmdpc = "unset" /\ cmdpc' = "top"
      /\ overtaken' <=> overtaken /\ Queued("START")
  BY DEF Unset
<1>2. Queued("START") <=> Queued("START")'
  BY <1>1 DEF Queued
<1>3. Queued("START") => overtaken
  BY <1>1 DEF Order
<1>4. ASSUME NEW i \in DOMAIN queue', NEW j \in DOMAIN queue',
             i < j, queue'[i] = "STOP", queue'[j] = "START"
      PROVE  overtaken'
  BY <1>1, <1>3, <1>4 DEF Queued
<1> QED BY <1>1, <1>2, <1>3, <1>4 DEF Order

(* Every step keeps Order. *)
LEMMA NextOrder == TypeOK /\ Order /\ [Next]_vars => Order'
<1> SUFFICES ASSUME TypeOK, Order, [Next]_vars PROVE Order'
  OBVIOUS
<1> USE DEF callerVars, demuxVars, cmdVars, inputVars, outputVars
<1>1. CASE Create \/ Joined
  <2>1. CASE FreshPatch("top") \/ FreshPatch("none")
    BY <2>1, FreshOrder
  <2>2. CASE Create /\ patch
    BY <2>2, OrderUntouched DEF Create
  <2> QED BY <1>1, <2>1, <2>2 DEF Create, Joined
<1>2. CASE HandleEvent \/ TakeLock
  BY <1>2, OrderUntouched DEF HandleEvent, TakeLock
<1>3. CASE Send
  BY <1>3, SendOrder DEF Send
<1>4. CASE Release
  BY <1>4, OrderUntouched DEF Release, Signal
<1>5. CASE Top \/ NoCmd \/ TimedOut
  BY <1>5, OrderUntouched DEF Top, NoCmd, TimedOut, Exit
<1>6. CASE StartDecoding
  BY <1>6, TakeOrder DEF StartDecoding, Cmd
<1>7. CASE Drop
  <2>1. \E state \in {"START", "RUNNING", "PAUSE"}, c \in Cmd : Take(state, c)
    BY <1>7 DEF Drop
  <2> QED BY <1>7, <2>1, TakeOrder DEF Drop
<1>8. CASE PauseOrResume
  <2>1. \/ Take("RUNNING", "PAUSE") /\ decoder_state = "RUNNING"
        \/ Take("PAUSE", "RESUME") /\ decoder_state = "PAUSE"
    BY <1>8 DEF PauseOrResume, Take
  <2> QED BY <1>8, <2>1, TakeOrder DEF PauseOrResume, Cmd
<1>9. CASE StopDecoding
  <2>1. Take("RUNNING", "STOP") \/ Take("PAUSE", "STOP")
    BY <1>9 DEF StopDecoding
  <2> QED BY <1>9, <2>1, TakeOrder DEF StopDecoding, Cmd
<1>10. CASE OutputJoined
  BY <1>10, OrderUntouched DEF OutputJoined
<1>11. CASE ExitInput \/ ExitOutput
  BY <1>11, OrderUntouched DEF ExitInput, ExitOutput
<1>12. CASE InputThread
  BY <1>12, OrderUntouched DEF InputThread, Visit, AddPackage, AddAgain, InputEnds
<1>13. CASE OutputThread
  BY <1>13, OrderUntouched DEF OutputThread, Play, OutputOpens, OutputEnds
<1>14. CASE UNCHANGED vars
  BY <1>14, OrderUntouched DEF vars
<1> QED BY <1>1, <1>2, <1>3, <1>4, <1>5, <1>6, <1>7, <1>8, <1>9, <1>10, <1>11, <1>12, <1>13,
           <1>14, UnsetOrder DEF Next, Caller, CmdThread

(* Every step keeps the invariant. *)
LEMMA NextIInv == IInv /\ [Next]_vars => IInv'
BY NextPlaces, NextFlags, NextData, NextThreads, NextOrder, NextTold, NextShared
   DEF IInv, TypeOK

(* Counts, list and queue are what their types allow.                        *)
THEOREM TypeCorrect == Spec => []TypeOK
<1>1. IInv => TypeOK
  BY DEF IInv
<1> QED BY InitIInv, NextIInv, <1>1, PTL DEF Spec

(* No thread outlives the patch it uses.                                     *)
THEOREM FreedAfterThreads == Spec => []FreedWithThreadsGone
<1>1. IInv => FreedWithThreadsGone
  BY DEF IInv, Threads, FreedWithThreadsGone
<1> QED BY InitIInv, NextIInv, <1>1, PTL DEF Spec

(* Every channel starts with an output of its own. *)
THEOREM ChannelsHaveOwnOutput == Spec => []NextChannelNewOutput
<1>1. IInv => NextChannelNewOutput
  BY DEF IInv
<1> QED BY InitIInv, NextIInv, <1>1, PTL DEF Spec

(* A call that waits, waits for somebody who can go on without it.           *)
THEOREM EventsGoOn == Spec => []EventGoesOn
<1>1. IInv => EventGoesOn
  <2> SUFFICES ASSUME IInv PROVE EventGoesOn
    OBVIOUS
  <2> USE DEF IInv, TypeOK, Places, Threads, Told
  <2>1. pc = "lock" => dtv_lock = "free" \/ input = "add"
    OBVIOUS
  <2>2. ASSUME pc \in {"cmd", "join"} PROVE CmdThreadAnswers
    <3>1. cmdpc # "none"
      BY <2>2
    <3>2. cmdpc \in {"stop", "exitOut"} => OutputAnswers
      BY DEF OutputAnswers
    <3>3. cmdpc = "exitIn" => InputAnswers
      BY DEF InputAnswers
    <3> QED BY <3>1, <3>2, <3>3 DEF CmdThreadAnswers
  <2> QED BY <2>1, <2>2 DEF EventGoesOn
<1> QED BY InitIInv, NextIInv, <1>1, PTL DEF Spec

(* Unless a START overtook a STOP, the commands of what runs are accepted.  *)
THEOREM RunningIsControlled == Spec => []RunningCanBeStopped
<1>1. IInv => RunningCanBeStopped
  BY DEF IInv, TypeOK, Data, Order, RunningCanBeStopped
<1> QED BY InitIInv, NextIInv, <1>1, PTL DEF Spec
-----------------------------------------------------------------------------
(* The refinement of DtvChannel.                                            *)

(* A patch that is not there has nothing in it, and an output is told to    *)
(* end only by who then joins it. *)
Rests ==
  /\ ~patch => queue = <<>> /\ decoder_state = "INIT"
  /\ output \in {"open", "run"} /\ output_exit => cmdpc \in {"stop", "exitOut"}

LEMMA InitRests == Init => Rests
BY DEF Init, Rests

LEMMA NextRests == IInv /\ Rests /\ [Next]_vars => Rests'
<1> SUFFICES ASSUME IInv, Rests, [Next]_vars PROVE Rests'
  OBVIOUS
<1> USE DEF Rests, callerVars, demuxVars, cmdVars, inputVars, outputVars
<1>1. Places /\ Threads /\ Told /\ NextChannelNewOutput
  BY DEF IInv, TypeOK
<1>2. CASE Create \/ Joined
  BY <1>1, <1>2 DEF Create, Joined, FreshPatch, Threads
<1>3. CASE HandleEvent \/ TakeLock
  BY <1>3 DEF HandleEvent, TakeLock
<1>4. CASE Send
  BY <1>1, <1>4 DEF Send, SendCmd, Signal, Told
<1>5. CASE Release
  BY <1>5 DEF Release, Signal
<1>6. CASE Top
  BY <1>1, <1>6 DEF Top, Exit, Threads
<1>7. CASE NoCmd \/ TimedOut
  BY <1>7 DEF NoCmd, TimedOut
<1>8. CASE StartDecoding
  BY <1>1, <1>8 DEF StartDecoding, Take, CreateOutput, Threads, NextChannelNewOutput
<1>9. CASE Drop \/ PauseOrResume
  BY <1>1, <1>9 DEF Drop, PauseOrResume, Take, Threads
<1>10. CASE StopDecoding
  BY <1>1, <1>10 DEF StopDecoding, Take, Threads
<1>11. CASE OutputJoined \/ Unset
  BY <1>1, <1>11 DEF OutputJoined, Unset, JoinOutput, Threads
<1>12. CASE ExitInput \/ ExitOutput
  BY <1>12 DEF ExitInput, ExitOutput, JoinOutput
<1>13. CASE InputThread
  BY <1>13 DEF InputThread, Visit, AddPackage, AddAgain, InputEnds
<1>14. CASE OutputThread
  BY <1>14 DEF OutputThread, Play, OutputOpens, OutputEnds
<1>15. CASE UNCHANGED vars
  BY <1>15 DEF vars
<1> QED BY <1>2, <1>3, <1>4, <1>5, <1>6, <1>7, <1>8, <1>9, <1>10, <1>11, <1>12, <1>13,
           <1>14, <1>15 DEF Next, Caller, CmdThread

(* A step that the caller of the channel does not notice.                   *)
LEMMA Unnoticed ==
  ASSUME UNCHANGED <<patch, cmd_exit, queue>>, ChannelState' = ChannelState, Sounds' = Sounds
  PROVE  [Channel!Next]_(Channel!vars)
BY DEF Channel!vars

(* Calls make, feed and release the channel, or leave it as it is.          *)
LEMMA CallerImplements ==
  ASSUME IInv, Rests, Caller
  PROVE  [Channel!Next]_(Channel!vars)
<1> USE DEF callerVars, demuxVars, cmdVars, inputVars, outputVars
<1>1. Places /\ Threads /\ Told /\ patch \in BOOLEAN /\ cmd_exit \in BOOLEAN
  BY DEF IInv, TypeOK, Flags
<1>2. CASE Create
  <2>1. CASE patch
    <3>1. patch' = patch
      BY <1>1, <1>2, <2>1 DEF Create
    <3>2. UNCHANGED <<cmd_exit, queue, cmdpc, decoder_state, output>>
      BY <1>2, <2>1 DEF Create
    <3> QED BY <3>1, <3>2, Unnoticed DEF ChannelState, Sounds
  <2>2. CASE ~patch
    <3>1. /\ queue = <<>> /\ decoder_state = "INIT" /\ cmdpc = "none"
          /\ ~cmd_exit
      BY <1>1, <2>2 DEF Rests, Threads, Told
    <3>2. /\ patch' /\ cmdpc' = "top" /\ decoder_state' = "INIT" /\ queue' = <<>>
          /\ output' = output
      BY <1>2, <2>2 DEF Create, FreshPatch
    <3>3. cmd_exit' = cmd_exit /\ patch' = TRUE
      BY <1>1, <1>2, <2>2, <3>1 DEF Create, FreshPatch
    <3>4. ChannelState' = ChannelState /\ Sounds' = Sounds
      BY <3>1, <3>2 DEF ChannelState, Sounds
    <3>5. Channel!Create
      BY <2>2, <3>1, <3>2, <3>3, <3>4 DEF Channel!Create
    <3> QED BY <3>5 DEF Channel!Next
  <2> QED BY <2>1, <2>2
<1>3. CASE HandleEvent \/ TakeLock
  <2>1. UNCHANGED <<patch, cmd_exit, queue, cmdpc, decoder_state, output>>
    BY <1>3 DEF HandleEvent, TakeLock
  <2> QED BY <2>1, Unnoticed DEF ChannelState, Sounds
<1>4. ASSUME NEW c \in Cmd, NEW p \in Path, SendCmd(c, p)
      PROVE  [Channel!Next]_(Channel!vars)
  <2>1. /\ UNCHANGED <<patch, cmd_exit, decoder_state, output>>
        /\ cmdpc' = cmdpc \/ (cmdpc = "wait" /\ cmdpc' = "top")
    BY <1>4 DEF SendCmd, Signal
  <2>2. ChannelState' = ChannelState /\ Sounds' = Sounds
    BY <2>1 DEF ChannelState, Sounds
  <2>3. CASE queue' = queue
    BY <2>1, <2>2, <2>3, Unnoticed
  <2>4. CASE queue' = Append(queue, c)
    <3>1. patch /\ ~cmd_exit
      BY <1>1, <1>4 DEF SendCmd, Told
    <3>2. Channel!Accept(c)
      BY <2>1, <2>2, <2>4, <3>1 DEF Channel!Accept
    <3>3. c \in Channel!Cmd
      BY DEF Channel!Cmd, Cmd
    <3> QED BY <3>2, <3>3 DEF Channel!Next
  <2> QED BY <1>4, <2>3, <2>4 DEF SendCmd
<1>5. CASE Release
  <2>1. /\ UNCHANGED <<patch, decoder_state, output, queue>>
        /\ cmdpc' = cmdpc \/ (cmdpc = "wait" /\ cmdpc' = "top")
    BY <1>5 DEF Release, Signal
  <2>2. ChannelState' = ChannelState /\ Sounds' = Sounds
    BY <2>1 DEF ChannelState, Sounds
  <2>3. CASE cmd_exit' = cmd_exit
    BY <2>1, <2>2, <2>3, Unnoticed
  <2>4. CASE cmd_exit' = TRUE
    <3>1. patch /\ ~cmd_exit
      BY <1>1, <1>5 DEF Release, Told, IInv, Shared
    <3>2. Channel!Release
      BY <2>1, <2>2, <2>4, <3>1 DEF Channel!Release
    <3> QED BY <3>2 DEF Channel!Next
  <2> QED BY <1>5, <2>3, <2>4 DEF Release
<1>6. CASE Joined
  <2>1. cmd_exit /\ output = "none" /\ cmdpc = "ended"
    BY <1>1, <1>6 DEF Joined, Told, Threads
  <2>2. /\ patch' = FALSE /\ cmd_exit' = FALSE /\ queue' = <<>>
        /\ decoder_state' = "INIT" /\ cmdpc' = "none" /\ output' = output
    BY <1>6 DEF Joined, FreshPatch
  <2>3. ChannelState' = "off" /\ Sounds' = Sounds /\ ~Sounds
    BY <2>1, <2>2 DEF ChannelState, Sounds
  <2>4. Channel!Close
    BY <2>1, <2>2, <2>3 DEF Channel!Close
  <2> QED BY <2>4 DEF Channel!Next, Channel!Finish
<1> QED BY <1>2, <1>3, <1>4, <1>5, <1>6 DEF Caller, Send

(* The command thread obeys the first command, whatever the state it finds. *)
LEMMA ObeyImplements ==
  ASSUME IInv, Rests, StartDecoding \/ Drop \/ PauseOrResume \/ StopDecoding
  PROVE  [Channel!Next]_(Channel!vars)
<1> USE DEF callerVars, demuxVars, cmdVars, inputVars, outputVars
<1>1. /\ cmdpc = "take" /\ queue # <<>> /\ queue' = Tail(queue)
      /\ UNCHANGED <<patch, cmd_exit>>
  BY DEF StartDecoding, Drop, PauseOrResume, StopDecoding, Take
<1>2. patch = TRUE
  BY <1>1 DEF IInv, Threads, TypeOK, Flags
<1>3. Sounds' = Sounds
  <2>1. CASE StartDecoding
    BY <2>1 DEF StartDecoding, Take, CreateOutput, Sounds, IInv, NextChannelNewOutput
  <2>2. CASE Drop \/ PauseOrResume \/ StopDecoding
    BY <2>2 DEF Drop, PauseOrResume, StopDecoding, Sounds
  <2> QED BY <2>1, <2>2
<1>4. ChannelState # "ending" /\ ChannelState' = Channel!After(Head(queue))
  <2> USE <1>1 DEF ChannelState, Channel!After, Take
  <2>1. CASE StartDecoding
    <3>1. /\ decoder_state = "START" /\ Head(queue) = "START"
          /\ decoder_state' = "RUNNING" /\ cmdpc' = "top"
      BY <2>1 DEF StartDecoding
    <3> QED BY <3>1
  <2>2. CASE Drop
    <3>1. decoder_state' = decoder_state /\ cmdpc' = "top"
      BY <2>2 DEF Drop
    <3>2. \/ decoder_state = "START" /\ Head(queue) # "START"
          \/ decoder_state = "RUNNING" /\ Head(queue) \in {"START", "RESUME"}
          \/ decoder_state = "PAUSE" /\ Head(queue) \in {"START", "PAUSE"}
      BY <2>2 DEF Drop
    <3> QED BY <3>1, <3>2
  <2>3. CASE PauseOrResume
    <3>1. /\ cmdpc' = "top"
          /\ \/ /\ decoder_state = "RUNNING" /\ Head(queue) = "PAUSE"
                /\ decoder_state' = "PAUSE"
             \/ /\ decoder_state = "PAUSE" /\ Head(queue) = "RESUME"
                /\ decoder_state' = "RUNNING"
      BY <2>3 DEF PauseOrResume
    <3> QED BY <3>1
  <2>4. CASE StopDecoding
    <3>1. /\ cmdpc' = "stop" /\ decoder_state \in {"RUNNING", "PAUSE"}
          /\ Head(queue) = "STOP"
      BY <2>4 DEF StopDecoding
    <3>2. ChannelState' = "ending" /\ ChannelState \in {"on", "paused"}
      BY <3>1
    <3> QED BY <3>1, <3>2
  <2> QED BY <2>1, <2>2, <2>3, <2>4
<1>5. Channel!Obey
  BY <1>1, <1>2, <1>3, <1>4 DEF Channel!Obey
<1> QED BY <1>5 DEF Channel!Next

(* What else the command thread does shows only when a STOP is over.        *)
LEMMA CmdThreadImplements ==
  ASSUME IInv, Rests, CmdThread
  PROVE  [Channel!Next]_(Channel!vars)
<1> USE DEF callerVars, demuxVars, cmdVars, inputVars, outputVars
<1>1. CASE Top \/ NoCmd \/ TimedOut \/ OutputJoined \/ ExitInput \/ ExitOutput
  <2>1. UNCHANGED <<patch, cmd_exit, queue>>
    BY <1>1 DEF Top, NoCmd, TimedOut, OutputJoined, ExitInput, ExitOutput
  <2>2. ChannelState' = ChannelState
    BY <1>1 DEF Top, Exit, NoCmd, TimedOut, OutputJoined, ExitInput, ExitOutput, ChannelState
  <2>3. Sounds' = Sounds
    BY <1>1 DEF Top, NoCmd, TimedOut, OutputJoined, ExitInput, ExitOutput, JoinOutput, Sounds
  <2> QED BY <2>1, <2>2, <2>3, Unnoticed
<1>2. CASE Unset
  <2>1. /\ UNCHANGED <<patch, cmd_exit, queue, output>>
        /\ cmdpc = "unset" /\ cmdpc' = "top" /\ decoder_state' = "INIT"
    BY <1>2 DEF Unset
  <2>2. output = "none"
    BY <2>1 DEF IInv, Threads
  <2>3. ChannelState = "ending" /\ ChannelState' = "off"
    BY <2>1 DEF ChannelState
  <2>4. ~Sounds /\ Sounds' = Sounds
    BY <2>1, <2>2 DEF Sounds
  <2>5. Channel!End
    BY <2>1, <2>3, <2>4 DEF Channel!End
  <2> QED BY <2>5 DEF Channel!Next, Channel!Finish
<1> QED BY <1>1, <1>2, ObeyImplements DEF CmdThread

(* An output begins to sound for a channel that was started, and ends when  *)
(* it was told to, which only a STOP and the release of the patch do.       *)
LEMMA OutputImplements ==
  ASSUME IInv, Rests, OutputThread
  PROVE  [Channel!Next]_(Channel!vars)
<1> USE DEF callerVars, demuxVars, cmdVars, inputVars, outputVars
<1>1. /\ UNCHANGED <<patch, cmd_exit, queue, cmdpc, decoder_state>>
      /\ ChannelState' = ChannelState
  BY DEF OutputThread, Play, OutputOpens, OutputEnds, ChannelState
<1>2. CASE Sounds' = Sounds
  BY <1>1, <1>2, Unnoticed
<1>3. CASE output = "open" /\ output' = "run"
  <2>1. ChannelState # "off"
    BY <1>3 DEF IInv, TypeOK, Places, NextChannelNewOutput, ChannelState
  <2>2. ~Sounds /\ Sounds' = TRUE
    BY <1>3 DEF Sounds
  <2>3. Channel!Sound
    BY <1>1, <2>1, <2>2 DEF Channel!Sound
  <2> QED BY <2>3 DEF Channel!Next
<1>4. CASE OutputEnds
  <2>1. output = "run" /\ output_exit /\ output' = "ended"
    BY <1>4 DEF OutputEnds
  <2>2. ChannelState = "ending" \/ cmd_exit
    BY <2>1 DEF IInv, Told, Rests, ChannelState
  <2>3. Sounds /\ Sounds' = FALSE
    BY <2>1 DEF Sounds
  <2>4. Channel!Silence
    BY <1>1, <2>2, <2>3 DEF Channel!Silence
  <2> QED BY <2>4 DEF Channel!Next, Channel!Finish
<1>5. OutputOpens => Sounds' = Sounds \/ (output = "open" /\ output' = "run")
  BY DEF OutputOpens, Sounds
<1>6. Play => Sounds' = Sounds
  BY DEF Play, Sounds
<1> QED BY <1>2, <1>3, <1>4, <1>5, <1>6 DEF OutputThread

(* A patch with its threads, locks and lists does only what a channel does: *)
(* commands are obeyed in order, each once, and sound begins and ends only  *)
(* as they ask. The fairness of DtvChannel is left to TLC.                   *)
THEOREM ImplementsChannelSafety ==
  Spec => Channel!Init /\ [][Channel!Next]_(Channel!vars)
<1>1. Init => Channel!Init
  BY DEF Init, Channel!Init, ChannelState, Sounds
<1>2. IInv /\ Rests /\ [Next]_vars => [Channel!Next]_(Channel!vars)
  <2> SUFFICES ASSUME IInv, Rests, [Next]_vars PROVE [Channel!Next]_(Channel!vars)
    OBVIOUS
  <2>1. CASE InputThread
    <3>1. UNCHANGED <<patch, cmd_exit, queue, cmdpc, decoder_state, output>>
      BY <2>1 DEF InputThread, Visit, AddPackage, AddAgain, InputEnds, callerVars, cmdVars,
                  outputVars
    <3> QED BY <3>1, Unnoticed DEF ChannelState, Sounds
  <2>2. CASE UNCHANGED vars
    <3>1. UNCHANGED <<patch, cmd_exit, queue, cmdpc, decoder_state, output>>
      BY <2>2 DEF vars, callerVars, cmdVars, outputVars
    <3> QED BY <3>1, Unnoticed DEF ChannelState, Sounds
  <2> QED BY <2>1, <2>2, CallerImplements, CmdThreadImplements, OutputImplements DEF Next
<1> QED BY <1>1, <1>2, InitIInv, NextIInv, InitRests, NextRests, PTL DEF Spec
=============================================================================
