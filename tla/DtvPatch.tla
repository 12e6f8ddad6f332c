----------------------------- MODULE DtvPatch ------------------------------
(***************************************************************************)
(* The DTV patch of the audio HAL: audio_hw_dtv.c with audio_dtv_utils.c,  *)
(* built for several demuxes (is_multi_demux, skip_amadec_flag).           *)
(*                                                                         *)
(* The caller creates a patch, opens the demux of a path and sends START,  *)
(* PAUSE, RESUME and STOP, which are queued for the command thread. START  *)
(* makes an input thread, which reads every open demux and adds the        *)
(* packages of the working path to a list, and an output thread, which     *)
(* plays the list. STOP ends the output thread, the release of the patch   *)
(* all three. dtv_lock guards the demuxes, dtv_cmd_process_mutex the       *)
(* queue; the command thread holds the latter while it joins the output    *)
(* thread. Calls come from one thread at a time, as AudioFlinger makes     *)
(* them. That the command thread can be made is assumed (see Create).      *)
(***************************************************************************)
EXTENDS Integers, Sequences

CONSTANTS
  NumPaths,   \* DVB_DEMUX_SUPPORT_MAX_NUM
  ListSize,   \* INPUT_PACKAGE_MAXCOUNT
  MaxCmds,    \* bound: commands in the queue when another is sent
  MaxCount,   \* bound: dvb_path_count
  Faulty      \* what may fail: "thread" (making the input or output thread), "stream" (its stream)

ASSUME DtvAssumption ==
  /\ NumPaths \in Nat \ {0}
  /\ ListSize \in Nat \ {0}
  /\ MaxCmds \in Nat
  /\ MaxCount \in Nat

Path   == 0 .. NumPaths - 1
NoPath == -1
Cmd    == {"START", "PAUSE", "RESUME", "STOP"}

VARIABLES
  pc,             \* the caller: "idle", "lock", "cmd" (waits for the mutex) or "join"
  count,          \* dvb_path_count
  patch,          \* aml_dev->audio_patch is there
  dtv_lock,       \* who holds it: "free", "caller" or "input"
  opened,         \* the paths with a demux_handle
  working,        \* demux_index_working
  queue,          \* dtv_cmd_list
  cmdpc,          \* where the command thread is
  cmd_exit,       \* cmd_process_thread_exit
  decoder_state,  \* dtv_decoder_state
  input,          \* where the input thread is; "ended" until it is joined
  at,             \* its path_index
  input_exit,     \* input_thread_exit
  output,         \* where the output thread is; "ended" until it is joined
  output_exit,    \* output_thread_exit
  list,           \* packages in dtv_package_list
  overtaken       \* history: a STOP was queued when the last START was sent

callerVars == <<pc, count, patch>>
demuxVars  == <<dtv_lock, opened>>
cmdVars    == <<cmdpc, cmd_exit, decoder_state>>
inputVars  == <<input, at, input_exit>>
outputVars == <<output, output_exit>>
vars == <<callerVars, demuxVars, working, queue, cmdVars, inputVars, outputVars, list, overtaken>>

Places ==
  /\ pc \in {"idle", "lock", "cmd", "join"}
  /\ dtv_lock \in {"free", "caller", "input"}
  /\ cmdpc \in {"none", "top", "take", "wait", "stop", "unset", "exitIn", "exitOut", "ended"}
  /\ decoder_state \in {"INIT", "START", "RUNNING", "PAUSE"}
  /\ input \in {"none", "scan", "add", "full", "ended"}
  /\ output \in {"none", "open", "run", "ended"}

Flags == {patch, cmd_exit, input_exit, output_exit, overtaken} \subseteq BOOLEAN

Data ==
  /\ count \in 0 .. MaxCount
  /\ opened \subseteq Path
  /\ working \in Path \cup {NoPath}
  /\ at \in Path
  /\ queue \in Seq(Cmd)
  /\ list \in 0 .. ListSize

(* Where the caller and the threads are, the flags of the patch and what it *)
(* holds: never more packages than the list takes.                          *)
TypeOK == Places /\ Flags /\ Data

(* The device is zeroed when it is opened: the working path starts as 0.   *)
Init ==
  /\ pc = "idle" /\ count = 0 /\ patch = FALSE
  /\ dtv_lock = "free" /\ opened = {} /\ working = 0 /\ queue = <<>>
  /\ cmdpc = "none" /\ cmd_exit = FALSE /\ decoder_state = "INIT"
  /\ input = "none" /\ at = 0 /\ input_exit = FALSE
  /\ output = "none" /\ output_exit = FALSE /\ list = 0
  /\ overtaken = FALSE

(* pthread_cond_signal: it reaches the command thread only while it waits. *)
Signal == cmdpc' = IF cmdpc = "wait" THEN "top" ELSE cmdpc

(***************************************************************************)
(* The caller.                                                             *)
(***************************************************************************)

(* A patch is zeroed when it is made. *)
FreshPatch(thread) ==
  /\ cmdpc' = thread /\ cmd_exit' = FALSE /\ decoder_state' = "INIT"
  /\ queue' = <<>> /\ list' = 0 /\ input_exit' = FALSE /\ output_exit' = FALSE
  /\ overtaken' = FALSE

(* create_dtv_patch: a patch that is there already is shared. When the     *)
(* command thread cannot be made the code frees the patch, but keeps it as *)
(* aml_dev->audio_patch and leaves the count raised (audio_hw_dtv.c:3726,  *)
(* 3768, 3828); what the next call finds there is undefined. The model     *)
(* leaves that failure out: it speaks of patches that were made.           *)
Create ==
  /\ pc = "idle" /\ count < MaxCount
  /\ count' = count + 1
  /\ patch' = TRUE
  /\ IF patch
       THEN UNCHANGED <<cmdVars, queue, list, input_exit, output_exit, overtaken>>
       ELSE FreshPatch("top")
  /\ UNCHANGED <<pc, demuxVars, working, input, at, output>>

(* dtv_patch_handle_event begins with a control command. Which one shows   *)
(* when the lock or locks that it waits for are held.                      *)
HandleEvent ==
  /\ pc = "idle" /\ Len(queue) <= MaxCmds
  /\ pc' = "lock"
  /\ UNCHANGED <<count, patch, demuxVars, working, queue, cmdVars, inputVars,
                 outputVars, list, overtaken>>

(* It has dtv_lock: OPEN and CLOSE are done at once, another command is    *)
(* dropped without a patch and needs the mutex of the queue with one.      *)
OpenDemux(p)  == opened' = opened \cup {p} /\ pc' = "idle" /\ UNCHANGED dtv_lock
CloseDemux(p) == opened' = opened \ {p} /\ pc' = "idle" /\ UNCHANGED dtv_lock
DropCmd == ~patch /\ pc' = "idle" /\ UNCHANGED <<dtv_lock, opened>>
KeepLock == patch /\ pc' = "cmd" /\ dtv_lock' = "caller" /\ UNCHANGED opened

TakeLock ==
  /\ pc = "lock" /\ dtv_lock = "free"
  /\ (\E p \in Path : OpenDemux(p) \/ CloseDemux(p)) \/ DropCmd \/ KeepLock
  /\ UNCHANGED <<count, patch, working, queue, cmdVars, inputVars, outputVars, list,
                 overtaken>>

(* The command thread holds dtv_cmd_process_mutex. *)
MutexHeld == cmdpc \in {"take", "stop", "unset"}

Queued(c) == \E k \in DOMAIN queue : queue[k] = c

(* START makes its path the working one; a command for another is refused. *)
SendCmd(c, p) ==
  /\ pc = "cmd" /\ ~MutexHeld
  /\ working' = IF c = "START" THEN p ELSE working
  /\ IF p = working'
       THEN queue' = Append(queue, c) /\ Signal
       ELSE UNCHANGED <<queue, cmdpc>>
  /\ dtv_lock' = "free" /\ pc' = "idle"
  /\ overtaken' = IF c = "START" THEN Queued("STOP") ELSE overtaken
  /\ UNCHANGED <<count, patch, opened, cmd_exit, decoder_state,
                 inputVars, outputVars, list>>

(* release_dtv_patch: the last user has the command thread end, with a     *)
(* signal that takes no mutex, and joins it.                               *)
Release ==
  /\ pc = "idle" /\ count > 0
  /\ count' = count - 1
  /\ IF count = 1
       THEN pc' = "join" /\ cmd_exit' = TRUE /\ Signal
       ELSE UNCHANGED <<pc, cmd_exit, cmdpc>>
  /\ UNCHANGED <<patch, demuxVars, working, queue, decoder_state,
                 inputVars, outputVars, list, overtaken>>

(* The patch is freed, and what it held with it. *)
Joined ==
  /\ pc = "join" /\ cmdpc = "ended"
  /\ pc' = "idle" /\ patch' = FALSE
  /\ FreshPatch("none")
  /\ UNCHANGED <<count, demuxVars, working, input, at, output>>

(***************************************************************************)
(* The command thread: audio_dtv_patch_process_threadloop_v2.              *)
(***************************************************************************)

(* release_dtv_input_stream_thread and release_dtv_output_stream_thread:   *)
(* the flag is raised, then the thread joined, if there is one.            *)
EndInput  == input_exit'  = (input_exit \/ input # "none")
EndOutput == output_exit' = (output_exit \/ output # "none")
JoinInput  == input \in {"none", "ended"} /\ input' = "none"
JoinOutput == output \in {"none", "ended"} /\ output' = "none"

Exit == cmdpc' = "exitIn" /\ EndInput

(* The head of the loop: cmd_process_thread_exit, which is looked at again  *)
(* under the mutex unless paused, then the mutex.                          *)
Top ==
  /\ cmdpc = "top"
  /\ \/ cmd_exit /\ Exit /\ UNCHANGED decoder_state
     \/ /\ ~cmd_exit /\ decoder_state = "INIT"
        /\ decoder_state' = "START" /\ UNCHANGED <<cmdpc, input_exit>>
     \/ /\ ~cmd_exit /\ decoder_state # "INIT"
        /\ cmdpc' = "take" /\ UNCHANGED <<input_exit, decoder_state>>
  /\ UNCHANGED <<callerVars, demuxVars, working, queue, cmd_exit, input, at,
                 outputVars, list, overtaken>>

(* Nothing is queued: pthread_cond_timedwait gives the mutex up. *)
NoCmd ==
  /\ cmdpc = "take" /\ queue = <<>>
  /\ cmdpc' = "wait"
  /\ UNCHANGED <<callerVars, demuxVars, working, queue, cmd_exit, decoder_state,
                 inputVars, outputVars, list, overtaken>>

(* A variant: the thread waits again as long as nothing is queued. *)
WaitsAgain ==
  /\ cmdpc = "wait"
  /\ cmdpc' = IF queue = <<>> THEN "wait" ELSE "top"
  /\ UNCHANGED <<callerVars, demuxVars, working, queue, cmd_exit, decoder_state,
                 inputVars, outputVars, list, overtaken>>

(* After three seconds without a signal. *)
TimedOut ==
  /\ cmdpc = "wait"
  /\ cmdpc' = "top"
  /\ UNCHANGED <<callerVars, demuxVars, working, queue, cmd_exit, decoder_state,
                 inputVars, outputVars, list, overtaken>>

Take(state, cmd) ==
  /\ cmdpc = "take" /\ queue # <<>> /\ decoder_state = state
  /\ Head(queue) = cmd /\ queue' = Tail(queue)

(* create_dtv_input_stream_thread: an input thread outlives STOP. It       *)
(* empties the list when it begins.                                        *)
CreateInput ==
  \/ /\ input = "none"
     /\ input' = "scan" /\ at' = 0 /\ input_exit' = FALSE /\ list' = 0
  \/ /\ input = "none" /\ "thread" \in Faulty
     /\ input_exit' = FALSE /\ UNCHANGED <<input, at, list>>
  \/ input # "none" /\ UNCHANGED <<inputVars, list>>

CreateOutput ==
  \/ output = "none" /\ output' = "open" /\ output_exit' = FALSE
  \/ output = "none" /\ "thread" \in Faulty /\ output_exit' = FALSE /\ UNCHANGED output
  \/ output # "none" /\ UNCHANGED outputVars

StartDecoding ==
  /\ Take("START", "START")
  /\ decoder_state' = "RUNNING" /\ cmdpc' = "top"
  /\ CreateInput
  /\ CreateOutput
  /\ UNCHANGED <<callerVars, demuxVars, working, cmd_exit, overtaken>>

(* "live state unsupport": a command that the state has no use for. *)
Drop ==
  /\ \E c \in Cmd :
       \/ Take("START", c) /\ c # "START"
       \/ Take("RUNNING", c) /\ c \in {"START", "RESUME"}
       \/ Take("PAUSE", c) /\ c \in {"START", "PAUSE"}
  /\ cmdpc' = "top"
  /\ UNCHANGED <<callerVars, demuxVars, working, cmd_exit, decoder_state,
                 inputVars, outputVars, list, overtaken>>

PauseOrResume ==
  /\ \/ Take("RUNNING", "PAUSE") /\ decoder_state' = "PAUSE"
     \/ Take("PAUSE", "RESUME") /\ decoder_state' = "RUNNING"
  /\ cmdpc' = "top"
  /\ UNCHANGED <<callerVars, demuxVars, working, cmd_exit, inputVars, outputVars, list,
                 overtaken>>

(* A variant: the output thread is joined before it is told to end. *)
StopUntold ==
  /\ Take("RUNNING", "STOP") \/ Take("PAUSE", "STOP")
  /\ cmdpc' = "stop"
  /\ UNCHANGED <<callerVars, demuxVars, working, cmd_exit, decoder_state,
                 inputVars, outputVars, list, overtaken>>

(* STOP, running or paused, joins the output thread under the mutex. *)
StopDecoding ==
  /\ Take("RUNNING", "STOP") \/ Take("PAUSE", "STOP")
  /\ cmdpc' = "stop"
  /\ EndOutput
  /\ UNCHANGED <<callerVars, demuxVars, working, cmd_exit, decoder_state,
                 inputVars, output, list, overtaken>>

(* A variant: STOP after PAUSE does not release the output thread. *)
OutputJoinedUnlessPaused ==
  /\ cmdpc = "stop"
  /\ IF decoder_state = "PAUSE" THEN UNCHANGED output ELSE JoinOutput
  /\ list' = IF decoder_state = "RUNNING" THEN 0 ELSE list
  /\ cmdpc' = "unset"
  /\ UNCHANGED <<callerVars, demuxVars, working, queue, cmd_exit, decoder_state,
                 inputVars, output_exit, overtaken>>

(* dtv_package_list_flush, but not when paused: it might freeze. *)
OutputJoined ==
  /\ cmdpc = "stop" /\ JoinOutput
  /\ list' = IF decoder_state = "RUNNING" THEN 0 ELSE list
  /\ cmdpc' = "unset"
  /\ UNCHANGED <<callerVars, demuxVars, working, queue, cmd_exit, decoder_state,
                 inputVars, output_exit, overtaken>>

(* A variant: the decoder's state is not reset. *)
UnsetPathOnly ==
  /\ cmdpc = "unset"
  /\ working' = NoPath /\ cmdpc' = "top"
  /\ UNCHANGED <<callerVars, demuxVars, queue, cmd_exit, decoder_state, inputVars,
                 outputVars,
                 list, overtaken>>

(* The channel is over: no path is the working one. *)
Unset ==
  /\ cmdpc = "unset"
  /\ working' = NoPath /\ decoder_state' = "INIT" /\ cmdpc' = "top"
  /\ overtaken' = (overtaken /\ Queued("START"))
  /\ UNCHANGED <<callerVars, demuxVars, queue, cmd_exit, inputVars, outputVars, list>>

(* A variant: the input thread is told to end but not joined. *)
ExitWithoutInput ==
  /\ cmdpc = "exitIn"
  /\ cmdpc' = "exitOut" /\ EndOutput
  /\ UNCHANGED <<callerVars, demuxVars, working, queue, cmd_exit, decoder_state,
                 inputVars, output, list, overtaken>>

(* The end of the thread: the input thread, then the output thread. *)
ExitInput ==
  /\ cmdpc = "exitIn" /\ JoinInput
  /\ cmdpc' = "exitOut" /\ EndOutput
  /\ UNCHANGED <<callerVars, demuxVars, working, queue, cmd_exit, decoder_state,
                 at, input_exit, output, list, overtaken>>

ExitOutput ==
  /\ cmdpc = "exitOut" /\ JoinOutput
  /\ cmdpc' = "ended"
  /\ UNCHANGED <<callerVars, demuxVars, working, queue, cmd_exit, decoder_state,
                 inputVars, output_exit, list, overtaken>>

(***************************************************************************)
(* The input thread: audio_dtv_patch_input_threadloop.                     *)
(***************************************************************************)

NextPath == (at + 1) % NumPaths

(* One path under dtv_lock. A demux that is closed or has no data is left  *)
(* for the next, so is a package of a path that is not the working one     *)
(* (it is kept in demux_info or, out of date, freed); a package of the     *)
(* working path is to be added.                                            *)
Visit ==
  /\ input = "scan" /\ ~input_exit /\ dtv_lock = "free"
  /\ \/ at' = NextPath /\ UNCHANGED <<input, dtv_lock>>
     \/ /\ at \in opened /\ at = working
        /\ input' = "add" /\ dtv_lock' = "input" /\ UNCHANGED at
  /\ UNCHANGED <<callerVars, opened, working, queue, cmdVars, input_exit, outputVars,
                 list, overtaken>>

(* dtv_package_add, with dtv_lock; a full list is waited for without it.   *)
(* The loop also ends when the path no longer works.                       *)
Added == list < ListSize /\ list' = list + 1
Full  == list = ListSize /\ UNCHANGED list

AddPackage ==
  /\ input = "add"
  /\ dtv_lock' = "free"
  /\ IF input_exit \/ at # working
       THEN input' = "scan" /\ at' = NextPath /\ UNCHANGED list
       ELSE \/ Added /\ input' = "scan" /\ at' = NextPath
            \/ Full /\ input' = "full" /\ UNCHANGED at
  /\ UNCHANGED <<callerVars, opened, working, queue, cmdVars, input_exit, outputVars,
                 overtaken>>

AddAgain ==
  /\ input = "full" /\ dtv_lock = "free"
  /\ input' = "add" /\ dtv_lock' = "input"
  /\ UNCHANGED <<callerVars, opened, working, queue, cmdVars, at, input_exit,
                 outputVars, list, overtaken>>

(* The packages that are kept are freed and the list is flushed. *)
InputEnds ==
  /\ input = "scan" /\ input_exit /\ dtv_lock = "free"
  /\ list' = 0 /\ input' = "ended" /\ at' = 0
  /\ UNCHANGED <<callerVars, dtv_lock, opened, working, queue, cmdVars, input_exit,
                 outputVars, overtaken>>

(***************************************************************************)
(* The output thread: audio_dtv_patch_output_threadloop_v2.                *)
(***************************************************************************)
Play ==
  /\ output = "run" /\ ~output_exit /\ decoder_state # "PAUSE"
  /\ list > 0 /\ list' = list - 1
  /\ UNCHANGED <<callerVars, demuxVars, working, queue, cmdVars, inputVars, outputVars,
                 overtaken>>

(* adev_open_output_stream_new, which may fail: the thread ends then. *)
OutputOpens ==
  /\ output = "open"
  /\ output' \in IF "stream" \in Faulty THEN {"run", "ended"} ELSE {"run"}
  /\ UNCHANGED <<callerVars, demuxVars, working, queue, cmdVars, inputVars,
                 output_exit, list, overtaken>>

OutputEnds ==
  /\ output = "run" /\ output_exit
  /\ output' = "ended"
  /\ UNCHANGED <<callerVars, demuxVars, working, queue, cmdVars, inputVars,
                 output_exit, list, overtaken>>

(***************************************************************************)
Send   == \E c \in Cmd, p \in Path : SendCmd(c, p)
Caller == Create \/ HandleEvent \/ TakeLock \/ Send \/ Release \/ Joined

CmdThread ==
  \/ Top \/ NoCmd \/ TimedOut \/ StartDecoding \/ Drop \/ PauseOrResume
  \/ StopDecoding \/ OutputJoined \/ Unset \/ ExitInput \/ ExitOutput

InputThread  == Visit \/ AddPackage \/ AddAgain \/ InputEnds
OutputThread == Play \/ OutputOpens \/ OutputEnds

Next == Caller \/ CmdThread \/ InputThread \/ OutputThread

(* The threads run. The caller gets a mutex that is given up again and     *)
(* again. The command thread waits outside the one that Send needs. The    *)
(* input thread sleeps outside dtv_lock when there is nothing to read, the *)
(* list is full or a package was added, but with no demux open it gives    *)
(* the lock and takes it again at once (audio_hw_dtv.c:2798-2799): that    *)
(* the caller gets in then, SF of TakeLock, is assumed of the mutex, which *)
(* is not a fair one; it fails only for a caller that never runs in any of *)
(* infinitely many gaps.                                                   *)
Fairness ==
  /\ WF_vars(CmdThread)
  /\ WF_vars(InputThread)
  /\ WF_vars(OutputOpens \/ OutputEnds)
  /\ WF_vars(Joined)
  /\ SF_vars(TakeLock)
  /\ SF_vars(Send)

Spec == Init /\ [][Next]_vars /\ Fairness

(***************************************************************************)
(* Properties.                                                             *)
(***************************************************************************)

(* Once the patch is freed no thread is left to use it                     *)
(* (release_dtv_patch_l, audio_hw_dtv.c:3788-3807).                        *)
FreedWithThreadsGone == ~patch => cmdpc = "none" /\ input = "none" /\ output = "none"

(* A decoder that has yet to start has no output thread left from the      *)
(* channel before: the next channel opens an output of its own format      *)
(* (audio_hw_dtv.c:3504-3508).                                             *)
NextChannelNewOutput == decoder_state \in {"INIT", "START"} => output = "none"

(* Every call returns: nobody waits for a thread that waits for a mutex    *)
(* the waiter holds, or for a signal that was given before it listened.    *)
EventReturns == (pc # "idle") ~> (pc = "idle")

(* What that rests on, whoever is slow: the holder of dtv_lock can give it  *)
(* up, and the command thread, whom a caller waits for with dtv_lock or in  *)
(* a join, itself waits only for threads that have been told to end and     *)
(* that need no lock of the caller's (audio_hw_dtv.c:3443-3514, 3788-3807). *)
OutputAnswers == output = "run" => output_exit
InputAnswers  == input \in {"scan", "full"} => input_exit /\ dtv_lock = "free"

CmdThreadAnswers ==
  /\ cmdpc # "none"
  /\ cmdpc \in {"stop", "exitOut"} => OutputAnswers
  /\ cmdpc = "exitIn" => InputAnswers

EventGoesOn ==
  /\ pc = "lock" => dtv_lock = "free" \/ input = "add"
  /\ pc = "cmd"  => CmdThreadAnswers
  /\ pc = "join" => CmdThreadAnswers /\ cmd_exit

(* A decoder that runs and has taken its commands can be paused and        *)
(* stopped: a path is the working one, whose commands are not refused.     *)
(* It says nothing after a START that was sent with a STOP still queued,   *)
(* which then unsets the path of that START (audio_hw_dtv.c:3464). Callers *)
(* in the repository do that: a shared patch that is disabled for one      *)
(* channel and enabled for the next (audio_hw_dtv.c:3857-3923) gets STOP   *)
(* and START one after the other, and so does any zapping.                 *)
RunningCanBeStopped ==
  decoder_state = "RUNNING" /\ queue = <<>> /\ cmdpc = "wait" /\ ~overtaken
    => working \in Path

(* The state of the channel, for its caller: a STOP is being obeyed until    *)
(* the path is unset. *)
ChannelState == IF cmdpc \in {"stop", "unset"} THEN "ending"
                ELSE IF decoder_state = "RUNNING" THEN "on"
                ELSE IF decoder_state = "PAUSE" THEN "paused"
                ELSE "off"

Sounds == output = "run"

Channel == INSTANCE DtvChannel
             WITH closing <- cmd_exit, commands <- queue, state <- ChannelState,
                  sounding <- Sounds

(* The patch with its three threads is a channel that obeys its caller: every *)
(* command that was queued is obeyed once, in order, by the state it finds,   *)
(* nothing sounds without a START, and what is to end does, paused or not    *)
(* (audio_hw_dtv.c:3292-3541).                                               *)
ImplementsChannel == Channel!Spec
=============================================================================
