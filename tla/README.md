# A verification project for android_hardware_amlogic

TLA+ models, TLC runs and TLAPS proofs for the parts of this repository that
decide something: threads that sleep and must be woken, state that survives a
loss of power, callers that overtake one another. The repository is the set of
Android HALs for Amlogic SoCs. Most of its volume is codecs, signal processing,
vendored libraries and thin wrappers of sysfs; its own control logic is in a
few places, and they are what is modelled.

Source references below are relative to `src/`.

## 1. Inventory

| Component | State it keeps | Operations | What is hard | Model |
|---|---|---|---|---|
| `power/libperfmgr`: HintManager, RequestGroup, Node, FileNode, PropertyNode, NodeLooperThread | per node: sorted request groups (hint -> end time), `current_val_index_`, `reset_on_init_`, the held `fd_`; looper: `lock_`, `wake_cond_`, exit flag | DoHint (two forms), EndHint, Start, Stop, Node::Update, threadLoop | a sleeping thread and its timeouts against concurrent callers; failing writes and retries; nodes that depend on each other; shutdown | `PerfMgr`, `HintBoard` |
| `power/disp-power/InteractionHandler` | `mState`, `mEventFd`, `mDurationMs`, `mLastTimespec`, thread | Init, Exit, Acquire, Release, WaitForIdle, Routine | a touch that overtakes the wait for idleness; an abort descriptor that must hit one wait and no other; shutdown | `InteractionHandler` |
| `power` service (power/default/Power.cpp, service.cpp) | the hint manager, an InteractionHandler | setMode, setBoost, queries | the hint manager is started late, by a thread of its own, while calls come in | clients of `PerfMgr` |
| `power/disp-power/DisplayLowPower` | one state byte, a socket | SetDisplayLowPower | none to speak of | planned |
| `boot_ctrl/1.1` | A/B metadata in misc with CRC, the virtual A/B message in misc, bootloader image, bootloader environment, `current_slot_` | Init, markBootSuccessful, setActiveBootSlot, setSlotAsUnbootable, snapshot merge status, queries | power loss between dependent writes; short writes; ignored results; counting of attempts shared with the bootloader | `BootControl` |
| `audio/audio_hal` mixer (amlAudioMixer.c, audio_port.c, sub_mixing_factory.c) | ports, their ring buffers and message lists, mixing thread, stream standby and pause flags | write, pause, resume, flush, standby, thread start and exit | most of it runs without the mixer's lock; messages are delivered one per round to a port whose state the writer also changes | `AudioMixer` (HW sync and output left out) |
| `audio/audio_hal` streams, routing, HW sync, MS12 | stream state machines, A/V sync | open, start, pause, flush, standby | lock order, formats | planned in part |
| `audio/utils`, decoders, `LibAudio`, `media` | ring buffers, parsers, codecs | signal processing | numeric, not concurrent | not modelled |
| `wifi` (wifi.cpp, wifi_chip.cpp, wifi_legacy_hal.cpp) | `run_state_`, the chip with its mode, interfaces and RTT controllers, `global_handle_`, `awaiting_event_loop_termination_`, `is_started_`, the stop callback | start, stop, configureChip, creating and removing interfaces, the vendor's event loop | a stop that gives up after 100 ms against a completion that comes later, on a HAL that has moved on; mode changes that fail half-way | `Wifi` |
| `usb/gadget` (UsbGadget.cpp, MonitorFfs.cpp) | the functions asked for, the monitor thread with its watches and endpoint list, flags shared with it, the links in configfs | setCurrentUsbFunctions, reset, the monitor | the monitor of the functions before goes on during the change; daemons that die and come back; a pull-up that races its timeout | `UsbGadget` |
| `audio/audio_hal` DTV patch (audio_hw_dtv.c, audio_dtv_utils.c) | the patch and how many share it, open demuxes, the working path, the command queue, `dtv_decoder_state`, the package list, three threads | create and release of the patch, OPEN, CLOSE, START, PAUSE, RESUME, STOP | a join under a mutex, signals without it, threads that outlive a command, zapping | `DtvPatch`, `DtvChannel` |
| `thermal` | cached temperatures, callback list | register, unregister, notify from one polling thread | little | planned |
| `camera` (HAL 1, 3, V4L adapter) | message queues, buffers in flight | start, stop, fill, return of buffers | buffers shared with the driver | candidate |
| keymaster, oemlock, fastboot, cec, tv_input, screen_source, lights, health, consumerir, memtrack, dumpstate | little or none | forward to sysfs, to a trusted application, or to a vendor service that is not here | I/O | not modelled |

### How the parts interact

- *Power HAL -> hint manager.* setMode(INTERACTIVE) ends the hint INTERACTIVE when
  enabled and does it when not; setBoost(INTERACTION) does the hint INTERACTION
  (`power/default/Power.cpp:55-70`, `:85-91`). service.cpp sets up a single binder thread;
  another thread calls Start of the manager. `PerfMgr` has any number of callers, since
  the interaction handler's thread calls it too. A call
  returns when the request is in the nodes' maps. Requests are carried out later, by
  the looper thread alone. Both share `lock_`; the looper is woken by `wake_cond_`.
- *Interaction handler -> hint manager.* Acquire does the INTERACTION hint with no
  timeout (PerfLock), the handler's thread ends it (PerfRel). The handler is an
  ordinary client of `PerfMgr`: its calls are the DoHint and EndHint of a member of
  `Client`. Each of the two models includes all interleavings of the calls, so
  `hinted` of `InteractionHandler` is exactly an endless request in `left` of
  `PerfMgr`.
- *Power HAL -> interaction handler.* Power's constructor makes the handler and calls
  Init. Nothing in the repository calls Acquire: the handler is modelled for the caller it
  is written for, one that tells it of touches.
- *Audio streams -> mixing thread.* A stream writes into the ring buffer of its port
  and sends pause, resume and flush as messages to it; the thread takes both. Only
  deleting a port shares a lock with the thread. The device starts the thread, and
  ends it when it is closed.
- *Wifi HAL -> vendor library.* The HIDL thread starts the vendor's event loop in a
  thread of its own and asks it to clean up; the loop answers by a callback and by
  ending. Both threads take one global lock; the stop gives it up while it waits.
- *USB gadget -> kernel -> daemons.* The HAL writes configfs; the kernel takes the
  gadget off the bus when a daemon of a linked function dies; the monitor learns of
  daemons from inotify alone. Caller and monitor share flags, some of them under
  `mLock`.
- *AudioFlinger -> DTV patch.* Control commands reach the patch as parameters, one
  after the other, and wait in a queue for the command thread, which makes and joins
  the threads for input and output. The output thread opens a stream of the HAL.
- *Boot control -> bootloader.* Not a call: the HAL writes misc, the partition
  `bootloader` and environment variables; the bootloader reads them when power comes
  on, chooses a slot and counts an attempt in the same metadata.

### What makes each component correct

- *libperfmgr.* A node shows the value of the most important outstanding hint. A
  request ends by its own timeout or its own EndHint and by nothing else. The looper
  never sleeps past an expiry or a retry and no call goes unnoticed. A round leaves
  dependent nodes settled. Stop returns.
- *InteractionHandler.* The hint is held exactly as long as an interaction and the
  wait for its end last. Nobody gets less than the promised duration by timeout. An
  abort hits the wait it was meant for. The hint is released. Exit returns.
- *BootControl.* There is always a way back to a slot that has worked. The slot set
  active is the one that is tried, a fixed number of times. A success that
  is reported is complete. A merge under way is not forgotten. (Damaged metadata is
  replaced, if the replacement can be saved; see "Further observations".)
- *Audio mixer.* Messages take effect in the order of the calls, whatever a writer
  does meanwhile. A pause silences the port after one more period. A write ends and
  playback goes on after a resume. No port is left behind, even when two streams were
  given the same one. The thread's exit returns.
- *Wifi.* One event loop at a time. An answer of the vendor finds the HAL it was meant
  for, in time or late. A stop that succeeded has left nothing, and one that was begun
  ends. The interfaces are those the mode allows.
- *USB gadget.* Who is told success has the functions asked for on the bus since the
  call; none asked for stay none. One monitor at a time. The call returns. Descriptors
  are followed by a pull-up whenever they are written.
- *DTV patch.* Every call returns. Commands are obeyed once, in order. A STOP silences
  the channel, and the next one opens an output of its own. A running decoder can be
  stopped. The patch is freed when its threads are gone.

The hazards behind these properties, line by line, are in `PROJECT.json` under
`hazards`, those that matter most; where no property covers one, its note says
why. Lesser ones are under "Further observations" below.

## 2. Modules

| Module | Role |
|---|---|
| `HintBoard` | abstract specification: what the hint manager promises |
| `PerfMgr` | the hint manager, groups, nodes and looper in detail; implements `HintBoard` |
| `MCPerfMgr` | configurations of `PerfMgr` for TLC, written as a powerhint.json would say them |
| `PerfMgr_proofs` | theorems about `PerfMgr` |
| `InteractionHandler`, `InteractionHandler_proofs` | the handler and its thread; theorems |
| `AudioMixer`, `AudioMixer_proofs` | the sub-mixer: ports, their messages, streams and the mixing thread; theorems |
| `BootControl`, `BootControl_proofs` | the boot control HAL with bootloader and power; theorems |
| `UsbGadget`, `UsbGadget_proofs` | setCurrentUsbFunctions, the functionfs monitor, daemons and kernel; theorems |
| `Wifi`, `Wifi_proofs` | start, stop and modes of the wifi HAL against the vendor's event loop; theorems |
| `DtvChannel` | abstract specification: what the DTV patch promises its caller |
| `DtvPatch`, `DtvPatch_proofs` | the DTV patch: caller, command, input and output threads; implements `DtvChannel`; theorems |

Every definition that models code is listed in `PROJECT.json` under `map` with the
lines it stands for. Some definitions have faulty variants next to them
(`RequestUnsignalled`, `BeginRoundOnce`, `ExitNotifyNone`, `MarkTriesOnly`, `QueuedFirst`, ...): slips a
programmer could make there. The specifications do not use them; they are put in
the place of the original to see that the property they are paired with (under
`mutants`) fails, which shows that the property depends on that code.

### PerfMgr

| Code | Model |
|---|---|
| `RequestGroup::request_map_` | `left[<<node, value, hint>>]`: what remains of the request; `None` when there is no entry, `Forever` for `ReqTime::max()` |
| `Node::current_val_index_`, `reset_on_init_`, `FileNode::fd_` | `current`, `reset`, `fd` |
| the file or property behind the node | `shown` (external) |
| `lock_` | `Locked`: the looper holds it from the start of a round until it sleeps. Callers take it for one atomic block, so their calls are one action |
| `wake_cond_` | `woken`, `wakeIn`, actions `Sleep`, `Wake`, `SpuriousWake` |
| `HintManager::DoHint`, `EndHint` | `DoHint`, `DoHintFor`, `EndHint` enter a call past its check of `exitPending`; `Request` and `Cancel` are the part under `lock_` |
| `Node::Update` of one node | `UpdateNothing`, `UpdateWritten`, `UpdateFailedFile`, `UpdateFailedProperty` |
| `threadLoop` and Android's `Thread::_threadLoop` around it | `Start`, `FirstTurn`, `BeginRound`, the updates, `Sleep`, `Wake`, `ExitCheck` |
| `Stop` | `StopCall`, `StopSignal`, `StopJoin` |

Time. The code keeps end times; the model keeps what is left of them, so the clock
needs no bound. A tick may come anywhere, also in the middle of a round, at most
`MaxSlow` times per round. `NoLostWakeup` allows the looper to be that much late,
because the code computes a remaining time at the moment of the update and starts
its wait later.

Signals. `pthread_cond_signal` on a looper that is not waiting is lost; `Signal`
does nothing then. The code is right in spite of it because requests are made under
`lock_`; Stop's exit flag is tested without it, which is the finding of run `stop`.

### InteractionHandler

`mState`, `mEventFd` and `mDurationMs` are variables of the same name. `age` is the
time since `mLastTimespec`. `thread` is the Routine thread's place: `cond` in the
condition wait, `armed` after it has set WAITING and before it reads `mDurationMs`
without the lock, `poll1` and `poll2` in the two polls of WaitForIdle, `release`
before Release takes the lock. `hinted` is PerfLock without PerfRel. `promised` is a
history variable: what remains of the longest duration any caller of Acquire was
given. The display's idle file and failing polls are the environment.

### BootControl

`priority`, `tries` and `successful` are the fields of `slot_info` in misc, `valid`
says whether its checksum matches. `image` is the slot whose bootloader image is in
the partition `bootloader` (`Torn` after a write in part), `env` the environment
variables set since power on. `call` is the step a `SetActiveBootSlot` has reached;
each of its writes is an action, and `PowerLoss` and `Crash` are possible between
any two and in the middle of the image's. The service is single threaded
(one HIDL thread), so calls do not overlap. The bootloader (`PowerOn`, `Repair`) is external: it is
modelled from what the HAL expects of it in the comments and in the fields it
writes. `active` and `attempts` are history.

`message` is the `misc_virtual_ab_message`, `Blank` when its magic number or version is
not there. Init (`Start`) first replaces metadata whose checksum is wrong
(`LoadMetadata`) and then initialises the message if it must; when the message cannot be
read or written Init fails, after the metadata may have been replaced, and the service
is started again. `SetSnapshotMergeStatus` is one write. Statuses other than SNAPSHOTTED
are handled alike, MERGING stands for them.

### AudioMixer

| Code | Model |
|---|---|
| `amlAudioMixer::in_ports`, `inportsMasks` | `owner`: the stream whose port is in the slot, or `None`. The mask is set and cleared with the slot, so it is `Used` |
| `input_port::port_status`, `r_buf`, `first_read`, `msg_list` | `status`, `ring` (a level, in periods), `first_read`, `msgs` |
| `aml_stream_out::standby`, `pause_status`, `inputPortID` | variables of the same name |
| the call a stream is in | `pc`: `idle`; `init` between finding a free index and taking it; `write`; `activate` between putting data in the ring buffer and setting the port active |
| `mixer_16b_threadloop` | `Enter`, `ClearExit`, `Leave`, `BeginRead`, `EndRead`, `Mix` |
| one port's turn in `mixer_inports_read` | `ProcessMessage`, then `Look`, which reads the state into `seen`, then `FlushPort`, `SkipPort` or `TakePeriod`, which act on `seen` |
| `inport_lock` | `Locked`: held through all ports of a round; waited for by `Standby` only |
| `pcm_mixer_thread_exit` | `ExitDisable`, `ExitRequest`, `ExitJoin` |

A stream's calls come from one thread, one after the other, which is how the framework
uses a stream; the calls of different streams, the thread and the exit interleave
freely. Data is counted in periods. `last`, `extra` and `fresh` are history: the last
call that reached a port, the periods taken since its pause was seen (saturating at
2), and what was written since the last flush call. Simplifications:

- Taking a slot (new port, slot, mask, `inputPortID`) is one step, apart from the
  lookup of its index before it, which is the race that matters.
- With every port in use a write waits. In the code the index of a bit in 0 is
  undefined; the device opens fewer streams than ports.
- A message sent with `inputPortID` -1 finds no port. In the code the lookup is
  outside `in_ports` and undefined; no property speaks of what happens then.
- `data_valid` is left out: only the insertion of data for HW sync leaves it set from
  one round to the next. HW sync, its header extractor, a device switch during a write
  (a standby, for the mixer), volume, presentation positions, the threshold of MMAP
  ports and the output are left out.
- The 32-bit thread loop differs in the arithmetic of mixing and is not modelled.

### UsbGadget

| Code | Model |
|---|---|
| `setCurrentUsbFunctions` with its callees | `pc`, from `Begin` through `PullDown`, `Unlink`, `SignalMonitor`, `JoinMonitor`, `Validate`, one `AddFunction` per function, to `PullUpDirectly` or `StartMonitor` |
| `waitForPullUp` | `PulledUpInTime`, `TimedOut`; the time may be over at any moment |
| every `goto error` and early return | `Reply` with what the callback is told |
| `mCurrentUsbFunctions`, `mCurrentUsbFunctionsApplied`, `mMonitorRunning`, `mWatchFd`, `mEndpointList`, `gadgetPullup` | `functions`, `applied`, `running`, `watches`, `endpoints`, `gadgetPullup` |
| `startMonitorFd` | `monitor`: its first look, the half second before the write to UDC, the write itself, the part under `mLock`, the wait in epoll |
| eventfd with 100 | `stopFlag` |
| inotify | `events`: there is at least one event to be read. What an event says is not looked at by the code, so it is not modelled |
| configfs, functionfs, a daemon | external: `Bindable`, `DaemonReady`, `DaemonDies` |

The service has one HIDL thread, so calls do not overlap. A write of "none" to UDC that
fails leaves the gadget on the bus until a function is unlinked (`PullDown`, `UnlinkTo`).
The monitor's pull-up and
its news of it are two steps, since the write to UDC is made without `mLock`. `pulled`
and `excused` are history: what was pulled up since the call began, and whether the
gadget is off the bus for a reason the monitor is not to undo.

### Wifi

| Code | Model |
|---|---|
| `Wifi::run_state_`, `chip_` | `run_state`, `chip` |
| `WifiChip::current_mode_id_`, its lists of interfaces and RTT controllers | `mode`, `ifaces` (numbers by type), `rtt` |
| `WifiLegacyHal::global_handle_`, `awaiting_event_loop_termination_`, `is_started_` | `global_handle`, `awaiting`, `is_started` |
| `on_stop_complete_internal_callback` | `on_stop`: whose callback is installed |
| the vendor's event loops | `loop[h]`: running, asked to stop, answered, gone |
| the HIDL thread | `pc`: idle, waiting in a stop or in the stop of a mode change, or why the process has ended |

What is done under the global lock is one action. A stop is two, before and after its
wait. `StopLate` is the wait that ends without the event loop; the callback stays
installed and is carried out later. CHECK, CHECK_EQ and LOG(FATAL) end the process;
`Restart` is init. `kChipModes` is that of the default build. The expansion of the
combinations is translated, not its result.

### DtvPatch

| Code | Model |
|---|---|
| `dvb_path_count`, `aml_dev->audio_patch` | `count`, `patch` |
| `demux_handle[]`, `demux_index_working` | `opened`, `working` |
| `dtv_lock`, `dtv_cmd_process_mutex` | `dtv_lock` (its holder); the command thread holds the mutex in the places of `MutexHeld` |
| `dtv_cmd_list`, `dtv_package_list` | `queue`, `list` (their number) |
| `dtv_patch_handle_event` | `HandleEvent`, then `TakeLock` with its branches, then `SendCmd` when the mutex is free |
| `create_dtv_patch`, `release_dtv_patch` | `Create`, without its failure; `Release` and `Joined` |
| `audio_dtv_patch_process_threadloop_v2` | `Top`, `NoCmd`, `TimedOut`, `StartDecoding`, `Drop`, `PauseOrResume`, `StopDecoding`, `OutputJoined`, `Unset`, `ExitInput`, `ExitOutput` |
| `audio_dtv_patch_input_threadloop` | `Visit` one path, `AddPackage`, `AddAgain`, `InputEnds` |
| `audio_dtv_patch_output_threadloop_v2` | `OutputOpens`, `Play`, `OutputEnds` |

A creation that fails is left out. When the command thread or the memory for the patch's
ring buffer cannot be had, the code frees the patch and leaves `aml_dev->audio_patch` pointing
to it and the count raised (`audio_hw_dtv.c:3726-3729`, `:3766-3769`, `:3828`); the next create
takes the freed patch for a shared one, and what follows is undefined.

The three places of the timed wait are one: they differ in the state, which stays. The
release signals without the mutex, so that its signal may come while the thread is
between its test and its wait; `Signal` then does nothing. A thread that has ended is
kept until it is joined. Calls come from one thread at a time, which is how
AudioFlinger passes parameters; a release during a command is outside the model (see
"Further observations"). `overtaken` is history: a STOP waited when the last START was
sent.

For its caller the patch is a `DtvChannel`: a queue of commands, a channel that is off,
on, paused or ending, and whether it sounds. `ChannelState` reads the state off the
command thread and `dtv_decoder_state`; the channel is ending from the moment a STOP has
been taken until the path is unset, and no further command is obeyed then. It sounds
while an output is open (`Sounds`), a paused one included, since that still holds its
stream. An output that has not opened yet, demuxes, packages and locks are not part of
it: their steps stutter.

## 3. Runs

| Run | Question | Bounds |
|---|---|---|
| `sched` | Are requests ended only by their owner, are hints in effect as a whole, is no wake-up lost, and does the manager implement `HintBoard` with its liveness, in every interleaving of a caller, the looper and the clock? | 2 nodes (a file whose writes fail and are retried, a property with reset_on_init), 3 values, 2 hints with crossing priorities, an endless request, an overriding timeout, timeouts up to 2 ticks |
| `caps` | Are two passes in node order enough when the kernel couples nodes, and does Stop return when it finds the looper asleep? | a maximum between two minima, so the dependencies go along and against the order, and a property whose writes may fail; 2 callers |
| `stop` (violated) | Does Stop always return? | one node, one caller |
| `interaction` | All properties of the handler | durations below the minimum, between the limits, at a limit and above; durations up to 4 ticks |
| `boot` | All properties of boot control | 2 slots, damage on |
| `mixer` | All properties of one stream: order of messages, pause, progress of writes and playback, exit of the thread | a direct stream, a ring of 4 periods and a threshold of 3, writes of up to 3 periods, up to 3 waiting messages |
| `mixer_two` | Is no port left behind, although two streams may be given one port? | a direct and a padded stream, 2 ports, rings of 1 period, one waiting message |
| `mixer_flush` (violated) | Is nothing that was written before a flush played after the port has taken it? | as `mixer`, without exit |
| `usb` | All properties of the gadget | five requests: none, two daemons, one daemon, no daemon, a set without product id; failing attributes, links, removals and pull-ups |
| `usb_restart` (violated) | Is the gadget back on the bus when the owner of its endpoints has restarted? | one function, no faults |
| `wifi` | All properties of the wifi HAL | 2 handles, 2 RTT controllers, every fault |
| `dtv` | All properties of the DTV patch; does it implement `DtvChannel` with its liveness? | 2 paths, a list of one package, up to 2 waiting commands, up to 2 users of the patch, threads and streams that fail |

Why these bounds are enough to be interesting. Two hints on one node give a higher
and a lower group, and both orders of their ends. One finite timeout shorter than
the other, one that can be renewed by a shorter one, and `Retry` shorter than both
give every order of expiry, retry and signal. Three coupled nodes are the least that
has a dependency in each direction of the node order. Two slots are what the devices
have. `kMaxNumSlots`, priorities and attempts keep the source's values (4, 15, 6, 7).
The run `interaction` includes a duration of 0 and one that is cut by the maximum.
In `mixer` three waiting messages let a pause, a flush and a resume wait together and
overtake the thread's snapshot of the port; a write of 3 periods into a ring of 4 does
not always fit, so it takes several turns, and reaches the threshold exactly. Two
streams and two ports are the least with which a port can be taken twice and another
stay free.
Two handles are the least with which two event loops can overlap; two RTT controllers
the least with which the list is erased while it is walked. One package fills the list
of `dtv`, so that the input thread waits for room; two waiting commands let a START
overtake a STOP; two users share a patch. The requests of `usb` contain each kind of
change: from a daemon's functions to another's, to none, and to those without one.
What is independent of the bounds is proved (section 5).

Deadlock is checked in the runs of the looper and the handler, where the clock keeps
ticking, of the mixer without its exit, whose thread never stops, and of `usb`, `wifi`
and `dtv`, which can always be called again. It is switched
off for `mixer_flush`, whose property is violated first, for boot control, where power may be off and no slot bootable and nothing in the
HAL can help then, and for `mixer`, which ends with the thread.

### What the properties say

- `NoLostWakeup`: whenever the looper sleeps unsignalled, its timeout covers the next
  change of any node's wanted value and the retry of a failed file. It relates the
  result of two passes of updates to all requests that came and went before.
- `HintIsWhole`: a hint never stays at work on some of its nodes only. While one of its
  actions has time left, every action of the hint that lasts as long has at least as much,
  through repetitions with other timeouts, ends, and expiries that the looper sweeps node
  by node. (The code reads the clock once per action; ends that differ by less than a tick
  are equal in the model.)
- `OnlyOwnerEndsRequest`: nothing but time and an EndHint of its own hint shortens a
  request. Ticks are whole, so what truncating to milliseconds does
  (`RequestGroup.cc:55-58`) is not seen.
- `TwoPassesSettle`: the comment in threadLoop about nodes that depend on each other.
- `ImplementsBoard`: refinement of `HintBoard`.
- `HintMatchesState`, `AbortMatchesWait`, `HeldAsPromised`, `ReleasedUnlessTouched`,
  `ExitReturns`: section 1.
- `SleeperIsWoken`: the handler's thread is never left in its condition wait with an
  interaction to time or a handler to leave, except while Exit still owes its
  notification, which it gives after it has released `mLock`.
- `FallbackRemains`: a slot that succeeds, even in its last attempt, stays bootable. It
  fails without the reset of `tries_remaining` in `libboot_control.cpp:394`.
- `GivenUpAfterTries`: attempts used up and left add up to `kActiveTries` as long as the
  active slot has not succeeded. That is 6, where a comment says 7; see "Further
  observations".
- `ActivatedSlotBoots`, `SuccessMeansSwitched`: section 1.
- `MergeIsRemembered`: what either slot is told about a merge survives crashes, restarts,
  an Init that fails, power losses and changes of slots.
- `LastCallWins`: a port that has no more messages is in the state its last call asked
  for. It relates the calls to what the thread does with a state it read earlier.
- `UnpausedIsNotQuiet`: a stream that is not paused has a port that is not left quiet,
  although client and thread both write the port's state.
- `PausePlaysOneMore`: for ports of direct streams, the ramp that `AmlAudioOutPort.h:93-94` describes.
- `WriteReturns`, `PlaysUnlessPaused`: no order of calls leaves a writer waiting for
  room that nobody makes, or a resumed port silent.
- `NoPortLost`: every port is one that some stream can still delete.
- `SuccessIsTrue`: relates what the caller is told to what was pulled up since its call,
  with the monitor of the functions before still able to pull up and to publish.
- `NoneStaysDown`, `OneMonitor`, `SetReturns`, `PulledUpOnceWritten`: section 1.
- `NoEventMissed`: whatever came or went before a watch was added, what the monitor
  takes the endpoints for differs from what they are only while an event waits.
- `OneEventLoop`, `LateAnswersFit`, `StoppedIsOff`, `StoppingEnds`: section 1. They
  relate the answer to a stop to what was done after that stop had given up.
- `CombosRespected`: the comment in `wifi_feature_flags.cpp` about the modes, through
  mode changes that fail half-way.
- `EventReturns`, `EventGoesOn`: no cycle of joins, locks and lost signals. The second is
  the safety the first rests on: whoever is waited for can go on without the waiter.
- `ImplementsChannel`: refinement of `DtvChannel`. It relates the commands accepted to
  what was done for them by three threads, and says that what is to end does end.
- `FreedWithThreadsGone`: section 1.
- `RunningCanBeStopped`: a decoder runs without a working path only after a START
  that was sent while a STOP waited. It is not a rule that callers keep: a shared patch
  that is disabled for one channel and enabled for the next
  (`audio_hw_dtv.c:3857-3923`) gets just these commands, and so does ordinary zapping; the
  model reaches the state then, and PAUSE and STOP are refused until the next START. The
  property says that nothing else leads there.
- `ExitOfRunningReturns`: an exit requested of a thread in its loop. A thread that is
  only starting may clear the request (`amlAudioMixer.c:1228`); the device starts the
  thread when it is opened and ends it when it is closed, so the property leaves that
  case out and the hazard is listed.

### Fairness

- *Looper*: the looper's own steps and the updates are weakly fair: the thread is
  runnable whenever they are enabled. `SpuriousWake` is not fair: nobody relies on it.
- *UpdateWritten* is strongly fair per node: a write that is tried again and again
  succeeds at last. Without it no promise about a failing file is possible. It does
  nothing for a node that is not tried again.
- *Tick* is weakly fair: time passes.
- *Request, Cancel, StopSignal, StopJoin*: a caller that has entered gets `lock_` and
  returns. Callers need not call at all.
- *Interaction handler*: the thread's steps, time, and the rest of an Exit that has
  begun. Not fair: touches, the display becoming idle, failing polls.
- *Mixer*: the mixing thread is runnable in every step; a write that has begun goes on,
  as `aml_out_write_to_mixer` waits 5 ms at the longest before it tries again; the rest
  of an exit goes on. Nobody has to call.
- *USB gadget*: a call that has begun goes on, and so does the monitor; its stop request
  is strongly fair, as epoll reports the eventfd however many inotify events come.
  Daemons need neither come nor go.
- *Wifi*: the wait of a stop ends, the vendor's event loop does what it was asked to,
  and a process that died is started again. Nobody need call.
- *DTV patch*: the threads run, an output that is opening opens or fails; the caller's
  waits for a lock that is given up again and again are strongly fair. For
  `dtv_cmd_process_mutex` the others wait outside it. For `dtv_lock` the input thread
  sleeps outside it in most rounds, but with no demux open it gives the lock and takes it
  again at once (`audio_hw_dtv.c:2798-2799`): there the strong fairness of `TakeLock` is an
  assumption about the mutex, which is not a fair one, true unless a runnable caller misses
  every one of endlessly many gaps. `EventReturns` and the liveness of `ImplementsChannel`
  rest on it. Playing is not fair: a paused or starved output plays nothing.
  `DtvChannel` promises that a command is obeyed and that what is to end ends; the
  fairness of the threads implies it (run `dtv`).
- *Boot control*: none. Its properties are safety properties; the HAL promises
  nothing about when it is called.

## 4. Findings

1. **Stop may never return** (`stop`). `NodeLooperThread.h:60-62` says that Stop waits
   for the sleeping looper to be signalled or to time out after 60 s. Stop may signal and set
   the exit flag after `_threadLoop` has tested it and before threadLoop takes `lock_`.
   The looper then sleeps without a signal to come, for `kMaxUpdatePeriod`, which is the
   longest wait there is. `StopOfSleeperReturns` in run `caps` shows that the other case
   is right.
2. **A write may undo a flush** (`mixer_flush`). `AmlAudioOutPort.h:83` says of flush()
   that all previously buffered data is discarded immediately. The stream's flush
   queues a message; the mixing thread marks the port FLUSHING when it takes it and
   empties the port when it then finds that state. A write that ends in between makes
   the port ACTIVE (`amlAudioMixer.c:252`), and the old data is mixed.
3. **An owner that restarts quickly is not noticed** (`usb_restart`).
   `UsbGadgetCommon.h:94-96` and `UsbGadget.cpp:170-171` say that the monitor pulls
   the gadget up again when the owner of the endpoints restarts. It looks at the
   endpoint files only as they are when it reads an event. An owner that has died and
   come back by then is not missed, and the gadget, which the kernel took off the bus,
   stays off.

### Further observations

No document contradicts these, or the model leaves their cause out, so they have no run:

- Boot control: the comment at `libboot_control.cpp:47-49` says that
  `kDefaultBootAttempts`, 7, attempts "should be made from a new slot before rolling back".
  Only the default metadata gives a slot as many (`:297`). A slot that an update makes
  active gets `kActiveTries`, 6 (`:417`), and is given up after these: `GivenUpAfterTries`
  states the 6, exactly, and with the 7 of the comment it would be violated by every
  update.
- libperfmgr: a write that fails closes the file that a node with hold_fd keeps, and
  nothing opens it again when the failed request ends (`FileNode.cc:63`). A request
  during Stop may enter a looper that is gone (`NodeLooperThread.cc:31`).
- InteractionHandler: Exit during an interaction leaves the hint done
  (`InteractionHandler.cpp:92`).
- Boot control: Init replaces metadata with a wrong checksum but ignores whether the
  replacement could be saved (`libboot_control.cpp:367`). The results of
  `set_bootloader_env` are ignored (`:399`), so that a success may leave variables unset.
  A second Init after one that failed past line 358 returns true with no slots (`:330`).
- Mixer: two streams that leave standby together may be given one port
  (`amlAudioMixer.c:158`); `exit_thread` and `mixing_enable` are bit-fields of one word
  without a lock (`:72`); a port of the system type ignores its state (`:641`); a
  message sent with `inputPortID` -1 is looked up outside `in_ports`
  (`sub_mixing_factory.c:1432`); a direct stream that writes less than the threshold is
  never heard (`audio_port.c:298`).
- USB gadget: the monitor of the functions before may report "applied" for the new ones
  (`MonitorFfs.cpp:115`); a UDC write that fails waits for another event (`:163`); a
  call that fails while unlinking leaves the monitor of the old functions under the new
  `mCurrentUsbFunctions` (`UsbGadget.cpp:69`).
- Wifi: a start without a wlan interface is a success that does not mark the HAL as
  started (`wifi_legacy_hal.cpp:387`); a configuration after a late stop fails a CHECK
  and ends the process (`:362`), which is what keeps event loops from overlapping;
  interface names are given by position (`wifi_chip.cpp:1616`); the loop that removes the
  RTT controllers of an interface erases from the vector it walks (`:685-689`), so that with
  two of them it uses an iterator that is no longer valid (`RemoveSta` ends the process
  then, as the build does).
- DTV patch: a PAUSE that waits behind an overtaken STOP indexes `dtvsync` with -1
  (`audio_hw_dtv.c:3447`); the patch is read before `dtv_lock` is taken (`:259`) and
  mediasync destroyed while other threads use it (`:444`); failed allocations leave
  locks held or the patch dangling (`:2805`, `:3768`, `audio_dtv_utils.c:147`); after
  PAUSE and STOP packages of the old channel stay in the list (`:3509`); the loop for a
  single demux waits without a timeout (`:2172`); with no demux open the input thread
  takes `dtv_lock` without sleeping (`:2798`).

## 5. Proofs

For every value of the constants that satisfies the modules' assumptions:

- `SizeAssumption`, `ConfigAssumption` (PerfMgr): sizes are positive, indices are in
  range, one action per hint and node. HintManager's parser accepts nothing else.
- `DurationAssumption` (InteractionHandler): durations are not negative, the minimum is
  at most the maximum.
- `SlotsAssumption` (BootControl): one to four slots.
- `MixerAssumption` (AudioMixer): there is a port, a ring buffer holds a period, writes
  are not empty, a stream is not NULL.
- `UsbAssumption` (UsbGadget): requests are sets of functions.
- `WifiAssumption` (Wifi): there is a value for no handle.
- `DtvAssumption` (DtvPatch): there is a path and a place in the list.

TLC evaluates these assumptions in every run of the module. One theorem has a
hypothesis more: `TwoPassesAreEnough` assumes `Settleable` of the configuration. TLC
evaluates that for the configuration of run `caps` (`CapsSettle`), where the property
is also checked.

**PerfMgr.** `TypeCorrect` is inductive by itself. `NoWakeupLost` is not: that the
sleep is short enough says nothing about the round in which it was computed. The
inductive invariant is

    WakeInv == TypeOK /\ PassCovers /\ NoLostWakeup

`PassCovers` says of the second pass that `timeout` already covers every node before
`idx`, late by no more than the ticks of this round. It is what the loop of
threadLoop maintains: an update of node `idx` extends it by one node and leaves the
others' wants as they were, because an update erases only requests that have
expired; a tick takes one from both sides. At the end of the pass it becomes
`NoLostWakeup`. The first pass contributes nothing, as in the code. A caller's change
destroys the cover of a sleeping looper, but wakes it.

`ImplementsBoardSafety` proves the safety part of the refinement, initial state and
every step: an update that writes is `Apply` of the node, every other step changes
`want` only or nothing.

`HintsAreWhole` (`HintIsWhole`) is inductive on top of the types, as every step treats
the actions of a hint alike: a request renews all of them under one lock and only to a later
end, a cancel removes them all, the clock takes one tick from each, and the looper erases
only what is over (`RequestWhole`, `NextWhole`).
`RequestsKeepTheirTime` needs no more than the types: `LeftShape` lists what a step may
do to the request maps, and of these only the clock and Cancel take time from a request
that has some left.

`TwoPassesAreEnough` proves `TwoPassesSettle`, the comment in threadLoop, for every
`Settleable` configuration: no node both limits and is limited, a hint that asks for
something of a node asks no less of its limit and for as long, rounds take no time
and only the kernel's coupling makes a file write fail. Chains of limits may need more
than two passes, so some such hypothesis is needed. `Matched`: a request at a node has
one at its limit that asks no less and lasts no shorter, so that no node ever wants more
than its limit will allow. `Passing`: the first pass leaves every node out of the way, a
limited one showing no more and a limit no less than it is going to, even where a write
was refused; so every write of the second pass succeeds and stays.

**InteractionHandler.** `HintFollowsState` and `AbortsMatchWaits` follow from one
inductive invariant that adds `Lifecycle`: before Init and after Exit the handler is
uninitialised, and the thread exists only in between. Without it a Release could find
a state that no thread has set. `PromisesAreKept` adds `Keeps`: a promise never exceeds
what is left of `mDurationMs` since the last Acquire, and the second poll of a wait that
nobody has overtaken, whose `budget` is still `mDurationMs`, ends no earlier than that.
An Acquire that is not covered either asks for more than is left or finds the time over,
so the new duration covers the old promises too. `SleepersAreWoken` is inductive together
with the lifecycle: an Acquire that leaves IDLE notifies in the same critical section,
and the thread tests `mState` under `mLock` before it waits.

**BootControl.** The invariant has these parts: the type; `ActiveOnTop`, that the
active slot alone has the highest priority and all others are below it;
`DamageForgets`, that damaged metadata has no active slot; `GivenUpAfterTries`; and
`CallInProgress`, what a SetActiveBootSlot has already achieved at each of its steps.
`ActivatedSlotIsTried`, `FailingSlotIsGivenUp`, `SuccessIsComplete` and
`FallbackIsKept` follow. `MergeIsKept` needs no invariant: the lemma `MessageSteps` says
what each step may do to the message, and initialising it tells both slots what the blank
one did. `TypeCorrect` has its own part for the message, whose source slot is the running
one. They hold for one to four slots, TLC runs two.

**AudioMixer.** `TypeCorrect` needs more than the types: a stream that writes has a port,
padding is added to a write only once, and fresh data is part of the ring's. For the
order of messages, `LastCallWins` alone says nothing while messages wait or while the
thread holds an old state of the port. `Ordered` adds both: the last message is at the
end of the list (`Waits`), and a thread that is about to act on a port whose messages
are all obeyed acts on its present state (`Current`), since only a write or a new
port could have changed it, and then no message is the last word. `CallsInOrder` follows for any number of
streams, ports and messages. On top of `Ordered`, `RampedAll` says that a direct port
from which a period was taken since its pause is paused by now and has no message left
that changes this; `PauseEndsWithOnePeriod` follows. `PortsAreRemembered` needs
`Remembered`: a stream in standby, or one about to get a port, remembers none, so that
giving it a port loses no other. `ResumedPortsPlay` (`UnpausedIsNotQuiet`) needs
`Playing`, which says the same of the state the thread has already read and is about to
act on, and that a port whose turn it is under the lock stays in use.

**UsbGadget.** The invariant adds three parts to the type: `Lives` ties the place of the
monitor thread to `running` and to the place of the call; `Links` says what of the
functions is linked while they are set up; `News` says which of the shared flags may
already speak of a pull-up, and that what they speak of was pulled up since the call
began. `SuccessIsTrue` is an action property and follows from `News`: a caller who is
told SUCCESS while waiting read a flag that was cleared after the monitor before had
been joined. `EventsReachMonitor` (`NoEventMissed`) adds `Hears`: what the monitor waits
for is watched, and an endpoint that changed after the monitor's look has left an event.
With it goes `JoinsAreAnswered`: a monitor that is joined has its stop request still to
read, or has ended. These are the safety parts of
`PulledUpOnceWritten` and `SetReturns`.

**Wifi.** The invariant names, for each place of the HIDL thread, what the event loops
may be doing. `Loops`: only the loop of `global_handle`, or the one that has answered
and is about to end, is there. `Stops`: a callback is installed exactly while a loop
was asked to stop. `Chips`: a chip exists exactly in the state STARTED, and without one
there is no interface. `EventLoopIsAlone`, `LateAnswersAreExpected` and `SuccessfulStopIsOff`
follow. The CHECK in start (`GoodState`) is what the argument rests on.
`CombosAreRespected` is about counts: the lemmas `StaCombo` and `ApCombo` compute which
numbers of interfaces fit the combinations of a mode, `WithinRespects` that an interface
comes only where one has room, `FewerRespects` that removing interfaces never leaves one.
`StopsAreUnderWay` is the safety part of `StoppingEnds`: while the HAL is STOPPING there
is an event loop that was asked to stop and whose answer completes this stop.

**DtvPatch.** The invariant adds `Threads`, which threads there are in which place of the
command thread, and `Order`: a START sent behind a STOP that is still queued or being
carried out counts as overtaken, and without that a path that is no longer the working
one has no START to come. `FreedAfterThreads`,
`ChannelsHaveOwnOutput` and `RunningIsControlled` follow for any number of paths and
commands. `EventsGoOn` adds `Told`, who holds `dtv_lock` and that whoever is joined has
been told to end, and `Shared`, that a patch with users is not being released.
`ImplementsChannelSafety` proves the safety part of the refinement: each step of caller
or command thread is the channel's action of the same meaning, opening an output is
`Sound`, its end `Silence`, all else stutters. It adds `Rests` to the invariant: without a
patch nothing is left in it, and an output is told to end only by the STOP or the release
that then joins it.

**Model-checked only.** Liveness and everything that rests on fairness:
the fairness part of `ImplementsBoard`, `ReleasedUnlessTouched`, `ExitReturns`,
`StopOfSleeperReturns`, `WriteReturns`, `PlaysUnlessPaused`, `ExitOfRunningReturns`,
`SetReturns`, `PulledUpOnceWritten`, `StoppingEnds`, `EventReturns`, the fairness part of
`ImplementsChannel`. TLAPS cannot handle ENABLED, which weak and strong fairness
are made of. The safety that `SetReturns`, `PulledUpOnceWritten`, `StoppingEnds` and
`EventReturns` rest on is proved, as said above. Every other property of a passing run is
proved. The type invariants of all modules are proved; `PerfMgr`, `InteractionHandler`,
`AudioMixer`, `BootControl`, `UsbGadget`, `Wifi` and `DtvPatch` spend their runs on other
properties.

## 6. Plan

Done: `HintBoard`, `PerfMgr`, `InteractionHandler`, `BootControl`, `AudioMixer`,
`UsbGadget`, `Wifi`, `DtvPatch`, `DtvChannel`, in this order: the power HAL is the most concurrent
part and boot control the one whose failure is worst; the last three are the HALs in
which a thread of their own meets callers who do not wait for it. To do, in order:

1. HW sync streams of the audio HAL: start, pause, flush and standby, on top of
   `AudioMixer`.
2. `DtvPatch` with the packages kept per demux and mediasync.
3. `Thermal` and `DisplayLowPower`: small modules, composed with their callers.
4. Proofs: the safety that `WriteReturns` and `PlaysUnlessPaused` rest on; an abstract
   specification of what the boot control HAL promises the bootloader, in the manner of
   `DtvChannel`.

The project asks one question per run; a new module takes over the run of a question
that a theorem has settled, or its properties join a run that has room for them.

## 7. Not modelled, and why

- The contents of values, names and messages; logging; dump; JSON parsing. Properties
  do not depend on them. What the parser rejects is in `ConfigAssumption`.
- `HintManager`'s queries and the Power HAL's bookkeeping of modes: they change no
  state of the manager.
- In `BootControl`, the verity bit (set but never read here). A call whose first load or save fails has changed nothing and has no action
  of its own, except where it replies.
- The overflow of `duration + 650` in Acquire: callers pass the milliseconds of a touch.
- Codecs, signal processing and vendored code: arithmetic with no protocol.
- HALs that forward to sysfs, to a trusted application or to services outside this
  repository: there is nothing here to check but the forwarding.
