----------------------------- MODULE AudioMixer -----------------------------
(***************************************************************************)
(* The sub-mixer of the audio HAL: amlAudioMixer.c, audio_port.c and the   *)
(* stream calls of sub_mixing_factory.c.                                   *)
(*                                                                         *)
(* A stream that leaves standby gets an input port with a ring buffer and  *)
(* a list of messages. Its client writes into the ring buffer; pause,      *)
(* resume and flush are sent as messages. One thread visits the ports,     *)
(* one message per port and round, takes a period of data from each and    *)
(* mixes what it took. Only the thread and the deletion of a port take     *)
(* the mixer's lock; creation, writing and messages do not.                *)
(*                                                                         *)
(* A client calls its stream from one thread at a time. Data is counted in *)
(* periods (data_len_bytes). The insertion and dropping of data for HW     *)
(* sync, volume and the output device are left out.                        *)
(***************************************************************************)
EXTENDS Integers, Sequences

CONSTANTS
  Stream,     \* the output streams
  Direct,     \* those whose ports are AML_MIXER_INPUT_PORT_PCM_DIRECT
  NumPorts,   \* NR_INPORTS
  RingSize,   \* periods in a ring buffer
  Padding,    \* periods of silence a stream that is not direct starts with
  MaxWrite,   \* the periods of the longest write
  MaxMsgs,    \* bound on the messages that wait at a port
  CanExit     \* whether the device may be closed

None == "none"               \* NULL in in_ports

ASSUME MixerAssumption ==
  /\ None \notin Stream
  /\ Direct \subseteq Stream
  /\ NumPorts \in Nat \ {0}
  /\ RingSize \in Nat \ {0}
  /\ Padding \in Nat
  /\ MaxWrite \in Nat \ {0}
  /\ MaxMsgs \in Nat \ {0}
  /\ CanExit \in BOOLEAN

Port == 0..NumPorts - 1
NoPort == -1                 \* inputPortID of a stream that has none
Msg  == {"PAUSE", "FLUSH", "RESUME"}
State == {"STOPPED", "ACTIVE", "PAUSING", "PAUSED", "RESUMING", "FLUSHING", "FLUSHED"}
Threshold == (3 * RingSize) \div 4     \* inport_start_threshold of a direct port

VARIABLES
  owner,         \* in_ports: the stream whose port is in the slot, or None
  status,        \* port_status of each port
  ring,          \* periods in its ring buffer
  first_read,    \* nothing was taken yet
  msgs,          \* msg_list
  standby,       \* of each stream
  pause_status,
  inputPortID,
  pc,            \* where the client's call is
  picked,        \* the index init_mixer_input_port found
  togo,          \* periods still to be written
  thread,        \* where the mixing thread is
  todo,          \* the ports mixer_inports_read has not left yet
  seen,          \* the state it has read from the port it is at
  mixing_enable,
  exit_thread,
  closer,        \* where pcm_mixer_thread_exit is
  last,          \* the last message sent to a port, or a write since
  extra,         \* periods taken from a port since its pause was seen: 0, 1 or more
  fresh          \* periods in the ring written since the last flush call

portVars   == <<owner, status, ring, first_read, msgs>>
streamVars == <<standby, pause_status, inputPortID, pc, picked, togo>>
threadVars == <<thread, todo, seen>>
exitVars   == <<mixing_enable, exit_thread, closer>>
history    == <<last, extra, fresh>>
vars == <<portVars, streamVars, threadVars, exitVars, history>>

PortTypes ==
  /\ owner \in [Port -> Stream \union {None}]
  /\ status \in [Port -> State]
  /\ ring \in [Port -> 0..RingSize]
  /\ first_read \in [Port -> BOOLEAN]
  /\ msgs \in [Port -> Seq(Msg)]

StreamTypes ==
  /\ standby \in [Stream -> BOOLEAN]
  /\ pause_status \in [Stream -> BOOLEAN]
  /\ inputPortID \in [Stream -> Port \union {NoPort}]
  /\ pc \in [Stream -> {"idle", "init", "write", "activate"}]
  /\ picked \in [Stream -> Port]
  /\ togo \in [Stream -> 0..MaxWrite + Padding]

ThreadTypes ==
  /\ thread \in {"created", "entered", "loop", "message", "look", "act", "between",
                "ended"}
  /\ todo \subseteq Port
  /\ seen \in State

ExitTypes ==
  /\ mixing_enable \in BOOLEAN
  /\ exit_thread \in BOOLEAN
  /\ closer \in {"no", "disabled", "joining", "done"}

HistoryTypes ==
  /\ last \in [Port -> Msg \union {"none", "write"}]
  /\ extra \in [Port -> 0..2]
  /\ fresh \in [Port -> 0..RingSize]

(* A ring buffer holds no more than its size, and the thread visits ports.   *)
TypeOK == PortTypes /\ StreamTypes /\ ThreadTypes /\ ExitTypes /\ HistoryTypes

(* pcm_mixer_thread_run has just created the thread. *)
Init ==
  /\ owner = [i \in Port |-> None]
  /\ status = [i \in Port |-> "STOPPED"]
  /\ ring = [i \in Port |-> 0]
  /\ first_read = [i \in Port |-> TRUE]
  /\ msgs = [i \in Port |-> <<>>]
  /\ standby = [s \in Stream |-> TRUE]
  /\ pause_status = [s \in Stream |-> FALSE]
  /\ inputPortID = [s \in Stream |-> NoPort]
  /\ pc = [s \in Stream |-> "idle"]
  /\ picked = [s \in Stream |-> 0]
  /\ togo = [s \in Stream |-> 0]
  /\ thread = "created"
  /\ todo = {}
  /\ seen = "STOPPED"
  /\ mixing_enable = TRUE
  /\ exit_thread = FALSE
  /\ closer = "no"
  /\ last = [i \in Port |-> "none"]
  /\ extra = [i \in Port |-> 0]
  /\ fresh = [i \in Port |-> 0]

-----------------------------------------------------------------------------
(* Ports. *)

Used == {i \in Port : owner[i] # None}

(* The order of the bits in a mask. *)
Least(i, S) == i \in S /\ \A j \in S : i <= j

DirectPort(i) == owner[i] \in Direct

(* new_input_port in slot i; a port that was there is freed. *)
NewPort(i, s) ==
  /\ owner' = [owner EXCEPT ![i] = s]
  /\ status' = [status EXCEPT ![i] = "STOPPED"]
  /\ ring' = [ring EXCEPT ![i] = 0]
  /\ first_read' = [first_read EXCEPT ![i] = TRUE]
  /\ msgs' = [msgs EXCEPT ![i] = <<>>]
  /\ last' = [last EXCEPT ![i] = "none"]
  /\ extra' = [extra EXCEPT ![i] = 0]
  /\ fresh' = [fresh EXCEPT ![i] = 0]

(* Faulty variants of definitions, such as QueuedFirst, show that the        *)
(* properties notice a slip in the code; the model does not use them.        *)
QueuedFirst(i, m) == <<m>> \o msgs[i]

Queued(i, m) == Append(msgs[i], m)

(* send_mixer_inport_message. It looks the port up without any lock; with    *)
(* NoPort it looks outside in_ports, which is taken to find nothing.         *)
Send(s, m) ==
  LET i == inputPortID[s] IN
  IF i # NoPort /\ owner[i] # None
  THEN /\ Len(msgs[i]) < MaxMsgs
       /\ msgs' = [msgs EXCEPT ![i] = Queued(i, m)]
       /\ last' = [last EXCEPT ![i] = m]
       /\ extra' = [extra EXCEPT ![i] = 0]
       /\ fresh' = IF m = "FLUSH" THEN [fresh EXCEPT ![i] = 0] ELSE fresh
  ELSE UNCHANGED <<msgs, history>>

-----------------------------------------------------------------------------
(* The calls of a client: one at a time per stream, none while the device  *)
(* is being closed.                                                        *)

Callable(s) == pc[s] = "idle" /\ closer = "no"

(* out_write_subMixingPCM; a stream in standby needs a port first. *)
Write(s, n) ==
  /\ Callable(s)
  /\ togo' = [togo EXCEPT ![s] = n]
  /\ pc' = [pc EXCEPT ![s] = IF standby[s] THEN "init" ELSE "write"]
  /\ IF standby[s]
     THEN \E i \in Port : Least(i, Port \ Used) /\ picked' = [picked EXCEPT ![s] = i]
     ELSE UNCHANGED picked
  /\ UNCHANGED <<portVars, standby, pause_status, inputPortID, threadVars, exitVars, history>>

(* init_mixer_input_port, from the index it has found to its return. What is *)
(* not direct starts with silence, mixer_aux_buffer_write_sm.                *)
InitPort(s) ==
  /\ pc[s] = "init"
  /\ NewPort(picked[s], s)
  /\ inputPortID' = [inputPortID EXCEPT ![s] = picked[s]]
  /\ standby' = [standby EXCEPT ![s] = FALSE]
  /\ togo' = IF s \in Direct THEN togo ELSE [togo EXCEPT ![s] = @ + Padding]
  /\ pc' = [pc EXCEPT ![s] = "write"]
  /\ UNCHANGED <<pause_status, picked, threadVars, exitVars>>

Space(i) == RingSize - ring[i]

(* mixer_write_inport: as much as fits goes into the ring buffer ... *)
WriteData(s) ==
  LET i == inputPortID[s]
      n == IF togo[s] <= Space(i) THEN togo[s] ELSE Space(i)
  IN /\ pc[s] = "write"
     /\ owner[i] # None
     /\ ring' = [ring EXCEPT ![i] = @ + n]
     /\ fresh' = [fresh EXCEPT ![i] = @ + n]
     /\ togo' = [togo EXCEPT ![s] = @ - n]
     /\ pc' = [pc EXCEPT ![s] = "activate"]
     /\ last' = [last EXCEPT ![i] = "write"]
     /\ extra' = [extra EXCEPT ![i] = 0]
     /\ UNCHANGED <<owner, status, first_read, msgs, standby, pause_status,
                    inputPortID, picked, threadVars, exitVars>>

(* ... or there is no port any more: the write fails. *)
WriteFailed(s) ==
  /\ pc[s] = "write"
  /\ owner[inputPortID[s]] = None
  /\ pc' = [pc EXCEPT ![s] = "idle"]
  /\ togo' = [togo EXCEPT ![s] = 0]
  /\ UNCHANGED <<portVars, standby, pause_status, inputPortID, picked,
                 threadVars, exitVars, history>>

Written(s) == [pc EXCEPT ![s] = IF togo[s] = 0 THEN "idle" ELSE "write"]

ActivateStopped(s) ==
  LET i == inputPortID[s]
  IN /\ pc[s] = "activate"
     /\ status' = IF status[i] = "STOPPED" THEN [status EXCEPT ![i] = "ACTIVE"] ELSE status
     /\ last' = [last EXCEPT ![i] = "write"]
     /\ extra' = [extra EXCEPT ![i] = 0]
     /\ pc' = Written(s)
     /\ UNCHANGED <<owner, ring, first_read, msgs, standby, pause_status,
                    inputPortID, picked, togo, threadVars, exitVars, fresh>>

(* The port is made active whatever state it is in; aml_out_write_to_mixer *)
(* goes on, at the latest after 5 ms, until everything is written.         *)
Activate(s) ==
  LET i == inputPortID[s]
  IN /\ pc[s] = "activate"
     /\ status' = [status EXCEPT ![i] = "ACTIVE"]
     /\ last' = [last EXCEPT ![i] = "write"]
     /\ extra' = [extra EXCEPT ![i] = 0]
     /\ pc' = Written(s)
     /\ UNCHANGED <<owner, ring, first_read, msgs, standby, pause_status,
                    inputPortID, picked, togo, threadVars, exitVars, fresh>>

Pause(s) ==
  /\ Callable(s)
  /\ ~standby[s] /\ ~pause_status[s]
  /\ Send(s, "PAUSE")
  /\ pause_status' = [pause_status EXCEPT ![s] = TRUE]
  /\ UNCHANGED <<owner, status, ring, first_read, standby, inputPortID,
                 pc, picked, togo, threadVars, exitVars>>

ResumeSilently(s) ==
  /\ Callable(s)
  /\ pause_status[s]
  /\ pause_status' = [pause_status EXCEPT ![s] = FALSE]
  /\ UNCHANGED <<portVars, standby, inputPortID, pc, picked, togo, threadVars,
                 exitVars, history>>

Resume(s) ==
  /\ Callable(s)
  /\ pause_status[s]
  /\ Send(s, "RESUME")
  /\ pause_status' = [pause_status EXCEPT ![s] = FALSE]
  /\ UNCHANGED <<owner, status, ring, first_read, standby, inputPortID,
                 pc, picked, togo, threadVars, exitVars>>

Flush(s) ==
  /\ Callable(s)
  /\ pause_status[s]
  /\ Send(s, "FLUSH")
  /\ UNCHANGED <<owner, status, ring, first_read, streamVars,
                 threadVars, exitVars>>

(* mixer_inports_read holds the lock from its first port to its last. *)
Locked == thread \in {"message", "look", "act"}

StandbyForgetsPort(s) ==
  /\ Callable(s)
  /\ ~standby[s]
  /\ standby' = [standby EXCEPT ![s] = TRUE]
  /\ inputPortID' = [inputPortID EXCEPT ![s] = NoPort]
  /\ UNCHANGED <<portVars, pause_status, pc, picked, togo, threadVars, exitVars, history>>

(* out_standby_subMixingPCM; delete_mixer_input_port waits for the lock if    *)
(* it finds a port. The stream keeps its pause_status.                       *)
Standby(s) ==
  /\ Callable(s)
  /\ ~standby[s]
  /\ owner[inputPortID[s]] # None => ~Locked
  /\ standby' = [standby EXCEPT ![s] = TRUE]
  /\ inputPortID' = [inputPortID EXCEPT ![s] = NoPort]
  /\ NewPort(inputPortID[s], None)
  /\ UNCHANGED <<pause_status, pc, picked, togo, threadVars, exitVars>>

Client(s) == \/ \E n \in 1..MaxWrite : Write(s, n)
             \/ Pause(s) \/ Resume(s) \/ Flush(s) \/ Standby(s)

Writing(s) == InitPort(s) \/ WriteData(s) \/ WriteFailed(s) \/ Activate(s)

-----------------------------------------------------------------------------
(* The mixing thread, mixer_16b_threadloop. *)

Continue(next) == /\ thread' = next
                  /\ UNCHANGED <<portVars, streamVars, todo, seen, mixing_enable, closer, history>>

Enter == /\ thread = "created"
         /\ Continue(IF mixing_enable THEN "entered" ELSE "ended")
         /\ UNCHANGED exit_thread

ClearExit == /\ thread = "entered"
             /\ exit_thread' = FALSE
             /\ Continue("loop")

Leave == /\ thread = "loop"
         /\ exit_thread
         /\ Continue("ended")
         /\ UNCHANGED exit_thread

(* mixer_inports_read: the ports of the mask, the lowest index first. *)
BeginRead == /\ thread = "loop"
             /\ ~exit_thread
             /\ thread' = "message"
             /\ todo' = Used
             /\ UNCHANGED <<portVars, streamVars, seen, exitVars, history>>

At(i) == Least(i, todo)

Asked(m) == CASE m = "PAUSE" -> "PAUSING"
              [] m = "FLUSH" -> "FLUSHING"
              [] OTHER       -> "RESUMING"

(* process_port_msg: at most one message, the oldest ... *)
ProcessMessage(i) ==
  /\ thread = "message"
  /\ At(i)
  /\ thread' = "look"
  /\ IF msgs[i] = <<>> THEN UNCHANGED <<status, msgs>>
     ELSE /\ msgs' = [msgs EXCEPT ![i] = Tail(@)]
          /\ status' = [status EXCEPT ![i] = Asked(Head(msgs[i]))]
  /\ UNCHANGED <<owner, ring, first_read, streamVars, todo, seen, exitVars, history>>

(* ... and then the state of the port; a writer may change it meanwhile. *)
Look(i) ==
  /\ thread = "look"
  /\ At(i)
  /\ thread' = "act"
  /\ seen' = status[i]
  /\ UNCHANGED <<portVars, streamVars, todo, exitVars, history>>

Act(i) == /\ thread = "act"
          /\ At(i)
          /\ thread' = "message"
          /\ todo' = todo \ {i}
          /\ UNCHANGED <<owner, msgs, streamVars, seen, exitVars, last>>

Flushing(i) == DirectPort(i) /\ seen = "FLUSHING"
Silent(i)   == DirectPort(i) /\ seen \in {"STOPPED", "PAUSED", "FLUSHED"}

Mixable(i) == /\ ~Flushing(i) /\ ~Silent(i)
              /\ ring[i] > 0
              /\ first_read[i] /\ DirectPort(i) => ring[i] >= Threshold

(* mixer_flush_inport, then FLUSHED. *)
FlushPort(i) == /\ Act(i)
                /\ Flushing(i)
                /\ ring' = [ring EXCEPT ![i] = 0]
                /\ fresh' = [fresh EXCEPT ![i] = 0]
                /\ status' = [status EXCEPT ![i] = "FLUSHED"]
                /\ UNCHANGED <<first_read, extra>>

(* A direct port that is resuming is active before data is looked at. *)
Resumed(i) == IF DirectPort(i) /\ seen = "RESUMING" THEN "ACTIVE" ELSE status[i]

SkipPort(i) == /\ Act(i)
               /\ ~Flushing(i) /\ ~Mixable(i)
               /\ status' = [status EXCEPT ![i] = Resumed(i)]
               /\ UNCHANGED <<ring, first_read, extra, fresh>>

FadedOut(i) == Resumed(i)

(* The period taken from a pausing direct port is faded out and its last. *)
Taken(i) == IF DirectPort(i) /\ seen = "PAUSING" THEN "PAUSED" ELSE Resumed(i)

PauseSeen(i) == last[i] = "PAUSE" /\ msgs[i] = <<>>

TakePeriod(i) ==
  /\ Act(i)
  /\ Mixable(i)
  /\ ring' = [ring EXCEPT ![i] = @ - 1]
  /\ fresh' = [fresh EXCEPT ![i] = IF @ < ring[i] THEN @ ELSE @ - 1]
  /\ first_read' = [first_read EXCEPT ![i] = FALSE]
  /\ status' = [status EXCEPT ![i] = Taken(i)]
  /\ extra' = [extra EXCEPT ![i] = IF PauseSeen(i) /\ @ < 2 THEN @ + 1 ELSE @]

EndRead == /\ thread = "message"
           /\ todo = {}
           /\ Continue("between")
           /\ UNCHANGED exit_thread

(* notify_mixer_input_avail, mixer_do_mixing_16bit and the output: what was *)
(* taken is mixed, and the ports are as they were.                           *)
Mix == /\ thread = "between"
       /\ Continue("loop")
       /\ UNCHANGED exit_thread

Thread == \/ Enter \/ ClearExit \/ Leave \/ BeginRead \/ EndRead \/ Mix
          \/ \E i \in Port : \/ ProcessMessage(i) \/ Look(i)
                             \/ FlushPort(i) \/ SkipPort(i) \/ TakePeriod(i)

-----------------------------------------------------------------------------
(* pcm_mixer_thread_exit, when the device is closed after its streams. *)

ExitDisable == /\ CanExit
               /\ closer = "no"
               /\ \A s \in Stream : pc[s] = "idle" /\ standby[s]
               /\ mixing_enable' = FALSE
               /\ closer' = "disabled"
               /\ UNCHANGED <<portVars, streamVars, threadVars, exit_thread, history>>

ExitUnrequested == /\ closer = "disabled"
                   /\ closer' = "joining"
                   /\ UNCHANGED <<portVars, streamVars, threadVars, mixing_enable,
                                  exit_thread, history>>

ExitRequest == /\ closer = "disabled"
               /\ exit_thread' = TRUE
               /\ closer' = "joining"
               /\ UNCHANGED <<portVars, streamVars, threadVars, mixing_enable, history>>

ExitJoin == /\ closer = "joining"
            /\ thread = "ended"
            /\ closer' = "done"
            /\ UNCHANGED <<portVars, streamVars, threadVars, mixing_enable, exit_thread,
                           history>>

Closing == ExitDisable \/ ExitRequest \/ ExitJoin

Next == \/ \E s \in Stream : Client(s) \/ Writing(s)
        \/ Thread
        \/ Closing

(* The thread runs, and calls that have begun go on. Nobody has to call. *)
Fairness == /\ WF_vars(Thread)
            /\ \A s \in Stream : WF_vars(Writing(s))
            /\ WF_vars(ExitRequest) /\ WF_vars(ExitJoin)

Spec == Init /\ [][Next]_vars /\ Fairness
-----------------------------------------------------------------------------
(* Properties. *)

Obeying(m) == CASE m = "PAUSE" -> {"PAUSING", "PAUSED"}
                [] m = "FLUSH" -> {"FLUSHING", "FLUSHED"}
                [] OTHER       -> {"RESUMING", "ACTIVE"}

(* Messages take effect in the order of the calls: a port that has no more  *)
(* messages is in the state its last call asked for, unless it was written  *)
(* to since.                                                                *)
LastCallWins ==
  \A i \in Port : msgs[i] = <<>> /\ last[i] \in Msg => status[i] \in Obeying(last[i])

Quiet == {"PAUSING", "PAUSED", "FLUSHING", "FLUSHED"}

(* The port is the stream's, and no other stream was given it too. *)
Alone(s, i) == /\ i \in Used /\ owner[i] = s
               /\ \A t \in Stream : inputPortID[t] = i <=> t = s

(* The port follows the pause_status of its stream: unless the stream is     *)
(* paused the port is not left quiet, or will not be, since the last message *)
(* that waits at it is a resume. No write that came in between and no state  *)
(* that the thread read earlier makes it quiet again. (pause_status is       *)
(* changed by the client, port_status by client and thread.)                 *)
UnpausedIsNotQuiet ==
  \A s \in Stream, i \in Port : Alone(s, i) /\ ~pause_status[s] =>
    IF msgs[i] = <<>> THEN status[i] \notin Quiet
                      ELSE msgs[i][Len(msgs[i])] = "RESUME"

(* AmlAudioOutPort.h:93-94: the volume is ramped down over the next mix     *)
(* buffer following the pause request, and then the track is marked as      *)
(* paused; so at most one more period is taken from a direct port after its *)
(* pause. (The thread does not look at the state of the others.)            *)
PausePlaysOneMore == \A i \in Port : DirectPort(i) => extra[i] <= 1

(* AmlAudioOutPort.h:83, "All previously buffered data is discarded": a      *)
(* direct port that has taken the flush message plays nothing written before *)
(* the call, whatever other messages and writes came in between.             *)
OldDataNotPlayed ==
  [][\A i \in Port : TakePeriod(i) /\ DirectPort(i) /\ fresh[i] < ring[i]
        => \E k \in DOMAIN msgs[i] : msgs[i][k] = "FLUSH"]_vars

(* No port is left behind: a stream that goes to standby can still delete   *)
(* every port there is.                                                     *)
NoPortLost == \A i \in Used : \E s \in Stream : inputPortID[s] = i

(* A write comes to its end, whatever messages wait at its port.            *)
WriteReturns == \A s \in Stream : (pc[s] # "idle") ~> (pc[s] = "idle")

Waiting(s) == LET i == inputPortID[s]
              IN i # NoPort /\ ~pause_status[s] /\ ring[i] > 0 /\ ~first_read[i]

(* Playback goes on: data of a stream that is not paused, or no longer, is  *)
(* taken from its port.                                                     *)
PlaysUnlessPaused ==
  \A s \in Stream : \/ []<>~Waiting(s)
                    \/ []<><<\E i \in Port : TakePeriod(i)>>_vars

(* An exit that begins when the thread is in its loop returns; a thread that *)
(* is only starting may forget the request, see ClearExit.                   *)
ExitOfRunningReturns ==
  (closer = "disabled" /\ thread \notin {"created", "entered"}) ~> (closer = "done")
=============================================================================
