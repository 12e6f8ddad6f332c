-------------------------- MODULE AudioMixer_proofs --------------------------
(***************************************************************************)
(* For any number of streams and ports: the mixer's variables keep their   *)
(* types, and the messages of a port take effect in the order of the calls *)
(* that sent them.                                                         *)
(***************************************************************************)
EXTENDS AudioMixer, SequenceTheorems, TLAPS

(* A stream that is not in standby has a port, and so does one that writes. *)
Ported ==
  \A s \in Stream : /\ ~standby[s] => inputPortID[s] \in Port
                    /\ pc[s] \in {"write", "activate"} => ~standby[s]

(* Padding is added to a write once, and what is fresh is in the ring.      *)
Bounded ==
  /\ \A s \in Stream : pc[s] \in {"idle", "init"} => togo[s] <= MaxWrite
  /\ \A i \in Port : fresh[i] <= ring[i]

IInv == TypeOK /\ Ported /\ Bounded

(* The last message waits at the end of the list, or the port has obeyed it *)
(* and the thread does not act on anything older.                           *)
Waits(i)  == msgs[i] # <<>> /\ last[i] \in Msg => msgs[i][Len(msgs[i])] = last[i]
Obeyed(i) == msgs[i] = <<>> /\ last[i] \in Msg => status[i] \in Obeying(last[i])
Current(i) ==
  thread = "act" /\ At(i) /\ msgs[i] = <<>> /\ last[i] \in Msg => seen = status[i]

Ordered == \A i \in Port : Waits(i) /\ Obeyed(i) /\ Current(i)

-----------------------------------------------------------------------------
(* Lemmas on the operators.                                                *)

(* A message, once asked for, puts the port in a state that obeys it.      *)
LEMMA AskedObeys == \A m \in Msg : Asked(m) \in Obeying(m) /\ Asked(m) \in State
  BY DEF Msg, Asked, Obeying, State

(* The thread is at one port at most.                                      *)
LEMMA AtOne ==
  ASSUME ThreadTypes, NEW i \in Port, NEW j \in Port, At(i), At(j)
  PROVE  i = j
  BY DEF At, Least, ThreadTypes, Port

(* Zero and the initial state of a port are of the types of TypeOK.        *)
LEMMA Zeros ==
  /\ 0 \in 0..RingSize /\ 0 \in 0..2 /\ 0 \in Port /\ 0 \in 0..MaxWrite + Padding
  /\ "STOPPED" \in State
  /\ <<>> \in Seq(Msg)
  <1>1. 0 \in 0..RingSize /\ 0 \in 0..2 /\ 0 \in Port /\ 0 \in 0..MaxWrite + Padding
    BY MixerAssumption DEF Port
  <1>2. "STOPPED" \in State
    BY DEF State
  <1> QED
    BY <1>1, <1>2

(* What an action leaves alone keeps its type.                             *)
LEMMA Frames ==
  /\ PortTypes /\ UNCHANGED portVars => PortTypes'
  /\ StreamTypes /\ UNCHANGED streamVars => StreamTypes'
  /\ ThreadTypes /\ UNCHANGED threadVars => ThreadTypes'
  /\ ExitTypes /\ UNCHANGED exitVars => ExitTypes'
  /\ HistoryTypes /\ UNCHANGED history => HistoryTypes'
  <1>1. PortTypes /\ UNCHANGED portVars => PortTypes'
    BY DEF PortTypes, portVars
  <1>2. StreamTypes /\ UNCHANGED streamVars => StreamTypes'
    BY DEF StreamTypes, streamVars
  <1>3. ThreadTypes /\ UNCHANGED threadVars => ThreadTypes'
    BY DEF ThreadTypes, threadVars
  <1>4. ExitTypes /\ UNCHANGED exitVars => ExitTypes'
    BY DEF ExitTypes, exitVars
  <1>5. HistoryTypes /\ UNCHANGED history => HistoryTypes'
    BY DEF HistoryTypes, history
  <1> QED
    BY <1>1, <1>2, <1>3, <1>4, <1>5

(* The invariants depend on few variables.                                 *)
LEMMA Untouched ==
  /\ Ported /\ UNCHANGED <<standby, inputPortID, pc>> => Ported'
  /\ Bounded /\ UNCHANGED <<pc, togo, fresh, ring>> => Bounded'
  BY DEF Ported, Bounded

(* A port made in slot i, or deleted there, has its types and no message.  *)
LEMMA NewPortTypes ==
  ASSUME PortTypes, HistoryTypes, NEW i \in Port, NEW s \in Stream \union {None}, NewPort(i, s)
  PROVE  PortTypes' /\ HistoryTypes'
  <1>1. PortTypes'
    BY Zeros DEF PortTypes, NewPort
  <1>2. HistoryTypes'
    BY Zeros DEF HistoryTypes, NewPort
  <1> QED
    BY <1>1, <1>2

(* Sending a message keeps the types of what it changes.                   *)
LEMMA SendTypes ==
  ASSUME IInv, NEW s \in Stream, NEW m \in Msg, Send(s, m),
         UNCHANGED <<owner, status, ring, first_read>>
  PROVE  /\ PortTypes' /\ HistoryTypes'
         /\ \A j \in Port : fresh'[j] <= ring'[j]
  <1> DEFINE i == inputPortID[s]
  <1>1. CASE i # NoPort /\ owner[i] # None
    <2>1. i \in Port
      BY <1>1 DEF IInv, TypeOK, StreamTypes
    <2>2. msgs' = [msgs EXCEPT ![i] = Append(@, m)] /\ msgs' \in [Port -> Seq(Msg)]
      <3>1. msgs' = [msgs EXCEPT ![i] = Append(@, m)]
        BY <1>1 DEF Send, Queued
      <3>2. msgs[i] \in Seq(Msg) /\ Append(msgs[i], m) \in Seq(Msg)
        BY <2>1 DEF IInv, TypeOK, PortTypes
      <3>3. msgs \in [Port -> Seq(Msg)]
        BY DEF IInv, TypeOK, PortTypes
      <3> HIDE DEF i
      <3>4. msgs' \in [Port -> Seq(Msg)]
        BY <2>1, <3>1, <3>2, <3>3
      <3> QED
        BY <3>1, <3>4
    <2>3. PortTypes'
      BY <2>2 DEF IInv, TypeOK, PortTypes
    <2>4. last' = [last EXCEPT ![i] = m] /\ extra' = [extra EXCEPT ![i] = 0]
      BY <1>1 DEF Send
    <2>5. fresh' = fresh \/ fresh' = [fresh EXCEPT ![i] = 0]
      BY <1>1 DEF Send
    <2>6. HistoryTypes'
      BY <2>1, <2>4, <2>5, Zeros DEF IInv, TypeOK, HistoryTypes
    <2>7. CASE fresh' = fresh
      BY <2>7, <2>3, <2>6 DEF IInv, Bounded
    <2>8. CASE fresh' = [fresh EXCEPT ![i] = 0]
      <3>1. \A j \in Port : ring'[j] = ring[j] /\ ring[j] \in Nat
        BY MixerAssumption DEF IInv, TypeOK, PortTypes
      <3>2. \A j \in Port : fresh'[j] = 0 \/ fresh'[j] = fresh[j]
        BY <2>8 DEF IInv, TypeOK, HistoryTypes
      <3>3. \A j \in Port : fresh'[j] <= ring'[j]
        BY <3>1, <3>2 DEF IInv, Bounded
      <3> QED
        BY <3>3, <2>3, <2>6
    <2> QED
      BY <2>3, <2>5, <2>6, <2>7, <2>8
  <1>2. CASE ~(i # NoPort /\ owner[i] # None)
    <2>1. UNCHANGED <<portVars, history>>
      BY <1>2 DEF Send, portVars, history
    <2> QED
      <3>1. PortTypes' /\ HistoryTypes'
        BY <2>1, Frames DEF IInv, TypeOK
      <3>2. \A j \in Port : fresh'[j] <= ring'[j]
        BY <2>1 DEF IInv, Bounded, portVars, history
      <3> QED
        BY <3>1, <3>2
  <1> QED
    BY <1>1, <1>2

-----------------------------------------------------------------------------
(* Types.                                                                  *)

(* The initial state has its types.                                        *)
LEMMA TypeInit == Init => IInv
  <1> SUFFICES ASSUME Init PROVE IInv
    OBVIOUS
  <1>1. PortTypes
    BY Zeros DEF Init, PortTypes
  <1>2. StreamTypes
    BY Zeros DEF Init, StreamTypes
  <1>3. ThreadTypes
    BY Zeros DEF Init, ThreadTypes
  <1>4. ExitTypes
    BY DEF Init, ExitTypes
  <1>5. HistoryTypes
    BY Zeros DEF Init, HistoryTypes
  <1>6. Ported
    BY DEF Init, Ported
  <1>7. Bounded
    BY MixerAssumption DEF Init, Bounded
  <1> QED
    BY <1>1, <1>2, <1>3, <1>4, <1>5, <1>6, <1>7 DEF IInv, TypeOK

(* The calls of a client keep the types.                                   *)
LEMMA ClientTypes ==
  ASSUME IInv, NEW s \in Stream, Client(s)
  PROVE  IInv'
  <1> USE DEF IInv, TypeOK
  <1>1. ASSUME NEW n \in 1..MaxWrite, Write(s, n) PROVE IInv'
    <2>1. n \in 0..MaxWrite + Padding /\ n <= MaxWrite
      BY MixerAssumption
    <2>2. picked' \in [Stream -> Port]
      BY <1>1 DEF Write, StreamTypes
    <2>3. /\ togo' = [togo EXCEPT ![s] = n]
          /\ pc' = [pc EXCEPT ![s] = IF standby[s] THEN "init" ELSE "write"]
          /\ pc[s] = "idle"
          /\ UNCHANGED <<portVars, standby, pause_status, inputPortID, threadVars, exitVars, history>>
      BY <1>1 DEF Write, Callable
    <2>4. StreamTypes'
      BY <2>1, <2>2, <2>3 DEF StreamTypes
    <2>5. PortTypes' /\ ThreadTypes' /\ ExitTypes' /\ HistoryTypes'
      BY <2>3, Frames
    <2>6. Ported'
      BY <2>3 DEF Ported, StreamTypes
    <2>7. Bounded'
      BY <2>1, <2>3 DEF Bounded, StreamTypes, portVars, history
    <2> QED
      BY <2>4, <2>5, <2>6, <2>7
  <1>2. ASSUME Pause(s) \/ Resume(s) \/ Flush(s) PROVE IInv'
    <2>1. /\ \E m \in Msg : Send(s, m)
          /\ UNCHANGED <<owner, status, ring, first_read, standby, inputPortID, pc, picked,
                         togo, threadVars, exitVars>>
      BY <1>2 DEF Pause, Resume, Flush, Msg, streamVars
    <2>2. pause_status' \in [Stream -> BOOLEAN]
      BY <1>2 DEF Pause, Resume, Flush, streamVars, StreamTypes
    <2>3. PortTypes' /\ HistoryTypes' /\ \A j \in Port : fresh'[j] <= ring'[j]
      BY <2>1, SendTypes
    <2>4. StreamTypes'
      BY <2>1, <2>2 DEF StreamTypes
    <2>5. ThreadTypes' /\ ExitTypes'
      BY <2>1, Frames
    <2>6. Ported'
      BY <2>1, Untouched
    <2>7. Bounded'
      BY <2>1, <2>3 DEF Bounded
    <2> QED
      BY <2>3, <2>4, <2>5, <2>6, <2>7
  <1>3. ASSUME Standby(s) PROVE IInv'
    <2>1. /\ pc[s] = "idle" /\ ~standby[s] /\ NewPort(inputPortID[s], None)
          /\ standby' = [standby EXCEPT ![s] = TRUE]
          /\ inputPortID' = [inputPortID EXCEPT ![s] = NoPort]
          /\ UNCHANGED <<pause_status, pc, picked, togo, threadVars, exitVars>>
      BY <1>3 DEF Standby, Callable
    <2>2. inputPortID[s] \in Port
      BY <2>1 DEF Ported
    <2>3. PortTypes' /\ HistoryTypes'
      BY <2>1, <2>2, NewPortTypes
    <2>4. StreamTypes'
      BY <2>1 DEF StreamTypes
    <2>5. ThreadTypes' /\ ExitTypes'
      BY <2>1, Frames
    <2>6. Ported'
      BY <2>1 DEF Ported, StreamTypes
    <2>7. Bounded'
      BY <2>1, <2>2 DEF Bounded, NewPort, PortTypes, HistoryTypes
    <2> QED
      BY <2>3, <2>4, <2>5, <2>6, <2>7
  <1> QED
    BY <1>1, <1>2, <1>3 DEF Client

(* The steps of a write keep the types.                                    *)
LEMMA WritingTypes ==
  ASSUME IInv, NEW s \in Stream, Writing(s)
  PROVE  IInv'
  <1> USE DEF IInv, TypeOK
  <1>1. ASSUME InitPort(s) PROVE IInv'
    <2>1. /\ pc[s] = "init" /\ NewPort(picked[s], s)
          /\ inputPortID' = [inputPortID EXCEPT ![s] = picked[s]]
          /\ standby' = [standby EXCEPT ![s] = FALSE]
          /\ pc' = [pc EXCEPT ![s] = "write"]
          /\ UNCHANGED <<pause_status, picked, threadVars, exitVars>>
      BY <1>1 DEF InitPort
    <2>2. picked[s] \in Port
      BY DEF StreamTypes
    <2>3. PortTypes' /\ HistoryTypes'
      BY <2>1, <2>2, NewPortTypes
    <2>4. togo[s] \in 0..MaxWrite /\ togo[s] + Padding \in 0..MaxWrite + Padding
      BY <2>1, MixerAssumption DEF StreamTypes, Bounded
    <2>5. /\ togo' \in [Stream -> 0..MaxWrite + Padding]
          /\ \A r \in Stream : r # s => togo'[r] = togo[r]
      BY <1>1, <2>4 DEF InitPort, StreamTypes
    <2>6. StreamTypes'
      BY <2>1, <2>2, <2>5 DEF StreamTypes
    <2>7. ThreadTypes' /\ ExitTypes'
      BY <2>1, Frames
    <2>8. Ported'
      BY <2>1, <2>2 DEF Ported, StreamTypes
    <2>9. Bounded'
      BY <2>1, <2>2, <2>5 DEF Bounded, NewPort, PortTypes, HistoryTypes, StreamTypes
    <2> QED
      BY <2>3, <2>6, <2>7, <2>8, <2>9
  <1>2. ASSUME WriteData(s) PROVE IInv'
    <2> DEFINE i == inputPortID[s]
               n == IF togo[s] <= Space(i) THEN togo[s] ELSE Space(i)
    <2>1. /\ pc[s] = "write"
          /\ ring' = [ring EXCEPT ![i] = @ + n] /\ fresh' = [fresh EXCEPT ![i] = @ + n]
          /\ togo' = [togo EXCEPT ![s] = @ - n]
          /\ pc' = [pc EXCEPT ![s] = "activate"]
          /\ last' = [last EXCEPT ![i] = "write"] /\ extra' = [extra EXCEPT ![i] = 0]
          /\ UNCHANGED <<owner, status, first_read, msgs, standby, pause_status,
                         inputPortID, picked, threadVars, exitVars>>
      BY <1>2 DEF WriteData
    <2>2. i \in Port
      BY <2>1 DEF Ported
    <2>3. /\ ring[i] \in 0..RingSize /\ fresh[i] \in 0..RingSize /\ fresh[i] <= ring[i]
          /\ togo[s] \in 0..MaxWrite + Padding
      BY <2>2 DEF PortTypes, HistoryTypes, StreamTypes, Bounded
    <2>4. /\ n \in Nat /\ ring[i] + n \in 0..RingSize /\ fresh[i] + n \in 0..RingSize
          /\ togo[s] - n \in 0..MaxWrite + Padding
      BY <2>3, MixerAssumption DEF Space
    <2> HIDE DEF i, n
    <2>5. PortTypes'
      BY <2>1, <2>2, <2>4 DEF PortTypes
    <2>6. StreamTypes'
      BY <2>1, <2>4 DEF StreamTypes
    <2>7. HistoryTypes'
      BY <2>1, <2>2, <2>4, Zeros DEF HistoryTypes
    <2>8. ThreadTypes' /\ ExitTypes'
      BY <2>1, Frames
    <2>9. Ported'
      BY <2>1 DEF Ported, StreamTypes
    <2>10. Bounded'
      <3>1. fresh[i] + n <= ring[i] + n
        BY <2>3, <2>4
      <3>2. /\ fresh'[i] = fresh[i] + n /\ ring'[i] = ring[i] + n
            /\ \A j \in Port \ {i} : fresh'[j] = fresh[j] /\ ring'[j] = ring[j]
        BY <2>1, <2>2 DEF PortTypes, HistoryTypes
      <3>3. \A r \in Stream : pc'[r] \in {"idle", "init"} => r # s /\ pc'[r] = pc[r]
        BY <2>1 DEF StreamTypes
      <3>4. \A r \in Stream : r # s => togo'[r] = togo[r]
        BY <2>1 DEF StreamTypes
      <3>5. \A r \in Stream : pc'[r] \in {"idle", "init"} => togo'[r] <= MaxWrite
        BY <3>3, <3>4 DEF Bounded
      <3>6. \A j \in Port : fresh'[j] <= ring'[j]
        BY <3>1, <3>2 DEF Bounded
      <3> QED BY <3>5, <3>6 DEF Bounded
    <2> QED
      BY <2>5, <2>6, <2>7, <2>8, <2>9, <2>10
  <1>3. ASSUME WriteFailed(s) PROVE IInv'
    <2>1. /\ pc' = [pc EXCEPT ![s] = "idle"] /\ togo' = [togo EXCEPT ![s] = 0]
          /\ UNCHANGED <<portVars, standby, pause_status, inputPortID, picked, threadVars,
                         exitVars, history>>
      BY <1>3 DEF WriteFailed
    <2>2. StreamTypes'
      BY <2>1, Zeros DEF StreamTypes
    <2>3. PortTypes' /\ ThreadTypes' /\ ExitTypes' /\ HistoryTypes'
      BY <2>1, Frames
    <2>4. Ported'
      BY <2>1 DEF Ported, StreamTypes
    <2>5. Bounded'
      BY <2>1, MixerAssumption DEF Bounded, StreamTypes, portVars, history
    <2> QED
      BY <2>2, <2>3, <2>4, <2>5
  <1>4. ASSUME Activate(s) PROVE IInv'
    <2> DEFINE i == inputPortID[s]
    <2>1. /\ pc[s] = "activate" /\ status' = [status EXCEPT ![i] = "ACTIVE"]
          /\ last' = [last EXCEPT ![i] = "write"] /\ extra' = [extra EXCEPT ![i] = 0]
          /\ pc' = [pc EXCEPT ![s] = IF togo[s] = 0 THEN "idle" ELSE "write"]
          /\ UNCHANGED <<owner, ring, first_read, msgs, standby, pause_status,
                         inputPortID, picked, togo, threadVars, exitVars, fresh>>
      BY <1>4 DEF Activate, Written
    <2>2. i \in Port
      BY <2>1 DEF Ported
    <2> HIDE DEF i
    <2>3. PortTypes'
      BY <2>1, <2>2 DEF PortTypes, State
    <2>4. StreamTypes'
      BY <2>1 DEF StreamTypes
    <2>5. HistoryTypes'
      BY <2>1, <2>2, Zeros DEF HistoryTypes
    <2>6. ThreadTypes' /\ ExitTypes'
      BY <2>1, Frames
    <2>7. Ported'
      BY <2>1 DEF Ported, StreamTypes
    <2>8. Bounded'
      BY <2>1, MixerAssumption DEF Bounded, StreamTypes
    <2> QED
      BY <2>3, <2>4, <2>5, <2>6, <2>7, <2>8
  <1> QED
    BY <1>1, <1>2, <1>3, <1>4 DEF Writing

(* The steps of the mixing thread keep the types.                          *)
LEMMA ThreadKeepsTypes ==
  ASSUME IInv, Thread
  PROVE  IInv'
  <1> USE DEF IInv, TypeOK
  <1>1. ASSUME Enter \/ ClearExit \/ Leave \/ EndRead \/ Mix PROVE IInv'
    <2>1. /\ thread' \in {"ended", "entered", "loop", "between"}
          /\ exit_thread' \in BOOLEAN
          /\ UNCHANGED <<portVars, streamVars, todo, seen, mixing_enable, closer, history>>
      <3>1. exit_thread' = FALSE \/ exit_thread' = exit_thread
        BY <1>1 DEF Enter, ClearExit, Leave, EndRead, Mix
      <3>2. exit_thread' \in BOOLEAN
        BY <3>1 DEF ExitTypes
      <3>3. /\ thread' \in {"ended", "entered", "loop", "between"}
            /\ UNCHANGED <<portVars, streamVars, todo, seen, mixing_enable, closer, history>>
        BY <1>1 DEF Enter, ClearExit, Leave, EndRead, Mix, Continue
      <3> QED
        BY <3>2, <3>3
    <2>2. PortTypes' /\ StreamTypes' /\ HistoryTypes'
      BY <2>1, Frames
    <2>3. ThreadTypes'
      BY <2>1 DEF ThreadTypes
    <2>4. ExitTypes'
      BY <2>1 DEF ExitTypes
    <2>5. Ported' /\ Bounded'
      BY <2>1, Untouched DEF portVars, streamVars, history
    <2> QED
      BY <2>2, <2>3, <2>4, <2>5
  <1>2. ASSUME BeginRead PROVE IInv'
    <2>1. /\ thread' = "message" /\ todo' = Used
          /\ UNCHANGED <<portVars, streamVars, seen, exitVars, history>>
      BY <1>2 DEF BeginRead
    <2>2. PortTypes' /\ StreamTypes' /\ ExitTypes' /\ HistoryTypes'
      BY <2>1, Frames
    <2>3. ThreadTypes'
      BY <2>1 DEF ThreadTypes, Used
    <2>4. Ported' /\ Bounded'
      BY <2>1, Untouched DEF portVars, streamVars, history
    <2> QED
      BY <2>2, <2>3, <2>4
  <1>3. ASSUME NEW i \in Port, ProcessMessage(i) PROVE IInv'
    <2>1. /\ thread' = "look"
          /\ UNCHANGED <<owner, ring, first_read, streamVars, todo, seen, exitVars, history>>
      BY <1>3 DEF ProcessMessage
    <2>2. /\ status' \in [Port -> State]
          /\ msgs' \in [Port -> Seq(Msg)]
      <3>1. CASE msgs[i] = <<>>
        BY <3>1, <1>3 DEF ProcessMessage, PortTypes
      <3>2. CASE msgs[i] # <<>>
        <4>1. msgs[i] \in Seq(Msg) /\ Head(msgs[i]) \in Msg /\ Tail(msgs[i]) \in Seq(Msg)
          BY <3>2 DEF PortTypes
        <4>2. Asked(Head(msgs[i])) \in State
          BY <4>1, AskedObeys
        <4>3. /\ msgs' = [msgs EXCEPT ![i] = Tail(@)]
              /\ status' = [status EXCEPT ![i] = Asked(Head(msgs[i]))]
          BY <3>2, <1>3 DEF ProcessMessage
        <4>4. msgs' \in [Port -> Seq(Msg)]
          BY <4>1, <4>3 DEF PortTypes
        <4>5. status' \in [Port -> State]
          BY <4>2, <4>3 DEF PortTypes
        <4> QED
          BY <4>4, <4>5
      <3> QED
        BY <3>1, <3>2
    <2>3. PortTypes'
      BY <2>1, <2>2 DEF PortTypes
    <2>4. ThreadTypes'
      BY <2>1 DEF ThreadTypes
    <2>5. StreamTypes' /\ ExitTypes' /\ HistoryTypes'
      BY <2>1, Frames
    <2>6. Ported' /\ Bounded'
      BY <2>1, Untouched DEF streamVars, history
    <2> QED
      BY <2>3, <2>4, <2>5, <2>6
  <1>4. ASSUME NEW i \in Port, Look(i) PROVE IInv'
    <2>1. /\ thread' = "act" /\ seen' = status[i]
          /\ UNCHANGED <<portVars, streamVars, todo, exitVars, history>>
      BY <1>4 DEF Look
    <2>2. PortTypes' /\ StreamTypes' /\ ExitTypes' /\ HistoryTypes'
      BY <2>1, Frames
    <2>3. ThreadTypes'
      BY <2>1 DEF ThreadTypes, PortTypes
    <2>4. Ported' /\ Bounded'
      BY <2>1, Untouched DEF portVars, streamVars, history
    <2> QED
      BY <2>2, <2>3, <2>4
  <1>5. ASSUME NEW i \in Port, FlushPort(i) \/ SkipPort(i) \/ TakePeriod(i) PROVE IInv'
    <2>1. /\ thread' = "message" /\ todo' = todo \ {i}
          /\ UNCHANGED <<owner, msgs, streamVars, seen, exitVars, last>>
      BY <1>5 DEF FlushPort, SkipPort, TakePeriod, Act
    <2>2. StreamTypes' /\ ExitTypes'
      BY <2>1, Frames
    <2>3. ThreadTypes'
      BY <2>1 DEF ThreadTypes
    <2>4. Ported'
      BY <2>1, Untouched DEF streamVars
    <2>5. status' \in [Port -> State] /\ first_read' \in [Port -> BOOLEAN]
      <3>1. Resumed(i) \in State /\ Taken(i) \in State /\ "FLUSHED" \in State
        BY DEF Resumed, Taken, PortTypes, State
      <3>2. \E x \in State : status' = [status EXCEPT ![i] = x]
        BY <1>5, <3>1 DEF FlushPort, SkipPort, TakePeriod
      <3>3. first_read' = first_read \/ first_read' = [first_read EXCEPT ![i] = FALSE]
        BY <1>5 DEF FlushPort, SkipPort, TakePeriod
      <3>4. status' \in [Port -> State]
        BY <3>2 DEF PortTypes
      <3>5. first_read' \in [Port -> BOOLEAN]
        BY <3>3 DEF PortTypes
      <3> QED
        BY <3>4, <3>5
    <2>6. extra' \in [Port -> 0..2]
      BY <1>5 DEF FlushPort, SkipPort, TakePeriod, HistoryTypes
    <2>7. /\ ring' \in [Port -> 0..RingSize]
          /\ fresh' \in [Port -> 0..RingSize]
          /\ \A j \in Port : fresh'[j] <= ring'[j]
      <3>1. /\ ring \in [Port -> 0..RingSize] /\ fresh \in [Port -> 0..RingSize]
            /\ \A j \in Port : fresh[j] <= ring[j]
        BY DEF PortTypes, HistoryTypes, Bounded
      <3>2. CASE FlushPort(i)
        <4>1. /\ ring' = [ring EXCEPT ![i] = 0] /\ fresh' = [fresh EXCEPT ![i] = 0]
          BY <3>2 DEF FlushPort
        <4> QED
          BY <3>1, <4>1, Zeros
      <3>3. CASE SkipPort(i)
        BY <3>1, <3>3 DEF SkipPort
      <3>4. CASE TakePeriod(i)
        <4>1. /\ ring' = [ring EXCEPT ![i] = ring[i] - 1]
              /\ fresh' = [fresh EXCEPT ![i] = IF fresh[i] < ring[i] THEN fresh[i] ELSE fresh[i] - 1]
              /\ ring[i] > 0
          BY <3>4 DEF TakePeriod, Mixable
        <4>2. /\ ring[i] - 1 \in 0..RingSize
              /\ fresh[i] - 1 \in 0..RingSize \/ fresh[i] < ring[i]
              /\ fresh[i] < ring[i] => fresh[i] <= ring[i] - 1
              /\ fresh[i] - 1 <= ring[i] - 1
          BY <3>1, <4>1, MixerAssumption
        <4>3. \E f \in 0..RingSize : fresh' = [fresh EXCEPT ![i] = f] /\ f <= ring[i] - 1
          <5>1. CASE fresh[i] < ring[i]
            BY <5>1, <3>1, <4>1, <4>2
          <5>2. CASE ~(fresh[i] < ring[i])
            BY <5>2, <3>1, <4>1, <4>2
          <5> QED
            BY <5>1, <5>2
        <4> QED
          BY <3>1, <4>1, <4>2, <4>3
      <3> QED
        BY <1>5, <3>2, <3>3, <3>4
    <2>8. PortTypes' /\ HistoryTypes'
      BY <2>1, <2>5, <2>6, <2>7 DEF PortTypes, HistoryTypes
    <2>9. Bounded'
      BY <2>1, <2>7 DEF Bounded, streamVars
    <2> QED
      BY <2>2, <2>3, <2>4, <2>8, <2>9
  <1> QED
    BY <1>1, <1>2, <1>3, <1>4, <1>5 DEF Thread

(* Closing the device keeps the types.                                     *)
LEMMA ClosingTypes ==
  ASSUME IInv, Closing
  PROVE  IInv'
  <1> USE DEF IInv, TypeOK
  <1>1. UNCHANGED <<portVars, streamVars, threadVars, history>>
    BY DEF Closing, ExitDisable, ExitRequest, ExitJoin
  <1>2. PortTypes' /\ StreamTypes' /\ ThreadTypes' /\ HistoryTypes'
    BY <1>1, Frames
  <1>3. mixing_enable' \in BOOLEAN
    BY DEF Closing, ExitDisable, ExitRequest, ExitJoin, ExitTypes
  <1>4. exit_thread' \in BOOLEAN
    BY DEF Closing, ExitDisable, ExitRequest, ExitJoin, ExitTypes
  <1>5. closer' \in {"no", "disabled", "joining", "done"}
    BY DEF Closing, ExitDisable, ExitRequest, ExitJoin
  <1>6. Ported' /\ Bounded'
    BY <1>1, Untouched DEF portVars, streamVars, history
  <1> QED
    BY <1>2, <1>3, <1>4, <1>5, <1>6 DEF ExitTypes

(* Every step keeps the types.                                             *)
LEMMA TypeStep == IInv /\ [Next]_vars => IInv'
  <1> SUFFICES ASSUME IInv, [Next]_vars PROVE IInv'
    OBVIOUS
  <1>1. CASE \E s \in Stream : Client(s) \/ Writing(s)
    BY <1>1, ClientTypes, WritingTypes
  <1>2. CASE Thread
    BY <1>2, ThreadKeepsTypes
  <1>3. CASE Closing
    BY <1>3, ClosingTypes
  <1>4. CASE UNCHANGED vars
    <2>1. UNCHANGED <<portVars, streamVars, threadVars, exitVars, history>>
      BY <1>4 DEF vars
    <2> QED
      BY <2>1, Frames, Untouched DEF IInv, TypeOK, portVars, streamVars, history
  <1> QED
    BY <1>1, <1>2, <1>3, <1>4 DEF Next

(* The variables of the mixer keep their types: no write makes a ring      *)
(* buffer hold more than its size, in whatever order the streams write and *)
(* the thread takes (mixer_write_inport, mixer_inports_read).              *)
THEOREM TypeCorrect == Spec => []TypeOK
  <1>1. Spec => []IInv
    BY TypeInit, TypeStep, PTL DEF Spec
  <1>2. IInv => TypeOK
    BY DEF IInv
  <1> QED
    BY <1>1, <1>2, PTL

-----------------------------------------------------------------------------
(* The order of the messages.                                              *)

(* A port whose state, messages and history stay keeps what Ordered says   *)
(* of it, while the thread stays or is not about to act.                   *)
LEMMA Unmoved ==
  ASSUME Ordered, NEW j \in Port,
         status'[j] = status[j], msgs'[j] = msgs[j], last'[j] = last[j],
         thread' # "act" \/ UNCHANGED <<thread, todo, seen>>
  PROVE  Waits(j)' /\ Obeyed(j)' /\ Current(j)'
  <1>1. Waits(j) /\ Obeyed(j) /\ Current(j)
    BY DEF Ordered
  <1>2. Waits(j)' /\ Obeyed(j)'
    BY <1>1 DEF Waits, Obeyed
  <1>3. Current(j)'
    BY <1>1 DEF Current, At, Least
  <1> QED
    BY <1>2, <1>3

(* A port that has had no message since it was made or written to.         *)
LEMMA NoMessage ==
  ASSUME NEW j \in Port, last'[j] \notin Msg
  PROVE  Waits(j)' /\ Obeyed(j)' /\ Current(j)'
  BY DEF Waits, Obeyed, Current

(* Removing the first of several messages leaves the last one.              *)
LEMMA TailLast ==
  ASSUME NEW q \in Seq(Msg), q # <<>>, Tail(q) # <<>>
  PROVE  Tail(q)[Len(Tail(q))] = q[Len(q)]
  <1>1. Len(q) \in Nat /\ Len(q) > 1 /\ Len(Tail(q)) = Len(q) - 1
    OBVIOUS
  <1>2. Tail(q)[Len(q) - 1] = q[Len(q)]
    BY <1>1
  <1> QED
    BY <1>1, <1>2

(* If nothing is left, the first was the last one.                         *)
LEMMA OneIsLast ==
  ASSUME NEW q \in Seq(Msg), q # <<>>, Tail(q) = <<>>
  PROVE  q[Len(q)] = Head(q)
  <1>1. Len(q) = 1
    <2>1. Len(q) \in Nat /\ Len(q) > 0 /\ Len(Tail(q)) = Len(q) - 1
      OBVIOUS
    <2>2. Len(<<>>) = 0
      BY EmptySeq
    <2>3. Len(Tail(q)) = 0
      BY <2>2, Zenon
    <2>4. PICK n \in Nat : n = Len(q) /\ n > 0 /\ Len(Tail(q)) = n - 1
      BY <2>1
    <2>5. n - 1 = 0
      BY <2>3, <2>4, Zenon
    <2>6. n = 1
      BY <2>4, <2>5
    <2> QED
      BY <2>4, <2>6, Zenon
  <1> QED
    BY <1>1

(* Sending a message puts it at the end of the list.                       *)
LEMMA SendOrders ==
  ASSUME IInv, Ordered, NEW s \in Stream, NEW m \in Msg, Send(s, m), UNCHANGED status,
         UNCHANGED threadVars
  PROVE  Ordered'
  <1>1. CASE inputPortID[s] # NoPort /\ owner[inputPortID[s]] # None
    <2>1. PICK i \in Port : i = inputPortID[s]
      BY <1>1 DEF IInv, TypeOK, StreamTypes
    <2>2. msgs' = [msgs EXCEPT ![i] = Append(@, m)] /\ last' = [last EXCEPT ![i] = m]
      BY <1>1, <2>1 DEF Send, Queued
    <2>3. msgs[i] \in Seq(Msg) /\ msgs'[i] = Append(msgs[i], m) /\ last'[i] = m
      BY <2>1, <2>2 DEF IInv, TypeOK, PortTypes, HistoryTypes
    <2>4. msgs'[i] # <<>> /\ msgs'[i][Len(msgs'[i])] = m
      BY <2>3
    <2>5. Waits(i)' /\ Obeyed(i)' /\ Current(i)'
      BY <2>3, <2>4 DEF Waits, Obeyed, Current
    <2>6. ASSUME NEW j \in Port, j # i
          PROVE  Waits(j)' /\ Obeyed(j)' /\ Current(j)'
      <3>1. status'[j] = status[j] /\ msgs'[j] = msgs[j] /\ last'[j] = last[j]
        BY <2>2, <2>6 DEF IInv, TypeOK, PortTypes, HistoryTypes
      <3> QED
        BY <3>1, Unmoved DEF threadVars
    <2> QED
      BY <2>5, <2>6 DEF Ordered
  <1>2. CASE ~(inputPortID[s] # NoPort /\ owner[inputPortID[s]] # None)
    <2>1. UNCHANGED <<msgs, last, status, thread, todo, seen>>
      BY <1>2 DEF Send, history, threadVars
    <2> QED
      BY <2>1, Unmoved DEF Ordered
  <1> QED
    BY <1>1, <1>2

(* A port that is made, deleted or written to has no message to obey.      *)
LEMMA TouchOrders ==
  ASSUME IInv, Ordered, NEW i \in Port, UNCHANGED threadVars,
         NEW x \in {"none", "write"}, last' = [last EXCEPT ![i] = x],
         \A j \in Port : j # i => status'[j] = status[j] /\ msgs'[j] = msgs[j]
  PROVE  Ordered'
  <1>1. last'[i] \notin Msg
    BY DEF IInv, TypeOK, HistoryTypes, Msg
  <1>2. Waits(i)' /\ Obeyed(i)' /\ Current(i)'
    BY <1>1, NoMessage
  <1>3. ASSUME NEW j \in Port, j # i
        PROVE  Waits(j)' /\ Obeyed(j)' /\ Current(j)'
    <2>1. last'[j] = last[j]
      BY <1>3 DEF IInv, TypeOK, HistoryTypes
    <2> QED
      BY <1>3, <2>1, Unmoved DEF threadVars
  <1> QED
    BY <1>2, <1>3 DEF Ordered

(* The calls of the clients and the closing of the device keep the order.  *)
LEMMA CallsOrder ==
  ASSUME IInv, Ordered, (\E s \in Stream : Client(s) \/ Writing(s)) \/ Closing
  PROVE  Ordered'
  <1> USE DEF IInv, TypeOK
  <1>1. ASSUME NEW s \in Stream, Pause(s) \/ Resume(s) \/ Flush(s) PROVE Ordered'
    <2>1. UNCHANGED status /\ UNCHANGED threadVars /\ \E m \in Msg : Send(s, m)
      BY <1>1 DEF Pause, Resume, Flush, Msg
    <2> QED
      BY <2>1, SendOrders
  <1>2. ASSUME NEW s \in Stream, NEW i \in Port, NEW o \in Stream \union {None}, NewPort(i, o),
               UNCHANGED threadVars
        PROVE  Ordered'
    <2>1. /\ last' = [last EXCEPT ![i] = "none"]
          /\ \A j \in Port : j # i => status'[j] = status[j] /\ msgs'[j] = msgs[j]
      BY <1>2 DEF NewPort, PortTypes
    <2> QED
      BY <1>2, <2>1, TouchOrders
  <1>3. ASSUME NEW s \in Stream, Standby(s) PROVE Ordered'
    <2>1. inputPortID[s] \in Port /\ NewPort(inputPortID[s], None) /\ UNCHANGED threadVars
      BY <1>3 DEF Standby, Ported
    <2> QED
      BY <1>2, <2>1
  <1>4. ASSUME NEW s \in Stream, InitPort(s) PROVE Ordered'
    <2>1. picked[s] \in Port /\ NewPort(picked[s], s) /\ UNCHANGED threadVars
      BY <1>4 DEF InitPort, StreamTypes
    <2> QED
      BY <1>2, <2>1
  <1>5. ASSUME NEW s \in Stream, WriteData(s) \/ Activate(s) PROVE Ordered'
    <2> DEFINE i == inputPortID[s]
    <2>1. i \in Port
      BY <1>5 DEF WriteData, Activate, Ported
    <2>2. /\ last' = [last EXCEPT ![i] = "write"]
          /\ UNCHANGED msgs /\ UNCHANGED threadVars
          /\ status' = status \/ status' = [status EXCEPT ![i] = "ACTIVE"]
      BY <1>5 DEF WriteData, Activate
    <2>3. \A j \in Port : j # i => status'[j] = status[j] /\ msgs'[j] = msgs[j]
      BY <2>2 DEF PortTypes
    <2> HIDE DEF i
    <2> QED
      BY <2>1, <2>2, <2>3, TouchOrders
  <1>6. ASSUME NEW s \in Stream, (\E n \in 1..MaxWrite : Write(s, n)) \/ WriteFailed(s)
        PROVE  Ordered'
    <2>1. UNCHANGED <<portVars, threadVars, history>>
      BY <1>6 DEF Write, WriteFailed
    <2> QED
      BY <2>1, Unmoved DEF Ordered, portVars, threadVars, history
  <1>7. ASSUME Closing PROVE Ordered'
    <2>1. UNCHANGED <<portVars, threadVars, history>>
      BY <1>7 DEF Closing, ExitDisable, ExitRequest, ExitJoin
    <2> QED
      BY <2>1, Unmoved DEF Ordered, portVars, threadVars, history
  <1> QED
    BY <1>1, <1>3, <1>4, <1>5, <1>6, <1>7 DEF Client, Writing

(* What the thread does at a port, it does in the order of the messages.   *)
LEMMA ThreadOrders ==
  ASSUME IInv, Ordered, Thread
  PROVE  Ordered'
  <1> USE DEF IInv, TypeOK
  <1>1. ASSUME Enter \/ ClearExit \/ Leave \/ EndRead \/ Mix \/ BeginRead PROVE Ordered'
    <2>1. UNCHANGED <<portVars, history>> /\ thread' # "act"
      BY <1>1 DEF Enter, ClearExit, Leave, EndRead, Mix, BeginRead, Continue
    <2> QED
      BY <2>1, Unmoved DEF Ordered, portVars, history
  <1>2. ASSUME NEW i \in Port, ProcessMessage(i) PROVE Ordered'
    <2>1. thread' = "look" /\ UNCHANGED history
      BY <1>2 DEF ProcessMessage
    <2>2. ASSUME NEW j \in Port, j # i
          PROVE  Waits(j)' /\ Obeyed(j)' /\ Current(j)'
      <3>1. status'[j] = status[j] /\ msgs'[j] = msgs[j] /\ last'[j] = last[j]
        BY <1>2, <2>1, <2>2 DEF ProcessMessage, PortTypes, history
      <3> QED
        BY <2>1, <3>1, Unmoved
    <2>3. CASE msgs[i] = <<>>
      <3>1. status'[i] = status[i] /\ msgs'[i] = msgs[i] /\ last'[i] = last[i]
        BY <1>2, <2>1, <2>3 DEF ProcessMessage, history
      <3> QED
        BY <2>1, <2>2, <3>1, Unmoved DEF Ordered
    <2>4. CASE msgs[i] # <<>>
      <3>1. /\ msgs[i] \in Seq(Msg) /\ Head(msgs[i]) \in Msg
            /\ msgs'[i] = Tail(msgs[i])
            /\ status'[i] = Asked(Head(msgs[i]))
            /\ last'[i] = last[i]
        BY <1>2, <2>1, <2>4 DEF ProcessMessage, PortTypes, history
      <3>2. last[i] \in Msg => msgs[i][Len(msgs[i])] = last[i]
        BY <2>4 DEF Ordered, Waits
      <3>3. /\ Tail(msgs[i]) # <<>> => Tail(msgs[i])[Len(Tail(msgs[i]))] = msgs[i][Len(msgs[i])]
            /\ Tail(msgs[i]) = <<>> => msgs[i][Len(msgs[i])] = Head(msgs[i])
        <4>1. PICK q \in Seq(Msg) : q = msgs[i]
          BY <3>1
        <4>2. Tail(q) # <<>> => Tail(q)[Len(Tail(q))] = q[Len(q)]
          BY <2>4, <4>1, TailLast
        <4>3. Tail(q) = <<>> => q[Len(q)] = Head(q)
          BY <2>4, <4>1, OneIsLast
        <4> QED
          BY <4>1, <4>2, <4>3
      <3>5. Waits(i)'
        BY <3>1, <3>2, <3>3 DEF Waits
      <3>6. Obeyed(i)'
        BY <3>1, <3>2, <3>3, AskedObeys DEF Obeyed
      <3>7. Current(i)'
        BY <2>1 DEF Current
      <3> QED
        BY <2>2, <3>5, <3>6, <3>7 DEF Ordered
    <2> QED
      BY <2>3, <2>4
  <1>3. ASSUME NEW i \in Port, Look(i) PROVE Ordered'
    <2>1. /\ thread' = "act" /\ seen' = status[i] /\ At(i)
          /\ UNCHANGED <<portVars, history, todo>>
      BY <1>3 DEF Look
    <2>2. ASSUME NEW j \in Port
          PROVE  Waits(j)' /\ Obeyed(j)' /\ Current(j)'
      <3>1. Waits(j) /\ Obeyed(j)
        BY DEF Ordered
      <3>2. Waits(j)' /\ Obeyed(j)'
        BY <2>1, <3>1 DEF Waits, Obeyed, portVars, history
      <3>3. At(j)' => j = i
        <4>1. At(j)' => At(j)
          BY <2>1 DEF At, Least
        <4> QED
          BY <2>1, <4>1, AtOne
      <3>4. Current(j)'
        BY <2>1, <3>3 DEF Current, portVars
      <3> QED
        BY <3>2, <3>4
    <2> QED
      BY <2>2 DEF Ordered
  <1>4. ASSUME NEW i \in Port, FlushPort(i) \/ SkipPort(i) \/ TakePeriod(i) PROVE Ordered'
    <2>1. /\ thread = "act" /\ thread' = "message" /\ At(i)
          /\ UNCHANGED <<msgs, last>>
      BY <1>4 DEF FlushPort, SkipPort, TakePeriod, Act
    <2>2. \/ seen = "FLUSHING" /\ status' = [status EXCEPT ![i] = "FLUSHED"]
          \/ seen = "PAUSING" /\ status' = [status EXCEPT ![i] = "PAUSED"]
          \/ seen = "RESUMING" /\ status' = [status EXCEPT ![i] = "ACTIVE"]
          \/ status' = [status EXCEPT ![i] = status[i]]
      BY <1>4 DEF FlushPort, SkipPort, TakePeriod, Flushing, Taken, Resumed
    <2>3. ASSUME NEW j \in Port, j # i
          PROVE  Waits(j)' /\ Obeyed(j)' /\ Current(j)'
      <3>1. status'[j] = status[j]
        BY <2>2, <2>3 DEF PortTypes
      <3> QED
        BY <2>1, <3>1, Unmoved
    <2>4. Waits(i)' /\ Current(i)'
      BY <2>1 DEF Ordered, Waits, Current
    <2>5. Obeyed(i)'
      <3> SUFFICES ASSUME msgs[i] = <<>>, last[i] \in Msg
                   PROVE  status'[i] \in Obeying(last[i])
        BY <2>1 DEF Obeyed
      <3>1. seen = status[i] /\ status[i] \in Obeying(last[i])
        BY <2>1 DEF Ordered, Obeyed, Current
      <3>2. \/ seen = "FLUSHING" /\ status'[i] = "FLUSHED"
            \/ seen = "PAUSING" /\ status'[i] = "PAUSED"
            \/ seen = "RESUMING" /\ status'[i] = "ACTIVE"
            \/ status'[i] = status[i]
        BY <2>2 DEF PortTypes
      <3> QED
        BY <3>1, <3>2 DEF Obeying, Msg
    <2> QED
      BY <2>3, <2>4, <2>5 DEF Ordered
  <1> QED
    BY <1>1, <1>2, <1>3, <1>4 DEF Thread

(* Every step keeps the order.                                             *)
LEMMA OrderStep == IInv /\ Ordered /\ [Next]_vars => Ordered'
  <1> SUFFICES ASSUME IInv, Ordered, [Next]_vars PROVE Ordered'
    OBVIOUS
  <1>1. CASE (\E s \in Stream : Client(s) \/ Writing(s)) \/ Closing
    BY <1>1, CallsOrder
  <1>2. CASE Thread
    BY <1>2, ThreadOrders
  <1>3. CASE UNCHANGED vars
    BY <1>3, Unmoved DEF Ordered, vars, portVars, threadVars, history
  <1> QED
    BY <1>1, <1>2, <1>3 DEF Next

(* Messages take effect in the order of the calls, whatever number waits   *)
(* and wherever the thread is between two of its steps (process_port_msg,  *)
(* mixer_inports_read).                                                    *)
THEOREM CallsInOrder == Spec => []LastCallWins
  <1>1. Init => Ordered
    BY DEF Init, Ordered, Waits, Obeyed, Current, Msg
  <1>2. IInv /\ Ordered /\ [Next]_vars => IInv' /\ Ordered'
    BY TypeStep, OrderStep
  <1>3. Ordered => LastCallWins
    BY DEF Ordered, Obeyed, LastCallWins
  <1> QED
    BY <1>1, <1>2, <1>3, TypeInit, PTL DEF Spec

-----------------------------------------------------------------------------
(* The end of a pause's ramp.                                              *)

(* A direct port from which a period was taken since its pause is paused,  *)
(* and no message waits that would change that.                            *)
Ramped(i) ==
  DirectPort(i) => extra[i] = 0 \/ (extra[i] = 1 /\ PauseSeen(i) /\ status[i] = "PAUSED")

RampedAll == \A i \in Port : Ramped(i)

(* What leaves a port alone, or starts its count anew, keeps Ramped.       *)
LEMMA RampFrames ==
  ASSUME RampedAll, NEW j \in Port,
         \/ extra'[j] = 0
         \/ /\ owner'[j] = owner[j] /\ extra'[j] = extra[j] /\ status'[j] = status[j]
            /\ last'[j] = last[j] /\ msgs'[j] = msgs[j]
  PROVE  Ramped(j)'
  BY DEF RampedAll, Ramped, DirectPort, PauseSeen

(* A change of one port that starts its count anew.                        *)
LEMMA RampRestarts ==
  ASSUME IInv, RampedAll, NEW i \in Port, extra' = [extra EXCEPT ![i] = 0],
         \A j \in Port : j # i => /\ owner'[j] = owner[j] /\ status'[j] = status[j]
                                 /\ last'[j] = last[j] /\ msgs'[j] = msgs[j]
  PROVE  RampedAll'
  <1>1. ASSUME NEW j \in Port PROVE Ramped(j)'
    <2>1. extra'[j] = 0 \/ (j # i /\ extra'[j] = extra[j])
      BY DEF IInv, TypeOK, HistoryTypes
    <2> QED
      BY <2>1, RampFrames
  <1> QED
    BY <1>1 DEF RampedAll

(* The calls of the clients and the closing of the device keep it.         *)
LEMMA CallsRamp ==
  ASSUME IInv, RampedAll, (\E s \in Stream : Client(s) \/ Writing(s)) \/ Closing
  PROVE  RampedAll'
  <1> USE DEF IInv, TypeOK
  <1>1. ASSUME UNCHANGED <<portVars, history>> PROVE RampedAll'
    BY <1>1, RampFrames DEF RampedAll, portVars, history
  <1>2. ASSUME NEW i \in Port, NEW o \in Stream \union {None}, NewPort(i, o) PROVE RampedAll'
    BY <1>2, RampRestarts DEF NewPort, PortTypes, HistoryTypes
  <1>3. ASSUME NEW s \in Stream, NEW m \in Msg, Send(s, m), UNCHANGED <<owner, status>>
        PROVE  RampedAll'
    <2>1. CASE UNCHANGED <<msgs, history>>
      BY <1>3, <2>1, RampFrames DEF RampedAll, history
    <2>2. CASE ~UNCHANGED <<msgs, history>>
      <3>1. PICK i \in Port : i = inputPortID[s]
        BY <1>3, <2>2 DEF Send, StreamTypes
      <3>2. /\ msgs' = [msgs EXCEPT ![i] = Queued(i, m)] /\ last' = [last EXCEPT ![i] = m]
            /\ extra' = [extra EXCEPT ![i] = 0]
        BY <1>3, <2>2, <3>1 DEF Send
      <3> QED
        BY <1>3, <3>2, RampRestarts DEF PortTypes, HistoryTypes
    <2> QED
      BY <2>1, <2>2
  <1>4. ASSUME NEW s \in Stream, Pause(s) \/ Resume(s) \/ Flush(s) PROVE RampedAll'
    <2>1. UNCHANGED <<owner, status>> /\ \E m \in Msg : Send(s, m)
      BY <1>4 DEF Pause, Resume, Flush, Msg
    <2> QED
      BY <1>3, <2>1
  <1>5. ASSUME NEW s \in Stream, Standby(s) \/ InitPort(s) PROVE RampedAll'
    <2>1. \E i \in Port, o \in Stream \union {None} : NewPort(i, o)
      BY <1>5 DEF Standby, InitPort, Ported, StreamTypes
    <2> QED
      BY <1>2, <2>1
  <1>6. ASSUME NEW s \in Stream, WriteData(s) \/ Activate(s) PROVE RampedAll'
    <2>1. PICK i \in Port : i = inputPortID[s]
      BY <1>6 DEF WriteData, Activate, Ported
    <2>2. /\ last' = [last EXCEPT ![i] = "write"] /\ extra' = [extra EXCEPT ![i] = 0]
          /\ UNCHANGED <<owner, msgs>>
          /\ status' = status \/ status' = [status EXCEPT ![i] = "ACTIVE"]
      BY <1>6, <2>1 DEF WriteData, Activate
    <2> QED
      BY <2>2, RampRestarts DEF PortTypes, HistoryTypes
  <1>7. ASSUME \/ \E s \in Stream : (\E n \in 1..MaxWrite : Write(s, n)) \/ WriteFailed(s)
               \/ Closing
        PROVE  RampedAll'
    BY <1>1, <1>7 DEF Write, WriteFailed, Closing, ExitDisable, ExitRequest, ExitJoin
  <1> QED
    BY <1>4, <1>5, <1>6, <1>7 DEF Client, Writing

(* A period taken while the port is pausing is the one that leaves it      *)
(* paused; from a paused port nothing is taken.                            *)
LEMMA ThreadRamps ==
  ASSUME IInv, Ordered, RampedAll, Thread
  PROVE  RampedAll'
  <1> USE DEF IInv, TypeOK
  <1>1. ASSUME Enter \/ ClearExit \/ Leave \/ EndRead \/ Mix \/ BeginRead
               \/ \E i \in Port : Look(i)
        PROVE  RampedAll'
    <2>1. UNCHANGED <<portVars, history>>
      BY <1>1 DEF Enter, ClearExit, Leave, EndRead, Mix, BeginRead, Continue, Look
    <2> QED
      BY <2>1, RampFrames DEF RampedAll, portVars, history
  <1>2. ASSUME NEW i \in Port, ProcessMessage(i) PROVE RampedAll'
    <2>1. ASSUME NEW j \in Port PROVE Ramped(j)'
      <3>1. UNCHANGED <<owner, history>>
        BY <1>2 DEF ProcessMessage
      <3>2. CASE msgs[j] = <<>> \/ j # i
        <4>1. status'[j] = status[j] /\ msgs'[j] = msgs[j]
          BY <1>2, <3>2 DEF ProcessMessage, PortTypes
        <4> QED
          BY <3>1, <4>1, RampFrames DEF history
      <3>3. CASE msgs[j] # <<>>
        BY <3>1, <3>3 DEF RampedAll, Ramped, PauseSeen, DirectPort, history
      <3> QED
        BY <3>2, <3>3
    <2> QED
      BY <2>1 DEF RampedAll
  <1>3. ASSUME NEW i \in Port, FlushPort(i) \/ SkipPort(i) \/ TakePeriod(i) PROVE RampedAll'
    <2>1. thread = "act" /\ At(i) /\ UNCHANGED <<owner, msgs, last>>
      BY <1>3 DEF FlushPort, SkipPort, TakePeriod, Act
    <2>2. PauseSeen(i) => seen = status[i] /\ status[i] \in {"PAUSING", "PAUSED"}
      BY <2>1 DEF PauseSeen, Ordered, Current, Obeyed, Obeying, Msg
    <2>3. ASSUME NEW j \in Port, j # i PROVE Ramped(j)'
      <3>1. extra'[j] = extra[j] /\ status'[j] = status[j]
        BY <1>3, <2>3 DEF FlushPort, SkipPort, TakePeriod, PortTypes, HistoryTypes
      <3> QED
        BY <2>1, <3>1, RampFrames
    <2>4. Ramped(i)'
      <3> SUFFICES ASSUME DirectPort(i)
                   PROVE  extra'[i] = 0 \/ (extra'[i] = 1 /\ PauseSeen(i) /\ status'[i] = "PAUSED")
        BY <2>1 DEF Ramped, DirectPort, PauseSeen
      <3>1. extra[i] = 0 \/ (extra[i] = 1 /\ PauseSeen(i) /\ status[i] = "PAUSED")
        BY DEF RampedAll, Ramped
      <3>2. CASE FlushPort(i)
        <4>1. ~PauseSeen(i) /\ extra'[i] = extra[i]
          BY <2>2, <3>2 DEF FlushPort, Flushing
        <4> QED
          BY <3>1, <4>1
      <3>3. CASE SkipPort(i)
        <4>1. extra'[i] = extra[i] /\ status' = [status EXCEPT ![i] = Resumed(i)]
          BY <3>3 DEF SkipPort
        <4>2. PauseSeen(i) => status'[i] = status[i]
          BY <2>2, <4>1 DEF Resumed, PortTypes
        <4> QED
          BY <3>1, <4>1, <4>2
      <3>4. CASE TakePeriod(i)
        <4>1. /\ extra' = [extra EXCEPT ![i] = IF PauseSeen(i) /\ extra[i] < 2
                                               THEN extra[i] + 1 ELSE extra[i]]
              /\ status' = [status EXCEPT ![i] = Taken(i)]
              /\ seen # "PAUSED"
          BY <3>4 DEF TakePeriod, Mixable, Silent
        <4>2. CASE PauseSeen(i)
          <5>1. seen = "PAUSING" /\ extra[i] = 0
            BY <2>2, <3>1, <4>1, <4>2
          <5>2. extra'[i] = 1
            BY <4>1, <4>2, <5>1 DEF HistoryTypes
          <5>3. status'[i] = "PAUSED"
            BY <4>1, <5>1 DEF Taken, PortTypes
          <5> QED
            BY <4>2, <5>2, <5>3
        <4>3. CASE ~PauseSeen(i)
          BY <3>1, <4>1, <4>3 DEF HistoryTypes
        <4> QED
          BY <4>2, <4>3
      <3> QED
        BY <1>3, <3>2, <3>3, <3>4
    <2> QED
      BY <2>3, <2>4 DEF RampedAll
  <1> QED
    BY <1>1, <1>2, <1>3 DEF Thread

(* A direct port that was told to pause plays the period that is faded out *)
(* and no more, whatever waits and wherever the thread is when it is told: *)
(* PausePlaysOneMore.                                                      *)
THEOREM PauseEndsWithOnePeriod == Spec => []PausePlaysOneMore
  <1>1. Init => RampedAll
    BY DEF Init, RampedAll, Ramped
  <1>2. IInv /\ Ordered /\ RampedAll /\ [Next]_vars => RampedAll'
    <2> SUFFICES ASSUME IInv, Ordered, RampedAll, [Next]_vars PROVE RampedAll'
      OBVIOUS
    <2>1. CASE UNCHANGED vars
      BY <2>1, RampFrames DEF RampedAll, vars, portVars, history
    <2> QED
      BY <2>1, CallsRamp, ThreadRamps DEF Next
  <1>3. RampedAll => PausePlaysOneMore
    BY DEF RampedAll, Ramped, PausePlaysOneMore
  <1>4. Init => Ordered
    BY DEF Init, Ordered, Waits, Obeyed, Current, Msg
  <1> QED
    BY <1>1, <1>2, <1>3, <1>4, TypeInit, TypeStep, OrderStep, PTL DEF Spec

-----------------------------------------------------------------------------
(* Ports and their streams.                                                *)

(* Every port is the one some stream remembers, and a stream that is in    *)
(* standby, or about to get a port, remembers none.                        *)
Remembered ==
  /\ NoPortLost
  /\ \A s \in Stream : /\ standby[s] => inputPortID[s] = NoPort
                       /\ pc[s] = "init" => standby[s]

(* Every step keeps the ports remembered. *)
LEMMA RememberedStep == IInv /\ Remembered /\ [Next]_vars => Remembered'
  <1> USE DEF IInv, TypeOK
  <1> SUFFICES ASSUME IInv, Remembered, [Next]_vars PROVE Remembered'
    OBVIOUS
  <1>1. ASSUME UNCHANGED <<owner, standby, inputPortID, pc>> PROVE Remembered'
    BY <1>1 DEF Remembered, NoPortLost, Used
  <1>2. ASSUME NEW s \in Stream, InitPort(s) PROVE Remembered'
    <2>1. PICK i \in Port : i = picked[s]
      BY DEF StreamTypes
    <2>2. /\ standby[s] /\ inputPortID[s] = NoPort
          /\ inputPortID' = [inputPortID EXCEPT ![s] = i]
          /\ standby' = [standby EXCEPT ![s] = FALSE]
          /\ pc' = [pc EXCEPT ![s] = "write"]
          /\ owner' = [owner EXCEPT ![i] = s]
      BY <1>2, <2>1 DEF InitPort, NewPort, Remembered
    <2>3. ASSUME NEW j \in Used' PROVE \E r \in Stream : inputPortID'[r] = j
      <3>1. CASE j = i
        BY <2>2, <3>1 DEF StreamTypes
      <3>2. CASE j # i
        <4>1. j \in Used /\ j \in Port
          BY <2>2, <2>3, <3>2 DEF Used, PortTypes
        <4>2. PICK r \in Stream : inputPortID[r] = j
          BY <4>1 DEF Remembered, NoPortLost
        <4>3. NoPort \notin Port
          BY MixerAssumption DEF NoPort, Port
        <4>4. r # s
          BY <2>2, <4>1, <4>2, <4>3
        <4> QED
          BY <2>2, <4>2, <4>4 DEF StreamTypes
      <3> QED
        BY <3>1, <3>2
    <2>4. ASSUME NEW r \in Stream
          PROVE  (standby'[r] => inputPortID'[r] = NoPort) /\ (pc'[r] = "init" => standby'[r])
      BY <2>2 DEF Remembered, StreamTypes
    <2> QED
      BY <2>3, <2>4 DEF Remembered, NoPortLost
  <1>3. ASSUME NEW s \in Stream, Standby(s) PROVE Remembered'
    <2>1. PICK i \in Port : i = inputPortID[s]
      BY <1>3 DEF Standby, Ported
    <2>2. /\ inputPortID' = [inputPortID EXCEPT ![s] = NoPort]
          /\ standby' = [standby EXCEPT ![s] = TRUE]
          /\ UNCHANGED pc
          /\ owner' = [owner EXCEPT ![i] = None]
      BY <1>3, <2>1 DEF Standby, NewPort
    <2>3. ASSUME NEW j \in Used' PROVE \E r \in Stream : inputPortID'[r] = j
      <3>1. j # i /\ j \in Used
        BY <2>2, <2>3 DEF Used, PortTypes
      <3>2. PICK r \in Stream : inputPortID[r] = j
        BY <3>1 DEF Remembered, NoPortLost
      <3> QED
        BY <2>1, <2>2, <3>1, <3>2 DEF StreamTypes
    <2>4. ASSUME NEW r \in Stream
          PROVE  (standby'[r] => inputPortID'[r] = NoPort) /\ (pc'[r] = "init" => standby'[r])
      BY <2>2 DEF Remembered, StreamTypes
    <2> QED
      BY <2>3, <2>4 DEF Remembered, NoPortLost
  <1>4. ASSUME NEW s \in Stream, \/ \E n \in 1..MaxWrite : Write(s, n)
                                 \/ WriteData(s) \/ WriteFailed(s) \/ Activate(s)
        PROVE  Remembered'
    <2>1. UNCHANGED <<owner, standby, inputPortID>>
      BY <1>4 DEF Write, WriteData, WriteFailed, Activate, portVars
    <2>2. \A r \in Stream : pc'[r] = "init" => pc[r] = "init" \/ standby[r]
      BY <1>4 DEF Write, WriteData, WriteFailed, Activate, Written, StreamTypes
    <2> QED
      BY <2>1, <2>2 DEF Remembered, NoPortLost, Used
  <1>5. ASSUME NEW s \in Stream, Pause(s) \/ Resume(s) \/ Flush(s) PROVE Remembered'
    BY <1>1, <1>5 DEF Pause, Resume, Flush, streamVars
  <1>6. CASE Thread
    <2>1. UNCHANGED <<owner, streamVars>>
      BY <1>6 DEF Thread, Enter, ClearExit, Leave, EndRead, Mix, BeginRead, Continue,
         ProcessMessage, Look, FlushPort, SkipPort, TakePeriod, Act, portVars
    <2> QED
      BY <1>1, <2>1 DEF streamVars
  <1>7. CASE Closing \/ UNCHANGED vars
    BY <1>1, <1>7 DEF Closing, ExitDisable, ExitRequest, ExitJoin, vars, portVars, streamVars
  <1> QED
    BY <1>2, <1>3, <1>4, <1>5, <1>6, <1>7 DEF Next, Client, Writing

(* No port is left behind when two streams make and delete theirs without  *)
(* a lock: NoPortLost.                                                     *)
THEOREM PortsAreRemembered == Spec => []NoPortLost
  <1>1. Init => Remembered
    BY DEF Init, Remembered, NoPortLost, Used
  <1>2. Remembered => NoPortLost
    BY DEF Remembered
  <1> QED
    BY <1>1, <1>2, TypeInit, TypeStep, RememberedStep, PTL DEF Spec

-----------------------------------------------------------------------------
(* What a stream that is not paused hears of its port.                     *)

(* The port is not quiet, the thread has not read that it was, or the last *)
(* message that waits ends the quiet.                                      *)
Plays(i) ==
  IF msgs[i] = <<>> THEN /\ status[i] \notin Quiet
                         /\ thread = "act" /\ At(i) => seen \notin Quiet
                    ELSE msgs[i][Len(msgs[i])] = "RESUME"

Playing ==
  /\ \A s \in Stream, i \in Port : Alone(s, i) /\ ~pause_status[s] => Plays(i)
  /\ Locked => todo \subseteq Used

PlayInv == IInv /\ Remembered /\ Playing

(* A port that is left alone plays on while the thread does not read it.   *)
LEMMA PlaysOn ==
  ASSUME NEW i \in Port, Plays(i), status'[i] = status[i], msgs'[i] = msgs[i],
         thread' # "act" \/ UNCHANGED <<thread, todo, seen>>
  PROVE  Plays(i)'
  BY DEF Plays, At, Least

(* A step that changes neither ports nor streams keeps it.                 *)
LEMMA AloneBefore ==
  ASSUME NEW s \in Stream, NEW i \in Port, UNCHANGED <<owner, inputPortID>>
  PROVE  Alone(s, i)' <=> Alone(s, i)
  BY DEF Alone, Used

(* Messages: RESUME ends the pause of the stream that is alone at its port, *)
(* and the other messages are sent by a stream that is paused after them.   *)
LEMMA MessagesPlay ==
  ASSUME PlayInv, NEW t \in Stream, Pause(t) \/ Resume(t) \/ Flush(t)
  PROVE  Playing'
  <1> USE DEF PlayInv, IInv, TypeOK
  <1>1. UNCHANGED <<owner, status, inputPortID, threadVars>>
    BY DEF Pause, Resume, Flush, streamVars
  <1>2. ASSUME NEW s \in Stream, NEW i \in Port, Alone(s, i)', ~pause_status'[s]
        PROVE  Plays(i)'
    <2>1. Alone(s, i)
      BY <1>1, <1>2, AloneBefore
    <2>2. inputPortID[s] = i /\ owner[i] # None /\ i # NoPort
      BY <2>1, MixerAssumption DEF Alone, Used, NoPort, Port
    <2>3. CASE s = t
      <3>1. Resume(t)
        BY <1>2, <2>3 DEF Pause, Resume, Flush, StreamTypes, streamVars
      <3>2. msgs' = [msgs EXCEPT ![i] = Append(msgs[i], "RESUME")]
        BY <2>2, <2>3, <3>1 DEF Resume, Send, Queued
      <3>3. msgs[i] \in Seq(Msg) /\ msgs'[i] = Append(msgs[i], "RESUME")
        BY <3>2 DEF PortTypes
      <3>4. msgs'[i] # <<>> /\ msgs'[i][Len(msgs'[i])] = "RESUME"
        BY <3>3
      <3> QED
        BY <3>4 DEF Plays
    <2>4. CASE s # t
      <3>1. inputPortID[t] # i
        BY <2>1, <2>4 DEF Alone
      <3>2. msgs'[i] = msgs[i]
        <4>1. \E m \in Msg : Send(t, m)
          BY DEF Pause, Resume, Flush, Msg
        <4>2. \/ UNCHANGED msgs
              \/ \E m \in Msg : msgs' = [msgs EXCEPT ![inputPortID[t]] = Queued(inputPortID[t], m)]
          BY <4>1 DEF Send
        <4> QED
          BY <3>1, <4>2 DEF PortTypes
      <3>3. pause_status'[s] = pause_status[s]
        BY <2>4 DEF Pause, Resume, Flush, StreamTypes, streamVars
      <3>4. Plays(i)
        BY <1>2, <2>1, <3>3 DEF Playing
      <3> QED
        BY <1>1, <3>2, <3>4, PlaysOn DEF threadVars
    <2> QED
      BY <2>3, <2>4
  <1>3. Locked' => todo' \subseteq Used'
    BY <1>1 DEF Playing, Locked, Used, threadVars
  <1> QED
    BY <1>2, <1>3 DEF Playing

(* A stream that gets a port that the thread is at shares it with the one   *)
(* that had it.                                                             *)
LEMMA InitPortPlays ==
  ASSUME PlayInv, NEW t \in Stream, InitPort(t)
  PROVE  Playing'
  <1> USE DEF PlayInv, IInv, TypeOK
  <1>1. PICK k \in Port : k = picked[t]
    BY DEF StreamTypes
  <1>2. NoPort \notin Port /\ t # None
    BY MixerAssumption DEF NoPort, Port
  <1>3. /\ inputPortID[t] = NoPort
        /\ inputPortID' = [inputPortID EXCEPT ![t] = k]
        /\ owner' = [owner EXCEPT ![k] = t]
        /\ status' = [status EXCEPT ![k] = "STOPPED"]
        /\ msgs' = [msgs EXCEPT ![k] = <<>>]
        /\ UNCHANGED <<pause_status, threadVars>>
    BY <1>1 DEF InitPort, NewPort, Remembered
  <1>4. ASSUME NEW s \in Stream, NEW i \in Port, Alone(s, i)', ~pause_status'[s]
        PROVE  Plays(i)'
    <2>1. CASE s = t
      <3>1. i = k
        BY <1>3, <1>4, <2>1 DEF Alone, StreamTypes
      <3>2. status'[i] \notin Quiet /\ msgs'[i] = <<>>
        BY <1>3, <3>1 DEF PortTypes, Quiet
      <3>3. ~(thread' = "act" /\ At(i)')
        <4> SUFFICES ASSUME thread = "act", At(i) PROVE FALSE
          BY <1>3 DEF At, Least, threadVars
        <4>1. i \in Used
          BY DEF Playing, Locked, At, Least
        <4>2. PICK r \in Stream : inputPortID[r] = i
          BY <4>1 DEF Remembered, NoPortLost
        <4>3. r # t /\ inputPortID'[r] = i
          BY <1>2, <1>3, <4>2 DEF StreamTypes
        <4> QED
          BY <1>4, <2>1, <4>3 DEF Alone
      <3> QED
        BY <3>2, <3>3 DEF Plays
    <2>2. CASE s # t
      <3>1. i # k
        BY <1>3, <1>4, <2>2 DEF Alone, StreamTypes
      <3>2. owner'[i] = owner[i] /\ status'[i] = status[i] /\ msgs'[i] = msgs[i]
        BY <1>3, <3>1 DEF PortTypes
      <3>3. \A r \in Stream : inputPortID[r] = i <=> inputPortID'[r] = i
        BY <1>2, <1>3, <3>1 DEF StreamTypes
      <3>4. Alone(s, i)
        BY <1>4, <3>2, <3>3 DEF Alone, Used
      <3>5. Plays(i)
        BY <1>3, <1>4, <3>4 DEF Playing
      <3> QED
        BY <1>3, <3>2, <3>5, PlaysOn DEF threadVars
    <2> QED
      BY <2>1, <2>2
  <1>5. Locked' => todo' \subseteq Used'
    <2>1. Used \subseteq Used'
      BY <1>2, <1>3 DEF Used, PortTypes
    <2> QED
      BY <1>3, <2>1 DEF Playing, Locked, threadVars
  <1> QED
    BY <1>4, <1>5 DEF Playing

(* A port is deleted by a stream that remembers it, while the thread is at  *)
(* none.                                                                    *)
LEMMA StandbyPlays ==
  ASSUME PlayInv, NEW t \in Stream, Standby(t)
  PROVE  Playing'
  <1> USE DEF PlayInv, IInv, TypeOK
  <1>1. PICK k \in Port : k = inputPortID[t]
    BY DEF Standby, Ported
  <1>2. NoPort \notin Port
    BY MixerAssumption DEF NoPort, Port
  <1>3. /\ inputPortID' = [inputPortID EXCEPT ![t] = NoPort]
        /\ owner' = [owner EXCEPT ![k] = None]
        /\ status' = [status EXCEPT ![k] = "STOPPED"]
        /\ msgs' = [msgs EXCEPT ![k] = <<>>]
        /\ owner[k] # None => ~Locked
        /\ UNCHANGED <<pause_status, threadVars>>
    BY <1>1 DEF Standby, NewPort
  <1>4. ASSUME NEW s \in Stream, NEW i \in Port, Alone(s, i)', ~pause_status'[s]
        PROVE  Plays(i)'
    <2>1. s # t
      BY <1>2, <1>3, <1>4 DEF Alone, StreamTypes
    <2>2. i # k
      BY <1>3, <1>4 DEF Alone, Used, PortTypes
    <2>3. owner'[i] = owner[i] /\ status'[i] = status[i] /\ msgs'[i] = msgs[i]
      BY <1>3, <2>2 DEF PortTypes
    <2>4. \A r \in Stream : inputPortID[r] = i <=> inputPortID'[r] = i
      BY <1>1, <1>2, <1>3, <2>2 DEF StreamTypes
    <2>5. Alone(s, i)
      BY <1>4, <2>3, <2>4 DEF Alone, Used
    <2>6. Plays(i)
      BY <1>3, <1>4, <2>5 DEF Playing
    <2> QED
      BY <1>3, <2>3, <2>6, PlaysOn DEF threadVars
  <1>5. Locked' => todo' \subseteq Used'
    <2>1. CASE owner[k] # None
      BY <1>3, <2>1 DEF Locked, threadVars
    <2>2. CASE owner[k] = None
      <3>1. Used' = Used
        BY <1>3, <2>2 DEF Used, PortTypes
      <3> QED
        BY <1>3, <3>1 DEF Playing, Locked, threadVars
    <2> QED
      BY <2>1, <2>2
  <1> QED
    BY <1>4, <1>5 DEF Playing

(* A write makes its port active, if anything.                              *)
LEMMA WritesPlay ==
  ASSUME PlayInv,
         \/ \E t \in Stream : \/ \E n \in 1..MaxWrite : Write(t, n)
                              \/ WriteData(t) \/ WriteFailed(t) \/ Activate(t)
         \/ Closing
         \/ UNCHANGED vars
  PROVE  Playing'
  <1> USE DEF PlayInv, IInv, TypeOK
  <1>1. /\ UNCHANGED <<owner, msgs, inputPortID, pause_status, threadVars>>
        /\ \/ UNCHANGED status
           \/ \E k \in Port : status' = [status EXCEPT ![k] = "ACTIVE"]
    <2>1. ASSUME NEW t \in Stream, Activate(t)
          PROVE  \E k \in Port : status' = [status EXCEPT ![k] = "ACTIVE"]
      BY <2>1 DEF Activate, Ported
    <2>2. CASE \E t \in Stream : \/ \E n \in 1..MaxWrite : Write(t, n)
                                 \/ WriteData(t) \/ WriteFailed(t) \/ Activate(t)
      BY <2>1, <2>2 DEF Write, WriteData, WriteFailed, Activate, portVars
    <2>3. CASE Closing \/ UNCHANGED vars
      BY <2>3 DEF Closing, ExitDisable, ExitRequest, ExitJoin, vars, portVars, streamVars
    <2> QED
      BY <2>2, <2>3
  <1>2. ASSUME NEW s \in Stream, NEW i \in Port, Alone(s, i)', ~pause_status'[s]
        PROVE  Plays(i)'
    <2>1. Plays(i)
      BY <1>1, <1>2, AloneBefore DEF Playing
    <2>2. status'[i] = status[i] \/ status'[i] = "ACTIVE"
      BY <1>1 DEF PortTypes
    <2>3. CASE status'[i] = status[i]
      BY <1>1, <2>1, <2>3, PlaysOn DEF threadVars
    <2>4. CASE status'[i] = "ACTIVE"
      BY <1>1, <2>1, <2>4 DEF Plays, Quiet, At, Least, threadVars
    <2> QED
      BY <2>2, <2>3, <2>4
  <1>3. Locked' => todo' \subseteq Used'
    BY <1>1 DEF Playing, Locked, Used, threadVars
  <1> QED
    BY <1>2, <1>3 DEF Playing

(* The thread makes a port quiet only for a message it has taken, and acts  *)
(* only on a state that the port still has or that a RESUME will end.       *)
LEMMA ThreadPlays ==
  ASSUME PlayInv, Thread
  PROVE  Playing'
  <1> USE DEF PlayInv, IInv, TypeOK
  <1>1. UNCHANGED <<owner, streamVars>>
    BY DEF Thread, Enter, ClearExit, Leave, EndRead, Mix, BeginRead, Continue,
           ProcessMessage, Look, FlushPort, SkipPort, TakePeriod, Act, portVars
  <1>2. Locked' => todo' \subseteq Used'
    <2>1. CASE Enter \/ ClearExit \/ Leave \/ EndRead \/ Mix
      BY <2>1 DEF Enter, ClearExit, Leave, EndRead, Mix, Continue, Locked
    <2>2. CASE BeginRead
      BY <1>1, <2>2 DEF BeginRead, Used
    <2>3. CASE \E i \in Port : \/ ProcessMessage(i) \/ Look(i)
                              \/ FlushPort(i) \/ SkipPort(i) \/ TakePeriod(i)
      <3>1. Locked /\ todo' \subseteq todo
        BY <2>3 DEF ProcessMessage, Look, FlushPort, SkipPort, TakePeriod, Act, Locked
      <3> QED
        BY <1>1, <3>1 DEF Playing, Used
    <2> QED
      BY <2>1, <2>2, <2>3 DEF Thread
  <1>3. ASSUME NEW s \in Stream, NEW i \in Port, Alone(s, i)', ~pause_status'[s]
        PROVE  Plays(i)'
    <2>1. Plays(i)
      BY <1>1, <1>3, AloneBefore DEF Playing, streamVars
    <2>2. CASE Enter \/ ClearExit \/ Leave \/ EndRead \/ Mix \/ BeginRead
      <3>1. UNCHANGED portVars /\ thread' # "act"
        BY <2>2 DEF Enter, ClearExit, Leave, EndRead, Mix, BeginRead, Continue
      <3> QED
        BY <2>1, <3>1, PlaysOn DEF portVars
    <2>3. ASSUME NEW k \in Port, ProcessMessage(k)
          PROVE  Plays(i)'
      <3>1. thread' = "look"
        BY <2>3 DEF ProcessMessage
      <3>2. CASE i # k \/ msgs[k] = <<>>
        <4>1. status'[i] = status[i] /\ msgs'[i] = msgs[i]
          BY <2>3, <3>2 DEF ProcessMessage, PortTypes
        <4> QED
          BY <2>1, <3>1, <4>1, PlaysOn
      <3>3. CASE i = k /\ msgs[i] # <<>>
        <4>1. /\ msgs[i] \in Seq(Msg) /\ msgs'[i] = Tail(msgs[i])
              /\ status'[i] = Asked(Head(msgs[i]))
              /\ msgs[i][Len(msgs[i])] = "RESUME"
          BY <2>1, <2>3, <3>3 DEF ProcessMessage, PortTypes, Plays
        <4>2. PICK q \in Seq(Msg) : q = msgs[i] /\ q # <<>> /\ q[Len(q)] = "RESUME"
          BY <3>3, <4>1
        <4>3. CASE Tail(q) = <<>>
          <5>1. Head(q) = "RESUME"
            BY <4>2, <4>3, OneIsLast
          <5>2. status'[i] = "RESUMING"
            BY <4>1, <4>2, <5>1 DEF Asked
          <5> QED
            BY <3>1, <4>1, <4>2, <4>3, <5>2 DEF Plays, Quiet
        <4>4. CASE Tail(q) # <<>>
          BY <4>1, <4>2, <4>4, TailLast DEF Plays
        <4> QED
          BY <4>3, <4>4
      <3> QED
        BY <3>2, <3>3
    <2>4. ASSUME NEW k \in Port, Look(k)
          PROVE  Plays(i)'
      <3>1. /\ seen' = status[k] /\ At(k) /\ UNCHANGED <<status, msgs, todo>>
        BY <2>4 DEF Look, portVars
      <3>2. At(i)' => i = k
        BY <3>1, AtOne DEF At, Least
      <3> QED
        BY <2>1, <3>1, <3>2 DEF Plays
    <2>5. ASSUME NEW k \in Port, FlushPort(k) \/ SkipPort(k) \/ TakePeriod(k)
          PROVE  Plays(i)'
      <3>1. /\ thread = "act" /\ thread' = "message" /\ At(k)
            /\ UNCHANGED msgs
        BY <2>5 DEF FlushPort, SkipPort, TakePeriod, Act
      <3>2. CASE i # k
        <4>1. status'[i] = status[i]
          BY <2>5, <3>2 DEF FlushPort, SkipPort, TakePeriod, PortTypes
        <4> QED
          BY <2>1, <3>1, <4>1, PlaysOn
      <3>3. CASE i = k
        <4>1. \/ seen = "FLUSHING" \/ seen = "PAUSING"
              \/ status'[i] = "ACTIVE" \/ status'[i] = status[i]
          BY <2>5, <3>3 DEF FlushPort, SkipPort, TakePeriod, Flushing, Taken, Resumed, PortTypes
        <4> QED
          BY <2>1, <3>1, <3>3, <4>1 DEF Plays, Quiet
      <3> QED
        BY <3>2, <3>3
    <2> QED
      BY <2>2, <2>3, <2>4, <2>5 DEF Thread
  <1> QED
    BY <1>2, <1>3 DEF Playing

(* The port of a stream that is not paused is heard, or a RESUME is on its  *)
(* way to it, whatever the stream and the thread do and whatever the thread *)
(* has read of the port before: UnpausedIsNotQuiet.                         *)
THEOREM ResumedPortsPlay == Spec => []UnpausedIsNotQuiet
  <1>1. Init => PlayInv
    <2>1. Init => Remembered
      BY DEF Init, Remembered, NoPortLost, Used
    <2>2. Init => Playing
      BY DEF Init, Playing, Alone, Used, Locked
    <2> QED
      BY <2>1, <2>2, TypeInit DEF PlayInv
  <1>2. PlayInv /\ [Next]_vars => PlayInv'
    <2> SUFFICES ASSUME PlayInv, [Next]_vars PROVE Playing'
      BY TypeStep, RememberedStep DEF PlayInv
    <2> QED
      BY MessagesPlay, InitPortPlays, StandbyPlays, WritesPlay, ThreadPlays
         DEF Next, Client, Writing
  <1>3. PlayInv => UnpausedIsNotQuiet
    BY DEF PlayInv, Playing, Plays, UnpausedIsNotQuiet
  <1> QED
    BY <1>1, <1>2, <1>3, PTL DEF Spec

=============================================================================
