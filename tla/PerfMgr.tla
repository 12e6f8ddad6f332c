------------------------------ MODULE PerfMgr ------------------------------
(***************************************************************************)
(* libperfmgr (power/libperfmgr): the hint manager, the request groups of  *)
(* every node, the file and property nodes, and the looper thread that     *)
(* drives them.                                                            *)
(*                                                                         *)
(* Clients (the binder thread, the interaction handler) do and end hints.  *)
(* The looper updates every node twice per round while it holds lock_,     *)
(* then sleeps on wake_cond_ until it is signalled or until the nearest    *)
(* time one of the nodes asked to be looked at again.                      *)
(*                                                                         *)
(* Time is relative: left[s] is what remains of a request (the code keeps  *)
(* the end time), so that the clock needs no bound.                        *)
(***************************************************************************)
EXTENDS Integers, FiniteSetsExt

CONSTANTS
  NumNodes,     \* size of nodes_; a node is its index there
  NumValues,    \* size of the longest req_sorted_; index 0 is the most wanted
  Hint,         \* the hint types of the configuration
  Actions,      \* Actions[h]: the NodeActions of hint h (0 ms: for ever)
  Override,     \* the timeouts a caller may give to DoHint
  Default,      \* default_val_index_ of each node
  ResetOnInit,  \* the nodes whose reset_on_init_ is set by the configuration
  FileNode,     \* the nodes of type File; the others are of type Property
  HoldFd,       \* the file nodes with hold_fd_
  Capped,       \* pairs <<lo, hi>>: the kernel keeps lo's value at most hi's
  Faulty,       \* the nodes whose writes may fail for reasons of their own
  Retry,        \* the 500 ms retry of a failed file write, in ticks
  MaxTimeout,   \* the longest finite timeout, in ticks
  MaxSlow,      \* how many ticks one round of updates may last
  Client,       \* the threads that call the hint manager
  CanStop       \* whether the owner may call Stop()

Node    == 1..NumNodes
Value   == 0..NumValues - 1
Slot    == Node \X Value \X Hint
None    == -1                \* no entry in the request map
Forever == MaxTimeout + 1    \* ReqTime::max(), kMaxUpdatePeriod
Left    == None..Forever
Unset   == -1                \* nothing was written to the device, or it was dropped

NodeAction == [node : Node, value : Value, timeout : 0..MaxTimeout]

ASSUME SizeAssumption ==
  /\ NumNodes \in Nat \ {0}
  /\ NumValues \in Nat \ {0}
  /\ MaxTimeout \in Nat
  /\ MaxSlow \in Nat
  /\ Retry \in 1..MaxTimeout
  /\ CanStop \in BOOLEAN

(* ParseNodes and ParseActions accept only such configurations: value and   *)
(* node indices in range, one action per hint and node.                     *)
ASSUME ConfigAssumption ==
  /\ Actions \in [Hint -> SUBSET NodeAction]
  /\ \A h \in Hint : \A a, b \in Actions[h] : a.node = b.node => a = b
  /\ Default \in [Node -> Value]
  /\ ResetOnInit \subseteq Node
  /\ FileNode \subseteq Node
  /\ HoldFd \subseteq FileNode
  /\ Capped \subseteq FileNode \X FileNode
  /\ Faulty \subseteq Node
  /\ Override \subseteq 0..MaxTimeout

VARIABLES
  left,      \* the request maps: time left of request <<node, value, hint>>
  current,   \* current_val_index_ of each node
  reset,     \* reset_on_init_ of each node
  fd,        \* whether the node holds its file open
  shown,     \* what the device behind the node shows
  looper,    \* where the looper thread is
  idx,       \* the node the looper updates next
  timeout,   \* timeout_ms of this round
  slow,      \* ticks since this round began
  wakeIn,    \* time left of waitRelative
  woken,     \* the sleeping looper was signalled
  exiting,   \* mExitPending
  call,      \* the call each client is in, past its check of exitPending
  stop       \* where the caller of Stop() is

nodeVars == <<left, current, reset, fd, shown>>
loopVars == <<looper, idx, timeout, slow, wakeIn>>
vars == <<nodeVars, loopVars, woken, exiting, call, stop>>

Idle  == [op |-> "none"]
Calls == {Idle} \union [op : {"do", "end"}, hint : Hint]
                \union [op : {"override"}, hint : Hint, timeout : Override]

(* The request maps hold times, the nodes values of their configuration, and  *)
(* nobody waits longer than the longest timeout.                             *)
TypeOK ==
  /\ left \in [Slot -> Left]
  /\ current \in [Node -> Value]
  /\ reset \in [Node -> BOOLEAN]
  /\ fd \in [Node -> BOOLEAN]
  /\ shown \in [Node -> Value \union {Unset}]
  /\ looper \in {"new", "first", "ready", "pass1", "pass2", "asleep", "check", "dead"}
  /\ idx \in 1..NumNodes + 1
  /\ timeout \in 0..Forever
  /\ slow \in 0..MaxSlow
  /\ wakeIn \in 0..Forever
  /\ woken \in BOOLEAN
  /\ exiting \in BOOLEAN
  /\ call \in [Client -> Calls]
  /\ stop \in {"no", "called", "joining", "done"}

Init ==
  /\ left = [s \in Slot |-> None]
  /\ current = Default
  /\ reset = [n \in Node |-> n \in ResetOnInit]
  /\ fd = [n \in Node |-> FALSE]
  /\ shown = [n \in Node |-> Unset]
  /\ looper = "new"
  /\ idx = 1
  /\ timeout = Forever
  /\ slow = 0
  /\ wakeIn = 0
  /\ woken = FALSE
  /\ exiting = FALSE
  /\ call = [c \in Client |-> Idle]
  /\ stop = "no"

-----------------------------------------------------------------------------
(* Request groups: which value a node is asked for, t ticks from now. *)

LiveIn(n, v, t) == {h \in Hint : left[<<n, v, h>>] > t}
AskedIn(n, t)   == {v \in Value : LiveIn(n, v, t) # {}}
WantIn(n, t)    == IF AskedIn(n, t) = {} THEN Default[n] ELSE Min(AskedIn(n, t))
Want(n)         == WantIn(n, 0)

(* GetExpireTime of the highest active group; max() when there is none. *)
ExpireIn(n) == IF AskedIn(n, 0) = {} THEN Forever
               ELSE Min({left[<<n, Want(n), h>>] : h \in LiveIn(n, Want(n), 0)})

(* The groups Update looks at, which lose their expired requests: all of   *)
(* them up to the first one that is active.                                *)
Visited(n, v) == AskedIn(n, 0) = {} \/ v <= Want(n)
Swept(n) == [s \in Slot |-> IF s[1] = n /\ Visited(n, s[2]) /\ left[s] = 0
                            THEN None ELSE left[s]]

(* lock_ is held by the looper from the start of a round until it sleeps. *)
Locked == looper \in {"pass1", "pass2"}

Signal == woken' = (woken \/ looper = "asleep")

-----------------------------------------------------------------------------
(* HintManager and NodeLooperThread::Request / Cancel, called by clients. *)

(* exitPending() is tested before lock_ is taken. *)
Enter(c, req) == /\ call[c] = Idle
                 /\ ~exiting
                 /\ call' = [call EXCEPT ![c] = req]
                 /\ UNCHANGED <<nodeVars, loopVars, woken, exiting, stop>>

DoHint(c, h)            == Enter(c, [op |-> "do", hint |-> h])
DoHintFor(c, h, millis) == Enter(c, [op |-> "override", hint |-> h, timeout |-> millis])
EndHint(c, h)           == Enter(c, [op |-> "end", hint |-> h])

(* Faulty variants of definitions, such as RequestUnsignalled, show that the *)
(* properties notice a slip in the code; the model does not use them.        *)
EndTime(millis) == IF millis = 0 THEN Forever ELSE millis

TimeoutOf(req, a) == IF req.op = "override" THEN req.timeout ELSE a.timeout

AddedUnchecked(req) ==
  [s \in Slot |->
     IF \E a \in Actions[req.hint] : s = <<a.node, a.value, req.hint>>
     THEN LET a == CHOOSE a \in Actions[req.hint] : s = <<a.node, a.value, req.hint>>
          IN EndTime(TimeoutOf(req, a))
     ELSE left[s]]

(* AddRequest of every action: a new request, or an old one made longer. *)
Added(req) ==
  [s \in Slot |->
     IF \E a \in Actions[req.hint] :
          /\ s = <<a.node, a.value, req.hint>>
          /\ left[s] < EndTime(TimeoutOf(req, a))
     THEN LET a == CHOOSE a \in Actions[req.hint] : s = <<a.node, a.value, req.hint>>
          IN EndTime(TimeoutOf(req, a))
     ELSE left[s]]

RequestUnsignalled(c) == /\ call[c].op \in {"do", "override"}
                         /\ ~Locked
                         /\ left' = Added(call[c])
                         /\ call' = [call EXCEPT ![c] = Idle]
                         /\ UNCHANGED <<current, reset, fd, shown, loopVars, woken, exiting, stop>>

Request(c) == /\ call[c].op \in {"do", "override"}
              /\ ~Locked
              /\ left' = Added(call[c])
              /\ call' = [call EXCEPT ![c] = Idle]
              /\ Signal
              /\ UNCHANGED <<current, reset, fd, shown, loopVars, exiting, stop>>

RemovedFromFirst(h) ==
  [s \in Slot |-> IF s[3] = h /\ s[1] = 1 /\ \E a \in Actions[h] : a.node = 1
                  THEN None ELSE left[s]]

(* RemoveRequest: the hint leaves every group of the nodes it acts on. *)
Removed(h) == [s \in Slot |-> IF s[3] = h /\ \E a \in Actions[h] : a.node = s[1]
                              THEN None ELSE left[s]]

Cancel(c) == /\ call[c].op = "end"
             /\ ~Locked
             /\ left' = Removed(call[c].hint)
             /\ call' = [call EXCEPT ![c] = Idle]
             /\ Signal
             /\ UNCHANGED <<current, reset, fd, shown, loopVars, exiting, stop>>

-----------------------------------------------------------------------------
(* Node::Update, one node at a time, in the two passes of threadLoop. *)

(* The result of Update(log_error) counts in the second pass only. *)
Advance(expire) ==
  /\ timeout' = IF looper = "pass2" THEN Min({timeout, expire}) ELSE timeout
  /\ IF looper = "pass1" /\ idx = NumNodes
     THEN looper' = "pass2" /\ idx' = 1
     ELSE looper' = looper /\ idx' = idx + 1
  /\ UNCHANGED <<slow, wakeIn, woken, exiting, call, stop>>

Updating(n) == Locked /\ n = idx
Stale(n)    == Want(n) # current[n] \/ reset[n]

UpdateNothing(n) ==
  /\ Updating(n)
  /\ ~Stale(n)
  /\ left' = Swept(n)
  /\ Advance(ExpireIn(n))
  /\ UNCHANGED <<current, reset, fd, shown>>

(* The kernel refuses a value above its cap, or a cap below the value. *)
Accepts(n, v) ==
  \A p \in Capped :
    /\ n = p[1] /\ shown[p[2]] # Unset => v >= shown[p[2]]
    /\ n = p[2] /\ shown[p[1]] # Unset => v <= shown[p[1]]

(* The value is written. A node with hold_fd_ keeps its file open unless   *)
(* the value is the default, and the device forgets it when it is closed.  *)
UpdateWritten(n) ==
  /\ Updating(n)
  /\ Stale(n)
  /\ Accepts(n, Want(n))
  /\ left' = Swept(n)
  /\ current' = [current EXCEPT ![n] = Want(n)]
  /\ reset' = [reset EXCEPT ![n] = FALSE]
  /\ fd' = [fd EXCEPT ![n] = n \in HoldFd /\ Want(n) # Default[n]]
  /\ shown' = [shown EXCEPT ![n] =
                 IF n \in HoldFd /\ Want(n) = Default[n] THEN Unset ELSE Want(n)]
  /\ Advance(ExpireIn(n))

UpdateFailedFileForgotten(n) ==
  /\ Updating(n)
  /\ n \in FileNode
  /\ Stale(n)
  /\ n \in Faulty \/ ~Accepts(n, Want(n))
  /\ left' = Swept(n)
  /\ \E opened \in BOOLEAN : fd' = [fd EXCEPT ![n] = opened]
  /\ shown' = IF n \in HoldFd THEN [shown EXCEPT ![n] = Unset] ELSE shown
  /\ Advance(ExpireIn(n))
  /\ UNCHANGED <<current, reset>>

(* open or write failed: the file that was held is closed by then, and the *)
(* looper comes back within the retry period.                              *)
UpdateFailedFile(n) ==
  /\ Updating(n)
  /\ n \in FileNode
  /\ Stale(n)
  /\ n \in Faulty \/ ~Accepts(n, Want(n))
  /\ left' = Swept(n)
  /\ \E opened \in BOOLEAN : fd' = [fd EXCEPT ![n] = opened]
  /\ shown' = IF n \in HoldFd THEN [shown EXCEPT ![n] = Unset] ELSE shown
  /\ Advance(Min({ExpireIn(n), Retry}))
  /\ UNCHANGED <<current, reset>>

(* SetProperty failed: nothing asks the looper to come back. *)
UpdateFailedProperty(n) ==
  /\ Updating(n)
  /\ n \notin FileNode
  /\ Stale(n)
  /\ n \in Faulty
  /\ left' = Swept(n)
  /\ Advance(ExpireIn(n))
  /\ UNCHANGED <<current, reset, fd, shown>>

Update(n) == \/ UpdateNothing(n)
             \/ UpdateWritten(n)
             \/ UpdateFailedFile(n)
             \/ UpdateFailedProperty(n)

-----------------------------------------------------------------------------
(* The looper thread: Thread::_threadLoop around threadLoop. *)

Goto(pc) == /\ looper' = pc
            /\ UNCHANGED <<nodeVars, idx, timeout, slow, wakeIn, exiting, call, stop>>

Start == /\ looper = "new"
         /\ Goto("first")
         /\ UNCHANGED woken

(* The first turn is skipped when the thread is already asked to exit. *)
FirstTurn == /\ looper = "first"
             /\ Goto(IF exiting THEN "check" ELSE "ready")
             /\ UNCHANGED woken

BeginRoundOnce == /\ looper = "ready"
                  /\ looper' = "pass2"
                  /\ idx' = 1
                  /\ timeout' = Forever
                  /\ slow' = 0
                  /\ UNCHANGED <<nodeVars, wakeIn, woken, exiting, call, stop>>

(* threadLoop takes lock_ and begins a round. *)
BeginRound == /\ looper = "ready"
              /\ looper' = "pass1"
              /\ idx' = 1
              /\ timeout' = Forever
              /\ slow' = 0
              /\ UNCHANGED <<nodeVars, wakeIn, woken, exiting, call, stop>>

(* waitRelative releases lock_ and sleeps. *)
Sleep == /\ looper = "pass2"
         /\ idx = NumNodes + 1
         /\ looper' = "asleep"
         /\ wakeIn' = timeout
         /\ woken' = FALSE
         /\ UNCHANGED <<nodeVars, idx, timeout, slow, exiting, call, stop>>

(* Signalled or timed out; threadLoop returns true and unlocks. *)
Wake == /\ looper = "asleep"
        /\ woken \/ wakeIn = 0
        /\ Goto("check")
        /\ woken' = FALSE

(* A condition variable may also wake without a reason. *)
SpuriousWake == /\ looper = "asleep"
                /\ ~woken /\ wakeIn > 0
                /\ Goto("check")
                /\ UNCHANGED woken

(* _threadLoop looks at mExitPending between two turns, without lock_. *)
ExitCheck == /\ looper = "check"
             /\ Goto(IF exiting THEN "dead" ELSE "ready")
             /\ UNCHANGED woken

Looper == Start \/ FirstTurn \/ BeginRound \/ Sleep \/ Wake \/ ExitCheck

-----------------------------------------------------------------------------
(* Stop(): signal and requestExit under lock_, then join. *)

StopCall == /\ CanStop
            /\ stop = "no"
            /\ looper \notin {"new", "dead"}
            /\ stop' = "called"
            /\ UNCHANGED <<nodeVars, loopVars, woken, exiting, call>>

StopSignalOnly == /\ stop = "called"
                  /\ ~Locked
                  /\ stop' = "joining"
                  /\ Signal
                  /\ UNCHANGED <<nodeVars, loopVars, exiting, call>>

StopSignal == /\ stop = "called"
              /\ ~Locked
              /\ stop' = "joining"
              /\ exiting' = TRUE
              /\ Signal
              /\ UNCHANGED <<nodeVars, loopVars, call>>

StopJoin == /\ stop = "joining"
            /\ looper = "dead"
            /\ stop' = "done"
            /\ UNCHANGED <<nodeVars, loopVars, woken, exiting, call>>

Stop == StopCall \/ StopSignal \/ StopJoin

-----------------------------------------------------------------------------
(* A tick of the steady clock. A round of updates lasts at most MaxSlow.   *)

Less(t) == IF t \in {None, 0, Forever} THEN t ELSE t - 1

Tick == /\ Locked => slow < MaxSlow
        /\ slow' = IF Locked THEN slow + 1 ELSE slow
        /\ left' = [s \in Slot |-> Less(left[s])]
        /\ wakeIn' = IF looper = "asleep" THEN Less(wakeIn) ELSE wakeIn
        /\ UNCHANGED <<current, reset, fd, shown, looper, idx, timeout,
                       woken, exiting, call, stop>>

Next == \/ \E c \in Client, h \in Hint :
             \/ DoHint(c, h)
             \/ EndHint(c, h)
             \/ \E millis \in Override : DoHintFor(c, h, millis)
        \/ \E c \in Client : Request(c) \/ Cancel(c)
        \/ \E n \in Node : Update(n)
        \/ Looper
        \/ SpuriousWake
        \/ Stop
        \/ Tick

(* The looper runs whenever it can, time passes, calls return, and a write  *)
(* that is tried again and again succeeds at last.                          *)
Fairness == /\ WF_vars(Looper)
            /\ WF_vars(\E n \in Node : Update(n))
            /\ \A n \in Node : SF_vars(UpdateWritten(n))
            /\ WF_vars(Tick)
            /\ WF_vars(StopSignal) /\ WF_vars(StopJoin)
            /\ \A c \in Client : WF_vars(Request(c)) /\ WF_vars(Cancel(c))

Spec == Init /\ [][Next]_vars /\ Fairness
-----------------------------------------------------------------------------
(* Properties. *)

Reliable == FileNode \union (Node \ Faulty)

(* w ticks of sleep, d of them excused, bring the looper back in time for   *)
(* node n: before the value wanted from it changes, and within the retry    *)
(* period when the node is not where it should be.                          *)
BackInTime(n, w, d) ==
  /\ \A t \in 0..MaxTimeout : WantIn(n, t) # Want(n) => w < Forever /\ w <= t + d
  /\ Stale(n) => /\ w < Forever
                 /\ w <= d \/ (n \in FileNode /\ w <= Retry)

(* No wake-up is lost: whenever the looper sleeps and nobody has signalled  *)
(* it, its timeout covers every expiry and every failed file write, at most *)
(* one slow round late. (threadLoop's minimum over Update's results, the    *)
(* signals of Request and Cancel, the retry of FileNode::Update.)           *)
NoLostWakeup ==
  looper = "asleep" /\ ~woken => \A n \in Reliable : BackInTime(n, wakeIn, MaxSlow)

(* A hint is in effect as a whole: while a node still holds a request of a  *)
(* hint, so does every other node of that hint whose action lasts as long,  *)
(* and at least as long. No caller and no sweep of the looper leaves a hint *)
(* at work on some of its nodes only, whatever timeouts it was repeated     *)
(* with, expired or ended. (Request and Cancel change all nodes under one   *)
(* lock_, AddRequest keeps the later end, and the looper erases what is     *)
(* over node by node. The code reads the clock once per action: ends that   *)
(* differ by less than a tick count as equal.)                              *)
HintIsWhole ==
  \A h \in Hint : \A a, b \in Actions[h] :
    /\ EndTime(b.timeout) <= EndTime(a.timeout)
    /\ left[<<b.node, b.value, h>>] > 0
    => left[<<b.node, b.value, h>>] <= left[<<a.node, a.value, h>>]

(* A request that has not run out is only ever removed by an EndHint of its *)
(* own hint: no other hint, no shorter repetition and no update of the      *)
(* looper, which erases expired requests, takes time away from it.          *)
OnlyOwnerEndsRequest ==
  [][\A s \in Slot : left[s] > 1 /\ left'[s] < left[s] =>
       \/ left'[s] = left[s] - 1 /\ \A r \in Slot : left'[r] <= left[r]
       \/ \E c \in Client : call[c] = [op |-> "end", hint |-> s[3]] /\ call'[c] = Idle]_vars

(* The configurations for which two passes are enough: rounds take no time, *)
(* no file write fails for reasons of its own, no node both limits and is    *)
(* limited, and whatever a hint asks of a node it asks of its limits too.    *)
Settleable ==
  /\ MaxSlow = 0
  /\ Faulty \intersect FileNode = {}
  /\ \A p, q \in Capped : p[1] # q[2]
  /\ \A p \in Capped : Default[p[2]] <= Default[p[1]]
  /\ \A p \in Capped, h \in Hint : \A a \in Actions[h] :
       /\ a.node = p[2] => a.value <= Default[p[1]]
       /\ a.node = p[1] => \E b \in Actions[h] :
            /\ b.node = p[2] /\ b.value <= a.value
            /\ EndTime(a.timeout) <= EndTime(b.timeout)

(* Two passes are enough: when the only writes that fail are those the      *)
(* kernel refuses because another node has not moved yet, and the round is  *)
(* quick, every node is where it should be when the looper goes to sleep.   *)
(* (The comment and the two loops of threadLoop.)                           *)
TwoPassesSettle ==
  [][Sleep => \A n \in FileNode : ~Stale(n)]_vars

Board == INSTANCE HintBoard WITH want <- [n \in Node |-> Want(n)]

(* The promise to the Power HAL: a node is only ever driven to the value     *)
(* wanted of it at that moment, and a reliable node that is wanted elsewhere *)
(* is driven there in the end, although the looper sleeps between rounds and *)
(* its writes may fail.                                                      *)
ImplementsBoard == Board!Spec

(* NodeLooperThread.h:60-62: Stop() waits until the sleeping looper is      *)
(* signalled or its wait times out (60 s), so Stop() returns.               *)
StopReturns == (stop = "called") ~> (stop = "done")

(* When Stop() finds the looper asleep and signals it, it does return.      *)
StopOfSleeperReturns == (stop = "joining" /\ woken) ~> (stop = "done")
=============================================================================
