--------------------------- MODULE PerfMgr_proofs ---------------------------
(***************************************************************************)
(* No wake-up of the looper is lost, and a node is only ever driven to     *)
(* what is wanted at that moment, for every configuration.                 *)
(***************************************************************************)
EXTENDS PerfMgr, TLAPS, WellFoundedInduction

(* A non-empty set of natural numbers has a least element.                  *)
LEMMA MinNat ==
  ASSUME NEW S, S \subseteq Nat, S # {}
  PROVE  Min(S) \in S /\ \A y \in S : Min(S) <= y
<1> DEFINE R == {p \in Nat \X Nat : p[1] < p[2]}
<1>1. IsWellFoundedOn(R, Nat)
  BY NatLessThanWellFounded DEF OpToRel
<1>2. PICK x \in S : \A y \in S : ~ (<<y, x>> \in R)
  <2> HIDE DEF R
  <2> QED BY <1>1, WFMin
<1>3. ASSUME NEW y \in S
      PROVE  x <= y
  <2>1. y \in Nat /\ x \in Nat
    OBVIOUS
  <2>2. <<y, x>> \in Nat \X Nat /\ ~ (<<y, x>> \in R)
    BY <2>1, <1>2
  <2>3. ~ (y < x)
    BY <2>2
  <2> QED BY <2>1, <2>3
<1> QED BY <1>3 DEF Min

(* Min of two natural numbers. *)
LEMMA MinPair ==
  ASSUME NEW a \in Nat, NEW b \in Nat
  PROVE  /\ Min({a, b}) \in {a, b}
         /\ Min({a, b}) <= a
         /\ Min({a, b}) <= b
<1>1. {a, b} \subseteq Nat /\ {a, b} # {}
  OBVIOUS
<1> QED BY <1>1, MinNat

-----------------------------------------------------------------------------
(* What a node is wanted to show. *)

(* The value wanted is the most wanted of those asked for.                  *)
LEMMA WantLeast ==
  ASSUME NEW n \in Node, NEW t, AskedIn(n, t) # {}
  PROVE  WantIn(n, t) \in AskedIn(n, t) /\ \A v \in AskedIn(n, t) : WantIn(n, t) <= v
<1>1. AskedIn(n, t) \subseteq Nat
  BY SizeAssumption DEF AskedIn, Value
<1> QED BY <1>1, MinNat DEF WantIn

(* What is wanted is a value of the node. *)
LEMMA WantType ==
  ASSUME NEW n \in Node, NEW t
  PROVE  WantIn(n, t) \in Value
<1>1. CASE AskedIn(n, t) = {}
  BY <1>1, ConfigAssumption DEF WantIn
<1>2. CASE AskedIn(n, t) # {}
  BY <1>2, WantLeast DEF AskedIn
<1> QED BY <1>1, <1>2

(* GetExpireTime is early enough: the value wanted from a node does not     *)
(* change before the time it returns.                                       *)
LEMMA ExpireCovers ==
  ASSUME TypeOK, NEW n \in Node
  PROVE  /\ ExpireIn(n) \in 0..Forever
         /\ \A t \in 0..MaxTimeout :
              WantIn(n, t) # Want(n) => ExpireIn(n) < Forever /\ ExpireIn(n) <= t
<1> USE SizeAssumption
<1>1. CASE AskedIn(n, 0) = {}
  <2>1. ExpireIn(n) = Forever
    BY <1>1 DEF ExpireIn
  <2>2. ASSUME NEW t \in 0..MaxTimeout
        PROVE  WantIn(n, t) = Want(n)
    <3>1. AskedIn(n, t) = {}
      <4>1. ASSUME NEW v \in Value, NEW h \in Hint, left[<<n, v, h>>] > t
            PROVE  FALSE
        <5>1. <<n, v, h>> \in Slot
          BY DEF Slot
        <5>2. left[<<n, v, h>>] \in Int
          BY <5>1 DEF TypeOK, Left, None, Forever
        <5>3. h \in LiveIn(n, v, 0)
          BY <4>1, <5>2 DEF LiveIn
        <5> QED BY <5>3, <1>1 DEF AskedIn
      <4> QED BY <4>1 DEF AskedIn, LiveIn
    <3> QED BY <3>1, <1>1 DEF WantIn, Want
  <2> QED BY <2>1, <2>2 DEF Forever
<1>2. CASE AskedIn(n, 0) # {}
  <2> DEFINE w == Want(n)
             E == {left[<<n, w, h>>] : h \in LiveIn(n, w, 0)}
  <2>1. w \in Value /\ LiveIn(n, w, 0) # {} /\ \A v \in AskedIn(n, 0) : w <= v
    BY <1>2, WantLeast DEF Want, AskedIn
  <2>2. \A h \in Hint : <<n, w, h>> \in Slot
    BY <2>1 DEF Slot
  <2>3. E \subseteq 1..Forever /\ E # {}
    <3>1. ASSUME NEW h \in LiveIn(n, w, 0)
          PROVE  left[<<n, w, h>>] \in 1..Forever
      <4>1. h \in Hint /\ left[<<n, w, h>>] > 0
        BY <3>1 DEF LiveIn
      <4>2. left[<<n, w, h>>] \in Left
        BY <2>2, <4>1 DEF TypeOK
      <4> QED BY <4>1, <4>2 DEF Left, None, Forever
    <3> QED BY <3>1, <2>1
  <2>4. ExpireIn(n) = Min(E)
    BY <1>2 DEF ExpireIn
  <2>5. ExpireIn(n) \in E /\ \A e \in E : ExpireIn(n) <= e
    BY <2>3, <2>4, MinNat, 1..Forever \subseteq Nat DEF Forever
  <2>6. ASSUME NEW t \in 0..MaxTimeout, t < ExpireIn(n)
        PROVE  WantIn(n, t) = Want(n)
    <3>1. PICK h \in LiveIn(n, w, 0) : TRUE
      BY <2>1
    <3>2. left[<<n, w, h>>] > t
      <4>1. left[<<n, w, h>>] \in E
        BY <3>1
      <4>2. /\ left[<<n, w, h>>] \in 1..Forever
            /\ ExpireIn(n) \in 1..Forever
            /\ ExpireIn(n) <= left[<<n, w, h>>]
        BY <4>1, <2>3, <2>5
      <4> HIDE DEF E, w
      <4> QED BY <4>2, <2>6 DEF Forever
    <3>3. w \in AskedIn(n, t)
      BY <3>1, <3>2, <2>1 DEF AskedIn, LiveIn
    <3>4. AskedIn(n, t) \subseteq AskedIn(n, 0)
      <4>1. ASSUME NEW v \in Value, NEW g \in Hint, left[<<n, v, g>>] > t
            PROVE  left[<<n, v, g>>] > 0
        <5>1. <<n, v, g>> \in Slot
          BY DEF Slot
        <5> QED BY <4>1, <5>1 DEF TypeOK, Left, None, Forever
      <4> QED BY <4>1 DEF AskedIn, LiveIn
    <3>5. WantIn(n, t) \in AskedIn(n, t) /\ WantIn(n, t) <= w
      BY <3>3, WantLeast
    <3>6. w <= WantIn(n, t)
      BY <3>4, <3>5, <2>1
    <3>7. w \in Int /\ WantIn(n, t) \in Int
      BY <2>1, WantType DEF Value
    <3> QED BY <3>5, <3>6, <3>7
  <2>7. ExpireIn(n) \in 1..Forever
    BY <2>5, <2>3
  <2>8. ASSUME NEW t \in 0..MaxTimeout, WantIn(n, t) # Want(n)
        PROVE  ExpireIn(n) < Forever /\ ExpireIn(n) <= t
    BY <2>6, <2>7, <2>8 DEF Forever
  <2> QED BY <2>7, <2>8 DEF Forever
<1> QED BY <1>1, <1>2

(* The value wanted depends only on which requests are live.                *)
LEMMA SameLive ==
  ASSUME NEW n \in Node, NEW t, NEW u,
         \A s \in Slot : left'[s] > t <=> left[s] > u
  PROVE  WantIn(n, t)' = WantIn(n, u)
<1>1. \A v \in Value : LiveIn(n, v, t)' = LiveIn(n, v, u)
  BY DEF LiveIn, Slot
<1>2. AskedIn(n, t)' = AskedIn(n, u)
  BY <1>1 DEF AskedIn
<1> QED BY <1>2 DEF WantIn

-----------------------------------------------------------------------------
(* Types. *)

(* A call in progress asks for something of a hint.                         *)
LEMMA CallType ==
  ASSUME TypeOK, NEW c \in Client
  PROVE  /\ call[c].op = "end" => call[c].hint \in Hint
         /\ call[c].op \in {"do", "override"} =>
              /\ call[c].hint \in Hint
              /\ \A a \in NodeAction : EndTime(TimeoutOf(call[c], a)) \in Left
<1>1. call[c] \in Calls
  BY DEF TypeOK
<1>2. CASE call[c] = Idle
  BY <1>2 DEF Idle
<1>3. CASE call[c] \in [op : {"do", "end"}, hint : Hint]
  <2>1. \A a \in NodeAction : a.timeout \in 0..MaxTimeout
    BY DEF NodeAction
  <2>2. call[c].op # "override" /\ call[c].hint \in Hint
    BY <1>3
  <2> QED BY <2>1, <2>2, SizeAssumption DEF TimeoutOf, EndTime, Left, None, Forever
<1>4. CASE call[c] \in [op : {"override"}, hint : Hint, timeout : Override]
  <2>1. call[c].op = "override" /\ call[c].hint \in Hint /\ call[c].timeout \in 0..MaxTimeout
    BY <1>4, ConfigAssumption
  <2> QED BY <2>1, SizeAssumption DEF TimeoutOf, EndTime, Left, None, Forever
<1> QED BY <1>1, <1>2, <1>3, <1>4 DEF Calls

(* Erasing expired requests keeps the maps' type. *)
LEMMA SweptType ==
  ASSUME TypeOK, NEW n \in Node
  PROVE  Swept(n) \in [Slot -> Left]
BY SizeAssumption DEF TypeOK, Swept, Left, None, Forever

(* Where Advance leaves the looper.                                         *)
LEMMA AdvanceType ==
  ASSUME TypeOK, NEW n \in Node, Updating(n), NEW e \in 0..Forever, Advance(e)
  PROVE  /\ timeout' \in 0..Forever
         /\ looper' \in {"pass1", "pass2"}
         /\ idx' \in 1..NumNodes + 1
         /\ looper = "pass2" => /\ timeout' <= timeout /\ timeout' <= e
                                /\ looper' = "pass2"
                                /\ idx' = n + 1
         /\ looper = "pass1" => looper' = "pass1" \/ idx' = 1
         /\ UNCHANGED <<slow, wakeIn, woken, exiting, call, stop>>
<1> USE SizeAssumption
<1>1. timeout \in Nat /\ e \in Nat /\ Forever \in Nat
  BY DEF TypeOK, Forever
<1>2. Min({timeout, e}) \in {timeout, e} /\ Min({timeout, e}) <= timeout /\ Min({timeout, e}) <= e
  BY <1>1, MinPair
<1> DEFINE m == Min({timeout, e})
<1>3. timeout' = IF looper = "pass2" THEN m ELSE timeout
  BY DEF Advance
<1> HIDE DEF m
<1>4. timeout' \in 0..Forever /\ (looper = "pass2" => timeout' <= timeout /\ timeout' <= e)
  BY <1>1, <1>2, <1>3 DEF TypeOK, m
<1>5. idx = n /\ n \in 1..NumNodes /\ looper \in {"pass1", "pass2"}
  BY DEF Updating, Locked, Node
<1>6. /\ looper' \in {"pass1", "pass2"}
      /\ idx' \in 1..NumNodes + 1
      /\ looper = "pass2" => looper' = "pass2" /\ idx' = n + 1
      /\ looper = "pass1" => looper' = "pass1" \/ idx' = 1
  BY <1>5 DEF Advance
<1> QED BY <1>4, <1>6 DEF Advance

(* A manager just made from its configuration is of the right type. *)
LEMMA InitTypeOK == Init => TypeOK
<1> SUFFICES ASSUME Init PROVE TypeOK
  OBVIOUS
<1> USE SizeAssumption, ConfigAssumption DEF Init
<1>1. left \in [Slot -> Left] /\ shown \in [Node -> Value \union {Unset}]
  BY DEF Left, None, Forever
<1>2. current \in [Node -> Value] /\ reset \in [Node -> BOOLEAN] /\ fd \in [Node -> BOOLEAN]
  OBVIOUS
<1>3. idx \in 1..NumNodes + 1 /\ timeout \in 0..Forever /\ slow \in 0..MaxSlow /\ wakeIn \in 0..Forever
  BY DEF Forever
<1>4. call \in [Client -> Calls]
  BY DEF Calls
<1>5. woken \in BOOLEAN /\ exiting \in BOOLEAN
  OBVIOUS
<1>6. stop = "no" /\ looper = "new"
  OBVIOUS
<1> QED BY <1>1, <1>2, <1>3, <1>4, <1>5, <1>6 DEF TypeOK

(* A call enters, and Request and Cancel change the maps only by values of   *)
(* the right type.                                                           *)
LEMMA ClientTypeOK ==
  ASSUME TypeOK, NEW c \in Client,
         \/ \E req \in Calls : Enter(c, req)
         \/ Request(c)
         \/ Cancel(c)
  PROVE  TypeOK'
<1> USE SizeAssumption
<1>1. CASE \E req \in Calls : Enter(c, req)
  BY <1>1 DEF Enter, TypeOK, nodeVars, loopVars
<1>2. CASE Request(c)
  <2>1. Added(call[c]) \in [Slot -> Left]
    <3> DEFINE req == call[c]
    <3>1. \A s \in Slot : left[s] \in Left
      BY DEF TypeOK
    <3>2. req.hint \in Hint /\ \A a \in NodeAction : EndTime(TimeoutOf(req, a)) \in Left
      BY <1>2, CallType DEF Request
    <3>3. Actions[req.hint] \subseteq NodeAction
      BY <3>2, ConfigAssumption
    <3> HIDE DEF req
    <3> QED BY <3>1, <3>2, <3>3 DEF Added, req
  <2>2. call' \in [Client -> Calls]
    BY <1>2 DEF Request, TypeOK, Calls
  <2>3. woken' \in BOOLEAN
    BY <1>2 DEF Request, Signal
  <2> QED BY <1>2, <2>1, <2>2, <2>3 DEF Request, TypeOK, loopVars
<1>3. CASE Cancel(c)
  <2>1. left' \in [Slot -> Left]
    BY <1>3 DEF Cancel, Removed, TypeOK, Left, None, Forever
  <2>2. call' \in [Client -> Calls]
    BY <1>3 DEF Cancel, TypeOK, Calls
  <2>3. woken' \in BOOLEAN
    BY <1>3 DEF Cancel, Signal
  <2> QED BY <1>3, <2>1, <2>2, <2>3 DEF Cancel, TypeOK, loopVars
<1> QED BY <1>1, <1>2, <1>3

(* What an update of a node returns and changes.                             *)
LEMMA UpdateShape ==
  ASSUME TypeOK, NEW n \in Node, Update(n)
  PROVE  /\ Updating(n)
         /\ left' = Swept(n)
         /\ \E e \in 0..Forever : Advance(e) /\ e <= ExpireIn(n)
         /\ current' \in {current, [current EXCEPT ![n] = Want(n)]}
         /\ reset' \in {reset, [reset EXCEPT ![n] = FALSE]}
<1> USE SizeAssumption
<1>1. ExpireIn(n) \in 0..Forever /\ Retry \in 0..Forever
  BY ExpireCovers DEF Forever
<1>2. /\ Min({ExpireIn(n), Retry}) \in 0..Forever
      /\ Min({ExpireIn(n), Retry}) <= ExpireIn(n)
  BY <1>1, MinPair DEF Forever
<1>3. CASE UpdateNothing(n)
  BY <1>1, <1>3 DEF UpdateNothing, Forever
<1>4. CASE UpdateWritten(n)
  BY <1>1, <1>4 DEF UpdateWritten, Forever
<1>5. CASE UpdateFailedFile(n)
  BY <1>2, <1>5 DEF UpdateFailedFile
<1>6. CASE UpdateFailedProperty(n)
  BY <1>1, <1>6 DEF UpdateFailedProperty, Forever
<1> QED BY <1>3, <1>4, <1>5, <1>6 DEF Update

(* So is one that has updated a node ... *)
LEMMA UpdateTypeOK ==
  ASSUME TypeOK, NEW n \in Node, Update(n)
  PROVE  TypeOK'
<1>1. left' \in [Slot -> Left]
  BY UpdateShape, SweptType
<1>2. PICK e \in 0..Forever : Advance(e)
  BY UpdateShape
<1>3. Updating(n)
  BY UpdateShape
<1>4. /\ timeout' \in 0..Forever
      /\ looper' \in {"pass1", "pass2"}
      /\ idx' \in 1..NumNodes + 1
      /\ UNCHANGED <<slow, wakeIn, woken, exiting, call, stop>>
  BY <1>2, <1>3, AdvanceType
<1>5. current' \in [Node -> Value] /\ reset' \in [Node -> BOOLEAN]
  <2>1. Want(n) \in Value
    BY WantType DEF Want
  <2>2. /\ current' = current \/ current' = [current EXCEPT ![n] = Want(n)]
        /\ reset' = reset \/ reset' = [reset EXCEPT ![n] = FALSE]
    BY UpdateShape
  <2> QED BY <2>1, <2>2 DEF TypeOK
<1>6. fd' \in [Node -> BOOLEAN] /\ shown' \in [Node -> Value \union {Unset}]
  <2>1. Want(n) \in Value
    BY WantType DEF Want
  <2>2. CASE UpdateNothing(n) \/ UpdateFailedProperty(n)
    BY <2>2 DEF UpdateNothing, UpdateFailedProperty, TypeOK
  <2>3. CASE UpdateWritten(n)
    BY <2>1, <2>3 DEF UpdateWritten, TypeOK
  <2>4. CASE UpdateFailedFile(n)
    BY <2>4 DEF UpdateFailedFile, TypeOK
  <2> QED BY <2>2, <2>3, <2>4 DEF Update
<1> QED BY <1>1, <1>4, <1>5, <1>6 DEF TypeOK

(* ... whose looper has moved ... *)
LEMMA LooperTypeOK ==
  ASSUME TypeOK, Looper \/ SpuriousWake
  PROVE  TypeOK'
<1> USE SizeAssumption
<1>1. CASE Start \/ FirstTurn \/ SpuriousWake \/ ExitCheck
  BY <1>1 DEF Start, FirstTurn, SpuriousWake, ExitCheck, Goto, TypeOK, nodeVars
<1>2. CASE BeginRound
  BY <1>2 DEF BeginRound, TypeOK, nodeVars, Forever
<1>3. CASE Sleep
  <2>1. woken' \in BOOLEAN
    BY <1>3 DEF Sleep
  <2> QED BY <1>3, <2>1 DEF Sleep, TypeOK, nodeVars
<1>4. CASE Wake
  <2>1. woken' \in BOOLEAN
    BY <1>4 DEF Wake
  <2> QED BY <1>4, <2>1 DEF Wake, Goto, TypeOK, nodeVars
<1> QED BY <1>1, <1>2, <1>3, <1>4 DEF Looper

(* ... whose owner has called Stop ... *)
LEMMA StopTypeOK ==
  ASSUME TypeOK, Stop
  PROVE  TypeOK'
<1>1. CASE StopCall \/ StopJoin
  BY <1>1 DEF StopCall, StopJoin, TypeOK, nodeVars, loopVars
<1>2. CASE StopSignal
  <2>1. woken' \in BOOLEAN /\ exiting' \in BOOLEAN
    BY <1>2 DEF StopSignal, Signal
  <2> QED BY <1>2, <2>1 DEF StopSignal, TypeOK, nodeVars, loopVars
<1> QED BY <1>1, <1>2 DEF Stop

(* ... or that is a tick older. *)
LEMMA TickTypeOK ==
  ASSUME TypeOK, Tick
  PROVE  TypeOK'
<1> USE SizeAssumption DEF Tick, TypeOK, Less, Left, None, Forever
<1>1. left' \in [Slot -> Left]
  OBVIOUS
<1>2. slow' \in 0..MaxSlow /\ wakeIn' \in 0..Forever
  OBVIOUS
<1> QED BY <1>1, <1>2

(* Every step keeps the types. *)
LEMMA NextTypeOK == TypeOK /\ [Next]_vars => TypeOK'
<1> SUFFICES ASSUME TypeOK, [Next]_vars PROVE TypeOK'
  OBVIOUS
<1>1. ASSUME NEW c \in Client, NEW h \in Hint, DoHint(c, h) \/ EndHint(c, h)
      PROVE  TypeOK'
  BY <1>1, ClientTypeOK DEF DoHint, EndHint, Calls
<1>2. ASSUME NEW c \in Client, NEW h \in Hint, NEW t \in Override, DoHintFor(c, h, t)
      PROVE  TypeOK'
  BY <1>2, ClientTypeOK DEF DoHintFor, Calls
<1>3. ASSUME NEW c \in Client, Request(c) \/ Cancel(c)
      PROVE  TypeOK'
  BY <1>3, ClientTypeOK
<1>4. CASE UNCHANGED vars
  BY <1>4 DEF vars, nodeVars, loopVars, TypeOK
<1> QED BY <1>1, <1>2, <1>3, <1>4, UpdateTypeOK, LooperTypeOK, StopTypeOK, TickTypeOK DEF Next

(* Every variable keeps its type, whatever the configuration.               *)
THEOREM TypeCorrect == Spec => []TypeOK
BY InitTypeOK, NextTypeOK, PTL DEF Spec

-----------------------------------------------------------------------------
(* No lost wake-up. *)

(* In the second pass the timeout gathered so far covers the nodes that the  *)
(* pass has already updated; NoLostWakeup alone says nothing before the      *)
(* looper sleeps and is not inductive.                                       *)
PassCovers ==
  looper = "pass2" => \A n \in Reliable : n < idx => BackInTime(n, timeout, slow)

WakeInv == TypeOK /\ PassCovers /\ NoLostWakeup

(* Only nodes are reliable. *)
LEMMA ReliableNode == Reliable \subseteq Node
BY ConfigAssumption DEF Reliable

(* An earlier time, or more ticks excused, is as good.                      *)
LEMMA SoonerIsBetter ==
  ASSUME NEW n, NEW w \in Int, NEW d \in Int, NEW x \in Int, NEW e \in Int,
         x <= w, d <= e, BackInTime(n, w, d)
  PROVE  BackInTime(n, x, e)
<1>1. Forever \in Int /\ Retry \in Int /\ \A t \in 0..MaxTimeout : t \in Int
  BY SizeAssumption DEF Forever
<1> QED BY <1>1 DEF BackInTime

(* Whether the looper is back in time depends on the value wanted now and    *)
(* later, and on the value and the reset flag of the node.                   *)
LEMMA SameBack ==
  ASSUME NEW n \in Node, NEW w, NEW d,
         current'[n] = current[n], reset'[n] = reset[n],
         \A t \in 0..MaxTimeout : WantIn(n, t)' = WantIn(n, t),
         BackInTime(n, w, d)
  PROVE  BackInTime(n, w, d)'
<1>1. 0 \in 0..MaxTimeout
  BY SizeAssumption
<1>2. Want(n)' = Want(n)
  BY <1>1 DEF Want
<1> QED BY <1>2 DEF BackInTime, Stale

(* Sweeping expired requests does not change what is wanted.                *)
LEMMA SweptWant ==
  ASSUME TypeOK, NEW n \in Node, NEW m \in Node, left' = Swept(n), NEW t \in 0..MaxTimeout
  PROVE  WantIn(m, t)' = WantIn(m, t)
<1>1. \A s \in Slot : left'[s] > t <=> left[s] > t
  BY SizeAssumption DEF TypeOK, Swept, Left, None, Forever
<1> QED BY <1>1, SameLive

(* A tick moves what is wanted by one tick.                                 *)
LEMMA TickWant ==
  ASSUME TypeOK, Tick, NEW m \in Node, NEW t \in 0..MaxTimeout
  PROVE  WantIn(m, t)' = WantIn(m, IF t < MaxTimeout THEN t + 1 ELSE t)
<1> DEFINE u == IF t < MaxTimeout THEN t + 1 ELSE t
<1>1. \A s \in Slot : left'[s] > t <=> left[s] > u
  BY SizeAssumption DEF TypeOK, Tick, Less, Left, None, Forever
<1> HIDE DEF u
<1>2. WantIn(m, t)' = WantIn(m, u)
  BY <1>1, SameLive
<1> QED BY <1>2 DEF u

(* ... so that one tick less of sleep, or one more tick excused, keeps the   *)
(* looper back in time.                                                      *)
LEMMA TickBack ==
  ASSUME TypeOK, Tick, NEW n \in Node,
         NEW w \in 0..Forever, NEW d \in Nat, BackInTime(n, w, d),
         NEW x \in 0..Forever, NEW e \in Nat,
         (x = Less(w) /\ e = d) \/ (x = w /\ e = d + 1)
  PROVE  BackInTime(n, x, e)'
<1> USE SizeAssumption
<1>1. /\ current' = current
      /\ reset' = reset
  BY DEF Tick
<1>2. Want(n)' = WantIn(n, IF 0 < MaxTimeout THEN 1 ELSE 0)
  BY TickWant DEF Want
<1>3. ASSUME NEW t \in 0..MaxTimeout, WantIn(n, t) # Want(n)
      PROVE  w < Forever /\ w <= t + d
  BY <1>3 DEF BackInTime
<1>4. 1 \in 0..MaxTimeout
  BY DEF Forever
<1>5. Want(n)' = WantIn(n, 1)
  BY <1>2, <1>4
<1>6. w < Forever => x < Forever /\ x <= w /\ (w > 0 => x + d <= w - 1 + e) /\ (w = 0 => x = 0)
  BY DEF Less, None, Forever
<1>7. CASE Want(n)' = Want(n)
  <2>1. ASSUME NEW t \in 0..MaxTimeout, WantIn(n, t)' # Want(n)'
        PROVE  x < Forever /\ x <= t + e
    <3>1. CASE t < MaxTimeout
      <4>1. WantIn(n, t)' = WantIn(n, t + 1)
        BY <3>1, TickWant
      <4>2. w < Forever /\ w <= t + 1 + d
        BY <2>1, <3>1, <4>1, <1>7, <1>3
      <4> QED BY <4>2, <1>6 DEF Forever
    <3>2. CASE t = MaxTimeout
      <4>1. WantIn(n, t)' = WantIn(n, t)
        BY <3>2, TickWant
      <4>2. w < Forever /\ w <= t + d
        BY <2>1, <4>1, <1>7, <1>3
      <4> QED BY <4>2, <1>6 DEF Forever
    <3> QED BY <3>1, <3>2
  <2>2. Stale(n)' => Stale(n)
    BY <1>7, <1>1 DEF Stale
  <2>3. Stale(n)' => x < Forever /\ (x <= e \/ (n \in FileNode /\ x <= Retry))
    <3>1. Stale(n) => w < Forever /\ (w <= d \/ (n \in FileNode /\ w <= Retry))
      BY DEF BackInTime
    <3> QED BY <2>2, <3>1, <1>6 DEF Forever
  <2> QED BY <2>1, <2>3 DEF BackInTime
<1>8. CASE Want(n)' # Want(n)
  <2>1. w < Forever /\ w <= 1 + d
    BY <1>8, <1>5, <1>4, <1>3
  <2>2. x < Forever /\ x <= e
    BY <2>1, <1>6 DEF Forever
  <2>3. \A t \in 0..MaxTimeout : x <= t + e
    BY <2>2 DEF Forever
  <2> QED BY <2>2, <2>3 DEF BackInTime
<1> QED BY <1>7, <1>8

(* An update in the second pass brings the looper back in time for its own   *)
(* node: the node is written, or the retry of a failed file write is due.    *)
LEMMA UpdateCoversNode ==
  ASSUME TypeOK, NEW n \in Node, n \in Reliable, Update(n), looper = "pass2"
  PROVE  BackInTime(n, timeout, slow)'
<1> USE SizeAssumption
<1>1. \A t \in 0..MaxTimeout : WantIn(n, t)' = WantIn(n, t)
  BY UpdateShape, SweptWant
<1>2. Want(n)' = Want(n)
  BY <1>1 DEF Want
<1>3. Updating(n) /\ timeout \in Nat /\ ExpireIn(n) \in 0..Forever /\ Retry \in 1..MaxTimeout
  BY UpdateShape, ExpireCovers DEF TypeOK
<1>4. /\ timeout' \in 0..Forever /\ timeout' <= ExpireIn(n)
      /\ slow' = slow
  <2>1. PICK e \in 0..Forever : Advance(e) /\ e <= ExpireIn(n)
    BY UpdateShape
  <2>2. timeout' \in 0..Forever /\ timeout' <= e /\ slow' = slow
    BY <2>1, <1>3, AdvanceType
  <2> QED BY <2>1, <2>2, <1>3 DEF Forever
<1>5. ASSUME NEW t \in 0..MaxTimeout, WantIn(n, t)' # Want(n)'
      PROVE  timeout' < Forever /\ timeout' <= t + slow'
  <2>1. ExpireIn(n) < Forever /\ ExpireIn(n) <= t
    BY <1>5, <1>1, <1>2, ExpireCovers
  <2> QED BY <2>1, <1>3, <1>4 DEF TypeOK, Forever
<1>6. Stale(n)' => timeout' < Forever /\ n \in FileNode /\ timeout' <= Retry
  <2>1. CASE UpdateNothing(n)
    <3>1. ~ Stale(n)'
      BY <2>1, <1>2 DEF UpdateNothing, Stale
    <3> QED BY <3>1
  <2>2. CASE UpdateWritten(n)
    <3>1. current'[n] = Want(n) /\ reset'[n] = FALSE
      BY <2>2 DEF UpdateWritten, TypeOK
    <3>2. ~ Stale(n)'
      BY <3>1, <1>2 DEF Stale
    <3> QED BY <3>2
  <2>3. CASE UpdateFailedFile(n)
    <3> DEFINE m == Min({ExpireIn(n), Retry})
    <3>1. m \in 0..Forever /\ m <= Retry
      BY <1>3, MinPair DEF Forever
    <3>2. Advance(m) /\ n \in FileNode
      BY <2>3 DEF UpdateFailedFile
    <3> HIDE DEF m
    <3>3. timeout' <= m
      BY <3>1, <3>2, <1>3, AdvanceType
    <3> QED BY <3>1, <3>2, <3>3, <1>3, <1>4 DEF Forever
  <2>4. CASE UpdateFailedProperty(n)
    BY <2>4 DEF UpdateFailedProperty, Reliable
  <2> QED BY <2>1, <2>2, <2>3, <2>4 DEF Update
<1> QED BY <1>5, <1>6 DEF BackInTime

(* An update adds its own node to those that are covered, and disturbs none
   of the others. *)
LEMMA UpdateWakeInv ==
  ASSUME WakeInv, NEW n \in Node, Update(n)
  PROVE  PassCovers' /\ NoLostWakeup'
<1>1. TypeOK /\ TypeOK'
  BY UpdateTypeOK DEF WakeInv
<1>2. Updating(n) /\ left' = Swept(n)
  BY <1>1, UpdateShape
<1>3. PICK e \in 0..Forever : Advance(e)
  BY <1>1, UpdateShape
<1>4. /\ looper' \in {"pass1", "pass2"}
      /\ looper = "pass2" => timeout' <= timeout /\ idx' = n + 1
      /\ looper = "pass1" => looper' = "pass1" \/ idx' = 1
      /\ slow' = slow
  BY <1>1, <1>2, <1>3, AdvanceType
<1>5. ASSUME looper' = "pass2", NEW m \in Reliable, m < idx'
      PROVE  BackInTime(m, timeout, slow)'
  <2>1. m \in Node /\ m \in 1..NumNodes
    BY ReliableNode DEF Node
  <2>2. looper = "pass2" /\ idx' = n + 1
    <3>1. looper \in {"pass1", "pass2"} /\ ~ (m < 1)
      BY <1>2, <2>1, SizeAssumption DEF Updating, Locked
    <3>2. looper # "pass1"
      BY <3>1, <1>4, <1>5
    <3> QED BY <3>1, <3>2, <1>4
  <2>3. CASE m = n
    BY <2>2, <2>3, <1>1, UpdateCoversNode
  <2>4. CASE m # n
    <3>1. m < idx
      BY <2>1, <2>2, <2>4, <1>2, <1>5 DEF Updating, Node
    <3>2. BackInTime(m, timeout, slow)
      BY <3>1, <2>2 DEF WakeInv, PassCovers
    <3>3. current'[m] = current[m] /\ reset'[m] = reset[m]
      <4>1. /\ current' = current \/ current' = [current EXCEPT ![n] = Want(n)]
            /\ reset' = reset \/ reset' = [reset EXCEPT ![n] = FALSE]
        BY <1>1, UpdateShape
      <4> QED BY <4>1, <2>4, <2>1, <1>1 DEF TypeOK
    <3>4. \A t \in 0..MaxTimeout : WantIn(m, t)' = WantIn(m, t)
      BY <1>1, <1>2, <2>1, SweptWant
    <3>5. PICK w \in Int, d \in Int : w = timeout' /\ d = slow'
      BY <1>1, SizeAssumption DEF TypeOK, Forever
    <3>6. BackInTime(m, w, d)
      <4>1. timeout \in Int /\ slow \in Int /\ w <= timeout /\ slow <= d
        BY <1>1, <1>4, <2>2, <3>5, SizeAssumption DEF TypeOK, Forever
      <4> QED BY <4>1, <3>2, SoonerIsBetter
    <3>7. BackInTime(m, w, d)'
      BY <3>3, <3>4, <3>6, <2>1, SameBack
    <3> QED BY <3>5, <3>7 DEF BackInTime
  <2> QED BY <2>3, <2>4
<1>6. looper' # "asleep"
  BY <1>4
<1> QED BY <1>5, <1>6 DEF PassCovers, NoLostWakeup

(* A step that neither touches a node nor moves the looper.                  *)
LEMMA QuietWakeInv ==
  ASSUME WakeInv, UNCHANGED <<nodeVars, loopVars, woken>>
  PROVE  PassCovers' /\ NoLostWakeup'
<1>1. \A n \in Node : \A t \in 0..MaxTimeout : WantIn(n, t)' = WantIn(n, t)
  BY SameLive DEF nodeVars
<1>2. \A n \in Reliable : BackInTime(n, timeout, slow) => BackInTime(n, timeout, slow)'
  <2>1. 0 \in 0..MaxTimeout
    BY SizeAssumption
  <2> QED BY <1>1, <2>1, ReliableNode DEF BackInTime, Stale, Want, nodeVars, loopVars
<1>3. \A n \in Reliable : BackInTime(n, wakeIn, MaxSlow) => BackInTime(n, wakeIn, MaxSlow)'
  <2>1. 0 \in 0..MaxTimeout
    BY SizeAssumption
  <2> QED BY <1>1, <2>1, ReliableNode DEF BackInTime, Stale, Want, nodeVars, loopVars
<1> QED BY <1>2, <1>3 DEF WakeInv, PassCovers, NoLostWakeup, loopVars

(* A step that signals the looper, or leaves it neither in the second pass   *)
(* nor asleep.                                                               *)
LEMMA AwakeWakeInv ==
  ASSUME looper' # "pass2", looper' = "asleep" => woken'
  PROVE  PassCovers' /\ NoLostWakeup'
BY DEF PassCovers, NoLostWakeup

(* At the end of the second pass every node is covered by the timeout the
   looper goes to sleep with. *)
LEMMA SleepWakeInv ==
  ASSUME WakeInv, Sleep
  PROVE  PassCovers' /\ NoLostWakeup'
<1>1. TypeOK /\ looper' = "asleep" /\ wakeIn' = timeout
  BY DEF WakeInv, Sleep
<1>2. ASSUME NEW n \in Reliable
      PROVE  BackInTime(n, wakeIn, MaxSlow)'
  <2>1. n \in Node /\ n < idx /\ looper = "pass2"
    BY ReliableNode, SizeAssumption DEF Sleep, Node
  <2>2. BackInTime(n, timeout, slow)
    BY <2>1 DEF WakeInv, PassCovers
  <2>3. PICK w \in Int : w = timeout
    BY <1>1, SizeAssumption DEF TypeOK, Forever
  <2>4. BackInTime(n, w, MaxSlow)
    <3>1. slow \in Int /\ MaxSlow \in Int /\ slow <= MaxSlow
      BY <1>1, SizeAssumption DEF TypeOK
    <3> QED BY <3>1, <2>2, <2>3, SoonerIsBetter
  <2>5. current'[n] = current[n] /\ reset'[n] = reset[n] /\ left' = left
    BY DEF Sleep, nodeVars
  <2>6. \A t \in 0..MaxTimeout : WantIn(n, t)' = WantIn(n, t)
    BY <2>1, <2>5, SameLive
  <2>7. BackInTime(n, w, MaxSlow)'
    BY <2>1, <2>4, <2>5, <2>6, SameBack
  <2> QED BY <1>1, <2>3, <2>7 DEF BackInTime
<1> QED BY <1>1, <1>2 DEF PassCovers, NoLostWakeup

(* Time brings the looper nearer to its return as it brings the expiries
   nearer; in a round it counts as slow. *)
LEMMA TickWakeInv ==
  ASSUME WakeInv, Tick
  PROVE  PassCovers' /\ NoLostWakeup'
<1> USE SizeAssumption
<1>1. TypeOK /\ TypeOK'
  BY TickTypeOK DEF WakeInv
<1>2. UNCHANGED <<looper, idx, timeout, woken>>
  BY DEF Tick
<1>3. ASSUME looper = "pass2", NEW n \in Reliable, n < idx
      PROVE  BackInTime(n, timeout, slow)'
  <2>1. BackInTime(n, timeout, slow)
    BY <1>3 DEF WakeInv, PassCovers
  <2>2. slow' = slow + 1
    BY <1>3 DEF Tick, Locked
  <2>3. PICK w \in 0..Forever, d \in Nat : w = timeout /\ d = slow
    BY <1>1 DEF TypeOK
  <2>4. n \in Node /\ d + 1 \in Nat /\ BackInTime(n, w, d)
    BY <2>1, <2>3, ReliableNode
  <2>5. BackInTime(n, w, d + 1)'
    BY <2>3, <2>4, <1>1, TickBack
  <2> QED BY <2>2, <2>3, <2>5, <1>2 DEF BackInTime
<1>4. ASSUME looper = "asleep", ~woken, NEW n \in Reliable
      PROVE  BackInTime(n, wakeIn, MaxSlow)'
  <2>1. BackInTime(n, wakeIn, MaxSlow)
    BY <1>4 DEF WakeInv, NoLostWakeup
  <2>2. wakeIn' = Less(wakeIn)
    BY <1>4 DEF Tick
  <2>3. PICK w \in 0..Forever, x \in 0..Forever : w = wakeIn /\ x = wakeIn'
    BY <1>1 DEF TypeOK
  <2>4. n \in Node /\ MaxSlow \in Nat /\ x = Less(w) /\ BackInTime(n, w, MaxSlow)
    BY <2>1, <2>2, <2>3, ReliableNode
  <2>5. BackInTime(n, x, MaxSlow)'
    BY <2>4, <1>1, TickBack
  <2>6. x = wakeIn'
    BY <2>3
  <2> QED BY <2>5, <2>6, Zenon DEF BackInTime
<1> QED BY <1>2, <1>3, <1>4 DEF PassCovers, NoLostWakeup

(* Every step keeps the strengthened invariant. *)
LEMMA NextWakeInv == WakeInv /\ [Next]_vars => WakeInv'
<1> SUFFICES ASSUME WakeInv, [Next]_vars PROVE WakeInv'
  OBVIOUS
<1>1. TypeOK'
  BY NextTypeOK DEF WakeInv
<1>2. PassCovers' /\ NoLostWakeup'
  <2>1. ASSUME NEW c \in Client, NEW req, Enter(c, req)
        PROVE  PassCovers' /\ NoLostWakeup'
    BY <2>1, QuietWakeInv DEF Enter
  <2>2. ASSUME NEW c \in Client, Request(c) \/ Cancel(c)
        PROVE  PassCovers' /\ NoLostWakeup'
    <3>1. looper' # "pass2" /\ (looper' = "asleep" => woken')
      BY <2>2 DEF Request, Cancel, Locked, Signal, loopVars
    <3> QED BY <3>1, AwakeWakeInv
  <2>3. CASE Start \/ FirstTurn \/ BeginRound \/ Wake \/ ExitCheck \/ SpuriousWake
    <3>1. looper' # "pass2" /\ looper' # "asleep"
      BY <2>3 DEF Start, FirstTurn, BeginRound, Wake, ExitCheck, SpuriousWake, Goto
    <3> QED BY <3>1, AwakeWakeInv
  <2>4. CASE StopCall \/ StopJoin \/ UNCHANGED vars
    BY <2>4, QuietWakeInv DEF StopCall, StopJoin, vars
  <2>5. CASE StopSignal
    <3>1. looper' # "pass2" /\ (looper' = "asleep" => woken')
      BY <2>5 DEF StopSignal, Locked, Signal, loopVars
    <3> QED BY <3>1, AwakeWakeInv
  <2>6. ASSUME NEW c \in Client, NEW h \in Hint,
               DoHint(c, h) \/ EndHint(c, h) \/ \E t \in Override : DoHintFor(c, h, t)
        PROVE  PassCovers' /\ NoLostWakeup'
    BY <2>6, <2>1 DEF DoHint, EndHint, DoHintFor
  <2> QED BY <2>2, <2>3, <2>4, <2>5, <2>6, UpdateWakeInv, SleepWakeInv, TickWakeInv
          DEF Next, Looper, Stop
<1> QED BY <1>1, <1>2 DEF WakeInv

(* No wake-up is lost, whatever the nodes, the hints, their timeouts and the *)
(* number of callers: NoLostWakeup of PerfMgr (NodeLooperThread.cc:101-127). *)
THEOREM NoWakeupLost == Spec => []NoLostWakeup
<1>1. Init => WakeInv
  BY InitTypeOK DEF Init, WakeInv, PassCovers, NoLostWakeup
<1>2. WakeInv => NoLostWakeup
  BY DEF WakeInv
<1> QED BY <1>1, <1>2, NextWakeInv, PTL DEF Spec

-----------------------------------------------------------------------------
(* The promise to the Power HAL, without its liveness. *)

(* WantType, of the next state. *)
LEMMA WantTypeNext ==
  ASSUME NEW n \in Node
  PROVE  Want(n)' \in Value
<1>1. CASE AskedIn(n, 0)' = {}
  BY <1>1, ConfigAssumption DEF Want, WantIn
<1>2. CASE AskedIn(n, 0)' # {}
  <2>1. AskedIn(n, 0)' \subseteq Value /\ Value \subseteq Nat
    BY SizeAssumption DEF AskedIn, Value
  <2>2. Want(n)' = Min(AskedIn(n, 0)')
    BY <1>2 DEF Want, WantIn, Min
  <2>3. AskedIn(n, 0)' \subseteq Nat
    BY <2>1
  <2>4. Min(AskedIn(n, 0)') \in AskedIn(n, 0)'
    BY <2>3, <1>2, MinNat
  <2> QED BY <2>1, <2>2, <2>4
<1> QED BY <1>1, <1>2

(* A step of the manager that drives no node is, for the Power HAL, at most  *)
(* a change of what is wanted.                                               *)
LEMMA OtherImplements ==
  ASSUME TypeOK, UNCHANGED current
  PROVE  [Board!Next]_(Board!vars)
<1>1. [n \in Node |-> Want(n)]' \in [Node -> Value]
  BY WantTypeNext
<1> QED BY <1>1 DEF Board!Next, Board!Rewant

(* An update is a step Apply of the board, or none. *)
LEMMA UpdateImplements ==
  ASSUME TypeOK, NEW n \in Node, Update(n)
  PROVE  [Board!Next]_(Board!vars)
<1>1. [m \in Node |-> Want(m)]' = [m \in Node |-> Want(m)]
  <2>1. left' = Swept(n) /\ 0 \in 0..MaxTimeout
    BY UpdateShape, SizeAssumption
  <2>2. \A m \in Node : Want(m)' = Want(m)
    BY <2>1, SweptWant DEF Want
  <2> QED BY <2>2
<1>2. CASE current' = current
  BY <1>2, OtherImplements
<1>3. CASE current' = [current EXCEPT ![n] = Want(n)]
  <2>1. Board!Apply(n)
    BY <1>1, <1>3 DEF Board!Apply
  <2> QED BY <2>1 DEF Board!Next
<1>4. current' \in {current, [current EXCEPT ![n] = Want(n)]}
  BY UpdateShape
<1> QED BY <1>2, <1>3, <1>4

(* A node is only ever driven to the value wanted at that moment: the        *)
(* manager implements the initial states and the steps of HintBoard, for     *)
(* every configuration. The fairness of HintBoard is left to TLC.            *)
THEOREM ImplementsBoardSafety == Spec => Board!Init /\ [][Board!Next]_(Board!vars)
<1>1. Init => Board!Init
  <2> SUFFICES ASSUME Init PROVE Board!Init
    OBVIOUS
  <2>1. \A n \in Node : Want(n) \in Value
    BY WantType DEF Want
  <2>2. current \in [Node -> Value]
    BY ConfigAssumption DEF Init
  <2> QED BY <2>1, <2>2 DEF Board!Init
<1>2. TypeOK /\ [Next]_vars => [Board!Next]_(Board!vars)
  <2> SUFFICES ASSUME TypeOK, [Next]_vars PROVE [Board!Next]_(Board!vars)
    OBVIOUS
  <2>1. ASSUME NEW n \in Node, Update(n)
        PROVE  [Board!Next]_(Board!vars)
    BY <2>1, UpdateImplements
  <2>2. CASE ~ \E n \in Node : Update(n)
    <3>1. UNCHANGED current
      BY <2>2 DEF Next, DoHint, DoHintFor, EndHint, Enter, Request, Cancel, Looper, Start,
             FirstTurn, BeginRound, Sleep, Wake, SpuriousWake, ExitCheck, Goto, Stop,
             StopCall, StopSignal, StopJoin, Tick, vars, nodeVars
    <3> QED BY <3>1, OtherImplements
  <2> QED BY <2>1, <2>2
<1> QED BY <1>1, <1>2, TypeCorrect, PTL DEF Spec

-----------------------------------------------------------------------------
(* Who may take a request away. *)

(* What a step does to the request maps.                                    *)
LEMMA LeftShape ==
  ASSUME TypeOK, [Next]_vars
  PROVE  \/ left' = left
         \/ \E c \in Client : Request(c) \/ Cancel(c)
         \/ \E n \in Node : left' = Swept(n)
         \/ Tick
<1>1. CASE \E n \in Node : Update(n)
  BY <1>1, UpdateShape
<1>2. CASE \E c \in Client, h \in Hint :
             \/ DoHint(c, h)
             \/ EndHint(c, h)
             \/ \E millis \in Override : DoHintFor(c, h, millis)
  BY <1>2 DEF DoHint, EndHint, DoHintFor, Enter, nodeVars
<1>3. CASE Looper \/ SpuriousWake \/ Stop \/ UNCHANGED vars
  BY <1>3 DEF Looper, Start, FirstTurn, BeginRound, Sleep, Wake, SpuriousWake, ExitCheck,
         Goto, Stop, StopCall, StopSignal, StopJoin, vars, nodeVars
<1> QED BY <1>1, <1>2, <1>3 DEF Next

(* Requests wait only at the nodes that their hint acts on.                 *)
Acted == \A s \in Slot : left[s] # None => \E a \in Actions[s[3]] : a.node = s[1]

(* Every step keeps them there: a call adds requests where its actions are.  *)
LEMMA NextActed == TypeOK /\ Acted /\ [Next]_vars => Acted'
<1> SUFFICES ASSUME TypeOK, Acted, [Next]_vars,
                    NEW s \in Slot, left'[s] # None
             PROVE  \E a \in Actions[s[3]] : a.node = s[1]
  BY DEF Acted
<1>1. SUFFICES ASSUME left[s] = None
               PROVE  \E a \in Actions[s[3]] : a.node = s[1]
  BY DEF Acted
<1>2. ASSUME NEW c \in Client, Request(c)
      PROVE  \E a \in Actions[s[3]] : a.node = s[1]
  <2> DEFINE h == call[c].hint
  <2>1. h \in Hint /\ left' = Added(call[c])
    BY <1>2, CallType DEF Request
  <2>2. PICK a \in Actions[h] : s = <<a.node, a.value, h>>
    BY <2>1, <1>1 DEF Added
  <2> QED BY <2>2
<1>3. ASSUME NEW c \in Client, Cancel(c)
      PROVE  FALSE
  BY <1>3, <1>1 DEF Cancel, Removed
<1>4. ASSUME NEW n \in Node, left' = Swept(n)
      PROVE  FALSE
  BY <1>4, <1>1 DEF Swept
<1>5. CASE Tick
  BY <1>5, <1>1 DEF Tick, Less
<1> QED BY <1>1, <1>2, <1>3, <1>4, <1>5, LeftShape

(* What a request does to the maps: the end of every action's request is the *)
(* later of the old and the new one, and nothing else changes.               *)
LEMMA RequestShape ==
  ASSUME TypeOK, NEW c \in Client, Request(c)
  PROVE  /\ \A s \in Slot : left[s] <= left'[s] /\ left'[s] \in Int /\ left[s] \in Int
         /\ \A s \in Slot, a \in Actions[call[c].hint] :
              s = <<a.node, a.value, call[c].hint>> =>
                left'[s] = IF left[s] < EndTime(TimeoutOf(call[c], a))
                           THEN EndTime(TimeoutOf(call[c], a)) ELSE left[s]
         /\ \A s \in Slot :
              (\A a \in Actions[call[c].hint] : s # <<a.node, a.value, call[c].hint>>)
                => left'[s] = left[s]
<1> DEFINE req == call[c]
<1>1. /\ left' = Added(req)
      /\ req.hint \in Hint
      /\ \A a \in NodeAction : EndTime(TimeoutOf(req, a)) \in Left
      /\ Actions[req.hint] \subseteq NodeAction
  BY CallType, ConfigAssumption DEF Request
<1>2. \A s \in Slot : left[s] \in Int
  BY SizeAssumption DEF TypeOK, Left, None, Forever
<1>3. Left \subseteq Int
  BY SizeAssumption DEF Left, None, Forever
<1> HIDE DEF req
<1>4. ASSUME NEW s \in Slot, NEW a \in Actions[req.hint], s = <<a.node, a.value, req.hint>>
      PROVE  left'[s] = IF left[s] < EndTime(TimeoutOf(req, a))
                        THEN EndTime(TimeoutOf(req, a)) ELSE left[s]
  <2>1. \A b \in Actions[req.hint] : s = <<b.node, b.value, req.hint>> => b = a
    BY <1>1, <1>4, ConfigAssumption
  <2> QED BY <1>1, <1>4, <2>1 DEF Added
<1>5. ASSUME NEW s \in Slot, \A a \in Actions[req.hint] : s # <<a.node, a.value, req.hint>>
      PROVE  left'[s] = left[s]
  BY <1>1, <1>5 DEF Added
<1>6. \A s \in Slot : left[s] <= left'[s] /\ left'[s] \in Int
  <2> SUFFICES ASSUME NEW s \in Slot PROVE left[s] <= left'[s] /\ left'[s] \in Int
    OBVIOUS
  <2>1. CASE \E a \in Actions[req.hint] : s = <<a.node, a.value, req.hint>>
    <3>1. PICK a \in Actions[req.hint] : s = <<a.node, a.value, req.hint>>
      BY <2>1
    <3>2. EndTime(TimeoutOf(req, a)) \in Int
      BY <1>1, <1>3
    <3> QED BY <3>1, <3>2, <1>2, <1>4
  <2>2. CASE ~ \E a \in Actions[req.hint] : s = <<a.node, a.value, req.hint>>
    BY <2>2, <1>2, <1>5
  <2> QED BY <2>1, <2>2
<1> QED BY <1>2, <1>4, <1>5, <1>6 DEF req

(* A call of a hint raises the requests of all its actions; an action that   *)
(* lasts as long as another does so again after it.                          *)
LEMMA RequestWhole ==
  ASSUME TypeOK, HintIsWhole, NEW c \in Client, Request(c)
  PROVE  HintIsWhole'
<1> SUFFICES ASSUME NEW h \in Hint, NEW a \in Actions[h], NEW b \in Actions[h],
                    NEW r, r = <<a.node, a.value, h>>, NEW s, s = <<b.node, b.value, h>>,
                    EndTime(b.timeout) <= EndTime(a.timeout), left'[s] > 0
             PROVE  left'[s] <= left'[r]
  BY DEF HintIsWhole
<1> DEFINE req == call[c]
<1>1. r \in Slot /\ s \in Slot /\ a \in NodeAction /\ b \in NodeAction
  BY ConfigAssumption DEF Slot, NodeAction
<1>2. /\ left[r] \in Int /\ left'[r] \in Int /\ left[r] <= left'[r]
      /\ left[s] \in Int /\ left'[s] \in Int
  BY <1>1, RequestShape
<1>3. left[s] > 0 => left[s] <= left[r]
  BY <1>1 DEF HintIsWhole
<1>4. CASE left'[s] = left[s]
  BY <1>2, <1>3, <1>4
<1>5. CASE left'[s] # left[s]
  <2>1. PICK d \in Actions[req.hint] : s = <<d.node, d.value, req.hint>>
    BY <1>1, <1>5, RequestShape
  <2>2. req.hint = h
    BY <1>1, <2>1
  <2> DEFINE ea == EndTime(TimeoutOf(req, a))
             eb == EndTime(TimeoutOf(req, b))
  <2>3. ea \in Int /\ eb \in Int
    <3>1. req.op \in {"do", "override"}
      BY DEF Request
    <3> QED BY <3>1, <1>1, CallType, SizeAssumption DEF Left, None, Forever
  <2>4. eb <= ea
    BY <2>3 DEF TimeoutOf
  <2>5. left'[s] = IF left[s] < eb THEN eb ELSE left[s]
    BY <1>1, <2>2, RequestShape
  <2>6. left'[r] = IF left[r] < ea THEN ea ELSE left[r]
    BY <1>1, <2>2, RequestShape
  <2> HIDE DEF ea, eb
  <2> QED BY <1>2, <1>5, <2>3, <2>4, <2>5, <2>6
<1> QED BY <1>4, <1>5

(* The other steps: an EndHint takes the requests of all actions of its hint, *)
(* a sweep only what is over, and a tick as much from each.                   *)
LEMMA NextWhole == TypeOK /\ HintIsWhole /\ [Next]_vars => HintIsWhole'
<1> SUFFICES ASSUME TypeOK, HintIsWhole, [Next]_vars PROVE HintIsWhole'
  OBVIOUS
<1>1. CASE \E c \in Client : Request(c)
  BY <1>1, RequestWhole
<1>2. CASE ~ \E c \in Client : Request(c)
  <2> SUFFICES ASSUME NEW h \in Hint, NEW a \in Actions[h], NEW b \in Actions[h],
                      NEW r, r = <<a.node, a.value, h>>, NEW s, s = <<b.node, b.value, h>>,
                      EndTime(b.timeout) <= EndTime(a.timeout), left'[s] > 0
               PROVE  left'[s] <= left'[r]
    BY DEF HintIsWhole
  <2>1. /\ r \in Slot /\ s \in Slot
        /\ r[1] = a.node /\ r[3] = h /\ s[1] = b.node /\ s[3] = h
    BY ConfigAssumption DEF Slot, NodeAction
  <2>2. left[s] > 0 => left[s] <= left[r]
    BY DEF HintIsWhole
  <2>3. left[r] \in -1..Forever /\ left[s] \in -1..Forever /\ Forever \in Nat
    BY <2>1, SizeAssumption DEF TypeOK, Left, None, Forever
  <2>4. left'[s] > 0
    OBVIOUS
  <2>5. ASSUME NEW c \in Client, Cancel(c)
        PROVE  left'[s] <= left'[r]
    <3> DEFINE g == call[c].hint
    <3>1. g \in Hint /\ left' = Removed(g)
      BY <2>5, CallType DEF Cancel
    <3> HIDE DEF g
    <3>2. h # g
      <4>1. h = g => left'[s] = -1
        BY <3>1, <2>1 DEF Removed, None
      <4> QED BY <4>1, <2>4
    <3>3. left'[s] = left[s] /\ left'[r] = left[r]
      BY <3>1, <3>2, <2>1 DEF Removed
    <3> QED BY <3>3, <2>2, <2>4
  <2>6. ASSUME NEW n \in Node, left' = Swept(n)
        PROVE  left'[s] <= left'[r]
    <3>1. \A x \in Slot : left'[x] = left[x] \/ (left'[x] = -1 /\ left[x] = 0)
      BY <2>6 DEF Swept, None
    <3>2. left'[s] = left[s] /\ left[s] > 0
      BY <3>1, <2>1, <2>4
    <3>3. left'[r] = left[r]
      BY <3>1, <3>2, <2>1, <2>2, <2>3
    <3> QED BY <3>2, <3>3, <2>2
  <2>7. CASE Tick
    <3>1. left'[s] = Less(left[s]) /\ left'[r] = Less(left[r])
      BY <2>7, <2>1 DEF Tick
    <3>2. \A x, y \in -1..Forever :
            Less(x) > 0 => x > 0 /\ (x <= y => Less(x) <= Less(y))
      BY <2>3, SizeAssumption DEF Less, None, Forever
    <3> QED BY <3>1, <3>2, <2>2, <2>3, <2>4
  <2>8. CASE left' = left
    BY <2>8, <2>2, <2>4
  <2> QED BY <1>2, <2>5, <2>6, <2>7, <2>8, LeftShape
<1> QED BY <1>1, <1>2

(* A hint that acts on several nodes is in effect on all of them or on none, *)
(* for every configuration and number of callers: HintIsWhole of PerfMgr     *)
(* (Request and Cancel change all nodes under lock_, AddRequest keeps the    *)
(* later end, the looper takes away only what is over).                      *)
THEOREM HintsAreWhole == Spec => []HintIsWhole
<1>1. ASSUME Init PROVE HintIsWhole
  <2> SUFFICES ASSUME NEW h \in Hint, NEW b \in Actions[h]
               PROVE  left[<<b.node, b.value, h>>] = -1
    BY DEF HintIsWhole
  <2>1. <<b.node, b.value, h>> \in Slot
    BY ConfigAssumption DEF Slot, NodeAction
  <2> QED BY <1>1, <2>1 DEF Init, None
<1> QED BY <1>1, NextWhole, TypeCorrect, PTL DEF Spec

(* A request that has not run out is only taken away by an EndHint of its    *)
(* own hint: OnlyOwnerEndsRequest of PerfMgr (RequestGroup::AddRequest keeps *)
(* the later end, GetExpireTime erases only what is over).                   *)
THEOREM RequestsKeepTheirTime == Spec => OnlyOwnerEndsRequest
<1>1. TypeOK /\ [Next]_vars =>
        [\A s \in Slot : left[s] > 1 /\ left'[s] < left[s] =>
           \/ left'[s] = left[s] - 1 /\ \A r \in Slot : left'[r] <= left[r]
           \/ \E c \in Client : call[c] = [op |-> "end", hint |-> s[3]] /\ call'[c] = Idle]_vars
  <2> SUFFICES ASSUME TypeOK, [Next]_vars,
                      NEW s \in Slot, left[s] > 1, left'[s] < left[s]
               PROVE  \/ left'[s] = left[s] - 1 /\ \A r \in Slot : left'[r] <= left[r]
                      \/ \E c \in Client : call[c] = [op |-> "end", hint |-> s[3]]
                                           /\ call'[c] = Idle
    OBVIOUS
  <2>1. \A r \in Slot : left[r] \in Int
    BY SizeAssumption DEF TypeOK, Left, None, Forever
  <2>2. ASSUME NEW c \in Client, Request(c)
        PROVE  FALSE
    <3> DEFINE req == call[c]
    <3>1. left' = Added(req) /\ req.hint \in Hint
      BY <2>2, CallType DEF Request
    <3>2. CASE \E a \in Actions[req.hint] : /\ s = <<a.node, a.value, req.hint>>
                                            /\ left[s] < EndTime(TimeoutOf(req, a))
      <4>1. PICK a \in Actions[req.hint] : /\ s = <<a.node, a.value, req.hint>>
                                           /\ left[s] < EndTime(TimeoutOf(req, a))
        BY <3>2
      <4>2. \A b \in Actions[req.hint] : s = <<b.node, b.value, req.hint>> => b = a
        BY <3>1, <4>1, ConfigAssumption
      <4> DEFINE e == EndTime(TimeoutOf(req, a))
      <4>3. left'[s] = e
        BY <3>1, <3>2, <4>1, <4>2 DEF Added
      <4>4. e \in Int
        BY <2>2, <3>1, CallType, ConfigAssumption, SizeAssumption
           DEF Request, Left, None, Forever
      <4> HIDE DEF e
      <4>5. left[s] < e
        BY <4>1 DEF e
      <4> QED BY <4>3, <4>4, <4>5, <2>1
    <3>3. CASE ~ \E a \in Actions[req.hint] : /\ s = <<a.node, a.value, req.hint>>
                                              /\ left[s] < EndTime(TimeoutOf(req, a))
      <4>1. left'[s] = left[s]
        BY <3>1, <3>3 DEF Added
      <4> QED BY <4>1, <2>1
    <3> QED BY <3>2, <3>3
  <2>3. ASSUME NEW c \in Client, Cancel(c)
        PROVE  call[c] = [op |-> "end", hint |-> s[3]] /\ call'[c] = Idle
    <3>1. call[c].op = "end" /\ left' = Removed(call[c].hint) /\ call'[c] = Idle
      BY <2>3 DEF Cancel, TypeOK
    <3>2. s[3] = call[c].hint
      <4>1. CASE s[3] # call[c].hint
        <5>1. left'[s] = left[s]
          BY <3>1, <4>1 DEF Removed
        <5> QED BY <5>1, <2>1
      <4> QED BY <4>1
    <3>3. call[c] \in [op : {"do", "end"}, hint : Hint]
      BY <3>1 DEF TypeOK, Calls, Idle
    <3> QED BY <3>1, <3>2, <3>3
  <2>4. ASSUME NEW n \in Node, left' = Swept(n)
        PROVE  FALSE
    <3>1. left'[s] = left[s]
      BY <2>4, <2>1 DEF Swept
    <3> QED BY <3>1, <2>1
  <2>5. CASE Tick
    <3>1. \A r \in Slot : left'[r] = Less(left[r])
      BY <2>5 DEF Tick
    <3>2. \A r \in Slot : left'[r] <= left[r]
      BY <3>1, <2>1 DEF Less
    <3>3. left'[s] = left[s] - 1
      BY <3>1, <2>1 DEF Less
    <3> QED BY <3>2, <3>3
  <2>6. CASE left' = left
    BY <2>6, <2>1
  <2> QED BY <2>2, <2>3, <2>4, <2>5, <2>6, LeftShape
<1> QED BY <1>1, TypeCorrect, PTL DEF Spec, OnlyOwnerEndsRequest

-----------------------------------------------------------------------------
(* Two passes are enough for nodes that limit each other. *)

(* Every hint that raises a limited node raises its limit at least as far,   *)
(* at least as long.                                                         *)
Matched ==
  \A p \in Capped, h \in Hint, v \in Value : left[<<p[1], v, h>>] > 0 =>
     \E w \in Value : w <= v /\ left[<<p[1], v, h>>] <= left[<<p[2], w, h>>]

(* The limit of a node is never asked to stay below where the node is by     *)
(* default.                                                                  *)
WithinDefault ==
  \A p \in Capped, h \in Hint, w \in Value :
     left[<<p[2], w, h>>] > 0 => w <= Default[p[1]]

(* What is wanted of a node is within what is wanted of its limit.           *)
LEMMA WantsAgree ==
  ASSUME TypeOK, Settleable, Matched, WithinDefault, NEW p \in Capped
  PROVE  Want(p[1]) \in Nat /\ Want(p[2]) \in Nat /\ Want(p[2]) <= Want(p[1])
<1>1. p[1] \in Node /\ p[2] \in Node
  BY ConfigAssumption
<1>2. \A n \in Node : Want(n) \in Value /\ Value \subseteq Nat
  BY WantType, SizeAssumption DEF Want, Value
<1>3. CASE AskedIn(p[1], 0) # {}
  <2>1. Want(p[1]) \in AskedIn(p[1], 0)
    BY <1>1, <1>3, WantLeast DEF Want
  <2>2. PICK h \in Hint : left[<<p[1], Want(p[1]), h>>] > 0
    BY <2>1 DEF AskedIn, LiveIn
  <2>3. PICK w \in Value : /\ w <= Want(p[1])
                           /\ left[<<p[1], Want(p[1]), h>>] <= left[<<p[2], w, h>>]
    BY <2>2, <1>1, <1>2 DEF Matched
  <2>4. left[<<p[2], w, h>>] > 0
    <3>1. <<p[1], Want(p[1]), h>> \in Slot /\ <<p[2], w, h>> \in Slot
      BY <1>1, <1>2 DEF Slot
    <3>2. \A s \in Slot : left[s] \in Int
      BY SizeAssumption DEF TypeOK, Left, None, Forever
    <3> QED BY <3>1, <3>2, <2>2, <2>3
  <2>5. w \in AskedIn(p[2], 0)
    BY <2>4 DEF AskedIn, LiveIn
  <2>6. Want(p[2]) <= w
    BY <2>5, <1>1, WantLeast DEF Want
  <2> QED BY <2>3, <2>6, <1>1, <1>2
<1>4. CASE AskedIn(p[1], 0) = {}
  <2>1. Want(p[1]) = Default[p[1]]
    BY <1>4 DEF Want, WantIn
  <2>2. Want(p[2]) <= Default[p[1]]
    <3>1. CASE AskedIn(p[2], 0) = {}
      BY <3>1 DEF Want, WantIn, Settleable
    <3>2. CASE AskedIn(p[2], 0) # {}
      <4>1. Want(p[2]) \in AskedIn(p[2], 0)
        BY <1>1, <3>2, WantLeast DEF Want
      <4>2. PICK h \in Hint : left[<<p[2], Want(p[2]), h>>] > 0
        BY <4>1 DEF AskedIn, LiveIn
      <4> QED BY <4>2, <1>1, <1>2 DEF WithinDefault
    <3> QED BY <3>1, <3>2
  <2> QED BY <2>1, <2>2, <1>1, <1>2
<1> QED BY <1>3, <1>4

(* A call makes the limit last as long as what it limits.                    *)
LEMMA RequestMatched ==
  ASSUME TypeOK, Settleable, Matched, WithinDefault, NEW c \in Client, Request(c)
  PROVE  Matched' /\ WithinDefault'
<1> DEFINE req == call[c]
<1>1. /\ left' = Added(req)
      /\ req.hint \in Hint
      /\ \A a \in NodeAction : EndTime(TimeoutOf(req, a)) \in Left
      /\ Actions[req.hint] \subseteq NodeAction
  BY CallType, ConfigAssumption DEF Request
<1>2. \A s \in Slot : left[s] \in Int
  BY SizeAssumption DEF TypeOK, Left, None, Forever
<1>3. Left \subseteq Int
  BY SizeAssumption DEF Left, None, Forever
<1>4. ASSUME NEW s \in Slot, NEW a \in Actions[req.hint], s = <<a.node, a.value, req.hint>>
      PROVE  left'[s] = IF left[s] < EndTime(TimeoutOf(req, a))
                        THEN EndTime(TimeoutOf(req, a)) ELSE left[s]
  BY <1>4, RequestShape
<1>5. ASSUME NEW s \in Slot, \A a \in Actions[req.hint] : s # <<a.node, a.value, req.hint>>
      PROVE  left'[s] = left[s]
  BY <1>5, RequestShape
<1>6. \A s \in Slot : left[s] <= left'[s] /\ left'[s] \in Int
  BY RequestShape
<1> HIDE DEF req
<1>7. ASSUME NEW p \in Capped, NEW h \in Hint, NEW v \in Value, left'[<<p[1], v, h>>] > 0
      PROVE  \E w \in Value : w <= v /\ left'[<<p[1], v, h>>] <= left'[<<p[2], w, h>>]
  <2> DEFINE s == <<p[1], v, h>>
  <2>1. p[1] \in Node /\ p[2] \in Node /\ s \in Slot
    BY ConfigAssumption DEF Slot
  <2>2. CASE left'[s] = left[s]
    <3>1. PICK w \in Value : w <= v /\ left[s] <= left[<<p[2], w, h>>]
      BY <2>2, <1>7 DEF Matched
    <3>2. <<p[2], w, h>> \in Slot
      BY <2>1 DEF Slot
    <3>3. left'[s] <= left'[<<p[2], w, h>>]
      BY <2>1, <2>2, <3>1, <3>2, <1>2, <1>6
    <3> QED BY <3>1, <3>3
  <2>3. CASE left'[s] # left[s]
    <3>1. PICK a \in Actions[req.hint] : s = <<a.node, a.value, req.hint>>
      BY <2>1, <2>3, <1>5
    <3>2. a.node = p[1] /\ a.value = v /\ h = req.hint /\ left'[s] = EndTime(TimeoutOf(req, a))
      BY <2>1, <2>3, <3>1, <1>4
    <3>3. PICK b \in Actions[req.hint] : /\ b.node = p[2]
                                         /\ b.value <= a.value
                                         /\ EndTime(a.timeout) <= EndTime(b.timeout)
      BY <3>2, <1>1 DEF Settleable
    <3> DEFINE r == <<p[2], b.value, h>>
    <3>4. b \in NodeAction /\ a \in NodeAction
      BY <1>1
    <3>5. b.value \in Value /\ r \in Slot /\ r = <<b.node, b.value, req.hint>>
      BY <3>2, <3>3, <3>4, <2>1 DEF Slot, NodeAction
    <3>6. EndTime(TimeoutOf(req, a)) <= EndTime(TimeoutOf(req, b))
      <4>1. EndTime(TimeoutOf(req, a)) \in Int
        BY <3>4, <1>1, <1>3
      <4> QED BY <3>3, <4>1 DEF TimeoutOf
    <3>7. EndTime(TimeoutOf(req, a)) \in Int /\ EndTime(TimeoutOf(req, b)) \in Int
      BY <3>4, <1>1, <1>3
    <3>8. EndTime(TimeoutOf(req, b)) <= left'[r]
      BY <3>5, <3>7, <1>2, <1>4
    <3>9. left'[s] <= left'[r]
      <4>1. left'[r] \in Int
        BY <3>5, <1>6
      <4> QED BY <4>1, <3>2, <3>6, <3>7, <3>8
    <3> QED BY <3>2, <3>3, <3>5, <3>9
  <2> QED BY <2>2, <2>3
<1>8. ASSUME NEW p \in Capped, NEW h \in Hint, NEW w \in Value, left'[<<p[2], w, h>>] > 0
      PROVE  w <= Default[p[1]]
  <2> DEFINE s == <<p[2], w, h>>
  <2>1. s \in Slot
    BY ConfigAssumption DEF Slot
  <2>2. CASE left'[s] = left[s]
    BY <2>2, <1>8 DEF WithinDefault
  <2>3. CASE left'[s] # left[s]
    <3>1. PICK a \in Actions[req.hint] : s = <<a.node, a.value, req.hint>>
      BY <2>1, <2>3, <1>5
    <3> QED BY <3>1, <1>1 DEF Settleable
  <2> QED BY <2>2, <2>3
<1> QED BY <1>7, <1>8 DEF Matched, WithinDefault

(* EndHint takes a hint from a node and from its limits alike, a sweep takes *)
(* only what is over, and a tick takes from the limit no more than from what *)
(* it limits.                                                                *)
LEMMA NextMatched ==
  ASSUME TypeOK, Settleable, Acted, Matched, WithinDefault, [Next]_vars
  PROVE  Matched' /\ WithinDefault'
<1>1. \A s \in Slot : left[s] \in -1..Forever /\ Forever \in Nat
  BY SizeAssumption DEF TypeOK, Left, None, Forever
<1>2. \A p \in Capped, h \in Hint, v \in Value : <<p[1], v, h>> \in Slot /\ <<p[2], v, h>> \in Slot
  BY ConfigAssumption DEF Slot
<1>3. ASSUME NEW c \in Client, Cancel(c)
      PROVE  Matched' /\ WithinDefault'
  <2> DEFINE g == call[c].hint
  <2>1. g \in Hint /\ left' = Removed(g)
    BY <1>3, CallType DEF Cancel
  <2> HIDE DEF g
  <2>2. \A s \in Slot : left'[s] = left[s] \/ left'[s] = -1
    BY <2>1 DEF Removed, None
  <2>3. ASSUME NEW p \in Capped, NEW h \in Hint, NEW v \in Value, left'[<<p[1], v, h>>] > 0
        PROVE  \E w \in Value : w <= v /\ left'[<<p[1], v, h>>] <= left'[<<p[2], w, h>>]
    <3> DEFINE s == <<p[1], v, h>>
    <3>0. s \in Slot /\ s[1] = p[1] /\ s[3] = h /\ left'[s] > 0
      BY <1>2, <2>3
    <3>1. left'[s] = left[s] /\ left[s] > 0
      <4> HIDE DEF s
      <4> QED BY <2>2, <3>0
    <3>2. PICK w \in Value : w <= v /\ left[s] <= left[<<p[2], w, h>>]
      BY <3>1 DEF Matched
    <3>3. h # g
      <4>1. PICK a \in Actions[h] : a.node = p[1]
        <5> HIDE DEF s
        <5> QED BY <3>0, <3>1 DEF Acted, None
      <4>2. h = g => left'[s] = None
        <5> HIDE DEF s
        <5> QED BY <4>1, <3>0, <2>1 DEF Removed
      <4> QED BY <4>2, <3>1 DEF None
    <3>4. left'[<<p[2], w, h>>] = left[<<p[2], w, h>>]
      BY <2>1, <3>3, <1>2 DEF Removed
    <3> QED BY <3>1, <3>2, <3>4
  <2>4. WithinDefault'
    <3> SUFFICES ASSUME NEW p \in Capped, NEW h \in Hint, NEW w \in Value,
                        left'[<<p[2], w, h>>] > 0
                 PROVE  w <= Default[p[1]]
      BY DEF WithinDefault
    <3>1. <<p[2], w, h>> \in Slot
      BY <1>2
    <3>2. left'[<<p[2], w, h>>] = left[<<p[2], w, h>>]
      BY <2>2, <3>1
    <3> QED BY <3>2 DEF WithinDefault
  <2> QED BY <2>3, <2>4 DEF Matched
<1>4. ASSUME NEW n \in Node, left' = Swept(n)
      PROVE  Matched' /\ WithinDefault'
  <2>1. \A s \in Slot : left'[s] = left[s] \/ (left'[s] = -1 /\ left[s] = 0)
    BY <1>4 DEF Swept, None
  <2>2. ASSUME NEW p \in Capped, NEW h \in Hint, NEW v \in Value, left'[<<p[1], v, h>>] > 0
        PROVE  \E w \in Value : w <= v /\ left'[<<p[1], v, h>>] <= left'[<<p[2], w, h>>]
    <3> DEFINE s == <<p[1], v, h>>
    <3>0. s \in Slot /\ left'[s] > 0
      BY <1>2, <2>2
    <3>1. left'[s] = left[s] /\ left[s] > 0
      <4> HIDE DEF s
      <4> QED BY <2>1, <3>0
    <3>2. PICK w \in Value : w <= v /\ left[s] <= left[<<p[2], w, h>>]
      BY <3>1 DEF Matched
    <3> DEFINE r == <<p[2], w, h>>
    <3>3. r \in Slot /\ left[s] <= left[r]
      BY <1>2, <3>2
    <3>4. left'[r] = left[r]
      <4> HIDE DEF s, r
      <4> QED BY <2>1, <3>0, <3>1, <3>3, <1>1
    <3> QED BY <3>1, <3>2, <3>4
  <2>3. WithinDefault'
    <3> SUFFICES ASSUME NEW p \in Capped, NEW h \in Hint, NEW w \in Value,
                        left'[<<p[2], w, h>>] > 0
                 PROVE  w <= Default[p[1]]
      BY DEF WithinDefault
    <3>1. <<p[2], w, h>> \in Slot
      BY <1>2
    <3>2. left'[<<p[2], w, h>>] = left[<<p[2], w, h>>]
      BY <2>1, <3>1
    <3> QED BY <3>2 DEF WithinDefault
  <2> QED BY <2>2, <2>3 DEF Matched
<1>5. CASE Tick
  <2>1. \A s \in Slot : left'[s] = Less(left[s])
    BY <1>5 DEF Tick
  <2>2. \A x, y \in -1..Forever : x <= y /\ Less(x) > 0 => Less(x) <= Less(y) /\ x > 0
    BY <1>1, SizeAssumption DEF Less, None, Forever
  <2>3. \A x \in -1..Forever : Less(x) > 0 => x > 0
    BY <1>1, SizeAssumption DEF Less, None, Forever
  <2>4. ASSUME NEW p \in Capped, NEW h \in Hint, NEW v \in Value, left'[<<p[1], v, h>>] > 0
        PROVE  \E w \in Value : w <= v /\ left'[<<p[1], v, h>>] <= left'[<<p[2], w, h>>]
    <3> DEFINE x == left[<<p[1], v, h>>]
    <3>1. x \in -1..Forever /\ Less(x) > 0 /\ left'[<<p[1], v, h>>] = Less(x)
      BY <2>1, <2>4, <1>1, <1>2
    <3>2. x > 0
      BY <3>1, <2>3
    <3>3. PICK w \in Value : w <= v /\ x <= left[<<p[2], w, h>>]
      BY <3>2 DEF Matched
    <3>4. left[<<p[2], w, h>>] \in -1..Forever /\ left'[<<p[2], w, h>>] = Less(left[<<p[2], w, h>>])
      BY <2>1, <1>1, <1>2
    <3>5. Less(x) <= Less(left[<<p[2], w, h>>])
      BY <3>1, <3>3, <3>4, <2>2
    <3> QED BY <3>1, <3>3, <3>4, <3>5
  <2>5. WithinDefault'
    <3> SUFFICES ASSUME NEW p \in Capped, NEW h \in Hint, NEW w \in Value,
                        left'[<<p[2], w, h>>] > 0
                 PROVE  w <= Default[p[1]]
      BY DEF WithinDefault
    <3>1. left[<<p[2], w, h>>] > 0
      BY <2>1, <2>3, <1>1, <1>2
    <3> QED BY <3>1 DEF WithinDefault
  <2> QED BY <2>4, <2>5 DEF Matched
<1>6. CASE left' = left
  BY <1>6 DEF Matched, WithinDefault
<1>7. ASSUME NEW c \in Client, Request(c)
      PROVE  Matched' /\ WithinDefault'
  BY <1>7, RequestMatched
<1> QED BY <1>3, <1>4, <1>5, <1>6, <1>7, LeftShape

(* What is written stays in the device until its file is closed.            *)
ShowsCurrent == \A n \in Node : shown[n] = Unset \/ shown[n] = current[n]

(* The kernel lets no node show more than its limit shows. *)
WithinLimits ==
  \A p \in Capped : shown[p[1]] # Unset /\ shown[p[2]] # Unset => shown[p[2]] <= shown[p[1]]

(* A node is out of the way of others: one that is limited shows no more, a  *)
(* limit no less than it is going to.                                        *)
OutOfTheWay(n) ==
  shown[n] # Unset => \A p \in Capped : /\ n = p[1] => Want(n) <= shown[n]
                                        /\ n = p[2] => shown[n] <= Want(n)

(* The first pass gets nodes out of the way, even those it could not write,  *)
(* and the second one writes them.                                           *)
Passing ==
  /\ looper = "pass1" => \A n \in Node : n < idx => OutOfTheWay(n)
  /\ looper = "pass2" => /\ \A n \in Node : OutOfTheWay(n)
                         /\ \A n \in FileNode : n < idx => ~ Stale(n)

SettleInv == /\ TypeOK /\ Acted /\ Matched /\ WithinDefault
             /\ ShowsCurrent /\ WithinLimits /\ Passing

(* An update gets its node out of the way; the second one writes it.        *)
LEMMA UpdateSettles ==
  ASSUME Settleable, SettleInv, NEW n \in Node, Update(n)
  PROVE  ShowsCurrent' /\ WithinLimits' /\ Passing'
<1>1. /\ TypeOK /\ Updating(n)
      /\ left' = Swept(n)
      /\ current' \in {current, [current EXCEPT ![n] = Want(n)]}
      /\ reset' \in {reset, [reset EXCEPT ![n] = FALSE]}
  BY UpdateShape DEF SettleInv
<1>2. \A m \in Node : Want(m)' = Want(m)
  <2>1. 0 \in 0..MaxTimeout
    BY SizeAssumption
  <2> QED BY <1>1, <2>1, SweptWant DEF Want
<1>3. \A m \in Node : /\ Want(m) \in Int
                      /\ shown[m] \in Int
                      /\ current[m] \in Int
  BY <1>1, WantType, SizeAssumption DEF Want, Value, TypeOK, Unset
<1>4. \A p \in Capped : p[1] \in Node /\ p[2] \in Node /\ p[1] \in FileNode /\ p[2] \in FileNode
  BY ConfigAssumption
<1>5. \A m \in Node : m # n => /\ shown'[m] = shown[m]
                               /\ current'[m] = current[m]
                               /\ reset'[m] = reset[m]
  <2>1. \A m \in Node : m # n => current'[m] = current[m] /\ reset'[m] = reset[m]
    BY <1>1 DEF TypeOK
  <2>2. \A m \in Node : m # n => shown'[m] = shown[m]
    BY <1>1 DEF Update, UpdateNothing, UpdateWritten, UpdateFailedFile, UpdateFailedProperty, TypeOK
  <2> QED BY <2>1, <2>2
<1>6. /\ shown'[n] = Unset \/ shown'[n] = current'[n]
      /\ OutOfTheWay(n)'
      /\ Accepts(n, Want(n)) \/ shown'[n] \in {Unset, shown[n]}
      /\ shown'[n] \in {Unset, shown[n], Want(n)}
      /\ shown'[n] = Want(n) => Accepts(n, Want(n)) \/ shown'[n] \in {Unset, shown[n]}
      /\ n \in FileNode /\ Accepts(n, Want(n)) => ~ Stale(n)'
  <2>1. CASE UpdateNothing(n)
    <3>1. /\ shown' = shown /\ current' = current /\ reset' = reset
          /\ current[n] = Want(n) /\ ~ reset[n]
      BY <2>1 DEF UpdateNothing, Stale
    <3>2. shown[n] = Unset \/ shown[n] = Want(n)
      BY <3>1 DEF SettleInv, ShowsCurrent
    <3>3. OutOfTheWay(n)'
      BY <3>1, <3>2, <1>2, <1>3 DEF OutOfTheWay
    <3> QED BY <3>1, <3>2, <3>3, <1>2 DEF Stale
  <2>2. CASE UpdateWritten(n)
    <3>1. /\ shown'[n] = Unset \/ shown'[n] = Want(n)
          /\ current'[n] = Want(n) /\ reset'[n] = FALSE
          /\ Accepts(n, Want(n))
      BY <2>2, <1>1 DEF UpdateWritten, TypeOK
    <3>2. OutOfTheWay(n)'
      BY <3>1, <1>2, <1>3 DEF OutOfTheWay
    <3> QED BY <3>1, <3>2, <1>2 DEF Stale
  <2>3. CASE UpdateFailedFile(n)
    <3>1. /\ n \in FileNode /\ ~ Accepts(n, Want(n))
          /\ current' = current
          /\ shown'[n] = Unset \/ shown'[n] = shown[n]
      BY <2>3, <1>1 DEF UpdateFailedFile, Settleable, TypeOK
    <3>2. shown'[n] = Unset \/ shown'[n] = current'[n]
      BY <3>1 DEF SettleInv, ShowsCurrent
    <3>3. PICK p \in Capped :
             \/ n = p[1] /\ shown[p[2]] # Unset /\ ~ (Want(n) >= shown[p[2]])
             \/ n = p[2] /\ shown[p[1]] # Unset /\ ~ (Want(n) <= shown[p[1]])
      BY <3>1 DEF Accepts
    <3>4. CASE n = p[1] /\ shown[p[2]] # Unset /\ ~ (Want(n) >= shown[p[2]])
      <4>1. \A q \in Capped : n # q[2]
        BY <3>4 DEF Settleable
      <4>2. shown[n] # Unset => shown[p[2]] <= shown[n]
        BY <3>4 DEF SettleInv, WithinLimits
      <4>3. shown[n] # Unset => Want(n) <= shown[n]
        BY <4>2, <3>4, <1>3, <1>4
      <4>4. OutOfTheWay(n)'
        BY <3>1, <4>1, <4>3, <1>2 DEF OutOfTheWay
      <4> QED BY <3>1, <3>2, <4>4
    <3>5. CASE n = p[2] /\ shown[p[1]] # Unset /\ ~ (Want(n) <= shown[p[1]])
      <4>1. \A q \in Capped : n # q[1]
        BY <3>5 DEF Settleable
      <4>2. shown[n] # Unset => shown[n] <= shown[p[1]]
        BY <3>5 DEF SettleInv, WithinLimits
      <4>3. shown[n] # Unset => shown[n] <= Want(n)
        BY <4>2, <3>5, <1>3, <1>4
      <4>4. OutOfTheWay(n)'
        BY <3>1, <4>1, <4>3, <1>2 DEF OutOfTheWay
      <4> QED BY <3>1, <3>2, <4>4
    <3> QED BY <3>3, <3>4, <3>5
  <2>4. CASE UpdateFailedProperty(n)
    <3>1. shown' = shown /\ current' = current /\ n \notin FileNode
      BY <2>4 DEF UpdateFailedProperty
    <3>2. OutOfTheWay(n)'
      BY <3>1, <1>4 DEF OutOfTheWay
    <3> QED BY <3>1, <3>2 DEF SettleInv, ShowsCurrent
  <2> QED BY <2>1, <2>2, <2>3, <2>4 DEF Update
<1>7. ShowsCurrent'
  BY <1>5, <1>6 DEF SettleInv, ShowsCurrent
<1>8. WithinLimits'
  <2> SUFFICES ASSUME NEW p \in Capped, shown'[p[1]] # Unset, shown'[p[2]] # Unset
               PROVE  shown'[p[2]] <= shown'[p[1]]
    BY DEF WithinLimits
  <2>1. p[1] # p[2]
    BY DEF Settleable
  <2>2. CASE shown'[n] \in {Unset, shown[n]}
    <3>1. shown'[p[1]] = shown[p[1]] /\ shown'[p[2]] = shown[p[2]]
      BY <2>2, <1>4, <1>5
    <3> QED BY <3>1 DEF SettleInv, WithinLimits
  <2>3. CASE shown'[n] = Want(n) /\ Accepts(n, Want(n))
    <3>1. CASE n = p[1]
      BY <3>1, <2>1, <2>3, <1>3, <1>4, <1>5 DEF Accepts
    <3>2. CASE n = p[2]
      BY <3>2, <2>1, <2>3, <1>3, <1>4, <1>5 DEF Accepts
    <3>3. CASE n # p[1] /\ n # p[2]
      BY <3>3, <1>4, <1>5 DEF SettleInv, WithinLimits
    <3> QED BY <3>1, <3>2, <3>3
  <2> QED BY <2>2, <2>3, <1>6
<1>9. \A m \in Node : OutOfTheWay(m) => OutOfTheWay(m)'
  BY <1>2, <1>5, <1>6 DEF OutOfTheWay
<1>10. PICK e \in 0..Forever : Advance(e)
  BY <1>1, UpdateShape
<1>11. n = idx /\ n \in 1..NumNodes /\ looper \in {"pass1", "pass2"} /\ NumNodes \in Nat
  BY <1>1, SizeAssumption DEF Updating, Locked, Node
<1>12. CASE looper = "pass1"
  <2>1. \A m \in Node : m < n + 1 => OutOfTheWay(m)'
    <3>1. \A m \in Node : m < n + 1 => m = n \/ m < idx
      BY <1>11 DEF Node
    <3> QED BY <3>1, <1>6, <1>9, <1>12 DEF SettleInv, Passing
  <2>2. CASE idx = NumNodes
    <3>1. looper' = "pass2" /\ idx' = 1
      BY <1>10, <1>12, <2>2 DEF Advance
    <3>2. \A m \in Node : m < n + 1
      BY <2>2, <1>11 DEF Node
    <3>3. \A m \in FileNode : ~ (m < idx')
      BY <3>1, ConfigAssumption, SizeAssumption DEF Node
    <3>4. \A m \in Node : OutOfTheWay(m)'
      BY <3>2, <2>1
    <3>5. Passing'
      BY <3>1, <3>3, <3>4 DEF Passing
    <3> QED BY <3>5, <1>7, <1>8
  <2>3. CASE idx # NumNodes
    <3>1. looper' = "pass1" /\ idx' = n + 1
      BY <1>10, <1>11, <1>12, <2>3 DEF Advance
    <3>2. \A m \in Node : m < idx' => OutOfTheWay(m)'
      BY <3>1, <2>1
    <3>3. Passing'
      BY <3>1, <3>2 DEF Passing
    <3> QED BY <3>3, <1>7, <1>8
  <2> QED BY <2>2, <2>3
<1>13. CASE looper = "pass2"
  <2>1. looper' = "pass2" /\ idx' = n + 1
    BY <1>10, <1>11, <1>13 DEF Advance
  <2>2. \A m \in Node : OutOfTheWay(m)
    BY <1>13 DEF SettleInv, Passing
  <2>3. Accepts(n, Want(n))
    <3> SUFFICES ASSUME NEW p \in Capped
                 PROVE  /\ n = p[1] /\ shown[p[2]] # Unset => Want(n) >= shown[p[2]]
                        /\ n = p[2] /\ shown[p[1]] # Unset => Want(n) <= shown[p[1]]
      BY DEF Accepts
    <3>1. Want(p[2]) <= Want(p[1])
      BY WantsAgree DEF SettleInv
    <3>2. shown[p[2]] # Unset => shown[p[2]] <= Want(p[2])
      BY <2>2, <1>4 DEF OutOfTheWay
    <3>3. shown[p[1]] # Unset => Want(p[1]) <= shown[p[1]]
      BY <2>2, <1>4 DEF OutOfTheWay
    <3> QED BY <3>1, <3>2, <3>3, <1>3, <1>4
  <2>4. \A m \in FileNode : m < n + 1 => ~ Stale(m)'
    <3> SUFFICES ASSUME NEW m \in FileNode, m < n + 1 PROVE ~ Stale(m)'
      OBVIOUS
    <3>1. m \in Node
      BY ConfigAssumption
    <3>2. CASE m = n
      BY <3>2, <2>3, <1>6
    <3>3. CASE m # n
      <4>1. m < idx
        BY <3>1, <3>3, <1>11 DEF Node
      <4>2. ~ Stale(m)
        BY <4>1, <1>13 DEF SettleInv, Passing
      <4> QED BY <4>2, <3>1, <3>3, <1>2, <1>5 DEF Stale
    <3> QED BY <3>2, <3>3
  <2> QED BY <2>1, <2>2, <2>4, <1>7, <1>8, <1>9 DEF Passing
<1> QED BY <1>11, <1>12, <1>13

(* Between two rounds nodes keep what they show, and no time passes within   *)
(* a round.                                                                  *)
LEMMA NextSettles == Settleable /\ SettleInv /\ [Next]_vars => SettleInv'
<1> SUFFICES ASSUME Settleable, SettleInv, [Next]_vars
             PROVE  ShowsCurrent' /\ WithinLimits' /\ Passing'
  BY NextTypeOK, NextActed, NextMatched DEF SettleInv
<1>1. CASE \E n \in Node : Update(n)
  BY <1>1, UpdateSettles
<1>2. CASE ~ \E n \in Node : Update(n)
  <2>1. UNCHANGED <<current, shown, reset>>
    BY <1>2 DEF Next, DoHint, DoHintFor, EndHint, Enter, Request, Cancel, Looper, Start,
           FirstTurn, BeginRound, Sleep, Wake, SpuriousWake, ExitCheck, Goto, Stop,
           StopCall, StopSignal, StopJoin, Tick, vars, nodeVars
  <2>2. ShowsCurrent' /\ WithinLimits'
    BY <2>1 DEF SettleInv, ShowsCurrent, WithinLimits
  <2>3. CASE BeginRound
    <3>1. looper' = "pass1" /\ idx' = 1
      BY <2>3 DEF BeginRound
    <3>2. \A n \in Node : ~ (n < 1)
      BY SizeAssumption DEF Node
    <3> QED BY <3>1, <3>2, <2>2 DEF Passing
  <2>4. CASE looper' \notin {"pass1", "pass2"}
    BY <2>4, <2>2 DEF Passing
  <2>5. CASE UNCHANGED <<left, looper, idx>>
    <3>1. \A n \in Node : Want(n)' = Want(n)
      BY <2>5, SameLive DEF Want
    <3>2. \A n \in FileNode : n \in Node
      BY ConfigAssumption
    <3> QED BY <2>1, <2>2, <2>5, <3>1, <3>2 DEF SettleInv, Passing, OutOfTheWay, Stale
  <2>6. BeginRound \/ looper' \notin {"pass1", "pass2"} \/ UNCHANGED <<left, looper, idx>>
    <3>1. Locked => ~ Tick
      <4>1. slow \in 0..MaxSlow /\ MaxSlow = 0
        BY DEF SettleInv, TypeOK, Settleable
      <4> QED BY <4>1 DEF Tick
    <3>2. CASE Tick
      BY <3>1, <3>2 DEF Tick, Locked
    <3>3. CASE \E c \in Client : Request(c) \/ Cancel(c)
      BY <3>3 DEF Request, Cancel, Locked, loopVars
    <3>4. CASE ~ Tick /\ ~ \E c \in Client : Request(c) \/ Cancel(c)
      BY <1>2, <3>4 DEF Next, DoHint, DoHintFor, EndHint, Enter, Looper, Start,
             FirstTurn, Sleep, Wake, SpuriousWake, ExitCheck, Goto, Stop,
             StopCall, StopSignal, StopJoin, vars, nodeVars, loopVars
    <3> QED BY <3>2, <3>3, <3>4
  <2> QED BY <2>3, <2>4, <2>5, <2>6
<1> QED BY <1>1, <1>2

(* When the looper goes to sleep every file node is where it should be: the  *)
(* two loops of threadLoop suffice for every Settleable configuration, in    *)
(* which a node may have any number of limits and limit any number of nodes, *)
(* whatever the order of the nodes.                                          *)
THEOREM TwoPassesAreEnough ==
  ASSUME Settleable
  PROVE  Spec => TwoPassesSettle
<1>1. Init => SettleInv
  <2> SUFFICES ASSUME Init PROVE SettleInv
    OBVIOUS
  <2>1. \A p \in Capped, h \in Hint, v \in Value :
          <<p[1], v, h>> \in Slot /\ <<p[2], v, h>> \in Slot /\ p[1] \in Node
    BY ConfigAssumption DEF Slot
  <2>2. \A s \in Slot : left[s] = -1
    BY DEF Init, None
  <2>3. Acted
    BY <2>2 DEF Acted, None
  <2>4. Matched
    <3> SUFFICES ASSUME NEW p \in Capped, NEW h \in Hint, NEW v \in Value,
                        left[<<p[1], v, h>>] > 0
                 PROVE  FALSE
      BY DEF Matched
    <3>1. <<p[1], v, h>> \in Slot
      BY <2>1
    <3>2. left[<<p[1], v, h>>] = -1
      BY <2>2, <3>1
    <3> QED BY <3>2
  <2>5. WithinDefault
    <3> SUFFICES ASSUME NEW p \in Capped, NEW h \in Hint, NEW w \in Value,
                        left[<<p[2], w, h>>] > 0
                 PROVE  FALSE
      BY DEF WithinDefault
    <3>1. <<p[2], w, h>> \in Slot
      BY <2>1
    <3>2. left[<<p[2], w, h>>] = -1
      BY <2>2, <3>1
    <3> QED BY <3>2
  <2>6. \A n \in Node : shown[n] = Unset
    BY DEF Init
  <2>7. ShowsCurrent
    BY <2>6 DEF ShowsCurrent
  <2>8. WithinLimits
    BY <2>6, ConfigAssumption DEF WithinLimits
  <2>9. Passing
    BY DEF Init, Passing
  <2> QED BY <2>3, <2>4, <2>5, <2>7, <2>8, <2>9, InitTypeOK DEF SettleInv
<1>2. SettleInv => [Sleep => \A n \in FileNode : ~ Stale(n)]_vars
  <2> SUFFICES ASSUME SettleInv, Sleep, NEW n \in FileNode PROVE ~ Stale(n)
    OBVIOUS
  <2>1. n < idx /\ looper = "pass2"
    BY ConfigAssumption, SizeAssumption DEF Sleep, Node
  <2> QED BY <2>1 DEF SettleInv, Passing
<1>3. SettleInv /\ [Next]_vars => SettleInv'
  BY NextSettles
<1> QED BY <1>1, <1>2, <1>3, PTL DEF Spec, TwoPassesSettle
=============================================================================
