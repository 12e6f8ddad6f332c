---------------------- MODULE InteractionHandler_proofs ----------------------
(***************************************************************************)
(* The hint follows the state and lasts as long as was promised, and an    *)
(* abort wakes the wait it was meant for, whatever the durations are.      *)
(***************************************************************************)
EXTENDS InteractionHandler, TLAPS

(* How the lives of the owner, the state and the thread go together. *)
Lifecycle ==
  /\ owner = "in" <=> mState # "UNINITIALIZED"
  /\ owner = "out" <=> thread = "none"
  /\ owner = "out" => ~hinted
  /\ mState = "WAITING" => thread \in Polling
  /\ thread = "exited" => mState = "UNINITIALIZED"

IInv == TypeOK /\ HintMatchesState /\ AbortMatchesWait /\ SleeperIsWoken /\ Lifecycle

(* The duration given to the handler is within its limits. *)
LEMMA FinalDurationType ==
  ASSUME NEW d \in Duration
  PROVE  FinalDuration(d) \in 0..mMaxDurationMs
BY DurationAssumption DEF FinalDuration

(* No state the handler starts in breaks the invariant. *)
LEMMA InitIInv == Init => IInv
<1> SUFFICES ASSUME Init PROVE IInv
  OBVIOUS
<1>1. TypeOK
  <2>1. hinted \in BOOLEAN /\ notified \in BOOLEAN
    BY DEF Init
  <2> QED BY <2>1, DurationAssumption DEF Init, TypeOK
<1>2. HintMatchesState
  BY DEF Init, HintMatchesState
<1>3. AbortMatchesWait
  BY DEF Init, AbortMatchesWait, Polling
<1>4. SleeperIsWoken
  BY DEF Init, SleeperIsWoken
<1>5. Lifecycle
  BY DEF Init, Lifecycle, Polling
<1> QED BY <1>1, <1>2, <1>3, <1>4, <1>5 DEF IInv

(* Every step of the owner, the callers, the thread and the clock keeps the  *)
(* types.                                                                    *)
LEMMA NextTypeOK == TypeOK /\ [Next]_vars => TypeOK'
<1> SUFFICES ASSUME TypeOK, [Next]_vars PROVE TypeOK'
  OBVIOUS
<1> USE DurationAssumption DEF TypeOK, Polling
<1>1. CASE InitHandler
  BY <1>1 DEF InitHandler, timeVars, pollVars, hintVars
<1>2. CASE Exit
  BY <1>2 DEF Exit, timeVars, pollVars, hintVars
<1>3. CASE ExitNotify
  BY <1>3 DEF ExitNotify, timeVars, pollVars, hintVars
<1>4. CASE ExitJoin
  BY <1>4 DEF ExitJoin, timeVars, pollVars, hintVars
<1>5. ASSUME NEW d \in Duration, AcquireCovered(d) PROVE TypeOK'
  <2>1. promised' \in 0..mMaxDurationMs
    BY <1>5, FinalDurationType DEF AcquireCovered, Later
  <2> QED BY <2>1, <1>5 DEF AcquireCovered, timeVars, pollVars
<1>6. ASSUME NEW d \in Duration, Acquire(d) PROVE TypeOK'
  <2>1. /\ promised' \in 0..mMaxDurationMs
        /\ mDurationMs' \in 0..mMaxDurationMs
    BY <1>6, FinalDurationType DEF Acquire, Later
  <2>2. hinted' \in BOOLEAN /\ notified' \in BOOLEAN
    BY <1>6 DEF Acquire
  <2>3. /\ mState' = "INTERACTION"
        /\ age' = 0
        /\ mEventFd' \in Nat
        /\ UNCHANGED <<thread, budget, pollLeft, why, owner>>
    BY <1>6 DEF Acquire, pollVars
  <2> QED BY <2>1, <2>2, <2>3
<1>7. CASE TakeTurn
  BY <1>7 DEF TakeTurn, timeVars, pollVars, hintVars
<1>8. CASE CallWaitForIdle
  BY <1>8 DEF CallWaitForIdle, timeVars, hintVars
<1>9. CASE PollAborted \/ PollFailed \/ IdleDetected \/ IdleTimeout
  BY <1>9 DEF PollAborted, PollFailed, IdleDetected, IdleTimeout, Return, timeVars, hintVars
<1>10. CASE NotIdleYet
  BY <1>10 DEF NotIdleYet, timeVars, hintVars
<1>11. CASE Release
  <2>1. hinted' \in BOOLEAN
    BY <1>11 DEF Release, hintVars
  <2> QED BY <2>1, <1>11 DEF Release, timeVars, pollVars, hintVars
<1>12. CASE Tick
  BY <1>12 DEF Tick, Less
<1>13. CASE UNCHANGED vars
  BY <1>13 DEF vars, timeVars, pollVars, hintVars
<1> QED
  BY <1>1, <1>2, <1>3, <1>4, <1>5, <1>6, <1>7, <1>8, <1>9, <1>10, <1>11, <1>12, <1>13
     DEF Next, Routine

(* The interplay of state, hint, event descriptor and thread is kept too.    *)
LEMMA NextIInv == IInv /\ [Next]_vars => IInv'
<1> SUFFICES ASSUME IInv, [Next]_vars
             PROVE  HintMatchesState' /\ AbortMatchesWait' /\ SleeperIsWoken' /\ Lifecycle'
  BY NextTypeOK DEF IInv
<1> USE DEF IInv, TypeOK, HintMatchesState, AbortMatchesWait, SleeperIsWoken, Lifecycle, Polling
<1>1. CASE InitHandler
  BY <1>1 DEF InitHandler, timeVars, pollVars, hintVars
<1>2. CASE Exit
  BY <1>2 DEF Exit, timeVars, pollVars, hintVars
<1>3. CASE ExitNotify \/ ExitJoin
  BY <1>3 DEF ExitNotify, ExitJoin, timeVars, pollVars, hintVars
<1>4. ASSUME NEW d \in Duration, AcquireCovered(d)
      PROVE  HintMatchesState' /\ AbortMatchesWait' /\ SleeperIsWoken' /\ Lifecycle'
  BY <1>4 DEF AcquireCovered, timeVars, pollVars
<1>5. ASSUME NEW d \in Duration, Acquire(d)
      PROVE  HintMatchesState' /\ AbortMatchesWait' /\ SleeperIsWoken' /\ Lifecycle'
  BY <1>5 DEF Acquire, pollVars
<1>6. CASE TakeTurn
  BY <1>6 DEF TakeTurn, timeVars, pollVars, hintVars
<1>7. CASE CallWaitForIdle \/ NotIdleYet
  BY <1>7 DEF CallWaitForIdle, NotIdleYet, timeVars, hintVars
<1>8. CASE PollAborted \/ PollFailed \/ IdleDetected \/ IdleTimeout
  BY <1>8 DEF PollAborted, PollFailed, IdleDetected, IdleTimeout, Return, timeVars, hintVars
<1>9. CASE Release
  BY <1>9 DEF Release, timeVars, pollVars, hintVars
<1>10. CASE Tick
  BY <1>10 DEF Tick
<1>11. CASE UNCHANGED vars
  BY <1>11 DEF vars, timeVars, pollVars, hintVars
<1> QED
  BY <1>1, <1>2, <1>3, <1>4, <1>5, <1>6, <1>7, <1>8, <1>9, <1>10, <1>11 DEF Next, Routine

(* The hint is held exactly in an interaction or in the wait for its end.    *)
THEOREM HintFollowsState == Spec => []HintMatchesState
<1>1. IInv => HintMatchesState
  BY DEF IInv
<1> QED BY InitIInv, NextIInv, <1>1, PTL DEF Spec

(* No abort is lost and none is left over for a later wait.                  *)
THEOREM AbortsMatchWaits == Spec => []AbortMatchesWait
<1>1. IInv => AbortMatchesWait
  BY DEF IInv
<1> QED BY InitIInv, NextIInv, <1>1, PTL DEF Spec

(* The thread never sleeps through a touch or an Exit: whoever gave it        *)
(* something to do has notified it or is about to.                           *)
THEOREM SleepersAreWoken == Spec => []SleeperIsWoken
<1>1. IInv => SleeperIsWoken
  BY DEF IInv
<1> QED BY InitIInv, NextIInv, <1>1, PTL DEF Spec

(* Every variable keeps its type, the promised duration and the poll's       *)
(* budget included.                                                          *)
THEOREM TypeCorrect == Spec => []TypeOK
<1>1. IInv => TypeOK
  BY DEF IInv
<1> QED BY InitIInv, NextIInv, <1>1, PTL DEF Spec

-----------------------------------------------------------------------------
(* The hint lasts as long as the callers were promised. *)

(* A promise lasts no longer than the duration kept since the last Acquire; *)
(* the second poll of a wait that nobody overtook, started with that same   *)
(* duration, ends no sooner.                                                *)
Keeps ==
  /\ ~hinted => promised = 0
  /\ mState # "UNINITIALIZED" => promised = 0 \/ promised + age <= mDurationMs
  /\ mState = "WAITING" =>
       /\ thread \in {"poll1", "poll2"} => budget = mDurationMs
       /\ thread = "poll2" => mDurationMs <= pollLeft + age
       /\ thread = "release" /\ why = "timeout" => mDurationMs <= age

(* An Acquire, covered or not, promises no more than it leaves in place.    *)
LEMMA AcquireKeeps ==
  ASSUME IInv, Keeps, NEW d \in Duration, AcquireCovered(d) \/ Acquire(d)
  PROVE  Keeps'
<1> DEFINE f == FinalDuration(d)
<1>1. /\ f \in 0..mMaxDurationMs
      /\ mDurationMs \in 0..mMaxDurationMs
      /\ promised \in 0..mMaxDurationMs
      /\ age \in 0..mMaxDurationMs + 1
      /\ mMaxDurationMs \in Nat
  BY FinalDurationType, DurationAssumption DEF IInv, TypeOK
<1>2. Later(promised, f) \in {promised, f} /\ promised <= Later(promised, f)
                                           /\ f <= Later(promised, f)
  BY <1>1 DEF Later
<1>3. CASE AcquireCovered(d)
  <2>1. /\ promised' = Later(promised, f)
        /\ UNCHANGED <<mState, mDurationMs, age, thread, budget, pollLeft, why, hinted>>
        /\ mState \notin {"UNINITIALIZED", "IDLE"}
        /\ age <= mDurationMs - f
    BY <1>3 DEF AcquireCovered, Covered, timeVars, pollVars
  <2>2. hinted
    BY <2>1 DEF IInv, TypeOK, HintMatchesState
  <2> HIDE DEF f
  <2>3. promised' = 0 \/ promised' + age <= mDurationMs
    BY <2>1, <1>1, <1>2 DEF Keeps
  <2> QED BY <2>1, <2>2, <2>3 DEF Keeps
<1>4. CASE Acquire(d)
  <2>1. /\ promised' = Later(promised, f)
        /\ mDurationMs' = f
        /\ age' = 0
        /\ mState' = "INTERACTION"
        /\ mState # "UNINITIALIZED"
        /\ ~ Covered(d)
    BY <1>4 DEF Acquire
  <2>2. hinted'
    BY <1>4, <2>1 DEF Acquire, IInv, TypeOK, HintMatchesState
  <2>3. mState = "IDLE" \/ mDurationMs < f \/ age > mDurationMs - f
    BY <2>1, <1>1 DEF Covered
  <2>4. mState = "IDLE" => promised = 0
    BY DEF IInv, HintMatchesState, Keeps
  <2> HIDE DEF f
  <2>5. promised <= f
    BY <2>1, <2>3, <2>4, <1>1 DEF Keeps
  <2>6. promised' <= mDurationMs' /\ promised' \in Int /\ mDurationMs' \in Int
    BY <2>1, <2>5, <1>1, <1>2
  <2>7. promised' + age' <= mDurationMs'
    BY <2>1, <2>6
  <2> QED BY <2>1, <2>2, <2>7 DEF Keeps
<1> QED BY <1>3, <1>4

(* A tick takes from the promise what it adds to the age. *)
LEMMA TickKeeps ==
  ASSUME IInv, Keeps, Tick
  PROVE  Keeps'
<1>1. /\ age \in 0..mMaxDurationMs + 1
      /\ mDurationMs \in 0..mMaxDurationMs
      /\ promised \in 0..mMaxDurationMs
      /\ pollLeft \in Nat
      /\ mMaxDurationMs \in Nat
  BY DurationAssumption DEF IInv, TypeOK
<1>2. /\ age' = IF age > mMaxDurationMs THEN age ELSE age + 1
      /\ pollLeft' = Less(pollLeft)
      /\ promised' = Less(promised)
      /\ UNCHANGED <<mState, mDurationMs, thread, budget, why, hinted>>
  BY DEF Tick
<1>3. promised = 0 => promised' = 0
  BY <1>2 DEF Less
<1>4. promised + age <= mDurationMs => promised' = 0 \/ promised' + age' <= mDurationMs
  BY <1>1, <1>2 DEF Less
<1>5. mDurationMs <= pollLeft + age => mDurationMs <= pollLeft' + age'
  BY <1>1, <1>2 DEF Less
<1>6. mDurationMs <= age => mDurationMs <= age'
  BY <1>1, <1>2
<1> QED BY <1>2, <1>3, <1>4, <1>5, <1>6 DEF Keeps

(* So do the owner and the thread: the second poll begins with the duration  *)
(* kept, and times out only when that much time has gone by.                 *)
LEMMA NextKeeps == IInv /\ Keeps /\ [Next]_vars => Keeps'
<1> SUFFICES ASSUME IInv, Keeps, [Next]_vars PROVE Keeps'
  OBVIOUS
<1>1. CASE InitHandler
  <2>1. ~ hinted
    BY <1>1 DEF InitHandler, IInv, Lifecycle
  <2> QED BY <1>1, <2>1 DEF InitHandler, Keeps, timeVars, pollVars, hintVars
<1>2. CASE Exit \/ ExitNotify \/ ExitJoin
  BY <1>2 DEF Exit, ExitNotify, ExitJoin, Keeps, timeVars, pollVars, hintVars
<1>3. CASE TakeTurn
  <2>1. /\ UNCHANGED <<mDurationMs, age, budget, pollLeft, why, hinted, promised>>
        /\ thread' \in {"cond", "exited", "armed"}
        /\ mState' = "UNINITIALIZED" <=> mState = "UNINITIALIZED"
    BY <1>3 DEF TakeTurn, timeVars, pollVars, hintVars
  <2> QED BY <2>1 DEF Keeps
<1>4. CASE CallWaitForIdle
  BY <1>4 DEF CallWaitForIdle, Keeps, timeVars, hintVars
<1>5. CASE PollAborted \/ PollFailed \/ IdleDetected
  BY <1>5 DEF PollAborted, PollFailed, IdleDetected, Return, Keeps, timeVars, hintVars
<1>6. CASE NotIdleYet
  <2>1. /\ thread = "poll1" /\ thread' = "poll2" /\ pollLeft' = budget
        /\ UNCHANGED <<mState, mDurationMs, age, budget, why, hinted, promised>>
    BY <1>6 DEF NotIdleYet, timeVars, hintVars
  <2>2. age \in Nat /\ mDurationMs \in Nat
    BY DurationAssumption DEF IInv, TypeOK
  <2>3. mState = "WAITING" => mDurationMs <= pollLeft' + age
    BY <2>1, <2>2 DEF Keeps
  <2> QED BY <2>1, <2>3 DEF Keeps
<1>7. CASE IdleTimeout
  <2>1. /\ thread = "poll2" /\ thread' = "release" /\ pollLeft = 0
        /\ UNCHANGED <<mState, mDurationMs, age, budget, hinted, promised>>
    BY <1>7 DEF IdleTimeout, Return, timeVars, hintVars
  <2>2. age \in Nat /\ mDurationMs \in Nat
    BY DurationAssumption DEF IInv, TypeOK
  <2>3. mState = "WAITING" => mDurationMs <= age
    BY <2>1, <2>2 DEF Keeps
  <2> QED BY <2>1, <2>3 DEF Keeps
<1>8. CASE Release
  BY <1>8 DEF Release, Keeps, timeVars, pollVars, hintVars
<1>9. CASE UNCHANGED vars
  BY <1>9 DEF vars, Keeps, timeVars, pollVars, hintVars
<1> QED BY <1>1, <1>2, <1>3, <1>4, <1>5, <1>6, <1>7, <1>8, <1>9, AcquireKeeps, TickKeeps
        DEF Next, Routine

(* A hint given up because its time was over had lasted as long as every     *)
(* caller was promised, for all durations and limits: HeldAsPromised of      *)
(* InteractionHandler (the early return of Acquire, the budget that          *)
(* WaitForIdle reads without mLock).                                         *)
THEOREM PromisesAreKept == Spec => HeldAsPromised
<1>1. Init => Keeps
  BY DEF Init, Keeps
<1>2. IInv /\ Keeps /\ [Next]_vars =>
        [hinted /\ ~hinted' /\ why = "timeout" => promised = 0]_vars
  <2> SUFFICES ASSUME IInv, Keeps, [Next]_vars, hinted, ~hinted', why = "timeout"
               PROVE  promised = 0
    OBVIOUS
  <2>1. Release
    <3>1. CASE \E d \in Duration : AcquireCovered(d) \/ Acquire(d)
      BY <3>1 DEF AcquireCovered, Acquire
    <3>2. CASE InitHandler \/ Exit \/ ExitNotify \/ ExitJoin \/ Tick \/ UNCHANGED vars
      BY <3>2 DEF InitHandler, Exit, ExitNotify, ExitJoin, Tick, vars, hintVars
    <3>3. CASE TakeTurn \/ CallWaitForIdle \/ PollAborted \/ NotIdleYet \/ IdleTimeout
                \/ PollFailed \/ IdleDetected
      BY <3>3 DEF TakeTurn, CallWaitForIdle, PollAborted, NotIdleYet, IdleTimeout,
             PollFailed, IdleDetected, Return, hintVars
    <3> QED BY <3>1, <3>2, <3>3 DEF Next, Routine
  <2>2. thread = "release" /\ mState = "WAITING"
    BY <2>1 DEF Release, hintVars
  <2>3. mDurationMs <= age /\ (promised = 0 \/ promised + age <= mDurationMs)
    BY <2>2 DEF Keeps
  <2>4. age \in Nat /\ mDurationMs \in Nat /\ promised \in Nat
    BY DurationAssumption DEF IInv, TypeOK
  <2> QED BY <2>3, <2>4
<1> QED BY <1>1, <1>2, InitIInv, NextIInv, NextKeeps, PTL DEF Spec, HeldAsPromised
=============================================================================
