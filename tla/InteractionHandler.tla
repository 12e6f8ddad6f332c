------------------------- MODULE InteractionHandler -------------------------
(***************************************************************************)
(* power/disp-power/InteractionHandler: holds the INTERACTION hint from a  *)
(* touch (Acquire) until the display is idle or the duration has passed.   *)
(* Callers, the owner (Init, Exit) and the Routine thread share mState     *)
(* under mLock; an event descriptor aborts the poll the thread sleeps in.  *)
(* Durations and times are in ticks and relative to now.                   *)
(***************************************************************************)
EXTENDS Integers

CONSTANTS
  Duration,       \* the durations callers pass to Acquire
  Extra,          \* the 650 ms added to them
  mWaitMs,
  mMinDurationMs,
  mMaxDurationMs

ASSUME DurationAssumption ==
  /\ Duration \subseteq Nat
  /\ Extra \in Nat
  /\ mWaitMs \in Nat
  /\ mMinDurationMs \in Nat
  /\ mMaxDurationMs \in Nat
  /\ mMinDurationMs <= mMaxDurationMs

VARIABLES
  mState,
  mEventFd,     \* the count of the event descriptor
  mDurationMs,
  age,          \* time since mLastTimespec, counted up to mMaxDurationMs + 1
  thread,       \* where Routine is
  notified,     \* the thread sleeping on mCond was notified
  budget,       \* timeout_ms, WaitForIdle's copy of mDurationMs
  pollLeft,     \* time left of the poll the thread sleeps in
  why,          \* why WaitForIdle returned
  hinted,       \* the INTERACTION hint is held: PerfLock without PerfRel
  promised,     \* time left of the longest duration a caller was promised
  owner         \* where the owner is: out, in, or leaving through Exit

hintVars  == <<hinted, promised>>
timeVars  == <<mDurationMs, age>>
pollVars  == <<budget, pollLeft, why>>
vars == <<mState, mEventFd, timeVars, thread, notified, pollVars, hintVars, owner>>

Polling == {"armed", "poll1", "poll2", "release"}

(* No duration exceeds mMaxDurationMs, neither the one kept nor the copy the *)
(* thread waits with nor what a caller was promised.                         *)
TypeOK ==
  /\ mState \in {"UNINITIALIZED", "IDLE", "INTERACTION", "WAITING"}
  /\ mEventFd \in Nat
  /\ mDurationMs \in 0..mMaxDurationMs
  /\ age \in 0..mMaxDurationMs + 1
  /\ thread \in {"none", "top", "cond", "exited"} \union Polling
  /\ notified \in BOOLEAN
  /\ budget \in 0..mMaxDurationMs
  /\ pollLeft \in Nat
  /\ why \in {"none", "abort", "idle", "error", "timeout"}
  /\ hinted \in BOOLEAN
  /\ promised \in 0..mMaxDurationMs
  /\ owner \in {"out", "in", "unlocked", "joining", "gone"}

Init ==
  /\ mState = "UNINITIALIZED"
  /\ mEventFd = 0
  /\ mDurationMs = 0
  /\ age = 0
  /\ thread = "none"
  /\ notified = FALSE
  /\ budget = 0
  /\ pollLeft = 0
  /\ why = "none"
  /\ hinted = FALSE
  /\ promised = 0
  /\ owner = "out"

-----------------------------------------------------------------------------
(* The owner. Init leaves everything alone when a descriptor is missing.   *)

InitHandler == /\ owner = "out"
               /\ thread = "none"
               /\ mState' = "IDLE"
               /\ mEventFd' = 0
               /\ thread' = "top"
               /\ owner' = "in"
               /\ UNCHANGED <<timeVars, notified, pollVars, hintVars>>

(* Exit aborts the wait and sets the state under mLock ... *)
Exit == /\ owner = "in"
        /\ mState' = "UNINITIALIZED"
        /\ mEventFd' = mEventFd + 1
        /\ owner' = "unlocked"
        /\ UNCHANGED <<timeVars, thread, notified, pollVars, hintVars>>

(* Faulty variants of definitions, such as ExitNotifyNone, show that the     *)
(* properties notice a slip in the code; the model does not use them.        *)
ExitNotifyNone == /\ owner = "unlocked"
                  /\ owner' = "joining"
                  /\ UNCHANGED <<mState, mEventFd, timeVars, thread, notified, pollVars, hintVars>>

(* ... notifies after it has released it ... *)
ExitNotify == /\ owner = "unlocked"
              /\ notified' = (thread = "cond")
              /\ owner' = "joining"
              /\ UNCHANGED <<mState, mEventFd, timeVars, thread, pollVars, hintVars>>

(* ... and joins the thread. The hint, if held, stays with the manager.    *)
ExitJoin == /\ owner = "joining"
            /\ thread = "exited"
            /\ owner' = "gone"
            /\ UNCHANGED <<mState, mEventFd, timeVars, thread, notified, pollVars, hintVars>>

-----------------------------------------------------------------------------
(* Callers of Acquire, each under mLock. *)

FinalDuration(d) == IF d + Extra > mMaxDurationMs THEN mMaxDurationMs
                    ELSE IF d + Extra > mMinDurationMs THEN d + Extra
                    ELSE mMinDurationMs

Later(t, u) == IF t < u THEN u ELSE t

CoveredForEver(d) == mState # "IDLE" /\ FinalDuration(d) <= mDurationMs

(* The previous duration still covers this one. *)
Covered(d) == /\ mState # "IDLE"
              /\ FinalDuration(d) <= mDurationMs
              /\ age <= mDurationMs - FinalDuration(d)

AcquireCovered(d) == /\ mState # "UNINITIALIZED"
                     /\ Covered(d)
                     /\ promised' = Later(promised, FinalDuration(d))
                     /\ UNCHANGED <<mState, mEventFd, timeVars, thread, notified,
                                    pollVars, hinted, owner>>

AcquireUnnotified(d) ==
  /\ mState # "UNINITIALIZED"
  /\ ~Covered(d)
  /\ age' = 0
  /\ mDurationMs' = FinalDuration(d)
  /\ promised' = Later(promised, FinalDuration(d))
  /\ mEventFd' = IF mState = "WAITING" THEN mEventFd + 1 ELSE mEventFd
  /\ hinted' = IF mState = "IDLE" THEN TRUE ELSE hinted
  /\ mState' = "INTERACTION"
  /\ UNCHANGED <<thread, notified, pollVars, owner>>

Acquire(d) == /\ mState # "UNINITIALIZED"
              /\ ~Covered(d)
              /\ age' = 0
              /\ mDurationMs' = FinalDuration(d)
              /\ promised' = Later(promised, FinalDuration(d))
              /\ mEventFd' = IF mState = "WAITING" THEN mEventFd + 1 ELSE mEventFd
              /\ hinted' = IF mState = "IDLE" THEN TRUE ELSE hinted
              /\ mState' = "INTERACTION"
              /\ notified' = IF thread = "cond" THEN TRUE ELSE notified
              /\ UNCHANGED <<thread, pollVars, owner>>

-----------------------------------------------------------------------------
(* The Routine thread. *)

(* mCond.wait with its predicate: sleep while IDLE, else take the next step. *)
TakeTurn == /\ thread = "top" \/ (thread = "cond" /\ notified)
            /\ notified' = FALSE
            /\ CASE mState = "IDLE"          -> thread' = "cond" /\ mState' = mState
                 [] mState = "UNINITIALIZED" -> thread' = "exited" /\ mState' = mState
                 [] OTHER                    -> thread' = "armed" /\ mState' = "WAITING"
            /\ UNCHANGED <<mEventFd, timeVars, pollVars, hintVars, owner>>

(* WaitForIdle(mWaitMs, mDurationMs): mDurationMs is read without mLock.   *)
CallWaitForIdle == /\ thread = "armed"
                   /\ budget' = mDurationMs
                   /\ pollLeft' = mWaitMs
                   /\ thread' = "poll1"
                   /\ UNCHANGED <<mState, mEventFd, timeVars, notified, why, hintVars, owner>>

Return(reason) == /\ why' = reason
                  /\ thread' = "release"
                  /\ UNCHANGED <<mState, mEventFd, timeVars, notified, budget, pollLeft,
                                 hintVars, owner>>

PollAborted == /\ thread \in {"poll1", "poll2"}
               /\ mEventFd > 0
               /\ Return("abort")

(* poll or pread fails. *)
PollFailed == /\ thread \in {"poll1", "poll2"}
              /\ Return("error")

(* The display reports idle after the first wait, or during the second.    *)
IdleDetected == /\ \/ thread = "poll1" /\ pollLeft = 0 /\ mEventFd = 0
                   \/ thread = "poll2" /\ mEventFd = 0
                /\ Return("idle")

NotIdleYet == /\ thread = "poll1"
              /\ pollLeft = 0
              /\ mEventFd = 0
              /\ thread' = "poll2"
              /\ pollLeft' = budget
              /\ UNCHANGED <<mState, mEventFd, timeVars, notified, budget, why, hintVars, owner>>

IdleTimeout == /\ thread = "poll2"
               /\ pollLeft = 0
               /\ mEventFd = 0
               /\ Return("timeout")

ReleaseUnchecked == /\ thread = "release"
                    /\ thread' = "top"
                    /\ hinted' = FALSE
                    /\ promised' = 0
                    /\ mEventFd' = 0
                    /\ mState' = IF mState = "WAITING" THEN "IDLE" ELSE mState
                    /\ UNCHANGED <<timeVars, notified, pollVars, owner>>

ReleaseUncleared == /\ thread = "release"
                    /\ thread' = "top"
                    /\ IF mState = "WAITING"
                       THEN mState' = "IDLE" /\ hinted' = FALSE /\ promised' = 0
                       ELSE UNCHANGED <<mState, hintVars>>
                    /\ UNCHANGED <<mEventFd, timeVars, notified, pollVars, owner>>

(* Release under mLock: the wait ran its course, or it was overtaken by an *)
(* Acquire or Exit, whose abort is cleared from the event descriptor.      *)
Release == /\ thread = "release"
           /\ thread' = "top"
           /\ IF mState = "WAITING"
              THEN /\ mState' = "IDLE"
                   /\ hinted' = FALSE
                   /\ promised' = 0
                   /\ UNCHANGED mEventFd
              ELSE /\ mEventFd' = 0
                   /\ UNCHANGED <<mState, hintVars>>
           /\ UNCHANGED <<timeVars, notified, pollVars, owner>>

Routine == \/ TakeTurn \/ CallWaitForIdle \/ PollAborted
           \/ NotIdleYet \/ IdleTimeout \/ Release

-----------------------------------------------------------------------------
Less(t) == IF t = 0 THEN 0 ELSE t - 1

Tick == /\ age' = IF age > mMaxDurationMs THEN age ELSE age + 1
        /\ pollLeft' = Less(pollLeft)
        /\ promised' = Less(promised)
        /\ UNCHANGED <<mState, mEventFd, mDurationMs, thread, notified, budget, why,
                       hinted, owner>>

Next == \/ InitHandler \/ Exit \/ ExitNotify \/ ExitJoin
        \/ \E d \in Duration : AcquireCovered(d) \/ Acquire(d)
        \/ Routine
        \/ PollFailed
        \/ IdleDetected
        \/ Tick

(* The thread runs, time passes, Exit goes on. Nobody has to touch, the    *)
(* display need not become idle, and poll need not fail.                   *)
Fairness == /\ WF_vars(Routine)
            /\ WF_vars(Tick)
            /\ WF_vars(ExitNotify) /\ WF_vars(ExitJoin)

Spec == Init /\ [][Next]_vars /\ Fairness

-----------------------------------------------------------------------------
(* Properties. *)

(* The hint is held exactly while the handler is in an interaction or waits *)
(* for its end; Exit alone may leave it behind. (PerfLock in Acquire and    *)
(* PerfRel in Release are guarded by different states.)                     *)
HintMatchesState ==
  mState # "UNINITIALIZED" => (hinted <=> mState \in {"INTERACTION", "WAITING"})

(* An abort wakes the wait it was meant for and no other: while the thread  *)
(* is in WaitForIdle the event descriptor is set exactly when the wait has  *)
(* been overtaken, and it is clear whenever a new wait may begin.           *)
AbortMatchesWait ==
  /\ thread \in Polling => (mEventFd > 0 <=> mState # "WAITING")
  /\ thread \notin Polling /\ mState # "UNINITIALIZED" => mEventFd = 0

(* Nobody leaves the thread asleep: a thread in the condition wait that has *)
(* something to do, an interaction to time or a handler to leave, has been  *)
(* notified. Exit alone may still owe its notification, since it gives it   *)
(* after it has released mLock. (mCond.wait in Routine, the notify_one of   *)
(* Acquire and Exit.)                                                       *)
SleeperIsWoken ==
  thread = "cond" /\ mState # "IDLE" /\ owner # "unlocked" => notified

(* A hint given up because its time was over had lasted as long as every    *)
(* caller of Acquire was promised, those included whom the early return     *)
(* for covered durations sent away.                                         *)
HeldAsPromised ==
  [][hinted /\ ~hinted' /\ why = "timeout" => promised = 0]_vars

(* The hint does not stay for ever: it is given up unless touches keep      *)
(* renewing it or the handler is shut down.                                 *)
ReleasedUnlessTouched ==
  \/ []<>(~hinted \/ mState = "UNINITIALIZED")
  \/ []<><<\E d \in Duration : Acquire(d)>>_vars

(* Exit gets the thread out of any wait and returns.                        *)
ExitReturns == (owner = "unlocked") ~> (owner = "gone")
=============================================================================
