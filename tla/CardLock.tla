------------------------------ MODULE CardLock ------------------------------
(***************************************************************************)
(* The reentrant lock of a readout card: CruBoard._lock_comm and           *)
(* _unlock_comm (FlxCard has the same two methods, line for line), and the *)
(* callers that hold it around their register accesses.                    *)
(*                                                                         *)
(* The lock has two layers.  An LLA session (library libO2Lla, external)   *)
(* is owned by at most one process; inside a process the card object       *)
(* counts nested calls in _lla_lock_count and remembers in _lla_is_locked  *)
(* whether it believes it owns the session.  The card object is shared by  *)
(* all the threads of its process, and nothing protects the two fields.    *)
(*                                                                         *)
(* A step is one access to the shared fields or one call of the session;   *)
(* the tests and the increment of one branch are one step.                 *)
(***************************************************************************)
EXTENDS Integers

CONSTANTS
  Procs,        \* processes that opened the card, one LLA session each
  Threads,      \* threads that use a card object
  ProcOf,       \* ProcOf[t]: the process thread t belongs to
  NoProc,       \* "no process owns the session"
  MaxAttempts,  \* start() may fail this often before the caller gives up (510)
  MaxDepth,     \* bound: how deep the callers nest _lock_comm
  MaxCount,     \* bound: how far leaked locks count up
  MaxUpsets     \* bound: locks lost or forced open, and alarms of @timeout

ASSUME CardLockAssumption ==
  /\ ProcOf \in [Threads -> Procs]
  /\ NoProc \notin Procs
  /\ MaxAttempts \in Nat /\ MaxDepth \in Nat /\ MaxCount \in Nat
  /\ MaxUpsets \in Nat

VARIABLES
  session,              \* owner of the LLA session, or NoProc
  lla_is_locked,        \* per process
  lla_lock_count,       \* per process
  lock_attempt_counter, \* per thread, local to _lock_comm
  pc,                   \* per thread, where it is in _lock_comm/_unlock_comm
  depth,                \* per thread, _lock_comm calls not yet matched
  unwinding,            \* per thread, an exception runs its finally blocks
  upsets                \* history: how often the lock was lost, forced or cut short

vars == <<session, lla_is_locked, lla_lock_count, lock_attempt_counter,
          pc, depth, unwinding, upsets>>

cardVars == <<lla_is_locked, lla_lock_count>>

Location == {"run", "loop", "start", "got", "stopping", "break"}

TypeOK ==
  /\ session \in Procs \cup {NoProc}
  /\ lla_is_locked \in [Procs -> BOOLEAN]
  /\ lla_lock_count \in [Procs -> Nat]
  /\ lock_attempt_counter \in [Threads -> 0..MaxAttempts + 1]
  /\ pc \in [Threads -> Location]
  /\ depth \in [Threads -> 0..MaxDepth]
  /\ unwinding \in [Threads -> BOOLEAN]
  /\ upsets \in 0..MaxUpsets

Init ==
  /\ session = NoProc
  /\ lla_is_locked = [p \in Procs |-> FALSE]
  /\ lla_lock_count = [p \in Procs |-> 0]
  /\ lock_attempt_counter = [t \in Threads |-> 0]
  /\ pc = [t \in Threads |-> "run"]
  /\ depth = [t \in Threads |-> 0]
  /\ unwinding = [t \in Threads |-> FALSE]
  /\ upsets = 0

-----------------------------------------------------------------------------
\* The LLA session (external): start() succeeds unless another process owns
\* it, stop() releases it if the caller owns it.

StartSucceeds(p) == session \in {NoProc, p}

AfterStop(p) == IF session = p THEN NoProc ELSE session

Goto(t, l) == pc' = [pc EXCEPT ![t] = l]

\* A call of _lock_comm returns to its caller, which is one level deeper.
Enter(t) == /\ Goto(t, "run")
            /\ depth' = [depth EXCEPT ![t] = @ + 1]

-----------------------------------------------------------------------------
\* _lock_comm

\* The card object believes it is locked: count one more level.
LockNested(t) ==
  /\ pc[t] = "run" /\ ~unwinding[t] /\ depth[t] < MaxDepth
  /\ lla_is_locked[ProcOf[t]] /\ lla_lock_count[ProcOf[t]] < MaxCount
  /\ lla_lock_count' = [lla_lock_count EXCEPT ![ProcOf[t]] = @ + 1]
  /\ Enter(t)
  /\ UNCHANGED <<session, lla_is_locked, lock_attempt_counter, unwinding>>

\* It does not: start trying.
LockBegin(t) ==
  /\ pc[t] = "run" /\ ~unwinding[t] /\ depth[t] < MaxDepth
  /\ ~lla_is_locked[ProcOf[t]]
  /\ lock_attempt_counter' = [lock_attempt_counter EXCEPT ![t] = 0]
  /\ Goto(t, "loop")
  /\ UNCHANGED <<session, cardVars, depth, unwinding>>

\* The test of the while loop.  Another thread of the process may have set
\* the field meanwhile; the call then returns without counting itself.
LockLoop(t) ==
  /\ pc[t] = "loop"
  /\ IF lla_is_locked[ProcOf[t]]
       THEN /\ Enter(t)
            /\ UNCHANGED lock_attempt_counter
       ELSE /\ Goto(t, "start")
            /\ lock_attempt_counter' = [lock_attempt_counter EXCEPT ![t] = @ + 1]
            /\ UNCHANGED depth
  /\ UNCHANGED <<session, cardVars, unwinding>>

\* session.start() succeeds.
LockStart(t) ==
  /\ pc[t] = "start"
  /\ StartSucceeds(ProcOf[t])
  /\ session' = ProcOf[t]
  /\ Goto(t, "got")
  /\ UNCHANGED <<cardVars, lock_attempt_counter, depth, unwinding>>

\* Mutant of LockRefused: the counter starts afresh in every turn of the loop.
LockRefusedForgets(t) ==
  /\ pc[t] = "start"
  /\ ~StartSucceeds(ProcOf[t])
  /\ lock_attempt_counter' = [lock_attempt_counter EXCEPT ![t] = 0]
  /\ Goto(t, "loop")
  /\ UNCHANGED <<session, cardVars, depth, unwinding>>

\* session.start() fails: try again, or give up with an exception that the
\* caller's own try blocks see (its _lock_comm stands before its try).
LockRefused(t) ==
  /\ pc[t] = "start"
  /\ ~StartSucceeds(ProcOf[t])
  /\ IF lock_attempt_counter[t] > MaxAttempts
       THEN /\ Goto(t, "run")
            /\ unwinding' = [unwinding EXCEPT ![t] = depth[t] > 0]
       ELSE /\ Goto(t, "loop")
            /\ UNCHANGED unwinding
  /\ UNCHANGED <<session, cardVars, lock_attempt_counter, depth>>

\* The session is ours: note it and count the first level.
LockGranted(t) ==
  /\ pc[t] = "got"
  /\ lla_is_locked' = [lla_is_locked EXCEPT ![ProcOf[t]] = TRUE]
  /\ lla_lock_count' = [lla_lock_count EXCEPT ![ProcOf[t]] = @ + 1]
  /\ Enter(t)
  /\ UNCHANGED <<session, lock_attempt_counter, unwinding>>

-----------------------------------------------------------------------------
\* _unlock_comm, called by a thread that returned from _lock_comm before; the
\* caller has left its critical section, so its depth drops at the call.

Leave(t) == /\ depth[t] > 0
            /\ depth' = [depth EXCEPT ![t] = @ - 1]

\* The exception has run through the last finally block.
Unwound(t) == unwinding' = [unwinding EXCEPT ![t] = @ /\ depth[t] > 1]

UnlockNested(t) ==
  /\ pc[t] = "run"
  /\ lla_is_locked[ProcOf[t]] /\ lla_lock_count[ProcOf[t]] > 1
  /\ lla_lock_count' = [lla_lock_count EXCEPT ![ProcOf[t]] = @ - 1]
  /\ Leave(t) /\ Unwound(t)
  /\ UNCHANGED <<session, lla_is_locked, lock_attempt_counter, pc>>

\* Mutant of UnlockLast: an outer caller still counts on the lock (<= 2).
UnlockLastEarly(t) ==
  /\ pc[t] = "run"
  /\ lla_is_locked[ProcOf[t]] /\ lla_lock_count[ProcOf[t]] <= 2
  /\ lla_lock_count' = [lla_lock_count EXCEPT ![ProcOf[t]] = 0]
  /\ Goto(t, "stopping")
  /\ Leave(t) /\ Unwound(t)
  /\ UNCHANGED <<session, lla_is_locked, lock_attempt_counter>>

UnlockLast(t) ==
  /\ pc[t] = "run"
  /\ lla_is_locked[ProcOf[t]] /\ lla_lock_count[ProcOf[t]] <= 1
  /\ lla_lock_count' = [lla_lock_count EXCEPT ![ProcOf[t]] = 0]
  /\ Goto(t, "stopping")
  /\ Leave(t) /\ Unwound(t)
  /\ UNCHANGED <<session, lla_is_locked, lock_attempt_counter>>

\* "You are trying to unlock comm, but it's not locked!"
UnlockNotLocked(t) ==
  /\ pc[t] = "run"
  /\ ~lla_is_locked[ProcOf[t]]
  /\ Leave(t) /\ Unwound(t)
  /\ UNCHANGED <<session, cardVars, lock_attempt_counter, pc>>

\* session.stop(), then up to 500 ms of sleep "to let DCS do it's job" ...
UnlockStop(t) ==
  /\ pc[t] = "stopping"
  /\ session' = AfterStop(ProcOf[t])
  /\ Goto(t, "break")
  /\ UNCHANGED <<cardVars, lock_attempt_counter, depth, unwinding>>

\* ... and only then _lla_is_locked = False.
UnlockDone(t) ==
  /\ pc[t] = "break"
  /\ lla_is_locked' = [lla_is_locked EXCEPT ![ProcOf[t]] = FALSE]
  /\ Goto(t, "run")
  /\ UNCHANGED <<session, lla_lock_count, lock_attempt_counter, depth, unwinding>>

-----------------------------------------------------------------------------
\* CruSwtCommunication._do_write_dp0: the process exits (SystemExit runs the
\* finally blocks) when the card object does not believe it is locked.
WriteDp0(t) ==
  /\ pc[t] = "run" /\ depth[t] > 0 /\ ~unwinding[t]
  /\ unwinding' = [unwinding EXCEPT ![t] = ~lla_is_locked[ProcOf[t]]]
  /\ UNCHANGED <<session, cardVars, lock_attempt_counter, pc, depth>>

\* Software that called _lock_comm outside a try block fails before it
\* reaches its _unlock_comm: the lock stays.
LoseLock(t) ==
  /\ pc[t] = "run" /\ depth[t] > 0
  /\ depth' = [depth EXCEPT ![t] = 0]
  /\ unwinding' = [unwinding EXCEPT ![t] = FALSE]
  /\ UNCHANGED <<session, cardVars, lock_attempt_counter, pc>>

\* Testbench.force_unlock_lla, at the prompt: _unlock_comm(force=True).
ForceUnlock(t) ==
  /\ pc[t] = "run" /\ depth[t] = 0
  /\ session' = AfterStop(ProcOf[t])
  /\ lla_lock_count' = [lla_lock_count EXCEPT ![ProcOf[t]] = 0]
  /\ UNCHANGED <<lla_is_locked, lock_attempt_counter, pc, depth, unwinding>>

\* The alarm of @timeout(5) raises wherever the thread happens to be inside
\* initialize(); the call it interrupts is abandoned.
Alarm(t) ==
  /\ pc[t] # "run" \/ depth[t] > 0
  /\ Goto(t, "run")
  /\ unwinding' = [unwinding EXCEPT ![t] = depth[t] > 0]
  /\ UNCHANGED <<session, cardVars, lock_attempt_counter, depth>>

-----------------------------------------------------------------------------
\* Steps inside _lock_comm and _unlock_comm: the thread takes them by itself.
InCall(t) ==
  /\ UNCHANGED upsets
  /\ \/ LockLoop(t)
     \/ LockStart(t)
     \/ LockRefused(t)
     \/ LockGranted(t)
     \/ UnlockStop(t)
     \/ UnlockDone(t)

\* Steps in the callers' code.
Unlock(t) ==
  /\ UNCHANGED upsets
  /\ UnlockNested(t) \/ UnlockLast(t) \/ UnlockNotLocked(t)

Caller(t) ==
  \/ Unlock(t)
  \/ /\ UNCHANGED upsets
     /\ LockNested(t) \/ LockBegin(t) \/ WriteDp0(t)

\* What the two methods are not meant to meet.
Upset(t) ==
  /\ upsets < MaxUpsets
  /\ upsets' = upsets + 1
  /\ LoseLock(t) \/ ForceUnlock(t) \/ Alarm(t)

Next == \E t \in Threads : InCall(t) \/ Caller(t) \/ Upset(t)

Spec == Init /\ [][Next]_vars

\* A thread inside one of the two methods keeps running.  The code between a
\* _lock_comm and its _unlock_comm is finite at every level of nesting.
Fairness ==
  \A t \in Threads :
    /\ WF_vars(InCall(t))
    /\ \A d \in 1..MaxDepth : SF_vars(depth[t] = d /\ Unlock(t))

FairSpec == Spec /\ Fairness

-----------------------------------------------------------------------------
Calm == upsets = 0

Inside(t) == depth[t] > 0

\* Processes with a thread between _lock_comm and _unlock_comm.
Users == {ProcOf[t] : t \in {u \in Threads : Inside(u)}}

\* The lock's purpose: "Combination of flush and read result encapsulated
\* with LLA lock".  Two processes are never both between their _lock_comm
\* and their _unlock_comm, until a lock is lost, forced open or cut short.
CardExclusion == Calm => \A p, q \in Users : p = q

\* The nesting count is the number of calls that wait for their _unlock_comm,
\* so the lock is neither given back early nor kept after the last one.
CountMatchesNesting ==
  Calm =>
    \A t \in Threads :
      pc[t] = "run" =>
        /\ lla_lock_count[ProcOf[t]] = depth[t]
        /\ (session = ProcOf[t]) <=> Inside(t)

\* _do_write_dp0 never finds "not locked!" between _lock_comm and
\* _unlock_comm.
InsideSeesLock ==
  Calm =>
    \A t \in Threads :
      pc[t] = "run" /\ Inside(t) => lla_is_locked[ProcOf[t]]

\* Whatever the other processes do, and whatever upsets the lock, _lock_comm
\* and _unlock_comm return: with the lock, or with an exception after the last
\* attempt.
CallReturns == \A t \in Threads : pc[t] # "run" ~> pc[t] = "run"

-----------------------------------------------------------------------------
Mutex == INSTANCE CardMutex WITH users <- IF Calm THEN Users ELSE {}

\* Every step of the lock is a step of the mutex or leaves its users alone, up
\* to the first upset.
ImplementsMutex == Mutex!Spec
=============================================================================
