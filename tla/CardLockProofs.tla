--------------------------- MODULE CardLockProofs ---------------------------
(***************************************************************************)
(* The card lock is correct for any number of processes, any number of     *)
(* attempts and any nesting, if every process uses its card object from    *)
(* one thread, until a lock is lost, forced open or cut short by an alarm. *)
(***************************************************************************)
EXTENDS CardLock, TLAPS

\* The type invariant needs to know that a thread that is about to enter has
\* room for one more level, and that the loop is left after the last attempt.
TypeInv ==
  /\ TypeOK
  /\ \A t \in Threads :
       /\ pc[t] \in {"loop", "start", "got"} => depth[t] < MaxDepth
       /\ pc[t] = "loop" => lock_attempt_counter[t] <= MaxAttempts

LEMMA TypeInvInit == Init => TypeInv
BY CardLockAssumption DEF Init, TypeInv, TypeOK, Location

LEMMA TypeInvStep == TypeInv /\ [Next]_vars => TypeInv'
<1> SUFFICES ASSUME TypeInv, [Next]_vars
             PROVE  TypeInv'
  OBVIOUS
<1> USE CardLockAssumption
<1>1. CASE UNCHANGED vars
  BY <1>1 DEF TypeInv, TypeOK, vars
<1>2. ASSUME NEW t \in Threads, InCall(t)
      PROVE  TypeInv'
  <2>0. UNCHANGED upsets
    BY <1>2 DEF InCall
  <2> USE <2>0
  <2>1. CASE LockLoop(t)
    BY <2>1 DEF TypeInv, TypeOK, Location, LockLoop, Enter, Goto, cardVars
  <2>2. CASE LockStart(t)
    BY <2>2 DEF TypeInv, TypeOK, Location, LockStart, Goto, cardVars
  <2>3. CASE LockRefused(t)
    <3>1. CASE lock_attempt_counter[t] > MaxAttempts
      <4>1. /\ pc' = [pc EXCEPT ![t] = "run"]
            /\ unwinding' = [unwinding EXCEPT ![t] = depth[t] > 0]
            /\ UNCHANGED <<session, cardVars, lock_attempt_counter, depth>>
        BY <2>3, <3>1 DEF LockRefused, Goto
      <4> QED
        BY <4>1 DEF TypeInv, TypeOK, Location, cardVars
    <3>2. CASE ~(lock_attempt_counter[t] > MaxAttempts)
      BY <2>3, <3>2 DEF TypeInv, TypeOK, Location, LockRefused, Goto, cardVars
    <3> QED
      BY <3>1, <3>2
  <2>4. CASE LockGranted(t)
    BY <2>4 DEF TypeInv, TypeOK, Location, LockGranted, Enter, Goto
  <2>5. CASE UnlockStop(t)
    BY <2>5 DEF TypeInv, TypeOK, Location, UnlockStop, AfterStop, Goto, cardVars
  <2>6. CASE UnlockDone(t)
    BY <2>6 DEF TypeInv, TypeOK, Location, UnlockDone, Goto
  <2> QED
    BY <1>2, <2>1, <2>2, <2>3, <2>4, <2>5, <2>6 DEF InCall
<1>3. ASSUME NEW t \in Threads, Caller(t)
      PROVE  TypeInv'
  <2>0. UNCHANGED upsets
    BY <1>3 DEF Caller, Unlock
  <2> USE <2>0
  <2>1. CASE LockNested(t)
    BY <2>1 DEF TypeInv, TypeOK, Location, LockNested, Enter, Goto
  <2>2. CASE LockBegin(t)
    BY <2>2 DEF TypeInv, TypeOK, Location, LockBegin, Goto, cardVars
  <2>3. CASE UnlockNested(t)
    BY <2>3 DEF TypeInv, TypeOK, UnlockNested, Leave, Unwound
  <2>4. CASE UnlockLast(t)
    BY <2>4 DEF TypeInv, TypeOK, Location, UnlockLast, Leave, Unwound, Goto
  <2>5. CASE UnlockNotLocked(t)
    BY <2>5 DEF TypeInv, TypeOK, UnlockNotLocked, Leave, Unwound, cardVars
  <2>6. CASE WriteDp0(t)
    BY <2>6 DEF TypeInv, TypeOK, WriteDp0, cardVars
  <2> QED
    BY <1>3, <2>1, <2>2, <2>3, <2>4, <2>5, <2>6 DEF Caller, Unlock
<1>4. ASSUME NEW t \in Threads, Upset(t)
      PROVE  TypeInv'
  <2>0. upsets' \in 0..MaxUpsets
    BY <1>4 DEF Upset, TypeInv, TypeOK
  <2> USE <2>0
  <2>1. CASE LoseLock(t)
    BY <2>1 DEF TypeInv, TypeOK, LoseLock, cardVars
  <2>2. CASE ForceUnlock(t)
    BY <2>2 DEF TypeInv, TypeOK, ForceUnlock, AfterStop
  <2>3. CASE Alarm(t)
    BY <2>3 DEF TypeInv, TypeOK, Location, Alarm, Goto, cardVars
  <2> QED
    BY <1>4, <2>1, <2>2, <2>3 DEF Upset
<1> QED
  BY <1>1, <1>2, <1>3, <1>4 DEF Next

\* The fields keep their types whatever the threads share and whichever
\* exceptions interrupt the calls: the retry loop of _lock_comm stays within
\* its attempts.
THEOREM TypeCorrect == Spec => []TypeOK
<1>1. TypeInv => TypeOK
  BY DEF TypeInv
<1> QED
  BY TypeInvInit, TypeInvStep, <1>1, PTL DEF Spec

-----------------------------------------------------------------------------
\* How the card is used by the programs that do not share their card object
\* between threads.
SingleThreaded == \A t, u \in Threads : ProcOf[t] = ProcOf[u] => t = u

\* What the fields of a thread's process are at each point of the two methods.
ThreadInv(t) ==
  /\ ~unwinding[t]
  /\ pc[t] = "run" =>
       /\ lla_lock_count[ProcOf[t]] = depth[t]
       /\ lla_is_locked[ProcOf[t]] <=> depth[t] > 0
       /\ (session = ProcOf[t]) <=> depth[t] > 0
  /\ pc[t] # "run" =>
       /\ lla_lock_count[ProcOf[t]] = 0
       /\ depth[t] = 0
       /\ lla_is_locked[ProcOf[t]] <=> pc[t] \in {"stopping", "break"}
       /\ (session = ProcOf[t]) <=> pc[t] \in {"got", "stopping"}

LockInv ==
  /\ TypeInv
  /\ Calm => \A t \in Threads : ThreadInv(t)

LEMMA LockInvInit == Init => LockInv
<1> SUFFICES ASSUME Init
             PROVE  LockInv
  OBVIOUS
<1>1. TypeInv
  BY TypeInvInit
<1>2. \A t \in Threads : ThreadInv(t)
  BY CardLockAssumption DEF Init, ThreadInv
<1> QED
  BY <1>1, <1>2 DEF LockInv

\* A step of thread t leaves the facts about another thread u alone: the two
\* processes share the session only.
LEMMA OthersUntouched ==
  ASSUME SingleThreaded, LockInv, Calm,
         NEW t \in Threads, NEW u \in Threads, t # u,
         InCall(t) \/ Caller(t)
  PROVE  ThreadInv(u)'
<1> DEFINE p == ProcOf[t]
           q == ProcOf[u]
<1>1. p # q /\ p \in Procs /\ q \in Procs
  BY CardLockAssumption DEF SingleThreaded
<1>2. ThreadInv(u) /\ ThreadInv(t) /\ TypeOK
  BY DEF LockInv, TypeInv
<1>3. /\ pc'[u] = pc[u]
      /\ depth'[u] = depth[u]
      /\ unwinding'[u] = unwinding[u]
      /\ lla_is_locked'[q] = lla_is_locked[q]
      /\ lla_lock_count'[q] = lla_lock_count[q]
  BY <1>1, <1>2 DEF TypeOK, InCall, Caller, Unlock, LockLoop, LockStart,
     LockRefused, LockGranted, UnlockStop, UnlockDone, LockNested, LockBegin,
     UnlockNested, UnlockLast, UnlockNotLocked, WriteDp0,
     Enter, Leave, Unwound, Goto, cardVars
<1>4. (session' = q) <=> (session = q)
  BY <1>1, <1>2, CardLockAssumption DEF TypeOK, InCall, Caller, Unlock,
     LockLoop, LockStart,
     LockRefused, LockGranted, UnlockStop, UnlockDone, LockNested, LockBegin,
     UnlockNested, UnlockLast, UnlockNotLocked, WriteDp0,
     StartSucceeds, AfterStop, cardVars
<1> QED
  BY <1>2, <1>3, <1>4 DEF ThreadInv

\* A step of thread t keeps the facts about t.
LEMMA ActorKept ==
  ASSUME SingleThreaded, LockInv, Calm, NEW t \in Threads,
         InCall(t) \/ Caller(t)
  PROVE  ThreadInv(t)'
<1> DEFINE p == ProcOf[t]
<1>1. p \in Procs /\ p # NoProc
  BY CardLockAssumption
<1>2. ThreadInv(t) /\ TypeOK
  BY DEF LockInv, TypeInv
<1>3. depth[t] \in Nat /\ lla_lock_count[p] \in Nat /\ lla_is_locked[p] \in BOOLEAN
  BY <1>1, <1>2, CardLockAssumption DEF TypeOK
<1> USE <1>1, <1>2, <1>3 DEF TypeOK, ThreadInv
<1>4. CASE InCall(t)
  <2>1. CASE LockLoop(t)
    BY <2>1 DEF LockLoop, Enter, Goto, cardVars
  <2>2. CASE LockStart(t)
    BY <2>2 DEF LockStart, Goto, cardVars
  <2>3. CASE LockRefused(t)
    <3>1. /\ session # p /\ depth[t] = 0 /\ ~lla_is_locked[p] /\ lla_lock_count[p] = 0
          /\ UNCHANGED <<session, cardVars, depth>>
          /\ pc'[t] \in {"run", "loop"}
      BY <2>3 DEF LockRefused, StartSucceeds, Goto
    <3>2. ~unwinding'[t]
      BY <2>3, <3>1 DEF LockRefused
    <3> QED
      BY <3>1, <3>2 DEF cardVars
  <2>4. CASE LockGranted(t)
    BY <2>4 DEF LockGranted, Enter, Goto
  <2>5. CASE UnlockStop(t)
    BY <2>5 DEF UnlockStop, AfterStop, Goto, cardVars
  <2>6. CASE UnlockDone(t)
    BY <2>6 DEF UnlockDone, Goto
  <2> QED
    BY <1>4, <2>1, <2>2, <2>3, <2>4, <2>5, <2>6 DEF InCall
<1>5. CASE Caller(t)
  <2>1. CASE LockNested(t)
    BY <2>1 DEF LockNested, Enter, Goto
  <2>2. CASE LockBegin(t)
    BY <2>2 DEF LockBegin, Goto, cardVars
  <2>3. CASE UnlockNested(t)
    BY <2>3 DEF UnlockNested, Leave, Unwound
  <2>4. CASE UnlockLast(t)
    BY <2>4 DEF UnlockLast, Leave, Unwound, Goto
  <2>5. CASE UnlockNotLocked(t)
    BY <2>5 DEF UnlockNotLocked, Leave
  <2>6. CASE WriteDp0(t)
    BY <2>6 DEF WriteDp0, cardVars
  <2> QED
    BY <1>5, <2>1, <2>2, <2>3, <2>4, <2>5, <2>6 DEF Caller, Unlock
<1> QED
  BY <1>4, <1>5

\* Nothing is claimed after an upset.
LEMMA UpsetIsNotCalm ==
  ASSUME TypeInv, NEW t \in Threads, Upset(t)
  PROVE  ~Calm'
<1>1. upsets \in 0..MaxUpsets
  BY DEF TypeInv, TypeOK
<1> QED
  BY <1>1, CardLockAssumption DEF Upset, Calm

LEMMA LockInvStep ==
  ASSUME SingleThreaded
  PROVE  LockInv /\ [Next]_vars => LockInv'
<1> SUFFICES ASSUME LockInv, [Next]_vars
             PROVE  LockInv'
  OBVIOUS
<1>1. TypeInv'
  BY TypeInvStep DEF LockInv
<1>2. CASE UNCHANGED vars
  BY <1>1, <1>2 DEF LockInv, ThreadInv, Calm, vars
<1>3. ASSUME NEW t \in Threads, InCall(t) \/ Caller(t)
      PROVE  LockInv'
  <2>1. ASSUME Calm
        PROVE  \A u \in Threads : ThreadInv(u)'
    BY <1>3, <2>1, OthersUntouched, ActorKept
  <2>2. Calm' => Calm
    BY <1>3 DEF InCall, Caller, Unlock, Calm
  <2> QED
    BY <1>1, <2>1, <2>2 DEF LockInv
<1>4. ASSUME NEW t \in Threads, Upset(t)
      PROVE  LockInv'
  BY <1>1, <1>4, UpsetIsNotCalm DEF LockInv
<1> QED
  BY <1>2, <1>3, <1>4 DEF Next

LEMMA LockInvCorrect == ASSUME SingleThreaded PROVE Spec => []LockInv
<1>1. LockInv /\ [Next]_vars => LockInv'
  BY LockInvStep
<1> QED
  BY LockInvInit, <1>1, PTL DEF Spec

-----------------------------------------------------------------------------
\* Between their _lock_comm and their _unlock_comm, processes exclude each
\* other on the card.
THEOREM Exclusion == ASSUME SingleThreaded PROVE Spec => []CardExclusion
<1>1. LockInv => CardExclusion
  <2> SUFFICES ASSUME LockInv, Calm, NEW p \in Users, NEW q \in Users
               PROVE  p = q
    BY DEF CardExclusion
  <2>1. PICK t \in Threads : depth[t] > 0 /\ p = ProcOf[t]
    BY DEF Users, Inside
  <2>2. PICK u \in Threads : depth[u] > 0 /\ q = ProcOf[u]
    BY DEF Users, Inside
  <2>3. session = p /\ session = q
    BY <2>1, <2>2 DEF LockInv, ThreadInv
  <2> QED
    BY <2>3
<1> QED
  BY <1>1, LockInvCorrect, PTL

\* The lock is counted exactly as deep as the callers nest it, so the last
\* _unlock_comm, and no earlier one, gives the session back.
THEOREM CountCorrect == ASSUME SingleThreaded PROVE Spec => []CountMatchesNesting
<1>1. LockInv => CountMatchesNesting
  BY DEF LockInv, ThreadInv, CountMatchesNesting, Inside
<1> QED
  BY <1>1, LockInvCorrect, PTL

\* _do_write_dp0 finds the card locked whenever its caller has locked it.
THEOREM WriteSeesLock == ASSUME SingleThreaded PROVE Spec => []InsideSeesLock
<1>1. LockInv => InsideSeesLock
  BY DEF LockInv, ThreadInv, InsideSeesLock, Inside
<1> QED
  BY <1>1, LockInvCorrect, PTL

-----------------------------------------------------------------------------
\* Every step of the lock is a step of the mutex or leaves its users alone.
MutexUsers == IF Calm THEN Users ELSE {}

LEMMA UsersStep ==
  ASSUME SingleThreaded, LockInv, LockInv', Calm, Calm',
         NEW t \in Threads, InCall(t) \/ Caller(t)
  PROVE  \/ Users' = Users
         \/ \E p \in Procs : Users = {} /\ Users' = {p}
         \/ \E p \in Procs : Users = {p} /\ Users' = {}
<1> DEFINE p == ProcOf[t]
<1>1. /\ p \in Procs
      /\ ThreadInv(t) /\ ThreadInv(t)'
      /\ TypeOK /\ depth[t] \in Nat
  BY CardLockAssumption DEF LockInv, TypeInv, TypeOK
<1>2. \A u \in Threads : u # t => depth'[u] = depth[u]
  BY <1>1 DEF TypeOK, InCall, Caller, Unlock, LockLoop, LockStart,
     LockRefused, LockGranted, UnlockStop, UnlockDone, LockNested, LockBegin,
     UnlockNested, UnlockLast, UnlockNotLocked, WriteDp0, Enter, Leave
<1>3. \A u \in Threads : depth[u] > 0 => session = ProcOf[u]
  BY DEF LockInv, ThreadInv
<1>4. CASE depth'[t] > 0 <=> depth[t] > 0
  <2>1. \A u \in Threads : depth'[u] > 0 <=> depth[u] > 0
    BY <1>2, <1>4
  <2> QED
    BY <2>1 DEF Users, Inside
<1>5. CASE depth[t] = 0 /\ depth'[t] > 0
  <2>1. session = p
    BY <1>1, <1>5 DEF TypeOK, ThreadInv, InCall, Caller, Unlock, LockLoop,
       LockStart, LockRefused, LockGranted, UnlockStop, UnlockDone, LockNested,
       LockBegin, UnlockNested, UnlockLast, UnlockNotLocked, WriteDp0,
       Enter, Leave, Goto
  <2>2. \A u \in Threads : ~(depth[u] > 0)
    BY <1>3, <1>5, <2>1 DEF SingleThreaded
  <2>3. Users = {}
    BY <2>2 DEF Users, Inside
  <2>4. \A u \in Threads : depth'[u] > 0 <=> u = t
    BY <1>2, <1>5, <2>2
  <2>5. Users' = {p}
    BY <2>4 DEF Users, Inside
  <2> QED
    BY <1>1, <2>3, <2>5
<1>6. CASE depth[t] > 0 /\ ~(depth'[t] > 0)
  <2>1. \A u \in Threads : depth[u] > 0 <=> u = t
    BY <1>1, <1>3, <1>6 DEF SingleThreaded
  <2>2. Users = {p}
    BY <2>1 DEF Users, Inside
  <2>3. \A u \in Threads : ~(depth'[u] > 0)
    BY <1>2, <1>6, <2>1
  <2>4. Users' = {}
    BY <2>3 DEF Users, Inside
  <2> QED
    BY <1>1, <2>2, <2>4
<1> QED
  BY <1>1, <1>4, <1>5, <1>6

\* An upset ends the story: who was using the card leaves it.
LEMMA AtMostOneUser ==
  ASSUME SingleThreaded, LockInv, Calm
  PROVE  Users = {} \/ \E p \in Procs : Users = {p}
<1>1. \A u \in Threads : depth[u] > 0 => session = ProcOf[u]
  BY DEF LockInv, ThreadInv
<1>2. CASE \A u \in Threads : ~(depth[u] > 0)
  BY <1>2 DEF Users, Inside
<1>3. ASSUME NEW t \in Threads, depth[t] > 0
      PROVE  \E p \in Procs : Users = {p}
  <2>1. \A u \in Threads : depth[u] > 0 <=> u = t
    BY <1>1, <1>3 DEF SingleThreaded
  <2>2. Users = {ProcOf[t]}
    BY <2>1 DEF Users, Inside
  <2> QED
    BY <2>2, CardLockAssumption
<1> QED
  BY <1>2, <1>3

LEMMA StepImplements ==
  ASSUME SingleThreaded
  PROVE  LockInv /\ LockInv' /\ [Next]_vars => [Mutex!Next]_MutexUsers
<1> SUFFICES ASSUME LockInv, LockInv', [Next]_vars
             PROVE  [Mutex!Next]_MutexUsers
  OBVIOUS
<1>1. CASE UNCHANGED vars
  BY <1>1 DEF vars, Users, Inside, Calm, MutexUsers
<1>2. ASSUME NEW t \in Threads, InCall(t) \/ Caller(t)
      PROVE  [Mutex!Next]_MutexUsers
  <2>1. Calm' <=> Calm
    BY <1>2 DEF InCall, Caller, Unlock, Calm
  <2>2. CASE Calm
    BY <1>2, <2>1, <2>2, UsersStep
       DEF MutexUsers, Mutex!Next, Mutex!Acquire, Mutex!Release
  <2>3. CASE ~Calm
    BY <2>1, <2>3 DEF MutexUsers
  <2> QED
    BY <2>2, <2>3
<1>3. ASSUME NEW t \in Threads, Upset(t)
      PROVE  [Mutex!Next]_MutexUsers
  <2>1. ~Calm'
    BY <1>3, UpsetIsNotCalm DEF LockInv
  <2> QED
    BY <2>1, AtMostOneUser DEF MutexUsers, Mutex!Next, Mutex!Release
<1> QED
  BY <1>1, <1>2, <1>3 DEF Next

\* The lock implements the mutex: whatever the processes do, the card passes
\* from no user to one and back, up to the first upset.
THEOREM Implementation == ASSUME SingleThreaded PROVE Spec => ImplementsMutex
<1>1. Init => Mutex!Init
  BY DEF Init, Users, Inside, Mutex!Init
<1>2. LockInv /\ LockInv' /\ [Next]_vars => [Mutex!Next]_MutexUsers
  BY StepImplements
<1> QED
  BY <1>1, <1>2, LockInvCorrect, PTL DEF Spec, ImplementsMutex, Mutex!Spec, MutexUsers
=============================================================================
