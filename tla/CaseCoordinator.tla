--------------------------- MODULE CaseCoordinator ---------------------------
(***************************************************************************)
(* backend/app/store/operations.py: the coordinator that lets one long     *)
(* operation at a time work on a case (ingestion, replacement, deletion,   *)
(* AI analysis, detection rebuild).  Its three dictionaries are keyed by   *)
(* the case and no statement touches two keys, so the module is one case.  *)
(*                                                                         *)
(* All code runs on the event loop: what happens between two awaits is one *)
(* step.  The only await of run() before its body is lock.acquire(), and   *)
(* release() does not hand the asyncio lock over: it clears the flag and   *)
(* marks the future of the first waiter, which runs some steps later.  In  *)
(* between another task may call run(); that window, and the cancellation  *)
(* of a waiting task, are why the lock is modelled down to its futures.    *)
(***************************************************************************)
EXTENDS Integers, Sequences

CONSTANTS Task,     \* the operations that may ask for the case
          NoTask    \* nobody: the value of an absent _active entry

ASSUME NoTaskAssumption == NoTask \notin Task

VARIABLES
  locked,   \* asyncio.Lock._locked
  waiters,  \* asyncio.Lock._waiters, oldest first
  fut,      \* the state of the future each task waits on
  active,   \* coordinator._active[case]
  queued,   \* coordinator._queued[case]
  pc        \* where each task stands in run()

coordVars == <<locked, waiters, fut, active, queued, pc>>

(***************************************************************************)
(* "woken": set_result was called and the task has not run since.          *)
(* "cancelled": the future was cancelled.  "doomed": the task was          *)
(* cancelled after its future got its result, so future.cancelled() is     *)
(* false although the task will raise CancelledError when it runs.         *)
(***************************************************************************)
FutureState == {"none", "pending", "woken", "cancelled", "doomed"}

CoordTypeOK ==
  /\ locked \in BOOLEAN
  /\ waiters \in Seq(Task)
  /\ fut \in [Task -> FutureState]
  /\ active \in Task \cup {NoTask}
  /\ queued \in Nat
  /\ pc \in [Task -> {"idle", "waiting", "holding"}]

CoordInit ==
  /\ locked = FALSE
  /\ waiters = << >>
  /\ fut = [t \in Task |-> "none"]
  /\ active = NoTask
  /\ queued = 0
  /\ pc = [t \in Task |-> "idle"]

-----------------------------------------------------------------------------
\* asyncio.Lock: the fast path of acquire() is open to a newcomer.
FastPath ==
  /\ ~locked
  /\ \A i \in 1 .. Len(waiters) : fut[waiters[i]] = "cancelled"

\* asyncio.Lock._waiters.remove(fut)
Without(s, t) ==
  LET i == CHOOSE j \in 1 .. Len(s) : s[j] = t
  IN  [j \in 1 .. Len(s) - 1 |-> IF j < i THEN s[j] ELSE s[j + 1]]

\* asyncio.Lock._wake_up_first(): only the first waiter, and only if not done.
WakeFirst(ws, f) ==
  [t \in Task |-> IF Len(ws) > 0 /\ t = ws[1] /\ f[t] = "pending"
                  THEN "woken" ELSE f[t]]

\* The finally clause after the await: the count falls whoever raised it.
Uncount == queued' = IF queued > 0 THEN queued - 1 ELSE queued

\* Everything run() does once acquire() has returned.
Enter(t) ==
  /\ locked' = TRUE
  /\ active' = t
  /\ Uncount
  /\ pc' = [pc EXCEPT ![t] = "holding"]

-----------------------------------------------------------------------------
\* Mutant: the slot is taken whenever nobody is in it, queue or no queue.
AcquireIfInactive(t) ==
  /\ pc[t] = "idle"
  /\ active = NoTask
  /\ Enter(t)
  /\ UNCHANGED <<waiters, fut>>

\* run() finds the lock free: acquire() returns without suspending.
AcquireNow(t) ==
  /\ pc[t] = "idle"
  /\ FastPath
  /\ Enter(t)
  /\ UNCHANGED <<waiters, fut>>

\* run() has to wait.  It is counted only if lock.locked() is true, which it
\* is not between a release and the moment the woken waiter runs.
JoinQueue(t) ==
  /\ pc[t] = "idle"
  /\ ~FastPath
  /\ queued' = IF locked THEN queued + 1 ELSE queued
  /\ waiters' = Append(waiters, t)
  /\ fut' = [fut EXCEPT ![t] = "pending"]
  /\ pc' = [pc EXCEPT ![t] = "waiting"]
  /\ UNCHANGED <<locked, active>>

\* The woken waiter runs: acquire() sets the flag without testing it.
Resume(t) ==
  /\ pc[t] = "waiting"
  /\ fut[t] = "woken"
  /\ Enter(t)
  /\ waiters' = Without(waiters, t)
  /\ fut' = [fut EXCEPT ![t] = "none"]

\* task.cancel() on a waiting task (a failed replacement cancels the ingestion
\* it scheduled, a shutdown cancels every task).
RequestCancel(t) ==
  /\ pc[t] = "waiting"
  /\ fut[t] \in {"pending", "woken"}
  /\ fut' = [fut EXCEPT ![t] = IF fut[t] = "pending" THEN "cancelled" ELSE "doomed"]
  /\ UNCHANGED <<locked, waiters, active, queued, pc>>

\* The cancelled waiter leaves the queue and raises.
Unwind(t, newFut, newLocked) ==
  /\ pc[t] = "waiting"
  /\ fut[t] \in {"cancelled", "doomed"}
  /\ waiters' = Without(waiters, t)
  /\ fut' = newFut
  /\ locked' = newLocked
  /\ pc' = [pc EXCEPT ![t] = "idle"]
  /\ UNCHANGED active

WithoutFuture(t) == [fut EXCEPT ![t] = "none"]
PassedOn(t) == WakeFirst(Without(waiters, t), WithoutFuture(t))

\* Mutant: the cancelled waiter keeps the wake-up it was given.
UnwindKeepingWakeUp(t) == Unwind(t, WithoutFuture(t), locked) /\ Uncount

\* Mutant: the finally clause of the body releases a lock it never got.
UnwindReleasing(t) == Unwind(t, PassedOn(t), FALSE) /\ Uncount

\* The cancelled waiter runs: acquire() passes the wake-up on and raises.
UnwindCancelled(t) ==
  /\ Unwind(t, IF locked THEN WithoutFuture(t) ELSE PassedOn(t), locked)
  /\ Uncount

\* The body of run() ended, normally or by an exception.
Leave(t) ==
  /\ pc[t] = "holding"
  /\ active' = NoTask
  /\ locked' = FALSE
  /\ fut' = WakeFirst(waiters, fut)
  /\ pc' = [pc EXCEPT ![t] = "idle"]
  /\ UNCHANGED <<waiters, queued>>

-----------------------------------------------------------------------------
CoordStep(t) == \/ AcquireNow(t) \/ JoinQueue(t) \/ Resume(t)
                \/ RequestCancel(t) \/ UnwindCancelled(t) \/ Leave(t)

CoordNext == \E t \in Task : CoordStep(t)

CoordSpec == CoordInit /\ [][CoordNext]_coordVars

(***************************************************************************)
(* The loop runs every ready task, and an operation that has the case ends *)
(* (its worker threads return).  Nobody is obliged to ask for the case or  *)
(* to cancel a task.                                                       *)
(***************************************************************************)
CoordFairness ==
  \A t \in Task : /\ WF_coordVars(Resume(t))
                  /\ WF_coordVars(UnwindCancelled(t))
                  /\ WF_coordVars(Leave(t))

CoordFairSpec == CoordSpec /\ CoordFairness

-----------------------------------------------------------------------------
Holders == {t \in Task : pc[t] = "holding"}

\* At most one operation is inside run() for the case, and the flag and
\* _active, two records of that fact kept apart by the code, both show it.
OneOperation ==
  /\ \A s, t \in Holders : s = t
  /\ locked <=> Holders # {}
  /\ \A t \in Task : active = t <=> t \in Holders

\* A free lock with tasks waiting always has a task about to run and either
\* take it or pass it on: the wake-up is never lost to a cancellation.
NoLostWakeup ==
  ~locked /\ Len(waiters) > 0 => fut[waiters[1]] # "pending"

\* The count that ingestion reads to decide whether more work follows never
\* reports a waiter that is not there (it may miss one).
QueuedNeverOverCounts == queued <= Len(waiters)

\* The strengthening the proofs of the invariants above need: the queue holds
\* each waiting task once, a future is there exactly for them, and a future
\* that has its result belongs to the first waiter of a free lock.
QueueShape ==
  /\ \A i, j \in 1 .. Len(waiters) : waiters[i] = waiters[j] => i = j
  /\ \A t \in Task : pc[t] = "waiting" <=> \E i \in 1 .. Len(waiters) : waiters[i] = t
  /\ \A t \in Task : pc[t] = "waiting" <=> fut[t] # "none"
  /\ \A i \in 1 .. Len(waiters) :
       fut[waiters[i]] \in {"woken", "doomed"} => i = 1 /\ ~locked

CoordInv ==
  /\ CoordTypeOK
  /\ OneOperation
  /\ NoLostWakeup
  /\ QueuedNeverOverCounts
  /\ QueueShape

\* Nobody overtakes: an operation that gets the case leaves behind it in the
\* queue no older request that still wants it.
NoOvertaking ==
  [][\A t \in Task : pc[t] # "holding" /\ pc'[t] = "holding" =>
       \A i \in 1 .. Len(waiters) :
         /\ fut[waiters[i]] \in {"pending", "woken"}
         /\ waiters[i] # t
         => \E j \in 1 .. i : waiters[j] = t]_coordVars

\* Every waiting operation gets the case or is cancelled.
WaitersServed ==
  \A t \in Task : pc[t] = "waiting" ~> pc[t] # "waiting"

Mutex == INSTANCE CaseMutex WITH holder <- active

\* The coordinator implements the one-slot mutual exclusion of CaseMutex.
ImplementsMutex == Mutex!Spec
==============================================================================
