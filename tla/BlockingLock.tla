---------------------------- MODULE BlockingLock ----------------------------
(***************************************************************************)
(* BlockingLock of kernel/blocking_lock.h, which guards the heap, the file *)
(* caches and the process table: a Semaphore of one unit whose callers     *)
(* call up() (unlock) only after their own down() (lock).                  *)
(***************************************************************************)
EXTENDS Semaphore

ASSUME LockDiscipline == Initial = 1 /\ Credit = 1 /\ Debt = 0

Holds(t) == has[t] = 1

\* Threads that are inside lock() or unlock() go on, and a thread that has the
\* lock calls unlock() in the end.
LockFairness == \A t \in Threads : WF_vars(Inside(t)) /\ WF_vars(CallUp(t))

LockSpec == Spec /\ LockFairness

(* lock() has returned in one thread at most that has not called unlock(). *)
MutualExclusion == \A t, u \in Threads : Holds(t) /\ Holds(u) => t = u

(* A thread that found the lock taken gets it in the end.  It cannot be    *)
(* overtaken for ever, because unlock() passes the unit on; that unlock()  *)
(* wins the ISL, a plain spin lock, follows because every other thread     *)
(* that calls lock() meanwhile goes to sleep.                              *)
SleeperGetsLock == \A t \in Threads : pc[t] = "switching" ~> Holds(t)
=============================================================================
