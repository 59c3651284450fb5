----------------------------- MODULE Condition -----------------------------
(***************************************************************************)
(* Condition of kernel/condition.h: a Mesa-style condition variable on an  *)
(* InterruptSafeLock.  wait() does not keep the lock while it switches to  *)
(* another thread; a notify that comes in between is noticed by its epoch. *)
(*                                                                         *)
(* The lock is a mutex here (see InterruptSafeLock).  Whatever a thread    *)
(* does with the lock held is one step, because the lock disables          *)
(* interrupts and every variable below is used with the lock held only.    *)
(***************************************************************************)
EXTENDS Naturals, Sequences, FiniteSets, Queues

CONSTANTS Threads,
          Limits,    \* the arguments of notify()
          MaxEpoch,  \* bound: calls of notify()
          Nobody     \* the lock is free

ConditionAssumption == /\ Nobody \notin Threads
                       /\ Limits \subseteq Nat \ {0}

VARIABLES lock,      \* who holds *the_lock, or Nobody
          epoch,     \* uint64_t epoch
          queue,     \* Queue<TCB> queue
          pc,        \* pc[t]: where t is
          oldEpoch   \* oldEpoch[t]: the local old_epoch of wait()

vars == <<lock, epoch, queue, pc, oldEpoch>>

Labels == { "out",        \* not in the monitor
            "inside",     \* the thread's own code, the lock is held
            "switching",  \* in wait(), the lock is released, the context not yet saved
            "recheck",    \* in the action of block(), the lock is held for the thread
            "asleep",     \* in queue
            "ready" }     \* in readyQ, or running and trying to get the lock

Init == /\ lock = Nobody
        /\ epoch = 0
        /\ queue = << >>
        /\ pc = [t \in Threads |-> "out"]
        /\ oldEpoch = [t \in Threads |-> 0]

Goto(t, label) == pc' = [pc EXCEPT ![t] = label]

\* the_lock->lock() at label from
Acquire(t, from, to) ==
  /\ pc[t] = from
  /\ lock = Nobody
  /\ lock' = t
  /\ Goto(t, to)
  /\ UNCHANGED <<epoch, queue, oldEpoch>>

Enter(t) == Acquire(t, "out", "inside")

Leave(t) ==
  /\ pc[t] = "inside"
  /\ lock' = Nobody
  /\ Goto(t, "out")
  /\ UNCHANGED <<epoch, queue, oldEpoch>>

-----------------------------------------------------------------------------
(* wait() *)

\* Remember the epoch, release the lock and call block().
Wait(t) ==
  /\ pc[t] = "inside"
  /\ oldEpoch' = [oldEpoch EXCEPT ![t] = epoch]
  /\ lock' = Nobody
  /\ Goto(t, "switching")
  /\ UNCHANGED <<epoch, queue>>

\* The action of block(), which runs on another thread's stack.
Recheck(t) == Acquire(t, "switching", "recheck")

\* Mutant: the epoch is not compared.
SleepAnyway(t) ==
  /\ pc[t] = "recheck"
  /\ queue' = Append(queue, t)
  /\ lock' = Nobody
  /\ Goto(t, "asleep")
  /\ UNCHANGED <<epoch, oldEpoch>>

\* Nothing was notified since: add to the queue.
Sleep(t) ==
  /\ pc[t] = "recheck"
  /\ epoch = oldEpoch[t]
  /\ queue' = Append(queue, t)
  /\ lock' = Nobody
  /\ Goto(t, "asleep")
  /\ UNCHANGED <<epoch, oldEpoch>>

\* Something was: schedule(me) at once.
StayAwake(t) ==
  /\ pc[t] = "recheck"
  /\ epoch # oldEpoch[t]
  /\ lock' = Nobody
  /\ Goto(t, "ready")
  /\ UNCHANGED <<epoch, queue, oldEpoch>>

\* Mutant: wait() returns without the lock.
ReturnUnlocked(t) ==
  /\ pc[t] = "ready"
  /\ Goto(t, "inside")
  /\ UNCHANGED <<lock, epoch, queue, oldEpoch>>

\* block() returns, and wait() locks again.
Return(t) == Acquire(t, "ready", "inside")

-----------------------------------------------------------------------------
(* notify() *)

\* The threads at the head of the queue, limit of them at most, are scheduled.
Woken(limit) == {queue[i] : i \in {j \in DOMAIN queue : j <= limit}}

Rest(limit) == SubSeq(queue, limit + 1, Len(queue))

\* Mutant: the epoch only changes when the queue is empty.
NotifyQuietly(t, limit) ==
  /\ pc[t] = "inside"
  /\ epoch < MaxEpoch
  /\ epoch' = IF queue = << >> THEN epoch + 1 ELSE epoch
  /\ queue' = Rest(limit)
  /\ pc' = [u \in Threads |-> IF u \in Woken(limit) THEN "ready" ELSE pc[u]]
  /\ UNCHANGED <<lock, oldEpoch>>

Notify(t, limit) ==
  /\ pc[t] = "inside"
  /\ epoch < MaxEpoch
  /\ epoch' = epoch + 1
  /\ queue' = Rest(limit)
  /\ pc' = [u \in Threads |-> IF u \in Woken(limit) THEN "ready" ELSE pc[u]]
  /\ UNCHANGED <<lock, oldEpoch>>

\* The steps of wait() after its call.
Waiting(t) == Recheck(t) \/ Sleep(t) \/ StayAwake(t) \/ Return(t)

Next == \E t \in Threads : \/ Enter(t) \/ Leave(t) \/ Wait(t) \/ Waiting(t)
                           \/ \E limit \in Limits : Notify(t, limit)

Spec == Init /\ [][Next]_vars

-----------------------------------------------------------------------------
\* t is in wait() and no notify() has reached it.
Listening(t) == \/ pc[t] \in {"switching", "recheck"} /\ oldEpoch[t] = epoch
                \/ pc[t] = "asleep"

(* Every variable has its type. *)
TypeOK ==
  /\ lock \in Threads \cup {Nobody}
  /\ epoch \in Nat
  /\ queue \in Seq(Threads)
  /\ pc \in [Threads -> Labels]
  /\ oldEpoch \in [Threads -> Nat]

(* The ASSERTs that the lock is mine and that the epoch only grows: a      *)
(* thread whose code is in the monitor, or that is being put to sleep, has *)
(* the lock, though wait() gives it up and takes it twice more.            *)
LockIsMine ==
  \A t \in Threads : /\ pc[t] \in {"inside", "recheck"} <=> lock = t
                     /\ oldEpoch[t] <= epoch

(* The queue holds the threads that sleep, each once: no thread is         *)
(* scheduled while it is in the queue.                                     *)
QueueExact == /\ NoRepeats(queue)
              /\ \A t \in Threads : pc[t] = "asleep" <=> Contains(queue, t)

Listeners == {t \in Threads : Listening(t)}

(* "Guarantee: no missed signals": notify(limit) reaches limit of the      *)
(* threads that called wait() before it, or all if there are fewer, also   *)
(* those that are between giving up the lock and getting into the queue.   *)
NoMissedSignals ==
  [][\A t \in Threads, limit \in Limits :
       Notify(t, limit) =>
         LET reached == {u \in Listeners : ~Listening(u)'}
         IN  reached = Listeners \/ Cardinality(reached) >= limit]_vars

(* Condition implements MesaMonitor; the lock that block()'s action takes  *)
(* for a moment is not seen there.                                         *)
Owner == IF lock \in Threads /\ pc[lock] = "inside" THEN lock ELSE Nobody

Monitor == INSTANCE MesaMonitor WITH Clients <- Threads, owner <- Owner,
                                     listening <- Listeners

ImplementsMonitor == Monitor!Spec
=============================================================================
