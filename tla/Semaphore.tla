----------------------------- MODULE Semaphore -----------------------------
(***************************************************************************)
(* Semaphore of kernel/semaphore.h, used by threads of any number of cores.*)
(*                                                                         *)
(* Every operation holds the semaphore's ISL, which down() keeps across a  *)
(* context switch: the thread that blocks acquires it, and the action that *)
(* block() runs on the next thread's stack releases it.  The ISL is a      *)
(* mutex here (InterruptSafeLock shows that it is one) and the scheduler   *)
(* is what Scheduler shows of it: a thread that is scheduled runs again,   *)
(* and block()'s action runs once the thread's context is saved.           *)
(***************************************************************************)
EXTENDS Integers, Sequences, Functions, Queues

CONSTANTS Threads,
          Initial,   \* the constructor's argument
          Credit,    \* bound: units a thread may have at a time
          Debt,      \* bound: units a thread may give that it did not take
          Nobody     \* the ISL is free

ASSUME SemaphoreAssumption == /\ Initial \in Nat
                              /\ Credit \in Nat
                              /\ Debt \in Nat
                              /\ Nobody \notin Threads

VARIABLES count,     \* uint64_t count
          lock,      \* who holds the ISL, or Nobody
          waiting,   \* Queue<TCB> waiting
          pc,        \* pc[t]: where t is in down() or up()
          next,      \* next[t]: the local of up()
          has        \* history: downs that returned less ups that were called

vars == <<count, lock, waiting, pc, next, has>>

Labels == { "out",        \* outside the semaphore
            "down",       \* in down(), before lock.lock()
            "test",       \* in down(), the ISL is held
            "switching",  \* in block(), the context is not yet saved
            "asleep",     \* in waiting
            "granted",    \* taken out of waiting, not yet scheduled
            "ready",      \* in readyQ
            "up",         \* in up(), before lock.lock()
            "give",       \* in up(), the ISL is held
            "wake" }      \* in up(), the ISL is released

Init == /\ count = Initial
        /\ lock = Nobody
        /\ waiting = << >>
        /\ pc = [t \in Threads |-> "out"]
        /\ next = [t \in Threads |-> Nobody]
        /\ has = [t \in Threads |-> 0]

Goto(t, label) == pc' = [pc EXCEPT ![t] = label]
Has(t, change) == has' = [has EXCEPT ![t] = @ + change]

Acquire(t, from, to) ==
  /\ pc[t] = from
  /\ lock = Nobody
  /\ lock' = t
  /\ Goto(t, to)
  /\ UNCHANGED <<count, waiting, next, has>>

-----------------------------------------------------------------------------
(* down() *)

CallDown(t) ==
  /\ pc[t] = "out"
  /\ has[t] < Credit
  /\ Goto(t, "down")
  /\ UNCHANGED <<count, lock, waiting, next, has>>

DownLock(t) == Acquire(t, "down", "test")

\* count > 0: one less, and back to the caller.
Decrement(t) ==
  /\ pc[t] = "test"
  /\ count > 0
  /\ count' = count - 1
  /\ lock' = Nobody
  /\ Goto(t, "out")
  /\ Has(t, 1)
  /\ UNCHANGED <<waiting, next>>

\* Mutant: the ISL is released before block().
BlockUnlocked(t) ==
  /\ pc[t] = "test"
  /\ count = 0
  /\ lock' = Nobody
  /\ Goto(t, "switching")
  /\ UNCHANGED <<count, waiting, next, has>>

\* count = 0: block(), with the ISL held.
Block(t) ==
  /\ pc[t] = "test"
  /\ count = 0
  /\ Goto(t, "switching")
  /\ UNCHANGED <<count, lock, waiting, next, has>>

\* The action given to block(): waiting.add(me), lock.unlock(true).
Sleep(t) ==
  /\ pc[t] = "switching"
  /\ waiting' = Append(waiting, t)
  /\ lock' = Nobody
  /\ Goto(t, "asleep")
  /\ UNCHANGED <<count, next, has>>

\* block() returns: "we managed to subtract 1".
DownReturn(t) ==
  /\ pc[t] = "ready"
  /\ Goto(t, "out")
  /\ Has(t, 1)
  /\ UNCHANGED <<count, lock, waiting, next>>

-----------------------------------------------------------------------------
(* up() *)

CallUp(t) ==
  /\ pc[t] = "out"
  /\ has[t] + Debt > 0
  /\ Goto(t, "up")
  /\ Has(t, -1)
  /\ UNCHANGED <<count, lock, waiting, next>>

UpLock(t) == Acquire(t, "up", "give")

\* Mutant: the unit is added although a thread waits for it.
IncrementAlways(t) ==
  /\ pc[t] = "give"
  /\ count' = count + 1
  /\ lock' = Nobody
  /\ Goto(t, "out")
  /\ UNCHANGED <<waiting, next, has>>

\* waiting.remove() returns nullptr.
Increment(t) ==
  /\ pc[t] = "give"
  /\ waiting = << >>
  /\ count' = count + 1
  /\ lock' = Nobody
  /\ Goto(t, "out")
  /\ UNCHANGED <<waiting, next, has>>

\* Mutant: count is incremented for the thread that is woken, too.
GrantAndIncrement(t) ==
  /\ pc[t] = "give"
  /\ waiting # << >>
  /\ count' = count + 1
  /\ waiting' = Tail(waiting)
  /\ lock' = Nobody
  /\ next' = [next EXCEPT ![t] = Head(waiting)]
  /\ pc' = [pc EXCEPT ![t] = "wake", ![Head(waiting)] = "granted"]
  /\ UNCHANGED has

\* Mutant: the thread that waits for the shortest time is woken.
GrantLast(t) ==
  /\ pc[t] = "give"
  /\ waiting # << >>
  /\ waiting' = SubSeq(waiting, 1, Len(waiting) - 1)
  /\ lock' = Nobody
  /\ next' = [next EXCEPT ![t] = waiting[Len(waiting)]]
  /\ pc' = [pc EXCEPT ![t] = "wake", ![waiting[Len(waiting)]] = "granted"]
  /\ UNCHANGED <<count, has>>

\* Mutant: the thread that is woken stays in waiting.
GrantPeek(t) ==
  /\ pc[t] = "give"
  /\ waiting # << >>
  /\ lock' = Nobody
  /\ next' = [next EXCEPT ![t] = Head(waiting)]
  /\ pc' = [pc EXCEPT ![t] = "wake", ![Head(waiting)] = "granted"]
  /\ UNCHANGED <<count, waiting, has>>

\* It returns the thread that waits for the longest time.
Grant(t) ==
  /\ pc[t] = "give"
  /\ waiting # << >>
  /\ waiting' = Tail(waiting)
  /\ lock' = Nobody
  /\ next' = [next EXCEPT ![t] = Head(waiting)]
  /\ pc' = [pc EXCEPT ![t] = "wake", ![Head(waiting)] = "granted"]
  /\ UNCHANGED <<count, has>>

\* schedule(next)
Wake(t) ==
  /\ pc[t] = "wake"
  /\ pc' = [pc EXCEPT ![t] = "out", ![next[t]] = "ready"]
  /\ next' = [next EXCEPT ![t] = Nobody]
  /\ UNCHANGED <<count, lock, waiting, has>>

Inside(t) == \/ DownLock(t) \/ Decrement(t) \/ Block(t) \/ Sleep(t) \/ DownReturn(t)
             \/ UpLock(t) \/ Increment(t) \/ Grant(t) \/ Wake(t)

Next == \E t \in Threads : CallDown(t) \/ CallUp(t) \/ Inside(t)

Spec == Init /\ [][Next]_vars

-----------------------------------------------------------------------------
(* Every variable has its type. *)
TypeOK ==
  /\ count \in Nat
  /\ lock \in Threads \cup {Nobody}
  /\ waiting \in Seq(Threads)
  /\ pc \in [Threads -> Labels]
  /\ next \in [Threads -> Threads \cup {Nobody}]
  /\ has \in [Threads -> (-Debt) .. Credit]

(* No unit is idle while a thread waits for one, although up() looks at    *)
(* waiting, and down() at count, long before the thread that blocks has    *)
(* got into the queue.                                                     *)
NoIdleUnit == count > 0 => waiting = << >>

(* A thread is woken by exactly one up(): it is never scheduled while it   *)
(* is still in the queue or still being switched out, nor a second time.   *)
WokenOnce ==
  /\ \A t \in Threads : pc[t] = "wake" => pc[next[t]] = "granted"
  /\ \A t, u \in Threads : pc[t] = "wake" /\ pc[u] = "wake" /\ t # u => next[t] # next[u]
  /\ \A t \in Threads : pc[t] = "asleep" <=> Contains(waiting, t)
  /\ NoRepeats(waiting)

(* The semaphore implements SemaphoreSpec: its lock-protected steps are    *)
(* atomic takes, joins and first-in first-out gives.                       *)
Promise == INSTANCE SemaphoreSpec WITH Clients <- Threads, units <- count, queue <- waiting

ImplementsSpec == Promise!Spec
=============================================================================
