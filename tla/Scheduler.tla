------------------------------ MODULE Scheduler ------------------------------
(***************************************************************************)
(* The thread scheduler: gheith::block and its callers yield, stop,        *)
(* Semaphore::down and the timer handler (kernel/threads.h, threads.cc,    *)
(* pit.cc), the stack switch of context.s, thread creation, and the two    *)
(* queues readyQ and zombies.                                              *)
(*                                                                         *)
(* Every core runs the code of one stack.  block() is split where another  *)
(* core, or a timer interrupt of the same core, can see the difference;    *)
(* code that runs with interrupts disabled and touches only what its core  *)
(* owns is one step.  A queue operation is one step because it holds an    *)
(* InterruptSafeLock (see that module).                                    *)
(*                                                                         *)
(* A TCB is named by a thread of Threads or, for the idle TCB of a core,   *)
(* by the core itself: idleThreads[c] = c.                                 *)
(***************************************************************************)
EXTENDS Naturals, Sequences, Queues

CONSTANTS Cores,       \* the processors, and their idle TCBs
          Threads,     \* the TCBs that thread() may ever allocate
          Reaper,      \* the thread that threadsInit() creates
          InitThread,  \* the thread that kernelInit() creates
          Parkers,     \* the threads that may block on a semaphore
          NoTcb        \* nullptr

ASSUME ThreadAssumption == /\ Cores \cap Threads = {}
                           /\ NoTcb \notin Cores \cup Threads
                           /\ {Reaper, InitThread} \subseteq Threads
                           /\ Reaper # InitThread
                           /\ Parkers \subseteq Threads

VARIABLES readyQ,     \* Queue<TCB> readyQ
          zombies,    \* Queue<TCB> zombies
          parked,     \* the TCBs in the waiting queues of the semaphores
          active,     \* activeThreads[c]
          stack,      \* stack[c]: the TCB whose stack the core's %esp is in
          iflag,      \* iflag[c]: EFLAGS.IF of the core
          at,         \* at[c]: where in block() the core is
          call,       \* call[c]: who called block()
          me, next,   \* the locals me and next_tcb of block()
          noPreempt,  \* noPreempt[t]: saveArea.no_preempt
          esp,        \* esp[t]: the stack that saveArea.esp points into
          doing,      \* doing[t]: what the thread's own code is busy with
          hand,       \* hand[t]: the TCB that code holds in a local
          home        \* history: the one place that holds the TCB

queues == <<readyQ, zombies, parked>>
cpu == <<active, stack, iflag, at, call, me, next>>
tcbs == <<noPreempt, esp>>
code == <<doing, hand>>
vars == <<queues, cpu, tcbs, code, home>>

Tcbs == Threads \cup Cores
IsIdle(t) == t \in Cores

Calls == {"yield", "tick", "stop", "park"}

Labels == { "run",       \* outside block()
            "pick",      \* no_preempt is set, before readyQ.remove()
            "claim",     \* next_tcb is chosen
            "announce",  \* next_tcb's no_preempt is set
            "switch",    \* activeThreads is set
            "handoff",   \* on the target's stack, before the caller's action
            "resume" }   \* before popf

Init == /\ readyQ = <<Reaper, InitThread>>
        /\ zombies = << >>
        /\ parked = {}
        /\ active = [c \in Cores |-> c]
        /\ stack = [c \in Cores |-> c]
        /\ iflag = [c \in Cores |-> TRUE]
        /\ at = [c \in Cores |-> "run"]
        /\ call = [c \in Cores |-> "stop"]
        /\ me = [c \in Cores |-> NoTcb]
        /\ next = [c \in Cores |-> NoTcb]
        /\ noPreempt = [t \in Tcbs |-> FALSE]
        /\ esp = [t \in Tcbs |-> t]
        /\ doing = [t \in Tcbs |-> IF t = Reaper THEN "reap" ELSE "none"]
        /\ hand = [t \in Tcbs |-> NoTcb]
        /\ home = [t \in Tcbs |->
                     CASE IsIdle(t) -> "cpu"
                       [] t \in {Reaper, InitThread} -> "ready"
                       [] OTHER -> "unborn"]

Running(c, t) == at[c] = "run" /\ stack[c] = t
Goto(c, label) == at' = [at EXCEPT ![c] = label]
MoveTo(t, place) == home' = [home EXCEPT ![t] = place]

-----------------------------------------------------------------------------
(* block() *)

\* Mutant: no_preempt is not set.
StartBlockPreemptible(c, who, enabled) ==
  /\ Goto(c, "pick")
  /\ call' = [call EXCEPT ![c] = who]
  /\ me' = [me EXCEPT ![c] = active[c]]
  /\ iflag' = [iflag EXCEPT ![c] = enabled]
  /\ UNCHANGED <<queues, active, stack, next, tcbs, hand, home>>

\* The call, up to and including Interrupts::protect: from here on the timer
\* leaves this core's active thread alone.
StartBlock(c, who, enabled) ==
  /\ Goto(c, "pick")
  /\ call' = [call EXCEPT ![c] = who]
  /\ me' = [me EXCEPT ![c] = active[c]]
  /\ noPreempt' = [noPreempt EXCEPT ![active[c]] = TRUE]
  /\ iflag' = [iflag EXCEPT ![c] = enabled]
  /\ UNCHANGED <<queues, active, stack, next, esp, hand, home>>

\* readyQ.remove() finds a thread.
PickReady(c) ==
  /\ at[c] = "pick"
  /\ readyQ # << >>
  /\ next' = [next EXCEPT ![c] = Head(readyQ)]
  /\ readyQ' = Tail(readyQ)
  /\ MoveTo(Head(readyQ), "cpu")
  /\ Goto(c, "claim")
  /\ UNCHANGED <<zombies, parked, active, stack, iflag, call, me, tcbs, code>>

\* Mutant: some core's idle thread is next.
PickAnyIdle(c) ==
  /\ at[c] = "pick"
  /\ readyQ = << >>
  /\ call[c] \in {"stop", "park"}
  /\ ~IsIdle(me[c])
  /\ \E d \in Cores : next' = [next EXCEPT ![c] = d]
  /\ Goto(c, "claim")
  /\ UNCHANGED <<queues, active, stack, iflag, call, me, tcbs, code, home>>

\* It finds none and the thread cannot go on: the core's idle thread is next.
\* An idle thread looks again until there is one.
PickIdle(c) ==
  /\ at[c] = "pick"
  /\ readyQ = << >>
  /\ call[c] \in {"stop", "park"}
  /\ ~IsIdle(me[c])
  /\ next' = [next EXCEPT ![c] = c]
  /\ Goto(c, "claim")
  /\ UNCHANGED <<queues, active, stack, iflag, call, me, tcbs, code, home>>

\* It finds none and BlockOption::CanReturn: back to the caller, with
\* no_preempt still set.  The timer handler returns with iret.
PickNothing(c) ==
  /\ at[c] = "pick"
  /\ readyQ = << >>
  /\ call[c] \in {"yield", "tick"}
  /\ iflag' = [iflag EXCEPT ![c] = TRUE]
  /\ Goto(c, "run")
  /\ UNCHANGED <<queues, active, stack, call, me, next, tcbs, code, home>>

\* Mutant: the thread that yields is put back into readyQ before the switch.
ClaimAndSchedule(c) ==
  /\ at[c] = "claim"
  /\ noPreempt' = [noPreempt EXCEPT ![next[c]] = TRUE]
  /\ IF call[c] = "yield" /\ ~IsIdle(me[c])
     THEN readyQ' = Append(readyQ, me[c])
     ELSE UNCHANGED readyQ
  /\ Goto(c, "announce")
  /\ UNCHANGED <<zombies, parked, active, stack, iflag, call, me, next, esp, code, home>>

Claim(c) ==
  /\ at[c] = "claim"
  /\ noPreempt' = [noPreempt EXCEPT ![next[c]] = TRUE]
  /\ Goto(c, "announce")
  /\ UNCHANGED <<queues, active, stack, iflag, call, me, next, esp, code, home>>

Announce(c) ==
  /\ at[c] = "announce"
  /\ active' = [active EXCEPT ![c] = next[c]]
  /\ Goto(c, "switch")
  /\ UNCHANGED <<queues, stack, iflag, call, me, next, tcbs, code, home>>

\* Mutant: only the source's no_preempt is cleared.
SwitchKeepsTargetFlag(c) ==
  /\ at[c] = "switch"
  /\ iflag' = [iflag EXCEPT ![c] = FALSE]
  /\ noPreempt' = [noPreempt EXCEPT ![me[c]] = FALSE]
  /\ esp' = [esp EXCEPT ![me[c]] = stack[c]]
  /\ stack' = [stack EXCEPT ![c] = esp[next[c]]]
  /\ Goto(c, "handoff")
  /\ UNCHANGED <<queues, active, call, me, next, code, home>>

\* gheith_contextSwitch: cli, clear both flags, save %esp, load the target's.
Switch(c) ==
  /\ at[c] = "switch"
  /\ iflag' = [iflag EXCEPT ![c] = FALSE]
  /\ noPreempt' = [noPreempt EXCEPT ![me[c]] = FALSE, ![next[c]] = FALSE]
  /\ esp' = [esp EXCEPT ![me[c]] = stack[c]]
  /\ stack' = [stack EXCEPT ![c] = esp[next[c]]]
  /\ Goto(c, "handoff")
  /\ UNCHANGED <<queues, active, call, me, next, code, home>>

\* The caller's action, on the target's stack with interrupts disabled.
HandToReady(c) ==
  /\ readyQ' = Append(readyQ, me[c])
  /\ MoveTo(me[c], "ready")
  /\ UNCHANGED <<zombies, parked>>

HandToZombies(c) ==
  /\ zombies' = Append(zombies, me[c])
  /\ MoveTo(me[c], "zombie")
  /\ UNCHANGED <<readyQ, parked>>

HandToSemaphore(c) ==
  /\ parked' = parked \cup {me[c]}
  /\ MoveTo(me[c], "parked")
  /\ UNCHANGED <<readyQ, zombies>>

\* Mutant: stop() does not ask whether the thread is idle.
HandoffOfIdle(c) ==
  /\ at[c] = "handoff"
  /\ \/ call[c] \in {"yield", "tick"} /\ HandToReady(c)
     \/ call[c] = "stop" /\ HandToZombies(c)
     \/ call[c] = "park" /\ HandToSemaphore(c)
  /\ Goto(c, "resume")
  /\ UNCHANGED <<active, stack, iflag, call, me, next, tcbs, code>>

\* Mutant: a timer tick's yield forgets to schedule the thread.
HandoffLosesPreempted(c) ==
  /\ at[c] = "handoff"
  /\ \/ (IsIdle(me[c]) \/ call[c] = "tick") /\ UNCHANGED <<queues, home>>
     \/ ~IsIdle(me[c]) /\ call[c] = "yield" /\ HandToReady(c)
     \/ ~IsIdle(me[c]) /\ call[c] = "stop" /\ HandToZombies(c)
     \/ ~IsIdle(me[c]) /\ call[c] = "park" /\ HandToSemaphore(c)
  /\ Goto(c, "resume")
  /\ UNCHANGED <<active, stack, iflag, call, me, next, tcbs, code>>

Handoff(c) ==
  /\ at[c] = "handoff"
  /\ \/ IsIdle(me[c]) /\ UNCHANGED <<queues, home>>
     \/ ~IsIdle(me[c]) /\ call[c] \in {"yield", "tick"} /\ HandToReady(c)
     \/ ~IsIdle(me[c]) /\ call[c] = "stop" /\ HandToZombies(c)
     \/ ~IsIdle(me[c]) /\ call[c] = "park" /\ HandToSemaphore(c)
  /\ Goto(c, "resume")
  /\ UNCHANGED <<active, stack, iflag, call, me, next, tcbs, code>>

\* popf and the return into whatever the target was doing: out of yield() or
\* stop() or into entry() with the popped IF, out of the timer handler with
\* iret, out of Semaphore::down with sti.
Resume(c) ==
  /\ at[c] = "resume"
  /\ iflag' = [iflag EXCEPT ![c] = TRUE]
  /\ Goto(c, "run")
  /\ UNCHANGED <<queues, active, stack, call, me, next, tcbs, code, home>>

BlockStep(c) == \/ PickReady(c) \/ PickIdle(c) \/ PickNothing(c) \/ Claim(c)
                \/ Announce(c) \/ Switch(c) \/ Handoff(c) \/ Resume(c)

-----------------------------------------------------------------------------
(* The callers of block() *)

\* The timer interrupt: apitHandler calls yield() with interrupts disabled
\* unless the active thread is idle or must not be preempted.
Tick(c) ==
  /\ iflag[c]
  /\ ~IsIdle(active[c])
  /\ ~noPreempt[active[c]]
  /\ StartBlock(c, "tick", FALSE)
  /\ UNCHANGED doing

\* yield() called by the thread itself; the reaper does so once per turn.
Yield(c, t) ==
  /\ Running(c, t)
  /\ ~IsIdle(t)
  /\ doing[t] = (IF t = Reaper THEN "rest" ELSE "none")
  /\ StartBlock(c, "yield", iflag[c])
  /\ doing' = [doing EXCEPT ![t] = IF t = Reaper THEN "reap" ELSE "none"]

\* stop(): entry() calls it when the thread's work is done, kernelInit() and
\* the loop in stop() itself on an idle thread.
Stop(c, t) ==
  /\ Running(c, t)
  /\ t # Reaper
  /\ doing[t] = "none"
  /\ StartBlock(c, "stop", iflag[c])
  /\ UNCHANGED doing

\* Semaphore::down() with count = 0, the semaphore's ISL held.  Any code that
\* allocates or frees may get here through the heap's BlockingLock: the reaper
\* does where it deletes a TCB (heap.cc:196).
Park(c, t) ==
  /\ Running(c, t)
  /\ t \in Parkers
  /\ t = Reaper => hand[t] # NoTcb
  /\ StartBlock(c, "park", FALSE)
  /\ UNCHANGED doing

-----------------------------------------------------------------------------
(* The other scheduler calls a thread makes *)

Busy(c, t, before, after, held) ==
  /\ Running(c, t)
  /\ doing[t] \in before
  /\ doing' = [doing EXCEPT ![t] = after]
  /\ hand' = [hand EXCEPT ![t] = held]
  /\ UNCHANGED <<cpu, tcbs>>

\* thread() begins with delete_zombies().
StartSpawn(c, t) ==
  /\ t \in Threads \ {Reaper}
  /\ Busy(c, t, {"none"}, "spawn", NoTcb)
  /\ UNCHANGED <<queues, home>>

\* Mutant: delete_zombies() reads the head and removes it only afterwards.
UnlinkWithoutRemove(c, t) ==
  /\ hand[t] = NoTcb
  /\ zombies # << >>
  /\ Busy(c, t, {"spawn", "reap"}, doing[t], Head(zombies))
  /\ MoveTo(Head(zombies), "held")
  /\ UNCHANGED queues

\* delete_zombies(): zombies.remove(), then delete, until the queue is empty.
Unlink(c, t) ==
  /\ hand[t] = NoTcb
  /\ zombies # << >>
  /\ Busy(c, t, {"spawn", "reap"}, doing[t], Head(zombies))
  /\ zombies' = Tail(zombies)
  /\ MoveTo(Head(zombies), "held")
  /\ UNCHANGED <<readyQ, parked>>

Delete(c, t) ==
  /\ hand[t] # NoTcb
  /\ Busy(c, t, {"spawn", "reap"}, doing[t], NoTcb)
  /\ MoveTo(hand[t], "dead")
  /\ UNCHANGED queues

\* The reaper found no zombie: yield() is next.
ReapDone(c) ==
  /\ hand[Reaper] = NoTcb
  /\ zombies = << >>
  /\ Busy(c, Reaper, {"reap"}, "rest", NoTcb)
  /\ UNCHANGED <<queues, home>>

\* thread() found no zombie: new TCBImpl.
Create(c, t, newborn) ==
  /\ hand[t] = NoTcb
  /\ zombies = << >>
  /\ home[newborn] = "unborn"
  /\ Busy(c, t, {"spawn"}, "publish", newborn)
  /\ MoveTo(newborn, "held")
  /\ UNCHANGED queues

\* Semaphore::up() takes a waiter out of its queue, to be scheduled after the
\* semaphore's lock is released.
Unpark(c, t, waiter) ==
  /\ t \in Threads \ {Reaper}
  /\ waiter \in parked
  /\ Busy(c, t, {"none"}, "publish", waiter)
  /\ parked' = parked \ {waiter}
  /\ MoveTo(waiter, "held")
  /\ UNCHANGED <<readyQ, zombies>>

\* schedule(tcb)
Publish(c, t) ==
  /\ Busy(c, t, {"publish"}, "none", NoTcb)
  /\ readyQ' = Append(readyQ, hand[t])
  /\ MoveTo(hand[t], "ready")
  /\ UNCHANGED <<zombies, parked>>

Code(c, t) == \/ Yield(c, t) \/ Stop(c, t) \/ Park(c, t)
              \/ StartSpawn(c, t) \/ Unlink(c, t) \/ Delete(c, t) \/ Publish(c, t)
              \/ \E u \in Threads : Create(c, t, u) \/ Unpark(c, t, u)

Step(c) == \/ BlockStep(c) \/ Tick(c) \/ ReapDone(c)
           \/ \E t \in Tcbs : Code(c, t)

\* One turn of the reaper's loop.
ReaperStep(c) == \/ ReapDone(c) \/ Unlink(c, Reaper)
                 \/ Delete(c, Reaper) \/ Yield(c, Reaper)

Next == \E c \in Cores : Step(c)

Spec == Init /\ [][Next]_vars

-----------------------------------------------------------------------------
\* Core c is the one that may touch t: it runs on t's stack, has taken t out
\* of readyQ to run it, or has left t's stack and not yet passed t on.
Owns(c, t) == \/ stack[c] = t
              \/ at[c] \in {"claim", "announce", "switch"} /\ next[c] = t
              \/ at[c] = "handoff" /\ me[c] = t

Places == {"unborn", "ready", "cpu", "zombie", "parked", "held", "dead"}

(* Every variable has its type. *)
TypeOK ==
  /\ readyQ \in Seq(Threads)
  /\ zombies \in Seq(Threads)
  /\ parked \subseteq Threads
  /\ active \in [Cores -> Tcbs]
  /\ stack \in [Cores -> Tcbs]
  /\ iflag \in [Cores -> BOOLEAN]
  /\ at \in [Cores -> Labels]
  /\ call \in [Cores -> Calls]
  /\ me \in [Cores -> Tcbs \cup {NoTcb}]
  /\ next \in [Cores -> Tcbs \cup {NoTcb}]
  /\ noPreempt \in [Tcbs -> BOOLEAN]
  /\ esp \in [Tcbs -> Tcbs]
  /\ doing \in [Tcbs -> {"none", "reap", "rest", "spawn", "publish"}]
  /\ hand \in [Tcbs -> Threads \cup {NoTcb}]
  /\ home \in [Tcbs -> Places]

(* No two cores ever execute on the same stack, or one executes on a stack *)
(* that the other is about to switch to or is still passing on.            *)
NoStackShared ==
  \A c, d \in Cores, t \in Tcbs : Owns(c, t) /\ Owns(d, t) => c = d

(* A thread that any core can find in a queue, in a semaphore or in some   *)
(* other thread's hand is not being executed by any core: its context is   *)
(* completely saved before block()'s action makes it visible.              *)
VisibleOnlyWhenSaved ==
  \A t \in Threads :
    \/ Contains(readyQ, t) \/ Contains(zombies, t) \/ t \in parked
    \/ \E u \in Tcbs : hand[u] = t
    => (\A c \in Cores : ~Owns(c, t)) /\ esp[t] = t

(* The memory of a deleted TCB, which holds its stack, is never used: no   *)
(* core runs on it and nothing points to it.                               *)
NoUseAfterDelete ==
  \A t \in Threads : home[t] = "dead" =>
    /\ ~Contains(readyQ, t) /\ ~Contains(zombies, t) /\ t \notin parked
    /\ \A u \in Tcbs : hand[u] # t
    /\ \A c \in Cores : ~Owns(c, t) /\ active[c] # t

(* No thread is lost and none is in two places: a TCB that exists is on    *)
(* one core, or exactly once in one queue, semaphore or hand.              *)
ExactlyOnePlace ==
  \A t \in Threads :
    LET spots == {<<"ready", i>> : i \in {j \in DOMAIN readyQ : readyQ[j] = t}}
           \cup {<<"zombie", i>> : i \in {j \in DOMAIN zombies : zombies[j] = t}}
           \cup {<<"parked", t>> : u \in parked \cap {t}}
           \cup {<<"hand", u>> : u \in {v \in Tcbs : hand[v] = t}}
           \cup {<<"cpu", c>> : c \in {d \in Cores : Owns(d, t)}}
    IN  IF home[t] \in {"unborn", "dead"} THEN spots = {}
                                          ELSE \E s \in spots : spots = {s}

(* "Why is this safe?" (threads.h): whenever a timer interrupt would be    *)
(* allowed to preempt, the core is outside block() and activeThreads names *)
(* the thread whose stack it is on, although block() updates activeThreads *)
(* while it still runs on the old stack and with interrupts enabled.       *)
PreemptsOnlyOutsideBlock ==
  \A c \in Cores :
    iflag[c] /\ ~IsIdle(active[c]) /\ ~noPreempt[active[c]]
      => at[c] = "run" /\ stack[c] = active[c]

\* context.s: "both save areas have the no_preempt flag set" when the stack
\* switch begins.
BothFlagsSetAtSwitch ==
  \A c \in Cores : at[c] = "switch" => noPreempt[me[c]] /\ noPreempt[next[c]]

\* The ASSERTs of block(): an idle thread looks for work only on its own
\* core, as that core's active thread and with interrupts enabled.
IdleThreadsDoNotHop ==
  \A c \in Cores :
    at[c] = "pick" /\ IsIdle(me[c]) => me[c] = c /\ active[c] = c /\ iflag[c]

(* The assertions of block() and the precondition that context.s states    *)
(* hold although threads hop between cores at any preemption point.        *)
AssertsHold == BothFlagsSetAtSwitch /\ IdleThreadsDoNotHop

\* Each of these cores has a thread to which the last call of block() came back,
\* since it found no other.  The timer skips it until the thread calls block()
\* again, and no thread has to, but the reaper.
AllKept(cores) ==
  \A c \in cores :
    LET t == stack[c]
    IN  at[c] = "run" /\ t \in Threads \ {Reaper} /\ noPreempt[t] /\ me[c] = t
=============================================================================
