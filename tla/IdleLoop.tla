------------------------------ MODULE IdleLoop ------------------------------
(***************************************************************************)
(* How a core waits without spinning: the loop of block() in threads.h by  *)
(* which an idle thread waits for readyQ to have something, and the loop   *)
(* of lock() in atomic.h by which anybody waits for its lock.  Both put a  *)
(* monitor on an address, look, and mwait if there is nothing.  A core has *)
(* one monitor: the lock around the look takes it from readyQ, and so does *)
(* a handler that comes between.                                           *)
(*                                                                         *)
(* Addresses are told apart as finely as the code does; the processor does *)
(* it by cache lines, which only means more wake-ups.                      *)
(***************************************************************************)
EXTENDS Naturals

CONSTANTS Cores,    \* the processors
          MaxItems  \* bound: threads in readyQ

IdleAssumption == MaxItems \in Nat \ {0}

VARIABLES taken,    \* the lock of readyQ
          items,    \* how many threads are in it
          at,       \* at[c]: where core c is
          job,      \* job[c]: "remove", "add", or "empty" when remove() found nothing
          enabled,  \* enabled[c]: the interrupt flag outside the lock
          armed,    \* armed[c]: the address that the monitor of c is on
          hit       \* hit[c]: somebody has written to it since

queue == <<taken, items>>
core == <<at, job, enabled>>
vars == <<queue, core, armed, hit>>

Init == /\ taken = FALSE /\ items = 0
        /\ at = [c \in Cores |-> "run"]
        /\ job = [c \in Cores |-> "add"]
        /\ enabled = [c \in Cores |-> TRUE]
        /\ armed = [c \in Cores |-> "none"]
        /\ hit = [c \in Cores |-> FALSE]

Goto(c, here, there) == at[c] = here /\ at' = [at EXCEPT ![c] = there]

\* c puts its monitor on an address, and forgets what it was on before.
Monitor(c, address) == /\ armed' = [armed EXCEPT ![c] = address]
                       /\ hit' = [hit EXCEPT ![c] = FALSE]

\* c writes to an address.  Its own monitor may or may not notice that.
Written(c, address) ==
  /\ \E noticed \in BOOLEAN :
       hit' = [d \in Cores |-> hit[d] \/ (armed[d] = address /\ (d # c \/ noticed))]
  /\ UNCHANGED armed

-----------------------------------------------------------------------------
\* readyQ.monitor_add() and the call of remove() by an idle thread.
LookForThread(c) ==
  /\ Goto(c, "run", "lock")
  /\ job' = [job EXCEPT ![c] = "remove"]
  /\ enabled' = [enabled EXCEPT ![c] = TRUE]
  /\ Monitor(c, "last")
  /\ UNCHANGED queue

\* schedule() by whatever else the core runs.
Schedule(c, flag) ==
  /\ items < MaxItems
  /\ Goto(c, "run", "lock")
  /\ job' = [job EXCEPT ![c] = "add"]
  /\ enabled' = [enabled EXCEPT ![c] = flag]
  /\ UNCHANGED <<queue, armed, hit>>

\* Mutant: the monitor stays where it is.
MonitorLockNot(c) ==
  /\ Goto(c, "lock", "exchange")
  /\ UNCHANGED <<queue, job, enabled, armed, hit>>

\* lock(): taken.monitor_value()
MonitorLock(c) ==
  /\ Goto(c, "lock", "exchange")
  /\ Monitor(c, "taken")
  /\ UNCHANGED <<queue, job, enabled>>

\* The interrupts are disabled, and enabled again if somebody has the lock.
Exchange(c) ==
  /\ Goto(c, "exchange", IF taken THEN "mwait" ELSE "locked")
  /\ taken' = TRUE
  /\ Written(c, "taken")
  /\ UNCHANGED <<items, job, enabled>>

Add(c) ==
  /\ job[c] = "add" /\ Goto(c, "locked", "unlock")
  /\ items' = items + 1
  /\ Written(c, "last")
  /\ UNCHANGED <<taken, job, enabled>>

\* last is written when the last thread leaves.
Remove(c) ==
  /\ job[c] = "remove" /\ Goto(c, "locked", "unlock")
  /\ \/ /\ items = 0
        /\ job' = [job EXCEPT ![c] = "empty"]
        /\ UNCHANGED <<items, armed, hit>>
     \/ /\ items > 0
        /\ items' = items - 1
        /\ IF items = 1 THEN Written(c, "last") ELSE UNCHANGED <<armed, hit>>
        /\ UNCHANGED job
  /\ UNCHANGED <<taken, enabled>>

\* Whoever found nothing waits.
Unlock(c) ==
  /\ Goto(c, "unlock", IF job[c] = "empty" THEN "mwait" ELSE "run")
  /\ taken' = FALSE
  /\ Written(c, "taken")
  /\ UNCHANGED <<items, job, enabled>>

-----------------------------------------------------------------------------
\* What follows iAmStuckInALoop().
Again(c) == IF job[c] = "empty" THEN "run" ELSE "lock"

Mwait(c) ==
  /\ Goto(c, "mwait", IF hit[c] THEN Again(c) ELSE "asleep")
  /\ UNCHANGED <<queue, job, enabled, armed, hit>>

WakeUp(c) ==
  /\ hit[c] /\ Goto(c, "asleep", Again(c))
  /\ UNCHANGED <<queue, job, enabled, armed, hit>>

\* A handler, which has locks of its own to wait for, ends a wait that has begun.
Interrupt(c) ==
  /\ enabled[c] /\ at[c] \in {"run", "lock", "exchange", "mwait", "asleep"}
  /\ at' = [at EXCEPT ![c] = IF @ = "asleep" THEN Again(c) ELSE @]
  /\ armed' = [armed EXCEPT ![c] = "other"]
  /\ \E noticed \in BOOLEAN : hit' = [hit EXCEPT ![c] = noticed]
  /\ UNCHANGED <<queue, job, enabled>>

Next == \E c \in Cores : \/ LookForThread(c)
                         \/ \E flag \in BOOLEAN : Schedule(c, flag)
                         \/ MonitorLock(c) \/ Exchange(c)
                         \/ Add(c) \/ Remove(c) \/ Unlock(c)
                         \/ Mwait(c) \/ WakeUp(c) \/ Interrupt(c)

Spec == Init /\ [][Next]_vars

-----------------------------------------------------------------------------
(* No wake-up is lost: a core that sleeps on does so because readyQ is     *)
(* still empty or the lock still taken, although the monitor that block()  *)
(* puts on readyQ is gone when it sleeps; or a handler has taken the       *)
(* monitor away, and then the core can be interrupted, so that the next    *)
(* tick wakes it.                                                          *)
NoWakeUpLost ==
  \A c \in Cores : at[c] = "asleep" /\ ~hit[c] =>
    \/ armed[c] = "other" /\ enabled[c]
    \/ IF job[c] = "empty" THEN items = 0 ELSE taken
=============================================================================
