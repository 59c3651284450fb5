------------------------ MODULE MCInterruptSafeLock ------------------------
(* InterruptSafeLock, and how those who wait for it, or for readyQ which   *)
(* it guards, sleep.                                                       *)
EXTENDS InterruptSafeLock

CONSTANT MaxItems

VARIABLES user,  \* "lock" or "idle", the same for ever
          queueTaken, items, at, job, enabled, armed, hit

Idle == INSTANCE IdleLoop WITH taken <- queueTaken

ASSUME Idle!IdleAssumption

idle == <<queueTaken, items, at, job, enabled, armed, hit>>

MCInit == user \in {"lock", "idle"} /\ Init /\ Idle!Init

ByLock == user = "lock" /\ Next /\ UNCHANGED <<user, idle>>
ByIdle == user = "idle" /\ Idle!Next /\ UNCHANGED <<user, vars>>

MCSpec == MCInit /\ [][ByLock \/ ByIdle]_<<user, vars, idle>>

(* No wake-up is lost by a core that sleeps until readyQ has something, or *)
(* until a lock is free.                                                   *)
NoWakeUpLost == Idle!NoWakeUpLost
=============================================================================
