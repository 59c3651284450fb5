-------------------------- MODULE ReusableBarrier --------------------------
(***************************************************************************)
(* ReusableBarrier of kernel/barrier.h, a client of Condition: sync() is   *)
(* called with no lock, and waits on newEpoch while the barrier's own      *)
(* epoch is the one in which it arrived.                                   *)
(***************************************************************************)
EXTENDS Condition

CONSTANTS Participants,  \* the threads that call sync()
          InitialCount,  \* the constructor's argument
          MaxRounds      \* bound: how often a thread calls sync()

CountAssumption == /\ Participants \subseteq Threads
                   /\ InitialCount \in Nat \ {0}
                   /\ MaxRounds \in Nat
                   /\ \E limit \in Limits : \A other \in Limits : other <= limit

VARIABLES count,    \* the threads still to arrive
          round,    \* the barrier's own epoch
          step,     \* step[t]: where t is in sync()
          turn,     \* turn[t]: the local t of sync()
          arrived   \* history: arrived[t] is the set of the epochs in which t was counted

barrier == <<count, round, step, turn, arrived>>
allVars == <<vars, barrier>>

\* notifyAll()
All == CHOOSE limit \in Limits : \A other \in Limits : other <= limit

BarrierInit == /\ Init
               /\ count = InitialCount
               /\ round = 0
               /\ step = [t \in Threads |-> "idle"]
               /\ turn = [t \in Threads |-> 0]
               /\ arrived = [t \in Threads |-> {}]

At(t, here, there) == step[t] = here /\ step' = [step EXCEPT ![t] = there]

-----------------------------------------------------------------------------
\* the_lock->lock()
Sync(t) == /\ At(t, "idle", "arriving")
           /\ Cardinality(arrived[t]) < MaxRounds
           /\ Enter(t)
           /\ UNCHANGED <<count, round, turn, arrived>>

\* count-- does not reach zero.
ArriveEarly(t) == /\ pc[t] = "inside"
                  /\ At(t, "arriving", "waiting")
                  /\ count > 1
                  /\ count' = count - 1
                  /\ turn' = [turn EXCEPT ![t] = round]
                  /\ arrived' = [arrived EXCEPT ![t] = @ \cup {round}]
                  /\ UNCHANGED <<vars, round>>

\* Mutant: one thread is notified instead of all.
ArriveLastNotifyOne(t) == /\ At(t, "arriving", "leaving")
                          /\ count = 1
                          /\ count' = InitialCount
                          /\ round' = round + 1
                          /\ turn' = [turn EXCEPT ![t] = round]
                          /\ arrived' = [arrived EXCEPT ![t] = @ \cup {round}]
                          /\ Notify(t, 1)

\* It does: a new epoch, and everybody is notified.
ArriveLast(t) == /\ At(t, "arriving", "leaving")
                 /\ count = 1
                 /\ count' = InitialCount
                 /\ round' = round + 1
                 /\ turn' = [turn EXCEPT ![t] = round]
                 /\ arrived' = [arrived EXCEPT ![t] = @ \cup {round}]
                 /\ Notify(t, All)

\* while (epoch <= t) newEpoch.wait()
KeepWaiting(t) == /\ step[t] = "waiting"
                  /\ round <= turn[t]
                  /\ Wait(t)
                  /\ UNCHANGED barrier

\* Mutant: an off-by-one in the comparison of the epochs.
StopWaitingEarly(t) == /\ pc[t] = "inside"
                       /\ At(t, "waiting", "leaving")
                       /\ round >= turn[t]
                       /\ UNCHANGED <<vars, count, round, turn, arrived>>

StopWaiting(t) == /\ pc[t] = "inside"
                  /\ At(t, "waiting", "leaving")
                  /\ round > turn[t]
                  /\ UNCHANGED <<vars, count, round, turn, arrived>>

\* the_lock->unlock()
SyncReturn(t) == /\ At(t, "leaving", "idle")
                 /\ Leave(t)
                 /\ UNCHANGED <<count, round, turn, arrived>>

\* The rest of a wait().
InWait(t) == Waiting(t) /\ UNCHANGED barrier

Body(t) == \/ ArriveEarly(t) \/ ArriveLast(t) \/ KeepWaiting(t) \/ StopWaiting(t)
           \/ SyncReturn(t) \/ InWait(t)

BarrierNext == \E t \in Participants : Sync(t) \/ Body(t)

BarrierSpec == BarrierInit /\ [][BarrierNext]_allVars

\* Threads execute sync() to its end, and every participant calls it again.
BarrierFairSpec == BarrierSpec /\ \A t \in Participants : WF_allVars(Sync(t)) /\ WF_allVars(Body(t))

-----------------------------------------------------------------------------
\* Those that were counted in an epoch.
CountedIn(e) == {t \in Threads : e \in arrived[t]}

(* Nobody is released from an epoch before InitialCount threads, all of    *)
(* them different, have been counted in it and in each one before.         *)
NobodyPassesEarly ==
  \A t \in Threads : step[t] = "leaving" =>
    \A e \in 0 .. turn[t] : Cardinality(CountedIn(e)) >= InitialCount

(* With as many participants as the barrier is made for, all of which come *)
(* back, everybody who waits gets out.                                     *)
EveryoneLeaves == \A t \in Participants : step[t] = "waiting" ~> step[t] = "idle"
=============================================================================
