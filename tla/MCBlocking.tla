----------------------------- MODULE MCBlocking -----------------------------
(* What blocks threads, one user at a time: the threads that lock and      *)
(* unlock a BlockingLock, in full detail; the producers and consumers of a *)
(* BoundedBuffer, whose semaphores are atomic; and those who use a         *)
(* condition variable, in any way that its lock allows or as participants  *)
(* of a ReusableBarrier.                                                   *)
EXTENDS BlockingLock

CONSTANTS Producers, Consumers, N, MaxPuts,
          Limits, MaxEpoch, Participants, InitialCount, MaxRounds

VARIABLES user,  \* "lock", "buffer", "anyone" or "barrier", the same for ever
          head, n, data, sem, blocked, bufferPc, item, puts, gets,
          monitorLock, epoch, queue, monitorPc, oldEpoch,
          missing, round, step, turn, arrived

Buffer == INSTANCE BoundedBuffer WITH pc <- bufferPc

ASSUME RingAssumption == Buffer!BufferAssumption

RB == INSTANCE ReusableBarrier WITH lock <- monitorLock, pc <- monitorPc, count <- missing

ASSUME MonitorAssumption == RB!ConditionAssumption /\ RB!CountAssumption

bufferVars == <<head, n, data, sem, blocked, bufferPc, item, puts, gets>>
barrierVars == <<monitorLock, epoch, queue, monitorPc, oldEpoch, missing, round, step, turn, arrived>>
all == <<user, vars, bufferVars, barrierVars>>

MCInit == /\ user \in {"lock", "buffer", "anyone", "barrier"}
          /\ Init /\ Buffer!Init /\ RB!BarrierInit

LockStep(A) == user = "lock" /\ A /\ UNCHANGED <<user, bufferVars, barrierVars>>
BufferStep(A) == user = "buffer" /\ A /\ UNCHANGED <<user, vars, barrierVars>>
BarrierStep(A) == user = "barrier" /\ A /\ UNCHANGED <<user, vars, bufferVars>>
Anyone == /\ user = "anyone" /\ RB!Next
          /\ UNCHANGED <<user, vars, bufferVars, missing, round, step, turn, arrived>>

MCNext == \/ LockStep(Next) \/ BufferStep(Buffer!Next)
          \/ BarrierStep(RB!BarrierNext) \/ Anyone

\* The fairness of LockSpec, of the buffer's FairSpec and of BarrierFairSpec.
MCSpec ==
  /\ MCInit /\ [][MCNext]_all
  /\ \A t \in Threads : WF_all(LockStep(Inside(t))) /\ WF_all(LockStep(CallUp(t)))
  /\ \A t \in Producers : WF_all(BufferStep(Buffer!Put(t)))
  /\ \A t \in Consumers : WF_all(BufferStep(Buffer!CallGet(t) \/ Buffer!Get(t)))
  /\ \A t \in Participants : /\ WF_all(BarrierStep(RB!Sync(t)))
                             /\ WF_all(BarrierStep(RB!Body(t)))

(* Items leave the buffer in the order in which they entered it, and none  *)
(* is invented, lost or read twice, whatever the threads' interleaving.    *)
FifoOrder == Buffer!FifoOrder

(* What is put is got in the end. *)
EveryItemIsGot == Buffer!EveryItemIsGot

(* Nobody is released from an epoch of the barrier before InitialCount     *)
(* threads, all different, have been counted in it and in each before it.  *)
NobodyPassesEarly == RB!NobodyPassesEarly

(* A condition variable loses no signal between wait()'s giving up the     *)
(* lock and the queue: it implements MesaMonitor.                          *)
ImplementsMonitor == RB!ImplementsMonitor

(* Everybody who waits at the barrier gets out. *)
EveryoneLeaves == RB!EveryoneLeaves
=============================================================================
