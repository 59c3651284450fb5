--------------------------- MODULE BlockingProofs ---------------------------
(***************************************************************************)
(* For any number of threads and units: the inductive invariant of         *)
(* Semaphore, that it implements SemaphoreSpec, and that a semaphore of    *)
(* one unit used with BlockingLock's discipline excludes.  For any number  *)
(* of producers, consumers and slots: that a BoundedBuffer is FIFO.        *)
(* For any number of threads and notifications: the inductive invariant of *)
(* Condition, and that it implements MesaMonitor, of which "no missed      *)
(* signals" is a part.  For any number of participants: that the reusable  *)
(* barrier uses a Condition as one may, and lets nobody pass early.        *)
(***************************************************************************)
EXTENDS MCBlocking, SequenceTheorems, FiniteSetTheorems, TLAPS

-----------------------------------------------------------------------------
(* The members of a queue (kernel/queue.h).                                *)

\* What is added is a member, and nothing else becomes one.
LEMMA AppendContains ==
  ASSUME NEW S, NEW members \in Seq(S), NEW e \in S, NEW t
  PROVE  Contains(Append(members, e), t) <=> Contains(members, t) \/ t = e
BY AppendProperties, LenProperties DEF Contains

LEMMA AppendNoRepeats ==
  ASSUME NEW S, NEW members \in Seq(S), NEW e \in S, NoRepeats(members), ~Contains(members, e)
  PROVE  NoRepeats(Append(members, e))
BY DEF Contains, NoRepeats

\* What is removed was a member once, and nothing else ceases to be one.
LEMMA TailContains ==
  ASSUME NEW S, NEW members \in Seq(S), members # << >>, NoRepeats(members), NEW t
  PROVE  /\ Contains(Tail(members), t) <=> Contains(members, t) /\ t # Head(members)
         /\ NoRepeats(Tail(members)) /\ Contains(members, Head(members))
         /\ Head(members) \in S /\ Tail(members) \in Seq(S)
<1>1. \A i \in DOMAIN members \ {1} : i - 1 \in DOMAIN Tail(members) /\ Tail(members)[i - 1] = members[i]
  OBVIOUS
<1>2. ASSUME Contains(members, t), t # Head(members) PROVE Contains(Tail(members), t)
  <2>1. PICK i \in 1 .. Len(members) : members[i] = t
    BY <1>2 DEF Contains
  <2>2. i \in DOMAIN members \ {1}
    BY <1>2, <2>1
  <2> QED BY <1>1, <2>1, <2>2 DEF Contains
<1>3. Contains(Tail(members), t) => Contains(members, t) /\ t # Head(members)
  BY DEF Contains, NoRepeats
<1> QED BY <1>2, <1>3 DEF Contains, NoRepeats

-----------------------------------------------------------------------------
\* The ISL is held at exactly these labels, "switching" among them.
LockInv == \A t \in Threads : pc[t] \in {"test", "switching", "give"} <=> lock = t

\* Nobody can add a unit between the test of count and the end of the switch.
SwitchInv == \A t \in Threads : pc[t] = "switching" => count = 0

NextInv == \A t \in Threads : pc[t] = "wake" => next[t] \in Threads

\* A thread in down() has room for the unit it gets.
CreditInv == \A t \in Threads :
  pc[t] \in {"down", "test", "switching", "asleep", "granted", "ready"} => has[t] < Credit

IInv == TypeOK /\ CreditInv /\ LockInv /\ SwitchInv /\ NextInv /\ NoIdleUnit /\ WokenOnce

-----------------------------------------------------------------------------
LEMMA InitIInv == Init => IInv
<1> SUFFICES ASSUME Init PROVE IInv
  OBVIOUS
<1>1. /\ << >> \in Seq(Threads) /\ \A t : ~Contains(<< >>, t)
      /\ NoRepeats(<< >>)
  BY DEF Contains, NoRepeats
<1>2. TypeOK
  BY <1>1, SemaphoreAssumption DEF Init, TypeOK, Labels
<1>3. CreditInv /\ LockInv /\ SwitchInv /\ NextInv /\ NoIdleUnit
  BY SemaphoreAssumption DEF Init, CreditInv, LockInv, SwitchInv, NextInv, NoIdleUnit
<1>4. WokenOnce
  BY <1>1 DEF Init, WokenOnce
<1>5. QED
  BY <1>2, <1>3, <1>4 DEF IInv

\* The steps that touch neither the queue nor a thread other than t.
LEMMA QuietStep ==
  ASSUME IInv, NEW t \in Threads, UNCHANGED <<waiting, next>>,
         NEW l \in Labels, pc' = [pc EXCEPT ![t] = l],
         pc[t] \notin {"asleep", "granted", "wake"},
         l \notin {"asleep", "granted", "wake"}
  PROVE  NextInv' /\ WokenOnce'
<1> USE DEF IInv
<1>1. \A u \in Threads : pc'[u] = IF u = t THEN l ELSE pc[u]
  BY DEF TypeOK
<1>2. NextInv'
  BY <1>1 DEF NextInv
<1>3. (\A u \in Threads : pc[u] = "wake" => pc[next[u]] = "granted")'
  BY <1>1 DEF NextInv, WokenOnce
<1>4. (\A u, v \in Threads : pc[u] = "wake" /\ pc[v] = "wake" /\ u # v => next[u] # next[v])'
  BY <1>1 DEF WokenOnce
<1>5. NoRepeats(waiting)'
  BY DEF WokenOnce
<1>6. (\A u \in Threads : pc[u] = "asleep" <=> Contains(waiting, u))'
  BY <1>1 DEF WokenOnce
<1>7. QED
  BY <1>2, <1>3, <1>4, <1>5, <1>6 DEF WokenOnce

LEMMA AcquireIInv ==
  ASSUME IInv, NEW t \in Threads, NEW from \in {"down", "up"},
         NEW to \in {"test", "give"}, to = "test" => from = "down", Acquire(t, from, to)
  PROVE  IInv'
<1> USE DEF IInv, Acquire, Goto
<1>1. TypeOK' /\ CreditInv'
  BY DEF TypeOK, CreditInv, Labels
<1>2. LockInv'
  BY SemaphoreAssumption DEF LockInv, TypeOK
<1>3. SwitchInv' /\ NoIdleUnit'
  BY DEF SwitchInv, NoIdleUnit, TypeOK
<1>4. NextInv' /\ WokenOnce'
  BY QuietStep DEF Labels
<1>5. QED
  BY <1>1, <1>2, <1>3, <1>4

LEMMA CallIInv ==
  ASSUME IInv, NEW t \in Threads, CallDown(t) \/ CallUp(t)
  PROVE  IInv'
<1> USE DEF IInv, CallDown, CallUp, Goto, Has
<1>1. has' \in [Threads -> (-Debt) .. Credit]
  BY SemaphoreAssumption DEF TypeOK
<1>2. TypeOK'
  BY <1>1 DEF TypeOK, Labels
<1>3. CreditInv'
  BY <1>1 DEF TypeOK, CreditInv
<1>4. LockInv'
  BY DEF LockInv, TypeOK
<1>5. SwitchInv' /\ NoIdleUnit'
  BY DEF SwitchInv, NoIdleUnit, TypeOK
<1>6. NextInv' /\ WokenOnce'
  BY QuietStep DEF Labels
<1>7. QED
  BY <1>2, <1>3, <1>4, <1>5, <1>6

LEMMA TestIInv ==
  ASSUME IInv, NEW t \in Threads, Decrement(t) \/ Block(t)
  PROVE  IInv'
<1> USE DEF IInv, Decrement, Block, Goto, Has
<1>1. has' \in [Threads -> (-Debt) .. Credit]
  <2>1. has[t] \in (-Debt) .. Credit /\ has[t] < Credit
    BY DEF TypeOK, CreditInv
  <2>2. has[t] + 1 \in (-Debt) .. Credit
    BY <2>1, SemaphoreAssumption
  <2>3. QED
    BY <2>2 DEF TypeOK
<1>2. TypeOK'
  <2>1. count' \in Nat
    BY DEF TypeOK
  <2>2. QED
    BY <1>1, <2>1 DEF TypeOK, Labels
<1>3. CreditInv'
  BY <1>1 DEF TypeOK, CreditInv
<1>4. LockInv'
  BY SemaphoreAssumption DEF LockInv, TypeOK
<1>5. SwitchInv' /\ NoIdleUnit'
  BY DEF SwitchInv, NoIdleUnit, TypeOK, LockInv
<1>6. NextInv' /\ WokenOnce'
  BY QuietStep DEF Labels
<1>7. QED
  BY <1>2, <1>3, <1>4, <1>5, <1>6

LEMMA IncrementIInv ==
  ASSUME IInv, NEW t \in Threads, Increment(t)
  PROVE  IInv'
<1> USE DEF IInv, Increment, Goto
<1>1. TypeOK' /\ CreditInv'
  BY DEF TypeOK, CreditInv, Labels
<1>2. LockInv'
  BY SemaphoreAssumption DEF LockInv, TypeOK
<1>3. SwitchInv'
  BY DEF SwitchInv, TypeOK, LockInv
<1>4. NoIdleUnit'
  BY DEF NoIdleUnit
<1>5. NextInv' /\ WokenOnce'
  BY QuietStep DEF Labels
<1>6. QED
  BY <1>1, <1>2, <1>3, <1>4, <1>5

\* The thread that goes to sleep is not in the queue, and no up() has added a
\* unit since it looked.
LEMMA SleepIInv ==
  ASSUME IInv, NEW t \in Threads, Sleep(t)
  PROVE  IInv'
<1> USE DEF IInv, Sleep, Goto
<1>1. /\ waiting' \in Seq(Threads)
      /\ \A u \in Threads : Contains(waiting', u) <=> Contains(waiting, u) \/ u = t
      /\ NoRepeats(waiting')
  <2>1. ~Contains(waiting, t)
    BY DEF WokenOnce
  <2>2. QED
    BY <2>1, AppendContains, AppendNoRepeats, AppendProperties DEF TypeOK, WokenOnce
<1>2. TypeOK' /\ CreditInv'
  BY <1>1 DEF TypeOK, CreditInv, Labels
<1>3. LockInv'
  BY SemaphoreAssumption DEF LockInv, TypeOK
<1>4. SwitchInv' /\ NoIdleUnit' /\ NextInv'
  BY DEF SwitchInv, NoIdleUnit, NextInv, TypeOK
<1>5. WokenOnce'
  <2>1. (\A u \in Threads : pc[u] = "asleep" <=> Contains(waiting, u))'
    BY <1>1 DEF WokenOnce, TypeOK
  <2>2. (\A u \in Threads : pc[u] = "wake" => pc[next[u]] = "granted")'
    BY DEF WokenOnce, NextInv, TypeOK
  <2>3. (\A u, v \in Threads : pc[u] = "wake" /\ pc[v] = "wake" /\ u # v => next[u] # next[v])'
    BY DEF WokenOnce, TypeOK
  <2>4. QED
    BY <1>1, <2>1, <2>2, <2>3 DEF WokenOnce
<1>6. QED
  BY <1>2, <1>3, <1>4, <1>5

LEMMA DownReturnIInv ==
  ASSUME IInv, NEW t \in Threads, DownReturn(t)
  PROVE  IInv'
<1> USE DEF IInv, DownReturn, Goto, Has
<1>1. has' \in [Threads -> (-Debt) .. Credit]
  BY SemaphoreAssumption DEF TypeOK, CreditInv
<1>2. TypeOK'
  BY <1>1 DEF TypeOK, Labels
<1>3. CreditInv' /\ LockInv' /\ SwitchInv' /\ NoIdleUnit'
  BY <1>1 DEF TypeOK, CreditInv, LockInv, SwitchInv, NoIdleUnit
<1>4. NextInv' /\ WokenOnce'
  BY QuietStep DEF Labels
<1>5. QED
  BY <1>2, <1>3, <1>4

\* The thread at the head leaves the queue, and nobody else has it.
LEMMA GrantIInv ==
  ASSUME IInv, NEW t \in Threads, Grant(t)
  PROVE  IInv'
<1> DEFINE h == Head(waiting)
<1> USE DEF IInv
<1>1. /\ h \in Threads /\ waiting' \in Seq(Threads)
      /\ \A u \in Threads : Contains(waiting', u) <=> Contains(waiting, u) /\ u # h
      /\ NoRepeats(waiting')
      /\ Contains(waiting, h)
  BY TailContains DEF TypeOK, WokenOnce, Grant
<1>2. pc[h] = "asleep" /\ h # t
  BY <1>1 DEF WokenOnce, Grant
<1> HIDE DEF h
<1>3. /\ pc' = [pc EXCEPT ![t] = "wake", ![h] = "granted"]
      /\ next' = [next EXCEPT ![t] = h]
  BY DEF h, Grant
<1>4. lock' = Nobody /\ count' = count /\ has' = has /\ pc[t] = "give" /\ waiting # << >>
  BY DEF Grant
<1>5. \A u \in Threads : /\ pc'[u] = IF u = h THEN "granted" ELSE IF u = t THEN "wake" ELSE pc[u]
                         /\ next'[u] = IF u = t THEN h ELSE next[u]
  BY <1>1, <1>2, <1>3 DEF TypeOK
<1>6. TypeOK'
  BY <1>1, <1>3, <1>4 DEF TypeOK, Labels
<1>7. CreditInv'
  BY <1>2, <1>4, <1>5 DEF CreditInv
<1>8. LockInv'
  BY <1>1, <1>2, <1>4, <1>5, SemaphoreAssumption DEF LockInv
<1>9. SwitchInv' /\ NextInv'
  BY <1>1, <1>4, <1>5 DEF SwitchInv, NextInv
<1>10. NoIdleUnit'
  BY <1>4 DEF NoIdleUnit
<1>11. WokenOnce'
  <2>1. (\A u \in Threads : pc[u] = "asleep" <=> Contains(waiting, u))'
    BY <1>1, <1>2, <1>4, <1>5 DEF WokenOnce
  <2>2. (\A u \in Threads : pc[u] = "wake" => pc[next[u]] = "granted")'
    BY <1>1, <1>2, <1>4, <1>5 DEF WokenOnce, NextInv
  <2>3. (\A u, v \in Threads : pc[u] = "wake" /\ pc[v] = "wake" /\ u # v => next[u] # next[v])'
    BY <1>1, <1>2, <1>4, <1>5 DEF WokenOnce
  <2>4. QED
    BY <1>1, <2>1, <2>2, <2>3 DEF WokenOnce
<1>12. QED
  BY <1>6, <1>7, <1>8, <1>9, <1>10, <1>11

LEMMA WakeIInv ==
  ASSUME IInv, NEW t \in Threads, Wake(t)
  PROVE  IInv'
<1> DEFINE woken == next[t]
<1> USE DEF IInv
<1>1. woken \in Threads /\ pc[woken] = "granted" /\ woken # t
  BY DEF NextInv, WokenOnce, Wake
<1>2. \A u \in Threads : u # t /\ pc[u] = "wake" => next[u] # woken
  BY DEF WokenOnce, Wake
<1> HIDE DEF woken
<1>3. /\ pc' = [pc EXCEPT ![t] = "out", ![woken] = "ready"]
      /\ next' = [next EXCEPT ![t] = Nobody]
  BY DEF woken, Wake
<1>4. lock' = lock /\ count' = count /\ has' = has /\ waiting' = waiting /\ pc[t] = "wake"
  BY DEF Wake
<1>5. \A u \in Threads : /\ pc'[u] = IF u = woken THEN "ready" ELSE IF u = t THEN "out" ELSE pc[u]
                         /\ u # t => next'[u] = next[u]
  BY <1>1, <1>3 DEF TypeOK
<1>6. TypeOK'
  BY <1>1, <1>3, <1>4 DEF TypeOK, Labels
<1>7. CreditInv' /\ LockInv'
  BY <1>1, <1>4, <1>5 DEF CreditInv, LockInv
<1>8. SwitchInv' /\ NextInv' /\ NoIdleUnit'
  BY <1>1, <1>4, <1>5 DEF SwitchInv, NextInv, NoIdleUnit
<1>9. WokenOnce'
  <2>1. (\A u \in Threads : pc[u] = "asleep" <=> Contains(waiting, u))'
    BY <1>1, <1>4, <1>5 DEF WokenOnce
  <2>2. (\A u \in Threads : pc[u] = "wake" => pc[next[u]] = "granted")'
    BY <1>1, <1>2, <1>4, <1>5 DEF WokenOnce, NextInv
  <2>3. (\A u, v \in Threads : pc[u] = "wake" /\ pc[v] = "wake" /\ u # v => next[u] # next[v])'
    BY <1>1, <1>4, <1>5 DEF WokenOnce
  <2>4. QED
    BY <1>4, <2>1, <2>2, <2>3 DEF WokenOnce
<1>10. QED
  BY <1>6, <1>7, <1>8, <1>9

LEMMA NextIInv == IInv /\ [Next]_vars => IInv'
<1> SUFFICES ASSUME IInv, [Next]_vars PROVE IInv'
  OBVIOUS
<1>1. CASE UNCHANGED vars
  BY <1>1 DEF vars, IInv, TypeOK, CreditInv, LockInv, SwitchInv, NextInv, NoIdleUnit, WokenOnce
<1>2. ASSUME NEW t \in Threads, CallDown(t) \/ CallUp(t) PROVE IInv'
  BY <1>2, CallIInv
<1>3. ASSUME NEW t \in Threads, DownLock(t) \/ UpLock(t) PROVE IInv'
  BY <1>3, AcquireIInv DEF DownLock, UpLock
<1>4. ASSUME NEW t \in Threads, Decrement(t) \/ Block(t) \/ Sleep(t) \/ DownReturn(t) PROVE IInv'
  BY <1>4, TestIInv, SleepIInv, DownReturnIInv
<1>5. ASSUME NEW t \in Threads, Increment(t) \/ Grant(t) \/ Wake(t) PROVE IInv'
  BY <1>5, IncrementIInv, GrantIInv, WakeIInv
<1>6. QED
  BY <1>1, <1>2, <1>3, <1>4, <1>5 DEF Next, Inside

THEOREM SpecIInv == Spec => []IInv
<1>1. QED
  BY InitIInv, NextIInv, PTL DEF Spec

-----------------------------------------------------------------------------
(* Every variable of the semaphore keeps its type; no thread ever has more *)
(* than Credit units, or is in debt for more than Debt.                    *)
THEOREM TypeCorrect == Spec => []TypeOK
<1>1. QED
  BY SpecIInv, PTL DEF IInv

(* down() and up() never leave a unit and a waiting thread side by side,   *)
(* because the ISL is kept from the test of count to the end of the        *)
(* context switch.                                                         *)
THEOREM UnitsNeverIdle == Spec => []NoIdleUnit
<1>1. QED
  BY SpecIInv, PTL DEF IInv

(* Every thread that blocks in down() is scheduled by exactly one up().    *)
THEOREM OneWakeUp == Spec => []WokenOnce
<1>1. QED
  BY SpecIInv, PTL DEF IInv

\* A step of the semaphore is an operation of SemaphoreSpec or invisible.
LEMMA StepSimulation == IInv /\ [Next]_vars => [Promise!Next]_<<count, waiting>>
<1> SUFFICES ASSUME IInv, [Next]_vars PROVE [Promise!Next]_<<count, waiting>>
  OBVIOUS
<1>1. CASE UNCHANGED vars
  BY <1>1 DEF vars
<1>2. ASSUME NEW t \in Threads,
             \/ CallDown(t) \/ DownLock(t) \/ Block(t) \/ DownReturn(t)
             \/ CallUp(t) \/ UpLock(t) \/ Wake(t)
      PROVE  UNCHANGED <<count, waiting>>
  BY <1>2 DEF CallDown, DownLock, Block, DownReturn, CallUp, UpLock, Wake, Acquire
<1>3. ASSUME NEW t \in Threads, Decrement(t) PROVE Promise!Take
  BY <1>3 DEF Decrement, Promise!Take
<1>4. ASSUME NEW t \in Threads, Sleep(t) PROVE Promise!Join(t)
  BY <1>4 DEF Sleep, Promise!Join, Promise!Contains, IInv, SwitchInv, WokenOnce, Contains
<1>5. ASSUME NEW t \in Threads, Increment(t) \/ Grant(t) PROVE Promise!Give
  BY <1>5 DEF Increment, Grant, Promise!Give
<1>6. QED
  BY <1>1, <1>2, <1>3, <1>4, <1>5 DEF Next, Inside, Promise!Next

(* Seen through count and waiting alone, the semaphore is the atomic,      *)
(* first-in first-out semaphore of SemaphoreSpec.                          *)
THEOREM SemaphoreImplementsSpec == Spec => ImplementsSpec
<1>1. Init => Promise!Init
  BY DEF Init, Promise!Init
<1>2. QED
  BY SpecIInv, StepSimulation, <1>1, PTL DEF Spec, ImplementsSpec, Promise!Spec

-----------------------------------------------------------------------------
(* With one unit and BlockingLock's discipline, the unit is in count or    *)
(* with one thread: one that has it, is being given it, or gives it back.  *)

Token(t) == has[t] = 1 \/ pc[t] \in {"granted", "ready", "up", "give"}

TokenInv == /\ \A t, u \in Threads : Token(t) /\ Token(u) => t = u
            /\ count > 0 => count = 1 /\ \A t \in Threads : ~Token(t)
            /\ \A t \in Threads : Holds(t) => pc[t] = "out"

LEMMA InitToken == Init => TokenInv
  BY LockDiscipline DEF Init, TokenInv, Token, Holds

LEMMA NextToken == IInv /\ TokenInv /\ [Next]_vars => TokenInv'
<1> SUFFICES ASSUME IInv, TokenInv, [Next]_vars PROVE TokenInv'
  OBVIOUS
<1> USE LockDiscipline DEF Goto, Has, TokenInv, Token, Holds
<1>t. TypeOK
  BY DEF IInv
<1>1. CASE UNCHANGED vars
  BY <1>1 DEF vars
<1>2. ASSUME NEW t \in Threads, CallDown(t) \/ CallUp(t) PROVE TokenInv'
  BY <1>2, <1>t DEF CallDown, CallUp, TypeOK
<1>3. ASSUME NEW t \in Threads, DownLock(t) \/ UpLock(t) PROVE TokenInv'
  BY <1>3, <1>t DEF DownLock, UpLock, Acquire, TypeOK
<1>4. ASSUME NEW t \in Threads, Decrement(t) PROVE TokenInv'
  BY <1>4, <1>t DEF Decrement, TypeOK
<1>5. ASSUME NEW t \in Threads, Block(t) \/ Sleep(t) PROVE TokenInv'
  BY <1>5, <1>t DEF Block, Sleep, TypeOK
<1>6. ASSUME NEW t \in Threads, DownReturn(t) PROVE TokenInv'
  BY <1>6, <1>t DEF DownReturn, TypeOK
<1>7. ASSUME NEW t \in Threads, Increment(t) PROVE TokenInv'
  BY <1>7, <1>t DEF Increment, TypeOK
<1>8. ASSUME NEW t \in Threads, Grant(t) PROVE TokenInv'
  <2> DEFINE h == Head(waiting)
  <2>1. h \in Threads /\ pc[h] = "asleep" /\ h # t
    <3>1. h \in Threads /\ Contains(waiting, h)
      BY <1>8, TailContains DEF Grant, IInv, TypeOK, WokenOnce
    <3>2. QED
      BY <1>8, <3>1 DEF IInv, WokenOnce, Grant
  <2>2. pc' = [pc EXCEPT ![t] = "wake", ![h] = "granted"]
    BY <1>8 DEF Grant
  <2>3. pc[t] = "give" /\ count' = count /\ has' = has
    BY <1>8 DEF Grant
  <2> HIDE DEF h
  <2>4. \A u \in Threads : pc'[u] = IF u = h THEN "granted" ELSE IF u = t THEN "wake" ELSE pc[u]
    BY <2>1, <2>2, <1>t DEF TypeOK
  <2>5. \A u \in Threads : Token(u)' => u = h
    BY <2>1, <2>3, <2>4
  <2>6. QED
    BY <2>1, <2>3, <2>4, <2>5
<1>9. ASSUME NEW t \in Threads, Wake(t) PROVE TokenInv'
  <2> DEFINE woken == next[t]
  <2>1. woken \in Threads /\ pc[woken] = "granted" /\ woken # t
    BY <1>9 DEF IInv, NextInv, WokenOnce, Wake
  <2>2. pc' = [pc EXCEPT ![t] = "out", ![woken] = "ready"]
    BY <1>9 DEF Wake
  <2>3. pc[t] = "wake" /\ count' = count /\ has' = has
    BY <1>9 DEF Wake
  <2> HIDE DEF woken
  <2>4. \A u \in Threads : pc'[u] = IF u = woken THEN "ready" ELSE IF u = t THEN "out" ELSE pc[u]
    BY <2>1, <2>2, <1>t DEF TypeOK
  <2>5. QED
    BY <2>1, <2>3, <2>4
<1>10. QED
  BY <1>1, <1>2, <1>3, <1>4, <1>5, <1>6, <1>7, <1>8, <1>9 DEF Next, Inside

(* A BlockingLock excludes, for any number of threads: two threads never   *)
(* are between the return of lock() and the call of unlock() together.     *)
THEOREM LockExcludes == Spec => []MutualExclusion
<1>1. TokenInv => MutualExclusion
  BY DEF TokenInv, Token, Holds, MutualExclusion
<1>2. QED
  BY SpecIInv, InitToken, NextToken, <1>1, PTL DEF Spec

-----------------------------------------------------------------------------
(* The bounded buffer, whose semaphores are those of SemaphoreSpec.        *)

Users == Producers \cup Consumers
Sems == {"nEmpty", "nFull", "lock"}
PutLabels == {"idle", "claim slot", "lock put", "store", "grow", "unlock put", "offer"}
GetLabels == {"idle", "claim item", "lock get", "fetch", "advance", "shrink", "unlock get",
              "release slot"}
Things == (Producers \X Nat) \cup {<<"none", 0>>}

\* Where a thread is that waits for a semaphore, or has just got its unit.
WaitLabels(s) == CASE s = "nEmpty" -> {"lock put"}
                   [] s = "nFull"  -> {"lock get"}
                   [] s = "lock"   -> {"store", "fetch"}

\* Where else a thread has a unit of a semaphore: the slots that are about to
\* be filled or have been emptied, the items that are about to be offered or
\* fetched, and the lock.
OwnLabels(s) ==
  CASE s = "nEmpty" -> {"store", "advance", "shrink", "unlock get", "release slot"}
    [] s = "nFull"  -> {"fetch", "grow", "unlock put", "offer"}
    [] s = "lock"   -> {"grow", "unlock put", "advance", "shrink", "unlock get"}

Holders(s) == {t \in Users : \/ bufferPc[t] \in OwnLabels(s)
                             \/ bufferPc[t] \in WaitLabels(s) /\ t \notin blocked}

Stored == Len(puts) - Len(gets)

SemType == [units : Nat, queue : Seq(Users)]

BufferTypeOK ==
  /\ head \in 0 .. (N - 1) /\ n \in Int
  /\ data \in [0 .. (N - 1) -> Things]
  /\ sem \in [Sems -> SemType]
  /\ blocked \subseteq Users
  /\ bufferPc \in [Users -> PutLabels \cup GetLabels]
  /\ \A t \in Producers : bufferPc[t] \in PutLabels
  /\ \A t \in Consumers : bufferPc[t] \in GetLabels
  /\ item \in [Users -> Things]
  /\ puts \in Seq(Things) /\ gets \in Seq(Things)

\* The blocked threads are those in the queues, each where its label says.
BlockedInv ==
  \A s \in Sems :
    /\ \A t \in Users : Contains(sem[s].queue, t) <=> t \in blocked /\ bufferPc[t] \in WaitLabels(s)
    /\ NoRepeats(sem[s].queue)

Units(s) == CASE s = "nEmpty" -> N - Stored [] s = "nFull" -> Stored [] s = "lock" -> 1

\* No unit is lost or made: each is counted, with a thread, or stands for an item.
UnitsInv ==
  \A s \in Sems : /\ IsFiniteSet(Holders(s))
                  /\ sem[s].units + Cardinality(Holders(s)) = Units(s)

Busy(labels) == \E t \in Users : bufferPc[t] \in labels

\* The members of the ring follow the history, but for the thread in between.
RingInv ==
  /\ n + (IF Busy({"grow"}) THEN 1 ELSE 0) = Stored + (IF Busy({"advance", "shrink"}) THEN 1 ELSE 0)
  /\ \A k \in 0 .. (Stored - 1) :
       data[(head + (IF Busy({"advance"}) THEN 1 ELSE 0) + k) % N] = puts[Len(gets) + 1 + k]
  /\ \A k \in 1 .. Len(gets) : gets[k] = puts[k]

BufferIInv == BufferTypeOK /\ BlockedInv /\ UnitsInv /\ RingInv

LEMMA RingIndex ==
  ASSUME NEW x \in Nat, x < 2 * N
  PROVE  x % N = (IF x < N THEN x ELSE x - N) /\ x % N \in 0 .. (N - 1)
  BY RingAssumption DEF Buffer!BufferAssumption

LEMMA RingApart ==
  ASSUME NEW h \in 0 .. (N - 1), NEW j \in Nat, NEW k \in Nat, j < k, k < N
  PROVE  (h + j) % N # (h + k) % N /\ (h + j) % N \in 0 .. (N - 1)
<1> USE RingAssumption DEF Buffer!BufferAssumption
<1> DEFINE x == h + j
           y == h + k
<1>1. x \in Nat /\ x < 2 * N /\ y \in Nat /\ y < 2 * N /\ x < y /\ y - x < N /\ h \in Nat
  OBVIOUS
<1> HIDE DEF x, y
<1>2. x % N = (IF x < N THEN x ELSE x - N) /\ x % N \in 0 .. (N - 1)
  BY <1>1, RingIndex
<1>3. y % N = (IF y < N THEN y ELSE y - N)
  BY <1>1, RingIndex
<1>4. x % N # y % N
  BY <1>1, <1>2, <1>3
<1> QED BY <1>2, <1>4 DEF x, y

LEMMA RingShift ==
  ASSUME NEW h \in 0 .. (N - 1), NEW k \in 0 .. (N - 1)
  PROVE  /\ (((h + 1) % N) + k) % N = (h + 1 + k) % N
         /\ (h + 1) % N \in 0 .. (N - 1)
<1> USE RingAssumption DEF Buffer!BufferAssumption
<1> DEFINE x == h + 1
           y == x + k
           z == (IF x < N THEN x ELSE x - N) + k
<1>1. x \in Nat /\ x < 2 * N /\ y \in Nat /\ y < 2 * N /\ z \in Nat /\ z < 2 * N
  OBVIOUS
<1>2. /\ x <= N /\ k < N /\ k \in Nat /\ y = x + k
      /\ z = (IF x < N THEN x ELSE x - N) + k
  OBVIOUS
<1> HIDE DEF x, y, z
<1>3. x % N = (IF x < N THEN x ELSE x - N) /\ x % N \in 0 .. (N - 1)
  BY <1>1, RingIndex
<1>4. y % N = (IF y < N THEN y ELSE y - N)
  BY <1>1, RingIndex
<1>5. z % N = (IF z < N THEN z ELSE z - N)
  BY <1>1, RingIndex
<1>6. z % N = y % N
  BY <1>1, <1>2, <1>4, <1>5
<1>7. ((x % N) + k) % N = y % N
  BY <1>2, <1>3, <1>6
<1> QED BY <1>3, <1>7 DEF x, y

LEMMA AtMostOne ==
  ASSUME NEW S, IsFiniteSet(S), Cardinality(S) <= 1, NEW x \in S, NEW y \in S
  PROVE  x = y
<1>1. ASSUME x # y PROVE FALSE
  <2> DEFINE T == S \ {x}
  <2>1. IsFiniteSet(T) /\ Cardinality(T) = Cardinality(S) - 1 /\ y \in T
    BY <1>1, FS_RemoveElement
  <2> HIDE DEF T
  <2>2. IsFiniteSet(T \ {y}) /\ Cardinality(T \ {y}) = Cardinality(T) - 1
    BY <2>1, FS_RemoveElement
  <2>3. Cardinality(T \ {y}) \in Nat /\ Cardinality(S) \in Nat
    BY <2>2, FS_CardinalityType
  <2> QED BY <2>1, <2>2, <2>3
<1> QED BY <1>1

LEMMA LabelsApart ==
  ASSUME NEW s \in Sems
  PROVE  /\ WaitLabels(s) \cap OwnLabels(s) = {}
         /\ \A r \in Sems \ {s} : WaitLabels(r) \cap WaitLabels(s) = {}
         /\ "idle" \notin WaitLabels(s) \cup OwnLabels(s)
  BY DEF Sems, WaitLabels, OwnLabels

\* The fields of a semaphore, and what a step makes of them.
LEMMA SemFields ==
  ASSUME NEW x \in SemType PROVE x.units \in Nat /\ x.queue \in Seq(Users)
  BY DEF SemType

LEMMA UnitTaken ==
  ASSUME NEW s \in Sems, sem \in [Sems -> SemType], sem[s].units > 0,
         sem' = [sem EXCEPT ![s].units = @ - 1]
  PROVE  /\ sem' \in [Sems -> SemType] /\ \A r \in Sems \ {s} : sem'[r] = sem[r]
         /\ sem'[s].units = sem[s].units - 1 /\ sem'[s].queue = sem[s].queue
<1>1. /\ sem' = [sem EXCEPT ![s] = [sem[s] EXCEPT !.units = sem[s].units - 1]]
      /\ sem[s] \in SemType
  OBVIOUS
<1>2. /\ [sem[s] EXCEPT !.units = sem[s].units - 1] \in SemType
      /\ [sem[s] EXCEPT !.units = sem[s].units - 1].units = sem[s].units - 1
      /\ [sem[s] EXCEPT !.units = sem[s].units - 1].queue = sem[s].queue
  BY <1>1 DEF SemType
<1> QED BY <1>1, <1>2

LEMMA UnitAdded ==
  ASSUME NEW s \in Sems, sem \in [Sems -> SemType],
         sem' = [sem EXCEPT ![s].units = @ + 1]
  PROVE  /\ sem' \in [Sems -> SemType] /\ \A r \in Sems \ {s} : sem'[r] = sem[r]
         /\ sem'[s].units = sem[s].units + 1 /\ sem'[s].queue = sem[s].queue
<1>1. /\ sem' = [sem EXCEPT ![s] = [sem[s] EXCEPT !.units = sem[s].units + 1]]
      /\ sem[s] \in SemType
  OBVIOUS
<1>2. /\ [sem[s] EXCEPT !.units = sem[s].units + 1] \in SemType
      /\ [sem[s] EXCEPT !.units = sem[s].units + 1].units = sem[s].units + 1
      /\ [sem[s] EXCEPT !.units = sem[s].units + 1].queue = sem[s].queue
  BY <1>1 DEF SemType
<1> QED BY <1>1, <1>2

LEMMA QueueJoined ==
  ASSUME NEW s \in Sems, sem \in [Sems -> SemType], NEW t \in Users,
         sem' = [sem EXCEPT ![s].queue = Append(@, t)]
  PROVE  /\ sem' \in [Sems -> SemType] /\ \A r \in Sems \ {s} : sem'[r] = sem[r]
         /\ sem'[s].units = sem[s].units /\ sem'[s].queue = Append(sem[s].queue, t)
<1> DEFINE q == Append(sem[s].queue, t)
<1>1. q \in Seq(Users)
  BY DEF SemType
<1>2. sem' = [sem EXCEPT ![s].queue = q]
  OBVIOUS
<1>3. q = Append(sem[s].queue, t)
  OBVIOUS
<1> HIDE DEF q
<1>4. /\ sem' \in [Sems -> SemType] /\ \A r \in Sems \ {s} : sem'[r] = sem[r]
      /\ sem'[s].units = sem[s].units /\ sem'[s].queue = q
  BY <1>1, <1>2 DEF SemType
<1> QED BY <1>3, <1>4

LEMMA QueueLeft ==
  ASSUME NEW s \in Sems, sem \in [Sems -> SemType], Tail(sem[s].queue) \in Seq(Users),
         sem' = [sem EXCEPT ![s].queue = Tail(@)]
  PROVE  /\ sem' \in [Sems -> SemType] /\ \A r \in Sems \ {s} : sem'[r] = sem[r]
         /\ sem'[s].units = sem[s].units /\ sem'[s].queue = Tail(sem[s].queue)
  BY DEF SemType

LEMMA InitBufferIInv == Buffer!Init => BufferIInv
<1> SUFFICES ASSUME Buffer!Init PROVE BufferIInv
  OBVIOUS
<1> USE RingAssumption DEF Buffer!BufferAssumption, Buffer!Init, Buffer!Slots, Buffer!Sems,
        Buffer!Users, Buffer!Empty, Users, Sems
<1>1. BufferTypeOK
  <2>1. sem \in [Sems -> SemType]
    BY DEF SemType
  <2> QED BY <2>1 DEF BufferTypeOK, PutLabels, GetLabels, Things
<1>2. \A t \in Users : bufferPc[t] = "idle"
  OBVIOUS
<1>3. BlockedInv
  BY <1>2 DEF BlockedInv, Contains, NoRepeats
<1>4. \A s \in Sems : Holders(s) = {}
  <2>1. \A s \in Sems : "idle" \notin WaitLabels(s) \cup OwnLabels(s)
    BY LabelsApart
  <2> QED BY <1>2, <2>1 DEF Holders
<1>5. Stored = 0
  BY DEF Stored
<1>6. UnitsInv
  <2>1. sem["nEmpty"].units = N /\ sem["nFull"].units = 0 /\ sem["lock"].units = 1
    OBVIOUS
  <2>2. \A s \in Sems : IsFiniteSet(Holders(s)) /\ Cardinality(Holders(s)) = 0
    BY <1>4, FS_EmptySet
  <2> QED BY <1>5, <2>1, <2>2 DEF UnitsInv, Units
<1>7. RingInv
  <2>1. ~Busy({"grow"}) /\ ~Busy({"advance", "shrink"}) /\ n = 0 /\ gets = << >>
    BY <1>2 DEF Busy
  <2> QED BY <1>5, <2>1 DEF RingInv
<1> QED BY <1>1, <1>3, <1>6, <1>7 DEF BufferIInv

-----------------------------------------------------------------------------
\* down(): a unit is taken, or the thread waits where it will have one.
LEMMA DownStep ==
  ASSUME BufferTypeOK, BlockedInv, UnitsInv, NEW s \in Sems, NEW t \in Users,
         NEW here, NEW there \in WaitLabels(s), Buffer!Down(s, t, here, there),
         there \in IF t \in Producers THEN PutLabels ELSE GetLabels,
         here \notin WaitLabels(s) \cup OwnLabels(s),
         \A r \in Sems \ {s} : here \in WaitLabels(r) \cup OwnLabels(r) <=> there \in OwnLabels(r)
  PROVE  BufferTypeOK' /\ BlockedInv' /\ UnitsInv'
<1> USE RingAssumption DEF Buffer!BufferAssumption
<1>1. /\ bufferPc[t] = here /\ t \notin blocked /\ bufferPc' = [bufferPc EXCEPT ![t] = there]
      /\ UNCHANGED <<head, n, data, item, puts, gets>>
      /\ IF sem[s].units > 0
         THEN /\ sem' = [sem EXCEPT ![s].units = @ - 1]
              /\ blocked' = blocked
         ELSE /\ sem' = [sem EXCEPT ![s].queue = Append(@, t)]
              /\ blocked' = blocked \cup {t}
  BY DEF Buffer!Down, Buffer!At, Buffer!ring, Buffer!history
<1>2. /\ bufferPc \in [Users -> PutLabels \cup GetLabels]
      /\ sem \in [Sems -> SemType]
      /\ blocked \subseteq Users
      /\ \A u \in Users : u \in Producers => bufferPc[u] \in PutLabels
      /\ \A u \in Users : u \in Consumers => bufferPc[u] \in GetLabels
  BY DEF BufferTypeOK, Users
<1>3. \A u \in Users : bufferPc'[u] = IF u = t THEN there ELSE bufferPc[u]
  BY <1>1, <1>2
<1>4. \A r \in Sems \ {s} : there \notin WaitLabels(r)
  BY LabelsApart
<1>5. \A r \in Sems \ {s} : Holders(r)' = Holders(r)
  BY <1>1, <1>3, <1>4 DEF Holders
<1>6. \A r \in Sems \ {s} : sem'[r] = sem[r]
  BY <1>1, <1>2
<1>7. t \notin Holders(s) /\ ~Contains(sem[s].queue, t)
  BY <1>1 DEF Holders, BlockedInv
<1>8. \A r : Units(r)' = Units(r)
  BY <1>1 DEF Stored, Units
<1>9. /\ bufferPc' \in [Users -> PutLabels \cup GetLabels]
      /\ \A u \in Producers : bufferPc'[u] \in PutLabels
      /\ \A u \in Consumers : bufferPc'[u] \in GetLabels
  BY <1>1, <1>2, <1>3 DEF Users
<1>10. CASE sem[s].units > 0
  <2>1. /\ sem'[s].units = sem[s].units - 1 /\ sem'[s].queue = sem[s].queue
        /\ sem' \in [Sems -> SemType] /\ blocked' = blocked
    BY <1>1, <1>2, <1>10, UnitTaken
  <2>2. BufferTypeOK'
    BY <1>1, <1>9, <2>1 DEF BufferTypeOK
  <2>3. BlockedInv'
    <3>1. \A r \in Sems : sem'[r].queue = sem[r].queue
      BY <1>6, <2>1
    <3>2. \A r \in Sems, u \in Users : u \in blocked' /\ bufferPc'[u] \in WaitLabels(r)
                                       <=> u \in blocked /\ bufferPc[u] \in WaitLabels(r)
      BY <1>1, <1>3, <2>1
    <3> QED BY <3>1, <3>2 DEF BlockedInv
  <2>4. Holders(s)' = Holders(s) \cup {t}
    BY <1>3, <1>1, <2>1 DEF Holders
  <2>5. IsFiniteSet(Holders(s)') /\ Cardinality(Holders(s)') = Cardinality(Holders(s)) + 1
    BY <1>7, <2>4, FS_AddElement DEF UnitsInv
  <2>6. UnitsInv'
    <3>1. sem[s].units \in Nat /\ Cardinality(Holders(s)) \in Nat
      BY <1>2, SemFields, FS_CardinalityType DEF UnitsInv
    <3>2. sem'[s].units + Cardinality(Holders(s)') = sem[s].units + Cardinality(Holders(s))
      BY <1>10, <2>1, <2>5, <3>1
    <3> QED BY <1>5, <1>6, <1>8, <2>5, <3>2 DEF UnitsInv
  <2> QED BY <2>2, <2>3, <2>6
<1>11. CASE ~(sem[s].units > 0)
  <2>1. /\ sem'[s].units = sem[s].units /\ sem'[s].queue = Append(sem[s].queue, t)
        /\ sem' \in [Sems -> SemType] /\ blocked' = blocked \cup {t}
    BY <1>1, <1>2, <1>11, QueueJoined
  <2>2. BufferTypeOK'
    BY <1>1, <1>9, <2>1, <1>2 DEF BufferTypeOK
  <2>3. BlockedInv'
    <3>1. ASSUME NEW r \in Sems
          PROVE  /\ \A u \in Users : Contains(sem'[r].queue, u)
                                     <=> u \in blocked' /\ bufferPc'[u] \in WaitLabels(r)
                 /\ NoRepeats(sem'[r].queue)
      <4>1. CASE r = s
        <5>1. sem[s].queue \in Seq(Users)
          BY <1>2, SemFields
        <5>2. \A u : Contains(sem'[s].queue, u) <=> Contains(sem[s].queue, u) \/ u = t
          BY <2>1, <5>1, AppendContains
        <5>3. NoRepeats(sem'[s].queue)
          BY <1>7, <2>1, <5>1, AppendNoRepeats DEF BlockedInv
        <5> QED BY <1>1, <1>3, <2>1, <4>1, <5>2, <5>3 DEF BlockedInv
      <4>2. CASE r # s
        BY <1>1, <1>3, <1>4, <1>6, <2>1, <4>2 DEF BlockedInv
      <4> QED BY <4>1, <4>2
    <3> QED BY <3>1 DEF BlockedInv
  <2>4. Holders(s)' = Holders(s)
    <3>1. there \notin OwnLabels(s)
      BY LabelsApart
    <3> QED BY <1>1, <1>3, <2>1, <3>1 DEF Holders
  <2>5. UnitsInv'
    BY <1>5, <1>6, <1>8, <2>1, <2>4 DEF UnitsInv
  <2> QED BY <2>2, <2>3, <2>5
<1> QED BY <1>10, <1>11

\* up(): a unit is added, or the thread that waits for the longest time has it.
LEMMA UpStep ==
  ASSUME BufferTypeOK, BlockedInv, UnitsInv, NEW s \in Sems, NEW t \in Users,
         NEW here \in OwnLabels(s), NEW there, Buffer!Up(s, t, here, there),
         there \in IF t \in Producers THEN PutLabels ELSE GetLabels,
         \A r \in Sems : {here, there} \cap WaitLabels(r) = {},
         there \notin OwnLabels(s),
         \A r \in Sems \ {s} : here \in OwnLabels(r) <=> there \in OwnLabels(r)
  PROVE  BufferTypeOK' /\ BlockedInv' /\ UnitsInv'
<1> USE RingAssumption DEF Buffer!BufferAssumption
<1>1. /\ bufferPc[t] = here /\ t \notin blocked /\ bufferPc' = [bufferPc EXCEPT ![t] = there]
      /\ UNCHANGED <<head, n, data, item, puts, gets>>
      /\ IF sem[s].queue = << >>
         THEN /\ sem' = [sem EXCEPT ![s].units = @ + 1]
              /\ blocked' = blocked
         ELSE /\ sem' = [sem EXCEPT ![s].queue = Tail(@)]
              /\ blocked' = blocked \ {Head(sem[s].queue)}
  BY DEF Buffer!Up, Buffer!At, Buffer!ring, Buffer!history
<1>2. /\ bufferPc \in [Users -> PutLabels \cup GetLabels]
      /\ sem \in [Sems -> SemType]
      /\ blocked \subseteq Users
      /\ \A u \in Users : u \in Producers => bufferPc[u] \in PutLabels
      /\ \A u \in Users : u \in Consumers => bufferPc[u] \in GetLabels
  BY DEF BufferTypeOK, Users
<1>3. \A u \in Users : bufferPc'[u] = IF u = t THEN there ELSE bufferPc[u]
  BY <1>1, <1>2
<1>4. \A r \in Sems \ {s} : sem'[r] = sem[r]
  BY <1>1, <1>2
<1>5. \A r : Units(r)' = Units(r)
  BY <1>1 DEF Stored, Units
<1>6. /\ bufferPc' \in [Users -> PutLabels \cup GetLabels]
      /\ \A u \in Producers : bufferPc'[u] \in PutLabels
      /\ \A u \in Consumers : bufferPc'[u] \in GetLabels
  BY <1>1, <1>2, <1>3 DEF Users
<1>7. t \in Holders(s)
  BY <1>1 DEF Holders
<1>8. IsFiniteSet(Holders(s) \ {t}) /\ Cardinality(Holders(s) \ {t}) = Cardinality(Holders(s)) - 1
  BY <1>7, FS_RemoveElement DEF UnitsInv
<1>9. CASE sem[s].queue = << >>
  <2>1. /\ sem'[s].units = sem[s].units + 1 /\ sem'[s].queue = sem[s].queue
        /\ sem' \in [Sems -> SemType] /\ blocked' = blocked
    BY <1>1, <1>2, <1>9, UnitAdded
  <2>2. BufferTypeOK'
    BY <1>1, <1>6, <2>1 DEF BufferTypeOK
  <2>3. BlockedInv'
    <3>1. \A r \in Sems : sem'[r].queue = sem[r].queue
      BY <1>4, <2>1
    <3>2. \A r \in Sems, u \in Users : u \in blocked' /\ bufferPc'[u] \in WaitLabels(r)
                                       <=> u \in blocked /\ bufferPc[u] \in WaitLabels(r)
      BY <1>1, <1>3, <2>1
    <3> QED BY <3>1, <3>2 DEF BlockedInv
  <2>4. Holders(s)' = Holders(s) \ {t}
    BY <1>3, <2>1 DEF Holders
  <2>5. \A r \in Sems \ {s} : Holders(r)' = Holders(r)
    BY <1>1, <1>3, <2>1 DEF Holders
  <2>6. UnitsInv'
    <3>1. sem[s].units \in Nat /\ Cardinality(Holders(s)) \in Nat
      BY <1>2, SemFields, FS_CardinalityType DEF UnitsInv
    <3>2. sem'[s].units + Cardinality(Holders(s)') = sem[s].units + Cardinality(Holders(s))
      BY <1>8, <2>1, <2>4, <3>1
    <3>3. IsFiniteSet(Holders(s)')
      BY <1>8, <2>4
    <3> QED BY <1>4, <1>5, <2>5, <3>2, <3>3 DEF UnitsInv
  <2> QED BY <2>2, <2>3, <2>6
<1>10. CASE sem[s].queue # << >>
  <2> DEFINE h == Head(sem[s].queue)
  <2>1. /\ h \in Users /\ Contains(sem[s].queue, h) /\ Tail(sem[s].queue) \in Seq(Users)
        /\ NoRepeats(Tail(sem[s].queue))
        /\ \A u : Contains(Tail(sem[s].queue), u) <=> Contains(sem[s].queue, u) /\ u # h
    <3>1. sem[s].queue \in Seq(Users) /\ NoRepeats(sem[s].queue)
      BY <1>2, SemFields DEF BlockedInv
    <3> QED BY <1>10, <3>1, TailContains
  <2>2. /\ sem'[s].units = sem[s].units /\ sem'[s].queue = Tail(sem[s].queue)
        /\ sem' \in [Sems -> SemType] /\ blocked' = blocked \ {h}
    BY <1>1, <1>2, <1>10, <2>1, QueueLeft
  <2> HIDE DEF h
  <2>3. h \in blocked /\ bufferPc[h] \in WaitLabels(s) /\ h # t
    BY <1>1, <2>1 DEF BlockedInv
  <2>4. BufferTypeOK'
    BY <1>1, <1>6, <2>2, <1>2 DEF BufferTypeOK
  <2>5. \A r \in Sems \ {s} : bufferPc[h] \notin WaitLabels(r)
    BY <2>3, LabelsApart
  <2>6. BlockedInv'
    <3>1. ASSUME NEW r \in Sems
          PROVE  /\ \A u \in Users : Contains(sem'[r].queue, u)
                                     <=> u \in blocked' /\ bufferPc'[u] \in WaitLabels(r)
                 /\ NoRepeats(sem'[r].queue)
      <4>1. CASE r = s
        BY <1>1, <1>3, <2>1, <2>2, <2>3, <4>1 DEF BlockedInv
      <4>2. CASE r # s
        BY <1>1, <1>3, <1>4, <2>2, <2>5, <4>2 DEF BlockedInv
      <4> QED BY <4>1, <4>2
    <3> QED BY <3>1 DEF BlockedInv
  <2>7. bufferPc[h] \notin OwnLabels(s)
    BY <2>3, LabelsApart
  <2>8. Holders(s)' = (Holders(s) \ {t}) \cup {h} /\ h \notin Holders(s)
    BY <1>3, <2>1, <2>2, <2>3, <2>7 DEF Holders
  <2>9. \A r \in Sems \ {s} : Holders(r)' = Holders(r)
    BY <1>1, <1>3, <2>2, <2>5 DEF Holders
  <2>10. IsFiniteSet(Holders(s)') /\ Cardinality(Holders(s)') = Cardinality(Holders(s))
    <3> DEFINE T == Holders(s) \ {t}
    <3>1. IsFiniteSet(T) /\ h \notin T /\ Holders(s)' = T \cup {h}
      BY <1>8, <2>8
    <3>2. Cardinality(T) = Cardinality(Holders(s)) - 1
      BY <1>8
    <3>3. Cardinality(Holders(s)) \in Nat
      BY FS_CardinalityType DEF UnitsInv
    <3> HIDE DEF T
    <3>4. IsFiniteSet(T \cup {h}) /\ Cardinality(T \cup {h}) = Cardinality(T) + 1
      BY <3>1, FS_AddElement
    <3> QED BY <3>1, <3>2, <3>3, <3>4
  <2>11. UnitsInv'
    BY <1>4, <1>5, <2>2, <2>9, <2>10 DEF UnitsInv
  <2> QED BY <2>4, <2>6, <2>11
<1> QED BY <1>9, <1>10

\* The ring does not notice a step between two labels at which it is whole.
LEMMA RingUntouched ==
  ASSUME BufferTypeOK, RingInv, NEW t \in Users, UNCHANGED <<head, n, data, puts, gets>>,
         NEW there, bufferPc' = [bufferPc EXCEPT ![t] = there],
         {bufferPc[t], there} \cap {"grow", "advance", "shrink"} = {}
  PROVE  RingInv'
<1>1. \A u \in Users : /\ bufferPc'[u] = "grow" <=> bufferPc[u] = "grow"
                       /\ bufferPc'[u] = "advance" <=> bufferPc[u] = "advance"
                       /\ bufferPc'[u] = "shrink" <=> bufferPc[u] = "shrink"
  BY DEF BufferTypeOK
<1>2. /\ Busy({"grow"})' <=> Busy({"grow"})
      /\ Busy({"advance"})' <=> Busy({"advance"})
      /\ Busy({"advance", "shrink"})' <=> Busy({"advance", "shrink"})
  BY <1>1 DEF Busy
<1>3. Stored' = Stored
  BY DEF Stored
<1> QED BY <1>2, <1>3 DEF RingInv

\* The calls.
LEMMA CallStep ==
  ASSUME BufferIInv, NEW t \in Users, NEW there \in {"claim slot", "claim item"},
         there \in IF t \in Producers THEN PutLabels ELSE GetLabels,
         bufferPc[t] = "idle", bufferPc' = [bufferPc EXCEPT ![t] = there],
         UNCHANGED <<head, n, data, sem, blocked, puts, gets>>,
         item' \in [Users -> Things]
  PROVE  BufferIInv'
<1> USE RingAssumption DEF Buffer!BufferAssumption, BufferIInv
<1>1. BufferTypeOK'
  BY DEF BufferTypeOK, PutLabels, GetLabels, Users
<1>2. \A s \in Sems : {"idle", "claim slot", "claim item"} \cap (WaitLabels(s) \cup OwnLabels(s)) = {}
  BY DEF Sems, WaitLabels, OwnLabels
<1>3. \A u \in Users : bufferPc'[u] = IF u = t THEN there ELSE bufferPc[u]
  BY DEF BufferTypeOK
<1>4. BlockedInv'
  BY <1>2, <1>3 DEF BlockedInv
<1>5. UnitsInv'
  <2>1. \A s \in Sems : Holders(s)' = Holders(s)
    BY <1>2, <1>3 DEF Holders
  <2>2. \A s : Units(s)' = Units(s)
    BY DEF Units, Stored
  <2> QED BY <2>1, <2>2 DEF UnitsInv
<1>6. RingInv'
  BY RingUntouched
<1> QED BY <1>1, <1>4, <1>5, <1>6

LEMMA NextItem ==
  ASSUME NEW t \in Producers, NEW x \in Things PROVE <<t, x[2] + 1>> \in Things
<1>1. x[2] \in Nat
  <2>1. CASE x = <<"none", 0>>
    BY <2>1
  <2>2. CASE x \in Producers \X Nat
    BY <2>2
  <2> QED BY <2>1, <2>2 DEF Things
<1>2. x[2] + 1 \in Nat
  BY <1>1
<1> QED BY <1>2 DEF Things

LEMMA CallBufferIInv ==
  ASSUME BufferIInv,
         \/ \E t \in Producers : Buffer!CallPut(t)
         \/ \E t \in Consumers : Buffer!CallGet(t)
  PROVE  BufferIInv'
<1> USE RingAssumption DEF Buffer!BufferAssumption, Buffer!At, Buffer!ring, Buffer!history
<1>1. ASSUME NEW t \in Producers, Buffer!CallPut(t) PROVE BufferIInv'
  <2> USE <1>1 DEF Buffer!CallPut
  <2>1. item \in [Users -> Things] /\ t \in Users /\ item[t] \in Things
    BY DEF BufferIInv, BufferTypeOK, Users
  <2>2. <<t, item[t][2] + 1>> \in Things
    BY <2>1, NextItem
  <2>3. item' \in [Users -> Things]
    BY <2>1, <2>2
  <2> QED BY <2>1, <2>3, CallStep DEF PutLabels
<1>2. ASSUME NEW t \in Consumers, Buffer!CallGet(t) PROVE BufferIInv'
  <2> USE <1>2 DEF Buffer!CallGet
  <2>1. item' \in [Users -> Things] /\ t \in Users /\ t \notin Producers
    BY DEF BufferIInv, BufferTypeOK, Users
  <2> QED BY <2>1, CallStep DEF GetLabels
<1> QED BY <1>1, <1>2

LEMMA DownBufferIInv ==
  ASSUME BufferIInv,
         \/ \E t \in Producers : Buffer!ClaimSlot(t) \/ Buffer!LockPut(t)
         \/ \E t \in Consumers : Buffer!ClaimItem(t) \/ Buffer!LockGet(t)
  PROVE  BufferIInv'
<1> USE RingAssumption DEF Buffer!BufferAssumption, BufferIInv
<1>1. PICK t \in Users, s \in Sems,
           here \in PutLabels \cup GetLabels, there \in PutLabels \cup GetLabels :
        /\ Buffer!Down(s, t, here, there)
        /\ \/ t \in Producers /\ s = "nEmpty" /\ here = "claim slot" /\ there = "lock put"
           \/ t \in Producers /\ s = "lock" /\ here = "lock put" /\ there = "store"
           \/ t \in Consumers /\ s = "nFull" /\ here = "claim item" /\ there = "lock get"
           \/ t \in Consumers /\ s = "lock" /\ here = "lock get" /\ there = "fetch"
  BY DEF Buffer!ClaimSlot, Buffer!LockPut, Buffer!ClaimItem, Buffer!LockGet, Users, Sems,
         PutLabels, GetLabels
<1>2. there \in IF t \in Producers THEN PutLabels ELSE GetLabels
  BY <1>1 DEF PutLabels, GetLabels
<1>3. there \in WaitLabels(s) /\ here \notin WaitLabels(s) \cup OwnLabels(s)
  BY <1>1 DEF WaitLabels, OwnLabels
<1>4. \A r \in Sems \ {s} : here \in WaitLabels(r) \cup OwnLabels(r) <=> there \in OwnLabels(r)
  BY <1>1 DEF Sems, WaitLabels, OwnLabels
<1>5. BufferTypeOK' /\ BlockedInv' /\ UnitsInv'
  BY <1>1, <1>2, <1>3, <1>4, DownStep
<1>6. /\ bufferPc[t] = here /\ bufferPc' = [bufferPc EXCEPT ![t] = there]
      /\ UNCHANGED <<head, n, data, puts, gets>>
  BY <1>1 DEF Buffer!Down, Buffer!At, Buffer!ring, Buffer!history
<1>7. RingInv'
  BY <1>1, <1>6, RingUntouched
<1> QED BY <1>5, <1>7

LEMMA UpBufferIInv ==
  ASSUME BufferIInv,
         \/ \E t \in Producers : Buffer!UnlockPut(t) \/ Buffer!Offer(t)
         \/ \E t \in Consumers : Buffer!UnlockGet(t) \/ Buffer!ReleaseSlot(t)
  PROVE  BufferIInv'
<1> USE RingAssumption DEF Buffer!BufferAssumption, BufferIInv
<1>1. PICK t \in Users, s \in Sems,
           here \in PutLabels \cup GetLabels, there \in PutLabels \cup GetLabels :
        /\ Buffer!Up(s, t, here, there)
        /\ \/ t \in Producers /\ s = "lock" /\ here = "unlock put" /\ there = "offer"
           \/ t \in Producers /\ s = "nFull" /\ here = "offer" /\ there = "idle"
           \/ t \in Consumers /\ s = "lock" /\ here = "unlock get" /\ there = "release slot"
           \/ t \in Consumers /\ s = "nEmpty" /\ here = "release slot" /\ there = "idle"
  BY DEF Buffer!UnlockPut, Buffer!Offer, Buffer!UnlockGet, Buffer!ReleaseSlot, Users, Sems,
         PutLabels, GetLabels
<1>2. there \in IF t \in Producers THEN PutLabels ELSE GetLabels
  BY <1>1 DEF PutLabels, GetLabels
<1>3. here \in OwnLabels(s) /\ there \notin OwnLabels(s)
  BY <1>1 DEF OwnLabels
<1>4. /\ \A r \in Sems : {here, there} \cap WaitLabels(r) = {}
      /\ \A r \in Sems \ {s} : here \in OwnLabels(r) <=> there \in OwnLabels(r)
  BY <1>1 DEF Sems, WaitLabels, OwnLabels
<1>5. BufferTypeOK' /\ BlockedInv' /\ UnitsInv'
  BY <1>1, <1>2, <1>3, <1>4, UpStep
<1>6. /\ bufferPc[t] = here /\ bufferPc' = [bufferPc EXCEPT ![t] = there]
      /\ UNCHANGED <<head, n, data, puts, gets>>
  BY <1>1 DEF Buffer!Up, Buffer!At, Buffer!ring, Buffer!history
<1>7. RingInv'
  BY <1>1, <1>6, RingUntouched
<1> QED BY <1>5, <1>7

-----------------------------------------------------------------------------
\* A step of the thread that has the lock: it is alone.
LEMMA InsideStep ==
  ASSUME BufferTypeOK, BlockedInv, UnitsInv, NEW t \in Users, NEW here, NEW there,
         Buffer!At(t, here, there), UNCHANGED <<sem, blocked>>,
         here \in OwnLabels("lock") \cup WaitLabels("lock"), there \in OwnLabels("lock"),
         there \in IF t \in Producers THEN PutLabels ELSE GetLabels
  PROVE  /\ /\ bufferPc' \in [Users -> PutLabels \cup GetLabels]
            /\ \A u \in Producers : bufferPc'[u] \in PutLabels
            /\ \A u \in Consumers : bufferPc'[u] \in GetLabels
         /\ BlockedInv'
         /\ \A L \in SUBSET OwnLabels("lock") :
           (Busy(L) <=> here \in L) /\ (Busy(L)' <=> there \in L)
         /\ \A s \in Sems : Holders(s)' = IF there \in OwnLabels(s) THEN Holders(s) \cup {t}
                                                                 ELSE Holders(s) \ {t}
         /\ \A s \in Sems : here \in OwnLabels(s) => t \in Holders(s)
         /\ \A s \in Sems : t \in Holders(s) => here \in OwnLabels(s) \/ s = "lock"
         /\ t \in Holders("lock")
<1> USE RingAssumption DEF Buffer!BufferAssumption
<1>1. /\ bufferPc[t] = here /\ t \notin blocked
      /\ bufferPc \in [Users -> PutLabels \cup GetLabels]
      /\ bufferPc' = [bufferPc EXCEPT ![t] = there]
      /\ \A u \in Users : u \in Producers => bufferPc[u] \in PutLabels
      /\ \A u \in Users : u \in Consumers => bufferPc[u] \in GetLabels
  BY DEF Buffer!At, BufferTypeOK, Users
<1>2. \A u \in Users : bufferPc'[u] = IF u = t THEN there ELSE bufferPc[u]
  BY <1>1
<1>3. there \in PutLabels \cup GetLabels
  OBVIOUS
<1>4. /\ bufferPc' \in [Users -> PutLabels \cup GetLabels]
      /\ \A u \in Producers : bufferPc'[u] \in PutLabels
      /\ \A u \in Consumers : bufferPc'[u] \in GetLabels
  BY <1>1, <1>2, <1>3 DEF Users
<1>5. \A s \in Sems : there \notin WaitLabels(s)
  BY DEF Sems, WaitLabels, OwnLabels
<1>6. BlockedInv'
  BY <1>1, <1>2, <1>5 DEF BlockedInv
<1>7. "lock" \in Sems /\ t \in Holders("lock")
  BY <1>1 DEF Sems, Holders
<1>8. ASSUME NEW u \in Users, u # t PROVE bufferPc[u] \notin OwnLabels("lock")
  <2>1. sem["lock"].units \in Nat
    BY <1>7, SemFields DEF BufferTypeOK
  <2>2. IsFiniteSet(Holders("lock")) /\ sem["lock"].units + Cardinality(Holders("lock")) = 1
    BY <1>7 DEF UnitsInv, Units
  <2>3. Cardinality(Holders("lock")) \in Nat
    BY <2>2, FS_CardinalityType
  <2>4. Cardinality(Holders("lock")) <= 1
    BY <2>1, <2>2, <2>3
  <2>5. u \notin Holders("lock")
    BY <1>7, <1>8, <2>2, <2>4, AtMostOne
  <2> QED BY <2>5 DEF Holders
<1>9. \A L \in SUBSET OwnLabels("lock") :
           (Busy(L) <=> here \in L) /\ (Busy(L)' <=> there \in L)
  BY <1>1, <1>2, <1>8 DEF Busy
<1>10. \A s \in Sems : Holders(s)' = IF there \in OwnLabels(s) THEN Holders(s) \cup {t}
                                                            ELSE Holders(s) \ {t}
  BY <1>2, <1>5 DEF Holders
<1>11. \A s \in Sems : here \in WaitLabels(s) => s = "lock"
  BY DEF Sems, WaitLabels, OwnLabels
<1>12. /\ \A s \in Sems : here \in OwnLabels(s) => t \in Holders(s)
       /\ \A s \in Sems : t \in Holders(s) => here \in OwnLabels(s) \/ s = "lock"
  BY <1>1, <1>11 DEF Holders
<1> QED BY <1>4, <1>6, <1>7, <1>9, <1>10, <1>12

\* What the units say of the numbers.
LEMMA StoredBounds ==
  ASSUME BufferTypeOK, UnitsInv
  PROVE  /\ Stored \in Nat /\ Stored <= N
         /\ Holders("nEmpty") # {} => Stored < N
         /\ Holders("nFull") # {} => Stored > 0
<1> USE RingAssumption DEF Buffer!BufferAssumption
<1>1. "nEmpty" \in Sems /\ "nFull" \in Sems
  BY DEF Sems
<1>2. sem["nEmpty"].units \in Nat /\ sem["nFull"].units \in Nat
  BY <1>1, SemFields DEF BufferTypeOK
<1>3. /\ IsFiniteSet(Holders("nEmpty")) /\ IsFiniteSet(Holders("nFull"))
      /\ sem["nEmpty"].units + Cardinality(Holders("nEmpty")) = N - Stored
      /\ sem["nFull"].units + Cardinality(Holders("nFull")) = Stored
  BY <1>1 DEF UnitsInv, Units
<1>4. Cardinality(Holders("nEmpty")) \in Nat /\ Cardinality(Holders("nFull")) \in Nat
  BY <1>3, FS_CardinalityType
<1>5. Stored \in Int
  BY DEF BufferTypeOK, Stored
<1>6. /\ Holders("nEmpty") # {} => Cardinality(Holders("nEmpty")) # 0
      /\ Holders("nFull") # {} => Cardinality(Holders("nFull")) # 0
  BY <1>3, FS_EmptySet
<1> QED BY <1>2, <1>3, <1>4, <1>5, <1>6

\* A slot that is stored or fetched passes its unit on to the other semaphore.
LEMMA UnitPassed ==
  ASSUME BufferTypeOK, UnitsInv, NEW t, NEW from \in Sems, NEW to \in Sems,
         {from, to} = {"nEmpty", "nFull"},
         UNCHANGED sem, t \in Holders(from), t \notin Holders(to), t \in Holders("lock"),
         Holders(from)' = Holders(from) \ {t}, Holders(to)' = Holders(to) \cup {t},
         Holders("lock")' = Holders("lock") \cup {t},
         Stored' = IF to = "nFull" THEN Stored + 1 ELSE Stored - 1
  PROVE  UnitsInv'
<1> USE RingAssumption DEF Buffer!BufferAssumption
<1>1. /\ IsFiniteSet(Holders(from)) /\ IsFiniteSet(Holders(to)) /\ IsFiniteSet(Holders("lock"))
      /\ sem[from].units + Cardinality(Holders(from)) = Units(from)
      /\ sem[to].units + Cardinality(Holders(to)) = Units(to)
      /\ sem["lock"].units + Cardinality(Holders("lock")) = Units("lock")
  BY DEF UnitsInv, Sems
<1>2. IsFiniteSet(Holders(from)') /\ Cardinality(Holders(from)') = Cardinality(Holders(from)) - 1
  BY <1>1, FS_RemoveElement
<1>3. IsFiniteSet(Holders(to)') /\ Cardinality(Holders(to)') = Cardinality(Holders(to)) + 1
  BY <1>1, FS_AddElement
<1>4. Holders("lock")' = Holders("lock") /\ Units("lock")' = Units("lock")
  BY DEF Units
<1>5. Stored \in Nat
  BY StoredBounds
<1>6. Units(from)' = Units(from) - 1 /\ Units(to)' = Units(to) + 1
  <2>1. CASE to = "nFull"
    BY <1>5, <2>1 DEF Units
  <2>2. CASE to # "nFull"
    BY <1>5, <2>2 DEF Units
  <2> QED BY <2>1, <2>2
<1>7. /\ Cardinality(Holders(from)) \in Nat /\ Cardinality(Holders(to)) \in Nat
      /\ sem[from].units \in Nat /\ sem[to].units \in Nat
  BY <1>1, FS_CardinalityType, SemFields DEF BufferTypeOK
<1>8. /\ sem[from].units + Cardinality(Holders(from)') = Units(from)'
      /\ sem[to].units + Cardinality(Holders(to)') = Units(to)'
  BY <1>1, <1>2, <1>3, <1>6, <1>7
<1>9. \A s \in Sems : s = from \/ s = to \/ s = "lock"
  BY DEF Sems
<1> QED BY <1>1, <1>2, <1>3, <1>4, <1>8, <1>9 DEF UnitsInv

\* store
LEMMA StoreBufferIInv ==
  ASSUME BufferIInv, NEW t \in Producers, Buffer!Store(t)
  PROVE  BufferIInv'
<1> USE RingAssumption DEF Buffer!BufferAssumption
<1>1. /\ BufferTypeOK /\ BlockedInv /\ UnitsInv /\ RingInv /\ t \in Users
  BY DEF BufferIInv, Users
<1>2. /\ Buffer!At(t, "store", "grow") /\ UNCHANGED <<head, n, sem, blocked, item, gets>>
      /\ data' = [data EXCEPT ![(head + n) % N] = item[t]]
      /\ puts' = Append(puts, item[t])
  BY DEF Buffer!Store
<1>3. /\ bufferPc' \in [Users -> PutLabels \cup GetLabels]
      /\ \A u \in Producers : bufferPc'[u] \in PutLabels
      /\ \A u \in Consumers : bufferPc'[u] \in GetLabels
      /\ BlockedInv'
      /\ \A L \in SUBSET OwnLabels("lock") :
           (Busy(L) <=> "store" \in L) /\ (Busy(L)' <=> "grow" \in L)
      /\ \A s \in Sems : Holders(s)' = IF "grow" \in OwnLabels(s) THEN Holders(s) \cup {t}
                                                               ELSE Holders(s) \ {t}
      /\ \A s \in Sems : "store" \in OwnLabels(s) => t \in Holders(s)
      /\ \A s \in Sems : t \in Holders(s) => "store" \in OwnLabels(s) \/ s = "lock"
      /\ t \in Holders("lock")
  <2>1. /\ "store" \in OwnLabels("lock") \cup WaitLabels("lock") /\ "grow" \in OwnLabels("lock")
        /\ "grow" \in IF t \in Producers THEN PutLabels ELSE GetLabels
    BY DEF OwnLabels, WaitLabels, PutLabels
  <2>2. UNCHANGED <<sem, blocked>>
    BY <1>2
  <2> HIDE DEF Buffer!BufferAssumption
  <2> QED BY <1>1, <1>2, <2>1, <2>2, InsideStep
<1>4. /\ {"grow"} \subseteq OwnLabels("lock") /\ {"advance"} \subseteq OwnLabels("lock")
      /\ {"advance", "shrink"} \subseteq OwnLabels("lock")
  BY DEF OwnLabels
<1>5. /\ ~Busy({"grow"}) /\ ~Busy({"advance"}) /\ ~Busy({"advance", "shrink"})
      /\ Busy({"grow"})' /\ ~Busy({"advance"})' /\ ~Busy({"advance", "shrink"})'
  BY <1>3, <1>4
<1>6. /\ "nEmpty" \in Sems /\ "nFull" \in Sems /\ t \in Holders("nEmpty") /\ t \notin Holders("nFull")
      /\ Holders("nEmpty")' = Holders("nEmpty") \ {t} /\ Holders("nFull")' = Holders("nFull") \cup {t}
      /\ Holders("lock")' = Holders("lock") \cup {t}
  BY <1>3 DEF Sems, OwnLabels
<1>7. /\ item[t] \in Things /\ puts \in Seq(Things) /\ gets \in Seq(Things)
      /\ head \in 0 .. (N - 1) /\ n \in Int /\ data \in [0 .. (N - 1) -> Things]
  BY <1>1 DEF BufferTypeOK
<1>8. Stored \in Nat /\ Stored < N
  BY <1>1, <1>6, StoredBounds
<1>9. /\ n = Stored /\ \A k \in 0 .. (Stored - 1) : data[(head + k) % N] = puts[Len(gets) + 1 + k]
      /\ \A k \in 1 .. Len(gets) : gets[k] = puts[k]
  BY <1>1, <1>5, <1>7, <1>8 DEF RingInv
<1>10. Stored' = Stored + 1
  BY <1>2, <1>7 DEF Stored
<1>11. UnitsInv'
  <2> HIDE DEF Buffer!BufferAssumption
  <2> QED BY <1>1, <1>2, <1>3, <1>6, <1>10, UnitPassed
<1>12. (head + n) % N \in 0 .. (N - 1)
  BY <1>7, <1>8, <1>9, RingIndex
<1>13. BufferTypeOK'
  BY <1>1, <1>2, <1>3, <1>7, <1>12 DEF BufferTypeOK
<1>14. ASSUME NEW k \in 0 .. Stored PROVE data'[(head + k) % N] = puts'[Len(gets) + 1 + k]
  <2>1. Len(puts) = Len(gets) + Stored /\ Len(gets) \in Nat
    BY <1>7, <1>8 DEF Stored
  <2>2. CASE k = Stored
    <3>1. data'[(head + n) % N] = item[t] /\ n = k
      BY <1>2, <1>7, <1>9, <1>12, <2>2
    <3>2. Len(gets) + 1 + k = Len(puts) + 1
      BY <1>7, <1>8, <2>1, <2>2
    <3>3. puts'[Len(puts) + 1] = item[t]
      BY <1>2, <1>7
    <3> QED BY <3>1, <3>2, <3>3
  <2>3. CASE k < Stored
    <3>1. (head + k) % N # (head + n) % N /\ (head + k) % N \in 0 .. (N - 1)
      <4>1. k \in Nat /\ k < n /\ n \in Nat /\ n < N /\ head \in 0 .. (N - 1)
        BY <1>7, <1>8, <1>9, <2>3
      <4> QED BY <4>1, RingApart
    <3>2. data'[(head + k) % N] = data[(head + k) % N]
      BY <1>2, <1>7, <3>1
    <3>3. puts'[Len(gets) + 1 + k] = puts[Len(gets) + 1 + k]
      <4>1. Len(gets) + 1 + k \in 1 .. Len(puts)
        BY <1>8, <2>1, <2>3
      <4> QED BY <1>2, <1>7, <4>1
    <3> QED BY <1>8, <1>9, <2>3, <3>2, <3>3
  <2> QED BY <1>8, <2>2, <2>3
<1>15. \A k \in 1 .. Len(gets) : gets[k] = puts'[k]
  <2>1. Len(puts) >= Len(gets)
    BY <1>7, <1>8 DEF Stored
  <2> QED BY <1>2, <1>7, <1>9, <2>1
<1>16. RingInv'
  <2>1. \A k \in 0 .. (Stored' - 1) : data'[(head + 0 + k) % N] = puts'[Len(gets) + 1 + k]
    <3>1. ASSUME NEW k \in 0 .. Stored PROVE data'[(head + 0 + k) % N] = puts'[Len(gets) + 1 + k]
      <4>1. head + 0 + k = head + k
        BY <1>7, <1>8
      <4> QED BY <1>14, <4>1
    <3> QED BY <1>8, <1>10, <3>1
  <2>2. n' + 1 = Stored' + 0
    BY <1>2, <1>8, <1>9, <1>10
  <2>3. head' = head /\ gets' = gets
    BY <1>2
  <2> QED BY <1>5, <1>15, <2>1, <2>2, <2>3 DEF RingInv
<1> QED BY <1>3, <1>11, <1>13, <1>16 DEF BufferIInv

\* A step that keeps every unit where it is.
LEMMA UnitsKept ==
  ASSUME UnitsInv, UNCHANGED <<sem, puts, gets>>, \A s \in Sems : Holders(s)' = Holders(s)
  PROVE  UnitsInv'
<1>1. \A s : Units(s)' = Units(s)
  BY DEF Units, Stored
<1> QED BY <1>1 DEF UnitsInv

LEMMA GrowBufferIInv ==
  ASSUME BufferIInv, NEW t \in Producers, Buffer!Grow(t)
  PROVE  BufferIInv'
<1> USE RingAssumption DEF Buffer!BufferAssumption
<1> DEFINE there == "unlock put"
<1>1. /\ BufferTypeOK /\ BlockedInv /\ UnitsInv /\ RingInv /\ t \in Users
  BY DEF BufferIInv, Users
<1>2. /\ Buffer!At(t, "grow", there) /\ UNCHANGED <<head, data, sem, blocked, item, puts, gets>>
      /\ n' = n + 1
  BY DEF Buffer!Grow, Buffer!history
<1>3. /\ bufferPc' \in [Users -> PutLabels \cup GetLabels]
      /\ \A u \in Producers : bufferPc'[u] \in PutLabels
      /\ \A u \in Consumers : bufferPc'[u] \in GetLabels
      /\ BlockedInv'
      /\ \A L \in SUBSET OwnLabels("lock") :
           (Busy(L) <=> "grow" \in L) /\ (Busy(L)' <=> there \in L)
      /\ \A s \in Sems : Holders(s)' = IF there \in OwnLabels(s) THEN Holders(s) \cup {t}
                                                                     ELSE Holders(s) \ {t}
      /\ \A s \in Sems : "grow" \in OwnLabels(s) => t \in Holders(s)
      /\ \A s \in Sems : t \in Holders(s) => "grow" \in OwnLabels(s) \/ s = "lock"
      /\ t \in Holders("lock")
  <2>1. /\ "grow" \in OwnLabels("lock") \cup WaitLabels("lock") /\ there \in OwnLabels("lock")
        /\ there \in IF t \in Producers THEN PutLabels ELSE GetLabels
    BY DEF OwnLabels, WaitLabels, PutLabels
  <2>2. UNCHANGED <<sem, blocked>>
    BY <1>2
  <2> HIDE DEF Buffer!BufferAssumption
  <2> QED BY <1>1, <1>2, <2>1, <2>2, InsideStep
<1>4. /\ {"grow"} \subseteq OwnLabels("lock") /\ {"advance"} \subseteq OwnLabels("lock")
      /\ {"advance", "shrink"} \subseteq OwnLabels("lock")
      /\ \A s \in Sems : "grow" \in OwnLabels(s) <=> there \in OwnLabels(s)
      /\ there \in OwnLabels("lock") /\ there \notin {"grow", "advance", "shrink"}
  BY DEF OwnLabels, Sems
<1> HIDE DEF there
<1>5. /\ Busy({"grow"}) /\ ~Busy({"advance"}) /\ ~Busy({"advance", "shrink"})
      /\ ~Busy({"grow"})' /\ ~Busy({"advance"})' /\ ~Busy({"advance", "shrink"})'
  BY <1>3, <1>4
<1>6. \A s \in Sems : Holders(s)' = Holders(s)
  BY <1>3, <1>4
<1>7. UnitsInv'
  BY <1>1, <1>2, <1>6, UnitsKept
<1>8. BufferTypeOK'
  BY <1>1, <1>2, <1>3 DEF BufferTypeOK
<1>9. Stored' = Stored /\ Stored \in Nat /\ n \in Int
  BY <1>1, <1>2, StoredBounds DEF Stored, BufferTypeOK
<1>10. RingInv'
  <2>1. n + 1 = Stored + 0
    BY <1>1, <1>5 DEF RingInv
  <2>2. n' + 0 = Stored' + 0
    BY <1>2, <1>9, <2>1
  <2> QED BY <1>1, <1>2, <1>5, <1>9, <2>2 DEF RingInv
<1> QED BY <1>3, <1>7, <1>8, <1>10 DEF BufferIInv

\* fetch: the item at the head is the oldest that is stored.
LEMMA FetchBufferIInv ==
  ASSUME BufferIInv, NEW t \in Consumers, Buffer!Fetch(t)
  PROVE  BufferIInv'
<1> USE RingAssumption DEF Buffer!BufferAssumption
<1>1. /\ BufferTypeOK /\ BlockedInv /\ UnitsInv /\ RingInv /\ t \in Users /\ t \notin Producers
  BY DEF BufferIInv, Users
<1>2. /\ Buffer!At(t, "fetch", "advance") /\ UNCHANGED <<head, n, data, sem, blocked, puts>>
      /\ item' = [item EXCEPT ![t] = data[head]]
      /\ gets' = Append(gets, data[head])
  BY DEF Buffer!Fetch, Buffer!ring
<1>3. /\ bufferPc' \in [Users -> PutLabels \cup GetLabels]
      /\ \A u \in Producers : bufferPc'[u] \in PutLabels
      /\ \A u \in Consumers : bufferPc'[u] \in GetLabels
      /\ BlockedInv'
      /\ \A L \in SUBSET OwnLabels("lock") :
           (Busy(L) <=> "fetch" \in L) /\ (Busy(L)' <=> "advance" \in L)
      /\ \A s \in Sems : Holders(s)' = IF "advance" \in OwnLabels(s) THEN Holders(s) \cup {t}
                                                                  ELSE Holders(s) \ {t}
      /\ \A s \in Sems : "fetch" \in OwnLabels(s) => t \in Holders(s)
      /\ \A s \in Sems : t \in Holders(s) => "fetch" \in OwnLabels(s) \/ s = "lock"
      /\ t \in Holders("lock")
  <2>1. /\ "fetch" \in OwnLabels("lock") \cup WaitLabels("lock") /\ "advance" \in OwnLabels("lock")
        /\ "advance" \in IF t \in Producers THEN PutLabels ELSE GetLabels
    BY <1>1 DEF OwnLabels, WaitLabels, GetLabels
  <2>2. UNCHANGED <<sem, blocked>>
    BY <1>2
  <2> HIDE DEF Buffer!BufferAssumption
  <2> QED BY <1>1, <1>2, <2>1, <2>2, InsideStep
<1>4. /\ {"grow"} \subseteq OwnLabels("lock") /\ {"advance"} \subseteq OwnLabels("lock")
      /\ {"advance", "shrink"} \subseteq OwnLabels("lock")
  BY DEF OwnLabels
<1>5. /\ ~Busy({"grow"}) /\ ~Busy({"advance"}) /\ ~Busy({"advance", "shrink"})
      /\ ~Busy({"grow"})' /\ Busy({"advance"})' /\ Busy({"advance", "shrink"})'
  BY <1>3, <1>4
<1>6. /\ "nEmpty" \in Sems /\ "nFull" \in Sems /\ t \in Holders("nFull") /\ t \notin Holders("nEmpty")
      /\ Holders("nFull")' = Holders("nFull") \ {t} /\ Holders("nEmpty")' = Holders("nEmpty") \cup {t}
      /\ Holders("lock")' = Holders("lock") \cup {t}
  BY <1>3 DEF Sems, OwnLabels
<1>7. /\ puts \in Seq(Things) /\ gets \in Seq(Things) /\ item \in [Users -> Things]
      /\ head \in 0 .. (N - 1) /\ n \in Int /\ data \in [0 .. (N - 1) -> Things]
      /\ data[head] \in Things
  BY <1>1 DEF BufferTypeOK
<1>8. Stored \in Nat /\ Stored <= N /\ Stored > 0
  BY <1>1, <1>6, StoredBounds
<1>9. /\ n = Stored /\ \A k \in 0 .. (Stored - 1) : data[(head + k) % N] = puts[Len(gets) + 1 + k]
      /\ \A k \in 1 .. Len(gets) : gets[k] = puts[k]
  BY <1>1, <1>5, <1>7, <1>8 DEF RingInv
<1>10. Stored' = Stored - 1
  BY <1>2, <1>7 DEF Stored
<1>11. UnitsInv'
  <2> HIDE DEF Buffer!BufferAssumption
  <2> QED BY <1>1, <1>2, <1>3, <1>6, <1>10, UnitPassed
<1>12. BufferTypeOK'
  BY <1>1, <1>2, <1>3, <1>7 DEF BufferTypeOK
<1>13. data[head] = puts[Len(gets) + 1]
  <2>1. data[(head + 0) % N] = puts[Len(gets) + 1 + 0]
    BY <1>8, <1>9
  <2>2. (head + 0) % N = head /\ Len(gets) + 1 + 0 = Len(gets) + 1
    BY <1>7
  <2> QED BY <2>1, <2>2
<1>14. ASSUME NEW k \in 0 .. (Stored' - 1) PROVE data[(head + 1 + k) % N] = puts[Len(gets') + 1 + k]
  <2>1. k + 1 \in 0 .. (Stored - 1)
    BY <1>8, <1>10
  <2>2. data[(head + (k + 1)) % N] = puts[Len(gets) + 1 + (k + 1)]
    BY <1>9, <2>1
  <2>3. head + (k + 1) = head + 1 + k /\ Len(gets) + 1 + (k + 1) = Len(gets') + 1 + k
    BY <1>2, <1>7
  <2> QED BY <2>2, <2>3
<1>15. \A k \in 1 .. Len(gets') : gets'[k] = puts[k]
  BY <1>2, <1>7, <1>9, <1>13
<1>16. RingInv'
  <2>1. n' + 0 = Stored' + 1
    BY <1>2, <1>8, <1>9, <1>10
  <2>2. head' = head /\ data' = data /\ puts' = puts
    BY <1>2
  <2> QED BY <1>5, <1>14, <1>15, <2>1, <2>2 DEF RingInv
<1> QED BY <1>3, <1>11, <1>12, <1>16 DEF BufferIInv

LEMMA AdvanceBufferIInv ==
  ASSUME BufferIInv, NEW t \in Consumers, Buffer!Advance(t)
  PROVE  BufferIInv'
<1> USE RingAssumption DEF Buffer!BufferAssumption
<1>1. /\ BufferTypeOK /\ BlockedInv /\ UnitsInv /\ RingInv /\ t \in Users /\ t \notin Producers
  BY DEF BufferIInv, Users
<1>2. /\ Buffer!At(t, "advance", "shrink") /\ UNCHANGED <<n, data, sem, blocked, item, puts, gets>>
      /\ head' = (head + 1) % N
  BY DEF Buffer!Advance, Buffer!history
<1>3. /\ bufferPc' \in [Users -> PutLabels \cup GetLabels]
      /\ \A u \in Producers : bufferPc'[u] \in PutLabels
      /\ \A u \in Consumers : bufferPc'[u] \in GetLabels
      /\ BlockedInv'
      /\ \A L \in SUBSET OwnLabels("lock") :
           (Busy(L) <=> "advance" \in L) /\ (Busy(L)' <=> "shrink" \in L)
      /\ \A s \in Sems : Holders(s)' = IF "shrink" \in OwnLabels(s) THEN Holders(s) \cup {t}
                                                                 ELSE Holders(s) \ {t}
      /\ \A s \in Sems : "advance" \in OwnLabels(s) => t \in Holders(s)
      /\ \A s \in Sems : t \in Holders(s) => "advance" \in OwnLabels(s) \/ s = "lock"
      /\ t \in Holders("lock")
  <2>1. /\ "advance" \in OwnLabels("lock") \cup WaitLabels("lock") /\ "shrink" \in OwnLabels("lock")
        /\ "shrink" \in IF t \in Producers THEN PutLabels ELSE GetLabels
    BY <1>1 DEF OwnLabels, WaitLabels, GetLabels
  <2>2. UNCHANGED <<sem, blocked>>
    BY <1>2
  <2> HIDE DEF Buffer!BufferAssumption
  <2> QED BY <1>1, <1>2, <2>1, <2>2, InsideStep
<1>4. /\ {"grow"} \subseteq OwnLabels("lock") /\ {"advance"} \subseteq OwnLabels("lock")
      /\ {"advance", "shrink"} \subseteq OwnLabels("lock") /\ "shrink" \in OwnLabels("lock")
      /\ \A s \in Sems : "advance" \in OwnLabels(s) <=> "shrink" \in OwnLabels(s)
  BY DEF OwnLabels, Sems
<1>5. /\ ~Busy({"grow"}) /\ Busy({"advance"}) /\ Busy({"advance", "shrink"})
      /\ ~Busy({"grow"})' /\ ~Busy({"advance"})' /\ Busy({"advance", "shrink"})'
  BY <1>3, <1>4
<1>6. \A s \in Sems : Holders(s)' = Holders(s)
  BY <1>3, <1>4
<1>7. UnitsInv'
  BY <1>1, <1>2, <1>6, UnitsKept
<1>8. head \in 0 .. (N - 1) /\ (head + 1) % N \in 0 .. (N - 1)
  BY <1>1, RingShift DEF BufferTypeOK
<1>9. BufferTypeOK'
  BY <1>1, <1>2, <1>3, <1>8 DEF BufferTypeOK
<1>10. Stored' = Stored /\ Stored \in Nat /\ Stored <= N
  BY <1>1, <1>2, StoredBounds DEF Stored
<1>11. RingInv'
  <2>1. /\ n + 0 = Stored + 1
        /\ \A k \in 0 .. (Stored - 1) : data[(head + 1 + k) % N] = puts[Len(gets) + 1 + k]
        /\ \A k \in 1 .. Len(gets) : gets[k] = puts[k]
    BY <1>1, <1>5 DEF RingInv
  <2>2. ASSUME NEW k \in 0 .. (Stored - 1) PROVE data[(head' + 0 + k) % N] = puts[Len(gets) + 1 + k]
    <3>1. k \in 0 .. (N - 1)
      BY <1>10
    <3>2. (((head + 1) % N) + k) % N = (head + 1 + k) % N
      BY <1>8, <3>1, RingShift
    <3>3. head' + 0 = (head + 1) % N
      BY <1>2, <1>8
    <3> QED BY <2>1, <3>2, <3>3
  <2>3. n' = n /\ data' = data /\ puts' = puts /\ gets' = gets
    BY <1>2
  <2> QED BY <1>5, <1>10, <2>1, <2>2, <2>3 DEF RingInv
<1> QED BY <1>3, <1>7, <1>9, <1>11 DEF BufferIInv

LEMMA ShrinkBufferIInv ==
  ASSUME BufferIInv, NEW t \in Consumers, Buffer!Shrink(t)
  PROVE  BufferIInv'
<1> USE RingAssumption DEF Buffer!BufferAssumption
<1> DEFINE there == "unlock get"
<1>1. /\ BufferTypeOK /\ BlockedInv /\ UnitsInv /\ RingInv /\ t \in Users /\ t \notin Producers
  BY DEF BufferIInv, Users
<1>2. /\ Buffer!At(t, "shrink", there) /\ UNCHANGED <<head, data, sem, blocked, item, puts, gets>>
      /\ n' = n - 1
  BY DEF Buffer!Shrink, Buffer!history
<1>3. /\ bufferPc' \in [Users -> PutLabels \cup GetLabels]
      /\ \A u \in Producers : bufferPc'[u] \in PutLabels
      /\ \A u \in Consumers : bufferPc'[u] \in GetLabels
      /\ BlockedInv'
      /\ \A L \in SUBSET OwnLabels("lock") :
           (Busy(L) <=> "shrink" \in L) /\ (Busy(L)' <=> there \in L)
      /\ \A s \in Sems : Holders(s)' = IF there \in OwnLabels(s) THEN Holders(s) \cup {t}
                                                                     ELSE Holders(s) \ {t}
      /\ \A s \in Sems : "shrink" \in OwnLabels(s) => t \in Holders(s)
      /\ \A s \in Sems : t \in Holders(s) => "shrink" \in OwnLabels(s) \/ s = "lock"
      /\ t \in Holders("lock")
  <2>1. /\ "shrink" \in OwnLabels("lock") \cup WaitLabels("lock") /\ there \in OwnLabels("lock")
        /\ there \in IF t \in Producers THEN PutLabels ELSE GetLabels
    BY <1>1 DEF OwnLabels, WaitLabels, GetLabels
  <2>2. UNCHANGED <<sem, blocked>>
    BY <1>2
  <2> HIDE DEF Buffer!BufferAssumption
  <2> QED BY <1>1, <1>2, <2>1, <2>2, InsideStep
<1>4. /\ {"grow"} \subseteq OwnLabels("lock") /\ {"advance"} \subseteq OwnLabels("lock")
      /\ {"advance", "shrink"} \subseteq OwnLabels("lock") /\ there \in OwnLabels("lock")
      /\ there \notin {"grow", "advance", "shrink"}
      /\ \A s \in Sems : "shrink" \in OwnLabels(s) <=> there \in OwnLabels(s)
  BY DEF OwnLabels, Sems
<1> HIDE DEF there
<1>5. /\ ~Busy({"grow"}) /\ ~Busy({"advance"}) /\ Busy({"advance", "shrink"})
      /\ ~Busy({"grow"})' /\ ~Busy({"advance"})' /\ ~Busy({"advance", "shrink"})'
  BY <1>3, <1>4
<1>6. \A s \in Sems : Holders(s)' = Holders(s)
  BY <1>3, <1>4
<1>7. UnitsInv'
  BY <1>1, <1>2, <1>6, UnitsKept
<1>8. BufferTypeOK'
  BY <1>1, <1>2, <1>3 DEF BufferTypeOK
<1>9. Stored' = Stored /\ Stored \in Nat /\ n \in Int
  BY <1>1, <1>2, StoredBounds DEF Stored, BufferTypeOK
<1>10. RingInv'
  <2>1. n + 0 = Stored + 1
    BY <1>1, <1>5 DEF RingInv
  <2>2. n' + 0 = Stored' + 0
    BY <1>2, <1>9, <2>1
  <2> QED BY <1>1, <1>2, <1>5, <1>9, <2>2 DEF RingInv
<1> QED BY <1>3, <1>7, <1>8, <1>10 DEF BufferIInv

LEMMA NextBufferIInv ==
  ASSUME BufferIInv, [Buffer!Next]_(Buffer!vars)
  PROVE  BufferIInv'
<1>1. CASE UNCHANGED Buffer!vars
  <2>1. UNCHANGED <<head, n, data, sem, blocked, bufferPc, item, puts, gets>>
    BY <1>1 DEF Buffer!vars, Buffer!ring, Buffer!history
  <2>2. Stored' = Stored
    BY <2>1 DEF Stored
  <2>3. \A s : Holders(s)' = Holders(s) /\ Units(s)' = Units(s)
    BY <2>1, <2>2 DEF Holders, Units
  <2>4. \A L : Busy(L)' <=> Busy(L)
    BY <2>1 DEF Busy
  <2>5. BufferTypeOK' /\ BlockedInv'
    BY <2>1 DEF BufferIInv, BufferTypeOK, BlockedInv
  <2>6. UnitsInv'
    BY <2>1, <2>3 DEF BufferIInv, UnitsInv
  <2>7. RingInv'
    BY <2>1, <2>2, <2>4 DEF BufferIInv, RingInv
  <2> QED BY <2>5, <2>6, <2>7 DEF BufferIInv
<1>2. ASSUME NEW t \in Producers, Buffer!CallPut(t) \/ Buffer!Put(t)
      PROVE  BufferIInv'
  BY <1>2, CallBufferIInv, DownBufferIInv, UpBufferIInv, StoreBufferIInv, GrowBufferIInv
     DEF Buffer!Put
<1>3. ASSUME NEW t \in Consumers, Buffer!CallGet(t) \/ Buffer!Get(t)
      PROVE  BufferIInv'
  BY <1>3, CallBufferIInv, DownBufferIInv, UpBufferIInv, FetchBufferIInv, AdvanceBufferIInv,
     ShrinkBufferIInv DEF Buffer!Get
<1> QED BY <1>1, <1>2, <1>3 DEF Buffer!Next

(* The items that get() has fetched are the first of those that put() has  *)
(* stored, in the same order, whatever the threads' interleaving: put()    *)
(* and get() of kernel/bb.h and their three semaphores.                    *)
THEOREM BufferIsFifo == Buffer!Spec => []FifoOrder
<1>1. BufferIInv => FifoOrder
  <2> SUFFICES ASSUME BufferIInv PROVE FifoOrder
    OBVIOUS
  <2>1. /\ puts \in Seq(Things) /\ gets \in Seq(Things)
        /\ \A k \in 1 .. Len(gets) : gets[k] = puts[k]
    BY DEF BufferIInv, BufferTypeOK, RingInv
  <2>2. Len(gets) <= Len(puts)
    <3>1. Stored \in Nat
      BY StoredBounds DEF BufferIInv
    <3> QED BY <2>1, <3>1 DEF Stored
  <2>3. SubSeq(puts, 1, Len(gets)) = gets
    BY <2>1, <2>2
  <2> QED BY <2>2, <2>3 DEF FifoOrder, Buffer!FifoOrder, Buffer!IsPrefix
<1>2. Buffer!Spec => []BufferIInv
  BY InitBufferIInv, NextBufferIInv, PTL DEF Buffer!Spec
<1> QED BY <1>1, <1>2, PTL

-----------------------------------------------------------------------------
(* The condition variable.                                                 *)

\* What is assumed of the arguments of notify() and of the barrier.
LEMMA MonitorParameters ==
  /\ Nobody \notin Threads /\ Limits \subseteq Nat \ {0}
  /\ Participants \subseteq Threads /\ InitialCount \in Nat \ {0} /\ MaxRounds \in Nat
  /\ \E limit \in Limits : \A other \in Limits : other <= limit
BY MonitorAssumption DEF RB!ConditionAssumption, RB!CountAssumption

\* The instance has its own copies of FiniteSets and Queues.
LEMMA SameCardinality == \A S : RB!Cardinality(S) = Cardinality(S)
BY DEF RB!Cardinality, Cardinality

LEMMA SameQueues ==
  /\ \A members, t : RB!Contains(members, t) <=> Contains(members, t)
  /\ \A members : RB!NoRepeats(members) <=> NoRepeats(members)
BY DEF RB!Contains, Contains, RB!NoRepeats, NoRepeats

\* Where its threads are, who has its lock and who is in its queue.
MonitorIInv == RB!TypeOK /\ RB!LockIsMine /\ RB!QueueExact

-----------------------------------------------------------------------------
(* What notify() leaves in the queue. *)

LEMMA RestContains ==
  ASSUME queue \in Seq(Threads), RB!NoRepeats(queue), NEW limit \in Nat \ {0}
  PROVE  /\ RB!Rest(limit) \in Seq(Threads)
         /\ RB!NoRepeats(RB!Rest(limit))
         /\ \A u : RB!Contains(RB!Rest(limit), u) <=>
                     RB!Contains(queue, u) /\ u \notin RB!Woken(limit)
         /\ \A u \in RB!Woken(limit) : RB!Contains(queue, u)
         /\ (\E u : RB!Contains(queue, u)) => RB!Woken(limit) # {}
<1> DEFINE len == Len(queue)
           r == RB!Rest(limit)
<1>1. len \in Nat /\ DOMAIN queue = 1..len /\ \A i \in 1..len : queue[i] \in Threads
  BY LenProperties
<1>2. \A i \in DOMAIN r : i + limit \in 1..len /\ r[i] = queue[i + limit]
  BY <1>1, SubSeqProperties DEF RB!Rest
<1>3. \A j \in 1..len : j > limit => j - limit \in DOMAIN r /\ r[j - limit] = queue[j]
  BY <1>1, SubSeqProperties DEF RB!Rest
<1>4. r \in Seq(Threads)
  BY <1>1, SubSeqProperties DEF RB!Rest
<1>5. DOMAIN r \subseteq Nat
  BY <1>4, LenProperties
<1> HIDE DEF len, r
<1>6. RB!NoRepeats(r)
  BY <1>1, <1>2, <1>5 DEF RB!NoRepeats
<1>7. ASSUME NEW u, RB!Contains(r, u) PROVE RB!Contains(queue, u) /\ u \notin RB!Woken(limit)
  <2>1. PICK i \in DOMAIN r : r[i] = u
    BY <1>7 DEF RB!Contains
  <2>2. i + limit \in DOMAIN queue /\ queue[i + limit] = u /\ i \in Nat /\ i + limit > limit
    <3>1. i >= 1
      BY <1>4, LenProperties
    <3>2. QED
      BY <1>1, <1>2, <1>5, <2>1, <3>1
  <2>3. \A j \in DOMAIN queue : queue[j] = u => j = i + limit
    BY <2>2 DEF RB!NoRepeats
  <2>4. QED
    BY <2>2, <2>3 DEF RB!Contains, RB!Woken
<1>8. ASSUME NEW u, RB!Contains(queue, u), u \notin RB!Woken(limit) PROVE RB!Contains(r, u)
  <2>1. PICK j \in DOMAIN queue : queue[j] = u
    BY <1>8 DEF RB!Contains
  <2>2. j > limit
    BY <1>1, <1>8, <2>1 DEF RB!Woken
  <2>3. QED
    BY <1>1, <1>3, <2>1, <2>2 DEF RB!Contains
<1>9. \A u \in RB!Woken(limit) : RB!Contains(queue, u)
  BY DEF RB!Woken, RB!Contains
<1>10. ASSUME NEW u, RB!Contains(queue, u) PROVE queue[1] \in RB!Woken(limit)
  BY <1>1, <1>10 DEF RB!Contains, RB!Woken
<1>11. QED
  BY <1>4, <1>6, <1>7, <1>8, <1>9, <1>10 DEF r

-----------------------------------------------------------------------------
LEMMA InitMonitorIInv == RB!Init => MonitorIInv
<1> SUFFICES ASSUME RB!Init PROVE MonitorIInv
  OBVIOUS
<1>1. << >> \in Seq(Threads) /\ RB!NoRepeats(<< >>) /\ \A t : ~RB!Contains(<< >>, t)
  BY DEF RB!NoRepeats, RB!Contains
<1>2. RB!TypeOK
  BY <1>1 DEF RB!Init, RB!TypeOK, RB!Labels
<1>3. RB!LockIsMine
  BY MonitorParameters DEF RB!Init, RB!LockIsMine
<1>4. RB!QueueExact
  BY <1>1 DEF RB!Init, RB!QueueExact
<1>5. QED
  BY <1>2, <1>3, <1>4 DEF MonitorIInv

\* The steps that leave the queue and the sleepers alone.
LEMMA AwakeMonitorIInv ==
  ASSUME MonitorIInv, NEW t \in Threads,
         \/ RB!Enter(t) \/ RB!Leave(t) \/ RB!Wait(t)
         \/ RB!Recheck(t) \/ RB!StayAwake(t) \/ RB!Return(t)
  PROVE  MonitorIInv'
<1> USE DEF MonitorIInv, RB!Enter, RB!Leave, RB!Wait,
            RB!Recheck, RB!StayAwake, RB!Return, RB!Acquire, RB!Goto
<1>1. RB!TypeOK'
  BY DEF RB!TypeOK, RB!Labels
<1>2. (\A u \in Threads : monitorPc[u] \in {"inside", "recheck"} <=> monitorLock = u)'
  BY MonitorParameters DEF RB!TypeOK, RB!LockIsMine
<1>3. (\A u \in Threads : oldEpoch[u] <= epoch)'
  BY DEF RB!TypeOK, RB!LockIsMine
<1>4. RB!QueueExact'
  BY DEF RB!TypeOK, RB!QueueExact
<1>5. QED
  BY <1>1, <1>2, <1>3, <1>4 DEF RB!LockIsMine

LEMMA SleepMonitorIInv ==
  ASSUME MonitorIInv, NEW t \in Threads, RB!Sleep(t)
  PROVE  MonitorIInv'
<1> USE DEF MonitorIInv, RB!Sleep, RB!Goto
<1>1. /\ queue' \in Seq(Threads)
      /\ \A u \in Threads : RB!Contains(queue', u) <=> RB!Contains(queue, u) \/ u = t
      /\ RB!NoRepeats(queue')
  <2>1. ~RB!Contains(queue, t)
    BY DEF RB!QueueExact
  <2>2. QED
    BY <2>1, AppendContains, AppendNoRepeats, SameQueues, AppendProperties
       DEF RB!TypeOK, RB!QueueExact
<1>2. RB!TypeOK'
  BY <1>1 DEF RB!TypeOK, RB!Labels
<1>3. RB!LockIsMine'
  BY MonitorParameters DEF RB!TypeOK, RB!LockIsMine
<1>4. RB!QueueExact'
  BY <1>1 DEF RB!TypeOK, RB!QueueExact
<1>5. QED
  BY <1>2, <1>3, <1>4

LEMMA NotifyMonitorIInv ==
  ASSUME MonitorIInv, NEW t \in Threads, NEW limit \in Limits, RB!Notify(t, limit)
  PROVE  MonitorIInv'
<1> USE DEF MonitorIInv, RB!Notify
<1>1. /\ RB!Rest(limit) \in Seq(Threads)
      /\ RB!NoRepeats(RB!Rest(limit))
      /\ \A u : RB!Contains(RB!Rest(limit), u) <=>
                  RB!Contains(queue, u) /\ u \notin RB!Woken(limit)
      /\ \A u \in RB!Woken(limit) : RB!Contains(queue, u)
  BY RestContains, MonitorParameters DEF RB!TypeOK, RB!QueueExact
<1>2. \A u \in RB!Woken(limit) : u \in Threads /\ monitorPc[u] = "asleep"
  BY <1>1 DEF RB!TypeOK, RB!QueueExact, RB!Contains
<1>3. RB!TypeOK'
  BY <1>1 DEF RB!TypeOK, RB!Labels
<1>4. RB!LockIsMine'
  BY <1>2 DEF RB!TypeOK, RB!LockIsMine
<1>5. RB!QueueExact'
  BY <1>1, <1>2 DEF RB!TypeOK, RB!QueueExact
<1>6. QED
  BY <1>3, <1>4, <1>5

LEMMA NextMonitorIInv == MonitorIInv /\ [RB!Next]_(RB!vars) => MonitorIInv'
<1> SUFFICES ASSUME MonitorIInv, [RB!Next]_(RB!vars) PROVE MonitorIInv'
  OBVIOUS
<1>1. CASE UNCHANGED RB!vars
  BY <1>1 DEF RB!vars, MonitorIInv, RB!TypeOK, RB!LockIsMine, RB!QueueExact
<1>2. CASE RB!Next
  BY <1>2, AwakeMonitorIInv, SleepMonitorIInv, NotifyMonitorIInv DEF RB!Next, RB!Waiting
<1>3. QED
  BY <1>1, <1>2

THEOREM SpecMonitorIInv == RB!Spec => []MonitorIInv
<1>1. QED
  BY InitMonitorIInv, NextMonitorIInv, PTL DEF RB!Spec

(* The ASSERTs of wait() and notify() about the lock and the epoch never   *)
(* fail, and block()'s action has the lock when it looks at the epoch.     *)
THEOREM AssertsHold == RB!Spec => []RB!LockIsMine
<1>1. QED
  BY SpecMonitorIInv, PTL DEF MonitorIInv

(* A thread is in the condition's queue exactly while it sleeps, so it is  *)
(* never scheduled twice for one wait().                                   *)
THEOREM QueueIsSleepers == RB!Spec => []RB!QueueExact
<1>1. QED
  BY SpecMonitorIInv, PTL DEF MonitorIInv

-----------------------------------------------------------------------------
(* The simulation *)

LEMMA OneChanges ==
  ASSUME RB!TypeOK, NEW t \in Threads, NEW l, monitorPc' = [monitorPc EXCEPT ![t] = l],
         epoch' = epoch, \A u \in Threads : u # t => oldEpoch'[u] = oldEpoch[u]
  PROVE  /\ RB!Listening(t)' /\ RB!Listening(t) => RB!Listeners' = RB!Listeners
         /\ ~RB!Listening(t)' /\ ~RB!Listening(t) => RB!Listeners' = RB!Listeners
         /\ RB!Listening(t)' => RB!Listeners' = RB!Listeners \cup {t}
<1>1. \A u \in Threads : u # t => (RB!Listening(u)' <=> RB!Listening(u))
  BY DEF RB!TypeOK, RB!Listening
<1>2. QED
  BY <1>1 DEF RB!Listeners

LEMMA MonitorSimulation ==
  ASSUME MonitorIInv, [RB!Next]_(RB!vars)
  PROVE  [RB!Monitor!Next]_<<RB!Owner, RB!Listeners>>
<1> USE DEF MonitorIInv
<1>1. CASE UNCHANGED RB!vars
  BY <1>1 DEF RB!vars, RB!Owner, RB!Listeners, RB!Listening
<1>2. ASSUME NEW t \in Threads, RB!Enter(t) \/ RB!Return(t) PROVE RB!Monitor!Enter(t)
  <2> USE DEF RB!Enter, RB!Return, RB!Acquire, RB!Goto
  <2>1. RB!Owner = Nobody /\ RB!Owner' = t
    BY <1>2, MonitorParameters DEF RB!Owner, RB!TypeOK
  <2>2. ~RB!Listening(t) /\ ~RB!Listening(t)'
    BY <1>2 DEF RB!Listening, RB!TypeOK
  <2>3. RB!Listeners' = RB!Listeners /\ t \notin RB!Listeners
    BY <1>2, <2>2, OneChanges DEF RB!Listeners
  <2>4. QED
    BY <2>1, <2>3 DEF RB!Monitor!Enter
<1>3. ASSUME NEW t \in Threads, RB!Leave(t) PROVE RB!Monitor!Leave(t)
  <2> USE DEF RB!Leave, RB!Goto
  <2>1. RB!Owner = t /\ RB!Owner' = Nobody
    BY <1>3, MonitorParameters DEF RB!Owner, RB!LockIsMine
  <2>2. ~RB!Listening(t) /\ ~RB!Listening(t)'
    BY <1>3 DEF RB!Listening, RB!TypeOK
  <2>3. RB!Listeners' = RB!Listeners
    BY <1>3, <2>2, OneChanges
  <2>4. QED
    BY <2>1, <2>3 DEF RB!Monitor!Leave
<1>4. ASSUME NEW t \in Threads, RB!Wait(t) PROVE RB!Monitor!Wait(t)
  <2> USE DEF RB!Wait, RB!Goto
  <2>1. RB!Owner = t /\ RB!Owner' = Nobody
    BY <1>4, MonitorParameters DEF RB!Owner, RB!LockIsMine
  <2>2. RB!Listening(t)'
    BY <1>4 DEF RB!Listening, RB!TypeOK
  <2>3. \A u \in Threads : u # t => oldEpoch'[u] = oldEpoch[u]
    BY <1>4 DEF RB!TypeOK
  <2>4. RB!Listeners' = RB!Listeners \cup {t}
    BY <1>4, <2>2, <2>3, OneChanges
  <2>5. QED
    BY <2>1, <2>4 DEF RB!Monitor!Wait
<1>5. ASSUME NEW t \in Threads, RB!Recheck(t) \/ RB!Sleep(t) \/ RB!StayAwake(t)
      PROVE  UNCHANGED <<RB!Owner, RB!Listeners>>
  <2> USE DEF RB!Recheck, RB!Sleep, RB!StayAwake, RB!Acquire, RB!Goto
  <2>1. RB!Owner = Nobody /\ RB!Owner' = Nobody
    BY <1>5, MonitorParameters DEF RB!Owner, RB!TypeOK, RB!LockIsMine
  <2>2. RB!Listening(t)' <=> RB!Listening(t)
    BY <1>5 DEF RB!Listening, RB!TypeOK
  <2>3. RB!Listeners' = RB!Listeners
    BY <1>5, <2>2, OneChanges
  <2>4. QED
    BY <2>1, <2>3
<1>6. ASSUME NEW t \in Threads, NEW limit \in Limits, RB!Notify(t, limit)
      PROVE  RB!Monitor!Notify(t)
  <2> USE DEF RB!Notify
  <2>1. /\ \A u \in RB!Woken(limit) : RB!Contains(queue, u)
        /\ (\E u : RB!Contains(queue, u)) => RB!Woken(limit) # {}
    BY <1>6, RestContains, MonitorParameters DEF RB!TypeOK, RB!QueueExact
  <2>2. \A u \in RB!Woken(limit) : u \in Threads /\ monitorPc[u] = "asleep"
    BY <2>1 DEF RB!TypeOK, RB!QueueExact, RB!Contains
  <2>3. RB!Owner = t /\ RB!Owner' = t
    BY <1>6, <2>2, MonitorParameters DEF RB!Owner, RB!LockIsMine
  <2>4. ASSUME NEW u \in Threads
        PROVE  RB!Listening(u)' <=> monitorPc[u] = "asleep" /\ u \notin RB!Woken(limit)
    <3>1. oldEpoch'[u] # epoch'
      BY <1>6 DEF RB!TypeOK, RB!LockIsMine
    <3>2. monitorPc'[u] = IF u \in RB!Woken(limit) THEN "ready" ELSE monitorPc[u]
      BY <1>6
    <3>3. QED
      BY <3>1, <3>2 DEF RB!Listening
  <2>5. RB!Listeners' \subseteq RB!Listeners
    BY <2>4 DEF RB!Listeners, RB!Listening
  <2>6. ASSUME NEW u \in RB!Listeners PROVE RB!Listeners' # RB!Listeners
    <3>1. CASE monitorPc[u] # "asleep"
      BY <2>4, <2>6, <3>1 DEF RB!Listeners
    <3>2. CASE monitorPc[u] = "asleep"
      <4>1. RB!Contains(queue, u)
        BY <2>6, <3>2 DEF RB!QueueExact, RB!Listeners
      <4>2. PICK v : v \in RB!Woken(limit)
        BY <2>1, <4>1
      <4>3. v \in RB!Listeners /\ v \notin RB!Listeners'
        BY <2>2, <2>4, <4>2 DEF RB!Listeners, RB!Listening
      <4>4. QED
        BY <4>3
    <3>3. QED
      BY <3>1, <3>2
  <2>7. QED
    BY <2>3, <2>5, <2>6 DEF RB!Monitor!Notify
<1>7. QED
  BY <1>1, <1>2, <1>3, <1>4, <1>5, <1>6 DEF RB!Next, RB!Waiting, RB!Monitor!Next

(* "Guarantee: no missed signals": giving up the lock and starting to      *)
(* listen is one step to every other thread, and a notify never passes by  *)
(* all the threads that listen.                                            *)
THEOREM ConditionImplementsMonitor == RB!Spec => ImplementsMonitor
<1>1. RB!Init => RB!Monitor!Init
  BY MonitorParameters DEF RB!Init, RB!Monitor!Init, RB!Owner, RB!Listeners, RB!Listening
<1>2. QED
  BY SpecMonitorIInv, MonitorSimulation, <1>1, PTL
     DEF RB!Spec, ImplementsMonitor, RB!ImplementsMonitor, RB!Monitor!Spec

-----------------------------------------------------------------------------
(* The reusable barrier *)

\* Whoever is counted in the present epoch waits for its end.
StepInv ==
  \A t \in Threads :
    /\ arrived[t] \subseteq Nat
    /\ \A e \in arrived[t] : e < round \/ (e = round /\ step[t] = "waiting" /\ turn[t] = round)
    /\ turn[t] \in Nat /\ turn[t] <= round
    /\ step[t] = "leaving" => turn[t] < round

\* count is what is missing in this epoch, and nothing was missing in those before.
CountInv ==
  /\ round \in Nat /\ missing \in 1 .. InitialCount
  /\ \A e \in 0 .. round :
       /\ IsFiniteSet(RB!CountedIn(e))
       /\ Cardinality(RB!CountedIn(e)) = IF e = round THEN InitialCount - missing
                                                      ELSE InitialCount

BarrierTypeOK == /\ step \in [Threads -> {"idle", "arriving", "waiting", "leaving"}]
                 /\ turn \in [Threads -> Nat]
                 /\ arrived \in [Threads -> SUBSET Nat]

BarrierIInv == BarrierTypeOK /\ StepInv /\ CountInv

LEMMA InitBarrierIInv == RB!BarrierInit => BarrierIInv
<1> SUFFICES ASSUME RB!BarrierInit PROVE BarrierIInv
  OBVIOUS
<1> USE MonitorParameters DEF RB!BarrierInit
<1>1. BarrierTypeOK /\ StepInv
  BY DEF BarrierTypeOK, StepInv
<1>2. \A e : RB!CountedIn(e) = {}
  BY DEF RB!CountedIn
<1>3. \A e : IsFiniteSet(RB!CountedIn(e)) /\ Cardinality(RB!CountedIn(e)) = 0
  BY <1>2, FS_EmptySet
<1>4. CountInv
  BY <1>3 DEF CountInv
<1> QED BY <1>1, <1>4 DEF BarrierIInv

\* A thread is counted: the last of an epoch begins the next.
LEMMA ArriveBarrierIInv ==
  ASSUME BarrierIInv, NEW t \in Threads, RB!ArriveEarly(t) \/ RB!ArriveLast(t)
  PROVE  BarrierIInv'
<1> USE MonitorParameters
<1>1. /\ BarrierTypeOK /\ StepInv /\ CountInv
      /\ round \in Nat /\ missing \in 1 .. InitialCount /\ InitialCount \in Nat
  BY DEF BarrierIInv, CountInv
<1>2. /\ step[t] = "arriving"
      /\ turn' = [turn EXCEPT ![t] = round]
      /\ arrived' = [arrived EXCEPT ![t] = @ \cup {round}]
  BY DEF RB!ArriveEarly, RB!ArriveLast, RB!At
<1>3. \/ /\ missing > 1 /\ missing' = missing - 1 /\ round' = round
         /\ step' = [step EXCEPT ![t] = "waiting"]
      \/ /\ missing = 1 /\ missing' = InitialCount /\ round' = round + 1
         /\ step' = [step EXCEPT ![t] = "leaving"]
  BY DEF RB!ArriveEarly, RB!ArriveLast, RB!At
<1>4. BarrierTypeOK'
  BY <1>1, <1>2, <1>3 DEF BarrierTypeOK
<1>5. \A u \in Threads : /\ arrived'[u] = IF u = t THEN arrived[t] \cup {round} ELSE arrived[u]
                         /\ turn'[u] = IF u = t THEN round ELSE turn[u]
                         /\ u # t => step'[u] = step[u]
                         /\ step'[t] = IF missing = 1 THEN "leaving" ELSE "waiting"
                         /\ round' = IF missing = 1 THEN round + 1 ELSE round
  BY <1>1, <1>2, <1>3 DEF BarrierTypeOK
<1>6. StepInv'
  BY <1>1, <1>5 DEF StepInv
<1>7. \A e : RB!CountedIn(e)' = IF e = round THEN RB!CountedIn(e) \cup {t} ELSE RB!CountedIn(e)
  BY <1>5 DEF RB!CountedIn
<1>8. round \notin arrived[t] /\ \A u \in Threads : round + 1 \notin arrived[u]
  BY <1>1, <1>2 DEF StepInv
<1>9. t \notin RB!CountedIn(round) /\ RB!CountedIn(round + 1) = {}
  BY <1>8 DEF RB!CountedIn
<1>10. /\ IsFiniteSet(RB!CountedIn(round) \cup {t})
       /\ Cardinality(RB!CountedIn(round) \cup {t}) = InitialCount - missing + 1
  <2>1. /\ IsFiniteSet(RB!CountedIn(round))
        /\ Cardinality(RB!CountedIn(round)) = InitialCount - missing
    BY <1>1 DEF CountInv
  <2> QED BY <1>9, <2>1, FS_AddElement
<1>11. IsFiniteSet(RB!CountedIn(round + 1)) /\ Cardinality(RB!CountedIn(round + 1)) = 0
  BY <1>9, FS_EmptySet
<1>12. ASSUME NEW e \in 0 .. round'
       PROVE  /\ IsFiniteSet(RB!CountedIn(e)')
              /\ Cardinality(RB!CountedIn(e)') =
                    IF e = round' THEN InitialCount - missing' ELSE InitialCount
  <2>1. CASE e = round
    <3>1. RB!CountedIn(e)' = RB!CountedIn(round) \cup {t}
      BY <1>7, <2>1
    <3> QED BY <1>1, <1>3, <1>10, <2>1, <3>1
  <2>2. CASE e = round + 1
    <3>1. RB!CountedIn(e)' = RB!CountedIn(round + 1)
      BY <1>1, <1>7, <2>2
    <3>2. round' = round + 1 /\ missing' = InitialCount
      BY <1>1, <1>3, <2>2
    <3> QED BY <1>1, <1>11, <2>2, <3>1, <3>2
  <2>3. CASE e < round
    <3>1. RB!CountedIn(e)' = RB!CountedIn(e) /\ e \in 0 .. round /\ e # round /\ e # round'
      BY <1>1, <1>3, <1>7, <2>3
    <3> QED BY <1>1, <3>1 DEF CountInv
  <2> QED BY <1>1, <1>3, <2>1, <2>2, <2>3
<1>13. CountInv'
  <2>1. round' \in Nat /\ missing' \in 1 .. InitialCount
    BY <1>1, <1>3
  <2> QED BY <1>12, <2>1 DEF CountInv
<1> QED BY <1>4, <1>6, <1>13 DEF BarrierIInv

LEMMA NextBarrierIInv == BarrierIInv /\ [RB!BarrierNext]_(RB!allVars) => BarrierIInv'
<1> SUFFICES ASSUME BarrierIInv, [RB!BarrierNext]_(RB!allVars) PROVE BarrierIInv'
  OBVIOUS
<1> USE MonitorParameters
<1>1. ASSUME UNCHANGED <<missing, round, turn, arrived>>,
             \/ step' = step
             \/ \E t \in Threads :
                  \/ step[t] = "idle" /\ step' = [step EXCEPT ![t] = "arriving"]
                  \/ /\ step[t] = "waiting" /\ round > turn[t]
                     /\ step' = [step EXCEPT ![t] = "leaving"]
                  \/ step[t] = "leaving" /\ step' = [step EXCEPT ![t] = "idle"]
      PROVE  BarrierIInv'
  <2>1. BarrierTypeOK'
    BY <1>1 DEF BarrierIInv, BarrierTypeOK
  <2>2. StepInv'
    BY <1>1 DEF BarrierIInv, StepInv, BarrierTypeOK, CountInv
  <2>3. \A e : RB!CountedIn(e)' = RB!CountedIn(e)
    BY <1>1 DEF RB!CountedIn
  <2>4. CountInv'
    BY <1>1, <2>3 DEF BarrierIInv, CountInv
  <2> QED BY <2>1, <2>2, <2>4 DEF BarrierIInv
<1>2. ASSUME NEW t \in Participants, RB!Sync(t) \/ RB!Body(t) PROVE BarrierIInv'
  <2>1. t \in Threads
    OBVIOUS
  <2>2. CASE RB!ArriveEarly(t) \/ RB!ArriveLast(t)
    BY <2>1, <2>2, ArriveBarrierIInv
  <2>3. CASE RB!Sync(t)
    BY <1>1, <2>1, <2>3 DEF RB!Sync, RB!At
  <2>4. CASE RB!StopWaiting(t)
    BY <1>1, <2>1, <2>4 DEF RB!StopWaiting, RB!At
  <2>5. CASE RB!SyncReturn(t)
    BY <1>1, <2>1, <2>5 DEF RB!SyncReturn, RB!At
  <2>6. CASE RB!KeepWaiting(t) \/ RB!InWait(t)
    BY <1>1, <2>6 DEF RB!KeepWaiting, RB!InWait, RB!barrier
  <2> QED BY <1>2, <2>2, <2>3, <2>4, <2>5, <2>6 DEF RB!Body
<1>3. CASE UNCHANGED RB!allVars
  BY <1>1, <1>3 DEF RB!allVars, RB!barrier
<1> QED BY <1>2, <1>3 DEF RB!BarrierNext

\* The barrier calls its Condition in an order that Condition allows.
LEMMA BarrierCalls == [RB!BarrierNext]_(RB!allVars) => [RB!Next]_(RB!vars)
<1> SUFFICES ASSUME NEW t \in Participants, RB!Sync(t) \/ RB!Body(t)
             PROVE  [RB!Next]_(RB!vars)
  BY DEF RB!BarrierNext, RB!allVars
<1>1. t \in Threads /\ RB!All \in Limits
  BY MonitorParameters DEF RB!All
<1> QED BY <1>1 DEF RB!Next, RB!Sync, RB!Body, RB!ArriveEarly,
                    RB!ArriveLast, RB!KeepWaiting, RB!StopWaiting, RB!SyncReturn, RB!InWait

(* What is proved of a Condition holds of the barrier's: its ASSERTs, and  *)
(* that its queue holds the sleepers.  sync() of kernel/barrier.h calls    *)
(* wait() and notifyAll() with the lock held only.                         *)
THEOREM BarrierUsesCondition ==
  RB!BarrierSpec => RB!Spec /\ [](RB!LockIsMine /\ RB!QueueExact)
<1>1. RB!BarrierInit => RB!Init
  BY DEF RB!BarrierInit
<1>2. MonitorIInv => RB!LockIsMine /\ RB!QueueExact
  BY DEF MonitorIInv
<1> QED BY <1>1, <1>2, BarrierCalls, SpecMonitorIInv, PTL DEF RB!BarrierSpec, RB!Spec

(* The barrier of kernel/barrier.h lets nobody out of an epoch before      *)
(* InitialCount threads, each counted once, have come to it, even if a     *)
(* fast thread is in the next sync() already; and sync()'s ASSERT that     *)
(* count is not 0 holds.                                                   *)
THEOREM BarrierHolds == RB!BarrierSpec => [](NobodyPassesEarly /\ missing # 0)
<1>1. BarrierIInv => NobodyPassesEarly /\ missing # 0
  <2> SUFFICES ASSUME BarrierIInv PROVE NobodyPassesEarly /\ missing # 0
    OBVIOUS
  <2>1. missing # 0
    BY MonitorParameters DEF BarrierIInv, CountInv
  <2>2. ASSUME NEW t \in Threads, step[t] = "leaving", NEW e \in 0 .. turn[t]
        PROVE  RB!Cardinality(RB!CountedIn(e)) >= InitialCount
    <3>1. e \in 0 .. round /\ e # round
      BY <2>2 DEF BarrierIInv, StepInv, CountInv
    <3>2. Cardinality(RB!CountedIn(e)) = InitialCount
      BY <3>1 DEF BarrierIInv, CountInv
    <3> QED BY <3>2, MonitorParameters, SameCardinality
  <2> QED BY <2>1, <2>2 DEF NobodyPassesEarly, RB!NobodyPassesEarly
<1> QED BY <1>1, InitBarrierIInv, NextBarrierIInv, PTL DEF RB!BarrierSpec
=============================================================================
