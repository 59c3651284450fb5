---------------------- MODULE InterruptSafeLockProofs ----------------------
(***************************************************************************)
(* "Is this correct?" (kernel/atomic.h).  For any number of cores: the     *)
(* inductive invariant of InterruptSafeLock, mutual exclusion, the absence *)
(* of self-deadlock, the restoration of the caller's interrupt state, and  *)
(* the implementation of Mutex.  And a core that waits for such a lock, or *)
(* for readyQ, with monitor and mwait is not left asleep beside work.      *)
(***************************************************************************)
EXTENDS MCInterruptSafeLock, TLAPS

\* taken is set exactly while somebody holds the lock.
TakenInv == taken <=> \E x \in Contexts : Holds(x)

\* A thread past Interrupts::disable() runs with interrupts off, so that no
\* handler can be on top of it; a handler always runs with interrupts off.
FlagInv ==
  \A c \in Cores :
    /\ pc[<<c, "task">>] \in Masked => ~iflag[c] /\ level[c] = "task"
    /\ level[c] = "irq" => ~iflag[c]
    /\ level[c] = "task" => pc[<<c, "irq">>] = "out"
    /\ pc[<<c, "irq">>] # "out" => ~entryIF[<<c, "irq">>]
    /\ pc[<<c, "task">>] = "disable" /\ level[c] = "task" =>
         (entryIF[<<c, "task">>] <=> iflag[c])
    /\ pc[<<c, "task">>] = "disable" /\ level[c] = "irq" =>
         entryIF[<<c, "task">>]

\* From disable to restore the local remembers the caller's IF, and so does
\* the shared member while its writer holds the lock.
MemoryInv ==
  \A x \in Contexts :
    /\ pc[x] \in Masked => (wasDisabled[x] <=> ~entryIF[x])
    /\ pc[x] = "critical" => (was <=> ~entryIF[x])

IInv == TypeOK /\ MutualExclusion /\ TakenInv /\ FlagInv /\ MemoryInv

-----------------------------------------------------------------------------
LEMMA InitIInv == Init => IInv
  BY DEF Init, IInv, TypeOK, MutualExclusion, TakenInv, FlagInv, MemoryInv,
         Holds, Holding, Masked, Contexts, Levels, Labels

LEMMA NextIInv == IInv /\ [Next]_vars => IInv'
<1> SUFFICES ASSUME IInv, [Next]_vars PROVE IInv'
  OBVIOUS
<1> USE DEF IInv, Goto, Contexts, Levels
<1>1. ASSUME NEW c \in Cores, NEW l \in Levels, level[c] = l, CallLock(c, l)
      PROVE  IInv'
  <2> USE <1>1 DEF CallLock
  <2>1. TypeOK'
    BY DEF TypeOK, Labels
  <2>2. MutualExclusion'
    BY DEF TypeOK, MutualExclusion, TakenInv, Holds, Holding
  <2>3. TakenInv'
    BY DEF TypeOK, MutualExclusion, TakenInv, Holds, Holding
  <2>4. FlagInv'
    <3> SUFFICES ASSUME NEW d \in Cores PROVE FlagInv!(d)'
      BY DEF FlagInv
    <3>1. CASE d # c
      BY <3>1 DEF TypeOK, FlagInv, Masked, Holding
    <3>2. CASE d = c /\ l = "task"
      BY <3>2 DEF TypeOK, FlagInv, MemoryInv, Masked, Holding
    <3>3. CASE d = c /\ l = "irq"
      BY <3>3 DEF TypeOK, FlagInv, MemoryInv, Masked, Holding
    <3>4. QED
      BY <3>1, <3>2, <3>3
  <2>5. MemoryInv'
    <3> SUFFICES ASSUME NEW x \in Contexts PROVE MemoryInv!(x)'
      BY DEF MemoryInv
    <3>1. CASE x = <<c, l>>
      BY <3>1 DEF TypeOK, MemoryInv, Masked, Holding
    <3>2. CASE x # <<c, l>>
      BY <3>2 DEF TypeOK, MemoryInv, MutualExclusion, Masked, Holds, Holding
    <3>3. QED
      BY <3>1, <3>2
  <2>6. QED
    BY <2>1, <2>2, <2>3, <2>4, <2>5
<1>2. ASSUME NEW c \in Cores, NEW l \in Levels, level[c] = l, Disable(c, l)
      PROVE  IInv'
  <2> USE <1>2 DEF Disable
  <2>1. TypeOK'
    BY DEF TypeOK, Labels
  <2>2. MutualExclusion'
    BY DEF TypeOK, MutualExclusion, TakenInv, Holds, Holding
  <2>3. TakenInv'
    BY DEF TypeOK, MutualExclusion, TakenInv, Holds, Holding
  <2>4. FlagInv'
    <3> SUFFICES ASSUME NEW d \in Cores PROVE FlagInv!(d)'
      BY DEF FlagInv
    <3>1. CASE d # c
      BY <3>1 DEF TypeOK, FlagInv, Masked, Holding
    <3>2. CASE d = c /\ l = "task"
      <4>1. pc'[<<c, "task">>] = "exchange" /\ ~iflag'[c] /\ level'[c] = "task"
        BY <3>2 DEF TypeOK
      <4>2. pc'[<<c, "irq">>] = "out"
        BY <3>2 DEF TypeOK, FlagInv
      <4>3. ~(pc'[<<c, "irq">>] # "out")
        BY <4>2
      <4>4. QED
        BY <4>1, <4>2, <4>3, <3>2, ZenonT(30)
    <3>3. CASE d = c /\ l = "irq"
      BY <3>3 DEF TypeOK, FlagInv, MemoryInv, Masked, Holding
    <3>4. QED
      BY <3>1, <3>2, <3>3
  <2>5. MemoryInv'
    <3> SUFFICES ASSUME NEW x \in Contexts PROVE MemoryInv!(x)'
      BY DEF MemoryInv
    <3>1. CASE x = <<c, l>>
      <4>1. pc'[x] = "exchange" /\ wasDisabled'[x] = ~iflag[c] /\ entryIF'[x] = entryIF[x]
        BY <3>1 DEF TypeOK
      <4>2. CASE l = "task"
        BY <3>1, <4>1, <4>2 DEF FlagInv, TypeOK
      <4>3. CASE l = "irq"
        BY <3>1, <4>1, <4>3 DEF FlagInv, TypeOK
      <4>4. QED
        BY <4>2, <4>3
    <3>2. CASE x # <<c, l>>
      BY <3>2 DEF TypeOK, MemoryInv, MutualExclusion, Masked, Holds, Holding
    <3>3. QED
      BY <3>1, <3>2
  <2>6. QED
    BY <2>1, <2>2, <2>3, <2>4, <2>5
<1>3. ASSUME NEW c \in Cores, NEW l \in Levels, level[c] = l, Exchange(c, l)
      PROVE  IInv'
  <2> USE <1>3 DEF Exchange
  <2>1. TypeOK'
    BY DEF TypeOK, Labels
  <2>2. MutualExclusion'
    BY DEF TypeOK, MutualExclusion, TakenInv, Holds, Holding
  <2>3. TakenInv'
    BY DEF TypeOK, MutualExclusion, TakenInv, Holds, Holding
  <2>4. FlagInv'
    <3> SUFFICES ASSUME NEW d \in Cores PROVE FlagInv!(d)'
      BY DEF FlagInv
    <3>1. CASE d # c
      BY <3>1 DEF TypeOK, FlagInv, Masked, Holding
    <3>2. CASE d = c /\ l = "task"
      BY <3>2 DEF TypeOK, FlagInv, MemoryInv, Masked, Holding
    <3>3. CASE d = c /\ l = "irq"
      BY <3>3 DEF TypeOK, FlagInv, MemoryInv, Masked, Holding
    <3>4. QED
      BY <3>1, <3>2, <3>3
  <2>5. MemoryInv'
    <3> SUFFICES ASSUME NEW x \in Contexts PROVE MemoryInv!(x)'
      BY DEF MemoryInv
    <3>1. CASE x = <<c, l>>
      BY <3>1 DEF TypeOK, MemoryInv, Masked, Holding
    <3>2. CASE x # <<c, l>>
      BY <3>2 DEF TypeOK, MemoryInv, MutualExclusion, Masked, Holds, Holding
    <3>3. QED
      BY <3>1, <3>2
  <2>6. QED
    BY <2>1, <2>2, <2>3, <2>4, <2>5
<1>4. ASSUME NEW c \in Cores, NEW l \in Levels, level[c] = l, Retry(c, l)
      PROVE  IInv'
  <2> USE <1>4 DEF Retry
  <2>1. TypeOK'
    BY DEF TypeOK, Labels
  <2>2. MutualExclusion'
    BY DEF TypeOK, MutualExclusion, TakenInv, Holds, Holding
  <2>3. TakenInv'
    BY DEF TypeOK, MutualExclusion, TakenInv, Holds, Holding
  <2>4. FlagInv'
    <3> SUFFICES ASSUME NEW d \in Cores PROVE FlagInv!(d)'
      BY DEF FlagInv
    <3>1. CASE d # c
      BY <3>1 DEF TypeOK, FlagInv, Masked, Holding
    <3>2. CASE d = c /\ l = "task"
      BY <3>2 DEF TypeOK, FlagInv, MemoryInv, Masked, Holding
    <3>3. CASE d = c /\ l = "irq"
      BY <3>3 DEF TypeOK, FlagInv, MemoryInv, Masked, Holding
    <3>4. QED
      BY <3>1, <3>2, <3>3
  <2>5. MemoryInv'
    <3> SUFFICES ASSUME NEW x \in Contexts PROVE MemoryInv!(x)'
      BY DEF MemoryInv
    <3>1. CASE x = <<c, l>>
      BY <3>1 DEF TypeOK, MemoryInv, Masked, Holding
    <3>2. CASE x # <<c, l>>
      BY <3>2 DEF TypeOK, MemoryInv, MutualExclusion, Masked, Holds, Holding
    <3>3. QED
      BY <3>1, <3>2
  <2>6. QED
    BY <2>1, <2>2, <2>3, <2>4, <2>5
<1>5. ASSUME NEW c \in Cores, NEW l \in Levels, level[c] = l, Won(c, l)
      PROVE  IInv'
  <2> USE <1>5 DEF Won
  <2>1. TypeOK'
    BY DEF TypeOK, Labels
  <2>2. MutualExclusion'
    BY DEF TypeOK, MutualExclusion, TakenInv, Holds, Holding
  <2>3. TakenInv'
    BY DEF TypeOK, MutualExclusion, TakenInv, Holds, Holding
  <2>4. FlagInv'
    <3> SUFFICES ASSUME NEW d \in Cores PROVE FlagInv!(d)'
      BY DEF FlagInv
    <3>1. CASE d # c
      BY <3>1 DEF TypeOK, FlagInv, Masked, Holding
    <3>2. CASE d = c /\ l = "task"
      BY <3>2 DEF TypeOK, FlagInv, MemoryInv, Masked, Holding
    <3>3. CASE d = c /\ l = "irq"
      BY <3>3 DEF TypeOK, FlagInv, MemoryInv, Masked, Holding
    <3>4. QED
      BY <3>1, <3>2, <3>3
  <2>5. MemoryInv'
    <3> SUFFICES ASSUME NEW x \in Contexts PROVE MemoryInv!(x)'
      BY DEF MemoryInv
    <3>1. CASE x = <<c, l>>
      BY <3>1 DEF TypeOK, MemoryInv, Masked, Holding
    <3>2. CASE x # <<c, l>>
      BY <3>2 DEF TypeOK, MemoryInv, MutualExclusion, Masked, Holds, Holding
    <3>3. QED
      BY <3>1, <3>2
  <2>6. QED
    BY <2>1, <2>2, <2>3, <2>4, <2>5
<1>6. ASSUME NEW c \in Cores, NEW l \in Levels, level[c] = l, ReadWas(c, l)
      PROVE  IInv'
  <2> USE <1>6 DEF ReadWas
  <2>1. TypeOK'
    BY DEF TypeOK, Labels
  <2>2. MutualExclusion'
    BY DEF TypeOK, MutualExclusion, TakenInv, Holds, Holding
  <2>3. TakenInv'
    BY DEF TypeOK, MutualExclusion, TakenInv, Holds, Holding
  <2>4. FlagInv'
    <3> SUFFICES ASSUME NEW d \in Cores PROVE FlagInv!(d)'
      BY DEF FlagInv
    <3>1. CASE d # c
      BY <3>1 DEF TypeOK, FlagInv, Masked, Holding
    <3>2. CASE d = c /\ l = "task"
      BY <3>2 DEF TypeOK, FlagInv, MemoryInv, Masked, Holding
    <3>3. CASE d = c /\ l = "irq"
      BY <3>3 DEF TypeOK, FlagInv, MemoryInv, Masked, Holding
    <3>4. QED
      BY <3>1, <3>2, <3>3
  <2>5. MemoryInv'
    <3> SUFFICES ASSUME NEW x \in Contexts PROVE MemoryInv!(x)'
      BY DEF MemoryInv
    <3>1. CASE x = <<c, l>>
      BY <3>1 DEF TypeOK, MemoryInv, Masked, Holding
    <3>2. CASE x # <<c, l>>
      BY <3>2 DEF TypeOK, MemoryInv, MutualExclusion, Masked, Holds, Holding
    <3>3. QED
      BY <3>1, <3>2
  <2>6. QED
    BY <2>1, <2>2, <2>3, <2>4, <2>5
<1>7. ASSUME NEW c \in Cores, NEW l \in Levels, level[c] = l, Release(c, l)
      PROVE  IInv'
  <2> USE <1>7 DEF Release
  <2>1. TypeOK'
    BY DEF TypeOK, Labels
  <2>2. MutualExclusion'
    BY DEF TypeOK, MutualExclusion, TakenInv, Holds, Holding
  <2>3. TakenInv'
    BY DEF TypeOK, MutualExclusion, TakenInv, Holds, Holding
  <2>4. FlagInv'
    <3> SUFFICES ASSUME NEW d \in Cores PROVE FlagInv!(d)'
      BY DEF FlagInv
    <3>1. CASE d # c
      BY <3>1 DEF TypeOK, FlagInv, Masked, Holding
    <3>2. CASE d = c /\ l = "task"
      BY <3>2 DEF TypeOK, FlagInv, MemoryInv, Masked, Holding
    <3>3. CASE d = c /\ l = "irq"
      BY <3>3 DEF TypeOK, FlagInv, MemoryInv, Masked, Holding
    <3>4. QED
      BY <3>1, <3>2, <3>3
  <2>5. MemoryInv'
    <3> SUFFICES ASSUME NEW x \in Contexts PROVE MemoryInv!(x)'
      BY DEF MemoryInv
    <3>1. CASE x = <<c, l>>
      BY <3>1 DEF TypeOK, MemoryInv, Masked, Holding
    <3>2. CASE x # <<c, l>>
      BY <3>2 DEF TypeOK, MemoryInv, MutualExclusion, Masked, Holds, Holding
    <3>3. QED
      BY <3>1, <3>2
  <2>6. QED
    BY <2>1, <2>2, <2>3, <2>4, <2>5
<1>8. ASSUME NEW c \in Cores, NEW l \in Levels, level[c] = l, Restore(c, l)
      PROVE  IInv'
  <2> USE <1>8 DEF Restore
  <2>1. TypeOK'
    BY DEF TypeOK, Labels
  <2>2. MutualExclusion'
    BY DEF TypeOK, MutualExclusion, TakenInv, Holds, Holding
  <2>3. TakenInv'
    BY DEF TypeOK, MutualExclusion, TakenInv, Holds, Holding
  <2>4. FlagInv'
    <3> SUFFICES ASSUME NEW d \in Cores PROVE FlagInv!(d)'
      BY DEF FlagInv
    <3>1. CASE d # c
      BY <3>1 DEF TypeOK, FlagInv, Masked, Holding
    <3>2. CASE d = c /\ l = "task"
      BY <3>2 DEF TypeOK, FlagInv, MemoryInv, Masked, Holding
    <3>3. CASE d = c /\ l = "irq"
      BY <3>3 DEF TypeOK, FlagInv, MemoryInv, Masked, Holding
    <3>4. QED
      BY <3>1, <3>2, <3>3
  <2>5. MemoryInv'
    <3> SUFFICES ASSUME NEW x \in Contexts PROVE MemoryInv!(x)'
      BY DEF MemoryInv
    <3>1. CASE x = <<c, l>>
      BY <3>1 DEF TypeOK, MemoryInv, Masked, Holding
    <3>2. CASE x # <<c, l>>
      BY <3>2 DEF TypeOK, MemoryInv, MutualExclusion, Masked, Holds, Holding
    <3>3. QED
      BY <3>1, <3>2
  <2>6. QED
    BY <2>1, <2>2, <2>3, <2>4, <2>5
<1>9. ASSUME NEW c \in Cores, FlipIF(c) \/ Interrupt(c) \/ Iret(c)
      PROVE  IInv'
  <2> USE <1>9 DEF FlipIF, Interrupt, Iret
  <2>1. TypeOK'
    BY DEF TypeOK
  <2>2. MutualExclusion' /\ TakenInv' /\ MemoryInv'
    BY DEF MutualExclusion, TakenInv, MemoryInv, Holds
  <2>3. FlagInv'
    <3> SUFFICES ASSUME NEW d \in Cores PROVE FlagInv!(d)'
      BY DEF FlagInv
    <3>1. CASE d # c
      BY <3>1 DEF TypeOK, FlagInv, Masked, Holding
    <3>2. CASE d = c /\ FlipIF(c)
      BY <3>2 DEF TypeOK, FlagInv, Masked, Holding
    <3>3. CASE d = c /\ Interrupt(c)
      BY <3>3 DEF TypeOK, FlagInv, Masked, Holding
    <3>4. CASE d = c /\ Iret(c)
      BY <3>4 DEF TypeOK, FlagInv, Masked, Holding
    <3>5. QED
      BY <3>1, <3>2, <3>3, <3>4
  <2>4. QED
    BY <2>1, <2>2, <2>3
<1>10. CASE UNCHANGED vars
  BY <1>10 DEF vars, TypeOK, MutualExclusion, TakenInv, FlagInv, MemoryInv, Holds
<1>11. QED
  BY <1>1, <1>2, <1>3, <1>4, <1>5, <1>6, <1>7, <1>8, <1>9, <1>10
     DEF Next, Step, LockStep

-----------------------------------------------------------------------------
(* IInv is an invariant of the specification.                              *)
LEMMA SpecIInv == Spec => []IInv
  BY InitIInv, NextIInv, PTL DEF Spec

(* No two contexts, of the same core or of different ones, are ever both   *)
(* between the exchange that lock() won and the clearing of taken.         *)
THEOREM Exclusion == Spec => []MutualExclusion
  BY SpecIInv, PTL DEF IInv

(* A handler never finds the lock held by the thread it interrupted, so a  *)
(* core cannot spin against itself.                                        *)
THEOREM NoSelfDeadlock == Spec => []HolderNotInterrupted
<1>1. IInv => HolderNotInterrupted
  BY DEF IInv, FlagInv, HolderNotInterrupted, Holds, Masked, Holding
<1>2. QED
  BY <1>1, SpecIInv, PTL

(* The last step of unlock() leaves the core's interrupt flag as the       *)
(* caller of the matching lock() had it.                                   *)
THEOREM InterruptStateRestored == Spec => CallerStateRestored
<1> DEFINE Restored == \A c \in Cores, l \in Levels :
             pc[<<c, l>>] = "restore" /\ pc'[<<c, l>>] = "out"
                => iflag'[c] = entryIF[<<c, l>>]
<1>1. IInv /\ [Next]_vars => [Restored]_vars
  <2> SUFFICES ASSUME IInv, Next, NEW c \in Cores, NEW l \in Levels,
                      pc[<<c, l>>] = "restore", pc'[<<c, l>>] = "out"
               PROVE  iflag'[c] = entryIF[<<c, l>>]
    OBVIOUS
  <2>1. <<c, l>> \in Contexts /\ pc \in [Contexts -> Labels]
    BY DEF IInv, TypeOK, Contexts
  <2>2. PICK d \in Cores, m \in Levels : Step(d, m)
    <3>1. ASSUME NEW d \in Cores, FlipIF(d) \/ Interrupt(d) \/ Iret(d)
          PROVE  FALSE
      BY <3>1 DEF FlipIF, Interrupt, Iret
    <3>2. QED
      BY <3>1 DEF Next
  <2>3. \E label : pc' = [pc EXCEPT ![<<d, m>>] = label]
    <3>1. CASE CallLock(d, m) \/ Disable(d, m) \/ Exchange(d, m) \/ Retry(d, m)
      BY <3>1 DEF CallLock, Disable, Exchange, Retry, Goto
    <3>2. CASE Won(d, m) \/ ReadWas(d, m) \/ Release(d, m) \/ Restore(d, m)
      BY <3>2 DEF Won, ReadWas, Release, Restore, Goto
    <3>3. QED
      BY <2>2, <3>1, <3>2 DEF Step, LockStep
  <2>4. <<c, l>> = <<d, m>>
    <3>1. ASSUME <<c, l>> # <<d, m>> PROVE pc'[<<c, l>>] = pc[<<c, l>>]
      BY <2>1, <2>3, <3>1
    <3>2. QED
      BY <3>1
  <2>5. c = d /\ l = m
    BY <2>4
  <2>6. Restore(c, l)
    BY <2>2, <2>5 DEF Step, LockStep, CallLock, Disable, Exchange, Retry, Won,
                      ReadWas, Release
  <2>7. entryIF[<<c, l>>] = (iflag[c] \/ ~wasDisabled[<<c, l>>])
    <3>1. pc[<<c, l>>] \in Masked
      BY DEF Masked
    <3>2. wasDisabled[<<c, l>>] <=> ~entryIF[<<c, l>>]
      BY <2>1, <3>1 DEF IInv, MemoryInv
    <3>3. ~iflag[c]
      <4>1. CASE l = "task"
        BY <3>1, <4>1 DEF IInv, FlagInv
      <4>2. CASE l = "irq"
        <5>1. level[c] \in Levels /\ level[c] # "task"
          BY <4>2 DEF IInv, TypeOK, FlagInv
        <5>2. QED
          BY <5>1 DEF IInv, FlagInv, Levels
      <4>3. QED
        BY <4>1, <4>2 DEF Levels
    <3>4. /\ entryIF[<<c, l>>] \in BOOLEAN
          /\ wasDisabled[<<c, l>>] \in BOOLEAN
          /\ iflag[c] \in BOOLEAN
      BY <2>1 DEF IInv, TypeOK
    <3>5. QED
      BY <3>2, <3>3, <3>4
  <2>8. iflag' = [iflag EXCEPT ![c] = iflag[c] \/ ~wasDisabled[<<c, l>>]]
    BY <2>6 DEF Restore
  <2>9. QED
    BY <2>7, <2>8 DEF IInv, TypeOK
<1>2. QED
  BY <1>1, SpecIInv, PTL DEF CallerStateRestored, Spec

(* The lock implements Mutex: a step that wins the exchange acquires, the  *)
(* step that clears taken releases, and every other step leaves the owner. *)
THEOREM LockImplementsMutex == Spec => ImplementsMutex
<1>1. Init => Owner = NoOwner
  BY DEF Init, Owner, Holds, Holding
<1>2. ASSUME IInv, IInv', [Next]_vars
      PROVE  [M!Next]_Owner
  <2>1. ASSUME NEW x \in Contexts, Holds(x) PROVE Owner = x
    BY <1>2, <2>1 DEF Owner, IInv, MutualExclusion
  <2>2. ASSUME NEW x \in Contexts, Holds(x)' PROVE Owner' = x
    BY <1>2, <2>2 DEF Owner, IInv, MutualExclusion
  <2>3. ~taken => Owner = NoOwner
    BY <1>2 DEF IInv, TakenInv, Owner
  <2>4. ~taken' => Owner' = NoOwner
    BY <1>2 DEF IInv, TakenInv, Owner
  <2>5. ASSUME NEW c \in Cores, NEW l \in Levels, Exchange(c, l), ~taken
        PROVE  M!Acquire(<<c, l>>)
    <3>1. Holds(<<c, l>>)'
      BY <1>2, <2>5 DEF Exchange, Goto, Holds, Holding, IInv, TypeOK, Contexts
    <3>2. QED
      BY <2>2, <2>3, <2>5, <3>1 DEF M!Acquire, Contexts
  <2>6. ASSUME NEW c \in Cores, NEW l \in Levels, Release(c, l)
        PROVE  M!Release(<<c, l>>)
    <3>1. Holds(<<c, l>>) /\ ~taken'
      BY <2>6 DEF Release, Holds, Holding
    <3>2. QED
      BY <2>1, <2>4, <3>1 DEF M!Release, Contexts
  <2>7. ASSUME \A x \in Contexts : Holds(x)' <=> Holds(x)
        PROVE  Owner' = Owner
    <3>1. CASE \E x \in Contexts : Holds(x)
      BY <2>1, <2>2, <2>7, <3>1
    <3>2. CASE ~\E x \in Contexts : Holds(x)
      BY <2>7, <3>2 DEF Owner
    <3>3. QED
      BY <3>1, <3>2
  <2>8. ASSUME NEW c \in Cores, NEW l \in Levels,
               \/ CallLock(c, l) \/ Disable(c, l) \/ (Exchange(c, l) /\ taken)
               \/ Retry(c, l) \/ Won(c, l) \/ ReadWas(c, l) \/ Restore(c, l)
        PROVE  \A x \in Contexts : Holds(x)' <=> Holds(x)
    BY <1>2, <2>8 DEF CallLock, Disable, Exchange, Retry, Won, ReadWas, Restore,
                      Goto, Holds, Holding, IInv, TypeOK, Contexts
  <2>9. ASSUME \/ \E c \in Cores : FlipIF(c) \/ Interrupt(c) \/ Iret(c)
               \/ UNCHANGED vars
        PROVE  \A x \in Contexts : Holds(x)' <=> Holds(x)
    BY <2>9 DEF FlipIF, Interrupt, Iret, vars, Holds
  <2>10. CASE \E c \in Cores, l \in Levels : Step(c, l)
    <3>1. PICK c \in Cores, l \in Levels : Step(c, l)
      BY <2>10
    <3>2. <<c, l>> \in Contexts
      BY DEF Contexts
    <3>3. CASE Exchange(c, l) /\ ~taken
      BY <2>5, <3>2, <3>3 DEF M!Next
    <3>4. CASE Release(c, l)
      BY <2>6, <3>2, <3>4 DEF M!Next
    <3>5. CASE ~(Exchange(c, l) /\ ~taken) /\ ~Release(c, l)
      <4>1. \/ CallLock(c, l) \/ Disable(c, l) \/ (Exchange(c, l) /\ taken)
            \/ Retry(c, l) \/ Won(c, l) \/ ReadWas(c, l) \/ Restore(c, l)
        BY <3>1, <3>5 DEF Step, LockStep
      <4>2. \A x \in Contexts : Holds(x)' <=> Holds(x)
        BY <2>8, <4>1
      <4>3. QED
        BY <2>7, <4>2
    <3>6. QED
      BY <3>3, <3>4, <3>5
  <2>11. CASE UNCHANGED vars \/ \E c \in Cores : FlipIF(c) \/ Interrupt(c) \/ Iret(c)
    BY <2>7, <2>9, <2>11
  <2>12. QED
    BY <1>2, <2>10, <2>11 DEF Next
<1>3. QED
  BY <1>1, <1>2, SpecIInv, PTL DEF Spec, ImplementsMutex, M!Spec, M!Init

-----------------------------------------------------------------------------
(* How the cores wait for such a lock, and for the queue that one guards:  *)
(* the inductive invariant of IdleLoop.                                    *)
IdleLabels == {"run", "lock", "exchange", "locked", "unlock", "mwait", "asleep"}
IdleJobs == {"remove", "add", "empty"}
MonitorAddresses == {"none", "last", "taken", "other"}

IdleTypeOK == /\ queueTaken \in BOOLEAN
              /\ items \in Nat
              /\ at \in [Cores -> IdleLabels]
              /\ job \in [Cores -> IdleJobs]
              /\ enabled \in [Cores -> BOOLEAN]
              /\ armed \in [Cores -> MonitorAddresses]
              /\ hit \in [Cores -> BOOLEAN]

HoldsQueue(c) == at[c] \in {"locked", "unlock"}

\* readyQ is locked exactly while one core holds it.
QueueHolderInv ==
  /\ queueTaken <=> \E c \in Cores : HoldsQueue(c)
  /\ \A c, d \in Cores : HoldsQueue(c) /\ HoldsQueue(d) => c = d

\* Between the monitor on the lock and the sleep, only a handler moves it.
MonitorInv ==
  \A c \in Cores : at[c] \in {"exchange", "locked", "unlock", "mwait", "asleep"} =>
    armed[c] = "taken" \/ (armed[c] = "other" /\ enabled[c])

\* remove() has found nothing only after it has looked, and what it has found
\* stays true while the core has the lock.
EmptyInv ==
  \A c \in Cores : job[c] = "empty" =>
    /\ at[c] \notin {"lock", "exchange", "locked"}
    /\ at[c] = "unlock" => items = 0

\* The monitor on the lock notices whatever ends the reason to wait.  Nobody
\* adds a thread without taking the lock, so a lock that has not been written
\* to stands for a queue that is still empty.
WaitInv ==
  \A c \in Cores : at[c] \in {"mwait", "asleep"} /\ armed[c] = "taken" /\ ~hit[c] =>
    IF job[c] = "empty" THEN items = 0 /\ ~queueTaken ELSE queueTaken

IdleIInv == IdleTypeOK /\ QueueHolderInv /\ MonitorInv /\ EmptyInv /\ WaitInv

-----------------------------------------------------------------------------
LEMMA InitIdleIInv == Idle!Init => IdleIInv
<1> SUFFICES ASSUME Idle!Init PROVE IdleIInv
  OBVIOUS
<1>1. IdleTypeOK
  BY DEF Idle!Init, IdleTypeOK, IdleLabels, IdleJobs, MonitorAddresses
<1>2. \A c \in Cores : at[c] = "run" /\ job[c] = "add"
  BY DEF Idle!Init
<1>3. QueueHolderInv
  BY <1>2 DEF Idle!Init, QueueHolderInv, HoldsQueue
<1>4. MonitorInv /\ EmptyInv /\ WaitInv
  BY <1>2 DEF MonitorInv, EmptyInv, WaitInv
<1> QED BY <1>1, <1>3, <1>4 DEF IdleIInv

\* What a write to an address does to the monitors.
LEMMA WrittenHits ==
  ASSUME IdleTypeOK, NEW c \in Cores, NEW address, Idle!Written(c, address)
  PROVE  /\ armed' = armed
         /\ hit' \in [Cores -> BOOLEAN]
         /\ \A d \in Cores : hit[d] => hit'[d]
         /\ \A d \in Cores : armed[d] = address /\ d # c => hit'[d]
  BY DEF IdleTypeOK, Idle!Written

LEMMA NextIdleIInv == IdleIInv /\ [Idle!Next]_(Idle!vars) => IdleIInv'
<1> SUFFICES ASSUME IdleIInv, [Idle!Next]_(Idle!vars) PROVE IdleIInv'
  OBVIOUS
<1> USE DEF IdleIInv, IdleTypeOK, Idle!Goto, IdleLabels, IdleJobs,
            MonitorAddresses, Idle!queue, Idle!core, HoldsQueue
<1>1. ASSUME NEW c \in Cores, Idle!LookForThread(c) PROVE IdleIInv'
  BY <1>1 DEF Idle!LookForThread, Idle!Monitor, QueueHolderInv, MonitorInv,
     EmptyInv, WaitInv
<1>2. ASSUME NEW c \in Cores, NEW flag \in BOOLEAN, Idle!Schedule(c, flag) PROVE IdleIInv'
  BY <1>2 DEF Idle!Schedule, QueueHolderInv, MonitorInv, EmptyInv, WaitInv
<1>3. ASSUME NEW c \in Cores, Idle!MonitorLock(c) PROVE IdleIInv'
  BY <1>3 DEF Idle!MonitorLock, Idle!Monitor, QueueHolderInv, MonitorInv,
     EmptyInv, WaitInv
<1>4. ASSUME NEW c \in Cores, Idle!Exchange(c) PROVE IdleIInv'
  <2>1. /\ armed' = armed /\ hit' \in [Cores -> BOOLEAN]
        /\ \A d \in Cores : armed[d] = "taken" /\ d # c => hit'[d]
    BY <1>4, WrittenHits DEF Idle!Exchange
  <2>2. IdleTypeOK' /\ QueueHolderInv' /\ MonitorInv' /\ EmptyInv'
    BY <1>4, <2>1 DEF Idle!Exchange, QueueHolderInv, MonitorInv, EmptyInv
  <2>3. WaitInv'
    BY <1>4, <2>1 DEF Idle!Exchange, EmptyInv, WaitInv
  <2> QED BY <2>2, <2>3
<1>5. ASSUME NEW c \in Cores, Idle!Add(c) PROVE IdleIInv'
  <2>1. /\ armed' = armed /\ hit' \in [Cores -> BOOLEAN]
        /\ \A d \in Cores : hit[d] => hit'[d]
    BY <1>5, WrittenHits DEF Idle!Add
  <2>2. IdleTypeOK'
    <3>1. items' \in Nat
      BY <1>5 DEF Idle!Add
    <3>2. queueTaken' \in BOOLEAN /\ enabled' \in [Cores -> BOOLEAN]
      BY <1>5 DEF Idle!Add
    <3>3. at' \in [Cores -> IdleLabels] /\ job' \in [Cores -> IdleJobs]
      BY <1>5 DEF Idle!Add
    <3> QED BY <2>1, <3>1, <3>2, <3>3
  <2>3. MonitorInv'
    BY <1>5, <2>1 DEF Idle!Add, MonitorInv
  <2>4. QueueHolderInv'
    <3>1. \A d \in Cores : HoldsQueue(d)' <=> HoldsQueue(d)
      BY <1>5 DEF Idle!Add
    <3> QED BY <1>5, <3>1 DEF Idle!Add, QueueHolderInv
  <2>5. EmptyInv'
    BY <1>5 DEF Idle!Add, QueueHolderInv, EmptyInv
  <2>6. WaitInv'
    BY <1>5, <2>1 DEF Idle!Add, QueueHolderInv, WaitInv
  <2> QED BY <2>2, <2>3, <2>4, <2>5, <2>6
<1>6. ASSUME NEW c \in Cores, Idle!Remove(c) PROVE IdleIInv'
  <2>1. /\ armed' = armed /\ hit' \in [Cores -> BOOLEAN]
        /\ \A d \in Cores : hit[d] => hit'[d]
    BY <1>6, WrittenHits DEF Idle!Remove
  <2>2. IdleTypeOK'
    <3>1. items' \in Nat
      BY <1>6 DEF Idle!Remove
    <3>2. queueTaken' \in BOOLEAN /\ enabled' \in [Cores -> BOOLEAN]
      BY <1>6 DEF Idle!Remove
    <3>3. at' \in [Cores -> IdleLabels] /\ job' \in [Cores -> IdleJobs]
      BY <1>6 DEF Idle!Remove
    <3> QED BY <2>1, <3>1, <3>2, <3>3
  <2>3. MonitorInv'
    BY <1>6, <2>1 DEF Idle!Remove, MonitorInv
  <2>4. QueueHolderInv'
    <3>1. \A d \in Cores : HoldsQueue(d)' <=> HoldsQueue(d)
      BY <1>6 DEF Idle!Remove
    <3> QED BY <1>6, <3>1 DEF Idle!Remove, QueueHolderInv
  <2>5. EmptyInv'
    BY <1>6 DEF Idle!Remove, QueueHolderInv, EmptyInv
  <2>6. WaitInv'
    BY <1>6, <2>1 DEF Idle!Remove, QueueHolderInv, WaitInv
  <2> QED BY <2>2, <2>3, <2>4, <2>5, <2>6
<1>7. ASSUME NEW c \in Cores, Idle!Unlock(c) PROVE IdleIInv'
  <2>1. /\ armed' = armed /\ hit' \in [Cores -> BOOLEAN]
        /\ \A d \in Cores : armed[d] = "taken" /\ d # c => hit'[d]
    BY <1>7, WrittenHits DEF Idle!Unlock
  <2>2. IdleTypeOK' /\ QueueHolderInv' /\ MonitorInv' /\ EmptyInv'
    BY <1>7, <2>1 DEF Idle!Unlock, QueueHolderInv, MonitorInv, EmptyInv
  <2>3. WaitInv'
    BY <1>7, <2>1 DEF Idle!Unlock, EmptyInv, WaitInv
  <2> QED BY <2>2, <2>3
<1>8. ASSUME NEW c \in Cores, Idle!Mwait(c) PROVE IdleIInv'
  BY <1>8 DEF Idle!Mwait, Idle!Again, QueueHolderInv, MonitorInv, EmptyInv,
     WaitInv
<1>9. ASSUME NEW c \in Cores, Idle!WakeUp(c) PROVE IdleIInv'
  BY <1>9 DEF Idle!WakeUp, Idle!Again, QueueHolderInv, MonitorInv, EmptyInv,
     WaitInv
<1>10. ASSUME NEW c \in Cores, Idle!Interrupt(c) PROVE IdleIInv'
  BY <1>10 DEF Idle!Interrupt, Idle!Again, QueueHolderInv, MonitorInv,
     EmptyInv, WaitInv
<1>11. CASE UNCHANGED Idle!vars
  BY <1>11 DEF Idle!vars, QueueHolderInv, MonitorInv, EmptyInv, WaitInv
<1> QED
  BY <1>1, <1>2, <1>3, <1>4, <1>5, <1>6, <1>7, <1>8, <1>9, <1>10,
     <1>11 DEF Idle!Next

-----------------------------------------------------------------------------
(* However many cores wait in block() and lock(), whoever goes on sleeping *)
(* has nothing to do, or can be interrupted.                               *)
THEOREM NoWakeUpIsLost == Idle!Spec => []NoWakeUpLost
<1>1. IdleIInv => NoWakeUpLost
  BY DEF IdleIInv, MonitorInv, WaitInv, NoWakeUpLost, Idle!NoWakeUpLost
<1> QED BY <1>1, InitIdleIInv, NextIdleIInv, PTL DEF Idle!Spec

(* Whoever has found readyQ empty still holds its lock or has left it: the *)
(* lock of readyQ is held by one core at a time.                           *)
THEOREM QueueLockExclusive ==
  Idle!Spec => [](\A c, d \in Cores : HoldsQueue(c) /\ HoldsQueue(d) => c = d)
<1>1. IdleIInv => \A c, d \in Cores : HoldsQueue(c) /\ HoldsQueue(d) => c = d
  BY DEF IdleIInv, QueueHolderInv
<1> QED BY <1>1, InitIdleIInv, NextIdleIInv, PTL DEF Idle!Spec
=============================================================================
