----------------------------- MODULE BootProofs -----------------------------
(***************************************************************************)
(* For any number of cores, and any machine: the kernel is loaded to where *)
(* it was linked, what the BIOS says is understood, no two cores are on    *)
(* the same stack, nothing is used before it is initialised, and the first *)
(* thread is created once.                                                 *)
(***************************************************************************)
EXTENDS Boot, FiniteSetTheorems, TLAPS

\* Before the first core knows what it runs on.
Early == {"mbr", "load", "reset", "pick", "kernelInit"}

\* What the first core initialises by itself, up to the APIC registers and behind.
Alone == {"debug", "tables", "entries", "heap", "uart", "frames", "vmm", "constructors",
          "calls", "threads", "lapic", "smpInitDone"}

\* Where a core that was started has not yet counted itself.
Entering == {"reset", "pick", "kernelInit", "join"}

Joined == {"percore", "timer", "tss", "arrive", "look", "stop", "panic"}

TypeOK == /\ at \in [Ids -> Early \cup Alone \cup Entering \cup Joined
                             \cup {"calibrate", "run", "start", "wait", "off"}]
          /\ stack \in [Ids -> Int]
          /\ running \in Nat /\ id \in Nat

\* The first core: what it has initialised where.
FirstInv ==
  /\ at[0] \notin {"off", "join"}
  /\ at[0] \in Early => did = {}
  /\ at[0] \in {"calibrate", "run", "start", "wait"} \cup Joined => "smpInitDone" \in did

\* running counts the cores 0 to id - 1 until core id has counted itself.
CountInv ==
  /\ at[0] \in Early \cup Alone \cup {"calibrate", "run"} => running = 0
  /\ at[0] = "start" => id >= 1 /\ running = id
  /\ at[0] = "wait" => id >= 1 /\ running \in {id, id + 1}

\* The others: they run only when they have been started, and only the core
\* that the first one waits for is not yet counted.
OthersInv ==
  \A c \in Ids \ {0} :
    /\ at[c] \in {"off"} \cup Entering \cup Joined
    /\ at[c] # "off" => at[0] \in {"start", "wait"} \cup Joined
    /\ at[c] \in Entering => at[0] = "wait" /\ c = id /\ running = id
    /\ at[0] = "start" /\ c >= id => at[c] = "off"
    /\ at[0] = "wait" /\ c > id => at[c] = "off"

\* Which stack belongs to a label.
StackInv ==
  \A c \in Ids :
    stack[c] = IF at[c] \in {"off", "mbr", "load", "reset"} THEN NoStack
               ELSE IF at[c] = "pick" THEN TempStack ELSE c

IInv == TypeOK /\ FirstInv /\ CountInv /\ OthersInv /\ StackInv

-----------------------------------------------------------------------------
LEMMA InitIInv == Init => IInv
<1> SUFFICES ASSUME Init PROVE IInv
  OBVIOUS
<1> USE BootAssumption DEF Early, Alone, Entering, Joined
<1>1. TypeOK
  BY DEF Init, TypeOK, NoStack
<1>2. FirstInv /\ CountInv
  BY DEF Init, FirstInv, CountInv
<1>3. OthersInv /\ StackInv
  BY DEF Init, OthersInv, StackInv
<1> QED BY <1>1, <1>2, <1>3 DEF IInv

\* The order of the initialisations: what comes before the timer is
\* calibrated, and before the first core counts itself.
LEMMA InitOrderFollows ==
  ASSUME NEW n \in 1..(Len(InitOrder) - 1)
  PROVE  /\ InitOrder[n] \in Alone \cup {"calibrate"}
         /\ Following(InitOrder[n]) \in Alone \cup {"calibrate", "run"}
         /\ Following(InitOrder[n]) = "calibrate" => InitOrder[n] = "smpInitDone"
         /\ Following(InitOrder[n]) = "run" => InitOrder[n] = "calibrate"
<1> DEFINE m == CHOOSE k \in 1..(Len(InitOrder) - 1) : InitOrder[k] = InitOrder[n]
<1>1. Len(InitOrder) = 11
  BY DEF InitOrder
<1>2. m \in 1..10 /\ InitOrder[m] = InitOrder[n]
  BY <1>1
<1>3. Following(InitOrder[n]) = InitOrder[1 + m]
  BY DEF Following
<1> HIDE DEF m
<1> QED BY <1>1, <1>2, <1>3 DEF InitOrder, Alone

\* A step of the first core up to the end of its initialisation, on its way alone.
LEMMA FirstAlone ==
  ASSUME IInv, NEW there \in Early \cup Alone \cup {"calibrate", "run"},
         at[0] \in Early \cup Alone \cup {"calibrate"}, at' = [at EXCEPT ![0] = there],
         stack' = [stack EXCEPT ![0] = stack'[0]],
         stack'[0] = IF there \in {"mbr", "load", "reset"} THEN NoStack
                     ELSE IF there = "pick" THEN TempStack ELSE 0,
         there \in Early => did' = {},
         there \in {"calibrate", "run"} => "smpInitDone" \in did',
         running' = running, id' = id
  PROVE  IInv'
<1> USE BootAssumption DEF IInv, TypeOK, Early, Alone, Entering, Joined
<1>1. TypeOK'
  BY DEF NoStack, TempStack
<1>2. FirstInv' /\ CountInv'
  BY DEF FirstInv, CountInv
<1>3. OthersInv'
  BY DEF OthersInv
<1>4. StackInv'
  BY DEF StackInv
<1> QED BY <1>1, <1>2, <1>3, <1>4

\* What the invariant is about does not change.
LEMMA Stutter ==
  ASSUME IInv, UNCHANGED <<at, stack, did, running, id>> PROVE IInv'
BY DEF IInv, TypeOK, FirstInv, CountInv, OthersInv, StackInv

LEMMA FirstIInv == IInv /\ First => IInv'
<1> SUFFICES ASSUME IInv, First PROVE IInv'
  OBVIOUS
<1> USE BootAssumption DEF Goto, disk, config, cores
<1>0. /\ at \in [Ids -> Early \cup Alone \cup Entering \cup Joined
                         \cup {"calibrate", "run", "start", "wait", "off"}]
      /\ stack \in [Ids -> Int] /\ running \in Nat /\ id \in Nat
      /\ at[0] \in Early => did = {}
      /\ stack[0] = IF at[0] \in {"off", "mbr", "load", "reset"} THEN NoStack
                    ELSE IF at[0] = "pick" THEN TempStack ELSE 0
  BY DEF IInv, TypeOK, FirstInv, StackInv
<1>1. CASE ReadParameters
  BY <1>0, <1>1, FirstAlone DEF ReadParameters, Early, Alone
<1>2. CASE JumpToKernel
  BY <1>0, <1>2, FirstAlone DEF JumpToKernel, Early, Alone
<1>3. CASE DebugInit
  BY <1>0, <1>3, FirstAlone DEF DebugInit, Early, Alone
<1>4. CASE FindTables
  BY <1>0, <1>4, FirstAlone DEF FindTables, Early, Alone
<1>5. CASE ConfigDone
  BY <1>0, <1>5, FirstAlone DEF ConfigDone, Early, Alone
<1>6. CASE ReadSector \/ ReadEntry
  BY <1>6, Stutter DEF ReadSector, ReadEntry
<1>7. ASSUME NEW n \in 1..(Len(InitOrder) - 1), InitStep(InitOrder[n]) PROVE IInv'
  <2> DEFINE here == InitOrder[n]
             there == Following(InitOrder[n])
  <2>1. /\ here \in Alone \cup {"calibrate"} /\ there \in Alone \cup {"calibrate", "run"}
        /\ there = "calibrate" => here = "smpInitDone"
        /\ there = "run" => here = "calibrate"
    BY InitOrderFollows
  <2>2. /\ at[0] = here /\ at' = [at EXCEPT ![0] = there] /\ did' = did \cup {here}
        /\ stack' = stack /\ running' = running /\ id' = id
    BY <1>7 DEF InitStep
  <2>3. there \in {"calibrate", "run"} => "smpInitDone" \in did'
    BY <2>1, <2>2 DEF IInv, FirstInv
  <2> HIDE DEF here, there
  <2>4. stack = [stack EXCEPT ![0] = stack[0]] /\ stack[0] = 0 /\ there \notin Early
    BY <1>0, <2>1, <2>2 DEF Early, Alone
  <2> QED BY <2>1, <2>2, <2>3, <2>4, FirstAlone DEF Early
<1>8. CASE CountFirst
  <2> USE DEF Early, Alone, Entering, Joined
  <2>1. TypeOK' /\ FirstInv' /\ CountInv'
    BY <1>8 DEF CountFirst, IInv, TypeOK, FirstInv, CountInv
  <2>2. OthersInv' /\ StackInv'
    BY <1>8 DEF CountFirst, IInv, TypeOK, OthersInv, StackInv
  <2> QED BY <2>1, <2>2 DEF IInv
<1>9. CASE StartNext
  <2> USE DEF Early, Alone, Entering, Joined
  <2>1. /\ at[0] = "start" /\ at'[0] = "wait" /\ id >= 1 /\ running = id
        /\ UNCHANGED <<stack, did, running, id>>
        /\ id \in Ids => at[id] = "off"
    BY <1>9 DEF StartNext, IInv, TypeOK, CountInv, OthersInv
  <2>2. TypeOK' /\ FirstInv' /\ CountInv'
    BY <1>9, <2>1 DEF StartNext, IInv, TypeOK, FirstInv, CountInv
  <2>3. \A c \in Ids \ {0} : at'[c] = at[c] \/ (c = id /\ at'[c] = "reset")
    BY <1>9 DEF StartNext
  <2>4. OthersInv'
    BY <2>1, <2>3 DEF IInv, TypeOK, OthersInv
  <2>5. StackInv'
    BY <2>1, <2>3 DEF IInv, StackInv
  <2> QED BY <2>2, <2>4, <2>5 DEF IInv
<1>10. CASE WaitRunning \/ AllStarted
  <2> USE DEF Early, Alone, Entering, Joined
  <2>1. TypeOK' /\ FirstInv' /\ CountInv'
    BY <1>10 DEF WaitRunning, AllStarted, IInv, TypeOK, FirstInv, CountInv
  <2>2. OthersInv' /\ StackInv'
    BY <1>10 DEF WaitRunning, AllStarted, IInv, TypeOK, CountInv, OthersInv, StackInv
  <2> QED BY <2>1, <2>2 DEF IInv
<1> QED
  BY <1>1, <1>2, <1>3, <1>4, <1>5, <1>6, <1>7, <1>8, <1>9, <1>10 DEF First

LEMMA EveryIInv == ASSUME NEW c \in Ids, IInv, Every(c) PROVE IInv'
<1> USE BootAssumption DEF Goto, disk, config, cores, Early, Alone, Entering, Joined
<1>1. CASE EnterProtectedMode(c)
  <2>1. TypeOK' /\ FirstInv' /\ CountInv'
    BY <1>1 DEF EnterProtectedMode, IInv, TypeOK, FirstInv, CountInv, TempStack
  <2>2. OthersInv' /\ StackInv'
    BY <1>1 DEF EnterProtectedMode, IInv, TypeOK, OthersInv, StackInv
  <2> QED BY <2>1, <2>2 DEF IInv
<1>2. CASE PickKernelStack(c)
  <2>1. "smpInitDone" \in did <=> c # 0
    BY <1>2 DEF PickKernelStack, IInv, FirstInv, OthersInv
  <2>2. stack' = [stack EXCEPT ![c] = c]
    BY <1>2, <2>1 DEF PickKernelStack
  <2>3. TypeOK' /\ FirstInv' /\ CountInv'
    BY <1>2, <2>2 DEF PickKernelStack, IInv, TypeOK, FirstInv, CountInv
  <2>4. OthersInv' /\ StackInv'
    BY <1>2, <2>2 DEF PickKernelStack, IInv, TypeOK, OthersInv, StackInv
  <2> QED BY <2>3, <2>4 DEF IInv
<1>3. CASE KernelInit(c)
  <2>1. "smpInitDone" \in did <=> c # 0
    BY <1>3 DEF KernelInit, IInv, FirstInv, OthersInv
  <2>2. at' = [at EXCEPT ![c] = IF c = 0 THEN "debug" ELSE "join"]
    BY <1>3, <2>1 DEF KernelInit
  <2>3. TypeOK' /\ FirstInv' /\ CountInv'
    BY <1>3, <2>2 DEF KernelInit, IInv, TypeOK, FirstInv, CountInv
  <2>4. OthersInv' /\ StackInv'
    BY <1>3, <2>2 DEF KernelInit, IInv, TypeOK, OthersInv, StackInv
  <2> QED BY <2>3, <2>4 DEF IInv
<1>4. CASE Join(c)
  <2>1. c # 0
    BY <1>4 DEF Join, IInv, FirstInv
  <2>2. TypeOK' /\ FirstInv' /\ CountInv'
    BY <1>4, <2>1 DEF Join, IInv, TypeOK, FirstInv, CountInv, OthersInv
  <2>3. OthersInv' /\ StackInv'
    BY <1>4, <2>1 DEF Join, IInv, TypeOK, OthersInv, StackInv
  <2> QED BY <2>2, <2>3 DEF IInv
<1>5. CASE PerCoreInit(c) \/ PitInit(c) \/ Enable(c) \/ Arrive(c) \/ Look(c)
  <2>1. /\ at[c] \in Joined /\ \E there \in Joined : at' = [at EXCEPT ![c] = there]
        /\ UNCHANGED <<stack, did, running, id>>
    BY <1>5 DEF PerCoreInit, PitInit, Enable, Arrive, Look
  <2>2. TypeOK' /\ FirstInv' /\ CountInv'
    BY <2>1 DEF IInv, TypeOK, FirstInv, CountInv
  <2>3. OthersInv' /\ StackInv'
    BY <2>1 DEF IInv, TypeOK, OthersInv, StackInv
  <2> QED BY <2>2, <2>3 DEF IInv
<1> QED BY <1>1, <1>2, <1>3, <1>4, <1>5 DEF Every

LEMMA NextIInv == IInv /\ [Next]_vars => IInv'
<1>1. IInv /\ UNCHANGED vars => IInv'
  BY Stutter DEF vars, cores
<1> QED BY <1>1, FirstIInv, EveryIInv DEF Next

-----------------------------------------------------------------------------
(* No two cores are on the same stack while they start, whatever numbers   *)
(* the processors have and however many there are.                         *)
THEOREM StacksNotShared == Spec => []StacksExclusive
<1>1. IInv => StacksExclusive
  BY BootAssumption DEF IInv, OthersInv, StackInv, StacksExclusive, NoStack, TempStack, Entering
<1> QED BY <1>1, InitIInv, NextIInv, PTL DEF Spec

(* No core is started while another has not left the temporary stack, or   *)
(* while it runs itself.                                                   *)
THEOREM OneStartsAtATime ==
  Spec => [](at[0] = "start" => \A c \in Ids \ {0} : at[c] \notin Entering
                                                     /\ (c = id => at[c] = "off"))
<1>1. IInv => (at[0] = "start" => \A c \in Ids \ {0} : at[c] \notin Entering
                                                       /\ (c = id => at[c] = "off"))
  BY BootAssumption DEF IInv, TypeOK, OthersInv
<1> QED BY <1>1, InitIInv, NextIInv, PTL DEF Spec

-----------------------------------------------------------------------------
(* What has been initialised where.                                        *)

Initialised == {"debug", "config"} \cup {InitOrder[n] : n \in 1..10}

\* The first core has done what comes before its label, and all of it before
\* another core runs.
DidInv ==
  /\ \A n \in 1..11 : at[0] = InitOrder[n] =>
       {"debug", "config"} \cup {InitOrder[k] : k \in 1..(n - 1)} \subseteq did
  /\ at[0] \in {"start", "wait"} \cup Joined => Initialised \subseteq did
  /\ at[0] \in {"tables", "entries"} => "debug" \in did
  /\ \A c \in Ids : at[c] # "panic"

\* The labels of InitOrder are distinct, so that each is followed by the next.
LEMMA FollowingIsNext ==
  /\ \A n \in 1..10 : Following(InitOrder[n]) = InitOrder[n + 1]
  /\ \A m, n \in 1..11 : InitOrder[m] = InitOrder[n] => m = n
  /\ \A n \in 1..11 : InitOrder[n] \in Alone \cup {"calibrate", "run"}
  /\ \A n \in 1..11 : InitOrder[n] \notin {"debug", "config", "tables", "entries", "join"}
<1>1. Len(InitOrder) = 11
  BY DEF InitOrder
<1>2. \A m, n \in 1..11 : InitOrder[m] = InitOrder[n] => m = n
  BY DEF InitOrder
<1>3. \A n \in 1..11 : /\ InitOrder[n] \in Alone \cup {"calibrate", "run"}
                       /\ InitOrder[n] \notin {"debug", "config", "tables", "entries", "join"}
  BY DEF InitOrder, Alone
<1>4. ASSUME NEW n \in 1..10 PROVE Following(InitOrder[n]) = InitOrder[n + 1]
  <2> DEFINE m == CHOOSE k \in 1..(Len(InitOrder) - 1) : InitOrder[k] = InitOrder[n]
  <2>1. m \in 1..10 /\ InitOrder[m] = InitOrder[n]
    BY <1>1
  <2>2. Following(InitOrder[n]) = InitOrder[1 + m]
    BY DEF Following
  <2> HIDE DEF m
  <2>3. m = n
    BY <1>2, <2>1
  <2> QED BY <2>2, <2>3
<1> QED BY <1>2, <1>3, <1>4

LEMMA InitDidInv == Init => DidInv
  BY BootAssumption, FollowingIsNext DEF Init, DidInv, Alone, Joined

LEMMA NextDidInv == IInv /\ DidInv /\ [Next]_vars => DidInv'
<1> SUFFICES ASSUME IInv, DidInv, [Next]_vars PROVE DidInv'
  OBVIOUS
<1> USE BootAssumption DEF Goto, disk, config, cores
<1>0. at \in [Ids -> Early \cup Alone \cup Entering \cup Joined
                       \cup {"calibrate", "run", "start", "wait", "off"}]
  BY DEF IInv, TypeOK
<1>1. CASE ReadParameters \/ JumpToKernel \/ DebugInit \/ FindTables \/ ConfigDone
  <2>1. at'[0] \in {"load", "reset", "tables", "entries", "heap"}
    BY <1>0, <1>1 DEF ReadParameters, JumpToKernel, DebugInit, FindTables, ConfigDone
  <2>2. at'[0] \in {"tables", "entries"} => "debug" \in did'
    BY <1>0, <1>1 DEF ReadParameters, JumpToKernel, DebugInit, FindTables, ConfigDone, DidInv
  <2>3. at'[0] = "heap" => {"debug", "config"} \subseteq did'
    BY <1>0, <1>1 DEF ReadParameters, JumpToKernel, DebugInit, FindTables, ConfigDone, DidInv
  <2>4. \A c \in Ids : at'[c] # "panic"
    BY <1>0, <1>1 DEF ReadParameters, JumpToKernel, DebugInit, FindTables, ConfigDone, DidInv
  <2>5. InitOrder[1] = "heap" /\ \A n \in 1..11 : at'[0] = InitOrder[n] => n = 1
    BY <2>1, FollowingIsNext DEF InitOrder, Alone
  <2> QED BY <2>1, <2>2, <2>3, <2>4, <2>5 DEF DidInv, Joined
<1>2. CASE ReadSector \/ ReadEntry \/ UNCHANGED vars
  BY <1>2 DEF ReadSector, ReadEntry, vars, DidInv
<1>3. ASSUME NEW n \in 1..(Len(InitOrder) - 1), InitStep(InitOrder[n]) PROVE DidInv'
  <2>1. n \in 1..10 /\ n + 1 \in 1..11
    BY DEF InitOrder
  <2>2. /\ at[0] = InitOrder[n] /\ at'[0] = InitOrder[n + 1]
        /\ did' = did \cup {InitOrder[n]}
        /\ \A c \in Ids \ {0} : at'[c] = at[c]
    BY <1>0, <1>3, <2>1, FollowingIsNext DEF InitStep
  <2>3. {"debug", "config"} \cup {InitOrder[k] : k \in 1..n} \subseteq did'
    <3>1. {"debug", "config"} \cup {InitOrder[k] : k \in 1..(n - 1)} \subseteq did
      <4>1. n \in 1..11
        BY <2>1
      <4> QED BY <2>2, <4>1 DEF DidInv
    <3> QED BY <2>1, <2>2, <3>1
  <2>4. ASSUME NEW m \in 1..11, at'[0] = InitOrder[m] PROVE m - 1 = n
    <3>1. m = n + 1
      BY <2>1, <2>2, <2>4, FollowingIsNext
    <3> QED BY <2>1, <3>1
  <2>5. at'[0] \notin {"tables", "entries", "start", "wait", "panic"} \cup Joined
    BY <2>1, <2>2, FollowingIsNext DEF Alone, Joined
  <2> QED BY <2>1, <2>2, <2>3, <2>4, <2>5 DEF DidInv
<1>4. CASE CountFirst
  <2>1. Initialised \subseteq did
    BY <1>4 DEF CountFirst, DidInv, Initialised, InitOrder
  <2> QED BY <1>0, <1>4, <2>1, FollowingIsNext DEF CountFirst, DidInv, Alone, Joined
<1>5. CASE StartNext \/ WaitRunning \/ AllStarted
  <2>1. at[0] \in {"start", "wait"} /\ at'[0] \in {"start", "wait", "percore"} /\ did' = did
    BY <1>0, <1>5 DEF StartNext, WaitRunning, AllStarted
  <2>2. \A c \in Ids : at'[c] # "panic"
    BY <1>0, <1>5 DEF StartNext, WaitRunning, AllStarted, DidInv
  <2> QED BY <2>1, <2>2, FollowingIsNext DEF DidInv, Alone, Joined
<1>6. ASSUME NEW c \in Ids, Every(c) PROVE DidInv'
  <2>1. did' = did /\ \A d \in Ids \ {c} : at'[d] = at[d]
    BY <1>0, <1>6 DEF Every, EnterProtectedMode, PickKernelStack, KernelInit, Join,
                PerCoreInit, PitInit, Enable, Arrive, Look
  <2>2. at[c] \in Joined \cup {"join"} => Initialised \subseteq did
    BY DEF IInv, FirstInv, OthersInv, DidInv, Entering, Joined
  <2>3. at'[c] # "panic"
    <3>1. "calibrate" \in Initialised
      BY DEF Initialised, InitOrder
    <3> QED BY <1>0, <1>6, <2>2, <3>1 DEF Every, EnterProtectedMode, PickKernelStack, KernelInit,
                  Join, PerCoreInit, PitInit, Enable, Arrive, Look, Joined
  <2>4. c = 0 => /\ at'[0] \in {"pick", "kernelInit", "debug"} \cup Joined
                 /\ at'[0] \in Joined => at[0] \in Joined
    BY <1>0, <1>6 DEF Every, EnterProtectedMode, PickKernelStack, KernelInit,
                  Join, PerCoreInit, PitInit, Enable, Arrive, Look, Joined, IInv, FirstInv, Early
  <2>5. CASE c # 0
    BY <2>1, <2>3, <2>5 DEF DidInv
  <2>6. CASE c = 0
    BY <2>1, <2>2, <2>3, <2>4, <2>6, FollowingIsNext DEF DidInv, Alone, Joined
  <2> QED BY <2>5, <2>6
<1> QED BY <1>1, <1>2, <1>3, <1>4, <1>5, <1>6 DEF Next, First

(* No core uses anything shared before the first core has initialised it,  *)
(* and the timer does not panic, whenever which core runs.                 *)
THEOREM NothingUsedTooEarly == Spec => []InitialisedBeforeUse
<1>1. IInv /\ DidInv => InitialisedBeforeUse
  <2> SUFFICES ASSUME IInv, DidInv, NEW c \in Ids
               PROVE  at[c] # "panic" /\ Uses(at[c]) \subseteq did
    BY DEF InitialisedBeforeUse
  <2>1. at[c] # "panic"
    BY DEF DidInv
  <2>2. at[c] \in {"start", "wait", "join"} \cup Joined => Initialised \subseteq did
    BY BootAssumption DEF IInv, FirstInv, OthersInv, DidInv, Entering, Joined
  <2>3. CASE at[c] \in {"start", "wait", "join"} \cup Joined
    BY <2>1, <2>2, <2>3 DEF Uses, Initialised, InitOrder, Joined
  <2>4. CASE \E n \in 1..11 : at[c] = InitOrder[n]
    <3>1. PICK n \in 1..11 : at[c] = InitOrder[n]
      BY <2>4
    <3>2. c = 0
      BY <3>1, FollowingIsNext DEF IInv, OthersInv, Entering, Joined, Alone
    <3>3. {"debug", "config"} \cup {InitOrder[k] : k \in 1..(n - 1)} \subseteq did
      BY <3>1, <3>2 DEF DidInv
    <3> QED BY <3>1, <3>3 DEF Uses, InitOrder
  <2>5. CASE /\ at[c] \notin {"start", "wait", "join"} \cup Joined
             /\ ~\E n \in 1..11 : at[c] = InitOrder[n]
    <3>1. \A label : label \in {"uart", "frames", "vmm", "constructors", "threads", "lapic",
                                "smpInitDone", "calibrate"} => \E n \in 1..11 : label = InitOrder[n]
      BY DEF InitOrder
    <3> QED BY <2>5, <3>1 DEF Uses, Joined
  <2> QED BY <2>3, <2>4, <2>5
<1> QED BY <1>1, InitIInv, NextIInv, InitDidInv, NextDidInv, PTL DEF Spec

-----------------------------------------------------------------------------
(* What is found of the machine.                                           *)

\* The processors in the first entries of a table but the very first, and in what lies
\* behind it when all have been stepped over; the base one apart.
Seen(table, n) == {table[k].processor :
                     k \in {j \in DOMAIN table : j \in 2..(n + 1) /\ table[j].type = 0}} \ {0}
Behind(table, stray, n) == IF n = Len(table) THEN stray ELSE {}

Elements(s) == {s[n] : n \in DOMAIN s}

\* They have been kept, each once.
KeptAre(others, seen, behind) == /\ IsFiniteSet(seen)
                                 /\ Len(others) = Cardinality(seen) + Cardinality(behind)
                                 /\ Elements(others) = seen \cup behind

ConfigInv ==
  /\ machine \in Machines
  /\ entry \in 0..Len(machine.table)
  /\ kConfig \in [memSize : Nat, others : Seq(Nat), total : Nat]
  /\ KeptAre(kConfig.others, Seen(machine.table, entry), Behind(machine.table, Stray, entry))
  /\ at[0] = "entries" \/ "config" \in did =>
       kConfig.memSize = 1 + machine.below + machine.above
  /\ "config" \in did => /\ entry = Len(machine.table)
                         /\ kConfig.total = Len(kConfig.others) + 1

LEMMA InitConfigInv == Init => ConfigInv
<1> SUFFICES ASSUME Init PROVE ConfigInv
  OBVIOUS
<1>1. machine \in Machines /\ Len(machine.table) \in Nat /\ Len(machine.table) # 0
  BY MachineAssumption DEF Init
<1>2. Seen(machine.table, 0) = {} /\ Behind(machine.table, Stray, 0) = {}
  BY <1>1 DEF Seen, Behind
<1>3. /\ kConfig \in [memSize : Nat, others : Seq(Nat), total : Nat]
      /\ kConfig.others = <<>> /\ entry = 0 /\ did = {} /\ at[0] = "mbr"
  BY BootAssumption DEF Init
<1>4. Len(kConfig.others) = 0 /\ Elements(kConfig.others) = {}
  BY <1>3 DEF Elements
<1>5. KeptAre(kConfig.others, {}, {})
  BY <1>4, FS_EmptySet DEF KeptAre
<1>6. entry \in 0..Len(machine.table)
  BY <1>1, <1>3
<1> QED BY <1>1, <1>2, <1>3, <1>5, <1>6 DEF ConfigInv

\* Both answers alike or one 0: their bitwise or is what the BIOS means.
LEMMA AnswerUnderstood ==
  ASSUME machine \in Machines
  PROVE  MemAbove1M = machine.below + machine.above /\ MemAbove1M \in Nat
<1>1. /\ machine.below \in Nat /\ machine.above \in Nat
      /\ machine.answer \subseteq {"ax", "cx"} /\ machine.answer # {}
  BY MachineAssumption
<1>2. "ax" \in machine.answer \/ "cx" \in machine.answer
  BY <1>1
<1>3. Or(Answer("ax").below, Answer("cx").below) = machine.below
  BY <1>1, <1>2 DEF Or, Answer
<1>4. Or(Answer("ax").above, Answer("cx").above) = machine.above
  BY <1>1, <1>2 DEF Or, Answer
<1> QED BY <1>1, <1>3, <1>4 DEF MemAbove1M

\* The fields of a configuration, one by one.
LEMMA ConfigFields ==
  ASSUME NEW k \in [memSize : Nat, others : Seq(Nat), total : Nat], NEW n \in Nat
  PROVE  /\ k.memSize \in Nat /\ k.others \in Seq(Nat) /\ k.total \in Nat
         /\ Len(k.others) \in Nat
         /\ LET l == [k EXCEPT !.others = Append(@, n)]
            IN  /\ l \in [memSize : Nat, others : Seq(Nat), total : Nat]
                /\ l.memSize = k.memSize /\ l.total = k.total
                /\ Len(l.others) = Len(k.others) + 1
                /\ Elements(l.others) = Elements(k.others) \cup {n}
         /\ LET l == [k EXCEPT !.memSize = n]
            IN  /\ l \in [memSize : Nat, others : Seq(Nat), total : Nat]
                /\ l.memSize = n /\ l.others = k.others /\ l.total = k.total
         /\ LET l == [k EXCEPT !.total = n]
            IN  /\ l \in [memSize : Nat, others : Seq(Nat), total : Nat]
                /\ l.memSize = k.memSize /\ l.others = k.others /\ l.total = n
<1>1. k.memSize \in Nat /\ k.others \in Seq(Nat) /\ k.total \in Nat
  OBVIOUS
<1>2. /\ Append(k.others, n) \in Seq(Nat) /\ Len(k.others) \in Nat
      /\ Len(Append(k.others, n)) = Len(k.others) + 1
  BY <1>1
<1> DEFINE t == Append(k.others, n)
<1>3. Elements(t) = Elements(k.others) \cup {n}
  <2>1. /\ DOMAIN t = 1..(Len(k.others) + 1) /\ DOMAIN k.others = 1..Len(k.others)
        /\ t[Len(k.others) + 1] = n
        /\ \A i \in 1..Len(k.others) : t[i] = k.others[i]
    BY <1>1, <1>2
  <2>2. DOMAIN t = DOMAIN k.others \cup {Len(k.others) + 1}
    BY <1>2, <2>1
  <2> HIDE DEF t
  <2>3. Elements(t) = {t[i] : i \in DOMAIN k.others} \cup {t[Len(k.others) + 1]}
    BY <2>2 DEF Elements
  <2>4. {t[i] : i \in DOMAIN k.others} = Elements(k.others)
    BY <2>1 DEF Elements
  <2> QED BY <2>1, <2>3, <2>4
<1> QED BY <1>1, <1>2, <1>3

LEMMA ReadEntryConfigInv == ConfigInv /\ ReadEntry => ConfigInv'
<1> SUFFICES ASSUME ConfigInv, ReadEntry PROVE ConfigInv'
  OBVIOUS
<1> DEFINE e == EntryAt(entry + 2)
<1>1. /\ machine' = machine /\ entry' = entry + 1 /\ at' = at /\ did' = did
      /\ entry < Len(machine.table)
      /\ kConfig' = IF e.type = 0 /\ e.processor # 0
                    THEN [kConfig EXCEPT !.others = Append(@, e.processor)] ELSE kConfig
  BY DEF ReadEntry
<1>2. /\ machine \in Machines /\ machine.behind \in Entry /\ machine.table \in Seq(Entry)
      /\ Len(machine.table) \in Nat /\ entry \in Nat
      /\ DOMAIN machine.table = 1..Len(machine.table)
  BY MachineAssumption DEF ConfigInv
<1>3. e \in Entry
  BY <1>1, <1>2 DEF EntryAt
<1> HIDE DEF e
<1> DEFINE new == IF e.type = 0 THEN {e.processor} \ {0} ELSE {}
           seen == Seen(machine.table, entry)
           next == Seen(machine.table, entry + 1)
<1>4. /\ kConfig' \in [memSize : Nat, others : Seq(Nat), total : Nat]
      /\ kConfig'.memSize = kConfig.memSize /\ kConfig'.total = kConfig.total
      /\ Len(kConfig'.others) = Len(kConfig.others) + Cardinality(new)
      /\ Elements(kConfig'.others) = Elements(kConfig.others) \cup new
  <2>1. CASE e.type = 0 /\ e.processor # 0
    <3>1. new = {e.processor} /\ e.processor \in Nat
      BY <1>3, <2>1 DEF Entry
    <3>2. Cardinality(new) = 1
      BY <3>1, FS_Singleton
    <3>3. kConfig' = [kConfig EXCEPT !.others = Append(@, e.processor)]
      BY <1>1, <2>1
    <3>4. kConfig \in [memSize : Nat, others : Seq(Nat), total : Nat]
      BY DEF ConfigInv
    <3>5. PICK p \in Nat : p = e.processor
      BY <3>1
    <3>6. /\ kConfig' \in [memSize : Nat, others : Seq(Nat), total : Nat]
          /\ kConfig'.memSize = kConfig.memSize /\ kConfig'.total = kConfig.total
          /\ Len(kConfig'.others) = Len(kConfig.others) + 1
          /\ Elements(kConfig'.others) = Elements(kConfig.others) \cup {p}
      <4>1. kConfig' = [kConfig EXCEPT !.others = Append(@, p)]
        BY <3>3, <3>5
      <4> QED BY <3>4, <4>1, ConfigFields
    <3> HIDE DEF new
    <3> QED BY <3>1, <3>2, <3>5, <3>6
  <2>2. CASE ~(e.type = 0 /\ e.processor # 0)
    <3>1. new = {} /\ kConfig' = kConfig
      BY <1>1, <2>2
    <3>2. Cardinality(new) = 0 /\ Len(kConfig.others) \in Nat
      BY <3>1, FS_EmptySet, ConfigFields DEF ConfigInv
    <3> QED BY <3>1, <3>2 DEF ConfigInv
  <2> QED BY <2>1, <2>2
<1>5. "config" \notin did
  BY <1>1, <1>2 DEF ConfigInv
<1>6. /\ IsFiniteSet(seen) /\ Len(kConfig.others) = Cardinality(seen)
      /\ Elements(kConfig.others) = seen /\ Cardinality(seen) \in Nat
  <2>1. Behind(machine.table, Stray, entry) = {}
    BY <1>1, <1>2 DEF Behind
  <2>2. KeptAre(kConfig.others, seen, {})
    BY <2>1 DEF ConfigInv
  <2> HIDE DEF seen
  <2> QED BY <2>2, FS_EmptySet, FS_CardinalityType DEF KeptAre
<1>7. /\ IsFiniteSet(new) /\ Cardinality(new) \in Nat
  <2>1. new \subseteq {e.processor} /\ IsFiniteSet({e.processor})
    BY FS_Singleton
  <2> QED BY <2>1, FS_Subset, FS_CardinalityType
<1>8. KeptAre(kConfig'.others, next, Behind(machine.table, Stray, entry + 1))
  <2>1. CASE entry + 2 <= Len(machine.table)
    <3>1. e = machine.table[entry + 2] /\ entry + 2 \in DOMAIN machine.table
      BY <1>2, <2>1 DEF e, EntryAt
    <3>2. next = seen \cup new
      BY <1>2, <3>1 DEF Seen
    <3>3. ASSUME e.type = 0 PROVE e.processor \notin seen
      <4> SUFFICES ASSUME e.processor \in seen PROVE FALSE
        OBVIOUS
      <4>1. PICK k \in DOMAIN machine.table :
               k \in 2..(entry + 1) /\ machine.table[k].type = 0
               /\ machine.table[k].processor = e.processor
        BY DEF Seen
      <4>2. machine.table[k] \in Entry
        BY <1>2
      <4>3. machine.table[k] = e
        BY <1>3, <3>3, <4>1, <4>2 DEF Entry
      <4>4. k = entry + 2
        BY <1>2, <3>1, <4>1, <4>3, MachineAssumption
      <4> QED BY <1>2, <4>1, <4>4
    <3>4. IsFiniteSet(next) /\ Cardinality(next) = Cardinality(seen) + Cardinality(new)
      <4>1. CASE e.type = 0 /\ e.processor # 0
        <5>1. new = {e.processor} /\ e.processor \notin seen
          BY <3>3, <4>1
        <5> HIDE DEF new, seen, next
        <5>2. Cardinality(new) = 1
          BY <5>1, FS_Singleton
        <5>3. /\ IsFiniteSet(seen \cup {e.processor})
              /\ Cardinality(seen \cup {e.processor}) = Cardinality(seen) + 1
          BY <1>6, <5>1, FS_AddElement
        <5> QED BY <3>2, <5>1, <5>2, <5>3
      <4>2. CASE ~(e.type = 0 /\ e.processor # 0)
        <5>1. new = {}
          BY <4>2
        <5> HIDE DEF new, seen, next
        <5> QED BY <1>6, <3>2, <5>1, FS_EmptySet
      <4> QED BY <4>1, <4>2
    <3>5. Behind(machine.table, Stray, entry + 1) = {}
      BY <1>2, <2>1 DEF Behind
    <3>6. Cardinality(seen) \in Nat /\ Cardinality(new) \in Nat /\ Cardinality({}) = 0
      BY <1>6, <1>7, FS_EmptySet
    <3> HIDE DEF new, seen, next
    <3>7. /\ Len(kConfig'.others) = Cardinality(next) + Cardinality({})
          /\ Elements(kConfig'.others) = next \cup {}
      BY <1>4, <1>6, <3>2, <3>4, <3>6
    <3> QED BY <3>4, <3>5, <3>7 DEF KeptAre
  <2>2. CASE entry + 1 = Len(machine.table)
    <3>1. e = machine.behind /\ entry + 2 \notin DOMAIN machine.table
      BY <1>2, <2>2 DEF e, EntryAt
    <3>2. next = seen
      BY <1>2, <3>1 DEF Seen
    <3>3. Behind(machine.table, Stray, entry + 1) = new
      BY <1>2, <2>2, <3>1 DEF Behind, Stray
    <3> HIDE DEF new, seen, next
    <3> QED BY <1>4, <1>6, <1>7, <3>2, <3>3 DEF KeptAre
  <2> QED BY <1>1, <1>2, <2>1, <2>2
<1>9. Stray' = Stray
  BY <1>1 DEF Stray
<1> QED BY <1>1, <1>2, <1>4, <1>5, <1>8, <1>9 DEF ConfigInv

LEMMA NextConfigInv == IInv /\ DidInv /\ ConfigInv /\ [Next]_vars => ConfigInv'
<1> SUFFICES ASSUME IInv, DidInv, ConfigInv, [Next]_vars PROVE ConfigInv'
  OBVIOUS
<1> USE BootAssumption DEF Goto, disk, config, cores
<1>0. at \in [Ids -> Early \cup Alone \cup Entering \cup Joined
                       \cup {"calibrate", "run", "start", "wait", "off"}]
  BY DEF IInv, TypeOK
<1>1. CASE FindTables
  <2>1. /\ machine' = machine /\ entry' = entry /\ did' = did /\ at[0] = "tables"
        /\ kConfig' = [kConfig EXCEPT !.memSize = MemAbove1M + 1]
    BY <1>1 DEF FindTables
  <2>2. "config" \notin did \/ entry = Len(machine.table)
    BY DEF ConfigInv
  <2>3. /\ kConfig' \in [memSize : Nat, others : Seq(Nat), total : Nat]
        /\ kConfig'.memSize = 1 + machine.below + machine.above
        /\ kConfig'.others = kConfig.others /\ kConfig'.total = kConfig.total
    <3>1. machine.below \in Nat /\ machine.above \in Nat
      BY MachineAssumption DEF ConfigInv
    <3>2. MemAbove1M + 1 \in Nat /\ MemAbove1M + 1 = 1 + machine.below + machine.above
      <4>1. machine \in Machines
        BY DEF ConfigInv
      <4> QED BY <3>1, <4>1, AnswerUnderstood
    <3> QED BY <2>1, <3>2, ConfigFields DEF ConfigInv
  <2>4. Stray' = Stray
    BY <2>1 DEF Stray
  <2> QED BY <2>1, <2>3, <2>4 DEF ConfigInv
<1>2. CASE ReadEntry
  BY <1>2, ReadEntryConfigInv
<1>3. CASE ConfigDone
  <2>1. /\ machine' = machine /\ entry' = entry /\ at[0] = "entries"
        /\ entry = Len(machine.table)
        /\ kConfig' = [kConfig EXCEPT !.total = Len(kConfig.others) + 1]
    BY <1>3 DEF ConfigDone
  <2>2. /\ kConfig' \in [memSize : Nat, others : Seq(Nat), total : Nat]
        /\ kConfig'.memSize = kConfig.memSize /\ kConfig'.others = kConfig.others
        /\ kConfig'.total = Len(kConfig'.others) + 1
    <3>1. Len(kConfig.others) + 1 \in Nat
      BY ConfigFields DEF ConfigInv
    <3> QED BY <2>1, <3>1, ConfigFields DEF ConfigInv
  <2>3. Stray' = Stray
    BY <2>1 DEF Stray
  <2> QED BY <2>1, <2>2, <2>3 DEF ConfigInv
<1>4. CASE ~(FindTables \/ ReadEntry \/ ConfigDone)
  <2>1. UNCHANGED <<machine, entry, kConfig>>
    BY <1>4 DEF Next, First, ReadParameters, ReadSector, JumpToKernel, DebugInit, InitStep,
                CountFirst, StartNext, WaitRunning, AllStarted, Every, EnterProtectedMode,
                PickKernelStack, KernelInit, Join, PerCoreInit, PitInit, Enable, Arrive,
                Look, vars
  <2>2. ASSUME "config" \in did' PROVE "config" \in did
    <3>1. CASE \E n \in 1..(Len(InitOrder) - 1) : InitStep(InitOrder[n])
      <4>1. PICK n \in 1..(Len(InitOrder) - 1) : InitStep(InitOrder[n])
        BY <3>1
      <4>2. n \in 1..11
        BY DEF InitOrder
      <4> QED BY <2>2, <4>1, <4>2, FollowingIsNext DEF InitStep
    <3>2. CASE ~\E n \in 1..(Len(InitOrder) - 1) : InitStep(InitOrder[n])
      BY <1>4, <2>2, <3>2 DEF Next, First, ReadParameters, ReadSector, JumpToKernel, DebugInit,
                CountFirst, StartNext, WaitRunning, AllStarted, Every, EnterProtectedMode,
                PickKernelStack, KernelInit, Join, PerCoreInit, PitInit, Enable, Arrive,
                Look, vars
    <3> QED BY <3>1, <3>2
  <2>3. ASSUME at'[0] = "entries" PROVE at[0] = "entries"
    <3>1. CASE \E n \in 1..(Len(InitOrder) - 1) : InitStep(InitOrder[n])
      <4>1. PICK n \in 1..(Len(InitOrder) - 1) : InitStep(InitOrder[n])
        BY <3>1
      <4>2. n \in 1..10 /\ n + 1 \in 1..11
        BY DEF InitOrder
      <4>3. at'[0] = InitOrder[n + 1]
        BY <1>0, <4>1, <4>2, FollowingIsNext DEF InitStep
      <4> QED BY <2>3, <4>2, <4>3, FollowingIsNext
    <3>2. CASE ~\E n \in 1..(Len(InitOrder) - 1) : InitStep(InitOrder[n])
      BY <1>0, <1>4, <2>3, <3>2
         DEF Next, First, ReadParameters, ReadSector, JumpToKernel, DebugInit,
             CountFirst, StartNext, WaitRunning, AllStarted, Every, EnterProtectedMode,
             PickKernelStack, KernelInit, Join, PerCoreInit, PitInit, Enable, Arrive,
             Look, vars
    <3> QED BY <3>1, <3>2
  <2>4. Stray' = Stray
    BY <2>1 DEF Stray
  <2> QED BY <2>1, <2>2, <2>3, <2>4 DEF ConfigInv
<1> QED BY <1>1, <1>2, <1>3, <1>4

(* The configuration has the size of memory, and exactly the processors of *)
(* the table but for those that ConfigurationFound names, whatever order   *)
(* the table has and whatever lies behind it.                              *)
THEOREM MachineUnderstood == Spec => []ConfigurationFound
<1>1. ConfigInv => ConfigurationFound
  <2> SUFFICES ASSUME ConfigInv, "config" \in did PROVE ConfigurationFound
    BY DEF ConfigurationFound
  <2>1. /\ machine \in Machines /\ machine.table \in Seq(Entry) /\ machine.table # <<>>
        /\ DOMAIN machine.table = 1..Len(machine.table) /\ Len(machine.table) \in Nat
        /\ 1 \in DOMAIN machine.table
    BY MachineAssumption DEF ConfigInv
  <2> DEFINE seen == Seen(machine.table, entry)
  <2>2. entry = Len(machine.table) /\ KeptAre(kConfig.others, seen, Stray)
    BY DEF ConfigInv, Behind
  <2>3. seen = (Listed \ Skipped) \ {0}
    <3>1. \A k \in DOMAIN machine.table : k \in 2..(entry + 1) <=> k # 1
      BY <2>1, <2>2
    <3>2. ASSUME NEW k \in DOMAIN machine.table, machine.table[k].type = 0
          PROVE  machine.table[k].processor \in Skipped <=> k = 1
      <4>1. CASE k = 1
        BY <3>2, <4>1 DEF Skipped
      <4>2. CASE k # 1
        <5> SUFFICES ASSUME machine.table[1].type = 0,
                            machine.table[1].processor = machine.table[k].processor
                     PROVE  FALSE
          BY <4>2 DEF Skipped
        <5>1. machine.table[1] \in Entry /\ machine.table[k] \in Entry
          BY <2>1
        <5>2. machine.table[1] = machine.table[k]
          BY <3>2, <5>1 DEF Entry
        <5> QED BY <2>1, <4>2, <5>2, MachineAssumption
      <4> QED BY <4>1, <4>2
    <3> QED BY <3>1, <3>2 DEF Seen, Listed
  <2>4. {0} \cup (Listed \ Skipped) = seen \cup {0} /\ 0 \notin seen
    BY <2>3
  <2>5. Cardinality({0} \cup (Listed \ Skipped)) = Cardinality(seen) + 1
    <3>1. IsFiniteSet(seen)
      BY <2>2 DEF KeptAre
    <3> HIDE DEF seen
    <3>2. Cardinality(seen \cup {0}) = Cardinality(seen) + 1
      BY <2>4, <3>1, FS_AddElement
    <3> QED BY <2>4, <3>2
  <2>6. IsFiniteSet(Stray)
    BY FS_Singleton, FS_EmptySet, FS_Subset DEF Stray
  <2>7. Cardinality(Stray) \in Nat /\ Cardinality(seen) \in Nat
    BY <2>2, <2>6, FS_CardinalityType DEF KeptAre
  <2>8. kConfig.total = Cardinality({0} \cup (Listed \ Skipped)) + Cardinality(Stray)
    BY <2>2, <2>5, <2>7 DEF KeptAre, ConfigInv
  <2>9. Found = {0} \cup (Listed \ Skipped) \cup Stray
    BY <2>2, <2>4 DEF KeptAre, Found, Elements
  <2> QED BY <2>8, <2>9 DEF ConfigurationFound, ConfigInv
<1> QED
  BY <1>1, InitIInv, NextIInv, InitDidInv, NextDidInv, InitConfigInv, NextConfigInv, PTL DEF Spec

-----------------------------------------------------------------------------
(* Who creates the first thread.                                           *)

\* The cores that have been counted as being here.
Arrived == {c \in Ids : at[c] \in {"look", "stop"}}

\* Each has a place of its own in the order, and no more are started than total.
ArriveInv ==
  /\ enabled = {c \in Ids : at[c] \in {"arrive", "look", "stop"}}
  /\ order \in [Ids -> Nat]
  /\ IsFiniteSet(Arrived) /\ howMany = Cardinality(Arrived)
  /\ \A c \in Arrived : order[c] \in 1..howMany
  /\ \A c, d \in Arrived : order[c] = order[d] => c = d
  /\ created = {c \in Ids : at[c] = "stop" /\ order[c] = kConfig.total}
  /\ \A c \in Ids \ {0} : at[c] # "off" => c < kConfig.total

LEMMA InitArriveInv == Init => ArriveInv
<1> SUFFICES ASSUME Init PROVE ArriveInv
  OBVIOUS
<1>1. \A c \in Ids : at[c] \in {"mbr", "off"} /\ (c # 0 => at[c] = "off")
  BY DEF Init
<1>2. Arrived = {} /\ enabled = {} /\ created = {} /\ howMany = 0
  BY <1>1 DEF Init, Arrived
<1>3. order \in [Ids -> Nat]
  BY DEF Init
<1> QED BY <1>1, <1>2, <1>3, FS_EmptySet DEF ArriveInv

\* A step that is not about arriving.
LEMMA NotArriving ==
  ASSUME ArriveInv, UNCHANGED <<enabled, order, howMany, created>>,
         kConfig'.total = kConfig.total,
         \A c \in Ids : at'[c] = at[c] \/ {at[c], at'[c]} \cap {"arrive", "look", "stop"} = {},
         \A c \in Ids \ {0} : at'[c] # "off" => at[c] # "off" \/ c < kConfig.total
  PROVE  ArriveInv'
<1>1. \A c \in Ids : /\ at'[c] \in {"arrive", "look", "stop"} <=> at[c] \in {"arrive", "look", "stop"}
                     /\ at'[c] \in {"look", "stop"} <=> at[c] \in {"look", "stop"}
                     /\ at'[c] = "stop" <=> at[c] = "stop"
  OBVIOUS
<1>2. Arrived' = Arrived
  BY <1>1 DEF Arrived
<1>3. /\ enabled' = {c \in Ids : at'[c] \in {"arrive", "look", "stop"}}
      /\ created' = {c \in Ids : at'[c] = "stop" /\ order'[c] = kConfig'.total}
  BY <1>1 DEF ArriveInv
<1>4. \A c \in Ids \ {0} : at'[c] # "off" => c < kConfig'.total
  BY DEF ArriveInv
<1> QED BY <1>2, <1>3, <1>4 DEF ArriveInv

LEMMA FirstArriveInv == IInv /\ DidInv /\ ConfigInv /\ ArriveInv /\ First => ArriveInv'
<1> SUFFICES ASSUME IInv, DidInv, ConfigInv, ArriveInv, First PROVE ArriveInv'
  OBVIOUS
<1> USE BootAssumption DEF Goto, disk, config, cores
<1>0. at \in [Ids -> Early \cup Alone \cup Entering \cup Joined
                       \cup {"calibrate", "run", "start", "wait", "off"}]
  BY DEF IInv, TypeOK
<1>1. CASE ConfigDone
  <2>1. at[0] = "entries" /\ at' = [at EXCEPT ![0] = "heap"]
    BY <1>1 DEF ConfigDone
  <2>2. \A c \in Ids : at[c] \notin {"arrive", "look", "stop"} /\ (c # 0 => at[c] = "off")
    BY <2>1 DEF IInv, OthersInv, Joined
  <2>3. \A c \in Ids : at'[c] \notin {"arrive", "look", "stop"} /\ (c # 0 => at'[c] = "off")
    BY <1>0, <2>1, <2>2
  <2>4. Arrived = {} /\ Arrived' = {} /\ UNCHANGED <<enabled, order, howMany, created>>
    BY <1>1, <2>2, <2>3 DEF Arrived, ConfigDone
  <2> QED BY <2>2, <2>3, <2>4 DEF ArriveInv
<1>2. CASE StartNext
  <2>1. /\ id < kConfig.total /\ UNCHANGED <<enabled, order, howMany, created, kConfig>>
        /\ at[0] = "start"
        /\ at' = [c \in Ids |-> IF c = 0 THEN "wait"
                          ELSE IF c = id /\ c \in machine.cores THEN "reset" ELSE at[c]]
    BY <1>2 DEF StartNext
  <2>2. id \in Ids => at[id] = "off" \/ id = 0
    BY <2>1 DEF IInv, TypeOK, OthersInv
  <2> QED BY <2>1, <2>2, NotArriving
<1>3. ASSUME NEW n \in 1..(Len(InitOrder) - 1), InitStep(InitOrder[n]) PROVE ArriveInv'
  <2>1. n \in 1..10 /\ n + 1 \in 1..11
    BY DEF InitOrder
  <2>2. /\ at[0] = InitOrder[n] /\ at' = [at EXCEPT ![0] = InitOrder[n + 1]]
        /\ UNCHANGED <<enabled, order, howMany, created, kConfig>>
    BY <1>3, <2>1, FollowingIsNext DEF InitStep
  <2>3. {at[0], at'[0]} \cap {"arrive", "look", "stop"} = {}
    <3>1. n \in 1..11
      BY <2>1
    <3>2. at'[0] = InitOrder[n + 1]
      BY <1>0, <2>2
    <3>3. InitOrder[n] \in Alone \cup {"calibrate", "run"}
      BY <3>1, FollowingIsNext
    <3>4. InitOrder[n + 1] \in Alone \cup {"calibrate", "run"}
      BY <2>1, FollowingIsNext
    <3> QED BY <2>2, <3>2, <3>3, <3>4 DEF Alone
  <2>4. \A c \in Ids \ {0} : at'[c] = at[c]
    BY <1>0, <2>2
  <2> QED BY <2>2, <2>3, <2>4, NotArriving
<1>4. CASE ~ConfigDone /\ ~StartNext /\ ~\E n \in 1..(Len(InitOrder) - 1) : InitStep(InitOrder[n])
  <2>1. UNCHANGED <<enabled, order, howMany, created>>
    BY <1>4 DEF First, ReadParameters, ReadSector, JumpToKernel, DebugInit, FindTables,
                ReadEntry, CountFirst, WaitRunning, AllStarted
  <2>2. kConfig'.total = kConfig.total
    BY <1>4 DEF First, ReadParameters, ReadSector, JumpToKernel, DebugInit, FindTables,
                ReadEntry, CountFirst, WaitRunning, AllStarted, ConfigInv
  <2>3. at' = at \/ \E there : /\ at' = [at EXCEPT ![0] = there]
                               /\ {at[0], there} \cap {"arrive", "look", "stop"} = {}
    BY <1>4 DEF First, ReadParameters, ReadSector, JumpToKernel, DebugInit, FindTables,
                ReadEntry, CountFirst, WaitRunning, AllStarted
  <2> QED BY <1>0, <2>1, <2>2, <2>3, NotArriving
<1> QED BY <1>1, <1>2, <1>3, <1>4

LEMMA EveryArriveInv ==
  ASSUME NEW c \in Ids, IInv, ConfigInv, ArriveInv, Every(c) PROVE ArriveInv'
<1> USE BootAssumption DEF Goto, disk, config, cores
<1>0. at \in [Ids -> Early \cup Alone \cup Entering \cup Joined
                       \cup {"calibrate", "run", "start", "wait", "off"}]
  BY DEF IInv, TypeOK
<1>1. CASE Enable(c)
  <2>1. /\ at[c] = "tss" /\ at' = [at EXCEPT ![c] = "arrive"] /\ enabled' = enabled \cup {c}
        /\ UNCHANGED <<order, howMany, created, kConfig>>
    BY <1>1 DEF Enable
  <2>2. Arrived' = Arrived
    BY <1>0, <2>1 DEF Arrived
  <2>3. enabled' = {d \in Ids : at'[d] \in {"arrive", "look", "stop"}}
    BY <1>0, <2>1 DEF ArriveInv
  <2>4. created' = {d \in Ids : at'[d] = "stop" /\ order'[d] = kConfig'.total}
    BY <1>0, <2>1 DEF ArriveInv
  <2>5. \A d \in Ids \ {0} : at'[d] # "off" => d < kConfig'.total
    BY <1>0, <2>1 DEF ArriveInv
  <2> QED BY <2>1, <2>2, <2>3, <2>4, <2>5 DEF ArriveInv
<1>2. CASE Arrive(c)
  <2>1. /\ at[c] = "arrive" /\ at' = [at EXCEPT ![c] = "look"] /\ howMany' = howMany + 1
        /\ order' = [order EXCEPT ![c] = howMany + 1]
        /\ UNCHANGED <<enabled, created, kConfig>>
    BY <1>2 DEF Arrive
  <2>2. Arrived' = Arrived \cup {c} /\ c \notin Arrived
    BY <1>0, <2>1 DEF Arrived
  <2>3. howMany \in Nat /\ order \in [Ids -> Nat]
    BY FS_CardinalityType DEF ArriveInv
  <2>4. IsFiniteSet(Arrived') /\ howMany' = Cardinality(Arrived')
    BY <2>1, <2>2, FS_AddElement DEF ArriveInv
  <2>5. order' \in [Ids -> Nat] /\ \A d \in Ids \ {c} : order'[d] = order[d]
    BY <2>1, <2>3
  <2>6. order'[c] = howMany + 1
    BY <2>1, <2>3
  <2>7. \A d \in Arrived' : order'[d] \in 1..howMany'
    BY <2>1, <2>2, <2>3, <2>5, <2>6 DEF ArriveInv, Arrived
  <2>8. \A d, e \in Arrived' : order'[d] = order'[e] => d = e
    BY <2>1, <2>2, <2>3, <2>5, <2>6 DEF ArriveInv, Arrived
  <2>9. enabled' = {d \in Ids : at'[d] \in {"arrive", "look", "stop"}}
    BY <1>0, <2>1 DEF ArriveInv
  <2>10. created' = {d \in Ids : at'[d] = "stop" /\ order'[d] = kConfig'.total}
    BY <1>0, <2>1, <2>5 DEF ArriveInv
  <2>11. \A d \in Ids \ {0} : at'[d] # "off" => d < kConfig'.total
    BY <1>0, <2>1 DEF ArriveInv
  <2> QED BY <2>4, <2>5, <2>7, <2>8, <2>9, <2>10, <2>11 DEF ArriveInv
<1>3. CASE Look(c)
  <2>1. /\ at[c] = "look" /\ at' = [at EXCEPT ![c] = "stop"]
        /\ created' = IF order[c] = kConfig.total THEN created \cup {c} ELSE created
        /\ UNCHANGED <<enabled, howMany, order, kConfig>>
    BY <1>3 DEF Look
  <2>2. Arrived' = Arrived
    BY <1>0, <2>1 DEF Arrived
  <2>3. enabled' = {d \in Ids : at'[d] \in {"arrive", "look", "stop"}}
    BY <1>0, <2>1 DEF ArriveInv
  <2>4. created' = {d \in Ids : at'[d] = "stop" /\ order'[d] = kConfig'.total}
    BY <1>0, <2>1 DEF ArriveInv
  <2>5. \A d \in Ids \ {0} : at'[d] # "off" => d < kConfig'.total
    BY <1>0, <2>1 DEF ArriveInv
  <2> QED BY <2>1, <2>2, <2>3, <2>4, <2>5 DEF ArriveInv
<1>4. CASE ~(Enable(c) \/ Arrive(c) \/ Look(c))
  <2>1. /\ UNCHANGED <<enabled, order, howMany, created, kConfig>> /\ at[c] # "off"
        /\ \E there : /\ at' = [at EXCEPT ![c] = there]
                      /\ {at[c], there} \cap {"arrive", "look", "stop"} = {}
    BY <1>4 DEF Every, EnterProtectedMode, PickKernelStack, KernelInit, Join,
                PerCoreInit, PitInit
  <2> QED BY <1>0, <2>1, NotArriving
<1> QED BY <1>1, <1>2, <1>3, <1>4

LEMMA NextArriveInv == IInv /\ DidInv /\ ConfigInv /\ ArriveInv /\ [Next]_vars => ArriveInv'
<1>1. ArriveInv /\ UNCHANGED vars => ArriveInv'
  BY DEF vars, cores, config, ArriveInv, Arrived
<1> QED BY <1>1, FirstArriveInv, EveryArriveInv DEF Next

(* The first thread is created once, and not before every processor that   *)
(* is counted on has its memory, timer and TSS, in whatever order they     *)
(* come.                                                                   *)
THEOREM OneFirstThread == Spec => []FirstThreadOnce
<1>1. IInv /\ DidInv /\ ConfigInv /\ ArriveInv => FirstThreadOnce
  <2> SUFFICES ASSUME IInv, DidInv, ConfigInv, ArriveInv PROVE FirstThreadOnce
    OBVIOUS
  <2>1. created \subseteq Arrived /\ Arrived \subseteq enabled
    BY DEF ArriveInv, Arrived
  <2>2. Cardinality(created) <= 1
    <3>1. CASE created = {}
      BY <3>1, FS_EmptySet
    <3>2. CASE created # {}
      <4>1. PICK c \in created : TRUE
        BY <3>2
      <4>2. created = {c}
        BY <2>1, <4>1 DEF ArriveInv
      <4> QED BY <4>2, FS_Singleton
    <3> QED BY <3>1, <3>2
  <2>3. ASSUME created # {} PROVE Cardinality(enabled) = kConfig.total
    <3>1. kConfig.total \in Nat /\ \A c \in enabled : c \in 0..(kConfig.total - 1)
      <4>1. kConfig.total \in Nat /\ ("config" \in did => kConfig.total >= 1)
        BY ConfigFields DEF ConfigInv
      <4>2. ASSUME 0 \in enabled PROVE kConfig.total >= 1
        <5>1. "config" \in did
          BY <4>2 DEF ArriveInv, DidInv, Joined, Initialised
        <5> QED BY <4>1, <5>1
      <4>3. \A c \in enabled : c \in Nat /\ (c # 0 => c < kConfig.total)
        BY BootAssumption DEF ArriveInv
      <4> QED BY <4>1, <4>2, <4>3
    <3>2. IsFiniteSet(enabled) /\ Cardinality(enabled) <= kConfig.total
      <4>1. IsFiniteSet(0..(kConfig.total - 1))
            /\ Cardinality(0..(kConfig.total - 1)) <= kConfig.total
        <5>1. PICK n \in Int : n = kConfig.total - 1
          BY <3>1
        <5>2. /\ IsFiniteSet(0..n)
              /\ Cardinality(0..n) = IF 0 > n THEN 0 ELSE n - 0 + 1
          BY FS_Interval
        <5> QED BY <3>1, <5>1, <5>2
      <4>2. enabled \in SUBSET (0..(kConfig.total - 1))
        BY <3>1
      <4>3. IsFiniteSet(enabled) /\ Cardinality(enabled) <= Cardinality(0..(kConfig.total - 1))
        BY <4>1, <4>2, FS_Subset
      <4>4. Cardinality(enabled) \in Nat /\ Cardinality(0..(kConfig.total - 1)) \in Nat
        BY <4>1, <4>3, FS_CardinalityType
      <4> QED BY <3>1, <4>1, <4>3, <4>4
    <3>3. kConfig.total <= howMany
      <4>1. PICK c \in created : TRUE
        BY <2>3
      <4>2. c \in Arrived /\ order[c] = kConfig.total
        BY <2>1, <4>1 DEF ArriveInv
      <4> QED BY <4>2 DEF ArriveInv
    <3>4. howMany <= Cardinality(enabled)
      BY <2>1, <3>2, FS_Subset DEF ArriveInv
    <3>5. howMany \in Nat /\ Cardinality(enabled) \in Nat
      BY <3>2, FS_CardinalityType DEF ArriveInv
    <3> QED BY <3>1, <3>2, <3>3, <3>4, <3>5
  <2> QED BY <2>2, <2>3 DEF FirstThreadOnce
<1> QED
  BY <1>1, InitIInv, NextIInv, InitDidInv, NextDidInv, InitConfigInv, NextConfigInv,
     InitArriveInv, NextArriveInv, PTL DEF Spec

-----------------------------------------------------------------------------
(* What the boot sector reads, and where to.                               *)

LEMMA RemainderOfSmall ==
  ASSUME NEW n \in Nat, NEW d \in Nat \ {0}, n < d PROVE n % d = n
  OBVIOUS

\* The disk has the whole kernel, and memory all of the disk.
Fits == machine.sectors \in (KernelSectors + 1)..(Slots - MbrSlot)

\* The sectors up to bp lie behind the boot sector, and nothing else was written.
LoadInv ==
  Fits =>
    /\ memory \in [0..(Slots - 1) -> Int] /\ memory[MbrSlot] = Loader
    /\ \A s \in 0..(MbrSlot - 1) : memory[s] = Unread
    /\ at[0] = "load" => /\ bp \in 1..machine.sectors
                         /\ cx = machine.sectors - (bp - 1)
                         /\ bp < machine.sectors => di = MbrSlot + bp
                         /\ \A n \in 1..(bp - 1) : memory[MbrSlot + n] = n
    /\ at[0] \notin {"mbr", "load"} =>
         \A n \in 1..KernelSectors : memory[MbrSlot + n] = n

LEMMA InitLoadInv == Init => LoadInv
  BY BootAssumption DEF Init, LoadInv, Loader, Unread

LEMMA NextLoadInv == IInv /\ LoadInv /\ [Next]_vars => LoadInv'
<1> SUFFICES ASSUME IInv, LoadInv, [Next]_vars, Fits' PROVE LoadInv'
  BY DEF LoadInv
<1> USE DEF Goto, disk, config, cores
<1>0. /\ 0 \in Ids
      /\ at \in [Ids -> Early \cup Alone \cup Entering \cup Joined
                         \cup {"calibrate", "run", "start", "wait", "off"}]
  BY BootAssumption DEF IInv, TypeOK
<1>1. machine' = machine
  BY DEF Next, First, ReadParameters, ReadSector, JumpToKernel, DebugInit, FindTables,
         ReadEntry, ConfigDone, InitStep, CountFirst, StartNext, WaitRunning, AllStarted,
         Every, EnterProtectedMode, PickKernelStack, KernelInit, Join, PerCoreInit, PitInit,
         Enable, Arrive, Look, vars
<1>2. /\ Fits /\ Slots \in Nat \ {0} /\ WordSize \in Nat \ {0} /\ Slots <= WordSize
      /\ machine.sectors \in Nat /\ machine.sectors > KernelSectors
      /\ MbrSlot + machine.sectors <= Slots /\ MbrSlot \in Nat \ {0}
      /\ KernelSectors \in Nat \ {0}
  BY <1>1, BootAssumption, MachineAssumption DEF Fits
<1>3. CASE ReadParameters
  <2>1. machine.sectors < WordSize
    BY <1>2
  <2>2. /\ cx' = machine.sectors /\ di' = MbrSlot + 1 /\ bp' = 1 /\ memory' = memory
        /\ at'[0] = "load"
    BY <1>0, <1>2, <1>3, <2>1, RemainderOfSmall DEF ReadParameters
  <2> QED BY <1>1, <1>2, <2>2 DEF LoadInv
<1>4. CASE ReadSector
  <2>1. /\ at[0] = "load" /\ at' = at /\ cx # 1 /\ bp' = bp + 1
        /\ cx' = (cx - 1) % WordSize /\ di' = (di + 1) % Slots
        /\ memory' = [memory EXCEPT ![di] = bp]
    BY <1>4 DEF ReadSector
  <2>2. /\ bp \in 1..machine.sectors /\ cx = machine.sectors - (bp - 1)
        /\ bp < machine.sectors /\ di = MbrSlot + bp
    <3>1. /\ bp \in 1..machine.sectors /\ cx = machine.sectors - (bp - 1)
          /\ bp < machine.sectors => di = MbrSlot + bp
      BY <1>2, <2>1 DEF LoadInv
    <3>2. bp < machine.sectors
      BY <1>2, <2>1, <3>1
    <3> QED BY <3>1, <3>2
  <2>3. cx' = machine.sectors - (bp' - 1)
    <3>1. cx - 1 \in Nat /\ cx - 1 < WordSize
      BY <1>2, <2>2
    <3> QED BY <1>2, <2>1, <2>2, <3>1, RemainderOfSmall
  <2>4. bp' < machine.sectors => di' = MbrSlot + bp'
    <3> SUFFICES ASSUME bp' < machine.sectors PROVE di' = MbrSlot + bp'
      OBVIOUS
    <3>1. di + 1 \in Nat /\ di + 1 < Slots
      BY <1>2, <2>1, <2>2
    <3> QED BY <1>2, <2>1, <2>2, <3>1, RemainderOfSmall
  <2>5. di \in 0..(Slots - 1) /\ di > MbrSlot
    BY <1>2, <2>2
  <2>6. /\ memory' \in [0..(Slots - 1) -> Int] /\ memory'[MbrSlot] = Loader
        /\ \A s \in 0..(MbrSlot - 1) : memory'[s] = Unread
    <3>1. /\ memory \in [0..(Slots - 1) -> Int] /\ memory[MbrSlot] = Loader
          /\ \A s \in 0..(MbrSlot - 1) : memory[s] = Unread
      BY <1>2 DEF LoadInv
    <3>2. bp \in Int /\ MbrSlot \in Int /\ Slots \in Int
      BY <1>2, <2>2
    <3> QED BY <2>1, <2>5, <3>1, <3>2
  <2>7. \A n \in 1..(bp' - 1) : memory'[MbrSlot + n] = n
    <3> SUFFICES ASSUME NEW n \in 1..(bp' - 1) PROVE memory'[MbrSlot + n] = n
      OBVIOUS
    <3>1. CASE n = bp
      BY <1>2, <2>1, <2>2, <2>5, <3>1 DEF LoadInv
    <3>2. CASE n # bp
      <4>1. n \in 1..(bp - 1) /\ MbrSlot + n # di /\ MbrSlot + n \in 0..(Slots - 1)
        BY <1>2, <2>1, <2>2, <3>2
      <4> QED BY <1>2, <2>1, <4>1 DEF LoadInv
    <3> QED BY <3>1, <3>2
  <2>8. bp' \in 1..machine.sectors
    BY <1>2, <2>1, <2>2
  <2> QED BY <1>1, <2>1, <2>3, <2>4, <2>6, <2>7, <2>8 DEF LoadInv
<1>5. CASE JumpToKernel
  <2>1. at[0] = "load" /\ cx = 1 /\ UNCHANGED <<memory, cx, di, bp>> /\ at'[0] = "reset"
    BY <1>0, <1>5 DEF JumpToKernel
  <2>2. bp = machine.sectors
    BY <1>2, <2>1 DEF LoadInv
  <2>3. \A n \in 1..KernelSectors : memory[MbrSlot + n] = n
    BY <1>2, <2>1, <2>2 DEF LoadInv
  <2> QED BY <1>1, <1>2, <2>1, <2>3 DEF LoadInv
<1>6. CASE ~(ReadParameters \/ ReadSector \/ JumpToKernel)
  <2>1. UNCHANGED <<memory, cx, di, bp>>
    BY <1>6 DEF Next, First, DebugInit, FindTables, ReadEntry, ConfigDone, InitStep,
                CountFirst, StartNext, WaitRunning, AllStarted, Every, EnterProtectedMode,
                PickKernelStack, KernelInit, Join, PerCoreInit, PitInit, Enable, Arrive,
                Look, vars
  <2>2. at'[0] = at[0] \/ {at[0], at'[0]} \cap {"mbr", "load"} = {}
    <3>1. CASE \E n \in 1..(Len(InitOrder) - 1) : InitStep(InitOrder[n])
      <4>1. PICK n \in 1..(Len(InitOrder) - 1) : InitStep(InitOrder[n])
        BY <3>1
      <4>2. n \in 1..10 /\ n \in 1..11 /\ n + 1 \in 1..11
        BY DEF InitOrder
      <4>3. at[0] = InitOrder[n] /\ at'[0] = InitOrder[n + 1]
        BY <1>0, <4>1, <4>2, FollowingIsNext DEF InitStep
      <4>4. at[0] \in Alone \cup {"calibrate", "run"} /\ at'[0] \in Alone \cup {"calibrate", "run"}
        BY <4>2, <4>3, FollowingIsNext
      <4> QED BY <4>4 DEF Alone
    <3>2. CASE ~\E n \in 1..(Len(InitOrder) - 1) : InitStep(InitOrder[n])
      BY <1>0, <1>6, <3>2
         DEF Next, First, DebugInit, FindTables, ReadEntry, ConfigDone,
             CountFirst, StartNext, WaitRunning, AllStarted, Every, EnterProtectedMode,
             PickKernelStack, KernelInit, Join, PerCoreInit, PitInit, Enable, Arrive,
             Look, vars
    <3> QED BY <3>1, <3>2
  <2> QED BY <1>1, <1>2, <2>1, <2>2 DEF LoadInv
<1> QED BY <1>3, <1>4, <1>5, <1>6

(* The kernel lies where it was linked to, for every size of kernel, disk  *)
(* and memory, as long as the disk has all of the one and fits the other.  *)
THEOREM KernelLoaded == Spec => []KernelInPlace
<1>1. LoadInv => KernelInPlace
  BY DEF LoadInv, Fits, KernelInPlace
<1> QED BY <1>1, InitIInv, NextIInv, InitLoadInv, NextLoadInv, PTL DEF Spec
=============================================================================
