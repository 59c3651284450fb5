------------------------- MODULE InterruptSafeLock -------------------------
(***************************************************************************)
(* InterruptSafeLock of kernel/atomic.h: a test-and-set lock that disables *)
(* interrupts on the core that holds it, shared by the threads and by the  *)
(* interrupt handlers of every core.  The source asks of it "Is this       *)
(* correct?"; this module is the question and InterruptSafeLockProofs the  *)
(* answer.                                                                 *)
(*                                                                         *)
(* A core runs one context at a time: its thread ("task") or, after an     *)
(* interrupt, a handler ("irq") that runs on top of the thread with        *)
(* interrupts disabled until it returns.  Either may call lock() and       *)
(* unlock(); each read or write of a shared member is a step of its own.   *)
(***************************************************************************)
EXTENDS Naturals

CONSTANTS Cores,     \* the processors
          NoOwner    \* stands for "nobody" in the refinement of Mutex

ASSUME NoOwnerIsNoContext == NoOwner \notin Cores \X {"task", "irq"}

VARIABLES taken,        \* the Atomic<bool> taken
          was,          \* the shared member was
          iflag,        \* iflag[c]: EFLAGS.IF of core c, interrupts enabled
          level,        \* level[c]: the context core c is running
          pc,           \* pc[<<c, l>>]: where context l of core c is in lock/unlock
          wasDisabled,  \* wasDisabled[<<c, l>>]: the local of lock() or unlock()
          entryIF       \* entryIF[<<c, l>>]: iflag[c] when the context called lock()

vars == <<taken, was, iflag, level, pc, wasDisabled, entryIF>>

Levels == {"task", "irq"}
Contexts == Cores \X Levels

Labels == { "out",        \* outside the lock
            "disable",    \* in lock(), before Interrupts::disable()
            "exchange",   \* before taken.exchange(true)
            "lost",       \* the exchange returned true
            "won",        \* the exchange returned false, before was = ...
            "critical",   \* lock() has returned
            "release",    \* in unlock(), was has been read
            "restore" }   \* taken is false, before Interrupts::restore()

Init == /\ taken = FALSE
        /\ was = FALSE
        /\ iflag = [c \in Cores |-> TRUE]
        /\ level = [c \in Cores |-> "task"]
        /\ pc = [x \in Contexts |-> "out"]
        /\ wasDisabled = [x \in Contexts |-> FALSE]
        /\ entryIF = [x \in Contexts |-> TRUE]

Goto(c, l, label) == pc' = [pc EXCEPT ![<<c, l>>] = label]

-----------------------------------------------------------------------------
(* lock() *)

CallLock(c, l) ==
  /\ pc[<<c, l>>] = "out"
  /\ Goto(c, l, "disable")
  /\ entryIF' = [entryIF EXCEPT ![<<c, l>>] = iflag[c]]
  /\ UNCHANGED <<taken, was, iflag, level, wasDisabled>>

\* Mutant: a plain test-and-set lock, the cli is missing.
DisableWithoutCli(c, l) ==
  /\ pc[<<c, l>>] = "disable"
  /\ wasDisabled' = [wasDisabled EXCEPT ![<<c, l>>] = ~iflag[c]]
  /\ Goto(c, l, "exchange")
  /\ UNCHANGED <<taken, was, iflag, level, entryIF>>

\* Interrupts::disable(): IF is read and then cleared.
Disable(c, l) ==
  /\ pc[<<c, l>>] = "disable"
  /\ wasDisabled' = [wasDisabled EXCEPT ![<<c, l>>] = ~iflag[c]]
  /\ iflag' = [iflag EXCEPT ![c] = FALSE]
  /\ Goto(c, l, "exchange")
  /\ UNCHANGED <<taken, was, level, entryIF>>

\* Mutant: the test of the exchange is inverted.
ExchangeInverted(c, l) ==
  /\ pc[<<c, l>>] = "exchange"
  /\ taken' = TRUE
  /\ Goto(c, l, IF taken THEN "won" ELSE "lost")
  /\ UNCHANGED <<was, iflag, level, wasDisabled, entryIF>>

\* taken.exchange(true), one atomic instruction.
Exchange(c, l) ==
  /\ pc[<<c, l>>] = "exchange"
  /\ taken' = TRUE
  /\ Goto(c, l, IF taken THEN "lost" ELSE "won")
  /\ UNCHANGED <<was, iflag, level, wasDisabled, entryIF>>

\* Interrupts::restore(wasDisabled) and another turn of the loop.
Retry(c, l) ==
  /\ pc[<<c, l>>] = "lost"
  /\ iflag' = [iflag EXCEPT ![c] = iflag[c] \/ ~wasDisabled[<<c, l>>]]
  /\ Goto(c, l, "disable")
  /\ UNCHANGED <<taken, was, level, wasDisabled, entryIF>>

Won(c, l) ==
  /\ pc[<<c, l>>] = "won"
  /\ was' = wasDisabled[<<c, l>>]
  /\ Goto(c, l, "critical")
  /\ UNCHANGED <<taken, iflag, level, wasDisabled, entryIF>>

-----------------------------------------------------------------------------
(* unlock() *)

\* Mutant: taken is cleared before was is read.
ClearBeforeReadWas(c, l) ==
  /\ pc[<<c, l>>] = "critical"
  /\ wasDisabled' = [wasDisabled EXCEPT ![<<c, l>>] = was]
  /\ taken' = FALSE
  /\ Goto(c, l, "release")
  /\ UNCHANGED <<was, iflag, level, entryIF>>

ReadWas(c, l) ==
  /\ pc[<<c, l>>] = "critical"
  /\ wasDisabled' = [wasDisabled EXCEPT ![<<c, l>>] = was]
  /\ Goto(c, l, "release")
  /\ UNCHANGED <<taken, was, iflag, level, entryIF>>

Release(c, l) ==
  /\ pc[<<c, l>>] = "release"
  /\ taken' = FALSE
  /\ Goto(c, l, "restore")
  /\ UNCHANGED <<was, iflag, level, wasDisabled, entryIF>>

\* Mutant: the shared member is read after the lock is free.
RestoreSharedWas(c, l) ==
  /\ pc[<<c, l>>] = "restore"
  /\ iflag' = [iflag EXCEPT ![c] = iflag[c] \/ ~was]
  /\ Goto(c, l, "out")
  /\ UNCHANGED <<taken, was, level, wasDisabled, entryIF>>

Restore(c, l) ==
  /\ pc[<<c, l>>] = "restore"
  /\ iflag' = [iflag EXCEPT ![c] = iflag[c] \/ ~wasDisabled[<<c, l>>]]
  /\ Goto(c, l, "out")
  /\ UNCHANGED <<taken, was, level, wasDisabled, entryIF>>

-----------------------------------------------------------------------------
(* The core around the lock: other code of the thread may disable or       *)
(* enable interrupts, and an interrupt arrives whenever IF is set.         *)

FlipIF(c) ==
  /\ level[c] = "task"
  /\ pc[<<c, "task">>] = "out"
  /\ iflag' = [iflag EXCEPT ![c] = ~iflag[c]]
  /\ UNCHANGED <<taken, was, level, pc, wasDisabled, entryIF>>

Interrupt(c) ==
  /\ level[c] = "task"
  /\ iflag[c]
  /\ level' = [level EXCEPT ![c] = "irq"]
  /\ iflag' = [iflag EXCEPT ![c] = FALSE]
  /\ UNCHANGED <<taken, was, pc, wasDisabled, entryIF>>

\* iret pops the flags the interrupt pushed, which had IF set.
Iret(c) ==
  /\ level[c] = "irq"
  /\ pc[<<c, "irq">>] = "out"
  /\ level' = [level EXCEPT ![c] = "task"]
  /\ iflag' = [iflag EXCEPT ![c] = TRUE]
  /\ UNCHANGED <<taken, was, pc, wasDisabled, entryIF>>

LockStep(c, l) == \/ Disable(c, l) \/ Exchange(c, l) \/ Retry(c, l) \/ Won(c, l)
                  \/ ReadWas(c, l) \/ Release(c, l) \/ Restore(c, l)

Step(c, l) == level[c] = l /\ (CallLock(c, l) \/ LockStep(c, l))

Next == \E c \in Cores : \/ \E l \in Levels : Step(c, l)
                         \/ FlipIF(c) \/ Interrupt(c) \/ Iret(c)

Spec == Init /\ [][Next]_vars

-----------------------------------------------------------------------------
Holding == {"won", "critical", "release"}

\* Labels at which the code counts on its core's interrupts being disabled.
Masked == Holding \cup {"exchange", "lost", "restore"}

Holds(x) == pc[x] \in Holding

(* Every variable has its type. *)
TypeOK ==
  /\ taken \in BOOLEAN
  /\ was \in BOOLEAN
  /\ iflag \in [Cores -> BOOLEAN]
  /\ level \in [Cores -> Levels]
  /\ pc \in [Contexts -> Labels]
  /\ wasDisabled \in [Contexts -> BOOLEAN]
  /\ entryIF \in [Contexts -> BOOLEAN]

(* At most one context, thread or handler of any core, is between winning  *)
(* the exchange in lock() and clearing taken in unlock().                  *)
MutualExclusion == \A x, y \in Contexts : Holds(x) /\ Holds(y) => x = y

(* A handler never runs on top of a thread that holds the lock: if it did  *)
(* and asked for the lock, the core would spin for ever against itself.    *)
HolderNotInterrupted ==
  \A c \in Cores : level[c] = "irq" => ~Holds(<<c, "task">>)

(* unlock() gives its caller the interrupt state the caller had when it    *)
(* called lock(), although the state is kept in a member that every other  *)
(* holder overwrites as soon as taken is false.                            *)
CallerStateRestored ==
  [][\A c \in Cores, l \in Levels :
       pc[<<c, l>>] = "restore" /\ pc'[<<c, l>>] = "out" => iflag'[c] = entryIF[<<c, l>>]]_vars

(* The lock implements Mutex: owner is the context that holds it.          *)
Owner == IF \E x \in Contexts : Holds(x) THEN CHOOSE x \in Contexts : Holds(x)
                                         ELSE NoOwner

M == INSTANCE Mutex WITH Clients <- Contexts, owner <- Owner

ImplementsMutex == M!Spec
=============================================================================
