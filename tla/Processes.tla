------------------------------ MODULE Processes ------------------------------
(***************************************************************************)
(* The process table entries of kernel/process.cc and the system calls of  *)
(* kernel/sys.cc that work on them: semaphores and files are shared with   *)
(* the children that fork() makes, and a parent waits for the status that  *)
(* its child passes to exit() through a Future (kernel/future.h).          *)
(*                                                                         *)
(* A process has one thread, so its own tables have one user.  Semaphores  *)
(* are used through their atomic steps, which Semaphore implements.        *)
(***************************************************************************)
EXTENDS Integers, Sequences, FiniteSets, FiniteSetsExt

CONSTANTS Procs,       \* Process objects, each with its Future output
          First,       \* the process that the kernel begins with
          Semaphores,  \* Semaphore objects
          Files,       \* File objects
          None,        \* a null Shared<>
          NSEM, NCHILD, NFILE,  \* the lengths of a process's tables
          Initials,    \* the arguments of sem()
          Statuses,    \* the arguments of exit()
          MaxUnits     \* bound: up() is called while there are fewer units

ASSUME ProcessesAssumption ==
  /\ First \in Procs
  /\ {NSEM, NCHILD, NFILE} \subseteq Nat \ {0}
  /\ Initials \subseteq Nat /\ Statuses \subseteq Nat \ {0}
  /\ MaxUnits \in Nat
  /\ None \notin Semaphores \cup Files \cup Procs \cup Statuses
  /\ \A kind \in {Semaphores, Files} : kind \cap Procs = {}
  /\ Semaphores \cap Files = {}

VARIABLES stage,     \* what each process is doing
          arg,       \* the semaphore or child that its system call is about
          sems, children, files,  \* its tables
          refs,      \* the ref_count of semaphores, files and futures
          units, queue,  \* the semaphores, and the go semaphores of futures
          isReady, value,  \* the rest of the futures
          rc         \* history: what a process has passed to exit()

tables == <<sems, children, files>>
semaphores == <<units, queue>>
future == <<isReady, value>>
vars == <<stage, arg, tables, refs, semaphores, future, rc>>

Objects == Semaphores \cup Files \cup Procs

NoTable(n) == [i \in 1 .. n |-> None]

Goto(p, there) == stage' = [stage EXCEPT ![p] = there]

\* The slots of a table that hold o.
Slots(table, o) == {i \in DOMAIN table : table[i] = o}

\* The slot that a loop over a table finds for something new.
FreeSlots(table) == Slots(table, None)
FirstFree(table) == Min(FreeSlots(table))

\* Bags of references: what a table refers to, and all that a Process does.
Count(table) == [o \in Objects |-> Cardinality(Slots(table, o))]
Held(p) == [o \in Objects |-> Count(sems[p])[o] + Count(children[p])[o] + Count(files[p])[o]
                              + (IF o = p THEN 1 ELSE 0)]

Add(o) == refs' = [refs EXCEPT ![o] = @ + 1]
Drop(o) == refs' = [refs EXCEPT ![o] = @ - 1]

Init == /\ stage = [p \in Procs |-> IF p = First THEN "user" ELSE "unborn"]
        /\ arg = [p \in Procs |-> None]
        /\ sems = [p \in Procs |-> NoTable(NSEM)]
        /\ children = [p \in Procs |-> NoTable(NCHILD)]
        /\ files = [p \in Procs |-> NoTable(NFILE)]
        /\ refs = [o \in Objects |-> IF o = First THEN 1 ELSE 0]
        /\ units = [s \in Semaphores \cup Procs |-> 0]
        /\ queue = [s \in Semaphores \cup Procs |-> << >>]
        /\ isReady = [p \in Procs |-> FALSE]
        /\ value = [p \in Procs |-> 0]
        /\ rc = [p \in Procs |-> None]

-----------------------------------------------------------------------------
\* Semaphores: a down() that waits ends in stage "woken" or "got".
Woken(q) == IF stage[q] = "down" THEN "woken" ELSE "got"

\* up() of s by p, which goes on at there.
UpAnd(s, p, there) ==
  IF queue[s] = << >>
  THEN /\ units' = [units EXCEPT ![s] = @ + 1]
       /\ UNCHANGED queue
       /\ Goto(p, there)
  ELSE /\ queue' = [queue EXCEPT ![s] = Tail(@)]
       /\ UNCHANGED units
       /\ stage' = [stage EXCEPT ![p] = there, ![Head(queue[s])] = Woken(Head(queue[s]))]

\* down() of s by p, which goes on at there or waits at asleep.
DownOr(s, p, there, asleep) ==
  IF units[s] > 0
  THEN /\ units' = [units EXCEPT ![s] = @ - 1]
       /\ UNCHANGED queue
       /\ Goto(p, there)
  ELSE /\ queue' = [queue EXCEPT ![s] = Append(@, p)]
       /\ UNCHANGED units
       /\ Goto(p, asleep)

NewSemaphore(p, s, initial) ==
  /\ stage[p] = "user"
  /\ FreeSlots(sems[p]) # {}
  /\ refs[s] = 0
  /\ sems' = [sems EXCEPT ![p][FirstFree(sems[p])] = s]
  /\ refs' = [refs EXCEPT ![s] = 1]
  /\ units' = [units EXCEPT ![s] = initial]
  /\ queue' = [queue EXCEPT ![s] = << >>]
  /\ UNCHANGED <<stage, arg, children, files, future, rc>>

SysUp(p, i) ==
  /\ stage[p] = "user" /\ sems[p][i] # None
  /\ units[sems[p][i]] < MaxUnits
  /\ UpAnd(sems[p][i], p, "user")
  /\ UNCHANGED <<arg, tables, refs, future, rc>>

\* The local Shared<Semaphore> of the call is a reference.
SysDown(p, i) ==
  /\ stage[p] = "user" /\ sems[p][i] # None
  /\ DownOr(sems[p][i], p, "woken", "down")
  /\ arg' = [arg EXCEPT ![p] = sems[p][i]]
  /\ Add(sems[p][i])
  /\ UNCHANGED <<tables, future, rc>>

SysDownReturn(p) ==
  /\ stage[p] = "woken"
  /\ Goto(p, "user")
  /\ arg' = [arg EXCEPT ![p] = None]
  /\ Drop(arg[p])
  /\ UNCHANGED <<tables, semaphores, future, rc>>

-----------------------------------------------------------------------------
\* open() puts a new File into the table; no name or inode is kept.
Open(p, f) ==
  /\ stage[p] = "user"
  /\ FreeSlots(files[p]) # {}
  /\ refs[f] = 0
  /\ files' = [files EXCEPT ![p][FirstFree(files[p])] = f]
  /\ refs' = [refs EXCEPT ![f] = 1]
  /\ UNCHANGED <<stage, arg, sems, children, semaphores, future, rc>>

\* close() of a semaphore, of a child, or of a file.
Close(p) ==
  /\ stage[p] = "user"
  /\ \/ \E i \in 1 .. NSEM : /\ sems[p][i] # None
                             /\ sems' = [sems EXCEPT ![p][i] = None]
                             /\ Drop(sems[p][i])
                             /\ UNCHANGED <<children, files>>
     \/ \E i \in 1 .. NCHILD : /\ children[p][i] # None
                               /\ children' = [children EXCEPT ![p][i] = None]
                               /\ Drop(children[p][i])
                               /\ UNCHANGED <<sems, files>>
     \/ \E i \in 1 .. NFILE : /\ files[p][i] # None
                              /\ files' = [files EXCEPT ![p][i] = None]
                              /\ Drop(files[p][i])
                              /\ UNCHANGED <<sems, children>>
  /\ UNCHANGED <<stage, arg, semaphores, future, rc>>

\* Mutant: the semaphores are copied as if they were plain pointers.
InheritedFiles(p, q) ==
  [o \in Objects |-> Count(files[p])[o] + IF o = q THEN 2 ELSE 0]

\* The references that fork() makes.
Inherited(p, q) ==
  [o \in Objects |-> Count(sems[p])[o] + Count(files[p])[o] + IF o = q THEN 2 ELSE 0]

\* fork(): the child shares the parent's semaphores and files; the parent
\* keeps the child's output.
Fork(p, q) ==
  /\ stage[p] = "user" /\ FreeSlots(children[p]) # {}
  /\ stage[q] = "unborn" /\ refs[q] = 0
  /\ Goto(q, "user")
  /\ children' = [children EXCEPT ![p][FirstFree(children[p])] = q,
                                  ![q] = NoTable(NCHILD)]
  /\ sems' = [sems EXCEPT ![q] = sems[p]]
  /\ files' = [files EXCEPT ![q] = files[p]]
  /\ refs' = [o \in Objects |-> refs[o] + Inherited(p, q)[o]]
  /\ isReady' = [isReady EXCEPT ![q] = FALSE]
  /\ value' = [value EXCEPT ![q] = 0]
  /\ units' = [units EXCEPT ![q] = 0]
  /\ queue' = [queue EXCEPT ![q] = << >>]
  /\ rc' = [rc EXCEPT ![q] = None]
  /\ UNCHANGED arg

\* execl() forgets the semaphores and the children, and keeps the files.
Exec(p) ==
  /\ stage[p] = "user"
  /\ sems' = [sems EXCEPT ![p] = NoTable(NSEM)]
  /\ children' = [children EXCEPT ![p] = NoTable(NCHILD)]
  /\ refs' = [o \in Objects |-> refs[o] - Count(sems[p])[o] - Count(children[p])[o]]
  /\ UNCHANGED <<stage, arg, files, semaphores, future, rc>>

-----------------------------------------------------------------------------
\* exit(): output->set(status), in its three steps.
SetValue(p, status) ==
  /\ stage[p] = "user"
  /\ value' = [value EXCEPT ![p] = status]
  /\ rc' = [rc EXCEPT ![p] = status]
  /\ Goto(p, "setReady")
  /\ UNCHANGED <<arg, tables, refs, semaphores, isReady>>

SetReady(p) ==
  /\ stage[p] = "setReady"
  /\ isReady' = [isReady EXCEPT ![p] = TRUE]
  /\ Goto(p, "goUp")
  /\ UNCHANGED <<arg, tables, refs, semaphores, value, rc>>

\* Mutant: set() does not call up().
GoUpMissing(p) ==
  /\ stage[p] = "goUp"
  /\ Goto(p, "stopped")
  /\ UNCHANGED <<arg, tables, refs, semaphores, future, rc>>

GoUp(p) ==
  /\ stage[p] = "goUp"
  /\ UpAnd(p, p, "stopped")
  /\ UNCHANGED <<arg, tables, refs, future, rc>>

\* The TCB of a process that has stopped is deleted, and with it the Process
\* and all its references.  kernelProcess stays.
Reap(p) ==
  /\ stage[p] = "stopped" /\ p # First
  /\ Goto(p, "unborn")
  /\ sems' = [sems EXCEPT ![p] = NoTable(NSEM)]
  /\ children' = [children EXCEPT ![p] = NoTable(NCHILD)]
  /\ files' = [files EXCEPT ![p] = NoTable(NFILE)]
  /\ refs' = [o \in Objects |-> refs[o] - Held(p)[o]]
  /\ UNCHANGED <<arg, semaphores, future, rc>>

\* Mutant: the test of isReady is inverted.
WaitInverted(p, i) ==
  /\ stage[p] = "user" /\ children[p][i] # None
  /\ arg' = [arg EXCEPT ![p] = children[p][i]]
  /\ Goto(p, IF isReady[children[p][i]] THEN "goDown" ELSE "return")
  /\ Add(children[p][i])
  /\ UNCHANGED <<tables, semaphores, future, rc>>

\* wait(): the local e is a reference to the child's output.
Wait(p, i) ==
  /\ stage[p] = "user" /\ children[p][i] # None
  /\ arg' = [arg EXCEPT ![p] = children[p][i]]
  /\ Goto(p, IF isReady[children[p][i]] THEN "return" ELSE "goDown")
  /\ Add(children[p][i])
  /\ UNCHANGED <<tables, semaphores, future, rc>>

GoDown(p) ==
  /\ stage[p] = "goDown"
  /\ DownOr(arg[p], p, "got", "get")
  /\ UNCHANGED <<arg, tables, refs, future, rc>>

\* Whoever gets through lets the next one through.
PassOn(p) ==
  /\ stage[p] = "got"
  /\ UpAnd(arg[p], p, "return")
  /\ UNCHANGED <<arg, tables, refs, future, rc>>

\* The slot is free again; that and the end of e are two references less.
WaitReturn(p) ==
  /\ stage[p] = "return"
  /\ children' = [children EXCEPT ![p] =
                    [i \in 1 .. NCHILD |-> IF @[i] = arg[p] THEN None ELSE @[i]]]
  /\ refs' = [refs EXCEPT ![arg[p]] = @ - 2]
  /\ arg' = [arg EXCEPT ![p] = None]
  /\ Goto(p, "user")
  /\ UNCHANGED <<sems, files, semaphores, future, rc>>

\* Kernel code of a system call that has begun.
InKernel(p) == \/ SysDownReturn(p)
               \/ SetReady(p) \/ GoUp(p) \/ Reap(p)
               \/ GoDown(p) \/ PassOn(p) \/ WaitReturn(p)

SystemCall(p) ==
  \/ \E s \in Semaphores, initial \in Initials : NewSemaphore(p, s, initial)
  \/ \E i \in 1 .. NSEM : SysUp(p, i) \/ SysDown(p, i)
  \/ \E f \in Files : Open(p, f)
  \/ Close(p) \/ Exec(p)
  \/ \E q \in Procs : Fork(p, q)
  \/ \E status \in Statuses : SetValue(p, status)
  \/ \E i \in 1 .. NCHILD : Wait(p, i)

Next == \E p \in Procs : InKernel(p) \/ SystemCall(p)

Spec == Init /\ [][Next]_vars

\* A system call is executed to its end unless it waits.
FairSpec == Spec /\ \A p \in Procs : WF_vars(InKernel(p))

-----------------------------------------------------------------------------
\* The slots of all tables that refer to o.
Places(table, o) == UNION {{p} \X Slots(table[p], o) : p \in Procs}

\* The system calls of which a local variable refers to o.
Locals(o) == {p \in Procs : arg[p] = o}

\* References to o from tables, from system calls and from Process::output.
References(o) ==
  Cardinality(Places(sems, o)) + Cardinality(Places(children, o)) + Cardinality(Places(files, o))
  + Cardinality(Locals(o)) + (IF o \in Procs /\ stage[o] # "unborn" THEN 1 ELSE 0)

(* ref_count is the number of references, so that nothing is deleted that  *)
(* some process can still reach, or sleeps in, and nothing is kept that    *)
(* nobody can.                                                             *)
RefsExact == /\ \A o \in Objects : refs[o] = References(o)
             /\ \A s \in Semaphores \cup Procs : queue[s] # << >> => refs[s] > 0

(* wait() returns only after the child has called exit(), and what it      *)
(* stores is what the child passed, although get() looks at isReady and t  *)
(* without a lock and the child's Process may be deleted by then.          *)
WaitGetsStatus ==
  \A p \in Procs : stage[p] = "return" =>
    rc[arg[p]] # None /\ value[arg[p]] = rc[arg[p]]

(* A parent that waits for a child gets its answer once the child has      *)
(* called exit(), wherever in get() it was at that time.                   *)
WaitReturns ==
  \A p, q \in Procs :
    stage[p] \in {"goDown", "get", "got"} /\ arg[p] = q /\ rc[q] # None
      ~> stage[p] = "user"
=============================================================================
