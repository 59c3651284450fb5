---------------------------- MODULE AddressSpaces ----------------------------
(***************************************************************************)
(* Physical frames (kernel/physmem.cc), page tables (kernel/vmm.cc) and    *)
(* the life of an address space (kernel/process.cc, kernel/sys.cc): made   *)
(* by fork(), filled by page faults, emptied by execl() and exit(), and    *)
(* deleted with the last Shared<Process>.                                  *)
(*                                                                         *)
(* Only the private half of a page directory is modelled.  A process has   *)
(* one thread, so nobody else looks at its tables and an operation on them *)
(* is one step; the allocator's lock makes each of its calls atomic.  What *)
(* the scheduler promises is proved in SchedulerProofs: a thread runs on   *)
(* one core, and stop() announces it when the core has left it.            *)
(***************************************************************************)
EXTENDS Naturals, Sequences, FiniteSets

CONSTANTS Cores,
          Procs,    \* Process objects
          Kernel,   \* kernelProcess: it runs init, the reaper and idle threads
          NoProc,
          Frames,   \* the number of physical frames
          Slots,    \* the entries of a directory or a table: 1 .. Slots
          Touched,  \* the pages that programs use, of all that they could
          Words     \* what a program writes into them

ASSUME AddressSpacesAssumption ==
  /\ Kernel \in Procs /\ NoProc \notin Procs /\ "kernel_thread" \notin Procs
  /\ Frames \in Nat \ {0, 1} /\ Slots \in Nat \ {0} /\ Words \subseteq Nat
  /\ Touched \subseteq ((1 .. Slots) \X (1 .. Slots)) \ {<<Slots, 1>>}

VARIABLES phys,   \* [mem, firstFree, avail]: the frames and their allocator
          pd,     \* the page directory of each process
          stage,  \* how far each process has got
          refs,   \* ref_count: the Shared<Process> there are
          child,  \* child_process of the fork() that a process is executing
          on,     \* whose thread a core executes: a process's or "kernel_thread"
          cr3,    \* the directory a core uses
          tlb     \* the translations it has cached, 0 for none

vars == <<phys, pd, stage, refs, child, on, cr3, tlb>>

Addresses == (1 .. Slots) \X (1 .. Slots)

\* is_special(): the page of the interrupt controllers, in the last table.
Special == {<<Slots, 1>>}
Apic == Frames + 1

Empty == [i \in 1 .. Slots |-> 0]
Uncached == [va \in Addresses |-> 0]

-----------------------------------------------------------------------------
\* The frame that alloc_frame() returns: the first free one, whose first word
\* is the link to the next, or one that was never used.
NextFrame(p) == IF p.firstFree # 0 THEN p.firstFree ELSE p.avail

AllocFrame(p) ==
  IF p.firstFree # 0
  THEN [p EXCEPT !.firstFree = p.mem[p.firstFree][1], !.mem[p.firstFree] = Empty]
  ELSE [p EXCEPT !.avail = @ + 1, !.mem[p.avail] = Empty]

\* The first word of a free frame is the link; what else is left in it is never
\* looked at and not kept here.
DeallocFrame(p, f) == [p EXCEPT !.mem[f] = [Empty EXCEPT ![1] = p.firstFree],
                                !.firstFree = f]

\* The links from firstFree on; 0 ends them.
FreeLinks(p) ==
  LET next(f) == IF f \in 1 .. Frames THEN p.mem[f][1] ELSE 0
      link[k \in 0 .. Frames] == IF k = 0 THEN p.firstFree ELSE next(link[k - 1])
  IN  link

FreeFrames(p) ==
  LET links == FreeLinks(p) IN {links[k] : k \in 0 .. Frames} \cap 1 .. Frames

\* alloc_frame() can be called n times before it panics, which ends everything.
Enough(p, n) == Cardinality(FreeFrames(p)) + Frames + 1 - p.avail >= n

\* The first half of map(): make sure that there is a table.
WithTable(p, dir, i) ==
  IF p.mem[dir][i] # 0 THEN p
  ELSE [AllocFrame(p) EXCEPT !.mem[dir][i] = NextFrame(p)]

Map(p, dir, va, pa) ==
  LET q == WithTable(p, dir, va[1])
  IN  [q EXCEPT !.mem[q.mem[dir][va[1]]][va[2]] = pa]

\* The entry for va, 0 if its page or its table is not present.
Walk(p, dir, va) == IF p.mem[dir][va[1]] = 0 THEN 0 ELSE p.mem[p.mem[dir][va[1]]][va[2]]

MakePd(p) == Map(AllocFrame(p), NextFrame(p), <<Slots, 1>>, Apic)

\* for (i = 1; i <= n; i++) p = round(p, i)
Loop(round(_, _), p, n) ==
  LET after[i \in 0 .. n] == IF i = 0 THEN p ELSE round(after[i - 1], i)
  IN  after[n]

\* The page at va, if there is one that is not the interrupt controllers'.
PageAt(p, dir, va) == IF va \in Special THEN 0 ELSE Walk(p, dir, va)

HasSpecial(i) == \E j \in 1 .. Slots : <<i, j>> \in Special

ClearPage(p, dir, va) ==
  IF PageAt(p, dir, va) = 0 THEN p
  ELSE DeallocFrame([p EXCEPT !.mem[p.mem[dir][va[1]]][va[2]] = 0], PageAt(p, dir, va))

ClearPages(p, dir, i) == Loop(LAMBDA q, j : ClearPage(q, dir, <<i, j>>), p, Slots)

\* One round of delete_private(): a table with a special page stays.
ClearTable(p, dir, i) ==
  IF p.mem[dir][i] = 0 THEN p
  ELSE IF HasSpecial(i) THEN ClearPages(p, dir, i)
  ELSE DeallocFrame([ClearPages(p, dir, i) EXCEPT !.mem[dir][i] = 0], p.mem[dir][i])

DeletePrivate(p, dir) == Loop(LAMBDA q, i : ClearTable(q, dir, i), p, Slots)

ReleasePage(p, dir, va) ==
  IF PageAt(p, dir, va) = 0 THEN p ELSE DeallocFrame(p, PageAt(p, dir, va))

ReleasePages(p, dir, i) == Loop(LAMBDA q, j : ReleasePage(q, dir, <<i, j>>), p, Slots)

ReleaseTable(p, dir, i) ==
  IF p.mem[dir][i] = 0 THEN p
  ELSE DeallocFrame(ReleasePages(p, dir, i), p.mem[dir][i])

ReleaseTables(p, dir) == Loop(LAMBDA q, i : ReleaseTable(q, dir, i), p, Slots)

DeletePd(p, dir) == DeallocFrame(ReleaseTables(p, dir), dir)

\* Mutant: the page is shared and not copied.
CopyPageShares(p, from, to, va) ==
  IF Walk(p, from, va) = 0 \/ Walk(p, to, va) # 0 THEN p
  ELSE [p EXCEPT !.mem[p.mem[to][va[1]]][va[2]] = Walk(p, from, va)]

\* A page of its own for a page of the parent that make_pd() has not mapped already.
CopyPage(p, from, to, va) ==
  IF Walk(p, from, va) = 0 \/ Walk(p, to, va) # 0 THEN p
  ELSE [AllocFrame(p) EXCEPT !.mem[NextFrame(p)] = p.mem[Walk(p, from, va)],
                             !.mem[p.mem[to][va[1]]][va[2]] = NextFrame(p)]

CopyPages(p, from, to, i) == Loop(LAMBDA q, j : CopyPage(q, from, to, <<i, j>>), p, Slots)

CopyTable(p, from, to, i) ==
  IF p.mem[from][i] = 0 THEN p ELSE CopyPages(WithTable(p, to, i), from, to, i)

\* The loops of fork().
CopyPrivate(p, from, to) == Loop(LAMBDA q, i : CopyTable(q, from, to, i), p, Slots)

-----------------------------------------------------------------------------
ProcessOf(thread) == IF thread \in Procs THEN thread ELSE Kernel

\* The reaper, kernelProcess's static reference and its idle threads count as
\* one reference that is never dropped.
Init ==
  LET raw == [mem |-> [f \in 1 .. Frames |-> Empty], firstFree |-> 0, avail |-> 1]
  IN  /\ phys = MakePd(raw)
      /\ pd = [p \in Procs |-> IF p = Kernel THEN 1 ELSE 0]
      /\ stage = [p \in Procs |-> IF p = Kernel THEN "user" ELSE "unborn"]
      /\ refs = [p \in Procs |-> IF p = Kernel THEN 2 ELSE 0]
      /\ child = [p \in Procs |-> NoProc]
      /\ on = [c \in Cores |-> "kernel_thread"]
      /\ cr3 = [c \in Cores |-> 1]
      /\ tlb = [c \in Cores |-> Uncached]

\* The thread that core c leaves may run again, unless it has called stop().
Leave(c) == \/ UNCHANGED stage
            \/ /\ on[c] \in Procs /\ stage[on[c]] = "exited"
               /\ stage' = [stage EXCEPT ![on[c]] = "zombie"]

\* contextSwitch() to a process that no core runs, or to a kernel thread: an
\* idle thread or the reaper, which look the same from here.
SwitchTo(c, t) ==
  /\ on[c] # t
  /\ \/ t = "kernel_thread"
     \/ /\ t \in Procs /\ \A d \in Cores : on[d] # t
        /\ stage[t] \in {"user", "forking", "exited"}
  /\ Leave(c)
  /\ on' = [on EXCEPT ![c] = t]
  /\ cr3' = [cr3 EXCEPT ![c] = pd[ProcessOf(t)]]
  /\ tlb' = [tlb EXCEPT ![c] = Uncached]
  /\ UNCHANGED <<phys, pd, refs, child>>

\* The program on core c writes to a page, through the TLB.
Write(c, p, va, word) ==
  LET pa == IF tlb[c][va] # 0 THEN tlb[c][va] ELSE Walk(phys, cr3[c], va)
  IN  /\ on[c] = p /\ stage[p] = "user"
      /\ pa # 0
      /\ phys' = [phys EXCEPT !.mem[pa][1] = word]
      /\ tlb' = [tlb EXCEPT ![c][va] = pa]
      /\ UNCHANGED <<pd, stage, refs, child, on, cr3>>

\* vmm_pageFault()
PageFault(c, p, va) ==
  /\ on[c] = p /\ stage[p] = "user"
  /\ Walk(phys, cr3[c], va) = 0 /\ tlb[c][va] = 0
  /\ Enough(phys, IF phys.mem[pd[p]][va[1]] = 0 THEN 2 ELSE 1)
  /\ phys' = Map(AllocFrame(phys), pd[p], va, NextFrame(phys))
  /\ UNCHANGED <<pd, stage, refs, child, on, cr3, tlb>>

\* Mutant: the pages are not invalidated.
NoFlush(c) == UNCHANGED tlb

\* invlpg() for every page that delete_private() unmaps.
Flush(c) ==
  tlb' = [tlb EXCEPT ![c] = [va \in Addresses |->
            IF va \in Special \/ Walk(phys, cr3[c], va) = 0 THEN @[va] ELSE 0]]

\* execl() clears the address space and loads a program; the faults of the
\* loading are PageFaults.
Exec(c, p) ==
  /\ on[c] = p /\ stage[p] = "user"
  /\ phys' = DeletePrivate(phys, pd[p])
  /\ Flush(c)
  /\ UNCHANGED <<pd, stage, refs, child, on, cr3>>

\* exit() clears it too; the thread then calls stop().
Exit(c, p) ==
  /\ on[c] = p /\ stage[p] = "user"
  /\ phys' = DeletePrivate(phys, pd[p])
  /\ stage' = [stage EXCEPT ![p] = "exited"]
  /\ Flush(c)
  /\ UNCHANGED <<pd, refs, child, on, cr3>>

PrivateTables(p) == {i \in 1 .. Slots - 1 : phys.mem[pd[p]][i] # 0}
Pages(p) == {va \in Addresses \ Special : Walk(phys, pd[p], va) # 0}

\* Process::fork() makes a Process, its directory and its pages; thread() puts
\* its TCB, which has a second reference, into readyQ.
Fork(c, p, q) ==
  LET made == MakePd(phys)
  IN  /\ on[c] = p /\ stage[p] = "user"
      /\ stage[q] = "unborn"
      /\ Enough(phys, 2 + Cardinality(PrivateTables(p)) + Cardinality(Pages(p)))
      /\ phys' = CopyPrivate(made, pd[p], NextFrame(phys))
      /\ pd' = [pd EXCEPT ![q] = NextFrame(phys)]
      /\ stage' = [stage EXCEPT ![p] = "forking", ![q] = "user"]
      /\ refs' = [refs EXCEPT ![q] = 2]
      /\ child' = [child EXCEPT ![p] = q]
      /\ UNCHANGED <<on, cr3, tlb>>

\* A Shared<Process> goes away: with the last one ~Process() runs.
Drop(q) ==
  /\ refs' = [refs EXCEPT ![q] = @ - 1]
  /\ IF refs[q] = 1 THEN phys' = DeletePd(phys, pd[q]) /\ pd' = [pd EXCEPT ![q] = 0]
                    ELSE UNCHANGED <<phys, pd>>

\* Mutant: the reference is not dropped.
ForkReturnLeaks(c, p) ==
  /\ on[c] = p /\ stage[p] = "forking"
  /\ stage' = [stage EXCEPT ![p] = "user"]
  /\ child' = [child EXCEPT ![p] = NoProc]
  /\ UNCHANGED <<phys, pd, refs, on, cr3, tlb>>

\* fork() returns to the parent; child_process goes out of scope.
ForkReturn(c, p) ==
  /\ on[c] = p /\ stage[p] = "forking"
  /\ Drop(child[p])
  /\ stage' = [stage EXCEPT ![p] = "user",
                            ![child[p]] = IF refs[child[p]] = 1 THEN "unborn" ELSE @]
  /\ child' = [child EXCEPT ![p] = NoProc]
  /\ UNCHANGED <<on, cr3, tlb>>

\* delete_zombies(), called by the reaper and by thread() in fork(): the TCB
\* of q and its reference go away.
Reap(c, q) ==
  /\ on[c] = "kernel_thread" \/ (on[c] \in Procs /\ stage[on[c]] = "forking")
  /\ stage[q] = "zombie"
  /\ Drop(q)
  /\ stage' = [stage EXCEPT ![q] = IF refs[q] = 1 THEN "unborn" ELSE "reaped"]
  /\ UNCHANGED <<child, on, cr3, tlb>>

Next == \E c \in Cores :
          \/ \E t \in Procs \cup {"kernel_thread"} : SwitchTo(c, t)
          \/ \E p \in Procs : \/ Exec(c, p) \/ Exit(c, p)
                              \/ ForkReturn(c, p)
                              \/ Reap(c, p)
                              \/ \E q \in Procs : Fork(c, p, q)
                              \/ \E va \in Touched :
                                   \/ PageFault(c, p, va)
                                   \/ \E word \in Words : Write(c, p, va, word)

Spec == Init /\ [][Next]_vars

-----------------------------------------------------------------------------
Existing == {p \in Procs : \/ p = Kernel \/ stage[p] \notin {"unborn", "reaped"}
                           \/ \E q \in Procs : child[q] = p}

\* Everything that frame f is used for.
Uses(f) ==
       {<<"free">> : x \in {f} \cap FreeFrames(phys)}
  \cup {<<"unused">> : x \in {f} \cap phys.avail .. Frames}
  \cup {<<"directory", p>> : p \in {q \in Existing : pd[q] = f}}
  \cup {<<"table", x>> : x \in {y \in Existing \X (1 .. Slots) : phys.mem[pd[y[1]]][y[2]] = f}}
  \cup {<<"page", x>> : x \in {y \in Existing \X Addresses : Walk(phys, pd[y[1]], y[2]) = f}}

(* Every frame is in one place: free, or the directory, a table or a page  *)
(* of one process that a thread or a fork() still needs.  No frame is      *)
(* freed twice, used after it was freed, or lost with its process.         *)
FramesExclusive ==
  \A f \in 1 .. Frames : LET uses == Uses(f) IN \E u \in uses : uses = {u}

(* The ASSERTs of vmm.cc about cr3, and more: a core always uses the       *)
(* tables of the process that it executes, never deleted ones, and the     *)
(* translations in its TLB are those of these tables, although no core     *)
(* ever tells another to invalidate anything.                              *)
TranslationsCurrent ==
  \A c \in Cores :
    /\ cr3[c] # 0 /\ cr3[c] = pd[ProcessOf(on[c])]
    /\ \A va \in Addresses : tlb[c][va] # 0 => tlb[c][va] = Walk(phys, cr3[c], va)

\* What process p finds in its memory; a page that is not there reads as 0.
View(p) == [va \in Addresses \ Special |->
              LET pa == Walk(phys, pd[p], va) IN IF pa = 0 THEN 0 ELSE phys.mem[pa][1]]

(* Memory is private: what a process finds in it changes only by what the  *)
(* process does itself, a page fault shows zeros and nobody's old data,    *)
(* and a child begins with what its parent had.                            *)
MemoryPrivate ==
  [][/\ \A p \in Procs :
          pd[p] # 0 /\ pd'[p] = pd[p] /\ View(p)' # View(p) =>
            \E c \in Cores : \/ Exec(c, p) \/ Exit(c, p)
                             \/ \E va \in Touched, word \in Words : Write(c, p, va, word)
     /\ \A p, q \in Procs :
          child[p] = NoProc /\ child'[p] = q /\ q # NoProc => View(q)' = View(p)]_vars
=============================================================================
