-------------------------- MODULE ProcessesProofs --------------------------
(***************************************************************************)
(* For any number of processes, semaphores and files, and tables of any    *)
(* length: reference counts are exact, and wait() gets the status that     *)
(* the child passed to exit().                                             *)
(***************************************************************************)
EXTENDS Processes, Queues, SequenceTheorems, FiniteSetTheorems, WellFoundedInduction, TLAPS

-----------------------------------------------------------------------------
(* The members of a queue (kernel/queue.h).                                *)

\* What is added is a member, and nothing else becomes one.
LEMMA AppendContains ==
  ASSUME NEW S, NEW members \in Seq(S), NEW e \in S, NEW t
  PROVE  Contains(Append(members, e), t) <=> Contains(members, t) \/ t = e
BY AppendProperties, LenProperties DEF Contains

LEMMA AppendNoRepeats ==
  ASSUME NEW S, NEW members \in Seq(S), NEW e \in S, NoRepeats(members), ~Contains(members, e)
  PROVE  NoRepeats(Append(members, e))
BY DEF Contains, NoRepeats

\* What is removed was a member once, and nothing else ceases to be one.
LEMMA TailContains ==
  ASSUME NEW S, NEW members \in Seq(S), members # << >>, NoRepeats(members), NEW t
  PROVE  /\ Contains(Tail(members), t) <=> Contains(members, t) /\ t # Head(members)
         /\ NoRepeats(Tail(members)) /\ Contains(members, Head(members))
         /\ Head(members) \in S /\ Tail(members) \in Seq(S)
<1>1. \A i \in DOMAIN members \ {1} : i - 1 \in DOMAIN Tail(members) /\ Tail(members)[i - 1] = members[i]
  OBVIOUS
<1>2. ASSUME Contains(members, t), t # Head(members) PROVE Contains(Tail(members), t)
  <2>1. PICK i \in 1 .. Len(members) : members[i] = t
    BY <1>2 DEF Contains
  <2>2. i \in DOMAIN members \ {1}
    BY <1>2, <2>1
  <2> QED BY <1>1, <2>1, <2>2 DEF Contains
<1>3. Contains(Tail(members), t) => Contains(members, t) /\ t # Head(members)
  BY DEF Contains, NoRepeats
<1> QED BY <1>2, <1>3 DEF Contains, NoRepeats

-----------------------------------------------------------------------------
Owners == Semaphores \cup Procs

\* Where a process waits for nothing, for a semaphore, or for a child.
Free == {"user", "setReady", "goUp", "stopped"}
OnSemaphore == {"down", "woken"}
OnChild == {"goDown", "get", "got", "return"}
Asleep == {"down", "get"}
Stages == {"unborn"} \cup Free \cup OnSemaphore \cup OnChild

ProcTypeOK ==
  /\ stage \in [Procs -> Stages]
  /\ arg \in [Procs -> Owners \cup {None}]
  /\ sems \in [Procs -> [1 .. NSEM -> Semaphores \cup {None}]]
  /\ children \in [Procs -> [1 .. NCHILD -> Procs \cup {None}]]
  /\ files \in [Procs -> [1 .. NFILE -> Files \cup {None}]]
  /\ refs \in [Objects -> Int]
  /\ units \in [Owners -> Nat] /\ queue \in [Owners -> Seq(Procs)]
  /\ isReady \in [Procs -> BOOLEAN] /\ value \in [Procs -> Nat]
  /\ rc \in [Procs -> Statuses \cup {None}]

\* The local reference of a system call, and the slot that wait() is about.
ArgInv ==
  \A p \in Procs :
    /\ stage[p] \in Free \cup {"unborn"} => arg[p] = None
    /\ stage[p] \in OnSemaphore => arg[p] \in Semaphores
    /\ stage[p] \in OnChild => arg[p] \in Procs /\ \E i \in 1 .. NCHILD : children[p][i] = arg[p]

\* A process that does not exist refers to nothing, and no child is in two slots.
TablesInv ==
  \A p \in Procs :
    /\ stage[p] = "unborn" => /\ sems[p] = NoTable(NSEM) /\ children[p] = NoTable(NCHILD)
                              /\ files[p] = NoTable(NFILE)
    /\ \A i, j \in 1 .. NCHILD : children[p][i] = children[p][j] /\ children[p][i] # None => i = j

\* The queues hold the processes that sleep.
SleepInv ==
  \A s \in Owners :
    /\ NoRepeats(queue[s])
    /\ \A p \in Procs : Contains(queue[s], p) <=> stage[p] \in Asleep /\ arg[p] = s

InSems(o) == Cardinality(Places(sems, o))
InChildren(o) == Cardinality(Places(children, o))
InFiles(o) == Cardinality(Places(files, o))
InLocals(o) == Cardinality(Locals(o))
Alive(o) == IF o \in Procs /\ stage[o] # "unborn" THEN 1 ELSE 0

RefsInv ==
  \A o \in Objects :
    /\ IsFiniteSet(Places(sems, o)) /\ IsFiniteSet(Places(children, o))
    /\ IsFiniteSet(Places(files, o)) /\ IsFiniteSet(Locals(o))
    /\ refs[o] = InSems(o) + InChildren(o) + InFiles(o) + InLocals(o) + Alive(o)

SameKind(a, b) == \A kind \in {{"unborn"}, Free, OnSemaphore, OnChild} : a \in kind <=> b \in kind

\* What shows that a process has called exit().
StatusInv ==
  \A p \in Procs :
    /\ rc[p] # None => value[p] = rc[p]
    /\ isReady[p] \/ units[p] > 0 \/ stage[p] \in {"setReady", "goUp"} => rc[p] # None
    /\ stage[p] \in {"got", "return"} => rc[arg[p]] # None

ProcIInv == ProcTypeOK /\ ArgInv /\ TablesInv /\ SleepInv /\ RefsInv /\ StatusInv

-----------------------------------------------------------------------------
(* Tables *)

Rows(len, X) == [1 .. len -> X]

LEMMA FirstFreeIsFree ==
  ASSUME NEW len \in Nat, NEW X, NEW table \in Rows(len, X), FreeSlots(table) # {}
  PROVE  FirstFree(table) \in 1 .. len /\ table[FirstFree(table)] = None
<1> DEFINE S == FreeSlots(table)
<1>1. S \subseteq Nat /\ S # {} /\ \A i \in S : i \in 1 .. len /\ table[i] = None
  BY DEF Rows, FreeSlots, Slots
<1> HIDE DEF S
<1>2. \E x \in S : \A y \in S : ~(<<y, x>> \in OpToRel(<, Nat))
  BY <1>1, NatLessThanWellFounded, WFMin
<1>3. \A x, y \in Nat : <<y, x>> \in OpToRel(<, Nat) <=> y < x
  BY DEF OpToRel
<1>4. \E x \in S : \A y \in S : x <= y
  <2>1. PICK x \in S : \A y \in S : ~(<<y, x>> \in OpToRel(<, Nat))
    BY <1>2
  <2>2. \A y \in S : ~(y < x)
    BY <1>1, <1>3, <2>1
  <2> QED BY <1>1, <2>2
<1>5. Min(S) \in S
  BY <1>4 DEF Min
<1> QED BY <1>1, <1>5 DEF FirstFree, S

LEMMA DisjointUnion ==
  ASSUME NEW S, NEW T, IsFiniteSet(S), IsFiniteSet(T), S \cap T = {}
  PROVE  IsFiniteSet(S \cup T) /\ Cardinality(S \cup T) = Cardinality(S) + Cardinality(T)
<1>1. /\ IsFiniteSet(S \cup T)
      /\ Cardinality(S \cup T) = Cardinality(S) + Cardinality(T) - Cardinality(S \cap T)
  BY FS_Union
<1>2. Cardinality(S \cap T) = 0
  BY FS_EmptySet
<1>3. Cardinality(S) \in Nat /\ Cardinality(T) \in Nat
  BY FS_CardinalityType
<1> QED BY <1>1, <1>2, <1>3

LEMMA SlotsFinite ==
  ASSUME NEW len \in Nat, NEW X, NEW row \in [1 .. len -> X], NEW o
  PROVE  IsFiniteSet(Slots(row, o)) /\ Cardinality(Slots(row, o)) \in Nat
<1>1. IsFiniteSet(1 .. len)
  BY FS_Interval
<1>2. Slots(row, o) \subseteq 1 .. len
  BY DEF Slots
<1>3. IsFiniteSet(Slots(row, o))
  BY <1>1, <1>2, FS_Subset
<1> QED BY <1>3, FS_CardinalityType

TablesOf(len, X) == [Procs -> Rows(len, X)]
WithRow(t, p, row) == [t EXCEPT ![p] = row]
WithSlot(t, p, k, x) == [t EXCEPT ![p][k] = x]

\* A row of a table is replaced.
LEMMA RowReplaced ==
  ASSUME NEW len \in Nat, NEW X, NEW t \in TablesOf(len, X), NEW p \in Procs,
         NEW row \in Rows(len, X), NEW o, IsFiniteSet(Places(t, o))
  PROVE  /\ IsFiniteSet(Places(WithRow(t, p, row), o))
         /\ Cardinality(Places(WithRow(t, p, row), o)) =
              Cardinality(Places(t, o)) - Cardinality(Slots(t[p], o)) + Cardinality(Slots(row, o))
<1> DEFINE t2 == WithRow(t, p, row)
           Old == {p} \X Slots(t[p], o)
           New == {p} \X Slots(row, o)
           Rest == Places(t, o) \ Old
<1>1. /\ IsFiniteSet(Slots(t[p], o)) /\ Cardinality(Slots(t[p], o)) \in Nat
      /\ IsFiniteSet(Slots(row, o)) /\ Cardinality(Slots(row, o)) \in Nat
  BY SlotsFinite DEF TablesOf, Rows
<1>2. IsFiniteSet({p}) /\ Cardinality({p}) = 1
  BY FS_Singleton
<1>3. IsFiniteSet(Old) /\ Cardinality(Old) = 1 * Cardinality(Slots(t[p], o))
  BY <1>1, <1>2, FS_Product
<1>4. IsFiniteSet(New) /\ Cardinality(New) = 1 * Cardinality(Slots(row, o))
  BY <1>1, <1>2, FS_Product
<1>5. Old \subseteq Places(t, o)
  BY DEF Places
<1>6. \A x : x \in Rest <=> \E q \in Procs \ {p} : x \in {q} \X Slots(t[q], o)
  BY DEF Places
<1>7. Rest \cap New = {}
  BY <1>6
<1>8. Places(t2, o) = Rest \cup New
  <2>1. \A q \in Procs : t2[q] = IF q = p THEN row ELSE t[q]
    BY DEF TablesOf, WithRow
  <2>2. \A x : x \in Places(t2, o) <=> \E q \in Procs : x \in {q} \X Slots(t2[q], o)
    BY DEF Places
  <2> QED BY <1>6, <2>1, <2>2
<1>9. IsFiniteSet(Rest)
  BY FS_Subset
<1> HIDE DEF Old, New, Rest, t2
<1>10. IsFiniteSet(Places(t2, o)) /\ Cardinality(Places(t2, o)) = Cardinality(Rest) + Cardinality(New)
  <2>1. /\ IsFiniteSet(Rest \cup New)
        /\ Cardinality(Rest \cup New) = Cardinality(Rest) + Cardinality(New)
    BY <1>4, <1>7, <1>9, DisjointUnion
  <2> QED BY <1>8, <2>1
<1>11. Cardinality(Places(t, o)) = Cardinality(Rest) + Cardinality(Old)
  <2>1. Places(t, o) = Rest \cup Old /\ Rest \cap Old = {}
    BY <1>5 DEF Rest
  <2> QED BY <1>3, <1>9, <2>1, DisjointUnion
<1>12. Cardinality(Rest) \in Nat
  BY <1>9, FS_CardinalityType
<1> QED BY <1>1, <1>3, <1>4, <1>10, <1>11, <1>12 DEF t2

\* A slot of a table is replaced.
LEMMA SlotReplaced ==
  ASSUME NEW len \in Nat, NEW X, NEW t \in TablesOf(len, X), NEW p \in Procs,
         NEW k \in 1 .. len, NEW x \in X, NEW o, IsFiniteSet(Places(t, o))
  PROVE  /\ IsFiniteSet(Places(WithSlot(t, p, k, x), o))
         /\ Cardinality(Places(WithSlot(t, p, k, x), o)) =
              Cardinality(Places(t, o)) - (IF t[p][k] = o THEN 1 ELSE 0) + (IF x = o THEN 1 ELSE 0)
<1> DEFINE t2 == WithSlot(t, p, k, x)
           row == [t[p] EXCEPT ![k] = x]
           Rest == Slots(t[p], o) \ {k}
<1>1. row \in Rows(len, X) /\ t2 = WithRow(t, p, row) /\ t[p] \in [1 .. len -> X]
  BY DEF Rows, TablesOf, WithRow, WithSlot
<1>2. IsFiniteSet(Rest) /\ k \notin Rest
  BY <1>1, SlotsFinite, FS_RemoveElement
<1>3. /\ Slots(row, o) = IF x = o THEN Rest \cup {k} ELSE Rest
      /\ Slots(t[p], o) = IF t[p][k] = o THEN Rest \cup {k} ELSE Rest
  BY <1>1 DEF Slots
<1> HIDE DEF row, Rest
<1>4. /\ IsFiniteSet(Places(t2, o))
      /\ Cardinality(Places(t2, o)) =
           Cardinality(Places(t, o)) - Cardinality(Slots(t[p], o)) + Cardinality(Slots(row, o))
  <2> DEFINE t3 == WithRow(t, p, row)
  <2>1. /\ IsFiniteSet(Places(t3, o))
        /\ Cardinality(Places(t3, o)) =
             Cardinality(Places(t, o)) - Cardinality(Slots(t[p], o)) + Cardinality(Slots(row, o))
    BY <1>1, RowReplaced, SMT
  <2>2. t3 = t2
    BY <1>1
  <2> HIDE DEF t3, t2
  <2> QED BY <2>1, <2>2
<1>5. Cardinality(Rest \cup {k}) = Cardinality(Rest) + 1
  BY <1>2, FS_AddElement
<1>6. Cardinality(Rest) \in Nat /\ Cardinality(Places(t, o)) \in Nat
  BY <1>2, FS_CardinalityType
<1>7. /\ Cardinality(Slots(row, o)) = Cardinality(Rest) + (IF x = o THEN 1 ELSE 0)
      /\ Cardinality(Slots(t[p], o)) = Cardinality(Rest) + (IF t[p][k] = o THEN 1 ELSE 0)
  BY <1>3, <1>5, <1>6
<1> QED BY <1>4, <1>6, <1>7 DEF t2

\* A local reference is replaced.
SetsArg(p, x) == arg' = [arg EXCEPT ![p] = x]

LEMMA LocalReplaced ==
  ASSUME ProcTypeOK, NEW p \in Procs, NEW x, SetsArg(p, x),
         NEW o \in Objects, IsFiniteSet(Locals(o))
  PROVE  /\ IsFiniteSet(Locals(o)')
         /\ InLocals(o)' = InLocals(o) - (IF arg[p] = o THEN 1 ELSE 0) + (IF x = o THEN 1 ELSE 0)
<1> DEFINE Rest == Locals(o) \ {p}
<1>1. IsFiniteSet(Rest) /\ p \notin Rest
  BY FS_Subset
<1>2. /\ Locals(o)' = IF x = o THEN Rest \cup {p} ELSE Rest
      /\ Locals(o) = IF arg[p] = o THEN Rest \cup {p} ELSE Rest
  BY DEF Locals, ProcTypeOK, SetsArg
<1> HIDE DEF Rest
<1>3. /\ IsFiniteSet(Rest \cup {p}) /\ Cardinality(Rest \cup {p}) = Cardinality(Rest) + 1
      /\ Cardinality(Rest) \in Nat
  BY <1>1, FS_AddElement, FS_CardinalityType
<1> QED BY <1>1, <1>2, <1>3 DEF InLocals

LEMMA SemsSlot ==
  ASSUME ProcTypeOK, RefsInv, NEW p \in Procs, NEW k \in 1 .. NSEM, NEW x \in Semaphores \cup {None},
         sems' = WithSlot(sems, p, k, x), NEW o \in Objects
  PROVE  /\ IsFiniteSet(Places(sems, o)') /\ InSems(o) \in Nat
         /\ InSems(o)' = InSems(o) - (IF sems[p][k] = o THEN 1 ELSE 0) + (IF x = o THEN 1 ELSE 0)
<1>1. /\ sems \in TablesOf(NSEM, Semaphores \cup {None}) /\ NSEM \in Nat
      /\ sems' = WithSlot(sems, p, k, x) /\ IsFiniteSet(Places(sems, o))
  BY ProcessesAssumption DEF ProcTypeOK, RefsInv, TablesOf, Rows, WithSlot
<1>2. LET t2 == WithSlot(sems, p, k, x)
      IN  /\ IsFiniteSet(Places(t2, o))
          /\ Cardinality(Places(t2, o)) = Cardinality(Places(sems, o))
               - (IF sems[p][k] = o THEN 1 ELSE 0) + (IF x = o THEN 1 ELSE 0)
  BY <1>1, SlotReplaced, SMT
<1>3. Places(sems, o)' = Places(WithSlot(sems, p, k, x), o)
  BY <1>1 DEF Places
<1> QED BY <1>1, <1>2, <1>3, FS_CardinalityType DEF InSems

LEMMA SemsRow ==
  ASSUME ProcTypeOK, RefsInv, NEW p \in Procs, NEW row \in Rows(NSEM, Semaphores \cup {None}),
         sems' = WithRow(sems, p, row), NEW o \in Objects
  PROVE  /\ IsFiniteSet(Places(sems, o)') /\ InSems(o) \in Nat
         /\ InSems(o)' = InSems(o) - Cardinality(Slots(sems[p], o)) + Cardinality(Slots(row, o))
         /\ Cardinality(Slots(sems[p], o)) \in Nat /\ Cardinality(Slots(row, o)) \in Nat
<1>1. /\ sems \in TablesOf(NSEM, Semaphores \cup {None}) /\ NSEM \in Nat
      /\ sems[p] \in [1 .. NSEM -> Semaphores \cup {None}] /\ row \in [1 .. NSEM -> Semaphores \cup {None}]
      /\ sems' = WithRow(sems, p, row) /\ IsFiniteSet(Places(sems, o))
  BY ProcessesAssumption DEF ProcTypeOK, RefsInv, TablesOf, Rows, WithRow
<1>2. LET t2 == WithRow(sems, p, row)
      IN  /\ IsFiniteSet(Places(t2, o))
          /\ Cardinality(Places(t2, o)) = Cardinality(Places(sems, o))
               - Cardinality(Slots(sems[p], o)) + Cardinality(Slots(row, o))
  BY <1>1, RowReplaced, SMT
<1>3. Places(sems, o)' = Places(WithRow(sems, p, row), o)
  BY <1>1 DEF Places
<1>4. Cardinality(Slots(sems[p], o)) \in Nat /\ Cardinality(Slots(row, o)) \in Nat
  BY <1>1, SlotsFinite
<1> QED BY <1>1, <1>2, <1>3, <1>4, FS_CardinalityType DEF InSems

LEMMA ChildrenSlot ==
  ASSUME ProcTypeOK, RefsInv, NEW p \in Procs, NEW k \in 1 .. NCHILD, NEW x \in Procs \cup {None},
         children' = WithSlot(children, p, k, x), NEW o \in Objects
  PROVE  /\ IsFiniteSet(Places(children, o)') /\ InChildren(o) \in Nat
         /\ InChildren(o)' = InChildren(o) - (IF children[p][k] = o THEN 1 ELSE 0) + (IF x = o THEN 1 ELSE 0)
<1>1. /\ children \in TablesOf(NCHILD, Procs \cup {None}) /\ NCHILD \in Nat
      /\ children' = WithSlot(children, p, k, x) /\ IsFiniteSet(Places(children, o))
  BY ProcessesAssumption DEF ProcTypeOK, RefsInv, TablesOf, Rows, WithSlot
<1>2. LET t2 == WithSlot(children, p, k, x)
      IN  /\ IsFiniteSet(Places(t2, o))
          /\ Cardinality(Places(t2, o)) = Cardinality(Places(children, o))
               - (IF children[p][k] = o THEN 1 ELSE 0) + (IF x = o THEN 1 ELSE 0)
  BY <1>1, SlotReplaced, SMT
<1>3. Places(children, o)' = Places(WithSlot(children, p, k, x), o)
  BY <1>1 DEF Places
<1> QED BY <1>1, <1>2, <1>3, FS_CardinalityType DEF InChildren

LEMMA ChildrenRow ==
  ASSUME ProcTypeOK, RefsInv, NEW p \in Procs, NEW row \in Rows(NCHILD, Procs \cup {None}),
         children' = WithRow(children, p, row), NEW o \in Objects
  PROVE  /\ IsFiniteSet(Places(children, o)') /\ InChildren(o) \in Nat
         /\ InChildren(o)' =
              InChildren(o) - Cardinality(Slots(children[p], o)) + Cardinality(Slots(row, o))
         /\ Cardinality(Slots(children[p], o)) \in Nat /\ Cardinality(Slots(row, o)) \in Nat
<1>1. /\ children \in TablesOf(NCHILD, Procs \cup {None}) /\ NCHILD \in Nat
      /\ children[p] \in [1 .. NCHILD -> Procs \cup {None}] /\ row \in [1 .. NCHILD -> Procs \cup {None}]
      /\ children' = WithRow(children, p, row) /\ IsFiniteSet(Places(children, o))
  BY ProcessesAssumption DEF ProcTypeOK, RefsInv, TablesOf, Rows, WithRow
<1>2. LET t2 == WithRow(children, p, row)
      IN  /\ IsFiniteSet(Places(t2, o))
          /\ Cardinality(Places(t2, o)) = Cardinality(Places(children, o))
               - Cardinality(Slots(children[p], o)) + Cardinality(Slots(row, o))
  BY <1>1, RowReplaced, SMT
<1>3. Places(children, o)' = Places(WithRow(children, p, row), o)
  BY <1>1 DEF Places
<1>4. Cardinality(Slots(children[p], o)) \in Nat /\ Cardinality(Slots(row, o)) \in Nat
  BY <1>1, SlotsFinite
<1> QED BY <1>1, <1>2, <1>3, <1>4, FS_CardinalityType DEF InChildren

LEMMA FilesSlot ==
  ASSUME ProcTypeOK, RefsInv, NEW p \in Procs, NEW k \in 1 .. NFILE, NEW x \in Files \cup {None},
         files' = WithSlot(files, p, k, x), NEW o \in Objects
  PROVE  /\ IsFiniteSet(Places(files, o)') /\ InFiles(o) \in Nat
         /\ InFiles(o)' = InFiles(o) - (IF files[p][k] = o THEN 1 ELSE 0) + (IF x = o THEN 1 ELSE 0)
<1>1. /\ files \in TablesOf(NFILE, Files \cup {None}) /\ NFILE \in Nat
      /\ files' = WithSlot(files, p, k, x) /\ IsFiniteSet(Places(files, o))
  BY ProcessesAssumption DEF ProcTypeOK, RefsInv, TablesOf, Rows, WithSlot
<1>2. LET t2 == WithSlot(files, p, k, x)
      IN  /\ IsFiniteSet(Places(t2, o))
          /\ Cardinality(Places(t2, o)) = Cardinality(Places(files, o))
               - (IF files[p][k] = o THEN 1 ELSE 0) + (IF x = o THEN 1 ELSE 0)
  BY <1>1, SlotReplaced, SMT
<1>3. Places(files, o)' = Places(WithSlot(files, p, k, x), o)
  BY <1>1 DEF Places
<1> QED BY <1>1, <1>2, <1>3, FS_CardinalityType DEF InFiles

LEMMA FilesRow ==
  ASSUME ProcTypeOK, RefsInv, NEW p \in Procs, NEW row \in Rows(NFILE, Files \cup {None}),
         files' = WithRow(files, p, row), NEW o \in Objects
  PROVE  /\ IsFiniteSet(Places(files, o)') /\ InFiles(o) \in Nat
         /\ InFiles(o)' = InFiles(o) - Cardinality(Slots(files[p], o)) + Cardinality(Slots(row, o))
         /\ Cardinality(Slots(files[p], o)) \in Nat /\ Cardinality(Slots(row, o)) \in Nat
<1>1. /\ files \in TablesOf(NFILE, Files \cup {None}) /\ NFILE \in Nat
      /\ files[p] \in [1 .. NFILE -> Files \cup {None}] /\ row \in [1 .. NFILE -> Files \cup {None}]
      /\ files' = WithRow(files, p, row) /\ IsFiniteSet(Places(files, o))
  BY ProcessesAssumption DEF ProcTypeOK, RefsInv, TablesOf, Rows, WithRow
<1>2. LET t2 == WithRow(files, p, row)
      IN  /\ IsFiniteSet(Places(t2, o))
          /\ Cardinality(Places(t2, o)) = Cardinality(Places(files, o))
               - Cardinality(Slots(files[p], o)) + Cardinality(Slots(row, o))
  BY <1>1, RowReplaced, SMT
<1>3. Places(files, o)' = Places(WithRow(files, p, row), o)
  BY <1>1 DEF Places
<1>4. Cardinality(Slots(files[p], o)) \in Nat /\ Cardinality(Slots(row, o)) \in Nat
  BY <1>1, SlotsFinite
<1> QED BY <1>1, <1>2, <1>3, <1>4, FS_CardinalityType DEF InFiles

LEMMA NoSlots ==
  ASSUME NEW len \in Nat, NEW o \in Objects PROVE Cardinality(Slots(NoTable(len), o)) = 0
<1>1. Slots(NoTable(len), o) = {}
  BY ProcessesAssumption DEF Slots, NoTable, Objects
<1> QED BY <1>1, FS_EmptySet

\* An object without references is in no slot and known to no system call.
LEMMA Unreferenced ==
  ASSUME RefsInv, NEW o \in Objects, refs[o] = 0
  PROVE  /\ \A p \in Procs : arg[p] # o
         /\ \A p \in Procs : \A i \in DOMAIN children[p] : children[p][i] # o
<1>1. /\ IsFiniteSet(Places(sems, o)) /\ IsFiniteSet(Places(children, o))
      /\ IsFiniteSet(Places(files, o)) /\ IsFiniteSet(Locals(o))
      /\ InSems(o) + InChildren(o) + InFiles(o) + InLocals(o) + Alive(o) = 0
  BY DEF RefsInv
<1>2. InSems(o) \in Nat /\ InChildren(o) \in Nat /\ InFiles(o) \in Nat /\ InLocals(o) \in Nat
  BY <1>1, FS_CardinalityType DEF InSems, InChildren, InFiles, InLocals
<1>3. Alive(o) \in Nat
  BY DEF Alive
<1>4. InChildren(o) = 0 /\ InLocals(o) = 0
  BY <1>1, <1>2, <1>3
<1>5. Places(children, o) = {} /\ Locals(o) = {}
  BY <1>1, <1>4, FS_EmptySet DEF InChildren, InLocals
<1>6. \A p \in Procs : arg[p] # o
  BY <1>5 DEF Locals
<1>7. ASSUME NEW p \in Procs, NEW i \in DOMAIN children[p], children[p][i] = o PROVE FALSE
  <2>1. i \in Slots(children[p], o)
    BY <1>7 DEF Slots
  <2>2. <<p, i>> \in Places(children, o)
    BY <2>1 DEF Places
  <2> QED BY <1>5, <2>2
<1> QED BY <1>6, <1>7

-----------------------------------------------------------------------------
(* Steps of a process that keeps its references *)

LEMMA StageMove ==
  ASSUME ProcTypeOK, ArgInv, TablesInv, RefsInv, UNCHANGED <<arg, sems, children, files, refs>>,
         \A p \in Procs : SameKind(stage[p], stage'[p])
  PROVE  ArgInv' /\ TablesInv' /\ RefsInv'
<1>1. ArgInv' /\ TablesInv'
  BY DEF SameKind, ArgInv, TablesInv
<1>2. \A o : Alive(o)' = Alive(o)
  BY DEF Alive, SameKind
<1>3. \A o : /\ Places(sems, o)' = Places(sems, o) /\ Places(children, o)' = Places(children, o)
             /\ Places(files, o)' = Places(files, o) /\ Locals(o)' = Locals(o)
  BY DEF Places, Locals
<1>4. RefsInv'
  BY <1>2, <1>3 DEF RefsInv, InSems, InChildren, InFiles, InLocals
<1> QED BY <1>1, <1>4

LEMMA UpStep ==
  ASSUME ProcTypeOK, ArgInv, SleepInv, NEW s \in Owners, NEW p \in Procs, NEW there \in Stages,
         UpAnd(s, p, there), arg' = arg, SameKind(stage[p], there),
         stage[p] \notin Asleep, there \notin Asleep
  PROVE  /\ stage' \in [Procs -> Stages]
         /\ units' \in [Owners -> Nat] /\ queue' \in [Owners -> Seq(Procs)]
         /\ \A q \in Procs : SameKind(stage[q], stage'[q])
         /\ SleepInv'
         /\ stage'[p] = there
         /\ \A q \in Procs \ {p} :
              \/ stage'[q] = stage[q]
              \/ stage[q] = "down" /\ stage'[q] = "woken"
              \/ stage[q] = "get" /\ stage'[q] = "got" /\ arg[q] = s
         /\ \A r \in Owners : units'[r] > 0 => units[r] > 0 \/ r = s
<1>1. /\ stage \in [Procs -> Stages] /\ units \in [Owners -> Nat]
      /\ queue \in [Owners -> Seq(Procs)] /\ queue[s] \in Seq(Procs)
  BY DEF ProcTypeOK
<1>2. CASE queue[s] = << >>
  <2>1. /\ units' = [units EXCEPT ![s] = @ + 1] /\ queue' = queue
        /\ stage' = [stage EXCEPT ![p] = there]
    BY <1>2 DEF UpAnd, Goto
  <2>2. \A q \in Procs : stage'[q] = IF q = p THEN there ELSE stage[q]
    BY <1>1, <2>1
  <2>3. SleepInv'
    BY <2>1, <2>2 DEF SleepInv
  <2>4. \A q \in Procs : SameKind(stage[q], stage'[q])
    BY <2>2 DEF SameKind
  <2> QED BY <1>1, <2>1, <2>2, <2>3, <2>4
<1>3. CASE queue[s] # << >>
  <2> DEFINE h == Head(queue[s])
  <2>1. /\ queue' = [queue EXCEPT ![s] = Tail(@)] /\ units' = units
        /\ stage' = [stage EXCEPT ![p] = there, ![h] = Woken(h)]
    BY <1>3 DEF UpAnd
  <2>2. /\ h \in Procs /\ Contains(queue[s], h) /\ Tail(queue[s]) \in Seq(Procs)
        /\ NoRepeats(Tail(queue[s]))
        /\ \A q : Contains(Tail(queue[s]), q) <=> Contains(queue[s], q) /\ q # h
    BY <1>1, <1>3, TailContains DEF SleepInv
  <2> HIDE DEF h
  <2>3. stage[h] \in Asleep /\ arg[h] = s /\ h # p
    BY <2>2 DEF SleepInv
  <2>4. /\ Woken(h) \in {"woken", "got"} /\ SameKind(stage[h], Woken(h))
        /\ Woken(h) = IF stage[h] = "down" THEN "woken" ELSE "got"
    BY <2>3 DEF Woken, SameKind, Asleep, Free, OnSemaphore, OnChild
  <2>5. \A q \in Procs : stage'[q] = IF q = p THEN there ELSE IF q = h THEN Woken(h) ELSE stage[q]
    BY <1>1, <2>1, <2>2, <2>3
  <2>6. Woken(h) \notin Asleep /\ Woken(h) \in Stages
    BY <2>4 DEF Asleep, Stages, OnSemaphore, OnChild
  <2>7. stage' \in [Procs -> Stages] /\ queue' \in [Owners -> Seq(Procs)]
    BY <1>1, <2>1, <2>2, <2>6
  <2>8. \A r \in Owners : queue'[r] = IF r = s THEN Tail(queue[s]) ELSE queue[r]
    BY <1>1, <2>1
  <2>9. SleepInv'
    <3>1. ASSUME NEW r \in Owners
          PROVE  /\ NoRepeats(queue'[r])
                 /\ \A q \in Procs : Contains(queue'[r], q) <=> stage'[q] \in Asleep /\ arg'[q] = r
      <4>1. CASE r = s
        BY <2>2, <2>3, <2>5, <2>6, <2>8, <4>1 DEF SleepInv
      <4>2. CASE r # s
        BY <2>3, <2>5, <2>6, <2>8, <4>2 DEF SleepInv
      <4> QED BY <4>1, <4>2
    <3> QED BY <3>1 DEF SleepInv
  <2>10. \A q \in Procs : SameKind(stage[q], stage'[q])
    BY <2>4, <2>5 DEF SameKind
  <2> QED BY <1>1, <2>1, <2>3, <2>4, <2>5, <2>7, <2>9, <2>10 DEF Asleep
<1> QED BY <1>2, <1>3

LEMMA DownStep ==
  ASSUME ProcTypeOK, SleepInv, NEW s \in Owners, NEW p \in Procs,
         NEW there \in Stages \ Asleep, NEW asleep \in Asleep, DownOr(s, p, there, asleep),
         stage[p] \notin Asleep, \A q \in Procs : arg'[q] = IF q = p THEN s ELSE arg[q]
  PROVE  /\ stage' \in [Procs -> Stages]
         /\ units' \in [Owners -> Nat] /\ queue' \in [Owners -> Seq(Procs)]
         /\ SleepInv'
         /\ \A q \in Procs \ {p} : stage'[q] = stage[q]
         /\ stage'[p] = IF units[s] > 0 THEN there ELSE asleep
         /\ \A r \in Owners : units'[r] > 0 => units[r] > 0
<1>1. /\ stage \in [Procs -> Stages] /\ units \in [Owners -> Nat]
      /\ queue \in [Owners -> Seq(Procs)] /\ queue[s] \in Seq(Procs)
      /\ there \in Stages /\ asleep \in Stages
  BY DEF ProcTypeOK, Asleep, Stages, OnSemaphore, OnChild
<1>2. CASE units[s] > 0
  <2>1. /\ units' = [units EXCEPT ![s] = @ - 1] /\ queue' = queue
        /\ stage' = [stage EXCEPT ![p] = there]
    BY <1>2 DEF DownOr, Goto
  <2>2. \A q \in Procs : stage'[q] = IF q = p THEN there ELSE stage[q]
    BY <1>1, <2>1
  <2>3. SleepInv'
    BY <2>1, <2>2 DEF SleepInv
  <2>4. units' \in [Owners -> Nat] /\ \A r \in Owners : units'[r] > 0 => units[r] > 0
    BY <1>1, <1>2, <2>1
  <2> QED BY <1>1, <1>2, <2>1, <2>2, <2>3, <2>4
<1>3. CASE ~(units[s] > 0)
  <2>1. /\ queue' = [queue EXCEPT ![s] = Append(@, p)] /\ units' = units
        /\ stage' = [stage EXCEPT ![p] = asleep]
    BY <1>3 DEF DownOr, Goto
  <2>2. \A q \in Procs : stage'[q] = IF q = p THEN asleep ELSE stage[q]
    BY <1>1, <2>1
  <2>3. ~Contains(queue[s], p)
    BY DEF SleepInv
  <2>4. /\ \A q : Contains(Append(queue[s], p), q) <=> Contains(queue[s], q) \/ q = p
        /\ NoRepeats(Append(queue[s], p)) /\ Append(queue[s], p) \in Seq(Procs)
    BY <1>1, <2>3, AppendContains, AppendNoRepeats, AppendProperties DEF SleepInv
  <2>5. \A r \in Owners : queue'[r] = IF r = s THEN Append(queue[s], p) ELSE queue[r]
    BY <1>1, <2>1
  <2>6. stage' \in [Procs -> Stages] /\ queue' \in [Owners -> Seq(Procs)]
    BY <1>1, <2>1, <2>4
  <2>7. SleepInv'
    <3>1. ASSUME NEW r \in Owners
          PROVE  /\ NoRepeats(queue'[r])
                 /\ \A q \in Procs : Contains(queue'[r], q) <=> stage'[q] \in Asleep /\ arg'[q] = r
      <4>1. CASE r = s
        BY <2>2, <2>4, <2>5, <4>1 DEF SleepInv
      <4>2. CASE r # s
        BY <2>2, <2>5, <4>2 DEF SleepInv
      <4> QED BY <4>1, <4>2
    <3> QED BY <3>1 DEF SleepInv
  <2> QED BY <1>1, <1>3, <2>1, <2>2, <2>6, <2>7
<1> QED BY <1>2, <1>3

LEMMA QuietMove ==
  ASSUME ProcTypeOK, ArgInv, TablesInv, RefsInv, SleepInv, NEW p \in Procs, NEW there \in Stages,
         stage' = [stage EXCEPT ![p] = there], SameKind(stage[p], there),
         stage[p] \notin Asleep, there \notin Asleep,
         UNCHANGED <<arg, sems, children, files, refs, queue>>
  PROVE  /\ stage' \in [Procs -> Stages]
         /\ ArgInv' /\ TablesInv' /\ RefsInv' /\ SleepInv'
<1>1. /\ stage' \in [Procs -> Stages]
      /\ \A q \in Procs : stage'[q] = IF q = p THEN there ELSE stage[q]
  BY DEF ProcTypeOK
<1>2. \A q \in Procs : SameKind(stage[q], stage'[q])
  BY <1>1 DEF SameKind
<1>3. SleepInv'
  BY <1>1 DEF SleepInv
<1> QED BY <1>1, <1>2, <1>3, StageMove

LEMMA SetIInv ==
  ASSUME ProcIInv, NEW p \in Procs,
         (\E status \in Statuses : SetValue(p, status)) \/ SetReady(p)
  PROVE  ProcIInv'
<1> USE DEF ProcIInv
<1>1. \E there \in {"setReady", "goUp"} :
        /\ stage[p] \in Free /\ stage' = [stage EXCEPT ![p] = there]
        /\ UNCHANGED <<arg, sems, children, files, refs, queue, units>>
  BY DEF SetValue, SetReady, Goto, tables, semaphores, Free
<1>2. /\ stage' \in [Procs -> Stages]
      /\ ArgInv' /\ TablesInv' /\ RefsInv' /\ SleepInv'
  <2>1. PICK there \in {"setReady", "goUp"} :
          /\ stage[p] \in Free /\ stage' = [stage EXCEPT ![p] = there]
          /\ UNCHANGED <<arg, sems, children, files, refs, queue, units>>
    BY <1>1
  <2>2. /\ there \in Stages /\ there \notin Asleep /\ stage[p] \notin Asleep
        /\ SameKind(stage[p], there)
    BY <2>1 DEF Stages, Asleep, SameKind, Free, OnSemaphore, OnChild
  <2> QED BY <2>1, <2>2, QuietMove
<1>3. CASE \E status \in Statuses : SetValue(p, status)
  <2>1. PICK status \in Statuses :
          /\ value' = [value EXCEPT ![p] = status] /\ rc' = [rc EXCEPT ![p] = status]
          /\ stage' = [stage EXCEPT ![p] = "setReady"] /\ isReady' = isReady
          /\ UNCHANGED <<arg, sems, children, files, refs, queue, units>>
    BY <1>3 DEF SetValue, Goto, tables, semaphores
  <2>2. status \in Nat /\ status # None
    BY ProcessesAssumption
  <2>3. ProcTypeOK'
    BY <1>2, <2>1, <2>2 DEF ProcTypeOK
  <2>4. StatusInv'
    BY <2>1, <2>2 DEF StatusInv, ProcTypeOK
  <2> QED BY <1>2, <2>3, <2>4
<1>4. CASE SetReady(p)
  <2>1. /\ isReady' = [isReady EXCEPT ![p] = TRUE] /\ UNCHANGED <<value, rc>>
        /\ stage[p] = "setReady" /\ stage' = [stage EXCEPT ![p] = "goUp"]
        /\ UNCHANGED <<arg, sems, children, files, refs, queue, units>>
    BY <1>4 DEF SetReady, Goto, tables, semaphores
  <2>2. ProcTypeOK'
    BY <1>2, <2>1 DEF ProcTypeOK
  <2>3. \A q \in Procs : /\ isReady'[q] => isReady[q] \/ q = p
                         /\ stage'[q] \in {"setReady", "goUp"} => stage[q] \in {"setReady", "goUp"}
                         /\ stage'[q] \in {"got", "return"} => stage[q] \in {"got", "return"}
    BY <2>1 DEF ProcTypeOK
  <2>4. rc[p] # None
    BY <2>1 DEF StatusInv
  <2>5. StatusInv'
    BY <2>1, <2>3, <2>4 DEF StatusInv
  <2> QED BY <1>2, <2>2, <2>5
<1> QED BY <1>3, <1>4

LEMMA UpIInv ==
  ASSUME ProcIInv, NEW p \in Procs,
         (\E i \in 1 .. NSEM : SysUp(p, i)) \/ GoUp(p) \/ PassOn(p)
  PROVE  ProcIInv'
<1> USE DEF ProcIInv
<1>1. PICK s \in Owners, there \in {"user", "stopped", "return"} :
        /\ UpAnd(s, p, there) /\ UNCHANGED <<arg, sems, children, files, refs, isReady, value, rc>>
        /\ \/ there = "user" /\ s \in Semaphores /\ stage[p] = "user"
           \/ there = "stopped" /\ s = p /\ stage[p] = "goUp"
           \/ there = "return" /\ s = arg[p] /\ stage[p] = "got"
  <2>1. CASE \E i \in 1 .. NSEM : SysUp(p, i)
    <3>1. \A i \in 1 .. NSEM : sems[p][i] # None => sems[p][i] \in Semaphores
      <4>1. sems \in [Procs -> [1 .. NSEM -> Semaphores \cup {None}]]
        BY DEF ProcTypeOK
      <4> QED BY <4>1
    <3>2. PICK i \in 1 .. NSEM : SysUp(p, i)
      BY <2>1
    <3>3. /\ sems[p][i] \in Semaphores /\ sems[p][i] \in Owners
          /\ UpAnd(sems[p][i], p, "user") /\ stage[p] = "user"
          /\ UNCHANGED <<arg, sems, children, files, refs, isReady, value, rc>>
      BY <3>1, <3>2 DEF SysUp, Owners, tables, future
    <3> QED BY <3>3
  <2>2. CASE GoUp(p)
    BY <2>2 DEF GoUp, Owners, tables, future
  <2>3. CASE PassOn(p)
    <3>1. arg[p] \in Owners
      BY <2>3 DEF PassOn, ArgInv, OnChild, Owners
    <3> QED BY <2>3, <3>1 DEF PassOn, tables, future
  <2> QED BY <2>1, <2>2, <2>3
<1>2. /\ there \in Stages /\ there \notin Asleep /\ stage[p] \notin Asleep
      /\ SameKind(stage[p], there)
  BY <1>1 DEF Stages, Asleep, SameKind, Free, OnSemaphore, OnChild
<1>3. /\ stage' \in [Procs -> Stages]
      /\ units' \in [Owners -> Nat] /\ queue' \in [Owners -> Seq(Procs)]
      /\ \A q \in Procs : SameKind(stage[q], stage'[q])
      /\ SleepInv' /\ stage'[p] = there
      /\ \A q \in Procs \ {p} :
              \/ stage'[q] = stage[q]
              \/ stage[q] = "down" /\ stage'[q] = "woken"
              \/ stage[q] = "get" /\ stage'[q] = "got" /\ arg[q] = s
      /\ \A r \in Owners : units'[r] > 0 => units[r] > 0 \/ r = s
  BY <1>1, <1>2, UpStep
<1>4. ArgInv' /\ TablesInv' /\ RefsInv'
  BY <1>1, <1>3, StageMove
<1>5. ProcTypeOK'
  BY <1>1, <1>3 DEF ProcTypeOK
<1>6. s \in Procs => rc[s] # None
  <2>1. s \in Semaphores => s \notin Procs
    BY ProcessesAssumption
  <2> QED BY <1>1, <2>1 DEF StatusInv
<1>7. StatusInv'
  <2>1. \A q \in Procs : /\ units'[q] > 0 => rc[q] # None
                         /\ stage'[q] \in {"setReady", "goUp"} => rc[q] # None
    BY <1>1, <1>3, <1>6 DEF StatusInv, Owners
  <2>2. ASSUME NEW q \in Procs, stage'[q] \in {"got", "return"} PROVE rc[arg[q]] # None
    <3>1. CASE stage[q] = "get"
      <4>1. arg[q] = s /\ arg[q] \in Procs
        BY <1>1, <1>3, <2>2, <3>1 DEF ArgInv, OnChild
      <4> QED BY <1>6, <4>1
    <3>2. CASE stage[q] # "get"
      <4>1. stage[q] \in {"got", "return"}
        BY <1>1, <1>3, <2>2, <3>2
      <4> QED BY <4>1 DEF StatusInv
    <3> QED BY <3>1, <3>2
  <2>3. arg' = arg /\ isReady' = isReady /\ value' = value /\ rc' = rc
    BY <1>1
  <2>4. \A q \in Procs : (rc[q] # None => value[q] = rc[q]) /\ (isReady[q] => rc[q] # None)
    BY DEF StatusInv
  <2>5. ASSUME NEW q \in Procs
        PROVE  /\ rc'[q] # None => value'[q] = rc'[q]
               /\ isReady'[q] \/ units'[q] > 0 \/ stage'[q] \in {"setReady", "goUp"} => rc'[q] # None
               /\ stage'[q] \in {"got", "return"} => rc'[arg'[q]] # None
    <3>1. rc'[q] # None => value'[q] = rc'[q]
      BY <2>3, <2>4
    <3>2. isReady'[q] => rc'[q] # None
      BY <2>3, <2>4
    <3>3. units'[q] > 0 \/ stage'[q] \in {"setReady", "goUp"} => rc'[q] # None
      BY <2>1, <2>3
    <3>4. stage'[q] \in {"got", "return"} => rc'[arg'[q]] # None
      BY <2>2, <2>3
    <3> QED BY <3>1, <3>2, <3>3, <3>4
  <2> QED BY <2>5 DEF StatusInv
<1> QED BY <1>3, <1>4, <1>5, <1>7

LEMMA GoDownIInv ==
  ASSUME ProcIInv, NEW p \in Procs, GoDown(p)
  PROVE  ProcIInv'
<1> USE DEF ProcIInv
<1>1. /\ stage[p] = "goDown" /\ DownOr(arg[p], p, "got", "get")
      /\ UNCHANGED <<arg, sems, children, files, refs, isReady, value, rc>>
  BY DEF GoDown, tables, future
<1>2. arg[p] \in Procs /\ arg[p] \in Owners
  BY <1>1 DEF ArgInv, OnChild, Owners
<1>3. /\ "got" \in Stages \ Asleep /\ "get" \in Asleep /\ stage[p] \notin Asleep
  BY <1>1 DEF Stages, Asleep, OnChild
<1>4. \A q \in Procs : arg'[q] = IF q = p THEN arg[p] ELSE arg[q]
  BY <1>1
<1>5. /\ stage' \in [Procs -> Stages]
      /\ units' \in [Owners -> Nat] /\ queue' \in [Owners -> Seq(Procs)]
      /\ SleepInv'
      /\ \A q \in Procs \ {p} : stage'[q] = stage[q]
      /\ stage'[p] = IF units[arg[p]] > 0 THEN "got" ELSE "get"
      /\ \A r \in Owners : units'[r] > 0 => units[r] > 0
  BY <1>1, <1>2, <1>3, <1>4, DownStep
<1>6. \A q \in Procs : SameKind(stage[q], stage'[q])
  BY <1>1, <1>5 DEF SameKind, Free, OnSemaphore, OnChild
<1>7. ArgInv' /\ TablesInv' /\ RefsInv'
  BY <1>1, <1>6, StageMove
<1>8. ProcTypeOK'
  BY <1>1, <1>5 DEF ProcTypeOK
<1>9. StatusInv'
  <2>1. \A q \in Procs : units'[q] > 0 => units[q] > 0
    BY <1>5 DEF Owners
  <2>2. units[arg[p]] > 0 => rc[arg[p]] # None
    BY <1>2 DEF StatusInv
  <2> QED BY <1>1, <1>5, <2>1, <2>2 DEF StatusInv
<1> QED BY <1>5, <1>7, <1>8, <1>9

-----------------------------------------------------------------------------
(* Steps that change references *)

LEMMA Numbers ==
  ASSUME RefsInv, NEW o \in Objects
  PROVE  /\ InSems(o) \in Nat /\ InChildren(o) \in Nat /\ InFiles(o) \in Nat
         /\ InLocals(o) \in Nat /\ Alive(o) \in Nat
         /\ refs[o] = InSems(o) + InChildren(o) + InFiles(o) + InLocals(o) + Alive(o)
         /\ IsFiniteSet(Places(sems, o)) /\ IsFiniteSet(Places(children, o))
         /\ IsFiniteSet(Places(files, o)) /\ IsFiniteSet(Locals(o))
<1>1. Alive(o) \in Nat
  BY DEF Alive
<1> QED BY <1>1, FS_CardinalityType DEF RefsInv, InSems, InChildren, InFiles, InLocals

LEMMA Untouched ==
  ASSUME NEW o
  PROVE  /\ sems' = sems => Places(sems, o)' = Places(sems, o) /\ InSems(o)' = InSems(o)
         /\ children' = children => /\ Places(children, o)' = Places(children, o)
                                    /\ InChildren(o)' = InChildren(o)
         /\ files' = files => Places(files, o)' = Places(files, o) /\ InFiles(o)' = InFiles(o)
         /\ arg' = arg => Locals(o)' = Locals(o) /\ InLocals(o)' = InLocals(o)
         /\ (\A p \in Procs : stage'[p] = "unborn" <=> stage[p] = "unborn")
              => Alive(o)' = Alive(o)
  BY DEF Places, Locals, InSems, InChildren, InFiles, InLocals, Alive

LEMMA LocalStep ==
  ASSUME ProcTypeOK, RefsInv, NEW p \in Procs, NEW x, SetsArg(p, x),
         UNCHANGED <<sems, children, files>>,
         \A q \in Procs : stage'[q] = "unborn" <=> stage[q] = "unborn",
         \A o \in Objects : refs'[o] = refs[o] - (IF arg[p] = o THEN 1 ELSE 0)
                                               + (IF x = o THEN 1 ELSE 0)
  PROVE  RefsInv'
<1> SUFFICES ASSUME NEW o \in Objects
             PROVE  /\ IsFiniteSet(Places(sems, o))' /\ IsFiniteSet(Places(children, o))'
                    /\ IsFiniteSet(Places(files, o))' /\ IsFiniteSet(Locals(o))'
                    /\ refs'[o] = InSems(o)' + InChildren(o)' + InFiles(o)' + InLocals(o)' + Alive(o)'
  BY DEF RefsInv
<1>1. /\ Places(sems, o)' = Places(sems, o) /\ InSems(o)' = InSems(o)
      /\ Places(children, o)' = Places(children, o) /\ InChildren(o)' = InChildren(o)
      /\ Places(files, o)' = Places(files, o) /\ InFiles(o)' = InFiles(o)
      /\ Alive(o)' = Alive(o)
  BY Untouched
<1>2. /\ IsFiniteSet(Locals(o)')
      /\ InLocals(o)' = InLocals(o) - (IF arg[p] = o THEN 1 ELSE 0) + (IF x = o THEN 1 ELSE 0)
  <2>1. IsFiniteSet(Locals(o))
    BY DEF RefsInv
  <2> QED BY <2>1, LocalReplaced, SMT
<1>3. /\ InSems(o) \in Nat /\ InChildren(o) \in Nat /\ InFiles(o) \in Nat
      /\ InLocals(o) \in Nat /\ Alive(o) \in Nat
      /\ refs[o] = InSems(o) + InChildren(o) + InFiles(o) + InLocals(o) + Alive(o)
      /\ IsFiniteSet(Places(sems, o)) /\ IsFiniteSet(Places(children, o))
      /\ IsFiniteSet(Places(files, o))
  BY Numbers
<1>4. refs'[o] = InSems(o)' + InChildren(o)' + InFiles(o)' + InLocals(o)' + Alive(o)'
  BY <1>1, <1>2, <1>3
<1> QED BY <1>1, <1>2, <1>3, <1>4
\* What the rest of a step has to show when only one process changes.
LEMMA OneMoves ==
  ASSUME ArgInv, TablesInv, NEW p \in Procs, UNCHANGED <<sems, children, files>>,
         \A q \in Procs \ {p} : stage'[q] = stage[q] /\ arg'[q] = arg[q],
         stage[p] # "unborn", stage'[p] # "unborn",
         stage'[p] \in Free => arg'[p] = None,
         stage'[p] \in OnSemaphore => arg'[p] \in Semaphores,
         stage'[p] \in OnChild => arg'[p] \in Procs /\ \E i \in 1 .. NCHILD : children[p][i] = arg'[p]
  PROVE  /\ ArgInv' /\ TablesInv'
         /\ \A q \in Procs : stage'[q] = "unborn" <=> stage[q] = "unborn"
<1>1. \A q \in Procs : stage'[q] = "unborn" <=> stage[q] = "unborn"
  OBVIOUS
<1>2. TablesInv'
  BY <1>1 DEF TablesInv
<1>3. ASSUME NEW q \in Procs
      PROVE  /\ stage'[q] \in Free \cup {"unborn"} => arg'[q] = None
             /\ stage'[q] \in OnSemaphore => arg'[q] \in Semaphores
             /\ stage'[q] \in OnChild =>
                  arg'[q] \in Procs /\ \E i \in 1 .. NCHILD : children[q][i] = arg'[q]
  <2>1. CASE q = p
    BY <2>1
  <2>2. CASE q # p
    BY <2>2 DEF ArgInv
  <2> QED BY <2>1, <2>2
<1>4. ArgInv'
  BY <1>3 DEF ArgInv
<1> QED BY <1>1, <1>2, <1>4

LEMMA SysDownReturnIInv ==
  ASSUME ProcIInv, NEW p \in Procs, SysDownReturn(p)
  PROVE  ProcIInv'
<1> USE DEF ProcIInv
<1>1. /\ stage[p] = "woken" /\ stage' = [stage EXCEPT ![p] = "user"]
      /\ SetsArg(p, None) /\ arg' = [arg EXCEPT ![p] = None]
      /\ refs' = [refs EXCEPT ![arg[p]] = @ - 1]
      /\ UNCHANGED <<sems, children, files, units, queue, isReady, value, rc>>
  BY DEF SysDownReturn, Goto, Drop, SetsArg, tables, semaphores, future
<1>2. arg[p] \in Semaphores /\ arg[p] \in Objects
  BY <1>1 DEF ArgInv, OnSemaphore, Objects
<1>3. /\ \A q \in Procs : stage'[q] = IF q = p THEN "user" ELSE stage[q]
      /\ \A q \in Procs : arg'[q] = IF q = p THEN None ELSE arg[q]
  BY <1>1 DEF ProcTypeOK
<1>4. /\ ArgInv' /\ TablesInv'
      /\ \A q \in Procs : stage'[q] = "unborn" <=> stage[q] = "unborn"
  BY <1>1, <1>3, OneMoves DEF Free, OnSemaphore, OnChild
<1>5. \A o \in Objects : refs'[o] = refs[o] - (IF arg[p] = o THEN 1 ELSE 0)
                                            + (IF None = o THEN 1 ELSE 0)
  BY <1>1, <1>2, ProcessesAssumption DEF ProcTypeOK, Objects
<1>6. RefsInv'
  BY <1>1, <1>4, <1>5, LocalStep
<1>7. ProcTypeOK'
  BY <1>1, <1>2 DEF ProcTypeOK, Stages, Free
<1>8. SleepInv'
  BY <1>1, <1>3 DEF SleepInv, Asleep
<1>9. StatusInv'
  BY <1>1, <1>3 DEF StatusInv
<1> QED BY <1>4, <1>6, <1>7, <1>8, <1>9

LEMMA SysDownIInv ==
  ASSUME ProcIInv, NEW p \in Procs, NEW i \in 1 .. NSEM, SysDown(p, i)
  PROVE  ProcIInv'
<1> USE DEF ProcIInv
<1> DEFINE s == sems[p][i]
<1>1. /\ stage[p] = "user" /\ s # None /\ DownOr(s, p, "woken", "down")
      /\ SetsArg(p, s) /\ arg' = [arg EXCEPT ![p] = s]
      /\ refs' = [refs EXCEPT ![s] = @ + 1]
      /\ UNCHANGED <<sems, children, files, isReady, value, rc>>
  BY DEF SysDown, Add, SetsArg, tables, future
<1>2. s \in Semaphores /\ s \in Owners /\ s \in Objects
  <2>1. sems \in [Procs -> [1 .. NSEM -> Semaphores \cup {None}]]
    BY DEF ProcTypeOK
  <2> QED BY <1>1, <2>1 DEF Owners, Objects
<1> HIDE DEF s
<1>3. /\ "woken" \in Stages \ Asleep /\ "down" \in Asleep /\ stage[p] \notin Asleep
      /\ arg[p] = None
  BY <1>1 DEF Stages, Asleep, OnSemaphore, ArgInv, Free
<1>4. \A q \in Procs : arg'[q] = IF q = p THEN s ELSE arg[q]
  BY <1>1 DEF ProcTypeOK
<1>5. /\ stage' \in [Procs -> Stages]
      /\ units' \in [Owners -> Nat] /\ queue' \in [Owners -> Seq(Procs)]
      /\ SleepInv'
      /\ \A q \in Procs \ {p} : stage'[q] = stage[q]
      /\ stage'[p] = IF units[s] > 0 THEN "woken" ELSE "down"
      /\ \A r \in Owners : units'[r] > 0 => units[r] > 0
  BY <1>1, <1>2, <1>3, <1>4, DownStep
<1>6. /\ ArgInv' /\ TablesInv'
      /\ \A q \in Procs : stage'[q] = "unborn" <=> stage[q] = "unborn"
  BY <1>1, <1>2, <1>4, <1>5, OneMoves DEF Free, OnSemaphore, OnChild
<1>7. \A o \in Objects : refs'[o] = refs[o] - (IF arg[p] = o THEN 1 ELSE 0)
                                            + (IF s = o THEN 1 ELSE 0)
  BY <1>1, <1>2, <1>3, ProcessesAssumption DEF ProcTypeOK, Objects
<1>8. RefsInv'
  BY <1>1, <1>6, <1>7, LocalStep
<1>9. ProcTypeOK'
  <2>1. arg' \in [Procs -> Owners \cup {None}] /\ refs' \in [Objects -> Int]
    BY <1>1, <1>2 DEF ProcTypeOK
  <2>2. UNCHANGED <<sems, children, files, isReady, value, rc>>
    BY <1>1
  <2> QED BY <1>5, <2>1, <2>2 DEF ProcTypeOK
<1>10. StatusInv'
  <2>1. \A q \in Procs : units'[q] > 0 => units[q] > 0
    BY <1>5 DEF Owners
  <2>2. \A q \in Procs : stage'[q] \in {"setReady", "goUp", "got", "return"} =>
                           stage'[q] = stage[q] /\ arg'[q] = arg[q]
    BY <1>4, <1>5
  <2> QED BY <1>1, <2>1, <2>2 DEF StatusInv
<1> QED BY <1>5, <1>6, <1>8, <1>9, <1>10

LEMMA WaitIInv ==
  ASSUME ProcIInv, NEW p \in Procs, NEW i \in 1 .. NCHILD, Wait(p, i)
  PROVE  ProcIInv'
<1> USE DEF ProcIInv
<1> DEFINE c == children[p][i]
           there == IF isReady[c] THEN "return" ELSE "goDown"
<1>1. /\ stage[p] = "user" /\ c # None /\ stage' = [stage EXCEPT ![p] = there]
      /\ SetsArg(p, c) /\ arg' = [arg EXCEPT ![p] = c]
      /\ refs' = [refs EXCEPT ![c] = @ + 1]
      /\ UNCHANGED <<sems, children, files, units, queue, isReady, value, rc>>
  BY DEF Wait, Add, Goto, SetsArg, tables, semaphores, future
<1>2. c \in Procs /\ c \in Objects
  <2>1. children \in [Procs -> [1 .. NCHILD -> Procs \cup {None}]]
    BY DEF ProcTypeOK
  <2> QED BY <1>1, <2>1 DEF Objects
<1>3. /\ there \in {"return", "goDown"}
      /\ there = "return" => rc[c] # None
  BY <1>2 DEF StatusInv
<1>4. children[p][i] = c
  OBVIOUS
<1> HIDE DEF c, there
<1>5. /\ \A q \in Procs : stage'[q] = IF q = p THEN there ELSE stage[q]
      /\ \A q \in Procs : arg'[q] = IF q = p THEN c ELSE arg[q]
      /\ arg[p] = None
  BY <1>1 DEF ProcTypeOK, ArgInv, Free
<1>6. /\ ArgInv' /\ TablesInv'
      /\ \A q \in Procs : stage'[q] = "unborn" <=> stage[q] = "unborn"
  BY <1>1, <1>2, <1>3, <1>4, <1>5, OneMoves DEF Free, OnSemaphore, OnChild
<1>7. \A o \in Objects : refs'[o] = refs[o] - (IF arg[p] = o THEN 1 ELSE 0)
                                            + (IF c = o THEN 1 ELSE 0)
  BY <1>1, <1>2, <1>5, ProcessesAssumption DEF ProcTypeOK, Objects
<1>8. RefsInv'
  BY <1>1, <1>6, <1>7, LocalStep
<1>9. ProcTypeOK'
  BY <1>1, <1>2, <1>3 DEF ProcTypeOK, Stages, OnChild, Owners
<1>10. SleepInv'
  BY <1>1, <1>3, <1>5 DEF SleepInv, Asleep
<1>11. StatusInv'
  BY <1>1, <1>3, <1>5 DEF StatusInv
<1> QED BY <1>6, <1>8, <1>9, <1>10, <1>11
-----------------------------------------------------------------------------
(* Steps that change tables *)

\* What a table's change has to show when the process keeps its stage.
LEMMA TablesChange ==
  ASSUME ArgInv, TablesInv, StatusInv, NEW p \in Procs, stage[p] \in Free, UNCHANGED <<stage, arg>>,
         \A q \in Procs \ {p} : /\ sems'[q] = sems[q] /\ children'[q] = children[q]
                                /\ files'[q] = files[q],
         \A i, j \in 1 .. NCHILD : children'[p][i] = children'[p][j] /\ children'[p][i] # None => i = j
  PROVE  ArgInv' /\ TablesInv'
<1>1. stage[p] # "unborn" /\ stage[p] \notin OnChild
  BY DEF Free, OnChild
<1>2. ArgInv'
  BY <1>1 DEF ArgInv
<1>3. TablesInv'
  BY <1>1 DEF TablesInv
<1> QED BY <1>2, <1>3

LEMMA NewSemaphoreIInv ==
  ASSUME ProcIInv, NEW p \in Procs, NEW s \in Semaphores, NEW initial \in Initials,
         NewSemaphore(p, s, initial)
  PROVE  ProcIInv'
<1> USE DEF ProcIInv
<1> DEFINE k == FirstFree(sems[p])
<1>1. /\ stage[p] = "user" /\ FreeSlots(sems[p]) # {} /\ refs[s] = 0
      /\ sems' = [sems EXCEPT ![p][k] = s] /\ sems' = WithSlot(sems, p, k, s)
      /\ refs' = [refs EXCEPT ![s] = 1] /\ units' = [units EXCEPT ![s] = initial]
      /\ queue' = [queue EXCEPT ![s] = << >>]
      /\ UNCHANGED <<stage, arg, children, files, isReady, value, rc>>
  BY DEF NewSemaphore, WithSlot, future
<1>2. /\ s \in Owners /\ s \in Objects /\ s \notin Procs /\ s # None /\ initial \in Nat
      /\ stage[p] \in Free
  BY <1>1, ProcessesAssumption DEF Owners, Objects, Free
<1>3. /\ sems \in [Procs -> [1 .. NSEM -> Semaphores \cup {None}]]
      /\ k \in 1 .. NSEM /\ sems[p][k] = None
  <2>1. /\ sems \in [Procs -> [1 .. NSEM -> Semaphores \cup {None}]]
        /\ sems[p] \in Rows(NSEM, Semaphores \cup {None}) /\ NSEM \in Nat
    BY ProcessesAssumption DEF ProcTypeOK, Rows
  <2> QED BY <1>1, <2>1, FirstFreeIsFree
<1> HIDE DEF k
<1>4. \A q \in Procs : arg[q] # s
  BY <1>1, <1>2, Unreferenced
<1>5. ProcTypeOK'
  <2>1. /\ sems' \in [Procs -> [1 .. NSEM -> Semaphores \cup {None}]]
    BY <1>1, <1>3
  <2>2. refs' \in [Objects -> Int] /\ units' \in [Owners -> Nat] /\ queue' \in [Owners -> Seq(Procs)]
    BY <1>1, <1>2 DEF ProcTypeOK
  <2>3. UNCHANGED <<stage, arg, children, files, isReady, value, rc>>
    BY <1>1
  <2> QED BY <2>1, <2>2, <2>3 DEF ProcTypeOK
<1>6. ArgInv' /\ TablesInv'
  <2>1. \A q \in Procs \ {p} : /\ sems'[q] = sems[q] /\ children'[q] = children[q]
                               /\ files'[q] = files[q]
    BY <1>1, <1>3
  <2>2. \A i, j \in 1 .. NCHILD : children'[p][i] = children'[p][j] /\ children'[p][i] # None => i = j
    BY <1>1 DEF TablesInv
  <2> QED BY <1>1, <1>2, <2>1, <2>2, TablesChange
<1>7. SleepInv'
  <2>1. NoRepeats(<< >>) /\ \A q : ~Contains(<< >>, q)
    BY DEF NoRepeats, Contains
  <2>2. \A r \in Owners : queue'[r] = IF r = s THEN << >> ELSE queue[r]
    BY <1>1 DEF ProcTypeOK
  <2> QED BY <1>1, <1>4, <2>1, <2>2 DEF SleepInv
<1>8. RefsInv'
  <2>1. ASSUME NEW o \in Objects
        PROVE  /\ IsFiniteSet(Places(sems, o)') /\ IsFiniteSet(Places(children, o)')
               /\ IsFiniteSet(Places(files, o)') /\ IsFiniteSet(Locals(o)')
               /\ refs'[o] = InSems(o)' + InChildren(o)' + InFiles(o)' + InLocals(o)' + Alive(o)'
    <3>1. /\ IsFiniteSet(Places(sems, o)')
          /\ InSems(o)' = InSems(o) - (IF sems[p][k] = o THEN 1 ELSE 0) + (IF s = o THEN 1 ELSE 0)
      <4>1. sems' = WithSlot(sems, p, k, s) /\ k \in 1 .. NSEM /\ s \in Semaphores \cup {None}
        BY <1>1, <1>3
      <4> QED BY <4>1, SemsSlot, SMT
    <3>2. /\ Places(children, o)' = Places(children, o) /\ InChildren(o)' = InChildren(o)
          /\ Places(files, o)' = Places(files, o) /\ InFiles(o)' = InFiles(o)
          /\ Locals(o)' = Locals(o) /\ InLocals(o)' = InLocals(o) /\ Alive(o)' = Alive(o)
      BY <1>1, Untouched
    <3>3. refs'[o] = refs[o] + (IF s = o THEN 1 ELSE 0)
      BY <1>1, <1>2 DEF ProcTypeOK
    <3>4. sems[p][k] # o
      BY <1>3, ProcessesAssumption DEF Objects
    <3> QED BY <3>1, <3>2, <3>3, <3>4, Numbers
  <2> QED BY <2>1 DEF RefsInv
<1>9. StatusInv'
  <2>1. \A q \in Procs : units'[q] = units[q]
    BY <1>1, <1>2 DEF ProcTypeOK, Owners
  <2> QED BY <1>1, <2>1 DEF StatusInv
<1> QED BY <1>5, <1>6, <1>7, <1>8, <1>9

LEMMA OpenIInv ==
  ASSUME ProcIInv, NEW p \in Procs, NEW f \in Files, Open(p, f)
  PROVE  ProcIInv'
<1> USE DEF ProcIInv
<1> DEFINE k == FirstFree(files[p])
<1>1. /\ stage[p] = "user" /\ FreeSlots(files[p]) # {} /\ refs[f] = 0
      /\ files' = [files EXCEPT ![p][k] = f] /\ files' = WithSlot(files, p, k, f)
      /\ refs' = [refs EXCEPT ![f] = 1]
      /\ UNCHANGED <<stage, arg, sems, children, units, queue, isReady, value, rc>>
  BY DEF Open, WithSlot, semaphores, future
<1>2. f \in Objects /\ f # None /\ stage[p] \in Free
  BY <1>1, ProcessesAssumption DEF Objects, Free
<1>3. /\ files \in [Procs -> [1 .. NFILE -> Files \cup {None}]]
      /\ k \in 1 .. NFILE /\ files[p][k] = None
  <2>1. /\ files \in [Procs -> [1 .. NFILE -> Files \cup {None}]]
        /\ files[p] \in Rows(NFILE, Files \cup {None}) /\ NFILE \in Nat
    BY ProcessesAssumption DEF ProcTypeOK, Rows
  <2> QED BY <1>1, <2>1, FirstFreeIsFree
<1> HIDE DEF k
<1>4. ProcTypeOK'
  <2>1. /\ files' \in [Procs -> [1 .. NFILE -> Files \cup {None}]]
    BY <1>1, <1>3
  <2>2. refs' \in [Objects -> Int]
    BY <1>1, <1>2 DEF ProcTypeOK
  <2>3. UNCHANGED <<stage, arg, sems, children, units, queue, isReady, value, rc>>
    BY <1>1
  <2> QED BY <2>1, <2>2, <2>3 DEF ProcTypeOK
<1>5. ArgInv' /\ TablesInv'
  <2>1. \A q \in Procs \ {p} : /\ sems'[q] = sems[q] /\ children'[q] = children[q]
                               /\ files'[q] = files[q]
    BY <1>1, <1>3
  <2>2. \A i, j \in 1 .. NCHILD : children'[p][i] = children'[p][j] /\ children'[p][i] # None => i = j
    BY <1>1 DEF TablesInv
  <2> QED BY <1>1, <1>2, <2>1, <2>2, TablesChange
<1>6. RefsInv'
  <2>1. ASSUME NEW o \in Objects
        PROVE  /\ IsFiniteSet(Places(sems, o)') /\ IsFiniteSet(Places(children, o)')
               /\ IsFiniteSet(Places(files, o)') /\ IsFiniteSet(Locals(o)')
               /\ refs'[o] = InSems(o)' + InChildren(o)' + InFiles(o)' + InLocals(o)' + Alive(o)'
    <3>1. /\ IsFiniteSet(Places(files, o)')
          /\ InFiles(o)' = InFiles(o) - (IF files[p][k] = o THEN 1 ELSE 0) + (IF f = o THEN 1 ELSE 0)
      <4>1. files' = WithSlot(files, p, k, f) /\ k \in 1 .. NFILE /\ f \in Files \cup {None}
        BY <1>1, <1>3
      <4> QED BY <4>1, FilesSlot, SMT
    <3>2. /\ Places(children, o)' = Places(children, o) /\ InChildren(o)' = InChildren(o)
          /\ Places(sems, o)' = Places(sems, o) /\ InSems(o)' = InSems(o)
          /\ Locals(o)' = Locals(o) /\ InLocals(o)' = InLocals(o) /\ Alive(o)' = Alive(o)
      BY <1>1, Untouched
    <3>3. refs'[o] = refs[o] + (IF f = o THEN 1 ELSE 0)
      BY <1>1, <1>2 DEF ProcTypeOK
    <3>4. files[p][k] # o
      BY <1>3, ProcessesAssumption DEF Objects
    <3> QED BY <3>1, <3>2, <3>3, <3>4, Numbers
  <2> QED BY <2>1 DEF RefsInv
<1>7. SleepInv' /\ StatusInv'
  BY <1>1 DEF SleepInv, StatusInv
<1> QED BY <1>4, <1>5, <1>6, <1>7
LEMMA CloseIInv ==
  ASSUME ProcIInv, NEW p \in Procs, Close(p)
  PROVE  ProcIInv'
<1> USE DEF ProcIInv
<1>1. /\ stage[p] \in Free /\ UNCHANGED <<stage, arg, units, queue, isReady, value, rc>>
      /\ \A o \in Objects : Alive(o)' = Alive(o)
  BY DEF Close, Free, Alive, semaphores, future
<1>2. SleepInv' /\ StatusInv'
  BY <1>1 DEF SleepInv, StatusInv
<1>3. CASE \E i \in 1 .. NSEM : /\ sems[p][i] # None
                                /\ sems' = [sems EXCEPT ![p][i] = None]
                                /\ Drop(sems[p][i])
                                /\ UNCHANGED <<children, files>>
  <2>1. PICK k \in 1 .. NSEM :
          /\ sems[p][k] # None /\ sems' = [sems EXCEPT ![p][k] = None]
          /\ sems' = WithSlot(sems, p, k, None)
          /\ refs' = [refs EXCEPT ![sems[p][k]] = @ - 1] /\ UNCHANGED <<children, files>>
    BY <1>3 DEF WithSlot, Drop
  <2>2. sems \in [Procs -> [1 .. NSEM -> Semaphores \cup {None}]] /\ refs \in [Objects -> Int]
    BY DEF ProcTypeOK
  <2>3. sems[p][k] \in Objects
    <3>1. sems[p][k] \in Semaphores \cup {None}
      BY <2>2
    <3>2. sems[p][k] # None
      BY <2>1
    <3> QED BY <3>1, <3>2 DEF Objects
  <2>4. sems' \in [Procs -> [1 .. NSEM -> Semaphores \cup {None}]] /\ refs' \in [Objects -> Int]
    BY <2>1, <2>2, <2>3
  <2>5. ProcTypeOK'
    <3>1. UNCHANGED <<stage, arg, units, queue, isReady, value, rc>>
      BY <1>1
    <3>2. UNCHANGED <<children, files>>
      BY <2>1
    <3> QED BY <2>4, <3>1, <3>2 DEF ProcTypeOK
  <2>6. ArgInv' /\ TablesInv'
    <3>1. \A q \in Procs \ {p} : /\ sems'[q] = sems[q] /\ children'[q] = children[q]
                                 /\ files'[q] = files[q]
      BY <2>1, <2>2
    <3>2. \A i, j \in 1 .. NCHILD : children'[p][i] = children'[p][j] /\ children'[p][i] # None => i = j
      BY <2>1 DEF TablesInv
    <3> QED BY <1>1, <3>1, <3>2, TablesChange
  <2>7. ASSUME NEW o \in Objects
        PROVE  /\ IsFiniteSet(Places(sems, o)') /\ IsFiniteSet(Places(children, o)')
               /\ IsFiniteSet(Places(files, o)') /\ IsFiniteSet(Locals(o)')
               /\ refs'[o] = InSems(o)' + InChildren(o)' + InFiles(o)' + InLocals(o)' + Alive(o)'
    <3>1. /\ IsFiniteSet(Places(sems, o)')
          /\ InSems(o)' = InSems(o) - (IF sems[p][k] = o THEN 1 ELSE 0) + (IF None = o THEN 1 ELSE 0)
      <4>1. sems' = WithSlot(sems, p, k, None) /\ None \in Semaphores \cup {None}
        BY <2>1
      <4> QED BY <4>1, SemsSlot, SMT
    <3>2. /\ Places(children, o)' = Places(children, o) /\ InChildren(o)' = InChildren(o)
          /\ Places(files, o)' = Places(files, o) /\ InFiles(o)' = InFiles(o)
          /\ Locals(o)' = Locals(o) /\ InLocals(o)' = InLocals(o) /\ Alive(o)' = Alive(o)
      BY <1>1, <2>1, Untouched
    <3>3. refs'[o] = refs[o] - (IF sems[p][k] = o THEN 1 ELSE 0)
      BY <2>1, <2>2, <2>3
    <3>4. None # o
      BY ProcessesAssumption DEF Objects
    <3> QED BY <3>1, <3>2, <3>3, <3>4, Numbers
  <2> QED BY <1>2, <2>5, <2>6, <2>7 DEF RefsInv
<1>4. CASE \E i \in 1 .. NCHILD : /\ children[p][i] # None
                                  /\ children' = [children EXCEPT ![p][i] = None]
                                  /\ Drop(children[p][i])
                                  /\ UNCHANGED <<sems, files>>
  <2>1. PICK k \in 1 .. NCHILD :
          /\ children[p][k] # None /\ children' = [children EXCEPT ![p][k] = None]
          /\ children' = WithSlot(children, p, k, None)
          /\ refs' = [refs EXCEPT ![children[p][k]] = @ - 1] /\ UNCHANGED <<sems, files>>
    BY <1>4 DEF WithSlot, Drop
  <2>2. children \in [Procs -> [1 .. NCHILD -> Procs \cup {None}]] /\ refs \in [Objects -> Int]
    BY DEF ProcTypeOK
  <2>3. children[p][k] \in Objects
    <3>1. children[p][k] \in Procs \cup {None}
      BY <2>2
    <3>2. children[p][k] # None
      BY <2>1
    <3> QED BY <3>1, <3>2 DEF Objects
  <2>4. children' \in [Procs -> [1 .. NCHILD -> Procs \cup {None}]] /\ refs' \in [Objects -> Int]
    BY <2>1, <2>2, <2>3
  <2>5. ProcTypeOK'
    <3>1. UNCHANGED <<stage, arg, units, queue, isReady, value, rc>>
      BY <1>1
    <3>2. UNCHANGED <<sems, files>>
      BY <2>1
    <3> QED BY <2>4, <3>1, <3>2 DEF ProcTypeOK
  <2>6. ArgInv' /\ TablesInv'
    <3>1. \A q \in Procs \ {p} : /\ sems'[q] = sems[q] /\ children'[q] = children[q]
                                 /\ files'[q] = files[q]
      BY <2>1, <2>2
    <3>2. \A i, j \in 1 .. NCHILD : children'[p][i] = children'[p][j] /\ children'[p][i] # None => i = j
      <4>1. \A i \in 1 .. NCHILD : children'[p][i] # None => children'[p][i] = children[p][i]
        BY <2>1, <2>2
      <4> QED BY <4>1 DEF TablesInv
    <3> QED BY <1>1, <3>1, <3>2, TablesChange
  <2>7. ASSUME NEW o \in Objects
        PROVE  /\ IsFiniteSet(Places(sems, o)') /\ IsFiniteSet(Places(children, o)')
               /\ IsFiniteSet(Places(files, o)') /\ IsFiniteSet(Locals(o)')
               /\ refs'[o] = InSems(o)' + InChildren(o)' + InFiles(o)' + InLocals(o)' + Alive(o)'
    <3>1. /\ IsFiniteSet(Places(children, o)')
          /\ InChildren(o)' =
               InChildren(o) - (IF children[p][k] = o THEN 1 ELSE 0) + (IF None = o THEN 1 ELSE 0)
      <4>1. children' = WithSlot(children, p, k, None) /\ None \in Procs \cup {None}
        BY <2>1
      <4> QED BY <4>1, ChildrenSlot, SMT
    <3>2. /\ Places(sems, o)' = Places(sems, o) /\ InSems(o)' = InSems(o)
          /\ Places(files, o)' = Places(files, o) /\ InFiles(o)' = InFiles(o)
          /\ Locals(o)' = Locals(o) /\ InLocals(o)' = InLocals(o) /\ Alive(o)' = Alive(o)
      BY <1>1, <2>1, Untouched
    <3>3. refs'[o] = refs[o] - (IF children[p][k] = o THEN 1 ELSE 0)
      BY <2>1, <2>2, <2>3
    <3>4. None # o
      BY ProcessesAssumption DEF Objects
    <3> QED BY <3>1, <3>2, <3>3, <3>4, Numbers
  <2> QED BY <1>2, <2>5, <2>6, <2>7 DEF RefsInv
<1>5. CASE \E i \in 1 .. NFILE : /\ files[p][i] # None
                                 /\ files' = [files EXCEPT ![p][i] = None]
                                 /\ Drop(files[p][i])
                                 /\ UNCHANGED <<sems, children>>
  <2>1. PICK k \in 1 .. NFILE :
          /\ files[p][k] # None /\ files' = [files EXCEPT ![p][k] = None]
          /\ files' = WithSlot(files, p, k, None)
          /\ refs' = [refs EXCEPT ![files[p][k]] = @ - 1] /\ UNCHANGED <<sems, children>>
    BY <1>5 DEF WithSlot, Drop
  <2>2. files \in [Procs -> [1 .. NFILE -> Files \cup {None}]] /\ refs \in [Objects -> Int]
    BY DEF ProcTypeOK
  <2>3. files[p][k] \in Objects
    <3>1. files[p][k] \in Files \cup {None}
      BY <2>2
    <3>2. files[p][k] # None
      BY <2>1
    <3> QED BY <3>1, <3>2 DEF Objects
  <2>4. files' \in [Procs -> [1 .. NFILE -> Files \cup {None}]] /\ refs' \in [Objects -> Int]
    BY <2>1, <2>2, <2>3
  <2>5. ProcTypeOK'
    <3>1. UNCHANGED <<stage, arg, units, queue, isReady, value, rc>>
      BY <1>1
    <3>2. UNCHANGED <<sems, children>>
      BY <2>1
    <3> QED BY <2>4, <3>1, <3>2 DEF ProcTypeOK
  <2>6. ArgInv' /\ TablesInv'
    <3>1. \A q \in Procs \ {p} : /\ sems'[q] = sems[q] /\ children'[q] = children[q]
                                 /\ files'[q] = files[q]
      BY <2>1, <2>2
    <3>2. \A i, j \in 1 .. NCHILD : children'[p][i] = children'[p][j] /\ children'[p][i] # None => i = j
      BY <2>1 DEF TablesInv
    <3> QED BY <1>1, <3>1, <3>2, TablesChange
  <2>7. ASSUME NEW o \in Objects
        PROVE  /\ IsFiniteSet(Places(sems, o)') /\ IsFiniteSet(Places(children, o)')
               /\ IsFiniteSet(Places(files, o)') /\ IsFiniteSet(Locals(o)')
               /\ refs'[o] = InSems(o)' + InChildren(o)' + InFiles(o)' + InLocals(o)' + Alive(o)'
    <3>1. /\ IsFiniteSet(Places(files, o)')
          /\ InFiles(o)' = InFiles(o) - (IF files[p][k] = o THEN 1 ELSE 0) + (IF None = o THEN 1 ELSE 0)
      <4>1. files' = WithSlot(files, p, k, None) /\ None \in Files \cup {None}
        BY <2>1
      <4> QED BY <4>1, FilesSlot, SMT
    <3>2. /\ Places(sems, o)' = Places(sems, o) /\ InSems(o)' = InSems(o)
          /\ Places(children, o)' = Places(children, o) /\ InChildren(o)' = InChildren(o)
          /\ Locals(o)' = Locals(o) /\ InLocals(o)' = InLocals(o) /\ Alive(o)' = Alive(o)
      BY <1>1, <2>1, Untouched
    <3>3. refs'[o] = refs[o] - (IF files[p][k] = o THEN 1 ELSE 0)
      BY <2>1, <2>2, <2>3
    <3>4. None # o
      BY ProcessesAssumption DEF Objects
    <3> QED BY <3>1, <3>2, <3>3, <3>4, Numbers
  <2> QED BY <1>2, <2>5, <2>6, <2>7 DEF RefsInv
<1> QED BY <1>3, <1>4, <1>5 DEF Close
LEMMA WaitReturnIInv ==
  ASSUME ProcIInv, NEW p \in Procs, WaitReturn(p)
  PROVE  ProcIInv'
<1> USE DEF ProcIInv
<1> DEFINE c == arg[p]
           row == [i \in 1 .. NCHILD |-> IF children[p][i] = c THEN None ELSE children[p][i]]
<1>1. /\ stage[p] = "return" /\ stage' = [stage EXCEPT ![p] = "user"]
      /\ children' = [children EXCEPT ![p] = row]
      /\ refs' = [refs EXCEPT ![c] = @ - 2]
      /\ arg' = [arg EXCEPT ![p] = None] /\ SetsArg(p, None)
      /\ UNCHANGED <<sems, files, units, queue, isReady, value, rc>>
  BY DEF WaitReturn, Goto, SetsArg, semaphores, future
<1>2. /\ c \in Procs /\ c \in Objects /\ c # None
      /\ \E i \in 1 .. NCHILD : children[p][i] = c
  BY <1>1, ProcessesAssumption DEF ArgInv, OnChild, Objects
<1>3. children \in [Procs -> [1 .. NCHILD -> Procs \cup {None}]]
  BY DEF ProcTypeOK
<1>4. PICK k \in 1 .. NCHILD : children[p][k] = c
  BY <1>2
<1>5. row \in [1 .. NCHILD -> Procs \cup {None}] /\ row = [children[p] EXCEPT ![k] = None]
  <2>1. \A i \in 1 .. NCHILD : children[p][i] \in Procs \cup {None}
    BY <1>3
  <2>2. \A i \in 1 .. NCHILD : children[p][i] = c => i = k
    BY <1>2, <1>4 DEF TablesInv
  <2>3. children[p] \in [1 .. NCHILD -> Procs \cup {None}]
    BY <1>3
  <2> QED BY <1>4, <2>1, <2>2, <2>3
<1>6. children' = WithSlot(children, p, k, None)
  BY <1>1, <1>3, <1>5 DEF WithSlot
<1>7. /\ children' \in [Procs -> [1 .. NCHILD -> Procs \cup {None}]]
      /\ \A q \in Procs \ {p} : children'[q] = children[q]
      /\ \A i \in 1 .. NCHILD : children'[p][i] # None => children'[p][i] = children[p][i]
  BY <1>1, <1>3, <1>5
<1> HIDE DEF c, row
<1>8. /\ \A q \in Procs : stage'[q] = IF q = p THEN "user" ELSE stage[q]
      /\ \A q \in Procs : arg'[q] = IF q = p THEN None ELSE arg[q]
  BY <1>1 DEF ProcTypeOK
<1>9. ProcTypeOK'
  <2>1. stage' \in [Procs -> Stages] /\ arg' \in [Procs -> Owners \cup {None}]
    BY <1>1 DEF ProcTypeOK, Stages, Free
  <2>2. refs' \in [Objects -> Int]
    BY <1>1, <1>2 DEF ProcTypeOK
  <2>3. UNCHANGED <<sems, files, units, queue, isReady, value, rc>>
    BY <1>1
  <2> QED BY <1>7, <2>1, <2>2, <2>3 DEF ProcTypeOK
<1>10. ArgInv'
  <2>1. ASSUME NEW q \in Procs
        PROVE  /\ stage'[q] \in Free \cup {"unborn"} => arg'[q] = None
               /\ stage'[q] \in OnSemaphore => arg'[q] \in Semaphores
               /\ stage'[q] \in OnChild =>
                    arg'[q] \in Procs /\ \E i \in 1 .. NCHILD : children'[q][i] = arg'[q]
    <3>1. CASE q = p
      BY <1>8, <3>1 DEF Free, OnSemaphore, OnChild
    <3>2. CASE q # p
      BY <1>7, <1>8, <3>2 DEF ArgInv
    <3> QED BY <3>1, <3>2
  <2> QED BY <2>1 DEF ArgInv
<1>11. TablesInv'
  <2>1. \A i, j \in 1 .. NCHILD : children'[p][i] = children'[p][j] /\ children'[p][i] # None => i = j
    BY <1>7 DEF TablesInv
  <2>2. stage'[p] # "unborn" /\ \A q \in Procs \ {p} : stage'[q] = stage[q]
    BY <1>8
  <2>3. sems' = sems /\ files' = files
    BY <1>1
  <2> QED BY <1>7, <2>1, <2>2, <2>3 DEF TablesInv
<1>12. SleepInv'
  BY <1>1, <1>8 DEF SleepInv, Asleep
<1>13. StatusInv'
  BY <1>1, <1>8 DEF StatusInv
<1>14. RefsInv'
  <2>1. ASSUME NEW o \in Objects
        PROVE  /\ IsFiniteSet(Places(sems, o)') /\ IsFiniteSet(Places(children, o)')
               /\ IsFiniteSet(Places(files, o)') /\ IsFiniteSet(Locals(o)')
               /\ refs'[o] = InSems(o)' + InChildren(o)' + InFiles(o)' + InLocals(o)' + Alive(o)'
    <3>1. /\ IsFiniteSet(Places(children, o)')
          /\ InChildren(o)' =
               InChildren(o) - (IF children[p][k] = o THEN 1 ELSE 0) + (IF None = o THEN 1 ELSE 0)
      <4>1. None \in Procs \cup {None}
        OBVIOUS
      <4> QED BY <1>6, <4>1, ChildrenSlot, SMT
    <3>2. /\ Places(sems, o)' = Places(sems, o) /\ InSems(o)' = InSems(o)
          /\ Places(files, o)' = Places(files, o) /\ InFiles(o)' = InFiles(o)
          /\ Alive(o)' = Alive(o)
      <4>1. sems' = sems /\ files' = files
        BY <1>1
      <4>2. \A q \in Procs : stage'[q] = "unborn" <=> stage[q] = "unborn"
        BY <1>1, <1>8
      <4> QED BY <4>1, <4>2, Untouched
    <3>3. /\ IsFiniteSet(Locals(o)')
          /\ InLocals(o)' = InLocals(o) - (IF arg[p] = o THEN 1 ELSE 0) + (IF None = o THEN 1 ELSE 0)
      <4>1. IsFiniteSet(Locals(o)) /\ SetsArg(p, None)
        BY <1>1 DEF RefsInv
      <4> QED BY <4>1, LocalReplaced, SMT
    <3>4. refs'[o] = refs[o] - (IF c = o THEN 2 ELSE 0)
      BY <1>1, <1>2 DEF ProcTypeOK
    <3>5. None # o /\ children[p][k] = c /\ arg[p] = c
      BY <1>4, ProcessesAssumption DEF Objects, c
    <3> QED BY <3>1, <3>2, <3>3, <3>4, <3>5, Numbers
  <2> QED BY <2>1 DEF RefsInv
<1> QED BY <1>9, <1>10, <1>11, <1>12, <1>13, <1>14

LEMMA ExecIInv ==
  ASSUME ProcIInv, NEW p \in Procs, Exec(p)
  PROVE  ProcIInv'
<1> USE DEF ProcIInv
<1>1. /\ stage[p] \in Free
      /\ sems' = [sems EXCEPT ![p] = NoTable(NSEM)] /\ sems' = WithRow(sems, p, NoTable(NSEM))
      /\ children' = [children EXCEPT ![p] = NoTable(NCHILD)]
      /\ children' = WithRow(children, p, NoTable(NCHILD))
      /\ refs' = [o \in Objects |-> refs[o] - Count(sems[p])[o] - Count(children[p])[o]]
      /\ UNCHANGED <<stage, arg, files, units, queue, isReady, value, rc>>
  BY DEF Exec, Free, WithRow, semaphores, future
<1>2. /\ NoTable(NSEM) \in Rows(NSEM, Semaphores \cup {None})
      /\ NoTable(NCHILD) \in Rows(NCHILD, Procs \cup {None})
      /\ NSEM \in Nat /\ NCHILD \in Nat
  BY ProcessesAssumption DEF NoTable, Rows
<1>3. ASSUME NEW o \in Objects
      PROVE  /\ IsFiniteSet(Places(sems, o)') /\ IsFiniteSet(Places(children, o)')
             /\ IsFiniteSet(Places(files, o)') /\ IsFiniteSet(Locals(o)')
             /\ refs'[o] = InSems(o)' + InChildren(o)' + InFiles(o)' + InLocals(o)' + Alive(o)'
             /\ refs'[o] \in Int
  <2>1. /\ IsFiniteSet(Places(sems, o)') /\ Cardinality(Slots(sems[p], o)) \in Nat
        /\ InSems(o)' = InSems(o) - Cardinality(Slots(sems[p], o)) + Cardinality(Slots(NoTable(NSEM), o))
    <3>1. PICK row \in Rows(NSEM, Semaphores \cup {None}) :
            sems' = WithRow(sems, p, row) /\ row = NoTable(NSEM)
      BY <1>1, <1>2
    <3>2. /\ IsFiniteSet(Places(sems, o)') /\ Cardinality(Slots(sems[p], o)) \in Nat
          /\ InSems(o)' = InSems(o) - Cardinality(Slots(sems[p], o)) + Cardinality(Slots(row, o))
      BY <3>1, SemsRow, SMT
    <3> QED BY <3>1, <3>2
  <2>2. /\ IsFiniteSet(Places(children, o)') /\ Cardinality(Slots(children[p], o)) \in Nat
        /\ InChildren(o)' = InChildren(o) - Cardinality(Slots(children[p], o))
                                          + Cardinality(Slots(NoTable(NCHILD), o))
    <3>1. PICK row \in Rows(NCHILD, Procs \cup {None}) :
            children' = WithRow(children, p, row) /\ row = NoTable(NCHILD)
      BY <1>1, <1>2
    <3>2. /\ IsFiniteSet(Places(children, o)') /\ InChildren(o) \in Nat
          /\ InChildren(o)' =
               InChildren(o) - Cardinality(Slots(children[p], o)) + Cardinality(Slots(row, o))
          /\ Cardinality(Slots(children[p], o)) \in Nat /\ Cardinality(Slots(row, o)) \in Nat
      BY <3>1, ChildrenRow
    <3> QED BY <3>1, <3>2
  <2>3. Cardinality(Slots(NoTable(NSEM), o)) = 0 /\ Cardinality(Slots(NoTable(NCHILD), o)) = 0
    BY <1>2, NoSlots
  <2>4. /\ Places(files, o)' = Places(files, o) /\ InFiles(o)' = InFiles(o)
        /\ Locals(o)' = Locals(o) /\ InLocals(o)' = InLocals(o) /\ Alive(o)' = Alive(o)
    <3>1. files' = files /\ arg' = arg /\ stage' = stage
      BY <1>1
    <3> QED BY <3>1, Untouched
  <2>5. refs'[o] = refs[o] - Cardinality(Slots(sems[p], o)) - Cardinality(Slots(children[p], o))
    BY <1>1 DEF Count
  <2>6. /\ InSems(o) \in Nat /\ InChildren(o) \in Nat /\ InFiles(o) \in Nat
        /\ InLocals(o) \in Nat /\ Alive(o) \in Nat
        /\ refs[o] = InSems(o) + InChildren(o) + InFiles(o) + InLocals(o) + Alive(o)
        /\ IsFiniteSet(Places(files, o)) /\ IsFiniteSet(Locals(o))
    BY Numbers
  <2> QED BY <2>1, <2>2, <2>3, <2>4, <2>5, <2>6
<1>4. RefsInv'
  BY <1>3 DEF RefsInv
<1>5. ProcTypeOK'
  <2>1. refs' \in [Objects -> Int]
    BY <1>1, <1>3
  <2>2. /\ sems' \in [Procs -> [1 .. NSEM -> Semaphores \cup {None}]]
        /\ children' \in [Procs -> [1 .. NCHILD -> Procs \cup {None}]]
    BY <1>1, <1>2 DEF ProcTypeOK, Rows
  <2>3. UNCHANGED <<stage, arg, files, units, queue, isReady, value, rc>>
    BY <1>1
  <2> QED BY <2>1, <2>2, <2>3 DEF ProcTypeOK
<1>6. ArgInv' /\ TablesInv'
  <2>1. \A q \in Procs \ {p} : /\ sems'[q] = sems[q] /\ children'[q] = children[q]
                               /\ files'[q] = files[q]
    BY <1>1 DEF ProcTypeOK
  <2>2. \A i, j \in 1 .. NCHILD : children'[p][i] = children'[p][j] /\ children'[p][i] # None => i = j
    BY <1>1 DEF ProcTypeOK, NoTable
  <2> QED BY <1>1, <2>1, <2>2, TablesChange
<1>7. SleepInv' /\ StatusInv'
  BY <1>1 DEF SleepInv, StatusInv
<1> QED BY <1>4, <1>5, <1>6, <1>7
LEMMA ReapIInv ==
  ASSUME ProcIInv, NEW p \in Procs, Reap(p)
  PROVE  ProcIInv'
<1> USE DEF ProcIInv
<1>1. /\ stage[p] = "stopped" /\ stage' = [stage EXCEPT ![p] = "unborn"]
      /\ sems' = [sems EXCEPT ![p] = NoTable(NSEM)] /\ sems' = WithRow(sems, p, NoTable(NSEM))
      /\ children' = [children EXCEPT ![p] = NoTable(NCHILD)]
      /\ children' = WithRow(children, p, NoTable(NCHILD))
      /\ files' = [files EXCEPT ![p] = NoTable(NFILE)] /\ files' = WithRow(files, p, NoTable(NFILE))
      /\ refs' = [o \in Objects |-> refs[o] - Held(p)[o]]
      /\ UNCHANGED <<arg, units, queue, isReady, value, rc>>
  BY DEF Reap, Goto, WithRow, semaphores, future
<1>2. /\ NoTable(NSEM) \in Rows(NSEM, Semaphores \cup {None})
      /\ NoTable(NCHILD) \in Rows(NCHILD, Procs \cup {None})
      /\ NoTable(NFILE) \in Rows(NFILE, Files \cup {None})
      /\ NSEM \in Nat /\ NCHILD \in Nat /\ NFILE \in Nat
  BY ProcessesAssumption DEF NoTable, Rows
<1>3. \A q \in Procs : stage'[q] = IF q = p THEN "unborn" ELSE stage[q]
  BY <1>1 DEF ProcTypeOK
<1>4. ASSUME NEW o \in Objects
      PROVE  /\ IsFiniteSet(Places(sems, o)') /\ IsFiniteSet(Places(children, o)')
             /\ IsFiniteSet(Places(files, o)') /\ IsFiniteSet(Locals(o)')
             /\ refs'[o] = InSems(o)' + InChildren(o)' + InFiles(o)' + InLocals(o)' + Alive(o)'
             /\ refs'[o] \in Int
  <2>1. /\ IsFiniteSet(Places(sems, o)') /\ Cardinality(Slots(sems[p], o)) \in Nat
        /\ InSems(o)' = InSems(o) - Cardinality(Slots(sems[p], o))
    <3>1. PICK row \in Rows(NSEM, Semaphores \cup {None}) :
            sems' = WithRow(sems, p, row) /\ row = NoTable(NSEM)
      BY <1>1, <1>2
    <3>2. /\ IsFiniteSet(Places(sems, o)') /\ InSems(o) \in Nat
          /\ InSems(o)' = InSems(o) - Cardinality(Slots(sems[p], o)) + Cardinality(Slots(row, o))
          /\ Cardinality(Slots(sems[p], o)) \in Nat /\ Cardinality(Slots(row, o)) \in Nat
      BY <3>1, SemsRow
    <3> QED BY <1>2, <3>1, <3>2, NoSlots
  <2>2. /\ IsFiniteSet(Places(children, o)') /\ Cardinality(Slots(children[p], o)) \in Nat
        /\ InChildren(o)' = InChildren(o) - Cardinality(Slots(children[p], o))
    <3>1. PICK row \in Rows(NCHILD, Procs \cup {None}) :
            children' = WithRow(children, p, row) /\ row = NoTable(NCHILD)
      BY <1>1, <1>2
    <3>2. /\ IsFiniteSet(Places(children, o)') /\ InChildren(o) \in Nat
          /\ InChildren(o)' =
               InChildren(o) - Cardinality(Slots(children[p], o)) + Cardinality(Slots(row, o))
          /\ Cardinality(Slots(children[p], o)) \in Nat /\ Cardinality(Slots(row, o)) \in Nat
      BY <3>1, ChildrenRow
    <3> QED BY <1>2, <3>1, <3>2, NoSlots
  <2>3. /\ IsFiniteSet(Places(files, o)') /\ Cardinality(Slots(files[p], o)) \in Nat
        /\ InFiles(o)' = InFiles(o) - Cardinality(Slots(files[p], o))
    <3>1. PICK row \in Rows(NFILE, Files \cup {None}) :
            files' = WithRow(files, p, row) /\ row = NoTable(NFILE)
      BY <1>1, <1>2
    <3>2. /\ IsFiniteSet(Places(files, o)') /\ InFiles(o) \in Nat
          /\ InFiles(o)' = InFiles(o) - Cardinality(Slots(files[p], o)) + Cardinality(Slots(row, o))
          /\ Cardinality(Slots(files[p], o)) \in Nat /\ Cardinality(Slots(row, o)) \in Nat
      BY <3>1, FilesRow
    <3> QED BY <1>2, <3>1, <3>2, NoSlots
  <2>4. Locals(o)' = Locals(o) /\ InLocals(o)' = InLocals(o)
    <3>1. arg' = arg
      BY <1>1
    <3> QED BY <3>1, Untouched
  <2>5. Alive(o)' = Alive(o) - (IF o = p THEN 1 ELSE 0)
    BY <1>1, <1>3 DEF Alive
  <2>6. refs'[o] = refs[o] - (Cardinality(Slots(sems[p], o)) + Cardinality(Slots(children[p], o))
                              + Cardinality(Slots(files[p], o)) + (IF o = p THEN 1 ELSE 0))
    BY <1>1 DEF Count, Held
  <2>7. /\ InSems(o) \in Nat /\ InChildren(o) \in Nat /\ InFiles(o) \in Nat
        /\ InLocals(o) \in Nat /\ Alive(o) \in Nat
        /\ refs[o] = InSems(o) + InChildren(o) + InFiles(o) + InLocals(o) + Alive(o)
        /\ IsFiniteSet(Locals(o))
    BY Numbers
  <2> QED BY <2>1, <2>2, <2>3, <2>4, <2>5, <2>6, <2>7
<1>5. RefsInv'
  BY <1>4 DEF RefsInv
<1>6. ProcTypeOK'
  <2>1. refs' \in [Objects -> Int]
    BY <1>1, <1>4
  <2>2. /\ sems' \in [Procs -> [1 .. NSEM -> Semaphores \cup {None}]]
        /\ children' \in [Procs -> [1 .. NCHILD -> Procs \cup {None}]]
        /\ files' \in [Procs -> [1 .. NFILE -> Files \cup {None}]]
    BY <1>1, <1>2 DEF ProcTypeOK, Rows
  <2>3. stage' \in [Procs -> Stages]
    BY <1>1 DEF ProcTypeOK, Stages
  <2>4. UNCHANGED <<arg, units, queue, isReady, value, rc>>
    BY <1>1
  <2> QED BY <2>1, <2>2, <2>3, <2>4 DEF ProcTypeOK
<1>7. ArgInv' /\ TablesInv'
  <2>1. /\ \A q \in Procs \ {p} : /\ sems'[q] = sems[q] /\ children'[q] = children[q]
                                  /\ files'[q] = files[q]
        /\ sems'[p] = NoTable(NSEM) /\ children'[p] = NoTable(NCHILD) /\ files'[p] = NoTable(NFILE)
    BY <1>1 DEF ProcTypeOK
  <2>2. \A i \in 1 .. NCHILD : children'[p][i] = None
    BY <2>1 DEF NoTable
  <2>3. TablesInv'
    <3>1. ASSUME NEW q \in Procs
          PROVE  /\ stage'[q] = "unborn" => /\ sems'[q] = NoTable(NSEM)
                                            /\ children'[q] = NoTable(NCHILD)
                                            /\ files'[q] = NoTable(NFILE)
                 /\ \A i, j \in 1 .. NCHILD :
                      children'[q][i] = children'[q][j] /\ children'[q][i] # None => i = j
      <4>1. CASE q = p
        BY <2>1, <2>2, <4>1
      <4>2. CASE q # p
        BY <1>3, <2>1, <4>2 DEF TablesInv
      <4> QED BY <4>1, <4>2
    <3> QED BY <3>1 DEF TablesInv
  <2>4. ArgInv'
    <3>1. ASSUME NEW q \in Procs
          PROVE  /\ stage'[q] \in Free \cup {"unborn"} => arg'[q] = None
                 /\ stage'[q] \in OnSemaphore => arg'[q] \in Semaphores
                 /\ stage'[q] \in OnChild =>
                      arg'[q] \in Procs /\ \E i \in 1 .. NCHILD : children'[q][i] = arg'[q]
      <4>1. CASE q = p
        BY <1>1, <1>3, <4>1 DEF ArgInv, Free, OnSemaphore, OnChild
      <4>2. CASE q # p
        BY <1>1, <1>3, <2>1, <4>2 DEF ArgInv
      <4> QED BY <4>1, <4>2
    <3> QED BY <3>1 DEF ArgInv
  <2> QED BY <2>3, <2>4
<1>8. SleepInv'
  BY <1>1, <1>3 DEF SleepInv, Asleep
<1>9. StatusInv'
  BY <1>1, <1>3 DEF StatusInv
<1> QED BY <1>5, <1>6, <1>7, <1>8, <1>9

LEMMA ForkIInv ==
  ASSUME ProcIInv, NEW p \in Procs, NEW q \in Procs, Fork(p, q)
  PROVE  ProcIInv'
<1> USE DEF ProcIInv
<1> DEFINE k == FirstFree(children[p])
<1>1. /\ stage[p] = "user" /\ FreeSlots(children[p]) # {}
      /\ stage[q] = "unborn" /\ refs[q] = 0 /\ stage' = [stage EXCEPT ![q] = "user"]
      /\ children' = [children EXCEPT ![p][k] = q, ![q] = NoTable(NCHILD)]
      /\ sems' = [sems EXCEPT ![q] = sems[p]] /\ files' = [files EXCEPT ![q] = files[p]]
      /\ sems' = WithRow(sems, q, sems[p]) /\ files' = WithRow(files, q, files[p])
      /\ refs' = [o \in Objects |-> refs[o] + Inherited(p, q)[o]]
      /\ isReady' = [isReady EXCEPT ![q] = FALSE] /\ value' = [value EXCEPT ![q] = 0]
      /\ units' = [units EXCEPT ![q] = 0] /\ queue' = [queue EXCEPT ![q] = << >>]
      /\ rc' = [rc EXCEPT ![q] = None] /\ arg' = arg
  BY DEF Fork, Goto, WithRow
<1>2. /\ p # q /\ q \in Owners /\ q \in Objects /\ q # None
      /\ NSEM \in Nat /\ NCHILD \in Nat /\ NFILE \in Nat
  BY <1>1, ProcessesAssumption DEF Owners, Objects
<1>3. /\ children \in [Procs -> [1 .. NCHILD -> Procs \cup {None}]]
      /\ k \in 1 .. NCHILD /\ children[p][k] = None
  <2>1. /\ children \in [Procs -> [1 .. NCHILD -> Procs \cup {None}]]
        /\ children[p] \in Rows(NCHILD, Procs \cup {None})
    BY DEF ProcTypeOK, Rows
  <2> QED BY <1>1, <1>2, <2>1, FirstFreeIsFree
<1> HIDE DEF k
<1>4. /\ sems[q] = NoTable(NSEM) /\ children[q] = NoTable(NCHILD) /\ files[q] = NoTable(NFILE)
      /\ arg[q] = None
  BY <1>1 DEF TablesInv, ArgInv
<1>5. children' = [children EXCEPT ![p][k] = q] /\ children' = WithSlot(children, p, k, q)
  BY <1>1, <1>2, <1>3, <1>4 DEF WithSlot
<1>6. /\ \A r \in Procs : arg[r] # q
      /\ \A r \in Procs : \A i \in 1 .. NCHILD : children[r][i] # q
  <2>1. /\ \A r \in Procs : arg[r] # q
        /\ \A r \in Procs : \A i \in DOMAIN children[r] : children[r][i] # q
    BY <1>1, <1>2, Unreferenced
  <2>2. \A r \in Procs : DOMAIN children[r] = 1 .. NCHILD
    BY <1>3
  <2> QED BY <2>1, <2>2
<1>7. \A r \in Procs : stage'[r] = IF r = q THEN "user" ELSE stage[r]
  BY <1>1 DEF ProcTypeOK
<1>8. /\ sems[p] \in Rows(NSEM, Semaphores \cup {None})
      /\ files[p] \in Rows(NFILE, Files \cup {None})
  BY DEF ProcTypeOK, Rows
<1>9. ASSUME NEW o \in Objects
      PROVE  /\ IsFiniteSet(Places(sems, o)') /\ IsFiniteSet(Places(children, o)')
             /\ IsFiniteSet(Places(files, o)') /\ IsFiniteSet(Locals(o)')
             /\ refs'[o] = InSems(o)' + InChildren(o)' + InFiles(o)' + InLocals(o)' + Alive(o)'
             /\ refs'[o] \in Int
  <2>1. /\ IsFiniteSet(Places(sems, o)') /\ Cardinality(Slots(sems[p], o)) \in Nat
        /\ InSems(o)' = InSems(o) + Cardinality(Slots(sems[p], o))
    <3>1. PICK row \in Rows(NSEM, Semaphores \cup {None}) :
            sems' = WithRow(sems, q, row) /\ row = sems[p]
      BY <1>1, <1>8
    <3>2. /\ IsFiniteSet(Places(sems, o)') /\ InSems(o) \in Nat
          /\ InSems(o)' = InSems(o) - Cardinality(Slots(sems[q], o)) + Cardinality(Slots(row, o))
          /\ Cardinality(Slots(sems[q], o)) \in Nat /\ Cardinality(Slots(row, o)) \in Nat
      BY <3>1, SemsRow
    <3>3. Cardinality(Slots(sems[q], o)) = 0
      BY <1>2, <1>4, NoSlots
    <3> QED BY <3>1, <3>2, <3>3
  <2>2. /\ IsFiniteSet(Places(files, o)') /\ Cardinality(Slots(files[p], o)) \in Nat
        /\ InFiles(o)' = InFiles(o) + Cardinality(Slots(files[p], o))
    <3>1. PICK row \in Rows(NFILE, Files \cup {None}) :
            files' = WithRow(files, q, row) /\ row = files[p]
      BY <1>1, <1>8
    <3>2. /\ IsFiniteSet(Places(files, o)') /\ InFiles(o) \in Nat
          /\ InFiles(o)' = InFiles(o) - Cardinality(Slots(files[q], o)) + Cardinality(Slots(row, o))
          /\ Cardinality(Slots(files[q], o)) \in Nat /\ Cardinality(Slots(row, o)) \in Nat
      BY <3>1, FilesRow
    <3>3. Cardinality(Slots(files[q], o)) = 0
      BY <1>2, <1>4, NoSlots
    <3> QED BY <3>1, <3>2, <3>3
  <2>3. /\ IsFiniteSet(Places(children, o)')
        /\ InChildren(o)' =
             InChildren(o) - (IF children[p][k] = o THEN 1 ELSE 0) + (IF q = o THEN 1 ELSE 0)
    <3>1. children' = WithSlot(children, p, k, q) /\ k \in 1 .. NCHILD /\ q \in Procs \cup {None}
      BY <1>3, <1>5
    <3> QED BY <3>1, ChildrenSlot, SMT
  <2>4. children[p][k] # o
    BY <1>3, ProcessesAssumption DEF Objects
  <2>5. Locals(o)' = Locals(o) /\ InLocals(o)' = InLocals(o)
    <3>1. arg' = arg
      BY <1>1
    <3> QED BY <3>1, Untouched
  <2>6. Alive(o)' = Alive(o) + (IF o = q THEN 1 ELSE 0)
    BY <1>1, <1>7 DEF Alive
  <2>7. refs'[o] = refs[o] + (Cardinality(Slots(sems[p], o)) + Cardinality(Slots(files[p], o))
                              + (IF o = q THEN 2 ELSE 0))
    BY <1>1 DEF Count, Inherited
  <2>8. /\ InSems(o) \in Nat /\ InChildren(o) \in Nat /\ InFiles(o) \in Nat
        /\ InLocals(o) \in Nat /\ Alive(o) \in Nat
        /\ refs[o] = InSems(o) + InChildren(o) + InFiles(o) + InLocals(o) + Alive(o)
        /\ IsFiniteSet(Locals(o))
    BY Numbers
  <2> QED BY <2>1, <2>2, <2>3, <2>4, <2>5, <2>6, <2>7, <2>8
<1>10. RefsInv'
  BY <1>9 DEF RefsInv
<1>11. ProcTypeOK'
  <2>1. refs' \in [Objects -> Int]
    BY <1>1, <1>9
  <2>2. children' \in [Procs -> [1 .. NCHILD -> Procs \cup {None}]]
    BY <1>3, <1>5
  <2>3. /\ sems' \in [Procs -> [1 .. NSEM -> Semaphores \cup {None}]]
        /\ files' \in [Procs -> [1 .. NFILE -> Files \cup {None}]]
    BY <1>1 DEF ProcTypeOK
  <2>4. /\ stage' \in [Procs -> Stages] /\ arg' \in [Procs -> Owners \cup {None}]
    BY <1>1 DEF ProcTypeOK, Stages, Free
  <2>5. units' \in [Owners -> Nat] /\ queue' \in [Owners -> Seq(Procs)]
    BY <1>1, <1>2 DEF ProcTypeOK
  <2>6. isReady' \in [Procs -> BOOLEAN] /\ value' \in [Procs -> Nat] /\ rc' \in [Procs -> Statuses \cup {None}]
    BY <1>1 DEF ProcTypeOK
  <2> QED BY <2>1, <2>2, <2>3, <2>4, <2>5, <2>6 DEF ProcTypeOK
<1>12. /\ \A r \in Procs \ {q} : sems'[r] = sems[r] /\ files'[r] = files[r]
       /\ \A r \in Procs \ {p} : children'[r] = children[r]
       /\ \A i \in 1 .. NCHILD : children'[p][i] = IF i = k THEN q ELSE children[p][i]
  <2>1. \A r \in Procs \ {q} : sems'[r] = sems[r] /\ files'[r] = files[r]
    BY <1>1 DEF ProcTypeOK
  <2>2. \A r \in Procs \ {p} : children'[r] = children[r]
    BY <1>3, <1>5
  <2>3. \A i \in 1 .. NCHILD : children'[p][i] = IF i = k THEN q ELSE children[p][i]
    BY <1>3, <1>5
  <2> QED BY <2>1, <2>2, <2>3
<1>13. TablesInv'
  <2>1. ASSUME NEW r \in Procs
        PROVE  /\ stage'[r] = "unborn" => /\ sems'[r] = NoTable(NSEM)
                                          /\ children'[r] = NoTable(NCHILD)
                                          /\ files'[r] = NoTable(NFILE)
               /\ \A i, j \in 1 .. NCHILD :
                    children'[r][i] = children'[r][j] /\ children'[r][i] # None => i = j
    <3>1. stage'[r] = "unborn" => r # q /\ r # p /\ stage[r] = "unborn"
      BY <1>1, <1>2, <1>7
    <3>2. stage'[r] = "unborn" => /\ sems'[r] = NoTable(NSEM)
                                  /\ children'[r] = NoTable(NCHILD)
                                  /\ files'[r] = NoTable(NFILE)
      BY <1>12, <3>1 DEF TablesInv
    <3>3. \A i, j \in 1 .. NCHILD :
            children'[r][i] = children'[r][j] /\ children'[r][i] # None => i = j
      <4>1. CASE r = p
        BY <1>6, <1>12, <4>1 DEF TablesInv
      <4>2. CASE r # p
        BY <1>12, <4>2 DEF TablesInv
      <4> QED BY <4>1, <4>2
    <3> QED BY <3>2, <3>3
  <2> QED BY <2>1 DEF TablesInv
<1>14. ArgInv'
  <2>1. ASSUME NEW r \in Procs
        PROVE  /\ stage'[r] \in Free \cup {"unborn"} => arg'[r] = None
               /\ stage'[r] \in OnSemaphore => arg'[r] \in Semaphores
               /\ stage'[r] \in OnChild =>
                    arg'[r] \in Procs /\ \E i \in 1 .. NCHILD : children'[r][i] = arg'[r]
    <3>1. CASE r = p \/ r = q
      BY <1>1, <1>2, <1>4, <1>7, <3>1 DEF ArgInv, Free, OnSemaphore, OnChild
    <3>2. CASE r # p /\ r # q
      <4>1. stage'[r] = stage[r] /\ arg'[r] = arg[r] /\ children'[r] = children[r]
        BY <1>1, <1>7, <1>12, <3>2
      <4> QED BY <4>1 DEF ArgInv
    <3> QED BY <3>1, <3>2
  <2> QED BY <2>1 DEF ArgInv
<1>15. SleepInv'
  <2>1. NoRepeats(<< >>) /\ \A r : ~Contains(<< >>, r)
    BY DEF NoRepeats, Contains
  <2>2. \A s \in Owners : queue'[s] = IF s = q THEN << >> ELSE queue[s]
    BY <1>1 DEF ProcTypeOK
  <2>3. \A r \in Procs : arg'[r] = arg[r] /\ (stage'[r] \in Asleep <=> stage[r] \in Asleep)
    BY <1>1, <1>7 DEF Asleep
  <2> QED BY <1>6, <2>1, <2>2, <2>3 DEF SleepInv
<1>16. StatusInv'
  <2>1. \A r \in Procs : /\ isReady'[r] = IF r = q THEN FALSE ELSE isReady[r]
                         /\ units'[r] = IF r = q THEN 0 ELSE units[r]
                         /\ value'[r] = IF r = q THEN 0 ELSE value[r]
                         /\ rc'[r] = IF r = q THEN None ELSE rc[r]
    BY <1>1 DEF ProcTypeOK, Owners
  <2>2. ASSUME NEW r \in Procs, stage'[r] \in {"got", "return"}
        PROVE  rc'[arg'[r]] # None
    <3>1. stage[r] \in {"got", "return"} /\ r # q
      BY <1>7, <2>2
    <3>2. arg[r] \in Procs /\ rc[arg[r]] # None
      BY <3>1 DEF ArgInv, StatusInv, OnChild
    <3> QED BY <1>1, <1>6, <2>1, <3>2
  <2>3. ASSUME NEW r \in Procs
        PROVE  /\ rc'[r] # None => value'[r] = rc'[r]
               /\ isReady'[r] \/ units'[r] > 0 \/ stage'[r] \in {"setReady", "goUp"} => rc'[r] # None
    <3>1. CASE r = q
      <4>1. rc'[r] = None /\ ~isReady'[r]
        BY <2>1, <3>1
      <4>2. units'[r] = 0 /\ stage'[r] = "user"
        BY <1>7, <2>1, <3>1
      <4>3. ~(units'[r] > 0) /\ stage'[r] \notin {"setReady", "goUp"}
        BY <4>2
      <4> QED BY <4>1, <4>3
    <3>2. CASE r # q
      BY <1>7, <2>1, <3>2 DEF StatusInv
    <3> QED BY <3>1, <3>2
  <2> QED BY <2>2, <2>3 DEF StatusInv
<1> QED BY <1>10, <1>11, <1>13, <1>14, <1>15, <1>16
-----------------------------------------------------------------------------
(* The invariant and the theorems *)

LEMMA InitProcIInv == Init => ProcIInv
<1> SUFFICES ASSUME Init PROVE ProcIInv
  OBVIOUS
<1>1. /\ stage = [p \in Procs |-> IF p = First THEN "user" ELSE "unborn"]
      /\ arg = [p \in Procs |-> None]
      /\ sems = [p \in Procs |-> NoTable(NSEM)]
      /\ children = [p \in Procs |-> NoTable(NCHILD)]
      /\ files = [p \in Procs |-> NoTable(NFILE)]
      /\ refs = [o \in Objects |-> IF o = First THEN 1 ELSE 0]
      /\ units = [s \in Owners |-> 0] /\ queue = [s \in Owners |-> << >>]
      /\ isReady = [p \in Procs |-> FALSE] /\ value = [p \in Procs |-> 0]
      /\ rc = [p \in Procs |-> None]
  BY DEF Init, Owners
<1>2. ProcTypeOK
  <2>1. /\ stage \in [Procs -> Stages] /\ arg \in [Procs -> Owners \cup {None}]
        /\ refs \in [Objects -> Int]
    BY <1>1 DEF Stages, Free
  <2>2. /\ sems \in [Procs -> [1 .. NSEM -> Semaphores \cup {None}]]
        /\ children \in [Procs -> [1 .. NCHILD -> Procs \cup {None}]]
        /\ files \in [Procs -> [1 .. NFILE -> Files \cup {None}]]
    BY <1>1 DEF NoTable
  <2>3. /\ units \in [Owners -> Nat] /\ queue \in [Owners -> Seq(Procs)]
        /\ isReady \in [Procs -> BOOLEAN] /\ value \in [Procs -> Nat]
        /\ rc \in [Procs -> Statuses \cup {None}]
    BY <1>1
  <2> QED BY <2>1, <2>2, <2>3 DEF ProcTypeOK
<1>3. ArgInv
  BY <1>1 DEF ArgInv, OnSemaphore, OnChild
<1>4. TablesInv
  BY <1>1 DEF TablesInv, NoTable
<1>5. SleepInv
  <2>1. NoRepeats(<< >>) /\ \A r : ~Contains(<< >>, r)
    BY DEF NoRepeats, Contains
  <2> QED BY <1>1, <2>1 DEF SleepInv, Asleep
<1>6. RefsInv
  <2>1. ASSUME NEW o \in Objects
        PROVE  /\ IsFiniteSet(Places(sems, o)) /\ IsFiniteSet(Places(children, o))
               /\ IsFiniteSet(Places(files, o)) /\ IsFiniteSet(Locals(o))
               /\ refs[o] = InSems(o) + InChildren(o) + InFiles(o) + InLocals(o) + Alive(o)
    <3>1. o # None
      BY ProcessesAssumption DEF Objects
    <3>2. Places(sems, o) = {} /\ Places(children, o) = {} /\ Places(files, o) = {}
      BY <1>1, <3>1 DEF Places, Slots, NoTable
    <3>3. Locals(o) = {}
      BY <1>1, <3>1 DEF Locals
    <3>4. IsFiniteSet({}) /\ Cardinality({}) = 0
      BY FS_EmptySet
    <3>5. refs[o] = Alive(o) /\ Alive(o) \in Nat
      BY <1>1, ProcessesAssumption DEF Alive
    <3> QED BY <3>2, <3>3, <3>4, <3>5 DEF InSems, InChildren, InFiles, InLocals
  <2> QED BY <2>1 DEF RefsInv
<1>7. StatusInv
  <2>1. \A p \in Procs : /\ ~isReady[p] /\ ~(units[p] > 0) /\ rc[p] = None
                         /\ stage[p] \in {"user", "unborn"}
    BY <1>1 DEF Owners
  <2> QED BY <2>1 DEF StatusInv
<1> QED BY <1>2, <1>3, <1>4, <1>5, <1>6, <1>7 DEF ProcIInv

LEMMA StutterProcIInv == ProcIInv /\ UNCHANGED vars => ProcIInv'
<1> SUFFICES ASSUME ProcIInv, UNCHANGED vars PROVE ProcIInv'
  OBVIOUS
<1>0. UNCHANGED <<stage, arg, sems, children, files, refs, units, queue, isReady, value, rc>>
  BY DEF vars, tables, semaphores, future
<1> USE DEF ProcIInv
<1>1. ProcTypeOK' /\ ArgInv' /\ TablesInv' /\ SleepInv' /\ StatusInv'
  <2>1. ProcTypeOK'
    BY <1>0 DEF ProcTypeOK
  <2>2. ArgInv'
    BY <1>0 DEF ArgInv
  <2>3. TablesInv'
    BY <1>0 DEF TablesInv
  <2>4. SleepInv'
    BY <1>0 DEF SleepInv
  <2>5. StatusInv'
    BY <1>0 DEF StatusInv
  <2> QED BY <2>1, <2>2, <2>3, <2>4, <2>5
<1>2. RefsInv'
  <2>1. \A o : /\ Places(sems, o)' = Places(sems, o) /\ Places(children, o)' = Places(children, o)
               /\ Places(files, o)' = Places(files, o) /\ Locals(o)' = Locals(o)
               /\ Alive(o)' = Alive(o) /\ refs' = refs
    BY <1>0 DEF Places, Locals, Alive
  <2> QED BY <2>1 DEF RefsInv, InSems, InChildren, InFiles, InLocals
<1> QED BY <1>1, <1>2

LEMMA NextProcIInv == ProcIInv /\ [Next]_vars => ProcIInv'
<1> SUFFICES ASSUME ProcIInv, [Next]_vars PROVE ProcIInv'
  OBVIOUS
<1>1. CASE UNCHANGED vars
  BY <1>1, StutterProcIInv
<1>2. ASSUME NEW p \in Procs, InKernel(p) PROVE ProcIInv'
  <2>1. CASE SysDownReturn(p)
    BY <2>1, SysDownReturnIInv
  <2>2. CASE SetReady(p)
    BY <2>2, SetIInv
  <2>3. CASE GoUp(p) \/ PassOn(p)
    BY <2>3, UpIInv
  <2>4. CASE Reap(p)
    BY <2>4, ReapIInv
  <2>5. CASE GoDown(p)
    BY <2>5, GoDownIInv
  <2>6. CASE WaitReturn(p)
    BY <2>6, WaitReturnIInv
  <2> QED BY <1>2, <2>1, <2>2, <2>3, <2>4, <2>5, <2>6 DEF InKernel
<1>3. ASSUME NEW p \in Procs, SystemCall(p) PROVE ProcIInv'
  <2>1. CASE \E s \in Semaphores, initial \in Initials : NewSemaphore(p, s, initial)
    BY <2>1, NewSemaphoreIInv
  <2>2. CASE \E i \in 1 .. NSEM : SysUp(p, i)
    BY <2>2, UpIInv
  <2>3. CASE \E i \in 1 .. NSEM : SysDown(p, i)
    BY <2>3, SysDownIInv
  <2>4. CASE \E f \in Files : Open(p, f)
    BY <2>4, OpenIInv
  <2>5. CASE Close(p)
    BY <2>5, CloseIInv
  <2>6. CASE Exec(p)
    BY <2>6, ExecIInv
  <2>7. CASE \E q \in Procs : Fork(p, q)
    BY <2>7, ForkIInv
  <2>8. CASE \E status \in Statuses : SetValue(p, status)
    BY <2>8, SetIInv
  <2>9. CASE \E i \in 1 .. NCHILD : Wait(p, i)
    BY <2>9, WaitIInv
  <2> QED BY <1>3, <2>1, <2>2, <2>3, <2>4, <2>5, <2>6, <2>7, <2>8, <2>9 DEF SystemCall
<1> QED BY <1>1, <1>2, <1>3 DEF Next

LEMMA ProcessesSafe == Spec => []ProcIInv
<1>1. Init => ProcIInv
  BY InitProcIInv
<1>2. ProcIInv /\ [Next]_vars => ProcIInv'
  BY NextProcIInv
<1> QED BY <1>1, <1>2, PTL DEF Spec

\* A process that sleeps holds a reference, in a local, to what it sleeps in.
LEMMA SleepersHold == ProcIInv => RefsExact
<1> SUFFICES ASSUME ProcIInv PROVE RefsExact
  OBVIOUS
<1> USE DEF ProcIInv
<1>1. ASSUME NEW o \in Objects PROVE refs[o] = References(o)
  BY DEF RefsInv, References, InSems, InChildren, InFiles, InLocals, Alive
<1>2. ASSUME NEW s \in Owners, queue[s] # << >> PROVE refs[s] > 0
  <2>1. queue[s] \in Seq(Procs) /\ s \in Objects
    BY DEF ProcTypeOK, Owners, Objects
  <2>2. PICK p \in Procs : Contains(queue[s], p)
    BY <1>2, <2>1, TailContains DEF SleepInv
  <2>3. p \in Locals(s)
    BY <2>2 DEF SleepInv, Locals
  <2>4. IsFiniteSet(Locals(s)) /\ InLocals(s) \in Nat /\ InLocals(s) # 0
    <3>1. IsFiniteSet(Locals(s))
      BY <2>1 DEF RefsInv
    <3>2. Cardinality(Locals(s)) \in Nat /\ (Cardinality(Locals(s)) = 0 <=> Locals(s) = {})
      BY <3>1, FS_CardinalityType, FS_EmptySet
    <3> QED BY <2>3, <3>1, <3>2 DEF InLocals
  <2>5. /\ InSems(s) \in Nat /\ InChildren(s) \in Nat /\ InFiles(s) \in Nat /\ Alive(s) \in Nat
        /\ refs[s] = InSems(s) + InChildren(s) + InFiles(s) + InLocals(s) + Alive(s)
    BY <2>1, Numbers
  <2> QED BY <2>4, <2>5
<1> QED BY <1>1, <1>2 DEF RefsExact, Owners

(* ref_count (kernel/shared.h) is at all times the number of references    *)
(* that tables, system calls and living processes hold, and a semaphore or *)
(* future that a process sleeps in is referred to (kernel/sys.cc).         *)
THEOREM ReferencesCounted == Spec => []RefsExact
<1> QED BY ProcessesSafe, SleepersHold, PTL

(* wait() (kernel/sys.cc) returns only after the child has called exit(),  *)
(* and what it stores is what the child passed to Future::set().           *)
THEOREM WaitDelivers == Spec => []WaitGetsStatus
<1>1. ProcIInv => WaitGetsStatus
  <2> SUFFICES ASSUME ProcIInv, NEW p \in Procs, stage[p] = "return"
               PROVE  rc[arg[p]] # None /\ value[arg[p]] = rc[arg[p]]
    BY DEF WaitGetsStatus
  <2>1. arg[p] \in Procs /\ rc[arg[p]] # None
    BY DEF ProcIInv, ArgInv, StatusInv, OnChild
  <2> QED BY <2>1 DEF ProcIInv, StatusInv
<1> QED BY <1>1, ProcessesSafe, PTL

=============================================================================
