---------------------------- MODULE MemoryProofs ----------------------------
(***************************************************************************)
(* For any number of cores, processes, frames and entries of a table: that *)
(* every frame has one use, that no TLB is ever stale, and that memory is  *)
(* private.                                                                *)
(*                                                                         *)
(* Every frame gets a role: unused, free, a directory, a table or a page,  *)
(* with the frame and the entry that lead to it, or its place in the list  *)
(* of alloc_frame().  A memory p is good with roles w if each role is what *)
(* the words of the frames say.  Each operation of kernel/physmem.cc and   *)
(* kernel/vmm.cc is shown to keep p good with some roles and to change one *)
(* address space only; the loops follow by induction over their rounds.    *)
(* In between, a frame may be "held": taken out of one place and not yet   *)
(* put into another.  The invariant says that roles exist of which the     *)
(* directories are those of the processes, and counts the references to a  *)
(* process.                                                                *)
(*                                                                         *)
(* And for a heap of any length: that its structure stays intact and its   *)
(* blocks keep their contents.  Its invariant says that a set B of headers *)
(* exists that tile the array, and a list L of the available ones with an  *)
(* order that every link lowers, so that the list ends; what is written    *)
(* into blocks stays between headers and footers.                          *)
(***************************************************************************)
EXTENDS MCMemory, WellFoundedInduction, FiniteSetTheorems, TLAPS

\* What is assumed of the constants, in plain facts.
LEMMA Parameters ==
  /\ Kernel \in Procs /\ NoProc \notin Procs /\ "kernel_thread" \notin Procs
  /\ Frames \in Nat /\ Frames >= 2 /\ Slots \in Nat /\ Slots >= 1 /\ Words \subseteq Nat
  /\ Touched \subseteq Addresses /\ <<Slots, 1>> \notin Touched
<1>1. Touched \subseteq Addresses /\ <<Slots, 1>> \notin Touched
  BY AddressSpacesAssumption, Zenon DEF Addresses
<1>2. /\ Kernel \in Procs /\ NoProc \notin Procs /\ "kernel_thread" \notin Procs
      /\ Frames \in Nat \ {0, 1} /\ Slots \in Nat \ {0} /\ Words \subseteq Nat
  BY AddressSpacesAssumption, Zenon
<1> QED BY <1>1, <1>2

-----------------------------------------------------------------------------
(* Memories, roles, and when they fit. *)

Frame == 1 .. Frames
Slot == 1 .. Slots
Page == [Slot -> Nat]
Phys == [mem : [Frame -> Page], firstFree : Nat, avail : Nat]

\* up[f] is the table of a page or the directory of a table, and at[f] the entry;
\* at[f] of a free frame is how many links are left from it on, n the first of them.
Kinds == {"unused", "free", "held", "dir", "table", "page"}
Roles == [kind : [Frame -> Kinds], up : [Frame -> Nat], at : [Frame -> Nat], n : Nat]

LEMMA KindsAre ==
  "held" \in Kinds /\ "free" \in Kinds /\ "dir" \in Kinds /\ "table" \in Kinds /\ "page" \in Kinds
BY DEF Kinds

Free(w) == {f \in Frame : w.kind[f] = "free"}

\* The frames from avail on were never used.
UnusedOK(p, w) == /\ p.avail \in 1 .. Frames + 1
                  /\ \A f \in Frame : w.kind[f] = "unused" <=> f >= p.avail

\* The links from firstFree on pass the free frames, each once.
ListOK(p, w) ==
  /\ w.n = Cardinality(Free(w))
  /\ IF w.n = 0 THEN p.firstFree = 0
     ELSE p.firstFree \in Frame /\ w.kind[p.firstFree] = "free" /\ w.at[p.firstFree] = w.n
  /\ \A f \in Frame : w.kind[f] = "free" =>
       /\ w.at[f] \in 1 .. w.n
       /\ IF w.at[f] = 1 THEN p.mem[f][1] = 0
          ELSE /\ p.mem[f][1] \in Frame /\ w.kind[p.mem[f][1]] = "free"
               /\ w.at[p.mem[f][1]] = w.at[f] - 1
  /\ \A f, g \in Frame : w.kind[f] = "free" /\ w.kind[g] = "free" /\ w.at[f] = w.at[g] => f = g

\* The page of the interrupt controllers.
IsApic(i, j) == i = Slots /\ j = 1

\* is_special() in terms of the two indices.
LEMMA SpecialPage == \A i, j : <<i, j>> \in Special <=> IsApic(i, j)
BY DEF Special, IsApic

\* What a directory leads to are its tables, what a table leads to its pages, and there
\* are no others.
DirsOK(p, w) == \A d \in Frame : w.kind[d] = "dir" => \A i \in Slot : p.mem[d][i] # 0 =>
  /\ p.mem[d][i] \in Frame /\ w.kind[p.mem[d][i]] = "table"
  /\ w.up[p.mem[d][i]] = d /\ w.at[p.mem[d][i]] = i

TablesOK(p, w) == \A t \in Frame : w.kind[t] = "table" =>
  /\ w.up[t] \in Frame /\ w.kind[w.up[t]] = "dir"
  /\ w.at[t] \in Slot /\ p.mem[w.up[t]][w.at[t]] = t
  /\ \A j \in Slot : IsApic(w.at[t], j) => p.mem[t][j] = Apic
  /\ \A j \in Slot : ~IsApic(w.at[t], j) /\ p.mem[t][j] # 0 =>
       /\ p.mem[t][j] \in Frame /\ w.kind[p.mem[t][j]] = "page"
       /\ w.up[p.mem[t][j]] = t /\ w.at[p.mem[t][j]] = j

PagesOK(p, w) == \A g \in Frame : w.kind[g] = "page" =>
  /\ w.up[g] \in Frame /\ w.kind[w.up[g]] = "table"
  /\ w.at[g] \in Slot /\ p.mem[w.up[g]][w.at[g]] = g
  /\ ~IsApic(w.at[w.up[g]], w.at[g])

Good(p, w) == /\ p \in Phys /\ w \in Roles
              /\ UnusedOK(p, w) /\ ListOK(p, w) /\ DirsOK(p, w) /\ TablesOK(p, w) /\ PagesOK(p, w)

\* The types that a good memory has.
LEMMA GoodTypes ==
  ASSUME NEW p, NEW w, Good(p, w)
  PROVE  /\ p \in Phys /\ w \in Roles
         /\ w.n \in Nat /\ w.n + 1 \in Nat /\ p.firstFree \in Nat
         /\ p.avail \in Nat /\ p.avail \in 1 .. Frames + 1
         /\ \A g \in Frame : g \in Nat /\ g # 0 /\ w.at[g] \in Nat /\ w.up[g] \in Nat
BY Parameters DEF Good, UnusedOK, Roles, Phys, Frame

\* The directory that frame f belongs to, 0 for none.
Root(w, f) == IF w.kind[f] = "dir" THEN f ELSE
              IF w.kind[f] = "table" THEN w.up[f] ELSE
              IF w.kind[f] = "page" THEN w.up[w.up[f]] ELSE 0

\* Between p and q nothing but the address space with directory d and frames that
\* belong to none have changed.
Others(p, w, q, v, d) == \A f \in Frame :
  /\ Root(v, f) \notin {0, d} => Root(w, f) = Root(v, f)
  /\ Root(w, f) \notin {0, d} => /\ v.kind[f] = w.kind[f] /\ v.up[f] = w.up[f] /\ v.at[f] = w.at[f]
                                 /\ q.mem[f] = p.mem[f] /\ Root(v, f) = Root(w, f)

\* Frame f gets kind k, at entry a of u.
Put(w, f, k, u, a) == [w EXCEPT !.kind[f] = k, !.up[f] = u, !.at[f] = a]

\* There are finitely many free frames.
LEMMA FreeCount ==
  ASSUME NEW w \in Roles
  PROVE  /\ IsFiniteSet(Free(w)) /\ Cardinality(Free(w)) \in 0 .. Frames
         /\ Cardinality(Free(w)) = 0 <=> Free(w) = {}
<1>1. IsFiniteSet(Frame) /\ Cardinality(Frame) = Frames
  <2>1. 1 \in Int /\ Frames \in Int /\ ~(1 > Frames) /\ Frames - 1 + 1 = Frames
    BY Parameters
  <2> QED BY <2>1, FS_Interval DEF Frame
<1>2. Free(w) \subseteq Frame
  BY DEF Free
<1>3. IsFiniteSet(Free(w)) /\ Cardinality(Free(w)) <= Cardinality(Frame)
  BY <1>1, <1>2, FS_Subset
<1>4. Cardinality(Free(w)) \in Nat /\ (Cardinality(Free(w)) = 0 <=> Free(w) = {})
  BY <1>3, FS_CardinalityType, FS_EmptySet
<1> QED BY <1>1, <1>3, <1>4, Parameters

\* A frame becomes free.
LEMMA Freeing ==
  ASSUME NEW w \in Roles, NEW v \in Roles, NEW f \in Frame, w.kind[f] # "free",
         v.kind = [w.kind EXCEPT ![f] = "free"]
  PROVE  Cardinality(Free(v)) = Cardinality(Free(w)) + 1
<1>1. Free(v) = Free(w) \cup {f} /\ f \notin Free(w)
  BY DEF Free, Roles
<1> QED BY <1>1, FreeCount, FS_AddElement

\* A frame stops being free.
LEMMA Taking ==
  ASSUME NEW w \in Roles, NEW v \in Roles, NEW f \in Frame, w.kind[f] = "free",
         NEW k, k # "free", v.kind = [w.kind EXCEPT ![f] = k]
  PROVE  Cardinality(Free(v)) = Cardinality(Free(w)) - 1
<1>1. Free(v) = Free(w) \ {f} /\ f \in Free(w)
  BY DEF Free, Roles
<1> HIDE DEF Free
<1> QED BY <1>1, FreeCount, FS_RemoveElement

\* A change of roles that concerns no free frame.
LEMMA Retagging ==
  ASSUME NEW w \in Roles, NEW v \in Roles,
         \A f \in Frame : v.kind[f] = "free" <=> w.kind[f] = "free"
  PROVE  Free(v) = Free(w)
BY DEF Free

\* One frame gets another role.
LEMMA PutType ==
  ASSUME NEW w \in Roles, NEW f \in Frame, NEW k \in Kinds, NEW u \in Nat, NEW a \in Nat
  PROVE  LET v == Put(w, f, k, u, a) IN
         /\ v \in Roles /\ v.n = w.n /\ v.kind[f] = k /\ v.up[f] = u /\ v.at[f] = a
         /\ \A g \in Frame : g # f => v.kind[g] = w.kind[g] /\ v.up[g] = w.up[g] /\ v.at[g] = w.at[g]
BY DEF Put, Roles

-----------------------------------------------------------------------------
(* What the allocator does to the roles. *)

\* How often alloc_frame() can be called.
Budget(p, w) == w.n + Frames + 1 - p.avail

\* What alloc_frame() reads and writes.
LEMMA AllocEffect ==
  ASSUME NEW p, NEW w, Good(p, w), Budget(p, w) >= 1
  PROVE  LET f == NextFrame(p)
             q == AllocFrame(p)
         IN  /\ f \in Frame /\ w.kind[f] \in {"free", "unused"}
             /\ q \in Phys
             /\ q.mem[f] = Empty /\ \A g \in Frame : g # f => q.mem[g] = p.mem[g]
             /\ \/ /\ w.kind[f] = "free" /\ w.n >= 1 /\ p.firstFree = f
                   /\ q.firstFree = p.mem[f][1] /\ q.avail = p.avail
                \/ /\ w.kind[f] = "unused" /\ w.n = 0 /\ p.firstFree = 0 /\ f = p.avail
                   /\ q.firstFree = 0 /\ q.avail = p.avail + 1
<1>1. p \in Phys /\ w \in Roles /\ 1 \in Slot /\ Empty \in Page
  BY Parameters DEF Good, Slot, Empty, Page
<1>2. w.n \in Nat /\ p.avail \in Nat /\ p.firstFree \in Nat
  BY <1>1 DEF Roles, Phys
<1>3. CASE p.firstFree # 0
  <2>1. p.firstFree \in Frame /\ w.kind[p.firstFree] = "free" /\ w.n >= 1
    BY <1>2, <1>3 DEF Good, ListOK
  <2>2. p.mem[p.firstFree][1] \in Nat
    BY <1>1, <2>1 DEF Phys, Page
  <2> QED BY <1>1, <1>3, <2>1, <2>2 DEF AllocFrame, NextFrame, Phys
<1>4. CASE p.firstFree = 0
  <2>1. w.n = 0
    BY <1>2, <1>4, Parameters DEF Good, ListOK, Frame
  <2>2. p.avail \in Frame
    BY <1>2, <2>1, Parameters DEF Good, UnusedOK, Budget, Frame
  <2>3. w.kind[p.avail] = "unused"
    BY <1>2, <2>2 DEF Good, UnusedOK
  <2>4. /\ NextFrame(p) = p.avail
        /\ AllocFrame(p) = [p EXCEPT !.avail = p.avail + 1, !.mem[p.avail] = Empty]
    BY <1>4 DEF NextFrame, AllocFrame
  <2>5. p.avail + 1 \in Nat
    BY <1>2
  <2>6. /\ AllocFrame(p) \in Phys /\ AllocFrame(p).firstFree = p.firstFree
        /\ AllocFrame(p).avail = p.avail + 1 /\ AllocFrame(p).mem = [p.mem EXCEPT ![p.avail] = Empty]
    <3> DEFINE m == [p.mem EXCEPT ![p.avail] = Empty]
    <3>1. m \in [Frame -> Page]
      BY <1>1, <2>2 DEF Phys
    <3> HIDE DEF m
    <3>2. AllocFrame(p) = [mem |-> m, firstFree |-> p.firstFree, avail |-> p.avail + 1]
      BY <1>1, <2>4 DEF Phys, m
    <3> QED BY <1>2, <2>5, <3>1, <3>2 DEF Phys, m
  <2>7. /\ AllocFrame(p).mem[p.avail] = Empty
        /\ \A g \in Frame : g # p.avail => AllocFrame(p).mem[g] = p.mem[g]
    BY <1>1, <2>2, <2>6 DEF Phys
  <2> QED BY <1>4, <2>1, <2>2, <2>3, <2>4, <2>6, <2>7
<1> QED BY <1>3, <1>4

\* The roles after alloc_frame().
Held(p, w, f) == [w EXCEPT !.kind[f] = "held", !.n = IF p.firstFree # 0 THEN @ - 1 ELSE @]

\* alloc_frame() takes a frame that nobody uses, if there is one, and returns it empty.
LEMMA Alloc ==
  ASSUME NEW p, NEW w, Good(p, w), Budget(p, w) >= 1
  PROVE  LET f == NextFrame(p)
             q == AllocFrame(p)
             v == Held(p, w, f)
         IN  /\ f \in Frame /\ w.kind[f] \in {"free", "unused"}
             /\ Good(q, v) /\ Budget(q, v) = Budget(p, w) - 1
             /\ v.kind[f] = "held" /\ v.up = w.up /\ v.at = w.at
             /\ \A g \in Frame : g # f => v.kind[g] = w.kind[g]
             /\ q.mem[f] = Empty /\ \A g \in Frame : g # f => q.mem[g] = p.mem[g]
<1> DEFINE f == NextFrame(p)
           q == AllocFrame(p)
           v == Held(p, w, f)
<1>1. p \in Phys /\ w \in Roles /\ UnusedOK(p, w) /\ ListOK(p, w) /\ DirsOK(p, w)
      /\ TablesOK(p, w) /\ PagesOK(p, w)
  BY DEF Good
<1>2. /\ f \in Frame /\ w.kind[f] \in {"free", "unused"}
      /\ q \in Phys
      /\ q.mem[f] = Empty /\ \A g \in Frame : g # f => q.mem[g] = p.mem[g]
      /\ \/ /\ w.kind[f] = "free" /\ w.n >= 1 /\ p.firstFree = f
            /\ q.firstFree = p.mem[f][1] /\ q.avail = p.avail
         \/ /\ w.kind[f] = "unused" /\ w.n = 0 /\ p.firstFree = 0 /\ f = p.avail
            /\ q.firstFree = 0 /\ q.avail = p.avail + 1
  BY AllocEffect
<1> HIDE DEF f, q
<1>3. /\ w.n \in Nat /\ p.avail \in Nat /\ p.avail \in 1 .. Frames + 1
      /\ \A g \in Frame : g \in Nat /\ g # 0 /\ w.at[g] \in Nat /\ w.up[g] \in Nat
  BY <1>1, Parameters DEF Roles, UnusedOK, Frame
<1>4. /\ v \in Roles /\ v.kind = [w.kind EXCEPT ![f] = "held"] /\ v.up = w.up /\ v.at = w.at
      /\ v.n = IF w.kind[f] = "free" THEN w.n - 1 ELSE w.n
  <2>1. w.n - 1 \in Nat \/ w.kind[f] # "free"
    BY <1>2, <1>3
  <2>2. p.firstFree # 0 <=> w.kind[f] = "free"
    BY <1>2, <1>3
  <2> QED BY <1>1, <1>2, <1>3, <2>1, <2>2 DEF Held, Roles, Kinds
<1> HIDE DEF v
<1>5. v.kind[f] = "held" /\ \A g \in Frame : g # f => v.kind[g] = w.kind[g]
  BY <1>1, <1>2, <1>4 DEF Roles
<1>6. UnusedOK(q, v)
  BY <1>1, <1>2, <1>3, <1>5, Parameters DEF UnusedOK, Frame
<1>7. ListOK(q, v)
  <2>1. v.n = Cardinality(Free(v))
    <3>1. CASE w.kind[f] = "free"
      BY <1>1, <1>2, <1>4, <3>1, Taking DEF ListOK
    <3>2. CASE w.kind[f] = "unused"
      <4>1. Free(v) = Free(w)
        BY <1>1, <1>4, <1>5, <3>2, Retagging
      <4> QED BY <1>1, <1>4, <3>2, <4>1 DEF ListOK
    <3> QED BY <1>2, <3>1, <3>2
  <2>2. CASE w.kind[f] = "unused"
    <3>1. v.n = 0 /\ \A g \in Frame : w.kind[g] # "free" /\ v.kind[g] # "free"
      <4>1. \A g \in Frame : w.at[g] \in 1 .. w.n => FALSE
        BY <1>2, <1>3, <2>2
      <4> QED BY <1>1, <1>2, <1>4, <1>5, <2>2, <4>1 DEF ListOK
    <3> QED BY <1>2, <2>1, <2>2, <3>1 DEF ListOK
  <2>3. CASE w.kind[f] = "free"
    <3>1. w.at[f] = w.n /\ v.n = w.n - 1 /\ p.firstFree = f /\ q.firstFree = p.mem[f][1]
      BY <1>1, <1>2, <1>3, <1>4, <2>3 DEF ListOK
    <3>2. \A g \in Frame : v.kind[g] = "free" => w.kind[g] = "free" /\ g # f
      BY <1>5
    <3>3. \A g \in Frame : v.kind[g] = "free" => w.at[g] \in 1 .. w.n /\ w.at[g] # w.n
      BY <1>1, <1>2, <2>3, <3>1, <3>2 DEF ListOK
    <3>4. IF v.n = 0 THEN q.firstFree = 0
          ELSE q.firstFree \in Frame /\ v.kind[q.firstFree] = "free" /\ v.at[q.firstFree] = v.n
      <4>1. CASE w.n = 1
        BY <1>1, <1>2, <2>3, <3>1, <4>1 DEF ListOK
      <4>2. CASE w.n # 1
        <5>1. /\ q.firstFree \in Frame /\ w.kind[q.firstFree] = "free"
              /\ w.at[q.firstFree] = w.n - 1
          BY <1>1, <1>2, <2>3, <3>1, <4>2 DEF ListOK
        <5>2. q.firstFree # f
          BY <1>3, <3>1, <5>1
        <5> QED BY <1>3, <1>4, <1>5, <3>1, <4>2, <5>1, <5>2
      <4> QED BY <4>1, <4>2
    <3>5. ASSUME NEW g \in Frame, v.kind[g] = "free"
          PROVE /\ v.at[g] \in 1 .. v.n
                /\ IF v.at[g] = 1 THEN q.mem[g][1] = 0
                   ELSE /\ q.mem[g][1] \in Frame /\ v.kind[q.mem[g][1]] = "free"
                        /\ v.at[q.mem[g][1]] = v.at[g] - 1
      <4>1. v.at[g] \in 1 .. v.n /\ v.at[g] = w.at[g]
        BY <1>3, <1>4, <3>1, <3>3, <3>5
      <4>2. q.mem[g] = p.mem[g] /\ w.kind[g] = "free"
        BY <1>2, <3>2, <3>5
      <4>3. CASE v.at[g] # 1
        <5>1. /\ p.mem[g][1] \in Frame /\ w.kind[p.mem[g][1]] = "free"
              /\ w.at[p.mem[g][1]] = w.at[g] - 1
          BY <1>1, <4>1, <4>2, <4>3 DEF ListOK
        <5>2. p.mem[g][1] # f
          BY <1>3, <3>1, <4>1, <5>1
        <5> QED BY <1>4, <1>5, <4>1, <4>2, <4>3, <5>1, <5>2
      <4>4. CASE v.at[g] = 1
        BY <1>1, <4>1, <4>2, <4>4 DEF ListOK
      <4> QED BY <4>1, <4>3, <4>4
    <3>6. \A g, h \in Frame : v.kind[g] = "free" /\ v.kind[h] = "free" /\ v.at[g] = v.at[h] => g = h
      BY <1>1, <1>4, <3>2 DEF ListOK
    <3> QED BY <2>1, <3>4, <3>5, <3>6 DEF ListOK
  <2> QED BY <1>2, <2>2, <2>3
<1>8. DirsOK(q, v)
  <2> SUFFICES ASSUME NEW d \in Frame, v.kind[d] = "dir", NEW i \in Slot, q.mem[d][i] # 0
      PROVE /\ q.mem[d][i] \in Frame /\ v.kind[q.mem[d][i]] = "table"
            /\ v.up[q.mem[d][i]] = d /\ v.at[q.mem[d][i]] = i
    BY DEF DirsOK
  <2>1. w.kind[d] = "dir" /\ q.mem[d] = p.mem[d]
    BY <1>2, <1>5
  <2>2. /\ p.mem[d][i] \in Frame /\ w.kind[p.mem[d][i]] = "table"
        /\ w.up[p.mem[d][i]] = d /\ w.at[p.mem[d][i]] = i
    BY <1>1, <2>1 DEF DirsOK
  <2> QED BY <1>2, <1>4, <1>5, <2>1, <2>2
<1>9. TablesOK(q, v)
  <2> SUFFICES ASSUME NEW t \in Frame, v.kind[t] = "table"
      PROVE /\ v.up[t] \in Frame /\ v.kind[v.up[t]] = "dir"
            /\ v.at[t] \in Slot /\ q.mem[v.up[t]][v.at[t]] = t
            /\ \A j \in Slot : IsApic(v.at[t], j) => q.mem[t][j] = Apic
            /\ \A j \in Slot : ~IsApic(v.at[t], j) /\ q.mem[t][j] # 0 =>
                 /\ q.mem[t][j] \in Frame /\ v.kind[q.mem[t][j]] = "page"
                 /\ v.up[q.mem[t][j]] = t /\ v.at[q.mem[t][j]] = j
    BY DEF TablesOK
  <2>1. w.kind[t] = "table" /\ q.mem[t] = p.mem[t]
    BY <1>2, <1>5
  <2>2. /\ w.up[t] \in Frame /\ w.kind[w.up[t]] = "dir" /\ w.at[t] \in Slot
             /\ p.mem[w.up[t]][w.at[t]] = t
        /\ \A j \in Slot : IsApic(w.at[t], j) => p.mem[t][j] = Apic
        /\ \A j \in Slot : ~IsApic(w.at[t], j) /\ p.mem[t][j] # 0 =>
             /\ p.mem[t][j] \in Frame /\ w.kind[p.mem[t][j]] = "page"
             /\ w.up[p.mem[t][j]] = t /\ w.at[p.mem[t][j]] = j
    BY <1>1, <2>1 DEF TablesOK
  <2> QED BY <1>2, <1>4, <1>5, <2>1, <2>2
<1>10. PagesOK(q, v)
  <2> SUFFICES ASSUME NEW g \in Frame, v.kind[g] = "page"
      PROVE /\ v.up[g] \in Frame /\ v.kind[v.up[g]] = "table"
            /\ v.at[g] \in Slot /\ q.mem[v.up[g]][v.at[g]] = g
            /\ ~IsApic(v.at[v.up[g]], v.at[g])
    BY DEF PagesOK
  <2>1. w.kind[g] = "page"
    BY <1>2, <1>5
  <2>2. /\ w.up[g] \in Frame /\ w.kind[w.up[g]] = "table"
        /\ w.at[g] \in Slot /\ p.mem[w.up[g]][w.at[g]] = g
        /\ ~IsApic(w.at[w.up[g]], w.at[g])
    BY <1>1, <2>1 DEF PagesOK
  <2> QED BY <1>2, <1>4, <1>5, <2>1, <2>2
<1>11. Good(q, v)
  BY <1>2, <1>4, <1>6, <1>7, <1>8, <1>9, <1>10 DEF Good
<1>12. Budget(q, v) = Budget(p, w) - 1
  BY <1>2, <1>3, <1>4, Parameters DEF Budget
<1> QED BY <1>2, <1>4, <1>5, <1>11, <1>12 DEF f, q, v

\* The roles after dealloc_frame(f).
Freed(w, f) == [w EXCEPT !.kind[f] = "free", !.at[f] = w.n + 1, !.n = @ + 1]

\* dealloc_frame() of a frame that is nowhere else.
LEMMA Dealloc ==
  ASSUME NEW p, NEW w, Good(p, w), NEW f \in Frame, w.kind[f] = "held"
  PROVE  LET q == DeallocFrame(p, f)
             v == Freed(w, f)
         IN  /\ Good(q, v) /\ Budget(q, v) = Budget(p, w) + 1 /\ v.kind[f] = "free" /\ v.up = w.up
             /\ \A g \in Frame : g # f => /\ q.mem[g] = p.mem[g]
                                          /\ v.kind[g] = w.kind[g] /\ v.at[g] = w.at[g]
<1> DEFINE q == DeallocFrame(p, f)
           v == Freed(w, f)
<1>1. p \in Phys /\ w \in Roles /\ UnusedOK(p, w) /\ ListOK(p, w) /\ DirsOK(p, w)
      /\ TablesOK(p, w) /\ PagesOK(p, w)
  BY DEF Good
<1>2. /\ w.n \in Nat /\ p.firstFree \in Nat /\ p.avail \in Nat
      /\ \A g \in Frame : g \in Nat /\ g # 0 /\ w.at[g] \in Nat /\ w.up[g] \in Nat
  BY GoodTypes
<1>3. /\ q \in Phys /\ q.firstFree = f /\ q.avail = p.avail
      /\ q.mem[f][1] = p.firstFree /\ \A g \in Frame : g # f => q.mem[g] = p.mem[g]
  <2>1. 1 \in Slot /\ [Empty EXCEPT ![1] = p.firstFree] \in Page
        /\ [Empty EXCEPT ![1] = p.firstFree][1] = p.firstFree
    BY <1>2, Parameters DEF Slot, Empty, Page
  <2> DEFINE m == [Empty EXCEPT ![1] = p.firstFree]
  <2> HIDE DEF m
  <2>2. q = [p EXCEPT !.mem[f] = m, !.firstFree = f]
    BY DEF DeallocFrame, m
  <2>3. m \in Page /\ m[1] = p.firstFree
    BY <2>1 DEF m
  <2> QED BY <1>1, <1>2, <2>2, <2>3 DEF Phys
<1> HIDE DEF q
<1>4. /\ v \in Roles /\ v.kind = [w.kind EXCEPT ![f] = "free"] /\ v.up = w.up
      /\ v.at = [w.at EXCEPT ![f] = w.n + 1] /\ v.n = w.n + 1
  <2>1. /\ [w.kind EXCEPT ![f] = "free"] \in [Frame -> Kinds]
        /\ [w.at EXCEPT ![f] = w.n + 1] \in [Frame -> Nat]
    BY <1>1, GoodTypes DEF Roles, Kinds
  <2>2. v = [w EXCEPT !.kind = [w.kind EXCEPT ![f] = "free"], !.at = [w.at EXCEPT ![f] = w.n + 1],
                      !.n = w.n + 1]
    BY DEF Freed
  <2> QED BY <1>1, <2>1, <2>2, GoodTypes DEF Roles
<1> HIDE DEF v
<1>5. /\ v.kind[f] = "free" /\ v.at[f] = w.n + 1
      /\ \A g \in Frame : g # f => v.kind[g] = w.kind[g] /\ v.at[g] = w.at[g]
  BY <1>1, <1>4 DEF Roles
<1>6. UnusedOK(q, v)
  BY <1>1, <1>3, <1>5 DEF UnusedOK
<1>7. ListOK(q, v)
  <2>1. v.n = Cardinality(Free(v))
    BY <1>1, <1>4, Freeing DEF ListOK
  <2>2. q.firstFree \in Frame /\ v.kind[q.firstFree] = "free" /\ v.at[q.firstFree] = v.n /\ v.n # 0
    BY <1>2, <1>3, <1>4, <1>5
  <2>3. \A g \in Frame : v.kind[g] = "free" /\ g # f =>
          w.kind[g] = "free" /\ w.at[g] \in 1 .. w.n /\ v.at[g] = w.at[g]
    BY <1>1, <1>5 DEF ListOK
  <2>4. ASSUME NEW g \in Frame, v.kind[g] = "free"
        PROVE /\ v.at[g] \in 1 .. v.n
              /\ IF v.at[g] = 1 THEN q.mem[g][1] = 0
                 ELSE /\ q.mem[g][1] \in Frame /\ v.kind[q.mem[g][1]] = "free"
                      /\ v.at[q.mem[g][1]] = v.at[g] - 1
    <3>1. CASE g = f
      <4>1. v.at[g] = w.n + 1 /\ q.mem[g][1] = p.firstFree
        BY <1>3, <1>5, <3>1
      <4>2. CASE w.n = 0
        BY <1>1, <1>4, <4>1, <4>2 DEF ListOK
      <4>3. CASE w.n # 0
        <5>1. p.firstFree \in Frame /\ w.kind[p.firstFree] = "free" /\ w.at[p.firstFree] = w.n
          BY <1>1, <4>3 DEF ListOK
        <5>2. p.firstFree # f
          BY <5>1
        <5>3. v.kind[p.firstFree] = "free" /\ v.at[p.firstFree] = w.n
          BY <1>5, <5>1, <5>2
        <5> QED BY <1>2, <1>4, <4>1, <4>3, <5>1, <5>3
      <4> QED BY <4>2, <4>3
    <3>2. CASE g # f
      <4>1. q.mem[g] = p.mem[g] /\ w.kind[g] = "free" /\ w.at[g] \in 1 .. w.n /\ v.at[g] = w.at[g]
        BY <1>3, <2>3, <2>4, <3>2
      <4>2. IF w.at[g] = 1 THEN p.mem[g][1] = 0
            ELSE /\ p.mem[g][1] \in Frame /\ w.kind[p.mem[g][1]] = "free"
                 /\ w.at[p.mem[g][1]] = w.at[g] - 1
        BY <1>1, <4>1 DEF ListOK
      <4>3. v.at[g] \in 1 .. v.n
        BY <1>2, <1>4, <4>1
      <4>4. p.mem[g][1] \in Frame /\ w.kind[p.mem[g][1]] = "free" =>
              v.kind[p.mem[g][1]] = "free" /\ v.at[p.mem[g][1]] = w.at[p.mem[g][1]]
        BY <1>5
      <4> QED BY <4>1, <4>2, <4>3, <4>4
    <3> QED BY <3>1, <3>2
  <2>5. ASSUME NEW g \in Frame, NEW h \in Frame, v.kind[g] = "free", v.kind[h] = "free", v.at[g] = v.at[h]
        PROVE g = h
    <3>1. w.n + 1 \notin 1 .. w.n
      BY <1>2
    <3> QED BY <1>1, <1>5, <2>3, <2>5, <3>1 DEF ListOK
  <2> QED BY <2>1, <2>2, <2>4, <2>5 DEF ListOK
<1>8. DirsOK(q, v)
  <2> SUFFICES ASSUME NEW d \in Frame, v.kind[d] = "dir", NEW i \in Slot, q.mem[d][i] # 0
      PROVE /\ q.mem[d][i] \in Frame /\ v.kind[q.mem[d][i]] = "table"
            /\ v.up[q.mem[d][i]] = d /\ v.at[q.mem[d][i]] = i
    BY DEF DirsOK
  <2>1. w.kind[d] = "dir" /\ q.mem[d] = p.mem[d]
    BY <1>3, <1>5
  <2>2. /\ p.mem[d][i] \in Frame /\ w.kind[p.mem[d][i]] = "table"
        /\ w.up[p.mem[d][i]] = d /\ w.at[p.mem[d][i]] = i
    BY <1>1, <2>1 DEF DirsOK
  <2> QED BY <1>4, <1>5, <2>1, <2>2
<1>9. TablesOK(q, v)
  <2> SUFFICES ASSUME NEW t \in Frame, v.kind[t] = "table"
      PROVE /\ v.up[t] \in Frame /\ v.kind[v.up[t]] = "dir"
            /\ v.at[t] \in Slot /\ q.mem[v.up[t]][v.at[t]] = t
            /\ \A j \in Slot : IsApic(v.at[t], j) => q.mem[t][j] = Apic
            /\ \A j \in Slot : ~IsApic(v.at[t], j) /\ q.mem[t][j] # 0 =>
                 /\ q.mem[t][j] \in Frame /\ v.kind[q.mem[t][j]] = "page"
                 /\ v.up[q.mem[t][j]] = t /\ v.at[q.mem[t][j]] = j
    BY DEF TablesOK
  <2>1. w.kind[t] = "table" /\ q.mem[t] = p.mem[t] /\ t # f
    BY <1>3, <1>5
  <2>2. /\ w.up[t] \in Frame /\ w.kind[w.up[t]] = "dir" /\ w.at[t] \in Slot
             /\ p.mem[w.up[t]][w.at[t]] = t
        /\ \A j \in Slot : IsApic(w.at[t], j) => p.mem[t][j] = Apic
        /\ \A j \in Slot : ~IsApic(w.at[t], j) /\ p.mem[t][j] # 0 =>
             /\ p.mem[t][j] \in Frame /\ w.kind[p.mem[t][j]] = "page"
             /\ w.up[p.mem[t][j]] = t /\ w.at[p.mem[t][j]] = j
    BY <1>1, <2>1 DEF TablesOK
  <2> QED BY <1>3, <1>4, <1>5, <2>1, <2>2
<1>10. PagesOK(q, v)
  <2> SUFFICES ASSUME NEW g \in Frame, v.kind[g] = "page"
      PROVE /\ v.up[g] \in Frame /\ v.kind[v.up[g]] = "table"
            /\ v.at[g] \in Slot /\ q.mem[v.up[g]][v.at[g]] = g
            /\ ~IsApic(v.at[v.up[g]], v.at[g])
    BY DEF PagesOK
  <2>1. w.kind[g] = "page" /\ g # f
    BY <1>5
  <2>2. /\ w.up[g] \in Frame /\ w.kind[w.up[g]] = "table"
        /\ w.at[g] \in Slot /\ p.mem[w.up[g]][w.at[g]] = g
        /\ ~IsApic(w.at[w.up[g]], w.at[g])
    BY <1>1, <2>1 DEF PagesOK
  <2> QED BY <1>3, <1>4, <1>5, <2>1, <2>2
<1>11. Good(q, v)
  BY <1>3, <1>4, <1>6, <1>7, <1>8, <1>9, <1>10 DEF Good
<1>12. Budget(q, v) = Budget(p, w) + 1
  BY <1>2, <1>3, <1>4, Parameters DEF Budget
<1> QED BY <1>3, <1>4, <1>5, <1>11, <1>12 DEF q, v

-----------------------------------------------------------------------------
(* What a store does to the roles. *)

\* Word i of frame f is written.
Store(p, f, i, x) == [p EXCEPT !.mem[f][i] = x]

\* One word of one frame is written.
LEMMA StoreEffect ==
  ASSUME NEW p \in Phys, NEW f \in Frame, NEW i \in Slot, NEW x \in Nat
  PROVE  LET q == Store(p, f, i, x) IN
         /\ q \in Phys /\ q.firstFree = p.firstFree /\ q.avail = p.avail
         /\ \A g \in Frame : g # f => q.mem[g] = p.mem[g]
         /\ q.mem[f][i] = x /\ \A j \in Slot : j # i => q.mem[f][j] = p.mem[f][j]
<1> DEFINE m == [p.mem[f] EXCEPT ![i] = x]
<1>1. m \in Page /\ m[i] = x /\ \A j \in Slot : j # i => m[j] = p.mem[f][j]
  BY DEF Page, Phys
<1>2. Store(p, f, i, x) = [p EXCEPT !.mem[f] = m]
  BY DEF Store
<1> HIDE DEF m
<1> QED BY <1>1, <1>2 DEF Phys

\* An operation that leaves the free frames alone leaves the allocator alone.
LEMMA Untouched ==
  ASSUME NEW p, NEW w, Good(p, w), NEW q, NEW v \in Roles,
         q.firstFree = p.firstFree, q.avail = p.avail, v.n = w.n,
         \A f \in Frame : /\ v.kind[f] = "free" <=> w.kind[f] = "free"
                          /\ v.kind[f] = "unused" <=> w.kind[f] = "unused"
                          /\ w.kind[f] = "free" => q.mem[f] = p.mem[f] /\ v.at[f] = w.at[f]
  PROVE  UnusedOK(q, v) /\ ListOK(q, v) /\ Budget(q, v) = Budget(p, w)
<1>1. w \in Roles /\ UnusedOK(p, w) /\ ListOK(p, w)
  BY DEF Good
<1>2. UnusedOK(q, v) /\ Budget(q, v) = Budget(p, w)
  BY <1>1 DEF UnusedOK, Budget
<1>3. Free(v) = Free(w)
  BY <1>1, Retagging
<1>4. ListOK(q, v)
  BY <1>1, <1>3 DEF ListOK
<1> QED BY <1>2, <1>4

\* A frame becomes table i of directory d.
LEMMA SetTable ==
  ASSUME NEW p, NEW w, Good(p, w), NEW d \in Frame, w.kind[d] = "dir",
         NEW i \in Slot, i # Slots, p.mem[d][i] = 0,
         NEW t \in Frame, w.kind[t] = "held", p.mem[t] = Empty
  PROVE  LET q == Store(p, d, i, t)
             v == Put(w, t, "table", d, i)
         IN  Good(q, v) /\ Budget(q, v) = Budget(p, w)
<1> DEFINE q == Store(p, d, i, t)
           v == Put(w, t, "table", d, i)
<1>1. p \in Phys /\ w \in Roles /\ DirsOK(p, w) /\ TablesOK(p, w) /\ PagesOK(p, w)
  BY DEF Good
<1>2. d \in Nat /\ i \in Nat /\ t \in Nat /\ t # 0 /\ \A f \in Frame : f # 0
  BY GoodTypes, Parameters DEF Slot
<1>3. /\ q \in Phys /\ q.firstFree = p.firstFree /\ q.avail = p.avail
      /\ \A g \in Frame : g # d => q.mem[g] = p.mem[g]
      /\ q.mem[d][i] = t /\ \A j \in Slot : j # i => q.mem[d][j] = p.mem[d][j]
  BY <1>1, <1>2, StoreEffect
<1>4. /\ v \in Roles /\ v.n = w.n /\ v.kind[t] = "table" /\ v.up[t] = d /\ v.at[t] = i
      /\ \A g \in Frame : g # t => v.kind[g] = w.kind[g] /\ v.up[g] = w.up[g] /\ v.at[g] = w.at[g]
  BY <1>1, <1>2, PutType, KindsAre
<1> HIDE DEF q, v
<1>5. UnusedOK(q, v) /\ ListOK(q, v) /\ Budget(q, v) = Budget(p, w)
  BY <1>3, <1>4, Untouched
<1>6. DirsOK(q, v)
  <2> SUFFICES ASSUME NEW e \in Frame, v.kind[e] = "dir", NEW r \in Slot, q.mem[e][r] # 0
      PROVE /\ q.mem[e][r] \in Frame /\ v.kind[q.mem[e][r]] = "table"
            /\ v.up[q.mem[e][r]] = e /\ v.at[q.mem[e][r]] = r
    BY DEF DirsOK
  <2>1. CASE e = d /\ r = i
    BY <1>3, <1>4, <2>1
  <2>2. CASE ~(e = d /\ r = i)
    <3>1. w.kind[e] = "dir" /\ q.mem[e][r] = p.mem[e][r]
      BY <1>3, <1>4, <2>2
    <3> QED BY <1>1, <1>4, <3>1 DEF DirsOK
  <2> QED BY <2>1, <2>2
<1>7. TablesOK(q, v)
  <2> SUFFICES ASSUME NEW s \in Frame, v.kind[s] = "table"
      PROVE /\ v.up[s] \in Frame /\ v.kind[v.up[s]] = "dir"
            /\ v.at[s] \in Slot /\ q.mem[v.up[s]][v.at[s]] = s
            /\ \A j \in Slot : IsApic(v.at[s], j) => q.mem[s][j] = Apic
            /\ \A j \in Slot : ~IsApic(v.at[s], j) /\ q.mem[s][j] # 0 =>
                 /\ q.mem[s][j] \in Frame /\ v.kind[q.mem[s][j]] = "page"
                 /\ v.up[q.mem[s][j]] = s /\ v.at[q.mem[s][j]] = j
    BY DEF TablesOK
  <2>1. CASE s = t
    <3>1. q.mem[s] = Empty
      BY <1>3, <2>1
    <3>2. \A j \in Slot : q.mem[s][j] = 0 /\ ~IsApic(i, j)
      BY <3>1 DEF Empty, Slot, IsApic
    <3> QED BY <1>3, <1>4, <2>1, <3>2
  <2>2. CASE s # t
    <3>1. w.kind[s] = "table" /\ q.mem[s] = p.mem[s]
      BY <1>3, <1>4, <2>2
    <3>2. /\ w.up[s] \in Frame /\ w.kind[w.up[s]] = "dir" /\ w.at[s] \in Slot
               /\ p.mem[w.up[s]][w.at[s]] = s
          /\ \A j \in Slot : IsApic(w.at[s], j) => p.mem[s][j] = Apic
          /\ \A j \in Slot : ~IsApic(w.at[s], j) /\ p.mem[s][j] # 0 =>
               /\ p.mem[s][j] \in Frame /\ w.kind[p.mem[s][j]] = "page"
               /\ w.up[p.mem[s][j]] = s /\ w.at[p.mem[s][j]] = j
      BY <1>1, <3>1 DEF TablesOK
    <3>3. q.mem[w.up[s]][w.at[s]] = s
      BY <1>2, <1>3, <3>2
    <3> QED BY <1>4, <2>2, <3>1, <3>2, <3>3
  <2> QED BY <2>1, <2>2
<1>8. PagesOK(q, v)
  <2> SUFFICES ASSUME NEW g \in Frame, v.kind[g] = "page"
      PROVE /\ v.up[g] \in Frame /\ v.kind[v.up[g]] = "table"
            /\ v.at[g] \in Slot /\ q.mem[v.up[g]][v.at[g]] = g
            /\ ~IsApic(v.at[v.up[g]], v.at[g])
    BY DEF PagesOK
  <2>1. w.kind[g] = "page" /\ g # t
    BY <1>4
  <2>2. /\ w.up[g] \in Frame /\ w.kind[w.up[g]] = "table"
        /\ w.at[g] \in Slot /\ p.mem[w.up[g]][w.at[g]] = g
        /\ ~IsApic(w.at[w.up[g]], w.at[g])
    BY <1>1, <2>1 DEF PagesOK
  <2> QED BY <1>3, <1>4, <2>1, <2>2
<1>9. Good(q, v)
  BY <1>3, <1>4, <1>5, <1>6, <1>7, <1>8 DEF Good
<1> QED BY <1>5, <1>9 DEF q, v

\* A frame becomes page j of table t.
LEMMA SetPage ==
  ASSUME NEW p, NEW w, Good(p, w), NEW t \in Frame, w.kind[t] = "table",
         NEW j \in Slot, ~IsApic(w.at[t], j), p.mem[t][j] = 0,
         NEW g \in Frame, w.kind[g] = "held"
  PROVE  LET q == Store(p, t, j, g)
             v == Put(w, g, "page", t, j)
         IN  Good(q, v) /\ Budget(q, v) = Budget(p, w)
<1> DEFINE q == Store(p, t, j, g)
           v == Put(w, g, "page", t, j)
<1>1. p \in Phys /\ w \in Roles /\ DirsOK(p, w) /\ TablesOK(p, w) /\ PagesOK(p, w)
  BY DEF Good
<1>2. t \in Nat /\ j \in Nat /\ g \in Nat /\ g # 0 /\ \A f \in Frame : f # 0
  BY GoodTypes, Parameters DEF Slot
<1>3. /\ q \in Phys /\ q.firstFree = p.firstFree /\ q.avail = p.avail
      /\ \A f \in Frame : f # t => q.mem[f] = p.mem[f]
      /\ q.mem[t][j] = g /\ \A k \in Slot : k # j => q.mem[t][k] = p.mem[t][k]
  BY <1>1, <1>2, StoreEffect
<1>4. /\ v \in Roles /\ v.n = w.n /\ v.kind[g] = "page" /\ v.up[g] = t /\ v.at[g] = j
      /\ \A f \in Frame : f # g => v.kind[f] = w.kind[f] /\ v.up[f] = w.up[f] /\ v.at[f] = w.at[f]
  BY <1>1, <1>2, PutType, KindsAre
<1> HIDE DEF q, v
<1>5. UnusedOK(q, v) /\ ListOK(q, v) /\ Budget(q, v) = Budget(p, w)
  BY <1>3, <1>4, Untouched
<1>6. DirsOK(q, v)
  <2> SUFFICES ASSUME NEW e \in Frame, v.kind[e] = "dir", NEW r \in Slot, q.mem[e][r] # 0
      PROVE /\ q.mem[e][r] \in Frame /\ v.kind[q.mem[e][r]] = "table"
            /\ v.up[q.mem[e][r]] = e /\ v.at[q.mem[e][r]] = r
    BY DEF DirsOK
  <2>1. w.kind[e] = "dir" /\ q.mem[e][r] = p.mem[e][r]
    BY <1>3, <1>4
  <2> QED BY <1>1, <1>4, <2>1 DEF DirsOK
<1>7. TablesOK(q, v)
  <2> SUFFICES ASSUME NEW s \in Frame, v.kind[s] = "table"
      PROVE /\ v.up[s] \in Frame /\ v.kind[v.up[s]] = "dir"
            /\ v.at[s] \in Slot /\ q.mem[v.up[s]][v.at[s]] = s
            /\ \A k \in Slot : IsApic(v.at[s], k) => q.mem[s][k] = Apic
            /\ \A k \in Slot : ~IsApic(v.at[s], k) /\ q.mem[s][k] # 0 =>
                 /\ q.mem[s][k] \in Frame /\ v.kind[q.mem[s][k]] = "page"
                 /\ v.up[q.mem[s][k]] = s /\ v.at[q.mem[s][k]] = k
    BY DEF TablesOK
  <2>1. w.kind[s] = "table" /\ s # g
    BY <1>4
  <2>2. /\ w.up[s] \in Frame /\ w.kind[w.up[s]] = "dir" /\ w.at[s] \in Slot
             /\ p.mem[w.up[s]][w.at[s]] = s
        /\ \A k \in Slot : IsApic(w.at[s], k) => p.mem[s][k] = Apic
        /\ \A k \in Slot : ~IsApic(w.at[s], k) /\ p.mem[s][k] # 0 =>
             /\ p.mem[s][k] \in Frame /\ w.kind[p.mem[s][k]] = "page"
             /\ w.up[p.mem[s][k]] = s /\ w.at[p.mem[s][k]] = k
    BY <1>1, <2>1 DEF TablesOK
  <2>3. v.at[s] = w.at[s] /\ v.up[s] = w.up[s] /\ w.up[s] # t
    BY <1>4, <2>1, <2>2
  <2>4. \A k \in Slot : (s = t /\ k = j) \/ q.mem[s][k] = p.mem[s][k]
    BY <1>3
  <2>5. ASSUME NEW k \in Slot, ~IsApic(v.at[s], k), q.mem[s][k] # 0
        PROVE  /\ q.mem[s][k] \in Frame /\ v.kind[q.mem[s][k]] = "page"
               /\ v.up[q.mem[s][k]] = s /\ v.at[q.mem[s][k]] = k
    BY <1>3, <1>4, <2>2, <2>3, <2>4, <2>5
  <2>6. \A k \in Slot : IsApic(v.at[s], k) => q.mem[s][k] = Apic
    BY <2>2, <2>3, <2>4
  <2>7. q.mem[v.up[s]] = p.mem[w.up[s]] /\ v.kind[v.up[s]] = "dir"
    BY <1>3, <1>4, <2>2, <2>3
  <2> QED BY <2>2, <2>3, <2>5, <2>6, <2>7
<1>8. PagesOK(q, v)
  <2> SUFFICES ASSUME NEW h \in Frame, v.kind[h] = "page"
      PROVE /\ v.up[h] \in Frame /\ v.kind[v.up[h]] = "table"
            /\ v.at[h] \in Slot /\ q.mem[v.up[h]][v.at[h]] = h
            /\ ~IsApic(v.at[v.up[h]], v.at[h])
    BY DEF PagesOK
  <2>1. CASE h = g
    BY <1>3, <1>4, <2>1
  <2>2. CASE h # g
    <3>1. w.kind[h] = "page"
      BY <1>4, <2>2
    <3>2. /\ w.up[h] \in Frame /\ w.kind[w.up[h]] = "table"
          /\ w.at[h] \in Slot /\ p.mem[w.up[h]][w.at[h]] = h
          /\ ~IsApic(w.at[w.up[h]], w.at[h])
      BY <1>1, <3>1 DEF PagesOK
    <3>3. q.mem[w.up[h]][w.at[h]] = h
      BY <1>2, <1>3, <3>2
    <3> QED BY <1>4, <2>2, <3>2, <3>3
  <2> QED BY <2>1, <2>2
<1>9. Good(q, v)
  BY <1>3, <1>4, <1>5, <1>6, <1>7, <1>8 DEF Good
<1> QED BY <1>5, <1>9 DEF q, v

\* A frame is taken out of its table or directory.
Dropped(w, f) == Put(w, f, "held", 0, 0)

LEMMA DropType ==
  ASSUME NEW w \in Roles, NEW f \in Frame
  PROVE  LET v == Dropped(w, f) IN
         /\ v \in Roles /\ v.n = w.n /\ v.kind[f] = "held" /\ v.up[f] = 0
         /\ \A g \in Frame : g # f => v.kind[g] = w.kind[g] /\ v.up[g] = w.up[g] /\ v.at[g] = w.at[g]
BY PutType, KindsAre DEF Dropped

\* An empty table is taken out of its directory.
LEMMA DropTable ==
  ASSUME NEW p, NEW w, Good(p, w), NEW t \in Frame, w.kind[t] = "table",
         \A j \in Slot : p.mem[t][j] = 0
  PROVE  LET q == Store(p, w.up[t], w.at[t], 0)
             v == Dropped(w, t)
         IN  Good(q, v) /\ Budget(q, v) = Budget(p, w)
<1> DEFINE d == w.up[t]
           i == w.at[t]
           q == Store(p, w.up[t], w.at[t], 0)
           v == Dropped(w, t)
<1>1. p \in Phys /\ w \in Roles /\ DirsOK(p, w) /\ TablesOK(p, w) /\ PagesOK(p, w)
  BY DEF Good
<1>2. t \in Nat /\ \A f \in Frame : f # 0
  BY GoodTypes
<1>a. d \in Frame /\ w.kind[d] = "dir" /\ i \in Slot /\ p.mem[d][i] = t
  BY <1>1 DEF TablesOK
<1>3. /\ q \in Phys /\ q.firstFree = p.firstFree /\ q.avail = p.avail
      /\ \A g \in Frame : g # d => q.mem[g] = p.mem[g]
      /\ q.mem[d][i] = 0 /\ \A j \in Slot : j # i => q.mem[d][j] = p.mem[d][j]
  BY <1>1, <1>a, StoreEffect
<1>4. /\ v \in Roles /\ v.n = w.n /\ v.kind[t] = "held"
      /\ \A g \in Frame : g # t => v.kind[g] = w.kind[g] /\ v.up[g] = w.up[g] /\ v.at[g] = w.at[g]
  BY <1>1, <1>2, PutType, KindsAre DEF Dropped
<1> HIDE DEF q, v, d, i
<1>5. UnusedOK(q, v) /\ ListOK(q, v) /\ Budget(q, v) = Budget(p, w)
  BY <1>3, <1>4, <1>a, Untouched
<1>6. DirsOK(q, v)
  <2> SUFFICES ASSUME NEW e \in Frame, v.kind[e] = "dir", NEW r \in Slot, q.mem[e][r] # 0
      PROVE /\ q.mem[e][r] \in Frame /\ v.kind[q.mem[e][r]] = "table"
            /\ v.up[q.mem[e][r]] = e /\ v.at[q.mem[e][r]] = r
    BY DEF DirsOK
  <2>1. w.kind[e] = "dir" /\ q.mem[e][r] = p.mem[e][r] /\ ~(e = d /\ r = i)
    BY <1>3, <1>4
  <2>2. /\ p.mem[e][r] \in Frame /\ w.kind[p.mem[e][r]] = "table"
        /\ w.up[p.mem[e][r]] = e /\ w.at[p.mem[e][r]] = r
    BY <1>1, <2>1 DEF DirsOK
  <2>3. p.mem[e][r] # t
    BY <2>1, <2>2 DEF d, i
  <2> QED BY <1>4, <2>1, <2>2, <2>3
<1>7. TablesOK(q, v)
  <2> SUFFICES ASSUME NEW s \in Frame, v.kind[s] = "table"
      PROVE /\ v.up[s] \in Frame /\ v.kind[v.up[s]] = "dir"
            /\ v.at[s] \in Slot /\ q.mem[v.up[s]][v.at[s]] = s
            /\ \A j \in Slot : IsApic(v.at[s], j) => q.mem[s][j] = Apic
            /\ \A j \in Slot : ~IsApic(v.at[s], j) /\ q.mem[s][j] # 0 =>
                 /\ q.mem[s][j] \in Frame /\ v.kind[q.mem[s][j]] = "page"
                 /\ v.up[q.mem[s][j]] = s /\ v.at[q.mem[s][j]] = j
    BY DEF TablesOK
  <2>1. w.kind[s] = "table" /\ q.mem[s] = p.mem[s] /\ s # t
    BY <1>3, <1>4, <1>a
  <2>2. /\ w.up[s] \in Frame /\ w.kind[w.up[s]] = "dir" /\ w.at[s] \in Slot
             /\ p.mem[w.up[s]][w.at[s]] = s
        /\ \A j \in Slot : IsApic(w.at[s], j) => p.mem[s][j] = Apic
        /\ \A j \in Slot : ~IsApic(w.at[s], j) /\ p.mem[s][j] # 0 =>
             /\ p.mem[s][j] \in Frame /\ w.kind[p.mem[s][j]] = "page"
             /\ w.up[p.mem[s][j]] = s /\ w.at[p.mem[s][j]] = j
    BY <1>1, <2>1 DEF TablesOK
  <2>3. q.mem[w.up[s]][w.at[s]] = s
    BY <1>3, <1>a, <2>1, <2>2
  <2> QED BY <1>4, <2>1, <2>2, <2>3
<1>8. PagesOK(q, v)
  <2> SUFFICES ASSUME NEW g \in Frame, v.kind[g] = "page"
      PROVE /\ v.up[g] \in Frame /\ v.kind[v.up[g]] = "table"
            /\ v.at[g] \in Slot /\ q.mem[v.up[g]][v.at[g]] = g
            /\ ~IsApic(v.at[v.up[g]], v.at[g])
    BY DEF PagesOK
  <2>1. w.kind[g] = "page" /\ g # t
    BY <1>4
  <2>2. /\ w.up[g] \in Frame /\ w.kind[w.up[g]] = "table"
        /\ w.at[g] \in Slot /\ p.mem[w.up[g]][w.at[g]] = g
        /\ ~IsApic(w.at[w.up[g]], w.at[g])
    BY <1>1, <2>1 DEF PagesOK
  <2>3. w.up[g] # t
    BY <1>2, <2>2
  <2> QED BY <1>3, <1>4, <1>a, <2>1, <2>2, <2>3
<1>9. Good(q, v)
  BY <1>3, <1>4, <1>5, <1>6, <1>7, <1>8 DEF Good
<1> QED BY <1>5, <1>9 DEF q, v

\* A page is taken out of its table.
LEMMA DropPage ==
  ASSUME NEW p, NEW w, Good(p, w), NEW g \in Frame, w.kind[g] = "page"
  PROVE  LET q == Store(p, w.up[g], w.at[g], 0)
             v == Dropped(w, g)
         IN  Good(q, v) /\ Budget(q, v) = Budget(p, w)
<1> DEFINE t == w.up[g]
           j == w.at[g]
           q == Store(p, w.up[g], w.at[g], 0)
           v == Dropped(w, g)
<1>1. p \in Phys /\ w \in Roles /\ DirsOK(p, w) /\ TablesOK(p, w) /\ PagesOK(p, w)
  BY DEF Good
<1>2. g \in Nat /\ \A f \in Frame : f # 0
  BY GoodTypes
<1>a. t \in Frame /\ w.kind[t] = "table" /\ j \in Slot /\ p.mem[t][j] = g /\ ~IsApic(w.at[t], j)
  BY <1>1 DEF PagesOK
<1>3. /\ q \in Phys /\ q.firstFree = p.firstFree /\ q.avail = p.avail
      /\ \A f \in Frame : f # t => q.mem[f] = p.mem[f]
      /\ q.mem[t][j] = 0 /\ \A k \in Slot : k # j => q.mem[t][k] = p.mem[t][k]
  BY <1>1, <1>a, StoreEffect
<1>4. /\ v \in Roles /\ v.n = w.n /\ v.kind[g] = "held"
      /\ \A f \in Frame : f # g => v.kind[f] = w.kind[f] /\ v.up[f] = w.up[f] /\ v.at[f] = w.at[f]
  BY <1>1, <1>2, PutType, KindsAre DEF Dropped
<1> HIDE DEF q, v, t, j
<1>5. UnusedOK(q, v) /\ ListOK(q, v) /\ Budget(q, v) = Budget(p, w)
  BY <1>3, <1>4, <1>a, Untouched
<1>6. DirsOK(q, v)
  <2> SUFFICES ASSUME NEW e \in Frame, v.kind[e] = "dir", NEW r \in Slot, q.mem[e][r] # 0
      PROVE /\ q.mem[e][r] \in Frame /\ v.kind[q.mem[e][r]] = "table"
            /\ v.up[q.mem[e][r]] = e /\ v.at[q.mem[e][r]] = r
    BY DEF DirsOK
  <2>1. w.kind[e] = "dir" /\ q.mem[e][r] = p.mem[e][r]
    BY <1>3, <1>4, <1>a
  <2> QED BY <1>1, <1>4, <2>1 DEF DirsOK
<1>7. TablesOK(q, v)
  <2> SUFFICES ASSUME NEW s \in Frame, v.kind[s] = "table"
      PROVE /\ v.up[s] \in Frame /\ v.kind[v.up[s]] = "dir"
            /\ v.at[s] \in Slot /\ q.mem[v.up[s]][v.at[s]] = s
            /\ \A k \in Slot : IsApic(v.at[s], k) => q.mem[s][k] = Apic
            /\ \A k \in Slot : ~IsApic(v.at[s], k) /\ q.mem[s][k] # 0 =>
                 /\ q.mem[s][k] \in Frame /\ v.kind[q.mem[s][k]] = "page"
                 /\ v.up[q.mem[s][k]] = s /\ v.at[q.mem[s][k]] = k
    BY DEF TablesOK
  <2>1. w.kind[s] = "table" /\ s # g
    BY <1>4
  <2>2. /\ w.up[s] \in Frame /\ w.kind[w.up[s]] = "dir" /\ w.at[s] \in Slot
             /\ p.mem[w.up[s]][w.at[s]] = s
        /\ \A k \in Slot : IsApic(w.at[s], k) => p.mem[s][k] = Apic
        /\ \A k \in Slot : ~IsApic(w.at[s], k) /\ p.mem[s][k] # 0 =>
             /\ p.mem[s][k] \in Frame /\ w.kind[p.mem[s][k]] = "page"
             /\ w.up[p.mem[s][k]] = s /\ w.at[p.mem[s][k]] = k
    BY <1>1, <2>1 DEF TablesOK
  <2>3. v.at[s] = w.at[s] /\ v.up[s] = w.up[s] /\ w.up[s] # t
    BY <1>4, <1>a, <2>1, <2>2
  <2>4. \A k \in Slot : (s = t /\ k = j) \/ q.mem[s][k] = p.mem[s][k]
    BY <1>3
  <2>5. ASSUME NEW k \in Slot, ~IsApic(v.at[s], k), q.mem[s][k] # 0
        PROVE  /\ q.mem[s][k] \in Frame /\ v.kind[q.mem[s][k]] = "page"
               /\ v.up[q.mem[s][k]] = s /\ v.at[q.mem[s][k]] = k
    <3>1. q.mem[s][k] = p.mem[s][k] /\ ~(s = t /\ k = j)
      BY <1>3, <2>4, <2>5
    <3>2. p.mem[s][k] # g
      BY <2>2, <2>3, <2>5, <3>1 DEF t, j
    <3> QED BY <1>4, <2>2, <2>3, <2>5, <3>1, <3>2
  <2>6. \A k \in Slot : IsApic(v.at[s], k) => q.mem[s][k] = Apic
    BY <1>a, <2>2, <2>3, <2>4
  <2>7. q.mem[v.up[s]] = p.mem[w.up[s]] /\ v.kind[v.up[s]] = "dir"
    BY <1>3, <1>4, <2>2, <2>3
  <2> QED BY <2>2, <2>3, <2>5, <2>6, <2>7
<1>8. PagesOK(q, v)
  <2> SUFFICES ASSUME NEW h \in Frame, v.kind[h] = "page"
      PROVE /\ v.up[h] \in Frame /\ v.kind[v.up[h]] = "table"
            /\ v.at[h] \in Slot /\ q.mem[v.up[h]][v.at[h]] = h
            /\ ~IsApic(v.at[v.up[h]], v.at[h])
    BY DEF PagesOK
  <2>1. w.kind[h] = "page" /\ h # g
    BY <1>4
  <2>2. /\ w.up[h] \in Frame /\ w.kind[w.up[h]] = "table"
        /\ w.at[h] \in Slot /\ p.mem[w.up[h]][w.at[h]] = h
        /\ ~IsApic(w.at[w.up[h]], w.at[h])
    BY <1>1, <2>1 DEF PagesOK
  <2>3. q.mem[w.up[h]][w.at[h]] = h /\ w.up[h] # g
    BY <1>3, <1>a, <2>1, <2>2
  <2> QED BY <1>4, <2>1, <2>2, <2>3
<1>9. Good(q, v)
  BY <1>3, <1>4, <1>5, <1>6, <1>7, <1>8 DEF Good
<1> QED BY <1>5, <1>9 DEF q, v

\* What is in a page, or in a frame that is not mapped yet, matters to nobody.
LEMMA Fill ==
  ASSUME NEW p, NEW w, Good(p, w), NEW g \in Frame, w.kind[g] \in {"held", "page"}, NEW q \in Phys,
         q.firstFree = p.firstFree, q.avail = p.avail, \A f \in Frame : f # g => q.mem[f] = p.mem[f]
  PROVE  Good(q, w) /\ Budget(q, w) = Budget(p, w)
<1>1. p \in Phys /\ w \in Roles /\ DirsOK(p, w) /\ TablesOK(p, w) /\ PagesOK(p, w)
  BY DEF Good
<1>2. \A f \in Frame : w.kind[f] \in {"free", "dir", "table"} => q.mem[f] = p.mem[f]
  OBVIOUS
<1>3. UnusedOK(q, w) /\ ListOK(q, w) /\ Budget(q, w) = Budget(p, w)
  BY <1>1, <1>2, Untouched
<1>4. DirsOK(q, w)
  BY <1>1, <1>2 DEF DirsOK
<1>5. PagesOK(q, w)
  BY <1>1, <1>2 DEF PagesOK
<1>6. TablesOK(q, w)
  BY <1>1, <1>2 DEF TablesOK
<1> QED BY <1>1, <1>3, <1>4, <1>5, <1>6 DEF Good

\* Two frames become a directory and its table of the interrupt controllers.
LEMMA MakeDir ==
  ASSUME NEW p, NEW w, Good(p, w), NEW d \in Frame, w.kind[d] = "held",
         NEW t \in Frame, w.kind[t] = "held", t # d,
         p.mem[d][Slots] = t, \A i \in Slot : i # Slots => p.mem[d][i] = 0,
         p.mem[t][1] = Apic, \A j \in Slot : j # 1 => p.mem[t][j] = 0
  PROVE  LET v == Put(Put(w, d, "dir", 0, 0), t, "table", d, Slots)
         IN  Good(p, v) /\ Budget(p, v) = Budget(p, w)
<1> DEFINE u == Put(w, d, "dir", 0, 0)
           v == Put(u, t, "table", d, Slots)
<1>1. p \in Phys /\ w \in Roles /\ DirsOK(p, w) /\ TablesOK(p, w) /\ PagesOK(p, w)
  BY DEF Good
<1>2. /\ d \in Nat /\ t \in Nat /\ t # 0 /\ Slots \in Nat /\ Slots \in Slot
      /\ \A f \in Frame : f # 0
  BY GoodTypes, Parameters DEF Slot
<1>3. /\ u \in Roles /\ u.n = w.n /\ u.kind[d] = "dir"
      /\ \A f \in Frame : f # d => u.kind[f] = w.kind[f] /\ u.up[f] = w.up[f] /\ u.at[f] = w.at[f]
  BY <1>1, <1>2, PutType, KindsAre
<1> HIDE DEF u
<1>4. /\ v \in Roles /\ v.n = u.n /\ v.kind[t] = "table" /\ v.up[t] = d /\ v.at[t] = Slots
      /\ \A f \in Frame : f # t => v.kind[f] = u.kind[f] /\ v.up[f] = u.up[f] /\ v.at[f] = u.at[f]
  BY <1>2, <1>3, PutType, KindsAre
<1> HIDE DEF v
<1>5. /\ v.n = w.n /\ v.kind[d] = "dir"
      /\ \A f \in Frame : f # t /\ f # d =>
           v.kind[f] = w.kind[f] /\ v.up[f] = w.up[f] /\ v.at[f] = w.at[f]
  BY <1>3, <1>4
<1>6. UnusedOK(p, v) /\ ListOK(p, v) /\ Budget(p, v) = Budget(p, w)
  BY <1>4, <1>5, Untouched
<1>7. DirsOK(p, v)
  <2> SUFFICES ASSUME NEW e \in Frame, v.kind[e] = "dir", NEW r \in Slot, p.mem[e][r] # 0
      PROVE /\ p.mem[e][r] \in Frame /\ v.kind[p.mem[e][r]] = "table"
            /\ v.up[p.mem[e][r]] = e /\ v.at[p.mem[e][r]] = r
    BY DEF DirsOK
  <2>1. CASE e = d
    BY <1>4, <2>1
  <2>2. CASE e # d
    <3>1. w.kind[e] = "dir"
      BY <1>4, <1>5, <2>2
    <3> QED BY <1>1, <1>5, <3>1 DEF DirsOK
  <2> QED BY <2>1, <2>2
<1>8. TablesOK(p, v)
  <2> SUFFICES ASSUME NEW s \in Frame, v.kind[s] = "table"
      PROVE /\ v.up[s] \in Frame /\ v.kind[v.up[s]] = "dir"
            /\ v.at[s] \in Slot /\ p.mem[v.up[s]][v.at[s]] = s
            /\ \A j \in Slot : IsApic(v.at[s], j) => p.mem[s][j] = Apic
            /\ \A j \in Slot : ~IsApic(v.at[s], j) /\ p.mem[s][j] # 0 =>
                 /\ p.mem[s][j] \in Frame /\ v.kind[p.mem[s][j]] = "page"
                 /\ v.up[p.mem[s][j]] = s /\ v.at[p.mem[s][j]] = j
    BY DEF TablesOK
  <2>1. CASE s = t
    BY <1>2, <1>4, <1>5, <2>1 DEF IsApic
  <2>2. CASE s # t
    <3>1. w.kind[s] = "table" /\ s # d
      BY <1>5, <2>2
    <3>2. /\ w.up[s] \in Frame /\ w.kind[w.up[s]] = "dir" /\ w.at[s] \in Slot
               /\ p.mem[w.up[s]][w.at[s]] = s
          /\ \A j \in Slot : IsApic(w.at[s], j) => p.mem[s][j] = Apic
          /\ \A j \in Slot : ~IsApic(w.at[s], j) /\ p.mem[s][j] # 0 =>
               /\ p.mem[s][j] \in Frame /\ w.kind[p.mem[s][j]] = "page"
               /\ w.up[p.mem[s][j]] = s /\ w.at[p.mem[s][j]] = j
      BY <1>1, <3>1 DEF TablesOK
    <3> QED BY <1>5, <2>2, <3>1, <3>2
  <2> QED BY <2>1, <2>2
<1>9. PagesOK(p, v)
  <2> SUFFICES ASSUME NEW g \in Frame, v.kind[g] = "page"
      PROVE /\ v.up[g] \in Frame /\ v.kind[v.up[g]] = "table"
            /\ v.at[g] \in Slot /\ p.mem[v.up[g]][v.at[g]] = g
            /\ ~IsApic(v.at[v.up[g]], v.at[g])
    BY DEF PagesOK
  <2>1. w.kind[g] = "page" /\ g # t /\ g # d
    BY <1>4, <1>5
  <2>2. /\ w.up[g] \in Frame /\ w.kind[w.up[g]] = "table"
        /\ w.at[g] \in Slot /\ p.mem[w.up[g]][w.at[g]] = g
        /\ ~IsApic(w.at[w.up[g]], w.at[g])
    BY <1>1, <2>1 DEF PagesOK
  <2> QED BY <1>5, <2>1, <2>2
<1>10. Good(p, v)
  BY <1>1, <1>4, <1>6, <1>7, <1>8, <1>9 DEF Good
<1> QED BY <1>6, <1>10 DEF u, v

\* Directory d and all that it leads to are taken out of the tables.
Orphan(w, d) == [w EXCEPT !.kind = [f \in Frame |-> IF Root(w, f) = d THEN "held" ELSE w.kind[f]]]

\* A directory that nobody uses any more: all that it leads to is held.
LEMMA DropDir ==
  ASSUME NEW p, NEW w, Good(p, w), NEW d \in Frame, w.kind[d] = "dir"
  PROVE  LET v == Orphan(w, d) IN
         /\ Good(p, v) /\ Budget(p, v) = Budget(p, w)
         /\ v.up = w.up /\ v.at = w.at
         /\ \A f \in Frame : v.kind[f] = IF Root(w, f) = d THEN "held" ELSE w.kind[f]
<1> DEFINE v == Orphan(w, d)
<1>1. p \in Phys /\ w \in Roles /\ DirsOK(p, w) /\ TablesOK(p, w) /\ PagesOK(p, w)
  BY DEF Good
<1>2. \A f \in Frame : f # 0
  BY GoodTypes
<1>3. /\ v \in Roles /\ v.n = w.n /\ v.up = w.up /\ v.at = w.at
      /\ \A f \in Frame : v.kind[f] = IF Root(w, f) = d THEN "held" ELSE w.kind[f]
  <2> DEFINE k == [f \in Frame |-> IF Root(w, f) = d THEN "held" ELSE w.kind[f]]
  <2>1. k \in [Frame -> Kinds]
    BY <1>1, KindsAre DEF Roles
  <2>2. \A f \in Frame : k[f] = IF Root(w, f) = d THEN "held" ELSE w.kind[f]
    OBVIOUS
  <2>3. v = [w EXCEPT !.kind = k]
    BY DEF Orphan
  <2> HIDE DEF k
  <2> QED BY <1>1, <2>1, <2>2, <2>3 DEF Roles
<1> HIDE DEF v
<1>4. \A f \in Frame : w.kind[f] \notin {"dir", "table", "page"} => v.kind[f] = w.kind[f]
  BY <1>2, <1>3 DEF Root
<1>5. \A f \in Frame : v.kind[f] # "held" => v.kind[f] = w.kind[f] /\ Root(w, f) # d
  BY <1>3
<1>6. UnusedOK(p, v) /\ ListOK(p, v) /\ Budget(p, v) = Budget(p, w)
  <2>1. \A f \in Frame : /\ v.kind[f] = "free" <=> w.kind[f] = "free"
                         /\ v.kind[f] = "unused" <=> w.kind[f] = "unused"
    BY <1>4, <1>5
  <2> QED BY <1>3, <2>1, Untouched
<1>7. DirsOK(p, v)
  <2> SUFFICES ASSUME NEW e \in Frame, v.kind[e] = "dir", NEW r \in Slot, p.mem[e][r] # 0
      PROVE /\ p.mem[e][r] \in Frame /\ v.kind[p.mem[e][r]] = "table"
            /\ v.up[p.mem[e][r]] = e /\ v.at[p.mem[e][r]] = r
    BY DEF DirsOK
  <2>1. w.kind[e] = "dir" /\ e # d
    BY <1>5 DEF Root
  <2>2. /\ p.mem[e][r] \in Frame /\ w.kind[p.mem[e][r]] = "table"
        /\ w.up[p.mem[e][r]] = e /\ w.at[p.mem[e][r]] = r
    BY <1>1, <2>1 DEF DirsOK
  <2> QED BY <1>3, <2>1, <2>2 DEF Root
<1>8. TablesOK(p, v)
  <2> SUFFICES ASSUME NEW s \in Frame, v.kind[s] = "table"
      PROVE /\ v.up[s] \in Frame /\ v.kind[v.up[s]] = "dir"
            /\ v.at[s] \in Slot /\ p.mem[v.up[s]][v.at[s]] = s
            /\ \A j \in Slot : IsApic(v.at[s], j) => p.mem[s][j] = Apic
            /\ \A j \in Slot : ~IsApic(v.at[s], j) /\ p.mem[s][j] # 0 =>
                 /\ p.mem[s][j] \in Frame /\ v.kind[p.mem[s][j]] = "page"
                 /\ v.up[p.mem[s][j]] = s /\ v.at[p.mem[s][j]] = j
    BY DEF TablesOK
  <2>1. w.kind[s] = "table" /\ w.up[s] # d
    BY <1>5 DEF Root
  <2>2. /\ w.up[s] \in Frame /\ w.kind[w.up[s]] = "dir" /\ w.at[s] \in Slot
             /\ p.mem[w.up[s]][w.at[s]] = s
        /\ \A j \in Slot : IsApic(w.at[s], j) => p.mem[s][j] = Apic
        /\ \A j \in Slot : ~IsApic(w.at[s], j) /\ p.mem[s][j] # 0 =>
             /\ p.mem[s][j] \in Frame /\ w.kind[p.mem[s][j]] = "page"
             /\ w.up[p.mem[s][j]] = s /\ w.at[p.mem[s][j]] = j
    BY <1>1, <2>1 DEF TablesOK
  <2>3. v.kind[w.up[s]] = "dir"
    BY <1>3, <2>1, <2>2 DEF Root
  <2>4. \A h \in Frame : w.kind[h] = "page" /\ w.up[h] = s => v.kind[h] = "page"
    BY <1>3, <2>1 DEF Root
  <2> QED BY <1>3, <2>2, <2>3, <2>4
<1>9. PagesOK(p, v)
  <2> SUFFICES ASSUME NEW g \in Frame, v.kind[g] = "page"
      PROVE /\ v.up[g] \in Frame /\ v.kind[v.up[g]] = "table"
            /\ v.at[g] \in Slot /\ p.mem[v.up[g]][v.at[g]] = g
            /\ ~IsApic(v.at[v.up[g]], v.at[g])
    BY DEF PagesOK
  <2>1. w.kind[g] = "page" /\ w.up[w.up[g]] # d
    BY <1>5 DEF Root
  <2>2. /\ w.up[g] \in Frame /\ w.kind[w.up[g]] = "table"
        /\ w.at[g] \in Slot /\ p.mem[w.up[g]][w.at[g]] = g
        /\ ~IsApic(w.at[w.up[g]], w.at[g])
    BY <1>1, <2>1 DEF PagesOK
  <2>3. v.kind[w.up[g]] = "table"
    BY <1>3, <2>1, <2>2 DEF Root
  <2> QED BY <1>3, <2>2, <2>3
<1>10. Good(p, v)
  BY <1>1, <1>3, <1>6, <1>7, <1>8, <1>9 DEF Good
<1> QED BY <1>3, <1>6, <1>10 DEF v

\* A set of numbers has a smallest one: what induction rests on.
LEMMA SmallestExists ==
  ASSUME NEW T, T \subseteq Nat, T # {}
  PROVE  \E x \in T : \A y \in T : ~(y < x)
<1>1. \E x \in T : \A y \in T : ~(<<y, x>> \in OpToRel(<, Nat))
  BY NatLessThanWellFounded, WFMin
<1>2. \A x, y \in Nat : <<y, x>> \in OpToRel(<, Nat) <=> y < x
  BY DEF OpToRel
<1> QED BY <1>1, <1>2

\* What holds at first and after each round holds in the end.
LEMMA Induction ==
  ASSUME NEW n \in Nat, NEW T, 0 \in T, \A i \in 1 .. n : i - 1 \in T => i \in T
  PROVE  \A i \in 0 .. n : i \in T
<1> DEFINE Bad == (0 .. n) \ T
<1>1. SUFFICES ASSUME Bad # {} PROVE FALSE
  OBVIOUS
<1>2. Bad \subseteq Nat
  OBVIOUS
<1>3. PICK k \in Bad : \A y \in Bad : ~(y < k)
  <2> HIDE DEF Bad
  <2> QED BY <1>1, <1>2, SmallestExists
<1>4. k \in 1 .. n
  BY <1>3
<1>5. k - 1 \in 0 .. n /\ k - 1 < k
  BY <1>4
<1>6. k - 1 \in T
  BY <1>3, <1>5
<1> QED BY <1>3, <1>4, <1>6

Goals(n, V) == [0 .. n -> SUBSET V]
Traces(n, V) == [0 .. n -> V]
Keeps(n, good, step) == \A i \in 1 .. n : \A q \in good[i - 1] : step[i][q] \in good[i]
Runs(n, f, p, step) == f[0] = p /\ \A i \in 1 .. n : f[i] = step[i][f[i - 1]]

\* A loop that keeps an invariant has a result: good[i] is what holds after i
\* rounds, and step[i][q] what round i makes of q.
LEMMA Rounds ==
  ASSUME NEW n \in Nat, NEW V, NEW good \in Goals(n, V), NEW step, NEW p \in good[0],
         Keeps(n, good, step)
  PROVE  \E f \in Traces(n, V) : Runs(n, f, p, step) /\ \A i \in 0 .. n : f[i] \in good[i]
<1> USE DEF Goals, Traces, Keeps, Runs
<1> DEFINE Steps(f, k) == f[0] = p /\ \A i \in 1 .. k : f[i] = step[i][f[i - 1]]
           Kept(f, k) == \A i \in 0 .. k : f[i] \in good[i]
           Done == {k \in 0 .. n : \E f \in [0 .. k -> V] : Steps(f, k) /\ Kept(f, k)}
<1>1. 0 \in Done
  <2> DEFINE f == [i \in 0 .. 0 |-> p]
  <2>1. f \in [0 .. 0 -> V] /\ Steps(f, 0) /\ Kept(f, 0)
    OBVIOUS
  <2>2. 0 \in 0 .. n
    OBVIOUS
  <2> HIDE DEF f, Steps, Kept
  <2> QED BY <2>1, <2>2
<1>2. ASSUME NEW k \in 1 .. n, k - 1 \in Done PROVE k \in Done
  <2>1. k - 1 \in 0 .. n /\ k \in 0 .. n
    OBVIOUS
  <2>2. PICK g \in [0 .. k - 1 -> V] : Steps(g, k - 1) /\ Kept(g, k - 1)
    BY <1>2
  <2> DEFINE f == [i \in 0 .. k |-> IF i = k THEN step[k][g[k - 1]] ELSE g[i]]
  <2>3. \A i \in 0 .. k - 1 : f[i] = g[i] /\ i \in 0 .. k
    OBVIOUS
  <2>4. f[k] = step[k][g[k - 1]] /\ f[k] \in good[k] /\ f[k - 1] = g[k - 1]
    BY <2>2
  <2>5. f \in [0 .. k -> V]
    BY <2>1, <2>2, <2>4
  <2> HIDE DEF f
  <2>6. Kept(f, k)
    <3>1. \A i \in 0 .. k : i = k \/ i \in 0 .. k - 1
      OBVIOUS
    <3> QED BY <2>2, <2>3, <2>4, <3>1
  <2>7. Steps(f, k)
    <3>1. f[0] = p
      BY <2>2, <2>3
    <3>2. \A i \in 1 .. k : i = k \/ (i \in 1 .. k - 1 /\ i - 1 \in 0 .. k - 1 /\ i \in 0 .. k - 1)
      OBVIOUS
    <3>3. \A i \in 1 .. k - 1 : g[i] = step[i][g[i - 1]]
      BY <2>2
    <3> HIDE DEF Steps
    <3>4. ASSUME NEW i \in 1 .. k PROVE f[i] = step[i][f[i - 1]]
      <4>1. CASE i = k
        BY <2>4, <4>1
      <4>2. CASE i # k
        <5>1. i \in 1 .. k - 1 /\ f[i] = g[i] /\ f[i - 1] = g[i - 1]
          BY <2>3, <3>2, <4>2
        <5> QED BY <3>3, <5>1
      <4> QED BY <4>1, <4>2
    <3> QED BY <3>1, <3>4 DEF Steps
  <2> HIDE DEF Steps, Kept
  <2> QED BY <2>1, <2>5, <2>6, <2>7
<1> HIDE DEF Done
<1>3. \A k \in 0 .. n : k \in Done
  BY <1>1, <1>2, Induction
<1>4. n \in Done
  BY <1>3
<1>5. PICK f \in [0 .. n -> V] : Steps(f, n) /\ Kept(f, n)
  BY <1>4 DEF Done
<1>6. f \in Traces(n, V) /\ Runs(n, f, p, step)
  BY <1>5
<1>7. \A i \in 0 .. n : f[i] \in good[i]
  BY <1>5
<1> QED BY <1>6, <1>7

\* The loops of the model, one by one: what every round keeps, the loop keeps.
LEMMA LoopOfClearPages ==
  ASSUME NEW dir, NEW i, NEW good \in Goals(Slots, Phys), NEW p \in good[0],
         \A j \in 1 .. Slots : \A q \in good[j - 1] : ClearPage(q, dir, <<i, j>>) \in good[j]
  PROVE  ClearPages(p, dir, i) \in good[Slots]
<1> DEFINE step == [j \in 1 .. Slots |-> [q \in Phys |-> ClearPage(q, dir, <<i, j>>)]]
           g == CHOOSE h : h = [j \in 0 .. Slots |->
                                  IF j = 0 THEN p ELSE ClearPage(h[j - 1], dir, <<i, j>>)]
<1>1. \A j \in 1 .. Slots : \A q \in Phys : step[j][q] = ClearPage(q, dir, <<i, j>>)
  OBVIOUS
<1> HIDE DEF step
<1>2. PICK f \in Traces(Slots, Phys) : Runs(Slots, f, p, step)
  <2>1. Keeps(Slots, good, step)
    <3>1. \A j \in 1 .. Slots : good[j - 1] \subseteq Phys
      BY Parameters DEF Goals
    <3>2. \A j \in 1 .. Slots : \A q \in good[j - 1] : step[j][q] \in good[j]
      BY <1>1, <3>1, Zenon
    <3> QED BY <3>2 DEF Keeps
  <2> QED BY <2>1, Rounds, Parameters
<1>3. f = [j \in 0 .. Slots |-> IF j = 0 THEN p ELSE ClearPage(f[j - 1], dir, <<i, j>>)]
  BY <1>1, <1>2, Parameters DEF Runs, Traces
<1>4. g = [j \in 0 .. Slots |-> IF j = 0 THEN p ELSE ClearPage(g[j - 1], dir, <<i, j>>)]
  BY <1>3
<1>5. ClearPages(p, dir, i) = g[Slots]
  BY DEF Loop, ClearPages
<1> HIDE DEF g
<1>6. \A j \in 0 .. Slots : j \in {n \in 0 .. Slots : g[n] \in good[n]}
  <2> DEFINE kept == {n \in 0 .. Slots : g[n] \in good[n]}
  <2>1. 0 \in kept /\ \A j \in 1 .. Slots : j - 1 \in kept => j \in kept
    BY <1>4, Parameters
  <2> HIDE DEF kept
  <2>2. \A j \in 0 .. Slots : j \in kept
    BY <2>1, Induction, Parameters
  <2> QED BY <2>2 DEF kept
<1>7. g[Slots] \in good[Slots]
  BY <1>6, Parameters
<1> QED BY <1>5, <1>7, Zenon

LEMMA LoopOfDeletePrivate ==
  ASSUME NEW dir, NEW good \in Goals(Slots, Phys), NEW p \in good[0],
         \A i \in 1 .. Slots : \A q \in good[i - 1] : ClearTable(q, dir, i) \in good[i]
  PROVE  DeletePrivate(p, dir) \in good[Slots]
<1> DEFINE step == [i \in 1 .. Slots |-> [q \in Phys |-> ClearTable(q, dir, i)]]
           g == CHOOSE h : h = [i \in 0 .. Slots |->
                                  IF i = 0 THEN p ELSE ClearTable(h[i - 1], dir, i)]
<1>1. \A i \in 1 .. Slots : \A q \in Phys : step[i][q] = ClearTable(q, dir, i)
  OBVIOUS
<1> HIDE DEF step
<1>2. PICK f \in Traces(Slots, Phys) : Runs(Slots, f, p, step)
  <2>1. Keeps(Slots, good, step)
    <3>1. \A i \in 1 .. Slots : good[i - 1] \subseteq Phys
      BY Parameters DEF Goals
    <3>2. \A i \in 1 .. Slots : \A q \in good[i - 1] : step[i][q] \in good[i]
      BY <1>1, <3>1, Zenon
    <3> QED BY <3>2 DEF Keeps
  <2> QED BY <2>1, Rounds, Parameters
<1>3. f = [i \in 0 .. Slots |-> IF i = 0 THEN p ELSE ClearTable(f[i - 1], dir, i)]
  BY <1>1, <1>2, Parameters DEF Runs, Traces
<1>4. g = [i \in 0 .. Slots |-> IF i = 0 THEN p ELSE ClearTable(g[i - 1], dir, i)]
  BY <1>3
<1>5. DeletePrivate(p, dir) = g[Slots]
  BY DEF Loop, DeletePrivate
<1> HIDE DEF g
<1>6. \A i \in 0 .. Slots : i \in {n \in 0 .. Slots : g[n] \in good[n]}
  <2> DEFINE kept == {n \in 0 .. Slots : g[n] \in good[n]}
  <2>1. 0 \in kept /\ \A i \in 1 .. Slots : i - 1 \in kept => i \in kept
    BY <1>4, Parameters
  <2> HIDE DEF kept
  <2>2. \A i \in 0 .. Slots : i \in kept
    BY <2>1, Induction, Parameters
  <2> QED BY <2>2 DEF kept
<1>7. g[Slots] \in good[Slots]
  BY <1>6, Parameters
<1> QED BY <1>5, <1>7, Zenon

LEMMA LoopOfReleasePages ==
  ASSUME NEW dir, NEW i, NEW good \in Goals(Slots, Phys), NEW p \in good[0],
         \A j \in 1 .. Slots : \A q \in good[j - 1] : ReleasePage(q, dir, <<i, j>>) \in good[j]
  PROVE  ReleasePages(p, dir, i) \in good[Slots]
<1> DEFINE step == [j \in 1 .. Slots |-> [q \in Phys |-> ReleasePage(q, dir, <<i, j>>)]]
           g == CHOOSE h : h = [j \in 0 .. Slots |->
                                  IF j = 0 THEN p ELSE ReleasePage(h[j - 1], dir, <<i, j>>)]
<1>1. \A j \in 1 .. Slots : \A q \in Phys : step[j][q] = ReleasePage(q, dir, <<i, j>>)
  OBVIOUS
<1> HIDE DEF step
<1>2. PICK f \in Traces(Slots, Phys) : Runs(Slots, f, p, step)
  <2>1. Keeps(Slots, good, step)
    <3>1. \A j \in 1 .. Slots : good[j - 1] \subseteq Phys
      BY Parameters DEF Goals
    <3>2. \A j \in 1 .. Slots : \A q \in good[j - 1] : step[j][q] \in good[j]
      BY <1>1, <3>1, Zenon
    <3> QED BY <3>2 DEF Keeps
  <2> QED BY <2>1, Rounds, Parameters
<1>3. f = [j \in 0 .. Slots |-> IF j = 0 THEN p ELSE ReleasePage(f[j - 1], dir, <<i, j>>)]
  BY <1>1, <1>2, Parameters DEF Runs, Traces
<1>4. g = [j \in 0 .. Slots |-> IF j = 0 THEN p ELSE ReleasePage(g[j - 1], dir, <<i, j>>)]
  BY <1>3
<1>5. ReleasePages(p, dir, i) = g[Slots]
  BY DEF Loop, ReleasePages
<1> HIDE DEF g
<1>6. \A j \in 0 .. Slots : j \in {n \in 0 .. Slots : g[n] \in good[n]}
  <2> DEFINE kept == {n \in 0 .. Slots : g[n] \in good[n]}
  <2>1. 0 \in kept /\ \A j \in 1 .. Slots : j - 1 \in kept => j \in kept
    BY <1>4, Parameters
  <2> HIDE DEF kept
  <2>2. \A j \in 0 .. Slots : j \in kept
    BY <2>1, Induction, Parameters
  <2> QED BY <2>2 DEF kept
<1>7. g[Slots] \in good[Slots]
  BY <1>6, Parameters
<1> QED BY <1>5, <1>7, Zenon

LEMMA LoopOfReleaseTables ==
  ASSUME NEW dir, NEW good \in Goals(Slots, Phys), NEW p \in good[0],
         \A i \in 1 .. Slots : \A q \in good[i - 1] : ReleaseTable(q, dir, i) \in good[i]
  PROVE  ReleaseTables(p, dir) \in good[Slots]
<1> DEFINE step == [i \in 1 .. Slots |-> [q \in Phys |-> ReleaseTable(q, dir, i)]]
           g == CHOOSE h : h = [i \in 0 .. Slots |->
                                  IF i = 0 THEN p ELSE ReleaseTable(h[i - 1], dir, i)]
<1>1. \A i \in 1 .. Slots : \A q \in Phys : step[i][q] = ReleaseTable(q, dir, i)
  OBVIOUS
<1> HIDE DEF step
<1>2. PICK f \in Traces(Slots, Phys) : Runs(Slots, f, p, step)
  <2>1. Keeps(Slots, good, step)
    <3>1. \A i \in 1 .. Slots : good[i - 1] \subseteq Phys
      BY Parameters DEF Goals
    <3>2. \A i \in 1 .. Slots : \A q \in good[i - 1] : step[i][q] \in good[i]
      BY <1>1, <3>1, Zenon
    <3> QED BY <3>2 DEF Keeps
  <2> QED BY <2>1, Rounds, Parameters
<1>3. f = [i \in 0 .. Slots |-> IF i = 0 THEN p ELSE ReleaseTable(f[i - 1], dir, i)]
  BY <1>1, <1>2, Parameters DEF Runs, Traces
<1>4. g = [i \in 0 .. Slots |-> IF i = 0 THEN p ELSE ReleaseTable(g[i - 1], dir, i)]
  BY <1>3
<1>5. ReleaseTables(p, dir) = g[Slots]
  BY DEF Loop, ReleaseTables
<1> HIDE DEF g
<1>6. \A i \in 0 .. Slots : i \in {n \in 0 .. Slots : g[n] \in good[n]}
  <2> DEFINE kept == {n \in 0 .. Slots : g[n] \in good[n]}
  <2>1. 0 \in kept /\ \A i \in 1 .. Slots : i - 1 \in kept => i \in kept
    BY <1>4, Parameters
  <2> HIDE DEF kept
  <2>2. \A i \in 0 .. Slots : i \in kept
    BY <2>1, Induction, Parameters
  <2> QED BY <2>2 DEF kept
<1>7. g[Slots] \in good[Slots]
  BY <1>6, Parameters
<1> QED BY <1>5, <1>7, Zenon

LEMMA LoopOfCopyPages ==
  ASSUME NEW from, NEW to, NEW i, NEW good \in Goals(Slots, Phys), NEW p \in good[0],
         \A j \in 1 .. Slots : \A q \in good[j - 1] : CopyPage(q, from, to, <<i, j>>) \in good[j]
  PROVE  CopyPages(p, from, to, i) \in good[Slots]
<1> DEFINE step == [j \in 1 .. Slots |-> [q \in Phys |-> CopyPage(q, from, to, <<i, j>>)]]
           g == CHOOSE h : h = [j \in 0 .. Slots |->
                                  IF j = 0 THEN p ELSE CopyPage(h[j - 1], from, to, <<i, j>>)]
<1>1. \A j \in 1 .. Slots : \A q \in Phys : step[j][q] = CopyPage(q, from, to, <<i, j>>)
  OBVIOUS
<1> HIDE DEF step
<1>2. PICK f \in Traces(Slots, Phys) : Runs(Slots, f, p, step)
  <2>1. Keeps(Slots, good, step)
    <3>1. \A j \in 1 .. Slots : good[j - 1] \subseteq Phys
      BY Parameters DEF Goals
    <3>2. \A j \in 1 .. Slots : \A q \in good[j - 1] : step[j][q] \in good[j]
      BY <1>1, <3>1, Zenon
    <3> QED BY <3>2 DEF Keeps
  <2> QED BY <2>1, Rounds, Parameters
<1>3. f = [j \in 0 .. Slots |-> IF j = 0 THEN p ELSE CopyPage(f[j - 1], from, to, <<i, j>>)]
  BY <1>1, <1>2, Parameters DEF Runs, Traces
<1>4. g = [j \in 0 .. Slots |-> IF j = 0 THEN p ELSE CopyPage(g[j - 1], from, to, <<i, j>>)]
  BY <1>3
<1>5. CopyPages(p, from, to, i) = g[Slots]
  BY DEF Loop, CopyPages
<1> HIDE DEF g
<1>6. \A j \in 0 .. Slots : j \in {n \in 0 .. Slots : g[n] \in good[n]}
  <2> DEFINE kept == {n \in 0 .. Slots : g[n] \in good[n]}
  <2>1. 0 \in kept /\ \A j \in 1 .. Slots : j - 1 \in kept => j \in kept
    BY <1>4, Parameters
  <2> HIDE DEF kept
  <2>2. \A j \in 0 .. Slots : j \in kept
    BY <2>1, Induction, Parameters
  <2> QED BY <2>2 DEF kept
<1>7. g[Slots] \in good[Slots]
  BY <1>6, Parameters
<1> QED BY <1>5, <1>7, Zenon

LEMMA LoopOfCopyPrivate ==
  ASSUME NEW from, NEW to, NEW good \in Goals(Slots, Phys), NEW p \in good[0],
         \A i \in 1 .. Slots : \A q \in good[i - 1] : CopyTable(q, from, to, i) \in good[i]
  PROVE  CopyPrivate(p, from, to) \in good[Slots]
<1> DEFINE step == [i \in 1 .. Slots |-> [q \in Phys |-> CopyTable(q, from, to, i)]]
           g == CHOOSE h : h = [i \in 0 .. Slots |->
                                  IF i = 0 THEN p ELSE CopyTable(h[i - 1], from, to, i)]
<1>1. \A i \in 1 .. Slots : \A q \in Phys : step[i][q] = CopyTable(q, from, to, i)
  OBVIOUS
<1> HIDE DEF step
<1>2. PICK f \in Traces(Slots, Phys) : Runs(Slots, f, p, step)
  <2>1. Keeps(Slots, good, step)
    <3>1. \A i \in 1 .. Slots : good[i - 1] \subseteq Phys
      BY Parameters DEF Goals
    <3>2. \A i \in 1 .. Slots : \A q \in good[i - 1] : step[i][q] \in good[i]
      BY <1>1, <3>1, Zenon
    <3> QED BY <3>2 DEF Keeps
  <2> QED BY <2>1, Rounds, Parameters
<1>3. f = [i \in 0 .. Slots |-> IF i = 0 THEN p ELSE CopyTable(f[i - 1], from, to, i)]
  BY <1>1, <1>2, Parameters DEF Runs, Traces
<1>4. g = [i \in 0 .. Slots |-> IF i = 0 THEN p ELSE CopyTable(g[i - 1], from, to, i)]
  BY <1>3
<1>5. CopyPrivate(p, from, to) = g[Slots]
  BY DEF Loop, CopyPrivate
<1> HIDE DEF g
<1>6. \A i \in 0 .. Slots : i \in {n \in 0 .. Slots : g[n] \in good[n]}
  <2> DEFINE kept == {n \in 0 .. Slots : g[n] \in good[n]}
  <2>1. 0 \in kept /\ \A i \in 1 .. Slots : i - 1 \in kept => i \in kept
    BY <1>4, Parameters
  <2> HIDE DEF kept
  <2>2. \A i \in 0 .. Slots : i \in kept
    BY <2>1, Induction, Parameters
  <2> QED BY <2>2 DEF kept
<1>7. g[Slots] \in good[Slots]
  BY <1>6, Parameters
<1> QED BY <1>5, <1>7, Zenon

-----------------------------------------------------------------------------
(* What an operation on one address space leaves alone. *)

\* Every directory, table and page belongs to one directory.
LEMMA Roots ==
  ASSUME NEW p, NEW w, Good(p, w)
  PROVE  \A f \in Frame : /\ Root(w, f) # 0 <=> w.kind[f] \in {"dir", "table", "page"}
                          /\ Root(w, f) # 0 => Root(w, f) \in Frame /\ w.kind[Root(w, f)] = "dir"
<1>1. TablesOK(p, w) /\ PagesOK(p, w) /\ \A f \in Frame : f # 0
  BY GoodTypes DEF Good
<1> SUFFICES ASSUME NEW f \in Frame
             PROVE  /\ Root(w, f) # 0 <=> w.kind[f] \in {"dir", "table", "page"}
                    /\ Root(w, f) # 0 => Root(w, f) \in Frame /\ w.kind[Root(w, f)] = "dir"
  OBVIOUS
<1>2. \A t \in Frame : w.kind[t] = "table" => w.up[t] \in Frame /\ w.kind[w.up[t]] = "dir"
  BY <1>1 DEF TablesOK
<1>3. \A g \in Frame : w.kind[g] = "page" => w.up[g] \in Frame /\ w.kind[w.up[g]] = "table"
  BY <1>1 DEF PagesOK
<1> QED BY <1>1, <1>2, <1>3 DEF Root

\* The role of frame x changes, a frame of directory d or of none.
LEMMA OneRole ==
  ASSUME NEW p, NEW w, Good(p, w), NEW q, NEW v, NEW d \in Frame, NEW x \in Frame,
         Root(w, x) \in {0, d},
         \A f \in Frame : f # x => v.kind[f] = w.kind[f] /\ v.up[f] = w.up[f] /\ v.at[f] = w.at[f],
         \/ v.kind[x] \in {"free", "held"}
         \/ v.kind[x] = "table" /\ v.up[x] = d
         \/ v.kind[x] = "page" /\ v.up[x] \in Frame /\ v.up[x] # x /\ w.up[v.up[x]] = d,
         w.kind[x] = "table" => v.up[x] \in {0, d},
         w.kind[x] # "dir",
         \A f \in Frame : Root(w, f) \notin {0, d} => q.mem[f] = p.mem[f]
  PROVE  Others(p, w, q, v, d)
<1>1. TablesOK(p, w) /\ PagesOK(p, w) /\ \A f \in Frame : f # 0
  BY GoodTypes DEF Good
<1>2. \A t \in Frame : w.kind[t] = "table" => w.up[t] \in Frame /\ w.kind[w.up[t]] = "dir"
  BY <1>1 DEF TablesOK
<1>3. \A g \in Frame : w.kind[g] = "page" => w.up[g] \in Frame /\ w.kind[w.up[g]] = "table"
  BY <1>1 DEF PagesOK
<1>4. Root(v, x) \in {0, d}
  BY <1>1 DEF Root
<1>5. ASSUME NEW f \in Frame, f # x
      PROVE  Root(v, f) = Root(w, f) \/ (Root(v, f) \in {0, d} /\ Root(w, f) \in {0, d})
  <2>1. CASE w.kind[f] = "page" /\ w.up[f] = x
    BY <1>3, <1>5, <2>1 DEF Root
  <2>2. CASE ~(w.kind[f] = "page" /\ w.up[f] = x)
    BY <1>3, <1>5, <2>2 DEF Root
  <2> QED BY <2>1, <2>2
<1> SUFFICES ASSUME NEW f \in Frame
      PROVE /\ Root(v, f) \notin {0, d} => Root(w, f) = Root(v, f)
            /\ Root(w, f) \notin {0, d} =>
                 /\ v.kind[f] = w.kind[f] /\ v.up[f] = w.up[f] /\ v.at[f] = w.at[f]
                 /\ q.mem[f] = p.mem[f] /\ Root(v, f) = Root(w, f)
  BY DEF Others
<1> QED BY <1>4, <1>5

\* Two operations on one address space are one.
LEMMA OthersTrans ==
  ASSUME NEW p, NEW w, NEW q, NEW v, NEW r, NEW u, NEW d,
         Others(p, w, q, v, d), Others(q, v, r, u, d)
  PROVE  Others(p, w, r, u, d)
BY DEF Others

LEMMA OthersSame ==
  ASSUME NEW p, NEW w, NEW d
  PROVE  Others(p, w, p, w, d)
BY DEF Others

\* An operation on the address space with directory d that leaves the table of the
\* interrupt controllers where it is.
Within(p, w, q, v, d) ==
  /\ Others(p, w, q, v, d) /\ q.mem[d][Slots] = p.mem[d][Slots]
  /\ \A f \in Frame : /\ v.kind[f] = "held" <=> w.kind[f] = "held"
                      /\ v.kind[f] = "dir" <=> w.kind[f] = "dir"

LEMMA WithinTrans ==
  ASSUME NEW p, NEW w, NEW q, NEW v, NEW r, NEW u, NEW d,
         Within(p, w, q, v, d), Within(q, v, r, u, d)
  PROVE  Within(p, w, r, u, d)
BY OthersTrans DEF Within

LEMMA WithinSame ==
  ASSUME NEW p, NEW w, NEW d
  PROVE  Within(p, w, p, w, d)
BY OthersSame DEF Within

-----------------------------------------------------------------------------
(* delete_private(). *)

\* The page tables as words of frames.
LEMMA WalkIs ==
  ASSUME NEW p, NEW d, NEW i, NEW j
  PROVE  /\ Walk(p, d, <<i, j>>) = IF p.mem[d][i] = 0 THEN 0 ELSE p.mem[p.mem[d][i]][j]
         /\ PageAt(p, d, <<i, j>>) = IF IsApic(i, j) \/ p.mem[d][i] = 0 THEN 0
                                     ELSE p.mem[p.mem[d][i]][j]
         /\ ClearPage(p, d, <<i, j>>) =
              IF PageAt(p, d, <<i, j>>) = 0 THEN p
              ELSE DeallocFrame(Store(p, p.mem[d][i], j, 0), PageAt(p, d, <<i, j>>))
         /\ <<i, j>> \in Special <=> IsApic(i, j)
<1>1. <<i, j>>[1] = i /\ <<i, j>>[2] = j
  OBVIOUS
<1>2. <<i, j>> \in Special <=> IsApic(i, j)
  BY SpecialPage
<1>3. Walk(p, d, <<i, j>>) = IF p.mem[d][i] = 0 THEN 0 ELSE p.mem[p.mem[d][i]][j]
  BY <1>1, Zenon DEF Walk
<1>4. PageAt(p, d, <<i, j>>) = IF IsApic(i, j) THEN 0 ELSE Walk(p, d, <<i, j>>)
  BY <1>2, Zenon DEF PageAt
<1>5. Store(p, p.mem[d][i], j, 0) = [p EXCEPT !.mem[p.mem[d][<<i, j>>[1]]][<<i, j>>[2]] = 0]
  BY <1>1, Zenon DEF Store
<1>6. ClearPage(p, d, <<i, j>>) =
        IF PageAt(p, d, <<i, j>>) = 0 THEN p
        ELSE DeallocFrame(Store(p, p.mem[d][i], j, 0), PageAt(p, d, <<i, j>>))
  BY <1>5, Zenon DEF ClearPage
<1> QED BY <1>2, <1>3, <1>4, <1>6

\* One round of the inner loop of delete_private().
LEMMA ClearOne ==
  ASSUME NEW p, NEW w, Good(p, w), NEW d \in Frame, w.kind[d] = "dir",
         NEW i \in Slot, NEW j \in Slot, p.mem[d][i] # 0
  PROVE  LET q == ClearPage(p, d, <<i, j>>)
             t == p.mem[d][i]
         IN  \E v : /\ Good(q, v) /\ Within(p, w, q, v, d) /\ q.mem[d] = p.mem[d]
                    /\ \A k \in Slot : q.mem[t][k] = IF k = j /\ ~IsApic(i, j) THEN 0 ELSE p.mem[t][k]
<1> DEFINE q == ClearPage(p, d, <<i, j>>)
           t == p.mem[d][i]
           g == p.mem[t][j]
           p1 == Store(p, t, j, 0)
           w1 == Dropped(w, g)
           v == Freed(w1, g)
<1>1. p \in Phys /\ w \in Roles /\ DirsOK(p, w) /\ TablesOK(p, w) /\ PagesOK(p, w)
  BY DEF Good
<1>2. t \in Frame /\ w.kind[t] = "table" /\ w.up[t] = d /\ w.at[t] = i
  BY <1>1 DEF DirsOK
<1>3. CASE IsApic(i, j) \/ g = 0
  <2>1. q = p
    BY <1>3, WalkIs
  <2> QED BY <1>3, <2>1, WithinSame
<1>4. CASE ~IsApic(i, j) /\ g # 0
  <2>1. g \in Frame /\ w.kind[g] = "page" /\ w.up[g] = t /\ w.at[g] = j
    BY <1>1, <1>2, <1>4 DEF TablesOK
  <2>2. PageAt(p, d, <<i, j>>) = g /\ q = DeallocFrame(p1, g)
    BY <1>4, WalkIs
  <2>x. p1 = Store(p, w.up[g], w.at[g], 0) /\ t \in Frame /\ p1 = Store(p, t, j, 0)
    BY <1>2, <2>1
  <2> HIDE DEF g, t, p1
  <2>3. Good(p1, w1)
    BY <2>1, <2>x, DropPage
  <2>4. /\ w1.kind[g] = "held"
        /\ \A f \in Frame : f # g => w1.kind[f] = w.kind[f] /\ w1.up[f] = w.up[f] /\ w1.at[f] = w.at[f]
    BY <1>1, <2>1, DropType
  <2>5. /\ \A f \in Frame : f # t => p1.mem[f] = p.mem[f]
        /\ p1.mem[t][j] = 0 /\ \A k \in Slot : k # j => p1.mem[t][k] = p.mem[t][k]
    BY <1>1, <2>x, StoreEffect
  <2>6. /\ Good(q, v) /\ v.kind[g] = "free" /\ v.up = w1.up
        /\ \A f \in Frame : f # g => q.mem[f] = p1.mem[f] /\ v.kind[f] = w1.kind[f]
             /\ v.at[f] = w1.at[f]
    BY <2>1, <2>2, <2>3, <2>4, Dealloc
  <2> HIDE DEF q, v, w1
  <2>7. Others(p, w, p1, w1, d)
    <3>1. Root(w, g) = d /\ Root(w, t) = d
      BY <1>2, <2>1 DEF Root, t
    <3>2. \A f \in Frame : Root(w, f) \notin {0, d} => p1.mem[f] = p.mem[f]
      BY <2>5, <3>1
    <3> QED BY <2>1, <2>4, <3>1, <3>2, OneRole
  <2>8. Others(p1, w1, q, v, d)
    <3>1. Root(w1, g) = 0
      BY <2>4 DEF Root
    <3>2. \A f \in Frame : Root(w1, f) \notin {0, d} => q.mem[f] = p1.mem[f]
      BY <2>6, <3>1
    <3> QED BY <2>1, <2>3, <2>4, <2>6, <3>1, <3>2, OneRole
  <2>9. t # g /\ d # g /\ d # t
    BY <1>2, <2>1 DEF t
  <2>10. q.mem[d] = p.mem[d]
    BY <2>5, <2>6, <2>9
  <2>11. \A k \in Slot : q.mem[t][k] = IF k = j THEN 0 ELSE p.mem[t][k]
    BY <2>x, <2>5, <2>6, <2>9
  <2>12. Within(p, w, q, v, d)
    <3>1. \A f \in Frame : /\ v.kind[f] = "held" <=> w.kind[f] = "held"
                           /\ v.kind[f] = "dir" <=> w.kind[f] = "dir"
      BY <2>1, <2>4, <2>6
    <3> QED BY <2>7, <2>8, <2>10, <3>1, OthersTrans DEF Within
  <2> QED BY <1>4, <2>6, <2>10, <2>11, <2>12 DEF q, t
<1> QED BY <1>3, <1>4

\* A frame that is no longer referred to, after its table's or directory's
\* entry for it was cleared, goes to the allocator.
LEMMA FreeDropped ==
  ASSUME NEW p, NEW w, Good(p, w), NEW d \in Frame, NEW x \in Frame, w.kind[x] = "held"
  PROVE  LET q == DeallocFrame(p, x)
             v == Freed(w, x)
         IN  /\ Good(q, v) /\ Others(p, w, q, v, d) /\ v.kind[x] = "free"
             /\ Budget(q, v) = Budget(p, w) + 1
             /\ \A f \in Frame : f # x => q.mem[f] = p.mem[f] /\ v.kind[f] = w.kind[f]
                                          /\ v.up[f] = w.up[f] /\ v.at[f] = w.at[f]
<1> DEFINE q == DeallocFrame(p, x)
           v == Freed(w, x)
<1>1. /\ Good(q, v) /\ Budget(q, v) = Budget(p, w) + 1 /\ v.kind[x] = "free" /\ v.up = w.up
      /\ \A f \in Frame : f # x => q.mem[f] = p.mem[f] /\ v.kind[f] = w.kind[f] /\ v.at[f] = w.at[f]
  BY Dealloc
<1> HIDE DEF q, v
<1>2. Root(w, x) = 0
  BY DEF Root
<1>3. \A f \in Frame : Root(w, f) \notin {0, d} => q.mem[f] = p.mem[f]
  BY <1>1, <1>2
<1>4. Others(p, w, q, v, d)
  BY <1>1, <1>2, <1>3, OneRole
<1> QED BY <1>1, <1>4 DEF q, v

\* One round of the outer loop: every page of the table is gone, and so is the table
\* unless it has the page of the interrupt controllers.
LEMMA ClearTableOne ==
  ASSUME NEW p, NEW w, Good(p, w), NEW d \in Frame, w.kind[d] = "dir", NEW i \in Slot
  PROVE  LET q == ClearTable(p, d, i) IN \E v : Good(q, v) /\ Within(p, w, q, v, d)
<1> DEFINE t == p.mem[d][i]
           OK(x, v, j) == /\ Good(x, v) /\ Within(p, w, x, v, d) /\ x.mem[d] = p.mem[d]
                          /\ \A k \in 1 .. j : IsApic(i, k) \/ x.mem[t][k] = 0
           good == [j \in 0 .. Slots |-> {x \in Phys : \E v : OK(x, v, j)}]
           c == ClearPages(p, d, i)
<1>1. CASE t = 0
  <2>1. ClearTable(p, d, i) = p
    BY <1>1 DEF ClearTable
  <2> QED BY <2>1, WithinSame
<1>2. CASE t # 0
  <2>1. ClearTable(p, d, i) = IF HasSpecial(i) THEN c ELSE DeallocFrame(Store(c, d, i, 0), t)
    BY <1>2, Zenon DEF ClearTable, Store
  <2>2. c \in good[Slots]
    <3>1. good \in Goals(Slots, Phys)
      BY DEF Goals
    <3>2. p \in good[0]
      <4>1. OK(p, w, 0) /\ p \in Phys
        BY WithinSame DEF Good
      <4>2. 0 \in 0 .. Slots
        BY Parameters
      <4> HIDE DEF OK
      <4> QED BY <4>1, <4>2
    <3>3. ASSUME NEW j \in 1 .. Slots, NEW x \in good[j - 1]
          PROVE  ClearPage(x, d, <<i, j>>) \in good[j]
      <4>1. j \in Slot /\ j - 1 \in 0 .. Slots /\ j \in 0 .. Slots
        BY Parameters DEF Slot
      <4> HIDE DEF OK
      <4>2. PICK v : OK(x, v, j - 1)
        BY <4>1
      <4> USE DEF OK
      <4>3. v.kind[d] = "dir" /\ x.mem[d][i] = t /\ t # 0
        BY <1>2, <4>2 DEF Within
      <4> DEFINE y == ClearPage(x, d, <<i, j>>)
      <4> HIDE DEF t
      <4>4. PICK u : /\ Good(y, u) /\ Within(x, v, y, u, d) /\ y.mem[d] = x.mem[d]
                     /\ \A k \in Slot : y.mem[t][k] = IF k = j /\ ~IsApic(i, j) THEN 0 ELSE x.mem[t][k]
        BY <4>1, <4>2, <4>3, ClearOne
      <4> HIDE DEF y
      <4>5. \A k \in 1 .. j : IsApic(i, k) \/ y.mem[t][k] = 0
        <5>1. \A k \in 1 .. j : k \in Slot /\ (k = j \/ k \in 1 .. j - 1)
          BY Parameters DEF Slot
        <5> QED BY <4>2, <4>4, <5>1
      <4>6. OK(y, u, j) /\ y \in Phys
        BY <4>2, <4>4, <4>5, WithinTrans DEF Good
      <4> HIDE DEF OK
      <4> QED BY <4>1, <4>6 DEF y
    <3> HIDE DEF good, OK
    <3> QED BY <3>1, <3>2, <3>3, LoopOfClearPages
  <2>3. PICK v : OK(c, v, Slots)
    <3> HIDE DEF OK, c
    <3> QED BY <2>2, Parameters
  <2>4. CASE HasSpecial(i)
    BY <2>1, <2>3, <2>4
  <2>5. CASE ~HasSpecial(i)
    <3> HIDE DEF c
    <3>1. v.kind[d] = "dir" /\ c.mem[d][i] = t /\ c \in Phys /\ v \in Roles /\ DirsOK(c, v)
      BY <2>3 DEF Within, Good
    <3>2. \A k \in Slot : ~IsApic(i, k)
      BY <2>5, SpecialPage DEF HasSpecial, Slot
    <3>3. \A k \in Slot : c.mem[t][k] = 0
      BY <2>3, <3>2 DEF Slot
    <3> HIDE DEF t
    <3>4. t \in Frame /\ v.kind[t] = "table" /\ v.up[t] = d /\ v.at[t] = i
      BY <1>2, <3>1 DEF DirsOK
    <3>5. i # Slots
      BY <3>2, Parameters DEF IsApic, Slot
    <3> DEFINE c1 == Store(c, d, i, 0)
               v1 == Dropped(v, t)
               q == DeallocFrame(c1, t)
               u == Freed(v1, t)
    <3>6. Good(c1, v1)
      BY <2>3, <3>3, <3>4, DropTable
    <3>7. /\ v1.kind[t] = "held" /\ v1.up[t] = 0
          /\ \A f \in Frame : f # t => v1.kind[f] = v.kind[f] /\ v1.up[f] = v.up[f]
               /\ v1.at[f] = v.at[f]
      BY <3>1, <3>4, DropType
    <3>8. /\ \A f \in Frame : f # d => c1.mem[f] = c.mem[f]
          /\ \A k \in Slot : k # i => c1.mem[d][k] = c.mem[d][k]
      BY <3>1, StoreEffect
    <3> HIDE DEF c1, v1
    <3>9. Others(c, v, c1, v1, d)
      <4>1. Root(v, t) = d /\ Root(v, d) = d
        BY <3>1, <3>4 DEF Root
      <4>2. \A f \in Frame : Root(v, f) \notin {0, d} => c1.mem[f] = c.mem[f]
        BY <3>8, <4>1
      <4> QED BY <2>3, <3>4, <3>7, <4>1, <4>2, OneRole
    <3>10. v1.kind[d] = "dir"
      BY <3>1, <3>4, <3>7
    <3>11. /\ Good(q, u) /\ Others(c1, v1, q, u, d) /\ u.kind[t] = "free"
           /\ \A f \in Frame : f # t => u.kind[f] = v1.kind[f] /\ q.mem[f] = c1.mem[f]
      BY <3>4, <3>6, <3>7, FreeDropped
    <3> HIDE DEF q, u
    <3>12. Within(c, v, q, u, d)
      <4>1. \A f \in Frame : /\ u.kind[f] = "held" <=> v.kind[f] = "held"
                             /\ u.kind[f] = "dir" <=> v.kind[f] = "dir"
        BY <3>4, <3>7, <3>11
      <4>2. q.mem[d][Slots] = c.mem[d][Slots]
        BY <3>1, <3>4, <3>5, <3>8, <3>11, Parameters DEF Slot
      <4> QED BY <3>9, <3>11, <4>1, <4>2, OthersTrans DEF Within
    <3>13. Within(p, w, q, u, d)
      BY <2>3, <3>12, WithinTrans
    <3>14. ClearTable(p, d, i) = q
      BY <2>1, <2>5 DEF q, c1
    <3> QED BY <3>11, <3>13, <3>14
  <2> QED BY <2>4, <2>5
<1> QED BY <1>1, <1>2

\* delete_private() keeps all other address spaces, and the directory.
LEMMA DeletePrivateKeeps ==
  ASSUME NEW p, NEW w, Good(p, w), NEW d \in Frame, w.kind[d] = "dir"
  PROVE  LET q == DeletePrivate(p, d) IN \E v : Good(q, v) /\ Within(p, w, q, v, d)
<1> DEFINE OK(x, v) == Good(x, v) /\ Within(p, w, x, v, d)
           good == [i \in 0 .. Slots |-> {x \in Phys : \E v : OK(x, v)}]
<1>1. good \in Goals(Slots, Phys)
  BY DEF Goals
<1>2. p \in good[0]
  <2>1. OK(p, w) /\ p \in Phys
    BY WithinSame DEF Good
  <2>2. 0 \in 0 .. Slots
    BY Parameters
  <2> HIDE DEF OK
  <2> QED BY <2>1, <2>2
<1>3. ASSUME NEW i \in 1 .. Slots, NEW x \in good[i - 1]
      PROVE  ClearTable(x, d, i) \in good[i]
  <2>1. i \in Slot /\ i - 1 \in 0 .. Slots /\ i \in 0 .. Slots
    BY Parameters DEF Slot
  <2> HIDE DEF OK
  <2>2. PICK v : OK(x, v)
    BY <2>1
  <2> USE DEF OK
  <2>3. v.kind[d] = "dir"
    BY <2>2 DEF Within
  <2> DEFINE y == ClearTable(x, d, i)
  <2>4. PICK u : Good(y, u) /\ Within(x, v, y, u, d)
    BY <2>1, <2>2, <2>3, ClearTableOne
  <2>5. OK(y, u) /\ y \in Phys
    BY <2>2, <2>4, WithinTrans DEF Good
  <2> HIDE DEF OK
  <2> QED BY <2>1, <2>5
<1> HIDE DEF OK
<1>4. DeletePrivate(p, d) \in good[Slots]
  <2> HIDE DEF good
  <2> QED BY <1>1, <1>2, <1>3, LoopOfDeletePrivate
<1> USE DEF OK
<1> QED BY <1>4, Parameters

-----------------------------------------------------------------------------
(* delete_pd(). *)

\* The entry of the directory through which a table or a page is reached.
Row(w, f) == IF w.kind[f] = "table" THEN w.at[f] ELSE w.at[w.up[f]]

\* What is still to be freed, of directory d in state w, after table i and
\* page j of it.
Kept(w, d, i, j, f) ==
  /\ Root(w, f) = d
  /\ \/ w.kind[f] = "dir"
     \/ Row(w, f) > i
     \/ Row(w, f) = i /\ (w.kind[f] = "table" \/ w.at[f] > j)

\* The tables and pages of a directory are where its entries say.
LEMMA Places ==
  ASSUME NEW p, NEW w, Good(p, w), NEW d \in Frame, w.kind[d] = "dir", NEW f \in Frame, Root(w, f) = d
  PROVE  /\ w.kind[f] = "dir" => f = d
         /\ w.kind[f] = "table" => Row(w, f) \in Slot /\ f = p.mem[d][Row(w, f)]
         /\ w.kind[f] = "page" =>
              /\ Row(w, f) \in Slot /\ w.at[f] \in Slot /\ ~IsApic(Row(w, f), w.at[f])
              /\ w.up[f] = p.mem[d][Row(w, f)] /\ w.up[f] # 0 /\ f = p.mem[w.up[f]][w.at[f]]
         /\ w.kind[f] \in {"dir", "table", "page"}
<1>1. DirsOK(p, w) /\ TablesOK(p, w) /\ PagesOK(p, w) /\ \A x \in Frame : x # 0
  BY GoodTypes DEF Good
<1>2. w.kind[f] \in {"dir", "table", "page"}
  BY <1>1, Roots
<1>3. CASE w.kind[f] = "dir"
  BY <1>3 DEF Root
<1>4. CASE w.kind[f] = "table"
  BY <1>1, <1>4 DEF Root, Row, TablesOK
<1>5. CASE w.kind[f] = "page"
  <2>1. /\ w.up[f] \in Frame /\ w.kind[w.up[f]] = "table" /\ w.up[w.up[f]] = d
             /\ Row(w, f) = w.at[w.up[f]]
        /\ w.at[f] \in Slot /\ f = p.mem[w.up[f]][w.at[f]] /\ ~IsApic(Row(w, f), w.at[f])
    BY <1>1, <1>5 DEF Root, Row, PagesOK
  <2>2. w.at[w.up[f]] \in Slot /\ p.mem[d][w.at[w.up[f]]] = w.up[f]
    BY <1>1, <2>1 DEF TablesOK
  <2> QED BY <1>1, <1>5, <2>1, <2>2
<1> QED BY <1>2, <1>3, <1>4, <1>5

\* After some rounds: what is left is held and as it was.
Deleting(p, w, d, i, j, x, v) ==
  /\ Good(x, v) /\ Others(p, w, x, v, d)
  /\ \A f \in Frame : /\ v.kind[f] = "held" <=> Kept(w, d, i, j, f)
                      /\ Kept(w, d, i, j, f) => x.mem[f] = p.mem[f]

\* Frame g is freed, if there is one, and what is left is as much less.
LEMMA DeletingStep ==
  ASSUME NEW p, NEW w, NEW d \in Frame, NEW i, NEW j, NEW x, NEW v, Deleting(p, w, d, i, j, x, v),
         NEW k, NEW l, NEW g \in Frame, Kept(w, d, i, j, g),
         \A f \in Frame : Kept(w, d, k, l, f) <=> Kept(w, d, i, j, f) /\ f # g
  PROVE  \E u : Deleting(p, w, d, k, l, DeallocFrame(x, g), u) /\ u.kind[g] = "free"
<1> DEFINE y == DeallocFrame(x, g)
           u == Freed(v, g)
<1>1. Good(x, v) /\ v.kind[g] = "held"
  BY DEF Deleting
<1>2. /\ Good(y, u) /\ Others(x, v, y, u, d) /\ u.kind[g] = "free"
      /\ \A f \in Frame : f # g => y.mem[f] = x.mem[f] /\ u.kind[f] = v.kind[f]
  BY <1>1, FreeDropped
<1> HIDE DEF y, u
<1>3. Others(p, w, y, u, d)
  BY <1>2, OthersTrans DEF Deleting
<1>4. ASSUME NEW f \in Frame
      PROVE  /\ u.kind[f] = "held" <=> Kept(w, d, k, l, f)
             /\ Kept(w, d, k, l, f) => y.mem[f] = p.mem[f]
  BY <1>2 DEF Deleting
<1>5. Deleting(p, w, d, k, l, y, u)
  BY <1>2, <1>3, <1>4 DEF Deleting
<1> QED BY <1>2, <1>5 DEF y

\* One round of the inner loop of delete_pd(), which leaves the entry as it is.
LEMMA ReleaseIs ==
  ASSUME NEW p, NEW d, NEW i, NEW j
  PROVE  ReleasePage(p, d, <<i, j>>) =
           LET g == p.mem[p.mem[d][i]][j]
           IN  IF IsApic(i, j) \/ p.mem[d][i] = 0 \/ g = 0 THEN p ELSE DeallocFrame(p, g)
<1>1. PageAt(p, d, <<i, j>>) = IF IsApic(i, j) \/ p.mem[d][i] = 0 THEN 0 ELSE p.mem[p.mem[d][i]][j]
  BY WalkIs
<1> QED BY <1>1 DEF ReleasePage

\* It frees the page, if there is one.
LEMMA ReleasePageKeeps ==
  ASSUME NEW p, NEW w, Good(p, w), NEW d \in Frame, w.kind[d] = "dir", NEW i \in Slot, NEW j \in Slot,
         p.mem[d][i] # 0, NEW x, NEW v, Deleting(p, w, d, i, j - 1, x, v)
  PROVE  \E u : Deleting(p, w, d, i, j, ReleasePage(x, d, <<i, j>>), u)
<1> DEFINE t == p.mem[d][i]
           g == p.mem[t][j]
<1>1. d \in Nat /\ i \in Nat /\ j \in Nat /\ \A f \in Frame : f # 0 /\ w.at[f] \in Nat
  BY GoodTypes, Parameters DEF Slot
<1>2. t \in Frame /\ w.kind[t] = "table" /\ w.up[t] = d /\ w.at[t] = i
  BY DEF Good, DirsOK
<1>3. Kept(w, d, i, j - 1, d) /\ Kept(w, d, i, j - 1, t)
  BY <1>2 DEF Kept, Root, Row
<1>4. x.mem[d] = p.mem[d] /\ x.mem[t] = p.mem[t]
  BY <1>2, <1>3 DEF Deleting
<1>5. ReleasePage(x, d, <<i, j>>) = IF IsApic(i, j) \/ g = 0 THEN x ELSE DeallocFrame(x, g)
  BY <1>2, <1>4, ReleaseIs
<1>6. ASSUME NEW f \in Frame
      PROVE  Kept(w, d, i, j, f) <=> /\ Kept(w, d, i, j - 1, f)
                                     /\ ~(w.kind[f] = "page" /\ Root(w, f) = d /\ Row(w, f) = i
                                          /\ w.at[f] = j)
  BY <1>1, Places DEF Kept
<1>7. ASSUME NEW f \in Frame, w.kind[f] = "page", Root(w, f) = d, Row(w, f) = i, w.at[f] = j
      PROVE  f = g /\ ~IsApic(i, j)
  BY <1>7, Places
<1>8. CASE IsApic(i, j) \/ g = 0
  <2>1. \A f \in Frame : Kept(w, d, i, j, f) <=> Kept(w, d, i, j - 1, f)
    BY <1>1, <1>6, <1>7, <1>8
  <2> QED BY <1>5, <1>8, <2>1 DEF Deleting
<1>9. CASE ~IsApic(i, j) /\ g # 0
  <2>1. g \in Frame /\ w.kind[g] = "page" /\ w.up[g] = t /\ w.at[g] = j
    BY <1>2, <1>9 DEF Good, TablesOK
  <2>2. Root(w, g) = d /\ Row(w, g) = i
    BY <1>2, <2>1 DEF Root, Row
  <2>3. Kept(w, d, i, j - 1, g)
    BY <1>1, <2>1, <2>2 DEF Kept
  <2>4. \A f \in Frame : Kept(w, d, i, j, f) <=> Kept(w, d, i, j - 1, f) /\ f # g
    BY <1>6, <1>7, <2>1, <2>2
  <2> HIDE DEF g, t
  <2>5. PICK u : Deleting(p, w, d, i, j, DeallocFrame(x, g), u)
    BY <2>1, <2>3, <2>4, DeletingStep
  <2> QED BY <1>5, <1>9, <2>5
<1> QED BY <1>8, <1>9

\* One round of the outer loop frees the pages of the table and then the table.
LEMMA ReleaseTableKeeps ==
  ASSUME NEW p, NEW w, Good(p, w), NEW d \in Frame, w.kind[d] = "dir", NEW i \in Slot,
         NEW x, NEW v, Deleting(p, w, d, i, 0, x, v)
  PROVE  \E u : Deleting(p, w, d, i + 1, 0, ReleaseTable(x, d, i), u)
<1> DEFINE t == p.mem[d][i]
           good == [j \in 0 .. Slots |-> {y \in Phys : \E u : Deleting(p, w, d, i, j, y, u)}]
<1>1. d \in Nat /\ i \in Nat /\ Slots \in Nat /\ \A f \in Frame : f # 0 /\ w.at[f] \in Nat
  BY GoodTypes, Parameters DEF Slot
<1>2. Kept(w, d, i, 0, d) /\ x.mem[d] = p.mem[d] /\ x \in Phys
  BY DEF Kept, Root, Deleting, Good
<1>3. \A f \in Frame : Root(w, f) = d =>
        \/ w.kind[f] = "dir"
        \/ w.kind[f] = "table" /\ Row(w, f) \in Nat /\ f = p.mem[d][Row(w, f)]
        \/ /\ w.kind[f] = "page" /\ Row(w, f) \in Nat /\ w.at[f] \in Nat
           /\ w.at[f] > 0 /\ ~(w.at[f] > Slots) /\ p.mem[d][Row(w, f)] # 0
  BY <1>1, Places DEF Slot
<1>4. CASE t = 0
  <2>1. ReleaseTable(x, d, i) = x
    BY <1>2, <1>4 DEF ReleaseTable
  <2>2. ASSUME NEW f \in Frame PROVE Kept(w, d, i + 1, 0, f) <=> Kept(w, d, i, 0, f)
    <3>1. Root(w, f) = d => w.kind[f] = "dir" \/ Row(w, f) # i
      BY <1>1, <1>3, <1>4
    <3> QED BY <1>1, <1>3, <3>1 DEF Kept
  <2> QED BY <2>1, <2>2 DEF Deleting
<1>5. CASE t # 0
  <2>1. ReleaseTable(x, d, i) = DeallocFrame(ReleasePages(x, d, i), t)
    BY <1>2, <1>5 DEF ReleaseTable
  <2>2. ReleasePages(x, d, i) \in good[Slots]
    <3>1. good \in Goals(Slots, Phys)
      BY DEF Goals
    <3>2. x \in good[0]
      BY <1>1, <1>2
    <3>3. ASSUME NEW j \in 1 .. Slots, NEW y \in good[j - 1]
          PROVE  ReleasePage(y, d, <<i, j>>) \in good[j]
      <4>1. j \in Slot /\ j - 1 \in 0 .. Slots /\ j \in 0 .. Slots
        BY Parameters DEF Slot
      <4>2. PICK u : Deleting(p, w, d, i, j - 1, y, u)
        BY <4>1
      <4> DEFINE z == ReleasePage(y, d, <<i, j>>)
      <4> HIDE DEF z
      <4>3. PICK s : Deleting(p, w, d, i, j, z, s)
        <5> HIDE DEF t
        <5>1. p.mem[d][i] # 0
          BY <1>5 DEF t
        <5> QED BY <4>1, <4>2, <5>1, ReleasePageKeeps DEF z
      <4>4. z \in Phys
        BY <4>3 DEF Deleting, Good
      <4> QED BY <4>1, <4>3, <4>4 DEF z
    <3> HIDE DEF good
    <3> QED BY <3>1, <3>2, <3>3, LoopOfReleasePages
  <2>3. PICK u : Deleting(p, w, d, i, Slots, ReleasePages(x, d, i), u)
    BY <1>1, <2>2
  <2>4. t \in Frame /\ w.kind[t] = "table" /\ w.up[t] = d /\ w.at[t] = i
    BY <1>5 DEF Good, DirsOK
  <2>5. Root(w, t) = d /\ Row(w, t) = i
    BY <2>4 DEF Root, Row
  <2>6. Kept(w, d, i, Slots, t)
    BY <2>4, <2>5 DEF Kept
  <2>7. ASSUME NEW f \in Frame
        PROVE  Kept(w, d, i + 1, 0, f) <=> Kept(w, d, i, Slots, f) /\ f # t
    <3>1. Root(w, f) = d /\ w.kind[f] = "table" => (Row(w, f) = i <=> f = t)
      BY <1>3, <2>4, <2>5
    <3> HIDE DEF t
    <3> QED BY <1>1, <1>3, <2>4, <3>1 DEF Kept
  <2> HIDE DEF t, good
  <2> DEFINE k == i + 1
             l == 0
             y == ReleasePages(x, d, i)
  <2>8. \A f \in Frame : Kept(w, d, k, l, f) <=> Kept(w, d, i, Slots, f) /\ f # t
    BY <2>7
  <2> HIDE DEF k, l, y
  <2>9. PICK s : Deleting(p, w, d, k, l, DeallocFrame(y, t), s)
    BY <2>3, <2>4, <2>6, <2>8, DeletingStep DEF y
  <2> QED BY <2>1, <2>9 DEF k, l, y
<1> QED BY <1>4, <1>5

\* delete_pd() frees exactly what the directory leads to.
LEMMA DeletePdKeeps ==
  ASSUME NEW p, NEW w, Good(p, w), NEW d \in Frame, w.kind[d] = "dir",
         \A f \in Frame : w.kind[f] # "held"
  PROVE  \E v : /\ Good(DeletePd(p, d), v) /\ Others(p, w, DeletePd(p, d), v, d)
                /\ \A f \in Frame : v.kind[f] # "held"
                     /\ (v.kind[f] = "dir" <=> w.kind[f] = "dir" /\ f # d)
<1> DEFINE v0 == Orphan(w, d)
           good == [i \in 0 .. Slots |-> {x \in Phys : \E v : Deleting(p, w, d, i + 1, 0, x, v)}]
<1>1. d \in Nat /\ Slots \in Nat /\ \A f \in Frame : f # 0 /\ w.at[f] \in Nat
  BY GoodTypes, Parameters DEF Slot
<1>2. \A f \in Frame : Root(w, f) = d =>
        \/ w.kind[f] = "dir" /\ f = d
        \/ w.kind[f] = "table" /\ Row(w, f) \in Nat /\ Row(w, f) > 0 /\ ~(Row(w, f) > Slots)
        \/ /\ w.kind[f] = "page" /\ Row(w, f) \in Nat /\ Row(w, f) > 0 /\ ~(Row(w, f) > Slots)
           /\ w.at[f] \in Nat /\ w.at[f] > 0
  BY <1>1, Places DEF Slot
<1>3. Deleting(p, w, d, 1, 0, p, v0)
  <2>1. /\ Good(p, v0) /\ v0.up = w.up /\ v0.at = w.at
        /\ \A f \in Frame : v0.kind[f] = IF Root(w, f) = d THEN "held" ELSE w.kind[f]
    BY DropDir
  <2> HIDE DEF v0
  <2>2. \A f \in Frame : Root(w, f) # d => Root(v0, f) = Root(w, f)
    <3>1. \A f \in Frame : w.kind[f] = "page" => w.up[f] \in Frame /\ w.kind[w.up[f]] = "table"
      BY DEF Good, PagesOK
    <3> QED BY <2>1, <3>1 DEF Root
  <2>3. \A f \in Frame : Root(w, f) = d => Root(v0, f) = 0
    BY <2>1 DEF Root
  <2>4. Others(p, w, p, v0, d)
    BY <2>1, <2>2, <2>3 DEF Others, Root
  <2>5. \A f \in Frame : Kept(w, d, 1, 0, f) <=> Root(w, f) = d
    BY <1>2 DEF Kept
  <2> QED BY <2>1, <2>4, <2>5 DEF Deleting
<1>4. ReleaseTables(p, d) \in good[Slots]
  <2>1. good \in Goals(Slots, Phys)
    BY DEF Goals
  <2>2. p \in good[0]
    <3>1. p \in Phys /\ 0 \in 0 .. Slots /\ 0 + 1 = 1
      BY <1>1 DEF Good
    <3> HIDE DEF v0
    <3> QED BY <1>3, <3>1
  <2>3. ASSUME NEW i \in 1 .. Slots, NEW x \in good[i - 1]
        PROVE  ReleaseTable(x, d, i) \in good[i]
    <3>1. i \in Slot /\ i - 1 \in 0 .. Slots /\ i \in 0 .. Slots /\ (i - 1) + 1 = i
      BY Parameters DEF Slot
    <3>2. PICK v : Deleting(p, w, d, i, 0, x, v)
      BY <3>1
    <3> DEFINE y == ReleaseTable(x, d, i)
    <3> HIDE DEF y
    <3>3. PICK u : Deleting(p, w, d, i + 1, 0, y, u)
      BY <3>1, <3>2, ReleaseTableKeeps DEF y
    <3>4. y \in Phys
      BY <3>3 DEF Deleting, Good
    <3> QED BY <3>1, <3>3, <3>4 DEF y
  <2> HIDE DEF good
  <2> QED BY <2>1, <2>2, <2>3, LoopOfReleaseTables
<1>5. PICK v : Deleting(p, w, d, Slots + 1, 0, ReleaseTables(p, d), v)
  BY <1>1, <1>4
<1> HIDE DEF good
<1>6. \A f \in Frame : Kept(w, d, Slots + 1, 0, f) <=> f = d
  BY <1>1, <1>2 DEF Kept, Root
<1>7. Good(ReleaseTables(p, d), v) /\ v.kind[d] = "held"
  BY <1>5, <1>6 DEF Deleting
<1> DEFINE q == DeletePd(p, d)
           u == Freed(v, d)
<1>8. /\ Good(q, u) /\ Others(ReleaseTables(p, d), v, q, u, d) /\ u.kind[d] = "free"
      /\ \A f \in Frame : f # d => u.kind[f] = v.kind[f]
  BY <1>7, FreeDropped DEF DeletePd
<1> HIDE DEF q, u
<1>9. Others(p, w, q, u, d)
  BY <1>5, <1>8, OthersTrans DEF Deleting
<1>10. ASSUME NEW f \in Frame
       PROVE  u.kind[f] # "held" /\ (u.kind[f] = "dir" <=> w.kind[f] = "dir" /\ f # d)
  <2>1. u.kind[f] # "held"
    BY <1>5, <1>6, <1>8 DEF Deleting
  <2>2. f # d => (u.kind[f] = "dir" <=> w.kind[f] = "dir")
    BY <1>1, <1>9 DEF Others, Root
  <2> QED BY <1>8, <2>1, <2>2
<1> QED BY <1>8, <1>9, <1>10 DEF q

-----------------------------------------------------------------------------
(* Enough(). *)

\* The list of alloc_frame() holds exactly the free frames: its links pass all of them.
LEMMA FreeFramesAre ==
  ASSUME NEW p, NEW w, Good(p, w)
  PROVE  FreeFrames(p) = Free(w)
<1> DEFINE good == [k \in 0 .. Frames |-> {x \in Nat :
                      IF k < w.n THEN x \in Frame /\ w.kind[x] = "free" /\ w.at[x] = w.n - k
                        ELSE x = 0}]
           step == [k \in 1 .. Frames |-> [x \in Nat |-> IF x \in 1 .. Frames THEN p.mem[x][1] ELSE 0]]
           g == CHOOSE h : h = [k \in 0 .. Frames |->
                  IF k = 0 THEN p.firstFree
                    ELSE IF h[k - 1] \in 1 .. Frames THEN p.mem[h[k - 1]][1] ELSE 0]
<1>1. /\ p \in Phys /\ w \in Roles /\ ListOK(p, w) /\ Frames \in Nat /\ w.n \in Nat
           /\ p.firstFree \in Nat
      /\ \A x \in Frame : x \in Nat /\ x # 0
  BY GoodTypes, Parameters DEF Good
<1>2. w.n <= Frames
  BY <1>1, FreeCount DEF ListOK
<1>3. good \in Goals(Frames, Nat)
  BY DEF Goals
<1>4. p.firstFree \in good[0]
  BY <1>1 DEF ListOK
<1>5. ASSUME NEW k \in 1 .. Frames, NEW x \in good[k - 1]
      PROVE  /\ x \in Nat
             /\ (IF x \in 1 .. Frames THEN p.mem[x][1] ELSE 0) \in good[k]
  <2>1. k - 1 \in 0 .. Frames /\ k \in 0 .. Frames /\ x \in Nat
    BY <1>1
  <2>2. CASE k - 1 < w.n
    <3>1. x \in Frame /\ w.kind[x] = "free" /\ w.at[x] = w.n - (k - 1)
      BY <2>1, <2>2
    <3>2. CASE w.at[x] = 1
      BY <1>1, <2>1, <3>1, <3>2 DEF ListOK, Frame
    <3>3. CASE w.at[x] # 1
      <4>1. p.mem[x][1] \in Frame /\ w.kind[p.mem[x][1]] = "free" /\ w.at[p.mem[x][1]] = w.at[x] - 1
        BY <1>1, <3>1, <3>3 DEF ListOK
      <4> QED BY <1>1, <2>1, <2>2, <3>1, <3>3, <4>1 DEF Frame
    <3> QED BY <3>2, <3>3
  <2>3. CASE ~(k - 1 < w.n)
    BY <1>1, <2>1, <2>3
  <2> QED BY <2>1, <2>2, <2>3
<1>6. \A k \in 1 .. Frames : \A x \in Nat : step[k][x] = IF x \in 1 .. Frames THEN p.mem[x][1] ELSE 0
  OBVIOUS
<1>7. Keeps(Frames, good, step)
  <2> HIDE DEF good, step
  <2> QED BY <1>5, <1>6 DEF Keeps
<1> HIDE DEF step, good
<1>8. PICK f \in Traces(Frames, Nat) : Runs(Frames, f, p.firstFree, step)
  BY <1>1, <1>3, <1>4, <1>7, Rounds
<1>9. f = [k \in 0 .. Frames |->
             IF k = 0 THEN p.firstFree ELSE IF f[k - 1] \in 1 .. Frames THEN p.mem[f[k - 1]][1] ELSE 0]
  <2>1. \A k \in 0 .. Frames : f[k] = IF k = 0 THEN p.firstFree
                                      ELSE IF f[k - 1] \in 1 .. Frames THEN p.mem[f[k - 1]][1] ELSE 0
    <3>1. \A k \in 0 .. Frames : k = 0 \/ (k \in 1 .. Frames /\ f[k - 1] \in Nat)
      BY <1>1, <1>8 DEF Traces
    <3> QED BY <1>6, <1>8, <3>1 DEF Runs
  <2> QED BY <1>8, <2>1 DEF Traces
<1>10. g = [k \in 0 .. Frames |->
              IF k = 0 THEN p.firstFree ELSE IF g[k - 1] \in 1 .. Frames THEN p.mem[g[k - 1]][1] ELSE 0]
  BY <1>9
<1>11. FreeLinks(p) = g
  BY DEF FreeLinks
<1> HIDE DEF g
<1>12. \A k \in 0 .. Frames : g[k] \in good[k]
  <2> DEFINE kept == {k \in 0 .. Frames : g[k] \in good[k]}
  <2>1. 0 \in kept
    BY <1>1, <1>4, <1>10
  <2>2. ASSUME NEW k \in 1 .. Frames, k - 1 \in kept PROVE k \in kept
    <3>1. k \in 0 .. Frames /\ k # 0
      BY <1>1
    <3> QED BY <1>5, <1>10, <2>2, <3>1
  <2> HIDE DEF kept
  <2>3. \A k \in 0 .. Frames : k \in kept
    BY <1>1, <2>1, <2>2, Induction
  <2> QED BY <2>3 DEF kept
<1> USE DEF good
<1>13. ASSUME NEW x \in FreeFrames(p) PROVE x \in Free(w)
  BY <1>1, <1>11, <1>12, <1>13 DEF FreeFrames, Free, Frame
<1>14. ASSUME NEW x \in Free(w) PROVE x \in FreeFrames(p)
  <2>1. x \in Frame /\ w.kind[x] = "free" /\ w.at[x] \in 1 .. w.n
    BY <1>1 DEF Free, ListOK
  <2>2. w.n - w.at[x] \in 0 .. Frames /\ w.n - w.at[x] < w.n
    BY <1>1, <1>2, <2>1
  <2> DEFINE k == w.n - w.at[x]
  <2>3. g[k] \in Frame /\ w.kind[g[k]] = "free" /\ w.at[g[k]] = w.at[x]
    BY <1>1, <1>12, <2>1, <2>2
  <2>4. g[k] = x
    BY <1>1, <2>1, <2>3 DEF ListOK
  <2> QED BY <1>11, <2>1, <2>2, <2>4 DEF FreeFrames, Frame
<1> QED BY <1>13, <1>14

\* What the actions ask for is what the roles count.
LEMMA EnoughIs ==
  ASSUME NEW p, NEW w, Good(p, w), NEW n
  PROVE  Enough(p, n) <=> Budget(p, w) >= n
<1>1. Cardinality(FreeFrames(p)) = w.n
  BY FreeFramesAre DEF Good, ListOK
<1> QED BY <1>1 DEF Enough, Budget

-----------------------------------------------------------------------------
(* make_pd(). *)

\* alloc_frame() changes no address space.
LEMMA AllocOthers ==
  ASSUME NEW p, NEW w, Good(p, w), Budget(p, w) >= 1, NEW d \in Frame
  PROVE  Others(p, w, AllocFrame(p), Held(p, w, NextFrame(p)), d)
<1> DEFINE f == NextFrame(p)
           q == AllocFrame(p)
           v == Held(p, w, f)
<1>1. /\ f \in Frame /\ w.kind[f] \in {"free", "unused"} /\ v.kind[f] = "held" /\ v.up = w.up
           /\ v.at = w.at
      /\ \A g \in Frame : g # f => v.kind[g] = w.kind[g] /\ q.mem[g] = p.mem[g]
  BY Alloc
<1> HIDE DEF f, q, v
<1>2. Root(w, f) = 0
  BY <1>1 DEF Root
<1>3. \A g \in Frame : Root(w, g) \notin {0, d} => q.mem[g] = p.mem[g]
  BY <1>1, <1>2
<1>4. Others(p, w, q, v, d)
  BY <1>1, <1>2, <1>3, OneRole
<1> QED BY <1>4 DEF f, q, v

\* The frame of a page or one without a role is written to.
LEMMA FillOthers ==
  ASSUME NEW p, NEW w, Good(p, w), NEW g \in Frame, NEW d, Root(w, g) \in {0, d}, NEW q,
         \A f \in Frame : f # g => q.mem[f] = p.mem[f]
  PROVE  Others(p, w, q, w, d)
BY DEF Others

\* The roles of a new directory and its table.
LEMMA PutTwo ==
  ASSUME NEW w \in Roles, NEW d \in Frame, NEW t \in Frame, t # d
  PROVE  LET v == Put(Put(w, d, "dir", 0, 0), t, "table", d, Slots) IN
         /\ v.kind[t] = "table" /\ v.kind[d] = "dir" /\ v.up[t] = d
         /\ \A f \in Frame : f # d /\ f # t => v.kind[f] = w.kind[f] /\ v.up[f] = w.up[f]
              /\ v.at[f] = w.at[f]
<1> DEFINE u == Put(w, d, "dir", 0, 0)
           v == Put(u, t, "table", d, Slots)
<1>1. d \in Nat /\ Slots \in Nat
  BY Parameters DEF Frame
<1>2. /\ u \in Roles /\ u.kind[d] = "dir"
      /\ \A f \in Frame : f # d => u.kind[f] = w.kind[f] /\ u.up[f] = w.up[f] /\ u.at[f] = w.at[f]
  BY PutType, KindsAre
<1> HIDE DEF u
<1>3. /\ v.kind[t] = "table" /\ v.up[t] = d
      /\ \A f \in Frame : f # t => v.kind[f] = u.kind[f] /\ v.up[f] = u.up[f] /\ v.at[f] = u.at[f]
  BY <1>1, <1>2, PutType, KindsAre
<1> HIDE DEF v
<1>4. /\ v.kind[t] = "table" /\ v.kind[d] = "dir" /\ v.up[t] = d
      /\ \A f \in Frame : f # d /\ f # t => v.kind[f] = w.kind[f] /\ v.up[f] = w.up[f]
           /\ v.at[f] = w.at[f]
  BY <1>2, <1>3
<1> QED BY <1>4 DEF u, v

\* make_pd() makes a directory with one table, and takes two frames for it.
LEMMA MakePdKeeps ==
  ASSUME NEW p, NEW w, Good(p, w), Budget(p, w) >= 2, \A f \in Frame : w.kind[f] # "held"
  PROVE  LET d == NextFrame(p)
             q == MakePd(p)
         IN  /\ d \in Frame /\ w.kind[d] \in {"free", "unused"}
             /\ q.mem[d][Slots] # 0 /\ \A i \in Slot : i # Slots => q.mem[d][i] = 0
             /\ \A j \in Slot : j # 1 => q.mem[q.mem[d][Slots]][j] = 0
             /\ \E v : /\ Good(q, v) /\ Budget(q, v) = Budget(p, w) - 2 /\ Others(p, w, q, v, d)
                       /\ \A f \in Frame : v.kind[f] # "held"
                            /\ (v.kind[f] = "dir" <=> w.kind[f] = "dir" \/ f = d)
<1> DEFINE d == NextFrame(p)
           p1 == AllocFrame(p)
           w1 == Held(p, w, d)
           t == NextFrame(p1)
           p2 == AllocFrame(p1)
           w2 == Held(p1, w1, t)
           p3 == Store(p2, d, Slots, t)
           p4 == Store(p3, t, 1, Apic)
           v == Put(Put(w2, d, "dir", 0, 0), t, "table", d, Slots)
<1>1. Budget(p, w) \in Int /\ Slots \in Slot /\ 1 \in Slot /\ Apic \in Nat
        /\ \A f \in Frame : f # 0 /\ f \in Nat
  BY GoodTypes, Parameters DEF Budget, Slot, Apic
<1>2. /\ d \in Frame /\ w.kind[d] \in {"free", "unused"}
      /\ Good(p1, w1) /\ Budget(p1, w1) = Budget(p, w) - 1
      /\ w1.kind[d] = "held" /\ w1.up = w.up /\ w1.at = w.at
      /\ \A g \in Frame : g # d => w1.kind[g] = w.kind[g]
      /\ p1.mem[d] = Empty
  BY <1>1, Alloc
<1>3. Others(p, w, p1, w1, d)
  BY <1>1, <1>2, AllocOthers
<1>4. Budget(p1, w1) >= 1
  BY <1>1, <1>2
<1>5. MakePd(p) = p4
  <2>1. p1.mem[d][Slots] = 0
    BY <1>1, <1>2 DEF Empty, Slot
  <2>2. <<Slots, 1>>[1] = Slots /\ <<Slots, 1>>[2] = 1
    OBVIOUS
  <2>3. WithTable(p1, d, Slots) = p3
    BY <2>1, Zenon DEF WithTable, Store
  <2> HIDE DEF p1, d
  <2>4. Map(p1, d, <<Slots, 1>>, Apic) = [p3 EXCEPT !.mem[p3.mem[d][Slots]][1] = Apic]
    BY <2>2, <2>3, Zenon DEF Map
  <2>5. p3.mem[d][Slots] = t
    <3>1. /\ t \in Frame /\ Good(p2, w2)
      BY <1>2, <1>4, Alloc
    <3> HIDE DEF p2, w2, t
    <3>2. p2 \in Phys /\ t \in Nat /\ Slots \in Slot /\ d \in Frame
      BY <1>1, <1>2, <3>1 DEF Good
    <3> QED BY <3>2, StoreEffect
  <2>6. MakePd(p) = Map(p1, d, <<Slots, 1>>, Apic)
    BY Zenon DEF MakePd, p1, d
  <2> HIDE DEF p3, t
  <2> QED BY <2>4, <2>5, <2>6, Zenon DEF Store
<1> HIDE DEF d, p1, w1
<1>6. /\ t \in Frame /\ w1.kind[t] \in {"free", "unused"}
      /\ Good(p2, w2) /\ Budget(p2, w2) = Budget(p1, w1) - 1
      /\ w2.kind[t] = "held" /\ w2.up = w1.up /\ w2.at = w1.at
      /\ \A g \in Frame : g # t => w2.kind[g] = w1.kind[g]
      /\ p2.mem[t] = Empty /\ \A g \in Frame : g # t => p2.mem[g] = p1.mem[g]
  BY <1>2, <1>4, Alloc
<1>7. Others(p1, w1, p2, w2, d)
  BY <1>2, <1>4, AllocOthers
<1> HIDE DEF t, p2, w2
<1>8. t # d /\ w2.kind[d] = "held" /\ p2.mem[d] = Empty
  BY <1>2, <1>6
<1>a. p2 \in Phys /\ w2 \in Roles /\ t \in Nat /\ d \in Nat /\ Slots \in Slot /\ Slots \in Nat
        /\ d \in Frame
  BY <1>1, <1>2, <1>6, Parameters DEF Good
<1>9. /\ p3 \in Phys /\ p3.firstFree = p2.firstFree /\ p3.avail = p2.avail
      /\ \A g \in Frame : g # d => p3.mem[g] = p2.mem[g]
      /\ p3.mem[d][Slots] = t /\ \A i \in Slot : i # Slots => p3.mem[d][i] = p2.mem[d][i]
  BY <1>a, StoreEffect
<1> HIDE DEF p3
<1>10. Good(p3, w2) /\ Budget(p3, w2) = Budget(p2, w2)
  BY <1>a, <1>6, <1>8, <1>9, Fill
<1>11. /\ p4 \in Phys /\ p4.firstFree = p3.firstFree /\ p4.avail = p3.avail
       /\ \A g \in Frame : g # t => p4.mem[g] = p3.mem[g]
       /\ p4.mem[t][1] = Apic /\ \A j \in Slot : j # 1 => p4.mem[t][j] = p3.mem[t][j]
  BY <1>1, <1>6, <1>9, StoreEffect
<1> HIDE DEF p4
<1>12. Good(p4, w2) /\ Budget(p4, w2) = Budget(p3, w2)
  BY <1>6, <1>10, <1>11, Fill
<1>13. /\ p4.mem[d][Slots] = t /\ \A i \in Slot : i # Slots => p4.mem[d][i] = 0
       /\ \A j \in Slot : j # 1 => p4.mem[t][j] = 0
  <2>1. \A i \in Slot : Empty[i] = 0
    BY DEF Empty, Slot
  <2>2. p4.mem[d] = p3.mem[d] /\ p3.mem[t] = p2.mem[t]
    BY <1>a, <1>6, <1>8, <1>9, <1>11
  <2> QED BY <1>6, <1>8, <1>9, <1>11, <2>1, <2>2
<1>14. Good(p4, v) /\ Budget(p4, v) = Budget(p4, w2)
  BY <1>2, <1>6, <1>8, <1>11, <1>12, <1>13, MakeDir
<1>15. /\ v.kind[t] = "table" /\ v.kind[d] = "dir" /\ v.up[t] = d
       /\ \A f \in Frame : f # d /\ f # t => v.kind[f] = w2.kind[f] /\ v.up[f] = w2.up[f]
            /\ v.at[f] = w2.at[f]
  BY <1>2, <1>6, <1>8, <1>a, PutTwo
<1> HIDE DEF v
<1>16. Others(p2, w2, p4, v, d)
  <2>1. \A f \in Frame : w2.kind[f] = "page" => w2.up[f] \in Frame /\ w2.up[f] # t /\ w2.up[f] # d
    BY <1>6, <1>8 DEF Good, PagesOK
  <2>2. Root(w2, d) = 0 /\ Root(w2, t) = 0
    BY <1>6, <1>8 DEF Root
  <2>3. \A f \in Frame : f # d /\ f # t => Root(v, f) = Root(w2, f)
    BY <1>15, <2>1 DEF Root
  <2>4. Root(v, d) = d /\ Root(v, t) = d
    BY <1>15 DEF Root
  <2>5. \A f \in Frame : f # d /\ f # t => p4.mem[f] = p2.mem[f]
    BY <1>9, <1>11
  <2> QED BY <1>15, <2>2, <2>3, <2>4, <2>5 DEF Others
<1>17. Others(p, w, p4, v, d)
  BY <1>3, <1>7, <1>16, OthersTrans
<1>18. ASSUME NEW f \in Frame
       PROVE v.kind[f] # "held" /\ (v.kind[f] = "dir" <=> w.kind[f] = "dir" \/ f = d)
  BY <1>2, <1>6, <1>15
<1>19. Budget(p4, v) = Budget(p, w) - 2
  BY <1>1, <1>2, <1>6, <1>10, <1>12, <1>14
<1>20. t # 0
  BY <1>1, <1>6
<1> QED BY <1>2, <1>5, <1>13, <1>14, <1>17, <1>18, <1>19, <1>20 DEF d

-----------------------------------------------------------------------------
(* map(). *)

\* Entry j of table i of directory d, 0 if there is none.
Entry(p, d, i, j) == IF p.mem[d][i] = 0 THEN 0 ELSE p.mem[p.mem[d][i]][j]

\* Nothing about frame f has changed.
Alike(p, w, q, v, f) ==
  q.mem[f] = p.mem[f] /\ v.kind[f] = w.kind[f] /\ v.up[f] = w.up[f] /\ v.at[f] = w.at[f]

\* The first half of map() adds an empty table, for one frame.
LEMMA WithTableKeeps ==
  ASSUME NEW p, NEW w, Good(p, w), NEW d \in Frame, w.kind[d] = "dir", p.mem[d][Slots] # 0,
         NEW i \in Slot, p.mem[d][i] = 0, Budget(p, w) >= 1
  PROVE  LET q == WithTable(p, d, i)
         IN  \E v : /\ Good(q, v) /\ Within(p, w, q, v, d) /\ Budget(q, v) = Budget(p, w) - 1
                    /\ q.mem[d][i] # 0 /\ q.mem[q.mem[d][i]] = Empty
                    /\ \A k \in Slot : k # i => q.mem[d][k] = p.mem[d][k]
                    /\ \A f \in Frame : w.kind[f] \in {"held", "table", "page"} => Alike(p, w, q, v, f)
<1> DEFINE t == NextFrame(p)
           p1 == AllocFrame(p)
           w1 == Held(p, w, t)
           q == Store(p1, d, i, t)
           v == Put(w1, t, "table", d, i)
<1>1. WithTable(p, d, i) = q
  BY Zenon DEF WithTable, Store
<1>2. /\ t \in Frame /\ w.kind[t] \in {"free", "unused"}
      /\ Good(p1, w1) /\ Budget(p1, w1) = Budget(p, w) - 1
      /\ w1.kind[t] = "held" /\ w1.up = w.up /\ w1.at = w.at
      /\ \A g \in Frame : g # t => w1.kind[g] = w.kind[g]
      /\ p1.mem[t] = Empty /\ \A g \in Frame : g # t => p1.mem[g] = p.mem[g]
  BY Alloc
<1>3. Others(p, w, p1, w1, d)
  BY <1>2, AllocOthers
<1> HIDE DEF t, p1, w1
<1>4. t # d /\ p1.mem[d] = p.mem[d] /\ w1.kind[d] = "dir" /\ i # Slots
  BY <1>2
<1>5. p1.mem[d][i] = 0
  BY <1>4
<1>6. p1 \in Phys /\ w1 \in Roles /\ t \in Nat /\ t # 0 /\ d \in Nat /\ i \in Nat /\ Slots \in Slot
  BY <1>2, Parameters DEF Good, Frame, Slot
<1>7. Good(q, v) /\ Budget(q, v) = Budget(p1, w1)
  BY <1>2, <1>4, <1>5, SetTable
<1>8. /\ \A g \in Frame : g # d => q.mem[g] = p1.mem[g]
      /\ q.mem[d][i] = t /\ \A k \in Slot : k # i => q.mem[d][k] = p1.mem[d][k]
  BY <1>6, StoreEffect
<1>9. /\ v.kind[t] = "table" /\ v.up[t] = d
      /\ \A g \in Frame : g # t => v.kind[g] = w1.kind[g] /\ v.up[g] = w1.up[g] /\ v.at[g] = w1.at[g]
  BY <1>2, <1>6, PutType, KindsAre
<1> HIDE DEF q, v
<1>10. Others(p1, w1, q, v, d)
  <2>1. Root(w1, t) = 0 /\ Root(w1, d) = d
    BY <1>2, <1>4 DEF Root
  <2>2. \A f \in Frame : Root(w1, f) \notin {0, d} => q.mem[f] = p1.mem[f]
    BY <1>8, <2>1
  <2> QED BY <1>2, <1>9, <2>1, <2>2, OneRole
<1>b. Within(p, w, q, v, d)
  <2>1. \A f \in Frame : /\ v.kind[f] = "held" <=> w.kind[f] = "held"
                         /\ v.kind[f] = "dir" <=> w.kind[f] = "dir"
    BY <1>2, <1>9
  <2>2. q.mem[d][Slots] = p.mem[d][Slots]
    BY <1>4, <1>6, <1>8
  <2> QED BY <1>3, <1>10, <2>1, <2>2, OthersTrans DEF Within
<1>12. \A f \in Frame : w.kind[f] \in {"held", "table", "page"} => Alike(p, w, q, v, f)
  BY <1>2, <1>8, <1>9 DEF Alike
<1> QED BY <1>1, <1>2, <1>4, <1>6, <1>7, <1>8, <1>b, <1>12

\* The frame g becomes page j of table i.
LEMMA PageIn ==
  ASSUME NEW p, NEW w, Good(p, w), NEW d \in Frame, w.kind[d] = "dir", NEW j \in Slot,
         NEW t \in Frame, w.kind[t] = "table", w.up[t] = d, ~IsApic(w.at[t], j), p.mem[t][j] = 0,
         NEW g \in Frame, w.kind[g] = "held"
  PROVE  LET q == Store(p, t, j, g)
         IN  /\ q.mem[t][j] = g /\ \A k \in Slot : k # j => q.mem[t][k] = p.mem[t][k]
             /\ \A f \in Frame : f # t => q.mem[f] = p.mem[f]
             /\ \E v : /\ Good(q, v) /\ Budget(q, v) = Budget(p, w) /\ Others(p, w, q, v, d)
                       /\ v.kind[g] = "page"
                       /\ \A f \in Frame : f # g => v.kind[f] = w.kind[f]
<1> DEFINE q == Store(p, t, j, g)
           v == Put(w, g, "page", t, j)
<1>1. p \in Phys /\ w \in Roles
  BY DEF Good
<1>2. t # d /\ t # g
  OBVIOUS
<1>3. g \in Nat /\ t \in Nat /\ j \in Nat
  BY Parameters DEF Frame, Slot
<1>4. Good(q, v) /\ Budget(q, v) = Budget(p, w)
  BY SetPage
<1>5. /\ \A f \in Frame : f # t => q.mem[f] = p.mem[f]
      /\ q.mem[t][j] = g /\ \A k \in Slot : k # j => q.mem[t][k] = p.mem[t][k]
  BY <1>1, <1>3, StoreEffect
<1>6. /\ v.kind[g] = "page" /\ v.up[g] = t
      /\ \A f \in Frame : f # g => v.kind[f] = w.kind[f] /\ v.up[f] = w.up[f] /\ v.at[f] = w.at[f]
  BY <1>1, <1>3, PutType, KindsAre
<1> HIDE DEF q, v
<1>7. Others(p, w, q, v, d)
  <2>1. Root(w, g) = 0 /\ Root(w, t) = d
    BY DEF Root
  <2>2. \A f \in Frame : Root(w, f) \notin {0, d} => q.mem[f] = p.mem[f]
    BY <1>5, <2>1
  <2> QED BY <1>2, <1>6, <2>1, <2>2, OneRole
<1> QED BY <1>4, <1>5, <1>6, <1>7 DEF q

\* map() of a new page.
LEMMA FaultKeeps ==
  ASSUME NEW p, NEW w, Good(p, w), NEW d \in Frame, w.kind[d] = "dir", p.mem[d][Slots] # 0,
         NEW i \in Slot, NEW j \in Slot, ~IsApic(i, j), Entry(p, d, i, j) = 0,
         Budget(p, w) >= IF p.mem[d][i] = 0 THEN 2 ELSE 1
  PROVE  LET g == NextFrame(p)
             q == Map(AllocFrame(p), d, <<i, j>>, g)
         IN  /\ g \in Frame /\ w.kind[g] \in {"free", "unused"} /\ q.mem[g] = Empty
             /\ Entry(q, d, i, j) = g
             /\ \A k, l \in Slot : ~(k = i /\ l = j) => Entry(q, d, k, l) = Entry(p, d, k, l)
             /\ \A f \in Frame : w.kind[f] = "page" => q.mem[f] = p.mem[f]
             /\ \E v : Good(q, v) /\ Within(p, w, q, v, d)
<1> DEFINE g == NextFrame(p)
           p1 == AllocFrame(p)
           w1 == Held(p, w, g)
           p2 == WithTable(p1, d, i)
           t == p2.mem[d][i]
           q == Map(p1, d, <<i, j>>, g)
<1>1. Budget(p, w) \in Int /\ \A f \in Frame : f # 0 /\ f \in Nat
  BY GoodTypes, Parameters DEF Budget
<1>2. Budget(p, w) >= 1 /\ (p.mem[d][i] = 0 => Budget(p, w) >= 2)
  BY <1>1
<1>3. /\ g \in Frame /\ w.kind[g] \in {"free", "unused"}
      /\ Good(p1, w1) /\ Budget(p1, w1) = Budget(p, w) - 1
      /\ w1.kind[g] = "held" /\ w1.up = w.up /\ w1.at = w.at
      /\ \A f \in Frame : f # g => w1.kind[f] = w.kind[f]
      /\ p1.mem[g] = Empty /\ \A f \in Frame : f # g => p1.mem[f] = p.mem[f]
  BY <1>2, Alloc
<1>4. Others(p, w, p1, w1, d)
  BY <1>2, AllocOthers
<1>5. q = Store(p2, t, j, g)
  <2>1. <<i, j>>[1] = i /\ <<i, j>>[2] = j
    OBVIOUS
  <2> HIDE DEF g, p1
  <2> QED BY <2>1, Zenon DEF Map, Store
<1> HIDE DEF g, p1, w1
<1>6. g # d /\ p1.mem[d] = p.mem[d] /\ w1.kind[d] = "dir" /\ p1.mem[d][Slots] # 0
  BY <1>3
<1>7. \E w2 : /\ Good(p2, w2) /\ Others(p, w, p2, w2, d) /\ p2.mem[d][Slots] = p.mem[d][Slots]
              /\ t # 0 /\ p2.mem[t][j] = 0 /\ p2.mem[g] = Empty
              /\ \A k, l \in Slot : Entry(p2, d, k, l) = Entry(p, d, k, l)
              /\ \A f \in Frame : w.kind[f] = "page" => p2.mem[f] = p.mem[f] /\ w2.kind[f] = "page"
              /\ \A f \in Frame : /\ w2.kind[f] = "held" <=> w.kind[f] = "held" \/ f = g
                                  /\ w2.kind[f] = "dir" <=> w.kind[f] = "dir"
  <2>0. \A k \in Slot : p.mem[d][k] # 0 => p.mem[d][k] \in Frame /\ p.mem[d][k] # g
          /\ w.kind[p.mem[d][k]] = "table"
    BY <1>3 DEF Good, DirsOK
  <2>1. CASE p.mem[d][i] # 0
    <3>1. p2 = p1
      BY <1>6, <2>1 DEF WithTable
    <3> HIDE DEF p2
    <3>2. \A k, l \in Slot : Entry(p1, d, k, l) = Entry(p, d, k, l)
      BY <1>3, <1>6, <2>0 DEF Entry
    <3>3. p1.mem[t][j] = 0 /\ t # 0
      BY <1>6, <2>1, <3>1, <3>2 DEF Entry
    <3> HIDE DEF t
    <3> QED BY <1>3, <1>4, <1>6, <3>1, <3>2, <3>3
  <2>2. CASE p.mem[d][i] = 0
    <3>1. p1.mem[d][i] = 0 /\ Budget(p1, w1) >= 1
      BY <1>1, <1>2, <1>3, <1>6, <2>2
    <3>2. PICK w2 :
               /\ Good(p2, w2) /\ Within(p1, w1, p2, w2, d)
               /\ t # 0 /\ p2.mem[t] = Empty
               /\ \A k \in Slot : k # i => p2.mem[d][k] = p1.mem[d][k]
               /\ \A f \in Frame : w1.kind[f] \in {"held", "table", "page"} => Alike(p1, w1, p2, w2, f)
      BY <1>3, <1>6, <3>1, WithTableKeeps
    <3> HIDE DEF p2, t
    <3>3. p2.mem[d][i] = t /\ \A l \in Slot : Empty[l] = 0
      BY DEF t, Empty, Slot
    <3>4. p2.mem[g] = Empty /\ p2.mem[t][j] = 0
      BY <1>3, <3>2, <3>3 DEF Alike
    <3>5. \A f \in Frame : w.kind[f] \in {"table", "page"} => p2.mem[f] = p.mem[f]
            /\ w2.kind[f] = w.kind[f]
      BY <1>3, <3>2 DEF Alike
    <3>6. \A k, l \in Slot : Entry(p2, d, k, l) = Entry(p, d, k, l)
      <4> SUFFICES ASSUME NEW k \in Slot, NEW l \in Slot PROVE Entry(p2, d, k, l) = Entry(p, d, k, l)
        OBVIOUS
      <4>1. CASE k = i
        BY <2>2, <3>2, <3>3, <4>1 DEF Entry
      <4>2. CASE k # i
        BY <1>6, <2>0, <3>2, <3>5, <4>2 DEF Entry
      <4> QED BY <4>1, <4>2
    <3>7. Others(p, w, p2, w2, d) /\ p2.mem[d][Slots] = p.mem[d][Slots]
      BY <1>4, <1>6, <3>2, OthersTrans DEF Within
    <3>8. \A f \in Frame : /\ w2.kind[f] = "held" <=> w.kind[f] = "held" \/ f = g
                           /\ w2.kind[f] = "dir" <=> w.kind[f] = "dir"
      BY <1>3, <3>2 DEF Within
    <3> QED BY <3>2, <3>4, <3>5, <3>6, <3>7, <3>8
  <2> QED BY <2>1, <2>2
<1>8. PICK w2 : /\ Good(p2, w2) /\ Others(p, w, p2, w2, d) /\ p2.mem[d][Slots] = p.mem[d][Slots]
                /\ t # 0 /\ p2.mem[t][j] = 0 /\ p2.mem[g] = Empty
                /\ \A k, l \in Slot : Entry(p2, d, k, l) = Entry(p, d, k, l)
                /\ \A f \in Frame : w.kind[f] = "page" => p2.mem[f] = p.mem[f] /\ w2.kind[f] = "page"
                /\ \A f \in Frame : /\ w2.kind[f] = "held" <=> w.kind[f] = "held" \/ f = g
                                    /\ w2.kind[f] = "dir" <=> w.kind[f] = "dir"
  BY <1>7
<1>a. t = p2.mem[d][i]
  OBVIOUS
<1> HIDE DEF p2, t
<1>b. t \in Frame /\ w2.kind[t] = "table" /\ w2.up[t] = d /\ w2.at[t] = i /\ w2.kind[d] = "dir"
  BY <1>8, <1>a DEF Good, DirsOK
<1>9. PICK v : /\ q.mem[t][j] = g /\ \A k \in Slot : k # j => q.mem[t][k] = p2.mem[t][k]
               /\ \A f \in Frame : f # t => q.mem[f] = p2.mem[f]
               /\ Good(q, v) /\ Others(p2, w2, q, v, d) /\ v.kind[g] = "page"
               /\ \A f \in Frame : f # g => v.kind[f] = w2.kind[f]
  <2>1. w2.kind[g] = "held" /\ ~IsApic(w2.at[t], j)
    BY <1>3, <1>8, <1>b
  <2> HIDE DEF q
  <2> QED BY <1>3, <1>5, <1>8, <1>b, <2>1, PageIn
<1> HIDE DEF q
<1>10. q.mem[d] = p2.mem[d] /\ q.mem[g] = Empty
  <2>1. t # g
    BY <1>3, <1>8, <1>b
  <2> QED BY <1>3, <1>8, <1>9, <1>b, <2>1
<1>12. \A k \in Slot : p2.mem[d][k] # 0 => p2.mem[d][k] \in Frame /\ (p2.mem[d][k] = t => k = i)
  BY <1>3, <1>8, <1>b DEF Good, DirsOK
<1>13. ASSUME NEW k \in Slot, NEW l \in Slot, ~(k = i /\ l = j)
       PROVE  Entry(q, d, k, l) = Entry(p, d, k, l)
  <2>1. Entry(q, d, k, l) = Entry(p2, d, k, l)
    BY <1>a, <1>9, <1>10, <1>12, <1>13 DEF Entry
  <2> QED BY <1>8, <2>1
<1>14. Entry(q, d, i, j) = g
  BY <1>8, <1>9, <1>10, <1>a DEF Entry
<1>15. ASSUME NEW f \in Frame, w.kind[f] = "page" PROVE q.mem[f] = p.mem[f]
  BY <1>8, <1>9, <1>b, <1>15
<1>16. Within(p, w, q, v, d)
  <2>1. \A f \in Frame : /\ v.kind[f] = "held" <=> w.kind[f] = "held"
                         /\ v.kind[f] = "dir" <=> w.kind[f] = "dir"
    BY <1>3, <1>8, <1>9
  <2> QED BY <1>8, <1>9, <1>10, <2>1, OthersTrans DEF Within
<1> QED BY <1>3, <1>9, <1>10, <1>13, <1>14, <1>15, <1>16 DEF g, p1, q

-----------------------------------------------------------------------------
(* What a program finds in its memory. *)

\* What is read there; a page that is missing reads as 0.
Word(p, d, i, j) ==
  IF IsApic(i, j) \/ Entry(p, d, i, j) = 0 THEN 0 ELSE p.mem[Entry(p, d, i, j)][1]

\* An entry that is present leads to a page of this address space.
LEMMA EntryPage ==
  ASSUME NEW p, NEW w, Good(p, w), NEW d \in Frame, w.kind[d] = "dir",
         NEW i \in Slot, NEW j \in Slot, ~IsApic(i, j), Entry(p, d, i, j) # 0
  PROVE  LET t == p.mem[d][i]
             g == Entry(p, d, i, j)
         IN  /\ t \in Frame /\ w.kind[t] = "table" /\ w.up[t] = d /\ w.at[t] = i
             /\ g \in Frame /\ w.kind[g] = "page" /\ w.up[g] = t /\ w.at[g] = j
             /\ Root(w, t) = d /\ Root(w, g) = d /\ Row(w, g) = i
<1>1. /\ p.mem[d][i] \in Frame /\ w.kind[p.mem[d][i]] = "table"
      /\ w.up[p.mem[d][i]] = d /\ w.at[p.mem[d][i]] = i
      /\ Entry(p, d, i, j) = p.mem[p.mem[d][i]][j]
  BY DEF Good, DirsOK, Entry
<1> DEFINE t == p.mem[d][i]
<1>2. p.mem[t][j] # 0 /\ TablesOK(p, w)
  BY <1>1 DEF Good
<1>3. p.mem[t][j] \in Frame /\ w.kind[p.mem[t][j]] = "page" /\ w.up[p.mem[t][j]] = t
        /\ w.at[p.mem[t][j]] = j
  <2>1. t \in Frame /\ w.kind[t] = "table" /\ ~IsApic(w.at[t], j)
    BY <1>1
  <2> HIDE DEF t
  <2> QED BY <1>2, <2>1 DEF TablesOK
<1> QED BY <1>1, <1>3 DEF Root, Row

\* An operation on address space d leaves the one of e as it is.
LEMMA OthersSpace ==
  ASSUME NEW p, NEW w, Good(p, w), NEW q, NEW v, NEW d, Others(p, w, q, v, d),
         NEW e \in Frame, w.kind[e] = "dir", e # d
  PROVE  /\ v.kind[e] = "dir" /\ q.mem[e] = p.mem[e]
         /\ \A i, j \in Slot : Entry(q, e, i, j) = Entry(p, e, i, j)
              /\ Word(q, e, i, j) = Word(p, e, i, j)
<1>1. e # 0 /\ Root(w, e) = e
  BY GoodTypes DEF Root
<1>2. v.kind[e] = "dir" /\ q.mem[e] = p.mem[e]
  BY <1>1 DEF Others
<1> SUFFICES ASSUME NEW i \in Slot, NEW j \in Slot
             PROVE  Entry(q, e, i, j) = Entry(p, e, i, j) /\ Word(q, e, i, j) = Word(p, e, i, j)
  BY <1>2
<1>3. p.mem[e][i] # 0 => q.mem[p.mem[e][i]] = p.mem[p.mem[e][i]]
  <2> SUFFICES ASSUME p.mem[e][i] # 0 PROVE q.mem[p.mem[e][i]] = p.mem[p.mem[e][i]]
    OBVIOUS
  <2>1. p.mem[e][i] \in Frame /\ Root(w, p.mem[e][i]) = e
    BY DEF Good, DirsOK, Root
  <2> QED BY <1>1, <2>1 DEF Others
<1>4. Entry(q, e, i, j) = Entry(p, e, i, j)
  BY <1>2, <1>3 DEF Entry
<1>5. ~IsApic(i, j) /\ Entry(p, e, i, j) # 0 => q.mem[Entry(p, e, i, j)] = p.mem[Entry(p, e, i, j)]
  <2> SUFFICES ASSUME ~IsApic(i, j), Entry(p, e, i, j) # 0
               PROVE  q.mem[Entry(p, e, i, j)] = p.mem[Entry(p, e, i, j)]
    OBVIOUS
  <2>1. Entry(p, e, i, j) \in Frame /\ Root(w, Entry(p, e, i, j)) = e
    BY EntryPage
  <2> QED BY <1>1, <2>1 DEF Others
<1> QED BY <1>4, <1>5 DEF Word

-----------------------------------------------------------------------------
(* The loops of fork(). *)

\* All of frame g is written.
Filled(p, g, m) == [p EXCEPT !.mem[g] = m]

\* All of a frame is written.
LEMMA FilledEffect ==
  ASSUME NEW p \in Phys, NEW g \in Frame, NEW m \in Page
  PROVE  LET q == Filled(p, g, m) IN
         /\ q \in Phys /\ q.firstFree = p.firstFree /\ q.avail = p.avail
         /\ q.mem[g] = m /\ \A f \in Frame : f # g => q.mem[f] = p.mem[f]
BY DEF Filled, Phys

\* One round of the inner loop of fork().
LEMMA CopyPageIs ==
  ASSUME NEW p, NEW from, NEW to, NEW i, NEW j
  PROVE  /\ Walk(p, from, <<i, j>>) = Entry(p, from, i, j)
         /\ CopyPage(p, from, to, <<i, j>>) =
              IF Entry(p, from, i, j) = 0 \/ Entry(p, to, i, j) # 0 THEN p
              ELSE Store(Filled(AllocFrame(p), NextFrame(p), p.mem[Entry(p, from, i, j)]),
                         p.mem[to][i], j, NextFrame(p))
<1>1. <<i, j>>[1] = i /\ <<i, j>>[2] = j
  OBVIOUS
<1>2. Walk(p, from, <<i, j>>) = Entry(p, from, i, j) /\ Walk(p, to, <<i, j>>) = Entry(p, to, i, j)
  BY WalkIs DEF Entry
<1> DEFINE va == <<i, j>>
<1> HIDE DEF va
<1>3. CopyPage(p, from, to, va) =
        IF Walk(p, from, va) = 0 \/ Walk(p, to, va) # 0 THEN p
        ELSE Store(Filled(AllocFrame(p), NextFrame(p), p.mem[Walk(p, from, va)]),
                   p.mem[to][va[1]], va[2], NextFrame(p))
  BY Zenon DEF CopyPage, Store, Filled
<1> QED BY <1>1, <1>2, <1>3, Zenon DEF va

\* It gives the child a page of its own with what is in the page of the parent.
LEMMA CopyOne ==
  ASSUME NEW p, NEW w, Good(p, w), NEW from \in Frame, w.kind[from] = "dir",
         NEW to \in Frame, w.kind[to] = "dir", from # to,
         NEW i \in Slot, NEW j \in Slot, ~IsApic(i, j), Entry(p, from, i, j) # 0,
         p.mem[to][i] # 0, Entry(p, to, i, j) = 0, Budget(p, w) >= 1
  PROVE  LET q == CopyPage(p, from, to, <<i, j>>)
         IN  /\ q.mem[to] = p.mem[to] /\ Word(q, to, i, j) = Word(p, from, i, j)
             /\ \A k, l \in Slot : ~(k = i /\ l = j) =>
                  /\ Entry(q, to, k, l) = Entry(p, to, k, l)
                  /\ Word(q, to, k, l) = Word(p, to, k, l)
             /\ \E v : Good(q, v) /\ Within(p, w, q, v, to) /\ Budget(q, v) = Budget(p, w) - 1
<1> DEFINE s == Entry(p, from, i, j)
           t == p.mem[to][i]
           g == NextFrame(p)
           p1 == AllocFrame(p)
           w1 == Held(p, w, g)
           p2 == Filled(p1, g, p.mem[s])
           q == CopyPage(p, from, to, <<i, j>>)
<1>1. q = Store(p2, t, j, g)
  BY CopyPageIs
<1>2. /\ g \in Frame /\ w.kind[g] \in {"free", "unused"}
      /\ Good(p1, w1) /\ Budget(p1, w1) = Budget(p, w) - 1
      /\ w1.kind[g] = "held" /\ w1.up = w.up /\ w1.at = w.at
      /\ \A f \in Frame : f # g => w1.kind[f] = w.kind[f]
      /\ p1.mem[g] = Empty /\ \A f \in Frame : f # g => p1.mem[f] = p.mem[f]
  BY Alloc
<1>3. Others(p, w, p1, w1, to)
  BY AllocOthers
<1>4. s \in Frame /\ w.kind[s] = "page" /\ s # 0
  BY EntryPage
<1>5. t \in Frame /\ w.kind[t] = "table" /\ w.up[t] = to /\ w.at[t] = i /\ p.mem[t][j] = 0
  BY DEF Good, DirsOK, Entry
<1>t. p.mem[to][i] = t /\ t # 0 /\ Word(p, from, i, j) = p.mem[s][1]
  BY DEF Word
<1> HIDE DEF g, p1, w1, s, t
<1>6. p1 \in Phys /\ p.mem[s] \in Page /\ g # 0
  BY <1>2, <1>4, GoodTypes DEF Good, Phys
<1>7. /\ p2 \in Phys /\ p2.firstFree = p1.firstFree /\ p2.avail = p1.avail
      /\ p2.mem[g] = p.mem[s] /\ \A f \in Frame : f # g => p2.mem[f] = p1.mem[f]
  BY <1>2, <1>6, FilledEffect
<1> HIDE DEF p2
<1>8. Good(p2, w1) /\ Budget(p2, w1) = Budget(p1, w1)
  BY <1>2, <1>7, Fill
<1>9. Others(p1, w1, p2, w1, to)
  <2>1. Root(w1, g) \in {0, to}
    BY <1>2 DEF Root
  <2> QED BY <1>2, <1>7, <2>1, FillOthers
<1>10. /\ t # g /\ to # g /\ t # to
       /\ w1.kind[t] = "table" /\ w1.up[t] = to /\ w1.at[t] = i /\ w1.kind[to] = "dir"
       /\ p2.mem[t] = p.mem[t] /\ p2.mem[to] = p.mem[to] /\ p2.mem[t][j] = 0
  BY <1>2, <1>5, <1>7
<1>11. PICK v : /\ q.mem[t][j] = g /\ \A k \in Slot : k # j => q.mem[t][k] = p2.mem[t][k]
                /\ \A f \in Frame : f # t => q.mem[f] = p2.mem[f]
                /\ Good(q, v) /\ Budget(q, v) = Budget(p2, w1) /\ Others(p2, w1, q, v, to)
                /\ v.kind[g] = "page"
                /\ \A f \in Frame : f # g => v.kind[f] = w1.kind[f]
  <2> HIDE DEF q
  <2>1. ~IsApic(w1.at[t], j)
    BY <1>10
  <2> QED BY <1>1, <1>2, <1>5, <1>8, <1>10, <2>1, PageIn
<1> HIDE DEF q
<1>12. q.mem[to] = p.mem[to] /\ q.mem[g] = p.mem[s]
  BY <1>2, <1>7, <1>10, <1>11
<1>13. Within(p, w, q, v, to)
  <2>1. \A f \in Frame : /\ v.kind[f] = "held" <=> w.kind[f] = "held"
                         /\ v.kind[f] = "dir" <=> w.kind[f] = "dir"
    BY <1>2, <1>11
  <2>2. Others(p, w, q, v, to)
    BY <1>3, <1>9, <1>11, OthersTrans
  <2> QED BY <1>12, <2>1, <2>2 DEF Within
<1>14. Entry(q, to, i, j) = g /\ Word(q, to, i, j) = p.mem[s][1]
  BY <1>t, <1>6, <1>11, <1>12 DEF Entry, Word
<1>15. ASSUME NEW k \in Slot, NEW l \in Slot, ~(k = i /\ l = j)
       PROVE  Entry(q, to, k, l) = Entry(p, to, k, l) /\ Word(q, to, k, l) = Word(p, to, k, l)
  <2>1. p.mem[to][k] # 0 => /\ p.mem[to][k] \in Frame /\ w.kind[p.mem[to][k]] = "table"
                            /\ (p.mem[to][k] = t => k = i)
    BY <1>5 DEF Good, DirsOK
  <2>2. \A f \in Frame : w.kind[f] \in {"table", "page"} /\ f # t => q.mem[f] = p.mem[f]
    BY <1>2, <1>7, <1>11
  <2>3. k = i => q.mem[t][l] = p.mem[t][l]
    BY <1>10, <1>11, <1>15
  <2>4. Entry(q, to, k, l) = Entry(p, to, k, l)
    BY <1>t, <1>12, <2>1, <2>2, <2>3 DEF Entry
  <2>5. ~IsApic(k, l) /\ Entry(p, to, k, l) # 0 =>
          Entry(p, to, k, l) \in Frame /\ w.kind[Entry(p, to, k, l)] = "page" /\ Entry(p, to, k, l) # t
    BY <1>5, EntryPage
  <2>6. ~IsApic(k, l) /\ Entry(p, to, k, l) # 0 => q.mem[Entry(p, to, k, l)] = p.mem[Entry(p, to, k, l)]
    BY <2>2, <2>5
  <2> QED BY <2>4, <2>6 DEF Word
<1> QED BY <1>t, <1>2, <1>8, <1>11, <1>12, <1>13, <1>14, <1>15 DEF q

\* fork() has done what comes before page j of table i, and that one.
Done(k, l, i, j) == k < i \/ (k = i /\ l <= j)

\* The tables after m and the pages after (i, j), which need frames.
TablesLeft(p, from, m) == {k \in Slot : k > m /\ k # Slots /\ p.mem[from][k] # 0}
PagesLeft(w, from, i, j) ==
  {g \in Frame : w.kind[g] = "page" /\ Root(w, g) = from /\ ~Done(Row(w, g), w.at[g], i, j)}

\* What fork() has made of p when it has come to (i, j) and has the tables up to m:
\* the child has what comes before, and the free frames are enough for the rest.
Copying(p, w, from, to, m, i, j, x, v) ==
  /\ Good(x, v) /\ Within(p, w, x, v, to)
  /\ Budget(x, v) >= Cardinality(TablesLeft(p, from, m)) + Cardinality(PagesLeft(w, from, i, j))
  /\ \A k \in Slot : k > m /\ k # Slots => x.mem[to][k] = 0
  /\ \A k, l \in Slot : ~IsApic(k, l) =>
       IF Done(k, l, i, j) THEN Word(x, to, k, l) = Word(p, from, k, l) ELSE Entry(x, to, k, l) = 0

\* fork() copies one directory into another, which is new.
Forking(p, w, from, to) ==
  /\ Good(p, w) /\ from \in Frame /\ to \in Frame /\ from # to
  /\ w.kind[from] = "dir" /\ w.kind[to] = "dir" /\ p.mem[to][Slots] # 0

\* There are finitely many of them.
LEMMA Left ==
  ASSUME NEW p, NEW w, NEW from
  PROVE  /\ \A m : IsFiniteSet(TablesLeft(p, from, m)) /\ Cardinality(TablesLeft(p, from, m)) \in Nat
         /\ \A i, j : IsFiniteSet(PagesLeft(w, from, i, j))
              /\ Cardinality(PagesLeft(w, from, i, j)) \in Nat
<1>1. IsFiniteSet(Slot) /\ IsFiniteSet(Frame)
  BY Parameters, FS_Interval DEF Slot, Frame
<1>2. \A m : TablesLeft(p, from, m) \subseteq Slot
  BY DEF TablesLeft
<1>3. \A i, j : PagesLeft(w, from, i, j) \subseteq Frame
  BY DEF PagesLeft
<1> QED BY <1>1, <1>2, <1>3, FS_Subset, FS_CardinalityType

\* One table less is left.
LEMMA TableDone ==
  ASSUME NEW p, NEW from, NEW i \in Slot
  PROVE  Cardinality(TablesLeft(p, from, i - 1)) =
           Cardinality(TablesLeft(p, from, i)) + IF i # Slots /\ p.mem[from][i] # 0 THEN 1 ELSE 0
<1>1. i \in Nat /\ \A k \in Slot : k \in Nat
  BY Parameters DEF Slot
<1> DEFINE S == TablesLeft(p, from, i - 1)
           T == TablesLeft(p, from, i)
<1>t. \A k \in Slot : (k > i - 1 <=> k > i \/ k = i) /\ ~(i > i)
  BY <1>1
<1>2. CASE i # Slots /\ p.mem[from][i] # 0
  <2>1. S = T \cup {i} /\ i \notin T
    BY <1>t, <1>2, Zenon DEF TablesLeft
  <2>2. IsFiniteSet(T)
    BY Left
  <2> HIDE DEF S, T
  <2>3. Cardinality(S) = Cardinality(T) + 1
    BY <2>1, <2>2, FS_AddElement
  <2> QED BY <1>2, <2>3 DEF S, T
<1>3. CASE ~(i # Slots /\ p.mem[from][i] # 0)
  <2>1. S = T
    BY <1>t, <1>3, Zenon DEF TablesLeft
  <2>2. Cardinality(T) \in Nat
    BY Left
  <2> QED BY <1>3, <2>1, <2>2
<1> QED BY <1>2, <1>3

\* One page less is left.
LEMMA PageDone ==
  ASSUME NEW p, NEW w, Good(p, w), NEW from \in Frame, w.kind[from] = "dir",
         NEW i \in Slot, NEW j \in Slot
  PROVE  Cardinality(PagesLeft(w, from, i, j - 1)) =
           Cardinality(PagesLeft(w, from, i, j)) +
             IF ~IsApic(i, j) /\ Entry(p, from, i, j) # 0 THEN 1 ELSE 0
<1>1. i \in Nat /\ j \in Nat /\ \A k \in Slot : k \in Nat
  BY Parameters DEF Slot
<1> DEFINE S == PagesLeft(w, from, i, j - 1)
           T == PagesLeft(w, from, i, j)
           g == Entry(p, from, i, j)
<1>2. \A f \in Frame : w.kind[f] = "page" /\ Root(w, f) = from =>
        /\ Row(w, f) \in Nat /\ w.at[f] \in Nat
        /\ (Row(w, f) = i /\ w.at[f] = j => f = g /\ ~IsApic(i, j) /\ g # 0)
  <2> SUFFICES ASSUME NEW f \in Frame, w.kind[f] = "page", Root(w, f) = from
               PROVE  /\ Row(w, f) \in Nat /\ w.at[f] \in Nat
                      /\ (Row(w, f) = i /\ w.at[f] = j => f = g /\ ~IsApic(i, j) /\ g # 0)
    OBVIOUS
  <2>1. f # 0
    BY GoodTypes
  <2>2. /\ Row(w, f) \in Slot /\ w.at[f] \in Slot /\ ~IsApic(Row(w, f), w.at[f])
        /\ w.up[f] = p.mem[from][Row(w, f)] /\ w.up[f] # 0 /\ f = p.mem[w.up[f]][w.at[f]]
    BY Places
  <2> QED BY <1>1, <2>1, <2>2 DEF Entry
<1>3. CASE ~IsApic(i, j) /\ g # 0
  <2>1. g \in Frame /\ w.kind[g] = "page" /\ w.at[g] = j /\ Root(w, g) = from /\ Row(w, g) = i
    BY <1>3, EntryPage
  <2> HIDE DEF g
  <2>2. S = T \cup {g} /\ g \notin T
    <3>1. \A f \in Frame : w.kind[f] = "page" /\ Root(w, f) = from =>
            (~Done(Row(w, f), w.at[f], i, j - 1) <=> ~Done(Row(w, f), w.at[f], i, j) \/ f = g)
      BY <1>1, <1>2, <2>1 DEF Done
    <3>2. ~(~Done(Row(w, g), w.at[g], i, j))
      BY <1>1, <2>1 DEF Done
    <3> QED BY <2>1, <3>1, <3>2 DEF PagesLeft
  <2>3. IsFiniteSet(T)
    BY Left
  <2> HIDE DEF S, T
  <2>4. Cardinality(S) = Cardinality(T) + 1
    BY <2>2, <2>3, FS_AddElement
  <2> QED BY <1>3, <2>4 DEF S, T, g
<1>4. CASE ~(~IsApic(i, j) /\ g # 0)
  <2>1. S = T
    <3>1. \A f \in Frame : w.kind[f] = "page" /\ Root(w, f) = from =>
            (~Done(Row(w, f), w.at[f], i, j - 1) <=> ~Done(Row(w, f), w.at[f], i, j))
      BY <1>1, <1>2, <1>4 DEF Done
    <3> QED BY <3>1 DEF PagesLeft
  <2>2. Cardinality(T) \in Nat
    BY Left
  <2> QED BY <1>4, <2>1, <2>2
<1> QED BY <1>3, <1>4

\* The frames that are free are always enough for what is left to copy.
LEMMA CopyPageKeeps ==
  ASSUME NEW p, NEW w, NEW from, NEW to, Forking(p, w, from, to),
         NEW m, NEW i \in Slot, NEW j \in Slot, NEW x, NEW v,
         Copying(p, w, from, to, m, i, j - 1, x, v), x.mem[to][i] # 0
  PROVE  LET y == CopyPage(x, from, to, <<i, j>>)
         IN  y.mem[to] = x.mem[to] /\ \E u : Copying(p, w, from, to, m, i, j, y, u)
<1> DEFINE y == CopyPage(x, from, to, <<i, j>>)
           need == IF ~IsApic(i, j) /\ Entry(p, from, i, j) # 0 THEN 1 ELSE 0
<1>1. i \in Nat /\ j \in Nat /\ \A k \in Slot : k \in Nat
  BY Parameters DEF Slot
<1>2. /\ Good(p, w) /\ from \in Frame /\ to \in Frame /\ from # to
      /\ w.kind[from] = "dir" /\ w.kind[to] = "dir"
      /\ Good(x, v) /\ Within(p, w, x, v, to) /\ Others(p, w, x, v, to)
  BY DEF Forking, Copying, Within
<1>3. /\ v.kind[from] = "dir" /\ v.kind[to] = "dir"
      /\ \A k, l \in Slot : Entry(x, from, k, l) = Entry(p, from, k, l)
           /\ Word(x, from, k, l) = Word(p, from, k, l)
  BY <1>2, OthersSpace DEF Within
<1>4. /\ Cardinality(PagesLeft(w, from, i, j - 1)) = Cardinality(PagesLeft(w, from, i, j)) + need
      /\ Cardinality(PagesLeft(w, from, i, j)) \in Nat /\ Cardinality(TablesLeft(p, from, m)) \in Nat
  BY <1>2, PageDone, Left
<1>5. \A k, l \in Slot : Done(k, l, i, j) <=> Done(k, l, i, j - 1) \/ (k = i /\ l = j)
  BY <1>1 DEF Done
<1>6. ~Done(i, j, i, j - 1)
  BY <1>1 DEF Done
<1>7. Budget(x, v) \in Int
  BY <1>2, GoodTypes, Parameters DEF Budget
<1>8. CASE ~IsApic(i, j) /\ Entry(p, from, i, j) # 0
  <2>1. Entry(x, to, i, j) = 0 /\ Entry(x, from, i, j) # 0
    BY <1>3, <1>6, <1>8 DEF Copying
  <2>2. need = 1
    BY <1>8
  <2>3. /\ Budget(x, v) >= Cardinality(TablesLeft(p, from, m)) + Cardinality(PagesLeft(w, from, i, j - 1))
        /\ Budget(x, v) >= 1
        /\ Budget(x, v) - 1 >= Cardinality(TablesLeft(p, from, m)) + Cardinality(PagesLeft(w, from, i, j))
    BY <1>4, <1>7, <2>2 DEF Copying
  <2>4. /\ y.mem[to] = x.mem[to] /\ Word(y, to, i, j) = Word(x, from, i, j)
        /\ \A k, l \in Slot : ~(k = i /\ l = j) =>
             Entry(y, to, k, l) = Entry(x, to, k, l) /\ Word(y, to, k, l) = Word(x, to, k, l)
        /\ \E u : Good(y, u) /\ Within(x, v, y, u, to) /\ Budget(y, u) = Budget(x, v) - 1
    BY <1>2, <1>3, <1>8, <2>1, <2>3, CopyOne
  <2> HIDE DEF y
  <2>5. PICK u : Good(y, u) /\ Within(x, v, y, u, to) /\ Budget(y, u) = Budget(x, v) - 1
    BY <2>4
  <2>6. Within(p, w, y, u, to)
    BY <1>2, <2>5, WithinTrans
  <2>7. ASSUME NEW k \in Slot, NEW l \in Slot, ~IsApic(k, l)
        PROVE  IF Done(k, l, i, j) THEN Word(y, to, k, l) = Word(p, from, k, l)
                 ELSE Entry(y, to, k, l) = 0
    <3>1. CASE k = i /\ l = j
      BY <1>3, <1>5, <2>4, <3>1
    <3>2. CASE ~(k = i /\ l = j)
      BY <1>5, <2>4, <2>7, <3>2 DEF Copying
    <3> QED BY <3>1, <3>2
  <2>8. \A k \in Slot : k > m /\ k # Slots => y.mem[to][k] = 0
    BY <2>4 DEF Copying
  <2>9. Copying(p, w, from, to, m, i, j, y, u)
    BY <2>3, <2>5, <2>6, <2>7, <2>8 DEF Copying
  <2> QED BY <2>4, <2>9 DEF y
<1>9. CASE ~(~IsApic(i, j) /\ Entry(p, from, i, j) # 0)
  <2>1. Entry(x, from, i, j) = 0 \/ Entry(x, to, i, j) # 0
    <3>1. CASE IsApic(i, j)
      <4>1. /\ x.mem[to][i] \in Frame /\ v.kind[x.mem[to][i]] = "table" /\ v.at[x.mem[to][i]] = i
        BY <1>2, <1>3 DEF Good, DirsOK
      <4>2. x.mem[x.mem[to][i]][j] = Apic
        BY <1>2, <3>1, <4>1 DEF Good, TablesOK
      <4> QED BY <4>2, Parameters DEF Entry, Apic
    <3> QED BY <1>3, <1>9, <3>1
  <2>2. y = x
    BY <2>1, CopyPageIs
  <2>3. need = 0
    BY <1>9
  <2>4. Budget(x, v) >= Cardinality(TablesLeft(p, from, m)) + Cardinality(PagesLeft(w, from, i, j))
    BY <1>4, <2>3 DEF Copying
  <2>5. ASSUME NEW k \in Slot, NEW l \in Slot, ~IsApic(k, l)
        PROVE  IF Done(k, l, i, j) THEN Word(x, to, k, l) = Word(p, from, k, l)
                 ELSE Entry(x, to, k, l) = 0
    <3>1. CASE k = i /\ l = j
      <4>1. Entry(x, to, i, j) = 0 /\ Entry(p, from, i, j) = 0
        BY <1>6, <1>9, <2>5, <3>1 DEF Copying
      <4> QED BY <3>1, <4>1 DEF Word
    <3>2. CASE ~(k = i /\ l = j)
      BY <1>5, <2>5, <3>2 DEF Copying
    <3> QED BY <3>1, <3>2
  <2>6. Copying(p, w, from, to, m, i, j, x, v)
    BY <2>4, <2>5 DEF Copying
  <2> QED BY <2>2, <2>6
<1> QED BY <1>8, <1>9

\* The table for what fork() copies next.
LEMMA CopyTableStarts ==
  ASSUME NEW p, NEW w, NEW from, NEW to, Forking(p, w, from, to),
         NEW i \in Slot, NEW x, NEW v, Copying(p, w, from, to, i - 1, i, 0, x, v),
         p.mem[from][i] # 0
  PROVE  LET y == WithTable(x, to, i)
         IN  y.mem[to][i] # 0 /\ \E u : Copying(p, w, from, to, i, i, 0, y, u)
<1> DEFINE y == WithTable(x, to, i)
<1>1. i \in Nat /\ \A k \in Slot : k \in Nat /\ (k > i => k > i - 1) /\ (k # i \/ ~(k > i))
  BY Parameters DEF Slot
<1>2. /\ Good(p, w) /\ from \in Frame /\ to \in Frame /\ from # to
      /\ w.kind[from] = "dir" /\ w.kind[to] = "dir"
      /\ Good(x, v) /\ Within(p, w, x, v, to) /\ v.kind[to] = "dir" /\ x.mem[to][Slots] # 0
  BY DEF Forking, Copying, Within
<1>3. /\ Cardinality(TablesLeft(p, from, i - 1)) =
           Cardinality(TablesLeft(p, from, i)) + IF i # Slots /\ p.mem[from][i] # 0 THEN 1 ELSE 0
      /\ Cardinality(PagesLeft(w, from, i, 0)) \in Nat /\ Cardinality(TablesLeft(p, from, i)) \in Nat
  BY TableDone, Left
<1>4. Budget(x, v) \in Int
  BY <1>2, GoodTypes, Parameters DEF Budget
<1>5. Budget(x, v) >= Cardinality(TablesLeft(p, from, i - 1)) + Cardinality(PagesLeft(w, from, i, 0))
  BY DEF Copying
<1>6. CASE x.mem[to][i] # 0
  <2>1. y = x
    BY <1>6 DEF WithTable
  <2>2. Budget(x, v) >= Cardinality(TablesLeft(p, from, i)) + Cardinality(PagesLeft(w, from, i, 0))
    BY <1>3, <1>4, <1>5
  <2>3. \A k \in Slot : k > i /\ k # Slots => x.mem[to][k] = 0
    BY <1>1 DEF Copying
  <2>4. Copying(p, w, from, to, i, i, 0, x, v)
    BY <2>2, <2>3 DEF Copying
  <2> HIDE DEF y
  <2> QED BY <1>6, <2>1, <2>4 DEF y
<1>7. CASE x.mem[to][i] = 0
  <2>1. i # Slots
    BY <1>2, <1>7
  <2>2. /\ Budget(x, v) >= 1
        /\ Budget(x, v) - 1 >= Cardinality(TablesLeft(p, from, i)) + Cardinality(PagesLeft(w, from, i, 0))
    BY <1>3, <1>4, <1>5, <2>1
  <2>3. PICK u : /\ Good(y, u) /\ Within(x, v, y, u, to) /\ Budget(y, u) = Budget(x, v) - 1
                 /\ y.mem[to][i] # 0 /\ y.mem[y.mem[to][i]] = Empty
                 /\ \A k \in Slot : k # i => y.mem[to][k] = x.mem[to][k]
                 /\ \A f \in Frame : v.kind[f] \in {"held", "table", "page"} => Alike(x, v, y, u, f)
    BY <1>2, <1>7, <2>2, WithTableKeeps
  <2> HIDE DEF y
  <2>4. \A k \in Slot : k > i /\ k # Slots => y.mem[to][k] = 0
    BY <1>1, <2>3 DEF Copying
  <2>5. \A l \in Slot : Entry(y, to, i, l) = 0 /\ Entry(x, to, i, l) = 0
          /\ Word(y, to, i, l) = Word(x, to, i, l)
    <3>1. \A l \in Slot : Empty[l] = 0
      BY DEF Empty, Slot
    <3>2. \A l \in Slot : Entry(y, to, i, l) = 0 /\ Entry(x, to, i, l) = 0
      BY <1>7, <2>3, <3>1 DEF Entry
    <3> QED BY <3>2 DEF Word
  <2>6. ASSUME NEW k \in Slot, NEW l \in Slot, k # i, ~IsApic(k, l)
        PROVE  Entry(y, to, k, l) = Entry(x, to, k, l) /\ Word(y, to, k, l) = Word(x, to, k, l)
    <3>1. x.mem[to][k] # 0 => x.mem[to][k] \in Frame /\ v.kind[x.mem[to][k]] = "table"
      BY <1>2 DEF Good, DirsOK
    <3>2. Entry(y, to, k, l) = Entry(x, to, k, l)
      BY <2>3, <2>6, <3>1 DEF Entry, Alike
    <3>3. Entry(x, to, k, l) # 0 => Entry(x, to, k, l) \in Frame /\ v.kind[Entry(x, to, k, l)] = "page"
      BY <1>2, <2>6, EntryPage
    <3>4. Entry(x, to, k, l) # 0 => y.mem[Entry(x, to, k, l)] = x.mem[Entry(x, to, k, l)]
      BY <2>3, <3>3 DEF Alike
    <3> QED BY <3>2, <3>4 DEF Word
  <2>7. ASSUME NEW k \in Slot, NEW l \in Slot, ~IsApic(k, l)
        PROVE  IF Done(k, l, i, 0) THEN Word(y, to, k, l) = Word(p, from, k, l)
                 ELSE Entry(y, to, k, l) = 0
    <3>1. Entry(y, to, k, l) = Entry(x, to, k, l) /\ Word(y, to, k, l) = Word(x, to, k, l)
      BY <2>5, <2>6, <2>7
    <3> QED BY <2>7, <3>1 DEF Copying
  <2>8. Within(p, w, y, u, to)
    BY <1>2, <2>3, WithinTrans
  <2>9. Copying(p, w, from, to, i, i, 0, y, u)
    BY <2>2, <2>3, <2>4, <2>7, <2>8 DEF Copying
  <2> QED BY <2>3, <2>9 DEF y
<1> QED BY <1>6, <1>7

\* One round of the outer loop.
LEMMA CopyTableKeeps ==
  ASSUME NEW p, NEW w, NEW from, NEW to, Forking(p, w, from, to),
         NEW i \in Slot, NEW x, NEW v, Copying(p, w, from, to, i - 1, i, 0, x, v)
  PROVE  \E u : Copying(p, w, from, to, i, i + 1, 0, CopyTable(x, from, to, i), u)
<1>1. i \in Nat /\ Slots \in Nat /\ \A k \in Slot : k \in Nat /\ k > 0 /\ k <= Slots
  BY Parameters DEF Slot
<1>2. /\ Good(p, w) /\ from \in Frame /\ to \in Frame /\ from # to
      /\ w.kind[from] = "dir" /\ w.kind[to] = "dir" /\ Others(p, w, x, v, to) /\ Good(x, v)
  BY DEF Forking, Copying, Within
<1>3. x.mem[from] = p.mem[from]
  BY <1>2, OthersSpace
<1>4. \A f \in Frame : w.kind[f] = "page" /\ Root(w, f) = from =>
        Row(w, f) \in Slot /\ w.at[f] \in Slot /\ p.mem[from][Row(w, f)] # 0
  BY <1>2, Places
<1>5. CASE p.mem[from][i] = 0
  <2>1. CopyTable(x, from, to, i) = x
    BY <1>3, <1>5 DEF CopyTable
  <2>a. \A k, l \in Slot : Done(k, l, i + 1, 0) <=> Done(k, l, i, 0) \/ k = i
    BY <1>1 DEF Done
  <2>2. PagesLeft(w, from, i + 1, 0) = PagesLeft(w, from, i, 0)
    <3>1. ASSUME NEW f \in Frame, w.kind[f] = "page", Root(w, f) = from
          PROVE  Done(Row(w, f), w.at[f], i + 1, 0) <=> Done(Row(w, f), w.at[f], i, 0)
      <4>1. Row(w, f) \in Slot /\ w.at[f] \in Slot /\ Row(w, f) # i
        BY <1>4, <1>5, <3>1
      <4> QED BY <2>a, <4>1
    <3> QED BY <3>1 DEF PagesLeft
  <2>3. /\ Cardinality(TablesLeft(p, from, i - 1)) =
             Cardinality(TablesLeft(p, from, i)) + IF i # Slots /\ p.mem[from][i] # 0 THEN 1 ELSE 0
        /\ Cardinality(TablesLeft(p, from, i)) \in Nat
    BY TableDone, Left
  <2>4. Cardinality(TablesLeft(p, from, i - 1)) = Cardinality(TablesLeft(p, from, i))
    BY <1>5, <2>3
  <2>5. \A k \in Slot : k > i /\ k # Slots => x.mem[to][k] = 0
    BY <1>1 DEF Copying
  <2>6. ASSUME NEW k \in Slot, NEW l \in Slot, ~IsApic(k, l)
        PROVE  IF Done(k, l, i + 1, 0) THEN Word(x, to, k, l) = Word(p, from, k, l)
                 ELSE Entry(x, to, k, l) = 0
    <3>1. Done(k, l, i + 1, 0) <=> Done(k, l, i, 0) \/ k = i
      BY <2>a
    <3>2. k = i => ~Done(k, l, i, 0)
      BY <1>1 DEF Done
    <3>3. CASE k = i
      <4>1. Entry(x, to, k, l) = 0
        BY <2>6, <3>2, <3>3 DEF Copying
      <4>2. Entry(p, from, k, l) = 0
        BY <1>5, <3>3 DEF Entry
      <4> QED BY <3>1, <3>3, <4>1, <4>2 DEF Word
    <3>4. CASE k # i
      BY <2>6, <3>1, <3>4 DEF Copying
    <3> QED BY <3>3, <3>4
  <2>7. Copying(p, w, from, to, i, i + 1, 0, x, v)
    BY <2>2, <2>4, <2>5, <2>6 DEF Copying
  <2> QED BY <2>1, <2>7
<1>6. CASE p.mem[from][i] # 0
  <2> DEFINE z == WithTable(x, to, i)
             good == [j \in 0 .. Slots |-> {y \in Phys : /\ y.mem[to][i] # 0
                                                         /\ \E u : Copying(p, w, from, to, i, i, j, y, u)}]
  <2>1. CopyTable(x, from, to, i) = CopyPages(z, from, to, i)
    BY <1>3, <1>6 DEF CopyTable
  <2>2. z.mem[to][i] # 0 /\ \E u : Copying(p, w, from, to, i, i, 0, z, u)
    BY <1>6, CopyTableStarts
  <2> HIDE DEF z
  <2>3. CopyPages(z, from, to, i) \in good[Slots]
    <3>1. good \in Goals(Slots, Phys)
      BY DEF Goals
    <3>2. z \in good[0]
      <4>1. z \in Phys
        BY <2>2 DEF Copying, Good
      <4>2. 0 \in 0 .. Slots
        BY Parameters
      <4> QED BY <2>2, <4>1, <4>2
    <3>3. ASSUME NEW j \in 1 .. Slots, NEW y \in good[j - 1]
          PROVE  CopyPage(y, from, to, <<i, j>>) \in good[j]
      <4>1. j \in Slot /\ j - 1 \in 0 .. Slots /\ j \in 0 .. Slots
        BY Parameters DEF Slot
      <4>2. y.mem[to][i] # 0
        BY <4>1
      <4>3. PICK u : Copying(p, w, from, to, i, i, j - 1, y, u)
        BY <4>1
      <4> DEFINE r == CopyPage(y, from, to, <<i, j>>)
      <4>4. r.mem[to] = y.mem[to] /\ \E s : Copying(p, w, from, to, i, i, j, r, s)
        BY <4>1, <4>2, <4>3, CopyPageKeeps
      <4> HIDE DEF r
      <4>5. r \in Phys /\ r.mem[to][i] # 0
        BY <4>2, <4>4 DEF Copying, Good
      <4> QED BY <4>1, <4>4, <4>5 DEF r
    <3> HIDE DEF good
    <3> QED BY <3>1, <3>2, <3>3, LoopOfCopyPages
  <2> DEFINE y == CopyPages(z, from, to, i)
  <2> HIDE DEF y
  <2>4. PICK u : Copying(p, w, from, to, i, i, Slots, y, u)
    BY <1>1, <2>3 DEF y
  <2>5. \A k, l \in Slot : Done(k, l, i + 1, 0) <=> Done(k, l, i, Slots)
    BY <1>1 DEF Done
  <2>6. PagesLeft(w, from, i + 1, 0) = PagesLeft(w, from, i, Slots)
    BY <1>4, <2>5 DEF PagesLeft
  <2>7. Copying(p, w, from, to, i, i + 1, 0, y, u)
    BY <2>4, <2>5, <2>6 DEF Copying
  <2> QED BY <2>1, <2>7 DEF y
<1> QED BY <1>5, <1>6

\* fork() copies every page and keeps everything else.
LEMMA CopyPrivateKeeps ==
  ASSUME NEW p, NEW w, NEW from, NEW to, Forking(p, w, from, to),
         \A k \in Slot : k # Slots => p.mem[to][k] = 0,
         \A l \in Slot : l # 1 => p.mem[p.mem[to][Slots]][l] = 0,
         Budget(p, w) >= Cardinality(TablesLeft(p, from, 0)) + Cardinality(PagesLeft(w, from, 1, 0))
  PROVE  LET q == CopyPrivate(p, from, to)
         IN  \E v : /\ Good(q, v) /\ Within(p, w, q, v, to)
                    /\ \A k, l \in Slot : ~IsApic(k, l) => Word(q, to, k, l) = Word(p, from, k, l)
<1> DEFINE good == [i \in 0 .. Slots |-> {x \in Phys : \E v : Copying(p, w, from, to, i, i + 1, 0, x, v)}]
<1>1. Slots \in Nat /\ Slots + 1 \in Nat /\ \A k \in Slot : k \in Nat /\ k > 0 /\ k <= Slots
  BY Parameters DEF Slot
<1>2. Copying(p, w, from, to, 0, 1, 0, p, w)
  <2>1. \A k, l \in Slot : ~Done(k, l, 1, 0)
    BY <1>1 DEF Done
  <2>2. \A k, l \in Slot : ~IsApic(k, l) => Entry(p, to, k, l) = 0
    BY DEF Entry, IsApic
  <2> QED BY <2>1, <2>2, WithinSame DEF Copying, Forking
<1>3. CopyPrivate(p, from, to) \in good[Slots]
  <2>1. good \in Goals(Slots, Phys)
    BY DEF Goals
  <2>2. p \in good[0]
    <3>1. p \in Phys /\ 0 \in 0 .. Slots /\ 0 + 1 = 1
      BY <1>1 DEF Forking, Good
    <3> QED BY <1>2, <3>1
  <2>3. ASSUME NEW i \in 1 .. Slots, NEW x \in good[i - 1]
        PROVE  CopyTable(x, from, to, i) \in good[i]
    <3>1. i \in Slot /\ i - 1 \in 0 .. Slots /\ i \in 0 .. Slots /\ (i - 1) + 1 = i
      BY Parameters DEF Slot
    <3>2. PICK v : Copying(p, w, from, to, i - 1, i, 0, x, v)
      BY <3>1
    <3> DEFINE y == CopyTable(x, from, to, i)
    <3> HIDE DEF y
    <3>3. PICK u : Copying(p, w, from, to, i, i + 1, 0, y, u)
      BY <3>1, <3>2, CopyTableKeeps DEF y
    <3>4. y \in Phys
      BY <3>3 DEF Copying, Good
    <3> QED BY <3>1, <3>3, <3>4 DEF y
  <2> HIDE DEF good
  <2> QED BY <2>1, <2>2, <2>3, LoopOfCopyPrivate
<1>4. PICK v : Copying(p, w, from, to, Slots, Slots + 1, 0, CopyPrivate(p, from, to), v)
  BY <1>1, <1>3
<1>5. \A k, l \in Slot : Done(k, l, Slots + 1, 0)
  BY <1>1 DEF Done
<1> QED BY <1>4, <1>5 DEF Copying

\* make_pd() and the loops of fork(): the child finds what the parent finds, in frames
\* that nobody else has.
LEMMA ForkKeeps ==
  ASSUME NEW p, NEW w, Good(p, w), \A f \in Frame : w.kind[f] # "held",
         NEW from \in Frame, w.kind[from] = "dir",
         Budget(p, w) >= 2 + Cardinality(TablesLeft(p, from, 0)) + Cardinality(PagesLeft(w, from, 1, 0))
  PROVE  LET to == NextFrame(p)
             q == CopyPrivate(MakePd(p), from, to)
         IN  /\ to \in Frame /\ w.kind[to] \in {"free", "unused"} /\ q.mem[to][Slots] # 0
             /\ \A k, l \in Slot : ~IsApic(k, l) => Word(q, to, k, l) = Word(p, from, k, l)
             /\ \E v : /\ Good(q, v) /\ Others(p, w, q, v, to)
                       /\ \A f \in Frame : v.kind[f] # "held"
                            /\ (v.kind[f] = "dir" <=> w.kind[f] = "dir" \/ f = to)
<1> DEFINE to == NextFrame(p)
           m == MakePd(p)
           q == CopyPrivate(m, from, to)
<1>1. /\ Cardinality(TablesLeft(p, from, 0)) \in Nat /\ Cardinality(PagesLeft(w, from, 1, 0)) \in Nat
      /\ Budget(p, w) \in Int /\ \A f \in Frame : f # 0
  BY Left, GoodTypes, Parameters DEF Budget
<1>2. Budget(p, w) >= 2
  BY <1>1
<1>3. /\ to \in Frame /\ w.kind[to] \in {"free", "unused"}
      /\ m.mem[to][Slots] # 0 /\ \A i \in Slot : i # Slots => m.mem[to][i] = 0
      /\ \A j \in Slot : j # 1 => m.mem[m.mem[to][Slots]][j] = 0
      /\ \E u : /\ Good(m, u) /\ Budget(m, u) = Budget(p, w) - 2 /\ Others(p, w, m, u, to)
                /\ \A f \in Frame : u.kind[f] # "held"
                     /\ (u.kind[f] = "dir" <=> w.kind[f] = "dir" \/ f = to)
  BY <1>2, MakePdKeeps
<1> HIDE DEF to, m
<1>4. PICK u : /\ Good(m, u) /\ Budget(m, u) = Budget(p, w) - 2 /\ Others(p, w, m, u, to)
               /\ \A f \in Frame : u.kind[f] # "held"
                    /\ (u.kind[f] = "dir" <=> w.kind[f] = "dir" \/ f = to)
  BY <1>3
<1>5. from # to /\ u.kind[from] = "dir" /\ u.kind[to] = "dir"
  BY <1>3, <1>4
<1>6. m.mem[from] = p.mem[from] /\ \A i, j \in Slot : Word(m, from, i, j) = Word(p, from, i, j)
  BY <1>4, <1>5, OthersSpace
<1>7. TablesLeft(m, from, 0) = TablesLeft(p, from, 0)
  BY <1>6 DEF TablesLeft
<1>8. PagesLeft(u, from, 1, 0) = PagesLeft(w, from, 1, 0)
  <2>1. ASSUME NEW f \in Frame
        PROVE  /\ Root(u, f) = from <=> Root(w, f) = from
               /\ Root(w, f) = from => u.kind[f] = w.kind[f] /\ u.up[f] = w.up[f] /\ u.at[f] = w.at[f]
    BY <1>1, <1>4, <1>5 DEF Others
  <2>2. ASSUME NEW f \in Frame, w.kind[f] = "page", Root(w, f) = from
        PROVE  Row(u, f) = Row(w, f)
    <3>1. w.up[f] \in Frame /\ Root(w, w.up[f]) = from
      BY <2>2 DEF Good, PagesOK, Root
    <3> QED BY <2>1, <2>2, <3>1 DEF Row
  <2> QED BY <2>1, <2>2 DEF PagesLeft
<1>9. Forking(m, u, from, to)
  BY <1>3, <1>4, <1>5 DEF Forking
<1>10. Budget(m, u) >= Cardinality(TablesLeft(m, from, 0)) + Cardinality(PagesLeft(u, from, 1, 0))
  BY <1>1, <1>4, <1>7, <1>8
<1>11. PICK v : /\ Good(q, v) /\ Within(m, u, q, v, to)
                /\ \A k, l \in Slot : ~IsApic(k, l) => Word(q, to, k, l) = Word(m, from, k, l)
  BY <1>3, <1>9, <1>10, CopyPrivateKeeps
<1> HIDE DEF q
<1>12. Others(p, w, q, v, to)
  BY <1>4, <1>11, OthersTrans DEF Within
<1> QED BY <1>3, <1>4, <1>6, <1>11, <1>12 DEF Within, to, q, m

-----------------------------------------------------------------------------
(* The invariant. *)

\* The roles w of the frames are those that the processes give them.
Owned(w) ==
  /\ Good(phys, w)
  /\ \A f \in Frame : /\ w.kind[f] # "held"
                      /\ w.kind[f] = "dir" => phys.mem[f][Slots] # 0
                      /\ w.kind[f] = "dir" <=> \E p \in Procs : pd[p] = f

Stages == {"unborn", "user", "forking", "exited", "zombie", "reaped"}
HasThread(p) == stage[p] \in {"user", "forking", "exited", "zombie"}
Waited(p) == \E q \in Procs : child[q] = p

\* Every variable but phys has its type, which is part of Good.
TypeOK ==
  /\ pd \in [Procs -> 0 .. Frames] /\ stage \in [Procs -> Stages] /\ refs \in [Procs -> Nat]
  /\ child \in [Procs -> Procs \cup {NoProc}] /\ on \in [Cores -> Procs \cup {"kernel_thread"}]
  /\ cr3 \in [Cores -> Nat] /\ tlb \in [Cores -> [Addresses -> Nat]]

\* A process is there as long as its thread or a fork() has a reference to it,
\* and no core executes one that is not.
Lives ==
  /\ \A p \in Procs : refs[p] = (IF HasThread(p) THEN 1 ELSE 0) + (IF Waited(p) THEN 1 ELSE 0)
                                + (IF p = Kernel THEN 1 ELSE 0)
  /\ \A p \in Procs : pd[p] # 0 <=> refs[p] # 0
  /\ \A p, q \in Procs : pd[p] # 0 /\ pd[p] = pd[q] => p = q
  /\ \A p \in Procs : child[p] # NoProc <=> stage[p] = "forking"
  /\ \A p, q \in Procs : child[p] # NoProc /\ child[p] = child[q] => p = q
  /\ \A p \in Procs : child[p] # Kernel /\ child[p] # p
  /\ \A p, q \in Procs : child[p] = q => stage[q] # "unborn"
  /\ stage[Kernel] # "unborn"
  /\ \A c \in Cores : on[c] \in Procs => stage[on[c]] \in {"user", "forking", "exited"}
  /\ \A c, d \in Cores : on[c] \in Procs /\ on[c] = on[d] => c = d

\* A TLB holds entries of the tables that its core uses.
Caches ==
  \A c \in Cores :
    /\ cr3[c] = pd[ProcessOf(on[c])]
    /\ \A i, j \in Slot : tlb[c][<<i, j>>] # 0 =>
         /\ ~IsApic(i, j) /\ on[c] # "kernel_thread"
         /\ tlb[c][<<i, j>>] = Entry(phys, cr3[c], i, j)

IInv == TypeOK /\ Lives /\ Caches /\ \E w : Owned(w)

-----------------------------------------------------------------------------
(* What the invariant implies. *)

\* The processes that exist are those with a directory.
LEMMA ExistingAre ==
  ASSUME TypeOK, Lives
  PROVE  \A p \in Procs : /\ p \in Existing <=> pd[p] # 0
                          /\ pd[p] # 0 => pd[p] \in Frame
                          /\ HasThread(p) => pd[p] # 0
<1>1. \A p \in Procs : stage[p] \in Stages /\ pd[p] \in 0 .. Frames /\ refs[p] \in Nat
  BY DEF TypeOK
<1>2. \A p \in Procs : p \in Existing <=> p = Kernel \/ HasThread(p) \/ Waited(p)
  BY <1>1 DEF Existing, HasThread, Waited, Stages
<1>3. \A p \in Procs : refs[p] # 0 <=> p = Kernel \/ HasThread(p) \/ Waited(p)
  BY DEF Lives
<1>4. \A p \in Procs : pd[p] # 0 => pd[p] \in Frame
  BY <1>1, Parameters DEF Frame
<1> QED BY <1>2, <1>3, <1>4 DEF Lives

\* Two names of one entry.
LEMMA WalkEntry ==
  ASSUME NEW p, NEW d, NEW i, NEW j
  PROVE  Walk(p, d, <<i, j>>) = Entry(p, d, i, j)
BY WalkIs DEF Entry

\* A frame has one role, so it has one use.
LEMMA Exclusive ==
  ASSUME TypeOK, Lives, NEW w, Owned(w)
  PROVE  FramesExclusive
<1>1. /\ Good(phys, w) /\ UnusedOK(phys, w) /\ DirsOK(phys, w) /\ TablesOK(phys, w) /\ PagesOK(phys, w)
      /\ \A g \in Frame : /\ w.kind[g] \in Kinds /\ w.kind[g] # "held" /\ g # 0
                          /\ w.kind[g] = "dir" <=> \E p \in Procs : pd[p] = g
  BY GoodTypes DEF Owned, Good, Roles
<1>2. \A p \in Existing : /\ p \in Procs /\ pd[p] \in Frame /\ w.kind[pd[p]] = "dir"
                          /\ \A q \in Procs : pd[q] = pd[p] => p = q
  BY <1>1, ExistingAre DEF Lives, Existing
<1>3. \A d \in Frame : w.kind[d] = "dir" => \E p \in Existing : pd[p] = d
  BY <1>1, ExistingAre
<1> SUFFICES ASSUME NEW f \in Frame PROVE \E u \in Uses(f) : Uses(f) = {u}
  BY DEF FramesExclusive, Frame
<1> DEFINE free == {<<"free">> : x \in {f} \cap FreeFrames(phys)}
           unused == {<<"unused">> : x \in {f} \cap phys.avail .. Frames}
           dirs == {q \in Existing : pd[q] = f}
           dir == {<<"directory", p>> : p \in dirs}
           tables == {y \in Existing \X (1 .. Slots) : phys.mem[pd[y[1]]][y[2]] = f}
           table == {<<"table", x>> : x \in tables}
           pages == {y \in Existing \X Addresses : Walk(phys, pd[y[1]], y[2]) = f}
           page == {<<"page", x>> : x \in pages}
<1>4. Uses(f) = free \cup unused \cup dir \cup table \cup page
  BY Zenon DEF Uses
<1>5. f \in FreeFrames(phys) <=> w.kind[f] = "free"
  BY <1>1, FreeFramesAre DEF Free
<1>6. f \in phys.avail .. Frames <=> w.kind[f] = "unused"
  <2>1. f \in Nat /\ f <= Frames /\ phys.avail \in Nat
    BY <1>1, GoodTypes, Parameters DEF Frame
  <2> QED BY <1>1, <2>1, Parameters DEF UnusedOK
<1>7. \A q \in dirs : w.kind[f] = "dir"
  BY <1>2
<1>8. ASSUME NEW y \in tables
      PROVE  /\ y = <<y[1], y[2]>> /\ y[1] \in Existing /\ y[2] \in Slot /\ w.kind[f] = "table"
             /\ pd[y[1]] = w.up[f] /\ y[2] = w.at[f]
  <2>1. y = <<y[1], y[2]>> /\ y[1] \in Existing /\ y[2] \in Slot /\ phys.mem[pd[y[1]]][y[2]] = f
    BY DEF Slot
  <2>2. pd[y[1]] \in Frame /\ w.kind[pd[y[1]]] = "dir"
    BY <1>2, <2>1
  <2> QED BY <1>1, <2>1, <2>2 DEF DirsOK
<1>9. ASSUME NEW y \in pages
      PROVE  /\ y = <<y[1], <<y[2][1], y[2][2]>>>> /\ y[1] \in Existing
             /\ w.kind[f] = "page" /\ pd[y[1]] = w.up[w.up[f]] /\ y[2][1] = w.at[w.up[f]]
                  /\ y[2][2] = w.at[f]
  <2>1. y = <<y[1], y[2]>> /\ y[1] \in Existing /\ y[2] \in Addresses /\ Walk(phys, pd[y[1]], y[2]) = f
    OBVIOUS
  <2>2. y[2] = <<y[2][1], y[2][2]>> /\ y[2][1] \in Slot /\ y[2][2] \in Slot
    BY <2>1 DEF Addresses, Slot
  <2> DEFINE i == y[2][1]
             j == y[2][2]
             d == pd[y[1]]
  <2>3. i \in Slot /\ j \in Slot /\ Entry(phys, d, i, j) = f
    <3>1. Walk(phys, d, y[2]) = Entry(phys, d, i, j)
      BY <2>2, WalkEntry
    <3> QED BY <2>1, <2>2, <3>1
  <2>4. d \in Frame /\ w.kind[d] = "dir"
    BY <1>2, <2>1
  <2> HIDE DEF i, j, d
  <2>5. ~IsApic(i, j)
    <3> SUFFICES ASSUME IsApic(i, j) PROVE FALSE
      OBVIOUS
    <3>1. phys.mem[d][i] # 0
      BY <1>1, <2>3 DEF Entry
    <3>2. phys.mem[d][i] \in Frame /\ w.kind[phys.mem[d][i]] = "table" /\ w.at[phys.mem[d][i]] = i
      BY <1>1, <2>3, <2>4, <3>1 DEF DirsOK
    <3>3. phys.mem[phys.mem[d][i]][j] = Apic
      BY <1>1, <2>3, <3>2 DEF TablesOK
    <3> QED BY <2>3, <3>1, <3>3, Parameters DEF Entry, Apic, Frame
  <2>6. w.kind[f] = "page" /\ w.up[w.up[f]] = d /\ w.at[w.up[f]] = i /\ w.at[f] = j
    BY <1>1, <2>3, <2>4, <2>5, EntryPage
  <2> QED BY <2>1, <2>2, <2>6 DEF d, i, j
<1> HIDE DEF dirs, tables, pages
<1>10. CASE w.kind[f] = "free"
  <2>1. dir = {} /\ table = {} /\ page = {}
    BY <1>7, <1>8, <1>9, <1>10
  <2>2. unused = {} /\ free = {<<"free">>}
    BY <1>5, <1>6, <1>10
  <2> QED BY <1>4, <2>1, <2>2
<1>11. CASE w.kind[f] = "unused"
  <2>1. dir = {} /\ table = {} /\ page = {}
    BY <1>7, <1>8, <1>9, <1>11
  <2>2. free = {} /\ unused = {<<"unused">>}
    BY <1>5, <1>6, <1>11
  <2> QED BY <1>4, <2>1, <2>2
<1>12. CASE w.kind[f] = "dir"
  <2>1. table = {} /\ page = {}
    BY <1>8, <1>9, <1>12
  <2>2. free = {} /\ unused = {}
    BY <1>5, <1>6, <1>12
  <2>3. PICK p \in Existing : pd[p] = f
    BY <1>3, <1>12
  <2>4. dirs = {p}
    BY <1>2, <2>3 DEF dirs
  <2>5. dir = {<<"directory", p>>}
    BY <2>4
  <2> QED BY <1>4, <2>1, <2>2, <2>5
<1>13. CASE w.kind[f] = "table"
  <2>1. dir = {} /\ page = {}
    BY <1>7, <1>9, <1>13
  <2>2. free = {} /\ unused = {}
    BY <1>5, <1>6, <1>13
  <2>3. w.up[f] \in Frame /\ w.kind[w.up[f]] = "dir" /\ w.at[f] \in Slot
          /\ phys.mem[w.up[f]][w.at[f]] = f
    BY <1>1, <1>13 DEF TablesOK
  <2>4. PICK p \in Existing : pd[p] = w.up[f]
    BY <1>3, <2>3
  <2> DEFINE x == <<p, w.at[f]>>
  <2>5. x \in tables
    <3>1. x \in Existing \X (1 .. Slots) /\ x[1] = p /\ x[2] = w.at[f]
      BY <2>3, <2>4 DEF Slot
    <3> QED BY <2>3, <2>4, <3>1 DEF tables
  <2>6. \A y \in tables : y = x
    BY <1>2, <1>8, <2>4
  <2> HIDE DEF x
  <2>7. tables = {x}
    BY <2>5, <2>6
  <2>8. table = {<<"table", x>>}
    BY <2>7
  <2> QED BY <1>4, <2>1, <2>2, <2>8
<1>14. CASE w.kind[f] = "page"
  <2>1. dir = {} /\ table = {}
    BY <1>7, <1>8, <1>14
  <2>2. free = {} /\ unused = {}
    BY <1>5, <1>6, <1>14
  <2>3. /\ w.up[f] \in Frame /\ w.kind[w.up[f]] = "table" /\ w.at[f] \in Slot
        /\ phys.mem[w.up[f]][w.at[f]] = f
    BY <1>1, <1>14 DEF PagesOK
  <2> DEFINE d == w.up[w.up[f]]
             i == w.at[w.up[f]]
             j == w.at[f]
  <2>4. d \in Frame /\ w.kind[d] = "dir" /\ i \in Slot /\ phys.mem[d][i] = w.up[f]
    BY <1>1, <2>3 DEF TablesOK
  <2>5. PICK p \in Existing : pd[p] = d
    BY <1>3, <2>4
  <2>6. Entry(phys, d, i, j) = f
    BY <1>1, <2>3, <2>4 DEF Entry
  <2> DEFINE x == <<p, <<i, j>>>>
  <2>7. x \in pages
    <3>1. x \in Existing \X Addresses /\ x[1] = p /\ x[2] = <<i, j>>
      BY <2>3, <2>4, <2>5 DEF Addresses, Slot
    <3>2. Walk(phys, d, <<i, j>>) = f
      BY <2>6, WalkEntry
    <3> HIDE DEF x, d, i, j
    <3> QED BY <2>5, <3>1, <3>2, Zenon DEF pages
  <2>8. \A y \in pages : y = x
    BY <1>2, <1>9, <2>5
  <2> HIDE DEF x
  <2>9. pages = {x}
    BY <2>7, <2>8
  <2>10. page = {<<"page", x>>}
    BY <2>9
  <2> QED BY <1>4, <2>1, <2>2, <2>10
<1> QED BY <1>1, <1>10, <1>11, <1>12, <1>13, <1>14 DEF Kinds

\* What a core has cached is in the tables that it uses, which are not deleted.
LEMMA Translated ==
  ASSUME TypeOK, Lives, Caches
  PROVE  TranslationsCurrent
<1> SUFFICES ASSUME NEW c \in Cores
             PROVE  /\ cr3[c] # 0 /\ cr3[c] = pd[ProcessOf(on[c])]
                    /\ \A va \in Addresses : tlb[c][va] # 0 => tlb[c][va] = Walk(phys, cr3[c], va)
  BY DEF TranslationsCurrent
<1>1. on[c] \in Procs \cup {"kernel_thread"} /\ stage[Kernel] \in Stages
  BY Parameters DEF TypeOK
<1>2. pd[Kernel] # 0
  BY Parameters DEF Lives, TypeOK
<1>3. on[c] \in Procs => pd[on[c]] # 0
  BY ExistingAre DEF Lives, HasThread
<1>4. cr3[c] # 0 /\ cr3[c] = pd[ProcessOf(on[c])]
  BY <1>1, <1>2, <1>3 DEF Caches, ProcessOf
<1>5. ASSUME NEW va \in Addresses, tlb[c][va] # 0
      PROVE  tlb[c][va] = Walk(phys, cr3[c], va)
  <2>1. PICK i \in Slot, j \in Slot : va = <<i, j>>
    BY DEF Addresses, Slot
  <2>2. tlb[c][<<i, j>>] = Entry(phys, cr3[c], i, j)
    BY <1>5, <2>1 DEF Caches
  <2> QED BY <2>1, <2>2, WalkEntry
<1> QED BY <1>4, <1>5

-----------------------------------------------------------------------------
(* The invariant holds at first. *)

\* The frames before the first make_pd().
LEMMA RawIsGood ==
  LET raw == [mem |-> [f \in Frame |-> Empty], firstFree |-> 0, avail |-> 1]
      w == [kind |-> [f \in Frame |-> "unused"], up |-> [f \in Frame |-> 0], at |-> [f \in Frame |-> 0], n |-> 0]
  IN  Good(raw, w) /\ Budget(raw, w) >= 2 /\ (\A f \in Frame : w.kind[f] = "unused")
        /\ NextFrame(raw) = 1
<1> DEFINE raw == [mem |-> [f \in Frame |-> Empty], firstFree |-> 0, avail |-> 1]
           w == [kind |-> [f \in Frame |-> "unused"], up |-> [f \in Frame |-> 0], at |-> [f \in Frame |-> 0], n |-> 0]
<1>1. Empty \in Page
  BY DEF Empty, Page, Slot
<1>2. /\ raw \in Phys /\ raw.firstFree = 0 /\ raw.avail = 1
  BY <1>1 DEF Phys
<1>3. w \in Roles /\ w.n = 0 /\ \A f \in Frame : w.kind[f] = "unused"
  BY DEF Roles, Kinds
<1> HIDE DEF raw, w
<1>4. Free(w) = {}
  BY <1>3 DEF Free
<1>5. Cardinality(Free(w)) = 0
  BY <1>4, FS_EmptySet
<1>6. ListOK(raw, w)
  BY <1>2, <1>3, <1>5 DEF ListOK
<1>7. UnusedOK(raw, w)
  BY <1>2, <1>3, Parameters DEF UnusedOK, Frame
<1>8. DirsOK(raw, w) /\ TablesOK(raw, w) /\ PagesOK(raw, w)
  BY <1>3 DEF DirsOK, TablesOK, PagesOK
<1>9. Budget(raw, w) >= 2
  BY <1>2, <1>3, Parameters DEF Budget
<1>10. NextFrame(raw) = 1
  BY <1>2 DEF NextFrame
<1> QED BY <1>2, <1>3, <1>6, <1>7, <1>8, <1>9, <1>10 DEF Good, raw, w

\* The kernel has a directory and nothing else exists.
LEMMA InitOK ==
  ASSUME Init
  PROVE  IInv
<1> DEFINE raw == [mem |-> [f \in Frame |-> Empty], firstFree |-> 0, avail |-> 1]
           w == [kind |-> [f \in Frame |-> "unused"], up |-> [f \in Frame |-> 0], at |-> [f \in Frame |-> 0], n |-> 0]
<1>1. phys = MakePd(raw)
  BY Zenon DEF Init, Frame
<1>2. Good(raw, w) /\ Budget(raw, w) >= 2 /\ (\A f \in Frame : w.kind[f] = "unused")
        /\ NextFrame(raw) = 1
  BY RawIsGood
<1> HIDE DEF raw, w
<1>3. /\ phys.mem[1][Slots] # 0
      /\ \E v : /\ Good(phys, v)
                /\ \A f \in Frame : v.kind[f] # "held"
                     /\ (v.kind[f] = "dir" <=> w.kind[f] = "dir" \/ f = 1)
  BY <1>1, <1>2, MakePdKeeps
<1>4. /\ pd = [p \in Procs |-> IF p = Kernel THEN 1 ELSE 0]
      /\ stage = [p \in Procs |-> IF p = Kernel THEN "user" ELSE "unborn"]
      /\ refs = [p \in Procs |-> IF p = Kernel THEN 2 ELSE 0]
      /\ child = [p \in Procs |-> NoProc]
      /\ on = [c \in Cores |-> "kernel_thread"]
      /\ cr3 = [c \in Cores |-> 1]
      /\ tlb = [c \in Cores |-> Uncached]
  BY DEF Init
<1>5. \E v : Owned(v)
  <2>1. \A f \in Frame : f = 1 <=> \E p \in Procs : pd[p] = f
    BY <1>4, Parameters DEF Frame
  <2> QED BY <1>2, <1>3, <2>1 DEF Owned
<1>6. TypeOK
  <2>1. 0 \in 0 .. Frames /\ 1 \in 0 .. Frames
    BY Parameters
  <2>2. Uncached \in [Addresses -> Nat]
    BY DEF Uncached
  <2>3. "user" \in Stages /\ "unborn" \in Stages
    BY DEF Stages
  <2>4. pd \in [Procs -> 0 .. Frames] /\ cr3 \in [Cores -> Nat] /\ refs \in [Procs -> Nat]
    BY <1>4, <2>1
  <2>5. stage \in [Procs -> Stages]
    BY <1>4, <2>3
  <2>6. child \in [Procs -> Procs \cup {NoProc}] /\ on \in [Cores -> Procs \cup {"kernel_thread"}]
    BY <1>4
  <2>7. tlb \in [Cores -> [Addresses -> Nat]]
    BY <1>4, <2>2
  <2> QED BY <2>4, <2>5, <2>6, <2>7 DEF TypeOK
<1>7. Lives
  <2>1. \A p \in Procs : ~Waited(p) /\ child[p] = NoProc
    BY <1>4, Parameters DEF Waited
  <2>2. \A p \in Procs : /\ HasThread(p) <=> p = Kernel
                         /\ stage[p] = IF p = Kernel THEN "user" ELSE "unborn"
    BY <1>4 DEF HasThread
  <2>3. \A c \in Cores : on[c] \notin Procs
    BY <1>4, Parameters
  <2> QED BY <1>4, <2>1, <2>2, <2>3, Parameters DEF Lives
<1>8. Caches
  <2>1. \A va \in Addresses : Uncached[va] = 0
    BY DEF Uncached
  <2>2. \A i, j \in Slot : <<i, j>> \in Addresses
    BY DEF Addresses, Slot
  <2>3. \A c \in Cores : cr3[c] = pd[ProcessOf(on[c])]
    BY <1>4, Parameters DEF ProcessOf
  <2>4. \A c \in Cores : \A i, j \in Slot : tlb[c][<<i, j>>] = 0
    BY <1>4, <2>1, <2>2
  <2> QED BY <2>3, <2>4 DEF Caches
<1> QED BY <1>5, <1>6, <1>7, <1>8 DEF IInv

-----------------------------------------------------------------------------
(* Every step keeps it, and keeps memory private. *)

\* Process p finds in its memory what it found before.
Undisturbed(p) ==
  pd[p] # 0 /\ pd'[p] = pd[p] =>
    \A i, j \in Slot : ~IsApic(i, j) => Word(phys', pd[p], i, j) = Word(phys, pd[p], i, j)

\* Only the address space with directory d has changed.
LEMMA Elsewhere ==
  ASSUME TypeOK, NEW w, Owned(w), NEW v, NEW d, Others(phys, w, phys', v, d)
  PROVE  \A p \in Procs : pd[p] # 0 /\ pd[p] # d =>
           /\ phys'.mem[pd[p]] = phys.mem[pd[p]]
           /\ \A i, j \in Slot : /\ Entry(phys', pd[p], i, j) = Entry(phys, pd[p], i, j)
                                 /\ Word(phys', pd[p], i, j) = Word(phys, pd[p], i, j)
<1> SUFFICES ASSUME NEW p \in Procs, pd[p] # 0, pd[p] # d
             PROVE  /\ phys'.mem[pd[p]] = phys.mem[pd[p]]
                    /\ \A i, j \in Slot : /\ Entry(phys', pd[p], i, j) = Entry(phys, pd[p], i, j)
                                          /\ Word(phys', pd[p], i, j) = Word(phys, pd[p], i, j)
  OBVIOUS
<1> DEFINE e == pd[p]
<1>1. e \in Frame
  BY Parameters DEF TypeOK, Frame
<1>2. Good(phys, w) /\ w.kind[e] = "dir" /\ e # d
  BY <1>1 DEF Owned
<1> HIDE DEF e
<1>3. phys'.mem[e] = phys.mem[e]
        /\ \A i, j \in Slot : Entry(phys', e, i, j) = Entry(phys, e, i, j)
             /\ Word(phys', e, i, j) = Word(phys, e, i, j)
  BY <1>1, <1>2, OthersSpace
<1> QED BY <1>3 DEF e

\* Nothing but the cores' registers and the stage of a thread changes.
LEMMA SwitchToStep ==
  ASSUME TypeOK, Lives, Caches, NEW w, Owned(w),
         NEW c \in Cores, NEW t \in Procs \cup {"kernel_thread"}, SwitchTo(c, t)
  PROVE  /\ TypeOK' /\ Lives' /\ Caches' /\ Owned(w)'
         /\ \A p \in Procs : Undisturbed(p) /\ child'[p] = child[p]
<1>1. UNCHANGED <<phys, pd, refs, child>>
  BY DEF SwitchTo
<1>2. /\ on' = [on EXCEPT ![c] = t] /\ cr3' = [cr3 EXCEPT ![c] = pd[ProcessOf(t)]]
      /\ tlb' = [tlb EXCEPT ![c] = Uncached] /\ on[c] # t
  BY DEF SwitchTo
<1>3. t \in Procs => (\A d \in Cores : on[d] # t) /\ stage[t] \in {"user", "forking", "exited"}
  BY Parameters DEF SwitchTo
<1>4. \/ stage' = stage
      \/ on[c] \in Procs /\ stage[on[c]] = "exited" /\ stage' = [stage EXCEPT ![on[c]] = "zombie"]
  BY DEF SwitchTo, Leave
<1>5. Owned(w)' /\ \A p \in Procs : Undisturbed(p) /\ child'[p] = child[p]
  BY <1>1 DEF Owned, Undisturbed
<1>6. TypeOK'
  <2>1. stage' \in [Procs -> Stages]
    BY <1>4 DEF TypeOK, Stages
  <2>2. Uncached \in [Addresses -> Nat] /\ pd[ProcessOf(t)] \in Nat
    BY Parameters DEF Uncached, ProcessOf, TypeOK
  <2>3. on' \in [Cores -> Procs \cup {"kernel_thread"}] /\ cr3' \in [Cores -> Nat]
    BY <1>2, <2>2 DEF TypeOK
  <2>4. tlb' \in [Cores -> [Addresses -> Nat]]
    BY <1>2, <2>2 DEF TypeOK
  <2> QED BY <1>1, <2>1, <2>3, <2>4 DEF TypeOK
<1>7. Caches'
  <2> SUFFICES ASSUME NEW d \in Cores
               PROVE  /\ cr3'[d] = pd'[ProcessOf(on'[d])]
                      /\ \A i, j \in Slot : tlb'[d][<<i, j>>] # 0 =>
                           /\ ~IsApic(i, j) /\ on'[d] # "kernel_thread"
                           /\ tlb'[d][<<i, j>>] = Entry(phys', cr3'[d], i, j)
    BY DEF Caches, ProcessOf
  <2>1. CASE d = c
    <3>1. \A i, j \in Slot : Uncached[<<i, j>>] = 0
      BY DEF Uncached, Addresses, Slot
    <3>2. tlb'[d] = Uncached /\ cr3'[d] = pd[ProcessOf(t)] /\ on'[d] = t
      BY <1>2, <2>1 DEF TypeOK
    <3> QED BY <1>1, <3>1, <3>2
  <2>2. CASE d # c
    <3>1. tlb'[d] = tlb[d] /\ cr3'[d] = cr3[d] /\ on'[d] = on[d]
      BY <1>2, <2>2 DEF TypeOK
    <3> QED BY <1>1, <3>1 DEF Caches
  <2> QED BY <2>1, <2>2
<1>8. Lives'
  <2>1. \A p \in Procs : /\ HasThread(p)' <=> HasThread(p)
                         /\ Waited(p)' <=> Waited(p)
                         /\ stage'[p] = "forking" <=> stage[p] = "forking"
                         /\ stage'[p] = "unborn" <=> stage[p] = "unborn"
                         /\ stage'[p] = stage[p] \/ p = on[c]
    BY <1>1, <1>4 DEF HasThread, Waited, TypeOK
  <2>2. \A d \in Cores : on'[d] = IF d = c THEN t ELSE on[d]
    BY <1>2 DEF TypeOK
  <2>3. \A d \in Cores : on'[d] \in Procs => stage'[on'[d]] \in {"user", "forking", "exited"}
    BY <1>2, <1>3, <2>1, <2>2 DEF Lives
  <2>4. \A d, e \in Cores : on'[d] \in Procs /\ on'[d] = on'[e] => d = e
    BY <1>3, <2>2 DEF Lives
  <2>5. \A p \in Procs : refs'[p] = (IF HasThread(p)' THEN 1 ELSE 0) + (IF Waited(p)' THEN 1 ELSE 0)
                                + (IF p = Kernel THEN 1 ELSE 0)
    BY <1>1, <2>1 DEF Lives
  <2>6. stage'[Kernel] # "unborn"
    BY <2>1, Parameters DEF Lives
  <2> QED BY <1>1, <2>1, <2>3, <2>4, <2>5, <2>6 DEF Lives
<1> QED BY <1>5, <1>6, <1>7, <1>8

\* The translations of a core that does not execute process p stay right when
\* only the address space of p changes.
LEMMA OtherCaches ==
  ASSUME TypeOK, Lives, Caches, NEW w, Owned(w), NEW v, NEW p \in Procs, pd[p] # 0,
         Others(phys, w, phys', v, pd[p]), NEW e \in Cores, on[e] # p
  PROVE  \A i, j \in Slot : tlb[e][<<i, j>>] # 0 =>
           /\ ~IsApic(i, j) /\ on[e] # "kernel_thread"
           /\ tlb[e][<<i, j>>] = Entry(phys', cr3[e], i, j)
<1> SUFFICES ASSUME NEW i \in Slot, NEW j \in Slot, tlb[e][<<i, j>>] # 0
             PROVE  /\ ~IsApic(i, j) /\ on[e] # "kernel_thread"
                    /\ tlb[e][<<i, j>>] = Entry(phys', cr3[e], i, j)
  OBVIOUS
<1>1. /\ ~IsApic(i, j) /\ on[e] # "kernel_thread" /\ cr3[e] = pd[ProcessOf(on[e])]
      /\ tlb[e][<<i, j>>] = Entry(phys, cr3[e], i, j)
  BY DEF Caches
<1>2. on[e] \in Procs /\ ProcessOf(on[e]) = on[e]
  BY <1>1 DEF TypeOK, ProcessOf
<1>3. pd[on[e]] # 0 /\ pd[on[e]] # pd[p]
  <2>1. HasThread(on[e])
    BY <1>2 DEF Lives, HasThread
  <2>2. pd[on[e]] # 0
    BY <1>2, <2>1, ExistingAre
  <2> QED BY <1>2, <2>2 DEF Lives
<1>4. Entry(phys', pd[on[e]], i, j) = Entry(phys, pd[on[e]], i, j)
  BY <1>2, <1>3, Elsewhere
<1> QED BY <1>1, <1>2, <1>4

\* An operation that makes and deletes no directory keeps the owners.
LEMMA OwnedWithin ==
  ASSUME NEW w, Owned(w), NEW v, NEW d \in Frame, w.kind[d] = "dir",
         Good(phys', v), Within(phys, w, phys', v, d), pd' = pd
  PROVE  Owned(v)'
<1>1. Good(phys, w) /\ Others(phys, w, phys', v, d) /\ phys'.mem[d][Slots] = phys.mem[d][Slots]
  BY DEF Owned, Within
<1> SUFFICES ASSUME NEW f \in Frame
             PROVE  /\ v.kind[f] # "held"
                    /\ v.kind[f] = "dir" => phys'.mem[f][Slots] # 0
                    /\ v.kind[f] = "dir" <=> \E p \in Procs : pd'[p] = f
  BY DEF Owned
<1>2. /\ v.kind[f] = "held" <=> w.kind[f] = "held"
      /\ v.kind[f] = "dir" <=> w.kind[f] = "dir"
  BY DEF Within
<1>3. w.kind[f] = "dir" => phys'.mem[f][Slots] = phys.mem[f][Slots]
  <2>1. w.kind[f] = "dir" /\ f # d => phys'.mem[f] = phys.mem[f]
    BY <1>1, OthersSpace
  <2> QED BY <1>1, <2>1
<1> QED BY <1>2, <1>3 DEF Owned

\* The process that a core executes.
LEMMA Running ==
  ASSUME TypeOK, Lives, Caches, NEW w, Owned(w), NEW c \in Cores, NEW p \in Procs, on[c] = p
  PROVE  /\ cr3[c] = pd[p] /\ pd[p] \in Frame /\ pd[p] # 0 /\ w.kind[pd[p]] = "dir"
         /\ Good(phys, w) /\ phys.mem[pd[p]][Slots] # 0
         /\ \A e \in Cores : e # c => on[e] # p
         /\ \A q \in Procs : q # p => pd[q] # pd[p]
<1>1. cr3[c] = pd[p]
  BY DEF Caches, ProcessOf
<1>2. HasThread(p)
  BY DEF Lives, HasThread
<1>3. pd[p] \in Frame /\ pd[p] # 0
  BY <1>2, ExistingAre
<1> QED BY <1>1, <1>3 DEF Owned, Lives

\* A write through the TLB reaches a page of the process that runs.
LEMMA WriteStep ==
  ASSUME TypeOK, Lives, Caches, NEW w, Owned(w),
         NEW c \in Cores, NEW p \in Procs, NEW va \in Touched, NEW word \in Words, Write(c, p, va, word)
  PROVE  /\ TypeOK' /\ Lives' /\ Caches' /\ Owned(w)'
         /\ \A q \in Procs : (q # p => Undisturbed(q)) /\ child'[q] = child[q]
<1> DEFINE d == pd[p]
           pa == IF tlb[c][va] # 0 THEN tlb[c][va] ELSE Walk(phys, cr3[c], va)
<1>1. /\ on[c] = p /\ pa # 0
      /\ phys' = Store(phys, pa, 1, word)
      /\ tlb' = [tlb EXCEPT ![c][va] = pa]
      /\ UNCHANGED <<pd, stage, refs, child, on, cr3>>
  BY Zenon DEF Write, Store
<1>2. PICK i \in Slot, j \in Slot : va = <<i, j>> /\ ~IsApic(i, j)
  BY Parameters DEF Addresses, Slot, IsApic
<1>3. va \in Addresses
  BY Parameters
<1>4. /\ cr3[c] = d /\ d \in Frame /\ d # 0 /\ w.kind[d] = "dir"
      /\ Good(phys, w) /\ phys.mem[d][Slots] # 0
      /\ \A e \in Cores : e # c => on[e] # p
      /\ \A q \in Procs : q # p => pd[q] # d
  BY <1>1, Running
<1> HIDE DEF d
<1>5. pa = Entry(phys, d, i, j)
  <2>1. tlb[c][<<i, j>>] # 0 => tlb[c][<<i, j>>] = Entry(phys, d, i, j)
    BY <1>4 DEF Caches
  <2>2. Walk(phys, d, <<i, j>>) = Entry(phys, d, i, j)
    BY WalkEntry
  <2> QED BY <1>2, <1>4, <2>1, <2>2
<1> HIDE DEF pa
<1>6. pa \in Frame /\ w.kind[pa] = "page" /\ Root(w, pa) = d /\ pa \in Nat
  BY <1>1, <1>2, <1>4, <1>5, EntryPage, GoodTypes
<1>7. /\ phys' \in Phys /\ phys'.firstFree = phys.firstFree /\ phys'.avail = phys.avail
      /\ \A f \in Frame : f # pa => phys'.mem[f] = phys.mem[f]
  <2>1. phys \in Phys /\ 1 \in Slot /\ word \in Nat
    BY <1>4, Parameters DEF Good, Slot
  <2> QED BY <1>1, <1>6, <2>1, StoreEffect
<1>8. Good(phys', w)
  BY <1>4, <1>6, <1>7, Fill
<1>9. Others(phys, w, phys', w, d)
  <2>1. Root(w, pa) \in {0, d}
    BY <1>6
  <2> QED BY <1>4, <1>6, <1>7, <2>1, FillOthers
<1>10. phys'.mem[d] = phys.mem[d]
  BY <1>4, <1>6, <1>7
<1>11. Owned(w)'
  <2>1. Within(phys, w, phys', w, d)
    BY <1>9, <1>10 DEF Within
  <2> QED BY <1>1, <1>4, <1>8, <2>1, OwnedWithin
<1>12. \A k, l \in Slot : Entry(phys', d, k, l) = Entry(phys, d, k, l)
  <2> SUFFICES ASSUME NEW k \in Slot, NEW l \in Slot PROVE Entry(phys', d, k, l) = Entry(phys, d, k, l)
    OBVIOUS
  <2>1. phys.mem[d][k] # 0 => phys.mem[d][k] \in Frame /\ w.kind[phys.mem[d][k]] = "table"
    BY <1>4 DEF Good, DirsOK
  <2> QED BY <1>6, <1>7, <1>10, <2>1 DEF Entry
<1>13. /\ \A x \in Addresses : tlb'[c][x] = IF x = va THEN pa ELSE tlb[c][x]
       /\ \A e \in Cores : e # c => tlb'[e] = tlb[e]
       /\ tlb' \in [Cores -> [Addresses -> Nat]]
  BY <1>1, <1>3, <1>6 DEF TypeOK
<1>14. TypeOK'
  BY <1>1, <1>13 DEF TypeOK
<1>15. Lives'
  BY <1>1 DEF Lives, HasThread, Waited
<1>16. Caches'
  <2> SUFFICES ASSUME NEW e \in Cores
               PROVE  /\ cr3'[e] = pd'[ProcessOf(on'[e])]
                      /\ \A k, l \in Slot : tlb'[e][<<k, l>>] # 0 =>
                           /\ ~IsApic(k, l) /\ on'[e] # "kernel_thread"
                           /\ tlb'[e][<<k, l>>] = Entry(phys', cr3'[e], k, l)
    BY DEF Caches, ProcessOf
  <2>1. cr3'[e] = pd'[ProcessOf(on'[e])] /\ cr3'[e] = cr3[e] /\ on'[e] = on[e]
    BY <1>1 DEF Caches
  <2>2. CASE e # c
    <3>1. \A k, l \in Slot : tlb[e][<<k, l>>] # 0 =>
            /\ ~IsApic(k, l) /\ on[e] # "kernel_thread"
            /\ tlb[e][<<k, l>>] = Entry(phys', cr3[e], k, l)
      BY <1>4, <1>9, <2>2, OtherCaches DEF d
    <3> QED BY <1>13, <2>1, <2>2, <3>1
  <2>3. CASE e = c
    <3>1. \A k, l \in Slot : <<k, l>> \in Addresses /\ (<<k, l>> = va <=> k = i /\ l = j)
      BY <1>2 DEF Addresses, Slot
    <3>2. on[c] # "kernel_thread"
      BY <1>1, Parameters
    <3>3. ASSUME NEW k \in Slot, NEW l \in Slot, tlb'[e][<<k, l>>] # 0
          PROVE  ~IsApic(k, l) /\ tlb'[e][<<k, l>>] = Entry(phys', d, k, l)
      <4>1. CASE k = i /\ l = j
        BY <1>2, <1>5, <1>12, <1>13, <2>3, <3>1, <4>1
      <4>2. CASE ~(k = i /\ l = j)
        <5>1. tlb'[c][<<k, l>>] = tlb[c][<<k, l>>] /\ tlb[c][<<k, l>>] # 0
          BY <1>13, <2>3, <3>1, <3>3, <4>2
        <5>2. ~IsApic(k, l) /\ tlb[c][<<k, l>>] = Entry(phys, d, k, l)
          BY <1>4, <5>1 DEF Caches
        <5> QED BY <1>12, <2>3, <5>1, <5>2
      <4> QED BY <4>1, <4>2
    <3> QED BY <1>4, <2>1, <2>3, <3>2, <3>3
  <2> QED BY <2>2, <2>3
<1>17. ASSUME NEW q \in Procs PROVE (q # p => Undisturbed(q)) /\ child'[q] = child[q]
  BY <1>1, <1>4, <1>9, Elsewhere DEF Undisturbed
<1> QED BY <1>11, <1>14, <1>15, <1>16, <1>17

\* A page fault adds an empty page, which reads like the missing one.
LEMMA PageFaultStep ==
  ASSUME TypeOK, Lives, Caches, NEW w, Owned(w),
         NEW c \in Cores, NEW p \in Procs, NEW va \in Touched, PageFault(c, p, va)
  PROVE  /\ TypeOK' /\ Lives' /\ Caches' /\ \E v : Owned(v)'
         /\ \A q \in Procs : Undisturbed(q) /\ child'[q] = child[q]
<1> DEFINE d == pd[p]
           g == NextFrame(phys)
<1>1. /\ on[c] = p /\ Walk(phys, cr3[c], va) = 0 /\ tlb[c][va] = 0
      /\ Enough(phys, IF phys.mem[d][va[1]] = 0 THEN 2 ELSE 1)
      /\ phys' = Map(AllocFrame(phys), d, va, g)
      /\ UNCHANGED <<pd, stage, refs, child, on, cr3, tlb>>
  BY DEF PageFault
<1>2. PICK i \in Slot, j \in Slot : va = <<i, j>> /\ ~IsApic(i, j)
  BY Parameters DEF Addresses, Slot, IsApic
<1>4. /\ cr3[c] = d /\ d \in Frame /\ d # 0 /\ w.kind[d] = "dir"
      /\ Good(phys, w) /\ phys.mem[d][Slots] # 0
      /\ \A e \in Cores : e # c => on[e] # p
      /\ \A q \in Procs : q # p => pd[q] # d
  BY <1>1, Running
<1> HIDE DEF d, g
<1>5. Entry(phys, d, i, j) = 0
  BY <1>1, <1>2, <1>4, WalkEntry
<1>6. Budget(phys, w) >= IF phys.mem[d][i] = 0 THEN 2 ELSE 1
  <2>1. va[1] = i
    BY <1>2
  <2> QED BY <1>1, <1>4, <2>1, EnoughIs
<1>7. phys' = Map(AllocFrame(phys), d, <<i, j>>, NextFrame(phys))
  BY <1>1, <1>2 DEF g
<1>8. /\ g \in Frame /\ w.kind[g] \in {"free", "unused"} /\ phys'.mem[g] = Empty
      /\ Entry(phys', d, i, j) = g
      /\ \A k, l \in Slot : ~(k = i /\ l = j) => Entry(phys', d, k, l) = Entry(phys, d, k, l)
      /\ \A f \in Frame : w.kind[f] = "page" => phys'.mem[f] = phys.mem[f]
      /\ \E v : Good(phys', v) /\ Within(phys, w, phys', v, d)
  BY <1>2, <1>4, <1>5, <1>6, <1>7, FaultKeeps DEF g
<1>9. PICK v : Good(phys', v) /\ Within(phys, w, phys', v, d)
  BY <1>8
<1>10. Owned(v)'
  BY <1>1, <1>4, <1>9, OwnedWithin
<1>11. Others(phys, w, phys', v, d)
  BY <1>9 DEF Within
<1>12. TypeOK' /\ Lives'
  <2>1. TypeOK'
    BY <1>1 DEF TypeOK
  <2>2. Lives'
    BY <1>1 DEF Lives, HasThread, Waited
  <2> QED BY <2>1, <2>2
<1>13. Caches'
  <2> SUFFICES ASSUME NEW e \in Cores
               PROVE  \A k, l \in Slot : tlb[e][<<k, l>>] # 0 =>
                           /\ ~IsApic(k, l) /\ on[e] # "kernel_thread"
                           /\ tlb[e][<<k, l>>] = Entry(phys', cr3[e], k, l)
    BY <1>1 DEF Caches, ProcessOf
  <2>2. CASE e # c
    BY <1>4, <1>11, <2>2, OtherCaches DEF d
  <2>3. CASE e = c
    <3>1. ASSUME NEW k \in Slot, NEW l \in Slot, tlb[e][<<k, l>>] # 0
          PROVE  /\ ~IsApic(k, l) /\ on[e] # "kernel_thread"
                 /\ tlb[e][<<k, l>>] = Entry(phys', cr3[e], k, l)
      <4>1. ~(k = i /\ l = j)
        BY <1>1, <1>2, <2>3, <3>1
      <4>2. /\ ~IsApic(k, l) /\ on[e] # "kernel_thread"
            /\ tlb[e][<<k, l>>] = Entry(phys, cr3[e], k, l)
        BY <3>1 DEF Caches
      <4> QED BY <1>4, <1>8, <2>3, <4>1, <4>2
    <3> QED BY <3>1
  <2> QED BY <2>2, <2>3
<1>14. ASSUME NEW q \in Procs PROVE Undisturbed(q) /\ child'[q] = child[q]
  <2>1. CASE q # p
    BY <1>1, <1>4, <1>11, <2>1, Elsewhere DEF Undisturbed
  <2>2. CASE q = p
    <3>1. ASSUME NEW k \in Slot, NEW l \in Slot, ~IsApic(k, l)
          PROVE  Word(phys', d, k, l) = Word(phys, d, k, l)
      <4>1. CASE k = i /\ l = j
        <5>1. Empty[1] = 0
          BY Parameters DEF Empty
        <5> QED BY <1>5, <1>8, <4>1, <5>1 DEF Word
      <4>2. CASE ~(k = i /\ l = j)
        <5>1. Entry(phys, d, k, l) # 0 =>
                phys'.mem[Entry(phys, d, k, l)] = phys.mem[Entry(phys, d, k, l)]
          BY <1>4, <1>8, <3>1, EntryPage
        <5> QED BY <1>8, <4>2, <5>1 DEF Word
      <4> QED BY <4>1, <4>2
    <3> QED BY <1>1, <2>2, <3>1 DEF Undisturbed, d
  <2> QED BY <2>1, <2>2
<1> QED BY <1>10, <1>12, <1>13, <1>14

\* delete_private() for the process that core c executes.
LEMMA ClearStep ==
  ASSUME TypeOK, Lives, Caches, NEW w, Owned(w), NEW c \in Cores, NEW p \in Procs, on[c] = p,
         phys' = DeletePrivate(phys, pd[p]), Flush(c), UNCHANGED <<pd, refs, child, on, cr3>>
  PROVE  /\ tlb' \in [Cores -> [Addresses -> Nat]] /\ Caches' /\ \E v : Owned(v)'
         /\ \A q \in Procs : q # p => Undisturbed(q)
<1> DEFINE d == pd[p]
<1>1. /\ cr3[c] = d /\ d \in Frame /\ d # 0 /\ w.kind[d] = "dir"
      /\ Good(phys, w) /\ phys.mem[d][Slots] # 0
      /\ \A e \in Cores : e # c => on[e] # p
      /\ \A q \in Procs : q # p => pd[q] # d
  BY Running
<1>2. phys' = DeletePrivate(phys, d)
  OBVIOUS
<1> HIDE DEF d
<1>3. PICK v : Good(phys', v) /\ Within(phys, w, phys', v, d)
  BY <1>1, <1>2, DeletePrivateKeeps
<1>4. Owned(v)'
  BY <1>1, <1>3, OwnedWithin
<1>5. Others(phys, w, phys', v, d)
  BY <1>3 DEF Within
<1> DEFINE flushed == [va \in Addresses |->
                        IF va \in Special \/ Walk(phys, cr3[c], va) = 0
                        THEN tlb[c][va] ELSE 0]
<1>6. tlb' = [tlb EXCEPT ![c] = flushed]
  BY DEF Flush
<1>7. \A va \in Addresses : flushed[va] \in Nat /\ flushed[va] = 0
  <2> SUFFICES ASSUME NEW va \in Addresses PROVE flushed[va] = 0
    OBVIOUS
  <2>1. PICK i \in Slot, j \in Slot : va = <<i, j>>
    BY DEF Addresses, Slot
  <2>2. tlb[c][va] # 0 => ~(va \in Special) /\ tlb[c][va] = Walk(phys, cr3[c], va)
    <3>1. tlb[c][<<i, j>>] # 0 => ~IsApic(i, j) /\ tlb[c][<<i, j>>] = Entry(phys, cr3[c], i, j)
      BY DEF Caches
    <3> QED BY <2>1, <3>1, WalkEntry, SpecialPage
  <2> QED BY <2>2
<1>8. flushed \in [Addresses -> Nat]
  BY <1>7
<1> HIDE DEF flushed
<1>9. /\ tlb' \in [Cores -> [Addresses -> Nat]] /\ tlb'[c] = flushed
      /\ \A e \in Cores : e # c => tlb'[e] = tlb[e]
  BY <1>6, <1>8 DEF TypeOK
<1>10. Caches'
  <2> SUFFICES ASSUME NEW e \in Cores
               PROVE  \A k, l \in Slot : tlb'[e][<<k, l>>] # 0 =>
                           /\ ~IsApic(k, l) /\ on[e] # "kernel_thread"
                           /\ tlb'[e][<<k, l>>] = Entry(phys', cr3[e], k, l)
    BY DEF Caches, ProcessOf
  <2>1. CASE e # c
    <3>1. \A k, l \in Slot : tlb[e][<<k, l>>] # 0 =>
            /\ ~IsApic(k, l) /\ on[e] # "kernel_thread"
            /\ tlb[e][<<k, l>>] = Entry(phys', cr3[e], k, l)
      BY <1>1, <1>5, <2>1, OtherCaches DEF d
    <3> QED BY <1>9, <2>1, <3>1
  <2>2. CASE e = c
    <3>1. \A k, l \in Slot : <<k, l>> \in Addresses
      BY DEF Addresses, Slot
    <3> QED BY <1>7, <1>9, <2>2, <3>1
  <2> QED BY <2>1, <2>2
<1>11. ASSUME NEW q \in Procs, q # p PROVE Undisturbed(q)
  BY <1>1, <1>5, <1>11, Elsewhere DEF Undisturbed
<1> QED BY <1>4, <1>9, <1>10, <1>11

\* execl() changes the memory of its caller only.
LEMMA ExecStep ==
  ASSUME TypeOK, Lives, Caches, NEW w, Owned(w), NEW c \in Cores, NEW p \in Procs, Exec(c, p)
  PROVE  /\ TypeOK' /\ Lives' /\ Caches' /\ \E v : Owned(v)'
         /\ \A q \in Procs : (q # p => Undisturbed(q)) /\ child'[q] = child[q]
<1>1. /\ on[c] = p /\ phys' = DeletePrivate(phys, pd[p]) /\ Flush(c)
      /\ UNCHANGED <<pd, stage, refs, child, on, cr3>>
  BY DEF Exec
<1>2. /\ tlb' \in [Cores -> [Addresses -> Nat]] /\ Caches' /\ \E v : Owned(v)'
      /\ \A q \in Procs : q # p => Undisturbed(q)
  BY <1>1, ClearStep
<1>3. TypeOK'
  BY <1>1, <1>2 DEF TypeOK
<1>4. Lives'
  BY <1>1 DEF Lives, HasThread, Waited
<1> QED BY <1>1, <1>2, <1>3, <1>4

\* So does exit().
LEMMA ExitStep ==
  ASSUME TypeOK, Lives, Caches, NEW w, Owned(w), NEW c \in Cores, NEW p \in Procs, Exit(c, p)
  PROVE  /\ TypeOK' /\ Lives' /\ Caches' /\ \E v : Owned(v)'
         /\ \A q \in Procs : (q # p => Undisturbed(q)) /\ child'[q] = child[q]
<1>1. /\ on[c] = p /\ phys' = DeletePrivate(phys, pd[p]) /\ Flush(c)
      /\ stage[p] = "user" /\ stage' = [stage EXCEPT ![p] = "exited"]
      /\ UNCHANGED <<pd, refs, child, on, cr3>>
  BY DEF Exit
<1>2. /\ tlb' \in [Cores -> [Addresses -> Nat]] /\ Caches' /\ \E v : Owned(v)'
      /\ \A q \in Procs : q # p => Undisturbed(q)
  BY <1>1, ClearStep
<1>3. stage' \in [Procs -> Stages] /\ \A q \in Procs : stage'[q] = IF q = p THEN "exited" ELSE stage[q]
  BY <1>1 DEF TypeOK, Stages
<1>4. TypeOK'
  BY <1>1, <1>2, <1>3 DEF TypeOK
<1>5. Lives'
  <2>1. \A q \in Procs : /\ HasThread(q)' <=> HasThread(q)
                         /\ Waited(q)' <=> Waited(q)
                         /\ stage'[q] = "forking" <=> stage[q] = "forking"
                         /\ stage'[q] = "unborn" <=> stage[q] = "unborn"
                         /\ stage[q] \in {"user", "forking", "exited"} =>
                              stage'[q] \in {"user", "forking", "exited"}
    BY <1>1, <1>3 DEF HasThread, Waited
  <2>2. \A q \in Procs : refs'[q] = (IF HasThread(q)' THEN 1 ELSE 0) + (IF Waited(q)' THEN 1 ELSE 0)
                                + (IF q = Kernel THEN 1 ELSE 0)
    BY <1>1, <2>1 DEF Lives
  <2>3. stage'[Kernel] # "unborn"
    BY <2>1, Parameters DEF Lives
  <2>4. \A e \in Cores : on'[e] \in Procs => stage'[on'[e]] \in {"user", "forking", "exited"}
    BY <1>1, <2>1 DEF Lives
  <2> QED BY <1>1, <2>1, <2>2, <2>3, <2>4 DEF Lives
<1> QED BY <1>1, <1>2, <1>4, <1>5

\* A child finds in its memory what its parent finds.
Inherited ==
  \A p, q \in Procs : child[p] = NoProc /\ child'[p] = q /\ q # NoProc =>
    \A i, j \in Slot : ~IsApic(i, j) => Word(phys', pd'[q], i, j) = Word(phys, pd[p], i, j)

\* The frames that Fork() asks for are those that the copy takes.
LEMMA ForkNeeds ==
  ASSUME NEW w, Good(phys, w), NEW p, pd[p] \in Frame, w.kind[pd[p]] = "dir"
  PROVE  /\ Cardinality(PrivateTables(p)) = Cardinality(TablesLeft(phys, pd[p], 0))
         /\ Cardinality(PagesLeft(w, pd[p], 1, 0)) <= Cardinality(Pages(p))
         /\ Cardinality(Pages(p)) \in Nat
<1> DEFINE d == pd[p]
           S == Pages(p)
           T == PagesLeft(w, d, 1, 0)
<1>1. d \in Frame /\ w.kind[d] = "dir" /\ S = {va \in Addresses \ Special : Walk(phys, d, va) # 0}
  BY DEF Pages
<1>2. PrivateTables(p) = TablesLeft(phys, d, 0)
  <2>1. \A k : k \in Slot /\ k > 0 /\ k # Slots <=> k \in 1 .. Slots - 1
    BY Parameters DEF Slot
  <2> QED BY <2>1, Zenon DEF PrivateTables, TablesLeft
<1> HIDE DEF d, S
<1>3. IsFiniteSet(S)
  <2>1. IsFiniteSet(1 .. Slots)
    BY Parameters, FS_Interval
  <2>2. IsFiniteSet(Addresses)
    BY <2>1, FS_Product DEF Addresses
  <2>3. S \subseteq Addresses
    BY <1>1
  <2> QED BY <2>2, <2>3, FS_Subset
<1>4. \A va \in S : Walk(phys, d, va) \in T
  <2> SUFFICES ASSUME NEW va \in S PROVE Walk(phys, d, va) \in T
    OBVIOUS
  <2>1. PICK i \in Slot, j \in Slot : va = <<i, j>>
    BY <1>1 DEF Addresses, Slot
  <2>2. ~IsApic(i, j) /\ Walk(phys, d, va) = Entry(phys, d, i, j) /\ Entry(phys, d, i, j) # 0
    BY <1>1, <2>1, WalkEntry, SpecialPage
  <2> DEFINE g == Entry(phys, d, i, j)
  <2>3. g \in Frame /\ w.kind[g] = "page" /\ w.at[g] = j /\ Root(w, g) = d /\ Row(w, g) = i
    BY <1>1, <2>2, EntryPage
  <2> HIDE DEF g
  <2>4. ~Done(i, j, 1, 0)
    BY Parameters DEF Done, Slot
  <2> QED BY <2>2, <2>3, <2>4 DEF PagesLeft, g
<1>5. \A g \in T : \E va \in S : Walk(phys, d, va) = g
  <2> SUFFICES ASSUME NEW g \in T PROVE \E va \in S : Walk(phys, d, va) = g
    OBVIOUS
  <2>1. g \in Frame /\ w.kind[g] = "page" /\ Root(w, g) = d /\ g # 0
    BY GoodTypes DEF PagesLeft
  <2>2. /\ Row(w, g) \in Slot /\ w.at[g] \in Slot /\ ~IsApic(Row(w, g), w.at[g])
        /\ w.up[g] = phys.mem[d][Row(w, g)] /\ w.up[g] # 0 /\ g = phys.mem[w.up[g]][w.at[g]]
    BY <1>1, <2>1, Places
  <2> DEFINE i == Row(w, g)
             j == w.at[g]
  <2>3. Entry(phys, d, i, j) = g
    BY <2>2 DEF Entry
  <2>4. i \in Slot /\ j \in Slot /\ ~IsApic(i, j)
    BY <2>2
  <2> HIDE DEF i, j
  <2>5. <<i, j>> \in Addresses /\ <<i, j>> \notin Special /\ Walk(phys, d, <<i, j>>) = g
    BY <2>3, <2>4, WalkEntry, SpecialPage DEF Addresses, Slot
  <2> QED BY <1>1, <2>1, <2>5
<1>6. [va \in S |-> Walk(phys, d, va)] \in Surjection(S, T)
  <2> HIDE DEF T
  <2> QED BY <1>4, <1>5 DEF Surjection
<1>7. Cardinality(T) <= Cardinality(S)
  <2> HIDE DEF T
  <2> QED BY <1>3, <1>6, FS_Surjection
<1>8. Cardinality(S) \in Nat
  BY <1>3, FS_CardinalityType
<1> QED BY <1>2, <1>7, <1>8 DEF d, S

\* fork() changes nobody's memory and gives the child that of the parent.
LEMMA ForkStep ==
  ASSUME TypeOK, Lives, Caches, NEW w, Owned(w),
         NEW c \in Cores, NEW p \in Procs, NEW q \in Procs, Fork(c, p, q)
  PROVE  /\ TypeOK' /\ Lives' /\ Caches' /\ \E v : Owned(v)'
         /\ (\A r \in Procs : Undisturbed(r)) /\ Inherited
<1> DEFINE d == pd[p]
           to == NextFrame(phys)
<1>1. /\ on[c] = p /\ stage[p] = "user" /\ stage[q] = "unborn"
      /\ Enough(phys, 2 + Cardinality(PrivateTables(p)) + Cardinality(Pages(p)))
      /\ phys' = CopyPrivate(MakePd(phys), d, to)
      /\ pd' = [pd EXCEPT ![q] = to]
      /\ stage' = [stage EXCEPT ![p] = "forking", ![q] = "user"]
      /\ refs' = [refs EXCEPT ![q] = 2]
      /\ child' = [child EXCEPT ![p] = q]
      /\ UNCHANGED <<on, cr3, tlb>>
  BY DEF Fork
<1>2. /\ cr3[c] = d /\ d \in Frame /\ d # 0 /\ w.kind[d] = "dir" /\ Good(phys, w)
  BY <1>1, Running
<1>3. Budget(phys, w) >= 2 + Cardinality(TablesLeft(phys, d, 0)) + Cardinality(PagesLeft(w, d, 1, 0))
  <2>1. Budget(phys, w) >= 2 + Cardinality(PrivateTables(p)) + Cardinality(Pages(p))
    BY <1>1, <1>2, EnoughIs
  <2>2. /\ Cardinality(PrivateTables(p)) = Cardinality(TablesLeft(phys, d, 0))
        /\ Cardinality(PagesLeft(w, d, 1, 0)) <= Cardinality(Pages(p))
        /\ Cardinality(Pages(p)) \in Nat
    BY <1>2, ForkNeeds
  <2>3. Cardinality(TablesLeft(phys, d, 0)) \in Nat /\ Cardinality(PagesLeft(w, d, 1, 0)) \in Nat
    BY Left
  <2>4. Budget(phys, w) \in Int
    BY <1>2, GoodTypes, Parameters DEF Budget
  <2> HIDE DEF d
  <2> QED BY <2>1, <2>2, <2>3, <2>4
<1>4. \A f \in Frame : w.kind[f] # "held" /\ f # 0
  BY <1>2, GoodTypes DEF Owned
<1> HIDE DEF d
<1>5. /\ to \in Frame /\ w.kind[to] \in {"free", "unused"} /\ phys'.mem[to][Slots] # 0
      /\ \A k, l \in Slot : ~IsApic(k, l) => Word(phys', to, k, l) = Word(phys, d, k, l)
      /\ \E v : /\ Good(phys', v) /\ Others(phys, w, phys', v, to)
                /\ \A f \in Frame : v.kind[f] # "held"
                     /\ (v.kind[f] = "dir" <=> w.kind[f] = "dir" \/ f = to)
  BY <1>1, <1>2, <1>3, <1>4, ForkKeeps
<1> HIDE DEF to
<1>6. PICK v : /\ Good(phys', v) /\ Others(phys, w, phys', v, to)
               /\ \A f \in Frame : v.kind[f] # "held"
                    /\ (v.kind[f] = "dir" <=> w.kind[f] = "dir" \/ f = to)
  BY <1>5
<1>7. /\ q # Kernel /\ q # p /\ ~Waited(q) /\ ~HasThread(q) /\ pd[q] = 0
      /\ child[p] = NoProc /\ child[q] = NoProc /\ \A e \in Cores : on[e] # q
  <2>1. q # Kernel /\ q # p /\ ~HasThread(q)
    BY <1>1 DEF Lives, HasThread
  <2>2. ~Waited(q) /\ child[p] = NoProc /\ child[q] = NoProc
    BY <1>1 DEF Lives, Waited
  <2>3. refs[q] = 0
    BY <2>1, <2>2 DEF Lives
  <2>4. pd[q] = 0
    BY <2>3 DEF Lives
  <2>5. \A e \in Cores : on[e] # q
    BY <1>1 DEF Lives
  <2> QED BY <2>1, <2>2, <2>4, <2>5
<1>8. \A r \in Procs : /\ pd'[r] = IF r = q THEN to ELSE pd[r]
                       /\ stage'[r] = IF r = q THEN "user" ELSE IF r = p THEN "forking" ELSE stage[r]
                       /\ refs'[r] = IF r = q THEN 2 ELSE refs[r]
                       /\ child'[r] = IF r = p THEN q ELSE child[r]
                       /\ pd[r] # to
  <2>1. \A r \in Procs : pd[r] # to
    BY <1>5 DEF Owned
  <2> QED BY <1>1, <1>7, <2>1 DEF TypeOK
<1>a. stage[p] = "user" /\ on' = on
  BY <1>1
<1>9. TypeOK'
  <2>1. pd' \in [Procs -> 0 .. Frames]
    BY <1>1, <1>5, Parameters DEF TypeOK, Frame
  <2>2. stage' \in [Procs -> Stages] /\ refs' \in [Procs -> Nat]
          /\ child' \in [Procs -> Procs \cup {NoProc}]
    BY <1>1 DEF TypeOK, Stages
  <2> QED BY <1>1, <2>1, <2>2 DEF TypeOK
<1>10. Owned(v)'
  <2> SUFFICES ASSUME NEW f \in Frame
               PROVE  /\ v.kind[f] = "dir" => phys'.mem[f][Slots] # 0
                      /\ v.kind[f] = "dir" <=> \E r \in Procs : pd'[r] = f
    BY <1>6 DEF Owned
  <2>1. w.kind[f] = "dir" <=> \E r \in Procs : pd[r] = f
    BY DEF Owned
  <2>2. (\E r \in Procs : pd'[r] = f) <=> (\E r \in Procs : pd[r] = f) \/ f = to
    BY <1>4, <1>7, <1>8
  <2>3. w.kind[f] = "dir" => phys'.mem[f][Slots] # 0
    <3>1. w.kind[f] = "dir" => phys.mem[f][Slots] # 0
      BY DEF Owned
    <3>2. w.kind[f] = "dir" => phys'.mem[f] = phys.mem[f]
      BY <1>2, <1>5, <1>6, OthersSpace
    <3> QED BY <3>1, <3>2
  <2> QED BY <1>5, <1>6, <2>1, <2>2, <2>3
<1>11. \A r \in Procs : pd[r] # 0 =>
         \A i, j \in Slot : /\ Entry(phys', pd[r], i, j) = Entry(phys, pd[r], i, j)
                            /\ Word(phys', pd[r], i, j) = Word(phys, pd[r], i, j)
  BY <1>6, <1>8, Elsewhere
<1>12. Caches'
  <2> SUFFICES ASSUME NEW e \in Cores
               PROVE  /\ cr3[e] = pd'[ProcessOf(on[e])]
                      /\ \A k, l \in Slot : tlb[e][<<k, l>>] # 0 =>
                           /\ ~IsApic(k, l) /\ on[e] # "kernel_thread"
                           /\ tlb[e][<<k, l>>] = Entry(phys', cr3[e], k, l)
    BY <1>1 DEF Caches, ProcessOf
  <2>1. ProcessOf(on[e]) \in Procs /\ ProcessOf(on[e]) # q
    BY <1>7, Parameters DEF ProcessOf
  <2>2. cr3[e] = pd[ProcessOf(on[e])] /\ cr3[e] = pd'[ProcessOf(on[e])]
    BY <1>8, <2>1 DEF Caches
  <2>3. cr3[e] # 0
    BY Translated DEF TranslationsCurrent
  <2>4. \A k, l \in Slot : Entry(phys', cr3[e], k, l) = Entry(phys, cr3[e], k, l)
    BY <1>11, <2>1, <2>2, <2>3
  <2> QED BY <2>2, <2>4 DEF Caches
<1>13. Lives'
  <2>1. \A r \in Procs : /\ HasThread(r)' <=> HasThread(r) \/ r = q
                         /\ Waited(r)' <=> Waited(r) \/ r = q
    <3> SUFFICES ASSUME NEW r \in Procs
                 PROVE  /\ HasThread(r)' <=> HasThread(r) \/ r = q
                        /\ Waited(r)' <=> Waited(r) \/ r = q
      OBVIOUS
    <3>1. HasThread(r)' <=> HasThread(r) \/ r = q
      BY <1>8, <1>a DEF HasThread
    <3>2. Waited(r)' <=> Waited(r) \/ r = q
      BY <1>7, <1>8, Parameters DEF Waited
    <3> QED BY <3>1, <3>2
  <2>2. \A r \in Procs : refs'[r] = (IF HasThread(r)' THEN 1 ELSE 0) + (IF Waited(r)' THEN 1 ELSE 0)
                                + (IF r = Kernel THEN 1 ELSE 0)
    BY <1>7, <1>8, <2>1 DEF Lives
  <2>3. \A r \in Procs : pd'[r] # 0 <=> refs'[r] # 0
    BY <1>4, <1>5, <1>8 DEF Lives
  <2>4. \A r, s \in Procs : pd'[r] # 0 /\ pd'[r] = pd'[s] => r = s
    BY <1>8 DEF Lives
  <2>5. \A r \in Procs : child'[r] # NoProc <=> stage'[r] = "forking"
    BY <1>7, <1>8, Parameters DEF Lives
  <2>6. \A r, s \in Procs : child'[r] # NoProc /\ child'[r] = child'[s] => r = s
    BY <1>7, <1>8 DEF Lives, Waited
  <2>7. \A r \in Procs : child'[r] # Kernel /\ child'[r] # r
    BY <1>7, <1>8 DEF Lives
  <2>8. \A r, s \in Procs : child'[r] = s => stage'[s] # "unborn"
    BY <1>8 DEF Lives
  <2>9. stage'[Kernel] # "unborn"
    BY <1>8, Parameters DEF Lives
  <2>10. \A e \in Cores : on'[e] \in Procs => stage'[on'[e]] \in {"user", "forking", "exited"}
    BY <1>8, <1>a DEF Lives
  <2>11. \A e, f \in Cores : on'[e] \in Procs /\ on'[e] = on'[f] => e = f
    BY <1>a DEF Lives
  <2> QED BY <2>2, <2>3, <2>4, <2>5, <2>6, <2>7, <2>8, <2>9, <2>10, <2>11 DEF Lives
<1>14. \A r \in Procs : Undisturbed(r)
  BY <1>11 DEF Undisturbed
<1>15. Inherited
  <2> SUFFICES ASSUME NEW r \in Procs, NEW s \in Procs, child[r] = NoProc, child'[r] = s, s # NoProc
               PROVE  \A i, j \in Slot : ~IsApic(i, j) =>
                        Word(phys', pd'[s], i, j) = Word(phys, pd[r], i, j)
    BY DEF Inherited
  <2>1. r = p /\ s = q
    BY <1>8
  <2> QED BY <1>5, <1>8, <2>1 DEF d
<1> QED BY <1>9, <1>10, <1>12, <1>13, <1>14, <1>15

\* A reference to q goes away, and with the last one its address space.
LEMMA DropStep ==
  ASSUME TypeOK, Lives, Caches, NEW w, Owned(w), NEW q \in Procs, Drop(q),
         refs[q] \in Nat \ {0}, refs[q] = 1 => q # Kernel /\ \A c \in Cores : on[c] # q,
         UNCHANGED <<on, cr3, tlb>>
  PROVE  /\ Caches' /\ (\E v : Owned(v)') /\ \A p \in Procs : Undisturbed(p)
         /\ pd' \in [Procs -> 0 .. Frames] /\ refs' \in [Procs -> Nat]
         /\ \A p \in Procs : /\ refs'[p] = IF p = q THEN refs[p] - 1 ELSE refs[p]
                             /\ pd'[p] = IF p = q /\ refs[q] = 1 THEN 0 ELSE pd[p]
<1>1. /\ refs' = [refs EXCEPT ![q] = refs[q] - 1]
      /\ refs[q] = 1 => phys' = DeletePd(phys, pd[q]) /\ pd' = [pd EXCEPT ![q] = 0]
      /\ refs[q] # 1 => UNCHANGED <<phys, pd>>
  BY DEF Drop
<1>2. refs' \in [Procs -> Nat] /\ \A p \in Procs : refs'[p] = IF p = q THEN refs[p] - 1 ELSE refs[p]
  <2>1. refs \in [Procs -> Nat] /\ refs[q] - 1 \in Nat
    BY DEF TypeOK
  <2>2. refs' = [refs EXCEPT ![q] = refs[q] - 1]
    BY <1>1
  <2> QED BY <2>1, <2>2
<1>3. CASE refs[q] # 1
  <2>1. phys' = phys /\ pd' = pd
    BY <1>1, <1>3
  <2>2. Caches' /\ Owned(w)' /\ \A p \in Procs : Undisturbed(p)
    BY <2>1 DEF Caches, ProcessOf, Owned, Undisturbed
  <2> QED BY <1>2, <1>3, <2>1, <2>2 DEF TypeOK
<1>4. CASE refs[q] = 1
  <2> DEFINE d == pd[q]
  <2>1. phys' = DeletePd(phys, d) /\ pd' = [pd EXCEPT ![q] = 0] /\ q # Kernel
          /\ \A c \in Cores : on[c] # q
    BY <1>1, <1>4
  <2>2. \A p \in Procs : pd'[p] = IF p = q THEN 0 ELSE pd[p]
    BY <2>1 DEF TypeOK
  <2>3. pd' \in [Procs -> 0 .. Frames]
    BY <2>1, Parameters DEF TypeOK
  <2>4. d # 0
    BY <1>4 DEF Lives
  <2>5. d \in Frame /\ \A p \in Procs : p # q => pd[p] # d
    BY <2>4, ExistingAre DEF Lives
  <2>6. Good(phys, w) /\ w.kind[d] = "dir" /\ \A f \in Frame : w.kind[f] # "held" /\ f # 0
    BY <2>5, GoodTypes DEF Owned
  <2> HIDE DEF d
  <2>7. PICK v : /\ Good(phys', v) /\ Others(phys, w, phys', v, d)
                 /\ \A f \in Frame : v.kind[f] # "held"
                      /\ (v.kind[f] = "dir" <=> w.kind[f] = "dir" /\ f # d)
    BY <2>1, <2>5, <2>6, DeletePdKeeps
  <2>8. Owned(v)'
    <3> SUFFICES ASSUME NEW f \in Frame
                 PROVE  /\ v.kind[f] = "dir" => phys'.mem[f][Slots] # 0
                        /\ v.kind[f] = "dir" <=> \E r \in Procs : pd'[r] = f
      BY <2>7 DEF Owned
    <3>1. w.kind[f] = "dir" <=> \E r \in Procs : pd[r] = f
      BY DEF Owned
    <3>2. (\E r \in Procs : pd'[r] = f) <=> (\E r \in Procs : pd[r] = f) /\ f # d
      BY <2>2, <2>5, <2>6 DEF d
    <3>3. w.kind[f] = "dir" /\ f # d => phys'.mem[f][Slots] # 0
      <4>1. w.kind[f] = "dir" => phys.mem[f][Slots] # 0
        BY DEF Owned
      <4>2. w.kind[f] = "dir" /\ f # d => phys'.mem[f] = phys.mem[f]
        BY <2>6, <2>7, OthersSpace
      <4> QED BY <4>1, <4>2
    <3> QED BY <2>7, <3>1, <3>2, <3>3
  <2>9. \A p \in Procs : p # q /\ pd[p] # 0 =>
           \A i, j \in Slot : /\ Entry(phys', pd[p], i, j) = Entry(phys, pd[p], i, j)
                              /\ Word(phys', pd[p], i, j) = Word(phys, pd[p], i, j)
    BY <2>5, <2>7, Elsewhere
  <2>10. Caches'
    <3> SUFFICES ASSUME NEW e \in Cores
                 PROVE  /\ cr3[e] = pd'[ProcessOf(on[e])]
                        /\ \A k, l \in Slot : tlb[e][<<k, l>>] # 0 =>
                             /\ ~IsApic(k, l) /\ on[e] # "kernel_thread"
                             /\ tlb[e][<<k, l>>] = Entry(phys', cr3[e], k, l)
      BY DEF Caches, ProcessOf
    <3>1. ProcessOf(on[e]) \in Procs /\ ProcessOf(on[e]) # q
      BY <2>1, Parameters DEF ProcessOf
    <3>2. cr3[e] = pd[ProcessOf(on[e])] /\ cr3[e] = pd'[ProcessOf(on[e])]
      BY <2>2, <3>1 DEF Caches
    <3>3. cr3[e] # 0
      BY Translated DEF TranslationsCurrent
    <3>4. \A k, l \in Slot : Entry(phys', cr3[e], k, l) = Entry(phys, cr3[e], k, l)
      BY <2>9, <3>1, <3>2, <3>3
    <3> QED BY <3>2, <3>4 DEF Caches
  <2>11. \A p \in Procs : Undisturbed(p)
    <3> SUFFICES ASSUME NEW p \in Procs PROVE Undisturbed(p)
      OBVIOUS
    <3>1. CASE p = q
      BY <2>2, <3>1 DEF Undisturbed
    <3>2. CASE p # q
      BY <2>9, <3>2 DEF Undisturbed
    <3> QED BY <3>1, <3>2
  <2> QED BY <1>2, <1>4, <2>2, <2>3, <2>8, <2>10, <2>11
<1> QED BY <1>3, <1>4

\* fork() returns: if the child is gone already, its address space is deleted here.
LEMMA ForkReturnStep ==
  ASSUME TypeOK, Lives, Caches, NEW w, Owned(w), NEW c \in Cores, NEW p \in Procs, ForkReturn(c, p)
  PROVE  /\ TypeOK' /\ Lives' /\ Caches' /\ \E v : Owned(v)'
         /\ \A r \in Procs : Undisturbed(r) /\ child'[r] \in {child[r], NoProc}
<1> DEFINE q == child[p]
<1>1. /\ on[c] = p /\ stage[p] = "forking" /\ Drop(q)
      /\ stage' = [stage EXCEPT ![p] = "user", ![q] = IF refs[q] = 1 THEN "unborn" ELSE @]
      /\ child' = [child EXCEPT ![p] = NoProc]
      /\ UNCHANGED <<on, cr3, tlb>>
  BY DEF ForkReturn
<1>2. q \in Procs /\ q # p /\ q # Kernel /\ Waited(q) /\ q # NoProc /\ stage[q] # "unborn"
  BY <1>1, Parameters DEF TypeOK, Lives, Waited
<1>3. child[p] = q
  OBVIOUS
<1> HIDE DEF q
<1>4. refs[q] = (IF HasThread(q) THEN 1 ELSE 0) + 1
  BY <1>2 DEF Lives
<1>5. refs[q] = 1 => \A e \in Cores : on[e] # q
  BY <1>2, <1>4 DEF Lives, HasThread
<1>6. refs[q] \in Nat \ {0}
  BY <1>4
<1>7. /\ Caches' /\ (\E v : Owned(v)') /\ \A r \in Procs : Undisturbed(r)
      /\ pd' \in [Procs -> 0 .. Frames] /\ refs' \in [Procs -> Nat]
      /\ \A r \in Procs : /\ refs'[r] = IF r = q THEN refs[r] - 1 ELSE refs[r]
                          /\ pd'[r] = IF r = q /\ refs[q] = 1 THEN 0 ELSE pd[r]
  BY <1>1, <1>2, <1>5, <1>6, DropStep
<1>8. \A r \in Procs : /\ stage'[r] = IF r = p THEN "user" ELSE
                                      IF r = q /\ refs[q] = 1 THEN "unborn" ELSE stage[r]
                       /\ child'[r] = IF r = p THEN NoProc ELSE child[r]
  BY <1>1, <1>2 DEF TypeOK
<1>9. TypeOK'
  <2>1. stage' \in [Procs -> Stages]
    BY <1>1, <1>2 DEF TypeOK, Stages
  <2>2. child' \in [Procs -> Procs \cup {NoProc}]
    BY <1>1 DEF TypeOK
  <2> QED BY <1>1, <1>7, <2>1, <2>2 DEF TypeOK
<1>a. stage[p] = "forking" /\ on' = on /\ on[c] = p
  BY <1>1
<1>10. Lives'
  <2>0. \A r \in Procs : child[r] = q => r = p
    BY <1>2, <1>3 DEF Lives
  <2>1. \A r \in Procs : /\ HasThread(r)' <=> HasThread(r)
                         /\ Waited(r)' <=> Waited(r) /\ r # q
    <3> SUFFICES ASSUME NEW r \in Procs
                 PROVE  (HasThread(r)' <=> HasThread(r)) /\ (Waited(r)' <=> Waited(r) /\ r # q)
      OBVIOUS
    <3>1. HasThread(r)' <=> HasThread(r)
      BY <1>2, <1>4, <1>8, <1>a DEF HasThread
    <3>2. Waited(r)' <=> Waited(r) /\ r # q
      BY <1>3, <1>8, <2>0, Parameters DEF Waited
    <3> QED BY <3>1, <3>2
  <2>2. \A r \in Procs : refs'[r] = (IF HasThread(r)' THEN 1 ELSE 0) + (IF Waited(r)' THEN 1 ELSE 0)
                                + (IF r = Kernel THEN 1 ELSE 0)
    BY <1>2, <1>4, <1>7, <2>1 DEF Lives
  <2>3. \A r \in Procs : pd'[r] # 0 <=> refs'[r] # 0
    <3>1. \A r \in Procs : pd[r] # 0 <=> refs[r] # 0
      BY DEF Lives
    <3> QED BY <1>4, <1>7, <3>1
  <2>4. \A r, s \in Procs : pd'[r] # 0 /\ pd'[r] = pd'[s] => r = s
    BY <1>7 DEF Lives
  <2>5. \A r \in Procs : child'[r] # NoProc <=> stage'[r] = "forking"
    <3>1. refs[q] = 1 => stage[q] # "forking"
      BY <1>4 DEF HasThread
    <3>2. \A r \in Procs : child[r] # NoProc <=> stage[r] = "forking"
      BY DEF Lives
    <3> QED BY <1>2, <1>8, <3>1, <3>2
  <2>6. \A r, s \in Procs : child'[r] # NoProc /\ child'[r] = child'[s] => r = s
    BY <1>8 DEF Lives
  <2>7. \A r \in Procs : child'[r] # Kernel /\ child'[r] # r
    BY <1>8, Parameters DEF Lives
  <2>8. \A r, s \in Procs : child'[r] = s => stage'[s] # "unborn"
    BY <1>8, <2>0, Parameters DEF Lives
  <2>9. stage'[Kernel] # "unborn"
    BY <1>2, <1>8, Parameters DEF Lives
  <2>10. \A e \in Cores : on'[e] \in Procs => stage'[on'[e]] \in {"user", "forking", "exited"}
    BY <1>5, <1>8, <1>a DEF Lives
  <2>11. \A e, f \in Cores : on'[e] \in Procs /\ on'[e] = on'[f] => e = f
    BY <1>a DEF Lives
  <2> QED BY <2>2, <2>3, <2>4, <2>5, <2>6, <2>7, <2>8, <2>9, <2>10, <2>11 DEF Lives
<1> QED BY <1>7, <1>8, <1>9, <1>10

\* The reaper drops the last reference, unless the parent is still in fork().
LEMMA ReapStep ==
  ASSUME TypeOK, Lives, Caches, NEW w, Owned(w), NEW c \in Cores, NEW q \in Procs, Reap(c, q)
  PROVE  /\ TypeOK' /\ Lives' /\ Caches' /\ \E v : Owned(v)'
         /\ \A r \in Procs : Undisturbed(r) /\ child'[r] \in {child[r], NoProc}
<1>1. /\ stage[q] = "zombie" /\ Drop(q)
      /\ stage' = [stage EXCEPT ![q] = IF refs[q] = 1 THEN "unborn" ELSE "reaped"]
      /\ UNCHANGED <<child, on, cr3, tlb>>
  BY DEF Reap
<1>2. refs[q] = 1 + (IF Waited(q) THEN 1 ELSE 0) + (IF q = Kernel THEN 1 ELSE 0)
  BY <1>1 DEF Lives, HasThread
<1>3. \A e \in Cores : on[e] # q
  BY <1>1 DEF Lives
<1>4. refs[q] \in Nat \ {0} /\ (refs[q] = 1 <=> ~Waited(q) /\ q # Kernel)
  BY <1>2
<1>5. /\ Caches' /\ (\E v : Owned(v)') /\ \A r \in Procs : Undisturbed(r)
      /\ pd' \in [Procs -> 0 .. Frames] /\ refs' \in [Procs -> Nat]
      /\ \A r \in Procs : /\ refs'[r] = IF r = q THEN refs[r] - 1 ELSE refs[r]
                          /\ pd'[r] = IF r = q /\ refs[q] = 1 THEN 0 ELSE pd[r]
  BY <1>1, <1>3, <1>4, DropStep
<1>6. \A r \in Procs : stage'[r] = IF r = q THEN IF refs[q] = 1 THEN "unborn" ELSE "reaped"
        ELSE stage[r]
  BY <1>1 DEF TypeOK
<1>a. stage[q] = "zombie" /\ on' = on /\ child' = child
  BY <1>1
<1>7. TypeOK'
  <2>1. stage' \in [Procs -> Stages]
    BY <1>1 DEF TypeOK, Stages
  <2> QED BY <1>1, <1>5, <2>1 DEF TypeOK
<1>8. Lives'
  <2>1. \A r \in Procs : /\ HasThread(r)' <=> HasThread(r) /\ r # q
                         /\ Waited(r)' <=> Waited(r)
    BY <1>6, <1>a DEF HasThread, Waited
  <2>2. \A r \in Procs : refs'[r] = (IF HasThread(r)' THEN 1 ELSE 0) + (IF Waited(r)' THEN 1 ELSE 0)
                                + (IF r = Kernel THEN 1 ELSE 0)
    BY <1>2, <1>5, <2>1 DEF Lives
  <2>3. \A r \in Procs : pd'[r] # 0 <=> refs'[r] # 0
    <3>1. \A r \in Procs : pd[r] # 0 <=> refs[r] # 0
      BY DEF Lives
    <3> QED BY <1>2, <1>5, <3>1
  <2>4. \A r, s \in Procs : pd'[r] # 0 /\ pd'[r] = pd'[s] => r = s
    BY <1>5 DEF Lives
  <2>5. \A r \in Procs : child'[r] # NoProc <=> stage'[r] = "forking"
    BY <1>6, <1>a DEF Lives
  <2>6. \A r, s \in Procs : child'[r] # NoProc /\ child'[r] = child'[s] => r = s
    BY <1>a DEF Lives
  <2>7. \A r \in Procs : child'[r] # Kernel /\ child'[r] # r
    BY <1>a DEF Lives
  <2>8. \A r, s \in Procs : child'[r] = s => stage'[s] # "unborn"
    BY <1>4, <1>6, <1>a DEF Lives, Waited
  <2>9. stage'[Kernel] # "unborn"
    BY <1>4, <1>6, Parameters DEF Lives
  <2>10. \A e \in Cores : on'[e] \in Procs => stage'[on'[e]] \in {"user", "forking", "exited"}
    BY <1>3, <1>6, <1>a DEF Lives
  <2>11. \A e, f \in Cores : on'[e] \in Procs /\ on'[e] = on'[f] => e = f
    BY <1>a DEF Lives
  <2> QED BY <2>2, <2>3, <2>4, <2>5, <2>6, <2>7, <2>8, <2>9, <2>10, <2>11 DEF Lives
<1> QED BY <1>5, <1>7, <1>8, <1>a

-----------------------------------------------------------------------------
(* The theorems. *)

\* What MemoryPrivate says of one step.
Private ==
  /\ \A p \in Procs :
       pd[p] # 0 /\ pd'[p] = pd[p] /\ View(p)' # View(p) =>
         \E c \in Cores : \/ Exec(c, p) \/ Exit(c, p)
                          \/ \E va \in Touched, word \in Words : Write(c, p, va, word)
  /\ \A p, q \in Procs :
       child[p] = NoProc /\ child'[p] = q /\ q # NoProc => View(q)' = View(p)

\* A view consists of the first words of the pages.
LEMMA SameView ==
  ASSUME NEW p, NEW q,
         \A i, j \in Slot : ~IsApic(i, j) => Word(phys', pd'[q], i, j) = Word(phys, pd[p], i, j)
  PROVE  View(q)' = View(p)
<1> DEFINE old(va) == LET pa == Walk(phys, pd[p], va) IN IF pa = 0 THEN 0 ELSE phys.mem[pa][1]
           new(va) == LET pa == Walk(phys', pd'[q], va) IN IF pa = 0 THEN 0 ELSE phys'.mem[pa][1]
<1>1. ASSUME NEW va \in Addresses \ Special
      PROVE  new(va) = old(va)
  <2>1. PICK i \in Slot, j \in Slot : va = <<i, j>>
    BY DEF Addresses, Slot
  <2>2. ~IsApic(i, j)
    BY <2>1, SpecialPage
  <2>3. /\ Walk(phys, pd[p], va) = Entry(phys, pd[p], i, j)
        /\ Walk(phys', pd'[q], va) = Entry(phys', pd'[q], i, j)
    BY <2>1, WalkEntry
  <2>4. old(va) = Word(phys, pd[p], i, j) /\ new(va) = Word(phys', pd'[q], i, j)
    BY <2>2, <2>3 DEF Word
  <2> QED BY <2>2, <2>4
<1>2. View(p) = [va \in Addresses \ Special |-> old(va)]
  BY Zenon DEF View
<1>3. View(q)' = [va \in Addresses \ Special |-> new(va)]
  BY Zenon DEF View, Addresses, Special
<1> HIDE DEF old, new
<1> QED BY <1>1, <1>2, <1>3

\* A process whose memory has changed is one that changed it.
LEMMA UndisturbedView ==
  ASSUME NEW p \in Procs, pd[p] # 0, pd'[p] = pd[p], Undisturbed(p)
  PROVE  View(p)' = View(p)
BY SameView DEF Undisturbed

\* A step that starts no fork() and disturbs nobody else keeps memory private.
LEMMA QuietStep ==
  ASSUME \A r \in Procs : child'[r] \in {child[r], NoProc},
         \A r \in Procs : Undisturbed(r) \/
            \E c \in Cores : \/ Exec(c, r) \/ Exit(c, r)
                             \/ \E va \in Touched, word \in Words : Write(c, r, va, word)
  PROVE  Private
<1>1. ASSUME NEW p \in Procs, pd[p] # 0, pd'[p] = pd[p], View(p)' # View(p)
      PROVE  \E c \in Cores : \/ Exec(c, p) \/ Exit(c, p)
                              \/ \E va \in Touched, word \in Words : Write(c, p, va, word)
  BY <1>1, UndisturbedView
<1>2. ASSUME NEW p \in Procs, NEW q \in Procs, child[p] = NoProc, child'[p] = q, q # NoProc
      PROVE  View(q)' = View(p)
  BY <1>2
<1> QED BY <1>1, <1>2 DEF Private

\* Every step of every core keeps the invariant and keeps memory private.
LEMMA NextStep ==
  ASSUME IInv, [Next]_vars
  PROVE  IInv' /\ (Private \/ UNCHANGED vars)
<1>1. PICK w : TypeOK /\ Lives /\ Caches /\ Owned(w)
  BY DEF IInv
<1>2. CASE UNCHANGED vars
  <2>1. UNCHANGED <<phys, pd, stage, refs, child, on, cr3, tlb>>
    BY <1>2 DEF vars
  <2>2. TypeOK'
    BY <1>1, <2>1 DEF TypeOK
  <2>3. Lives'
    BY <1>1, <2>1 DEF Lives, HasThread, Waited
  <2>4. Caches'
    BY <1>1, <2>1 DEF Caches, ProcessOf
  <2>5. Owned(w)'
    BY <1>1, <2>1 DEF Owned
  <2> QED BY <1>2, <2>2, <2>3, <2>4, <2>5 DEF IInv
<1>3. CASE Next
  <2> PICK c \in Cores :
        \/ \E t \in Procs \cup {"kernel_thread"} : SwitchTo(c, t)
        \/ \E p \in Procs : \/ Exec(c, p) \/ Exit(c, p)
                            \/ ForkReturn(c, p)
                            \/ Reap(c, p)
                            \/ \E q \in Procs : Fork(c, p, q)
                            \/ \E va \in Touched :
                                 \/ PageFault(c, p, va)
                                 \/ \E word \in Words : Write(c, p, va, word)
    BY <1>3 DEF Next
  <2>1. ASSUME NEW t \in Procs \cup {"kernel_thread"}, SwitchTo(c, t)
        PROVE  IInv' /\ Private
    BY <1>1, <2>1, SwitchToStep, QuietStep DEF IInv
  <2>2. ASSUME NEW p \in Procs, Exec(c, p)
        PROVE  IInv' /\ Private
    BY <1>1, <2>2, ExecStep, QuietStep DEF IInv
  <2>3. ASSUME NEW p \in Procs, Exit(c, p)
        PROVE  IInv' /\ Private
    BY <1>1, <2>3, ExitStep, QuietStep DEF IInv
  <2>4. ASSUME NEW p \in Procs, ForkReturn(c, p)
        PROVE  IInv' /\ Private
    BY <1>1, <2>4, ForkReturnStep, QuietStep DEF IInv
  <2>5. ASSUME NEW p \in Procs, Reap(c, p)
        PROVE  IInv' /\ Private
    BY <1>1, <2>5, ReapStep, QuietStep DEF IInv
  <2>6. ASSUME NEW p \in Procs, NEW q \in Procs, Fork(c, p, q)
        PROVE  IInv' /\ Private
    <3>1. TypeOK' /\ Lives' /\ Caches' /\ (\E v : Owned(v)')
            /\ (\A r \in Procs : Undisturbed(r)) /\ Inherited
      BY <1>1, <2>6, ForkStep
    <3>2. Private
      BY <3>1, UndisturbedView, SameView DEF Private, Inherited
    <3> QED BY <3>1, <3>2 DEF IInv
  <2>7. ASSUME NEW p \in Procs, NEW va \in Touched, PageFault(c, p, va)
        PROVE  IInv' /\ Private
    BY <1>1, <2>7, PageFaultStep, QuietStep DEF IInv
  <2>8. ASSUME NEW p \in Procs, NEW va \in Touched, NEW word \in Words, Write(c, p, va, word)
        PROVE  IInv' /\ Private
    BY <1>1, <2>8, WriteStep, QuietStep DEF IInv
  <2> QED BY <2>1, <2>2, <2>3, <2>4, <2>5, <2>6, <2>7, <2>8
<1> QED BY <1>2, <1>3

\* The invariant holds for ever.
LEMMA InvariantOK == Spec => []IInv
<1>1. Init => IInv
  BY InitOK
<1>2. IInv /\ [Next]_vars => IInv'
  BY NextStep
<1> QED BY <1>1, <1>2, PTL DEF Spec

(* For any number of cores, processes and frames, every frame is free, or  *)
(* never used yet, or the directory, a table or a page of one existing     *)
(* process: none is freed twice, used after it was freed, or lost, by      *)
(* alloc_frame(), dealloc_frame(), make_pd(), map(), delete_private(),     *)
(* delete_pd() and the loops of fork().                                    *)
THEOREM FramesExclusiveOK == Spec => []FramesExclusive
<1>1. IInv => FramesExclusive
  BY Exclusive DEF IInv
<1> QED BY <1>1, InvariantOK, PTL

(* The ASSERTs of kernel/vmm.cc about cr3 hold, and no core's TLB ever has *)
(* a translation that its tables have not, although invlpg() is called on  *)
(* the core that unmaps and nowhere else.                                  *)
THEOREM TranslationsCurrentOK == Spec => []TranslationsCurrent
<1>1. IInv => TranslationsCurrent
  BY Translated DEF IInv
<1> QED BY <1>1, InvariantOK, PTL

(* What a process finds in its memory changes only by its own writes, its  *)
(* execl() and its exit(): never by what happens in other processes, nor   *)
(* by a page fault, which shows zeros; and the child of a fork() begins    *)
(* with what its parent has.                                               *)
THEOREM MemoryPrivateOK == Spec => MemoryPrivate
<1>1. IInv /\ [Next]_vars => [Private]_vars
  BY NextStep
<1>2. MemoryPrivate <=> [][Private]_vars
  BY DEF MemoryPrivate, Private
<1> QED BY <1>1, <1>2, InvariantOK, PTL DEF Spec

-----------------------------------------------------------------------------
(* The heap: the list of available blocks. *)

\* The ints of the heap, and heaps.
Cells == 0 .. Ints - 1
Heaps == [array : [Cells -> Int], avail : Nat]

\* The list of heap h has the blocks L, each with a lower order than the one before it,
\* and n is the highest.
LinksOK(h, L, o, n) ==
  /\ L \subseteq Cells /\ o \in [Cells -> Nat] /\ n \in Nat
  /\ \A i \in L : 0 < i /\ i + 3 \in Cells /\ o[i] <= n
  /\ \A i, j \in L : i < j => i + 4 <= j
  /\ h.avail # 0 => h.avail \in L /\ H!PrevOf(h, h.avail) = 0
  /\ \A i \in L : /\ IF H!PrevOf(h, i) = 0 THEN h.avail = i
                     ELSE H!PrevOf(h, i) \in L /\ H!NextOf(h, H!PrevOf(h, i)) = i
                  /\ H!NextOf(h, i) # 0 => /\ H!NextOf(h, i) \in L /\ o[H!NextOf(h, i)] < o[i]
                                           /\ H!PrevOf(h, H!NextOf(h, i)) = i

\* Where they have their links.
LinkCells(L) == {i + 1 : i \in L} \cup {i + 2 : i \in L}

LEMMA Lengths == Ints \in Nat /\ Ints >= 8 /\ 0 \in Cells /\ UserData \in Int
BY HeapsAssumed DEF H!HeapAssumption, Cells

LEMMA LinkCellsAre ==
  ASSUME NEW h, NEW L, NEW o, NEW n, LinksOK(h, L, o, n)
  PROVE  LinkCells(L) \subseteq Cells
<1>1. \A i \in L : i + 1 \in Cells /\ i + 2 \in Cells
  BY Lengths DEF LinksOK, Cells
<1> QED BY <1>1 DEF LinkCells

LEMMA LinksStay ==
  ASSUME NEW h, NEW L, NEW o, NEW n, LinksOK(h, L, o, n),
         NEW q, q.avail = h.avail, \A c \in LinkCells(L) : q.array[c] = h.array[c]
  PROVE  LinksOK(q, L, o, n)
<1>1. \A i \in L : H!NextOf(q, i) = H!NextOf(h, i) /\ H!PrevOf(q, i) = H!PrevOf(h, i)
  BY DEF LinkCells, H!NextOf, H!PrevOf
<1> QED BY <1>1 DEF LinksOK

\* Heap q is heap h but for x in the ints C.
Wrote(q, h, C, x) ==
  /\ q \in Heaps /\ q.avail = h.avail
  /\ \A c \in Cells : (c \in C => q.array[c] = x) /\ (c \notin C => q.array[c] = h.array[c])

\* What the setters write.
LEMMA SetNextIs ==
  ASSUME NEW h \in Heaps, NEW i \in Cells, i + 1 \in Cells, NEW x \in Int,
         NEW q, q = H!SetNext(h, i, x)
  PROVE  Wrote(q, h, {i + 1}, x)
BY DEF H!SetNext, Heaps, Wrote

LEMMA SetPrevIs ==
  ASSUME NEW h \in Heaps, NEW i \in Cells, i # 0, i + 2 \in Cells, NEW x \in Int,
         NEW q, q = H!SetPrev(h, i, x)
  PROVE  Wrote(q, h, {i + 2}, x)
BY DEF H!SetPrev, Heaps, Wrote

\* What is written into a header and a footer.
TwoIn(h, c, d, x) == [h EXCEPT !.array[c] = x, !.array[d] = x]

LEMMA TwoInts ==
  ASSUME NEW h \in Heaps, NEW c \in Cells, NEW d \in Cells, NEW x \in Int,
         NEW q, q = TwoIn(h, c, d, x)
  PROVE  Wrote(q, h, {c, d}, x)
<1> DEFINE array == [[h.array EXCEPT ![c] = x] EXCEPT ![d] = x]
<1>1. /\ array \in [Cells -> Int]
      /\ \A e \in Cells : array[e] = IF e = c \/ e = d THEN x ELSE h.array[e]
  BY DEF Heaps
<1>2. q = [h EXCEPT !.array = array]
  BY DEF Heaps, TwoIn
<1> HIDE DEF array
<1> QED BY <1>1, <1>2 DEF Heaps, Wrote

LEMMA MakeTakenIs ==
  ASSUME NEW h \in Heaps, NEW i \in Cells, NEW ints \in Nat, NEW e \in Cells, e = i + ints - 1,
         NEW q, q = H!MakeTaken(h, i, ints)
  PROVE  Wrote(q, h, {i, e}, 0 - ints)
<1>1. PICK x \in Int : x = 0 - ints /\ x = -ints
  OBVIOUS
<1>2. q = TwoIn(h, i, e, x)
  BY <1>1 DEF H!MakeTaken, TwoIn
<1>3. Wrote(q, h, {i, e}, x)
  BY <1>2, TwoInts
<1> QED BY <1>1, <1>3

\* remove() changes two links.
LEMMA RemoveKeeps ==
  ASSUME NEW h \in Heaps, NEW L, NEW o, NEW n, LinksOK(h, L, o, n), NEW i \in L
  PROVE  /\ H!Remove(h, i) \in Heaps /\ LinksOK(H!Remove(h, i), L \ {i}, o, n)
         /\ \A c \in Cells : c \notin LinkCells(L \ {i}) =>
              H!Remove(h, i).array[c] = h.array[c]
<1>p. PICK p : p = H!PrevOf(h, i)
  OBVIOUS
<1>x. PICK x : x = H!NextOf(h, i)
  OBVIOUS
<1>u. PICK u : u = IF p = 0 THEN [h EXCEPT !.avail = x] ELSE H!SetNext(h, p, x)
  OBVIOUS
<1>q. PICK q : q = H!SetPrev(u, x, p)
  OBVIOUS
<1>1. /\ L \subseteq Cells /\ \A j \in L : j \in Cells /\ j \in Nat /\ j + 1 \in Cells /\ j + 2 \in Cells /\ j > 0
      /\ \A j \in L : h.array[j + 1] \in Int /\ h.array[j + 2] \in Int
      /\ 0 \in Cells
  BY Lengths DEF LinksOK, Heaps, Cells
<1>2. /\ p = 0 => h.avail = i
      /\ p # 0 => p \in L /\ H!NextOf(h, p) = i /\ o[i] < o[p]
      /\ x # 0 => x \in L /\ H!PrevOf(h, x) = i /\ o[x] < o[i]
      /\ p \in Nat /\ x \in Nat /\ p \in Cells /\ x \in Cells
  BY <1>p, <1>x, <1>1 DEF LinksOK, H!NextOf, H!PrevOf
<1>3. o \in [Cells -> Nat] /\ o[i] \in Nat /\ p # i /\ x # i /\ (p # 0 => p # x)
  <2>1. o \in [Cells -> Nat] /\ o[i] \in Nat /\ o[p] \in Nat /\ o[x] \in Nat
    BY <1>1, <1>2 DEF LinksOK
  <2> QED BY <1>1, <1>2, <2>1
<1>4. /\ u \in Heaps /\ u.avail = IF p = 0 THEN x ELSE h.avail
      /\ \A c \in Cells : u.array[c] = IF p # 0 /\ c = p + 1 THEN x ELSE h.array[c]
  <2>1. CASE p = 0
    BY <1>u, <1>2, <2>1 DEF Heaps
  <2>2. CASE p # 0
    <3>1. u = H!SetNext(h, p, x) /\ p + 1 \in Cells /\ x \in Int
      BY <1>u, <1>1, <1>2, <2>2
    <3>2. Wrote(u, h, {p + 1}, x)
      BY <1>2, <3>1, SetNextIs
    <3> QED BY <2>2, <3>2 DEF Wrote
  <2> QED BY <2>1, <2>2
<1>5. /\ q \in Heaps /\ q.avail = u.avail
      /\ \A c \in Cells : q.array[c] = IF x # 0 /\ c = x + 2 THEN p ELSE u.array[c]
  <2>1. CASE x = 0
    BY <1>q, <1>4, <2>1 DEF H!SetPrev
  <2>2. CASE x # 0
    <3>1. x + 2 \in Cells /\ p \in Int
      BY <1>1, <1>2, <2>2
    <3>2. Wrote(q, u, {x + 2}, p)
      BY <1>q, <1>2, <1>4, <2>2, <3>1, SetPrevIs
    <3> QED BY <2>2, <3>2 DEF Wrote
  <2> QED BY <2>1, <2>2
<1>6. \A j, k \in L : /\ j + 1 = k + 1 => j = k
                      /\ j + 2 = k + 2 => j = k
                      /\ j + 1 # k + 2
  BY <1>1 DEF LinksOK
<1>7. \A j \in L : /\ H!NextOf(q, j) = IF j = p THEN x ELSE H!NextOf(h, j)
                   /\ H!PrevOf(q, j) = IF j = x THEN p ELSE H!PrevOf(h, j)
  BY <1>1, <1>2, <1>4, <1>5, <1>6 DEF H!NextOf, H!PrevOf
<1>8. LinksOK(q, L \ {i}, o, n)
  <2>1. q.avail = IF p = 0 THEN x ELSE h.avail
    BY <1>4, <1>5
  <2>2. q.avail # 0 => q.avail \in L \ {i} /\ H!PrevOf(q, q.avail) = 0
    <3>1. CASE p = 0
      BY <1>2, <1>3, <1>7, <2>1, <3>1
    <3>2. CASE p # 0
      <4>1. h.avail # 0 => h.avail \in L /\ H!PrevOf(h, h.avail) = 0
        BY DEF LinksOK
      <4>2. h.avail # 0 => h.avail # i /\ h.avail # x
        BY <1>p, <1>x, <1>1, <1>2, <3>2, <4>1
      <4> QED BY <1>7, <2>1, <3>2, <4>1, <4>2
    <3> QED BY <3>1, <3>2
  <2>3. ASSUME NEW j \in L \ {i}
        PROVE  IF H!PrevOf(q, j) = 0 THEN q.avail = j
               ELSE H!PrevOf(q, j) \in L \ {i} /\ H!NextOf(q, H!PrevOf(q, j)) = j
    <3>1. CASE j = x
      BY <1>1, <1>2, <1>3, <1>7, <2>1, <3>1
    <3>2. CASE j # x
      <4>1. H!PrevOf(q, j) = H!PrevOf(h, j)
        BY <1>7, <3>2
      <4>2. IF H!PrevOf(h, j) = 0 THEN h.avail = j
               ELSE H!PrevOf(h, j) \in L /\ H!NextOf(h, H!PrevOf(h, j)) = j
        BY DEF LinksOK
      <4>3. H!PrevOf(h, j) # 0 => H!PrevOf(h, j) # i /\ H!PrevOf(h, j) # p
        BY <1>x, <1>2, <2>3, <3>2, <4>2
      <4>4. H!PrevOf(h, j) = 0 => q.avail = j
        BY <1>2, <2>1, <2>3, <4>2
      <4> QED BY <1>7, <4>1, <4>2, <4>3, <4>4
    <3> QED BY <3>1, <3>2
  <2>4. ASSUME NEW j \in L \ {i}, H!NextOf(q, j) # 0
        PROVE  /\ H!NextOf(q, j) \in L \ {i} /\ o[H!NextOf(q, j)] < o[j]
               /\ H!PrevOf(q, H!NextOf(q, j)) = j
    <3>1. CASE j = p
      <4>1. H!NextOf(q, j) = x /\ x # 0 /\ x \in L /\ p # 0
        BY <1>1, <1>2, <1>7, <2>4, <3>1
      <4>2. o[x] \in Nat /\ o[p] \in Nat
        BY <1>2, <1>3
      <4> QED BY <1>2, <1>3, <1>7, <3>1, <4>1, <4>2
    <3>2. CASE j # p
      <4>1. H!NextOf(q, j) = H!NextOf(h, j)
        BY <1>7, <3>2
      <4>2. /\ H!NextOf(h, j) \in L /\ o[H!NextOf(h, j)] < o[j]
            /\ H!PrevOf(h, H!NextOf(h, j)) = j
        BY <2>4, <4>1 DEF LinksOK
      <4>3. H!NextOf(h, j) # i /\ H!NextOf(h, j) # x
        BY <1>p, <1>1, <1>2, <2>4, <3>2, <4>1, <4>2
      <4> QED BY <1>7, <4>1, <4>2, <4>3
    <3> QED BY <3>1, <3>2
  <2> QED BY <2>2, <2>3, <2>4 DEF LinksOK
<1>9. \A c \in Cells : c \notin LinkCells(L \ {i}) => q.array[c] = h.array[c]
  BY <1>2, <1>3, <1>4, <1>5 DEF LinkCells
<1>10. q = H!Remove(h, i)
  BY <1>p, <1>x, <1>u, <1>q DEF H!Remove
<1> QED BY <1>5, <1>8, <1>9, <1>10

\* Block i of so many ints is put on the list.
Listed(h, q, L, o, n, i, ints) ==
  /\ q \in Heaps /\ q.array[i] = ints /\ q.array[i + ints - 1] = ints
  /\ LinksOK(q, L \cup {i}, [o EXCEPT ![i] = n + 1], n + 1)
  /\ \A c \in Cells : c \notin LinkCells(L \cup {i}) /\ c # i /\ c # i + ints - 1 =>
       q.array[c] = h.array[c]

\* makeAvail() does.
LEMMA MakeAvailKeeps ==
  ASSUME NEW h \in Heaps, NEW L, NEW o, NEW n, LinksOK(h, L, o, n),
         NEW i \in Cells, i > 0, NEW ints \in Nat, ints >= 4, i + ints <= Ints,
         \A j \in L : j + 4 <= i \/ i + ints <= j,
         NEW q, q = H!MakeAvail(h, i, ints)
  PROVE  Listed(h, q, L, o, n, i, ints)
<1>a. PICK a : a = h.avail
  OBVIOUS
<1>e. PICK e : e = i + ints - 1
  OBVIOUS
<1>m. PICK m : m = TwoIn(h, i, e, ints)
  OBVIOUS
<1>s. PICK s : s = H!SetNext(m, i, a)
  OBVIOUS
<1>t. PICK t : t = H!SetPrev(s, i, 0)
  OBVIOUS
<1>v. PICK v : v = H!SetPrev(t, a, i)
  OBVIOUS
<1>0. q = [v EXCEPT !.avail = i]
  BY <1>a, <1>e, <1>m, <1>s, <1>t, <1>v DEF H!MakeAvail, TwoIn
<1> DEFINE oo == [o EXCEPT ![i] = n + 1]
<1>1. /\ i + 1 \in Cells /\ i + 2 \in Cells /\ e \in Cells /\ i \in Nat /\ i \in Int /\ 0 \in Cells
      /\ a \in Nat /\ (a # 0 => a \in L /\ H!PrevOf(h, a) = 0) /\ a \in Cells /\ a \in Int /\ ints \in Int /\ (a = 0 \/ a + 2 \in Cells) /\ (i = 0 \/ i + 2 \in Cells) /\ 0 \in Int
      /\ \A j \in L : j \in Cells /\ j + 1 \in Cells /\ j + 2 \in Cells /\ j > 0 /\ j # i
  <2>1. /\ i + 1 \in Cells /\ i + 2 \in Cells /\ e \in Cells /\ i \in Nat /\ i \in Int
        /\ 0 \in Cells /\ ints \in Int /\ (i = 0 \/ i + 2 \in Cells) /\ 0 \in Int
    BY <1>e, Lengths DEF Cells
  <2>2. \A j \in L : j \in Cells /\ j + 1 \in Cells /\ j + 2 \in Cells /\ j > 0 /\ j # i
    <3> SUFFICES ASSUME NEW j \in L
                 PROVE  j \in Cells /\ j + 1 \in Cells /\ j + 2 \in Cells /\ j > 0 /\ j # i
      OBVIOUS
    <3>1. j \in Cells /\ j > 0 /\ j + 3 \in Cells /\ (j + 4 <= i \/ i + ints <= j)
      BY DEF LinksOK
    <3> QED BY <2>1, <3>1, Lengths DEF Cells
  <2>3. a \in Nat /\ (a # 0 => a \in L /\ H!PrevOf(h, a) = 0)
    BY <1>a DEF LinksOK, Heaps
  <2>4. a \in Cells /\ a \in Int /\ (a = 0 \/ a + 2 \in Cells)
    BY <2>1, <2>2, <2>3
  <2> QED BY <2>1, <2>2, <2>3, <2>4
<1>2. Wrote(m, h, {i, e}, ints)
  BY <1>m, <1>1, TwoInts
<1>3. Wrote(s, m, {i + 1}, a)
  <2>1. m \in Heaps /\ i + 1 \in Cells /\ a \in Int
    BY <1>1, <1>2 DEF Wrote
  <2> QED BY <1>s, <2>1, SetNextIs
<1>4. Wrote(t, s, {i + 2}, 0)
  <2>1. s \in Heaps /\ i + 2 \in Cells /\ i # 0
    BY <1>1, <1>3 DEF Wrote
  <2> QED BY <1>t, <2>1, SetPrevIs
<1>5. Wrote(v, t, IF a = 0 THEN {} ELSE {a + 2}, i)
  <2>1. CASE a = 0
    BY <1>v, <1>4, <2>1 DEF H!SetPrev, Wrote
  <2>2. CASE a # 0
    <3>1. a + 2 \in Cells /\ t \in Heaps
      BY <1>1, <1>4, <2>2 DEF Wrote
    <3>2. Wrote(v, t, {a + 2}, i)
      BY <1>v, <1>1, <2>2, <3>1, SetPrevIs
    <3> QED BY <2>2, <3>2
  <2> QED BY <2>1, <2>2
<1>6. q \in Heaps /\ q.avail = i /\ q.array = v.array
  BY <1>0, <1>1, <1>5 DEF Heaps, Wrote
<1>7. \A j \in L : /\ j # i /\ j + 1 # i /\ j + 2 # i /\ j + 1 # i + 1 /\ j + 2 # i + 1 /\ j + 1 # i + 2 /\ j + 2 # i + 2
                   /\ j + 1 # e /\ j + 2 # e
  BY <1>e, <1>1 DEF Cells
<1>8. \A j, k \in L : (j + 2 = k + 2 => j = k) /\ j + 1 # k + 2
  BY <1>1 DEF LinksOK, Cells
<1>9. q.array[i] = ints /\ q.array[e] = ints
  <2>1. i # i + 1 /\ i # i + 2 /\ e # i + 1 /\ e # i + 2
    BY <1>e, <1>1
  <2>2. a # 0 => i # a + 2 /\ e # a + 2
    BY <1>1, <1>7
  <2> QED BY <1>1, <1>2, <1>3, <1>4, <1>5, <1>6, <2>1, <2>2 DEF Wrote
<1>10. H!NextOf(q, i) = a /\ H!PrevOf(q, i) = 0
  <2>1. i + 1 # i + 2 /\ (a # 0 => i + 1 # a + 2 /\ i + 2 # a + 2)
    BY <1>1, <1>7
  <2> QED BY <1>1, <1>3, <1>4, <1>5, <1>6, <2>1 DEF H!NextOf, H!PrevOf, Wrote
<1>11. \A j \in L : /\ H!NextOf(q, j) = H!NextOf(h, j)
                    /\ H!PrevOf(q, j) = IF j = a THEN i ELSE H!PrevOf(h, j)
  <2>1. ASSUME NEW j \in L
        PROVE  q.array[j + 1] = h.array[j + 1] /\ q.array[j + 2] = IF j = a THEN i ELSE h.array[j + 2]
    <3>1. j + 1 \in Cells /\ j + 2 \in Cells
      BY <1>1
    <3>2. j + 1 \notin {i, e} /\ j + 2 \notin {i, e} /\ j + 1 # i + 1 /\ j + 2 # i + 1 /\ j + 1 # i + 2 /\ j + 2 # i + 2
      BY <1>7
    <3>3. t.array[j + 1] = h.array[j + 1] /\ t.array[j + 2] = h.array[j + 2]
      BY <1>2, <1>3, <1>4, <3>1, <3>2 DEF Wrote
    <3>4. (a # 0 => j + 1 # a + 2) /\ (j # a /\ a # 0 => j + 2 # a + 2) /\ (j = a => a # 0)
      BY <1>1, <1>8
    <3>5. CASE j = a
      <4>1. v.array[a + 2] = i /\ v.array[j + 1] = t.array[j + 1]
        BY <1>5, <3>1, <3>4, <3>5 DEF Wrote
      <4> QED BY <1>6, <3>3, <3>5, <4>1
    <3>6. CASE j # a
      <4>1. v.array[j + 2] = t.array[j + 2] /\ v.array[j + 1] = t.array[j + 1]
        BY <1>5, <3>1, <3>4, <3>6 DEF Wrote
      <4> QED BY <1>6, <3>3, <3>6, <4>1
    <3> QED BY <3>5, <3>6
  <2> QED BY <2>1 DEF H!NextOf, H!PrevOf
<1>12. LinksOK(q, L \cup {i}, oo, n + 1)
  <2>1. /\ oo \in [Cells -> Nat] /\ oo[i] = n + 1 /\ n + 1 \in Nat
        /\ \A j \in L : oo[j] = o[j] /\ o[j] <= n /\ o[j] \in Nat /\ n \in Nat
    BY <1>1 DEF LinksOK
  <2> HIDE DEF oo
  <2>2. \A j \in L \cup {i} : 0 < j /\ j + 3 \in Cells /\ oo[j] <= n + 1
    <3>1. i + 3 \in Cells
      BY Lengths DEF Cells
    <3> QED BY <2>1, <3>1 DEF LinksOK
  <2>3. \A j, k \in L \cup {i} : j < k => j + 4 <= k
    BY <1>1 DEF LinksOK, Cells
  <2>4. ASSUME NEW j \in L \cup {i}
        PROVE  IF H!PrevOf(q, j) = 0 THEN q.avail = j
               ELSE H!PrevOf(q, j) \in L \cup {i} /\ H!NextOf(q, H!PrevOf(q, j)) = j
    <3>1. CASE j = i
      BY <1>6, <1>10, <3>1
    <3>2. CASE j \in L /\ j = a
      BY <1>1, <1>10, <1>11, <3>2
    <3>3. CASE j \in L /\ j # a
      <4>1. H!PrevOf(h, j) # 0 /\ H!PrevOf(h, j) \in L /\ H!NextOf(h, H!PrevOf(h, j)) = j
        BY <1>a, <3>3 DEF LinksOK
      <4> QED BY <1>11, <3>3, <4>1
    <3> QED BY <3>1, <3>2, <3>3
  <2>5. ASSUME NEW j \in L \cup {i}, H!NextOf(q, j) # 0
        PROVE  /\ H!NextOf(q, j) \in L \cup {i} /\ oo[H!NextOf(q, j)] < oo[j]
               /\ H!PrevOf(q, H!NextOf(q, j)) = j
    <3>1. CASE j = i
      BY <1>1, <1>10, <1>11, <2>1, <2>5, <3>1
    <3>2. CASE j \in L
      <4>1. /\ H!NextOf(h, j) # 0 /\ H!NextOf(h, j) \in L /\ o[H!NextOf(h, j)] < o[j]
            /\ H!PrevOf(h, H!NextOf(h, j)) = j
        BY <1>11, <2>5, <3>2 DEF LinksOK
      <4>2. H!NextOf(h, j) # a
        BY <1>1, <3>2, <4>1
      <4> QED BY <1>11, <2>1, <3>2, <4>1, <4>2
    <3> QED BY <3>1, <3>2
  <2>6. q.avail # 0 => q.avail \in L \cup {i} /\ H!PrevOf(q, q.avail) = 0
    BY <1>6, <1>10
  <2>7. L \cup {i} \subseteq Cells
    BY DEF LinksOK
  <2> QED BY <2>1, <2>2, <2>3, <2>4, <2>5, <2>6, <2>7 DEF LinksOK
<1>13. \A c \in Cells : c \notin LinkCells(L \cup {i}) /\ c # i /\ c # e =>
         q.array[c] = h.array[c]
  <2>1. ASSUME NEW c \in Cells, c \notin LinkCells(L \cup {i}), c # i, c # e
        PROVE  q.array[c] = h.array[c]
    <3>1. c \notin {i, e} /\ c \notin {i + 1} /\ c \notin {i + 2}
          /\ c \notin IF a = 0 THEN {} ELSE {a + 2}
      BY <1>1, <2>1 DEF LinkCells
    <3> QED BY <1>2, <1>3, <1>4, <1>5, <1>6, <3>1 DEF Wrote
  <2> QED BY <2>1
<1> QED BY <1>e, <1>6, <1>9, <1>12, <1>13 DEF Listed

-----------------------------------------------------------------------------
(* The heap: headers and footers. *)

\* The blocks B tile heap h.
TilesOK(h, B) ==
  /\ 0 \in B /\ B \subseteq Cells
  /\ \A i \in B : /\ H!Size(h, i) >= 2 /\ H!Right(h, i) \in B \cup {Ints}
                  /\ h.array[H!Footer(h, i)] = h.array[i]
  /\ \A i \in B \ {0} : \E l \in B : H!Right(h, l) = i
  /\ \A i, j \in B : i < j => H!Right(h, i) <= j

\* Sizes are numbers.
LEMMA SizeType ==
  ASSUME NEW h \in Heaps, NEW i \in Cells
  PROVE  /\ H!Size(h, i) \in Nat /\ H!Right(h, i) = i + H!Size(h, i)
         /\ H!Footer(h, i) = i + H!Size(h, i) - 1 /\ H!Right(h, i) \in Nat
         /\ h.array[i] \in Int /\ i \in Nat
         /\ (h.array[i] >= 0 => H!Size(h, i) = h.array[i])
         /\ (h.array[i] <= 0 => H!Size(h, i) = 0 - h.array[i])
BY Lengths DEF H!Size, H!Abs, H!Right, H!Footer, Heaps, Cells

\* The same about a block.
LEMMA BlockIs ==
  ASSUME NEW h \in Heaps, NEW B, TilesOK(h, B), NEW i \in B
  PROVE  /\ i \in Cells /\ i \in Nat /\ H!Size(h, i) \in Nat /\ H!Size(h, i) >= 2
         /\ H!Right(h, i) = i + H!Size(h, i) /\ H!Footer(h, i) = i + H!Size(h, i) - 1
         /\ H!Right(h, i) \in B \cup {Ints} /\ H!Right(h, i) <= Ints /\ H!Footer(h, i) \in Cells
         /\ H!Right(h, i) \in Nat
         /\ h.array[H!Footer(h, i)] = h.array[i] /\ h.array[i] \in Int /\ h.array[i] # 0
         /\ (h.array[i] > 0 => H!Size(h, i) = h.array[i])
         /\ (h.array[i] < 0 => H!Size(h, i) = 0 - h.array[i])
<1>1. i \in Cells
  BY DEF TilesOK
<1>2. /\ H!Size(h, i) >= 2 /\ H!Right(h, i) \in B \cup {Ints}
      /\ h.array[H!Footer(h, i)] = h.array[i]
  BY DEF TilesOK
<1>3. H!Right(h, i) <= Ints
  BY <1>2, Lengths DEF TilesOK, Cells
<1>4. H!Footer(h, i) \in Cells
  BY <1>1, <1>2, <1>3, SizeType, Lengths DEF Cells
<1> QED BY <1>1, <1>2, <1>3, <1>4, SizeType

\* Two blocks have no int in common.
LEMMA Apart ==
  ASSUME NEW h \in Heaps, NEW B, TilesOK(h, B), NEW i \in B, NEW j \in B, i # j
  PROVE  H!Right(h, i) <= j \/ H!Right(h, j) <= i
<1>1. i \in Nat /\ j \in Nat
  BY BlockIs
<1> QED BY <1>1 DEF TilesOK

\* What sizes and footers rest on.
LEMMA SameHeader ==
  ASSUME NEW h, NEW q, NEW i, q.array[i] = h.array[i]
  PROVE  /\ H!Size(q, i) = H!Size(h, i) /\ H!Right(q, i) = H!Right(h, i)
         /\ H!Footer(q, i) = H!Footer(h, i)
BY DEF H!Size, H!Right, H!Footer

\* Heap q has the header and the footer of block i of heap h.
SameEnds(h, q, i) ==
  q.array[i] = h.array[i] /\ q.array[H!Footer(h, i)] = h.array[H!Footer(h, i)]

LEMMA TilesStay ==
  ASSUME NEW h, NEW B, TilesOK(h, B), NEW q, \A i \in B : SameEnds(h, q, i)
  PROVE  TilesOK(q, B)
<1>1. \A i \in B : /\ H!Size(q, i) = H!Size(h, i) /\ H!Right(q, i) = H!Right(h, i)
                   /\ H!Footer(q, i) = H!Footer(h, i)
  BY SameHeader DEF SameEnds
<1> QED BY <1>1 DEF TilesOK, SameEnds

\* A header and a footer of m ints.
Marked(q, i, m) == (q.array[i] = m \/ q.array[i] = 0 - m) /\ q.array[i + m - 1] = q.array[i]

LEMMA Sized ==
  ASSUME NEW q \in Heaps, NEW i \in Cells, NEW m \in Nat, Marked(q, i, m)
  PROVE  H!Size(q, i) = m /\ H!Right(q, i) = i + m /\ H!Footer(q, i) = i + m - 1
BY SizeType DEF Marked

\* The blocks from s to e become one.
LEMMA MergeTiles ==
  ASSUME NEW h \in Heaps, NEW B, TilesOK(h, B), NEW s \in B, NEW e \in B \cup {Ints},
         NEW m \in Nat, m > 0, s + m = e,
         NEW q \in Heaps, NEW C, C = {b \in B : b <= s \/ b >= e},
         \A b \in C \ {s} : SameEnds(h, q, b), Marked(q, s, m)
  PROVE  TilesOK(q, C)
<1>1. /\ \A b \in B : b \in Cells /\ b \in Nat /\ H!Right(h, b) \in B \cup {Ints} /\ H!Right(h, b) >= b + 2
                      /\ H!Size(h, b) >= 2 /\ H!Right(h, b) \in Nat
                      /\ h.array[H!Footer(h, b)] = h.array[b]
      /\ C \subseteq B /\ s \in C /\ 0 \in C /\ e \in Nat /\ e <= Ints /\ Ints \in Nat
      /\ \A i, j \in B : i < j => H!Right(h, i) <= j
      /\ \A i \in B : i < Ints
      /\ s < e /\ m = e - s
  <2>1. \A b \in B : b \in Cells /\ b \in Nat /\ H!Right(h, b) \in B \cup {Ints} /\ H!Right(h, b) >= b + 2
                      /\ H!Size(h, b) >= 2 /\ H!Right(h, b) \in Nat
                      /\ h.array[H!Footer(h, b)] = h.array[b]
    BY BlockIs
  <2>2. \A b \in B : b < Ints
    BY <2>1, Lengths DEF Cells
  <2>3. e \in Nat /\ e <= Ints /\ Ints \in Nat
    BY <2>1, <2>2, Lengths
  <2>4. 0 \in B /\ s \in Nat /\ s < e /\ m = e - s
    BY <2>1 DEF TilesOK
  <2> QED BY <2>1, <2>2, <2>3, <2>4 DEF TilesOK
<1>2. /\ \A b \in C \ {s} : /\ H!Size(q, b) = H!Size(h, b) /\ H!Right(q, b) = H!Right(h, b)
                            /\ H!Footer(q, b) = H!Footer(h, b) /\ q.array[b] = h.array[b]
                            /\ q.array[H!Footer(h, b)] = h.array[H!Footer(h, b)]
      /\ H!Size(q, s) = m /\ H!Right(q, s) = e /\ q.array[H!Footer(q, s)] = q.array[s]
  <2>1. H!Size(q, s) = m /\ H!Right(q, s) = s + m /\ H!Footer(q, s) = s + m - 1
    BY <1>1, Sized
  <2>2. \A b \in C \ {s} : /\ H!Size(q, b) = H!Size(h, b) /\ H!Right(q, b) = H!Right(h, b)
                           /\ H!Footer(q, b) = H!Footer(h, b)
    BY SameHeader DEF SameEnds
  <2> QED BY <2>1, <2>2 DEF SameEnds, Marked
<1>3. H!Right(h, s) <= e
  BY <1>1
<1>4. ASSUME NEW i \in C
      PROVE  /\ H!Size(q, i) >= 2 /\ H!Right(q, i) \in C \cup {Ints}
             /\ q.array[H!Footer(q, i)] = q.array[i]
  <2>1. CASE i = s
    BY <1>1, <1>2, <1>3, <2>1
  <2>2. CASE i # s
    <3>1. H!Right(h, i) \in C \cup {Ints}
      <4>1. CASE i < s
        <5>1. i \in B /\ H!Right(h, i) \in B \cup {Ints}
          BY <1>1
        <5>2. H!Right(h, i) <= s
          BY <1>1, <4>1, <5>1
        <5>3. s < Ints /\ H!Right(h, i) \in Nat /\ s \in Nat /\ Ints \in Nat
          BY <1>1, <5>1
        <5> QED BY <5>1, <5>2, <5>3
      <4>2. CASE i >= e
        <5>1. H!Right(h, i) >= e
          BY <1>1, <4>2
        <5> QED BY <1>1, <5>1
      <4>3. i < s \/ i >= e
        BY <1>1, <2>2
      <4> QED BY <4>1, <4>2, <4>3
    <3> QED BY <1>1, <1>2, <2>2, <3>1
  <2> QED BY <2>1, <2>2
<1>5. ASSUME NEW i \in C \ {0} PROVE \E l \in C : H!Right(q, l) = i
  <2>1. CASE i = e
    BY <1>1, <1>2, <2>1
  <2>2. CASE i # e
    <3>1. PICK l \in B : H!Right(h, l) = i
      BY <1>1 DEF TilesOK
    <3>2. l # s
      BY <1>1, <1>3, <2>2, <3>1
    <3>3. l \in C
      BY <1>1, <1>3, <2>2, <3>1, <3>2
    <3> QED BY <1>2, <3>1, <3>2, <3>3
  <2> QED BY <2>1, <2>2
<1>6. \A i, j \in C : i < j => H!Right(q, i) <= j
  BY <1>1, <1>2
<1>7. C \subseteq Cells
  BY <1>1
<1> QED BY <1>1, <1>2, <1>4, <1>5, <1>6, <1>7 DEF TilesOK

\* Block i becomes two, of m and x ints.
LEMMA SplitTiles ==
  ASSUME NEW h \in Heaps, NEW B, TilesOK(h, B), NEW i \in B,
         NEW m \in Nat, m >= 2, NEW k, k = i + m, NEW x \in Nat, x >= 2, k + x = H!Right(h, i),
         NEW q \in Heaps, \A b \in B \ {i} : SameEnds(h, q, b), Marked(q, i, m), Marked(q, k, x)
  PROVE  TilesOK(q, B \cup {k}) /\ k \notin B
<1> DEFINE r == H!Right(h, i)
<1>1. /\ \A b \in B : b \in Cells /\ b \in Nat /\ H!Right(h, b) \in B \cup {Ints} /\ H!Right(h, b) >= b + 2
                      /\ H!Size(h, b) >= 2 /\ H!Right(h, b) \in Nat
                      /\ h.array[H!Footer(h, b)] = h.array[b]
      /\ \A b, j \in B : b < j => H!Right(h, b) <= j
      /\ \A b \in B : b < Ints
      /\ r = i + m + x /\ k \in Nat /\ r <= Ints
      /\ Ints \in Nat /\ 0 \in B /\ r \in B \cup {Ints}
  <2>1. \A b \in B : b \in Cells /\ b \in Nat /\ H!Right(h, b) \in B \cup {Ints} /\ H!Right(h, b) >= b + 2
                      /\ H!Size(h, b) >= 2 /\ H!Right(h, b) \in Nat
                      /\ h.array[H!Footer(h, b)] = h.array[b]
    BY BlockIs
  <2>2. \A b \in B : b < Ints
    BY <2>1, Lengths DEF Cells
  <2>3. r = i + m + x /\ k \in Nat /\ r <= Ints /\ r \in B \cup {Ints}
    BY BlockIs
  <2> QED BY <2>1, <2>2, <2>3, Lengths DEF TilesOK
<1> HIDE DEF r
<1>2. k \in Cells /\ k \notin B /\ i < k /\ k < r
  <2>1. i < k /\ k < r
    <3>1. i \in Nat /\ r = i + m + x
      BY <1>1
    <3> QED BY <3>1
  <2>2. k \in Cells
    BY <1>1, <2>1 DEF Cells
  <2> QED BY <1>1, <2>1, <2>2 DEF r
<1>3. /\ \A b \in B \ {i} : /\ H!Size(q, b) = H!Size(h, b) /\ H!Right(q, b) = H!Right(h, b)
                            /\ H!Footer(q, b) = H!Footer(h, b) /\ q.array[b] = h.array[b]
                            /\ q.array[H!Footer(h, b)] = h.array[H!Footer(h, b)]
      /\ H!Size(q, i) = m /\ H!Right(q, i) = k /\ q.array[H!Footer(q, i)] = q.array[i]
      /\ H!Size(q, k) = x /\ H!Right(q, k) = r /\ q.array[H!Footer(q, k)] = q.array[k]
  <2>1. H!Size(q, i) = m /\ H!Right(q, i) = i + m /\ H!Footer(q, i) = i + m - 1
    BY <1>1, Sized
  <2>2. H!Size(q, k) = x /\ H!Right(q, k) = k + x /\ H!Footer(q, k) = k + x - 1
    BY <1>1, <1>2, Sized
  <2>3. \A b \in B \ {i} : /\ H!Size(q, b) = H!Size(h, b) /\ H!Right(q, b) = H!Right(h, b)
                           /\ H!Footer(q, b) = H!Footer(h, b)
    BY SameHeader DEF SameEnds
  <2> QED BY <1>1, <2>1, <2>2, <2>3 DEF SameEnds, Marked, r
<1>4. ASSUME NEW b \in B \cup {k}
      PROVE  /\ H!Size(q, b) >= 2 /\ H!Right(q, b) \in B \cup {k} \cup {Ints}
             /\ q.array[H!Footer(q, b)] = q.array[b]
  <2>1. CASE b = i
    BY <1>1, <1>3, <2>1
  <2>2. CASE b = k
    BY <1>1, <1>3, <2>2
  <2>3. CASE b # i /\ b # k
    BY <1>1, <1>3, <2>3
  <2> QED BY <2>1, <2>2, <2>3
<1>5. ASSUME NEW b \in (B \cup {k}) \ {0} PROVE \E l \in B \cup {k} : H!Right(q, l) = b
  <2>1. CASE b = k
    BY <1>3, <2>1
  <2>2. CASE b # k
    <3>1. PICK l \in B : H!Right(h, l) = b
      BY <2>2 DEF TilesOK
    <3>2. CASE l = i
      BY <1>3, <3>1, <3>2 DEF r
    <3>3. CASE l # i
      BY <1>3, <3>1, <3>3
    <3> QED BY <3>2, <3>3
  <2> QED BY <2>1, <2>2
<1>6. ASSUME NEW b \in B \cup {k}, NEW j \in B \cup {k}, b < j PROVE H!Right(q, b) <= j
  <2>1. CASE b = i
    <3>1. j # k => r <= j
      BY <1>1, <1>6, <2>1 DEF r
    <3> QED BY <1>1, <1>2, <1>3, <2>1, <3>1
  <2>2. CASE b = k
    <3>1. j \in B /\ i < j
      BY <1>1, <1>2, <1>6, <2>2
    <3>2. r <= j
      BY <1>1, <3>1 DEF r
    <3> QED BY <1>3, <2>2, <3>2
  <2>3. CASE b # i /\ b # k
    <3>1. b \in B /\ H!Right(q, b) = H!Right(h, b)
      BY <1>3, <2>3
    <3>2. j # k => H!Right(h, b) <= j
      BY <1>1, <1>6, <3>1
    <3>3. j = k => b < i
      BY <1>1, <1>2, <1>6, <2>3, <3>1 DEF r
    <3> QED BY <1>1, <1>2, <3>1, <3>2, <3>3
  <2> QED BY <2>1, <2>2, <2>3
<1>7. B \cup {k} \subseteq Cells /\ 0 \in B \cup {k}
  BY <1>1, <1>2
<1>8. TilesOK(q, B \cup {k})
  BY <1>4, <1>5, <1>6, <1>7 DEF TilesOK
<1> QED BY <1>2, <1>8

-----------------------------------------------------------------------------
(* malloc(). *)

\* Heap h has the blocks B, and the list has the available ones, L.
HeapOK(h, B, L, o, n) ==
  /\ h \in Heaps /\ TilesOK(h, B) /\ LinksOK(h, L, o, n)
  /\ L = {i \in B : h.array[i] > 0}
  /\ \A i \in L : h.array[H!Right(h, i)] < 0
  /\ \A i \in B : i = 0 \/ i = Ints - 2 \/ H!Size(h, i) >= 4
  /\ Ints - 2 \in B /\ h.array[0] = 0 - 2 /\ h.array[Ints - 2] = 0 - 2

Taken(h, B) == {i \in B : h.array[i] < 0}

\* Block i is in heap q what it is in heap h.
Same(h, q, i) == \A c \in i .. H!Right(h, i) - 1 : q.array[c] = h.array[c]

\* A block other than the two at the ends.
LEMMA InnerBlock ==
  ASSUME NEW h, NEW B, NEW L, NEW o, NEW n, HeapOK(h, B, L, o, n),
         NEW i \in B, i # 0, i # Ints - 2
  PROVE  /\ i >= 2 /\ H!Size(h, i) >= 4 /\ H!Right(h, i) \in B /\ H!Right(h, i) <= Ints - 2
         /\ i \in Cells /\ i \in Nat /\ H!Size(h, i) \in Nat
         /\ H!Right(h, i) = i + H!Size(h, i) /\ H!Footer(h, i) = i + H!Size(h, i) - 1
<1>1. h \in Heaps /\ TilesOK(h, B) /\ Ints - 2 \in B /\ 0 \in B /\ Ints \in Nat
  BY Lengths DEF HeapOK, TilesOK
<1>2. H!Size(h, 0) = 2 /\ H!Size(h, Ints - 2) = 2
  BY <1>1, BlockIs DEF HeapOK
<1>3. H!Right(h, 0) = 2 /\ H!Right(h, Ints - 2) = Ints
  BY <1>1, <1>2, BlockIs
<1>4. /\ i \in Nat /\ i \in Cells /\ H!Right(h, i) \in B \cup {Ints} /\ i < Ints
      /\ H!Size(h, i) \in Nat /\ H!Right(h, i) = i + H!Size(h, i)
      /\ H!Footer(h, i) = i + H!Size(h, i) - 1
  BY <1>1, BlockIs DEF Cells
<1>5. i >= 2 /\ H!Right(h, i) <= Ints - 2
  <2>1. H!Right(h, 0) <= i
    BY <1>1, <1>4, Apart
  <2>2. H!Right(h, Ints - 2) <= i \/ H!Right(h, i) <= Ints - 2
    BY <1>1, Apart
  <2> QED BY <1>1, <1>3, <1>4, <2>1, <2>2
<1>6. H!Right(h, i) \in B
  BY <1>1, <1>4, <1>5
<1>7. H!Size(h, i) >= 4
  BY DEF HeapOK
<1> QED BY <1>4, <1>5, <1>6, <1>7

\* A block is available or taken.
LEMMA EitherWay ==
  ASSUME NEW h, NEW B, NEW L, NEW o, NEW n, HeapOK(h, B, L, o, n), NEW i \in B
  PROVE  /\ h.array[i] \in Int /\ (i \in L <=> h.array[i] > 0)
         /\ (i \in Taken(h, B) <=> h.array[i] < 0) /\ (i \in L <=> i \notin Taken(h, B))
<1>1. h.array[i] \in Int /\ h.array[i] # 0
  BY BlockIs DEF HeapOK
<1> QED BY <1>1 DEF HeapOK, Taken

\* An available block is one, and its right neighbour is taken.
LEMMA AvailBlock ==
  ASSUME NEW h, NEW B, NEW L, NEW o, NEW n, HeapOK(h, B, L, o, n), NEW i \in L
  PROVE  /\ i \in B /\ i # 0 /\ i # Ints - 2 /\ h.array[i] > 0
         /\ i >= 2 /\ H!Size(h, i) >= 4 /\ H!Right(h, i) \in Taken(h, B)
         /\ i \in Cells /\ i \in Nat /\ H!Size(h, i) \in Nat
         /\ H!Right(h, i) = i + H!Size(h, i) /\ H!Footer(h, i) = i + H!Size(h, i) - 1
<1>1. i \in B /\ h.array[i] > 0
  BY DEF HeapOK
<1>2. i # 0 /\ i # Ints - 2
  BY <1>1 DEF HeapOK
<1>3. H!Right(h, i) \in B
  BY <1>1, <1>2, InnerBlock
<1>4. H!Right(h, i) \in Taken(h, B)
  BY <1>3 DEF HeapOK, Taken
<1> QED BY <1>1, <1>2, <1>4, InnerBlock

\* The ints of a block hold no link of another one.
LEMMA LinksInside ==
  ASSUME NEW h, NEW B, NEW L, NEW o, NEW n, HeapOK(h, B, L, o, n),
         NEW M, M \subseteq L, NEW b \in B, b \notin M, NEW c \in b .. H!Right(h, b) - 1
  PROVE  c \notin LinkCells(M)
<1>1. SUFFICES ASSUME NEW j \in M, c = j + 1 \/ c = j + 2 PROVE FALSE
  BY DEF LinkCells
<1>2. h \in Heaps /\ TilesOK(h, B)
  BY DEF HeapOK
<1>3. j \in B /\ j \in Nat /\ H!Right(h, j) = j + H!Size(h, j) /\ H!Size(h, j) >= 4 /\ H!Size(h, j) \in Nat
  BY AvailBlock
<1>4. b \in Nat /\ H!Right(h, b) \in Nat
  BY <1>2, BlockIs
<1>5. H!Right(h, b) <= j \/ H!Right(h, j) <= b
  BY <1>2, <1>3, Apart
<1> QED BY <1>1, <1>3, <1>4, <1>5

\* Nor do headers and footers.
LEMMA LinksBetween ==
  ASSUME NEW h, NEW B, NEW L, NEW o, NEW n, HeapOK(h, B, L, o, n), NEW b \in B
  PROVE  b \notin LinkCells(L) /\ H!Footer(h, b) \notin LinkCells(L)
<1>1. h \in Heaps /\ TilesOK(h, B)
  BY DEF HeapOK
<1>2. /\ b \in Nat /\ H!Size(h, b) \in Nat /\ H!Size(h, b) >= 2 /\ H!Right(h, b) = b + H!Size(h, b)
      /\ H!Footer(h, b) = b + H!Size(h, b) - 1
  BY <1>1, BlockIs
<1>3. ASSUME NEW j \in L, NEW c \in {b, H!Footer(h, b)}, c = j + 1 \/ c = j + 2 PROVE FALSE
  <2>1. j \in B /\ j \in Nat /\ H!Right(h, j) = j + H!Size(h, j) /\ H!Size(h, j) >= 4 /\ H!Size(h, j) \in Nat
    BY AvailBlock
  <2>2. CASE j = b
    BY <1>2, <1>3, <2>1, <2>2
  <2>3. CASE j # b
    <3>1. H!Right(h, b) <= j \/ H!Right(h, j) <= b
      BY <1>1, <2>1, <2>3, Apart
    <3> QED BY <1>2, <1>3, <2>1, <3>1
  <2> QED BY <2>2, <2>3
<1> QED BY <1>3 DEF LinkCells

\* malloc() takes block i off the list and gives back what it does not need.
LEMMA CarveKeeps ==
  ASSUME NEW h, NEW B, NEW L, NEW o, NEW n, HeapOK(h, B, L, o, n), NEW i \in L,
         NEW ints \in Nat, ints >= 4, ints <= H!Size(h, i),
         NEW q, q = H!Carve(h, i, ints)
  PROVE  \E C, K, p, m :
           /\ HeapOK(q, C, K, p, m) /\ Taken(q, C) = Taken(h, B) \cup {i}
           /\ H!Size(q, i) >= ints /\ \A b \in Taken(h, B) : Same(h, q, b)
<1> DEFINE x == H!Size(h, i) - ints
           k == i + ints
           r == H!Right(h, i)
<1>1. /\ h \in Heaps /\ TilesOK(h, B) /\ LinksOK(h, L, o, n) /\ L \subseteq B
      /\ L = {b \in B : h.array[b] > 0} /\ \A b \in L : h.array[H!Right(h, b)] < 0
      /\ \A b \in B : b = 0 \/ b = Ints - 2 \/ H!Size(h, b) >= 4
      /\ Ints - 2 \in B /\ 0 \in B /\ h.array[0] = 0 - 2 /\ h.array[Ints - 2] = 0 - 2
  BY DEF HeapOK, TilesOK
<1>0. /\ \A b \in B : /\ h.array[b] \in Int /\ (b \in L <=> h.array[b] > 0)
                      /\ (b \in Taken(h, B) <=> h.array[b] < 0)
                      /\ (b \in L <=> b \notin Taken(h, B))
  BY EitherWay
<1>2. /\ i \in B /\ i # 0 /\ i # Ints - 2 /\ h.array[i] > 0 /\ i >= 2 /\ i \in Nat /\ i \in Cells
      /\ H!Size(h, i) \in Nat /\ r \in B /\ h.array[r] < 0 /\ r = i + H!Size(h, i)
      /\ H!Footer(h, i) = r - 1 /\ r \in Nat /\ r # i /\ r <= Ints - 2 /\ Ints \in Nat
  <2>1. /\ i \in B /\ i # 0 /\ i # Ints - 2 /\ h.array[i] > 0 /\ i >= 2 /\ i \in Nat /\ i \in Cells
        /\ H!Size(h, i) \in Nat /\ r \in Taken(h, B) /\ r = i + H!Size(h, i) /\ H!Size(h, i) >= 4
        /\ H!Footer(h, i) = i + H!Size(h, i) - 1
    BY AvailBlock
  <2>2. r <= Ints - 2
    BY <2>1, InnerBlock
  <2>3. r # i /\ r \in Nat /\ H!Footer(h, i) = r - 1
    BY <2>1
  <2> QED BY <2>1, <2>2, <2>3, Lengths DEF Taken
<1> HIDE DEF r
<1>3. PICK u : u = H!Remove(h, i)
  OBVIOUS
<1>4. /\ u \in Heaps /\ LinksOK(u, L \ {i}, o, n)
      /\ \A c \in Cells : c \notin LinkCells(L \ {i}) => u.array[c] = h.array[c]
  BY <1>1, <1>3, RemoveKeeps
<1>5. \A b \in B \ {i} : \A c \in b .. H!Right(h, b) - 1 : c \in Cells /\ (c < i \/ c >= r)
  <2>1. ASSUME NEW b \in B, b # i, NEW c \in b .. H!Right(h, b) - 1
        PROVE  c \in Cells /\ (c < i \/ c >= r)
    <3>1. H!Right(h, b) <= i \/ r <= b
      BY <1>1, <1>2, <2>1, Apart DEF r
    <3>2. b \in Nat /\ H!Right(h, b) <= Ints /\ H!Right(h, b) \in Nat
      BY <1>1, BlockIs
    <3>3. c \in Cells
      BY <3>2, Lengths DEF Cells
    <3> QED BY <1>2, <3>1, <3>2, <3>3
  <2> QED BY <2>1
<1>6. \A b \in B \ {i} : /\ b \in b .. H!Right(h, b) - 1 /\ H!Footer(h, b) \in b .. H!Right(h, b) - 1
  BY <1>1, BlockIs
<1>7. \A c \in i .. r - 1 : c \notin LinkCells(L \ {i}) /\ c \in Cells
  <2>1. \A c \in i .. r - 1 : c \notin LinkCells(L \ {i})
    BY <1>2, LinksInside DEF r
  <2>2. \A c \in i .. r - 1 : c \in Cells
    BY <1>2 DEF Cells
  <2> QED BY <2>1, <2>2
<1>8. CASE x >= 4
  <2>1. PICK v : v = H!MakeTaken(u, i, ints)
    OBVIOUS
  <2>2. q = H!MakeAvail(v, k, x)
    BY <1>3, <1>8, <2>1 DEF H!Carve
  <2>3. /\ x \in Nat /\ k \in Nat /\ k + x = r /\ k - 1 \in i .. r - 1 /\ k \in i .. r - 1
        /\ k + 1 \in i .. r - 1 /\ k + 2 \in i .. r - 1 /\ i \in i .. r - 1 /\ r - 1 \in i .. r - 1
        /\ k - 1 < k /\ k > i + 3 /\ r - 1 > k + 2 /\ k - 1 \in Cells /\ k \in Cells /\ r - 1 \in Cells
    <3>1. /\ x \in Nat /\ k \in Nat /\ k + x = r /\ k - 1 \in i .. r - 1 /\ k \in i .. r - 1
          /\ k + 1 \in i .. r - 1 /\ k + 2 \in i .. r - 1 /\ i \in i .. r - 1 /\ r - 1 \in i .. r - 1
          /\ k - 1 < k /\ k > i + 3 /\ r - 1 > k + 2
      BY <1>2, <1>8
    <3> QED BY <1>7, <3>1
  <2> HIDE DEF x, k
  <2>4. Wrote(v, u, {i, k - 1}, 0 - ints)
    BY <1>2, <1>4, <2>1, <2>3, MakeTakenIs DEF k
  <2>5. v \in Heaps /\ LinksOK(v, L \ {i}, o, n)
    <3>1. \A c \in LinkCells(L \ {i}) : c \in Cells /\ c # i /\ c # k - 1
      <4>1. LinkCells(L \ {i}) \subseteq Cells
        BY <1>4, LinkCellsAre
      <4> QED BY <1>7, <2>3, <4>1
    <3>2. v \in Heaps /\ v.avail = u.avail /\ \A c \in LinkCells(L \ {i}) : v.array[c] = u.array[c]
      BY <2>4, <3>1 DEF Wrote
    <3> QED BY <1>4, <3>2, LinksStay
  <2>6. \A j \in L \ {i} : j + 4 <= k \/ k + x <= j
    <3>1. ASSUME NEW j \in L, j # i PROVE j + 4 <= k \/ k + x <= j
      <4>1. /\ j \in B /\ j \in Nat /\ H!Right(h, j) = j + H!Size(h, j) /\ H!Size(h, j) >= 4
            /\ H!Size(h, j) \in Nat
        BY AvailBlock
      <4>2. H!Right(h, j) <= i \/ r <= j
        BY <1>1, <1>2, <3>1, <4>1, Apart DEF r
      <4> QED BY <1>2, <2>3, <4>1, <4>2
    <3> QED BY <3>1
  <2>7. /\ q \in Heaps /\ q.array[k] = x /\ q.array[r - 1] = x
        /\ LinksOK(q, (L \ {i}) \cup {k}, [o EXCEPT ![k] = n + 1], n + 1)
        /\ \A c \in Cells : c \notin LinkCells((L \ {i}) \cup {k}) /\ c # k /\ c # r - 1 =>
             q.array[c] = v.array[c]
    <3>1. x >= 4 /\ k > 0 /\ k + x <= Ints
      BY <1>2, <1>8, <2>3
    <3>2. Listed(v, q, L \ {i}, o, n, k, x)
      BY <2>2, <2>3, <2>5, <2>6, <3>1, MakeAvailKeeps
    <3>3. k + x - 1 = r - 1
      BY <2>3
    <3> QED BY <3>2, <3>3 DEF Listed
  <2>8. ASSUME NEW c \in Cells, c \notin LinkCells(L \ {i}), c < i \/ c >= r
        PROVE  q.array[c] = h.array[c]
    <3>1. c # i /\ c # k - 1 /\ c # k /\ c # k + 1 /\ c # k + 2 /\ c # r - 1
      BY <1>2, <2>3, <2>8
    <3>2. c \notin LinkCells((L \ {i}) \cup {k})
      BY <2>8, <3>1 DEF LinkCells
    <3> QED BY <1>4, <2>4, <2>7, <2>8, <3>1, <3>2 DEF Wrote
  <2>9. q.array[i] = 0 - ints /\ q.array[k - 1] = 0 - ints
    <3>1. \A c \in {i, k - 1} : c \notin LinkCells((L \ {i}) \cup {k}) /\ c # k /\ c # r - 1
      BY <1>7, <2>3 DEF LinkCells
    <3> QED BY <1>2, <2>3, <2>4, <2>7, <3>1 DEF Wrote
  <2>10. \A b \in B \ {i} : SameEnds(h, q, b)
    <3>1. ASSUME NEW b \in B \ {i} PROVE SameEnds(h, q, b)
      <4>1. b \notin LinkCells(L \ {i}) /\ H!Footer(h, b) \notin LinkCells(L \ {i})
        BY LinksBetween DEF LinkCells
      <4>2. /\ b \in Cells /\ (b < i \/ b >= r)
            /\ H!Footer(h, b) \in Cells /\ (H!Footer(h, b) < i \/ H!Footer(h, b) >= r)
        BY <1>5, <1>6
      <4> QED BY <2>8, <4>1, <4>2 DEF SameEnds
    <3> QED BY <3>1
  <2>11. /\ TilesOK(q, B \cup {k}) /\ k \notin B
         /\ H!Size(q, i) = ints /\ H!Size(q, k) = x /\ H!Right(q, k) = r
         /\ \A b \in B \ {i} : H!Size(q, b) = H!Size(h, b) /\ H!Right(q, b) = H!Right(h, b)
    <3>1. ints >= 2 /\ k = i + ints /\ x \in Nat /\ x >= 2 /\ k + x = H!Right(h, i)
      BY <1>8, <2>3 DEF k, r
    <3>2. Marked(q, i, ints) /\ Marked(q, k, x)
      BY <2>3, <2>7, <2>9, <3>1 DEF Marked, r
    <3>3. h \in Heaps /\ TilesOK(h, B) /\ q \in Heaps
      BY <1>1, <2>7
    <3>4. TilesOK(q, B \cup {k}) /\ k \notin B
      BY <1>2, <2>10, <3>1, <3>2, <3>3, SplitTiles
    <3>5. H!Size(q, i) = ints /\ H!Size(q, k) = x /\ H!Right(q, k) = k + x
      BY <1>2, <2>3, <3>2, <3>3, Sized
    <3> QED BY <2>3, <2>10, <3>4, <3>5, SameHeader DEF SameEnds
  <2>12. HeapOK(q, B \cup {k}, (L \ {i}) \cup {k}, [o EXCEPT ![k] = n + 1], n + 1)
    <3>1. (L \ {i}) \cup {k} = {b \in B \cup {k} : q.array[b] > 0}
      <4>1. q.array[k] > 0 /\ ~(q.array[i] > 0) /\ i # k
        BY <1>8, <2>3, <2>7, <2>9
      <4>2. \A b \in B \ {i} : q.array[b] = h.array[b] /\ (b \in L <=> h.array[b] > 0)
        BY <1>0, <2>10 DEF SameEnds
      <4> QED BY <1>1, <1>2, <4>1, <4>2
    <3>2. ASSUME NEW j \in (L \ {i}) \cup {k} PROVE q.array[H!Right(q, j)] < 0
      <4>1. CASE j = k
        BY <1>2, <2>10, <2>11, <4>1 DEF SameEnds
      <4>2. CASE j # k
        <5>1. H!Right(h, j) \in B /\ h.array[H!Right(h, j)] < 0 /\ j \in B \ {i}
          BY <3>2, <4>2, AvailBlock DEF Taken
        <5>2. H!Right(h, j) # i
          BY <1>0, <1>2, <5>1
        <5> QED BY <2>10, <2>11, <5>1, <5>2 DEF SameEnds
      <4> QED BY <4>1, <4>2
    <3>3. \A b \in B \cup {k} : b = 0 \/ b = Ints - 2 \/ H!Size(q, b) >= 4
      BY <1>1, <1>8, <2>11 DEF x
    <3>4. q.array[0] = 0 - 2 /\ q.array[Ints - 2] = 0 - 2
      BY <1>1, <1>2, <2>10 DEF SameEnds
    <3> QED BY <1>1, <2>7, <2>11, <3>1, <3>2, <3>3, <3>4 DEF HeapOK
  <2>13. Taken(q, B \cup {k}) = Taken(h, B) \cup {i}
    <3>1. q.array[i] < 0 /\ ~(q.array[k] < 0)
      BY <1>8, <2>3, <2>7, <2>9 DEF x
    <3> QED BY <1>0, <1>2, <2>10, <3>1 DEF Taken, SameEnds
  <2>14. ASSUME NEW b \in Taken(h, B) PROVE Same(h, q, b)
    <3>1. b \in B /\ b \notin L /\ b # i
      BY <1>0 DEF Taken
    <3>2. \A c \in b .. H!Right(h, b) - 1 : c \notin LinkCells(L \ {i})
      BY <3>1, LinksInside
    <3> QED BY <1>5, <2>8, <3>1, <3>2 DEF Same
  <2>15. H!Size(q, i) >= ints
    BY <2>11
  <2> QED BY <2>12, <2>13, <2>14, <2>15
<1>9. CASE ~(x >= 4)
  <2>1. PICK m : m = H!Size(h, i)
    OBVIOUS
  <2>2. q = H!MakeTaken(u, i, m)
    BY <1>3, <1>9, <2>1 DEF H!Carve
  <2>3. /\ m \in Nat /\ r - 1 = i + m - 1 /\ m >= 4 /\ r - i = m /\ i < r
        /\ i \in i .. r - 1 /\ r - 1 \in i .. r - 1 /\ r - 1 \in Cells
    BY <1>2, <1>7, <2>1
  <2>4. Wrote(q, u, {i, r - 1}, 0 - m)
    BY <1>2, <1>4, <2>2, <2>3, MakeTakenIs
  <2>5. q \in Heaps /\ LinksOK(q, L \ {i}, o, n)
    <3>1. \A c \in LinkCells(L \ {i}) : c \in Cells /\ c # i /\ c # r - 1
      <4>1. LinkCells(L \ {i}) \subseteq Cells
        BY <1>4, LinkCellsAre
      <4> QED BY <1>7, <2>3, <4>1
    <3>2. q \in Heaps /\ q.avail = u.avail /\ \A c \in LinkCells(L \ {i}) : q.array[c] = u.array[c]
      BY <2>4, <3>1 DEF Wrote
    <3> QED BY <1>4, <3>2, LinksStay
  <2>6. ASSUME NEW c \in Cells, c \notin LinkCells(L \ {i}), c < i \/ c >= r
        PROVE  q.array[c] = h.array[c]
    <3>1. c # i /\ c # r - 1
      BY <1>2, <2>3, <2>6
    <3> QED BY <1>4, <2>4, <2>6, <3>1 DEF Wrote
  <2>7. q.array[i] = 0 - m /\ q.array[r - 1] = 0 - m
    BY <1>2, <2>3, <2>4 DEF Wrote
  <2>8. \A b \in B \ {i} : SameEnds(h, q, b)
    <3>1. ASSUME NEW b \in B \ {i} PROVE SameEnds(h, q, b)
      <4>1. b \notin LinkCells(L \ {i}) /\ H!Footer(h, b) \notin LinkCells(L \ {i})
        BY LinksBetween DEF LinkCells
      <4>2. /\ b \in Cells /\ (b < i \/ b >= r)
            /\ H!Footer(h, b) \in Cells /\ (H!Footer(h, b) < i \/ H!Footer(h, b) >= r)
        BY <1>5, <1>6
      <4> QED BY <2>6, <4>1, <4>2 DEF SameEnds
    <3> QED BY <3>1
  <2>9. /\ TilesOK(q, B) /\ H!Size(q, i) = m
        /\ \A b \in B \ {i} : H!Size(q, b) = H!Size(h, b) /\ H!Right(q, b) = H!Right(h, b)
    <3>1. B = {b \in B : b <= i \/ b >= r}
      <4>1. \A b \in B : b \in Nat
        BY <1>1, BlockIs
      <4>2. ASSUME NEW b \in B PROVE b <= i \/ b >= r
        <5>1. CASE b = i
          BY <1>2, <5>1
        <5>2. CASE b # i
          BY <1>2, <1>5, <1>6, <4>1, <5>2
        <5> QED BY <5>1, <5>2
      <4> QED BY <4>2
    <3>2. r \in B \cup {Ints} /\ m > 0 /\ i + m = r
      BY <1>2, <2>1, <2>3
    <3>3. Marked(q, i, m)
      BY <2>3, <2>7 DEF Marked
    <3>4. h \in Heaps /\ TilesOK(h, B) /\ q \in Heaps
      BY <1>1, <2>5
    <3>5. TilesOK(q, B)
      <4>1. PICK C : C = {b \in B : b <= i \/ b >= r}
        OBVIOUS
      <4>2. \A b \in C \ {i} : SameEnds(h, q, b)
        BY <2>8, <4>1
      <4>3. i \in B /\ m \in Nat
        BY <1>2, <2>3
      <4>4. TilesOK(q, C)
        BY <3>2, <3>3, <3>4, <4>1, <4>2, <4>3, MergeTiles
      <4> QED BY <3>1, <4>1, <4>4
    <3>6. H!Size(q, i) = m
      BY <1>2, <2>3, <3>3, <3>4, Sized
    <3> QED BY <2>8, <3>5, <3>6, SameHeader DEF SameEnds
  <2>10. HeapOK(q, B, L \ {i}, o, n)
    <3>1. L \ {i} = {b \in B : q.array[b] > 0}
      <4>1. ~(q.array[i] > 0)
        BY <2>3, <2>7
      <4> QED BY <1>0, <1>1, <1>2, <2>8, <4>1 DEF SameEnds
    <3>2. ASSUME NEW j \in L \ {i} PROVE q.array[H!Right(q, j)] < 0
      <4>1. H!Right(h, j) \in B /\ h.array[H!Right(h, j)] < 0 /\ j \in B \ {i}
        BY <3>2, AvailBlock DEF Taken
      <4>2. H!Right(h, j) # i
        BY <1>0, <1>2, <4>1
      <4> QED BY <2>8, <2>9, <4>1, <4>2 DEF SameEnds
    <3>3. \A b \in B : b = 0 \/ b = Ints - 2 \/ H!Size(q, b) >= 4
      BY <1>1, <2>3, <2>9
    <3>4. q.array[0] = 0 - 2 /\ q.array[Ints - 2] = 0 - 2
      BY <1>1, <1>2, <2>8 DEF SameEnds
    <3> QED BY <1>1, <2>5, <2>9, <3>1, <3>2, <3>3, <3>4 DEF HeapOK
  <2>11. Taken(q, B) = Taken(h, B) \cup {i}
    <3>1. q.array[i] < 0
      BY <2>3, <2>7
    <3> QED BY <1>0, <1>2, <2>8, <3>1 DEF Taken, SameEnds
  <2>12. ASSUME NEW b \in Taken(h, B) PROVE Same(h, q, b)
    <3>1. b \in B /\ b \notin L /\ b # i
      BY <1>0 DEF Taken
    <3>2. \A c \in b .. H!Right(h, b) - 1 : c \notin LinkCells(L \ {i})
      BY <3>1, LinksInside
    <3> QED BY <1>5, <2>6, <3>1, <3>2 DEF Same
  <2>13. H!Size(q, i) >= ints
    BY <2>1, <2>9
  <2> QED BY <2>10, <2>11, <2>12, <2>13
<1> QED BY <1>8, <1>9

-----------------------------------------------------------------------------
(* free(). *)

\* The block that ends where block i begins.
LEMMA LeftBlock ==
  ASSUME NEW h, NEW B, NEW L, NEW o, NEW n, HeapOK(h, B, L, o, n), NEW i \in B, i # 0
  PROVE  /\ H!Left(h, i) \in B /\ H!Left(h, i) < i /\ H!Right(h, H!Left(h, i)) = i
         /\ \A b \in B : H!Right(h, b) = i => b = H!Left(h, i)
<1>1. h \in Heaps /\ TilesOK(h, B)
  BY DEF HeapOK
<1>2. PICK l \in B : H!Right(h, l) = i
  BY <1>1 DEF TilesOK
<1>3. /\ l \in Nat /\ H!Size(h, l) \in Nat /\ H!Size(h, l) >= 2 /\ i = l + H!Size(h, l)
      /\ h.array[H!Footer(h, l)] = h.array[l] /\ H!Footer(h, l) = i - 1 /\ i \in Nat
  BY <1>1, <1>2, BlockIs
<1>4. H!Size(h, i - 1) = H!Size(h, l)
  BY <1>3 DEF H!Size
<1>5. H!Left(h, i) = l
  BY <1>3, <1>4 DEF H!Left
<1>6. ASSUME NEW b \in B, H!Right(h, b) = i PROVE b = l
  <2>1. b \in Nat /\ H!Size(h, b) \in Nat /\ H!Size(h, b) >= 2 /\ i = b + H!Size(h, b)
    BY <1>1, <1>6, BlockIs
  <2> QED BY <1>1, <1>2, <1>3, <1>6, <2>1, Apart
<1> QED BY <1>2, <1>3, <1>5, <1>6

\* free() makes one block of a block and its available neighbours.
LEMMA JoinKeeps ==
  ASSUME NEW h, NEW B, NEW L, NEW o, NEW n, HeapOK(h, B, L, o, n),
         NEW i \in Taken(h, B), i # 0, i # Ints - 2, NEW q, q = H!Join(h, i)
  PROVE  \E C, K, p, m :
           /\ HeapOK(q, C, K, p, m) /\ Taken(q, C) = Taken(h, B) \ {i}
           /\ \A b \in Taken(h, B) \ {i} : Same(h, q, b)
<1>1. /\ h \in Heaps /\ TilesOK(h, B) /\ LinksOK(h, L, o, n) /\ L \subseteq B
      /\ Ints - 2 \in B /\ 0 \in B /\ h.array[0] = 0 - 2 /\ h.array[Ints - 2] = 0 - 2
      /\ i \in B /\ Ints \in Nat
  BY Lengths DEF HeapOK, TilesOK, Taken
<1>2. /\ \A b \in B : /\ h.array[b] \in Int /\ (b \in L <=> h.array[b] > 0)
                      /\ (b \in Taken(h, B) <=> h.array[b] < 0)
                      /\ (b \in L <=> b \notin Taken(h, B))
                      /\ b \in Nat /\ b \in Cells /\ H!Right(h, b) \in Nat /\ b + 2 <= H!Right(h, b)
                      /\ H!Right(h, b) <= Ints
      /\ \A b, c \in B : b = c \/ H!Right(h, b) <= c \/ H!Right(h, c) <= b
  <2>1. \A b \in B : /\ h.array[b] \in Int /\ (b \in L <=> h.array[b] > 0)
                     /\ (b \in Taken(h, B) <=> h.array[b] < 0)
                     /\ (b \in L <=> b \notin Taken(h, B))
    BY EitherWay
  <2>2. \A b \in B : /\ b \in Nat /\ b \in Cells /\ H!Right(h, b) \in Nat /\ b + 2 <= H!Right(h, b)
                     /\ H!Right(h, b) <= Ints
    BY <1>1, BlockIs
  <2>3. \A b, c \in B : b = c \/ H!Right(h, b) <= c \/ H!Right(h, c) <= b
    BY <1>1, Apart
  <2> QED BY <2>1, <2>2, <2>3
<1> DEFINE l == H!Left(h, i)
           r == H!Right(h, i)
           s == IF h.array[l] > 0 THEN l ELSE i
           e == IF h.array[r] > 0 THEN H!Right(h, r) ELSE r
           D == {j \in {l, r} : h.array[j] > 0}
           x == e - s
<1>4. /\ l \in B /\ l < i /\ H!Right(h, l) = i /\ \A b \in B : H!Right(h, b) = i => b = l
      /\ r \in B /\ i < r /\ i \notin L
  <2>1. l \in B /\ l < i /\ H!Right(h, l) = i /\ \A b \in B : H!Right(h, b) = i => b = l
    BY <1>1, LeftBlock
  <2>2. r \in B /\ i < r
    BY <1>1, <1>2, InnerBlock
  <2> QED BY <1>1, <1>2, <2>1, <2>2
<1>5. r + 2 <= H!Right(h, r) /\ r \in Nat /\ l \in Nat /\ i \in Nat /\ H!Right(h, r) \in Nat
  BY <1>1, <1>2, <1>4
<1>6. h.array[r] > 0 => H!Right(h, r) \in Taken(h, B)
  BY <1>2, <1>4, AvailBlock
<1>7. i + 4 <= r
  <2>1. H!Size(h, i) >= 4 /\ H!Size(h, i) \in Nat /\ r = i + H!Size(h, i)
    BY <1>1, InnerBlock
  <2> QED BY <1>5, <2>1
<1> HIDE DEF l, r
<1>8. /\ s \in B /\ e \in Taken(h, B) /\ e \in B /\ s <= i /\ r <= e /\ s \in Nat /\ e \in Nat
      /\ x \in Nat /\ x >= 4 /\ s + x = e /\ s > 0 /\ e <= Ints - 2 /\ e # i /\ s \notin L \ D
      /\ s \in Cells
  <2>1. s \in B /\ s <= i
    BY <1>1, <1>4, <1>5
  <2>2. e \in Taken(h, B) /\ r <= e
    BY <1>2, <1>4, <1>5, <1>6
  <2>3. e \in B
    BY <2>2 DEF Taken
  <2>4. s \in Nat /\ e \in Nat /\ s \in Cells
    BY <1>2, <2>1, <2>3
  <2>5. s > 0
    BY <1>1, <1>2, <1>4, <1>5, <2>1, <2>4
  <2>6. e <= Ints - 2
    <3>1. H!Right(h, e) <= Ints /\ e + 2 <= H!Right(h, e)
      BY <1>2, <2>3
    <3> QED BY <1>1, <2>4, <3>1, <1>2, <2>3
  <2>7. s \notin L \ D
    BY <1>4
  <2>8. x \in Nat /\ x >= 4 /\ s + x = e /\ e # i
    BY <1>5, <1>7, <2>1, <2>2, <2>4
  <2> QED BY <2>1, <2>2, <2>3, <2>4, <2>5, <2>6, <2>7, <2>8
\* The blocks that become one.
<1>9. ASSUME NEW b \in D \cup {i} PROVE b \in B /\ s <= b /\ H!Right(h, b) <= e
  <2>1. CASE b = i
    BY <1>1, <1>8, <2>1 DEF r
  <2>2. CASE b = l /\ h.array[l] > 0
    BY <1>4, <1>5, <1>7, <1>8, <2>2
  <2>3. CASE b = r /\ h.array[r] > 0
    BY <1>4, <1>5, <1>7, <1>8, <2>3
  <2> QED BY <1>9, <2>1, <2>2, <2>3
\* And the others.
<1>10. ASSUME NEW b \in B, b \notin D \cup {i} PROVE H!Right(h, b) <= s \/ e <= b
  <2>1. H!Right(h, b) <= i \/ r <= b
    BY <1>1, <1>2, <1>10 DEF r
  <2>2. CASE H!Right(h, b) <= i
    <3>1. CASE h.array[l] > 0
      <4>1. b # l
        BY <1>10, <3>1
      <4>2. H!Right(h, b) <= l \/ i <= b
        BY <1>2, <1>4, <4>1
      <4> QED BY <1>2, <1>5, <2>2, <3>1, <4>2
    <3>2. CASE ~(h.array[l] > 0)
      BY <2>2, <3>2
    <3> QED BY <3>1, <3>2
  <2>3. CASE r <= b
    <3>1. CASE h.array[r] > 0
      <4>1. b # r
        BY <1>10, <3>1
      <4>2. H!Right(h, b) <= r \/ H!Right(h, r) <= b
        BY <1>2, <1>4, <4>1
      <4> QED BY <1>2, <1>5, <2>3, <3>1, <4>2
    <3>2. CASE ~(h.array[r] > 0)
      BY <2>3, <3>2
    <3> QED BY <3>1, <3>2
  <2> QED BY <2>1, <2>2, <2>3
<1>11. PICK u : /\ u \in Heaps /\ LinksOK(u, L \ D, o, n) /\ q = H!MakeAvail(u, s, x)
                /\ \A c \in Cells : c \notin LinkCells(L) => u.array[c] = h.array[c]
  <2>1. PICK v : v = IF h.array[l] > 0 THEN H!Remove(h, l) ELSE h
    OBVIOUS
  <2>2. /\ v \in Heaps /\ LinksOK(v, IF h.array[l] > 0 THEN L \ {l} ELSE L, o, n)
        /\ \A c \in Cells : c \notin LinkCells(L) => v.array[c] = h.array[c]
    <3>1. CASE h.array[l] > 0
      <4>1. l \in L /\ v = H!Remove(h, l)
        BY <1>2, <1>4, <2>1, <3>1
      <4>2. /\ v \in Heaps /\ LinksOK(v, L \ {l}, o, n)
            /\ \A c \in Cells : c \notin LinkCells(L \ {l}) => v.array[c] = h.array[c]
        BY <1>1, <4>1, RemoveKeeps
      <4>3. \A c : c \notin LinkCells(L) => c \notin LinkCells(L \ {l})
        BY DEF LinkCells
      <4> QED BY <3>1, <4>2, <4>3
    <3>2. CASE ~(h.array[l] > 0)
      BY <1>1, <2>1, <3>2
    <3> QED BY <3>1, <3>2
  <2>3. PICK u : u = IF h.array[r] > 0 THEN H!Remove(v, r) ELSE v
    OBVIOUS
  <2>4. PICK M : M = IF h.array[l] > 0 THEN L \ {l} ELSE L
    OBVIOUS
  <2>5. /\ u \in Heaps /\ LinksOK(u, IF h.array[r] > 0 THEN M \ {r} ELSE M, o, n)
        /\ \A c \in Cells : c \notin LinkCells(L) => u.array[c] = h.array[c]
    <3>1. CASE h.array[r] > 0
      <4>1. r \in M /\ u = H!Remove(v, r) /\ LinksOK(v, M, o, n)
        BY <1>2, <1>4, <1>5, <2>2, <2>3, <2>4, <3>1
      <4>2. /\ u \in Heaps /\ LinksOK(u, M \ {r}, o, n)
            /\ \A c \in Cells : c \notin LinkCells(M \ {r}) => u.array[c] = v.array[c]
        BY <2>2, <4>1, RemoveKeeps
      <4>3. \A c : c \notin LinkCells(L) => c \notin LinkCells(M \ {r})
        BY <2>4 DEF LinkCells
      <4> QED BY <2>2, <3>1, <4>2, <4>3
    <3>2. CASE ~(h.array[r] > 0)
      BY <2>2, <2>3, <2>4, <3>2
    <3> QED BY <3>1, <3>2
  <2>6. (IF h.array[r] > 0 THEN M \ {r} ELSE M) = L \ D
    BY <2>4
  <2>7. q = H!MakeAvail(u, s, x)
    BY <2>1, <2>3 DEF H!Join, H!IsAvail, l, r
  <2> QED BY <2>5, <2>6, <2>7
<1> HIDE DEF s, e, x, D
<1>12. LET K == (L \ D) \cup {s}
       IN  /\ q \in Heaps /\ q.array[s] = x /\ q.array[s + x - 1] = x
           /\ LinksOK(q, K, [o EXCEPT ![s] = n + 1], n + 1)
           /\ \A c \in Cells : c \notin LinkCells(K) /\ c # s /\ c # s + x - 1 =>
                q.array[c] = u.array[c]
  <2>1. ASSUME NEW j \in L \ D PROVE j + 4 <= s \/ s + x <= j
    <3>1. j \in B /\ j \notin D \cup {i} /\ H!Right(h, j) = j + H!Size(h, j) /\ H!Size(h, j) >= 4
          /\ H!Size(h, j) \in Nat /\ j \in Nat
      BY <1>4, AvailBlock
    <3> QED BY <1>8, <1>10, <3>1
  <2>2. s + x <= Ints
    BY <1>1, <1>8
  <2>3. Listed(u, q, L \ D, o, n, s, x)
    BY <1>8, <1>11, <2>1, <2>2, MakeAvailKeeps
  <2> QED BY <2>3 DEF Listed
<1>13. ASSUME NEW c \in Cells, c \notin LinkCells(L), c < s \/ c >= e PROVE q.array[c] = h.array[c]
  <2>1. c # s /\ c # s + 1 /\ c # s + 2 /\ c # s + x - 1
    BY <1>8, <1>13
  <2>2. c \notin LinkCells((L \ D) \cup {s})
    BY <1>13, <2>1 DEF LinkCells
  <2> QED BY <1>11, <1>12, <1>13, <2>1, <2>2
<1>14. ASSUME NEW b \in B, b \notin D \cup {i}, NEW c \in b .. H!Right(h, b) - 1
       PROVE  c \in Cells /\ (c < s \/ c >= e)
  <2>1. H!Right(h, b) <= s \/ e <= b
    BY <1>10, <1>14
  <2>2. b \in Nat /\ H!Right(h, b) <= Ints /\ H!Right(h, b) \in Nat
    BY <1>2
  <2>3. c \in Cells
    BY <1>1, <2>2 DEF Cells
  <2> QED BY <1>8, <2>1, <2>2, <2>3
<1>15. ASSUME NEW b \in B, b \notin D \cup {i} PROVE SameEnds(h, q, b)
  <2>1. b \in b .. H!Right(h, b) - 1 /\ H!Footer(h, b) \in b .. H!Right(h, b) - 1
    BY <1>1, BlockIs
  <2>2. b \notin LinkCells(L) /\ H!Footer(h, b) \notin LinkCells(L)
    BY LinksBetween
  <2>3. b \in Cells /\ (b < s \/ b >= e)
    BY <1>14, <1>15, <2>1
  <2>4. H!Footer(h, b) \in Cells /\ (H!Footer(h, b) < s \/ H!Footer(h, b) >= e)
    BY <1>14, <1>15, <2>1
  <2> QED BY <1>13, <2>2, <2>3, <2>4 DEF SameEnds
<1>16. PICK C : C = {b \in B : b <= s \/ b >= e}
  OBVIOUS
<1>17. s \in C /\ C \subseteq B /\ \A b \in B : b \in C <=> b = s \/ b \notin D \cup {i}
  <2>1. ASSUME NEW b \in B PROVE b \in C <=> b = s \/ b \notin D \cup {i}
    <3>1. CASE b \in D \cup {i}
      <4>1. s <= b /\ H!Right(h, b) <= e /\ b \in Nat /\ b + 2 <= H!Right(h, b) /\ H!Right(h, b) \in Nat
        BY <1>2, <1>9, <3>1
      <4> QED BY <1>8, <1>16, <3>1, <4>1
    <3>2. CASE b \notin D \cup {i}
      <4>1. H!Right(h, b) <= s \/ e <= b
        BY <1>10, <3>2
      <4>2. b \in Nat /\ b + 2 <= H!Right(h, b) /\ H!Right(h, b) \in Nat
        BY <1>2
      <4> QED BY <1>8, <1>16, <3>2, <4>1, <4>2
    <3> QED BY <3>1, <3>2
  <2> QED BY <1>8, <1>16, <2>1
<1>18. s \in D \cup {i}
  BY DEF s, D
<1>19. \A b \in C \ {s} : b \in B /\ b \notin D \cup {i} /\ SameEnds(h, q, b)
  BY <1>15, <1>17
<1>20. Marked(q, s, x)
  BY <1>12 DEF Marked
<1>21. TilesOK(q, C)
  <2>1. h \in Heaps /\ TilesOK(h, B) /\ s \in B /\ e \in B \cup {Ints} /\ x \in Nat /\ x > 0 /\ s + x = e
        /\ q \in Heaps
    BY <1>1, <1>8, <1>12
  <2> QED BY <1>16, <1>19, <1>20, <2>1, MergeTiles
<1>22. H!Size(q, s) = x /\ H!Right(q, s) = e
  BY <1>8, <1>12, <1>20, Sized
<1>23. \A b \in C \ {s} : /\ H!Size(q, b) = H!Size(h, b) /\ H!Right(q, b) = H!Right(h, b)
                          /\ q.array[b] = h.array[b]
  BY <1>19, SameHeader DEF SameEnds
<1>24. Taken(q, C) = Taken(h, B) \ {i}
  <2>1. ~(q.array[s] < 0)
    BY <1>8, <1>12
  <2>2. \A b \in D : b \notin Taken(h, B) /\ b \in B
    BY <1>2, <1>4 DEF D
  <2>3. s \notin Taken(h, B) \ {i}
    BY <1>18, <2>2
  <2>4. \A b \in C \ {s} : q.array[b] < 0 <=> b \in Taken(h, B)
    BY <1>2, <1>17, <1>23
  <2>5. \A b \in Taken(h, B) \ {i} : b \in C \ {s}
    BY <1>17, <2>2, <2>3 DEF Taken
  <2>6. \A b \in C \ {s} : b # i
    BY <1>19
  <2> QED BY <2>1, <2>3, <2>4, <2>5, <2>6 DEF Taken
<1>25. HeapOK(q, C, (L \ D) \cup {s}, [o EXCEPT ![s] = n + 1], n + 1)
  <2>1. (L \ D) \cup {s} = {b \in C : q.array[b] > 0}
    <3>1. q.array[s] > 0
      BY <1>8, <1>12
    <3>2. \A b \in C \ {s} : q.array[b] > 0 <=> b \in L \ D
      BY <1>2, <1>17, <1>19, <1>23
    <3>3. \A b \in L \ D : b \in C
      BY <1>1, <1>4, <1>17
    <3> QED BY <1>17, <3>1, <3>2, <3>3
  <2>2. ASSUME NEW j \in (L \ D) \cup {s} PROVE q.array[H!Right(q, j)] < 0
    <3>1. \A b \in Taken(h, B) \ {i} : q.array[b] < 0
      BY <1>24 DEF Taken
    <3>2. CASE j = s
      BY <1>8, <1>22, <3>1, <3>2
    <3>3. CASE j # s
      <4>1. j \in L /\ j \in B /\ j \notin D \cup {i} /\ H!Right(h, j) \in Taken(h, B)
        BY <1>4, <2>2, <3>3, AvailBlock
      <4>2. j \in C \ {s}
        BY <1>17, <3>3, <4>1
      <4>3. H!Right(h, j) # i
        BY <1>2, <1>4, <4>1 DEF D
      <4> QED BY <1>23, <3>1, <4>1, <4>2, <4>3
    <3> QED BY <3>2, <3>3
  <2>3. ASSUME NEW b \in C PROVE b = 0 \/ b = Ints - 2 \/ H!Size(q, b) >= 4
    BY <1>8, <1>17, <1>22, <1>23 DEF HeapOK
  <2>4. Ints - 2 \in C /\ q.array[0] = 0 - 2 /\ q.array[Ints - 2] = 0 - 2
    <3>1. 0 \in Taken(h, B) \ {i} /\ Ints - 2 \in Taken(h, B) \ {i}
      BY <1>1 DEF Taken
    <3>2. 0 \in C /\ Ints - 2 \in C
      BY <1>24, <3>1 DEF Taken
    <3>3. s # 0 /\ s # Ints - 2
      BY <1>8
    <3> QED BY <1>1, <1>23, <3>2, <3>3
  <2> QED BY <1>12, <1>21, <2>1, <2>2, <2>3, <2>4 DEF HeapOK
<1>26. ASSUME NEW b \in Taken(h, B) \ {i} PROVE Same(h, q, b)
  <2>1. b \in B /\ b \notin L /\ b \notin D \cup {i}
    BY <1>2, <1>4 DEF Taken, D
  <2>2. \A c \in b .. H!Right(h, b) - 1 : c \notin LinkCells(L)
    BY <2>1, LinksInside
  <2> QED BY <1>13, <1>14, <2>1, <2>2 DEF Same
<1> QED BY <1>24, <1>25, <1>26

-----------------------------------------------------------------------------
(* What Blocks and FreeList find in a good heap. *)

\* A walk over the blocks finds all of them.
LEMMA BlocksAre ==
  ASSUME NEW B, heap \in Heaps, TilesOK(heap, B)
  PROVE  H!Blocks = B
<1> DEFINE N == Ints \div 2
           next(x) == IF x < Ints THEN H!Right(heap, x) ELSE x
           good == [k \in 0 .. N |-> {x \in B \cup {Ints} : x = Ints \/ x >= 2 * k}]
           step == [k \in 1 .. N |-> [x \in B \cup {Ints} |-> next(x)]]
           g == CHOOSE w : w = [k \in 0 .. N |-> IF k = 0 THEN 0 ELSE next(w[k - 1])]
<1>1. /\ Ints \in Nat /\ N \in Nat /\ Ints <= 2 * N + 1 /\ B \subseteq Cells /\ 0 \in B
      /\ \A x \in B : x \in Nat /\ x < Ints /\ next(x) \in B \cup {Ints} /\ next(x) >= x + 2
                      /\ next(x) = H!Right(heap, x) /\ next(x) \in Nat
      /\ next(Ints) = Ints
  <2>1. /\ Ints \in Nat /\ N \in Nat /\ Ints <= 2 * N + 1 /\ B \subseteq Cells /\ 0 \in B
        /\ \A x \in B : x \in Nat /\ x < Ints
    BY Lengths DEF TilesOK, Cells
  <2>2. ASSUME NEW x \in B
        PROVE  /\ next(x) \in B \cup {Ints} /\ next(x) >= x + 2 /\ next(x) = H!Right(heap, x)
               /\ next(x) \in Nat
    <3>1. /\ H!Right(heap, x) = x + H!Size(heap, x) /\ H!Size(heap, x) >= 2
          /\ H!Size(heap, x) \in Nat /\ H!Right(heap, x) \in B \cup {Ints}
      BY BlockIs
    <3> QED BY <2>1, <3>1
  <2>3. next(Ints) = Ints
    BY <2>1
  <2> HIDE DEF next
  <2> QED BY <2>1, <2>2, <2>3
<1>2. good \in Goals(N, B \cup {Ints})
  BY DEF Goals
<1>3. 0 \in good[0]
  BY <1>1
<1>4. ASSUME NEW k \in 1 .. N, NEW x \in good[k - 1]
      PROVE  x \in B \cup {Ints} /\ next(x) \in good[k]
  <2> HIDE DEF next
  <2>1. k - 1 \in 0 .. N /\ k \in 0 .. N /\ k \in Int
    BY <1>1
  <2>2. x \in B \cup {Ints} /\ (x = Ints \/ x >= 2 * (k - 1))
    BY <2>1
  <2>3. next(x) \in B \cup {Ints} /\ (next(x) = Ints \/ next(x) >= 2 * k)
    <3>1. CASE x = Ints
      BY <1>1, <3>1
    <3>2. CASE x # Ints
      <4>1. x \in B /\ x \in Nat /\ x >= 2 * (k - 1) /\ next(x) >= x + 2
            /\ next(x) \in B \cup {Ints} /\ next(x) \in Nat
        BY <1>1, <2>2, <3>2
      <4>2. next(x) >= 2 * k
        BY <2>1, <4>1
      <4> QED BY <4>1, <4>2
    <3> QED BY <3>1, <3>2
  <2> QED BY <2>1, <2>2, <2>3
<1>5. \A k \in 1 .. N : \A x \in B \cup {Ints} : step[k][x] = next(x)
  OBVIOUS
<1>6. Keeps(N, good, step)
  <2> HIDE DEF good, step, next
  <2> QED BY <1>4, <1>5 DEF Keeps
<1> HIDE DEF step, good, next, N
<1>7. PICK f \in Traces(N, B \cup {Ints}) : Runs(N, f, 0, step)
  BY <1>1, <1>2, <1>3, <1>6, Rounds
<1>8. f = [k \in 0 .. N |-> IF k = 0 THEN 0 ELSE next(f[k - 1])]
  <2>1. \A k \in 0 .. N : f[k] = IF k = 0 THEN 0 ELSE next(f[k - 1])
    <3>1. \A k \in 0 .. N : k = 0 \/ (k \in 1 .. N /\ f[k - 1] \in B \cup {Ints})
      BY <1>1, <1>7 DEF Traces
    <3> QED BY <1>5, <1>7, <3>1 DEF Runs
  <2> QED BY <1>7, <2>1 DEF Traces
<1>9. g = [k \in 0 .. N |-> IF k = 0 THEN 0 ELSE next(g[k - 1])]
  BY <1>8
<1>10. H!Blocks = {g[k] : k \in 0 .. N} \cap 0 .. Ints - 1
  BY DEF H!Blocks, next, N
<1> HIDE DEF g
<1>11. \A k \in 0 .. N : g[k] \in good[k]
  <2> DEFINE kept == {k \in 0 .. N : g[k] \in good[k]}
  <2>1. 0 \in kept
    BY <1>1, <1>3, <1>9
  <2>2. ASSUME NEW k \in 1 .. N, k - 1 \in kept PROVE k \in kept
    <3>1. k \in 0 .. N /\ k # 0
      BY <1>1
    <3> QED BY <1>4, <1>9, <2>2, <3>1
  <2> HIDE DEF kept
  <2>3. \A k \in 0 .. N : k \in kept
    BY <1>1, <2>1, <2>2, Induction
  <2> QED BY <2>3 DEF kept
<1>12. \A k \in 0 .. N : g[k] \in B \cup {Ints} /\ (g[k] = Ints \/ g[k] >= 2 * k)
  BY <1>11 DEF good
<1>13. H!Blocks \subseteq B
  BY <1>1, <1>10, <1>12
<1> DEFINE Missed == B \ H!Blocks
<1>14. ASSUME Missed # {} PROVE FALSE
  <2>1. PICK b \in Missed : \A y \in Missed : ~(y < b)
    <3>1. Missed \subseteq Nat
      BY <1>1
    <3> HIDE DEF Missed
    <3> QED BY <1>14, <3>1, SmallestExists
  <2>2. b # 0
    <3>1. g[0] = 0 /\ 0 \in 0 .. N /\ 0 \in 0 .. Ints - 1
      BY <1>1, <1>3, <1>9, Lengths DEF Cells
    <3>2. 0 \in H!Blocks
      BY <1>10, <3>1
    <3> QED BY <2>1, <3>2
  <2>3. PICK l \in B : H!Right(heap, l) = b
    BY <2>1, <2>2 DEF TilesOK
  <2>a. l \in Nat /\ l < Ints /\ next(l) = b /\ b >= l + 2 /\ b \in Nat /\ b < Ints /\ b \in B
    BY <1>1, <2>1, <2>3
  <2>4. l \in H!Blocks
    <3>1. l < b
      BY <2>a
    <3> QED BY <2>1, <2>3, <3>1
  <2>5. PICK k \in 0 .. N : g[k] = l
    BY <1>10, <2>4
  <2>6. k + 1 \in 0 .. N /\ k + 1 # 0 /\ (k + 1) - 1 = k
    <3>1. k \in Nat /\ l >= 2 * k
      BY <1>1, <1>12, <2>5, <2>a
    <3> QED BY <1>1, <2>a, <3>1
  <2>7. g[k + 1] = b
    BY <1>9, <2>a, <2>5, <2>6
  <2> QED BY <1>1, <1>10, <2>1, <2>a, <2>6, <2>7
<1> QED BY <1>13, <1>14

\* What FreeList is: its first place, and how it goes on.
ListRuns(g, N) ==
  /\ g \in [1 .. N -> Nat] /\ (N >= 1 => g[1] = heap.avail)
  /\ \A k \in 2 .. N : g[k] = IF g[k - 1] \in 1 .. Ints - 1 THEN H!NextOf(heap, g[k - 1]) ELSE 0

LEMMA FreeListRuns ==
  ASSUME NEW L, NEW o, NEW n, heap \in Heaps, LinksOK(heap, L, o, n)
  PROVE  ListRuns(H!FreeList, Ints \div 2)
<1> DEFINE N == Ints \div 2
           V == L \cup {0}
           next(x) == IF x \in 1 .. Ints - 1 THEN H!NextOf(heap, x) ELSE 0
           good == [k \in 0 .. N - 1 |-> V]
           step == [k \in 1 .. N - 1 |-> [x \in V |-> next(x)]]
           g == CHOOSE w : w = [k \in 1 .. N |-> IF k = 1 THEN heap.avail ELSE next(w[k - 1])]
<1>1. Ints \in Nat /\ N \in Nat /\ N >= 1 /\ N - 1 \in Nat
  BY Lengths
<1>2. \A x \in V : x \in Nat /\ next(x) \in V
  BY DEF LinksOK, Cells
<1>3. heap.avail \in V
  BY DEF LinksOK
<1>4. \A k \in 1 .. N - 1 : \A x \in V : step[k][x] = next(x)
  OBVIOUS
<1>5. good \in Goals(N - 1, V) /\ heap.avail \in good[0] /\ Keeps(N - 1, good, step)
  <2>1. good \in Goals(N - 1, V)
    BY DEF Goals
  <2>2. \A k \in 0 .. N - 1 : good[k] = V
    OBVIOUS
  <2>3. 0 \in 0 .. N - 1 /\ \A k \in 1 .. N - 1 : k \in 0 .. N - 1 /\ k - 1 \in 0 .. N - 1
    BY <1>1
  <2> HIDE DEF good, step, next, V, N
  <2> QED BY <1>2, <1>3, <1>4, <2>1, <2>2, <2>3 DEF Keeps
<1> HIDE DEF step, good, next, N, V
<1>6. PICK f \in Traces(N - 1, V) : Runs(N - 1, f, heap.avail, step)
  BY <1>1, <1>5, Rounds
<1> DEFINE w == [k \in 1 .. N |-> f[k - 1]]
<1>7. w = [k \in 1 .. N |-> IF k = 1 THEN heap.avail ELSE next(w[k - 1])]
  <2>1. ASSUME NEW k \in 1 .. N
        PROVE  f[k - 1] = IF k = 1 THEN heap.avail ELSE next(w[k - 1])
    <3>1. CASE k = 1
      BY <1>6, <3>1 DEF Runs
    <3>2. CASE k # 1
      <4>1. /\ k - 1 \in 1 .. N - 1 /\ k - 1 \in 1 .. N /\ (k - 1) - 1 \in 0 .. N - 1
        BY <1>1, <3>2
      <4>2. f[k - 1] = step[k - 1][f[(k - 1) - 1]] /\ f[(k - 1) - 1] \in V
        BY <1>6, <4>1 DEF Runs, Traces
      <4>3. w[k - 1] = f[(k - 1) - 1]
        BY <4>1
      <4> QED BY <1>4, <3>2, <4>1, <4>2, <4>3
    <3> QED BY <3>1, <3>2
  <2> QED BY <2>1
<1> HIDE DEF w
<1>8. g = [k \in 1 .. N |-> IF k = 1 THEN heap.avail ELSE next(g[k - 1])]
  BY <1>7
<1>9. H!FreeList = g
  BY DEF H!FreeList, next, N
<1> HIDE DEF g
<1>10. \A k \in 1 .. N : g[k] = IF k = 1 THEN heap.avail ELSE next(g[k - 1])
  BY <1>8
<1>11. \A k \in 1 .. N : g[k] \in V
  <2> DEFINE kept == {k \in 0 .. N : k # 0 => g[k] \in V}
  <2>1. 0 \in kept
    BY <1>1
  <2>2. ASSUME NEW k \in 1 .. N, k - 1 \in kept PROVE k \in kept
    <3>1. k \in 0 .. N /\ (k # 1 => k - 1 # 0)
      BY <1>1
    <3> QED BY <1>2, <1>3, <1>10, <2>2, <3>1
  <2> HIDE DEF kept
  <2>3. \A k \in 0 .. N : k \in kept
    BY <1>1, <2>1, <2>2, Induction
  <2> QED BY <2>3 DEF kept
<1>12. ListRuns(g, N)
  <2>1. g \in [1 .. N -> Nat] /\ g[1] = heap.avail
    BY <1>1, <1>2, <1>8, <1>10, <1>11
  <2>2. \A k \in 2 .. N : k \in 1 .. N /\ k # 1
    BY <1>1
  <2>3. \A k \in 2 .. N : g[k] = next(g[k - 1])
    BY <1>10, <2>2
  <2> QED BY <2>1, <2>3 DEF ListRuns, next
<1> QED BY <1>9, <1>12 DEF N

\* The list is the blocks L: its links pass all of them, and end.
LEMMA FreeListIs ==
  ASSUME NEW L, NEW o, NEW n, heap \in Heaps, LinksOK(heap, L, o, n)
  PROVE  /\ DOMAIN H!FreeList = 1 .. Ints \div 2
         /\ {H!FreeList[k] : k \in DOMAIN H!FreeList} \ {0} = L
         /\ \A k \in DOMAIN H!FreeList : H!FreeList[k] # 0 =>
              H!PrevOf(heap, H!FreeList[k]) = (IF k = 1 THEN 0 ELSE H!FreeList[k - 1])
<1>n. PICK N : N = Ints \div 2
  OBVIOUS
<1>g. PICK g : g = H!FreeList
  OBVIOUS
<1>1. /\ Ints \in Nat /\ N \in Nat /\ N >= 4 /\ Ints <= 2 * N + 1 /\ 2 * N <= Ints
      /\ ListRuns(g, N)
  <2>1. ListRuns(g, N)
    BY <1>n, <1>g, FreeListRuns
  <2> QED BY <1>n, <2>1, Lengths
<1>2. /\ g \in [1 .. N -> Nat] /\ g[1] = heap.avail
      /\ \A k \in 2 .. N : g[k] = IF g[k - 1] \in 1 .. Ints - 1 THEN H!NextOf(heap, g[k - 1]) ELSE 0
  BY <1>1 DEF ListRuns
<1>3. /\ \A i \in L : i \in Nat /\ i \in 1 .. Ints - 1 /\ i + 3 <= Ints - 1 /\ o[i] \in Nat
      /\ \A i, j \in L : i < j => i + 4 <= j
      /\ 0 \notin L /\ n \in Nat /\ \A i \in L : o[i] <= n
  BY <1>1 DEF LinksOK, Cells
<1> DEFINE In(k) == g[k] # 0 => /\ g[k] \in L
                                /\ H!PrevOf(heap, g[k]) = IF k = 1 THEN 0 ELSE g[k - 1]
                                /\ \A j \in 1 .. k - 1 : g[j] \in L /\ o[g[k]] < o[g[j]]
           kept == {k \in 0 .. N : k # 0 => In(k)}
<1>4. \A k \in 1 .. N : In(k)
  <2>1. 0 \in kept
    BY <1>1
  <2>2. ASSUME NEW k \in 1 .. N, k - 1 \in kept PROVE k \in kept
    <3>1. CASE k = 1
      <4>1. In(1)
        BY <1>2 DEF LinksOK
      <4> QED BY <1>1, <3>1, <4>1
    <3>2. CASE k # 1
      <4>1. k - 1 \in 1 .. N /\ k \in 2 .. N /\ k \in 0 .. N /\ k - 1 # 0 /\ k # 0
        BY <1>1, <3>2
      <4>2. In(k - 1) /\ g[k] = IF g[k - 1] \in 1 .. Ints - 1 THEN H!NextOf(heap, g[k - 1]) ELSE 0
        BY <1>2, <2>2, <4>1
      <4>3. ASSUME g[k] # 0 PROVE In(k)
        <5>1. g[k - 1] # 0 /\ g[k - 1] \in L /\ g[k] = H!NextOf(heap, g[k - 1])
          BY <4>2, <4>3, <1>1
        <5>2. /\ g[k] \in L /\ o[g[k]] < o[g[k - 1]] /\ H!PrevOf(heap, g[k]) = g[k - 1]
          BY <4>3, <5>1 DEF LinksOK
        <5>3. \A j \in 1 .. k - 1 : j = k - 1 \/ j \in 1 .. (k - 1) - 1
          BY <4>1
        <5>4. ASSUME NEW j \in 1 .. k - 1 PROVE g[j] \in L /\ o[g[k]] < o[g[j]]
          <6>1. CASE j = k - 1
            BY <5>1, <5>2, <6>1
          <6>2. CASE j # k - 1
            <7>1. g[j] \in L /\ o[g[k - 1]] < o[g[j]]
              BY <4>2, <5>1, <5>3, <6>2
            <7>2. o[g[j]] \in Nat /\ o[g[k]] \in Nat /\ o[g[k - 1]] \in Nat
              BY <1>3, <5>1, <5>2, <7>1
            <7> QED BY <5>2, <7>1, <7>2
          <6> QED BY <6>1, <6>2
        <5> QED BY <3>2, <5>2, <5>4
      <4> QED BY <4>1, <4>3
    <3> QED BY <3>1, <3>2
  <2> HIDE DEF kept
  <2>3. \A k \in 0 .. N : k \in kept
    BY <1>1, <2>1, <2>2, Induction
  <2>4. \A k \in 1 .. N : k \in 0 .. N /\ k # 0
    BY <1>1
  <2> HIDE DEF In
  <2> QED BY <2>3, <2>4 DEF kept
\* It ends: its blocks are four ints apart.
<1>5. g[N] = 0
  <2>1. SUFFICES ASSUME g[N] # 0 PROVE FALSE
    OBVIOUS
  <2>2. N \in 1 .. N /\ \A j \in 1 .. N : j = N \/ j \in 1 .. N - 1
    BY <1>1
  <2>3. \A j \in 1 .. N : g[j] \in L /\ g[j] # 0
    BY <1>3, <1>4, <2>1, <2>2
  <2> DEFINE f == [j \in 1 .. N |-> g[j] \div 2]
             S == 1 .. N
             T == 0 .. N - 2
  <2>4. f \in [S -> T]
    <3>1. ASSUME NEW j \in 1 .. N PROVE g[j] \div 2 \in 0 .. N - 2
      <4>1. g[j] \in L
        BY <2>3
      <4>2. g[j] \in Nat /\ g[j] + 4 <= Ints /\ g[j] > 0
        BY <1>1, <1>3, <4>1
      <4> QED BY <1>1, <4>2
    <3> QED BY <3>1
  <2>5. IsFiniteSet(S) /\ IsFiniteSet(T) /\ Cardinality(T) < Cardinality(S)
    BY <1>1, FS_Interval
  <2> HIDE DEF S, T, f
  <2>6. PICK j, k \in S : j # k /\ f[j] = f[k]
    BY <2>4, <2>5, FS_PigeonHole
  <2>7. j \in 1 .. N /\ k \in 1 .. N /\ g[j] \div 2 = g[k] \div 2
    BY <2>6 DEF S, f
  <2>8. ASSUME NEW a \in 1 .. N, NEW b \in 1 .. N, a < b PROVE g[a] \div 2 # g[b] \div 2
    <3>1. a \in 1 .. b - 1 /\ g[a] \in L /\ g[b] \in L /\ g[b] # 0
      BY <2>3, <2>8
    <3>2. o[g[b]] < o[g[a]] /\ o[g[b]] \in Nat
      BY <1>3, <1>4, <3>1
    <3>3. g[a] # g[b]
      BY <3>2
    <3>4. g[a] + 4 <= g[b] \/ g[b] + 4 <= g[a]
      BY <1>3, <3>1, <3>3
    <3>5. g[a] \in Nat /\ g[b] \in Nat
      BY <1>3, <3>1
    <3> QED BY <3>4, <3>5
  <2> QED BY <2>6, <2>7, <2>8
<1>6. \A k \in 1 .. N : g[k] # 0 => g[k] \in L
  BY <1>4
\* And none is missed: the one with the highest order of those would be next.
<1> DEFINE Missed == {i \in L : \A k \in 1 .. N : g[k] # i}
           T == {n - o[i] : i \in Missed}
<1>7. ASSUME Missed # {} PROVE FALSE
  <2>1. T \subseteq Nat /\ T # {}
    BY <1>3, <1>7
  <2>2. PICK x \in T : \A y \in T : ~(y < x)
    <3> HIDE DEF T
    <3> QED BY <2>1, SmallestExists
  <2>3. PICK i \in Missed : x = n - o[i]
    OBVIOUS
  <2>4. i \in L /\ o[i] \in Nat
    BY <1>3
  <2>5. CASE H!PrevOf(heap, i) = 0
    <3>1. g[1] = i /\ 1 \in 1 .. N
      BY <1>1, <1>2, <2>4, <2>5 DEF LinksOK
    <3> QED BY <3>1
  <2>6. CASE H!PrevOf(heap, i) # 0
    <3>1. PICK p \in L : p = H!PrevOf(heap, i) /\ H!NextOf(heap, p) = i
      BY <2>4, <2>6 DEF LinksOK
    <3>2. o[i] < o[p] /\ o[p] \in Nat /\ o[p] <= n
      BY <1>3, <2>4, <3>1 DEF LinksOK
    <3>3. p \notin Missed
      <4>1. n - o[p] < x
        BY <1>3, <2>3, <2>4, <3>2
      <4> QED BY <2>2, <4>1
    <3>4. PICK k \in 1 .. N : g[k] = p
      BY <3>1, <3>3
    <3>5. k # N /\ k + 1 \in 2 .. N /\ k + 1 \in 1 .. N /\ (k + 1) - 1 = k
      BY <1>1, <1>3, <1>5, <3>4
    <3>6. g[k + 1] = i
      BY <1>2, <1>3, <3>1, <3>4, <3>5
    <3> QED BY <3>5, <3>6
  <2> QED BY <2>5, <2>6
<1>8. {g[k] : k \in 1 .. N} \ {0} = L
  BY <1>3, <1>6, <1>7
<1>9. \A k \in 1 .. N : g[k] # 0 => H!PrevOf(heap, g[k]) = (IF k = 1 THEN 0 ELSE g[k - 1])
  BY <1>4
<1>10. DOMAIN g = 1 .. N
  BY <1>2
<1> QED BY <1>n, <1>g, <1>8, <1>9, <1>10

-----------------------------------------------------------------------------
(* What malloc() picks, and what users write. *)

LEMMA MinIs ==
  ASSUME NEW S, S \subseteq Nat, S # {}
  PROVE  H!Min(S) \in S
<1>1. PICK x \in S : \A y \in S : ~(y < x)
  BY SmallestExists
<1>2. \A y \in S : x <= y
  BY <1>1
<1> QED BY <1>2 DEF H!Min

\* malloc() finds an available block with room, if it finds one.
LEMMA FitIs ==
  ASSUME NEW L, NEW o, NEW n, heap \in Heaps, LinksOK(heap, L, o, n),
         NEW ints, NEW c, c = H!Candidates(ints), c # {}
  PROVE  H!Fit(c) \in L /\ H!Size(heap, H!Fit(c)) >= ints
<1>l. PICK list : list = H!FreeList
  OBVIOUS
<1>1. /\ DOMAIN list = 1 .. Ints \div 2 /\ DOMAIN list \subseteq Nat
      /\ {list[k] : k \in DOMAIN list} \ {0} = L
      /\ \A i \in L : i \in Cells /\ H!Size(heap, i) \in Nat
  <2>1. \A i \in L : i \in Cells /\ H!Size(heap, i) \in Nat
    BY SizeType DEF LinksOK
  <2>2. 1 .. Ints \div 2 \subseteq Nat
    BY Lengths
  <2>3. DOMAIN list = 1 .. Ints \div 2 /\ {list[k] : k \in DOMAIN list} \ {0} = L
    BY <1>l, FreeListIs
  <2> QED BY <2>1, <2>2, <2>3
<1>2. \A k \in c : k \in DOMAIN list /\ list[k] # 0 /\ H!Size(heap, list[k]) >= ints
  BY <1>l DEF H!Candidates
<1>3. \A k \in c : k \in Nat /\ list[k] \in L /\ H!Size(heap, list[k]) \in Nat
  BY <1>1, <1>2
<1>4. ASSUME NEW k \in c, H!Fit(c) = list[k]
      PROVE  H!Fit(c) \in L /\ H!Size(heap, H!Fit(c)) >= ints
  BY <1>2, <1>3, <1>4
<1>5. H!Min(c) \in c
  BY <1>3, MinIs
<1> DEFINE sizes == {H!Size(heap, list[k]) : k \in c}
           best == {k \in c : H!Size(heap, list[k]) = H!Min(sizes)}
<1>6. H!Min(sizes) \in sizes
  <2>1. sizes \subseteq Nat /\ sizes # {}
    BY <1>3
  <2> HIDE DEF sizes
  <2> QED BY <2>1, MinIs
<1>7. H!Min(best) \in best
  <2>1. best \subseteq Nat /\ best # {}
    <3>1. PICK k \in c : H!Size(heap, list[k]) = H!Min(sizes)
      BY <1>6
    <3> HIDE DEF sizes
    <3> QED BY <1>3, <3>1
  <2> HIDE DEF best
  <2> QED BY <2>1, MinIs
<1>8. H!Fit(c) = list[H!Min(best)] \/ H!Fit(c) = list[H!Min(c)]
  BY <1>l DEF H!Fit, H!BestFit, H!FirstFit
<1>9. H!Min(best) \in c
  BY <1>7
<1> QED BY <1>4, <1>5, <1>8, <1>9

\* The sizes that requests need.
LEMMA SizesOfRequests ==
  ASSUME NEW bytes \in Requests
  PROVE  /\ H!InInts(bytes) \in Nat /\ H!IntsFor(bytes) \in Nat /\ H!IntsFor(bytes) >= 4
         /\ H!InInts(bytes) + 2 <= H!IntsFor(bytes) /\ bytes <= 4 * H!InInts(bytes)
<1>1. bytes \in Nat
  BY HeapsAssumed DEF H!HeapAssumption
<1> DEFINE need == (bytes + 3) \div 4
<1>2. need \in Nat /\ bytes <= 4 * need
  BY <1>1
<1> HIDE DEF need
<1>3. H!InInts(bytes) = need
  BY DEF H!InInts, need
<1>4. H!IntsFor(bytes) = H!Max({need + 2, 4})
  BY DEF H!IntsFor, need
<1>5. H!Max({need + 2, 4}) = IF need + 2 >= 4 THEN need + 2 ELSE 4
  BY <1>2 DEF H!Max
<1> QED BY <1>2, <1>3, <1>4, <1>5

\* Heap q differs from heap h in what is between the ends of block i.
WrittenIn(h, q, i) ==
  /\ q \in Heaps /\ q.avail = h.avail
  /\ \A c \in Cells : c \notin i + 1 .. H!Right(h, i) - 2 => q.array[c] = h.array[c]

\* What the user of a block writes into it disturbs nothing.
LEMMA WrittenInKeeps ==
  ASSUME NEW h, NEW B, NEW L, NEW o, NEW n, HeapOK(h, B, L, o, n),
         NEW i \in Taken(h, B), NEW q, WrittenIn(h, q, i)
  PROVE  /\ HeapOK(q, B, L, o, n) /\ Taken(q, B) = Taken(h, B)
         /\ \A b \in B : H!Size(q, b) = H!Size(h, b)
         /\ \A b \in Taken(h, B) \ {i} : Same(h, q, b)
<1>1. h \in Heaps /\ TilesOK(h, B) /\ LinksOK(h, L, o, n) /\ q \in Heaps /\ i \in B /\ L \subseteq B
  BY DEF HeapOK, Taken, WrittenIn
<1>2. i \notin L /\ i \in Cells /\ i \in Nat /\ H!Right(h, i) \in Nat /\ H!Right(h, i) <= Ints
  BY <1>1, EitherWay, BlockIs
<1>3. ASSUME NEW b \in B
      PROVE  /\ b \in Cells /\ H!Footer(h, b) \in Cells /\ H!Right(h, b) \in Nat
             /\ b \notin i + 1 .. H!Right(h, i) - 2
             /\ H!Footer(h, b) \notin i + 1 .. H!Right(h, i) - 2
             /\ (b # i => \A c \in b .. H!Right(h, b) - 1 :
                   c \in Cells /\ c \notin i + 1 .. H!Right(h, i) - 2)
  <2>1. /\ b \in Cells /\ b \in Nat /\ H!Size(h, b) \in Nat /\ H!Size(h, b) >= 2
        /\ H!Right(h, b) = b + H!Size(h, b) /\ H!Footer(h, b) = b + H!Size(h, b) - 1
        /\ H!Footer(h, b) \in Cells /\ H!Right(h, b) <= Ints /\ H!Right(h, b) \in Nat
    BY <1>1, BlockIs
  <2>2. CASE b = i
    BY <1>2, <2>1, <2>2
  <2>3. CASE b # i
    <3>1. H!Right(h, i) <= b \/ H!Right(h, b) <= i
      BY <1>1, <2>3, Apart
    <3> QED BY <1>2, <2>1, <3>1, Lengths DEF Cells
  <2> QED BY <2>2, <2>3
<1>4. \A b \in B : SameEnds(h, q, b)
  BY <1>3 DEF SameEnds, WrittenIn
<1>5. \A b \in B : q.array[b] = h.array[b]
  BY <1>4 DEF SameEnds
<1>6. TilesOK(q, B)
  BY <1>1, <1>4, TilesStay
<1>7. LinksOK(q, L, o, n)
  <2>1. LinkCells(L) \subseteq Cells
    BY <1>1, LinkCellsAre
  <2>2. \A c \in i .. H!Right(h, i) - 1 : c \notin LinkCells(L)
    BY <1>1, <1>2, LinksInside
  <2>3. \A c \in LinkCells(L) : q.array[c] = h.array[c]
    <3>1. \A c \in i + 1 .. H!Right(h, i) - 2 : c \in i .. H!Right(h, i) - 1
      BY <1>2
    <3> QED BY <2>1, <2>2, <3>1 DEF WrittenIn
  <2> QED BY <1>1, <2>3, LinksStay DEF WrittenIn
<1>8. \A b \in B : H!Size(q, b) = H!Size(h, b) /\ H!Right(q, b) = H!Right(h, b)
  BY <1>5, SameHeader
<1>9. HeapOK(q, B, L, o, n)
  <2>1. L = {b \in B : q.array[b] > 0}
    BY <1>5 DEF HeapOK
  <2>2. \A b \in L : H!Right(h, b) \in B
    BY AvailBlock DEF Taken
  <2>3. \A b \in L : q.array[H!Right(q, b)] < 0
    BY <1>1, <1>5, <1>8, <2>2 DEF HeapOK
  <2>4. 0 \in B
    BY <1>1 DEF TilesOK
  <2> QED BY <1>1, <1>5, <1>6, <1>7, <1>8, <2>1, <2>3, <2>4 DEF HeapOK
<1>10. \A b \in Taken(h, B) \ {i} : Same(h, q, b)
  BY <1>3 DEF Same, WrittenIn, Taken
<1>11. Taken(q, B) = Taken(h, B)
  BY <1>5 DEF Taken
<1> QED BY <1>8, <1>9, <1>10, <1>11

\* What the user of a block writes.
LEMMA FillIs ==
  ASSUME NEW h \in Heaps, NEW i \in Cells, NEW bytes \in Requests, NEW filled \in Nat,
         H!InInts(bytes) + 2 <= H!Size(h, i), NEW q, q = H!Fill(h, i, filled, bytes)
  PROVE  /\ WrittenIn(h, q, i)
         /\ \A c \in Cells : q.array[c] = IF c \in i + filled + 1 .. i + H!InInts(bytes)
                                          THEN UserData ELSE h.array[c]
<1> DEFINE array == [j \in Cells |-> IF j \in i + filled + 1 .. i + H!InInts(bytes)
                                     THEN UserData ELSE h.array[j]]
<1>1. /\ H!InInts(bytes) \in Nat /\ UserData \in Int /\ i \in Nat /\ H!Size(h, i) \in Nat
      /\ H!Right(h, i) = i + H!Size(h, i) /\ DOMAIN h.array = Cells
  BY SizesOfRequests, SizeType, Lengths DEF Heaps
<1>2. q = [h EXCEPT !.array = array]
  BY <1>1 DEF H!Fill
<1>3. array \in [Cells -> Int]
  BY <1>1 DEF Heaps
<1>4. \A c \in Cells : array[c] = IF c \in i + filled + 1 .. i + H!InInts(bytes)
                                  THEN UserData ELSE h.array[c]
  OBVIOUS
<1> HIDE DEF array
<1>5. q \in Heaps /\ q.avail = h.avail /\ q.array = array
  BY <1>2, <1>3 DEF Heaps
<1>6. \A c \in Cells : c \notin i + 1 .. H!Right(h, i) - 2 =>
                         c \notin i + filled + 1 .. i + H!InInts(bytes)
  BY <1>1 DEF Cells
<1> QED BY <1>4, <1>5, <1>6 DEF WrittenIn

\* What realloc() copies, at most the size of the old block.
LEMMA CopiedIs ==
  ASSUME NEW h \in Heaps, NEW from \in Cells, NEW to \in Cells, NEW bytes \in Requests,
         H!Right(h, from) <= Ints - 2, H!InInts(bytes) + 2 <= H!Size(h, to),
         NEW q, q = H!Copied(h, from, to, bytes)
  PROVE  /\ WrittenIn(h, q, to)
         /\ \A j \in 1 .. H!InInts(bytes) :
              j <= H!Size(h, from) /\ to + j \in Cells => q.array[to + j] = h.array[from + j]
<1>m. PICK m : m = H!Min({H!InInts(bytes), H!Size(h, from)})
  OBVIOUS
<1>1. /\ H!InInts(bytes) \in Nat /\ to \in Nat /\ from \in Nat /\ Ints \in Nat
      /\ H!Size(h, to) \in Nat /\ H!Size(h, from) \in Nat
      /\ H!Right(h, to) = to + H!Size(h, to) /\ H!Right(h, from) = from + H!Size(h, from)
      /\ DOMAIN h.array = Cells /\ h.array \in [Cells -> Int]
  BY SizesOfRequests, SizeType, Lengths DEF Heaps
<1>2. /\ m = IF H!InInts(bytes) <= H!Size(h, from) THEN H!InInts(bytes) ELSE H!Size(h, from)
      /\ m \in Nat /\ m <= H!InInts(bytes) /\ m <= H!Size(h, from)
  BY <1>m, <1>1 DEF H!Min
<1> DEFINE array == [j \in Cells |-> IF j - to \in 1 .. m THEN h.array[from + j - to] ELSE h.array[j]]
<1>3. q = [h EXCEPT !.array = array]
  BY <1>m, <1>1 DEF H!Copied
<1>4. array \in [Cells -> Int]
  <2>1. ASSUME NEW j \in Cells, j - to \in 1 .. m PROVE from + j - to \in Cells
    <3>1. j \in Int /\ j - to >= 1 /\ j - to <= m
      BY <1>1, <1>2, <2>1 DEF Cells
    <3>2. from + j - to >= 0 /\ from + j - to <= Ints - 1 /\ from + j - to \in Int
      BY <1>1, <1>2, <3>1
    <3> QED BY <1>1, <3>2 DEF Cells
  <2> QED BY <1>1, <2>1
<1>5. \A c \in Cells : array[c] = IF c - to \in 1 .. m THEN h.array[from + c - to] ELSE h.array[c]
  OBVIOUS
<1> HIDE DEF array
<1>6. q \in Heaps /\ q.avail = h.avail /\ q.array = array
  BY <1>3, <1>4 DEF Heaps
<1>7. ASSUME NEW c \in Cells, c - to \in 1 .. m PROVE c \in to + 1 .. H!Right(h, to) - 2
  <2>1. c \in Int /\ c >= to + 1 /\ c <= to + m
    <3>1. c \in Int /\ to \in Int /\ m \in Int /\ c - to >= 1 /\ c - to <= m
      BY <1>1, <1>2, <1>7 DEF Cells
    <3> QED BY <3>1
  <2> QED BY <1>1, <1>2, <2>1
<1>8. ASSUME NEW j \in 1 .. H!InInts(bytes), j <= H!Size(h, from), to + j \in Cells
      PROVE  q.array[to + j] = h.array[from + j]
  <2>1. (to + j) - to = j /\ from + (to + j) - to = from + j /\ j \in 1 .. m
    BY <1>1, <1>2, <1>8
  <2> QED BY <1>5, <1>6, <1>8, <2>1
<1> QED BY <1>5, <1>6, <1>7, <1>8 DEF WrittenIn

\* The blocks V of users are the taken ones but for the two at the ends.
Handed(taken, V) ==
  /\ {b.at : b \in V} \cup {0, Ints - 2} = taken
  /\ \A b \in V : b.at # 0 /\ b.at # Ints - 2
  /\ \A b, c \in V : b.at = c.at => b = c

LEMMA HandedMore ==
  ASSUME NEW T, NEW V, Handed(T, V), NEW x, x.at \notin T
  PROVE  Handed(T \cup {x.at}, V \cup {x})
<1>1. {b.at : b \in V \cup {x}} = {b.at : b \in V} \cup {x.at}
  OBVIOUS
<1>2. \A b \in V : b.at \in T
  BY DEF Handed
<1>3. x.at # 0 /\ x.at # Ints - 2
  BY DEF Handed
<1>4. \A b \in V : b.at # x.at
  BY <1>2
<1> QED BY <1>1, <1>3, <1>4 DEF Handed

LEMMA HandedLess ==
  ASSUME NEW T, NEW V, Handed(T, V), NEW x \in V
  PROVE  Handed(T \ {x.at}, V \ {x})
<1>1. \A b \in V : b.at = x.at => b = x
  BY DEF Handed
<1>2. {b.at : b \in V \ {x}} = {b.at : b \in V} \ {x.at}
  BY <1>1
<1>3. x.at # 0 /\ x.at # Ints - 2
  BY DEF Handed
<1> QED BY <1>2, <1>3 DEF Handed

\* Block b has room, and the data of its user.
HasData(h, b) ==
  /\ b.bytes \in Requests /\ H!InInts(b.bytes) + 2 <= H!Size(h, b.at)
  /\ \A j \in 1 .. H!InInts(b.bytes) : h.array[b.at + j] = UserData

LEMMA DataStays ==
  ASSUME NEW h, NEW B, NEW L, NEW o, NEW n, HeapOK(h, B, L, o, n), NEW b, b.at \in B,
         HasData(h, b), NEW q, Same(h, q, b.at)
  PROVE  HasData(q, b)
<1>1. /\ b.at \in Nat /\ H!Size(h, b.at) \in Nat /\ H!Size(h, b.at) >= 2
      /\ H!Right(h, b.at) = b.at + H!Size(h, b.at) /\ H!InInts(b.bytes) \in Nat
  BY BlockIs, SizesOfRequests DEF HeapOK, HasData
<1>2. q.array[b.at] = h.array[b.at]
  BY <1>1 DEF Same
<1>3. H!Size(q, b.at) = H!Size(h, b.at)
  BY <1>2, SameHeader
<1>4. ASSUME NEW j \in 1 .. H!InInts(b.bytes) PROVE q.array[b.at + j] = UserData
  <2>1. b.at + j \in b.at .. H!Right(h, b.at) - 1
    BY <1>1 DEF HasData
  <2> QED BY <2>1 DEF Same, HasData
<1> QED BY <1>3, <1>4 DEF HasData

\* Blocks that stay the same twice.
LEMMA SameTwice ==
  ASSUME NEW h, NEW B, NEW L, NEW o, NEW n, HeapOK(h, B, L, o, n), NEW b \in B,
         NEW q, NEW r, Same(h, q, b), Same(q, r, b)
  PROVE  Same(h, r, b)
<1>1. b \in Nat /\ H!Right(h, b) \in Nat /\ b < H!Right(h, b)
  BY BlockIs DEF HeapOK
<1>2. q.array[b] = h.array[b]
  BY <1>1 DEF Same
<1>3. H!Right(q, b) = H!Right(h, b)
  BY <1>2, SameHeader
<1> QED BY <1>3 DEF Same

-----------------------------------------------------------------------------
(* The steps of the heap. *)

\* The invariant: the blocks, the list, and what users have.
InvOn(h, B, L, o, n, V) ==
  HeapOK(h, B, L, o, n) /\ Handed(Taken(h, B), V) /\ \A b \in V : HasData(h, b)
HeapInv == \E B, L, o, n : InvOn(heap, B, L, o, n, live)

LEMMA MallocStep ==
  ASSUME HeapInv, NEW bytes \in Requests, H!Malloc(bytes)
  PROVE  HeapInv'
<1>1. PICK B, L, o, n : InvOn(heap, B, L, o, n, live)
  BY DEF HeapInv
<1>2. HeapOK(heap, B, L, o, n) /\ heap \in Heaps /\ LinksOK(heap, L, o, n)
  BY <1>1 DEF InvOn, HeapOK
<1>c. PICK c : c = H!Candidates(H!IntsFor(bytes))
  OBVIOUS
<1>i. PICK i : i = H!Fit(c)
  OBVIOUS
<1>h. PICK h : h = H!Carve(heap, i, H!IntsFor(bytes))
  OBVIOUS
<1>q. PICK q : q = H!Fill(h, i, 0, bytes)
  OBVIOUS
<1>3. c # {} /\ heap' = q /\ live' = live \cup {[at |-> i, bytes |-> bytes]}
  BY <1>c, <1>i, <1>h, <1>q DEF H!Malloc
<1>4. /\ H!IntsFor(bytes) \in Nat /\ H!IntsFor(bytes) >= 4 /\ H!InInts(bytes) \in Nat
      /\ H!InInts(bytes) + 2 <= H!IntsFor(bytes)
  BY SizesOfRequests
<1>5. i \in L /\ H!Size(heap, i) >= H!IntsFor(bytes)
  BY <1>2, <1>c, <1>i, <1>3, FitIs
<1>6. /\ i \in B /\ i # 0 /\ i # Ints - 2 /\ i \notin Taken(heap, B) /\ i \in Cells /\ i \in Nat
      /\ H!Size(heap, i) \in Nat
  BY <1>2, <1>5, AvailBlock, EitherWay
<1>7. PICK C, K, p, m : /\ HeapOK(h, C, K, p, m) /\ Taken(h, C) = Taken(heap, B) \cup {i}
                        /\ H!Size(h, i) >= H!IntsFor(bytes)
                        /\ \A b \in Taken(heap, B) : Same(heap, h, b)
  <2>1. H!IntsFor(bytes) <= H!Size(heap, i)
    BY <1>4, <1>5, <1>6
  <2> QED BY <1>2, <1>4, <1>5, <1>h, <2>1, CarveKeeps
<1>8. h \in Heaps /\ i \in C /\ H!Size(h, i) \in Nat /\ H!InInts(bytes) + 2 <= H!Size(h, i)
  <2>1. h \in Heaps /\ i \in C
    BY <1>7 DEF HeapOK, Taken
  <2> QED BY <1>4, <1>6, <1>7, <2>1, SizeType
<1>9. /\ WrittenIn(h, q, i)
      /\ \A x \in Cells : q.array[x] = IF x \in i + 0 + 1 .. i + H!InInts(bytes)
                                       THEN UserData ELSE h.array[x]
  BY <1>6, <1>8, <1>q, FillIs
<1>10. /\ HeapOK(q, C, K, p, m) /\ Taken(q, C) = Taken(heap, B) \cup {i}
       /\ H!Size(q, i) = H!Size(h, i)
       /\ \A b \in Taken(heap, B) : Same(h, q, b)
  BY <1>6, <1>7, <1>8, <1>9, WrittenInKeeps
<1>11. \A b \in Taken(heap, B) : Same(heap, q, b)
  <2>1. \A b \in Taken(heap, B) : b \in B
    BY DEF Taken
  <2> QED BY <1>2, <1>7, <1>10, <2>1, SameTwice
<1>12. \A b \in live : HasData(q, b)
  <2>1. \A b \in live : b.at \in Taken(heap, B) /\ b.at \in B /\ HasData(heap, b)
    BY <1>1 DEF InvOn, Handed, Taken
  <2> QED BY <1>2, <1>11, <2>1, DataStays
<1>13. HasData(q, [at |-> i, bytes |-> bytes])
  <2>1. ASSUME NEW j \in 1 .. H!InInts(bytes) PROVE q.array[i + j] = UserData
    <3>1. i + j \in i + 0 + 1 .. i + H!InInts(bytes)
      BY <1>4, <1>6
    <3>2. i + j \in Cells
      <4>1. H!Right(h, i) <= Ints /\ H!Right(h, i) = i + H!Size(h, i)
        BY <1>7, <1>8, BlockIs DEF HeapOK
      <4> QED BY <1>4, <1>6, <1>8, <4>1, Lengths DEF Cells
    <3> QED BY <1>9, <3>1, <3>2
  <2> QED BY <1>8, <1>10, <2>1 DEF HasData
<1>14. Handed(Taken(q, C), live')
  <2> DEFINE x == [at |-> i, bytes |-> bytes]
  <2>1. x.at = i
    OBVIOUS
  <2>2. Handed(Taken(heap, B), live) /\ x.at \notin Taken(heap, B)
    BY <1>1, <1>6, <2>1 DEF InvOn
  <2>3. live' = live \cup {x} /\ Taken(q, C) = Taken(heap, B) \cup {x.at}
    BY <1>3, <1>10, <2>1
  <2> HIDE DEF x
  <2> QED BY <2>2, <2>3, HandedMore
<1>15. InvOn(q, C, K, p, m, live')
  BY <1>3, <1>10, <1>12, <1>13, <1>14 DEF InvOn
<1> QED BY <1>3, <1>15 DEF HeapInv

\* What remains when a block is given back.
LEMMA JoinStep ==
  ASSUME HeapInv, NEW block \in live, heap' = H!Join(heap, block.at), live' = live \ {block}
  PROVE  HeapInv'
<1>1. PICK B, L, o, n : InvOn(heap, B, L, o, n, live)
  BY DEF HeapInv
<1>2. HeapOK(heap, B, L, o, n) /\ \A b \in live : b.at \in Taken(heap, B) /\ b.at \in B
  BY <1>1 DEF InvOn, Handed, Taken
<1>3. PICK i : i = block.at
  OBVIOUS
<1>4. i \in Taken(heap, B) /\ i # 0 /\ i # Ints - 2
  BY <1>1, <1>3 DEF InvOn, Handed
<1>5. PICK C, K, p, m : /\ HeapOK(heap', C, K, p, m) /\ Taken(heap', C) = Taken(heap, B) \ {i}
                        /\ \A b \in Taken(heap, B) \ {i} : Same(heap, heap', b)
  BY <1>2, <1>3, <1>4, JoinKeeps
<1>6. \A b \in live' : b \in live /\ b.at # i
  BY <1>1, <1>3 DEF InvOn, Handed
<1>7. \A b \in live' : HasData(heap', b)
  <2>1. \A b \in live' : HasData(heap, b) /\ b.at \in B /\ Same(heap, heap', b.at)
    BY <1>1, <1>2, <1>5, <1>6 DEF InvOn
  <2> QED BY <1>2, <2>1, DataStays
<1>8. Handed(Taken(heap', C), live')
  BY <1>1, <1>3, <1>5, HandedLess DEF InvOn
<1>9. InvOn(heap', C, K, p, m, live')
  BY <1>5, <1>7, <1>8 DEF InvOn
<1> QED BY <1>9 DEF HeapInv

LEMMA ReallocStep ==
  ASSUME HeapInv, NEW block \in live, NEW bytes \in Requests, H!Realloc(block, bytes)
  PROVE  HeapInv'
<1>1. PICK B, L, o, n : InvOn(heap, B, L, o, n, live)
  BY DEF HeapInv
<1>2. HeapOK(heap, B, L, o, n) /\ heap \in Heaps /\ LinksOK(heap, L, o, n)
  BY <1>1 DEF InvOn, HeapOK
<1>c. PICK c : c = H!Candidates(H!IntsFor(bytes))
  OBVIOUS
<1>i. PICK i : i = H!Fit(c)
  OBVIOUS
<1>a. PICK a : a = block.at
  OBVIOUS
<1>f. PICK filled : filled = H!InInts(block.bytes)
  OBVIOUS
<1>h. PICK h : h = H!Carve(heap, i, H!IntsFor(bytes))
  OBVIOUS
<1>u. PICK u : u = H!Copied(h, a, i, bytes)
  OBVIOUS
<1>v. PICK v : v = H!Join(u, a)
  OBVIOUS
<1>q. PICK q : q = H!Fill(v, i, filled, bytes)
  OBVIOUS
<1>3. c # {} /\ heap' = q /\ live' = (live \ {block}) \cup {[at |-> i, bytes |-> bytes]}
  BY <1>c, <1>i, <1>a, <1>f, <1>h, <1>u, <1>v, <1>q DEF H!Realloc
<1>4. /\ H!IntsFor(bytes) \in Nat /\ H!IntsFor(bytes) >= 4 /\ H!InInts(bytes) \in Nat
      /\ H!InInts(bytes) + 2 <= H!IntsFor(bytes)
  BY SizesOfRequests
<1>5. i \in L /\ H!Size(heap, i) >= H!IntsFor(bytes)
  BY <1>2, <1>c, <1>i, <1>3, FitIs
<1>6. /\ i \in B /\ i # 0 /\ i # Ints - 2 /\ i \notin Taken(heap, B) /\ i \in Cells /\ i \in Nat
      /\ H!Size(heap, i) \in Nat
  BY <1>2, <1>5, AvailBlock, EitherWay
\* The block that is given back.
<1>b. /\ a \in Taken(heap, B) /\ a # 0 /\ a # Ints - 2 /\ a \in B /\ a # i
      /\ filled \in Nat /\ block.bytes \in Requests
      /\ filled + 2 <= H!Size(heap, a)
      /\ \A j \in 1 .. filled : heap.array[a + j] = UserData
  <2>1. HasData(heap, block) /\ a \in Taken(heap, B) /\ a # 0 /\ a # Ints - 2
    BY <1>1, <1>a DEF InvOn, Handed
  <2>2. a \in B /\ a # i
    BY <1>6, <2>1 DEF Taken
  <2> QED BY <1>a, <1>f, <2>1, <2>2, SizesOfRequests DEF HasData
\* The new block is taken.
<1>7. PICK C, K, p, m : /\ HeapOK(h, C, K, p, m) /\ Taken(h, C) = Taken(heap, B) \cup {i}
                        /\ H!Size(h, i) >= H!IntsFor(bytes)
                        /\ \A b \in Taken(heap, B) : Same(heap, h, b)
  <2>1. H!IntsFor(bytes) <= H!Size(heap, i)
    BY <1>4, <1>5, <1>6
  <2> QED BY <1>2, <1>4, <1>5, <1>h, <2>1, CarveKeeps
<1>8. /\ h \in Heaps /\ i \in C /\ H!Size(h, i) \in Nat /\ H!InInts(bytes) + 2 <= H!Size(h, i)
      /\ i \in Taken(h, C) /\ a \in Taken(h, C) /\ a \in C
  <2>1. h \in Heaps /\ i \in C /\ a \in C /\ i \in Taken(h, C) /\ a \in Taken(h, C)
    BY <1>7, <1>b DEF HeapOK, Taken
  <2> QED BY <1>4, <1>6, <1>7, <2>1, SizeType
<1>9. /\ a \in Cells /\ a \in Nat /\ H!Right(h, a) <= Ints - 2 /\ H!Size(h, a) = H!Size(heap, a)
      /\ H!Size(h, a) \in Nat /\ H!Size(heap, a) \in Nat /\ h.array[a] = heap.array[a]
      /\ \A j \in 1 .. filled : h.array[a + j] = UserData
  <2>1. /\ a \in Nat /\ H!Size(heap, a) \in Nat /\ H!Right(heap, a) = a + H!Size(heap, a)
        /\ a \in Cells
    BY <1>2, <1>b, BlockIs DEF HeapOK
  <2>2. /\ a \in a .. H!Right(heap, a) - 1
        /\ \A j \in 1 .. filled : a + j \in a .. H!Right(heap, a) - 1
    BY <1>b, <2>1
  <2>3. h.array[a] = heap.array[a] /\ \A j \in 1 .. filled : h.array[a + j] = UserData
    BY <1>7, <1>b, <2>2 DEF Same
  <2>4. H!Size(h, a) = H!Size(heap, a)
    BY <2>3, SameHeader
  <2>5. H!Right(h, a) <= Ints - 2
    BY <1>7, <1>8, <1>b, InnerBlock
  <2> QED BY <2>1, <2>3, <2>4, <2>5
\* The data is copied.
<1>10. /\ WrittenIn(h, u, i)
       /\ \A j \in 1 .. H!InInts(bytes) :
            j <= H!Size(h, a) /\ i + j \in Cells => u.array[i + j] = h.array[a + j]
  BY <1>6, <1>8, <1>9, <1>u, CopiedIs
<1>11. /\ HeapOK(u, C, K, p, m) /\ Taken(u, C) = Taken(h, C)
       /\ H!Size(u, i) = H!Size(h, i)
       /\ \A b \in Taken(h, C) \ {i} : Same(h, u, b)
  BY <1>7, <1>8, <1>10, WrittenInKeeps
\* The old block is given back.
<1>12. PICK D, M, r, t : /\ HeapOK(v, D, M, r, t) /\ Taken(v, D) = Taken(u, C) \ {a}
                         /\ \A b \in Taken(u, C) \ {a} : Same(u, v, b)
  BY <1>8, <1>11, <1>b, <1>v, JoinKeeps
<1>13. /\ v \in Heaps /\ i \in D /\ i \in Taken(v, D) /\ Same(u, v, i)
       /\ H!Size(u, i) \in Nat /\ H!Right(u, i) = i + H!Size(u, i) /\ H!Right(u, i) <= Ints
  <2>1. v \in Heaps /\ i \in D /\ i \in Taken(v, D) /\ Same(u, v, i)
    BY <1>8, <1>11, <1>12, <1>b DEF HeapOK, Taken
  <2> QED BY <1>8, <1>11, <2>1, BlockIs DEF HeapOK
<1>14. H!Size(v, i) = H!Size(u, i) /\ H!InInts(bytes) + 2 <= H!Size(v, i)
  <2>1. i \in i .. H!Right(u, i) - 1
    BY <1>4, <1>6, <1>8, <1>11, <1>13
  <2>2. v.array[i] = u.array[i]
    BY <1>13, <2>1 DEF Same
  <2> QED BY <1>8, <1>11, <2>2, SameHeader
\* The user fills what is new.
<1>15. /\ WrittenIn(v, q, i)
       /\ \A x \in Cells : q.array[x] = IF x \in i + filled + 1 .. i + H!InInts(bytes)
                                        THEN UserData ELSE v.array[x]
  BY <1>6, <1>13, <1>14, <1>b, <1>q, FillIs
<1>16. /\ HeapOK(q, D, M, r, t) /\ Taken(q, D) = Taken(v, D)
       /\ H!Size(q, i) = H!Size(v, i)
       /\ \A b \in Taken(v, D) \ {i} : Same(v, q, b)
  BY <1>12, <1>13, <1>15, WrittenInKeeps
<1>17. ASSUME NEW b \in Taken(heap, B), b # a PROVE Same(heap, q, b)
  <2>1. b \in B /\ b # i /\ b \in C /\ b \in D /\ b \in Taken(h, C) \ {i} /\ b \in Taken(u, C) \ {a}
        /\ b \in Taken(v, D) \ {i}
    BY <1>6, <1>7, <1>11, <1>12, <1>17 DEF Taken
  <2>2. Same(heap, h, b) /\ Same(h, u, b) /\ Same(u, v, b) /\ Same(v, q, b)
    BY <1>7, <1>11, <1>12, <1>16, <2>1
  <2>3. Same(heap, u, b)
    BY <1>2, <2>1, <2>2, SameTwice
  <2>4. Same(heap, v, b)
    BY <1>2, <2>1, <2>2, <2>3, SameTwice
  <2> QED BY <1>2, <2>1, <2>2, <2>4, SameTwice
<1>18. \A b \in live \ {block} : b.at \in Taken(heap, B) /\ b.at \in B /\ b.at # a /\ HasData(heap, b)
  BY <1>1, <1>a DEF InvOn, Handed, Taken
<1>19. \A b \in live \ {block} : HasData(q, b)
  BY <1>2, <1>17, <1>18, DataStays
<1>20. HasData(q, [at |-> i, bytes |-> bytes])
  <2>1. ASSUME NEW j \in 1 .. H!InInts(bytes) PROVE q.array[i + j] = UserData
    <3>1. j \in Nat /\ j >= 1 /\ i + j \in Cells /\ i + j \in i .. H!Right(u, i) - 1
      BY <1>4, <1>6, <1>13, <1>14, Lengths DEF Cells
    <3>2. CASE j > filled
      <4>1. i + j \in i + filled + 1 .. i + H!InInts(bytes)
        BY <1>4, <1>6, <1>b, <3>1, <3>2
      <4> QED BY <1>15, <3>1, <4>1
    <3>3. CASE ~(j > filled)
      <4>1. j \in 1 .. filled /\ j <= H!Size(h, a)
        BY <1>9, <1>b, <3>1, <3>3
      <4>2. u.array[i + j] = UserData
        BY <1>9, <1>10, <3>1, <4>1
      <4>3. v.array[i + j] = UserData
        BY <1>13, <3>1, <4>2 DEF Same
      <4> QED BY <1>15, <3>1, <4>3
    <3> QED BY <3>2, <3>3
  <2> QED BY <1>14, <1>16, <2>1 DEF HasData
<1>21. Handed(Taken(q, D), live')
  <2> DEFINE x == [at |-> i, bytes |-> bytes]
  <2>1. x.at = i
    OBVIOUS
  <2>2. Handed(Taken(heap, B) \ {a}, live \ {block})
    BY <1>1, <1>a, HandedLess DEF InvOn
  <2>3. x.at \notin Taken(heap, B) \ {a}
    BY <1>6, <2>1
  <2>4. /\ live' = (live \ {block}) \cup {x}
        /\ Taken(q, D) = (Taken(heap, B) \ {a}) \cup {x.at}
    BY <1>3, <1>7, <1>11, <1>12, <1>16, <1>b, <2>1
  <2> HIDE DEF x
  <2> QED BY <2>2, <2>3, <2>4, HandedMore
<1>22. InvOn(q, D, M, r, t, live')
  BY <1>3, <1>16, <1>19, <1>20, <1>21 DEF InvOn
<1> QED BY <1>3, <1>22 DEF HeapInv

\* At first there is one block, between the two at the ends.
LEMMA HeapInit == H!Init => HeapInv
<1> SUFFICES ASSUME H!Init PROVE HeapInv
  OBVIOUS
<1>r. PICK raw : raw = [array |-> [c \in Cells |-> 0], avail |-> 0]
  OBVIOUS
<1>h. PICK h : h = H!MakeTaken(raw, 0, 2)
  OBVIOUS
<1>u. PICK u : u = H!MakeAvail(h, 2, Ints - 4)
  OBVIOUS
<1>q. PICK q : q = H!MakeTaken(u, Ints - 2, 2)
  OBVIOUS
<1>o. PICK o : o = [c \in Cells |-> 0]
  OBVIOUS
<1>p. PICK p : p = [o EXCEPT ![2] = 0 + 1]
  OBVIOUS
<1>1. heap = q /\ live = {}
  BY <1>r, <1>h, <1>u, <1>q DEF H!Init, Cells
<1>2. /\ Ints \in Nat /\ Ints >= 8 /\ Ints - 4 \in Nat /\ Ints - 2 \in Nat
      /\ 0 \in Cells /\ 1 \in Cells /\ 2 \in Cells /\ 3 \in Cells /\ Ints - 2 \in Cells /\ Ints - 1 \in Cells
      /\ Ints - 3 \in Cells
  BY Lengths DEF Cells
<1>3. raw \in Heaps /\ raw.avail = 0
  BY <1>r DEF Heaps
<1>4. Wrote(h, raw, {0, 1}, 0 - 2)
  <2>1. 1 = 0 + 2 - 1
    OBVIOUS
  <2> QED BY <1>2, <1>3, <1>h, <2>1, MakeTakenIs
<1>5. h \in Heaps /\ h.avail = 0 /\ h.array[0] = 0 - 2 /\ h.array[1] = 0 - 2
  BY <1>2, <1>3, <1>4 DEF Wrote
<1>6. LinksOK(h, {}, o, 0)
  BY <1>5, <1>o DEF LinksOK
<1>7. Listed(h, u, {}, o, 0, 2, Ints - 4)
  <2>1. Ints - 4 >= 4 /\ 2 + (Ints - 4) <= Ints
    BY <1>2
  <2> QED BY <1>2, <1>5, <1>6, <1>u, <2>1, MakeAvailKeeps
<1>8. /\ u \in Heaps /\ u.array[2] = Ints - 4 /\ u.array[Ints - 3] = Ints - 4
      /\ LinksOK(u, {2}, p, 1) /\ u.array[0] = 0 - 2 /\ u.array[1] = 0 - 2
  <2>1. /\ {} \cup {2} = {2} /\ 2 + (Ints - 4) - 1 = Ints - 3 /\ 0 + 1 = 1
        /\ LinkCells({2}) = {3, 4}
    BY <1>2 DEF LinkCells
  <2> QED BY <1>2, <1>5, <1>7, <1>p, <2>1 DEF Listed
<1>9. Wrote(q, u, {Ints - 2, Ints - 1}, 0 - 2)
  <2>1. Ints - 1 = Ints - 2 + 2 - 1 /\ 2 \in Nat
    BY <1>2
  <2> QED BY <1>2, <1>8, <1>q, <2>1, MakeTakenIs
<1>10. /\ q \in Heaps /\ q.avail = u.avail
       /\ q.array[0] = 0 - 2 /\ q.array[1] = 0 - 2
       /\ q.array[2] = Ints - 4 /\ q.array[Ints - 3] = Ints - 4
       /\ q.array[Ints - 2] = 0 - 2 /\ q.array[Ints - 1] = 0 - 2
  BY <1>2, <1>8, <1>9 DEF Wrote
<1>11. LinksOK(q, {2}, p, 1)
  <2>1. \A c \in LinkCells({2}) : q.array[c] = u.array[c]
    BY <1>2, <1>9 DEF LinkCells, Wrote, Cells
  <2> QED BY <1>8, <1>10, <2>1, LinksStay
<1> DEFINE B == {0, 2, Ints - 2}
<1>12. /\ H!Size(q, 0) = 2 /\ H!Size(q, 2) = Ints - 4 /\ H!Size(q, Ints - 2) = 2
       /\ H!Right(q, 0) = 2 /\ H!Right(q, 2) = Ints - 2 /\ H!Right(q, Ints - 2) = Ints
       /\ H!Footer(q, 0) = 1 /\ H!Footer(q, 2) = Ints - 3 /\ H!Footer(q, Ints - 2) = Ints - 1
  <2>1. /\ 0 + 2 - 1 = 1 /\ 2 + (Ints - 4) - 1 = Ints - 3 /\ (Ints - 2) + 2 - 1 = Ints - 1
        /\ 0 + 2 = 2 /\ 2 + (Ints - 4) = Ints - 2 /\ (Ints - 2) + 2 = Ints /\ 2 \in Nat
    BY <1>2
  <2>2. Marked(q, 0, 2) /\ Marked(q, 2, Ints - 4) /\ Marked(q, Ints - 2, 2)
    BY <1>10, <2>1 DEF Marked
  <2>3. H!Size(q, 0) = 2 /\ H!Right(q, 0) = 2 /\ H!Footer(q, 0) = 1
    BY <1>2, <1>10, <2>1, <2>2, Sized
  <2>4. H!Size(q, 2) = Ints - 4 /\ H!Right(q, 2) = Ints - 2 /\ H!Footer(q, 2) = Ints - 3
    BY <1>2, <1>10, <2>1, <2>2, Sized
  <2>5. /\ H!Size(q, Ints - 2) = 2 /\ H!Right(q, Ints - 2) = Ints
        /\ H!Footer(q, Ints - 2) = Ints - 1
    BY <1>2, <1>10, <2>1, <2>2, Sized
  <2> QED BY <2>3, <2>4, <2>5
<1>13. TilesOK(q, B)
  <2>1. 0 \in B /\ B \subseteq Cells
    BY <1>2
  <2>2. \A i \in B : /\ H!Size(q, i) >= 2 /\ H!Right(q, i) \in B \cup {Ints}
                     /\ q.array[H!Footer(q, i)] = q.array[i]
    BY <1>2, <1>10, <1>12
  <2>3. \A i \in B \ {0} : \E l \in B : H!Right(q, l) = i
    BY <1>12
  <2>4. \A i, j \in B : i < j => H!Right(q, i) <= j
    BY <1>2, <1>12
  <2> QED BY <2>1, <2>2, <2>3, <2>4 DEF TilesOK
<1>14. HeapOK(q, B, {2}, p, 1)
  <2>1. {2} = {i \in B : q.array[i] > 0}
    BY <1>2, <1>10
  <2>2. \A i \in {2} : q.array[H!Right(q, i)] < 0
    BY <1>10, <1>12
  <2>3. \A i \in B : i = 0 \/ i = Ints - 2 \/ H!Size(q, i) >= 4
    BY <1>2, <1>12
  <2>4. Ints - 2 \in B
    OBVIOUS
  <2> HIDE DEF B
  <2> QED BY <1>10, <1>11, <1>13, <2>1, <2>2, <2>3, <2>4 DEF HeapOK
<1>15. Handed(Taken(q, B), {})
  <2>1. Taken(q, B) = {0, Ints - 2}
    BY <1>2, <1>10 DEF Taken
  <2> HIDE DEF B
  <2> QED BY <2>1 DEF Handed
<1> HIDE DEF B
<1>16. InvOn(q, B, {2}, p, 1, {})
  BY <1>14, <1>15 DEF InvOn
<1> QED BY <1>1, <1>16 DEF HeapInv

LEMMA HeapNext == HeapInv /\ [H!Next]_(H!vars) => HeapInv'
<1> SUFFICES ASSUME HeapInv, [H!Next]_(H!vars) PROVE HeapInv'
  OBVIOUS
<1>1. ASSUME NEW bytes \in Requests, H!Malloc(bytes) PROVE HeapInv'
  BY <1>1, MallocStep
<1>2. ASSUME NEW block \in live, H!Free(block) PROVE HeapInv'
  BY <1>2, JoinStep DEF H!Free
<1>3. ASSUME NEW block \in live, NEW bytes \in Requests, H!Realloc(block, bytes) PROVE HeapInv'
  BY <1>3, ReallocStep
<1>4. ASSUME NEW block \in live, NEW bytes \in Requests, H!ReallocFails(block, bytes) PROVE HeapInv'
  BY <1>4, JoinStep DEF H!ReallocFails
<1>5. CASE UNCHANGED H!vars
  BY <1>5 DEF H!vars, HeapInv
<1> QED BY <1>1, <1>2, <1>3, <1>4, <1>5 DEF H!Next

LEMMA HeapInvOK == H!Spec => []HeapInv
<1> QED BY HeapInit, HeapNext, PTL DEF H!Spec

\* The invariant says that the views of the heap agree.
LEMMA Intact == HeapInv => HeapIntact
<1> SUFFICES ASSUME HeapInv PROVE HeapIntact
  OBVIOUS
<1>1. PICK B, L, o, n : InvOn(heap, B, L, o, n, live)
  BY DEF HeapInv
<1>2. /\ HeapOK(heap, B, L, o, n) /\ heap \in Heaps /\ TilesOK(heap, B) /\ LinksOK(heap, L, o, n)
      /\ Handed(Taken(heap, B), live) /\ \A b \in live : HasData(heap, b)
  BY <1>1 DEF InvOn, HeapOK
<1>3. H!Blocks = B
  BY <1>2, BlocksAre
<1>4. H!Tiled(B)
  BY <1>2 DEF TilesOK, H!Tiled
<1>5. L = {i \in B : H!IsAvail(heap, i)} /\ Taken(heap, B) = {i \in B : H!IsTaken(heap, i)}
  BY <1>2 DEF HeapOK, Taken, H!IsAvail, H!IsTaken
<1>6. H!ListExact(B)
  BY <1>2, <1>5, FreeListIs DEF H!ListExact
<1>7. H!Coalesced(B)
  BY <1>2, <1>5 DEF HeapOK, H!Coalesced, H!IsTaken
<1>8. H!LiveBlocksTaken(B)
  <2>1. ASSUME NEW b \in live PROVE b.bytes <= 4 * (H!Size(heap, b.at) - 2)
    <3>1. b.bytes \in Requests /\ H!InInts(b.bytes) + 2 <= H!Size(heap, b.at) /\ b.at \in Cells
      BY <1>2 DEF HasData, Handed, Taken, TilesOK
    <3>2. H!InInts(b.bytes) \in Nat /\ b.bytes <= 4 * H!InInts(b.bytes) /\ H!Size(heap, b.at) \in Nat
      BY <1>2, <3>1, SizesOfRequests, SizeType
    <3>3. b.bytes \in Nat
      BY <3>1, HeapsAssumed DEF H!HeapAssumption
    <3> QED BY <3>1, <3>2, <3>3
  <2> QED BY <1>2, <1>5, <2>1 DEF Handed, H!LiveBlocksTaken
<1> QED BY <1>3, <1>4, <1>6, <1>7, <1>8 DEF HeapIntact, H!HeapIntact

(* For a heap of 8 ints or more, any requests and any contents, after any  *)
(* malloc(), free() and realloc(): headers and footers tile the array, the *)
(* list of available blocks is exact, freed neighbours are joined, and the *)
(* taken blocks are those that users have, each with room for its request. *)
THEOREM HeapIntactOK == H!Spec => []HeapIntact
<1> QED BY HeapInvOK, Intact, PTL

(* No call of malloc(), free() or realloc() changes what the others have   *)
(* in their blocks, and realloc() hands over the data of the old one.      *)
THEOREM ContentsKeptOK == H!Spec => ContentsKept
<1> DEFINE Stays == \A b \in live' : \A j \in 1 .. H!InInts(b.bytes) : heap'.array[b.at + j] = UserData
<1>1. HeapInv' => Stays
  BY DEF HeapInv, InvOn, HasData
<1>2. HeapInv /\ [H!Next]_(H!vars) => [Stays]_(H!vars)
  BY <1>1, HeapNext
<1>3. ContentsKept <=> [][Stays]_(H!vars)
  BY DEF ContentsKept, H!ContentsKept
<1> HIDE DEF Stays
<1> QED BY <1>2, <1>3, HeapInvOK, PTL DEF H!Spec
=============================================================================
