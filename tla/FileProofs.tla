----------------------------- MODULE FileProofs -----------------------------
(***************************************************************************)
(* For any geometry of the file system and its caches, any song, any ring  *)
(* of three chunks or more, and hardware that plays no more than a chunk   *)
(* while the thread's loop goes round once: the cache never lies, what is  *)
(* heard are the samples of the song in their order, and what is not heard *)
(* when the machine is turned off was in the ring.  For any files and      *)
(* block sizes: read() delivers what is in the file, and counts it if      *)
(* nobody shares the file; an execl() that fails does no harm.             *)
(***************************************************************************)
EXTENDS FileSystems, SequenceTheorems, WellFoundedInduction, TLAPS

\* An entry of the cache has these members.
IsEntry(e) == /\ e = [valid |-> e.valid, lru |-> e.lru, number |-> e.number,
                      block |-> e.block, data |-> e.data]
              /\ e.lru \in Nat

CacheTypeOK ==
  /\ blocks.lru \in Nat
  /\ DOMAIN blocks.lines = 0 .. Sets - 1
  /\ \A set \in 0 .. Sets - 1 :
       /\ DOMAIN blocks.lines[set] = 1 .. Ways
       /\ \A i \in 1 .. Ways : IsEntry(blocks.lines[set][i])

-----------------------------------------------------------------------------
(* The cache *)

\* The geometry that the proofs use.
LEMMA Geometry ==
  /\ BlockSize \in Nat /\ BlockSize > 0
  /\ Sets \in Nat /\ Sets > 0 /\ Ways \in Nat /\ Ways > 0
  /\ LruWord \in Nat /\ LruWord > 0
BY Ext22Assumption

\* Quotient and remainder, as the provers want them.
LEMMA DivIsNat ==
  ASSUME NEW a \in Nat, NEW b \in Nat, b > 0
  PROVE  \E q \in Nat, r \in 0 .. b - 1 : a = q * b + r /\ q = a \div b /\ r = a % b
BY Z3

LEMMA DivOfSum ==
  ASSUME NEW q \in Nat, NEW b \in Nat, NEW r \in Nat, r < b
  PROVE  (q * b + r) \div b = q /\ (q * b + r) % b = r
BY Z3

\* A set of numbers that is not empty has a least one.
LEMMA LeastOne ==
  ASSUME NEW S \in SUBSET Nat, S # {}
  PROVE  \E x \in S : \A y \in S : x <= y
<1>1. \E x \in S : \A y \in S : ~(<<y, x>> \in OpToRel(<, Nat))
  BY NatLessThanWellFounded, WFMin
<1>2. \A x, y \in Nat : <<y, x>> \in OpToRel(<, Nat) <=> y < x
  BY DEF OpToRel
<1>3. PICK x \in S : \A y \in S : ~(<<y, x>> \in OpToRel(<, Nat))
  BY <1>1
<1>4. \A y \in S : ~(y < x)
  BY <1>2, <1>3
<1> QED BY <1>4

LEMMA MinIsIn ==
  ASSUME NEW S \in SUBSET Nat, S # {}
  PROVE  Min(S) \in S
BY LeastOne DEF Min

\* What a hit changes of an entry.
LEMMA Touched ==
  ASSUME NEW e, IsEntry(e), NEW lru \in Nat
  PROVE  LET f == [e EXCEPT !.lru = lru]
         IN  /\ IsEntry(f)
             /\ f.valid = e.valid /\ f.number = e.number /\ f.block = e.block /\ f.data = e.data
<1>1. PICK v, l, m, b, d : e = [valid |-> v, lru |-> l, number |-> m, block |-> b, data |-> d]
  BY DEF IsEntry
<1>2. [e EXCEPT !.lru = lru] = [valid |-> v, lru |-> lru, number |-> m, block |-> b, data |-> d]
  BY <1>1
<1> QED BY <1>1, <1>2 DEF IsEntry

\* What a miss makes of an entry.
LEMMA Made ==
  ASSUME NEW e, NEW lru \in Nat, NEW number, NEW n, NEW data
  PROVE  LET f == Filled(e, lru, number, n, data)
         IN  IsEntry(f) /\ f.valid /\ f.number = number /\ f.block = n /\ f.data = data
BY DEF Filled, IsEntry

\* There is an oldest entry.
LEMMA OldestIsThere ==
  ASSUME NEW line, DOMAIN line = 1 .. Ways, \A i \in 1 .. Ways : IsEntry(line[i])
  PROVE  Oldest(line) \in 1 .. Ways
<1> DEFINE Ages == {line[i].lru : i \in 1 .. Ways}
           Old == {i \in DOMAIN line : \A j \in DOMAIN line : line[i].lru <= line[j].lru}
<1>1. Ages \in SUBSET Nat /\ Ages # {}
  BY Ext22Assumption DEF IsEntry
<1>2. PICK x \in Ages : \A y \in Ages : ~(<<y, x>> \in OpToRel(<, Nat))
  BY <1>1, NatLessThanWellFounded, WFMin
<1>3. \A a, b \in Nat : <<b, a>> \in OpToRel(<, Nat) <=> b < a
  BY DEF OpToRel
<1>4. \A y \in Ages : ~(y < x)
  BY <1>1, <1>2, <1>3
<1>5. PICK i \in 1 .. Ways : x = line[i].lru
  BY <1>2
<1>6. i \in Old
  <2>1. \A j \in 1 .. Ways : line[j].lru \in Ages
    OBVIOUS
  <2> HIDE DEF Ages
  <2>2. ASSUME NEW j \in 1 .. Ways
        PROVE  line[i].lru <= line[j].lru
    <3>1. ~(line[j].lru < x) /\ line[j].lru \in Nat /\ x \in Nat
      BY <1>1, <1>2, <1>4, <2>1
    <3> QED BY <1>5, <3>1
  <2> QED BY <1>1, <2>2
<1>7. Old \in SUBSET Nat /\ Old # {} /\ Old \subseteq 1 .. Ways
  BY <1>1, <1>6
<1>8. Min(Old) \in Old
  BY <1>7, MinIsIn
<1> QED BY <1>7, <1>8 DEF Oldest

\* The entry that get() uses: a hit, if there is one.
LEMMA WayIsThere ==
  ASSUME CacheTypeOK, NEW number, NEW n \in Nat
  PROVE  /\ n % Sets \in 0 .. Sets - 1
         /\ Way(number, n) \in 1 .. Ways
         /\ \/ Hit(Line(n)[Way(number, n)], number, n)
            \/ \A i \in 1 .. Ways : ~Hit(Line(n)[i], number, n)
<1> DEFINE line == Line(n)
           hits == {i \in DOMAIN line : Hit(line[i], number, n)}
           unused == {i \in DOMAIN line : ~line[i].valid}
<1>1. n % Sets \in 0 .. Sets - 1
  BY Ext22Assumption
<1>2. DOMAIN line = 1 .. Ways /\ \A i \in 1 .. Ways : IsEntry(line[i])
  BY <1>1 DEF CacheTypeOK, Line
<1>3. /\ DOMAIN line = 1 .. Ways
      /\ hits \in SUBSET Nat /\ hits \subseteq 1 .. Ways
      /\ unused \in SUBSET Nat /\ unused \subseteq 1 .. Ways
  BY <1>2
<1>4. CASE hits # {}
  <2>1. Min(hits) \in hits
    BY <1>3, <1>4, MinIsIn
  <2>2. Way(number, n) = Min(hits)
    BY <1>4 DEF Way
  <2> QED BY <1>1, <1>3, <2>1, <2>2
<1>5. CASE hits = {}
  <2>1. Way(number, n) = Victim(line)
    BY <1>5 DEF Way
  <2>2. \A i \in 1 .. Ways : ~Hit(line[i], number, n)
    BY <1>3, <1>5
  <2>3. unused # {} => Min(unused) \in unused
    BY <1>3, MinIsIn
  <2>4. Oldest(line) \in 1 .. Ways
    BY <1>2, OldestIsThere
  <2>5. Victim(line) \in 1 .. Ways
    BY <1>3, <2>3, <2>4 DEF Victim
  <2> QED BY <1>1, <2>1, <2>2, <2>5
<1> QED BY <1>4, <1>5

\* What get() leaves there.
LEMMA GotIsExact ==
  ASSUME CacheTypeOK, CacheExact, NEW number, NEW n \in Nat, NEW lru \in Nat
  PROVE  LET entry == Got(number, n, lru)
         IN  /\ IsEntry(entry)
             /\ entry.valid /\ entry.number = number /\ entry.block = n
             /\ entry.data = BlockAt(Inode(number), n)
<1> DEFINE old == Line(n)[Way(number, n)]
<1>1. /\ n % Sets \in 0 .. Sets - 1
      /\ Way(number, n) \in 1 .. Ways
  BY WayIsThere
<1>2. IsEntry(old)
  BY <1>1 DEF CacheTypeOK, Line
<1>3. old.valid => old.data = BlockAt(Inode(old.number), old.block)
  BY <1>1 DEF CacheExact, Line
<1>4. CASE Hit(old, number, n)
  <2>1. Got(number, n, lru) = [old EXCEPT !.lru = lru]
    BY <1>4 DEF Got
  <2>2. old.valid /\ old.number = number /\ old.block = n
    BY <1>4 DEF Hit
  <2> HIDE DEF old
  <2> QED BY <1>2, <1>3, <2>1, <2>2, Touched
<1>5. CASE ~Hit(old, number, n)
  <2>1. Got(number, n, lru) = Filled(old, lru, number, n, BlockAt(Inode(number), n))
    BY <1>5 DEF Got
  <2> HIDE DEF old
  <2> QED BY <2>1, Made
<1> QED BY <1>4, <1>5

\* read() keeps the cache exact, whether it hits or misses.
LEMMA ReadBlockExact ==
  ASSUME CacheTypeOK, CacheExact, ReadBlock, read.offset \in Nat
  PROVE  CacheTypeOK' /\ CacheExact'
<1> DEFINE number == read.number
           n == read.offset \div BlockSize
           lru == (blocks.lru + 1) % LruWord
           w == Way(number, n)
           s == n % Sets
           entry == Got(number, n, lru)
<1>1. n \in Nat /\ lru \in Nat
  <2>1. n \in Nat
    BY Geometry, DivIsNat
  <2>2. blocks.lru + 1 \in Nat
    BY DEF CacheTypeOK
  <2>3. lru \in Nat
    BY Geometry, <2>2, DivIsNat
  <2> QED BY <2>1, <2>3
<1>2. blocks' = [lru |-> lru, lines |-> [blocks.lines EXCEPT ![s][w] = entry]]
  BY DEF ReadBlock
<1>3. /\ s \in 0 .. Sets - 1
      /\ w \in 1 .. Ways
      /\ \/ Hit(blocks.lines[s][w], number, n)
         \/ \A i \in 1 .. Ways : ~Hit(blocks.lines[s][i], number, n)
  BY <1>1, WayIsThere DEF Line
<1>4. /\ IsEntry(entry)
      /\ entry.valid /\ entry.number = number /\ entry.block = n
      /\ entry.data = BlockAt(Inode(number), n)
  BY <1>1, GotIsExact
<1> HIDE DEF number, n, lru, w, entry
<1>5. /\ blocks'.lru = lru
      /\ DOMAIN blocks'.lines = 0 .. Sets - 1
      /\ \A set \in 0 .. Sets - 1 :
           /\ DOMAIN blocks'.lines[set] = 1 .. Ways
           /\ \A i \in 1 .. Ways :
                blocks'.lines[set][i] = IF set = s /\ i = w THEN entry ELSE blocks.lines[set][i]
  BY <1>2, <1>3 DEF CacheTypeOK
<1>6. CacheTypeOK'
  BY <1>1, <1>4, <1>5 DEF CacheTypeOK
<1>7. ASSUME NEW set \in 0 .. Sets - 1, NEW i \in 1 .. Ways, blocks'.lines[set][i].valid
      PROVE  LET e == blocks'.lines[set][i]
             IN  /\ e.block % Sets = set
                 /\ e.data = BlockAt(Inode(e.number), e.block)
  BY <1>4, <1>5, <1>7 DEF CacheExact, s
<1>8. ASSUME NEW set \in 0 .. Sets - 1, NEW i \in 1 .. Ways, NEW j \in (1 .. Ways) \ {i},
             blocks'.lines[set][i].valid, blocks'.lines[set][j].valid
      PROVE  <<blocks'.lines[set][j].number, blocks'.lines[set][j].block>>
               # <<blocks'.lines[set][i].number, blocks'.lines[set][i].block>>
  <2>1. ASSUME NEW k \in 1 .. Ways, k # w, blocks.lines[s][k].valid
        PROVE  <<blocks.lines[s][k].number, blocks.lines[s][k].block>> # <<number, n>>
    <3>1. CASE Hit(blocks.lines[s][w], number, n)
      BY <1>3, <2>1, <3>1 DEF CacheExact, Hit
    <3>2. CASE \A l \in 1 .. Ways : ~Hit(blocks.lines[s][l], number, n)
      BY <2>1, <3>2 DEF Hit
    <3> QED BY <1>3, <3>1, <3>2
  <2>2. CASE set = s /\ i = w
    BY <1>4, <1>5, <1>8, <2>1, <2>2
  <2>3. CASE set = s /\ j = w
    BY <1>4, <1>5, <1>8, <2>1, <2>3
  <2>4. CASE ~(set = s /\ i = w) /\ ~(set = s /\ j = w)
    <3>1. blocks'.lines[set][i] = blocks.lines[set][i] /\ blocks'.lines[set][j] = blocks.lines[set][j]
      BY <1>5, <2>4
    <3> QED BY <1>8, <3>1 DEF CacheExact
  <2> QED BY <2>2, <2>3, <2>4
<1>9. CacheExact'
  BY <1>7, <1>8 DEF CacheExact
<1> QED BY <1>6, <1>9

-----------------------------------------------------------------------------
(* read_all() *)

Size(number) == Inode(number).size

\* How much is read if n cells are wanted, and n cells of a file.
Extent(number, from, n) == IF from > Size(number) THEN 0 ELSE Least(n, Size(number) - from)
Cut(number, from, n) == [i \in 1 .. n |-> CellsOf(number)[from + i]]

\* A read_all() that has still to read left cells.
ReadTo(number, from, got, left) ==
  read = [number |-> number, offset |-> from + got, data |-> Cut(number, from, got), left |-> left]

Reads(number, from, n) ==
  \E left \in 0 .. Extent(number, from, n) :
    ReadTo(number, from, Extent(number, from, n) - left, left)

\* A read_all() stays in the file, and stops only at its end.
LEMMA ExtentType ==
  ASSUME NEW number, Size(number) \in Nat, NEW from \in Nat, NEW n \in Nat
  PROVE  /\ Extent(number, from, n) \in 0 .. n
         /\ from <= Size(number) => from + Extent(number, from, n) <= Size(number)
         /\ from > Size(number) => Extent(number, from, n) = 0
         /\ Extent(number, from, n) < n => from + Extent(number, from, n) >= Size(number)
BY DEF Extent, Least

\* The members of the read.
LEMMA ReadToFields ==
  ASSUME NEW number, NEW from, NEW got, NEW left, ReadTo(number, from, got, left)
  PROVE  /\ read.number = number /\ read.offset = from + got /\ read.left = left
         /\ read.data = Cut(number, from, got)
BY DEF ReadTo

\* A read_all() begins with nothing.
LEMMA StartReads ==
  ASSUME NEW number, Size(number) \in Nat, NEW from \in Nat, NEW n \in Nat, StartRead(number, from, n)
  PROVE  Reads(number, from, n)'
<1>1. Extent(number, from, n) \in Nat
  BY ExtentType
<1>2. Cut(number, from, 0) = << >>
  BY DEF Cut
<1>3. read' = [number |-> number, offset |-> from, data |-> << >>, left |-> Extent(number, from, n)]
  BY DEF StartRead, Extent, Size
<1> DEFINE x == Extent(number, from, n)
<1>4. x - x = 0 /\ from + 0 = from /\ x \in 0 .. x
  BY <1>1
<1>5. ReadTo(number, from, x - x, x)'
  BY <1>2, <1>3, <1>4 DEF ReadTo
<1> QED BY <1>4, <1>5 DEF Reads

\* What has been read when nothing is left.
LEMMA ReadsAll ==
  ASSUME NEW number, Size(number) \in Nat, NEW from \in Nat, NEW n \in Nat,
         Reads(number, from, n), Idle
  PROVE  /\ read.data = Cut(number, from, Extent(number, from, n))
         /\ read.offset = from + Extent(number, from, n)
<1>1. PICK left \in 0 .. Extent(number, from, n) :
        ReadTo(number, from, Extent(number, from, n) - left, left)
  BY DEF Reads
<1>2. left = 0
  BY <1>1, ReadToFields DEF Idle
<1>3. Extent(number, from, n) - 0 = Extent(number, from, n)
  BY ExtentType
<1> QED BY <1>1, <1>2, <1>3, ReadToFields

\* How many cells these are.
LEMMA CutLen ==
  ASSUME NEW number, NEW from, NEW n \in Nat
  PROVE  Len(Cut(number, from, n)) = n /\ DOMAIN Cut(number, from, n) = 1 .. n
BY DEF Cut

\* Two pieces that follow each other are one.
LEMMA CutGlue ==
  ASSUME NEW number, NEW from \in Nat, NEW a \in Nat, NEW b \in Nat
  PROVE  Cut(number, from, a) \o Cut(number, from + a, b) = Cut(number, from, a + b)
<1> DEFINE cells == CellsOf(number)
           S == {cells[from + i] : i \in 1 .. a + b}
           f == Cut(number, from, a)
           g == Cut(number, from + a, b)
           h == Cut(number, from, a + b)
<1>1. \A i \in 1 .. b : (from + a) + i = from + (a + i) /\ a + i \in 1 .. a + b
  OBVIOUS
<1>2. f \in [1 .. a -> S] /\ \A i \in 1 .. a : f[i] = h[i]
  <2>1. \A i \in 1 .. a : i \in 1 .. a + b
    OBVIOUS
  <2> QED BY <2>1 DEF Cut
<1>3. g \in [1 .. b -> S] /\ \A i \in 1 .. b : g[i] = h[a + i]
  BY <1>1 DEF Cut
<1>4. h \in [1 .. a + b -> S]
  BY DEF Cut
<1> HIDE DEF cells, S, f, g, h
<1>5. f \in Seq(S) /\ g \in Seq(S) /\ h \in Seq(S) /\ Len(f) = a /\ Len(g) = b /\ Len(h) = a + b
  BY <1>2, <1>3, <1>4
<1>6. /\ f \o g \in Seq(S) /\ Len(f \o g) = a + b
      /\ \A i \in 1 .. a + b : (f \o g)[i] = IF i <= a THEN f[i] ELSE g[i - a]
  BY <1>5, ConcatProperties
<1>7. ASSUME NEW i \in 1 .. a + b PROVE (f \o g)[i] = h[i]
  <2>1. CASE i <= a
    <3>1. i \in 1 .. a
      BY <2>1
    <3>2. (f \o g)[i] = f[i]
      BY <1>6, <2>1
    <3> QED BY <1>2, <3>1, <3>2
  <2>2. CASE i > a
    <3>1. i - a \in 1 .. b /\ a + (i - a) = i
      BY <2>2
    <3>2. (f \o g)[i] = g[i - a]
      BY <1>6, <2>2
    <3> QED BY <1>3, <3>1, <3>2
  <2>3. i <= a \/ i > a
    OBVIOUS
  <2> QED BY <2>1, <2>2, <2>3
<1>8. f \o g = h
  BY <1>5, <1>6, <1>7, SeqEqual
<1> QED BY <1>8 DEF f, g, h

\* The cells of one block.
LEMMA BlockCut ==
  ASSUME NEW number, Size(number) \in Nat, NEW from \in Nat, NEW n \in Nat \ {0},
         n <= BlockSize - (from % BlockSize), from + n <= Size(number)
  PROVE  LET start == from % BlockSize
         IN  SubSeq(BlockAt(Inode(number), from \div BlockSize), start + 1, start + n)
               = Cut(number, from, n)
<1>1. PICK q \in Nat, r \in 0 .. BlockSize - 1 :
        from = q * BlockSize + r /\ q = from \div BlockSize /\ r = from % BlockSize
  BY Geometry, DivIsNat
<1> DEFINE data == BlockAt(Inode(number), q)
           S == {data[i] : i \in r + 1 .. r + n}
           cut == SubSeq(data, r + 1, r + n)
<1>2. cut \in Seq(S) /\ Len(cut) = n /\ \A i \in 1 .. n : cut[i] = data[r + i]
  <2>1. /\ cut \in Seq(S)
        /\ Len(cut) = (IF r + 1 <= r + n THEN (r + n) - (r + 1) + 1 ELSE 0)
        /\ \A i \in 1 .. (r + n) - (r + 1) + 1 : cut[i] = data[(r + 1) + i - 1]
    BY SubSeqProperties
  <2>2. (r + n) - (r + 1) + 1 = n /\ \A i \in 1 .. n : (r + 1) + i - 1 = r + i
    OBVIOUS
  <2> HIDE DEF cut, S
  <2> QED BY <2>1, <2>2
<1>3. ASSUME NEW i \in 1 .. n PROVE CellsOf(number)[from + i] = data[r + i]
  <2>1. PICK j \in Nat : j = r + i - 1
    BY <1>1
  <2>2. j < BlockSize /\ 1 + j = r + i /\ from + i \in 1 .. Size(number)
    BY <1>1, <2>1, Geometry
  <2>3. (from + i) - 1 = q * BlockSize + j
    <3>1. PICK p \in Nat : p = q * BlockSize
      BY Geometry
    <3> QED BY <1>1, <2>1, <3>1
  <2>4. ((from + i) - 1) \div BlockSize = q /\ ((from + i) - 1) % BlockSize = j
    BY <2>2, <2>3, Geometry, DivOfSum
  <2> QED BY <2>2, <2>4 DEF CellsOf, Size
<1>4. DOMAIN cut = 1 .. n /\ cut = [i \in 1 .. n |-> cut[i]]
  BY <1>2
<1>5. cut = Cut(number, from, n)
  BY <1>2, <1>3, <1>4 DEF Cut
<1> QED BY <1>1, <1>5

\* What read() returns from the block that get() has found.
LEMMA PieceIsCut ==
  ASSUME CacheTypeOK, CacheExact, ReadBlock, NEW number, Size(number) \in Nat,
         read.number = number, read.offset \in Nat, read.left \in Nat,
         read.offset + read.left <= Size(number)
  PROVE  \E actual \in Nat \ {0} :
           /\ actual <= read.left
           /\ read' = [read EXCEPT !.offset = @ + actual, !.left = @ - actual,
                                   !.data = @ \o Cut(number, read.offset, actual)]
<1> DEFINE n == read.offset \div BlockSize
           start == read.offset % BlockSize
           actual == Least(BlockSize - start, read.left)
           lru == (blocks.lru + 1) % LruWord
           entry == Got(number, n, lru)
<1>1. n \in Nat /\ start \in 0 .. BlockSize - 1
  BY Geometry, DivIsNat
<1>2. lru \in Nat
  <2>1. blocks.lru + 1 \in Nat
    BY DEF CacheTypeOK
  <2> QED BY <2>1, Geometry, DivIsNat
<1>3. read.left # 0
  BY DEF ReadBlock, Idle
<1>4. actual \in Nat \ {0} /\ actual <= read.left /\ actual <= BlockSize - start
  BY <1>1, <1>3, Geometry DEF Least
<1>5. entry.data = BlockAt(Inode(number), n)
  BY <1>1, <1>2, GotIsExact
<1>6. read' = [read EXCEPT !.offset = @ + actual, !.left = @ - actual,
                 !.data = @ \o SubSeq(entry.data, start + 1, start + actual)]
  BY DEF ReadBlock
<1>7. read.offset + actual <= Size(number)
  BY <1>4
<1> HIDE DEF actual, entry
<1>8. SubSeq(BlockAt(Inode(number), n), start + 1, start + actual)
        = Cut(number, read.offset, actual)
  BY <1>4, <1>7, BlockCut
<1> QED BY <1>4, <1>5, <1>6, <1>8

\* Each read() gets the read_all() further.
LEMMA FetchReads ==
  ASSUME CacheTypeOK, CacheExact, ReadBlock, NEW number, Size(number) \in Nat,
         NEW from \in Nat, NEW n \in Nat, Reads(number, from, n)
  PROVE  /\ Reads(number, from, n)'
         /\ read.offset \in Nat
         /\ Len(read.data) \in Nat /\ Len(read'.data) \in Nat /\ Len(read.data) <= Len(read'.data)
<1> DEFINE x == Extent(number, from, n)
<1>1. PICK left \in 0 .. x : ReadTo(number, from, x - left, left)
  BY DEF Reads
<1>2. /\ x \in Nat
      /\ from <= Size(number) => from + x <= Size(number)
      /\ from > Size(number) => x = 0
  BY ExtentType
<1> HIDE DEF x
<1>3. PICK got \in Nat : got = x - left
  BY <1>1, <1>2
<1>4. /\ read.number = number /\ read.offset = from + got /\ read.left = left
      /\ read.data = Cut(number, from, got)
  BY <1>1, <1>3, ReadToFields
<1>5. left # 0
  BY <1>4 DEF ReadBlock, Idle
<1>6. read.offset \in Nat /\ read.left \in Nat /\ read.offset + read.left <= Size(number)
  BY <1>1, <1>2, <1>3, <1>4, <1>5
<1>7. PICK actual \in Nat \ {0} :
        /\ actual <= read.left
        /\ read' = [read EXCEPT !.offset = @ + actual, !.left = @ - actual,
                                !.data = @ \o Cut(number, read.offset, actual)]
  BY <1>4, <1>6, PieceIsCut
<1>8. PICK rest \in 0 .. x : rest = left - actual /\ x - rest = got + actual
  BY <1>1, <1>2, <1>3, <1>4, <1>7
<1>9. Cut(number, from, got) \o Cut(number, from + got, actual) = Cut(number, from, got + actual)
  <2>1. \A a \in Nat, b \in Nat :
          Cut(number, from, a) \o Cut(number, from + a, b) = Cut(number, from, a + b)
    BY CutGlue
  <2>2. got \in Nat /\ actual \in Nat
    OBVIOUS
  <2> QED BY <2>1, <2>2, Zenon
<1>10. read = [number |-> number, offset |-> from + got, data |-> Cut(number, from, got),
               left |-> left]
  BY <1>1, <1>3 DEF ReadTo
<1>11. (from + got) + actual = from + (got + actual)
  BY <1>3, <1>7
<1>12. read' = [number |-> number, offset |-> from + (got + actual),
                data |-> Cut(number, from, got + actual), left |-> rest]
  BY <1>4, <1>7, <1>8, <1>9, <1>10, <1>11
<1>13. ReadTo(number, from, x - rest, rest)'
  BY <1>8, <1>12 DEF ReadTo
<1>14. Reads(number, from, n)'
  BY <1>8, <1>13 DEF Reads, x
<1>15. Len(read.data) = got /\ Len(read'.data) = got + actual
  BY <1>4, <1>7, <1>12, CutLen
<1>16. got + actual \in Nat /\ got <= got + actual
  BY <1>3, <1>7
<1> QED BY <1>3, <1>6, <1>14, <1>15, <1>16

-----------------------------------------------------------------------------
(* Songs, and the ring *)

Number(s) == NumberOf(s)
Total(s) == Len(Samples[s])
List(s) == CellsOf(NumberOf(s))[6]
Base(s) == 8 + List(s)
Sample(s, k) == IF k < Total(s) THEN Samples[s][k + 1] ELSE 0

\* What the assumption about the drive says of the song s.
LEMMA DriveFacts ==
  ASSUME NEW s \in Songs
  PROVE  /\ Size(Root) \in Nat /\ Size(NumberOf(Cover)) \in Nat /\ Size(Number(s)) \in Nat
         /\ Total(s) \in Nat /\ List(s) \in Nat /\ Base(s) \in Nat /\ Base(s) = 8 + List(s)
         /\ Size(Number(s)) = Base(s) + Total(s)
         /\ CellsOf(Number(s))[2] = Base(s) + Total(s) - 2
         /\ CellsOf(Number(s))[6] = List(s)
         /\ \A k \in 1 .. Total(s) : CellsOf(Number(s))[Base(s) + k] = Samples[s][k]
<1> DEFINE cells == CellsOf(NumberOf(s))
<1>1. /\ Inode(Root).size \in Nat /\ Inode(NumberOf(Cover)).size \in Nat
      /\ Inode(NumberOf(s)).size \in Nat /\ IsWave(cells, Samples[s])
  BY DriveAssumption
<1>2. Len(cells) = Inode(NumberOf(s)).size
  BY <1>1 DEF CellsOf
<1> HIDE DEF cells
<1>3. /\ Len(Samples[s]) \in Nat /\ cells[6] \in Nat
      /\ Len(cells) = 8 + cells[6] + Len(Samples[s]) /\ cells[2] = Len(cells) - 2
      /\ \A k \in 1 .. Len(Samples[s]) : cells[8 + cells[6] + k] = Samples[s][k]
  BY <1>1 DEF IsWave
<1>4. /\ Size(Root) = Inode(Root).size /\ Size(NumberOf(Cover)) = Inode(NumberOf(Cover)).size
      /\ Size(Number(s)) = Len(cells) /\ Total(s) = Len(Samples[s])
      /\ List(s) = cells[6] /\ Base(s) = 8 + cells[6] /\ CellsOf(Number(s)) = cells
  BY <1>2 DEF Size, Number, Total, List, Base, cells
<1>5. Base(s) \in Nat /\ Size(Number(s)) = Base(s) + Total(s) /\ cells[2] = Base(s) + Total(s) - 2
  <2>1. PICK list, total, base, size, riff :
          /\ list = cells[6] /\ total = Len(Samples[s]) /\ base = Base(s)
          /\ size = Len(cells) /\ riff = cells[2]
    OBVIOUS
  <2>2. /\ list \in Nat /\ total \in Nat /\ base = 8 + list
        /\ size = 8 + list + total /\ riff = size - 2
    BY <1>3, <1>4, <2>1
  <2>3. base \in Nat /\ size = base + total /\ riff = base + total - 2
    BY <2>2
  <2> QED BY <1>4, <2>1, <2>3
<1>6. \A k \in 1 .. Total(s) : CellsOf(Number(s))[Base(s) + k] = Samples[s][k]
  BY <1>3, <1>4
<1>7. Size(Number(s)) \in Nat /\ Size(Root) \in Nat /\ Size(NumberOf(Cover)) \in Nat
  BY <1>1, <1>2, <1>4
<1> QED BY <1>3, <1>4, <1>5, <1>6, <1>7

\* What has been read are the samples from number e on.
Sounds(data, s, e) == \A i \in 1 .. Len(data) : data[i] = Sample(s, e + (i - 1))

\* Behind the head of the file there are samples; a read that stops short has got the last.
LEMMA SoundIsRead ==
  ASSUME NEW s \in Songs, NEW e \in Nat, NEW from, from = Base(s) + e, NEW n \in Nat,
         NEW x, x = Extent(Number(s), from, n)
  PROVE  /\ x \in 0 .. n
         /\ \A got \in 0 .. x : Sounds(Cut(Number(s), from, got), s, e)
         /\ x < n => e + x >= Total(s)
<1>1. /\ Size(Number(s)) \in Nat /\ Size(Number(s)) = Base(s) + Total(s)
      /\ Base(s) \in Nat /\ Total(s) \in Nat /\ from \in Nat
      /\ \A k \in 1 .. Total(s) : CellsOf(Number(s))[Base(s) + k] = Samples[s][k]
  BY DriveFacts
<1>2. /\ x \in 0 .. n
      /\ from <= Size(Number(s)) => from + x <= Size(Number(s))
      /\ from > Size(Number(s)) => x = 0
      /\ x < n => from + x >= Size(Number(s))
  BY <1>1, ExtentType
<1>3. ASSUME NEW got \in 0 .. x, NEW i \in 1 .. got
      PROVE  Cut(Number(s), from, got)[i] = Sample(s, e + (i - 1))
  <2>1. from + i = Base(s) + (e + i)
    BY <1>1, <1>2
  <2>2. Cut(Number(s), from, got)[i] = CellsOf(Number(s))[Base(s) + (e + i)]
    BY <2>1 DEF Cut
  <2>3. e + i \in 1 .. Total(s) /\ e + (i - 1) < Total(s) /\ (e + (i - 1)) + 1 = e + i
    BY <1>1, <1>2
  <2> QED BY <1>1, <2>2, <2>3 DEF Sample
<1>4. x < n => e + x >= Total(s)
  BY <1>1, <1>2
<1>5. ASSUME NEW got \in 0 .. x PROVE Sounds(Cut(Number(s), from, got), s, e)
  <2>1. Len(Cut(Number(s), from, got)) = got
    BY <1>2, CutLen
  <2> QED BY <1>3, <2>1 DEF Sounds
<1> QED BY <1>2, <1>4, <1>5

\* The ring has room for three chunks.
LEMMA RingFacts ==
  /\ Ring \in Nat /\ N \in Nat /\ N >= 3 /\ Chunk \in Nat /\ Chunk > 0 /\ Pace \in 1 .. Chunk
  /\ 3 * Chunk <= Ring /\ 0 * Chunk = 0 /\ N * Chunk = Ring
<1>1. N \in Nat /\ N >= 3 /\ Chunk \in Nat /\ Chunk > 0 /\ Pace \in 1 .. Chunk
  BY PlayerAssumption
<1>2. N * Chunk \in Nat /\ 3 * Chunk <= N * Chunk
  BY <1>1
<1> QED BY <1>1, <1>2 DEF Ring

\* Chunk i of the ring begins at first.
LEMMA ChunkFacts ==
  ASSUME NEW i \in 0 .. N - 1
  PROVE  /\ i * Chunk \in Nat /\ (i + 1) * Chunk = i * Chunk + Chunk
         /\ i * Chunk + Chunk <= Ring
         /\ (i + 1) % N = (IF i = N - 1 THEN 0 ELSE i + 1)
         /\ i = N - 1 => i * Chunk + Chunk = Ring
         /\ i # N - 1 => i * Chunk + Chunk < Ring
<1>1. N \in Nat /\ N >= 3 /\ Chunk \in Nat /\ Chunk > 0 /\ Ring = N * Chunk
  BY RingFacts
<1>2. i * Chunk \in Nat /\ (i + 1) * Chunk = i * Chunk + Chunk
  BY <1>1
<1>3. i # N - 1 => (i + 2) * Chunk <= N * Chunk /\ (i + 2) * Chunk = i * Chunk + Chunk + Chunk
  BY <1>1
<1>4. i = N - 1 => (i + 1) * Chunk = N * Chunk
  BY <1>1
<1>5. (i + 1) % N = (IF i = N - 1 THEN 0 ELSE i + 1)
  BY <1>1
<1> QED BY <1>1, <1>2, <1>3, <1>4, <1>5

Wrap(x) == IF x < Ring THEN x ELSE x - Ring

\* The counters wrap at the end of the ring.
LEMMA WrapIsMod ==
  ASSUME NEW x \in Nat, x < 2 * Ring
  PROVE  x % Ring = Wrap(x) /\ Wrap(x) \in 0 .. Ring - 1
<1>1. Ring \in Nat /\ Ring > 0
  BY RingFacts
<1> QED BY <1>1 DEF Wrap
-----------------------------------------------------------------------------
(* The invariant, of the song s.                                           *)

Mounting == {"mount", "count", "entries"}
Looping == {"look", "judge", "copy", "advance", "end", "off"}
Preparing == Mounting \cup {"begin", "cover", "open", "ask", "take", "fill", "start"}

PlayerTypeOK(s) ==
  /\ s \in Songs /\ song = s
  /\ at \in Preparing \cup Looping
  /\ file = [number |-> file.number, size |-> file.size]
  /\ DOMAIN ring = 0 .. Ring - 1
  /\ run \in BOOLEAN /\ (run <=> at \in Looping \ {"off"})

\* The hardware does not run before the loop.
StillInv ==
  at \in Preparing => position = 0 /\ since = 0 /\ heard = 0 /\ index = 0 /\ written = 0

\* What is being read, and when nothing is.
ReadInv(s) ==
  /\ at \in {"mount", "begin", "ask", "look", "judge", "end", "off"} => Idle
  /\ at = "fill" /\ done = 0 => Idle
  /\ at \in {"count", "entries"} => Reads(Root, 0, RootCells)
  /\ at \in {"cover", "open"} =>
       Idle \/ \E i \in 1 .. Len(Bitmap) : Reads(NumberOf(Cover), Bitmap[i][1], Bitmap[i][2])
  /\ at = "take" => Reads(Number(s), offset, 1)
  /\ at = "fill" /\ done > 0 => Reads(Number(s), offset - Chunk, Chunk)
  /\ at = "start" => Reads(Number(s), offset - Ring, 2)
  /\ at = "copy" => Reads(Number(s), offset, 2)
  /\ at = "advance" => Reads(Number(s), offset, Chunk)

\* Where the thread is in the file.
PlaceInv(s) ==
  /\ at \in Mounting \cup {"begin", "cover", "open"} => offset = 0
  /\ at \in Mounting \cup {"begin", "open", "start"} => done = 0
  /\ at \in {"begin", "cover", "open"} => arr = RootEntries
  /\ at = "cover" => file.number = NumberOf(Cover) /\ done \in 0 .. Len(Bitmap) - 1
  /\ at \in {"ask", "take"} =>
       /\ done \in 0 .. 7 /\ offset = done + (IF done > 5 THEN List(s) ELSE 0)
       /\ done > 1 => file.size = Base(s) + Total(s) - 2
  /\ at \in {"ask", "take", "fill", "start"} \cup Looping => file.number = Number(s)
  /\ at \in {"fill", "start"} \cup Looping => file.size = Base(s) + Total(s) - 2
  /\ at = "fill" => done \in 0 .. N /\ offset = Base(s) + done * Chunk
  /\ at = "start" => offset = Base(s) + Ring
  /\ at \in Looping => /\ index \in 0 .. N - 1 /\ written = index * Chunk
                       /\ offset \in Nat /\ offset >= Base(s) + Ring
  /\ at = "off" => offset >= file.size

\* The ring holds the first x samples.
FilledTo(s, x) == \A k \in 0 .. Ring - 1 : ring[k] = IF k < x THEN Sample(s, k) ELSE 0

FilledInv(s) ==
  /\ at \in Preparing \ {"fill", "start"} => FilledTo(s, 0)
  /\ at = "fill" => FilledTo(s, IF done = 0 THEN 0 ELSE (done - 1) * Chunk + Len(read.data))
  /\ at = "start" => FilledTo(s, Ring)

\* In the loop it holds the samples that were read last, but for the chunk that is
\* being filled, and, when the file has ended, its last chunk.
Kept(j) == /\ at = "advance" => j >= Len(read.data)
           /\ at \in {"end", "off"} => j < Ring - Chunk \/ offset < file.size

RingInv(s) ==
  /\ at \in Looping =>
       \A j \in 0 .. Ring - 1 :
         Kept(j) => ring[Wrap(written + j)] = Sample(s, offset - Base(s) - Ring + j)
  /\ at = "advance" =>
       \A j \in 0 .. Len(read.data) - 1 : ring[written + j] = Sample(s, offset - Base(s) + j)

\* The hardware is d samples ahead of what has been filled again: it was more than
\* a chunk ahead when that is filled, and never more than two when it was seen.
Ahead(s, d) ==
  /\ position = Wrap(written + d)
  /\ heard = Least(offset - Base(s) - Ring + d, Total(s))
  /\ since \in 0 .. Pace /\ since <= d
  /\ at \in {"look", "end", "off"} => d - since <= Chunk
  /\ at = "judge" => d - since <= 2 * Chunk /\ seen = Wrap(written + (d - since))
  /\ at \in {"copy", "advance"} => d - since > Chunk /\ d - since <= 2 * Chunk

HardwareInv(s) == at \in Looping => \E d \in 0 .. Ring : Ahead(s, d)

SongInv(s) == /\ PlayerTypeOK(s) /\ StillInv /\ ReadInv(s) /\ PlaceInv(s)
              /\ FilledInv(s) /\ RingInv(s) /\ HardwareInv(s)

\* The inductive invariant.
IInv == CacheTypeOK /\ CacheExact /\ PlaysInOrder /\ SongInv(song)

\* At the start nothing has been read.
LEMMA InitSong ==
  ASSUME NEW s \in Songs, song = s, Init
  PROVE  SongInv(s)
<1> USE DEF Init, Mounting, Preparing, Looping
<1>1. PlayerTypeOK(s) /\ StillInv
  <2>1. file = [number |-> file.number, size |-> file.size] /\ DOMAIN ring = 0 .. Ring - 1
    OBVIOUS
  <2>2. PlayerTypeOK(s)
    BY <2>1 DEF PlayerTypeOK
  <2> QED BY <2>2 DEF StillInv
<1>2. ReadInv(s) /\ PlaceInv(s)
  BY DEF ReadInv, PlaceInv, Mount, Idle
<1>3. Ring - 1 \in Int /\ \A k \in 0 .. Ring - 1 : ~(k < 0)
  BY RingFacts
<1>4. FilledInv(s)
  BY <1>3 DEF FilledInv, FilledTo
<1>5. RingInv(s) /\ HardwareInv(s)
  BY DEF RingInv, HardwareInv
<1> QED BY <1>1, <1>2, <1>4, <1>5 DEF SongInv

-----------------------------------------------------------------------------
(* Before the loop *)

\* What a step keeps that leaves the ring and the hardware alone, before the loop.
LEMMA Prepare ==
  ASSUME NEW s, PlayerTypeOK(s), StillInv, at \in Preparing, at' \in Preparing,
         UNCHANGED <<song, ring, loop, hardware>>,
         file' = [number |-> file'.number, size |-> file'.size]
  PROVE  PlayerTypeOK(s)' /\ StillInv' /\ RingInv(s)' /\ HardwareInv(s)'
<1> USE DEF loop, hardware, Mounting, Preparing, Looping
<1>1. PlayerTypeOK(s)'
  BY DEF PlayerTypeOK
<1>2. StillInv'
  BY DEF StillInv
<1>3. RingInv(s)' /\ HardwareInv(s)'
  BY DEF RingInv, HardwareInv
<1> QED BY <1>1, <1>2, <1>3

\* The file stays what it is.
LEMMA SameFile ==
  ASSUME NEW s, PlayerTypeOK(s), file' = file
  PROVE  file' = [number |-> file'.number, size |-> file'.size]
BY DEF PlayerTypeOK

\* Mounting: the directory is the root's.
LEMMA MountSong ==
  ASSUME NEW s, SongInv(s), CountEntries \/ ReadEntries \/ Mounted
  PROVE  SongInv(s)'
<1> USE DEF Goto, caches, fs, Mounting, Preparing, Looping
<1>1. /\ at \in Mounting /\ at' \in {"count", "entries", "begin"} /\ Idle
      /\ UNCHANGED <<song, file, offset, done, ring, loop, hardware>>
      /\ at' \in {"count", "entries"} => ReadRoot
      /\ at' = "begin" => at = "entries" /\ SetArray /\ UNCHANGED <<blocks, nodes, read>>
  BY DEF CountEntries, ReadEntries, Mounted
<1>2. PlayerTypeOK(s) /\ StillInv
  BY DEF SongInv
<1>3. /\ Size(Root) \in Nat /\ RootCells \in Nat /\ Extent(Root, 0, RootCells) = RootCells
  <2>1. Size(Root) \in Nat
    BY <1>2, DriveFacts DEF PlayerTypeOK
  <2>2. PICK q \in Nat, r \in 0 .. BlockSize - 1 :
          Size(Root) = q * BlockSize + r /\ q = Size(Root) \div BlockSize
    BY <2>1, Geometry, DivIsNat
  <2>3. RootCells = q * BlockSize /\ q * BlockSize \in Nat
    BY <2>2, Geometry DEF RootCells, Size
  <2>4. PICK c \in Nat : c = q * BlockSize
    BY <2>3
  <2>5. c <= Size(Root)
    BY <2>2, <2>4
  <2> QED BY <2>1, <2>3, <2>4, <2>5 DEF Extent, Least
<1>4. PlayerTypeOK(s)' /\ StillInv' /\ RingInv(s)' /\ HardwareInv(s)'
  BY <1>1, <1>2, SameFile, Prepare
<1>5. at' \in {"count", "entries"} => Reads(Root, 0, RootCells)'
  BY <1>1, <1>3, StartReads DEF ReadRoot
<1>6. at' = "begin" => Idle' /\ arr' = RootEntries
  <2> SUFFICES ASSUME at' = "begin" PROVE Idle' /\ arr' = RootEntries
    OBVIOUS
  <2>1. Reads(Root, 0, RootCells)
    BY <1>1 DEF SongInv, ReadInv
  <2>2. read.data = Cut(Root, 0, RootCells)
    BY <1>1, <1>3, <2>1, ReadsAll
  <2>3. Cut(Root, 0, RootCells) = [k \in 1 .. RootCells |-> CellsOf(Root)[k]]
    BY <1>3 DEF Cut
  <2> QED BY <1>1, <2>2, <2>3 DEF SetArray, RootEntries, Idle
<1>7. ReadInv(s)'
  BY <1>1, <1>5, <1>6 DEF ReadInv
<1>8. PlaceInv(s)'
  BY <1>1, <1>6 DEF SongInv, PlaceInv
<1>9. FilledInv(s)'
  BY <1>1 DEF SongInv, FilledInv, FilledTo
<1> QED BY <1>4, <1>7, <1>8, <1>9 DEF SongInv

\* Opening finds what is in the root directory, and the cover leaves the ring alone.
LEMMA CoverSong ==
  ASSUME NEW s, SongInv(s), OpenCover \/ ReadCover \/ OpenSong
  PROVE  SongInv(s)'
<1> USE DEF Goto, caches, Mounting, Preparing, Looping
<1>1. PlayerTypeOK(s) /\ StillInv /\ s \in Songs
  BY DEF SongInv, PlayerTypeOK
<1>2. Size(NumberOf(Cover)) \in Nat /\ Size(Number(s)) \in Nat
  BY <1>1, DriveFacts
<1>3. Len(Bitmap) \in Nat \ {0} /\ \A i \in 1 .. Len(Bitmap) : Bitmap[i][1] \in Nat /\ Bitmap[i][2] \in Nat
  BY PlayerAssumption
<1>4. CASE OpenCover \/ OpenSong
  <2>1. /\ at \in {"begin", "open"} /\ at' = (IF at = "begin" THEN "cover" ELSE "ask") /\ Idle
        /\ UNCHANGED <<song, offset, done, ring, loop, hardware, read, arr>>
        /\ file' = [file EXCEPT !.number = FindName(IF at = "begin" THEN Cover ELSE song)]
    BY <1>4 DEF OpenCover, OpenSong, Open
  <2>2. /\ arr = RootEntries /\ done = 0 /\ offset = 0 /\ song = s
    BY <2>1 DEF SongInv, PlaceInv, PlayerTypeOK
  <2>3. /\ file' = [number |-> file'.number, size |-> file'.size]
        /\ file'.number = IF at = "begin" THEN NumberOf(Cover) ELSE Number(s)
    BY <2>1, <2>2, <1>1 DEF FindName, NumberOf, Number, PlayerTypeOK
  <2>4. PlayerTypeOK(s)' /\ StillInv' /\ RingInv(s)' /\ HardwareInv(s)'
    BY <1>1, <2>1, <2>3, Prepare
  <2>5. ReadInv(s)'
    BY <2>1 DEF ReadInv, Idle
  <2>6. PlaceInv(s)'
    BY <1>3, <2>1, <2>2, <2>3 DEF PlaceInv
  <2>7. FilledInv(s)'
    BY <2>1 DEF SongInv, FilledInv, FilledTo
  <2> QED BY <2>4, <2>5, <2>6, <2>7 DEF SongInv
<1>5. CASE ReadCover
  <2>1. /\ at = "cover" /\ Idle
        /\ UNCHANGED <<song, file, offset, ring, loop, hardware, blocks, nodes, arr>>
    BY <1>5 DEF ReadCover
  <2>2. file.number = NumberOf(Cover) /\ done \in 0 .. Len(Bitmap) - 1 /\ offset = 0 /\ arr = RootEntries
    BY <2>1 DEF SongInv, PlaceInv
  <2>3. PICK i \in 1 .. Len(Bitmap) : i = done + 1
    BY <1>3, <2>2
  <2>4. /\ at' = IF i = Len(Bitmap) THEN "open" ELSE "cover"
        /\ done' = IF i = Len(Bitmap) THEN 0 ELSE i
        /\ StartRead(NumberOf(Cover), Bitmap[i][1], Bitmap[i][2])
    <3>1. i % Len(Bitmap) = IF i = Len(Bitmap) THEN 0 ELSE i
      <4>1. PICK m \in Nat \ {0} : m = Len(Bitmap)
        BY <1>3
      <4>2. i \in 1 .. m
        BY <4>1
      <4>3. i % m = IF i = m THEN 0 ELSE i
        BY <4>2
      <4> QED BY <4>1, <4>3
    <3>2. done = Len(Bitmap) - 1 <=> i = Len(Bitmap)
      BY <1>3, <2>2, <2>3
    <3> QED BY <1>5, <2>2, <2>3, <3>1, <3>2 DEF ReadCover
  <2>5. Reads(NumberOf(Cover), Bitmap[i][1], Bitmap[i][2])'
    BY <1>2, <1>3, <2>4, StartReads
  <2>6. PlayerTypeOK(s)' /\ StillInv' /\ RingInv(s)' /\ HardwareInv(s)'
    BY <1>1, <2>1, <2>4, SameFile, Prepare
  <2>7. ReadInv(s)'
    BY <2>4, <2>5 DEF ReadInv
  <2>8. PlaceInv(s)'
    BY <1>3, <2>1, <2>2, <2>4 DEF PlaceInv
  <2>9. FilledInv(s)'
    BY <2>1, <2>4 DEF SongInv, FilledInv, FilledTo
  <2> QED BY <2>6, <2>7, <2>8, <2>9 DEF SongInv
<1> QED BY <1>4, <1>5

\* The head of the file: size_of_the_whole_file, and where the samples begin.
LEMMA FieldSong ==
  ASSUME NEW s, SongInv(s), AskField \/ TakeField
  PROVE  SongInv(s)'
<1> USE DEF Goto, caches, fs, Mounting, Preparing, Looping
<1>1. PlayerTypeOK(s) /\ StillInv /\ s \in Songs
  BY DEF SongInv, PlayerTypeOK
<1>2. /\ at \in {"ask", "take"} /\ Idle
      /\ UNCHANGED <<song, ring, loop, hardware>>
  BY DEF AskField, TakeField
<1>3. /\ done \in 0 .. 7 /\ offset = done + (IF done > 5 THEN List(s) ELSE 0)
      /\ done > 1 => file.size = Base(s) + Total(s) - 2
      /\ file.number = Number(s)
  BY <1>2 DEF SongInv, PlaceInv
<1>4. /\ Size(Number(s)) \in Nat /\ Total(s) \in Nat /\ List(s) \in Nat /\ Base(s) = 8 + List(s)
      /\ Size(Number(s)) = Base(s) + Total(s)
      /\ CellsOf(Number(s))[2] = Base(s) + Total(s) - 2 /\ CellsOf(Number(s))[6] = List(s)
  BY <1>1, DriveFacts
<1>5. PICK o \in Nat : o = offset /\ o < Base(s)
  BY <1>3, <1>4
<1>6. CASE AskField
  <2>1. at = "ask" /\ at' = "take" /\ UNCHANGED <<file, offset, done>>
        /\ StartRead(Number(s), o, 1)
    BY <1>3, <1>5, <1>6 DEF AskField
  <2>2. Reads(Number(s), o, 1)'
    BY <1>4, <2>1, StartReads
  <2>3. PlayerTypeOK(s)' /\ StillInv' /\ RingInv(s)' /\ HardwareInv(s)'
    BY <1>1, <1>2, <2>1, SameFile, Prepare
  <2>4. ReadInv(s)'
    BY <1>5, <2>1, <2>2 DEF ReadInv
  <2>5. PlaceInv(s)'
    BY <1>3, <2>1 DEF PlaceInv
  <2>6. FilledInv(s)'
    BY <1>2, <2>1 DEF SongInv, FilledInv, FilledTo
  <2> QED BY <2>3, <2>4, <2>5, <2>6 DEF SongInv
<1>7. CASE TakeField
  <2> DEFINE field == read.data[1]
  <2>1. /\ at = "take" /\ at' = (IF done = 7 THEN "fill" ELSE "ask")
        /\ file' = IF done = 1 THEN [file EXCEPT !.size = field] ELSE file
        /\ offset' = offset + 1 + (IF done = 5 THEN field ELSE 0)
        /\ done' = (done + 1) % 8
        /\ UNCHANGED <<read, arr>>
    BY <1>7 DEF TakeField
  <2>2. Reads(Number(s), o, 1)
    BY <1>5, <2>1 DEF SongInv, ReadInv
  <2>3. Extent(Number(s), o, 1) = 1
    BY <1>4, <1>5 DEF Extent, Least
  <2>4. field = CellsOf(Number(s))[o + 1]
    <3>1. read.data = Cut(Number(s), o, 1)
      BY <1>2, <1>4, <2>2, <2>3, ReadsAll
    <3> QED BY <3>1 DEF Cut
  <2> HIDE DEF field
  <2>5. /\ done = 1 => field = Base(s) + Total(s) - 2
        /\ done = 5 => field = List(s)
    BY <1>3, <1>4, <1>5, <2>4
  <2>6. /\ file' = [number |-> file'.number, size |-> file'.size]
        /\ file'.number = Number(s)
        /\ done >= 1 => file'.size = Base(s) + Total(s) - 2
    <3>1. done = 1 \/ done > 1 \/ done = 0
      BY <1>3
    <3> QED BY <1>1, <1>3, <2>1, <2>5, <3>1 DEF PlayerTypeOK
  <2>7. /\ done' = IF done = 7 THEN 0 ELSE done + 1
        /\ done = 7 => offset' = Base(s)
        /\ done # 7 => offset' = (done + 1) + (IF done + 1 > 5 THEN List(s) ELSE 0)
    <3>1. (done + 1) % 8 = IF done = 7 THEN 0 ELSE done + 1
      BY <1>3
    <3>2. /\ done = 7 => offset' = Base(s)
          /\ done # 7 => offset' = (done + 1) + (IF done + 1 > 5 THEN List(s) ELSE 0)
      BY <1>3, <1>4, <2>1, <2>5
    <3> QED BY <2>1, <3>1, <3>2
  <2>8. PlayerTypeOK(s)' /\ StillInv' /\ RingInv(s)' /\ HardwareInv(s)'
    BY <1>1, <1>2, <2>1, <2>6, Prepare
  <2>9. ReadInv(s)'
    BY <1>2, <2>1, <2>7 DEF ReadInv, Idle
  <2>10. PlaceInv(s)'
    <3>1. CASE done = 7
      <4>1. at' = "fill" /\ done' = 0 /\ 0 \in 0 .. N /\ offset' = Base(s) + 0 * Chunk
        BY <1>4, <2>1, <2>7, <3>1, RingFacts
      <4> QED BY <2>6, <3>1, <4>1 DEF PlaceInv
    <3>2. CASE done # 7
      <4>1. /\ at' = "ask" /\ done' \in 0 .. 7 /\ done' = done + 1
            /\ offset' = done' + (IF done' > 5 THEN List(s) ELSE 0)
            /\ done' > 1 => file'.size = Base(s) + Total(s) - 2
        BY <1>3, <2>1, <2>6, <2>7, <3>2
      <4> QED BY <2>6, <4>1 DEF PlaceInv
    <3> QED BY <3>1, <3>2
  <2>11. FilledInv(s)'
    BY <1>2, <2>1, <2>7 DEF SongInv, FilledInv, FilledTo
  <2> QED BY <2>8, <2>9, <2>10, <2>11 DEF SongInv
<1> QED BY <1>6, <1>7

\* Behind the last sample there is silence, as in a fresh frame.
LEMMA FilledUp ==
  ASSUME NEW s \in Songs, NEW x \in Nat, NEW y \in Nat, FilledTo(s, x),
         x <= y, x = y \/ x >= Total(s)
  PROVE  FilledTo(s, y)
<1>1. Ring \in Nat /\ Total(s) \in Nat
  BY RingFacts, DriveFacts
<1>2. ASSUME NEW k \in 0 .. Ring - 1 PROVE ring[k] = IF k < y THEN Sample(s, k) ELSE 0
  <2>1. ring[k] = IF k < x THEN Sample(s, k) ELSE 0
    BY DEF FilledTo
  <2>2. ~(k < x) /\ k < y => ~(k < Total(s))
    BY <1>1
  <2> QED BY <1>1, <2>1, <2>2 DEF Sample
<1> QED BY <1>2 DEF FilledTo

\* A chunk that has been read is filled.
LEMMA ChunkFilled ==
  ASSUME NEW s, SongInv(s), at = "fill", Idle
  PROVE  /\ done \in 0 .. N /\ done * Chunk \in Nat
         /\ offset = Base(s) + done * Chunk
         /\ FilledTo(s, done * Chunk)
<1>1. PlayerTypeOK(s) /\ s \in Songs
  BY DEF SongInv, PlayerTypeOK
<1>2. done \in 0 .. N /\ offset = Base(s) + done * Chunk
  BY DEF SongInv, PlaceInv
<1>3. /\ Size(Number(s)) \in Nat /\ Base(s) \in Nat /\ Total(s) \in Nat
      /\ N \in Nat /\ Chunk \in Nat /\ 0 * Chunk = 0
  BY <1>1, DriveFacts, RingFacts
<1>4. FilledTo(s, IF done = 0 THEN 0 ELSE (done - 1) * Chunk + Len(read.data))
  BY DEF SongInv, FilledInv
<1>5. CASE done = 0
  BY <1>2, <1>3, <1>4, <1>5
<1>6. CASE done # 0
  <2>1. PICK i \in 0 .. N - 1 : i = done - 1 /\ i + 1 = done
    BY <1>2, <1>3, <1>6
  <2>2. PICK first \in Nat : first = i * Chunk /\ done * Chunk = first + Chunk
    BY <2>1, ChunkFacts
  <2>3. PICK o \in Nat : o = offset - Chunk /\ o = Base(s) + first
    BY <1>2, <1>3, <2>2
  <2>4. Reads(Number(s), o, Chunk)
    BY <1>3, <1>6, <1>2, <2>3 DEF SongInv, ReadInv
  <2>5. PICK x \in 0 .. Chunk : x = Extent(Number(s), o, Chunk) /\ (x < Chunk => first + x >= Total(s))
    BY <1>1, <1>3, <2>3, SoundIsRead
  <2>6. Len(read.data) = x
    BY <1>3, <2>4, <2>5, ReadsAll, CutLen
  <2>7. FilledTo(s, first + x)
    BY <1>4, <1>6, <2>1, <2>2, <2>6
  <2>8. /\ first + x \in Nat /\ first + Chunk \in Nat /\ first + x <= first + Chunk
        /\ first + x = first + Chunk \/ first + x >= Total(s)
    BY <1>3, <2>5
  <2>9. FilledTo(s, first + Chunk)
    BY <1>1, <2>7, <2>8, FilledUp
  <2> QED BY <1>2, <2>2, <2>8, <2>9
<1> QED BY <1>5, <1>6

\* setup_for_audio() fills the chunks one by one, then looks at the first again.
LEMMA FillSong ==
  ASSUME NEW s, SongInv(s), FillChunk \/ Peek
  PROVE  SongInv(s)'
<1> USE DEF Goto, caches, Mounting, Preparing, Looping
<1>1. PlayerTypeOK(s) /\ StillInv /\ s \in Songs
  BY DEF SongInv, PlayerTypeOK
<1>2. /\ at = "fill" /\ Idle
      /\ UNCHANGED <<song, file, ring, loop, hardware>>
  BY DEF FillChunk, Peek
<1>3. /\ done \in 0 .. N /\ done * Chunk \in Nat
      /\ offset = Base(s) + done * Chunk
      /\ FilledTo(s, done * Chunk)
  BY <1>2, ChunkFilled
<1>4. file.number = Number(s) /\ file.size = Base(s) + Total(s) - 2
  BY <1>2 DEF SongInv, PlaceInv
<1>5. /\ Size(Number(s)) \in Nat /\ Base(s) \in Nat /\ Total(s) \in Nat
      /\ N \in Nat /\ Chunk \in Nat /\ Ring \in Nat /\ N * Chunk = Ring
  BY <1>1, DriveFacts, RingFacts
<1>6. PICK first \in Nat : first = done * Chunk
  BY <1>3
<1>7. CASE FillChunk
  <2>1. /\ done < N /\ at' = "fill" /\ StartRead(Number(s), offset, Chunk)
        /\ offset' = offset + Chunk /\ done' = done + 1
    BY <1>4, <1>7 DEF FillChunk
  <2>2. PICK o \in Nat : o = offset /\ offset' - Chunk = o
    BY <1>3, <1>5, <1>6, <2>1
  <2>3. Reads(Number(s), o, Chunk)'
    BY <1>5, <2>1, <2>2, StartReads
  <2>4. Reads(Number(s), offset - Chunk, Chunk)'
    BY <2>2, <2>3
  <2>5. PlayerTypeOK(s)' /\ StillInv' /\ RingInv(s)' /\ HardwareInv(s)'
    BY <1>1, <1>2, <2>1, SameFile, Prepare
  <2>6. ReadInv(s)'
    BY <1>3, <2>1, <2>4 DEF ReadInv
  <2>7. PlaceInv(s)'
    <3>1. done \in 0 .. N - 1 /\ done' \in 0 .. N /\ done' * Chunk = first + Chunk
      BY <1>3, <1>5, <1>6, <2>1, ChunkFacts
    <3>2. offset' = Base(s) + done' * Chunk
      BY <1>3, <1>5, <1>6, <2>1, <3>1
    <3> QED BY <1>2, <1>4, <2>1, <3>1, <3>2 DEF PlaceInv
  <2>8. FilledInv(s)'
    <3>1. Len(read'.data) = 0
      BY <2>1 DEF StartRead
    <3>2. done' # 0 /\ (done' - 1) * Chunk + Len(read'.data) = first
      BY <1>3, <1>5, <1>6, <2>1, <3>1
    <3>3. FilledTo(s, first)
      BY <1>3, <1>6
    <3> QED BY <1>2, <2>1, <3>2, <3>3 DEF FilledInv, FilledTo
  <2> QED BY <2>5, <2>6, <2>7, <2>8 DEF SongInv
<1>8. CASE Peek
  <2>1. /\ done = N /\ at' = "start" /\ StartRead(Number(s), offset - Ring, 2)
        /\ offset' = offset /\ done' = 0
    BY <1>4, <1>8 DEF Peek
  <2>2. offset = Base(s) + Ring /\ FilledTo(s, Ring)
    BY <1>3, <1>5, <2>1
  <2>3. PICK o \in Nat : o = offset - Ring
    BY <1>5, <2>2
  <2>4. Reads(Number(s), o, 2)'
    BY <1>5, <2>1, <2>3, StartReads
  <2>5. PlayerTypeOK(s)' /\ StillInv' /\ RingInv(s)' /\ HardwareInv(s)'
    BY <1>1, <1>2, <2>1, SameFile, Prepare
  <2>6. ReadInv(s)'
    BY <2>1, <2>3, <2>4 DEF ReadInv
  <2>7. PlaceInv(s)'
    BY <1>2, <1>4, <2>1, <2>2 DEF PlaceInv
  <2>8. FilledInv(s)'
    BY <1>2, <2>1, <2>2 DEF FilledInv, FilledTo
  <2> QED BY <2>5, <2>6, <2>7, <2>8 DEF SongInv
<1> QED BY <1>7, <1>8

\* When the hardware starts, the ring is full.
LEMMA StartSong ==
  ASSUME NEW s, SongInv(s), Start
  PROVE  SongInv(s)'
<1> USE DEF Goto, fs, Mounting, Preparing, Looping
<1>1. PlayerTypeOK(s) /\ s \in Songs
  BY DEF SongInv, PlayerTypeOK
<1>2. /\ at = "start" /\ at' = "look" /\ Idle /\ run' = TRUE
      /\ UNCHANGED <<song, file, offset, ring, index, written, since, position, heard, read>>
  BY DEF Start, loop
<1>3. /\ offset = Base(s) + Ring /\ file.number = Number(s)
      /\ file.size = Base(s) + Total(s) - 2 /\ FilledTo(s, Ring)
      /\ position = 0 /\ since = 0 /\ heard = 0 /\ index = 0 /\ written = 0
  BY <1>2 DEF SongInv, PlaceInv, FilledInv, StillInv
<1>4. /\ Base(s) \in Nat /\ Total(s) \in Nat /\ Ring \in Nat /\ Ring > 0
      /\ N \in Nat /\ N >= 3 /\ Chunk \in Nat /\ Chunk > 0 /\ Pace \in 1 .. Chunk /\ 0 * Chunk = 0
  BY <1>1, DriveFacts, RingFacts
<1>5. PlayerTypeOK(s)'
  BY <1>2 DEF SongInv, PlayerTypeOK
<1>6. StillInv' /\ FilledInv(s)' /\ ReadInv(s)'
  BY <1>2 DEF StillInv, FilledInv, ReadInv, Idle
<1>7. PlaceInv(s)'
  BY <1>2, <1>3, <1>4 DEF PlaceInv
<1>8. RingInv(s)'
  <2>1. ASSUME NEW j \in 0 .. Ring - 1
        PROVE  ring'[Wrap(written' + j)] = Sample(s, offset' - Base(s) - Ring + j)
    <3>1. Wrap(0 + j) = j /\ (Base(s) + Ring) - Base(s) - Ring + j = j
      BY <1>4 DEF Wrap
    <3>2. ring[j] = Sample(s, j)
      BY <1>3, <1>4 DEF FilledTo
    <3> QED BY <1>2, <1>3, <3>1, <3>2
  <2> QED BY <1>2, <2>1 DEF RingInv
<1>9. HardwareInv(s)'
  <2>1. /\ 0 \in 0 .. Ring /\ Wrap(0 + 0) = 0 /\ 0 - 0 = 0 /\ 0 \in 0 .. Pace
        /\ (Base(s) + Ring) - Base(s) - Ring + 0 = 0 /\ Least(0, Total(s)) = 0
    BY <1>4 DEF Wrap, Least
  <2>2. Ahead(s, 0)'
    BY <1>2, <1>3, <1>4, <2>1 DEF Ahead
  <2> QED BY <2>1, <2>2 DEF HardwareInv
<1> QED BY <1>5, <1>6, <1>7, <1>8, <1>9 DEF SongInv

-----------------------------------------------------------------------------
(* Reading, in any place *)

\* The samples that a read_all() has got so far.
LEMMA SoundRead ==
  ASSUME NEW s \in Songs, NEW e \in Nat, NEW from, from = Base(s) + e, NEW n \in Nat, NEW r,
         \E left \in 0 .. Extent(Number(s), from, n) :
           r.data = Cut(Number(s), from, Extent(Number(s), from, n) - left)
  PROVE  Len(r.data) \in 0 .. n /\ Sounds(r.data, s, e)
<1>1. PICK x : x = Extent(Number(s), from, n)
  OBVIOUS
<1>2. x \in 0 .. n /\ \A got \in 0 .. x : Sounds(Cut(Number(s), from, got), s, e)
  BY <1>1, SoundIsRead
<1>3. PICK left \in 0 .. x : r.data = Cut(Number(s), from, x - left)
  BY <1>1
<1>4. PICK got \in 0 .. x : got = x - left
  BY <1>2, <1>3
<1>5. r.data = Cut(Number(s), from, got) /\ Len(Cut(Number(s), from, got)) = got
  BY <1>2, <1>3, <1>4, CutLen
<1> QED BY <1>2, <1>4, <1>5

\* Fetch goes on with what is being read, whatever the thread is at.
LEMMA FetchRead ==
  ASSUME CacheTypeOK, CacheExact, NEW s, SongInv(s), Fetch
  PROVE  /\ ReadInv(s)'
         /\ at \in {"count", "entries", "cover", "open", "take", "fill", "start", "copy", "advance"}
         /\ at = "fill" => done > 0
         /\ read.offset \in Nat
         /\ Len(read.data) \in Nat /\ Len(read'.data) \in Nat /\ Len(read.data) <= Len(read'.data)
<1> USE DEF Mounting, Preparing, Looping
<1>1. PlayerTypeOK(s) /\ s \in Songs
  BY DEF SongInv, PlayerTypeOK
<1>2. ReadInv(s) /\ PlaceInv(s)
  BY DEF SongInv
<1>3. ReadBlock /\ ~Idle /\ UNCHANGED <<at, song, file, offset, done>>
  BY DEF Fetch, ReadBlock
<1>4. /\ Size(Root) \in Nat /\ Size(NumberOf(Cover)) \in Nat /\ Size(Number(s)) \in Nat
      /\ Base(s) \in Nat /\ List(s) \in Nat
      /\ N \in Nat /\ Chunk \in Nat /\ Ring \in Nat
  BY <1>1, DriveFacts, RingFacts
<1>5. Len(Bitmap) \in Nat \ {0} /\ \A i \in 1 .. Len(Bitmap) : Bitmap[i][1] \in Nat /\ Bitmap[i][2] \in Nat
  BY PlayerAssumption
<1>6. at \in {"count", "entries", "cover", "open", "take", "fill", "start", "copy", "advance"}
      /\ ~(at = "fill" /\ done = 0)
  BY <1>1, <1>2, <1>3 DEF PlayerTypeOK, ReadInv
<1>7. CASE at \in {"count", "entries"}
  <2>1. Reads(Root, 0, RootCells) /\ RootCells \in Nat
    <3>1. \A c \in Nat : (c \div BlockSize) * BlockSize \in Nat
      BY Geometry, DivIsNat
    <3> QED BY <1>2, <1>4, <1>7, <3>1 DEF ReadInv, RootCells, Size
  <2> QED BY <1>3, <1>4, <1>7, <2>1, FetchReads DEF ReadInv
<1>8. CASE at \in {"cover", "open"}
  <2>1. PICK i \in 1 .. Len(Bitmap) : Reads(NumberOf(Cover), Bitmap[i][1], Bitmap[i][2])
    BY <1>2, <1>3, <1>8 DEF ReadInv
  <2> QED BY <1>3, <1>4, <1>5, <1>8, <2>1, FetchReads DEF ReadInv
<1>9. CASE at = "take"
  <2>1. PICK o \in Nat : o = offset
    BY <1>2, <1>4, <1>9 DEF PlaceInv
  <2>2. Reads(Number(s), o, 1)
    BY <1>2, <1>9, <2>1 DEF ReadInv
  <2> QED BY <1>3, <1>4, <1>9, <2>1, <2>2, FetchReads DEF ReadInv
<1>10. CASE at = "fill"
  <2>1. done \in 1 .. N /\ offset = Base(s) + done * Chunk
    BY <1>2, <1>4, <1>6, <1>10 DEF PlaceInv
  <2>2. PICK i \in 0 .. N - 1 : i + 1 = done
    BY <1>4, <2>1
  <2>3. PICK first \in Nat : done * Chunk = first + Chunk
    BY <2>2, ChunkFacts
  <2>4. PICK o \in Nat : o = offset - Chunk
    BY <1>4, <2>1, <2>3
  <2>5. Reads(Number(s), o, Chunk)
    BY <1>2, <1>10, <2>1, <2>4 DEF ReadInv
  <2> QED BY <1>3, <1>4, <1>10, <2>1, <2>4, <2>5, FetchReads DEF ReadInv
<1>11. CASE at = "start"
  <2>1. PICK o \in Nat : o = offset - Ring
    BY <1>2, <1>4, <1>11 DEF PlaceInv
  <2>2. Reads(Number(s), o, 2)
    BY <1>2, <1>11, <2>1 DEF ReadInv
  <2> QED BY <1>3, <1>4, <1>11, <2>1, <2>2, FetchReads DEF ReadInv
<1>12. CASE at \in {"copy", "advance"}
  <2>1. PICK o \in Nat : o = offset
    BY <1>2, <1>12 DEF PlaceInv
  <2>2. PICK n \in Nat : n = IF at = "copy" THEN 2 ELSE Chunk
    BY <1>4
  <2>3. Reads(Number(s), o, n)
    BY <1>2, <1>12, <2>1, <2>2 DEF ReadInv
  <2>4. /\ Reads(Number(s), o, n)'
        /\ read.offset \in Nat
        /\ Len(read.data) \in Nat /\ Len(read'.data) \in Nat /\ Len(read.data) <= Len(read'.data)
    BY <1>3, <1>4, <2>3, FetchReads
  <2> QED BY <1>3, <1>12, <2>1, <2>2, <2>4 DEF ReadInv
<1> QED BY <1>6, <1>7, <1>8, <1>9, <1>10, <1>11, <1>12

\* The chunk of the ring that begins at first gets the samples from number e on.
LEMMA CopiedIn ==
  ASSUME NEW s \in Songs, NEW e \in Nat, NEW first \in Nat, NEW o, o = Base(s) + e,
         first + Chunk <= Ring, DOMAIN ring = 0 .. Ring - 1, Reads(Number(s), o, Chunk)',
         ring' = [k \in DOMAIN ring |-> IF k \in first .. first + Len(read'.data) - 1
                                        THEN read'.data[k - first + 1] ELSE ring[k]]
  PROVE  /\ DOMAIN ring' = 0 .. Ring - 1
         /\ Len(read'.data) \in 0 .. Chunk
         /\ \A j \in 0 .. Len(read'.data) - 1 :
              first + j \in 0 .. Ring - 1 /\ ring'[first + j] = Sample(s, e + j)
         /\ \A k \in 0 .. Ring - 1 :
              k < first \/ k >= first + Len(read'.data) => ring'[k] = ring[k]
<1>1. Chunk \in Nat /\ Ring \in Nat
  BY RingFacts
<1>2. PICK r : r = read'
  OBVIOUS
<1>3. \E left \in 0 .. Extent(Number(s), o, Chunk) :
        r.data = Cut(Number(s), o, Extent(Number(s), o, Chunk) - left)
  BY <1>2 DEF Reads, ReadTo
<1>4. Len(r.data) \in 0 .. Chunk /\ Sounds(r.data, s, e)
  BY <1>1, <1>3, SoundRead
<1>5. PICK len \in 0 .. Chunk : len = Len(r.data)
  BY <1>4
<1>6. ring' = [k \in 0 .. Ring - 1 |-> IF k \in first .. first + len - 1
                                       THEN r.data[k - first + 1] ELSE ring[k]]
  BY <1>2, <1>5
<1>7. ASSUME NEW j \in 0 .. len - 1
      PROVE  first + j \in 0 .. Ring - 1 /\ ring'[first + j] = Sample(s, e + j)
  <2>1. /\ first + j \in 0 .. Ring - 1 /\ first + j \in first .. first + len - 1
        /\ (first + j) - first + 1 = j + 1 /\ j + 1 \in 1 .. len /\ (j + 1) - 1 = j
    BY <1>1
  <2>2. ring'[first + j] = r.data[j + 1]
    BY <1>6, <2>1
  <2>3. r.data[j + 1] = Sample(s, e + ((j + 1) - 1))
    BY <1>4, <1>5, <2>1 DEF Sounds
  <2> QED BY <2>1, <2>2, <2>3
<1>8. ASSUME NEW k \in 0 .. Ring - 1, k < first \/ k >= first + len
      PROVE  ring'[k] = ring[k]
  <2>1. k \notin first .. first + len - 1 /\ k \in DOMAIN ring
    BY <1>1, <1>8
  <2> QED BY <1>6, <2>1
<1> QED BY <1>2, <1>5, <1>6, <1>7, <1>8

\* A block goes into the chunk that is being filled, and nowhere else.
LEMMA FetchSong ==
  ASSUME CacheTypeOK, CacheExact, NEW s, SongInv(s), Fetch
  PROVE  SongInv(s)'
<1> USE DEF Mounting, Preparing, Looping
<1>1. PlayerTypeOK(s) /\ s \in Songs
  BY DEF SongInv, PlayerTypeOK
<1>2. /\ UNCHANGED <<at, song, file, offset, done, index, written, seen, run, since, position, heard>>
      /\ UNCHANGED arr
  BY DEF Fetch, ReadBlock, loop, hardware
<1>3. /\ ReadInv(s)' /\ Len(read.data) \in Nat /\ Len(read'.data) \in Nat
      /\ Len(read.data) <= Len(read'.data)
      /\ at = "fill" => done > 0
  BY FetchRead
<1>4. DOMAIN ring' = DOMAIN ring
  BY DEF Fetch
<1>5. PlayerTypeOK(s)' /\ StillInv' /\ PlaceInv(s)' /\ HardwareInv(s)'
  <2>1. PlayerTypeOK(s)'
    BY <1>1, <1>2, <1>4 DEF PlayerTypeOK
  <2>2. StillInv' /\ PlaceInv(s)'
    BY <1>2 DEF SongInv, StillInv, PlaceInv
  <2>3. HardwareInv(s)'
    BY <1>2 DEF SongInv, HardwareInv, Ahead
  <2> QED BY <2>1, <2>2, <2>3
<1>6. CASE at \notin {"fill", "advance"}
  <2>1. ring' = ring
    BY <1>6 DEF Fetch
  <2>2. FilledInv(s)'
    BY <1>2, <1>6, <2>1 DEF SongInv, FilledInv, FilledTo
  <2>3. RingInv(s)'
    BY <1>2, <1>6, <2>1 DEF SongInv, RingInv, Kept
  <2> QED BY <1>3, <1>5, <2>2, <2>3 DEF SongInv
<1>7. /\ Base(s) \in Nat /\ N \in Nat /\ Chunk \in Nat /\ Ring \in Nat
  BY <1>1, DriveFacts, RingFacts
<1>8. DOMAIN ring = 0 .. Ring - 1
  BY <1>1 DEF PlayerTypeOK
<1>9. CASE at = "fill"
  <2>1. done \in 1 .. N /\ offset = Base(s) + done * Chunk
    BY <1>3, <1>7, <1>9 DEF SongInv, PlaceInv
  <2>2. PICK i \in 0 .. N - 1 : i = done - 1 /\ i + 1 = done
    BY <1>7, <2>1
  <2>3. PICK first \in Nat : first = i * Chunk /\ done * Chunk = first + Chunk /\ first + Chunk <= Ring
    BY <2>2, ChunkFacts
  <2>4. PICK o : o = offset - Chunk /\ o = Base(s) + first
    BY <1>7, <2>1, <2>3
  <2>5. Reads(Number(s), o, Chunk)'
    BY <1>2, <1>3, <1>9, <2>1, <2>4 DEF ReadInv
  <2>6. ring' = [k \in DOMAIN ring |-> IF k \in first .. first + Len(read'.data) - 1
                                       THEN read'.data[k - first + 1] ELSE ring[k]]
    BY <1>9, <2>2, <2>3 DEF Fetch
  <2>7. /\ \A j \in 0 .. Len(read'.data) - 1 :
             first + j \in 0 .. Ring - 1 /\ ring'[first + j] = Sample(s, first + j)
        /\ \A k \in 0 .. Ring - 1 :
             k < first \/ k >= first + Len(read'.data) => ring'[k] = ring[k]
    <3>1. first \in Nat /\ first + Chunk <= Ring /\ o = Base(s) + first
      BY <2>3, <2>4
    <3> QED BY <1>1, <1>8, <2>5, <2>6, <3>1, CopiedIn
  <2>8. FilledTo(s, first + Len(read.data))
    BY <1>3, <1>9, <2>2, <2>3 DEF SongInv, FilledInv
  <2>9. PICK a \in Nat, b \in Nat : a = Len(read.data) /\ b = Len(read'.data) /\ a <= b
    BY <1>3
  <2>10. ASSUME NEW k \in 0 .. Ring - 1
         PROVE  ring'[k] = IF k < first + b THEN Sample(s, k) ELSE 0
    <3>1. CASE k >= first /\ k < first + b
      <4>1. PICK j \in 0 .. b - 1 : first + j = k
        BY <3>1
      <4> QED BY <2>7, <2>9, <3>1, <4>1
    <3>2. CASE k < first \/ k >= first + b
      <4>1. ring'[k] = ring[k]
        BY <2>7, <2>9, <3>2
      <4>2. ring[k] = IF k < first + a THEN Sample(s, k) ELSE 0
        BY <2>8, <2>9 DEF FilledTo
      <4> QED BY <2>9, <3>2, <4>1, <4>2
    <3> QED BY <1>7, <3>1, <3>2
  <2>11. FilledInv(s)'
    <3>1. (done' - 1) * Chunk + Len(read'.data) = first + b /\ done' # 0
      BY <1>2, <2>1, <2>2, <2>3, <2>9
    <3> QED BY <1>2, <1>9, <2>10, <3>1 DEF FilledInv, FilledTo
  <2>12. RingInv(s)'
    BY <1>2, <1>9 DEF RingInv
  <2> QED BY <1>3, <1>5, <2>11, <2>12 DEF SongInv
<1>10. CASE at = "advance"
  <2>1. index \in 0 .. N - 1 /\ written = index * Chunk /\ offset \in Nat /\ offset >= Base(s) + Ring
    BY <1>10 DEF SongInv, PlaceInv
  <2>2. PICK first \in Nat : first = written /\ first = index * Chunk /\ first + Chunk <= Ring
    BY <2>1, ChunkFacts
  <2>3. PICK e \in Nat : e = offset - Base(s) /\ offset = Base(s) + e
    BY <1>7, <2>1
  <2>4. Reads(Number(s), offset, Chunk)'
    BY <1>2, <1>3, <1>10 DEF ReadInv
  <2>5. ring' = [k \in DOMAIN ring |-> IF k \in first .. first + Len(read'.data) - 1
                                       THEN read'.data[k - first + 1] ELSE ring[k]]
    BY <1>10, <2>2 DEF Fetch
  <2>6. PICK o : o = offset
    OBVIOUS
  <2>7. Reads(Number(s), o, Chunk)'
    BY <1>2, <2>4, <2>6
  <2>8. /\ \A j \in 0 .. Len(read'.data) - 1 :
             first + j \in 0 .. Ring - 1 /\ ring'[first + j] = Sample(s, e + j)
        /\ \A k \in 0 .. Ring - 1 :
             k < first \/ k >= first + Len(read'.data) => ring'[k] = ring[k]
    BY <1>1, <1>8, <2>2, <2>3, <2>5, <2>6, <2>7, CopiedIn
  <2>9. PICK a \in Nat, b \in Nat : a = Len(read.data) /\ b = Len(read'.data) /\ a <= b
    BY <1>3
  <2>10. ASSUME NEW j \in 0 .. Ring - 1, j >= b
         PROVE  ring'[Wrap(first + j)] = Sample(s, offset - Base(s) - Ring + j)
    <3>1. PICK k \in 0 .. Ring - 1 : k = Wrap(first + j) /\ (k < first \/ k >= first + b)
      BY <1>7, <2>2, <2>10 DEF Wrap
    <3>2. ring'[k] = ring[k]
      BY <2>8, <2>9, <3>1
    <3>3. Kept(j)
      BY <1>10, <2>9, <2>10 DEF Kept
    <3>4. ring[Wrap(first + j)] = Sample(s, offset - Base(s) - Ring + j)
      BY <1>10, <2>2, <3>3 DEF SongInv, RingInv
    <3> QED BY <3>1, <3>2, <3>4
  <2>11. RingInv(s)'
    <3>1. ASSUME NEW j \in 0 .. Ring - 1, Kept(j)'
          PROVE  ring'[Wrap(written' + j)] = Sample(s, offset' - Base(s) - Ring + j)
      BY <1>2, <1>10, <2>2, <2>9, <2>10, <3>1 DEF Kept
    <3>2. \A j \in 0 .. Len(read'.data) - 1 : ring'[written' + j] = Sample(s, offset' - Base(s) + j)
      BY <1>2, <2>2, <2>3, <2>8
    <3> QED BY <1>2, <3>1, <3>2 DEF RingInv
  <2>12. FilledInv(s)'
    BY <1>2, <1>10 DEF FilledInv
  <2> QED BY <1>3, <1>5, <2>11, <2>12 DEF SongInv
<1> QED BY <1>6, <1>9, <1>10

-----------------------------------------------------------------------------
(* The loop *)

\* What holds all through the loop.
LEMMA LoopFacts ==
  ASSUME NEW s, SongInv(s), at \in Looping
  PROVE  /\ s \in Songs /\ song = s
         /\ Base(s) \in Nat /\ Total(s) \in Nat /\ Size(Number(s)) \in Nat
         /\ Ring \in Nat /\ Chunk \in Nat /\ Chunk > 0 /\ Pace \in 1 .. Chunk /\ 3 * Chunk <= Ring
         /\ offset \in Nat /\ offset >= Base(s) + Ring
         /\ written \in Nat /\ written + Chunk <= Ring
         /\ file.number = Number(s) /\ file.size = Base(s) + Total(s) - 2
<1>1. s \in Songs /\ song = s
  BY DEF SongInv, PlayerTypeOK
<1>2. /\ index \in 0 .. N - 1 /\ written = index * Chunk
      /\ offset \in Nat /\ offset >= Base(s) + Ring
      /\ file.number = Number(s) /\ file.size = Base(s) + Total(s) - 2
  BY DEF SongInv, PlaceInv, Looping
<1>3. written \in Nat /\ written + Chunk <= Ring
  BY <1>2, ChunkFacts
<1> QED BY <1>1, <1>2, <1>3, DriveFacts, RingFacts

\* What a step of the loop keeps that moves neither the place nor the ring.
LEMMA LoopKeeps ==
  ASSUME NEW s, SongInv(s), at \in Looping, at' \in Looping,
         UNCHANGED <<song, file, offset, index, written, ring>>,
         run' \in BOOLEAN, run' <=> at' # "off",
         at' = "off" => offset >= file.size,
         \A j \in 0 .. Ring - 1 : Kept(j)' => Kept(j),
         at' = "advance" => Len(read'.data) = 0
  PROVE  PlayerTypeOK(s)' /\ StillInv' /\ PlaceInv(s)' /\ FilledInv(s)' /\ RingInv(s)'
<1> USE DEF Mounting, Preparing, Looping
<1>1. PlayerTypeOK(s)'
  BY DEF SongInv, PlayerTypeOK
<1>2. StillInv' /\ FilledInv(s)'
  BY DEF StillInv, FilledInv
<1>3. PlaceInv(s)'
  BY DEF SongInv, PlaceInv
<1>4. RingInv(s)'
  <2>1. \A j \in 0 .. Ring - 1 :
          Kept(j)' => ring'[Wrap(written' + j)] = Sample(s, offset' - Base(s) - Ring + j)
    BY DEF SongInv, RingInv
  <2>2. at' = "advance" => \A j \in 0 .. Len(read'.data) - 1 : FALSE
    OBVIOUS
  <2> QED BY <2>1, <2>2 DEF RingInv
<1> QED BY <1>1, <1>2, <1>3, <1>4

\* The modulus of a number that is negative by less than m.
LEMMA ModOfDifference ==
  ASSUME NEW x \in Int, NEW m \in Nat, -m <= x, x < m
  PROVE  x % m = IF x >= 0 THEN x ELSE x + m
OBVIOUS

\* The thread looks: what it sees is no more than two chunks ahead.
LEMMA LookSong ==
  ASSUME NEW s, SongInv(s), Look
  PROVE  SongInv(s)'
<1> USE DEF Goto, fs, Looping
<1>1. /\ at = "look" /\ at' = "judge" /\ Idle /\ since' = 0 /\ seen' = position
      /\ UNCHANGED <<read, song, file, offset, done, index, written, ring, run, position, heard>>
  BY DEF Look
<1>2. run \in BOOLEAN /\ run
  BY <1>1 DEF SongInv, PlayerTypeOK
<1>3. PlayerTypeOK(s)' /\ StillInv' /\ PlaceInv(s)' /\ FilledInv(s)' /\ RingInv(s)'
  BY <1>1, <1>2, LoopKeeps DEF Kept
<1>4. ReadInv(s)'
  BY <1>1 DEF ReadInv, Idle
<1>5. HardwareInv(s)'
  <2>1. PICK d \in 0 .. Ring : Ahead(s, d)
    BY <1>1 DEF SongInv, HardwareInv
  <2>2. d <= 2 * Chunk /\ 0 \in 0 .. Pace /\ 0 <= d /\ d - 0 = d /\ d \in Nat
    BY <1>1, <2>1, LoopFacts DEF Ahead
  <2>3. Ahead(s, d)'
    BY <1>1, <2>1, <2>2 DEF Ahead
  <2> QED BY <2>1, <2>3 DEF HardwareInv
<1> QED BY <1>3, <1>4, <1>5 DEF SongInv

\* It copies when the hardware is more than a chunk ahead, and only then.
LEMMA JudgeSong ==
  ASSUME NEW s, SongInv(s), Judge
  PROVE  SongInv(s)'
<1> USE DEF Goto, caches, loop, hardware, Looping
<1>1. /\ at = "judge" /\ at' = (IF Behind > Chunk THEN "copy" ELSE "end") /\ Idle
      /\ IF Behind > Chunk THEN StartRead(file.number, offset, 2) ELSE UNCHANGED read
      /\ UNCHANGED <<song, file, offset, done, index, written, seen, ring, run, since, position, heard>>
  BY DEF Judge
<1>2. /\ Base(s) \in Nat /\ Total(s) \in Nat /\ Size(Number(s)) \in Nat
      /\ Ring \in Nat /\ Chunk \in Nat /\ Chunk > 0 /\ Pace \in 1 .. Chunk /\ 3 * Chunk <= Ring
      /\ offset \in Nat /\ written \in Nat /\ written + Chunk <= Ring
      /\ file.number = Number(s)
  BY <1>1, LoopFacts
<1>3. PICK d \in 0 .. Ring : Ahead(s, d)
  BY <1>1 DEF SongInv, HardwareInv
<1>4. PICK d0 \in 0 .. 2 * Chunk : d0 = d - since /\ seen = Wrap(written + d0)
  BY <1>1, <1>2, <1>3 DEF Ahead
<1>5. Behind = d0
  <2>1. /\ seen - written \in Int /\ -Ring <= seen - written /\ seen - written < Ring
        /\ d0 = IF seen - written >= 0 THEN seen - written ELSE (seen - written) + Ring
    BY <1>2, <1>4 DEF Wrap
  <2> QED BY <1>2, <2>1, ModOfDifference DEF Behind
<1>6. run \in BOOLEAN /\ run
  BY <1>1 DEF SongInv, PlayerTypeOK
<1>7. PlayerTypeOK(s)' /\ StillInv' /\ PlaceInv(s)' /\ FilledInv(s)' /\ RingInv(s)'
  BY <1>1, <1>6, LoopKeeps DEF Kept
<1>8. ReadInv(s)'
  <2>1. CASE Behind > Chunk
    <3>1. PICK o \in Nat : o = offset
      BY <1>2
    <3>2. Reads(Number(s), o, 2)'
      BY <1>1, <1>2, <2>1, <3>1, StartReads
    <3> QED BY <1>1, <2>1, <3>1, <3>2 DEF ReadInv
  <2>2. CASE ~(Behind > Chunk)
    BY <1>1, <2>2 DEF ReadInv, Idle
  <2> QED BY <2>1, <2>2
<1>9. HardwareInv(s)'
  <2>1. Ahead(s, d)'
    <3>1. at' = "copy" => d - since > Chunk /\ d - since <= 2 * Chunk
      BY <1>1, <1>2, <1>4, <1>5
    <3>2. at' = "end" => d - since <= Chunk
      BY <1>1, <1>2, <1>4, <1>5
    <3> QED BY <1>1, <1>3, <3>1, <3>2 DEF Ahead
  <2> QED BY <1>3, <2>1 DEF HardwareInv
<1> QED BY <1>7, <1>8, <1>9 DEF SongInv

\* It begins to fill the chunk that the hardware has left.
LEMMA CopySong ==
  ASSUME NEW s, SongInv(s), Copy
  PROVE  SongInv(s)'
<1> USE DEF Goto, caches, loop, hardware, Looping
<1>1. /\ at = "copy" /\ at' = "advance" /\ Idle /\ StartRead(file.number, offset, Chunk)
      /\ UNCHANGED <<song, file, offset, done, index, written, seen, ring, run, since, position, heard>>
  BY DEF Copy
<1>2. /\ Size(Number(s)) \in Nat /\ Chunk \in Nat /\ offset \in Nat /\ file.number = Number(s)
  BY <1>1, LoopFacts
<1>3. run \in BOOLEAN /\ run
  BY <1>1 DEF SongInv, PlayerTypeOK
<1>4. read'.data = << >> /\ Len(read'.data) = 0
  BY <1>1 DEF StartRead
<1>5. PlayerTypeOK(s)' /\ StillInv' /\ PlaceInv(s)' /\ FilledInv(s)' /\ RingInv(s)'
  BY <1>1, <1>3, <1>4, LoopKeeps DEF Kept
<1>6. ReadInv(s)'
  <2>1. PICK o \in Nat : o = offset
    BY <1>2
  <2>2. Reads(Number(s), o, Chunk)'
    BY <1>1, <1>2, <2>1, StartReads
  <2> QED BY <1>1, <2>1, <2>2 DEF ReadInv
<1>7. HardwareInv(s)'
  <2>1. PICK d \in 0 .. Ring : Ahead(s, d)
    BY <1>1 DEF SongInv, HardwareInv
  <2>2. Ahead(s, d)'
    BY <1>1, <2>1 DEF Ahead
  <2> QED BY <2>1, <2>2 DEF HardwareInv
<1> QED BY <1>5, <1>6, <1>7 DEF SongInv

\* It goes round again unless all has been read.
LEMMA EndSong ==
  ASSUME NEW s, SongInv(s), End
  PROVE  SongInv(s)'
<1> USE DEF Goto, fs, loop, Looping
<1>1. /\ at = "end" /\ at' = (IF offset >= file.size THEN "off" ELSE "look") /\ Idle
      /\ run' = (at' = "look")
      /\ UNCHANGED <<read, song, file, offset, done, index, written, seen, ring, since, position, heard>>
  BY DEF End
<1>2. offset \in Nat /\ file.size \in Int
  BY <1>1, LoopFacts
<1>3. run' \in BOOLEAN /\ (run' <=> at' # "off")
  BY <1>1
<1>4. \A j \in 0 .. Ring - 1 : Kept(j)' => Kept(j)
  BY <1>1, <1>2 DEF Kept
<1>5. PlayerTypeOK(s)' /\ StillInv' /\ PlaceInv(s)' /\ FilledInv(s)' /\ RingInv(s)'
  BY <1>1, <1>3, <1>4, LoopKeeps
<1>6. ReadInv(s)'
  BY <1>1 DEF ReadInv, Idle
<1>7. HardwareInv(s)'
  <2>1. PICK d \in 0 .. Ring : Ahead(s, d)
    BY <1>1 DEF SongInv, HardwareInv
  <2>2. Ahead(s, d)'
    BY <1>1, <2>1 DEF Ahead
  <2> QED BY <2>1, <2>2 DEF HardwareInv
<1> QED BY <1>5, <1>6, <1>7 DEF SongInv

\* A chunk has been filled: the ring holds the next samples, a chunk further.
LEMMA AdvanceSong ==
  ASSUME NEW s, SongInv(s), Advance
  PROVE  SongInv(s)'
<1> USE DEF Goto, fs, Looping
<1>1. /\ at = "advance" /\ at' = "end" /\ Idle
      /\ offset' = offset + Chunk /\ index' = (index + 1) % N
      /\ written' = (written + Chunk) % Ring
      /\ UNCHANGED <<read, song, file, done, seen, ring, run, since, position, heard>>
  BY DEF Advance, hardware
<1>2. /\ s \in Songs /\ Base(s) \in Nat /\ Total(s) \in Nat /\ Size(Number(s)) \in Nat
      /\ Ring \in Nat /\ Chunk \in Nat /\ Chunk > 0 /\ Pace \in 1 .. Chunk /\ 3 * Chunk <= Ring
      /\ offset \in Nat /\ offset >= Base(s) + Ring
      /\ written \in Nat /\ written + Chunk <= Ring
      /\ file.number = Number(s) /\ file.size = Base(s) + Total(s) - 2
  BY <1>1, LoopFacts
<1>3. PICK w \in Nat : w = written /\ w + Chunk <= Ring
  BY <1>2
<1>4. PICK w2 \in Nat : w2 = written' /\ w2 = Wrap(w + Chunk)
  <2>1. w + Chunk \in Nat /\ w + Chunk < 2 * Ring
    BY <1>2, <1>3
  <2> QED BY <1>1, <1>3, <2>1, WrapIsMod
<1>5. index' \in 0 .. N - 1 /\ written' = index' * Chunk
  <2>1. index \in 0 .. N - 1 /\ w = index * Chunk
    BY <1>1, <1>3 DEF SongInv, PlaceInv
  <2>2. /\ (index + 1) * Chunk = w + Chunk
        /\ (index + 1) % N = (IF index = N - 1 THEN 0 ELSE index + 1)
        /\ index = N - 1 => w + Chunk = Ring
        /\ index # N - 1 => w + Chunk < Ring
    BY <2>1, ChunkFacts
  <2>3. N \in Nat /\ N >= 3 /\ 0 * Chunk = 0
    BY RingFacts
  <2>4. CASE index = N - 1
    <3>1. index' = 0 /\ w2 = 0
      BY <1>1, <1>2, <1>4, <2>2, <2>4 DEF Wrap
    <3> QED BY <1>4, <2>3, <3>1
  <2>5. CASE index # N - 1
    <3>1. index' = index + 1 /\ w2 = w + Chunk
      BY <1>1, <1>2, <1>4, <2>2, <2>5 DEF Wrap
    <3> QED BY <1>4, <2>1, <2>2, <2>3, <2>5, <3>1
  <2> QED BY <2>4, <2>5
<1>6. PICK e \in Nat : offset = Base(s) + e /\ e >= Ring /\ e = offset - Base(s)
  BY <1>2
<1>7. PICK x \in 0 .. Chunk : Len(read.data) = x /\ (x < Chunk => e + x >= Total(s))
  <2>1. PICK o \in Nat : o = offset /\ o = Base(s) + e
    BY <1>2, <1>6
  <2>2. PICK x : x = Extent(Number(s), o, Chunk)
    OBVIOUS
  <2>3. x \in 0 .. Chunk /\ (x < Chunk => e + x >= Total(s))
    BY <1>2, <2>1, <2>2, SoundIsRead
  <2>4. Reads(Number(s), o, Chunk)
    BY <1>1, <2>1 DEF SongInv, ReadInv
  <2>5. Len(read.data) = x
    <3>1. read.data = Cut(Number(s), o, x)
      BY <1>1, <1>2, <2>1, <2>2, <2>4, ReadsAll
    <3> QED BY <2>3, <3>1, CutLen
  <2> QED BY <2>3, <2>5
<1>8. run \in BOOLEAN /\ run
  BY <1>1 DEF SongInv, PlayerTypeOK
<1>9. PlayerTypeOK(s)'
  BY <1>1, <1>8 DEF SongInv, PlayerTypeOK
<1>10. StillInv' /\ FilledInv(s)' /\ ReadInv(s)'
  BY <1>1 DEF StillInv, FilledInv, ReadInv, Idle, Preparing, Mounting
<1>11. PlaceInv(s)'
  <2>1. offset' \in Nat /\ offset' >= Base(s) + Ring
    BY <1>1, <1>2
  <2> QED BY <1>1, <1>2, <1>5, <2>1 DEF PlaceInv, Mounting
<1>12. RingInv(s)'
  <2>1. ASSUME NEW j \in 0 .. Ring - 1, j < Ring - Chunk
        PROVE  ring'[Wrap(w2 + j)] = Sample(s, offset' - Base(s) - Ring + j)
    <3>1. PICK i \in 0 .. Ring - 1 : i = j + Chunk /\ i >= x
      BY <1>2, <1>7, <2>1
    <3>2. Kept(i)
      BY <1>1, <1>7, <3>1 DEF Kept
    <3>3. ring[Wrap(w + i)] = Sample(s, offset - Base(s) - Ring + i)
      BY <1>1, <1>3, <3>2 DEF SongInv, RingInv
    <3>4. Wrap(w2 + j) = Wrap(w + i)
      BY <1>2, <1>3, <1>4, <2>1, <3>1 DEF Wrap
    <3>5. offset' - Base(s) - Ring + j = offset - Base(s) - Ring + i
      BY <1>1, <1>2, <3>1
    <3> QED BY <1>1, <3>3, <3>4, <3>5
  <2>2. ASSUME NEW j \in 0 .. Ring - 1, j >= Ring - Chunk, offset' < file.size
        PROVE  ring'[Wrap(w2 + j)] = Sample(s, offset' - Base(s) - Ring + j)
    <3>1. x = Chunk
      <4>1. offset + Chunk < Base(s) + Total(s) - 2
        <5>1. offset' = offset + Chunk /\ file.size = Base(s) + Total(s) - 2
          BY <1>1, <1>2
        <5> HIDE DEF Looping
        <5> QED BY <2>2, <5>1
      <4>2. ~(e + x >= Total(s))
        <5>1. /\ Base(s) \in Nat /\ Total(s) \in Nat /\ Chunk \in Nat
              /\ offset = Base(s) + e
          BY <1>2, <1>6
        <5> QED BY <4>1, <5>1
      <4>3. Chunk \in Nat /\ (x < Chunk => e + x >= Total(s))
        BY <1>2, <1>7
      <4> QED BY <4>2, <4>3
    <3>2. PICK i \in 0 .. x - 1 : i = j - (Ring - Chunk)
      BY <1>2, <2>2, <3>1
    <3>3. ring[w + i] = Sample(s, offset - Base(s) + i)
      BY <1>1, <1>3, <1>7, <3>2 DEF SongInv, RingInv
    <3>4. Wrap(w2 + j) = w + i
      BY <1>2, <1>3, <1>4, <3>1, <3>2 DEF Wrap
    <3>5. offset' - Base(s) - Ring + j = offset - Base(s) + i
      BY <1>1, <1>2, <3>2
    <3> QED BY <1>1, <3>3, <3>4, <3>5
  <2>3. ASSUME NEW j \in 0 .. Ring - 1, Kept(j)'
        PROVE  ring'[Wrap(written' + j)] = Sample(s, offset' - Base(s) - Ring + j)
    <3>1. j < Ring - Chunk \/ (j >= Ring - Chunk /\ offset' < file.size)
      BY <1>1, <1>2, <2>3 DEF Kept
    <3> QED BY <1>4, <2>1, <2>2, <3>1
  <2> QED BY <1>1, <2>3 DEF RingInv
<1>13. HardwareInv(s)'
  <2>1. PICK d \in 0 .. Ring : Ahead(s, d)
    BY <1>1 DEF SongInv, HardwareInv
  <2>2. PICK b \in 0 .. Ring : b = d - Chunk /\ b \in Nat
    BY <1>1, <1>2, <2>1 DEF Ahead
  <2>3. /\ since \in 0 .. Pace /\ since <= b /\ b - since <= Chunk
        /\ position = Wrap(w + d)
        /\ heard = Least(offset - Base(s) - Ring + d, Total(s))
    BY <1>1, <1>2, <1>3, <2>1, <2>2 DEF Ahead
  <2>4. Wrap(w2 + b) = Wrap(w + d)
    BY <1>2, <1>3, <1>4, <2>2 DEF Wrap
  <2>5. offset' - Base(s) - Ring + b = offset - Base(s) - Ring + d
    BY <1>1, <1>2, <2>2
  <2>6. Ahead(s, b)'
    BY <1>1, <1>4, <2>3, <2>4, <2>5 DEF Ahead
  <2> QED BY <2>6 DEF HardwareInv
<1> QED BY <1>9, <1>10, <1>11, <1>12, <1>13 DEF SongInv

\* What the hardware plays next is what should be heard next.
LEMMA RightSample ==
  ASSUME NEW s, SongInv(s), Play, NEW d \in 0 .. Ring, Ahead(s, d)
  PROVE  /\ d < Ring /\ position = Wrap(written + d)
         /\ ring[position] = Sample(s, offset - Base(s) - Ring + d)
<1> USE DEF Looping, Preparing, Mounting
<1>1. run /\ since < Pace
  BY DEF Play
<1>2. at \in Looping \ {"off"}
  BY <1>1 DEF SongInv, PlayerTypeOK
<1>3. /\ s \in Songs /\ Base(s) \in Nat /\ Total(s) \in Nat /\ Size(Number(s)) \in Nat
      /\ Ring \in Nat /\ Chunk \in Nat /\ Chunk > 0 /\ Pace \in 1 .. Chunk /\ 3 * Chunk <= Ring
      /\ offset \in Nat /\ offset >= Base(s) + Ring
  BY <1>2, LoopFacts
<1>4. since \in 0 .. Chunk - 1
  BY <1>1, <1>3 DEF Ahead
<1>5. /\ at \in {"look", "end"} => d - since <= Chunk
      /\ at = "judge" => d - since <= 2 * Chunk
      /\ at \in {"copy", "advance"} => d - since > Chunk /\ d - since <= 2 * Chunk
      /\ position = Wrap(written + d)
  BY DEF Ahead
<1>6. d - since <= 2 * Chunk
  BY <1>2, <1>3, <1>4, <1>5
<1>7. d < Ring
  BY <1>3, <1>4, <1>6
<1>8. at = "advance" => Len(read.data) \in 0 .. Chunk
  <2> SUFFICES ASSUME at = "advance" PROVE Len(read.data) \in 0 .. Chunk
    OBVIOUS
  <2>1. PICK o \in Nat : o = offset
    BY <1>3
  <2>e. PICK e \in Nat : o = Base(s) + e
    <3>1. o - Base(s) \in Nat /\ o = Base(s) + (o - Base(s))
      BY <1>3, <2>1
    <3> QED BY <3>1
  <2>2. Reads(Number(s), o, Chunk)
    BY <2>1 DEF SongInv, ReadInv
  <2>3. PICK r : r = read
    OBVIOUS
  <2>4. \E left \in 0 .. Extent(Number(s), o, Chunk) :
          r.data = Cut(Number(s), o, Extent(Number(s), o, Chunk) - left)
    BY <2>2, <2>3 DEF Reads, ReadTo
  <2>5. Len(r.data) \in 0 .. Chunk
    BY <1>3, <2>e, <2>4, SoundRead
  <2> QED BY <2>3, <2>5
<1>9. Kept(d)
  <2>1. at = "advance" => d >= Len(read.data)
    <3> SUFFICES ASSUME at = "advance" PROVE d >= Len(read.data)
      OBVIOUS
    <3>1. d > Chunk
      BY <1>3, <1>4, <1>5
    <3>2. PICK len \in 0 .. Chunk : len = Len(read.data)
      BY <1>8
    <3> QED BY <1>3, <3>1, <3>2
  <2>2. at = "end" => d < Ring - Chunk
    BY <1>3, <1>4, <1>5
  <2> QED BY <1>2, <2>1, <2>2 DEF Kept
<1>10. ring[Wrap(written + d)] = Sample(s, offset - Base(s) - Ring + d)
  BY <1>2, <1>3, <1>7, <1>9 DEF SongInv, RingInv
<1> QED BY <1>5, <1>7, <1>10

\* Playing goes on in the same order, and never reaches what has not been filled.
LEMMA PlaySong ==
  ASSUME NEW s, SongInv(s), PlaysInOrder, Play
  PROVE  SongInv(s)' /\ PlaysInOrder'
<1> USE DEF Looping, Preparing, Mounting
<1>1. /\ run /\ since < Pace /\ since' = since + 1 /\ position' = (position + 1) % Ring
      /\ UNCHANGED <<read, at, song, file, offset, done, index, written, seen, ring, run, arr>>
  BY DEF Play, fs, loop
<1>2. at \in Looping \ {"off"}
  BY <1>1 DEF SongInv, PlayerTypeOK
<1>3. /\ s \in Songs /\ song = s /\ Base(s) \in Nat /\ Total(s) \in Nat
      /\ Ring \in Nat /\ Chunk \in Nat /\ Pace \in 1 .. Chunk
      /\ offset \in Nat /\ offset >= Base(s) + Ring
      /\ written \in Nat /\ written + Chunk <= Ring
  BY <1>2, LoopFacts
<1>4. PICK d \in 0 .. Ring : Ahead(s, d)
  BY <1>2 DEF SongInv, HardwareInv
<1>5. /\ d < Ring /\ position = Wrap(written + d)
      /\ ring[position] = Sample(s, offset - Base(s) - Ring + d)
  BY <1>4, RightSample
<1>6. PICK p \in Nat : p = offset - Base(s) - Ring + d /\ p + 1 = offset - Base(s) - Ring + (d + 1)
  BY <1>3
<1>7. heard = Least(p, Total(s)) /\ heard \in Nat
  BY <1>3, <1>4, <1>6 DEF Ahead, Least
<1>8. ring[position] = Expected(heard)
  <2>1. Expected(heard) = Sample(s, heard)
    BY <1>3 DEF Expected, Sample, Total
  <2>2. Sample(s, heard) = Sample(s, p)
    <3>1. p < Total(s) => heard = p
      BY <1>3, <1>7 DEF Least
    <3>2. ~(p < Total(s)) => ~(heard < Total(s))
      BY <1>3, <1>7 DEF Least
    <3> QED BY <3>1, <3>2 DEF Sample
  <2> QED BY <1>5, <1>6, <2>1, <2>2
<1>9. ~noise' /\ heard' = IF heard = Total(s) THEN heard ELSE heard + 1
  <2>1. noise' = (noise \/ ring[position] # Expected(heard))
    BY DEF Play
  <2>2. ~noise'
    BY <1>8, <2>1, Zenon DEF PlaysInOrder
  <2>3. heard' = IF noise' \/ heard = Len(Samples[song]) THEN heard ELSE heard + 1
    BY DEF Play
  <2> QED BY <1>3, <2>2, <2>3, Zenon DEF Total
<1>10. heard' = Least(p + 1, Total(s))
  BY <1>3, <1>7, <1>9 DEF Least
<1>11. position' = Wrap(written + (d + 1))
  <2>1. PICK x \in Nat : x = written + d /\ x + 1 = written + (d + 1) /\ x + 1 < 2 * Ring
    BY <1>3, <1>5
  <2>2. Wrap(x) \in 0 .. Ring - 1 /\ position = Wrap(x)
    BY <1>3, <1>5, <2>1 DEF Wrap
  <2>3. PICK y \in 0 .. Ring - 1 : y = position
    BY <2>2
  <2>4. position' = Wrap(y + 1)
    <3>1. y + 1 \in Nat /\ y + 1 < 2 * Ring
      BY <1>3, <2>3
    <3> QED BY <1>1, <2>3, <3>1, WrapIsMod
  <2>5. Wrap(y + 1) = Wrap(x + 1)
    BY <1>3, <2>1, <2>2, <2>3 DEF Wrap
  <2> QED BY <2>1, <2>4, <2>5
<1>12. HardwareInv(s)'
  <2>1. PICK c \in 0 .. Ring : c = d + 1 /\ c - since' = d - since
    BY <1>1, <1>3, <1>4, <1>5 DEF Ahead
  <2>2. since' \in 0 .. Pace /\ since' <= c
    BY <1>1, <1>3, <1>4, <2>1 DEF Ahead
  <2>3. position' = Wrap(written' + c) /\ heard' = Least(offset' - Base(s) - Ring + c, Total(s))
    BY <1>1, <1>6, <1>10, <1>11, <2>1
  <2>4. Ahead(s, c)'
    BY <1>1, <1>4, <2>1, <2>2, <2>3 DEF Ahead
  <2> QED BY <2>4 DEF HardwareInv
<1>13. PlayerTypeOK(s)' /\ StillInv' /\ ReadInv(s)' /\ PlaceInv(s)' /\ FilledInv(s)' /\ RingInv(s)'
  <2>1. PlayerTypeOK(s)' /\ PlaceInv(s)'
    BY <1>1 DEF SongInv, PlayerTypeOK, PlaceInv
  <2>2. StillInv' /\ FilledInv(s)'
    BY <1>1, <1>2 DEF StillInv, FilledInv
  <2>3. ReadInv(s)'
    BY <1>1 DEF SongInv, ReadInv, Idle, Reads, ReadTo
  <2>4. RingInv(s)'
    BY <1>1 DEF SongInv, RingInv, Kept
  <2> QED BY <2>1, <2>2, <2>3, <2>4
<1> QED BY <1>9, <1>12, <1>13 DEF SongInv, PlaysInOrder

-----------------------------------------------------------------------------
(* Every step                                                              *)

\* The invariant holds at the start.
LEMMA InitIInv == Init => IInv
<1> SUFFICES ASSUME Init PROVE IInv
  OBVIOUS
<1>1. PICK s \in Songs : s = song
  BY DEF Init
<1>2. SongInv(s)
  BY <1>1, InitSong
<1>3. /\ blocks = [lru |-> 0, lines |-> [set \in 0 .. Sets - 1 |-> [i \in 1 .. Ways |-> NoBlock]]]
      /\ ~noise
  BY DEF Init, Mount
<1>4. IsEntry(NoBlock) /\ NoBlock.valid = FALSE
  BY DEF IsEntry, NoBlock
<1>5. CacheTypeOK /\ CacheExact
  BY <1>3, <1>4 DEF CacheTypeOK, CacheExact
<1> QED BY <1>1, <1>2, <1>3, <1>5 DEF IInv, PlaysInOrder

\* The thread's steps other than Fetch leave the cache alone, and all what is heard.
LEMMA ThreadKeeps ==
  ASSUME Thread
  PROVE  noise' = noise /\ (Fetch \/ blocks' = blocks)
BY DEF Thread, Fetch, CountEntries, ReadEntries, Mounted, OpenCover, ReadCover, OpenSong, Open,
       AskField, TakeField, FillChunk, Peek, Start, Look, Judge, Copy, Advance, End,
       caches, fs, loop, hardware

\* Every step of the thread keeps what is said of its song.
LEMMA ThreadSong ==
  ASSUME CacheTypeOK, CacheExact, NEW s, SongInv(s), Thread
  PROVE  SongInv(s)'
BY FetchSong, MountSong, CoverSong, FieldSong, FillSong, StartSong, LookSong, JudgeSong,
   CopySong, AdvanceSong, EndSong DEF Thread

\* Every step keeps the invariant.
LEMMA NextIInv == IInv /\ [Next]_vars => IInv'
<1> SUFFICES ASSUME IInv, [Next]_vars PROVE IInv'
  OBVIOUS
<1>1. PICK s : s = song
  OBVIOUS
<1>2. CacheTypeOK /\ CacheExact /\ PlaysInOrder /\ SongInv(s)
  BY <1>1 DEF IInv
<1>3. CASE Thread
  <2>1. SongInv(s)'
    BY <1>2, <1>3, ThreadSong
  <2>2. noise' = noise /\ (Fetch \/ blocks' = blocks)
    BY <1>3, ThreadKeeps
  <2>3. CASE Fetch
    <3>1. ReadBlock
      BY <2>3 DEF Fetch
    <3>2. read.offset \in Nat
      BY <1>2, <2>3, FetchRead
    <3>3. CacheTypeOK' /\ CacheExact'
      BY <1>2, <3>1, <3>2, ReadBlockExact
    <3> QED BY <1>2, <2>1, <2>2, <3>3 DEF IInv, PlaysInOrder, SongInv, PlayerTypeOK
  <2>4. CASE blocks' = blocks
    <3>1. CacheTypeOK' /\ CacheExact'
      BY <1>2, <2>4 DEF CacheTypeOK, CacheExact
    <3>2. song' = s
      BY <2>1 DEF SongInv, PlayerTypeOK
    <3> QED BY <1>2, <2>1, <2>2, <3>1, <3>2 DEF IInv, PlaysInOrder
  <2> QED BY <2>2, <2>3, <2>4
<1>4. CASE Play
  <2>1. SongInv(s)' /\ PlaysInOrder'
    BY <1>2, <1>4, PlaySong
  <2>2. blocks' = blocks /\ song' = song
    BY <1>4 DEF Play, fs
  <2>3. CacheTypeOK' /\ CacheExact'
    BY <1>2, <2>2 DEF CacheTypeOK, CacheExact
  <2> QED BY <1>1, <2>1, <2>2, <2>3 DEF IInv
<1>5. CASE UNCHANGED vars
  <2>1. /\ UNCHANGED <<blocks, read, arr, at, song, file, offset, done, index, written, seen, ring>>
        /\ UNCHANGED <<run, since, position, heard, noise>>
    BY <1>5 DEF vars, fs, loop, hardware
  <2>2. CacheTypeOK' /\ CacheExact' /\ PlaysInOrder'
    BY <1>2, <2>1 DEF CacheTypeOK, CacheExact, PlaysInOrder
  <2>3. PlayerTypeOK(s)' /\ StillInv' /\ PlaceInv(s)'
    BY <1>2, <2>1 DEF SongInv, PlayerTypeOK, StillInv, PlaceInv
  <2>4. ReadInv(s)'
    BY <1>2, <2>1 DEF SongInv, ReadInv, Idle, Reads, ReadTo
  <2>5. FilledInv(s)' /\ RingInv(s)'
    BY <1>2, <2>1 DEF SongInv, FilledInv, FilledTo, RingInv, Kept
  <2>6. HardwareInv(s)'
    BY <1>2, <2>1 DEF SongInv, HardwareInv, Ahead
  <2> QED BY <1>1, <2>1, <2>2, <2>3, <2>4, <2>5, <2>6 DEF IInv, SongInv
<1> QED BY <1>3, <1>4, <1>5 DEF Next

\* The invariant holds in every state.
THEOREM SpecIInv == Spec => []IInv
BY InitIInv, NextIInv, PTL DEF Spec

\* What a valid entry of BlockCache holds is that block of that file, and no block is
\* in two entries of its line: get() and miss() of Ext22.h never mix up two blocks.
THEOREM CacheIsExact == Spec => []CacheExact
<1>1. IInv => CacheExact
  BY DEF IInv
<1> QED BY <1>1, SpecIInv, PTL

\* What the sound hardware plays are the samples of the song in their order, then
\* silence: rebuildData() of audio.h never fills a chunk that is being played, nor too late.
THEOREM PlayedInOrder == Spec => []PlaysInOrder
<1>1. IInv => PlaysInOrder
  BY DEF IInv
<1> QED BY <1>1, SpecIInv, PTL

\* Debug::shutdown() comes when all but what is in the ring, and the two cells that the
\* size in RIFF does not count, has been played.
THEOREM LittleIsLost == Spec => []LosesAtMostTheRing
<1>1. ASSUME IInv PROVE LosesAtMostTheRing
  <2> SUFFICES ASSUME at = "off" PROVE heard + Ring + 2 >= Len(Samples[song])
    BY DEF LosesAtMostTheRing
  <2>1. PICK s : s = song
    OBVIOUS
  <2>2. SongInv(s)
    BY <1>1, <2>1 DEF IInv
  <2>3. /\ Base(s) \in Nat /\ Total(s) \in Nat /\ Ring \in Nat
        /\ offset \in Nat /\ offset >= Base(s) + Ring /\ file.size = Base(s) + Total(s) - 2
    BY <2>2, LoopFacts DEF Looping
  <2>4. offset >= file.size
    BY <2>2 DEF SongInv, PlaceInv
  <2>5. PICK d \in 0 .. Ring : heard = Least(offset - Base(s) - Ring + d, Total(s))
    BY <2>2 DEF SongInv, HardwareInv, Looping, Ahead
  <2>6. offset >= Base(s) + Total(s) - 2
    BY <2>3, <2>4
  <2>7. heard + Ring + 2 >= Total(s)
    BY <2>3, <2>5, <2>6 DEF Least
  <2> QED BY <2>1, <2>7 DEF Total
<1> QED BY <1>1, SpecIInv, PTL

\* The player shares only the drive with the others, so the theorems above are about
\* FileSystems as well.
LEMMA PlayerIsPart == FSSpec => Spec
<1>1. FSInit => Init
  BY DEF FSInit
<1>2. [FSNext]_all => [Next]_vars
  BY DEF FSNext, PlayerStep, FilesStep, ExeclStep, all
<1> QED BY <1>1, <1>2, PTL DEF FSSpec, Spec

-----------------------------------------------------------------------------
(* What read_all() of kernel/block_io.cc returns, whatever the device *)

\* How many bytes there are from offset o on, if n are wanted.
Reach(size, o, n) == IF o >= size THEN 0 ELSE Files!Least(n, size - o)

\* What is read from within a block is in that block.
LEMMA InBlock ==
  ASSUME NEW o \in Int, NEW b \in Nat, b > 0, NEW i \in 1 .. b - (o % b)
  PROVE  /\ o % b \in 0 .. b - 1
         /\ (o + i - 1) \div b = o \div b
         /\ ((o + i - 1) % b) + 1 = (o % b) + i
BY Z3
 
\* One read(): what it returns is what is there.
LEMMA ReadOne ==
  ASSUME NEW device, NEW size \in Nat, NEW b \in Nat, b > 0,
         NEW o \in Int, NEW n \in Nat, n > 0,
         NEW got, got = Files!Read(device, size, b, o, n)
  PROVE  /\ got.cnt > 0 =>
              /\ got.cnt \in 1 .. n /\ o < size
              /\ got.cnt <= Reach(size, o, n)
              /\ Reach(size, o, n) - got.cnt = Reach(size, o + got.cnt, n - got.cnt)
              /\ got.data = [i \in 1 .. got.cnt |-> ByteAt(device, b, o + i - 1)]
         /\ o < size => got.cnt > 0
         /\ got.cnt \in Int
<1> DEFINE start == o % b
           actual == Files!Least(b - start, Files!Least(n, size - o))
<1>1. start \in 0 .. b - 1
  BY Z3
<1>2. CASE o >= size
  <2>1. got.cnt \in {-1, 0}
    BY <1>2 DEF Files!Read
  <2> QED BY <1>2, <2>1
<1>3. CASE o < size
  <2>1. actual \in 1 .. n /\ actual <= size - o /\ actual <= b - start
    BY <1>1, <1>3 DEF Files!Least
  <2>2. got.cnt = actual /\ got.data = [i \in 1 .. actual |-> device[o \div b][start + i]]
    BY <1>3 DEF Files!Read
  <2> HIDE DEF actual
  <2>3. \A i \in 1 .. actual : device[o \div b][start + i] = ByteAt(device, b, o + i - 1)
    <3>1. \A i \in 1 .. actual : i \in 1 .. b - start
      BY <1>1, <2>1
    <3>2. ASSUME NEW i \in 1 .. actual
          PROVE  device[o \div b][start + i] = ByteAt(device, b, o + i - 1)
      <4>1. (o + i - 1) \div b = o \div b /\ ((o + i - 1) % b) + 1 = start + i
        BY <3>1, InBlock
      <4> QED BY <4>1 DEF ByteAt
    <3> QED BY <3>2
  <2>4. got.data = [i \in 1 .. actual |-> ByteAt(device, b, o + i - 1)]
    BY <2>2, <2>3
  <2>5. /\ actual <= Reach(size, o, n)
        /\ Reach(size, o, n) - actual = Reach(size, o + actual, n - actual)
    BY <1>3, <2>1 DEF Reach, Files!Least
  <2>6. got.data = [i \in 1 .. got.cnt |-> ByteAt(device, b, o + i - 1)]
    BY <2>2, <2>4, Zenon
  <2>7. got.cnt \in 1 .. n
    BY <2>1, <2>2
  <2>8. /\ got.cnt <= Reach(size, o, n)
        /\ Reach(size, o, n) - got.cnt = Reach(size, o + got.cnt, n - got.cnt)
    BY <2>2, <2>5, Zenon
  <2> QED BY <1>3, <2>6, <2>7, <2>8
<1> QED BY <1>2, <1>3

LEMMA FunctionIsSeq ==
  ASSUME NEW S, NEW n \in Nat, NEW s \in [1 .. n -> S]
  PROVE  s \in Seq(S) /\ Len(s) = n
<1>1. s \in Seq(S)
  BY SeqDef
<1>2. Len(s) \in Nat /\ 1 .. Len(s) = 1 .. n
  BY <1>1, LenProperties
<1> QED BY <1>1, <1>2

\* Two pieces that follow each other are one.
LEMMA Pieces ==
  ASSUME NEW device, NEW b \in Nat, b > 0, NEW o \in Int, NEW k \in Nat, NEW l \in Nat
  PROVE  [i \in 1 .. k |-> ByteAt(device, b, o + i - 1)]
           \o [i \in 1 .. l |-> ByteAt(device, b, o + k + i - 1)]
         = [i \in 1 .. (k + l) |-> ByteAt(device, b, o + i - 1)]
<1> DEFINE B == {ByteAt(device, b, i) : i \in Int}
           s == [i \in 1 .. k |-> ByteAt(device, b, o + i - 1)]
           t == [i \in 1 .. l |-> ByteAt(device, b, o + k + i - 1)]
           u == [i \in 1 .. (k + l) |-> ByteAt(device, b, o + i - 1)]
<1>1. \A i \in Int : ByteAt(device, b, i) \in B
  OBVIOUS
<1> HIDE DEF B
<1>2. s \in [1 .. k -> B] /\ t \in [1 .. l -> B] /\ u \in [1 .. (k + l) -> B]
  BY <1>1
<1>3. s \in Seq(B) /\ t \in Seq(B) /\ Len(s) = k /\ Len(t) = l
  BY <1>2, FunctionIsSeq
<1>4. /\ s \o t \in Seq(B) /\ Len(s \o t) = k + l
      /\ \A i \in 1 .. k + l : (s \o t)[i] = IF i <= k THEN s[i] ELSE t[i - k]
  BY <1>3, ConcatProperties
<1>5. \A i \in 1 .. k + l : (s \o t)[i] = u[i]
  <2>1. ASSUME NEW i \in 1 .. k + l PROVE (s \o t)[i] = u[i]
    <3>1. CASE i <= k
      BY <1>4, <3>1
    <3>2. CASE i > k
      <4>1. i - k \in 1 .. l /\ o + k + (i - k) - 1 = o + i - 1
        BY <3>2
      <4>2. t[i - k] = ByteAt(device, b, o + i - 1)
        BY <4>1
      <4> QED BY <1>4, <3>2, <4>2
    <3> QED BY <3>1, <3>2
  <2> QED BY <2>1
<1>6. DOMAIN (s \o t) = 1 .. k + l /\ s \o t = [i \in DOMAIN (s \o t) |-> (s \o t)[i]]
  BY <1>4, LenProperties
<1> QED BY <1>5, <1>6

\* What the loop of read_all() is to return, with left bytes of n still wanted.
Rest(device, size, b, o, left) ==
  [i \in 1 .. Reach(size, o, left) |-> ByteAt(device, b, o + i - 1)]

LEMMA NoRest ==
  ASSUME NEW device, NEW size, NEW b, NEW o, NEW left, Reach(size, o, left) = 0
  PROVE  Rest(device, size, b, o, left) = << >>
BY DEF Rest

LEMMA ReadAllIs ==
  ASSUME NEW device, NEW size \in Nat, NEW b \in Nat, b > 0, NEW o \in Nat, NEW n \in Nat
  PROVE  Files!ReadAll(device, size, b, o, n).data = Rest(device, size, b, o, n)
<1> DEFINE Step(left) == Files!Read(device, size, b, o + n - left, left)
           Round(f, left) == IF left = 0 \/ Step(left).cnt <= 0 THEN << >>
                             ELSE Step(left).data \o f[left - Step(left).cnt]
           want == [left \in Nat |-> Rest(device, size, b, o + n - left, left)]
           from == CHOOSE f : f = [left \in Nat |-> Round(f, left)]
<1>1. ASSUME NEW left \in Nat, NEW f, \A l \in Nat : l < left => f[l] = want[l]
      PROVE  want[left] = Round(f, left)
  <2>1. PICK place \in Int : place = o + n - left
    OBVIOUS
  <2>2. PICK got : got = Step(left)
    OBVIOUS
  <2>3. want[left] = Rest(device, size, b, place, left)
    BY <2>1
  <2>4. got = Files!Read(device, size, b, place, left)
    BY <2>1, <2>2
  <2>8. Round(f, left) = IF left = 0 \/ got.cnt <= 0 THEN << >>
                         ELSE got.data \o f[left - got.cnt]
    BY <2>2
  <2>9. \A l \in Nat : want[l] = Rest(device, size, b, o + n - l, l)
    OBVIOUS
  <2> HIDE DEF Round, want, Step, from
  <2>10. left > 0 => /\ got.cnt \in Int /\ (place < size => got.cnt > 0)
                     /\ got.cnt > 0 =>
                          /\ got.cnt \in 1 .. left /\ place < size
                          /\ got.cnt <= Reach(size, place, left)
                          /\ Reach(size, place, left) - got.cnt
                               = Reach(size, place + got.cnt, left - got.cnt)
                          /\ got.data = [i \in 1 .. got.cnt |-> ByteAt(device, b, place + i - 1)]
    BY <2>4, ReadOne
  <2>5. CASE left = 0
    <3>1. Reach(size, place, 0) = 0
      BY DEF Reach, Files!Least
    <3> QED BY <2>3, <2>5, <2>8, <3>1, NoRest
  <2>6. CASE left > 0 /\ got.cnt <= 0
    <3>1. place >= size
      BY <2>6, <2>10
    <3>2. Reach(size, place, left) = 0
      BY <3>1 DEF Reach
    <3> QED BY <2>3, <2>6, <2>8, <3>2, NoRest
  <2>7. CASE left > 0 /\ got.cnt > 0
    <3>1. PICK cnt \in Nat : cnt = got.cnt
      BY <2>7, <2>10
    <3>2. /\ cnt \in 1 .. left /\ place < size /\ cnt <= Reach(size, place, left)
          /\ Reach(size, place, left) - cnt = Reach(size, place + cnt, left - cnt)
          /\ got.data = [i \in 1 .. cnt |-> ByteAt(device, b, place + i - 1)]
      BY <2>7, <2>10, <3>1
    <3>3. left - cnt \in Nat /\ left - cnt < left /\ o + n - (left - cnt) = place + cnt
      BY <2>1, <3>2
    <3>4. want[left - cnt] = Rest(device, size, b, place + cnt, left - cnt)
      BY <2>9, <3>3
    <3>5. f[left - cnt] = Rest(device, size, b, place + cnt, left - cnt)
      BY <1>1, <3>3, <3>4
    <3>6. PICK l \in Nat : l = Reach(size, place + cnt, left - cnt)
      <4>1. Reach(size, place + cnt, left - cnt) \in Nat
        BY <3>2 DEF Reach, Files!Least
      <4> QED BY <4>1
    <3>7. Reach(size, place, left) = cnt + l
      BY <3>2, <3>6 DEF Reach, Files!Least
    <3>8. f[left - cnt] = [i \in 1 .. l |-> ByteAt(device, b, place + cnt + i - 1)]
      BY <3>5, <3>6 DEF Rest
    <3>9. got.data \o f[left - cnt] = [i \in 1 .. (cnt + l) |-> ByteAt(device, b, place + i - 1)]
      BY <3>2, <3>8, Pieces
    <3>10. want[left] = got.data \o f[left - cnt]
      BY <2>3, <3>7, <3>9 DEF Rest
    <3>11. Round(f, left) = got.data \o f[left - cnt]
      <4>1. ~(left = 0 \/ got.cnt <= 0)
        BY <2>7, <3>1
      <4> QED BY <2>8, <3>1, <4>1, Zenon
    <3> QED BY <3>10, <3>11
  <2> QED BY <2>5, <2>6, <2>7, <2>10
<1> HIDE DEF Step
<1>2. want = [left \in Nat |-> Round(want, left)]
  <2> HIDE DEF Round, want
  <2>1. \A left \in Nat : want[left] = Round(want, left)
    BY <1>1
  <2>2. want = [left \in Nat |-> want[left]]
    BY DEF want
  <2> QED BY <2>1, <2>2
<1>3. from = [left \in Nat |-> Round(from, left)]
  <2> HIDE DEF Round, want
  <2> QED BY <1>2
<1> HIDE DEF Round, want, from
<1>4. \A left \in Nat : from[left] = Round(from, left)
  BY <1>3
<1>5. \A left \in Nat : from[left] = want[left]
  <2> DEFINE Bad == {left \in Nat : from[left] # want[left]}
  <2> SUFFICES ASSUME Bad # {} PROVE FALSE
    OBVIOUS
  <2>1. PICK left \in Bad : \A l \in Bad : left <= l
    BY LeastOne
  <2>2. left \in Nat /\ \A l \in Nat : l < left => from[l] = want[l]
    BY <2>1
  <2>3. want[left] = Round(from, left)
    BY <1>1, <2>2
  <2> QED BY <1>4, <2>1, <2>3
<1>6. from[n] = Rest(device, size, b, o, n)
  <2>1. o + n - n = o
    OBVIOUS
  <2>2. want[n] = Rest(device, size, b, o, n)
    BY <2>1 DEF want
  <2> QED BY <1>5, <2>2
<1>7. CASE n > 0 /\ o > size
  <2>1. Reach(size, o, n) = 0
    BY <1>7 DEF Reach
  <2> QED BY <1>7, <2>1 DEF Files!ReadAll, Rest
<1>8. CASE ~(n > 0 /\ o > size)
  <2>1. Files!ReadAll(device, size, b, o, n).data = from[n]
    BY <1>8 DEF Files!ReadAll, from, Round, Step
  <2> QED BY <1>6, <2>1
<1> QED BY <1>7, <1>8

-----------------------------------------------------------------------------
(* Open files: what read() of kernel/file.h delivers *)

\* The bytes that read_all() of an i-node delivers.
LEMMA NodeReadIs ==
  ASSUME NEW inode, inode.size \in Nat, NEW o \in Nat, NEW n \in Nat
  PROVE  Files!NodeRead(inode, o, n).data
           = [i \in 1 .. Reach(inode.size, o, n) |-> NodeByte(inode, o + i - 1)]
<1>1. BlockSize \in Nat /\ BlockSize > 0
  BY Geometry
<1>2. Files!NodeRead(inode, o, n).data
        = Rest([i \in Nat |-> Files!NodeBlock(inode, i)], inode.size, BlockSize, o, n)
  BY <1>1, ReadAllIs DEF Files!NodeRead
<1> QED BY <1>2 DEF Rest, NodeByte

\* The constants of FilesAssumption, and why a ShobhitFile is not another descriptor.
LEMMA Descriptors ==
  /\ First \in Procs /\ NFILE \in Nat /\ Word \in Nat /\ Word > 0
  /\ Sizes \subseteq 0 .. Word - 1 /\ Seeks \subseteq 0 .. Word - 1
  /\ None \notin Objects /\ Console \notin Objects
BY FilesAssumption DEF Files!OpenFilesAssumption

\* The steps of read(), and what call holds in each of them.
InFile == {"compare", "trim", "copy", "add"}

Shape(c) ==
  \/ c \in [at : {"user", "unborn", "exited"}]
  \/ c \in [at : {"compare", "trim", "copy"}, file : Objects, n : 0 .. Word - 1,
            alone : BOOLEAN]
  \/ /\ c = [at |-> "add", file |-> c.file, n |-> c.n, alone |-> c.alone,
             from |-> c.from, data |-> c.data]
     /\ c.file \in Objects /\ c.n \in 0 .. Word - 1 /\ c.from \in 0 .. Word - 1

\* A file that has users is one that a path led to.
Opened(f) == \E target \in Files!Found : /\ target.lookup.is = "node"
                                         /\ node[f] = target.lookup.node
                                         /\ path[f] = target.path

\* What was read is in the file, at from.
HasRead(c, inode) ==
  c.at = "add" => \E k \in Nat : /\ c.data = [i \in 1 .. k |-> NodeByte(inode, c.from + i - 1)]
                                 /\ k # 0 => c.from + k <= inode.size

\* Nobody else moves the offset, so each look at it sees the same.
Undisturbed(c, inode, o) ==
  /\ c.at # "add" => o < inode.size
  /\ c.at = "trim" => c.n > inode.size - o
  /\ c.at = "copy" => c.n <= inode.size - o
  /\ c.at = "add" => c.n = Len(c.data)

\* A read() in progress keeps its file open; one that began alone stays alone, since its
\* process can neither fork() nor hand the file on before it returns.
ReaderOK(p) ==
  LET c == call[p]
  IN  c.at \in InFile =>
        /\ p \in Files!Users(c.file)
        /\ HasRead(c, node[c.file])
        /\ c.alone => /\ Files!Users(c.file) = {p}
                      /\ Undisturbed(c, node[c.file], fileOffset[c.file])

FileTypes == /\ files \in [Procs -> [1 .. NFILE -> Objects \cup {None, Console}]]
             /\ DOMAIN node = Objects /\ DOMAIN path = Objects /\ DOMAIN call = Procs
             /\ fileOffset \in [Objects -> 0 .. Word - 1]
             /\ \A p \in Procs : Shape(call[p])

FilesInv == /\ FileTypes
            /\ \A f \in Objects : Files!Users(f) # {} => Opened(f)
            /\ \A p \in Procs : ReaderOK(p)

\* The size of a file that has users fits off_t.
LEMMA OpenSize ==
  ASSUME FilesInv, NEW f \in Objects, Files!Users(f) # {}
  PROVE  node[f].size \in 0 .. Word - 1
BY FilesAssumption DEF FilesInv, Opened, Files!SizesFit

\* A record of read() has these members.
LEMMA InShape ==
  ASSUME NEW c, Shape(c), c.at \in InFile
  PROVE  /\ c.file \in Objects /\ c.n \in 0 .. Word - 1
         /\ c.at = "add" \/ c \in [at : {"compare", "trim", "copy"}, file : Objects,
                                   n : 0 .. Word - 1, alone : BOOLEAN]
BY DEF Shape, InFile

\* A reader that a step of somebody else leaves alone.
LEMMA ReaderKept ==
  ASSUME FilesInv, NEW p \in Procs, call'[p] = call[p],
         call[p].at \in InFile =>
           LET f == call[p].file
           IN  /\ files'[p] = files[p] /\ node'[f] = node[f]
               /\ Files!Users(f) = {p} => /\ Files!Users(f)' \subseteq Files!Users(f)
                                          /\ fileOffset'[f] = fileOffset[f]
  PROVE  ReaderOK(p)'
<1> SUFFICES ASSUME call[p].at \in InFile
             PROVE  LET c == call[p]
                    IN  /\ p \in Files!Users(c.file)'
                        /\ HasRead(c, node'[c.file])
                        /\ c.alone => /\ Files!Users(c.file)' = {p}
                                      /\ Undisturbed(c, node'[c.file], fileOffset'[c.file])
  BY DEF ReaderOK, HasRead, Undisturbed
<1>1. /\ p \in Files!Users(call[p].file) /\ HasRead(call[p], node[call[p].file])
      /\ call[p].alone => /\ Files!Users(call[p].file) = {p}
                          /\ Undisturbed(call[p], node[call[p].file], fileOffset[call[p].file])
  BY DEF FilesInv, ReaderOK
<1>2. p \in Files!Users(call[p].file)'
  BY <1>1 DEF Files!Users
<1> QED BY <1>1, <1>2

\* Who uses f after a step, if a table only changes at p, and there only to f or away.
LEMMA FewerUsers ==
  ASSUME FileTypes, NEW p \in Procs, NEW fd, NEW entry,
         files' = [files EXCEPT ![p][fd] = entry], NEW f, f # entry
  PROVE  Files!Users(f)' \subseteq Files!Users(f)
<1> SUFFICES ASSUME NEW q \in Procs, NEW e \in 1 .. NFILE, files'[q][e] = f
             PROVE  files[q][e] = f
  BY DEF Files!Users
<1>1. files'[q][e] = files[q][e] \/ files'[q][e] = entry
  BY DEF FileTypes
<1> QED BY <1>1

\* open() gives p the file f, which nobody uses.
LEMMA OpenKeeps ==
  ASSUME FilesInv, NEW p \in Procs, NEW target \in Files!Found, NEW f \in Objects,
         Files!Open(p, target, f)
  PROVE  FilesInv'
<1> DEFINE fd == Min(Files!FreeSlots(p))
<1>1. /\ Files!InUser(p) /\ target.lookup.is = "node" /\ Files!Users(f) = {}
      /\ files' = [files EXCEPT ![p][Files!Min(Files!FreeSlots(p))] = f]
      /\ node' = [node EXCEPT ![f] = target.lookup.node]
      /\ fileOffset' = [fileOffset EXCEPT ![f] = 0]
      /\ path' = [path EXCEPT ![f] = target.path]
      /\ call' = call
  BY DEF Files!Open
<1>2. PICK slot : files' = [files EXCEPT ![p][slot] = f]
  BY <1>1
<1>3. FileTypes'
  <2>1. files' \in [Procs -> [1 .. NFILE -> Objects \cup {None, Console}]]
    BY <1>2 DEF FilesInv, FileTypes
  <2>2. 0 \in 0 .. Word - 1
    BY Descriptors
  <2>3. fileOffset' \in [Objects -> 0 .. Word - 1]
    BY <1>1, <2>2 DEF FilesInv, FileTypes
  <2> QED BY <1>1, <2>1, <2>3 DEF FilesInv, FileTypes
<1>4. ASSUME NEW g \in Objects, g # f PROVE Files!Users(g)' \subseteq Files!Users(g)
  BY <1>2, <1>4, FewerUsers DEF FilesInv
<1>5. ASSUME NEW g \in Objects, Files!Users(g)' # {} PROVE Opened(g)'
  <2>1. CASE g = f
    <3>1. node'[g] = target.lookup.node /\ path'[g] = target.path
      BY <1>1, <2>1 DEF FilesInv, FileTypes
    <3> QED BY <1>1, <3>1 DEF Opened
  <2>2. CASE g # f
    <3>1. node'[g] = node[g] /\ path'[g] = path[g]
      BY <1>1, <2>2 DEF FilesInv, FileTypes
    <3>2. Opened(g)
      BY <1>4, <1>5, <2>2 DEF FilesInv
    <3> QED BY <3>1, <3>2 DEF Opened
  <2> QED BY <2>1, <2>2
<1>6. ASSUME NEW q \in Procs PROVE ReaderOK(q)'
  <2>1. ASSUME call[q].at \in InFile
        PROVE  /\ q # p /\ call[q].file # f /\ call[q].file \in Objects
               /\ files'[q] = files[q]
    <3>1. q # p
      BY <1>1, <2>1 DEF Files!InUser, InFile
    <3>2. q \in Files!Users(call[q].file)
      BY <2>1 DEF FilesInv, ReaderOK
    <3>3. call[q].file \in Objects
      BY <2>1, InShape DEF FilesInv, FileTypes
    <3> QED BY <1>1, <1>2, <3>1, <3>2, <3>3 DEF FilesInv, FileTypes
  <2>2. call'[q] = call[q]
    BY <1>1
  <2>3. call[q].at \in InFile => /\ node'[call[q].file] = node[call[q].file]
                                 /\ fileOffset'[call[q].file] = fileOffset[call[q].file]
    BY <1>1, <2>1 DEF FilesInv, FileTypes
  <2> QED BY <1>4, <2>1, <2>2, <2>3, ReaderKept
<1> QED BY <1>3, <1>5, <1>6 DEF FilesInv

\* close() and seek(), and what panics: the calls of a process that is not reading.
LEMMA CloseKeeps ==
  ASSUME FilesInv, NEW p \in Procs, NEW fd \in 1 .. NFILE, Files!Close(p, fd)
  PROVE  FilesInv'
<1>1. /\ Files!InUser(p) /\ files' = [files EXCEPT ![p][fd] = None]
      /\ node' = node /\ fileOffset' = fileOffset /\ path' = path /\ call' = call
  BY DEF Files!Close, Files!file
<1>2. FileTypes'
  BY <1>1 DEF FilesInv, FileTypes
<1>3. ASSUME NEW g \in Objects PROVE Files!Users(g)' \subseteq Files!Users(g)
  BY <1>1, <1>3, FewerUsers, Descriptors DEF FilesInv
<1>4. ASSUME NEW g \in Objects, Files!Users(g)' # {} PROVE Opened(g)'
  BY <1>1, <1>3, <1>4 DEF FilesInv, Opened
<1>5. ASSUME NEW q \in Procs PROVE ReaderOK(q)'
  <2>1. ASSUME call[q].at \in InFile
        PROVE  call[q].file \in Objects /\ files'[q] = files[q]
    <3>1. q # p
      BY <1>1, <2>1 DEF Files!InUser, InFile
    <3>2. call[q].file \in Objects
      BY <2>1, InShape DEF FilesInv, FileTypes
    <3> QED BY <1>1, <3>1, <3>2 DEF FilesInv, FileTypes
  <2> QED BY <1>1, <1>3, <2>1, ReaderKept
<1> QED BY <1>2, <1>4, <1>5 DEF FilesInv

LEMMA SeekKeeps ==
  ASSUME FilesInv, NEW p \in Procs, NEW fd \in 1 .. NFILE, NEW to \in Seeks,
         Files!Seek(p, fd, to)
  PROVE  FilesInv'
<1>1. /\ Files!InUser(p) /\ files[p][fd] \in Objects
      /\ fileOffset' = [fileOffset EXCEPT ![files[p][fd]] = to]
      /\ files' = files /\ node' = node /\ call' = call /\ path' = path
  BY DEF Files!Seek
<1>2. PICK f \in Objects : f = files[p][fd]
  BY <1>1
<1>3. FileTypes'
  BY <1>1, <1>2, Descriptors DEF FilesInv, FileTypes
<1>4. \A g : Files!Users(g)' = Files!Users(g)
  BY <1>1 DEF Files!Users
<1>5. ASSUME NEW g \in Objects, Files!Users(g)' # {} PROVE Opened(g)'
  BY <1>1, <1>4, <1>5 DEF FilesInv, Opened
<1>6. ASSUME NEW q \in Procs PROVE ReaderOK(q)'
  <2>1. ASSUME call[q].at \in InFile, Files!Users(call[q].file) = {q}
        PROVE  fileOffset'[call[q].file] = fileOffset[call[q].file]
    <3>1. q # p
      BY <1>1, <2>1 DEF Files!InUser, InFile
    <3>2. p \in Files!Users(f)
      BY <1>2 DEF Files!Users
    <3>3. call[q].file # f /\ call[q].file \in Objects
      BY <2>1, <3>1, <3>2, InShape DEF FilesInv, FileTypes
    <3> QED BY <1>1, <1>2, <3>3 DEF FilesInv, FileTypes
  <2> QED BY <1>1, <1>4, <2>1, ReaderKept
<1> QED BY <1>3, <1>5, <1>6 DEF FilesInv

\* fork(): the child's table is the parent's, who is not reading.
LEMMA ForkKeeps ==
  ASSUME FilesInv, NEW p \in Procs, NEW q \in Procs, Files!Fork(p, q)
  PROVE  FilesInv'
<1>1. /\ Files!InUser(p) /\ call[q].at = "unborn"
      /\ files' = [files EXCEPT ![q] = files[p]]
      /\ call' = [call EXCEPT ![q] = Files!NoCall]
      /\ node' = node /\ fileOffset' = fileOffset /\ path' = path
  BY DEF Files!Fork, Files!file
<1>2. FileTypes'
  <2>1. Shape(Files!NoCall)
    BY DEF Shape, Files!NoCall
  <2> QED BY <1>1, <2>1 DEF FilesInv, FileTypes
<1>3. ASSUME NEW g, NEW r \in Files!Users(g)'
      PROVE  r \in Files!Users(g) \/ p \in Files!Users(g)
  BY <1>1 DEF Files!Users, FilesInv, FileTypes
<1>4. ASSUME NEW g \in Objects, Files!Users(g)' # {} PROVE Opened(g)'
  BY <1>1, <1>3, <1>4 DEF FilesInv, Opened
<1>5. ASSUME NEW r \in Procs PROVE ReaderOK(r)'
  <2>1. CASE r = q
    BY <1>1, <2>1 DEF ReaderOK, InFile, Files!NoCall, FilesInv, FileTypes
  <2>2. CASE r # q
    <3>1. call'[r] = call[r] /\ files'[r] = files[r]
      BY <1>1, <2>2 DEF FilesInv, FileTypes
    <3>2. ASSUME call[r].at \in InFile, Files!Users(call[r].file) = {r}
          PROVE  Files!Users(call[r].file)' \subseteq Files!Users(call[r].file)
      <4>1. r # p
        BY <1>1, <3>2 DEF Files!InUser, InFile
      <4>2. p \notin Files!Users(call[r].file)
        BY <3>2, <4>1
      <4>3. \A s \in Files!Users(call[r].file)' : s \in Files!Users(call[r].file)
        BY <1>3, <3>1, <4>2
      <4> QED BY <4>3
    <3> QED BY <1>1, <3>1, <3>2, ReaderKept
  <2> QED BY <2>1, <2>2
<1> QED BY <1>2, <1>4, <1>5 DEF FilesInv

LEMMA ExitKeeps ==
  ASSUME FilesInv, NEW p \in Procs, Files!Exit(p)
  PROVE  FilesInv'
<1>1. /\ Files!InUser(p)
      /\ files' = [files EXCEPT ![p] = [fd \in 1 .. NFILE |-> None]]
      /\ call' = [call EXCEPT ![p].at = "exited"]
      /\ node' = node /\ fileOffset' = fileOffset /\ path' = path
  BY DEF Files!Exit, Files!file
<1>2. call'[p] = [at |-> "exited"]
  <2>1. call[p].at = "user" /\ Shape(call[p])
    BY <1>1 DEF FilesInv, FileTypes, Files!InUser
  <2>2. call[p] \in [at : {"user", "unborn", "exited"}]
    BY <2>1 DEF Shape
  <2> QED BY <1>1, <2>2 DEF FilesInv, FileTypes
<1>3. FileTypes'
  <2>1. Shape(call'[p])
    BY <1>2 DEF Shape
  <2> QED BY <1>1, <2>1 DEF FilesInv, FileTypes
<1>4. ASSUME NEW g \in Objects PROVE Files!Users(g)' \subseteq Files!Users(g)
  BY <1>1, <1>4, Descriptors DEF Files!Users, FilesInv, FileTypes
<1>5. ASSUME NEW g \in Objects, Files!Users(g)' # {} PROVE Opened(g)'
  BY <1>1, <1>4, <1>5 DEF FilesInv, Opened
<1>6. ASSUME NEW r \in Procs PROVE ReaderOK(r)'
  <2>1. CASE r = p
    BY <1>2, <2>1 DEF ReaderOK, InFile
  <2>2. CASE r # p
    <3>1. call'[r] = call[r] /\ files'[r] = files[r]
      BY <1>1, <2>2 DEF FilesInv, FileTypes
    <3>2. call[r].at \in InFile => call[r].file \in Objects
      BY InShape DEF FilesInv, FileTypes
    <3> QED BY <1>1, <1>4, <3>1, <3>2, ReaderKept
  <2> QED BY <2>1, <2>2
<1> QED BY <1>3, <1>5, <1>6 DEF FilesInv

\* The steps of read() itself: c is what p's record becomes.
LEMMA ReadingKeeps ==
  ASSUME FilesInv, NEW p \in Procs, NEW c, Shape(c),
         call' = [call EXCEPT ![p] = c],
         files' = files, node' = node, fileOffset' = fileOffset, path' = path,
         c.at \in InFile =>
           /\ p \in Files!Users(c.file) /\ HasRead(c, node[c.file])
           /\ c.alone => /\ Files!Users(c.file) = {p}
                         /\ Undisturbed(c, node[c.file], fileOffset[c.file])
  PROVE  FilesInv'
<1>1. FileTypes'
  BY DEF FilesInv, FileTypes
<1>2. \A g : Files!Users(g)' = Files!Users(g)
  BY DEF Files!Users
<1>3. ASSUME NEW g \in Objects, Files!Users(g)' # {} PROVE Opened(g)'
  BY <1>2, <1>3 DEF FilesInv, Opened
<1>4. ASSUME NEW r \in Procs PROVE ReaderOK(r)'
  <2>1. CASE r = p
    <3>1. call'[r] = c
      BY <2>1 DEF FilesInv, FileTypes
    <3> QED BY <1>2, <2>1, <3>1 DEF ReaderOK, HasRead, Undisturbed
  <2>2. CASE r # p
    <3>1. call'[r] = call[r]
      BY <2>2 DEF FilesInv, FileTypes
    <3> QED BY <1>2, <3>1, ReaderKept
  <2> QED BY <2>1, <2>2
<1> QED BY <1>1, <1>3, <1>4 DEF FilesInv

LEMMA BeginKeeps ==
  ASSUME FilesInv, NEW p \in Procs, NEW fd \in 1 .. NFILE, NEW n \in Sizes,
         Files!Begin(p, fd, n)
  PROVE  FilesInv'
<1> DEFINE f == files[p][fd]
           c == [at |-> "compare", file |-> f, n |-> n, alone |-> Files!Users(f) = {p}]
<1>1. /\ f \in Objects /\ fileOffset[f] < node[f].size
      /\ call' = [call EXCEPT ![p] = c]
      /\ files' = files /\ node' = node /\ fileOffset' = fileOffset /\ path' = path
  BY DEF Files!Begin, Files!file
<1>2. p \in Files!Users(f)
  BY DEF Files!Users
<1>3. Shape(c)
  BY <1>1, Descriptors DEF Shape
<1>4. HasRead(c, node[f]) /\ (c.alone => Files!Users(f) = {p})
  BY DEF HasRead
<1>5. Undisturbed(c, node[f], fileOffset[f])
  BY <1>1 DEF Undisturbed
<1>6. c.file = f
  OBVIOUS
<1> HIDE DEF c
<1> QED BY <1>1, <1>2, <1>3, <1>4, <1>5, <1>6, ReadingKeeps

\* What a process that is in read() knows.
LEMMA InReadIs ==
  ASSUME FilesInv, NEW p \in Procs, call[p].at \in {"compare", "trim", "copy"}
  PROVE  LET c == call[p]
             f == c.file
         IN  /\ c \in [at : {"compare", "trim", "copy"}, file : Objects, n : 0 .. Word - 1,
                       alone : BOOLEAN]
             /\ f \in Objects /\ p \in Files!Users(f)
             /\ node[f].size \in 0 .. Word - 1 /\ fileOffset[f] \in 0 .. Word - 1
             /\ Files!Left(f) \in 0 .. Word - 1
             /\ c.alone => /\ Files!Users(f) = {p}
                           /\ Undisturbed(c, node[f], fileOffset[f])
                           /\ Files!Left(f) = node[f].size - fileOffset[f]
<1> DEFINE c == call[p]
           f == c.file
<1>1. c.at \in InFile /\ c.at # "add" /\ Shape(c)
  BY DEF InFile, FilesInv, FileTypes
<1>2. /\ f \in Objects
      /\ c \in [at : {"compare", "trim", "copy"}, file : Objects, n : 0 .. Word - 1,
                alone : BOOLEAN]
  BY <1>1, InShape
<1>3. /\ p \in Files!Users(f)
      /\ c.alone => Files!Users(f) = {p} /\ Undisturbed(c, node[f], fileOffset[f])
  BY <1>1 DEF FilesInv, ReaderOK
<1>4. node[f].size \in 0 .. Word - 1 /\ fileOffset[f] \in 0 .. Word - 1
  BY <1>2, <1>3, OpenSize DEF FilesInv, FileTypes
<1>5. \A size, o \in 0 .. Word - 1 : /\ (size - o) % Word \in 0 .. Word - 1
                                     /\ o < size => (size - o) % Word = size - o
  BY Descriptors, Z3
<1>6. /\ Files!Left(f) \in 0 .. Word - 1
      /\ c.alone => Files!Left(f) = node[f].size - fileOffset[f]
  <2>1. c.alone => fileOffset[f] < node[f].size
    BY <1>1, <1>3 DEF Undisturbed
  <2> QED BY <1>4, <1>5, <2>1 DEF Files!Left
<1> QED BY <1>2, <1>3, <1>4, <1>6

LEMMA CompareKeeps ==
  ASSUME FilesInv, NEW p \in Procs, Files!Compare(p)
  PROVE  FilesInv'
<1> DEFINE f == call[p].file
           step == IF call[p].n > Files!Left(f) THEN "trim" ELSE "copy"
           c == [call[p] EXCEPT !.at = step]
<1>1. /\ call[p].at = "compare"
      /\ call' = [call EXCEPT ![p].at = step]
      /\ files' = files /\ node' = node /\ fileOffset' = fileOffset /\ path' = path
  BY DEF Files!Compare, Files!InRead, Files!Goto, Files!file
<1>2. call' = [call EXCEPT ![p] = c]
  BY <1>1
<1>3. /\ c = [at |-> step, file |-> f, n |-> call[p].n, alone |-> call[p].alone]
      /\ Shape(c) /\ p \in Files!Users(f)
  <2>1. call[p] \in [at : {"compare", "trim", "copy"}, file : Objects, n : 0 .. Word - 1,
                     alone : BOOLEAN]
    BY <1>1, InReadIs
  <2> QED BY <1>1, <2>1, InReadIs DEF Shape
<1>4. HasRead(c, node[f])
  BY <1>3 DEF HasRead
<1>5. call[p].alone => Files!Users(f) = {p} /\ Undisturbed(c, node[f], fileOffset[f])
  <2>1. call[p].alone => /\ Files!Users(f) = {p} /\ fileOffset[f] < node[f].size
                         /\ Files!Left(f) = node[f].size - fileOffset[f]
    BY <1>1, InReadIs DEF Undisturbed
  <2>2. /\ call[p].n \in Nat /\ node[f].size \in Nat /\ fileOffset[f] \in Nat
        /\ c.at = step /\ c.n = call[p].n
    BY <1>1, <1>3, InReadIs
  <2> QED BY <2>1, <2>2 DEF Undisturbed
<1>6. c.file = f /\ c.alone = call[p].alone
  BY <1>3
<1> HIDE DEF c
<1> QED BY <1>1, <1>2, <1>3, <1>4, <1>5, <1>6, ReadingKeeps

LEMMA TrimKeeps ==
  ASSUME FilesInv, NEW p \in Procs, Files!Trim(p)
  PROVE  FilesInv'
<1> DEFINE f == call[p].file
           c == [call[p] EXCEPT !.at = "copy", !.n = Files!Left(f)]
<1>1. /\ call[p].at = "trim"
      /\ call' = [call EXCEPT ![p].at = "copy", ![p].n = Files!Left(f)]
      /\ files' = files /\ node' = node /\ fileOffset' = fileOffset /\ path' = path
  BY DEF Files!Trim, Files!InRead, Files!file
<1>2. call' = [call EXCEPT ![p] = c]
  BY <1>1 DEF FilesInv, FileTypes
<1>3. /\ c = [at |-> "copy", file |-> f, n |-> Files!Left(f), alone |-> call[p].alone]
      /\ Shape(c) /\ p \in Files!Users(f)
  <2>1. call[p] \in [at : {"compare", "trim", "copy"}, file : Objects, n : 0 .. Word - 1,
                     alone : BOOLEAN]
    BY <1>1, InReadIs
  <2>2. Files!Left(f) \in 0 .. Word - 1 /\ p \in Files!Users(f)
    BY <1>1, InReadIs
  <2>3. c \in [at : {"compare", "trim", "copy"}, file : Objects, n : 0 .. Word - 1,
               alone : BOOLEAN]
    BY <2>1, <2>2
  <2>4. /\ c.at = "copy" /\ c.file = f /\ c.n = Files!Left(f)
        /\ c.alone = call[p].alone
    BY <2>1
  <2> HIDE DEF c
  <2> QED BY <2>2, <2>3, <2>4 DEF Shape
<1>4. HasRead(c, node[f])
  BY <1>3 DEF HasRead
<1>5. call[p].alone => Files!Users(f) = {p} /\ Undisturbed(c, node[f], fileOffset[f])
  <2>1. call[p].alone => /\ Files!Users(f) = {p} /\ fileOffset[f] < node[f].size
                         /\ Files!Left(f) = node[f].size - fileOffset[f]
    BY <1>1, InReadIs DEF Undisturbed
  <2>2. /\ node[f].size \in Nat /\ fileOffset[f] \in Nat
        /\ c.at = "copy" /\ c.n = Files!Left(f)
    BY <1>1, <1>3, InReadIs
  <2> QED BY <2>1, <2>2 DEF Undisturbed
<1>6. c.file = f /\ c.alone = call[p].alone
  BY <1>3
<1> HIDE DEF c
<1> QED BY <1>1, <1>2, <1>3, <1>4, <1>5, <1>6, ReadingKeeps

LEMMA CopyKeeps ==
  ASSUME FilesInv, NEW p \in Procs, Files!Copy(p)
  PROVE  FilesInv'
<1> DEFINE f == call[p].file
           n == call[p].n
           copied == Files!NodeRead(node[f], fileOffset[f], n).data
           c == [at |-> "add", file |-> f, n |-> n, alone |-> call[p].alone,
                 from |-> fileOffset[f], data |-> copied]
           k == Reach(node[f].size, fileOffset[f], n)
<1>1. /\ call[p].at = "copy" /\ call' = [call EXCEPT ![p] = c]
      /\ files' = files /\ node' = node /\ fileOffset' = fileOffset /\ path' = path
  BY DEF Files!Copy, Files!InRead, Files!file
<1>2. /\ f \in Objects /\ n \in 0 .. Word - 1 /\ p \in Files!Users(f)
      /\ node[f].size \in Nat /\ fileOffset[f] \in 0 .. Word - 1 /\ fileOffset[f] \in Nat
      /\ n \in Nat
      /\ call[p].alone => /\ Files!Users(f) = {p} /\ fileOffset[f] < node[f].size
                          /\ n <= node[f].size - fileOffset[f]
  <2>1. /\ call[p] \in [at : {"compare", "trim", "copy"}, file : Objects, n : 0 .. Word - 1,
                        alone : BOOLEAN]
        /\ f \in Objects /\ p \in Files!Users(f)
        /\ node[f].size \in 0 .. Word - 1 /\ fileOffset[f] \in 0 .. Word - 1
    BY <1>1, InReadIs
  <2>2. n \in 0 .. Word - 1
    BY <2>1
  <2>3. \A x \in 0 .. Word - 1 : x \in Nat
    BY Descriptors
  <2>4. call[p].alone => /\ Files!Users(f) = {p} /\ fileOffset[f] < node[f].size
                         /\ n <= node[f].size - fileOffset[f]
    BY <1>1, InReadIs DEF Undisturbed
  <2> QED BY <2>1, <2>2, <2>3, <2>4
<1>3. copied = [i \in 1 .. k |-> NodeByte(node[f], fileOffset[f] + i - 1)]
  <2> HIDE DEF n, f
  <2> QED BY <1>2, NodeReadIs
<1>4. /\ k \in Nat
      /\ k # 0 => fileOffset[f] + k <= node[f].size
      /\ call[p].alone => k = n
  <2> HIDE DEF n, f
  <2> QED BY <1>2 DEF Reach, Files!Least
<1> HIDE DEF k, copied
<1>5. Len(copied) = k
  <2> DEFINE B == {NodeByte(node[f], fileOffset[f] + i - 1) : i \in 1 .. k}
  <2>1. copied \in [1 .. k -> B]
    BY <1>3
  <2> HIDE DEF B
  <2> QED BY <1>4, <2>1, FunctionIsSeq
<1>6. Shape(c)
  <2>1. /\ c.file = f /\ c.n = n /\ c.alone = call[p].alone /\ c.from = fileOffset[f]
        /\ c.data = copied
    OBVIOUS
  <2>2. c = [at |-> "add", file |-> c.file, n |-> c.n, alone |-> c.alone,
             from |-> c.from, data |-> c.data]
    BY <2>1
  <2>3. c.file \in Objects /\ c.n \in 0 .. Word - 1 /\ c.from \in 0 .. Word - 1
    BY <1>2, <2>1
  <2> HIDE DEF c
  <2> QED BY <2>2, <2>3 DEF Shape
<1>7. HasRead(c, node[f])
  BY <1>3, <1>4 DEF HasRead
<1>8. call[p].alone => Files!Users(f) = {p} /\ Undisturbed(c, node[f], fileOffset[f])
  BY <1>2, <1>4, <1>5 DEF Undisturbed
<1>9. c.file = f /\ c.alone = call[p].alone
  OBVIOUS
<1> HIDE DEF c
<1> QED BY <1>1, <1>2, <1>6, <1>7, <1>8, <1>9, ReadingKeeps

\* The offset moves on; whoever shares the file did not begin alone.
LEMMA AddKeeps ==
  ASSUME FilesInv, NEW p \in Procs, Files!Add(p)
  PROVE  FilesInv'
<1> DEFINE f == call[p].file
<1>1. /\ call[p].at = "add"
      /\ fileOffset' = [fileOffset EXCEPT ![f] = (@ + call[p].n) % Word]
      /\ call' = [call EXCEPT ![p] = Files!NoCall]
      /\ files' = files /\ node' = node /\ path' = path
  BY DEF Files!Add, Files!InRead
<1>2. f \in Objects /\ call[p].n \in 0 .. Word - 1 /\ p \in Files!Users(f)
  BY <1>1, InShape DEF FilesInv, FileTypes, InFile, ReaderOK
<1>3. FileTypes'
  <2>1. Shape(Files!NoCall)
    BY DEF Shape, Files!NoCall
  <2>2. \A a, b \in 0 .. Word - 1 : (a + b) % Word \in 0 .. Word - 1
    BY Descriptors, Z3
  <2>3. fileOffset' \in [Objects -> 0 .. Word - 1]
    BY <1>1, <1>2, <2>2 DEF FilesInv, FileTypes
  <2> QED BY <1>1, <2>1, <2>3 DEF FilesInv, FileTypes
<1>4. \A g : Files!Users(g)' = Files!Users(g)
  BY <1>1 DEF Files!Users
<1>5. ASSUME NEW g \in Objects, Files!Users(g)' # {} PROVE Opened(g)'
  BY <1>1, <1>4, <1>5 DEF FilesInv, Opened
<1>6. ASSUME NEW r \in Procs PROVE ReaderOK(r)'
  <2>1. CASE r = p
    BY <1>1, <2>1 DEF ReaderOK, InFile, Files!NoCall, FilesInv, FileTypes
  <2>2. CASE r # p
    <3>1. call'[r] = call[r]
      BY <1>1, <2>2 DEF FilesInv, FileTypes
    <3>2. ASSUME call[r].at \in InFile, Files!Users(call[r].file) = {r}
          PROVE  fileOffset'[call[r].file] = fileOffset[call[r].file]
      <4>1. call[r].file # f /\ call[r].file \in Objects
        BY <1>2, <2>2, <3>2, InShape DEF FilesInv, FileTypes
      <4> QED BY <1>1, <4>1 DEF FilesInv, FileTypes
    <3> QED BY <1>1, <1>4, <3>1, <3>2, ReaderKept
  <2> QED BY <2>1, <2>2
<1> QED BY <1>3, <1>5, <1>6 DEF FilesInv

LEMMA FilesStart == Files!Init => FilesInv
<1> SUFFICES ASSUME Files!Init PROVE FilesInv
  OBVIOUS
<1>1. /\ files = [p \in Procs |-> [fd \in 1 .. NFILE |->
                    IF p = First /\ fd \in Consoles THEN Console ELSE None]]
      /\ node = [f \in Objects |-> None]
      /\ fileOffset = [f \in Objects |-> 0]
      /\ call = [p \in Procs |-> IF p = First THEN [at |-> "user"] ELSE [at |-> "unborn"]]
      /\ path = [f \in Objects |-> << >>]
  BY DEF Files!Init, Files!NoCall
<1>2. \A p \in Procs : call[p] \in [at : {"user", "unborn", "exited"}]
  BY <1>1
<1>3. FileTypes
  BY <1>1, <1>2, Descriptors DEF FileTypes, Shape
<1>4. \A f \in Objects : Files!Users(f) = {}
  BY <1>1, Descriptors DEF Files!Users
<1>5. \A p \in Procs : ReaderOK(p)
  BY <1>2 DEF ReaderOK, InFile
<1> QED BY <1>3, <1>4, <1>5 DEF FilesInv

\* No step of the processes breaks the invariant.
LEMMA FilesKept ==
  ASSUME FilesInv, [FSNext]_all
  PROVE  FilesInv'
<1>1. ASSUME files' = files, node' = node, fileOffset' = fileOffset, path' = path,
             call' = call
      PROVE  FilesInv'
  <2>1. \A g : Files!Users(g)' = Files!Users(g)
    BY <1>1 DEF Files!Users
  <2> QED BY <1>1, <2>1 DEF FilesInv, FileTypes, Opened, ReaderOK
<1>2. ASSUME NEW p \in Procs, NEW target \in Files!Found, Files!Opening(p, target)
      PROVE  FilesInv'
  <2>1. CASE \E f \in Objects : Files!Open(p, target, f)
    BY <2>1, OpenKeeps
  <2>2. CASE Files!OpenPanics(p, target)
    BY <1>1, <2>2 DEF Files!OpenPanics, Files!file
  <2> QED BY <1>2, <2>1, <2>2 DEF Files!Opening
<1>3. ASSUME NEW p \in Procs, Files!Using(p) PROVE FilesInv'
  <2>1. ASSUME NEW fd \in 1 .. NFILE, Files!LenPanics(p, fd) PROVE FilesInv'
    BY <1>1, <2>1 DEF Files!LenPanics, Files!file
  <2>2. ASSUME NEW fd \in 1 .. NFILE, Files!Close(p, fd) PROVE FilesInv'
    BY <2>2, CloseKeeps
  <2>3. ASSUME NEW fd \in 1 .. NFILE, NEW to \in Seeks, Files!Seek(p, fd, to)
        PROVE  FilesInv'
    BY <2>3, SeekKeeps
  <2>4. ASSUME NEW fd \in 1 .. NFILE, NEW n \in Sizes, Files!Begin(p, fd, n)
        PROVE  FilesInv'
    BY <2>4, BeginKeeps
  <2>5. ASSUME NEW q \in Procs, Files!Fork(p, q) PROVE FilesInv'
    BY <2>5, ForkKeeps
  <2>6. CASE Files!Exit(p)
    BY <2>6, ExitKeeps
  <2>7. CASE Files!Compare(p)
    BY <2>7, CompareKeeps
  <2>8. CASE Files!Trim(p)
    BY <2>8, TrimKeeps
  <2>9. CASE Files!Copy(p)
    BY <2>9, CopyKeeps
  <2>10. CASE Files!Add(p)
    BY <2>10, AddKeeps
  <2> QED BY <1>3, <2>1, <2>2, <2>3, <2>4, <2>5, <2>6, <2>7, <2>8, <2>9, <2>10
          DEF Files!Using
<1>4. CASE UNCHANGED fileVars
  BY <1>1, <1>4 DEF fileVars
<1>5. CASE ~UNCHANGED fileVars
  BY <1>2, <1>3, <1>5 DEF FSNext, PlayerStep, FilesStep, ExeclStep, all
<1> QED BY <1>4, <1>5

LEMMA FilesSafe == FSSpec => []FilesInv
<1>1. FSInit => FilesInv
  BY FilesStart DEF FSInit
<1>2. FilesInv /\ [FSNext]_all => FilesInv'
  BY FilesKept
<1> QED BY <1>1, <1>2, PTL DEF FSSpec

(* A process that has a file for itself reads as much as it asked for, or   *)
(* the rest of the file, and read() of kernel/file.h returns that number,   *)
(* although it looks at the offset up to four times.                        *)
THEOREM AloneCountsRight == FSSpec => []AloneReadsWhatItCounts
<1>1. ASSUME FilesInv PROVE AloneReadsWhatItCounts
  <2> SUFFICES ASSUME NEW p \in Procs, call[p].at = "add", call[p].alone
               PROVE  call[p].n = Len(call[p].data)
    BY DEF AloneReadsWhatItCounts, Files!AloneReadsWhatItCounts
  <2>1. call[p].at \in InFile
    BY DEF InFile
  <2> QED BY <1>1, <2>1 DEF FilesInv, ReaderOK, Undisturbed
<1> QED BY <1>1, FilesSafe, PTL

(* What read() puts into the buffer are the bytes of the file that the path *)
(* named, whoever shares it and moves its offset meanwhile: from the offset *)
(* that it read and never behind the end.                                   *)
THEOREM ReadDelivers ==
  ASSUME LookupsLead
  PROVE  FSSpec => []DeliversTheFile
<1>1. ASSUME FilesInv PROVE DeliversTheFile
  <2> SUFFICES ASSUME NEW p \in Procs, call[p].at = "add", call[p].data # << >>
               PROVE  LET cells == Content[Named[path[call[p].file]]]
                          last == call[p].from + Len(call[p].data)
                      IN  last <= Len(cells)
                          /\ call[p].data = SubSeq(cells, call[p].from + 1, last)
    BY DEF DeliversTheFile, Files!DeliversTheFile
  <2>1. PICK f : f = call[p].file
    OBVIOUS
  <2>2. PICK from, data : from = call[p].from /\ data = call[p].data
    OBVIOUS
  <2>3. call[p].at \in InFile /\ Shape(call[p])
    BY <1>1 DEF InFile, FilesInv, FileTypes
  <2>4. f \in Objects /\ from \in Nat
    BY <2>1, <2>2, <2>3, Descriptors DEF Shape, InFile
  <2>5. p \in Files!Users(f) /\ HasRead(call[p], node[f])
    BY <1>1, <2>1, <2>3 DEF FilesInv, ReaderOK
  <2>6. PICK target \in Files!Found : /\ target.lookup.is = "node"
                                      /\ node[f] = target.lookup.node /\ path[f] = target.path
    BY <1>1, <2>4, <2>5 DEF FilesInv, Opened
  <2>7. PICK inode, size : inode = node[f] /\ size = inode.size
    OBVIOUS
  <2>8. size \in Nat
    BY <1>1, <2>4, <2>5, <2>7, OpenSize, Descriptors
  <2>9. PICK cells : cells = Content[Named[path[f]]]
    OBVIOUS
  <2>10. cells = [i \in 1 .. size |-> NodeByte(inode, i - 1)]
    BY <2>6, <2>7, <2>9 DEF LookupsLead
  <2>11. PICK k \in Nat : /\ data = [i \in 1 .. k |-> NodeByte(inode, from + i - 1)]
                          /\ k # 0 => from + k <= size
    BY <2>2, <2>5, <2>7 DEF HasRead
  <2>12. k # 0
    BY <2>2, <2>11
  <2> DEFINE B == {NodeByte(inode, i) : i \in Int}
  <2>19. \A i \in Int : NodeByte(inode, i) \in B
    OBVIOUS
  <2> HIDE DEF B
  <2>13. cells \in [1 .. size -> B] /\ data \in [1 .. k -> B]
    BY <2>4, <2>8, <2>10, <2>11, <2>19
  <2>14. /\ cells \in Seq(B) /\ Len(cells) = size
         /\ data \in Seq(B) /\ Len(data) = k
    BY <2>8, <2>13, FunctionIsSeq
  <2>15. from + k <= size
    BY <2>11, <2>12
  <2>16. /\ SubSeq(cells, from + 1, from + k) \in Seq(B)
         /\ Len(SubSeq(cells, from + 1, from + k)) = k
         /\ \A i \in 1 .. k : SubSeq(cells, from + 1, from + k)[i] = cells[from + i]
    <3>1. PICK m \in Nat, n \in Nat : m = from + 1 /\ n = from + k
      BY <2>4
    <3>2. m <= n /\ n - m + 1 = k /\ n <= size
      BY <2>4, <2>12, <2>15, <3>1
    <3>3. ASSUME NEW i \in m .. n PROVE cells[i] \in B
      <4>1. i \in 1 .. size
        BY <2>4, <2>8, <3>1, <3>2
      <4> QED BY <2>13, <4>1
    <3>4. PICK cut : cut = SubSeq(cells, m, n)
      OBVIOUS
    <3>5. /\ cut \in Seq(B) /\ Len(cut) = IF m <= n THEN n - m + 1 ELSE 0
          /\ \A i \in 1 .. n - m + 1 : cut[i] = cells[m + i - 1]
      BY <3>3, <3>4, SubSeqProperties
    <3>6. Len(cut) = k
      BY <3>2, <3>5
    <3>7. ASSUME NEW i \in 1 .. k PROVE cut[i] = cells[from + i]
      <4>1. m + i - 1 = from + i /\ i \in 1 .. n - m + 1
        BY <2>4, <3>1, <3>2
      <4>2. cut[i] = cells[m + i - 1]
        BY <3>5, <4>1
      <4> QED BY <4>1, <4>2
    <3> QED BY <3>1, <3>4, <3>5, <3>6, <3>7
  <2>17. ASSUME NEW i \in 1 .. k PROVE data[i] = cells[from + i]
    <3>1. from + i \in 1 .. size
      BY <2>4, <2>8, <2>15
    <3>2. data[i] = NodeByte(inode, from + i - 1)
      BY <2>11
    <3>3. cells[from + i] = NodeByte(inode, (from + i) - 1)
      BY <2>10, <3>1
    <3> QED BY <2>4, <3>2, <3>3
  <2>18. data = SubSeq(cells, from + 1, from + k)
    BY <2>14, <2>16, <2>17, SeqEqual
  <2> QED BY <2>1, <2>2, <2>9, <2>14, <2>15, <2>18
<1> QED BY <1>1, FilesSafe, PTL

-----------------------------------------------------------------------------
(* execl(): what a failure leaves *)

\* The program that calls execl() has all it had.
CallerIntact == held /\ memory = [a \in Loader!Addresses |-> Loader!Old]

IsThere(inode) == inode.is \notin {"nullptr", "panic"}

\* What find() makes of the path that was asked for is a link, or it is good enough.
Asked(good(_)) ==
  \E first \in Loader!Inodes : /\ first.path = request.path /\ IsThere(first)
                               /\ Loader!Link(first) \/ good(first)

IsFound(inode) == inode = found
IsFile(inode) == inode.type = "file"

\* As long as the memory is there, nothing of it has changed; when it goes, there is
\* a file to be loaded, or a link that exec() will refuse.
ExeclInv ==
  /\ execStage \in {"user", "follow", "arguments", "clear"} => CallerIntact
  /\ execStage = "follow" => found \in Loader!Inodes /\ IsThere(found) /\ Asked(IsFound)
  /\ execStage \in {"arguments", "clear", "exec"} => Asked(IsFile)
  /\ execStage = "failed" => CallerIntact \/ Loader!Link(found)

\* find() finds the same whenever it is called.
LEMMA OneInode ==
  ASSUME NEW i \in Loader!Inodes, NEW j \in Loader!Inodes, i.path = j.path
  PROVE  i = j
BY DEF Loader!Inodes, Loader!Inode

\* No step of execl() breaks the invariant.
LEMMA ExeclSafe == FSSpec => []ExeclInv
<1>1. FSInit => ExeclInv
  BY DEF FSInit, Loader!Init, ExeclInv, CallerIntact
<1>2. ASSUME ExeclInv, Loader!Next PROVE ExeclInv'
  <2> USE <1>2 DEF ExeclInv, Loader!Step, Loader!locals, CallerIntact
  <2>1. ASSUME NEW inode \in Loader!Inodes, Loader!Call(inode) PROVE ExeclInv'
    <3>1. /\ execStage = "user" /\ found' = inode /\ request.path = inode.path
          /\ UNCHANGED <<request, memory, held>>
      BY <2>1 DEF Loader!Call
    <3>2. execStage' = "follow" => IsThere(inode)
      BY <2>1 DEF Loader!Call, IsThere
    <3> QED BY <2>1, <3>1, <3>2 DEF Loader!Call, Asked, IsThere, IsFound, IsFile
  <2>2. ASSUME NEW inode \in Loader!Inodes, Loader!FollowLink(inode) PROVE ExeclInv'
    BY <2>2 DEF Loader!FollowLink, Asked, IsThere, IsFound, IsFile
  <2>3. ASSUME NEW inode \in Loader!Inodes, Loader!Exec(inode) PROVE ExeclInv'
    BY <2>3, OneInode DEF Loader!Exec, Asked, IsThere, IsFound, IsFile
  <2>4. CASE Loader!TooManyLinks
    BY <2>4 DEF Loader!TooManyLinks
  <2>5. CASE Loader!CheckProgram
    BY <2>5, LoaderAssumption DEF Loader!CheckProgram, Loader!OnlyFilesHaveHeaders,
                                Loader!Link, Asked, IsThere, IsFound, IsFile
  <2>6. CASE Loader!CopyArguments
    BY <2>6 DEF Loader!CopyArguments, Asked, IsThere, IsFile
  <2>7. CASE Loader!Clear
    BY <2>7 DEF Loader!Clear, Asked, IsThere, IsFile
  <2>8. CASE Loader!LoadHeader
    BY <2>8 DEF Loader!LoadHeader
  <2>9. CASE Loader!LoadSegment
    BY <2>9 DEF Loader!LoadSegment
  <2>10. CASE Loader!Start
    BY <2>10 DEF Loader!Start
  <2> QED BY <1>2, <2>1, <2>2, <2>3, <2>4, <2>5, <2>6, <2>7, <2>8, <2>9, <2>10
          DEF Loader!Next, Loader!Finding, Loader!Loading
<1>3. ASSUME ExeclInv, UNCHANGED execVars PROVE ExeclInv'
  BY <1>3 DEF execVars, ExeclInv, CallerIntact, Asked, IsThere, IsFound, IsFile
<1>4. [FSNext]_all => Loader!Next \/ UNCHANGED execVars
  BY DEF FSNext, PlayerStep, FilesStep, ExeclStep, all, Loader!Next
<1>5. ExeclInv /\ [FSNext]_all => ExeclInv'
  BY <1>2, <1>3, <1>4
<1> QED BY <1>1, <1>5, PTL DEF FSSpec

(* An execl() that returns an error (kernel/sys.cc) has left its caller the *)
(* memory, the semaphores and the children that it had, unless the path is  *)
(* that of a link.                                                          *)
THEOREM FailureIsHarmless == FSSpec => []FailureLeavesTheCaller
<1>1. ExeclInv => FailureLeavesTheCaller
  BY DEF ExeclInv, FailureLeavesTheCaller, Loader!FailureLeavesTheCaller, CallerIntact
<1> QED BY <1>1, ExeclSafe, PTL
=============================================================================
