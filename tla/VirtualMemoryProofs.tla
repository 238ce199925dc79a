------------------------ MODULE VirtualMemoryProofs -------------------------
(* The virtual memory of MP4, for any number, place and size of pools with  *)
(* a gap between them, any number of frames and any sequence of accesses,   *)
(* allocations and releases, those included that free the wrong pages. The  *)
(* second part is about the page table of MP3.                              *)
EXTENDS VirtualMemory, PageTable, FiniteSetTheorems, SequenceTheorems,
        WellFoundedInduction, TLAPS

Entries == FrameNos \union {None}
Region == [base : Nat, size : Nat]

TypeOK ==
  /\ free \subseteq FrameNos
  /\ pde \in [Tables -> Entries] /\ pte \in [Pages -> Entries] /\ tlb \in [Pages -> Entries]
  /\ vmpool \in Seq(VMPools)
  /\ allocated_list \in [VMPools -> Seq(Region)] /\ free_list \in [VMPools -> Seq(Region)]
  /\ access \in Pages \union {Nowhere}
  /\ live \subseteq [pool : VMPools, base : Nat, size : Nat]

----------------------------------------------------------------------------
\* One use for every frame, and no entry under a page table page that is
\* missing: making one loses no frame.
OneUse ==
  /\ \A x, y \in Pages : pte[x] = pte[y] /\ pte[x] # None => x = y
  /\ \A t, u \in Tables : pde[t] = pde[u] /\ pde[t] # None => t = u
  /\ \A x \in Pages, t \in Tables : pte[x] = pde[t] => pte[x] = None
  /\ \A x \in Pages : pte[x] \notin free \union {1, 2}
  /\ \A t \in Tables : pde[t] \notin free \union {1, 2}
  /\ free \intersect {1, 2} = {}

SomeUse ==
  \A f \in FrameNos : \/ f \in free \union {1, 2}
                      \/ \E x \in Pages : pte[x] = f
                      \/ \E t \in Tables : pde[t] = f

MissingTablesEmpty == \A x \in Pages : pde[TableOf(x)] = None => pte[x] = None

FramesInv == TypeOK /\ OneUse /\ SomeUse /\ MissingTablesEmpty /\ CachedIsMapped

----------------------------------------------------------------------------
\* A pool's regions may run over its end, after releases of the wrong size,
\* but not over the missing page table page behind it: the release faults.
TablesOf(p) == TableOf(BasePage[p]) .. TableOf(BasePage[p] + Size[p] - 1)
Within(p, r) == \A x \in PagesOf(r) : TableOf(x) \in TablesOf(p)

RegionsWithin ==
  /\ \A p \in VMPools : \A i \in 1..Len(allocated_list[p]) :
       Within(p, allocated_list[p][i]) /\ allocated_list[p][i].size > 0
  /\ \A p \in VMPools : \A i \in 1..Len(free_list[p]) :
       Within(p, free_list[p][i]) /\ free_list[p][i].base > BasePage[p]
  /\ \A r \in live : Within(r.pool, r) /\ r.base > BasePage[r.pool] /\ r.size > 0

TablesWithin == \A t \in Tables : pde[t] # None => \E p \in VMPools : t \in TablesOf(p)

PoolsInv == FramesInv /\ RegionsWithin /\ TablesWithin /\ ListsStayMapped

----------------------------------------------------------------------------
\* Before the first release the free list is one gap at the end of the pool,
\* or empty, and the allocated regions cover what is in front of it.
PoolEnd(p) == BasePage[p] + Size[p]
Mark(p, gaps) == IF gaps = <<>> THEN PoolEnd(p) ELSE gaps[1].base

Tiled(p, taken, gaps) ==
  /\ Len(gaps) <= 1
  /\ gaps # <<>> => gaps[1].base + gaps[1].size = PoolEnd(p)
  /\ \A x \in BasePage[p] .. (PoolEnd(p) - 1) :
       Covers(taken, x) = IF x < Mark(p, gaps) THEN 1 ELSE 0

AllTiled ==
  \A i \in 1..Len(vmpool) :
    Tiled(vmpool[i], allocated_list[vmpool[i]], free_list[vmpool[i]])

TilesInv == TypeOK /\ (released \/ AllTiled)

----------------------------------------------------------------------------
\* Which page table page serves a page.
LEMMA TableBounds ==
  ASSUME NEW x \in Nat
  PROVE  /\ TableOf(x) \in Nat
         /\ PerTable * TableOf(x) <= x
         /\ x < PerTable * TableOf(x) + PerTable
<1> DEFINE q == x \div PerTable
           r == x % PerTable
<1>1. PerTable \in Nat \ {0}
  BY PoolsAssumption
<1>2. q \in Int /\ r \in 0..(PerTable - 1) /\ x = PerTable * q + r
  BY <1>1
<1> HIDE DEF q, r
<1>3. q < 0 => PerTable * q <= -PerTable
  BY <1>1, <1>2
<1>4. q >= 0
  BY <1>1, <1>2, <1>3
<1>5. PerTable * q \in Int
  BY <1>1, <1>2
<1> QED BY <1>1, <1>2, <1>4, <1>5 DEF TableOf, q

\* A page is served by a page table page behind number c if it lies behind the
\* pages of number c.
LEMMA TableOfPage ==
  ASSUME NEW x \in Nat, NEW c \in Nat
  PROVE  TableOf(x) > c <=> x >= PerTable * (c + 1)
<1>1. /\ PerTable \in Nat \ {0} /\ TableOf(x) \in Nat
      /\ PerTable * TableOf(x) <= x /\ x < PerTable * TableOf(x) + PerTable
  BY TableBounds, PoolsAssumption
<1> DEFINE t == TableOf(x)
<1> HIDE DEF t
<1>2. ASSUME t > c PROVE PerTable * t >= PerTable * (c + 1)
  BY <1>1, <1>2 DEF t
<1>3. ASSUME t <= c PROVE PerTable * t + PerTable <= PerTable * (c + 1)
  BY <1>1, <1>3 DEF t
<1>4. PerTable * t \in Int /\ PerTable * (c + 1) \in Int
  BY <1>1 DEF t
<1> QED BY <1>1, <1>2, <1>3, <1>4 DEF t

LEMMA TableMonotone ==
  ASSUME NEW x \in Nat, NEW y \in Nat, x <= y
  PROVE  TableOf(x) <= TableOf(y)
<1>1. TableOf(x) \in Nat /\ TableOf(y) \in Nat
  BY TableBounds
<1>2. TableOf(x) > TableOf(y) => x >= PerTable * (TableOf(y) + 1)
  BY <1>1, TableOfPage
<1>3. y < PerTable * (TableOf(y) + 1)
  BY <1>1, TableOfPage, PoolsAssumption
<1> QED BY <1>1, <1>2, <1>3, PoolsAssumption

LEMMA PagesAreServed == \A x \in Pages : x \in Nat /\ TableOf(x) \in Tables
<1> SUFFICES ASSUME NEW x \in Pages PROVE x \in Nat /\ TableOf(x) \in Tables
  OBVIOUS
<1>1. x \in Nat /\ MaxPage \in Nat /\ x <= MaxPage
  BY PoolsAssumption DEF Pages
<1>2. TableOf(x) <= TableOf(MaxPage) /\ TableOf(x) \in Nat /\ TableOf(MaxPage) \in Nat
  BY <1>1, TableMonotone, TableBounds
<1> QED BY <1>1, <1>2 DEF Tables, TableOf

----------------------------------------------------------------------------
\* What allocate and release leave of a list are entries it had.
LEMMA SwapRemoveEntries ==
  ASSUME NEW S, NEW s \in Seq(S), NEW i \in 1..Len(s)
  PROVE  /\ SwapRemove(s, i) \in Seq(S)
         /\ Len(SwapRemove(s, i)) = Len(s) - 1
         /\ \A k \in 1..(Len(s) - 1) : SwapRemove(s, i)[k] = IF k = i THEN s[Len(s)] ELSE s[k]
<1> DEFINE t == [s EXCEPT ![i] = s[Len(s)]]
           n == Len(s)
<1>1. n \in Nat /\ n \in 1..n /\ s[n] \in S
  OBVIOUS
<1>2. t \in Seq(S) /\ Len(t) = n /\ \A k \in 1..n : t[k] = IF k = i THEN s[n] ELSE s[k]
  BY <1>1, ExceptSeq
<1> HIDE DEF t
<1>3. /\ SubSeq(t, 1, n - 1) \in Seq(S) /\ Len(SubSeq(t, 1, n - 1)) = n - 1
      /\ \A k \in 1..(n - 1) : SubSeq(t, 1, n - 1)[k] = t[k]
  BY <1>1, <1>2
<1>4. SwapRemove(s, i) = SubSeq(t, 1, n - 1)
  BY <1>2 DEF SwapRemove, t
<1> QED BY <1>1, <1>2, <1>3, <1>4

\* The first entry of the list is the one that goes, whatever base it was
\* given, so the rest keeps what allocate wrote.
LEMMA RewrittenEntries ==
  ASSUME NEW s \in Seq(Region), s # <<>>, NEW b \in Nat
  PROVE  LET after == SwapRemove([s EXCEPT ![1].base = b], 1)
         IN  /\ after \in Seq(Region) /\ Len(after) = Len(s) - 1
             /\ \A k \in 1..(Len(s) - 1) : after[k] = IF k = 1 THEN s[Len(s)] ELSE s[k]
<1> DEFINE t == [s EXCEPT ![1] = [base |-> b, size |-> s[1].size]]
           n == Len(s)
<1>1. n \in Nat \ {0} /\ 1 \in 1..n /\ s[1] \in Region /\ n \in 1..n
  OBVIOUS
<1>2. [s[1] EXCEPT !.base = b] = [base |-> b, size |-> s[1].size]
  BY <1>1 DEF Region
<1>3. [s EXCEPT ![1].base = b] = t
  BY <1>2
<1>4. [base |-> b, size |-> s[1].size] \in Region
  BY <1>1 DEF Region
<1>5. t \in Seq(Region) /\ Len(t) = n /\ \A k \in 1..n : k # 1 => t[k] = s[k]
  BY <1>1, <1>4, ExceptSeq
<1> HIDE DEF t
<1>6. /\ SwapRemove(t, 1) \in Seq(Region) /\ Len(SwapRemove(t, 1)) = n - 1
      /\ \A k \in 1..(n - 1) : SwapRemove(t, 1)[k] = IF k = 1 THEN t[n] ELSE t[k]
  BY <1>1, <1>5, SwapRemoveEntries
<1>7. \A k \in 1..(n - 1) : n # 1 /\ (k # 1 => t[k] = s[k])
  BY <1>1, <1>5
<1> QED BY <1>1, <1>3, <1>5, <1>6, <1>7

\* A request of at least one byte takes at least one page.
LEMMA RequestsArePositive ==
  ASSUME NEW b \in 1..MaxBytes
  PROVE  PagesNeeded(b) \in Nat \ {0}
<1> DEFINE q == b \div PageBytes
           r == b % PageBytes
<1>1. PageBytes \in Nat \ {0} /\ b \in Nat \ {0}
  BY SizesAssumption
<1>2. q \in Int /\ r \in 0..(PageBytes - 1) /\ b = PageBytes * q + r
  BY <1>1
<1>3. PagesNeeded(b) = q + (IF r > 0 THEN 1 ELSE 0)
  BY DEF PagesNeeded
<1> HIDE DEF q, r
<1>4. q < 0 => PageBytes * q <= -PageBytes
  BY <1>1, <1>2
<1>5. q = 0 => PageBytes * q = 0
  BY <1>1, <1>2
<1>6. PageBytes * q \in Int
  BY <1>1, <1>2
<1>7. q >= 0 /\ (q = 0 => r > 0)
  BY <1>1, <1>2, <1>4, <1>5, <1>6
<1> QED BY <1>2, <1>3, <1>7

----------------------------------------------------------------------------
\* What a registered pool's number is, and what allocate takes.
LEMMA AllocateTakes ==
  ASSUME TypeOK, NEW p \in VMPools, NEW b \in 1..MaxBytes, Allocate(p, b)
  PROVE  LET n == PagesNeeded(b)
             gaps == free_list[p]
         IN  \E i \in 1..Len(gaps) :
               /\ n \in Nat \ {0} /\ gaps \in Seq(Region) /\ gaps[i] \in Region
               /\ gaps[i].size >= n
               /\ Shrunk(gaps[i], n) \in Region
               /\ Shrunk(gaps[i], n) = [base |-> gaps[i].base + n, size |-> gaps[i].size - n]
               /\ [base |-> gaps[i].base, size |-> n] \in Region
               /\ free_list' = [free_list EXCEPT ![p] =
                    IF gaps[i].size # n THEN [gaps EXCEPT ![i] = Shrunk(gaps[i], n)]
                                        ELSE SwapRemove(gaps, i)]
               /\ allocated_list' = [allocated_list EXCEPT ![p] =
                    Append(allocated_list[p], [base |-> gaps[i].base, size |-> n])]
               /\ live' = live \union {[pool |-> p, base |-> gaps[i].base, size |-> n]}
<1> DEFINE n == PagesNeeded(b)
           gaps == free_list[p]
<1>1. n \in Nat \ {0} /\ gaps \in Seq(Region)
  BY RequestsArePositive DEF TypeOK
<1>2. PICK i \in 1..Len(gaps) :
        /\ HasRoom(gaps[i], n)
        /\ free_list' = [free_list EXCEPT ![p] =
             IF gaps[i].size # n THEN [gaps EXCEPT ![i] = Shrunk(@, n)]
                                 ELSE SwapRemove(gaps, i)]
        /\ allocated_list' = [allocated_list EXCEPT ![p] =
             Append(@, [base |-> gaps[i].base, size |-> n])]
        /\ live' = live \union {[pool |-> p, base |-> gaps[i].base, size |-> n]}
  BY DEF Allocate
<1>3. gaps[i] \in Region /\ gaps[i].base \in Nat /\ gaps[i].size \in Nat
  <2> HIDE DEF n, gaps
  <2>1. gaps[i] \in Region
    BY <1>1
  <2> QED BY <2>1 DEF Region
<1>4. gaps[i].size >= n /\ gaps[i].size - n \in Nat /\ gaps[i].base + n \in Nat
  BY <1>1, <1>2, <1>3 DEF HasRoom
<1>5. Shrunk(gaps[i], n) = [base |-> gaps[i].base + n, size |-> gaps[i].size - n]
  BY DEF Shrunk
<1>6. Shrunk(gaps[i], n) \in Region /\ [base |-> gaps[i].base, size |-> n] \in Region
  BY <1>1, <1>3, <1>4, <1>5 DEF Region
<1> HIDE DEF n
<1> QED BY <1>1, <1>2, <1>3, <1>4, <1>5, <1>6 DEF n

\* The pages that release gives back are served by page table pages.
Reached(r) ==
  {j \in 0..(allocated_list[r.pool][1].size - 1) : \A h \in 0..j : Covered(r.base + h)}
Gone(r) == {r.base + j : j \in Reached(r)}

LEMMA GoneArePages ==
  ASSUME TypeOK, NEW r \in live
  PROVE  Gone(r) \subseteq Pages /\ \A x \in Gone(r) : Covered(x)
<1> SUFFICES ASSUME NEW j \in Reached(r) PROVE Covered(r.base + j) /\ r.base + j \in Pages
  BY DEF Gone
<1>1. j \in Int /\ j >= 0 /\ \A h \in 0..j : Covered(r.base + h)
  BY DEF Reached
<1>2. j \in 0..j
  BY <1>1
<1> QED BY <1>1, <1>2 DEF Covered

LEMMA FreedTypes ==
  ASSUME TypeOK, NEW gone \in SUBSET Pages, free_pages(gone)
  PROVE  /\ free' \subseteq FrameNos /\ pte' \in [Pages -> Entries]
         /\ tlb' \in [Pages -> Entries]
<1>1. \A x \in Pages : pte[x] \in FrameNos \union {None}
  BY DEF TypeOK, Entries
<1>2. free' = free \union ({pte[x] : x \in gone} \ {None})
  BY DEF free_pages
<1>3. free' \subseteq FrameNos
  <2>1. \A f \in {pte[x] : x \in gone} \ {None} : f \in FrameNos
    BY <1>1
  <2>2. free \subseteq FrameNos
    BY DEF TypeOK
  <2> QED BY <1>2, <2>1, <2>2
<1>4. pte' \in [Pages -> Entries]
  BY <1>1 DEF free_pages, Entries
<1>5. tlb' \in [Pages -> Entries]
  BY DEF free_pages, Entries, TypeOK
<1> QED BY <1>3, <1>4, <1>5

\* What release does to the lists when every page of the wrong size is served.
LEMMA ReleaseLists ==
  ASSUME TypeOK, NEW r \in live, Release(r)
  PROVE  LET p == r.pool
             s == allocated_list[p]
         IN  \/ UNCHANGED <<allocated_list, free_list>>
             \/ /\ s # <<>> /\ Reached(r) = 0..(s[1].size - 1)
                /\ s[1] \in Region /\ s \in Seq(Region)
                /\ [base |-> r.base, size |-> s[1].size] \in Region
                /\ free_list' = [free_list EXCEPT ![p] =
                     Append(free_list[p], [base |-> r.base, size |-> s[1].size])]
                /\ allocated_list' = [allocated_list EXCEPT ![p] =
                     SwapRemove([s EXCEPT ![1].base = r.base], 1)]
<1> DEFINE p == r.pool
           s == allocated_list[p]
<1>1. p \in VMPools /\ s \in Seq(Region) /\ r.base \in Nat
  BY DEF TypeOK
<1>2. ASSUME s # <<>>
      PROVE  s[1] \in Region /\ [base |-> r.base, size |-> s[1].size] \in Region
  <2> HIDE DEF s, p
  <2>1. s[1] \in Region
    BY <1>1, <1>2
  <2>2. s[1].size \in Nat
    BY <2>1 DEF Region
  <2> QED BY <1>1, <2>1, <2>2 DEF Region
<1>3. \/ UNCHANGED <<allocated_list, free_list>>
      \/ /\ s # <<>> /\ Reached(r) = 0..(s[1].size - 1)
         /\ free_list' = [free_list EXCEPT ![p] =
              Append(@, [base |-> r.base, size |-> s[1].size])]
         /\ allocated_list' = [allocated_list EXCEPT ![p] =
              SwapRemove([@ EXCEPT ![1].base = r.base], 1)]
  BY DEF Release, Reached
<1>4. p \in DOMAIN allocated_list /\ p \in DOMAIN free_list
  BY <1>1 DEF TypeOK
<1> HIDE DEF p
<1> QED BY <1>1, <1>2, <1>3, <1>4 DEF p

LEMMA ReleaseFrames ==
  ASSUME NEW r \in live, Release(r)
  PROVE  /\ live' = live \ {r} /\ released' = TRUE /\ UNCHANGED <<pde, vmpool, access>>
         /\ free_pages(Gone(r)) \/ UNCHANGED <<free, pte, tlb>>
BY DEF Release, Gone, Reached

----------------------------------------------------------------------------
\* What a page fault takes: a frame nobody uses.
LEMMA FrameTaken ==
  ASSUME TypeOK, OneUse, NEW f \in free, get_frame(f)
  PROVE  /\ f \in FrameNos /\ f # None /\ f \notin {1, 2} /\ free' = free \ {f}
         /\ \A x \in Pages : pte[x] # f
         /\ \A t \in Tables : pde[t] # f
<1>1. f \in FrameNos /\ f # None
  BY SizesAssumption DEF TypeOK, FrameNos, None
<1> QED BY <1>1 DEF OneUse, get_frame

LEMMA FaultTableMakes ==
  ASSUME TypeOK, MissingTablesEmpty, FaultTable
  PROVE  /\ access \in Pages /\ pde[TableOf(access)] = None /\ Legitimate(access)
         /\ pte' = pte /\ UNCHANGED <<tlb, access, lists, status>>
         /\ \E f \in free : get_frame(f) /\ pde' = [pde EXCEPT ![TableOf(access)] = f]
<1>1. access \in Pages
  BY DEF FaultTable, Faulting, TypeOK
<1>2. pde[TableOf(access)] = None /\ Legitimate(access)
  BY DEF FaultTable
<1>3. \A x \in Pages : TableOf(x) = TableOf(access) => pte[x] = None
  BY <1>2 DEF MissingTablesEmpty
<1>4. pte' = [x \in Pages |-> IF TableOf(x) = TableOf(access) THEN None ELSE pte[x]]
  BY DEF FaultTable
<1>5. pte \in [Pages -> Entries]
  BY DEF TypeOK
<1>6. pte' = pte
  BY <1>3, <1>4, <1>5
<1> QED BY <1>1, <1>2, <1>6 DEF FaultTable

LEMMA FaultPageMaps ==
  ASSUME TypeOK, FaultPage
  PROVE  /\ access \in Pages /\ pde[TableOf(access)] # None /\ pte[access] = None
         /\ UNCHANGED <<pde, tlb, access, lists, status>>
         /\ \E f \in free : get_frame(f) /\ pte' = [pte EXCEPT ![access] = f]
BY DEF FaultPage, Faulting, TypeOK

\* Types.
LEMMA FaultTypes ==
  ASSUME TypeOK, OneUse, MissingTablesEmpty, Fault
  PROVE  TypeOK' /\ UNCHANGED <<lists>>
<1>1. CASE FaultTable
  <2>1. PICK f \in free : get_frame(f) /\ pde' = [pde EXCEPT ![TableOf(access)] = f]
    BY <1>1, FaultTableMakes
  <2>2. f \in Entries /\ free' = free \ {f}
    BY <2>1, FrameTaken DEF Entries
  <2>3. pte' = pte /\ UNCHANGED <<tlb, access, lists>>
    BY <1>1, FaultTableMakes
  <2> QED BY <2>1, <2>2, <2>3 DEF TypeOK, lists
<1>2. CASE FaultPage
  <2>1. PICK f \in free : get_frame(f) /\ pte' = [pte EXCEPT ![access] = f]
    BY <1>2, FaultPageMaps
  <2>2. f \in Entries /\ free' = free \ {f}
    BY <2>1, FrameTaken DEF Entries
  <2>3. UNCHANGED <<pde, tlb, access, lists>>
    BY <1>2, FaultPageMaps
  <2> QED BY <2>1, <2>2, <2>3 DEF TypeOK, lists
<1>3. CASE Refuse \/ OutOfFrames \/ Complete
  <2>1. UNCHANGED <<free, pde, pte, lists>> /\ access' \in Pages \union {Nowhere}
    BY <1>3 DEF Refuse, OutOfFrames, Complete, TypeOK
  <2>2. tlb' \in [Pages -> Entries]
    BY <1>3 DEF Refuse, OutOfFrames, Complete, TypeOK
  <2> QED BY <2>1, <2>2 DEF TypeOK, lists
<1> QED BY <1>1, <1>2, <1>3 DEF Fault

LEMMA ConstructTypes ==
  ASSUME TypeOK, NEW p \in VMPools, VMPool(p)
  PROVE  TypeOK'
<1>1. BasePage[p] \in Nat /\ Size[p] \in Nat \ {0} /\ BasePage[p] \in Pages
  BY PoolsAssumption DEF Pages
<1>2. /\ [base |-> BasePage[p], size |-> 1] \in Region
      /\ [base |-> BasePage[p] + 1, size |-> Size[p] - 1] \in Region
  BY <1>1 DEF Region
<1>3. /\ allocated_list' \in [VMPools -> Seq(Region)] /\ free_list' \in [VMPools -> Seq(Region)]
  BY <1>2 DEF VMPool, TypeOK
<1>4. vmpool' \in Seq(VMPools)
  BY DEF VMPool, TypeOK
<1> QED BY <1>1, <1>3, <1>4 DEF VMPool, TypeOK

LEMMA AllocateTypes ==
  ASSUME TypeOK, NEW p \in VMPools, NEW b \in 1..MaxBytes, Allocate(p, b)
  PROVE  TypeOK'
<1> DEFINE n == PagesNeeded(b)
           gaps == free_list[p]
<1>1. PICK i \in 1..Len(gaps) :
        /\ n \in Nat \ {0} /\ gaps \in Seq(Region) /\ gaps[i] \in Region
        /\ Shrunk(gaps[i], n) \in Region
        /\ [base |-> gaps[i].base, size |-> n] \in Region
        /\ free_list' = [free_list EXCEPT ![p] =
             IF gaps[i].size # n THEN [gaps EXCEPT ![i] = Shrunk(gaps[i], n)]
                                 ELSE SwapRemove(gaps, i)]
        /\ allocated_list' = [allocated_list EXCEPT ![p] =
             Append(allocated_list[p], [base |-> gaps[i].base, size |-> n])]
        /\ live' = live \union {[pool |-> p, base |-> gaps[i].base, size |-> n]}
  BY AllocateTakes
<1>2. [gaps EXCEPT ![i] = Shrunk(gaps[i], n)] \in Seq(Region)
  BY <1>1, ExceptSeq
<1>3. SwapRemove(gaps, i) \in Seq(Region)
  BY <1>1, SwapRemoveEntries
<1>4. free_list' \in [VMPools -> Seq(Region)]
  BY <1>1, <1>2, <1>3 DEF TypeOK
<1>5. allocated_list' \in [VMPools -> Seq(Region)]
  BY <1>1 DEF TypeOK
<1>6. gaps[i].base \in Nat
  BY <1>1 DEF Region
<1>7. live' \subseteq [pool : VMPools, base : Nat, size : Nat]
  BY <1>1, <1>6 DEF TypeOK
<1> QED BY <1>4, <1>5, <1>7 DEF Allocate, TypeOK

LEMMA ReleaseTypes ==
  ASSUME TypeOK, NEW r \in live, Release(r)
  PROVE  TypeOK'
<1>1. /\ live' = live \ {r} /\ UNCHANGED <<pde, vmpool, access>>
      /\ free_pages(Gone(r)) \/ UNCHANGED <<free, pte, tlb>>
  BY ReleaseFrames
<1>2. /\ free' \subseteq FrameNos /\ pte' \in [Pages -> Entries]
      /\ tlb' \in [Pages -> Entries]
  BY <1>1, GoneArePages, FreedTypes DEF TypeOK
<1> DEFINE p == r.pool
           s == allocated_list[p]
<1>3. allocated_list' \in [VMPools -> Seq(Region)] /\ free_list' \in [VMPools -> Seq(Region)]
  <2>1. CASE UNCHANGED <<allocated_list, free_list>>
    BY <2>1 DEF TypeOK
  <2>2. CASE ~UNCHANGED <<allocated_list, free_list>>
    <3>1. /\ s # <<>> /\ s \in Seq(Region) /\ r.base \in Nat /\ p \in VMPools
          /\ [base |-> r.base, size |-> s[1].size] \in Region
          /\ free_list' = [free_list EXCEPT ![p] =
               Append(free_list[p], [base |-> r.base, size |-> s[1].size])]
          /\ allocated_list' = [allocated_list EXCEPT ![p] =
               SwapRemove([s EXCEPT ![1].base = r.base], 1)]
      BY <2>2, ReleaseLists DEF TypeOK
    <3>2. SwapRemove([s EXCEPT ![1].base = r.base], 1) \in Seq(Region)
      BY <3>1, RewrittenEntries
    <3> HIDE DEF s, p
    <3> QED BY <3>1, <3>2 DEF TypeOK
  <2> QED BY <2>1, <2>2
<1> QED BY <1>1, <1>2, <1>3 DEF TypeOK

LEMMA NextTypes ==
  ASSUME TypeOK, OneUse, MissingTablesEmpty, [VMNext]_vmVars
  PROVE  TypeOK'
<1>1. CASE Fault
  BY <1>1, FaultTypes
<1>2. CASE ListFull \/ VMHalted \/ UNCHANGED vmVars
  BY <1>2 DEF ListFull, VMHalted, vmVars, lists, TypeOK
<1>3. ASSUME NEW x \in Pages, Touch(x) PROVE TypeOK'
  BY <1>3 DEF Touch, lists, TypeOK
<1> QED BY <1>1, <1>2, <1>3, ConstructTypes, AllocateTypes, ReleaseTypes DEF VMNext

----------------------------------------------------------------------------
\* AllFrames.
LEMMA FramesInit == VMInit => FramesInv
<1> SUFFICES ASSUME VMInit PROVE FramesInv
  OBVIOUS
<1>1. TypeOK
  <2>1. None \in Entries
    BY DEF Entries
  <2>2. /\ pde \in [Tables -> Entries] /\ pte \in [Pages -> Entries]
        /\ tlb \in [Pages -> Entries]
    BY <2>1 DEF VMInit
  <2> QED BY <2>2 DEF VMInit, TypeOK
<1>2. OneUse
  <2>1. None \notin FrameNos \union {1, 2}
    BY DEF None, FrameNos
  <2>2. free = FrameNos \ {1, 2}
    BY DEF VMInit
  <2>3. (\A x \in Pages : pte[x] = None) /\ (\A t \in Tables : pde[t] = None)
    BY DEF VMInit
  <2> QED BY <2>1, <2>2, <2>3 DEF OneUse
<1>3. SomeUse /\ MissingTablesEmpty /\ CachedIsMapped
  <2>1. \A x \in Pages : pte[x] = None /\ tlb[x] = None
    BY DEF VMInit
  <2> QED BY <2>1 DEF VMInit, SomeUse, MissingTablesEmpty, CachedIsMapped
<1> QED BY <1>1, <1>2, <1>3 DEF FramesInv

LEMMA FramesFaultTable ==
  ASSUME FramesInv, FaultTable
  PROVE  OneUse' /\ SomeUse' /\ MissingTablesEmpty' /\ CachedIsMapped'
<1>1. TypeOK /\ OneUse /\ SomeUse /\ MissingTablesEmpty /\ CachedIsMapped
  BY DEF FramesInv
<1>2. PICK f \in free : get_frame(f) /\ pde' = [pde EXCEPT ![TableOf(access)] = f]
  BY <1>1, FaultTableMakes
<1>3. pte' = pte /\ tlb' = tlb /\ access \in Pages /\ pde[TableOf(access)] = None
  BY <1>1, FaultTableMakes
<1>4. /\ f \in FrameNos /\ f # None /\ f \notin {1, 2} /\ free' = free \ {f}
      /\ \A x \in Pages : pte[x] # f
      /\ \A t \in Tables : pde[t] # f
  BY <1>1, <1>2, FrameTaken
<1>5. TableOf(access) \in Tables
  BY <1>3, PagesAreServed
<1>6. /\ \A t \in Tables : pde'[t] = IF t = TableOf(access) THEN f ELSE pde[t]
      /\ pde' \in [Tables -> Entries]
  BY <1>1, <1>2, <1>4, <1>5 DEF TypeOK, Entries
<1>7. OneUse'
  BY <1>1, <1>3, <1>4, <1>6 DEF OneUse
<1>8. SomeUse'
  <2> SUFFICES ASSUME NEW g \in FrameNos
               PROVE  \/ g \in free' \union {1, 2}
                      \/ \E x \in Pages : pte'[x] = g
                      \/ \E t \in Tables : pde'[t] = g
    BY DEF SomeUse
  <2>1. CASE g = f
    BY <1>5, <1>6, <2>1
  <2>2. CASE g \in free \union {1, 2} /\ g # f
    BY <1>4, <2>2
  <2>3. CASE \E x \in Pages : pte[x] = g
    BY <1>3, <2>3
  <2>4. CASE \E t \in Tables : pde[t] = g
    <3>1. PICK t \in Tables : pde[t] = g
      BY <2>4
    <3>2. g # None
      BY DEF FrameNos, None
    <3> QED BY <1>3, <1>6, <3>1, <3>2
  <2> QED BY <1>1, <2>1, <2>2, <2>3, <2>4 DEF SomeUse
<1>9. MissingTablesEmpty'
  BY <1>1, <1>3, <1>4, <1>6, PagesAreServed DEF MissingTablesEmpty
<1>10. CachedIsMapped'
  BY <1>1, <1>3 DEF CachedIsMapped
<1> QED BY <1>7, <1>8, <1>9, <1>10

LEMMA FramesFaultPage ==
  ASSUME FramesInv, FaultPage
  PROVE  OneUse' /\ SomeUse' /\ MissingTablesEmpty' /\ CachedIsMapped'
<1>1. TypeOK /\ OneUse /\ SomeUse /\ MissingTablesEmpty /\ CachedIsMapped
  BY DEF FramesInv
<1>2. PICK f \in free : get_frame(f) /\ pte' = [pte EXCEPT ![access] = f]
  BY <1>1, FaultPageMaps
<1>3. /\ pde' = pde /\ tlb' = tlb /\ access \in Pages /\ pte[access] = None
      /\ pde[TableOf(access)] # None
  BY <1>1, FaultPageMaps
<1>4. /\ f \in FrameNos /\ f # None /\ f \notin {1, 2} /\ free' = free \ {f}
      /\ \A x \in Pages : pte[x] # f
      /\ \A t \in Tables : pde[t] # f
  BY <1>1, <1>2, FrameTaken
<1>5. \A x \in Pages : pte'[x] = IF x = access THEN f ELSE pte[x]
  BY <1>1, <1>2, <1>3 DEF TypeOK
<1>6. OneUse'
  BY <1>1, <1>3, <1>4, <1>5 DEF OneUse
<1>7. SomeUse'
  <2> SUFFICES ASSUME NEW g \in FrameNos
               PROVE  \/ g \in free' \union {1, 2}
                      \/ \E x \in Pages : pte'[x] = g
                      \/ \E t \in Tables : pde'[t] = g
    BY DEF SomeUse
  <2>1. CASE g = f
    BY <1>3, <1>5, <2>1
  <2>2. CASE g \in free \union {1, 2} /\ g # f
    BY <1>4, <2>2
  <2>3. CASE \E x \in Pages : pte[x] = g
    <3>1. PICK x \in Pages : pte[x] = g
      BY <2>3
    <3>2. g # None
      BY DEF FrameNos, None
    <3> QED BY <1>3, <1>5, <3>1, <3>2
  <2>4. CASE \E t \in Tables : pde[t] = g
    BY <1>3, <2>4
  <2> QED BY <1>1, <2>1, <2>2, <2>3, <2>4 DEF SomeUse
<1>8. MissingTablesEmpty'
  BY <1>1, <1>3, <1>5 DEF MissingTablesEmpty
<1>9. CachedIsMapped'
  <2>1. tlb[access] = None
    BY <1>1, <1>3 DEF CachedIsMapped
  <2> QED BY <1>1, <1>3, <1>5, <2>1 DEF CachedIsMapped
<1> QED BY <1>6, <1>7, <1>8, <1>9

\* Whatever pages a release takes, their frames go back once.
LEMMA FramesFreed ==
  ASSUME FramesInv, NEW gone \in SUBSET Pages, free_pages(gone), pde' = pde
  PROVE  OneUse' /\ SomeUse' /\ MissingTablesEmpty' /\ CachedIsMapped'
<1>1. TypeOK /\ OneUse /\ SomeUse /\ MissingTablesEmpty /\ CachedIsMapped
  BY DEF FramesInv
<1>2. \A f : f \in free' <=> f \in free \/ \E x \in gone : pte[x] = f /\ f # None
  BY DEF free_pages
<1>3. \A x \in Pages : pte'[x] = IF x \in gone THEN None ELSE pte[x]
  BY DEF free_pages
<1>4. OneUse'
  <2>1. \A x, y \in Pages : pte'[x] = pte'[y] /\ pte'[x] # None => x = y
    BY <1>1, <1>3 DEF OneUse
  <2>2. \A x \in Pages, t \in Tables : pte'[x] = pde'[t] => pte'[x] = None
    BY <1>1, <1>3 DEF OneUse
  <2>3. \A x \in Pages : pte'[x] \notin free' \union {1, 2}
    <3> SUFFICES ASSUME NEW x \in Pages PROVE pte'[x] \notin free' /\ pte'[x] \notin {1, 2}
      OBVIOUS
    <3>1. None \notin free /\ None \notin free' /\ None \notin {1, 2}
      BY <1>1, <1>2 DEF TypeOK, FrameNos, None
    <3>2. CASE x \in gone
      BY <1>3, <3>1, <3>2
    <3>3. CASE x \notin gone
      <4>1. pte'[x] = pte[x] /\ pte[x] \notin free /\ pte[x] \notin {1, 2}
        BY <1>1, <1>3, <3>3 DEF OneUse
      <4>2. \A y \in gone : pte[y] # None => pte[y] # pte[x]
        BY <1>1, <3>3 DEF OneUse
      <4> QED BY <1>2, <4>1, <4>2
    <3> QED BY <3>2, <3>3
  <2>4. \A t \in Tables : pde'[t] \notin free' \union {1, 2}
    <3> SUFFICES ASSUME NEW t \in Tables PROVE pde[t] \notin free' /\ pde[t] \notin {1, 2}
      OBVIOUS
    <3>1. pde[t] \notin free /\ pde[t] \notin {1, 2}
      BY <1>1 DEF OneUse
    <3>2. \A x \in gone : pte[x] = pde[t] => pte[x] = None
      BY <1>1 DEF OneUse
    <3> QED BY <1>2, <3>1, <3>2
  <2>5. free' \intersect {1, 2} = {}
    BY <1>1, <1>2 DEF OneUse
  <2> QED BY <1>1, <2>1, <2>2, <2>3, <2>4, <2>5 DEF OneUse
<1>5. SomeUse'
  <2> SUFFICES ASSUME NEW g \in FrameNos
               PROVE  \/ g \in free' \union {1, 2}
                      \/ \E x \in Pages : pte'[x] = g
                      \/ \E t \in Tables : pde'[t] = g
    BY DEF SomeUse
  <2>1. g # None
    BY DEF FrameNos, None
  <2> QED BY <1>1, <1>2, <1>3, <2>1 DEF SomeUse
<1>6. MissingTablesEmpty'
  BY <1>1, <1>3 DEF MissingTablesEmpty
<1>7. CachedIsMapped'
  <2>1. CASE \E x \in gone : pte[x] # None
    <3>1. tlb' = [x \in Pages |-> None]
      BY <2>1 DEF free_pages
    <3> QED BY <3>1 DEF CachedIsMapped
  <2>2. CASE ~\E x \in gone : pte[x] # None
    <3>1. tlb' = tlb /\ \A x \in Pages : pte'[x] = pte[x]
      BY <1>3, <2>2 DEF free_pages
    <3> QED BY <1>1, <3>1 DEF CachedIsMapped
  <2> QED BY <2>1, <2>2
<1> QED BY <1>4, <1>5, <1>6, <1>7

LEMMA FramesNext == FramesInv /\ [VMNext]_vmVars => FramesInv'
<1> SUFFICES ASSUME FramesInv, [VMNext]_vmVars PROVE FramesInv'
  OBVIOUS
<1>1. TypeOK /\ OneUse /\ SomeUse /\ MissingTablesEmpty /\ CachedIsMapped
  BY DEF FramesInv
<1>2. TypeOK'
  BY <1>1, NextTypes
<1>3. OneUse' /\ SomeUse' /\ MissingTablesEmpty' /\ CachedIsMapped'
  <2>1. CASE UNCHANGED <<free, pde, pte, tlb>>
    BY <1>1, <2>1 DEF OneUse, SomeUse, MissingTablesEmpty, CachedIsMapped
  <2>2. CASE Complete
    <3>1. UNCHANGED <<free, pde, pte>> /\ tlb' = [tlb EXCEPT ![access] = pte[access]]
      BY <2>2 DEF Complete
    <3>2. \A x \in Pages : tlb'[x] = IF x = access THEN pte[x] ELSE tlb[x]
      BY <1>1, <3>1 DEF TypeOK
    <3> QED BY <1>1, <3>1, <3>2 DEF OneUse, SomeUse, MissingTablesEmpty, CachedIsMapped
  <2>3. ASSUME NEW r \in live, Release(r)
        PROVE  OneUse' /\ SomeUse' /\ MissingTablesEmpty' /\ CachedIsMapped'
    <3>1. pde' = pde /\ (free_pages(Gone(r)) \/ UNCHANGED <<free, pte, tlb>>)
      BY <2>3, ReleaseFrames
    <3>2. Gone(r) \in SUBSET Pages
      BY <1>1, GoneArePages
    <3> QED BY <2>1, <3>1, <3>2, FramesFreed
  <2>4. CASE Fault
    BY <2>1, <2>2, <2>4, FramesFaultTable, FramesFaultPage DEF Fault, Refuse, OutOfFrames
  <2>5. ASSUME NEW p \in VMPools, VMPool(p) \/ \E b \in 1..MaxBytes : Allocate(p, b)
        PROVE  UNCHANGED <<free, pde, pte, tlb>>
    BY <2>5 DEF VMPool, Allocate
  <2>6. ASSUME NEW x \in Pages, Touch(x) PROVE UNCHANGED <<free, pde, pte, tlb>>
    BY <2>6 DEF Touch
  <2>7. CASE ListFull \/ VMHalted \/ UNCHANGED vmVars
    BY <2>1, <2>7 DEF ListFull, VMHalted, vmVars
  <2> QED BY <2>1, <2>3, <2>4, <2>5, <2>6, <2>7 DEF VMNext
<1> QED BY <1>2, <1>3 DEF FramesInv

\* Each of the four uses counts none or one, and one of them counts.
LEMMA FramesAreCounted == FramesInv => FramesAccounted
<1> SUFFICES ASSUME FramesInv, NEW f \in FrameNos PROVE Uses(f) = 1
  BY DEF FramesAccounted
<1> DEFINE P == {x \in Pages : pte[x] = f}
           T == {t \in Tables : pde[t] = f}
<1>1. OneUse /\ SomeUse /\ f # None
  BY DEF FramesInv, FrameNos, None
<1>2. Uses(f) = Cardinality(P) + Cardinality(T)
                  + (IF f \in free THEN 1 ELSE 0) + (IF f \in {1, 2} THEN 1 ELSE 0)
  BY DEF Uses
<1>3. /\ (\E x \in Pages : P = {x}) \/ P = {}
      /\ (\E t \in Tables : T = {t}) \/ T = {}
  BY <1>1 DEF OneUse
<1>4. /\ P # {} => T = {} /\ f \notin free /\ f \notin {1, 2}
      /\ T # {} => P = {} /\ f \notin free /\ f \notin {1, 2}
      /\ ~(f \in free /\ f \in {1, 2})
  BY <1>1 DEF OneUse
<1>5. P # {} \/ T # {} \/ f \in free \/ f \in {1, 2}
  BY <1>1 DEF SomeUse
<1>6. Cardinality(P) = IF P = {} THEN 0 ELSE 1
  <2> HIDE DEF P
  <2> QED BY <1>3, FS_EmptySet, FS_Singleton
<1>7. Cardinality(T) = IF T = {} THEN 0 ELSE 1
  <2> HIDE DEF T
  <2> QED BY <1>3, FS_EmptySet, FS_Singleton
<1> HIDE DEF P, T
<1> QED BY <1>2, <1>4, <1>5, <1>6, <1>7

----------------------------------------------------------------------------
\* The page table pages of the pools.
LEMMA PoolTables ==
  ASSUME NEW p \in VMPools
  PROVE  /\ BasePage[p] \in Nat /\ Size[p] \in Nat \ {0} /\ BasePage[p] \in Pages
         /\ TableOf(BasePage[p]) \in Nat /\ TableOf(BasePage[p] + Size[p] - 1) \in Nat
         /\ \A x \in BasePage[p] .. (BasePage[p] + Size[p] - 1) : x \in Nat /\ TableOf(x) \in TablesOf(p)
<1>1. BasePage[p] \in Nat /\ Size[p] \in Nat \ {0} /\ BasePage[p] \in Pages
  BY PoolsAssumption DEF Pages
<1>2. TableOf(BasePage[p]) \in Nat /\ TableOf(BasePage[p] + Size[p] - 1) \in Nat
  BY <1>1, TableBounds
<1>3. ASSUME NEW x \in BasePage[p] .. (BasePage[p] + Size[p] - 1)
      PROVE  x \in Nat /\ TableOf(x) \in TablesOf(p)
  <2>1. x \in Nat /\ BasePage[p] <= x /\ x <= BasePage[p] + Size[p] - 1
    BY <1>1
  <2>2. TableOf(x) \in Nat /\ TableOf(BasePage[p]) <= TableOf(x)
    BY <1>1, <2>1, TableBounds, TableMonotone
  <2>3. TableOf(x) <= TableOf(BasePage[p] + Size[p] - 1)
    BY <1>1, <2>1, TableMonotone
  <2> QED BY <1>2, <2>1, <2>2, <2>3 DEF TablesOf
<1> QED BY <1>1, <1>2, <1>3

LEMMA TablesApart ==
  ASSUME NEW p \in VMPools, NEW q \in VMPools, p # q
  PROVE  /\ TablesOf(p) \intersect TablesOf(q) = {}
         /\ TableOf(BasePage[p] + Size[p] - 1) + 1 \notin TablesOf(q)
<1>1. /\ TableOf(BasePage[p]) \in Nat /\ TableOf(BasePage[p] + Size[p] - 1) \in Nat
      /\ TableOf(BasePage[q]) \in Nat /\ TableOf(BasePage[q] + Size[q] - 1) \in Nat
  BY PoolTables
<1>2. /\ TableOf(BasePage[p]) <= TableOf(BasePage[p] + Size[p] - 1)
      /\ TableOf(BasePage[q]) <= TableOf(BasePage[q] + Size[q] - 1)
  BY PoolTables, TableMonotone
<1>3. \/ TableOf(BasePage[p] + Size[p] - 1) + 1 < TableOf(BasePage[q])
      \/ TableOf(BasePage[q] + Size[q] - 1) + 1 < TableOf(BasePage[p])
  BY GapAssumption
<1> QED BY <1>1, <1>2, <1>3 DEF TablesOf

\* A release of the wrong size stops at the missing page table page behind the
\* pool, and never reaches the page of its lists.
LEMMA GoneStaysWithin ==
  ASSUME TypeOK, RegionsWithin, TablesWithin, NEW r \in live
  PROVE  /\ r.pool \in VMPools
         /\ \A x \in Gone(r) : x > BasePage[r.pool] /\ TableOf(x) \in TablesOf(r.pool)
<1> DEFINE p == r.pool
           last == TableOf(BasePage[p] + Size[p] - 1)
           x0 == PerTable * (last + 1)
<1>1. p \in VMPools /\ r.base \in Nat /\ r.size \in Nat
  BY DEF TypeOK
<1>2. r.base > BasePage[p] /\ r.size > 0 /\ Within(p, r)
  BY DEF RegionsWithin
<1>3. TableOf(r.base) \in TablesOf(p)
  BY <1>1, <1>2 DEF Within, PagesOf
<1>4. BasePage[p] \in Nat /\ TableOf(BasePage[p]) \in Nat /\ last \in Nat
  BY <1>1, PoolTables
<1>5. TableOf(BasePage[p]) <= TableOf(r.base) /\ TableOf(r.base) <= last /\ TableOf(r.base) \in Nat
  BY <1>1, <1>3, <1>4, TableBounds DEF TablesOf
<1>6. x0 \in Nat
  BY <1>4, PoolsAssumption
<1>7. TableOf(x0) = last + 1
  <2>1. TableOf(x0) > last /\ TableOf(x0) \in Nat
    BY <1>4, <1>6, TableOfPage, TableBounds
  <2>2. ~(x0 >= PerTable * (last + 1 + 1))
    BY <1>4, PoolsAssumption
  <2>3. ~(TableOf(x0) > last + 1)
    BY <1>4, <1>6, <2>2, TableOfPage
  <2> QED BY <1>4, <2>1, <2>3
<1>8. ~Covered(x0)
  <2>1. ASSUME Covered(x0) PROVE FALSE
    <3>1. x0 \in Pages /\ pde[last + 1] # None
      BY <1>7, <2>1 DEF Covered
    <3>2. last + 1 \in Tables
      BY <1>7, <3>1, PagesAreServed
    <3>3. PICK q \in VMPools : last + 1 \in TablesOf(q)
      BY <3>1, <3>2 DEF TablesWithin
    <3>4. q = p
      BY <1>1, <3>3, TablesApart
    <3> QED BY <1>4, <3>3, <3>4 DEF TablesOf
  <2> QED BY <2>1
<1>9. ASSUME NEW j \in Reached(r)
      PROVE  r.base + j > BasePage[p] /\ TableOf(r.base + j) \in TablesOf(p)
  <2>1. j \in Nat /\ \A h \in 0..j : Covered(r.base + h)
    BY <1>9 DEF Reached
  <2>2. r.base < x0
    BY <1>1, <1>4, <1>5, <1>6, TableOfPage
  <2>3. r.base + j < x0
    <3>1. ASSUME x0 <= r.base + j PROVE FALSE
      <4>1. x0 - r.base \in 0..j /\ r.base + (x0 - r.base) = x0
        BY <1>1, <1>6, <2>1, <2>2, <3>1
      <4> QED BY <1>8, <2>1, <4>1
    <3> QED BY <1>1, <1>6, <2>1, <3>1
  <2>4. r.base + j \in Nat /\ r.base <= r.base + j /\ TableOf(r.base + j) \in Nat
    BY <1>1, <2>1, TableBounds
  <2>5. ~(TableOf(r.base + j) > last)
    BY <1>4, <1>6, <2>3, <2>4, TableOfPage
  <2>6. TableOf(r.base) <= TableOf(r.base + j)
    BY <1>1, <2>4, TableMonotone
  <2> QED BY <1>1, <1>2, <1>4, <1>5, <2>1, <2>4, <2>5, <2>6 DEF TablesOf
<1> QED BY <1>1, <1>9 DEF Gone

LEMMA ListPagesAreNotGone ==
  ASSUME TypeOK, RegionsWithin, TablesWithin, NEW r \in live, NEW q \in VMPools
  PROVE  BasePage[q] \notin Gone(r)
<1>1. /\ r.pool \in VMPools
      /\ \A x \in Gone(r) : x > BasePage[r.pool] /\ TableOf(x) \in TablesOf(r.pool)
  BY GoneStaysWithin
<1>2. BasePage[q] \in Nat /\ Size[q] \in Nat \ {0}
  BY PoolTables
<1>3. TableOf(BasePage[q]) \in TablesOf(q)
  BY <1>2, PoolTables
<1>4. CASE q = r.pool
  BY <1>1, <1>2, <1>4
<1>5. CASE q # r.pool
  BY <1>1, <1>3, <1>5, TablesApart
<1> QED BY <1>4, <1>5

----------------------------------------------------------------------------
\* The pools stay apart.
GapsWithin(p, s) == \A i \in 1..Len(s) : Within(p, s[i]) /\ s[i].base > BasePage[p]
TakenWithin(p, s) == \A i \in 1..Len(s) : Within(p, s[i]) /\ s[i].size > 0

LEMMA RegionsByPool ==
  RegionsWithin <=>
    /\ \A p \in VMPools : TakenWithin(p, allocated_list[p]) /\ GapsWithin(p, free_list[p])
    /\ \A r \in live : Within(r.pool, r) /\ r.base > BasePage[r.pool] /\ r.size > 0
BY DEF RegionsWithin, GapsWithin, TakenWithin

LEMMA RegionsConstruct ==
  ASSUME TypeOK, RegionsWithin, NEW p \in VMPools, VMPool(p)
  PROVE  RegionsWithin'
<1> DEFINE lists1 == <<[base |-> BasePage[p], size |-> 1]>>
           gap1 == <<[base |-> BasePage[p] + 1, size |-> Size[p] - 1]>>
<1>1. /\ BasePage[p] \in Nat /\ Size[p] \in Nat \ {0}
      /\ \A x \in BasePage[p] .. (BasePage[p] + Size[p] - 1) : TableOf(x) \in TablesOf(p)
  BY PoolTables
<1>2. /\ allocated_list' = [allocated_list EXCEPT ![p] = lists1]
      /\ free_list' = [free_list EXCEPT ![p] = gap1] /\ live' = live
  BY DEF VMPool
<1>3. TakenWithin(p, lists1) /\ GapsWithin(p, gap1)
  <2>1. PagesOf([base |-> BasePage[p], size |-> 1]) \subseteq BasePage[p] .. (BasePage[p] + Size[p] - 1)
    BY <1>1 DEF PagesOf
  <2>2. PagesOf([base |-> BasePage[p] + 1, size |-> Size[p] - 1])
          \subseteq BasePage[p] .. (BasePage[p] + Size[p] - 1)
    BY <1>1 DEF PagesOf
  <2> QED BY <1>1, <2>1, <2>2 DEF TakenWithin, GapsWithin, Within
<1>4. \A q \in VMPools : /\ allocated_list'[q] = IF q = p THEN lists1 ELSE allocated_list[q]
                       /\ free_list'[q] = IF q = p THEN gap1 ELSE free_list[q]
  BY <1>2 DEF TypeOK
<1> HIDE DEF lists1, gap1
<1>5. \A q \in VMPools : TakenWithin(q, allocated_list'[q]) /\ GapsWithin(q, free_list'[q])
  BY <1>3, <1>4, RegionsByPool
<1> QED BY <1>2, <1>5 DEF RegionsWithin, TakenWithin, GapsWithin, Within, PagesOf, TablesOf

\* Regions cut from a gap lie in it.
LEMMA CutWithin ==
  ASSUME NEW p, NEW g \in Region, Within(p, g), NEW n \in Nat, n <= g.size
  PROVE  Within(p, [base |-> g.base, size |-> n]) /\ Within(p, Shrunk(g, n))
<1>1. g.base \in Nat /\ g.size \in Nat
  BY DEF Region
<1>2. PagesOf([base |-> g.base, size |-> n]) \subseteq PagesOf(g)
  BY <1>1 DEF PagesOf
<1>3. PagesOf(Shrunk(g, n)) \subseteq PagesOf(g)
  BY <1>1 DEF PagesOf, Shrunk
<1> QED BY <1>2, <1>3 DEF Within

LEMMA RegionsAllocate ==
  ASSUME TypeOK, RegionsWithin, NEW p \in VMPools, NEW b \in 1..MaxBytes, Allocate(p, b)
  PROVE  RegionsWithin'
<1> DEFINE n == PagesNeeded(b)
           gaps == free_list[p]
           left(i) == IF gaps[i].size # n THEN [gaps EXCEPT ![i] = Shrunk(gaps[i], n)]
                                          ELSE SwapRemove(gaps, i)
           new(i) == [base |-> gaps[i].base, size |-> n]
           more(i) == Append(allocated_list[p], new(i))
<1>1. PICK i \in 1..Len(gaps) :
        /\ n \in Nat \ {0} /\ gaps \in Seq(Region) /\ gaps[i] \in Region
        /\ gaps[i].size >= n
        /\ Shrunk(gaps[i], n) = [base |-> gaps[i].base + n, size |-> gaps[i].size - n]
        /\ Shrunk(gaps[i], n) \in Region /\ new(i) \in Region
        /\ free_list' = [free_list EXCEPT ![p] = left(i)]
        /\ allocated_list' = [allocated_list EXCEPT ![p] = more(i)]
        /\ live' = live \union {[pool |-> p, base |-> gaps[i].base, size |-> n]}
  BY AllocateTakes
<1>2. /\ TakenWithin(p, allocated_list[p]) /\ GapsWithin(p, gaps)
      /\ allocated_list[p] \in Seq(Region)
  BY RegionsByPool DEF TypeOK
<1>3. Within(p, gaps[i]) /\ gaps[i].base > BasePage[p] /\ gaps[i].base \in Nat /\ BasePage[p] \in Nat
  BY <1>1, <1>2, PoolTables DEF GapsWithin, Region
<1>4. Within(p, new(i)) /\ Within(p, Shrunk(gaps[i], n))
  <2> HIDE DEF n, gaps
  <2>1. n <= gaps[i].size
    BY <1>1 DEF Region
  <2> QED BY <1>1, <1>3, <2>1, CutWithin
<1>5. GapsWithin(p, left(i))
  <2>1. CASE gaps[i].size # n
    <3>1. left(i) = [gaps EXCEPT ![i] = Shrunk(gaps[i], n)]
      BY <2>1
    <3>2. /\ Len(left(i)) = Len(gaps)
          /\ \A k \in 1..Len(gaps) : left(i)[k] = IF k = i THEN Shrunk(gaps[i], n) ELSE gaps[k]
      BY <1>1, <3>1, ExceptSeq
    <3>3. Shrunk(gaps[i], n).base > BasePage[p]
      BY <1>1, <1>3
    <3> HIDE DEF gaps, n, left
    <3> QED BY <1>2, <1>4, <3>2, <3>3 DEF GapsWithin
  <2>2. CASE gaps[i].size = n
    <3>1. /\ Len(left(i)) = Len(gaps) - 1
          /\ \A k \in 1..(Len(gaps) - 1) :
               left(i)[k] = IF k = i THEN gaps[Len(gaps)] ELSE gaps[k]
      BY <1>1, <2>2, SwapRemoveEntries
    <3>2. Len(gaps) \in Nat /\ Len(gaps) \in 1..Len(gaps)
      BY <1>1
    <3> HIDE DEF gaps, n, left
    <3> QED BY <1>2, <3>1, <3>2 DEF GapsWithin
  <2> QED BY <2>1, <2>2
<1>6. TakenWithin(p, more(i))
  <2>1. new(i).size > 0
    BY <1>1
  <2> HIDE DEF new
  <2>2. /\ Len(more(i)) = Len(allocated_list[p]) + 1
        /\ \A k \in 1..Len(allocated_list[p]) : more(i)[k] = allocated_list[p][k]
        /\ more(i)[Len(allocated_list[p]) + 1] = new(i)
    BY <1>1, <1>2
  <2>3. Len(allocated_list[p]) \in Nat
    BY <1>2
  <2> HIDE DEF more
  <2> QED BY <1>2, <1>4, <2>1, <2>2, <2>3 DEF TakenWithin
<1> DEFINE r == [pool |-> p, base |-> gaps[i].base, size |-> n]
<1>7. /\ r.pool = p /\ r.base > BasePage[p] /\ r.size > 0 /\ Within(p, r)
  <2>1. PagesOf(r) = PagesOf(new(i))
    BY DEF PagesOf
  <2> QED BY <1>1, <1>3, <1>4, <2>1 DEF Within
<1>8. \A q \in VMPools : /\ allocated_list'[q] = IF q = p THEN more(i) ELSE allocated_list[q]
                       /\ free_list'[q] = IF q = p THEN left(i) ELSE free_list[q]
  BY <1>1 DEF TypeOK
<1>9. live' = live \union {r}
  BY <1>1
<1> HIDE DEF r, more, left, new, gaps, n
<1>10. \A q \in VMPools : TakenWithin(q, allocated_list'[q]) /\ GapsWithin(q, free_list'[q])
  BY <1>5, <1>6, <1>8, RegionsByPool
<1>11. \A s \in live' : Within(s.pool, s) /\ s.base > BasePage[s.pool] /\ s.size > 0
  BY <1>7, <1>9, RegionsByPool
<1> QED BY <1>10, <1>11 DEF RegionsWithin, TakenWithin, GapsWithin, Within, PagesOf, TablesOf

LEMMA RegionsRelease ==
  ASSUME TypeOK, RegionsWithin, TablesWithin, NEW r \in live, Release(r)
  PROVE  RegionsWithin'
<1> DEFINE p == r.pool
           s == allocated_list[p]
           gap == [base |-> r.base, size |-> s[1].size]
           rest == SwapRemove([s EXCEPT ![1].base = r.base], 1)
           more == Append(free_list[p], gap)
<1>1. live' = live \ {r} /\ p \in VMPools /\ r.base \in Nat
  BY ReleaseFrames DEF TypeOK
<1>2. \A t \in live' : Within(t.pool, t) /\ t.base > BasePage[t.pool] /\ t.size > 0
  BY <1>1, RegionsByPool
<1>3. \A q \in VMPools : TakenWithin(q, allocated_list'[q]) /\ GapsWithin(q, free_list'[q])
  <2>1. CASE UNCHANGED <<allocated_list, free_list>>
    BY <2>1, RegionsByPool
  <2>2. CASE ~UNCHANGED <<allocated_list, free_list>>
    <3>1. /\ s # <<>> /\ s \in Seq(Region) /\ Reached(r) = 0..(s[1].size - 1)
          /\ gap \in Region /\ s[1] \in Region
          /\ free_list' = [free_list EXCEPT ![p] = more]
          /\ allocated_list' = [allocated_list EXCEPT ![p] = rest]
      BY <2>2, ReleaseLists
    <3>2. /\ TakenWithin(p, s) /\ GapsWithin(p, free_list[p]) /\ free_list[p] \in Seq(Region)
          /\ r.base > BasePage[p]
      BY <1>1, RegionsByPool DEF TypeOK
    <3>3. Within(p, gap)
      <4>1. PagesOf(gap) = Gone(r)
        <5>1. s[1].size \in Nat
          BY <3>1 DEF Region
        <5>2. ASSUME NEW x \in PagesOf(gap) PROVE x \in Gone(r)
          <6> HIDE DEF s, p
          <6>1. x - r.base \in 0..(s[1].size - 1) /\ r.base + (x - r.base) = x
            BY <1>1, <5>1, <5>2 DEF PagesOf
          <6> QED BY <3>1, <6>1 DEF Gone
        <5>3. ASSUME NEW x \in Gone(r) PROVE x \in PagesOf(gap)
          <6> HIDE DEF s, p
          <6>1. PICK j \in 0..(s[1].size - 1) : x = r.base + j
            BY <3>1, <5>3 DEF Gone
          <6> QED BY <1>1, <5>1, <6>1 DEF PagesOf
        <5> QED BY <5>2, <5>3
      <4>2. \A x \in Gone(r) : TableOf(x) \in TablesOf(p)
        BY GoneStaysWithin
      <4> QED BY <4>1, <4>2 DEF Within
    <3>4. GapsWithin(p, more)
      <4>1. gap.base > BasePage[p]
        BY <3>2
      <4> HIDE DEF gap, p
      <4>2. /\ Len(more) = Len(free_list[p]) + 1 /\ more[Len(free_list[p]) + 1] = gap
            /\ \A k \in 1..Len(free_list[p]) : more[k] = free_list[p][k]
            /\ Len(free_list[p]) \in Nat
        BY <3>1, <3>2
      <4> HIDE DEF more
      <4> QED BY <3>2, <3>3, <4>1, <4>2 DEF GapsWithin
    <3>5. TakenWithin(p, rest)
      <4>1. /\ Len(rest) = Len(s) - 1
            /\ \A k \in 1..(Len(s) - 1) : rest[k] = IF k = 1 THEN s[Len(s)] ELSE s[k]
        BY <1>1, <3>1, RewrittenEntries
      <4>2. Len(s) \in Nat /\ Len(s) \in 1..Len(s)
        BY <3>1
      <4> HIDE DEF rest, s
      <4> QED BY <3>2, <4>1, <4>2 DEF TakenWithin
    <3>6. \A q \in VMPools : /\ allocated_list'[q] = IF q = p THEN rest ELSE allocated_list[q]
                           /\ free_list'[q] = IF q = p THEN more ELSE free_list[q]
      BY <3>1 DEF TypeOK
    <3> HIDE DEF p, rest, more
    <3> QED BY <3>4, <3>5, <3>6, RegionsByPool
  <2> QED BY <2>1, <2>2
<1> QED BY <1>2, <1>3 DEF RegionsWithin, TakenWithin, GapsWithin, Within, PagesOf, TablesOf

LEMMA RegionsNext ==
  ASSUME TypeOK, RegionsWithin, TablesWithin, [VMNext]_vmVars
  PROVE  RegionsWithin'
<1>1. CASE UNCHANGED <<allocated_list, free_list, live>>
  BY <1>1 DEF RegionsWithin, Within, PagesOf, TablesOf
<1>2. CASE Fault \/ ListFull \/ VMHalted \/ UNCHANGED vmVars
  BY <1>1, <1>2 DEF Fault, Refuse, OutOfFrames, FaultTable, FaultPage, Complete, ListFull,
                    VMHalted, vmVars, lists
<1>3. ASSUME NEW x \in Pages, Touch(x) PROVE UNCHANGED <<allocated_list, free_list, live>>
  BY <1>3 DEF Touch, lists
<1> QED BY <1>1, <1>2, <1>3, RegionsConstruct, RegionsAllocate, RegionsRelease DEF VMNext

\* What is accessed when a page table page is made belongs to a pool.
LEMMA LegitimateIsInPool ==
  ASSUME TypeOK, RegionsWithin, NEW x \in Pages, Legitimate(x)
  PROVE  \E p \in VMPools : TableOf(x) \in TablesOf(p)
<1>1. PICK i \in 1..Len(vmpool) : is_legitimate(vmpool[i], x)
  BY DEF Legitimate
<1> DEFINE p == vmpool[i]
<1>2. p \in VMPools
  BY DEF TypeOK
<1>3. is_legitimate(p, x)
  BY <1>1
<1> HIDE DEF p
<1>4. CASE x = BasePage[p]
  <2>1. BasePage[p] \in BasePage[p] .. (BasePage[p] + Size[p] - 1)
    BY <1>2, PoolTables
  <2> QED BY <1>2, <1>4, <2>1, PoolTables
<1>5. CASE \E k \in 1..Len(allocated_list[p]) : InRegion(allocated_list[p][k], x)
  <2>1. PICK k \in 1..Len(allocated_list[p]) : InRegion(allocated_list[p][k], x)
    BY <1>5
  <2>2. allocated_list[p] \in Seq(Region)
    BY <1>2 DEF TypeOK
  <2>3. allocated_list[p][k] \in Region /\ Within(p, allocated_list[p][k])
    BY <1>2, <2>2 DEF RegionsWithin
  <2>4. x \in PagesOf(allocated_list[p][k])
    BY <2>1, <2>3, PagesAreServed DEF InRegion, PagesOf, Region
  <2> QED BY <1>2, <2>3, <2>4 DEF Within
<1> QED BY <1>3, <1>4, <1>5 DEF is_legitimate

LEMMA TablesNext ==
  ASSUME FramesInv, RegionsWithin, TablesWithin, [VMNext]_vmVars
  PROVE  TablesWithin'
<1>1. CASE pde' = pde
  BY <1>1 DEF TablesWithin, TablesOf
<1>2. CASE FaultTable
  <2>1. /\ access \in Pages /\ Legitimate(access) /\ TypeOK
        /\ \E f \in free : pde' = [pde EXCEPT ![TableOf(access)] = f]
    BY <1>2, FaultTableMakes DEF FramesInv
  <2>2. \E p \in VMPools : TableOf(access) \in TablesOf(p)
    BY <2>1, LegitimateIsInPool
  <2>3. \A t \in Tables : pde'[t] = pde[t] \/ t = TableOf(access)
    BY <2>1 DEF TypeOK
  <2> QED BY <2>2, <2>3 DEF TablesWithin, TablesOf
<1>3. ASSUME NEW p \in VMPools, VMPool(p) \/ \E b \in 1..MaxBytes : Allocate(p, b)
      PROVE  pde' = pde
  BY <1>3 DEF VMPool, Allocate
<1>4. ASSUME NEW x \in Pages, Touch(x) PROVE pde' = pde
  BY <1>4 DEF Touch
<1>5. ASSUME NEW r \in live, Release(r) PROVE pde' = pde
  BY <1>5, ReleaseFrames
<1>6. CASE (Fault /\ ~FaultTable) \/ ListFull \/ VMHalted \/ UNCHANGED vmVars
  BY <1>1, <1>6 DEF Fault, Refuse, OutOfFrames, FaultPage, Complete, ListFull, VMHalted, vmVars
<1> QED BY <1>1, <1>2, <1>3, <1>4, <1>5, <1>6 DEF VMNext

\* The page with the lists of a pool is the one an access is mapping, or is mapped.
LEMMA ListsConstruct ==
  ASSUME TypeOK, ListsStayMapped, NEW p \in VMPools, VMPool(p)
  PROVE  ListsStayMapped'
<1>1. /\ access = Nowhere /\ vmpool' = <<p>> \o vmpool /\ access' = BasePage[p] /\ pte' = pte
  BY DEF VMPool, Ready
<1>2. vmpool \in Seq(VMPools) /\ <<p>> \in Seq(VMPools) /\ Len(<<p>>) = 1
  BY DEF TypeOK
<1>3. /\ Len(vmpool') = Len(vmpool) + 1 /\ vmpool'[1] = p
      /\ \A i \in 1..Len(vmpool') : i # 1 => vmpool'[i] = vmpool[i - 1]
  BY <1>1, <1>2, ConcatProperties
<1>4. Len(vmpool) \in Nat
  BY <1>2
<1>5. \A i \in 1..Len(vmpool) : BasePage[vmpool[i]] # Nowhere
  <2> SUFFICES ASSUME NEW i \in 1..Len(vmpool) PROVE BasePage[vmpool[i]] # Nowhere
    OBVIOUS
  <2>1. vmpool[i] \in VMPools
    BY <1>2
  <2> QED BY <2>1, PoolTables DEF Nowhere
<1> SUFFICES ASSUME NEW i \in 1..Len(vmpool'), BasePage[vmpool'[i]] # access'
             PROVE  pte'[BasePage[vmpool'[i]]] # None
  BY DEF ListsStayMapped
<1>6. i # 1
  BY <1>1, <1>3
<1>7. i - 1 \in 1..Len(vmpool) /\ vmpool'[i] = vmpool[i - 1]
  BY <1>3, <1>4, <1>6
<1> QED BY <1>1, <1>5, <1>7 DEF ListsStayMapped

LEMMA ListsRelease ==
  ASSUME TypeOK, RegionsWithin, TablesWithin, ListsStayMapped, NEW r \in live, Release(r)
  PROVE  ListsStayMapped'
<1>1. /\ UNCHANGED <<vmpool, access>>
      /\ free_pages(Gone(r)) \/ UNCHANGED <<free, pte, tlb>>
  BY ReleaseFrames
<1>2. CASE UNCHANGED <<free, pte, tlb>>
  BY <1>1, <1>2 DEF ListsStayMapped
<1>3. CASE free_pages(Gone(r))
  <2> SUFFICES ASSUME NEW i \in 1..Len(vmpool), BasePage[vmpool[i]] # access
               PROVE  pte'[BasePage[vmpool[i]]] # None
    BY <1>1 DEF ListsStayMapped
  <2>1. vmpool[i] \in VMPools
    BY DEF TypeOK
  <2>2. BasePage[vmpool[i]] \in Pages /\ BasePage[vmpool[i]] \notin Gone(r)
    BY <2>1, PoolTables, ListPagesAreNotGone
  <2>3. pte'[BasePage[vmpool[i]]] = pte[BasePage[vmpool[i]]]
    BY <1>3, <2>2 DEF free_pages
  <2> QED BY <2>3 DEF ListsStayMapped
<1> QED BY <1>1, <1>2, <1>3

LEMMA ListsNext ==
  ASSUME PoolsInv, [VMNext]_vmVars
  PROVE  ListsStayMapped'
<1>1. /\ TypeOK /\ RegionsWithin /\ TablesWithin /\ ListsStayMapped /\ FramesInv
      /\ MissingTablesEmpty /\ OneUse
  BY DEF PoolsInv, FramesInv
<1>2. CASE UNCHANGED <<pte, vmpool, access>>
  BY <1>1, <1>2 DEF ListsStayMapped
<1>3. CASE FaultTable
  BY <1>1, <1>2, <1>3, FaultTableMakes DEF lists
<1>4. CASE FaultPage
  <2>1. PICK f \in free : get_frame(f) /\ pte' = [pte EXCEPT ![access] = f]
    BY <1>1, <1>4, FaultPageMaps
  <2>2. f # None /\ UNCHANGED <<vmpool, access>>
    BY <1>1, <1>4, <2>1, FaultPageMaps, FrameTaken DEF lists
  <2>3. \A x \in Pages : x # access => pte'[x] = pte[x]
    BY <1>1, <2>1 DEF TypeOK
  <2>4. \A i \in 1..Len(vmpool) : BasePage[vmpool[i]] \in Pages
    <3> SUFFICES ASSUME NEW i \in 1..Len(vmpool) PROVE BasePage[vmpool[i]] \in Pages
      OBVIOUS
    <3>1. vmpool[i] \in VMPools
      BY <1>1 DEF TypeOK
    <3> QED BY <3>1, PoolTables
  <2> QED BY <1>1, <2>2, <2>3, <2>4 DEF ListsStayMapped
<1>5. CASE Complete
  <2>1. pte' = pte /\ vmpool' = vmpool /\ pte[access] # None
    BY <1>5 DEF Complete, lists
  <2> QED BY <1>1, <2>1 DEF ListsStayMapped
<1>6. ASSUME NEW x \in Pages, Touch(x) PROVE ListsStayMapped'
  <2>1. pte' = pte /\ vmpool' = vmpool /\ access = Nowhere
    BY <1>6 DEF Touch, lists, Ready
  <2>2. \A i \in 1..Len(vmpool) : BasePage[vmpool[i]] # Nowhere
    <3> SUFFICES ASSUME NEW i \in 1..Len(vmpool) PROVE BasePage[vmpool[i]] # Nowhere
      OBVIOUS
    <3>1. vmpool[i] \in VMPools
      BY <1>1 DEF TypeOK
    <3> QED BY <3>1, PoolTables DEF Nowhere
  <2> QED BY <1>1, <2>1, <2>2 DEF ListsStayMapped
<1>7. ASSUME NEW p \in VMPools, NEW b \in 1..MaxBytes, Allocate(p, b) PROVE ListsStayMapped'
  BY <1>2, <1>7 DEF Allocate
<1>8. CASE Refuse \/ OutOfFrames \/ ListFull \/ VMHalted \/ UNCHANGED vmVars
  BY <1>2, <1>8 DEF Refuse, OutOfFrames, ListFull, VMHalted, vmVars, lists
<1>9. Fault => ListsStayMapped'
  BY <1>3, <1>4, <1>5, <1>8 DEF Fault
<1> QED BY <1>1, <1>6, <1>7, <1>8, <1>9, ListsConstruct, ListsRelease DEF VMNext

LEMMA PoolsInit == VMInit => PoolsInv
<1> SUFFICES ASSUME VMInit PROVE PoolsInv
  OBVIOUS
<1>1. FramesInv
  BY FramesInit
<1>2. /\ \A p \in VMPools : allocated_list[p] = <<>>
      /\ \A p \in VMPools : free_list[p] = <<>>
      /\ live = {} /\ vmpool = <<>>
      /\ \A t \in Tables : pde[t] = None
  BY DEF VMInit
<1>3. RegionsWithin
  <2>1. \A p \in VMPools : 1..Len(allocated_list[p]) = {} /\ 1..Len(free_list[p]) = {}
    BY <1>2
  <2> QED BY <1>2, <2>1 DEF RegionsWithin
<1>4. TablesWithin /\ ListsStayMapped
  BY <1>2 DEF TablesWithin, ListsStayMapped
<1> QED BY <1>1, <1>3, <1>4 DEF PoolsInv

LEMMA PoolsNext == PoolsInv /\ [VMNext]_vmVars => PoolsInv'
<1> SUFFICES ASSUME PoolsInv, [VMNext]_vmVars PROVE PoolsInv'
  OBVIOUS
<1>1. FramesInv /\ TypeOK /\ RegionsWithin /\ TablesWithin /\ ListsStayMapped
  BY DEF PoolsInv, FramesInv
<1> QED BY <1>1, FramesNext, RegionsNext, TablesNext, ListsNext DEF PoolsInv

----------------------------------------------------------------------------
\* How often a list covers a page.
LEMMA CoversNothing ==
  ASSUME NEW x
  PROVE  Covers(<<>>, x) = 0
<1>1. {i \in 1..Len(<<>>) : x \in PagesOf(<<>>[i])} = {}
  OBVIOUS
<1> QED BY <1>1, FS_EmptySet DEF Covers

LEMMA CoversAppended ==
  ASSUME NEW s \in Seq(Region), NEW e \in Region, NEW x
  PROVE  /\ Covers(s, x) \in Nat
         /\ Covers(Append(s, e), x) = Covers(s, x) + (IF x \in PagesOf(e) THEN 1 ELSE 0)
<1> DEFINE t == Append(s, e)
           n == Len(s)
           I == {i \in 1..n : x \in PagesOf(s[i])}
           J == {i \in 1..Len(t) : x \in PagesOf(t[i])}
<1>1. n \in Nat /\ Len(t) = n + 1 /\ t[n + 1] = e /\ \A i \in 1..n : t[i] = s[i]
  OBVIOUS
<1>2. IsFiniteSet(I) /\ Cardinality(I) \in Nat
  <2>1. IsFiniteSet(1..n)
    BY <1>1, FS_Interval
  <2>2. I \subseteq 1..n
    OBVIOUS
  <2> QED BY <2>1, <2>2, FS_Subset, FS_CardinalityType
<1>3. J = IF x \in PagesOf(e) THEN I \union {n + 1} ELSE I
  <2>1. \A i : i \in 1..Len(t) <=> i \in 1..n \/ i = n + 1
    BY <1>1
  <2> HIDE DEF t, n
  <2>2. \A i : i \in J <=> i \in I \/ (i = n + 1 /\ x \in PagesOf(e))
    BY <1>1, <2>1
  <2> HIDE DEF I, J
  <2> QED BY <2>2
<1>4. n + 1 \notin I
  BY <1>1
<1>5. Cardinality(I \union {n + 1}) = Cardinality(I) + 1
  <2> HIDE DEF I
  <2> QED BY <1>2, <1>4, FS_AddElement
<1>6. Covers(s, x) = Cardinality(I) /\ Covers(t, x) = Cardinality(J)
  BY DEF Covers
<1> HIDE DEF I, J, t
<1>7. CASE x \in PagesOf(e)
  BY <1>2, <1>3, <1>5, <1>6, <1>7 DEF t
<1>8. CASE x \notin PagesOf(e)
  BY <1>2, <1>3, <1>6, <1>8 DEF t
<1> QED BY <1>7, <1>8

LEMMA CoversSingle ==
  ASSUME NEW e \in Region, NEW x
  PROVE  Covers(<<e>>, x) = IF x \in PagesOf(e) THEN 1 ELSE 0
<1>1. <<>> \in Seq(Region) /\ <<e>> = Append(<<>>, e)
  OBVIOUS
<1>2. Covers(<<>>, x) = 0
  BY CoversNothing
<1>3. Covers(Append(<<>>, e), x) = Covers(<<>>, x) + (IF x \in PagesOf(e) THEN 1 ELSE 0)
  BY <1>1, CoversAppended
<1> QED BY <1>1, <1>2, <1>3

\* A tiled pool is covered once: in front of the gap by the allocated regions,
\* and from there on by the gap.
LEMMA TiledIsPartition ==
  ASSUME TypeOK, NEW p \in VMPools,
         Tiled(p, allocated_list[p], free_list[p]),
         NEW x \in BasePage[p] .. (BasePage[p] + Size[p] - 1)
  PROVE  Covers(allocated_list[p], x) + Covers(free_list[p], x) = 1
<1>1. /\ free_list[p] \in Seq(Region) /\ Len(free_list[p]) <= 1
      /\ BasePage[p] \in Nat /\ Size[p] \in Nat
  BY PoolTables DEF Tiled, TypeOK
<1>2. /\ Covers(allocated_list[p], x) = IF x < Mark(p, free_list[p]) THEN 1 ELSE 0
      /\ x \in Nat /\ x < PoolEnd(p)
  BY <1>1 DEF Tiled, PoolEnd
<1>3. CASE free_list[p] = <<>>
  <2>1. Mark(p, free_list[p]) = PoolEnd(p) /\ Covers(free_list[p], x) = 0
    BY <1>3, CoversNothing DEF Mark
  <2> QED BY <1>2, <2>1
<1>4. CASE free_list[p] # <<>>
  <2> DEFINE g == free_list[p][1]
  <2>1. free_list[p] = <<g>> /\ g \in Region
    BY <1>1, <1>4
  <2>2. Mark(p, free_list[p]) = g.base /\ g.base + g.size = PoolEnd(p)
    BY <1>4 DEF Mark, Tiled
  <2>3. g.base \in Nat /\ g.size \in Nat
    <3> HIDE DEF g
    <3> QED BY <2>1 DEF Region
  <2>4. Covers(free_list[p], x) = IF x \in PagesOf(g) THEN 1 ELSE 0
    <3> HIDE DEF g
    <3> QED BY <2>1, CoversSingle
  <2> HIDE DEF g
  <2>5. x \in PagesOf(g) <=> ~(x < g.base)
    BY <1>2, <2>2, <2>3 DEF PagesOf
  <2> QED BY <1>2, <2>2, <2>4, <2>5
<1> QED BY <1>3, <1>4

LEMMA TilesArePartition == TilesInv => ListsPartitionPool
<1> SUFFICES ASSUME TilesInv, ~released, NEW i \in 1..Len(vmpool)
             PROVE  \A x \in BasePage[vmpool[i]] .. (BasePage[vmpool[i]] + Size[vmpool[i]] - 1) :
                      Covers(allocated_list[vmpool[i]], x) + Covers(free_list[vmpool[i]], x) = 1
  BY DEF ListsPartitionPool
<1>1. TypeOK /\ Tiled(vmpool[i], allocated_list[vmpool[i]], free_list[vmpool[i]])
  BY DEF TilesInv, AllTiled
<1>2. vmpool[i] \in VMPools
  BY <1>1 DEF TypeOK
<1> QED BY <1>1, <1>2, TiledIsPartition

LEMMA TiledConstruct ==
  ASSUME TypeOK, NEW p \in VMPools, VMPool(p)
  PROVE  Tiled(p, allocated_list'[p], free_list'[p])
<1> DEFINE first == [base |-> BasePage[p], size |-> 1]
           gap == [base |-> BasePage[p] + 1, size |-> Size[p] - 1]
<1>1. BasePage[p] \in Nat /\ Size[p] \in Nat \ {0}
  BY PoolTables
<1>2. allocated_list'[p] = <<first>> /\ free_list'[p] = <<gap>>
  BY DEF VMPool, TypeOK
<1>3. first \in Region /\ gap.base = BasePage[p] + 1 /\ gap.base + gap.size = PoolEnd(p)
  BY <1>1 DEF Region, PoolEnd
<1>4. \A x \in BasePage[p] .. (PoolEnd(p) - 1) : x \in PagesOf(first) <=> x < BasePage[p] + 1
  BY <1>1 DEF PagesOf, PoolEnd
<1> HIDE DEF first, gap
<1>5. Mark(p, free_list'[p]) = BasePage[p] + 1
  BY <1>2, <1>3 DEF Mark
<1>6. \A x : Covers(<<first>>, x) = IF x \in PagesOf(first) THEN 1 ELSE 0
  BY <1>3, CoversSingle
<1>7. \A x \in BasePage[p] .. (PoolEnd(p) - 1) :
        Covers(<<first>>, x) = IF x < BasePage[p] + 1 THEN 1 ELSE 0
  BY <1>4, <1>6
<1>8. Len(free_list'[p]) <= 1 /\ free_list'[p][1].base + free_list'[p][1].size = PoolEnd(p)
  BY <1>2, <1>3
<1> QED BY <1>2, <1>5, <1>7, <1>8 DEF Tiled

LEMMA TiledAllocate ==
  ASSUME TypeOK, NEW p \in VMPools, NEW b \in 1..MaxBytes, Allocate(p, b),
         Tiled(p, allocated_list[p], free_list[p])
  PROVE  Tiled(p, allocated_list'[p], free_list'[p])
<1> DEFINE n == PagesNeeded(b)
           gaps == free_list[p]
           new(i) == [base |-> gaps[i].base, size |-> n]
<1>1. PICK i \in 1..Len(gaps) :
        /\ n \in Nat \ {0} /\ gaps \in Seq(Region) /\ gaps[i] \in Region
        /\ gaps[i].size >= n
        /\ Shrunk(gaps[i], n) = [base |-> gaps[i].base + n, size |-> gaps[i].size - n]
        /\ new(i) \in Region
        /\ free_list' = [free_list EXCEPT ![p] =
             IF gaps[i].size # n THEN [gaps EXCEPT ![i] = Shrunk(gaps[i], n)]
                                 ELSE SwapRemove(gaps, i)]
        /\ allocated_list' = [allocated_list EXCEPT ![p] = Append(allocated_list[p], new(i))]
  BY AllocateTakes
<1>2. i = 1 /\ Len(gaps) = 1 /\ gaps # <<>>
  <2>1. Len(gaps) <= 1
    BY DEF Tiled
  <2>2. gaps \in Seq(Region) /\ i \in 1..Len(gaps)
    BY <1>1
  <2> HIDE DEF gaps
  <2>3. Len(gaps) \in Nat
    BY <2>2
  <2>4. i = 1 /\ Len(gaps) = 1
    BY <2>1, <2>2, <2>3
  <2>5. gaps # <<>>
    BY <2>4
  <2> QED BY <2>4, <2>5
<1> DEFINE g == gaps[1]
<1>3. g.base \in Nat /\ g.size \in Nat /\ g.base + g.size = PoolEnd(p) /\ Mark(p, free_list[p]) = g.base
  <2>1. g \in Region
    BY <1>1, <1>2
  <2> QED BY <1>2, <2>1 DEF Tiled, Mark, Region
<1>4. /\ free_list'[p] = IF g.size # n THEN [gaps EXCEPT ![1] = Shrunk(g, n)]
                                       ELSE SwapRemove(gaps, 1)
      /\ allocated_list'[p] = Append(allocated_list[p], new(1))
      /\ allocated_list[p] \in Seq(Region)
  BY <1>1, <1>2 DEF TypeOK
<1>5. /\ Len(free_list'[p]) <= 1
      /\ free_list'[p] # <<>> =>
           free_list'[p][1].base + free_list'[p][1].size = PoolEnd(p)
      /\ Mark(p, free_list'[p]) = g.base + n
  <2>1. CASE g.size # n
    <3>1. /\ free_list'[p] = [gaps EXCEPT ![1] = Shrunk(g, n)]
          /\ Len(free_list'[p]) = 1 /\ free_list'[p][1] = Shrunk(g, n)
      BY <1>1, <1>2, <1>4, <2>1
    <3>2. /\ Shrunk(g, n).base = g.base + n
          /\ Shrunk(g, n).base + Shrunk(g, n).size = PoolEnd(p)
      BY <1>1, <1>2, <1>3
    <3>3. free_list'[p] # <<>>
      BY <3>1
    <3>4. Mark(p, free_list'[p]) = free_list'[p][1].base
      BY <3>3 DEF Mark
    <3>5. free_list'[p][1].base + free_list'[p][1].size = PoolEnd(p)
      BY <3>1, <3>2
    <3>6. free_list'[p][1].base = g.base + n
      BY <3>1, <3>2
    <3>7. Len(free_list'[p]) <= 1
      <4>1. Len(free_list'[p]) = 1
        BY <3>1
      <4> QED BY <4>1
    <3> QED BY <3>4, <3>5, <3>6, <3>7
  <2>2. CASE g.size = n
    <3>1. SwapRemove(gaps, 1) \in Seq(Region) /\ Len(SwapRemove(gaps, 1)) = 0
      BY <1>1, <1>2, SwapRemoveEntries
    <3>2. free_list'[p] = <<>>
      BY <1>4, <2>2, <3>1
    <3> QED BY <1>3, <2>2, <3>2 DEF Mark, PoolEnd
  <2> QED BY <2>1, <2>2
<1>6. ASSUME NEW x \in BasePage[p] .. (PoolEnd(p) - 1)
      PROVE  Covers(allocated_list'[p], x) = IF x < g.base + n THEN 1 ELSE 0
  <2>1. Covers(allocated_list[p], x) = IF x < g.base THEN 1 ELSE 0
    BY <1>3 DEF Tiled
  <2>2. Covers(allocated_list'[p], x)
          = Covers(allocated_list[p], x) + (IF x \in PagesOf(new(1)) THEN 1 ELSE 0)
    <3> HIDE DEF new
    <3> QED BY <1>1, <1>2, <1>4, CoversAppended
  <2>3. x \in Nat
    BY PoolTables DEF PoolEnd
  <2>4. x \in PagesOf(new(1)) <=> g.base <= x /\ x < g.base + n
    BY <1>1, <1>3, <2>3 DEF PagesOf
  <2> HIDE DEF g, n, new
  <2> QED BY <1>1, <1>3, <2>1, <2>2, <2>3, <2>4 DEF n
<1> HIDE DEF g, n, gaps
<1> QED BY <1>5, <1>6 DEF Tiled

LEMMA TilesInit == VMInit => TilesInv
<1> SUFFICES ASSUME VMInit PROVE TilesInv
  OBVIOUS
<1>1. TypeOK
  BY FramesInit DEF FramesInv
<1>2. 1..Len(vmpool) = {}
  BY DEF VMInit
<1> QED BY <1>1, <1>2 DEF TilesInv, AllTiled

LEMMA AllTiledConstruct ==
  ASSUME TypeOK, AllTiled, NEW p \in VMPools, VMPool(p)
  PROVE  AllTiled'
<1>1. /\ vmpool \in Seq(VMPools) /\ <<p>> \in Seq(VMPools) /\ Len(<<p>>) = 1
      /\ vmpool' = <<p>> \o vmpool
  BY DEF TypeOK, VMPool
<1>2. /\ Len(vmpool') = Len(vmpool) + 1 /\ vmpool'[1] = p /\ Len(vmpool) \in Nat
      /\ \A k \in 1..Len(vmpool') : k # 1 => vmpool'[k] = vmpool[k - 1]
  BY <1>1, ConcatProperties
<1>3. \A q \in VMPools : q # p => /\ allocated_list'[q] = allocated_list[q]
                                /\ free_list'[q] = free_list[q]
  BY DEF VMPool, TypeOK
<1>4. ASSUME NEW i \in 1..Len(vmpool')
      PROVE  Tiled(vmpool'[i], allocated_list'[vmpool'[i]], free_list'[vmpool'[i]])
  <2>1. CASE vmpool'[i] = p
    BY <2>1, TiledConstruct
  <2>2. CASE vmpool'[i] # p
    <3>1. i - 1 \in 1..Len(vmpool) /\ vmpool'[i] = vmpool[i - 1]
      BY <1>2, <2>2
    <3>2. vmpool[i - 1] \in VMPools
      BY <1>1, <3>1
    <3> QED BY <1>3, <2>2, <3>1, <3>2 DEF AllTiled
  <2> QED BY <2>1, <2>2
<1> QED BY <1>4 DEF AllTiled, Tiled, Mark, Covers, PagesOf, PoolEnd

LEMMA AllTiledAllocate ==
  ASSUME TypeOK, AllTiled, NEW p \in VMPools, NEW b \in 1..MaxBytes, Allocate(p, b)
  PROVE  AllTiled'
<1>1. vmpool' = vmpool
  BY DEF Allocate
<1>2. \A q \in VMPools : q # p => /\ allocated_list'[q] = allocated_list[q]
                                /\ free_list'[q] = free_list[q]
  BY DEF Allocate, TypeOK
<1>3. ASSUME NEW i \in 1..Len(vmpool)
      PROVE  Tiled(vmpool[i], allocated_list'[vmpool[i]], free_list'[vmpool[i]])
  <2>1. /\ vmpool[i] \in VMPools
        /\ Tiled(vmpool[i], allocated_list[vmpool[i]], free_list[vmpool[i]])
    BY DEF TypeOK, AllTiled
  <2>2. CASE vmpool[i] = p
    BY <2>1, <2>2, TiledAllocate
  <2>3. CASE vmpool[i] # p
    BY <1>2, <2>1, <2>3
  <2> QED BY <2>2, <2>3
<1> QED BY <1>1, <1>3 DEF AllTiled, Tiled, Mark, Covers, PagesOf, PoolEnd

LEMMA TilesNext == FramesInv /\ TilesInv /\ [VMNext]_vmVars => TilesInv'
<1> SUFFICES ASSUME FramesInv, TilesInv, [VMNext]_vmVars PROVE TilesInv'
  OBVIOUS
<1>1. TypeOK /\ OneUse /\ MissingTablesEmpty /\ (released \/ AllTiled)
  BY DEF FramesInv, TilesInv
<1>2. TypeOK'
  BY <1>1, NextTypes
<1>3. CASE UNCHANGED <<vmpool, allocated_list, free_list, released>>
  <2>1. AllTiled' = AllTiled
    BY <1>3 DEF AllTiled
  <2> QED BY <1>1, <1>2, <1>3, <2>1 DEF TilesInv
<1>4. CASE Fault \/ ListFull \/ VMHalted \/ UNCHANGED vmVars
  BY <1>3, <1>4 DEF Fault, Refuse, OutOfFrames, FaultTable, FaultPage, Complete, ListFull,
                    VMHalted, vmVars, lists
<1>5. ASSUME NEW x \in Pages, Touch(x) PROVE TilesInv'
  BY <1>3, <1>5 DEF Touch, lists
<1>6. ASSUME NEW r \in live, Release(r) PROVE TilesInv'
  BY <1>2, <1>6, ReleaseFrames DEF TilesInv
<1>7. ASSUME NEW p \in VMPools, VMPool(p) PROVE TilesInv'
  BY <1>1, <1>2, <1>7, AllTiledConstruct DEF TilesInv, VMPool
<1>8. ASSUME NEW p \in VMPools, NEW b \in 1..MaxBytes, Allocate(p, b) PROVE TilesInv'
  BY <1>1, <1>2, <1>8, AllTiledAllocate DEF TilesInv, Allocate
<1> QED BY <1>4, <1>5, <1>6, <1>7, <1>8 DEF VMNext

----------------------------------------------------------------------------
\* Every frame of the process pool has exactly one use, whatever is accessed,
\* allocated and released in whatever order, also when release frees pages of
\* another region: no two pages share a frame, none is lost.
THEOREM EveryFrameHasOneUse == VMSpec => []FramesAccounted
<1>1. VMInit => FramesInv
  BY FramesInit
<1>2. FramesInv /\ [VMNext]_vmVars => FramesInv'
  BY FramesNext
<1>3. FramesInv => FramesAccounted
  BY FramesAreCounted
<1> QED BY <1>1, <1>2, <1>3, PTL DEF VMSpec

\* No access goes through a translation the page table no longer holds: every
\* page that is unmapped has CR3 loaded again before anything else runs.
THEOREM TranslationsAreCurrent == VMSpec => []CachedIsMapped
<1>1. FramesInv => CachedIsMapped
  BY DEF FramesInv
<1> QED BY <1>1, FramesInit, FramesNext, PTL DEF VMSpec

\* Once its lists are written, the first page of a pool stays mapped: no
\* release of this pool or of another frees it, also when release takes its
\* number of pages from the wrong entry.
THEOREM ListPagesStay == VMSpec => []ListsStayMapped
<1>1. VMInit => PoolsInv
  BY PoolsInit
<1>2. PoolsInv /\ [VMNext]_vmVars => PoolsInv'
  BY PoolsNext
<1>3. PoolsInv => ListsStayMapped
  BY DEF PoolsInv
<1> QED BY <1>1, <1>2, <1>3, PTL DEF VMSpec

\* The regions a pool has, and every gap of its free list, stay under the page
\* table pages of the pool: no release reaches into another pool.
THEOREM PoolsStayApart == VMSpec => []RegionsWithin
<1>1. PoolsInv => RegionsWithin
  BY DEF PoolsInv
<1> QED BY <1>1, PoolsInit, PoolsNext, PTL DEF VMSpec

\* Until the first release the two lists of a pool cover each of its pages
\* exactly once, so allocate never hands out a page twice.
THEOREM ListsPartitionPools == VMSpec => []ListsPartitionPool
<1>1. VMInit => FramesInv /\ TilesInv
  BY FramesInit, TilesInit
<1>2. FramesInv /\ TilesInv /\ [VMNext]_vmVars => (FramesInv /\ TilesInv)'
  BY FramesNext, TilesNext
<1>3. TilesInv => ListsPartitionPool
  BY TilesArePartition
<1> QED BY <1>1, <1>2, <1>3, PTL DEF VMSpec

----------------------------------------------------------------------------
(* The page table of MP3, for any number of entries per page, any pools and *)
(* any pages that are touched, in any order.                                *)

\* The entry of a page, through its page table page: 0 if either is missing.
Directory(i) == memory[page_directory][i]
Cell(i, w) == IF Directory(i) = Invalid THEN Invalid ELSE memory[Directory(i) - 1][w]
CellOf(x) == Cell(x \div EntriesPerPage, x % EntriesPerPage)
Upper == Words \ {0}   \* the entries of the directory that the handler fills
Accesses == [page : Touched, value : Values \union {0}]

PagingTypeOK ==
  /\ step \in {"construct", "load", "run"}
  /\ kernel_free \subseteq KernelPool /\ process_free \subseteq ProcessPool
  /\ memory \in [AllFrames -> [Words -> Nat]]
  /\ page_directory \in AllFrames
  /\ fault_address \in Touched \union {NoPage}
  /\ instruction \in Accesses \union {NoAccess}
  /\ expected \in [Touched -> Values \union {0}]
  /\ step # "run" => instruction = NoAccess /\ fault_address = NoPage
  /\ step = "construct" => kernel_free = KernelPool

\* The directory and the page table pages have a frame of the kernel pool each,
DirectoryInv ==
  /\ page_directory \in KernelPool \ kernel_free
  /\ \A i \in Words : Directory(i) # Invalid =>
       Directory(i) - 1 \in KernelPool \ (kernel_free \union {page_directory})
  /\ \A i, j \in Words : Directory(i) = Directory(j) /\ Directory(i) # Invalid => i = j

\* where the first page table page makes them reachable,
IdentityInv == Directory(0) # Invalid /\ \A w \in Words : Cell(0, w) = Entry(w)

\* the pages that are mapped have a frame of the process pool each,
CellsInv ==
  /\ \A i \in Upper, w \in Words : Cell(i, w) # Invalid =>
       Cell(i, w) - 1 \in ProcessPool \ process_free
  /\ \A i, j \in Upper, v, w \in Words :
       Cell(i, v) = Cell(j, w) /\ Cell(i, v) # Invalid => i = j /\ v = w

\* and what was written is in that frame.
ContentsInv ==
  \A x \in Touched : expected[x] # 0 =>
    CellOf(x) # Invalid /\ memory[CellOf(x) - 1][0] = expected[x]

PagingInv ==
  /\ PagingTypeOK
  /\ step = "construct" => \A x \in Touched : expected[x] = 0
  /\ step # "construct" => DirectoryInv /\ IdentityInv /\ CellsInv /\ ContentsInv
  /\ outcome # "fault in handler"

----------------------------------------------------------------------------
\* A page touched has an entry of its own behind the first page table page.
LEMMA SlotParts ==
  ASSUME NEW x \in Nat
  PROVE  /\ x \div EntriesPerPage \in Nat /\ x % EntriesPerPage \in Words
         /\ x = EntriesPerPage * (x \div EntriesPerPage) + (x % EntriesPerPage)
<1> DEFINE q == x \div EntriesPerPage
           r == x % EntriesPerPage
<1>1. EntriesPerPage \in Nat /\ EntriesPerPage > 0
  BY PagingAssumption
<1>2. q \in Int /\ r \in 0..(EntriesPerPage - 1) /\ x = EntriesPerPage * q + r
  BY <1>1
<1> HIDE DEF q, r
<1>3. q < 0 => EntriesPerPage * q <= -EntriesPerPage
  BY <1>1, <1>2
<1>4. EntriesPerPage * q \in Int
  BY <1>1, <1>2
<1>5. q >= 0
  BY <1>1, <1>2, <1>3, <1>4
<1>6. q \in Nat /\ r \in Words /\ x = EntriesPerPage * q + r
  BY <1>1, <1>2, <1>5 DEF Words
<1> QED BY <1>6 DEF q, r

LEMMA SlotInUpper ==
  ASSUME NEW x \in Touched
  PROVE  x \div EntriesPerPage \in Upper /\ x % EntriesPerPage \in Words
<1> DEFINE q == x \div EntriesPerPage
           r == x % EntriesPerPage
           e == EntriesPerPage
<1>1. e \in Nat /\ e > 0 /\ x \in Nat /\ x >= e /\ x < e * e
  BY PagingAssumption
<1>2. q \in Nat /\ r \in Words /\ x = e * q + r
  BY <1>1, SlotParts
<1>3. r \in 0..(e - 1)
  BY <1>2 DEF Words
<1> HIDE DEF q, r, e
<1>4. q # 0
  <2>1. SUFFICES ASSUME q = 0 PROVE FALSE
    OBVIOUS
  <2>2. e * q = 0
    BY <1>1, <2>1
  <2> QED BY <1>1, <1>2, <1>3, <2>2
<1>5. q >= e => e * q >= e * e
  BY <1>1, <1>2
<1>6. e * q \in Nat /\ e * e \in Nat
  BY <1>1, <1>2
<1>7. q < e
  BY <1>1, <1>2, <1>3, <1>5, <1>6
<1>8. q \in Upper
  BY <1>1, <1>2, <1>4, <1>7 DEF Upper, Words, e
<1> QED BY <1>2, <1>8 DEF q, r

LEMMA SlotsApart ==
  ASSUME NEW x \in Touched, NEW y \in Touched,
         x \div EntriesPerPage = y \div EntriesPerPage, x % EntriesPerPage = y % EntriesPerPage
  PROVE  x = y
<1>1. x \in Nat /\ y \in Nat
  BY PagingAssumption
<1>2. x = EntriesPerPage * (x \div EntriesPerPage) + (x % EntriesPerPage)
  BY <1>1, SlotParts
<1>3. y = EntriesPerPage * (y \div EntriesPerPage) + (y % EntriesPerPage)
  BY <1>1, SlotParts
<1> QED BY <1>2, <1>3, Zenon

\* A pool that has a frame gives out one of its own.
LEMMA LowestInPool ==
  ASSUME NEW S \in SUBSET Nat, S # {}
  PROVE  Lowest(S) \in S
<1>1. PICK f \in S : \A g \in S : ~ (<<g, f>> \in OpToRel(<, Nat))
  BY NatLessThanWellFounded, WFMin, Zenon
<1>2. f \in Nat /\ S \subseteq Nat
  OBVIOUS
<1>3. ASSUME NEW g \in S PROVE f <= g
  <2>1. f \in Nat /\ g \in Nat
    BY <1>2
  <2>2. ~(g < f)
    BY <1>1, <2>1 DEF OpToRel
  <2> QED BY <2>1, <2>2
<1>4. \E h \in S : \A g \in S : h <= g
  BY <1>3
<1> QED BY <1>4 DEF Lowest

LEMMA PoolsInMemory ==
  /\ KernelPool \subseteq Words \ {0} /\ KernelPool \subseteq Nat
  /\ ProcessPool \subseteq Nat /\ KernelPool \intersect ProcessPool = {}
  /\ Words \subseteq Nat /\ 0 \in Words /\ Words \intersect ProcessPool = {}
  /\ AllFrames \subseteq Nat /\ KernelPool \subseteq AllFrames /\ ProcessPool \subseteq AllFrames
<1>1. EntriesPerPage \in Nat /\ KernelPool \subseteq 1..(EntriesPerPage - 1)
  BY PagingAssumption
<1>2. ProcessPool \subseteq Nat \ (0..(EntriesPerPage - 1)) /\ \E f \in KernelPool : TRUE
  BY PagingAssumption
<1>3. /\ KernelPool \subseteq Words \ {0} /\ KernelPool \subseteq Nat
      /\ Words \subseteq Nat /\ 0 \in Words
  BY <1>1, <1>2 DEF Words
<1>4. ProcessPool \subseteq Nat /\ Words \intersect ProcessPool = {}
  BY <1>2 DEF Words
<1> QED BY <1>3, <1>4 DEF AllFrames

LEMMA EntriesAreNumbers ==
  ASSUME PagingTypeOK, DirectoryInv, NEW i \in Words, NEW w \in Words
  PROVE  Directory(i) \in Nat /\ Cell(i, w) \in Nat
<1>1. Directory(i) \in Nat
  BY DEF PagingTypeOK, Directory
<1>2. Directory(i) # Invalid => Directory(i) - 1 \in AllFrames
  BY PoolsInMemory DEF DirectoryInv
<1>3. Cell(i, w) \in Nat
  BY <1>2 DEF PagingTypeOK, Cell, Invalid
<1> QED BY <1>1, <1>3

LEMMA TranslationIsCell ==
  ASSUME PagingTypeOK, DirectoryInv, NEW x \in Nat,
         x \div EntriesPerPage \in Words, x % EntriesPerPage \in Words
  PROVE  Translation(x) = CellOf(x) - 1
BY EntriesAreNumbers DEF Translation, CellOf, Cell, Directory, Invalid, NoPage

\* The handler reaches the directory and every page table page, in whatever
\* frame of the kernel pool they are.
LEMMA HandlerReaches ==
  ASSUME PagingTypeOK, DirectoryInv, IdentityInv, NEW f \in KernelPool
  PROVE  Reachable(f)
<1> DEFINE q == f \div EntriesPerPage
           r == f % EntriesPerPage
           e == EntriesPerPage
<1>1. e \in Nat /\ f \in 1..(e - 1)
  BY PagingAssumption
<1>2. q \in Nat /\ r \in Words /\ f = e * q + r
  BY <1>1, SlotParts
<1>3. r \in 0..(e - 1)
  BY <1>2 DEF Words
<1> HIDE DEF q, r, e
<1>4. q >= 1 => e * q >= e
  BY <1>1, <1>2
<1>5. e * q \in Nat /\ e * 0 = 0
  BY <1>1, <1>2
<1>6. q = 0
  BY <1>1, <1>2, <1>3, <1>4, <1>5
<1>7. r = f
  BY <1>1, <1>2, <1>3, <1>5, <1>6
<1>8. f < e * e
  BY <1>1
<1>9. f \in Nat /\ q \in Words /\ r \in Words
  BY <1>1, <1>2, <1>6, PoolsInMemory
<1>10. Translation(f) = CellOf(f) - 1
  BY <1>9, TranslationIsCell DEF q, r
<1>11. CellOf(f) = Entry(f)
  BY <1>6, <1>7, <1>9 DEF CellOf, IdentityInv, q, r
<1>12. Translation(f) = f
  BY <1>1, <1>10, <1>11 DEF Entry
<1> QED BY <1>8, <1>12 DEF Reachable, e

----------------------------------------------------------------------------
\* What keeps all entries keeps the three invariants about them, as long as no
\* frame is released.
EntriesKept ==
  /\ page_directory' = page_directory
  /\ \A i \in Words : Directory(i)' = Directory(i)
  /\ \A i, w \in Words : Cell(i, w)' = Cell(i, w)

LEMMA KeptEntriesAreSound ==
  ASSUME DirectoryInv, IdentityInv, CellsInv, EntriesKept,
         kernel_free' \subseteq kernel_free, process_free' \subseteq process_free
  PROVE  DirectoryInv' /\ IdentityInv' /\ CellsInv'
<1>1. DirectoryInv'
  BY DEF DirectoryInv, EntriesKept
<1>2. IdentityInv'
  BY PoolsInMemory DEF IdentityInv, EntriesKept
<1>3. CellsInv'
  BY DEF CellsInv, EntriesKept, Upper
<1> QED BY <1>1, <1>2, <1>3

LEMMA PagingStart == PagingInit => PagingInv
<1> SUFFICES ASSUME PagingInit PROVE PagingInv
  OBVIOUS
<1>1. memory \in [AllFrames -> [Words -> Nat]]
  BY DEF PagingInit, Invalid, Entry
<1>2. 0 \in AllFrames
  BY PoolsInMemory DEF AllFrames
<1>3. PagingTypeOK
  BY <1>1, <1>2 DEF PagingInit, PagingTypeOK
<1> QED BY <1>3 DEF PagingInit, PagingInv

\* The constructor writes the directory into one frame and the first page
\* table page into another.
LEMMA ConstructKeeps == PagingInv /\ construct => PagingInv'
<1> SUFFICES ASSUME PagingInv, construct PROVE PagingInv'
  OBVIOUS
<1> DEFINE d == Lowest(kernel_free)
           t == Lowest(kernel_free \ {d})
<1>1. PagingTypeOK /\ step = "construct" /\ kernel_free = KernelPool
  BY DEF PagingInv, PagingTypeOK, construct
<1>2. d \in KernelPool
  BY <1>1, LowestInPool, PoolsInMemory, PagingAssumption
<1>3. kernel_free \ {d} # {}
  BY <1>1, PagingAssumption
<1>4. t \in KernelPool \ {d}
  BY <1>1, <1>3, LowestInPool, PoolsInMemory
<1>5. /\ page_directory' = d
      /\ kernel_free' = kernel_free \ {d, t}
      /\ memory' = [memory EXCEPT
           ![d] = [w \in Words |-> IF w = 0 THEN Entry(t) ELSE Invalid],
           ![t] = [w \in Words |-> Entry(w)]]
      /\ step' = "load" /\ process_free' = process_free /\ fault_address' = fault_address
      /\ instruction' = instruction /\ expected' = expected /\ outcome' = outcome
  BY DEF construct
<1> HIDE DEF d, t
<1>6. d \in AllFrames /\ t \in AllFrames /\ d \in Nat /\ t \in Nat /\ d # t /\ 0 \in Words
  BY <1>2, <1>4, PoolsInMemory
<1>7. /\ memory'[d] = [w \in Words |-> IF w = 0 THEN Entry(t) ELSE Invalid]
      /\ memory'[t] = [w \in Words |-> Entry(w)]
  BY <1>1, <1>5, <1>6 DEF PagingTypeOK
<1>8. memory' \in [AllFrames -> [Words -> Nat]]
  <2>1. [w \in Words |-> IF w = 0 THEN Entry(t) ELSE Invalid] \in [Words -> Nat]
    BY <1>6 DEF Entry, Invalid
  <2>2. [w \in Words |-> Entry(w)] \in [Words -> Nat]
    BY PoolsInMemory DEF Entry
  <2> QED BY <1>1, <1>5, <2>1, <2>2 DEF PagingTypeOK
<1>9. PagingTypeOK'
  BY <1>1, <1>5, <1>6, <1>8 DEF PagingTypeOK
<1>10. \A i \in Words : Directory(i)' = IF i = 0 THEN t + 1 ELSE 0
  BY <1>5, <1>7 DEF Directory, Entry, Invalid
<1>11. DirectoryInv'
  BY <1>1, <1>2, <1>4, <1>5, <1>6, <1>10 DEF DirectoryInv, Invalid
<1>12. \A w \in Words : Cell(0, w)' = Entry(w)
  BY <1>6, <1>7, <1>10 DEF Cell, Invalid
<1>13. \A i \in Upper, w \in Words : Cell(i, w)' = Invalid
  BY <1>10 DEF Cell, Invalid, Upper
<1>14. IdentityInv' /\ CellsInv'
  BY <1>6, <1>10, <1>12, <1>13 DEF IdentityInv, CellsInv, Invalid
<1>15. \A x \in Touched : expected[x] = 0
  BY <1>1 DEF PagingInv
<1>16. ContentsInv'
  BY <1>5, <1>15 DEF ContentsInv
<1> QED BY <1>5, <1>9, <1>11, <1>14, <1>16 DEF PagingInv

\* load, enable_paging, an access that begins, a fault and a handler that
\* gives up leave memory alone.
LEMMA MemoryUntouched ==
  ASSUME PagingInv, PagingTypeOK', outcome' # "fault in handler",
         memory' = memory, page_directory' = page_directory, expected' = expected,
         kernel_free' = kernel_free, process_free' = process_free,
         (step = "construct") = (step' = "construct")
  PROVE  PagingInv'
<1>1. step # "construct" => EntriesKept
  BY DEF EntriesKept, Directory, Cell
<1>2. step' # "construct" => DirectoryInv' /\ IdentityInv' /\ CellsInv'
  BY <1>1, KeptEntriesAreSound DEF PagingInv
<1>3. step' # "construct" => ContentsInv'
  BY DEF PagingInv, ContentsInv, CellOf, Cell, Directory
<1> QED BY <1>2, <1>3 DEF PagingInv

\* A write goes to the frame of its page, which is no page table page and no
\* other page's.
LEMMA CompletesKeeps == PagingInv /\ completes => PagingInv'
<1> SUFFICES ASSUME PagingInv, completes PROVE PagingInv'
  OBVIOUS
<1>1. PagingTypeOK
  BY DEF PagingInv
<1>2. instruction \in Accesses /\ step = "run"
  BY <1>1 DEF PagingTypeOK, completes
<1>3. /\ instruction' = NoAccess /\ step' = step /\ fault_address' = fault_address
      /\ kernel_free' = kernel_free /\ process_free' = process_free
      /\ page_directory' = page_directory /\ outcome' = outcome
      /\ outcome = "running"
  BY DEF completes, Running
<1>4. CASE instruction.value = 0
  <2>1. memory' = memory /\ expected' = expected
    BY <1>4 DEF completes
  <2>2. PagingTypeOK'
    BY <1>1, <1>3, <2>1 DEF PagingTypeOK
  <2> QED BY <1>3, <2>1, <2>2, MemoryUntouched
<1>5. CASE instruction.value # 0
  <2> DEFINE p == instruction.page
             v == instruction.value
             f == CellOf(p) - 1
  <2>1. p \in Touched /\ v \in Nat \ {0} /\ v \in Values \union {0}
    <3>1. p \in Touched /\ v \in Values \union {0}
      BY <1>2 DEF Accesses
    <3>2. Values \subseteq Nat \ {0}
      BY PagingAssumption
    <3> QED BY <1>5, <3>1, <3>2
  <2>2. DirectoryInv /\ IdentityInv /\ CellsInv /\ ContentsInv
    BY <1>2 DEF PagingInv
  <2>3. p \in Nat
    <3>1. Touched \subseteq Nat
      BY PagingAssumption
    <3> QED BY <2>1, <3>1
  <2>4. p \div EntriesPerPage \in Upper /\ p % EntriesPerPage \in Words
    BY <2>1, SlotInUpper
  <2>5. Translation(p) = f
    BY <1>1, <2>2, <2>3, <2>4, TranslationIsCell DEF Upper
  <2>6. /\ memory' = [memory EXCEPT ![f][0] = v]
        /\ expected' = [expected EXCEPT ![p] = v] /\ f # NoPage
    BY <1>5, <2>5 DEF completes
  <2>7. CellOf(p) \in Nat
    BY <1>1, <2>2, <2>4, EntriesAreNumbers DEF CellOf, Upper
  <2>8. CellOf(p) # Invalid
    BY <2>6, <2>7 DEF Invalid, NoPage
  <2>9. f \in ProcessPool
    BY <2>2, <2>4, <2>8 DEF CellsInv, CellOf
  <2> HIDE DEF f, v, p
  <2>10. f \in AllFrames /\ f \notin KernelPool /\ 0 \in Words
    BY <2>9, PoolsInMemory
  <2>11. /\ memory' \in [AllFrames -> [Words -> Nat]] /\ memory'[f][0] = v
         /\ \A g \in AllFrames \ {f} : memory'[g] = memory[g]
    BY <1>1, <2>1, <2>6, <2>10 DEF PagingTypeOK
  <2>12. expected' \in [Touched -> Values \union {0}]
    BY <1>1, <2>1, <2>6 DEF PagingTypeOK
  <2>13. PagingTypeOK'
    BY <1>1, <1>2, <1>3, <2>11, <2>12 DEF PagingTypeOK
  <2>14. \A i \in Words : Directory(i)' = Directory(i)
    BY <1>3, <2>2, <2>10, <2>11, PoolsInMemory DEF Directory, DirectoryInv
  <2>15. \A i \in Words : Directory(i) # Invalid => Directory(i) - 1 \in AllFrames \ {f}
    BY <2>2, <2>10, PoolsInMemory DEF DirectoryInv
  <2>16. \A i, w \in Words : Cell(i, w)' = Cell(i, w)
    BY <2>11, <2>14, <2>15 DEF Cell
  <2>17. EntriesKept
    BY <1>3, <2>14, <2>16 DEF EntriesKept
  <2>18. DirectoryInv' /\ IdentityInv' /\ CellsInv'
    BY <1>3, <2>2, <2>17, KeptEntriesAreSound
  <2>19. ASSUME NEW x \in Touched, expected'[x] # 0
         PROVE  CellOf(x)' # Invalid /\ memory'[CellOf(x)' - 1][0] = expected'[x]
    <3>1. x \div EntriesPerPage \in Upper /\ x % EntriesPerPage \in Words
      BY SlotInUpper
    <3>2. CellOf(x)' = CellOf(x)
      BY <2>16, <3>1 DEF CellOf, Upper
    <3>3. CASE x = p
      BY <1>1, <2>1, <2>6, <2>8, <2>11, <3>2, <3>3 DEF PagingTypeOK, f
    <3>4. CASE x # p
      <4>1. expected'[x] = expected[x]
        BY <1>1, <2>6, <3>4 DEF PagingTypeOK
      <4>2. CellOf(x) # Invalid /\ memory[CellOf(x) - 1][0] = expected[x]
        BY <2>2, <2>19, <4>1 DEF ContentsInv
      <4>3. CellOf(x) # CellOf(p)
        BY <2>1, <2>2, <2>4, <3>1, <3>4, <4>2, SlotsApart DEF CellsInv, CellOf
      <4>4. CellOf(x) \in Nat
        BY <1>1, <2>2, <3>1, EntriesAreNumbers DEF CellOf, Upper
      <4>5. CellOf(x) - 1 \in AllFrames
        BY <2>2, <3>1, <4>2, PoolsInMemory DEF CellsInv, CellOf
      <4>6. CellOf(x) - 1 # f
        BY <2>7, <4>3, <4>4 DEF f
      <4> QED BY <2>11, <3>2, <4>1, <4>2, <4>5, <4>6
    <3> QED BY <3>3, <3>4
  <2>20. ContentsInv'
    BY <2>19 DEF ContentsInv
  <2> QED BY <1>2, <1>3, <2>13, <2>18, <2>20 DEF PagingInv
<1> QED BY <1>4, <1>5

\* A new page table page is a free frame and comes out empty, so no page
\* gains or loses its entry.
LEMMA MakeTableKeeps == PagingInv /\ make_table => PagingInv'
<1> SUFFICES ASSUME PagingInv, make_table PROVE PagingInv'
  OBVIOUS
<1> DEFINE f == Lowest(kernel_free)
           d == page_directory
<1>1. PagingTypeOK
  BY DEF PagingInv
<1>2. fault_address \in Touched /\ step = "run" /\ outcome = "running"
  BY <1>1 DEF PagingTypeOK, make_table, Handling, Running
<1>3. DirectoryInv /\ IdentityInv /\ CellsInv /\ ContentsInv
  BY <1>2 DEF PagingInv
<1>4. CASE ~HasFrame
  <2>1. /\ outcome' = "assert"
        /\ UNCHANGED <<step, kernel_free, process_free, memory, page_directory, fault_address,
                       instruction, expected>>
    BY <1>4 DEF make_table, Fails
  <2>2. PagingTypeOK'
    BY <1>1, <2>1 DEF PagingTypeOK
  <2> QED BY <2>1, <2>2, MemoryUntouched
<1>5. CASE HasFrame
  <2>1. kernel_free # {}
    <3>1. Cardinality({}) = 0
      BY FS_EmptySet
    <3> QED BY <1>5, <3>1 DEF HasFrame
  <2>2. kernel_free \subseteq KernelPool
    BY <1>1 DEF PagingTypeOK
  <2>3. f \in kernel_free
    BY <2>1, <2>2, LowestInPool, PoolsInMemory
  <2>4. Reachable(f)
    BY <1>1, <1>3, <2>2, <2>3, HandlerReaches
  <2>5. PICK k \in Upper : k = fault_address \div EntriesPerPage
    BY <1>2, SlotInUpper
  <2>6. Directory(k) = Invalid
    BY <2>5 DEF make_table, Missing, Directory
  <2>7. /\ kernel_free' = kernel_free \ {f}
        /\ memory' = [memory EXCEPT ![d][k] = Entry(f), ![f] = NewTable(@)]
        /\ step' = step /\ process_free' = process_free /\ page_directory' = d
        /\ fault_address' = fault_address /\ instruction' = instruction
        /\ expected' = expected /\ outcome' = outcome
    BY <1>5, <2>4, <2>5 DEF make_table
  <2> HIDE DEF f
  <2>8. /\ d \in KernelPool /\ d \notin kernel_free /\ f \in KernelPool /\ f # d
        /\ f \in Nat /\ f \in AllFrames /\ d \in AllFrames /\ k \in Words /\ k # 0
    BY <1>3, <2>2, <2>3, <2>5, PoolsInMemory DEF DirectoryInv, Upper
  <2>9. [w \in Words |-> Invalid] \in [Words -> Nat] /\ Entry(f) \in Nat
    BY <2>8 DEF Invalid, Entry
  <2>10. /\ memory' \in [AllFrames -> [Words -> Nat]]
         /\ memory'[d] = [memory[d] EXCEPT ![k] = Entry(f)]
         /\ memory'[f] = [w \in Words |-> Invalid]
         /\ \A g \in AllFrames \ {d, f} : memory'[g] = memory[g]
    BY <1>1, <2>7, <2>8, <2>9 DEF PagingTypeOK, NewTable
  <2>11. PagingTypeOK'
    BY <1>1, <1>2, <2>7, <2>10 DEF PagingTypeOK
  <2>12. /\ Directory(k)' = f + 1
         /\ \A i \in Words \ {k} : Directory(i)' = Directory(i)
    BY <1>1, <2>7, <2>8, <2>10 DEF PagingTypeOK, Directory, Entry
  <2>13. \A i \in Words : Directory(i) # Invalid =>
           /\ i # k /\ Directory(i) - 1 \in KernelPool \ (kernel_free \union {d})
           /\ Directory(i) - 1 \in AllFrames \ {d, f}
    BY <1>3, <2>3, <2>6, PoolsInMemory DEF DirectoryInv
  <2>14. \A i \in Words : Directory(i) \in Nat
    BY <1>1, <1>3, EntriesAreNumbers
  <2>15. DirectoryInv'
    <3>1. page_directory' \in KernelPool \ kernel_free'
      BY <2>7, <2>8
    <3>2. \A i \in Words : Directory(i)' # Invalid =>
            Directory(i)' - 1 \in KernelPool \ (kernel_free' \union {page_directory'})
      <4> SUFFICES ASSUME NEW i \in Words, Directory(i)' # Invalid
                   PROVE  Directory(i)' - 1 \in KernelPool \ (kernel_free' \union {d})
        BY <2>7
      <4>1. CASE i = k
        BY <2>7, <2>8, <2>12, <4>1
      <4>2. CASE i # k
        BY <2>7, <2>12, <2>13, <4>2
      <4> QED BY <4>1, <4>2
    <3>3. \A i, j \in Words : Directory(i)' = Directory(j)' /\ Directory(i)' # Invalid => i = j
      <4> SUFFICES ASSUME NEW i \in Words, NEW j \in Words, Directory(i)' = Directory(j)',
                          Directory(i)' # Invalid
                   PROVE  i = j
        OBVIOUS
      <4>1. \A m \in Words \ {k} : Directory(m)' # Invalid => Directory(m)' # f + 1
        BY <2>3, <2>8, <2>12, <2>13, <2>14
      <4>2. CASE i # k /\ j # k
        BY <1>3, <2>12, <4>2 DEF DirectoryInv
      <4>3. CASE i = k \/ j = k
        BY <2>12, <4>1, <4>3
      <4> QED BY <4>2, <4>3
    <3> QED BY <3>1, <3>2, <3>3 DEF DirectoryInv
  <2>16. ASSUME NEW i \in Words, NEW w \in Words
         PROVE  Cell(i, w)' = Cell(i, w)
    <3>1. CASE i = k
      <4>1. Cell(i, w)' = memory'[f][w]
        BY <2>8, <2>12, <3>1 DEF Cell, Invalid
      <4> QED BY <2>6, <2>10, <3>1, <4>1 DEF Cell
    <3>2. CASE i # k
      BY <2>10, <2>12, <2>13, <3>2 DEF Cell
    <3> QED BY <3>1, <3>2
  <2>17. Directory(0)' # Invalid /\ 0 \in Words
    BY <1>3, <2>8, <2>12, PoolsInMemory DEF IdentityInv
  <2>18. IdentityInv'
    BY <1>3, <2>16, <2>17 DEF IdentityInv
  <2>19. CellsInv'
    BY <1>3, <2>7, <2>16 DEF CellsInv, Upper
  <2>20. ASSUME NEW x \in Touched, expected'[x] # 0
         PROVE  CellOf(x)' # Invalid /\ memory'[CellOf(x)' - 1][0] = expected'[x]
    <3>1. x \div EntriesPerPage \in Upper /\ x % EntriesPerPage \in Words
      BY SlotInUpper
    <3>2. CellOf(x)' = CellOf(x)
      BY <2>16, <3>1 DEF CellOf, Upper
    <3>3. CellOf(x) # Invalid /\ memory[CellOf(x) - 1][0] = expected[x]
      BY <1>3, <2>7, <2>20 DEF ContentsInv
    <3>4. CellOf(x) - 1 \in ProcessPool
      BY <1>3, <3>1, <3>3 DEF CellsInv, CellOf
    <3>5. CellOf(x) - 1 \in AllFrames \ {d, f}
      BY <2>8, <3>4, PoolsInMemory
    <3> QED BY <2>7, <2>10, <3>2, <3>3, <3>5
  <2>21. ContentsInv'
    BY <2>20 DEF ContentsInv
  <2> QED BY <1>2, <2>7, <2>11, <2>15, <2>18, <2>19, <2>21 DEF PagingInv
<1> QED BY <1>4, <1>5

\* A page that is mapped gets a frame that no other page has.
LEMMA MapPageKeeps == PagingInv /\ map_page => PagingInv'
<1> SUFFICES ASSUME PagingInv, map_page PROVE PagingInv'
  OBVIOUS
<1> DEFINE a == fault_address
           f == Lowest(process_free)
<1>1. PagingTypeOK
  BY DEF PagingInv
<1>2. a \in Touched /\ step = "run" /\ outcome = "running"
  BY <1>1 DEF PagingTypeOK, map_page, Handling, Running
<1>3. DirectoryInv /\ IdentityInv /\ CellsInv /\ ContentsInv
  BY <1>2 DEF PagingInv
<1>4. PICK k \in Upper, w0 \in Words :
        k = a \div EntriesPerPage /\ w0 = a % EntriesPerPage /\ k \in Words
  BY <1>2, SlotInUpper DEF Upper
<1> DEFINE table == memory[page_directory][k] - 1
<1>5. Directory(k) # Invalid /\ table = Directory(k) - 1
  BY <1>4 DEF map_page, Missing, Directory
<1>6. table \in KernelPool /\ table # page_directory /\ page_directory \in KernelPool
  BY <1>3, <1>4, <1>5 DEF DirectoryInv
<1>7. Reachable(table)
  BY <1>1, <1>3, <1>6, HandlerReaches
<1>8. CASE memory[table][w0] # Invalid
  <2>1. /\ fault_address' = NoPage
        /\ UNCHANGED <<step, kernel_free, process_free, memory, page_directory,
                       instruction, expected, outcome>>
    BY <1>4, <1>7, <1>8 DEF map_page
  <2>2. PagingTypeOK'
    BY <1>1, <1>2, <2>1 DEF PagingTypeOK
  <2> QED BY <1>2, <2>1, <2>2, MemoryUntouched
<1>9. CASE memory[table][w0] = Invalid /\ process_free = {}
  <2>1. /\ outcome' = "frame 0"
        /\ UNCHANGED <<step, kernel_free, process_free, memory, page_directory, fault_address,
                       instruction, expected>>
    BY <1>4, <1>7, <1>9 DEF map_page, Fails
  <2>2. PagingTypeOK'
    BY <1>1, <2>1 DEF PagingTypeOK
  <2> QED BY <2>1, <2>2, MemoryUntouched
<1>10. CASE memory[table][w0] = Invalid /\ process_free # {}
  <2>1. process_free \subseteq ProcessPool
    BY <1>1 DEF PagingTypeOK
  <2>2. f \in process_free
    BY <1>10, <2>1, LowestInPool, PoolsInMemory
  <2>3. /\ process_free' = process_free \ {f}
        /\ memory' = [memory EXCEPT ![table][w0] = Entry(f)]
        /\ fault_address' = NoPage
        /\ step' = step /\ kernel_free' = kernel_free /\ page_directory' = page_directory
        /\ instruction' = instruction /\ expected' = expected /\ outcome' = outcome
    BY <1>4, <1>7, <1>10 DEF map_page
  <2>4. memory[table][w0] = Invalid
    BY <1>10
  <2> HIDE DEF f, table
  <2>5. f \in Nat /\ f \in ProcessPool /\ table \in AllFrames /\ table \notin ProcessPool
    BY <1>6, <2>1, <2>2, PoolsInMemory
  <2>6. Entry(f) \in Nat /\ Entry(f) = f + 1
    BY <2>5 DEF Entry
  <2>7. /\ memory' \in [AllFrames -> [Words -> Nat]]
        /\ memory'[table] = [memory[table] EXCEPT ![w0] = Entry(f)]
        /\ \A g \in AllFrames \ {table} : memory'[g] = memory[g]
    BY <1>1, <1>4, <2>3, <2>5, <2>6 DEF PagingTypeOK
  <2>8. PagingTypeOK'
    BY <1>1, <1>2, <2>3, <2>7 DEF PagingTypeOK
  <2>9. \A i \in Words : Directory(i)' = Directory(i)
    <3>1. page_directory \in AllFrames \ {table}
      BY <1>6, PoolsInMemory
    <3> QED BY <2>3, <2>7, <3>1 DEF Directory
  <2>10. DirectoryInv'
    BY <1>3, <2>3, <2>9 DEF DirectoryInv
  <2>11. \A i \in Words \ {k} : Directory(i) # Invalid => Directory(i) - 1 \in AllFrames \ {table}
    <3> SUFFICES ASSUME NEW i \in Words, i # k, Directory(i) # Invalid
                 PROVE  Directory(i) - 1 \in AllFrames \ {table}
      OBVIOUS
    <3>1. Directory(i) # Directory(k)
      BY <1>3, <1>4 DEF DirectoryInv
    <3>2. Directory(i) \in Nat /\ Directory(k) \in Nat
      BY <1>1, <1>3, <1>4, EntriesAreNumbers
    <3>3. Directory(i) - 1 \in AllFrames
      BY <1>3, PoolsInMemory DEF DirectoryInv
    <3> QED BY <1>5, <3>1, <3>2, <3>3
  <2>12. Cell(k, w0) = Invalid /\ Cell(k, w0)' = f + 1
    BY <1>1, <1>4, <1>5, <2>4, <2>5, <2>6, <2>7, <2>9 DEF Cell, PagingTypeOK
  <2>13. ASSUME NEW i \in Words, NEW w \in Words, i # k \/ w # w0
         PROVE  Cell(i, w)' = Cell(i, w)
    <3>1. CASE i # k
      BY <2>7, <2>9, <2>11, <3>1 DEF Cell
    <3>2. CASE i = k /\ w # w0
      BY <1>1, <1>5, <2>5, <2>7, <2>9, <2>13, <3>2 DEF Cell, PagingTypeOK
    <3> QED BY <2>13, <3>1, <3>2
  <2>14. IdentityInv'
    <3>1. k # 0 /\ 0 \in Words
      BY <1>4, PoolsInMemory DEF Upper
    <3> QED BY <1>3, <2>9, <2>13, <3>1 DEF IdentityInv
  <2>15. \A i \in Upper, w \in Words : Cell(i, w)' # Invalid =>
           Cell(i, w)' - 1 \in ProcessPool \ process_free'
    <3> SUFFICES ASSUME NEW i \in Upper, NEW w \in Words, Cell(i, w)' # Invalid
                 PROVE  Cell(i, w)' - 1 \in ProcessPool \ process_free'
      OBVIOUS
    <3>1. CASE i = k /\ w = w0
      BY <2>3, <2>5, <2>12, <3>1
    <3>2. CASE i # k \/ w # w0
      <4>1. Cell(i, w)' = Cell(i, w)
        BY <2>13, <3>2 DEF Upper
      <4> QED BY <1>3, <2>3, <4>1 DEF CellsInv
    <3> QED BY <3>1, <3>2
  <2>16. \A i \in Upper, w \in Words : i # k \/ w # w0 => Cell(i, w)' # f + 1
    <3> SUFFICES ASSUME NEW i \in Upper, NEW w \in Words, i # k \/ w # w0, Cell(i, w)' = f + 1
                 PROVE  FALSE
      OBVIOUS
    <3>1. Cell(i, w) = f + 1
      BY <2>13 DEF Upper
    <3>2. f + 1 # Invalid /\ (f + 1) - 1 = f
      BY <2>5 DEF Invalid
    <3> QED BY <1>3, <2>2, <3>1, <3>2 DEF CellsInv
  <2>17. \A i, j \in Upper, v, w \in Words :
           Cell(i, v)' = Cell(j, w)' /\ Cell(i, v)' # Invalid => i = j /\ v = w
    <3> SUFFICES ASSUME NEW i \in Upper, NEW j \in Upper, NEW v \in Words, NEW w \in Words,
                        Cell(i, v)' = Cell(j, w)', Cell(i, v)' # Invalid
                 PROVE  i = j /\ v = w
      OBVIOUS
    <3>1. CASE i = k /\ v = w0
      BY <2>12, <2>16, <3>1
    <3>2. CASE j = k /\ w = w0
      BY <2>12, <2>16, <3>2
    <3>3. CASE (i # k \/ v # w0) /\ (j # k \/ w # w0)
      <4>1. Cell(i, v)' = Cell(i, v) /\ Cell(j, w)' = Cell(j, w)
        BY <2>13, <3>3 DEF Upper
      <4>2. Cell(i, v) = Cell(j, w) /\ Cell(i, v) # Invalid
        BY <4>1
      <4> QED BY <1>3, <4>2 DEF CellsInv
    <3> QED BY <3>1, <3>2, <3>3
  <2>18. CellsInv'
    BY <2>15, <2>17 DEF CellsInv
  <2>19. ASSUME NEW x \in Touched, expected'[x] # 0
         PROVE  CellOf(x)' # Invalid /\ memory'[CellOf(x)' - 1][0] = expected'[x]
    <3>1. x \div EntriesPerPage \in Upper /\ x % EntriesPerPage \in Words
      BY SlotInUpper
    <3>2. CellOf(x) # Invalid /\ memory[CellOf(x) - 1][0] = expected[x]
      BY <1>3, <2>3, <2>19 DEF ContentsInv
    <3>3. CellOf(x)' = CellOf(x)
      BY <2>12, <2>13, <3>1, <3>2 DEF CellOf, Upper
    <3>4. CellOf(x) - 1 \in ProcessPool
      BY <1>3, <3>1, <3>2 DEF CellsInv, CellOf
    <3>5. CellOf(x) - 1 \in AllFrames \ {table}
      BY <2>5, <3>4, PoolsInMemory
    <3> QED BY <2>3, <2>7, <3>2, <3>3, <3>5
  <2>20. ContentsInv'
    BY <2>19 DEF ContentsInv
  <2> QED BY <1>2, <2>3, <2>8, <2>10, <2>14, <2>18, <2>20 DEF PagingInv
<1> QED BY <1>8, <1>9, <1>10

LEMMA PagingStep == PagingInv /\ [PagingNext]_pagingVars => PagingInv'
<1> SUFFICES ASSUME PagingInv, [PagingNext]_pagingVars PROVE PagingInv'
  OBVIOUS
<1>1. PagingTypeOK /\ outcome # "fault in handler"
  BY DEF PagingInv
<1>2. CASE construct
  BY <1>2, ConstructKeeps
<1>3. CASE load_and_enable
  <2>1. PagingTypeOK'
    BY <1>1, <1>3 DEF load_and_enable, PagingTypeOK
  <2> QED BY <1>1, <1>3, <2>1, MemoryUntouched DEF load_and_enable
<1>4. ASSUME NEW x \in Touched, accesses(x) PROVE PagingInv'
  <2>1. PICK v \in Values \union {0} : instruction' = [page |-> x, value |-> v]
    BY <1>4 DEF accesses
  <2>2. instruction' \in Accesses
    BY <2>1 DEF Accesses
  <2>3. PagingTypeOK'
    BY <1>1, <1>4, <2>2 DEF accesses, PagingTypeOK
  <2> QED BY <1>1, <1>4, <2>3, MemoryUntouched DEF accesses
<1>5. CASE completes
  BY <1>5, CompletesKeeps
<1>6. CASE faults
  <2>1. instruction \in Accesses /\ step = "run"
    BY <1>1, <1>6 DEF faults, PagingTypeOK
  <2>2. PagingTypeOK'
    BY <1>1, <1>6, <2>1 DEF faults, PagingTypeOK, Accesses
  <2> QED BY <1>1, <1>6, <2>2, MemoryUntouched DEF faults
<1>7. CASE make_table
  BY <1>7, MakeTableKeeps
<1>8. CASE map_page
  BY <1>8, MapPageKeeps
<1>9. CASE UNCHANGED pagingVars
  <2>1. PagingTypeOK'
    BY <1>1, <1>9 DEF pagingVars, PagingTypeOK
  <2> QED BY <1>1, <1>9, <2>1, MemoryUntouched DEF pagingVars
<1> QED BY <1>2, <1>3, <1>4, <1>5, <1>6, <1>7, <1>8, <1>9 DEF PagingNext, stopped

\* A page that was written is mapped to the frame that holds what was written.
LEMMA WrittenPagesHold == PagingInv => MemoryHolds
<1> SUFFICES ASSUME PagingInv, NEW x \in Touched, expected[x] # 0
             PROVE  Translation(x) # NoPage /\ memory[Translation(x)][0] = expected[x]
  BY DEF MemoryHolds
<1>1. PagingTypeOK /\ DirectoryInv /\ ContentsInv
  BY DEF PagingInv
<1>2. x \div EntriesPerPage \in Words /\ x % EntriesPerPage \in Words /\ x \in Nat
  BY SlotInUpper, PagingAssumption DEF Upper
<1>3. Translation(x) = CellOf(x) - 1
  BY <1>1, <1>2, TranslationIsCell
<1>4. CellOf(x) \in Nat
  BY <1>1, <1>2, EntriesAreNumbers DEF CellOf
<1> QED BY <1>1, <1>3, <1>4 DEF ContentsInv, Invalid, NoPage

\* In MP3 every page that was written holds its last value, in whatever order
\* pages are touched and whatever memory contained before: page_fault gives no
\* frame away twice, and clears every page table page it makes.
THEOREM PagesKeepTheirContents == PagingSpec => []MemoryHolds
<1> QED BY PagingStart, PagingStep, WrittenPagesHold, PTL DEF PagingSpec

\* page_fault itself never faults, although paging is on and it writes the
\* directory and the page table pages through their physical addresses.
THEOREM HandlerNeverFaults == PagingSpec => [](outcome # "fault in handler")
<1>1. PagingInv => outcome # "fault in handler"
  BY DEF PagingInv
<1> QED BY <1>1, PagingStart, PagingStep, PTL DEF PagingSpec

\* Once the constructor has run, the directory, the page table pages and the
\* pages that are mapped have a frame of their own each.
THEOREM PagedFramesApart ==
  PagingSpec => [](step # "construct" => DirectoryInv /\ CellsInv)
<1>1. PagingInv => (step # "construct" => DirectoryInv /\ CellsInv)
  BY DEF PagingInv
<1> QED BY <1>1, PagingStart, PagingStep, PTL DEF PagingSpec
=============================================================================
