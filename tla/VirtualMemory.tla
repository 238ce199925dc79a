--------------------------- MODULE VirtualMemory ---------------------------
(* The virtual memory of MP4: the recursive page table (page_table.C) and   *)
(* the virtual memory pools registered with it (vm_pool.C), over one        *)
(* contiguous frame pool, which gives out its lowest free frame as module   *)
(* FramePool does for requests of one frame. Addresses are page numbers.    *)
(* The lists of a pool live in its own first page, which is mapped on       *)
(* demand like every other page.                                            *)
EXTENDS Integers, FiniteSets, Sequences

CONSTANTS
  NVMPools,    \* number of pools main() constructs
  BasePage,    \* [1..NVMPools -> Nat]: first page of every pool
  Size,        \* [1..NVMPools -> Nat]: pages of every pool
  PerTable,    \* ENTRIES_PER_PAGE: pages covered by one page table page
  MaxPage,     \* bound on page numbers
  LastFrame,   \* frames of the process pool
  PageBytes,   \* PAGE_SIZE
  MaxBytes,    \* bound on the argument of allocate
  MaxRegions   \* room in each of the two lists of a pool (256)

VMPools == 1..NVMPools
Pages == 0..MaxPage
Tables == 0..(MaxPage \div PerTable)
FrameNos == 1..LastFrame
None == 0      \* an entry whose valid bit is clear
Nowhere == -1  \* no access is under way

ASSUME PoolsAssumption ==
  /\ NVMPools \in Nat /\ PerTable \in Nat \ {0} /\ MaxPage \in Nat
  /\ BasePage \in [VMPools -> Nat] /\ Size \in [VMPools -> Nat \ {0}]
  /\ \A p \in VMPools : BasePage[p] + Size[p] - 1 \in Pages

TableOf(x) == x \div PerTable

\* main() leaves room between its pools: a whole page table page at least.
ASSUME GapAssumption ==
  \A p, q \in VMPools : p # q =>
    \/ TableOf(BasePage[p] + Size[p] - 1) + 1 < TableOf(BasePage[q])
    \/ TableOf(BasePage[q] + Size[q] - 1) + 1 < TableOf(BasePage[p])

ASSUME SizesAssumption ==
  /\ LastFrame \in Nat /\ LastFrame >= 2
  /\ PageBytes \in Nat \ {0} /\ MaxBytes \in Nat \ {0} /\ MaxRegions \in Nat \ {0}

VARIABLES
  free,            \* free frames of the process pool
  pde,             \* frame of every page table page, None if invalid
  pte,             \* frame of every page, None if invalid
  tlb,             \* translations the CPU has cached since CR3 was loaded
  vmpool,          \* the registered pools, head first
  allocated_list,  \* the regions every pool has handed out
  free_list,       \* the regions every pool has left
  access,          \* the page an instruction is accessing
  live,            \* regions that callers of allocate still own
  released,        \* somebody has called release
  status           \* "running", "assert", "frame 0" (see OutOfFrames), or "refault":
                   \* the instruction faults for ever

vmVars == <<free, pde, pte, tlb, vmpool, allocated_list, free_list, access, live,
          released, status>>
lists == <<vmpool, allocated_list, free_list, live, released>>

PagesOf(r) == r.base .. (r.base + r.size - 1)
Covered(x) == x \in Pages /\ pde[TableOf(x)] # None

\* The constructor of PageTable has taken frame 1 for the directory, which
\* also serves as its own last page table page, and frame 2 for the
\* direct-mapped first pages, which are not modelled.
VMInit ==
  /\ free = FrameNos \ {1, 2}
  /\ pde = [t \in Tables |-> None]
  /\ pte = [x \in Pages |-> None]
  /\ tlb = [x \in Pages |-> None]
  /\ vmpool = <<>>
  /\ allocated_list = [p \in VMPools |-> <<>>]
  /\ free_list = [p \in VMPools |-> <<>>]
  /\ access = Nowhere
  /\ live = {}
  /\ released = FALSE
  /\ status = "running"

----------------------------------------------------------------------------
(* The page table.                                                          *)

\* Slip: the frame is read but stays free.
get_frame_keeps(f) == f \in free /\ (\A g \in free : f <= g) /\ free' = free

\* get_frames(1): the lowest free frame. Its assertion compares nFreeFrames,
\* which mark_inaccessible leaves alone: the process pool counts the frames of
\* the hole for ever, so the assertion does not fail.
get_frame(f) ==
  /\ f \in free /\ \A g \in free : f <= g
  /\ free' = free \ {f}

\* Slip: the last page of a region is left out.
InRegion_short(r, x) == r.base <= x /\ x < r.base + r.size - 1

InRegion(r, x) == r.base <= x /\ x < r.base + r.size

is_legitimate(p, x) ==
  \/ x = BasePage[p]
  \/ \E i \in 1..Len(allocated_list[p]) : InRegion(allocated_list[p][i], x)

Legitimate(x) == \E i \in 1..Len(vmpool) : is_legitimate(vmpool[i], x)

Faulting == status = "running" /\ access # Nowhere /\ pte[access] = None

\* page_fault returns without a change for an illegitimate address, and the
\* instruction faults again.
Refuse ==
  /\ Faulting /\ ~Legitimate(access)
  /\ status' = "refault"
  /\ UNCHANGED <<free, pde, pte, tlb, access, lists>>

\* When no frame is left get_frames returns 0, and page_fault takes frame 0,
\* which belongs to no pool, for whatever it needs; the model stops there.
OutOfFrames ==
  /\ Faulting /\ Legitimate(access) /\ free = {}
  /\ status' = "frame 0"
  /\ UNCHANGED <<free, pde, pte, tlb, access, lists>>

\* page_fault creates the missing page table page, all of its entries invalid,
FaultTable ==
  /\ Faulting /\ Legitimate(access)
  /\ pde[TableOf(access)] = None
  /\ \E f \in free : get_frame(f) /\ pde' = [pde EXCEPT ![TableOf(access)] = f]
  /\ pte' = [x \in Pages |-> IF TableOf(x) = TableOf(access) THEN None ELSE pte[x]]
  /\ UNCHANGED <<tlb, access, lists, status>>

\* and goes on to map the page.
FaultPage ==
  /\ Faulting /\ Legitimate(access)
  /\ pde[TableOf(access)] # None
  /\ \E f \in free : get_frame(f) /\ pte' = [pte EXCEPT ![access] = f]
  /\ UNCHANGED <<pde, tlb, access, lists, status>>

\* The instruction is executed again, and completes.
Complete ==
  /\ status = "running" /\ access # Nowhere /\ pte[access] # None
  /\ tlb' = [tlb EXCEPT ![access] = pte[access]]
  /\ access' = Nowhere
  /\ UNCHANGED <<free, pde, pte, lists, status>>

\* Slip: the page table is changed without reloading CR3.
free_pages_cached(gone) ==
  /\ free' = free \union ({pte[x] : x \in gone} \ {None})
  /\ pte' = [x \in Pages |-> IF x \in gone THEN None ELSE pte[x]]
  /\ tlb' = tlb

\* Slip: everything under the same page table page goes.
free_pages_by_table(gone) ==
  LET all == {x \in Pages : \E y \in gone : TableOf(x) = TableOf(y)}
  IN  /\ free' = free \union ({pte[x] : x \in all} \ {None})
      /\ pte' = [x \in Pages |-> IF x \in all THEN None ELSE pte[x]]
      /\ tlb' = [x \in Pages |-> None]

\* free_page for every page of a set: a valid one gives its frame back and
\* CR3 is loaded again.
free_pages(gone) ==
  /\ free' = free \union ({pte[x] : x \in gone} \ {None})
  /\ pte' = [x \in Pages |-> IF x \in gone THEN None ELSE pte[x]]
  /\ tlb' = IF \E x \in gone : pte[x] # None THEN [x \in Pages |-> None] ELSE tlb

----------------------------------------------------------------------------
(* The virtual memory pools. Nothing else runs while an access faults.      *)

Ready == status = "running" /\ access = Nowhere

\* VMPool(base, size): register_pool puts the pool in front of the list, and
\* writing the lists makes the first page fault.
VMPool(p) ==
  /\ Ready /\ p = Len(vmpool) + 1
  /\ vmpool' = <<p>> \o vmpool
  /\ allocated_list' = [allocated_list EXCEPT ![p] = <<[base |-> BasePage[p], size |-> 1]>>]
  /\ free_list' = [free_list EXCEPT ![p] = <<[base |-> BasePage[p] + 1, size |-> Size[p] - 1]>>]
  /\ access' = BasePage[p]
  /\ UNCHANGED <<free, pde, pte, tlb, live, released, status>>

\* A caller accesses a page of a region it owns.
Touch(x) ==
  /\ Ready /\ tlb[x] = None
  /\ \E r \in live : x \in PagesOf(r)
  /\ access' = x
  /\ UNCHANGED <<free, pde, pte, tlb, lists, status>>

\* list[i] = list[--size]
SwapRemove(s, i) == SubSeq([s EXCEPT ![i] = s[Len(s)]], 1, Len(s) - 1)

PagesNeeded(bytes) == bytes \div PageBytes + (IF bytes % PageBytes > 0 THEN 1 ELSE 0)

\* Slip: the start of a gap stays when its size shrinks.
Shrunk_at_end(g, n) == [g EXCEPT !.size = @ - n]

Shrunk(g, n) == [base |-> g.base + n, size |-> g.size - n]

HasRoom(g, n) == g.size >= n

\* First fit in the free list. When nothing fits allocate returns 0.
Allocate(p, bytes) ==
  LET n == PagesNeeded(bytes)
      gaps == free_list[p]
  IN  /\ Ready /\ p \in {vmpool[i] : i \in 1..Len(vmpool)}
      /\ Len(allocated_list[p]) < MaxRegions
      /\ \E i \in 1..Len(gaps) :
           /\ HasRoom(gaps[i], n) /\ \A j \in 1..(i - 1) : ~HasRoom(gaps[j], n)
           /\ free_list' = [free_list EXCEPT ![p] =
                IF gaps[i].size # n THEN [gaps EXCEPT ![i] = Shrunk(@, n)]
                                    ELSE SwapRemove(gaps, i)]
           /\ allocated_list' = [allocated_list EXCEPT ![p] =
                Append(@, [base |-> gaps[i].base, size |-> n])]
           /\ live' = live \union {[pool |-> p, base |-> gaps[i].base, size |-> n]}
      /\ UNCHANGED <<free, pde, pte, tlb, vmpool, access, released, status>>

\* The owner releases region r. The code assigns the start address to the
\* first entry of the allocated list where it means to compare the two: that
\* entry decides how many pages are freed and what goes to the free list.
\* free_page reads the entry of a page through the page directory: where the
\* page table page is missing it faults at an address no pool owns.
Release(r) ==
  LET p == r.pool
      size == allocated_list[p][1].size
      reach == {j \in 0..(size - 1) : \A h \in 0..j : Covered(r.base + h)}
  IN  /\ Ready /\ r \in live
      /\ Len(free_list[p]) < MaxRegions
      /\ live' = live \ {r} /\ released' = TRUE
      /\ IF allocated_list[p] = <<>>
           THEN UNCHANGED <<free, pte, tlb, allocated_list, free_list, status>>
           ELSE /\ free_pages({r.base + j : j \in reach})
                /\ IF reach = 0..(size - 1)
                     THEN /\ free_list' = [free_list EXCEPT ![p] =
                               Append(@, [base |-> r.base, size |-> size])]
                          /\ allocated_list' = [allocated_list EXCEPT ![p] =
                               SwapRemove([@ EXCEPT ![1].base = r.base], 1)]
                          /\ status' = status
                     ELSE /\ status' = "refault"
                          /\ UNCHANGED <<allocated_list, free_list>>
      /\ UNCHANGED <<pde, vmpool, access>>

\* The assertions of allocate and release.
ListFull ==
  /\ Ready
  /\ \/ \E i \in 1..Len(vmpool) : Len(allocated_list[vmpool[i]]) >= MaxRegions
     \/ \E r \in live : Len(free_list[r.pool]) >= MaxRegions
  /\ status' = "assert"
  /\ UNCHANGED <<free, pde, pte, tlb, access, lists>>

VMHalted == status # "running" /\ UNCHANGED vmVars

Fault == Refuse \/ OutOfFrames \/ FaultTable \/ FaultPage \/ Complete

VMNext ==
  \/ Fault \/ ListFull \/ VMHalted
  \/ \E p \in VMPools : VMPool(p) \/ \E b \in 1..MaxBytes : Allocate(p, b)
  \/ \E x \in Pages : Touch(x)
  \/ \E r \in live : Release(r)

\* The CPU goes on executing the faulting instruction and its handler.
VMSpec == VMInit /\ [][VMNext]_vmVars /\ WF_vmVars(Fault)

----------------------------------------------------------------------------
\* Every frame has exactly one use: free, the directory or the shared table,
\* one page table page, or one page. Neither faults nor releases, also of the
\* wrong pages, share a frame or lose one.
Uses(f) ==
  Cardinality({x \in Pages : pte[x] = f}) + Cardinality({t \in Tables : pde[t] = f})
    + (IF f \in free THEN 1 ELSE 0) + (IF f \in {1, 2} THEN 1 ELSE 0)

FramesAccounted == \A f \in FrameNos : Uses(f) = 1

\* A translation the CPU may still have cached is the one in the page table,
\* so no access reaches a frame that was given back.
CachedIsMapped == \A x \in Pages : tlb[x] # None => tlb[x] = pte[x]

\* Once written, the page with the lists of a pool stays mapped: no release,
\* in this pool or another, frees the page.
ListsStayMapped ==
  \A i \in 1..Len(vmpool) :
    BasePage[vmpool[i]] # access => pte[BasePage[vmpool[i]]] # None

\* Until the first release the two lists of a pool cover every page of it
\* exactly once, so regions never overlap.
Covers(s, x) == Cardinality({i \in 1..Len(s) : x \in PagesOf(s[i])})

ListsPartitionPool ==
  ~released => \A i \in 1..Len(vmpool) :
    LET p == vmpool[i]
    IN  \A x \in BasePage[p] .. (BasePage[p] + Size[p] - 1) :
          Covers(allocated_list[p], x) + Covers(free_list[p], x) = 1

\* Until the first release every access a caller makes to its own regions, or
\* a constructor to its lists, completes or finds the machine out of frames.
FaultsResolve ==
  (access # Nowhere /\ ~released) ~> (access = Nowhere \/ status = "frame 0")

\* vm_pool.H: an address is not valid if it is not part of a region that is
\* currently allocated.
OnlyLiveIsLegitimate ==
  \A i \in 1..Len(vmpool) : \A x \in Pages :
    is_legitimate(vmpool[i], x) =>
      \/ x = BasePage[vmpool[i]]
      \/ \E r \in live : r.pool = vmpool[i] /\ x \in PagesOf(r)
=============================================================================
