----------------------------- MODULE PageTable -----------------------------
(* Demand paging in MP3 (page_table.C). Directory and page table pages are   *)
(* words of the same memory as the data, in frames of the kernel pool, and   *)
(* the fault handler uses the physical addresses of these frames as virtual  *)
(* ones. A frame pool gives out its lowest free frame, as FramePool does for *)
(* requests of one frame. Nothing is ever unmapped.                          *)
EXTENDS Integers, FiniteSets

CONSTANTS
  KernelPool,   \* frames of the kernel pool behind its bitmap
  ProcessPool,  \* frames of the process pool
  EntriesPerPage, \* ENTRIES_PER_PAGE
  Touched,      \* the pages that main() accesses
  Values        \* what it writes, positive numbers

\* The kernel pool lies in the first 4 MB, which one page table page maps to
\* themselves, the process pool and the addresses main() uses behind them.
ASSUME PagingAssumption ==
  /\ EntriesPerPage \in Nat
  /\ KernelPool \subseteq 1..(EntriesPerPage - 1)
  /\ \E f, g \in KernelPool : f # g
  /\ ProcessPool \subseteq Nat \ (0..(EntriesPerPage - 1))
  /\ Touched \subseteq EntriesPerPage..(EntriesPerPage * EntriesPerPage - 1)
  /\ Values \subseteq Nat \ {0}

VARIABLES
  step,         \* how far main() has come
  kernel_free, process_free, \* free frames of the two pools
  memory,       \* the words of every frame
  page_directory, \* its frame
  fault_address, \* the page whose access has failed and waits for the handler
  instruction,  \* the access under way: its page and, if it writes, its value
  expected,     \* for the properties: what was last written to every page
  outcome       \* "running", or why the machine has stopped

pagingVars == <<step, kernel_free, process_free, memory, page_directory, fault_address,
                instruction, expected, outcome>>

Words == 0..(EntriesPerPage - 1)
AllFrames == Words \union KernelPool \union ProcessPool
Invalid == 0
Entry(f) == f + 1        \* the frame's address with the valid bit
NoPage == -1
NoAccess == [page |-> NoPage, value |-> 0]

\* No word has been initialised, and any of them may look like a valid entry.
PagingInit ==
  /\ step = "construct"
  /\ kernel_free = KernelPool /\ process_free = ProcessPool
  /\ \E garbage \in {Invalid, Entry(0)} : memory = [f \in AllFrames |-> [w \in Words |-> garbage]]
  /\ page_directory = 0
  /\ fault_address = NoPage
  /\ instruction = NoAccess
  /\ expected = [x \in Touched |-> 0]
  /\ outcome = "running"

Lowest(pool) == CHOOSE f \in pool : \A g \in pool : f <= g

\* The assertion of get_frames(1) in the kernel pool. In the process pool it
\* does not fail, because nFreeFrames counts the hole for ever.
HasFrame == Cardinality(kernel_free) > 1

\* The constructor: a directory without valid entries but for the first one,
\* and a page table page that maps the first pages to themselves.
construct ==
  /\ step = "construct"
  /\ LET directory == Lowest(kernel_free)
         table == Lowest(kernel_free \ {directory})
     IN  /\ page_directory' = directory
         /\ kernel_free' = kernel_free \ {directory, table}
         /\ memory' = [memory EXCEPT
              ![directory] = [w \in Words |-> IF w = 0 THEN Entry(table) ELSE Invalid],
              ![table] = [w \in Words |-> Entry(w)]]
  /\ step' = "load"
  /\ UNCHANGED <<process_free, fault_address, instruction, expected, outcome>>

\* load and enable_paging: from now on every address is translated.
load_and_enable ==
  /\ step = "load"
  /\ step' = "run"
  /\ UNCHANGED <<kernel_free, process_free, memory, page_directory, fault_address, instruction,
                 expected, outcome>>

\* The CPU's translation of page x: its frame, or none.
Translation(x) ==
  LET pde == memory[page_directory][x \div EntriesPerPage]
      pte == memory[pde - 1][x % EntriesPerPage]
  IN  IF pde = Invalid \/ pte = Invalid THEN NoPage ELSE pte - 1

\* The handler reaches frame f by its physical address.
Reachable(f) == f < EntriesPerPage * EntriesPerPage /\ Translation(f) = f

Running == outcome = "running"

\* main() reads or writes a page.
accesses(x) ==
  /\ Running /\ step = "run" /\ instruction = NoAccess
  /\ \E v \in Values \union {0} : instruction' = [page |-> x, value |-> v]
  /\ UNCHANGED <<step, kernel_free, process_free, memory, page_directory, fault_address,
                 expected, outcome>>

\* The instruction completes ...
completes ==
  /\ Running /\ instruction # NoAccess /\ fault_address = NoPage
  /\ Translation(instruction.page) # NoPage
  /\ IF instruction.value = 0
     THEN UNCHANGED <<memory, expected>>
     ELSE /\ memory' = [memory EXCEPT ![Translation(instruction.page)][0] = instruction.value]
          /\ expected' = [expected EXCEPT ![instruction.page] = instruction.value]
  /\ instruction' = NoAccess
  /\ UNCHANGED <<step, kernel_free, process_free, page_directory, fault_address, outcome>>

\* ... or faults: handle_fault reads the page from CR2.
faults ==
  /\ Running /\ instruction # NoAccess /\ fault_address = NoPage
  /\ Translation(instruction.page) = NoPage
  /\ fault_address' = instruction.page
  /\ UNCHANGED <<step, kernel_free, process_free, memory, page_directory, instruction,
                 expected, outcome>>

Fails(why) ==
  /\ outcome' = why
  /\ UNCHANGED <<step, kernel_free, process_free, memory, page_directory, fault_address,
                 instruction, expected>>

Handling == Running /\ fault_address # NoPage
Missing == memory[page_directory][fault_address \div EntriesPerPage] = Invalid

\* Slip: the words of a new page table page keep what they contain.
NewTable_unset(words) == words

\* A new page table page has no valid entry.
NewTable(words) == [w \in Words |-> Invalid]

\* page_fault makes the missing page table page, in a frame of the kernel pool,
\* which is written through its own address ...
make_table ==
  /\ Handling /\ Reachable(page_directory) /\ Missing
  /\ IF ~HasFrame THEN Fails("assert")
     ELSE LET f == Lowest(kernel_free)
          IN  IF ~Reachable(f) THEN Fails("fault in handler")
              ELSE /\ kernel_free' = kernel_free \ {f}
                   /\ memory' = [memory EXCEPT
                        ![page_directory][fault_address \div EntriesPerPage] = Entry(f),
                        ![f] = NewTable(@)]
                   /\ UNCHANGED <<step, process_free, page_directory, fault_address, instruction,
                                  expected, outcome>>

\* ... and maps the page, unless it is mapped, to a frame of the process pool,
\* or, when there is none, to frame 0.
map_page ==
  /\ Handling /\ Reachable(page_directory) /\ ~Missing
  /\ LET table == memory[page_directory][fault_address \div EntriesPerPage] - 1
         w == fault_address % EntriesPerPage
         f == Lowest(process_free)
     IN  CASE ~Reachable(table) -> Fails("fault in handler")
           [] Reachable(table) /\ memory[table][w] # Invalid ->
                /\ fault_address' = NoPage
                /\ UNCHANGED <<step, kernel_free, process_free, memory, page_directory,
                               instruction, expected, outcome>>
           [] Reachable(table) /\ memory[table][w] = Invalid /\ process_free = {} ->
                Fails("frame 0")
           [] OTHER ->
                /\ process_free' = process_free \ {f}
                /\ memory' = [memory EXCEPT ![table][w] = Entry(f)]
                /\ fault_address' = NoPage
                /\ UNCHANGED <<step, kernel_free, page_directory, instruction, expected, outcome>>

stopped == ~Running /\ UNCHANGED pagingVars

PagingNext ==
  \/ construct \/ load_and_enable \/ (\E x \in Touched : accesses(x))
  \/ completes \/ faults \/ make_table \/ map_page \/ stopped

PagingSpec == PagingInit /\ [][PagingNext]_pagingVars

PagingCPU == completes \/ faults \/ make_table \/ map_page

----------------------------------------------------------------------------
\* What was written to a page is what its translation finds, wherever frames
\* come from, in whatever order pages are touched, and whatever memory contained
\* before: no page shares a frame with another one or with a page table.
MemoryHolds ==
  \A x \in Touched : expected[x] # 0 =>
    Translation(x) # NoPage /\ memory[Translation(x)][0] = expected[x]

\* Every access completes or finds a pool exhausted; the handler never faults.
AccessesComplete == instruction # NoAccess ~> (instruction = NoAccess \/ outcome \in {"assert", "frame 0"})
=============================================================================
