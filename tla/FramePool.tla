----------------------------- MODULE FramePool -----------------------------
(* The contiguous frame pools of MP2, MP3 and MP4 (cont_frame_pool.C).      *)
(* Several pools manage adjacent ranges of physical frames. Each pool keeps *)
(* two bits per frame in a bitmap that fills one frame, so the bitmap has   *)
(* Entries entries and only the first NFrames of them belong to the pool;   *)
(* the others hold whatever the memory held before. get_frames reads and    *)
(* writes those slack entries too. Pools are numbered in the order in which *)
(* main() constructs them; pool 1 keeps its bitmap in its own frame 0, the  *)
(* others in a frame taken from pool 1.                                     *)
EXTENDS Integers, FiniteSets, Sequences

CONSTANTS
  NPools,      \* number of pools main() constructs
  Base,        \* [1..NPools -> Nat]: base_frame_no
  NFrames,     \* [1..NPools -> Nat]: n_frames
  Entries,     \* bitmap entries in one frame (FRAME_SIZE * 4)
  MaxRequest,  \* bound on the argument of get_frames
  Garbage,     \* bit pairs an uninitialised bitmap may contain
  Hole         \* [1..NPools -> SUBSET Nat]: offsets that main() marks inaccessible

Pools == 1..NPools
Slots == 0..(Entries - 1)
Frames(p) == 0..(NFrames[p] - 1)
Bits == SUBSET {"used", "head"}

ASSUME PoolAssumption ==
  /\ NPools \in Nat \ {0}
  /\ Base \in [Pools -> Nat]
  /\ NFrames \in [Pools -> Nat \ {0}]
  /\ Entries \in Nat
  /\ MaxRequest \in Nat \ {0}
  /\ Garbage \subseteq Bits
  /\ Hole \in [Pools -> SUBSET Nat]

\* The constructor's assertion, with room in the bitmap for the entries that
\* get_frames reads past the pool's last frame.
ASSUME BitmapAssumption == \A p \in Pools : NFrames[p] + MaxRequest <= Entries

\* main() lays the pools out one after the other.
ASSUME LayoutAssumption ==
  \A p, q \in Pools : p < q => Base[p] + NFrames[p] <= Base[q]

ASSUME HoleAssumption == \A p \in Pools : Hole[p] \subseteq Frames(p)

VARIABLES
  bits,     \* bitmap of every pool, in bits
  nFree,    \* nFreeFrames of every pool
  list,     \* the static list of constructed pools, head first
  held,     \* allocations that a caller of get_frames still owns
  pinned,   \* the held allocations that store the bitmap of a pool
  marked,   \* pools whose hole has been marked
  aborted   \* an assertion failed: the machine loops forever

vars == <<bits, nFree, list, held, pinned, marked, aborted>>

Allocation == [pool : Pools, first : Nat, n : 1..MaxRequest]

----------------------------------------------------------------------------
(* The two bits of a frame.                                                 *)

get_state(p, f) ==
  IF "head" \in bits[p][f] THEN "HoS"
  ELSE IF "used" \in bits[p][f] THEN "Used" ELSE "Free"

\* Slip: the mask of Free clears one of the two bits only.
set_state_clears_used(b, s) ==
  CASE s = "Used" -> b \union {"used"}
    [] s = "HoS" -> b \union {"head"}
    [] s = "Free" -> b \ {"used"}

\* set_state or-s the new bit in; only Free clears.
set_state(b, s) ==
  CASE s = "Used" -> b \union {"used"}
    [] s = "HoS" -> b \union {"head"}
    [] s = "Free" -> {}

Constructed == {list[i] : i \in 1..Len(list)}

\* Slip: the last entry of the candidate is not tested.
Fits_last_untested(p, f, n) ==
  f \in Frames(p) /\ \A i \in 0..(n - 2) : get_state(p, f + i) = "Free"

\* Entry f and the n - 1 entries after it are Free. The scan of get_frames
\* bounds f by n_frames but not f + n.
Fits(p, f, n) ==
  /\ f \in Frames(p)
  /\ \A i \in 0..(n - 1) : get_state(p, f + i) = "Free"

\* Slip: the loop runs to the next Free entry, through the next heads.
Run_until_free(p, f) ==
  {g \in Slots : g >= f /\ \A i \in (f + 1)..g : get_state(p, i) # "Free"}

\* The entries that release_frame(f) frees: a head and the Used entries
\* that follow it, whoever they belong to.
Run(p, f) ==
  {g \in Slots : g >= f /\ \A i \in (f + 1)..g : get_state(p, i) = "Used"}

needed_info_frames(n) == n \div Entries + (IF n % Entries > 0 THEN 1 ELSE 0)

----------------------------------------------------------------------------
Init ==
  /\ bits \in [Pools -> [Slots -> Garbage]]
  /\ nFree = [p \in Pools |-> 0]
  /\ list = <<>>
  /\ held = {}
  /\ pinned = {}
  /\ marked = {}
  /\ aborted = FALSE

\* ContFramePool(base, n, info): the last pool of the list gets a successor.
\* Pool 1 is given info frame 0 and takes its own first frame.
Construct(p) ==
  /\ p = Len(list) + 1
  /\ Cardinality(pinned) = p - 1
  /\ bits' = [bits EXCEPT ![p] = [f \in Slots |->
        IF p = 1 /\ f = 0 THEN set_state(set_state(@[f], "Free"), "HoS")
        ELSE IF f \in Frames(p) THEN set_state(@[f], "Free")
        ELSE @[f]]]
  /\ nFree' = [nFree EXCEPT ![p] = IF p = 1 THEN NFrames[p] - 1 ELSE NFrames[p]]
  /\ list' = Append(list, p)
  /\ UNCHANGED <<held, pinned, marked, aborted>>

\* The assertion of get_frames.
HasFree(p, n) == nFree[p] > n

\* A successful first-fit search. When the search fails get_frames returns 0
\* and changes nothing.
Take(p, f, n) ==
  /\ HasFree(p, n)
  /\ Fits(p, f, n)
  /\ \A g \in Frames(p) : g < f => ~Fits(p, g, n)
  /\ bits' = [bits EXCEPT ![p] = [g \in Slots |->
        IF g = f THEN set_state(@[g], "HoS")
        ELSE IF g \in (f + 1)..(f + n - 1) THEN set_state(@[g], "Used")
        ELSE @[g]]]
  /\ nFree' = [nFree EXCEPT ![p] = @ - n]
  /\ held' = held \union {[pool |-> p, first |-> f, n |-> n]}
  /\ UNCHANGED <<list, marked, aborted>>

GetFrames(p, n) ==
  /\ \E f \in Frames(p) : Take(p, f, n)
  /\ pinned' = pinned

\* main() lets callers use a pool once its hole is marked.
Usable == {p \in Constructed : Hole[p] = {} \/ p \in marked}

\* main() takes the bitmap frame of the next pool from pool 1.
AllocateInfo(p) ==
  LET n == needed_info_frames(NFrames[p])
  IN  /\ p = Len(list) + 1 /\ p > 1
      /\ Cardinality(pinned) = p - 2
      /\ 1 \in Usable
      /\ \E f \in Frames(1) :
           /\ Take(1, f, n)
           /\ pinned' = pinned \union {[pool |-> 1, first |-> f, n |-> n]}

\* The assertion at the top of get_frames fails.
AssertFree(p, n) ==
  /\ ~HasFree(p, n)
  /\ aborted' = TRUE
  /\ UNCHANGED <<bits, nFree, list, held, pinned, marked>>

\* mark_inaccessible, which main() calls once on a pool with a hole, before
\* anybody uses the pool. nFreeFrames stays as it is.
MarkInaccessible(p) ==
  /\ Hole[p] # {} /\ p \notin marked
  /\ bits' = [bits EXCEPT ![p] = [f \in Slots |->
        IF f \in Hole[p] THEN set_state(@[f], "HoS") ELSE @[f]]]
  /\ marked' = marked \union {p}
  /\ UNCHANGED <<nFree, list, held, pinned, aborted>>

\* The pool that release_frames finds for frame number x: the first one of
\* the list whose range contains x, where base + n counts as inside.
Claims(p, x) == Base[p] <= x /\ x <= Base[p] + NFrames[p]

Owner(p, x) ==
  \E i \in 1..Len(list) :
    /\ list[i] = p
    /\ Claims(p, x)
    /\ \A j \in 1..(i - 1) : ~Claims(list[j], x)

\* release_frame of pool p, for the entry at index f.
ReleaseIn(p, f) ==
  IF get_state(p, f) = "HoS"
    THEN /\ bits' = [bits EXCEPT ![p] = [g \in Slots |->
               IF g \in Run(p, f) THEN set_state(@[g], "Free") ELSE @[g]]]
         /\ nFree' = [nFree EXCEPT ![p] = @ + Cardinality(Run(p, f))]
    ELSE UNCHANGED <<bits, nFree>>

\* release_frames, called by the owner of an allocation with the number of
\* its first frame.
FrameNo(a) == Base[a.pool] + a.first

ReleaseFrames(a) ==
  /\ \E p \in Constructed :
       Owner(p, FrameNo(a)) /\ ReleaseIn(p, FrameNo(a) - Base[p])
  /\ held' = held \ {a}
  /\ UNCHANGED <<list, pinned, marked, aborted>>

\* abort() is an endless loop.
Halted == aborted /\ UNCHANGED vars

Next ==
  \/ /\ ~aborted
     /\ \/ \E p \in Pools : Construct(p) \/ AllocateInfo(p)
        \/ \E p \in Constructed : MarkInaccessible(p)
        \/ \E p \in Usable, n \in 1..MaxRequest : GetFrames(p, n) \/ AssertFree(p, n)
        \/ \E a \in held \ pinned : ReleaseFrames(a)
  \/ Halted

Spec == Init /\ [][Next]_vars

----------------------------------------------------------------------------
\* Every variable stays in its domain; in particular the unsigned counter
\* nFreeFrames never goes below zero.
TypeOK ==
  /\ bits \in [Pools -> [Slots -> Bits]]
  /\ nFree \in [Pools -> Nat]
  /\ list \in Seq(Pools)
  /\ held \subseteq Allocation
  /\ pinned \subseteq held
  /\ marked \subseteq Pools
  /\ aborted \in BOOLEAN

Extent(a) == a.first..(a.first + a.n - 1)

\* An allocation that is still held keeps its marks: a head on its first
\* entry, Used on the rest. No release of another allocation, and no search
\* over slack entries with arbitrary contents, disturbs them.
HeldIntact ==
  \A a \in held : \A f \in Extent(a) :
    get_state(a.pool, f) = IF f = a.first THEN "HoS" ELSE "Used"

\* get_frames never hands out an entry of an allocation that is still held.
NoDoubleAllocation ==
  \A a, b \in held : a # b /\ a.pool = b.pool => Extent(a) \cap Extent(b) = {}

\* The bitmap of pool 1 and the hole are never handed out, and never become
\* Free again.
Reserved(p) ==
  (IF p = 1 /\ 1 \in Constructed THEN {0} ELSE {})
    \union (IF p \in marked THEN Hole[p] ELSE {})

ReservedNeverGiven ==
  /\ \A a \in held : Extent(a) \cap Reserved(a.pool) = {}
  /\ \A p \in Pools : \A f \in Reserved(p) : get_state(p, f) = "HoS"

\* Every entry that is not Free is accounted for: it is reserved, held, or it
\* belongs to a run that starts at the first entry of a pool whose base is
\* the end of an earlier pool. Releasing such a run is sent to the wrong pool.
Adjacent(p) == \E q \in Constructed : q < p /\ Base[p] = Base[q] + NFrames[q]

OnlyBoundaryLeak ==
  \A p \in Constructed : \A f \in Frames(p) :
    \/ get_state(p, f) = "Free"
    \/ f \in Reserved(p)
    \/ \E a \in held : a.pool = p /\ f \in Extent(a)
    \/ Adjacent(p) /\ f < MaxRequest /\ \A g \in 0..f : get_state(p, g) # "Free"

\* cont_frame_pool.H: a pool manages the frames base .. base + n - 1 only. The
\* search of get_frames does not keep to it.
AllocationsInsidePool == \A a \in held : Extent(a) \subseteq Frames(a.pool)
=============================================================================
