-------------------------- MODULE FramePoolProofs --------------------------
(* Proofs about FramePool, for every number and size of pools, every hole   *)
(* and every contents of uninitialised bitmap memory.                       *)
EXTENDS PagingFrames, FiniteSetTheorems, TLAPS

\* What the bitmap invariants need besides themselves: the list holds the
\* pools in order, and allocations start inside a constructed pool.
ListInOrder == list = [i \in 1..Len(list) |-> i]

StartsInPool ==
  \A a \in held : a.pool \in 1..Len(list) /\ a.first \in Frames(a.pool)

\* Nobody is given a frame of a pool before its hole is marked.
HeldIsUsable == \A a \in held : a.pool \in Usable

MarkedConstructed == marked \subseteq 1..Len(list)

IInv ==
  /\ TypeOK
  /\ ListInOrder
  /\ StartsInPool
  /\ HeldIsUsable
  /\ MarkedConstructed
  /\ HeldIntact
  /\ NoDoubleAllocation
  /\ ReservedNeverGiven

\* A pool's bitmap is smaller than a frame, so it always takes one frame.
LEMMA OneInfoFrame == \A p \in Pools : needed_info_frames(NFrames[p]) = 1
<1> SUFFICES ASSUME NEW p \in Pools PROVE needed_info_frames(NFrames[p]) = 1
  OBVIOUS
<1>1. NFrames[p] \in Nat \ {0} /\ Entries \in Nat /\ NFrames[p] < Entries
  BY PoolAssumption, BitmapAssumption DEF Pools
<1>2. \A x, e \in Nat : x < e /\ x > 0 => x \div e = 0 /\ x % e = x
  OBVIOUS
<1> QED BY <1>1, <1>2 DEF needed_info_frames

\* In order, the constructed pools are the first Len(list) ones.
LEMMA ConstructedPools ==
  ASSUME TypeOK, ListInOrder
  PROVE  /\ Len(list) \in Nat
         /\ Constructed = 1..Len(list)
         /\ Constructed \subseteq Pools
         /\ \A k \in 1..Len(list) : list[k] = k
<1>1. Len(list) \in Nat /\ \A k \in 1..Len(list) : list[k] \in Pools
  <2>1. list \in Seq(Pools)
    BY DEF TypeOK
  <2>2. \A S : \A s \in Seq(S) : Len(s) \in Nat /\ \A k \in 1..Len(s) : s[k] \in S
    OBVIOUS
  <2> QED BY <2>1, <2>2
<1>2. \A k \in 1..Len(list) : list[k] = k
  BY <1>1 DEF ListInOrder
<1> QED BY <1>1, <1>2 DEF Constructed

THEOREM InitIInv == Init => IInv
<1> SUFFICES ASSUME Init PROVE IInv
  OBVIOUS
<1>1. TypeOK
  <2>1. bits \in [Pools -> [Slots -> Bits]]
    <3>1. [Slots -> Garbage] \subseteq [Slots -> Bits]
      BY PoolAssumption
    <3> QED BY <3>1 DEF Init
  <2>2. nFree \in [Pools -> Nat]
    BY DEF Init
  <2>3. <<>> \in Seq(Pools)
    OBVIOUS
  <2> QED BY <2>1, <2>2, <2>3 DEF Init, TypeOK
<1>2. Constructed = {}
  BY DEF Init, Constructed
<1>3. ListInOrder
  BY DEF Init, ListInOrder
<1> QED
  BY <1>1, <1>2, <1>3 DEF Init, IInv, StartsInPool, HeldIsUsable, MarkedConstructed, HeldIntact,
     NoDoubleAllocation, ReservedNeverGiven, Reserved

\* The states that set_state leaves, read back by get_state's test.
LEMMA SetStateBits ==
  \A b \in Bits : /\ set_state(b, "Free") = {}
                  /\ set_state(b, "HoS") = b \union {"head"}
                  /\ set_state(b, "Used") = b \union {"used"}
                  /\ set_state(b, "HoS") \in Bits
                  /\ set_state(b, "Used") \in Bits
                  /\ set_state(b, "Free") \in Bits
BY DEF set_state, Bits

\* Every held allocation and every reservation lies inside the bitmap.
LEMMA InBitmap ==
  ASSUME TypeOK, StartsInPool, MarkedConstructed, ListInOrder
  PROVE  /\ \A a \in held : /\ a.pool \in Pools /\ a.first \in Nat
                             /\ a.n \in Nat \ {0}
                             /\ Extent(a) \subseteq Slots
         /\ \A p \in Pools : Reserved(p) \subseteq Frames(p)
         /\ \A p \in Pools : Frames(p) \subseteq Slots
<1>1. \A p \in Pools : Frames(p) \subseteq Slots
  BY PoolAssumption, BitmapAssumption DEF Frames, Slots
<1>2. \A p \in Pools : 0 \in Frames(p)
  BY PoolAssumption DEF Frames
<1>3. \A p \in Pools : Reserved(p) \subseteq Frames(p)
  BY <1>2, HoleAssumption DEF Reserved
<1>4. ASSUME NEW a \in held
      PROVE  /\ a.pool \in Pools /\ a.first \in Nat
             /\ a.n \in Nat \ {0}
             /\ Extent(a) \subseteq Slots
  <2>1. a \in Allocation /\ a.first \in Frames(a.pool)
    BY DEF TypeOK, StartsInPool
  <2>2. a.pool \in Pools /\ a.first \in Nat /\ a.n \in 1..MaxRequest
    BY <2>1 DEF Allocation
  <2>3. NFrames[a.pool] \in Nat /\ MaxRequest \in Nat /\ Entries \in Nat
        /\ NFrames[a.pool] + MaxRequest <= Entries
    BY <2>2, PoolAssumption, BitmapAssumption
  <2>4. a.first <= NFrames[a.pool] - 1
    BY <2>1, <2>2, <2>3 DEF Frames
  <2> QED BY <2>2, <2>3, <2>4 DEF Extent, Slots
<1> QED BY <1>1, <1>3, <1>4

\* Constructing the next pool clears its own entries; nobody holds any of
\* them yet, because allocations lie in pools already constructed.
LEMMA ConstructIInv ==
  ASSUME IInv, NEW p \in Pools, Construct(p)
  PROVE  IInv'
<1> USE DEF IInv
<1>1. p = Len(list) + 1 /\ list' = Append(list, p) /\ Len(list) \in Nat
      /\ list \in Seq(Pools)
  BY ConstructedPools DEF Construct, TypeOK
<1>2. Len(list') = Len(list) + 1 /\ \A k \in 1..Len(list') : list'[k] = k
  BY <1>1, ConstructedPools
<1>3. bits' \in [Pools -> [Slots -> Bits]]
  <2>1. \A f \in Slots : bits[p][f] \in Bits
    BY DEF TypeOK
  <2>2. [f \in Slots |->
        IF p = 1 /\ f = 0 THEN set_state(set_state(bits[p][f], "Free"), "HoS")
        ELSE IF f \in Frames(p) THEN set_state(bits[p][f], "Free")
        ELSE bits[p][f]] \in [Slots -> Bits]
    <3>1. 0 \in Frames(p)
      BY PoolAssumption DEF Frames
    <3> QED BY <2>1, <3>1, SetStateBits
  <2> QED BY <2>2 DEF Construct, TypeOK
<1>4. TypeOK'
  <2>1. nFree' \in [Pools -> Nat]
    <3>1. NFrames[p] \in Nat \ {0}
      BY PoolAssumption
    <3> QED BY <3>1 DEF Construct, TypeOK
  <2>2. list' \in Seq(Pools)
    BY <1>1
  <2> QED BY <1>3, <2>1, <2>2 DEF Construct, TypeOK
<1>5. ListInOrder'
  <2>1. list' \in Seq(Pools)
    BY <1>1
  <2> QED BY <1>2, <2>1 DEF ListInOrder
<1>6. StartsInPool' /\ MarkedConstructed'
  BY <1>1, <1>2 DEF StartsInPool, MarkedConstructed, Construct
<1>12. HeldIsUsable'
  <2>1. Constructed \subseteq Constructed'
    BY <1>1, <1>2, <1>4, <1>5, ConstructedPools DEF Constructed
  <2> QED BY <2>1 DEF HeldIsUsable, Usable, Construct
<1>7. \A q \in Pools, g \in Slots : q # p => get_state(q, g)' = get_state(q, g)
  BY DEF Construct, get_state, TypeOK
<1>8. \A a \in held : a.pool # p
  BY <1>1 DEF StartsInPool
<1>9. HeldIntact'
  <2> SUFFICES ASSUME NEW a \in held, NEW f \in Extent(a)
               PROVE  get_state(a.pool, f)' = IF f = a.first THEN "HoS" ELSE "Used"
    BY DEF HeldIntact, Construct, Extent
  <2>1. a.pool \in Pools /\ f \in Slots
    BY InBitmap
  <2> QED BY <2>1, <1>7, <1>8 DEF HeldIntact
<1>10. NoDoubleAllocation'
  BY DEF NoDoubleAllocation, Construct, Extent
<1>11. ReservedNeverGiven'
  <2>1. Constructed = 1..Len(list) /\ Constructed' = 1..(Len(list) + 1)
    BY <1>1, <1>2, <1>4, <1>5, ConstructedPools DEF Constructed
  <2>2. \A q \in Pools : q # p => Reserved(q)' = Reserved(q)
    BY <2>1, <1>1 DEF Reserved, Construct
  <2>3. Reserved(p)' = IF p = 1 THEN {0} ELSE {}
    BY <2>1, <1>1 DEF Reserved, Construct, MarkedConstructed
  <2>4. p = 1 => get_state(p, 0)' = "HoS"
    <3>1. 0 \in Frames(p) /\ 0 \in Slots
      BY PoolAssumption, BitmapAssumption DEF Frames, Slots
    <3>2. p = 1 => bits'[p][0] = set_state(set_state(bits[p][0], "Free"), "HoS")
      BY <3>1 DEF Construct, TypeOK
    <3>3. bits[p][0] \in Bits
      BY <3>1 DEF TypeOK
    <3>4. p = 1 => bits'[p][0] = {"head"}
      BY <3>2, <3>3, SetStateBits DEF Bits
    <3> QED BY <3>4 DEF get_state
  <2>5. \A q \in Pools : \A f \in Reserved(q)' : get_state(q, f)' = "HoS"
    <3> SUFFICES ASSUME NEW q \in Pools, NEW f \in Reserved(q)'
                 PROVE  get_state(q, f)' = "HoS"
      OBVIOUS
    <3>1. CASE q = p
      BY <3>1, <2>3, <2>4
    <3>2. CASE q # p
      BY <3>2, <2>2, <1>7, InBitmap DEF ReservedNeverGiven
    <3> QED BY <3>1, <3>2
  <2>6. \A a \in held' : Extent(a)' \cap Reserved(a.pool)' = {}
    BY <2>2, <1>8, InBitmap DEF ReservedNeverGiven, Construct, Extent
  <2> QED BY <2>5, <2>6 DEF ReservedNeverGiven
<1> QED BY <1>4, <1>5, <1>6, <1>9, <1>10, <1>11, <1>12

\* A successful get_frames marks entries that were Free, so none of them was
\* held or reserved.
LEMMA TakeIInv ==
  ASSUME IInv, NEW p \in Usable, NEW f \in Frames(p), NEW n \in 1..MaxRequest,
         Take(p, f, n), pinned' \subseteq held'
  PROVE  IInv'
<1> USE DEF IInv
<1> DEFINE new == [pool |-> p, first |-> f, n |-> n]
           Taken == f..(f + n - 1)
<1>1. p \in Pools /\ p \in 1..Len(list) /\ f \in Nat /\ n \in Nat \ {0}
  BY ConstructedPools, PoolAssumption DEF Frames, Usable
<1>2. Taken \subseteq Slots
  BY <1>1, PoolAssumption, BitmapAssumption DEF Frames, Slots
<1>3. new \in Allocation /\ Extent(new) = Taken
  BY <1>1 DEF Allocation, Extent
<1>4. \A g \in Taken : get_state(p, g) = "Free" /\ bits[p][g] = {}
  <2> SUFFICES ASSUME NEW g \in Taken
               PROVE  get_state(p, g) = "Free" /\ bits[p][g] = {}
    OBVIOUS
  <2>1. g - f \in 0..(n - 1) /\ f + (g - f) = g
    BY <1>1
  <2>2. get_state(p, g) = "Free"
    BY <2>1 DEF Take, Fits
  <2>3. bits[p][g] \in Bits
    BY <1>1, <1>2 DEF TypeOK
  <2> QED BY <2>2, <2>3 DEF get_state, Bits
<1>5. \A q \in Pools, g \in Slots : ~(q = p /\ g \in Taken) => bits'[q][g] = bits[q][g]
  BY <1>1 DEF Take, TypeOK
<1>6. \A g \in Taken : bits'[p][g] = IF g = f THEN {"head"} ELSE {"used"}
  <2> SUFFICES ASSUME NEW g \in Taken
               PROVE  bits'[p][g] = IF g = f THEN {"head"} ELSE {"used"}
    OBVIOUS
  <2>1. g = f \/ (g # f /\ g \in (f + 1)..(f + n - 1))
    BY <1>1
  <2>2. {} \in Bits
    BY DEF Bits
  <2>3. set_state({}, "HoS") = {"head"} /\ set_state({}, "Used") = {"used"}
    BY <2>2, SetStateBits
  <2> QED BY <1>1, <1>2, <1>4, <2>1, <2>3 DEF Take, TypeOK
<1>7. TypeOK'
  <2>1. bits' \in [Pools -> [Slots -> Bits]]
    <3> DEFINE new_map == [g \in Slots |->
                IF g = f THEN set_state(bits[p][g], "HoS")
                ELSE IF g \in (f + 1)..(f + n - 1) THEN set_state(bits[p][g], "Used")
                ELSE bits[p][g]]
    <3>1. new_map \in [Slots -> Bits]
      <4> SUFFICES ASSUME NEW g \in Slots PROVE new_map[g] \in Bits
        OBVIOUS
      <4>1. bits[p][g] \in Bits
        BY <1>1 DEF TypeOK
      <4> QED BY <4>1, SetStateBits
    <3>2. bits' = [bits EXCEPT ![p] = new_map]
      BY DEF Take
    <3> QED BY <3>1, <3>2 DEF TypeOK
  <2>2. nFree' \in [Pools -> Nat]
    BY <1>1 DEF Take, HasFree, TypeOK
  <2> QED BY <2>1, <2>2, <1>3 DEF Take, TypeOK
<1>8. ListInOrder' /\ StartsInPool' /\ MarkedConstructed'
  BY <1>1 DEF ListInOrder, StartsInPool, MarkedConstructed, Take
<1>14. HeldIsUsable'
  BY DEF HeldIsUsable, Usable, Constructed, Take
<1>9. \A a \in held : a.pool = p => Extent(a) \cap Taken = {}
  BY <1>4 DEF HeldIntact
<1>10. \A q \in Pools, g \in Slots :
          ~(q = p /\ g \in Taken) => get_state(q, g)' = get_state(q, g)
  BY <1>5 DEF get_state
<1>11. HeldIntact'
  <2> SUFFICES ASSUME NEW a \in held', NEW g \in Extent(a)
               PROVE  get_state(a.pool, g)' = IF g = a.first THEN "HoS" ELSE "Used"
    BY DEF HeldIntact, Extent
  <2>1. CASE a = new
    BY <2>1, <1>3, <1>6 DEF get_state
  <2>2. CASE a # new
    <3>1. a \in held
      BY <2>2 DEF Take
    <3>2. a.pool \in Pools /\ g \in Slots
      BY <3>1, InBitmap
    <3> QED BY <3>1, <3>2, <1>9, <1>10 DEF HeldIntact
  <2> QED BY <2>1, <2>2
<1>12. NoDoubleAllocation'
  BY <1>3, <1>9 DEF NoDoubleAllocation, Take, Extent
<1>13. ReservedNeverGiven'
  <2>1. \A q \in Pools : Reserved(q)' = Reserved(q)
    BY DEF Reserved, Constructed, Take
  <2>2. Reserved(p) \cap Taken = {}
    BY <1>1, <1>4 DEF ReservedNeverGiven
  <2>3. \A q \in Pools : \A g \in Reserved(q)' : get_state(q, g)' = "HoS"
    BY <2>1, <2>2, <1>10, InBitmap DEF ReservedNeverGiven
  <2>4. \A a \in held' : Extent(a) \cap Reserved(a.pool)' = {}
    <3> SUFFICES ASSUME NEW a \in held' PROVE Extent(a) \cap Reserved(a.pool)' = {}
      OBVIOUS
    <3>1. CASE a = new
      BY <3>1, <1>1, <1>3, <2>1, <2>2
    <3>2. CASE a # new
      BY <3>2, <2>1, InBitmap DEF Take, ReservedNeverGiven
    <3> QED BY <3>1, <3>2
  <2> QED BY <2>3, <2>4 DEF ReservedNeverGiven, Extent
<1> QED BY <1>7, <1>8, <1>11, <1>12, <1>13, <1>14

\* The hole is marked before the pool is used, so nothing held lies in it:
\* this is the one step that needs main()'s order of calls.
LEMMA MarkIInv ==
  ASSUME IInv, NEW p \in Constructed, MarkInaccessible(p)
  PROVE  IInv'
<1> USE DEF IInv
<1>1. p \in Pools /\ p \in 1..Len(list) /\ Hole[p] \subseteq Slots
  BY ConstructedPools, HoleAssumption, InBitmap
<1>2. \A q \in Pools, g \in Slots :
        ~(q = p /\ g \in Hole[p]) => get_state(q, g)' = get_state(q, g)
  BY <1>1 DEF MarkInaccessible, TypeOK, get_state
<1>3. \A g \in Hole[p] : get_state(p, g)' = "HoS"
  <2> SUFFICES ASSUME NEW g \in Hole[p] PROVE get_state(p, g)' = "HoS"
    OBVIOUS
  <2>1. bits[p][g] \in Bits
    BY <1>1 DEF TypeOK
  <2>2. bits'[p][g] = bits[p][g] \union {"head"}
    BY <1>1, <2>1, SetStateBits DEF MarkInaccessible, TypeOK
  <2> QED BY <2>2 DEF get_state
<1>4. TypeOK'
  <2>1. [f \in Slots |-> IF f \in Hole[p] THEN set_state(bits[p][f], "HoS")
                                           ELSE bits[p][f]] \in [Slots -> Bits]
    <3>1. \A f \in Slots : bits[p][f] \in Bits
      BY <1>1 DEF TypeOK
    <3> QED BY <3>1, SetStateBits
  <2> QED BY <1>1, <2>1 DEF MarkInaccessible, TypeOK
<1>5. ListInOrder' /\ StartsInPool' /\ MarkedConstructed'
  BY <1>1 DEF ListInOrder, StartsInPool, MarkedConstructed, MarkInaccessible
<1>10. \A a \in held : a.pool # p
  BY DEF HeldIsUsable, Usable, MarkInaccessible
<1>11. HeldIsUsable'
  BY DEF HeldIsUsable, Usable, Constructed, MarkInaccessible
<1>6. HeldIntact'
  BY <1>2, <1>10, InBitmap DEF HeldIntact, MarkInaccessible, Extent
<1>7. NoDoubleAllocation'
  BY DEF NoDoubleAllocation, MarkInaccessible, Extent
<1>8. Reserved(p)' = Reserved(p) \union Hole[p]
      /\ \A q \in Pools : q # p => Reserved(q)' = Reserved(q)
  BY DEF Reserved, Constructed, MarkInaccessible
<1>9. ReservedNeverGiven'
  <2>1. \A q \in Pools : \A g \in Reserved(q)' : get_state(q, g)' = "HoS"
    BY <1>1, <1>2, <1>3, <1>8, InBitmap DEF ReservedNeverGiven
  <2>2. \A a \in held' : Extent(a) \cap Reserved(a.pool)' = {}
    BY <1>8, <1>10, InBitmap DEF ReservedNeverGiven, MarkInaccessible
  <2> QED BY <2>1, <2>2 DEF ReservedNeverGiven, Extent
<1> QED BY <1>4, <1>5, <1>6, <1>7, <1>9, <1>11

\* release_frame frees a run of entries that meets no allocation held by
\* anybody else and no reservation, even when release_frames has picked the
\* wrong pool: the run then starts at the pool's first slack entry.
LEMMA RunIsPrivate ==
  ASSUME IInv, NEW a \in held \ pinned, NEW p \in Constructed,
         Owner(p, FrameNo(a)),
         NEW f, f = FrameNo(a) - Base[p],
         get_state(p, f) = "HoS"
  PROVE  /\ f \in 0..NFrames[p] /\ f \in Slots
         /\ \A b \in held \ {a} : b.pool = p => Extent(b) \cap Run(p, f) = {}
         /\ Reserved(p) \cap Run(p, f) = {}
<1> USE DEF IInv, FrameNo
<1>1. p \in Pools /\ a \in held /\ a.pool \in Pools /\ a.first \in Frames(a.pool)
      /\ Base[p] \in Nat /\ Base[a.pool] \in Nat
      /\ NFrames[p] \in Nat /\ NFrames[a.pool] \in Nat
  BY ConstructedPools, InBitmap, PoolAssumption DEF StartsInPool
<1>2. f \in 0..NFrames[p]
  <2>1. Claims(p, FrameNo(a))
    BY DEF Owner
  <2>2. a.first \in Nat
    BY <1>1 DEF Frames
  <2> QED BY <1>1, <2>1, <2>2 DEF Claims
<1>3. f \in Slots
  BY <1>1, <1>2, PoolAssumption, BitmapAssumption DEF Slots
<1>4. p # a.pool => f = NFrames[p]
  <2> SUFFICES ASSUME p # a.pool PROVE f = NFrames[p]
    OBVIOUS
  <2>1. p < a.pool \/ a.pool < p
    BY <1>1 DEF Pools
  <2>2. a.first < NFrames[a.pool] /\ a.first \in Nat
    BY <1>1 DEF Frames
  <2>3. CASE p < a.pool
    BY <2>3, <2>2, <1>1, <1>2, LayoutAssumption
  <2>4. CASE a.pool < p
    BY <2>4, <2>2, <1>1, <1>2, LayoutAssumption
  <2> QED BY <2>1, <2>3, <2>4
<1>5. p = a.pool => f = a.first
  BY <1>1 DEF Frames
<1>6. \A g \in Run(p, f) : g \in Int /\ g >= f /\ (g # f => get_state(p, g) = "Used")
  BY <1>1, <1>2 DEF Run, Slots
<1>7. ASSUME NEW b \in held \ {a}, b.pool = p, NEW g \in Extent(b), g \in Run(p, f)
      PROVE  FALSE
  <2>1. b.first \in Frames(p) /\ b.first \in Nat /\ b.n \in Nat /\ b.first <= g
    BY <1>7, <1>6, InBitmap DEF StartsInPool, Extent
  <2>2. b.first \in Extent(b) /\ get_state(p, b.first) = "HoS"
    BY <1>7, <2>1, InBitmap DEF HeldIntact, Extent
  <2>3. CASE b.first > f
    <3>1. b.first \in (f + 1)..g
      BY <2>1, <2>3, <1>2, <1>6, <1>7
    <3> QED BY <3>1, <2>2, <1>7 DEF Run
  <2>4. CASE b.first <= f
    <3>1. f \in Extent(b)
      BY <2>1, <2>4, <1>2, <1>6, <1>7 DEF Extent
    <3>2. f = b.first
      BY <3>1, <1>7 DEF HeldIntact
    <3>3. p = a.pool
      BY <3>2, <2>1, <1>1, <1>4 DEF Frames
    <3>4. a.first \in Extent(a)
      BY <1>1, InBitmap DEF Extent
    <3> QED BY <3>1, <3>3, <3>4, <1>5, <1>7 DEF NoDoubleAllocation
  <2> QED BY <2>1, <2>3, <2>4, <1>2
<1>8. ASSUME NEW g \in Reserved(p), g \in Run(p, f)
      PROVE  FALSE
  <2>1. get_state(p, g) = "HoS" /\ g \in Frames(p)
    BY <1>1, InBitmap DEF ReservedNeverGiven
  <2>2. g = f
    BY <2>1, <1>6, <1>8
  <2>3. p = a.pool
    BY <2>1, <2>2, <1>1, <1>4 DEF Frames
  <2>4. a.first \in Extent(a)
    BY <1>1, InBitmap DEF Extent
  <2> QED BY <2>2, <2>3, <2>4, <1>1, <1>5, <1>8 DEF ReservedNeverGiven
<1> QED BY <1>2, <1>3, <1>7, <1>8

LEMMA ReleaseIInv ==
  ASSUME IInv, NEW a \in held \ pinned, ReleaseFrames(a)
  PROVE  IInv'
<1> USE DEF IInv
<1>1. PICK p \in Constructed :
        Owner(p, FrameNo(a)) /\ ReleaseIn(p, FrameNo(a) - Base[p])
  BY DEF ReleaseFrames
<1>6. PICK f : f = FrameNo(a) - Base[p]
  OBVIOUS
<1>2. p \in Pools /\ held' \subseteq held /\ pinned \subseteq held'
  BY ConstructedPools DEF ReleaseFrames, TypeOK
<1>3. UNCHANGED <<list, pinned, marked, aborted>> /\ held' = held \ {a}
  BY DEF ReleaseFrames
<1>4. CASE get_state(p, f) = "HoS"
  <2> DEFINE freed == Run(p, f)
  <2>1. /\ f \in 0..NFrames[p] /\ f \in Slots
        /\ \A b \in held \ {a} : b.pool = p => Extent(b) \cap freed = {}
        /\ Reserved(p) \cap freed = {}
    BY <1>1, <1>4, <1>6, RunIsPrivate
  <2>2. bits' = [bits EXCEPT ![p] = [g \in Slots |->
               IF g \in freed THEN set_state(bits[p][g], "Free") ELSE bits[p][g]]]
        /\ nFree' = [nFree EXCEPT ![p] = nFree[p] + Cardinality(freed)]
    BY <1>1, <1>4, <1>6 DEF ReleaseIn
  <2> HIDE DEF freed
  <2>3. TypeOK'
    <3>1. [g \in Slots |->
               IF g \in freed THEN set_state(bits[p][g], "Free") ELSE bits[p][g]]
            \in [Slots -> Bits]
      <4>1. \A g \in Slots : bits[p][g] \in Bits
        BY <1>2 DEF TypeOK
      <4> QED BY <4>1, SetStateBits
    <3>2. Cardinality(freed) \in Nat
      <4>1. IsFiniteSet(Slots)
        BY FS_Interval, PoolAssumption DEF Slots
      <4>2. freed \subseteq Slots
        BY DEF freed, Run
      <4> QED BY <4>1, <4>2, FS_Subset, FS_CardinalityType
    <3> QED BY <1>2, <1>3, <2>2, <3>1, <3>2 DEF TypeOK
  <2>4. \A q \in Pools, g \in Slots :
          ~(q = p /\ g \in freed) => get_state(q, g)' = get_state(q, g)
    BY <1>2, <2>2 DEF TypeOK, get_state
  <2>5. HeldIntact'
    BY <1>2, <1>3, <2>1, <2>4, InBitmap DEF HeldIntact, Extent
  <2>6. ReservedNeverGiven'
    <3>1. \A q \in Pools : Reserved(q)' = Reserved(q)
      BY <1>3 DEF Reserved, Constructed
    <3>2. \A q \in Pools : \A g \in Reserved(q)' : get_state(q, g)' = "HoS"
      <4> SUFFICES ASSUME NEW q \in Pools, NEW g \in Reserved(q)
                   PROVE  get_state(q, g)' = "HoS"
        BY <3>1
      <4>1. g \in Slots /\ get_state(q, g) = "HoS"
        BY InBitmap DEF ReservedNeverGiven
      <4>2. ~(q = p /\ g \in freed)
        BY <2>1
      <4> QED BY <4>1, <4>2, <2>4
    <3>3. \A b \in held' : Extent(b) \cap Reserved(b.pool)' = {}
      BY <3>1, <1>2, InBitmap DEF ReservedNeverGiven
    <3> QED BY <3>2, <3>3 DEF ReservedNeverGiven, Extent
  <2>7. ListInOrder' /\ StartsInPool' /\ MarkedConstructed' /\ HeldIsUsable'
    BY <1>2, <1>3 DEF ListInOrder, StartsInPool, MarkedConstructed, HeldIsUsable,
       Usable, Constructed
  <2>8. NoDoubleAllocation'
    BY <1>2 DEF NoDoubleAllocation, Extent
  <2> QED BY <2>3, <2>5, <2>6, <2>7, <2>8
<1>5. CASE get_state(p, f) # "HoS"
  <2>1. UNCHANGED <<bits, nFree>>
    BY <1>1, <1>5, <1>6 DEF ReleaseIn
  <2> QED
    BY <1>2, <1>3, <2>1 DEF TypeOK, ListInOrder, StartsInPool, MarkedConstructed,
       HeldIsUsable, Usable, Constructed, HeldIntact, Extent, get_state,
       NoDoubleAllocation, ReservedNeverGiven, Reserved
<1> QED BY <1>4, <1>5

THEOREM NextIInv == IInv /\ [Next]_vars => IInv'
<1> SUFFICES ASSUME IInv, [Next]_vars PROVE IInv'
  OBVIOUS
<1>1. ASSUME NEW p \in Pools, Construct(p) PROVE IInv'
  BY <1>1, ConstructIInv
<1>2. ASSUME NEW p \in Pools, AllocateInfo(p) PROVE IInv'
  <2>1. needed_info_frames(NFrames[p]) = 1
    BY OneInfoFrame
  <2>2. PICK f \in Frames(1) : /\ Take(1, f, 1)
                              /\ pinned' = pinned \union {[pool |-> 1, first |-> f, n |-> 1]}
    BY <1>2, <2>1 DEF AllocateInfo
  <2>3. 1 \in Usable /\ 1 \in 1..MaxRequest
    BY <1>2, PoolAssumption DEF AllocateInfo
  <2>4. pinned' \subseteq held'
    BY <2>2 DEF Take, IInv, TypeOK
  <2> QED BY <2>2, <2>3, <2>4, TakeIInv
<1>3. ASSUME NEW p \in Constructed, MarkInaccessible(p) PROVE IInv'
  BY <1>3, MarkIInv
<1>4. ASSUME NEW p \in Usable, NEW n \in 1..MaxRequest, GetFrames(p, n) PROVE IInv'
  <2>1. PICK f \in Frames(p) : Take(p, f, n)
    BY <1>4 DEF GetFrames
  <2>2. pinned' \subseteq held'
    BY <1>4, <2>1 DEF GetFrames, Take, IInv, TypeOK
  <2> QED BY <2>1, <2>2, TakeIInv
<1>5. ASSUME UNCHANGED <<bits, nFree, list, held, pinned, marked>>,
             aborted' \in BOOLEAN
      PROVE  IInv'
  BY <1>5 DEF IInv, TypeOK, ListInOrder, StartsInPool, MarkedConstructed,
     HeldIsUsable, Usable, Constructed, HeldIntact, Extent, get_state,
     NoDoubleAllocation, ReservedNeverGiven, Reserved
<1>6. ASSUME NEW p \in Usable, NEW n \in 1..MaxRequest, AssertFree(p, n) PROVE IInv'
  BY <1>5, <1>6 DEF AssertFree
<1>7. ASSUME NEW a \in held \ pinned, ReleaseFrames(a) PROVE IInv'
  BY <1>7, ReleaseIInv
<1>8. CASE UNCHANGED vars
  BY <1>5, <1>8 DEF vars, IInv, TypeOK
<1> QED BY <1>1, <1>2, <1>3, <1>4, <1>6, <1>7, <1>8 DEF Next, Halted

\* The inductive invariant holds in every reachable state.
THEOREM IInvHolds == Spec => []IInv
BY InitIInv, NextIInv, PTL DEF Spec

\* Type correctness; nFreeFrames, an unsigned counter, never wraps below zero.
THEOREM TypeCorrect == Spec => []TypeOK
<1>1. IInv => TypeOK
  BY DEF IInv
<1> QED BY <1>1, IInvHolds, PTL

\* Marks of held allocations survive every other call.
THEOREM HeldStaysIntact == Spec => []HeldIntact
<1>1. IInv => HeldIntact
  BY DEF IInv
<1> QED BY <1>1, IInvHolds, PTL

\* No entry is handed out twice by the same pool.
THEOREM DisjointAllocations == Spec => []NoDoubleAllocation
<1>1. IInv => NoDoubleAllocation
  BY DEF IInv
<1> QED BY <1>1, IInvHolds, PTL

\* The kernel's bitmap and the hole in the physical memory are never handed out.
THEOREM ReservationsHold == Spec => []ReservedNeverGiven
<1>1. IInv => ReservedNeverGiven
  BY DEF IInv
<1> QED BY <1>1, IInvHolds, PTL

----------------------------------------------------------------------------
\* OnlyBoundaryLeak. A run that is lost starts at the first entry of its pool:
\* the release was sent to the pool before. It keeps its marks, and later
\* allocations of the pool lie behind it.
Leaked(p, f) ==
  /\ Adjacent(p) /\ p \in Usable /\ f < MaxRequest
  /\ \A g \in 0..f : get_state(p, g) = IF g = 0 THEN "HoS" ELSE "Used"
  /\ \A a \in held : a.pool = p => a.first > f

Accounted(p, f) ==
  \/ get_state(p, f) = "Free"
  \/ f \in Reserved(p)
  \/ \E a \in held : a.pool = p /\ f \in Extent(a)
  \/ Leaked(p, f)

AllAccounted == \A p \in Constructed : \A f \in Frames(p) : Accounted(p, f)

LEMMA AccountedIsEnough == AllAccounted => OnlyBoundaryLeak
BY DEF AllAccounted, Accounted, Leaked, OnlyBoundaryLeak

\* A pool that has just been constructed has no mark but its own bitmap's.
LEMMA ConstructAccounted ==
  ASSUME IInv, AllAccounted, NEW p \in Pools, Construct(p)
  PROVE  AllAccounted'
<1> USE DEF IInv
<1>1. /\ Len(list) \in Nat /\ Constructed = 1..Len(list) /\ Constructed \subseteq Pools
      /\ p = Len(list) + 1 /\ p \notin Constructed
  BY ConstructedPools DEF Construct
<1>2. Constructed' = Constructed \union {p}
  <2>1. list \in Seq(Pools) /\ list' = Append(list, p)
    BY DEF TypeOK, Construct
  <2>2. Len(list') = Len(list) + 1 /\ list'[Len(list) + 1] = p
        /\ \A k \in 1..Len(list) : list'[k] = list[k]
    BY <2>1
  <2> QED BY <2>2, <1>1 DEF Constructed
<1>3. \A q \in Pools : q # p => bits'[q] = bits[q]
  BY DEF Construct, TypeOK
<1>4. held' = held /\ marked' = marked
  BY DEF Construct
<1>5. ASSUME NEW q \in Constructed, NEW f \in Frames(q) PROVE Accounted(q, f)'
  <2>1. q # p /\ q \in Pools
    BY <1>1
  <2>2. \A g : get_state(q, g)' = get_state(q, g)
    BY <2>1, <1>3 DEF get_state
  <2>3. Reserved(q) \subseteq Reserved(q)' /\ (q \in Usable => q \in Usable')
        /\ (Adjacent(q) => Adjacent(q)')
    BY <1>2, <1>4 DEF Reserved, Usable, Adjacent
  <2> QED BY <2>2, <2>3, <1>4 DEF AllAccounted, Accounted, Leaked, Extent
<1>6. ASSUME NEW f \in Frames(p) PROVE Accounted(p, f)'
  <2>1. f \in Slots /\ bits[p][f] \in Bits
    BY InBitmap DEF TypeOK
  <2>2. CASE p = 1 /\ f = 0
    BY <2>2, <1>2 DEF Accounted, Reserved
  <2>3. CASE ~(p = 1 /\ f = 0)
    <3>1. bits'[p][f] = {}
      BY <2>1, <2>3, SetStateBits DEF Construct, TypeOK
    <3> QED BY <3>1 DEF Accounted, get_state
  <2> QED BY <2>2, <2>3
<1> QED BY <1>2, <1>5, <1>6 DEF AllAccounted

\* Marking a hole disturbs no leaked run: nobody has used the pool yet.
LEMMA MarkAccounted ==
  ASSUME IInv, AllAccounted, NEW p \in Constructed, MarkInaccessible(p)
  PROVE  AllAccounted'
<1> USE DEF IInv
<1>1. p \in Pools /\ Constructed \subseteq Pools /\ Constructed' = Constructed /\ held' = held
  BY ConstructedPools DEF MarkInaccessible, Constructed
<1>2. \A q \in Pools, g \in Slots :
        ~(q = p /\ g \in Hole[p]) => get_state(q, g)' = get_state(q, g)
  BY <1>1 DEF MarkInaccessible, TypeOK, get_state
<1>3. SUFFICES ASSUME NEW q \in Constructed, NEW f \in Frames(q) PROVE Accounted(q, f)'
  BY <1>1 DEF AllAccounted
<1>4. q \in Pools /\ f \in Slots
  BY <1>1, <1>3, InBitmap
<1>5. CASE q = p /\ f \in Hole[p]
  BY <1>5 DEF MarkInaccessible, Accounted, Reserved
<1>6. CASE ~(q = p /\ f \in Hole[p])
  <2>1. get_state(q, f)' = get_state(q, f) /\ Reserved(q) \subseteq Reserved(q)'
    BY <1>2, <1>4, <1>6 DEF Reserved, MarkInaccessible, Constructed
  <2>2. Leaked(q, f) => Leaked(q, f)'
    <3>1. p \notin Usable
      BY DEF MarkInaccessible, Usable
    <3>2. Leaked(q, f) => q # p
      BY <3>1 DEF Leaked
    <3>3. \A g \in 0..f : g \in Slots
      BY <1>4, PoolAssumption DEF Slots
    <3>4. (q \in Usable => q \in Usable') /\ (Adjacent(q) => Adjacent(q)')
      BY <1>1 DEF Usable, Adjacent, MarkInaccessible
    <3> QED BY <1>1, <1>2, <1>4, <3>2, <3>3, <3>4 DEF Leaked
  <2> QED BY <2>1, <2>2, <1>1 DEF AllAccounted, Accounted, Extent
<1> QED BY <1>5, <1>6

\* A new allocation takes Free entries, all of them behind a leaked run.
LEMMA TakeAccounted ==
  ASSUME IInv, AllAccounted, NEW p \in Usable, NEW f \in Frames(p), NEW n \in 1..MaxRequest,
         Take(p, f, n)
  PROVE  AllAccounted'
<1> USE DEF IInv
<1> DEFINE new == [pool |-> p, first |-> f, n |-> n]
           Taken == f..(f + n - 1)
<1>1. /\ p \in Pools /\ f \in Nat /\ n \in Nat \ {0} /\ Constructed \subseteq Pools
      /\ Constructed' = Constructed /\ held' = held \union {new} /\ Extent(new) = Taken
  BY ConstructedPools, PoolAssumption DEF Frames, Usable, Take, Constructed, Extent
<1>2. get_state(p, f) = "Free"
  <2>1. 0 \in 0..(n - 1) /\ f + 0 = f
    BY <1>1
  <2> QED BY <2>1 DEF Take, Fits
<1>3. \A q \in Pools, g \in Slots : ~(q = p /\ g \in Taken) => get_state(q, g)' = get_state(q, g)
  BY <1>1 DEF Take, TypeOK, get_state
<1>4. SUFFICES ASSUME NEW q \in Constructed, NEW h \in Frames(q) PROVE Accounted(q, h)'
  BY <1>1 DEF AllAccounted
<1>5. q \in Pools /\ h \in Slots /\ h \in Nat
  BY <1>1, <1>4, InBitmap DEF Slots
<1>6. CASE q = p /\ h \in Taken
  BY <1>1, <1>6 DEF Accounted, Extent
<1>7. CASE ~(q = p /\ h \in Taken)
  <2>1. get_state(q, h)' = get_state(q, h) /\ Reserved(q)' = Reserved(q)
    BY <1>3, <1>5, <1>7 DEF Reserved, Take, Constructed
  <2>2. ASSUME Leaked(q, h) PROVE Leaked(q, h)'
    <3>1. q = p => f > h
      BY <1>1, <1>2, <1>5, <2>2 DEF Leaked
    <3>2. \A g \in 0..h : g \in Slots /\ ~(q = p /\ g \in Taken)
      BY <1>1, <1>5, <3>1, PoolAssumption DEF Slots
    <3>3. \A a \in held' : a.pool = q => a.first > h
      BY <1>1, <2>2, <3>1 DEF Leaked
    <3>4. q \in Usable' /\ Adjacent(q)'
      BY <2>2, <1>1 DEF Leaked, Usable, Adjacent, Take
    <3> QED BY <1>3, <1>5, <2>2, <3>2, <3>3, <3>4 DEF Leaked
  <2> QED BY <2>1, <2>2, <1>1 DEF AllAccounted, Accounted, Extent
<1> QED BY <1>6, <1>7

\* What an allocation that is held says about its pool.
LEMMA HeldFacts ==
  ASSUME IInv, NEW a \in held
  PROVE  /\ a.pool \in Pools /\ a.pool \in Constructed /\ a.pool \in Usable
         /\ a.first \in Nat /\ a.first < NFrames[a.pool] /\ a.first \in Frames(a.pool)
         /\ a.n \in Nat /\ a.n > 0 /\ a.n <= MaxRequest /\ MaxRequest \in Nat
         /\ Constructed \subseteq Pools
<1> USE DEF IInv
<1>1. a \in Allocation
  BY DEF TypeOK
<1>2. a.first \in Frames(a.pool) /\ a.pool \in 1..Len(list)
  BY DEF StartsInPool
<1>3. a.n \in 1..MaxRequest /\ a.pool \in Pools /\ NFrames[a.pool] \in Nat
  BY <1>1, PoolAssumption DEF Allocation
<1>4. a.first \in Nat /\ a.first < NFrames[a.pool]
  BY <1>2, <1>3 DEF Frames
<1>5. a.n \in Nat /\ a.n > 0 /\ a.n <= MaxRequest /\ MaxRequest \in Nat
  BY <1>3, PoolAssumption
<1>6. Constructed \subseteq Pools /\ a.pool \in Constructed
  BY <1>2, ConstructedPools
<1> QED BY <1>2, <1>3, <1>4, <1>5, <1>6 DEF HeldIsUsable

\* release_frames reaches the allocation's own pool, or, for the first frame of
\* an adjacent pool, the entry behind the last frame of an earlier one.
LEMMA OwnerOfRelease ==
  ASSUME IInv, NEW a \in held, NEW p \in Constructed, Owner(p, FrameNo(a)),
         NEW k, k = FrameNo(a) - Base[p]
  PROVE  /\ p \in Pools /\ NFrames[p] \in Nat /\ NFrames[p] < Entries /\ Entries \in Nat
         /\ k \in 0..NFrames[p]
         /\ p = a.pool => k = a.first
         /\ p # a.pool => k = NFrames[p] /\ a.first = 0 /\ Adjacent(a.pool)
<1>1. /\ Base[p] \in Nat /\ Base[a.pool] \in Nat /\ NFrames[p] \in Nat /\ NFrames[p] < Entries
      /\ NFrames[a.pool] \in Nat /\ Entries \in Nat /\ p \in Pools
  BY HeldFacts, PoolAssumption, BitmapAssumption
<1>2. Claims(p, FrameNo(a)) /\ k \in 0..NFrames[p]
  <2>1. Claims(p, FrameNo(a))
    BY DEF Owner
  <2>2. FrameNo(a) \in Nat /\ Base[p] <= FrameNo(a) /\ FrameNo(a) <= Base[p] + NFrames[p]
    BY <2>1, <1>1, HeldFacts DEF Claims, FrameNo
  <2> QED BY <2>1, <2>2, <1>1
<1>3. p = a.pool => k = a.first
  BY <1>1, HeldFacts DEF FrameNo
<1>4. ASSUME p # a.pool PROVE k = NFrames[p] /\ a.first = 0 /\ Adjacent(a.pool)
  <2>1. p < a.pool \/ a.pool < p
    BY <1>1, <1>4, HeldFacts DEF Pools
  <2>2. CASE p < a.pool
    <3>1. Base[p] + NFrames[p] <= Base[a.pool]
      BY <2>2, <1>1, HeldFacts, LayoutAssumption
    <3>2. a.first = 0 /\ Base[a.pool] = Base[p] + NFrames[p] /\ k = NFrames[p]
      BY <3>1, <1>1, <1>2, HeldFacts DEF FrameNo
    <3> QED BY <3>2, <2>2 DEF Adjacent
  <2>3. CASE a.pool < p
    <3>1. Base[a.pool] + NFrames[a.pool] <= Base[p]
      BY <2>3, <1>1, HeldFacts, LayoutAssumption
    <3> QED BY <3>1, <1>1, <1>2, HeldFacts DEF FrameNo
  <2> QED BY <2>1, <2>2, <2>3
<1> QED BY <1>1, <1>2, <1>3, <1>4

\* A release makes the run free that starts at entry k, if a head is there, and
\* changes nothing else.
LEMMA ReleaseFrees ==
  ASSUME IInv, NEW p \in Pools, NEW k \in Slots, ReleaseIn(p, k)
  PROVE  \A q \in Pools, g \in Slots :
           get_state(q, g)' = IF q = p /\ g \in Run(p, k) /\ get_state(p, k) = "HoS"
                              THEN "Free" ELSE get_state(q, g)
<1> USE DEF IInv
<1> SUFFICES ASSUME NEW q \in Pools, NEW g \in Slots
             PROVE  get_state(q, g)' = IF q = p /\ g \in Run(p, k) /\ get_state(p, k) = "HoS"
                                       THEN "Free" ELSE get_state(q, g)
  OBVIOUS
<1>1. CASE q = p /\ g \in Run(p, k) /\ get_state(p, k) = "HoS"
  <2>1. bits[p][g] \in Bits
    BY DEF TypeOK
  <2>2. bits'[p][g] = {}
    BY <1>1, <2>1, SetStateBits DEF ReleaseIn, TypeOK
  <2> QED BY <1>1, <2>2 DEF get_state
<1>2. CASE ~(q = p /\ g \in Run(p, k)) /\ get_state(p, k) = "HoS"
  BY <1>2 DEF ReleaseIn, TypeOK, get_state
<1>3. CASE get_state(p, k) # "HoS"
  BY <1>3 DEF ReleaseIn, get_state
<1> QED BY <1>1, <1>2, <1>3

\* A release that reaches its own pool frees the whole allocation and starts
\* behind every leaked run. One that is sent to an earlier pool was for the
\* first entry of an adjacent pool, and leaks it.
LEMMA ReleaseAccounted ==
  ASSUME IInv, AllAccounted, NEW a \in held \ pinned, ReleaseFrames(a)
  PROVE  AllAccounted'
<1> USE DEF IInv
<1>1. PICK p \in Constructed : Owner(p, FrameNo(a)) /\ ReleaseIn(p, FrameNo(a) - Base[p])
  BY DEF ReleaseFrames
<1>2. PICK k : k = FrameNo(a) - Base[p]
  OBVIOUS
<1>3. /\ list' = list /\ marked' = marked /\ held' = held \ {a}
      /\ Constructed \subseteq Pools /\ p \in Pools /\ a \in held /\ a.pool \in Pools
      /\ a.pool \in Constructed /\ a.first \in Nat /\ a.n \in Nat /\ a.n > 0 /\ a.n <= MaxRequest
      /\ a.first < NFrames[a.pool] /\ a.pool \in Usable /\ MaxRequest \in Nat
  BY HeldFacts DEF ReleaseFrames
<1>4. \A q \in Pools : Reserved(q)' = Reserved(q) /\ Usable' = Usable
                       /\ (Adjacent(q)' <=> Adjacent(q))
  BY <1>3 DEF Reserved, Constructed, Usable, Adjacent
<1>5. /\ NFrames[p] \in Nat /\ NFrames[p] < Entries /\ Entries \in Nat /\ k \in 0..NFrames[p]
      /\ k \in Slots
  BY <1>1, <1>2, <1>3, OwnerOfRelease DEF Slots
<1>7. p = a.pool => k = a.first
  BY <1>1, <1>2, <1>3, OwnerOfRelease
<1>8. p # a.pool => k = NFrames[p] /\ a.first = 0 /\ Adjacent(a.pool)
  BY <1>1, <1>2, <1>3, OwnerOfRelease
<1> DEFINE Freed(q, g) == q = p /\ g \in Run(p, k) /\ get_state(p, k) = "HoS"
<1>9. \A g \in Run(p, k) : g >= k /\ g \in Slots
  BY DEF Run
<1>10. \A q \in Pools, g \in Slots :
          get_state(q, g)' = IF Freed(q, g) THEN "Free" ELSE get_state(q, g)
  BY <1>1, <1>2, <1>3, <1>5, ReleaseFrees
<1>12. \A g \in Extent(a) : /\ g \in Slots
                           /\ get_state(a.pool, g) = IF g = a.first THEN "HoS" ELSE "Used"
  BY <1>3, InBitmap DEF HeldIntact
<1>13. SUFFICES ASSUME NEW q \in Constructed, NEW h \in Frames(q) PROVE Accounted(q, h)'
  BY <1>3 DEF AllAccounted, Constructed
<1>14. q \in Pools /\ h \in Slots /\ h \in Nat /\ h < NFrames[q]
  BY <1>3, <1>13, InBitmap, PoolAssumption DEF Slots, Frames
<1>15. CASE Freed(q, h)
  BY <1>10, <1>14, <1>15 DEF Accounted
<1>16. CASE ~Freed(q, h)
  <2>1. get_state(q, h)' = get_state(q, h)
    BY <1>10, <1>14, <1>16
  <2>2. ASSUME Leaked(q, h) PROVE Leaked(q, h)'
    <3>1. \A g \in 0..h : g \in Slots /\ ~Freed(q, g)
      <4> SUFFICES ASSUME NEW g \in 0..h, Freed(q, g) PROVE FALSE
        BY <1>5, <1>14 DEF Slots
      <4>1. g >= k /\ q = p
        BY <1>9
      <4>2. CASE p = a.pool
        BY <4>1, <4>2, <2>2, <1>3, <1>7, <1>14 DEF Leaked
      <4>3. CASE p # a.pool
        BY <4>1, <4>3, <1>5, <1>8, <1>14
      <4> QED BY <4>2, <4>3
    <3>2. \A g \in 0..h : get_state(q, g)' = get_state(q, g)
      BY <3>1, <1>10, <1>14
    <3> QED BY <2>2, <3>2, <1>3, <1>4, <1>14 DEF Leaked
  <2>3. CASE a.pool = q /\ h \in Extent(a)
    <3>1. CASE p = a.pool
      <4>1. k \in Extent(a) /\ get_state(p, k) = "HoS"
        BY <1>3, <1>7, <1>12, <3>1 DEF Extent
      <4>2. \A i \in (k + 1)..h : get_state(p, i) = "Used"
        <5> SUFFICES ASSUME NEW i \in (k + 1)..h PROVE get_state(p, i) = "Used"
          OBVIOUS
        <5>1. i \in Extent(a) /\ i # a.first
          BY <1>3, <1>7, <1>14, <2>3, <3>1 DEF Extent
        <5> QED BY <5>1, <1>12, <3>1
      <4>3. h >= k
        BY <1>3, <1>7, <2>3, <3>1 DEF Extent
      <4> QED BY <4>1, <4>2, <4>3, <1>14, <1>16, <2>3, <3>1 DEF Run
    <3>2. CASE p # a.pool
      <4>1. h < a.n /\ h < MaxRequest
        BY <1>3, <1>8, <1>14, <2>3, <3>2 DEF Extent
      <4>2. \A g \in 0..h : g \in Extent(a) /\ g \in Slots /\ ~Freed(q, g)
        BY <1>3, <1>8, <1>12, <1>14, <2>3, <3>2, <4>1 DEF Extent
      <4>3. \A g \in 0..h : get_state(q, g)' = IF g = 0 THEN "HoS" ELSE "Used"
        BY <4>2, <1>8, <1>10, <1>12, <1>14, <2>3, <3>2
      <4>4. \A b \in held' : b.pool = q => b.first > h
        <5> SUFFICES ASSUME NEW b \in held', b.pool = q, ~(b.first > h) PROVE FALSE
          OBVIOUS
        <5>1. b \in held /\ b # a /\ b.first \in Nat /\ b.n \in Nat /\ b.n > 0
          BY <1>3, InBitmap
        <5>2. b.first \in Extent(b) /\ b.first \in 0..h
          BY <5>1, <1>14 DEF Extent
        <5> QED BY <5>1, <5>2, <4>2, <1>3, <2>3 DEF NoDoubleAllocation
      <4>5. Leaked(q, h)'
        BY <4>1, <4>3, <4>4, <1>3, <1>4, <1>8, <1>14, <2>3, <3>2 DEF Leaked
      <4> QED BY <4>5 DEF Accounted
    <3> QED BY <3>1, <3>2
  <2>4. CASE ~(a.pool = q /\ h \in Extent(a))
    <3>1. Accounted(q, h)
      BY DEF AllAccounted
    <3>2. ASSUME NEW b \in held, b.pool = q, h \in Extent(b)
          PROVE  \E c \in held' : c.pool = q /\ h \in Extent(c)'
      BY <3>2, <2>4, <1>3 DEF Extent
    <3> QED BY <3>1, <3>2, <2>1, <2>2, <1>4, <1>14 DEF Accounted
  <2> QED BY <2>3, <2>4
<1> QED BY <1>15, <1>16

\* Every entry that is not Free has an owner, except for runs at the first
\* entry of an adjacent pool, whatever is requested and released.
THEOREM LeaksStayAtBoundary == Spec => []OnlyBoundaryLeak
<1>1. Init => AllAccounted
  BY DEF Init, AllAccounted, Constructed
<1>2. IInv /\ AllAccounted /\ [Next]_vars => AllAccounted'
  <2> SUFFICES ASSUME IInv, AllAccounted, [Next]_vars PROVE AllAccounted'
    OBVIOUS
  <2>1. ASSUME NEW p \in Pools, Construct(p) PROVE AllAccounted'
    BY <2>1, ConstructAccounted
  <2>2. ASSUME NEW p \in Pools, AllocateInfo(p) PROVE AllAccounted'
    <3>1. needed_info_frames(NFrames[p]) = 1
      BY OneInfoFrame
    <3>2. PICK f \in Frames(1) : Take(1, f, 1)
      BY <2>2, <3>1 DEF AllocateInfo
    <3>3. 1 \in Usable /\ 1 \in 1..MaxRequest
      BY <2>2, PoolAssumption DEF AllocateInfo
    <3> QED BY <3>2, <3>3, TakeAccounted
  <2>3. ASSUME NEW p \in Constructed, MarkInaccessible(p) PROVE AllAccounted'
    BY <2>3, MarkAccounted
  <2>4. ASSUME NEW p \in Usable, NEW n \in 1..MaxRequest, GetFrames(p, n) PROVE AllAccounted'
    BY <2>4, TakeAccounted DEF GetFrames
  <2>5. ASSUME UNCHANGED <<bits, list, held, marked>> PROVE AllAccounted'
    BY <2>5 DEF AllAccounted, Accounted, Leaked, Adjacent, Usable, Constructed, Reserved,
       Extent, get_state
  <2>6. ASSUME NEW a \in held \ pinned, ReleaseFrames(a) PROVE AllAccounted'
    BY <2>6, ReleaseAccounted
  <2> QED BY <2>1, <2>2, <2>3, <2>4, <2>5, <2>6 DEF Next, Halted, AssertFree, vars
<1> QED BY <1>1, <1>2, IInvHolds, AccountedIsEnough, PTL DEF Spec

----------------------------------------------------------------------------
(* The kernels that page: FrameSet.                                         *)

\* Every kernel's use of its pools is one that FramePool describes, so all of
\* the theorems above hold of the three kernels.
THEOREM KernelsUsePools == UseSpec => Spec
<1>1. UseInit => Init
  BY DEF UseInit
<1>2. [UseNext]_useVars => [Next]_vars
  <2>1. 1 \in 1..MaxRequest
    BY PoolAssumption
  <2>2. MP3_Next => Next
    BY <2>1 DEF MP3_Next, MP3_ContFramePool, MP3_mark_inaccessible, MP3_get_frames, Next
  <2>3. MP4_Next => Next
    BY <2>1 DEF MP4_Next, MP4_ContFramePool, MP4_mark_inaccessible, MP4_get_frames,
       MP4_release_frames, Next
  <2> QED BY <2>2, <2>3 DEF UseNext, Next, useVars, vars
<1> QED BY <1>1, <1>2, PTL DEF UseSpec, Spec

\* The kernels that page request one frame at a time, so no entry of a pool is
\* in state Used.
SingleFrames ==
  kernel # "MP2" =>
    /\ \A a \in held : a.n = 1
    /\ \A p \in Constructed : \A f \in Frames(p) : get_state(p, f) # "Used"

Paging == IInv /\ SingleFrames /\ kernel # "MP2"

LEMMA OpensPool ==
  ASSUME Paging, NEW p \in Pools, Construct(p), kernel' = kernel
  PROVE  FS!Open(p) /\ SingleFrames'
<1> USE DEF IInv, Paging
<1>1. /\ Constructed \subseteq Pools /\ p \notin Constructed
      /\ Constructed' = Constructed \union {p}
  <2>1. list \in Seq(Pools) /\ list' = Append(list, p) /\ p = Len(list) + 1
    BY DEF TypeOK, Construct
  <2>2. Len(list) \in Nat /\ Constructed = 1..Len(list) /\ Constructed \subseteq Pools
    BY ConstructedPools
  <2>3. Len(list') = Len(list) + 1 /\ list'[Len(list) + 1] = p
        /\ \A k \in 1..Len(list) : list'[k] = list[k]
    BY <2>1
  <2>4. Constructed' = {list'[k] : k \in 1..Len(list')}
    BY DEF Constructed
  <2> QED BY <2>1, <2>2, <2>3, <2>4 DEF Constructed
<1>2. \A q \in Pools : q # p => bits'[q] = bits[q]
  BY DEF Construct, TypeOK
<1>3. \A f \in Frames(p) : bits'[p][f] = IF p = 1 /\ f = 0 THEN {"head"} ELSE {}
  <2> SUFFICES ASSUME NEW f \in Frames(p)
               PROVE  bits'[p][f] = IF p = 1 /\ f = 0 THEN {"head"} ELSE {}
    OBVIOUS
  <2>1. f \in Slots /\ bits[p][f] \in Bits /\ {} \in Bits
    BY InBitmap DEF TypeOK, Bits
  <2>2. set_state(bits[p][f], "Free") = {} /\ set_state({}, "HoS") = {"head"}
    BY <2>1, SetStateBits
  <2> QED BY <2>1, <2>2 DEF Construct, TypeOK
<1>4. \A f \in Frames(p) : get_state(p, f)' = IF p = 1 /\ f = 0 THEN "HoS" ELSE "Free"
  BY <1>3 DEF get_state
<1>5. \A q \in Pools : \A f : q # p => get_state(q, f)' = get_state(q, f)
  BY <1>2 DEF get_state
<1>6. FreeFrames(p) = {} /\ FreeFrames(p)' = Frames(p) \ (IF p = 1 THEN {0} ELSE {})
  BY <1>1, <1>4 DEF FreeFrames
<1>7. \A q \in Pools : q # p => FreeFrames(q)' = FreeFrames(q)
  BY <1>1, <1>5 DEF FreeFrames
<1>8. FS!Open(p)
  BY <1>6, <1>7 DEF FS!Open, Construct, Frames
<1>9. SingleFrames'
  BY <1>1, <1>4, <1>5 DEF SingleFrames, Construct
<1> QED BY <1>8, <1>9

LEMMA WithholdsHole ==
  ASSUME Paging, NEW p \in Constructed, MarkInaccessible(p), kernel' = kernel
  PROVE  FS!Withhold(p) /\ SingleFrames'
<1> USE DEF IInv, Paging
<1>1. p \in Pools /\ Constructed \subseteq Pools /\ Constructed' = Constructed /\ held' = held
  BY ConstructedPools DEF MarkInaccessible, Constructed
<1>2. \A q \in Pools, g \in Slots :
        ~(q = p /\ g \in Hole[p]) => get_state(q, g)' = get_state(q, g)
  BY <1>1 DEF MarkInaccessible, TypeOK, get_state
<1>3. \A g \in Hole[p] \intersect Slots : get_state(p, g)' = "HoS"
  <2> SUFFICES ASSUME NEW g \in Hole[p] \intersect Slots PROVE get_state(p, g)' = "HoS"
    OBVIOUS
  <2>1. bits'[p][g] = bits[p][g] \union {"head"}
    BY <1>1, SetStateBits DEF MarkInaccessible, TypeOK
  <2> QED BY <2>1 DEF get_state
<1>4. \A q \in Pools : Frames(q) \subseteq Slots
  BY InBitmap
<1>5. FreeFrames(p)' = FreeFrames(p) \ Hole[p]
  BY <1>1, <1>2, <1>3, <1>4 DEF FreeFrames
<1>6. \A q \in Pools : q # p => FreeFrames(q)' = FreeFrames(q)
  BY <1>1, <1>2, <1>4 DEF FreeFrames
<1>7. FS!Withhold(p)
  BY <1>1, <1>5, <1>6 DEF FS!Withhold
<1>8. SingleFrames'
  <2> SUFFICES ASSUME NEW q \in Constructed, NEW f \in Frames(q) PROVE get_state(q, f)' # "Used"
    BY <1>1 DEF SingleFrames
  <2>1. q \in Pools /\ f \in Slots /\ get_state(q, f) # "Used"
    BY <1>1, <1>4 DEF SingleFrames
  <2> QED BY <2>1, <1>2, <1>3
<1> QED BY <1>7, <1>8

LEMMA GetsLowest ==
  ASSUME Paging, NEW p \in Usable, NEW f \in Frames(p), Take(p, f, 1), kernel' = kernel
  PROVE  FS!Get(p) /\ SingleFrames'
<1> USE DEF IInv, Paging
<1> DEFINE new == [pool |-> p, first |-> f, n |-> 1]
<1>1. /\ p \in Pools /\ p \in Constructed /\ Constructed \subseteq Pools
      /\ Constructed' = Constructed /\ held' = held \union {new} /\ f \in Slots /\ f \in Nat
      /\ \A q \in Pools : Frames(q) \subseteq Slots
  BY ConstructedPools, InBitmap, PoolAssumption DEF Usable, Take, Constructed, Frames
<1>2. \A g \in Frames(p) : Fits(p, g, 1) <=> get_state(p, g) = "Free"
  <2> SUFFICES ASSUME NEW g \in Frames(p) PROVE Fits(p, g, 1) <=> get_state(p, g) = "Free"
    OBVIOUS
  <2>1. g \in Int /\ 0..(1 - 1) = {0} /\ g + 0 = g
    BY <1>1, PoolAssumption DEF Frames
  <2> QED BY <2>1 DEF Fits
<1>3. get_state(p, f) = "Free" /\ \A g \in Frames(p) : get_state(p, g) = "Free" => f <= g
  <2>1. Fits(p, f, 1) /\ \A g \in Frames(p) : g < f => ~Fits(p, g, 1)
    BY DEF Take
  <2>2. \A g \in Frames(p) : g \in Int
    BY DEF Frames
  <2> QED BY <1>1, <1>2, <2>1, <2>2
<1>4. (f + 1)..(f + 1 - 1) = {}
  BY <1>1
<1>5. \A q \in Pools, g \in Slots : ~(q = p /\ g = f) => get_state(q, g)' = get_state(q, g)
  BY <1>1, <1>4 DEF Take, TypeOK, get_state
<1>6. get_state(p, f)' = "HoS"
  <2>1. bits'[p][f] = bits[p][f] \union {"head"}
    BY <1>1, SetStateBits DEF Take, TypeOK
  <2> QED BY <2>1 DEF get_state
<1>7. FreeFrames(p)' = FreeFrames(p) \ {f} /\ f \in FreeFrames(p)
      /\ \A g \in FreeFrames(p) : f <= g
  BY <1>1, <1>3, <1>5, <1>6 DEF FreeFrames
<1>8. \A q \in Pools : q # p => FreeFrames(q)' = FreeFrames(q)
  BY <1>1, <1>5 DEF FreeFrames
<1>9. {<<a.pool, a.first>> : a \in held'} = {<<a.pool, a.first>> : a \in held} \union {<<p, f>>}
  <2> DEFINE Pair(a) == <<a.pool, a.first>>
  <2>1. Pair(new) = <<p, f>>
    OBVIOUS
  <2> HIDE DEF Pair, new
  <2>2. {Pair(a) : a \in held'} = {Pair(a) : a \in held} \union {Pair(new)}
    BY <1>1
  <2> QED BY <2>1, <2>2 DEF Pair
<1>10. FS!Get(p)
  BY <1>1, <1>7, <1>8, <1>9 DEF FS!Get
<1>11. SingleFrames'
  <2>1. \A q \in Constructed : \A g \in Frames(q) : get_state(q, g)' # "Used"
    BY <1>1, <1>5, <1>6 DEF SingleFrames
  <2> QED BY <1>1, <2>1 DEF SingleFrames
<1> QED BY <1>10, <1>11

\* The first two frames are kept, so a release is never for the first frame of
\* its pool, and reaches that pool.
LEMMA ReturnsFrame ==
  ASSUME Paging, NEW a \in held \ pinned, ~KeptForever(a), ReleaseFrames(a), kernel' = kernel
  PROVE  FS!Release(a.pool, a.first) /\ SingleFrames'
<1> USE DEF IInv, Paging
<1>1. PICK p \in Constructed : Owner(p, FrameNo(a)) /\ ReleaseIn(p, FrameNo(a) - Base[p])
  BY DEF ReleaseFrames
<1>2. PICK k : k = FrameNo(a) - Base[p]
  OBVIOUS
<1>3. /\ held' = held \ {a} /\ Constructed' = Constructed /\ Constructed \subseteq Pools
      /\ a \in held /\ a.first \in Nat /\ a.first \in Frames(a.pool) /\ a.n = 1
      /\ \A q \in Pools : Frames(q) \subseteq Slots
  BY HeldFacts, InBitmap DEF ReleaseFrames, Constructed, SingleFrames
<1>4. a.first > 0
  <2>1. PICK b \in held : b.first < a.first
    BY DEF KeptForever
  <2> QED BY <2>1, <1>3, HeldFacts
<1>5. p = a.pool /\ k = a.first /\ p \in Pools /\ k \in Slots
  BY <1>1, <1>2, <1>3, <1>4, OwnerOfRelease
<1>6. get_state(p, k) = "HoS"
  BY <1>3, <1>5 DEF HeldIntact, Extent
<1>7. \A g \in Frames(p) : g \in Run(p, k) <=> g = k
  <2> SUFFICES ASSUME NEW g \in Frames(p) PROVE g \in Run(p, k) <=> g = k
    OBVIOUS
  <2>1. g \in Int /\ g < NFrames[p] /\ k \in Nat /\ g \in Slots /\ NFrames[p] \in Nat
    BY <1>3, <1>5, PoolAssumption DEF Frames
  <2>2. ASSUME g \in Run(p, k), g # k PROVE FALSE
    <3>1. k + 1 \in (k + 1)..g /\ k + 1 \in Frames(p)
      BY <2>1, <2>2 DEF Run, Frames
    <3>2. get_state(p, k + 1) = "Used"
      BY <3>1, <2>2 DEF Run
    <3> QED BY <3>1, <3>2, <1>1 DEF SingleFrames
  <2>3. k \in Run(p, k)
    BY <2>1, <1>5 DEF Run
  <2> QED BY <2>2, <2>3
<1>8. \A q \in Pools, g \in Slots :
        get_state(q, g)' = IF q = p /\ g \in Run(p, k) THEN "Free" ELSE get_state(q, g)
  BY <1>1, <1>2, <1>5, <1>6, ReleaseFrees
<1>9. FreeFrames(p)' = FreeFrames(p) \union {k}
      /\ \A q \in Pools : q # p => FreeFrames(q)' = FreeFrames(q)
  BY <1>1, <1>3, <1>5, <1>7, <1>8 DEF FreeFrames
<1>10. {<<b.pool, b.first>> : b \in held'}
         = {<<b.pool, b.first>> : b \in held} \ {<<a.pool, a.first>>}
  <2>1. \A b \in held : b.pool = a.pool /\ b.first = a.first => b = a
    <3> SUFFICES ASSUME NEW b \in held, b.pool = a.pool, b.first = a.first, b # a PROVE FALSE
      OBVIOUS
    <3>1. a.first \in Extent(a) /\ b.first \in Extent(b)
      BY <1>3, HeldFacts DEF Extent
    <3> QED BY <3>1, <1>3 DEF NoDoubleAllocation
  <2> QED BY <2>1, <1>3
<1>11. FS!Release(a.pool, a.first)
  BY <1>3, <1>5, <1>9, <1>10 DEF FS!Release
<1>12. SingleFrames'
  <2>1. \A q \in Constructed : \A g \in Frames(q) : get_state(q, g)' # "Used"
    BY <1>3, <1>8 DEF SingleFrames
  <2> QED BY <1>3, <2>1 DEF SingleFrames
<1> QED BY <1>11, <1>12

LEMMA PagingStep ==
  ASSUME Paging, MP3_Next \/ MP4_Next, kernel' = kernel
  PROVE  [FS!Next]_(FS!vars) /\ SingleFrames'
<1> USE DEF Paging
<1>1. /\ Constructed \subseteq Pools /\ Usable \subseteq Constructed
      /\ \A p \in Pools : FS!Open(p) \/ FS!Withhold(p) \/ FS!Get(p) => FS!Next
  BY ConstructedPools DEF IInv, Usable, FS!Next, Pools, FS!Pools
<1>2. ASSUME NEW p \in Pools, Construct(p) PROVE FS!Next /\ SingleFrames'
  BY <1>1, <1>2, OpensPool
<1>3. ASSUME NEW p \in Constructed, MarkInaccessible(p) PROVE FS!Next /\ SingleFrames'
  BY <1>1, <1>3, WithholdsHole
<1>4. ASSUME NEW p \in Usable, NEW f \in Frames(p), Take(p, f, 1) PROVE FS!Next /\ SingleFrames'
  BY <1>1, <1>4, GetsLowest
<1>5. ASSUME NEW p \in Pools, AllocateInfo(p) PROVE FS!Next /\ SingleFrames'
  <2>1. needed_info_frames(NFrames[p]) = 1
    BY OneInfoFrame
  <2>2. PICK f \in Frames(1) : Take(1, f, 1)
    BY <1>5, <2>1 DEF AllocateInfo
  <2>3. 1 \in Usable
    BY <1>5 DEF AllocateInfo
  <2> QED BY <1>4, <2>2, <2>3
<1>6. ASSUME NEW p \in Usable, GetFrames(p, 1) PROVE FS!Next /\ SingleFrames'
  BY <1>4, <1>6 DEF GetFrames
<1>7. ASSUME NEW p \in Usable, AssertFree(p, 1) PROVE UNCHANGED FS!vars /\ SingleFrames'
  BY <1>7 DEF AssertFree, FS!vars, FreeFrames, get_state, Constructed, SingleFrames
<1>8. ASSUME NEW a \in held \ pinned, ~KeptForever(a), ReleaseFrames(a)
      PROVE  FS!Next /\ SingleFrames'
  <2>1. a.pool \in Pools /\ a.first \in 0..(NFrames[a.pool] - 1)
    BY HeldFacts DEF Frames
  <2> QED BY <1>8, <2>1, ReturnsFrame DEF FS!Next, Pools, FS!Pools
<1> QED
  BY <1>2, <1>3, <1>5, <1>6, <1>7, <1>8 DEF MP3_Next, MP3_ContFramePool, MP3_mark_inaccessible,
     MP3_get_frames, MP4_Next, MP4_ContFramePool, MP4_mark_inaccessible, MP4_get_frames,
     MP4_release_frames

\* In the kernels that page, the bitmaps of the pools implement sets of free
\* frames, with any bitmap contents, adjacent pools and holes.
THEOREM PoolsAreSets == UseSpec => FramesAreASet
<1>1. UseInit => SingleFrames /\ (kernel # "MP2" => FS!Init)
  BY DEF UseInit, Init, SingleFrames, Constructed, FS!Init, FreeFrames, Pools, FS!Pools
<1>2. IInv /\ SingleFrames /\ [UseNext]_useVars
        => SingleFrames' /\ [kernel # "MP2" => FS!Next]_(FS!vars)
  <2> SUFFICES ASSUME IInv, SingleFrames, [UseNext]_useVars
               PROVE  SingleFrames' /\ [kernel # "MP2" => FS!Next]_(FS!vars)
    OBVIOUS
  <2>1. CASE kernel = "MP2" /\ UseNext
    BY <2>1 DEF UseNext, SingleFrames
  <2>2. ASSUME kernel # "MP2", kernel' = kernel, MP3_Next \/ MP4_Next
        PROVE  SingleFrames' /\ [kernel # "MP2" => FS!Next]_(FS!vars)
    BY <2>2, PagingStep DEF Paging
  <2>3. CASE UNCHANGED useVars
    BY <2>3 DEF useVars, vars, SingleFrames, get_state, Constructed, FS!vars, FreeFrames
  <2> QED BY <2>1, <2>2, <2>3 DEF UseNext, Halted, useVars
<1>3. UseSpec => []IInv
  BY KernelsUsePools, IInvHolds, PTL
<1> QED BY <1>1, <1>2, <1>3, PTL DEF UseSpec, FramesAreASet
=============================================================================
