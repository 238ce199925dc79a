-------------------------- MODULE AlgorithmProofs --------------------------
(* The three algorithms with arrays and indices that stand alone. The search *)
(* loop of get_frames finds the first fit, for every pool size, request and  *)
(* contents of the bitmap. The ring buffer implements the FIFO queue, for    *)
(* every capacity and every set of threads. The console shows the last lines *)
(* of what is printed, for every size of the screen.                         *)
EXTENDS FrameScan, RingQueue, Console, TLAPS

LEMMA ScanRanges ==
  ASSUME ScanTypeOK
  PROVE  /\ n_frames \in Nat \ {0} /\ ScanEntries \in Nat /\ ScanRequests \in Nat \ {0}
         /\ n \in Nat \ {0} /\ n <= ScanRequests
         /\ frame_no \in Nat /\ i \in Nat /\ i <= n
         /\ n_frames + ScanRequests <= ScanEntries
BY ScanAssumption DEF ScanTypeOK

LEMMA ScanStarts == ScanInit => ScanTypeOK /\ LoopInvariant
<1> SUFFICES ASSUME ScanInit PROVE ScanTypeOK /\ LoopInvariant
  OBVIOUS
<1>1. ScanTypeOK
  BY ScanAssumption DEF ScanInit, ScanTypeOK, Searching
<1>2. LoopInvariant
  BY DEF ScanInit, LoopInvariant
<1> QED BY <1>1, <1>2

LEMMA ScanSteps == ScanTypeOK /\ LoopInvariant /\ [ScanNext]_scanVars => ScanTypeOK' /\ LoopInvariant'
<1> SUFFICES ASSUME ScanTypeOK, LoopInvariant, [ScanNext]_scanVars PROVE ScanTypeOK' /\ LoopInvariant'
  OBVIOUS
<1> USE DEF Searching, InPool, Jump
<1>1. CASE TestCandidate
  <2>1. ScanTypeOK'
    BY <1>1, ScanRanges DEF TestCandidate, ScanTypeOK, LoopInvariant
  <2>2. \A f \in Nat : f < frame_no' => ~FitsAt(f)' \/ f >= n_frames
    <3>1. state[frame_no] # "Free" => ~FitsAt(frame_no)
      BY <1>1, ScanRanges DEF TestCandidate, LoopInvariant, FitsAt
    <3> QED BY <1>1, <3>1, ScanRanges DEF TestCandidate, LoopInvariant, FitsAt
  <2>3. pc' = "inner" => i' = 1 /\ frame_no' = frame_no /\ before[frame_no] = "Free"
    BY <1>1, ScanRanges DEF TestCandidate, LoopInvariant
  <2>4. LoopInvariant'
    BY <1>1, <2>1, <2>2, <2>3, ScanRanges DEF TestCandidate, LoopInvariant
  <2> QED BY <2>1, <2>4
<1>2. CASE ScanFails
  <2>1. ScanTypeOK'
    BY <1>2 DEF ScanFails, ScanTypeOK
  <2>2. LoopInvariant'
    BY <1>2, ScanRanges DEF ScanFails, LoopInvariant, FitsAt
  <2> QED BY <2>1, <2>2
<1>3. CASE TestNext
  <2>1. ScanTypeOK'
    BY <1>3, ScanRanges DEF TestNext, ScanTypeOK, LoopInvariant
  <2>2. \A f \in Nat : f < frame_no' => ~FitsAt(f)' \/ f >= n_frames
    <3>1. CASE state[frame_no + i] = "Free"
      BY <1>3, <3>1, ScanRanges DEF TestNext, LoopInvariant, FitsAt
    <3>2. CASE state[frame_no + i] # "Free"
      <4>1. ASSUME NEW f \in Nat, frame_no <= f, f <= frame_no + i
            PROVE  ~FitsAt(f)
        <5>1. frame_no + i \in f..(f + n - 1) /\ before[frame_no + i] # "Free"
          BY <1>3, <3>2, <4>1, ScanRanges DEF TestNext, LoopInvariant
        <5> QED BY <5>1 DEF FitsAt
      <4> QED BY <1>3, <3>2, <4>1, ScanRanges DEF TestNext, LoopInvariant, FitsAt
    <3> QED BY <3>1, <3>2
  <2>3. LoopInvariant'
    BY <1>3, <2>1, <2>2, ScanRanges DEF TestNext, LoopInvariant
  <2> QED BY <2>1, <2>3
<1>4. CASE RunFound
  <2>1. ScanTypeOK'
    BY <1>4, ScanRanges DEF RunFound, ScanTypeOK
  <2>2. i = n /\ FitsAt(frame_no)
    BY <1>4, ScanRanges DEF RunFound, LoopInvariant, FitsAt
  <2>3. before = Marked(frame_no, 0)
    BY ScanRanges DEF Marked, ScanTypeOK
  <2>4. LoopInvariant'
    BY <1>4, <2>2, <2>3, ScanRanges DEF RunFound, LoopInvariant, FitsAt, Marked
  <2> QED BY <2>1, <2>4
<1>5. CASE MarkNext
  <2>1. frame_no + i \in ScanSlots
    BY <1>5, ScanRanges DEF MarkNext, ScanTypeOK, ScanSlots
  <2>2. ScanTypeOK'
    BY <1>5, <2>1, ScanRanges DEF MarkNext, ScanTypeOK, FrameState
  <2>3. state' = Marked(frame_no, i + 1)
    <3>1. state = Marked(frame_no, i)
      BY <1>5 DEF MarkNext, LoopInvariant
    <3>2. ASSUME NEW k \in ScanSlots
          PROVE  state'[k] = Marked(frame_no, i + 1)[k]
      <4>1. /\ k \in Int /\ frame_no \in Nat /\ i \in Nat
            /\ frame_no..(frame_no + (i + 1) - 1)
                 = frame_no..(frame_no + i - 1) \union {frame_no + i}
            /\ frame_no + i \notin frame_no..(frame_no + i - 1)
        BY ScanRanges DEF ScanSlots
      <4>2. /\ state'[k] = IF k = frame_no + i THEN (IF i = 0 THEN "HoS" ELSE "Used")
                           ELSE state[k]
            /\ before' = before /\ frame_no' = frame_no
        BY <1>5, <2>1 DEF MarkNext, ScanTypeOK
      <4>3. state[k] = IF k \notin frame_no..(frame_no + i - 1) THEN before[k]
                       ELSE IF k = frame_no THEN "HoS" ELSE "Used"
        BY <3>1 DEF Marked
      <4>4. i = 0 <=> frame_no + i = frame_no
        BY <4>1
      <4>5. Marked(frame_no, i + 1)[k]
              = IF k \notin frame_no..(frame_no + (i + 1) - 1) THEN before[k]
                ELSE IF k = frame_no THEN "HoS" ELSE "Used"
        BY DEF Marked
      <4>6. CASE k = frame_no + i
        BY <4>1, <4>2, <4>4, <4>5, <4>6
      <4>7. CASE k # frame_no + i
        BY <4>1, <4>2, <4>3, <4>5, <4>7
      <4> QED BY <4>6, <4>7
    <3>3. state' \in [ScanSlots -> FrameState]
      BY <2>2 DEF ScanTypeOK
    <3> QED BY <3>2, <3>3 DEF Marked
  <2>4. LoopInvariant'
    BY <1>5, <2>3, ScanRanges DEF MarkNext, LoopInvariant, FitsAt, Marked
  <2> QED BY <2>2, <2>4
<1>6. CASE ScanReturns
  <2>1. ScanTypeOK'
    BY <1>6, ScanRanges DEF ScanReturns, ScanTypeOK
  <2>2. LoopInvariant'
    BY <1>6, ScanRanges DEF ScanReturns, LoopInvariant, FitsAt, Marked
  <2> QED BY <2>1, <2>2
<1>7. CASE UNCHANGED scanVars
  BY <1>7 DEF scanVars, ScanTypeOK, LoopInvariant, FitsAt, Marked
<1> QED BY <1>1, <1>2, <1>3, <1>4, <1>5, <1>6, <1>7 DEF ScanNext, ScanDone

LEMMA LoopInvariantHolds == ScanSpec => [](ScanTypeOK /\ LoopInvariant)
BY ScanStarts, ScanSteps, PTL DEF ScanSpec

\* The loop variables stay in range, so no entry outside the bitmap is read.
THEOREM ScanTypeCorrect == ScanSpec => []ScanTypeOK
BY LoopInvariantHolds, PTL

\* get_frames returns the least start of n Free entries and marks that run,
\* or changes nothing because the pool has none.
THEOREM ScanFindsFirstFit == ScanSpec => []FirstFit
<1>1. ScanTypeOK /\ LoopInvariant => FirstFit
  BY ScanRanges DEF LoopInvariant, FirstFit, ScanTypeOK
<1> QED BY <1>1, LoopInvariantHolds, PTL
----------------------------------------------------------------------------
(* The ring buffer.                                                         *)

\* Positions in the array never exceed the capacity by more than one lap, so
\* the remainder is a comparison and a subtraction.
LEMMA ModOneLap ==
  ASSUME NEW a \in Int, -1 <= a, a < 2 * Capacity
  PROVE  a % Capacity = IF a = -1 THEN Capacity - 1
                        ELSE IF a < Capacity THEN a ELSE a - Capacity
<1>1. Capacity \in Nat \ {0}
  BY QueueAssumption
<1>2. CASE a = -1
  BY <1>1, <1>2
<1>3. CASE 0 <= a /\ a < Capacity
  BY <1>1, <1>3
<1>4. CASE Capacity <= a
  <2> DEFINE q == a \div Capacity
             r == a % Capacity
  <2>1. q \in Int /\ r \in 0..(Capacity - 1) /\ a = Capacity * q + r
    BY <1>1
  <2> HIDE DEF q, r
  <2>2. q <= 0 => Capacity * q <= 0
    BY <1>1, <2>1
  <2>3. q >= 2 => Capacity * q >= 2 * Capacity
    BY <1>1, <2>1
  <2>4. q = 1
    BY <1>1, <1>4, <2>1, <2>2, <2>3
  <2>5. r = a - Capacity
    BY <1>1, <2>1, <2>4
  <2> QED BY <1>1, <1>4, <2>5 DEF r
<1> QED BY <1>1, <1>2, <1>3, <1>4

\* remove moves rear back, which it must not do from its initial -1.
RearIsSet == queue_size > 0 => rear # -1

IInv == RingTypeOK /\ IndexesAgree /\ LiveSlotsHoldThreads /\ RearIsSet

LEMMA Arith ==
  ASSUME RingTypeOK
  PROVE  /\ Capacity \in Nat \ {0}
         /\ queue_size \in Nat /\ queue_size <= Capacity
         /\ front \in Nat /\ front < Capacity
         /\ rear \in Int /\ -1 <= rear /\ rear < Capacity
BY QueueAssumption DEF RingTypeOK, Indexes

\* Slot(k), without the remainder.
LEMMA SlotValue ==
  ASSUME RingTypeOK
  PROVE  \A k \in 0..Capacity :
           /\ Slot(k) = IF front + k < Capacity THEN front + k ELSE front + k - Capacity
           /\ Slot(k) \in Indexes
<1> SUFFICES ASSUME NEW k \in 0..Capacity
             PROVE  /\ Slot(k) = IF front + k < Capacity THEN front + k
                                                        ELSE front + k - Capacity
                    /\ Slot(k) \in Indexes
  OBVIOUS
<1>1. front + k \in Int /\ -1 <= front + k /\ front + k < 2 * Capacity /\ front + k # -1
  BY Arith
<1>2. Slot(k) = IF front + k < Capacity THEN front + k ELSE front + k - Capacity
  BY <1>1, ModOneLap, Arith DEF Slot
<1> QED BY <1>2, Arith DEF Indexes

\* Distinct offsets below the capacity are distinct slots.
LEMMA SlotInjective ==
  ASSUME RingTypeOK
  PROVE  \A j, k \in 0..(Capacity - 1) : Slot(j) = Slot(k) => j = k
BY SlotValue, Arith

\* The slot enqueue writes is the one after the last queued thread.
LEMMA NextSlot ==
  ASSUME RingTypeOK, IndexesAgree
  PROVE  (rear + 1) % Capacity = Slot(queue_size)
BY DEF IndexesAgree, Slot

THEOREM InitIInv == RingInit => IInv
<1> SUFFICES ASSUME RingInit PROVE IInv
  OBVIOUS
<1>1. RingTypeOK
  <2>1. 0 \in 0..Capacity /\ 0 \in Indexes
    BY QueueAssumption DEF Indexes
  <2>2. [x \in Indexes |-> NULL] \in [Indexes -> QueueThreads \union {NULL}]
    OBVIOUS
  <2> QED BY <2>1, <2>2 DEF RingInit, RingTypeOK
<1> QED BY <1>1 DEF RingInit, IInv, IndexesAgree, LiveSlotsHoldThreads, RearIsSet

LEMMA EnqueueStep ==
  ASSUME IInv, NEW t \in QueueThreads, enqueue(t), queue_size < Capacity
  PROVE  /\ IInv'
         /\ Slot(queue_size) \in Indexes
         /\ array' = [array EXCEPT ![Slot(queue_size)] = t]
         /\ queue_size' = queue_size + 1 /\ front' = front /\ out' = out
<1> USE DEF IInv
<1>1. /\ rear' = Slot(queue_size)
      /\ array' = [array EXCEPT ![Slot(queue_size)] = t]
      /\ queue_size' = queue_size + 1 /\ front' = front /\ out' = out
      /\ aborted' = FALSE
  BY NextSlot DEF enqueue, Asserting, Advance
<1>2. Slot(queue_size) \in Indexes
  BY SlotValue, Arith
<1>3. RingTypeOK'
  <2>1. queue_size' \in 0..Capacity
    BY <1>1, Arith
  <2>2. array' \in [Indexes -> QueueThreads \union {NULL}]
    BY <1>1 DEF RingTypeOK
  <2> QED BY <1>1, <1>2, <2>1, <2>2 DEF RingTypeOK
<1>4. IndexesAgree'
  <2>1. /\ rear' \in Int /\ rear' + 1 \in Int /\ -1 <= rear' + 1 /\ rear' + 1 < 2 * Capacity
        /\ rear' + 1 # -1
    BY <1>1, <1>2, Arith DEF Indexes
  <2>2. (rear' + 1) % Capacity
          = IF rear' + 1 < Capacity THEN rear' + 1 ELSE rear' + 1 - Capacity
    <3>1. PICK a \in Int : a = rear' + 1
      BY <2>1
    <3>2. a % Capacity = IF a < Capacity THEN a ELSE a - Capacity
      BY <2>1, <3>1, ModOneLap, Arith
    <3> QED BY <2>1, <3>1, <3>2, Arith
  <2>3. Slot(queue_size + 1)
          = IF front + (queue_size + 1) < Capacity THEN front + (queue_size + 1)
            ELSE front + (queue_size + 1) - Capacity
    BY SlotValue, Arith
  <2>4. Slot(queue_size)
          = IF front + queue_size < Capacity THEN front + queue_size
            ELSE front + queue_size - Capacity
    BY SlotValue, Arith
  <2>5. (rear' + 1) % Capacity = Slot(queue_size + 1)
    BY <1>1, <2>2, <2>3, <2>4, Arith
  <2> QED BY <1>1, <2>5 DEF IndexesAgree, Slot
<1>5. LiveSlotsHoldThreads'
  <2> SUFFICES ASSUME NEW k \in 0..queue_size
               PROVE  array'[Slot(k)] \in QueueThreads
    BY <1>1, Arith DEF LiveSlotsHoldThreads, Slot
  <2>1. Slot(k) \in Indexes
    BY SlotValue, Arith
  <2> QED BY <1>1, <1>2, <2>1, Arith DEF LiveSlotsHoldThreads, RingTypeOK
<1>6. RearIsSet'
  BY <1>1, <1>2, Arith DEF RearIsSet, Indexes
<1> QED BY <1>1, <1>2, <1>3, <1>4, <1>5, <1>6

LEMMA DequeueStep ==
  ASSUME IInv, dequeue, ~is_empty
  PROVE  /\ IInv'
         /\ queue_size # 0
         /\ \A k \in 0..(Capacity - 1) : Slot(k)' = Slot(k + 1)
         /\ array' = array
         /\ queue_size' = queue_size - 1
         /\ out' = array[Slot(0)]
<1> USE DEF IInv
<1>1. /\ front' = Slot(1) /\ queue_size' = queue_size - 1 /\ queue_size # 0
      /\ out' = array[front] /\ array' = array /\ rear' = rear
      /\ aborted' = FALSE
  BY DEF dequeue, Asserting, is_empty, Slot, Advance
<1>2. Slot(0) = front /\ Slot(1) \in Indexes
  BY SlotValue, Arith
<1>3. front \in Indexes /\ array[front] \in QueueThreads
  BY <1>1, <1>2, Arith DEF LiveSlotsHoldThreads, Indexes
<1>4. RingTypeOK'
  <2>1. queue_size' \in 0..Capacity
    BY <1>1, Arith
  <2> QED BY <1>1, <1>2, <1>3, <2>1 DEF RingTypeOK
<1>5. \A k \in 0..(Capacity - 1) : Slot(k)' = Slot(k + 1)
  <2> SUFFICES ASSUME NEW k \in 0..(Capacity - 1) PROVE Slot(k)' = Slot(k + 1)
    OBVIOUS
  <2>1. k \in 0..Capacity /\ k + 1 \in 0..Capacity /\ 1 \in 0..Capacity
    BY Arith
  <2>2. front' = IF front + 1 < Capacity THEN front + 1 ELSE front + 1 - Capacity
    BY <1>1, <2>1, SlotValue
  <2>3. Slot(k + 1) = IF front + (k + 1) < Capacity THEN front + (k + 1)
                                                  ELSE front + (k + 1) - Capacity
    BY <2>1, SlotValue
  <2>4. front' \in Int /\ front' + k \in Int /\ -1 <= front' + k /\ front' + k < 2 * Capacity
        /\ front' + k # -1
    BY <2>2, Arith
  <2>5. (front' + k) % Capacity = IF front' + k < Capacity THEN front' + k
                                                        ELSE front' + k - Capacity
    <3>1. PICK a \in Int : a = front' + k
      BY <2>4
    <3>2. a % Capacity = IF a < Capacity THEN a ELSE a - Capacity
      BY <2>4, <3>1, ModOneLap, Arith
    <3> QED BY <2>4, <3>1, <3>2, Arith
  <2> QED BY <2>2, <2>3, <2>5, Arith DEF Slot
<1>6. LiveSlotsHoldThreads'
  <2> SUFFICES ASSUME NEW k \in 0..(queue_size - 2)
               PROVE  array[Slot(k + 1)] \in QueueThreads
    BY <1>1, <1>5, Arith DEF LiveSlotsHoldThreads
  <2> QED BY Arith DEF LiveSlotsHoldThreads
<1>7. IndexesAgree'
  <2>1. queue_size - 1 \in 0..(Capacity - 1) /\ (queue_size - 1) + 1 = queue_size
    BY <1>1, Arith
  <2>2. PICK k \in 0..(Capacity - 1) : k = queue_size - 1
    BY <2>1
  <2>3. (front' + k) % Capacity = Slot(queue_size)
    BY <2>1, <2>2, <1>5 DEF Slot
  <2> QED BY <1>1, <2>2, <2>3, NextSlot DEF IndexesAgree
<1>8. RearIsSet'
  BY <1>1, Arith DEF RearIsSet
<1> QED BY <1>1, <1>2, <1>4, <1>5, <1>6, <1>7, <1>8

\* Where remove finds its thread at offset first, the offsets from there on
\* get their successors and the others keep their threads.
LEMMA RemoveStep ==
  ASSUME IInv, NEW t \in QueueThreads, NEW first \in 0..(queue_size - 1),
         array' = Shifted(first),
         queue_size' = queue_size - 1,
         rear' = IF rear = 0 THEN Capacity - 1 ELSE rear - 1,
         UNCHANGED <<front, out>>, aborted' = FALSE
  PROVE  /\ IInv'
         /\ \A k \in 0..(queue_size - 2) :
              array'[Slot(k)] = IF k < first THEN array[Slot(k)]
                                      ELSE array[Slot(k + 1)]
<1> USE DEF IInv
<1>0. queue_size > 0 /\ first \in Nat /\ first < queue_size /\ rear \in Indexes
      /\ rear \in Nat
  BY Arith DEF RearIsSet, RingTypeOK, Indexes
<1>1. \A x \in Indexes : Shifted(first)[x] \in QueueThreads \union {NULL}
  <2> SUFFICES ASSUME NEW x \in Indexes
               PROVE  Shifted(first)[x] \in QueueThreads \union {NULL}
    OBVIOUS
  <2> DEFINE k == (x - front + Capacity) % Capacity
  <2>1. k \in 0..(Capacity - 1)
    BY Arith DEF Indexes
  <2> HIDE DEF k
  <2>2. Slot(1) \in Indexes /\ Slot(k + 1) \in Indexes
    BY <2>1, SlotValue, Arith
  <2>3. Shifted(first)[x] \in {array[x], array[Slot(1)], array[Slot(k + 1)]}
    BY DEF Shifted, k
  <2> QED BY <2>2, <2>3 DEF RingTypeOK
<1>2. RingTypeOK'
  <2>1. array' \in [Indexes -> QueueThreads \union {NULL}]
    BY <1>1 DEF Shifted
  <2>2. queue_size' \in 0..Capacity /\ rear' \in Indexes
    BY <1>0, Arith DEF Indexes
  <2> QED BY <2>1, <2>2 DEF RingTypeOK
<1>3. ASSUME NEW k \in 0..(queue_size - 2)
      PROVE  array'[Slot(k)] = IF k < first THEN array[Slot(k)]
                                     ELSE array[Slot(k + 1)]
  <2>1. Slot(k) \in Indexes
        /\ Slot(k) = IF front + k < Capacity THEN front + k ELSE front + k - Capacity
    BY SlotValue, Arith
  <2>2. PICK a \in Int : a = Slot(k) - front + Capacity
    BY <2>1, Arith DEF Indexes
  <2>3. a % Capacity = k
    <3>1. -1 <= a /\ a < 2 * Capacity /\ a # -1
          /\ (a = k + Capacity \/ a = k)
      BY <2>1, <2>2, Arith
    <3>2. a % Capacity = IF a < Capacity THEN a ELSE a - Capacity
      BY <3>1, ModOneLap, Arith
    <3> QED BY <3>1, <3>2, Arith
  <2>4. k # Capacity - 1 /\ k < queue_size
    BY Arith
  <2>5. Shifted(first)[Slot(k)] = IF k < first THEN array[Slot(k)]
                                  ELSE array[Slot(k + 1)]
    BY <2>1, <2>2, <2>3, <2>4, Arith DEF Shifted
  <2> QED BY <2>5
<1>4. IndexesAgree'
  <2>1. (rear + 1) % Capacity = Slot(queue_size)
    BY NextSlot
  <2>2. (rear + 1) % Capacity = IF rear + 1 < Capacity THEN rear + 1 ELSE 0
    <3>1. PICK a \in Int : a = rear + 1
      BY <1>0
    <3>2. a % Capacity = IF a < Capacity THEN a ELSE a - Capacity
      BY <1>0, <3>1, ModOneLap, Arith
    <3> QED BY <1>0, <3>1, <3>2, Arith
  <2>3. Slot(queue_size) = IF front + queue_size < Capacity THEN front + queue_size
                           ELSE front + queue_size - Capacity
    BY SlotValue, Arith
  <2>4. queue_size - 1 \in 0..Capacity
    BY <1>0, Arith
  <2>5. Slot(queue_size - 1)
          = IF front + (queue_size - 1) < Capacity THEN front + (queue_size - 1)
            ELSE front + (queue_size - 1) - Capacity
    BY <2>4, SlotValue
  <2>6. Slot(queue_size - 1) = rear
    BY <1>0, <2>1, <2>2, <2>3, <2>5, Arith
  <2>7. (rear' + 1) % Capacity = rear
    <3>1. PICK a \in Int : a = rear' + 1
      BY <1>0, Arith
    <3>2. a = IF rear = 0 THEN Capacity ELSE rear
      BY <1>0, <3>1, Arith
    <3>3. a % Capacity = IF a < Capacity THEN a ELSE a - Capacity
      BY <1>0, <3>2, ModOneLap, Arith
    <3>4. rear' \in Int
      BY <1>0, Arith
    <3> QED BY <1>0, <3>1, <3>2, <3>3, <3>4, Arith
  <2> QED BY <2>6, <2>7 DEF IndexesAgree, Slot
<1>5. LiveSlotsHoldThreads'
  <2> SUFFICES ASSUME NEW k \in 0..(queue_size - 2)
               PROVE  array'[Slot(k)] \in QueueThreads
    BY Arith DEF LiveSlotsHoldThreads, Slot
  <2>1. k \in 0..(queue_size - 1) /\ k + 1 \in 0..(queue_size - 1)
    BY Arith
  <2>2. array[Slot(k)] \in QueueThreads /\ array[Slot(k + 1)] \in QueueThreads
    BY <2>1 DEF LiveSlotsHoldThreads
  <2> QED BY <1>3, <2>2
<1>6. RearIsSet'
  BY <1>0, Arith DEF RearIsSet
<1> QED BY <1>2, <1>3, <1>4, <1>5, <1>6

\* A failed assertion changes nothing but the flag.
LEMMA HaltStep ==
  ASSUME IInv, UNCHANGED <<array, queue_size, front, rear, out>>, aborted' \in BOOLEAN
  PROVE  IInv' /\ UNCHANGED <<Content, out>>
BY DEF IInv, RingTypeOK, IndexesAgree, LiveSlotsHoldThreads, RearIsSet, Slot, Content

THEOREM NextIInv == IInv /\ [RingNext]_ringVars => IInv'
<1> SUFFICES ASSUME IInv, [RingNext]_ringVars PROVE IInv'
  OBVIOUS
<1>1. ASSUME NEW t \in QueueThreads, enqueue(t) PROVE IInv'
  <2>1. CASE queue_size < Capacity
    BY <1>1, <2>1, EnqueueStep
  <2>2. CASE ~(queue_size < Capacity)
    BY <1>1, <2>2, HaltStep DEF enqueue, Asserting
  <2> QED BY <2>1, <2>2
<1>2. CASE dequeue
  <2>1. CASE ~is_empty
    BY <1>2, <2>1, DequeueStep
  <2>2. CASE is_empty
    BY <1>2, <2>2, HaltStep DEF dequeue, Asserting
  <2> QED BY <2>1, <2>2
<1>3. CASE get_head
  <2>1. CASE ~is_empty
    <3>1. UNCHANGED <<array, queue_size, front, rear>> /\ out' = array[front]
          /\ aborted' = FALSE
      BY <1>3, <2>1 DEF get_head, Asserting
    <3> QED BY <3>1, Arith DEF IInv, RingTypeOK, IndexesAgree, LiveSlotsHoldThreads,
               RearIsSet, Slot
  <2>2. CASE is_empty
    BY <1>3, <2>2, HaltStep DEF get_head, Asserting
  <2> QED BY <2>1, <2>2
<1>4. ASSUME NEW t \in QueueThreads, remove(t) PROVE IInv'
  <2>1. CASE ~is_empty
    <3>1. \/ \E first \in 0..(queue_size - 1) :
               /\ array' = Shifted(first)
               /\ queue_size' = queue_size - 1
               /\ rear' = IF rear = 0 THEN Capacity - 1 ELSE rear - 1
          \/ UNCHANGED <<array, queue_size, rear>>
      BY <1>4, <2>1 DEF remove, Asserting, StepBack
    <3>2. UNCHANGED <<front, out>> /\ aborted' = FALSE
      BY <1>4, <2>1 DEF remove, Asserting, StepBack
    <3> QED BY <3>1, <3>2, RemoveStep, HaltStep
  <2>2. CASE is_empty
    BY <1>4, <2>2, HaltStep DEF remove, Asserting, StepBack
  <2> QED BY <2>1, <2>2
<1>5. CASE UNCHANGED ringVars
  BY <1>5, HaltStep DEF ringVars, IInv, RingTypeOK
<1> QED BY <1>1, <1>2, <1>3, <1>4, <1>5 DEF RingNext, Halted

THEOREM IInvHolds == RingSpec => []IInv
BY InitIInv, NextIInv, PTL DEF RingSpec

\* No index ever leaves the array.
THEOREM TypeCorrect == RingSpec => []RingTypeOK
<1>1. IInv => RingTypeOK
  BY DEF IInv
<1> QED BY <1>1, IInvHolds, PTL

\* The three records of the queue's ends agree.
THEOREM EndsAgree == RingSpec => []IndexesAgree
<1>1. IInv => IndexesAgree
  BY DEF IInv
<1> QED BY <1>1, IInvHolds, PTL

\* dequeue never hands the dispatcher a slot that holds no thread.
THEOREM LiveSlots == RingSpec => []LiveSlotsHoldThreads
<1>1. IInv => LiveSlotsHoldThreads
  BY DEF IInv
<1> QED BY <1>1, IInvHolds, PTL

----------------------------------------------------------------------------
(* Refinement.                                                              *)

ContentOK ==
  /\ Content \in Seq(QueueThreads)
  /\ Len(Content) = queue_size
  /\ \A j \in 1..queue_size : Content[j] = array[Slot(j - 1)]

LEMMA ContentIsSeq == IInv => ContentOK
<1> SUFFICES ASSUME IInv PROVE ContentOK
  OBVIOUS
<1>1. queue_size \in Nat
  BY Arith DEF IInv
<1>2. \A j \in 1..queue_size : array[Slot(j - 1)] \in QueueThreads
  <2> SUFFICES ASSUME NEW j \in 1..queue_size PROVE array[Slot(j - 1)] \in QueueThreads
    OBVIOUS
  <2>1. j - 1 \in 0..(queue_size - 1)
    BY <1>1
  <2> QED BY <2>1 DEF IInv, LiveSlotsHoldThreads
<1> QED BY <1>1, <1>2 DEF Content, ContentOK

LEMMA ContentIsSeqNext == IInv' => ContentOK'
BY ContentIsSeq, PTL

\* A function from 1..n is a sequence of length n.
LEMMA FunctionIsSeq ==
  ASSUME NEW S, NEW len \in Nat, NEW f \in [1..len -> S]
  PROVE  f \in Seq(S) /\ Len(f) = len
OBVIOUS

\* Two sequences of the same length with the same elements are the same.
LEMMA SameSeq ==
  ASSUME NEW S, NEW s \in Seq(S), NEW u \in Seq(S), Len(s) = Len(u),
         \A j \in 1..Len(s) : s[j] = u[j]
  PROVE  s = u
OBVIOUS

LEMMA EnqueueRefines ==
  ASSUME IInv, NEW t \in QueueThreads, enqueue(t)
  PROVE  Abstract!Put(t) \/ UNCHANGED <<Content, out>>
<1> USE ContentIsSeq DEF ContentOK
<1>1. CASE queue_size < Capacity
  <2>1. /\ IInv'
        /\ array' = [array EXCEPT ![Slot(queue_size)] = t]
        /\ Slot(queue_size) \in Indexes
        /\ queue_size' = queue_size + 1 /\ front' = front /\ out' = out
    BY <1>1, EnqueueStep
  <2>2. Content' \in Seq(QueueThreads) /\ Len(Content') = queue_size + 1
        /\ \A j \in 1..(queue_size + 1) : Content'[j] = array'[Slot(j - 1)]
    BY <2>1, ContentIsSeqNext DEF Slot
  <2>3. ASSUME NEW j \in 1..(queue_size + 1)
        PROVE  Content'[j] = Append(Content, t)[j]
    <3>1. j - 1 \in 0..(Capacity - 1) /\ queue_size \in 0..(Capacity - 1)
      BY <1>1, Arith DEF IInv
    <3>2. Slot(j - 1) \in Indexes /\ (Slot(j - 1) = Slot(queue_size) => j - 1 = queue_size)
      BY <3>1, SlotValue, SlotInjective, Arith DEF IInv
    <3>3. CASE j = queue_size + 1
      BY <3>3, <2>1, <2>2, Arith DEF IInv, RingTypeOK
    <3>4. CASE j # queue_size + 1
      <4>1. j \in 1..queue_size /\ Slot(j - 1) # Slot(queue_size)
        BY <3>2, <3>4, Arith DEF IInv
      <4>2. Content'[j] = array[Slot(j - 1)]
        BY <2>1, <2>2, <3>2, <4>1 DEF IInv, RingTypeOK
      <4> QED BY <4>1, <4>2
    <3> QED BY <3>3, <3>4
  <2>4. Content' = Append(Content, t)
    <3>1. Append(Content, t) \in Seq(QueueThreads) /\ Len(Append(Content, t)) = queue_size + 1
      OBVIOUS
    <3> QED BY <2>2, <2>3, <3>1, SameSeq
  <2> QED BY <1>1, <2>1, <2>4 DEF Abstract!Put
<1>2. CASE ~(queue_size < Capacity)
  BY <1>2, HaltStep DEF enqueue, Asserting
<1> QED BY <1>1, <1>2

LEMMA DequeueRefines ==
  ASSUME IInv, dequeue
  PROVE  Abstract!Get \/ UNCHANGED <<Content, out>>
<1> USE ContentIsSeq DEF ContentOK
<1>1. CASE ~is_empty
  <2>1. /\ IInv' /\ queue_size # 0
        /\ \A k \in 0..(Capacity - 1) : Slot(k)' = Slot(k + 1)
        /\ array' = array
        /\ queue_size' = queue_size - 1
        /\ out' = array[Slot(0)]
    BY <1>1, DequeueStep
  <2>2. Content' \in Seq(QueueThreads) /\ Len(Content') = queue_size - 1
        /\ \A j \in 1..(queue_size - 1) : Content'[j] = array[Slot(j - 1)']
    BY <2>1, ContentIsSeqNext
  <2>3. ASSUME NEW j \in 1..(queue_size - 1)
        PROVE  Content'[j] = Tail(Content)[j]
    <3>1. j - 1 \in 0..(Capacity - 1) /\ (j - 1) + 1 = j /\ j + 1 \in 1..queue_size
          /\ (j + 1) - 1 = j
      BY Arith DEF IInv
    <3>2. Content'[j] = array[Slot(j)]
      BY <2>1, <2>2, <3>1
    <3>3. Content[j + 1] = array[Slot(j)]
      BY <3>1
    <3> QED BY <3>1, <3>2, <3>3
  <2>4. Content' = Tail(Content)
    <3>1. Content # <<>> /\ Tail(Content) \in Seq(QueueThreads)
          /\ Len(Tail(Content)) = queue_size - 1
      BY <2>1, Arith DEF IInv
    <3> QED BY <2>2, <2>3, <3>1, SameSeq
  <2>5. Content # <<>> /\ out' = Head(Content)
    BY <2>1, Arith DEF IInv
  <2> QED BY <2>4, <2>5 DEF Abstract!Get
<1>2. CASE is_empty
  BY <1>2, HaltStep DEF dequeue, Asserting
<1> QED BY <1>1, <1>2

LEMMA RemoveRefines ==
  ASSUME IInv, NEW t \in QueueThreads, remove(t)
  PROVE  Abstract!Drop(t) \/ UNCHANGED <<Content, out>>
<1> USE ContentIsSeq DEF ContentOK
<1>1. CASE is_empty
  BY <1>1, HaltStep DEF remove, Asserting, StepBack
<1>2. ASSUME ~is_empty,
             NEW first \in 0..(queue_size - 1),
             array[Slot(first)] = t,
             \A k \in 0..(first - 1) : array[Slot(k)] # t,
             array' = Shifted(first),
             queue_size' = queue_size - 1,
             rear' = IF rear = 0 THEN Capacity - 1 ELSE rear - 1,
             UNCHANGED <<front, out>>, aborted' = FALSE
      PROVE  Abstract!Drop(t)
  <2>1. /\ IInv'
        /\ \A k \in 0..(queue_size - 2) :
              array'[Slot(k)] = IF k < first THEN array[Slot(k)]
                                      ELSE array[Slot(k + 1)]
    BY <1>2, RemoveStep
  <2>2. Content' \in Seq(QueueThreads) /\ Len(Content') = queue_size - 1
        /\ \A j \in 1..(queue_size - 1) : Content'[j] = array'[Slot(j - 1)]
    BY <1>2, <2>1, ContentIsSeqNext DEF Slot
  <2>3. first + 1 \in 1..Len(Content) /\ Content[first + 1] = t
    BY <1>2, Arith DEF IInv
  <2>4. \A j \in 1..first : Content[j] # t
    <3> SUFFICES ASSUME NEW j \in 1..first PROVE Content[j] # t
      OBVIOUS
    <3>1. j - 1 \in 0..(first - 1) /\ j \in 1..queue_size
      BY Arith DEF IInv
    <3> QED BY <1>2, <3>1
  <2>5. ASSUME NEW j \in 1..(queue_size - 1)
        PROVE  Content'[j] = IF j < first + 1 THEN Content[j] ELSE Content[j + 1]
    <3>1. /\ j - 1 \in 0..(queue_size - 2) /\ (j - 1) + 1 = j /\ (j + 1) - 1 = j
          /\ j \in 1..queue_size /\ j + 1 \in 1..queue_size
          /\ (j - 1 < first) = (j < first + 1)
      BY Arith DEF IInv
    <3>2. Content'[j] = IF j - 1 < first THEN array[Slot(j - 1)]
                        ELSE array[Slot(j)]
      BY <2>1, <2>2, <3>1
    <3>3. Content[j] = array[Slot(j - 1)] /\ Content[j + 1] = array[Slot(j)]
      BY <3>1
    <3> QED BY <3>1, <3>2, <3>3
  <2>6. Content' = Abstract!Without(Content, first + 1)
    <3> DEFINE w == Abstract!Without(Content, first + 1)
    <3>1. w = [j \in 1..(queue_size - 1) |->
                 IF j < first + 1 THEN Content[j] ELSE Content[j + 1]]
      BY DEF Abstract!Without
    <3>2. \A j \in 1..(queue_size - 1) : Content[j] \in QueueThreads /\ Content[j + 1] \in QueueThreads
      BY Arith DEF IInv
    <3>3. queue_size - 1 \in Nat
      BY Arith DEF IInv
    <3> HIDE DEF w
    <3>4a. w \in [1..(queue_size - 1) -> QueueThreads]
      BY <3>1, <3>2, Zenon
    <3>4. w \in Seq(QueueThreads) /\ Len(w) = queue_size - 1
      BY <3>3, <3>4a, FunctionIsSeq
    <3>5. \A j \in 1..(queue_size - 1) : Content'[j] = w[j]
      BY <2>5, <3>1
    <3>6. Content' = w
      BY <2>2, <3>4, <3>5, SameSeq
    <3> QED BY <3>6 DEF w
  <2>7. (first + 1) - 1 = first
    BY Arith DEF IInv
  <2> QED BY <1>2, <2>3, <2>4, <2>6, <2>7 DEF Abstract!Drop
<1>3. ASSUME ~is_empty, \A k \in 0..(queue_size - 1) : array[Slot(k)] # t,
             UNCHANGED <<array, queue_size, rear, front, out>>
      PROVE  UNCHANGED <<Content, out>>
  BY <1>3 DEF Content, Slot
<1>4. CASE ~is_empty
  <2>1. /\ \/ \E first \in 0..(queue_size - 1) :
              /\ array[Slot(first)] = t
              /\ \A k \in 0..(first - 1) : array[Slot(k)] # t
              /\ array' = Shifted(first)
              /\ queue_size' = queue_size - 1
              /\ rear' = IF rear = 0 THEN Capacity - 1 ELSE rear - 1
           \/ /\ \A k \in 0..(queue_size - 1) : array[Slot(k)] # t
              /\ UNCHANGED <<array, queue_size, rear>>
        /\ UNCHANGED <<front, out>> /\ aborted' = FALSE
    BY <1>4 DEF remove, Asserting, StepBack
  <2> QED BY <1>2, <1>3, <1>4, <2>1
<1> QED BY <1>1, <1>4

THEOREM StepsRefine == IInv /\ [RingNext]_ringVars => [Abstract!Next]_<<Content, out>>
<1> SUFFICES ASSUME IInv, [RingNext]_ringVars PROVE [Abstract!Next]_<<Content, out>>
  OBVIOUS
<1>1. ASSUME NEW t \in QueueThreads, enqueue(t) PROVE [Abstract!Next]_<<Content, out>>
  BY <1>1, EnqueueRefines DEF Abstract!Next
<1>2. CASE dequeue
  BY <1>2, DequeueRefines DEF Abstract!Next
<1>3. CASE get_head
  <2>1. CASE ~is_empty
    <3>1. UNCHANGED <<array, queue_size, front>> /\ out' = array[front]
      BY <1>3, <2>1 DEF get_head, Asserting
    <3>2. Content' = Content
      BY <3>1 DEF Content, Slot
    <3>3. Content # <<>> /\ Head(Content) = array[Slot(0)]
      BY <2>1, ContentIsSeq, Arith DEF ContentOK, is_empty, IInv
    <3>4. Slot(0) = front
      BY SlotValue, Arith DEF IInv
    <3> QED BY <3>1, <3>2, <3>3, <3>4 DEF Abstract!Next, Abstract!Peek
  <2>2. CASE is_empty
    BY <1>3, <2>2, HaltStep DEF get_head, Asserting
  <2> QED BY <2>1, <2>2
<1>4. ASSUME NEW t \in QueueThreads, remove(t) PROVE [Abstract!Next]_<<Content, out>>
  BY <1>4, RemoveRefines DEF Abstract!Next
<1>5. CASE UNCHANGED ringVars
  BY <1>5 DEF ringVars, Content, Slot
<1> QED BY <1>1, <1>2, <1>3, <1>4, <1>5 DEF RingNext, Halted

\* Every behaviour of the arrays is a behaviour of the FIFO queue.
THEOREM RingIsFIFO == RingSpec => ImplementsFIFO
<1>1. RingInit => Abstract!Init
  BY DEF RingInit, Abstract!Init, Content
<1> QED BY <1>1, IInvHolds, StepsRefine, PTL DEF RingSpec, ImplementsFIFO, Abstract!Spec
----------------------------------------------------------------------------
(* The console. *)

\* The characters of a text, those that putch works on, and what a cell holds.
Printed == {Digits[d] : d \in 1..10} \cup {"<", ">"} \cup Controls
Characters == Printed \cup {"!", "LF", "wrap", Blank}
Marks == Characters \cup {"junk"}

Accesses == {"test", "where", "put", "load x", "store x", "margin", "edge", "wrap", "load y",
             "store y", "scroll", "move", "clear", "bottom", "idle"}

ConsoleStates ==
  [cells : [Cells -> Marks], x : Int, y : Int, at : Accesses, c : Characters, reg : Int,
   wild : BOOLEAN]

ScreenTypeOK ==
  /\ con \in ConsoleStates /\ (con.c = "BS" => ~Interrupts)
  /\ text \in Seq(Printed) /\ calls \in 0..MaxCalls /\ disturbed \in BOOLEAN

InLine(x, m) == x \in 0..(Cols - 1 + m)
OnScreen(y, m) == y \in 0..(Rows - 1 + m)

\* The cursor, and what putch holds in its register, before every access. A
\* handler may start with the cursor s behind the edge or below the screen.
CursorFits(at, c, x, y, reg, s) ==
  /\ at = "idle" => InLine(x, 0) /\ OnScreen(y, 0)
  /\ at = "test" => /\ InLine(x, s) /\ OnScreen(y, s) /\ (c \in {"BS", "HT"} => s = 0)
                    /\ c # "LF"
  /\ at = "margin" => InLine(x, s) /\ OnScreen(y, s)
  /\ at = "where" => InLine(x, s) /\ OnScreen(y, s) /\ y * Cols + x \in TextMemory
                       /\ c \notin {"BS", "HT", "LF"}
  /\ at = "put" => InLine(x, s) /\ OnScreen(y, s) /\ reg \in TextMemory
                     /\ c \notin {"BS", "HT", "LF"}
  /\ at = "load x" => /\ InLine(x, s) /\ OnScreen(y, s)
                        /\ (c = "BS" => x # 0) /\ (c \in {"BS", "HT"} => s = 0) /\ c # "LF"
  /\ at = "store x" => InLine(x, s) /\ OnScreen(y, s) /\ InLine(reg, 1 + s) /\ c # "LF"
  /\ at = "edge" => IF c = "LF" THEN InLine(x, 0) /\ OnScreen(y, 1 + s)
                      ELSE InLine(x, 1 + s) /\ OnScreen(y, s)
  /\ at = "wrap" => InLine(x, 1 + s) /\ OnScreen(y, s) /\ c # "LF"
  /\ at = "load y" => InLine(x, 0) /\ OnScreen(y, s)
  /\ at = "store y" => InLine(x, 0) /\ OnScreen(y, s) /\ OnScreen(reg, 1 + s)
  /\ at = "scroll" => InLine(x, 0) /\ OnScreen(y, 1 + s)
  /\ at \in {"move", "clear"} => InLine(x, 0) /\ OnScreen(y, 1 + s) /\ reg \in 1..(1 + s)
  /\ at = "bottom" => InLine(x, 0) /\ OnScreen(y, 1 + s)

Within(k, s) == ~k.wild /\ CursorFits(k.at, k.c, k.x, k.y, k.reg, s)

CursorIInv == ScreenTypeOK /\ Within(con, 0)

LEMMA NatProduct == \A a, b \in Nat : a * b \in Nat
OBVIOUS

LEMMA ScreenSizes ==
  ASSUME ConsoleAssumption
  PROVE  /\ Rows \in Nat /\ Rows >= 2 /\ Cols \in Nat /\ Cols >= 1 /\ Tab \in Nat /\ Tab >= 1
         /\ Cols % Tab = 0 /\ Stride \in Nat /\ Stride <= Cols
BY DEF ConsoleAssumption

\* A line of the screen in the text memory, and one after the other.
LEMMA LineInMemory ==
  ASSUME NEW w \in Nat, NEW a \in Nat, NEW b \in Nat, a < b
  PROVE  a * w \in Nat /\ b * w \in Nat /\ a * w + w <= b * w
<1>1. PICK d \in Nat : b = a + d + 1
  <2>1. b - a - 1 \in Nat /\ b = a + (b - a - 1) + 1
    OBVIOUS
  <2> QED BY <2>1
<1>2. a * w \in Nat /\ d * w \in Nat
  BY NatProduct
<1>3. b * w = a * w + d * w + w
  BY <1>1
<1> QED BY <1>2, <1>3

\* A state of the console is a record; its parts.
LEMMA Parts ==
  ASSUME NEW k \in ConsoleStates
  PROVE  /\ k.cells \in [Cells -> Marks] /\ k.x \in Int /\ k.y \in Int /\ k.at \in Accesses
         /\ k.c \in Characters /\ k.reg \in Int /\ k.wild \in BOOLEAN
BY DEF ConsoleStates

\* The next tab stop is in the line or at its edge.
LEMMA TabStop ==
  ASSUME ConsoleAssumption, NEW x \in Nat, x < Cols
  PROVE  /\ ((x + Tab) \div Tab) * Tab = x + Tab - (x % Tab)
         /\ x % Tab \in 0..(Tab - 1) /\ x + Tab - (x % Tab) <= Cols
<1>0. Tab \in Nat /\ Tab >= 1 /\ Cols \in Nat /\ Cols % Tab = 0
  BY ScreenSizes
<1>1. PICK q \in Nat, r \in 0..(Tab - 1) : x = q * Tab + r /\ x % Tab = r /\ x \div Tab = q
  <2>1. x \div Tab \in Nat /\ x % Tab \in 0..(Tab - 1) /\ x = (x \div Tab) * Tab + (x % Tab)
    BY <1>0
  <2> QED BY <2>1
<1>2. PICK m \in Nat : Cols = m * Tab
  <2>1. Cols \div Tab \in Nat /\ Cols = (Cols \div Tab) * Tab + (Cols % Tab)
    BY <1>0
  <2> QED BY <1>0, <2>1
<1>3. q < m
  <2> SUFFICES ASSUME m < q \/ m = q PROVE FALSE
    OBVIOUS
  <2>1. m * Tab <= q * Tab /\ q * Tab \in Nat /\ m * Tab \in Nat
    BY <1>0, LineInMemory, NatProduct
  <2> QED BY <1>1, <1>2, <2>1
<1>4. q * Tab + Tab <= m * Tab
  BY <1>0, <1>3, LineInMemory
<1>5. (x + Tab) \div Tab = q + 1
  <2>1. x + Tab = (q + 1) * Tab + r /\ q * Tab \in Nat
    BY <1>0, <1>1, NatProduct
  <2> QED BY <1>0, <1>1, <2>1
<1>6. (q + 1) * Tab = q * Tab + Tab /\ q * Tab \in Nat
  BY <1>0, NatProduct
<1> QED BY <1>0, <1>1, <1>2, <1>4, <1>5, <1>6

\* A cell of the screen, or of the line below it, is in the text memory.
LEMMA CellInMemory ==
  ASSUME ConsoleAssumption, NEW r \in Nat, r <= Rows, NEW c \in Nat, c < Cols
  PROVE  r * Cols + c \in TextMemory /\ r * Cols + c \in Cells /\ r * Cols \in Nat
<1>0. Rows \in Nat /\ Cols \in Nat
  BY ScreenSizes
<1>1. r * Cols \in Nat /\ (Rows + 1) * Cols \in Nat /\ r * Cols + Cols <= (Rows + 1) * Cols
  BY <1>0, LineInMemory
<1>2. (Rows + 1) * Cols + Cols <= (Rows + 2) * Cols /\ (Rows + 2) * Cols \in Nat
  BY <1>0, LineInMemory
<1>3. r * Cols + c \in 0..((Rows + 1) * Cols - 1) /\ r * Cols + c \in 0..((Rows + 2) * Cols - 1)
  BY ONLY <1>0, <1>1, <1>2, r \in Nat, c \in Nat, c < Cols
<1> QED BY <1>1, <1>3 DEF TextMemory, Cells

\* memcpy in scroll copies from within the text memory.
LEMMA MovedWithin ==
  ASSUME ConsoleAssumption, NEW k \in ConsoleStates, k.reg \in 1..2
  PROVE  Moved(k) \in [Cells -> Marks]
<1>0. Rows \in Nat /\ Rows >= 2 /\ Cols \in Nat /\ Cols >= 1 /\ Stride \in Nat /\ Stride <= Cols
  BY ScreenSizes
<1> DEFINE from == k.reg * Stride
           count == (Rows - k.reg) * Cols
<1>1. from \in Nat /\ count \in Nat /\ count + from <= Rows * Cols
  <2>1. CASE k.reg = 1
    <3>1. count = Rows * Cols - Cols /\ from = Stride
      BY <1>0, <2>1
    <3>2. (Rows - 1) * Cols \in Nat
      BY <1>0, NatProduct
    <3> QED BY <1>0, <2>1, <3>1, <3>2, NatProduct
  <2>2. CASE k.reg = 2
    <3>1. count = Rows * Cols - 2 * Cols /\ from = 2 * Stride
      BY <1>0, <2>2
    <3>2. (Rows - 2) * Cols \in Nat
      BY <1>0, NatProduct
    <3> QED BY <1>0, <2>2, <3>1, <3>2, NatProduct
  <2> QED BY <2>1, <2>2
<1>2. Rows * Cols \in Nat /\ (Rows + 2) * Cols = Rows * Cols + 2 * Cols
  BY <1>0, NatProduct
<1> HIDE DEF from, count
<1>3. ASSUME NEW a \in Cells PROVE a < count => a + from \in Cells
  BY <1>0, <1>1, <1>2, <1>3 DEF Cells
<1>4. k.cells \in [Cells -> Marks]
  BY Parts
<1>5. Moved(k) = [a \in Cells |-> IF a < count THEN k.cells[a + from] ELSE k.cells[a]]
  BY DEF Moved, memcpy, from, count
<1> QED BY <1>3, <1>4, <1>5

\* What an access makes of the state, part by part.
Becomes(h, cells, x, y, at, c, reg, wild) ==
  /\ h \in ConsoleStates
  /\ h.cells = cells /\ h.x = x /\ h.y = y /\ h.at = at /\ h.c = c /\ h.reg = reg /\ h.wild = wild

LEMMA Gone ==
  ASSUME NEW k \in ConsoleStates, NEW label \in Accesses
  PROVE  Becomes(Goto(k, label), k.cells, k.x, k.y, label, k.c, k.reg, k.wild)
BY Parts DEF ConsoleStates, Goto, Becomes

LEMMA Loaded ==
  ASSUME NEW k \in ConsoleStates, NEW label \in Accesses, NEW value \in Int
  PROVE  Becomes(Load(k, value, label), k.cells, k.x, k.y, label, k.c, value, k.wild)
BY Parts DEF ConsoleStates, Load, Becomes

Put_x(k, value, label) == [k EXCEPT !.x = value, !.at = label]
Put_y(k, value, label) == [k EXCEPT !.y = value, !.at = label]
Wrapped(k, value, c, label) == [k EXCEPT !.x = value, !.c = c, !.at = label]

LEMMA CursorPut ==
  ASSUME NEW k \in ConsoleStates, NEW label \in Accesses, NEW value \in Int,
         NEW c \in Characters
  PROVE  /\ Becomes(Put_x(k, value, label), k.cells, value, k.y, label, k.c, k.reg, k.wild)
         /\ Becomes(Put_y(k, value, label), k.cells, k.x, value, label, k.c, k.reg, k.wild)
         /\ Becomes(Wrapped(k, value, c, label), k.cells, value, k.y, label, c, k.reg, k.wild)
<1>1. Becomes(Put_x(k, value, label), k.cells, value, k.y, label, k.c, k.reg, k.wild)
  BY Parts DEF ConsoleStates, Becomes, Put_x
<1>2. Becomes(Put_y(k, value, label), k.cells, k.x, value, label, k.c, k.reg, k.wild)
  BY Parts DEF ConsoleStates, Becomes, Put_y
<1>3. Becomes(Wrapped(k, value, c, label), k.cells, value, k.y, label, c, k.reg, k.wild)
  BY Parts DEF ConsoleStates, Becomes, Wrapped
<1> QED BY <1>1, <1>2, <1>3

Value_x(k) == CASE k.c = "BS" -> k.x - 1
                [] k.c = "HT" -> ((k.x + Tab) \div Tab) * Tab
                [] OTHER -> k.x + 1

Put(k) == [a \in Cells |-> IF a = k.reg THEN k.c ELSE k.cells[a]]

LEMMA Accessed ==
  ASSUME ConsoleAssumption, NEW k \in ConsoleStates
  PROVE  /\ k.at = "test" =>
              Becomes(Step(k), k.cells, k.x, k.y, IF k.x # 0 THEN "load x" ELSE "edge", k.c, k.reg,
                      k.wild)
         /\ k.at = "where" =>
              Becomes(Step(k), k.cells, k.x, k.y, "put", k.c, k.y * Cols + k.x, k.wild)
         /\ k.at = "put" =>
              Becomes(Step(k), Put(k), k.x, k.y, "load x", k.c, k.reg,
                      k.wild \/ k.reg \notin TextMemory)
         /\ k.at = "load x" =>
              Becomes(Step(k), k.cells, k.x, k.y, "store x", k.c, Value_x(k), k.wild)
         /\ k.at = "store x" =>
              Becomes(Step(k), k.cells, k.reg, k.y, "edge", k.c, k.reg, k.wild)
         /\ k.at = "margin" =>
              Becomes(Step(k), k.cells, 0, k.y, IF k.c = "CR" THEN "edge" ELSE "load y", k.c, k.reg,
                      k.wild)
         /\ k.at = "edge" =>
              Becomes(Step(k), k.cells, k.x, k.y, IF k.x >= Cols THEN "wrap" ELSE "scroll", k.c,
                      k.reg, k.wild)
         /\ k.at = "wrap" => Becomes(Step(k), k.cells, 0, k.y, "load y", "wrap", k.reg, k.wild)
         /\ k.at = "load y" =>
              Becomes(Step(k), k.cells, k.x, k.y, "store y", k.c, k.y + 1, k.wild)
         /\ k.at = "store y" =>
              Becomes(Step(k), k.cells, k.x, k.reg, IF k.c = "LF" THEN "edge" ELSE "scroll", k.c,
                      k.reg, k.wild)
         /\ k.at = "scroll" /\ k.y >= Rows =>
              Becomes(Step(k), k.cells, k.x, k.y, "move", k.c, k.y - Rows + 1, k.wild)
         /\ k.at = "scroll" /\ k.y < Rows =>
              Becomes(Step(k), k.cells, k.x, k.y, "idle", k.c, k.reg, k.wild)
         /\ k.at = "move" /\ k.reg \in 1..2 =>
              Becomes(Step(k), Moved(k), k.x, k.y, "clear", k.c, k.reg, k.wild \/ k.reg > Rows)
         /\ k.at = "clear" =>
              Becomes(Step(k), memsetw(k.cells, (Rows - k.reg) * Cols, Cols), k.x, k.y, "bottom",
                      k.c, k.reg, k.wild)
         /\ k.at = "bottom" =>
              Becomes(Step(k), k.cells, k.x, Rows - 1, "idle", k.c, k.reg, k.wild)
<1>0. /\ Rows \in Nat /\ Rows >= 2 /\ Cols \in Nat /\ Cols >= 1 /\ Tab \in Nat /\ Tab >= 1
      /\ k.x \in Int /\ k.y \in Int /\ 0 \in Int /\ Rows - 1 \in Int
  BY ScreenSizes, Parts
<1>1. CASE k.at = "test"
  <2>1. Step(k) = Goto(k, IF k.x # 0 THEN "load x" ELSE "edge")
    BY <1>1 DEF Step
  <2>2. (IF k.x # 0 THEN "load x" ELSE "edge") \in Accesses
    BY DEF Accesses
  <2> QED BY <1>1, <2>1, <2>2, Gone
<1>2. CASE k.at = "where"
  <2>1. Step(k) = Load(k, k.y * Cols + k.x, "put")
    BY <1>2 DEF Step
  <2>2. "put" \in Accesses /\ k.y * Cols + k.x \in Int
    BY <1>0 DEF Accesses
  <2> QED BY <1>2, <2>1, <2>2, Loaded
<1>3. CASE k.at = "put"
  <2> DEFINE w == k.wild \/ k.reg \notin TextMemory
  <2>1. Step(k) = [k EXCEPT !.cells = Put(k), !.wild = w, !.at = "load x"]
    BY <1>3 DEF Step, ConsoleStates, Put
  <2>2. Put(k) \in [Cells -> Marks]
    BY Parts DEF Put, Marks
  <2>3. w \in BOOLEAN /\ "load x" \in Accesses
    BY DEF Accesses
  <2> HIDE DEF w
  <2>4. Becomes(Step(k), Put(k), k.x, k.y, "load x", k.c, k.reg, w)
    BY <2>1, <2>2, <2>3 DEF Becomes, ConsoleStates
  <2> QED BY <1>3, <2>4 DEF w
<1>4. CASE k.at = "load x"
  <2>1. Step(k) = Load(k, Value_x(k), "store x")
    BY <1>4 DEF Step, Value_x
  <2>2. "store x" \in Accesses /\ Value_x(k) \in Int
    BY <1>0 DEF Accesses, Value_x
  <2> QED BY <1>4, <2>1, <2>2, Loaded
<1>5. CASE k.at = "store x"
  <2>1. Step(k) = Put_x(k, k.reg, "edge") /\ "edge" \in Accesses
    BY <1>5 DEF Step, Accesses, Put_x
  <2>2. Becomes(Step(k), k.cells, k.reg, k.y, "edge", k.c, k.reg, k.wild)
    BY <1>0, <2>1, CursorPut, Parts
  <2> QED BY <1>5, <2>2
<1>6. CASE k.at = "margin"
  <2> DEFINE next == IF k.c = "CR" THEN "edge" ELSE "load y"
  <2>1. Step(k) = Put_x(k, 0, next) /\ next \in Accesses
    BY <1>6 DEF Step, Accesses, Put_x
  <2> HIDE DEF next
  <2>2. Becomes(Step(k), k.cells, 0, k.y, next, k.c, k.reg, k.wild)
    BY <1>0, <2>1, CursorPut, Parts
  <2> QED BY <1>6, <2>2 DEF next
<1>7. CASE k.at = "edge"
  <2>1. Step(k) = Goto(k, IF k.x >= Cols THEN "wrap" ELSE "scroll")
    BY <1>7 DEF Step, AtEdge
  <2>2. (IF k.x >= Cols THEN "wrap" ELSE "scroll") \in Accesses
    BY DEF Accesses
  <2> QED BY <1>7, <2>1, <2>2, Gone
<1>8. CASE k.at = "wrap"
  <2>1. /\ Step(k) = Wrapped(k, 0, "wrap", "load y")
        /\ "load y" \in Accesses /\ "wrap" \in Characters
    BY <1>8 DEF Step, Wrapped, Accesses, Characters
  <2>2. Becomes(Step(k), k.cells, 0, k.y, "load y", "wrap", k.reg, k.wild)
    BY <1>0, <2>1, Parts, CursorPut
  <2> QED BY <1>8, <2>2
<1>9. CASE k.at = "load y"
  <2>1. Step(k) = Load(k, k.y + 1, "store y")
    BY <1>9 DEF Step
  <2>2. "store y" \in Accesses /\ k.y + 1 \in Int
    BY <1>0 DEF Accesses
  <2> QED BY <1>9, <2>1, <2>2, Loaded
<1>10. CASE k.at = "store y"
  <2> DEFINE next == IF k.c = "LF" THEN "edge" ELSE "scroll"
  <2>1. Step(k) = Put_y(k, k.reg, next) /\ next \in Accesses
    BY <1>10 DEF Step, Accesses, Put_y
  <2> HIDE DEF next
  <2>2. Becomes(Step(k), k.cells, k.x, k.reg, next, k.c, k.reg, k.wild)
    BY <2>1, CursorPut, Parts
  <2> QED BY <1>10, <2>2 DEF next
<1>11. CASE k.at = "scroll" /\ k.y >= Rows
  <2>1. Step(k) = Load(k, k.y - Rows + 1, "move")
    BY <1>11 DEF Step
  <2>2. "move" \in Accesses /\ k.y - Rows + 1 \in Int
    BY <1>0 DEF Accesses
  <2> QED BY <1>0, <1>11, <2>1, <2>2, Loaded
<1>12. CASE k.at = "scroll" /\ k.y < Rows
  <2>1. Step(k) = Goto(k, "idle") /\ "idle" \in Accesses
    BY <1>0, <1>12 DEF Step, Accesses
  <2> QED BY <1>0, <1>12, <2>1, Gone
<1>13. CASE k.at = "move" /\ k.reg \in 1..2
  <2> DEFINE w == k.wild \/ k.reg > Rows
  <2>1. Step(k) = [k EXCEPT !.cells = Moved(k), !.wild = w, !.at = "clear"]
    BY <1>13 DEF Step, ConsoleStates
  <2>2. Moved(k) \in [Cells -> Marks]
    BY <1>13, MovedWithin
  <2>3. w \in BOOLEAN /\ "clear" \in Accesses
    BY DEF Accesses
  <2> HIDE DEF w
  <2>4. Becomes(Step(k), Moved(k), k.x, k.y, "clear", k.c, k.reg, w)
    BY <2>1, <2>2, <2>3 DEF Becomes, ConsoleStates
  <2> QED BY <1>13, <2>4 DEF w
<1>14. CASE k.at = "clear"
  <2> DEFINE cells == memsetw(k.cells, (Rows - k.reg) * Cols, Cols)
  <2>1. Step(k) = [k EXCEPT !.cells = cells, !.at = "bottom"] /\ "bottom" \in Accesses
    BY <1>14 DEF Step, Accesses, ConsoleStates
  <2>2. cells \in [Cells -> Marks]
    BY Parts DEF memsetw, Marks, Characters
  <2> HIDE DEF cells
  <2>3. Becomes(Step(k), cells, k.x, k.y, "bottom", k.c, k.reg, k.wild)
    BY <2>1, <2>2 DEF Becomes, ConsoleStates
  <2> QED BY <1>14, <2>3 DEF cells
<1>15. CASE k.at = "bottom"
  <2>1. Step(k) = Put_y(k, Rows - 1, "idle") /\ "idle" \in Accesses
    BY <1>15 DEF Step, Accesses, Put_y
  <2>2. Becomes(Step(k), k.cells, k.x, Rows - 1, "idle", k.c, k.reg, k.wild)
    BY <1>0, <2>1, CursorPut, Parts
  <2> QED BY <1>15, <2>2
<1> QED BY <1>0, <1>1, <1>2, <1>3, <1>4, <1>5, <1>6, <1>7, <1>8, <1>9, <1>10, <1>11, <1>12, <1>13,
           <1>14, <1>15

\* Every access keeps the cursor and the register where they belong.
LEMMA StepWithin ==
  ASSUME ConsoleAssumption, NEW k \in ConsoleStates, NEW s \in {0, 1}, Within(k, s), k.at # "idle"
  PROVE  Within(Step(k), s) /\ Step(k) \in ConsoleStates /\ Step(k).c \in {k.c, "wrap"}
<1>0. /\ Rows \in Nat /\ Rows >= 2 /\ Cols \in Nat /\ Cols >= 1 /\ Tab \in Nat /\ Tab >= 1
      /\ k.x \in Int /\ k.y \in Int /\ k.reg \in Int /\ s \in Int /\ (s = 0 \/ s = 1)
      /\ k.at \in Accesses
  BY ScreenSizes, Parts
<1>1. /\ \A x \in Int : InLine(x, 0) => InLine(x, s) /\ InLine(x, 1 + s)
      /\ \A x \in Int : InLine(x, s) /\ x # 0 => InLine(x - 1, 1 + s)
      /\ \A x \in Int : InLine(x, s) => InLine(x, 1 + s) /\ InLine(x + 1, 1 + s)
      /\ \A x \in Int : InLine(x, 1 + s) /\ x < Cols => InLine(x, 0)
      /\ \A x \in Int : InLine(x, 0) => x < Cols
      /\ InLine(0, 0) /\ InLine(0, s) /\ InLine(0, 1 + s)
      /\ (s = 0 => \A x \in Int : InLine(x, s) => x \in Nat /\ x < Cols)
  BY <1>0 DEF InLine
<1>2. /\ \A y \in Int : OnScreen(y, s) => OnScreen(y, 1 + s) /\ OnScreen(y + 1, 1 + s)
      /\ \A y \in Int : OnScreen(y, 1 + s) /\ y < Rows => OnScreen(y, 0)
      /\ \A y \in Int : OnScreen(y, 1 + s) /\ y >= Rows => y - Rows + 1 \in 1..(1 + s)
      /\ OnScreen(Rows - 1, 0)
  BY <1>0 DEF OnScreen
<1>3. CASE k.at = "test"
  <2>1. Becomes(Step(k), k.cells, k.x, k.y, IF k.x # 0 THEN "load x" ELSE "edge",
                k.c, k.reg, k.wild)
    BY <1>3, Accessed
  <2>2. /\ ~k.wild /\ InLine(k.x, s) /\ OnScreen(k.y, s)
        /\ (k.c \in {"BS", "HT"} => s = 0) /\ k.c # "LF"
    BY <1>3 DEF Within, CursorFits
  <2>3. CursorFits(IF k.x # 0 THEN "load x" ELSE "edge", k.c, k.x, k.y, k.reg, s)
    BY <1>0, <1>1, <1>2, <2>2 DEF CursorFits
  <2> QED BY <2>1, <2>2, <2>3 DEF Within, Becomes
<1>4. CASE k.at = "where"
  <2>1. Becomes(Step(k), k.cells, k.x, k.y, "put", k.c, k.y * Cols + k.x, k.wild)
    BY <1>4, Accessed
  <2>2. ~k.wild /\ InLine(k.x, s) /\ OnScreen(k.y, s) /\ k.y * Cols + k.x \in TextMemory /\ k.c \notin {"BS", "HT", "LF"}
    BY <1>4 DEF Within, CursorFits
  <2>3. CursorFits("put", k.c, k.x, k.y, k.y * Cols + k.x, s)
    BY <1>0, <1>1, <1>2, <2>2 DEF CursorFits
  <2> QED BY <2>1, <2>2, <2>3 DEF Within, Becomes
<1>5. CASE k.at = "put"
  <2>1. Becomes(Step(k), Put(k), k.x, k.y, "load x",
                k.c, k.reg, k.wild \/ k.reg \notin TextMemory)
    BY <1>5, Accessed
  <2>2. ~k.wild /\ InLine(k.x, s) /\ OnScreen(k.y, s) /\ k.reg \in TextMemory /\ k.c \notin {"BS", "HT", "LF"}
    BY <1>5 DEF Within, CursorFits
  <2>3. CursorFits("load x", k.c, k.x, k.y, k.reg, s)
    BY <1>0, <1>1, <1>2, <2>2 DEF CursorFits
  <2>4. (k.wild \/ k.reg \notin TextMemory) = FALSE
    BY <1>0, <2>2
  <2> QED BY <2>1, <2>2, <2>3, <2>4 DEF Within, Becomes
<1>6. CASE k.at = "load x"
  <2>1. Becomes(Step(k), k.cells, k.x, k.y, "store x", k.c, Value_x(k), k.wild)
    BY <1>6, Accessed
  <2>2. /\ ~k.wild /\ InLine(k.x, s) /\ OnScreen(k.y, s)
        /\ k.c # "LF" /\ (k.c = "BS" => k.x # 0) /\ (k.c \in {"BS", "HT"} => s = 0)
    BY <1>6 DEF Within, CursorFits
  <2>4. InLine(Value_x(k), 1 + s)
    <3>1. CASE k.c = "BS"
      BY <1>0, <1>1, <2>2, <3>1 DEF Value_x
    <3>2. CASE k.c = "HT"
      <4>1. k.x \in Nat /\ k.x < Cols /\ s = 0
        BY <1>0, <1>1, <2>2, <3>2
      <4>2. /\ Value_x(k) = k.x + Tab - (k.x % Tab)
            /\ k.x % Tab \in 0..(Tab - 1) /\ k.x + Tab - (k.x % Tab) <= Cols
        BY <4>1, <3>2, TabStop DEF Value_x
      <4> QED BY <1>0, <4>1, <4>2 DEF InLine
    <3>3. CASE k.c \notin {"BS", "HT"}
      BY <1>0, <1>1, <2>2, <3>3 DEF Value_x
    <3> QED BY <3>1, <3>2, <3>3
  <2>3. CursorFits("store x", k.c, k.x, k.y, Value_x(k), s)
    BY <1>0, <1>1, <1>2, <2>2, <2>4 DEF CursorFits
  <2> QED BY <2>1, <2>2, <2>3 DEF Within, Becomes
<1>7. CASE k.at = "store x"
  <2>1. Becomes(Step(k), k.cells, k.reg, k.y, "edge", k.c, k.reg, k.wild)
    BY <1>7, Accessed
  <2>2. ~k.wild /\ InLine(k.reg, 1 + s) /\ OnScreen(k.y, s) /\ k.c # "LF"
    BY <1>7 DEF Within, CursorFits
  <2>3. CursorFits("edge", k.c, k.reg, k.y, k.reg, s)
    BY <1>0, <1>1, <1>2, <2>2 DEF CursorFits
  <2> QED BY <2>1, <2>2, <2>3 DEF Within, Becomes
<1>8. CASE k.at = "margin"
  <2>1. Becomes(Step(k), k.cells, 0, k.y, IF k.c = "CR" THEN "edge" ELSE "load y",
                k.c, k.reg, k.wild)
    BY <1>8, Accessed
  <2>2. ~k.wild /\ OnScreen(k.y, s)
    BY <1>8 DEF Within, CursorFits
  <2>3. CursorFits(IF k.c = "CR" THEN "edge" ELSE "load y", k.c, 0, k.y, k.reg, s)
    BY <1>0, <1>1, <1>2, <2>2 DEF CursorFits
  <2> QED BY <2>1, <2>2, <2>3 DEF Within, Becomes
<1>9. CASE k.at = "edge"
  <2>1. Becomes(Step(k), k.cells, k.x, k.y, IF k.x >= Cols THEN "wrap" ELSE "scroll",
                k.c, k.reg, k.wild)
    BY <1>9, Accessed
  <2>2. ~k.wild /\ (IF k.c = "LF" THEN InLine(k.x, 0) /\ OnScreen(k.y, 1 + s)
                       ELSE InLine(k.x, 1 + s) /\ OnScreen(k.y, s))
    BY <1>9 DEF Within, CursorFits
  <2>3. CursorFits(IF k.x >= Cols THEN "wrap" ELSE "scroll", k.c, k.x, k.y, k.reg, s)
    BY <1>0, <1>1, <1>2, <2>2 DEF CursorFits
  <2> QED BY <2>1, <2>2, <2>3 DEF Within, Becomes
<1>10. CASE k.at = "wrap"
  <2>1. Becomes(Step(k), k.cells, 0, k.y, "load y", "wrap", k.reg, k.wild)
    BY <1>10, Accessed
  <2>2. ~k.wild /\ OnScreen(k.y, s)
    BY <1>10 DEF Within, CursorFits
  <2>3. CursorFits("load y", "wrap", 0, k.y, k.reg, s)
    BY <1>0, <1>1, <1>2, <2>2 DEF CursorFits
  <2> QED BY <2>1, <2>2, <2>3 DEF Within, Becomes
<1>11. CASE k.at = "load y"
  <2>1. Becomes(Step(k), k.cells, k.x, k.y, "store y", k.c, k.y + 1, k.wild)
    BY <1>11, Accessed
  <2>2. ~k.wild /\ InLine(k.x, 0) /\ OnScreen(k.y, s)
    BY <1>11 DEF Within, CursorFits
  <2>3. CursorFits("store y", k.c, k.x, k.y, k.y + 1, s)
    BY <1>0, <1>1, <1>2, <2>2 DEF CursorFits
  <2> QED BY <2>1, <2>2, <2>3 DEF Within, Becomes
<1>12. CASE k.at = "store y"
  <2>1. Becomes(Step(k), k.cells, k.x, k.reg, IF k.c = "LF" THEN "edge" ELSE "scroll",
                k.c, k.reg, k.wild)
    BY <1>12, Accessed
  <2>2. ~k.wild /\ InLine(k.x, 0) /\ OnScreen(k.reg, 1 + s)
    BY <1>12 DEF Within, CursorFits
  <2>3. CursorFits(IF k.c = "LF" THEN "edge" ELSE "scroll", k.c, k.x, k.reg, k.reg, s)
    BY <1>0, <1>1, <1>2, <2>2 DEF CursorFits
  <2> QED BY <2>1, <2>2, <2>3 DEF Within, Becomes
<1>13. CASE k.at = "scroll" /\ k.y >= Rows
  <2>1. Becomes(Step(k), k.cells, k.x, k.y, "move", k.c, k.y - Rows + 1, k.wild)
    BY <1>13, Accessed
  <2>2. ~k.wild /\ InLine(k.x, 0) /\ OnScreen(k.y, 1 + s)
    BY <1>13 DEF Within, CursorFits
  <2>3. CursorFits("move", k.c, k.x, k.y, k.y - Rows + 1, s)
    BY <1>0, <1>1, <1>2, <2>2, <1>13 DEF CursorFits
  <2> QED BY <2>1, <2>2, <2>3 DEF Within, Becomes
<1>14. CASE k.at = "scroll" /\ k.y < Rows
  <2>1. Becomes(Step(k), k.cells, k.x, k.y, "idle", k.c, k.reg, k.wild)
    BY <1>14, Accessed
  <2>2. ~k.wild /\ InLine(k.x, 0) /\ OnScreen(k.y, 1 + s)
    BY <1>14 DEF Within, CursorFits
  <2>3. CursorFits("idle", k.c, k.x, k.y, k.reg, s)
    BY <1>0, <1>1, <1>2, <2>2, <1>14 DEF CursorFits
  <2> QED BY <2>1, <2>2, <2>3 DEF Within, Becomes
<1>15. CASE k.at = "move"
  <2>1. ~k.wild /\ InLine(k.x, 0) /\ OnScreen(k.y, 1 + s) /\ k.reg \in 1..(1 + s)
    BY <1>15 DEF Within, CursorFits
  <2>2. k.reg \in 1..2
    BY <1>0, <2>1
  <2>3. Becomes(Step(k), Moved(k), k.x, k.y, "clear", k.c, k.reg, k.wild \/ k.reg > Rows)
    BY <1>15, <2>2, Accessed
  <2>4. CursorFits("clear", k.c, k.x, k.y, k.reg, s)
    BY <1>0, <1>1, <1>2, <2>1 DEF CursorFits
  <2>5. (k.wild \/ k.reg > Rows) = FALSE
    BY <1>0, <2>1, <2>2
  <2> QED BY <2>1, <2>3, <2>4, <2>5 DEF Within, Becomes
<1>16. CASE k.at = "clear"
  <2>1. Becomes(Step(k), memsetw(k.cells, (Rows - k.reg) * Cols, Cols), k.x, k.y, "bottom",
                k.c, k.reg, k.wild)
    BY <1>16, Accessed
  <2>2. ~k.wild /\ InLine(k.x, 0) /\ OnScreen(k.y, 1 + s)
    BY <1>16 DEF Within, CursorFits
  <2>3. CursorFits("bottom", k.c, k.x, k.y, k.reg, s)
    BY <1>0, <1>1, <1>2, <2>2 DEF CursorFits
  <2> QED BY <2>1, <2>2, <2>3 DEF Within, Becomes
<1>17. CASE k.at = "bottom"
  <2>1. Becomes(Step(k), k.cells, k.x, Rows - 1, "idle", k.c, k.reg, k.wild)
    BY <1>17, Accessed
  <2>2. ~k.wild /\ InLine(k.x, 0)
    BY <1>17 DEF Within, CursorFits
  <2>3. CursorFits("idle", k.c, k.x, Rows - 1, k.reg, s)
    BY <1>0, <1>1, <1>2, <2>2 DEF CursorFits
  <2> QED BY <2>1, <2>2, <2>3 DEF Within, Becomes
<1>18. \/ k.at = "test" \/ k.at = "where" \/ k.at = "put" \/ k.at = "load x" \/ k.at = "store x"
       \/ k.at = "margin" \/ k.at = "edge" \/ k.at = "wrap" \/ k.at = "load y" \/ k.at = "store y"
       \/ k.at = "scroll" \/ k.at = "move" \/ k.at = "clear" \/ k.at = "bottom"
  BY <1>0 DEF Accesses
<1>19. k.y >= Rows \/ k.y < Rows
  BY <1>0
<1> QED BY <1>3, <1>4, <1>5, <1>6, <1>7, <1>8, <1>9, <1>10, <1>11, <1>12, <1>13, <1>14, <1>15,
           <1>16, <1>17, <1>18, <1>19, Zenon

\* After no more than m accesses putch is through.
Left(at, c, m) ==
  /\ at = "bottom" => m >= 1
  /\ at = "clear" => m >= 2
  /\ at = "move" => m >= 3
  /\ at = "scroll" => m >= 4
  /\ at = "store y" => m >= (IF c = "LF" THEN 9 ELSE 5)
  /\ at = "load y" => m >= (IF c = "LF" THEN 10 ELSE 6)
  /\ at = "wrap" => m >= 7
  /\ at = "edge" => m >= 8
  /\ at = "store x" => m >= 9
  /\ at = "load x" => m >= 10
  /\ at \in {"put", "test", "margin"} => m >= 11
  /\ at = "where" => m >= 12

LEMMA LeftLess ==
  ASSUME NEW c, NEW m \in Nat
  PROVE  /\ Left("test", c, m + 1) => Left("load x", c, m) /\ Left("edge", c, m)
         /\ Left("where", c, m + 1) => Left("put", c, m)
         /\ Left("put", c, m + 1) => Left("load x", c, m)
         /\ Left("load x", c, m + 1) => Left("store x", c, m)
         /\ Left("store x", c, m + 1) => Left("edge", c, m)
         /\ Left("margin", c, m + 1) => Left("edge", c, m) /\ Left("load y", c, m)
         /\ Left("edge", c, m + 1) => Left("wrap", c, m) /\ Left("scroll", c, m)
         /\ Left("wrap", c, m + 1) => Left("load y", "wrap", m)
         /\ Left("load y", c, m + 1) => Left("store y", c, m)
         /\ Left("store y", c, m + 1) => Left(IF c = "LF" THEN "edge" ELSE "scroll", c, m)
         /\ Left("scroll", c, m + 1) => Left("move", c, m) /\ Left("idle", c, m)
         /\ Left("move", c, m + 1) => Left("clear", c, m)
         /\ Left("clear", c, m + 1) => Left("bottom", c, m)
         /\ Left("bottom", c, m + 1) => Left("idle", c, m)
<1>1. Left("test", c, m + 1) => Left("load x", c, m) /\ Left("edge", c, m)
  BY DEF Left
<1>2. Left("where", c, m + 1) => Left("put", c, m)
  BY DEF Left
<1>3. Left("put", c, m + 1) => Left("load x", c, m)
  BY DEF Left
<1>4. Left("load x", c, m + 1) => Left("store x", c, m)
  BY DEF Left
<1>5. Left("store x", c, m + 1) => Left("edge", c, m)
  BY DEF Left
<1>6. Left("margin", c, m + 1) => Left("edge", c, m) /\ Left("load y", c, m)
  BY DEF Left
<1>7. Left("edge", c, m + 1) => Left("wrap", c, m) /\ Left("scroll", c, m)
  BY DEF Left
<1>8. Left("wrap", c, m + 1) => Left("load y", "wrap", m)
  BY DEF Left
<1>9. Left("load y", c, m + 1) => Left("store y", c, m)
  BY DEF Left
<1>10. Left("store y", c, m + 1) => Left(IF c = "LF" THEN "edge" ELSE "scroll", c, m)
  BY DEF Left
<1>11. Left("scroll", c, m + 1) => Left("move", c, m) /\ Left("idle", c, m)
  BY DEF Left
<1>12. Left("move", c, m + 1) => Left("clear", c, m)
  BY DEF Left
<1>13. Left("clear", c, m + 1) => Left("bottom", c, m)
  BY DEF Left
<1>14. Left("bottom", c, m + 1) => Left("idle", c, m)
  BY DEF Left
<1> QED BY <1>1, <1>2, <1>3, <1>4, <1>5, <1>6, <1>7, <1>8, <1>9, <1>10, <1>11, <1>12, <1>13, <1>14

LEMMA StepCounts ==
  ASSUME ConsoleAssumption, NEW k \in ConsoleStates, NEW s \in {0, 1}, Within(k, s), k.at # "idle",
         NEW m \in Nat, Left(k.at, k.c, m + 1)
  PROVE  Left(Step(k).at, Step(k).c, m)
<1>0. /\ k.y >= Rows \/ k.y < Rows
      /\ k.at \in {"move", "clear"} => k.reg \in 1..2
  <2>1. k.at \in {"move", "clear"} => k.reg \in 1..(1 + s)
    BY DEF Within, CursorFits
  <2> QED BY <2>1, ScreenSizes, Parts
<1>1. CASE k.at = "test"
  <2>1. Step(k).at \in {"load x", "edge"} /\ Step(k).c = k.c
    BY <1>1, Accessed DEF Becomes
  <2> QED BY <1>1, <2>1, LeftLess, Zenon
<1>2. CASE k.at = "where"
  <2>1. Step(k).at = "put" /\ Step(k).c = k.c
    BY <1>2, Accessed DEF Becomes
  <2> QED BY <1>2, <2>1, LeftLess, Zenon
<1>3. CASE k.at = "put"
  <2>1. Step(k).at = "load x" /\ Step(k).c = k.c
    BY <1>3, Accessed DEF Becomes
  <2> QED BY <1>3, <2>1, LeftLess, Zenon
<1>4. CASE k.at = "load x"
  <2>1. Step(k).at = "store x" /\ Step(k).c = k.c
    BY <1>4, Accessed DEF Becomes
  <2> QED BY <1>4, <2>1, LeftLess, Zenon
<1>5. CASE k.at = "store x"
  <2>1. Step(k).at = "edge" /\ Step(k).c = k.c
    BY <1>5, Accessed DEF Becomes
  <2> QED BY <1>5, <2>1, LeftLess, Zenon
<1>6. CASE k.at = "margin"
  <2>1. Step(k).at \in {"edge", "load y"} /\ Step(k).c = k.c
    BY <1>6, Accessed DEF Becomes
  <2> QED BY <1>6, <2>1, LeftLess, Zenon
<1>7. CASE k.at = "edge"
  <2>1. Step(k).at \in {"wrap", "scroll"} /\ Step(k).c = k.c
    BY <1>7, Accessed DEF Becomes
  <2> QED BY <1>7, <2>1, LeftLess, Zenon
<1>8. CASE k.at = "wrap"
  <2>1. Step(k).at = "load y" /\ Step(k).c = "wrap"
    BY <1>8, Accessed DEF Becomes
  <2> QED BY <1>8, <2>1, LeftLess, Zenon
<1>9. CASE k.at = "load y"
  <2>1. Step(k).at = "store y" /\ Step(k).c = k.c
    BY <1>9, Accessed DEF Becomes
  <2> QED BY <1>9, <2>1, LeftLess, Zenon
<1>10. CASE k.at = "store y"
  <2>1. Step(k).at = (IF k.c = "LF" THEN "edge" ELSE "scroll") /\ Step(k).c = k.c
    BY <1>10, Accessed DEF Becomes
  <2>2. Left("store y", k.c, m + 1) => Left(IF k.c = "LF" THEN "edge" ELSE "scroll", k.c, m)
    BY LeftLess
  <2> QED BY <1>10, <2>1, <2>2, Zenon
<1>11. CASE k.at = "scroll"
  <2>1. Step(k).at \in {"move", "idle"} /\ Step(k).c = k.c
    BY <1>11, <1>0, Accessed DEF Becomes
  <2> QED BY <1>11, <2>1, LeftLess, Zenon
<1>12. CASE k.at = "move"
  <2>1. Step(k).at = "clear" /\ Step(k).c = k.c
    BY <1>12, <1>0, Accessed DEF Becomes
  <2> QED BY <1>12, <2>1, LeftLess, Zenon
<1>13. CASE k.at = "clear"
  <2>1. Step(k).at = "bottom" /\ Step(k).c = k.c
    BY <1>13, Accessed DEF Becomes
  <2> QED BY <1>13, <2>1, LeftLess, Zenon
<1>14. CASE k.at = "bottom"
  <2>1. Step(k).at = "idle" /\ Step(k).c = k.c
    BY <1>14, Accessed DEF Becomes
  <2> QED BY <1>14, <2>1, LeftLess, Zenon
<1>15. \/ k.at = "test" \/ k.at = "where" \/ k.at = "put" \/ k.at = "load x" \/ k.at = "store x"
       \/ k.at = "margin" \/ k.at = "edge" \/ k.at = "wrap" \/ k.at = "load y" \/ k.at = "store y"
       \/ k.at = "scroll" \/ k.at = "move" \/ k.at = "clear" \/ k.at = "bottom"
  BY Parts DEF Accesses
<1> QED BY <1>1, <1>2, <1>3, <1>4, <1>5, <1>6, <1>7, <1>8, <1>9, <1>10, <1>11, <1>12, <1>13, <1>14,
           <1>15, Zenon

LEMMA LeftBounds ==
  ASSUME NEW k \in ConsoleStates
  PROVE  Left(k.at, k.c, 12) /\ (Left(k.at, k.c, 0) => k.at = "idle")
<1>1. Left(k.at, k.c, 12)
  BY DEF Left
<1>2. ASSUME Left(k.at, k.c, 0) PROVE k.at = "idle"
  <2>1. \A c : /\ ~Left("test", c, 0) /\ ~Left("where", c, 0) /\ ~Left("put", c, 0)
               /\ ~Left("load x", c, 0) /\ ~Left("store x", c, 0) /\ ~Left("margin", c, 0)
               /\ ~Left("edge", c, 0) /\ ~Left("wrap", c, 0) /\ ~Left("load y", c, 0)
               /\ ~Left("store y", c, 0) /\ ~Left("scroll", c, 0) /\ ~Left("move", c, 0)
               /\ ~Left("clear", c, 0) /\ ~Left("bottom", c, 0)
    BY DEF Left
  <2> QED BY <1>2, <2>1, Parts, Zenon DEF Accesses
<1> QED BY <1>1, <1>2

\* A state that putch can be in when at most m accesses are left.
Goes(k, s, m) == k \in ConsoleStates /\ Within(k, s) /\ Left(k.at, k.c, m)

LEMMA GoGoes ==
  ASSUME ConsoleAssumption, NEW k, NEW s \in {0, 1}, NEW m \in Nat, Goes(k, s, m + 1)
  PROVE  Goes(Go(k), s, m) /\ Go(k).c \in {k.c, "wrap"}
<1>1. CASE k.at = "idle"
  BY <1>1 DEF Go, Goes, Left
<1>2. CASE k.at # "idle"
  <2>1. k \in ConsoleStates /\ Within(k, s) /\ Left(k.at, k.c, m + 1)
    BY DEF Goes
  <2>2. /\ Step(k) \in ConsoleStates /\ Within(Step(k), s) /\ Step(k).c \in {k.c, "wrap"}
        /\ Left(Step(k).at, Step(k).c, m)
    BY <1>2, <2>1, StepWithin, StepCounts
  <2> QED BY <1>2, <2>2 DEF Go, Goes
<1> QED BY <1>1, <1>2

LEMMA Go4Goes ==
  ASSUME ConsoleAssumption, NEW k, NEW s \in {0, 1}, NEW m \in Nat, Goes(k, s, m + 4)
  PROVE  Goes(Go4(k), s, m) /\ Go4(k).c \in {k.c, "wrap"}
<1>1. m + 4 = (m + 3) + 1 /\ m + 3 = (m + 2) + 1 /\ m + 2 = (m + 1) + 1 /\ m + 3 \in Nat
      /\ m + 2 \in Nat /\ m + 1 \in Nat
  OBVIOUS
<1>2. Goes(Go(k), s, m + 3) /\ Go(k).c \in {k.c, "wrap"}
  BY <1>1, GoGoes
<1>3. Goes(Go(Go(k)), s, m + 2) /\ Go(Go(k)).c \in {k.c, "wrap"}
  BY <1>1, <1>2, GoGoes
<1>4. Goes(Go(Go(Go(k))), s, m + 1) /\ Go(Go(Go(k))).c \in {k.c, "wrap"}
  BY <1>1, <1>3, GoGoes
<1>5. Goes(Go(Go(Go(Go(k)))), s, m) /\ Go(Go(Go(Go(k)))).c \in {k.c, "wrap"}
  BY <1>1, <1>4, GoGoes
<1> QED BY <1>5 DEF Go4

\* putch comes to its end, in the same place as if an access had been made before.
LEMMA Finishes ==
  ASSUME ConsoleAssumption, NEW k \in ConsoleStates, NEW s \in {0, 1}, Within(k, s)
  PROVE  /\ Finish(k) \in ConsoleStates /\ Finish(k).at = "idle" /\ Within(Finish(k), s)
         /\ Finish(k).c \in {k.c, "wrap"}
<1>1. Goes(k, s, 12)
  BY LeftBounds DEF Goes
<1>2. Goes(Go4(k), s, 8) /\ Go4(k).c \in {k.c, "wrap"}
  <2>1. 12 = 8 + 4 /\ 8 \in Nat
    OBVIOUS
  <2> QED BY <1>1, <2>1, Go4Goes
<1>3. Goes(Go4(Go4(k)), s, 4) /\ Go4(Go4(k)).c \in {k.c, "wrap"}
  <2>1. 8 = 4 + 4 /\ 4 \in Nat
    OBVIOUS
  <2> QED BY <1>2, <2>1, Go4Goes
<1>4. Goes(Finish(k), s, 0) /\ Finish(k).c \in {k.c, "wrap"}
  <2>1. 4 = 0 + 4 /\ 0 \in Nat
    OBVIOUS
  <2>2. /\ Goes(Go4(Go4(Go4(k))), s, 0)
        /\ Go4(Go4(Go4(k))).c \in {Go4(Go4(k)).c, "wrap"}
    BY <1>3, <2>1, Go4Goes
  <2> QED BY <1>3, <2>2 DEF Finish
<1>5. Finish(k) \in ConsoleStates /\ Within(Finish(k), s) /\ Left(Finish(k).at, Finish(k).c, 0)
  BY <1>4 DEF Goes
<1>6. Finish(k).at = "idle"
  BY <1>5, LeftBounds
<1> QED BY <1>4, <1>5, <1>6

LEMMA FinishStep ==
  ASSUME ConsoleAssumption, NEW k \in ConsoleStates, NEW s \in {0, 1}, Within(k, s)
  PROVE  /\ k.at # "idle" => Finish(Step(k)) = Finish(k)
         /\ k.at = "idle" => Finish(k) = k
<1>1. ASSUME k.at = "idle" PROVE Finish(k) = k
  <2>1. Go(k) = k
    BY <1>1 DEF Go
  <2>2. Go4(k) = k
    BY <2>1 DEF Go4
  <2> QED BY <2>2 DEF Finish
<1>2. ASSUME k.at # "idle" PROVE Finish(Step(k)) = Finish(k)
  <2>1. Go(k) = Step(k)
    BY <1>2 DEF Go
  <2>2. Finish(Go(k)) = Go(Finish(k))
    BY Zenon DEF Finish, Go4
  <2>3. Go(Finish(k)) = Finish(k)
    <3>1. Finish(k).at = "idle"
      BY Finishes
    <3> QED BY <3>1 DEF Go
  <2> QED BY <2>1, <2>2, <2>3
<1> QED BY <1>1, <1>2

Branch(c) ==
  CASE c = "BS" -> "test" [] c = "HT" -> "load x" [] c \in {"CR", "LF"} -> "margin"
    [] OTHER -> "where"

LEMMA Entered ==
  ASSUME NEW k \in ConsoleStates, NEW c \in Characters
  PROVE  Becomes(Enter(k, c), k.cells, k.x, k.y, Branch(c), c, k.reg, k.wild)
<1>1. Branch(c) \in Accesses
  BY DEF Branch, Accesses
<1>2. Enter(k, c) = [k EXCEPT !.c = c, !.at = Branch(c)]
  BY DEF Enter, Branch
<1> DEFINE b == Branch(c)
<1> HIDE DEF b
<1>3. b \in Accesses /\ Enter(k, c) = [k EXCEPT !.c = c, !.at = b]
  BY <1>1, <1>2 DEF b
<1>4. Becomes(Enter(k, c), k.cells, k.x, k.y, b, c, k.reg, k.wild)
  BY <1>3, Parts DEF Becomes, ConsoleStates
<1> QED BY <1>4 DEF b

\* putch starts with the cursor on the screen, in a handler perhaps with the
\* cursor behind the edge or below the last line.
LEMMA EnterWithin ==
  ASSUME ConsoleAssumption, NEW k \in ConsoleStates, ~k.wild, NEW c \in Characters,
         InLine(k.x, 0), OnScreen(k.y, 0), NEW s \in {0, 1}, c \in {"BS", "HT"} => s = 0
  PROVE  Within(Enter(k, c), s)
<1>1. Becomes(Enter(k, c), k.cells, k.x, k.y, Branch(c), c, k.reg, k.wild)
  BY Entered
<1>2. /\ InLine(k.x, s) /\ OnScreen(k.y, s) /\ k.y * Cols + k.x \in TextMemory
  <2>1. k.x \in Nat /\ k.x < Cols /\ k.y \in Nat /\ k.y <= Rows /\ k.y < Rows
    BY ScreenSizes DEF InLine, OnScreen
  <2>2. k.y * Cols + k.x \in TextMemory
    BY <2>1, CellInMemory
  <2> QED BY <2>1, <2>2, ScreenSizes DEF InLine, OnScreen
<1>3. CursorFits(Branch(c), c, k.x, k.y, k.reg, s)
  <2>1. CASE c = "BS"
    BY <1>2, <2>1 DEF CursorFits, Branch
  <2>2. CASE c = "HT"
    BY <1>2, <2>2 DEF CursorFits, Branch
  <2>3. CASE c \in {"CR", "LF"}
    BY <1>2, <2>3 DEF CursorFits, Branch
  <2>4. CASE c \notin {"BS", "HT", "CR", "LF"}
    BY <1>2, <2>4 DEF CursorFits, Branch
  <2> QED BY <2>1, <2>2, <2>3, <2>4
<1> QED BY <1>1, <1>3 DEF Within, Becomes

\* Where the cursor can be when a handler starts.
LEMMA Anywhere ==
  ASSUME ConsoleAssumption, NEW k \in ConsoleStates, Within(k, 0)
  PROVE  /\ InLine(k.x, 1) /\ OnScreen(k.y, 1) /\ k.y * Cols + k.x \in TextMemory
<1>0. Rows \in Nat /\ Rows >= 2 /\ Cols \in Nat /\ Cols >= 1 /\ k.x \in Int /\ k.y \in Int
  BY ScreenSizes, Parts
<1>1. \/ InLine(k.x, 0) /\ OnScreen(k.y, 1)
      \/ InLine(k.x, 1) /\ OnScreen(k.y, 0)
  <2>0. /\ CursorFits(k.at, k.c, k.x, k.y, k.reg, 0) /\ 1 + 0 = 1
        /\ (InLine(k.x, 0) => InLine(k.x, 1)) /\ (OnScreen(k.y, 0) => OnScreen(k.y, 1))
    BY <1>0 DEF Within, InLine, OnScreen
  <2>1. CASE k.at \in {"idle", "test", "where", "put", "load x", "store x", "margin"}
    BY <2>0, <2>1 DEF CursorFits
  <2>2. CASE k.at = "edge"
    BY <2>0, <2>2 DEF CursorFits
  <2>3. CASE k.at \in {"wrap", "load y", "store y", "scroll", "move", "clear", "bottom"}
    BY <2>0, <2>3 DEF CursorFits
  <2> QED BY <2>1, <2>2, <2>3, Parts DEF Accesses
<1>2. CASE InLine(k.x, 0) /\ OnScreen(k.y, 1)
  <2>1. k.x \in Nat /\ k.x < Cols /\ k.y \in Nat /\ k.y <= Rows
    BY <1>0, <1>2 DEF InLine, OnScreen
  <2>2. k.y * Cols + k.x \in TextMemory
    BY <2>1, CellInMemory
  <2> QED BY <1>0, <1>2, <2>2 DEF InLine
<1>3. CASE InLine(k.x, 1) /\ OnScreen(k.y, 0)
  <2>1. k.x \in Nat /\ k.x <= Cols /\ k.y \in Nat /\ k.y + 1 <= Rows /\ k.y <= Rows
    BY <1>0, <1>3 DEF InLine, OnScreen
  <2>2. CASE k.x < Cols
    <3>1. k.y * Cols + k.x \in TextMemory
      BY <2>1, <2>2, CellInMemory
    <3> QED BY <1>0, <1>3, <3>1 DEF OnScreen
  <2>3. CASE k.x = Cols
    <3>1. (k.y + 1) * Cols + 0 \in TextMemory
      <4>1. k.y + 1 \in Nat /\ k.y + 1 <= Rows /\ 0 \in Nat /\ 0 < Cols
        BY <1>0, <2>1
      <4> QED BY <4>1, CellInMemory
    <3>2. (k.y + 1) * Cols + 0 = k.y * Cols + k.x
      BY <1>0, <2>1, <2>3
    <3>3. k.y * Cols + k.x \in TextMemory
      BY <3>1, <3>2
    <3> QED BY <1>0, <1>3, <3>3 DEF OnScreen
  <2> QED BY <1>0, <2>1, <2>2, <2>3
<1> QED BY <1>1, <1>2, <1>3

\* The message of a handler leaves the cursor on the screen.
LEMMA HandlerWithin ==
  ASSUME ConsoleAssumption, NEW k \in ConsoleStates, Within(k, 0)
  PROVE  LET h == puts(Goto(k, "idle"))
         IN  h \in ConsoleStates /\ ~h.wild /\ InLine(h.x, 0) /\ OnScreen(h.y, 0)
<1> DEFINE g == Goto(k, "idle")
           e == Enter(g, "!")
           f == Finish(e)
           d == Enter(f, "LF")
           h == Finish(d)
<1>0. "idle" \in Accesses /\ "!" \in Characters /\ "LF" \in Characters /\ 1 \in {0, 1}
  BY DEF Accesses, Characters
<1>1. Becomes(g, k.cells, k.x, k.y, "idle", k.c, k.reg, k.wild)
  BY <1>0, Gone
<1>2. g \in ConsoleStates /\ ~k.wild /\ ~g.wild /\ g.x = k.x /\ g.y = k.y
  BY <1>1 DEF Becomes, Within
<1> HIDE DEF g
<1>3. Becomes(e, g.cells, g.x, g.y, "where", "!", g.reg, g.wild)
  <2>1. Branch("!") = "where"
    BY DEF Branch
  <2>2. Becomes(e, g.cells, g.x, g.y, Branch("!"), "!", g.reg, g.wild)
    BY <1>0, <1>2, Entered
  <2> QED BY <2>1, <2>2
<1> HIDE DEF e
<1>4. e \in ConsoleStates /\ Within(e, 1)
  <2>1. InLine(g.x, 1) /\ OnScreen(g.y, 1) /\ g.y * Cols + g.x \in TextMemory
    BY <1>2, Anywhere
  <2>2. CursorFits("where", "!", g.x, g.y, g.reg, 1)
    BY <2>1 DEF CursorFits
  <2> QED BY <1>2, <1>3, <2>2 DEF Becomes, Within
<1>5. f \in ConsoleStates /\ f.at = "idle" /\ Within(f, 1)
  BY <1>0, <1>4, Finishes
<1> HIDE DEF f
<1>6. ~f.wild /\ InLine(f.x, 0) /\ OnScreen(f.y, 0)
  BY <1>5 DEF Within, CursorFits
<1>7. d \in ConsoleStates /\ Within(d, 1)
  <2>1. d \in ConsoleStates
    BY <1>0, <1>5, Entered DEF Becomes
  <2>2. "LF" \notin {"BS", "HT"}
    OBVIOUS
  <2>3. Within(d, 1)
    BY <1>0, <1>5, <1>6, <2>2, EnterWithin
  <2> QED BY <2>1, <2>3
<1> HIDE DEF d
<1>8. h \in ConsoleStates /\ h.at = "idle" /\ Within(h, 1)
  BY <1>0, <1>7, Finishes
<1> HIDE DEF h
<1>9. ~h.wild /\ InLine(h.x, 0) /\ OnScreen(h.y, 0)
  BY <1>8 DEF Within, CursorFits
<1>10. puts(Goto(k, "idle")) = h
  BY DEF puts, h, d, f, e, g
<1> QED BY <1>8, <1>9, <1>10

Resumed(h, at, c, reg) == [h EXCEPT !.at = at, !.c = c, !.reg = reg]

LEMMA Resumes ==
  ASSUME NEW h \in ConsoleStates, NEW at \in Accesses, NEW c \in Characters, NEW reg \in Int
  PROVE  Becomes(Resumed(h, at, c, reg), h.cells, h.x, h.y, at, c, reg, h.wild)
BY Parts DEF Becomes, ConsoleStates, Resumed

\* putch goes on with its registers, wherever on the screen the cursor has gone.
LEMMA GoesOnWithin ==
  ASSUME ConsoleAssumption, NEW k \in ConsoleStates, Within(k, 0), k.c # "BS",
         NEW h \in ConsoleStates, ~h.wild, InLine(h.x, 0), OnScreen(h.y, 0)
  PROVE  LET j == [h EXCEPT !.at = k.at, !.c = k.c, !.reg = k.reg]
         IN  Becomes(j, h.cells, h.x, h.y, k.at, k.c, k.reg, h.wild) /\ Within(j, 0)
<1> DEFINE j == [h EXCEPT !.at = k.at, !.c = k.c, !.reg = k.reg]
<1>1. Becomes(j, h.cells, h.x, h.y, k.at, k.c, k.reg, h.wild)
  <2>1. k.at \in Accesses /\ k.c \in Characters /\ k.reg \in Int
    BY Parts
  <2>2. Becomes(Resumed(h, k.at, k.c, k.reg), h.cells, h.x, h.y, k.at, k.c, k.reg, h.wild)
    BY <2>1, Resumes
  <2> QED BY <2>2 DEF Resumed
<1> HIDE DEF j
<1>2. h.y * Cols + h.x \in TextMemory
  <2>1. h.x \in Nat /\ h.x < Cols /\ h.y \in Nat /\ h.y <= Rows
    BY ScreenSizes DEF InLine, OnScreen
  <2> QED BY <2>1, CellInMemory
<1>3. InLine(h.x, 1) /\ OnScreen(h.y, 1) /\ 1 + 0 = 1
  BY ScreenSizes DEF InLine, OnScreen
<1>4. CursorFits(k.at, k.c, k.x, k.y, k.reg, 0)
  BY DEF Within
<1>5. CursorFits(k.at, k.c, h.x, h.y, k.reg, 0)
  BY <1>2, <1>3, <1>4 DEF CursorFits
<1>6. Within(j, 0)
  BY <1>1, <1>5 DEF Becomes, Within
<1> QED BY <1>1, <1>6 DEF j

LEMMA Texts ==
  ASSUME ConsoleAssumption
  PROVE  /\ Printed \subseteq Characters
         /\ \A c \in Controls : <<c>> \in Seq(Printed)
         /\ \A number \in Numbers : int2str(number) \in Seq(Printed)
         /\ \A number \in {0, Base} : <<"<">> \o int2str(number) \o <<">">> \in Seq(Printed)
         /\ "BS" \in Printed => ~Interrupts
<1>1. /\ Controls \subseteq {"BS", "HT", "CR", "LF"} /\ (Interrupts => "BS" \notin Controls)
      /\ 0 \in Numbers /\ Base \in Numbers
      /\ \A number \in Numbers : int2str(number) \in Seq({Digits[d] : d \in 1..10})
  BY DEF ConsoleAssumption
<1>2. Printed \subseteq Characters
  BY DEF Characters
<1>3. \A c \in Controls : <<c>> \in Seq(Printed)
  BY DEF Printed
<1>4. \A number \in Numbers : int2str(number) \in Seq(Printed)
  <2>1. {Digits[d] : d \in 1..10} \subseteq Printed
    BY DEF Printed
  <2> HIDE DEF Printed
  <2> DEFINE D == {Digits[d] : d \in 1..10}
  <2>2. D \subseteq Printed
    BY <2>1
  <2>3. \A number \in Numbers : int2str(number) \in Seq(D)
    BY <1>1
  <2> HIDE DEF D
  <2> QED BY <2>2, <2>3
<1>5. ASSUME NEW number \in {0, Base} PROVE <<"<">> \o int2str(number) \o <<">">> \in Seq(Printed)
  <2>1. int2str(number) \in Seq(Printed)
    BY <1>1, <1>4
  <2>2. <<"<">> \in Seq(Printed) /\ <<">">> \in Seq(Printed)
    BY DEF Printed
  <2> QED BY <2>1, <2>2
<1>6. "BS" \in Printed => ~Interrupts
  <2>1. \A d \in 1..10 : Digits[d] # "BS"
    BY DEF Digits
  <2> QED BY <1>1, <2>1 DEF Printed
<1> QED BY <1>2, <1>3, <1>4, <1>5, <1>6

LEMMA CursorStarts == ASSUME ConsoleAssumption, ConsoleInit PROVE CursorIInv
<1>0. /\ Rows \in Nat /\ Rows >= 2 /\ Cols \in Nat /\ Cols >= 1 /\ MaxCalls \in Nat
  BY ScreenSizes DEF ConsoleAssumption
<1>1. con = Console_init /\ text = <<>> /\ calls = 0 /\ disturbed = FALSE
  BY DEF ConsoleInit
<1> DEFINE cells == memsetw([a \in Cells |-> "junk"], 0, Rows * Cols)
<1>2. cells \in [Cells -> Marks]
  BY DEF memsetw, Marks, Characters
<1>3. con = [cells |-> cells, x |-> 0, y |-> 0, at |-> "idle", c |-> Blank, reg |-> 0, wild |-> FALSE]
  BY <1>1 DEF Console_init
<1> HIDE DEF cells
<1>4. con \in ConsoleStates /\ con.at = "idle" /\ con.c # "BS" /\ con.x = 0 /\ con.y = 0 /\ ~con.wild
  BY <1>2, <1>3 DEF ConsoleStates, Accesses, Characters, Blank
<1>5. Within(con, 0)
  <2>1. InLine(0, 0) /\ OnScreen(0, 0)
    BY <1>0 DEF InLine, OnScreen
  <2> QED BY <1>4, <2>1 DEF Within, CursorFits
<1>6. text \in Seq(Printed) /\ calls \in 0..MaxCalls
  BY <1>0, <1>1
<1>7. disturbed \in BOOLEAN
  BY <1>1, Zenon
<1> QED BY <1>4, <1>5, <1>6, <1>7, Zenon DEF CursorIInv, ScreenTypeOK

LEMMA CursorSteps ==
  ASSUME ConsoleAssumption, CursorIInv, [ConsoleNext]_screenVars
  PROVE  CursorIInv'
<1>0. /\ con \in ConsoleStates /\ (con.c = "BS" => ~Interrupts) /\ Within(con, 0)
      /\ text \in Seq(Printed) /\ calls \in 0..MaxCalls /\ disturbed \in BOOLEAN
      /\ MaxCalls \in Nat /\ 0 \in {0, 1}
  BY DEF CursorIInv, ScreenTypeOK, ConsoleAssumption
<1>1. ASSUME NEW s \in Seq(Printed), NEW r, Call(s, r) PROVE CursorIInv'
  BY <1>0, <1>1 DEF Call, CursorIInv, ScreenTypeOK
<1>2. CASE NextCharacter
  <2>1. con.at = "idle" /\ text # <<>> /\ con' = Enter(con, Head(text)) /\ text' = Tail(text)
        /\ calls' = calls /\ disturbed' = disturbed
    BY <1>2 DEF NextCharacter
  <2>2. Head(text) \in Printed /\ Tail(text) \in Seq(Printed)
    BY <1>0, <2>1
  <2> DEFINE c == Head(text)
  <2> HIDE DEF c
  <2>3. c \in Printed /\ c \in Characters /\ con' = Enter(con, c)
    BY <2>1, <2>2, Texts DEF c
  <2>4. con' \in ConsoleStates /\ con'.c = c
    BY <1>0, <2>3, Entered DEF Becomes
  <2>5. ~con.wild /\ InLine(con.x, 0) /\ OnScreen(con.y, 0)
    BY <1>0, <2>1 DEF Within, CursorFits
  <2>6. Within(con', 0)
    BY <1>0, <2>3, <2>5, EnterWithin
  <2>7. con'.c = "BS" => ~Interrupts
    BY <2>3, <2>4, Texts
  <2> QED BY <1>0, <2>1, <2>2, <2>4, <2>6, <2>7 DEF CursorIInv, ScreenTypeOK
<1>3. CASE putch
  <2>1. con.at # "idle" /\ con' = Step(con) /\ text' = text /\ calls' = calls /\ disturbed' = disturbed
    BY <1>3 DEF putch
  <2>2. Within(con', 0) /\ con' \in ConsoleStates /\ con'.c \in {con.c, "wrap"}
    BY <1>0, <2>1, StepWithin
  <2> QED BY <1>0, <2>1, <2>2 DEF CursorIInv, ScreenTypeOK
<1>4. CASE HandlerPrints
  <2> DEFINE h == puts(Goto(con, "idle"))
  <2>1. /\ Interrupts /\ calls < MaxCalls /\ calls' = calls + 1 /\ text' = text
        /\ disturbed' \in {disturbed, TRUE}
        /\ con' = [h EXCEPT !.at = con.at, !.c = con.c, !.reg = con.reg]
    BY <1>4 DEF HandlerPrints
  <2>2. h \in ConsoleStates /\ ~h.wild /\ InLine(h.x, 0) /\ OnScreen(h.y, 0)
    BY <1>0, HandlerWithin
  <2> HIDE DEF h
  <2>3. con' \in ConsoleStates /\ con'.c = con.c /\ Within(con', 0)
    BY <1>0, <2>1, <2>2, GoesOnWithin DEF Becomes
  <2>4. text' \in Seq(Printed) /\ calls' \in 0..MaxCalls
    BY <1>0, <2>1
  <2>5. disturbed' \in BOOLEAN
    BY <1>0, <2>1, Zenon
  <2> QED BY <1>0, <2>1, <2>3, <2>4, <2>5, Zenon DEF CursorIInv, ScreenTypeOK
<1>5. CASE UNCHANGED screenVars
  BY <1>0, <1>5 DEF screenVars, CursorIInv, ScreenTypeOK
<1>6. CASE puti
  BY <1>1, <1>6, Texts DEF puti
<1>7. CASE putui
  BY <1>1, <1>7, Texts DEF putui
<1>8. CASE control
  BY <1>1, <1>8, Texts DEF control
<1>9. CASE Rest
  BY <1>5, <1>9 DEF Rest
<1> QED BY <1>2, <1>3, <1>4, <1>5, <1>6, <1>7, <1>8, <1>9 DEF ConsoleNext

\* On a screen of any size, with messages of handlers between any two accesses:
\* the cursor and the register of putch are where the access that comes next
\* needs them.
THEOREM CursorInPlace == ASSUME ConsoleAssumption PROVE ConsoleSpec => []CursorIInv
<1>1. ConsoleInit => CursorIInv
  BY CursorStarts
<1>2. CursorIInv /\ [ConsoleNext]_screenVars => CursorIInv'
  BY CursorSteps
<1> QED BY <1>1, <1>2, PTL DEF ConsoleSpec

\* Nothing is written outside the text memory, and after every call the cursor
\* is on the screen.
THEOREM CursorStays == ASSUME ConsoleAssumption PROVE ConsoleSpec => []CursorContained
<1>1. CursorIInv => CursorContained
  <2> SUFFICES ASSUME CursorIInv PROVE CursorContained
    OBVIOUS
  <2>1. Within(con, 0)
    BY DEF CursorIInv
  <2>2. ~con.wild /\ (con.at = "idle" => InLine(con.x, 0) /\ OnScreen(con.y, 0))
    BY <2>1 DEF Within, CursorFits
  <2>3. Cols - 1 + 0 = Cols - 1 /\ Rows - 1 + 0 = Rows - 1
    BY ScreenSizes
  <2> QED BY <2>2, <2>3 DEF CursorContained, InLine, OnScreen
<1> QED BY <1>1, CursorInPlace, PTL

----------------------------------------------------------------------------
(* What the screen shows. A line moves up by as much as it has, Stride = Cols *)

Above(lines) == IF Len(lines) > Rows THEN Len(lines) - Rows ELSE 0

\* The cells of the screen hold the lines from the one after T.
RowsShown(cells, lines, T) ==
  \A r \in 0..(Rows - 1), c \in 0..(Cols - 1) :
    cells[r * Cols + c] = IF T + r + 1 <= Len(lines) THEN lines[T + r + 1][c] ELSE Blank

Lines == [0..(Cols - 1) -> Marks]

\* What a paper consists of, and the column it goes on in.
Typeset(lines) == lines \in Seq(Lines) /\ Len(lines) \in Nat /\ Len(lines) >= 1

\* A paper; with m = 1 perhaps at the end of a line that has to be wrapped.
Page(p, m) ==
  p \in [lines : Seq(Lines), col : 0..(Cols - 1 + m)] /\ Len(p.lines) >= 1

LEMMA PageParts ==
  ASSUME NEW m \in Nat, NEW p, Page(p, m)
  PROVE  /\ p.lines \in Seq(Lines) /\ Len(p.lines) \in Nat /\ Len(p.lines) >= 1
         /\ p.col \in 0..(Cols - 1 + m)
<1>1. p.lines \in Seq(Lines) /\ p.col \in 0..(Cols - 1 + m) /\ Len(p.lines) >= 1
  BY DEF Page
<1>2. Len(p.lines) \in Nat
  BY <1>1
<1> QED BY <1>1, <1>2

LEMMA Pages ==
  ASSUME ConsoleAssumption, NEW m \in Nat, NEW lines, Typeset(lines), NEW col \in 0..(Cols - 1 + m)
  PROVE  Page([lines |-> lines, col |-> col], m)
BY DEF Page, Typeset

LEMMA ShownIs ==
  ASSUME NEW k, NEW p
  PROVE  Shows(k, p) <=> /\ k.x = p.col /\ k.y = Len(p.lines) - 1 - Above(p.lines)
                         /\ RowsShown(k.cells, p.lines, Above(p.lines))
BY DEF Shows, RowsShown, Above

\* Cells of different places are different, and the last line is behind the others.
LEMMA CellsApart ==
  ASSUME ConsoleAssumption, NEW r \in Nat, NEW c \in 0..(Cols - 1)
  PROVE  /\ \A b \in Nat, d \in 0..(Cols - 1) : r * Cols + c = b * Cols + d => r = b /\ c = d
         /\ r < Rows - 1 => r * Cols + c < (Rows - 1) * Cols /\ r * Cols + c + Cols = (r + 1) * Cols + c
         /\ r = Rows - 1 => r * Cols + c \in ((Rows - 1) * Cols)..((Rows - 1) * Cols + Cols - 1)
<1>0. Rows \in Nat /\ Rows >= 2 /\ Cols \in Nat /\ Cols >= 1 /\ Rows - 1 \in Nat
  BY ScreenSizes
<1>1. ASSUME NEW b \in Nat, NEW d \in 0..(Cols - 1), r * Cols + c = b * Cols + d
      PROVE  r = b /\ c = d
  <2>0. r * Cols \in Nat /\ b * Cols \in Nat
    BY <1>0, NatProduct
  <2>1. ~(r < b)
    <3> SUFFICES ASSUME r < b PROVE FALSE
      OBVIOUS
    <3>1. r * Cols + Cols <= b * Cols
      BY <1>0, LineInMemory
    <3> QED BY <1>0, <1>1, <2>0, <3>1
  <2>2. ~(b < r)
    <3> SUFFICES ASSUME b < r PROVE FALSE
      OBVIOUS
    <3>1. b * Cols + Cols <= r * Cols
      BY <1>0, LineInMemory
    <3> QED BY <1>0, <1>1, <2>0, <3>1
  <2>3. r = b
    BY <2>1, <2>2
  <2>4. c = d
    BY <1>0, <1>1, <2>0, <2>3
  <2> QED BY <2>3, <2>4
<1>2. ASSUME r < Rows - 1
      PROVE  r * Cols + c < (Rows - 1) * Cols /\ r * Cols + c + Cols = (r + 1) * Cols + c
  <2>1. r * Cols \in Nat /\ (Rows - 1) * Cols \in Nat /\ r * Cols + Cols <= (Rows - 1) * Cols
    BY <1>0, <1>2, LineInMemory
  <2>2. (r + 1) * Cols = r * Cols + Cols
    BY <1>0
  <2> QED BY <1>0, <2>1, <2>2
<1>3. ASSUME r = Rows - 1
      PROVE  r * Cols + c \in ((Rows - 1) * Cols)..((Rows - 1) * Cols + Cols - 1)
  <2>1. (Rows - 1) * Cols \in Nat
    BY <1>0, NatProduct
  <2> QED BY <1>0, <1>3, <2>1
<1> QED BY <1>1, <1>2, <1>3

\* The lines have moved up by one, and the last one is blank.
LEMMA MovesUp ==
  ASSUME ConsoleAssumption, Stride = Cols, NEW k \in ConsoleStates, k.reg = 1
  PROVE  LET cells == memsetw(Moved(k), (Rows - 1) * Cols, Cols)
         IN  \A r \in 0..(Rows - 1), c \in 0..(Cols - 1) :
               cells[r * Cols + c] = IF r < Rows - 1 THEN k.cells[(r + 1) * Cols + c] ELSE Blank
<1> DEFINE cells == memsetw(Moved(k), (Rows - 1) * Cols, Cols)
<1>0. Rows \in Nat /\ Rows >= 2 /\ Cols \in Nat /\ Cols >= 1
  BY ScreenSizes
<1> SUFFICES ASSUME NEW r \in 0..(Rows - 1), NEW c \in 0..(Cols - 1)
             PROVE  cells[r * Cols + c] = IF r < Rows - 1 THEN k.cells[(r + 1) * Cols + c] ELSE Blank
  OBVIOUS
<1>1. r \in Nat /\ r <= Rows /\ c \in Nat /\ c < Cols
  BY <1>0
<1> DEFINE a == r * Cols + c
           last == (Rows - 1) * Cols
<1>2. a \in Cells
  BY <1>1, CellInMemory
<1>3. /\ r < Rows - 1 => a < last /\ a + Cols = (r + 1) * Cols + c
      /\ r = Rows - 1 => a \in last..(last + Cols - 1)
  BY <1>1, CellsApart
<1>4. last \in Int /\ a \in Int
  <2>1. Rows - 1 \in Nat
    BY <1>0
  <2> QED BY <1>0, <1>1, <2>1, NatProduct
<1>5. k.reg * Stride = Cols /\ (Rows - k.reg) * Cols = last
  BY <1>0
<1> HIDE DEF a, last
<1>6. Moved(k)[a] = IF a < last THEN k.cells[a + Cols] ELSE k.cells[a]
  BY <1>2, <1>5 DEF Moved, memcpy
<1>7. cells[a] = IF a \in last..(last + Cols - 1) THEN Blank ELSE Moved(k)[a]
  BY <1>2 DEF memsetw, last
<1> HIDE DEF cells
<1>8. CASE r < Rows - 1
  <2>1. a < last /\ a + Cols = (r + 1) * Cols + c
    BY <1>3, <1>8
  <2>2. a \notin last..(last + Cols - 1)
    BY <1>0, <1>4, <2>1
  <2>3. cells[a] = k.cells[(r + 1) * Cols + c]
    BY <1>6, <1>7, <2>1, <2>2
  <2> QED BY <1>8, <2>3 DEF a
<1>9. CASE r = Rows - 1
  <2>1. cells[a] = Blank
    BY <1>3, <1>7, <1>9
  <2> QED BY <1>0, <1>9, <2>1 DEF a
<1> QED BY <1>0, <1>1, <1>8, <1>9

\* The next access brings putch closer to where it ends.
LEMMA NextAccess ==
  ASSUME ConsoleAssumption, NEW k \in ConsoleStates, Within(k, 0), k.at # "idle"
  PROVE  Step(k) \in ConsoleStates /\ Within(Step(k), 0) /\ Finish(Step(k)) = Finish(k)
<1>1. 0 \in {0, 1}
  OBVIOUS
<1> QED BY <1>1, StepWithin, FinishStep

\* scroll: afterwards the screen shows the last lines.
LEMMA ScrollShows ==
  ASSUME ConsoleAssumption, Stride = Cols, NEW k \in ConsoleStates, Within(k, 0), k.at = "scroll",
         NEW lines, Len(lines) \in Nat, NEW T \in Nat, k.y = Len(lines) - 1 - T,
         T > 0 => k.y >= Rows - 1, k.y = Rows => lines[Len(lines)] = BlankLine,
         RowsShown(k.cells, lines, T)
  PROVE  /\ Finish(k).x = k.x /\ Finish(k).y = Len(lines) - 1 - Above(lines)
         /\ RowsShown(Finish(k).cells, lines, Above(lines))
<1>0. Rows \in Nat /\ Rows >= 2 /\ Cols \in Nat /\ Cols >= 1 /\ 1 \in 1..2 /\ 0 \in {0, 1}
      /\ k.y \in Int
  BY ScreenSizes, Parts
<1>1. k.y \in 0..Rows
  BY <1>0 DEF Within, CursorFits, OnScreen
<1>2. CASE k.y < Rows
  <2> DEFINE h == Step(k)
  <2>1. Becomes(h, k.cells, k.x, k.y, "idle", k.c, k.reg, k.wild)
    BY <1>2, Accessed
  <2>2. h \in ConsoleStates /\ Within(h, 0) /\ Finish(h) = Finish(k)
    BY NextAccess
  <2> HIDE DEF h
  <2>3. Finish(k) = h
    BY <1>0, <2>1, <2>2, FinishStep DEF Becomes
  <2>4. Above(lines) = T
    BY <1>0, <1>1, <1>2 DEF Above
  <2> QED BY <2>1, <2>3, <2>4 DEF Becomes
<1>3. CASE k.y = Rows
  <2> DEFINE h1 == Step(k)
             h2 == Step(h1)
             h3 == Step(h2)
             h4 == Step(h3)
             cells == memsetw(Moved(h1), (Rows - 1) * Cols, Cols)
  <2>1. Becomes(h1, k.cells, k.x, k.y, "move", k.c, 1, k.wild)
    <3>1. k.y >= Rows /\ k.y - Rows + 1 = 1
      BY <1>0, <1>3
    <3>2. Becomes(h1, k.cells, k.x, k.y, "move", k.c, k.y - Rows + 1, k.wild)
      BY <3>1, Accessed
    <3> QED BY <3>1, <3>2
  <2>2. h1 \in ConsoleStates /\ Within(h1, 0) /\ Finish(h1) = Finish(k)
    BY NextAccess
  <2> HIDE DEF h1
  <2>3. Becomes(h2, Moved(h1), k.x, k.y, "clear", k.c, 1, h1.wild \/ 1 > Rows)
    <3>1. h1.at = "move" /\ h1.reg = 1 /\ h1.x = k.x /\ h1.y = k.y /\ h1.c = k.c
      BY <2>1 DEF Becomes
    <3>2. Becomes(h2, Moved(h1), h1.x, h1.y, "clear", h1.c, h1.reg, h1.wild \/ h1.reg > Rows)
      BY <1>0, <2>2, <3>1, Accessed
    <3> QED BY <3>1, <3>2
  <2>4. h2 \in ConsoleStates /\ Within(h2, 0) /\ Finish(h2) = Finish(h1)
    BY <2>1, <2>2, NextAccess DEF Becomes
  <2> HIDE DEF h2
  <2>5. Becomes(h3, cells, k.x, k.y, "bottom", k.c, 1, h2.wild)
    <3>1. h2.at = "clear" /\ h2.reg = 1 /\ h2.x = k.x /\ h2.y = k.y /\ h2.c = k.c
          /\ h2.cells = Moved(h1)
      BY <2>3 DEF Becomes
    <3>2. Becomes(h3, memsetw(h2.cells, (Rows - h2.reg) * Cols, Cols), h2.x, h2.y, "bottom", h2.c,
                  h2.reg, h2.wild)
      BY <2>4, <3>1, Accessed
    <3> QED BY <3>1, <3>2
  <2>6. h3 \in ConsoleStates /\ Within(h3, 0) /\ Finish(h3) = Finish(h2)
    BY <2>3, <2>4, NextAccess DEF Becomes
  <2> HIDE DEF h3
  <2>7. Becomes(h4, h3.cells, h3.x, Rows - 1, "idle", h3.c, h3.reg, h3.wild)
    BY <2>5, <2>6, Accessed DEF Becomes
  <2>8. h4 \in ConsoleStates /\ Within(h4, 0) /\ Finish(h4) = Finish(h3)
    BY <2>5, <2>6, NextAccess DEF Becomes
  <2> HIDE DEF h4
  <2>9. Finish(k) = h4
    <3>1. Finish(h4) = h4
      BY <1>0, <2>7, <2>8, FinishStep DEF Becomes
    <3> QED BY <2>2, <2>4, <2>6, <2>8, <3>1
  <2>10. \A r \in 0..(Rows - 1), c \in 0..(Cols - 1) :
           cells[r * Cols + c] = IF r < Rows - 1 THEN h1.cells[(r + 1) * Cols + c] ELSE Blank
    <3>1. h1.reg = 1
      BY <2>1 DEF Becomes
    <3> QED BY <2>2, <3>1, MovesUp
  <2>11. h4.cells = cells /\ h4.x = k.x /\ h4.y = Rows - 1 /\ h1.cells = k.cells
    BY <2>1, <2>5, <2>7 DEF Becomes
  <2> HIDE DEF cells
  <2>12. Len(lines) = Rows + 1 + T /\ Above(lines) = T + 1
    BY <1>0, <1>3 DEF Above
  <2>13. ASSUME NEW r \in 0..(Rows - 1), NEW c \in 0..(Cols - 1)
         PROVE  cells[r * Cols + c] =
                  IF T + 1 + r + 1 <= Len(lines) THEN lines[T + 1 + r + 1][c] ELSE Blank
    <3>1. r \in Nat /\ T + 1 + r + 1 <= Len(lines) /\ T + 1 + r + 1 = T + (r + 1) + 1
      BY <1>0, <2>12
    <3>2. CASE r < Rows - 1
      <4>1. r + 1 \in 0..(Rows - 1)
        BY <1>0, <3>1, <3>2
      <4>2. k.cells[(r + 1) * Cols + c] =
              IF T + (r + 1) + 1 <= Len(lines) THEN lines[T + (r + 1) + 1][c] ELSE Blank
        BY <4>1 DEF RowsShown
      <4>3. cells[r * Cols + c] = k.cells[(r + 1) * Cols + c]
        BY <2>10, <2>11, <3>2
      <4> QED BY <3>1, <4>2, <4>3
    <3>3. CASE r = Rows - 1
      <4>1. T + 1 + r + 1 = Len(lines) /\ ~(r < Rows - 1)
        BY <1>0, <2>12, <3>3
      <4>2. lines[Len(lines)][c] = Blank
        BY <1>3 DEF BlankLine
      <4>3. cells[r * Cols + c] = Blank
        BY <2>10, <4>1
      <4> QED BY <3>1, <4>1, <4>2, <4>3
    <3>4. r < Rows - 1 \/ r = Rows - 1
      BY <1>0
    <3> QED BY <3>2, <3>3, <3>4, Zenon
  <2>14. RowsShown(cells, lines, T + 1)
    BY <2>13 DEF RowsShown
  <2>15. Rows - 1 = Len(lines) - 1 - Above(lines)
    BY <1>0, <2>12
  <2> QED BY <2>9, <2>11, <2>12, <2>14, <2>15
<1> QED BY <1>0, <1>1, <1>2, <1>3

LEMMA Origin == ASSUME ConsoleAssumption PROVE 0 \in 0..(Cols - 1 + 0) /\ 0 \in Nat /\ 1 \in Nat
BY ScreenSizes

LEMMA BlankInLines == ASSUME ConsoleAssumption PROVE BlankLine \in Lines
BY DEF BlankLine, Lines, Marks, Characters

\* With a blank line behind the others, the screen shows the same lines.
LEMMA LineAdded ==
  ASSUME ConsoleAssumption, NEW cells, NEW T \in Nat, NEW lines, Typeset(lines),
         RowsShown(cells, lines, T)
  PROVE  LET more == Append(lines, BlankLine)
         IN  /\ Typeset(more) /\ Len(more) = Len(lines) + 1 /\ Len(lines) \in Nat /\ more[Len(more)] = BlankLine
             /\ RowsShown(cells, more, T)
<1> DEFINE more == Append(lines, BlankLine)
<1>0. Rows \in Nat /\ Rows >= 2 /\ Len(lines) \in Nat
  BY ScreenSizes DEF Typeset
<1>1. /\ more \in Seq(Lines) /\ Len(more) = Len(lines) + 1 /\ more[Len(more)] = BlankLine
      /\ \A line \in 1..Len(lines) : more[line] = lines[line]
  BY BlankInLines DEF Typeset
<1>3. Typeset(more)
  BY <1>0, <1>1 DEF Typeset
<1> HIDE DEF more
<1>2. ASSUME NEW r \in 0..(Rows - 1), NEW c \in 0..(Cols - 1)
      PROVE  cells[r * Cols + c] = IF T + r + 1 <= Len(more) THEN more[T + r + 1][c] ELSE Blank
  <2> DEFINE line == T + r + 1
  <2>1. cells[r * Cols + c] = IF line <= Len(lines) THEN lines[line][c] ELSE Blank
    BY DEF RowsShown
  <2>2. line \in Nat /\ line >= 1
    BY <1>0
  <2> HIDE DEF line
  <2>3. CASE line <= Len(lines)
    <3>1. more[line] = lines[line] /\ line <= Len(more)
      BY <1>0, <1>1, <2>2, <2>3
    <3> QED BY <2>1, <2>3, <3>1 DEF line
  <2>4. CASE line = Len(more)
    <3>1. cells[r * Cols + c] = Blank
      BY <1>0, <1>1, <2>1, <2>4
    <3>2. more[line][c] = Blank
      BY <1>1, <2>4 DEF BlankLine
    <3> QED BY <2>4, <3>1, <3>2 DEF line
  <2>5. CASE line > Len(more)
    <3>1. cells[r * Cols + c] = Blank /\ ~(line <= Len(more))
      BY <1>0, <1>1, <2>1, <2>2, <2>5
    <3> QED BY <3>1 DEF line
  <2>6. line <= Len(lines) \/ line = Len(more) \/ line > Len(more)
    BY <1>0, <1>1, <2>2
  <2> QED BY <2>3, <2>4, <2>5, <2>6, Zenon
<1> QED BY <1>0, <1>1, <1>2, <1>3 DEF RowsShown, more

LEMMA AboveBounds ==
  ASSUME ConsoleAssumption, NEW lines, Len(lines) \in Nat, Len(lines) >= 1
  PROVE  /\ Above(lines) \in Nat
         /\ Above(lines) > 0 => Len(lines) - 1 - Above(lines) = Rows - 1
         /\ Len(lines) - 1 - Above(lines) < Rows
BY ScreenSizes DEF Above

\* A new line begins, wherever the line before it was left.
LEMMA LineShows ==
  ASSUME ConsoleAssumption, Stride = Cols, NEW k \in ConsoleStates, Within(k, 0), k.at = "load y",
         k.x = 0, NEW lines, Typeset(lines),
         k.y = Len(lines) - 1 - Above(lines), RowsShown(k.cells, lines, Above(lines))
  PROVE  Shows(Finish(k), [lines |-> Append(lines, BlankLine), col |-> 0])
<1> DEFINE T == Above(lines)
           more == Append(lines, BlankLine)
           h1 == Step(k)
           h2 == Step(h1)
           h3 == Step(h2)
<1> HIDE DEF T, more, h1, h2, h3
<1>0. Rows \in Nat /\ Rows >= 2 /\ Cols \in Nat /\ Cols >= 1 /\ k.y \in Int
  BY ScreenSizes, Parts
<1>1. T \in Nat /\ (T > 0 => k.y = Rows - 1)
  <2>1. Len(lines) \in Nat /\ Len(lines) >= 1
    BY DEF Typeset
  <2> QED BY <2>1, AboveBounds DEF T
<1>2. /\ Typeset(more) /\ Len(more) = Len(lines) + 1 /\ Len(lines) \in Nat
      /\ more[Len(more)] = BlankLine /\ RowsShown(k.cells, more, T)
  BY <1>1, LineAdded DEF T, more
<1>3. Len(more) \in Nat /\ k.y + 1 = Len(more) - 1 - T
  <2> DEFINE length == Len(lines)
             longer == Len(more)
  <2>1. longer = length + 1 /\ length \in Nat
    BY <1>2
  <2>2. k.y = length - 1 - T
    BY DEF T
  <2> HIDE DEF length, longer
  <2>3. longer \in Nat /\ k.y + 1 = longer - 1 - T
    BY ONLY <1>0, <1>1, <2>1, <2>2
  <2> QED BY <2>3 DEF longer
<1>4. Becomes(h1, k.cells, 0, k.y, "store y", k.c, k.y + 1, k.wild)
  BY Accessed DEF h1
<1>5. h1 \in ConsoleStates /\ Within(h1, 0) /\ Finish(h1) = Finish(k)
  BY NextAccess DEF h1
<1>6. Becomes(h2, k.cells, 0, k.y + 1, IF k.c = "LF" THEN "edge" ELSE "scroll", k.c, k.y + 1, k.wild)
  <2>1. /\ h1.at = "store y" /\ h1.reg = k.y + 1 /\ h1.x = 0 /\ h1.c = k.c /\ h1.cells = k.cells
        /\ h1.wild = k.wild
    BY <1>4 DEF Becomes
  <2>2. Becomes(h2, h1.cells, h1.x, h1.reg, IF h1.c = "LF" THEN "edge" ELSE "scroll", h1.c, h1.reg,
                h1.wild)
    BY <1>5, <2>1, Accessed DEF h2
  <2> QED BY <2>1, <2>2
<1>7. h2 \in ConsoleStates /\ Within(h2, 0) /\ Finish(h2) = Finish(h1)
  BY <1>4, <1>5, NextAccess DEF Becomes, h2
<1>8. h2.at = (IF k.c = "LF" THEN "edge" ELSE "scroll") /\ h2.x = 0 /\ h2.y = k.y + 1
      /\ h2.cells = k.cells
  BY <1>6 DEF Becomes
<1>9. ASSUME NEW h \in ConsoleStates, Within(h, 0), h.at = "scroll", h.x = 0, h.y = k.y + 1,
             h.cells = k.cells, Finish(h) = Finish(k)
      PROVE  Shows(Finish(k), [lines |-> more, col |-> 0])
  <2>1. h.y = Len(more) - 1 - T /\ (T > 0 => h.y >= Rows - 1)
    <3>1. h.y = k.y + 1
      BY <1>9
    <3>2. T > 0 => k.y + 1 >= Rows - 1
      BY ONLY <1>0, <1>1
    <3> QED BY <1>3, <3>1, <3>2
  <2>2. /\ Finish(h).x = 0 /\ Finish(h).y = Len(more) - 1 - Above(more)
        /\ RowsShown(Finish(h).cells, more, Above(more))
    BY <1>1, <1>2, <1>3, <1>9, <2>1, ScrollShows
  <2> DEFINE p == [lines |-> more, col |-> 0]
  <2>3. p.lines = more /\ p.col = 0
    OBVIOUS
  <2> HIDE DEF p
  <2>4. Shows(Finish(k), p)
    BY <1>9, <2>2, <2>3, ShownIs
  <2> QED BY <2>4 DEF p
<1>10. CASE k.c # "LF"
  BY <1>5, <1>7, <1>8, <1>9, <1>10 DEF more
<1>11. CASE k.c = "LF"
  <2>1. h2.at = "edge" /\ ~(h2.x >= Cols)
    <3>1. h2.at = "edge" /\ h2.x = 0
      BY <1>8, <1>11
    <3>2. ~(0 >= Cols)
      BY ONLY <1>0
    <3> QED BY <3>1, <3>2
  <2>2. Becomes(h3, h2.cells, h2.x, h2.y, IF h2.x >= Cols THEN "wrap" ELSE "scroll", h2.c, h2.reg,
                h2.wild)
    BY <1>7, <2>1, Accessed DEF h3
  <2>3. h3 \in ConsoleStates /\ Within(h3, 0) /\ Finish(h3) = Finish(h2)
    BY <1>7, <2>1, NextAccess DEF h3
  <2>4. h3.at = "scroll" /\ h3.x = 0 /\ h3.y = k.y + 1 /\ h3.cells = k.cells
    BY <1>8, <2>1, <2>2 DEF Becomes
  <2> QED BY <1>5, <1>7, <1>9, <2>3, <2>4 DEF more
<1> QED BY <1>10, <1>11

LEMMA NewLineShows ==
  ASSUME ConsoleAssumption, Stride = Cols, NEW k \in ConsoleStates, Within(k, 0), k.at = "load y",
         k.x = 0, NEW m \in Nat, NEW p, Page(p, m), k.y = Len(p.lines) - 1 - Above(p.lines),
         RowsShown(k.cells, p.lines, Above(p.lines))
  PROVE  Shows(Finish(k), NewLine(p)) /\ Page(NewLine(p), 0)
<1> DEFINE lines == p.lines
<1> HIDE DEF lines
<1>1. Typeset(lines)
  BY PageParts DEF lines, Typeset
<1>2. NewLine(p) = [lines |-> Append(lines, BlankLine), col |-> 0]
  BY DEF NewLine, lines
<1>3. k.y = Len(lines) - 1 - Above(lines) /\ RowsShown(k.cells, lines, Above(lines))
  BY DEF lines
<1>4. Shows(Finish(k), NewLine(p))
  BY <1>1, <1>2, <1>3, LineShows
<1>5. Typeset(Append(lines, BlankLine))
  <2>1. lines \in Seq(Lines) /\ BlankLine \in Lines
    BY <1>1, BlankInLines DEF Typeset
  <2>2. ASSUME NEW S, NEW s \in Seq(S), NEW e \in S
        PROVE  Append(s, e) \in Seq(S) /\ Len(Append(s, e)) \in Nat /\ Len(Append(s, e)) >= 1
    BY ONLY <2>2
  <2> QED BY <2>1, <2>2 DEF Typeset
<1>6. Page(NewLine(p), 0)
  BY <1>2, <1>5, Origin, Pages
<1> QED BY <1>4, <1>6

Wrap(p) == IF p.col = Cols THEN NewLine(p) ELSE p

\* The cursor is where it should be, and perhaps at the edge.
LEMMA EdgeShows ==
  ASSUME ConsoleAssumption, Stride = Cols, NEW k \in ConsoleStates, Within(k, 0), k.at = "edge",
         k.c # "LF", NEW p, Page(p, 1), k.x = p.col, k.y = Len(p.lines) - 1 - Above(p.lines),
         RowsShown(k.cells, p.lines, Above(p.lines))
  PROVE  Shows(Finish(k), Wrap(p)) /\ Page(Wrap(p), 0)
<1>0. Rows \in Nat /\ Rows >= 2 /\ Cols \in Nat /\ Cols >= 1 /\ 0 \in Int /\ k.y \in Int
      /\ 0 \in {0, 1}
  BY ScreenSizes, Parts
<1>1. /\ p.lines \in Seq(Lines) /\ Len(p.lines) \in Nat /\ Len(p.lines) >= 1 /\ p.col \in 0..Cols
  <2>1. Cols - 1 + 1 = Cols /\ 1 \in Nat
    BY <1>0
  <2> QED BY <2>1, PageParts
<1> DEFINE h1 == Step(k)
           h2 == Step(h1)
<1>2. Becomes(h1, k.cells, k.x, k.y, IF k.x >= Cols THEN "wrap" ELSE "scroll", k.c, k.reg, k.wild)
  BY Accessed
<1>3. h1 \in ConsoleStates /\ Within(h1, 0) /\ Finish(h1) = Finish(k)
  BY NextAccess
<1> HIDE DEF h1
<1>4. CASE p.col = Cols
  <2>1. h1.at = "wrap" /\ h1.y = k.y /\ h1.cells = k.cells
    BY <1>0, <1>2, <1>4 DEF Becomes
  <2>2. Becomes(h2, h1.cells, 0, h1.y, "load y", "wrap", h1.reg, h1.wild)
    BY <1>3, <2>1, Accessed
  <2>3. h2 \in ConsoleStates /\ Within(h2, 0) /\ Finish(h2) = Finish(h1)
    BY <1>3, <2>1, NextAccess
  <2> HIDE DEF h2
  <2>4. h2.at = "load y" /\ h2.x = 0 /\ h2.y = k.y /\ h2.cells = k.cells
    BY <2>1, <2>2 DEF Becomes
  <2>5. Shows(Finish(h2), NewLine(p)) /\ Page(NewLine(p), 0)
    BY <2>3, <2>4, NewLineShows
  <2> QED BY <1>3, <1>4, <2>3, <2>5 DEF Wrap
<1>5. CASE p.col # Cols
  <2>1. p.col \in 0..(Cols - 1) /\ ~(p.col >= Cols) /\ Cols - 1 + 0 = Cols - 1
    BY <1>0, <1>1, <1>5
  <2>2. h1.at = "scroll" /\ h1.x = p.col /\ h1.y = k.y /\ h1.cells = k.cells
    BY <1>2, <2>1 DEF Becomes
  <2>3. Above(p.lines) \in Nat /\ (Above(p.lines) > 0 => k.y >= Rows - 1) /\ k.y # Rows
    BY <1>0, <1>1 DEF Above
  <2>4. /\ Finish(h1).x = p.col /\ Finish(h1).y = Len(p.lines) - 1 - Above(p.lines)
        /\ RowsShown(Finish(h1).cells, p.lines, Above(p.lines))
    BY <1>1, <1>3, <2>2, <2>3, ScrollShows
  <2>5. Shows(Finish(k), p)
    BY <1>3, <2>4, ShownIs
  <2>6. Page(p, 0)
    BY <1>1, <2>1 DEF Page
  <2> QED BY <1>5, <2>5, <2>6 DEF Wrap
<1> QED BY <1>4, <1>5

\* The cursor still has to be put where it should be.
LEMMA CursorShows ==
  ASSUME ConsoleAssumption, Stride = Cols, NEW k \in ConsoleStates, Within(k, 0), k.at = "load x",
         NEW p, Page(p, 1), Value_x(k) = p.col, k.y = Len(p.lines) - 1 - Above(p.lines),
         RowsShown(k.cells, p.lines, Above(p.lines))
  PROVE  Shows(Finish(k), Wrap(p)) /\ Page(Wrap(p), 0)
<1> DEFINE h1 == Step(k)
           h2 == Step(h1)
<1>0. k.c # "LF"
  BY DEF Within, CursorFits
<1>1. Becomes(h1, k.cells, k.x, k.y, "store x", k.c, p.col, k.wild)
  BY Accessed
<1>2. h1 \in ConsoleStates /\ Within(h1, 0) /\ Finish(h1) = Finish(k)
  BY NextAccess
<1> HIDE DEF h1
<1>3. /\ h1.at = "store x" /\ h1.reg = p.col /\ h1.y = k.y /\ h1.cells = k.cells /\ h1.c = k.c
  BY <1>1 DEF Becomes
<1>4. Becomes(h2, h1.cells, h1.reg, h1.y, "edge", h1.c, h1.reg, h1.wild)
  BY <1>2, <1>3, Accessed
<1>5. h2 \in ConsoleStates /\ Within(h2, 0) /\ Finish(h2) = Finish(h1)
  BY <1>2, <1>3, NextAccess
<1> HIDE DEF h2
<1>6. h2.at = "edge" /\ h2.c # "LF" /\ h2.x = p.col /\ h2.y = k.y /\ h2.cells = k.cells
  BY <1>0, <1>3, <1>4 DEF Becomes
<1>7. Shows(Finish(h2), Wrap(p)) /\ Page(Wrap(p), 0)
  BY <1>5, <1>6, EdgeShows
<1> QED BY <1>2, <1>5, <1>7

At(lines, col) == [lines |-> lines, col |-> col]
Printing(lines, col, c) == [lines EXCEPT ![Len(lines)] = [lines[Len(lines)] EXCEPT ![col] = c]]

LEMMA AtParts == \A lines, col : At(lines, col).lines = lines /\ At(lines, col).col = col
BY DEF At

\* What a character does on paper.
LEMMA TypedIs ==
  ASSUME NEW p, Page(p, 0), NEW c
  PROVE  /\ c = "BS" => Typed(p, c) = At(p.lines, IF p.col = 0 THEN 0 ELSE p.col - 1)
         /\ c = "HT" => Typed(p, c) = Wrap(At(p.lines, p.col + Tab - (p.col % Tab)))
         /\ c = "CR" => Typed(p, c) = At(p.lines, 0)
         /\ c = "LF" => Typed(p, c) = NewLine(p)
         /\ c \notin {"BS", "HT", "CR", "LF"} =>
              Typed(p, c) = Wrap(At(Printing(p.lines, p.col, c), p.col + 1))
<1>1. \A col : [p EXCEPT !.col = col] = At(p.lines, col)
  BY DEF Page, At
<1>2. CASE c = "BS"
  <2>1. Typed(p, c) = [p EXCEPT !.col = IF p.col = 0 THEN 0 ELSE p.col - 1]
    BY <1>2 DEF Typed
  <2> QED BY <1>1, <1>2, <2>1
<1>3. CASE c = "HT"
  <2>1. Typed(p, c) = Wrap([p EXCEPT !.col = p.col + Tab - (p.col % Tab)])
    BY <1>3 DEF Typed, Wrap
  <2> QED BY <1>1, <1>3, <2>1
<1>4. CASE c = "CR"
  BY <1>1, <1>4 DEF Typed
<1>5. CASE c = "LF"
  BY <1>5 DEF Typed
<1>6. CASE c \notin {"BS", "HT", "CR", "LF"}
  <2>1. Typed(p, c) =
          Wrap([lines |-> [p.lines EXCEPT ![Len(p.lines)][p.col] = c], col |-> p.col + 1])
    BY <1>6 DEF Typed, Wrap
  <2>2. [p.lines EXCEPT ![Len(p.lines)][p.col] = c] = Printing(p.lines, p.col, c)
    BY DEF Printing
  <2> QED BY <1>6, <2>1, <2>2 DEF At
<1> QED BY <1>2, <1>3, <1>4, <1>5, <1>6

\* A character is printed where the cursor is, on the screen and on the paper.
LEMMA PutShows ==
  ASSUME ConsoleAssumption, NEW cells, NEW lines, Typeset(lines), NEW col \in 0..(Cols - 1),
         NEW c \in Characters, NEW y, y = Len(lines) - 1 - Above(lines),
         RowsShown(cells, lines, Above(lines)), NEW put,
         put = [a \in Cells |-> IF a = y * Cols + col THEN c ELSE cells[a]]
  PROVE  LET next == Printing(lines, col, c)
         IN  Typeset(next) /\ Len(next) = Len(lines) /\ RowsShown(put, next, Above(lines))
<1> DEFINE next == Printing(lines, col, c)
           T == Above(lines)
           length == Len(lines)
           last == lines[length]
           changed == [last EXCEPT ![col] = c]
<1>1. length \in Nat /\ length >= 1 /\ lines \in Seq(Lines)
  BY DEF Typeset
<1>2. last \in Lines /\ c \in Marks
  BY <1>1 DEF Marks
<1>3. changed \in Lines /\ \A d \in 0..(Cols - 1) : changed[d] = IF d = col THEN c ELSE last[d]
  BY <1>2 DEF Lines
<1>4. next = [lines EXCEPT ![length] = changed]
  BY DEF Printing
<1> HIDE DEF next, changed, last
<1>5. /\ next \in Seq(Lines) /\ Len(next) = length
      /\ \A line \in 1..length : next[line] = IF line = length THEN changed ELSE lines[line]
  BY <1>1, <1>3, <1>4
<1>6. Typeset(next)
  BY <1>1, <1>5 DEF Typeset
<1>7. T \in Nat /\ y = length - 1 - T
  BY <1>1, AboveBounds
<1> HIDE DEF T, length
<1>8. y \in Nat
  <2>1. T <= length - 1
    BY <1>1, ScreenSizes DEF T, Above, length
  <2> QED BY <1>1, <1>7, <2>1
<1>9. Rows \in Nat /\ Rows >= 2 /\ Cols \in Nat /\ Cols >= 1
  BY ScreenSizes
<1>10. ASSUME NEW r \in 0..(Rows - 1), NEW d \in 0..(Cols - 1)
       PROVE  put[r * Cols + d] = IF T + r + 1 <= length THEN next[T + r + 1][d] ELSE Blank
  <2> DEFINE line == T + r + 1
             a == r * Cols + d
  <2>1. r \in Nat /\ r <= Rows /\ d \in Nat /\ d < Cols
    BY ONLY <1>9, <1>10
  <2>2. a \in Cells
    BY <2>1, CellInMemory
  <2>3. put[a] = IF a = y * Cols + col THEN c ELSE cells[a]
    BY <2>2
  <2>4. cells[a] = IF line <= length THEN lines[line][d] ELSE Blank
    BY DEF RowsShown, T, length
  <2>5. a = y * Cols + col <=> r = y /\ d = col
    BY <1>8, <2>1, CellsApart
  <2>6. line \in Nat /\ line >= 1 /\ (r = y <=> line = length)
    BY ONLY <1>1, <1>7, <2>1
  <2> HIDE DEF line, a
  <2>7. CASE line = length
    <3>1. next[line] = changed /\ line <= length
      BY <1>1, <1>5, <2>6, <2>7
    <3>2. changed[d] = IF d = col THEN c ELSE last[d]
      BY <1>3
    <3>3. cells[a] = last[d]
      BY <2>4, <2>7, <3>1 DEF last
    <3>4. put[a] = next[line][d]
      BY <2>3, <2>5, <2>6, <2>7, <3>1, <3>2, <3>3
    <3> QED BY <3>1, <3>4 DEF a, line
  <2>8. CASE line # length
    <3>1. put[a] = cells[a]
      BY <2>3, <2>5, <2>6, <2>8
    <3>2. line <= length => next[line] = lines[line]
      BY <1>1, <1>5, <2>6, <2>8
    <3>3. put[a] = IF line <= length THEN next[line][d] ELSE Blank
      BY <2>4, <3>1, <3>2, Zenon
    <3> QED BY <3>3 DEF a, line
  <2> QED BY <2>7, <2>8
<1>11. RowsShown(put, next, T)
  <2>1. Len(next) = length
    BY <1>5
  <2> SUFFICES ASSUME NEW r \in 0..(Rows - 1), NEW d \in 0..(Cols - 1)
               PROVE  put[r * Cols + d] =
                        IF T + r + 1 <= Len(next) THEN next[T + r + 1][d] ELSE Blank
    BY DEF RowsShown
  <2>2. put[r * Cols + d] = IF T + r + 1 <= length THEN next[T + r + 1][d] ELSE Blank
    BY <1>10
  <2> QED BY <2>1, <2>2
<1> QED BY <1>5, <1>6, <1>11 DEF next, T, length

\* One character is printed, and the screen shows what the paper does.
LEMMA TypedShows ==
  ASSUME ConsoleAssumption, Stride = Cols, NEW k \in ConsoleStates, Within(k, 0), k.at = "idle",
         NEW p, Page(p, 0), Shows(k, p), NEW c \in Characters
  PROVE  Shows(Finish(Enter(k, c)), Typed(p, c)) /\ Page(Typed(p, c), 0)
<1> DEFINE h == Enter(k, c)
           h1 == Step(h)
           h2 == Step(h1)
           lines == p.lines
           col == p.col
<1> HIDE DEF h, h1, h2, lines, col
<1>0. /\ Rows \in Nat /\ Rows >= 2 /\ Cols \in Nat /\ Cols >= 1 /\ Tab \in Nat /\ Tab >= 1
      /\ 0 \in {0, 1}
  BY ScreenSizes
<1>1. ~k.wild /\ InLine(k.x, 0) /\ OnScreen(k.y, 0)
  BY DEF Within, CursorFits
<1>2. Becomes(h, k.cells, k.x, k.y, Branch(c), c, k.reg, k.wild)
  BY Entered DEF h
<1>3. h \in ConsoleStates /\ Within(h, 0)
  <2>1. c \in {"BS", "HT"} => 0 = 0
    OBVIOUS
  <2> QED BY <1>0, <1>1, <1>2, EnterWithin DEF h, Becomes
<1>4. k.x = col /\ k.y = Len(lines) - 1 - Above(lines) /\ RowsShown(k.cells, lines, Above(lines))
  BY ShownIs DEF col, lines
<1>5. Typeset(lines) /\ col \in 0..(Cols - 1)
  <2>1. Typeset(lines) /\ col \in 0..(Cols - 1 + 0)
    BY Origin, PageParts DEF Typeset, lines, col
  <2>2. Cols - 1 + 0 = Cols - 1
    BY ONLY <1>0
  <2> QED BY <2>1, <2>2
<1>6. col \in Nat /\ col < Cols /\ Cols - 1 + 0 = Cols - 1 /\ Cols - 1 + 1 = Cols /\ 1 \in Nat /\ 0 \in Nat
  BY ONLY <1>0, <1>5
<1>7. h.cells = k.cells /\ h.x = col /\ h.y = k.y /\ h.at = Branch(c) /\ h.c = c
  BY <1>2, <1>4 DEF Becomes
\* The places in putch from which it goes on to the edge.
<1>9. ASSUME NEW j \in ConsoleStates, Within(j, 0), j.at = "edge", j.c # "LF",
             NEW new \in 0..(Cols - 1), j.x = new, j.y = k.y, j.cells = k.cells
      PROVE  Shows(Finish(j), At(lines, new)) /\ Page(At(lines, new), 0)
  <2> DEFINE q == At(lines, new)
  <2>1. q.lines = lines /\ q.col = new
    BY AtParts
  <2>2. new \in 0..(Cols - 1 + 1) /\ new # Cols
    BY ONLY <1>0, <1>9
  <2>3. Page(q, 1)
    BY <1>5, <1>6, <2>2, Pages DEF At
  <2> HIDE DEF q
  <2>4. Shows(Finish(j), Wrap(q)) /\ Page(Wrap(q), 0)
    BY <1>4, <1>9, <2>1, <2>3, EdgeShows
  <2>5. Wrap(q) = q
    BY <2>1, <2>2 DEF Wrap
  <2> QED BY <2>4, <2>5 DEF q
<1>10. ASSUME NEW j \in ConsoleStates, Within(j, 0), j.at = "load x", NEW some, Typeset(some),
              NEW new \in 0..Cols, Value_x(j) = new, j.y = Len(some) - 1 - Above(some),
              RowsShown(j.cells, some, Above(some))
       PROVE  Shows(Finish(j), Wrap(At(some, new))) /\ Page(Wrap(At(some, new)), 0)
  <2> DEFINE q == At(some, new)
  <2>1. q.lines = some /\ q.col = new
    BY AtParts
  <2>2. Page(q, 1)
    BY <1>6, <1>10, Pages DEF At
  <2> HIDE DEF q
  <2>3. Shows(Finish(j), Wrap(q)) /\ Page(Wrap(q), 0)
    BY <1>10, <2>1, <2>2, CursorShows
  <2> QED BY <2>3 DEF q
<1>11. h.at # "idle" => h1 \in ConsoleStates /\ Within(h1, 0) /\ Finish(h1) = Finish(h)
  BY <1>3, NextAccess DEF h1
<1>12. CASE c = "BS"
  <2>1. h.at = "test"
    BY <1>7, <1>12 DEF Branch
  <2>2. Becomes(h1, h.cells, h.x, h.y, IF h.x # 0 THEN "load x" ELSE "edge", h.c, h.reg, h.wild)
    BY <1>3, <2>1, Accessed DEF h1
  <2>3. /\ h1.cells = k.cells /\ h1.x = col /\ h1.y = k.y /\ h1.c = "BS"
        /\ h1.at = IF col # 0 THEN "load x" ELSE "edge"
    BY <1>7, <1>12, <2>2 DEF Becomes
  <2>4. Typed(p, c) = At(lines, IF col = 0 THEN 0 ELSE col - 1)
    BY <1>12, TypedIs DEF lines, col
  <2>5. CASE col = 0
    <3>1. h1.at = "edge" /\ h1.c # "LF" /\ h1.x = 0 /\ 0 \in 0..(Cols - 1)
      BY <1>5, <2>3, <2>5
    <3>2. Shows(Finish(h1), At(lines, 0)) /\ Page(At(lines, 0), 0)
      BY <1>9, <1>11, <2>1, <2>3, <3>1
    <3> QED BY <1>11, <2>1, <2>4, <2>5, <3>2 DEF h
  <2>6. CASE col # 0
    <3>1. h1.at = "load x" /\ Value_x(h1) = col - 1
      BY <2>3, <2>6 DEF Value_x
    <3>2. col - 1 \in 0..Cols /\ col - 1 # Cols
      BY ONLY <1>0, <1>6, <2>6
    <3>3. Shows(Finish(h1), Wrap(At(lines, col - 1))) /\ Page(Wrap(At(lines, col - 1)), 0)
      BY <1>4, <1>5, <1>10, <1>11, <2>1, <2>3, <3>1, <3>2
    <3>4. Wrap(At(lines, col - 1)) = At(lines, col - 1)
      BY <3>2, AtParts DEF Wrap
    <3> QED BY <1>11, <2>1, <2>4, <2>6, <3>3, <3>4 DEF h
  <2> QED BY <2>5, <2>6
<1>13. CASE c = "HT"
  <2>1. h.at = "load x"
    BY <1>7, <1>13 DEF Branch
  <2>2. Typed(p, c) = Wrap(At(lines, col + Tab - (col % Tab)))
    BY <1>13, TypedIs DEF lines, col
  <2>3. Value_x(h) = ((col + Tab) \div Tab) * Tab
    BY <1>7, <1>13 DEF Value_x
  <2>4. /\ ((col + Tab) \div Tab) * Tab = col + Tab - (col % Tab)
        /\ col % Tab \in 0..(Tab - 1) /\ col + Tab - (col % Tab) <= Cols
    BY <1>6, TabStop
  <2>5. col + Tab - (col % Tab) \in 0..Cols
    BY ONLY <1>0, <1>6, <2>4
  <2>6. Shows(Finish(h), Wrap(At(lines, col + Tab - (col % Tab))))
        /\ Page(Wrap(At(lines, col + Tab - (col % Tab))), 0)
    BY <1>3, <1>4, <1>5, <1>7, <1>10, <2>1, <2>3, <2>4, <2>5
  <2> QED BY <2>2, <2>6 DEF h
<1>14. CASE c = "CR"
  <2>1. h.at = "margin"
    BY <1>7, <1>14 DEF Branch
  <2>2. Becomes(h1, h.cells, 0, h.y, IF h.c = "CR" THEN "edge" ELSE "load y", h.c, h.reg, h.wild)
    BY <1>3, <2>1, Accessed DEF h1
  <2>3. h1.at = "edge" /\ h1.cells = k.cells /\ h1.x = 0 /\ h1.y = k.y /\ h1.c # "LF"
    BY <1>7, <1>14, <2>2 DEF Becomes
  <2>4. 0 \in 0..(Cols - 1)
    BY ONLY <1>0
  <2>5. Shows(Finish(h1), At(lines, 0)) /\ Page(At(lines, 0), 0)
    BY <1>9, <1>11, <2>1, <2>3, <2>4
  <2>6. Typed(p, c) = At(lines, 0)
    BY <1>14, TypedIs DEF lines
  <2> QED BY <1>11, <2>1, <2>5, <2>6 DEF h
<1>15. CASE c = "LF"
  <2>1. h.at = "margin"
    BY <1>7, <1>15 DEF Branch
  <2>2. Becomes(h1, h.cells, 0, h.y, IF h.c = "CR" THEN "edge" ELSE "load y", h.c, h.reg, h.wild)
    BY <1>3, <2>1, Accessed DEF h1
  <2>3. h1.at = "load y" /\ h1.cells = k.cells /\ h1.x = 0 /\ h1.y = k.y
    BY <1>7, <1>15, <2>2 DEF Becomes
  <2>4. h1.y = Len(p.lines) - 1 - Above(p.lines) /\ RowsShown(h1.cells, p.lines, Above(p.lines))
    BY <1>4, <2>3 DEF lines
  <2>5. Shows(Finish(h1), NewLine(p)) /\ Page(NewLine(p), 0)
    BY <1>6, <1>11, <2>1, <2>3, <2>4, NewLineShows
  <2>6. Typed(p, c) = NewLine(p)
    BY <1>15, TypedIs
  <2> QED BY <1>11, <2>1, <2>5, <2>6 DEF h
<1>16. CASE c \notin {"BS", "HT", "CR", "LF"}
  <2>1. h.at = "where"
    BY <1>7, <1>16 DEF Branch
  <2>2. Becomes(h1, h.cells, h.x, h.y, "put", h.c, h.y * Cols + h.x, h.wild)
    BY <1>3, <2>1, Accessed DEF h1
  <2>3. h1.at = "put" /\ h1.cells = k.cells /\ h1.x = col /\ h1.y = k.y /\ h1.c = c
        /\ h1.reg = k.y * Cols + col
    BY <1>7, <2>2 DEF Becomes
  <2>4. h1 \in ConsoleStates /\ Within(h1, 0) /\ Finish(h1) = Finish(h)
    BY <1>11, <2>1
  <2>5. Becomes(h2, Put(h1), h1.x, h1.y, "load x", h1.c, h1.reg, h1.wild \/ h1.reg \notin TextMemory)
    BY <2>3, <2>4, Accessed DEF h2
  <2>6. h2 \in ConsoleStates /\ Within(h2, 0) /\ Finish(h2) = Finish(h1)
    BY <2>3, <2>4, NextAccess DEF h2
  <2> DEFINE next == Printing(lines, col, c)
             put == [a \in Cells |-> IF a = k.y * Cols + col THEN c ELSE k.cells[a]]
  <2>7. h2.at = "load x" /\ h2.cells = put /\ h2.x = col /\ h2.y = k.y /\ h2.c = c
    <3>1. h2.at = "load x" /\ h2.cells = Put(h1) /\ h2.x = h1.x /\ h2.y = h1.y /\ h2.c = h1.c
      BY <2>5 DEF Becomes
    <3>2. Put(h1) = put
      BY <2>3, Zenon DEF Put
    <3> QED BY <2>3, <3>1, <3>2
  <2>8. Typeset(next) /\ Len(next) = Len(lines) /\ RowsShown(put, next, Above(lines))
    BY <1>4, <1>5, PutShows
  <2>9. Typed(p, c) = Wrap(At(next, col + 1))
    BY <1>16, TypedIs DEF lines, col
  <2> HIDE DEF next, put
  <2>10. Above(next) = Above(lines)
    BY <2>8 DEF Above
  <2>11. h2.y = Len(next) - 1 - Above(next) /\ RowsShown(h2.cells, next, Above(next))
    BY <1>4, <2>7, <2>8, <2>10
  <2>12. Value_x(h2) = col + 1
    BY <1>16, <2>7 DEF Value_x
  <2>13. col + 1 \in 0..Cols
    BY ONLY <1>6, <1>0
  <2>14. Shows(Finish(h2), Wrap(At(next, col + 1))) /\ Page(Wrap(At(next, col + 1)), 0)
    BY <1>10, <2>6, <2>7, <2>8, <2>11, <2>12, <2>13
  <2> QED BY <2>4, <2>6, <2>9, <2>14 DEF h
<1> QED BY <1>12, <1>13, <1>14, <1>15, <1>16

\* What is printed is what was meant, and the screen will show it when putch is
\* over, unless a handler printed inside a call.
ScreenIInv ==
  /\ CursorIInv
  /\ meant = text
  /\ ~disturbed => Page(paper, 0) /\ Shows(Finish(con), paper)

LEMMA ScreenStarts == ASSUME ConsoleAssumption, ConsoleInit PROVE ScreenIInv
<1>0. Rows \in Nat /\ Rows >= 2 /\ Cols \in Nat /\ Cols >= 1 /\ 0 \in {0, 1} /\ 1 \in Nat
  BY ScreenSizes
<1>1. con = Console_init /\ text = <<>> /\ meant = <<>> /\ paper = At(<<BlankLine>>, 0)
  BY DEF ConsoleInit, At
<1> DEFINE lines == <<BlankLine>>
<1>2. Len(lines) = 1 /\ Typeset(lines) /\ lines[1] = BlankLine
  BY BlankInLines DEF Typeset
<1> HIDE DEF lines
<1>3. Page(paper, 0)
  BY <1>1, <1>2, Origin, Pages DEF At, lines
<1>4. con.x = 0 /\ con.y = 0 /\ con.at = "idle"
      /\ con.cells = memsetw([a \in Cells |-> "junk"], 0, Rows * Cols)
  BY <1>1 DEF Console_init
<1>5. paper.lines = lines /\ paper.col = 0
  BY <1>1, AtParts DEF lines
<1>6. Above(lines) = 0
  BY <1>0, <1>2 DEF Above
<1>7. RowsShown(con.cells, lines, 0)
  <2> SUFFICES ASSUME NEW r \in 0..(Rows - 1), NEW c \in 0..(Cols - 1)
               PROVE  con.cells[r * Cols + c] =
                        IF 0 + r + 1 <= Len(lines) THEN lines[0 + r + 1][c] ELSE Blank
    BY DEF RowsShown
  <2>1. r \in Nat /\ r <= Rows /\ c \in Nat /\ c < Cols /\ r < Rows
    BY ONLY <1>0, r \in 0..(Rows - 1), c \in 0..(Cols - 1)
  <2>2. r * Cols + c \in Cells /\ r * Cols \in Nat
    BY <2>1, CellInMemory
  <2>3. r * Cols + Cols <= Rows * Cols /\ Rows * Cols \in Nat
    BY <1>0, <2>1, LineInMemory
  <2>4. r * Cols + c \in 0..(0 + Rows * Cols - 1)
    BY ONLY <1>0, <2>1, <2>2, <2>3
  <2>5. con.cells[r * Cols + c] = Blank
    BY <1>4, <2>2, <2>4 DEF memsetw
  <2>6. BlankLine[c] = Blank
    BY DEF BlankLine
  <2>7. 0 + r + 1 <= 1 => 0 + r + 1 = 1
    BY ONLY <2>1
  <2> QED BY <1>2, <2>5, <2>6, <2>7
<1>8. Shows(con, paper)
  <2>1. 0 = 1 - 1 - 0
    OBVIOUS
  <2> QED BY <1>2, <1>4, <1>5, <1>6, <1>7, <2>1, ShownIs
<1>9. CursorIInv
  BY CursorStarts
<1>10. Finish(con) = con
  BY <1>0, <1>4, <1>9, FinishStep DEF CursorIInv, ScreenTypeOK
<1> QED BY <1>1, <1>3, <1>8, <1>9, <1>10, Zenon DEF ScreenIInv

\* The message of a handler between two calls is on the screen and on the paper.
LEMMA MessageShows ==
  ASSUME ConsoleAssumption, Stride = Cols, NEW k \in ConsoleStates, Within(k, 0), k.at = "idle",
         NEW p, Page(p, 0), Shows(k, p)
  PROVE  LET h == puts(Goto(k, "idle"))
             q == Typed(Typed(p, "!"), "LF")
         IN  Page(q, 0) /\ Shows(h, q) /\ h \in ConsoleStates /\ Within(h, 0) /\ h.at = "idle"
<1> DEFINE g == Goto(k, "idle")
           f == Finish(Enter(g, "!"))
           h == Finish(Enter(f, "LF"))
<1> HIDE DEF g, f, h
<1>0. "!" \in Characters /\ "LF" \in Characters /\ "idle" \in Accesses /\ 0 \in {0, 1}
  BY DEF Characters, Accesses
<1>1. Becomes(g, k.cells, k.x, k.y, "idle", k.c, k.reg, k.wild)
  BY <1>0, Gone DEF g
<1>2. g \in ConsoleStates /\ Within(g, 0) /\ g.at = "idle" /\ Shows(g, p)
  <2>1. CursorFits("idle", k.c, k.x, k.y, k.reg, 0) /\ ~k.wild
    BY DEF Within
  <2>2. Within(g, 0)
    BY <1>1, <2>1 DEF Within, Becomes
  <2> QED BY <1>1, <2>2, ShownIs DEF Becomes
<1>3. ASSUME NEW j \in ConsoleStates, Within(j, 0), j.at = "idle", NEW c \in {"!", "LF"}, NEW r,
             Page(r, 0), Shows(j, r)
      PROVE  /\ Finish(Enter(j, c)) \in ConsoleStates /\ Within(Finish(Enter(j, c)), 0)
             /\ Finish(Enter(j, c)).at = "idle"
             /\ Page(Typed(r, c), 0) /\ Shows(Finish(Enter(j, c)), Typed(r, c))
  <2>1. c \in Characters /\ (c \in {"BS", "HT"} => 0 = 0)
    BY <1>0
  <2>2. Enter(j, c) \in ConsoleStates
    BY <2>1, Entered DEF Becomes
  <2>3. ~j.wild /\ InLine(j.x, 0) /\ OnScreen(j.y, 0)
    BY <1>3 DEF Within, CursorFits
  <2>4. Within(Enter(j, c), 0)
    BY <1>0, <2>1, <2>3, EnterWithin
  <2>5. Finish(Enter(j, c)) \in ConsoleStates /\ Within(Finish(Enter(j, c)), 0)
        /\ Finish(Enter(j, c)).at = "idle"
    BY <1>0, <2>2, <2>4, Finishes
  <2>6. Page(Typed(r, c), 0) /\ Shows(Finish(Enter(j, c)), Typed(r, c))
    BY <1>3, <2>1, TypedShows
  <2> QED BY <2>5, <2>6
<1>4. f \in ConsoleStates /\ Within(f, 0) /\ f.at = "idle" /\ Page(Typed(p, "!"), 0)
      /\ Shows(f, Typed(p, "!"))
  BY <1>2, <1>3 DEF f
<1>5. /\ h \in ConsoleStates /\ Within(h, 0) /\ h.at = "idle"
      /\ Page(Typed(Typed(p, "!"), "LF"), 0) /\ Shows(h, Typed(Typed(p, "!"), "LF"))
  BY <1>3, <1>4 DEF h
<1>6. puts(Goto(k, "idle")) = h
  BY DEF puts, g, f, h
<1> QED BY <1>5, <1>6

LEMMA ScreenSteps ==
  ASSUME ConsoleAssumption, Stride = Cols, ScreenIInv, [ConsoleNext]_screenVars
  PROVE  ScreenIInv'
<1>0. /\ CursorIInv' /\ con \in ConsoleStates /\ Within(con, 0) /\ text \in Seq(Printed)
      /\ (con.c = "BS" => ~Interrupts) /\ 0 \in {0, 1}
  BY CursorSteps DEF ScreenIInv, CursorIInv, ScreenTypeOK
<1>1. meant = text /\ (~disturbed => Page(paper, 0) /\ Shows(Finish(con), paper))
  BY DEF ScreenIInv
<1>2. ASSUME NEW s, Call(s, s) PROVE ScreenIInv'
  BY <1>0, <1>1, <1>2, Zenon DEF Call, ScreenIInv
<1>3. CASE NextCharacter
  <2> DEFINE c == Head(text)
  <2> HIDE DEF c
  <2>1. /\ con.at = "idle" /\ text # <<>> /\ con' = Enter(con, c) /\ text' = Tail(text)
        /\ meant' = Tail(meant) /\ paper' = Typed(paper, c) /\ disturbed' = disturbed
    BY <1>1, <1>3 DEF NextCharacter, c
  <2>2. c \in Characters
    BY <1>0, <2>1, Texts DEF c
  <2>3. Finish(con) = con
    BY <1>0, <2>1, FinishStep
  <2>4. ~disturbed' => Page(paper', 0) /\ Shows(Finish(con'), paper')
    BY <1>0, <1>1, <2>1, <2>2, <2>3, TypedShows
  <2> QED BY <1>0, <1>1, <2>1, <2>4, Zenon DEF ScreenIInv
<1>4. CASE putch
  <2>1. /\ con.at # "idle" /\ con' = Step(con) /\ text' = text /\ meant' = meant /\ paper' = paper
        /\ disturbed' = disturbed
    BY <1>4 DEF putch
  <2>2. Finish(con') = Finish(con)
    BY <1>0, <2>1, FinishStep
  <2> QED BY <1>0, <1>1, <2>1, <2>2, Zenon DEF ScreenIInv
<1>5. CASE HandlerPrints
  <2> DEFINE h == puts(Goto(con, "idle"))
  <2> HIDE DEF h
  <2>1. /\ Interrupts /\ text' = text /\ meant' = meant
        /\ con' = [h EXCEPT !.at = con.at, !.c = con.c, !.reg = con.reg]
    BY <1>5 DEF HandlerPrints, h
  <2>2. CASE ~Quiet
    <3>1. disturbed' = TRUE
      BY <1>5, <2>2 DEF HandlerPrints
    <3> QED BY <1>0, <1>1, <2>1, <3>1, Zenon DEF ScreenIInv
  <2>3. CASE Quiet
    <3>1. paper' = Typed(Typed(paper, "!"), "LF") /\ disturbed' = disturbed
      BY <1>5, <2>3, Zenon DEF HandlerPrints
    <3>2. ASSUME ~disturbed PROVE Page(paper', 0) /\ Shows(Finish(con'), paper')
      <4>1. con.at = "idle" /\ Page(paper, 0) /\ Shows(con, paper)
        BY <1>0, <1>1, <2>3, <3>2, FinishStep DEF Quiet
      <4>2. Page(paper', 0) /\ Shows(h, paper') /\ h \in ConsoleStates /\ Within(h, 0)
            /\ h.at = "idle"
        BY <1>0, <3>1, <4>1, MessageShows DEF h
      <4>3. ~h.wild /\ InLine(h.x, 0) /\ OnScreen(h.y, 0)
        BY <4>2 DEF Within, CursorFits
      <4>4. con.c # "BS"
        BY <1>0, <2>1
      <4>5. Becomes(con', h.cells, h.x, h.y, con.at, con.c, con.reg, h.wild) /\ Within(con', 0)
        BY <1>0, <2>1, <4>2, <4>3, <4>4, GoesOnWithin
      <4>6. Finish(con') = con' /\ con'.x = h.x /\ con'.y = h.y /\ con'.cells = h.cells
        BY <1>0, <4>1, <4>5, FinishStep DEF Becomes
      <4> QED BY <4>2, <4>6, ShownIs
    <3> QED BY <1>0, <1>1, <2>1, <3>1, <3>2, Zenon DEF ScreenIInv
  <2> QED BY <2>2, <2>3
<1>6. CASE UNCHANGED screenVars
  BY <1>0, <1>1, <1>6 DEF ScreenIInv, screenVars
<1>7. \A number \in Numbers : int2str(number) = Numeral(number)
  BY DEF ConsoleAssumption
<1>8. 0 \in Numbers /\ Base \in Numbers
  BY DEF ConsoleAssumption
<1>9. CASE puti
  BY <1>2, <1>7, <1>9 DEF puti
<1>10. CASE putui
  BY <1>2, <1>7, <1>8, <1>10 DEF putui
<1>11. CASE control
  BY <1>2, <1>11 DEF control
<1>12. CASE Rest
  BY <1>6, <1>12 DEF Rest
<1> QED BY <1>3, <1>4, <1>5, <1>6, <1>9, <1>10, <1>11, <1>12 DEF ConsoleNext

\* On a screen of any size: what putch has not yet done of a character, and the
\* characters still to come, make the screen show the lines that were meant.
THEOREM ScreenFollowsPaper ==
  ASSUME ConsoleAssumption, Stride = Cols
  PROVE  ConsoleSpec => []ScreenIInv
<1>1. ConsoleInit => ScreenIInv
  BY ScreenStarts
<1>2. ScreenIInv /\ [ConsoleNext]_screenVars => ScreenIInv'
  BY ScreenSteps
<1> QED BY <1>1, <1>2, PTL DEF ConsoleSpec

\* Between calls the screen shows the last lines of everything printed, numbers
\* converted, tabs and edges of lines included, with the cursor behind them.
THEOREM ScreenShowsLastLines ==
  ASSUME ConsoleAssumption, Stride = Cols
  PROVE  ConsoleSpec => []ShowsLastLines
<1>1. ScreenIInv => ShowsLastLines
  <2> SUFFICES ASSUME ScreenIInv, Quiet, ~disturbed PROVE meant = <<>> /\ Shows(con, paper)
    BY DEF ShowsLastLines
  <2>1. con.at = "idle" /\ text = <<>>
    BY DEF Quiet
  <2>2. con \in ConsoleStates /\ Within(con, 0) /\ 0 \in {0, 1}
    BY DEF ScreenIInv, CursorIInv, ScreenTypeOK
  <2>3. Finish(con) = con
    BY <2>1, <2>2, FinishStep
  <2> QED BY <2>1, <2>3 DEF ScreenIInv
<1> QED BY <1>1, ScreenFollowsPaper, PTL
=============================================================================
