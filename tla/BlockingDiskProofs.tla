------------------------- MODULE BlockingDiskProofs -------------------------
(* The blocking disk of MP6, for every number of threads and every set of   *)
(* them that uses the disk: first the two builds that poll, then the other  *)
(* two, and then all four, for which everything the run of MCBlockingDisk   *)
(* checks holds, except liveness.                                           *)
EXTENDS MCBlockingDisk, FiniteSetTheorems, TLAPS

InQ(q, t) == \E i \in 1..Len(q) : q[i] = t
Distinct(q) == \A i, j \in 1..Len(q) : q[i] = q[j] => i = j

----------------------------------------------------------------------------
(* Queues of threads.                                                       *)

LEMMA AppendFacts ==
  ASSUME NEW q \in Seq(Threads), NEW t \in Threads
  PROVE  /\ Append(q, t) \in Seq(Threads) /\ Append(q, t) # <<>>
         /\ \A s : InQ(Append(q, t), s) <=> InQ(q, s) \/ s = t
         /\ Distinct(q) /\ ~InQ(q, t) => Distinct(Append(q, t))
         /\ Head(Append(q, t)) = IF q = <<>> THEN t ELSE Head(q)
<1>1. /\ Append(q, t) \in Seq(Threads) /\ Len(Append(q, t)) = Len(q) + 1
      /\ Len(q) \in Nat
      /\ \A i \in 1..Len(q) : Append(q, t)[i] = q[i]
      /\ Append(q, t)[Len(q) + 1] = t
  OBVIOUS
<1>2. 1..(Len(q) + 1) = 1..Len(q) \union {Len(q) + 1}
  BY <1>1
<1>3. \A s : InQ(Append(q, t), s) <=> InQ(q, s) \/ s = t
  BY <1>1, <1>2 DEF InQ
<1>4. Distinct(q) /\ ~InQ(q, t) => Distinct(Append(q, t))
  BY <1>1, <1>2 DEF InQ, Distinct
<1>5. Append(q, t) # <<>> /\ Head(Append(q, t)) = Append(q, t)[1]
  BY <1>1
<1>6. CASE q = <<>>
  BY <1>1, <1>3, <1>4, <1>5, <1>6
<1>7. CASE q # <<>>
  <2>1. 1 \in 1..Len(q) /\ Head(q) = q[1]
    BY <1>7
  <2> QED BY <1>1, <1>3, <1>4, <1>5, <1>7, <2>1
<1> QED BY <1>6, <1>7

LEMMA TailFacts ==
  ASSUME NEW q \in Seq(Threads), q # <<>>, Distinct(q)
  PROVE  /\ Head(q) \in Threads /\ Tail(q) \in Seq(Threads)
         /\ InQ(q, Head(q)) /\ Distinct(Tail(q))
         /\ \A s : InQ(Tail(q), s) <=> InQ(q, s) /\ s # Head(q)
<1>1. /\ Head(q) = q[1] /\ Head(q) \in Threads
      /\ Tail(q) \in Seq(Threads) /\ Len(Tail(q)) = Len(q) - 1
      /\ Len(q) \in Nat /\ Len(q) > 0
      /\ \A i \in 1..(Len(q) - 1) : Tail(q)[i] = q[i + 1]
  OBVIOUS
<1>2. InQ(q, Head(q))
  BY <1>1 DEF InQ
<1>3. Distinct(Tail(q))
  BY <1>1 DEF Distinct
<1>4. ASSUME NEW s, InQ(Tail(q), s) PROVE InQ(q, s) /\ s # Head(q)
  BY <1>1, <1>4 DEF InQ, Distinct
<1>5. ASSUME NEW s, InQ(q, s), s # Head(q) PROVE InQ(Tail(q), s)
  <2>1. PICK i \in 1..Len(q) : q[i] = s
    BY <1>5 DEF InQ
  <2>2. i - 1 \in 1..Len(Tail(q)) /\ Tail(q)[i - 1] = s
    BY <1>1, <1>5, <2>1
  <2> QED BY <2>2 DEF InQ
<1> QED BY <1>1, <1>2, <1>3, <1>4, <1>5

LEMMA EmptyFacts ==
  /\ <<>> \in Seq(Threads) /\ Distinct(<<>>) /\ \A s : ~InQ(<<>>, s)
BY DEF InQ, Distinct

LEMMA NonEmpty ==
  ASSUME NEW q \in Seq(Threads), NEW t, InQ(q, t)
  PROVE  q # <<>>
BY DEF InQ

LEMMA TimesFacts ==
  ASSUME NEW q \in Seq(Threads), Distinct(q), NEW t
  PROVE  Times(q, t) = IF InQ(q, t) THEN 1 ELSE 0
<1>1. CASE InQ(q, t)
  <2>1. PICK i \in 1..Len(q) : q[i] = t
    BY <1>1 DEF InQ
  <2>2. {j \in 1..Len(q) : q[j] = t} = {i}
    BY <2>1 DEF Distinct
  <2> QED BY <1>1, <2>2, FS_Singleton DEF Times
<1>2. CASE ~InQ(q, t)
  <2>1. {j \in 1..Len(q) : q[j] = t} = {}
    BY <1>2 DEF InQ
  <2> QED BY <1>2, <2>1, FS_EmptySet DEF Times
<1> QED BY <1>1, <1>2

\* A queue without duplicates has room for every thread.
LEMMA NoLongQueue ==
  ASSUME NEW q \in Seq(Threads), Distinct(q)
  PROVE  Len(q) <= Cardinality(Threads)
<1>1. Len(Order) \in Nat /\ Len(q) \in Nat
  BY ThreadsAssumption
<1>2. IsFiniteSet(1..Len(Order)) /\ IsFiniteSet(1..Len(q))
  BY <1>1, FS_Interval
<1>3. IsFiniteSet(Threads)
  <2>1. [i \in 1..Len(Order) |-> Order[i]] \in Surjection(1..Len(Order), Threads)
    BY ThreadsAssumption DEF Surjection
  <2> QED BY <1>2, <2>1, FS_Surjection
<1>4. [i \in 1..Len(q) |-> q[i]] \in Injection(1..Len(q), Threads)
  BY DEF Injection, Distinct, IsInjective
<1>5. \A n \in Nat : Cardinality(1..n) = n
  <2>1. SUFFICES ASSUME NEW n \in Nat PROVE Cardinality(1..n) = n
    OBVIOUS
  <2>2. Cardinality(1..n) = IF 1 > n THEN 0 ELSE n - 1 + 1
    BY FS_Interval
  <2> QED BY <2>2
<1>6. Cardinality(1..Len(q)) <= Cardinality(Threads)
  BY <1>3, <1>4, FS_Injection
<1> QED BY <1>1, <1>5, <1>6

\* The threads of main() are created once each, and there is at least one.
LEMMA OrderFacts ==
  ASSUME Threads # {}
  PROVE  /\ Order \in Seq(Threads) /\ Order # <<>> /\ Distinct(Order)
         /\ \A t \in Threads : InQ(Order, t)
<1>1. Order \in Seq(Threads) /\ Len(Order) \in Nat
  BY ThreadsAssumption
<1>2. \A t \in Threads : InQ(Order, t)
  BY ThreadsAssumption DEF InQ
<1>3. Order # <<>>
  BY <1>2, NonEmpty, <1>1
<1>4. Cardinality(1..Len(Order)) = Len(Order) /\ IsFiniteSet(1..Len(Order))
  <2>1. ASSUME NEW n \in Nat PROVE Cardinality(1..n) = n /\ IsFiniteSet(1..n)
    <3>1. Cardinality(1..n) = IF 1 > n THEN 0 ELSE n - 1 + 1
      BY FS_Interval
    <3> QED BY <3>1, FS_Interval
  <2> QED BY <1>1, <2>1
<1> DEFINE f == [i \in 1..Len(Order) |-> Order[i]]
<1>5. f \in Surjection(1..Len(Order), Threads)
  BY ThreadsAssumption DEF Surjection
<1>6. f \in Injection(1..Len(Order), Threads)
  <2> HIDE DEF f
  <2> QED BY <1>4, <1>5, FS_Surjection, ThreadsAssumption
<1>7. Distinct(Order)
  BY <1>6 DEF Distinct, Injection, IsInjective
<1> QED BY <1>1, <1>2, <1>3, <1>7

----------------------------------------------------------------------------
(* The invariant. Flags relates the drive, the flags and block_queue;       *)
(* Placed says where the threads are while one of them runs, Switching      *)
(* where they are when yield picks the next one.                            *)

PCs == {"run", "enqueued", "issue", "issued", "transfer"}

Types ==
  /\ build \in Builds
  /\ current \in Threads
  /\ ready_queue \in Seq(Threads)
  /\ block_queue \in Seq(Threads) /\ Distinct(block_queue)
  /\ pc \in [Threads -> PCs]
  /\ wait_CPU \in BOOLEAN /\ issued \in BOOLEAN /\ done \in BOOLEAN
  /\ device \in [owner : Threads \union {Nobody}, drq : BOOLEAN]
  /\ status = "running"

Flags ==
  /\ device.owner = Nobody => ~device.drq
  /\ issued <=> device.owner # Nobody
  /\ done <=> ~issued
  /\ wait_CPU => issued
  /\ device.owner # Nobody =>
       IF wait_CPU THEN device.drq /\ ~InQ(block_queue, device.owner)
       ELSE block_queue # <<>> /\ Head(block_queue) = device.owner

\* Every thread but the running one is in one queue, and the queue says where
\* it goes on.
Placed ==
  /\ Distinct(ready_queue)
  /\ ~InQ(ready_queue, current)
  /\ InQ(block_queue, current) <=> pc[current] \in {"enqueued", "issue", "issued"}
  /\ \A t \in Threads \ {current} : InQ(ready_queue, t) <=> ~InQ(block_queue, t)
  /\ \A t \in Threads \ {current} :
       pc[t] \in IF InQ(block_queue, t) THEN {"issue", "transfer"}
                 ELSE {"run", "transfer"}
  /\ \A t \in Threads : pc[t] \in {"issued", "transfer"} <=> device.owner = t
  /\ pc[current] = "issue" =>
       device.owner = Nobody /\ block_queue # <<>> /\ Head(block_queue) = current
  /\ \A t \in Threads : pc[t] # "run" => t \in build.io

\* The same when the running thread has gone where it waits.
Switching(ready, p) ==
  /\ ready \in Seq(Threads) /\ Distinct(ready)
  /\ p \in [Threads -> PCs]
  /\ \A t \in Threads : InQ(ready, t) <=> ~InQ(block_queue, t)
  /\ \A t \in Threads :
       p[t] \in IF InQ(block_queue, t) THEN {"issue", "transfer"}
                ELSE {"run", "transfer"}
  /\ \A t \in Threads : p[t] = "transfer" <=> device.owner = t
  /\ \A t \in Threads : p[t] # "run" => t \in build.io

DInv == Types /\ Flags /\ Placed

----------------------------------------------------------------------------
(* The invariant holds at every switch and at every step between two.       *)

\* yield finds a thread to run and leaves the invariant true.
LEMMA YieldInv ==
  ASSUME Types, Flags, NEW ready, NEW p, Switching(ready, p), Yield(ready), pc' = p
  PROVE  DInv'
<1> DEFINE blocked == IF Polled THEN Tail(block_queue) ELSE block_queue
           queue == IF Polled THEN Append(ready, Head(block_queue)) ELSE ready
<1>1. /\ blocked \in Seq(Threads) /\ Distinct(blocked)
      /\ queue \in Seq(Threads) /\ Distinct(queue)
      /\ \A t \in Threads : InQ(queue, t) <=> ~InQ(blocked, t)
      /\ Polled => \A t : InQ(blocked, t) <=> InQ(block_queue, t) /\ t # Head(block_queue)
      /\ Polled => \A t : InQ(queue, t) <=> InQ(ready, t) \/ t = Head(block_queue)
  <2>1. CASE Polled
    <3>1. block_queue # <<>>
      BY <2>1 DEF Polled
    <3>2. /\ Head(block_queue) \in Threads /\ Tail(block_queue) \in Seq(Threads)
          /\ InQ(block_queue, Head(block_queue)) /\ Distinct(Tail(block_queue))
          /\ \A s : InQ(Tail(block_queue), s)
                      <=> InQ(block_queue, s) /\ s # Head(block_queue)
      BY <3>1, TailFacts DEF Types
    <3>3. ready \in Seq(Threads) /\ Distinct(ready) /\ ~InQ(ready, Head(block_queue))
      BY <3>2 DEF Switching
    <3>4. /\ Append(ready, Head(block_queue)) \in Seq(Threads)
          /\ Distinct(Append(ready, Head(block_queue)))
          /\ \A s : InQ(Append(ready, Head(block_queue)), s)
                      <=> InQ(ready, s) \/ s = Head(block_queue)
      BY <3>2, <3>3, AppendFacts
    <3> QED BY <2>1, <3>2, <3>4 DEF Switching
  <2>2. CASE ~Polled
    BY <2>2 DEF Types, Switching
  <2> QED BY <2>1, <2>2
<1>2. Polled => ~wait_CPU /\ device.drq /\ device.owner = Head(block_queue)
                /\ device.owner # Nobody /\ issued
  BY DEF Polled, Flags
<1>3. \A t \in Threads : p[t] \in IF InQ(blocked, t) THEN {"issue", "transfer"}
                                  ELSE {"run", "transfer"}
  <2> SUFFICES ASSUME NEW t \in Threads
               PROVE  p[t] \in IF InQ(blocked, t) THEN {"issue", "transfer"}
                               ELSE {"run", "transfer"}
    OBVIOUS
  <2>1. CASE Polled
    BY <1>1, <1>2, <2>1 DEF Switching
  <2>2. CASE ~Polled
    BY <2>2 DEF Switching
  <2> QED BY <2>1, <2>2
<1>4. queue # <<>>
  <2>1. PICK u \in Threads : u \notin build.io
    BY BuildsAssumption DEF Types
  <2>2. p[u] = "run" /\ InQ(queue, u)
    BY <1>1, <1>3, <2>1 DEF Switching
  <2> QED BY <1>1, <2>2, NonEmpty
<1>5. /\ block_queue' = blocked /\ wait_CPU' = (wait_CPU \/ Polled)
      /\ build' = build /\ issued' = issued /\ done' = done /\ device' = device
      /\ pc' = p
  BY DEF Yield
<1>6. \/ /\ build.safe /\ ~issued /\ blocked # <<>>
         /\ current' = Head(blocked) /\ ready_queue' = queue /\ status' = status
      \/ current' = Head(queue) /\ ready_queue' = Tail(queue) /\ status' = status
  BY <1>4 DEF Yield, need_issued
<1>7. Flags'
  <2>1. /\ device.owner # Nobody =>
             IF wait_CPU \/ Polled THEN device.drq /\ ~InQ(blocked, device.owner)
             ELSE blocked # <<>> /\ Head(blocked) = device.owner
    <3>1. CASE Polled
      BY <1>1, <1>2, <3>1
    <3>2. CASE ~Polled
      BY <3>2 DEF Flags
    <3> QED BY <3>1, <3>2
  <2>2. wait_CPU \/ Polled => issued
    BY <1>2 DEF Flags
  <2> HIDE DEF blocked, queue
  <2> QED BY <1>5, <2>1, <2>2 DEF Flags
<1> HIDE DEF blocked, queue
<1>8. CASE /\ build.safe /\ ~issued /\ blocked # <<>>
           /\ current' = Head(blocked) /\ ready_queue' = queue /\ status' = status
  <2>1. Head(blocked) \in Threads /\ InQ(blocked, Head(blocked))
    BY <1>1, <1>8, TailFacts
  <2>2. device.owner = Nobody
    BY <1>8 DEF Flags
  <2>3. p[Head(blocked)] = "issue"
    BY <1>3, <2>1, <2>2, NobodyAssumption DEF Switching
  <2>4. Types'
    BY <1>1, <1>5, <1>8, <2>1 DEF Types, Switching
  <2>5. \A t \in Threads : p[t] \in {"issued", "transfer"} <=> device.owner = t
    BY <1>3 DEF Switching
  <2>6. Placed'
    BY <1>1, <1>3, <1>5, <1>8, <2>1, <2>2, <2>3, <2>5 DEF Placed, Switching
  <2> QED BY <1>7, <2>4, <2>6 DEF DInv
<1>9. CASE current' = Head(queue) /\ ready_queue' = Tail(queue) /\ status' = status
  <2>1. /\ Head(queue) \in Threads /\ InQ(queue, Head(queue))
        /\ Tail(queue) \in Seq(Threads) /\ Distinct(Tail(queue))
        /\ \A s : InQ(Tail(queue), s) <=> InQ(queue, s) /\ s # Head(queue)
    BY <1>1, <1>4, TailFacts
  <2>2. ~InQ(blocked, Head(queue)) /\ p[Head(queue)] \in {"run", "transfer"}
    BY <1>1, <1>3, <2>1
  <2>3. Types'
    BY <1>1, <1>5, <1>9, <2>1 DEF Types, Switching
  <2>4. \A t \in Threads : p[t] \in {"issued", "transfer"} <=> device.owner = t
    BY <1>3 DEF Switching
  <2>5. Placed'
    BY <1>1, <1>3, <1>5, <1>9, <2>1, <2>2, <2>4 DEF Placed, Switching
  <2> QED BY <1>7, <2>3, <2>5 DEF DInv
<1> QED BY <1>6, <1>8, <1>9

LEMMA InitInv == Init => DInv
<1> SUFFICES ASSUME Init PROVE DInv
  OBVIOUS
<1>1. Threads # {}
  BY BuildsAssumption DEF Init
<1>2. /\ Order \in Seq(Threads) /\ Order # <<>> /\ Distinct(Order)
      /\ \A t \in Threads : InQ(Order, t)
  BY <1>1, OrderFacts
<1>3. /\ Head(Order) \in Threads /\ Tail(Order) \in Seq(Threads)
      /\ Distinct(Tail(Order))
      /\ \A t : InQ(Tail(Order), t) <=> InQ(Order, t) /\ t # Head(Order)
      /\ Order[1] = Head(Order)
  BY <1>2, TailFacts
<1>4. Types
  BY <1>3, EmptyFacts DEF Init, Types, PCs, Idle
<1>5. Flags
  BY DEF Init, Flags, Idle
<1>6. Placed
  BY <1>2, <1>3, EmptyFacts, NobodyAssumption DEF Init, Placed, Idle
<1> QED BY <1>4, <1>5, <1>6 DEF DInv

LEMMA PassOnInv == DInv /\ pass_on_CPU => DInv'
<1> SUFFICES ASSUME DInv, pass_on_CPU PROVE DInv'
  OBVIOUS
<1>1. Types /\ Flags /\ Placed
  BY DEF DInv
<1>2. pc[current] = "run" /\ current \in Threads /\ ready_queue \in Seq(Threads)
  BY <1>1 DEF pass_on_CPU, At, Types
<1>3. ~InQ(block_queue, current) /\ ~InQ(ready_queue, current) /\ Distinct(ready_queue)
  BY <1>1, <1>2 DEF Placed
<1>4. /\ Append(ready_queue, current) \in Seq(Threads)
      /\ Distinct(Append(ready_queue, current))
      /\ \A s : InQ(Append(ready_queue, current), s) <=> InQ(ready_queue, s) \/ s = current
  BY <1>2, <1>3, AppendFacts
<1>5. Switching(Append(ready_queue, current), pc)
  BY <1>1, <1>2, <1>3, <1>4 DEF Switching, Types, Placed
<1> QED BY <1>1, <1>5, YieldInv DEF pass_on_CPU

LEMMA EnterInv == DInv /\ Enter => DInv'
<1> SUFFICES ASSUME DInv, Enter PROVE DInv'
  OBVIOUS
<1>1. Types /\ Flags /\ Placed
  BY DEF DInv
<1>2. pc[current] = "run" /\ current \in Threads /\ current \in build.io
  BY <1>1 DEF Enter, At, Types
<1>3. ~InQ(block_queue, current) /\ device.owner # current
  BY <1>1, <1>2 DEF Placed
<1>4. /\ block_queue' = Append(block_queue, current)
      /\ block_queue' \in Seq(Threads) /\ Distinct(block_queue') /\ block_queue' # <<>>
      /\ \A s : InQ(block_queue', s) <=> InQ(block_queue, s) \/ s = current
      /\ Head(block_queue') = IF block_queue = <<>> THEN current ELSE Head(block_queue)
  BY <1>1, <1>2, <1>3, AppendFacts DEF Enter, Types
<1>5. /\ pc' = [pc EXCEPT ![current] = IF build.safe THEN "enqueued" ELSE "issue"]
      /\ build' = build /\ current' = current /\ ready_queue' = ready_queue
      /\ wait_CPU' = wait_CPU /\ issued' = issued /\ done' = done
      /\ device' = device /\ status' = status
  BY DEF Enter, GoTo
<1>6. Types'
  BY <1>1, <1>2, <1>4, <1>5 DEF Types, PCs
<1>7. Flags'
  BY <1>1, <1>3, <1>4, <1>5 DEF Flags
<1>8. ~build.safe => device.owner = Nobody /\ Head(block_queue') = current
  <2> SUFFICES ASSUME ~build.safe
               PROVE  device.owner = Nobody /\ Head(block_queue') = current
    OBVIOUS
  <2>1. \A t \in Threads : pc[t] # "run" => t = current
    BY <1>1, <1>2, BuildsAssumption DEF Types, Placed
  <2>2. device.owner = Nobody
    BY <1>1, <1>2, <1>3, <2>1 DEF Types, Placed
  <2>3. block_queue = <<>>
    <3>1. SUFFICES ASSUME block_queue # <<>> PROVE FALSE
      OBVIOUS
    <3>2. Head(block_queue) \in Threads /\ InQ(block_queue, Head(block_queue))
      BY <1>1, <3>1, TailFacts DEF Types
    <3>3. pc[Head(block_queue)] # "run"
      BY <1>1, <1>3, <3>2 DEF Placed
    <3> QED BY <1>3, <2>1, <3>2, <3>3
  <2> QED BY <1>4, <2>2, <2>3
<1>9. Placed'
  <2>1. /\ Distinct(ready_queue') /\ ~InQ(ready_queue', current')
        /\ (InQ(block_queue', current') <=> pc'[current'] \in {"enqueued", "issue", "issued"})
    BY <1>1, <1>2, <1>4, <1>5 DEF Types, Placed
  <2>2. \A t \in Threads' \ {current'} :
          /\ InQ(ready_queue', t) <=> ~InQ(block_queue', t)
          /\ pc'[t] \in IF InQ(block_queue', t) THEN {"issue", "transfer"}
                        ELSE {"run", "transfer"}
    BY <1>1, <1>4, <1>5 DEF Types, Placed
  <2>3. \A t \in Threads : pc'[t] \in {"issued", "transfer"} <=> device'.owner = t
    BY <1>1, <1>2, <1>3, <1>5 DEF Types, Placed
  <2>4. pc'[current'] = "issue" =>
          device'.owner = Nobody /\ block_queue' # <<>> /\ Head(block_queue') = current'
    BY <1>1, <1>2, <1>4, <1>5, <1>8 DEF Types
  <2>5. \A t \in Threads : pc'[t] # "run" => t \in build'.io
    BY <1>1, <1>2, <1>5 DEF Types, Placed
  <2> QED BY <2>1, <2>2, <2>3, <2>4, <2>5 DEF Placed
<1> QED BY <1>6, <1>7, <1>9 DEF DInv

LEMMA WaitToIssueInv == DInv /\ WaitToIssue => DInv'
<1> SUFFICES ASSUME DInv, WaitToIssue PROVE DInv'
  OBVIOUS
<1>1. Types /\ Flags /\ Placed
  BY DEF DInv
<1>2. pc[current] = "enqueued" /\ current \in Threads
  BY <1>1 DEF WaitToIssue, At, Types
<1> DEFINE p == [pc EXCEPT ![current] = "issue"]
<1>3. Switching(ready_queue, p)
  BY <1>1, <1>2 DEF Switching, Types, Placed, PCs
<1> QED BY <1>1, <1>3, YieldInv DEF WaitToIssue, GoTo

LEMMA IssueInv == DInv /\ Issue => DInv'
<1> SUFFICES ASSUME DInv, Issue PROVE DInv'
  OBVIOUS
<1>1. Types /\ Flags /\ Placed
  BY DEF DInv
<1>2. /\ pc[current] = "issue" /\ current \in Threads
      /\ device.owner = Nobody /\ block_queue # <<>> /\ Head(block_queue) = current
  BY <1>1 DEF Issue, At, Types, Placed
<1>3. ~wait_CPU
  BY <1>1, <1>2 DEF Flags
<1>4. /\ pc' = [pc EXCEPT ![current] = "issued"]
      /\ device' = [owner |-> current, drq |-> FALSE] /\ issued' = TRUE /\ done' = FALSE
      /\ build' = build /\ current' = current /\ ready_queue' = ready_queue
      /\ block_queue' = block_queue /\ wait_CPU' = wait_CPU /\ status' = status
  BY DEF Issue, GoTo
<1>5. Types'
  BY <1>1, <1>2, <1>4 DEF Types, PCs
<1>6. Flags'
  BY <1>1, <1>2, <1>3, <1>4, NobodyAssumption DEF Flags
<1>7. Placed'
  BY <1>1, <1>2, <1>4, NobodyAssumption DEF Placed, Types
<1> QED BY <1>5, <1>6, <1>7 DEF DInv

LEMMA WaitForDiskInv == DInv /\ WaitForDisk => DInv'
<1> SUFFICES ASSUME DInv, WaitForDisk PROVE DInv'
  OBVIOUS
<1>1. Types /\ Flags /\ Placed
  BY DEF DInv
<1>2. pc[current] = "issued" /\ current \in Threads /\ device.owner = current
  BY <1>1 DEF WaitForDisk, At, Types, Placed
<1> DEFINE p == [pc EXCEPT ![current] = "transfer"]
<1>3. Switching(ready_queue, p)
  BY <1>1, <1>2 DEF Switching, Types, Placed, PCs
<1> QED BY <1>1, <1>3, YieldInv DEF WaitForDisk, GoTo

\* The thread that transfers has left block_queue, so DRQ is up.
LEMMA TransferFacts ==
  ASSUME DInv, pc[current] = "transfer"
  PROVE  /\ device.owner = current /\ device.drq /\ wait_CPU
         /\ ~InQ(block_queue, current)
<1>1. Types /\ Flags /\ Placed /\ current \in Threads
  BY DEF DInv, Types
<1>2. device.owner = current /\ ~InQ(block_queue, current)
  BY <1>1 DEF Placed
<1>3. block_queue # <<>> => InQ(block_queue, Head(block_queue))
  BY <1>1, TailFacts DEF Types
<1> QED BY <1>1, <1>2, <1>3, NobodyAssumption DEF Flags

LEMMA TransferInv == DInv /\ Transfer => DInv'
<1> SUFFICES ASSUME DInv, Transfer PROVE DInv'
  OBVIOUS
<1>1. Types /\ Flags /\ Placed
  BY DEF DInv
<1>2. pc[current] = "transfer" /\ current \in Threads
  BY <1>1 DEF Transfer, At, Types
<1>3. device.owner = current /\ ~InQ(block_queue, current)
  BY <1>2, TransferFacts
<1>4. /\ pc' = [pc EXCEPT ![current] = "run"]
      /\ device' = [owner |-> Nobody, drq |-> FALSE]
      /\ issued' = FALSE /\ done' = TRUE /\ wait_CPU' = FALSE
      /\ build' = build /\ current' = current /\ ready_queue' = ready_queue
      /\ block_queue' = block_queue /\ status' = status
  BY DEF Transfer, GoTo, Idle
<1>5. Types'
  BY <1>1, <1>2, <1>4 DEF Types, PCs
<1>6. Flags'
  BY <1>4 DEF Flags
<1>7. Placed'
  BY <1>1, <1>2, <1>3, <1>4, NobodyAssumption DEF Placed, Types
<1> QED BY <1>5, <1>6, <1>7 DEF DInv

LEMMA RaiseDRQInv == DInv /\ RaiseDRQ => DInv'
<1> SUFFICES ASSUME DInv, RaiseDRQ PROVE DInv'
  OBVIOUS
<1>1. Types /\ Flags /\ Placed
  BY DEF DInv
<1>2. /\ device' = [device EXCEPT !.drq = TRUE] /\ device.owner # Nobody
      /\ UNCHANGED <<build, current, ready_queue, block_queue, pc, wait_CPU, issued,
                     done, status>>
  BY DEF RaiseDRQ
<1>3. device'.owner = device.owner /\ device'.drq = TRUE
  BY <1>1, <1>2 DEF Types
<1>4. Types'
  BY <1>1, <1>2 DEF Types
<1>5. Flags'
  BY <1>1, <1>2, <1>3 DEF Flags
<1>6. Placed'
  BY <1>1, <1>2, <1>3 DEF Placed
<1> QED BY <1>4, <1>5, <1>6 DEF DInv

LEMMA StutterInv == DInv /\ UNCHANGED vars => DInv'
BY DEF DInv, Types, Flags, Placed, vars

\* DInv is an inductive invariant: it holds in the first state and every
\* action, of the threads and of the drive, keeps it.
THEOREM DInvHolds == Spec => []DInv
<1>1. DInv /\ [Next]_vars => DInv'
  BY PassOnInv, EnterInv, WaitToIssueInv, IssueInv, WaitForDiskInv, TransferInv,
     RaiseDRQInv, StutterInv DEF Next, Kernel
<1> QED BY InitInv, <1>1, PTL DEF Spec

----------------------------------------------------------------------------
(* What follows from it.                                                    *)

LEMMA DeviceIdle ==
  ASSUME DInv
  PROVE  device = Idle <=> device.owner = Nobody
<1>1. /\ device \in [owner : Threads \union {Nobody}, drq : BOOLEAN]
      /\ device.owner = Nobody => ~device.drq
  BY DEF DInv, Types, Flags
<1> QED BY <1>1 DEF Idle

LEMMA QueueFacts ==
  ASSUME DInv
  PROVE  /\ ready_queue \in Seq(Threads) /\ Distinct(ready_queue)
         /\ block_queue \in Seq(Threads) /\ Distinct(block_queue)
         /\ \A t : Times(ready_queue, t) = IF InQ(ready_queue, t) THEN 1 ELSE 0
         /\ \A t : Times(block_queue, t) = IF InQ(block_queue, t) THEN 1 ELSE 0
<1>1. /\ ready_queue \in Seq(Threads) /\ Distinct(ready_queue)
      /\ block_queue \in Seq(Threads) /\ Distinct(block_queue)
  BY DEF DInv, Types, Placed
<1> QED BY <1>1, TimesFacts

\* The variables keep their types, and neither queue ever holds more entries
\* than there are threads.
THEOREM TypeCorrect == Spec => []TypeOK
<1>1. DInv => TypeOK
  <2> SUFFICES ASSUME DInv PROVE TypeOK
    OBVIOUS
  <2>1. /\ Len(ready_queue) <= Cardinality(Threads)
        /\ Len(block_queue) <= Cardinality(Threads)
    BY QueueFacts, NoLongQueue
  <2> QED BY <2>1 DEF DInv, Types, PCs, TypeOK
<1> QED BY <1>1, DInvHolds, PTL

\* yield always finds a thread to dispatch to, with any number of threads that
\* use the disk as long as one does not.
THEOREM YieldFindsAThread == Spec => []NothingFails
<1>1. DInv => NothingFails
  BY DEF DInv, Types, NothingFails
<1> QED BY <1>1, DInvHolds, PTL

\* No thread is lost between the ready queue, block_queue and the CPU, and none
\* is in two of them, except on its way to wait for the disk.
THEOREM EveryThreadInOnePlace == Spec => []OnePlace
<1>1. DInv => OnePlace
  <2> SUFFICES ASSUME DInv, NEW t \in Threads
               PROVE  /\ Times(ready_queue, t) + Times(block_queue, t) <= 1
                      /\ IF t = current
                           THEN Times(block_queue, t) = 1
                                  <=> pc[t] \in {"enqueued", "issue", "issued"}
                           ELSE Times(ready_queue, t) + Times(block_queue, t) = 1
    BY DEF OnePlace
  <2>1. /\ Times(ready_queue, t) = IF InQ(ready_queue, t) THEN 1 ELSE 0
        /\ Times(block_queue, t) = IF InQ(block_queue, t) THEN 1 ELSE 0
    BY QueueFacts
  <2> QED BY <2>1 DEF DInv, Placed
<1> QED BY <1>1, DInvHolds, PTL

\* A command is issued only to an idle drive: no thread overwrites a command
\* whose data has not been transferred.
THEOREM CommandsAreNotLost == Spec => []NoCommandLost
<1>1. DInv => NoCommandLost
  BY DeviceIdle DEF DInv, Placed, NoCommandLost, At
<1> QED BY <1>1, DInvHolds, PTL

\* The 256 words a thread moves through the data port belong to its own
\* command, and the drive is ready for them.
THEOREM ThreadsTransferTheirOwnData == Spec => []TransfersOwnData
<1>1. DInv => TransfersOwnData
  <2> SUFFICES ASSUME DInv, pc[current] = "transfer"
               PROVE  device = [owner |-> current, drq |-> TRUE]
    BY DEF TransfersOwnData, At
  <2>1. device.owner = current /\ device.drq
    BY TransferFacts
  <2>2. device \in [owner : Threads \union {Nobody}, drq : BOOLEAN]
    BY DEF DInv, Types
  <2> QED BY <2>1, <2>2
<1> QED BY <1>1, DInvHolds, PTL

\* The thread yield resumes when DRQ is up is the one whose command it is.
THEOREM IssuerAtHead == Spec => []HeadIssued
<1>1. DInv => HeadIssued
  <2> SUFFICES ASSUME DInv, NEW t \in Threads, device.owner = t
               PROVE  IF wait_CPU THEN device.drq /\ Times(block_queue, t) = 0
                      ELSE block_queue # <<>> /\ Head(block_queue) = t
    BY DEF HeadIssued
  <2>1. Times(block_queue, t) = IF InQ(block_queue, t) THEN 1 ELSE 0
    BY QueueFacts
  <2> QED BY <2>1, NobodyAssumption DEF DInv, Flags
<1> QED BY <1>1, DInvHolds, PTL

\* issued, done and wait_CPU agree with what the drive is doing.
THEOREM FlagsAgreeWithDrive == Spec => []FlagsAgree
<1>1. DInv => FlagsAgree
  BY DeviceIdle DEF DInv, Flags, FlagsAgree
<1> QED BY <1>1, DInvHolds, PTL

----------------------------------------------------------------------------
(* With interrupts, threads compute with interrupts on and work on queues   *)
(* and disk with interrupts off, and an interrupt finds the thread it is    *)
(* for.                                                                     *)

Computing == {"run", "passing", "have_read", "wrote"}
SwitchedOut == {"start", "switched", "resumed"}
InsideDisk == {"issue", "issued", "resumed", "transfer", "issue_write", "busy"}
Labels == Computing \union SwitchedOut \union InsideDisk

FlagTypeOK ==
  /\ current \in Threads
  /\ ready_queue \in Seq(Threads) /\ block_queue \in Seq(Threads)
  /\ pc \in [Threads -> Labels]
  /\ IFlag \in BOOLEAN
  /\ enable \in [Threads -> [yield : BOOLEAN, disk : BOOLEAN]]

\* The flag is masked at the right places; and because a switch leaves it as it
\* is, every thread that does not run is inside yield or has not started, and
\* the locals say what each thread has to restore: in yield what its caller
\* had, in read and write that interrupts were on.
MaskInv ==
  /\ FlagTypeOK
  /\ SectionsAreMasked
  /\ \A t \in Threads : t # current => pc[t] \in SwitchedOut
  /\ \A t \in Threads :
       /\ pc[t] = "switched" => enable[t].yield
       /\ pc[t] = "resumed" => ~enable[t].yield
       /\ pc[t] \in InsideDisk => enable[t].disk

THEOREM InitMaskInv == InterruptInit => MaskInv
<1> SUFFICES ASSUME InterruptInit PROVE MaskInv
  OBVIOUS
<1>1. Order \in Seq(Threads) /\ Order # <<>> /\ Order[1] \in Threads
  <2>1. BuildsAssumption /\ build \in Builds
    BY BuildsAssumption DEF InterruptInit
  <2>2. build.io \subseteq Threads /\ build.io # Threads
    BY <2>1, BuildsAssumption
  <2>3. PICK t \in Threads : TRUE
    BY <2>2
  <2>4. PICK i \in 1..Len(Order) : Order[i] = t
    BY <2>3, ThreadsAssumption
  <2> QED BY <2>4, ThreadsAssumption
<1>2. FlagTypeOK
  <2>1. Tail(Order) \in Seq(Threads) /\ <<>> \in Seq(Threads)
    BY <1>1
  <2>2. enable \in [Threads -> [yield : BOOLEAN, disk : BOOLEAN]]
    BY DEF InterruptInit
  <2>3. pc \in [Threads -> Labels]
    BY DEF InterruptInit, Labels, SwitchedOut
  <2> QED BY <1>1, <2>1, <2>2, <2>3 DEF InterruptInit, FlagTypeOK
<1>3. \A t \in Threads : pc[t] = "start"
  BY DEF InterruptInit
<1>4. IFlag = FALSE
  BY DEF InterruptInit
<1> QED BY <1>1, <1>2, <1>3, <1>4
        DEF MaskInv, SectionsAreMasked, SwitchedOut, InsideDisk, FlagTypeOK

----------------------------------------------------------------------------
(* The steps.                                                               *)

\* yield: the thread that goes out keeps what it has to restore, the one that
\* comes in has gone out in the same way.
LEMMA YieldMasks ==
  ASSUME MaskInv, NEW label \in {"switched", "resumed"},
         InterruptYield(label), status = "running",
         IFlag <=> label = "switched",
         label = "resumed" => pc[current] \in InsideDisk
  PROVE  MaskInv'
<1>1. /\ IFlag' = FALSE
      /\ enable' = [enable EXCEPT ![current]["yield"] = IFlag]
      /\ pc' = [pc EXCEPT ![current] = label]
      /\ block_queue' = block_queue
  BY DEF InterruptYield, Cli, GoTo
<1>2. current' \in Threads /\ ready_queue' \in Seq(Threads)
  <2>1. ready_queue # <<>> => Head(ready_queue) \in Threads /\ Tail(ready_queue) \in Seq(Threads)
    BY DEF MaskInv, FlagTypeOK
  <2> QED BY <2>1 DEF InterruptYield, MaskInv, FlagTypeOK
<1>3. label \in Labels /\ label \in SwitchedOut /\ label \notin Computing
  BY DEF Labels, SwitchedOut, Computing
<1>4. FlagTypeOK'
  BY <1>1, <1>2, <1>3 DEF MaskInv, FlagTypeOK
<1>5. pc'[current] = label /\ \A t \in Threads : t # current => pc'[t] = pc[t]
  BY <1>1 DEF MaskInv, FlagTypeOK
<1>6. /\ enable'[current].yield = IFlag /\ enable'[current].disk = enable[current].disk
      /\ \A t \in Threads : t # current => enable'[t] = enable[t]
  BY <1>1 DEF MaskInv, FlagTypeOK
<1>7. \A t \in Threads : pc'[t] \in SwitchedOut
  BY <1>3, <1>5 DEF MaskInv
<1>8. SectionsAreMasked'
  BY <1>1, <1>2, <1>7 DEF SectionsAreMasked, SwitchedOut
<1>9. ASSUME NEW t \in Threads
      PROVE  /\ pc'[t] = "switched" => enable'[t].yield
             /\ pc'[t] = "resumed" => ~enable'[t].yield
             /\ pc'[t] \in InsideDisk => enable'[t].disk
  <2>1. CASE t = current
    <3>1. label = "resumed" => enable[current].disk
      BY DEF MaskInv, FlagTypeOK
    <3>2. label = "switched" => label \notin InsideDisk
      BY DEF InsideDisk
    <3>3. pc'[t] = label /\ enable'[t].yield = IFlag /\ enable'[t].disk = enable[t].disk
      BY <2>1, <1>5, <1>6
    <3> QED BY <2>1, <3>1, <3>2, <3>3
  <2>2. CASE t # current
    BY <2>2, <1>5, <1>6 DEF MaskInv
  <2> QED BY <2>1, <2>2
<1> QED BY <1>4, <1>7, <1>8, <1>9 DEF MaskInv

\* A step of the running thread without a switch: what it has to establish.
LEMMA RunsOn ==
  ASSUME MaskInv, NEW label \in Labels, GoTo(label),
         current' = current,
         ready_queue' \in Seq(Threads), block_queue' \in Seq(Threads),
         IFlag' \in BOOLEAN,
         enable' \in [Threads -> [yield : BOOLEAN, disk : BOOLEAN]],
         \A t \in Threads : t # current => enable'[t] = enable[t],
         label \notin {"switched", "resumed"},
         IFlag' <=> label \in Computing,
         label \in InsideDisk => enable'[current].disk
  PROVE  MaskInv'
<1>1. pc' = [pc EXCEPT ![current] = label] /\ current \in Threads
  BY DEF GoTo, MaskInv, FlagTypeOK
<1>2. FlagTypeOK'
  BY <1>1 DEF MaskInv, FlagTypeOK
<1>3. pc'[current] = label /\ \A t \in Threads : t # current => pc'[t] = pc[t]
  BY <1>1 DEF MaskInv, FlagTypeOK
<1>4. SectionsAreMasked'
  BY <1>3 DEF SectionsAreMasked, Computing
<1>5. ASSUME NEW t \in Threads
      PROVE  /\ t # current' => pc'[t] \in SwitchedOut
             /\ pc'[t] = "switched" => enable'[t].yield
             /\ pc'[t] = "resumed" => ~enable'[t].yield
             /\ pc'[t] \in InsideDisk => enable'[t].disk
  <2>1. CASE t = current
    BY <2>1, <1>3
  <2>2. CASE t # current
    BY <2>2, <1>3 DEF MaskInv
  <2> QED BY <2>1, <2>2
<1> QED BY <1>2, <1>4, <1>5 DEF MaskInv

\* The guard of a step, as the invariant sees it.
LEMMA AtMeans ==
  ASSUME MaskInv, NEW label, At(label)
  PROVE  /\ status = "running" /\ pc[current] = label /\ current \in Threads
         /\ IFlag <=> label \in Computing
         /\ label = "switched" => enable[current].yield
         /\ label = "resumed" => ~enable[current].yield
         /\ label \in InsideDisk => enable[current].disk
BY DEF At, MaskInv, FlagTypeOK, SectionsAreMasked, Computing

LEMMA KernelMasks == ASSUME MaskInv, InterruptKernel PROVE MaskInv'
<1> USE DEF Labels, Computing, SwitchedOut, InsideDisk
<1>0. FlagTypeOK
  BY DEF MaskInv
<1>1. CASE thread_start
  <2> USE <1>1 DEF thread_start
  <2> QED BY <1>0, RunsOn DEF FlagTypeOK
<1>2. CASE resume
  <2>1. Append(ready_queue, current) \in Seq(Threads)
    BY <1>0 DEF FlagTypeOK
  <2>2. IFlag
    BY <1>2, AtMeans DEF resume
  <2> QED BY <1>0, <1>2, <2>1, <2>2, RunsOn DEF resume, FlagTypeOK, interruptVars
<1>3. CASE yield
  BY <1>3, AtMeans, YieldMasks DEF yield
<1>4. CASE read_yields
  BY <1>4, AtMeans, YieldMasks DEF read_yields
<1>5. CASE yield_returns
  <2>1. /\ enable' = enable /\ IFlag' = (IFlag \/ enable[current].yield)
        /\ current' = current /\ ready_queue' = ready_queue /\ block_queue' = block_queue
    BY <1>5 DEF yield_returns, Sti
  <2>2. CASE pc[current] = "switched"
    <3>1. At("switched")
      BY <1>5, <2>2 DEF At, yield_returns
    <3>2. GoTo("run") /\ IFlag' = TRUE
      BY <1>5, <2>1, <2>2, <3>1, AtMeans DEF yield_returns
    <3> QED BY <1>0, <2>1, <3>2, RunsOn DEF FlagTypeOK
  <2>3. CASE pc[current] = "resumed"
    <3>1. At("resumed")
      BY <1>5, <2>3 DEF At, yield_returns
    <3>2. GoTo("transfer") /\ IFlag' = FALSE /\ enable[current].disk
      BY <1>0, <1>5, <2>1, <2>3, <3>1, AtMeans DEF yield_returns, FlagTypeOK
    <3> QED BY <1>0, <2>1, <3>2, RunsOn DEF FlagTypeOK
  <2> QED BY <1>5, <2>2, <2>3 DEF yield_returns
<1>6. CASE read \/ write
  <2>1. IFlag /\ current \in Threads
    BY <1>6, AtMeans DEF read, write
  <2>2. IFlag' = FALSE /\ enable' = [enable EXCEPT ![current]["disk"] = IFlag]
    BY <1>6 DEF read, write, Cli
  <2>3. /\ enable' \in [Threads -> [yield : BOOLEAN, disk : BOOLEAN]]
        /\ \A t \in Threads : t # current => enable'[t] = enable[t]
        /\ enable'[current].disk
    BY <1>0, <2>1, <2>2 DEF FlagTypeOK
  <2>4. /\ ready_queue' \in Seq(Threads) /\ block_queue' \in Seq(Threads)
        /\ current' = current
    BY <1>0, <1>6 DEF read, write, FlagTypeOK
  <2>5. GoTo("issue") \/ GoTo("issue_write")
    BY <1>6 DEF read, write
  <2> QED BY <2>2, <2>3, <2>4, <2>5, RunsOn
<1>7. CASE issue_operation
  <2>1. ~IFlag /\ enable[current].disk
    BY <1>7, AtMeans DEF issue_operation
  <2>2. GoTo("issued") \/ GoTo("busy")
    BY <1>7 DEF issue_operation
  <2> QED BY <1>0, <1>7, <2>1, <2>2, RunsOn DEF issue_operation, interruptVars, FlagTypeOK
<1>8. CASE write_data \/ read_data
  <2>1. enable[current].disk
    BY <1>8, AtMeans DEF write_data, read_data
  <2>2. IFlag' = TRUE /\ enable' = enable
    BY <1>0, <1>8, <2>1 DEF write_data, read_data, Sti, FlagTypeOK
  <2>3. GoTo("wrote") \/ GoTo("have_read")
    BY <1>8 DEF write_data, read_data
  <2>4. current' = current /\ ready_queue' = ready_queue /\ block_queue' = block_queue
    BY <1>8 DEF write_data, read_data
  <2> QED BY <1>0, <2>2, <2>3, <2>4, RunsOn DEF FlagTypeOK
<1> QED BY <1>1, <1>2, <1>3, <1>4, <1>5, <1>6, <1>7, <1>8 DEF InterruptKernel

\* Drive and handler leave the threads where they are.
LEMMA OthersMask ==
  ASSUME MaskInv, RaiseIRQ \/ handle_interrupt \/ UNCHANGED <<vars, interruptVars>>
  PROVE  MaskInv'
<1>1. pc' = pc /\ current' = current /\ IFlag' = IFlag /\ enable' = enable
  BY DEF RaiseIRQ, handle_interrupt, vars, interruptVars
<1>2. ready_queue' \in Seq(Threads) /\ block_queue' \in Seq(Threads)
  <2>1. CASE handle_interrupt
    <3>1. block_queue # <<>> =>
            /\ Tail(block_queue) \in Seq(Threads)
            /\ Append(ready_queue, Head(block_queue)) \in Seq(Threads)
      BY DEF MaskInv, FlagTypeOK
    <3> QED BY <2>1, <3>1 DEF handle_interrupt, MaskInv, FlagTypeOK
  <2>2. CASE RaiseIRQ \/ UNCHANGED <<vars, interruptVars>>
    BY <2>2 DEF RaiseIRQ, vars, MaskInv, FlagTypeOK
  <2> QED BY <2>1, <2>2
<1> QED BY <1>1, <1>2 DEF MaskInv, FlagTypeOK, SectionsAreMasked

THEOREM NextMaskInv == MaskInv /\ [InterruptNext]_<<vars, interruptVars>> => MaskInv'
BY KernelMasks, OthersMask DEF InterruptNext

----------------------------------------------------------------------------
\* In every execution of the _INTERRUPT build, each thread restores the flag
\* that its caller had.
THEOREM MaskInvHolds == InterruptSpec => []MaskInv
<1> QED BY InitMaskInv, NextMaskInv, PTL DEF InterruptSpec

----------------------------------------------------------------------------
(* With interrupts: who waits for what. One thread uses the disk.           *)

\* The labels between the calls of read and write.
OnDisk == InsideDisk \union {"have_read", "wrote"}
Commanding == {"issued", "busy", "resumed", "transfer"}

\* A thread that does not run is in one queue, and so is a running one on its
\* way out; block_queue holds a thread that has called read until the handler
\* has taken it out; the drive executes a command for the thread that waits.
HandedOver ==
  /\ Distinct(ready_queue) /\ Distinct(block_queue)
  /\ \A t \in Threads :
       /\ InQ(block_queue, t) <=> pc[t] \in {"issue", "issued"} \/ (pc[t] = "resumed" /\ ~wait_CPU)
       /\ InQ(ready_queue, t) <=> IF t = current THEN pc[t] = "passing" ELSE ~InQ(block_queue, t)
       /\ device.owner = t <=> pc[t] \in Commanding
       /\ pc[t] \in OnDisk => t \in build.io
  /\ pc[current] \in {"resumed", "transfer"} => wait_CPU

\* An interrupt that has not been handled yet is for a read whose thread has
\* not been taken out, or the one of the write that has just ended.
DriveInv ==
  /\ build \in Builds /\ ~build.safe /\ status = "running"
  /\ device \in [owner : Threads \union {Nobody}, drq : BOOLEAN]
  /\ wait_CPU \in BOOLEAN /\ issued \in BOOLEAN /\ done \in BOOLEAN /\ pending \in BOOLEAN
  /\ device.owner = Nobody => ~device.drq
  /\ issued <=> device.owner # Nobody
  /\ done <=> ~issued
  /\ wait_CPU => issued /\ device.drq /\ pc[device.owner] \in {"resumed", "transfer"}
  /\ pending => IF device.owner = Nobody THEN pc[current] = "wrote"
                ELSE ~wait_CPU /\ device.drq /\ pc[device.owner] # "busy"

WaitInv == MaskInv /\ HandedOver /\ DriveInv

LEMMA OneUser ==
  ASSUME WaitInv
  PROVE  /\ \A s, t \in build.io : s = t
         /\ \E u \in Threads : u \notin build.io
BY BuildsAssumption DEF WaitInv, DriveInv

LEMMA InitWaits == InterruptInit => WaitInv
<1> SUFFICES ASSUME InterruptInit PROVE WaitInv
  OBVIOUS
<1>1. build \in Builds /\ ~build.safe
  BY DEF InterruptInit
<1>2. Threads # {}
  BY <1>1, BuildsAssumption
<1>3. /\ Order \in Seq(Threads) /\ Order # <<>> /\ Distinct(Order)
      /\ \A t \in Threads : InQ(Order, t)
  BY <1>2, OrderFacts
<1>4. /\ Head(Order) \in Threads /\ Tail(Order) \in Seq(Threads)
      /\ Distinct(Tail(Order))
      /\ \A t : InQ(Tail(Order), t) <=> InQ(Order, t) /\ t # Head(Order)
      /\ Order[1] = Head(Order)
  BY <1>3, TailFacts
<1>5. HandedOver
  BY <1>3, <1>4, EmptyFacts, NobodyAssumption
     DEF InterruptInit, HandedOver, Idle, Commanding, OnDisk, InsideDisk
<1>6. DriveInv
  BY <1>1 DEF InterruptInit, DriveInv, Idle
<1> QED BY <1>5, <1>6, InitMaskInv DEF WaitInv

\* yield: somebody is in the ready queue, and who comes from there is in no
\* other queue.
LEMMA YieldWaits ==
  ASSUME WaitInv, MaskInv', NEW label \in {"switched", "resumed"}, InterruptYield(label),
         pc[current] = IF label = "switched" THEN "passing" ELSE "issued"
  PROVE  WaitInv'
<1> USE DEF Commanding, OnDisk, InsideDisk
<1>0. MaskInv /\ HandedOver /\ DriveInv /\ FlagTypeOK /\ current \in Threads
  BY DEF WaitInv, MaskInv, FlagTypeOK
<1>1. /\ pc' = [pc EXCEPT ![current] = label]
      /\ UNCHANGED <<build, block_queue, wait_CPU, issued, done, device, pending>>
  BY DEF InterruptYield, GoTo
<1>2. pc'[current] = label /\ \A t \in Threads : t # current => pc'[t] = pc[t]
  BY <1>0, <1>1 DEF FlagTypeOK
<1>3. ready_queue \in Seq(Threads) /\ ready_queue # <<>> /\ Distinct(ready_queue)
  <2>1. CASE label = "switched"
    BY <1>0, <2>1, NonEmpty DEF HandedOver, FlagTypeOK
  <2>2. CASE label = "resumed"
    <3>1. PICK u \in Threads : u \notin build.io
      BY OneUser
    <3>2. u # current /\ ~InQ(block_queue, u)
      BY <1>0, <2>2, <3>1 DEF HandedOver
    <3> QED BY <1>0, <3>2, NonEmpty DEF HandedOver, FlagTypeOK
  <2> QED BY <2>1, <2>2
<1>4. /\ Head(ready_queue) \in Threads /\ Distinct(Tail(ready_queue))
      /\ InQ(ready_queue, Head(ready_queue))
      /\ \A s : InQ(Tail(ready_queue), s) <=> InQ(ready_queue, s) /\ s # Head(ready_queue)
  BY <1>3, TailFacts
<1>5. current' = Head(ready_queue) /\ ready_queue' = Tail(ready_queue) /\ status' = status
  BY <1>3 DEF InterruptYield
<1>6. label = "resumed" => ~wait_CPU /\ device.owner = current
  BY <1>0 DEF HandedOver, DriveInv
<1>7. ASSUME NEW t \in Threads
      PROVE  /\ InQ(block_queue, t) <=>
                  pc'[t] \in {"issue", "issued"} \/ (pc'[t] = "resumed" /\ ~wait_CPU)
             /\ device.owner = t <=> pc'[t] \in Commanding
             /\ pc'[t] \in OnDisk => t \in build.io
  BY <1>0, <1>2, <1>6 DEF HandedOver
<1>8. ASSUME NEW t \in Threads
      PROVE  InQ(ready_queue', t) <=>
               IF t = current' THEN pc'[t] = "passing" ELSE ~InQ(block_queue, t)
  <2>1. pc'[current'] # "passing"
    BY <1>2, <1>4, <1>5, <1>0 DEF MaskInv, SwitchedOut
  <2>2. InQ(ready_queue, current) \/ InQ(block_queue, current)
    BY <1>0 DEF HandedOver
  <2>3. t # current' => (InQ(ready_queue, t) <=> ~InQ(block_queue, t))
    BY <1>0, <1>4, <1>5, <2>2 DEF HandedOver
  <2> QED BY <1>4, <1>5, <2>1, <2>3
<1>9. pc'[current'] \in {"resumed", "transfer"} => wait_CPU
  <2>1. InQ(ready_queue, current')
    BY <1>4, <1>5
  <2>2. ~InQ(block_queue, current')
    BY <1>0, <1>4, <1>5, <2>1 DEF HandedOver
  <2>3. pc'[current'] # "transfer"
    BY <1>2, <1>4, <1>5, <1>0 DEF MaskInv, SwitchedOut
  <2> QED BY <1>4, <1>5, <1>7, <2>2, <2>3
<1>10. HandedOver'
  BY <1>0, <1>1, <1>4, <1>5, <1>7, <1>8, <1>9 DEF HandedOver
<1>11. DriveInv'
  <2>1. wait_CPU => pc'[device.owner] \in {"resumed", "transfer"}
    BY <1>0, <1>2, NobodyAssumption DEF DriveInv
  <2>2. pending => IF device.owner = Nobody THEN pc'[current'] = "wrote"
                   ELSE pc'[device.owner] # "busy"
    BY <1>0, <1>2 DEF DriveInv
  <2> QED BY <1>0, <1>1, <1>5, <2>1, <2>2 DEF DriveInv
<1> QED BY <1>10, <1>11 DEF WaitInv

\* A step of the running thread without a switch or a change of the queues.
LEMMA StaysWaits ==
  ASSUME WaitInv, MaskInv',
         thread_start \/ yield_returns \/ write \/ issue_operation \/ write_data \/ read_data,
         ~(pending /\ IFlag)
  PROVE  WaitInv'
<1> USE DEF Commanding, OnDisk, InsideDisk
<1> DEFINE at == pc[current]
<1>0. MaskInv /\ HandedOver /\ DriveInv /\ FlagTypeOK /\ current \in Threads /\ status = "running"
  BY DEF WaitInv, MaskInv, FlagTypeOK, DriveInv
<1>1. UNCHANGED <<build, current, ready_queue, block_queue, status>>
  BY DEF thread_start, yield_returns, write, issue_operation, write_data, read_data, interruptVars
<1>2. PICK label :
        /\ pc' = [pc EXCEPT ![current] = label]
        /\ \/ at = "start" /\ label = "run"
           \/ at = "switched" /\ label = "run"
           \/ at = "resumed" /\ label = "transfer"
           \/ at = "have_read" /\ label = "issue_write"
           \/ at = "issue" /\ label = "issued"
           \/ at = "issue_write" /\ label = "busy"
           \/ at = "busy" /\ label = "wrote"
           \/ at = "transfer" /\ label = "have_read"
        /\ at \in {"start", "switched", "resumed", "have_read"} =>
             /\ device' = device /\ wait_CPU' = wait_CPU /\ pending' = pending
             /\ issued' = issued /\ done' = done
        /\ at \in {"issue", "issue_write"} =>
             /\ device' = [owner |-> current, drq |-> FALSE]
             /\ issued' /\ ~done' /\ wait_CPU' = wait_CPU /\ pending' = pending
        /\ at \in {"busy", "transfer"} =>
             /\ device' = Idle
             /\ ~issued' /\ done' /\ ~wait_CPU' /\ (pending' <=> at = "busy" \/ pending)
        /\ wait_CPU' \in BOOLEAN /\ issued' \in BOOLEAN /\ done' \in BOOLEAN /\ pending' \in BOOLEAN
  <2>0. wait_CPU \in BOOLEAN /\ issued \in BOOLEAN /\ done \in BOOLEAN /\ pending \in BOOLEAN
    BY <1>0 DEF DriveInv
  <2>1. CASE thread_start
    BY <2>0, <2>1 DEF thread_start, At, GoTo
  <2>2. CASE yield_returns
    BY <2>0, <2>2 DEF yield_returns, GoTo
  <2>3. CASE write
    BY <2>0, <2>3 DEF write, At, GoTo
  <2>4. CASE issue_operation
    BY <2>0, <2>4 DEF issue_operation, At, GoTo, interruptVars
  <2>5. CASE write_data
    BY <2>0, <2>5 DEF write_data, At, GoTo
  <2>6. CASE read_data
    BY <2>0, <2>6 DEF read_data, At, GoTo
  <2> QED BY <2>1, <2>2, <2>3, <2>4, <2>5, <2>6
<1>3. pc'[current] = label /\ \A t \in Threads : t # current => pc'[t] = pc[t]
  BY <1>0, <1>2 DEF FlagTypeOK
<1>4. \A t \in Threads : t # current => pc[t] \in SwitchedOut
  BY <1>0 DEF MaskInv
<1>5. \A t \in Threads : t # current /\ pc[t] = "resumed" /\ at \in OnDisk => FALSE
  BY <1>0, OneUser DEF HandedOver
<1>6. at \in {"issue", "issue_write"} => device.owner = Nobody /\ ~wait_CPU /\ ~pending
  <2> SUFFICES ASSUME at \in {"issue", "issue_write"}
               PROVE  device.owner = Nobody /\ ~wait_CPU /\ ~pending
    OBVIOUS
  <2>1. \A t \in Threads : pc[t] \notin Commanding
    BY <1>4, <1>5, <1>0 DEF SwitchedOut
  <2>2. device.owner = Nobody
    BY <1>0, <2>1 DEF HandedOver, DriveInv
  <2> QED BY <1>0, <2>2 DEF DriveInv
<1>7. at = "busy" => ~wait_CPU /\ ~pending /\ device.owner = current
  BY <1>0 DEF HandedOver, DriveInv
<1>8. at \in {"resumed", "transfer"} => wait_CPU /\ ~pending /\ device.owner = current
  BY <1>0, NobodyAssumption DEF HandedOver, DriveInv
<1>9. at = "have_read" => ~pending
  <2> SUFFICES ASSUME at = "have_read" PROVE ~pending
    OBVIOUS
  <2>1. IFlag
    BY <1>0 DEF MaskInv, SectionsAreMasked
  <2> QED BY <2>1
<1> HIDE DEF at
<1>10. ASSUME NEW t \in Threads
       PROVE  /\ InQ(block_queue, t) <=>
                   pc'[t] \in {"issue", "issued"} \/ (pc'[t] = "resumed" /\ ~wait_CPU')
              /\ device'.owner = t <=> pc'[t] \in Commanding
              /\ pc'[t] \in OnDisk => t \in build.io
  <2>1. CASE t = current
    <3>1. /\ InQ(block_queue, current) <=>
               at \in {"issue", "issued"} \/ (at = "resumed" /\ ~wait_CPU)
          /\ device.owner = current <=> at \in Commanding
          /\ at \in OnDisk => current \in build.io
      BY <1>0 DEF HandedOver, at
    <3>2. pc'[t] = label /\ t \in Threads
      BY <1>3, <2>1
    <3>3. CASE at \in {"issue", "issue_write"}
      BY <1>2, <1>6, <2>1, <3>1, <3>2, <3>3
    <3>4. CASE at \in {"busy", "transfer"}
      BY <1>2, <1>8, <2>1, <3>1, <3>2, <3>4, NobodyAssumption DEF Idle
    <3>5. CASE at \in {"start", "switched", "resumed", "have_read"}
      BY <1>2, <1>8, <2>1, <3>1, <3>2, <3>5
    <3> QED BY <1>2, <3>3, <3>4, <3>5
  <2>2. CASE t # current
    <3>1. pc'[t] = pc[t] /\ pc[t] \in SwitchedOut
      BY <1>3, <1>4, <2>2
    <3>2. wait_CPU' = wait_CPU \/ pc[t] # "resumed"
      BY <1>2, <1>5, <2>2
    <3>3. pc[t] = "resumed" => device' = device
      BY <1>2, <1>5, <2>2
    <3>4. pc[t] # "resumed" => device'.owner # t
      <4>1. device.owner = t <=> pc[t] = "resumed"
        BY <1>0, <3>1 DEF HandedOver, SwitchedOut
      <4>2. CASE at \in {"issue", "issue_write"}
        BY <1>2, <2>2, <4>2
      <4>3. CASE at \in {"busy", "transfer"}
        BY <1>2, <4>3, NobodyAssumption DEF Idle
      <4>4. CASE at \in {"start", "switched", "resumed", "have_read"}
        BY <1>2, <4>1, <4>4
      <4> QED BY <1>2, <4>2, <4>3, <4>4
    <3>5. device.owner = t <=> pc[t] \in Commanding
      BY <1>0 DEF HandedOver
    <3> QED BY <1>0, <3>1, <3>2, <3>3, <3>4, <3>5 DEF HandedOver, SwitchedOut
  <2> QED BY <2>1, <2>2
<1>11. InQ(ready_queue, current) <=> FALSE
  BY <1>0, <1>2 DEF HandedOver, at
<1>12. label \in {"resumed", "transfer"} => wait_CPU'
  <2>1. label \in {"resumed", "transfer"} => at = "resumed"
    BY <1>2
  <2> QED BY <1>2, <1>8, <2>1
<1>13. HandedOver'
  <2>1. \A t \in Threads : InQ(ready_queue, t) <=>
          IF t = current THEN pc'[t] = "passing" ELSE ~InQ(block_queue, t)
    BY <1>0, <1>2, <1>3, <1>11 DEF HandedOver
  <2> QED BY <1>0, <1>1, <1>3, <1>10, <1>12, <2>1 DEF HandedOver
<1>14. DriveInv'
  <2>1. /\ device' \in [owner : Threads \union {Nobody}, drq : BOOLEAN]
        /\ device'.owner = Nobody => ~device'.drq
        /\ issued' <=> device'.owner # Nobody
        /\ done' <=> ~issued'
    <3>1. CASE at \in {"issue", "issue_write"}
      <4>1. device' = [owner |-> current, drq |-> FALSE] /\ issued' /\ ~done'
        BY <1>2, <3>1
      <4>2. device' \in [owner : Threads \union {Nobody}, drq : BOOLEAN] /\ device'.owner # Nobody
        BY <1>0, <4>1, NobodyAssumption
      <4> QED BY <4>1, <4>2
    <3>2. CASE at \in {"busy", "transfer"}
      <4>1. device' = Idle /\ ~issued' /\ done'
        BY <1>2, <3>2
      <4>2. /\ device' \in [owner : Threads \union {Nobody}, drq : BOOLEAN]
            /\ device'.owner = Nobody /\ ~device'.drq
        BY <4>1 DEF Idle
      <4> QED BY <4>1, <4>2
    <3>3. CASE at \in {"start", "switched", "resumed", "have_read"}
      BY <1>0, <1>2, <3>3 DEF DriveInv
    <3> QED BY <1>2, <3>1, <3>2, <3>3
  <2>2. wait_CPU' => issued' /\ device'.drq /\ pc'[device'.owner] \in {"resumed", "transfer"}
    <3> SUFFICES ASSUME wait_CPU'
                 PROVE  issued' /\ device'.drq /\ pc'[device'.owner] \in {"resumed", "transfer"}
      OBVIOUS
    <3>1. wait_CPU /\ device' = device /\ issued' = issued
      BY <1>2, <1>6
    <3>2. device.owner \in Threads /\ pc[device.owner] \in {"resumed", "transfer"}
      BY <1>0, <3>1 DEF DriveInv
    <3>3. pc'[device.owner] \in {"resumed", "transfer"}
      BY <1>2, <1>3, <3>1, <3>2, <1>0 DEF at, Idle, DriveInv
    <3> QED BY <1>0, <3>1, <3>3 DEF DriveInv
  <2>3. pending' => IF device'.owner = Nobody THEN pc'[current] = "wrote"
                    ELSE ~wait_CPU' /\ device'.drq /\ pc'[device'.owner] # "busy"
    <3>1. CASE at = "busy"
      BY <1>2, <1>3, <3>1 DEF Idle
    <3>2. CASE at # "busy" /\ at \notin {"start", "switched"}
      BY <1>2, <1>3, <1>6, <1>8, <1>9, <3>2
    <3>3. CASE at \in {"start", "switched"}
      <4>1. /\ UNCHANGED <<wait_CPU, device, pending>>
            /\ device.owner # current
        BY <1>0, <1>2, <3>3 DEF HandedOver, at
      <4> QED BY <1>0, <1>3, <3>3, <4>1 DEF DriveInv, at
    <3> QED BY <3>1, <3>2, <3>3
  <2> QED BY <1>0, <1>1, <1>2, <2>1, <2>2, <2>3 DEF DriveInv
<1> QED BY <1>13, <1>14 DEF WaitInv

\* The steps that add the running thread to a queue.
LEMMA EntersWaits ==
  ASSUME WaitInv, MaskInv', resume \/ read, ~(pending /\ IFlag)
  PROVE  WaitInv'
<1> USE DEF Commanding, OnDisk, InsideDisk
<1>0. MaskInv /\ HandedOver /\ DriveInv /\ FlagTypeOK /\ current \in Threads
  BY DEF WaitInv, MaskInv, FlagTypeOK
<1>1. /\ UNCHANGED <<build, current, wait_CPU, issued, done, device, status, pending>>
      /\ pc[current] \in {"run", "wrote"}
  BY DEF resume, read, At, interruptVars
<1>2. ~InQ(block_queue, current) /\ ~InQ(ready_queue, current) /\ device.owner # current
  BY <1>0, <1>1 DEF HandedOver
<1>3. IFlag /\ ~pending
  BY <1>0, <1>1 DEF MaskInv, SectionsAreMasked
<1>4. PICK label \in {"passing", "issue"} :
        /\ pc' = [pc EXCEPT ![current] = label]
        /\ label = "issue" => current \in build.io
        /\ label = "passing" =>
             ready_queue' = Append(ready_queue, current) /\ block_queue' = block_queue
        /\ label = "issue" =>
             block_queue' = Append(block_queue, current) /\ ready_queue' = ready_queue
  BY DEF resume, read, GoTo
<1>5. pc'[current] = label /\ \A t \in Threads : t # current => pc'[t] = pc[t]
  BY <1>0, <1>4 DEF FlagTypeOK
<1>6. /\ Distinct(ready_queue') /\ Distinct(block_queue')
      /\ \A s : InQ(ready_queue', s) <=> InQ(ready_queue, s) \/ (label = "passing" /\ s = current)
      /\ \A s : InQ(block_queue', s) <=> InQ(block_queue, s) \/ (label = "issue" /\ s = current)
  <2>0. /\ ready_queue \in Seq(Threads) /\ Distinct(ready_queue)
        /\ block_queue \in Seq(Threads) /\ Distinct(block_queue)
    BY <1>0 DEF FlagTypeOK, HandedOver
  <2>1. CASE label = "passing"
    <3>1. /\ Distinct(Append(ready_queue, current))
          /\ \A s : InQ(Append(ready_queue, current), s) <=> InQ(ready_queue, s) \/ s = current
      BY <1>0, <1>2, <2>0, AppendFacts
    <3> QED BY <1>4, <2>0, <2>1, <3>1
  <2>2. CASE label = "issue"
    <3>1. /\ Distinct(Append(block_queue, current))
          /\ \A s : InQ(Append(block_queue, current), s) <=> InQ(block_queue, s) \/ s = current
      BY <1>0, <1>2, <2>0, AppendFacts
    <3> QED BY <1>4, <2>0, <2>2, <3>1
  <2> QED BY <2>1, <2>2
<1>7. ASSUME NEW t \in Threads
      PROVE  /\ InQ(block_queue', t) <=>
                  pc'[t] \in {"issue", "issued"} \/ (pc'[t] = "resumed" /\ ~wait_CPU')
             /\ InQ(ready_queue', t) <=>
                  IF t = current THEN pc'[t] = "passing" ELSE ~InQ(block_queue', t)
             /\ device'.owner = t <=> pc'[t] \in Commanding
             /\ pc'[t] \in OnDisk => t \in build.io
  <2>1. CASE t = current
    BY <1>1, <1>2, <1>4, <1>5, <1>6, <2>1
  <2>2. CASE t # current
    BY <1>0, <1>1, <1>5, <1>6, <2>2 DEF HandedOver
  <2> QED BY <2>1, <2>2
<1>8. HandedOver'
  BY <1>1, <1>5, <1>6, <1>7 DEF HandedOver
<1>9. DriveInv'
  <2>1. wait_CPU => pc'[device.owner] \in {"resumed", "transfer"}
    BY <1>0, <1>2, <1>5 DEF DriveInv
  <2> QED BY <1>0, <1>1, <1>3, <2>1 DEF DriveInv
<1> QED BY <1>8, <1>9 DEF WaitInv

LEMMA KernelWaits == ASSUME WaitInv, InterruptKernel PROVE WaitInv'
<1>1. MaskInv'
  BY KernelMasks DEF WaitInv
<1>2. CASE yield
  BY <1>1, <1>2, YieldWaits DEF yield, At
<1>3. CASE read_yields
  BY <1>1, <1>3, YieldWaits DEF read_yields, At
<1> QED BY <1>1, <1>2, <1>3, StaysWaits, EntersWaits DEF InterruptKernel

LEMMA DriveWaits == ASSUME WaitInv, RaiseIRQ PROVE WaitInv'
<1>0. MaskInv /\ HandedOver /\ DriveInv /\ MaskInv'
  BY OthersMask DEF WaitInv
<1>1. /\ device' = [device EXCEPT !.drq = TRUE] /\ device.owner # Nobody /\ ~device.drq
      /\ pending' = (pending \/ pc[device.owner] # "busy")
      /\ UNCHANGED <<build, current, ready_queue, block_queue, pc, wait_CPU, issued, done,
                     status>>
  BY DEF RaiseIRQ
<1>2. device'.owner = device.owner /\ device'.drq = TRUE
  BY <1>0, <1>1 DEF DriveInv
<1>3. HandedOver'
  BY <1>0, <1>1, <1>2 DEF HandedOver
<1>4. DriveInv'
  BY <1>0, <1>1, <1>2 DEF DriveInv
<1> QED BY <1>0, <1>3, <1>4 DEF WaitInv

\* The handler: when an operation is under way, the thread that waits for it is
\* the only one in block_queue.
LEMMA HandlerWaits == ASSUME WaitInv, handle_interrupt PROVE WaitInv'
<1> USE DEF Commanding, OnDisk, InsideDisk
<1>0. MaskInv /\ HandedOver /\ DriveInv /\ MaskInv' /\ FlagTypeOK
  BY OthersMask DEF WaitInv, MaskInv
<1>1. /\ pending /\ IFlag /\ ~pending'
      /\ UNCHANGED <<build, current, pc, issued, done, device>>
  BY DEF handle_interrupt
<1>2. CASE ~NeedsThread
  <2>1. UNCHANGED <<block_queue, ready_queue, wait_CPU, status>>
    BY <1>2 DEF handle_interrupt
  <2>2. HandedOver'
    BY <1>0, <1>1, <2>1 DEF HandedOver
  <2>3. pending' \in BOOLEAN
    BY <1>2 DEF handle_interrupt
  <2>4. DriveInv'
    BY <1>0, <1>1, <2>1, <2>3 DEF DriveInv
  <2> QED BY <1>0, <2>2, <2>4 DEF WaitInv
<1>3. CASE NeedsThread
  <2>1. PICK x \in Threads : device.owner = x
    BY <1>0, <1>3 DEF NeedsThread, DriveInv
  <2>2. ~wait_CPU /\ device.drq /\ pc[x] # "busy" /\ pc[x] \in Commanding
    BY <1>0, <1>1, <2>1, NobodyAssumption DEF DriveInv, HandedOver
  <2>3. x # current /\ pc[x] = "resumed" /\ InQ(block_queue, x)
    BY <1>0, <1>1, <2>2 DEF MaskInv, SectionsAreMasked, SwitchedOut, HandedOver
  <2>4. block_queue \in Seq(Threads) /\ block_queue # <<>> /\ Distinct(block_queue)
    BY <1>0, <2>3, NonEmpty DEF FlagTypeOK, HandedOver
  <2>5. /\ Head(block_queue) \in Threads /\ Distinct(Tail(block_queue))
        /\ InQ(block_queue, Head(block_queue))
        /\ \A s : InQ(Tail(block_queue), s) <=> InQ(block_queue, s) /\ s # Head(block_queue)
    BY <2>4, TailFacts
  <2>6. \A t \in Threads : InQ(block_queue, t) => t \in build.io
    BY <1>0 DEF HandedOver
  <2>7. Head(block_queue) = x
    BY <2>3, <2>5, <2>6, OneUser
  <2>8. /\ wait_CPU' = TRUE /\ status' = status /\ block_queue' = Tail(block_queue)
        /\ ready_queue' = Append(ready_queue, x)
    BY <1>3, <2>4, <2>7 DEF handle_interrupt
  <2>9. ~InQ(ready_queue, x) /\ ready_queue \in Seq(Threads) /\ Distinct(ready_queue)
    BY <1>0, <2>3 DEF HandedOver, FlagTypeOK
  <2>10. /\ Distinct(Append(ready_queue, x))
         /\ \A s : InQ(Append(ready_queue, x), s) <=> InQ(ready_queue, s) \/ s = x
    BY <2>9, AppendFacts
  <2>11. ASSUME NEW t \in Threads
         PROVE  /\ InQ(block_queue', t) <=> pc[t] \in {"issue", "issued"}
                /\ InQ(ready_queue', t) <=>
                     IF t = current THEN pc[t] = "passing" ELSE ~InQ(block_queue', t)
    <3>1. CASE t = x
      BY <2>3, <2>5, <2>7, <2>8, <2>10, <3>1
    <3>2. CASE t # x
      <4>1. pc[t] # "resumed"
        BY <1>0, <2>3, <3>2, OneUser DEF HandedOver
      <4> QED BY <1>0, <2>5, <2>7, <2>8, <2>10, <3>2, <4>1 DEF HandedOver
    <3> QED BY <3>1, <3>2
  <2>12. HandedOver'
    BY <1>0, <1>1, <2>5, <2>8, <2>10, <2>11 DEF HandedOver
  <2>13. DriveInv'
    <3>1. pending' \in BOOLEAN /\ issued
      BY <1>0, <2>1, NobodyAssumption DEF handle_interrupt, DriveInv
    <3> QED BY <1>0, <1>1, <2>1, <2>2, <2>3, <2>8, <3>1 DEF DriveInv
  <2> QED BY <1>0, <2>12, <2>13 DEF WaitInv
<1> QED BY <1>2, <1>3

LEMMA NextWaits == WaitInv /\ [InterruptNext]_<<vars, interruptVars>> => WaitInv'
<1>1. ASSUME WaitInv, UNCHANGED <<vars, interruptVars>> PROVE WaitInv'
  <2>1. MaskInv'
    BY <1>1, OthersMask DEF WaitInv
  <2> QED BY <1>1, <2>1 DEF WaitInv, HandedOver, DriveInv, vars, interruptVars
<1> QED BY <1>1, KernelWaits, DriveWaits, HandlerWaits DEF InterruptNext

----------------------------------------------------------------------------
(* The mirrored disk.                                                       *)

MirrorLabels == {"run", "read_dependent", "read_wait", "read_data", "master_wait",
                 "master_data", "dependent_wait", "dependent_data"}
DataLabels == {"read_data", "master_data", "dependent_data"}
WaitLabels == {"read_wait", "master_wait", "dependent_wait"}

MirrorTypes ==
  /\ build \in Builds /\ ~build.safe /\ status = "running"
  /\ current \in Threads
  /\ ready_queue \in Seq(Threads) /\ block_queue \in Seq(Threads)
  /\ pc \in [Threads -> MirrorLabels]
  /\ ~wait_CPU /\ ~issued /\ done /\ device = Idle
  /\ selected \in Drives
  /\ command \in [Drives -> [op : {"none", "read", "write"}, block : Blocks, drq : BOOLEAN]]
  /\ contents \in [Drives -> [Blocks -> Values]] /\ latest \in [Blocks -> Values]
  /\ resumed \in BOOLEAN
  /\ request \in [block : Blocks, buf : Values]

\* A thread is in block_queue until the drive that is selected has asked for
\* its data, and goes on after that only.
MirrorQueues ==
  /\ Distinct(ready_queue) /\ Distinct(block_queue)
  /\ ~InQ(ready_queue, current) /\ ~InQ(block_queue, current)
  /\ \A t \in Threads \ {current} :
       /\ InQ(ready_queue, t) <=> ~InQ(block_queue, t)
       /\ pc[t] \in DataLabels \union {"run"}
  /\ \A t \in Threads :
       /\ pc[t] # "run" => t \in build.io
       /\ InQ(block_queue, t) => pc[t] \in DataLabels /\ ~resumed
       /\ pc[t] \in DataLabels /\ ~InQ(block_queue, t) => resumed
  /\ resumed => command[selected].drq /\ \E t \in Threads : pc[t] \in DataLabels

Serves(d, op) == selected = d /\ command[d].op = op /\ command[d].block = request.block
Holds(d) == \A b \in Blocks : contents[d][b] = latest[b]
HoldsOthers(d) == \A b \in Blocks : b # request.block => contents[d][b] = latest[b]

\* What is on the drives while a read or a write is under way.
MirrorContents ==
  /\ (\A t \in Threads : pc[t] \in {"run", "read_dependent", "read_wait", "read_data"}) =>
       \A d \in Drives : Holds(d)
  /\ \A t \in Threads :
       /\ pc[t] \in {"read_wait", "read_data"} => Serves("DEPENDENT", "read")
       /\ pc[t] \in {"master_wait", "master_data"} =>
            /\ Serves("MASTER", "write") /\ request.buf = latest[request.block]
            /\ \A d \in Drives : HoldsOthers(d)
       /\ pc[t] \in {"dependent_wait", "dependent_data"} =>
            /\ Serves("DEPENDENT", "write") /\ request.buf = latest[request.block]
            /\ Holds("MASTER") /\ HoldsOthers("DEPENDENT")

MirrorInv == MirrorTypes /\ MirrorQueues /\ MirrorContents

LEMMA InitMirror == MirrorInit => MirrorInv
<1> SUFFICES ASSUME MirrorInit PROVE MirrorInv
  OBVIOUS
<1>1. build \in Builds /\ ~build.safe
  BY DEF MirrorInit
<1>2. Threads # {}
  BY <1>1, BuildsAssumption
<1>3. /\ Order \in Seq(Threads) /\ Order # <<>> /\ Distinct(Order)
      /\ \A t \in Threads : InQ(Order, t)
  BY <1>2, OrderFacts
<1>4. /\ Head(Order) \in Threads /\ Tail(Order) \in Seq(Threads)
      /\ Distinct(Tail(Order))
      /\ \A t : InQ(Tail(Order), t) <=> InQ(Order, t) /\ t # Head(Order)
      /\ Order[1] = Head(Order)
  BY <1>3, TailFacts
<1>5. NoCommand \in [op : {"none", "read", "write"}, block : Blocks, drq : BOOLEAN]
  <2>1. request.block \in Blocks
    BY DEF MirrorInit
  <2> QED BY <2>1 DEF NoCommand
<1>6. MirrorTypes
  <2>1. command \in [Drives -> [op : {"none", "read", "write"}, block : Blocks, drq : BOOLEAN]]
    BY <1>5 DEF MirrorInit
  <2>2. contents \in [Drives -> [Blocks -> Values]] /\ latest \in [Blocks -> Values]
    BY DEF MirrorInit
  <2>3. pc \in [Threads -> MirrorLabels]
    BY DEF MirrorInit, MirrorLabels
  <2> QED BY <1>1, <1>4, <2>1, <2>2, <2>3, EmptyFacts DEF MirrorInit, MirrorTypes, Drives
<1>7. MirrorQueues
  BY <1>3, <1>4, EmptyFacts DEF MirrorInit, MirrorQueues, DataLabels
<1>8. MirrorContents
  BY DEF MirrorInit, MirrorContents, Holds
<1> QED BY <1>6, <1>7, <1>8 DEF MirrorInv

LEMMA OneMirrorUser ==
  ASSUME MirrorTypes
  PROVE  /\ \A s, t \in build.io : s = t
         /\ \E u \in Threads : u \notin build.io
BY BuildsAssumption DEF MirrorTypes

\* yield over the mirrored disk, from where the caller goes on at p.
LEMMA YieldMirror ==
  ASSUME MirrorInv, NEW ready, NEW blocked, NEW p,
         ready \in Seq(Threads), blocked \in Seq(Threads), Distinct(ready), Distinct(blocked),
         p \in [Threads -> MirrorLabels],
         \A t \in Threads :
           /\ InQ(ready, t) <=> ~InQ(blocked, t)
           /\ p[t] \in DataLabels \union {"run"}
           /\ p[t] # "run" => t \in build.io
           /\ InQ(blocked, t) => p[t] \in DataLabels /\ ~resumed
           /\ p[t] \in DataLabels /\ ~InQ(blocked, t) => resumed,
         resumed => \E t \in Threads : p[t] \in DataLabels,
         MirrorYield(ready, blocked), pc' = p,
         UNCHANGED <<selected, command, contents, request, latest, diskOfOthers>>
  PROVE  MirrorTypes' /\ MirrorQueues'
<1> DEFINE polled == is_ready /\ blocked # <<>> /\ ~resumed
           queue == IF polled THEN Append(ready, Head(blocked)) ELSE ready
           rest == IF polled THEN Tail(blocked) ELSE blocked
<1>0. MirrorTypes /\ MirrorQueues
  BY DEF MirrorInv
<1>1. /\ rest \in Seq(Threads) /\ Distinct(rest)
      /\ queue \in Seq(Threads) /\ Distinct(queue)
      /\ \A t \in Threads : InQ(queue, t) <=> ~InQ(rest, t)
      /\ polled => InQ(blocked, Head(blocked)) /\ Head(blocked) \in Threads
      /\ \A t \in Threads : InQ(rest, t) <=> InQ(blocked, t) /\ ~(polled /\ t = Head(blocked))
  <2>1. CASE polled
    <3>1. /\ Head(blocked) \in Threads /\ Tail(blocked) \in Seq(Threads)
          /\ InQ(blocked, Head(blocked)) /\ Distinct(Tail(blocked))
          /\ \A s : InQ(Tail(blocked), s) <=> InQ(blocked, s) /\ s # Head(blocked)
      BY <2>1, TailFacts
    <3>2. ~InQ(ready, Head(blocked))
      BY <3>1
    <3>3. /\ Append(ready, Head(blocked)) \in Seq(Threads)
          /\ Distinct(Append(ready, Head(blocked)))
          /\ \A s : InQ(Append(ready, Head(blocked)), s) <=> InQ(ready, s) \/ s = Head(blocked)
      BY <3>1, <3>2, AppendFacts
    <3> QED BY <2>1, <3>1, <3>3
  <2>2. CASE ~polled
    BY <2>2
  <2> QED BY <2>1, <2>2
<1>2. queue # <<>>
  <2>1. PICK u \in Threads : u \notin build.io
    BY <1>0, OneMirrorUser
  <2>2. ~InQ(blocked, u)
    <3>1. "run" \notin DataLabels
      BY DEF DataLabels
    <3> QED BY <2>1, <3>1
  <2>3. InQ(queue, u)
    BY <1>1, <2>1, <2>2
  <2> QED BY <1>1, <2>3, NonEmpty
<1>3. /\ block_queue' = rest /\ resumed' = (resumed \/ polled)
      /\ current' = Head(queue) /\ ready_queue' = Tail(queue) /\ status' = status
  BY <1>2 DEF MirrorYield
<1>4. polled => command[selected].drq
  BY DEF is_ready
<1> HIDE DEF polled, queue, rest
<1>5. /\ Head(queue) \in Threads /\ Tail(queue) \in Seq(Threads)
      /\ InQ(queue, Head(queue)) /\ Distinct(Tail(queue))
      /\ \A s : InQ(Tail(queue), s) <=> InQ(queue, s) /\ s # Head(queue)
  BY <1>1, <1>2, TailFacts
<1>6. build' = build /\ command' = command /\ selected' = selected
  BY DEF diskOfOthers
<1>7. MirrorTypes'
  <2>1. resumed' \in BOOLEAN
    BY <1>3
  <2> QED BY <1>0, <1>1, <1>3, <1>5, <1>6, <2>1 DEF MirrorTypes, diskOfOthers
<1>8. ASSUME NEW t \in Threads
      PROVE  /\ p[t] # "run" => t \in build.io
             /\ InQ(rest, t) => p[t] \in DataLabels /\ ~(resumed \/ polled)
             /\ p[t] \in DataLabels /\ ~InQ(rest, t) => resumed \/ polled
  <2>1. ASSUME InQ(rest, t) PROVE p[t] \in DataLabels /\ ~(resumed \/ polled)
    <3>1. InQ(blocked, t) /\ p[t] \in DataLabels /\ ~resumed /\ ~(polled /\ t = Head(blocked))
      BY <1>1, <2>1
    <3>2. ASSUME polled PROVE FALSE
      <4>1. Head(blocked) \in Threads /\ InQ(blocked, Head(blocked)) /\ t # Head(blocked)
        BY <1>1, <3>1, <3>2
      <4>2. p[t] # "run" /\ p[Head(blocked)] # "run"
        BY <3>1, <4>1 DEF DataLabels
      <4> QED BY <1>0, <4>1, <4>2, OneMirrorUser
    <3> QED BY <3>1, <3>2
  <2> QED BY <1>1, <2>1
<1>9. resumed \/ polled => \E t \in Threads : p[t] \in DataLabels
  BY <1>1
<1>10. MirrorQueues'
  <2>1. /\ Distinct(ready_queue') /\ Distinct(block_queue')
        /\ ~InQ(ready_queue', current') /\ ~InQ(block_queue', current')
    BY <1>1, <1>3, <1>5
  <2>2. \A t \in Threads \ {current'} :
          /\ InQ(ready_queue', t) <=> ~InQ(block_queue', t)
          /\ pc'[t] \in DataLabels \union {"run"}
    BY <1>1, <1>3, <1>5
  <2>3. resumed' => command'[selected'].drq
    BY <1>0, <1>3, <1>4, <1>6 DEF MirrorQueues
  <2> QED BY <1>3, <1>6, <1>8, <1>9, <2>1, <2>2, <2>3 DEF MirrorQueues
<1> QED BY <1>7, <1>10

\* While one thread uses the disk the others compute.
LEMMA OthersCompute ==
  ASSUME MirrorInv, current \in build.io
  PROVE  /\ \A t \in Threads : t # current => pc[t] = "run"
         /\ pc[current] \notin DataLabels => ~resumed
<1>1. \A t \in Threads : t # current => pc[t] = "run"
  BY OneMirrorUser DEF MirrorInv, MirrorTypes, MirrorQueues
<1>2. "run" \notin DataLabels
  BY DEF DataLabels
<1> QED BY <1>1, <1>2 DEF MirrorInv, MirrorQueues

LEMMA PassOnMirror == ASSUME MirrorInv, mirror_pass_on_CPU PROVE MirrorInv'
<1>0. MirrorTypes /\ MirrorQueues /\ MirrorContents
  BY DEF MirrorInv
<1>1. /\ pc[current] = "run" /\ current \in Threads /\ pc' = pc
      /\ ready_queue \in Seq(Threads) /\ block_queue \in Seq(Threads)
  BY <1>0 DEF mirror_pass_on_CPU, At, MirrorTypes
<1>2. ~InQ(ready_queue, current) /\ Distinct(ready_queue) /\ Distinct(block_queue)
  BY <1>0 DEF MirrorQueues
<1>3. /\ Append(ready_queue, current) \in Seq(Threads)
      /\ Distinct(Append(ready_queue, current))
      /\ \A s : InQ(Append(ready_queue, current), s) <=> InQ(ready_queue, s) \/ s = current
  BY <1>1, <1>2, AppendFacts
<1>4. MirrorYield(Append(ready_queue, current), block_queue)
  BY DEF mirror_pass_on_CPU
<1>5. UNCHANGED <<selected, command, contents, request, latest, diskOfOthers>>
  BY DEF mirror_pass_on_CPU
<1>6. ASSUME NEW t \in Threads
      PROVE  /\ InQ(Append(ready_queue, current), t) <=> ~InQ(block_queue, t)
             /\ pc[t] \in DataLabels \union {"run"}
             /\ pc[t] # "run" => t \in build.io
             /\ InQ(block_queue, t) => pc[t] \in DataLabels /\ ~resumed
             /\ pc[t] \in DataLabels /\ ~InQ(block_queue, t) => resumed
  BY <1>0, <1>1, <1>3 DEF MirrorQueues
<1>7. resumed => \E t \in Threads : pc[t] \in DataLabels
  BY <1>0 DEF MirrorQueues
<1>8. pc \in [Threads -> MirrorLabels]
  BY <1>0 DEF MirrorTypes
<1>9. MirrorTypes' /\ MirrorQueues'
  BY <1>1, <1>2, <1>3, <1>4, <1>5, <1>6, <1>7, <1>8, YieldMirror
<1>10. MirrorContents'
  BY <1>0, <1>1, <1>5 DEF MirrorContents, Holds, HoldsOthers, Serves
<1> QED BY <1>9, <1>10 DEF MirrorInv

LEMMA WaitMirror == ASSUME MirrorInv, wait_until_ready PROVE MirrorInv'
<1>0. MirrorTypes /\ MirrorQueues /\ MirrorContents
  BY DEF MirrorInv
<1>1. PICK label : label = Resumes[pc[current]]
  OBVIOUS
<1> DEFINE p == [pc EXCEPT ![current] = label]
<1>2. /\ pc[current] \in WaitLabels /\ current \in Threads /\ pc' = p
      /\ ready_queue \in Seq(Threads) /\ block_queue \in Seq(Threads)
      /\ pc \in [Threads -> MirrorLabels]
  BY <1>0, <1>1 DEF wait_until_ready, GoTo, MirrorTypes, Resumes, WaitLabels
<1>3. /\ pc[current] = "read_wait" => label = "read_data"
      /\ pc[current] = "master_wait" => label = "master_data"
      /\ pc[current] = "dependent_wait" => label = "dependent_data"
  BY <1>1 DEF Resumes
<1>4. label \in DataLabels /\ label \in MirrorLabels
  BY <1>2, <1>3 DEF WaitLabels, DataLabels, MirrorLabels
<1>5. current \in build.io
  BY <1>0, <1>2 DEF MirrorQueues, WaitLabels
<1>6. ~resumed /\ \A t \in Threads : t # current => pc[t] = "run"
  BY <1>2, <1>5, OthersCompute DEF WaitLabels, DataLabels
<1>7. /\ ~InQ(ready_queue, current) /\ ~InQ(block_queue, current)
      /\ Distinct(ready_queue) /\ Distinct(block_queue)
  BY <1>0 DEF MirrorQueues
<1>8. /\ Append(block_queue, current) \in Seq(Threads)
      /\ Distinct(Append(block_queue, current))
      /\ \A s : InQ(Append(block_queue, current), s) <=> InQ(block_queue, s) \/ s = current
  BY <1>2, <1>7, AppendFacts
<1>9. /\ MirrorYield(ready_queue, Append(block_queue, current))
      /\ UNCHANGED <<selected, command, contents, request, latest, diskOfOthers>>
  BY DEF wait_until_ready
<1>10. p \in [Threads -> MirrorLabels] /\ p[current] = label
       /\ \A t \in Threads : t # current => p[t] = "run"
  BY <1>2, <1>4, <1>6
<1> HIDE DEF p
<1>11. ASSUME NEW t \in Threads
       PROVE  /\ InQ(ready_queue, t) <=> ~InQ(Append(block_queue, current), t)
              /\ p[t] \in DataLabels \union {"run"}
              /\ p[t] # "run" => t \in build.io
              /\ InQ(Append(block_queue, current), t) => p[t] \in DataLabels /\ ~resumed
              /\ p[t] \in DataLabels /\ ~InQ(Append(block_queue, current), t) => resumed
  <2>1. "run" \notin DataLabels
    BY DEF DataLabels
  <2>2. CASE t = current
    BY <1>4, <1>5, <1>6, <1>7, <1>8, <1>10, <2>2
  <2>3. CASE t # current
    <3>1. ~InQ(block_queue, t) /\ InQ(ready_queue, t)
      BY <1>0, <1>6, <2>1, <2>3 DEF MirrorQueues
    <3> QED BY <1>8, <1>10, <2>1, <2>3, <3>1
  <2> QED BY <2>2, <2>3
<1>12. MirrorTypes' /\ MirrorQueues'
  BY <1>2, <1>6, <1>7, <1>8, <1>9, <1>10, <1>11, YieldMirror
<1>13. MirrorContents'
  <2>1. /\ p[current] = "read_data" <=> pc[current] = "read_wait"
        /\ p[current] = "master_data" <=> pc[current] = "master_wait"
        /\ p[current] = "dependent_data" <=> pc[current] = "dependent_wait"
        /\ p[current] \in DataLabels
    BY <1>2, <1>3, <1>4, <1>10 DEF WaitLabels
  <2>2. UNCHANGED <<selected, command, contents, request, latest>>
    BY <1>9
  <2>3. (\A t \in Threads : p[t] \in {"run", "read_dependent", "read_wait", "read_data"}) =>
          (\A t \in Threads : pc[t] \in {"run", "read_dependent", "read_wait", "read_data"})
    BY <1>2, <1>6, <2>1 DEF WaitLabels, DataLabels
  <2>4. ASSUME NEW t \in Threads
        PROVE  /\ p[t] \in {"read_wait", "read_data"} => pc[t] \in {"read_wait", "read_data"}
               /\ p[t] \in {"master_wait", "master_data"} =>
                    pc[t] \in {"master_wait", "master_data"}
               /\ p[t] \in {"dependent_wait", "dependent_data"} =>
                    pc[t] \in {"dependent_wait", "dependent_data"}
    <3>1. CASE t = current
      BY <2>1, <3>1 DEF DataLabels
    <3>2. CASE t # current
      BY <1>10, <3>2
    <3> QED BY <3>1, <3>2
  <2> QED BY <1>0, <1>2, <2>2, <2>3, <2>4 DEF MirrorContents, Holds, HoldsOthers, Serves
<1> QED BY <1>12, <1>13 DEF MirrorInv

\* A step of the thread that uses the disk, without a switch.
LEMMA StaysMirror ==
  ASSUME MirrorInv, current \in build.io, NEW label \in MirrorLabels \ DataLabels, GoTo(label),
         ~resumed',
         UNCHANGED <<current, ready_queue, block_queue, build>>
  PROVE  /\ MirrorQueues' /\ pc' \in [Threads -> MirrorLabels]
         /\ pc'[current] = label /\ \A t \in Threads : t # current => pc'[t] = "run"
<1>0. MirrorTypes /\ MirrorQueues
  BY DEF MirrorInv
<1>1. /\ current \in Threads /\ pc \in [Threads -> MirrorLabels]
      /\ pc' = [pc EXCEPT ![current] = label]
  BY <1>0 DEF MirrorTypes, GoTo
<1>2. \A t \in Threads : t # current => pc[t] = "run"
  BY OthersCompute
<1>3. /\ pc' \in [Threads -> MirrorLabels] /\ pc'[current] = label
      /\ \A t \in Threads : t # current => pc'[t] = "run"
  BY <1>1, <1>2
<1>4. "run" \notin DataLabels
  BY DEF DataLabels
<1>5. \A t \in Threads : ~InQ(block_queue, t)
  BY <1>0, <1>2, <1>4 DEF MirrorQueues
<1> QED BY <1>0, <1>3, <1>4, <1>5 DEF MirrorQueues

\* The commands: nothing reaches a drive yet.
LEMMA CommandMirror ==
  ASSUME MirrorInv, mirror_read \/ read_dependent \/ mirror_write PROVE MirrorInv'
<1>0. MirrorTypes /\ MirrorQueues /\ MirrorContents
  BY DEF MirrorInv
<1>1. current \in build.io /\ pc[current] \in {"run", "read_dependent"} /\ current \in Threads
  BY <1>0 DEF mirror_read, read_dependent, mirror_write, At, MirrorTypes, MirrorQueues
<1>2. ~resumed /\ \A t \in Threads : t # current => pc[t] = "run"
  BY <1>1, OthersCompute DEF DataLabels
<1>3. \A d \in Drives : Holds(d)
  BY <1>0, <1>1, <1>2 DEF MirrorContents
<1>4. /\ UNCHANGED <<current, ready_queue, block_queue, build, contents, status, resumed>>
      /\ UNCHANGED <<wait_CPU, issued, done, device>>
  BY DEF mirror_read, read_dependent, mirror_write, diskOfOthers
<1> DEFINE Command(label, op, b, d) ==
        /\ GoTo(label)
        /\ command' = [command EXCEPT ![d] = [op |-> op, block |-> b, drq |-> FALSE]]
        /\ selected' = d /\ b = request'.block
        /\ request' \in [block : Blocks, buf : Values]
        /\ latest' \in [Blocks -> Values]
        /\ \/ label = "read_dependent" /\ latest' = latest
           \/ label = "read_wait" /\ d = "DEPENDENT" /\ op = "read" /\ latest' = latest
           \/ label = "master_wait" /\ d = "MASTER" /\ op = "write"
              /\ latest'[b] = request'.buf
              /\ \A c \in Blocks : c # b => latest'[c] = latest[c]
<1>5. PICK label \in MirrorLabels \ DataLabels, op \in {"read", "write"}, b \in Blocks,
           d \in Drives :
        Command(label, op, b, d)
  <2>0. /\ {"read_dependent", "read_wait", "master_wait"} \subseteq MirrorLabels \ DataLabels
        /\ "MASTER" \in Drives /\ "DEPENDENT" \in Drives
    BY DEF MirrorLabels, DataLabels, Drives
  <2>1. CASE mirror_read
    <3>1. PICK b \in Blocks : /\ request' = [request EXCEPT !.block = b]
                              /\ mirror_issue_operation("read", b, "MASTER")
      BY <2>1 DEF mirror_read
    <3>2. request'.block = b /\ request' \in [block : Blocks, buf : Values]
      BY <1>0, <3>1 DEF MirrorTypes
    <3>3. GoTo("read_dependent") /\ latest' = latest
      BY <2>1 DEF mirror_read
    <3>4. /\ command' = [command EXCEPT !["MASTER"] = [op |-> "read", block |-> b, drq |-> FALSE]]
          /\ selected' = "MASTER"
      BY <3>1 DEF mirror_issue_operation
    <3>5. latest' \in [Blocks -> Values]
      BY <1>0, <3>3 DEF MirrorTypes
    <3>6. Command("read_dependent", "read", b, "MASTER")
      BY <2>0, <3>2, <3>3, <3>4, <3>5
    <3> HIDE DEF Command
    <3> QED BY <2>0, <3>6
  <2>2. CASE read_dependent
    <3>1. /\ mirror_issue_operation("read", request.block, "DEPENDENT")
          /\ GoTo("read_wait") /\ latest' = latest /\ request' = request
      BY <2>2 DEF read_dependent
    <3>2. request.block \in Blocks
      BY <1>0 DEF MirrorTypes
    <3>3. /\ command' = [command EXCEPT !["DEPENDENT"] =
                           [op |-> "read", block |-> request.block, drq |-> FALSE]]
          /\ selected' = "DEPENDENT"
      BY <3>1 DEF mirror_issue_operation
    <3>4. latest' \in [Blocks -> Values] /\ request' \in [block : Blocks, buf : Values]
      BY <1>0, <3>1 DEF MirrorTypes
    <3>5. Command("read_wait", "read", request.block, "DEPENDENT")
      BY <2>0, <3>1, <3>2, <3>3, <3>4
    <3> HIDE DEF Command
    <3> QED BY <2>0, <3>2, <3>5
  <2>3. CASE mirror_write
    <3>1. PICK b \in Blocks, v \in Values :
            /\ request' = [block |-> b, buf |-> v] /\ latest' = [latest EXCEPT ![b] = v]
            /\ mirror_issue_operation("write", b, "MASTER")
      BY <2>3 DEF mirror_write
    <3>2. /\ request'.block = b /\ request'.buf = v
          /\ request' \in [block : Blocks, buf : Values]
          /\ latest' \in [Blocks -> Values] /\ latest'[b] = v
          /\ \A c \in Blocks : c # b => latest'[c] = latest[c]
      BY <1>0, <3>1 DEF MirrorTypes
    <3>3. GoTo("master_wait")
      BY <2>3 DEF mirror_write
    <3>4. /\ command' = [command EXCEPT !["MASTER"] = [op |-> "write", block |-> b, drq |-> FALSE]]
          /\ selected' = "MASTER"
      BY <3>1 DEF mirror_issue_operation
    <3>5. Command("master_wait", "write", b, "MASTER")
      BY <2>0, <3>2, <3>3, <3>4
    <3> HIDE DEF Command
    <3> QED BY <2>0, <3>5
  <2> QED BY <2>1, <2>2, <2>3
<1>6. /\ MirrorQueues' /\ pc' \in [Threads -> MirrorLabels]
      /\ pc'[current] = label /\ \A t \in Threads : t # current => pc'[t] = "run"
  <2>1. GoTo(label) /\ label \in MirrorLabels \ DataLabels /\ ~resumed'
    BY <1>2, <1>4, <1>5
  <2> QED BY <1>1, <1>4, <2>1, StaysMirror
<1>7. command' \in [Drives -> [op : {"none", "read", "write"}, block : Blocks, drq : BOOLEAN]]
      /\ command'[d] = [op |-> op, block |-> b, drq |-> FALSE]
  BY <1>0, <1>5 DEF MirrorTypes
<1>8. MirrorTypes'
  BY <1>0, <1>4, <1>5, <1>6, <1>7 DEF MirrorTypes
<1>9. MirrorContents'
  <2>1. CASE label \in {"read_dependent", "read_wait"} /\ latest' = latest
    <3>1. \A e \in Drives : Holds(e)'
      BY <1>3, <1>4, <2>1 DEF Holds
    <3>2. label = "read_wait" => Serves("DEPENDENT", "read")'
      BY <1>5, <1>7 DEF Serves
    <3>3. \A t \in Threads : pc'[t] \notin {"read_data", "master_wait", "master_data",
                                           "dependent_wait", "dependent_data"}
      BY <1>6, <2>1
    <3> QED BY <1>6, <2>1, <3>1, <3>2, <3>3 DEF MirrorContents
  <2>2. CASE label = "master_wait"
    <3>1. /\ d = "MASTER" /\ op = "write" /\ latest'[b] = request'.buf
          /\ \A c \in Blocks : c # b => latest'[c] = latest[c]
      BY <1>5, <2>2
    <3>2. Serves("MASTER", "write")' /\ request'.buf = latest'[request'.block]
      BY <1>5, <1>7, <3>1 DEF Serves
    <3>3. \A e \in Drives : HoldsOthers(e)'
      BY <1>3, <1>4, <1>5, <3>1 DEF Holds, HoldsOthers
    <3>4. \A t \in Threads : pc'[t] \notin {"read_wait", "read_data",
                                           "dependent_wait", "dependent_data"}
      BY <1>6, <2>2
    <3>5. pc'[current] = "master_wait"
      BY <1>6, <2>2
    <3> QED BY <1>1, <3>2, <3>3, <3>4, <3>5 DEF MirrorContents
  <2> QED BY <1>5, <2>1, <2>2
<1> QED BY <1>6, <1>8, <1>9 DEF MirrorInv

\* What a thread finds when it goes on: the drive it selected is ready.
LEMMA DriveAnswers ==
  ASSUME MirrorInv, NEW label \in DataLabels, At(label)
  PROVE  /\ current \in build.io /\ command[selected].drq
         /\ \A t \in Threads : t # current => pc[t] = "run"
<1>1. /\ current \in Threads /\ pc[current] \in DataLabels /\ pc[current] # "run"
      /\ MirrorQueues
  BY DEF MirrorInv, MirrorTypes, At, DataLabels
<1>2. current \in build.io /\ resumed
  BY <1>1 DEF MirrorQueues
<1> QED BY <1>1, <1>2, OthersCompute DEF MirrorQueues

LEMMA ReadMirror == ASSUME MirrorInv, mirror_read_data PROVE MirrorInv'
<1>0. MirrorTypes /\ MirrorQueues /\ MirrorContents /\ At("read_data")
  BY DEF MirrorInv, mirror_read_data
<1>1. /\ current \in build.io /\ command[selected].drq /\ current \in Threads
      /\ \A t \in Threads : t # current => pc[t] = "run"
  BY <1>0, DriveAnswers DEF DataLabels, MirrorTypes
<1>2. /\ UNCHANGED <<current, ready_queue, block_queue, status, selected, contents, latest>>
      /\ UNCHANGED <<build, wait_CPU, issued, done, device>>
      /\ command' = [command EXCEPT ![selected] = NoCommand] /\ resumed' = FALSE /\ GoTo("run")
  BY DEF mirror_read_data, diskOfOthers
<1>3. /\ MirrorQueues' /\ pc' \in [Threads -> MirrorLabels]
      /\ pc'[current] = "run" /\ \A t \in Threads : t # current => pc'[t] = "run"
  <2>1. "run" \in MirrorLabels \ DataLabels
    BY DEF MirrorLabels, DataLabels
  <2> QED BY <1>1, <1>2, <2>1, StaysMirror
<1>4. PICK v \in Values : Received(v) /\ request' = [request EXCEPT !.buf = v]
  BY DEF mirror_read_data
<1>5. request' \in [block : Blocks, buf : Values]
  BY <1>0, <1>4 DEF MirrorTypes
<1>6. NoCommand \in [op : {"none", "read", "write"}, block : Blocks, drq : BOOLEAN]
  <2>1. request.block \in Blocks
    BY <1>0 DEF MirrorTypes
  <2> QED BY <2>1 DEF NoCommand
<1>7. MirrorTypes'
  BY <1>0, <1>2, <1>3, <1>5, <1>6 DEF MirrorTypes
<1>8. \A d \in Drives : Holds(d)
  BY <1>0, <1>1 DEF MirrorContents, At
<1>9. MirrorContents'
  BY <1>2, <1>3, <1>8 DEF MirrorContents, Holds
<1> QED BY <1>3, <1>7, <1>9 DEF MirrorInv

\* The first half of a write is on MASTER, and the command goes to the other
\* drive.
LEMMA MasterMirror == ASSUME MirrorInv, master_data PROVE MirrorInv'
<1>0. MirrorTypes /\ MirrorQueues /\ MirrorContents /\ At("master_data")
  BY DEF MirrorInv, master_data
<1>1. /\ current \in build.io /\ command[selected].drq /\ current \in Threads
      /\ \A t \in Threads : t # current => pc[t] = "run"
  BY <1>0, DriveAnswers DEF DataLabels, MirrorTypes
<1>2. /\ UNCHANGED <<current, ready_queue, block_queue, status, request, latest>>
      /\ UNCHANGED <<build, wait_CPU, issued, done, device>>
      /\ resumed' = FALSE /\ GoTo("dependent_wait") /\ contents' = Stored
      /\ selected' = "DEPENDENT"
      /\ command' = [command EXCEPT !["DEPENDENT"] =
                       [op |-> "write", block |-> request.block, drq |-> FALSE]]
  BY DEF master_data, diskOfOthers, mirror_issue_operation, second_drive
<1>3. /\ MirrorQueues' /\ pc' \in [Threads -> MirrorLabels]
      /\ pc'[current] = "dependent_wait" /\ \A t \in Threads : t # current => pc'[t] = "run"
  <2>1. "dependent_wait" \in MirrorLabels \ DataLabels
    BY DEF MirrorLabels, DataLabels
  <2> QED BY <1>1, <1>2, <2>1, StaysMirror
<1>4. /\ selected = "MASTER" /\ command["MASTER"].block = request.block
      /\ request.buf = latest[request.block] /\ \A d \in Drives : HoldsOthers(d)
  BY <1>0, <1>1 DEF MirrorContents, Serves, At
<1>5. contents' = [contents EXCEPT !["MASTER"][request.block] = request.buf]
  BY <1>1, <1>2, <1>4 DEF Stored
<1>6. request.block \in Blocks /\ request.buf \in Values
  BY <1>0 DEF MirrorTypes
<1>7. /\ contents' \in [Drives -> [Blocks -> Values]]
      /\ contents'["DEPENDENT"] = contents["DEPENDENT"]
      /\ \A b \in Blocks : contents'["MASTER"][b] =
           IF b = request.block THEN request.buf ELSE contents["MASTER"][b]
  BY <1>0, <1>5, <1>6 DEF MirrorTypes, Drives
<1>8. /\ command' \in [Drives -> [op : {"none", "read", "write"}, block : Blocks, drq : BOOLEAN]]
      /\ command'["DEPENDENT"] = [op |-> "write", block |-> request.block, drq |-> FALSE]
  BY <1>0, <1>2, <1>6 DEF MirrorTypes, Drives
<1>9. MirrorTypes'
  BY <1>0, <1>2, <1>3, <1>7, <1>8 DEF MirrorTypes, Drives
<1>10. Holds("MASTER")'
  BY <1>2, <1>4, <1>7 DEF Holds, HoldsOthers, Drives
<1>11. HoldsOthers("DEPENDENT")'
  BY <1>2, <1>4, <1>7 DEF HoldsOthers, Drives
<1>12. Serves("DEPENDENT", "write")' /\ request'.buf = latest'[request'.block]
  BY <1>2, <1>4, <1>8 DEF Serves
<1>13. MirrorContents'
  <2>1. \A t \in Threads : pc'[t] \notin {"read_wait", "read_data", "master_wait", "master_data"}
    BY <1>3
  <2> QED BY <1>1, <1>3, <1>10, <1>11, <1>12, <2>1 DEF MirrorContents
<1> QED BY <1>3, <1>9, <1>13 DEF MirrorInv

LEMMA DependentMirror == ASSUME MirrorInv, dependent_data PROVE MirrorInv'
<1>0. MirrorTypes /\ MirrorQueues /\ MirrorContents /\ At("dependent_data")
  BY DEF MirrorInv, dependent_data
<1>1. /\ current \in build.io /\ command[selected].drq /\ current \in Threads
      /\ \A t \in Threads : t # current => pc[t] = "run"
  BY <1>0, DriveAnswers DEF DataLabels, MirrorTypes
<1>2. /\ UNCHANGED <<current, ready_queue, block_queue, status, selected, request, latest>>
      /\ UNCHANGED <<build, wait_CPU, issued, done, device>>
      /\ resumed' = FALSE /\ GoTo("run") /\ contents' = Stored
      /\ command' = [command EXCEPT ![selected] = NoCommand]
  BY DEF dependent_data, diskOfOthers
<1>3. /\ MirrorQueues' /\ pc' \in [Threads -> MirrorLabels]
      /\ pc'[current] = "run" /\ \A t \in Threads : t # current => pc'[t] = "run"
  <2>1. "run" \in MirrorLabels \ DataLabels
    BY DEF MirrorLabels, DataLabels
  <2> QED BY <1>1, <1>2, <2>1, StaysMirror
<1>4. /\ selected = "DEPENDENT" /\ command["DEPENDENT"].block = request.block
      /\ request.buf = latest[request.block] /\ Holds("MASTER") /\ HoldsOthers("DEPENDENT")
  BY <1>0, <1>1 DEF MirrorContents, Serves, At
<1>5. contents' = [contents EXCEPT !["DEPENDENT"][request.block] = request.buf]
  BY <1>1, <1>2, <1>4 DEF Stored
<1>6. request.block \in Blocks /\ request.buf \in Values
  BY <1>0 DEF MirrorTypes
<1>7. /\ contents' \in [Drives -> [Blocks -> Values]]
      /\ contents'["MASTER"] = contents["MASTER"]
      /\ \A b \in Blocks : contents'["DEPENDENT"][b] =
           IF b = request.block THEN request.buf ELSE contents["DEPENDENT"][b]
  BY <1>0, <1>5, <1>6 DEF MirrorTypes, Drives
<1>8. NoCommand \in [op : {"none", "read", "write"}, block : Blocks, drq : BOOLEAN]
  BY <1>6 DEF NoCommand
<1>9. MirrorTypes'
  BY <1>0, <1>2, <1>3, <1>7, <1>8 DEF MirrorTypes
<1>10. Holds("MASTER")' /\ Holds("DEPENDENT")'
  BY <1>2, <1>4, <1>7 DEF Holds, HoldsOthers
<1>11. MirrorContents'
  BY <1>3, <1>10 DEF MirrorContents, Drives
<1> QED BY <1>3, <1>9, <1>11 DEF MirrorInv

LEMMA DriveMirror ==
  ASSUME MirrorInv, NEW e \in Drives, DriveReady(e) PROVE MirrorInv'
<1>0. MirrorTypes /\ MirrorQueues /\ MirrorContents
  BY DEF MirrorInv
<1>1. /\ UNCHANGED <<current, ready_queue, block_queue, pc, status, selected, contents, resumed,
                     request, latest>>
      /\ UNCHANGED <<build, wait_CPU, issued, done, device>>
      /\ command' = [command EXCEPT ![e].drq = TRUE]
  BY DEF DriveReady, diskOfOthers
<1>2. /\ command' \in [Drives -> [op : {"none", "read", "write"}, block : Blocks, drq : BOOLEAN]]
      /\ \A d \in Drives : /\ command'[d].op = command[d].op /\ command'[d].block = command[d].block
                           /\ command[d].drq => command'[d].drq
  BY <1>0, <1>1 DEF MirrorTypes
<1>3. MirrorTypes'
  BY <1>0, <1>1, <1>2 DEF MirrorTypes
<1>4. MirrorQueues'
  BY <1>0, <1>1, <1>2 DEF MirrorQueues, MirrorTypes
<1>5. \A d \in Drives : \A op : Serves(d, op) => Serves(d, op)'
  BY <1>1, <1>2 DEF Serves
<1>6. \A d \in Drives : (Holds(d) => Holds(d)') /\ (HoldsOthers(d) => HoldsOthers(d)')
  BY <1>1 DEF Holds, HoldsOthers
<1>7. MirrorContents'
  BY <1>0, <1>1, <1>5, <1>6 DEF MirrorContents, Drives
<1> QED BY <1>3, <1>4, <1>7 DEF MirrorInv

LEMMA NextMirror == MirrorInv /\ [MirrorNext]_<<vars, mirrorVars>> => MirrorInv'
<1>1. ASSUME MirrorInv, UNCHANGED <<vars, mirrorVars>> PROVE MirrorInv'
  <2>1. MirrorTypes'
    BY <1>1 DEF MirrorInv, MirrorTypes, vars, mirrorVars
  <2>2. MirrorQueues'
    BY <1>1 DEF MirrorInv, MirrorQueues, vars, mirrorVars
  <2>3. MirrorContents'
    BY <1>1 DEF MirrorInv, MirrorContents, Holds, HoldsOthers, Serves, vars, mirrorVars
  <2> QED BY <2>1, <2>2, <2>3 DEF MirrorInv
<1> QED BY <1>1, PassOnMirror, WaitMirror, CommandMirror, ReadMirror, MasterMirror,
           DependentMirror, DriveMirror DEF MirrorNext, MirrorKernel

----------------------------------------------------------------------------
(* The four builds.                                                         *)

\* Where the disk of the polling builds is, moving or not.
Polls == kind \in {"polling", "queue"}

\* Each build keeps its own invariant.
BuildInv ==
  /\ kind \in {"polling", "queue", "interrupt", "mirrored"}
  /\ Polls => DInv
  /\ kind = "interrupt" => WaitInv
  /\ kind = "mirrored" => MirrorInv

\* In every execution of every build, the queues, the flags, the drives and
\* the places where threads go on fit together.
THEOREM EveryBuildIsSound == AllSpec => []BuildInv
<1>1. AllInit => BuildInv
  BY InitInv, InitWaits, InitMirror DEF AllInit, BuildInv, Polls
<1>2. BuildInv /\ [AllNext]_allVars => BuildInv'
  <2> SUFFICES ASSUME BuildInv, [AllNext]_allVars PROVE BuildInv'
    OBVIOUS
  <2>1. kind' = kind /\ kind \in {"polling", "queue", "interrupt", "mirrored"}
    BY DEF AllNext, DiskNext, allVars, BuildInv
  <2>2. CASE Polls
    <3>1. [Next]_vars
      BY <2>2 DEF AllNext, DiskNext, allVars, Polls
    <3>2. DInv'
      BY <2>2, <3>1, PassOnInv, EnterInv, WaitToIssueInv, IssueInv, WaitForDiskInv, TransferInv,
         RaiseDRQInv, StutterInv DEF BuildInv, Next, Kernel
    <3> QED BY <2>1, <2>2, <3>2 DEF BuildInv, Polls
  <2>3. CASE kind = "interrupt"
    <3>1. [InterruptNext]_<<vars, interruptVars>>
      BY <2>3 DEF AllNext, DiskNext, allVars
    <3>2. WaitInv'
      BY <2>3, <3>1, NextWaits DEF BuildInv
    <3> QED BY <2>1, <2>3, <3>2 DEF BuildInv, Polls
  <2>4. CASE kind = "mirrored"
    <3>1. [MirrorNext]_<<vars, mirrorVars>>
      BY <2>4 DEF AllNext, DiskNext, allVars
    <3>2. MirrorInv'
      BY <2>4, <3>1, NextMirror DEF BuildInv
    <3> QED BY <2>1, <2>4, <3>2 DEF BuildInv, Polls
  <2> QED BY <2>1, <2>2, <2>3, <2>4 DEF Polls
<1> QED BY <1>1, <1>2, PTL DEF AllSpec

\* In every build yield finds a thread to dispatch to, and the disk's handler
\* one to wake: no assertion fails.
THEOREM NoBuildFails == AllSpec => []NothingFails
<1>1. BuildInv => NothingFails
  BY DEF BuildInv, Polls, DInv, Types, WaitInv, DriveInv, MirrorInv, MirrorTypes, NothingFails
<1> QED BY <1>1, EveryBuildIsSound, PTL

\* In no build is a thread lost between the ready queue, block_queue and the
\* CPU, or in two of them at once.
THEOREM ThreadsInOnePlace == AllSpec => []OnePlace
<1>1. BuildInv => OnePlace
  <2> SUFFICES ASSUME BuildInv, NEW t \in Threads
               PROVE  /\ Times(ready_queue, t) + Times(block_queue, t) <= 1
                      /\ IF t = current
                           THEN Times(block_queue, t) = 1
                                  <=> pc[t] \in {"enqueued", "issue", "issued"}
                           ELSE Times(ready_queue, t) + Times(block_queue, t) = 1
    BY DEF OnePlace
  <2>1. /\ ready_queue \in Seq(Threads) /\ Distinct(ready_queue)
        /\ block_queue \in Seq(Threads) /\ Distinct(block_queue)
    <3>1. CASE Polls
      BY <3>1, QueueFacts DEF BuildInv
    <3>2. CASE kind = "interrupt"
      BY <3>2 DEF BuildInv, WaitInv, MaskInv, FlagTypeOK, HandedOver
    <3>3. CASE kind = "mirrored"
      BY <3>3 DEF BuildInv, MirrorInv, MirrorTypes, MirrorQueues
    <3> QED BY <3>1, <3>2, <3>3 DEF BuildInv, Polls
  <2>2. /\ Times(ready_queue, t) = IF InQ(ready_queue, t) THEN 1 ELSE 0
        /\ Times(block_queue, t) = IF InQ(block_queue, t) THEN 1 ELSE 0
    BY <2>1, TimesFacts
  <2>3. IF t = current
          THEN /\ ~(InQ(ready_queue, t) /\ InQ(block_queue, t))
               /\ InQ(block_queue, t) <=> pc[t] \in {"enqueued", "issue", "issued"}
          ELSE InQ(ready_queue, t) <=> ~InQ(block_queue, t)
    <3>1. CASE Polls
      BY <3>1 DEF BuildInv, DInv, Placed
    <3>2. CASE kind = "interrupt"
      <4>1. HandedOver /\ MaskInv /\ FlagTypeOK
        BY <3>2 DEF BuildInv, WaitInv, MaskInv
      <4>2. CASE t = current
        <5>1. pc[t] \in Labels
          BY <4>1 DEF FlagTypeOK
        <5>2. pc[t] # "enqueued"
          BY <5>1 DEF Labels, Computing, SwitchedOut, InsideDisk
        <5> QED BY <4>1, <4>2, <5>2 DEF HandedOver
      <4>3. CASE t # current
        BY <4>1, <4>3 DEF HandedOver
      <4> QED BY <4>2, <4>3
    <3>3. CASE kind = "mirrored"
      <4>1. MirrorTypes /\ MirrorQueues
        BY <3>3 DEF BuildInv, MirrorInv
      <4>2. pc[t] \notin {"enqueued", "issue", "issued"}
        BY <4>1 DEF MirrorTypes, MirrorLabels
      <4> QED BY <4>1, <4>2 DEF MirrorQueues
    <3> QED BY <3>1, <3>2, <3>3 DEF BuildInv, Polls
  <2> QED BY <2>2, <2>3
<1> QED BY <1>1, EveryBuildIsSound, PTL

\* In every build, the flags and the drive tell the same story.
THEOREM FlagsAgreeInAllBuilds == AllSpec => []FlagsAgree
<1>1. BuildInv => FlagsAgree
  <2> SUFFICES ASSUME BuildInv PROVE FlagsAgree
    OBVIOUS
  <2>1. CASE Polls
    BY <2>1, DeviceIdle DEF BuildInv, DInv, Flags, FlagsAgree
  <2>2. CASE kind = "interrupt"
    <3>1. DriveInv
      BY <2>2 DEF BuildInv, WaitInv
    <3>2. device = Idle <=> device.owner = Nobody
      BY <3>1 DEF DriveInv, Idle
    <3> QED BY <3>1, <3>2 DEF DriveInv, FlagsAgree
  <2>3. CASE kind = "mirrored"
    BY <2>3 DEF BuildInv, MirrorInv, MirrorTypes, FlagsAgree
  <2> QED BY <2>1, <2>2, <2>3 DEF BuildInv, Polls
<1> QED BY <1>1, EveryBuildIsSound, PTL

\* In every build a command is issued to an idle drive, and the data that a
\* thread moves is for its own command.
THEOREM CommandsStayTogether == AllSpec => [](NoCommandLost /\ TransfersOwnData)
<1>1. BuildInv => NoCommandLost /\ TransfersOwnData
  <2> SUFFICES ASSUME BuildInv PROVE NoCommandLost /\ TransfersOwnData
    OBVIOUS
  <2>1. CASE Polls
    <3>1. DInv /\ current \in Threads /\ device \in [owner : Threads \union {Nobody}, drq : BOOLEAN]
      BY <2>1 DEF BuildInv, DInv, Types
    <3>2. NoCommandLost
      BY <3>1, DeviceIdle DEF DInv, Placed, NoCommandLost, At
    <3>3. TransfersOwnData
      BY <3>1, TransferFacts DEF TransfersOwnData, At
    <3> QED BY <3>2, <3>3
  <2>2. CASE kind = "interrupt"
    <3>1. /\ WaitInv /\ HandedOver /\ DriveInv /\ MaskInv /\ current \in Threads
          /\ device \in [owner : Threads \union {Nobody}, drq : BOOLEAN]
      BY <2>2 DEF BuildInv, WaitInv, DriveInv, MaskInv, FlagTypeOK
    <3>2. NoCommandLost
      <4> SUFFICES ASSUME pc[current] = "issue" PROVE device = Idle
        BY DEF NoCommandLost, At
      <4>1. current \in build.io
        BY <3>1 DEF HandedOver, OnDisk, InsideDisk
      <4>2. \A t \in Threads : pc[t] \notin Commanding
        <5> SUFFICES ASSUME NEW t \in Threads, pc[t] \in Commanding PROVE FALSE
          OBVIOUS
        <5>1. t # current /\ t \in build.io
          BY <3>1 DEF HandedOver, OnDisk, InsideDisk, Commanding
        <5> QED BY <3>1, <4>1, <5>1, OneUser
      <4>3. device.owner = Nobody
        BY <3>1, <4>2 DEF HandedOver
      <4> QED BY <3>1, <4>3 DEF DriveInv, Idle
    <3>3. TransfersOwnData
      <4> SUFFICES ASSUME pc[current] = "transfer" PROVE device = [owner |-> current, drq |-> TRUE]
        BY DEF TransfersOwnData, At
      <4>1. device.owner = current /\ device.drq
        BY <3>1 DEF HandedOver, DriveInv, Commanding
      <4> QED BY <3>1, <4>1
    <3> QED BY <3>2, <3>3
  <2>3. CASE kind = "mirrored"
    <3>1. current \in Threads /\ pc \in [Threads -> MirrorLabels]
      BY <2>3 DEF BuildInv, MirrorInv, MirrorTypes
    <3>2. pc[current] # "issue" /\ pc[current] # "transfer"
      BY <3>1 DEF MirrorLabels
    <3> QED BY <3>2 DEF NoCommandLost, TransfersOwnData, At
  <2> QED BY <2>1, <2>2, <2>3 DEF BuildInv, Polls
<1> QED BY <1>1, EveryBuildIsSound, PTL

\* With interrupts, they are on exactly while a thread computes: queues, flags
\* and drive of read, write, yield and resume are never touched with interrupts
\* on.
THEOREM SectionsMasked == AllSpec => []MaskedSections
<1>1. BuildInv => MaskedSections
  BY DEF BuildInv, WaitInv, MaskInv, MaskedSections
<1> QED BY <1>1, EveryBuildIsSound, PTL

\* Between calls both drives hold what was last written to every block.
THEOREM MirrorsStayEqual == AllSpec => []MirrorsHoldLatest
<1>1. BuildInv => MirrorsHoldLatest
  <2> SUFFICES ASSUME BuildInv, kind = "mirrored", \A t \in build.io : pc[t] = "run",
                      NEW d \in Drives, NEW b \in Blocks
               PROVE  contents[d][b] = latest[b]
    BY DEF MirrorsHoldLatest, MirrorsAgree
  <2>1. MirrorQueues /\ MirrorContents
    BY DEF BuildInv, MirrorInv
  <2>2. \A t \in Threads : pc[t] = "run"
    BY <2>1 DEF MirrorQueues
  <2>3. Holds(d)
    BY <2>1, <2>2 DEF MirrorContents
  <2> QED BY <2>3 DEF Holds
<1> QED BY <1>1, EveryBuildIsSound, PTL

\* Every read of the mirrored disk returns what was last written to its block.
THEOREM ReadsAreLatest == AllSpec => ReadsReturnLatest
<1> DEFINE A == (\E t \in build.io : pc[t] = "read_data" /\ pc'[t] = "run")
                  => request'.buf = latest[request.block]
<1>1. BuildInv /\ [AllNext]_allVars => A
  <2> SUFFICES ASSUME BuildInv, [AllNext]_allVars, NEW t \in build.io,
                      pc[t] = "read_data", pc'[t] = "run"
               PROVE  request'.buf = latest[request.block]
    OBVIOUS
  <2>1. kind = "mirrored" /\ t \in Threads
    <3>1. t \in Threads
      BY BuildsAssumption DEF BuildInv, Polls, DInv, Types, WaitInv, DriveInv, MirrorInv, MirrorTypes
    <3>2. ~Polls
      <4> SUFFICES ASSUME Polls PROVE FALSE
        OBVIOUS
      <4>1. pc[t] \in PCs
        BY <3>1 DEF BuildInv, DInv, Types
      <4> QED BY <4>1 DEF PCs
    <3>3. kind # "interrupt"
      <4> SUFFICES ASSUME kind = "interrupt" PROVE FALSE
        OBVIOUS
      <4>1. pc[t] \in Labels
        BY <3>1 DEF BuildInv, WaitInv, MaskInv, FlagTypeOK
      <4> QED BY <4>1 DEF Labels, Computing, SwitchedOut, InsideDisk
    <3> QED BY <3>1, <3>2, <3>3 DEF BuildInv, Polls
  <2>2. MirrorInv /\ MirrorTypes /\ MirrorContents
    BY <2>1 DEF BuildInv, MirrorInv
  <2>3. MirrorNext
    BY <2>1 DEF AllNext, DiskNext, allVars, vars
  <2>4. mirror_read_data
    <3>1. pc' # pc
      OBVIOUS
    <3>2. ASSUME NEW label, GoTo(label), label # "run", current \in Threads PROVE FALSE
      BY <2>1, <2>2, <3>2 DEF GoTo, MirrorTypes
    <3>3. ~mirror_read
      BY <2>2, <3>2 DEF mirror_read, MirrorTypes
    <3>4. ~read_dependent
      BY <2>2, <3>2 DEF read_dependent, MirrorTypes
    <3>5. ~mirror_write
      BY <2>2, <3>2 DEF mirror_write, MirrorTypes
    <3>6. ~wait_until_ready
      <4> SUFFICES ASSUME wait_until_ready PROVE FALSE
        OBVIOUS
      <4>1. PICK label : label = Resumes[pc[current]]
        OBVIOUS
      <4>2. GoTo(label) /\ label # "run"
        BY <4>1 DEF wait_until_ready, Resumes
      <4> QED BY <2>2, <3>2, <4>2 DEF MirrorTypes
    <3>7. ~master_data
      BY <2>2, <3>2 DEF master_data, MirrorTypes
    <3>8. ~dependent_data
      <4> SUFFICES ASSUME dependent_data PROVE FALSE
        OBVIOUS
      <4>1. pc[current] = "dependent_data" /\ pc' = [pc EXCEPT ![current] = "run"]
        BY DEF dependent_data, At, GoTo
      <4> QED BY <2>1, <2>2, <4>1 DEF MirrorTypes
    <3>9. ~mirror_pass_on_CPU /\ \A d \in Drives : ~DriveReady(d)
      BY <3>1 DEF mirror_pass_on_CPU, DriveReady
    <3> QED BY <2>3, <3>3, <3>4, <3>5, <3>6, <3>7, <3>8, <3>9 DEF MirrorNext, MirrorKernel
  <2>5. command[selected].drq /\ pc[current] = "read_data" /\ current \in Threads
    BY <2>2, <2>4, DriveAnswers DEF mirror_read_data, DataLabels, At, MirrorTypes
  <2>6. /\ selected = "DEPENDENT" /\ command[selected].block = request.block
        /\ \A u \in Threads : pc[u] \in {"run", "read_data"}
    <3>1. \A u \in Threads : u # current => pc[u] = "run"
      BY <2>2, <2>4, DriveAnswers DEF mirror_read_data, DataLabels
    <3> QED BY <2>2, <2>5, <3>1 DEF MirrorContents, Serves
  <2>7. contents[selected][request.block] = latest[request.block]
    <3>1. Holds("DEPENDENT") /\ request.block \in Blocks
      BY <2>2, <2>6 DEF MirrorContents, MirrorTypes, Drives
    <3> QED BY <2>6, <3>1 DEF Holds
  <2>8. PICK v \in Values : Received(v) /\ request' = [request EXCEPT !.buf = v]
    BY <2>4 DEF mirror_read_data
  <2>9. v = latest[request.block] /\ request'.buf = v
    BY <2>2, <2>5, <2>6, <2>7, <2>8 DEF Received, MirrorTypes
  <2> QED BY <2>9
<1>2. AllSpec => [][A]_<<vars, mirrorVars>>
  <2>1. BuildInv /\ [AllNext]_allVars => [A]_<<vars, mirrorVars>>
    BY <1>1
  <2> QED BY <2>1, EveryBuildIsSound, PTL DEF AllSpec
<1> QED BY <1>2 DEF ReadsReturnLatest
=============================================================================
