-------------------------- MODULE RRSchedulerProofs -------------------------
(* The scheduler of MP5, for every number of threads, order of creation,    *)
(* quantum and depth of nested interrupts: no interleaving of the timer     *)
(* with resume, yield and terminate makes an assertion fail or loses or     *)
(* invents an entry of the ready queue, and what has left stays out.        *)
EXTENDS RRScheduler, FiniteSetTheorems, SequenceTheorems, TLAPS

Places == {"start", "burst", "resume", "enqueue", "yield", "switch", "switched", "eoi"}
Frame == [pc : Places, ret : {"burst", "eoi", "gone"}]

TypeOK ==
  /\ current \in Threads
  /\ queue \in Seq(Threads)
  /\ stack \in [Threads -> Seq(Frame)]
  /\ interrupts \in BOOLEAN
  /\ ticks \in Nat
  /\ killed \subseteq Killable

\* The frame at the bottom is the thread function's or thread_shutdown's, the
\* others are interrupt handlers. A frame below another one was interrupted,
\* so it had interrupts on.
StackShape(t) ==
  /\ Len(stack[t]) \in 1..(MaxNest + 1)
  /\ stack[t][1].pc # "eoi" /\ stack[t][1].ret # "eoi"
  /\ stack[t][1].ret = "gone" => /\ t \in Terminating
                                 /\ stack[t][1].pc \in {"yield", "switch", "switched"}
  /\ \A i \in 2..Len(stack[t]) : /\ stack[t][i].ret = "eoi"
                                 /\ stack[t][i].pc \notin {"start", "burst"}
  /\ \A i \in 1..(Len(stack[t]) - 1) : stack[t][i].pc \notin {"start", "switched"}

\* A thread that does not run stands where it was switched out. So does the
\* running one when it has just been switched in, with interrupts off.
SwitchedOut == {"start", "switched"}
SwitchPoints ==
  /\ \A t \in Threads : t # current => Top(t).pc \in SwitchedOut
  /\ Top(current).pc \in SwitchedOut => ~interrupts

\* terminate takes one entry of a thread away that is still waiting for it.
Debt(t) == IF t \in killed /\ ~Terminated(t) THEN 1 ELSE 0

EntriesCounted == \A t \in Threads : Entries(t) = Cardinality(Waiting(t)) - Debt(t)

IInv ==
  /\ TypeOK
  /\ status \in {"running", "assert"}
  /\ \A t \in Threads : StackShape(t)
  /\ SwitchPoints
  /\ EntriesCounted
  /\ ~Terminated(current)

\* The only assertion that fails is that of terminate, which leaves the rest
\* as it was.
GoesOn == IInv /\ status = "running"

----------------------------------------------------------------------------
\* How often a thread is in a sequence, when one is added to the end,
Count(q, t) == Cardinality({i \in 1..Len(q) : q[i] = t})

LEMMA CountType ==
  ASSUME NEW q \in Seq(Threads), NEW t
  PROVE  /\ IsFiniteSet({i \in 1..Len(q) : q[i] = t})
         /\ Count(q, t) \in Nat
         /\ Count(q, t) > 0 <=> \E i \in 1..Len(q) : q[i] = t
<1> DEFINE S == {i \in 1..Len(q) : q[i] = t}
<1>1. IsFiniteSet(1..Len(q))
  BY FS_Interval
<1>2. IsFiniteSet(S)
  BY <1>1, FS_Subset
<1>3. Cardinality(S) \in Nat /\ (Cardinality(S) = 0 <=> S = {})
  BY <1>2, FS_CardinalityType, FS_EmptySet
<1>4. Count(q, t) = Cardinality(S)
  BY DEF Count
<1>5. S = {} <=> ~\E i \in 1..Len(q) : q[i] = t
  OBVIOUS
<1> QED BY <1>2, <1>3, <1>4, <1>5

LEMMA CountAppended ==
  ASSUME NEW q \in Seq(Threads), NEW u \in Threads, NEW t \in Threads
  PROVE  Count(Append(q, u), t) = Count(q, t) + (IF t = u THEN 1 ELSE 0)
<1> DEFINE S == {i \in 1..Len(q) : q[i] = t}
           n == Len(q) + 1
           T == {i \in 1..Len(Append(q, u)) : Append(q, u)[i] = t}
<1>1. Len(Append(q, u)) = n /\ Append(q, u)[n] = u /\ n \in Nat
  OBVIOUS
<1>2. \A i \in 1..Len(q) : Append(q, u)[i] = q[i]
  OBVIOUS
<1>3. T = IF t = u THEN S \union {n} ELSE S
  BY <1>1, <1>2
<1>4. n \notin S /\ IsFiniteSet(S)
  <2>1. n \notin S
    OBVIOUS
  <2>2. IsFiniteSet(S)
    BY CountType
  <2> QED BY <2>1, <2>2
<1>5. Cardinality(S \union {n}) = Cardinality(S) + 1
  BY <1>4, FS_AddElement
<1>6. Cardinality(S) \in Nat
  BY <1>4, FS_CardinalityType
<1>7. Count(Append(q, u), t) = Cardinality(T) /\ Count(q, t) = Cardinality(S)
  BY DEF Count
<1> HIDE DEF S, T
<1> QED BY <1>3, <1>5, <1>6, <1>7

\* and when the one at position m is taken out.
Without(q, m, r) ==
  /\ Len(r) = Len(q) - 1
  /\ \A i \in 1..Len(r) : r[i] = IF i < m THEN q[i] ELSE q[i + 1]

LEMMA CountRemoved ==
  ASSUME NEW q \in Seq(Threads), NEW r \in Seq(Threads), NEW m \in 1..Len(q),
         Without(q, m, r), NEW t \in Threads
  PROVE  Count(r, t) = Count(q, t) - (IF q[m] = t THEN 1 ELSE 0)
<1> DEFINE S == {i \in 1..Len(q) : q[i] = t}
           T == {i \in 1..Len(r) : r[i] = t}
           f == [i \in T |-> IF i < m THEN i ELSE i + 1]
<1>1. Len(q) \in Nat /\ Len(r) \in Nat /\ Len(r) = Len(q) - 1
  BY DEF Without
<1>2. \A i \in 1..Len(r) : r[i] = IF i < m THEN q[i] ELSE q[i + 1]
  BY DEF Without
<1>3. f \in [T -> S \ {m}]
  <2> SUFFICES ASSUME NEW i \in T PROVE f[i] \in S \ {m}
    OBVIOUS
  <2> QED BY <1>1, <1>2
<1>4. \A i, j \in T : f[i] = f[j] => i = j
  BY <1>1
<1>5. \A k \in S \ {m} : \E i \in T : f[i] = k
  <2> SUFFICES ASSUME NEW k \in S \ {m} PROVE \E i \in T : f[i] = k
    OBVIOUS
  <2>1. CASE k < m
    <3>1. k \in 1..Len(r) /\ r[k] = q[k]
      BY <1>1, <1>2, <2>1
    <3> QED BY <3>1, <2>1
  <2>2. CASE k > m
    <3>1. k - 1 \in 1..Len(r) /\ ~(k - 1 < m) /\ (k - 1) + 1 = k
      BY <1>1, <2>2
    <3>2. r[k - 1] = q[k]
      BY <1>2, <3>1
    <3>3. k - 1 \in T /\ f[k - 1] = k
      BY <3>1, <3>2
    <3> QED BY <3>3
  <2>3. k \in Int /\ m \in Int /\ k # m
    BY <1>1
  <2>4. k < m \/ k > m
    BY <2>3
  <2> QED BY <2>1, <2>2, <2>4, Zenon
<1>6. f \in Bijection(T, S \ {m})
  BY <1>3, <1>4, <1>5 DEF Bijection, Injection, Surjection, IsInjective
<1>7. IsFiniteSet(T) /\ IsFiniteSet(S)
  BY CountType
<1>8. Cardinality(S \ {m}) = Cardinality(T)
  BY <1>6, <1>7, FS_Bijection DEF ExistsBijection
<1>9. Cardinality(S \ {m}) = IF m \in S THEN Cardinality(S) - 1 ELSE Cardinality(S)
  BY <1>7, FS_RemoveElement
<1>10. Cardinality(S) \in Nat /\ (m \in S <=> q[m] = t)
  BY <1>7, FS_CardinalityType
<1> QED BY <1>8, <1>9, <1>10 DEF Count

\* The entries of a thread can be numbered.
Rank(q, i) == Cardinality({j \in 1..i : q[j] = q[i]})

LEMMA RankInCount ==
  ASSUME NEW q \in Seq(Threads), NEW i \in 1..Len(q)
  PROVE  Rank(q, i) \in 1..Count(q, q[i])
<1> DEFINE R == {j \in 1..i : q[j] = q[i]}
           S == {j \in 1..Len(q) : q[j] = q[i]}
<1>1. Len(q) \in Nat /\ i \in Nat /\ i <= Len(q) /\ i \in 1..i
  OBVIOUS
<1>2. R \in SUBSET S /\ i \in R
  BY <1>1
<1>3. IsFiniteSet(S) /\ Count(q, q[i]) = Cardinality(S)
  BY CountType DEF Count
<1> HIDE DEF R, S
<1>4. IsFiniteSet(R) /\ Cardinality(R) <= Cardinality(S)
  BY <1>2, <1>3, FS_Subset
<1>5. Cardinality(R) \in Nat /\ Cardinality(R) # 0 /\ Cardinality(S) \in Nat
  BY <1>2, <1>3, <1>4, FS_CardinalityType, FS_EmptySet
<1> QED BY <1>3, <1>4, <1>5 DEF Rank, R

LEMMA RankIncreases ==
  ASSUME NEW q \in Seq(Threads), NEW i \in 1..Len(q), NEW k \in 1..Len(q),
         i < k, q[i] = q[k]
  PROVE  Rank(q, i) < Rank(q, k)
<1> DEFINE R == {j \in 1..i : q[j] = q[i]}
           S == {j \in 1..k : q[j] = q[i]}
<1>1. Len(q) \in Nat /\ i \in Nat /\ k \in Nat
  OBVIOUS
<1>2. R \in SUBSET S /\ k \in S /\ k \notin R
  BY <1>1
<1>3. IsFiniteSet(1..k) /\ S \in SUBSET (1..k)
  BY <1>1, FS_Interval
<1>4. Rank(q, i) = Cardinality(R) /\ Rank(q, k) = Cardinality(S)
  BY DEF Rank
<1> HIDE DEF R, S
<1>5. IsFiniteSet(S)
  BY <1>3, FS_Subset
<1>6. IsFiniteSet(R) /\ Cardinality(R) <= Cardinality(S) /\ Cardinality(R) # Cardinality(S)
  BY <1>2, <1>5, FS_Subset
<1>7. Cardinality(R) \in Nat /\ Cardinality(S) \in Nat
  BY <1>5, <1>6, FS_CardinalityType
<1> QED BY <1>4, <1>6, <1>7

\* dequeue takes the first one out,
LEMMA TailWithoutHead ==
  ASSUME NEW q \in Seq(Threads), q # <<>>
  PROVE  /\ Tail(q) \in Seq(Threads) /\ Without(q, 1, Tail(q))
         /\ 1 \in 1..Len(q) /\ Head(q) = q[1] /\ Head(q) \in Threads
BY DEF Without

\* and so does terminate with the first one of a thread.
LEMMA RemovedFirst ==
  ASSUME NEW q \in Seq(Threads), NEW u \in Threads
  PROVE  \/ RemoveFirst(q, u) = q /\ \A i \in 1..Len(q) : q[i] # u
         \/ \E m \in 1..Len(q) : /\ q[m] = u
                                 /\ RemoveFirst(q, u) \in Seq(Threads)
                                 /\ Without(q, m, RemoveFirst(q, u))
<1> DEFINE hits == {i \in 1..Len(q) : q[i] = u}
           least == CHOOSE i \in hits : \A j \in hits : i <= j
<1>1. CASE hits = {}
  BY <1>1 DEF RemoveFirst
<1>2. CASE hits # {}
  <2>1. \E i \in hits : \A j \in hits : i <= j
    <3>1. hits \in SUBSET Nat
      OBVIOUS
    <3>2. PICK i \in hits : \A j \in hits : ~ (<<j, i>> \in OpToRel(<, Nat))
      BY <1>2, <3>1, NatLessThanWellFounded, WFMin, Zenon
    <3>3. \A j \in hits : j \in Nat /\ ~(j < i)
      BY <3>1, <3>2 DEF OpToRel
    <3> QED BY <3>1, <3>3
  <2> DEFINE m == least
             r == SubSeq(q, 1, m - 1) \o SubSeq(q, m + 1, Len(q))
  <2>2. m \in hits
    BY <2>1
  <2>3. RemoveFirst(q, u) = r
    BY <1>2 DEF RemoveFirst
  <2> HIDE DEF m
  <2>4. m \in 1..Len(q) /\ q[m] = u /\ Len(q) \in Nat
    BY <2>2
  <2> DEFINE a == SubSeq(q, 1, m - 1)
             b == SubSeq(q, m + 1, Len(q))
  <2>5. /\ a \in Seq(Threads) /\ Len(a) = m - 1
        /\ \A i \in 1..(m - 1) : a[i] = q[i]
    BY <2>4
  <2>6. /\ b \in Seq(Threads) /\ Len(b) = Len(q) - m
        /\ \A i \in 1..(Len(q) - m) : b[i] = q[m + i]
    BY <2>4
  <2> HIDE DEF a, b
  <2>7. /\ a \o b \in Seq(Threads) /\ Len(a \o b) = Len(a) + Len(b)
        /\ \A i \in 1..(Len(a) + Len(b)) :
              (a \o b)[i] = IF i <= Len(a) THEN a[i] ELSE b[i - Len(a)]
    BY <2>5, <2>6, ConcatProperties
  <2> DEFINE c == a \o b
  <2>8. /\ Len(c) = Len(q) - 1
        /\ \A i \in 1..(Len(q) - 1) : c[i] = IF i < m THEN a[i] ELSE b[i - (m - 1)]
    BY <2>4, <2>5, <2>6, <2>7
  <2> HIDE DEF c
  <2>9. Without(q, m, c)
    <3> SUFFICES ASSUME NEW i \in 1..(Len(q) - 1)
                 PROVE  c[i] = IF i < m THEN q[i] ELSE q[i + 1]
      BY <2>8 DEF Without
    <3>1. CASE i < m
      BY <2>4, <2>5, <2>8, <3>1
    <3>2. CASE ~(i < m)
      <4>1. i - (m - 1) \in 1..(Len(q) - m) /\ m + (i - (m - 1)) = i + 1
        BY <2>4, <3>2
      <4> QED BY <2>6, <2>8, <3>2, <4>1
    <3> QED BY <3>1, <3>2
  <2> QED BY <2>3, <2>4, <2>7, <2>9 DEF a, b, c
<1> QED BY <1>1, <1>2

----------------------------------------------------------------------------
\* What a thread is counted for is a finite set of its frames.
LEMMA WaitingFinite ==
  ASSUME TypeOK, NEW t \in Threads
  PROVE  /\ Waiting(t) \in SUBSET (1..Len(stack[t]))
         /\ IsFiniteSet(Waiting(t))
         /\ Cardinality(Waiting(t)) \in Nat
         /\ Cardinality(Waiting(t)) = 0 <=> Waiting(t) = {}
         /\ Entries(t) = Count(queue, t) /\ Entries(t) \in Nat
<1>1. stack[t] \in Seq(Frame)
  BY DEF TypeOK
<1>2. IsFiniteSet(1..Len(stack[t]))
  BY <1>1, FS_Interval
<1>3. Waiting(t) \in SUBSET (1..Len(stack[t]))
  BY DEF Waiting
<1>4. IsFiniteSet(Waiting(t))
  BY <1>2, <1>3, FS_Subset
<1>5. Entries(t) = Count(queue, t)
  BY DEF Entries, Count
<1> QED BY <1>3, <1>4, <1>5, FS_CardinalityType, FS_EmptySet, CountType DEF TypeOK

\* A frame asks for the CPU when it has put its thread into the queue.
Asks(f) == f.pc \in {"yield", "switch"} /\ f.ret # "gone"

\* Only the innermost frame of the running thread changes, to f.
Height == Len(stack[current])

TopBecomes(f) ==
  /\ stack' \in [Threads -> Seq(Frame)]
  /\ \A t \in Threads : Len(stack'[t]) = Len(stack[t])
  /\ \A t \in Threads \ {current} : stack'[t] = stack[t]
  /\ \A i \in 1..Height : stack'[current][i] = IF i = Height THEN f ELSE stack[current][i]

LEMMA ReplacesTop ==
  ASSUME TypeOK, Height \in Nat \ {0}, NEW f \in Frame,
         stack' = [stack EXCEPT ![current][Height] = f]
  PROVE  TopBecomes(f)
<1>1. /\ current \in Threads /\ stack \in [Threads -> Seq(Frame)]
      /\ stack[current] \in Seq(Frame) /\ Height = Len(stack[current])
  BY DEF TypeOK, Height
<1> DEFINE s == [stack[current] EXCEPT ![Height] = f]
<1>2. /\ s \in Seq(Frame) /\ Len(s) = Height
      /\ \A i \in 1..Height : s[i] = IF i = Height THEN f ELSE stack[current][i]
  BY <1>1, ExceptSeq
<1>3. stack' = [stack EXCEPT ![current] = s]
  OBVIOUS
<1> HIDE DEF s
<1>4. /\ stack' \in [Threads -> Seq(Frame)] /\ stack'[current] = s
      /\ \A t \in Threads \ {current} : stack'[t] = stack[t]
  BY <1>1, <1>2, <1>3
<1> QED BY <1>1, <1>2, <1>4 DEF TopBecomes

LEMMA GoToReplacesTop ==
  ASSUME TypeOK, Height \in Nat \ {0}, NEW p \in Places, stack' = GoTo(p)
  PROVE  /\ Top(current) \in Frame
         /\ [pc |-> p, ret |-> Top(current).ret] \in Frame
         /\ TopBecomes([pc |-> p, ret |-> Top(current).ret])
<1>1. /\ current \in Threads /\ stack \in [Threads -> Seq(Frame)]
      /\ stack[current] \in Seq(Frame) /\ Height \in 1..Len(stack[current])
      /\ Height = Len(stack[current])
  BY DEF TypeOK, Height
<1>2. Top(current) \in Frame /\ Top(current) = stack[current][Height]
  BY <1>1 DEF Top
<1>3. [Top(current) EXCEPT !.pc = p] = [pc |-> p, ret |-> Top(current).ret]
  BY <1>2 DEF Frame
<1>4. [pc |-> p, ret |-> Top(current).ret] \in Frame
  BY <1>2 DEF Frame
<1>5. stack' = [stack EXCEPT ![current][Height] = [stack[current][Height] EXCEPT !.pc = p]]
  BY <1>1 DEF GoTo
<1> QED BY <1>2, <1>3, <1>4, <1>5, ReplacesTop

\* The frames may take any form that their place on the stack allows.
Fits(f) ==
  IF Height = 1
    THEN /\ f.pc # "eoi" /\ f.ret # "eoi"
         /\ f.ret = "gone" => /\ current \in Terminating
                              /\ f.pc \in {"yield", "switch", "switched"}
    ELSE f.ret = "eoi" /\ f.pc \notin {"start", "burst"}

LEMMA ShapeKept ==
  ASSUME TypeOK, \A t \in Threads : StackShape(t), NEW f \in Frame, TopBecomes(f), Fits(f)
  PROVE  \A t \in Threads : StackShape(t)'
<1> SUFFICES ASSUME NEW t \in Threads PROVE StackShape(t)'
  OBVIOUS
<1>1. StackShape(t) /\ StackShape(current) /\ Height \in 1..(MaxNest + 1) /\ MaxNest \in Nat
  BY SchedulerAssumption DEF TypeOK, StackShape, Height
<1>2. CASE t # current
  <2>1. stack'[t] = stack[t]
    BY <1>2 DEF TopBecomes
  <2> QED BY <1>1, <2>1 DEF StackShape
<1>3. CASE t = current
  <2>1. Len(stack'[t]) = Height /\ Len(stack[t]) = Height
    BY <1>3 DEF TopBecomes, Height
  <2>2. \A i \in 1..Height : stack'[t][i] = IF i = Height THEN f ELSE stack[t][i]
    BY <1>3 DEF TopBecomes
  <2>3. CASE Height = 1
    BY <1>1, <1>3, <2>1, <2>2, <2>3 DEF StackShape, Fits
  <2>4. CASE Height > 1
    <3>1. stack'[t][1] = stack[t][1] /\ stack'[t][Height] = f
      BY <1>1, <2>2, <2>4
    <3>2. \A i \in 2..(Height - 1) : stack'[t][i] = stack[t][i]
      BY <1>1, <2>2
    <3>3. \A i \in 2..Height : stack'[t][i].ret = "eoi" /\ stack'[t][i].pc \notin {"start", "burst"}
      BY <1>1, <1>3, <2>1, <2>2, <2>4 DEF StackShape, Fits
    <3>4. \A i \in 1..(Height - 1) : stack'[t][i].pc \notin {"start", "switched"}
      BY <1>1, <1>3, <2>1, <2>2 DEF StackShape
    <3> QED BY <1>1, <1>3, <2>1, <3>1, <3>3, <3>4 DEF StackShape
  <2> QED BY <1>1, <2>3, <2>4
<1> QED BY <1>2, <1>3

\* So the running thread is counted for its top frame or not, as f says.
LEMMA WaitingMoved ==
  ASSUME TypeOK, \A t \in Threads : StackShape(t), NEW f \in Frame, TopBecomes(f),
         current' = current, f.pc \notin SwitchedOut
  PROVE  /\ \A t \in Threads \ {current} : Waiting(t)' = Waiting(t)
         /\ Waiting(current)' = (Waiting(current) \ {Height})
                                  \union (IF Asks(f) THEN {Height} ELSE {})
         /\ Height \in Waiting(current) <=> Asks(Top(current))
<1>1. Height \in Nat \ {0} /\ Height = Len(stack[current]) /\ current \in Threads
  BY SchedulerAssumption DEF TypeOK, StackShape, Height
<1>2. ASSUME NEW t \in Threads \ {current} PROVE Waiting(t)' = Waiting(t)
  BY <1>2 DEF TopBecomes, Waiting
<1>3. /\ Len(stack'[current]) = Height
      /\ \A i \in 1..Height : stack'[current][i] = IF i = Height THEN f ELSE stack[current][i]
  BY <1>1 DEF TopBecomes
<1>4. \A i \in 1..Height : i \in Waiting(current)' <=>
         IF i = Height THEN Asks(f) ELSE i \in Waiting(current)
  BY <1>1, <1>3 DEF Waiting, Asks, SwitchedOut
<1>5. Waiting(current)' \subseteq 1..Height /\ Waiting(current) \subseteq 1..Height
  BY <1>1, <1>3 DEF Waiting
<1>6. Waiting(current)' = (Waiting(current) \ {Height})
                            \union (IF Asks(f) THEN {Height} ELSE {})
  BY <1>1, <1>4, <1>5
<1>7. Height \in Waiting(current) <=> Asks(Top(current))
  BY <1>1 DEF Waiting, Asks, Top
<1> QED BY <1>2, <1>6, <1>7

LEMMA TopAfter ==
  ASSUME TypeOK, NEW f \in Frame, TopBecomes(f), Height \in Nat \ {0}
  PROVE  stack'[current][Len(stack'[current])] = f /\ (current' = current => Top(current)' = f)
<1>1. Len(stack'[current]) = Height /\ Height \in 1..Height
  BY DEF TypeOK, TopBecomes, Height
<1>2. stack'[current][Height] = f
  BY <1>1 DEF TopBecomes
<1> QED BY <1>1, <1>2 DEF Top

\* Nobody but the running thread can have terminated in the step.
LEMMA TerminatedKept ==
  ASSUME TypeOK, \A t \in Threads : StackShape(t), NEW f \in Frame, TopBecomes(f)
  PROVE  /\ \A t \in Threads \ {current} : Terminated(t)' = Terminated(t)
         /\ current' = current =>
              Terminated(current)' = IF Height = 1 THEN f.pc = "switched" /\ f.ret = "gone"
                                                     ELSE Terminated(current)
<1>1. Height \in Nat \ {0} /\ Height = Len(stack[current]) /\ current \in Threads
  BY SchedulerAssumption DEF TypeOK, StackShape, Height
<1>2. stack'[current][1] = IF Height = 1 THEN f ELSE stack[current][1]
  <2>1. 1 \in 1..Height
    BY <1>1
  <2> QED BY <2>1 DEF TopBecomes
<1>3. \A t \in Threads \ {current} : stack'[t] = stack[t]
  BY DEF TopBecomes
<1>4. \A t \in Threads \ {current} : Terminated(t)' = Terminated(t)
  BY <1>3 DEF Terminated
<1>5. ASSUME current' = current
      PROVE  Terminated(current)' = IF Height = 1 THEN f.pc = "switched" /\ f.ret = "gone"
                                                  ELSE Terminated(current)
  BY <1>2, <1>5 DEF Terminated
<1> QED BY <1>4, <1>5

\* A step of the running thread that neither switches nor changes whether its
\* top frame asks for the CPU.
LEMMA QuietMove ==
  ASSUME GoesOn, NEW f \in Frame, TopBecomes(f), Fits(f), f.pc \notin SwitchedOut,
         Asks(f) <=> Asks(Top(current)),
         UNCHANGED <<current, queue, killed>>, status' = "running",
         interrupts' \in BOOLEAN, ticks' \in Nat
  PROVE  GoesOn'
<1>1. TypeOK /\ (\A t \in Threads : StackShape(t)) /\ current \in Threads
  BY DEF GoesOn, IInv, TypeOK
<1>2. TypeOK'
  BY <1>1 DEF TypeOK, TopBecomes
<1>3. \A t \in Threads : StackShape(t)'
  BY <1>1, ShapeKept
<1>4. \A t \in Threads \ {current} : Terminated(t)' = Terminated(t)
  BY <1>1, TerminatedKept
<1>5. ~Terminated(current) /\ ~Terminated(current)'
  BY <1>1, TerminatedKept DEF GoesOn, IInv, SwitchedOut
<1>6. Height \in Nat \ {0} /\ Height = Len(stack[current])
  BY <1>1, SchedulerAssumption DEF TypeOK, StackShape, Height
<1>7. SwitchPoints'
  <2>1. \A t \in Threads \ {current} : Top(t)' = Top(t)
    BY DEF TopBecomes, Top
  <2>2. Top(current)' = f
    BY <1>1, <1>6, TopAfter
  <2> QED BY <2>1, <2>2 DEF GoesOn, IInv, SwitchPoints
<1>8. ASSUME NEW t \in Threads PROVE Waiting(t)' = Waiting(t)
  <2>1. /\ \A u \in Threads \ {current} : Waiting(u)' = Waiting(u)
        /\ Waiting(current)' = (Waiting(current) \ {Height})
                                 \union (IF Asks(f) THEN {Height} ELSE {})
        /\ Height \in Waiting(current) <=> Asks(f)
    BY <1>1, WaitingMoved
  <2> QED BY <2>1
<1>9. EntriesCounted'
  <2> SUFFICES ASSUME NEW t \in Threads
               PROVE  (Entries(t) = Cardinality(Waiting(t)) - Debt(t))'
    BY DEF EntriesCounted
  <2>1. Entries(t)' = Entries(t)
    BY DEF Entries
  <2>2. Debt(t)' = Debt(t)
    BY <1>4, <1>5 DEF Debt
  <2> QED BY <2>1, <2>2, <1>8 DEF GoesOn, IInv, EntriesCounted
<1> QED BY <1>2, <1>3, <1>5, <1>7, <1>9 DEF GoesOn, IInv

----------------------------------------------------------------------------
LEMMA OneOrMore == \A n \in Nat \ {0} : n = 1 \/ n \in 2..n
OBVIOUS

LEMMA OneOrBelow == \A n \in Nat \ {0} : n = 1 \/ 1 \in 1..(n - 1)
OBVIOUS

\* What is known of the running thread's innermost frame.
LEMMA RunningTop ==
  ASSUME GoesOn
  PROVE  /\ current \in Threads
         /\ Height \in Nat \ {0} /\ Height <= MaxNest + 1 /\ Height = Len(stack[current])
         /\ Top(current) = stack[current][Height] /\ Top(current) \in Frame
         /\ Fits(Top(current))
         /\ Top(current).ret = "gone" => /\ Height = 1 /\ current \in Terminating
                                         /\ Top(current).pc \in {"yield", "switch"}
<1>1. /\ current \in Threads /\ stack[current] \in Seq(Frame) /\ StackShape(current)
      /\ Height = Len(stack[current]) /\ MaxNest \in Nat
  BY SchedulerAssumption DEF GoesOn, IInv, TypeOK, Height
<1>2. Height \in Nat \ {0} /\ Height <= MaxNest + 1 /\ Height \in 1..Len(stack[current])
  BY <1>1 DEF StackShape
<1>3. Top(current) = stack[current][Height] /\ Top(current) \in Frame
  BY <1>1, <1>2 DEF Top
<1>4. Fits(Top(current))
  <2>1. Height = 1 \/ Height \in 2..Height
    BY <1>2, OneOrMore
  <2> QED BY <1>1, <1>2, <1>3, <2>1 DEF StackShape, Fits
<1>5. ASSUME Top(current).ret = "gone"
      PROVE  /\ Height = 1 /\ current \in Terminating
             /\ Top(current).pc \in {"yield", "switch"}
  <2>1. Height = 1
    BY <1>4, <1>5 DEF Fits
  <2>2. ~Terminated(current)
    BY DEF GoesOn, IInv
  <2>3. current \in Terminating /\ Top(current).pc \in {"yield", "switch", "switched"}
    BY <1>4, <1>5, <2>1 DEF Fits
  <2> QED BY <1>3, <1>5, <2>1, <2>2, <2>3 DEF Terminated
<1> QED BY <1>1, <1>2, <1>3, <1>4, <1>5

\* The steps that only go on to another place.
LEMMA QuietGoTo ==
  ASSUME GoesOn, NEW p \in Places, stack' = GoTo(p), p \notin SwitchedOut,
         Height = 1 => p # "eoi",
         Height # 1 => p # "burst",
         Top(current).ret = "gone" => p \in {"yield", "switch"},
         p \in {"yield", "switch"} <=> Top(current).pc \in {"yield", "switch"},
         UNCHANGED <<current, queue, killed>>, status' = "running",
         interrupts' \in BOOLEAN, ticks' \in Nat
  PROVE  GoesOn'
<1> DEFINE f == [pc |-> p, ret |-> Top(current).ret]
<1>1. TypeOK /\ Height \in Nat \ {0}
  BY RunningTop DEF GoesOn, IInv
<1>2. f \in Frame /\ TopBecomes(f)
  BY <1>1, GoToReplacesTop
<1>3. f.pc = p /\ f.ret = Top(current).ret
  OBVIOUS
<1> HIDE DEF f
<1>4. Fits(f)
  BY <1>3, RunningTop DEF Fits, SwitchedOut
<1>5. Asks(f) <=> Asks(Top(current))
  BY <1>3 DEF Asks
<1> QED BY <1>2, <1>3, <1>4, <1>5, QuietMove

LEMMA KeepsThreadStart == GoesOn /\ thread_start => GoesOn'
<1> SUFFICES ASSUME GoesOn, thread_start PROVE GoesOn'
  OBVIOUS
<1>1. Top(current).pc = "start" /\ stack' = GoTo("burst")
  BY DEF thread_start, At
<1>2. Height = 1 /\ Top(current).ret # "gone"
  BY <1>1, RunningTop DEF Fits
<1>3. UNCHANGED <<current, queue, ticks, killed, status>> /\ interrupts' = TRUE
  BY DEF thread_start
<1> QED BY <1>1, <1>2, <1>3, QuietGoTo DEF Places, SwitchedOut, GoesOn, IInv, TypeOK

LEMMA KeepsPassOn == GoesOn /\ pass_on_CPU => GoesOn'
<1> SUFFICES ASSUME GoesOn, pass_on_CPU PROVE GoesOn'
  OBVIOUS
<1>1. Top(current).pc = "burst" /\ stack' = GoTo("resume")
  BY DEF pass_on_CPU, At
<1>2. Top(current).ret # "gone"
  BY <1>1, RunningTop
<1>3. UNCHANGED <<current, queue, interrupts, ticks, killed, status>>
  BY DEF pass_on_CPU
<1> QED BY <1>1, <1>2, <1>3, QuietGoTo DEF Places, SwitchedOut, GoesOn, IInv, TypeOK

LEMMA KeepsShutdown == GoesOn /\ thread_shutdown => GoesOn'
<1> SUFFICES ASSUME GoesOn, thread_shutdown PROVE GoesOn'
  OBVIOUS
<1> DEFINE f == [pc |-> "yield", ret |-> "gone"]
<1>1. /\ Top(current).pc = "burst" /\ current \in Terminating
      /\ stack' = [stack EXCEPT ![current][Height] = f]
  BY DEF thread_shutdown, At, Height
<1>2. f \in Frame /\ f.pc \notin SwitchedOut /\ ~Asks(f) /\ ~Asks(Top(current))
  BY <1>1 DEF Frame, Places, SwitchedOut, Asks
<1>3. Height = 1 /\ Fits(f)
  BY <1>1, RunningTop DEF Fits
<1>4. UNCHANGED <<current, queue, interrupts, ticks, killed, status>>
  BY DEF thread_shutdown
<1>5. TopBecomes(f)
  BY <1>1, <1>2, RunningTop, ReplacesTop DEF GoesOn, IInv
<1> QED BY <1>2, <1>3, <1>4, <1>5, QuietMove DEF GoesOn, IInv, TypeOK

\* A thread that was switched in goes on where it called yield.
LEMMA KeepsSwitchedIn == GoesOn /\ SwitchedIn => GoesOn'
<1> SUFFICES ASSUME GoesOn, SwitchedIn PROVE GoesOn'
  OBVIOUS
<1>1. Top(current).pc = "switched" /\ stack' = GoTo(Top(current).ret)
  BY DEF SwitchedIn, At
<1>2. Top(current).ret \in {"burst", "eoi"}
  BY <1>1, RunningTop DEF Frame
<1>3. Height = 1 => Top(current).ret # "eoi"
  BY RunningTop DEF Fits
<1>4. Height # 1 => Top(current).ret # "burst"
  BY RunningTop DEF Fits
<1>5. ~interrupts
  BY <1>1 DEF GoesOn, IInv, SwitchPoints, SwitchedOut
<1>6. status' = "running" /\ interrupts' = TRUE /\ UNCHANGED <<current, queue, ticks, killed>>
  BY <1>2, <1>5 DEF SwitchedIn, Sti
<1> QED BY <1>1, <1>2, <1>3, <1>4, <1>6, QuietGoTo DEF Places, SwitchedOut, GoesOn, IInv, TypeOK

----------------------------------------------------------------------------
\* A thread that does not run is counted for its top frame, unless it has left.
LEMMA WaitsWhenOut ==
  ASSUME TypeOK, SwitchPoints, NEW t \in Threads, StackShape(t), t # current, ~Terminated(t)
  PROVE  Waiting(t) # {}
<1> DEFINE n == Len(stack[t])
<1>1. stack[t][n].pc \in SwitchedOut
  BY DEF SwitchPoints, Top
<1>2. n \in 1..n /\ n \in Nat \ {0}
  BY DEF StackShape
<1>3. n = 1 \/ n \in 2..n
  BY <1>2, OneOrMore
<1>4. stack[t][n].pc = "start" \/ stack[t][n].ret # "gone"
  BY <1>1, <1>3 DEF StackShape, Terminated, SwitchedOut
<1>5. n \in Waiting(t)
  BY <1>1, <1>2, <1>4 DEF Waiting, SwitchedOut
<1> QED BY <1>5

\* While another thread can take the CPU there is an entry for it: the running
\* thread's own, or else that of the thread that runs for ever.
LEMMA SomebodyWaits ==
  ASSUME GoesOn, Top(current).pc \in {"yield", "switch"}
  PROVE  queue # <<>>
<1>1. TypeOK /\ current \in Threads
  BY DEF GoesOn, IInv, TypeOK
<1>2. \A t \in Threads \ killed : Entries(t) = Cardinality(Waiting(t))
  <2> SUFFICES ASSUME NEW t \in Threads \ killed
               PROVE  Entries(t) = Cardinality(Waiting(t))
    OBVIOUS
  <2>1. Debt(t) = 0
    BY DEF Debt
  <2>2. Entries(t) = Cardinality(Waiting(t)) - 0
    BY <2>1 DEF GoesOn, IInv, EntriesCounted
  <2> QED BY <1>1, <2>2, WaitingFinite
<1>3. \A t \in Threads \ killed : Waiting(t) # {} => queue # <<>>
  <2> SUFFICES ASSUME NEW t \in Threads \ killed, Waiting(t) # {}
               PROVE  queue # <<>>
    OBVIOUS
  <2>1. Count(queue, t) > 0
    <3>1. t \in Threads /\ Entries(t) = Cardinality(Waiting(t))
      BY <1>2
    <3>2. Cardinality(Waiting(t)) \in Nat /\ Cardinality(Waiting(t)) # 0
      BY <1>1, <3>1, WaitingFinite
    <3>3. Count(queue, t) = Entries(t)
      BY <1>1, <3>1, WaitingFinite
    <3> QED BY <3>1, <3>2, <3>3
  <2>2. queue \in Seq(Threads) /\ \E i \in 1..Len(queue) : queue[i] = t
    BY <1>1, <2>1, CountType DEF TypeOK
  <2> QED BY <2>2
<1>4. CASE current \notin killed /\ Top(current).ret # "gone"
  <2>1. Height \in Waiting(current)
    BY <1>4, RunningTop DEF Waiting
  <2> QED BY <1>1, <1>3, <1>4, <2>1
<1>5. CASE current \in killed \/ Top(current).ret = "gone"
  <2>1. PICK s \in Threads : s \notin Terminating /\ s \notin Killable
    BY SteadyAssumption
  <2>2. s # current /\ s \notin killed
    BY <1>1, <1>5, <2>1, RunningTop DEF TypeOK
  <2>3. StackShape(s) /\ ~Terminated(s)
    BY <2>1 DEF GoesOn, IInv, StackShape, Terminated
  <2>4. Waiting(s) # {}
    BY <1>1, <2>2, <2>3, WaitsWhenOut DEF GoesOn, IInv
  <2> QED BY <1>3, <2>2, <2>4
<1> QED BY <1>4, <1>5

\* main() creates finitely many threads.
LEMMA ThreadsFinite == IsFiniteSet(Threads)
<1>1. Len(Order) \in Nat /\ Order \in [1..Len(Order) -> Threads]
  BY SchedulerAssumption
<1>2. Order \in Surjection(1..Len(Order), Threads)
  BY <1>1, SchedulerAssumption DEF Surjection
<1>3. IsFiniteSet(1..Len(Order))
  BY <1>1, FS_Interval
<1> QED BY <1>2, <1>3, FS_Surjection

\* With one entry per frame, and the frame that is about to put its thread into
\* the queue not counted yet, there is room for it.
LEMMA RoomToResume ==
  ASSUME GoesOn, Top(current).pc = "resume"
  PROVE  Len(queue) < Capacity
<1> DEFINE D == MaxNest + 1
           Cells == Threads \X (1..D)
           Others == Cells \ {<<current, D>>}
           f == [i \in 1..Len(queue) |-> <<queue[i], Rank(queue, i)>>]
<1>1. TypeOK /\ current \in Threads /\ queue \in Seq(Threads) /\ Len(queue) \in Nat
  BY DEF GoesOn, IInv, TypeOK
<1>2. ASSUME NEW t \in Threads
      PROVE  Entries(t) \in Nat /\ Entries(t) <= D /\ (t = current => Entries(t) <= MaxNest)
  <2>1. Len(stack[t]) \in 1..D /\ D \in Nat /\ MaxNest \in Nat
    BY SchedulerAssumption DEF GoesOn, IInv, StackShape
  <2>2. /\ Waiting(t) \in SUBSET (1..Len(stack[t])) /\ Cardinality(Waiting(t)) \in Nat
        /\ Entries(t) \in Nat
    BY <1>1, WaitingFinite
  <2>3. Entries(t) <= Cardinality(Waiting(t))
    <3>1. Entries(t) = Cardinality(Waiting(t)) - Debt(t)
      BY DEF GoesOn, IInv, EntriesCounted
    <3>2. Debt(t) \in {0, 1}
      BY DEF Debt
    <3> QED BY <2>2, <3>1, <3>2
  <2>4. IsFiniteSet(1..Len(stack[t])) /\ Cardinality(1..Len(stack[t])) = Len(stack[t])
    BY <2>1, FS_Interval
  <2>5. Cardinality(Waiting(t)) <= Len(stack[t])
    BY <2>2, <2>4, FS_Subset
  <2>6. t = current => Cardinality(Waiting(t)) # Len(stack[t])
    <3> SUFFICES ASSUME t = current PROVE Waiting(t) # 1..Len(stack[t])
      BY <2>2, <2>4, FS_Subset
    <3>1. Len(stack[t]) \in 1..Len(stack[t])
      BY <2>1
    <3>2. Len(stack[t]) \notin Waiting(t)
      BY DEF Waiting, Top
    <3> QED BY <3>1, <3>2
  <2> QED BY <2>1, <2>2, <2>3, <2>5, <2>6
<1>3. D \in Nat \ {0} /\ D - 1 = MaxNest /\ MaxNest \in Nat
  BY SchedulerAssumption
<1>4. ASSUME NEW i \in 1..Len(queue) PROVE <<queue[i], Rank(queue, i)>> \in Others
  <2>1. queue[i] \in Threads /\ Rank(queue, i) \in 1..Entries(queue[i])
    BY <1>1, RankInCount, WaitingFinite
  <2> HIDE DEF D
  <2>2. Rank(queue, i) \in 1..D /\ (queue[i] = current => Rank(queue, i) # D)
    BY <1>2, <1>3, <2>1
  <2> QED BY <2>1, <2>2
<1>5. f \in [1..Len(queue) -> Others]
  BY <1>4
<1>6. ASSUME NEW i \in 1..Len(queue), NEW k \in 1..Len(queue), f[i] = f[k] PROVE i = k
  <2>1. queue[i] = queue[k] /\ Rank(queue, i) = Rank(queue, k)
    BY <1>6
  <2>2. Rank(queue, i) \in Int
    BY <1>1, RankInCount
  <2>3. ~(i < k) /\ ~(k < i)
    BY <1>1, <2>1, <2>2, RankIncreases
  <2> QED BY <1>1, <2>3
<1>7. f \in Injection(1..Len(queue), Others)
  BY <1>5, <1>6 DEF Injection, IsInjective
<1> HIDE DEF f
<1>8. IsFiniteSet(Cells) /\ Cardinality(Cells) = Cardinality(Threads) * D
  <2>1. IsFiniteSet(1..D) /\ Cardinality(1..D) = D
    BY <1>3, FS_Interval
  <2> QED BY <2>1, ThreadsFinite, FS_Product
<1>9. <<current, D>> \in Cells
  BY <1>1, <1>3
<1> HIDE DEF Cells
<1>10. IsFiniteSet(Others) /\ Cardinality(Others) = Cardinality(Cells) - 1
  BY <1>8, <1>9, FS_RemoveElement
<1>11. Cardinality(1..Len(queue)) <= Cardinality(Others)
  BY <1>7, <1>10, FS_Injection
<1>12. Cardinality(1..Len(queue)) = Len(queue)
  <2>1. Len(queue) \in Nat
    BY <1>1
  <2>2. Cardinality(1..Len(queue)) = IF 1 > Len(queue) THEN 0 ELSE Len(queue) - 1 + 1
    BY <2>1, FS_Interval
  <2> QED BY ONLY <2>1, <2>2
<1>13. Cardinality(Cells) \in Nat /\ Cardinality(Cells) <= Capacity /\ Capacity \in Nat
  BY <1>8, FS_CardinalityType, CapacityAssumption, SchedulerAssumption
<1> QED BY <1>1, <1>10, <1>11, <1>12, <1>13

LEMMA KeepsResumeAsserts == GoesOn /\ ResumeAsserts => GoesOn'
<1> SUFFICES ASSUME GoesOn, ResumeAsserts PROVE GoesOn'
  OBVIOUS
<1>1. Top(current).pc = "resume"
  BY DEF ResumeAsserts, At
<1>2. Top(current).ret # "gone"
  BY <1>1, RunningTop
<1>3. stack' = GoTo("enqueue") /\ UNCHANGED <<current, queue, interrupts, ticks, killed, status>>
  BY <1>1, RoomToResume DEF ResumeAsserts
<1> QED BY <1>1, <1>2, <1>3, QuietGoTo DEF Places, SwitchedOut, GoesOn, IInv, TypeOK

LEMMA KeepsYieldAsserts == GoesOn /\ YieldAsserts => GoesOn'
<1> SUFFICES ASSUME GoesOn, YieldAsserts PROVE GoesOn'
  OBVIOUS
<1>1. Top(current).pc = "yield"
  BY DEF YieldAsserts, At
<1>2. stack' = GoTo("switch") /\ UNCHANGED <<current, queue, interrupts, ticks, killed, status>>
  BY <1>1, SomebodyWaits DEF YieldAsserts
<1> QED BY <1>1, <1>2, QuietGoTo DEF Places, SwitchedOut, GoesOn, IInv, TypeOK

\* resume enters the thread once, for its top frame.
LEMMA KeepsResumeEnqueues == GoesOn /\ ResumeEnqueues => GoesOn'
<1> SUFFICES ASSUME GoesOn, ResumeEnqueues PROVE GoesOn'
  OBVIOUS
<1> DEFINE f == [pc |-> "yield", ret |-> Top(current).ret]
<1>1. /\ Top(current).pc = "enqueue" /\ stack' = GoTo("yield")
      /\ queue' = Append(queue, current) /\ interrupts' = TRUE
      /\ UNCHANGED <<current, ticks, killed, status>>
  BY DEF ResumeEnqueues, At
<1>2. /\ TypeOK /\ (\A t \in Threads : StackShape(t)) /\ status = "running"
      /\ current \in Threads /\ queue \in Seq(Threads)
  BY DEF GoesOn, IInv, TypeOK
<1>3. Height \in Nat \ {0} /\ Height = Len(stack[current])
  BY RunningTop
<1>4. f \in Frame /\ TopBecomes(f)
  BY <1>1, <1>2, <1>3, GoToReplacesTop DEF Places
<1>5. f.pc = "yield" /\ f.ret = Top(current).ret /\ f.ret # "gone"
  BY <1>1, RunningTop
<1> HIDE DEF f
<1>6. Fits(f)
  BY <1>5, RunningTop DEF Fits
<1>7. TypeOK'
  BY <1>1, <1>2, <1>4 DEF TypeOK, TopBecomes
<1>8. \A t \in Threads : StackShape(t)'
  BY <1>2, <1>4, <1>6, ShapeKept
<1>9. /\ \A t \in Threads \ {current} : Terminated(t)' = Terminated(t)
      /\ ~Terminated(current) /\ ~Terminated(current)'
  BY <1>1, <1>2, <1>4, <1>5, TerminatedKept DEF GoesOn, IInv
<1>10. SwitchPoints'
  <2>1. \A t \in Threads \ {current} : Top(t)' = Top(t)
    BY <1>4 DEF TopBecomes, Top
  <2>2. Top(current)' = f
    BY <1>1, <1>2, <1>3, <1>4, TopAfter
  <2> QED BY <1>1, <1>5, <2>1, <2>2 DEF GoesOn, IInv, SwitchPoints, SwitchedOut
<1>11. EntriesCounted'
  <2> SUFFICES ASSUME NEW t \in Threads
               PROVE  (Entries(t) = Cardinality(Waiting(t)) - Debt(t))'
    BY DEF EntriesCounted
  <2>1. Entries(t)' = Entries(t) + (IF t = current THEN 1 ELSE 0)
    BY <1>1, <1>2, CountAppended DEF Entries, Count
  <2>2. Debt(t)' = Debt(t) /\ Debt(t) \in {0, 1}
    BY <1>1, <1>9 DEF Debt
  <2>3. /\ t # current => Waiting(t)' = Waiting(t)
        /\ Waiting(current)' = Waiting(current) \union {Height}
        /\ Height \notin Waiting(current)
    <3>1. Asks(f) /\ ~Asks(Top(current)) /\ f.pc \notin SwitchedOut
      BY <1>1, <1>5 DEF Asks, SwitchedOut
    <3>2. /\ t # current => Waiting(t)' = Waiting(t)
          /\ Waiting(current)' = (Waiting(current) \ {Height})
                                   \union (IF Asks(f) THEN {Height} ELSE {})
          /\ Height \in Waiting(current) <=> Asks(Top(current))
      BY <1>1, <1>2, <1>4, <3>1, WaitingMoved
    <3> QED BY <3>1, <3>2
  <2>4. Cardinality(Waiting(t))' = Cardinality(Waiting(t)) + (IF t = current THEN 1 ELSE 0)
    <3>1. IsFiniteSet(Waiting(current)) /\ Cardinality(Waiting(current)) \in Nat
      BY <1>2, WaitingFinite
    <3>2. Cardinality(Waiting(current) \union {Height}) = Cardinality(Waiting(current)) + 1
      BY <2>3, <3>1, FS_AddElement
    <3>3. Cardinality(Waiting(t)) \in Nat
      BY <1>2, WaitingFinite
    <3>4. CASE t = current
      BY <1>1, <2>3, <3>2, <3>4
    <3>5. CASE t # current
      BY <2>3, <3>3, <3>5
    <3> QED BY <3>4, <3>5
  <2>5. Entries(t) = Cardinality(Waiting(t)) - Debt(t)
    BY DEF GoesOn, IInv, EntriesCounted
  <2>6. Entries(t) \in Nat /\ Cardinality(Waiting(t)) \in Nat
    BY <1>2, WaitingFinite
  <2> QED BY <2>1, <2>2, <2>4, <2>5, <2>6
<1> QED BY <1>1, <1>2, <1>7, <1>8, <1>9, <1>10, <1>11 DEF GoesOn, IInv

\* The thread that is switched in gives up one entry and is no longer counted
\* for its top frame; the one that is switched out is counted as before.
LEMMA KeepsSwitchTo == GoesOn /\ SwitchTo => GoesOn'
<1> SUFFICES ASSUME GoesOn, SwitchTo PROVE GoesOn'
  OBVIOUS
<1> DEFINE f == [pc |-> "switched", ret |-> Top(current).ret]
<1>1. Top(current).pc = "switch" /\ queue # <<>>
  BY SomebodyWaits DEF SwitchTo, At
<1>h. PICK h \in Threads : h = Head(queue)
  BY <1>1 DEF GoesOn, IInv, TypeOK
<1>2. /\ stack' = GoTo("switched") /\ current' = h /\ queue' = Tail(queue)
      /\ ticks' = 0 /\ interrupts' = FALSE /\ status' = status /\ killed' = killed
  BY <1>1, <1>h DEF SwitchTo
<1>3. /\ TypeOK /\ (\A t \in Threads : StackShape(t)) /\ status = "running"
      /\ current \in Threads /\ queue \in Seq(Threads)
  BY DEF GoesOn, IInv, TypeOK
<1>4. Height \in Nat \ {0} /\ Height = Len(stack[current])
  BY RunningTop
<1>5. f \in Frame /\ TopBecomes(f)
  BY <1>2, <1>3, <1>4, GoToReplacesTop DEF Places
<1>6. f.pc = "switched" /\ f.ret = Top(current).ret
  BY <1>1, RunningTop
<1> HIDE DEF f
<1>7. Fits(f)
  BY <1>6, RunningTop DEF Fits
<1>8. /\ h \in Threads /\ Tail(queue) \in Seq(Threads) /\ h = queue[1]
      /\ 1 \in 1..Len(queue) /\ Without(queue, 1, Tail(queue))
  BY <1>1, <1>3, <1>h, TailWithoutHead
<1>9. TypeOK'
  BY <1>2, <1>3, <1>5, <1>8 DEF TypeOK, TopBecomes
<1>10. \A t \in Threads : StackShape(t)'
  BY <1>3, <1>5, <1>7, ShapeKept
<1>11. \A t \in Threads : t # current => Terminated(t)' = Terminated(t)
  BY <1>3, <1>5, TerminatedKept
<1>12. stack'[current][Len(stack'[current])] = f
  BY <1>3, <1>4, <1>5, TopAfter
<1>13. SwitchPoints'
  <2>1. \A t \in Threads \ {current} : stack'[t] = stack[t]
    BY <1>5 DEF TopBecomes
  <2>2. \A t \in Threads : stack'[t][Len(stack'[t])].pc \in SwitchedOut
    BY <1>6, <1>12, <2>1 DEF GoesOn, IInv, SwitchPoints, Top, SwitchedOut
  <2> QED BY <1>2, <1>8, <2>2 DEF SwitchPoints, Top
<1>n. PICK n \in Nat : n = Len(stack[h])
  BY <1>3, <1>8 DEF TypeOK
<1>14. /\ n \in 1..n /\ n \in Nat \ {0} /\ n = Len(stack[h]) /\ n = Len(stack'[h])
       /\ (h = current => n = Height)
  BY <1>3, <1>4, <1>5, <1>8, <1>n DEF StackShape, TopBecomes
\* Whoever is in the queue and does not run has its top frame counted.
<1>15. Waiting(h) # {}
  <2>1. Count(queue, h) > 0 /\ Count(queue, h) = Entries(h)
    BY <1>3, <1>8, CountType, WaitingFinite
  <2>2. Entries(h) = Cardinality(Waiting(h)) - Debt(h) /\ Debt(h) \in {0, 1}
    BY <1>8 DEF GoesOn, IInv, EntriesCounted, Debt
  <2>3. Cardinality(Waiting(h)) \in Nat /\ Cardinality(Waiting(h)) # 0
    BY <1>3, <1>8, <2>1, <2>2, WaitingFinite
  <2> QED BY <1>3, <1>8, <2>3, WaitingFinite
<1>16. n = 1 => stack[h][1].ret # "gone"
  BY <1>3, <1>8, <1>14, <1>15 DEF Waiting, StackShape
<1>17. n \in Waiting(h)
  <2>1. stack[h][n].ret # "gone"
    <3>1. n = 1 \/ n \in 2..n
      BY <1>14, OneOrMore
    <3> QED BY <1>3, <1>8, <1>14, <1>16, <3>1 DEF StackShape
  <2>2. CASE h # current
    <3>1. stack[h][n].pc \in SwitchedOut
      BY <1>8, <1>14, <2>2 DEF GoesOn, IInv, SwitchPoints, Top
    <3> QED BY <1>14, <2>1, <2>2, <3>1 DEF Waiting, SwitchedOut
  <2>3. CASE h = current
    BY <1>1, <1>14, <2>1, <2>3 DEF Waiting, Top
  <2> QED BY <2>2, <2>3
<1>18. ~Terminated(h)'
  <2>1. CASE n = 1
    <3>1. stack'[h][1].ret = stack[h][1].ret
      BY <1>4, <1>5, <1>6, <1>8, <1>14, <2>1 DEF TopBecomes, Top
    <3> QED BY <1>16, <2>1, <3>1 DEF Terminated
  <2>2. CASE n # 1
    <3>1. 1 \in 1..(n - 1)
      <4>1. n = 1 \/ n \in 2..n
        BY <1>14, OneOrMore
      <4>2. n >= 2 /\ n \in Nat
        BY <2>2, <4>1
      <4> QED BY <4>2
    <3>2. StackShape(h)'
      BY <1>8, <1>10
    <3> QED BY <1>14, <3>1, <3>2 DEF StackShape, Terminated
  <2> QED BY <2>1, <2>2
<1>19. ASSUME NEW t \in Threads
       PROVE  Waiting(t)' = Waiting(t) \ (IF t = h THEN {n} ELSE {})
  <2>1. CASE t # current
    <3>1. stack'[t] = stack[t]
      BY <1>5, <2>1 DEF TopBecomes
    <3>2. t = h => stack[t][n].pc \in SwitchedOut
      BY <1>14, <2>1 DEF GoesOn, IInv, SwitchPoints, Top
    <3> QED BY <1>2, <1>14, <2>1, <3>1, <3>2 DEF Waiting, SwitchedOut
  <2>2. CASE t = current
    <3>1. /\ Len(stack'[t]) = Height /\ Len(stack[t]) = Height
          /\ \A i \in 1..Height : stack'[t][i] = IF i = Height THEN f ELSE stack[t][i]
      BY <1>4, <1>5, <2>2 DEF TopBecomes
    <3>2. stack[t][Height].pc = "switch" /\ stack[t][Height].ret = f.ret
      BY <1>1, <1>4, <1>6, <2>2 DEF Top
    <3>3. \A i \in 1..Height : i \in Waiting(t)' <=> i \in Waiting(t) /\ ~(t = h /\ i = n)
      BY <1>2, <1>6, <1>14, <2>2, <3>1, <3>2 DEF Waiting
    <3>4. Waiting(t)' \subseteq 1..Height /\ Waiting(t) \subseteq 1..Height
      BY <3>1 DEF Waiting
    <3> QED BY <3>3, <3>4
  <2> QED BY <2>1, <2>2
\* A thread that was killed cannot end in this way: it waits for one entry more
\* than it has.
<1>20. ASSUME NEW t \in Threads PROVE Debt(t)' = Debt(t)
  <2>1. CASE t # current
    BY <1>2, <1>11, <2>1 DEF Debt
  <2>2. CASE t = current /\ Top(current).ret = "gone"
    <3>1. Height = 1 /\ Top(current) = stack[current][1]
      BY <2>2, RunningTop
    <3>2. Waiting(t) = {}
      BY <1>1, <1>4, <2>2, <3>1 DEF Waiting
    <3>3. Entries(t) = Cardinality(Waiting(t)) - Debt(t) /\ Debt(t) \in {0, 1}
      BY DEF GoesOn, IInv, EntriesCounted, Debt
    <3>4. Entries(t) \in Nat /\ Cardinality(Waiting(t)) = 0
      BY <1>3, <3>2, WaitingFinite
    <3>5. Debt(t) = 0
      BY <3>3, <3>4
    <3>6. t \notin killed
      BY <2>2, <3>5 DEF Debt, GoesOn, IInv
    <3> QED BY <1>2, <3>5, <3>6 DEF Debt
  <2>3. CASE t = current /\ Top(current).ret # "gone"
    <3>1. ~Terminated(t)
      BY <2>3 DEF GoesOn, IInv
    <3>2. ~Terminated(t)'
      <4>1. CASE Height = 1
        <5>1. stack'[t][1] = f
          BY <1>4, <1>5, <2>3, <4>1 DEF TopBecomes
        <5> QED BY <1>6, <2>3, <5>1 DEF Terminated
      <4>2. CASE Height # 1
        <5>1. 1 \in 1..Height /\ 1 # Height
          BY <1>4, <4>2
        <5>2. stack'[t][1] = stack[t][1]
          BY <1>5, <2>3, <5>1 DEF TopBecomes
        <5> QED BY <3>1, <5>2 DEF Terminated
      <4> QED BY <4>1, <4>2
    <3> QED BY <1>2, <3>1, <3>2 DEF Debt
  <2> QED BY <2>1, <2>2, <2>3
<1>21. EntriesCounted'
  <2> SUFFICES ASSUME NEW t \in Threads
               PROVE  (Entries(t) = Cardinality(Waiting(t)) - Debt(t))'
    BY DEF EntriesCounted
  <2>1. Entries(t)' = Entries(t) - (IF t = h THEN 1 ELSE 0)
    <3>1. Count(Tail(queue), t) = Count(queue, t) - (IF queue[1] = t THEN 1 ELSE 0)
      BY <1>3, <1>8, CountRemoved
    <3>2. Entries(t) = Count(queue, t) /\ Entries(t)' = Count(Tail(queue), t)
      BY <1>2 DEF Entries, Count
    <3> QED BY <1>8, <3>1, <3>2
  <2>2. Cardinality(Waiting(t))' = Cardinality(Waiting(t)) - (IF t = h THEN 1 ELSE 0)
    <3>1. IsFiniteSet(Waiting(t)) /\ Cardinality(Waiting(t)) \in Nat
      BY <1>3, WaitingFinite
    <3>2. CASE t = h
      <4>1. Waiting(t)' = Waiting(t) \ {n} /\ n \in Waiting(t)
        BY <1>17, <1>19, <3>2
      <4>2. Cardinality(Waiting(t) \ {n}) = Cardinality(Waiting(t)) - 1
        BY <3>1, <4>1, FS_RemoveElement
      <4> QED BY <3>2, <4>1, <4>2
    <3>3. CASE t # h
      <4>1. Waiting(t)' = Waiting(t)
        BY <1>19, <3>3
      <4> QED BY <3>1, <3>3, <4>1
    <3> QED BY <3>2, <3>3
  <2>3. Entries(t) = Cardinality(Waiting(t)) - Debt(t) /\ Debt(t) \in {0, 1}
    BY DEF GoesOn, IInv, EntriesCounted, Debt
  <2>4. Entries(t) \in Nat /\ Cardinality(Waiting(t)) \in Nat
    BY <1>3, WaitingFinite
  <2> QED BY <1>20, <2>1, <2>2, <2>3, <2>4
<1>22. ~Terminated(current)'
  BY <1>2, <1>18 DEF Terminated
<1> QED BY <1>2, <1>3, <1>9, <1>10, <1>13, <1>21, <1>22 DEF GoesOn, IInv

----------------------------------------------------------------------------
\* Entering and leaving the timer's handler changes the height of the stack,
\* by a frame that is not counted.
Uncounted == {"burst", "resume", "enqueue", "eoi"}

HeightBecomes(n) ==
  /\ stack' \in [Threads -> Seq(Frame)] /\ Len(stack'[current]) = n
  /\ \A t \in Threads \ {current} : stack'[t] = stack[t]
  /\ \A i \in 1..n : i <= Height => stack'[current][i] = stack[current][i]
  /\ \A i \in 1..n : i > Height => stack'[current][i].pc \in Uncounted
  /\ \A i \in 1..Height : i > n => stack[current][i].pc \in Uncounted
  /\ stack'[current][n].pc \notin SwitchedOut

LEMMA HandlerMove ==
  ASSUME GoesOn, NEW n \in Nat \ {0}, HeightBecomes(n), StackShape(current)',
         Top(current).pc \notin SwitchedOut,
         UNCHANGED <<current, queue, killed>>, status' = "running",
         interrupts' \in BOOLEAN, ticks' \in Nat
  PROVE  GoesOn'
<1>1. TypeOK /\ (\A t \in Threads : StackShape(t)) /\ current \in Threads /\ current' = current
  BY DEF GoesOn, IInv, TypeOK
<1>2. TypeOK'
  BY <1>1 DEF TypeOK, HeightBecomes
<1>3. \A t \in Threads \ {current} : stack'[t] = stack[t]
  BY DEF HeightBecomes
<1>4. ASSUME NEW t \in Threads PROVE StackShape(t)'
  <2>1. CASE t = current
    BY <1>1, <2>1
  <2>2. CASE t # current
    BY <1>1, <1>3, <2>2 DEF StackShape
  <2> QED BY <2>1, <2>2
<1>5. Height \in Nat \ {0} /\ Height = Len(stack[current]) /\ Top(current) = stack[current][Height]
  BY RunningTop
<1>6. SwitchPoints'
  BY <1>1, <1>3 DEF GoesOn, IInv, SwitchPoints, HeightBecomes, Top
<1>7. stack'[current][1] = stack[current][1]
  BY <1>5 DEF HeightBecomes
<1>8. \A t \in Threads : Terminated(t)' = Terminated(t)
  BY <1>3, <1>7 DEF Terminated
<1>9. ASSUME NEW t \in Threads PROVE Waiting(t)' = Waiting(t)
  <2>1. CASE t # current
    BY <1>1, <1>3, <2>1 DEF Waiting
  <2>2. CASE t = current
    <3>1. Len(stack'[t]) = n /\ Len(stack[t]) = Height
      BY <1>5, <2>2 DEF HeightBecomes
    <3>2. ASSUME NEW i \in 1..n, i <= Height PROVE i \in Waiting(t)' <=> i \in Waiting(t)
      <4>1. stack'[t][i] = stack[t][i] /\ i \in 1..Height
        BY <2>2, <3>2 DEF HeightBecomes
      <4>2. i = n => stack[t][i].pc \notin SwitchedOut
        BY <2>2, <4>1 DEF HeightBecomes
      <4>3. i = Height => stack[t][i].pc \notin SwitchedOut
        BY <1>5, <2>2
      <4> QED BY <3>1, <4>1, <4>2, <4>3 DEF Waiting, SwitchedOut
    <3>3. \A i \in 1..n : i > Height => i \notin Waiting(t)'
      BY <2>2 DEF HeightBecomes, Uncounted, Waiting
    <3>4. \A i \in 1..Height : i > n => i \notin Waiting(t)
      BY <2>2 DEF HeightBecomes, Uncounted, Waiting
    <3>5. Waiting(t)' \subseteq 1..n /\ Waiting(t) \subseteq 1..Height
      BY <3>1 DEF Waiting
    <3>6. ASSUME NEW i \in 1..n, i \in Waiting(t)' PROVE i \in Waiting(t)
      BY <1>5, <3>2, <3>3, <3>6
    <3>7. ASSUME NEW i \in 1..Height, i \in Waiting(t) PROVE i \in Waiting(t)'
      <4>1. i <= n /\ i \in 1..n /\ i <= Height
        BY <1>5, <3>4, <3>7
      <4> QED BY <3>2, <3>7, <4>1
    <3> QED BY <3>5, <3>6, <3>7
  <2> QED BY <2>1, <2>2
<1>10. EntriesCounted'
  <2> SUFFICES ASSUME NEW t \in Threads
               PROVE  (Entries(t) = Cardinality(Waiting(t)) - Debt(t))'
    BY DEF EntriesCounted
  <2>1. Entries(t)' = Entries(t)
    BY DEF Entries
  <2>2. Debt(t)' = Debt(t)
    BY <1>8 DEF Debt
  <2> QED BY <2>1, <2>2, <1>9 DEF GoesOn, IInv, EntriesCounted
<1>11. ~Terminated(current)'
  BY <1>1, <1>8 DEF GoesOn, IInv
<1> QED BY <1>2, <1>4, <1>6, <1>10, <1>11 DEF GoesOn, IInv

LEMMA KeepsTimerInterrupt == GoesOn /\ TimerInterrupt => GoesOn'
<1> SUFFICES ASSUME GoesOn, TimerInterrupt PROVE GoesOn'
  OBVIOUS
<1> DEFINE g == [pc |-> "resume", ret |-> "eoi"]
           n == Height + 1
<1>1. /\ TypeOK /\ current \in Threads /\ stack \in [Threads -> Seq(Frame)]
      /\ stack[current] \in Seq(Frame) /\ ticks \in Nat /\ StackShape(current)
  BY DEF GoesOn, IInv, TypeOK
<1>2. ticks' \in Nat
  BY <1>1 DEF TimerInterrupt
<1>3. /\ interrupts /\ Height <= MaxNest /\ Top(current).pc \notin SwitchedOut
      /\ UNCHANGED <<current, queue, killed, status>>
  BY DEF TimerInterrupt, Height, GoesOn, IInv, SwitchPoints
<1>4. Height \in Nat \ {0} /\ Height = Len(stack[current]) /\ Top(current) = stack[current][Height]
  BY RunningTop
<1>5. CASE ticks' < Quantum
  <2>1. UNCHANGED <<interrupts, stack>>
    BY <1>5 DEF TimerInterrupt
  <2>2. HeightBecomes(Height)
    BY <1>1, <1>3, <1>4, <2>1 DEF HeightBecomes
  <2>3. StackShape(current)'
    BY <1>1, <1>3, <2>1 DEF StackShape
  <2> QED BY <1>1, <1>2, <1>3, <1>4, <2>1, <2>2, <2>3, HandlerMove DEF GoesOn, IInv, TypeOK
<1>6. CASE ~(ticks' < Quantum)
  <2>1. interrupts' = FALSE /\ stack' = [stack EXCEPT ![current] = Append(@, g)]
    BY <1>6 DEF TimerInterrupt
  <2>2. g \in Frame
    BY DEF Frame, Places
  <2>3. /\ stack'[current] = Append(stack[current], g)
        /\ stack' \in [Threads -> Seq(Frame)]
        /\ \A t \in Threads \ {current} : stack'[t] = stack[t]
    BY <1>1, <2>1, <2>2
  <2>4. /\ Len(stack'[current]) = n
        /\ \A i \in 1..Height : stack'[current][i] = stack[current][i]
        /\ stack'[current][n] = g
    BY <1>1, <1>4, <2>2, <2>3
  <2>5. n \in Nat \ {0} /\ n - 1 = Height /\ n \in 1..(MaxNest + 1) /\ MaxNest \in Nat
    BY <1>3, <1>4, SchedulerAssumption
  <2>6. HeightBecomes(n)
    BY <1>4, <2>3, <2>4, <2>5 DEF HeightBecomes, Uncounted, SwitchedOut
  <2>7. StackShape(current)'
    <3>1. /\ stack'[current][1] = stack[current][1] /\ current' = current
          /\ g.ret = "eoi" /\ g.pc = "resume"
      BY <1>3, <1>4, <2>4
    <3>2. \A i \in 2..n : /\ stack'[current][i].ret = "eoi"
                          /\ stack'[current][i].pc \notin {"start", "burst"}
      <4> SUFFICES ASSUME NEW i \in 2..n
                   PROVE  /\ stack'[current][i].ret = "eoi"
                          /\ stack'[current][i].pc \notin {"start", "burst"}
        OBVIOUS
      <4>1. i = n \/ i \in 2..Height
        BY <2>5
      <4> QED BY <1>1, <1>4, <2>4, <3>1, <4>1 DEF StackShape
    <3>3. \A i \in 1..(n - 1) : stack'[current][i].pc \notin {"start", "switched"}
      <4> SUFFICES ASSUME NEW i \in 1..Height
                   PROVE  stack[current][i].pc \notin {"start", "switched"}
        BY <2>4, <2>5
      <4>1. i = Height \/ i \in 1..(Height - 1)
        BY <1>4
      <4> QED BY <1>1, <1>3, <1>4, <4>1 DEF StackShape, SwitchedOut
    <3> HIDE DEF n, g
    <3> QED BY <1>1, <2>4, <2>5, <3>1, <3>2, <3>3 DEF StackShape
  <2> QED BY <1>2, <1>3, <2>1, <2>5, <2>6, <2>7, HandlerMove DEF GoesOn, IInv
<1> QED BY <1>5, <1>6

LEMMA KeepsInterruptReturn == GoesOn /\ InterruptReturn => GoesOn'
<1> SUFFICES ASSUME GoesOn, InterruptReturn PROVE GoesOn'
  OBVIOUS
<1> DEFINE n == Height - 1
           s == SubSeq(stack[current], 1, n)
<1>1. /\ TypeOK /\ current \in Threads /\ stack \in [Threads -> Seq(Frame)]
      /\ stack[current] \in Seq(Frame) /\ StackShape(current)
  BY DEF GoesOn, IInv, TypeOK
<1>2. Height \in Nat \ {0} /\ Height = Len(stack[current]) /\ Top(current) = stack[current][Height]
  BY RunningTop
<1>3. /\ Top(current).pc = "eoi" /\ interrupts' = TRUE
      /\ stack' = [stack EXCEPT ![current] = s]
      /\ UNCHANGED <<current, queue, ticks, killed, status>>
  BY DEF InterruptReturn, At, Height
<1>4. Height # 1
  BY <1>3, RunningTop DEF Fits
<1>5. /\ n \in Nat \ {0} /\ n <= Height /\ n \in 1..n /\ n < Height
      /\ n <= MaxNest + 1 /\ MaxNest \in Nat
  <2>1. Height \in 2..Height
    BY <1>2, <1>4, OneOrMore
  <2>2. Height <= MaxNest + 1 /\ MaxNest \in Nat
    BY RunningTop, SchedulerAssumption
  <2> QED BY <2>1, <2>2
<1>6. s \in Seq(Frame) /\ Len(s) = n /\ \A i \in 1..n : s[i] = stack[current][i]
  BY <1>1, <1>2, <1>5
<1> HIDE DEF s
<1>7. /\ stack'[current] = s /\ stack' \in [Threads -> Seq(Frame)]
      /\ \A t \in Threads \ {current} : stack'[t] = stack[t]
  BY <1>1, <1>3, <1>6
<1>8. stack[current][n].pc \notin SwitchedOut
  BY <1>1, <1>2, <1>5 DEF StackShape, SwitchedOut
<1>9. HeightBecomes(n)
  <2>1. \A i \in 1..Height : i > n => stack[current][i].pc \in Uncounted
    <3> SUFFICES ASSUME NEW i \in 1..Height, i > n
                 PROVE  stack[current][i].pc \in Uncounted
      OBVIOUS
    <3>1. i = Height
      BY <1>2
    <3> QED BY <1>2, <1>3, <3>1 DEF Uncounted
  <2>2. \A i \in 1..n : stack'[current][i] = stack[current][i] /\ ~(i > Height)
    BY <1>2, <1>5, <1>6, <1>7
  <2>3. stack'[current][n].pc \notin SwitchedOut
    BY <1>5, <1>8, <2>2
  <2> HIDE DEF n
  <2> QED BY <1>6, <1>7, <2>1, <2>2, <2>3 DEF HeightBecomes
<1>10. StackShape(current)'
  <2>1. Len(stack'[current]) = n /\ \A i \in 1..n : stack'[current][i] = stack[current][i]
    BY <1>6, <1>7
  <2>2. n \in 1..(MaxNest + 1) /\ 1 \in 1..n /\ Len(stack[current]) = Height
    BY <1>2, <1>5
  <2>3. \A i \in 2..n : i \in 2..Height /\ i \in 1..n
    BY <1>2, <1>5
  <2>4. \A i \in 1..(n - 1) : i \in 1..(Height - 1) /\ i \in 1..n
    BY <1>2, <1>5
  <2> HIDE DEF n
  <2> QED BY <1>1, <1>3, <2>1, <2>2, <2>3, <2>4 DEF StackShape
<1> QED BY <1>3, <1>5, <1>9, <1>10, HandlerMove DEF GoesOn, IInv, TypeOK, SwitchedOut

----------------------------------------------------------------------------
\* One that has left is counted for none.
LEMMA LeftForGood ==
  ASSUME NEW t \in Threads, StackShape(t), Terminated(t)
  PROVE  Waiting(t) = {}
<1>1. /\ stack[t][1].pc = "switched" /\ stack[t][1].ret = "gone"
      /\ Len(stack[t]) \in Nat \ {0}
  BY DEF Terminated, StackShape
<1>2. Len(stack[t]) = 1
  BY <1>1, OneOrBelow DEF StackShape
<1> QED BY <1>1, <1>2 DEF Waiting

\* What a step that changes none of this leaves true.
LEMMA NothingMoves ==
  ASSUME IInv, UNCHANGED <<current, queue, stack, interrupts, ticks, killed>>,
         status' \in {"running", "assert"}
  PROVE  IInv'
<1>1. TypeOK' /\ SwitchPoints' /\ ~Terminated(current)'
  BY DEF IInv, TypeOK, SwitchPoints, Terminated, Top
<1>2. \A t \in Threads : StackShape(t)'
  BY DEF IInv, StackShape
<1>3. EntriesCounted'
  BY DEF IInv, EntriesCounted, Entries, Waiting, Debt, Terminated
<1> QED BY <1>1, <1>2, <1>3 DEF IInv

\* terminate takes out one entry of a thread that waits, and nothing if it has
\* already left.
LEMMA KeepsTerminate ==
  ASSUME GoesOn, NEW u \in Killable \ killed, terminate(u), queue # <<>>
  PROVE  GoesOn'
<1>1. /\ TypeOK /\ (\A t \in Threads : StackShape(t)) /\ status = "running"
      /\ u \in Threads /\ queue \in Seq(Threads)
  BY SchedulerAssumption DEF GoesOn, IInv, TypeOK
<1>2. /\ u # current /\ queue' = RemoveFirst(queue, u) /\ killed' = killed \union {u}
      /\ UNCHANGED <<current, stack, interrupts, ticks, status>>
  BY DEF terminate
<1>3. /\ \A t \in Threads : StackShape(t)' /\ Waiting(t)' = Waiting(t)
      /\ \A t \in Threads : Terminated(t)' = Terminated(t)
      /\ SwitchPoints' /\ ~Terminated(current)'
  BY <1>1, <1>2 DEF GoesOn, IInv, StackShape, Waiting, Terminated, SwitchPoints, Top
<1>4. /\ \A t \in Threads : Entries(t) = Count(queue, t) /\ Entries(t) \in Nat
      /\ \A t \in Threads : Entries(t)' = Count(queue', t)
      /\ \A t \in Threads : Entries(t) = Cardinality(Waiting(t)) - Debt(t)
      /\ \A t \in Threads : Cardinality(Waiting(t)) \in Nat
  BY <1>1, WaitingFinite DEF GoesOn, IInv, EntriesCounted, Entries, Count
<1>5. Debt(u) = 0
  BY DEF Debt
<1>6. CASE Terminated(u)
  <2>1. Waiting(u) = {}
    BY <1>1, <1>6, LeftForGood
  <2>2. Count(queue, u) = 0
    BY <1>1, <1>4, <1>5, <2>1, WaitingFinite
  <2>3. \A i \in 1..Len(queue) : queue[i] # u
    <3>1. Count(queue, u) > 0 <=> \E i \in 1..Len(queue) : queue[i] = u
      BY <1>1, CountType
    <3>2. ~(Count(queue, u) > 0)
      BY <2>2
    <3> QED BY <3>1, <3>2
  <2>4. queue' = queue
    BY <1>1, <1>2, <2>3, RemovedFirst
  <2>5. \A t \in Threads : Debt(t)' = Debt(t)
    BY <1>2, <1>3, <1>6 DEF Debt
  <2>6. EntriesCounted'
    BY <1>3, <1>4, <2>4, <2>5 DEF EntriesCounted
  <2>7. TypeOK'
    BY <1>1, <1>2, <2>4 DEF TypeOK
  <2> QED BY <1>1, <1>2, <1>3, <2>6, <2>7 DEF GoesOn, IInv
<1>7. CASE ~Terminated(u)
  <2>1. Waiting(u) # {}
    BY <1>1, <1>2, <1>7, WaitsWhenOut DEF GoesOn, IInv
  <2>2. Count(queue, u) > 0
    BY <1>1, <1>4, <1>5, <2>1, WaitingFinite
  <2>3. \E i \in 1..Len(queue) : queue[i] = u
    BY <1>1, <2>2, CountType
  <2>4. PICK m \in 1..Len(queue) : /\ queue[m] = u /\ queue' \in Seq(Threads)
                                   /\ Without(queue, m, queue')
    BY <1>1, <1>2, <2>3, RemovedFirst
  <2>5. ASSUME NEW t \in Threads
        PROVE  /\ Entries(t)' = Entries(t) - (IF t = u THEN 1 ELSE 0)
               /\ Debt(t)' = Debt(t) + (IF t = u THEN 1 ELSE 0)
               /\ Debt(t) \in {0, 1}
    <3>1. Entries(t)' = Entries(t) - (IF t = u THEN 1 ELSE 0)
      BY <1>1, <1>4, <2>4, CountRemoved
    <3>2. CASE t = u
      BY <1>2, <1>3, <1>5, <1>7, <3>1, <3>2 DEF Debt
    <3>3. CASE t # u
      BY <1>2, <1>3, <3>1, <3>3 DEF Debt
    <3> QED BY <3>2, <3>3
  <2>6. EntriesCounted'
    <3> SUFFICES ASSUME NEW t \in Threads
                 PROVE  (Entries(t) = Cardinality(Waiting(t)) - Debt(t))'
      BY DEF EntriesCounted
    <3>1. Cardinality(Waiting(t))' = Cardinality(Waiting(t))
      BY <1>3
    <3> QED BY <1>4, <2>5, <3>1
  <2>7. TypeOK'
    BY <1>1, <1>2, <2>4 DEF TypeOK
  <2> QED BY <1>1, <1>2, <1>3, <2>6, <2>7 DEF GoesOn, IInv
<1> QED BY <1>6, <1>7

\* Its assertion fails with an empty queue, and nothing else happens then.
LEMMA TerminateAsserts ==
  ASSUME GoesOn, NEW u \in Killable \ killed, terminate(u), queue = <<>>
  PROVE  IInv'
<1>1. status' = "assert" /\ UNCHANGED <<current, queue, stack, interrupts, ticks, killed>>
  BY DEF terminate
<1> QED BY <1>1, NothingMoves DEF GoesOn

\* A victim that cannot have returned is in the queue, so the queue is not
\* empty.
LEMMA VictimInQueue ==
  ASSUME VictimsStay, GoesOn, NEW u \in Killable \ killed, terminate(u)
  PROVE  queue # <<>>
<1>1. u \in Threads /\ u \notin Terminating /\ u # current
  BY SchedulerAssumption DEF VictimsStay, terminate
<1>2. TypeOK /\ SwitchPoints /\ StackShape(u) /\ ~Terminated(u)
  BY <1>1 DEF GoesOn, IInv, StackShape, Terminated
<1>3. Waiting(u) # {}
  BY <1>1, <1>2, WaitsWhenOut
<1>4. /\ Entries(u) = Cardinality(Waiting(u)) - Debt(u) /\ Debt(u) = 0
      /\ Cardinality(Waiting(u)) \in Nat /\ Cardinality(Waiting(u)) # 0
      /\ Entries(u) = Count(queue, u) /\ queue \in Seq(Threads)
  BY <1>1, <1>2, <1>3, WaitingFinite DEF GoesOn, IInv, EntriesCounted, Debt, TypeOK
<1>5. Count(queue, u) > 0
  BY <1>4
<1>6. \E i \in 1..Len(queue) : queue[i] = u
  BY <1>4, <1>5, CountType
<1> QED BY <1>6

\* main() adds every thread once and dispatches to the first.
LEMMA InitIInv == Init => IInv
<1> SUFFICES ASSUME Init PROVE IInv
  OBVIOUS
<1>1. Order \in Seq(Threads) /\ Order # <<>> /\ 1 \in 1..Len(Order) /\ Order[1] \in Threads
  <2>1. PICK t \in Threads : TRUE
    BY SteadyAssumption
  <2>2. PICK i \in 1..Len(Order) : Order[i] = t
    BY SchedulerAssumption
  <2> QED BY <2>2, SchedulerAssumption
<1>2. Tail(Order) \in Seq(Threads) /\ Without(Order, 1, Tail(Order))
  BY <1>1, TailWithoutHead
<1>3. ASSUME NEW t \in Threads
      PROVE  Len(stack[t]) = 1 /\ stack[t][1] = [pc |-> "start", ret |-> "burst"]
  BY DEF Init
<1>4. TypeOK
  <2>1. <<[pc |-> "start", ret |-> "burst"]>> \in Seq(Frame)
    BY DEF Frame, Places
  <2> QED BY <1>1, <1>2, <2>1 DEF Init, TypeOK
<1>5. \A t \in Threads : StackShape(t)
  <2> SUFFICES ASSUME NEW t \in Threads PROVE StackShape(t)
    OBVIOUS
  <2>1. Len(stack[t]) = 1 /\ stack[t][1].pc = "start" /\ stack[t][1].ret = "burst"
    BY <1>3
  <2>2. 1 \in 1..(MaxNest + 1)
    BY SchedulerAssumption
  <2> QED BY <2>1, <2>2 DEF StackShape
<1>6. SwitchPoints /\ ~Terminated(current)
  BY <1>1, <1>3 DEF SwitchPoints, Top, Terminated, SwitchedOut, Init
<1>7. ASSUME NEW t \in Threads PROVE Count(Order, t) = 1
  <2>1. PICK i \in 1..Len(Order) : Order[i] = t
    BY SchedulerAssumption
  <2>2. {j \in 1..Len(Order) : Order[j] = t} = {i}
    BY <2>1, SchedulerAssumption
  <2> QED BY <2>2, FS_Singleton DEF Count
<1>8. EntriesCounted
  <2> SUFFICES ASSUME NEW t \in Threads
               PROVE  Entries(t) = Cardinality(Waiting(t)) - Debt(t)
    BY DEF EntriesCounted
  <2>1. Entries(t) = 1 - (IF Order[1] = t THEN 1 ELSE 0)
    <3>1. Count(Tail(Order), t) = Count(Order, t) - (IF Order[1] = t THEN 1 ELSE 0)
      BY <1>1, <1>2, CountRemoved
    <3>2. Entries(t) = Count(Tail(Order), t)
      BY DEF Entries, Count, Init
    <3> QED BY <1>7, <3>1, <3>2
  <2>2. Waiting(t) = IF t = current THEN {} ELSE {1}
    <3>1. /\ Waiting(t) \subseteq {1} /\ Len(stack[t]) = 1
          /\ stack[t][1].pc = "start" /\ stack[t][1].ret = "burst"
      BY <1>3 DEF Waiting
    <3>2. 1 \in Waiting(t) <=> t # current
      BY <3>1 DEF Waiting
    <3> QED BY <3>1, <3>2
  <2>3. Debt(t) = 0
    BY DEF Debt, Init
  <2>4. Cardinality({}) = 0 /\ Cardinality({1}) = 1
    BY FS_EmptySet, FS_Singleton
  <2>5. Order[1] = t <=> t = current
    BY DEF Init
  <2> QED BY <2>1, <2>2, <2>3, <2>4, <2>5
<1> QED BY <1>4, <1>5, <1>6, <1>8 DEF IInv, Init

LEMMA KernelGoesOn ==
  ASSUME GoesOn, Kernel \/ TimerInterrupt \/ pass_on_CPU \/ thread_shutdown
  PROVE  GoesOn'
<1>1. CASE Kernel
  BY <1>1, KeepsThreadStart, KeepsResumeAsserts, KeepsResumeEnqueues, KeepsYieldAsserts,
     KeepsSwitchTo, KeepsSwitchedIn, KeepsInterruptReturn DEF Kernel
<1>2. CASE TimerInterrupt
  BY <1>2, KeepsTimerInterrupt
<1>3. CASE pass_on_CPU \/ thread_shutdown
  BY <1>3, KeepsPassOn, KeepsShutdown
<1> QED BY <1>1, <1>2, <1>3

LEMMA NextKeepsIInv == IInv /\ [Next]_vars => IInv'
<1> SUFFICES ASSUME IInv, [Next]_vars PROVE IInv'
  OBVIOUS
<1>1. CASE UNCHANGED vars
  <2>1. UNCHANGED <<current, queue, stack, interrupts, ticks, killed>> /\ status' = status
    BY <1>1 DEF vars
  <2> QED BY <2>1, NothingMoves DEF IInv
<1>2. CASE Next
  <2>1. status = "running"
    BY <1>2 DEF Next, Kernel, thread_start, ResumeAsserts, ResumeEnqueues, YieldAsserts,
                SwitchTo, SwitchedIn, InterruptReturn, TimerInterrupt, pass_on_CPU,
                thread_shutdown, terminate, At
  <2>2. GoesOn
    BY <2>1 DEF GoesOn
  <2>3. CASE Kernel \/ TimerInterrupt \/ pass_on_CPU \/ thread_shutdown
    BY <2>2, <2>3, KernelGoesOn DEF GoesOn
  <2>4. CASE \E t \in Killable \ killed : terminate(t)
    <3>1. PICK u \in Killable \ killed : terminate(u)
      BY <2>4
    <3>2. CASE queue = <<>>
      BY <2>2, <3>1, <3>2, TerminateAsserts
    <3>3. CASE queue # <<>>
      BY <2>2, <3>1, <3>3, KeepsTerminate DEF GoesOn
    <3> QED BY <3>2, <3>3
  <2> QED BY <1>2, <2>3, <2>4 DEF Next
<1> QED BY <1>1, <1>2

----------------------------------------------------------------------------
\* The stacks of the threads keep their shape, the queue its type, and no
\* assertion but that of terminate ever fails.
THEOREM SchedulerInvariant == Spec => []IInv
BY InitIInv, NextKeepsIInv, PTL DEF Spec

\* When nobody terminates a thread that may have returned, no assertion of
\* resume, yield, terminate, enable_interrupts or disable_interrupts fails,
\* the queue tested with interrupts on is not empty when yield dequeues from it
\* with interrupts off, and thread_shutdown never returns.
THEOREM SchedulerNeverFails == VictimsStay => (Spec => []NothingFails)
<1> SUFFICES ASSUME VictimsStay PROVE Spec => []NothingFails
  OBVIOUS
<1>1. Init => GoesOn
  BY InitIInv DEF GoesOn, Init
<1>2. GoesOn /\ [Next]_vars => GoesOn'
  <2> SUFFICES ASSUME GoesOn, [Next]_vars PROVE GoesOn'
    OBVIOUS
  <2>1. CASE UNCHANGED vars
    <3>1. IInv' /\ status' = status
      BY <2>1, NextKeepsIInv DEF GoesOn, vars
    <3> QED BY <3>1 DEF GoesOn
  <2>2. CASE \E t \in Killable \ killed : terminate(t)
    BY <2>2, VictimInQueue, KeepsTerminate
  <2> QED BY <2>1, <2>2, KernelGoesOn DEF Next
<1>3. GoesOn => NothingFails
  BY DEF GoesOn, NothingFails
<1> QED BY <1>1, <1>2, <1>3, PTL DEF Spec

\* The ready queue holds one entry of a thread for each of its frames that
\* waits inside yield, however interrupts fall between resume and yield.
THEOREM QueueMatchesFrames == Spec => []EntriesMatchFrames
<1>1. IInv => EntriesMatchFrames
  <2> SUFFICES ASSUME IInv, NEW t \in Threads \ killed
               PROVE  Entries(t) = Cardinality(Waiting(t))
    BY DEF EntriesMatchFrames
  <2>1. Debt(t) = 0 /\ Entries(t) = Cardinality(Waiting(t)) - Debt(t)
    BY DEF Debt, IInv, EntriesCounted
  <2>2. Cardinality(Waiting(t)) \in Nat
    BY WaitingFinite DEF IInv
  <2> QED BY <2>1, <2>2
<1> QED BY <1>1, SchedulerInvariant, PTL

\* A thread that is not killed runs, has terminated, or has an entry that will
\* give it the CPU.
THEOREM NobodyLost == Spec => []NoThreadLost
<1>1. IInv => NoThreadLost
  <2> SUFFICES ASSUME IInv, NEW t \in Threads \ killed, t # current, ~Terminated(t)
               PROVE  Entries(t) > 0
    BY DEF NoThreadLost
  <2>1. Waiting(t) # {}
    BY WaitsWhenOut DEF IInv
  <2>2. Debt(t) = 0 /\ Entries(t) = Cardinality(Waiting(t)) - Debt(t)
    BY DEF Debt, IInv, EntriesCounted
  <2>3. Cardinality(Waiting(t)) \in Nat /\ Cardinality(Waiting(t)) # 0
    BY <2>1, WaitingFinite DEF IInv
  <2> QED BY <2>2, <2>3
<1> QED BY <1>1, SchedulerInvariant, PTL

\* thread_shutdown may be preempted, but once it has switched away nothing
\* dispatches the thread whose stack it has freed.
THEOREM TerminatedNeverReturns == Spec => []TerminatedStaysOut
<1>1. IInv => TerminatedStaysOut
  <2> SUFFICES ASSUME IInv, NEW t \in Threads, Terminated(t)
               PROVE  t # current /\ Entries(t) = 0
    BY DEF TerminatedStaysOut
  <2>1. t # current
    BY DEF IInv
  <2>2. Waiting(t) = {}
    BY LeftForGood DEF IInv
  <2>3. Debt(t) = 0 /\ Entries(t) = Cardinality(Waiting(t)) - Debt(t)
    BY DEF Debt, IInv, EntriesCounted
  <2> QED BY <2>1, <2>2, <2>3, FS_EmptySet
<1> QED BY <1>1, SchedulerInvariant, PTL

\* A killed thread that is dispatched through an entry left in the queue never
\* gets out of the interrupt handlers on its stack.
THEOREM KilledStaysInHandlers == Spec => []KilledRunsNoUserCode
<1>1. IInv => KilledRunsNoUserCode
  <2> SUFFICES ASSUME IInv, current \in killed, Len(stack[current]) <= 1
               PROVE  Top(current).pc # "burst"
    BY DEF KilledRunsNoUserCode
  <2>1. Height = 1 /\ current \in Threads /\ Top(current) = stack[current][1]
    <3>1. current \in Threads
      BY DEF IInv, TypeOK
    <3>2. Len(stack[current]) \in 1..(MaxNest + 1) /\ MaxNest \in Nat
      BY <3>1, SchedulerAssumption DEF IInv, StackShape
    <3>3. \A n \in 1..(MaxNest + 1) : n <= 1 => n = 1
      BY <3>2
    <3>4. Len(stack[current]) = 1
      BY <3>2, <3>3
    <3> QED BY <3>1, <3>4 DEF Height, Top
  <2>2. Entries(current) = Cardinality(Waiting(current)) - 1
    BY <2>1 DEF IInv, EntriesCounted, Debt
  <2>3. Entries(current) \in Nat /\ Cardinality(Waiting(current)) \in Nat
    BY <2>1, WaitingFinite DEF IInv
  <2>4. Waiting(current) # {}
    BY <2>1, <2>2, <2>3, WaitingFinite DEF IInv
  <2> QED BY <2>1, <2>4 DEF Waiting, Height
<1> QED BY <1>1, SchedulerInvariant, PTL

=============================================================================
