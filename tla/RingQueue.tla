----------------------------- MODULE RingQueue -----------------------------
(* The ready queue: the arrays of the MP5 scheduler (scheduler.C), which    *)
(* MP6 moved into class Queue (queue.H). A failed assertion halts the       *)
(* machine. A thread may be queued more than once.                          *)
EXTENDS Integers

CONSTANTS
  QueueThreads,  \* the threads that may be queued
  Capacity,      \* QUEUE_SIZE
  NULL           \* the contents of a slot that was never written

ASSUME QueueAssumption == Capacity \in Nat \ {0} /\ NULL \notin QueueThreads

VARIABLES
  array,     \* ready_queue
  queue_size,
  front,
  rear,
  out,       \* what dequeue or get_head returned last
  aborted

ringVars == <<array, queue_size, front, rear, out, aborted>>

Indexes == 0..(Capacity - 1)
Slot(k) == (front + k) % Capacity

RingInit ==
  /\ array = [i \in Indexes |-> NULL]
  /\ queue_size = 0
  /\ front = 0
  /\ rear = -1
  /\ out = NULL
  /\ aborted = FALSE

Advance(i) == (i + 1) % Capacity

\* Where remove leaves rear.
StepBack == IF rear = 0 THEN Capacity - 1 ELSE rear - 1

is_empty == queue_size = 0

\* The assertion of a call fails when condition does not hold.
Asserting(condition, call) ==
  IF condition THEN call /\ aborted' = FALSE
  ELSE /\ aborted' = TRUE
       /\ UNCHANGED <<array, queue_size, front, rear, out>>

enqueue(t) ==
  Asserting(queue_size < Capacity,
    /\ rear' = Advance(rear)
    /\ array' = [array EXCEPT ![rear'] = t]
    /\ queue_size' = queue_size + 1
    /\ UNCHANGED <<front, out>>)

dequeue ==
  Asserting(~is_empty,
    /\ out' = array[front]
    /\ front' = Advance(front)
    /\ queue_size' = queue_size - 1
    /\ UNCHANGED <<array, rear>>)

get_head ==
  Asserting(~is_empty,
    /\ out' = array[front]
    /\ UNCHANGED <<array, queue_size, front, rear>>)

\* Slip: the loop starts one slot late.
Shifted_late(first) ==
  [i \in Indexes |->
    LET k == (i - front + Capacity) % Capacity
    IN  IF k <= first \/ k >= queue_size THEN array[i] ELSE array[Slot(k + 1)]]

\* The loop of remove copies every slot from the first match on from its
\* successor. When the queue is full the last slot's successor is the first
\* slot, which the loop may already have overwritten.
Shifted(first) ==
  [i \in Indexes |->
    LET k == (i - front + Capacity) % Capacity   \* offset from the front
    IN  IF k < first \/ k >= queue_size THEN array[i]
        ELSE IF k = Capacity - 1 /\ first = 0 THEN array[Slot(1)]
        ELSE array[Slot(k + 1)]]

remove(t) ==
  Asserting(~is_empty,
    /\ \/ \E first \in 0..(queue_size - 1) :
            /\ array[Slot(first)] = t
            /\ \A k \in 0..(first - 1) : array[Slot(k)] # t
            /\ array' = Shifted(first)
            /\ queue_size' = queue_size - 1
            /\ rear' = StepBack
       \/ /\ \A k \in 0..(queue_size - 1) : array[Slot(k)] # t
          /\ UNCHANGED <<array, queue_size, rear>>
    /\ UNCHANGED <<front, out>>)

\* abort() is an endless loop.
Halted == aborted /\ UNCHANGED ringVars

RingNext ==
  \/ /\ ~aborted
     /\ dequeue \/ get_head \/ \E t \in QueueThreads : enqueue(t) \/ remove(t)
  \/ Halted

RingSpec == RingInit /\ [][RingNext]_ringVars

----------------------------------------------------------------------------
\* Every index stays inside the array; rear is -1 until the first enqueue.
RingTypeOK ==
  /\ array \in [Indexes -> QueueThreads \union {NULL}]
  /\ queue_size \in 0..Capacity
  /\ front \in Indexes
  /\ rear \in Indexes \union {-1}
  /\ out \in QueueThreads \union {NULL}
  /\ aborted \in BOOLEAN

\* front, rear and queue_size are three records of the same two ends: the
\* next slot enqueue writes is the one queue_size slots after the front, also
\* after remove has moved rear back, even past the end of the array.
IndexesAgree == (rear + 1) % Capacity = (front + queue_size) % Capacity

\* The slots in use hold threads, never the NULL of a fresh array, so dequeue
\* cannot hand NULL to the dispatcher.
LiveSlotsHoldThreads ==
  \A k \in 0..(queue_size - 1) : array[Slot(k)] \in QueueThreads

\* The queued threads in order, as a sequence.
Content == [j \in 1..queue_size |-> array[Slot(j - 1)]]

\* The arrays implement the FIFO queue.
Abstract == INSTANCE FIFO WITH Threads <- QueueThreads, content <- Content

ImplementsFIFO == Abstract!Spec
=============================================================================
