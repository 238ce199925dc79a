---------------------------- MODULE BlockingDisk ----------------------------
(* The scheduler and the blocking disk of MP6 (scheduler.C, queue.H,        *)
(* blocking_disk.C), in the two builds that poll the disk: the default one, *)
(* where a thread issues its command at once, and _THREAD_SAFE, where it    *)
(* waits until no other command is under way. Threads run with interrupts   *)
(* off and give up the CPU only in yield, so a step is what a thread does   *)
(* between two calls of it. The queues are the FIFO queues that module      *)
(* RingQueue implements.                                                    *)
EXTENDS Integers, Sequences, FiniteSets

CONSTANTS
  Threads,   \* the threads main() creates
  Order,     \* in the order of main(): it dispatches to the first one
  Builds     \* [safe : BOOLEAN, io : SUBSET Threads]: is _THREAD_SAFE defined,
             \* and which threads use the disk

ASSUME ThreadsAssumption ==
  /\ Order \in Seq(Threads) /\ Len(Order) = Cardinality(Threads)
  /\ {Order[i] : i \in 1..Len(Order)} = Threads

\* Some thread never uses the disk, and without _THREAD_SAFE only one does.
ASSUME BuildsAssumption ==
  \A b \in Builds :
    /\ b.safe \in BOOLEAN /\ b.io \subseteq Threads /\ b.io # Threads
    /\ ~b.safe => \A s, t \in b.io : s = t

VARIABLES
  build,        \* the build that runs
  current,      \* current_thread
  ready_queue,
  block_queue,
  pc,           \* where every thread goes on
  wait_CPU,     \* the thread whose command is ready has left block_queue
  issued,
  done,
  device,       \* the drive: whose command it executes, if any, and DRQ
  status        \* "running", or "assert"

vars == <<build, current, ready_queue, block_queue, pc, wait_CPU, issued, done,
          device, status>>

Nobody == "nobody"
ASSUME NobodyAssumption == Nobody \notin Threads

Idle == [owner |-> Nobody, drq |-> FALSE]

Init ==
  /\ build \in Builds
  /\ current = Order[1]
  /\ ready_queue = Tail(Order)
  /\ block_queue = <<>>
  /\ pc = [t \in Threads |-> "run"]
  /\ wait_CPU = FALSE
  /\ issued = FALSE
  /\ done = TRUE
  /\ device = Idle
  /\ status = "running"

At(label) == status = "running" /\ pc[current] = label
GoTo(label) == pc' = [pc EXCEPT ![current] = label]

----------------------------------------------------------------------------
(* The scheduler.                                                           *)

\* yield polls the disk: DRQ is up, somebody waits for it, and nobody has been
\* resumed for it yet.
Polled == device.drq /\ block_queue # <<>> /\ ~wait_CPU

\* Slip: the queue is looked at while a command is under way.
need_issued_always(q) == q # <<>>

need_issued(q) == ~issued /\ q # <<>>

\* yield, called with this ready queue: the thread that the disk is ready for
\* joins it, then the head of block_queue is dispatched to if it has to issue
\* its command, and the front of the ready queue otherwise. The head stays in
\* block_queue.
Yield(ready) ==
  LET blocked == IF Polled THEN Tail(block_queue) ELSE block_queue
      queue == IF Polled THEN Append(ready, Head(block_queue)) ELSE ready
  IN  /\ block_queue' = blocked
      /\ wait_CPU' = (wait_CPU \/ Polled)
      /\ IF build.safe /\ need_issued(blocked)
           THEN current' = Head(blocked) /\ ready_queue' = queue /\ status' = status
         ELSE IF queue # <<>>
           THEN current' = Head(queue) /\ ready_queue' = Tail(queue) /\ status' = status
         ELSE status' = "assert" /\ current' = current /\ ready_queue' = queue
      /\ UNCHANGED <<build, issued, done, device>>

\* Slip: yield without resume.
pass_on_CPU_lost == At("run") /\ Yield(ready_queue) /\ pc' = pc

\* pass_on_CPU: resume(current), then yield.
pass_on_CPU ==
  /\ At("run")
  /\ Yield(Append(ready_queue, current))
  /\ pc' = pc

----------------------------------------------------------------------------
(* The disk. read and write take the same steps.                            *)

\* Slips: the thread enters the wrong queue, or issues without waiting.
Enter_ready ==
  /\ At("run") /\ current \in build.io
  /\ ready_queue' = Append(ready_queue, current)
  /\ GoTo(IF build.safe THEN "enqueued" ELSE "issue")
  /\ UNCHANGED <<build, current, block_queue, wait_CPU, issued, done, device, status>>

Enter_at_once ==
  /\ At("run") /\ current \in build.io
  /\ block_queue' = Append(block_queue, current)
  /\ GoTo("issue")
  /\ UNCHANGED <<build, current, ready_queue, wait_CPU, issued, done, device, status>>

\* A thread calls read or write and enters block_queue.
Enter ==
  /\ At("run") /\ current \in build.io
  /\ block_queue' = Append(block_queue, current)
  /\ GoTo(IF build.safe THEN "enqueued" ELSE "issue")
  /\ UNCHANGED <<build, current, ready_queue, wait_CPU, issued, done, device, status>>

\* With _THREAD_SAFE it yields until it may issue its command.
WaitToIssue ==
  /\ At("enqueued")
  /\ Yield(ready_queue)
  /\ GoTo("issue")

\* issue_operation: the drive forgets what it was doing.
Issue ==
  /\ At("issue")
  /\ device' = [owner |-> current, drq |-> FALSE]
  /\ issued' = TRUE
  /\ done' = FALSE
  /\ GoTo("issued")
  /\ UNCHANGED <<build, current, ready_queue, block_queue, wait_CPU, status>>

WaitForDisk ==
  /\ At("issued")
  /\ Yield(ready_queue)
  /\ GoTo("transfer")

\* Slips: one flag is not reset.
Transfer_waiting ==
  /\ At("transfer")
  /\ device' = Idle
  /\ done' = TRUE
  /\ issued' = FALSE
  /\ GoTo("run")
  /\ UNCHANGED <<build, current, ready_queue, block_queue, wait_CPU, status>>

Transfer_issued ==
  /\ At("transfer")
  /\ device' = Idle
  /\ wait_CPU' = FALSE
  /\ done' = TRUE
  /\ GoTo("run")
  /\ UNCHANGED <<build, current, ready_queue, block_queue, issued, status>>

\* The 256 words go through the data port, which ends the command.
Transfer ==
  /\ At("transfer")
  /\ device' = Idle
  /\ wait_CPU' = FALSE
  /\ done' = TRUE
  /\ issued' = FALSE
  /\ GoTo("run")
  /\ UNCHANGED <<build, current, ready_queue, block_queue, status>>

\* The drive has found the sector.
RaiseDRQ ==
  /\ device.owner # Nobody /\ ~device.drq
  /\ device' = [device EXCEPT !.drq = TRUE]
  /\ UNCHANGED <<build, current, ready_queue, block_queue, pc, wait_CPU, issued,
                 done, status>>

Kernel == pass_on_CPU \/ Enter \/ WaitToIssue \/ Issue \/ WaitForDisk \/ Transfer

Next == Kernel \/ RaiseDRQ

\* The thread functions loop for ever and never compute for ever; the drive
\* answers every command.
Spec == Init /\ [][Next]_vars /\ WF_vars(Kernel) /\ WF_vars(RaiseDRQ)

----------------------------------------------------------------------------
\* No queue ever holds more entries than there are threads, so the arrays of
\* queue.H never fill up.
TypeOK ==
  /\ build \in Builds
  /\ current \in Threads
  /\ ready_queue \in Seq(Threads) /\ Len(ready_queue) <= Cardinality(Threads)
  /\ block_queue \in Seq(Threads) /\ Len(block_queue) <= Cardinality(Threads)
  /\ pc \in [Threads -> {"run", "enqueued", "issue", "issued", "transfer"}]
  /\ wait_CPU \in BOOLEAN /\ issued \in BOOLEAN /\ done \in BOOLEAN
  /\ device \in [owner : Threads \union {Nobody}, drq : BOOLEAN]
  /\ status \in {"running", "assert"}

\* yield always finds a thread to run, although a thread that waits for the
\* disk is in no ready queue.
NothingFails == status = "running"

Times(q, t) == Cardinality({i \in 1..Len(q) : q[i] = t})

\* Every thread is in exactly one place. The running thread is in no queue,
\* except that one on its way to wait for the disk is still in block_queue.
OnePlace ==
  \A t \in Threads :
    /\ Times(ready_queue, t) + Times(block_queue, t) <= 1
    /\ IF t = current
         THEN Times(block_queue, t) = 1 <=> pc[t] \in {"enqueued", "issue", "issued"}
         ELSE Times(ready_queue, t) + Times(block_queue, t) = 1

\* A command is issued only while the drive is idle: no thread overwrites the
\* command of another one that still waits for its data.
NoCommandLost == At("issue") => device = Idle

\* A thread moves data only when the drive is ready to, and for its own
\* command: nobody gets the sector somebody else asked for.
TransfersOwnData == At("transfer") => device = [owner |-> current, drq |-> TRUE]

\* The thread that issued the command is at the head of block_queue until the
\* disk is ready, so the thread yield resumes is the one the data is for, and
\* wait_CPU says whether it has left.
HeadIssued ==
  \A t \in Threads : device.owner = t =>
    IF wait_CPU THEN device.drq /\ Times(block_queue, t) = 0
    ELSE block_queue # <<>> /\ Head(block_queue) = t

\* The three flags and the drive tell the same story at every switch.
FlagsAgree ==
  /\ issued <=> device # Idle
  /\ done <=> ~issued
  /\ wait_CPU => issued

\* Every read and write completes, whatever the other threads do with the
\* disk, and every thread gets the CPU again and again.
OperationsComplete ==
  \A t \in Threads :
    /\ (pc[t] # "run") ~> (pc[t] = "run")
    /\ []<>(current = t)
=============================================================================
