---------------------------- MODULE RRScheduler ----------------------------
(* The round-robin scheduler of MP5: scheduler.C, thread.C, the low-level   *)
(* context switch and the end-of-quantum timer of simple_timer.C. A thread  *)
(* is a stack of frames: its thread function at the bottom, one frame for   *)
(* every timer interrupt it has not returned from yet above it. Steps are   *)
(* cut where an interrupt can arrive. The ready queue is the FIFO queue     *)
(* that module RingQueue implements.                                        *)
EXTENDS Integers, Sequences, FiniteSets

CONSTANTS
  Threads,      \* the threads main() creates
  Order,        \* the threads in the order of main(): it dispatches to the
                \* first and adds the others to the queue
  Terminating,  \* threads whose function may return
  Killable,     \* threads that another thread may terminate
  Capacity,     \* QUEUE_SIZE
  Quantum,      \* ticks in a quantum (5 in the code)
  MaxNest       \* bound on the interrupts nested on one stack

ASSUME SchedulerAssumption ==
  /\ Order \in Seq(Threads)
  /\ \A t \in Threads : \E i \in 1..Len(Order) : Order[i] = t
  /\ \A i, j \in 1..Len(Order) : Order[i] = Order[j] => i = j
  /\ Terminating \subseteq Threads /\ Killable \subseteq Threads
  /\ Capacity \in Nat /\ Quantum \in Nat \ {0} /\ MaxNest \in Nat

\* A thread is queued at most once for every frame on its stack.
ASSUME CapacityAssumption == Cardinality(Threads) * (MaxNest + 1) <= Capacity

\* Some thread runs for ever and is nobody's victim, as fun3 and fun4 do.
ASSUME SteadyAssumption == Threads \ (Terminating \union Killable) # {}

VARIABLES
  current,   \* current_thread
  queue,     \* the ready queue, front first
  stack,     \* the frames of every thread, innermost last
  interrupts, \* the interrupt flag of the CPU
  ticks,     \* ticks of the EOQTimer, counted up to Quantum
  killed,    \* threads that another thread has terminated
  status     \* "running", "assert" (machine halted) or "wild" (undefined)

vars == <<current, queue, stack, interrupts, ticks, killed, status>>

(* A frame is where it stands, and where it goes on when its call of yield  *)
(* returns: "burst" in the thread function, "eoi" in the interrupt handler, *)
(* "gone" in thread_shutdown, whose own return address is 0.                *)

Top(t) == stack[t][Len(stack[t])]
At(pc) == status = "running" /\ Top(current).pc = pc
GoTo(pc) == [stack EXCEPT ![current][Len(stack[current])].pc = pc]

\* main() has added every thread but the first and dispatched to that one. A
\* thread starts with the flags setup_context gives it: interrupts off.
Init ==
  /\ current = Order[1]
  /\ queue = Tail(Order)
  /\ stack = [t \in Threads |-> <<[pc |-> "start", ret |-> "burst"]>>]
  /\ interrupts = FALSE
  /\ ticks = 0
  /\ killed = {}
  /\ status = "running"

\* sti and cli assert that they change the flag.
Sti == IF interrupts THEN status' = "assert" /\ interrupts' = interrupts
                     ELSE status' = "running" /\ interrupts' = TRUE

thread_start ==
  /\ At("start")
  /\ interrupts' = TRUE
  /\ stack' = GoTo("burst")
  /\ UNCHANGED <<current, queue, ticks, killed, status>>

\* The thread function ends its burst: pass_on_CPU calls resume(current).
pass_on_CPU ==
  /\ At("burst")
  /\ stack' = GoTo("resume")
  /\ UNCHANGED <<current, queue, interrupts, ticks, killed, status>>

\* Slip: a thread that returns is put back into the queue.
thread_shutdown_resumes ==
  /\ At("burst") /\ current \in Terminating
  /\ stack' = [stack EXCEPT ![current][Len(stack[current])] =
                 [pc |-> "resume", ret |-> "gone"]]
  /\ UNCHANGED <<current, queue, interrupts, ticks, killed, status>>

\* The thread function returns: thread_shutdown calls terminate(current),
\* which calls yield.
thread_shutdown ==
  /\ At("burst") /\ current \in Terminating
  /\ stack' = [stack EXCEPT ![current][Len(stack[current])] =
                 [pc |-> "yield", ret |-> "gone"]]
  /\ UNCHANGED <<current, queue, interrupts, ticks, killed, status>>

\* Slip: the search starts behind the front.
RemoveFirst_behind_front(q, t) ==
  LET hits == {i \in 2..Len(q) : q[i] = t}
  IN  IF hits = {} THEN q
      ELSE LET m == CHOOSE i \in hits : \A j \in hits : i <= j
           IN  SubSeq(q, 1, m - 1) \o SubSeq(q, m + 1, Len(q))

\* The first entry of t is taken out of the queue.
RemoveFirst(q, t) ==
  LET hits == {i \in 1..Len(q) : q[i] = t}
  IN  IF hits = {} THEN q
      ELSE LET m == CHOOSE i \in hits : \A j \in hits : i <= j
           IN  SubSeq(q, 1, m - 1) \o SubSeq(q, m + 1, Len(q))

\* The thread function calls terminate(t) for another thread. The assertion
\* wants a thread, any thread, in the queue; then the victim's first entry is
\* removed with interrupts off. An interrupt between the two is left out: if it
\* empties the queue the code removes nothing where this step fails.
terminate(t) ==
  /\ At("burst") /\ t # current
  /\ IF queue # <<>>
       THEN /\ queue' = RemoveFirst(queue, t)
            /\ killed' = killed \union {t}
            /\ status' = status
       ELSE status' = "assert" /\ UNCHANGED <<queue, killed>>
  /\ UNCHANGED <<current, stack, interrupts, ticks>>

\* resume: the assertion, tested before interrupts are turned off,
ResumeAsserts ==
  /\ At("resume")
  /\ IF Len(queue) < Capacity
       THEN stack' = GoTo("enqueue") /\ status' = status
       ELSE stack' = stack /\ status' = "assert"
  /\ UNCHANGED <<current, queue, interrupts, ticks, killed>>

\* and the enqueue with interrupts off. They are on afterwards, whatever they
\* were before. Every caller goes on to yield.
ResumeEnqueues ==
  /\ At("enqueue")
  /\ queue' = Append(queue, current)
  /\ interrupts' = TRUE
  /\ stack' = GoTo("yield")
  /\ UNCHANGED <<current, ticks, killed, status>>

\* yield: the assertion, tested before interrupts are turned off,
YieldAsserts ==
  /\ At("yield")
  /\ IF queue # <<>>
       THEN stack' = GoTo("switch") /\ status' = status
       ELSE stack' = stack /\ status' = "assert"
  /\ UNCHANGED <<current, queue, interrupts, ticks, killed>>

\* Slip: front is not advanced.
SwitchTo_keeps_front ==
  /\ At("switch") /\ queue # <<>>
  /\ current' = Head(queue)
  /\ stack' = GoTo("switched")
  /\ ticks' = 0
  /\ interrupts' = FALSE
  /\ UNCHANGED <<queue, killed, status>>

\* Slip: interrupts are never turned off.
SwitchTo_interruptible ==
  /\ At("switch") /\ queue # <<>>
  /\ current' = Head(queue)
  /\ queue' = Tail(queue)
  /\ stack' = GoTo("switched")
  /\ ticks' = 0
  /\ UNCHANGED <<interrupts, killed, status>>

\* and the dequeue, the timer's reset and the context switch with interrupts
\* off. The next thread's flags have them off, too: it was switched away
\* from in the same place, or it starts.
SwitchTo ==
  /\ At("switch")
  /\ IF queue = <<>>
       THEN status' = "wild" /\ UNCHANGED <<current, queue, stack, interrupts, ticks>>
       ELSE /\ current' = Head(queue)
            /\ queue' = Tail(queue)
            /\ stack' = GoTo("switched")
            /\ ticks' = 0
            /\ interrupts' = FALSE
            /\ status' = status
  /\ killed' = killed

\* dispatch_to returns in the thread that was switched in, and yield enables
\* interrupts and returns: from thread_shutdown, to address 0.
SwitchedIn ==
  /\ At("switched")
  /\ stack' = GoTo(Top(current).ret)
  /\ IF Top(current).ret = "gone" THEN status' = "wild" /\ interrupts' = TRUE
                                  ELSE Sti
  /\ UNCHANGED <<current, queue, ticks, killed>>

\* Slip: the handler only counts.
TimerInterrupt_counts ==
  /\ status = "running" /\ interrupts
  /\ ticks' = IF ticks < Quantum THEN ticks + 1 ELSE ticks
  /\ UNCHANGED <<current, queue, stack, interrupts, killed, status>>

\* A timer interrupt: the stub turns interrupts off, EOQTimer counts the tick
\* and acknowledges it. When the quantum is not used up the handler returns
\* at once; otherwise it calls resume(current).
TimerInterrupt ==
  /\ status = "running" /\ interrupts /\ Len(stack[current]) <= MaxNest
  /\ ticks' = IF ticks < Quantum THEN ticks + 1 ELSE ticks
  /\ IF ticks' < Quantum
       THEN UNCHANGED <<interrupts, stack>>
       ELSE /\ interrupts' = FALSE
            /\ stack' = [stack EXCEPT ![current] =
                 Append(@, [pc |-> "resume", ret |-> "eoi"])]
  /\ UNCHANGED <<current, queue, killed, status>>

\* The handler returns and iret restores the flags of the interrupted code.
InterruptReturn ==
  /\ At("eoi")
  /\ interrupts' = TRUE
  /\ stack' = [stack EXCEPT ![current] = SubSeq(@, 1, Len(@) - 1)]
  /\ UNCHANGED <<current, queue, ticks, killed, status>>

\* Code that runs to its end unless interrupted.
Kernel ==
  \/ thread_start \/ ResumeAsserts \/ ResumeEnqueues \/ YieldAsserts \/ SwitchTo
  \/ SwitchedIn \/ InterruptReturn

Next ==
  \/ Kernel \/ TimerInterrupt
  \/ pass_on_CPU \/ thread_shutdown
  \/ \E t \in Killable \ killed : terminate(t)

\* The CPU executes instructions and the timer keeps firing. A thread
\* function may compute for ever.
Spec == Init /\ [][Next]_vars /\ WF_vars(Kernel) /\ WF_vars(TimerInterrupt)

----------------------------------------------------------------------------
\* What the caller of terminate owes: it names no thread whose function may
\* have returned, for the queue may then be empty and the assertion fail.
VictimsStay == Killable \cap Terminating = {}

\* No interleaving of interrupts with resume, yield and terminate makes an
\* assertion of theirs fail, dequeues from an empty queue although the queue
\* was tested with interrupts on, or lets thread_shutdown return.
NothingFails == status = "running"

\* A thread has as many entries in the ready queue as it has frames that put
\* it there and have not been switched back in since: the window between
\* resume and yield may enter a thread several times, but never loses or
\* invents an entry.
Entries(t) == Cardinality({i \in 1..Len(queue) : queue[i] = t})

Waiting(t) ==
  {i \in 1..Len(stack[t]) :
     LET f == stack[t][i]
         running == t = current /\ i = Len(stack[t])
     IN  \/ f.pc \in {"yield", "switch"} /\ f.ret # "gone"
         \/ f.pc = "switched" /\ f.ret # "gone" /\ ~running
         \/ f.pc = "start" /\ ~running}

EntriesMatchFrames ==
  \A t \in Threads \ killed : Entries(t) = Cardinality(Waiting(t))

\* A thread that has not terminated has the CPU or waits for it.
Terminated(t) == stack[t][1].pc = "switched" /\ stack[t][1].ret = "gone"

NoThreadLost ==
  \A t \in Threads \ killed : t = current \/ Terminated(t) \/ Entries(t) > 0

\* A thread that terminated itself is never dispatched again.
TerminatedStaysOut ==
  \A t \in Threads : Terminated(t) => t # current /\ Entries(t) = 0

\* A thread that was killed never executes its own code again, even if an
\* entry of it is left in the queue.
KilledRunsNoUserCode ==
  \A t \in killed : t = current => Len(stack[t]) > 1 \/ Top(t).pc # "burst"

\* Round robin: whoever has not terminated gets the CPU again and again, even
\* if other threads never end their bursts.
NobodyStarves ==
  \A t \in Threads :
    []<>(current = t) \/ <>(Terminated(t) \/ t \in killed)

\* scheduler.H says of terminate: the thread is removed from the scheduler in
\* preparation for its destruction. The code removes its first entry.
KilledIsRemoved == \A t \in killed : t # current /\ Entries(t) = 0
=============================================================================
